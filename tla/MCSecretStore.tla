--------------------------- MODULE MCSecretStore ----------------------------
(***************************************************************************)
(* A provider with one secret, Telegram with two, and the secret of a      *)
(* provider that is gone.                                                  *)
(***************************************************************************)
EXTENDS SecretStore, TLC

CONSTANTS r, s, d, u, k, key, token, chat, old

MCKind == r :> "run" @@ s :> "set" @@ d :> "clear" @@ u :> "cleanup" @@ k :> "check"
MCSidecar == [c \in Commands |-> IF c = r THEN "provider" ELSE "telegram"]
MCPrefix == key :> "provider" @@ token :> "telegram" @@ chat :> "telegram" @@ old :> "gone"
MCRequired == [provider |-> <<key>>, telegram |-> <<token, chat>>]

\* Three at a time, whichever they are.
MCCrews == {{r, s, d}, {r, s, k}, {s, d, u}, {d, u, k}}

held(ks) == [x \in Keys |-> IF x \in ks THEN Found ELSE NoValue]
host(form, ks) == [file |-> [form |-> form, by |-> Found, data |-> held(ks)], keyfile |-> Found]
MCHosts ==
  { [file |-> NoFile, keyfile |-> NoKey],
    host("legacy", {key, token, chat, old}), host("token", {token, old}) }
=============================================================================
