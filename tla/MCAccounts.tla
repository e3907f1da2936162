----------------------------- MODULE MCAccounts -----------------------------
(***************************************************************************)
(* Two project directories, one in the other, a place to move one to and a *)
(* symlink to the first; a provider with peak hours, one without a price  *)
(* and one whose prices come in two tiers.                                 *)
(***************************************************************************)
EXTENDS StatsTree

CONSTANTS w, x, y, s, l, k, q1, q2, q3, q4, q5, q6

parts == [p \in Paths |-> CASE p = w -> <<"home", "me", "work">>
                            [] p = x -> <<"home", "me", "work", "sub", "lib">>
                            [] p = y -> <<"home", "me", "copy">>
                            [] p = s -> <<"home", "you">>]
MCPathOf == parts
MCCellLen == [g \in {"home", "me", "work", "sub", "lib", "copy", "you", "."} |->
                CASE g = "home" -> 4 [] g = "me" -> 2 [] g = "work" -> 4
                  [] g = "." -> 1 [] OTHER -> 3]
MCTarget == [p \in {s} |-> w]

on(ds, rs, ls, qs, clean, n, es) ==
  [dirs |-> ds, registry |-> rs, launches |-> ls, requests |-> qs, cleanup |-> clean,
   moves |-> n, events |-> es]
MCPlans ==
  { on({w}, {s}, {l, k}, {q1}, FALSE, 1, {}),
    on({w, x}, {w}, {l}, {q1}, TRUE, 1, {}),
    on({w, x}, {w}, {l}, {q1, q2, q3}, FALSE, 0, {}),
    on({w}, {w}, {l}, {q5, q6}, FALSE, 0, {}),
    on({w}, {w}, {l}, {q1}, TRUE, 1, {"disk", "rmtree"}),
    on({w}, {}, {l}, {q1, q2, q4}, TRUE, 0, {"rmtree"}),
    on({w}, {w}, {l}, {q1}, TRUE, 0, {"storage", "disk", "rmtree", "kill"}),
    on({w}, {s}, {l, k}, {}, TRUE, 0, {"docker", "slow", "storage", "kill"}) }
MCMarkers == {<<"home", "me", "work", "sub">>}

price(max, r) == [maxIn |-> max, in |-> r, out |-> 3 * r, cw5m |-> 4 * r, cw1h |-> 5 * r, cr |-> r]
flat == (<<1, 2>> :> <<price(1000, 2)>> @@ <<1, 3>> :> <<price(1000, 4)>> @@ <<1>> :> <<price(1000, 1)>>)
tiered == (<<2>> :> <<price(8, 1), price(1000, 3)>>)
MCTables == ("deep" :> flat @@ "dash" :> tiered)
MCPeak == [g \in {"deep", "dash", "none"} |-> IF g = "deep" THEN {1} ELSE Unknown]
MCCanonical == [g \in {"big", "big-dated", "small", "qwen"} |->
                  CASE g = "small" -> <<1, 3, 9>> [] g = "qwen" -> <<2, 7>> [] OTHER -> <<1, 2, 0>>]

\* q1 comes parsed; of q2 and q3 there is only the logging object, with the usage
\* of q2 and nothing of q3, which an older sidecar logged without a time; q4
\* failed.  Either of q5 and q6 is in the first tier, their sum in the second.
hook(ok, provider, model, start, called, parsed, usage, slo, tokens) ==
  [provider |-> provider, model |-> model, ok |-> ok, start |-> start, called |-> called,
   parsed |-> parsed, usage |-> usage, slo |-> slo, tokens |-> tokens]
none == Block(0, 0, 0, 0, NoSplit, NoSplit)
\* Day 3 has the hours 75 to 98; hour 97 is Monday's hour 1, a peak hour.
MCInfo == [q \in Requests |->
  CASE q = q1 -> hook(TRUE, "deep", "big", 97, 98, TRUE, Block(8, 1, 2, 3, <<0, 2>>, NoSplit), Unknown, none)
    [] q = q2 -> hook(TRUE, "deep", "big-dated", Unknown, 98, FALSE, Unknown, Unknown, Block(7, 2, 0, 0, NoSplit, NoSplit))
    [] q = q3 -> hook(TRUE, "none", "small", Unknown, Unknown, FALSE, Unknown, Unknown, none)
    [] q = q4 -> hook(FALSE, "deep", "big", Unknown, 98, FALSE, Unknown, Unknown, none)
    [] q = q5 -> hook(TRUE, "dash", "qwen", 97, 98, TRUE, Block(5, 1, 0, 1, NoSplit, NoSplit), Unknown, none)
    [] q = q6 -> hook(TRUE, "dash", "qwen", 97, 98, TRUE, Block(6, 2, 0, 0, NoSplit, NoSplit), Unknown, none)]

ask(from, until, days, today) == [from |-> from, until |-> until, days |-> days, today |-> today]
MCWindows == {ask(Open, Open, Open, 4), ask(Open, Open, 0, 3), ask(Open, 3, 1, 5)}
=============================================================================
