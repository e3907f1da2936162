-------------------------- MODULE MCSidecarNetwork --------------------------
(***************************************************************************)
(* Three launches, two of them on one provider, in eight settings: five    *)
(* for the networks, the proxies and the scripts, three for what is        *)
(* refused before the lock.                                                *)
(***************************************************************************)
EXTENDS SidecarNetwork, TLC

CONSTANTS a, b, d, p, q

\* A project's Dockerfile, its networks in the order of their lines.
file(nets) == <<<<"from", FALSE>>, <<"name", TRUE>>, <<"from", TRUE>>>> \o nets
net(n) == <<"network", n>>
setting(dockerfile) ==
  [place |-> "project", tty |-> TRUE, skip |-> FALSE, headless |-> FALSE, base |-> FALSE,
   current |-> dockerfile, legacy |-> NoFile, script |-> TRUE, old |-> FALSE, known |-> TRUE,
   secrets |-> TRUE]

\* A launch with Telegram and without a script that would run, except where said.
on(proxy, nets, switch) ==
  [proxy |-> proxy, setting |-> setting(file(nets)), hostSwitch |-> switch, telegram |-> TRUE]
plain(proxy, nets, switch) == [on(proxy, nets, switch) EXCEPT !.telegram = FALSE]
scripted(l) == [l EXCEPT !.setting.current = @ \o <<<<"startup", "off">>, <<"startup", "seconds">>>>]
headless(l) == [l EXCEPT !.setting.headless = TRUE]
of(w) == [proxy |-> q, setting |-> w, hostSwitch |-> FALSE, telegram |-> FALSE]
models == [flag |-> "--mount", sound |-> TRUE, bind |-> TRUE, readOnly |-> TRUE,
           source |-> "path", host |-> "absent", point |-> "there"]
three(x, y, z) == a :> x @@ b :> y @@ d :> z

MCPlans ==
  { three(on(p, <<>>, TRUE), on(p, <<net("own")>>, FALSE), plain(q, <<>>, TRUE)),
    three(on(p, <<>>, FALSE), on(p, <<>>, TRUE), plain(q, <<net("host")>>, FALSE)),
    three(plain(p, <<>>, TRUE), plain(p, <<net("none")>>, FALSE), plain(q, <<>>, TRUE)),
    three(plain(p, <<net("joined")>>, TRUE), headless(on(p, <<net("host")>>, FALSE)),
          plain(q, <<net("bridge")>>, FALSE)),
    three(scripted(on(p, <<net("own"), net("bridge")>>, FALSE)),
          scripted(plain(p, <<net("host")>>, FALSE)),
          plain(q, <<net("own"), net("host")>>, FALSE)),
    \* A home with somebody to ask, and without; --base in place of two files.
    three(of([setting(NoFile) EXCEPT !.place = "home"]),
          of([setting(NoFile) EXCEPT !.place = "system", !.headless = TRUE]),
          of([setting(file(<<>>)) EXCEPT !.legacy = file(<<>>), !.base = TRUE])),
    three(of([setting(file(<<>>)) EXCEPT !.legacy = file(<<>>)]),
          of([setting(NoFile) EXCEPT !.legacy = file(<<<<"startup", "on">>>>)]),
          of([setting(file(<<>>)) EXCEPT !.secrets = FALSE, !.tty = FALSE])),
    three(of([setting(file(<<<<"mount", models>>>>)) EXCEPT !.skip = TRUE]),
          of([setting(NoFile) EXCEPT !.known = FALSE]),
          of([setting(<<<<"name", TRUE>>, <<"from", FALSE>>>>) EXCEPT !.old = TRUE])) }
=============================================================================
