---------------------------- MODULE MCRemoteExec ----------------------------
(* remote_exec instances for TLC.                                          *)
EXTENDS RemoteExec, TLC

CONSTANTS c1, c2, h1, h2, h3, here

TwoCalls == {c1, c2}
SomeHosts == {h1, h2, h3, here}
AllowedHosts == {h1, h2, here}

\* Every kind of request for the first call, a plain command for the second.
Modes == {"plain", "sudo", "secrets", "both"}
Remote == [hosts : {<<h1, h2>>, <<h1, h3>>, <<h1>>}, multi : BOOLEAN, commands : {1, 2},
           mode : Modes, serialize : BOOLEAN, stop : BOOLEAN]
OnServer == [hosts : {<<here>>}, multi : {FALSE}, commands : {1},
             mode : Modes, serialize : {FALSE}, stop : {FALSE}]
SomeRequests ==
    c1 :> {r \in Remote \cup OnServer : (Len(r.hosts) > 1 <=> r.multi) /\ (r.serialize => r.multi)}
    @@ c2 :> {[hosts |-> hs, multi |-> TRUE, commands |-> 1, mode |-> "plain",
               serialize |-> FALSE, stop |-> FALSE] : hs \in {<<h1>>, <<h2, h1>>}}

\* The bounds of the run: while two calls are made, the first is one plain
\* command on one host; and the rate window, which nobody else looks at, does
\* not move once a list of commands has begun to run.
ShortTogether ==
    call[c2].at = "idle" \/ call[c1].at = "idle"
    \/ (Req(c1).commands = 1 /\ ~Req(c1).multi /\ ~Privileged(c1))
WindowStands ==
    work[c1] # <<>> /\ Req(c1).commands > 1 => \A h \in Range(Req(c1).hosts) : used[h] = 1
=============================================================================
