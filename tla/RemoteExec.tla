----------------------------- MODULE RemoteExec -----------------------------
(***************************************************************************)
(* remote_exec and local_exec (cli.py): the policy gate with its rate      *)
(* limit, the resolution of secrets and sudo passwords, the fan-out over   *)
(* hosts (parallel, or rolling) and over commands, and the audit record    *)
(* of every command.  A call may be cancelled at every await.              *)
(*                                                                         *)
(* Commands, passwords and output are left out: a command ends with exit   *)
(* code 0, with another one, without one, by its timeout, or with its      *)
(* connection.  Whether a password, a secret, a connection or a write to   *)
(* the audit file is there is a choice of the environment; how they are    *)
(* looked up is CredentialAgent's and ConnectionPool's matter.  local_exec *)
(* is a call to the host Local with one command.                           *)
(***************************************************************************)
EXTENDS Naturals, Sequences, FiniteSets, Functions

CONSTANTS
    Calls,
    Hosts,
    Local,          \* the host "<local>", the server's own machine
    Allowed,        \* the hosts the allowlist admits
    Limit,          \* rate_limit_rps
    MaxCommands,    \* bound: commands of a request
    Requests        \* the requests each call may make

ASSUME ExecAssumption ==
    /\ Local \in Hosts /\ Allowed \subseteq Hosts
    /\ Limit \in Nat \ {0} /\ MaxCommands \in Nat \ {0}
    /\ \A c \in Calls : \A r \in Requests[c] :
         /\ r \in [hosts : Seq(Hosts), multi : BOOLEAN, commands : 1..MaxCommands,
                   mode : {"plain", "sudo", "secrets", "both"},
                   serialize : BOOLEAN, stop : BOOLEAN]
         /\ r.hosts # <<>>
         /\ Len(r.hosts) > 1 => r.multi
         /\ Local \in Range(r.hosts) => ~r.multi /\ r.commands = 1

VARIABLES
    failClosed,     \* the audit log fails closed (not PORTAL_AUDIT_FAIL_OPEN)
    netClosed,      \* the safety net fails closed
    used,           \* the calls of each host inside the rate window
    call,           \* where each call is
    work,           \* where it is on each of its hosts
    started,        \* the commands that reached a host, <<position, command>>
    recorded,       \* the commands in the audit file
    unwritten,      \* history: commands an audit write failed for
    broken          \* history: commands whose connection broke

vars == <<failClosed, netClosed, used, call, work, started, recorded, unwritten, broken>>
config == <<failClosed, netClosed>>
logs == <<started, recorded, unwritten, broken>>

\* multi: the target is a list or a group.  mode: plain, sudo, secrets or both.
NoRequest == [hosts |-> <<>>, multi |-> FALSE, commands |-> 0, mode |-> "plain",
              serialize |-> FALSE, stop |-> FALSE]

\* at: gate, secrets, run or ended; checked: commands the gate has passed.
Idle == [at |-> "idle", req |-> NoRequest, checked |-> 0, answer |-> "none"]
Req(c) == call[c].req
Rolling(c) == Req(c).multi /\ Req(c).serialize
Privileged(c) == Req(c).mode # "plain"

\* Exit codes: zero; bad, any other number, -1 for a timeout and the like;
\* null, none was reported.
Codes == {"zero", "bad", "null"}
Waiting == [at |-> "wait", command |-> 1, codes |-> <<>>]
Working == {"sudo", "connect", "running"}

ExecTypeOK ==
    /\ used \in [Hosts -> 0..Limit]
    /\ \A c \in Calls :
        /\ call[c].at \in {"idle", "gate", "secrets", "run", "ended"}
        /\ call[c].answer \in {"none", "blocked", "error", "ok", "cancelled"}
        /\ call[c].checked \in 0..Req(c).commands
        /\ work[c] \in Seq([at : Working \cup {"wait", "done", "raised"},
                            command : 1..MaxCommands, codes : Seq(Codes)])
        /\ call[c].at \in {"run", "ended"} \/ started[c] = {}
        /\ \A i \in DOMAIN work[c] : work[c][i].command <= Req(c).commands
        /\ Rolling(c) => Cardinality({i \in DOMAIN work[c] : work[c][i].at \in Working}) <= 1

-----------------------------------------------------------------------------
(* The gate *)

\* A request whose timeout, target and command list are in order.
Begin(c, r) ==
    /\ call[c].at = "idle"
    /\ call' = [call EXCEPT ![c] = [Idle EXCEPT !.at = "gate", !.req = r]]
    /\ UNCHANGED <<config, used, work, logs>>

\* Ending releases what the call holds; a task is cancelled with its call.
End(c, answer) == call' = [call EXCEPT ![c].at = "ended", ![c].answer = answer]

\* check_command: blocklist, safety net (an await), allowlist.
CheckCommand(c, verdict) ==
    /\ call[c].at = "gate" /\ call[c].checked < Req(c).commands
    /\ IF verdict = "allowed" \/ (verdict = "unavailable" /\ ~netClosed)
       THEN call' = [call EXCEPT ![c].checked = @ + 1]
       ELSE End(c, "blocked")
    /\ UNCHANGED <<config, used, work, logs>>

\* check_rate_limit, host after host: the first host over its limit refuses
\* the call, and the hosts before it have spent theirs.
Spent(hosts, n, h) == Cardinality({i \in 1..n : hosts[i] = h})
Over(hosts, i) == used[hosts[i]] + Spent(hosts, i - 1, hosts[i]) >= Limit
Committed(hosts) ==
    CHOOSE n \in 0..Len(hosts) :
        /\ \A i \in 1..n : ~Over(hosts, i)
        /\ n < Len(hosts) => Over(hosts, n + 1)

\* The hosts are checked and the rate committed without an await.
FirstStep(r) == IF r.mode \in {"sudo", "both"} THEN "sudo" ELSE "connect"
Launched(r) == [i \in 1..Len(r.hosts) |->
                  IF i = 1 \/ ~r.multi \/ ~r.serialize THEN [Waiting EXCEPT !.at = FirstStep(r)] ELSE Waiting]
CheckHosts(c) ==
    LET hosts == Req(c).hosts
        n == Committed(hosts)
    IN /\ call[c].at = "gate" /\ call[c].checked = Req(c).commands
       /\ IF Range(hosts) \subseteq Allowed
          THEN used' = [h \in Hosts |-> used[h] + Spent(hosts, n, h)]
          ELSE UNCHANGED used
       /\ IF ~(Range(hosts) \subseteq Allowed) \/ n < Len(hosts)
          THEN End(c, "blocked") /\ UNCHANGED work
          ELSE IF Req(c).mode \in {"secrets", "both"}
          THEN call' = [call EXCEPT ![c].at = "secrets"] /\ UNCHANGED work
          ELSE /\ call' = [call EXCEPT ![c].at = "run"]
               /\ work' = [work EXCEPT ![c] = Launched(Req(c))]
       /\ UNCHANGED <<config, logs>>

\* _resolve_secrets: once, before the first command.
ResolveSecrets(c, found) ==
    /\ call[c].at = "secrets"
    /\ IF found THEN /\ call' = [call EXCEPT ![c].at = "run"]
                     /\ work' = [work EXCEPT ![c] = Launched(Req(c))]
       ELSE End(c, "error") /\ UNCHANGED work
    /\ UNCHANGED <<config, used, logs>>

\* An entry leaves the one-second window.
LeaveWindow(h) ==
    /\ used[h] > 0 /\ used' = [used EXCEPT ![h] = @ - 1]
    /\ UNCHANGED <<config, call, work, logs>>

-----------------------------------------------------------------------------
(* One command on one host: run_one, run_host *)

\* _result_failed: a code that is missing counts as a failure.
\* Mutant: only a number other than 0 does.
FailedByNumber(codes) == "bad" \in Range(codes)
ResultFailed(codes) == \E k \in DOMAIN codes : codes[k] # "zero"

\* The command of w is over with this code: the next one, unless the run
\* stops at a failure.
\* Mutant: the last command is followed by another.
NextCommandAlways(c, w, code) ==
    IF Req(c).stop /\ code = "bad" THEN [w EXCEPT !.at = "done", !.codes = Append(@, code)]
    ELSE [at |-> FirstStep(Req(c)), command |-> w.command + 1, codes |-> Append(w.codes, code)]
AfterCommand(c, w, code) ==
    IF w.command < Req(c).commands /\ ~(Req(c).stop /\ code = "bad")
    THEN [at |-> FirstStep(Req(c)), command |-> w.command + 1, codes |-> Append(w.codes, code)]
    ELSE [w EXCEPT !.at = "done", !.codes = Append(@, code)]

Returns(c, i, code) ==
    /\ work' = [work EXCEPT ![c][i] = AfterCommand(c, @, code)]
    /\ UNCHANGED call

\* An exception: gather keeps it as the host's result, a rolling or single
\* run ends with it.
Raises(c, i) ==
    /\ work' = [work EXCEPT ![c][i].at = "raised"]
    /\ IF Req(c).multi /\ ~Req(c).serialize THEN UNCHANGED call ELSE End(c, "error")

At(c, i, where) == call[c].at = "run" /\ i \in DOMAIN work[c] /\ work[c][i].at = where

\* resolve_sudo_password, for every command anew.
ResolveSudo(c, i, found) ==
    /\ At(c, i, "sudo")
    /\ IF found THEN work' = [work EXCEPT ![c][i].at = "connect"] /\ UNCHANGED call
       ELSE IF Req(c).multi THEN Returns(c, i, "bad") ELSE Raises(c, i)
    /\ UNCHANGED <<config, used, logs>>

\* A write to the audit file, which raises if it fails and the log is closed.
Record(c, i, written) ==
    LET cmd == <<i, work[c][i].command>>
    IN /\ recorded' = IF written THEN [recorded EXCEPT ![c] = @ \cup {cmd}] ELSE recorded
       /\ unwritten' = IF written THEN unwritten ELSE [unwritten EXCEPT ![c] = @ \cup {cmd}]

\* Mutant: the error that could not be recorded is answered all the same.
FinishAnswersAnyway(c, i, outcome, writes) ==
    /\ Record(c, i, IF outcome \in Codes /\ ~writes[1] /\ failClosed THEN writes[2] ELSE writes[1])
    /\ Returns(c, i, IF outcome \in Codes /\ (writes[1] \/ ~failClosed) THEN outcome ELSE "bad")

\* ssh_exec records the outcome; if that raises, its own handler records an
\* error instead and answers -1.  Recording follows without an await.
FinishPlain(c, i, outcome, writes) ==
    LET ended == outcome \in Codes
        code == IF ended THEN outcome ELSE "bad"
        accepted == writes[1] \/ ~failClosed
    IN /\ IF ended /\ ~accepted
          THEN /\ Record(c, i, writes[2])
               /\ IF writes[2] THEN Returns(c, i, "bad") ELSE Raises(c, i)
          ELSE /\ Record(c, i, writes[1])
               /\ IF accepted THEN Returns(c, i, code) ELSE Raises(c, i)

\* The sudo and the secrets path record the outcome, unless the connection
\* broke: then they raise.
FinishPrivileged(c, i, outcome, writes) ==
    IF outcome = "broken" THEN Raises(c, i) /\ UNCHANGED <<recorded, unwritten>>
    ELSE /\ Record(c, i, writes[1])
         /\ IF writes[1] \/ ~failClosed
            THEN Returns(c, i, IF outcome \in Codes THEN outcome ELSE "bad")
            ELSE Raises(c, i)

\* The command is on its way.
Starts(c, i) ==
    /\ work' = [work EXCEPT ![c][i].at = "running"]
    /\ started' = [started EXCEPT ![c] = @ \cup {<<i, work[c][i].command>>}]
    /\ UNCHANGED <<call, recorded, unwritten>>

\* get_connection.  Without one the command raises; but the sudo path takes a
\* connect timeout for the command's own.
Connect(c, i, result, writes) ==
    LET asTimeout == result = "timeout" /\ Req(c).mode \in {"sudo", "both"}
    IN /\ At(c, i, "connect") /\ Req(c).hosts[i] # Local
       /\ \/ result = "up" /\ Starts(c, i)
          \/ /\ result # "up" /\ UNCHANGED started
             /\ FinishPrivileged(c, i, IF asTimeout THEN "timeout" ELSE "broken", writes)
       /\ UNCHANGED <<config, used, broken>>

\* A process on the server's machine, killed with its group at a timeout and
\* when the call is cancelled; one that does not start answers -1.
StartLocal(c, i, starts, writes) ==
    /\ At(c, i, "connect") /\ Req(c).hosts[i] = Local
    /\ IF starts THEN Starts(c, i)
       ELSE FinishPrivileged(c, i, "bad", writes) /\ UNCHANGED started
    /\ UNCHANGED <<config, used, broken>>
FinishLocal(c, i, outcome, writes) ==
    outcome # "broken" /\ FinishPrivileged(c, i, outcome, writes)

\* Mutant: a command that timed out is answered before it is recorded.
FinishUnrecorded(c, i, outcome, writes) ==
    /\ At(c, i, "running")
    /\ IF outcome = "timeout" THEN Returns(c, i, "bad") /\ UNCHANGED <<recorded, unwritten>>
       ELSE IF Req(c).hosts[i] = Local THEN FinishLocal(c, i, outcome, writes)
       ELSE IF Privileged(c) THEN FinishPrivileged(c, i, outcome, writes)
       ELSE FinishPlain(c, i, outcome, writes)
    /\ broken' = IF outcome = "broken" THEN [broken EXCEPT ![c] = @ \cup {<<i, work[c][i].command>>}]
                 ELSE broken
    /\ UNCHANGED <<config, used, started>>
Finish(c, i, outcome, writes) ==
    /\ At(c, i, "running")
    /\ IF Req(c).hosts[i] = Local THEN FinishLocal(c, i, outcome, writes)
       ELSE IF Privileged(c) THEN FinishPrivileged(c, i, outcome, writes)
       ELSE FinishPlain(c, i, outcome, writes)
    /\ broken' = IF outcome = "broken" THEN [broken EXCEPT ![c] = @ \cup {<<i, work[c][i].command>>}]
                 ELSE broken
    /\ UNCHANGED <<config, used, started>>

-----------------------------------------------------------------------------
(* The hosts of a call: run_all *)

\* Rolling: the next host, after the delay, unless the last one failed.
NextHost(c, i) ==
    /\ Rolling(c) /\ i > 1 /\ At(c, i, "wait") /\ work[c][i - 1].at = "done"
    /\ ~(Req(c).stop /\ ResultFailed(work[c][i - 1].codes))
    /\ work' = [work EXCEPT ![c][i].at = FirstStep(Req(c))]
    /\ UNCHANGED <<config, used, call, logs>>

Answer(c) ==
    /\ call[c].at = "run"
    /\ \A i \in DOMAIN work[c] :
         \/ work[c][i].at \in {"done", "raised"}
         \/ /\ work[c][i].at = "wait"
            /\ \E j \in 1..(i - 1) : Req(c).stop /\ work[c][j].at = "done"
                                     /\ ResultFailed(work[c][j].codes)
    /\ End(c, "ok")
    /\ UNCHANGED <<config, used, work, logs>>

\* The client cancels the request, or gives up on it.
Cancel(c) ==
    /\ call[c].at \in {"gate", "secrets", "run"}
    /\ End(c, "cancelled")
    /\ UNCHANGED <<config, used, work, logs>>

Init ==
    /\ failClosed \in BOOLEAN /\ netClosed \in BOOLEAN
    /\ used = [h \in Hosts |-> 0]
    /\ call = [c \in Calls |-> Idle]
    /\ work = [c \in Calls |-> <<>>]
    /\ started = [c \in Calls |-> {}] /\ recorded = [c \in Calls |-> {}]
    /\ unwritten = [c \in Calls |-> {}] /\ broken = [c \in Calls |-> {}]

Next ==
    \/ \E h \in Hosts : LeaveWindow(h)
    \/ \E c \in Calls :
         \/ \E r \in Requests[c] : Begin(c, r)
         \/ \E v \in {"allowed", "blocked", "unavailable"} : CheckCommand(c, v)
         \/ CheckHosts(c) \/ Answer(c) \/ Cancel(c)
         \/ \E found \in BOOLEAN : ResolveSecrets(c, found)
         \/ \E i \in DOMAIN work[c] :
              \/ \E found \in BOOLEAN : ResolveSudo(c, i, found)
              \/ \E writes \in BOOLEAN \X BOOLEAN :
                   \/ \E result \in {"up", "refused", "timeout"} : Connect(c, i, result, writes)
                   \/ \E starts \in BOOLEAN : StartLocal(c, i, starts, writes)
                   \/ \E outcome \in Codes \cup {"timeout", "broken"} : Finish(c, i, outcome, writes)
              \/ NextHost(c, i)

Spec == Init /\ [][Next]_vars

-----------------------------------------------------------------------------
(* Properties *)

\* A rolling run that stops on errors touches a host only after every command
\* of the hosts before it ended with exit code 0: not after a failure, an
\* unknown status, a timeout or an exception there (run_all, _result_failed).
RollingStops ==
    \A c \in Calls : (Rolling(c) /\ Req(c).stop) =>
        \A p \in started[c] : \A j \in 1..(p[1] - 1) :
            /\ work[c][j].at = "done"
            /\ work[c][j].codes = [k \in 1..Req(c).commands |-> "zero"]

\* A command that reached a host and is no longer being waited for is in the
\* audit file, unless a write for it failed, the client cancelled the call, or
\* (sudo and secrets only) its connection broke (ssh_exec, run_one, local_exec).
RecordedUnlessExcused ==
    \A c \in Calls : \A p \in started[c] \ recorded[c] :
        \/ call[c].at = "run" /\ work[c][p[1]].at = "running" /\ work[c][p[1]].command = p[2]
        \/ call[c].answer = "cancelled"
        \/ p \in unwritten[c]
        \/ Privileged(c) /\ p \in broken[c]

\* With a closed audit log no command follows one that went unrecorded: not on
\* the same host, nor on a later host of a rolling run (audit_log raising
\* through run_one, run_host and run_all).
NothingAfterUnrecorded ==
    \A c \in Calls : failClosed =>
        \A p, q \in started[c] :
            \/ p \in recorded[c]
            \/ p[1] = q[1] /\ p[2] >= q[2]
            \/ p[1] # q[1] /\ ~(Rolling(c) /\ p[1] < q[1])
=============================================================================
