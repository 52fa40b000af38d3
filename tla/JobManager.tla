----------------------------- MODULE JobManager -----------------------------
(***************************************************************************)
(* The background jobs of job_manager.py: several server processes, each   *)
(* with its job table and its state file <state>/jobs/<pid>.json, and the  *)
(* nohup processes they start on remote hosts, which outlive them.         *)
(*                                                                         *)
(* An operation is one remote_job request.  It is suspended while a remote *)
(* script runs, and the script's own steps are steps of the model: poll    *)
(* reads the meta file before it probes the process.  The manager's lock   *)
(* is never held across a suspension, so a locked section is atomic.       *)
(* Clocks are left out: any finished job may have outlived its TTL.        *)
(* Output and offsets are left out.                                        *)
(***************************************************************************)
EXTENDS Naturals, FiniteSets

CONSTANTS
    Servers,        \* PIDs of server processes
    Jobs,           \* job ids, each used once
    Ops,            \* operations in progress at the same time
    MaxLive,        \* PORTAL_JOB_MAX_LIVE
    MaxStarts,      \* bound: server processes started in a behaviour
    NoRec           \* "not in the table"

VARIABLES
    starts,         \* server processes started
    server,         \* down, loading (JobManager.__init__) or up
    table,          \* _jobs of each server
    file,           \* its state file; empty: absent
    adopting,       \* the siblings' files it still has to look at or to remove
    pending,        \* _pending
    proc,           \* the remote process: running, marked (exit status
                    \*   recorded), gone; "lost" went without recording
    meta,           \* its meta file: none, done, failed, or removed
    reused,         \* its PID belongs to another process now
    op,             \* where each operation is
    kept,           \* history: jobs recorded and not swept
    misread         \* history: jobs of which a reply came back without its
                    \*   lines while their process ran

remoteVars == <<proc, meta, reused>>
historyVars == <<kept, misread>>
vars == <<starts, server, table, file, adopting, pending, remoteVars, op, historyVars>>

Terminal == {"done", "failed", "cancelled", "unknown"}
Rec == [status : Terminal \cup {"running"}, finished : BOOLEAN, asked : BOOLEAN]

\* PIDs and job ids (twelve hexadecimal digits) are finitely many, and so are
\* the requests in progress.
ASSUME JobAssumption ==
    /\ MaxLive \in Nat \ {0} /\ MaxStarts \in Nat
    /\ IsFiniteSet(Servers) /\ IsFiniteSet(Jobs) /\ IsFiniteSet(Ops) /\ NoRec \notin Rec

Tables == [Jobs -> Rec \cup {NoRec}]
Empty == [j \in Jobs |-> NoRec]

NoOp == [at |-> "idle"]
\* clean: rm of expired jobs' files, before admission or at the end of list.
\* spawn, started: before and after the fork.  probe, answer: between and
\* after the reads of the poll script.  signal, check: before and after
\* cancel's script.
Op == [at : {"clean"}, srv : Servers, todo : SUBSET Jobs, submit : BOOLEAN]
      \cup [at : {"spawn", "started"}, srv : Servers, job : Jobs]
      \cup [at : {"signal"}, srv : Servers, job : Jobs]
      \cup [at : {"probe"}, srv : Servers, job : Jobs, meta : {"none", "done", "failed"}]
      \cup [at : {"answer"}, srv : Servers, job : Jobs, meta : {"none", "done", "failed"},
            alive : {"none", "yes", "no"}]
      \cup [at : {"check"}, srv : Servers, job : Jobs, alive : BOOLEAN]

JobTypeOK ==
    /\ starts \in 0..MaxStarts
    /\ server \in [Servers -> {"down", "loading", "up"}]
    /\ table \in [Servers -> Tables]
    /\ file \in [Servers -> Tables]
    /\ adopting \in [Servers -> [Servers -> {"no", "look", "remove"}]]
    /\ pending \in [Servers -> Nat]
    /\ proc \in [Jobs -> {"none", "running", "marked", "gone", "lost"}]
    /\ meta \in [Jobs -> {"none", "done", "failed", "removed"}]
    /\ reused \in [Jobs -> BOOLEAN]
    /\ op \in [Ops -> {NoOp} \cup Op]
    /\ kept \subseteq Jobs /\ misread \subseteq Jobs
    /\ \A p \in Servers :
         pending[p] = Cardinality({q \in Ops : op[q].at \in {"spawn", "started"} /\ op[q].srv = p})

Init ==
    /\ starts = 0
    /\ server = [p \in Servers |-> "down"]
    /\ table = [p \in Servers |-> Empty]
    /\ file = [p \in Servers |-> Empty]
    /\ adopting = [p \in Servers |-> [r \in Servers |-> "no"]]
    /\ pending = [p \in Servers |-> 0]
    /\ proc = [j \in Jobs |-> "none"]
    /\ meta = [j \in Jobs |-> "none"]
    /\ reused = [j \in Jobs |-> FALSE]
    /\ op = [q \in Ops |-> NoOp]
    /\ kept = {} /\ misread = {}

Known(p) == {j \in Jobs : table[p][j] # NoRec}
Live(p) == {j \in Known(p) : table[p][j].status \notin Terminal}
Runs(q, places) == op[q].at \in places

SetOp(q, o) == op' = [op EXCEPT ![q] = o]

\* table' and, through _persist, the file.
Store(p, tab) == table' = [table EXCEPT ![p] = tab] /\ file' = [file EXCEPT ![p] = tab]
\* table' alone.
Keep(p, tab) == table' = [table EXCEPT ![p] = tab] /\ file' = file

-----------------------------------------------------------------------------
(* Server life: _load, _adopt_dead_siblings; and the end of a process.     *)

Start(p) ==
    /\ server[p] = "down"
    /\ starts < MaxStarts
    /\ starts' = starts + 1
    /\ server' = [server EXCEPT ![p] = "loading"]
    /\ adopting' = [adopting EXCEPT ![p] =
                      [r \in Servers |-> IF r # p /\ file[r] # Empty THEN "look" ELSE "no"]]
    /\ UNCHANGED <<table, file, pending, remoteVars, op, historyVars>>

\* Mutant: the file's records replace the whole table.
LoadedOver(p, r) == file[r]

\* _load_file: the records of file[r] replace those of the same job.
Loaded(p, r) == [j \in Jobs |-> IF file[r][j] # NoRec THEN file[r][j] ELSE table[p][j]]

\* The file of a live process is left alone, that of a dead one is read ...
LookAtSibling(p, r) ==
    /\ adopting[p][r] = "look"
    /\ IF server[r] = "down"
       THEN Keep(p, Loaded(p, r)) /\ adopting' = [adopting EXCEPT ![p][r] = "remove"]
       ELSE adopting' = [adopting EXCEPT ![p][r] = "no"] /\ UNCHANGED <<table, file>>
    /\ UNCHANGED <<starts, server, pending, remoteVars, op, historyVars>>

\* ... and removed.
RemoveSibling(p, r) ==
    /\ adopting[p][r] = "remove"
    /\ file' = [file EXCEPT ![r] = Empty]
    /\ adopting' = [adopting EXCEPT ![p][r] = "no"]
    /\ UNCHANGED <<starts, server, table, pending, remoteVars, op, historyVars>>

\* A file of its own is there when the PID was used by a server before.
LoadOwn(p) ==
    /\ server[p] = "loading"
    /\ \A r \in Servers : adopting[p][r] = "no"
    /\ Keep(p, Loaded(p, p))
    /\ server' = [server EXCEPT ![p] = "up"]
    /\ UNCHANGED <<starts, adopting, pending, remoteVars, op, historyVars>>

\* The process ends or is killed; its operations go with it.
Stop(p) ==
    /\ server[p] # "down"
    /\ server' = [server EXCEPT ![p] = "down"]
    /\ table' = [table EXCEPT ![p] = Empty]
    /\ adopting' = [adopting EXCEPT ![p] = [r \in Servers |-> "no"]]
    /\ pending' = [pending EXCEPT ![p] = 0]
    /\ op' = [q \in Ops |-> IF op[q] # NoOp /\ op[q].srv = p THEN NoOp ELSE op[q]]
    /\ UNCHANGED <<starts, file, remoteVars, historyVars>>

-----------------------------------------------------------------------------
(* submit and list: both begin with _sweep_expired.                        *)

Sweepable(p) == {j \in Known(p) : table[p][j].status \in Terminal /\ table[p][j].finished}

\* The expired records are dropped at once, their files one by one.  With
\* none expired the call does not suspend, and list does nothing.
Sweep(q, p) ==
    /\ server[p] = "up"
    /\ op[q] = NoOp
    /\ \E expired \in SUBSET Sweepable(p) \ {{}}, submit \in BOOLEAN :
         /\ Store(p, [j \in Jobs |-> IF j \in expired THEN NoRec ELSE table[p][j]])
         /\ SetOp(q, [at |-> "clean", srv |-> p, todo |-> expired, submit |-> submit])
         /\ kept' = kept \ expired
    /\ UNCHANGED <<starts, server, adopting, pending, remoteVars, misread>>

\* _remote_cleanup, best effort.
Clean(q) ==
    /\ Runs(q, {"clean"})
    /\ \E j \in op[q].todo :
         /\ SetOp(q, [op[q] EXCEPT !.todo = @ \ {j}])
         /\ meta' \in {meta, [meta EXCEPT ![j] = "removed"]}
    /\ UNCHANGED <<starts, server, table, file, adopting, pending, proc, reused, historyVars>>

\* Mutant: submits that are still spawning are not counted.
HasRoomNow(p) == Cardinality(Live(p)) < MaxLive

HasRoom(p) == Cardinality(Live(p)) + pending[p] < MaxLive

Unused == {j \in Jobs : /\ proc[j] = "none"
                       /\ \A r \in Ops : Runs(r, {"spawn", "started"}) => op[r].job # j}

Submits(q, p) ==
    \/ op[q] = NoOp /\ server[p] = "up"
    \/ Runs(q, {"clean"}) /\ op[q].srv = p /\ op[q].todo = {} /\ op[q].submit

Admit(q, p) ==
    /\ Submits(q, p)
    /\ HasRoom(p)
    /\ pending' = [pending EXCEPT ![p] = @ + 1]
    /\ \E j \in Unused : SetOp(q, [at |-> "spawn", srv |-> p, job |-> j])
    /\ UNCHANGED <<starts, server, table, file, adopting, remoteVars, historyVars>>

\* list returns, or submit is refused (also when Jobs is used up: the bound
\* on job ids).
AfterSweep(q) ==
    /\ Runs(q, {"clean"})
    /\ op[q].todo = {}
    /\ op[q].submit => ~HasRoom(op[q].srv) \/ Unused = {}
    /\ SetOp(q, NoOp)
    /\ UNCHANGED <<starts, server, table, file, adopting, pending, remoteVars, historyVars>>

\* The remote shell forks the nohup process.
Fork(q) ==
    /\ Runs(q, {"spawn"})
    /\ proc' = [proc EXCEPT ![op[q].job] = "running"]
    /\ SetOp(q, [op[q] EXCEPT !.at = "started"])
    /\ UNCHANGED <<starts, server, table, file, adopting, pending, meta, reused, historyVars>>

\* Its PID comes back: the job is recorded and the reservation given back.
Recorded(q) ==
    LET p == op[q].srv
    IN  /\ Runs(q, {"started"})
        /\ Store(p, [table[p] EXCEPT ![op[q].job] =
                       [status |-> "running", finished |-> FALSE, asked |-> FALSE]])
        /\ pending' = [pending EXCEPT ![p] = @ - 1]
        /\ kept' = kept \cup {op[q].job}
        /\ SetOp(q, NoOp)
        /\ UNCHANGED <<starts, server, adopting, remoteVars, misread>>

\* Mutant: the reservation is not given back when the spawn fails.
SpawnFailsReserved(q) ==
    /\ Runs(q, {"spawn", "started"})
    /\ SetOp(q, NoOp)
    /\ UNCHANGED <<starts, server, table, file, adopting, pending, remoteVars, historyVars>>

\* No connection, no PID, or 30 s passed: an error, and a process that may
\* run on unrecorded.
SpawnFails(q) ==
    /\ Runs(q, {"spawn", "started"})
    /\ pending' = [pending EXCEPT ![op[q].srv] = @ - 1]
    /\ SetOp(q, NoOp)
    /\ UNCHANGED <<starts, server, table, file, adopting, remoteVars, historyVars>>

-----------------------------------------------------------------------------
(* poll.                                                                   *)

\* The script's M=$(cat meta).  Nothing is kept from before it: the wait for
\* the connection is not a step of its own.
Poll(q, p, j) ==
    /\ server[p] = "up"
    /\ op[q] = NoOp
    /\ j \in Known(p)
    /\ SetOp(q, [at |-> "probe", srv |-> p, job |-> j,
                 meta |-> IF meta[j] = "removed" THEN "none" ELSE meta[j]])
    /\ UNCHANGED <<starts, server, table, file, adopting, pending, remoteVars, historyVars>>

\* kill -0 sees the job's process, or the one that has its PID now.
Alive(j) == proc[j] \in {"running", "marked"} \/ reused[j]

\* run(check=False) returns normally when the channel closes without an exit
\* status: the reply is then empty, whatever the script had to say.
CutOff(j) == misread' = IF proc'[j] = "running" THEN misread \cup {j} ELSE misread

\* The script's kill -0, and its one printf: a reply with all its lines, or
\* with none of them, from which _parse_poll returns neither meta nor alive.
ProbeProcess(q) ==
    LET j == op[q].job
        Reply(m, alive) == SetOp(q, [at |-> "answer", srv |-> op[q].srv, job |-> j,
                                     meta |-> m, alive |-> alive])
    IN  /\ Runs(q, {"probe"})
        /\ UNCHANGED <<starts, server, table, file, adopting, pending, remoteVars, kept>>
        /\ \/ Reply(op[q].meta, IF Alive(j) THEN "yes" ELSE "no") /\ misread' = misread
           \/ Reply("none", "none") /\ CutOff(j)

\* Mutant: a requested cancel is reported before it has taken effect.
ClassifyEagerly(rec, m, alive) ==
    IF m # "none" THEN m
    ELSE IF rec.asked THEN "cancelled"
    ELSE IF alive = "yes" THEN "running" ELSE "unknown"

Classify(rec, m, alive) ==
    IF m # "none" THEN m
    ELSE IF alive = "yes" THEN "running"
    ELSE IF rec.asked THEN "cancelled" ELSE "unknown"

\* The record gets the answer, whatever has been written to it since the
\* poll began; a record swept meanwhile is written to no effect.
PollDone(q) ==
    LET p == op[q].srv
        j == op[q].job
        rec == table[p][j]
        status == Classify(rec, op[q].meta, op[q].alive)
        new == [rec EXCEPT !.status = status,
                           !.finished = @ \/ status \in Terminal]
    IN  /\ Runs(q, {"answer"})
        /\ IF rec = NoRec THEN UNCHANGED <<table, file>>
           ELSE LET tab == [table[p] EXCEPT ![j] = new]
                IN  IF new.finished /\ ~rec.finished THEN Store(p, tab) ELSE Keep(p, tab)
        /\ SetOp(q, NoOp)
        /\ UNCHANGED <<starts, server, adopting, pending, remoteVars, historyVars>>

\* The call raises: no connection, a connection lost before the channel is
\* open, 30 s passed; or the request is cancelled.
Abandon(q) ==
    /\ \/ Runs(q, {"probe", "answer", "signal", "check"})
       \/ Runs(q, {"clean"}) /\ op[q].todo # {}
    /\ SetOp(q, NoOp)
    /\ UNCHANGED <<starts, server, table, file, adopting, pending, remoteVars, historyVars>>

-----------------------------------------------------------------------------
(* cancel.                                                                 *)

Cancel(q, p, j) ==
    /\ server[p] = "up"
    /\ op[q] = NoOp
    /\ j \in Live(p)
    /\ SetOp(q, [at |-> "signal", srv |-> p, job |-> j])
    /\ UNCHANGED <<starts, server, table, file, adopting, pending, remoteVars, historyVars>>

\* The signal ends the process that has the PID, or is trapped, or was not
\* sent before the channel closed; the script then probes the PID.  Of an
\* empty reply the code reads what it reads of DEAD: "ALIVE" is not in it.
\* (A script that sends its signal after its channel closed: Killed.)
AfterSignal(state) ==
    CASE state = "running" -> "lost" [] state = "marked" -> "gone" [] OTHER -> state

Signal(q) ==
    LET j == op[q].job
        Reply(alive) == SetOp(q, [at |-> "check", srv |-> op[q].srv, job |-> j, alive |-> alive])
    IN  /\ Runs(q, {"signal"})
        /\ \/ UNCHANGED <<proc, reused>>
           \/ proc' = [proc EXCEPT ![j] = AfterSignal(@)] /\ reused' = [reused EXCEPT ![j] = FALSE]
        /\ UNCHANGED <<starts, server, table, file, adopting, pending, meta, kept>>
        /\ \/ Reply(proc'[j] \in {"running", "marked"} \/ reused'[j]) /\ misread' = misread
           \/ Reply(FALSE) /\ CutOff(j)

CancelDone(q) ==
    LET p == op[q].srv
        j == op[q].job
        rec == table[p][j]
        over == ~op[q].alive /\ rec.status \notin Terminal
    IN  /\ Runs(q, {"check"})
        /\ IF rec = NoRec THEN Store(p, table[p])
           ELSE Store(p, [table[p] EXCEPT ![j] =
                  [status |-> IF over THEN "cancelled" ELSE rec.status,
                   finished |-> rec.finished \/ over, asked |-> TRUE]])
        /\ SetOp(q, NoOp)
        /\ UNCHANGED <<starts, server, adopting, pending, remoteVars, historyVars>>

-----------------------------------------------------------------------------
(* The remote process.                                                     *)

\* The command ends and the wrapper appends its exit status to the meta file.
RecordExit(j) ==
    /\ proc[j] = "running"
    /\ proc' = [proc EXCEPT ![j] = "marked"]
    /\ \E status \in {"done", "failed"} : meta' = [meta EXCEPT ![j] = status]
    /\ UNCHANGED <<starts, server, table, file, adopting, pending, reused, op, historyVars>>

Exit(j) ==
    /\ proc[j] = "marked"
    /\ proc' = [proc EXCEPT ![j] = "gone"]
    /\ UNCHANGED <<starts, server, table, file, adopting, pending, meta, reused, op, historyVars>>

\* Killed by somebody else, or lost with its host.
Killed(j) ==
    /\ proc[j] = "running"
    /\ proc' = [proc EXCEPT ![j] = "lost"]
    /\ UNCHANGED <<starts, server, table, file, adopting, pending, meta, reused, op, historyVars>>

ReusePid(j) ==
    /\ proc[j] \in {"gone", "lost"}
    /\ ~reused[j]
    /\ reused' = [reused EXCEPT ![j] = TRUE]
    /\ UNCHANGED <<starts, server, table, file, adopting, pending, proc, meta, op, historyVars>>

Next ==
    \/ \E p \in Servers : \/ Start(p) \/ LoadOwn(p) \/ Stop(p)
                         \/ \E r \in Servers : LookAtSibling(p, r) \/ RemoveSibling(p, r)
    \/ \E q \in Ops :
         \/ \E p \in Servers :
              Sweep(q, p) \/ Admit(q, p) \/ \E j \in Jobs : Poll(q, p, j) \/ Cancel(q, p, j)
         \/ Clean(q) \/ AfterSweep(q) \/ Fork(q) \/ Recorded(q) \/ SpawnFails(q)
         \/ ProbeProcess(q) \/ PollDone(q) \/ Abandon(q)
         \/ Signal(q) \/ CancelDone(q)
    \/ \E j \in Jobs : RecordExit(j) \/ Exit(j) \/ Killed(j) \/ ReusePid(j)

Spec == Init /\ [][Next]_vars

-----------------------------------------------------------------------------
(* Properties.                                                             *)

IsOver(j) == proc[j] \in {"marked", "gone", "lost"}

\* A job is called finished, by memory or by a state file, only when its
\* process has come to its end: not while a trapped signal leaves it running,
\* and not by an answer that another operation overtook.  So the sweep removes
\* no running job's files.  The exception is a job of which a reply was cut
\* off while it ran: _classify calls it unknown or cancelled, and cancel takes
\* it for DEAD, whatever "Report the truth rather than prematurely claiming
\* 'cancelled'" says of them.  An exit status that is reported is the one the
\* command recorded, of every job (_classify, cancel, _sweep_expired).
FinishedIsOver ==
    \A j \in Jobs :
        /\ meta[j] = "removed" => IsOver(j) \/ j \in misread
        /\ \A p \in Servers :
            /\ j \in Known(p) /\ table[p][j].status \in Terminal => IsOver(j) \/ j \in misread
            /\ file[p][j] # NoRec /\ file[p][j].status \in Terminal => IsOver(j) \/ j \in misread
            /\ j \in Known(p) /\ table[p][j].status \in {"done", "failed"}
                   => IsOver(j) /\ meta[j] \in {table[p][j].status, "removed"}

\* PORTAL_JOB_MAX_LIVE: while a submit is under way, the jobs of the server
\* that still run and its reservations stay within the bound, however polls,
\* cancels and concurrent submits interleave.  A running job of which a reply
\* was cut off may be recorded as finished and is then beyond the bound.
Running(p) == {j \in Known(p) : proc[j] = "running"}
CapHolds ==
    \A p \in Servers :
        pending[p] > 0 => Cardinality(Running(p) \ misread) + pending[p] <= MaxLive

\* "preserving cross-restart recovery": a job that was recorded and not swept
\* is in the table of a server process or in a state file.
JobKept ==
    \A j \in kept :
        \E p \in Servers : file[p][j] # NoRec \/ (server[p] # "down" /\ j \in Known(p))

\* As long as only one server process has ended, whichever of them it was and
\* however the others start, run and adopt meanwhile, no job is forgotten.
Stops == starts - Cardinality({p \in Servers : server[p] # "down"})
KeptThroughRestart == Stops <= 1 => JobKept
=============================================================================
