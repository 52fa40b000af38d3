-------------------------- MODULE JobManagerProofs --------------------------
(***************************************************************************)
(* Proofs about JobManager: the typing with the count of reservations,     *)
(* that a job called finished is over, the cap on live jobs, and that no   *)
(* job is forgotten when one server ends.                                  *)
(***************************************************************************)
EXTENDS JobManager, FiniteSetTheorems, TLAPS

USE DEF historyVars

\* The two parts of the type invariant.
Typed ==
    /\ starts \in 0..MaxStarts
    /\ server \in [Servers -> {"down", "loading", "up"}]
    /\ table \in [Servers -> Tables]
    /\ file \in [Servers -> Tables]
    /\ adopting \in [Servers -> [Servers -> {"no", "look", "remove"}]]
    /\ pending \in [Servers -> Nat]
    /\ proc \in [Jobs -> {"none", "running", "marked", "gone", "lost"}]
    /\ meta \in [Jobs -> {"none", "done", "failed", "removed"}]
    /\ reused \in [Jobs -> BOOLEAN]
    /\ op \in [Ops -> {NoOp} \cup Op]
    /\ kept \subseteq Jobs /\ misread \subseteq Jobs
Spawning == {"spawn", "started"}
SpawningOf(p) == {q \in Ops : op[q].at \in Spawning /\ op[q].srv = p}
Counted == \A p \in Servers : pending[p] = Cardinality(SpawningOf(p))

\* The job's process has ended, or an empty reply made the code believe it.
Over(j) == IsOver(j) \/ j \in misread

\* The inductive invariant.  A record, in memory or in a state file, is of a
\* job that was forked, and a status it claims is true ...
RecOK(j, rec) ==
    rec # NoRec =>
        /\ proc[j] # "none"
        /\ rec.status \in Terminal => Over(j)
        /\ rec.status \in {"done", "failed"} => IsOver(j) /\ meta[j] \in {rec.status, "removed"}
Records == \A p \in Servers, j \in Jobs : RecOK(j, table[p][j]) /\ RecOK(j, file[p][j])

\* ... the meta file is written, and removed, when the job is over ...
MetaOver == \A j \in Jobs : /\ meta[j] \in {"done", "failed"} => IsOver(j)
                            /\ meta[j] = "removed" => Over(j)

\* ... what an operation has read, or is going to do, stays true while it is
\* suspended ...
Polled == {"probe", "answer"}
SaysOver(o) == (o.at = "answer" /\ o.alive # "yes") \/ (o.at = "check" /\ ~o.alive)
OpOK(q) ==
    /\ op[q] # NoOp => server[op[q].srv] = "up"
    /\ op[q].at = "clean" => \A j \in op[q].todo : Over(j)
    /\ op[q].at = "spawn" => proc[op[q].job] = "none"
    /\ op[q].at \in {"started", "signal", "check"} \cup Polled => proc[op[q].job] # "none"
    /\ op[q].at \in Polled /\ op[q].meta # "none" =>
         IsOver(op[q].job) /\ meta[op[q].job] \in {op[q].meta, "removed"}
    /\ SaysOver(op[q]) => Over(op[q].job)

\* ... no two of them start the same job ...
OwnJobs == \A q, r \in Ops : (q # r /\ op[q].at \in Spawning /\ op[r].at \in Spawning)
                             => op[q].job # op[r].job

\* ... and a server adopts files only while it loads.
AdoptsLoading == \A p, r \in Servers : adopting[p][r] # "no" => server[p] = "loading"

IInv ==
    /\ Typed /\ Counted /\ Records /\ MetaOver /\ OwnJobs /\ AdoptsLoading
    /\ \A q \in Ops : OpOK(q)
    /\ CapHolds

-----------------------------------------------------------------------------
(* Typing *)

\* The fields an operation has at each of its places.
LEMMA OpFields ==
    ASSUME Typed, NEW q \in Ops
    PROVE  /\ op[q].at \in {"idle", "clean", "spawn", "started", "signal", "probe", "answer", "check"}
           /\ op[q] = NoOp <=> op[q].at = "idle"
           /\ op[q] # NoOp => op[q].srv \in Servers
           /\ op[q].at = "clean" =>
                /\ op[q].todo \subseteq Jobs
                /\ op[q] \in [at : {"clean"}, srv : Servers, todo : SUBSET Jobs, submit : BOOLEAN]
           /\ op[q].at \notin {"idle", "clean"} => op[q].job \in Jobs
           /\ op[q].at \in Spawning => op[q] \in [at : Spawning, srv : Servers, job : Jobs]
           /\ op[q].at \in Polled => op[q].meta \in {"none", "done", "failed"}
           /\ op[q].at = "answer" => op[q].alive \in {"none", "yes", "no"}
           /\ op[q].at = "check" => op[q].alive \in BOOLEAN
  <1>1. op[q] \in {NoOp} \cup Op
    BY DEF Typed
  <1>2. CASE op[q] = NoOp
    BY <1>2 DEF NoOp, Spawning, Polled
  <1>3. CASE op[q] \in [at : {"clean"}, srv : Servers, todo : SUBSET Jobs, submit : BOOLEAN]
    BY <1>3 DEF NoOp, Spawning, Polled
  <1>4. CASE op[q] \in [at : {"spawn", "started"}, srv : Servers, job : Jobs]
    BY <1>4 DEF NoOp, Spawning, Polled
  <1>5. CASE op[q] \in [at : {"signal"}, srv : Servers, job : Jobs]
    BY <1>5 DEF NoOp, Spawning, Polled
  <1>6. CASE op[q] \in [at : {"probe"}, srv : Servers, job : Jobs, meta : {"none", "done", "failed"}]
    BY <1>6 DEF NoOp, Spawning, Polled
  <1>7. CASE op[q] \in [at : {"answer"}, srv : Servers, job : Jobs,
                        meta : {"none", "done", "failed"}, alive : {"none", "yes", "no"}]
    BY <1>7 DEF NoOp, Spawning, Polled
  <1>8. CASE op[q] \in [at : {"check"}, srv : Servers, job : Jobs, alive : BOOLEAN]
    BY <1>8 DEF NoOp, Spawning, Polled
  <1> QED
    BY <1>1, <1>2, <1>3, <1>4, <1>5, <1>6, <1>7, <1>8 DEF Op

\* A record of a table is a record, and a table with one entry changed is a
\* table.
LEMMA TableFacts ==
    ASSUME Typed, NEW p \in Servers
    PROVE  /\ table[p] \in Tables /\ file[p] \in Tables
           /\ \A j \in Jobs : /\ table[p][j] # NoRec => table[p][j] \in Rec
                              /\ file[p][j] # NoRec => file[p][j] \in Rec
           /\ Empty \in Tables
           /\ \A tab \in Tables : /\ [table EXCEPT ![p] = tab] \in [Servers -> Tables]
                                  /\ [file EXCEPT ![p] = tab] \in [Servers -> Tables]
           /\ \A j \in Jobs, rec \in Rec : [table[p] EXCEPT ![j] = rec] \in Tables
  BY DEF Typed, Tables, Empty

\* Setting one operation.
LEMMA SetOpTyped ==
    ASSUME Typed, NEW q \in Ops, NEW o \in {NoOp} \cup Op, SetOp(q, o)
    PROVE  /\ op' \in [Ops -> {NoOp} \cup Op] /\ op'[q] = o
           /\ \A r \in Ops \ {q} : op'[r] = op[r]
  BY DEF Typed, SetOp

\* Every step keeps the types.
LEMMA TypedStep ==
    ASSUME Typed, Counted, Next
    PROVE  Typed'
  <1> USE DEF remoteVars
  <1>1. ASSUME NEW p \in Servers, Start(p) PROVE Typed'
    <2>1. starts + 1 \in 0..MaxStarts
      BY <1>1, JobAssumption DEF Typed, Start
    <2>2. adopting' \in [Servers -> [Servers -> {"no", "look", "remove"}]]
      BY <1>1 DEF Typed, Start
    <2> QED
      BY <1>1, <2>1, <2>2 DEF Typed, Start
  <1>2. ASSUME NEW p \in Servers, LoadOwn(p) PROVE Typed'
    <2>1. Loaded(p, p) \in Tables
      BY TableFacts DEF Loaded, Tables
    <2> QED
      BY <1>2, <2>1, TableFacts DEF Typed, LoadOwn, Keep
  <1>3. ASSUME NEW p \in Servers, Stop(p) PROVE Typed'
    <2>1. table' \in [Servers -> Tables]
      BY <1>3, TableFacts DEF Stop
    <2>2. op' \in [Ops -> {NoOp} \cup Op]
      BY <1>3 DEF Typed, Stop
    <2>3. adopting' \in [Servers -> [Servers -> {"no", "look", "remove"}]]
      BY <1>3 DEF Typed, Stop
    <2> QED
      BY <1>3, <2>1, <2>2, <2>3 DEF Typed, Stop
  <1>4. ASSUME NEW p \in Servers, NEW r \in Servers, LookAtSibling(p, r) PROVE Typed'
    <2>1. Loaded(p, r) \in Tables
      BY TableFacts DEF Loaded, Tables
    <2>2. table' \in [Servers -> Tables] /\ file' = file
      BY <1>4, <2>1, TableFacts DEF Typed, LookAtSibling, Keep
    <2>3. adopting' \in [Servers -> [Servers -> {"no", "look", "remove"}]]
      <3>1. \/ adopting' = [adopting EXCEPT ![p][r] = "remove"]
            \/ adopting' = [adopting EXCEPT ![p][r] = "no"]
        BY <1>4 DEF LookAtSibling
      <3>2. CASE adopting' = [adopting EXCEPT ![p][r] = "remove"]
        BY <3>2 DEF Typed
      <3>3. CASE adopting' = [adopting EXCEPT ![p][r] = "no"]
        BY <3>3 DEF Typed
      <3> QED
        BY <3>1, <3>2, <3>3
    <2> QED
      BY <1>4, <2>2, <2>3 DEF Typed, LookAtSibling
  <1>5. ASSUME NEW p \in Servers, NEW r \in Servers, RemoveSibling(p, r) PROVE Typed'
    <2>1. file' \in [Servers -> Tables]
      BY <1>5, TableFacts DEF RemoveSibling
    <2>2. adopting' \in [Servers -> [Servers -> {"no", "look", "remove"}]]
      BY <1>5 DEF Typed, RemoveSibling
    <2> QED
      BY <1>5, <2>1, <2>2 DEF Typed, RemoveSibling
  <1>6. ASSUME NEW q \in Ops, NEW p \in Servers, Sweep(q, p) PROVE Typed'
    <2>1. PICK expired \in SUBSET Sweepable(p), submit \in BOOLEAN :
            /\ Store(p, [j \in Jobs |-> IF j \in expired THEN NoRec ELSE table[p][j]])
            /\ SetOp(q, [at |-> "clean", srv |-> p, todo |-> expired, submit |-> submit])
            /\ kept' = kept \ expired
      BY <1>6 DEF Sweep
    <2>2. expired \subseteq Jobs
      BY DEF Sweepable, Known
    <2>3. [j \in Jobs |-> IF j \in expired THEN NoRec ELSE table[p][j]] \in Tables
      BY TableFacts DEF Tables
    <2>4. [at |-> "clean", srv |-> p, todo |-> expired, submit |-> submit] \in {NoOp} \cup Op
      BY <2>2 DEF Op
    <2>5. op' \in [Ops -> {NoOp} \cup Op]
      BY <2>1, <2>4, SetOpTyped
    <2>6. table' \in [Servers -> Tables] /\ file' \in [Servers -> Tables]
      BY <2>1, <2>3, TableFacts DEF Store
    <2> QED
      BY <1>6, <2>1, <2>5, <2>6 DEF Typed, Sweep
  <1>7. ASSUME NEW q \in Ops, NEW p \in Servers, Admit(q, p) PROVE Typed'
    <2>1. PICK j \in Jobs : SetOp(q, [at |-> "spawn", srv |-> p, job |-> j])
      BY <1>7 DEF Admit, Unused
    <2>2. [at |-> "spawn", srv |-> p, job |-> j] \in {NoOp} \cup Op
      BY DEF Op
    <2>3. op' \in [Ops -> {NoOp} \cup Op]
      BY <2>1, <2>2, SetOpTyped
    <2> QED
      BY <1>7, <2>3 DEF Typed, Admit
  <1>8. ASSUME NEW q \in Ops, NEW p \in Servers, NEW j \in Jobs, Poll(q, p, j) \/ Cancel(q, p, j)
        PROVE  Typed'
    <2> DEFINE m == IF meta[j] = "removed" THEN "none" ELSE meta[j]
               o == [at |-> "probe", srv |-> p, job |-> j, meta |-> m]
               s == [at |-> "signal", srv |-> p, job |-> j]
    <2>1. SetOp(q, o) \/ SetOp(q, s)
      BY <1>8 DEF Poll, Cancel
    <2>2. m \in {"none", "done", "failed"}
      BY DEF Typed
    <2>3. o \in {NoOp} \cup Op /\ s \in {NoOp} \cup Op
      BY <2>2 DEF Op
    <2> HIDE DEF o, s
    <2>4. op' \in [Ops -> {NoOp} \cup Op]
      BY <2>1, <2>3, SetOpTyped
    <2> QED
      BY <1>8, <2>4 DEF Typed, Poll, Cancel
  <1>9. ASSUME NEW q \in Ops, Clean(q) PROVE Typed'
    <2>1. PICK j \in op[q].todo : /\ SetOp(q, [op[q] EXCEPT !.todo = @ \ {j}])
                                  /\ meta' \in {meta, [meta EXCEPT ![j] = "removed"]}
      BY <1>9 DEF Clean
    <2>2. /\ op[q] \in [at : {"clean"}, srv : Servers, todo : SUBSET Jobs, submit : BOOLEAN]
          /\ j \in Jobs
      BY <1>9, <2>1, OpFields DEF Clean, Runs
    <2>3. [op[q] EXCEPT !.todo = @ \ {j}] \in {NoOp} \cup Op
      BY <2>2 DEF Op
    <2>4. op' \in [Ops -> {NoOp} \cup Op]
      BY <2>1, <2>3, SetOpTyped
    <2>5. meta' \in [Jobs -> {"none", "done", "failed", "removed"}]
      BY <2>1, <2>2 DEF Typed
    <2> QED
      BY <1>9, <2>4, <2>5 DEF Typed, Clean
  <1>10. ASSUME NEW q \in Ops, AfterSweep(q) \/ Abandon(q) PROVE Typed'
    <2>1. op' \in [Ops -> {NoOp} \cup Op]
      BY <1>10, SetOpTyped DEF AfterSweep, Abandon
    <2> QED
      BY <1>10, <2>1 DEF Typed, AfterSweep, Abandon
  <1>11. ASSUME NEW q \in Ops, Fork(q) PROVE Typed'
    <2>1. op[q] \in [at : Spawning, srv : Servers, job : Jobs] /\ op[q].job \in Jobs
      BY <1>11, OpFields DEF Fork, Runs, Spawning
    <2>2. [op[q] EXCEPT !.at = "started"] \in {NoOp} \cup Op
      BY <2>1 DEF Op, Spawning
    <2>3. op' \in [Ops -> {NoOp} \cup Op]
      BY <1>11, <2>2, SetOpTyped DEF Fork
    <2> QED
      BY <1>11, <2>1, <2>3 DEF Typed, Fork
  <1>12. ASSUME NEW q \in Ops, Recorded(q) \/ SpawnFails(q) PROVE Typed'
    <2> DEFINE p == op[q].srv
               j == op[q].job
               rec == [status |-> "running", finished |-> FALSE, asked |-> FALSE]
    <2>1. op[q].at \in Spawning /\ p \in Servers /\ j \in Jobs
      BY <1>12, OpFields DEF Recorded, SpawnFails, Runs, Spawning
    <2>2. op' \in [Ops -> {NoOp} \cup Op]
      BY <1>12, SetOpTyped DEF Recorded, SpawnFails
    <2>3. pending[p] - 1 \in Nat
      <3>1. SpawningOf(p) # {} /\ SpawningOf(p) \in SUBSET Ops
        BY <2>1 DEF SpawningOf
      <3>2. IsFiniteSet(SpawningOf(p)) /\ Cardinality(SpawningOf(p)) # 0
            /\ Cardinality(SpawningOf(p)) \in Nat
        BY <3>1, FS_Subset, FS_EmptySet, FS_CardinalityType, JobAssumption
      <3> QED
        BY <2>1, <3>2 DEF Counted
    <2>4. pending' \in [Servers -> Nat]
      BY <1>12, <2>1, <2>3 DEF Typed, Recorded, SpawnFails
    <2>5. rec \in Rec
      BY DEF Rec
    <2>6. table' \in [Servers -> Tables] /\ file' \in [Servers -> Tables]
      <3>1. CASE Recorded(q)
        <4>1. Store(p, [table[p] EXCEPT ![j] = rec])
          BY <3>1 DEF Recorded
        <4> HIDE DEF rec, p, j
        <4>2. [table[p] EXCEPT ![j] = rec] \in Tables
          BY <2>1, <2>5, TableFacts
        <4> QED
          BY <2>1, <4>1, <4>2, TableFacts DEF Store
      <3>2. CASE SpawnFails(q)
        BY <3>2 DEF SpawnFails, Typed
      <3> QED
        BY <1>12, <3>1, <3>2
    <2>7. kept' \subseteq Jobs
      BY <1>12, <2>1 DEF Typed, Recorded, SpawnFails
    <2> QED
      BY <1>12, <2>2, <2>4, <2>6, <2>7 DEF Typed, Recorded, SpawnFails
  <1>13. ASSUME NEW q \in Ops, ProbeProcess(q) PROVE Typed'
    <2> DEFINE o(m, a) == [at |-> "answer", srv |-> op[q].srv, job |-> op[q].job, meta |-> m, alive |-> a]
    <2>1. /\ op[q].srv \in Servers /\ op[q].job \in Jobs
          /\ op[q].meta \in {"none", "done", "failed"}
      BY <1>13, OpFields DEF ProbeProcess, Runs, Polled
    <2>2. \A m \in {"none", "done", "failed"}, a \in {"none", "yes", "no"} : o(m, a) \in {NoOp} \cup Op
      BY <2>1 DEF Op
    <2>3. PICK m \in {"none", "done", "failed"}, a \in {"none", "yes", "no"} : SetOp(q, o(m, a))
      BY <1>13, <2>1 DEF ProbeProcess
    <2>4. op' \in [Ops -> {NoOp} \cup Op]
      BY <2>2, <2>3, SetOpTyped
    <2>5. misread' \subseteq Jobs
      BY <1>13, <2>1 DEF ProbeProcess, CutOff, Typed
    <2> QED
      BY <1>13, <2>4, <2>5 DEF Typed, ProbeProcess
  <1>14. ASSUME NEW q \in Ops, PollDone(q) PROVE Typed'
    <2> DEFINE p == op[q].srv
               j == op[q].job
               rec == table[p][j]
               status == Classify(rec, op[q].meta, op[q].alive)
               new == [rec EXCEPT !.status = status, !.finished = @ \/ status \in Terminal]
    <2>1. /\ p \in Servers /\ j \in Jobs /\ op[q].meta \in {"none", "done", "failed"}
          /\ op[q].alive \in {"none", "yes", "no"}
      BY <1>14, OpFields DEF PollDone, Runs, Polled
    <2>2. op' \in [Ops -> {NoOp} \cup Op]
      BY <1>14, SetOpTyped DEF PollDone
    <2>3. status \in Terminal \cup {"running"}
      BY <2>1 DEF Classify, Terminal
    <2>4. rec # NoRec => new \in Rec
      <3>1. rec # NoRec => rec \in Rec
        BY <2>1, TableFacts
      <3> HIDE DEF status, rec
      <3> QED
        BY <2>3, <3>1 DEF Rec
    <2>5. \/ UNCHANGED <<table, file>>
          \/ /\ rec # NoRec
             /\ Store(p, [table[p] EXCEPT ![j] = new]) \/ Keep(p, [table[p] EXCEPT ![j] = new])
      BY <1>14 DEF PollDone
    <2> HIDE DEF new, p, j, rec
    <2>6. table' \in [Servers -> Tables] /\ file' \in [Servers -> Tables]
      <3>1. CASE UNCHANGED <<table, file>>
        BY <3>1 DEF Typed
      <3>2. CASE new \in Rec /\ (Store(p, [table[p] EXCEPT ![j] = new]) \/ Keep(p, [table[p] EXCEPT ![j] = new]))
        <4>1. [table[p] EXCEPT ![j] = new] \in Tables
          BY <2>1, <3>2, TableFacts
        <4> DEFINE tab == [table[p] EXCEPT ![j] = new]
        <4>2. table' = [table EXCEPT ![p] = tab] /\ (file' = file \/ file' = [file EXCEPT ![p] = tab])
          BY <3>2 DEF Store, Keep
        <4>3. tab \in Tables
          BY <4>1
        <4> HIDE DEF tab
        <4>4. table' \in [Servers -> Tables]
          BY <2>1, <4>2, <4>3, TableFacts
        <4>5. [file EXCEPT ![p] = tab] \in [Servers -> Tables] /\ file \in [Servers -> Tables]
          BY <2>1, <4>3, TableFacts DEF Typed
        <4> QED
          BY <4>2, <4>4, <4>5
      <3> QED
        BY <2>4, <2>5, <3>1, <3>2
    <2> QED
      BY <1>14, <2>2, <2>6 DEF Typed, PollDone
  <1>15. ASSUME NEW q \in Ops, Signal(q) PROVE Typed'
    <2> DEFINE j == op[q].job
               o(a) == [at |-> "check", srv |-> op[q].srv, job |-> j, alive |-> a]
    <2>1. op[q].srv \in Servers /\ j \in Jobs
      BY <1>15, OpFields DEF Signal, Runs
    <2>2. /\ proc' \in [Jobs -> {"none", "running", "marked", "gone", "lost"}]
          /\ reused' \in [Jobs -> BOOLEAN]
      BY <1>15, <2>1 DEF Typed, Signal, AfterSignal
    <2>3. \A a \in BOOLEAN : o(a) \in {NoOp} \cup Op
      BY <2>1 DEF Op
    <2>4. PICK a \in BOOLEAN : SetOp(q, o(a))
      BY <1>15, <2>1, <2>2 DEF Signal
    <2>5. op' \in [Ops -> {NoOp} \cup Op]
      BY <2>3, <2>4, SetOpTyped
    <2>6. misread' \subseteq Jobs
      BY <1>15, <2>1 DEF Signal, CutOff, Typed
    <2> QED
      BY <1>15, <2>2, <2>5, <2>6 DEF Typed, Signal
  <1>16. ASSUME NEW q \in Ops, CancelDone(q) PROVE Typed'
    <2> DEFINE p == op[q].srv
               j == op[q].job
               rec == table[p][j]
               over == ~op[q].alive /\ rec.status \notin Terminal
               new == [status |-> IF over THEN "cancelled" ELSE rec.status,
                       finished |-> rec.finished \/ over, asked |-> TRUE]
    <2>1. p \in Servers /\ j \in Jobs
      BY <1>16, OpFields DEF CancelDone, Runs
    <2>2. op' \in [Ops -> {NoOp} \cup Op]
      BY <1>16, SetOpTyped DEF CancelDone
    <2>3. rec # NoRec => new \in Rec
      <3>1. rec # NoRec => rec \in Rec
        BY <2>1, TableFacts
      <3> HIDE DEF rec
      <3> QED
        BY <3>1 DEF Rec, Terminal
    <2>4. Store(p, table[p]) \/ (rec # NoRec /\ Store(p, [table[p] EXCEPT ![j] = new]))
      BY <1>16 DEF CancelDone
    <2> HIDE DEF new, rec, p, j
    <2>5. table' \in [Servers -> Tables] /\ file' \in [Servers -> Tables]
      BY <2>1, <2>3, <2>4, TableFacts DEF Store
    <2> QED
      BY <1>16, <2>2, <2>5 DEF Typed, CancelDone
  <1>17. ASSUME NEW j \in Jobs, RecordExit(j) \/ Exit(j) \/ Killed(j) \/ ReusePid(j) PROVE Typed'
    <2>1. CASE RecordExit(j)
      BY <2>1 DEF Typed, RecordExit
    <2>2. CASE Exit(j) \/ Killed(j)
      BY <2>2 DEF Typed, Exit, Killed
    <2>3. CASE ReusePid(j)
      BY <2>3 DEF Typed, ReusePid
    <2> QED
      BY <1>17, <2>1, <2>2, <2>3
  <1> QED
    BY <1>1, <1>2, <1>3, <1>4, <1>5, <1>6, <1>7, <1>8, <1>9, <1>10, <1>11, <1>12, <1>13, <1>14,
       <1>15, <1>16, <1>17 DEF Next

-----------------------------------------------------------------------------
(* The remote processes only go forward *)

\* A job that was forked stays so, one that is over stays over, and an exit
\* status that was recorded is removed at most.
EndedNext(j) == proc'[j] \in {"marked", "gone", "lost"}
OverNext(j) == EndedNext(j) \/ j \in misread'
Onward(j) ==
    /\ proc[j] # "none" => proc'[j] # "none"
    /\ IsOver(j) => EndedNext(j)
    /\ j \in misread => j \in misread'
    /\ meta[j] \in {"done", "failed"} => meta'[j] \in {meta[j], "removed"}
    /\ IsOver(j) /\ meta[j] = "removed" => meta'[j] = "removed"

\* A job that was misread stays so.
LEMMA MisreadStep ==
    ASSUME Next
    PROVE  misread \subseteq misread'
  <1> USE DEF remoteVars
  <1>1. ASSUME NEW q \in Ops, ProbeProcess(q) \/ Signal(q) PROVE misread \subseteq misread'
    BY <1>1 DEF ProbeProcess, Signal, CutOff
  <1>2. ASSUME NEW q \in Ops, \/ Clean(q) \/ AfterSweep(q) \/ Fork(q) \/ Recorded(q) \/ SpawnFails(q)
                              \/ PollDone(q) \/ Abandon(q) \/ CancelDone(q)
        PROVE  misread' = misread
    BY <1>2 DEF Clean, AfterSweep, Fork, Recorded, SpawnFails, PollDone, Abandon, CancelDone
  <1>3. ASSUME NEW q \in Ops, NEW p \in Servers,
               Sweep(q, p) \/ Admit(q, p) \/ \E j \in Jobs : Poll(q, p, j) \/ Cancel(q, p, j)
        PROVE  misread' = misread
    BY <1>3 DEF Sweep, Admit, Poll, Cancel
  <1>4. ASSUME NEW p \in Servers, \/ Start(p) \/ LoadOwn(p) \/ Stop(p)
                                 \/ \E r \in Servers : LookAtSibling(p, r) \/ RemoveSibling(p, r)
        PROVE  misread' = misread
    BY <1>4 DEF Start, LoadOwn, Stop, LookAtSibling, RemoveSibling
  <1>5. ASSUME NEW j \in Jobs, RecordExit(j) \/ Exit(j) \/ Killed(j) \/ ReusePid(j)
        PROVE  misread' = misread
    BY <1>5 DEF RecordExit, Exit, Killed, ReusePid
  <1> QED
    BY <1>1, <1>2, <1>3, <1>4, <1>5 DEF Next

\* No process comes back: what is over stays over, with its exit code.
LEMMA OnwardStep ==
    ASSUME IInv, Next
    PROVE  /\ \A j \in Jobs : Onward(j)
           /\ MetaOver'
  <1> USE DEF IsOver, EndedNext, Over
  <1>0. Typed /\ MetaOver /\ \A q \in Ops : OpOK(q)
    BY DEF IInv
  <1>00. misread \subseteq misread'
    BY MisreadStep
  <1>1. CASE UNCHANGED <<proc, meta>>
    BY <1>0, <1>00, <1>1 DEF Onward, MetaOver
  <1>2. ASSUME NEW q \in Ops, Clean(q) PROVE (\A j \in Jobs : Onward(j)) /\ MetaOver'
    <2>1. PICK j \in op[q].todo : meta' \in {meta, [meta EXCEPT ![j] = "removed"]}
      BY <1>2 DEF Clean
    <2>2. Over(j) /\ UNCHANGED proc
      BY <1>0, <1>2 DEF OpOK, Clean, Runs
    <2> QED
      BY <1>0, <1>00, <2>1, <2>2 DEF Typed, Onward, MetaOver
  <1>3. ASSUME NEW q \in Ops, Fork(q) PROVE (\A j \in Jobs : Onward(j)) /\ MetaOver'
    <2>1. proc[op[q].job] = "none" /\ proc' = [proc EXCEPT ![op[q].job] = "running"] /\ UNCHANGED meta
      BY <1>0, <1>3 DEF OpOK, Fork, Runs
    <2> QED
      BY <1>0, <1>00, <2>1 DEF Typed, Onward, MetaOver
  <1>4. ASSUME NEW q \in Ops, Signal(q) PROVE (\A j \in Jobs : Onward(j)) /\ MetaOver'
    <2>1. /\ proc' = proc \/ proc' = [proc EXCEPT ![op[q].job] = AfterSignal(proc[op[q].job])]
          /\ UNCHANGED meta
      BY <1>4 DEF Signal
    <2>2. /\ proc[op[q].job] # "none" => AfterSignal(proc[op[q].job]) # "none"
          /\ proc[op[q].job] \in {"marked", "gone", "lost"}
               => AfterSignal(proc[op[q].job]) \in {"marked", "gone", "lost"}
      BY DEF AfterSignal
    <2> QED
      BY <1>0, <1>00, <2>1, <2>2 DEF Typed, Onward, MetaOver
  <1>5. ASSUME NEW j \in Jobs, RecordExit(j) \/ Exit(j) \/ Killed(j)
        PROVE  (\A k \in Jobs : Onward(k)) /\ MetaOver'
    <2>1. CASE RecordExit(j)
      <3>1. meta[j] \notin {"done", "failed"} /\ ~IsOver(j)
        BY <1>0, <2>1 DEF MetaOver, RecordExit
      <3> QED
        BY <1>0, <1>00, <2>1, <3>1 DEF Typed, Onward, MetaOver, RecordExit
    <2>2. CASE Exit(j) \/ Killed(j)
      BY <1>0, <1>00, <2>2 DEF Typed, Onward, MetaOver, Exit, Killed
    <2> QED
      BY <1>5, <2>1, <2>2
  <1>6. ASSUME NEW q \in Ops, AfterSweep(q) \/ Recorded(q) \/ SpawnFails(q) \/ ProbeProcess(q)
                              \/ PollDone(q) \/ Abandon(q) \/ CancelDone(q)
        PROVE  UNCHANGED <<proc, meta>>
    BY <1>6 DEF AfterSweep, Recorded, SpawnFails, ProbeProcess, PollDone, Abandon, CancelDone,
                remoteVars
  <1>7. ASSUME NEW q \in Ops, NEW p \in Servers, Sweep(q, p) \/ Admit(q, p)
        PROVE  UNCHANGED <<proc, meta>>
    BY <1>7 DEF Sweep, Admit, remoteVars
  <1>8. ASSUME NEW q \in Ops, NEW p \in Servers, NEW j \in Jobs, Poll(q, p, j) \/ Cancel(q, p, j)
        PROVE  UNCHANGED <<proc, meta>>
    BY <1>8 DEF Poll, Cancel, remoteVars
  <1>9. ASSUME NEW p \in Servers, \/ Start(p) \/ LoadOwn(p) \/ Stop(p)
                                 \/ \E r \in Servers : LookAtSibling(p, r) \/ RemoveSibling(p, r)
        PROVE  UNCHANGED <<proc, meta>>
    BY <1>9 DEF Start, LoadOwn, Stop, LookAtSibling, RemoveSibling, remoteVars
  <1>10. ASSUME NEW j \in Jobs, ReusePid(j) PROVE UNCHANGED <<proc, meta>>
    BY <1>10 DEF ReusePid
  <1> QED
    BY <1>1, <1>2, <1>3, <1>4, <1>5, <1>6, <1>7, <1>8, <1>9, <1>10 DEF Next

\* So a true record stays true.
RecOKNext(j, rec) ==
    rec # NoRec =>
        /\ proc'[j] # "none"
        /\ rec.status \in Terminal => OverNext(j)
        /\ rec.status \in {"done", "failed"} => EndedNext(j) /\ meta'[j] \in {rec.status, "removed"}

\* What is right about a record stays right when its process goes on.
LEMMA RecStays ==
    ASSUME NEW j \in Jobs, Onward(j), NEW rec, RecOK(j, rec)
    PROVE  RecOKNext(j, rec)
  BY DEF Onward, RecOK, RecOKNext, IsOver, Over, EndedNext, OverNext

\* Records, told of the next state record by record.
LEMMA RecordsNext ==
    ASSUME \A p \in Servers, j \in Jobs : RecOKNext(j, table'[p][j]) /\ RecOKNext(j, file'[p][j])
    PROVE  Records'
  BY DEF RecOKNext, Records, RecOK, IsOver, Over, EndedNext, OverNext

\* Whatever a step writes to a table or a file is true.
LEMMA RecordsStep ==
    ASSUME IInv, Next
    PROVE  Records'
  <1>0. Typed /\ Records /\ (\A q \in Ops : OpOK(q)) /\ \A j \in Jobs : Onward(j)
    BY OnwardStep DEF IInv
  \* Records that were there are still true.
  <1>1. \A p \in Servers, j \in Jobs : RecOKNext(j, table[p][j]) /\ RecOKNext(j, file[p][j])
    BY <1>0, RecStays DEF Records
  <1>2. \A j \in Jobs : RecOKNext(j, NoRec)
    BY DEF RecOKNext
  \* Tables that only hold such records are true.
  <1>3. ASSUME \A p \in Servers, j \in Jobs :
                 /\ table'[p][j] = NoRec \/ \E r \in Servers : table'[p][j] \in {table[r][j], file[r][j]}
                 /\ file'[p][j] = NoRec \/ \E r \in Servers : file'[p][j] \in {table[r][j], file[r][j]}
        PROVE  Records'
    <2>1. \A p \in Servers, j \in Jobs : RecOKNext(j, table'[p][j]) /\ RecOKNext(j, file'[p][j])
      BY <1>1, <1>2, <1>3
    <2> QED
      BY <2>1, RecordsNext
  <1>4. CASE UNCHANGED <<table, file>>
    BY <1>3, <1>4
  <1>5. ASSUME NEW p \in Servers, NEW r \in Servers, Keep(p, Loaded(p, r)) PROVE Records'
    <2>1. \A s \in Servers, j \in Jobs :
             /\ file'[s][j] = file[s][j]
             /\ table'[s][j] \in {table[s][j], file[r][j]}
      BY <1>0, <1>5 DEF Keep, Loaded, Typed
    <2> QED
      BY <1>3, <2>1
  <1>6. ASSUME NEW p \in Servers, LoadOwn(p) \/ Start(p) \/ Stop(p) PROVE Records'
    <2>1. CASE LoadOwn(p)
      BY <1>5, <2>1 DEF LoadOwn
    <2>2. CASE Start(p)
      BY <1>4, <2>2 DEF Start
    <2>3. CASE Stop(p)
      <3>1. \A s \in Servers, j \in Jobs : file'[s][j] = file[s][j] /\ table'[s][j] \in {table[s][j], NoRec}
        BY <1>0, <2>3 DEF Stop, Typed, Empty
      <3> QED
        BY <1>3, <3>1
    <2> QED
      BY <1>6, <2>1, <2>2, <2>3
  <1>7. ASSUME NEW p \in Servers, NEW r \in Servers, LookAtSibling(p, r) \/ RemoveSibling(p, r)
        PROVE  Records'
    <2>1. CASE LookAtSibling(p, r)
      BY <1>4, <1>5, <2>1 DEF LookAtSibling
    <2>2. CASE RemoveSibling(p, r)
      <3>1. \A s \in Servers, j \in Jobs : table'[s][j] = table[s][j] /\ file'[s][j] \in {file[s][j], NoRec}
        BY <1>0, <2>2 DEF RemoveSibling, Typed, Empty
      <3> QED
        BY <1>3, <3>1
    <2> QED
      BY <1>7, <2>1, <2>2
  <1>8. ASSUME NEW q \in Ops, NEW p \in Servers, Sweep(q, p) PROVE Records'
    <2>1. PICK expired :
            Store(p, [j \in Jobs |-> IF j \in expired THEN NoRec ELSE table[p][j]])
      BY <1>8 DEF Sweep
    <2>2. \A s \in Servers, j \in Jobs :
             /\ table'[s][j] \in {table[s][j], NoRec}
             /\ file'[s][j] \in {file[s][j], table[s][j], NoRec}
      BY <1>0, <2>1 DEF Store, Typed
    <2> QED
      BY <1>3, <2>2
  \* One record replaced by a true one, and the file with it or not.
  <1>9. ASSUME NEW p \in Servers, NEW j \in Jobs, NEW new, RecOKNext(j, new),
               \/ Store(p, [table[p] EXCEPT ![j] = new])
               \/ Keep(p, [table[p] EXCEPT ![j] = new])
        PROVE  Records'
    <2>1. table[p] \in Tables /\ \A s \in Servers : file[s] \in Tables /\ table[s] \in Tables
      BY <1>0 DEF Typed
    <2>2. \A k \in Jobs : [table[p] EXCEPT ![j] = new][k] = IF k = j THEN new ELSE table[p][k]
      BY <2>1 DEF Tables
    <2>3. \A s \in Servers, k \in Jobs :
             /\ table'[s][k] = IF s = p THEN [table[p] EXCEPT ![j] = new][k] ELSE table[s][k]
             /\ file'[s][k] = file[s][k] \/ (s = p /\ file'[s][k] = [table[p] EXCEPT ![j] = new][k])
      BY <1>0, <1>9 DEF Store, Keep, Typed
    <2>4. \A s \in Servers, k \in Jobs : RecOKNext(k, table'[s][k]) /\ RecOKNext(k, file'[s][k])
      BY <1>1, <1>9, <2>2, <2>3
    <2> QED
      BY <2>4, RecordsNext
  <1>10. ASSUME NEW q \in Ops, Recorded(q) PROVE Records'
    <2> DEFINE new == [status |-> "running", finished |-> FALSE, asked |-> FALSE]
    <2>1. /\ op[q].srv \in Servers /\ op[q].job \in Jobs /\ op[q].at = "started"
          /\ Store(op[q].srv, [table[op[q].srv] EXCEPT ![op[q].job] = new])
      BY <1>0, <1>10, OpFields DEF Recorded, Runs
    <2>2. proc'[op[q].job] # "none"
      BY <1>0, <2>1 DEF OpOK, Onward
    <2>3. RecOKNext(op[q].job, new)
      BY <2>2 DEF RecOKNext, Terminal
    <2> HIDE DEF new
    <2> QED
      BY <1>9, <2>1, <2>3
  <1>11. ASSUME NEW q \in Ops, PollDone(q) PROVE Records'
    <2> DEFINE p == op[q].srv
               j == op[q].job
               rec == table[p][j]
               status == Classify(rec, op[q].meta, op[q].alive)
               new == [rec EXCEPT !.status = status, !.finished = @ \/ status \in Terminal]
    <2>1. /\ p \in Servers /\ j \in Jobs /\ op[q].at = "answer"
          /\ op[q].meta \in {"none", "done", "failed"}
      BY <1>0, <1>11, OpFields DEF PollDone, Runs, Polled
    <2>2. \/ UNCHANGED <<table, file>>
          \/ /\ rec # NoRec
             /\ Store(p, [table[p] EXCEPT ![j] = new]) \/ Keep(p, [table[p] EXCEPT ![j] = new])
      BY <1>11 DEF PollDone
    <2>3. /\ proc[j] # "none" /\ (op[q].alive # "yes" => Over(j))
          /\ op[q].meta # "none" => meta[j] \in {op[q].meta, "removed"} /\ IsOver(j)
      BY <1>0, <2>1 DEF OpOK, Polled, SaysOver
    <2>4. /\ proc'[j] # "none" /\ (op[q].alive # "yes" => OverNext(j))
          /\ op[q].meta # "none" => meta'[j] \in {op[q].meta, "removed"} /\ EndedNext(j)
      BY <1>0, <2>1, <2>3 DEF Onward, Over, OverNext
    <2>5. /\ status \in Terminal => op[q].meta # "none" \/ op[q].alive # "yes"
          /\ status \in {"done", "failed"} => status = op[q].meta /\ op[q].meta # "none"
      BY <2>1 DEF Classify, Terminal
    <2>6. rec # NoRec => new.status = status
      <3>1. rec # NoRec => rec \in Rec
        BY <1>0, <2>1, TableFacts
      <3> HIDE DEF rec, status
      <3> QED
        BY <3>1 DEF Rec
    <2> HIDE DEF new, status
    <2>7. rec # NoRec => RecOKNext(j, new)
      BY <2>4, <2>5, <2>6 DEF RecOKNext, OverNext
    <2> HIDE DEF rec, p, j
    <2> QED
      BY <1>4, <1>9, <2>1, <2>2, <2>7
  <1>12. ASSUME NEW q \in Ops, CancelDone(q) PROVE Records'
    <2> DEFINE p == op[q].srv
               j == op[q].job
               rec == table[p][j]
               over == ~op[q].alive /\ rec.status \notin Terminal
               new == [status |-> IF over THEN "cancelled" ELSE rec.status,
                       finished |-> rec.finished \/ over, asked |-> TRUE]
    <2>1. p \in Servers /\ j \in Jobs /\ op[q].at = "check"
      BY <1>0, <1>12, OpFields DEF CancelDone, Runs
    <2>2. Store(p, table[p]) \/ (rec # NoRec /\ Store(p, [table[p] EXCEPT ![j] = new]))
      BY <1>12 DEF CancelDone
    <2>3. CASE Store(p, table[p])
      <3>1. \A s \in Servers, k \in Jobs :
               table'[s][k] = table[s][k] /\ file'[s][k] \in {file[s][k], table[s][k]}
        BY <1>0, <2>1, <2>3 DEF Store, Typed
      <3> QED
        BY <1>3, <3>1
    <2>4. CASE rec # NoRec /\ Store(p, [table[p] EXCEPT ![j] = new])
      <3>1. RecOKNext(j, rec)
        BY <1>1, <2>1
      <3>2. over => OverNext(j)
        BY <1>0, <2>1 DEF OpOK, SaysOver, Onward, Over, OverNext
      <3>3. RecOKNext(j, new)
        BY <2>4, <3>1, <3>2 DEF RecOKNext
      <3> HIDE DEF new, rec, p, j
      <3> QED
        BY <1>9, <2>1, <2>4, <3>3
    <2> QED
      BY <2>2, <2>3, <2>4
  <1>13. ASSUME NEW q \in Ops, \/ Clean(q) \/ AfterSweep(q) \/ Fork(q) \/ SpawnFails(q)
                               \/ ProbeProcess(q) \/ Abandon(q) \/ Signal(q)
         PROVE  UNCHANGED <<table, file>>
    BY <1>13 DEF Clean, AfterSweep, Fork, SpawnFails, ProbeProcess, Abandon, Signal
  <1>14. ASSUME NEW q \in Ops, NEW p \in Servers,
                Admit(q, p) \/ \E j \in Jobs : Poll(q, p, j) \/ Cancel(q, p, j)
         PROVE  UNCHANGED <<table, file>>
    BY <1>14 DEF Admit, Poll, Cancel
  <1>15. ASSUME NEW j \in Jobs, RecordExit(j) \/ Exit(j) \/ Killed(j) \/ ReusePid(j)
         PROVE  UNCHANGED <<table, file>>
    BY <1>15 DEF RecordExit, Exit, Killed, ReusePid
  <1> QED
    BY <1>4, <1>6, <1>7, <1>8, <1>10, <1>11, <1>12, <1>13, <1>14, <1>15 DEF Next

-----------------------------------------------------------------------------
(* What an operation knows stays true while it is suspended *)

UpStays == \A p \in Servers : server[p] = "up" => server'[p] = "up"
NoneStays == \A j \in Jobs : proc[j] = "none" => proc'[j] = "none"

\* A request that is left alone keeps what it knows.
LEMMA OpStays ==
    ASSUME Typed, NEW q \in Ops, OpOK(q), \A j \in Jobs : Onward(j), op'[q] = op[q],
           op[q] # NoOp => server'[op[q].srv] = "up",
           op[q].at = "spawn" => proc'[op[q].job] = "none"
    PROVE  OpOK(q)'
  <1> DEFINE o == op[q]
  <1>0. op'[q] = o
    OBVIOUS
  <1>1. o # NoOp => server'[o.srv] = "up"
    OBVIOUS
  <1>2. o.at = "clean" => \A j \in o.todo : OverNext(j)
    BY OpFields DEF OpOK, Onward, Over, OverNext
  <1>3. o.at \in {"started", "signal", "check"} \cup Polled => proc'[o.job] # "none"
    BY OpFields DEF OpOK, Onward, Polled
  <1>4. o.at \in Polled /\ o.meta # "none" => EndedNext(o.job) /\ meta'[o.job] \in {o.meta, "removed"}
    <2> SUFFICES ASSUME o.at \in Polled, o.meta # "none"
                 PROVE  EndedNext(o.job) /\ meta'[o.job] \in {o.meta, "removed"}
      OBVIOUS
    <2>1. /\ o.job \in Jobs /\ o.meta \in {"done", "failed"} /\ meta[o.job] \in {o.meta, "removed"}
          /\ IsOver(o.job)
      BY OpFields DEF OpOK, Polled
    <2> QED
      BY <2>1 DEF Onward
  <1>5. SaysOver(o) => OverNext(o.job)
    BY OpFields DEF OpOK, SaysOver, Onward, Over, OverNext
  <1>6. o.at = "spawn" => proc'[o.job] = "none"
    OBVIOUS
  <1> HIDE DEF o
  <1> QED
    BY <1>0, <1>1, <1>2, <1>3, <1>4, <1>5, <1>6 DEF OpOK, SaysOver, IsOver, Over, EndedNext, OverNext

\* A step of one operation leaves what the others know.
LEMMA OthersStay ==
    ASSUME Typed, \A q \in Ops : OpOK(q), \A j \in Jobs : Onward(j), UpStays, NoneStays,
           NEW q \in Ops, \A r \in Ops \ {q} : op'[r] = op[r], op'[q] = NoOp \/ OpOK(q)'
    PROVE  \A r \in Ops : OpOK(r)'
  <1>1. ASSUME op'[q] = NoOp PROVE OpOK(q)'
    BY <1>1 DEF OpOK, NoOp, Polled, SaysOver
  <1>2. ASSUME NEW r \in Ops \ {q} PROVE OpOK(r)'
    <2>1. op[r] # NoOp => server'[op[r].srv] = "up"
      BY OpFields DEF OpOK, UpStays
    <2>2. op[r].at = "spawn" => proc'[op[r].job] = "none"
      BY OpFields DEF OpOK, NoneStays
    <2> QED
      BY <2>1, <2>2, OpStays
  <1> QED
    BY <1>1, <1>2

\* Every step keeps what the requests know.
LEMMA OpStep ==
    ASSUME IInv, Next
    PROVE  \A q \in Ops : OpOK(q)'
  <1> DEFINE Goal == \A q \in Ops : OpOK(q)'
  <1>0. Typed /\ Records /\ MetaOver /\ OwnJobs /\ (\A q \in Ops : OpOK(q)) /\ \A j \in Jobs : Onward(j)
    BY OnwardStep DEF IInv
  \* Steps that leave the operations alone.
  <1>1. ASSUME UpStays, NoneStays, op' = op PROVE Goal
    <2>1. ASSUME NEW q \in Ops PROVE OpOK(q)'
      <3>1. op[q] # NoOp => server'[op[q].srv] = "up"
        BY <1>0, <1>1, OpFields DEF OpOK, UpStays
      <3>2. op[q].at = "spawn" => proc'[op[q].job] = "none"
        BY <1>0, <1>1, OpFields DEF OpOK, NoneStays
      <3> QED
        BY <1>0, <1>1, <3>1, <3>2, OpStays
    <2> QED
      BY <2>1
  \* Steps of one operation.
  <1>2. ASSUME NEW q \in Ops, UNCHANGED <<server, proc>>, NEW o, SetOp(q, o), o = NoOp \/ OpOK(q)'
        PROVE  Goal
    <2>1. op'[q] = o /\ \A r \in Ops \ {q} : op'[r] = op[r]
      BY <1>0, <1>2 DEF SetOp, Typed
    <2>2. UpStays /\ NoneStays
      BY <1>2 DEF UpStays, NoneStays
    <2> QED
      BY <1>0, <1>2, <2>1, <2>2, OthersStay
  <1>3. ASSUME NEW p \in Servers, \/ Start(p) \/ LoadOwn(p)
                                 \/ \E r \in Servers : LookAtSibling(p, r) \/ RemoveSibling(p, r)
        PROVE  Goal
    <2>1. op' = op /\ proc' = proc
      BY <1>3 DEF Start, LoadOwn, LookAtSibling, RemoveSibling, remoteVars
    <2>2. UpStays
      BY <1>0, <1>3 DEF Start, LoadOwn, LookAtSibling, RemoveSibling, UpStays, Typed
    <2> QED
      BY <1>1, <2>1, <2>2 DEF NoneStays
  <1>4. ASSUME NEW p \in Servers, Stop(p) PROVE Goal
    <2>1. ASSUME NEW q \in Ops PROVE OpOK(q)'
      <3>1. /\ op'[q] = IF op[q] # NoOp /\ op[q].srv = p THEN NoOp ELSE op[q]
            /\ proc' = proc /\ server' = [server EXCEPT ![p] = "down"]
        BY <1>4 DEF Stop, remoteVars
      <3>2. CASE op[q] # NoOp /\ op[q].srv = p
        BY <3>1, <3>2 DEF OpOK, NoOp, Polled, SaysOver
      <3>3. CASE ~(op[q] # NoOp /\ op[q].srv = p)
        <4>1. op[q] # NoOp => server'[op[q].srv] = "up"
          BY <1>0, <3>1, <3>3, OpFields DEF OpOK, Typed
        <4>2. op[q].at = "spawn" => proc'[op[q].job] = "none"
          BY <1>0, <3>1 DEF OpOK
        <4> QED
          BY <1>0, <3>1, <3>3, <4>1, <4>2, OpStays
      <3> QED
        BY <3>2, <3>3
    <2> QED
      BY <2>1
  <1>5. ASSUME NEW q \in Ops, NEW p \in Servers, Sweep(q, p) PROVE Goal
    <2>1. PICK expired \in SUBSET Sweepable(p), submit \in BOOLEAN :
            SetOp(q, [at |-> "clean", srv |-> p, todo |-> expired, submit |-> submit])
      BY <1>5 DEF Sweep
    <2>2. server'[p] = "up" /\ UNCHANGED <<server, proc>>
      BY <1>5 DEF Sweep, remoteVars
    <2>3. \A j \in expired : Over(j)'
      <3>1. misread' = misread
        BY <1>5 DEF Sweep
      <3> QED
        BY <1>0, <2>1, <2>2, <3>1 DEF Sweepable, Known, Records, RecOK, IsOver, Over
    <2>4. op'[q] = [at |-> "clean", srv |-> p, todo |-> expired, submit |-> submit]
      BY <1>0, <2>1 DEF SetOp, Typed
    <2>5. OpOK(q)'
      BY <2>2, <2>3, <2>4 DEF OpOK, Polled, SaysOver
    <2> QED
      BY <1>2, <2>1, <2>2, <2>5
  <1>6. ASSUME NEW q \in Ops, NEW p \in Servers, Admit(q, p) PROVE Goal
    <2>1. PICK j \in Unused : SetOp(q, [at |-> "spawn", srv |-> p, job |-> j])
      BY <1>6 DEF Admit
    <2>2. UNCHANGED <<server, proc>>
      BY <1>6 DEF Admit, remoteVars
    <2>3. server[p] = "up"
      BY <1>0, <1>6 DEF Admit, Submits, OpOK, Runs, NoOp
    <2>4. op'[q] = [at |-> "spawn", srv |-> p, job |-> j]
      BY <1>0, <2>1 DEF SetOp, Typed
    <2>5. OpOK(q)'
      BY <2>1, <2>2, <2>3, <2>4 DEF OpOK, Polled, SaysOver, Unused
    <2> QED
      BY <1>2, <2>1, <2>2, <2>5
  <1>7. ASSUME NEW q \in Ops, NEW p \in Servers, NEW j \in Jobs, Poll(q, p, j) PROVE Goal
    <2> DEFINE m == IF meta[j] = "removed" THEN "none" ELSE meta[j]
    <2>1. /\ SetOp(q, [at |-> "probe", srv |-> p, job |-> j, meta |-> m])
          /\ server[p] = "up" /\ table[p][j] # NoRec /\ UNCHANGED <<server, proc, meta>>
      BY <1>7 DEF Poll, remoteVars, Known
    <2>2. proc[j] # "none" /\ m \in {meta[j], "none"} /\ (m # "none" => IsOver(j)')
      BY <1>0, <2>1 DEF Records, RecOK, MetaOver, Typed, IsOver
    <2> HIDE DEF m
    <2>3. op'[q] = [at |-> "probe", srv |-> p, job |-> j, meta |-> m]
      BY <1>0, <2>1 DEF SetOp, Typed
    <2>4. OpOK(q)'
      BY <2>1, <2>2, <2>3 DEF OpOK, Polled, SaysOver
    <2> QED
      BY <1>2, <2>1, <2>4
  <1>8. ASSUME NEW q \in Ops, NEW p \in Servers, NEW j \in Jobs, Cancel(q, p, j) PROVE Goal
    <2>1. /\ SetOp(q, [at |-> "signal", srv |-> p, job |-> j])
          /\ server[p] = "up" /\ table[p][j] # NoRec /\ UNCHANGED <<server, proc, meta>>
      BY <1>8 DEF Cancel, remoteVars, Live, Known
    <2>2. op'[q] = [at |-> "signal", srv |-> p, job |-> j] /\ proc[j] # "none"
      BY <1>0, <2>1 DEF SetOp, Typed, Records, RecOK
    <2>3. OpOK(q)'
      BY <2>1, <2>2 DEF OpOK, Polled, SaysOver
    <2> QED
      BY <1>2, <2>1, <2>3
  <1>9. ASSUME NEW q \in Ops, Clean(q) PROVE Goal
    <2>1. PICK j : SetOp(q, [op[q] EXCEPT !.todo = @ \ {j}])
      BY <1>9 DEF Clean
    <2>2. /\ op[q] \in [at : {"clean"}, srv : Servers, todo : SUBSET Jobs, submit : BOOLEAN]
          /\ UNCHANGED <<server, proc>>
      BY <1>0, <1>9, OpFields DEF Clean, Runs
    <2>3. op'[q] = [op[q] EXCEPT !.todo = @ \ {j}]
      BY <1>0, <2>1 DEF SetOp, Typed
    <2>4. op'[q].at = "clean" /\ op'[q].srv = op[q].srv /\ op'[q].todo \subseteq op[q].todo
      BY <2>2, <2>3
    <2>5. server'[op'[q].srv] = "up" /\ \A k \in op'[q].todo : Over(k)'
      <3>1. misread' = misread
        BY <1>9 DEF Clean
      <3> QED
        BY <1>0, <2>2, <2>4, <3>1 DEF OpOK, NoOp, IsOver, Over
    <2>6. OpOK(q)'
      BY <2>4, <2>5 DEF OpOK, Polled, SaysOver
    <2> QED
      BY <1>2, <2>1, <2>2, <2>6
  <1>10. ASSUME NEW q \in Ops, \/ AfterSweep(q) \/ Recorded(q) \/ SpawnFails(q)
                               \/ PollDone(q) \/ Abandon(q) \/ CancelDone(q)
         PROVE  Goal
    <2>1. SetOp(q, NoOp) /\ UNCHANGED <<server, proc>>
      BY <1>10 DEF AfterSweep, Recorded, SpawnFails, PollDone, Abandon, CancelDone, remoteVars
    <2> QED
      BY <1>2, <2>1
  <1>11. ASSUME NEW q \in Ops, Fork(q) PROVE Goal
    <2>1. /\ op[q].at = "spawn" /\ op[q] \in [at : Spawning, srv : Servers, job : Jobs]
          /\ op[q].job \in Jobs /\ server[op[q].srv] = "up"
      BY <1>0, <1>11, OpFields DEF Fork, Runs, Spawning, OpOK, NoOp
    <2>2. /\ op' = [op EXCEPT ![q] = [op[q] EXCEPT !.at = "started"]]
          /\ proc' = [proc EXCEPT ![op[q].job] = "running"] /\ server' = server
      BY <1>11 DEF Fork, SetOp
    <2>3. /\ op'[q] = [op[q] EXCEPT !.at = "started"] /\ \A r \in Ops \ {q} : op'[r] = op[r]
          /\ proc'[op[q].job] = "running" /\ \A j \in Jobs \ {op[q].job} : proc'[j] = proc[j]
      BY <1>0, <2>1, <2>2 DEF Typed
    <2>4. op'[q].at = "started" /\ op'[q].srv = op[q].srv /\ op'[q].job = op[q].job
      BY <2>1, <2>3
    <2>5. OpOK(q)'
      BY <2>1, <2>2, <2>3, <2>4 DEF OpOK, Polled, SaysOver
    <2>6. ASSUME NEW r \in Ops \ {q} PROVE OpOK(r)'
      <3>1. op[r] # NoOp => server'[op[r].srv] = "up"
        BY <1>0, <2>2 DEF OpOK
      <3>2. op[r].at = "spawn" => proc'[op[r].job] = "none"
        BY <1>0, <2>1, <2>3, OpFields DEF OpOK, OwnJobs, Spawning
      <3> QED
        BY <1>0, <2>3, <3>1, <3>2, OpStays
    <2> QED
      BY <2>5, <2>6
  <1>12. ASSUME NEW q \in Ops, ProbeProcess(q) PROVE Goal
    <2> DEFINE j == op[q].job
               o(m, a) == [at |-> "answer", srv |-> op[q].srv, job |-> j, meta |-> m, alive |-> a]
    <2>1. op[q].at = "probe" /\ UNCHANGED <<server, proc, meta>>
      BY <1>12 DEF ProbeProcess, Runs, remoteVars
    <2>2. /\ j \in Jobs /\ server[op[q].srv] = "up"
          /\ proc[j] \in {"running", "marked", "gone", "lost"}
          /\ op[q].meta # "none" => IsOver(j) /\ meta[j] \in {op[q].meta, "removed"}
      BY <1>0, <2>1, OpFields DEF OpOK, Polled, NoOp, Typed
    <2>3. PICK m, a : /\ SetOp(q, o(m, a)) /\ m \in {op[q].meta, "none"}
                      /\ a # "yes" => ~Alive(j) \/ CutOff(j)
      BY <1>12 DEF ProbeProcess
    <2>4. a # "yes" => proc'[j] \in {"marked", "gone", "lost"} \/ j \in misread'
      BY <2>1, <2>2, <2>3 DEF Alive, CutOff
    <2>5. m # "none" => proc'[j] \in {"marked", "gone", "lost"} /\ meta'[j] \in {m, "removed"}
      BY <2>1, <2>2, <2>3 DEF IsOver
    <2>6. op'[q] = o(m, a)
      BY <1>0, <2>3 DEF SetOp, Typed
    <2> HIDE DEF j
    <2>7. /\ op'[q].at = "answer" /\ op'[q].srv = op[q].srv /\ op'[q].job = j
          /\ op'[q].meta = m /\ op'[q].alive = a
      BY <2>6
    <2>8. OpOK(q)'
      BY <2>1, <2>2, <2>4, <2>5, <2>7 DEF OpOK, Polled, SaysOver, IsOver, Over
    <2> HIDE DEF o
    <2> QED
      BY <1>2, <2>1, <2>3, <2>8
  <1>13. ASSUME NEW q \in Ops, Signal(q) PROVE Goal
    <2> DEFINE j == op[q].job
               o(a) == [at |-> "check", srv |-> op[q].srv, job |-> j, alive |-> a]
    <2>1. /\ op[q].at = "signal" /\ server' = server /\ j \in Jobs /\ proc[j] # "none"
          /\ server[op[q].srv] = "up"
      BY <1>0, <1>13, OpFields DEF Signal, Runs, OpOK, NoOp
    <2>2. UNCHANGED proc \/ proc' = [proc EXCEPT ![j] = AfterSignal(proc[j])]
      BY <1>13 DEF Signal
    <2>3. NoneStays
      BY <1>0, <2>2 DEF NoneStays, Typed, AfterSignal
    <2>4. proc'[j] \in {"running", "marked", "gone", "lost"}
      BY <1>0, <2>1, <2>2 DEF Typed, AfterSignal
    <2>5. PICK a : /\ SetOp(q, o(a))
                   /\ ~a => proc'[j] \notin {"running", "marked"} \/ CutOff(j)
      BY <1>13 DEF Signal
    <2>6. ~a => proc'[j] \in {"marked", "gone", "lost"} \/ j \in misread'
      BY <2>4, <2>5 DEF CutOff
    <2>7. op'[q] = o(a) /\ \A r \in Ops \ {q} : op'[r] = op[r]
      BY <1>0, <2>5 DEF SetOp, Typed
    <2> HIDE DEF j
    <2>8. /\ op'[q].at = "check" /\ op'[q].srv = op[q].srv /\ op'[q].job = j
          /\ op'[q].alive = a
      BY <2>7
    <2>9. OpOK(q)'
      BY <2>1, <2>4, <2>6, <2>8 DEF OpOK, Polled, SaysOver, IsOver, Over
    <2> HIDE DEF o
    <2> QED
      BY <1>0, <2>1, <2>3, <2>7, <2>9, OthersStay DEF UpStays
  <1>14. ASSUME NEW j \in Jobs, RecordExit(j) \/ Exit(j) \/ Killed(j) \/ ReusePid(j)
         PROVE  Goal
    <2>1. op' = op /\ server' = server
      BY <1>14 DEF RecordExit, Exit, Killed, ReusePid
    <2>2. NoneStays
      BY <1>0, <1>14 DEF RecordExit, Exit, Killed, ReusePid, NoneStays, Typed
    <2> QED
      BY <1>1, <2>1, <2>2 DEF UpStays
  <1> HIDE DEF Goal
  <1>15. Goal
    BY <1>3, <1>4, <1>5, <1>6, <1>7, <1>8, <1>9, <1>10, <1>11, <1>12, <1>13, <1>14 DEF Next
  <1> QED
    BY <1>15 DEF Goal

-----------------------------------------------------------------------------
(* Reservations *)

\* A step that starts and ends no submit.
SpawnsSame(q) ==
    /\ op'[q].at \in Spawning <=> op[q].at \in Spawning
    /\ op[q].at \in Spawning => op'[q].srv = op[q].srv /\ op'[q].job = op[q].job
QuietStep == pending' = pending /\ \A q \in Ops : SpawnsSame(q)

\* The steps, by what they do to reservations.
LEMMA StepKinds ==
    ASSUME Typed, Next
    PROVE  \/ QuietStep
           \/ \E q \in Ops, p \in Servers : Admit(q, p)
           \/ \E q \in Ops : Recorded(q) \/ SpawnFails(q)
           \/ \E p \in Servers : Stop(p)
  <1>1. ASSUME op' = op, pending' = pending PROVE QuietStep
    BY <1>1 DEF QuietStep, SpawnsSame
  <1>2. ASSUME NEW q \in Ops, NEW o, SetOp(q, o), op[q].at \notin Spawning, o.at \notin Spawning,
               pending' = pending
        PROVE  QuietStep
    BY <1>2 DEF QuietStep, SpawnsSame, SetOp, Typed
  <1>3. ASSUME NEW p \in Servers, \/ Start(p) \/ LoadOwn(p)
                                 \/ \E r \in Servers : LookAtSibling(p, r) \/ RemoveSibling(p, r)
        PROVE  op' = op /\ pending' = pending
    BY <1>3 DEF Start, LoadOwn, LookAtSibling, RemoveSibling
  <1>4. ASSUME NEW j \in Jobs, RecordExit(j) \/ Exit(j) \/ Killed(j) \/ ReusePid(j)
        PROVE  op' = op /\ pending' = pending
    BY <1>4 DEF RecordExit, Exit, Killed, ReusePid
  <1>5. ASSUME NEW q \in Ops, NEW p \in Servers, Sweep(q, p) PROVE QuietStep
    <2>1. PICK expired, submit :
            SetOp(q, [at |-> "clean", srv |-> p, todo |-> expired, submit |-> submit])
      BY <1>5 DEF Sweep
    <2>2. pending' = pending /\ op[q] = NoOp
      BY <1>5 DEF Sweep
    <2>3. op[q].at \notin Spawning
      BY <2>2 DEF NoOp, Spawning
    <2>4. [at |-> "clean", srv |-> p, todo |-> expired, submit |-> submit].at \notin Spawning
      BY DEF Spawning
    <2> QED
      BY <1>2, <2>1, <2>2, <2>3, <2>4
  <1>6. ASSUME NEW q \in Ops, NEW p \in Servers, NEW j \in Jobs, Poll(q, p, j) \/ Cancel(q, p, j)
        PROVE  QuietStep
    <2>1. PICK o : SetOp(q, o) /\ o.at \in {"probe", "signal"}
      BY <1>6 DEF Poll, Cancel
    <2>2. pending' = pending /\ op[q] = NoOp
      BY <1>6 DEF Poll, Cancel
    <2> QED
      BY <1>2, <2>1, <2>2 DEF NoOp, Spawning
  <1>7. ASSUME NEW q \in Ops, \/ AfterSweep(q) \/ PollDone(q) \/ Abandon(q) \/ CancelDone(q)
        PROVE  QuietStep
    <2>1. SetOp(q, NoOp) /\ pending' = pending /\ op[q].at \notin Spawning
      BY <1>7 DEF AfterSweep, PollDone, Abandon, CancelDone, Runs, Spawning
    <2> QED
      BY <1>2, <2>1 DEF NoOp, Spawning
  <1>8. ASSUME NEW q \in Ops, Clean(q) PROVE QuietStep
    <2>1. PICK j : SetOp(q, [op[q] EXCEPT !.todo = @ \ {j}])
      BY <1>8 DEF Clean
    <2>2. op[q].at = "clean" /\ pending' = pending
      BY <1>8 DEF Clean, Runs
    <2>3. [op[q] EXCEPT !.todo = @ \ {j}].at = "clean"
      BY <2>2, OpFields
    <2> QED
      BY <1>2, <2>1, <2>2, <2>3 DEF Spawning
  <1>9. ASSUME NEW q \in Ops, Fork(q) PROVE QuietStep
    <2>1. /\ op[q].at = "spawn" /\ op[q] \in [at : Spawning, srv : Servers, job : Jobs]
          /\ pending' = pending /\ op' = [op EXCEPT ![q] = [op[q] EXCEPT !.at = "started"]]
      BY <1>9, OpFields DEF Fork, Runs, Spawning, SetOp
    <2>2. op'[q] = [op[q] EXCEPT !.at = "started"] /\ \A r \in Ops \ {q} : op'[r] = op[r]
      BY <2>1 DEF Typed
    <2>3. op'[q].at = "started" /\ op'[q].srv = op[q].srv /\ op'[q].job = op[q].job
      BY <2>1, <2>2
    <2> QED
      BY <2>1, <2>2, <2>3 DEF QuietStep, SpawnsSame, Spawning
  <1>10. ASSUME NEW q \in Ops, ProbeProcess(q) \/ Signal(q) PROVE QuietStep
    <2>1. PICK o : SetOp(q, o) /\ o.at \in {"answer", "check"}
      BY <1>10 DEF ProbeProcess, Signal
    <2>2. pending' = pending /\ op[q].at \in {"probe", "signal"}
      BY <1>10 DEF ProbeProcess, Signal, Runs
    <2> QED
      BY <1>2, <2>1, <2>2 DEF Spawning
  <1> QED
    BY <1>1, <1>3, <1>4, <1>5, <1>6, <1>7, <1>8, <1>9, <1>10 DEF Next

\* Submits that run at the same time start different jobs.
LEMMA OwnJobsStep ==
    ASSUME IInv, Next
    PROVE  OwnJobs'
  <1>0. Typed /\ OwnJobs
    BY DEF IInv
  <1>1. CASE QuietStep
    BY <1>0, <1>1 DEF OwnJobs, QuietStep, SpawnsSame
  <1>2. ASSUME NEW q \in Ops, NEW p \in Servers, Admit(q, p) PROVE OwnJobs'
    <2>1. PICK j \in Unused : op' = [op EXCEPT ![q] = [at |-> "spawn", srv |-> p, job |-> j]]
      BY <1>2 DEF Admit, SetOp
    <2>2. \A r \in Ops \ {q} : op[r].at \in Spawning => op[r].job # j
      BY <2>1 DEF Unused, Runs, Spawning
    <2>3. op'[q].job = j /\ \A r \in Ops \ {q} : op'[r] = op[r]
      BY <1>0, <2>1 DEF Typed
    <2> QED
      BY <1>0, <2>2, <2>3 DEF OwnJobs
  <1>3. ASSUME NEW q \in Ops, Recorded(q) \/ SpawnFails(q) PROVE OwnJobs'
    <2>1. op' = [op EXCEPT ![q] = NoOp]
      BY <1>3 DEF Recorded, SpawnFails, SetOp
    <2>2. op'[q].at \notin Spawning /\ \A r \in Ops \ {q} : op'[r] = op[r]
      BY <1>0, <2>1 DEF Typed, NoOp, Spawning
    <2> QED
      BY <1>0, <2>2 DEF OwnJobs
  <1>4. ASSUME NEW p \in Servers, Stop(p) PROVE OwnJobs'
    <2>1. \A r \in Ops : op'[r] = op[r] \/ op'[r] = NoOp
      BY <1>4 DEF Stop
    <2>2. NoOp.at \notin Spawning
      BY DEF NoOp, Spawning
    <2> QED
      BY <1>0, <2>1, <2>2 DEF OwnJobs
  <1> QED
    BY <1>0, <1>1, <1>2, <1>3, <1>4, StepKinds

\* Only a server that is loading adopts.
LEMMA AdoptsLoadingStep ==
    ASSUME IInv, Next
    PROVE  AdoptsLoading'
  <1>0. Typed /\ AdoptsLoading
    BY DEF IInv
  <1>1. CASE UNCHANGED <<server, adopting>>
    BY <1>0, <1>1 DEF AdoptsLoading
  <1>2. ASSUME NEW p \in Servers, Start(p) \/ LoadOwn(p) \/ Stop(p) PROVE AdoptsLoading'
    <2>1. CASE Start(p)
      BY <1>0, <2>1 DEF AdoptsLoading, Typed, Start
    <2>2. CASE LoadOwn(p)
      BY <1>0, <2>2 DEF AdoptsLoading, Typed, LoadOwn
    <2>3. CASE Stop(p)
      BY <1>0, <2>3 DEF AdoptsLoading, Typed, Stop
    <2> QED
      BY <1>2, <2>1, <2>2, <2>3
  <1>3. ASSUME NEW p \in Servers, NEW r \in Servers, LookAtSibling(p, r) \/ RemoveSibling(p, r)
        PROVE  AdoptsLoading'
    <2>1. /\ adopting[p][r] # "no" /\ server' = server
          /\ \/ adopting' = [adopting EXCEPT ![p][r] = "no"]
             \/ adopting' = [adopting EXCEPT ![p][r] = "remove"]
      BY <1>3 DEF LookAtSibling, RemoveSibling
    <2>2. server[p] = "loading" /\ \A s, t \in Servers : s # p => adopting'[s][t] = adopting[s][t]
      BY <1>0, <2>1 DEF AdoptsLoading, Typed
    <2> QED
      BY <1>0, <2>1, <2>2 DEF AdoptsLoading
  <1>4. ASSUME NEW q \in Ops, NEW p \in Servers, Sweep(q, p) \/ Admit(q, p)
        PROVE  UNCHANGED <<server, adopting>>
    BY <1>4 DEF Sweep, Admit
  <1>5. ASSUME NEW q \in Ops, NEW p \in Servers, NEW j \in Jobs, Poll(q, p, j) \/ Cancel(q, p, j)
        PROVE  UNCHANGED <<server, adopting>>
    BY <1>5 DEF Poll, Cancel
  <1>6. ASSUME NEW q \in Ops, \/ Clean(q) \/ AfterSweep(q) \/ Fork(q) \/ Recorded(q) \/ SpawnFails(q)
                              \/ ProbeProcess(q) \/ PollDone(q) \/ Abandon(q) \/ Signal(q) \/ CancelDone(q)
        PROVE  UNCHANGED <<server, adopting>>
    BY <1>6 DEF Clean, AfterSweep, Fork, Recorded, SpawnFails, ProbeProcess, PollDone, Abandon,
                Signal, CancelDone
  <1>7. ASSUME NEW j \in Jobs, RecordExit(j) \/ Exit(j) \/ Killed(j) \/ ReusePid(j)
        PROVE  UNCHANGED <<server, adopting>>
    BY <1>7 DEF RecordExit, Exit, Killed, ReusePid
  <1> QED
    BY <1>1, <1>2, <1>3, <1>4, <1>5, <1>6, <1>7 DEF Next

\* Every step keeps the count of reservations exact.
LEMMA CountedStep ==
    ASSUME IInv, Next
    PROVE  Counted'
  <1>0. Typed /\ Counted
    BY DEF IInv
  <1>1. \A p \in Servers : IsFiniteSet(SpawningOf(p))
    BY FS_Subset, JobAssumption DEF SpawningOf
  <1>2. CASE QuietStep
    <2>1. \A p \in Servers : SpawningOf(p)' = SpawningOf(p)
      BY <1>2 DEF QuietStep, SpawnsSame, SpawningOf
    <2> QED
      BY <1>0, <1>2, <2>1 DEF Counted, QuietStep
  <1>3. ASSUME NEW q \in Ops, NEW p \in Servers, Admit(q, p) PROVE Counted'
    <2>1. PICK j : op' = [op EXCEPT ![q] = [at |-> "spawn", srv |-> p, job |-> j]]
      BY <1>3 DEF Admit, SetOp
    <2>2. op[q].at \notin Spawning
      BY <1>3 DEF Admit, Submits, Runs, NoOp, Spawning
    <2>3. op'[q].at \in Spawning /\ op'[q].srv = p /\ \A r \in Ops \ {q} : op'[r] = op[r]
      BY <1>0, <2>1 DEF Typed, Spawning
    <2>4. q \notin SpawningOf(p) /\ SpawningOf(p)' = SpawningOf(p) \cup {q}
      BY <2>2, <2>3 DEF SpawningOf
    <2>5. \A s \in Servers \ {p} : SpawningOf(s)' = SpawningOf(s)
      BY <2>2, <2>3 DEF SpawningOf
    <2>6. Cardinality(SpawningOf(p)') = Cardinality(SpawningOf(p)) + 1
      BY <1>1, <2>4, FS_AddElement
    <2>7. pending'[p] = pending[p] + 1 /\ \A s \in Servers \ {p} : pending'[s] = pending[s]
      BY <1>0, <1>3 DEF Admit, Typed
    <2> QED
      BY <1>0, <2>5, <2>6, <2>7 DEF Counted
  <1>4. ASSUME NEW q \in Ops, Recorded(q) \/ SpawnFails(q) PROVE Counted'
    <2> DEFINE p == op[q].srv
    <2>1. op' = [op EXCEPT ![q] = NoOp] /\ pending' = [pending EXCEPT ![p] = @ - 1]
      BY <1>4 DEF Recorded, SpawnFails, SetOp
    <2>2. op[q].at \in Spawning /\ p \in Servers
      BY <1>0, <1>4, OpFields DEF Recorded, SpawnFails, Runs, Spawning
    <2>3. op'[q].at \notin Spawning /\ \A r \in Ops \ {q} : op'[r] = op[r]
      BY <1>0, <2>1 DEF Typed, NoOp, Spawning
    <2>4. PICK s \in Servers : s = p
      BY <2>2
    <2>5. q \in SpawningOf(s) /\ SpawningOf(s)' = SpawningOf(s) \ {q}
      BY <2>2, <2>3, <2>4 DEF SpawningOf
    <2>6. \A t \in Servers \ {s} : SpawningOf(t)' = SpawningOf(t)
      BY <2>2, <2>3, <2>4 DEF SpawningOf
    <2>7. Cardinality(SpawningOf(s)') = Cardinality(SpawningOf(s)) - 1
      BY <1>1, <2>5, FS_RemoveElement
    <2>8. pending'[s] = pending[s] - 1 /\ \A t \in Servers \ {s} : pending'[t] = pending[t]
      BY <1>0, <2>1, <2>4 DEF Typed
    <2> QED
      BY <1>0, <2>6, <2>7, <2>8 DEF Counted
  <1>5. ASSUME NEW p \in Servers, Stop(p) PROVE Counted'
    <2>1. \A r \in Ops : op'[r] = IF op[r] # NoOp /\ op[r].srv = p THEN NoOp ELSE op[r]
      BY <1>5 DEF Stop
    <2>2. NoOp.at \notin Spawning
      BY DEF NoOp, Spawning
    <2>3. SpawningOf(p)' = {} /\ \A s \in Servers \ {p} : SpawningOf(s)' = SpawningOf(s)
      BY <2>1, <2>2 DEF SpawningOf
    <2>4. pending'[p] = 0 /\ \A s \in Servers \ {p} : pending'[s] = pending[s]
      BY <1>0, <1>5 DEF Stop, Typed
    <2> QED
      BY <1>0, <2>3, <2>4, FS_EmptySet DEF Counted
  <1> QED
    BY <1>0, <1>2, <1>3, <1>4, <1>5, StepKinds

-----------------------------------------------------------------------------
(* The cap *)

\* The running jobs that the cap is about.
Capped(p) == Running(p) \ misread
CapOf(p) == pending[p] > 0 => Cardinality(Capped(p)) + pending[p] <= MaxLive

\* The server of a reservation is up.
LEMMA ReservesUp ==
    ASSUME IInv, NEW p \in Servers, pending[p] > 0
    PROVE  server[p] = "up"
  <1>1. SpawningOf(p) # {}
    BY FS_EmptySet DEF IInv, Counted
  <1>2. PICK q \in Ops : op[q].at \in Spawning /\ op[q].srv = p
    BY <1>1 DEF SpawningOf
  <1> QED
    BY <1>2 DEF IInv, OpOK, NoOp, Spawning

\* The jobs that run, but for the misread ones, are live in the table: their
\* status is not terminal.
LEMMA RunningLive ==
    ASSUME IInv, NEW p \in Servers
    PROVE  /\ Capped(p) \subseteq Live(p)
           /\ IsFiniteSet(Live(p)) /\ IsFiniteSet(Capped(p))
           /\ Cardinality(Capped(p)) <= Cardinality(Live(p))
           /\ Cardinality(Capped(p)) \in Nat /\ Cardinality(Live(p)) \in Nat
  <1>1. Capped(p) \subseteq Live(p)
    BY DEF IInv, Records, RecOK, IsOver, Over, Capped, Running, Live, Known
  <1>2. Live(p) \subseteq Jobs
    BY DEF Live, Known
  <1> QED
    BY <1>1, <1>2, FS_Subset, FS_CardinalityType, JobAssumption

\* No new job runs that is in the table, or nothing is reserved.
RunsFewer(p) ==
    \A j \in Jobs : (table'[p][j] # NoRec /\ proc'[j] = "running")
                        => table[p][j] # NoRec /\ proc[j] = "running"

\* The cap holds where fewer jobs run and no reservation is added.
LEMMA CapShrinks ==
    ASSUME IInv, NEW p \in Servers, pending' \in [Servers -> Nat], misread \subseteq misread', RunsFewer(p),
           pending'[p] <= pending[p]
    PROVE  CapOf(p)'
  <1>1. Capped(p)' \subseteq Capped(p)
    BY DEF RunsFewer, Capped, Running, Known
  <1>2. IsFiniteSet(Capped(p)) /\ Cardinality(Capped(p)) \in Nat
    BY RunningLive
  <1>3. Cardinality(Capped(p)') <= Cardinality(Capped(p)) /\ Cardinality(Capped(p)') \in Nat
    BY <1>1, <1>2, FS_Subset, FS_CardinalityType
  <1>4. pending[p] > 0 => Cardinality(Capped(p)) + pending[p] <= MaxLive
    BY DEF IInv, CapHolds, Capped
  <1>5. pending[p] \in Nat /\ pending'[p] \in Nat
    BY DEF IInv, Typed
  <1> QED
    BY <1>2, <1>3, <1>4, <1>5, JobAssumption DEF CapOf

\* A record that is replaced adds no job to a table.
LEMMA Replaced ==
    ASSUME Typed, NEW p \in Servers, NEW s \in Servers, NEW j \in Jobs, table[s][j] # NoRec, NEW new,
           table' = [table EXCEPT ![s] = [table[s] EXCEPT ![j] = new]]
    PROVE  \A k \in Jobs : table'[p][k] # NoRec => table[p][k] # NoRec
  <1>1. table[s] \in Tables /\ table'[p] = IF p = s THEN [table[s] EXCEPT ![j] = new] ELSE table[p]
    BY DEF Typed
  <1>2. \A k \in Jobs : [table[s] EXCEPT ![j] = new][k] = IF k = j THEN new ELSE table[s][k]
    BY <1>1 DEF Tables
  <1> QED
    BY <1>1, <1>2

\* Every step keeps the cap.
LEMMA CapStep ==
    ASSUME IInv, Next
    PROVE  CapHolds'
  <1>0. Typed /\ Records /\ AdoptsLoading /\ (\A q \in Ops : OpOK(q)) /\ Typed'
    BY TypedStep DEF IInv
  <1>1. SUFFICES ASSUME NEW p \in Servers PROVE CapOf(p)'
    BY DEF CapHolds, CapOf, Capped
  <1>2. pending' \in [Servers -> Nat] /\ pending[p] \in Nat /\ misread \subseteq misread'
    BY <1>0, MisreadStep DEF Typed
  <1>3. ASSUME UNCHANGED <<table, proc, pending>> PROVE CapOf(p)'
    BY <1>2, <1>3, CapShrinks DEF RunsFewer
  \* A server that loads has no reservations.
  <1>4. ASSUME server[p] = "loading", pending' = pending PROVE CapOf(p)'
    BY <1>2, <1>4, ReservesUp DEF CapOf
  <1>5. ASSUME NEW s \in Servers, Start(s) \/ LoadOwn(s) PROVE CapOf(p)'
    <2>1. CASE Start(s)
      BY <1>3, <2>1 DEF Start, remoteVars
    <2>2. CASE LoadOwn(s) /\ s = p
      BY <1>4, <2>2 DEF LoadOwn
    <2>3. CASE LoadOwn(s) /\ s # p
      <3>1. table'[p] = table[p] /\ proc' = proc /\ pending' = pending
        BY <1>0, <2>3 DEF LoadOwn, Keep, Typed, remoteVars
      <3> QED
        BY <1>2, <3>1, CapShrinks DEF RunsFewer
    <2> QED
      BY <1>5, <2>1, <2>2, <2>3
  <1>6. ASSUME NEW s \in Servers, NEW r \in Servers, LookAtSibling(s, r) \/ RemoveSibling(s, r)
        PROVE  CapOf(p)'
    <2>1. CASE s = p
      <3>1. server[p] = "loading" /\ pending' = pending
        BY <1>0, <1>6, <2>1 DEF LookAtSibling, RemoveSibling, AdoptsLoading
      <3> QED
        BY <1>4, <3>1
    <2>2. CASE s # p
      <3>1. table'[p] = table[p] /\ proc' = proc /\ pending' = pending
        BY <1>0, <1>6, <2>2 DEF LookAtSibling, RemoveSibling, Keep, Typed, remoteVars
      <3> QED
        BY <1>2, <3>1, CapShrinks DEF RunsFewer
    <2> QED
      BY <2>1, <2>2
  <1>7. ASSUME NEW s \in Servers, Stop(s) PROVE CapOf(p)'
    <2>1. /\ table'[p] = table[p] \/ table'[p] = Empty
          /\ proc' = proc /\ pending'[p] \in {pending[p], 0}
      BY <1>0, <1>7 DEF Stop, Typed, remoteVars
    <2>2. RunsFewer(p)
      BY <2>1 DEF RunsFewer, Empty
    <2>3. pending'[p] <= pending[p]
      BY <1>2, <2>1
    <2> QED
      BY <1>2, <2>2, <2>3, CapShrinks
  <1>8. ASSUME NEW q \in Ops, NEW s \in Servers, Sweep(q, s) PROVE CapOf(p)'
    <2>1. PICK expired :
            Store(s, [j \in Jobs |-> IF j \in expired THEN NoRec ELSE table[s][j]])
      BY <1>8 DEF Sweep
    <2>2. \A j \in Jobs : table'[p][j] \in {table[p][j], NoRec}
      BY <1>0, <2>1 DEF Store, Typed
    <2>3. proc' = proc /\ pending' = pending
      BY <1>8 DEF Sweep, remoteVars
    <2> QED
      BY <1>2, <2>2, <2>3, CapShrinks DEF RunsFewer
  \* A submit is admitted only when there is room for it.
  <1>9. ASSUME NEW q \in Ops, NEW s \in Servers, Admit(q, s) PROVE CapOf(p)'
    <2>1. table' = table /\ proc' = proc /\ HasRoom(s) /\ pending' = [pending EXCEPT ![s] = @ + 1]
      BY <1>9 DEF Admit, remoteVars
    <2>2. CASE s # p
      <3>1. pending'[p] = pending[p]
        BY <1>0, <2>1, <2>2 DEF Typed
      <3> QED
        BY <1>2, <2>1, <3>1, CapShrinks DEF RunsFewer
    <2>3. CASE s = p
      <3>1. Capped(p)' = Capped(p) /\ pending'[p] = pending[p] + 1
        BY <1>0, <1>9, <2>1, <2>3 DEF Admit, Capped, Running, Known, Typed
      <3>2. Cardinality(Capped(p)) + pending[p] + 1 <= MaxLive
        BY <1>2, <2>1, <2>3, RunningLive, JobAssumption DEF HasRoom
      <3> QED
        BY <1>2, <3>1, <3>2, RunningLive DEF CapOf
    <2> QED
      BY <2>2, <2>3
  <1>10. ASSUME NEW q \in Ops, NEW s \in Servers, NEW j \in Jobs, Poll(q, s, j) \/ Cancel(q, s, j)
         PROVE  CapOf(p)'
    <2>1. UNCHANGED <<table, proc, pending>>
      BY <1>10 DEF Poll, Cancel, remoteVars
    <2> QED
      BY <1>3, <2>1
  <1>11. ASSUME NEW q \in Ops, Clean(q) \/ AfterSweep(q) \/ ProbeProcess(q) \/ Abandon(q)
         PROVE  CapOf(p)'
    <2>1. UNCHANGED <<table, proc, pending>>
      BY <1>11 DEF Clean, AfterSweep, ProbeProcess, Abandon, remoteVars
    <2> QED
      BY <1>3, <2>1
  \* The forked job is in no table yet.
  <1>12. ASSUME NEW q \in Ops, Fork(q) PROVE CapOf(p)'
    <2>1. /\ proc' = [proc EXCEPT ![op[q].job] = "running"]
          /\ proc[op[q].job] = "none" /\ table' = table /\ pending' = pending
      BY <1>0, <1>12 DEF Fork, Runs, OpOK
    <2>2. \A j \in Jobs : table[p][j] # NoRec => proc'[j] = proc[j]
      BY <1>0, <2>1 DEF Typed, Records, RecOK
    <2> QED
      BY <1>2, <2>1, <2>2, CapShrinks DEF RunsFewer
  \* The recorded job takes the place of its reservation.
  <1>13. ASSUME NEW q \in Ops, Recorded(q) PROVE CapOf(p)'
    <2> DEFINE s == op[q].srv
               j == op[q].job
               new == [status |-> "running", finished |-> FALSE, asked |-> FALSE]
    <2>1. s \in Servers /\ j \in Jobs /\ op[q].at = "started"
      BY <1>0, <1>13, OpFields DEF Recorded, Runs
    <2>2. /\ table' = [table EXCEPT ![s] = [table[s] EXCEPT ![j] = new]] /\ proc' = proc
          /\ pending' = [pending EXCEPT ![s] = @ - 1]
      BY <1>13 DEF Recorded, Store, remoteVars
    <2> HIDE DEF new, s, j
    <2>3. CASE s # p
      <3>1. pending'[p] = pending[p] /\ table'[p] = table[p]
        BY <1>0, <2>1, <2>2, <2>3 DEF Typed
      <3> QED
        BY <1>2, <2>2, <3>1, CapShrinks DEF RunsFewer
    <2>4. CASE s = p
      <3>1. table'[p] = [table[p] EXCEPT ![j] = new] /\ pending'[p] = pending[p] - 1
        BY <1>0, <2>2, <2>4 DEF Typed
      <3>2. Capped(p)' \subseteq Capped(p) \cup {j}
        BY <1>0, <1>13, <2>2, <3>1 DEF Recorded, Capped, Running, Known, Typed, Tables
      <3>3. IsFiniteSet(Capped(p)) /\ Cardinality(Capped(p)) \in Nat
        BY RunningLive
      <3>4. /\ IsFiniteSet(Capped(p) \cup {j}) /\ Cardinality(Capped(p) \cup {j}) \in Nat
            /\ Cardinality(Capped(p) \cup {j}) <= Cardinality(Capped(p)) + 1
        <4>1. /\ IsFiniteSet(Capped(p) \cup {j})
              /\ \/ Cardinality(Capped(p) \cup {j}) = Cardinality(Capped(p))
                 \/ Cardinality(Capped(p) \cup {j}) = Cardinality(Capped(p)) + 1
          BY <3>3, FS_AddElement
        <4> QED
          BY <3>3, <4>1
      <3>5. /\ Cardinality(Capped(p)') \in Nat
            /\ Cardinality(Capped(p)') <= Cardinality(Capped(p)) + 1
        BY <3>2, <3>3, <3>4, FS_Subset, FS_CardinalityType
      <3>6. pending[p] > 0 => Cardinality(Capped(p)) + pending[p] <= MaxLive
        BY DEF IInv, CapHolds, Capped
      <3>7. pending'[p] \in Nat
        BY <1>2
      <3> QED
        BY <1>2, <3>1, <3>3, <3>5, <3>6, <3>7, JobAssumption DEF CapOf
    <2> QED
      BY <2>3, <2>4
  <1>14. ASSUME NEW q \in Ops, SpawnFails(q) PROVE CapOf(p)'
    <2>1. table' = table /\ proc' = proc /\ pending' = [pending EXCEPT ![op[q].srv] = @ - 1]
      BY <1>14 DEF SpawnFails, remoteVars
    <2>2. pending'[p] <= pending[p]
      BY <1>0, <1>2, <2>1 DEF Typed
    <2> QED
      BY <1>2, <2>1, <2>2, CapShrinks DEF RunsFewer
  <1>15. ASSUME NEW q \in Ops, PollDone(q) PROVE CapOf(p)'
    <2>1. proc' = proc /\ pending' = pending
      BY <1>15 DEF PollDone, remoteVars
    <2> DEFINE s == op[q].srv
               j == op[q].job
               status == Classify(table[s][j], op[q].meta, op[q].alive)
               new == [table[s][j] EXCEPT !.status = status, !.finished = @ \/ status \in Terminal]
    <2>2. s \in Servers /\ j \in Jobs
      BY <1>0, <1>15, OpFields DEF PollDone, Runs
    <2>3. \/ table' = table
          \/ table[s][j] # NoRec /\ table' = [table EXCEPT ![s] = [table[s] EXCEPT ![j] = new]]
      BY <1>15 DEF PollDone, Store, Keep
    <2> HIDE DEF s, j, new
    <2>4. \A k \in Jobs : table'[p][k] # NoRec => table[p][k] # NoRec
      BY <1>0, <2>2, <2>3, Replaced
    <2> QED
      BY <1>2, <2>1, <2>4, CapShrinks DEF RunsFewer
  <1>16. ASSUME NEW q \in Ops, CancelDone(q) PROVE CapOf(p)'
    <2>1. proc' = proc /\ pending' = pending
      BY <1>16 DEF CancelDone, remoteVars
    <2> DEFINE s == op[q].srv
               j == op[q].job
               rec == table[s][j]
               over == ~op[q].alive /\ rec.status \notin Terminal
               new == [status |-> IF over THEN "cancelled" ELSE rec.status,
                       finished |-> rec.finished \/ over, asked |-> TRUE]
    <2>2. s \in Servers /\ j \in Jobs
      BY <1>0, <1>16, OpFields DEF CancelDone, Runs
    <2>3. \/ table' = [table EXCEPT ![s] = table[s]]
          \/ table[s][j] # NoRec /\ table' = [table EXCEPT ![s] = [table[s] EXCEPT ![j] = new]]
      BY <1>16 DEF CancelDone, Store
    <2> HIDE DEF s, j, new
    <2>4. table' = [table EXCEPT ![s] = table[s]] => table' = table
      BY <1>0 DEF Typed
    <2>5. \A k \in Jobs : table'[p][k] # NoRec => table[p][k] # NoRec
      BY <1>0, <2>2, <2>3, <2>4, Replaced
    <2> QED
      BY <1>2, <2>1, <2>5, CapShrinks DEF RunsFewer
  <1>17. ASSUME NEW q \in Ops, Signal(q) PROVE CapOf(p)'
    <2>1. /\ table' = table /\ pending' = pending
          /\ proc' = proc \/ proc' = [proc EXCEPT ![op[q].job] = AfterSignal(proc[op[q].job])]
      BY <1>17 DEF Signal
    <2>2. AfterSignal(proc[op[q].job]) # "running"
      BY DEF AfterSignal
    <2>3. \A j \in Jobs : proc'[j] = "running" => proc[j] = "running"
      BY <1>0, <2>1, <2>2 DEF Typed
    <2> QED
      BY <1>2, <2>1, <2>3, CapShrinks DEF RunsFewer
  <1>18. ASSUME NEW j \in Jobs, RecordExit(j) \/ Exit(j) \/ Killed(j) \/ ReusePid(j) PROVE CapOf(p)'
    <2>1. table' = table /\ pending' = pending
      BY <1>18 DEF RecordExit, Exit, Killed, ReusePid
    <2>2. \A k \in Jobs : proc'[k] = "running" => proc[k] = "running"
      BY <1>0, <1>18 DEF RecordExit, Exit, Killed, ReusePid, Typed
    <2> QED
      BY <1>2, <2>1, <2>2, CapShrinks DEF RunsFewer
  <1> HIDE DEF CapOf
  <1> QED
    BY <1>5, <1>6, <1>7, <1>8, <1>9, <1>10, <1>11, <1>12, <1>13, <1>14, <1>15, <1>16, <1>17, <1>18
       DEF Next

-----------------------------------------------------------------------------
(* The theorems *)

\* Every step of the servers, of their operations and of the remote processes
\* preserves the inductive invariant.
THEOREM JobInvariant == Spec => []IInv
  <1>1. Init => IInv
    <2> SUFFICES ASSUME Init PROVE IInv
      OBVIOUS
    <2>1. Typed
      BY JobAssumption DEF Init, Typed, Tables, Empty
    <2>2. \A p \in Servers : SpawningOf(p) = {}
      BY DEF Init, SpawningOf, Spawning, NoOp
    <2>3. Counted /\ CapHolds
      BY <2>2, FS_EmptySet DEF Init, Counted, CapHolds
    <2>4. Records /\ MetaOver /\ AdoptsLoading
      BY DEF Init, Records, RecOK, MetaOver, AdoptsLoading, Empty
    <2>5. OwnJobs /\ \A q \in Ops : OpOK(q)
      BY DEF Init, OwnJobs, OpOK, NoOp, Spawning, Polled, SaysOver
    <2> QED
      BY <2>1, <2>3, <2>4, <2>5 DEF IInv
  <1>2. IInv /\ [Next]_vars => IInv'
    <2>1. CASE IInv /\ Next
      <3>1. Typed /\ Counted
        BY <2>1 DEF IInv
      <3> QED
        BY <2>1, <3>1, TypedStep, CountedStep, RecordsStep, OnwardStep, OwnJobsStep,
           AdoptsLoadingStep, OpStep, CapStep DEF IInv
    <2>2. CASE IInv /\ UNCHANGED vars
      <3> USE <2>2 DEF vars, remoteVars
      <3>1. Typed'
        BY DEF IInv, Typed
      <3>2. Counted' /\ OwnJobs' /\ AdoptsLoading'
        BY DEF IInv, Counted, SpawningOf, OwnJobs, AdoptsLoading
      <3>3. Records' /\ MetaOver'
        BY DEF IInv, Records, RecOK, MetaOver, IsOver, Over
      <3>4. \A q \in Ops : OpOK(q)'
        BY DEF IInv, OpOK, SaysOver, IsOver, Over
      <3>5. CapHolds'
        BY DEF IInv, CapHolds, Running, Known
      <3> QED
        BY <3>1, <3>2, <3>3, <3>4, <3>5 DEF IInv
    <2> QED
      BY <2>1, <2>2
  <1> QED
    BY <1>1, <1>2, PTL DEF Spec

\* The types of the job tables, the files and the requests, and a server's
\* reservations are exactly its submits between admission and record.
THEOREM JobTypeCorrect == Spec => []JobTypeOK
  <1>1. IInv => JobTypeOK
    BY DEF IInv, Typed, Counted, SpawningOf, Spawning, JobTypeOK
  <1> QED
    BY <1>1, JobInvariant, PTL

\* A job is called finished, in memory or in a state file, only when its
\* process is over or a reply about it was cut off while it ran, and an exit
\* status, of every job, is the recorded one: for any number of servers, jobs
\* and interleaved requests (_classify, cancel, _sweep_expired).
THEOREM FinishedJobsAreOver == Spec => []FinishedIsOver
  <1>1. IInv => FinishedIsOver
    BY DEF IInv, Records, RecOK, MetaOver, Over, FinishedIsOver, Known
  <1> QED
    BY <1>1, JobInvariant, PTL

\* Running jobs, but for those of which a reply was cut off, and reservations
\* stay within PORTAL_JOB_MAX_LIVE while a submit is under way, for every bound.
THEOREM CapRespected == Spec => []CapHolds
  <1>1. IInv => CapHolds
    BY DEF IInv
  <1> QED
    BY <1>1, JobInvariant, PTL

-----------------------------------------------------------------------------
(* Jobs through the end of a server *)

\* A server that is up knows what its file holds, so writing the file loses
\* nothing ...
FileKnown == \A p \in Servers, j \in Jobs :
    server[p] = "up" /\ file[p][j] # NoRec => table[p][j] # NoRec

\* ... a file about to be removed has been read, or its PID serves again and
\* knows what it holds ...
RemovesRead == \A p, r \in Servers, j \in Jobs :
    adopting[p][r] = "remove" /\ file[r][j] # NoRec
        => table[p][j] # NoRec \/ (server[r] = "up" /\ table[r][j] # NoRec)

\* ... and until a server has ended every job is in a file, and no file is
\* adopted.
NobodyEnded ==
    /\ \A p, r \in Servers : /\ adopting[p][r] # "remove"
                             /\ server[r] = "down" => file[r] = Empty /\ adopting[p][r] = "no"
    /\ \A j \in kept : \E p \in Servers : file[p][j] # NoRec

KInv ==
    /\ FileKnown /\ Stops \in Nat
    /\ Stops <= 0 => NobodyEnded
    /\ Stops <= 1 => RemovesRead /\ JobKept

\* The servers that run.
Serving == {p \in Servers : server[p] # "down"}

\* Only the end of a server counts as one.
LEMMA StopsStep ==
    ASSUME Typed, Typed'
    PROVE  /\ Stops \in Int
           /\ UNCHANGED <<starts, server>> => Stops' = Stops
           /\ \A p \in Servers : /\ Start(p) \/ LoadOwn(p) => Stops' = Stops
                                 /\ Stop(p) => Stops' = Stops + 1
  <1>1. IsFiniteSet(Serving) /\ Cardinality(Serving) \in Nat
    <2>1. Serving \subseteq Servers
      BY DEF Serving
    <2> QED
      BY <2>1, JobAssumption, FS_Subset, FS_CardinalityType
  <1>2. Stops = starts - Cardinality(Serving) /\ Stops' = starts' - Cardinality(Serving')
    BY DEF Stops, Serving
  <1>3. starts \in Nat /\ starts' \in Nat
    BY JobAssumption DEF Typed
  <1>4. UNCHANGED <<starts, server>> => Stops' = Stops
    BY DEF Stops
  <1>5. ASSUME NEW p \in Servers, Start(p) PROVE Stops' = Stops
    <2>1. p \notin Serving /\ Serving' = Serving \cup {p} /\ starts' = starts + 1
      BY <1>5 DEF Start, Serving, Typed
    <2>2. Cardinality(Serving') = Cardinality(Serving) + 1
      BY <1>1, <2>1, FS_AddElement
    <2> QED
      BY <1>1, <1>2, <1>3, <2>1, <2>2
  <1>6. ASSUME NEW p \in Servers, LoadOwn(p) PROVE Stops' = Stops
    <2>1. Serving' = Serving /\ starts' = starts
      BY <1>6 DEF LoadOwn, Serving, Typed
    <2> QED
      BY <1>2, <2>1
  <1>7. ASSUME NEW p \in Servers, Stop(p) PROVE Stops' = Stops + 1
    <2>1. p \in Serving /\ Serving' = Serving \ {p} /\ starts' = starts
      BY <1>7 DEF Stop, Serving, Typed
    <2>2. Cardinality(Serving') = Cardinality(Serving) - 1
      BY <1>1, <2>1, FS_RemoveElement
    <2> QED
      BY <1>1, <1>2, <1>3, <2>1, <2>2
  <1> QED
    BY <1>1, <1>2, <1>3, <1>4, <1>5, <1>6, <1>7

\* What a request does to the records of its server: those of the jobs that
\* stay kept stay, in memory and in the file; a job it adds is in the file;
\* and the file holds nothing that memory does not.
Upkeep(p) ==
    /\ server[p] = "up" /\ UNCHANGED <<starts, server, adopting>>
    /\ \A r \in Servers \ {p} : table'[r] = table[r] /\ file'[r] = file[r]
    /\ \A j \in kept' : IF j \in kept
                        THEN /\ table[p][j] # NoRec => table'[p][j] # NoRec
                             /\ file[p][j] # NoRec => file'[p][j] # NoRec
                        ELSE file'[p][j] # NoRec
    /\ \A j \in Jobs : file'[p][j] # NoRec => table'[p][j] # NoRec

\* Writing one server's table, with its file or alone.
LEMMA Written ==
    ASSUME Typed, NEW p \in Servers, NEW tab
    PROVE  /\ Store(p, tab) \/ Keep(p, tab) =>
                table'[p] = tab /\ \A r \in Servers \ {p} : table'[r] = table[r]
           /\ Store(p, tab) => file'[p] = tab /\ \A r \in Servers \ {p} : file'[r] = file[r]
           /\ Keep(p, tab) => file' = file
  BY DEF Typed, Store, Keep

\* A table whose records of one job are replaced.
LEMMA SameKnown ==
    ASSUME Typed, FileKnown, NEW p \in Servers, server[p] = "up", NEW j \in Jobs,
           NEW rec, rec # NoRec, table[p][j] # NoRec,
           UNCHANGED <<starts, server, adopting, kept>>,
           \/ Store(p, [table[p] EXCEPT ![j] = rec])
           \/ Keep(p, [table[p] EXCEPT ![j] = rec])
    PROVE  Upkeep(p)
  <1> DEFINE tab == [table[p] EXCEPT ![j] = rec]
  <1>1. \A i \in Jobs : tab[i] # NoRec <=> table[p][i] # NoRec
    BY DEF Typed, Tables
  <1>2. table'[p] = tab /\ \A r \in Servers \ {p} : table'[r] = table[r] /\ file'[r] = file[r]
    BY Written
  <1>3. file'[p] \in {tab, file[p]}
    BY Written
  <1>4. kept \subseteq Jobs
    BY DEF Typed
  <1> HIDE DEF tab
  <1> QED
    BY <1>1, <1>2, <1>3, <1>4 DEF Upkeep, FileKnown

\* A cancel writes the file even when the record is gone.
LEMMA SameStored ==
    ASSUME Typed, FileKnown, NEW p \in Servers, server[p] = "up",
           UNCHANGED <<starts, server, adopting, kept>>, Store(p, table[p])
    PROVE  Upkeep(p)
  <1>1. /\ table'[p] = table[p] /\ file'[p] = table[p]
        /\ \A r \in Servers \ {p} : table'[r] = table[r] /\ file'[r] = file[r]
    BY Written
  <1> QED
    BY <1>1 DEF Upkeep, FileKnown, Typed

\* The steps of requests that touch the records.
LEMMA SweepUpkeep ==
    ASSUME IInv, FileKnown, NEW q \in Ops, NEW p \in Servers, Sweep(q, p)
    PROVE  Upkeep(p)
  <1>1. Typed
    BY DEF IInv
  <1>2. PICK expired \in SUBSET Jobs :
          /\ Store(p, [j \in Jobs |-> IF j \in expired THEN NoRec ELSE table[p][j]])
          /\ kept' = kept \ expired
    BY DEF Sweep, Sweepable, Known
  <1>3. server[p] = "up" /\ UNCHANGED <<starts, server, adopting>>
    BY DEF Sweep
  <1> DEFINE tab == [j \in Jobs |-> IF j \in expired THEN NoRec ELSE table[p][j]]
  <1>4. /\ table'[p] = tab /\ file'[p] = tab
        /\ \A r \in Servers \ {p} : table'[r] = table[r] /\ file'[r] = file[r]
    BY <1>1, <1>2, Written
  <1>5. \A j \in Jobs \ expired : tab[j] = table[p][j]
    OBVIOUS
  <1>6. kept' \subseteq kept /\ kept' \subseteq Jobs \ expired
    BY <1>1, <1>2 DEF Typed
  <1> HIDE DEF tab
  <1> QED
    BY <1>3, <1>4, <1>5, <1>6 DEF Upkeep, FileKnown

\* A submit that records its job.
LEMMA RecordedUpkeep ==
    ASSUME IInv, FileKnown, NEW q \in Ops, Recorded(q)
    PROVE  Upkeep(op[q].srv)
  <1> DEFINE p == op[q].srv
  <1> DEFINE new == [status |-> "running", finished |-> FALSE, asked |-> FALSE]
  <1> DEFINE tab == [table[p] EXCEPT ![op[q].job] = new]
  <1>1. Typed /\ OpOK(q)
    BY DEF IInv
  <1>2. op[q].at = "started"
    BY DEF Recorded, Runs
  <1>3. p \in Servers /\ op[q].job \in Jobs /\ server[p] = "up"
    BY <1>1, <1>2, OpFields DEF OpOK, NoOp
  <1>4. Store(p, tab) /\ kept' = kept \cup {op[q].job} /\ UNCHANGED <<starts, server, adopting>>
    BY DEF Recorded
  <1>5. new # NoRec
    <2>1. new \in Rec
      BY DEF Rec
    <2> QED
      BY <2>1, JobAssumption
  <1>6. tab[op[q].job] = new /\ \A j \in Jobs \ {op[q].job} : tab[j] = table[p][j]
    BY <1>1, <1>3 DEF Typed, Tables
  <1>7. kept \subseteq Jobs
    BY <1>1 DEF Typed
  <1> HIDE DEF tab, new, p
  <1>8. /\ table'[p] = tab /\ file'[p] = tab
        /\ \A r \in Servers \ {p} : table'[r] = table[r] /\ file'[r] = file[r]
    BY <1>1, <1>3, <1>4, Written
  <1>9. Upkeep(p)
    BY <1>3, <1>4, <1>5, <1>6, <1>7, <1>8 DEF Upkeep, FileKnown
  <1> QED
    BY <1>9 DEF p

\* The answer of a poll.
LEMMA PollUpkeep ==
    ASSUME IInv, FileKnown, NEW q \in Ops, PollDone(q)
    PROVE  Upkeep(op[q].srv) \/ UNCHANGED <<starts, server, table, file, adopting, kept>>
  <1> DEFINE p == op[q].srv
  <1> DEFINE j == op[q].job
  <1> DEFINE rec == table[p][j]
  <1> DEFINE status == Classify(rec, op[q].meta, op[q].alive)
  <1> DEFINE new == [rec EXCEPT !.status = status, !.finished = @ \/ status \in Terminal]
  <1>1. Typed /\ OpOK(q)
    BY DEF IInv
  <1>2. op[q].at = "answer" /\ UNCHANGED <<starts, server, adopting, kept>>
    BY DEF PollDone, Runs
  <1>3. p \in Servers /\ j \in Jobs /\ server[p] = "up"
    BY <1>1, <1>2, OpFields DEF OpOK, NoOp
  <1>4. CASE rec = NoRec
    BY <1>2, <1>4 DEF PollDone
  <1>5. CASE rec # NoRec
    <2>1. \/ Store(p, [table[p] EXCEPT ![j] = new])
          \/ Keep(p, [table[p] EXCEPT ![j] = new])
      BY <1>5 DEF PollDone
    <2>2. rec \in Rec
      BY <1>1, <1>3, <1>5, TableFacts
    <2>3. status \in Terminal \cup {"running"}
      BY <1>1, <1>2, OpFields DEF Classify, Terminal, Polled
    <2>4. new \in Rec
      <3> HIDE DEF status, rec
      <3> QED
        BY <2>2, <2>3 DEF Rec
    <2>5. new # NoRec
      BY <2>4, JobAssumption
    <2> HIDE DEF new
    <2> QED
      BY <1>1, <1>2, <1>3, <1>5, <2>1, <2>5, SameKnown
  <1> QED
    BY <1>4, <1>5

\* The answer of a cancel.
LEMMA CancelUpkeep ==
    ASSUME IInv, FileKnown, NEW q \in Ops, CancelDone(q)
    PROVE  Upkeep(op[q].srv)
  <1> DEFINE p == op[q].srv
  <1> DEFINE j == op[q].job
  <1> DEFINE rec == table[p][j]
  <1> DEFINE over == ~op[q].alive /\ rec.status \notin Terminal
  <1> DEFINE new == [status |-> IF over THEN "cancelled" ELSE rec.status,
                     finished |-> rec.finished \/ over, asked |-> TRUE]
  <1>1. Typed /\ OpOK(q)
    BY DEF IInv
  <1>2. op[q].at = "check" /\ UNCHANGED <<starts, server, adopting, kept>>
    BY DEF CancelDone, Runs
  <1>3. p \in Servers /\ j \in Jobs /\ server[p] = "up"
    BY <1>1, <1>2, OpFields DEF OpOK, NoOp
  <1>4. CASE rec = NoRec
    <2>1. Store(p, table[p])
      BY <1>4 DEF CancelDone
    <2> QED
      BY <1>1, <1>2, <1>3, <2>1, SameStored
  <1>5. CASE rec # NoRec
    <2>1. Store(p, [table[p] EXCEPT ![j] = new])
      BY <1>5 DEF CancelDone
    <2>2. rec \in Rec
      BY <1>1, <1>3, <1>5, TableFacts
    <2>3. over \in BOOLEAN
      OBVIOUS
    <2>4. new \in Rec
      <3> HIDE DEF over, rec
      <3> QED
        BY <2>2, <2>3 DEF Rec, Terminal
    <2>5. new # NoRec
      BY <2>4, JobAssumption
    <2> HIDE DEF new
    <2> QED
      BY <1>1, <1>2, <1>3, <1>5, <2>1, <2>5, SameKnown
  <1> QED
    BY <1>4, <1>5

\* The steps, by what they do to servers, files and records.
LEMMA KeepKinds ==
    ASSUME IInv, FileKnown, Next
    PROVE  \/ UNCHANGED <<starts, server, table, file, adopting, kept>>
           \/ \E p \in Servers : Upkeep(p)
           \/ \E p \in Servers : \/ Start(p) \/ LoadOwn(p) \/ Stop(p)
                                 \/ \E r \in Servers : LookAtSibling(p, r) \/ RemoveSibling(p, r)
  <1> DEFINE Same == UNCHANGED <<starts, server, table, file, adopting, kept>>
  <1>1. Typed
    BY DEF IInv
  <1>2. ASSUME NEW q \in Ops, Runs(q, {"started", "answer", "check"}) PROVE op[q].srv \in Servers
    BY <1>1, <1>2, OpFields DEF Runs, NoOp
  <1>3. ASSUME NEW q \in Ops, Recorded(q) \/ PollDone(q) \/ CancelDone(q)
        PROVE  Same \/ \E p \in Servers : Upkeep(p)
    <2>1. op[q].srv \in Servers
      BY <1>2, <1>3 DEF Recorded, PollDone, CancelDone, Runs
    <2> QED
      BY <1>3, <2>1, RecordedUpkeep, PollUpkeep, CancelUpkeep
  <1>4. ASSUME NEW q \in Ops, \/ Clean(q) \/ AfterSweep(q) \/ Fork(q) \/ SpawnFails(q)
                              \/ ProbeProcess(q) \/ Abandon(q) \/ Signal(q)
        PROVE  Same
    BY <1>4 DEF Clean, AfterSweep, Fork, SpawnFails, ProbeProcess, Abandon, Signal
  <1>5. ASSUME NEW q \in Ops, NEW p \in Servers,
               Admit(q, p) \/ \E j \in Jobs : Poll(q, p, j) \/ Cancel(q, p, j)
        PROVE  Same
    BY <1>5 DEF Admit, Poll, Cancel
  <1>6. ASSUME NEW j \in Jobs, RecordExit(j) \/ Exit(j) \/ Killed(j) \/ ReusePid(j)
        PROVE  Same
    BY <1>6 DEF RecordExit, Exit, Killed, ReusePid
  <1> HIDE DEF Same
  <1>7. \/ Same
        \/ \E p \in Servers : Upkeep(p)
        \/ \E p \in Servers : \/ Start(p) \/ LoadOwn(p) \/ Stop(p)
                              \/ \E r \in Servers : LookAtSibling(p, r) \/ RemoveSibling(p, r)
    BY <1>3, <1>4, <1>5, <1>6, SweepUpkeep DEF Next
  <1> QED
    BY <1>7 DEF Same

\* A request keeps the jobs.
LEMMA KeptByUpkeep ==
    ASSUME IInv, Typed', KInv, NEW p \in Servers, Upkeep(p)
    PROVE  KInv'
  <1>1. Typed /\ AdoptsLoading /\ Stops' = Stops
    BY StopsStep DEF IInv, Upkeep
  <1>2. /\ server[p] = "up" /\ server' = server /\ adopting' = adopting
        /\ \A r \in Servers \ {p} : table'[r] = table[r] /\ file'[r] = file[r]
        /\ \A j \in Jobs : file'[p][j] # NoRec => table'[p][j] # NoRec
    BY DEF Upkeep
  <1>3. \A j \in kept' : IF j \in kept
                         THEN /\ table[p][j] # NoRec => table'[p][j] # NoRec
                              /\ file[p][j] # NoRec => file'[p][j] # NoRec
                         ELSE file'[p][j] # NoRec
    BY DEF Upkeep
  <1>4. FileKnown'
    BY <1>2 DEF KInv, FileKnown
  <1>5. ASSUME NobodyEnded PROVE NobodyEnded'
    <2>1. \A a, r \in Servers : /\ adopting'[a][r] # "remove"
                                /\ server'[r] = "down" => file'[r] = Empty /\ adopting'[a][r] = "no"
      BY <1>2, <1>5 DEF NobodyEnded
    <2>2. ASSUME NEW j \in kept' PROVE \E a \in Servers : file'[a][j] # NoRec
      <3>1. CASE j \in kept
        <4>1. PICK a \in Servers : file[a][j] # NoRec
          BY <1>5, <3>1 DEF NobodyEnded
        <4> QED
          BY <1>2, <1>3, <2>2, <3>1, <4>1
      <3>2. CASE j \notin kept
        BY <1>3, <2>2, <3>2
      <3> QED
        BY <3>1, <3>2
    <2> QED
      BY <2>1, <2>2 DEF NobodyEnded
  <1>6. ASSUME RemovesRead PROVE RemovesRead'
    <2> SUFFICES ASSUME NEW a \in Servers, NEW r \in Servers, NEW j \in Jobs,
                        adopting'[a][r] = "remove", file'[r][j] # NoRec
                 PROVE  table'[a][j] # NoRec \/ (server'[r] = "up" /\ table'[r][j] # NoRec)
      BY DEF RemovesRead
    <2>1. server[a] = "loading" /\ a # p
      BY <1>1, <1>2 DEF AdoptsLoading
    <2>2. CASE r = p
      BY <1>2, <2>2
    <2>3. CASE r # p
      BY <1>2, <1>6, <2>1, <2>3 DEF RemovesRead
    <2> QED
      BY <2>2, <2>3
  <1>7. ASSUME JobKept PROVE JobKept'
    <2> SUFFICES ASSUME NEW j \in kept'
                 PROVE  \E a \in Servers : \/ file'[a][j] # NoRec
                                           \/ server'[a] # "down" /\ table'[a][j] # NoRec
      <3>1. kept' \subseteq Jobs
        BY DEF Typed
      <3> QED
        BY <3>1 DEF JobKept, Known
    <2>1. CASE j \in kept
      <3>1. PICK a \in Servers : file[a][j] # NoRec \/ (server[a] # "down" /\ table[a][j] # NoRec)
        BY <1>7, <2>1 DEF JobKept, Known
      <3> QED
        BY <1>2, <1>3, <2>1, <3>1
    <2>2. CASE j \notin kept
      BY <1>3, <2>2
    <2> QED
      BY <2>1, <2>2
  <1> QED
    BY <1>1, <1>4, <1>5, <1>6, <1>7 DEF KInv

\* Loading a file forgets nothing, and learns what the file holds.
LEMMA LoadedGrows ==
    ASSUME Typed, NEW p \in Servers, NEW r \in Servers, Keep(p, Loaded(p, r))
    PROVE  /\ \A a \in Servers, j \in Jobs : table[a][j] # NoRec => table'[a][j] # NoRec
           /\ \A j \in Jobs : file[r][j] # NoRec => table'[p][j] # NoRec
  <1>1. \A j \in Jobs : /\ table[p][j] # NoRec => Loaded(p, r)[j] # NoRec
                        /\ file[r][j] # NoRec => Loaded(p, r)[j] # NoRec
    BY DEF Loaded
  <1>2. table'[p] = Loaded(p, r) /\ \A a \in Servers \ {p} : table'[a] = table[a]
    BY Written
  <1> QED
    BY <1>1, <1>2

\* A server that starts, or has loaded its own file, keeps the jobs.
LEMMA KeptByStart ==
    ASSUME IInv, Typed', KInv, NEW p \in Servers, Start(p) \/ LoadOwn(p)
    PROVE  KInv'
  <1>1. Typed /\ Stops' = Stops
    BY StopsStep DEF IInv
  <1>2. file' = file /\ kept' = kept /\ kept \subseteq Jobs
    BY <1>1 DEF Typed, Start, LoadOwn, Keep
  <1>3. \A a \in Servers, j \in Jobs : table[a][j] # NoRec => table'[a][j] # NoRec
    BY <1>1, LoadedGrows DEF Start, LoadOwn
  <1>4. \A a \in Servers : /\ a # p => server'[a] = server[a]
                           /\ server'[p] # "down" /\ (server[p] = "up" => server'[p] = "up")
    BY <1>1 DEF Typed, Start, LoadOwn
  <1>5. FileKnown'
    <2>1. CASE Start(p)
      BY <1>1, <2>1 DEF KInv, FileKnown, Typed, Start
    <2>2. CASE LoadOwn(p)
      <3>1. \A j \in Jobs : file[p][j] # NoRec => table'[p][j] # NoRec
        BY <1>1, <2>2, LoadedGrows DEF LoadOwn
      <3> QED
        BY <1>2, <1>3, <1>4, <3>1 DEF KInv, FileKnown
    <2> QED
      BY <2>1, <2>2
  <1>6. \A a, r \in Servers :
          /\ adopting'[a][r] # "remove" \/ adopting'[a][r] = adopting[a][r]
          /\ adopting'[a][r] = adopting[a][r] \/ (adopting'[a][r] = "look" /\ file[r] # Empty)
             \/ adopting'[a][r] = "no"
    <2>1. CASE Start(p)
      BY <1>1, <2>1 DEF Typed, Start
    <2>2. CASE LoadOwn(p)
      BY <2>2 DEF LoadOwn
    <2> QED
      BY <2>1, <2>2
  <1>7. ASSUME NobodyEnded PROVE NobodyEnded'
    <2>1. ASSUME NEW a \in Servers, NEW r \in Servers
          PROVE  /\ adopting'[a][r] # "remove"
                 /\ server'[r] = "down" => file'[r] = Empty /\ adopting'[a][r] = "no"
      <3>1. adopting[a][r] # "remove" /\ (server[r] = "down" => file[r] = Empty /\ adopting[a][r] = "no")
        BY <1>7 DEF NobodyEnded
      <3> QED
        BY <1>2, <1>4, <1>6, <3>1
    <2> QED
      BY <1>2, <1>7, <2>1 DEF NobodyEnded
  <1>8. ASSUME RemovesRead PROVE RemovesRead'
    BY <1>2, <1>3, <1>4, <1>6, <1>8 DEF RemovesRead
  <1>9. ASSUME JobKept PROVE JobKept'
    BY <1>2, <1>3, <1>4, <1>9 DEF JobKept, Known
  <1> QED
    BY <1>1, <1>5, <1>7, <1>8, <1>9 DEF KInv

\* A server that loads the file of a dead sibling keeps the jobs.
LEMMA KeptByLook ==
    ASSUME IInv, Typed', KInv, NEW p \in Servers, NEW s \in Servers, LookAtSibling(p, s)
    PROVE  KInv'
  <1>1. Typed /\ Stops' = Stops
    BY StopsStep DEF IInv, LookAtSibling
  <1>2. file' = file /\ kept' = kept /\ kept \subseteq Jobs /\ server' = server
    BY <1>1 DEF Typed, LookAtSibling, Keep
  <1>3. \A a \in Servers, j \in Jobs : table[a][j] # NoRec => table'[a][j] # NoRec
    BY <1>1, LoadedGrows DEF LookAtSibling
  <1>4. \A a, r \in Servers : a # p \/ r # s => adopting'[a][r] = adopting[a][r]
    BY <1>1 DEF Typed, LookAtSibling
  <1>5. \/ server[s] # "down" /\ adopting'[p][s] = "no"
        \/ /\ server[s] = "down" /\ adopting[p][s] = "look"
           /\ \A j \in Jobs : file[s][j] # NoRec => table'[p][j] # NoRec
    BY <1>1, LoadedGrows DEF Typed, LookAtSibling
  <1>6. FileKnown'
    BY <1>2, <1>3 DEF KInv, FileKnown
  <1>7. ASSUME NobodyEnded PROVE NobodyEnded'
    <2>1. server[s] # "down" /\ adopting'[p][s] = "no"
      BY <1>5, <1>7 DEF NobodyEnded
    <2>2. \A a, r \in Servers : /\ adopting'[a][r] # "remove"
                                /\ server'[r] = "down" => file'[r] = Empty /\ adopting'[a][r] = "no"
      BY <1>2, <1>4, <1>7, <2>1 DEF NobodyEnded
    <2> QED
      BY <1>2, <1>7, <2>2 DEF NobodyEnded
  <1>8. ASSUME RemovesRead PROVE RemovesRead'
    <2> SUFFICES ASSUME NEW a \in Servers, NEW r \in Servers, NEW j \in Jobs,
                        adopting'[a][r] = "remove", file'[r][j] # NoRec
                 PROVE  table'[a][j] # NoRec \/ (server'[r] = "up" /\ table'[r][j] # NoRec)
      BY DEF RemovesRead
    <2>1. CASE a = p /\ r = s
      BY <1>2, <1>5, <2>1
    <2>2. CASE a # p \/ r # s
      BY <1>2, <1>3, <1>4, <1>8, <2>2 DEF RemovesRead
    <2> QED
      BY <2>1, <2>2
  <1>9. ASSUME JobKept PROVE JobKept'
    BY <1>2, <1>3, <1>9 DEF JobKept, Known
  <1> QED
    BY <1>1, <1>6, <1>7, <1>8, <1>9 DEF KInv

\* A server that removes the file it has read keeps the jobs, unless two
\* servers have ended.
LEMMA KeptByRemove ==
    ASSUME IInv, Typed', KInv, NEW p \in Servers, NEW s \in Servers, RemoveSibling(p, s)
    PROVE  KInv'
  <1>1. Typed /\ AdoptsLoading /\ Stops' = Stops /\ Stops \in Int
    BY StopsStep DEF IInv, RemoveSibling
  <1>2. table' = table /\ kept' = kept /\ kept \subseteq Jobs /\ server' = server
    BY <1>1 DEF Typed, RemoveSibling
  <1>3. /\ file'[s] = Empty /\ \A r \in Servers \ {s} : file'[r] = file[r]
        /\ adopting[p][s] = "remove" /\ adopting'[p][s] = "no"
        /\ \A a, r \in Servers : a # p \/ r # s => adopting'[a][r] = adopting[a][r]
    BY <1>1 DEF Typed, RemoveSibling
  <1>4. \A r \in Servers, j \in Jobs : file'[r][j] # NoRec => file'[r] = file[r] /\ r # s
    BY <1>3 DEF Empty
  <1>5. FileKnown'
    BY <1>2, <1>4 DEF KInv, FileKnown
  <1>6. ~NobodyEnded
    BY <1>3 DEF NobodyEnded
  <1>7. ASSUME RemovesRead PROVE RemovesRead'
    BY <1>2, <1>3, <1>4, <1>7 DEF RemovesRead
  <1>8. ASSUME RemovesRead, JobKept PROVE JobKept'
    <2> SUFFICES ASSUME NEW j \in kept
                 PROVE  \E a \in Servers : \/ file'[a][j] # NoRec
                                           \/ server'[a] # "down" /\ table'[a][j] # NoRec
      BY <1>2 DEF JobKept, Known
    <2>1. PICK a \in Servers : file[a][j] # NoRec \/ (server[a] # "down" /\ table[a][j] # NoRec)
      BY <1>8 DEF JobKept, Known
    <2>2. CASE a = s /\ file[s][j] # NoRec
      <3>1. table[p][j] # NoRec \/ (server[s] = "up" /\ table[s][j] # NoRec)
        BY <1>2, <1>3, <1>8, <2>2 DEF RemovesRead
      <3>2. server[p] = "loading"
        BY <1>1, <1>3 DEF AdoptsLoading
      <3> QED
        BY <1>2, <3>1, <3>2
    <2>3. CASE ~(a = s /\ file[s][j] # NoRec)
      BY <1>2, <1>3, <2>1, <2>3
    <2> QED
      BY <2>2, <2>3
  <1> QED
    BY <1>1, <1>5, <1>6, <1>7, <1>8 DEF KInv

\* The first server that ends leaves every job in a file.
LEMMA KeptByStop ==
    ASSUME IInv, Typed', KInv, NEW p \in Servers, Stop(p)
    PROVE  KInv'
  <1>1. Typed /\ Stops' = Stops + 1 /\ Stops \in Int
    BY StopsStep DEF IInv
  <1>2. file' = file /\ kept' = kept
    BY DEF Stop
  <1>3. /\ server'[p] = "down" /\ \A a \in Servers \ {p} : server'[a] = server[a]
        /\ \A a \in Servers \ {p} : table'[a] = table[a]
        /\ \A a, r \in Servers : adopting'[a][r] \in {adopting[a][r], "no"}
    BY <1>1 DEF Typed, Stop
  <1>4. FileKnown'
    BY <1>2, <1>3 DEF KInv, FileKnown
  <1>5. CASE Stops <= 0
    <2>1. NobodyEnded
      BY <1>5 DEF KInv
    <2>2. RemovesRead'
      BY <1>3, <2>1 DEF NobodyEnded, RemovesRead
    <2>3. JobKept'
      BY <1>2, <2>1 DEF NobodyEnded, JobKept
    <2> QED
      BY <1>1, <1>4, <2>2, <2>3 DEF KInv
  <1>6. CASE ~(Stops <= 0)
    BY <1>1, <1>4, <1>6 DEF KInv
  <1> QED
    BY <1>5, <1>6

\* Every job that is recorded and not swept is in a state file or in the
\* memory of a running server as long as only one server process has ended,
\* for any number of servers, restarts, jobs and requests, wherever adoption
\* and removal of files stand (_load_file, _adopt_dead_siblings, _persist).
THEOREM JobsKeptThroughRestart == Spec => []KeptThroughRestart
  <1>1. Init => KInv
    <2> SUFFICES ASSUME Init PROVE KInv
      OBVIOUS
    <2>1. {p \in Servers : server[p] # "down"} = {}
      BY DEF Init
    <2>2. Stops = 0
      BY <2>1, FS_EmptySet DEF Init, Stops
    <2>3. NobodyEnded /\ RemovesRead /\ JobKept /\ FileKnown
      BY DEF Init, NobodyEnded, RemovesRead, JobKept, FileKnown, Empty
    <2> QED
      BY <2>2, <2>3 DEF KInv
  <1>2. IInv /\ IInv' /\ KInv /\ [Next]_vars => KInv'
    <2> SUFFICES ASSUME IInv, IInv', KInv, [Next]_vars PROVE KInv'
      OBVIOUS
    <2>1. Typed /\ Typed' /\ FileKnown
      BY DEF IInv, KInv
    <2>2. CASE UNCHANGED <<starts, server, table, file, adopting, kept>>
      <3>1. Stops' = Stops
        BY <2>1, <2>2, StopsStep
      <3> QED
        BY <2>2, <3>1 DEF KInv, FileKnown, NobodyEnded, RemovesRead, JobKept, Known
    <2>3. CASE UNCHANGED vars
      BY <2>2, <2>3 DEF vars
    <2>4. CASE Next
      BY <2>1, <2>2, <2>4, KeepKinds, KeptByUpkeep, KeptByStart, KeptByLook, KeptByRemove,
         KeptByStop
    <2> QED
      BY <2>3, <2>4
  <1>3. KInv => KeptThroughRestart
    BY DEF KInv, KeptThroughRestart
  <1> QED
    BY <1>1, <1>2, <1>3, JobInvariant, PTL DEF Spec

=============================================================================
