-------------------------- MODULE RemoteExecProofs --------------------------
(***************************************************************************)
(* Proofs about RemoteExec: the typing, that a rolling run stops at the    *)
(* first host that did not succeed, that no command goes unrecorded        *)
(* without an excuse, and that nothing follows a command a closed audit    *)
(* log has no record of.                                                   *)
(***************************************************************************)
EXTENDS RemoteExec, SequenceTheorems, FiniteSetTheorems, WellFoundedInduction, TLAPS

CallPlaces == {"idle", "gate", "secrets", "run", "ended"}
Answers == {"none", "blocked", "error", "ok", "cancelled"}
AllRequests == {NoRequest} \cup UNION {Requests[c] : c \in Calls}
CallRecord == [at : CallPlaces, req : AllRequests, checked : Nat, answer : Answers]
HostPlaces == Working \cup {"wait", "done", "raised"}
HostWork == [at : HostPlaces, command : 1..MaxCommands, codes : Seq(Codes)]

\* The inductive invariant.  The variables have their types ...
Typed ==
    /\ used \in [Hosts -> 0..Limit]
    /\ call \in [Calls -> CallRecord]
    /\ work \in [Calls -> Seq(HostWork)]
    /\ started \in [Calls -> SUBSET (Nat \X Nat)]
    /\ recorded \in [Calls -> SUBSET (Nat \X Nat)]
    /\ unwritten \in [Calls -> SUBSET (Nat \X Nat)]
    /\ broken \in [Calls -> SUBSET (Nat \X Nat)]

\* ... a call has work once it is past the gate, one record for each host ...
Requested(c) ==
    /\ IF call[c].at = "idle" THEN Req(c) = NoRequest ELSE Req(c) \in Requests[c]
    /\ call[c].checked <= Req(c).commands
    /\ call[c].at \in {"idle", "gate", "secrets"} => work[c] = <<>>
    /\ work[c] = <<>> \/ Len(work[c]) = Len(Req(c).hosts)
    /\ call[c].at # "ended" => call[c].answer = "none"

\* ... a host has one exit code for each command it is past, and is done
\* early only after a failure ...
HostOK(c, w) ==
    /\ w.command <= Req(c).commands
    /\ w.at = "wait" => w = Waiting
    /\ w.at # "done" => Len(w.codes) = w.command - 1
    /\ w.at = "done" => /\ Len(w.codes) = w.command
                        /\ w.command = Req(c).commands \/ ResultFailed(w.codes)
Progress(c) == \A i \in DOMAIN work[c] : HostOK(c, work[c][i])

\* ... a rolling run leaves a host only when it is done with it, and, told to
\* stop at errors, only when it did not fail ...
InOrder(c) ==
    Rolling(c) => \A i, j \in DOMAIN work[c] :
        (j < i /\ work[c][i].at # "wait") =>
            /\ work[c][j].at = "done"
            /\ Req(c).stop => ~ResultFailed(work[c][j].codes)

\* ... commands are started in order ...
StartedInOrder(c) ==
    \A p \in started[c] :
        /\ p[1] \in DOMAIN work[c] /\ work[c][p[1]].at # "wait"
        /\ p[2] \in 1..work[c][p[1]].command

\* ... and, with a closed audit log, a command without a record is the one
\* its host is at, running or with an exception raised for it.
UnrecordedIsLast(c) ==
    failClosed => \A p \in started[c] \ recorded[c] :
        work[c][p[1]].at \in {"running", "raised"} /\ work[c][p[1]].command = p[2]

\* RecordedUnlessExcused, for one call.
Excused(c) ==
    \A p \in started[c] \ recorded[c] :
        \/ call[c].at = "run" /\ work[c][p[1]].at = "running" /\ work[c][p[1]].command = p[2]
        \/ call[c].answer = "cancelled"
        \/ p \in unwritten[c]
        \/ Privileged(c) /\ p \in broken[c]

CallInv(c) ==
    /\ Requested(c) /\ Progress(c) /\ InOrder(c)
    /\ StartedInOrder(c) /\ UnrecordedIsLast(c) /\ Excused(c)

IInv == Typed /\ \A c \in Calls : CallInv(c)

-----------------------------------------------------------------------------
(* What a step leaves alone *)

SameCall(d) ==
    /\ call'[d] = call[d] /\ work'[d] = work[d]
    /\ started'[d] = started[d] /\ recorded'[d] = recorded[d]
    /\ unwritten'[d] = unwritten[d] /\ broken'[d] = broken[d]

\* The invariant of a call speaks of that call and the configuration only.
LEMMA Frame ==
    ASSUME NEW d \in Calls, CallInv(d), SameCall(d), UNCHANGED failClosed
    PROVE  CallInv(d)'
  <1> USE DEF SameCall
  <1>1. Requested(d)'
    BY DEF CallInv, Requested, Req
  <1>2. Progress(d)'
    BY DEF CallInv, Progress, HostOK, Req
  <1>3. InOrder(d)'
    BY DEF CallInv, InOrder, Rolling, Req
  <1>4. StartedInOrder(d)'
    BY DEF CallInv, StartedInOrder
  <1>5. UnrecordedIsLast(d)'
    BY DEF CallInv, UnrecordedIsLast
  <1>6. Excused(d)'
    BY DEF CallInv, Excused, Privileged, Req
  <1> QED
    BY <1>1, <1>2, <1>3, <1>4, <1>5, <1>6 DEF CallInv

\* What is known of a call that is past its beginning.
LEMMA RequestFacts ==
    ASSUME Typed, NEW c \in Calls, CallInv(c), call[c].at # "idle"
    PROVE  /\ Req(c) \in Requests[c]
           /\ Req(c).hosts \in Seq(Hosts) /\ Len(Req(c).hosts) \in Nat \ {0}
           /\ Req(c).commands \in 1..MaxCommands
           /\ Req(c).multi \in BOOLEAN /\ Req(c).serialize \in BOOLEAN /\ Req(c).stop \in BOOLEAN
           /\ Req(c).multi \/ Len(Req(c).hosts) = 1
  <1>1. Req(c) \in Requests[c]
    BY DEF CallInv, Requested
  <1>2. /\ Req(c) \in [hosts : Seq(Hosts), multi : BOOLEAN, commands : 1..MaxCommands,
                       mode : {"plain", "sudo", "secrets", "both"},
                       serialize : BOOLEAN, stop : BOOLEAN]
        /\ Req(c).hosts # <<>> /\ (Len(Req(c).hosts) > 1 => Req(c).multi)
    BY <1>1, ExecAssumption
  <1>3. Len(Req(c).hosts) \in Nat \ {0}
    BY <1>2, EmptySeq, LenProperties
  <1>4. \A n \in Nat \ {0} : n > 1 \/ n = 1
    OBVIOUS
  <1>5. Req(c).multi \/ Len(Req(c).hosts) = 1
    BY <1>2, <1>3, <1>4
  <1> QED
    BY <1>1, <1>2, <1>3, <1>5

\* A call ends: only its place and its answer change.
LEMMA EndEffect ==
    ASSUME Typed, NEW c \in Calls, NEW answer \in Answers, End(c, answer)
    PROVE  /\ call' \in [Calls -> CallRecord]
           /\ \A d \in Calls \ {c} : call'[d] = call[d]
           /\ Req(c)' = Req(c) /\ call'[c].checked = call[c].checked
           /\ call'[c].at = "ended" /\ call'[c].answer = answer
  <1>1. call[c] \in CallRecord /\ call \in [Calls -> CallRecord]
    BY DEF Typed
  <1> DEFINE new == [call[c] EXCEPT !.at = "ended", !.answer = answer]
  <1>2. /\ new \in CallRecord /\ new.req = call[c].req /\ new.checked = call[c].checked
        /\ new.at = "ended" /\ new.answer = answer
    BY <1>1 DEF CallRecord, CallPlaces
  <1>3. call' = [call EXCEPT ![c] = new]
    BY <1>1 DEF End
  <1> HIDE DEF new
  <1> QED
    BY <1>1, <1>2, <1>3 DEF Req

-----------------------------------------------------------------------------
(* A step of one host: ResolveSudo, Connect, StartLocal, Finish, NextHost *)

\* Host i is next: a rolling run is done with the hosts before it.
Turn(c, i) ==
    Rolling(c) => \A j \in DOMAIN work[c] : j < i =>
        work[c][j].at = "done" /\ (Req(c).stop => ~ResultFailed(work[c][j].codes))

\* The files of the call only grow.
Grows(log, c) ==
    /\ log' \in [Calls -> SUBSET (Nat \X Nat)]
    /\ log[c] \subseteq log'[c]
    /\ \A d \in Calls \ {c} : log'[d] = log[d]

\* Host i of call c goes on to w.
HostStep(c, i, w) ==
    LET old == work[c][i]
        cmd == <<i, old.command>>
    IN /\ call[c].at = "run" /\ i \in DOMAIN work[c]
       /\ old.at \in Working \cup {"wait"} /\ Turn(c, i)
       /\ w \in HostWork /\ HostOK(c, w) /\ w.at # "wait" /\ w.command >= old.command
       /\ work' = [work EXCEPT ![c] = [work[c] EXCEPT ![i] = w]]
       /\ \/ call' = call
          \/ /\ ~(Req(c).multi /\ ~Req(c).serialize) /\ old.at # "wait" /\ w.at = "raised"
             /\ End(c, "error")
       /\ \/ started' = started
          \/ /\ started' = [started EXCEPT ![c] = @ \cup {cmd}]
             /\ w.at = "running" /\ w.command = old.command /\ call' = call
       /\ Grows(recorded, c) /\ Grows(unwritten, c) /\ Grows(broken, c)
       /\ failClosed => \/ w.at \in {"running", "raised"} /\ w.command = old.command
                        \/ old.at # "running" \/ cmd \in recorded'[c]
       /\ old.at = "running" => \/ cmd \in recorded'[c] \cup unwritten'[c]
                                \/ Privileged(c) /\ cmd \in broken'[c]
       /\ UNCHANGED <<failClosed, used>>

\* What the step does to the records.
LEMMA HostStepEffect ==
    ASSUME Typed, NEW c \in Calls, CallInv(c), NEW i, NEW w, HostStep(c, i, w)
    PROVE  /\ Typed' /\ i \in Nat /\ work[c][i].command \in Nat /\ w.command \in Nat
           /\ DOMAIN work'[c] = DOMAIN work[c] /\ Len(work'[c]) = Len(work[c])
           /\ work[c] # <<>> /\ work'[c] # <<>>
           /\ \A k \in DOMAIN work[c] : work'[c][k] = IF k = i THEN w ELSE work[c][k]
           /\ Req(c)' = Req(c) /\ Rolling(c)' = Rolling(c) /\ Privileged(c)' = Privileged(c)
           /\ call'[c].checked = call[c].checked
           /\ \/ call'[c].at = "run" /\ call'[c].answer = call[c].answer
              \/ call'[c].at = "ended"
           /\ \A d \in Calls \ {c} : SameCall(d)
  <1>1. /\ work[c] \in Seq(HostWork) /\ DOMAIN work[c] = 1..Len(work[c]) /\ Len(work[c]) \in Nat
        /\ i \in 1..Len(work[c]) /\ i \in Nat
    BY LenProperties DEF Typed, HostStep
  <1>2. /\ [work[c] EXCEPT ![i] = w] \in Seq(HostWork)
        /\ Len([work[c] EXCEPT ![i] = w]) = Len(work[c])
        /\ \A k \in 1..Len(work[c]) : [work[c] EXCEPT ![i] = w][k] = IF k = i THEN w ELSE work[c][k]
    <2>1. w \in HostWork
      BY DEF HostStep
    <2> QED
      BY <1>1, <2>1, ExceptSeq
  <1>3. /\ work'[c] = [work[c] EXCEPT ![i] = w] /\ work' \in [Calls -> Seq(HostWork)]
        /\ \A d \in Calls \ {c} : work'[d] = work[d]
    BY <1>2 DEF HostStep, Typed
  <1>4. /\ DOMAIN work'[c] = DOMAIN work[c] /\ Len(work'[c]) = Len(work[c])
        /\ \A k \in DOMAIN work[c] : work'[c][k] = IF k = i THEN w ELSE work[c][k]
    BY <1>1, <1>2, <1>3, LenProperties
  <1>5. work[c] # <<>> /\ work'[c] # <<>>
    BY <1>1, <1>4, EmptySeq
  <1>6. /\ work[c][i] \in HostWork /\ w \in HostWork
        /\ work[c][i].command \in Nat /\ w.command \in Nat
    <2>1. work[c][i] \in HostWork /\ w \in HostWork
      BY <1>1, ElementOfSeq DEF HostStep
    <2>2. 1..MaxCommands \subseteq Nat
      BY ExecAssumption
    <2> QED
      BY <2>1, <2>2 DEF HostWork
  <1>7. /\ call' \in [Calls -> CallRecord] /\ \A d \in Calls \ {c} : call'[d] = call[d]
        /\ Req(c)' = Req(c) /\ call'[c].checked = call[c].checked
        /\ (call'[c].at = "run" /\ call'[c].answer = call[c].answer) \/ call'[c].at = "ended"
    <2>1. CASE call' = call
      BY <2>1 DEF HostStep, Typed, Req
    <2>2. CASE End(c, "error")
      BY <2>2, EndEffect DEF Answers
    <2> QED
      BY <2>1, <2>2 DEF HostStep
  <1>8. Rolling(c)' = Rolling(c) /\ Privileged(c)' = Privileged(c)
    BY <1>7 DEF Rolling, Privileged
  <1>9. started' \in [Calls -> SUBSET (Nat \X Nat)] /\ \A d \in Calls \ {c} : started'[d] = started[d]
    <2>1. <<i, work[c][i].command>> \in Nat \X Nat
      BY <1>1, <1>6
    <2>2. started \in [Calls -> SUBSET (Nat \X Nat)]
      BY DEF Typed
    <2>3. \/ started' = started
          \/ started' = [started EXCEPT ![c] = @ \cup {<<i, work[c][i].command>>}]
      BY DEF HostStep
    <2>4. started[c] \cup {<<i, work[c][i].command>>} \in SUBSET (Nat \X Nat)
      BY <2>1, <2>2
    <2> QED
      BY <2>2, <2>3, <2>4
  <1>10. Typed'
    BY <1>3, <1>7, <1>9 DEF HostStep, Grows, Typed
  <1>11. \A d \in Calls \ {c} : SameCall(d)
    BY <1>3, <1>7, <1>9 DEF HostStep, Grows, SameCall
  <1> QED
    BY <1>1, <1>4, <1>5, <1>6, <1>7, <1>8, <1>10, <1>11

\* The step keeps the invariant.
LEMMA HostStepInv ==
    ASSUME IInv, NEW c \in Calls, NEW i, NEW w, HostStep(c, i, w)
    PROVE  IInv'
  <1>1. Typed /\ CallInv(c)
    BY DEF IInv
  <1> DEFINE old == work[c][i]
             cmd == <<i, old.command>>
  <1>2. /\ Typed' /\ i \in Nat /\ old.command \in Nat /\ w.command \in Nat
        /\ DOMAIN work'[c] = DOMAIN work[c] /\ Len(work'[c]) = Len(work[c])
        /\ work[c] # <<>> /\ work'[c] # <<>>
        /\ \A k \in DOMAIN work[c] : work'[c][k] = IF k = i THEN w ELSE work[c][k]
        /\ Req(c)' = Req(c) /\ Rolling(c)' = Rolling(c) /\ Privileged(c)' = Privileged(c)
        /\ call'[c].checked = call[c].checked
        /\ (call'[c].at = "run" /\ call'[c].answer = call[c].answer) \/ call'[c].at = "ended"
        /\ \A d \in Calls \ {c} : SameCall(d)
    BY <1>1, HostStepEffect
  <1>3. /\ call[c].at = "run" /\ i \in DOMAIN work[c] /\ old.at \in Working \cup {"wait"}
        /\ HostOK(c, w) /\ w.at # "wait" /\ w.command >= old.command
    BY DEF HostStep
  <1>4. Requested(c)'
    BY <1>1, <1>2, <1>3 DEF CallInv, Requested
  <1>5. Progress(c)'
    <2>1. \A k \in DOMAIN work[c] : HostOK(c, work'[c][k])
      BY <1>1, <1>2, <1>3 DEF CallInv, Progress
    <2>2. \A v : HostOK(c, v) = HostOK(c, v)'
      BY <1>2 DEF HostOK
    <2> QED
      BY <1>2, <2>1, <2>2 DEF Progress
  <1>6. InOrder(c)'
    <2> SUFFICES ASSUME Rolling(c), NEW k \in DOMAIN work[c], NEW j \in DOMAIN work[c],
                        j < k, work'[c][k].at # "wait"
                 PROVE  /\ work'[c][j].at = "done"
                        /\ Req(c).stop => ~ResultFailed(work'[c][j].codes)
      BY <1>2 DEF InOrder
    <2>1. CASE j = i
      <3>1. k # i /\ work'[c][k] = work[c][k]
        BY <1>2, <2>1
      <3>2. old.at = "done"
        BY <1>1, <1>3, <2>1, <3>1 DEF CallInv, InOrder
      <3> QED
        BY <1>3, <3>2 DEF Working
    <2>2. CASE j # i
      <3>1. work'[c][j] = work[c][j]
        BY <1>2, <2>2
      <3>2. CASE k = i
        BY <3>1, <3>2 DEF HostStep, Turn
      <3>3. CASE k # i
        BY <1>1, <1>2, <3>1, <3>3 DEF CallInv, InOrder
      <3> QED
        BY <3>2, <3>3
    <2> QED
      BY <2>1, <2>2
  \* A command started before is one of this call's.
  <1>7. \A p \in started'[c] :
           \/ p = cmd /\ w.at = "running" /\ w.command = old.command /\ call' = call
           \/ p \in started[c]
    BY DEF HostStep, Typed, IInv
  <1>8. StartedInOrder(c)'
    <2> SUFFICES ASSUME NEW p \in started'[c]
                 PROVE  /\ p[1] \in DOMAIN work'[c] /\ work'[c][p[1]].at # "wait"
                        /\ p[2] \in 1..work'[c][p[1]].command
      BY DEF StartedInOrder
    <2>1. CASE p = cmd /\ w.command = old.command
      <3>1. old.command \in 1..old.command
        <4>1. old.command \in 1..MaxCommands
          <5>1. work[c] \in Seq(HostWork)
            BY <1>1 DEF Typed
          <5>2. old \in HostWork
            BY <1>3, <5>1, LenProperties
          <5> QED
            BY <5>2 DEF HostWork
        <4> QED
          BY <4>1, ExecAssumption
      <3> QED
        BY <1>2, <1>3, <2>1, <3>1
    <2>2. CASE p \in started[c]
      <3>1. p[1] \in DOMAIN work[c] /\ work[c][p[1]].at # "wait" /\ p[2] \in 1..work[c][p[1]].command
        BY <1>1, <2>2 DEF CallInv, StartedInOrder
      <3>2. CASE p[1] = i
        BY <1>2, <1>3, <3>1, <3>2
      <3>3. CASE p[1] # i
        BY <1>2, <3>1, <3>3
      <3> QED
        BY <3>2, <3>3
    <2> QED
      BY <1>7, <2>1, <2>2
  <1>9. \A p \in started[c] \ recorded'[c] : /\ p \in started[c] \ recorded[c]
                                             /\ p[1] \in DOMAIN work[c] /\ p = <<p[1], p[2]>>
    BY <1>1 DEF HostStep, Grows, CallInv, StartedInOrder, Typed
  <1>10. UnrecordedIsLast(c)'
    <2> SUFFICES ASSUME failClosed, NEW p \in started'[c], p \notin recorded'[c]
                 PROVE  work'[c][p[1]].at \in {"running", "raised"} /\ work'[c][p[1]].command = p[2]
      BY DEF UnrecordedIsLast, HostStep
    <2>1. CASE p = cmd /\ w.at = "running" /\ w.command = old.command
      BY <1>2, <1>3, <2>1
    <2>2. CASE p \in started[c]
      <3>1. /\ p[1] \in DOMAIN work[c] /\ p = <<p[1], p[2]>>
            /\ work[c][p[1]].at \in {"running", "raised"} /\ work[c][p[1]].command = p[2]
        BY <1>1, <1>9, <2>2 DEF CallInv, UnrecordedIsLast
      <3>2. CASE p[1] = i
        <4>1. old.at = "running" /\ p = cmd
          BY <1>3, <3>1, <3>2 DEF Working
        <4>2. w.at \in {"running", "raised"} /\ w.command = old.command
          BY <4>1 DEF HostStep
        <4> QED
          BY <1>2, <1>3, <3>1, <3>2, <4>2
      <3>3. CASE p[1] # i
        BY <1>2, <3>1, <3>3
      <3> QED
        BY <3>2, <3>3
    <2> QED
      BY <1>7, <2>1, <2>2
  <1>11. Excused(c)'
    <2> SUFFICES ASSUME NEW p \in started'[c], p \notin recorded'[c],
                        p \notin unwritten'[c], ~(Privileged(c) /\ p \in broken'[c])
                 PROVE  \/ call'[c].at = "run" /\ work'[c][p[1]].at = "running"
                           /\ work'[c][p[1]].command = p[2]
                        \/ call'[c].answer = "cancelled"
      BY <1>2 DEF Excused
    <2>1. CASE p = cmd /\ w.at = "running" /\ w.command = old.command /\ call' = call
      BY <1>2, <1>3, <2>1
    <2>2. CASE p \in started[c]
      <3>1. /\ p[1] \in DOMAIN work[c] /\ p = <<p[1], p[2]>> /\ p \in started[c] \ recorded[c]
        BY <1>9, <2>2
      <3>2. p \notin unwritten[c] /\ ~(Privileged(c) /\ p \in broken[c])
        BY DEF HostStep, Grows
      <3>3. work[c][p[1]].at = "running" /\ work[c][p[1]].command = p[2]
        BY <1>1, <1>3, <3>1, <3>2 DEF CallInv, Excused, Requested
      <3>4. p[1] # i
        <4> SUFFICES ASSUME p[1] = i PROVE FALSE
          OBVIOUS
        <4>1. old.at = "running" /\ p = cmd
          BY <3>1, <3>3
        <4> QED
          BY <4>1 DEF HostStep
      <3>5. work'[c][p[1]] = work[c][p[1]]
        BY <1>2, <3>1, <3>4
      <3>6. call' = call
        <4>0. SUFFICES ASSUME ~(Req(c).multi /\ ~Req(c).serialize), old.at # "wait" PROVE FALSE
          BY DEF HostStep
        <4>1. CASE Rolling(c)
          <5>1. DOMAIN work[c] = 1..Len(work[c]) /\ Len(work[c]) \in Nat
            BY <1>1, LenProperties DEF Typed
          <5>2. p[1] < i \/ i < p[1]
            BY <1>3, <3>1, <3>4, <5>1
          <5>3. work[c][p[1]].at = "done" \/ old.at = "done"
            BY <1>1, <1>3, <3>1, <3>3, <4>0, <4>1, <5>2 DEF CallInv, InOrder
          <5> QED
            BY <1>3, <3>3, <5>3 DEF Working
        <4>2. CASE ~Rolling(c)
          <5>1. ~Req(c).multi
            BY <1>1, <1>3, <4>0, <4>2, RequestFacts DEF Rolling
          <5>2. Len(Req(c).hosts) = 1 /\ Len(work[c]) = Len(Req(c).hosts)
            <6>0. call[c].at # "idle"
              BY <1>3
            <6>1. Req(c).multi \/ Len(Req(c).hosts) = 1
              BY <1>1, <6>0, RequestFacts
            <6>2. Len(work[c]) = Len(Req(c).hosts)
              BY <1>1, <1>2 DEF CallInv, Requested
            <6> QED
              BY <5>1, <6>1, <6>2
          <5>3. DOMAIN work[c] = 1..1
            BY <1>1, <5>2, LenProperties DEF Typed
          <5> QED
            BY <1>3, <3>1, <3>4, <5>3
        <4> QED
          BY <4>1, <4>2
      <3> QED
        BY <1>3, <3>3, <3>5, <3>6
    <2> QED
      BY <1>7, <2>1, <2>2
  <1>12. CallInv(c)'
    BY <1>4, <1>5, <1>6, <1>8, <1>10, <1>11 DEF CallInv
  <1>13. ASSUME NEW d \in Calls, d # c PROVE CallInv(d)'
    BY <1>2, <1>13, Frame DEF IInv, HostStep
  <1> QED
    BY <1>2, <1>12, <1>13 DEF IInv

-----------------------------------------------------------------------------
(* The host's actions are such steps *)

\* What At says, with the typing and the invariant of the call.
LEMMA AtFacts ==
    ASSUME IInv, NEW c \in Calls, NEW i, NEW where, At(c, i, where),
           where \in Working \cup {"wait"}
    PROVE  /\ call[c].at = "run" /\ i \in DOMAIN work[c] /\ i \in Nat
           /\ work[c][i] \in HostWork /\ work[c][i].at = where
           /\ work[c][i].command \in Nat /\ <<i, work[c][i].command>> \in Nat \X Nat
           /\ HostOK(c, work[c][i]) /\ Len(work[c][i].codes) = work[c][i].command - 1
           /\ Typed /\ CallInv(c)
           /\ where # "wait" => Turn(c, i)
  <1>1. call[c].at = "run" /\ i \in DOMAIN work[c] /\ work[c][i].at = where
    BY DEF At
  <1>2. Typed /\ CallInv(c)
    BY DEF IInv
  <1>3. work[c] \in Seq(HostWork)
    BY <1>2 DEF Typed
  <1>4. work[c][i] \in HostWork /\ i \in Nat
    BY <1>1, <1>3, LenProperties
  <1>5. 1..MaxCommands \subseteq Nat
    BY ExecAssumption
  <1>6. work[c][i].command \in Nat
    BY <1>4, <1>5 DEF HostWork
  <1>7. HostOK(c, work[c][i])
    BY <1>1, <1>2 DEF CallInv, Progress
  <1>8. Len(work[c][i].codes) = work[c][i].command - 1
    BY <1>1, <1>7 DEF HostOK, Working
  <1>9. where # "wait" => Turn(c, i)
    BY <1>1, <1>2 DEF CallInv, InOrder, Turn
  <1> QED
    BY <1>1, <1>2, <1>4, <1>6, <1>7, <1>8, <1>9

\* The record of the host when its command is over.
LEMMA AfterCommandFacts ==
    ASSUME IInv, NEW c \in Calls, NEW i, NEW where \in Working, At(c, i, where), NEW code \in Codes
    PROVE  LET w == AfterCommand(c, work[c][i], code)
           IN /\ w \in HostWork /\ HostOK(c, w) /\ w.at \in {"sudo", "connect", "done"}
              /\ w.command >= work[c][i].command
  <1> DEFINE old == work[c][i]
             codes == Append(old.codes, code)
             w == AfterCommand(c, old, code)
             next == [at |-> FirstStep(Req(c)), command |-> old.command + 1, codes |-> codes]
             last == [old EXCEPT !.at = "done", !.codes = codes]
             goesOn == old.command < Req(c).commands /\ ~(Req(c).stop /\ code = "bad")
  <1>1. /\ old \in HostWork /\ old.command \in Nat /\ HostOK(c, old)
        /\ Len(old.codes) = old.command - 1 /\ call[c].at # "idle" /\ Typed /\ CallInv(c)
    <2>1. where \in Working \cup {"wait"}
      OBVIOUS
    <2>2. /\ old \in HostWork /\ old.command \in Nat /\ HostOK(c, old)
          /\ Len(old.codes) = old.command - 1 /\ call[c].at = "run" /\ Typed /\ CallInv(c)
      BY <2>1, AtFacts
    <2> QED
      BY <2>2
  <1>2. Req(c).commands \in 1..MaxCommands /\ Req(c).commands \in Nat /\ MaxCommands \in Nat
    BY <1>1, RequestFacts, ExecAssumption
  <1>3. old.command \in 1..MaxCommands /\ old.codes \in Seq(Codes) /\ old.command <= Req(c).commands
    BY <1>1 DEF HostWork, HostOK
  <1>4. /\ codes \in Seq(Codes) /\ Len(codes) = old.command
        /\ codes[old.command] = code
    <2>1. /\ codes \in Seq(Codes) /\ Len(codes) = Len(old.codes) + 1
          /\ codes[Len(old.codes) + 1] = code
      BY <1>3, AppendProperties
    <2>2. Len(old.codes) + 1 = old.command
      BY <1>1
    <2> QED
      BY <2>1, <2>2
  <1>5. code = "bad" => ResultFailed(codes)
    <2>1. old.command \in DOMAIN codes /\ codes[old.command] = code
      BY <1>3, <1>4, LenProperties
    <2> QED
      BY <2>1 DEF ResultFailed
  <1>6. w = IF goesOn THEN next ELSE last
    BY DEF AfterCommand
  <1>7. FirstStep(Req(c)) \in {"sudo", "connect"}
    BY DEF FirstStep
  <1> HIDE DEF codes, w
  <1>8. CASE goesOn
    <2>1. w = next /\ old.command + 1 \in 1..MaxCommands /\ old.command + 1 <= Req(c).commands
      BY <1>2, <1>3, <1>6, <1>8
    <2>2. w \in HostWork /\ w.at \in {"sudo", "connect"} /\ w.command = old.command + 1 /\ w.codes = codes
      BY <1>4, <1>7, <2>1 DEF HostWork, HostPlaces, Working
    <2>3. Len(w.codes) = w.command - 1
      BY <1>1, <1>4, <2>2
    <2>4. HostOK(c, w)
      BY <2>1, <2>2, <2>3 DEF HostOK
    <2> QED
      BY <1>1, <2>2, <2>4 DEF w
  <1>9. CASE ~goesOn
    <2>1. w = last
      BY <1>6, <1>9
    <2>2. w \in HostWork /\ w.at = "done" /\ w.command = old.command /\ w.codes = codes
      BY <1>1, <1>4, <2>1 DEF HostWork, HostPlaces
    <2>3. old.command = Req(c).commands \/ ResultFailed(codes)
      <3>1. CASE code = "bad"
        BY <1>5, <3>1
      <3>2. CASE code # "bad"
        BY <1>2, <1>3, <1>9, <3>2
      <3> QED
        BY <3>1, <3>2
    <2>4. HostOK(c, w)
      BY <1>3, <1>4, <2>2, <2>3 DEF HostOK
    <2> QED
      BY <1>1, <2>2, <2>4 DEF w
  <1> QED
    BY <1>8, <1>9

\* The same host at another place, with its command as it was.
LEMMA MovedFacts ==
    ASSUME IInv, NEW c \in Calls, NEW i, NEW where \in Working \cup {"wait"}, At(c, i, where),
           NEW to \in Working \cup {"raised"}
    PROVE  LET w == [work[c][i] EXCEPT !.at = to]
           IN /\ w \in HostWork /\ HostOK(c, w) /\ w.at = to
              /\ w.command = work[c][i].command /\ w.command >= work[c][i].command
  <1> DEFINE w == [work[c][i] EXCEPT !.at = to]
  <1>1. /\ work[c][i] \in HostWork /\ HostOK(c, work[c][i]) /\ work[c][i].command \in Nat
        /\ Len(work[c][i].codes) = work[c][i].command - 1
    BY AtFacts
  <1>2. w \in HostWork /\ w.at = to /\ w.command = work[c][i].command /\ w.codes = work[c][i].codes
    BY <1>1 DEF HostWork, HostPlaces
  <1> HIDE DEF w
  <1>3. to # "wait" /\ to # "done"
    BY DEF Working
  <1>4. HostOK(c, w)
    BY <1>1, <1>2, <1>3 DEF HostOK
  <1> QED
    BY <1>1, <1>2, <1>4 DEF w

\* A record is written to the audit file, or is not and that is noted.
LEMMA RecordEffect ==
    ASSUME IInv, NEW c \in Calls, NEW i, NEW where \in Working, At(c, i, where),
           NEW written \in BOOLEAN, Record(c, i, written)
    PROVE  /\ Grows(recorded, c) /\ Grows(unwritten, c)
           /\ <<i, work[c][i].command>> \in IF written THEN recorded'[c] ELSE unwritten'[c]
  <1>1. <<i, work[c][i].command>> \in Nat \X Nat /\ Typed
    BY AtFacts
  <1> DEFINE cmd == <<i, work[c][i].command>>
  <1>2. /\ recorded' = IF written THEN [recorded EXCEPT ![c] = @ \cup {cmd}] ELSE recorded
        /\ unwritten' = IF written THEN unwritten ELSE [unwritten EXCEPT ![c] = @ \cup {cmd}]
    BY DEF Record
  <1>3. cmd \in Nat \X Nat
    BY <1>1
  <1> HIDE DEF cmd
  <1>4. Grows(recorded, c) /\ Grows(unwritten, c) /\ cmd \in IF written THEN recorded'[c] ELSE unwritten'[c]
    BY <1>1, <1>2, <1>3 DEF Grows, Typed
  <1> QED
    BY <1>4 DEF cmd

\* What is left alone has lost nothing.
LEMMA UnchangedGrows ==
    ASSUME Typed, NEW c \in Calls
    PROVE  /\ UNCHANGED recorded => Grows(recorded, c)
           /\ UNCHANGED unwritten => Grows(unwritten, c)
           /\ UNCHANGED broken => Grows(broken, c)
  BY DEF Typed, Grows

\* A host that returns a code after its command was recorded, or before it
\* was sent, takes such a step.
LEMMA ReturnsSteps ==
    ASSUME IInv, NEW c \in Calls, NEW i, NEW where \in Working, At(c, i, where),
           NEW code \in Codes, Returns(c, i, code),
           Grows(recorded, c), Grows(unwritten, c), Grows(broken, c),
           UNCHANGED <<failClosed, used, started>>,
           where = "running" =>
             \/ <<i, work[c][i].command>> \in recorded'[c]
             \/ ~failClosed /\ <<i, work[c][i].command>> \in unwritten'[c]
    PROVE  IInv'
  <1> DEFINE w == AfterCommand(c, work[c][i], code)
  <1>0. where \in Working \cup {"wait"} /\ where # "wait"
    BY DEF Working
  <1>1. /\ call[c].at = "run" /\ i \in DOMAIN work[c] /\ work[c][i].at = where /\ Turn(c, i)
    BY <1>0, AtFacts
  <1>2. /\ w \in HostWork /\ HostOK(c, w) /\ w.at \in {"sudo", "connect", "done"}
        /\ w.command >= work[c][i].command
    BY AfterCommandFacts
  <1>3. work' = [work EXCEPT ![c] = [work[c] EXCEPT ![i] = w]] /\ call' = call
    BY DEF Returns
  <1> HIDE DEF w
  <1>4. HostStep(c, i, w)
    BY <1>1, <1>2, <1>3 DEF HostStep
  <1> QED
    BY <1>4, HostStepInv

\* So does one that raises.
LEMMA RaisesSteps ==
    ASSUME IInv, NEW c \in Calls, NEW i, NEW where \in Working, At(c, i, where), Raises(c, i),
           Grows(recorded, c), Grows(unwritten, c), Grows(broken, c),
           UNCHANGED <<failClosed, used, started>>,
           where = "running" => \/ <<i, work[c][i].command>> \in unwritten'[c]
                                \/ Privileged(c) /\ <<i, work[c][i].command>> \in broken'[c]
    PROVE  IInv'
  <1> DEFINE w == [work[c][i] EXCEPT !.at = "raised"]
  <1>0. where \in Working \cup {"wait"} /\ where # "wait"
    BY DEF Working
  <1>1. /\ call[c].at = "run" /\ i \in DOMAIN work[c] /\ work[c][i].at = where /\ Turn(c, i)
    BY <1>0, AtFacts
  <1>2. /\ w \in HostWork /\ HostOK(c, w) /\ w.at = "raised"
        /\ w.command = work[c][i].command /\ w.command >= work[c][i].command
    BY <1>0, MovedFacts
  <1>3. /\ work' = [work EXCEPT ![c] = [work[c] EXCEPT ![i] = w]]
        /\ call' = call \/ (~(Req(c).multi /\ ~Req(c).serialize) /\ End(c, "error"))
    BY DEF Raises
  <1> HIDE DEF w
  <1>4. HostStep(c, i, w)
    BY <1>0, <1>1, <1>2, <1>3 DEF HostStep
  <1> QED
    BY <1>4, HostStepInv

\* And one that only moves on, or sends its command.
LEMMA MovesSteps ==
    ASSUME IInv, NEW c \in Calls, NEW i, NEW where \in {"sudo", "connect", "wait"}, At(c, i, where),
           NEW to \in Working, Turn(c, i),
           work' = [work EXCEPT ![c] = [work[c] EXCEPT ![i] = [work[c][i] EXCEPT !.at = to]]],
           \/ UNCHANGED started
           \/ /\ to = "running"
              /\ started' = [started EXCEPT ![c] = @ \cup {<<i, work[c][i].command>>}],
           UNCHANGED <<failClosed, used, call, recorded, unwritten, broken>>
    PROVE  IInv'
  <1> DEFINE w == [work[c][i] EXCEPT !.at = to]
  <1>0. where \in Working \cup {"wait"} /\ where # "running" /\ to \in Working \cup {"raised"}
    BY DEF Working
  <1>1. /\ call[c].at = "run" /\ i \in DOMAIN work[c] /\ work[c][i].at = where /\ Typed
    BY <1>0, AtFacts
  <1>2. /\ w \in HostWork /\ HostOK(c, w) /\ w.at = to /\ w.at # "wait"
        /\ w.command = work[c][i].command /\ w.command >= work[c][i].command
    <2>1. w \in HostWork /\ HostOK(c, w) /\ w.at = to /\ w.command = work[c][i].command
          /\ w.command >= work[c][i].command
      BY <1>0, MovedFacts
    <2>2. to # "wait"
      BY DEF Working
    <2> QED
      BY <2>1, <2>2
  <1>3. Grows(recorded, c) /\ Grows(unwritten, c) /\ Grows(broken, c)
    BY <1>1, UnchangedGrows
  <1>4. work' = [work EXCEPT ![c] = [work[c] EXCEPT ![i] = w]]
    OBVIOUS
  <1> HIDE DEF w
  <1>5. HostStep(c, i, w)
    BY <1>0, <1>1, <1>2, <1>3, <1>4 DEF HostStep
  <1> QED
    BY <1>5, HostStepInv

\* FinishPrivileged, of a command that is running or of one that could not be
\* sent.
LEMMA FinishPrivilegedSteps ==
    ASSUME IInv, NEW c \in Calls, NEW i, NEW where \in {"connect", "running"}, At(c, i, where),
           NEW outcome \in Codes \cup {"timeout", "broken"}, NEW writes \in BOOLEAN \X BOOLEAN,
           FinishPrivileged(c, i, outcome, writes), Grows(broken, c),
           UNCHANGED <<failClosed, used, started>>,
           where = "running" /\ outcome = "broken"
             => Privileged(c) /\ <<i, work[c][i].command>> \in broken'[c]
    PROVE  IInv'
  <1>0. where \in Working /\ Typed
    BY DEF Working, IInv
  <1>1. CASE outcome = "broken"
    <2>1. Raises(c, i) /\ UNCHANGED <<recorded, unwritten>>
      BY <1>1 DEF FinishPrivileged
    <2>2. Grows(recorded, c) /\ Grows(unwritten, c)
      BY <1>0, <2>1, UnchangedGrows
    <2> QED
      BY <1>0, <1>1, <2>1, <2>2, RaisesSteps
  <1>2. CASE outcome # "broken"
    <2> DEFINE code == IF outcome \in Codes THEN outcome ELSE "bad"
    <2>1. /\ Record(c, i, writes[1]) /\ writes[1] \in BOOLEAN
          /\ IF writes[1] \/ ~failClosed THEN Returns(c, i, code) ELSE Raises(c, i)
      BY <1>2 DEF FinishPrivileged
    <2>2. code \in Codes
      BY DEF Codes
    <2> HIDE DEF code
    <2>3. /\ Grows(recorded, c) /\ Grows(unwritten, c)
          /\ <<i, work[c][i].command>> \in IF writes[1] THEN recorded'[c] ELSE unwritten'[c]
      BY <1>0, <2>1, RecordEffect
    <2>4. CASE writes[1] \/ ~failClosed
      BY <1>0, <2>1, <2>2, <2>3, <2>4, ReturnsSteps
    <2>5. CASE ~(writes[1] \/ ~failClosed)
      BY <1>0, <2>1, <2>3, <2>5, RaisesSteps
    <2> QED
      BY <2>4, <2>5
  <1> QED
    BY <1>1, <1>2

\* A command without sudo has ended.
LEMMA FinishPlainSteps ==
    ASSUME IInv, NEW c \in Calls, NEW i, At(c, i, "running"),
           NEW outcome \in Codes \cup {"timeout", "broken"}, NEW writes \in BOOLEAN \X BOOLEAN,
           FinishPlain(c, i, outcome, writes), Grows(broken, c),
           UNCHANGED <<failClosed, used, started>>
    PROVE  IInv'
  <1> DEFINE code == IF outcome \in Codes THEN outcome ELSE "bad"
             accepted == writes[1] \/ ~failClosed
  <1>0. "running" \in Working /\ code \in Codes /\ "bad" \in Codes
        /\ writes[1] \in BOOLEAN /\ writes[2] \in BOOLEAN
    BY DEF Working, Codes
  <1>1. CASE outcome \in Codes /\ ~accepted
    <2>1. Record(c, i, writes[2]) /\ IF writes[2] THEN Returns(c, i, "bad") ELSE Raises(c, i)
      BY <1>1 DEF FinishPlain
    <2>2. /\ Grows(recorded, c) /\ Grows(unwritten, c)
          /\ <<i, work[c][i].command>> \in IF writes[2] THEN recorded'[c] ELSE unwritten'[c]
      BY <1>0, <2>1, RecordEffect
    <2>3. CASE writes[2]
      BY <1>0, <2>1, <2>2, <2>3, ReturnsSteps
    <2>4. CASE ~writes[2]
      BY <1>0, <2>1, <2>2, <2>4, RaisesSteps
    <2> QED
      BY <2>3, <2>4
  <1>2. CASE ~(outcome \in Codes /\ ~accepted)
    <2>1. Record(c, i, writes[1]) /\ IF accepted THEN Returns(c, i, code) ELSE Raises(c, i)
      BY <1>2 DEF FinishPlain
    <2>2. /\ Grows(recorded, c) /\ Grows(unwritten, c)
          /\ <<i, work[c][i].command>> \in IF writes[1] THEN recorded'[c] ELSE unwritten'[c]
      BY <1>0, <2>1, RecordEffect
    <2> HIDE DEF code
    <2>3. CASE accepted
      BY <1>0, <2>1, <2>2, <2>3, ReturnsSteps
    <2>4. CASE ~accepted
      BY <1>0, <2>1, <2>2, <2>4, RaisesSteps
    <2> QED
      BY <2>3, <2>4
  <1> QED
    BY <1>1, <1>2

\* The steps of one host of a call keep the invariant.
LEMMA HostActions ==
    ASSUME IInv, NEW c \in Calls, NEW i \in DOMAIN work[c],
           \/ \E found \in BOOLEAN : ResolveSudo(c, i, found)
           \/ \E writes \in BOOLEAN \X BOOLEAN :
                \/ \E result \in {"up", "refused", "timeout"} : Connect(c, i, result, writes)
                \/ \E starts \in BOOLEAN : StartLocal(c, i, starts, writes)
                \/ \E outcome \in Codes \cup {"timeout", "broken"} : Finish(c, i, outcome, writes)
           \/ NextHost(c, i)
    PROVE  IInv'
  <1>0. /\ Typed /\ "sudo" \in Working /\ "connect" \in Working /\ "running" \in Working
        /\ "bad" \in Codes /\ Working \subseteq Working \cup {"wait"}
    BY DEF IInv, Working, Codes
  \* A host that is at work is in its turn, and a command may be sent.
  <1>1. \A where \in Working : At(c, i, where) => Turn(c, i)
    BY <1>0, AtFacts DEF Working
  <1>2. ASSUME At(c, i, "connect"), Starts(c, i), UNCHANGED <<failClosed, used, broken>>
        PROVE  IInv'
    BY <1>0, <1>1, <1>2, MovesSteps DEF Starts
  <1>3. ASSUME NEW found \in BOOLEAN, ResolveSudo(c, i, found) PROVE IInv'
    <2>1. At(c, i, "sudo") /\ UNCHANGED <<failClosed, used, logs>> /\ Turn(c, i)
      BY <1>0, <1>1, <1>3 DEF ResolveSudo, config
    <2>2. Grows(recorded, c) /\ Grows(unwritten, c) /\ Grows(broken, c)
      BY <1>0, <2>1, UnchangedGrows DEF logs
    <2>3. CASE found
      <3>1. /\ work' = [work EXCEPT ![c] = [work[c] EXCEPT ![i] = [work[c][i] EXCEPT !.at = "connect"]]]
            /\ UNCHANGED call
        BY <1>3, <2>3 DEF ResolveSudo
      <3> QED
        BY <1>0, <2>1, <3>1, MovesSteps DEF logs
    <2>4. CASE ~found
      <3>1. Returns(c, i, "bad") \/ Raises(c, i)
        BY <1>3, <2>4 DEF ResolveSudo
      <3> QED
        BY <1>0, <2>1, <2>2, <3>1, ReturnsSteps, RaisesSteps DEF logs
    <2> QED
      BY <2>3, <2>4
  <1>4. ASSUME NEW writes \in BOOLEAN \X BOOLEAN, NEW result \in {"up", "refused", "timeout"},
               Connect(c, i, result, writes)
        PROVE  IInv'
    <2> DEFINE outcome == IF result = "timeout" /\ Req(c).mode \in {"sudo", "both"}
                          THEN "timeout" ELSE "broken"
    <2>1. At(c, i, "connect") /\ UNCHANGED <<failClosed, used, broken>> /\ Turn(c, i)
      BY <1>0, <1>1, <1>4 DEF Connect, config
    <2>2. CASE Starts(c, i)
      BY <1>2, <2>1, <2>2
    <2>3. CASE FinishPrivileged(c, i, outcome, writes) /\ UNCHANGED started
      <3>1. outcome \in Codes \cup {"timeout", "broken"} /\ Grows(broken, c)
        BY <1>0, <2>1, UnchangedGrows
      <3> HIDE DEF outcome
      <3> QED
        BY <2>1, <2>3, <3>1, FinishPrivilegedSteps
    <2> QED
      BY <1>4, <2>2, <2>3 DEF Connect
  <1>5. ASSUME NEW writes \in BOOLEAN \X BOOLEAN, NEW starts \in BOOLEAN,
               StartLocal(c, i, starts, writes)
        PROVE  IInv'
    <2>1. At(c, i, "connect") /\ UNCHANGED <<failClosed, used, broken>>
      BY <1>5 DEF StartLocal, config
    <2>2. CASE Starts(c, i)
      BY <1>2, <2>1, <2>2
    <2>3. CASE FinishPrivileged(c, i, "bad", writes) /\ UNCHANGED started
      <3>1. "bad" \in Codes \cup {"timeout", "broken"} /\ Grows(broken, c)
        BY <1>0, <2>1, UnchangedGrows
      <3> QED
        BY <2>1, <2>3, <3>1, FinishPrivilegedSteps
    <2> QED
      BY <1>5, <2>2, <2>3 DEF StartLocal
  <1>6. ASSUME NEW writes \in BOOLEAN \X BOOLEAN, NEW outcome \in Codes \cup {"timeout", "broken"},
               Finish(c, i, outcome, writes)
        PROVE  IInv'
    <2> DEFINE cmd == <<i, work[c][i].command>>
    <2>1. /\ At(c, i, "running") /\ UNCHANGED <<failClosed, used, started>>
          /\ broken' = IF outcome = "broken" THEN [broken EXCEPT ![c] = @ \cup {cmd}] ELSE broken
      BY <1>6 DEF Finish, config
    <2>2. cmd \in Nat \X Nat
      BY <1>0, <2>1, AtFacts
    <2>3. Grows(broken, c) /\ (outcome = "broken" => cmd \in broken'[c])
      <3> HIDE DEF cmd
      <3> QED
        BY <1>0, <2>1, <2>2 DEF Typed, Grows
    <2>4. CASE FinishPlain(c, i, outcome, writes)
      BY <2>1, <2>3, <2>4, FinishPlainSteps
    <2>5. CASE FinishPrivileged(c, i, outcome, writes) /\ (outcome # "broken" \/ Privileged(c))
      BY <2>1, <2>3, <2>5, FinishPrivilegedSteps
    <2> QED
      BY <1>6, <2>4, <2>5 DEF Finish, FinishLocal
  <1>7. CASE NextHost(c, i)
    <2>1. /\ Rolling(c) /\ i > 1 /\ At(c, i, "wait") /\ work[c][i - 1].at = "done"
          /\ ~(Req(c).stop /\ ResultFailed(work[c][i - 1].codes))
          /\ work' = [work EXCEPT ![c] = [work[c] EXCEPT ![i] =
                        [work[c][i] EXCEPT !.at = FirstStep(Req(c))]]]
          /\ UNCHANGED <<failClosed, used, call, started, recorded, unwritten, broken>>
      BY <1>7 DEF NextHost, config, logs
    <2>2. FirstStep(Req(c)) \in Working
      BY DEF FirstStep, Working
    <2>3. CallInv(c) /\ DOMAIN work[c] = 1..Len(work[c]) /\ Len(work[c]) \in Nat
      BY <1>0, LenProperties DEF IInv, Typed
    <2>4. i - 1 \in DOMAIN work[c] /\ \A j \in DOMAIN work[c] : j < i => j = i - 1 \/ j < i - 1
      BY <2>1, <2>3
    <2>5. Turn(c, i)
      BY <2>1, <2>3, <2>4 DEF Turn, CallInv, InOrder
    <2> QED
      BY <2>1, <2>2, <2>5, MovesSteps
  <1> QED
    BY <1>3, <1>4, <1>5, <1>6, <1>7

-----------------------------------------------------------------------------
(* The rate limit *)

\* A set of natural numbers has a least element ...
LEMMA Least ==
    ASSUME NEW T \in SUBSET Nat, T # {}
    PROVE  \E n \in T : \A m \in T : n <= m
  <1> DEFINE R == OpToRel(<, Nat)
  <1>1. PICK n \in T : \A m \in T : <<m, n>> \notin R
    <2> HIDE DEF R
    <2>1. IsWellFoundedOn(R, Nat)
      BY NatLessThanWellFounded DEF R
    <2> QED
      BY <2>1, WFMin
  <1>2. \A m \in T : ~(m < n)
    BY <1>1 DEF OpToRel
  <1> QED
    BY <1>2

\* ... and, if it is bounded, a greatest.
LEMMA Greatest ==
    ASSUME NEW b \in Nat, NEW T \in SUBSET (0..b), T # {}
    PROVE  \E n \in T : \A m \in T : m <= n
  <1> DEFINE U == {b - k : k \in T}
  <1>1. U \in SUBSET Nat /\ U # {}
    <2>1. \A k \in T : b - k \in Nat
      OBVIOUS
    <2> QED
      BY <2>1
  <1>2. PICK u \in U : \A v \in U : u <= v
    <2> HIDE DEF U
    <2> QED
      BY <1>1, Least
  <1>3. PICK n \in T : u = b - n
    BY <1>2
  <1>4. \A m \in T : b - n <= b - m
    BY <1>2, <1>3
  <1> QED
    BY <1>4

\* check_rate_limit commits every host, or the hosts before the first one
\* that is over its limit.
LEMMA CommittedFacts ==
    ASSUME NEW hosts \in Seq(Hosts)
    PROVE  /\ Committed(hosts) \in 0..Len(hosts)
           /\ \A i \in 1..Committed(hosts) : ~Over(hosts, i)
  <1> DEFINE T == {n \in 0..Len(hosts) : \A i \in 1..n : ~Over(hosts, i)}
             P(n) == /\ \A i \in 1..n : ~Over(hosts, i)
                     /\ n < Len(hosts) => Over(hosts, n + 1)
  <1>0. Len(hosts) \in Nat
    BY LenProperties
  <1>1. 0 \in T
    BY <1>0
  <1>2. PICK n \in T : \A m \in T : m <= n
    <2>1. T \in SUBSET (0..Len(hosts)) /\ T # {}
      BY <1>1
    <2> HIDE DEF T
    <2> QED
      BY <1>0, <2>1, Greatest
  <1>3. n < Len(hosts) => Over(hosts, n + 1)
    <2> SUFFICES ASSUME n < Len(hosts), ~Over(hosts, n + 1) PROVE n + 1 \in T
      BY <1>0, <1>2
    <2>1. \A i \in 1..(n + 1) : i \in 1..n \/ i = n + 1
      BY <1>0
    <2> QED
      BY <1>0, <2>1
  <1>4. \E m \in 0..Len(hosts) : P(m)
    BY <1>3
  <1>5. Committed(hosts) = CHOOSE m \in 0..Len(hosts) : P(m)
    BY DEF Committed
  <1> QED
    BY <1>4, <1>5

\* The calls it counts never take a host over the limit.
LEMMA SpentBound ==
    ASSUME Typed, NEW hosts \in Seq(Hosts), NEW n \in 0..Len(hosts), NEW h \in Hosts,
           \A i \in 1..n : ~Over(hosts, i)
    PROVE  used[h] + Spent(hosts, n, h) \in 0..Limit
  <1> DEFINE T(m) == {i \in 1..m : hosts[i] = h}
  <1>0. Len(hosts) \in Nat /\ n \in Nat /\ n <= Len(hosts) /\ Limit \in Nat /\ used[h] \in 0..Limit
    BY LenProperties, ExecAssumption DEF Typed
  <1>1. \A m \in Nat : IsFiniteSet(T(m)) /\ Cardinality(T(m)) \in Nat
    <2> TAKE m \in Nat
    <2>1. IsFiniteSet(1..m) /\ T(m) \in SUBSET (1..m)
      BY FS_Interval
    <2> HIDE DEF T
    <2> QED
      BY <2>1, FS_Subset, FS_CardinalityType
  <1>2. \A m : Spent(hosts, m, h) = Cardinality(T(m))
    BY DEF Spent
  <1>3. CASE T(n) = {}
    BY <1>0, <1>2, <1>3, FS_EmptySet
  <1>4. CASE T(n) # {}
    <2>1. PICK m \in T(n) : \A i \in T(n) : i <= m
      <3>1. T(n) \in SUBSET (0..n)
        BY <1>0
      <3> HIDE DEF T
      <3> QED
        BY <1>0, <1>4, <3>1, Greatest
    <2>2. m \in 1..n /\ m \in Nat /\ m - 1 \in Nat /\ hosts[m] = h
      BY <1>0, <2>1
    <2>3. T(n) = T(m - 1) \cup {m} /\ m \notin T(m - 1)
      BY <1>0, <2>1, <2>2
    <2>4. Cardinality(T(n)) = Cardinality(T(m - 1)) + 1
      <3>1. IsFiniteSet(T(m - 1))
        BY <1>1, <2>2
      <3> HIDE DEF T
      <3> QED
        BY <2>3, <3>1, FS_AddElement
    <2>5. ~(used[h] + Cardinality(T(m - 1)) >= Limit)
      <3>1. ~(used[hosts[m]] + Spent(hosts, m - 1, hosts[m]) >= Limit)
        BY <2>2 DEF Over
      <3> QED
        BY <1>2, <2>2, <3>1
    <2>6. Cardinality(T(m - 1)) \in Nat
      BY <1>1, <2>2
    <2> HIDE DEF T
    <2> QED
      BY <1>0, <1>2, <2>4, <2>5, <2>6
  <1> QED
    BY <1>3, <1>4

-----------------------------------------------------------------------------
(* The gate, and the end of a call *)

\* The call stays where it is, or none of its hosts is at a command, or it is
\* cancelled.
LeavesNothing(c) ==
    \/ call'[c].at = call[c].at /\ call'[c].answer = call[c].answer
    \/ call'[c].answer = "cancelled"
    \/ call[c].at # "ended" /\ \A i \in DOMAIN work[c] : work[c][i].at # "running"

\* A step that moves a call and leaves the hosts and the logs alone.
LEMMA CallStep ==
    ASSUME IInv, NEW c \in Calls, Typed', UNCHANGED <<failClosed, logs, work>>,
           \A d \in Calls \ {c} : call'[d] = call[d],
           Requested(c)', call'[c].req = call[c].req \/ work[c] = <<>>,
           LeavesNothing(c)
    PROVE  IInv'
  <1>1. Typed /\ CallInv(c) /\ work'[c] = work[c] /\ started'[c] = started[c]
        /\ recorded'[c] = recorded[c] /\ unwritten'[c] = unwritten[c] /\ broken'[c] = broken[c]
    BY DEF IInv, logs
  <1>2. ASSUME NEW d \in Calls, d # c PROVE CallInv(d)'
    BY <1>2, Frame DEF IInv, SameCall, logs
  <1>3. CASE work[c] = <<>>
    <2>1. DOMAIN work[c] = {}
      BY <1>3
    <2>2. started[c] = {}
      BY <1>1, <2>1 DEF CallInv, StartedInOrder
    <2> QED
      BY <1>1, <1>2, <2>1, <2>2
        DEF IInv, CallInv, Progress, InOrder, StartedInOrder, UnrecordedIsLast, Excused
  <1>4. CASE call'[c].req = call[c].req
    <2>0. Req(c)' = Req(c)
      BY <1>4 DEF Req
    <2>1. Progress(c)' /\ InOrder(c)'
      BY <1>1, <2>0 DEF CallInv, Progress, HostOK, InOrder, Rolling
    <2>2. StartedInOrder(c)' /\ UnrecordedIsLast(c)'
      BY <1>1 DEF CallInv, StartedInOrder, UnrecordedIsLast
    <2>3. Excused(c)'
      <3> SUFFICES ASSUME NEW p \in started[c] \ recorded[c], p \notin unwritten[c],
                          ~(Privileged(c) /\ p \in broken[c])
                   PROVE  \/ call'[c].at = "run" /\ work[c][p[1]].at = "running"
                             /\ work[c][p[1]].command = p[2]
                          \/ call'[c].answer = "cancelled"
        BY <1>1, <2>0 DEF Excused, Privileged
      <3>1. p[1] \in DOMAIN work[c]
        BY <1>1 DEF CallInv, StartedInOrder
      <3>2. \/ call[c].at = "run" /\ work[c][p[1]].at = "running" /\ work[c][p[1]].command = p[2]
            \/ call[c].answer = "cancelled"
        BY <1>1 DEF CallInv, Excused
      <3>3. call[c].answer = "cancelled" => call[c].at = "ended"
        BY <1>1 DEF CallInv, Requested
      <3> QED
        BY <3>1, <3>2, <3>3 DEF LeavesNothing
    <2> QED
      BY <1>1, <1>2, <2>1, <2>2, <2>3 DEF IInv, CallInv
  <1> QED
    BY <1>3, <1>4

\* The call goes to its hosts.
LEMMA LaunchStep ==
    ASSUME IInv, NEW c \in Calls, call[c].at \in {"gate", "secrets"},
           call' = [call EXCEPT ![c].at = "run"],
           work' = [work EXCEPT ![c] = Launched(Req(c))],
           used' \in [Hosts -> 0..Limit], UNCHANGED <<failClosed, logs>>
    PROVE  IInv'
  <1> DEFINE r == Req(c)
             first == [Waiting EXCEPT !.at = FirstStep(r)]
  <1>1. Typed /\ CallInv(c) /\ call[c].at # "idle" /\ work[c] = <<>>
    BY DEF IInv, CallInv, Requested
  <1>2. /\ r \in Requests[c] /\ Len(r.hosts) \in Nat \ {0} /\ r.commands \in 1..MaxCommands
        /\ r.multi \in BOOLEAN /\ r.serialize \in BOOLEAN /\ r.stop \in BOOLEAN
    BY <1>1, RequestFacts
  <1>3. MaxCommands \in Nat \ {0} /\ 1 \in 1..MaxCommands /\ 1 <= r.commands
    BY <1>2, ExecAssumption
  <1>4. FirstStep(r) \in {"sudo", "connect"}
    BY DEF FirstStep
  <1>5. Waiting.codes = <<>> /\ <<>> \in Seq(Codes) /\ Len(<<>>) = 0
    BY EmptySeq DEF Waiting
  <1>6. /\ Waiting \in HostWork /\ first \in HostWork /\ first.codes = <<>>
        /\ first.at = FirstStep(r) /\ first.command = 1
        /\ Waiting.at = "wait" /\ Waiting.command = 1
    BY <1>3, <1>4, <1>5 DEF HostWork, HostPlaces, Working, Waiting
  <1>7. HostOK(c, Waiting) /\ HostOK(c, first)
    BY <1>3, <1>4, <1>5, <1>6 DEF HostOK
  <1>8. /\ work'[c] = [i \in 1..Len(r.hosts) |->
                         IF i = 1 \/ ~r.multi \/ ~r.serialize THEN first ELSE Waiting]
        /\ work' = [work EXCEPT ![c] = work'[c]]
    BY <1>1 DEF Typed, Launched
  <1> HIDE DEF first
  <1>9. /\ work'[c] \in Seq(HostWork) /\ DOMAIN work'[c] = 1..Len(r.hosts) /\ Len(work'[c]) = Len(r.hosts)
        /\ \A i \in 1..Len(r.hosts) :
             work'[c][i] = IF i = 1 \/ ~r.multi \/ ~r.serialize THEN first ELSE Waiting
    <2>1. work'[c] \in [1..Len(r.hosts) -> HostWork]
      BY <1>6, <1>8
    <2>2. work'[c] \in Seq(HostWork)
      <3>1. Len(r.hosts) \in Nat
        BY <1>2
      <3> HIDE DEF r
      <3> QED
        BY <2>1, <3>1, SeqDef
    <2>3. DOMAIN work'[c] = 1..Len(r.hosts) /\ DOMAIN work'[c] = 1..Len(work'[c]) /\ Len(work'[c]) \in Nat
      BY <2>1, <2>2, LenProperties
    <2>4. Len(work'[c]) = Len(r.hosts)
      BY <1>2, <2>3
    <2> QED
      BY <1>8, <2>2, <2>3, <2>4
  <1>10. /\ call' \in [Calls -> CallRecord] /\ \A d \in Calls \ {c} : call'[d] = call[d]
         /\ Req(c)' = r /\ call'[c].checked = call[c].checked
         /\ call'[c].at = "run" /\ call'[c].answer = call[c].answer
    <2> DEFINE new == [call[c] EXCEPT !.at = "run"]
    <2>1. new \in CallRecord /\ new.at = "run" /\ new.req = call[c].req
          /\ new.checked = call[c].checked /\ new.answer = call[c].answer
      BY <1>1 DEF Typed, CallRecord, CallPlaces
    <2>2. call' = [call EXCEPT ![c] = new]
      OBVIOUS
    <2> HIDE DEF new
    <2> QED
      BY <1>1, <2>1, <2>2 DEF Typed, Req
  <1>11. /\ Typed' /\ \A d \in Calls \ {c} : SameCall(d)
    BY <1>1, <1>8, <1>9, <1>10 DEF Typed, SameCall, logs
  <1>12. started'[c] = {}
    BY <1>1 DEF CallInv, StartedInOrder, logs
  <1>13. Requested(c)'
    BY <1>1, <1>2, <1>9, <1>10 DEF CallInv, Requested
  <1>14. Progress(c)'
    <2>1. \A v : HostOK(c, v)' = HostOK(c, v)
      BY <1>10 DEF HostOK
    <2> QED
      BY <1>7, <1>9, <2>1 DEF Progress
  <1>15. InOrder(c)'
    <2> SUFFICES ASSUME r.multi, r.serialize
                 PROVE  \A i, j \in 1..Len(r.hosts) : j < i => work'[c][i].at = "wait"
      BY <1>9, <1>10 DEF InOrder, Rolling
    <2> QED
      BY <1>2, <1>6, <1>9
  <1>16. CallInv(c)'
    BY <1>12, <1>13, <1>14, <1>15 DEF CallInv, StartedInOrder, UnrecordedIsLast, Excused
  <1>17. ASSUME NEW d \in Calls, d # c PROVE CallInv(d)'
    BY <1>11, <1>17, Frame DEF IInv
  <1> QED
    BY <1>11, <1>16, <1>17 DEF IInv

\* The steps of a call as a whole keep the invariant.
LEMMA CallActions ==
    ASSUME IInv, NEW c \in Calls,
           \/ \E r \in Requests[c] : Begin(c, r)
           \/ \E v \in {"allowed", "blocked", "unavailable"} : CheckCommand(c, v)
           \/ CheckHosts(c) \/ Answer(c) \/ Cancel(c)
           \/ \E found \in BOOLEAN : ResolveSecrets(c, found)
    PROVE  IInv'
  <1>0. Typed /\ CallInv(c) /\ call[c] \in CallRecord
    BY DEF IInv, Typed
  \* A call that ends, and why its hosts are not at work.
  <1>1. ASSUME NEW answer \in Answers, End(c, answer), UNCHANGED <<failClosed, work, logs>>,
               used' \in [Hosts -> 0..Limit], call[c].at \in {"gate", "secrets", "run"},
               answer = "cancelled" \/ \A i \in DOMAIN work[c] : work[c][i].at # "running"
        PROVE  IInv'
    <2>1. /\ call' \in [Calls -> CallRecord]
          /\ \A d \in Calls \ {c} : call'[d] = call[d]
          /\ Req(c)' = Req(c) /\ call'[c].checked = call[c].checked
          /\ call'[c].at = "ended" /\ call'[c].answer = answer
      BY <1>0, <1>1, EndEffect
    <2>2. Typed'
      BY <1>0, <1>1, <2>1 DEF Typed, logs
    <2>3. Requested(c)'
      BY <1>0, <1>1, <2>1 DEF CallInv, Requested
    <2>4. UNCHANGED <<failClosed, logs, work>>
      BY <1>1
    <2>5. LeavesNothing(c)
      BY <1>1, <2>1 DEF LeavesNothing
    <2>6. call'[c].req = call[c].req
      BY <2>1 DEF Req
    <2> QED
      BY <2>1, <2>2, <2>3, <2>4, <2>5, <2>6, CallStep
  <1>2. call[c].at \in {"gate", "secrets"} => \A i \in DOMAIN work[c] : work[c][i].at # "running"
    <2>1. call[c].at \in {"gate", "secrets"} => work[c] = <<>>
      BY <1>0 DEF CallInv, Requested
    <2> QED
      BY <2>1
  <1>3. ASSUME NEW r \in Requests[c], Begin(c, r) PROVE IInv'
    <2> DEFINE new == [Idle EXCEPT !.at = "gate", !.req = r]
    <2>1. /\ call[c].at = "idle" /\ call' = [call EXCEPT ![c] = new]
          /\ UNCHANGED <<failClosed, used, work, logs>>
      BY <1>3 DEF Begin, config
    <2>2. /\ new \in CallRecord /\ new.at = "gate" /\ new.req = r /\ new.checked = 0
          /\ new.answer = "none"
      BY DEF Idle, CallRecord, CallPlaces, Answers, AllRequests
    <2> HIDE DEF new
    <2>3. /\ call' \in [Calls -> CallRecord] /\ call'[c] = new
          /\ \A d \in Calls \ {c} : call'[d] = call[d]
      BY <1>0, <2>1, <2>2 DEF Typed
    <2>4. Typed' /\ work[c] = <<>> /\ work'[c] = <<>>
      BY <1>0, <2>1, <2>3 DEF Typed, logs, CallInv, Requested
    <2>5. r.commands \in Nat
      BY ExecAssumption
    <2>6. Requested(c)'
      BY <2>2, <2>3, <2>4, <2>5 DEF Requested, Req
    <2>7. LeavesNothing(c) /\ UNCHANGED <<failClosed, logs, work>>
      BY <2>1, <2>4 DEF LeavesNothing
    <2> QED
      BY <2>3, <2>4, <2>6, <2>7, CallStep
  <1>4. ASSUME NEW v \in {"allowed", "blocked", "unavailable"}, CheckCommand(c, v) PROVE IInv'
    <2>1. /\ call[c].at = "gate" /\ call[c].checked < Req(c).commands
          /\ UNCHANGED <<failClosed, used, work, logs>>
      BY <1>4 DEF CheckCommand, config
    <2>2. CASE End(c, "blocked")
      BY <1>0, <1>1, <1>2, <2>1, <2>2 DEF Answers, Typed
    <2>3. CASE call' = [call EXCEPT ![c].checked = @ + 1]
      <3> DEFINE new == [call[c] EXCEPT !.checked = call[c].checked + 1]
      <3>1. /\ new \in CallRecord /\ new.at = call[c].at /\ new.req = call[c].req
            /\ new.checked = call[c].checked + 1 /\ new.answer = call[c].answer
        BY <1>0 DEF CallRecord
      <3>2. call' = [call EXCEPT ![c] = new]
        BY <2>3
      <3> HIDE DEF new
      <3>3. /\ call' \in [Calls -> CallRecord] /\ call'[c] = new
            /\ \A d \in Calls \ {c} : call'[d] = call[d]
        BY <1>0, <3>1, <3>2 DEF Typed
      <3>4. Typed'
        BY <1>0, <2>1, <3>3 DEF Typed, logs
      <3>5. call[c].checked \in Nat /\ Req(c).commands \in Nat
        BY <1>0, <2>1, RequestFacts DEF CallRecord
      <3>6. call[c].checked + 1 <= Req(c).commands
        BY <2>1, <3>5
      <3>7. Requested(c)'
        BY <1>0, <2>1, <3>1, <3>3, <3>6 DEF CallInv, Requested, Req
      <3>8. LeavesNothing(c) /\ call'[c].req = call[c].req /\ UNCHANGED <<failClosed, logs, work>>
        BY <2>1, <3>1, <3>3 DEF LeavesNothing
      <3> QED
        BY <3>3, <3>4, <3>7, <3>8, CallStep
    <2> QED
      BY <1>4, <2>2, <2>3 DEF CheckCommand
  <1>5. ASSUME CheckHosts(c) PROVE IInv'
    <2> DEFINE hosts == Req(c).hosts
               n == Committed(hosts)
    <2>1. call[c].at = "gate" /\ UNCHANGED <<failClosed, logs>>
      BY <1>5 DEF CheckHosts, config
    <2>2. used' \in [Hosts -> 0..Limit]
      <3>1. hosts \in Seq(Hosts)
        BY <1>0, <2>1, RequestFacts
      <3>2. n \in 0..Len(hosts) /\ \A i \in 1..n : ~Over(hosts, i)
        BY <3>1, CommittedFacts
      <3>3. \A h \in Hosts : used[h] + Spent(hosts, n, h) \in 0..Limit
        <4> HIDE DEF n, hosts
        <4> QED
          BY <1>0, <3>1, <3>2, SpentBound
      <3>4. used' = used \/ used' = [h \in Hosts |-> used[h] + Spent(hosts, n, h)]
        BY <1>5 DEF CheckHosts
      <3> HIDE DEF n, hosts
      <3> QED
        BY <1>0, <3>3, <3>4 DEF Typed
    <2>3. CASE End(c, "blocked") /\ UNCHANGED work
      BY <1>1, <1>2, <2>1, <2>2, <2>3 DEF Answers
    <2>4. CASE call' = [call EXCEPT ![c].at = "secrets"] /\ UNCHANGED work
      <3> DEFINE new == [call[c] EXCEPT !.at = "secrets"]
      <3>1. /\ new \in CallRecord /\ new.at = "secrets" /\ new.req = call[c].req
            /\ new.checked = call[c].checked /\ new.answer = call[c].answer
        BY <1>0 DEF CallRecord, CallPlaces
      <3>2. call' = [call EXCEPT ![c] = new]
        BY <2>4
      <3> HIDE DEF new
      <3>3. /\ call' \in [Calls -> CallRecord] /\ call'[c] = new
            /\ \A d \in Calls \ {c} : call'[d] = call[d]
        BY <1>0, <3>1, <3>2 DEF Typed
      <3>4. Typed'
        BY <1>0, <2>1, <2>2, <2>4, <3>3 DEF Typed, logs
      <3>5. Requested(c)'
        BY <1>0, <2>1, <2>4, <3>1, <3>3 DEF CallInv, Requested, Req
      <3>6. LeavesNothing(c) /\ call'[c].req = call[c].req /\ UNCHANGED <<failClosed, logs, work>>
        BY <1>2, <2>1, <2>4, <3>1, <3>3 DEF LeavesNothing
      <3> QED
        BY <3>3, <3>4, <3>5, <3>6, CallStep
    <2>5. CASE call' = [call EXCEPT ![c].at = "run"] /\ work' = [work EXCEPT ![c] = Launched(Req(c))]
      BY <2>1, <2>2, <2>5, LaunchStep
    <2> QED
      BY <1>5, <2>3, <2>4, <2>5 DEF CheckHosts
  <1>6. ASSUME NEW found \in BOOLEAN, ResolveSecrets(c, found) PROVE IInv'
    <2>1. /\ call[c].at = "secrets" /\ UNCHANGED <<failClosed, used, logs>>
          /\ used' \in [Hosts -> 0..Limit]
      BY <1>0, <1>6 DEF ResolveSecrets, config, Typed
    <2>2. CASE End(c, "error") /\ UNCHANGED work
      BY <1>1, <1>2, <2>1, <2>2 DEF Answers
    <2>3. CASE call' = [call EXCEPT ![c].at = "run"] /\ work' = [work EXCEPT ![c] = Launched(Req(c))]
      BY <2>1, <2>3, LaunchStep
    <2> QED
      BY <1>6, <2>2, <2>3 DEF ResolveSecrets
  <1>7. ASSUME Answer(c) PROVE IInv'
    <2>1. /\ call[c].at = "run" /\ End(c, "ok") /\ UNCHANGED <<failClosed, used, work, logs>>
          /\ \A i \in DOMAIN work[c] : work[c][i].at \in {"done", "raised", "wait"}
      BY <1>7 DEF Answer, config
    <2> QED
      BY <1>0, <1>1, <2>1 DEF Answers, Typed
  <1>8. ASSUME Cancel(c) PROVE IInv'
    BY <1>0, <1>1, <1>8 DEF Cancel, config, Answers, Typed
  <1> QED
    BY <1>3, <1>4, <1>5, <1>6, <1>7, <1>8

-----------------------------------------------------------------------------
(* The theorems *)

\* The invariant holds at the start.
LEMMA InitInv == Init => IInv
  <1> SUFFICES ASSUME Init PROVE IInv
    OBVIOUS
  <1>1. Typed
    <2>1. Idle \in CallRecord
      BY DEF Idle, CallRecord, CallPlaces, Answers, AllRequests
    <2>2. <<>> \in Seq(HostWork) /\ 0 \in 0..Limit
      BY EmptySeq, ExecAssumption
    <2> QED
      BY <2>1, <2>2 DEF Init, Typed
  <1>2. ASSUME NEW c \in Calls PROVE CallInv(c)
    <2>1. call[c] = Idle /\ work[c] = <<>> /\ started[c] = {} /\ DOMAIN work[c] = {}
      BY DEF Init
    <2>2. Requested(c)
      BY <2>1 DEF Requested, Req, Idle, NoRequest
    <2> QED
      BY <2>1, <2>2 DEF CallInv, Progress, InOrder, StartedInOrder, UnrecordedIsLast, Excused
  <1> QED
    BY <1>1, <1>2 DEF IInv

\* Every step keeps the invariant.
LEMMA NextInv == IInv /\ [Next]_vars => IInv'
  <1> SUFFICES ASSUME IInv, [Next]_vars PROVE IInv'
    OBVIOUS
  <1>0. Typed /\ \A d \in Calls : CallInv(d)
    BY DEF IInv
  <1>1. ASSUME NEW h \in Hosts, LeaveWindow(h) PROVE IInv'
    <2>1. /\ used[h] > 0 /\ used' = [used EXCEPT ![h] = @ - 1]
          /\ UNCHANGED <<failClosed, call, work, logs>>
      BY <1>1 DEF LeaveWindow, config
    <2>2. used' \in [Hosts -> 0..Limit]
      <3>1. used[h] - 1 \in 0..Limit
        BY <1>0, <2>1, ExecAssumption DEF Typed
      <3> QED
        BY <1>0, <2>1, <3>1 DEF Typed
    <2>3. Typed' /\ \A d \in Calls : SameCall(d)
      BY <1>0, <2>1, <2>2 DEF Typed, SameCall, logs
    <2> QED
      BY <1>0, <2>1, <2>3, Frame DEF IInv
  <1>2. CASE UNCHANGED vars
    <2>1. Typed' /\ UNCHANGED failClosed /\ \A d \in Calls : SameCall(d)
      BY <1>0, <1>2 DEF Typed, SameCall, vars
    <2> QED
      BY <1>0, <2>1, Frame DEF IInv
  <1>3. ASSUME NEW c \in Calls,
               \/ \E r \in Requests[c] : Begin(c, r)
               \/ \E v \in {"allowed", "blocked", "unavailable"} : CheckCommand(c, v)
               \/ CheckHosts(c) \/ Answer(c) \/ Cancel(c)
               \/ \E found \in BOOLEAN : ResolveSecrets(c, found)
        PROVE  IInv'
    BY <1>3, CallActions
  <1>4. ASSUME NEW c \in Calls, NEW i \in DOMAIN work[c],
               \/ \E found \in BOOLEAN : ResolveSudo(c, i, found)
               \/ \E writes \in BOOLEAN \X BOOLEAN :
                    \/ \E result \in {"up", "refused", "timeout"} : Connect(c, i, result, writes)
                    \/ \E starts \in BOOLEAN : StartLocal(c, i, starts, writes)
                    \/ \E outcome \in Codes \cup {"timeout", "broken"} : Finish(c, i, outcome, writes)
               \/ NextHost(c, i)
        PROVE  IInv'
    BY <1>4, HostActions
  <1> QED
    BY <1>1, <1>2, <1>3, <1>4 DEF Next

\* The inductive invariant holds: every host of every call has its exit codes
\* and its audit records in step with the commands it has run.
THEOREM ExecInvariant == Spec => []IInv
  BY InitInv, NextInv, PTL DEF Spec

\* Type correctness; in particular the rate window of a host never holds more
\* than rate_limit_rps calls, a call that names a host several times or is
\* refused half way through its hosts included (check_rate_limit), and a
\* rolling run works on one host at a time (run_all).
THEOREM ExecTypeCorrect == Spec => []ExecTypeOK
  <1>1. IInv => ExecTypeOK
    <2> SUFFICES ASSUME IInv PROVE ExecTypeOK
      OBVIOUS
    <2>0. Typed
      BY DEF IInv
    <2>1. ASSUME NEW c \in Calls
          PROVE  /\ call[c].at \in CallPlaces /\ call[c].answer \in Answers
                 /\ call[c].checked \in 0..Req(c).commands
                 /\ work[c] \in Seq(HostWork)
                 /\ call[c].at \in {"run", "ended"} \/ started[c] = {}
                 /\ \A i \in DOMAIN work[c] : work[c][i].command <= Req(c).commands
                 /\ Rolling(c) => Cardinality({i \in DOMAIN work[c] : work[c][i].at \in Working}) <= 1
      <3>1. CallInv(c) /\ call[c] \in CallRecord /\ work[c] \in Seq(HostWork)
        BY <2>0 DEF IInv, Typed
      <3>2. Req(c).commands \in Nat
        <4>1. CASE call[c].at = "idle"
          BY <3>1, <4>1 DEF CallInv, Requested, NoRequest
        <4>2. CASE call[c].at # "idle"
          BY <2>0, <3>1, <4>2, RequestFacts
        <4> QED
          BY <4>1, <4>2
      <3>3. call[c].checked \in 0..Req(c).commands
        BY <3>1, <3>2 DEF CallRecord, CallInv, Requested
      <3>4. call[c].at \in {"run", "ended"} \/ started[c] = {}
        BY <3>1 DEF CallRecord, CallPlaces, CallInv, Requested, StartedInOrder
      <3>5. \A i \in DOMAIN work[c] : work[c][i].command <= Req(c).commands
        BY <3>1 DEF CallInv, Progress, HostOK
      <3>6. ASSUME Rolling(c)
            PROVE  Cardinality({i \in DOMAIN work[c] : work[c][i].at \in Working}) <= 1
        <4> DEFINE W == {i \in DOMAIN work[c] : work[c][i].at \in Working}
        <4>1. \A i, j \in W : i = j
          <5> SUFFICES ASSUME NEW i \in W, NEW j \in W, j < i PROVE FALSE
            BY <3>1, LenProperties
          <5>1. work[c][j].at = "done"
            BY <3>1, <3>6 DEF CallInv, InOrder, Working
          <5> QED
            BY <5>1 DEF Working
        <4>2. W = {} \/ \E i : W = {i}
          BY <4>1
        <4> HIDE DEF W
        <4>3. Cardinality(W) <= 1
          BY <4>2, FS_EmptySet, FS_Singleton
        <4> QED
          BY <4>3 DEF W
      <3> QED
        BY <3>1, <3>3, <3>4, <3>5, <3>6 DEF CallRecord
    <2> QED
      BY <2>0, <2>1 DEF ExecTypeOK, Typed, CallPlaces, Answers, HostWork, HostPlaces
  <1> QED
    BY <1>1, ExecInvariant, PTL

\* A rolling run told to stop at errors sends a command to a host only after
\* every command of every host before it ended with exit code 0 (run_all).
THEOREM RollingRunStops == Spec => []RollingStops
  <1>1. IInv => RollingStops
    <2> SUFFICES ASSUME IInv, NEW c \in Calls, Rolling(c), Req(c).stop,
                        NEW p \in started[c], NEW j \in 1..(p[1] - 1)
                 PROVE  /\ work[c][j].at = "done"
                        /\ work[c][j].codes = [k \in 1..Req(c).commands |-> "zero"]
      BY DEF RollingStops
    <2>1. Typed /\ CallInv(c) /\ work[c] \in Seq(HostWork)
      BY DEF IInv, Typed
    <2>2. p[1] \in DOMAIN work[c] /\ work[c][p[1]].at # "wait"
      BY <2>1 DEF CallInv, StartedInOrder
    <2>3. j \in DOMAIN work[c] /\ j < p[1]
      BY <2>1, <2>2, LenProperties
    <2>4. work[c][j].at = "done" /\ ~ResultFailed(work[c][j].codes)
      BY <2>1, <2>2, <2>3 DEF CallInv, InOrder
    <2>5. Len(work[c][j].codes) = Req(c).commands
      BY <2>1, <2>3, <2>4 DEF CallInv, Progress, HostOK
    <2>6. work[c][j].codes \in Seq(Codes)
      <3>1. work[c][j] \in HostWork
        BY <2>1, <2>3, LenProperties
      <3> QED
        BY <3>1 DEF HostWork
    <2> DEFINE codes == work[c][j].codes
    <2>7. codes \in [1..Req(c).commands -> Codes] /\ DOMAIN codes = 1..Req(c).commands
      BY <2>5, <2>6, LenProperties
    <2>8. \A k \in 1..Req(c).commands : codes[k] = "zero"
      BY <2>4, <2>7 DEF ResultFailed
    <2>9. codes = [k \in 1..Req(c).commands |-> "zero"]
      BY <2>7, <2>8
    <2> QED
      BY <2>4, <2>9
  <1> QED
    BY <1>1, ExecInvariant, PTL

\* Every command that reached a host and is no longer waited for is in the
\* audit file, or a write for it failed, the client cancelled the call, or
\* its sudo or secrets run lost the connection (ssh_exec, run_one, local_exec).
THEOREM CommandsRecorded == Spec => []RecordedUnlessExcused
  <1>1. IInv => RecordedUnlessExcused
    BY DEF IInv, CallInv, Excused, RecordedUnlessExcused
  <1> QED
    BY <1>1, ExecInvariant, PTL

\* With a closed audit log no command follows an unrecorded one, on its host
\* or on a later host of a rolling run (audit_log, run_host, run_all).
THEOREM UnrecordedCommandIsTheLast == Spec => []NothingAfterUnrecorded
  <1>1. IInv => NothingAfterUnrecorded
    <2> SUFFICES ASSUME IInv, NEW c \in Calls, failClosed,
                        NEW p \in started[c], NEW q \in started[c], p \notin recorded[c]
                 PROVE  \/ p[1] = q[1] /\ p[2] >= q[2]
                        \/ p[1] # q[1] /\ ~(Rolling(c) /\ p[1] < q[1])
      BY DEF NothingAfterUnrecorded
    <2>1. CallInv(c)
      BY DEF IInv
    <2>2. work[c][p[1]].at \in {"running", "raised"} /\ work[c][p[1]].command = p[2]
      BY <2>1 DEF CallInv, UnrecordedIsLast
    <2>3. /\ p[1] \in DOMAIN work[c] /\ q[1] \in DOMAIN work[c] /\ work[c][q[1]].at # "wait"
          /\ p[2] \in 1..work[c][p[1]].command /\ q[2] \in 1..work[c][q[1]].command
      BY <2>1 DEF CallInv, StartedInOrder
    <2>4. CASE p[1] = q[1]
      <3>1. p[2] \in Int /\ q[2] \in 1..p[2]
        BY <2>2, <2>3, <2>4
      <3> QED
        BY <2>4, <3>1
    <2>5. CASE p[1] # q[1]
      BY <2>1, <2>2, <2>3, <2>5 DEF CallInv, InOrder
    <2> QED
      BY <2>4, <2>5
  <1> QED
    BY <1>1, ExecInvariant, PTL

=============================================================================
