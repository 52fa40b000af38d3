------------------------- MODULE ShellSessionsProofs -------------------------
(* Theorems about ShellSessions, for every value of its constants.  What   *)
(* ConnectionPoolProofs shows of the steps of the pool is used for the     *)
(* sessions' steps that are one; the others release a slot on behalf of    *)
(* somebody else.                                                          *)
EXTENDS ShellSessions, ConnectionPoolProofs

-----------------------------------------------------------------------------
(* The inductive invariant.                                                *)

SetsUp(c, s) == call[c].at \in {"probe", "spawn"} /\ call[c].sid = s
LocksHost(c) == call[c].at \in {"probe", "spawn", "boot"}
HasSession(c) == call[c].at \in {"boot", "queued", "running", "dead", "closing"}

\* The registry has exactly the sessions whose shell was started and not yet
\* put away.
Live == \A s \in Sessions : shell[s] \in {"up", "eof"} <=> s \in sessions

\* What a caller knows of its session, and of the mapping of its host while
\* it has the host lock.
CallOK(c) ==
    /\ call[c].at \in {"probe", "spawn"} =>
          /\ call[c].sid \in Sessions /\ shell[call[c].sid] = "starting"
          /\ op[call[c].sid] # Idle => op[call[c].sid].name = call[c].host
    /\ HasSession(c) =>
          call[c].sid \in Sessions /\ shell[call[c].sid] \in {"up", "eof", "closed"}
    /\ call[c].at = "dead" => call[c].sid \notin sessions
    /\ LocksHost(c) => hostSession[call[c].host] = NoSession

\* The host lock admits one caller, and no two set up the same session.
OneSetUp ==
    \A c, d \in Callers :
        /\ LocksHost(c) /\ LocksHost(d) /\ call[c].host = call[d].host => c = d
        /\ \A s \in Sessions : SetsUp(c, s) /\ SetsUp(d, s) => c = d

\* A session uses the pool only while it is set up or registered; then it
\* holds the connection release_connection will be told.
SlotOK(s) ==
    /\ op[s] # Idle => \/ s \in sessions /\ IsHolding(s)
                       \/ \E c \in Callers : SetsUp(c, s)
    /\ shell[s] \in {"up", "eof", "closed"} /\ IsHolding(s) =>
          backing[s] = [host |-> op[s].name, conn |-> op[s].conn]

TunnelOK(t) ==
    /\ tunnel[t] = "none" => op[t] = Idle
    /\ IsCalling(t) => tunnel[t] = "opening"

\* in_use exceeds the holders by the releases under a raw spelling at most.
Covered ==
    \A h \in Hosts : \A k \in pool[h] : inUse[k] <= Cardinality(Holders(k)) + missed[k]

\* What a cancelled request leaves behind.
StraySession(s) == s \in sessions /\ ~OwnedSession(s)
StrayTunnel(t) == tunnel[t] = "gone" /\ op[t] # Idle
Strays == {s \in Sessions : StraySession(s)} \cup {t \in Tunnels : StrayTunnel(t)}
FewStrays == Cardinality(Strays) <= cancels

\* The read lock admits one caller.
OneReader ==
    \A c, d \in Callers : \A s \in Sessions :
        HoldsReadLock(c, s) /\ HoldsReadLock(d, s) => c = d

SessInv ==
    /\ Live /\ OneSetUp
    /\ \A c \in Callers : CallOK(c)
    /\ \A s \in Sessions : SlotOK(s)

IInv ==
    /\ TypeOK /\ Numbered /\ Home /\ SessTypeOK
    /\ SessInv /\ \A t \in Tunnels : TunnelOK(t)
    /\ Covered /\ FewStrays /\ OneReader

-----------------------------------------------------------------------------
(* The steps a caller can make.                                            *)

\* A task is a session or a tunnel.
LEMMA TaskKinds ==
    /\ Sessions \subseteq Tasks /\ Tunnels \subseteq Tasks
    /\ \A t \in Tasks : t \in Sessions <=> t \notin Tunnels
    /\ NoSession \notin Sessions
    /\ MaxCancels \in Nat
  BY HoldersAssumption

CallType == call \in [Callers -> {NoCall} \cup Call]

\* What a well-typed caller can be.
LEMMA CallCases ==
    ASSUME CallType, NEW c \in Callers
    PROVE  /\ call[c] = NoCall <=> call[c] \notin Call
           /\ call[c] = NoCall <=> call[c].at = "idle"
           /\ call[c] \in Call => /\ call[c].host \in Hosts
                                  /\ call[c].sid \in Sessions \cup {NoSession}
                                  /\ call[c].batch \in BOOLEAN
                                  /\ call[c].retried \in BOOLEAN
                                  /\ call[c].at \in {"ensure", "probe", "spawn", "boot", "queued",
                                                    "running", "dead", "closing"}
  BY DEF CallType, NoCall, Call

Rest(c) == \A d \in Callers : d # c => call'[d] = call[d]

\* Caller c is at place now, on host h with session s.
Becomes(c, place, h, s) ==
    /\ call'[c] \in Call
    /\ call'[c].at = place /\ call'[c].host = h /\ call'[c].sid = s

\* The call of c ends.
LEMMA EndsCall ==
    ASSUME CallType, NEW c \in Callers, Ends(c)
    PROVE  CallType' /\ Rest(c) /\ call'[c] = NoCall
  BY DEF CallType, Ends, Rest

\* The call of c moves on.
LEMMA GotoCall ==
    ASSUME CallType, NEW c \in Callers, call[c] # NoCall, NEW place \in {"ensure", "probe", "spawn", "boot", "queued", "running", "dead", "closing"},
           Goto(c, place)
    PROVE  CallType' /\ Rest(c) /\ Becomes(c, place, call[c].host, call[c].sid)
  BY DEF CallType, Goto, Rest, Becomes, Call

\* The call of c gets the read lock of s or queues for it.
LEMMA BeginCall ==
    ASSUME CallType, NEW c \in Callers, call[c] # NoCall, NEW s \in Sessions, Begin(c, s)
    PROVE  /\ CallType' /\ Rest(c)
           /\ \/ Becomes(c, "running", call[c].host, s) /\ ReadLockFree(s)
              \/ Becomes(c, "queued", call[c].host, s)
  <1> DEFINE place == IF ReadLockFree(s) THEN "running" ELSE "queued"
  <1>1. place = "queued" \/ (place = "running" /\ ReadLockFree(s))
    OBVIOUS
  <1>2. call' = [call EXCEPT ![c].sid = s, ![c].at = place]
    BY DEF Begin
  <1> HIDE DEF place
  <1> QED
    BY <1>1, <1>2 DEF CallType, Rest, Becomes, Call

-----------------------------------------------------------------------------
(* What the steps do to the tasks.                                         *)

OpRest(t) == \A u \in Tasks : u # t => op'[u] = op[u]

\* get_connection resolves its host, or raises.
LEMMA ResolveTask ==
    ASSUME TypeOK, NEW t \in Tasks, NEW h, Resolve(t, h)
    PROVE  /\ OpRest(t)
           /\ op'[t] = Idle \/ (IsCalling(t)' /\ ~IsHolding(t)' /\ op'[t].name = h)
  <1>1. PICK new : /\ op' = [op EXCEPT ![t] = new]
                   /\ new = Idle \/ (new.at = "wait" /\ new.name = h)
    <2> DEFINE cfg == IF registry[NormalizeHostName(h)] # NoConfig
                      THEN registry[NormalizeHostName(h)]
                      ELSE TryLoadFromSshConfig(NormalizeHostName(h))
        wait == [at |-> "wait", name |-> h, cfg |-> cfg,
                 gen |-> generation[NormalizeHostName(h)],
                 lock |-> lockObject[NormalizeHostName(h)]]
    <2>1. op' = [op EXCEPT ![t] = wait] \/ op' = [op EXCEPT ![t] = Idle]
      BY DEF Resolve
    <2>2. wait.at = "wait" /\ wait.name = h
      OBVIOUS
    <2> HIDE DEF wait
    <2> QED
      BY <2>1, <2>2
  <1>2. op'[t] = new /\ OpRest(t)
    BY <1>1 DEF TypeOK, OpRest
  <1> QED
    BY <1>1, <1>2 DEF IsCalling, IsHolding

\* A task is done with the pool.
LEMMA IdledTask ==
    ASSUME TypeOK, NEW t \in Tasks, op' = [op EXCEPT ![t] = Idle]
    PROVE  OpRest(t) /\ op'[t] = Idle
  BY DEF TypeOK, OpRest

\* A task goes on inside get_connection.
LEMMA AcquiringTask ==
    ASSUME TypeOK, NEW t \in Tasks, Acquiring(t)
    PROVE  /\ OpRest(t) /\ IsCalling(t)
           /\ IsCalling(t)' \/ IsHolding(t)'
           /\ op'[t].name = op[t].name
  <1>0. op \in [Tasks -> {Idle} \cup Calling \cup Holding]
    BY DEF TypeOK
  <1>1. CASE Reuse(t) \/ Overload(t)
    <2>1. PICK c : /\ op[t].at = "wait"
                   /\ op' = [op EXCEPT ![t] = [at |-> "holding", name |-> op[t].name, conn |-> c]]
      BY <1>1 DEF Reuse, Overload, EnterLock, HandOut
    <2> QED
      BY <1>0, <2>1 DEF OpRest, IsCalling, IsHolding
  <1>2. CASE Connected(t)
    BY <1>0, <1>2 DEF Connected, OpRest, IsDialling, IsCalling, IsHolding
  <1>3. CASE Dial(t)
    <2>1. op[t].at = "wait" /\ op' = [op EXCEPT ![t].at = "connect"]
      BY <1>3 DEF Dial, EnterLock
    <2>2. op[t] \in Calling
      BY <1>0, <2>1 DEF Idle, Calling, Holding
    <2> QED
      BY <1>0, <2>1, <2>2 DEF OpRest, IsCalling, Calling
  <1>4. CASE KeyRefused(t)
    <2>1. op[t].at = "connect" /\ op' = [op EXCEPT ![t].at = "retry"]
      BY <1>4 DEF KeyRefused
    <2>2. op[t] \in Calling
      BY <1>0, <2>1 DEF Idle, Calling, Holding
    <2> QED
      BY <1>0, <2>1, <2>2 DEF OpRest, IsCalling, Calling
  <1> QED
    BY <1>1, <1>2, <1>3, <1>4 DEF Acquiring

\* A task that is neither calling nor holding is idle, and conversely.
LEMMA IdleTask ==
    ASSUME TypeOK, NEW t \in Tasks
    PROVE  /\ op[t] = Idle <=> ~IsCalling(t) /\ ~IsHolding(t)
           /\ ~(IsCalling(t) /\ IsHolding(t))
           /\ IsHolding(t) => op[t].conn \in ConnIds
  BY OpCases DEF Holding

-----------------------------------------------------------------------------
(* The sessions' invariant, by kinds of steps.                             *)

\* A session is put away, with its slot, by a caller that has it; the caller
\* leaves, or goes on without it.
PutsAway(c, s) ==
    /\ SetsUp(c, s) \/ (HasSession(c) /\ call[c].sid = s)
    /\ shell' = [shell EXCEPT ![s] = "closed"]
    /\ sessions' = sessions \ {s}
    /\ OpRest(s) /\ op'[s] = Idle
    /\ UNCHANGED <<hostSession, backing>>
    /\ Rest(c)
    /\ \/ call'[c] = NoCall
       \/ HasSession(c) /\ Becomes(c, "dead", call[c].host, s)
       \/ HasSession(c) /\ call[c].at # "dead" /\ call'[c] = call[c]

\* A caller closes a session or drops a dead one.
LEMMA PutAwayStep ==
    ASSUME TypeOK, SessTypeOK, SessInv, NEW c \in Callers, NEW s \in Sessions, PutsAway(c, s)
    PROVE  SessInv'
  <1> USE DEF SessInv
  <1>1. \A u \in Sessions : shell'[u] = IF u = s THEN "closed" ELSE shell[u]
    BY DEF SessTypeOK, PutsAway
  <1>2. /\ ~IsHolding(s)' /\ op'[s] = Idle
        /\ \A u \in Sessions : u # s => op'[u] = op[u] /\ IsHolding(u)' = IsHolding(u)
    BY TaskKinds DEF PutsAway, OpRest, Idle, IsHolding
  <1>3. Live'
    BY <1>1 DEF Live, PutsAway
  <1>4. \A d \in Callers : LocksHost(d)' => LocksHost(d) /\ call'[d] = call[d]
    BY DEF PutsAway, Rest, Becomes, NoCall, LocksHost
  <1>5. \A d \in Callers, u \in Sessions : SetsUp(d, u)' => SetsUp(d, u) /\ LocksHost(d)
    BY DEF PutsAway, Rest, Becomes, NoCall, SetsUp, LocksHost
  <1>6. OneSetUp'
    BY <1>4, <1>5 DEF OneSetUp
  <1>7. \A d \in Callers : SetsUp(d, s) => d = c
    <2>1. CASE SetsUp(c, s)
      BY <2>1 DEF OneSetUp
    <2>2. CASE HasSession(c) /\ call[c].sid = s
      BY <2>2 DEF CallOK, SetsUp
    <2> QED
      BY <2>1, <2>2 DEF PutsAway
  <1>8. ASSUME NEW d \in Callers PROVE CallOK(d)'
    <2>1. CASE call'[d] = call[d] /\ d # c
      <3>1. call[d].at \in {"probe", "spawn"} => call[d].sid # s
        BY <1>7, <2>1 DEF SetsUp
      <3> QED
        BY <1>1, <1>2, <2>1, <3>1 DEF CallOK, HasSession, LocksHost, PutsAway
    <2>2. CASE d = c
      BY <1>1, <2>2 DEF CallOK, HasSession, LocksHost, PutsAway, NoCall, Becomes
    <2> QED
      BY <2>1, <2>2 DEF PutsAway, Rest
  <1>9. ASSUME NEW u \in Sessions PROVE SlotOK(u)'
    <2>1. CASE u = s
      BY <1>2, <2>1 DEF SlotOK
    <2>2. CASE u # s
      <3>1. \A d \in Callers : SetsUp(d, u) => SetsUp(d, u)'
        BY <2>2 DEF PutsAway, Rest, SetsUp, HasSession
      <3>2. u \in sessions' <=> u \in sessions
        BY <2>2 DEF PutsAway
      <3> QED
        BY <1>1, <1>2, <2>2, <3>1, <3>2 DEF SlotOK, PutsAway
    <2> QED
      BY <2>1, <2>2
  <1> QED
    BY <1>3, <1>6, <1>8, <1>9

\* A caller that is not setting up moves on, leaves or comes; mappings are
\* dropped, or replaced by the holder of the host lock.
MovesOn(c) ==
    /\ UNCHANGED <<sessions, shell, backing, op>>
    /\ Rest(c)
    /\ call[c].at \notin {"probe", "spawn"}
    /\ \/ call'[c] = NoCall
       \/ call'[c] = call[c] /\ ~LocksHost(c)
       \/ \E h \in Hosts, s \in Sessions \cup {NoSession} : Becomes(c, "ensure", h, s)
       \/ \E h \in Hosts, s \in Sessions, place \in {"queued", "running", "closing"} :
             Becomes(c, place, h, s) /\ shell[s] \in {"up", "eof", "closed"}
    /\ \A h \in Hosts : \/ hostSession'[h] \in {hostSession[h], NoSession}
                        \/ LocksHost(c) /\ call[c].host = h

\* A caller moves on with the session it has.
LEMMA MovesOnStep ==
    ASSUME TypeOK, SessTypeOK, SessInv, NEW c \in Callers, MovesOn(c)
    PROVE  SessInv'
  <1> USE DEF SessInv
  <1>0. CallType
    BY DEF SessTypeOK, CallType
  <1>1. Live'
    BY DEF Live, MovesOn
  <1>2. \A u \in Tasks : IsHolding(u)' = IsHolding(u)
    BY DEF MovesOn, IsHolding
  <1>3. \A d \in Callers : LocksHost(d)' => d # c /\ LocksHost(d) /\ call'[d] = call[d]
    BY DEF MovesOn, Rest, Becomes, NoCall, LocksHost
  <1>4. \A d \in Callers, u \in Sessions : SetsUp(d, u)' <=> SetsUp(d, u)
    BY DEF MovesOn, Rest, Becomes, NoCall, SetsUp
  <1>5. OneSetUp'
    BY <1>3, <1>4 DEF OneSetUp
  <1>6. ASSUME NEW d \in Callers, d # c PROVE CallOK(d)'
    <2>1. call'[d] = call[d]
      BY <1>6 DEF MovesOn, Rest
    <2>2. LocksHost(d) => hostSession'[call[d].host] = NoSession
      <3> SUFFICES ASSUME LocksHost(d) PROVE hostSession'[call[d].host] = NoSession
        OBVIOUS
      <3>1. call[d].host \in Hosts /\ hostSession[call[d].host] = NoSession
        BY <1>0, CallCases DEF CallOK, LocksHost
      <3>2. ~(LocksHost(c) /\ call[c].host = call[d].host)
        BY <1>6 DEF OneSetUp
      <3> QED
        BY <3>1, <3>2 DEF MovesOn
    <2> QED
      BY <2>1, <2>2 DEF CallOK, HasSession, LocksHost, MovesOn
  <1>7. CallOK(c)'
    <2>1. CASE call'[c] = call[c] /\ ~LocksHost(c)
      BY <2>1 DEF CallOK, HasSession, LocksHost, MovesOn
    <2>2. CASE call'[c] = NoCall
      BY <2>2 DEF CallOK, HasSession, LocksHost, NoCall
    <2>3. CASE \E h \in Hosts, s \in Sessions \cup {NoSession} : Becomes(c, "ensure", h, s)
      BY <2>3 DEF CallOK, HasSession, LocksHost, Becomes
    <2>4. CASE \E h \in Hosts, s \in Sessions, place \in {"queued", "running", "closing"} :
                   Becomes(c, place, h, s) /\ shell[s] \in {"up", "eof", "closed"}
      BY <2>4 DEF CallOK, HasSession, LocksHost, Becomes, MovesOn
    <2> QED
      BY <2>1, <2>2, <2>3, <2>4 DEF MovesOn
  <1>8. \A u \in Sessions : SlotOK(u)'
    BY <1>2, <1>4, TaskKinds DEF SlotOK, MovesOn
  <1> QED
    BY <1>1, <1>5, <1>6, <1>7, <1>8

\* Task t moves on in the pool, for the caller that sets the session up.
LEMMA TaskStep ==
    ASSUME TypeOK, SessTypeOK, SessInv, UNCHANGED <<sessions, shell, backing, hostSession, call>>,
           NEW t \in Tasks, OpRest(t),
           t \in Sessions => \/ op'[t] = Idle
                             \/ \E c \in Callers : SetsUp(c, t) /\ op'[t].name = call[c].host
    PROVE  SessInv'
  <1> USE DEF SessInv
  <1>1. Live' /\ OneSetUp'
    BY DEF Live, OneSetUp, LocksHost, SetsUp
  <1>2. \A u \in Tasks : u # t => op'[u] = op[u] /\ IsHolding(u)' = IsHolding(u)
    BY DEF OpRest, IsHolding
  <1>3. ASSUME NEW d \in Callers PROVE CallOK(d)'
    <2>1. call[d].at \in {"probe", "spawn"} /\ call[d].sid = t /\ op'[t] # Idle =>
              op'[t].name = call[d].host
      BY DEF OneSetUp, SetsUp, CallOK
    <2>2. call[d].at \in {"probe", "spawn"} => call[d].sid \in Tasks
      BY TaskKinds DEF CallOK
    <2> QED
      BY <1>2, <2>1, <2>2 DEF CallOK, HasSession, LocksHost
  <1>4. ASSUME NEW u \in Sessions PROVE SlotOK(u)'
    <2>1. CASE u # t
      BY <1>2, <2>1, TaskKinds DEF SlotOK, SetsUp
    <2>2. CASE u = t /\ op'[t] = Idle
      BY <2>2 DEF SlotOK, Idle, IsHolding
    <2>3. ASSUME u = t, NEW c \in Callers, SetsUp(c, t) PROVE SlotOK(u)'
      <3>1. shell[u] = "starting"
        BY <2>3 DEF CallOK, SetsUp
      <3> QED
        BY <2>3, <3>1 DEF SlotOK, SetsUp
    <2> QED
      BY <2>1, <2>2, <2>3
  <1> QED
    BY <1>1, <1>3, <1>4

\* Steps that leave sessions, calls and tasks alone.
LEMMA SessFrame ==
    ASSUME SessInv, UNCHANGED <<op, sessions, shell, backing, hostSession, call>>
    PROVE  SessInv'
  BY DEF SessInv, Live, OneSetUp, LocksHost, SetsUp, CallOK, HasSession, SlotOK, IsHolding

\* The four steps of a session that is being set up.
StartsSetUp(c, s) ==
    /\ At(c, "ensure") /\ HostLockFree(call[c].host)
    /\ shell[s] = "none" /\ shell' = [shell EXCEPT ![s] = "starting"]
    /\ OpRest(s) /\ op'[s].name = call[c].host
    /\ Rest(c) /\ Becomes(c, "probe", call[c].host, s)
    /\ hostSession' = [hostSession EXCEPT ![call[c].host] = NoSession]
    /\ UNCHANGED <<sessions, backing>>

\* A caller that got the host lock starts to set up a session.
LEMMA SetUpStep ==
    ASSUME TypeOK, SessTypeOK, SessInv, NEW c \in Callers, NEW s \in Sessions, StartsSetUp(c, s)
    PROVE  SessInv'
  <1> USE DEF SessInv
  <1>0. CallType /\ call[c].host \in Hosts
    <2>1. CallType
      BY DEF SessTypeOK, CallType
    <2> QED
      BY <2>1, CallCases DEF StartsSetUp, At
  <1>1. \A u \in Sessions : shell'[u] = IF u = s THEN "starting" ELSE shell[u]
    BY DEF SessTypeOK, StartsSetUp
  <1>2. \A u \in Sessions : u # s => op'[u] = op[u] /\ IsHolding(u)' = IsHolding(u)
    BY TaskKinds DEF StartsSetUp, OpRest, IsHolding
  <1>3. Live'
    BY <1>1 DEF Live, StartsSetUp
  <1>4. \A d \in Callers : d # c => /\ call'[d] = call[d] /\ ~SetsUp(d, s)
                                    /\ LocksHost(d) => call[d].host # call[c].host
    BY DEF StartsSetUp, Rest, HostLockFree, HoldsHostLock, CallOK, SetsUp, LocksHost
  <1>5. LocksHost(c)' /\ SetsUp(c, s)' /\ ~LocksHost(c) /\ ~HasSession(c)'
    BY DEF StartsSetUp, At, Becomes, LocksHost, SetsUp, HasSession
  <1>6. OneSetUp'
    <2> SUFFICES ASSUME NEW d \in Callers, NEW e \in Callers
                 PROVE  /\ LocksHost(d)' /\ LocksHost(e)' /\ call'[d].host = call'[e].host => d = e
                        /\ \A u \in Sessions : SetsUp(d, u)' /\ SetsUp(e, u)' => d = e
      BY DEF OneSetUp
    <2>1. CASE d # c /\ e # c
      BY <1>4, <2>1 DEF OneSetUp, LocksHost, SetsUp
    <2>2. CASE d = c \/ e = c
      BY <1>4, <2>2 DEF LocksHost, SetsUp, StartsSetUp, Becomes
    <2> QED
      BY <2>1, <2>2
  <1>7. ASSUME NEW d \in Callers PROVE CallOK(d)'
    <2>1. CASE d = c
      BY <1>0, <1>1, <1>5, <2>1 DEF CallOK, StartsSetUp, Becomes, SessTypeOK
    <2>2. CASE d # c
      <3>1. call[d].at \in {"probe", "spawn"} => call[d].sid # s
        BY <1>4, <2>2 DEF SetsUp
      <3>2. LocksHost(d) => hostSession'[call[d].host] = NoSession
        BY <1>0, <1>4, <2>2, CallCases DEF CallOK, StartsSetUp, SessTypeOK, LocksHost
      <3> QED
        BY <1>1, <1>2, <1>4, <2>2, <3>1, <3>2 DEF CallOK, HasSession, LocksHost, StartsSetUp
    <2> QED
      BY <2>1, <2>2
  <1>8. ASSUME NEW u \in Sessions PROVE SlotOK(u)'
    <2>1. CASE u = s
      BY <1>1, <1>5, <2>1 DEF SlotOK
    <2>2. CASE u # s
      <3>1. \A d \in Callers : SetsUp(d, u) => SetsUp(d, u)'
        BY <1>4 DEF SetsUp, StartsSetUp, At
      <3> QED
        BY <1>1, <1>2, <2>2, <3>1 DEF SlotOK, StartsSetUp
    <2> QED
      BY <2>1, <2>2
  <1> QED
    BY <1>3, <1>6, <1>7, <1>8

\* The probe is over: its connection is released, the caller goes on.
LEMMA ProbedStep ==
    ASSUME TypeOK, SessTypeOK, SessInv, NEW c \in Callers, NEW s \in Sessions,
           SetsUp(c, s), Rest(c), Becomes(c, "spawn", call[c].host, s),
           OpRest(s), op'[s] = Idle, UNCHANGED <<sessions, shell, backing, hostSession>>
    PROVE  SessInv'
  <1> USE DEF SessInv
  <1>1. Live'
    BY DEF Live
  <1>2. /\ ~IsHolding(s)'
        /\ \A u \in Sessions : u # s => op'[u] = op[u] /\ IsHolding(u)' = IsHolding(u)
    BY TaskKinds DEF OpRest, Idle, IsHolding
  <1>3. \A d \in Callers : /\ call'[d].host = call[d].host /\ call'[d].sid = call[d].sid
                           /\ (LocksHost(d)' <=> LocksHost(d)) /\ (HasSession(d)' <=> HasSession(d))
                           /\ \A u \in Sessions : SetsUp(d, u)' <=> SetsUp(d, u)
                           /\ call'[d].at = "dead" <=> call[d].at = "dead"
                           /\ call'[d].at \in {"probe", "spawn"} <=> call[d].at \in {"probe", "spawn"}
    BY DEF Rest, Becomes, SetsUp, LocksHost, HasSession
  <1>4. OneSetUp'
    BY <1>3 DEF OneSetUp
  <1>5. ASSUME NEW d \in Callers PROVE CallOK(d)'
    <2>1. call[d].at \in {"probe", "spawn"} /\ op'[call[d].sid] # Idle
              => op'[call[d].sid].name = call[d].host
      BY <1>2 DEF CallOK
    <2> QED
      BY <1>3, <2>1 DEF CallOK
  <1>6. ASSUME NEW u \in Sessions PROVE SlotOK(u)'
    <2>1. CASE u = s
      BY <1>2, <2>1 DEF SlotOK
    <2>2. CASE u # s
      BY <1>2, <1>3, <2>2 DEF SlotOK
    <2> QED
      BY <2>1, <2>2
  <1> QED
    BY <1>1, <1>4, <1>5, <1>6

\* create_process succeeded: the session is in the registry.
LEMMA SpawnedStep ==
    ASSUME TypeOK, SessTypeOK, SessInv, NEW c \in Callers, Spawned(c)
    PROVE  SessInv'
  <1> USE DEF SessInv
  <1> DEFINE s == call[c].sid
  <1>0. CallType /\ s \in Sessions /\ call[c] # NoCall /\ shell[s] = "starting" /\ IsHolding(s)
    BY DEF SessTypeOK, CallType, Spawned, At, CallOK, NoCall
  <1>1. \A u \in Sessions : shell'[u] = IF u = s THEN "up" ELSE shell[u]
    BY <1>0 DEF SessTypeOK, Spawned
  <1>2. UNCHANGED op /\ \A u \in Tasks : IsHolding(u)' = IsHolding(u)
    BY DEF Spawned, vars, IsHolding
  <1>3. Live'
    BY <1>1 DEF Live, Spawned
  <1>4. Rest(c) /\ Becomes(c, "boot", call[c].host, s) /\ SetsUp(c, s)
    BY <1>0, GotoCall DEF Spawned, At, SetsUp
  <1>5. /\ \A d \in Callers : call'[d].host = call[d].host /\ (LocksHost(d)' <=> LocksHost(d))
        /\ \A d \in Callers, u \in Sessions : SetsUp(d, u)' => SetsUp(d, u)
    BY <1>4 DEF Rest, Becomes, SetsUp, LocksHost
  <1>6. OneSetUp'
    BY <1>5 DEF OneSetUp
  <1>7. \A d \in Callers : d # c => call'[d] = call[d] /\ ~SetsUp(d, s)
    BY <1>0, <1>4 DEF Rest, OneSetUp
  <1>8. ASSUME NEW d \in Callers PROVE CallOK(d)'
    <2>1. CASE d = c
      BY <1>0, <1>1, <1>4, <2>1 DEF CallOK, Becomes, HasSession, LocksHost, SetsUp, Spawned
    <2>2. CASE d # c
      <3>1. call[d].at \in {"probe", "spawn"} => call[d].sid # s
        BY <1>7, <2>2 DEF SetsUp
      <3>2. call[d].at = "dead" => call[d].sid # s
        BY <1>0, <2>2 DEF CallOK, HasSession
      <3> QED
        BY <1>0, <1>1, <1>2, <1>7, <2>2, <3>1, <3>2 DEF CallOK, HasSession, LocksHost, Spawned
    <2> QED
      BY <2>1, <2>2
  <1>9. ASSUME NEW u \in Sessions PROVE SlotOK(u)'
    <2>1. CASE u = s
      <3>1. backing'[s] = [host |-> call[c].host, conn |-> op[s].conn]
        BY <1>0 DEF SessTypeOK, Spawned
      <3>2. op[s].name = call[c].host
        BY <1>0, <1>4, TaskKinds, IdleTask DEF CallOK, SetsUp
      <3> QED
        BY <1>0, <1>2, <2>1, <3>1, <3>2, TaskKinds DEF SlotOK, Spawned
    <2>2. CASE u # s
      <3>1. \A d \in Callers : SetsUp(d, u) => SetsUp(d, u)'
        BY <1>4, <1>7, <2>2 DEF SetsUp
      <3>2. backing'[u] = backing[u]
        BY <2>2 DEF SessTypeOK, Spawned
      <3> QED
        BY <1>1, <1>2, <2>2, <3>1, <3>2, TaskKinds DEF SlotOK, Spawned
    <2> QED
      BY <2>1, <2>2
  <1> QED
    BY <1>3, <1>6, <1>8, <1>9

\* A cancelled close_session releases the slot and leaves the session.
LEMMA CancelledCloseStep ==
    ASSUME TypeOK, SessTypeOK, SessInv, NEW c \in Callers, At(c, "closing"), Ends(c),
           ReleaseSlot(call[c].sid), UNCHANGED <<sessions, shell, backing, hostSession>>
    PROVE  SessInv'
  <1> USE DEF SessInv
  <1>s. PICK s : s = call[c].sid
    OBVIOUS
  <1>0. CallType /\ s \in Sessions /\ s \in Tasks /\ OpRest(s) /\ op'[s] = Idle
    BY <1>s, TaskKinds, IdledTask DEF SessTypeOK, CallType, At, CallOK, HasSession, ReleaseSlot
  <1>1. Rest(c) /\ call'[c] = NoCall
    BY <1>0, EndsCall
  <1>2. Live'
    BY DEF Live
  <1>3. /\ ~IsHolding(s)'
        /\ \A u \in Sessions : u # s => op'[u] = op[u] /\ IsHolding(u)' = IsHolding(u)
    BY <1>0, TaskKinds DEF OpRest, Idle, IsHolding
  <1>4. \A d \in Callers : LocksHost(d)' => d # c /\ LocksHost(d) /\ call'[d] = call[d]
    BY <1>1 DEF Rest, NoCall, LocksHost
  <1>5. \A d \in Callers, u \in Sessions : SetsUp(d, u)' <=> SetsUp(d, u)
    BY <1>1 DEF Rest, NoCall, SetsUp, At
  <1>6. OneSetUp'
    BY <1>4, <1>5 DEF OneSetUp
  <1>7. ASSUME NEW d \in Callers PROVE CallOK(d)'
    <2>1. CASE d = c
      BY <1>1, <2>1 DEF CallOK, HasSession, LocksHost, NoCall
    <2>2. CASE d # c
      <3>1. call[d].at \in {"probe", "spawn"} => call[d].sid # s
        BY <1>s DEF CallOK, HasSession, At
      <3> QED
        BY <1>1, <1>3, <2>2, <3>1 DEF Rest, CallOK, HasSession, LocksHost
    <2> QED
      BY <2>1, <2>2
  <1>8. ASSUME NEW u \in Sessions PROVE SlotOK(u)'
    <2>1. CASE u = s
      BY <1>0, <1>3, <2>1 DEF SlotOK
    <2>2. CASE u # s
      BY <1>3, <1>5, <2>2 DEF SlotOK
    <2> QED
      BY <2>1, <2>2
  <1> QED
    BY <1>2, <1>6, <1>7, <1>8

\* The server shuts down.
LEMMA ShutdownStep ==
    ASSUME TypeOK, SessTypeOK, SessInv, Shutdown
    PROVE  SessInv'
  <1> USE DEF SessInv
  <1>1. \A u \in Sessions : shell'[u] = IF u \in sessions THEN "closed" ELSE shell[u]
    BY DEF Shutdown
  <1>2. \A u \in Sessions : /\ u \in sessions => op'[u] = Idle /\ ~IsHolding(u)'
                            /\ u \notin sessions => op'[u] = op[u] /\ IsHolding(u)' = IsHolding(u)
    BY TaskKinds DEF Shutdown, Idle, IsHolding
  <1>3. Live' /\ sessions' = {}
    BY <1>1 DEF Live, Shutdown
  <1>4. OneSetUp' /\ UNCHANGED <<call, hostSession, backing>>
    BY DEF Shutdown, OneSetUp, LocksHost, SetsUp
  <1>5. ASSUME NEW d \in Callers PROVE CallOK(d)'
    <2>1. call[d].at \in {"probe", "spawn"} => call[d].sid \notin sessions
      BY DEF CallOK, Live
    <2> QED
      BY <1>1, <1>2, <1>3, <1>4, <2>1 DEF CallOK, HasSession, LocksHost
  <1>6. ASSUME NEW u \in Sessions PROVE SlotOK(u)'
    <2>1. CASE u \in sessions
      BY <1>2, <2>1 DEF SlotOK
    <2>2. CASE u \notin sessions
      BY <1>1, <1>2, <1>4, <2>2 DEF SlotOK, SetsUp
    <2> QED
      BY <2>1, <2>2
  <1> QED
    BY <1>3, <1>4, <1>5, <1>6

\* A shell exits on the host.
LEMMA ShellExitsStep ==
    ASSUME TypeOK, SessTypeOK, SessInv, NEW s \in Sessions, ShellExits(s)
    PROVE  SessInv'
  <1> USE DEF SessInv
  <1>1. \A u \in Sessions : shell'[u] = IF u = s THEN "eof" ELSE shell[u]
    BY DEF SessTypeOK, ShellExits
  <1>2. UNCHANGED <<op, sessions, backing, hostSession, call>> /\ shell[s] = "up"
    BY DEF ShellExits, vars
  <1>3. Live'
    BY <1>1, <1>2 DEF Live
  <1>4. OneSetUp'
    BY <1>2 DEF OneSetUp, LocksHost, SetsUp
  <1>5. \A d \in Callers : CallOK(d)'
    BY <1>1, <1>2 DEF CallOK, HasSession, LocksHost
  <1>6. \A u \in Sessions : SlotOK(u)'
    BY <1>1, <1>2 DEF SlotOK, SetsUp, IsHolding
  <1> QED
    BY <1>3, <1>4, <1>5, <1>6

-----------------------------------------------------------------------------
(* Types.                                                                  *)

\* Dropping a dead session keeps the types.
LEMMA InvalidateTypes ==
    ASSUME SessTypeOK, NEW s \in Sessions, Invalidate(s)
    PROVE  /\ sessions' \subseteq sessions
           /\ shell' \in [Sessions -> {"none", "starting", "up", "eof", "closed"}]
  BY DEF SessTypeOK, Invalidate

\* One step per group of actions, by what they change besides the callers.
LEMMA SessTypeStep ==
    ASSUME TypeOK, SessTypeOK, SessInv, [SessNext]_allVars
    PROVE  SessTypeOK'
  <1>0. CallType /\ \A c \in Callers : CallOK(c)
    BY DEF SessTypeOK, CallType, SessInv
  <1>1. CASE UNCHANGED sessVars
    BY <1>1 DEF sessVars, SessTypeOK
  <1>2. ASSUME NEW c \in Callers, RemoteShell(c) PROVE SessTypeOK'
    <2>1. UNCHANGED <<sessions, shell, backing, hostSession, tunnel, cancels>>
      BY <1>2 DEF RemoteShell
    <2>2. CallType'
      BY <1>0, <1>2 DEF RemoteShell, CallType, Call
    <2> QED
      BY <2>1, <2>2 DEF SessTypeOK, CallType
  <1>3. ASSUME NEW c \in Callers, UseSession(c) PROVE SessTypeOK'
    <2>1. UNCHANGED <<sessions, shell, backing, hostSession, tunnel, cancels>>
      BY <1>3 DEF UseSession
    <2>2. CallType'
      <3>1. call[c] # NoCall /\ hostSession[call[c].host] \in Sessions
        BY <1>3 DEF UseSession, At, NoCall, SessTypeOK
      <3> QED
        BY <1>0, <1>3, <3>1, BeginCall DEF UseSession
    <2> QED
      BY <2>1, <2>2 DEF SessTypeOK, CallType
  <1>4. ASSUME NEW c \in Callers, SetUp(c) PROVE SessTypeOK'
    <2>1. UNCHANGED <<sessions, backing, tunnel, cancels>>
      BY <1>4 DEF SetUp, StartSetUp
    <2>2. hostSession' \in [Hosts -> Sessions \cup {NoSession}]
      BY <1>4 DEF SetUp, StartSetUp, SessTypeOK
    <2>3. PICK s \in Sessions : \/ Ends(c) /\ shell' = shell
                                \/ /\ call' = [call EXCEPT ![c].at = "probe", ![c].sid = s]
                                   /\ shell' = [shell EXCEPT ![s] = "starting"]
      BY <1>4 DEF SetUp, StartSetUp
    <2>4. shell' \in [Sessions -> {"none", "starting", "up", "eof", "closed"}]
      BY <2>3 DEF SessTypeOK
    <2>5. CallType'
      <3>1. CASE Ends(c)
        BY <1>0, <3>1, EndsCall
      <3>2. CASE call' = [call EXCEPT ![c].at = "probe", ![c].sid = s]
        <4>1. call[c] \in Call
          BY <1>0, <1>4 DEF SetUp, At, CallType, NoCall
        <4> QED
          BY <1>0, <3>2, <4>1 DEF CallType, Call
      <3> QED
        BY <2>3, <3>1, <3>2
    <2> QED
      BY <2>1, <2>2, <2>4, <2>5 DEF SessTypeOK, CallType
  <1>5. ASSUME NEW c \in Callers, ProbeDone(c) \/ Spawn(c) \/ SpawnFails(c) PROVE SessTypeOK'
    <2>1. UNCHANGED <<sessions, backing, hostSession, tunnel, cancels>>
      BY <1>5 DEF ProbeDone, Spawn, SpawnFails
    <2>2. call[c] # NoCall /\ (Ends(c) \/ Goto(c, "spawn") \/ call' = call)
      BY <1>5 DEF ProbeDone, Spawn, SpawnFails, At, NoCall
    <2>3. CallType'
      BY <1>0, <2>2, EndsCall, GotoCall DEF CallType
    <2>4. shell' = shell \/ shell' = [shell EXCEPT ![call[c].sid] = "closed"]
      BY <1>5 DEF ProbeDone, Spawn, SpawnFails
    <2>5. shell' \in [Sessions -> {"none", "starting", "up", "eof", "closed"}]
      BY <2>4 DEF SessTypeOK
    <2> QED
      BY <2>1, <2>3, <2>5 DEF SessTypeOK, CallType
  <1>6. ASSUME NEW c \in Callers, Spawned(c) PROVE SessTypeOK'
    <2>1. PICK s \in Sessions : s = call[c].sid
      BY <1>0, <1>6 DEF Spawned, At, CallOK
    <2>2. PICK b \in [host : Hosts, conn : ConnIds] :
              b = [host |-> call[c].host, conn |-> op[s].conn]
      <3>1. call[c].host \in Hosts
        BY <1>0, <1>6, CallCases DEF Spawned, At
      <3>2. op[s].conn \in ConnIds
        BY <1>6, <2>1, TaskKinds, IdleTask DEF Spawned
      <3> QED
        BY <3>1, <3>2
    <2>3. b # NoBacking
      <3>1. b.conn \in ConnIds /\ 0 \notin ConnIds
        BY SizeAssumption DEF ConnIds
      <3> QED
        BY <3>1 DEF NoBacking
    <2>4. /\ backing' = [backing EXCEPT ![s] = b] /\ shell' = [shell EXCEPT ![s] = "up"]
          /\ sessions' = sessions \cup {s}
          /\ UNCHANGED <<hostSession, tunnel, cancels>>
      BY <1>6, <2>1, <2>2 DEF Spawned
    <2>5. CallType'
      <3>1. call[c] # NoCall /\ Goto(c, "boot")
        BY <1>6 DEF Spawned, At, NoCall
      <3> QED
        BY <1>0, <3>1, GotoCall
    <2> QED
      BY <2>3, <2>4, <2>5 DEF SessTypeOK, CallType
  <1>7. ASSUME NEW c \in Callers, Booted(c) PROVE SessTypeOK'
    <2>1. PICK s \in Sessions : s = call[c].sid
      BY <1>0, <1>7 DEF Booted, At, CallOK, HasSession
    <2>2. call[c] # NoCall /\ CallType'
      BY <1>0, <1>7, <2>1, BeginCall DEF Booted, At, NoCall
    <2>3. /\ hostSession' = [hostSession EXCEPT ![call[c].host] = s]
          /\ UNCHANGED <<sessions, shell, backing, tunnel, cancels>>
      BY <1>7, <2>1 DEF Booted
    <2> QED
      BY <2>2, <2>3 DEF SessTypeOK, CallType
  <1>8. ASSUME NEW c \in Callers, BootFails(c) \/ TimedOut(c) \/ Died(c) PROVE SessTypeOK'
    <2>1. PICK s \in Sessions : s = call[c].sid
      BY <1>0, <1>8 DEF BootFails, TimedOut, Died, At, CallOK, HasSession
    <2>2. Invalidate(s) /\ UNCHANGED <<backing, hostSession, tunnel, cancels>>
      BY <1>8, <2>1 DEF BootFails, TimedOut, Died
    <2>3. CallType'
      <3>1. call[c] # NoCall /\ (Ends(c) \/ Goto(c, "dead") \/ call' = call)
        BY <1>8 DEF BootFails, TimedOut, Died, At, NoCall
      <3> QED
        BY <1>0, <3>1, EndsCall, GotoCall DEF CallType
    <2> QED
      BY <2>2, <2>3, InvalidateTypes DEF SessTypeOK, CallType
  <1>9. ASSUME NEW c \in Callers, Acquire(c) \/ Done(c) PROVE SessTypeOK'
    <2>1. UNCHANGED <<sessions, shell, backing, hostSession, tunnel, cancels>>
      BY <1>9 DEF Acquire, Done
    <2>2. call[c] # NoCall /\ (Ends(c) \/ Goto(c, "running"))
      BY <1>9 DEF Acquire, Done, At, NoCall
    <2> QED
      BY <1>0, <2>1, <2>2, EndsCall, GotoCall DEF SessTypeOK, CallType
  <1>10. ASSUME NEW c \in Callers, DropDead(c) PROVE SessTypeOK'
    <2>1. UNCHANGED <<sessions, shell, backing, tunnel, cancels>>
      BY <1>10 DEF DropDead
    <2>2. hostSession' \in [Hosts -> Sessions \cup {NoSession}]
      BY <1>10 DEF DropDead, SessTypeOK
    <2>3. CallType'
      <3>1. call[c] \in Call
        BY <1>0, <1>10 DEF DropDead, At, CallType, NoCall
      <3>2. CASE call[c].batch
        BY <1>0, <1>10, <3>2, EndsCall DEF DropDead
      <3>3. CASE call' = [call EXCEPT ![c].at = "ensure", ![c].retried = TRUE]
        BY <1>0, <3>1, <3>3 DEF CallType, Call
      <3> QED
        BY <1>10, <3>2, <3>3 DEF DropDead
    <2> QED
      BY <2>1, <2>2, <2>3 DEF SessTypeOK, CallType
  <1>11. ASSUME NEW c \in Callers, RemoteClose(c) PROVE SessTypeOK'
    <2>1. UNCHANGED <<sessions, shell, backing, tunnel, cancels>>
      BY <1>11 DEF RemoteClose
    <2>2. PICK h \in Hosts :
            /\ hostSession' = [hostSession EXCEPT ![h] = NoSession]
            /\ \/ call' = call
               \/ /\ hostSession[h] \in sessions
                  /\ call' = [call EXCEPT ![c] = [at |-> "closing", host |-> h,
                                sid |-> hostSession[h], batch |-> FALSE, retried |-> FALSE]]
      BY <1>11 DEF RemoteClose
    <2>3. CallType'
      <3> DEFINE made == [at |-> "closing", host |-> h, sid |-> hostSession[h],
                          batch |-> FALSE, retried |-> FALSE]
      <3>1. hostSession[h] \in Sessions => made \in Call
        BY DEF Call
      <3>2. call' = call \/ (made \in Call /\ call' = [call EXCEPT ![c] = made])
        BY <2>2, <3>1 DEF SessTypeOK
      <3> HIDE DEF made
      <3> QED
        BY <1>0, <3>2 DEF CallType
    <2> QED
      BY <2>1, <2>2, <2>3 DEF SessTypeOK, CallType
  <1>12. ASSUME NEW c \in Callers, CloseSession(c) PROVE SessTypeOK'
    <2>1. PICK s \in Sessions : s = call[c].sid
      BY <1>0, <1>12 DEF CloseSession, At, CallOK, HasSession
    <2>2. /\ shell' = [shell EXCEPT ![s] = "closed"] /\ sessions' = sessions \ {s}
          /\ UNCHANGED <<backing, hostSession, tunnel, cancels>> /\ Ends(c)
      BY <1>12, <2>1 DEF CloseSession
    <2> QED
      BY <1>0, <2>2, EndsCall DEF SessTypeOK, CallType
  <1>13. ASSUME NEW c \in Callers, CancelCall(c) PROVE SessTypeOK'
    <2>1. /\ shell' = shell \/ shell' = [shell EXCEPT ![call[c].sid] = "closed"]
          /\ UNCHANGED <<sessions, backing, hostSession, tunnel>> /\ Ends(c)
          /\ cancels < MaxCancels /\ cancels' = cancels + 1
      BY <1>13 DEF CancelCall
    <2>2. shell' \in [Sessions -> {"none", "starting", "up", "eof", "closed"}]
      BY <2>1 DEF SessTypeOK
    <2>3. cancels' \in 0 .. MaxCancels
      BY <2>1, TaskKinds DEF SessTypeOK
    <2> QED
      BY <1>0, <2>1, <2>2, <2>3, EndsCall DEF SessTypeOK, CallType
  <1>14. ASSUME NEW t \in Tunnels,
                OpenTunnel(t) \/ TunnelUp(t) \/ TunnelFails(t) \/ CloseTunnel(t)
                \/ TunnelClosed(t) \/ CancelTunnel(t)
         PROVE  SessTypeOK'
    <2>1. /\ UNCHANGED <<sessions, shell, backing, hostSession, call>>
          /\ cancels' = cancels \/ (cancels < MaxCancels /\ cancels' = cancels + 1)
          /\ \E life \in {"opening", "up", "closing", "gone"} : tunnel' = [tunnel EXCEPT ![t] = life]
      BY <1>14 DEF OpenTunnel, TunnelUp, TunnelFails, CloseTunnel, TunnelClosed, CancelTunnel
    <2>2. cancels' \in 0 .. MaxCancels
      BY <2>1, TaskKinds DEF SessTypeOK
    <2> QED
      BY <2>1, <2>2 DEF SessTypeOK
  <1>15. ASSUME NEW t \in Tasks, Quit(t) PROVE SessTypeOK'
    <2>1. CallType' /\ UNCHANGED <<sessions, backing, hostSession, cancels>>
      BY <1>0, <1>15 DEF Quit, CallType
    <2>2. shell' \in [Sessions -> {"none", "starting", "up", "eof", "closed"}]
      BY <1>15 DEF Quit, SessTypeOK
    <2>3. tunnel' \in [Tunnels -> {"none", "opening", "up", "closing", "gone"}]
      BY <1>15 DEF Quit, SessTypeOK
    <2> QED
      BY <2>1, <2>2, <2>3 DEF SessTypeOK, CallType
  <1>16. ASSUME NEW s \in Sessions, ShellExits(s) PROVE SessTypeOK'
    BY <1>16 DEF ShellExits, SessTypeOK
  <1>17. CASE Shutdown
    <2>1. sessions' = {} /\ UNCHANGED <<backing, hostSession, tunnel, call, cancels>>
      BY <1>17 DEF Shutdown
    <2>2. shell' \in [Sessions -> {"none", "starting", "up", "eof", "closed"}]
      BY <1>17 DEF Shutdown, SessTypeOK
    <2> QED
      BY <2>1, <2>2 DEF SessTypeOK
  <1>18. CASE \E t \in Tasks : Acquiring(t) \/ AcquireRestarts(t) \/ AcquireFails(t)
    BY <1>1, <1>15, <1>18 DEF Acquiring, AcquireRestarts, AcquireFails
  <1>19. CASE Environment \/ UNCHANGED allVars
    BY <1>1, <1>19 DEF Environment, allVars
  <1> QED
    BY <1>2, <1>3, <1>4, <1>5, <1>6, <1>7, <1>8, <1>9, <1>10, <1>11, <1>12, <1>13, <1>14,
       <1>16, <1>17, <1>18, <1>19 DEF SessNext

-----------------------------------------------------------------------------
(* The sessions' invariant, action by action.                              *)

\* A task gives its connection back.
LEMMA ReleasedTask ==
    ASSUME TypeOK, NEW t \in Tasks, Release(t)
    PROVE  OpRest(t) /\ op'[t] = Idle /\ IsHolding(t)
  BY IdledTask DEF Release

\* A session that uses the pool is registered or set up.
LEMMA BusySession ==
    ASSUME SessInv, NEW s \in Sessions, op[s] # Idle
    PROVE  (IsHolding(s) /\ shell[s] \in {"up", "eof"}) \/ shell[s] = "starting"
  <1>1. CASE s \in sessions /\ IsHolding(s)
    BY <1>1 DEF SessInv, Live
  <1>2. ASSUME NEW c \in Callers, SetsUp(c, s) PROVE shell[s] = "starting"
    BY <1>2 DEF SessInv, CallOK, SetsUp
  <1> QED
    BY <1>1, <1>2 DEF SessInv, SlotOK

\* A session that is not registered any more has given its slot back, unless
\* it is being set up: _invalidate leaves it put away in both cases.
LEMMA InvalidatePutsAway ==
    ASSUME TypeOK, SessTypeOK, SessInv, NEW c \in Callers, NEW s \in Sessions,
           HasSession(c), call[c].sid = s, Invalidate(s)
    PROVE  /\ shell' = [shell EXCEPT ![s] = "closed"] /\ sessions' = sessions \ {s}
           /\ OpRest(s) /\ op'[s] = Idle
  <1>1. CASE s \in sessions
    BY <1>1, TaskKinds, IdledTask DEF Invalidate, ReleaseSlot
  <1>2. CASE s \notin sessions
    <2>1. shell[s] = "closed"
      BY <1>2 DEF SessInv, Live, CallOK
    <2>2. op[s] = Idle
      BY <2>1, BusySession
    <2> QED
      BY <1>2, <2>1, <2>2 DEF Invalidate, SessTypeOK, OpRest
  <1> QED
    BY <1>1, <1>2

Calls(c) ==
    \/ RemoteShell(c) \/ UseSession(c) \/ SetUp(c) \/ ProbeDone(c)
    \/ Spawn(c) \/ Spawned(c) \/ SpawnFails(c) \/ Booted(c) \/ BootFails(c)
    \/ Acquire(c) \/ Done(c) \/ TimedOut(c) \/ Died(c) \/ DropDead(c)
    \/ RemoteClose(c) \/ CloseSession(c) \/ CancelCall(c)

\* Steps of the callers keep SessInv.
LEMMA CallerStep ==
    ASSUME TypeOK, SessTypeOK, SessInv, NEW c \in Callers, Calls(c)
    PROVE  SessInv'
  <1>0. /\ CallType /\ CallOK(c) /\ Live
        /\ call[c].at \in {"probe", "spawn"} => SetsUp(c, call[c].sid)
        /\ hostSession \in [Hosts -> Sessions \cup {NoSession}]
    BY DEF SessTypeOK, CallType, SessInv, SetsUp
  <1>1. CASE RemoteShell(c)
    <2>1. PICK h \in Hosts, b \in BOOLEAN :
              call' = [call EXCEPT ![c] = [at |-> "ensure", host |-> h, sid |-> NoSession,
                                           batch |-> b, retried |-> FALSE]]
      BY <1>1 DEF RemoteShell
    <2>2. Rest(c) /\ Becomes(c, "ensure", h, NoSession)
      BY <1>0, <2>1 DEF CallType, Rest, Becomes, Call
    <2>3. MovesOn(c)
      BY <1>1, <2>2 DEF RemoteShell, MovesOn, NoCall, vars
    <2> QED
      BY <2>3, MovesOnStep
  <1>2. CASE UseSession(c)
    <2>1. PICK s \in Sessions : s = hostSession[call[c].host] /\ s \in sessions
      BY <1>2 DEF UseSession, SessTypeOK
    <2>2. call[c] # NoCall /\ call[c].host \in Hosts
      BY <1>0, <1>2, CallCases DEF UseSession, At
    <2>3. Rest(c) /\ \E place \in {"queued", "running"} : Becomes(c, place, call[c].host, s)
      BY <1>0, <1>2, <2>1, <2>2, BeginCall DEF UseSession
    <2>4. MovesOn(c)
      BY <1>0, <1>2, <2>1, <2>2, <2>3 DEF UseSession, At, MovesOn, Live, vars
    <2> QED
      BY <2>4, MovesOnStep
  <1>3. CASE SetUp(c)
    <2>1. PICK s \in Sessions :
            /\ shell[s] = "none" /\ Resolve(s, call[c].host)
            /\ IF op'[s] = Idle
               THEN Ends(c) /\ shell' = shell
               ELSE /\ call' = [call EXCEPT ![c].at = "probe", ![c].sid = s]
                    /\ shell' = [shell EXCEPT ![s] = "starting"]
      BY <1>3 DEF SetUp, StartSetUp
    <2>2. call[c] # NoCall /\ call[c].host \in Hosts
      BY <1>0, <1>3, CallCases DEF SetUp, At
    <2>3. OpRest(s) /\ (op'[s] = Idle \/ op'[s].name = call[c].host) /\ s \in Tasks
      BY <2>1, <2>2, TaskKinds, ResolveTask
    <2>4. CASE op'[s] = Idle
      <3>1. op[s] = Idle
        BY <2>1, BusySession
      <3>2. op' = op
        <4>1. \E new : op' = [op EXCEPT ![s] = new]
          BY <2>1 DEF Resolve
        <4> QED
          BY <2>3, <2>4, <3>1, <4>1 DEF TypeOK
      <3>3. Rest(c) /\ call'[c] = NoCall
        BY <1>0, <2>1, <2>4, EndsCall
      <3>4. hostSession' = [hostSession EXCEPT ![call[c].host] = NoSession]
        BY <1>3 DEF SetUp, StartSetUp
      <3>5. MovesOn(c)
        BY <1>0, <1>3, <2>1, <2>4, <3>2, <3>3, <3>4 DEF SetUp, StartSetUp, At, MovesOn
      <3> QED
        BY <3>5, MovesOnStep
    <2>5. CASE op'[s] # Idle
      <3>1. Rest(c) /\ Becomes(c, "probe", call[c].host, s)
        <4>1. call' = [call EXCEPT ![c].at = "probe", ![c].sid = s]
          BY <2>1, <2>5
        <4> QED
          BY <1>0, <2>2, <4>1 DEF CallType, Rest, Becomes, Call
      <3>2. StartsSetUp(c, s)
        BY <1>3, <2>1, <2>3, <2>5, <3>1 DEF SetUp, StartSetUp, StartsSetUp
      <3> QED
        BY <3>2, SetUpStep
    <2> QED
      BY <2>4, <2>5
  <1>4. CASE ProbeDone(c)
    <2>1. PICK s \in Sessions : s = call[c].sid /\ SetsUp(c, s)
      BY <1>0, <1>4 DEF ProbeDone, At, CallOK
    <2>2. /\ OpRest(s) /\ op'[s] = Idle /\ UNCHANGED <<sessions, backing, hostSession>>
          /\ call[c] # NoCall
      BY <1>4, <2>1, TaskKinds, ReleasedTask DEF ProbeDone, At, NoCall
    <2>3. CASE Goto(c, "spawn") /\ shell' = shell
      <3>1. Rest(c) /\ Becomes(c, "spawn", call[c].host, s)
        BY <1>0, <2>1, <2>2, <2>3, GotoCall
      <3> QED
        BY <2>1, <2>2, <2>3, <3>1, ProbedStep
    <2>4. CASE Ends(c) /\ shell' = [shell EXCEPT ![s] = "closed"]
      <3>1. s \notin sessions
        BY <1>0, <2>1 DEF CallOK, SetsUp, Live
      <3>2. PutsAway(c, s)
        BY <1>0, <2>1, <2>2, <2>4, <3>1, EndsCall DEF PutsAway
      <3> QED
        BY <3>2, PutAwayStep
    <2> QED
      BY <1>4, <2>1, <2>3, <2>4 DEF ProbeDone
  <1>5. CASE Spawn(c)
    <2>1. PICK s \in Sessions : s = call[c].sid /\ SetsUp(c, s) /\ s \notin sessions
      BY <1>0, <1>5 DEF Spawn, At, CallOK, Live
    <2>2. call[c].host \in Hosts
      BY <1>0, <1>5, CallCases DEF Spawn, At
    <2>3. /\ OpRest(s) /\ (op'[s] = Idle \/ op'[s].name = call[c].host) /\ s \in Tasks
          /\ UNCHANGED <<sessions, backing, hostSession>>
      BY <1>5, <2>1, <2>2, TaskKinds, ResolveTask DEF Spawn
    <2>4. CASE op'[s] = Idle
      <3>1. Ends(c) /\ shell' = [shell EXCEPT ![s] = "closed"]
        BY <1>5, <2>1, <2>4 DEF Spawn
      <3>2. PutsAway(c, s)
        BY <1>0, <2>1, <2>3, <2>4, <3>1, EndsCall DEF PutsAway
      <3> QED
        BY <3>2, PutAwayStep
    <2>5. CASE op'[s] # Idle
      <3>1. UNCHANGED <<call, shell>>
        BY <1>5, <2>1, <2>5 DEF Spawn
      <3> QED
        BY <2>1, <2>3, <2>5, <3>1, TaskStep
    <2> QED
      BY <2>4, <2>5
  <1>6. CASE Spawned(c)
    BY <1>6, SpawnedStep
  <1>7. CASE SpawnFails(c)
    <2>1. PICK s \in Sessions : s = call[c].sid /\ SetsUp(c, s) /\ s \notin sessions
      BY <1>0, <1>7 DEF SpawnFails, At, CallOK, Live
    <2>2. OpRest(s) /\ op'[s] = Idle
      BY <1>7, <2>1, TaskKinds, ReleasedTask DEF SpawnFails
    <2>3. PutsAway(c, s)
      BY <1>0, <1>7, <2>1, <2>2, EndsCall DEF PutsAway, SpawnFails
    <2> QED
      BY <2>3, PutAwayStep
  <1>8. CASE Booted(c)
    <2>1. PICK s \in Sessions : s = call[c].sid /\ shell[s] \in {"up", "eof", "closed"}
      BY <1>0, <1>8 DEF Booted, At, CallOK, HasSession
    <2>2. call[c] # NoCall /\ call[c].host \in Hosts
      BY <1>0, <1>8, CallCases DEF Booted, At
    <2>3. Rest(c) /\ \E place \in {"queued", "running"} : Becomes(c, place, call[c].host, s)
      BY <1>0, <1>8, <2>1, <2>2, BeginCall DEF Booted
    <2>4. MovesOn(c)
      BY <1>0, <1>8, <2>1, <2>2, <2>3 DEF Booted, At, LocksHost, MovesOn, vars
    <2> QED
      BY <2>4, MovesOnStep
  <1>9. CASE BootFails(c) \/ TimedOut(c) \/ Died(c)
    <2>1. PICK s \in Sessions : s = call[c].sid
      BY <1>0, <1>9 DEF BootFails, TimedOut, Died, At, CallOK, HasSession
    <2>2. /\ HasSession(c) /\ call[c].at # "dead" /\ call[c] # NoCall
          /\ Invalidate(s) /\ UNCHANGED <<backing, hostSession>>
          /\ Ends(c) \/ Goto(c, "dead") \/ call' = call
      BY <1>9, <2>1 DEF BootFails, TimedOut, Died, At, HasSession, NoCall
    <2>3. /\ Rest(c)
          /\ call'[c] = NoCall \/ Becomes(c, "dead", call[c].host, s) \/ call'[c] = call[c]
      BY <1>0, <2>1, <2>2, EndsCall, GotoCall DEF Rest
    <2>4. PutsAway(c, s)
      BY <2>1, <2>2, <2>3, InvalidatePutsAway DEF PutsAway
    <2> QED
      BY <2>4, PutAwayStep
  <1>10. CASE Acquire(c) \/ Done(c)
    <2>1. PICK s \in Sessions : s = call[c].sid /\ shell[s] \in {"up", "eof", "closed"}
      BY <1>0, <1>10 DEF Acquire, Done, At, CallOK, HasSession
    <2>2. /\ UNCHANGED <<sessions, shell, backing, op, hostSession>>
          /\ call[c] # NoCall /\ call[c].host \in Hosts /\ call[c].at \notin {"probe", "spawn"}
          /\ Ends(c) \/ Goto(c, "running")
      BY <1>0, <1>10, CallCases DEF Acquire, Done, At, vars
    <2>3. Rest(c) /\ (call'[c] = NoCall \/ Becomes(c, "running", call[c].host, s))
      BY <1>0, <2>1, <2>2, EndsCall, GotoCall
    <2>4. MovesOn(c)
      BY <2>1, <2>2, <2>3 DEF MovesOn
    <2> QED
      BY <2>4, MovesOnStep
  <1>11. CASE DropDead(c)
    <2>1. /\ UNCHANGED <<sessions, shell, backing, op>> /\ call[c] \in Call
          /\ call[c].host \in Hosts /\ call[c].sid \in Sessions
          /\ call[c].at \notin {"probe", "spawn"}
          /\ \A h \in Hosts : hostSession'[h] \in {hostSession[h], NoSession}
      BY <1>0, <1>11, CallCases DEF DropDead, At, vars, CallOK, HasSession
    <2>2. Rest(c) /\ (call'[c] = NoCall \/ Becomes(c, "ensure", call[c].host, call[c].sid))
      <3>1. CASE Ends(c)
        BY <1>0, <3>1, EndsCall
      <3>2. CASE call' = [call EXCEPT ![c].at = "ensure", ![c].retried = TRUE]
        BY <1>0, <2>1, <3>2 DEF CallType, Call, Rest, Becomes
      <3> QED
        BY <1>11, <3>1, <3>2 DEF DropDead
    <2>3. MovesOn(c)
      BY <2>1, <2>2 DEF MovesOn
    <2> QED
      BY <2>3, MovesOnStep
  <1>12. CASE RemoteClose(c)
    <2>1. PICK h \in Hosts :
            /\ hostSession' = [hostSession EXCEPT ![h] = NoSession]
            /\ \/ call' = call
               \/ /\ hostSession[h] \in sessions
                  /\ call' = [call EXCEPT ![c] = [at |-> "closing", host |-> h,
                                sid |-> hostSession[h], batch |-> FALSE, retried |-> FALSE]]
      BY <1>12 DEF RemoteClose
    <2>2. /\ UNCHANGED <<sessions, shell, backing, op>> /\ call[c] = NoCall
          /\ \A g \in Hosts : hostSession'[g] \in {hostSession[g], NoSession}
      BY <1>0, <1>12, <2>1 DEF RemoteClose, vars
    <2>3. \/ call'[c] = call[c]
          \/ \E s \in Sessions : Becomes(c, "closing", h, s) /\ shell[s] \in {"up", "eof"}
      <3>1. CASE call' = call
        BY <3>1
      <3>2. CASE call' # call
        <4>1. PICK s \in Sessions : s = hostSession[h] /\ s \in sessions
          BY <2>1, <3>2 DEF SessTypeOK
        <4>2. call' = [call EXCEPT ![c] = [at |-> "closing", host |-> h, sid |-> s,
                                           batch |-> FALSE, retried |-> FALSE]]
          BY <2>1, <3>2, <4>1
        <4> QED
          BY <1>0, <4>1, <4>2 DEF CallType, Becomes, Call, Live
      <3> QED
        BY <3>1, <3>2
    <2>4. Rest(c)
      BY <1>0, <2>1 DEF Rest, CallType
    <2>5. MovesOn(c)
      BY <2>2, <2>3, <2>4 DEF MovesOn, NoCall, LocksHost
    <2> QED
      BY <2>5, MovesOnStep
  <1>13. CASE CloseSession(c)
    <2>1. PICK s \in Sessions : s = call[c].sid
      BY <1>0, <1>13 DEF CloseSession, At, CallOK, HasSession
    <2>2. /\ ReleaseSlot(s) /\ HasSession(c) /\ Ends(c)
          /\ shell' = [shell EXCEPT ![s] = "closed"] /\ sessions' = sessions \ {s}
          /\ UNCHANGED <<backing, hostSession>>
      BY <1>13, <2>1 DEF CloseSession, At, HasSession
    <2>3. OpRest(s) /\ op'[s] = Idle
      BY <2>2, TaskKinds, IdledTask DEF ReleaseSlot
    <2>4. PutsAway(c, s)
      BY <1>0, <2>1, <2>2, <2>3, EndsCall DEF PutsAway
    <2> QED
      BY <2>4, PutAwayStep
  <1>14. CASE CancelCall(c)
    <2>0. Ends(c) /\ Rest(c) /\ call'[c] = NoCall /\ UNCHANGED <<sessions, backing, hostSession>>
      BY <1>0, <1>14, EndsCall DEF CancelCall
    <2>1. CASE /\ call[c].at \in {"ensure", "boot", "queued", "running", "dead"}
               /\ UNCHANGED <<vars, shell>>
      <3>1. MovesOn(c)
        BY <1>14, <2>0, <2>1 DEF MovesOn, vars
      <3> QED
        BY <3>1, MovesOnStep
    <2>2. CASE /\ At(c, "probe") /\ Release(call[c].sid)
               /\ shell' = [shell EXCEPT ![call[c].sid] = "closed"]
      <3>1. PICK s \in Sessions : s = call[c].sid /\ SetsUp(c, s) /\ s \notin sessions
        BY <1>0, <2>2 DEF At, CallOK, Live
      <3>2. OpRest(s) /\ op'[s] = Idle
        BY <2>2, <3>1, TaskKinds, ReleasedTask
      <3>3. PutsAway(c, s)
        BY <2>0, <2>2, <3>1, <3>2 DEF PutsAway
      <3> QED
        BY <3>3, PutAwayStep
    <2>3. CASE At(c, "closing") /\ ReleaseSlot(call[c].sid) /\ UNCHANGED <<poolRest, shell>>
      BY <2>0, <2>3, CancelledCloseStep
    <2> QED
      BY <1>14, <2>1, <2>2, <2>3 DEF CancelCall
  <1> QED
    BY <1>1, <1>2, <1>3, <1>4, <1>5, <1>6, <1>7, <1>8, <1>9, <1>10, <1>11, <1>12, <1>13, <1>14
    DEF Calls

\* A session in get_connection is being set up.
LEMMA CallingSession ==
    ASSUME TypeOK, SessInv, NEW t \in Sessions, IsCalling(t)
    PROVE  /\ t \notin sessions
           /\ \E c \in Callers : SetsUp(c, t) /\ op[t].name = call[c].host
  <1>1. op[t] # Idle /\ ~IsHolding(t)
    BY TaskKinds, IdleTask
  <1>2. PICK c \in Callers : SetsUp(c, t)
    BY <1>1 DEF SessInv, SlotOK
  <1>3. shell[t] = "starting" /\ op[t].name = call[c].host
    BY <1>1, <1>2 DEF SessInv, CallOK, SetsUp
  <1> QED
    BY <1>2, <1>3 DEF SessInv, Live

\* A caller whose get_connection raised leaves, and its session with it.
LEMMA QuitStep ==
    ASSUME TypeOK, SessTypeOK, SessInv, NEW t \in Tasks, IsCalling(t),
           OpRest(t), op'[t] = Idle, Quit(t)
    PROVE  SessInv'
  <1>1. UNCHANGED <<sessions, backing, hostSession>>
    BY DEF Quit
  <1>2. \A c \in Callers : call'[c] = IF call[c].at \in {"probe", "spawn"} /\ call[c].sid = t
                                      THEN NoCall ELSE call[c]
    BY DEF Quit
  <1>3. CASE t \in Sessions
    <2>1. t \notin sessions /\ \E c \in Callers : SetsUp(c, t)
      BY <1>3, CallingSession
    <2>2. PICK c \in Callers : SetsUp(c, t)
      BY <2>1
    <2>3. Rest(c) /\ call'[c] = NoCall
      BY <1>2, <1>3, <2>2 DEF SessInv, OneSetUp, SetsUp, Rest
    <2>4. shell' = [shell EXCEPT ![t] = "closed"]
      BY <1>3 DEF Quit, SessTypeOK
    <2>5. PutsAway(c, t)
      BY <1>1, <2>1, <2>2, <2>3, <2>4 DEF PutsAway
    <2> QED
      BY <1>3, <2>5, PutAwayStep
  <1>4. CASE t \notin Sessions
    <2>1. shell' = shell
      BY <1>4 DEF Quit, SessTypeOK
    <2>2. \A c \in Callers : call'[c] = call[c]
      BY <1>2, <1>4 DEF SessInv, CallOK
    <2>3. call' = call
      BY <2>2 DEF Quit, SessTypeOK
    <2> QED
      BY <1>1, <1>4, <2>1, <2>3, TaskStep
  <1> QED
    BY <1>3, <1>4

\* Superseded resolves the host again, under the name it had.
LEMMA SupersededTask ==
    ASSUME TypeOK, NEW t \in Tasks, Superseded(t)
    PROVE  /\ OpRest(t) /\ IsCalling(t)
           /\ op'[t] = Idle \/ (IsCalling(t)' /\ ~IsHolding(t)' /\ op'[t].name = op[t].name)
  <1>1. IsCalling(t)
    BY OpCases DEF Superseded
  <1> QED
    BY <1>1, ResolveTask DEF Superseded

\* get_connection raises.
LEMMA FailTask ==
    ASSUME TypeOK, NEW t \in Tasks, Fail(t)
    PROVE  OpRest(t) /\ IsCalling(t) /\ op'[t] = Idle
  BY IdledTask DEF Fail

TunnelMoves(t) ==
    OpenTunnel(t) \/ TunnelUp(t) \/ TunnelFails(t) \/ CloseTunnel(t)
    \/ TunnelClosed(t) \/ CancelTunnel(t)

\* Steps of a tunnel change its own task at most.
LEMMA TunnelTask ==
    ASSUME TypeOK, NEW t \in Tunnels, TunnelMoves(t)
    PROVE  /\ OpRest(t)
           /\ UNCHANGED <<sessions, shell, backing, hostSession, call>>
           /\ op'[t] = op[t] \/ op'[t] = Idle
              \/ (IsCalling(t)' /\ ~IsHolding(t)')
  <1>0. t \in Tasks
    BY TaskKinds
  <1>1. CASE OpenTunnel(t)
    BY <1>0, <1>1, ResolveTask DEF OpenTunnel
  <1>2. CASE TunnelUp(t) \/ CloseTunnel(t) \/ CancelTunnel(t)
    BY <1>2 DEF TunnelUp, CloseTunnel, CancelTunnel, vars, OpRest
  <1>3. CASE TunnelFails(t) \/ TunnelClosed(t)
    BY <1>0, <1>3, ReleasedTask DEF TunnelFails, TunnelClosed
  <1> QED
    BY <1>1, <1>2, <1>3 DEF TunnelMoves

\* Every step keeps SessInv.
LEMMA SessInvStep ==
    ASSUME TypeOK, SessTypeOK, SessInv, [SessNext]_allVars
    PROVE  SessInv'
  <1>1. ASSUME NEW t \in Tasks, Acquiring(t) PROVE SessInv'
    <2>1. /\ OpRest(t) /\ IsCalling(t) /\ op'[t].name = op[t].name
          /\ UNCHANGED <<sessions, shell, backing, hostSession, call>>
      BY <1>1, AcquiringTask DEF Acquiring, sessVars
    <2>2. t \in Sessions => \E c \in Callers : SetsUp(c, t) /\ op[t].name = call[c].host
      BY <2>1, CallingSession
    <2> QED
      BY <2>1, <2>2, TaskStep
  <1>2. ASSUME NEW t \in Tasks, AcquireRestarts(t) PROVE SessInv'
    <2>1. /\ OpRest(t) /\ IsCalling(t)
          /\ op'[t] = Idle \/ op'[t].name = op[t].name
      BY <1>2, SupersededTask DEF AcquireRestarts
    <2>2. CASE op'[t] = Idle
      BY <1>2, <2>1, <2>2, QuitStep DEF AcquireRestarts
    <2>3. CASE op'[t] # Idle
      <3>1. UNCHANGED <<sessions, shell, backing, hostSession, call>>
        BY <1>2, <2>3 DEF AcquireRestarts, sessVars
      <3>2. t \in Sessions => \E c \in Callers : SetsUp(c, t) /\ op[t].name = call[c].host
        BY <2>1, CallingSession
      <3> QED
        BY <2>1, <2>3, <3>1, <3>2, TaskStep
    <2> QED
      BY <2>2, <2>3
  <1>3. ASSUME NEW t \in Tasks, AcquireFails(t) PROVE SessInv'
    BY <1>3, FailTask, QuitStep DEF AcquireFails
  <1>4. ASSUME NEW t \in Tunnels, TunnelMoves(t) PROVE SessInv'
    BY <1>4, TunnelTask, TaskKinds, TaskStep
  <1>5. CASE Environment \/ UNCHANGED allVars
    <2>1. UNCHANGED <<op, sessions, shell, backing, hostSession, call>>
      BY <1>5 DEF Environment, sessVars, allVars, vars, RegisterHost, RemoveHost,
                  CloseAllStep, Lose
    <2> QED
      BY <2>1, SessFrame
  <1> QED
    BY <1>1, <1>2, <1>3, <1>4, <1>5, CallerStep, ShellExitsStep, ShutdownStep
    DEF SessNext, Calls, TunnelMoves

-----------------------------------------------------------------------------
(* Tunnels.                                                                *)

\* A caller moves no task but a session.
LEMMA CallerTask ==
    ASSUME TypeOK, SessTypeOK, SessInv, NEW c \in Callers, Calls(c)
    PROVE  /\ UNCHANGED tunnel /\ cancels' \in {cancels, cancels + 1}
           /\ \/ UNCHANGED op
              \/ \E s \in Sessions : /\ OpRest(s)
                                     /\ op'[s] = Idle \/ ~IsHolding(s)'
  <1>0. CallType /\ CallOK(c)
    BY DEF SessTypeOK, CallType, SessInv
  <1>1. CASE RemoteShell(c) \/ UseSession(c) \/ Spawned(c) \/ Booted(c) \/ Acquire(c)
             \/ Done(c) \/ DropDead(c) \/ RemoteClose(c)
    BY <1>1 DEF RemoteShell, UseSession, Spawned, Booted, Acquire, Done, DropDead, RemoteClose,
                vars
  <1>2. CASE SetUp(c) \/ Spawn(c)
    <2>1. PICK s \in Sessions : Resolve(s, call[c].host)
      BY <1>0, <1>2 DEF SetUp, StartSetUp, Spawn, At, CallOK
    <2>3. OpRest(s) /\ (op'[s] = Idle \/ ~IsHolding(s)')
      BY <2>1, TaskKinds, ResolveTask
    <2>4. UNCHANGED <<tunnel, cancels>>
      BY <1>2 DEF SetUp, StartSetUp, Spawn
    <2> QED
      BY <2>3, <2>4
  <1>3. CASE ProbeDone(c) \/ SpawnFails(c)
    <2>1. PICK s \in Sessions : s = call[c].sid /\ Release(s)
      BY <1>0, <1>3 DEF ProbeDone, SpawnFails, At, CallOK
    <2>2. OpRest(s) /\ op'[s] = Idle
      BY <2>1, TaskKinds, ReleasedTask
    <2> QED
      BY <1>3, <2>2 DEF ProbeDone, SpawnFails
  <1>4. CASE BootFails(c) \/ TimedOut(c) \/ Died(c)
    <2>1. PICK s \in Sessions : s = call[c].sid /\ Invalidate(s)
      BY <1>0, <1>4 DEF BootFails, TimedOut, Died, At, CallOK, HasSession
    <2>2. UNCHANGED op \/ (OpRest(s) /\ op'[s] = Idle)
      BY <2>1, TaskKinds, IdledTask DEF Invalidate, ReleaseSlot
    <2> QED
      BY <1>4, <2>2 DEF BootFails, TimedOut, Died
  <1>5. CASE CloseSession(c)
    <2>1. PICK s \in Sessions : s = call[c].sid /\ ReleaseSlot(s)
      BY <1>0, <1>5 DEF CloseSession, At, CallOK, HasSession
    <2>2. OpRest(s) /\ op'[s] = Idle
      BY <2>1, TaskKinds, IdledTask DEF ReleaseSlot
    <2> QED
      BY <1>5, <2>2 DEF CloseSession
  <1>6. CASE CancelCall(c)
    <2>1. UNCHANGED tunnel /\ cancels' = cancels + 1
      BY <1>6 DEF CancelCall
    <2>2. CASE UNCHANGED vars
      BY <2>1, <2>2 DEF vars
    <2>3. CASE At(c, "probe") /\ Release(call[c].sid)
      BY <1>0, <2>1, <2>3, TaskKinds, ReleasedTask DEF At, CallOK
    <2>4. CASE At(c, "closing") /\ ReleaseSlot(call[c].sid)
      BY <1>0, <2>1, <2>4, TaskKinds, IdledTask DEF At, CallOK, HasSession, ReleaseSlot
    <2> QED
      BY <1>6, <2>2, <2>3, <2>4 DEF CancelCall
  <1> QED
    BY <1>1, <1>2, <1>3, <1>4, <1>5, <1>6 DEF Calls

TunnelKept(t) == TunnelOK(t)' /\ (StrayTunnel(t)' => StrayTunnel(t) \/ CancelTunnel(t))

\* Every step keeps what is said of a tunnel, and only the cancellation of
\* its opening leaves it stray.
LEMMA TunnelStep ==
    ASSUME TypeOK, SessTypeOK, SessInv, [SessNext]_allVars,
           NEW t \in Tunnels, TunnelOK(t)
    PROVE  TunnelKept(t)
  <1>0. t \in Tasks /\ t \notin Sessions
    BY TaskKinds
  <1>1. ASSUME op'[t] = op[t], tunnel'[t] = tunnel[t]
        PROVE  TunnelKept(t)
    BY <1>0, <1>1 DEF TunnelKept, StrayTunnel, TunnelOK, IsCalling
  <1>2. ASSUME NEW c \in Callers, Calls(c) PROVE TunnelKept(t)
    BY <1>0, <1>1, <1>2, CallerTask DEF OpRest
  <1>3. ASSUME NEW u \in Tasks, Acquiring(u) PROVE TunnelKept(t)
    <2>1. /\ OpRest(u) /\ IsCalling(u) /\ UNCHANGED <<tunnel, cancels>>
          /\ IsCalling(u)' \/ IsHolding(u)'
      BY <1>3, AcquiringTask DEF Acquiring, sessVars
    <2>2. CASE u = t
      <3>1. op[t] # Idle
        BY <1>0, <2>1, <2>2, IdleTask
      <3>2. tunnel'[t] = "opening"
        BY <2>1, <2>2, <3>1 DEF TunnelKept, StrayTunnel, TunnelOK
      <3> QED
        BY <2>1, <2>2, <3>2 DEF TunnelKept, StrayTunnel, TunnelOK
    <2>3. CASE u # t
      BY <1>0, <1>1, <2>1, <2>3 DEF OpRest
    <2> QED
      BY <2>2, <2>3
  <1>4. ASSUME NEW u \in Tasks, AcquireRestarts(u) \/ AcquireFails(u) PROVE TunnelKept(t)
    <2>1. /\ OpRest(u) /\ IsCalling(u)
          /\ op'[u] = Idle \/ (IsCalling(u)' /\ ~IsHolding(u)')
          /\ IF op'[u] = Idle THEN Quit(u) ELSE UNCHANGED sessVars
      BY <1>4, SupersededTask, FailTask DEF AcquireRestarts, AcquireFails
    <2>2. CASE op'[u] = Idle
      <3>1. tunnel'[t] = (IF t = u THEN "gone" ELSE tunnel[t]) /\ cancels' = cancels
        BY <2>1, <2>2 DEF Quit
      <3>2. CASE u = t
        BY <2>2, <3>1, <3>2 DEF TunnelKept, StrayTunnel, TunnelOK, Idle, IsCalling
      <3>3. CASE u # t
        BY <1>0, <1>1, <2>1, <3>1, <3>3 DEF OpRest
      <3> QED
        BY <3>2, <3>3
    <2>3. CASE op'[u] # Idle
      <3>1. UNCHANGED <<tunnel, cancels>>
        BY <2>1, <2>3 DEF sessVars
      <3>2. CASE u = t
        <4>1. tunnel[t] = "opening"
          BY <2>1, <3>2 DEF TunnelKept, StrayTunnel, TunnelOK
        <4> QED
          BY <3>1, <4>1 DEF TunnelKept, StrayTunnel, TunnelOK
      <3>3. CASE u # t
        BY <1>0, <1>1, <2>1, <3>1, <3>3 DEF OpRest
      <3> QED
        BY <3>2, <3>3
    <2> QED
      BY <2>2, <2>3
  <1>5. ASSUME NEW u \in Tunnels, TunnelMoves(u) PROVE TunnelKept(t)
    <2>0. OpRest(u) /\ u \in Tasks
      BY <1>5, TunnelTask, TaskKinds
    <2>1. CASE u # t
      <3>1. tunnel'[t] = tunnel[t]
        BY <1>5, <2>1 DEF TunnelMoves, OpenTunnel, TunnelUp, TunnelFails, CloseTunnel,
                          TunnelClosed, CancelTunnel, SessTypeOK
      <3> QED
        BY <1>0, <1>1, <2>0, <2>1, <3>1 DEF OpRest
    <2>2. CASE u = t /\ OpenTunnel(t)
      <3>1. tunnel'[t] = IF op'[t] = Idle THEN "gone" ELSE "opening"
        BY <2>2 DEF OpenTunnel, SessTypeOK
      <3>2. op'[t] = Idle => ~IsCalling(t)'
        BY DEF Idle, IsCalling
      <3> QED
        BY <3>1, <3>2 DEF TunnelKept, StrayTunnel, TunnelOK
    <2>3. CASE u = t /\ (TunnelUp(t) \/ CancelTunnel(t))
      <3>1. IsHolding(t) /\ UNCHANGED op
        BY <2>3 DEF TunnelUp, CancelTunnel, vars
      <3>2. ~IsCalling(t)'
        BY <1>0, <3>1 DEF IsHolding, IsCalling
      <3>3. tunnel'[t] = "up" \/ (tunnel'[t] = "gone" /\ CancelTunnel(t))
        BY <2>3 DEF TunnelUp, CancelTunnel, SessTypeOK
      <3> QED
        BY <3>2, <3>3 DEF TunnelKept, StrayTunnel, TunnelOK
    <2>4. CASE u = t /\ CloseTunnel(t)
      <3>1. UNCHANGED op /\ tunnel[t] = "up" /\ tunnel'[t] = "closing"
        BY <2>4 DEF CloseTunnel, vars, SessTypeOK
      <3> QED
        BY <3>1 DEF TunnelKept, StrayTunnel, TunnelOK, IsCalling
    <2>5. CASE u = t /\ (TunnelFails(t) \/ TunnelClosed(t))
      <3>1. op'[t] = Idle /\ tunnel'[t] = "gone"
        BY <1>0, <2>5, ReleasedTask DEF TunnelFails, TunnelClosed, SessTypeOK
      <3> QED
        BY <3>1 DEF TunnelKept, StrayTunnel, TunnelOK, Idle, IsCalling
    <2> QED
      BY <1>5, <2>1, <2>2, <2>3, <2>4, <2>5 DEF TunnelMoves
  <1>6. CASE Environment \/ UNCHANGED allVars \/ \E s \in Sessions : ShellExits(s)
    <2>1. UNCHANGED <<op, tunnel, cancels>>
      BY <1>6 DEF Environment, sessVars, allVars, vars, ShellExits, RegisterHost, RemoveHost,
                  CloseAllStep, Lose
    <2> QED
      BY <1>1, <2>1
  <1>7. CASE Shutdown
    <2>1. op'[t] = op[t] /\ UNCHANGED <<tunnel, cancels>>
      BY <1>0, <1>7 DEF Shutdown, SessTypeOK
    <2> QED
      BY <1>1, <2>1
  <1> QED
    BY <1>2, <1>3, <1>4, <1>5, <1>6, <1>7 DEF SessNext, Calls, TunnelMoves

-----------------------------------------------------------------------------
(* What the steps are to the pool.                                         *)

\* A slot that was given back already is released once more.
ReleasesAgain ==
    UNCHANGED <<op, missed, poolRest>> /\ \E n, k : ReleaseConnection(n, k)

\* A session that gives its slot back has it, or gave it back before.
LEMMA SlotRelease ==
    ASSUME TypeOK, SessTypeOK, SessInv, NEW s \in Sessions, ReleaseSlot(s), UNCHANGED poolRest,
           shell[s] \in {"up", "eof", "closed"}
    PROVE  Release(s) \/ ReleasesAgain
  <1>1. CASE op[s] = Idle
    <2>1. UNCHANGED op
      BY <1>1, TaskKinds DEF ReleaseSlot, TypeOK
    <2> DEFINE n == backing[s].host
    <2> DEFINE k == backing[s].conn
    <2>2. ReleaseConnection(n, k) /\ (n \in Hosts \/ k \notin ConnIds)
      BY SizeAssumption DEF ReleaseSlot, SessTypeOK, NoBacking, ConnIds
    <2>3. missed' = missed
      <3> HIDE DEF n, k
      <3> QED
        BY <2>2 DEF ReleaseConnection, Misses, PoolNamed, NormalizeHostName, TypeOK
    <2> QED
      BY <2>1, <2>2, <2>3 DEF ReleasesAgain
  <1>2. CASE op[s] # Idle
    <2>1. IsHolding(s)
      BY <1>2, BusySession
    <2>2. backing[s].host = op[s].name /\ backing[s].conn = op[s].conn
      <3>1. backing[s] = [host |-> op[s].name, conn |-> op[s].conn]
        BY <2>1 DEF SessInv, SlotOK
      <3> QED
        BY <3>1
    <2> QED
      BY <2>1, <2>2 DEF ReleaseSlot, Release, poolRest
  <1> QED
    BY <1>1, <1>2

\* To the pool, a step is one of its own, a second release or the shutdown.
LEMMA PoolStep ==
    ASSUME TypeOK, SessTypeOK, SessInv, \A t \in Tunnels : TunnelOK(t), [SessNext]_allVars
    PROVE  [Next]_vars \/ ReleasesAgain \/ Shutdown
  <1>0. \A c \in Callers : CallType /\ CallOK(c)
    BY DEF SessTypeOK, CallType, SessInv
  <1>1. ASSUME NEW t \in Tasks, NEW n \in Names, op[t] = Idle, Resolve(t, n),
               UNCHANGED <<generation, lockObject, pool, pooled, connVars, downVars>>
        PROVE  Next
    BY <1>1 DEF GetConnection, Next
  <1>2. ASSUME NEW t \in Tasks, Release(t) PROVE Next
    BY <1>2 DEF Next
  <1>3. ASSUME NEW c \in Callers, Calls(c) PROVE [Next]_vars \/ ReleasesAgain
    <2>1. CASE RemoteShell(c) \/ UseSession(c) \/ Spawned(c) \/ Booted(c) \/ Acquire(c)
               \/ Done(c) \/ DropDead(c) \/ RemoteClose(c)
      BY <2>1 DEF RemoteShell, UseSession, Spawned, Booted, Acquire, Done, DropDead, RemoteClose
    <2>2. CASE SetUp(c)
      <3>1. PICK s \in Sessions : shell[s] = "none" /\ Resolve(s, call[c].host)
        BY <2>2 DEF SetUp, StartSetUp
      <3>2. op[s] = Idle
        BY <3>1, BusySession
      <3>3. call[c].host \in Hosts
        BY <1>0, <2>2, CallCases DEF SetUp, At
      <3>4. UNCHANGED <<generation, lockObject, pool, pooled, connVars, downVars>>
        BY <2>2 DEF SetUp, StartSetUp
      <3> QED
        BY <1>1, <3>1, <3>2, <3>3, <3>4, TaskKinds DEF Names
    <2>3. CASE Spawn(c)
      <3>1. PICK s \in Sessions : s = call[c].sid
        BY <1>0, <2>3 DEF Spawn, At, CallOK
      <3>2. call[c].host \in Hosts
        BY <1>0, <2>3, CallCases DEF Spawn, At
      <3> QED
        BY <1>1, <2>3, <3>1, <3>2, TaskKinds DEF Spawn, Names
    <2>4. CASE ProbeDone(c) \/ SpawnFails(c)
      <3>1. call[c].sid \in Sessions /\ Release(call[c].sid)
        BY <1>0, <2>4 DEF ProbeDone, SpawnFails, At, CallOK
      <3> QED
        BY <1>2, <3>1, TaskKinds
    <2>5. CASE BootFails(c) \/ TimedOut(c) \/ Died(c)
      <3>1. PICK s \in Sessions : s = call[c].sid /\ shell[s] \in {"up", "eof", "closed"}
        BY <1>0, <2>5 DEF BootFails, TimedOut, Died, At, CallOK, HasSession
      <3>2. Invalidate(s) /\ UNCHANGED poolRest
        BY <2>5, <3>1 DEF BootFails, TimedOut, Died
      <3>3. CASE s \in sessions
        BY <1>2, <3>1, <3>2, <3>3, TaskKinds, SlotRelease DEF Invalidate
      <3>4. CASE s \notin sessions
        BY <3>2, <3>4 DEF Invalidate, poolRest, vars, connVars
      <3> QED
        BY <3>3, <3>4
    <2>6. CASE CloseSession(c)
      <3>1. PICK s \in Sessions : s = call[c].sid /\ shell[s] \in {"up", "eof", "closed"}
        BY <1>0, <2>6 DEF CloseSession, At, CallOK, HasSession
      <3> QED
        BY <1>2, <2>6, <3>1, TaskKinds, SlotRelease DEF CloseSession
    <2>7. CASE CancelCall(c)
      <3>1. CASE UNCHANGED vars
        BY <3>1
      <3>2. CASE At(c, "probe") /\ Release(call[c].sid)
        BY <1>0, <1>2, <3>2, TaskKinds DEF At, CallOK
      <3>3. CASE At(c, "closing") /\ ReleaseSlot(call[c].sid) /\ UNCHANGED poolRest
        <4>1. PICK s \in Sessions : s = call[c].sid /\ shell[s] \in {"up", "eof", "closed"}
          BY <1>0, <3>3 DEF At, CallOK, HasSession
        <4> QED
          BY <1>2, <3>3, <4>1, TaskKinds, SlotRelease
      <3> QED
        BY <2>7, <3>1, <3>2, <3>3 DEF CancelCall
    <2> QED
      BY <1>3, <2>1, <2>2, <2>3, <2>4, <2>5, <2>6, <2>7 DEF Calls
  <1>4. ASSUME NEW t \in Tasks, Acquiring(t) \/ AcquireRestarts(t) \/ AcquireFails(t) PROVE Next
    BY <1>4 DEF Acquiring, AcquireRestarts, AcquireFails, Next
  <1>5. ASSUME NEW t \in Tunnels, TunnelMoves(t) PROVE [Next]_vars
    <2>1. CASE OpenTunnel(t)
      BY <1>1, <2>1, TaskKinds DEF OpenTunnel, TunnelOK
    <2>2. CASE TunnelUp(t) \/ CloseTunnel(t) \/ CancelTunnel(t)
      BY <2>2 DEF TunnelUp, CloseTunnel, CancelTunnel
    <2>3. CASE TunnelFails(t) \/ TunnelClosed(t)
      BY <1>2, <2>3, TaskKinds DEF TunnelFails, TunnelClosed
    <2> QED
      BY <1>5, <2>1, <2>2, <2>3 DEF TunnelMoves
  <1>6. CASE Environment \/ UNCHANGED allVars \/ \E s \in Sessions : ShellExits(s)
    BY <1>6 DEF Environment, allVars, ShellExits, Next
  <1> QED
    BY <1>3, <1>4, <1>5, <1>6 DEF SessNext, Calls, TunnelMoves

\* A second release lowers in_use at most, and may close a connection.
LEMMA AgainEffect ==
    ASSUME TypeOK, ReleasesAgain
    PROVE  /\ UNCHANGED <<op, registry, generation, lockObject, pool, pooled, missed, stale,
                          dialled, closing, shutdown>>
           /\ inUse' \in [ConnIds -> Nat] /\ \A k \in ConnIds : inUse'[k] <= inUse[k]
           /\ conn' \in [ConnIds -> {"none", "open", "lost", "closed"}]
           /\ \E S : Closes(S)
  <1>1. PICK n, k : ReleaseConnection(n, k)
    BY DEF ReleasesAgain
  <1>2. UNCHANGED <<op, registry, generation, lockObject, pool, pooled, missed, stale,
                    dialled, closing, shutdown>>
    BY DEF ReleasesAgain, poolRest, reconfVars, downVars
  <1>3. CASE k \notin PoolNamed(n)
    <2>1. UNCHANGED <<inUse, conn>>
      BY <1>1, <1>3 DEF ReleaseConnection
    <2>2. Closes({})
      BY <2>1 DEF Closes
    <2> QED
      BY <1>2, <2>1, <2>2 DEF TypeOK
  <1>4. CASE k \in PoolNamed(n)
    <2>1. PICK left : left = IF inUse[k] > 0 THEN inUse[k] - 1 ELSE 0
      OBVIOUS
    <2>2. PICK S : inUse' = [inUse EXCEPT ![k] = left] /\ conn' = CloseConns(S)
      BY <1>1, <1>4, <2>1 DEF ReleaseConnection
    <2>3. k \in ConnIds /\ inUse[k] \in Nat /\ left \in Nat /\ left <= inUse[k]
      BY <1>4, <2>1 DEF PoolNamed, TypeOK
    <2>4. Closes(S) /\ conn' \in [ConnIds -> {"none", "open", "lost", "closed"}]
      BY <2>2 DEF Closes, CloseConns, TypeOK
    <2>5. inUse' \in [ConnIds -> Nat] /\ \A c \in ConnIds : inUse'[c] <= inUse[c]
      BY <2>2, <2>3 DEF TypeOK
    <2> QED
      BY <1>2, <2>4, <2>5
  <1> QED
    BY <1>3, <1>4

\* What a shutdown leaves of the pool.
LEMMA ShutdownEffect ==
    ASSUME TypeOK, SessTypeOK, Shutdown
    PROVE  /\ UNCHANGED <<registry, generation, lockObject, pooled, conn, missed, stale, dialled>>
           /\ \A t \in Tasks : op'[t] = Idle \/ op'[t] = op[t]
           /\ op' \in [Tasks -> {Idle} \cup Calling \cup Holding]
           /\ inUse' \in [ConnIds -> Nat]
           /\ \A h \in Hosts : pool'[h] = {}
           /\ pool' \in [Hosts -> SUBSET ConnIds] /\ shutdown'
           /\ closing' = UNION {pool[h] : h \in Hosts}
  <1>1. /\ UNCHANGED <<registry, generation, lockObject, pooled, conn, missed, stale, dialled>>
        /\ \A t \in Tasks : op'[t] = Idle \/ op'[t] = op[t]
        /\ pool' = [h \in Hosts |-> {}] /\ shutdown' = TRUE
        /\ closing' = UNION {pool[h] : h \in Hosts}
    BY DEF Shutdown, reconfVars
  <1>2. op' \in [Tasks -> {Idle} \cup Calling \cup Holding]
    BY DEF Shutdown, TypeOK
  <1>3. inUse' \in [ConnIds -> Nat]
    <2> DEFINE Slots(k) == Cardinality({s \in sessions : backing[s].conn = k})
    <2>1. \A k \in ConnIds : Slots(k) \in Nat
      <3>1. \A k : {s \in sessions : backing[s].conn = k} \in SUBSET Tasks
        BY TaskKinds DEF SessTypeOK
      <3> QED
        BY <3>1, FS_Subset, FS_CardinalityType, TasksAssumption
    <2>2. inUse' = [k \in ConnIds |-> IF inUse[k] > Slots(k) THEN inUse[k] - Slots(k) ELSE 0]
      BY DEF Shutdown
    <2> HIDE DEF Slots
    <2>3. \A k \in ConnIds : inUse[k] \in Nat
      BY DEF TypeOK
    <2> QED
      BY <2>1, <2>2, <2>3
  <1> QED
    BY <1>1, <1>2, <1>3

\* Every step keeps the types of the pool.
LEMMA PoolTypeStep ==
    ASSUME TypeOK, SessTypeOK, SessInv, \A t \in Tunnels : TunnelOK(t), [SessNext]_allVars
    PROVE  TypeOK'
  <1>1. CASE [Next]_vars
    BY <1>1, NextTypeOK
  <1>2. CASE ReleasesAgain
    BY <1>2, AgainEffect DEF TypeOK
  <1>3. CASE Shutdown
    <2>1. closing' \in SUBSET ConnIds
      BY <1>3, ShutdownEffect DEF TypeOK
    <2> QED
      BY <1>3, <2>1, ShutdownEffect DEF TypeOK
  <1> QED
    BY <1>1, <1>2, <1>3, PoolStep

\* Every step keeps connections numbered and in the pool of their host.
LEMMA PoolPlacesStep ==
    ASSUME TypeOK, Numbered, Home, SessTypeOK, SessInv, \A t \in Tunnels : TunnelOK(t),
           [SessNext]_allVars
    PROVE  Numbered' /\ Home'
  <1>1. CASE Next
    BY <1>1, NumberedStep, HomeStep
  <1>2. CASE UNCHANGED vars
    BY <1>2 DEF vars, reconfVars, connVars, downVars, Numbered, Home, IsHolding, HostOf,
                NormalizeHostName
  <1>3. CASE ReleasesAgain
    <2>1. \A c \in ConnIds : conn[c] = "none" => conn'[c] = "none"
      BY <1>3, AgainEffect DEF Closes
    <2>2. Numbered'
      BY <1>3, <2>1, AgainEffect DEF Numbered, IsHolding
    <2>3. Home'
      BY <1>3, AgainEffect DEF Home, IsHolding, HostOf, NormalizeHostName
    <2> QED
      BY <2>2, <2>3
  <1>4. CASE Shutdown
    <2>1. \A t \in Tasks : IsHolding(t)' => IsHolding(t) /\ op'[t] = op[t]
      BY <1>4, ShutdownEffect DEF IsHolding, Idle
    <2>2. Numbered'
      BY <1>4, <2>1, ShutdownEffect DEF Numbered
    <2>3. Home'
      BY <1>4, ShutdownEffect DEF Home
    <2> QED
      BY <2>2, <2>3
  <1> QED
    BY <1>1, <1>2, <1>3, <1>4, PoolStep

-----------------------------------------------------------------------------
(* Slots are counted at most once, and owned.                              *)

\* Steps of the pool do not overcount.
LEMMA CountsStep ==
    ASSUME TypeOK, Numbered, Home, Covered, Next
    PROVE  Covered'
  <1>n. \A h \in Hosts : \A d \in pool[h] :
            /\ d \in ConnIds /\ inUse[d] \in Nat /\ missed[d] \in Nat
            /\ Cardinality(Holders(d)) \in Nat
            /\ inUse[d] <= Cardinality(Holders(d)) + missed[d]
    BY FiniteHolders DEF TypeOK, Covered
  \* Neither the holders nor the counters change.
  <1>0. ASSUME \A h \in Hosts : pool'[h] \subseteq pool[h], inUse' = inUse, missed' = missed,
               \A u \in Tasks : SameTask(u) \/ (~IsHolding(u) /\ ~IsHolding(u)')
        PROVE  Covered'
    <2>1. \A d \in ConnIds : Holders(d)' = Holders(d)
      BY <1>0 DEF Holders, SameTask
    <2> QED
      BY <1>0, <1>n, <2>1 DEF Covered
  <1>1. ASSUME NEW t \in Tasks, GetConnection(t) \/ Superseded(t) PROVE Covered'
    BY <1>0, <1>1, ResolveEffect DEF OthersUnchanged
  <1>2. ASSUME NEW t \in Tasks, Reuse(t) \/ Overload(t) PROVE Covered'
    <2>1. PICK expired, c : op[t].at = "wait" /\ GivesPooled(t, expired, c)
      BY <1>2, EnterGives
    <2>2. /\ OthersUnchanged(t) /\ ~IsHolding(t) /\ IsHolding(t)' /\ op'[t].conn = c
          /\ c \in pool[HostOf(t)] /\ HostOf(t) \in Hosts /\ c \in ConnIds /\ PoolsShrink
          /\ missed' = missed
          /\ \A d \in ConnIds : inUse'[d] = IF d = c THEN inUse[d] + 1 ELSE inUse[d]
      BY <2>1, GivesEffect
    <2>3. Holders(c)' = Holders(c) \cup {t} /\ t \notin Holders(c)
      BY <2>2 DEF Holders, OthersUnchanged, SameTask
    <2>4. \A d \in ConnIds : d # c => Holders(d)' = Holders(d)
      BY <2>2 DEF Holders, OthersUnchanged, SameTask
    <2>5. Cardinality(Holders(c)') = Cardinality(Holders(c)) + 1
      BY <2>3, FiniteHolders, FS_AddElement
    <2>6. ASSUME NEW h \in Hosts, NEW d \in pool'[h]
          PROVE  inUse'[d] <= Cardinality(Holders(d)') + missed'[d]
      <3>1. d \in pool[h] /\ d \in ConnIds
        BY <2>2, <2>6, <1>n DEF PoolsShrink
      <3>2. CASE d = c
        BY <1>n, <2>2, <2>5, <3>1, <3>2
      <3>3. CASE d # c
        BY <1>n, <2>2, <2>4, <3>1, <3>3
      <3> QED
        BY <3>2, <3>3
    <2> QED
      BY <2>6 DEF Covered
  <1>3. ASSUME NEW t \in Tasks, Dial(t) PROVE Covered'
    BY <1>0, <1>3, DialEffect DEF OthersUnchanged, PoolsShrink
  <1>4. ASSUME NEW t \in Tasks, KeyRefused(t) \/ Fail(t) PROVE Covered'
    BY <1>0, <1>4, MoveEffect DEF OthersUnchanged
  <1>5. ASSUME NEW t \in Tasks, Connected(t) PROVE Covered'
    <2>0. PICK c \in ConnIds : c = pooled + 1
      BY <1>5, ConnectedEffect
    <2>1. /\ OthersUnchanged(t) /\ ~IsHolding(t) /\ IsHolding(t)' /\ op'[t].conn = c
          /\ HostOf(t) \in Hosts
          /\ \A h \in Hosts : pool'[h] = IF h = HostOf(t) THEN pool[h] \cup {c} ELSE pool[h]
          /\ inUse'[c] = 1 /\ \A d \in ConnIds : d # c => inUse'[d] = inUse[d]
          /\ missed' = missed /\ missed[c] \in Nat
      BY <1>5, <2>0, ConnectedEffect DEF TypeOK
    <2>2. \A u \in Tasks : IsHolding(u) => op[u].conn # c
      <3>1. pooled \in Nat /\ ConnIds \subseteq Nat
        BY SizeAssumption DEF TypeOK, ConnIds
      <3> QED
        BY <2>0, <3>1 DEF Numbered
    <2>3. Holders(c)' = {t}
      BY <2>1, <2>2 DEF Holders, OthersUnchanged, SameTask
    <2>4. \A d \in ConnIds : d # c => Holders(d)' = Holders(d)
      BY <2>1 DEF Holders, OthersUnchanged, SameTask
    <2>5. Cardinality(Holders(c)') = 1
      BY <2>3, FS_Singleton
    <2>6. ASSUME NEW h \in Hosts, NEW d \in pool'[h]
          PROVE  inUse'[d] <= Cardinality(Holders(d)') + missed'[d]
      <3>1. CASE d = c
        BY <2>1, <2>5, <3>1
      <3>2. CASE d # c
        BY <1>n, <2>1, <2>4, <2>6, <3>2
      <3> QED
        BY <3>1, <3>2
    <2> QED
      BY <2>6 DEF Covered
  <1>6. ASSUME NEW t \in Tasks, Release(t) PROVE Covered'
    <2>1. PICK c \in ConnIds : c = op[t].conn
      BY <1>6, ReleaseEffect
    <2>2. /\ UNCHANGED pool /\ OthersUnchanged(t) /\ IsHolding(t) /\ ~IsHolding(t)'
          /\ \/ /\ inUse' = inUse
                /\ \A d \in ConnIds : missed'[d] = IF d = c /\ d \in pool[HostOf(t)]
                                                  THEN missed[d] + 1 ELSE missed[d]
             \/ /\ missed' = missed
                /\ \A d \in ConnIds :
                     inUse'[d] = IF d = c THEN IF inUse[d] > 0 THEN inUse[d] - 1 ELSE 0
                                          ELSE inUse[d]
      BY <1>6, <2>1, ReleaseEffect
    <2>3. Holders(c)' = Holders(c) \ {t} /\ t \in Holders(c)
      BY <2>1, <2>2 DEF Holders, OthersUnchanged, SameTask
    <2>4. \A d \in ConnIds : d # c => Holders(d)' = Holders(d)
      BY <2>1, <2>2 DEF Holders, OthersUnchanged, SameTask
    <2>5. Cardinality(Holders(c)') = Cardinality(Holders(c)) - 1 /\ Cardinality(Holders(c)) >= 1
      <3>1. Cardinality(Holders(c)') = Cardinality(Holders(c)) - 1
        BY <2>3, FiniteHolders, FS_RemoveElement
      <3>2. Cardinality(Holders(c)) # 0
        BY <2>3, FiniteHolders, FS_EmptySet
      <3> QED
        BY <3>1, <3>2, FiniteHolders
    \* A release that does not find the connection is counted as missed.
    <2>7. ASSUME NEW h \in Hosts, NEW d \in pool'[h]
          PROVE  inUse'[d] <= Cardinality(Holders(d)') + missed'[d]
      <3>1. d \in pool[h] /\ d \in ConnIds
        BY <2>2, <2>7, <1>n
      <3>2. CASE d # c
        BY <1>n, <2>2, <2>4, <3>1, <3>2
      <3>3. CASE d = c
        <4>1. d \in pool[HostOf(t)]
          BY <2>1, <2>2, <3>1, <3>3 DEF Home
        <4>2. \/ inUse'[d] = inUse[d] /\ missed'[d] = missed[d] + 1
              \/ missed'[d] = missed[d] /\ inUse'[d] = IF inUse[d] > 0 THEN inUse[d] - 1 ELSE 0
          BY <2>2, <3>1, <3>3, <4>1
        <4> QED
          BY <1>n, <2>5, <3>1, <3>3, <4>2
      <3> QED
        BY <3>2, <3>3
    <2> QED
      BY <2>7 DEF Covered
  <1>7. ASSUME NEW h \in Hosts, RemoveHost(h) \/ \E cfg \in Configs : RegisterHost(h, cfg)
        PROVE  Covered'
    BY <1>0, <1>7, ReconfigureEffect DEF PoolsShrink
  <1>8. CASE CloseAll \/ \E c \in ConnIds : CloseAllStep(c) \/ Lose(c)
    BY <1>0, <1>8, DownEffect DEF Numbered
  <1> QED
    BY <1>1, <1>2, <1>3, <1>4, <1>5, <1>6, <1>7, <1>8 DEF Next

\* No step overcounts.
LEMMA CoveredStep ==
    ASSUME TypeOK, Numbered, Home, SessTypeOK, SessInv, Covered,
           \A t \in Tunnels : TunnelOK(t), [SessNext]_allVars
    PROVE  Covered'
  <1>1. CASE UNCHANGED vars
    BY <1>1 DEF vars, connVars, Covered, Holders, IsHolding
  <1>2. CASE ReleasesAgain
    <2>1. \A d : Holders(d)' = Holders(d)
      BY <1>2, AgainEffect DEF Holders, IsHolding
    <2>2. ASSUME NEW h \in Hosts, NEW d \in pool'[h]
          PROVE  inUse'[d] <= Cardinality(Holders(d)') + missed'[d]
      <3>1. /\ d \in pool[h] /\ d \in ConnIds /\ inUse[d] \in Nat /\ inUse'[d] \in Nat
            /\ inUse'[d] <= inUse[d] /\ inUse[d] <= Cardinality(Holders(d)) + missed[d]
            /\ Cardinality(Holders(d)) \in Nat /\ missed[d] \in Nat /\ missed'[d] = missed[d]
        BY <1>2, <2>2, AgainEffect, FiniteHolders DEF TypeOK, Covered
      <3> QED
        BY <2>1, <3>1
    <2> QED
      BY <2>2 DEF Covered
  <1>3. CASE Shutdown
    BY <1>3, ShutdownEffect DEF Covered
  <1> QED
    BY <1>1, <1>2, <1>3, CountsStep, PoolStep

\* Places of a caller that answers for its session.
Answers(c) == call[c].at \in {"probe", "spawn", "boot", "closing"}

\* Every registered session outside S keeps an owner, if it had one.
Keeps(S) == \A s \in sessions' : s \in S \/ OwnedSession(s)' \/ StraySession(s)

\* Callers that leave, and mappings that are dropped, leave no registered
\* session behind.
LEMMA OwnedFrame ==
    ASSUME sessions' \subseteq sessions, NEW S,
           \A h \in Hosts : hostSession'[h] = hostSession[h] \/ hostSession[h] \notin sessions',
           \A d \in Callers : Answers(d) => \/ call'[d] = call[d]
                                            \/ call[d].sid \notin sessions' \ S
                                            \/ Answers(d)' /\ call'[d].sid = call[d].sid
    PROVE  Keeps(S)
  <1> SUFFICES ASSUME NEW s \in sessions', s \notin S, OwnedSession(s) PROVE OwnedSession(s)'
    BY DEF Keeps, StraySession
  <1>1. CASE \E h \in Hosts : hostSession[h] = s
    BY <1>1 DEF OwnedSession
  <1>2. CASE \E c \in Callers : Answers(c) /\ call[c].sid = s
    BY <1>2 DEF OwnedSession, Answers
  <1> QED
    BY <1>1, <1>2 DEF OwnedSession, Answers

\* Steps of a caller leave every registered session an owner.
LEMMA OwnedCallerStep ==
    ASSUME TypeOK, SessTypeOK, SessInv, NEW c \in Callers, Calls(c)
    PROVE  \/ Keeps({}) /\ cancels' = cancels
           \/ \E s \in Sessions \cup {NoSession} : Keeps({s}) /\ cancels' = cancels + 1
  <1>0. /\ CallType /\ CallOK(c) /\ Live /\ NoSession \notin sessions
        /\ hostSession \in [Hosts -> Sessions \cup {NoSession}]
    BY TaskKinds DEF SessTypeOK, CallType, SessInv
  <1>1. CASE RemoteShell(c) \/ UseSession(c) \/ Acquire(c) \/ Done(c)
    <2>1. UNCHANGED <<sessions, hostSession, cancels>> /\ Rest(c)
      <3>1. CASE RemoteShell(c)
        BY <1>0, <3>1 DEF RemoteShell, CallType, Rest
      <3>2. CASE UseSession(c)
        <4>1. hostSession[call[c].host] \in Sessions /\ call[c] # NoCall
          BY <3>2 DEF UseSession, SessTypeOK, At, NoCall
        <4> QED
          BY <1>0, <3>2, <4>1, BeginCall DEF UseSession
      <3>3. CASE Acquire(c) \/ Done(c)
        BY <1>0, <3>3, EndsCall, GotoCall DEF Acquire, Done, At, NoCall
      <3> QED
        BY <1>1, <3>1, <3>2, <3>3
    <2>2. ~Answers(c)
      BY <1>1 DEF RemoteShell, UseSession, Acquire, Done, At, NoCall, Answers
    <2> QED
      BY <2>1, <2>2, OwnedFrame DEF Rest
  <1>2. CASE SetUp(c)
    <2>1. UNCHANGED <<sessions, cancels>> /\ ~Answers(c)
      BY <1>2 DEF SetUp, StartSetUp, At, Answers
    <2>2. \A h \in Hosts : hostSession'[h] = hostSession[h] \/ hostSession[h] \notin sessions'
      BY <1>0, <1>2 DEF SetUp, StartSetUp
    <2>3. Rest(c)
      BY <1>0, <1>2, EndsCall DEF SetUp, StartSetUp, CallType, Rest
    <2> QED
      BY <2>1, <2>2, <2>3, OwnedFrame DEF Rest
  <1>3. CASE ProbeDone(c) \/ Spawn(c) \/ SpawnFails(c)
    <2>1. UNCHANGED <<sessions, hostSession, cancels>> /\ call[c].sid \notin sessions
      BY <1>0, <1>3 DEF ProbeDone, Spawn, SpawnFails, At, CallOK, Live
    <2>2. Rest(c)
      BY <1>0, <1>3, EndsCall, GotoCall DEF ProbeDone, Spawn, SpawnFails, At, NoCall, Rest
    <2> QED
      BY <2>1, <2>2, OwnedFrame DEF Rest
  <1>4. CASE Spawned(c)
    <2>1. /\ sessions' = sessions \cup {call[c].sid} /\ UNCHANGED <<hostSession, cancels>>
          /\ call[c] # NoCall
      BY <1>4 DEF Spawned, At, NoCall
    <2>2. Rest(c) /\ Becomes(c, "boot", call[c].host, call[c].sid)
      BY <1>0, <1>4, <2>1, GotoCall DEF Spawned
    <2>3. ASSUME NEW s \in sessions' PROVE OwnedSession(s)' \/ StraySession(s)
      <3>1. CASE s = call[c].sid
        BY <2>2, <3>1 DEF OwnedSession, Becomes
      <3>2. CASE s # call[c].sid
        <4>1. s \in sessions
          BY <2>1, <2>3, <3>2
        <4>2. CASE OwnedSession(s)
          BY <2>1, <2>2, <3>2, <4>2 DEF OwnedSession, Rest
        <4> QED
          BY <4>1, <4>2 DEF StraySession
      <3> QED
        BY <3>1, <3>2
    <2> QED
      BY <2>1, <2>3 DEF Keeps
  <1>5. CASE Booted(c)
    <2>1. PICK s \in Sessions : s = call[c].sid
      BY <1>0, <1>5 DEF Booted, At, CallOK, HasSession
    <2>2. /\ call[c].host \in Hosts /\ call[c] # NoCall
          /\ hostSession[call[c].host] = NoSession
          /\ hostSession' = [hostSession EXCEPT ![call[c].host] = s]
          /\ UNCHANGED <<sessions, cancels>>
      BY <1>0, <1>5, <2>1, CallCases DEF Booted, At, NoCall, CallOK, LocksHost
    <2>3. Rest(c)
      BY <1>0, <1>5, <2>1, <2>2, BeginCall DEF Booted
    <2>4. ASSUME NEW u \in sessions PROVE OwnedSession(u)' \/ StraySession(u)
      <3>1. CASE u = s
        BY <1>0, <2>2, <3>1 DEF OwnedSession
      <3>2. CASE u # s
        <4>1. OwnedSession(u) \/ StraySession(u)
          BY <2>4 DEF StraySession
        <4>2. \A h \in Hosts : hostSession[h] = u => hostSession'[h] = u
          BY <1>0, <2>2, <2>4
        <4>3. \A d \in Callers : call[d].sid = u => call'[d] = call[d]
          BY <2>1, <2>3, <3>2 DEF Rest
        <4> QED
          BY <4>1, <4>2, <4>3 DEF OwnedSession
      <3> QED
        BY <3>1, <3>2
    <2> QED
      BY <2>2, <2>4 DEF Keeps
  <1>6. CASE BootFails(c) \/ TimedOut(c) \/ Died(c)
    <2>1. PICK s \in Sessions : s = call[c].sid
      BY <1>0, <1>6 DEF BootFails, TimedOut, Died, At, CallOK, HasSession
    <2>2. /\ sessions' = sessions \ {s} /\ UNCHANGED <<hostSession, cancels>>
          /\ call[c] # NoCall /\ (Ends(c) \/ Goto(c, "dead") \/ call' = call)
      BY <1>6, <2>1 DEF BootFails, TimedOut, Died, At, NoCall, Invalidate
    <2>3. Rest(c)
      BY <1>0, <2>2, EndsCall, GotoCall DEF Rest
    <2> QED
      BY <2>1, <2>2, <2>3, OwnedFrame DEF Rest
  <1>7. CASE DropDead(c)
    <2>1. /\ UNCHANGED <<sessions, cancels>> /\ ~Answers(c) /\ call[c].sid \notin sessions
          /\ \A h \in Hosts : hostSession'[h] = hostSession[h] \/ hostSession[h] = call[c].sid
      BY <1>0, <1>7 DEF DropDead, At, Answers, CallOK
    <2>2. Rest(c)
      BY <1>0, <1>7, EndsCall DEF DropDead, CallType, Rest
    <2> QED
      BY <2>1, <2>2, OwnedFrame DEF Rest
  <1>8. CASE RemoteClose(c)
    <2>1. PICK h \in Hosts :
            /\ hostSession' = [hostSession EXCEPT ![h] = NoSession]
            /\ call' = IF hostSession[h] \in sessions
                       THEN [call EXCEPT ![c] = [at |-> "closing", host |-> h,
                                sid |-> hostSession[h], batch |-> FALSE, retried |-> FALSE]]
                       ELSE call
      BY <1>8 DEF RemoteClose
    <2>2. UNCHANGED <<sessions, cancels>> /\ Rest(c) /\ call[c] = NoCall
      BY <1>0, <1>8, <2>1 DEF RemoteClose, CallType, Rest
    <2>3. ASSUME NEW s \in sessions PROVE OwnedSession(s)' \/ StraySession(s)
      <3>1. CASE hostSession[h] = s
        BY <1>0, <2>1, <2>3, <3>1 DEF OwnedSession, CallType
      <3>2. CASE hostSession[h] # s
        <4>1. OwnedSession(s) \/ StraySession(s)
          BY <2>3 DEF StraySession
        <4>2. \A g \in Hosts : hostSession[g] = s => hostSession'[g] = s
          BY <1>0, <2>1, <3>2
        <4>3. \A d \in Callers : Answers(d) => call'[d] = call[d]
          BY <2>2 DEF Rest, Answers, NoCall
        <4> QED
          BY <4>1, <4>2, <4>3 DEF OwnedSession, Answers
      <3> QED
        BY <3>1, <3>2
    <2> QED
      BY <2>2, <2>3 DEF Keeps
  <1>9. CASE CloseSession(c)
    <2>1. sessions' = sessions \ {call[c].sid} /\ UNCHANGED <<hostSession, cancels>> /\ Ends(c)
      BY <1>9 DEF CloseSession
    <2>2. Rest(c)
      BY <1>0, <2>1, EndsCall
    <2> QED
      BY <2>1, <2>2, OwnedFrame DEF Rest
  <1>10. CASE CancelCall(c)
    <2>1. UNCHANGED <<sessions, hostSession>> /\ cancels' = cancels + 1 /\ Ends(c)
          /\ call[c] # NoCall
      BY <1>10 DEF CancelCall, At, NoCall
    <2>2. Rest(c) /\ call[c].sid \in Sessions \cup {NoSession}
      BY <1>0, <2>1, EndsCall, CallCases
    <2>3. Keeps({call[c].sid})
      BY <2>1, <2>2, OwnedFrame DEF Rest
    <2> QED
      BY <2>1, <2>2, <2>3
  <1> QED
    BY <1>1, <1>2, <1>3, <1>4, <1>5, <1>6, <1>7, <1>8, <1>9, <1>10 DEF Calls

\* No more sessions and tunnels are stray than requests were cancelled.
LEMMA StraysStep ==
    ASSUME SessTypeOK, FewStrays,
           \/ Strays' \subseteq Strays /\ cancels' = cancels
           \/ \E x : Strays' \subseteq Strays \cup {x} /\ cancels' = cancels + 1
    PROVE  FewStrays'
  <1>1. IsFiniteSet(Strays)
    BY TaskKinds, FS_Subset, TasksAssumption DEF Strays
  <1>2. cancels \in Nat /\ Cardinality(Strays) \in Nat /\ Cardinality(Strays) <= cancels
    BY <1>1, FS_CardinalityType, TaskKinds DEF SessTypeOK, FewStrays
  <1>3. CASE Strays' \subseteq Strays /\ cancels' = cancels
    <2>1. Cardinality(Strays') <= Cardinality(Strays) /\ Cardinality(Strays') \in Nat
      BY <1>1, <1>3, FS_Subset, FS_CardinalityType
    <2> QED
      BY <1>2, <1>3, <2>1 DEF FewStrays
  <1>4. ASSUME NEW x, Strays' \subseteq Strays \cup {x}, cancels' = cancels + 1 PROVE FewStrays'
    <2>1. /\ IsFiniteSet(Strays \cup {x})
          /\ Cardinality(Strays \cup {x}) \in {Cardinality(Strays), Cardinality(Strays) + 1}
      BY <1>1, <1>2, FS_AddElement
    <2>2. /\ Cardinality(Strays') <= Cardinality(Strays \cup {x})
          /\ Cardinality(Strays') \in Nat
      BY <1>4, <2>1, FS_Subset, FS_CardinalityType
    <2> QED
      BY <1>2, <1>4, <2>1, <2>2 DEF FewStrays
  <1> QED
    BY <1>3, <1>4

\* Every step leaves every slot an owner, and a cancelled request takes the
\* owner of one at most.
LEMMA OwnedStep ==
    ASSUME TypeOK, SessTypeOK, SessInv, FewStrays, \A t \in Tunnels : TunnelOK(t),
           [SessNext]_allVars
    PROVE  FewStrays'
  <1>0. \A t \in Tunnels : StrayTunnel(t)' => StrayTunnel(t) \/ CancelTunnel(t)
    BY TunnelStep DEF TunnelKept
  <1>1. ASSUME NEW S, Keeps(S), \A t \in Tunnels : ~CancelTunnel(t)
        PROVE  Strays' \subseteq Strays \cup S
    BY <1>0, <1>1 DEF Keeps, Strays, StraySession
  <1>2. ASSUME UNCHANGED <<hostSession, call, cancels>>, sessions' \subseteq sessions
        PROVE  FewStrays'
    <2>1. Keeps({})
      BY <1>2, OwnedFrame
    <2>2. \A t \in Tunnels : ~CancelTunnel(t)
      BY <1>2 DEF CancelTunnel, SessTypeOK
    <2> QED
      BY <1>1, <1>2, <2>1, <2>2, StraysStep
  <1>3. ASSUME NEW t \in Tasks, Acquiring(t) PROVE FewStrays'
    BY <1>2, <1>3 DEF Acquiring, sessVars
  <1>4. ASSUME NEW t \in Tasks, AcquireRestarts(t) \/ AcquireFails(t) PROVE FewStrays'
    <2>1. CASE UNCHANGED sessVars
      BY <1>2, <2>1 DEF sessVars
    <2>2. CASE Quit(t)
      <3>1. IsCalling(t)
        BY <1>4, SupersededTask, FailTask DEF AcquireRestarts, AcquireFails
      <3>2. t \in Sessions => t \notin sessions
        BY <3>1, CallingSession
      <3>3. t \notin sessions
        BY <3>2 DEF SessTypeOK
      <3>4. \A d \in Callers : call'[d] = call[d] \/ call[d].sid = t
        BY <2>2 DEF Quit
      <3>5. UNCHANGED <<sessions, hostSession, cancels>>
        BY <2>2 DEF Quit
      <3>6. Keeps({})
        BY <3>3, <3>4, <3>5, OwnedFrame
      <3>7. \A u \in Tunnels : ~CancelTunnel(u)
        BY <3>5 DEF CancelTunnel, SessTypeOK
      <3> QED
        BY <1>1, <3>5, <3>6, <3>7, StraysStep
    <2> QED
      BY <1>4, <2>1, <2>2 DEF AcquireRestarts, AcquireFails
  <1>5. ASSUME NEW t \in Tunnels, TunnelMoves(t) PROVE FewStrays'
    <2>1. CASE CancelTunnel(t)
      <3>1. UNCHANGED <<sessions, hostSession, call, op>> /\ cancels' = cancels + 1
        BY <2>1 DEF CancelTunnel, vars
      <3>2. Keeps({})
        BY <3>1, OwnedFrame
      <3>3. \A u \in Tunnels : u # t => tunnel'[u] = tunnel[u]
        BY <2>1 DEF CancelTunnel, SessTypeOK
      <3>4. Strays' \subseteq Strays \cup {t}
        BY <3>1, <3>2, <3>3 DEF Keeps, Strays, StraySession, StrayTunnel
      <3> QED
        BY <3>1, <3>4, StraysStep
    <2>2. CASE ~CancelTunnel(t)
      BY <1>2, <1>5, <2>2 DEF TunnelMoves, OpenTunnel, TunnelUp, TunnelFails, CloseTunnel,
                  TunnelClosed
    <2> QED
      BY <2>1, <2>2
  <1>6. ASSUME NEW c \in Callers, Calls(c) PROVE FewStrays'
    <2>1. \A t \in Tunnels : StrayTunnel(t)' => StrayTunnel(t)
      <3> SUFFICES ASSUME NEW t \in Tunnels, StrayTunnel(t)' PROVE StrayTunnel(t)
        OBVIOUS
      <3>1. t \in Tasks /\ t \notin Sessions /\ tunnel'[t] = tunnel[t]
        BY <1>6, TaskKinds, CallerTask
      <3>2. op'[t] = op[t]
        BY <1>6, <3>1, CallerTask DEF OpRest
      <3> QED
        BY <3>1, <3>2 DEF StrayTunnel
    <2>2. ASSUME NEW S, Keeps(S) PROVE Strays' \subseteq Strays \cup S
      BY <2>1, <2>2 DEF Keeps, Strays, StraySession
    <2>3. CASE Keeps({}) /\ cancels' = cancels
      BY <2>2, <2>3, StraysStep
    <2>4. ASSUME NEW x, Keeps({x}), cancels' = cancels + 1 PROVE FewStrays'
      BY <2>2, <2>4, StraysStep
    <2> QED
      BY <1>6, <2>3, <2>4, OwnedCallerStep
  <1>7. CASE Environment \/ UNCHANGED allVars \/ \E s \in Sessions : ShellExits(s)
    BY <1>2, <1>7 DEF Environment, sessVars, allVars, ShellExits
  <1>8. CASE Shutdown
    BY <1>2, <1>8 DEF Shutdown
  <1> QED
    BY <1>3, <1>4, <1>5, <1>6, <1>7, <1>8 DEF SessNext, Calls, TunnelMoves

-----------------------------------------------------------------------------
(* The read lock.                                                          *)

\* A caller begins on a session that no other caller has the lock of.
LEMMA ReadersStep ==
    ASSUME TypeOK, SessTypeOK, SessInv, OneReader, [SessNext]_allVars
    PROVE  OneReader'
  <1>0. CallType /\ \A c \in Callers : CallOK(c)
    BY DEF SessTypeOK, CallType, SessInv
  <1>1. ASSUME NEW c \in Callers, Rest(c),
               \A s \in Sessions : HoldsReadLock(c, s)' => HoldsReadLock(c, s) \/ ReadLockFree(s)
        PROVE  OneReader'
    BY <1>1 DEF OneReader, Rest, HoldsReadLock, ReadLockFree, At
  <1>2. ASSUME \A c \in Callers : call'[c] \in {call[c], NoCall}
        PROVE  OneReader'
    BY <1>2 DEF OneReader, HoldsReadLock, At, NoCall
  <1>3. ASSUME NEW c \in Callers, Ends(c) PROVE OneReader'
    BY <1>0, <1>2, <1>3, EndsCall DEF Rest
  <1>4. ASSUME NEW c \in Callers, Rest(c), call'[c].at \in {"ensure", "probe", "boot", "closing"}
        PROVE  OneReader'
    BY <1>1, <1>4 DEF HoldsReadLock, At
  <1>5. ASSUME NEW c \in Callers, call[c] # NoCall, NEW s \in Sessions, Begin(c, s)
        PROVE  OneReader'
    <2>1. /\ Rest(c) /\ call'[c].sid = s
          /\ call'[c].at = "queued" \/ ReadLockFree(s)
      BY <1>0, <1>5, BeginCall DEF Becomes
    <2> QED
      BY <1>1, <2>1 DEF HoldsReadLock, At
  <1>6. ASSUME NEW c \in Callers, Calls(c) PROVE OneReader'
    <2>1. CASE RemoteShell(c)
      BY <1>0, <1>4, <2>1 DEF RemoteShell, CallType, Rest
    <2>2. CASE UseSession(c)
      <3>1. hostSession[call[c].host] \in Sessions /\ call[c] # NoCall
        BY <2>2 DEF UseSession, SessTypeOK, At, NoCall
      <3> QED
        BY <1>5, <2>2, <3>1 DEF UseSession
    <2>3. CASE SetUp(c)
      <3>1. Ends(c) \/ (Rest(c) /\ call'[c].at = "probe")
        BY <1>0, <2>3 DEF SetUp, StartSetUp, CallType, Rest, Call, At, NoCall
      <3> QED
        BY <1>3, <1>4, <3>1
    <2>4. CASE ProbeDone(c) \/ Spawn(c) \/ SpawnFails(c) \/ Done(c) \/ CloseSession(c)
               \/ CancelCall(c) \/ Spawned(c) \/ BootFails(c)
      <3>1. /\ call[c] # NoCall
            /\ Ends(c) \/ UNCHANGED call \/ Goto(c, "spawn") \/ Goto(c, "boot")
        BY <2>4 DEF ProbeDone, Spawn, SpawnFails, Done, CloseSession, CancelCall, Spawned,
                    BootFails, At, NoCall
      <3>2. CASE UNCHANGED call
        BY <1>2, <3>2
      <3>3. CASE Goto(c, "spawn") \/ Goto(c, "boot")
        BY <1>0, <1>1, <3>1, <3>3, GotoCall DEF Becomes, HoldsReadLock, At
      <3> QED
        BY <1>3, <3>1, <3>2, <3>3
    <2>5. CASE Booted(c)
      BY <1>0, <1>5, <2>5 DEF Booted, At, NoCall, CallOK, HasSession
    <2>6. CASE Acquire(c)
      <3>1. Rest(c) /\ call'[c].sid = call[c].sid /\ ReadLockFree(call[c].sid)
        BY <1>0, <2>6, GotoCall DEF Acquire, At, NoCall, Becomes
      <3> QED
        BY <1>1, <3>1 DEF HoldsReadLock
    <2>7. CASE TimedOut(c)
      BY <1>2, <1>3, <2>7 DEF TimedOut
    <2>8. CASE Died(c)
      <3>1. CASE Goto(c, "dead")
        BY <1>0, <1>1, <2>8, <3>1, GotoCall DEF Died, At, NoCall, Becomes, HoldsReadLock
      <3> QED
        BY <1>3, <2>8, <3>1 DEF Died
    <2>9. CASE DropDead(c)
      <3>1. Ends(c) \/ (Rest(c) /\ call'[c].at = "ensure")
        BY <1>0, <2>9 DEF DropDead, CallType, Rest, Call, At, NoCall
      <3> QED
        BY <1>3, <1>4, <3>1
    <2>10. CASE RemoteClose(c)
      <3>1. UNCHANGED call \/ (Rest(c) /\ call'[c].at = "closing")
        BY <1>0, <2>10 DEF RemoteClose, CallType, Rest
      <3> QED
        BY <1>2, <1>4, <3>1
    <2> QED
      BY <1>6, <2>1, <2>2, <2>3, <2>4, <2>5, <2>6, <2>7, <2>8, <2>9, <2>10 DEF Calls
  <1>7. ASSUME NEW t \in Tasks, AcquireRestarts(t) \/ AcquireFails(t) PROVE OneReader'
    <2>1. UNCHANGED call \/ Quit(t)
      BY <1>7 DEF AcquireRestarts, AcquireFails, sessVars
    <2> QED
      BY <1>2, <2>1 DEF Quit
  <1>8. CASE UNCHANGED call
    BY <1>2, <1>8
  <1> QED
    BY <1>6, <1>7, <1>8 DEF SessNext, Calls, OpenTunnel, TunnelUp, TunnelFails, CloseTunnel,
       TunnelClosed, CancelTunnel, Acquiring, ShellExits, Environment, Shutdown, sessVars, allVars

-----------------------------------------------------------------------------
(* The theorems.                                                           *)

\* The invariant holds at the start.
LEMMA InitIInv == SessInit => IInv
  <1> SUFFICES ASSUME SessInit PROVE IInv
    OBVIOUS
  <1>1. TypeOK
    BY InitTypeOK DEF SessInit
  <1>2. SessTypeOK
    BY TaskKinds DEF SessInit, SessTypeOK
  <1>3. \A t \in Tasks : op[t] = Idle /\ ~IsCalling(t) /\ ~IsHolding(t)
    BY DEF SessInit, Init, Idle, IsCalling, IsHolding
  <1>4. Numbered /\ Home /\ Covered
    BY <1>3 DEF SessInit, Init, Numbered, Home, Covered
  <1>5. \A c \in Callers : call[c].at = "idle"
    BY DEF SessInit, NoCall
  <1>6. Live /\ OneSetUp /\ \A c \in Callers : CallOK(c)
    BY <1>5 DEF SessInit, Live, OneSetUp, CallOK, LocksHost, SetsUp, HasSession
  <1>7. (\A s \in Sessions : SlotOK(s)) /\ (\A t \in Tunnels : TunnelOK(t))
    BY <1>3, TaskKinds DEF SessInit, SlotOK, TunnelOK
  <1>9. OneReader
    BY <1>5 DEF OneReader, HoldsReadLock, At
  <1>8. FewStrays
    <2>1. Strays = {}
      BY DEF SessInit, Strays, StraySession, StrayTunnel
    <2> QED
      BY <2>1, FS_EmptySet DEF SessInit, FewStrays
  <1> QED
    BY <1>1, <1>2, <1>4, <1>6, <1>7, <1>8, <1>9 DEF IInv, SessInv

\* Every step keeps the invariant.
LEMMA NextIInv == IInv /\ [SessNext]_allVars => IInv'
  <1> SUFFICES ASSUME IInv, [SessNext]_allVars PROVE IInv'
    OBVIOUS
  <1>0. /\ TypeOK /\ Numbered /\ Home /\ SessTypeOK /\ SessInv
        /\ \A t \in Tunnels : TunnelOK(t)
        /\ Covered /\ FewStrays /\ OneReader
    BY DEF IInv
  <1>1. TypeOK' /\ SessTypeOK' /\ Numbered' /\ Home'
    BY <1>0, PoolTypeStep, SessTypeStep, PoolPlacesStep
  <1>2. SessInv' /\ FewStrays'
    BY <1>0, SessInvStep, OwnedStep
  <1>3. \A t \in Tunnels : TunnelOK(t)'
    BY <1>0, TunnelStep DEF TunnelKept
  <1>4. Covered' /\ OneReader'
    BY <1>0, CoveredStep, ReadersStep
  <1> QED
    BY <1>1, <1>2, <1>3, <1>4 DEF IInv

\* The inductive invariant of sessions, tunnels and the pool they share.
THEOREM SessInvariant == SessSpec => []IInv
  BY InitIInv, NextIInv, PTL DEF SessSpec

\* Every variable of the composition stays in its type; a registered session
\* has a connection to release.
THEOREM SessTypeCorrect == SessSpec => []SessTypeOK
  <1>1. IInv => SessTypeOK
    BY DEF IInv
  <1> QED
    BY <1>1, SessInvariant, PTL

\* A session or tunnel that nobody will release is a stray.
LEMMA OrphansStray ==
    ASSUME IInv
    PROVE  Orphans \subseteq Strays
  <1>0. /\ TypeOK /\ SessTypeOK /\ \A s \in Sessions : SlotOK(s)
        /\ \A t \in Tunnels : TunnelOK(t)
    BY DEF IInv, SessInv
  <1>1. ASSUME NEW s \in Sessions, IsHolding(s) \/ s \in sessions, ~OwnedSession(s)
        PROVE  StraySession(s)
    <2>1. op[s] # Idle \/ s \in sessions
      BY <1>0, <1>1, TaskKinds, IdleTask
    <2>2. \A c \in Callers : ~SetsUp(c, s)
      BY <1>1 DEF SetsUp, OwnedSession
    <2> QED
      BY <1>0, <1>1, <2>1, <2>2 DEF SlotOK, StraySession
  <1>2. ASSUME NEW t \in Tunnels, IsHolding(t), tunnel[t] \notin {"opening", "up", "closing"}
        PROVE  StrayTunnel(t)
    <2>1. op[t] # Idle
      BY <1>0, <1>2, TaskKinds, IdleTask
    <2> QED
      BY <1>0, <1>2, <2>1 DEF TunnelOK, StrayTunnel, SessTypeOK
  <1> QED
    BY <1>1, <1>2 DEF Orphans, Strays

\* What holds a slot or is registered has an owner that will release it, but
\* for one session or tunnel at most for each cancelled request.
THEOREM SlotsHaveOwners == SessSpec => []SlotsOwned
  <1>1. IInv => SlotsOwned
    <2> SUFFICES ASSUME IInv PROVE SlotsOwned
      OBVIOUS
    <2>1. Orphans \subseteq Strays /\ IsFiniteSet(Strays)
      BY OrphansStray, TaskKinds, FS_Subset, TasksAssumption DEF Strays
    <2>2. /\ Cardinality(Orphans) <= Cardinality(Strays) /\ Cardinality(Strays) <= cancels
          /\ Cardinality(Orphans) \in Nat /\ Cardinality(Strays) \in Nat /\ cancels \in Nat
      BY <2>1, FS_Subset, FS_CardinalityType, TaskKinds DEF IInv, FewStrays, SessTypeOK
    <2> QED
      BY <2>2 DEF SlotsOwned
  <1> QED
    BY <1>1, SessInvariant, PTL

\* in_use exceeds the sessions and tunnels that will release by one at most
\* for each release under a raw spelling and each cancelled request, however
\* the others end and however often they hand their slot back.
THEOREM SlotsNotLeaked == SessSpec => []NeverOvercounts
  <1>1. IInv /\ SlotsOwned => NeverOvercounts
    <2> SUFFICES ASSUME IInv, SlotsOwned, NEW h \in Hosts, NEW k \in pool[h]
                 PROVE  inUse[k] <= Cardinality(Holders(k) \ Orphans) + missed[k] + cancels
      BY DEF NeverOvercounts
    <2>1. /\ k \in ConnIds /\ inUse[k] \in Nat /\ missed[k] \in Nat /\ cancels \in Nat
          /\ inUse[k] <= Cardinality(Holders(k)) + missed[k]
          /\ Cardinality(Orphans) <= cancels
      BY TaskKinds DEF IInv, TypeOK, SessTypeOK, Covered, SlotsOwned
    <2>2. IsFiniteSet(Holders(k)) /\ IsFiniteSet(Orphans)
      BY TaskKinds, FS_Subset, TasksAssumption DEF Holders, Orphans
    <2>3. /\ Cardinality(Holders(k) \ Orphans)
                = Cardinality(Holders(k)) - Cardinality(Holders(k) \cap Orphans)
          /\ Cardinality(Holders(k) \cap Orphans) <= Cardinality(Orphans)
          /\ IsFiniteSet(Holders(k) \cap Orphans)
      BY <2>2, FS_Difference, FS_Intersection
    <2>4. /\ Cardinality(Holders(k)) \in Nat /\ Cardinality(Orphans) \in Nat
          /\ Cardinality(Holders(k) \cap Orphans) \in Nat
      BY <2>2, <2>3, FS_CardinalityType
    <2> QED
      BY <2>1, <2>3, <2>4
  <1> QED
    BY <1>1, SessInvariant, SlotsHaveOwners, PTL

\* A caller waits for one other at most, which waits for none or, when it has
\* a read lock, for one that waits for none: waiting never comes round.
THEOREM LocksDoNotBlock == SessSpec => []NoLockCycle
  <1>1. IInv => NoLockCycle
    <2> SUFFICES ASSUME IInv PROVE NoLockCycle
      OBVIOUS
    <2>0. OneSetUp /\ OneReader /\ \A c \in Callers : CallOK(c)
      BY DEF IInv, SessInv
    <2>1. ASSUME NEW d \in Callers, NEW h, HoldsHostLock(d, h) PROVE ~Blocked(d)
      BY <2>1 DEF HoldsHostLock, Blocked, WaitsFor, At
    <2>2. ASSUME NEW d \in Callers, NEW s, HoldsReadLock(d, s)
          PROVE  ~Blocked(d) \/ \A e \in Callers : WaitsFor(d, e) => ~Blocked(e)
      <3>1. CASE At(d, "running")
        BY <3>1 DEF At, Blocked, WaitsFor
      <3>2. CASE At(d, "dead")
        BY <2>1, <3>2 DEF At, WaitsFor
      <3> QED
        BY <2>2, <3>1, <3>2 DEF HoldsReadLock
    <2>3. ASSUME NEW c \in Callers, NEW d \in Callers, NEW e \in Callers,
                 WaitsFor(c, d), WaitsFor(c, e)
          PROVE  d = e
      <3>1. CASE call[c].at \in {"ensure", "dead"}
        BY <2>0, <2>3, <3>1 DEF WaitsFor, At, HoldsHostLock, OneSetUp, LocksHost
      <3>2. CASE At(c, "queued")
        <4>1. call[c].sid \in Sessions
          BY <2>0, <3>2 DEF CallOK, HasSession, At
        <4> QED
          BY <2>0, <2>3, <3>2, <4>1 DEF WaitsFor, At, OneReader
      <3> QED
        BY <2>3, <3>1, <3>2 DEF WaitsFor
    <2> QED
      BY <2>1, <2>2, <2>3 DEF NoLockCycle, WaitsFor
  <1> QED
    BY <1>1, SessInvariant, PTL

=============================================================================
