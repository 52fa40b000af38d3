------------------------ MODULE ConnectionPoolProofs ------------------------
(* Theorems about ConnectionPool, for every value of its constants.        *)
EXTENDS ConnectionPool, FiniteSetTheorems, TLAPS

\* normalize_host_name returns a registered-form host name.
LEMMA NormType ==
    ASSUME NEW n \in Names
    PROVE  NormalizeHostName(n) \in Hosts
  BY NamesAssumption DEF Names, NormalizeHostName

\* What a well-typed task can be.
LEMMA OpCases ==
    ASSUME TypeOK, NEW t \in Tasks
    PROVE  /\ op[t] = Idle \/ IsCalling(t) \/ IsHolding(t)
           /\ op[t] = Idle => ~IsCalling(t) /\ ~IsHolding(t)
           /\ ~(IsCalling(t) /\ IsHolding(t))
           /\ IsDialling(t) => IsCalling(t)
           /\ IsCalling(t) => op[t] \in Calling /\ HostOf(t) \in Hosts
           /\ IsHolding(t) => op[t] \in Holding /\ HostOf(t) \in Hosts
  BY NormType DEF TypeOK, Idle, Calling, Holding, IsCalling, IsDialling,
                  IsHolding, HostOf

\* What both paths that hand out a pooled connection do.
GivesPooled(t, expired, c) ==
    /\ expired \in SUBSET Expirable(HostOf(t))
    /\ c \in ConnIds
    /\ c \in Usable(AliveAfterPrune(HostOf(t), expired))
    /\ Prune(HostOf(t), expired)
    /\ HandOut(t, c)
    /\ UNCHANGED <<registry, generation, lockObject, pooled, missed, stale, dialled,
                   closing, shutdown>>

\* Entering the lock hands out a pooled connection or starts a dial.
LEMMA EnterGives ==
    ASSUME NEW t \in Tasks, Reuse(t) \/ Overload(t)
    PROVE  op[t].at = "wait" /\ \E expired, c : GivesPooled(t, expired, c)
  <1>1. CASE Reuse(t)
    BY <1>1 DEF Reuse, EnterLock, GivesPooled, IsFirst, WithRoom, reconfVars, downVars
  <1>2. CASE Overload(t)
    BY <1>2 DEF Overload, EnterLock, GivesPooled, IsLeastBusy, reconfVars, downVars
  <1> QED
    BY <1>1, <1>2

\* The initial state, the registry read from hosts.yaml, is well typed.
LEMMA InitTypeOK == Init => TypeOK
  <1> SUFFICES ASSUME Init PROVE TypeOK
    OBVIOUS
  <1>1. pool \in [Hosts -> SUBSET ConnIds] /\ closing \in SUBSET ConnIds
    BY DEF Init
  <1>2. op \in [Tasks -> {Idle} \cup Calling \cup Holding]
    BY DEF Init
  <1>3. pooled \in 0 .. MaxConns
    BY SizeAssumption DEF Init
  <1> QED
    BY <1>1, <1>2, <1>3, ConfigAssumption DEF Init, TypeOK

\* Every operation of the manager preserves the types.
LEMMA NextTypeOK == TypeOK /\ [Next]_vars => TypeOK'
  <1> SUFFICES ASSUME TypeOK, [Next]_vars PROVE TypeOK'
    OBVIOUS
  <1> USE ConfigAssumption, SizeAssumption
  <1> USE DEF TypeOK, ConnIds
  <1>0. CASE UNCHANGED vars
    BY <1>0 DEF vars, reconfVars, connVars, downVars
  <1>r. ASSUME NEW t \in Tasks, NEW n \in Names, Resolve(t, n)
        PROVE  /\ registry' \in [Hosts -> Configs \cup {NoConfig}]
               /\ op' \in [Tasks -> {Idle} \cup Calling \cup Holding]
    <2> DEFINE h == NormalizeHostName(n)
    <2> DEFINE cfg == IF registry[h] # NoConfig THEN registry[h] ELSE AliasConfig
    <2> DEFINE new == [at |-> "wait", name |-> n, cfg |-> cfg,
                       gen |-> generation[h], lock |-> lockObject[h]]
    <2>1. h \in Hosts /\ cfg \in Configs
      BY NormType
    <2>2. new \in Calling
      BY <2>1 DEF Calling
    <2>3. CASE registry[h] # NoConfig \/ h \in Aliases
      <3>1. registry' = [registry EXCEPT ![h] = cfg] /\ op' = [op EXCEPT ![t] = new]
        BY <1>r, <2>3 DEF Resolve, TryLoadFromSshConfig
      <3> HIDE DEF h, cfg, new
      <3> QED
        BY <2>1, <2>2, <3>1
    <2>4. CASE ~(registry[h] # NoConfig \/ h \in Aliases)
      <3>1. registry' = registry /\ op' = [op EXCEPT ![t] = Idle]
        BY <1>r, <2>4 DEF Resolve, TryLoadFromSshConfig
      <3> QED
        BY <3>1
    <2> QED
      BY <2>3, <2>4
  <1>c. ASSUME NEW S PROVE CloseConns(S) \in [ConnIds -> {"none", "open", "lost", "closed"}]
    BY DEF CloseConns
  <1>h. ASSUME NEW t \in Tasks, IsCalling(t), NEW c \in ConnIds, HandOut(t, c)
        PROVE  /\ inUse' \in [ConnIds -> Nat]
               /\ op' \in [Tasks -> {Idle} \cup Calling \cup Holding]
    <2> DEFINE new == [at |-> "holding", name |-> op[t].name, conn |-> c]
    <2>1. new \in Holding
      BY <1>h, OpCases DEF Holding, Calling
    <2>2. op' = [op EXCEPT ![t] = new] /\ inUse' = [inUse EXCEPT ![c] = @ + 1]
      BY <1>h DEF HandOut
    <2> HIDE DEF new
    <2> QED
      BY <2>1, <2>2
  <1>1. ASSUME NEW t \in Tasks, GetConnection(t) PROVE TypeOK'
    BY <1>1, <1>r DEF GetConnection, connVars, downVars
  <1>2. ASSUME NEW t \in Tasks, Reuse(t) \/ Overload(t) PROVE TypeOK'
    <2>1. PICK expired, c : GivesPooled(t, expired, c)
      BY <1>2, EnterGives
    <2>2. IsCalling(t) /\ HostOf(t) \in Hosts
      BY <1>2, EnterGives, OpCases DEF IsCalling
    <2>3. conn' \in [ConnIds -> {"none", "open", "lost", "closed"}]
      BY <2>1, <1>c DEF GivesPooled, Prune
    <2>4. pool' \in [Hosts -> SUBSET ConnIds]
      BY <2>1, <2>2 DEF GivesPooled, Prune, AliveAfterPrune
    <2>5. inUse' \in [ConnIds -> Nat]
          /\ op' \in [Tasks -> {Idle} \cup Calling \cup Holding]
      BY <2>1, <2>2, <1>h DEF GivesPooled
    <2> QED
      BY <2>1, <2>3, <2>4, <2>5 DEF GivesPooled
  <1>4. ASSUME NEW t \in Tasks, Dial(t) PROVE TypeOK'
    <2>1. PICK expired : Prune(HostOf(t), expired)
      BY <1>4 DEF Dial
    <2>2. op[t] \in Calling /\ HostOf(t) \in Hosts
      BY <1>4, OpCases DEF Dial, EnterLock, IsCalling
    <2>3. op' \in [Tasks -> {Idle} \cup Calling \cup Holding]
      <3>1. [op[t] EXCEPT !.at = "connect"] \in Calling
        BY <2>2 DEF Calling
      <3>2. op' = [op EXCEPT ![t] = [op[t] EXCEPT !.at = "connect"]]
        BY <1>4 DEF Dial
      <3> QED
        BY <3>1, <3>2
    <2>4. pool' \in [Hosts -> SUBSET ConnIds]
      BY <2>1, <2>2 DEF Prune, AliveAfterPrune
    <2>5. conn' \in [ConnIds -> {"none", "open", "lost", "closed"}]
      BY <2>1, <1>c DEF Prune
    <2> QED
      BY <1>4, <2>3, <2>4, <2>5 DEF Dial, reconfVars, downVars
  <1>5. ASSUME NEW t \in Tasks, KeyRefused(t) PROVE TypeOK'
    <2>1. op[t] \in Calling
      BY <1>5, OpCases DEF KeyRefused, IsCalling
    <2>2. [op[t] EXCEPT !.at = "retry"] \in Calling
      BY <2>1 DEF Calling
    <2>3. op' = [op EXCEPT ![t] = [op[t] EXCEPT !.at = "retry"]]
      BY <1>5 DEF KeyRefused
    <2>4. op' \in [Tasks -> {Idle} \cup Calling \cup Holding]
      BY <2>2, <2>3
    <2> QED
      BY <1>5, <2>4 DEF KeyRefused, reconfVars, connVars, downVars
  <1>6. ASSUME NEW t \in Tasks, Fail(t) PROVE TypeOK'
    BY <1>6 DEF Fail, reconfVars, connVars, downVars
  <1>7. ASSUME NEW t \in Tasks, Connected(t) PROVE TypeOK'
    <2> DEFINE c == pooled + 1
    <2> DEFINE new == [at |-> "holding", name |-> op[t].name, conn |-> c]
    <2>1. op[t] \in Calling /\ HostOf(t) \in Hosts /\ c \in ConnIds
      <3>1. IsDialling(t) /\ pooled < MaxConns
        BY <1>7 DEF Connected
      <3>2. op[t] \in Calling /\ HostOf(t) \in Hosts
        BY <3>1, OpCases
      <3>3. pooled \in 0 .. MaxConns
        OBVIOUS
      <3>4. c \in ConnIds
        BY <3>1, <3>3
      <3> QED
        BY <3>2, <3>4
    <2>2. new \in Holding
      BY <2>1 DEF Calling, Holding
    <2>3. op' = [op EXCEPT ![t] = new]
      BY <1>7 DEF Connected
    <2>4. op' \in [Tasks -> {Idle} \cup Calling \cup Holding]
      <3> HIDE DEF new
      <3> QED
        BY <2>2, <2>3
    <2>5. pool' \in [Hosts -> SUBSET ConnIds]
      BY <1>7, <2>1 DEF Connected
    <2>6. /\ pooled' = c
          /\ conn' = [conn EXCEPT ![c] = "open"]
          /\ inUse' = [inUse EXCEPT ![c] = 1]
          /\ dialled' = [dialled EXCEPT ![c] = op[t].cfg]
          /\ UNCHANGED <<registry, generation, lockObject, missed, stale, closing, shutdown>>
      BY <1>7 DEF Connected, reconfVars, downVars
    <2>7. op[t].cfg \in Configs
      BY <2>1 DEF Calling
    <2>8. c \in 0 .. MaxConns
      BY <2>1
    <2> HIDE DEF c
    <2> QED
      BY <2>1, <2>4, <2>5, <2>6, <2>7, <2>8
  <1>8. ASSUME NEW t \in Tasks, Superseded(t) PROVE TypeOK'
    BY <1>8, <1>r, OpCases DEF Superseded, connVars, downVars, Calling
  <1>9. ASSUME NEW t \in Tasks, Release(t) PROVE TypeOK'
    <2>1. op[t] \in Holding
      BY <1>9, OpCases DEF Release
    <2>2. /\ inUse' \in [ConnIds -> Nat] /\ missed' \in [ConnIds -> Nat]
          /\ conn' \in [ConnIds -> {"none", "open", "lost", "closed"}]
      <3> DEFINE c == op[t].conn
      <3> DEFINE left == IF inUse[c] > 0 THEN inUse[c] - 1 ELSE 0
      <3>1. c \in ConnIds /\ left \in Nat
        BY <2>1 DEF Holding
      <3>2. ReleaseConnection(op[t].name, c)
        BY <1>9 DEF Release
      <3>3. CASE c \in PoolNamed(op[t].name)
        <4>1. inUse' = [inUse EXCEPT ![c] = left] /\ missed' = missed
              /\ \E S : conn' = CloseConns(S)
          BY <3>2, <3>3 DEF ReleaseConnection
        <4> HIDE DEF left
        <4> QED
          BY <4>1, <3>1, <1>c
      <3>4. CASE c \notin PoolNamed(op[t].name)
        <4> DEFINE new == IF c \in pool[NormalizeHostName(op[t].name)]
                          THEN missed[c] + 1 ELSE missed[c]
        <4>1. missed' = [missed EXCEPT ![c] = new] /\ UNCHANGED <<inUse, conn>>
          BY <3>2, <3>4 DEF ReleaseConnection, Misses
        <4>2. new \in Nat
          BY <3>1
        <4> HIDE DEF c, new
        <4> QED
          BY <4>1, <4>2
      <3> QED
        BY <3>3, <3>4
    <2> QED
      BY <1>9, <2>2 DEF Release, reconfVars, downVars
  <1>10. ASSUME NEW h \in Hosts, NEW cfg \in Configs, RegisterHost(h, cfg) PROVE TypeOK'
    BY <1>10, <1>c DEF RegisterHost, BumpGeneration, InvalidatePool, downVars
  <1>11. ASSUME NEW h \in Hosts, RemoveHost(h) PROVE TypeOK'
    BY <1>11, <1>c DEF RemoveHost, BumpGeneration, InvalidatePool, downVars
  <1>12. CASE CloseAll
    BY <1>12 DEF CloseAll, reconfVars, connVars
  <1>13. ASSUME NEW c \in ConnIds, CloseAllStep(c) PROVE TypeOK'
    BY <1>13, <1>c DEF CloseAllStep, reconfVars
  <1>14. ASSUME NEW c \in ConnIds, Lose(c) PROVE TypeOK'
    BY <1>14 DEF Lose, reconfVars, downVars
  <1> QED
    BY <1>0, <1>1, <1>2, <1>4, <1>5, <1>6, <1>7, <1>8, <1>9, <1>10,
       <1>11, <1>12, <1>13, <1>14 DEF Next

\* Every reachable state is well typed.
THEOREM TypeCorrect == Spec => []TypeOK
  BY InitTypeOK, NextTypeOK, PTL DEF Spec

-----------------------------------------------------------------------------
(* What each action of a task does, without the records it is written      *)
(* with.                                                                   *)

SameTask(u) ==
    /\ op'[u] = op[u]
    /\ IsCalling(u)' <=> IsCalling(u)
    /\ IsDialling(u)' <=> IsDialling(u)
    /\ IsHolding(u)' <=> IsHolding(u)
    /\ HostOf(u)' = HostOf(u)

OthersUnchanged(t) == \A u \in Tasks : u # t => SameTask(u)

\* No pool gains a connection, and what leaves one is no longer open.
PoolsShrink ==
    \A h \in Hosts : /\ pool'[h] \subseteq pool[h]
                     /\ \A c \in pool[h] : c \notin pool'[h] => conn'[c] # "open"

\* The manager closes the members of S and no other connection.
Closes(S) ==
    \A c \in ConnIds : conn'[c] = IF c \in S /\ conn[c] = "open" THEN "closed" ELSE conn[c]

\* Entering get_connection, at first or again after a superseded dial.
LEMMA ResolveEffect ==
    ASSUME TypeOK, NEW t \in Tasks, GetConnection(t) \/ Superseded(t)
    PROVE  /\ UNCHANGED <<generation, lockObject, pool, pooled, conn, inUse,
                          missed, stale, dialled, closing, shutdown>>
           /\ OthersUnchanged(t) /\ ~IsHolding(t) /\ ~IsHolding(t)' /\ ~IsDialling(t)'
           /\ \/ ~IsCalling(t)' /\ registry' = registry
              \/ /\ IsCalling(t)' /\ HostOf(t)' \in Hosts
                 /\ op'[t].cfg \in Configs
                 /\ op'[t].gen = generation[HostOf(t)']
                 /\ op'[t].lock = lockObject[HostOf(t)']
                 /\ registry[HostOf(t)'] \in {NoConfig, op'[t].cfg}
                 /\ registry' = [registry EXCEPT ![HostOf(t)'] = op'[t].cfg]
  <1>1. PICK n \in Names : Resolve(t, n)
    BY OpCases DEF GetConnection, Superseded, Calling
  <1>2. UNCHANGED <<generation, lockObject, pool, pooled, conn, inUse,
                    missed, stale, dialled, closing, shutdown>>
    BY DEF GetConnection, Superseded, connVars, downVars
  <1>3. ~IsHolding(t)
    BY OpCases DEF GetConnection, Superseded
  <1> DEFINE h == NormalizeHostName(n)
  <1> DEFINE cfg == IF registry[h] # NoConfig THEN registry[h] ELSE AliasConfig
  <1> DEFINE new == [at |-> "wait", name |-> n, cfg |-> cfg,
                     gen |-> generation[h], lock |-> lockObject[h]]
  <1>4. h \in Hosts /\ cfg \in Configs
    BY NormType, ConfigAssumption DEF TypeOK
  <1>5. DOMAIN op = Tasks
    BY DEF TypeOK
  <1>6. CASE registry[h] # NoConfig \/ h \in Aliases
    <2>1. registry' = [registry EXCEPT ![h] = cfg] /\ op' = [op EXCEPT ![t] = new]
      BY <1>1, <1>4, <1>6, ConfigAssumption DEF Resolve, TryLoadFromSshConfig
    <2>2. op'[t] = new /\ OthersUnchanged(t)
      <3> HIDE DEF new
      <3> QED
        BY <2>1, <1>5 DEF OthersUnchanged, SameTask, IsCalling, IsDialling, IsHolding, HostOf, NormalizeHostName
    <2>3. HostOf(t)' = h /\ IsCalling(t)' /\ ~IsDialling(t)' /\ ~IsHolding(t)'
      BY <2>2 DEF HostOf, IsCalling, IsDialling, IsHolding, NormalizeHostName
    <2>4. registry[h] \in {NoConfig, cfg}
      OBVIOUS
    <2>5. /\ op'[t].cfg = cfg /\ op'[t].gen = generation[h]
          /\ op'[t].lock = lockObject[h]
      BY <2>2
    <2> HIDE DEF h, cfg, new
    <2> QED
      BY <1>2, <1>3, <1>4, <2>1, <2>2, <2>3, <2>4, <2>5
  <1>7. CASE ~(registry[h] # NoConfig \/ h \in Aliases)
    <2>1. registry' = registry /\ op' = [op EXCEPT ![t] = Idle]
      BY <1>1, <1>7 DEF Resolve, TryLoadFromSshConfig
    <2>2. op'[t] = Idle /\ OthersUnchanged(t)
      BY <2>1, <1>5 DEF OthersUnchanged, SameTask, IsCalling, IsDialling, IsHolding, HostOf, NormalizeHostName
    <2>3. ~IsCalling(t)' /\ ~IsDialling(t)' /\ ~IsHolding(t)'
      BY <2>2 DEF Idle, IsCalling, IsDialling, IsHolding
    <2> QED
      BY <1>2, <1>3, <2>1, <2>2, <2>3
  <1> QED
    BY <1>6, <1>7

\* Handing out a pooled connection.
LEMMA GivesEffect ==
    ASSUME TypeOK, NEW t \in Tasks, NEW expired, NEW c,
           op[t].at = "wait", GivesPooled(t, expired, c)
    PROVE  /\ UNCHANGED <<registry, generation, lockObject, pooled, missed, stale,
                          dialled, closing, shutdown>>
           /\ OthersUnchanged(t)
           /\ ~IsHolding(t) /\ ~IsDialling(t) /\ IsHolding(t)' /\ ~IsCalling(t)' /\ ~IsDialling(t)'
           /\ HostOf(t) \in Hosts /\ HostOf(t)' = HostOf(t)
           /\ op'[t].conn = c /\ c \in ConnIds
           /\ c \in pool[HostOf(t)] /\ ~stale[c] /\ conn[c] = "open" /\ c \notin expired
           /\ expired \subseteq pool[HostOf(t)]
           /\ \A d \in expired : inUse[d] = 0
           /\ \A d \in ConnIds : inUse'[d] = IF d = c THEN inUse[d] + 1 ELSE inUse[d]
           /\ Closes(expired) /\ PoolsShrink /\ c \in pool'[HostOf(t)]
  <1> DEFINE new == [at |-> "holding", name |-> op[t].name, conn |-> c]
  <1>1. op' = [op EXCEPT ![t] = new] /\ DOMAIN op = Tasks
    BY DEF GivesPooled, HandOut, TypeOK
  <1>2. op'[t] = new /\ OthersUnchanged(t)
    <2> HIDE DEF new
    <2> QED
      BY <1>1 DEF OthersUnchanged, SameTask, IsCalling, IsDialling, IsHolding, HostOf, NormalizeHostName
  <1>3. ~IsHolding(t) /\ ~IsDialling(t) /\ IsHolding(t)' /\ ~IsCalling(t)' /\ ~IsDialling(t)'
    BY <1>2 DEF IsHolding, IsCalling, IsDialling
  <1>4. HostOf(t) \in Hosts /\ HostOf(t)' = HostOf(t) /\ op'[t].conn = c
    BY <1>2, OpCases DEF HostOf, NormalizeHostName, IsCalling
  <1>5. /\ c \in ConnIds /\ c \in pool[HostOf(t)] /\ ~stale[c] /\ conn[c] = "open"
        /\ c \notin expired /\ expired \subseteq pool[HostOf(t)]
        /\ \A d \in expired : inUse[d] = 0
    BY DEF GivesPooled, Usable, AliveAfterPrune, IsAlive, Expirable
  <1>6. \A d \in ConnIds : inUse'[d] = IF d = c THEN inUse[d] + 1 ELSE inUse[d]
    BY DEF GivesPooled, HandOut, TypeOK
  <1>7. Closes(expired)
    BY DEF GivesPooled, Prune, CloseConns, Closes
  <1>8. \A h \in Hosts : pool'[h] = IF h = HostOf(t) THEN AliveAfterPrune(h, expired)
                                                      ELSE pool[h]
    BY <1>4 DEF GivesPooled, Prune, TypeOK
  <1>9. PoolsShrink /\ c \in pool'[HostOf(t)]
    BY <1>4, <1>5, <1>7, <1>8 DEF PoolsShrink, AliveAfterPrune, IsAlive, Closes, TypeOK
  <1> QED
    BY <1>2, <1>3, <1>4, <1>5, <1>6, <1>7, <1>9 DEF GivesPooled

\* Starting a dial.
LEMMA DialEffect ==
    ASSUME TypeOK, NEW t \in Tasks, Dial(t)
    PROVE  /\ UNCHANGED <<registry, generation, lockObject, pooled, inUse, missed,
                          stale, dialled, closing, shutdown>>
           /\ OthersUnchanged(t)
           /\ ~IsHolding(t) /\ ~IsHolding(t)' /\ IsCalling(t) /\ IsCalling(t)' /\ IsDialling(t)'
           /\ HostOf(t) \in Hosts /\ HostOf(t)' = HostOf(t)
           /\ op'[t].cfg = op[t].cfg /\ op'[t].gen = op[t].gen /\ op'[t].lock = op[t].lock
           /\ LockFree(HostOf(t), op[t].lock)
           /\ Cardinality(Usable(pool'[HostOf(t)])) < PoolSize
           /\ PoolsShrink
           /\ \E expired \in SUBSET pool[HostOf(t)] :
                (\A d \in expired : inUse[d] = 0) /\ Closes(expired)
  <1>1. op[t] \in Calling /\ HostOf(t) \in Hosts /\ IsCalling(t) /\ ~IsHolding(t)
    BY OpCases DEF Dial, EnterLock, IsCalling
  <1> DEFINE new == [op[t] EXCEPT !.at = "connect"]
  <1>2. op' = [op EXCEPT ![t] = new] /\ DOMAIN op = Tasks
    BY DEF Dial, TypeOK
  <1>3. op'[t] = new /\ OthersUnchanged(t)
    <2> HIDE DEF new
    <2> QED
      BY <1>2 DEF OthersUnchanged, SameTask, IsCalling, IsDialling, IsHolding, HostOf, NormalizeHostName
  <1>4. /\ new.at = "connect" /\ new.name = op[t].name /\ new.cfg = op[t].cfg
        /\ new.gen = op[t].gen /\ new.lock = op[t].lock
    BY <1>1 DEF Calling
  <1>5. /\ ~IsHolding(t)' /\ IsCalling(t)' /\ IsDialling(t)' /\ HostOf(t)' = HostOf(t)
        /\ op'[t].cfg = op[t].cfg /\ op'[t].gen = op[t].gen /\ op'[t].lock = op[t].lock
    BY <1>3, <1>4 DEF IsHolding, IsCalling, IsDialling, HostOf, NormalizeHostName
  <1>6. PICK expired \in SUBSET Expirable(HostOf(t)) :
            /\ Cardinality(Usable(AliveAfterPrune(HostOf(t), expired))) < PoolSize
            /\ Prune(HostOf(t), expired)
    BY DEF Dial
  <1>7. expired \in SUBSET pool[HostOf(t)] /\ (\A d \in expired : inUse[d] = 0) /\ Closes(expired)
    BY <1>6 DEF Prune, CloseConns, Closes, Expirable
  <1>8. \A h \in Hosts : pool'[h] = IF h = HostOf(t) THEN AliveAfterPrune(h, expired)
                                                      ELSE pool[h]
    BY <1>1, <1>6 DEF Prune, TypeOK
  <1>9. PoolsShrink
    BY <1>7, <1>8 DEF PoolsShrink, AliveAfterPrune, IsAlive, Closes, TypeOK
  <1>10. Cardinality(Usable(pool'[HostOf(t)])) < PoolSize
    BY <1>1, <1>6, <1>8
  <1> QED
    BY <1>1, <1>3, <1>5, <1>7, <1>9, <1>10 DEF Dial, EnterLock, reconfVars, downVars

\* A step that only moves the task on inside get_connection, or out of it.
LEMMA MoveEffect ==
    ASSUME TypeOK, NEW t \in Tasks, KeyRefused(t) \/ Fail(t)
    PROVE  /\ UNCHANGED <<registry, generation, lockObject, pool, pooled, conn,
                          inUse, missed, stale, dialled, closing, shutdown>>
           /\ OthersUnchanged(t)
           /\ ~IsHolding(t) /\ ~IsHolding(t)'
           /\ \/ ~IsCalling(t)' /\ ~IsDialling(t)'
              \/ /\ IsDialling(t) /\ IsCalling(t)' /\ IsDialling(t)' /\ HostOf(t)' = HostOf(t)
                 /\ op'[t].cfg = op[t].cfg /\ op'[t].gen = op[t].gen
                 /\ op'[t].lock = op[t].lock
  <1>0. DOMAIN op = Tasks
    BY DEF TypeOK
  <1>1. CASE KeyRefused(t)
    <2>1. op[t] \in Calling /\ IsDialling(t) /\ ~IsHolding(t)
      BY <1>1, OpCases DEF KeyRefused, IsCalling, IsDialling, IsHolding
    <2> DEFINE new == [op[t] EXCEPT !.at = "retry"]
    <2>2. op' = [op EXCEPT ![t] = new]
      BY <1>1 DEF KeyRefused
    <2>3. op'[t] = new /\ OthersUnchanged(t)
      <3> HIDE DEF new
      <3> QED
        BY <2>2, <1>0 DEF OthersUnchanged, SameTask, IsCalling, IsDialling, IsHolding, HostOf, NormalizeHostName
    <2>4. /\ new.at = "retry" /\ new.name = op[t].name /\ new.cfg = op[t].cfg
          /\ new.gen = op[t].gen /\ new.lock = op[t].lock
      BY <2>1 DEF Calling
    <2>5. /\ ~IsHolding(t)' /\ IsCalling(t)' /\ IsDialling(t)' /\ HostOf(t)' = HostOf(t)
          /\ op'[t].cfg = op[t].cfg /\ op'[t].gen = op[t].gen /\ op'[t].lock = op[t].lock
      BY <2>3, <2>4 DEF IsHolding, IsCalling, IsDialling, HostOf, NormalizeHostName
    <2> QED
      BY <1>1, <2>1, <2>3, <2>5 DEF KeyRefused, reconfVars, connVars, downVars
  <1>2. CASE Fail(t)
    <2>1. op'[t] = Idle /\ OthersUnchanged(t)
      BY <1>2, <1>0 DEF Fail, OthersUnchanged, SameTask, IsCalling, IsDialling, IsHolding, HostOf, NormalizeHostName
    <2>2. ~IsHolding(t)' /\ ~IsCalling(t)' /\ ~IsDialling(t)'
      BY <2>1 DEF Idle, IsHolding, IsCalling, IsDialling
    <2> QED
      BY <1>2, <2>1, <2>2, OpCases DEF Fail, reconfVars, connVars, downVars
  <1> QED
    BY <1>1, <1>2

\* Pooling a freshly dialled connection.
LEMMA ConnectedEffect ==
    ASSUME TypeOK, NEW t \in Tasks, Connected(t)
    PROVE  /\ UNCHANGED <<registry, generation, lockObject, missed, stale, closing, shutdown>>
           /\ OthersUnchanged(t)
           /\ ~IsHolding(t) /\ IsCalling(t) /\ IsDialling(t) /\ ConfigUnchanged(t)
           /\ IsHolding(t)' /\ ~IsCalling(t)' /\ ~IsDialling(t)'
           /\ HostOf(t) \in Hosts /\ HostOf(t)' = HostOf(t)
           /\ op'[t].conn = pooled + 1 /\ pooled + 1 \in ConnIds /\ pooled' = pooled + 1
           /\ \A h \in Hosts :
                pool'[h] = IF h = HostOf(t) THEN pool[h] \cup {pooled + 1} ELSE pool[h]
           /\ \A d \in ConnIds :
                IF d = pooled + 1
                THEN conn'[d] = "open" /\ inUse'[d] = 1 /\ dialled'[d] = op[t].cfg
                ELSE conn'[d] = conn[d] /\ inUse'[d] = inUse[d] /\ dialled'[d] = dialled[d]
  <1> DEFINE c == pooled + 1
  <1> DEFINE new == [at |-> "holding", name |-> op[t].name, conn |-> c]
  <1>1. IsCalling(t) /\ HostOf(t) \in Hosts /\ ~IsHolding(t)
    BY OpCases DEF Connected
  <1>2. c \in ConnIds
    BY SizeAssumption DEF Connected, ConnIds, TypeOK
  <1>3. op' = [op EXCEPT ![t] = new] /\ DOMAIN op = Tasks
    BY DEF Connected, TypeOK
  <1>4. op'[t] = new /\ OthersUnchanged(t)
    <2> HIDE DEF new
    <2> QED
      BY <1>3 DEF OthersUnchanged, SameTask, IsCalling, IsDialling, IsHolding, HostOf, NormalizeHostName
  <1>5. /\ IsHolding(t)' /\ ~IsCalling(t)' /\ ~IsDialling(t)' /\ HostOf(t)' = HostOf(t)
        /\ op'[t].conn = c
    BY <1>4 DEF IsHolding, IsCalling, IsDialling, HostOf, NormalizeHostName
  <1>6. \A h \in Hosts : pool'[h] = IF h = HostOf(t) THEN pool[h] \cup {c} ELSE pool[h]
    BY <1>1 DEF Connected, TypeOK
  <1>7. \A d \in ConnIds :
            IF d = c THEN conn'[d] = "open" /\ inUse'[d] = 1 /\ dialled'[d] = op[t].cfg
            ELSE conn'[d] = conn[d] /\ inUse'[d] = inUse[d] /\ dialled'[d] = dialled[d]
    BY DEF Connected, TypeOK
  <1> QED
    BY <1>1, <1>2, <1>4, <1>5, <1>6, <1>7 DEF Connected, reconfVars, downVars

\* Releasing, found in the pool of that name or not.
LEMMA ReleaseEffect ==
    ASSUME TypeOK, NEW t \in Tasks, Release(t)
    PROVE  /\ UNCHANGED <<registry, generation, lockObject, pool, pooled, stale,
                          dialled, closing, shutdown>>
           /\ OthersUnchanged(t)
           /\ IsHolding(t) /\ op[t].conn \in ConnIds /\ op[t].name \in Names
           /\ ~IsHolding(t)' /\ ~IsCalling(t)' /\ ~IsDialling(t)'
           /\ \/ /\ UNCHANGED <<inUse, conn>>
                 /\ \A d \in ConnIds :
                      missed'[d] = IF d = op[t].conn /\ d \in pool[HostOf(t)]
                                   THEN missed[d] + 1 ELSE missed[d]
              \/ /\ op[t].name \in Hosts /\ HostOf(t) = op[t].name
                 /\ op[t].conn \in pool[HostOf(t)] /\ missed' = missed
                 /\ \A d \in ConnIds :
                      inUse'[d] = IF d = op[t].conn
                                  THEN IF inUse[d] > 0 THEN inUse[d] - 1 ELSE 0
                                  ELSE inUse[d]
                 /\ \/ /\ stale[op[t].conn] /\ inUse'[op[t].conn] = 0
                       /\ Closes({op[t].conn})
                    \/ /\ ~(stale[op[t].conn] /\ inUse'[op[t].conn] = 0)
                       /\ conn' = conn
  <1> DEFINE c == op[t].conn
  <1> DEFINE left == IF inUse[c] > 0 THEN inUse[c] - 1 ELSE 0
  <1>1. IsHolding(t) /\ c \in ConnIds /\ op[t].name \in Names
    BY OpCases DEF Release, Holding
  <1>2. op'[t] = Idle /\ OthersUnchanged(t)
    BY DEF Release, OthersUnchanged, SameTask, IsCalling, IsDialling, IsHolding, HostOf,
           NormalizeHostName, TypeOK
  <1>3. ~IsHolding(t)' /\ ~IsCalling(t)' /\ ~IsDialling(t)'
    BY <1>2 DEF Idle, IsHolding, IsCalling, IsDialling
  <1>4. ReleaseConnection(op[t].name, c)
    BY DEF Release
  <1>5. UNCHANGED <<registry, generation, lockObject, pool, pooled, stale,
                    dialled, closing, shutdown>>
    BY DEF Release, reconfVars, downVars
  <1>6. CASE c \notin PoolNamed(op[t].name)
    <2>1. UNCHANGED <<inUse, conn>> /\ Misses(op[t].name, c)
      BY <1>4, <1>6 DEF ReleaseConnection
    <2>2. \A d \in ConnIds : missed'[d] = IF d = c /\ d \in pool[HostOf(t)]
                                          THEN missed[d] + 1 ELSE missed[d]
      BY <2>1, <1>1 DEF Misses, HostOf, TypeOK
    <2> QED
      BY <1>1, <1>2, <1>3, <1>5, <2>1, <2>2
  <1>7. CASE c \in PoolNamed(op[t].name)
    <2>1. op[t].name \in Hosts /\ HostOf(t) = op[t].name /\ c \in pool[HostOf(t)]
      BY <1>7 DEF PoolNamed, HostOf, NormalizeHostName
    <2>2. inUse' = [inUse EXCEPT ![c] = left]
          /\ conn' = CloseConns(IF stale[c] /\ left = 0 THEN {c} ELSE {})
          /\ missed' = missed
      BY <1>4, <1>7 DEF ReleaseConnection
    <2>3. inUse'[c] = left
      BY <2>2, <1>1 DEF TypeOK
    <2>4. conn = CloseConns({})
      BY DEF CloseConns, TypeOK
    <2>5. \/ stale[c] /\ inUse'[c] = 0 /\ conn' = CloseConns({c})
          \/ ~(stale[c] /\ inUse'[c] = 0) /\ conn' = conn
      <3> HIDE DEF c, left
      <3> QED
        BY <2>2, <2>3, <2>4
    <2>6. conn' = CloseConns({c}) => Closes({c})
      BY DEF CloseConns, Closes
    <2>7. \A d \in ConnIds : inUse'[d] = IF d = c THEN left ELSE inUse[d]
      BY <2>2, <1>1 DEF TypeOK
    <2> QED
      BY <1>1, <1>2, <1>3, <1>5, <2>1, <2>2, <2>5, <2>6, <2>7
  <1> QED
    BY <1>6, <1>7

\* Reconfiguring a host.
LEMMA ReconfigureEffect ==
    ASSUME TypeOK, NEW h \in Hosts,
           RemoveHost(h) \/ \E cfg \in Configs : RegisterHost(h, cfg)
    PROVE  /\ UNCHANGED <<pooled, inUse, missed, dialled, closing, shutdown, op>>
           /\ \A u \in Tasks : SameTask(u)
           /\ generation'[h] = generation[h] + 1
           /\ \A g \in Hosts : g # h => /\ registry'[g] = registry[g]
                                        /\ generation'[g] = generation[g]
                                        /\ lockObject'[g] = lockObject[g]
                                        /\ pool'[g] = pool[g]
           /\ \A c \in pool'[h] : stale'[c] /\ inUse[c] # 0
           /\ Closes({c \in pool[h] : inUse[c] = 0}) /\ PoolsShrink
           /\ \A c \in ConnIds : stale'[c] <=> stale[c] \/ c \in pool'[h]
  <1>1. InvalidatePool(h) /\ BumpGeneration(h) /\ UNCHANGED <<pooled, inUse, missed, dialled, closing, shutdown, op>>
    BY DEF RemoveHost, RegisterHost, downVars
  <1>2. \A g \in Hosts : g # h => registry'[g] = registry[g] /\ lockObject'[g] = lockObject[g]
    BY DEF RemoveHost, RegisterHost, TypeOK
  <1>3. pool[h] \ {c \in pool[h] : inUse[c] # 0} = {c \in pool[h] : inUse[c] = 0}
    OBVIOUS
  <1>4. generation'[h] = generation[h] + 1
        /\ \A g \in Hosts : g # h => generation'[g] = generation[g]
    BY <1>1 DEF BumpGeneration, TypeOK
  <1>5. \A g \in Hosts : pool'[g] = IF g = h THEN {c \in pool[h] : inUse[c] # 0} ELSE pool[g]
    BY <1>1 DEF InvalidatePool, TypeOK
  <1>6. Closes({c \in pool[h] : inUse[c] = 0})
    BY <1>1, <1>3 DEF InvalidatePool, CloseConns, Closes
  <1>7. PoolsShrink
    BY <1>5, <1>6 DEF PoolsShrink, Closes, TypeOK
  <1>8. \A c \in ConnIds : stale'[c] <=> stale[c] \/ c \in pool'[h]
    BY <1>1, <1>5 DEF InvalidatePool, TypeOK
  <1>9. \A c \in pool'[h] : stale'[c] /\ inUse[c] # 0
    BY <1>5, <1>8 DEF TypeOK
  <1>10. \A u \in Tasks : SameTask(u)
    BY <1>1 DEF SameTask, IsCalling, IsDialling, IsHolding, HostOf, NormalizeHostName
  <1> QED
    BY <1>1, <1>2, <1>4, <1>5, <1>6, <1>7, <1>8, <1>9, <1>10

\* Shutdown and lost connections.
LEMMA DownEffect ==
    ASSUME TypeOK, ~shutdown => closing = {},
           CloseAll \/ \E c \in ConnIds : CloseAllStep(c) \/ Lose(c)
    PROVE  /\ UNCHANGED <<registry, generation, lockObject, pooled, inUse, missed,
                          stale, dialled, op>>
           /\ \A u \in Tasks : SameTask(u)
           /\ \A h \in Hosts : pool'[h] \subseteq pool[h]
           /\ \A c \in ConnIds :
                /\ conn'[c] = conn[c] \/ (conn[c] = "open" /\ conn'[c] = "lost")
                               \/ (conn[c] = "open" /\ conn'[c] = "closed" /\ c \in closing)
                /\ conn'[c] = "open" /\ c \in closing => c \in closing'
                /\ \A h \in Hosts : c \in pool[h] => c \in pool'[h] \/ c \in closing'
                /\ c \in closing' => c \in closing \/ \E h \in Hosts : c \in pool[h]
           /\ shutdown => shutdown'
           /\ ~shutdown' => closing' = {}
  <1>1. UNCHANGED <<registry, generation, lockObject, pooled, inUse, missed, stale, dialled, op>>
    BY DEF CloseAll, CloseAllStep, Lose, reconfVars, connVars, downVars
  <1>2. \A u \in Tasks : SameTask(u)
    BY <1>1 DEF SameTask, IsCalling, IsDialling, IsHolding, HostOf, NormalizeHostName
  <1>3. \A h \in Hosts : pool'[h] \subseteq pool[h]
    BY DEF CloseAll, CloseAllStep, Lose
  <1> DEFINE Fate(c) ==
        /\ conn'[c] = conn[c] \/ (conn[c] = "open" /\ conn'[c] = "lost")
                       \/ (conn[c] = "open" /\ conn'[c] = "closed" /\ c \in closing)
        /\ conn'[c] = "open" /\ c \in closing => c \in closing'
        /\ \A h \in Hosts : c \in pool[h] => c \in pool'[h] \/ c \in closing'
        /\ c \in closing' => c \in closing \/ \E h \in Hosts : c \in pool[h]
  <1>4. ASSUME CloseAll, closing = {} PROVE \A c \in ConnIds : Fate(c)
    BY <1>4 DEF CloseAll, connVars
  <1>5. ASSUME NEW d \in ConnIds, CloseAllStep(d) PROVE \A c \in ConnIds : Fate(c)
    BY <1>5 DEF CloseAllStep, CloseConns, TypeOK
  <1>6. ASSUME NEW d \in ConnIds, Lose(d) PROVE \A c \in ConnIds : Fate(c)
    BY <1>6 DEF Lose, downVars, TypeOK
  <1>7. /\ shutdown => shutdown'
        /\ (~shutdown => closing = {}) => (~shutdown' => closing' = {})
    <2>1. CASE CloseAll
      BY <2>1 DEF CloseAll
    <2>2. ASSUME NEW d \in ConnIds, CloseAllStep(d) \/ Lose(d)
          PROVE  shutdown' = shutdown /\ closing' \subseteq closing
      BY <2>2 DEF CloseAllStep, Lose, downVars
    <2> QED
      BY <2>1, <2>2
  <1> QED
    BY <1>1, <1>2, <1>3, <1>4, <1>5, <1>6, <1>7 DEF CloseAll

-----------------------------------------------------------------------------
(* The inductive invariant.                                                *)

\* Connections are numbered in the order they are pooled: nothing refers to
\* a number not given out yet.
Numbered ==
    /\ \A c \in ConnIds : c > pooled => /\ conn[c] = "none" /\ ~stale[c]
                                        /\ missed[c] = 0 /\ c \notin closing
                                        /\ \A h \in Hosts : c \notin pool[h]
    /\ \A t \in Tasks : IsHolding(t) => op[t].conn \in ConnIds /\ op[t].conn <= pooled
    /\ ~shutdown => closing = {}

\* A connection is in one pool, the one of the host its holders named.
Home ==
    /\ \A h, g \in Hosts : \A c \in ConnIds : c \in pool[h] /\ c \in pool[g] => h = g
    /\ \A t \in Tasks, h \in Hosts : IsHolding(t) /\ op[t].conn \in pool[h] => h = HostOf(t)

\* What a task inside get_connection captured: while the generation has not
\* moved, the configuration and the lock object are still the host's.
CallFresh ==
    \A t \in Tasks : IsCalling(t) =>
        /\ op[t].gen <= generation[HostOf(t)]
        /\ op[t].gen = generation[HostOf(t)] =>
             /\ registry[HostOf(t)] = op[t].cfg
             /\ lockObject[HostOf(t)] = op[t].lock

\* A lock object admits one dialling task.
Mutex ==
    \A t, u \in Tasks :
        /\ t # u /\ IsDialling(t) /\ IsDialling(u)
        /\ HostOf(t) = HostOf(u)
        => op[t].lock # op[u].lock

\* There is room for the connection being dialled.
DialRoom ==
    \A t \in Tasks : IsDialling(t) /\ ConfigUnchanged(t)
                        => Cardinality(Usable(pool[HostOf(t)])) < PoolSize

\* in_use is the holders and the releases under a raw spelling, so it covers
\* the holders.
Counted == CountsHolders /\ InUseAccounted

\* The inductive invariant.
PoolInv ==
    /\ TypeOK /\ Numbered /\ Home /\ CallFresh /\ Mutex
    /\ FreshUsable /\ PoolBound /\ DialRoom /\ Counted
    /\ NoYank /\ NoOrphan /\ RetiredClosed

\* Only get_connection's append gives out a number, the next one.
LEMMA NumberedStep ==
    ASSUME TypeOK, Numbered, Next
    PROVE  Numbered'
  <1> USE DEF Numbered
  \* Closing and losing connections and shrinking pools preserve it.
  <1>0. ASSUME UNCHANGED <<pooled, missed, closing, shutdown>>, PoolsShrink, NEW S, Closes(S),
               \A c \in ConnIds : c > pooled => ~stale'[c],
               \A t \in Tasks : IsHolding(t)' =>
                    op'[t].conn \in ConnIds /\ op'[t].conn <= pooled
        PROVE  Numbered'
    BY <1>0 DEF PoolsShrink, Closes
  <1>1. ASSUME NEW t \in Tasks, GetConnection(t) \/ Superseded(t) PROVE Numbered'
    BY <1>1, ResolveEffect DEF OthersUnchanged, SameTask
  <1>2. ASSUME NEW t \in Tasks, Reuse(t) \/ Overload(t) PROVE Numbered'
    <2>1. PICK expired, c : op[t].at = "wait" /\ GivesPooled(t, expired, c)
      BY <1>2, EnterGives
    <2>2. c \in ConnIds /\ c \in pool[HostOf(t)] /\ HostOf(t) \in Hosts
      BY <2>1, GivesEffect
    <2>3. c <= pooled
      BY <2>2, SizeAssumption DEF TypeOK, ConnIds
    <2> QED
      BY <2>1, <2>2, <2>3, <1>0, GivesEffect DEF OthersUnchanged, SameTask
  <1>3. ASSUME NEW t \in Tasks, Dial(t) PROVE Numbered'
    BY <1>3, <1>0, DialEffect DEF OthersUnchanged, SameTask
  <1>4. ASSUME NEW t \in Tasks, KeyRefused(t) \/ Fail(t) PROVE Numbered'
    BY <1>4, MoveEffect DEF OthersUnchanged, SameTask
  <1>5. ASSUME NEW t \in Tasks, Connected(t) PROVE Numbered'
    <2> DEFINE c == pooled + 1
    <2>1. /\ pooled \in Nat /\ c \in Nat
          /\ \A d \in ConnIds : d \in Nat /\ (d > c => d > pooled /\ d # c)
                                         /\ (d <= pooled => d <= c)
      BY SizeAssumption DEF TypeOK, ConnIds
    <2>2. \A d \in ConnIds : d > c => conn'[d] = "none" /\ \A h \in Hosts : d \notin pool'[h]
      <3> SUFFICES ASSUME NEW d \in ConnIds, d > c
                   PROVE  conn'[d] = "none" /\ \A h \in Hosts : d \notin pool'[h]
        OBVIOUS
      <3>1. d > pooled /\ d # c
        BY <2>1
      <3>2. conn'[d] = conn[d] /\ \A h \in Hosts : d \in pool'[h] => d \in pool[h] \/ d = c
        <4>1. HostOf(t) \in Hosts
          BY <1>5, ConnectedEffect
        <4>2. conn'[d] = conn[d]
          BY <1>5, <3>1, ConnectedEffect
        <4>3. \A h \in Hosts : pool'[h] = IF h = HostOf(t) THEN pool[h] \cup {c} ELSE pool[h]
          BY <1>5, ConnectedEffect
        <4> QED
          BY <4>2, <4>3
      <3> QED
        BY <3>1, <3>2
    <2>3. \A u \in Tasks : IsHolding(u)' => op'[u].conn \in ConnIds /\ op'[u].conn <= c
      BY <1>5, <2>1, ConnectedEffect DEF OthersUnchanged, SameTask
    <2> QED
      BY <1>5, <2>1, <2>2, <2>3, ConnectedEffect
  <1>6. ASSUME NEW t \in Tasks, Release(t) PROVE Numbered'
    <2>1. \A d \in ConnIds : d > pooled => conn'[d] = "none"
      BY <1>6, ReleaseEffect DEF Closes
    <2>2. \A u \in Tasks : IsHolding(u)' => op'[u] = op[u] /\ IsHolding(u)
      BY <1>6, ReleaseEffect DEF OthersUnchanged, SameTask
    <2>3. UNCHANGED <<pool, pooled, stale, closing, shutdown>>
      BY <1>6, ReleaseEffect
    <2>4. HostOf(t) \in Hosts
      BY <1>6, ReleaseEffect, NormType DEF HostOf
    <2>5. \A d \in ConnIds : d > pooled => missed'[d] = 0
      BY <1>6, <2>4, ReleaseEffect
    <2> QED
      BY <2>1, <2>2, <2>3, <2>5
  <1>7. ASSUME NEW h \in Hosts, RemoveHost(h) \/ \E cfg \in Configs : RegisterHost(h, cfg)
        PROVE  Numbered'
    <2>1. \A d \in ConnIds : d > pooled => ~stale'[d]
      BY <1>7, ReconfigureEffect DEF PoolsShrink, SameTask
    <2> QED
      BY <1>7, <1>0, <2>1, ReconfigureEffect DEF SameTask
  <1>8. CASE CloseAll \/ \E c \in ConnIds : CloseAllStep(c) \/ Lose(c)
    BY <1>8, DownEffect DEF SameTask
  <1> QED
    BY <1>1, <1>2, <1>3, <1>4, <1>5, <1>6, <1>7, <1>8 DEF Next

\* No operation moves a connection from one host's list to another's.
LEMMA HomeStep ==
    ASSUME TypeOK, Numbered, Home, Next
    PROVE  Home'
  <1> USE DEF Home
  \* Shrinking pools and fewer holders preserve it.
  <1>0. ASSUME \A h \in Hosts : pool'[h] \subseteq pool[h],
               \A t \in Tasks : IsHolding(t)' =>
                    IsHolding(t) /\ op'[t].conn = op[t].conn /\ HostOf(t)' = HostOf(t)
        PROVE  Home'
    BY <1>0
  <1>1. ASSUME NEW t \in Tasks, GetConnection(t) \/ Superseded(t) PROVE Home'
    BY <1>1, <1>0, ResolveEffect DEF OthersUnchanged, SameTask
  <1>2. ASSUME NEW t \in Tasks, Reuse(t) \/ Overload(t) PROVE Home'
    <2>1. PICK expired, c : op[t].at = "wait" /\ GivesPooled(t, expired, c)
      BY <1>2, EnterGives
    <2>2. \A h \in Hosts : pool'[h] \subseteq pool[h]
      BY <2>1, GivesEffect DEF PoolsShrink
    <2>3. \A u \in Tasks, h \in Hosts :
             IsHolding(u)' /\ op'[u].conn \in pool'[h] => h = HostOf(u)'
      <3> TAKE u \in Tasks, h \in Hosts
      <3>1. CASE u = t
        BY <2>1, <2>2, <3>1, GivesEffect
      <3>2. CASE u # t
        BY <2>1, <2>2, <3>2, GivesEffect DEF OthersUnchanged, SameTask
      <3> QED
        BY <3>1, <3>2
    <2> QED
      BY <2>2, <2>3
  <1>3. ASSUME NEW t \in Tasks, Dial(t) PROVE Home'
    <2>1. \A h \in Hosts : pool'[h] \subseteq pool[h]
      BY <1>3, DialEffect DEF PoolsShrink
    <2> QED
      BY <1>3, <1>0, <2>1, DialEffect DEF OthersUnchanged, SameTask
  <1>4. ASSUME NEW t \in Tasks, KeyRefused(t) \/ Fail(t) PROVE Home'
    BY <1>4, <1>0, MoveEffect DEF OthersUnchanged, SameTask
  <1>5. ASSUME NEW t \in Tasks, Connected(t) PROVE Home'
    <2> DEFINE c == pooled + 1
    <2>1. c \in ConnIds /\ (\A h \in Hosts : c \notin pool[h]) /\ c > pooled
      BY <1>5, ConnectedEffect DEF Numbered, TypeOK, ConnIds
    <2>2. \A h \in Hosts : pool'[h] = IF h = HostOf(t) THEN pool[h] \cup {c} ELSE pool[h]
      BY <1>5, ConnectedEffect
    <2>3. \A u \in Tasks, h \in Hosts :
             IsHolding(u)' /\ op'[u].conn \in pool'[h] => h = HostOf(u)'
      <3> TAKE u \in Tasks, h \in Hosts
      <3>1. CASE u = t
        <4>1. op'[t].conn = c /\ HostOf(t)' = HostOf(t)
          BY <1>5, ConnectedEffect
        <4>2. c \notin pool[h]
          BY <2>1
        <4>3. c \in pool'[h] => h = HostOf(t)
          BY <2>2, <4>2
        <4> QED
          BY <3>1, <4>1, <4>3
      <3>2. CASE u # t
        <4>1. IsHolding(u)' => op[u].conn \in ConnIds /\ op[u].conn # c
          <5>1. IsHolding(u)' => IsHolding(u)
            BY <1>5, <3>2, ConnectedEffect DEF OthersUnchanged, SameTask
          <5>2. pooled \in Nat /\ ConnIds \subseteq Nat
            BY SizeAssumption DEF TypeOK, ConnIds
          <5> QED
            BY <5>1, <5>2, <2>1 DEF Numbered
        <4>2. SameTask(u)
          BY <1>5, <3>2, ConnectedEffect DEF OthersUnchanged
        <4> QED
          BY <2>2, <4>1, <4>2 DEF SameTask
      <3> QED
        BY <3>1, <3>2
    <2> QED
      BY <2>1, <2>2, <2>3
  <1>6. ASSUME NEW t \in Tasks, Release(t) PROVE Home'
    BY <1>6, <1>0, ReleaseEffect DEF OthersUnchanged, SameTask
  <1>7. ASSUME NEW h \in Hosts, RemoveHost(h) \/ \E cfg \in Configs : RegisterHost(h, cfg)
        PROVE  Home'
    BY <1>7, <1>0, ReconfigureEffect DEF PoolsShrink, SameTask
  <1>8. CASE CloseAll \/ \E c \in ConnIds : CloseAllStep(c) \/ Lose(c)
    BY <1>8, <1>0, DownEffect DEF Numbered, SameTask
  <1> QED
    BY <1>1, <1>2, <1>3, <1>4, <1>5, <1>6, <1>7, <1>8 DEF Next

\* register_host and remove_host bump the generation whenever they change
\* what a get_connection in progress has captured.
LEMMA CallFreshStep ==
    ASSUME TypeOK, Numbered, CallFresh, Next
    PROVE  CallFresh'
  <1> USE DEF CallFresh
  \* Tasks that stay in their call keep what they captured.
  <1>0. ASSUME UNCHANGED <<registry, generation, lockObject>>,
               \A t \in Tasks : IsCalling(t)' =>
                    /\ IsCalling(t) /\ HostOf(t)' = HostOf(t) /\ op'[t].cfg = op[t].cfg
                    /\ op'[t].gen = op[t].gen /\ op'[t].lock = op[t].lock
        PROVE  CallFresh'
    BY <1>0
  <1>1. ASSUME NEW t \in Tasks, GetConnection(t) \/ Superseded(t) PROVE CallFresh'
    <2> SUFFICES ASSUME NEW u \in Tasks, IsCalling(u)'
                 PROVE  /\ op'[u].gen <= generation'[HostOf(u)']
                        /\ op'[u].gen = generation'[HostOf(u)'] =>
                             /\ registry'[HostOf(u)'] = op'[u].cfg
                             /\ lockObject'[HostOf(u)'] = op'[u].lock
      OBVIOUS
    <2>1. CASE u = t
      <3>1. HostOf(t)' \in Hosts /\ generation[HostOf(t)'] \in Nat
        BY <1>1, <2>1, ResolveEffect DEF TypeOK
      <3>2. registry'[HostOf(t)'] = op'[t].cfg
        BY <1>1, <2>1, <3>1, ResolveEffect DEF TypeOK
      <3> QED
        BY <1>1, <2>1, <3>1, <3>2, ResolveEffect
    <2>2. CASE u # t
      <3>1. op'[u] = op[u] /\ IsCalling(u) /\ HostOf(u)' = HostOf(u)
        BY <1>1, <2>2, ResolveEffect DEF OthersUnchanged, SameTask
      <3>2. HostOf(u) \in Hosts /\ op[u].cfg \in Configs
        BY <3>1, OpCases DEF Calling
      <3>3. op[u].gen = generation[HostOf(u)] => registry'[HostOf(u)] = registry[HostOf(u)]
        BY <1>1, <3>1, <3>2, ResolveEffect, ConfigAssumption DEF TypeOK
      <3> QED
        BY <1>1, <3>1, <3>2, <3>3, ResolveEffect
    <2> QED
      BY <2>1, <2>2
  <1>2. ASSUME NEW t \in Tasks, Reuse(t) \/ Overload(t) PROVE CallFresh'
    <2>1. PICK expired, c : op[t].at = "wait" /\ GivesPooled(t, expired, c)
      BY <1>2, EnterGives
    <2> QED
      BY <2>1, <1>0, GivesEffect DEF OthersUnchanged, SameTask
  <1>3. ASSUME NEW t \in Tasks, Dial(t) PROVE CallFresh'
    BY <1>3, <1>0, DialEffect DEF OthersUnchanged, SameTask
  <1>4. ASSUME NEW t \in Tasks, KeyRefused(t) \/ Fail(t) PROVE CallFresh'
    BY <1>4, <1>0, MoveEffect, OpCases DEF OthersUnchanged, SameTask
  <1>5. ASSUME NEW t \in Tasks, Connected(t) PROVE CallFresh'
    BY <1>5, <1>0, ConnectedEffect DEF OthersUnchanged, SameTask
  <1>6. ASSUME NEW t \in Tasks, Release(t) PROVE CallFresh'
    BY <1>6, <1>0, ReleaseEffect DEF OthersUnchanged, SameTask
  <1>7. ASSUME NEW h \in Hosts, RemoveHost(h) \/ \E cfg \in Configs : RegisterHost(h, cfg)
        PROVE  CallFresh'
    <2> SUFFICES ASSUME NEW u \in Tasks, IsCalling(u)'
                 PROVE  /\ op'[u].gen <= generation'[HostOf(u)']
                        /\ op'[u].gen = generation'[HostOf(u)'] =>
                             /\ registry'[HostOf(u)'] = op'[u].cfg
                             /\ lockObject'[HostOf(u)'] = op'[u].lock
      OBVIOUS
    <2>1. op'[u] = op[u] /\ IsCalling(u) /\ HostOf(u)' = HostOf(u) /\ HostOf(u) \in Hosts
          /\ op[u].gen \in Nat
      BY <1>7, ReconfigureEffect, OpCases DEF Calling, SameTask
    <2>2. generation'[HostOf(u)] = IF HostOf(u) = h THEN generation[h] + 1
                                                    ELSE generation[HostOf(u)]
      BY <1>7, <2>1, ReconfigureEffect
    <2>3. generation[HostOf(u)] \in Nat
      BY <2>1 DEF TypeOK
    <2>4. CASE HostOf(u) = h
      BY <2>1, <2>2, <2>3, <2>4
    <2>5. CASE HostOf(u) # h
      <3>1. /\ registry'[HostOf(u)] = registry[HostOf(u)]
            /\ lockObject'[HostOf(u)] = lockObject[HostOf(u)]
        BY <1>7, <2>1, <2>5, ReconfigureEffect
      <3> QED
        BY <2>1, <2>2, <2>5, <3>1
    <2> QED
      BY <2>4, <2>5
  <1>8. CASE CloseAll \/ \E c \in ConnIds : CloseAllStep(c) \/ Lose(c)
    BY <1>8, <1>0, DownEffect DEF Numbered, SameTask
  <1> QED
    BY <1>1, <1>2, <1>3, <1>4, <1>5, <1>6, <1>7, <1>8 DEF Next

\* asyncio.Lock: a task starts to dial only under a lock nobody dials under.
LEMMA MutexStep ==
    ASSUME TypeOK, Numbered, Mutex, Next
    PROVE  Mutex'
  <1> USE DEF Mutex
  \* Tasks that dial afterwards dialled before, under the same lock.
  <1>0. ASSUME \A t \in Tasks : IsDialling(t)' =>
                    IsDialling(t) /\ HostOf(t)' = HostOf(t) /\ op'[t].lock = op[t].lock
        PROVE  Mutex'
    BY <1>0
  <1>1. ASSUME NEW t \in Tasks, GetConnection(t) \/ Superseded(t) PROVE Mutex'
    BY <1>1, <1>0, ResolveEffect DEF OthersUnchanged, SameTask
  <1>2. ASSUME NEW t \in Tasks, Reuse(t) \/ Overload(t) PROVE Mutex'
    <2>1. PICK expired, c : op[t].at = "wait" /\ GivesPooled(t, expired, c)
      BY <1>2, EnterGives
    <2> QED
      BY <2>1, <1>0, GivesEffect DEF OthersUnchanged, SameTask
  <1>3. ASSUME NEW t \in Tasks, Dial(t) PROVE Mutex'
    <2>1. /\ LockFree(HostOf(t), op[t].lock) /\ OthersUnchanged(t)
          /\ HostOf(t)' = HostOf(t) /\ op'[t].lock = op[t].lock
      BY <1>3, DialEffect
    <2>2. \A u \in Tasks : u # t /\ IsDialling(u)' /\ HostOf(u)' = HostOf(t)'
                              => op'[u].lock # op'[t].lock
      BY <2>1 DEF LockFree, OthersUnchanged, SameTask
    <2> QED
      BY <2>1, <2>2 DEF OthersUnchanged, SameTask
  <1>4. ASSUME NEW t \in Tasks, KeyRefused(t) \/ Fail(t) PROVE Mutex'
    BY <1>4, <1>0, MoveEffect DEF OthersUnchanged, SameTask
  <1>5. ASSUME NEW t \in Tasks, Connected(t) PROVE Mutex'
    BY <1>5, <1>0, ConnectedEffect DEF OthersUnchanged, SameTask
  <1>6. ASSUME NEW t \in Tasks, Release(t) PROVE Mutex'
    BY <1>6, <1>0, ReleaseEffect DEF OthersUnchanged, SameTask
  <1>7. ASSUME NEW h \in Hosts, RemoveHost(h) \/ \E cfg \in Configs : RegisterHost(h, cfg)
        PROVE  Mutex'
    BY <1>7, <1>0, ReconfigureEffect DEF SameTask
  <1>8. CASE CloseAll \/ \E c \in ConnIds : CloseAllStep(c) \/ Lose(c)
    BY <1>8, <1>0, DownEffect DEF Numbered, SameTask
  <1> QED
    BY <1>1, <1>2, <1>3, <1>4, <1>5, <1>6, <1>7, <1>8 DEF Next

\* Two tasks that dial the host's current configuration captured the host's
\* current lock object, and one lock object admits one of them.
LEMMA OneDialerHolds ==
    ASSUME TypeOK, CallFresh, Mutex
    PROVE  OneDialer
  <1> SUFFICES ASSUME NEW h \in Hosts, NEW t \in Tasks, NEW u \in Tasks,
                      DialsCurrent(t, h), DialsCurrent(u, h)
               PROVE  t = u
    BY DEF OneDialer
  <1>1. IsCalling(t) /\ IsCalling(u)
    BY OpCases DEF DialsCurrent
  <1>2. op[t].lock = lockObject[h] /\ op[u].lock = lockObject[h]
    BY <1>1 DEF DialsCurrent, CallFresh, ConfigUnchanged
  <1> QED
    BY <1>2 DEF DialsCurrent, Mutex

\* A reconfiguration retires or closes all that is pooled for the host, and
\* get_connection pools only what it dialled with the current configuration.
LEMMA FreshUsableStep ==
    ASSUME TypeOK, Numbered, CallFresh, FreshUsable, Next
    PROVE  FreshUsable'
  <1> USE DEF FreshUsable, Usable
  <1>0. ASSUME UNCHANGED <<registry, dialled, stale>>,
               \A h \in Hosts : pool'[h] \subseteq pool[h]
        PROVE  FreshUsable'
    BY <1>0
  <1>1. ASSUME NEW t \in Tasks, GetConnection(t) \/ Superseded(t) PROVE FreshUsable'
    <2>1. UNCHANGED <<pool, dialled, stale>>
      BY <1>1, ResolveEffect
    <2>2. \A h \in Hosts : registry[h] # NoConfig => registry'[h] = registry[h]
      BY <1>1, ResolveEffect DEF TypeOK
    <2> QED
      BY <2>1, <2>2
  <1>2. ASSUME NEW t \in Tasks, Reuse(t) \/ Overload(t) PROVE FreshUsable'
    <2>1. PICK expired, c : op[t].at = "wait" /\ GivesPooled(t, expired, c)
      BY <1>2, EnterGives
    <2> QED
      BY <2>1, <1>0, GivesEffect DEF PoolsShrink
  <1>3. ASSUME NEW t \in Tasks, Dial(t) PROVE FreshUsable'
    BY <1>3, <1>0, DialEffect DEF PoolsShrink
  <1>4. ASSUME NEW t \in Tasks, KeyRefused(t) \/ Fail(t) PROVE FreshUsable'
    BY <1>4, <1>0, MoveEffect
  <1>5. ASSUME NEW t \in Tasks, Connected(t) PROVE FreshUsable'
    <2> DEFINE c == pooled + 1
    <2>1. /\ UNCHANGED <<registry, stale>> /\ HostOf(t) \in Hosts
          /\ \A h \in Hosts : pool'[h] = IF h = HostOf(t) THEN pool[h] \cup {c} ELSE pool[h]
          /\ dialled'[c] = op[t].cfg
          /\ \A d \in ConnIds : d # c => dialled'[d] = dialled[d]
      BY <1>5, ConnectedEffect
    <2>2. op[t].cfg \in Configs /\ registry[HostOf(t)] = op[t].cfg
      BY <1>5, ConnectedEffect, OpCases DEF CallFresh, ConfigUnchanged, Calling
    <2>3. \A h \in Hosts : c \notin pool[h] /\ pool[h] \subseteq ConnIds
      <3>1. c \in ConnIds /\ c > pooled
        BY <1>5, ConnectedEffect DEF TypeOK
      <3> QED
        BY <3>1 DEF Numbered, TypeOK
    <2>4. ASSUME NEW h \in Hosts, NEW d \in pool'[h], ~stale'[d]
          PROVE  registry'[h] # NoConfig /\ dialled'[d] = registry'[h]
      <3>1. CASE d = c
        <4>1. h = HostOf(t)
          BY <2>1, <2>3, <2>4, <3>1
        <4>2. dialled'[d] = op[t].cfg /\ registry'[h] = op[t].cfg
          BY <2>1, <2>2, <3>1, <4>1
        <4> QED
          BY <2>2, <4>2, ConfigAssumption
      <3>2. CASE d # c
        BY <2>1, <2>3, <2>4, <3>2
      <3> QED
        BY <3>1, <3>2
    <2> QED
      BY <2>4
  <1>6. ASSUME NEW t \in Tasks, Release(t) PROVE FreshUsable'
    BY <1>6, <1>0, ReleaseEffect
  <1>7. ASSUME NEW h \in Hosts, RemoveHost(h) \/ \E cfg \in Configs : RegisterHost(h, cfg)
        PROVE  FreshUsable'
    <2>1. /\ dialled' = dialled /\ \A c \in pool'[h] : stale'[c]
          /\ \A g \in Hosts : g # h => registry'[g] = registry[g] /\ pool'[g] = pool[g]
          /\ \A c \in ConnIds : stale[c] => stale'[c]
      BY <1>7, ReconfigureEffect
    <2>2. \A g \in Hosts : pool[g] \subseteq ConnIds
      BY DEF TypeOK
    <2> QED
      BY <2>1, <2>2
  <1>8. CASE CloseAll \/ \E c \in ConnIds : CloseAllStep(c) \/ Lose(c)
    BY <1>8, <1>0, DownEffect DEF Numbered
  <1> QED
    BY <1>1, <1>2, <1>3, <1>4, <1>5, <1>6, <1>7, <1>8 DEF Next

\* The pools and their usable parts are finite.
LEMMA FinitePools ==
    ASSUME TypeOK, NEW h \in Hosts
    PROVE  IsFiniteSet(Usable(pool[h])) /\ Cardinality(Usable(pool[h])) \in Nat
  <1>1. IsFiniteSet(ConnIds)
    BY FS_Interval, SizeAssumption DEF ConnIds
  <1>2. Usable(pool[h]) \in SUBSET ConnIds
    BY DEF TypeOK, Usable
  <1> QED
    BY <1>1, <1>2, FS_Subset, FS_CardinalityType

\* get_connection dials only below pool_size, and until the dial ends no
\* other task fills the room it was promised.
LEMMA BoundStep ==
    ASSUME TypeOK, TypeOK', Numbered, CallFresh, Mutex, PoolBound, DialRoom, Next
    PROVE  PoolBound' /\ DialRoom'
  <1> USE DEF PoolBound, DialRoom
  <1>n. PoolSize \in Nat /\ \A h \in Hosts : Cardinality(Usable(pool[h])) \in Nat
    BY SizeAssumption, FinitePools
  \* Fewer usable connections, and no task starts to dial.
  <1>0. ASSUME \A h \in Hosts : Usable(pool[h])' \subseteq Usable(pool[h]),
               \A t \in Tasks : IsDialling(t)' /\ ConfigUnchanged(t)' =>
                    /\ HostOf(t)' = HostOf(t) /\ HostOf(t) \in Hosts
                    /\ \/ IsDialling(t) /\ ConfigUnchanged(t)
                       \/ Cardinality(Usable(pool[HostOf(t)])') < PoolSize
        PROVE  PoolBound' /\ DialRoom'
    <2>1. \A h \in Hosts : Cardinality(Usable(pool[h])') <= Cardinality(Usable(pool[h]))
                           /\ Cardinality(Usable(pool[h])') \in Nat
      <3> SUFFICES ASSUME NEW h \in Hosts
                   PROVE  Cardinality(Usable(pool[h])') <= Cardinality(Usable(pool[h]))
                          /\ Cardinality(Usable(pool[h])') \in Nat
        OBVIOUS
      <3>1. IsFiniteSet(Usable(pool[h])) /\ Usable(pool[h])' \in SUBSET Usable(pool[h])
        BY <1>0, FinitePools
      <3> QED
        BY <3>1, FS_Subset, FS_CardinalityType
    <2>2. PoolBound'
      BY <1>n, <2>1
    <2>3. DialRoom'
      <3> SUFFICES ASSUME NEW t \in Tasks, IsDialling(t)', ConfigUnchanged(t)'
                   PROVE  Cardinality(Usable(pool[HostOf(t)])') < PoolSize
        OBVIOUS
      <3>1. HostOf(t)' = HostOf(t) /\ HostOf(t) \in Hosts
        BY <1>0
      <3>2. CASE IsDialling(t) /\ ConfigUnchanged(t)
        BY <3>1, <3>2, <1>n, <2>1
      <3>3. CASE Cardinality(Usable(pool[HostOf(t)])') < PoolSize
        BY <3>3
      <3> QED
        BY <1>0, <3>2, <3>3
    <2> QED
      BY <2>2, <2>3
  <1>1. ASSUME NEW t \in Tasks, GetConnection(t) \/ Superseded(t) PROVE PoolBound' /\ DialRoom'
    <2>1. UNCHANGED <<generation, pool, stale>> /\ ~IsDialling(t)' /\ OthersUnchanged(t)
      BY <1>1, ResolveEffect
    <2> QED
      BY <1>0, <2>1, OpCases DEF OthersUnchanged, SameTask, ConfigUnchanged, Usable
  <1>2. ASSUME NEW t \in Tasks, Reuse(t) \/ Overload(t) PROVE PoolBound' /\ DialRoom'
    <2>1. PICK expired, c : op[t].at = "wait" /\ GivesPooled(t, expired, c)
      BY <1>2, EnterGives
    <2>2. UNCHANGED <<generation, stale>> /\ ~IsDialling(t)' /\ OthersUnchanged(t) /\ PoolsShrink
      BY <2>1, GivesEffect
    <2> QED
      BY <1>0, <2>2, OpCases DEF OthersUnchanged, SameTask, ConfigUnchanged, Usable, PoolsShrink
  <1>3. ASSUME NEW t \in Tasks, Dial(t) PROVE PoolBound' /\ DialRoom'
    <2>1. /\ UNCHANGED <<generation, stale>> /\ OthersUnchanged(t) /\ PoolsShrink
          /\ HostOf(t)' = HostOf(t) /\ HostOf(t) \in Hosts
          /\ Cardinality(Usable(pool'[HostOf(t)])) < PoolSize
      BY <1>3, DialEffect
    <2>2. \A h \in Hosts : Usable(pool[h])' \subseteq Usable(pool[h])
      BY <2>1 DEF Usable, PoolsShrink
    <2>3. Usable(pool[HostOf(t)])' = Usable(pool'[HostOf(t)])
      BY <2>1 DEF Usable
    <2>4. \A u \in Tasks : u # t /\ IsDialling(u)' /\ ConfigUnchanged(u)' =>
             HostOf(u)' = HostOf(u) /\ HostOf(u) \in Hosts /\ IsDialling(u) /\ ConfigUnchanged(u)
      BY <2>1, OpCases DEF OthersUnchanged, SameTask, ConfigUnchanged
    <2>5. Cardinality(Usable(pool[HostOf(t)])') < PoolSize
      BY <2>1, <2>3
    <2> QED
      BY <1>0, <2>1, <2>2, <2>4, <2>5
  <1>4. ASSUME NEW t \in Tasks, KeyRefused(t) \/ Fail(t) PROVE PoolBound' /\ DialRoom'
    <2>1. /\ UNCHANGED <<generation, pool, stale>> /\ OthersUnchanged(t)
          /\ IsDialling(t)' => IsDialling(t) /\ HostOf(t)' = HostOf(t) /\ op'[t].gen = op[t].gen
      BY <1>4, MoveEffect
    <2> QED
      BY <1>0, <2>1, OpCases DEF OthersUnchanged, SameTask, ConfigUnchanged, Usable
  <1>5. ASSUME NEW t \in Tasks, Connected(t) PROVE PoolBound' /\ DialRoom'
    <2> DEFINE c == pooled + 1
    <2>1. /\ UNCHANGED <<generation, stale>> /\ OthersUnchanged(t)
          /\ IsDialling(t) /\ ConfigUnchanged(t) /\ ~IsDialling(t)' /\ HostOf(t) \in Hosts
          /\ \A h \in Hosts : pool'[h] = IF h = HostOf(t) THEN pool[h] \cup {c} ELSE pool[h]
      BY <1>5, ConnectedEffect
    <2>2. \A h \in Hosts : h # HostOf(t) => Usable(pool[h])' = Usable(pool[h])
      BY <2>1 DEF Usable
    <2>3. PICK g \in Hosts : g = HostOf(t)
      BY <2>1
    <2>4. Usable(pool[g])' \subseteq Usable(pool[g]) \cup {c}
      BY <2>1, <2>3 DEF Usable
    <2>5. /\ Cardinality(Usable(pool[g])') <= Cardinality(Usable(pool[g])) + 1
          /\ Cardinality(Usable(pool[g])') \in Nat
      <3> DEFINE U == Usable(pool[g])
      <3>1. IsFiniteSet(U) /\ Cardinality(U) \in Nat
        BY FinitePools
      <3>2. U' \in SUBSET (U \cup {c})
        BY <2>4
      <3> HIDE DEF U, c
      <3>3. IsFiniteSet(U \cup {c}) /\ Cardinality(U \cup {c}) <= Cardinality(U) + 1
        <4>1. /\ IsFiniteSet(U \cup {c})
              /\ Cardinality(U \cup {c}) = IF c \in U THEN Cardinality(U) ELSE Cardinality(U) + 1
          BY <3>1, FS_AddElement
        <4> QED
          BY <3>1, <4>1
      <3>4. /\ Cardinality(U') \in Nat /\ Cardinality(U \cup {c}) \in Nat
            /\ Cardinality(U') <= Cardinality(U \cup {c})
        BY <3>2, <3>3, FS_Subset, FS_CardinalityType
      <3>5. Cardinality(U') <= Cardinality(U) + 1
        BY <3>1, <3>3, <3>4
      <3> QED
        BY <3>4, <3>5 DEF U
    <2>6. PoolBound'
      <3>1. Cardinality(Usable(pool[g])) < PoolSize
        BY <2>1, <2>3
      <3>2. Cardinality(Usable(pool[g])') <= PoolSize
        BY <3>1, <2>5, <1>n
      <3> QED
        BY <2>2, <2>3, <3>2
    <2>7. DialRoom'
      <3> SUFFICES ASSUME NEW u \in Tasks, IsDialling(u)', ConfigUnchanged(u)'
                   PROVE  Cardinality(Usable(pool[HostOf(u)])') < PoolSize
        OBVIOUS
      <3>1. u # t
        BY <2>1
      <3>2. IsDialling(u) /\ ConfigUnchanged(u) /\ HostOf(u)' = HostOf(u) /\ HostOf(u) \in Hosts
        BY <2>1, <3>1, OpCases DEF OthersUnchanged, SameTask, ConfigUnchanged
      <3>3. HostOf(u) # HostOf(t)
        BY <2>1, <3>1, <3>2, OneDialerHolds DEF OneDialer, DialsCurrent
      <3>4. Usable(pool[HostOf(u)])' = Usable(pool[HostOf(u)])
        BY <2>1, <3>2, <3>3 DEF Usable
      <3> QED
        BY <3>2, <3>4
    <2> QED
      BY <2>6, <2>7
  <1>6. ASSUME NEW t \in Tasks, Release(t) PROVE PoolBound' /\ DialRoom'
    <2>1. UNCHANGED <<generation, pool, stale>> /\ ~IsDialling(t)' /\ OthersUnchanged(t)
      BY <1>6, ReleaseEffect
    <2> QED
      BY <1>0, <2>1, OpCases DEF OthersUnchanged, SameTask, ConfigUnchanged, Usable
  <1>7. ASSUME NEW h \in Hosts, RemoveHost(h) \/ \E cfg \in Configs : RegisterHost(h, cfg)
        PROVE  PoolBound' /\ DialRoom'
    <2>1. /\ \A u \in Tasks : SameTask(u)
          /\ PoolsShrink /\ \A c \in ConnIds : stale[c] => stale'[c]
          /\ generation'[h] = generation[h] + 1
          /\ \A g \in Hosts : g # h => generation'[g] = generation[g]
      BY <1>7, ReconfigureEffect
    <2>2. \A g \in Hosts : Usable(pool[g])' \subseteq Usable(pool[g])
      BY <2>1 DEF Usable, PoolsShrink, TypeOK
    <2>3. \A u \in Tasks : IsDialling(u)' /\ ConfigUnchanged(u)' =>
             HostOf(u)' = HostOf(u) /\ HostOf(u) \in Hosts /\ IsDialling(u) /\ ConfigUnchanged(u)
      <3> SUFFICES ASSUME NEW u \in Tasks, IsDialling(u)', ConfigUnchanged(u)'
                   PROVE  HostOf(u)' = HostOf(u) /\ HostOf(u) \in Hosts
                          /\ IsDialling(u) /\ ConfigUnchanged(u)
        OBVIOUS
      <3>1. IsDialling(u) /\ IsCalling(u) /\ HostOf(u) \in Hosts /\ HostOf(u)' = HostOf(u)
            /\ op'[u] = op[u] /\ op[u].gen \in Nat
        BY <2>1, OpCases DEF SameTask, Calling
      <3>2. op[u].gen <= generation[HostOf(u)] /\ generation[HostOf(u)] \in Nat
        BY <3>1 DEF CallFresh, TypeOK
      <3>3. op[u].gen = generation'[HostOf(u)]
        BY <3>1 DEF ConfigUnchanged
      <3>4. HostOf(u) # h
        BY <2>1, <3>1, <3>2, <3>3
      <3> QED
        BY <2>1, <3>1, <3>3, <3>4 DEF ConfigUnchanged
    <2> QED
      BY <1>0, <2>2, <2>3
  <1>8. CASE CloseAll \/ \E c \in ConnIds : CloseAllStep(c) \/ Lose(c)
    <2>1. /\ UNCHANGED <<generation, stale>> /\ \A u \in Tasks : SameTask(u)
          /\ \A h \in Hosts : pool'[h] \subseteq pool[h]
      BY <1>8, DownEffect DEF Numbered
    <2> QED
      BY <1>0, <2>1, OpCases DEF SameTask, ConfigUnchanged, Usable
  <1> QED
    BY <1>1, <1>2, <1>3, <1>4, <1>5, <1>6, <1>7, <1>8 DEF Next

\* A connection has finitely many holders.
LEMMA FiniteHolders ==
    ASSUME NEW c
    PROVE  IsFiniteSet(Holders(c)) /\ Cardinality(Holders(c)) \in Nat
  BY FS_Subset, FS_CardinalityType, TasksAssumption DEF Holders

\* Every hand-out is counted, and a release takes off at most the count of
\* the operation that releases.
LEMMA CountedStep ==
    ASSUME TypeOK, Numbered, Home, Counted, Next
    PROVE  Counted'
  <1>n. \A h \in Hosts : \A d \in pool[h] :
            /\ d \in ConnIds /\ inUse[d] \in Nat /\ missed[d] \in Nat
            /\ Cardinality(Holders(d)) \in Nat
    BY FiniteHolders DEF TypeOK
  \* Neither the holders nor the counters change.
  <1>0. ASSUME \A h \in Hosts : pool'[h] \subseteq pool[h], inUse' = inUse, missed' = missed,
               \A d \in ConnIds : Holders(d)' = Holders(d)
        PROVE  Counted'
    BY <1>0, <1>n DEF Counted, CountsHolders, InUseAccounted
  <1>1. ASSUME NEW t \in Tasks, GetConnection(t) \/ Superseded(t) PROVE Counted'
    <2>1. \A u \in Tasks : SameTask(u) \/ (~IsHolding(u) /\ ~IsHolding(u)')
      BY <1>1, ResolveEffect DEF OthersUnchanged
    <2>2. inUse' = inUse /\ missed' = missed /\ \A g \in Hosts : pool'[g] \subseteq pool[g]
      BY <1>1, ResolveEffect
    <2>3. \A d \in ConnIds : Holders(d)' = Holders(d)
      BY <2>1 DEF Holders, SameTask
    <2> QED
      BY <1>0, <2>2, <2>3
  <1>2. ASSUME NEW t \in Tasks, Reuse(t) \/ Overload(t) PROVE Counted'
    <2>1. PICK expired, c : op[t].at = "wait" /\ GivesPooled(t, expired, c)
      BY <1>2, EnterGives
    <2>2. /\ OthersUnchanged(t) /\ ~IsHolding(t) /\ IsHolding(t)' /\ op'[t].conn = c
          /\ c \in pool[HostOf(t)] /\ HostOf(t) \in Hosts /\ c \in ConnIds /\ PoolsShrink
          /\ missed' = missed
          /\ \A d \in ConnIds : inUse'[d] = IF d = c THEN inUse[d] + 1 ELSE inUse[d]
      BY <2>1, GivesEffect
    <2>3. Holders(c)' = Holders(c) \cup {t} /\ t \notin Holders(c)
      BY <2>2 DEF Holders, OthersUnchanged, SameTask
    <2>4. \A d \in ConnIds : d # c => Holders(d)' = Holders(d)
      BY <2>2 DEF Holders, OthersUnchanged, SameTask
    <2>5. Cardinality(Holders(c)') = Cardinality(Holders(c)) + 1
      BY <2>3, FiniteHolders, FS_AddElement
    <2>6. ASSUME NEW h \in Hosts, NEW d \in pool'[h]
          PROVE  /\ Cardinality(Holders(d)') <= inUse'[d]
                 /\ inUse'[d] = Cardinality(Holders(d)') + missed'[d]
      <3>1. d \in pool[h] /\ d \in ConnIds
        BY <2>2, <2>6, <1>n DEF PoolsShrink
      <3>2. CASE d = c
        BY <1>n, <2>2, <2>5, <3>1, <3>2 DEF Counted, CountsHolders, InUseAccounted
      <3>3. CASE d # c
        BY <2>2, <2>4, <3>1, <3>3 DEF Counted, CountsHolders, InUseAccounted
      <3> QED
        BY <3>2, <3>3
    <2> QED
      BY <2>6 DEF Counted, CountsHolders, InUseAccounted
  <1>3. ASSUME NEW t \in Tasks, Dial(t) PROVE Counted'
    <2>1. \A u \in Tasks : SameTask(u) \/ (~IsHolding(u) /\ ~IsHolding(u)')
      BY <1>3, DialEffect DEF OthersUnchanged
    <2>2. inUse' = inUse /\ missed' = missed /\ \A g \in Hosts : pool'[g] \subseteq pool[g]
      BY <1>3, DialEffect DEF PoolsShrink
    <2>3. \A d \in ConnIds : Holders(d)' = Holders(d)
      BY <2>1 DEF Holders, SameTask
    <2> QED
      BY <1>0, <2>2, <2>3
  <1>4. ASSUME NEW t \in Tasks, KeyRefused(t) \/ Fail(t) PROVE Counted'
    <2>1. \A u \in Tasks : SameTask(u) \/ (~IsHolding(u) /\ ~IsHolding(u)')
      BY <1>4, MoveEffect DEF OthersUnchanged
    <2>2. inUse' = inUse /\ missed' = missed /\ \A g \in Hosts : pool'[g] \subseteq pool[g]
      BY <1>4, MoveEffect
    <2>3. \A d \in ConnIds : Holders(d)' = Holders(d)
      BY <2>1 DEF Holders, SameTask
    <2> QED
      BY <1>0, <2>2, <2>3
  <1>5. ASSUME NEW t \in Tasks, Connected(t) PROVE Counted'
    <2>0. PICK c \in ConnIds : c = pooled + 1
      BY <1>5, ConnectedEffect
    <2>1. /\ OthersUnchanged(t) /\ ~IsHolding(t) /\ IsHolding(t)' /\ op'[t].conn = c
          /\ c \in ConnIds /\ HostOf(t) \in Hosts
          /\ \A h \in Hosts : pool'[h] = IF h = HostOf(t) THEN pool[h] \cup {c} ELSE pool[h]
          /\ inUse'[c] = 1 /\ \A d \in ConnIds : d # c => inUse'[d] = inUse[d]
          /\ missed' = missed
      BY <1>5, <2>0, ConnectedEffect
    <2>7. missed[c] = 0
      BY <2>0, SizeAssumption DEF Numbered, TypeOK, ConnIds
    <2>2. \A u \in Tasks : IsHolding(u) => op[u].conn # c
      <3>1. pooled \in Nat /\ ConnIds \subseteq Nat
        BY SizeAssumption DEF TypeOK, ConnIds
      <3> QED
        BY <2>0, <3>1 DEF Numbered
    <2>3. Holders(c)' = {t}
      BY <2>1, <2>2 DEF Holders, OthersUnchanged, SameTask
    <2>4. \A d \in ConnIds : d # c => Holders(d)' = Holders(d)
      BY <2>1 DEF Holders, OthersUnchanged, SameTask
    <2>5. Cardinality(Holders(c)') = 1
      BY <2>3, FS_Singleton
    <2>6. ASSUME NEW h \in Hosts, NEW d \in pool'[h]
          PROVE  /\ Cardinality(Holders(d)') <= inUse'[d]
                 /\ inUse'[d] = Cardinality(Holders(d)') + missed'[d]
      <3>1. CASE d = c
        BY <2>1, <2>5, <2>7, <3>1
      <3>2. CASE d # c
        BY <2>1, <2>4, <2>6, <3>2, <1>n DEF Counted, CountsHolders, InUseAccounted
      <3> QED
        BY <3>1, <3>2
    <2> QED
      BY <2>6 DEF Counted, CountsHolders, InUseAccounted
  <1>6. ASSUME NEW t \in Tasks, Release(t) PROVE Counted'
    <2>1. PICK c \in ConnIds : c = op[t].conn
      BY <1>6, ReleaseEffect
    <2>2. /\ UNCHANGED pool /\ OthersUnchanged(t) /\ IsHolding(t) /\ ~IsHolding(t)'
          /\ \/ /\ inUse' = inUse
                /\ \A d \in ConnIds : missed'[d] = IF d = c /\ d \in pool[HostOf(t)]
                                                  THEN missed[d] + 1 ELSE missed[d]
             \/ /\ missed' = missed
                /\ \A d \in ConnIds :
                     inUse'[d] = IF d = c THEN IF inUse[d] > 0 THEN inUse[d] - 1 ELSE 0
                                          ELSE inUse[d]
      BY <1>6, <2>1, ReleaseEffect
    <2>3. Holders(c)' = Holders(c) \ {t} /\ t \in Holders(c)
      BY <2>1, <2>2 DEF Holders, OthersUnchanged, SameTask
    <2>4. \A d \in ConnIds : d # c => Holders(d)' = Holders(d)
      BY <2>1, <2>2 DEF Holders, OthersUnchanged, SameTask
    <2>5. Cardinality(Holders(c)') = Cardinality(Holders(c)) - 1 /\ Cardinality(Holders(c)) >= 1
      <3>1. Cardinality(Holders(c)') = Cardinality(Holders(c)) - 1
        BY <2>3, FiniteHolders, FS_RemoveElement
      <3>2. Cardinality(Holders(c)) # 0
        BY <2>3, FiniteHolders, FS_EmptySet
      <3> QED
        BY <3>1, <3>2, FiniteHolders
    <2>6. ASSUME NEW h \in Hosts, NEW d \in pool'[h]
          PROVE  /\ Cardinality(Holders(d)') <= inUse'[d]
                 /\ inUse'[d] = Cardinality(Holders(d)') + missed'[d]
      <3>1. d \in pool[h] /\ d \in ConnIds
        BY <2>2, <2>6, <1>n
      <3>2. CASE d # c
        BY <2>2, <2>4, <3>1, <3>2 DEF Counted, CountsHolders, InUseAccounted
      <3>3. CASE d = c
        <4>1. d \in pool[HostOf(t)]
          BY <2>1, <2>2, <3>1, <3>3 DEF Home
        <4>2. /\ inUse[d] = Cardinality(Holders(d)) + missed[d] /\ inUse[d] \in Nat
              /\ missed[d] \in Nat /\ Cardinality(Holders(d)) \in Nat
          BY <1>n, <3>1 DEF Counted, InUseAccounted
        <4>3. \/ inUse'[d] = inUse[d] /\ missed'[d] = missed[d] + 1
              \/ missed'[d] = missed[d] /\ inUse'[d] = IF inUse[d] > 0 THEN inUse[d] - 1 ELSE 0
          BY <2>2, <3>1, <3>3, <4>1
        <4> QED
          BY <2>5, <3>3, <4>2, <4>3
      <3> QED
        BY <3>2, <3>3
    <2> QED
      BY <2>6 DEF Counted, CountsHolders, InUseAccounted
  <1>7. ASSUME NEW h \in Hosts, RemoveHost(h) \/ \E cfg \in Configs : RegisterHost(h, cfg)
        PROVE  Counted'
    <2>1. \A u \in Tasks : SameTask(u) \/ (~IsHolding(u) /\ ~IsHolding(u)')
      BY <1>7, ReconfigureEffect DEF OthersUnchanged
    <2>2. inUse' = inUse /\ missed' = missed /\ \A g \in Hosts : pool'[g] \subseteq pool[g]
      BY <1>7, ReconfigureEffect DEF PoolsShrink
    <2>3. \A d \in ConnIds : Holders(d)' = Holders(d)
      BY <2>1 DEF Holders, SameTask
    <2> QED
      BY <1>0, <2>2, <2>3
  <1>8. CASE CloseAll \/ \E c \in ConnIds : CloseAllStep(c) \/ Lose(c)
    <2>1. \A u \in Tasks : SameTask(u) \/ (~IsHolding(u) /\ ~IsHolding(u)')
      BY <1>8, DownEffect DEF OthersUnchanged, Numbered
    <2>2. inUse' = inUse /\ missed' = missed /\ \A g \in Hosts : pool'[g] \subseteq pool[g]
      BY <1>8, DownEffect DEF Numbered
    <2>3. \A d \in ConnIds : Holders(d)' = Holders(d)
      BY <2>1 DEF Holders, SameTask
    <2> QED
      BY <1>0, <2>2, <2>3
  <1> QED
    BY <1>1, <1>2, <1>3, <1>4, <1>5, <1>6, <1>7, <1>8 DEF Next

\* A connection whose counter reads 0 has no holder.
LEMMA NoHolderAtZero ==
    ASSUME TypeOK, Counted, NEW h \in Hosts, NEW c \in pool[h], inUse[c] = 0, NEW t \in Tasks
    PROVE  ~(IsHolding(t) /\ op[t].conn = c)
  <1>1. Cardinality(Holders(c)) <= 0 /\ Cardinality(Holders(c)) \in Nat
    BY FiniteHolders DEF Counted, CountsHolders
  <1>2. Holders(c) = {}
    BY <1>1, FiniteHolders, FS_EmptySet
  <1> QED
    BY <1>2 DEF Holders

\* Pruning and retiring close only what in_use reports idle, and a release
\* closes only what it is the last to hold.
LEMMA NoYankStep ==
    ASSUME TypeOK, Numbered, Home, Counted, Counted', TypeOK', NoYank, Next
    PROVE  NoYank'
  <1> USE DEF NoYank
  <1>h. \A u \in Tasks : IsHolding(u) => op[u].conn \in ConnIds
    BY DEF Numbered
  \* Only connections without holders are closed.
  <1>0. ASSUME shutdown' = shutdown, NEW S, Closes(S),
               \A u \in Tasks : IsHolding(u)' /\ ~shutdown =>
                    /\ op'[u].conn \in ConnIds /\ op'[u].conn \notin S
                    /\ conn[op'[u].conn] # "closed"
        PROVE  NoYank'
    BY <1>0 DEF Closes
  <1>1. ASSUME NEW t \in Tasks, GetConnection(t) \/ Superseded(t) PROVE NoYank'
    BY <1>1, ResolveEffect DEF OthersUnchanged, SameTask
  <1>2. ASSUME NEW t \in Tasks, Reuse(t) \/ Overload(t) PROVE NoYank'
    <2>1. PICK expired, c : op[t].at = "wait" /\ GivesPooled(t, expired, c)
      BY <1>2, EnterGives
    <2>2. /\ shutdown' = shutdown /\ Closes(expired) /\ OthersUnchanged(t)
          /\ op'[t].conn = c /\ c \in ConnIds /\ c \notin expired /\ conn[c] = "open"
          /\ HostOf(t) \in Hosts /\ expired \subseteq pool[HostOf(t)]
          /\ \A d \in expired : inUse[d] = 0
      BY <2>1, GivesEffect
    <2>3. \A u \in Tasks : IsHolding(u) => op[u].conn \notin expired
      BY <2>2, NoHolderAtZero
    <2> QED
      BY <1>0, <1>h, <2>2, <2>3 DEF OthersUnchanged, SameTask
  <1>3. ASSUME NEW t \in Tasks, Dial(t) PROVE NoYank'
    <2>1. /\ shutdown' = shutdown /\ OthersUnchanged(t) /\ ~IsHolding(t)' /\ HostOf(t) \in Hosts
      BY <1>3, DialEffect
    <2>2. PICK expired \in SUBSET pool[HostOf(t)] : (\A d \in expired : inUse[d] = 0) /\ Closes(expired)
      BY <1>3, DialEffect
    <2>3. \A u \in Tasks : IsHolding(u) => op[u].conn \notin expired
      BY <2>1, <2>2, NoHolderAtZero
    <2> QED
      BY <1>0, <1>h, <2>1, <2>2, <2>3 DEF OthersUnchanged, SameTask
  <1>4. ASSUME NEW t \in Tasks, KeyRefused(t) \/ Fail(t) PROVE NoYank'
    BY <1>4, MoveEffect DEF OthersUnchanged, SameTask
  <1>5. ASSUME NEW t \in Tasks, Connected(t) PROVE NoYank'
    <2>1. /\ shutdown' = shutdown /\ OthersUnchanged(t)
          /\ op'[t].conn = pooled + 1 /\ pooled + 1 \in ConnIds /\ conn'[pooled + 1] = "open"
          /\ \A d \in ConnIds : conn'[d] = conn[d] \/ conn'[d] = "open"
      BY <1>5, ConnectedEffect
    <2>2. ASSUME NEW u \in Tasks, IsHolding(u)', ~shutdown' PROVE conn'[op'[u].conn] # "closed"
      <3>1. CASE u = t
        BY <2>1, <3>1
      <3>2. CASE u # t
        <4>1. op'[u] = op[u] /\ IsHolding(u)
          BY <2>1, <2>2, <3>2 DEF OthersUnchanged, SameTask
        <4>2. conn[op[u].conn] # "closed" /\ op[u].conn \in ConnIds
          BY <4>1, <2>1, <2>2, <1>h
        <4> QED
          BY <4>1, <4>2, <2>1
      <3> QED
        BY <3>1, <3>2
    <2> QED
      BY <2>2
  <1>6. ASSUME NEW t \in Tasks, Release(t) PROVE NoYank'
    <2>1. PICK c \in ConnIds : c = op[t].conn
      BY <1>6, ReleaseEffect
    <2>2. /\ shutdown' = shutdown /\ pool' = pool /\ OthersUnchanged(t) /\ ~IsHolding(t)'
          /\ \/ conn' = conn
             \/ /\ Closes({c}) /\ inUse'[c] = 0
                /\ \E h \in Hosts : c \in pool[h]
      BY <1>6, <2>1, ReleaseEffect
    <2>3. CASE conn' = conn
      BY <2>2, <2>3 DEF OthersUnchanged, SameTask
    <2>4. ASSUME Closes({c}), inUse'[c] = 0, NEW h \in Hosts, c \in pool[h] PROVE NoYank'
      <3>1. Cardinality(Holders(c)') <= 0 /\ Cardinality(Holders(c)') \in Nat
            /\ IsFiniteSet(Holders(c)')
        <4>1. c \in pool'[h]
          BY <2>2, <2>4
        <4>2. Cardinality(Holders(c)') <= inUse'[c]
          BY <4>1 DEF Counted, CountsHolders
        <4>3. Holders(c)' \in SUBSET Tasks
          BY DEF Holders
        <4> QED
          BY <2>4, <4>2, <4>3, TasksAssumption, FS_Subset, FS_CardinalityType
      <3>2. Holders(c)' = {}
        BY <3>1, FS_EmptySet
      <3>3. \A u \in Tasks : IsHolding(u)' => op'[u].conn \notin {c}
        BY <3>2 DEF Holders
      <3> QED
        BY <1>0, <1>h, <2>2, <2>4, <3>3 DEF OthersUnchanged, SameTask
    <2> QED
      BY <2>2, <2>3, <2>4
  <1>7. ASSUME NEW h \in Hosts, RemoveHost(h) \/ \E cfg \in Configs : RegisterHost(h, cfg)
        PROVE  NoYank'
    <2> DEFINE S == {c \in pool[h] : inUse[c] = 0}
    <2>1. shutdown' = shutdown /\ Closes(S) /\ \A u \in Tasks : SameTask(u)
      BY <1>7, ReconfigureEffect
    <2>2. \A u \in Tasks : IsHolding(u) => op[u].conn \notin S
      BY NoHolderAtZero
    <2> HIDE DEF S
    <2> QED
      BY <1>0, <1>h, <2>1, <2>2 DEF SameTask
  <1>8. CASE CloseAll \/ \E c \in ConnIds : CloseAllStep(c) \/ Lose(c)
    <2>1. /\ \A u \in Tasks : SameTask(u)
          /\ \A c \in ConnIds : conn'[c] = "closed" => conn[c] = "closed" \/ c \in closing
          /\ ~shutdown' => ~shutdown
      BY <1>8, DownEffect DEF Numbered
    <2>2. ~shutdown => closing = {}
      BY DEF Numbered
    <2> QED
      BY <1>h, <2>1, <2>2 DEF SameTask
  <1> QED
    BY <1>1, <1>2, <1>3, <1>4, <1>5, <1>6, <1>7, <1>8 DEF Next

\* What leaves a list is closed by the same step or queued for close_all.
LEMMA NoOrphanStep ==
    ASSUME TypeOK, Numbered, NoOrphan, Next
    PROVE  NoOrphan'
  <1> USE DEF NoOrphan
  \* Nothing opens, and what leaves a pool is not open.
  <1>0. ASSUME closing' = closing, PoolsShrink,
               \A c \in ConnIds : conn'[c] = "open" => conn[c] = "open"
        PROVE  NoOrphan'
    BY <1>0 DEF PoolsShrink
  <1>1. ASSUME NEW t \in Tasks, GetConnection(t) \/ Superseded(t) PROVE NoOrphan'
    BY <1>1, ResolveEffect
  <1>2. ASSUME NEW t \in Tasks, Reuse(t) \/ Overload(t) PROVE NoOrphan'
    <2>1. PICK expired, c : op[t].at = "wait" /\ GivesPooled(t, expired, c)
      BY <1>2, EnterGives
    <2> QED
      BY <2>1, <1>0, GivesEffect DEF Closes
  <1>3. ASSUME NEW t \in Tasks, Dial(t) PROVE NoOrphan'
    BY <1>3, <1>0, DialEffect DEF Closes
  <1>4. ASSUME NEW t \in Tasks, KeyRefused(t) \/ Fail(t) PROVE NoOrphan'
    BY <1>4, MoveEffect
  <1>5. ASSUME NEW t \in Tasks, Connected(t) PROVE NoOrphan'
    <2>1. PICK c \in ConnIds : c = pooled + 1
      BY <1>5, ConnectedEffect
    <2>2. /\ closing' = closing /\ HostOf(t) \in Hosts
          /\ \A h \in Hosts : pool'[h] = IF h = HostOf(t) THEN pool[h] \cup {c} ELSE pool[h]
          /\ \A d \in ConnIds : d # c => conn'[d] = conn[d]
      BY <1>5, <2>1, ConnectedEffect
    <2> QED
      BY <2>2
  <1>6. ASSUME NEW t \in Tasks, Release(t) PROVE NoOrphan'
    <2>1. closing' = closing /\ pool' = pool
          /\ \A c \in ConnIds : conn'[c] = "open" => conn[c] = "open"
      BY <1>6, ReleaseEffect DEF Closes
    <2> QED
      BY <2>1
  <1>7. ASSUME NEW h \in Hosts, RemoveHost(h) \/ \E cfg \in Configs : RegisterHost(h, cfg)
        PROVE  NoOrphan'
    BY <1>7, <1>0, ReconfigureEffect DEF Closes
  <1>8. CASE CloseAll \/ \E c \in ConnIds : CloseAllStep(c) \/ Lose(c)
    <2>1. \A c \in ConnIds :
            /\ conn'[c] = "open" => conn[c] = "open"
            /\ conn'[c] = "open" /\ c \in closing => c \in closing'
            /\ \A h \in Hosts : c \in pool[h] => c \in pool'[h] \/ c \in closing'
      BY <1>8, DownEffect DEF Numbered
    <2> QED
      BY <2>1
  <1> QED
    BY <1>1, <1>2, <1>3, <1>4, <1>5, <1>6, <1>7, <1>8 DEF Next

\* release_connection closes a retired connection with its last channel.
LEMMA RetiredClosedStep ==
    ASSUME TypeOK, Numbered, RetiredClosed, Next
    PROVE  RetiredClosed'
  <1> USE DEF RetiredClosed
  <1>p. \A h \in Hosts : pool[h] \subseteq ConnIds
    BY DEF TypeOK
  <1>0. ASSUME \A h \in Hosts : pool'[h] \subseteq pool[h],
               \A c \in ConnIds : /\ conn'[c] = "open" => conn[c] = "open"
                                  /\ stale'[c] /\ inUse'[c] = 0 => stale[c] /\ inUse[c] = 0
        PROVE  RetiredClosed'
    BY <1>0, <1>p
  <1>1. ASSUME NEW t \in Tasks, GetConnection(t) \/ Superseded(t) PROVE RetiredClosed'
    BY <1>1, ResolveEffect
  <1>2. ASSUME NEW t \in Tasks, Reuse(t) \/ Overload(t) PROVE RetiredClosed'
    <2>1. PICK expired, c : op[t].at = "wait" /\ GivesPooled(t, expired, c)
      BY <1>2, EnterGives
    <2>2. /\ stale' = stale /\ ~stale[c] /\ PoolsShrink /\ Closes(expired)
          /\ \A d \in ConnIds : d # c => inUse'[d] = inUse[d]
      BY <2>1, GivesEffect
    <2> QED
      BY <1>0, <2>2 DEF Closes, PoolsShrink
  <1>3. ASSUME NEW t \in Tasks, Dial(t) PROVE RetiredClosed'
    BY <1>3, <1>0, DialEffect DEF Closes, PoolsShrink
  <1>4. ASSUME NEW t \in Tasks, KeyRefused(t) \/ Fail(t) PROVE RetiredClosed'
    BY <1>4, MoveEffect
  <1>5. ASSUME NEW t \in Tasks, Connected(t) PROVE RetiredClosed'
    <2>1. PICK c \in ConnIds : c = pooled + 1
      BY <1>5, ConnectedEffect
    <2>2. /\ stale' = stale /\ inUse'[c] = 1
          /\ \A h \in Hosts : pool'[h] \subseteq pool[h] \cup {c}
          /\ \A d \in ConnIds : d # c => conn'[d] = conn[d] /\ inUse'[d] = inUse[d]
      BY <1>5, <2>1, ConnectedEffect
    <2> QED
      BY <2>2, <1>p
  <1>6. ASSUME NEW t \in Tasks, Release(t) PROVE RetiredClosed'
    <2>1. PICK c \in ConnIds : c = op[t].conn
      BY <1>6, ReleaseEffect
    <2>2. /\ UNCHANGED <<pool, stale>>
          /\ \/ UNCHANGED <<inUse, conn>>
             \/ /\ \A d \in ConnIds : d # c => inUse'[d] = inUse[d]
                /\ \A d \in ConnIds : conn'[d] = "open" => conn[d] = "open"
                /\ stale[c] /\ inUse'[c] = 0 => conn'[c] # "open"
      BY <1>6, <2>1, ReleaseEffect DEF Closes
    <2> QED
      BY <2>2, <1>p
  <1>7. ASSUME NEW h \in Hosts, RemoveHost(h) \/ \E cfg \in Configs : RegisterHost(h, cfg)
        PROVE  RetiredClosed'
    <2>1. /\ PoolsShrink /\ inUse' = inUse
          /\ \A c \in ConnIds : conn'[c] = "open" => conn[c] = "open"
          /\ \A c \in pool'[h] : inUse[c] # 0
          /\ \A c \in ConnIds : stale'[c] <=> stale[c] \/ c \in pool'[h]
      BY <1>7, ReconfigureEffect DEF Closes
    <2> QED
      BY <1>0, <2>1 DEF PoolsShrink
  <1>8. CASE CloseAll \/ \E c \in ConnIds : CloseAllStep(c) \/ Lose(c)
    BY <1>8, <1>0, DownEffect DEF Numbered
  <1> QED
    BY <1>1, <1>2, <1>3, <1>4, <1>5, <1>6, <1>7, <1>8 DEF Next

-----------------------------------------------------------------------------
(* The invariant holds initially, is preserved, and implies the            *)
(* properties.                                                             *)

\* The inductive invariant holds of the freshly loaded manager.
LEMMA InitPoolInv == Init => PoolInv
  <1> SUFFICES ASSUME Init PROVE PoolInv
    OBVIOUS
  <1> USE DEF Init
  <1>1. TypeOK
    BY InitTypeOK
  <1>2. /\ \A t \in Tasks : ~IsCalling(t) /\ ~IsDialling(t) /\ ~IsHolding(t)
        /\ \A h \in Hosts : pool[h] = {} /\ Usable(pool[h]) = {}
    BY DEF Idle, IsCalling, IsDialling, IsHolding, Usable
  <1>3. Numbered /\ Home /\ CallFresh /\ Mutex /\ DialRoom
    BY <1>2 DEF Numbered, Home, CallFresh, Mutex, DialRoom
  <1>6. \A h \in Hosts : \A c \in pool[h] : FALSE
    BY DEF Init
  <1>4. FreshUsable /\ Counted /\ NoYank /\ NoOrphan /\ RetiredClosed
    BY <1>2, <1>6 DEF FreshUsable, Counted, CountsHolders, InUseAccounted, NoYank, NoOrphan, RetiredClosed
  <1>5. PoolBound
    BY <1>2, FS_EmptySet, SizeAssumption DEF PoolBound
  <1> QED
    BY <1>1, <1>3, <1>4, <1>5 DEF PoolInv

\* The inductive invariant is preserved by every operation.
LEMMA NextPoolInv == PoolInv /\ [Next]_vars => PoolInv'
  <1> SUFFICES ASSUME PoolInv, [Next]_vars PROVE PoolInv'
    OBVIOUS
  <1>1. CASE Next
    <2>1. TypeOK /\ TypeOK'
      BY <1>1, NextTypeOK DEF PoolInv
    <2>2. Numbered'
      BY <1>1, NumberedStep DEF PoolInv
    <2>3. Home'
      BY <1>1, HomeStep DEF PoolInv
    <2>4. CallFresh'
      BY <1>1, CallFreshStep DEF PoolInv
    <2>5. Mutex'
      BY <1>1, MutexStep DEF PoolInv
    <2>6. FreshUsable'
      BY <1>1, FreshUsableStep DEF PoolInv
    <2>7. PoolBound' /\ DialRoom'
      BY <1>1, <2>1, BoundStep DEF PoolInv
    <2>8. Counted'
      BY <1>1, CountedStep DEF PoolInv
    <2>9. NoYank'
      BY <1>1, <2>1, <2>8, NoYankStep DEF PoolInv
    <2>10. NoOrphan'
      BY <1>1, NoOrphanStep DEF PoolInv
    <2>11. RetiredClosed'
      BY <1>1, RetiredClosedStep DEF PoolInv
    <2> QED
      BY <2>1, <2>2, <2>3, <2>4, <2>5, <2>6, <2>7, <2>8, <2>9, <2>10, <2>11 DEF PoolInv
  <1>2. CASE UNCHANGED vars
    BY <1>2 DEF vars, reconfVars, connVars, downVars, PoolInv, TypeOK, Numbered, Home,
                CallFresh, Mutex, DialRoom, FreshUsable, PoolBound, Counted, CountsHolders,
                InUseAccounted, NoYank, NoOrphan, RetiredClosed, IsCalling, IsDialling, IsHolding,
                HostOf, NormalizeHostName, ConfigUnchanged, Usable, Holders
  <1> QED
    BY <1>1, <1>2

\* The inductive invariant holds in every reachable state.
LEMMA PoolInvariant == Spec => []PoolInv
  BY InitPoolInv, NextPoolInv, PTL DEF Spec

\* No interleaving of calls, reconfigurations and shutdown lets a host have
\* more than pool_size connections to hand out, or two tasks dialling its
\* current configuration.
THEOREM PoolBounded == Spec => [](PoolBound /\ OneDialer)
  <1>1. PoolInv => PoolBound /\ OneDialer
    BY OneDialerHolds DEF PoolInv
  <1> QED
    BY <1>1, PoolInvariant, PTL

\* What can be handed out was dialled with the current configuration.
THEOREM UsableIsFresh == Spec => []FreshUsable
  <1>1. PoolInv => FreshUsable
    BY DEF PoolInv
  <1> QED
    BY <1>1, PoolInvariant, PTL

\* in_use covers the holders however they spell the host, so no connection
\* in use is closed before shutdown.
THEOREM NeverYanked == Spec => [](CountsHolders /\ NoYank)
  <1>1. PoolInv => CountsHolders /\ NoYank
    BY DEF PoolInv, Counted
  <1> QED
    BY <1>1, PoolInvariant, PTL

\* in_use is the holders and the releases under a raw spelling, whatever the
\* names the tasks pass: the spelling is the one way the counter drifts.
THEOREM CountsAccounted == Spec => []InUseAccounted
  <1>1. PoolInv => InUseAccounted
    BY DEF PoolInv, Counted
  <1> QED
    BY <1>1, PoolInvariant, PTL

\* Connections do not leak: open ones are pooled or about to be closed, and
\* retired ones close with their last release.
THEOREM NoLeak == Spec => [](NoOrphan /\ RetiredClosed)
  <1>1. PoolInv => NoOrphan /\ RetiredClosed
    BY DEF PoolInv
  <1> QED
    BY <1>1, PoolInvariant, PTL

-----------------------------------------------------------------------------
(* Refinement of HostLease.                                                *)

LeaseMap == [t \in Tasks |-> LeaseOf(t)]

\* A step of the pool is a step of HostLease, or changes nothing it sees.
LEMMA LeaseStep ==
    ASSUME PoolInv, PoolInv', Next
    PROVE  Lease!LeaseNext \/ UNCHANGED <<registry, LeaseMap>>
  <1>i. TypeOK /\ Numbered /\ CallFresh /\ FreshUsable /\ TypeOK'
    BY DEF PoolInv
  <1>c. /\ Lease!NoLease = NoLease
        /\ \A h \in Hosts : Lease!LeaseTo(h) = [host |-> h, cfg |-> registry[h]]
    BY DEF NoLease, Lease!NoLease, Lease!LeaseTo
  \* Tasks that neither gain nor lose a connection keep their lease.
  <1>s. ASSUME NEW u \in Tasks, SameTask(u),
               IsHolding(u) => dialled'[op[u].conn] = dialled[op[u].conn]
        PROVE  LeaseOf(u)' = LeaseOf(u)
    BY <1>s DEF LeaseOf, SameTask, NoLease
  <1>n. ASSUME NEW u \in Tasks, ~IsHolding(u), ~IsHolding(u)'
        PROVE  LeaseOf(u)' = LeaseOf(u)
    BY <1>n DEF LeaseOf, NoLease
  <1>u. ASSUME \A u \in Tasks : LeaseOf(u)' = LeaseOf(u)
        PROVE  LeaseMap' = LeaseMap
    BY <1>u DEF LeaseMap
  \* A step that changes the configuration of one host is Configure.
  <1>r. ASSUME \A u \in Tasks : LeaseOf(u)' = LeaseOf(u), NEW h \in Hosts,
               NEW cfg \in Configs \cup {NoConfig}, registry' = [registry EXCEPT ![h] = cfg]
        PROVE  Lease!LeaseNext
    BY <1>r, <1>u DEF Lease!LeaseNext, Lease!Configure, LeaseMap
  \* Handing out a connection is Grant.
  <1>g. ASSUME NEW t \in Tasks, NEW h \in Hosts, ~IsHolding(t), registry[h] # NoConfig,
               \A u \in Tasks : u # t => LeaseOf(u)' = LeaseOf(u),
               LeaseOf(t)' = [host |-> h, cfg |-> registry[h]], registry' = registry
        PROVE  Lease!LeaseNext
    <2>1. LeaseMap[t] = NoLease
      BY <1>g DEF LeaseMap, LeaseOf
    <2>2. LeaseMap' = [LeaseMap EXCEPT ![t] = [host |-> h, cfg |-> registry[h]]]
      BY <1>g DEF LeaseMap
    <2>3. Lease!Grant(t, h)
      BY <1>g, <1>c, <2>1, <2>2 DEF Lease!Grant, LeaseMap
    <2> QED
      BY <2>3 DEF Lease!LeaseNext
  <1>1. ASSUME NEW t \in Tasks, GetConnection(t) \/ Superseded(t)
        PROVE  Lease!LeaseNext \/ UNCHANGED <<registry, LeaseMap>>
    <2>1. \A u \in Tasks : LeaseOf(u)' = LeaseOf(u)
      BY <1>1, <1>i, <1>s, <1>n, ResolveEffect DEF OthersUnchanged
    <2>2. \/ registry' = registry
          \/ \E h \in Hosts, cfg \in Configs : registry' = [registry EXCEPT ![h] = cfg]
      BY <1>1, <1>i, ResolveEffect
    <2> QED
      BY <2>1, <2>2, <1>u, <1>r
  <1>2. ASSUME NEW t \in Tasks, Reuse(t) \/ Overload(t)
        PROVE  Lease!LeaseNext \/ UNCHANGED <<registry, LeaseMap>>
    <2>1. PICK expired, c : op[t].at = "wait" /\ GivesPooled(t, expired, c)
      BY <1>2, EnterGives
    <2>2. /\ UNCHANGED <<registry, dialled>> /\ OthersUnchanged(t) /\ ~IsHolding(t) /\ IsHolding(t)'
          /\ HostOf(t) \in Hosts /\ HostOf(t)' = HostOf(t) /\ op'[t].conn = c
          /\ c \in pool[HostOf(t)] /\ ~stale[c]
      BY <1>i, <2>1, GivesEffect
    <2>3. registry[HostOf(t)] # NoConfig /\ dialled[c] = registry[HostOf(t)]
      BY <1>i, <2>2 DEF FreshUsable, Usable
    <2>4. LeaseOf(t)' = [host |-> HostOf(t), cfg |-> registry[HostOf(t)]]
      BY <2>2, <2>3 DEF LeaseOf
    <2>5. \A u \in Tasks : u # t => LeaseOf(u)' = LeaseOf(u)
      BY <1>s, <2>2 DEF OthersUnchanged
    <2> QED
      BY <1>g, <2>2, <2>3, <2>4, <2>5
  <1>3. ASSUME NEW t \in Tasks, Dial(t) \/ KeyRefused(t) \/ Fail(t)
        PROVE  Lease!LeaseNext \/ UNCHANGED <<registry, LeaseMap>>
    <2>1. UNCHANGED <<registry, dialled>> /\ OthersUnchanged(t) /\ ~IsHolding(t) /\ ~IsHolding(t)'
      BY <1>3, <1>i, DialEffect, MoveEffect
    <2>2. \A u \in Tasks : LeaseOf(u)' = LeaseOf(u)
      BY <1>s, <1>n, <2>1 DEF OthersUnchanged
    <2> QED
      BY <1>u, <2>1, <2>2
  <1>5. ASSUME NEW t \in Tasks, Connected(t)
        PROVE  Lease!LeaseNext \/ UNCHANGED <<registry, LeaseMap>>
    <2>1. PICK c \in ConnIds : c = pooled + 1
      BY <1>5, <1>i, ConnectedEffect
    <2>2. /\ registry' = registry /\ OthersUnchanged(t) /\ ~IsHolding(t) /\ IsHolding(t)'
          /\ IsCalling(t) /\ ConfigUnchanged(t)
          /\ HostOf(t) \in Hosts /\ HostOf(t)' = HostOf(t) /\ op'[t].conn = c
          /\ dialled'[c] = op[t].cfg
          /\ \A d \in ConnIds : d # c => dialled'[d] = dialled[d]
      BY <1>5, <1>i, <2>1, ConnectedEffect
    <2>3. registry[HostOf(t)] = op[t].cfg /\ op[t].cfg \in Configs
      BY <1>i, <2>2, OpCases DEF CallFresh, ConfigUnchanged, Calling
    <2>4. LeaseOf(t)' = [host |-> HostOf(t), cfg |-> registry[HostOf(t)]]
      BY <2>2, <2>3 DEF LeaseOf
    <2>5. \A u \in Tasks : IsHolding(u) => op[u].conn \in ConnIds /\ op[u].conn # c
      <3>1. pooled \in Nat /\ ConnIds \subseteq Nat
        BY <1>i, SizeAssumption DEF TypeOK, ConnIds
      <3> QED
        BY <1>i, <2>1, <3>1 DEF Numbered
    <2>6. \A u \in Tasks : u # t => LeaseOf(u)' = LeaseOf(u)
      BY <1>s, <2>2, <2>5 DEF OthersUnchanged
    <2>7. registry[HostOf(t)] # NoConfig
      BY <2>3, ConfigAssumption
    <2> QED
      BY <1>g, <2>2, <2>4, <2>6, <2>7
  <1>6. ASSUME NEW t \in Tasks, Release(t)
        PROVE  Lease!LeaseNext \/ UNCHANGED <<registry, LeaseMap>>
    <2>1. UNCHANGED <<registry, dialled>> /\ OthersUnchanged(t) /\ ~IsHolding(t)'
      BY <1>6, <1>i, ReleaseEffect
    <2>2. \A u \in Tasks : u # t => LeaseOf(u)' = LeaseOf(u)
      BY <1>s, <2>1 DEF OthersUnchanged
    <2>3. LeaseOf(t)' = NoLease
      BY <2>1 DEF LeaseOf, NoLease
    <2>4. LeaseMap' = [LeaseMap EXCEPT ![t] = NoLease]
      BY <2>2, <2>3 DEF LeaseMap
    <2>5. Lease!End(t)
      BY <1>c, <2>1, <2>4 DEF Lease!End, LeaseMap
    <2> QED
      BY <2>5 DEF Lease!LeaseNext
  <1>7. ASSUME NEW h \in Hosts, RemoveHost(h) \/ \E cfg \in Configs : RegisterHost(h, cfg)
        PROVE  Lease!LeaseNext
    <2>1. dialled' = dialled /\ \A u \in Tasks : SameTask(u)
      BY <1>7, <1>i, ReconfigureEffect
    <2>2. \A u \in Tasks : LeaseOf(u)' = LeaseOf(u)
      BY <1>s, <2>1
    <2>3. \E cfg \in Configs \cup {NoConfig} : registry' = [registry EXCEPT ![h] = cfg]
      BY <1>7 DEF RemoveHost, RegisterHost
    <2> QED
      BY <1>r, <2>2, <2>3
  <1>8. ASSUME CloseAll \/ \E c \in ConnIds : CloseAllStep(c) \/ Lose(c)
        PROVE  UNCHANGED <<registry, LeaseMap>>
    <2>1. UNCHANGED <<registry, dialled>> /\ \A u \in Tasks : SameTask(u)
      BY <1>8, <1>i, DownEffect DEF Numbered
    <2>2. \A u \in Tasks : LeaseOf(u)' = LeaseOf(u)
      BY <1>s, <2>1
    <2> QED
      BY <1>u, <2>1, <2>2
  <1> QED
    BY <1>1, <1>2, <1>3, <1>5, <1>6, <1>7, <1>8 DEF Next

\* The pool implements HostLease: every connection it hands out was opened
\* with the configuration its host has at that moment.
THEOREM PoolImplementsLease == Spec => ImplementsLease
  <1>1. Init => Lease!LeaseInit
    <2> SUFFICES ASSUME Init PROVE Lease!LeaseInit
      OBVIOUS
    <2>1. \A t \in Tasks : LeaseOf(t) = Lease!NoLease
      BY DEF Init, Idle, LeaseOf, IsHolding, NoLease, Lease!NoLease
    <2> QED
      BY <2>1, ConfigAssumption DEF Init, Lease!LeaseInit
  <1>2. PoolInv /\ PoolInv' /\ [Next]_vars
          => [Lease!LeaseNext]_<<registry, [t \in Tasks |-> LeaseOf(t)]>>
    <2> SUFFICES ASSUME PoolInv, PoolInv', [Next]_vars
                 PROVE  Lease!LeaseNext \/ UNCHANGED <<registry, LeaseMap>>
      BY DEF LeaseMap
    <2>1. CASE Next
      BY <2>1, LeaseStep
    <2>2. CASE UNCHANGED vars
      BY <2>2 DEF vars, reconfVars, connVars, LeaseMap, LeaseOf, IsHolding, HostOf,
                  NormalizeHostName, NoLease
    <2> QED
      BY <2>1, <2>2
  <1> QED
    BY <1>1, <1>2, PoolInvariant, PTL DEF Spec, ImplementsLease, Lease!LeaseSpec
=============================================================================
