--------------------------- MODULE ConnectionPool ---------------------------
(***************************************************************************)
(* The SSH connection pool of connection_manager.py (ConnectionManager).   *)
(*                                                                         *)
(* Every task runs on one asyncio event loop, so a stretch of code without *)
(* a suspension point is one action.  get_connection suspends while it     *)
(* waits for the per-host lock and while it dials (asyncssh.connect, then  *)
(* possibly the password retry); register_host, remove_host,               *)
(* release_connection and the pruning are atomic.                          *)
(*                                                                         *)
(* Abstractions.  A HostConfig is an element of Configs.  A pooled         *)
(* connection is a number: connections are numbered in the order they are  *)
(* pooled, so the order of the code's lists is the order of the numbers    *)
(* and a pool is a set.  Clocks are left out: any idle connection may have *)
(* outlived max_idle_time or max_conn_age when a pool is pruned.           *)
(***************************************************************************)
EXTENDS Naturals, FiniteSets

CONSTANTS
    Tasks,          \* the operations (tool calls) that use connections
    Hosts,          \* normalized host names
    RawNames,       \* spellings of them with surrounding whitespace
    Norm,           \* normalize_host_name on RawNames
    Configs,        \* host configurations
    PasswordAuth,   \* the ones with auth: password
    InitRegistry,   \* what _load_registry read from hosts.yaml
    Aliases,        \* hosts that are aliases of the OpenSSH client config
    AliasConfig,    \* the HostConfig synthesized for such an alias
    NoConfig,       \* "not in the registry"
    PoolSize,       \* pool_size, after the clamp to >= 1
    MaxChannels,    \* max_channels_per_conn
    MaxConns,       \* bound: connections pooled in one behaviour
    MaxGen,         \* bound: reconfigurations of one host
    MaxInUse        \* bound: in_use of one connection

ASSUME NamesAssumption ==
    /\ Hosts \cap RawNames = {}
    /\ Norm \in [RawNames -> Hosts]

ASSUME ConfigAssumption ==
    /\ NoConfig \notin Configs
    /\ AliasConfig \in Configs
    /\ PasswordAuth \subseteq Configs
    /\ InitRegistry \in [Hosts -> Configs \cup {NoConfig}]

ASSUME SizeAssumption ==
    /\ PoolSize \in Nat \ {0}
    /\ MaxChannels \in Nat
    /\ MaxConns \in Nat
    /\ MaxGen \in Nat
    /\ MaxInUse \in Nat

ASSUME TasksAssumption == IsFiniteSet(Tasks)

VARIABLES
    registry,       \* _registry: the configuration of each host
    generation,     \* _generation
    lockObject,     \* which lock object _locks holds for the host
    pool,           \* _pool: the pooled connections of each host
    pooled,         \* how many connections have been pooled so far
    conn,           \* state of the connection's transport
    inUse,          \* PooledConnection.in_use
    missed,         \* history: releases of it that did not find it in its pool
    stale,          \* PooledConnection.stale
    dialled,        \* the configuration the connection was opened with
    closing,        \* snapshot close_all still has to close
    shutdown,       \* close_all has started
    op              \* where each task is, with what it captured

reconfVars == <<registry, generation, lockObject>>
connVars   == <<conn, inUse, missed, stale, dialled>>
downVars   == <<closing, shutdown>>
vars == <<reconfVars, pool, pooled, connVars, downVars, op>>

ConnIds == 1 .. MaxConns
Names   == Hosts \cup RawNames

-----------------------------------------------------------------------------
(* A task is idle, or inside get_connection - waiting for the lock, dialling *)
(* or redialling with a password - with the configuration, generation and    *)
(* lock object captured on entry, or holds a connection it must release.     *)
Idle == [at |-> "idle"]
Calling == [at : {"wait", "connect", "retry"}, name : Names, cfg : Configs,
            gen : Nat, lock : Nat]
Holding == [at : {"holding"}, name : Names, conn : ConnIds]

TypeOK ==
    /\ registry \in [Hosts -> Configs \cup {NoConfig}]
    /\ generation \in [Hosts -> Nat]
    /\ lockObject \in [Hosts -> Nat]
    /\ pool \in [Hosts -> SUBSET ConnIds]
    /\ pooled \in 0 .. MaxConns
    /\ conn \in [ConnIds -> {"none", "open", "lost", "closed"}]
    /\ inUse \in [ConnIds -> Nat]
    /\ missed \in [ConnIds -> Nat]
    /\ stale \in [ConnIds -> BOOLEAN]
    /\ dialled \in [ConnIds -> Configs \cup {NoConfig}]
    /\ closing \in SUBSET ConnIds
    /\ shutdown \in BOOLEAN
    /\ op \in [Tasks -> {Idle} \cup Calling \cup Holding]

Init ==
    /\ registry = InitRegistry
    /\ generation = [h \in Hosts |-> 0]
    /\ lockObject = [h \in Hosts |-> 0]
    /\ pool = [h \in Hosts |-> {}]
    /\ pooled = 0
    /\ conn = [c \in ConnIds |-> "none"]
    /\ inUse = [c \in ConnIds |-> 0]
    /\ missed = [c \in ConnIds |-> 0]
    /\ stale = [c \in ConnIds |-> FALSE]
    /\ dialled = [c \in ConnIds |-> NoConfig]
    /\ closing = {}
    /\ shutdown = FALSE
    /\ op = [t \in Tasks |-> Idle]

-----------------------------------------------------------------------------
(* Helpers.                                                                *)

NormalizeHostName(n) == IF n \in Hosts THEN n ELSE Norm[n]

IsCalling(t) == op[t].at \in {"wait", "connect", "retry"}
IsDialling(t) == op[t].at \in {"connect", "retry"}
IsHolding(t) == op[t].at = "holding"
HostOf(t) == NormalizeHostName(op[t].name)

\* The HostConfig synthesized for an alias of the OpenSSH client config.
TryLoadFromSshConfig(h) == IF h \in Aliases THEN AliasConfig ELSE NoConfig

\* Only a dialling task is suspended inside "async with lock".
LockFree(h, l) ==
    \A t \in Tasks : ~(IsDialling(t) /\ HostOf(t) = h /\ op[t].lock = l)

\* conn.close() on each member of S; closing a dead connection does nothing.
CloseConns(S) ==
    [c \in ConnIds |-> IF c \in S /\ conn[c] = "open" THEN "closed" ELSE conn[c]]

IsAlive(c) == conn[c] = "open"

\* Mutant: the age check forgets "in_use == 0".
ExpirableInUse(h) == {c \in pool[h] : IsAlive(c)}

\* What get_connection may find past max_idle_time or max_conn_age.
Expirable(h) == {c \in pool[h] : IsAlive(c) /\ inUse[c] = 0}

\* The list "alive" when the connections in expired are pruned with the dead.
AliveAfterPrune(h, expired) == {c \in pool[h] : IsAlive(c)} \ expired

Usable(S) == {c \in S : ~stale[c]}
WithRoom(S) == {c \in S : inUse[c] < MaxChannels}

\* c precedes every other member of S in the list.
IsFirst(c, S) == c \in S /\ \A d \in S : c <= d

\* c is what min(usable, key=in_use) returns: the first of the least busy.
IsLeastBusy(c, S) ==
    /\ c \in S
    /\ \A d \in S : inUse[c] < inUse[d] \/ (inUse[c] = inUse[d] /\ c <= d)

-----------------------------------------------------------------------------
(* get_connection.                                                         *)

\* Mutant: the configuration is read before the alias is auto-registered.
ResolveEarly(t, n) ==
    LET h == NormalizeHostName(n)
        cfg == IF registry[h] # NoConfig THEN registry[h] ELSE TryLoadFromSshConfig(h)
    IN  IF cfg # NoConfig
        THEN /\ registry' = [registry EXCEPT ![h] = cfg]
             /\ op' = [op EXCEPT ![t] = [at |-> "wait", name |-> n, cfg |-> registry[h],
                                         gen |-> generation[h],
                                         lock |-> lockObject[h]]]
        ELSE /\ registry' = registry
             /\ op' = [op EXCEPT ![t] = Idle]

\* Mutant: the restart keeps the generation captured before the dial.
ResolveKeepingGen(t, n) ==
    LET h == NormalizeHostName(n)
        cfg == IF registry[h] # NoConfig THEN registry[h] ELSE TryLoadFromSshConfig(h)
        gen == IF op[t] = Idle THEN generation[h] ELSE op[t].gen
    IN  IF cfg # NoConfig
        THEN /\ registry' = [registry EXCEPT ![h] = cfg]
             /\ op' = [op EXCEPT ![t] = [at |-> "wait", name |-> n, cfg |-> cfg,
                                         gen |-> gen, lock |-> lockObject[h]]]
        ELSE /\ registry' = registry
             /\ op' = [op EXCEPT ![t] = Idle]

\* Entry, and the recursive call after a superseded dial: resolve the host
\* (registry, then ssh config) and capture configuration, generation and
\* lock object; ValueError for an unknown host.
Resolve(t, n) ==
    LET h == NormalizeHostName(n)
        cfg == IF registry[h] # NoConfig THEN registry[h] ELSE TryLoadFromSshConfig(h)
    IN  IF cfg # NoConfig
        THEN /\ registry' = [registry EXCEPT ![h] = cfg]
             /\ op' = [op EXCEPT ![t] = [at |-> "wait", name |-> n, cfg |-> cfg,
                                         gen |-> generation[h],
                                         lock |-> lockObject[h]]]
        ELSE /\ registry' = registry
             /\ op' = [op EXCEPT ![t] = Idle]

GetConnection(t) ==
    /\ op[t] = Idle
    /\ \E n \in Names : Resolve(t, n)
    /\ UNCHANGED <<generation, lockObject, pool, pooled, connVars, downVars>>

\* The pruning at the head of the locked section.
Prune(h, expired) ==
    /\ pool' = [pool EXCEPT ![h] = AliveAfterPrune(h, expired)]
    /\ conn' = CloseConns(expired)

\* Mutant: the connection is handed out uncounted.
HandOutUncounted(t, c) ==
    /\ inUse[c] < MaxInUse
    /\ inUse' = inUse
    /\ op' = [op EXCEPT ![t] = [at |-> "holding", name |-> op[t].name, conn |-> c]]

\* Both paths that hand out a pooled connection count the new channel.
HandOut(t, c) ==
    /\ inUse[c] < MaxInUse
    /\ inUse' = [inUse EXCEPT ![c] = @ + 1]
    /\ op' = [op EXCEPT ![t] = [at |-> "holding", name |-> op[t].name, conn |-> c]]

EnterLock(t) == op[t].at = "wait" /\ LockFree(HostOf(t), op[t].lock)

Reuse(t) ==
    /\ EnterLock(t)
    /\ \E expired \in SUBSET Expirable(HostOf(t)) :
         LET usable == Usable(AliveAfterPrune(HostOf(t), expired))
         IN  /\ Prune(HostOf(t), expired)
             /\ \E c \in ConnIds : IsFirst(c, WithRoom(usable)) /\ HandOut(t, c)
    /\ UNCHANGED <<reconfVars, pooled, missed, stale, dialled, downVars>>

Overload(t) ==
    /\ EnterLock(t)
    /\ \E expired \in SUBSET Expirable(HostOf(t)) :
         LET usable == Usable(AliveAfterPrune(HostOf(t), expired))
         IN  /\ WithRoom(usable) = {}
             /\ Cardinality(usable) >= PoolSize
             /\ Prune(HostOf(t), expired)
             /\ \E c \in ConnIds : IsLeastBusy(c, usable) /\ HandOut(t, c)
    /\ UNCHANGED <<reconfVars, pooled, missed, stale, dialled, downVars>>

\* Mutant: off by one in the comparison with pool_size.
DialOneMore(t) ==
    /\ EnterLock(t)
    /\ \E expired \in SUBSET Expirable(HostOf(t)) :
         LET usable == Usable(AliveAfterPrune(HostOf(t), expired))
         IN  /\ WithRoom(usable) = {}
             /\ Cardinality(usable) <= PoolSize
             /\ Prune(HostOf(t), expired)
    /\ op' = [op EXCEPT ![t].at = "connect"]
    /\ UNCHANGED <<reconfVars, pooled, inUse, missed, stale, dialled, downVars>>

Dial(t) ==
    /\ EnterLock(t)
    /\ \E expired \in SUBSET Expirable(HostOf(t)) :
         LET usable == Usable(AliveAfterPrune(HostOf(t), expired))
         IN  /\ WithRoom(usable) = {}
             /\ Cardinality(usable) < PoolSize
             /\ Prune(HostOf(t), expired)
    /\ op' = [op EXCEPT ![t].at = "connect"]
    /\ UNCHANGED <<reconfVars, pooled, inUse, missed, stale, dialled, downVars>>

\* PermissionDenied on a host without auth: password that has a password on
\* the side channel: dial once more, still under the lock.
KeyRefused(t) ==
    /\ op[t].at = "connect"
    /\ op[t].cfg \notin PasswordAuth
    /\ op' = [op EXCEPT ![t].at = "retry"]
    /\ UNCHANGED <<reconfVars, pool, pooled, connVars, downVars>>

\* Any exception out of get_connection: the dial failed, timed out
\* (connect_timeout), no password was found, or the task was cancelled.
Fail(t) ==
    /\ IsCalling(t)
    /\ op' = [op EXCEPT ![t] = Idle]
    /\ UNCHANGED <<reconfVars, pool, pooled, connVars, downVars>>

\* Mutant: the dialled connection is pooled without comparing generations.
ConfigUnchecked(t) == IsDialling(t)

ConfigUnchanged(t) == generation[HostOf(t)] = op[t].gen

\* The dial succeeded and the configuration is still the captured one.
Connected(t) ==
    /\ IsDialling(t)
    /\ ConfigUnchanged(t)
    /\ pooled < MaxConns
    /\ LET c == pooled + 1
       IN  /\ pooled' = c
           /\ pool' = [pool EXCEPT ![HostOf(t)] = @ \cup {c}]
           /\ conn' = [conn EXCEPT ![c] = "open"]
           /\ inUse' = [inUse EXCEPT ![c] = 1]
           /\ dialled' = [dialled EXCEPT ![c] = op[t].cfg]
           /\ op' = [op EXCEPT ![t] = [at |-> "holding", name |-> op[t].name, conn |-> c]]
    /\ UNCHANGED <<reconfVars, missed, stale, downVars>>

\* The dial succeeded after a reconfiguration: the new connection is closed
\* without ever being pooled and get_connection starts over.
Superseded(t) ==
    /\ IsDialling(t)
    /\ ~ConfigUnchanged(t)
    /\ Resolve(t, op[t].name)
    /\ UNCHANGED <<generation, lockObject, pool, pooled, connVars, downVars>>

-----------------------------------------------------------------------------
(* release_connection: the name is used as it was given.                   *)

PoolNamed(n) == IF n \in Hosts THEN pool[n] ELSE {}

\* The connection is in its pool, but the name is not the pool's key.
Misses(n, c) ==
    missed' = [missed EXCEPT ![c] = IF c \in pool[NormalizeHostName(n)] THEN @ + 1 ELSE @]

\* Mutant: a retired connection is not closed by its last release.
ReleaseWithoutClose(n, c) ==
    LET left == IF inUse[c] > 0 THEN inUse[c] - 1 ELSE 0
    IN  IF c \in PoolNamed(n)
        THEN inUse' = [inUse EXCEPT ![c] = left] /\ UNCHANGED <<conn, missed>>
        ELSE Misses(n, c) /\ UNCHANGED <<inUse, conn>>

ReleaseConnection(n, c) ==
    LET left == IF inUse[c] > 0 THEN inUse[c] - 1 ELSE 0
    IN  IF c \in PoolNamed(n)
        THEN /\ inUse' = [inUse EXCEPT ![c] = left]
             /\ conn' = CloseConns(IF stale[c] /\ left = 0 THEN {c} ELSE {})
             /\ missed' = missed
        ELSE Misses(n, c) /\ UNCHANGED <<inUse, conn>>

Release(t) ==
    /\ IsHolding(t)
    /\ ReleaseConnection(op[t].name, op[t].conn)
    /\ op' = [op EXCEPT ![t] = Idle]
    /\ UNCHANGED <<reconfVars, pool, pooled, stale, dialled, downVars>>

-----------------------------------------------------------------------------
(* Reconfiguration, shutdown and the network.                              *)

\* Mutant: the pool is dropped whole, connections in use included.
ForgetPool(h) ==
    /\ pool' = [pool EXCEPT ![h] = {}]
    /\ conn' = CloseConns({c \in pool[h] : inUse[c] = 0})
    /\ stale' = stale

\* _invalidate_pool: close the idle connections, retire the others.
InvalidatePool(h) ==
    LET keep == {c \in pool[h] : inUse[c] # 0}
    IN  /\ pool' = [pool EXCEPT ![h] = keep]
        /\ conn' = CloseConns(pool[h] \ keep)
        /\ stale' = [c \in ConnIds |-> c \in keep \/ stale[c]]

BumpGeneration(h) ==
    /\ generation[h] < MaxGen
    /\ generation' = [generation EXCEPT ![h] = @ + 1]

\* Mutant: registering does not retire the pooled connections.
RegisterHostOnly(h, cfg) ==
    /\ registry' = [registry EXCEPT ![h] = cfg]
    /\ BumpGeneration(h)
    /\ UNCHANGED <<lockObject, pool, pooled, connVars, downVars, op>>

RegisterHost(h, cfg) ==
    /\ registry' = [registry EXCEPT ![h] = cfg]
    /\ BumpGeneration(h)
    /\ InvalidatePool(h)
    /\ UNCHANGED <<lockObject, pooled, inUse, missed, dialled, downVars, op>>

\* The lock object is popped; the next caller creates another one.
RemoveHost(h) ==
    /\ registry[h] # NoConfig
    /\ registry' = [registry EXCEPT ![h] = NoConfig]
    /\ BumpGeneration(h)
    /\ InvalidatePool(h)
    /\ lockObject' = [lockObject EXCEPT ![h] = @ + 1]
    /\ UNCHANGED <<pooled, inUse, missed, dialled, downVars, op>>

\* close_all takes and clears the pools, then closes one connection after
\* the other, suspended in wait_closed between two of them.
CloseAll ==
    /\ ~shutdown
    /\ shutdown' = TRUE
    /\ closing' = UNION {pool[h] : h \in Hosts}
    /\ pool' = [h \in Hosts |-> {}]
    /\ UNCHANGED <<reconfVars, pooled, connVars, op>>

CloseAllStep(c) ==
    /\ c \in closing
    /\ closing' = closing \ {c}
    /\ conn' = CloseConns({c})
    /\ UNCHANGED <<reconfVars, pool, pooled, inUse, missed, stale, dialled, shutdown, op>>

\* The peer or the network ends a connection.
Lose(c) ==
    /\ conn[c] = "open"
    /\ conn' = [conn EXCEPT ![c] = "lost"]
    /\ UNCHANGED <<reconfVars, pool, pooled, inUse, missed, stale, dialled, downVars, op>>

Enter(t) == Reuse(t) \/ Overload(t) \/ Dial(t)
DialEnds(t) == Connected(t) \/ Superseded(t) \/ (IsDialling(t) /\ Fail(t))

Next ==
    \/ \E t \in Tasks :
         \/ GetConnection(t)
         \/ Reuse(t) \/ Overload(t) \/ Dial(t)
         \/ KeyRefused(t) \/ Fail(t) \/ Connected(t) \/ Superseded(t)
         \/ Release(t)
    \/ \E h \in Hosts : \E cfg \in Configs : RegisterHost(h, cfg)
    \/ \E h \in Hosts : RemoveHost(h)
    \/ CloseAll
    \/ \E c \in ConnIds : CloseAllStep(c) \/ Lose(c)

Spec == Init /\ [][Next]_vars

\* A dial ends within connect_timeout; asyncio.Lock serves its waiters in
\* order, so a task for which the lock is free again and again gets it; an
\* operation releases its connection in a finally clause; a connection
\* asked to close is closed, so close_all goes on to the next.
Fairness ==
    /\ \A t \in Tasks : /\ WF_vars(DialEnds(t))
                        /\ SF_vars(Enter(t))
                        /\ WF_vars(Release(t))
    /\ \A c \in ConnIds : WF_vars(CloseAllStep(c))

FairSpec == Spec /\ Fairness

-----------------------------------------------------------------------------
(* Properties.                                                             *)

Holders(c) == {t \in Tasks : IsHolding(t) /\ op[t].conn = c}
DialsCurrent(t, h) == IsDialling(t) /\ HostOf(t) = h /\ ConfigUnchanged(t)

\* pool_size caps the connections of a host that can still be handed out,
\* although remove_host drops the lock object and two tasks can dial the
\* same host under two locks (get_connection, remove_host).
PoolBound == \A h \in Hosts : Cardinality(Usable(pool[h])) <= PoolSize

\* Of all the tasks dialling a host, at most one dials the configuration the
\* host has now: the popped lock never admits a second one whose connection
\* would be kept (remove_host's "a concurrent waiter already holds the same
\* lock object").
OneDialer ==
    \A h \in Hosts : \A t, u \in Tasks :
        DialsCurrent(t, h) /\ DialsCurrent(u, h) => t = u

\* Whatever can be handed out was opened with the host's current
\* configuration, across reconfigurations that hit a dial in flight
\* (the generation check of get_connection with _invalidate_pool).
FreshUsable ==
    \A h \in Hosts : \A c \in Usable(pool[h]) :
        registry[h] # NoConfig /\ dialled[c] = registry[h]

\* in_use never reads lower than the number of operations that hold the
\* connection, in whatever spelling they named the host.
CountsHolders ==
    \A h \in Hosts : \A c \in pool[h] : Cardinality(Holders(c)) <= inUse[c]

\* in_use is the operations that hold the connection and one more for every
\* release that named the host with surrounding whitespace: get_connection
\* counts under the normalized name, release_connection looks up the raw one,
\* although normalize_host_name is there "so the same host maps to ONE key
\* everywhere (registry, connection pool, ...)" (safety.py).  Nothing else -
\* expiry, supersession, reconfiguration - makes it drift.
InUseAccounted ==
    \A h \in Hosts : \A c \in pool[h] : inUse[c] = Cardinality(Holders(c)) + missed[c]

\* "so we never yank a connection out from under an in-flight command": up
\* to shutdown the manager closes no connection an operation holds, neither
\* by pruning nor by retiring it.
NoYank ==
    ~shutdown => \A t \in Tasks : IsHolding(t) => conn[op[t].conn] # "closed"

\* No connection leaks: an open one is in a pool or about to be closed by
\* close_all, so some later prune, release or shutdown reaches it.
NoOrphan ==
    \A c \in ConnIds :
        conn[c] = "open" => c \in closing \/ \E h \in Hosts : c \in pool[h]

\* A retired connection does not outlive its last release.
RetiredClosed ==
    \A h \in Hosts : \A c \in pool[h] : stale[c] /\ inUse[c] = 0 => conn[c] # "open"

\* The refinement of HostLease: an operation's lease is the host it named
\* with the configuration its connection was opened with.
NoLease == [host |-> "none", cfg |-> "none"]
LeaseOf(t) ==
    IF IsHolding(t) THEN [host |-> HostOf(t), cfg |-> dialled[op[t].conn]]
                    ELSE NoLease

Lease == INSTANCE HostLease WITH
            current <- registry,
            lease <- [t \in Tasks |-> LeaseOf(t)]

\* The pool implements HostLease: every connection get_connection returns -
\* reused, overloaded or freshly dialled - was opened with the configuration
\* its host has when it is returned, and serves that host until released.
ImplementsLease == Lease!LeaseSpec

\* get_connection ends, with a connection or an error, once the host is no
\* longer reconfigured (MaxGen bounds the reconfigurations).
GetTerminates == \A t \in Tasks : IsCalling(t) ~> ~IsCalling(t)

\* A connection retired in use is closed in the end, when its operations
\* have released it under the host's normalized name.
RetiredDrains == \A c \in ConnIds : stale[c] ~> conn[c] # "open"
=============================================================================
