---------------------------- MODULE ShellSessions ----------------------------
(***************************************************************************)
(* The long-lived users of the pool: the persistent shell sessions of      *)
(* session_manager.py, the per-host default session of remote_bash.py and  *)
(* the tunnels of network_tools.py, composed with ConnectionPool.          *)
(*                                                                         *)
(* A session or a tunnel is a task of the pool: it acquires a connection   *)
(* and keeps it until somebody else - a close, a caller that finds the     *)
(* channel dead, the shutdown - releases it.  A caller is one remote_shell *)
(* or remote_close request.  Both locks, the per-host lock of              *)
(* _ensure_session and the _read_lock of a session, are held exactly in    *)
(* the states HostLockFree and ReadLockFree name.  The commands themselves *)
(* are the subject of ShellChannel: here a command ends, or finds its      *)
(* channel dead, or times out and loses its session.                       *)
(***************************************************************************)
EXTENDS ConnectionPool

CONSTANTS
    Sessions,       \* session ids, each used for one session
    Tunnels,        \* tunnel ids, likewise
    Callers,        \* requests in progress at the same time
    NoSession,      \* "no default session" in _HOST_SESSIONS
    MaxCancels      \* bound: requests cancelled by their client

ASSUME HoldersAssumption ==
    /\ Tasks = Sessions \cup Tunnels
    /\ Sessions \cap Tunnels = {}
    /\ NoSession \notin Sessions
    /\ MaxCancels \in Nat

VARIABLES
    sessions,       \* keys of SessionManager._sessions
    shell,          \* the session's remote shell, seen from its channel
    backing,        \* ShellSession.host_name and .conn
    hostSession,    \* _HOST_SESSIONS
    tunnel,         \* life of each ActiveTunnel
    call,           \* where each caller is
    cancels         \* requests cancelled so far

sessVars == <<sessions, shell, backing, hostSession, tunnel, call, cancels>>
allVars == <<vars, sessVars>>

\* The part of the pool that no session step touches.
poolRest == <<reconfVars, pool, pooled, stale, dialled, downVars>>

NoCall == [at |-> "idle"]
NoBacking == [host |-> NoSession, conn |-> 0]

\* ensure: waits in _ensure_session.  probe, spawn, boot: the steps of
\* _setup_session.  queued, running: before and under _read_lock.  dead: got
\* SessionDead and drops the mapping.  closing: in close_session.
Call == [at : {"ensure", "probe", "spawn", "boot", "queued", "running", "dead", "closing"},
         host : Hosts, sid : Sessions \cup {NoSession},
         batch : BOOLEAN, retried : BOOLEAN]

SessTypeOK ==
    /\ sessions \in SUBSET Sessions
    /\ shell \in [Sessions -> {"none", "starting", "up", "eof", "closed"}]
    /\ backing \in [Sessions -> [host : Hosts, conn : ConnIds] \cup {NoBacking}]
    /\ hostSession \in [Hosts -> Sessions \cup {NoSession}]
    /\ tunnel \in [Tunnels -> {"none", "opening", "up", "closing", "gone"}]
    /\ call \in [Callers -> {NoCall} \cup Call]
    /\ cancels \in 0 .. MaxCancels
    /\ \A s \in sessions : backing[s] # NoBacking

SessInit ==
    /\ Init
    /\ sessions = {}
    /\ shell = [s \in Sessions |-> "none"]
    /\ backing = [s \in Sessions |-> NoBacking]
    /\ hostSession = [h \in Hosts |-> NoSession]
    /\ tunnel = [t \in Tunnels |-> "none"]
    /\ call = [c \in Callers |-> NoCall]
    /\ cancels = 0

At(c, place) == call[c].at = place
Goto(c, place) == call' = [call EXCEPT ![c].at = place]
Ends(c) == call' = [call EXCEPT ![c] = NoCall]

\* Mutant: the host lock is kept while waiting for the session's read lock.
HoldsHostLockLate(c, h) ==
    call[c].at \in {"probe", "spawn", "boot", "queued"} /\ call[c].host = h

HoldsHostLock(c, h) == call[c].at \in {"probe", "spawn", "boot"} /\ call[c].host = h
HostLockFree(h) == \A c \in Callers : ~HoldsHostLock(c, h)

\* A batch keeps the lock while it drops the mapping of its dead session.
HoldsReadLock(c, s) ==
    (At(c, "running") \/ (At(c, "dead") /\ call[c].batch)) /\ call[c].sid = s
ReadLockFree(s) == \A c \in Callers : ~HoldsReadLock(c, s)

\* The channel works: the shell runs and its connection is open.
IsUp(s) == shell[s] = "up" /\ IsAlive(backing[s].conn)

\* Mutant: the session is forgotten without release_connection.
ForgetSlot(s) == op' = [op EXCEPT ![s] = Idle] /\ UNCHANGED <<inUse, conn, missed>>

\* release_connection(session.host_name, session.conn), by whoever calls it.
ReleaseSlot(s) ==
    /\ ReleaseConnection(backing[s].host, backing[s].conn)
    /\ op' = [op EXCEPT ![s] = Idle]

\* _invalidate: only the caller that pops the session releases its slot.
Invalidate(s) ==
    IF s \in sessions
    THEN /\ sessions' = sessions \ {s}
         /\ shell' = [shell EXCEPT ![s] = "closed"]
         /\ ReleaseSlot(s)
    ELSE UNCHANGED <<sessions, shell, inUse, conn, missed, op>>

-----------------------------------------------------------------------------
(* remote_bash, remote_bash_many: _ensure_session and _setup_session.      *)

RemoteShell(c) ==
    /\ call[c] = NoCall
    /\ \E h \in Hosts, b \in BOOLEAN :
         call' = [call EXCEPT ![c] = [at |-> "ensure", host |-> h, sid |-> NoSession,
                                      batch |-> b, retried |-> FALSE]]
    /\ UNCHANGED <<vars, sessions, shell, backing, hostSession, tunnel, cancels>>

\* The session object is at hand; the command goes out unless another caller
\* has the channel.
Begin(c, s) ==
    call' = [call EXCEPT ![c].sid = s,
                         ![c].at = IF ReadLockFree(s) THEN "running" ELSE "queued"]

\* A live default session: use it.
UseSession(c) ==
    /\ At(c, "ensure")
    /\ HostLockFree(call[c].host)
    /\ hostSession[call[c].host] \in sessions
    /\ Begin(c, hostSession[call[c].host])
    /\ UNCHANGED <<vars, sessions, shell, backing, hostSession, tunnel, cancels>>

\* Drop the dead mapping and start on a new session, beginning with
\* get_connection for the probe of the remote shell.
StartSetUp(c) ==
    /\ hostSession[call[c].host] \notin sessions
    /\ \E s \in Sessions :
         /\ shell[s] = "none"
         /\ Resolve(s, call[c].host)
         /\ IF op'[s] = Idle
            THEN Ends(c) /\ shell' = shell
            ELSE /\ call' = [call EXCEPT ![c].at = "probe", ![c].sid = s]
                 /\ shell' = [shell EXCEPT ![s] = "starting"]
    /\ hostSession' = [hostSession EXCEPT ![call[c].host] = NoSession]
    /\ UNCHANGED <<generation, lockObject, pool, pooled, connVars, downVars,
                   sessions, backing, tunnel, cancels>>

\* Mutant: the host lock is not taken.
SetUpUnlocked(c) == At(c, "ensure") /\ StartSetUp(c)

\* No default session, or a dead one: set up another under the host lock.
SetUp(c) == At(c, "ensure") /\ HostLockFree(call[c].host) /\ StartSetUp(c)

\* _detect_remote_shell releases its connection; then create_session asks
\* for one, unless the host has no usable shell (BashRequired).
ProbeDone(c) ==
    /\ At(c, "probe")
    /\ Release(call[c].sid)
    /\ \/ Goto(c, "spawn") /\ shell' = shell
       \/ Ends(c) /\ shell' = [shell EXCEPT ![call[c].sid] = "closed"]
    /\ UNCHANGED <<sessions, backing, hostSession, tunnel, cancels>>

Spawn(c) ==
    /\ At(c, "spawn")
    /\ op[call[c].sid] = Idle
    /\ Resolve(call[c].sid, call[c].host)
    /\ IF op'[call[c].sid] = Idle
       THEN Ends(c) /\ shell' = [shell EXCEPT ![call[c].sid] = "closed"]
       ELSE UNCHANGED <<call, shell>>
    /\ UNCHANGED <<generation, lockObject, pool, pooled, connVars, downVars,
                   sessions, backing, hostSession, tunnel, cancels>>

\* Mutant: the session does not keep its connection.
SpawnedUnbacked(c) ==
    LET s == call[c].sid
    IN  /\ At(c, "spawn")
        /\ IsHolding(s)
        /\ IsAlive(op[s].conn)
        /\ sessions' = sessions \cup {s}
        /\ shell' = [shell EXCEPT ![s] = "up"]
        /\ Goto(c, "boot")
        /\ UNCHANGED <<vars, backing, hostSession, tunnel, cancels>>

\* create_process and the drain of the banner succeed.
Spawned(c) ==
    LET s == call[c].sid
    IN  /\ At(c, "spawn")
        /\ IsHolding(s)
        /\ IsAlive(op[s].conn)
        /\ sessions' = sessions \cup {s}
        /\ shell' = [shell EXCEPT ![s] = "up"]
        /\ backing' = [backing EXCEPT ![s] = [host |-> call[c].host, conn |-> op[s].conn]]
        /\ Goto(c, "boot")
        /\ UNCHANGED <<vars, hostSession, tunnel, cancels>>

\* They fail, or the request is cancelled: except BaseException releases.
SpawnFails(c) ==
    /\ At(c, "spawn")
    /\ Release(call[c].sid)
    /\ Ends(c)
    /\ shell' = [shell EXCEPT ![call[c].sid] = "closed"]
    /\ UNCHANGED <<sessions, backing, hostSession, tunnel, cancels>>

\* bootstrap_osc133 sees the readiness marker; the session becomes the
\* host's default one and the command goes out.
Booted(c) ==
    /\ At(c, "boot")
    /\ IsUp(call[c].sid)
    /\ hostSession' = [hostSession EXCEPT ![call[c].host] = call[c].sid]
    /\ Begin(c, call[c].sid)
    /\ UNCHANGED <<vars, sessions, shell, backing, tunnel, cancels>>

\* The channel dies or BOOT_TIMEOUT passes.
BootFails(c) ==
    /\ At(c, "boot")
    /\ Invalidate(call[c].sid)
    /\ Ends(c)
    /\ UNCHANGED <<poolRest, backing, hostSession, tunnel, cancels>>

-----------------------------------------------------------------------------
(* execute_in_session, and what remote_bash does with its outcome.         *)

Acquire(c) ==
    /\ At(c, "queued")
    /\ ReadLockFree(call[c].sid)
    /\ Goto(c, "running")
    /\ UNCHANGED <<vars, sessions, shell, backing, hostSession, tunnel, cancels>>

\* The command's end is read, or a Ctrl-C brought the prompt back.
Done(c) ==
    /\ At(c, "running")
    /\ IsUp(call[c].sid)
    /\ Ends(c)
    /\ UNCHANGED <<vars, sessions, shell, backing, hostSession, tunnel, cancels>>

\* The timed-out command did not yield to Ctrl-C: the session is dropped.  A
\* batch that does not stop on errors goes on with its next command.
TimedOut(c) ==
    /\ At(c, "running")
    /\ Invalidate(call[c].sid)
    /\ Ends(c) \/ (call[c].batch /\ UNCHANGED call)
    /\ UNCHANGED <<poolRest, backing, hostSession, tunnel, cancels>>

\* The channel is dead, or a command that waits for input did not yield to
\* Ctrl-C: SessionDead, which remote_bash handles once.
Died(c) ==
    /\ At(c, "running")
    /\ Invalidate(call[c].sid)
    /\ IF call[c].retried THEN Ends(c) ELSE Goto(c, "dead")
    /\ UNCHANGED <<poolRest, backing, hostSession, tunnel, cancels>>

\* Under the host lock, forget the dead session if it is still the default;
\* a single command is then tried once more.
DropDead(c) ==
    LET h == call[c].host
    IN  /\ At(c, "dead")
        /\ HostLockFree(h)
        /\ hostSession' = IF hostSession[h] = call[c].sid
                          THEN [hostSession EXCEPT ![h] = NoSession] ELSE hostSession
        /\ IF call[c].batch
           THEN Ends(c)
           ELSE call' = [call EXCEPT ![c].at = "ensure", ![c].retried = TRUE]
        /\ UNCHANGED <<vars, sessions, shell, backing, tunnel, cancels>>

-----------------------------------------------------------------------------
(* remote_bash_close and close_session.                                    *)

RemoteClose(c) ==
    /\ call[c] = NoCall
    /\ \E h \in Hosts :
         LET s == hostSession[h]
         IN  /\ HostLockFree(h)
             /\ s # NoSession
             /\ hostSession' = [hostSession EXCEPT ![h] = NoSession]
             /\ call' = IF s \in sessions
                        THEN [call EXCEPT ![c] = [at |-> "closing", host |-> h, sid |-> s,
                                                  batch |-> FALSE, retried |-> FALSE]]
                        ELSE call
    /\ UNCHANGED <<vars, sessions, shell, backing, tunnel, cancels>>

\* The shell exited, or 3 s passed, or the write failed: the slot is
\* released whatever happened meanwhile, and del raises KeyError if another
\* caller has removed the session.
CloseSession(c) ==
    LET s == call[c].sid
    IN  /\ At(c, "closing")
        /\ ReleaseSlot(s)
        /\ shell' = [shell EXCEPT ![s] = "closed"]
        /\ sessions' = sessions \ {s}
        /\ Ends(c)
        /\ UNCHANGED <<poolRest, backing, hostSession, tunnel, cancels>>

-----------------------------------------------------------------------------
(* Tunnels: the opener's connection passes to the tunnel, and whoever pops *)
(* the tunnel releases it, under the name remote_tunnel was called with -  *)
(* remote_shell strips its host, remote_tunnel does not.                   *)

OpenTunnel(t) ==
    /\ tunnel[t] = "none"
    /\ \E n \in Names : Resolve(t, n)
    /\ tunnel' = [tunnel EXCEPT ![t] = IF op'[t] = Idle THEN "gone" ELSE "opening"]
    /\ UNCHANGED <<generation, lockObject, pool, pooled, connVars, downVars,
                   sessions, shell, backing, hostSession, call, cancels>>

TunnelUp(t) ==
    /\ tunnel[t] = "opening"
    /\ IsHolding(t)
    /\ IsAlive(op[t].conn)
    /\ tunnel' = [tunnel EXCEPT ![t] = "up"]
    /\ UNCHANGED <<vars, sessions, shell, backing, hostSession, call, cancels>>

\* forward_* raises.
TunnelFails(t) ==
    /\ tunnel[t] = "opening"
    /\ Release(t)
    /\ tunnel' = [tunnel EXCEPT ![t] = "gone"]
    /\ UNCHANGED <<sessions, shell, backing, hostSession, call, cancels>>

CloseTunnel(t) ==
    /\ tunnel[t] = "up"
    /\ tunnel' = [tunnel EXCEPT ![t] = "closing"]
    /\ UNCHANGED <<vars, sessions, shell, backing, hostSession, call, cancels>>

TunnelClosed(t) ==
    /\ tunnel[t] = "closing"
    /\ Release(t)
    /\ tunnel' = [tunnel EXCEPT ![t] = "gone"]
    /\ UNCHANGED <<sessions, shell, backing, hostSession, call, cancels>>

-----------------------------------------------------------------------------
(* The pool, the remote side, cancellation and shutdown.                   *)

\* The owner of task t leaves get_connection with an exception.
Quit(t) ==
    /\ call' = [c \in Callers |->
                  IF call[c].at \in {"probe", "spawn"} /\ call[c].sid = t
                  THEN NoCall ELSE call[c]]
    /\ shell' = [s \in Sessions |-> IF s = t THEN "closed" ELSE shell[s]]
    /\ tunnel' = [u \in Tunnels |-> IF u = t THEN "gone" ELSE tunnel[u]]
    /\ UNCHANGED <<sessions, backing, hostSession, cancels>>

Acquiring(t) ==
    /\ Reuse(t) \/ Overload(t) \/ Dial(t) \/ KeyRefused(t) \/ Connected(t)
    /\ UNCHANGED sessVars

AcquireRestarts(t) ==
    /\ Superseded(t)
    /\ IF op'[t] = Idle THEN Quit(t) ELSE UNCHANGED sessVars

AcquireFails(t) == Fail(t) /\ Quit(t)

\* The shell ends: it read the exit of close_session, ran one itself, or
\* was killed.
ShellExits(s) ==
    /\ shell[s] = "up"
    /\ shell' = [shell EXCEPT ![s] = "eof"]
    /\ UNCHANGED <<vars, sessions, backing, hostSession, tunnel, call, cancels>>

Environment ==
    /\ \/ \E h \in Hosts : \E cfg \in Configs : RegisterHost(h, cfg)
       \/ \E h \in Hosts : RemoveHost(h)
       \/ \E k \in ConnIds : CloseAllStep(k) \/ Lose(k)
    /\ UNCHANGED sessVars

\* The client cancels a request (outside get_connection, where Fail is its
\* cancellation).  The bootstrap and the running command leave everything as
\* it is; the probe and close_session release in their finally clauses, the
\* latter without removing the session; forward_* has no such clause.
CancelCall(c) ==
    /\ cancels < MaxCancels
    /\ cancels' = cancels + 1
    /\ Ends(c)
    /\ \/ /\ call[c].at \in {"ensure", "boot", "queued", "running", "dead"}
          /\ UNCHANGED <<vars, shell>>
       \/ /\ At(c, "probe")
          /\ Release(call[c].sid)
          /\ shell' = [shell EXCEPT ![call[c].sid] = "closed"]
       \/ /\ At(c, "closing")
          /\ ReleaseSlot(call[c].sid)
          /\ UNCHANGED <<poolRest, shell>>
    /\ UNCHANGED <<sessions, backing, hostSession, tunnel>>

CancelTunnel(t) ==
    /\ cancels < MaxCancels
    /\ cancels' = cancels + 1
    /\ tunnel[t] = "opening"
    /\ IsHolding(t)
    /\ tunnel' = [tunnel EXCEPT ![t] = "gone"]
    /\ UNCHANGED <<vars, sessions, shell, backing, hostSession, call>>

\* _server_lifespan: SessionManager.close_all takes all sessions and
\* releases them; the pools go next, so only the counts are left to see.
Shutdown ==
    LET Slots(k) == Cardinality({s \in sessions : backing[s].conn = k})
    IN  /\ ~shutdown
        /\ shutdown' = TRUE
        /\ sessions' = {}
        /\ shell' = [s \in Sessions |-> IF s \in sessions THEN "closed" ELSE shell[s]]
        /\ inUse' = [k \in ConnIds |->
                       IF inUse[k] > Slots(k) THEN inUse[k] - Slots(k) ELSE 0]
        /\ op' = [t \in Tasks |-> IF t \in sessions THEN Idle ELSE op[t]]
        /\ closing' = UNION {pool[h] : h \in Hosts}
        /\ pool' = [h \in Hosts |-> {}]
        /\ UNCHANGED <<reconfVars, pooled, conn, missed, stale, dialled,
                       backing, hostSession, tunnel, call, cancels>>

SessNext ==
    \/ \E c \in Callers :
         \/ RemoteShell(c) \/ UseSession(c) \/ SetUp(c) \/ ProbeDone(c)
         \/ Spawn(c) \/ Spawned(c) \/ SpawnFails(c) \/ Booted(c) \/ BootFails(c)
         \/ Acquire(c) \/ Done(c) \/ TimedOut(c) \/ Died(c) \/ DropDead(c)
         \/ RemoteClose(c) \/ CloseSession(c) \/ CancelCall(c)
    \/ \E t \in Tunnels :
         OpenTunnel(t) \/ TunnelUp(t) \/ TunnelFails(t) \/ CloseTunnel(t)
         \/ TunnelClosed(t) \/ CancelTunnel(t)
    \/ \E t \in Tasks : Acquiring(t) \/ AcquireRestarts(t) \/ AcquireFails(t)
    \/ \E s \in Sessions : ShellExits(s)
    \/ Environment
    \/ Shutdown

SessSpec == SessInit /\ [][SessNext]_allVars

-----------------------------------------------------------------------------
(* Properties.                                                             *)

\* Who will release session s's slot: the next call that finds it as its
\* host's default session, or the one that sets it up or closes it.
OwnedSession(s) ==
    \/ \E h \in Hosts : hostSession[h] = s
    \/ \E c \in Callers : call[c].at \in {"probe", "spawn", "boot", "closing"}
                          /\ call[c].sid = s

\* Sessions and tunnels that keep a slot or a registry entry although no call,
\* no mapping and no open tunnel will ever give it back.
Orphans ==
    {s \in Sessions : (IsHolding(s) \/ s \in sessions) /\ ~OwnedSession(s)}
    \cup {t \in Tunnels : IsHolding(t) /\ tunnel[t] \notin {"opening", "up", "closing"}}

\* Only a cancelled request leaves an orphan, and one at most: whatever dies,
\* times out, fails or is closed meanwhile, a slot has an owner (_invalidate,
\* close_session, remote_bash_close, _ensure_session).
SlotsOwned == Cardinality(Orphans) <= cancels

\* "Without this in_use keeps creeping up" (close_session): in_use exceeds the
\* users that will release by no more than one for each release under a raw
\* spelling of the host and one for each cancelled request.  A cancelled boot
\* and a cancelled forward_* do leave their count behind.
NeverOvercounts ==
    \A h \in Hosts : \A k \in pool[h] :
        inUse[k] <= Cardinality(Holders(k) \ Orphans) + missed[k] + cancels

\* A lock has one holder, and a chain of callers that wait for each other's
\* locks ends after two: a batch whose session died waits for the host lock
\* under the read lock, but nobody waits for a read lock under the host lock
\* (remote_bash_many, _ensure_session).
WaitsFor(c, d) ==
    \/ call[c].at \in {"ensure", "dead"} /\ HoldsHostLock(d, call[c].host)
    \/ At(c, "queued") /\ HoldsReadLock(d, call[c].sid)
Blocked(c) == \E d \in Callers : WaitsFor(c, d)
NoLockCycle ==
    \A c, d \in Callers : WaitsFor(c, d) =>
        /\ \A e \in Callers : WaitsFor(c, e) => e = d
        /\ ~Blocked(d) \/ \A e \in Callers : WaitsFor(d, e) => ~Blocked(e)
=============================================================================
