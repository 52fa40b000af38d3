# Verification of portal-mcp-server

portal-mcp-server is an MCP server that lets an agent work on remote machines
over SSH: run commands, keep shells open, start background jobs, open tunnels,
read and patch files, with credentials supplied out of band. It is one asyncio
process; everything concurrent in it is coroutines interleaving at `await`, the
remote processes it starts, and other server processes of the same user that
share its state directory.

This directory holds TLA+ models of its stateful parts, TLC configurations that
check them on small instances, and TLAPS proofs for instances of any size.
`PROJECT.json` maps every definition to the lines it models and lists runs, mutants,
findings, hazards and theorems.

## Inventory

| Component | Source | State | Operations | Hard because |
|---|---|---|---|---|
| Connection pool | `connection_manager.py` | registry, generations, per-host locks, pools with `in_use` and `stale` | `get_connection`, `release_connection`, `register_host`, `remove_host`, `close_all` | every other part suspends while holding a connection; a dial races reconfiguration, cancellation and shutdown |
| Shell sessions | `session_manager.py`, `remote_bash.py` | `_sessions`, `_HOST_SESSIONS`, per-host locks, `_read_lock` | `create_session`, `execute_in_session`, `close_session`, `_ensure_session`, `remote_bash(_many)` | a session's pool slot is released by whoever ends it; two kinds of lock |
| OSC 133 channel | `session_manager.py` | bytes in flight on one PTY | bootstrap, command, Ctrl-C recovery, `set_env` | the end of a command is a marker in a shared stream; timeouts race it |
| Tunnels | `network_tools.py` | `_tunnels` | open, close | hold a pool slot for hours |
| Background jobs | `job_manager.py` | `_jobs`, `_pending`, `<state>/jobs/<pid>.json`, remote files and PIDs | submit, poll, cancel, list, sweep, adopt | survive the server; several servers; scripts that read remote state in two steps |
| Text editor | `remote_text_editor.py` | remote files, hashes | `remote_read`, `remote_patch` | check then write; a fallback that is not atomic |
| Credential agent and lookups | `credential_agent.py`, `*_creds.py`, `secrets_store.py` | secrets with lifetimes, a socket path; in-process caches in front | set, get, clear, list, show, status; bind; lookup | processes race for one path; restart; expiry during a lookup |
| Execution, policy, audit | `cli.py`, `security.py`, `safety_net.py`, `audit.py`, `shell_engine.py`, `local_exec.py` | rate window, log | `remote_exec`, `local_exec`, `enforce`, `audit_log` | fan-out with partial failure; a record that fails after the fact |
| File transfer | `file_ops.py` | files and mtimes on both sides | upload, download, sync, mirror, the two lists | interrupted copies, resume, overlapping calls, stale listings |
| Search, paths | `remote_search.py`, `paths.py` | none | | users of the pool |
| Tool front end | `cli.py` | none | 20 MCP tools | cancellation by the client, shutdown |

The parts interact through the pool: all of them call `get_connection` and must
call `release_connection` once. The front end cancels an operation's task when
its client gives up, so every `await` is also a place where an operation can
end.

What makes them correct, in short: the pool hands out only connections to the
current configuration, within its bound, and closes none in use; each slot is
released once; each command is answered by its own marker; a job's reported
state is true and jobs are not forgotten; no lock order blocks everybody; a
transfer that says ok has copied; a credential that was replaced, cleared or has
expired is not used; a rolling command stops where something went wrong, and what
ran is in the audit log.

## Modules

| Module | Models | Checked by |
|---|---|---|
| `HostLease` | abstract: an operation gets a connection to the host's current configuration and keeps it | refinement |
| `ConnectionPool` | the pool | `MCConnectionPool`, `ConnectionPoolProofs` |
| `ShellSessions` | sessions, default sessions, tunnels, shutdown, **composed with** `ConnectionPool` (it EXTENDS it and uses its actions) | `MCShellSessions`, `ShellSessionsProofs` |
| `ShellChannel` | the OSC 133 protocol on one session's channel | `MCShellChannel`, `ShellChannelProofs` |
| `JobManager` | background jobs, their servers and remote processes | `MCJobManager`, `JobManagerProofs` |
| `TextEditor` | `remote_read` and `remote_patch` calls on one remote file | `MCTextEditor`, `TextEditorProofs` |
| `FileTransfer` | `remote_transfer` calls on one tree | `MCFileTransfer`, `FileTransferProofs` |
| `CredentialAgent` | agent processes, the `portal` credential commands, lookups | `MCCredentialAgent`, `CredentialAgentProofs` |
| `RemoteExec` | `remote_exec` and `local_exec`: gate, rate limit, fan-out, audit record | `MCRemoteExec`, `RemoteExecProofs` |

**ConnectionPool.** One action per stretch of code without a suspension point.
`get_connection` is `GetConnection` (resolve the host, capture configuration,
generation and lock object), then under the lock `Reuse`, `Overload` or `Dial`,
each with the pruning in front, then `Connected`, `Superseded` (a
reconfiguration happened: start over), `KeyRefused` (password retry) or `Fail`
(also timeout and cancellation). A configuration is a value, a connection a
number; clocks are replaced by "any idle connection may have expired".
`remove_host` pops the lock object, so the model numbers lock objects. Names
with surrounding whitespace (`RawNames`) are kept apart from hosts because
`get_connection` normalizes and `release_connection` does not: a release under a
raw name finds no pool, and the history variable `missed` counts such releases of
each connection.

**ShellSessions.** Sessions and tunnels are tasks of the pool; callers are
requests. A caller walks through `_ensure_session`, `_setup_session` (probe,
spawn, bootstrap), the read lock and the command, or through `close_session`.
What a command does on its channel is left to `ShellChannel`; here it ends,
dies, or times out and loses its session. `CancelCall` and `CancelTunnel` are
the client giving up, at every await, doing just what the code's handlers do
there. `Shutdown` is `_server_lifespan`. Sessions name their host as `get_connection`
does, since `remote_shell` strips it (`cli.py:1158`); tunnels pass on what the agent
wrote (`cli.py:736-751`), so `OpenTunnel` chooses from all `Names`. What a cancelled
boot or a cancelled `forward_*` leaves behind, a session nobody has as its default or
a slot whose tunnel is not in the table, is named `Orphans`.

**ShellChannel.** The shell executes the lines written to it in order and emits
a D marker before each prompt; markers carry the number of their line, which
only the properties look at. A read returns any non-empty prefix of the stream.
`QuietIsIdle` says that a quiet window means the bootstrap script has run: the
code's `BOOT_QUIET` timing assumption, made explicit. A stray is a marker no
reader is left for: a cancelled command's, `set_env`'s, or that of a Ctrl-C that
arrived at a prompt.

**JobManager.** An operation is one request; the poll and cancel scripts are
split where they read remote state twice. A server process lists its siblings'
files, reads and removes those of dead ones one by one (other processes may
interleave), loads its own, then serves. The remote process runs, records its
exit status, ends, or is killed; its PID may be reused. A script's channel may close
without an exit status: with `check=False` nothing is raised and the reply is empty, so
poll reads neither meta nor ALIVE and cancel reads what it reads of DEAD. The history
variable `misread` has the jobs of which that happened while they ran. `_persist` always
succeeds in the model (the code swallows its errors). A job's output is left out.

**TextEditor.** A call pages through the file, then patches it with the last
`file_hash` it saw. The patch algorithm (`SplitKeepends`, `SortedPatches`,
`Overlapping`, `Patched`) is translated step by step, bottom to top; `Expected`
is the reference, one pass from the top. Texts are sequences of tokens with the
newline among them, so a line without newline glues to the next as in the code,
and a hash is equal exactly for equal texts. Each SFTP request is a step, and
`Break` lets any of them raise with or without having taken effect, the session
surviving (a cancellation, a refusal) or not. The sudo script runs on the host
by itself: it may fail, be killed, or go on after its call has given up. Other
programs save the file at any moment, tmp files get old at any moment.

**FileTransfer.** A file is a sequence of chunks with an mtime. A copy (asyncssh's
`put` and `get`) truncates its destination, writes the chunks in any order, so a
later chunk may leave a hole, and sets the mtime last; it may stop anywhere by a
failure or a cancellation. The six directions share these steps and differ in how
they list, look at and compare files, as in the code: `mirror` compares with what
its walk saw, the others with a fresh stat; `upload` may append to a partial file,
at its end as it is then, and keeps the result only if both hashes agree. The clock
ticks in seconds so that the one-second tolerance of `_mtime_match` can deceive.
Calls overlap, and the code does not keep them apart, so five history variables say
where a call cannot answer for a file: `blur`, the files whose mtimes may match by
accident (also after a copy that another call wrote into at the same time); and per
call `dirty`, the files other programs changed since it began, `spoiled`, those that
another call gave up writing since, `guessed`, those it skipped on blurred mtimes, and
`shared`, that another call writes its current file. An undisturbed copy takes its file
out of `blur`; `dirty`, `spoiled` and `guessed` last as long as the call, and are what
`TransfersAgree` excepts; `shared` starts afresh with the call's next file.

**CredentialAgent.** An agent probes, unlinks, binds and listens in separate system
calls, or is started by systemd for a waiting connection; it may die at any moment
and takes its cache with it. A request connects to whoever owns the path, is handled
in one step (the agent's lock spans no await) and answered; each part may fail. A
lookup goes through the in-process cache, the agent and the configured command.
`current`, `keeper` and the `ok` and `must` of a lookup are history: what was last
set and has not ended.

**RemoteExec.** A call passes the gate (an await per command; hosts and rates without
one), resolves its secrets, and runs its commands on its hosts, in parallel or
rolling. A command ends with 0, another code, no code, a timeout, or its connection;
an audit write works or fails. What each path does with these, and which exceptions
its callers catch, is taken from `ssh_exec`, `run_one`, `run_host` and `run_all`.
`local_exec` looks its password up before its secrets and checks its host before its
command; the model keeps the order of `remote_exec`, which only decides which refusal
comes first.

These last three modules do not extend `ConnectionPool`: all they ask of it is that a
connection is had or not, which is what `HostLease` promises.

## Runs

| Run | Question | Bounds |
|---|---|---|
| `pool_safety` | does the pool keep its promises with three operations on a host, reconfiguration, loss, cancellation, shutdown? | `pool_size` 1, 1 channel per connection, 2 connections; 3 tasks and 2 reconfigurations with normalized names, or 2 tasks and 1 with a host in two spellings |
| `pool_liveness` | does `get_connection` end and a retired connection close? | 2 tasks, normalized names, 1 reconfiguration |
| `sessions` | are slots released and owned, and does waiting for locks end? | 2 callers, 2 sessions, 1 tunnel in two spellings, 1 connection, 1 cancellation |
| `sessions_yank` (violation) | is a connection in use never closed? | as above, without cancellation |
| `channel` | who is owed a marker, and how far can answers shift? | 2 callers, 7 lines (3 of the bootstrap), 2 cancellations, 2 `set_env` |
| `channel_desync` (violation) | is every command answered by its own marker? | 1 cancellation, no `set_env` |
| `jobs` | are job states true, the cap kept, files not swept early, but for jobs whose replies came back empty; are jobs kept over a restart? | 2 requests, `MAX_LIVE` 1; 1 job under up to 3 server processes, or 2 jobs that succeed under the first one, one of them with empty replies; PIDs are reused with 1 job and 1 server process |
| `editor` | is what a patch puts in place exactly what was asked, do pages reassemble, does the file survive, are tmp files reclaimed, owner and mode kept? | 2 calls, 1 foreign write, 3 lines; one call with 204 lists of one or two patches, or two calls side by side with one list each |
| `editor_lost` (violation) | does the path name a file once all calls have returned? | 1 call, 1 patch |
| `transfer` | do transfers that answer ok leave both sides the same, and is only what is the same skipped? | a file of 2 chunks and a link, 2 contents, 1 foreign edit or deletion, 2 calls (one a batch at most, overlapping within one second) or 3 uploads, 3 clock values |
| `agent` | can an old credential come back, a fresh one get lost, or an agent lose its socket? | 2 agent processes, 2 clients, 2 commands, 1 lookup, 1 tick, lifetimes 1 and 2 |
| `exec` | does a rolling run stop, and is what ran recorded? | 2 allowed hosts, 1 refused, the server; 2 commands; rate limit 1; a second call beside a short first one; the rate window stands still while a list of commands runs |

The bounds are the smallest at which the cases named in the hazards happen: one
connection with one channel makes `pool_size`, overload and double dial reachable
with three tasks; two generations let a dial be superseded twice; a tunnel and a
session on one connection are what a wrong count takes to do harm; two script
lines, the marker line and four commands let several strays shift several
answers; one live job with two submitters exercises the reservation; three lines,
the last without newline, and pairs of patches with every kind of end cover the
order, overlap and clamping cases of the patch algorithm; two chunks give a
prefix, a hole and a wrong prefix, and three uploads let two of them meet what a
third left; two agents are what a race for the socket takes; two hosts and two
commands show both what follows a failure on a host and what follows on the next.
Calls of `remote_exec` share only the rate window, so the second call of `exec` is
a short one. Symmetry is used on tasks, callers, sessions, servers, jobs, requests
and transfers, in runs without liveness. `CHECK_DEADLOCK FALSE` stands where a bounded model stops by itself:
session ids or lines are used up, every server process has ended, or every call
has been made and answered.

Each property of a passing run has a mutant, a plausible bug in the code it is
about, under which TLC finds it violated.

**Fairness** (only `pool_liveness`): a dial ends (`connect_timeout`); a task for
which the lock is free again and again gets it (`asyncio.Lock` is first come,
first served: strong fairness); an operation releases its connection (a `finally`
clause); `close_all` goes on. Nothing is assumed of reconfiguration or losses. The run
uses normalized names: a retired connection released under a raw one stays open with
`in_use` too high until shutdown.

## Findings

1. `sessions_yank`: `close_session` and `_invalidate` can both release one
   session's slot; a tunnel on the same connection is then uncounted, and the
   connection is closed under it by the next reconfiguration.
2. `channel_desync`: a request cancelled by its client leaves its command's
   marker for the next request, whose exit code and output are then those of the
   cancelled one. `set_env` and a timeout that races the command's end do the same.
   `LagBounded` shows how far it goes: one answer per stray.
3. `editor_lost`: without posix-rename, a patch that breaks between `remove` and
   `rename` cleans its tmp file up as well, and the file is gone.

### Known limits

What the models also show, where a property is stated so as to leave it room. The
first five contradict what the repository says of itself; the properties name each of
them as an exception and show that there is no other, but for the third and the fifth,
which no property is about.

- A connection asked for as `'web01 '` is counted under `web01` and released under
  `'web01 '`, where there is no pool (`connection_manager.py:1258`). `in_use` stays too
  high: the connection never counts as idle and, retired, is never closed. The remote
  file tools (`remote_text_editor.py:162`, `:175`) and `remote_tunnel` pass the name on
  as it was written. `safety.py:70` says "so the same host maps to ONE key everywhere
  (registry, connection pool, ...)", `CHANGELOG.md:93` "at every boundary".
  `InUseAccounted` counts it.
- An empty reply of the poll or cancel script, which `check=False` lets through when
  the channel closes without an exit status, makes a running job `unknown` or
  `cancelled` (`job_manager.py:350-382`, `453-461`), though the comment at 408 says
  "Report the truth rather than prematurely claiming 'cancelled'". The sweep may then
  remove its files, and `submit` admits another beside it. `FinishedIsOver` and
  `CapHolds` except these jobs (`misread`).
- `cancel` looks at the job's status before it waits for a connection, and signals the
  PID whatever was recorded meanwhile. The comment there, "Never signal a bare PID for
  a job we already consider finished" (`job_manager.py:425`), does not hold in that
  window.
- A command whose call is cancelled, or (sudo and secrets) whose connection breaks, is
  in no audit record; `SECURITY.en.md:57` says "Every state-changing op recorded".
  `RecordedUnlessExcused` names both.
- A multi-host call refused because a later host is over its rate has spent a token of
  each host before it (`_gate_exec`, phase 3); `SECURITY.en.md:112` says "A single
  failing host cannot burn quota on the others".
- A request cancelled while it boots a session leaves the session in the registry,
  and one cancelled while it opens a tunnel leaves the slot counted, until shutdown:
  `SlotsOwned` allows one such orphan for each cancelled request and `NeverOvercounts`
  one count.
- A connection that a dial puts in its pool after `close_all` took the pools is closed
  by nobody; to `NoOrphan` it is pooled.
- The text another program or another patch writes between the hash check of
  `remote_patch` and its rename is lost, which the repository's README says of its
  optimistic concurrency control.
- `KeptThroughRestart` is about one server process that ended. Adopted jobs are in
  no file until the next `_persist` (`job_manager.py:182`), so a second one that
  ends before it forgets them.
- A job that ends between the poll script's two reads is reported as `unknown`
  although it recorded a status; a later poll corrects it. A slow poll may set a
  finished job back to running until the next one.
- `SkipSound` and `TransfersAgree` except files skipped on mtimes that match by
  accident: written within the tolerance of the other side's, or copied while they
  changed. An interrupted copy of equal size retried within that second, or an edit of
  equal size right after a sync, answers ok with different contents.
  `checksum=True` does not rely on mtimes. Both properties also except files that
  another program changed since the call began, so they do not show that `mirror`
  notices a change made after it listed the tree.
- Staging that raises leaves its copy in `$HOME` (`remote_text_editor.py:397`).
- An upload overwrites in place: an interrupted one leaves a partial file, though
  `cli.py:575` calls the transfer "binary-safe, atomic". `mirror` leaves out,
  without a word, a directory it cannot read.
- Agents that start at the same time on one stale socket file can unlink each
  other's new socket; `NoTakeover` is about an agent that listened when probed.
- Two `portal ssh set` commands for a host with `sudo_password_same_as_ssh` may
  leave it with the ssh password of one and the sudo password of the other.
- A failing audit write stops the run that meets it, not other runs.
- Within one host a missing exit code does not stop a list of commands, while it
  stops a rolling run at that host.

## Proofs

Eight modules hold proofs. Each proves an inductive invariant, takes the properties
from it, and holds for any sets of hosts, tasks, jobs, agents, calls, files and texts
and any bounds that satisfy the named assumption of the module it is about. TLC has
checked every property on the instance of its run, and the invariants as far as they
can be enumerated, before they were proved. All properties of the passing runs are
proved, except the two of `pool_liveness`.

| Module | Theorem | Claim |
|---|---|---|
| `ConnectionPoolProofs` | `TypeCorrect` | `Spec => []TypeOK` |
| | `PoolBounded` | the bound on usable connections, at most one current dial |
| | `UsableIsFresh` | what can be handed out fits the current configuration |
| | `NeverYanked` | `in_use` covers all holders, whatever the spelling: nothing in use is closed before shutdown |
| | `CountsAccounted` | `InUseAccounted`: `in_use` is the holders and the releases under a raw name |
| | `NoLeak` | no open connection is forgotten, a retired one ends with its last release |
| | `PoolImplementsLease` | the pool implements `HostLease` |
| `ShellSessionsProofs` | `SessTypeCorrect` | `SessTypeOK`: a registered session has a connection to give back |
| | `SlotsNotLeaked` | `NeverOvercounts`: `in_use` creeps up by cancelled requests and raw names only |
| | `SlotsHaveOwners` | `SlotsOwned`: one orphan at most for each cancelled request |
| | `LocksDoNotBlock` | `NoLockCycle`: one waits for one other, and a chain of waiters ends after two |
| `RemoteExecProofs` | `ExecTypeCorrect` | `ExecTypeOK`: rate window within its limit, one host at a time in a rolling run |
| | `RollingRunStops` | `RollingStops` |
| | `CommandsRecorded` | `RecordedUnlessExcused` |
| | `UnrecordedCommandIsTheLast` | `NothingAfterUnrecorded` |
| `JobManagerProofs` | `JobTypeCorrect` | `JobTypeOK`, the exact count of reservations included |
| | `FinishedJobsAreOver` | `FinishedIsOver`: but for jobs of which a reply was cut off while they ran |
| | `CapRespected` | `CapHolds`, with the same exception |
| | `JobsKeptThroughRestart` | `KeptThroughRestart` |
| `CredentialAgentProofs` | `AgentTypeCorrect` | `AgentTypeOK`, one agent at most on an activated socket |
| | `CredentialsAreFresh` | `FreshCredential` |
| | `LookupsReadWrites` | `ReadYourWrites` |
| | `SocketNotTaken` | `NoTakeover`, an action property |
| `ShellChannelProofs` | `ChannelTypeCorrect` | `ChannelTypeOK`, one caller at a time on the channel |
| | `OnlyReadersAreOwed` | `OwesOnlyReaders`, if `QuietIsIdle` |
| | `AnswersAreRecent` | `LagBounded`, if `QuietIsIdle` |
| `TextEditorProofs` | `FileKept` | `FileSurvives`: the path names a file, and sudo patches keep its owner |
| | `TmpFilesReclaimed` | `TmpReclaimed` |
| | `EditorTypeCorrect` | `EditorTypeOK`, with the types of all texts |
| | `WalksReassemble` | `WalkReassembles`: pages with one hash are the lines of the file with that hash |
| | `PagingGoesOn` | `PagesAdvance`, an action property |
| | `WholePatchesCommitted` | `CommitsWholePatch`, an action property |
| | `PatchesApply` | the patch algorithm agrees with its reference, for every text and list of patches |
| | `PagingAdvances` | `next_start` of a page is 0 or beyond its start, for every text, cap and limit |
| `FileTransferProofs` | `TransferTypeCorrect` | `TransferTypeOK` |
| | `TransfersAgreed` | `TransfersAgree`: but for files changed by others, given up on, or skipped on accidental mtimes |
| | `SkipsAreSound` | `SkipSound` |

`SessInvariant`, `ExecInvariant`, `JobInvariant`, `AgentInvariant`,
`ChannelInvariant`, `EditorInvariant`, `TextsHeld` and `TransferInvariant` are the
inductive invariants themselves.

**ConnectionPool** (`PoolInv`). The properties alone are not
inductive. Needed besides them: `Numbered` (connection numbers are handed out
once, and holders have numbers that were), `Home` (a connection is in the pool
of the host it was dialled for), `CallFresh` (a caller whose generation is still
current captured the current configuration and lock object), `Mutex` (two tasks
that dial a host under the same lock object are one), and `DialRoom` (while a
current dial is in flight there is room for its connection: the bound is checked
at `Dial` and used at `Connected`). The argument: a remove_host makes a new lock
object *and* a new generation, so two dials under different locks cannot both be
current; hence at most one dial can end in the pool, and the room it found is
still there, since only it could take it. The effect lemmas describe each group
of actions by what it leaves alone, and each conjunct has a step lemma. The
refinement is `LeaseStep`, by cases on the action, from `FreshUsable` and `Home`.

**ShellSessions** (`IInv`). The composition EXTENDS the pool, and its proof extends
the pool's. `Live`: the registry has exactly the sessions whose shell was started
and not put away. `CallOK` is what a caller knows of its session, and of the
mapping of its host while it has the host lock; `OneSetUp`: no two callers set up
the same session. `SlotOK` and `TunnelOK` tie the pool to that: a session uses the
pool only while it is set up or registered, and what it will tell
`release_connection` is the connection it holds. `PoolStep` then says that to the
pool every step is one of its own, a shutdown, or a second release of a slot given
back before (`ReleasesAgain`: a session that is torn down while it is closed), so the
effect lemmas of the pool are used again for `TypeOK`, `Numbered` and `Home`.
`Covered` bounds `in_use` by the holders and the `missed` releases of each connection;
a second release only lowers the count. That second release is why
the stronger pool invariants do not carry over: `in_use` may come to count *less*
than there are holders (run `sessions_yank`). `FewStrays` counts what cancellations
leave behind: a step makes a stray only if it is a cancellation, and then one
(`StraysStep`). `OrphansStray` shows that every orphan is one, which gives `SlotsOwned`,
and with `Covered` it gives `NeverOvercounts`. `NoLockCycle` follows from `OneSetUp` and
`OneReader`, the locks' mutual exclusion, and from where a caller waits for which lock.

**RemoteExec** (`IInv`). What a run promises at its end has to be known at each
step: `Progress` ties the place of a host's run, its command number and its exit
codes to the commands started, recorded, unwritten and broken; `InOrder` says that
the hosts of a rolling run before the working one are through, and with success if
the run stops at errors; `UnrecordedIsLast` and `Excused` are the audit properties
for calls still under way. The rate limit is committed by a walk over the hosts of
a request that stops at the first one without room (`Committed`): the *first*
needs a least element of a set of positions, which the lemmas `Least` and
`Greatest` get from the well-foundedness of `<` on the naturals.

**JobManager** (`IInv`). The same sentence about a record, `RecOK`, is needed
wherever a record can be: in a table, in a state file (also of a dead server, which
another may adopt) and in the hands of a request between two awaits (`OpOK`). It
speaks of what can *still* become true: a record may say running of a process that
is gone, never finished of one that runs, unless its job is in `misread`; that it is
`done` or `failed` is true even then, for an exit status is read, never inferred. `Counted` makes `_pending` the number of
submits between admission and record; `CapHolds` then follows from the check at
admission, made when no other submit can pass. `OwnJobs` and `AdoptsLoading` keep
two servers from writing one job. `KeptThroughRestart` has an invariant of its own,
`KInv`: a server that is up knows what its file holds, so `_persist` loses nothing
(`FileKnown`); a file about to be removed has been read by who removes it, or its
PID serves again and knows what it holds (`RemovesRead`, which fails once that
server ends too); and before the first server ends every job is in a file and none
is adopted (`NobodyEnded`). A request does one thing to the records of its server
(`Upkeep`), so the proof goes by the steps of the servers' lives.

**CredentialAgent** (`IInv`). The history variables are tied to the state:
`LocalCurrent` and `AgentCurrent` (a live entry in the in-process cache, or in the
agent that can be reached, is the current credential), `KeeperServed` and
`KeeperHolds` (the agent that took the last set still serves and has it),
`OneActivated`, and for each request `Requested`, `Allowed` (what it was answered
was current since it began) and `Owing` (what it must answer is still where it will
look). `Reachable` is the crux: an agent answers only through the path it owns, so
a cache that holds a stale credential is one nobody can reach again.

**ShellChannel** (`IInv`). Lines are numbered as they are written. `Numbered`: the
lines not started are the last ones; `Sorted` and `Complete`: the markers in the
stream are in the order of their lines and none is missing from the first on;
`Due`: the marker of the command on the channel is still to come; `Boot`: at most
one marker is outstanding while the readiness marker is awaited. `OwesOnlyReaders`
is then an account of markers printed and read (`MarksAppend`, `MarksDrop`).
`AnswerIsRecent` gets `LagBounded` from it: if the first marker in the stream is of
line *a*, those of *a* .. the last line written are all outstanding (`CountFrom`, an
injection of lines into positions), and no more than one per stray and one for the
reader may be. Both need `QuietIsIdle`: if a quiet window can come before the
script has run, its markers answer commands. The types and the read lock do not.

**TextEditor** (`IInv`, then `Texted`). `IInv` does not look into texts: `Shaped`
types everything else. `Planned` says how far a call has to be to have written
anything, and that its script runs only by sudo; `Reclaimed` follows its tmp file
from the request that creates it to the rename or the except clause. `Named` and
`Owned` are about the file: the fallback that removes it is taken only without
posix-rename, and as long as every patch went by sudo (`OnlySudo`), the owner that a
script was told, and that its tmp file has before the mv, is the one the file still
has. That a non-sudo writer refutes `OnlySudo` needs that its caller may expect
*some* text, i.e. that some order of its patches is sorted (`SomeOrder`).

What the operators on texts compute is proved next. Lines are joined and patches
applied by folds over sequences of any length. `FoldExists` shows that a fold has a
value after each of its steps (`Folds`, `FoldExtended`), and what holds of every
value is then shown by looking at the first step where it would not (`Smallest`).
So `SplitJoined`: the lines of a text joined are the text; `JoinConcat`: joining goes
over concatenation; `PageContinues`: a page appended to the lines before it gives the
lines before the next one. `PatchesApply` compares the two ways through the patches:
from the bottom, replacing slices of a list that changes (the code), and from the top,
copying (`Expected`). What is copied down to a patch, followed by what the patches
from there on have left of the list, is the same text at every patch
(the step `mixed`). This rests on `PatchesApart`, i.e. the overlap check, by which the
lines above a patch are still the file's own when its turn comes.

`Texted` is inductive relative to `IInv`. `Walking`: as long as a walk has seen one
hash, its content is the lines of that text before its next page (`Walked`), whatever
the file holds by now. `Wanted`: what a call is about to write is what its caller may
expect, by `PatchesApply`, and what is ready to be moved in place, be it the tmp file
before a rename or the staged copy and tmp file of a script, is that text, whole; a
sweep may take a tmp file away but not change it. `CommitsWholePatch` is then by cases
on the step that moves a file in place.

**FileTransfer** (`IInv`). `BlurTells`: mtimes that match speak the truth outside
`blur`. `SourceKnown`: what a call has noted about a source (size and mtime of its
listing, walk or stat, a hash) is still so until the source is `dirty`.
`CoversAlone`: while a call copies a file undisturbed, the destination is no longer
than the source and wrong only in the chunks it has `left` to write (`Covers`), so that
its last chunk makes both sides the same, whatever prefix or hole it started from.
`Agreed` ties the calls together: for every file that a call answers for (`Vouches`:
done with, opened, or hashed on one side), either both sides are the same, or some
call is about to make them so (`Settled`, `Repairs`), or the file is `dirty`,
`spoiled` or `guessed`. The second case is what overlapping calls need: another call may have
truncated the file again, and the promise of the first then depends on the second,
which keeps it by ending or breaks it by giving up, which is when `spoiled` is set.
`SkipSound` is an action property of its own (`FairStep`), from `BlurTells` and
`SourceKnown`. An earlier version of `blur` and `spoiled`, which TLC had accepted on
the instance of the run, did not admit an inductive invariant: a copy that ends well
while another call, later to fail, writes the same file leaves mtimes that match and
contents that do not. The histories now say so.

**Assumptions.** Bounds are naturals. `HoldersAssumption`: who uses the pool are
sessions and tunnels, and none is both. `ExecAssumption` describes requests as the
tools build them: at least one host, several only in a multi-host run, local
commands alone. `JobAssumption`: finitely many PIDs, jobs and requests (the counts
are cardinalities). `AgentAssumption`: kinds and lifetimes as in the agent's protocol;
"same as ssh" is an option of hosts with a sudo password; the values for "no
value", "no file" and "stale file" are no value, agent or file.
`ChannelAssumption`: the bound on lines includes the bootstrap script.
`EditorAssumption`: patches are a list with integer starts and ends (or null) and
contents made of tokens; so are the texts at the start and those other programs
write; the newline is a token. `TransferAssumption`: the tree is a list of files,
contents are sequences of numbers, of which a hole is one, and the value for "no
file" is no file.

**Only model-checked.** Liveness (`GetTerminates`, `RetiredDrains`) is out of the
prover's reach, as is `ENABLED`. Induction over data is too, as a proof rule: the
theorems about folds follow them from step to step by a least counterexample instead,
which covers every text and list of patches. `OneDialer` and `RetiredClosed` are proved
(with `PoolBounded` and `NoLeak`) and not model-checked on their own; likewise
`PagingAdvances` and `PatchesApply`, which the runs meet only through
`PagesAdvance` and `CommitsWholePatch`.

## Plan

1. (done) pool, lease, sessions and tunnels, channel, jobs, text editor; proofs
   of the pool.
2. (done) file transfer, credential agent and lookups, execution with policy and
   audit.
3. (done) proofs of sessions and tunnels, execution, jobs, credentials, the
   channel and the editor's files.
4. (done) proofs of file transfer, and of the editor's texts: paging and patches.
5. (open) Job output paging (`_decode_incremental`, `more`) as an algorithm.

## Not modelled

Host key checking, key loading and proxy chains inside a dial (one step that
succeeds or fails); the content of commands and output; encodings; quoting and
pattern lists in `safety.py` and `security.py` (pure string functions; the gate
has a verdict instead); `remote_search.py`, which builds one remote command and
parses its output; the paging and decoding of job output; redaction; the audit
log's ring buffer and rotation; the Windows pipe and the same-user check of the
agent, and the installation of its service; functions without a caller
(`ssh_write_file` and its siblings, `ssh_exec_batch`, `ssh_exec_script`);
formatting, logging and argument checks of the tools.
PID reuse of *server* processes by unrelated programs only delays adoption.
