--------------------------- MODULE CredentialAgent ---------------------------
(***************************************************************************)
(* The per-user credential agent (credential_agent.py), the terminals that *)
(* talk to it (portal ssh|passphrase|sudo|secret|agent ..., cli.py) and    *)
(* the lookups of the server: in-process cache, then agent, then the       *)
(* configured command (sudo_creds, ssh_creds, passphrase_creds,            *)
(* secrets_store, connection_manager).                                     *)
(*                                                                         *)
(* An agent process is started by systemd for the first connection to a    *)
(* socket systemd keeps (activated), or binds the path itself: it probes   *)
(* an existing socket file, unlinks it and binds, each a system call that  *)
(* another process may interleave with.  A request is connected, handled   *)
(* (atomically: the agent's lock is never held across an await) and        *)
(* answered; the agent may die and the answer may be lost.  Time is the    *)
(* lifetime left to each entry.  The Windows pipe, which has no path to    *)
(* race for, and the same-user checks are left out.                        *)
(***************************************************************************)
EXTENDS Naturals, FiniteSets

CONSTANTS
    Agents,         \* agent processes, each used once
    Clients,        \* terminals and lookups in progress at the same time
    Names,          \* hosts and secret names
    Kinds,          \* the credential kinds in use
    SameAsSsh,      \* hosts with sudo_password_same_as_ssh
    Values,         \* what users type
    Command,        \* what the configured command of a key prints, or NoVal
    TTLs,           \* lifetimes asked for
    DefaultTTL,
    NoFile,         \* no socket file
    Stale,          \* a socket file left by a process of an earlier day
    NoVal,
    MaxTicks,       \* bound: the clock
    MaxCommands,    \* bound: terminal commands begun and in-process values cached
    MaxLookups      \* bound: lookups begun

VARIABLES
    activated,      \* systemd owns the socket
    proc,           \* each agent process
    path,           \* whose socket the socket file is
    cache,          \* each agent's cache
    local,          \* the server's in-process caches
    client,         \* where each terminal command or lookup is
    ticks, begun,
    current,        \* history: what was set last and is neither cleared nor expired
    keeper,         \* history: the agent that took it
    saw             \* history: the agents that listened when this one probed

vars == <<activated, proc, path, cache, local, client, ticks, begun, current, keeper, saw>>
agentVars == <<activated, proc, path, saw>>

Keys == Kinds \X Names
Entry == [value : Values, left : Nat]

\* NoFile, Stale and NoVal stand for None, not for anything that is used.
ASSUME AgentAssumption ==
    /\ DefaultTTL \in Nat \ {0} /\ TTLs \subseteq Nat
    /\ Kinds \subseteq {"ssh", "passphrase", "sudo", "secret"}
    /\ SameAsSsh # {} => "sudo" \in Kinds
    /\ DOMAIN Command = Keys
    /\ NoVal \notin Values \cup Entry /\ {NoFile, Stale} \cap Agents = {}
    /\ {MaxTicks, MaxCommands, MaxLookups} \subseteq Nat

Live(e) == e # NoVal /\ e.left > 0
Empty == [k \in Keys |-> NoVal]
Listening(a) == a \in Agents /\ proc[a] = "serving"
Reachable(a) == Listening(a) /\ (activated \/ path = a)

\* at: connect, sent, answered, command (lookups) or done.  left: what a job
\* has still to ask for, a set of keys or kinds.  ok, must are history: what a
\* lookup may answer, and what it has to answer if nothing goes wrong.
Quiet == [at |-> "done", job |-> "none", key |-> <<>>, value |-> NoVal, ttl |-> 0,
          agent |-> NoFile, todo |-> {}, source |-> "none", ok |-> {}, must |-> NoVal]
Busy(c) == client[c].at # "done"

AgentTypeOK ==
    /\ proc \in [Agents -> {"off", "probed", "unlinked", "bound", "serving", "dead"}]
    /\ path \in Agents \cup {NoFile, Stale}
    /\ cache \in [Agents -> [Keys -> Entry \cup {NoVal}]]
    /\ \A a \in Agents : cache[a] # Empty => proc[a] \in {"serving", "dead"}
    /\ local \in [Keys -> Entry \cup {NoVal}]
    /\ \A c \in Clients :
         /\ client[c].at \in {"connect", "sent", "answered", "command", "done"}
         /\ client[c].agent \in Agents \cup {NoFile}
         /\ (client[c].at = "sent") => client[c].agent # NoFile
    /\ activated => Cardinality({a \in Agents : Listening(a)}) <= 1

-----------------------------------------------------------------------------
(* The life of an agent process *)

\* The socket unit starts the service for a waiting connection.
Activate(a) ==
    /\ activated /\ proc[a] = "off"
    /\ \E c \in Clients : client[c].at = "connect"
    /\ ~\E b \in Agents : Listening(b)
    /\ proc' = [proc EXCEPT ![a] = "serving"]
    /\ UNCHANGED <<activated, path, cache, local, client, ticks, begun, current, keeper, saw>>

\* _bind_socket, up to the probe: a socket that answers makes it give up.
\* Mutant: any existing socket file is taken for a stale one.
ProbeNothing(a) ==
    /\ ~activated /\ proc[a] = "off"
    /\ proc' = [proc EXCEPT ![a] = IF path = NoFile THEN "unlinked" ELSE "probed"]
    /\ saw' = [saw EXCEPT ![a] = IF proc'[a] = "probed" THEN {b \in Agents : Listening(b)} ELSE {}]
    /\ UNCHANGED <<activated, path, cache, local, client, ticks, begun, current, keeper>>
Probe(a) ==
    /\ ~activated /\ proc[a] = "off"
    /\ proc' = [proc EXCEPT ![a] = IF path = NoFile THEN "unlinked"
                                   ELSE IF Listening(path) THEN "dead" ELSE "probed"]
    /\ saw' = [saw EXCEPT ![a] = IF proc'[a] = "probed" THEN {b \in Agents : Listening(b)} ELSE {}]
    /\ UNCHANGED <<activated, path, cache, local, client, ticks, begun, current, keeper>>

\* A lookup owes nothing any more once agents come and go.
Excused(cs) == [c \in Clients |-> [cs[c] EXCEPT !.must = NoVal]]

Unlink(a) ==
    /\ proc[a] = "probed"
    /\ proc' = [proc EXCEPT ![a] = IF path = NoFile THEN "dead" ELSE "unlinked"]
    /\ path' = NoFile
    /\ saw' = [saw EXCEPT ![a] = {}]
    /\ client' = Excused(client)
    /\ UNCHANGED <<activated, cache, local, ticks, begun, current, keeper>>

Bind(a) ==
    /\ proc[a] = "unlinked"
    /\ IF path = NoFile THEN path' = a /\ proc' = [proc EXCEPT ![a] = "bound"]
       ELSE UNCHANGED path /\ proc' = [proc EXCEPT ![a] = "dead"]
    /\ UNCHANGED <<activated, cache, local, client, ticks, begun, current, keeper, saw>>

Listen(a) ==
    /\ proc[a] = "bound"
    /\ proc' = [proc EXCEPT ![a] = "serving"]
    /\ UNCHANGED <<activated, path, cache, local, client, ticks, begun, current, keeper, saw>>

\* The process ends, and its cache with it; the socket file stays.
Die(a) ==
    /\ proc[a] \in {"bound", "serving"}
    /\ proc' = [proc EXCEPT ![a] = "dead"]
    /\ cache' = [cache EXCEPT ![a] = Empty]
    /\ client' = Excused(client)
    /\ UNCHANGED <<activated, path, local, ticks, begun, current, keeper, saw>>

-----------------------------------------------------------------------------
(* Terminals *)

Starts(c, r) ==
    /\ ~Busy(c)
    /\ client' = [client EXCEPT ![c] = r]
    /\ UNCHANGED <<agentVars, cache, ticks, current, keeper>>

\* portal <kind> set|confirm, for a known host; portal <kind> show|clear|list;
\* portal agent status|clear.
Begin(c, job, k, v, ttl) ==
    /\ begun.commands < MaxCommands /\ begun' = [begun EXCEPT !.commands = @ + 1]
    /\ job \in {"show", "clear", "list", "status", "clearAll"} => v = NoVal /\ ttl = 0
    /\ job = "set" => v # NoVal
    /\ job \in {"status", "clearAll"} => k = CHOOSE first \in Keys : TRUE
    /\ Starts(c, [Quiet EXCEPT !.at = "connect", !.job = job, !.key = k, !.value = v,
                    !.ttl = ttl, !.todo = IF job = "clearAll" THEN Kinds \ {k[1]} ELSE {}])
    /\ UNCHANGED local

\* request: connect to whoever listens.
Send(c, a) ==
    /\ client[c].at = "connect" /\ Reachable(a)
    /\ client' = [client EXCEPT ![c].at = "sent", ![c].agent = a]
    /\ UNCHANGED <<agentVars, cache, local, ticks, begun, current, keeper>>

\* A set answered ok also seeds the sudo password of a host that shares it;
\* portal agent clear goes on with the next kind, whatever the answer.
Continue(r, answered) ==
    LET next == CHOOSE kind \in r.todo : TRUE
        sudoKey == <<"sudo", r.key[2]>>
    IN CASE r.job = "clearAll" /\ r.todo # {} ->
              [r EXCEPT !.at = "connect", !.key = <<next, @[2]>>, !.todo = @ \ {next}]
         [] r.job = "set" /\ answered /\ r.key[1] = "ssh" /\ r.key[2] \in SameAsSsh ->
              [r EXCEPT !.at = "connect", !.key = sudoKey]
         [] OTHER -> Quiet

Answered(c) ==
    /\ client[c].at = "answered" /\ client[c].job # "get"
    /\ client' = [client EXCEPT ![c] = Continue(@, TRUE)]
    /\ UNCHANGED <<agentVars, cache, local, ticks, begun, current, keeper>>

\* Nobody listens, the agent went away, or the answer takes too long.
Fails(c) ==
    /\ client[c].at \in {"connect", "sent", "answered"}
    /\ client[c].at = "connect" => ~\E a \in Agents : Reachable(a)
    /\ client' = [client EXCEPT ![c] =
                    IF @.job = "get" THEN [@ EXCEPT !.at = "command", !.agent = NoFile, !.must = NoVal]
                    ELSE Continue(@, FALSE)]
    /\ UNCHANGED <<agentVars, cache, local, ticks, begun, current, keeper>>

-----------------------------------------------------------------------------
(* CredentialAgent.dispatch *)

AnsweredBy(r) == [r EXCEPT !.at = "answered", !.agent = NoFile]
Purged(ch, ks) == [k \in Keys |-> IF k \in ks /\ ~Live(ch[k]) THEN NoVal ELSE ch[k]]

\* Lookups under way that a change of the keys ks may concern.
Noted(cs, ks, v, source) ==
    [d \in Clients |->
        IF cs[d].job = "get" /\ cs[d].at # "done" /\ cs[d].key \in ks
        THEN [cs[d] EXCEPT !.must = NoVal, !.ok = IF v = NoVal THEN @ ELSE @ \cup {<<source, v>>}]
        ELSE cs[d]]

\* _set: a TTL that is not positive is replaced by the default.
\* Mutant: the TTL asked for is taken as it comes, less the second it takes to arrive.
TTLAsAsked(ttl) == ttl - 1
SetLife(ttl) == IF ttl = 0 THEN DefaultTTL ELSE ttl
Set(c, a) ==
    LET r == client[c]
        e == [value |-> r.value, left |-> SetLife(r.ttl)]
    IN /\ r.job = "set"
       /\ cache' = [cache EXCEPT ![a][r.key] = e]
       /\ IF Reachable(a)
          THEN /\ current' = [current EXCEPT !["agent"][r.key] = e]
               /\ keeper' = [keeper EXCEPT ![r.key] = a]
          ELSE UNCHANGED <<current, keeper>>
       /\ client' = [Noted(client, {r.key}, r.value, "agent") EXCEPT ![c] = AnsweredBy(r)]

\* _clear: one key, or all keys of a kind.
Clear(c, a) ==
    LET r == client[c]
        ks == IF r.job = "clear" THEN {r.key} ELSE {k \in Keys : k[1] = r.key[1]}
        without(f) == [k \in Keys |-> IF k \in ks THEN NoVal ELSE f[k]]
    IN /\ r.job \in {"clear", "clearAll"}
       /\ cache' = [cache EXCEPT ![a] = without(@)]
       /\ current' = IF Reachable(a) THEN [current EXCEPT !["agent"] = without(@)] ELSE current
       /\ client' = [Noted(client, ks, NoVal, "agent") EXCEPT ![c] = AnsweredBy(r)]
       /\ keeper' = [k \in Keys |-> IF current'["agent"][k] = NoVal THEN NoFile ELSE keeper[k]]

\* _fingerprint looks at one key, _list at a kind, _status at everything; each
\* drops what it finds expired.
\* Mutant: _list forgets the expiry test before it drops an entry.
InspectDropping(c, a) ==
    LET r == client[c]
        ks == CASE r.job = "show" -> {r.key} [] r.job = "list" -> {k \in Keys : k[1] = r.key[1]}
                [] OTHER -> Keys
    IN /\ r.job \in {"show", "list", "status"}
       /\ cache' = [cache EXCEPT ![a] = [k \in Keys |-> IF k \in ks THEN NoVal ELSE @[k]]]
       /\ client' = [client EXCEPT ![c] = AnsweredBy(r)]
       /\ UNCHANGED <<current, keeper>>
Inspect(c, a) ==
    LET r == client[c]
        ks == CASE r.job = "show" -> {r.key} [] r.job = "list" -> {k \in Keys : k[1] = r.key[1]}
                [] OTHER -> Keys
    IN /\ r.job \in {"show", "list", "status"}
       /\ cache' = [cache EXCEPT ![a] = Purged(@, ks)]
       /\ client' = [client EXCEPT ![c] = AnsweredBy(r)]
       /\ UNCHANGED <<current, keeper>>

\* _get
\* Mutant: the expiry is not looked at.
GetExpired(c, a) ==
    LET e == cache[a][client[c].key]
    IN /\ client[c].job = "get"
       /\ client' = [client EXCEPT ![c] = [AnsweredBy(@) EXCEPT !.value =
                                             IF e # NoVal THEN e.value ELSE NoVal]]
       /\ UNCHANGED <<cache, current, keeper>>
Get(c, a) ==
    LET e == cache[a][client[c].key]
    IN /\ client[c].job = "get"
       /\ cache' = [cache EXCEPT ![a] = Purged(@, {client[c].key})]
       /\ client' = [client EXCEPT ![c] = [AnsweredBy(@) EXCEPT !.value =
                                             IF Live(e) THEN e.value ELSE NoVal]]
       /\ UNCHANGED <<current, keeper>>

Handle(c) ==
    /\ client[c].at = "sent" /\ Listening(client[c].agent)
    /\ \/ Set(c, client[c].agent) \/ Clear(c, client[c].agent)
       \/ Inspect(c, client[c].agent) \/ Get(c, client[c].agent)
    /\ UNCHANGED <<agentVars, local, ticks, begun>>

-----------------------------------------------------------------------------
(* Lookups of the server *)

\* resolve_sudo_password, resolve_secret, _resolve_ssh_password,
\* _resolve_ssh_passphrase: the in-process cache first.
Owed(k) == IF current["agent"][k] # NoVal /\ Reachable(keeper[k])
           THEN current["agent"][k].value ELSE NoVal
Found(r, v, source) == [Quiet EXCEPT !.job = "get", !.value = v, !.source = source,
                                     !.ok = r.ok, !.must = r.must]
Lookup(c, k) ==
    LET allowed == {<<s, current[s][k].value>> : s \in {t \in {"local", "agent"} : current[t][k] # NoVal}}
        r == [Quiet EXCEPT !.job = "get", !.key = k, !.ok = allowed]
    IN /\ begun.lookups < MaxLookups /\ begun' = [begun EXCEPT !.lookups = @ + 1]
       /\ local' = Purged(local, {k})
       /\ Starts(c, IF Live(local[k]) THEN Found(r, local[k].value, "local")
                    ELSE [r EXCEPT !.at = "connect", !.must = Owed(k)])

Fetched(c) ==
    LET r == client[c]
    IN /\ r.at = "answered" /\ r.job = "get"
       /\ client' = [client EXCEPT ![c] =
                       IF r.value # NoVal THEN Found(r, r.value, "agent")
                       ELSE [r EXCEPT !.at = "command"]]
       /\ UNCHANGED <<agentVars, cache, local, ticks, begun, current, keeper>>

\* The command is run; it may fail, which only sudo hides.
RunCommand(c, fails) ==
    LET r == client[c]
        v == Command[r.key]
        outcome == IF v = NoVal THEN "none"
                   ELSE IF fails THEN (IF r.key[1] = "sudo" THEN "none" ELSE "raised")
                   ELSE "command"
    IN /\ r.at = "command"
       /\ client' = [client EXCEPT ![c] = Found(r, IF outcome = "command" THEN v ELSE NoVal, outcome)]
       /\ UNCHANGED <<agentVars, cache, local, ticks, begun, current, keeper>>

\* cache_sudo_password and its siblings, called by a program that embeds the
\* server; clear_sudo_password and its siblings.
CacheLocally(k, v) ==
    LET e == IF v = NoVal THEN NoVal ELSE [value |-> v, left |-> DefaultTTL]
    IN /\ begun.commands < MaxCommands /\ begun' = [begun EXCEPT !.commands = @ + 1]
       /\ local' = [local EXCEPT ![k] = e]
       /\ current' = [current EXCEPT !["local"][k] = e]
       /\ client' = Noted(client, {k}, v, "local")
       /\ UNCHANGED <<agentVars, cache, ticks, keeper>>

-----------------------------------------------------------------------------

Aged(f) == [k \in Keys |-> IF Live(f[k]) THEN [f[k] EXCEPT !.left = @ - 1] ELSE f[k]]
Tick ==
    LET aged == [s \in {"agent", "local"} |->
                   [k \in Keys |-> IF Live(Aged(current[s])[k]) THEN Aged(current[s])[k] ELSE NoVal]]
    IN /\ ticks < MaxTicks /\ ticks' = ticks + 1
       /\ cache' = [a \in Agents |-> Aged(cache[a])]
       /\ local' = Aged(local)
       /\ current' = aged
       /\ keeper' = [k \in Keys |-> IF aged["agent"][k] = NoVal THEN NoFile ELSE keeper[k]]
       /\ client' = Noted(client, {k \in Keys : aged["agent"][k] = NoVal}, NoVal, "agent")
       /\ UNCHANGED <<agentVars, begun>>

Init ==
    /\ activated \in BOOLEAN
    /\ proc = [a \in Agents |-> "off"]
    /\ path \in IF activated THEN {NoFile} ELSE {NoFile, Stale}
    /\ cache = [a \in Agents |-> Empty]
    /\ local = Empty
    /\ client = [c \in Clients |-> Quiet]
    /\ ticks = 0 /\ begun = [commands |-> 0, lookups |-> 0]
    /\ current = [s \in {"agent", "local"} |-> Empty]
    /\ keeper = [k \in Keys |-> NoFile]
    /\ saw = [a \in Agents |-> {}]

Next ==
    \/ \E a \in Agents :
         Activate(a) \/ Probe(a) \/ Unlink(a) \/ Bind(a) \/ Listen(a) \/ Die(a)
    \/ \E c \in Clients :
         \/ \E job \in {"set", "show", "clear", "list", "status", "clearAll"}, k \in Keys,
               v \in Values \cup {NoVal}, ttl \in TTLs \cup {0} : Begin(c, job, k, v, ttl)
         \/ \E a \in Agents : Send(c, a)
         \/ Handle(c) \/ Answered(c) \/ Fails(c)
         \/ \E k \in Keys : Lookup(c, k)
         \/ Fetched(c)
         \/ \E fails \in BOOLEAN : RunCommand(c, fails)
    \/ \E k \in Keys, v \in Values \cup {NoVal} : CacheLocally(k, v)
    \/ Tick

Spec == Init /\ [][Next]_vars

-----------------------------------------------------------------------------
(* Properties *)

\* A credential a lookup answers with was, at some instant since the lookup
\* began, the one set last in the place it comes from, neither cleared nor
\* expired: no answer of an agent that was overtaken, restarted or asked late
\* brings an old password back (resolve_sudo_password, _get).
FreshCredential ==
    \A c \in Clients :
        (client[c].job = "get" /\ client[c].at = "done" /\ client[c].source \in {"local", "agent"})
            => <<client[c].source, client[c].value>> \in client[c].ok

\* A lookup that starts after a set was applied answers with it, if meanwhile
\* it was neither replaced, cleared nor expired, no agent went or took the
\* path, and the request itself went through: listing and showing credentials,
\* expired neighbours and other kinds take nothing away (_list, _status).
ReadYourWrites ==
    \A c \in Clients :
        (client[c].job = "get" /\ client[c].at = "done" /\ client[c].must # NoVal)
            => client[c].value = client[c].must

\* The socket file of an agent that listened when another process probed it
\* is never taken away by that process: only starts that overlap can leave a
\* running agent, and the credentials it holds, out of reach (_bind_socket).
NoTakeover ==
    [][\A a, b \in Agents : (Listening(a) /\ path = a /\ path' # a /\ proc[b] # proc'[b])
          => a \notin saw[b]]_vars
=============================================================================
