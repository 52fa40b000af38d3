------------------------ MODULE CredentialAgentProofs ------------------------
(***************************************************************************)
(* Proofs about CredentialAgent: typing, that a lookup answers with a      *)
(* credential that was current while it ran and with the one it owes, and  *)
(* that a probed agent keeps its socket.                                   *)
(***************************************************************************)
EXTENDS CredentialAgent, FiniteSetTheorems, TLAPS

Places == {"off", "probed", "unlinked", "bound", "serving", "dead"}
Jobs == {"set", "show", "clear", "list", "status", "clearAll", "get"}
Outputs == Values \cup {NoVal} \cup {Command[k] : k \in Keys}
Sources == {"none", "local", "agent", "command", "raised"}
Answers == {"local", "agent"} \X Outputs
Caches == [Keys -> Entry \cup {NoVal}]
Request == [at : {"connect", "sent", "answered", "command", "done"}, job : Jobs \cup {"none"},
            key : Keys \cup {<<>>}, value : Outputs, ttl : TTLs \cup {0}, agent : Agents \cup {NoFile},
            todo : SUBSET Kinds, source : Sources,
            ok : SUBSET Answers, must : Values \cup {NoVal}]

Typed ==
    /\ activated \in BOOLEAN
    /\ proc \in [Agents -> Places]
    /\ path \in Agents \cup {NoFile, Stale}
    /\ cache \in [Agents -> Caches]
    /\ local \in Caches
    /\ current \in [{"agent", "local"} -> Caches]
    /\ keeper \in [Keys -> Agents \cup {NoFile}]
    /\ saw \in [Agents -> SUBSET Agents]
    /\ client \in [Clients -> Request]

\* The inductive invariant.  Agents: systemd has one of them serve at a time;
\* one that was seen listening has had its socket file and never gets it
\* back; and only one that serves has a cache.
OneActivated ==
    activated => /\ \A a \in Agents : proc[a] \in {"off", "serving", "dead"}
                 /\ \A a, b \in Agents : Listening(a) /\ Listening(b) => a = b
Seen == \A a, b \in Agents : a \in saw[b] => proc[a] \in {"serving", "dead"} /\ path # a
Held == \A a \in Agents : proc[a] # "serving" => cache[a] = Empty

\* What is live in a cache that is read is what was set last; and what was
\* set last is in the cache of its keeper for as long as that is reachable.
Lasting == \A s \in {"agent", "local"}, k \in Keys : current[s][k] # NoVal => Live(current[s][k])
LocalCurrent == \A k \in Keys : Live(local[k]) => current["local"][k] = local[k]
AgentCurrent == \A a \in Agents, k \in Keys :
                    Reachable(a) /\ Live(cache[a][k]) => current["agent"][k] = cache[a][k]
KeeperServed == \A k \in Keys : keeper[k] # NoFile => proc[keeper[k]] \in {"serving", "dead"}
KeeperHolds == \A k \in Keys : (current["agent"][k] # NoVal /\ Reachable(keeper[k]))
                                   => cache[keeper[k]][k] = current["agent"][k]

\* A request under way, what it may answer and what it has to.
Requested(c) ==
    LET r == client[c]
    IN  r.at # "done" =>
            /\ r.key \in Keys /\ r.job \in Jobs
            /\ r.job = "set" => r.value \in Values
            /\ r.at = "sent" => r.agent \in Agents
            /\ r.at = "command" => r.job = "get"
Allowed(c) ==
    LET r == client[c]
    IN  r.job = "get" =>
            /\ r.at = "connect" /\ current["agent"][r.key] # NoVal
                   => <<"agent", current["agent"][r.key].value>> \in r.ok
            /\ r.at = "sent" /\ Live(cache[r.agent][r.key])
                   => <<"agent", cache[r.agent][r.key].value>> \in r.ok
            /\ r.at = "answered" /\ r.value # NoVal => <<"agent", r.value>> \in r.ok
            /\ r.at = "done" /\ r.source \in {"local", "agent"} => <<r.source, r.value>> \in r.ok
Owing(c) ==
    LET r == client[c]
    IN  r.job = "get" /\ r.must # NoVal =>
            /\ r.at \in {"connect", "sent"} =>
                   /\ current["agent"][r.key] # NoVal /\ current["agent"][r.key].value = r.must
                   /\ Reachable(keeper[r.key])
                   /\ r.at = "sent" => r.agent = keeper[r.key]
            /\ r.at \in {"answered", "done"} => r.value = r.must
            /\ r.at # "command"

IInv ==
    /\ Typed /\ OneActivated /\ Seen /\ Held
    /\ Lasting /\ LocalCurrent /\ AgentCurrent /\ KeeperServed /\ KeeperHolds
    /\ \A c \in Clients : Requested(c) /\ Allowed(c) /\ Owing(c)

-----------------------------------------------------------------------------
(* Agent processes *)

ProcessStep == \E a \in Agents :
    Activate(a) \/ Probe(a) \/ Unlink(a) \/ Bind(a) \/ Listen(a) \/ Die(a)

\* Everything else leaves the processes and their socket alone.
LEMMA OtherSteps ==
    ASSUME Next, ~ProcessStep
    PROVE  UNCHANGED agentVars
  <1>1. ASSUME NEW c \in Clients, NEW job, NEW k, NEW v, NEW ttl, Begin(c, job, k, v, ttl)
        PROVE  UNCHANGED agentVars
    BY <1>1 DEF Begin, Starts
  <1>2. ASSUME NEW c \in Clients, \/ \E a \in Agents : Send(c, a)
                                  \/ Handle(c) \/ Answered(c) \/ Fails(c) \/ Fetched(c)
        PROVE  UNCHANGED agentVars
    BY <1>2 DEF Send, Handle, Answered, Fails, Fetched
  <1>3. ASSUME NEW c \in Clients, NEW k \in Keys, Lookup(c, k) PROVE UNCHANGED agentVars
    BY <1>3 DEF Lookup, Starts
  <1>4. ASSUME NEW c \in Clients, NEW fails \in BOOLEAN, RunCommand(c, fails) PROVE UNCHANGED agentVars
    BY <1>4 DEF RunCommand
  <1>5. ASSUME (\E k \in Keys, v \in Values \cup {NoVal} : CacheLocally(k, v)) \/ Tick
        PROVE  UNCHANGED agentVars
    BY <1>5 DEF CacheLocally, Tick
  <1> QED
    BY <1>1, <1>2, <1>3, <1>4, <1>5 DEF Next, ProcessStep

\* What a process step does to the processes and to the path.
Proceeds ==
    /\ activated' = activated
    /\ proc' \in [Agents -> Places] /\ path' \in Agents \cup {NoFile, Stale}
    /\ saw' \in [Agents -> SUBSET Agents]
    /\ OneActivated' /\ Seen'
    /\ \A b \in Agents : /\ proc[b] = "serving" => proc'[b] \in {"serving", "dead"}
                         /\ proc[b] = "dead" => proc'[b] = "dead"
    \* a process that becomes reachable has only begun to serve
    /\ \A b \in Agents : Reachable(b)' /\ ~Reachable(b) => proc[b] # "serving"

\* What agents starting, stopping and taking the socket do to caches and requests.
LEMMA ProcessFacts ==
    ASSUME Typed, OneActivated, Seen, ProcessStep
    PROVE  Proceeds /\ UNCHANGED <<local, current, keeper>>
  <1> USE DEF Listening, Reachable, Places, Proceeds
  <1>1. ASSUME NEW a \in Agents, Activate(a)
        PROVE  Proceeds
    BY <1>1 DEF Activate, Typed, OneActivated, Seen
  <1>2. ASSUME NEW a \in Agents, Probe(a)
        PROVE  Proceeds
    <2>1. /\ ~activated /\ activated' = activated /\ path' = path /\ proc[a] = "off"
          /\ proc' = [proc EXCEPT ![a] = IF path = NoFile THEN "unlinked"
                                         ELSE IF Listening(path) THEN "dead" ELSE "probed"]
          /\ saw' = [saw EXCEPT ![a] = IF proc'[a] = "probed" THEN {b \in Agents : Listening(b)} ELSE {}]
      BY <1>2 DEF Probe
    <2>2. proc' \in [Agents -> Places] /\ saw' \in [Agents -> SUBSET Agents]
      BY <2>1 DEF Typed
    <2>3. saw'[a] # {} => ~Listening(path)
      BY <2>1 DEF Typed
    <2>4. Seen'
      BY <2>1, <2>3 DEF Seen, Typed
    <2> QED
      BY <2>1, <2>2, <2>4 DEF Typed, OneActivated
  <1>3. ASSUME NEW a \in Agents, Unlink(a)
        PROVE  Proceeds
    <2>1. /\ proc[a] = "probed" /\ activated' = activated /\ path' = NoFile /\ NoFile \notin Agents
          /\ proc' = [proc EXCEPT ![a] = IF path = NoFile THEN "dead" ELSE "unlinked"]
          /\ saw' = [saw EXCEPT ![a] = {}]
      BY <1>3, AgentAssumption DEF Unlink
    <2>2. proc' \in [Agents -> Places] /\ saw' \in [Agents -> SUBSET Agents]
      BY <2>1 DEF Typed
    <2>3. Seen'
      BY <2>1 DEF Seen, Typed
    <2> QED
      BY <2>1, <2>2, <2>3 DEF Typed, OneActivated
  <1>4. ASSUME NEW a \in Agents, Bind(a)
        PROVE  Proceeds
    <2>1. /\ proc[a] = "unlinked" /\ activated' = activated /\ saw' = saw
          /\ \/ path' = a /\ proc' = [proc EXCEPT ![a] = "bound"]
             \/ path' = path /\ proc' = [proc EXCEPT ![a] = "dead"]
      BY <1>4 DEF Bind
    <2>2. proc' \in [Agents -> Places]
      BY <2>1 DEF Typed
    <2>3. Seen'
      BY <2>1 DEF Seen, Typed
    <2> QED
      BY <2>1, <2>2, <2>3 DEF Typed, OneActivated
  <1>5. ASSUME NEW a \in Agents, Listen(a) \/ Die(a)
        PROVE  Proceeds
    <2>1. /\ activated' = activated /\ saw' = saw /\ path' = path
          /\ \/ proc[a] = "bound" /\ proc' = [proc EXCEPT ![a] = "serving"]
             \/ proc[a] \in {"bound", "serving"} /\ proc' = [proc EXCEPT ![a] = "dead"]
      BY <1>5 DEF Listen, Die
    <2>2. proc' \in [Agents -> Places]
      BY <2>1 DEF Typed
    <2>3. Seen'
      BY <2>1 DEF Seen, Typed
    <2>4. OneActivated'
      BY <2>1 DEF OneActivated, Typed
    <2> QED
      BY <2>1, <2>2, <2>3, <2>4 DEF Typed
  <1>6. local' = local /\ current' = current /\ keeper' = keeper
    BY DEF ProcessStep, Activate, Probe, Unlink, Bind, Listen, Die
  <1> HIDE DEF Proceeds
  <1> QED
    BY <1>1, <1>2, <1>3, <1>4, <1>5, <1>6 DEF ProcessStep

-----------------------------------------------------------------------------
(* Requests *)

\* The same request, which may answer more and owe less.
Follows(r, s) ==
    /\ s \in Request
    /\ s.at = r.at /\ s.job = r.job /\ s.key = r.key /\ s.value = r.value
    /\ s.agent = r.agent /\ s.source = r.source
    /\ r.ok \subseteq s.ok /\ s.must \in {r.must, NoVal}

\* A request that is left alone follows itself.
LEMMA FollowsItself ==
    ASSUME NEW r \in Request
    PROVE  Follows(r, r)
  BY DEF Follows

\* The request of a client that does nothing is a request that is done.
LEMMA QuietTyped ==
    Quiet \in Request /\ Quiet.at = "done" /\ Quiet.job = "none"
  BY DEF Quiet, Request, Outputs, Sources

\* A request that is excused owes nothing; the rest of it stays.
LEMMA ExcusedFacts ==
    ASSUME Typed, NEW c \in Clients
    PROVE  Follows(client[c], Excused(client)[c]) /\ Excused(client)[c].must = NoVal
  <1>1. client[c] \in Request /\ Excused(client)[c] = [client[c] EXCEPT !.must = NoVal]
    BY DEF Typed, Excused
  <1> QED
    BY <1>1 DEF Follows, Request

Concerns(r, ks) == r.job = "get" /\ r.at # "done" /\ r.key \in ks

\* A change of the credential under ks is allowed to answer the requests about ks.
LEMMA NotedFacts ==
    ASSUME Typed, NEW c \in Clients, NEW ks, NEW v \in Values \cup {NoVal},
           NEW source \in {"local", "agent"}
    PROVE  LET r == client[c]
               s == Noted(client, ks, v, source)[c]
           IN  /\ Follows(r, s)
               /\ Concerns(r, ks) => s.must = NoVal /\ (v # NoVal => <<source, v>> \in s.ok)
  <1> DEFINE r == client[c]
             s == Noted(client, ks, v, source)[c]
             ok == IF v = NoVal THEN r.ok ELSE r.ok \cup {<<source, v>>}
  <1>1. r \in Request
    BY DEF Typed
  <1>2. s = IF Concerns(r, ks) THEN [r EXCEPT !.must = NoVal, !.ok = ok] ELSE r
    BY DEF Noted, Concerns
  <1>3. ok \in SUBSET Answers
    BY <1>1 DEF Request, Outputs, Answers
  <1>4. r.ok \subseteq ok /\ (v # NoVal => <<source, v>> \in ok)
    OBVIOUS
  <1> SUFFICES /\ Follows(r, s)
               /\ Concerns(r, ks) => s.must = NoVal /\ (v # NoVal => <<source, v>> \in s.ok)
    OBVIOUS
  <1> HIDE DEF r, s, ok
  <1>5. CASE Concerns(r, ks)
    <2>1. s \in Request
      BY <1>1, <1>2, <1>3, <1>5 DEF Request
    <2> QED
      BY <1>1, <1>2, <1>4, <1>5, <2>1 DEF Follows, Request
  <1>6. CASE ~Concerns(r, ks)
    BY <1>1, <1>2, <1>6 DEF Follows
  <1> QED
    BY <1>5, <1>6

\* The answer of the agent.
LEMMA AnsweredByFacts ==
    ASSUME NEW r \in Request
    PROVE  LET s == AnsweredBy(r)
           IN  /\ s \in Request /\ s.at = "answered"
               /\ s.job = r.job /\ s.key = r.key /\ s.value = r.value
               /\ s.ok = r.ok /\ s.must = r.must
  BY DEF AnsweredBy, Request

\* The request of a lookup that has its answer.
LEMMA FoundFacts ==
    ASSUME NEW r \in Request, NEW v \in Outputs,
           NEW source \in Sources
    PROVE  LET s == Found(r, v, source)
           IN  /\ s \in Request /\ s.at = "done" /\ s.job = "get"
               /\ s.value = v /\ s.source = source /\ s.ok = r.ok /\ s.must = r.must
  <1>1. r.ok \in SUBSET Answers /\ r.must \in Values \cup {NoVal} /\ "get" \in Jobs
    BY DEF Request, Jobs
  <1> DEFINE q == Quiet
             ok == r.ok
             must == r.must
             s == [q EXCEPT !.job = "get", !.value = v, !.source = source, !.ok = ok, !.must = must]
  <1>2. q \in Request /\ q.at = "done" /\ Found(r, v, source) = s
    BY QuietTyped DEF Found
  <1>3. ok \in SUBSET Answers /\ must \in Values \cup {NoVal}
    BY <1>1
  <1> HIDE DEF q, ok, must
  <1>4. s \in Request
    BY <1>1, <1>2, <1>3 DEF Request
  <1>5. s.at = "done" /\ s.job = "get" /\ s.value = v
    BY <1>2 DEF Request
  <1>6. s.source = source /\ s.ok = ok /\ s.must = must
    BY <1>2 DEF Request
  <1> QED
    BY <1>2, <1>4, <1>5, <1>6 DEF ok, must

\* A terminal command goes on with another key or ends.
LEMMA ContinueFacts ==
    ASSUME NEW r \in Request, r.key \in Keys, r.job \in Jobs \ {"get"}, NEW answered \in BOOLEAN
    PROVE  LET s == Continue(r, answered)
           IN  /\ s \in Request /\ s.at \in {"connect", "done"} /\ s.job # "get"
               /\ s.at # "done" => s.key \in Keys /\ s.job = r.job /\ s.value = r.value
  <1> DEFINE next == CHOOSE kind \in r.todo : TRUE
             sudoKey == <<"sudo", r.key[2]>>
  <1>1. CASE r.job = "clearAll" /\ r.todo # {}
    <2>1. next \in r.todo
      BY <1>1
    <2>2. next \in Kinds
      BY <2>1 DEF Request
    <2>3. r.key[2] \in Names
      BY DEF Keys
    <2>4. Continue(r, answered)
            = [r EXCEPT !.at = "connect", !.key = <<next, r.key[2]>>, !.todo = r.todo \ {next}]
      <3>1. Continue(r, answered)
              = [r EXCEPT !.at = "connect", !.key = <<next, @[2]>>, !.todo = @ \ {next}]
        BY <1>1 DEF Continue
      <3> HIDE DEF next
      <3> QED
        BY <3>1 DEF Request
    <2> HIDE DEF next
    <2>5. <<next, r.key[2]>> \in Keys /\ r.todo \ {next} \in SUBSET Kinds
      BY <2>2, <2>3 DEF Keys, Request
    <2> QED
      BY <1>1, <2>4, <2>5 DEF Request, Jobs
  <1>2. CASE ~(r.job = "clearAll" /\ r.todo # {}) /\ r.job = "set" /\ answered /\ r.key[1] = "ssh"
             /\ r.key[2] \in SameAsSsh
    <2>1. sudoKey \in Keys
      BY <1>2, AgentAssumption DEF Keys
    <2>2. Continue(r, answered) = [r EXCEPT !.at = "connect", !.key = sudoKey]
      BY <1>2 DEF Continue
    <2> HIDE DEF sudoKey
    <2> QED
      BY <2>1, <2>2 DEF Request, Jobs
  <1>3. CASE ~(r.job = "clearAll" /\ r.todo # {})
             /\ ~(r.job = "set" /\ answered /\ r.key[1] = "ssh" /\ r.key[2] \in SameAsSsh)
    <2>1. Continue(r, answered) = Quiet
      BY <1>3 DEF Continue
    <2> QED
      BY <2>1, QuietTyped
  <1> QED
    BY <1>1, <1>2, <1>3

-----------------------------------------------------------------------------
(* A request that others act around *)

ClientOK(c) == Requested(c) /\ Allowed(c) /\ Owing(c)
ReachableNext(a) == a \in Agents /\ proc'[a] = "serving" /\ (activated' \/ path' = a)

\* What is current, or in the caches, is no more than before ...
Fewer ==
    /\ \A k \in Keys : current'["agent"][k] # NoVal =>
          current["agent"][k] # NoVal /\ current'["agent"][k].value = current["agent"][k].value
    /\ \A a \in Agents, k \in Keys : Live(cache'[a][k]) =>
          Live(cache[a][k]) /\ cache'[a][k].value = cache[a][k].value
\* ... and no less for this key.
Steady(k) ==
    current["agent"][k] # NoVal =>
        /\ current'["agent"][k] # NoVal
        /\ current'["agent"][k].value = current["agent"][k].value
        /\ keeper'[k] = keeper[k]
        /\ Reachable(keeper[k]) => ReachableNext(keeper[k])

StillAllowed(c) ==
    LET r == client[c]
        ok == client'[c].ok
    IN  r.job = "get" =>
            /\ r.at = "connect" /\ current'["agent"][r.key] # NoVal
                   => <<"agent", current'["agent"][r.key].value>> \in ok
            /\ r.at = "sent" /\ Live(cache'[r.agent][r.key])
                   => <<"agent", cache'[r.agent][r.key].value>> \in ok

\* A step that only takes credentials away invalidates no answer.
LEMMA FewerAllowed ==
    ASSUME Typed, NEW c \in Clients, ClientOK(c), Fewer, Follows(client[c], client'[c])
    PROVE  StillAllowed(c)
  <1> DEFINE r == client[c]
             ok == client'[c].ok
  <1>1. r.ok \subseteq ok /\ (r.at # "done" => r.key \in Keys) /\ (r.at = "sent" => r.agent \in Agents)
    BY DEF ClientOK, Requested, Follows
  <1>2. ASSUME r.job = "get", r.at = "connect", current'["agent"][r.key] # NoVal
        PROVE  <<"agent", current'["agent"][r.key].value>> \in ok
    <2>1. /\ current["agent"][r.key] # NoVal
          /\ current'["agent"][r.key].value = current["agent"][r.key].value
      BY <1>1, <1>2 DEF Fewer
    <2> QED
      BY <1>1, <1>2, <2>1 DEF ClientOK, Allowed
  <1>3. ASSUME r.job = "get", r.at = "sent", Live(cache'[r.agent][r.key])
        PROVE  <<"agent", cache'[r.agent][r.key].value>> \in ok
    <2>1. /\ Live(cache[r.agent][r.key])
          /\ cache'[r.agent][r.key].value = cache[r.agent][r.key].value
      BY <1>1, <1>3 DEF Fewer
    <2> QED
      BY <1>1, <1>3, <2>1 DEF ClientOK, Allowed
  <1> QED
    BY <1>2, <1>3 DEF StillAllowed

\* A request keeps its conditions when what it must find stays where it was.
LEMMA ClientStays ==
    ASSUME Typed, NEW c \in Clients, ClientOK(c), Follows(client[c], client'[c]), StillAllowed(c),
           \/ client'[c].must = NoVal
           \/ client[c].job = "get" /\ client[c].at \in {"connect", "sent"} => Steady(client[c].key)
    PROVE  ClientOK(c)'
  <1> DEFINE r == client[c]
             s == client'[c]
  <1>1. /\ s.at = r.at /\ s.job = r.job /\ s.key = r.key /\ s.value = r.value
        /\ s.agent = r.agent /\ s.source = r.source /\ r.ok \subseteq s.ok /\ s.must \in {r.must, NoVal}
    BY DEF Follows
  <1>2. Requested(c)'
    BY <1>1 DEF ClientOK, Requested
  <1>3. Allowed(c)'
    <2>1. /\ r.job = "get" /\ r.at = "answered" /\ r.value # NoVal => <<"agent", r.value>> \in r.ok
          /\ r.job = "get" /\ r.at = "done" /\ r.source \in {"local", "agent"}
               => <<r.source, r.value>> \in r.ok
      BY DEF ClientOK, Allowed
    <2>2. s.job = "get" =>
            /\ s.at = "connect" /\ current'["agent"][s.key] # NoVal
                   => <<"agent", current'["agent"][s.key].value>> \in s.ok
            /\ s.at = "sent" /\ Live(cache'[s.agent][s.key])
                   => <<"agent", cache'[s.agent][s.key].value>> \in s.ok
      BY <1>1 DEF StillAllowed
    <2> QED
      BY <1>1, <2>1, <2>2 DEF Allowed
  <1>4. Owing(c)'
    <2>1. CASE s.must = NoVal
      BY <2>1 DEF Owing
    <2>2. CASE s.must # NoVal /\ s.job = "get"
      <3>1. s.must = r.must /\ r.must # NoVal
        BY <1>1, <2>2
      <3>2. /\ r.at \in {"answered", "done"} => r.value = r.must
            /\ r.at # "command"
        BY <1>1, <2>2, <3>1 DEF ClientOK, Owing
      <3>3. ASSUME r.at \in {"connect", "sent"}
            PROVE  /\ current'["agent"][r.key] # NoVal /\ current'["agent"][r.key].value = r.must
                   /\ ReachableNext(keeper'[r.key])
                   /\ r.at = "sent" => r.agent = keeper'[r.key]
        BY <1>1, <2>2, <3>1, <3>3 DEF ClientOK, Owing, Steady
      <3> QED
        BY <1>1, <3>1, <3>2, <3>3 DEF Owing, Reachable, ReachableNext, Listening
    <2>3. CASE s.job # "get"
      BY <2>3 DEF Owing
    <2> QED
      BY <2>1, <2>2, <2>3
  <1> QED
    BY <1>2, <1>3, <1>4 DEF ClientOK

\* Nothing has changed for a request.
LEMMA ClientLeft ==
    ASSUME Typed, NEW c \in Clients, ClientOK(c), client'[c] = client[c],
           UNCHANGED <<agentVars, cache, current, keeper>>
    PROVE  ClientOK(c)'
  <1>1. Follows(client[c], client'[c])
    BY FollowsItself DEF Typed
  <1>2. Fewer
    BY DEF Fewer
  <1>3. Steady(client[c].key)
    BY DEF Steady, agentVars, Reachable, ReachableNext, Listening
  <1> QED
    BY <1>1, <1>2, <1>3, FewerAllowed, ClientStays

-----------------------------------------------------------------------------
(* The steps of the processes *)

\* Steps of the agent processes keep the invariant.
LEMMA ProcessStepOK ==
    ASSUME IInv, ProcessStep
    PROVE  IInv'
  <1>0. Typed /\ OneActivated /\ Seen /\ Proceeds /\ UNCHANGED <<local, current, keeper>>
    BY ProcessFacts DEF IInv
  <1> USE DEF Proceeds
  <1>1. PICK a \in Agents : Activate(a) \/ Probe(a) \/ Unlink(a) \/ Bind(a) \/ Listen(a) \/ Die(a)
    BY DEF ProcessStep
  <1>2. \/ cache' = cache
        \/ cache' = [cache EXCEPT ![a] = Empty] /\ proc'[a] = "dead"
    BY <1>0, <1>1 DEF Activate, Probe, Unlink, Bind, Listen, Die, Typed
  <1>3. \A b \in Agents : cache'[b] = cache[b] \/ (cache'[b] = Empty /\ proc'[b] = "dead")
    BY <1>0, <1>2 DEF Typed
  <1>4. \A k \in Keys : Empty[k] = NoVal /\ ~Live(Empty[k])
    BY DEF Empty, Live
  <1>5. Held'
    <2>1. ASSUME NEW b \in Agents, proc'[b] # "serving" PROVE cache'[b] = Empty
      <3>1. CASE proc[b] # "serving"
        BY <1>3, <3>1 DEF IInv, Held
      <3>2. CASE proc[b] = "serving"
        <4>1. Die(a) /\ b = a
          BY <1>0, <1>1, <2>1, <3>2 DEF Activate, Probe, Unlink, Bind, Listen, Die, Typed
        <4> QED
          BY <1>0, <4>1 DEF Die, Typed
      <3> QED
        BY <3>1, <3>2
    <2> QED
      BY <2>1 DEF Held
  <1>6. AgentCurrent'
    <2>1. ASSUME NEW b \in Agents, NEW k \in Keys, Reachable(b)', Live(cache'[b][k])
          PROVE  current'["agent"][k] = cache'[b][k]
      <3>1. cache'[b] = cache[b] /\ cache[b] # Empty
        BY <1>3, <1>4, <2>1
      <3>2. Reachable(b)
        BY <1>0, <2>1, <3>1 DEF IInv, Held
      <3> QED
        BY <1>0, <2>1, <3>1, <3>2 DEF IInv, AgentCurrent
    <2> QED
      BY <2>1 DEF AgentCurrent
  <1>7. KeeperServed'
    BY <1>0 DEF IInv, KeeperServed, Typed
  <1>8. KeeperHolds'
    <2>1. ASSUME NEW k \in Keys, current'["agent"][k] # NoVal, Reachable(keeper[k])'
          PROVE  cache'[keeper'[k]][k] = current'["agent"][k]
      <3>1. keeper' = keeper /\ current' = current
        BY <1>0
      <3>2. PICK b \in Agents : b = keeper[k] /\ proc'[b] = "serving" /\ Reachable(b)'
        BY <2>1, <3>1 DEF Reachable, Listening
      <3>3. proc[b] = "serving"
        BY <1>0, <3>2, AgentAssumption DEF IInv, KeeperServed
      <3>4. Reachable(b)
        BY <1>0, <3>2, <3>3
      <3>5. cache'[b] = cache[b]
        BY <1>3, <3>2
      <3> QED
        BY <2>1, <3>1, <3>2, <3>4, <3>5 DEF IInv, KeeperHolds
    <2> QED
      BY <2>1 DEF KeeperHolds
  <1>9. Lasting' /\ LocalCurrent'
    BY <1>0 DEF IInv, Lasting, LocalCurrent
  <1>10. Fewer
    BY <1>0, <1>3, <1>4 DEF Fewer
  \* Whoever loses an agent owes nothing.
  <1>11. ASSUME Unlink(a) \/ Die(a)
         PROVE  client' \in [Clients -> Request] /\ \A c \in Clients : ClientOK(c)'
    <2>1. client' = Excused(client)
      BY <1>11 DEF Unlink, Die
    <2>2. ASSUME NEW c \in Clients PROVE ClientOK(c)' /\ client'[c] \in Request
      <3>1. ClientOK(c)
        BY DEF IInv, ClientOK
      <3>2. Follows(client[c], client'[c]) /\ client'[c].must = NoVal
        BY <1>0, <2>1, ExcusedFacts
      <3> QED
        BY <1>0, <1>10, <3>1, <3>2, FewerAllowed, ClientStays DEF Follows
    <2>3. client' \in [Clients -> Request]
      BY <2>1, <2>2 DEF Excused
    <2> QED
      BY <2>2, <2>3 DEF ClientOK
  <1>12. ASSUME Activate(a) \/ Probe(a) \/ Bind(a) \/ Listen(a)
         PROVE  client' \in [Clients -> Request] /\ \A c \in Clients : ClientOK(c)'
    <2>1. client' = client
      BY <1>12 DEF Activate, Probe, Bind, Listen
    <2>2. \A b \in Agents : Reachable(b) => ReachableNext(b)
      BY <1>0, <1>12, AgentAssumption
         DEF Reachable, ReachableNext, Listening, Activate, Probe, Bind, Listen, Typed
    <2>3. \A k \in Keys : Steady(k)
      BY <1>0, <2>2 DEF Steady, Reachable, Listening
    <2>4. ASSUME NEW c \in Clients PROVE ClientOK(c)'
      <3>1. ClientOK(c) /\ Follows(client[c], client'[c])
        BY <1>0, <2>1, FollowsItself DEF IInv, ClientOK, Typed
      <3>2. client[c].at \in {"connect", "sent"} => Steady(client[c].key)
        BY <2>3, <3>1 DEF ClientOK, Requested
      <3> QED
        BY <1>0, <1>10, <3>1, <3>2, FewerAllowed, ClientStays
    <2> QED
      BY <1>0, <2>1, <2>4 DEF ClientOK, Typed
  <1>13. client' \in [Clients -> Request] /\ \A c \in Clients : ClientOK(c)'
    BY <1>1, <1>11, <1>12
  <1>14. cache' \in [Agents -> Caches]
    <2>1. Empty \in Caches
      BY DEF Empty, Caches
    <2> QED
      BY <1>0, <1>2, <2>1 DEF Typed
  <1>15. Typed'
    BY <1>0, <1>13, <1>14 DEF Typed
  <1> QED
    BY <1>0, <1>5, <1>6, <1>7, <1>8, <1>9, <1>13, <1>15 DEF IInv, ClientOK

-----------------------------------------------------------------------------
(* The steps of one request *)

\* A step of one client that leaves agents and credentials alone keeps it.
LEMMA OneClient ==
    ASSUME IInv, NEW c \in Clients, UNCHANGED <<agentVars, cache, current, keeper>>,
           local' \in Caches, LocalCurrent',
           NEW s \in Request, client' = [client EXCEPT ![c] = s], ClientOK(c)'
    PROVE  IInv'
  <1> USE DEF agentVars
  <1>1. Typed /\ \A d \in Clients : ClientOK(d)
    BY DEF IInv, ClientOK
  <1>2. ASSUME NEW d \in Clients PROVE ClientOK(d)'
    <2>1. CASE d = c
      BY <2>1
    <2>2. CASE d # c
      <3>1. client'[d] = client[d]
        BY <1>1, <2>2 DEF Typed
      <3> QED
        BY <1>1, <3>1, ClientLeft
    <2> QED
      BY <2>1, <2>2
  <1>3. Typed'
    BY <1>1 DEF Typed
  <1>4. OneActivated' /\ Seen' /\ Held' /\ Lasting'
    BY DEF IInv, OneActivated, Seen, Held, Lasting, Listening
  <1>5. AgentCurrent' /\ KeeperServed' /\ KeeperHolds'
    BY DEF IInv, AgentCurrent, KeeperServed, KeeperHolds, Reachable, Listening
  <1> QED
    BY <1>2, <1>3, <1>4, <1>5 DEF IInv, ClientOK

\* Only one agent is reachable.
LEMMA OneReachable ==
    ASSUME Typed, OneActivated, NEW a, NEW b, Reachable(a), Reachable(b)
    PROVE  a = b
  BY DEF OneActivated, Reachable, Listening

\* A portal command starts.
LEMMA BeginStep ==
    ASSUME IInv, NEW c \in Clients, NEW job \in Jobs \ {"get"}, NEW k \in Keys,
           NEW v \in Values \cup {NoVal}, NEW ttl \in TTLs \cup {0}, Begin(c, job, k, v, ttl)
    PROVE  IInv'
  <1> DEFINE todo == IF job = "clearAll" THEN Kinds \ {k[1]} ELSE {}
             s == [Quiet EXCEPT !.at = "connect", !.job = job, !.key = k, !.value = v,
                     !.ttl = ttl, !.todo = todo]
  <1>1. client' = [client EXCEPT ![c] = s]
        /\ UNCHANGED <<agentVars, cache, current, keeper, local>>
    BY DEF Begin, Starts
  <1>2. todo \in SUBSET Kinds /\ v \in Outputs /\ (job = "set" => v \in Values)
    BY DEF Begin, Outputs
  <1> HIDE DEF todo
  <1>3. s \in Request
    BY <1>2, QuietTyped DEF Request
  <1>4. s.at = "connect" /\ s.job = job /\ s.key = k /\ s.value = v
    BY QuietTyped DEF Request
  <1> HIDE DEF s
  <1>5. client'[c] = s
    BY <1>1 DEF IInv, Typed
  <1>6. ClientOK(c)'
    BY <1>2, <1>4, <1>5 DEF ClientOK, Requested, Allowed, Owing
  <1>7. local' \in Caches /\ LocalCurrent'
    BY <1>1 DEF IInv, Typed, LocalCurrent
  <1> QED
    BY <1>1, <1>3, <1>6, <1>7, OneClient

\* A request reaches an agent.
LEMMA SendStep ==
    ASSUME IInv, NEW c \in Clients, NEW a \in Agents, Send(c, a)
    PROVE  IInv'
  <1> DEFINE r == client[c]
             s == [r EXCEPT !.at = "sent", !.agent = a]
  <1>0. Typed /\ OneActivated /\ AgentCurrent /\ KeeperHolds /\ Requested(c) /\ Allowed(c) /\ Owing(c)
    BY DEF IInv
  <1>1. r \in Request /\ r.at = "connect" /\ Reachable(a)
    BY <1>0 DEF Send, Typed
  <1>2. client' = [client EXCEPT ![c] = s] /\ UNCHANGED <<agentVars, cache, current, keeper, local>>
    BY DEF Send
  <1>3. s \in Request /\ s.at = "sent" /\ s.agent = a
    BY <1>1 DEF Request
  <1>4. s.job = r.job /\ s.key = r.key /\ s.value = r.value /\ s.ok = r.ok /\ s.must = r.must
    BY <1>1 DEF Request
  <1>5. client'[c] = s
    BY <1>0, <1>2 DEF Typed
  <1>6. r.key \in Keys /\ (r.job = "set" => r.value \in Values) /\ r.job \in Jobs
    BY <1>0, <1>1 DEF Requested
  <1>7. r.job = "get" /\ Live(cache[a][r.key]) => <<"agent", cache[a][r.key].value>> \in r.ok
    <2> SUFFICES ASSUME r.job = "get", Live(cache[a][r.key])
                 PROVE  <<"agent", cache[a][r.key].value>> \in r.ok
      OBVIOUS
    <2>1. current["agent"][r.key] = cache[a][r.key] /\ current["agent"][r.key] # NoVal
      BY <1>0, <1>1, <1>6 DEF AgentCurrent, Live
    <2>2. <<"agent", current["agent"][r.key].value>> \in r.ok
      BY <1>0, <1>1, <2>1 DEF Allowed
    <2> QED
      BY <2>1, <2>2
  <1>8. r.job = "get" /\ r.must # NoVal =>
          /\ current["agent"][r.key] # NoVal /\ current["agent"][r.key].value = r.must
          /\ Reachable(keeper[r.key]) /\ a = keeper[r.key]
    BY <1>0, <1>1, OneReachable DEF Owing
  <1> HIDE DEF s
  <1>9. Requested(c)'
    BY <1>3, <1>4, <1>5, <1>6 DEF Requested
  <1>10. Allowed(c)'
    BY <1>2, <1>3, <1>4, <1>5, <1>7 DEF Allowed
  <1>11. Owing(c)'
    BY <1>2, <1>3, <1>4, <1>5, <1>8 DEF Owing, Reachable, Listening, agentVars
  <1>12. local' \in Caches /\ LocalCurrent'
    BY <1>2 DEF IInv, Typed, LocalCurrent
  <1> QED
    BY <1>2, <1>3, <1>9, <1>10, <1>11, <1>12, OneClient DEF ClientOK

\* Answered and Fails: a terminal goes on or ends, a lookup turns to its command.
LEMMA ReturnStep ==
    ASSUME IInv, NEW c \in Clients, Answered(c) \/ Fails(c)
    PROVE  IInv'
  <1> DEFINE r == client[c]
  <1>0. Typed /\ Requested(c) /\ r \in Request
    BY DEF IInv, Typed
  <1>1. /\ r.at \in {"connect", "sent", "answered"} /\ r.key \in Keys /\ r.job \in Jobs
        /\ r.job = "set" => r.value \in Values
    BY <1>0 DEF Answered, Fails, Requested
  <1>2. UNCHANGED <<agentVars, cache, current, keeper, local>>
    BY DEF Answered, Fails
  <1>3. local' \in Caches /\ LocalCurrent'
    BY <1>2 DEF IInv, Typed, LocalCurrent
  <1>4. CASE r.job # "get"
    <2>1. PICK answered \in BOOLEAN : client' = [client EXCEPT ![c] = Continue(r, answered)]
      BY <1>4 DEF Answered, Fails
    <2> DEFINE s == Continue(r, answered)
    <2>2. /\ s \in Request /\ s.at \in {"connect", "done"} /\ s.job # "get"
          /\ s.at # "done" => s.key \in Keys /\ s.job = r.job /\ s.value = r.value
      BY <1>0, <1>1, <1>4, ContinueFacts
    <2>3. client'[c] = s
      BY <1>0, <2>1 DEF Typed
    <2> HIDE DEF s
    <2>4. ClientOK(c)'
      BY <1>1, <2>2, <2>3 DEF ClientOK, Requested, Allowed, Owing
    <2>5. client' = [client EXCEPT ![c] = s]
      BY <2>1 DEF s
    <2> QED
      BY <1>2, <1>3, <2>2, <2>4, <2>5, OneClient
  <1>5. CASE r.job = "get"
    <2> DEFINE s == [r EXCEPT !.at = "command", !.agent = NoFile, !.must = NoVal]
    <2>1. client' = [client EXCEPT ![c] = s]
      BY <1>5 DEF Answered, Fails
    <2>2. s \in Request /\ s.at = "command" /\ s.must = NoVal
      BY <1>0 DEF Request
    <2>3. s.job = "get" /\ s.key = r.key
      BY <1>0, <1>5 DEF Request
    <2>4. client'[c] = s
      BY <1>0, <2>1 DEF Typed
    <2> HIDE DEF s
    <2>5. ClientOK(c)'
      BY <1>1, <2>2, <2>3, <2>4 DEF ClientOK, Requested, Allowed, Owing, Jobs
    <2> QED
      BY <1>2, <1>3, <2>1, <2>2, <2>5, OneClient
  <1> QED
    BY <1>4, <1>5

\* The answer is the agent's, or the command is run.
LEMMA FetchedStep ==
    ASSUME IInv, NEW c \in Clients, Fetched(c)
    PROVE  IInv'
  <1> DEFINE r == client[c]
  <1>0. Typed /\ Requested(c) /\ Allowed(c) /\ Owing(c) /\ r \in Request
    BY DEF IInv, Typed
  <1>1. /\ r.at = "answered" /\ r.job = "get" /\ r.key \in Keys
        /\ UNCHANGED <<agentVars, cache, current, keeper, local>>
    BY <1>0 DEF Fetched, Requested
  <1>2. local' \in Caches /\ LocalCurrent'
    BY <1>1 DEF IInv, Typed, LocalCurrent
  <1>3. CASE r.value # NoVal
    <2> DEFINE s == Found(r, r.value, "agent")
    <2>1. client' = [client EXCEPT ![c] = s]
      BY <1>3 DEF Fetched
    <2>2. r.value \in Outputs /\ "agent" \in Sources
      BY <1>0 DEF Request, Sources
    <2>3. /\ s \in Request /\ s.at = "done" /\ s.job = "get"
          /\ s.value = r.value /\ s.source = "agent" /\ s.ok = r.ok /\ s.must = r.must
      BY <1>0, <2>2, FoundFacts
    <2>4. client'[c] = s
      BY <1>0, <2>1 DEF Typed
    <2> HIDE DEF s
    <2>5. <<"agent", r.value>> \in r.ok /\ (r.must # NoVal => r.value = r.must)
      BY <1>0, <1>1, <1>3 DEF Allowed, Owing
    <2>6. ClientOK(c)'
      BY <2>3, <2>4, <2>5 DEF ClientOK, Requested, Allowed, Owing
    <2> QED
      BY <1>1, <1>2, <2>1, <2>3, <2>6, OneClient
  <1>4. CASE r.value = NoVal
    <2> DEFINE s == [r EXCEPT !.at = "command"]
    <2>1. client' = [client EXCEPT ![c] = s]
      BY <1>4 DEF Fetched
    <2>2. r.must = NoVal
      BY <1>0, <1>1, <1>4 DEF Owing
    <2>3. s \in Request /\ s.at = "command" /\ s.must = NoVal /\ s.job = "get" /\ s.key = r.key
      BY <1>0, <1>1, <2>2 DEF Request
    <2>4. client'[c] = s
      BY <1>0, <2>1 DEF Typed
    <2> HIDE DEF s
    <2>5. ClientOK(c)'
      BY <1>1, <2>3, <2>4 DEF ClientOK, Requested, Allowed, Owing, Jobs
    <2> QED
      BY <1>1, <1>2, <2>1, <2>3, <2>5, OneClient
  <1> QED
    BY <1>3, <1>4

\* The configured command is run for a lookup.
LEMMA CommandStep ==
    ASSUME IInv, NEW c \in Clients, NEW fails \in BOOLEAN, RunCommand(c, fails)
    PROVE  IInv'
  <1> DEFINE r == client[c]
             v == Command[r.key]
             outcome == IF v = NoVal THEN "none"
                        ELSE IF fails THEN (IF r.key[1] = "sudo" THEN "none" ELSE "raised")
                        ELSE "command"
             w == IF outcome = "command" THEN v ELSE NoVal
             s == Found(r, w, outcome)
  <1>0. Typed /\ Requested(c) /\ Allowed(c) /\ Owing(c) /\ r \in Request
    BY DEF IInv, Typed
  <1>1. /\ r.at = "command" /\ client' = [client EXCEPT ![c] = s]
        /\ UNCHANGED <<agentVars, cache, current, keeper, local>>
    BY DEF RunCommand
  <1>2. r.key \in Keys /\ r.job = "get" /\ r.must = NoVal
    BY <1>0, <1>1 DEF Requested, Owing
  <1>3. outcome \in Sources /\ outcome \notin {"local", "agent"}
    BY DEF Sources
  <1>4. w \in Outputs
    BY <1>2 DEF Outputs
  <1> HIDE DEF w, outcome
  <1>5. s \in Request /\ s.at = "done" /\ s.job = "get" /\ s.source = outcome /\ s.must = NoVal
    BY <1>0, <1>2, <1>3, <1>4, FoundFacts
  <1>6. client'[c] = s
    BY <1>0, <1>1 DEF Typed
  <1> HIDE DEF s
  <1>7. ClientOK(c)'
    BY <1>3, <1>5, <1>6 DEF ClientOK, Requested, Allowed, Owing
  <1>8. local' \in Caches /\ LocalCurrent'
    BY <1>1 DEF IInv, Typed, LocalCurrent
  <1> QED
    BY <1>1, <1>5, <1>7, <1>8, OneClient

-----------------------------------------------------------------------------
(* Lookups begin *)

\* Purging drops expired entries only.
LEMMA PurgedFacts ==
    ASSUME NEW ch \in Caches, NEW ks
    PROVE  /\ Purged(ch, ks) \in Caches
           /\ \A k \in Keys : /\ Live(ch[k]) => Purged(ch, ks)[k] = ch[k]
                              /\ Live(Purged(ch, ks)[k]) => Purged(ch, ks)[k] = ch[k]
  BY DEF Purged, Caches, Live

\* A lookup starts, with the cache of its own process.
LEMMA LookupStep ==
    ASSUME IInv, NEW c \in Clients, NEW k \in Keys, Lookup(c, k)
    PROVE  IInv'
  <1> DEFINE held == {t \in {"local", "agent"} : current[t][k] # NoVal}
             allowed == {<<s, current[s][k].value>> : s \in held}
             r == [Quiet EXCEPT !.job = "get", !.key = k, !.ok = allowed]
             asks == [r EXCEPT !.at = "connect", !.must = Owed(k)]
             found == Found(r, local[k].value, "local")
             s == IF Live(local[k]) THEN found ELSE asks
  <1>0. Typed /\ LocalCurrent /\ Lasting
    BY DEF IInv
  <1>1. /\ client' = [client EXCEPT ![c] = s] /\ local' = Purged(local, {k})
        /\ UNCHANGED <<agentVars, cache, current, keeper>>
    BY DEF Lookup, Starts
  <1>2. \A t \in held : current[t][k] \in Entry
    BY <1>0 DEF Typed, Caches
  <1>3. \A t \in held : current[t][k].value \in Values
    BY <1>2 DEF Entry
  <1>4. allowed \in SUBSET Answers
    BY <1>3 DEF Answers, Outputs
  <1>5. \A t \in {"local", "agent"} : current[t][k] # NoVal => <<t, current[t][k].value>> \in allowed
    OBVIOUS
  <1>6. Owed(k) \in Values \cup {NoVal}
    BY <1>3 DEF Owed
  <1>7. Owed(k) # NoVal => /\ current["agent"][k] # NoVal /\ current["agent"][k].value = Owed(k)
                           /\ Reachable(keeper[k])
    BY DEF Owed
  <1>8. local' \in Caches /\ LocalCurrent'
    BY <1>0, <1>1, PurgedFacts DEF Typed, LocalCurrent
  <1> HIDE DEF allowed, held
  <1>9. "get" \in Jobs
    BY DEF Jobs
  <1>10. /\ r \in Request /\ r.at = "done" /\ r.job = "get" /\ r.key = k /\ r.ok = allowed
         /\ r.must = NoVal
    <2>1. Quiet.must = NoVal
      BY DEF Quiet
    <2> QED
      BY <1>4, <1>9, <2>1, QuietTyped DEF Request
  <1> HIDE DEF r
  <1>11. CASE Live(local[k])
    <2>1. local[k] = current["local"][k] /\ local[k] # NoVal
      BY <1>0, <1>11 DEF LocalCurrent, Live
    <2>2. local[k].value \in Outputs /\ "local" \in Sources
      <3>1. local[k] \in Entry
        BY <1>0, <2>1 DEF Typed, Caches
      <3> QED
        BY <3>1 DEF Entry, Outputs, Sources
    <2>3. /\ found \in Request /\ found.at = "done" /\ found.job = "get" /\ found.value = local[k].value
          /\ found.source = "local" /\ found.ok = allowed /\ found.must = NoVal
      BY <1>10, <2>2, FoundFacts
    <2>4. client'[c] = found /\ client' = [client EXCEPT ![c] = found]
      BY <1>0, <1>1, <1>11 DEF Typed
    <2>5. <<"local", local[k].value>> \in allowed
      BY <1>5, <2>1
    <2> HIDE DEF found
    <2>6. ClientOK(c)'
      BY <2>3, <2>4, <2>5 DEF ClientOK, Requested, Allowed, Owing
    <2> QED
      BY <1>1, <1>8, <2>3, <2>4, <2>6, OneClient
  <1>12. CASE ~Live(local[k])
    <2>1. asks \in Request /\ asks.at = "connect" /\ asks.must = Owed(k)
      BY <1>6, <1>10 DEF Request
    <2>2. asks.job = "get" /\ asks.key = k /\ asks.ok = allowed
      BY <1>10 DEF Request
    <2>3. client'[c] = asks /\ client' = [client EXCEPT ![c] = asks]
      BY <1>0, <1>1, <1>12 DEF Typed
    <2> HIDE DEF asks
    <2>4. Requested(c)' /\ Allowed(c)'
      BY <1>1, <1>5, <1>9, <2>1, <2>2, <2>3 DEF Requested, Allowed
    <2>5. Owing(c)'
      BY <1>1, <1>7, <2>1, <2>2, <2>3 DEF Owing, Reachable, Listening, agentVars
    <2> QED
      BY <1>1, <1>8, <2>1, <2>3, <2>4, <2>5, OneClient DEF ClientOK
  <1> QED
    BY <1>11, <1>12

-----------------------------------------------------------------------------
(* The steps of an agent that handles a request *)

\* The caches and what is current are left consistent, the others follow and
\* the one that is answered may have its answer.
Coherent == Held /\ Lasting /\ LocalCurrent /\ AgentCurrent /\ KeeperServed /\ KeeperHolds

\* What remains to show of a step that changes credentials.
LEMMA WorldStep ==
    ASSUME IInv, UNCHANGED agentVars, Coherent',
           cache' \in [Agents -> Caches], local' \in Caches,
           current' \in [{"agent", "local"} -> Caches], keeper' \in [Keys -> Agents \cup {NoFile}],
           client' \in [Clients -> Request], \A d \in Clients : ClientOK(d)'
    PROVE  IInv'
  <1>1. Typed'
    BY DEF IInv, Typed, agentVars
  <1>2. OneActivated' /\ Seen'
    BY DEF IInv, OneActivated, Seen, Listening, agentVars
  <1> QED
    BY <1>1, <1>2 DEF IInv, Coherent, ClientOK

\* A terminal gets its answer.
LEMMA TerminalAnswered ==
    ASSUME Typed, NEW c \in Clients, Requested(c), client[c].job # "get", client[c].at = "sent",
           client'[c] = AnsweredBy(client[c])
    PROVE  ClientOK(c)' /\ client'[c] \in Request
  <1> DEFINE r == client[c]
             s == AnsweredBy(r)
  <1>1. r \in Request
    BY DEF Typed
  <1>2. s \in Request /\ s.at = "answered" /\ s.job = r.job /\ s.key = r.key /\ s.value = r.value
    BY <1>1, AnsweredByFacts
  <1> HIDE DEF s
  <1>3. client'[c] = s
    BY DEF s
  <1> QED
    BY <1>2, <1>3 DEF ClientOK, Requested, Allowed, Owing

\* What is dropped when it is found expired was not live.
LEMMA PurgeWorld ==
    ASSUME IInv, NEW a \in Agents, Listening(a), NEW ks,
           cache' = [cache EXCEPT ![a] = Purged(cache[a], ks)],
           UNCHANGED <<agentVars, local, current, keeper>>
    PROVE  Coherent' /\ cache' \in [Agents -> Caches] /\ Fewer /\ \A k \in Keys : Steady(k)
  <1> USE DEF agentVars
  <1>0. Typed /\ Held /\ Lasting /\ LocalCurrent /\ AgentCurrent /\ KeeperServed /\ KeeperHolds
    BY DEF IInv
  <1>1. cache[a] \in Caches /\ Purged(cache[a], ks) \in Caches
    BY <1>0, PurgedFacts DEF Typed
  <1>2. cache' \in [Agents -> Caches] /\ cache'[a] = Purged(cache[a], ks)
        /\ \A b \in Agents \ {a} : cache'[b] = cache[b]
    BY <1>0, <1>1 DEF Typed
  <1>3. \A b \in Agents, k \in Keys : /\ Live(cache[b][k]) => cache'[b][k] = cache[b][k]
                                      /\ Live(cache'[b][k]) => cache'[b][k] = cache[b][k]
    BY <1>1, <1>2, PurgedFacts
  <1>4. Held' /\ Lasting' /\ LocalCurrent' /\ KeeperServed'
    BY <1>0, <1>2 DEF Held, Lasting, LocalCurrent, KeeperServed, Listening
  <1>5. AgentCurrent'
    BY <1>0, <1>3 DEF AgentCurrent, Reachable, Listening
  <1>6. KeeperHolds'
    <2>1. ASSUME NEW k \in Keys, current["agent"][k] # NoVal, Reachable(keeper[k])
          PROVE  cache'[keeper[k]][k] = current["agent"][k]
      BY <1>0, <1>3, <2>1 DEF KeeperHolds, Lasting, Reachable, Listening
    <2> QED
      BY <2>1 DEF KeeperHolds, Reachable, Listening
  <1>7. Fewer
    BY <1>3 DEF Fewer
  <1>8. \A k \in Keys : Steady(k)
    BY DEF Steady, Reachable, ReachableNext, Listening
  <1> QED
    BY <1>2, <1>4, <1>5, <1>6, <1>7, <1>8 DEF Coherent

\* A request that is not the one answered, when nothing was set or cleared.
LEMMA BystandersPurged ==
    ASSUME IInv, Fewer, \A k \in Keys : Steady(k), NEW d \in Clients, client'[d] = client[d]
    PROVE  ClientOK(d)' /\ client'[d] \in Request
  <1>1. Typed /\ ClientOK(d) /\ Follows(client[d], client'[d])
    BY FollowsItself DEF IInv, ClientOK, Typed
  <1>2. client[d].at \in {"connect", "sent"} => Steady(client[d].key)
    BY <1>1 DEF ClientOK, Requested
  <1> QED
    BY <1>1, <1>2, FewerAllowed, ClientStays DEF Follows

\* The agent answers fingerprint, list or status.
LEMMA InspectStep ==
    ASSUME IInv, NEW c \in Clients, Handle(c), Inspect(c, client[c].agent)
    PROVE  IInv'
  <1> DEFINE r == client[c]
             a == client[c].agent
             ks == CASE r.job = "show" -> {r.key} [] r.job = "list" -> {k \in Keys : k[1] = r.key[1]}
                     [] OTHER -> Keys
  <1>0. Typed /\ Requested(c)
    BY DEF IInv
  <1>1. /\ r.at = "sent" /\ r.job # "get" /\ a \in Agents /\ Listening(a)
        /\ cache' = [cache EXCEPT ![a] = Purged(cache[a], ks)]
        /\ client' = [client EXCEPT ![c] = AnsweredBy(r)]
        /\ UNCHANGED <<agentVars, local, current, keeper>>
    BY DEF Handle, Inspect, Listening
  <1> HIDE DEF ks, a
  <1>2. Coherent' /\ cache' \in [Agents -> Caches] /\ Fewer /\ \A k \in Keys : Steady(k)
    BY <1>1, PurgeWorld
  <1>3. client'[c] = AnsweredBy(client[c]) /\ \A d \in Clients \ {c} : client'[d] = client[d]
    BY <1>0, <1>1 DEF Typed
  <1>4. \A d \in Clients : ClientOK(d)' /\ client'[d] \in Request
    BY <1>0, <1>1, <1>2, <1>3, TerminalAnswered, BystandersPurged
  <1>5. client' \in [Clients -> Request]
    BY <1>0, <1>1, <1>4 DEF Typed
  <1> QED
    BY <1>0, <1>1, <1>2, <1>4, <1>5, WorldStep DEF Typed

\* The agent answers get.
LEMMA GetStep ==
    ASSUME IInv, NEW c \in Clients, Handle(c), Get(c, client[c].agent)
    PROVE  IInv'
  <1> DEFINE r == client[c]
             a == client[c].agent
             e == cache[a][r.key]
             v == IF Live(e) THEN e.value ELSE NoVal
             s == [AnsweredBy(r) EXCEPT !.value = v]
  <1>0. Typed /\ Requested(c) /\ Allowed(c) /\ Owing(c) /\ KeeperHolds /\ Lasting
    BY DEF IInv
  <1>1. /\ r.at = "sent" /\ r.job = "get" /\ a \in Agents /\ Listening(a)
        /\ cache' = [cache EXCEPT ![a] = Purged(cache[a], {r.key})]
        /\ client' = [client EXCEPT ![c] = s]
        /\ UNCHANGED <<agentVars, local, current, keeper>>
    BY DEF Handle, Get, Listening
  <1>2. Coherent' /\ cache' \in [Agents -> Caches] /\ Fewer /\ \A k \in Keys : Steady(k)
    BY <1>1, PurgeWorld
  <1>3. r.key \in Keys /\ r \in Request
    BY <1>0, <1>1 DEF Requested, Typed
  <1>4. v # NoVal => <<"agent", v>> \in r.ok
    BY <1>0, <1>1 DEF Allowed
  <1>5. r.must # NoVal => v = r.must
    <2> SUFFICES ASSUME r.must # NoVal PROVE v = r.must
      OBVIOUS
    <2>1. /\ current["agent"][r.key] # NoVal /\ current["agent"][r.key].value = r.must
          /\ Reachable(keeper[r.key]) /\ a = keeper[r.key]
      BY <1>0, <1>1 DEF Owing
    <2>2. e = current["agent"][r.key] /\ Live(e)
      BY <1>0, <1>3, <2>1 DEF KeeperHolds, Lasting
    <2> QED
      BY <2>1, <2>2
  <1>6. v \in Outputs
    <2>1. Live(e) => e \in Entry
      BY <1>0, <1>1, <1>3 DEF Typed, Caches, Live
    <2> QED
      BY <2>1 DEF Entry, Outputs
  <1> HIDE DEF v, a
  <1>7. AnsweredBy(r) \in Request /\ AnsweredBy(r).at = "answered" /\ AnsweredBy(r).job = r.job
        /\ AnsweredBy(r).key = r.key /\ AnsweredBy(r).ok = r.ok /\ AnsweredBy(r).must = r.must
    BY <1>3, AnsweredByFacts
  <1>8. s \in Request /\ s.at = "answered" /\ s.value = v
    BY <1>6, <1>7 DEF Request
  <1>9. s.job = r.job /\ s.key = r.key /\ s.ok = r.ok /\ s.must = r.must
    BY <1>7 DEF Request
  <1> HIDE DEF s
  <1>10. client'[c] = s /\ \A d \in Clients \ {c} : client'[d] = client[d]
    BY <1>0, <1>1 DEF Typed
  <1>11. ClientOK(c)'
    BY <1>1, <1>3, <1>4, <1>5, <1>8, <1>9, <1>10 DEF ClientOK, Requested, Allowed, Owing, Jobs
  <1>12. \A d \in Clients : ClientOK(d)' /\ client'[d] \in Request
    BY <1>2, <1>8, <1>10, <1>11, BystandersPurged
  <1>13. client' \in [Clients -> Request]
    BY <1>0, <1>1, <1>12 DEF Typed
  <1> QED
    BY <1>0, <1>1, <1>2, <1>12, <1>13, WorldStep DEF Typed

\* A request that is not the one answered, when keys were set or cleared.
LEMMA BystandersNoted ==
    ASSUME IInv, NEW ks, NEW v \in Values \cup {NoVal}, NEW source \in {"local", "agent"},
           \A k \in Keys \ ks : Steady(k),
           NEW d \in Clients, client'[d] = Noted(client, ks, v, source)[d], StillAllowed(d)
    PROVE  ClientOK(d)' /\ client'[d] \in Request
  <1>1. Typed /\ ClientOK(d)
    BY DEF IInv, ClientOK
  <1>2. /\ Follows(client[d], client'[d])
        /\ Concerns(client[d], ks) => client'[d].must = NoVal
    BY <1>1, NotedFacts
  <1>3. (client[d].job = "get" /\ client[d].at \in {"connect", "sent"} /\ ~Concerns(client[d], ks))
            => Steady(client[d].key)
    BY <1>1 DEF ClientOK, Requested, Concerns
  <1> QED
    BY <1>1, <1>2, <1>3, ClientStays DEF Follows

\* What a set leaves of caches, credentials and keepers.
LEMMA SetWorld ==
    ASSUME IInv, NEW a \in Agents, Listening(a), NEW key \in Keys, NEW e \in Entry, Live(e),
           cache' = [cache EXCEPT ![a][key] = e],
           IF Reachable(a)
           THEN /\ current' = [current EXCEPT !["agent"][key] = e]
                /\ keeper' = [keeper EXCEPT ![key] = a]
           ELSE UNCHANGED <<current, keeper>>,
           UNCHANGED <<agentVars, local>>
    PROVE  /\ Coherent' /\ cache' \in [Agents -> Caches]
           /\ current' \in [{"agent", "local"} -> Caches] /\ keeper' \in [Keys -> Agents \cup {NoFile}]
           /\ \A k \in Keys : k # key => current'["agent"][k] = current["agent"][k]
           /\ current'["agent"][key] \in {current["agent"][key], e}
           /\ \A b \in Agents, k \in Keys :
                cache'[b][k] = IF b = a /\ k = key THEN e ELSE cache[b][k]
           /\ \A k \in Keys \ {key} : Steady(k)
  <1> USE DEF agentVars
  <1>0. Typed /\ Held /\ Lasting /\ LocalCurrent /\ AgentCurrent /\ KeeperServed /\ KeeperHolds
        /\ OneActivated /\ proc[a] = "serving" /\ e # NoVal
    BY DEF IInv, Listening, Live
  <1>1. cache' \in [Agents -> Caches]
    BY <1>0 DEF Typed, Caches
  <1>2. \A b \in Agents, k \in Keys : cache'[b][k] = IF b = a /\ k = key THEN e ELSE cache[b][k]
    BY <1>0 DEF Typed, Caches
  <1>3. current' \in [{"agent", "local"} -> Caches] /\ keeper' \in [Keys -> Agents \cup {NoFile}]
    <2>1. keeper' \in [Keys -> Agents \cup {NoFile}]
      BY <1>0 DEF Typed
    <2>2. [current["agent"] EXCEPT ![key] = e] \in Caches
      BY <1>0 DEF Typed, Caches
    <2>3. \/ current' = current
          \/ current' = [current EXCEPT !["agent"] = [current["agent"] EXCEPT ![key] = e]]
      BY <1>0 DEF Typed
    <2> QED
      BY <1>0, <2>1, <2>2, <2>3 DEF Typed
  <1>4. /\ \A k \in Keys : current'["agent"][k] = IF k = key /\ Reachable(a) THEN e ELSE current["agent"][k]
        /\ \A k \in Keys : keeper'[k] = IF k = key /\ Reachable(a) THEN a ELSE keeper[k]
        /\ \A k \in Keys : current'["local"][k] = current["local"][k]
    BY <1>0 DEF Typed, Caches
  <1>5. Held'
    <2>1. \A b \in Agents : b # a => cache'[b] = cache[b]
      BY <1>0 DEF Typed
    <2> QED
      BY <1>0, <2>1 DEF Held
  <1>6. Lasting' /\ LocalCurrent'
    BY <1>0, <1>4 DEF Lasting, LocalCurrent
  <1>7. KeeperServed'
    BY <1>0, <1>4 DEF KeeperServed
  <1>8. \A b : Reachable(b)' <=> Reachable(b)
    BY DEF Reachable, Listening
  <1>9. AgentCurrent'
    <2>1. ASSUME NEW b \in Agents, NEW k \in Keys, Reachable(b), Live(cache'[b][k])
          PROVE  current'["agent"][k] = cache'[b][k]
      <3>1. CASE b = a /\ k = key
        BY <1>2, <1>4, <2>1, <3>1
      <3>2. CASE ~(b = a /\ k = key)
        <4>1. ~(k = key /\ Reachable(a))
          BY <1>0, <2>1, <3>2, OneReachable
        <4> QED
          BY <1>0, <1>2, <1>4, <2>1, <3>2, <4>1 DEF AgentCurrent
      <3> QED
        BY <3>1, <3>2
    <2> QED
      BY <1>8, <2>1 DEF AgentCurrent
  <1>10. KeeperHolds'
    <2>1. ASSUME NEW k \in Keys, current'["agent"][k] # NoVal, Reachable(keeper'[k])
          PROVE  cache'[keeper'[k]][k] = current'["agent"][k]
      <3>1. CASE k = key /\ Reachable(a)
        BY <1>2, <1>4, <3>1
      <3>2. CASE ~(k = key /\ Reachable(a))
        <4>1. current'["agent"][k] = current["agent"][k] /\ keeper'[k] = keeper[k]
              /\ keeper[k] \in Agents
          BY <1>4, <2>1, <3>2 DEF Reachable, Listening
        <4>2. ~(keeper[k] = a /\ k = key)
          BY <2>1, <3>2, <4>1
        <4> QED
          BY <1>0, <1>2, <2>1, <4>1, <4>2 DEF KeeperHolds
      <3> QED
        BY <3>1, <3>2
    <2>2. \A k \in Keys : Reachable(keeper[k])' => Reachable(keeper'[k])
      BY DEF Reachable, Listening
    <2> QED
      BY <2>1, <2>2 DEF KeeperHolds
  <1>11. \A k \in Keys \ {key} : Steady(k)
    BY <1>4 DEF Steady, Reachable, ReachableNext, Listening
  <1> QED
    BY <1>1, <1>2, <1>3, <1>4, <1>5, <1>6, <1>7, <1>9, <1>10, <1>11 DEF Coherent

\* The agent answers set.
LEMMA SetStep ==
    ASSUME IInv, NEW c \in Clients, Handle(c), Set(c, client[c].agent)
    PROVE  IInv'
  <1> DEFINE r == client[c]
             a == client[c].agent
             v == r.value
             key == r.key
             e == [value |-> v, left |-> SetLife(r.ttl)]
             noted == Noted(client, {key}, v, "agent")
  <1>0. Typed /\ Requested(c) /\ r \in Request
    BY DEF IInv, Typed
  <1>1. /\ r.at = "sent" /\ r.job = "set" /\ a \in Agents /\ Listening(a)
        /\ cache' = [cache EXCEPT ![a][key] = e]
        /\ IF Reachable(a)
           THEN /\ current' = [current EXCEPT !["agent"][key] = e]
                /\ keeper' = [keeper EXCEPT ![key] = a]
           ELSE UNCHANGED <<current, keeper>>
        /\ client' = [noted EXCEPT ![c] = AnsweredBy(r)]
        /\ UNCHANGED <<agentVars, local>>
    BY DEF Handle, Set, Listening
  <1>2. key \in Keys /\ v \in Values /\ v # NoVal /\ v \in Values \cup {NoVal}
    BY <1>0, <1>1, AgentAssumption DEF Requested
  <1>3. SetLife(r.ttl) \in Nat /\ SetLife(r.ttl) > 0
    <2>1. r.ttl \in TTLs \cup {0}
      BY <1>0 DEF Request
    <2>2. TTLs \subseteq Nat /\ DefaultTTL \in Nat /\ DefaultTTL # 0
      BY AgentAssumption
    <2>3. \A t \in TTLs \cup {0} : SetLife(t) \in Nat /\ SetLife(t) > 0
      BY <2>2 DEF SetLife
    <2> QED
      BY <2>1, <2>3
  <1>4. e \in Entry /\ e.value = v /\ Live(e)
    <2>1. e \in Entry /\ e.value = v /\ e.left > 0
      BY <1>2, <1>3 DEF Entry
    <2> QED
      BY <2>1, AgentAssumption DEF Live
  <1> HIDE DEF e, a, v, key
  <1>5. /\ Coherent' /\ cache' \in [Agents -> Caches]
        /\ current' \in [{"agent", "local"} -> Caches] /\ keeper' \in [Keys -> Agents \cup {NoFile}]
        /\ \A k \in Keys : k # key => current'["agent"][k] = current["agent"][k]
        /\ current'["agent"][key] \in {current["agent"][key], e}
        /\ \A b \in Agents, k \in Keys : cache'[b][k] = IF b = a /\ k = key THEN e ELSE cache[b][k]
        /\ \A k \in Keys \ {key} : Steady(k)
    BY <1>1, <1>2, <1>4, SetWorld
  <1>6. client'[c] = AnsweredBy(r) /\ (\A d \in Clients \ {c} : client'[d] = noted[d])
        /\ DOMAIN client' = Clients
    BY <1>1 DEF Noted
  <1>7. ClientOK(c)' /\ client'[c] \in Request
    BY <1>0, <1>1, <1>6, TerminalAnswered
  <1>8. ASSUME NEW d \in Clients \ {c} PROVE ClientOK(d)' /\ client'[d] \in Request
    <2> DEFINE q == client[d]
               ok == client'[d].ok
    <2>1. Typed /\ ClientOK(d)
      BY DEF IInv, ClientOK
    <2>2. /\ q.ok \subseteq ok
          /\ Concerns(q, {key}) => <<"agent", v>> \in ok
      <3>1. client'[d] = Noted(client, {key}, v, "agent")[d]
        BY <1>6
      <3>2. /\ Follows(q, client'[d])
            /\ Concerns(q, {key}) => (v # NoVal => <<"agent", v>> \in client'[d].ok)
        BY <1>2, <2>1, <3>1, NotedFacts
      <3> QED
        BY <1>2, <3>2 DEF Follows
    <2>3. /\ q.at # "done" => q.key \in Keys
          /\ q.at = "sent" => q.agent \in Agents
      BY <2>1 DEF ClientOK, Requested
    <2>4. ASSUME q.job = "get", q.at = "connect", current'["agent"][q.key] # NoVal
          PROVE  <<"agent", current'["agent"][q.key].value>> \in ok
      <3>1. CASE q.key = key /\ current'["agent"][q.key] = e
        BY <1>4, <2>2, <2>4, <3>1 DEF Concerns
      <3>2. CASE current'["agent"][q.key] = current["agent"][q.key]
        BY <2>1, <2>2, <2>4, <3>2 DEF ClientOK, Allowed
      <3> QED
        BY <1>5, <2>3, <2>4, <3>1, <3>2
    <2>5. ASSUME q.job = "get", q.at = "sent", Live(cache'[q.agent][q.key])
          PROVE  <<"agent", cache'[q.agent][q.key].value>> \in ok
      <3>1. CASE q.agent = a /\ q.key = key
        <4>1. cache'[q.agent][q.key] = e
          BY <1>1, <1>2, <1>5, <3>1
        <4> QED
          BY <1>4, <2>2, <2>5, <3>1, <4>1 DEF Concerns
      <3>2. CASE ~(q.agent = a /\ q.key = key)
        <4>1. cache'[q.agent][q.key] = cache[q.agent][q.key]
          BY <1>5, <2>3, <2>5, <3>2
        <4> QED
          BY <2>1, <2>2, <2>5, <4>1 DEF ClientOK, Allowed
      <3> QED
        BY <3>1, <3>2
    <2>6. StillAllowed(d)
      BY <2>4, <2>5 DEF StillAllowed
    <2> QED
      BY <1>2, <1>5, <1>6, <2>6, BystandersNoted
  <1>9. client' \in [Clients -> Request] /\ \A d \in Clients : ClientOK(d)'
    <2>1. client' = [d \in Clients |-> client'[d]]
      BY <1>1 DEF Noted
    <2> QED
      BY <1>7, <1>8, <2>1
  <1> QED
    BY <1>0, <1>1, <1>5, <1>9, WorldStep DEF Typed

\* Keys that are cleared are gone from what is current, if that is read.
LEMMA ClearWorld ==
    ASSUME IInv, NEW a \in Agents, Listening(a), NEW ks,
           cache' = [cache EXCEPT ![a] = [k \in Keys |-> IF k \in ks THEN NoVal ELSE cache[a][k]]],
           current' = IF Reachable(a)
                      THEN [current EXCEPT !["agent"] =
                              [k \in Keys |-> IF k \in ks THEN NoVal ELSE current["agent"][k]]]
                      ELSE current,
           keeper' = [k \in Keys |-> IF current'["agent"][k] = NoVal THEN NoFile ELSE keeper[k]],
           UNCHANGED <<agentVars, local>>
    PROVE  /\ Coherent' /\ cache' \in [Agents -> Caches]
           /\ current' \in [{"agent", "local"} -> Caches] /\ keeper' \in [Keys -> Agents \cup {NoFile}]
           /\ Fewer
           /\ \A k \in Keys \ ks : Steady(k)
  <1> USE DEF agentVars
  <1>0. Typed /\ Held /\ Lasting /\ LocalCurrent /\ AgentCurrent /\ KeeperServed /\ KeeperHolds
        /\ OneActivated /\ proc[a] = "serving"
    BY DEF IInv, Listening
  <1>1. cache' \in [Agents -> Caches]
    <2>1. [k \in Keys |-> IF k \in ks THEN NoVal ELSE cache[a][k]] \in Caches
      BY <1>0 DEF Typed, Caches
    <2> QED
      BY <1>0, <2>1 DEF Typed
  <1>2. \A b \in Agents, k \in Keys : cache'[b][k] = IF b = a /\ k \in ks THEN NoVal ELSE cache[b][k]
    BY <1>0 DEF Typed
  <1>3. current' \in [{"agent", "local"} -> Caches]
    <2>1. [k \in Keys |-> IF k \in ks THEN NoVal ELSE current["agent"][k]] \in Caches
      BY <1>0 DEF Typed, Caches
    <2> QED
      BY <1>0, <2>1 DEF Typed
  <1>4. /\ \A k \in Keys : current'["agent"][k] = IF Reachable(a) /\ k \in ks THEN NoVal ELSE current["agent"][k]
        /\ \A k \in Keys : current'["local"][k] = current["local"][k]
    BY <1>0 DEF Typed
  <1>5. /\ keeper' \in [Keys -> Agents \cup {NoFile}]
        /\ \A k \in Keys : keeper'[k] = IF current'["agent"][k] = NoVal THEN NoFile ELSE keeper[k]
    BY <1>0 DEF Typed
  <1>6. Held'
    <2>1. \A b \in Agents : b # a => cache'[b] = cache[b]
      BY <1>0 DEF Typed
    <2> QED
      BY <1>0, <2>1 DEF Held
  <1>7. Lasting' /\ LocalCurrent'
    BY <1>0, <1>4 DEF Lasting, LocalCurrent
  <1>8. KeeperServed'
    BY <1>0, <1>5 DEF KeeperServed
  <1>9. \A b : Reachable(b)' <=> Reachable(b)
    BY DEF Reachable, Listening
  <1>10. \A k \in Keys : Live(NoVal) = FALSE
    BY DEF Live
  <1>11. AgentCurrent'
    <2>1. ASSUME NEW b \in Agents, NEW k \in Keys, Reachable(b), Live(cache'[b][k])
          PROVE  current'["agent"][k] = cache'[b][k]
      <3>1. ~(b = a /\ k \in ks) /\ cache'[b][k] = cache[b][k]
        BY <1>2, <1>10, <2>1
      <3>2. ~(Reachable(a) /\ k \in ks)
        BY <1>0, <2>1, <3>1, OneReachable
      <3> QED
        BY <1>0, <1>4, <2>1, <3>1, <3>2 DEF AgentCurrent
    <2> QED
      BY <1>9, <2>1 DEF AgentCurrent
  <1>12. KeeperHolds'
    <2>1. ASSUME NEW k \in Keys, current'["agent"][k] # NoVal, Reachable(keeper'[k])
          PROVE  cache'[keeper'[k]][k] = current'["agent"][k]
      <3>1. /\ current'["agent"][k] = current["agent"][k] /\ keeper'[k] = keeper[k]
            /\ ~(Reachable(a) /\ k \in ks) /\ keeper[k] \in Agents
        BY <1>4, <1>5, <2>1 DEF Reachable, Listening
      <3>2. ~(keeper[k] = a /\ k \in ks)
        BY <2>1, <3>1
      <3> QED
        BY <1>0, <1>2, <2>1, <3>1, <3>2 DEF KeeperHolds
    <2>2. \A k \in Keys : Reachable(keeper[k])' => Reachable(keeper'[k])
      BY DEF Reachable, Listening
    <2> QED
      BY <2>1, <2>2 DEF KeeperHolds
  <1>13. Fewer
    BY <1>2, <1>4, <1>10 DEF Fewer
  <1>14. \A k \in Keys \ ks : Steady(k)
    BY <1>4, <1>5 DEF Steady, Reachable, ReachableNext, Listening
  <1> QED
    BY <1>1, <1>3, <1>5, <1>6, <1>7, <1>8, <1>11, <1>12, <1>13, <1>14 DEF Coherent

\* A request around which keys were taken away.
LEMMA BystandersCleared ==
    ASSUME IInv, NEW ks, Fewer, \A k \in Keys \ ks : Steady(k), NEW d \in Clients,
           NEW v \in Values \cup {NoVal}, NEW source \in {"local", "agent"},
           client'[d] = Noted(client, ks, v, source)[d]
    PROVE  ClientOK(d)' /\ client'[d] \in Request
  <1>1. Typed /\ ClientOK(d)
    BY DEF IInv, ClientOK
  <1>2. Follows(client[d], client'[d])
    BY <1>1, NotedFacts
  <1> QED
    BY <1>1, <1>2, FewerAllowed, BystandersNoted

\* The agent answers clear.
LEMMA ClearStep ==
    ASSUME IInv, NEW c \in Clients, Handle(c), Clear(c, client[c].agent)
    PROVE  IInv'
  <1> DEFINE r == client[c]
             a == client[c].agent
             ks == IF r.job = "clear" THEN {r.key} ELSE {k \in Keys : k[1] = r.key[1]}
             noted == Noted(client, ks, NoVal, "agent")
  <1>0. Typed /\ Requested(c) /\ r \in Request
    BY DEF IInv, Typed
  <1>1. r.at = "sent" /\ r.job # "get" /\ a \in Agents /\ Listening(a)
    BY DEF Handle, Clear, Listening
  <1>2. /\ cache' = [cache EXCEPT ![a] = [k \in Keys |-> IF k \in ks THEN NoVal ELSE @[k]]]
        /\ current' = IF Reachable(a)
                      THEN [current EXCEPT !["agent"] = [k \in Keys |-> IF k \in ks THEN NoVal ELSE @[k]]]
                      ELSE current
        /\ keeper' = [k \in Keys |-> IF current'["agent"][k] = NoVal THEN NoFile ELSE keeper[k]]
        /\ client' = [noted EXCEPT ![c] = AnsweredBy(r)]
        /\ UNCHANGED <<agentVars, local>>
    BY DEF Handle, Clear
  <1> HIDE DEF ks, a
  <1>3. /\ cache' = [cache EXCEPT ![a] = [k \in Keys |-> IF k \in ks THEN NoVal ELSE cache[a][k]]]
        /\ current' = IF Reachable(a)
                      THEN [current EXCEPT !["agent"] =
                              [k \in Keys |-> IF k \in ks THEN NoVal ELSE current["agent"][k]]]
                      ELSE current
    BY <1>0, <1>1, <1>2 DEF Typed
  <1>4. /\ Coherent' /\ cache' \in [Agents -> Caches]
        /\ current' \in [{"agent", "local"} -> Caches] /\ keeper' \in [Keys -> Agents \cup {NoFile}]
        /\ Fewer /\ \A k \in Keys \ ks : Steady(k)
    BY <1>1, <1>2, <1>3, ClearWorld
  <1>5. /\ client'[c] = AnsweredBy(r)
        /\ \A d \in Clients \ {c} : client'[d] = Noted(client, ks, NoVal, "agent")[d]
        /\ client' = [d \in Clients |-> client'[d]]
    BY <1>2 DEF Noted
  <1>6. ClientOK(c)' /\ client'[c] \in Request
    BY <1>0, <1>1, <1>5, TerminalAnswered
  <1>7. \A d \in Clients \ {c} : ClientOK(d)' /\ client'[d] \in Request
    BY <1>4, <1>5, BystandersCleared
  <1>8. client' \in [Clients -> Request] /\ \A d \in Clients : ClientOK(d)'
    BY <1>5, <1>6, <1>7
  <1> QED
    BY <1>0, <1>2, <1>4, <1>8, WorldStep DEF Typed

\* The agent answers, whatever it was asked.
LEMMA HandleStep ==
    ASSUME IInv, NEW c \in Clients, Handle(c)
    PROVE  IInv'
  BY SetStep, ClearStep, InspectStep, GetStep DEF Handle

-----------------------------------------------------------------------------
(* The in-process cache and the clock *)

\* The server process caches or drops a credential itself.
LEMMA CacheLocallyStep ==
    ASSUME IInv, NEW k \in Keys, NEW v \in Values \cup {NoVal}, CacheLocally(k, v)
    PROVE  IInv'
  <1> DEFINE e == IF v = NoVal THEN NoVal ELSE [value |-> v, left |-> DefaultTTL]
  <1>0. Typed /\ Held /\ Lasting /\ LocalCurrent /\ AgentCurrent /\ KeeperServed /\ KeeperHolds
    BY DEF IInv
  <1>1. /\ local' = [local EXCEPT ![k] = e] /\ current' = [current EXCEPT !["local"][k] = e]
        /\ client' = Noted(client, {k}, v, "local") /\ UNCHANGED <<agentVars, cache, keeper>>
    BY DEF CacheLocally
  <1>2. e \in Entry \cup {NoVal} /\ (e # NoVal => Live(e))
    <2>1. DefaultTTL \in Nat /\ DefaultTTL > 0
      BY AgentAssumption
    <2> QED
      BY <2>1 DEF Entry, Live
  <1> HIDE DEF e
  <1>3. local' \in Caches /\ [current["local"] EXCEPT ![k] = e] \in Caches
    BY <1>0, <1>1, <1>2 DEF Typed, Caches
  <1>4. current' = [current EXCEPT !["local"] = [current["local"] EXCEPT ![k] = e]]
    BY <1>0, <1>1 DEF Typed
  <1>5. current' \in [{"agent", "local"} -> Caches]
    BY <1>0, <1>3, <1>4 DEF Typed
  <1>6. /\ current'["agent"] = current["agent"]
        /\ \A l \in Keys : /\ current'["local"][l] = IF l = k THEN e ELSE current["local"][l]
                           /\ local'[l] = IF l = k THEN e ELSE local[l]
    BY <1>0, <1>1, <1>4 DEF Typed, Caches
  <1>7. Lasting' /\ LocalCurrent'
    BY <1>0, <1>2, <1>6 DEF Lasting, LocalCurrent
  <1>8. Held' /\ AgentCurrent' /\ KeeperServed' /\ KeeperHolds'
    BY <1>0, <1>1, <1>6 DEF Held, AgentCurrent, KeeperServed, KeeperHolds, Reachable, Listening, agentVars
  <1>9. Fewer /\ \A l \in Keys : Steady(l)
    BY <1>1, <1>6 DEF Fewer, Steady, Reachable, ReachableNext, Listening, agentVars
  <1>10. \A d \in Clients : ClientOK(d)' /\ client'[d] \in Request
    BY <1>1, <1>9, BystandersCleared
  <1>11. client' \in [Clients -> Request]
    BY <1>1, <1>10 DEF Noted
  <1> QED
    BY <1>0, <1>1, <1>3, <1>5, <1>7, <1>8, <1>10, <1>11, WorldStep DEF Typed, Coherent

\* Time only shortens lives, equally for equal entries.
LEMMA AgedFacts ==
    ASSUME NEW f \in Caches
    PROVE  /\ Aged(f) \in Caches
           /\ \A k \in Keys : /\ Aged(f)[k] = NoVal <=> f[k] = NoVal
                              /\ Live(Aged(f)[k]) => Live(f[k]) /\ Aged(f)[k].value = f[k].value
           /\ \A g \in Caches, k \in Keys : f[k] = g[k] => Aged(f)[k] = Aged(g)[k]
  <1>1. ASSUME NEW g \in Caches, NEW k \in Keys
        PROVE  /\ Aged(g)[k] \in Entry \cup {NoVal} /\ (Aged(g)[k] = NoVal <=> g[k] = NoVal)
               /\ Live(Aged(g)[k]) => Live(g[k]) /\ Aged(g)[k].value = g[k].value
    <2>1. Aged(g)[k] = IF Live(g[k]) THEN [g[k] EXCEPT !.left = @ - 1] ELSE g[k]
      BY DEF Aged
    <2>2. CASE Live(g[k])
      <3>1. g[k] \in Entry /\ g[k].left \in Nat /\ g[k].left > 0
        BY <2>2 DEF Live, Caches, Entry
      <3>2. [g[k] EXCEPT !.left = @ - 1] \in Entry /\ [g[k] EXCEPT !.left = @ - 1].value = g[k].value
        BY <3>1 DEF Entry
      <3>3. NoVal \notin Entry
        BY AgentAssumption
      <3> QED
        BY <2>1, <2>2, <3>1, <3>2, <3>3
    <2>3. CASE ~Live(g[k])
      BY <2>1, <2>3 DEF Caches
    <2> QED
      BY <2>1, <2>2, <2>3
  <1>2. Aged(f) \in Caches
    BY <1>1 DEF Aged, Caches
  <1>3. ASSUME NEW g \in Caches, NEW k \in Keys, f[k] = g[k] PROVE Aged(f)[k] = Aged(g)[k]
    <2>1. /\ Aged(f)[k] = IF Live(f[k]) THEN [f[k] EXCEPT !.left = @ - 1] ELSE f[k]
          /\ Aged(g)[k] = IF Live(g[k]) THEN [g[k] EXCEPT !.left = @ - 1] ELSE g[k]
      BY DEF Aged
    <2> QED
      BY <1>3, <2>1
  <1>4. \A k \in Keys : /\ Aged(f)[k] = NoVal <=> f[k] = NoVal
                        /\ Live(Aged(f)[k]) => Live(f[k]) /\ Aged(f)[k].value = f[k].value
    BY <1>1
  <1> QED
    BY <1>2, <1>3, <1>4

\* A unit of time passes.
LEMMA TickStep ==
    ASSUME IInv, Tick
    PROVE  IInv'
  <1> DEFINE old(s) == Aged(current[s])
             new(s) == [k \in Keys |-> IF Live(old(s)[k]) THEN old(s)[k] ELSE NoVal]
             aged == [s \in {"agent", "local"} |-> new(s)]
             gone == {k \in Keys : current'["agent"][k] = NoVal}
  <1>0. Typed /\ Held /\ Lasting /\ LocalCurrent /\ AgentCurrent /\ KeeperServed /\ KeeperHolds
    BY DEF IInv
  <1>1. /\ cache' = [a \in Agents |-> Aged(cache[a])] /\ local' = Aged(local)
        /\ current' = aged
        /\ keeper' = [k \in Keys |-> IF current'["agent"][k] = NoVal THEN NoFile ELSE keeper[k]]
        /\ client' = Noted(client, gone, NoVal, "agent")
        /\ UNCHANGED agentVars
    BY DEF Tick
  <1>2. \A s \in {"agent", "local"} : current[s] \in Caches /\ old(s) \in Caches
    BY <1>0, AgedFacts DEF Typed
  <1> HIDE DEF old
  <1>3. current' \in [{"agent", "local"} -> Caches]
    <2>1. \A s \in {"agent", "local"} : new(s) \in Caches
      BY <1>2 DEF Caches
    <2> HIDE DEF new
    <2> QED
      BY <1>1, <2>1
  <1>4. \A s \in {"agent", "local"}, k \in Keys :
          current'[s][k] = IF Live(old(s)[k]) THEN old(s)[k] ELSE NoVal
    BY <1>1
  <1>5. cache' \in [Agents -> Caches] /\ local' \in Caches
    BY <1>0, <1>1, AgedFacts DEF Typed
  <1>6. keeper' \in [Keys -> Agents \cup {NoFile}]
        /\ \A k \in Keys : keeper'[k] = IF current'["agent"][k] = NoVal THEN NoFile ELSE keeper[k]
    BY <1>0, <1>1 DEF Typed
  <1>7. Held'
    <2>1. ASSUME NEW a \in Agents, cache[a] = Empty PROVE cache'[a] = Empty
      <3>1. \A k \in Keys : ~Live(Empty[k])
        BY DEF Empty, Live
      <3>2. Aged(Empty) = Empty
        BY <3>1 DEF Aged, Empty
      <3> QED
        BY <1>1, <2>1, <3>2
    <2> QED
      BY <1>0, <1>1, <2>1 DEF Held, agentVars
  <1>8. Lasting'
    BY <1>4 DEF Lasting
  <1>9. LocalCurrent'
    <2>1. ASSUME NEW k \in Keys, Live(local'[k]) PROVE current'["local"][k] = local'[k]
      <3>1. local \in Caches /\ current["local"] \in Caches /\ local' = Aged(local)
        BY <1>0, <1>1, <1>2 DEF Typed
      <3>2. Live(local[k])
        BY <2>1, <3>1, AgedFacts
      <3>3. current["local"][k] = local[k]
        BY <1>0, <3>2 DEF LocalCurrent
      <3>4. old("local")[k] = local'[k]
        BY <3>1, <3>3, AgedFacts DEF old
      <3> QED
        BY <1>4, <2>1, <3>4
    <2> QED
      BY <2>1 DEF LocalCurrent
  <1>10. \A b : Reachable(b)' <=> Reachable(b)
    BY <1>1 DEF Reachable, Listening, agentVars
  <1>11. AgentCurrent'
    <2>1. ASSUME NEW a \in Agents, NEW k \in Keys, Reachable(a), Live(cache'[a][k])
          PROVE  current'["agent"][k] = cache'[a][k]
      <3>1. cache[a] \in Caches /\ current["agent"] \in Caches /\ cache'[a] = Aged(cache[a])
        BY <1>0, <1>1, <1>2 DEF Typed
      <3>2. Live(cache[a][k])
        BY <2>1, <3>1, AgedFacts
      <3>3. current["agent"][k] = cache[a][k]
        BY <1>0, <2>1, <3>2 DEF AgentCurrent
      <3>4. old("agent")[k] = cache'[a][k]
        BY <3>1, <3>3, AgedFacts DEF old
      <3> QED
        BY <1>4, <2>1, <3>4
    <2> QED
      BY <1>10, <2>1 DEF AgentCurrent
  \* What is still current was current before.
  <1>12. ASSUME NEW k \in Keys, current'["agent"][k] # NoVal
         PROVE  /\ current["agent"][k] # NoVal /\ current'["agent"][k] = old("agent")[k]
                /\ current'["agent"][k].value = current["agent"][k].value
    <2>1. Live(old("agent")[k]) /\ current'["agent"][k] = old("agent")[k]
      BY <1>4, <1>12
    <2>2. Live(current["agent"][k]) /\ old("agent")[k].value = current["agent"][k].value
      BY <1>2, <2>1, AgedFacts DEF old
    <2> QED
      BY <2>1, <2>2 DEF Live
  <1>13. KeeperServed'
    BY <1>0, <1>1, <1>6 DEF KeeperServed, agentVars
  <1>14. KeeperHolds'
    <2>1. ASSUME NEW k \in Keys, current'["agent"][k] # NoVal, Reachable(keeper'[k])
          PROVE  cache'[keeper'[k]][k] = current'["agent"][k]
      <3>1. keeper'[k] = keeper[k] /\ keeper[k] \in Agents /\ Reachable(keeper[k])
        BY <1>6, <2>1 DEF Reachable, Listening
      <3>2. cache[keeper[k]][k] = current["agent"][k]
        BY <1>0, <1>12, <2>1, <3>1 DEF KeeperHolds
      <3>3. cache[keeper[k]] \in Caches /\ current["agent"] \in Caches
            /\ cache'[keeper[k]] = Aged(cache[keeper[k]])
        BY <1>0, <1>1, <1>2, <3>1 DEF Typed
      <3>4. cache'[keeper[k]][k] = old("agent")[k]
        BY <3>2, <3>3, AgedFacts DEF old
      <3> QED
        BY <1>12, <2>1, <3>1, <3>4
    <2>2. \A k \in Keys : Reachable(keeper[k])' => Reachable(keeper'[k])
      BY <1>1 DEF Reachable, Listening, agentVars
    <2> QED
      BY <2>1, <2>2 DEF KeeperHolds
  <1>15. Fewer
    <2>1. ASSUME NEW a \in Agents, NEW k \in Keys, Live(cache'[a][k])
          PROVE  Live(cache[a][k]) /\ cache'[a][k].value = cache[a][k].value
      <3>1. cache[a] \in Caches /\ cache'[a] = Aged(cache[a])
        BY <1>0, <1>1 DEF Typed
      <3> QED
        BY <2>1, <3>1, AgedFacts
    <2> QED
      BY <1>12, <2>1 DEF Fewer
  <1>16. \A k \in Keys \ gone : Steady(k)
    BY <1>1, <1>6, <1>12 DEF Steady, Reachable, ReachableNext, Listening, agentVars
  <1> HIDE DEF gone
  <1>17. \A d \in Clients : ClientOK(d)' /\ client'[d] \in Request
    BY <1>1, <1>15, <1>16, BystandersCleared
  <1>18. client' \in [Clients -> Request]
    BY <1>1, <1>17 DEF Noted
  <1> QED
    BY <1>1, <1>3, <1>5, <1>6, <1>7, <1>8, <1>9, <1>11, <1>13, <1>14, <1>17, <1>18, WorldStep
       DEF Coherent

-----------------------------------------------------------------------------
(* The theorems *)

\* Every step of the agents, the terminals, the lookups and the clock
\* preserves the inductive invariant.
THEOREM AgentInvariant == Spec => []IInv
  <1>1. Init => IInv
    <2> SUFFICES ASSUME Init PROVE IInv
      OBVIOUS
    <2>1. \A k \in Keys : Empty[k] = NoVal /\ ~Live(Empty[k])
      BY DEF Empty, Live
    <2>2. Typed
      <3>1. Empty \in Caches
        BY DEF Empty, Caches
      <3> QED
        BY <3>1, QuietTyped DEF Init, Typed, Places
    <2>3. OneActivated /\ Seen /\ Held
      BY DEF Init, OneActivated, Seen, Held, Listening
    <2>4. Lasting /\ LocalCurrent /\ AgentCurrent
      BY <2>1 DEF Init, Lasting, LocalCurrent, AgentCurrent
    <2>5. KeeperServed /\ KeeperHolds
      BY <2>1 DEF Init, KeeperServed, KeeperHolds
    <2>6. ASSUME NEW c \in Clients PROVE Requested(c) /\ Allowed(c) /\ Owing(c)
      <3>1. client[c].at = "done" /\ client[c].job = "none"
        BY QuietTyped DEF Init
      <3> QED
        BY <3>1 DEF Requested, Allowed, Owing
    <2> QED
      BY <2>2, <2>3, <2>4, <2>5, <2>6 DEF IInv
  <1>2. IInv /\ [Next]_vars => IInv'
    <2>1. ASSUME IInv, Next PROVE IInv'
      <3>1. CASE ProcessStep
        BY <2>1, <3>1, ProcessStepOK
      <3>2. ASSUME NEW c \in Clients, NEW job \in {"set", "show", "clear", "list", "status", "clearAll"},
                   NEW k \in Keys, NEW v \in Values \cup {NoVal}, NEW ttl \in TTLs \cup {0},
                   Begin(c, job, k, v, ttl)
            PROVE  IInv'
        <4>1. job \in Jobs \ {"get"}
          BY DEF Jobs
        <4> QED
          BY <2>1, <3>2, <4>1, BeginStep
      <3>3. ASSUME NEW c \in Clients, \/ \E a \in Agents : Send(c, a)
                                      \/ Handle(c) \/ Answered(c) \/ Fails(c)
                                      \/ \E k \in Keys : Lookup(c, k)
                                      \/ Fetched(c)
                                      \/ \E fails \in BOOLEAN : RunCommand(c, fails)
            PROVE  IInv'
        BY <2>1, <3>3, SendStep, HandleStep, ReturnStep, LookupStep, FetchedStep, CommandStep
      <3>4. ASSUME NEW k \in Keys, NEW v \in Values \cup {NoVal}, CacheLocally(k, v) PROVE IInv'
        BY <2>1, <3>4, CacheLocallyStep
      <3>5. CASE Tick
        BY <2>1, <3>5, TickStep
      <3> QED
        BY <2>1, <3>1, <3>2, <3>3, <3>4, <3>5 DEF Next, ProcessStep
    <2>2. ASSUME IInv, UNCHANGED vars PROVE IInv'
      <3> USE <2>2 DEF vars
      <3>1. Typed' /\ OneActivated' /\ Seen' /\ Held'
        BY DEF IInv, Typed, OneActivated, Seen, Held, Listening
      <3>2. Lasting' /\ LocalCurrent' /\ AgentCurrent' /\ KeeperServed' /\ KeeperHolds'
        BY DEF IInv, Lasting, LocalCurrent, AgentCurrent, KeeperServed, KeeperHolds, Reachable, Listening
      <3>3. \A c \in Clients : Requested(c)' /\ Allowed(c)' /\ Owing(c)'
        BY DEF IInv, Requested, Allowed, Owing, Reachable, Listening
      <3> QED
        BY <3>1, <3>2, <3>3 DEF IInv
    <2> QED
      BY <2>1, <2>2
  <1> QED
    BY <1>1, <1>2, PTL DEF Spec

\* The types of the caches and requests; and systemd has at most one agent
\* serve the socket it keeps (Activate).
THEOREM AgentTypeCorrect == Spec => []AgentTypeOK
  <1>1. IInv => AgentTypeOK
    <2> SUFFICES ASSUME IInv PROVE AgentTypeOK
      OBVIOUS
    <2>1. ASSUME NEW c \in Clients
          PROVE  /\ client[c].at \in {"connect", "sent", "answered", "command", "done"}
                 /\ client[c].agent \in Agents \cup {NoFile}
                 /\ (client[c].at = "sent") => client[c].agent # NoFile
      <3>1. client[c] \in Request /\ Requested(c)
        BY DEF IInv, Typed
      <3> QED
        BY <3>1, AgentAssumption DEF Request, Requested
    <2>2. activated => Cardinality({a \in Agents : Listening(a)}) <= 1
      <3> DEFINE L == {a \in Agents : Listening(a)}
      <3> SUFFICES ASSUME activated PROVE Cardinality(L) <= 1
        OBVIOUS
      <3>1. \A a, b \in L : a = b
        BY DEF IInv, OneActivated
      <3>2. CASE L = {}
        BY <3>2, FS_EmptySet
      <3>3. ASSUME NEW a \in L PROVE Cardinality(L) <= 1
        <4>1. L = {a}
          BY <3>1, <3>3
        <4> QED
          BY <4>1, FS_Singleton
      <3> QED
        BY <3>2, <3>3
    <2> QED
      BY <2>1, <2>2 DEF IInv, Typed, Held, AgentTypeOK, Places, Caches
  <1> QED
    BY <1>1, AgentInvariant, PTL

\* A credential a lookup answers with was the one set last, neither cleared
\* nor expired, at some instant since the lookup began: for any number of
\* agents that come, go and overtake each other (resolve_sudo_password, _get).
THEOREM CredentialsAreFresh == Spec => []FreshCredential
  <1>1. IInv => FreshCredential
    BY DEF IInv, Allowed, FreshCredential
  <1> QED
    BY <1>1, AgentInvariant, PTL

\* A lookup that starts after a set answers with it, unless it was replaced,
\* cleared or expired meanwhile, or the agent or the request was lost.
THEOREM LookupsReadWrites == Spec => []ReadYourWrites
  <1>1. IInv => ReadYourWrites
    BY DEF IInv, Owing, ReadYourWrites
  <1> QED
    BY <1>1, AgentInvariant, PTL

\* A process that found an agent listening when it probed never takes that
\* agent's socket file away (_bind_socket).
THEOREM SocketNotTaken == Spec => NoTakeover
  <1> DEFINE Takes == \A a, b \in Agents :
                (Listening(a) /\ path = a /\ path' # a /\ proc[b] # proc'[b]) => a \notin saw[b]
  <1>1. IInv => Takes
    BY DEF IInv, Seen
  <1>2. IInv => [Takes]_vars
    BY <1>1
  <1> QED
    BY <1>2, AgentInvariant, PTL DEF NoTakeover

=============================================================================
