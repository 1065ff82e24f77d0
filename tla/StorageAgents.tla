---------------------------- MODULE StorageAgents ----------------------------
(***************************************************************************)
(* The cache of storage agents (storage_agent.py): get_agent keeps one     *)
(* agent per user and array, replaces it when the password has changed,    *)
(* and each agent owns a connection pool of mediators of one class.  A     *)
(* call that does not know the type of the array has it detected by the    *)
(* ports that answer.                                                      *)
(*                                                                         *)
(* The pool is modelled in detail in ConnectionPool; here it is what that  *)
(* module is proved to promise, sessions that are free or lent to one      *)
(* call, at most MaxSize of them, and in addition sessions that die.       *)
(*                                                                         *)
(* An agent lives as long as the cache or a call refers to it; with the    *)
(* last reference goes the agent, and ConnectionPool.__del__ closes the    *)
(* sessions in the thread that dropped it.                                 *)
(***************************************************************************)
EXTENDS Integers, Sequences, FiniteSets, FiniteSetsExt, ArrayMediator

CONSTANTS Threads,        \* handler threads
          Keys,           \* (username, endpoints) pairs
          Kind,           \* the type of the array behind each
          Endpoints,      \* the number of endpoints of each
          Passwords,      \* the passwords that calls for each key come with
          Agents,         \* identities of agents, enough for all that live at once
          NoAgent,
          MaxConnections, \* max_connections of each mediator class
          Workers,        \* CSI_CONTROLLER_SERVER_WORKERS
          MaxLost         \* bound: arrays whose probes time out

Classes == DOMAIN Mediators

ASSUME AgentsAssumption ==
    /\ IsFiniteSet(Threads) /\ IsFiniteSet(Keys) /\ IsFiniteSet(Agents) /\ NoAgent \notin Agents
    /\ \A k \in Keys : IsFiniteSet(Passwords[k])
    /\ Kind \in [Keys -> Classes] /\ Endpoints \in [Keys -> Nat]
    /\ MaxConnections \in [Classes -> Nat \ {0}]
    /\ \A c \in Classes : MaxConnections[c] <= Mediators[c].connections
    /\ MaxConnections["svc"] <= MaxConnections["ds8k"]
    /\ Workers \in Nat \ {0}
    /\ Cardinality(Agents) > Cardinality(Keys) + Cardinality(Threads)
    /\ MaxLost \in Nat

VARIABLES cached,         \* _array_agents
          lock,           \* the threads that hold the module's lock
          agent,          \* key, password, class and free sessions of each agent
          pc, call, mine, \* each thread: its step, its arguments, its agent
          session,        \* and its session
          lost            \* the arrays of which a probe timed out

vars == <<cached, lock, agent, pc, call, mine, session, lost>>

NoCall == [key |-> "none", password |-> "none", type |-> "none"]
Fresh  == [key |-> "none", password |-> "none", class |-> "none", live |-> 0, dead |-> 0]

\* A session was alive or dead when it was given, and was waited for or not.
NoSession == [state |-> "none", waited |-> FALSE]

GoTo(t, step) == pc' = [pc EXCEPT ![t] = step]

Made == {a \in Agents : agent[a] # Fresh}

\* The calls that have a session of agent a, and the sessions it has open.
Users(a)   == {t \in Threads : pc[t] = "use" /\ mine[t] = a}
Open(a)    == agent[a].live + agent[a].dead + Cardinality(Users(a))
MaxSize(c) == Min({MaxConnections[c], Workers})

\* A reference to agent a, whose pool has these free sessions, was dropped: with
\* the last one __del__ closes them.
Drop(a, live, dead) ==
    agent' = [agent EXCEPT ![a] = IF \/ \E k \in Keys : cached'[k] = a
                                     \/ \E t \in Threads : mine'[t] = a
                                    THEN [@ EXCEPT !.live = live, !.dead = dead]
                                    ELSE Fresh]

-----------------------------------------------------------------------------
\* An RPC comes with the secrets of an array; an id in it names the type of the
\* array, a request to create a volume does not.
Request(t) ==
    /\ pc[t] = "idle"
    /\ \E k \in Keys : \E w \in Passwords[k], type \in {"none", Kind[k]} :
         call' = [call EXCEPT ![t] = [key |-> k, password |-> w, type |-> type]]
    /\ GoTo(t, "lock")
    /\ UNCHANGED <<cached, lock, agent, mine, session, lost>>

Reuse(t, a) ==
    /\ mine' = [mine EXCEPT ![t] = a]
    /\ call' = [call EXCEPT ![t].type = "none"]
    /\ GoTo(t, "get")
    /\ UNCHANGED <<lock, cached, agent>>

Replace(t, a) ==
    /\ cached' = [cached EXCEPT ![call[t].key] = NoAgent]
    /\ lock' = lock \cup {t}
    /\ GoTo(t, IF call[t].type = "none" THEN "detect" ELSE "login")
    /\ UNCHANGED <<mine, call>>
    /\ IF a = NoAgent THEN UNCHANGED agent ELSE Drop(a, agent[a].live, agent[a].dead)

Found(t) == cached[call[t].key]
Usable(t) == Found(t) # NoAgent /\ agent[Found(t)].password = call[t].password

\* Mutated form of Find: the password is not compared.
FindAny(t) ==
    /\ pc[t] = "lock" /\ lock = {}
    /\ IF Found(t) # NoAgent THEN Reuse(t, Found(t)) ELSE Replace(t, NoAgent)
    /\ UNCHANGED <<session, lost>>

\* Mutated form of Find: the lock is not taken.
FindUnlocked(t) ==
    /\ pc[t] = "lock"
    /\ IF Usable(t) THEN Reuse(t, Found(t)) ELSE Replace(t, Found(t))
    /\ UNCHANGED <<session, lost>>

\* get_agent, with lock: an agent with the same password is used; one with
\* another password is dropped from the cache, and a new one is made.
Find(t) ==
    /\ pc[t] = "lock" /\ lock = {}
    /\ \/ Usable(t) /\ Reuse(t, Found(t))
       \/ ~Usable(t) /\ Replace(t, Found(t))
    /\ UNCHANGED <<session, lost>>

\* array_type_to_port: the order of the probes.
ProbeOrder == <<"xiv", "ds8k", "svc">>

\* The classes whose port is open on an array: a DS8K has port 22 as an SVC has.
Answers(kind) == IF kind = "ds8k" THEN {"ds8k", "svc"} ELSE {kind}

\* detect_array_type: the first class whose port accepts a connection; a probe
\* takes a second at most, and may fail on a port that is open.
DetectArrayType(t) ==
    LET k == call[t].key IN
    /\ pc[t] = "detect"
    /\ \E silent \in SUBSET Answers(Kind[k]) :
         LET open == {i \in 1..3 : ProbeOrder[i] \in Answers(Kind[k]) \ silent} IN
         /\ silent # {} => Cardinality(lost \cup {k}) <= MaxLost
         /\ lost' = IF silent = {} THEN lost ELSE lost \cup {k}
         /\ \/ /\ open # {}
               /\ call' = [call EXCEPT ![t].type = ProbeOrder[Min(open)]]
               /\ GoTo(t, "login") /\ UNCHANGED lock
            \/ /\ open = {}       \* FailedToFindStorageSystemType
               /\ call' = [call EXCEPT ![t] = NoCall]
               /\ GoTo(t, "idle") /\ lock' = lock \ {t}
    /\ UNCHANGED <<cached, agent, mine, session>>

\* Can a mediator of this class log in?  SVC takes one endpoint only; that a DS8K
\* lets the client of an SVC in is not excluded.
LogsIn(class, k) ==
    /\ class \in Answers(Kind[k])
    /\ class = "svc" => Endpoints[k] = 1

\* StorageAgent and ConnectionPool: the first session is made with the lock held.
Login(t) ==
    LET k == call[t].key IN
    /\ pc[t] = "login" /\ LogsIn(call[t].type, k)
    /\ LET a == CHOOSE b \in Agents : b \notin Made IN
         /\ agent' = [agent EXCEPT ![a] = [key |-> k, password |-> call[t].password,
                                            class |-> call[t].type, live |-> 1, dead |-> 0]]
         /\ cached' = [cached EXCEPT ![k] = a]
         /\ mine' = [mine EXCEPT ![t] = a]
    /\ call' = [call EXCEPT ![t].type = "none"]
    /\ lock' = lock \ {t} /\ GoTo(t, "get")
    /\ UNCHANGED <<session, lost>>

\* Mutated form of LoginFails: a refused login is tried again.
LoginRetries(t) ==
    /\ pc[t] = "login"
    /\ lock' = lock \ {t} /\ GoTo(t, "lock")
    /\ UNCHANGED <<cached, agent, mine, call, session, lost>>

\* The login is refused: the exception leaves the with block, and ends the RPC.
LoginFails(t) ==
    /\ pc[t] = "login"
    /\ lock' = lock \ {t} /\ GoTo(t, "idle")
    /\ call' = [call EXCEPT ![t] = NoCall]
    /\ UNCHANGED <<cached, agent, mine, session, lost>>

-----------------------------------------------------------------------------
Give(t, state, waited, live, dead) ==
    /\ session' = [session EXCEPT ![t] = [state |-> state, waited |-> waited]]
    /\ agent' = [agent EXCEPT ![mine[t]].live = live, ![mine[t]].dead = dead]
    /\ GoTo(t, "use")
    /\ UNCHANGED <<cached, lock, call, mine, lost>>

\* is_active: the mediator of an XIV says yes whatever state its session is in.
Noticed(a) == IF agent[a].class = "xiv" THEN 0 ELSE agent[a].dead

\* Mutated form of TakeFree: a free session is not checked.
TakeFreeUnchecked(t) ==
    LET a == mine[t] IN
    /\ pc[t] = "get"
    /\ \/ agent[a].live > 0 /\ Give(t, "live", FALSE, agent[a].live - 1, agent[a].dead)
       \/ agent[a].dead > 0 /\ Give(t, "dead", FALSE, agent[a].live, agent[a].dead - 1)

\* conn_pool.get: the first free session that is active; the inactive ones before
\* it are closed.
TakeFree(t) ==
    LET a == mine[t] IN
    /\ pc[t] = "get"
    /\ \/ /\ agent[a].live > 0
          /\ \E closed \in 0..Noticed(a) :
               Give(t, "live", FALSE, agent[a].live - 1, agent[a].dead - closed)
       \/ /\ agent[a].dead > Noticed(a)
          /\ Give(t, "dead", FALSE, agent[a].live, agent[a].dead - 1)

\* No free session is left: a new one if there is room.  Sessions that were put
\* back since the queue was found empty stay there.
Create(t) ==
    LET a == mine[t] IN
    /\ pc[t] = "get"
    /\ \E closed \in 0..Noticed(a) :
         /\ Open(a) - closed < MaxSize(agent[a].class)
         /\ Give(t, "live", FALSE, agent[a].live, agent[a].dead - closed)

\* There is no room: the call waits in channel.get ...
Wait(t) ==
    /\ pc[t] = "get" /\ Open(mine[t]) >= MaxSize(agent[mine[t]].class)
    /\ GoTo(t, "wait")
    /\ UNCHANGED <<cached, lock, agent, call, mine, session, lost>>

\* ... and takes what is put back as it is.
TakeReturned(t) ==
    LET a == mine[t] IN
    /\ pc[t] = "wait"
    /\ \/ agent[a].live > 0 /\ Give(t, "live", TRUE, agent[a].live - 1, agent[a].dead)
       \/ agent[a].dead > 0 /\ Give(t, "dead", TRUE, agent[a].live, agent[a].dead - 1)

\* The RPC ends and lets go of its agent, whose pool has these free sessions.
Leave(t, live, dead) ==
    /\ mine' = [mine EXCEPT ![t] = NoAgent]
    /\ call' = [call EXCEPT ![t] = NoCall]
    /\ session' = [session EXCEPT ![t] = NoSession]
    /\ GoTo(t, "idle")
    /\ UNCHANGED <<cached, lock, lost>>
    /\ Drop(mine[t], live, dead)

\* A new session is refused in conn_pool.get.
GetFails(t) ==
    LET a == mine[t] IN
    /\ pc[t] = "get"
    /\ \E closed \in 0..Noticed(a) :
         /\ Open(a) - closed < MaxSize(agent[a].class)
         /\ Leave(t, agent[a].live, agent[a].dead - closed)

\* get_mediator's finally clause: conn_pool.put, of a session that may have died
\* in use.
PutMediator(t) ==
    LET a == mine[t] IN
    /\ pc[t] = "use"
    /\ \/ session[t].state = "live" /\ Leave(t, agent[a].live + 1, agent[a].dead)
       \/ Leave(t, agent[a].live, agent[a].dead + 1)

\* A free session is ended by the array or the network.
Die(a) ==
    /\ agent[a].live > 0
    /\ agent' = [agent EXCEPT ![a].live = @ - 1, ![a].dead = @ + 1]
    /\ UNCHANGED <<cached, lock, pc, call, mine, session, lost>>

-----------------------------------------------------------------------------
Init ==
    /\ cached = [k \in Keys |-> NoAgent]
    /\ lock = {}
    /\ agent = [a \in Agents |-> Fresh]
    /\ pc = [t \in Threads |-> "idle"]
    /\ call = [t \in Threads |-> NoCall]
    /\ mine = [t \in Threads |-> NoAgent]
    /\ session = [t \in Threads |-> NoSession]
    /\ lost = {}

GetAgent(t) == Find(t) \/ DetectArrayType(t) \/ Login(t) \/ LoginFails(t)
GetMediator(t) == TakeFree(t) \/ Create(t) \/ Wait(t) \/ TakeReturned(t) \/ GetFails(t)

Next == \/ \E t \in Threads : Request(t) \/ GetAgent(t) \/ GetMediator(t) \/ PutMediator(t)
        \/ \E a \in Agents : Die(a)

Spec == Init /\ [][Next]_vars

\* get_agent goes on once it has the lock, as the probes and the login it makes
\* there end one way or the other; and who waits for the lock gets it if it is free again and
\* again.
FairSpec == Spec /\ \A t \in Threads : SF_vars(GetAgent(t))

-----------------------------------------------------------------------------
(***************************************************************************)
(* Properties                                                              *)
(***************************************************************************)

\* The types; and one thread at most is inside get_agent, the one that logs in.
TypeOK ==
    /\ cached \in [Keys -> Agents \cup {NoAgent}]
    /\ mine \in [Threads -> Agents \cup {NoAgent}]
    /\ pc \in [Threads -> {"idle", "lock", "detect", "login", "get", "wait", "use"}]
    /\ \A a \in Agents : agent[a].live \in Nat /\ agent[a].dead \in Nat
    /\ \A t \in Threads : session[t].state \in {"none", "live", "dead"} /\ session[t].waited \in BOOLEAN
    /\ lock = {t \in Threads : pc[t] \in {"detect", "login"}} /\ Cardinality(lock) <= 1
    /\ lost \subseteq Keys

\* A call only ever uses sessions that were opened with its own user, array and
\* password, also when the agent is replaced in the cache while the call runs.
OwnPassword ==
    \A t \in Threads : mine[t] # NoAgent =>
        agent[mine[t]].key = call[t].key /\ agent[mine[t]].password = call[t].password

\* A user whose password does not change has no more sessions open at an array,
\* over all agents that were ever made for it, than max_connections allows.
KeyLimit ==
    \A k \in Keys : Cardinality(Passwords[k]) = 1 =>
        MapThenSumSet(Open, {a \in Made : agent[a].key = k}) <= MaxSize(Kind[k])

\* A call has a mediator of the class of its array.  The cached agent is used
\* whatever type the call names; only a probe that timed out on a DS8K puts an
\* agent of another class there.
RightMediator ==
    \A t \in Threads : mine[t] # NoAgent =>
        \/ agent[mine[t]].class = Kind[call[t].key]
        \/ Kind[call[t].key] = "ds8k" /\ call[t].key \in lost

\* A call is given a dead session only if it waited for one, or on an XIV.
CheckedSession ==
    \A t \in Threads : session[t].state = "dead" =>
        session[t].waited \/ agent[mine[t]].class = "xiv"

\* get_agent returns an agent or raises: probes and logins are made with the lock
\* of all arrays held, but no refused login and no replaced agent keeps it.
AgentAnswered == \A t \in Threads : pc[t] \in {"lock", "detect", "login"} ~> pc[t] \in {"get", "idle"}

\* The agent a call gets from get_agent, cached or new, is of its own password and
\* speaks the language of its array.
RightAgent == TypeOK /\ OwnPassword /\ RightMediator
=============================================================================
