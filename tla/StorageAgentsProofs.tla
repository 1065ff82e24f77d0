------------------------ MODULE StorageAgentsProofs ------------------------
(***************************************************************************)
(* The safety of StorageAgents for any number of threads, keys, passwords, *)
(* endpoints and sessions.                                                 *)
(***************************************************************************)
EXTENDS StorageAgents, FiniteSetTheorems, TLAPS

AnyPassword == UNION {Passwords[k] : k \in Keys}
AgentRecs == [key : Keys, password : AnyPassword, class : Classes, live : Nat, dead : Nat]
Calls     == [key : Keys, password : AnyPassword, type : Classes \cup {"none"}]
Sessions  == [state : {"none", "live", "dead"}, waited : BOOLEAN]
Steps     == {"idle", "lock", "detect", "login", "get", "wait", "use"}
HasAgent  == {"get", "wait", "use"}
Locked    == {"detect", "login"}

\* The records, and which fields are set at which step of a call.
Typed ==
    /\ cached \in [Keys -> Agents \cup {NoAgent}]
    /\ mine \in [Threads -> Agents \cup {NoAgent}]
    /\ pc \in [Threads -> Steps]
    /\ agent \in [Agents -> {Fresh} \cup AgentRecs]
    /\ call \in [Threads -> {NoCall} \cup Calls]
    /\ session \in [Threads -> Sessions]
    /\ lost \subseteq Keys
    /\ \A t \in Threads :
         /\ pc[t] # "idle" => call[t] \in Calls /\ call[t].password \in Passwords[call[t].key]
         /\ mine[t] # NoAgent <=> pc[t] \in HasAgent
         /\ pc[t] # "use" => session[t] = NoSession

\* The lock is held by the thread that probes or logs in, and by no other; its
\* key has no agent in the cache meanwhile.
LockOwned ==
    /\ lock = {t \in Threads : pc[t] \in Locked}
    /\ \A t, u \in lock : t = u
    /\ \A t \in lock : cached[call[t].key] = NoAgent

\* An agent exists exactly while the cache or a call refers to it.
Alive ==
    /\ \A k \in Keys : cached[k] # NoAgent => agent[cached[k]] # Fresh /\ agent[cached[k]].key = k
    /\ \A t \in Threads : mine[t] # NoAgent => agent[mine[t]] # Fresh
    /\ \A a \in Agents : agent[a] # Fresh => \/ \E k \in Keys : cached[k] = a
                                             \/ \E t \in Threads : mine[t] = a

\* The class fits the array behind the key, or the probe of its port timed out.
Fits(class, k, silent) == class = Kind[k] \/ (class = "svc" /\ Kind[k] = "ds8k" /\ k \in silent)

\* What a call is about to log in with, and what an agent was made with, fits.
Suited ==
    /\ \A t \in Threads : /\ pc[t] = "lock" => call[t].type = "none" \/ Fits(call[t].type, call[t].key, lost)
                          /\ pc[t] = "login" => Fits(call[t].type, call[t].key, lost)
    /\ \A a \in Agents : agent[a] # Fresh => /\ agent[a].password \in Passwords[agent[a].key]
                                             /\ Fits(agent[a].class, agent[a].key, lost)

\* A user whose password never changes has one agent per array, the cached one.
OnlyCached ==
    \A a \in Agents : agent[a] # Fresh /\ Cardinality(Passwords[agent[a].key]) = 1
                        => cached[agent[a].key] = a

\* Each agent keeps to the number of sessions of its class.
AgentLimit == \A a \in Agents : agent[a] # Fresh => Open(a) <= MaxSize(agent[a].class)

\* The inductive invariant.
IInv == Typed /\ LockOwned /\ Alive /\ Suited /\ OwnPassword /\ OnlyCached /\ AgentLimit /\ CheckedSession

-----------------------------------------------------------------------------
(***************************************************************************)
(* Facts about the operators.                                              *)
(***************************************************************************)

\* The three classes.
LEMMA ClassesAre == Classes = {"svc", "xiv", "ds8k"}
  BY DEF Classes, Mediators

\* A record of an agent is not the one of an identity that is not in use, whatever
\* sessions it has.
LEMMA NotFresh == ASSUME NEW r \in AgentRecs PROVE r # Fresh
  BY ClassesAre DEF AgentRecs, Fresh

\* The smaller of two numbers.
LEMMA MinOfTwo == ASSUME NEW m \in Nat, NEW n \in Nat
                  PROVE Min({m, n}) \in Nat /\ Min({m, n}) = IF m <= n THEN m ELSE n
  BY DEF Min

\* max_size of a pool: max_connections of its class, or the number of workers.
LEMMA MaxSizeIs == ASSUME NEW c \in Classes
                   PROVE /\ MaxSize(c) \in Nat \ {0}
                         /\ MaxSize(c) = IF MaxConnections[c] <= Workers THEN MaxConnections[c] ELSE Workers
  <1>1. MaxConnections[c] \in Nat \ {0} /\ Workers \in Nat \ {0}
    BY AgentsAssumption
  <1> QED
    BY <1>1, MinOfTwo DEF MaxSize

\* The callers of an agent are finitely many.
LEMMA UsersFinite == ASSUME NEW a PROVE IsFiniteSet(Users(a)) /\ Cardinality(Users(a)) \in Nat
  BY AgentsAssumption, FS_Subset, FS_CardinalityType DEF Users

\* There is an identity for a new agent: the cache and the calls refer to fewer.
LEMMA FreeAgent == ASSUME Typed, Alive PROVE \E a \in Agents : a \notin Made
  <1> DEFINE C == {a \in Agents \cup {NoAgent} : \E k \in Keys : cached[k] = a}
             M == {a \in Agents \cup {NoAgent} : \E t \in Threads : mine[t] = a}
  <1>1. IsFiniteSet(C) /\ Cardinality(C) <= Cardinality(Keys) /\ Cardinality(C) \in Nat
    <2>1. cached \in Surjection(Keys, C)
      BY DEF Typed, Surjection
    <2> QED
      BY <2>1, AgentsAssumption, FS_Surjection, FS_CardinalityType
  <1>2. IsFiniteSet(M) /\ Cardinality(M) <= Cardinality(Threads) /\ Cardinality(M) \in Nat
    <2>1. mine \in Surjection(Threads, M)
      BY DEF Typed, Surjection
    <2> QED
      BY <2>1, AgentsAssumption, FS_Surjection, FS_CardinalityType
  <1>3. IsFiniteSet(C \cup M) /\ Cardinality(C \cup M) <= Cardinality(C) + Cardinality(M)
    <2>1. IsFiniteSet(C \cap M) /\ Cardinality(C \cap M) \in Nat
      BY <1>1, FS_Intersection, FS_CardinalityType
    <2>2. IsFiniteSet(C) /\ IsFiniteSet(M)
      BY <1>1, <1>2
    <2> HIDE DEF C, M
    <2>3. /\ IsFiniteSet(C \cup M)
          /\ Cardinality(C \cup M) = Cardinality(C) + Cardinality(M) - Cardinality(C \cap M)
      BY <2>2, FS_Union, Zenon
    <2> QED
      BY <2>1, <2>3, <1>1, <1>2
  <1>4. Made \subseteq C \cup M
    BY DEF Alive, Made
  <1>5. Cardinality(Made) <= Cardinality(C \cup M) /\ Cardinality(Made) \in Nat
    <2> HIDE DEF C, M
    <2> QED
      BY <1>3, <1>4, FS_Subset, FS_CardinalityType
  <1>6. Made # Agents
    <2> HIDE DEF C, M
    <2> QED
      BY <1>1, <1>2, <1>3, <1>5, AgentsAssumption, FS_CardinalityType
  <1> QED
    BY <1>6 DEF Made

-----------------------------------------------------------------------------
(***************************************************************************)
(* Every action preserves the inductive invariant.                         *)
(***************************************************************************)

\* At the start there is no agent.
LEMMA InitIInv == Init => IInv
  <1> SUFFICES ASSUME Init PROVE IInv
    OBVIOUS
  <1>1. Typed
    BY DEF Init, Typed, Steps, Sessions, NoSession, HasAgent
  <1>2. LockOwned /\ Alive /\ Suited /\ OwnPassword /\ OnlyCached /\ AgentLimit
    BY DEF Init, LockOwned, Locked, Alive, Suited, OwnPassword, OnlyCached, AgentLimit
  <1>3. CheckedSession
    BY DEF Init, CheckedSession, NoSession
  <1> QED
    BY <1>1, <1>2, <1>3 DEF IInv

\* A thread without a session goes on without one: the sessions are as many.
LEMMA UsersKept ==
  ASSUME NEW t \in Threads, NEW s \in Steps \ {"use"}, GoTo(t, s), pc[t] # "use",
         pc \in [Threads -> Steps], \A u \in Threads \ {t} : mine'[u] = mine[u],
         NEW a
  PROVE  Users(a)' = Users(a)
  BY DEF Users, GoTo

\* The steps of a thread that leave the agents, the cache and the sessions alone.
LEMMA QuietStep ==
  ASSUME IInv, NEW t \in Threads, NEW s \in Steps \ {"use"}, GoTo(t, s), pc[t] # "use",
         pc[t] \in HasAgent <=> s \in HasAgent,
         NEW c \in {NoCall} \cup Calls, call' = [call EXCEPT ![t] = c],
         s # "idle" => c \in Calls /\ c.password \in Passwords[c.key],
         s = "lock" => c.type = "none" \/ Fits(c.type, c.key, lost'),
         s = "login" => Fits(c.type, c.key, lost'),
         s \in HasAgent => c = call[t],
         LockOwned', lost \subseteq lost', lost' \subseteq Keys,
         UNCHANGED <<cached, agent, mine, session>>
  PROVE  IInv'
  <1> USE DEF IInv
  <1>1. Typed'
    BY DEF Typed, GoTo, Steps
  <1>2. Alive'
    BY DEF Alive
  <1>3. \A u \in Threads : pc'[u] = IF u = t THEN s ELSE pc[u]
    BY DEF GoTo, Typed
  <1>4. Suited'
    <2>1. \A u \in Threads : call'[u] = IF u = t THEN c ELSE call[u]
      BY DEF Typed
    <2>2. \A class, k : Fits(class, k, lost) => Fits(class, k, lost')
      BY DEF Fits
    <2>3. ASSUME NEW u \in Threads
          PROVE  /\ pc'[u] = "lock" => call'[u].type = "none" \/ Fits(call'[u].type, call'[u].key, lost')
                 /\ pc'[u] = "login" => Fits(call'[u].type, call'[u].key, lost')
      <3>1. CASE u = t
        BY <3>1, <2>1, <1>3
      <3>2. CASE u # t
        BY <3>2, <2>1, <2>2, <1>3 DEF Suited
      <3> QED
        BY <3>1, <3>2
    <2> QED
      BY <2>2, <2>3 DEF Suited
  <1>5. OwnPassword'
    BY <1>3 DEF OwnPassword, Typed
  <1>6. OnlyCached' /\ CheckedSession'
    BY DEF OnlyCached, CheckedSession
  <1>7. AgentLimit'
    BY UsersKept DEF AgentLimit, Open, Typed, MaxSize
  <1> QED
    BY <1>1, <1>2, <1>4, <1>5, <1>6, <1>7

\* A call arrives.
LEMMA RequestIInv == ASSUME IInv, NEW t \in Threads, Request(t) PROVE IInv'
  <1>0. PICK k \in Keys : \E w \in Passwords[k], type \in {"none", Kind[k]} :
          call' = [call EXCEPT ![t] = [key |-> k, password |-> w, type |-> type]]
    BY DEF Request
  <1>1. PICK w \in Passwords[k], type \in {"none", Kind[k]} :
          call' = [call EXCEPT ![t] = [key |-> k, password |-> w, type |-> type]]
    BY <1>0
  <1>2. [key |-> k, password |-> w, type |-> type] \in Calls
    BY AgentsAssumption DEF Calls, AnyPassword
  <1>3. LockOwned'
    BY DEF IInv, Typed, LockOwned, Request, GoTo, Locked
  <1>4. type = "none" \/ Fits(type, k, lost')
    BY DEF Fits
  <1>5. /\ "lock" \in Steps \ {"use"} /\ pc[t] \notin HasAgent /\ "lock" \notin HasAgent
        /\ lost \subseteq lost' /\ lost' \subseteq Keys /\ pc[t] # "use"
    BY DEF IInv, Typed, Request, Steps, HasAgent
  <1> QED
    BY <1>1, <1>2, <1>3, <1>4, <1>5, QuietStep DEF Request

\* No room in the pool: the call waits.
LEMMA WaitIInv == ASSUME IInv, NEW t \in Threads, Wait(t) PROVE IInv'
  <1>1. LockOwned'
    BY DEF IInv, Typed, LockOwned, Wait, GoTo, Locked
  <1>2. /\ call' = [call EXCEPT ![t] = call[t]] /\ call[t] \in Calls
        /\ call[t].password \in Passwords[call[t].key]
    BY DEF IInv, Typed, Wait
  <1>3. /\ "wait" \in Steps \ {"use"} /\ pc[t] \in HasAgent /\ "wait" \in HasAgent
        /\ lost \subseteq lost' /\ lost' \subseteq Keys /\ pc[t] # "use"
    BY DEF IInv, Typed, Wait, Steps, HasAgent
  <1> QED
    BY <1>1, <1>2, <1>3, QuietStep, ZenonT(30) DEF Wait

\* A refused login gives the lock back.
LEMMA LoginFailsIInv == ASSUME IInv, NEW t \in Threads, LoginFails(t) PROVE IInv'
  <1>1. LockOwned'
    BY DEF IInv, Typed, LockOwned, LoginFails, GoTo, Locked
  <1> QED
    BY <1>1, QuietStep, ZenonT(30) DEF IInv, Typed, LoginFails, Steps, HasAgent

\* What probing an array can answer: the class of the array, or, if the probe of
\* a DS8K timed out, the class whose port it has open as well.
LEMMA Probed ==
  ASSUME NEW k \in Keys, NEW silent \in SUBSET Answers(Kind[k]),
         NEW open, open = {i \in 1..3 : ProbeOrder[i] \in Answers(Kind[k]) \ silent}, open # {},
         NEW gone, silent # {} => k \in gone
  PROVE  ProbeOrder[Min(open)] \in Classes /\ Fits(ProbeOrder[Min(open)], k, gone)
  <1>1. Kind[k] \in {"svc", "xiv", "ds8k"}
    BY AgentsAssumption, ClassesAre
  <1>2. 1..3 = {1, 2, 3} /\ ProbeOrder[1] = "xiv" /\ ProbeOrder[2] = "ds8k" /\ ProbeOrder[3] = "svc"
    BY DEF ProbeOrder
  <1>3. CASE Kind[k] = "xiv"
    <2>1. open = {1}
      BY <1>2, <1>3 DEF Answers
    <2>2. Min(open) = 1
      BY <2>1 DEF Min
    <2> QED
      BY <1>2, <1>3, <2>2, ClassesAre DEF Fits
  <1>4. CASE Kind[k] = "svc"
    <2>1. open = {3}
      BY <1>2, <1>4 DEF Answers
    <2>2. Min(open) = 3
      BY <2>1 DEF Min
    <2> QED
      BY <1>2, <1>4, <2>2, ClassesAre DEF Fits
  <1>5. CASE Kind[k] = "ds8k" /\ "ds8k" \notin silent
    <2>1. open = {2} \/ open = {2, 3}
      BY <1>2, <1>5 DEF Answers
    <2>2. Min(open) = 2
      BY <2>1 DEF Min
    <2> QED
      BY <1>2, <1>5, <2>2, ClassesAre DEF Fits
  <1>6. CASE Kind[k] = "ds8k" /\ "ds8k" \in silent
    <2>1. open = {3}
      BY <1>2, <1>6 DEF Answers
    <2>2. Min(open) = 3
      BY <2>1 DEF Min
    <2> QED
      BY <1>2, <1>6, <2>2, ClassesAre DEF Fits
  <1> QED
    BY <1>1, <1>3, <1>4, <1>5, <1>6

\* The probes preserve the invariant.
LEMMA DetectIInv == ASSUME IInv, NEW t \in Threads, DetectArrayType(t) PROVE IInv'
  <1> DEFINE k == call[t].key
             open(silent) == {i \in 1..3 : ProbeOrder[i] \in Answers(Kind[k]) \ silent}
  <1>1. /\ pc[t] = "detect" /\ call[t] \in Calls /\ k \in Keys
        /\ call[t].password \in Passwords[k]
    BY DEF IInv, Typed, DetectArrayType, Calls
  <1>2. PICK silent \in SUBSET Answers(Kind[k]) :
          /\ lost' = IF silent = {} THEN lost ELSE lost \cup {k}
          /\ \/ /\ open(silent) # {}
                /\ call' = [call EXCEPT ![t].type = ProbeOrder[Min(open(silent))]]
                /\ GoTo(t, "login") /\ UNCHANGED lock
             \/ /\ open(silent) = {}
                /\ call' = [call EXCEPT ![t] = NoCall]
                /\ GoTo(t, "idle") /\ lock' = lock \ {t}
    BY DEF DetectArrayType
  <1>3. /\ lost \subseteq lost' /\ lost' \subseteq Keys /\ UNCHANGED <<cached, agent, mine, session>>
        /\ silent # {} => k \in lost'
    BY <1>1, <1>2 DEF IInv, Typed, DetectArrayType
  <1>4. pc[t] # "use" /\ pc[t] \notin HasAgent /\ {"login", "idle"} \subseteq Steps \ (HasAgent \cup {"use"})
    BY <1>1 DEF HasAgent, Steps
  <1>5. CASE open(silent) # {}
    <2> DEFINE c == [call[t] EXCEPT !.type = ProbeOrder[Min(open(silent))]]
    <2>1. ProbeOrder[Min(open(silent))] \in Classes /\ Fits(ProbeOrder[Min(open(silent))], k, lost')
      BY <1>1, <1>2, <1>3, <1>5, Probed
    <2> HIDE DEF open
    <2>2. c \in Calls /\ c.password \in Passwords[c.key] /\ c.key = k /\ Fits(c.type, c.key, lost')
      BY <1>1, <2>1 DEF Calls
    <2>3. call' = [call EXCEPT ![t] = c] /\ GoTo(t, "login") /\ UNCHANGED lock
      BY <1>2, <1>5
    <2>4. LockOwned'
      BY <1>1, <1>3, <2>2, <2>3 DEF IInv, Typed, LockOwned, GoTo, Locked
    <2> HIDE DEF c
    <2> QED
      BY <1>3, <1>4, <2>2, <2>3, <2>4, QuietStep
  <1>6. CASE open(silent) = {}
    <2>1. call' = [call EXCEPT ![t] = NoCall] /\ GoTo(t, "idle") /\ lock' = lock \ {t}
      BY <1>2, <1>6
    <2>2. LockOwned'
      BY <1>1, <1>3, <2>1 DEF IInv, Typed, LockOwned, GoTo, Locked
    <2> QED
      BY <1>3, <1>4, <2>1, <2>2, QuietStep
  <1> QED
    BY <1>5, <1>6

\* With one password there is nothing to compare.
LEMMA SamePassword ==
  ASSUME NEW k \in Keys, Cardinality(Passwords[k]) = 1, NEW v \in Passwords[k], NEW w \in Passwords[k]
  PROVE  v = w
  BY AgentsAssumption, FS_Singleton

\* A reference is dropped: the agent is gone if it was the last one, and is the
\* same agent otherwise.
LEMMA DropIs ==
  ASSUME Typed, NEW a \in Agents, agent[a] # Fresh, NEW live \in Nat, NEW dead \in Nat,
         Drop(a, live, dead)
  PROVE  /\ agent' \in [Agents -> {Fresh} \cup AgentRecs]
         /\ \A b \in Agents \ {a} : agent'[b] = agent[b]
         /\ \/ /\ agent'[a] = Fresh
               /\ \A k \in Keys : cached'[k] # a
               /\ \A t \in Threads : mine'[t] # a
            \/ /\ agent'[a] # Fresh
               /\ agent'[a].key = agent[a].key /\ agent'[a].password = agent[a].password
               /\ agent'[a].class = agent[a].class
               /\ agent'[a].live = live /\ agent'[a].dead = dead
               /\ (\E k \in Keys : cached'[k] = a) \/ (\E t \in Threads : mine'[t] = a)
  <1>1. agent[a] \in AgentRecs
    BY DEF Typed
  <1>2. [agent[a] EXCEPT !.live = live, !.dead = dead] \in AgentRecs
    BY <1>1 DEF AgentRecs
  <1>3. [agent[a] EXCEPT !.live = live, !.dead = dead] # Fresh
    BY <1>2, NotFresh
  <1> QED
    BY <1>1, <1>2, <1>3 DEF Drop, Typed, AgentRecs

\* get_agent with a usable agent in the cache.
LEMMA ReuseIInv ==
  ASSUME IInv, NEW t \in Threads, pc[t] = "lock", Usable(t), Reuse(t, Found(t)),
         UNCHANGED <<session, lost>>
  PROVE  IInv'
  <1> DEFINE a == Found(t)
             c == [call[t] EXCEPT !.type = "none"]
  <1>1. /\ call[t] \in Calls /\ call[t].key \in Keys /\ a \in Agents /\ agent[a] # Fresh
        /\ agent[a].key = call[t].key /\ agent[a].password = call[t].password
        /\ call[t].password \in Passwords[call[t].key]
    BY DEF IInv, Typed, Alive, Usable, Found, Calls
  <1>2. c \in Calls /\ c.key = call[t].key /\ c.password = call[t].password
    BY <1>1 DEF Calls
  <1>3. /\ call' = [call EXCEPT ![t] = c] /\ mine' = [mine EXCEPT ![t] = a]
        /\ pc' = [pc EXCEPT ![t] = "get"] /\ GoTo(t, "get")
        /\ UNCHANGED <<lock, cached, agent, session, lost>>
    BY DEF Reuse, GoTo
  <1> HIDE DEF a, c
  <1>4. Typed'
    BY <1>1, <1>2, <1>3, AgentsAssumption DEF IInv, Typed, HasAgent, Steps
  <1>5. LockOwned'
    BY <1>1, <1>2, <1>3 DEF IInv, Typed, LockOwned, Locked
  <1>6. Alive' /\ OwnPassword'
    <2>1. \A u \in Threads : /\ mine'[u] = IF u = t THEN a ELSE mine[u]
                             /\ call'[u] = IF u = t THEN c ELSE call[u]
      BY <1>3 DEF IInv, Typed
    <2>2. OwnPassword'
      BY <2>1, <1>1, <1>2, <1>3 DEF IInv, OwnPassword
    <2>3. \A b \in Agents : (\E u \in Threads : mine[u] = b) => \E u \in Threads : mine'[u] = b
      BY <2>1, AgentsAssumption, <1>1 DEF IInv, Typed, HasAgent
    <2>4. Alive'
      BY <2>1, <2>3, <1>1, <1>3 DEF IInv, Alive
    <2> QED
      BY <2>2, <2>4
  <1>7. Suited' /\ OnlyCached'
    BY <1>3 DEF IInv, Typed, Suited, OnlyCached
  <1>8. CheckedSession'
    BY <1>3 DEF IInv, Typed, CheckedSession, NoSession
  <1>9. AgentLimit'
    <2>1. \A b : Users(b)' = Users(b)
      BY <1>3, UsersKept DEF IInv, Typed, Steps
    <2> QED
      BY <1>3, <2>1 DEF IInv, AgentLimit, Open, MaxSize
  <1> QED
    BY <1>4, <1>5, <1>6, <1>7, <1>8, <1>9 DEF IInv

\* get_agent without one: an agent with another password leaves the cache.
LEMMA ReplaceIInv ==
  ASSUME IInv, NEW t \in Threads, pc[t] = "lock", lock = {}, ~Usable(t), Replace(t, Found(t)),
         UNCHANGED <<session, lost>>
  PROVE  IInv'
  <1> DEFINE a == Found(t)
             k == call[t].key
             s == IF call[t].type = "none" THEN "detect" ELSE "login"
  <1>1. /\ call[t] \in Calls /\ k \in Keys /\ a \in Agents \cup {NoAgent}
        /\ a = cached[k]
        /\ a # NoAgent => agent[a] # Fresh /\ agent[a].key = k
        /\ call[t].password \in Passwords[k]
    BY DEF IInv, Typed, Alive, Found, Calls
  <1>2. /\ cached' = [cached EXCEPT ![k] = NoAgent] /\ lock' = {t}
        /\ pc' = [pc EXCEPT ![t] = s] /\ GoTo(t, s) /\ s \in Locked
        /\ UNCHANGED <<mine, call, session, lost>>
    BY DEF Replace, GoTo, Locked
  <1>3. \/ agent' = agent /\ (a = NoAgent \/ \E u \in Threads : mine[u] = a)
        \/ /\ a # NoAgent /\ agent' = [agent EXCEPT ![a] = Fresh]
           /\ \A u \in Threads : mine[u] # a
    <2>1. CASE a = NoAgent
      BY <2>1 DEF Replace
    <2>2. CASE a # NoAgent
      <3>1. Drop(a, agent[a].live, agent[a].dead) /\ a \in Agents /\ agent[a] \in AgentRecs
        BY <1>1, <2>2 DEF Replace, IInv, Typed
      <3>2. [agent[a] EXCEPT !.live = agent[a].live, !.dead = agent[a].dead] = agent[a]
        BY <3>1 DEF AgentRecs
      <3>3. \A j \in Keys : cached'[j] # a
        BY <1>1, <1>2, <2>2 DEF IInv, Typed, Alive
      <3>4. CASE \E u \in Threads : mine[u] = a
        <4>1. agent' = [agent EXCEPT ![a] = agent[a]]
          BY <3>1, <3>2, <3>4, <1>2 DEF Drop
        <4> QED
          BY <4>1, <3>4 DEF IInv, Typed
      <3>5. CASE ~ \E u \in Threads : mine[u] = a
        BY <3>1, <3>3, <3>5, <1>2, <2>2 DEF Drop
      <3> QED
        BY <3>4, <3>5
    <2> QED
      BY <2>1, <2>2
  <1> HIDE DEF a, s
  <1>4. \A b \in Agents : agent'[b] # Fresh => agent'[b] = agent[b] /\ agent[b] # Fresh
    BY <1>1, <1>3 DEF IInv, Typed
  <1>5. \A u \in Threads : mine[u] # NoAgent => agent'[mine[u]] = agent[mine[u]]
    BY <1>1, <1>3 DEF IInv, Typed
  <1>6. Typed'
    <2>1. agent' \in [Agents -> {Fresh} \cup AgentRecs]
      BY <1>1, <1>3 DEF IInv, Typed
    <2> QED
      BY <1>1, <1>2, <2>1 DEF IInv, Typed, HasAgent, Steps, Locked
  <1>7. LockOwned'
    BY <1>1, <1>2 DEF IInv, Typed, LockOwned, Locked
  <1>8. Alive'
    <2>1. \A j \in Keys : cached'[j] # NoAgent => cached'[j] = cached[j] /\ cached[j] # a /\ j # k
      BY <1>1, <1>2 DEF IInv, Typed, Alive
    <2>2. \A b \in Agents \ {a} : agent'[b] = agent[b]
      BY <1>1, <1>3 DEF IInv, Typed
    <2>3. \A j \in Keys : j # k => cached'[j] = cached[j]
      BY <1>2 DEF IInv, Typed
    <2>4. \A j \in Keys : cached'[j] # NoAgent => agent'[cached'[j]] # Fresh /\ agent'[cached'[j]].key = j
      BY <2>1, <2>2 DEF IInv, Typed, Alive
    <2>5. \A b \in Agents : agent'[b] # Fresh => \/ \E j \in Keys : cached'[j] = b
                                                 \/ \E u \in Threads : mine'[u] = b
      BY <1>1, <1>2, <1>3, <1>4, <2>3 DEF IInv, Typed, Alive
    <2> QED
      BY <2>4, <2>5, <1>2, <1>5 DEF IInv, Alive
  <1>9. Suited'
    <2>1. \A u \in Threads : pc'[u] = IF u = t THEN s ELSE pc[u]
      BY <1>2 DEF IInv, Typed
    <2> QED
      BY <2>1, <1>2, <1>4 DEF IInv, Suited, s
  <1>10. OwnPassword' /\ CheckedSession'
    BY <1>2, <1>5 DEF IInv, Typed, OwnPassword, CheckedSession, NoSession, HasAgent
  <1>11. OnlyCached'
    <2> SUFFICES ASSUME NEW b \in Agents, agent'[b] # Fresh,
                        Cardinality(Passwords[agent'[b].key]) = 1
                 PROVE  cached'[agent'[b].key] = b
      BY DEF OnlyCached
    <2>1. agent[b] # Fresh /\ agent'[b] = agent[b] /\ cached[agent[b].key] = b
          /\ agent[b].password \in Passwords[agent[b].key] /\ agent[b].key \in Keys
      BY <1>4 DEF IInv, OnlyCached, Suited, Typed, AgentRecs
    <2>2. agent[b].key # k
      BY <1>1, <2>1, SamePassword, AgentsAssumption DEF Usable, Found
    <2> QED
      BY <1>2, <2>1, <2>2 DEF IInv, Typed
  <1>12. AgentLimit'
    <2>1. \A b : Users(b)' = Users(b)
      BY <1>2, UsersKept DEF IInv, Typed, Steps, Locked
    <2> QED
      BY <1>4, <2>1 DEF IInv, AgentLimit, Open, MaxSize
  <1> QED
    BY <1>6, <1>7, <1>8, <1>9, <1>10, <1>11, <1>12 DEF IInv

\* get_agent under the lock preserves the invariant.
LEMMA FindIInv == ASSUME IInv, NEW t \in Threads, Find(t) PROVE IInv'
  BY ReuseIInv, ReplaceIInv DEF Find

\* The first session of a new agent, with the lock held.
LEMMA LoginIInv == ASSUME IInv, NEW t \in Threads, Login(t) PROVE IInv'
  <1> DEFINE k == call[t].key
             r == [key |-> k, password |-> call[t].password, class |-> call[t].type, live |-> 1, dead |-> 0]
             c == [call[t] EXCEPT !.type = "none"]
  <1>0. PICK a \in Agents : a = (CHOOSE b \in Agents : b \notin Made) /\ a \notin Made
    <2>1. \E b \in Agents : b \notin Made
      BY FreeAgent DEF IInv
    <2> HIDE DEF Made
    <2> QED
      BY <2>1
  <1>1. a \in Agents /\ agent[a] = Fresh
    BY <1>0 DEF Made
  <1>2. /\ pc[t] = "login" /\ call[t] \in Calls /\ k \in Keys /\ Fits(call[t].type, k, lost)
        /\ call[t].password \in Passwords[k] /\ t \in lock /\ cached[k] = NoAgent
        /\ call[t].type \in Classes
    <2>1. pc[t] = "login" /\ call[t] \in Calls /\ call[t].password \in Passwords[k]
      BY DEF IInv, Typed, Login
    <2>2. k \in Keys /\ t \in lock
      BY <2>1 DEF Calls, IInv, LockOwned, Locked
    <2>3. Fits(call[t].type, k, lost) /\ cached[k] = NoAgent
      BY <2>1, <2>2 DEF IInv, Suited, LockOwned
    <2>4. call[t].type \in Classes
      BY <2>2, <2>3, AgentsAssumption, ClassesAre DEF Fits
    <2> QED
      BY <2>1, <2>2, <2>3, <2>4
  <1>3. r \in AgentRecs /\ r # Fresh
    BY <1>2, NotFresh DEF AgentRecs, AnyPassword
  <1>4. c \in Calls /\ c.key = k /\ c.password = call[t].password
    BY <1>2 DEF Calls
  <1>5. /\ agent' = [agent EXCEPT ![a] = r] /\ cached' = [cached EXCEPT ![k] = a]
        /\ mine' = [mine EXCEPT ![t] = a] /\ call' = [call EXCEPT ![t] = c]
        /\ lock' = lock \ {t} /\ pc' = [pc EXCEPT ![t] = "get"] /\ GoTo(t, "get")
        /\ UNCHANGED <<session, lost>>
    BY <1>0 DEF Login, GoTo
  <1>6. r.key = k /\ r.password = call[t].password /\ r.class = call[t].type /\ r.live = 1 /\ r.dead = 0
    OBVIOUS
  <1>7. (\A j \in Keys : cached[j] # a) /\ (\A u \in Threads : mine[u] # a)
    BY <1>1, AgentsAssumption DEF IInv, Alive
  <1> HIDE DEF r, c
  <1>8. Typed'
    BY <1>1, <1>2, <1>3, <1>4, <1>5, AgentsAssumption DEF IInv, Typed, HasAgent, Steps
  <1>9. LockOwned'
    BY <1>2, <1>5 DEF IInv, Typed, LockOwned, Locked
  <1>10. Alive'
    <2>1. \A b \in Agents : agent'[b] = IF b = a THEN r ELSE agent[b]
      BY <1>5 DEF IInv, Typed
    <2>2. \A j \in Keys : cached'[j] = IF j = k THEN a ELSE cached[j]
      BY <1>5 DEF IInv, Typed
    <2>3. \A u \in Threads : mine'[u] = IF u = t THEN a ELSE mine[u]
      BY <1>5 DEF IInv, Typed
    <2>4. mine[t] = NoAgent /\ cached[k] = NoAgent /\ \A b \in Agents : b # NoAgent
      BY <1>2, AgentsAssumption DEF IInv, Typed, HasAgent
    <2>5. \A j \in Keys : cached'[j] # NoAgent => agent'[cached'[j]] # Fresh /\ agent'[cached'[j]].key = j
      BY <2>1, <2>2, <1>2, <1>3, <1>6, <1>7 DEF IInv, Typed, Alive
    <2>6. \A u \in Threads : mine'[u] # NoAgent => agent'[mine'[u]] # Fresh
      BY <2>1, <2>3, <1>3, <1>7 DEF IInv, Typed, Alive
    <2>7. \A b \in Agents : agent'[b] # Fresh => \/ \E j \in Keys : cached'[j] = b
                                                 \/ \E u \in Threads : mine'[u] = b
      BY <2>1, <2>2, <2>3, <2>4 DEF IInv, Alive
    <2> QED
      BY <2>5, <2>6, <2>7 DEF Alive
  <1>11. Suited'
    <2>1. \A b \in Agents : agent'[b] = IF b = a THEN r ELSE agent[b]
      BY <1>5 DEF IInv, Typed
    <2>2. \A u \in Threads : u # t => pc'[u] = pc[u] /\ call'[u] = call[u]
      BY <1>5 DEF IInv, Typed
    <2>3. pc'[t] = "get"
      BY <1>5 DEF IInv, Typed
    <2> QED
      BY <1>2, <1>5, <1>6, <2>1, <2>2, <2>3 DEF IInv, Suited
  <1>12. OwnPassword'
    BY <1>1, <1>4, <1>5, <1>6, <1>7 DEF IInv, Typed, OwnPassword
  <1>13. OnlyCached'
    <2>1. \A b \in Agents : agent'[b] = IF b = a THEN r ELSE agent[b]
      BY <1>5 DEF IInv, Typed
    <2>2. \A b \in Agents : agent[b] # Fresh /\ Cardinality(Passwords[agent[b].key]) = 1
                              => agent[b].key # k /\ agent[b].key \in Keys
      BY <1>2, AgentsAssumption DEF IInv, OnlyCached, Typed, AgentRecs
    <2>3. \A j \in Keys : cached'[j] = IF j = k THEN a ELSE cached[j]
      BY <1>5 DEF IInv, Typed
    <2> QED
      BY <1>2, <1>6, <2>1, <2>2, <2>3 DEF IInv, OnlyCached
  <1>14. CheckedSession'
    <2>1. \A u \in Threads : session[u].state = "dead" => u # t /\ mine[u] \in Agents /\ mine[u] # a
      BY <1>2, <1>7 DEF IInv, Typed, NoSession, HasAgent
    <2>2. \A u \in Threads : u # t => mine'[u] = mine[u]
      BY <1>5 DEF IInv, Typed
    <2>3. \A b \in Agents : b # a => agent'[b] = agent[b]
      BY <1>5 DEF IInv, Typed
    <2> QED
      BY <1>5, <2>1, <2>2, <2>3 DEF IInv, CheckedSession
  <1>15. AgentLimit'
    <2>1. \A b : Users(b)' = Users(b)
      BY <1>2, <1>5, UsersKept DEF IInv, Typed, Steps
    <2>2. Users(a) = {}
      BY <1>7 DEF Users
    <2>3. Open(a)' = 1
      <3>1. agent'[a].live = 1 /\ agent'[a].dead = 0
        BY <1>1, <1>5, <1>6 DEF IInv, Typed
      <3> QED
        BY <2>1, <2>2, <3>1, FS_EmptySet DEF Open
    <2>4. \A b \in Agents \ {a} : agent'[b] = agent[b] /\ Open(b)' = Open(b)
      BY <1>5, <2>1 DEF IInv, Typed, Open
    <2>5. agent'[a].class = call[t].type
      BY <1>1, <1>5, <1>6 DEF IInv, Typed
    <2>6. 1 <= MaxSize(call[t].type)
      BY <1>2, MaxSizeIs
    <2> QED
      BY <1>1, <2>3, <2>4, <2>5, <2>6 DEF IInv, AgentLimit, MaxSize
  <1> QED
    BY <1>8, <1>9, <1>10, <1>11, <1>12, <1>13, <1>14, <1>15 DEF IInv

\* The free sessions of an agent change, and nothing else about it: it is the same
\* agent for the cache and for the calls.
LEMMA SameAgents ==
  ASSUME IInv, NEW a \in Agents, agent[a] # Fresh, NEW live \in Nat, NEW dead \in Nat,
         agent' = [agent EXCEPT ![a].live = live, ![a].dead = dead],
         UNCHANGED <<cached, mine, lost>>
  PROVE  /\ agent' \in [Agents -> {Fresh} \cup AgentRecs]
         /\ agent'[a].live = live /\ agent'[a].dead = dead
         /\ \A b \in Agents : b # a => agent'[b] = agent[b]
         /\ \A b \in Agents : /\ agent'[b] # Fresh <=> agent[b] # Fresh
                              /\ agent'[b].key = agent[b].key /\ agent'[b].class = agent[b].class
                              /\ agent'[b].password = agent[b].password
         /\ Alive' /\ OnlyCached'
  <1> DEFINE r == [agent[a] EXCEPT !.live = live, !.dead = dead]
  <1>1. agent[a] \in AgentRecs
    BY DEF IInv, Typed
  <1>2. /\ r \in AgentRecs /\ r.key = agent[a].key /\ r.class = agent[a].class
        /\ r.password = agent[a].password /\ r.live = live /\ r.dead = dead
    BY <1>1 DEF AgentRecs
  <1>3. r # Fresh
    BY <1>2, NotFresh
  <1>4. agent' = [agent EXCEPT ![a] = r]
    BY <1>1 DEF AgentRecs, IInv, Typed
  <1>5. \A b \in Agents : agent'[b] = IF b = a THEN r ELSE agent[b]
    BY <1>4 DEF IInv, Typed
  <1>6. agent' \in [Agents -> {Fresh} \cup AgentRecs]
    BY <1>2, <1>4 DEF IInv, Typed
  <1> HIDE DEF r
  <1>7. \A b \in Agents : /\ agent'[b] # Fresh <=> agent[b] # Fresh
                          /\ agent'[b].key = agent[b].key /\ agent'[b].class = agent[b].class
                          /\ agent'[b].password = agent[b].password
    BY <1>2, <1>3, <1>5
  <1>8. Alive'
    BY <1>7 DEF IInv, Typed, Alive
  <1>9. OnlyCached'
    BY <1>7 DEF IInv, OnlyCached
  <1> QED
    BY <1>2, <1>5, <1>6, <1>7, <1>8, <1>9

\* A free session dies.
LEMMA DieIInv == ASSUME IInv, NEW a \in Agents, Die(a) PROVE IInv'
  <1>1. agent[a] # Fresh /\ agent[a].live \in Nat \ {0} /\ agent[a].dead \in Nat
    BY DEF IInv, Typed, Die, AgentRecs, Fresh
  <1>2. /\ agent' = [agent EXCEPT ![a].live = agent[a].live - 1, ![a].dead = agent[a].dead + 1]
        /\ UNCHANGED <<cached, lock, pc, call, mine, session, lost>>
    BY DEF Die
  <1>3. agent[a].live - 1 \in Nat /\ agent[a].dead + 1 \in Nat
    BY <1>1
  <1>4. /\ agent' \in [Agents -> {Fresh} \cup AgentRecs]
        /\ agent'[a].live = agent[a].live - 1 /\ agent'[a].dead = agent[a].dead + 1
        /\ \A b \in Agents : b # a => agent'[b] = agent[b]
        /\ \A b \in Agents : /\ agent'[b] # Fresh <=> agent[b] # Fresh
                             /\ agent'[b].key = agent[b].key /\ agent'[b].class = agent[b].class
                             /\ agent'[b].password = agent[b].password
        /\ Alive' /\ OnlyCached'
    BY <1>1, <1>2, <1>3, SameAgents
  <1>5. Typed' /\ LockOwned'
    BY <1>2, <1>4 DEF IInv, Typed, LockOwned
  <1>6. Suited'
    BY <1>2, <1>4 DEF IInv, Suited
  <1>7. OwnPassword'
    BY <1>2, <1>4 DEF IInv, Typed, OwnPassword
  <1>8. CheckedSession'
    BY <1>2, <1>4 DEF IInv, Typed, CheckedSession, NoSession, HasAgent
  <1>9. AgentLimit'
    <2>1. \A b \in Agents : Users(b)' = Users(b) /\ Cardinality(Users(b)) \in Nat
      BY <1>2, UsersFinite DEF Users
    <2>2. \A b \in Agents : Open(b)' = Open(b)
      BY <1>1, <1>4, <2>1 DEF Open
    <2> QED
      BY <1>4, <2>2 DEF IInv, AgentLimit, MaxSize
  <1> QED
    BY <1>4, <1>5, <1>6, <1>7, <1>8, <1>9 DEF IInv

\* A thread that has an agent: the agent exists, and its record is one.
LEMMA HasOne ==
  ASSUME IInv, NEW t \in Threads, pc[t] \in HasAgent
  PROVE  /\ mine[t] \in Agents /\ agent[mine[t]] # Fresh /\ agent[mine[t]] \in AgentRecs
         /\ agent[mine[t]].live \in Nat /\ agent[mine[t]].dead \in Nat
         /\ agent[mine[t]].class \in Classes /\ MaxSize(agent[mine[t]].class) \in Nat
         /\ Open(mine[t]) \in Nat /\ Open(mine[t]) <= MaxSize(agent[mine[t]].class)
  <1>1. mine[t] \in Agents /\ agent[mine[t]] # Fresh /\ agent[mine[t]] \in AgentRecs
    BY DEF IInv, Typed, Alive
  <1>2. agent[mine[t]].live \in Nat /\ agent[mine[t]].dead \in Nat /\ agent[mine[t]].class \in Classes
    BY <1>1 DEF AgentRecs
  <1> QED
    BY <1>1, <1>2, UsersFinite, MaxSizeIs DEF IInv, AgentLimit, Open

\* A call is given a session that leaves room in its pool, and, unless it waited
\* or the array is an XIV, one that was alive.
LEMMA GiveIInv ==
  ASSUME IInv, NEW t \in Threads, pc[t] \in {"get", "wait"},
         NEW state \in {"live", "dead"}, NEW waited \in BOOLEAN, NEW live \in Nat, NEW dead \in Nat,
         Give(t, state, waited, live, dead),
         live + dead + Cardinality(Users(mine[t])) + 1 <= MaxSize(agent[mine[t]].class),
         state = "dead" => waited \/ agent[mine[t]].class = "xiv"
  PROVE  IInv'
  <1>0. PICK a : a = mine[t]
    OBVIOUS
  <1>1. a \in Agents /\ agent[a] # Fresh
    BY <1>0, HasOne DEF HasAgent
  <1>2. /\ session' = [session EXCEPT ![t] = [state |-> state, waited |-> waited]]
        /\ agent' = [agent EXCEPT ![a].live = live, ![a].dead = dead]
        /\ pc' = [pc EXCEPT ![t] = "use"] /\ UNCHANGED <<cached, lock, call, mine, lost>>
    BY <1>0 DEF Give, GoTo
  <1>3. /\ agent' \in [Agents -> {Fresh} \cup AgentRecs]
        /\ agent'[a].live = live /\ agent'[a].dead = dead
        /\ \A b \in Agents : b # a => agent'[b] = agent[b]
        /\ \A b \in Agents : /\ agent'[b] # Fresh <=> agent[b] # Fresh
                             /\ agent'[b].key = agent[b].key /\ agent'[b].class = agent[b].class
                             /\ agent'[b].password = agent[b].password
        /\ Alive' /\ OnlyCached'
    BY <1>1, <1>2, SameAgents
  <1>4. \A u \in Threads : /\ pc'[u] = IF u = t THEN "use" ELSE pc[u]
                           /\ session'[u] = IF u = t THEN [state |-> state, waited |-> waited] ELSE session[u]
    BY <1>2 DEF IInv, Typed
  <1>5. Typed'
    BY <1>2, <1>3, <1>4 DEF IInv, Typed, Sessions, Steps, HasAgent
  <1>6. LockOwned'
    BY <1>2, <1>4 DEF IInv, LockOwned, Locked
  <1>7. Suited'
    BY <1>2, <1>3, <1>4 DEF IInv, Suited
  <1>8. OwnPassword'
    BY <1>2, <1>3 DEF IInv, Typed, OwnPassword
  <1>9. CheckedSession'
    <2>1. \A u \in Threads : session[u].state = "dead" => mine[u] \in Agents
      BY DEF IInv, Typed, NoSession, HasAgent
    <2> QED
      BY <1>0, <1>1, <1>2, <1>3, <1>4, <2>1 DEF IInv, CheckedSession
  <1>10. AgentLimit'
    <2>1. Users(a)' = Users(a) \cup {t} /\ t \notin Users(a)
      BY <1>0, <1>2, <1>4 DEF Users
    <2>2. Cardinality(Users(a)') = Cardinality(Users(a)) + 1 /\ Cardinality(Users(a)) \in Nat
      BY <2>1, UsersFinite, FS_AddElement, ZenonT(30)
    <2>3. Open(a)' = live + dead + Cardinality(Users(a)) + 1
      BY <1>3, <2>2 DEF Open
    <2>4. ASSUME NEW b \in Agents, b # a PROVE Users(b)' = Users(b)
      BY <1>0, <1>2, <1>4, <2>4 DEF Users
    <2>5. \A b \in Agents : b # a => Open(b)' = Open(b)
      BY <1>3, <2>4 DEF Open
    <2> QED
      BY <1>0, <1>3, <2>3, <2>5 DEF IInv, AgentLimit, MaxSize
  <1> QED
    BY <1>3, <1>5, <1>6, <1>7, <1>8, <1>9, <1>10 DEF IInv

\* The first active session, or a dead one of an XIV.
LEMMA TakeFreeIInv == ASSUME IInv, NEW t \in Threads, TakeFree(t) PROVE IInv'
  <1> DEFINE a == mine[t]
  <1>1. /\ pc[t] \in {"get", "wait"} /\ pc[t] \in HasAgent
    BY DEF TakeFree, HasAgent
  <1>2. /\ agent[a].live \in Nat /\ agent[a].dead \in Nat
        /\ MaxSize(agent[a].class) \in Nat /\ Cardinality(Users(a)) \in Nat
        /\ agent[a].live + agent[a].dead + Cardinality(Users(a)) <= MaxSize(agent[a].class)
    BY <1>1, HasOne, UsersFinite DEF Open
  <1>3. CASE agent[a].live > 0 /\ \E closed \in 0..Noticed(a) :
               Give(t, "live", FALSE, agent[a].live - 1, agent[a].dead - closed)
    <2>1. PICK closed \in 0..Noticed(a) : Give(t, "live", FALSE, agent[a].live - 1, agent[a].dead - closed)
      BY <1>3
    <2>2. closed \in Nat /\ closed <= agent[a].dead
      BY <1>2 DEF Noticed
    <2>3. /\ agent[a].live - 1 \in Nat /\ agent[a].dead - closed \in Nat
          /\ (agent[a].live - 1) + (agent[a].dead - closed) + Cardinality(Users(a)) + 1
               <= MaxSize(agent[a].class)
      BY <1>2, <1>3, <2>2
    <2> QED
      BY <1>1, <2>1, <2>3, GiveIInv
  <1>4. CASE agent[a].dead > Noticed(a) /\ Give(t, "dead", FALSE, agent[a].live, agent[a].dead - 1)
    <2>1. agent[a].class = "xiv" /\ agent[a].dead > 0
      BY <1>2, <1>4 DEF Noticed
    <2>2. /\ agent[a].dead - 1 \in Nat
          /\ agent[a].live + (agent[a].dead - 1) + Cardinality(Users(a)) + 1 <= MaxSize(agent[a].class)
      BY <1>2, <2>1
    <2> QED
      BY <1>1, <1>2, <1>4, <2>1, <2>2, GiveIInv
  <1> QED
    BY <1>3, <1>4 DEF TakeFree

\* A new session, where there is room.
LEMMA CreateIInv == ASSUME IInv, NEW t \in Threads, Create(t) PROVE IInv'
  <1> DEFINE a == mine[t]
  <1>1. /\ pc[t] \in {"get", "wait"} /\ pc[t] \in HasAgent
    BY DEF Create, HasAgent
  <1>2. /\ agent[a].live \in Nat /\ agent[a].dead \in Nat
        /\ MaxSize(agent[a].class) \in Nat /\ Cardinality(Users(a)) \in Nat
    BY <1>1, HasOne, UsersFinite
  <1>3. PICK closed \in 0..Noticed(a) :
          /\ Open(a) - closed < MaxSize(agent[a].class)
          /\ Give(t, "live", FALSE, agent[a].live, agent[a].dead - closed)
    BY DEF Create
  <1>4. closed \in Nat /\ closed <= agent[a].dead
    BY <1>2 DEF Noticed
  <1>5. /\ agent[a].dead - closed \in Nat
        /\ agent[a].live + (agent[a].dead - closed) + Cardinality(Users(a)) + 1
             <= MaxSize(agent[a].class)
    BY <1>2, <1>3, <1>4 DEF Open
  <1> QED
    BY <1>1, <1>2, <1>3, <1>5, GiveIInv

\* A call that waited takes what is put back.
LEMMA TakeReturnedIInv == ASSUME IInv, NEW t \in Threads, TakeReturned(t) PROVE IInv'
  <1> DEFINE a == mine[t]
  <1>1. /\ pc[t] \in {"get", "wait"} /\ pc[t] \in HasAgent
    BY DEF TakeReturned, HasAgent
  <1>2. /\ agent[a].live \in Nat /\ agent[a].dead \in Nat
        /\ MaxSize(agent[a].class) \in Nat /\ Cardinality(Users(a)) \in Nat
        /\ agent[a].live + agent[a].dead + Cardinality(Users(a)) <= MaxSize(agent[a].class)
    BY <1>1, HasOne, UsersFinite DEF Open
  <1>3. CASE agent[a].live > 0 /\ Give(t, "live", TRUE, agent[a].live - 1, agent[a].dead)
    <2>1. /\ agent[a].live - 1 \in Nat
          /\ (agent[a].live - 1) + agent[a].dead + Cardinality(Users(a)) + 1 <= MaxSize(agent[a].class)
      BY <1>2, <1>3
    <2> QED
      BY <1>1, <1>2, <1>3, <2>1, GiveIInv
  <1>4. CASE agent[a].dead > 0 /\ Give(t, "dead", TRUE, agent[a].live, agent[a].dead - 1)
    <2>1. /\ agent[a].dead - 1 \in Nat
          /\ agent[a].live + (agent[a].dead - 1) + Cardinality(Users(a)) + 1 <= MaxSize(agent[a].class)
      BY <1>2, <1>4
    <2> QED
      BY <1>1, <1>2, <1>4, <2>1, GiveIInv
  <1> QED
    BY <1>3, <1>4 DEF TakeReturned

\* The call ends and lets go of its agent.
LEMMA LeaveIInv ==
  ASSUME IInv, NEW t \in Threads, pc[t] \in HasAgent, NEW live \in Nat, NEW dead \in Nat,
         Leave(t, live, dead),
         live + dead + Cardinality(Users(mine[t]) \ {t}) <= MaxSize(agent[mine[t]].class)
  PROVE  IInv'
  <1>0. PICK a : a = mine[t]
    OBVIOUS
  <1>1. a \in Agents /\ agent[a] # Fresh
    BY <1>0, HasOne
  <1>2. /\ mine' = [mine EXCEPT ![t] = NoAgent] /\ call' = [call EXCEPT ![t] = NoCall]
        /\ session' = [session EXCEPT ![t] = NoSession] /\ pc' = [pc EXCEPT ![t] = "idle"]
        /\ UNCHANGED <<cached, lock, lost>> /\ Drop(a, live, dead)
    BY <1>0 DEF Leave, GoTo
  <1>3. /\ agent' \in [Agents -> {Fresh} \cup AgentRecs]
        /\ \A b \in Agents \ {a} : agent'[b] = agent[b]
        /\ \/ /\ agent'[a] = Fresh
              /\ \A k \in Keys : cached'[k] # a
              /\ \A u \in Threads : mine'[u] # a
           \/ /\ agent'[a] # Fresh
              /\ agent'[a].key = agent[a].key /\ agent'[a].password = agent[a].password
              /\ agent'[a].class = agent[a].class
              /\ agent'[a].live = live /\ agent'[a].dead = dead
              /\ (\E k \in Keys : cached'[k] = a) \/ (\E u \in Threads : mine'[u] = a)
    <2>1. Typed /\ Drop(a, live, dead)
      BY <1>2 DEF IInv
    <2> QED
      BY <1>1, <2>1, DropIs
  <1>4. \A u \in Threads : /\ pc'[u] = IF u = t THEN "idle" ELSE pc[u]
                           /\ mine'[u] = IF u = t THEN NoAgent ELSE mine[u]
                           /\ call'[u] = IF u = t THEN NoCall ELSE call[u]
                           /\ session'[u] = IF u = t THEN NoSession ELSE session[u]
    BY <1>2 DEF IInv, Typed
  <1>5. \A b \in Agents : agent'[b] # Fresh =>
          /\ agent[b] # Fresh
          /\ agent'[b].key = agent[b].key /\ agent'[b].class = agent[b].class
          /\ agent'[b].password = agent[b].password
    BY <1>1, <1>3
  <1>6. Typed'
    BY <1>2, <1>3, <1>4 DEF IInv, Typed, Sessions, NoSession, Steps, HasAgent
  <1>7. LockOwned'
    BY <1>2, <1>4 DEF IInv, LockOwned, Locked, HasAgent
  <1>8. Alive'
    <2>1. \A k \in Keys : cached'[k] # NoAgent => agent'[cached'[k]] # Fresh /\ agent'[cached'[k]].key = k
      BY <1>2, <1>3 DEF IInv, Typed, Alive
    <2>2. \A u \in Threads : mine'[u] # NoAgent => agent'[mine'[u]] # Fresh
      BY <1>3, <1>4 DEF IInv, Typed, Alive
    <2>3. ASSUME NEW b \in Agents, agent'[b] # Fresh
          PROVE  (\E k \in Keys : cached'[k] = b) \/ (\E u \in Threads : mine'[u] = b)
      <3>1. CASE b = a
        BY <1>3, <2>3, <3>1
      <3>2. CASE b # a
        BY <1>0, <1>2, <1>3, <1>4, <2>3, <3>2 DEF IInv, Alive
      <3> QED
        BY <3>1, <3>2
    <2> QED
      BY <2>1, <2>2, <2>3 DEF Alive
  <1>9. Suited'
    BY <1>2, <1>4, <1>5 DEF IInv, Suited
  <1>10. \A u \in Threads : mine'[u] # NoAgent =>
           /\ u # t /\ mine'[u] = mine[u] /\ call'[u] = call[u] /\ mine[u] \in Agents
           /\ agent'[mine[u]] # Fresh
    BY <1>4, <1>8 DEF IInv, Typed, Alive
  <1>11. OwnPassword'
    BY <1>5, <1>10 DEF IInv, OwnPassword
  <1>12. OnlyCached'
    BY <1>2, <1>5 DEF IInv, OnlyCached
  <1>13. CheckedSession'
    <2>1. \A u \in Threads : session'[u].state = "dead" =>
            session'[u] = session[u] /\ u # t /\ mine[u] # NoAgent
      BY <1>4 DEF IInv, Typed, NoSession, HasAgent
    <2>2. \A u \in Threads : u # t => mine'[u] = mine[u]
      BY <1>4
    <2> QED
      BY <1>5, <1>10, <2>1, <2>2 DEF IInv, CheckedSession
  <1>14. AgentLimit'
    <2>1. Users(a)' = Users(a) \ {t}
      BY <1>1, <1>4, AgentsAssumption DEF Users
    <2>2. agent'[a] # Fresh => Open(a)' = live + dead + Cardinality(Users(a) \ {t})
      BY <1>3, <2>1 DEF Open
    <2>3. ASSUME NEW b \in Agents, b # a PROVE Users(b)' = Users(b)
      BY <1>0, <1>4, <2>3, AgentsAssumption DEF Users
    <2>4. \A b \in Agents : b # a => Open(b)' = Open(b)
      BY <1>3, <2>3 DEF Open
    <2> QED
      BY <1>0, <1>3, <1>5, <2>2, <2>4 DEF IInv, AgentLimit, MaxSize
  <1> QED
    BY <1>6, <1>7, <1>8, <1>9, <1>11, <1>12, <1>13, <1>14 DEF IInv

\* A new session is refused in conn_pool.get.
LEMMA GetFailsIInv == ASSUME IInv, NEW t \in Threads, GetFails(t) PROVE IInv'
  <1> DEFINE a == mine[t]
  <1>1. pc[t] = "get" /\ pc[t] \in HasAgent
    BY DEF GetFails, HasAgent
  <1>2. /\ agent[a].live \in Nat /\ agent[a].dead \in Nat
        /\ MaxSize(agent[a].class) \in Nat /\ Cardinality(Users(a)) \in Nat
        /\ agent[a].live + agent[a].dead + Cardinality(Users(a)) <= MaxSize(agent[a].class)
    BY <1>1, HasOne, UsersFinite DEF Open
  <1>3. PICK closed \in 0..Noticed(a) : Leave(t, agent[a].live, agent[a].dead - closed)
    BY DEF GetFails
  <1>4. Cardinality(Users(a) \ {t}) = Cardinality(Users(a))
    <2>1. Users(a) \ {t} = Users(a)
      BY <1>1 DEF Users
    <2> QED
      BY <2>1
  <1>5. closed \in Nat /\ closed <= agent[a].dead
    BY <1>2 DEF Noticed
  <1>6. /\ agent[a].dead - closed \in Nat
        /\ agent[a].live + (agent[a].dead - closed) + Cardinality(Users(a) \ {t}) <= MaxSize(agent[a].class)
    BY <1>2, <1>4, <1>5
  <1> QED
    BY <1>1, <1>2, <1>3, <1>6, LeaveIInv

\* The session goes back to the pool: there is room, as it was counted before.
LEMMA PutMediatorIInv == ASSUME IInv, NEW t \in Threads, PutMediator(t) PROVE IInv'
  <1> DEFINE a == mine[t]
  <1>1. pc[t] = "use" /\ pc[t] \in HasAgent
    BY DEF PutMediator, HasAgent
  <1>2. /\ agent[a].live \in Nat /\ agent[a].dead \in Nat
        /\ MaxSize(agent[a].class) \in Nat /\ Cardinality(Users(a)) \in Nat
        /\ agent[a].live + agent[a].dead + Cardinality(Users(a)) <= MaxSize(agent[a].class)
    BY <1>1, HasOne, UsersFinite DEF Open
  <1>3. t \in Users(a)
    BY <1>1 DEF Users
  <1>4. Cardinality(Users(a) \ {t}) = Cardinality(Users(a)) - 1
    BY <1>3, UsersFinite, FS_RemoveElement
  <1>5. CASE Leave(t, agent[a].live + 1, agent[a].dead)
    <2>1. agent[a].live + 1 \in Nat
          /\ (agent[a].live + 1) + agent[a].dead + Cardinality(Users(a) \ {t}) <= MaxSize(agent[a].class)
      BY <1>2, <1>4
    <2> QED
      BY <1>1, <1>2, <1>5, <2>1, LeaveIInv
  <1>6. CASE Leave(t, agent[a].live, agent[a].dead + 1)
    <2>1. agent[a].dead + 1 \in Nat
          /\ agent[a].live + (agent[a].dead + 1) + Cardinality(Users(a) \ {t}) <= MaxSize(agent[a].class)
      BY <1>2, <1>4
    <2> QED
      BY <1>1, <1>2, <1>6, <2>1, LeaveIInv
  <1> QED
    BY <1>5, <1>6 DEF PutMediator

\* Every step preserves the invariant.
LEMMA NextIInv == IInv /\ [Next]_vars => IInv'
  <1> SUFFICES ASSUME IInv, [Next]_vars PROVE IInv'
    OBVIOUS
  <1>1. CASE UNCHANGED vars
    <2>1. \A a : Users(a)' = Users(a)
      BY <1>1 DEF vars, Users
    <2>2. AgentLimit'
      BY <1>1, <2>1 DEF vars, IInv, AgentLimit, Open, MaxSize
    <2>3. Typed' /\ LockOwned' /\ Alive' /\ Suited' /\ OwnPassword' /\ OnlyCached' /\ CheckedSession'
      BY <1>1 DEF vars, IInv, Typed, LockOwned, Alive, Suited, OwnPassword, OnlyCached, CheckedSession
    <2> QED
      BY <2>2, <2>3 DEF IInv
  <1>2. ASSUME NEW t \in Threads, GetAgent(t) PROVE IInv'
    BY <1>2, FindIInv, DetectIInv, LoginIInv, LoginFailsIInv DEF GetAgent
  <1>3. ASSUME NEW t \in Threads, GetMediator(t) PROVE IInv'
    BY <1>3, TakeFreeIInv, CreateIInv, WaitIInv, TakeReturnedIInv, GetFailsIInv DEF GetMediator
  <1> QED
    BY <1>1, <1>2, <1>3, RequestIInv, PutMediatorIInv, DieIInv DEF Next

\* The invariant holds in every state.
LEMMA Invariance == Spec => []IInv
  BY InitIInv, NextIInv, PTL DEF Spec

-----------------------------------------------------------------------------
(***************************************************************************)
(* The properties.                                                         *)
(***************************************************************************)

\* get_agent returns, cached or new, an agent of the caller's own user, array and
\* password, which speaks the language of the array unless the probe of a DS8K
\* timed out; one thread at most is inside get_agent's lock.
THEOREM AgentsAreRight == Spec => []RightAgent
  <1>1. IInv => RightAgent
    <2> SUFFICES ASSUME IInv PROVE RightAgent
      OBVIOUS
    <2>1. Cardinality(lock) <= 1
      <3>1. CASE lock = {}
        BY <3>1, FS_EmptySet
      <3>2. CASE lock # {}
        <4>1. PICK t : lock = {t}
          BY <3>2 DEF IInv, LockOwned
        <4>2. Cardinality({t}) = 1
          BY FS_Singleton
        <4> QED
          BY <4>1, <4>2
      <3> QED
        BY <3>1, <3>2
    <2>2. TypeOK
      BY <2>1 DEF IInv, Typed, TypeOK, LockOwned, Locked, Steps, Sessions, AgentRecs, Fresh
    <2>3. RightMediator
      BY DEF IInv, Typed, Alive, Suited, Fits, OwnPassword, RightMediator
    <2> QED
      BY <2>2, <2>3 DEF IInv, RightAgent
  <1> QED
    BY <1>1, Invariance, PTL

\* A call is given a session that had died only if it waited for one, or if the
\* array is an XIV, whose is_active always says yes.
THEOREM SessionsAreChecked == Spec => []CheckedSession
  <1>1. IInv => CheckedSession
    BY DEF IInv
  <1> QED
    BY <1>1, Invariance, PTL

\* A user whose password does not change never has more sessions open at an array
\* than max_connections, over all agents that exist for it: there is only one, the
\* cached one, and a DS8K taken for an SVC has fewer sessions, not more.
THEOREM SessionsPerKey == Spec => []KeyLimit
  <1>1. ASSUME IInv, NEW k \in Keys, Cardinality(Passwords[k]) = 1
        PROVE  MapThenSumSet(Open, {a \in Made : agent[a].key = k}) <= MaxSize(Kind[k])
    <2> DEFINE S == {a \in Made : agent[a].key = k}
               F(g) == [s \in SUBSET S |->
                          IF s = {} THEN 0
                          ELSE Open(CHOOSE x \in s : TRUE) + g[s \ {CHOOSE x \in s : TRUE}]]
               sum == CHOOSE g : g = F(g)
               c == cached[k]
    <2>1. Kind[k] \in Classes /\ MaxSize(Kind[k]) \in Nat
      BY AgentsAssumption, MaxSizeIs
    <2>2. S = {} \/ S = {c}
      BY <1>1 DEF IInv, OnlyCached, Made
    <2>3. S = {c} => Open(c) \in Nat /\ Open(c) <= MaxSize(Kind[k])
      <3> SUFFICES ASSUME S = {c} PROVE Open(c) \in Nat /\ Open(c) <= MaxSize(Kind[k])
        OBVIOUS
      <3>1. c \in Agents /\ agent[c] # Fresh /\ agent[c].key = k
        BY DEF Made
      <3>2. agent[c] \in AgentRecs
        BY <1>1, <3>1 DEF IInv, Typed
      <3>3. agent[c].live \in Nat /\ agent[c].dead \in Nat /\ agent[c].class \in Classes
        BY <3>2 DEF AgentRecs
      <3>4. Open(c) \in Nat /\ Open(c) <= MaxSize(agent[c].class)
        BY <1>1, <3>1, <3>3, UsersFinite DEF Open, IInv, AgentLimit
      <3>5. agent[c].class = Kind[k] \/ (agent[c].class = "svc" /\ Kind[k] = "ds8k")
        BY <1>1, <3>1 DEF IInv, Suited, Fits
      <3>6. MaxSize(agent[c].class) <= MaxSize(Kind[k]) /\ MaxSize(agent[c].class) \in Nat
        BY <2>1, <3>3, <3>5, MaxSizeIs, AgentsAssumption
      <3> QED
        BY <2>1, <3>4, <3>6
    <2> HIDE DEF S, c
    <2>4. \A s \in SUBSET S : s = {} \/ (s = {c} /\ S = {c} /\ (CHOOSE x \in s : TRUE) = c /\ s \ {c} = {})
      BY <2>2
    <2>5. \E h : h = F(h)
      <3> DEFINE h == [s \in SUBSET S |-> IF s = {} THEN 0 ELSE Open(c)]
      <3>1. ASSUME NEW s \in SUBSET S PROVE h[s] = F(h)[s]
        BY <2>3, <2>4
      <3>2. h = F(h)
        BY <3>1
      <3> QED
        BY <3>2
    <2>6. sum = F(sum)
      BY <2>5
    <2>7. sum[{}] = 0 /\ (S = {c} => sum[{c}] = Open(c))
      <3> HIDE DEF sum
      <3>1. sum[{}] = 0
        BY <2>6
      <3>2. S = {c} => sum[{c}] = Open(CHOOSE x \in {c} : TRUE) + sum[{c} \ {CHOOSE x \in {c} : TRUE}]
        BY <2>6
      <3> QED
        BY <3>1, <3>2, <2>3, <2>4
    <2>8. MapThenSumSet(Open, S) = sum[S]
      BY DEF MapThenSumSet, MapThenFoldSet
    <2>9. sum[S] <= MaxSize(Kind[k])
      <3> HIDE DEF sum
      <3> QED
        BY <2>1, <2>2, <2>3, <2>7
    <2> QED
      BY <2>8, <2>9 DEF S
  <1>2. IInv => KeyLimit
    BY <1>1 DEF KeyLimit
  <1> QED
    BY <1>2, Invariance, PTL
=============================================================================
