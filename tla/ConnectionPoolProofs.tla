------------------------ MODULE ConnectionPoolProofs ------------------------
(***************************************************************************)
(* The safety of ConnectionPool for any number of threads, any max_size,   *)
(* any number of mediators and any number of refused logins.               *)
(***************************************************************************)
EXTENDS ConnectionPool, FiniteSetTheorems, TLAPS

\* A mediator that is in the queue or in a thread's hands has been connected
\* and not yet disconnected.
Connected == /\ \A i \in 1..Len(channel) : conn[channel[i]] # "none"
             /\ \A t \in Carriers : conn[item[t]] # "none"

\* The inductive invariant.  The counter's meaning (SizeAccounting) is what
\* makes decrements safe and the queue large enough; Connected is what makes
\* the identity that Create picks a fresh one.
IInv == /\ TypeOK
        /\ SizeAccounting
        /\ PutNeverDiscards
        /\ ExclusiveUse
        /\ Connected
        /\ NoSessionLeaks

-----------------------------------------------------------------------------
(***************************************************************************)
(* How the number of holders follows the threads' steps.                   *)
(***************************************************************************)

\* The set of threads that count is finite, as there are finitely many threads.
LEMMA HoldersFinite == IsFiniteSet(Holders) /\ Cardinality(Holders) \in Nat
  BY PoolAssumption, FS_Subset, FS_CardinalityType DEF Holders

\* A thread that starts to count (it took a mediator or reserved room for one)
\* raises the number of holders by one.
LEMMA HolderGained ==
  ASSUME NEW t \in Threads, pc[t] \notin Counted,
         pc \in [Threads -> Steps],
         NEW s \in Counted, GoTo(t, s)
  PROVE  Cardinality(Holders') = Cardinality(Holders) + 1
  <1>1. t \notin Holders /\ Holders' = Holders \cup {t}
    BY DEF Holders, GoTo
  <1> QED
    BY <1>1, HoldersFinite, FS_AddElement

\* A thread that stops counting lowers it by one, and it was positive.
LEMMA HolderLost ==
  ASSUME NEW t \in Threads, pc[t] \in Counted,
         pc \in [Threads -> Steps],
         NEW s \in Steps \ Counted, GoTo(t, s)
  PROVE  /\ Cardinality(Holders') = Cardinality(Holders) - 1
         /\ Cardinality(Holders) > 0
  <1>1. t \in Holders /\ Holders' = Holders \ {t}
    BY DEF Holders, GoTo
  <1>2. Cardinality(Holders \ {t}) = Cardinality(Holders) - 1
    BY <1>1, HoldersFinite, FS_RemoveElement
  <1>3. Cardinality(Holders \ {t}) \in Nat
    BY HoldersFinite, FS_RemoveElement, FS_CardinalityType
  <1> QED
    BY <1>1, <1>2, <1>3, HoldersFinite

\* A step between two counting steps, or between two others, leaves it alone.
LEMMA HoldersKept ==
  ASSUME NEW t \in Threads, pc \in [Threads -> Steps],
         NEW s \in Steps, GoTo(t, s), pc[t] \in Counted <=> s \in Counted
  PROVE  Holders' = Holders
  BY DEF Holders, GoTo

\* While some thread counts, the number of holders is positive.
LEMMA HolderThere ==
  ASSUME NEW t \in Threads, pc[t] \in Counted
  PROVE  Cardinality(Holders) > 0
  <1>1. t \in Holders
    BY DEF Holders
  <1>2. Cardinality(Holders \ {t}) = Cardinality(Holders) - 1
    BY <1>1, HoldersFinite, FS_RemoveElement
  <1>3. Cardinality(Holders \ {t}) \in Nat
    BY HoldersFinite, FS_RemoveElement, FS_CardinalityType
  <1> QED
    BY <1>2, <1>3, HoldersFinite

-----------------------------------------------------------------------------
(***************************************************************************)
(* Every action preserves the inductive invariant.                         *)
(***************************************************************************)

\* The constructor establishes the invariant.
LEMMA InitIInv == Init => IInv
  <1> SUFFICES ASSUME NEW c \in Conns,
                      channel = <<c>>, current_size = 1,
                      pc = [t \in Threads |-> "idle"],
                      item = [t \in Threads |-> NoConn],
                      conn = [d \in Conns |-> IF d = c THEN "active" ELSE "none"],
                      refused = 0
               PROVE  IInv
    BY DEF Init
  <1>1. Holders = {} /\ Carriers = {}
    BY DEF Holders, Carriers, Counted, Carrying
  <1>2. Len(channel) = 1 /\ channel[1] = c /\ channel \in Seq(Conns)
    OBVIOUS
  <1>3. TypeOK
    BY <1>2, PoolAssumption DEF TypeOK, Steps, Sessions, Carrying
  <1>4. SizeAccounting
    BY <1>1, <1>2, FS_EmptySet, PoolAssumption DEF SizeAccounting
  <1>5. PutNeverDiscards /\ ExclusiveUse /\ Connected /\ NoSessionLeaks
    BY <1>1, <1>2 DEF PutNeverDiscards, ExclusiveUse, Connected, NoSessionLeaks, InChannel
  <1> QED
    BY <1>3, <1>4, <1>5 DEF IInv

\* The steps that move a thread without touching queue, hands or sessions.
LEMMA QuietStep ==
  ASSUME IInv, NEW t \in Threads, NEW s \in Steps \ {"discard"}, GoTo(t, s),
         pc[t] \in Carrying <=> s \in Carrying,
         current_size' \in Nat, refused' \in 0..MaxRefusals, SizeAccounting',
         UNCHANGED <<channel, item, conn>>
  PROVE  IInv'
  <1> USE DEF IInv, TypeOK
  <1>1. TypeOK' /\ PutNeverDiscards'
    BY DEF GoTo, PutNeverDiscards
  <1>2. Carriers' = Carriers /\ InChannel' = InChannel
    BY DEF Carriers, GoTo, InChannel
  <1>3. ExclusiveUse' /\ Connected' /\ NoSessionLeaks'
    BY <1>2 DEF ExclusiveUse, Connected, NoSessionLeaks
  <1> QED
    BY <1>1, <1>3

\* get_mediator() preserves the invariant.
LEMMA RequestIInv == ASSUME IInv, NEW t \in Threads, Request(t) PROVE IInv'
  <1>1. Holders' = Holders
    BY HoldersKept DEF Request, IInv, TypeOK, Steps, Counted
  <1>2. SizeAccounting'
    BY <1>1 DEF IInv, Request, SizeAccounting
  <1> QED
    BY <1>2, QuietStep DEF IInv, TypeOK, Request, Steps, Carrying

\* Taking the oldest idle mediator, in either call of channel.get, preserves
\* the invariant: what leaves the queue is in the thread's hands.
LEMMA DequeueIInv ==
  ASSUME IInv, NEW t \in Threads, pc[t] \in {"scan", "wait"},
         NEW s \in {"check", "use"}, GoTo(t, s),
         channel # << >>,
         item' = [item EXCEPT ![t] = Head(channel)],
         channel' = Tail(channel),
         UNCHANGED <<current_size, conn, refused>>
  PROVE  IInv'
  <1> USE DEF IInv, TypeOK
  <1>1. /\ Len(channel) \in Nat /\ Len(channel) > 0
        /\ Head(channel) = channel[1] /\ channel[1] \in Conns
        /\ channel' \in Seq(Conns)
        /\ Len(channel') = Len(channel) - 1
        /\ \A i \in 1..Len(channel') : channel'[i] = channel[i + 1]
    OBVIOUS
  <1>2. Carriers' = Carriers \cup {t} /\ t \notin Carriers
    BY DEF Carriers, GoTo, Carrying
  <1>3. TypeOK' /\ PutNeverDiscards'
    BY <1>1, PoolAssumption DEF GoTo, Steps, Carrying, PutNeverDiscards
  <1>4. SizeAccounting'
    <2>1. Cardinality(Holders') = Cardinality(Holders) + 1
      BY HolderGained DEF Counted
    <2> QED
      BY <1>1, <2>1, HoldersFinite DEF SizeAccounting
  <1>5. InChannel = InChannel' \cup {channel[1]}
    <2>1. ASSUME NEW x \in InChannel PROVE x \in InChannel' \cup {channel[1]}
      <3>1. PICK i \in 1..Len(channel) : x = channel[i]
        BY DEF InChannel
      <3>2. CASE i = 1
        BY <3>1, <3>2
      <3>3. CASE i # 1
        <4>1. i - 1 \in 1..Len(channel') /\ channel'[i - 1] = x
          BY <3>1, <3>3, <1>1
        <4> QED
          BY <4>1 DEF InChannel
      <3> QED
        BY <3>2, <3>3
    <2>2. ASSUME NEW x \in InChannel' \cup {channel[1]} PROVE x \in InChannel
      <3>1. CASE x = channel[1]
        BY <3>1, <1>1 DEF InChannel
      <3>2. CASE x \in InChannel'
        <4>1. PICK i \in 1..Len(channel') : x = channel'[i]
          BY <3>2 DEF InChannel
        <4>2. i + 1 \in 1..Len(channel) /\ channel[i + 1] = x
          BY <4>1, <1>1
        <4> QED
          BY <4>2 DEF InChannel
      <3> QED
        BY <3>1, <3>2
    <2> QED
      BY <2>1, <2>2
  <1>6. channel[1] \notin InChannel'
    BY <1>1 DEF InChannel, ExclusiveUse
  <1>7. \A u \in Carriers : item'[u] = item[u] /\ item[u] # channel[1]
    BY <1>2, <1>5 DEF ExclusiveUse, Carriers
  <1>8. ExclusiveUse'
    BY <1>1, <1>2, <1>5, <1>6, <1>7 DEF ExclusiveUse
  <1>9. Connected'
    BY <1>1, <1>2, <1>7 DEF Connected
  <1>10. NoSessionLeaks'
    BY <1>1, <1>2, <1>5, <1>7 DEF NoSessionLeaks
  <1> QED
    BY <1>3, <1>4, <1>8, <1>9, <1>10

\* The non-blocking channel.get preserves the invariant.
LEMMA ScanIInv == ASSUME IInv, NEW t \in Threads, Scan(t) PROVE IInv'
  <1>1. CASE channel = << >>
    <2>1. Holders' = Holders
      BY <1>1, HoldersKept DEF Scan, IInv, TypeOK, Steps, Counted
    <2>2. SizeAccounting'
      BY <1>1, <2>1 DEF IInv, Scan, SizeAccounting
    <2> QED
      BY <1>1, <2>2, QuietStep DEF IInv, TypeOK, Scan, Steps, Carrying
  <1>2. CASE channel # << >>
    BY <1>2, DequeueIInv DEF Scan
  <1> QED
    BY <1>1, <1>2

\* So does the blocking one.
LEMMA TakeIInv == ASSUME IInv, NEW t \in Threads, Take(t) PROVE IInv'
  BY DequeueIInv DEF Take

\* is_active() preserves the invariant, whatever it answers.
LEMMA CheckIInv == ASSUME IInv, NEW t \in Threads, Check(t) PROVE IInv'
  <1> DEFINE s == IF conn[item[t]] = "active" THEN "use" ELSE "drop"
  <1>1. s \in Steps \ {"discard"} /\ s \in Counted /\ s \in Carrying
    BY DEF Steps, Counted, Carrying
  <1>2. GoTo(t, s) /\ pc[t] = "check" /\ UNCHANGED <<channel, current_size, item, conn, refused>>
    BY DEF Check
  <1> HIDE DEF s
  <1>3. Holders' = Holders
    BY <1>1, <1>2, HoldersKept DEF IInv, TypeOK, Counted
  <1>4. SizeAccounting'
    BY <1>2, <1>3 DEF IInv, SizeAccounting
  <1> QED
    BY <1>1, <1>2, <1>4, QuietStep DEF IInv, TypeOK, Carrying

\* Counting a dead mediator out preserves the invariant: the thread that does
\* it counted, so current_size was positive.
LEMMA DropIInv == ASSUME IInv, NEW t \in Threads, Drop(t) PROVE IInv'
  <1>1. Cardinality(Holders') = Cardinality(Holders) - 1 /\ Cardinality(Holders) > 0
    BY HolderLost DEF Drop, IInv, TypeOK, Steps, Counted
  <1>2. current_size' \in Nat /\ SizeAccounting'
    BY <1>1, HoldersFinite, PoolAssumption DEF IInv, TypeOK, Drop, SizeAccounting
  <1> QED
    BY <1>2, QuietStep DEF IInv, TypeOK, Drop, Steps, Carrying

\* Reserving room, or finding the pool full, preserves the invariant: the test
\* and the increment are one critical section.
LEMMA ReserveIInv == ASSUME IInv, NEW t \in Threads, Reserve(t) PROVE IInv'
  <1>1. CASE current_size >= MaxSize
    <2>1. Holders' = Holders
      BY <1>1, HoldersKept DEF Reserve, IInv, TypeOK, Steps, Counted
    <2>2. SizeAccounting'
      BY <1>1, <2>1 DEF IInv, Reserve, SizeAccounting
    <2> QED
      BY <1>1, <2>2, QuietStep DEF IInv, TypeOK, Reserve, Steps, Carrying
  <1>2. CASE ~(current_size >= MaxSize)
    <2>1. Cardinality(Holders') = Cardinality(Holders) + 1
      BY <1>2, HolderGained DEF Reserve, IInv, TypeOK, Counted
    <2>2. current_size' \in Nat /\ SizeAccounting'
      BY <1>2, <2>1, HoldersFinite, PoolAssumption
         DEF IInv, TypeOK, Reserve, SizeAccounting
    <2> QED
      BY <1>2, <2>2, QuietStep DEF IInv, TypeOK, Reserve, Steps, Carrying
  <1> QED
    BY <1>1, <1>2

\* A refused login preserves the invariant.
LEMMA CreateFailIInv == ASSUME IInv, NEW t \in Threads, CreateFail(t) PROVE IInv'
  <1>1. Holders' = Holders
    BY HoldersKept DEF CreateFail, IInv, TypeOK, Steps, Counted
  <1>2. SizeAccounting'
    BY <1>1 DEF IInv, CreateFail, SizeAccounting
  <1>3. refused' \in 0..MaxRefusals
    BY PoolAssumption DEF IInv, TypeOK, CreateFail
  <1> QED
    BY <1>2, <1>3, QuietStep DEF IInv, TypeOK, CreateFail, Steps, Carrying

\* Giving the reserved room back preserves the invariant.
LEMMA UnreserveIInv == ASSUME IInv, NEW t \in Threads, Unreserve(t) PROVE IInv'
  <1>1. Cardinality(Holders') = Cardinality(Holders) - 1 /\ Cardinality(Holders) > 0
    BY HolderLost DEF Unreserve, IInv, TypeOK, Steps, Counted
  <1>2. current_size' \in Nat /\ SizeAccounting'
    BY <1>1, HoldersFinite, PoolAssumption DEF IInv, TypeOK, Unreserve, SizeAccounting
  <1> QED
    BY <1>2, QuietStep DEF IInv, TypeOK, Unreserve, Steps, Carrying

\* The end of the handler's block preserves the invariant.
LEMMA ReleaseIInv == ASSUME IInv, NEW t \in Threads, Release(t) PROVE IInv'
  <1>1. Holders' = Holders
    BY HoldersKept DEF Release, IInv, TypeOK, Steps, Counted
  <1>2. SizeAccounting'
    BY <1>1 DEF IInv, Release, SizeAccounting
  <1> QED
    BY <1>2, QuietStep DEF IInv, TypeOK, Release, Steps, Carrying

\* The decision of put() preserves the invariant: the pool is never over its
\* limit, so it never decides to discard.
LEMMA PutDecideIInv == ASSUME IInv, NEW t \in Threads, PutDecide(t) PROVE IInv'
  <1>1. ~(current_size > MaxSize)
    BY PoolAssumption DEF IInv, TypeOK, SizeAccounting
  <1>2. GoTo(t, "offer") /\ pc[t] = "put" /\ UNCHANGED <<channel, current_size, item, conn, refused>>
    BY <1>1 DEF PutDecide
  <1>3. Holders' = Holders
    BY <1>2, HoldersKept DEF IInv, TypeOK, Steps, Counted
  <1>4. SizeAccounting'
    BY <1>2, <1>3 DEF IInv, SizeAccounting
  <1> QED
    BY <1>2, <1>4, QuietStep DEF IInv, TypeOK, Steps, Carrying

\* Disconnecting preserves the invariant: nobody else has the mediator.
LEMMA DisconnectIInv == ASSUME IInv, NEW t \in Threads, Disconnect(t) PROVE IInv'
  <1> USE DEF IInv, TypeOK
  <1>1. pc[t] = "close" /\ GoTo(t, "scan")
    BY DEF Disconnect, PutNeverDiscards
  <1>2. item[t] \in Conns /\ t \in Carriers /\ Carriers' = Carriers \ {t}
    BY <1>1 DEF Carriers, GoTo, Carrying
  <1>3. /\ channel' = channel /\ current_size' = current_size /\ refused' = refused
        /\ conn' = [conn EXCEPT ![item[t]] = "none"]
        /\ item' = [item EXCEPT ![t] = NoConn]
    BY DEF Disconnect
  <1>4. TypeOK' /\ PutNeverDiscards'
    BY <1>1, <1>2, <1>3 DEF GoTo, Steps, Carrying, Sessions, PutNeverDiscards
  <1>5. SizeAccounting'
    <2>1. Holders' = Holders
      BY <1>1, HoldersKept DEF Steps, Counted
    <2> QED
      BY <1>3, <2>1 DEF SizeAccounting
  <1>6. InChannel' = InChannel /\ item[t] \notin InChannel
    BY <1>2, <1>3 DEF InChannel, ExclusiveUse
  <1>7. \A u \in Carriers' : u \in Carriers /\ item'[u] = item[u] /\ item[u] # item[t]
    BY <1>2, <1>3 DEF ExclusiveUse, Carriers
  <1>8. ExclusiveUse'
    BY <1>3, <1>6, <1>7 DEF ExclusiveUse
  <1>9. Connected'
    BY <1>2, <1>3, <1>6, <1>7 DEF Connected, InChannel, Carriers
  <1>10. NoSessionLeaks'
    BY <1>2, <1>3, <1>6, <1>7 DEF NoSessionLeaks
  <1> QED
    BY <1>4, <1>5, <1>8, <1>9, <1>10

\* A login preserves the invariant: the new mediator is nowhere in the pool.
LEMMA CreateIInv == ASSUME IInv, NEW t \in Threads, Create(t) PROVE IInv'
  <1> USE DEF IInv, TypeOK
  <1>1. PICK c \in Conns : /\ conn[c] = "none"
                           /\ conn' = [conn EXCEPT ![c] = "active"]
                           /\ item' = [item EXCEPT ![t] = c]
    BY DEF Create
  <1>2. pc[t] = "create" /\ GoTo(t, "use") /\ UNCHANGED <<channel, current_size, refused>>
    BY DEF Create
  <1>3. Carriers' = Carriers \cup {t} /\ t \notin Carriers
    BY <1>2 DEF Carriers, GoTo, Carrying
  <1>4. TypeOK' /\ PutNeverDiscards'
    BY <1>1, <1>2, PoolAssumption DEF GoTo, Steps, Carrying, Sessions, PutNeverDiscards
  <1>5. SizeAccounting'
    <2>1. Holders' = Holders
      BY <1>2, HoldersKept DEF Steps, Counted
    <2> QED
      BY <1>2, <2>1 DEF SizeAccounting
  <1>6. InChannel' = InChannel /\ c \notin InChannel
    BY <1>1, <1>2 DEF InChannel, Connected
  <1>7. \A u \in Carriers : item'[u] = item[u] /\ item[u] # c /\ item[u] \in Conns
    BY <1>1, <1>3 DEF Connected, Carriers
  <1>8. ExclusiveUse'
    BY <1>1, <1>2, <1>3, <1>6, <1>7 DEF ExclusiveUse
  <1>9. Connected'
    BY <1>1, <1>2, <1>3, <1>7 DEF Connected
  <1>10. NoSessionLeaks'
    BY <1>1, <1>2, <1>3, <1>6, <1>7 DEF NoSessionLeaks
  <1> QED
    BY <1>4, <1>5, <1>8, <1>9, <1>10

\* Putting a mediator back preserves the invariant: the thread that offers it
\* counted, so the queue has room for it.
LEMMA OfferIInv == ASSUME IInv, NEW t \in Threads, Offer(t) PROVE IInv'
  <1> USE DEF IInv, TypeOK
  <1>1. Len(channel) \in Nat /\ Len(channel) < MaxSize
    BY HolderThere, HoldersFinite, PoolAssumption DEF Offer, SizeAccounting, Counted
  <1>2. /\ pc[t] = "offer" /\ GoTo(t, "idle")
        /\ channel' = Append(channel, item[t])
        /\ item' = [item EXCEPT ![t] = NoConn]
        /\ UNCHANGED <<current_size, conn, refused>>
    BY <1>1 DEF Offer
  <1>3. item[t] \in Conns /\ t \in Carriers /\ Carriers' = Carriers \ {t}
    BY <1>2 DEF Carriers, GoTo, Carrying
  <1>4. /\ channel' \in Seq(Conns) /\ Len(channel') = Len(channel) + 1
        /\ \A i \in 1..Len(channel) : channel'[i] = channel[i]
        /\ channel'[Len(channel) + 1] = item[t]
    BY <1>2, <1>3
  <1>5. TypeOK' /\ PutNeverDiscards'
    BY <1>2, <1>3, <1>4 DEF GoTo, Steps, Carrying, PutNeverDiscards
  <1>6. SizeAccounting'
    <2>1. Cardinality(Holders') = Cardinality(Holders) - 1
      BY <1>2, HolderLost DEF Steps, Counted
    <2> QED
      BY <1>1, <1>2, <1>4, <2>1, HoldersFinite DEF SizeAccounting
  <1>7. InChannel' = InChannel \cup {item[t]}
    BY <1>1, <1>4, SMTT(30) DEF InChannel
  <1>8. \A u \in Carriers' : u \in Carriers /\ item'[u] = item[u] /\ item[u] # item[t]
    BY <1>2, <1>3 DEF ExclusiveUse, Carriers
  <1>9. ExclusiveUse'
    <2>1. \A i, j \in 1..Len(channel') : i # j => channel'[i] # channel'[j]
      BY <1>1, <1>3, <1>4 DEF ExclusiveUse, InChannel
    <2> QED
      BY <1>7, <1>8, <2>1 DEF ExclusiveUse
  <1>10. Connected'
    BY <1>1, <1>2, <1>3, <1>4, <1>8 DEF Connected
  <1>11. NoSessionLeaks'
    BY <1>2, <1>3, <1>7, <1>8 DEF NoSessionLeaks
  <1> QED
    BY <1>5, <1>6, <1>9, <1>10, <1>11

\* The death of a session preserves the invariant.
LEMMA DieIInv == ASSUME IInv, NEW c \in Conns, Die(c) PROVE IInv'
  <1> USE DEF IInv, TypeOK, Die
  <1>1. Holders' = Holders /\ Carriers' = Carriers /\ InChannel' = InChannel
    BY DEF Holders, Carriers, InChannel
  <1>2. TypeOK' /\ PutNeverDiscards' /\ SizeAccounting'
    BY <1>1 DEF Sessions, PutNeverDiscards, SizeAccounting
  <1>3. ExclusiveUse' /\ NoSessionLeaks'
    BY <1>1 DEF ExclusiveUse, NoSessionLeaks
  <1>4. Connected'
    BY <1>1 DEF Connected, Carriers
  <1> QED
    BY <1>2, <1>3, <1>4

\* The invariant is inductive.
LEMMA NextIInv == IInv /\ [Next]_vars => IInv'
  <1> SUFFICES ASSUME IInv, [Next]_vars PROVE IInv'
    OBVIOUS
  <1>1. ASSUME NEW t \in Threads, Request(t) PROVE IInv'
    BY <1>1, RequestIInv
  <1>2. ASSUME NEW t \in Threads, Advance(t) PROVE IInv'
    BY <1>2, ScanIInv, CheckIInv, DropIInv, DisconnectIInv, ReserveIInv, CreateIInv,
       CreateFailIInv, UnreserveIInv, ReleaseIInv, PutDecideIInv, OfferIInv DEF Advance
  <1>3. ASSUME NEW t \in Threads, Take(t) PROVE IInv'
    BY <1>3, TakeIInv
  <1>4. ASSUME NEW c \in Conns, Die(c) PROVE IInv'
    BY <1>4, DieIInv
  <1>5. CASE UNCHANGED vars
    BY <1>5, SMTT(30) DEF vars, IInv, TypeOK, SizeAccounting, PutNeverDiscards, ExclusiveUse,
                Connected, NoSessionLeaks, Holders, Carriers, InChannel
  <1> QED
    BY <1>1, <1>2, <1>3, <1>4, <1>5 DEF Next

\* Every reachable state of the pool satisfies the inductive invariant.
LEMMA Invariance == Spec => []IInv
  BY InitIInv, NextIInv, PTL DEF Spec

-----------------------------------------------------------------------------
\* The pool's variables keep their types; in particular current_size, which
\* get() lowers in two places, never becomes negative.
THEOREM TypeCorrect == Spec => []TypeOK
  BY Invariance, PTL DEF IInv

\* current_size counts exactly the idle mediators and the threads that have or
\* make one, and never passes max_size (get(), put()).
THEOREM Accounting == Spec => []SizeAccounting
  BY Invariance, PTL DEF IInv

\* No mediator is with two threads, or with a thread and in the queue.
THEOREM Exclusive == Spec => []ExclusiveUse
  BY Invariance, PTL DEF IInv

\* No session is forgotten without disconnect().
THEOREM NoLeaks == Spec => []NoSessionLeaks
  BY Invariance, PTL DEF IInv

\* The two discarding branches of put() are dead code.
THEOREM NeverDiscards == Spec => []PutNeverDiscards
  BY Invariance, PTL DEF IInv

-----------------------------------------------------------------------------
(***************************************************************************)
(* The number of live sessions.                                            *)
(***************************************************************************)

\* A mediator that has been found dead stays dead until it is disconnected.
Doomed == \A t \in Threads : pc[t] \in {"drop", "close"} => conn[item[t]] = "dead"

\* No step revives a mediator that get() is getting rid of.
LEMMA DoomedInductive == IInv /\ Doomed /\ [Next]_vars => Doomed'
  <1> SUFFICES ASSUME IInv, Doomed, [Next]_vars,
                      NEW u \in Threads, pc'[u] \in {"drop", "close"}
               PROVE  conn'[item'[u]] = "dead"
    BY DEF Doomed
  <1> USE DEF IInv, TypeOK, GoTo
  <1>1. ASSUME NEW t \in Threads,
               Request(t) \/ Scan(t) \/ Reserve(t) \/ CreateFail(t) \/ Unreserve(t)
                 \/ Release(t) \/ PutDecide(t) \/ Offer(t) \/ Take(t) \/ Drop(t)
        PROVE  conn'[item'[u]] = "dead"
    BY <1>1 DEF Doomed, Request, Scan, Reserve, CreateFail, Unreserve, Release,
                PutDecide, Offer, Take, Drop, Steps
  <1>2. ASSUME NEW t \in Threads, Check(t) PROVE conn'[item'[u]] = "dead"
    <2>1. CASE u = t
      <3>1. item[t] \in Conns /\ conn[item[t]] # "active" /\ conn[item[t]] # "none"
        BY <1>2, <2>1 DEF Check, Connected, Carriers, Carrying
      <3> QED
        BY <1>2, <2>1, <3>1 DEF Check, Sessions
    <2>2. CASE u # t
      BY <1>2, <2>2 DEF Check, Doomed
    <2> QED
      BY <2>1, <2>2
  <1>3. ASSUME NEW t \in Threads, Disconnect(t) PROVE conn'[item'[u]] = "dead"
    <2>1. u # t /\ pc[u] \in {"drop", "close"} /\ item'[u] = item[u] /\ item[u] \in Conns
      BY <1>3 DEF Disconnect, Carrying
    <2>2. item[u] # item[t]
      BY <1>3, <2>1 DEF Disconnect, ExclusiveUse, Carriers, Carrying
    <2> QED
      BY <1>3, <2>1, <2>2 DEF Disconnect, Doomed
  <1>4. ASSUME NEW t \in Threads, Create(t) PROVE conn'[item'[u]] = "dead"
    <2>1. u # t /\ pc[u] \in {"drop", "close"} /\ item'[u] = item[u]
      BY <1>4 DEF Create
    <2> QED
      BY <1>4, <2>1 DEF Create, Doomed
  <1>5. ASSUME NEW c \in Conns, Die(c) PROVE conn'[item'[u]] = "dead"
    BY <1>5 DEF Die, Doomed
  <1>6. CASE UNCHANGED vars
    BY <1>6 DEF vars, Doomed
  <1> QED
    BY <1>1, <1>2, <1>3, <1>4, <1>5, <1>6 DEF Next, Advance

\* Live sessions are in the queue or with a thread that counts, so there are
\* no more of them than current_size.
LEMMA LiveAreCounted == IInv /\ Doomed => SessionLimit
  <1> SUFFICES ASSUME IInv, Doomed PROVE SessionLimit
    OBVIOUS
  <1> USE DEF IInv, TypeOK
  <1> DEFINE Live == {c \in Conns : conn[c] = "active"}
             HC   == Holders \cap Carriers
             Held == {item[t] : t \in HC}
             place == [t \in HC |-> item[t]]
  <1>1. Live \subseteq InChannel \cup Held
    BY DEF NoSessionLeaks, Doomed, Carriers, Carrying, Holders, Counted, PutNeverDiscards
  <1>2. IsFiniteSet(InChannel) /\ Cardinality(InChannel) <= Len(channel)
    <2>1. channel \in Surjection(1..Len(channel), InChannel)
      BY DEF Surjection, InChannel
    <2>2. IsFiniteSet(1..Len(channel)) /\ Cardinality(1..Len(channel)) = Len(channel)
      <3>1. Len(channel) \in Nat /\ 1 \in Int /\ Len(channel) \in Int
        OBVIOUS
      <3>2. /\ IsFiniteSet(1..Len(channel))
            /\ Cardinality(1..Len(channel)) = IF 1 > Len(channel) THEN 0 ELSE Len(channel) - 1 + 1
        BY <3>1, FS_Interval, Zenon
      <3> QED
        BY <3>1, <3>2
    <2>3. IsFiniteSet(InChannel) /\ Cardinality(InChannel) <= Cardinality(1..Len(channel))
      BY <2>1, <2>2, FS_Surjection
    <2> QED
      BY <2>2, <2>3
  <1>3. IsFiniteSet(Held) /\ Cardinality(Held) <= Cardinality(Holders)
    <2>1. place \in Surjection(HC, Held)
      BY DEF Surjection
    <2>2. /\ IsFiniteSet(HC) /\ Cardinality(HC) <= Cardinality(Holders)
          /\ Cardinality(HC) \in Nat
      BY HoldersFinite, FS_Subset, FS_CardinalityType
    <2>3. IsFiniteSet(Held) /\ Cardinality(Held) <= Cardinality(HC) /\ Cardinality(Held) \in Nat
      BY <2>1, <2>2, FS_Surjection, FS_CardinalityType
    <2> QED
      BY <2>2, <2>3, HoldersFinite
  <1>4. Cardinality(InChannel \cup Held) <= Cardinality(InChannel) + Cardinality(Held)
    <2>1. IsFiniteSet(InChannel \cap Held)
      BY <1>2, FS_Subset
    <2>2. Cardinality(InChannel \cap Held) \in Nat
      BY <2>1, FS_CardinalityType
    <2>3. Cardinality(InChannel) \in Nat /\ Cardinality(Held) \in Nat
      BY <1>2, <1>3, FS_CardinalityType
    <2>4. Cardinality(InChannel \cup Held)
          = Cardinality(InChannel) + Cardinality(Held) - Cardinality(InChannel \cap Held)
      BY <1>2, <1>3, FS_Union
    <2> HIDE DEF Held
    <2> QED
      BY <2>2, <2>3, <2>4
  <1>5. Cardinality(Live) <= Cardinality(InChannel \cup Held)
    BY <1>1, <1>2, <1>3, FS_Union, FS_Subset
  <1>6. /\ Cardinality(Live) \in Nat /\ Cardinality(InChannel) \in Nat
        /\ Cardinality(Held) \in Nat /\ Cardinality(InChannel \cup Held) \in Nat
    BY <1>1, <1>2, <1>3, FS_Union, FS_Subset, FS_CardinalityType
  <1>7. Cardinality(Live) <= MaxSize
    <2> HIDE DEF Live, Held, HC
    <2> QED
      BY <1>2, <1>3, <1>4, <1>5, <1>6, HoldersFinite, PoolAssumption DEF SizeAccounting
  <1> QED
    BY <1>7 DEF SessionLimit

\* The array never serves more than max_size live sessions of one pool.
THEOREM LiveSessionsBounded == Spec => []SessionLimit
  <1>1. Init => Doomed
    BY DEF Init, Doomed
  <1> QED
    BY <1>1, Invariance, DoomedInductive, LiveAreCounted, PTL DEF Spec

-----------------------------------------------------------------------------
(***************************************************************************)
(* The pool implements ConnectionLeases.                                   *)
(***************************************************************************)

\* Cardinality means the same in both modules.
LEMMA SameCardinality == \A S : Leases!Cardinality(S) = Cardinality(S)
  BY DEF Leases!Cardinality, Cardinality, Leases!IsFiniteSet, IsFiniteSet

\* The threads that have been given a connection are holders.
LEMMA LentThreads ==
  ASSUME IInv
  PROVE  /\ Leases!Lent = {t \in Threads : pc[t] \in Lending}
         /\ Leases!Lent \subseteq Holders
  BY DEF IInv, TypeOK, PutNeverDiscards, Leases!Lent, Lending, Carrying, Holders, Counted

\* A step in which thread t's get() returns mediator c is a Grant: some thread
\* that counts, t or the one that made room, is not lending yet.
LEMMA GrantStep ==
  ASSUME IInv, IInv', NEW t \in Threads, NEW c \in Conns,
         pc[t] \in {"check", "create", "wait"}, GoTo(t, "use"),
         item' = [item EXCEPT ![t] = c],
         \A u \in Carriers : u # t => item[u] # c,
         Cardinality(Holders') <= MaxSize
  PROVE  Leases!Grant(t, c)
  <1> USE DEF IInv, TypeOK
  <1>1. t \in Holders' /\ t \notin Leases!Lent /\ Leases!Lent \subseteq Holders' \ {t}
    BY LentThreads DEF Lending, Holders, Counted, GoTo
  <1>2. /\ Cardinality(Leases!Lent) <= Cardinality(Holders' \ {t})
        /\ Cardinality(Leases!Lent) \in Nat
        /\ Cardinality(Holders' \ {t}) = Cardinality(Holders') - 1
        /\ Cardinality(Holders') \in Nat
    <2>1. IsFiniteSet(Holders')
      BY PoolAssumption, FS_Subset DEF Holders
    <2>2. IsFiniteSet(Holders' \ {t}) /\ Cardinality(Holders' \ {t}) = Cardinality(Holders') - 1
      BY <1>1, <2>1, FS_RemoveElement
    <2> QED
      BY <1>1, <2>1, <2>2, FS_Subset, FS_CardinalityType
  <1>3. Cardinality(Leases!Lent) < MaxSize
    BY <1>2, PoolAssumption
  <1>4. \A u \in Threads : (IF pc[u] \in Lending THEN item[u] ELSE NoConn) # c
    BY PoolAssumption DEF Carriers, Carrying, Lending
  <1>5. [u \in Threads |-> IF pc'[u] \in Lending THEN item'[u] ELSE NoConn]
        = [[u \in Threads |-> IF pc[u] \in Lending THEN item[u] ELSE NoConn] EXCEPT ![t] = c]
    BY DEF GoTo, Lending
  <1>6. {u \in Threads : pc'[u] \notin Lending \cup {"idle"}}
        = {u \in Threads : pc[u] \notin Lending \cup {"idle"}} \ {t}
    BY DEF GoTo, Lending
  <1>7. t \in {u \in Threads : pc[u] \notin Lending \cup {"idle"}}
    BY DEF Lending
  <1> QED
    BY <1>3, <1>4, <1>5, <1>6, <1>7, SameCardinality DEF Leases!Grant

\* A step that leaves everyone's connection and everyone's request alone.
LEMMA StutterStep ==
  ASSUME IInv, NEW t \in Threads, NEW s \in Steps, GoTo(t, s),
         pc[t] \in Lending <=> s \in Lending,
         pc[t] = "idle" <=> s = "idle",
         \A u \in Threads : pc[u] \in Lending => item'[u] = item[u]
  PROVE  UNCHANGED Leases!leaseVars
  BY DEF IInv, TypeOK, GoTo, Leases!leaseVars

\* Every step of the pool is a step of ConnectionLeases, or changes neither
\* who waits for a connection nor who has which.
LEMMA StepRefines ==
  ASSUME IInv, IInv', [Next]_vars
  PROVE  [Leases!Next]_(Leases!leaseVars)
  <1> USE DEF IInv, TypeOK
  <1>0. Cardinality(Holders') <= MaxSize
    <2>1. Cardinality(Holders') \in Nat /\ Len(channel') \in Nat
      BY PoolAssumption, FS_Subset, FS_CardinalityType DEF Holders
    <2> QED
      BY <2>1, PoolAssumption DEF SizeAccounting
  <1>1. ASSUME NEW t \in Threads, Request(t) PROVE Leases!Ask(t)
    BY <1>1 DEF Request, GoTo, Leases!Ask, Lending
  <1>2. ASSUME NEW t \in Threads, Scan(t) PROVE UNCHANGED Leases!leaseVars
    <2>1. \A u \in Threads : pc[u] \in Lending => item'[u] = item[u]
      BY <1>2 DEF Scan, Lending
    <2> QED
      BY <1>2, <2>1, StutterStep DEF Scan, Steps, Lending
  <1>3. ASSUME NEW t \in Threads, Check(t)
        PROVE  (\E c \in Conns : Leases!Grant(t, c)) \/ UNCHANGED Leases!leaseVars
    <2>1. CASE conn[item[t]] = "active"
      <3>1. pc[t] = "check" /\ GoTo(t, "use") /\ item' = item /\ t \in Carriers
        BY <1>3, <2>1 DEF Check, Carriers, Carrying
      <3>2. PICK c \in Conns : c = item[t]
        BY <3>1 DEF Carriers
      <3>3. item' = [item EXCEPT ![t] = c] /\ \A u \in Carriers : u # t => item[u] # c
        BY <3>1, <3>2 DEF ExclusiveUse
      <3> QED
        BY <1>0, <3>1, <3>3, GrantStep
    <2>2. CASE conn[item[t]] # "active"
      BY <1>3, <2>2, StutterStep DEF Check, Steps, Lending
    <2> QED
      BY <2>1, <2>2
  <1>4. ASSUME NEW t \in Threads, Drop(t) \/ Reserve(t) \/ CreateFail(t)
        PROVE  UNCHANGED Leases!leaseVars
    BY <1>4, StutterStep DEF Drop, Reserve, CreateFail, Steps, Lending
  <1>5. ASSUME NEW t \in Threads, Disconnect(t) PROVE UNCHANGED Leases!leaseVars
    <2>1. pc[t] = "close" /\ GoTo(t, "scan")
      BY <1>5 DEF Disconnect, PutNeverDiscards
    <2>2. \A u \in Threads : pc[u] \in Lending => item'[u] = item[u]
      BY <1>5, <2>1 DEF Disconnect, Lending
    <2> QED
      BY <2>1, <2>2, StutterStep DEF Steps, Lending
  <1>6. ASSUME NEW t \in Threads, Create(t) PROVE \E c \in Conns : Leases!Grant(t, c)
    <2>1. PICK c \in Conns : conn[c] = "none" /\ item' = [item EXCEPT ![t] = c]
      BY <1>6 DEF Create
    <2>2. \A u \in Carriers : item[u] # c
      BY <2>1 DEF Connected
    <2> QED
      BY <1>0, <1>6, <2>1, <2>2, GrantStep DEF Create
  <1>7. ASSUME NEW t \in Threads, Unreserve(t) PROVE Leases!Refuse(t)
    BY <1>7 DEF Unreserve, GoTo, Leases!Refuse, Lending
  <1>8. ASSUME NEW t \in Threads, Take(t) PROVE \E c \in Conns : Leases!Grant(t, c)
    <2>1. Head(channel) = channel[1] /\ channel[1] \in Conns /\ channel[1] \in InChannel
      BY <1>8 DEF Take, InChannel
    <2>2. \A u \in Carriers : item[u] # channel[1]
      BY <2>1 DEF ExclusiveUse
    <2> QED
      BY <1>0, <1>8, <2>1, <2>2, GrantStep DEF Take
  <1>9. ASSUME NEW t \in Threads, Release(t) \/ PutDecide(t)
        PROVE  UNCHANGED Leases!leaseVars
    BY <1>9, StutterStep DEF Release, PutDecide, Steps, Lending
  <1>10. ASSUME NEW t \in Threads, Offer(t) PROVE Leases!GiveBack(t)
    <2>1. Len(channel) < MaxSize
      BY <1>10, HolderThere, HoldersFinite, PoolAssumption DEF Offer, SizeAccounting, Counted
    <2>2. item[t] # NoConn
      BY <1>10 DEF Offer, Carrying
    <2> QED
      BY <1>10, <2>1, <2>2 DEF Offer, GoTo, Leases!GiveBack, Lending
  <1>11. ASSUME NEW c \in Conns, Die(c) PROVE UNCHANGED Leases!leaseVars
    BY <1>11 DEF Die, Leases!leaseVars
  <1>12. CASE UNCHANGED vars
    BY <1>12 DEF vars, Leases!leaseVars
  <1>13. ASSUME NEW t \in Threads, Advance(t) PROVE [Leases!Next]_(Leases!leaseVars)
    <2>1. CASE Check(t)
      BY <1>3, <2>1 DEF Leases!Next
    <2>2. CASE Create(t)
      BY <1>6, <2>2 DEF Leases!Next
    <2>3. CASE Unreserve(t)
      BY <1>7, <2>3 DEF Leases!Next
    <2>4. CASE Offer(t)
      BY <1>10, <2>4 DEF Leases!Next
    <2> QED
      BY <1>2, <1>4, <1>5, <1>9, <1>13, <2>1, <2>2, <2>3, <2>4 DEF Advance
  <1> QED
    BY <1>1, <1>8, <1>11, <1>12, <1>13 DEF Next, Leases!Next

\* The pool implements ConnectionLeases: a handler that get() returns to has a
\* mediator that nobody else has, and at most max_size handlers have one.
THEOREM Refinement == Spec => LeasesSpec
  <1>1. Init => Leases!Init
    BY DEF Init, Leases!Init, Lending
  <1> QED
    BY <1>1, Invariance, StepRefines, PTL DEF Spec, LeasesSpec, Leases!Spec
=============================================================================
