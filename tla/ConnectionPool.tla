--------------------------- MODULE ConnectionPool ---------------------------
(***************************************************************************)
(* The pool of connections to one storage array                            *)
(* (controller/array_action/array_connection_pool.py) as the RPC threads   *)
(* use it through StorageAgent.get_mediator (storage_agent.py).            *)
(*                                                                         *)
(* The pool is a FIFO queue of idle mediators (channel) and a counter of   *)
(* the mediators that exist (current_size).  The queue synchronises itself *)
(* and the counter is only touched under the pool's lock, but a call of    *)
(* get() is a sequence of such steps with nothing held between them: each  *)
(* is an action, and pc says which one a thread has reached.               *)
(***************************************************************************)
EXTENDS Naturals, Sequences, FiniteSets

CONSTANTS Threads,        \* the handler threads of the controller's gRPC server
          Conns,          \* identities of mediator objects
          MaxSize,        \* max_size
          NoConn,         \* "no mediator"
          MaxRefusals     \* bound: how many logins the array refuses

ASSUME PoolAssumption == /\ MaxSize \in Nat \ {0}
                         /\ NoConn \notin Conns
                         /\ IsFiniteSet(Threads)
                         /\ MaxRefusals \in Nat

VARIABLES channel,        \* the queue of idle mediators
          current_size,   \* the pool's count of its mediators
          pc,             \* the step each thread has reached
          item,           \* the mediator each thread has in its hands
          conn,           \* each mediator's session with the array
          refused         \* the logins the array has refused so far

vars == <<channel, current_size, pc, item, conn, refused>>

-----------------------------------------------------------------------------
\* The steps of get(): scan the queue, check what was taken, drop it if it is
\* dead (count it out, then close it), reserve room for a new one, create it
\* or give the room back, or wait for the queue.  "use" is the body of the
\* with-statement of get_mediator(); then put(): decide, offer, or discard.
Steps == {"idle", "scan", "check", "drop", "close", "reserve", "create",
          "unreserve", "wait", "use", "put", "offer", "discard"}

\* "none": no session; "active": is_active() says yes; "dead": it says no.
Sessions == {"none", "active", "dead"}

\* The threads that account for one unit of current_size each.
Counted == {"check", "drop", "create", "unreserve", "use", "put", "offer"}
Holders == {t \in Threads : pc[t] \in Counted}

\* The threads that have a mediator in their hands.
Carrying == {"check", "drop", "close", "use", "put", "offer", "discard"}

GoTo(t, step) == pc' = [pc EXCEPT ![t] = step]

-----------------------------------------------------------------------------
\* The constructor with min_size = 1: put(get()) on an empty pool.
Init == \E c \in Conns :
          /\ channel = <<c>>
          /\ current_size = 1
          /\ pc = [t \in Threads |-> "idle"]
          /\ item = [t \in Threads |-> NoConn]
          /\ conn = [d \in Conns |-> IF d = c THEN "active" ELSE "none"]
          /\ refused = 0

\* get_mediator() calls get().
Request(t) == /\ pc[t] = "idle"
              /\ GoTo(t, "scan")
              /\ UNCHANGED <<channel, current_size, item, conn, refused>>

\* Mutated form of Scan: the mediator is looked at, not taken, and returned.
ScanPeeks(t) == /\ pc[t] = "scan"
                /\ IF channel = << >>
                     THEN GoTo(t, "reserve") /\ UNCHANGED item
                     ELSE GoTo(t, "check") /\ item' = [item EXCEPT ![t] = Head(channel)]
                /\ UNCHANGED <<channel, current_size, conn, refused>>

\* channel.get(block=False): the oldest idle mediator, or Empty.
Scan(t) == /\ pc[t] = "scan"
           /\ IF channel = << >>
                THEN /\ GoTo(t, "reserve")
                     /\ UNCHANGED <<channel, item>>
                ELSE /\ GoTo(t, "check")
                     /\ item' = [item EXCEPT ![t] = Head(channel)]
                     /\ channel' = Tail(channel)
           /\ UNCHANGED <<current_size, conn, refused>>

\* Mutated form of Check: whatever comes out of the queue is kept for use, and
\* the count forgets it (a decrement moved in front of the test).
CheckDropsCount(t) == /\ pc[t] = "check"
                      /\ current_size' = current_size - 1
                      /\ GoTo(t, IF conn[item[t]] = "active" THEN "use" ELSE "close")
                      /\ UNCHANGED <<channel, item, conn, refused>>

\* item.is_active(): return it, or get rid of it.
Check(t) == /\ pc[t] = "check"
            /\ GoTo(t, IF conn[item[t]] = "active" THEN "use" ELSE "drop")
            /\ UNCHANGED <<channel, current_size, item, conn, refused>>

\* Mutated form of Drop: the dead mediator is forgotten, not disconnected.
DropForgets(t) == /\ pc[t] = "drop"
                  /\ current_size' = current_size - 1
                  /\ item' = [item EXCEPT ![t] = NoConn]
                  /\ GoTo(t, "scan")
                  /\ UNCHANGED <<channel, conn, refused>>

\* with lock: current_size -= 1.
Drop(t) == /\ pc[t] = "drop"
           /\ current_size' = current_size - 1
           /\ GoTo(t, "close")
           /\ UNCHANGED <<channel, item, conn, refused>>

\* item.disconnect(), which may fail: the mediator is forgotten either way.
\* get() scans again afterwards; put() is done.
Disconnect(t) == /\ pc[t] \in {"close", "discard"}
                 /\ conn' = [conn EXCEPT ![item[t]] = "none"]
                 /\ item' = [item EXCEPT ![t] = NoConn]
                 /\ GoTo(t, IF pc[t] = "close" THEN "scan" ELSE "idle")
                 /\ UNCHANGED <<channel, current_size, refused>>

\* Mutated form of Reserve: one too many.
ReserveOffByOne(t) == /\ pc[t] = "reserve"
                      /\ IF current_size > MaxSize
                           THEN GoTo(t, "wait") /\ UNCHANGED current_size
                           ELSE GoTo(t, "create") /\ current_size' = current_size + 1
                      /\ UNCHANGED <<channel, item, conn, refused>>

\* with lock: is_full, and current_size += 1 when there is room.
Reserve(t) == /\ pc[t] = "reserve"
              /\ IF current_size >= MaxSize
                   THEN /\ GoTo(t, "wait")
                        /\ UNCHANGED current_size
                   ELSE /\ GoTo(t, "create")
                        /\ current_size' = current_size + 1
              /\ UNCHANGED <<channel, item, conn, refused>>

\* create(): a login at the array, outside the lock.
Create(t) == /\ pc[t] = "create"
             /\ \E c \in Conns :
                  /\ conn[c] = "none"
                  /\ conn' = [conn EXCEPT ![c] = "active"]
                  /\ item' = [item EXCEPT ![t] = c]
             /\ GoTo(t, "use")
             /\ UNCHANGED <<channel, current_size, refused>>

CreateFail(t) == /\ pc[t] = "create"
                 /\ refused < MaxRefusals
                 /\ refused' = refused + 1
                 /\ GoTo(t, "unreserve")
                 /\ UNCHANGED <<channel, current_size, item, conn>>

\* Mutated form of Unreserve: the room of a failed login is not given back.
UnreserveKeepsRoom(t) == /\ pc[t] = "unreserve"
                         /\ GoTo(t, "idle")
                         /\ UNCHANGED <<channel, current_size, item, conn, refused>>

\* with lock: current_size -= 1, and the handler's RPC fails.
Unreserve(t) == /\ pc[t] = "unreserve"
                /\ current_size' = current_size - 1
                /\ GoTo(t, "idle")
                /\ UNCHANGED <<channel, item, conn, refused>>

\* channel.get(block, timeout) of a full pool; get_mediator's timeout is None
\* in every call.  What comes out of the queue is returned as it is.
Take(t) == /\ pc[t] = "wait"
           /\ channel # << >>
           /\ item' = [item EXCEPT ![t] = Head(channel)]
           /\ channel' = Tail(channel)
           /\ GoTo(t, "use")
           /\ UNCHANGED <<current_size, conn, refused>>

\* The handler's block ends, normally or not: the finally clause calls put().
Release(t) == /\ pc[t] = "use"
              /\ GoTo(t, "put")
              /\ UNCHANGED <<channel, current_size, item, conn, refused>>

\* with lock: discard, and current_size -= 1 when the pool is over its limit.
PutDecide(t) == /\ pc[t] = "put"
                /\ IF current_size > MaxSize
                     THEN /\ GoTo(t, "discard")
                          /\ current_size' = current_size - 1
                     ELSE /\ GoTo(t, "offer")
                          /\ UNCHANGED current_size
                /\ UNCHANGED <<channel, item, conn, refused>>

\* Mutated form of Offer: the mediator is closed instead of put back.
OfferCloses(t) == /\ pc[t] = "offer"
                  /\ current_size' = current_size - 1
                  /\ GoTo(t, "discard")
                  /\ UNCHANGED <<channel, item, conn, refused>>

\* channel.put(item, block=False): the queue takes it, or is Full.
Offer(t) == /\ pc[t] = "offer"
            /\ IF Len(channel) < MaxSize
                 THEN /\ channel' = Append(channel, item[t])
                      /\ item' = [item EXCEPT ![t] = NoConn]
                      /\ GoTo(t, "idle")
                 ELSE /\ GoTo(t, "discard")
                      /\ UNCHANGED <<channel, item>>
            /\ UNCHANGED <<current_size, conn, refused>>

\* The array, or the network, ends a session: at any time.
Die(c) == /\ conn[c] = "active"
          /\ conn' = [conn EXCEPT ![c] = "dead"]
          /\ UNCHANGED <<channel, current_size, pc, item, refused>>

-----------------------------------------------------------------------------
\* What a thread does once it has called get(), up to the end of put().
Advance(t) == \/ Scan(t)
              \/ Check(t)
              \/ Drop(t)
              \/ Disconnect(t)
              \/ Reserve(t)
              \/ Create(t)
              \/ CreateFail(t)
              \/ Unreserve(t)
              \/ Release(t)
              \/ PutDecide(t)
              \/ Offer(t)

Next == \/ \E t \in Threads : Request(t) \/ Advance(t) \/ Take(t)
        \/ \E c \in Conns : Die(c)

Spec == Init /\ [][Next]_vars

\* A thread that can run runs.  A thread blocked in channel.get is woken when
\* the queue has something for it often enough (the queue's condition variable
\* wakes its waiters in order, but a scanning thread may still be faster).
Fairness == \A t \in Threads : WF_vars(Advance(t)) /\ SF_vars(Take(t))

FairSpec == Spec /\ Fairness

-----------------------------------------------------------------------------
InChannel == {channel[i] : i \in 1..Len(channel)}

Carriers == {t \in Threads : pc[t] \in Carrying}

TypeOK == /\ channel \in Seq(Conns)
          /\ current_size \in Nat
          /\ pc \in [Threads -> Steps]
          /\ item \in [Threads -> Conns \cup {NoConn}]
          /\ conn \in [Conns -> Sessions]
          /\ refused \in 0..MaxRefusals
          /\ \A t \in Threads : pc[t] \in Carrying <=> item[t] # NoConn

\* current_size, counted up before a login and down after a failed one or when
\* a dead mediator is dropped, always is the number of idle mediators plus the
\* number of threads that have, or are making, one; and it never passes
\* max_size, whatever the interleaving of those separate critical sections.
SizeAccounting == /\ current_size = Len(channel) + Cardinality(Holders)
                  /\ current_size <= MaxSize

\* A mediator is with one thread, or in one place of the queue: two handlers
\* never run commands on the same session (get() and put() of any threads).
ExclusiveUse == /\ \A t, u \in Carriers : t # u => item[t] # item[u]
                /\ \A t \in Carriers : item[t] \notin InChannel
                /\ \A i, j \in 1..Len(channel) : i # j => channel[i] # channel[j]

\* Every session that was opened at the array is still in somebody's hands or
\* in the queue: get() and put() drop none without disconnect().
NoSessionLeaks == \A c \in Conns :
    conn[c] # "none" => c \in InChannel \/ \E t \in Carriers : item[t] = c

\* The array never serves more than max_size live sessions of this pool, even
\* though a dead mediator is counted out before it is closed.
SessionLimit == Cardinality({c \in Conns : conn[c] = "active"}) <= MaxSize

\* put() always finds room in the queue: neither the over-limit branch nor the
\* Full branch (which would disconnect without counting down) is ever taken.
PutNeverDiscards == \A t \in Threads : pc[t] # "discard"

\* A thread that found the pool full and waits for a mediator gets one, as
\* get()'s "block if necessary until an item is available" says.
WaiterServed == \A t \in Threads : pc[t] = "wait" ~> pc[t] = "use"

\* As long as the array refuses no login, a thread that waits gets a mediator,
\* also when the sessions of the others die and are replaced.
ServedUnlessRefused == [](refused = 0) => WaiterServed

-----------------------------------------------------------------------------
\* The refinement: a thread has been given a connection from the step where
\* get() returns it to the step where put() returns it.
Lending == {"use", "put", "offer", "discard"}

Leases == INSTANCE ConnectionLeases WITH
            asking <- {t \in Threads : pc[t] \notin Lending \cup {"idle"}},
            lease  <- [t \in Threads |-> IF pc[t] \in Lending THEN item[t] ELSE NoConn]

\* The pool implements what ConnectionLeases promises to the handlers: nobody
\* else has the connection that get() returns, and at most max_size are out.
LeasesSpec == Leases!Spec
=============================================================================
