-------------------------- MODULE ConnectionLeases --------------------------
(***************************************************************************)
(* What the pool of array connections promises to the RPC handlers that    *)
(* share it, with none of its mechanism: a handler asks for a connection,  *)
(* waits, and is either given one that nobody else is using or told that   *)
(* there is none; it gives the connection back when it is done.  Never     *)
(* more than MaxSize connections are out at once.                          *)
(*                                                                         *)
(* ConnectionPool implements this specification.                           *)
(***************************************************************************)
EXTENDS Naturals, FiniteSets

CONSTANTS Threads,  \* the handler threads of the controller's gRPC server
          Conns,    \* identities of mediator objects
          MaxSize,  \* at most so many connections are lent at once
          NoConn    \* "no connection"

VARIABLES asking,   \* the threads inside a call of get()
          lease     \* the connection each thread has been given

leaseVars == <<asking, lease>>

Lent == {t \in Threads : lease[t] # NoConn}

Init == /\ asking = {}
        /\ lease = [t \in Threads |-> NoConn]

Ask(t) == /\ t \notin asking
          /\ lease[t] = NoConn
          /\ asking' = asking \cup {t}
          /\ UNCHANGED lease

\* The connection handed over is in nobody else's hands, and the limit holds
\* after it is handed over.
Grant(t, c) == /\ t \in asking
               /\ \A u \in Threads : lease[u] # c
               /\ Cardinality(Lent) < MaxSize
               /\ asking' = asking \ {t}
               /\ lease' = [lease EXCEPT ![t] = c]

Refuse(t) == /\ t \in asking
             /\ asking' = asking \ {t}
             /\ UNCHANGED lease

GiveBack(t) == /\ lease[t] # NoConn
               /\ lease' = [lease EXCEPT ![t] = NoConn]
               /\ UNCHANGED asking

Next == \E t \in Threads : \/ Ask(t)
                           \/ \E c \in Conns : Grant(t, c)
                           \/ Refuse(t)
                           \/ GiveBack(t)

Spec == Init /\ [][Next]_leaseVars
=============================================================================
