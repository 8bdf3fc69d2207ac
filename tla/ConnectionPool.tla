--------------------------- MODULE ConnectionPool ---------------------------
(***************************************************************************)
(* What the two connection pools of the backend promise: a connection is   *)
(* in one place at a time, no more than Max are open as long as the pool   *)
(* is, and the one who takes an idle connection finds no transaction in it *)
(* that another left behind.                                               *)
(***************************************************************************)
EXTENDS Integers, FiniteSets

CONSTANTS
  Conn,      \* connections
  Client,    \* threads that use the pool
  Max,       \* max_size
  None,      \* where a connection is that is not open
  Idle,      \* where a connection is that waits in the pool
  Outside    \* where a connection is that the pool has let go of

VARIABLES
  place,     \* where each connection is: with a client, or one of the above
  dirty,     \* open connections with a transaction in them
  closed     \* the pool is closed

vars == <<place, dirty, closed>>

OpenOnes == {c \in Conn : place[c] # None}

Init ==
  /\ place \in [Conn -> {None, Idle}]
  /\ Cardinality(OpenOnes) <= Max
  /\ dirty = {}
  /\ closed = FALSE

\* A client opens a connection for itself.
Connect(c, k) ==
  /\ place[c] = None
  /\ closed \/ Cardinality(OpenOnes) < Max
  /\ place' = [place EXCEPT ![c] = k]
  /\ UNCHANGED <<dirty, closed>>

Take(c, k) ==
  /\ place[c] = Idle
  /\ place' = [place EXCEPT ![c] = k]
  /\ UNCHANGED <<dirty, closed>>

\* A client begins or ends a transaction.
Use(c, k) ==
  /\ place[c] = k
  /\ dirty' \in {dirty \cup {c}, dirty \ {c}}
  /\ UNCHANGED <<place, closed>>

GiveBack(c, k) ==
  /\ place[c] = k
  /\ c \notin dirty
  /\ place' = [place EXCEPT ![c] = Idle]
  /\ UNCHANGED <<dirty, closed>>

\* A connection is closed or lost.
Disconnect(c) ==
  /\ place[c] # None
  /\ place' = [place EXCEPT ![c] = None]
  /\ dirty' = dirty \ {c}
  /\ UNCHANGED closed

\* A connection given back to a closed pool may be left to itself.
LetGo(c, k) ==
  /\ closed
  /\ place[c] = k
  /\ place' = [place EXCEPT ![c] = Outside]
  /\ UNCHANGED <<dirty, closed>>

Close ==
  /\ closed' = TRUE
  /\ UNCHANGED <<place, dirty>>

Next ==
  \/ \E c \in Conn :
       \/ \E k \in Client : Connect(c, k) \/ Take(c, k) \/ Use(c, k) \/ GiveBack(c, k) \/ LetGo(c, k)
       \/ Disconnect(c)
  \/ Close

Spec == Init /\ [][Next]_vars
=============================================================================
