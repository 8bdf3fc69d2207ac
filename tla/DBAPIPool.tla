----------------------------- MODULE DBAPIPool -----------------------------
(***************************************************************************)
(* DBAPIConnectionPool of data_access/dbapi_pool.py, the pool of the       *)
(* warehouse connectors.  Unlike MySQLPool it opens connections while it   *)
(* holds its lock, does not test those it hands out, closes what is        *)
(* released after close(), and close() sets the count to zero.             *)
(*                                                                         *)
(* A step is what happens between two accesses to the queue, the lock or   *)
(* _closed.  Which idle connection is handed out is left open.  A driver   *)
(* without rollback has no transactions to leave behind.                   *)
(***************************************************************************)
EXTENDS Integers, FiniteSets

CONSTANTS
  Conn,
  Client,
  Max,           \* max_size
  First,         \* the connections __init__ opens, min_size in number
  NoConn,        \* a client without a connection
  Nobody,        \* the holder of a lock that is free
  None, Idle, Outside   \* places, see ConnectionPool

ConstantsAssumption ==
  /\ IsFiniteSet(Conn) /\ IsFiniteSet(Client)
  /\ Max \in Nat \ {0}
  /\ First \subseteq Conn
  /\ Cardinality(First) \in 0..Max
  /\ NoConn \notin Conn
  /\ Nobody \notin Client
  /\ Idle # None /\ Outside # None /\ Idle # Outside
  /\ Client \cap {None, Idle, Outside} = {}

VARIABLES
  live,      \* external: connections open at the warehouse
  dirty,     \* external: those with a transaction in them
  idle,      \* _available
  created,   \* _created
  lock,      \* who is in a factory call under _lock
  closed,    \* _closed
  closing,   \* where close() is
  pc, held   \* a client, and its connection

pool == <<idle, created, lock, closed, closing>>
vars == <<live, dirty, pool, pc, held>>

Position == {"out", "looking", "reserving", "opening", "waiting", "using",
             "releasing", "storing", "uncounting"}

TypeOK ==
  /\ dirty \subseteq live /\ live \subseteq Conn
  /\ idle \subseteq live
  /\ created \in 0..Max
  /\ lock \in Client \cup {Nobody}
  /\ closed \in BOOLEAN
  /\ closing \in {"no", "draining", "resetting"}
  /\ pc \in [Client -> Position]
  /\ held \in [Client -> Conn \cup {NoConn}]
  /\ \A k \in Client :
       /\ held[k] \in Conn <=> pc[k] \in {"using", "releasing", "storing"}
       /\ lock = k <=> pc[k] = "opening"

Init ==
  /\ live = First
  /\ dirty = {}
  /\ idle = First
  /\ created = Cardinality(First)
  /\ lock = Nobody
  /\ closed = FALSE
  /\ closing = "no"
  /\ pc = [k \in Client |-> "out"]
  /\ held = [k \in Client |-> NoConn]
-----------------------------------------------------------------------------
Goto(k, position) == pc' = [pc EXCEPT ![k] = position]

\* The client lets go of its connection and goes on.
LetGoTo(k, position) == Goto(k, position) /\ held' = [held EXCEPT ![k] = NoConn]

\* _close_connection, errors ignored.
Disconnect(c) == live' = live \ {c} /\ dirty' = dirty \ {c}

\* connection() on a pool that is closed raises and changes nothing.
Enter(k) ==
  /\ pc[k] = "out"
  /\ ~closed
  /\ Goto(k, "looking")
  /\ UNCHANGED <<live, dirty, pool, held>>

\* get_nowait, or the get of a client that waits.
TakeIdle(k) ==
  /\ pc[k] \in {"looking", "waiting"}
  /\ \E c \in idle : /\ idle' = idle \ {c}
                     /\ held' = [held EXCEPT ![k] = c]
  /\ Goto(k, "using")
  /\ UNCHANGED <<live, dirty, created, lock, closed, closing>>

FindNone(k) ==
  /\ pc[k] = "looking"
  /\ idle = {}
  /\ Goto(k, "reserving")
  /\ UNCHANGED <<live, dirty, pool, held>>

\* The lock is taken; it is kept for the call of the factory.
Reserve(k) ==
  /\ pc[k] = "reserving"
  /\ lock = Nobody
  /\ IF created < Max
     THEN Goto(k, "opening") /\ lock' = k
     ELSE Goto(k, "waiting") /\ UNCHANGED lock
  /\ UNCHANGED <<live, dirty, idle, created, closed, closing, held>>

\* _create: the factory, then the count.
Open(k) ==
  /\ pc[k] = "opening"
  /\ \E c \in Conn \ (live \cup idle) :
       /\ \A j \in Client : held[j] # c
       /\ live' = live \cup {c}
       /\ held' = [held EXCEPT ![k] = c]
  /\ created' = created + 1
  /\ lock' = Nobody
  /\ Goto(k, "using")
  /\ UNCHANGED <<dirty, idle, closed, closing>>

OpenFails(k) ==
  /\ pc[k] = "opening"
  /\ lock' = Nobody
  /\ Goto(k, "out")
  /\ UNCHANGED <<live, dirty, idle, created, closed, closing, held>>

\* get(timeout) raises, TimeoutError to the caller.
WaitTimesOut(k) ==
  /\ pc[k] = "waiting"
  /\ idle = {}
  /\ Goto(k, "out")
  /\ UNCHANGED <<live, dirty, pool, held>>

\* The caller's statements, until it closes its proxy; they may leave a
\* transaction behind or lose the connection.
Work(k) ==
  /\ pc[k] = "using"
  /\ \/ held[k] \in live /\ dirty' \in {dirty \cup {held[k]}, dirty \ {held[k]}} /\ UNCHANGED live
     \/ Disconnect(held[k])
  /\ Goto(k, "releasing")
  /\ UNCHANGED <<pool, held>>

\* Mutant: a connection released to a closed pool is left open.
ReleaseAndForget(k) ==
  /\ pc[k] = "releasing"
  /\ \/ closed /\ LetGoTo(k, "out") /\ UNCHANGED <<live, dirty, pool>>
     \/ /\ ~closed
        /\ held[k] \in live
        /\ dirty' = dirty \ {held[k]}
        /\ Goto(k, "storing")
        /\ UNCHANGED <<live, pool, held>>
     \/ ~closed /\ Disconnect(held[k]) /\ LetGoTo(k, "uncounting") /\ UNCHANGED pool

\* release: a closed pool closes the connection; else it is rolled back, and
\* closed if it cannot be.
Release(k) ==
  /\ pc[k] = "releasing"
  /\ \/ closed /\ Disconnect(held[k]) /\ LetGoTo(k, "out") /\ UNCHANGED pool
     \/ /\ ~closed
        /\ held[k] \in live
        /\ dirty' = dirty \ {held[k]}
        /\ Goto(k, "storing")
        /\ UNCHANGED <<live, pool, held>>
     \/ ~closed /\ Disconnect(held[k]) /\ LetGoTo(k, "uncounting") /\ UNCHANGED pool

\* put_nowait, by now perhaps into the queue of a closed pool.
Store(k) ==
  /\ pc[k] = "storing"
  /\ IF Cardinality(idle) < Max
     THEN LetGoTo(k, "out") /\ idle' = idle \cup {held[k]} /\ UNCHANGED <<live, dirty>>
     ELSE LetGoTo(k, "uncounting") /\ Disconnect(held[k]) /\ UNCHANGED idle
  /\ UNCHANGED <<created, lock, closed, closing>>

\* The count goes down, under the lock, after the connection is closed.
Uncount(k) ==
  /\ pc[k] = "uncounting"
  /\ lock = Nobody
  /\ created' = IF created > 0 THEN created - 1 ELSE 0
  /\ Goto(k, "out")
  /\ UNCHANGED <<live, dirty, idle, lock, closed, closing, held>>
-----------------------------------------------------------------------------
Close ==
  /\ closing = "no"
  /\ closed' = TRUE
  /\ closing' = "draining"
  /\ UNCHANGED <<live, dirty, idle, created, lock, pc, held>>

Drain ==
  /\ closing = "draining"
  /\ \E c \in idle : idle' = idle \ {c} /\ Disconnect(c)
  /\ UNCHANGED <<created, lock, closed, closing, pc, held>>

DrainEnds ==
  /\ closing = "draining"
  /\ idle = {}
  /\ closing' = "resetting"
  /\ UNCHANGED <<live, dirty, idle, created, lock, closed, pc, held>>

\* The connections still in use are not counted any more.
Reset ==
  /\ closing = "resetting"
  /\ lock = Nobody
  /\ created' = 0
  /\ closing' = "no"
  /\ UNCHANGED <<live, dirty, idle, lock, closed, pc, held>>

Step(k) ==
  \/ TakeIdle(k) \/ FindNone(k) \/ Reserve(k) \/ Open(k) \/ OpenFails(k)
  \/ WaitTimesOut(k) \/ Work(k) \/ Release(k) \/ Store(k) \/ Uncount(k)

Next ==
  \/ \E k \in Client : Enter(k) \/ Step(k)
  \/ Close \/ Drain \/ DrainEnds \/ Reset

Spec == Init /\ [][Next]_vars

-----------------------------------------------------------------------------
(* Properties. *)

\* Until close() _created counts each connection once, those that are closed
\* and wait to be uncounted included: no slot is lost or given out twice.
\* Each open connection is in the queue or with a client, who will close or
\* return it, also after close().
SlotsAreAccountedFor ==
  /\ closed \/ created = Cardinality(idle) + Cardinality({k \in Client : held[k] \in Conn})
                           + Cardinality({k \in Client : pc[k] = "uncounting"})
  /\ \A c \in live : c \in idle \/ \E k \in Client : held[k] = c

\* A connection is in one place, and open connections are within the limit
\* until close().
Place ==
  [c \in Conn |->
     IF c \notin live THEN None
     ELSE IF c \in idle THEN Idle
     ELSE IF \E k \in Client : held[k] = c THEN CHOOSE k \in Client : held[k] = c
     ELSE Outside]

Promise == INSTANCE ConnectionPool WITH place <- Place
KeepsPromise == Promise!Spec
=============================================================================
