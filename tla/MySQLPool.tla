----------------------------- MODULE MySQLPool -----------------------------
(***************************************************************************)
(* MySQLConnectionPool of database/mysql.py: threads take connections from *)
(* a LIFO queue, open new ones up to max_size, wait for one otherwise, and *)
(* put them back; close() may run at any time beside them.  The count      *)
(* _created is guarded by a lock, the queue by its own, _closed by none.   *)
(*                                                                         *)
(* A step is what happens between two of these accesses.  Which of the     *)
(* idle connections is handed out is left open.  The driver (PyMySQL) is   *)
(* modelled by what the pool sees of it: a call may fail, and a call that  *)
(* fails has lost the connection.                                          *)
(***************************************************************************)
EXTENDS Integers, FiniteSets

CONSTANTS
  Conn,
  Client,
  Max,           \* max_size
  First,         \* the connections __init__ opens, min_size in number
  NoConn,        \* a client without a connection
  None, Idle, Outside   \* places, see ConnectionPool

ConstantsAssumption ==
  /\ IsFiniteSet(Conn) /\ IsFiniteSet(Client)
  /\ Max \in Nat
  /\ First \subseteq Conn
  /\ Cardinality(First) \in 1..Max
  /\ NoConn \notin Conn
  /\ Idle # None /\ Outside # None /\ Idle # Outside
  /\ Client \cap {None, Idle, Outside} = {}

VARIABLES
  live,      \* external: connections open at the server
  dirty,     \* external: those with a transaction in them
  idle,      \* _connections
  created,   \* _created
  closed,    \* _closed
  draining,  \* close() is emptying the queue
  pc, held   \* a client in connection(), and its connection

pool == <<idle, created, closed, draining>>
vars == <<live, dirty, pool, pc, held>>

Position == {"out", "looking", "reserving", "connecting", "waiting", "pinging",
             "using", "failing", "returning", "checking", "storing"}

TypeOK ==
  /\ dirty \subseteq live /\ live \subseteq Conn
  /\ idle \subseteq live
  /\ created \in 0..Max
  /\ closed \in BOOLEAN /\ draining \in BOOLEAN
  /\ pc \in [Client -> Position]
  /\ held \in [Client -> Conn \cup {NoConn}]
  /\ \A k \in Client : held[k] \in Conn <=>
       pc[k] \in {"pinging", "using", "failing", "returning", "checking", "storing"}

Init ==
  /\ live = First
  /\ dirty = {}
  /\ idle = First
  /\ created = Cardinality(First)
  /\ closed = FALSE
  /\ draining = FALSE
  /\ pc = [k \in Client |-> "out"]
  /\ held = [k \in Client |-> NoConn]
-----------------------------------------------------------------------------
Goto(k, position) == pc' = [pc EXCEPT ![k] = position]

\* _created is never less than zero.
Uncount == created' = IF created > 0 THEN created - 1 ELSE 0

Leave(k) == Goto(k, "out") /\ held' = [held EXCEPT ![k] = NoConn]

\* The client gives its connection up: it is closed and no longer counted.
Discard(k) ==
  /\ live' = live \ {held[k]}
  /\ dirty' = dirty \ {held[k]}
  /\ Uncount
  /\ Leave(k)
  /\ UNCHANGED <<idle, closed, draining>>

\* connection() on a pool that is closed raises and changes nothing.
Enter(k) ==
  /\ pc[k] = "out"
  /\ ~closed
  /\ Goto(k, "looking")
  /\ UNCHANGED <<live, dirty, pool, held>>

\* get_nowait, or the get of a client that waits.
TakeIdle(k) ==
  /\ pc[k] \in {"looking", "waiting"}
  /\ \E c \in idle : /\ idle' = idle \ {c}
                     /\ held' = [held EXCEPT ![k] = c]
  /\ Goto(k, "pinging")
  /\ UNCHANGED <<live, dirty, created, closed, draining>>

FindNone(k) ==
  /\ pc[k] = "looking"
  /\ idle = {}
  /\ Goto(k, "reserving")
  /\ UNCHANGED <<live, dirty, pool, held>>

\* Mutant: the limit is off by one.
ReserveOneMore(k) ==
  /\ pc[k] = "reserving"
  /\ IF closed \/ created > Max
     THEN Goto(k, "waiting") /\ UNCHANGED created
     ELSE Goto(k, "connecting") /\ created' = created + 1
  /\ UNCHANGED <<live, dirty, idle, closed, draining, held>>

\* _create_connection up to its lock's end; without a slot the client waits,
\* on a pool that has been closed as well.
Reserve(k) ==
  /\ pc[k] = "reserving"
  /\ IF closed \/ created >= Max
     THEN Goto(k, "waiting") /\ UNCHANGED created
     ELSE Goto(k, "connecting") /\ created' = created + 1
  /\ UNCHANGED <<live, dirty, idle, closed, draining, held>>

Connect(k) ==
  /\ pc[k] = "connecting"
  /\ \E c \in Conn \ live :
       /\ \A j \in Client : held[j] # c
       /\ live' = live \cup {c}
       /\ held' = [held EXCEPT ![k] = c]
  /\ Goto(k, "pinging")
  /\ UNCHANGED <<dirty, pool>>

\* Mutant: a slot is lost with every connection that cannot be opened.
ConnectFailsCounted(k) ==
  /\ pc[k] = "connecting"
  /\ Goto(k, "out")
  /\ UNCHANGED <<live, dirty, pool, held>>

ConnectFails(k) ==
  /\ pc[k] = "connecting"
  /\ Uncount
  /\ Goto(k, "out")
  /\ UNCHANGED <<live, dirty, idle, closed, draining, held>>

\* Mutant: get has no timeout.
WaitForEver(k) ==
  /\ pc[k] = "waiting"
  /\ idle = {}
  /\ FALSE
  /\ UNCHANGED vars

\* get(timeout) raises queue.Empty.
WaitTimesOut(k) ==
  /\ pc[k] = "waiting"
  /\ idle = {}
  /\ Goto(k, "out")
  /\ UNCHANGED <<live, dirty, pool, held>>

\* ping(reconnect=True): the connection answers, or is opened again.
Ping(k) ==
  /\ pc[k] = "pinging"
  /\ Goto(k, "using")
  /\ \/ UNCHANGED dirty
     \/ dirty' = dirty \ {held[k]}
  /\ UNCHANGED <<live, pool, held>>

PingFails(k) ==
  /\ pc[k] = "pinging"
  /\ live' = live \ {held[k]}
  /\ dirty' = dirty \ {held[k]}
  /\ Goto(k, "failing")
  /\ UNCHANGED <<pool, held>>

\* The body of the with statement: it may leave a transaction behind, lose
\* the connection, and raise.
Work(k) ==
  /\ pc[k] = "using"
  /\ \/ UNCHANGED live /\ dirty' \in {dirty \cup {held[k]}, dirty \ {held[k]}}
     \/ live' = live \ {held[k]} /\ dirty' = dirty \ {held[k]}
  /\ \E position \in {"failing", "returning"} : Goto(k, position)
  /\ UNCHANGED <<pool, held>>

\* The except branch: roll back, and give a lost connection up.
Fail(k) ==
  /\ pc[k] = "failing"
  /\ \/ /\ held[k] \in live
        /\ dirty' = dirty \ {held[k]}
        /\ Goto(k, "returning")
        /\ UNCHANGED <<live, pool, held>>
     \/ Discard(k)

\* The finally branch of an open pool: roll back; a connection that cannot
\* be is closed.  A closed pool leaves the connection as it is, open.
Return(k) ==
  /\ pc[k] = "returning"
  /\ \/ closed /\ Leave(k) /\ UNCHANGED <<live, dirty, pool>>
     \/ /\ ~closed
        /\ held[k] \in live
        /\ dirty' = dirty \ {held[k]}
        /\ Goto(k, "checking")
        /\ UNCHANGED <<live, pool, held>>
     \/ ~closed /\ Discard(k)

\* The second look at _closed.
Check(k) ==
  /\ pc[k] = "checking"
  /\ IF closed THEN Leave(k) ELSE Goto(k, "storing") /\ UNCHANGED held
  /\ UNCHANGED <<live, dirty, pool>>

\* Mutant: what is put back is no longer counted.
StoreUncounted(k) ==
  /\ pc[k] = "storing"
  /\ Leave(k)
  /\ idle' = idle \cup {held[k]}
  /\ Uncount
  /\ UNCHANGED <<live, dirty, closed, draining>>

\* put_nowait, by now perhaps into the queue of a closed pool.
Store(k) ==
  /\ pc[k] = "storing"
  /\ IF Cardinality(idle) < Max
     THEN /\ Leave(k)
          /\ idle' = idle \cup {held[k]}
          /\ UNCHANGED <<live, dirty, created, closed, draining>>
     ELSE Discard(k)
-----------------------------------------------------------------------------
Close ==
  /\ ~draining
  /\ closed' = TRUE
  /\ draining' = TRUE
  /\ UNCHANGED <<live, dirty, idle, created, pc, held>>

\* close() takes one connection after another from the queue.
Drain ==
  /\ draining
  /\ \E c \in idle : /\ idle' = idle \ {c}
                     /\ live' = live \ {c}
                     /\ dirty' = dirty \ {c}
  /\ Uncount
  /\ UNCHANGED <<closed, draining, pc, held>>

DrainEnds ==
  /\ draining
  /\ idle = {}
  /\ draining' = FALSE
  /\ UNCHANGED <<live, dirty, idle, created, closed, pc, held>>

Step(k) ==
  \/ TakeIdle(k) \/ FindNone(k) \/ Reserve(k) \/ Connect(k) \/ ConnectFails(k)
  \/ WaitTimesOut(k) \/ Ping(k) \/ PingFails(k) \/ Work(k) \/ Fail(k)
  \/ Return(k) \/ Check(k) \/ Store(k)

Next ==
  \/ \E k \in Client : Enter(k) \/ Step(k)
  \/ Close \/ Drain \/ DrainEnds

Spec == Init /\ [][Next]_vars

\* A thread runs on, the queue's get has a timeout and so have the sockets.
FairSpec == Spec /\ \A k \in Client : WF_vars(Step(k))
-----------------------------------------------------------------------------
(* Properties. *)

\* Connections nobody holds any more and that are not in the queue.
Orphans == {c \in live \ idle : \A k \in Client : held[k] # c}

\* _created counts every connection there is, and every one being opened,
\* once: no slot is lost and none is given out twice, whatever fails.  (Only
\* what is returned to a closed pool may stay counted.)
SlotsAreAccountedFor ==
  LET inUse == Cardinality(idle) + Cardinality({k \in Client : held[k] \in Conn})
                 + Cardinality({k \in Client : pc[k] = "connecting"})
                 + Cardinality(Orphans)
  IN  created >= inUse /\ (closed \/ created = inUse)

\* A connection is in one place, and open connections are within the limit.
Place ==
  [c \in Conn |->
     IF c \notin live THEN None
     ELSE IF c \in idle THEN Idle
     ELSE IF \E k \in Client : held[k] = c THEN CHOOSE k \in Client : held[k] = c
     ELSE Outside]

Promise == INSTANCE ConnectionPool WITH place <- Place
KeepsPromise == Promise!Spec

\* Whoever asks for a connection comes to an end: the pool has no deadlock.
ClientsComeOut == \A k \in Client : pc[k] # "out" ~> pc[k] = "out"
=============================================================================
