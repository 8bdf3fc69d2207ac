----------------------------- MODULE PoolProofs -----------------------------
(***************************************************************************)
(* Proofs about the three pools, for any number of threads, connections,   *)
(* runs and handlers.  HandlerPool comes first, under its own names; the   *)
(* connection pools are reached through the instances MySQL and DBAPI of   *)
(* MCPools, and what they promise through MySQL!Promise.                   *)
(*                                                                         *)
(* HandlerPool: no future is pending but the one run_once is still with    *)
(* (QueueInv), since result, cancel and the next submit follow each other  *)
(* in one thread.  The connection pools: a connection is in one place      *)
(* (OnePlace), a client at a position knows something of its connection    *)
(* (MySQLKnows, DBAPIKnows), and the count is right; the last is at the    *)
(* same time a property of a run and what the promise's limit rests on.    *)
(***************************************************************************)
EXTENDS MCPools, FiniteSetTheorems, TLAPS

\* Only run_once's own future is pending, and only while run_once is with it
\* and the pool is open.
QueueInv == \A a \in Pending : a = n /\ pc # "idle" /\ open

IInv == TypeOK /\ QueueInv

-----------------------------------------------------------------------------
\* The threads are busy with finitely many handlers.
LEMMA RunningFinite ==
  ASSUME TypeOK
  PROVE  IsFiniteSet(Running) /\ Cardinality(Running) \in Nat
<1>1. n \in Nat
  BY ConstantsAssumption DEF ConstantsAssumption, TypeOK
<1>2. IsFiniteSet(1..n)
  BY <1>1, FS_Interval
<1>3. Running \subseteq 1..n
  BY DEF Running, Submitted
<1> QED
  BY <1>2, <1>3, FS_Subset, FS_CardinalityType

\* Initially nothing is submitted.
LEMMA InitIInv == Init => IInv
<1> SUFFICES ASSUME Init PROVE IInv
  OBVIOUS
<1> USE ConstantsAssumption DEF ConstantsAssumption, Init, Submitted
<1>1. Running = {} /\ Pending = {}
  BY DEF Running, Pending
<1>2. Cardinality(Running) = 0
  BY <1>1, FS_EmptySet
<1> QED
  BY <1>1, <1>2 DEF IInv, TypeOK, QueueInv

\* Fewer running handlers than before, or as many, still fit.
LEMMA RunningShrinks ==
  ASSUME TypeOK, Running' \subseteq Running
  PROVE  Cardinality(Running') <= Slots
<1>1. Cardinality(Running') <= Cardinality(Running)
  BY RunningFinite, FS_Subset
<1>2. IsFiniteSet(Running')
  BY RunningFinite, FS_Subset
<1>3. Cardinality(Running') \in Nat
  BY <1>2, FS_CardinalityType
<1> QED
  BY <1>1, <1>3, RunningFinite, ConstantsAssumption DEF ConstantsAssumption, TypeOK

\* Every step keeps the invariant.
LEMMA NextIInv == IInv /\ [Next]_vars => IInv'
<1> SUFFICES ASSUME IInv, [Next]_vars PROVE IInv'
  OBVIOUS
<1> USE ConstantsAssumption DEF ConstantsAssumption, IInv, Submitted
<1>1. ASSUME NEW r \in Run, Submit(r) PROVE IInv'
  <2>1. n + 1 \in 0..MaxSubmits /\ n \in Nat
    BY <1>1 DEF Submit, TypeOK
  <2>2. Running' = Running /\ Pending' = {n + 1}
    BY <1>1, <2>1 DEF Submit, Running, Pending, QueueInv, TypeOK
  <2> QED
    BY <1>1, <2>1, <2>2 DEF Submit, TypeOK, QueueInv
<1>2. ASSUME NEW a \in Submitted, Begin(a) PROVE IInv'
  <2>1. Running' = Running \cup {a} /\ a \notin Running
    BY <1>2 DEF Begin, Running, Pending, TypeOK
  <2>2. Cardinality(Running') = Cardinality(Running) + 1
    BY <2>1, RunningFinite, FS_AddElement
  <2>3. Cardinality(Running') <= Slots
    BY <1>2, <2>2, RunningFinite DEF Begin
  <2>4. Pending' \subseteq Pending
    BY <1>2 DEF Begin, Pending, TypeOK
  <2> QED
    BY <1>2, <2>3, <2>4 DEF Begin, TypeOK, QueueInv
<1>3. ASSUME NEW a \in Submitted, Complete(a) PROVE IInv'
  <2>1. Running' \subseteq Running /\ Pending' = Pending
    BY <1>3 DEF Complete, Running, Pending, TypeOK
  <2>2. Cardinality(Running') <= Slots
    BY <2>1, RunningShrinks
  <2> QED
    BY <1>3, <2>1, <2>2 DEF Complete, TypeOK, QueueInv
<1>4. ASSUME Answer \/ TimeOut PROVE IInv'
  <2>1. Running' = Running /\ Pending' = Pending
    BY <1>4 DEF Answer, TimeOut, Running, Pending
  <2>2. runOf[n] \in Run \/ UNCHANGED over
    BY <1>4 DEF Answer, TimeOut, TypeOK
  <2>3. TypeOK'
    BY <1>4, <2>1, <2>2 DEF Answer, TimeOut, TypeOK
  <2>4. QueueInv'
    BY <1>4, <2>1 DEF Answer, TimeOut, QueueInv, Pending
  <2> QED
    BY <2>3, <2>4
<1>5. ASSUME HandleTimeout PROVE IInv'
  <2>1. n \in 1..n /\ n \in Nat
    BY <1>5 DEF HandleTimeout, TypeOK
  <2>2. Running' \subseteq Running /\ Pending' = {}
    BY <1>5, <2>1 DEF HandleTimeout, Running, Pending, TypeOK, QueueInv
  <2>3. Cardinality(Running') <= Slots
    BY <2>2, RunningShrinks
  <2> QED
    BY <1>5, <2>1, <2>2, <2>3 DEF HandleTimeout, TypeOK, QueueInv
<1>6. ASSUME Close PROVE IInv'
  <2>1. Running' \subseteq Running /\ Pending' = {}
    BY <1>6 DEF Close, Running, Pending, TypeOK
  <2>2. Cardinality(Running') <= Slots
    BY <2>1, RunningShrinks
  <2> QED
    BY <1>6, <2>1, <2>2 DEF Close, TypeOK, QueueInv
<1>7. CASE UNCHANGED vars
  BY <1>7 DEF vars, TypeOK, QueueInv, Running, Pending
<1> QED
  BY <1>1, <1>2, <1>3, <1>4, <1>5, <1>6, <1>7 DEF Next, RunOnce

\* The invariant holds in every behaviour.
THEOREM Invariance == Spec => []IInv
<1>1. Init => IInv
  BY InitIInv
<1>2. IInv /\ [Next]_vars => IInv'
  BY NextIInv
<1> QED
  BY <1>1, <1>2, PTL DEF Spec

\* Every reachable state is well-typed, the threads suffice for the running
\* handlers.
THEOREM TypeCorrect == Spec => []TypeOK
<1>1. IInv => TypeOK
  BY DEF IInv
<1> QED
  BY <1>1, Invariance, PTL

\* A step that starts a handler leaves run_once and the pool as they are and
\* starts one that was pending.
LEMMA BeginnersWerePending ==
  ASSUME NEW a \in Submitted, future[a] = "pending", future'[a] = "running"
  PROVE  a \in Pending
BY DEF Pending

\* No handler begins after run_once gave its attempt up (future.cancel).
THEOREM BeginsInTime == Spec => NoLateBeginning
<1>1. IInv /\ [Next]_vars =>
        [\A a \in Submitted : future[a] = "pending" /\ future'[a] = "running" =>
           a = n /\ pc # "idle"]_vars
  BY BeginnersWerePending DEF IInv, QueueInv
<1> QED
  BY <1>1, Invariance, PTL DEF Spec, NoLateBeginning

\* No handler begins after the pool was shut down (cancel_futures=True).
THEOREM QuietAfterClose == Spec => NothingBeginsAfterClose
<1>1. IInv /\ [Next]_vars =>
        [~open => \A a \in Submitted : ~(future[a] = "pending" /\ future'[a] = "running")]_vars
  BY BeginnersWerePending DEF IInv, QueueInv
<1> QED
  BY <1>1, Invariance, PTL DEF Spec, NothingBeginsAfterClose

\* The handlers run_once has left behind all have a thread: no more of them
\* than the pool has.
THEOREM AbandonedFit == Spec => []AbandonedFitInPool
<1>1. IInv => AbandonedFitInPool
  <2> SUFFICES ASSUME IInv PROVE AbandonedFitInPool
    OBVIOUS
  <2> DEFINE Left == {a \in Submitted : a # n /\ future[a] \in {"pending", "running"}}
  <2>1. Left \subseteq Running
    BY DEF IInv, QueueInv, Pending, Running
  <2>2. IsFiniteSet(Running) /\ Cardinality(Running) \in Nat
    BY RunningFinite DEF IInv
  <2>3. Cardinality(Left) <= Cardinality(Running) /\ IsFiniteSet(Left)
    BY <2>1, <2>2, FS_Subset
  <2>4. Cardinality(Left) \in Nat
    BY <2>3, FS_CardinalityType
  <2> QED
    BY <2>2, <2>3, <2>4, ConstantsAssumption
    DEF ConstantsAssumption, IInv, TypeOK, AbandonedFitInPool
<1> QED
  BY <1>1, Invariance, PTL

-----------------------------------------------------------------------------
(* The connection pools: their invariants. *)

\* Both connection pools: a connection is with one client at a time, and not
\* in the queue as well.
OnePlace ==
  /\ \A j, k \in Client : held[j] = held[k] /\ held[j] \in Conn => j = k
  /\ \A k \in Client : held[k] \notin idle

\* MySQLPool: what a client knows of its connection by its position.
MySQLKnows ==
  /\ \A k \in Client : at[k] \in {"pinging", "using", "checking", "storing"} => held[k] \in live
  /\ \A k \in Client : at[k] \in {"checking", "storing"} => held[k] \notin dirty

MySQLShape == MySQL!TypeOK /\ OnePlace /\ MySQLKnows
MySQLInv == MySQLShape /\ MySQL!SlotsAreAccountedFor

\* DBAPIPool: the same, and who opens a connection has room for it under the
\* lock, and close() is under way only on a closed pool.
DBAPIKnows ==
  /\ \A k \in Client : at[k] = "storing" => held[k] \in live \ dirty
  /\ \A k \in Client : at[k] = "opening" => created < Max
  /\ closing # "no" => closed

DBAPIShape == DBAPI!TypeOK /\ OnePlace /\ DBAPIKnows
DBAPIInv == DBAPIShape /\ DBAPI!SlotsAreAccountedFor

-----------------------------------------------------------------------------
(* What the two connection pools have in common. *)

\* Each instance brings its own copy of FiniteSets.
LEMMA SameCardinality ==
  \A S : /\ MySQL!Cardinality(S) = Cardinality(S)
         /\ DBAPI!Cardinality(S) = Cardinality(S)
         /\ MySQL!Promise!Cardinality(S) = Cardinality(S)
         /\ MySQL!IsFiniteSet(S) <=> IsFiniteSet(S)
BY DEF MySQL!Cardinality, DBAPI!Cardinality, MySQL!Promise!Cardinality, Cardinality,
       MySQL!IsFiniteSet, IsFiniteSet

\* What the configuration of the pools may be.
LEMMA Configuration ==
  /\ IsFiniteSet(Conn) /\ IsFiniteSet(Client)
  /\ Max \in Nat \ {0}
  /\ First \subseteq Conn /\ IsFiniteSet(First)
  /\ Cardinality(First) \in 0..Max
  /\ NoConn \notin Conn
  /\ Nobody \notin Client
  /\ Idle # None /\ Outside # None /\ Idle # Outside
  /\ Client \cap {None, Idle, Outside} = {}
<1>1. MySQL!ConstantsAssumption /\ DBAPI!ConstantsAssumption
  BY PoolsAssumption DEF PoolsAssumption
<1>2. IsFiniteSet(Conn) /\ First \subseteq Conn
  BY <1>1, SameCardinality DEF MySQL!ConstantsAssumption
<1> QED
  BY <1>1, <1>2, SameCardinality, FS_Subset
  DEF MySQL!ConstantsAssumption, DBAPI!ConstantsAssumption

\* The clients that hold a connection, and those at a position.
Holders == {k \in Client : held[k] \in Conn}
At(p) == {k \in Client : at[k] = p}

-----------------------------------------------------------------------------
(* MySQLPool: types and places. *)

\* A pool begins with its first connections in the queue.
LEMMA MySQLInitShape == MySQL!Init => MySQLShape
BY Configuration, SameCardinality
DEF MySQL!Init, MySQLShape, MySQL!TypeOK, MySQL!Position, OnePlace, MySQLKnows

\* No step of a client or of close() breaks the types, puts a connection in a
\* second place or invalidates what a client knows of its own.
LEMMA MySQLNextShape == MySQLShape /\ [MySQL!Next]_(MySQL!vars) => MySQLShape'
<1> SUFFICES ASSUME MySQLShape, [MySQL!Next]_(MySQL!vars) PROVE MySQLShape'
  OBVIOUS
<1> USE Configuration
    DEF MySQLShape, MySQL!TypeOK, MySQL!Position, OnePlace, MySQLKnows, MySQL!pool,
        MySQL!Goto, MySQL!Leave
<1>1. ASSUME NEW k \in Client, MySQL!Enter(k) \/ MySQL!FindNone(k) \/ MySQL!WaitTimesOut(k)
      PROVE  MySQLShape'
  BY <1>1 DEF MySQL!Enter, MySQL!FindNone, MySQL!WaitTimesOut
<1>2. ASSUME NEW k \in Client, MySQL!TakeIdle(k) PROVE MySQLShape'
  BY <1>2 DEF MySQL!TakeIdle
<1>3. ASSUME NEW k \in Client, MySQL!Reserve(k) PROVE MySQLShape'
  BY <1>3 DEF MySQL!Reserve
<1>4. ASSUME NEW k \in Client, MySQL!Connect(k) PROVE MySQLShape'
  BY <1>4 DEF MySQL!Connect
<1>5. ASSUME NEW k \in Client, MySQL!ConnectFails(k) PROVE MySQLShape'
  BY <1>5 DEF MySQL!ConnectFails, MySQL!Uncount
<1>6. ASSUME NEW k \in Client, MySQL!Ping(k) \/ MySQL!PingFails(k) PROVE MySQLShape'
  BY <1>6 DEF MySQL!Ping, MySQL!PingFails
<1>7. ASSUME NEW k \in Client, MySQL!Work(k) PROVE MySQLShape'
  BY <1>7 DEF MySQL!Work
<1>8. ASSUME NEW k \in Client, held[k] \in Conn, MySQL!Discard(k) PROVE MySQLShape'
  BY <1>8 DEF MySQL!Discard, MySQL!Uncount
<1>9. ASSUME NEW k \in Client, MySQL!Fail(k) PROVE MySQLShape'
  BY <1>8, <1>9 DEF MySQL!Fail
<1>10. ASSUME NEW k \in Client, MySQL!Return(k) PROVE MySQLShape'
  BY <1>8, <1>10 DEF MySQL!Return
<1>11. ASSUME NEW k \in Client, MySQL!Check(k) PROVE MySQLShape'
  BY <1>11 DEF MySQL!Check
<1>12. ASSUME NEW k \in Client, MySQL!Store(k) PROVE MySQLShape'
  BY <1>8, <1>12 DEF MySQL!Store
<1>13. ASSUME MySQL!Close \/ MySQL!DrainEnds PROVE MySQLShape'
  BY <1>13 DEF MySQL!Close, MySQL!DrainEnds
<1>14. ASSUME MySQL!Drain PROVE MySQLShape'
  BY <1>14 DEF MySQL!Drain, MySQL!Uncount
<1>15. CASE UNCHANGED MySQL!vars
  BY <1>15 DEF MySQL!vars
<1> QED
  BY <1>1, <1>2, <1>3, <1>4, <1>5, <1>6, <1>7, <1>9, <1>10, <1>11, <1>12, <1>13, <1>14, <1>15
  DEF MySQL!Next, MySQL!Step

-----------------------------------------------------------------------------
(* MySQLPool: the slots. *)

\* A finite set counts one more or one less with an element of it added or
\* taken away.
LEMMA Sizes ==
  ASSUME NEW S, IsFiniteSet(S)
  PROVE  /\ Cardinality(S) \in Nat
         /\ \A x \in S : Cardinality(S) = Cardinality(S \ {x}) + 1 /\ Cardinality(S \ {x}) \in Nat
         /\ \A x : x \notin S => Cardinality(S \cup {x}) = Cardinality(S) + 1
<1>1. Cardinality(S) \in Nat
  BY FS_CardinalityType
<1>2. ASSUME NEW x \in S PROVE Cardinality(S) = Cardinality(S \ {x}) + 1 /\ Cardinality(S \ {x}) \in Nat
  <2>1. IsFiniteSet(S \ {x}) /\ Cardinality(S \ {x}) = Cardinality(S) - 1
    BY FS_RemoveElement
  <2>2. Cardinality(S \ {x}) \in Nat
    BY <2>1, FS_CardinalityType
  <2> QED
    BY <1>1, <2>1, <2>2
<1>3. ASSUME NEW x, x \notin S PROVE Cardinality(S \cup {x}) = Cardinality(S) + 1
  BY <1>3, FS_AddElement
<1> QED
  BY <1>1, <1>2, <1>3

\* The slots in use: the four sets that SlotsAreAccountedFor counts.
InUse == Cardinality(idle) + Cardinality(Holders) + Cardinality(At("connecting"))
           + Cardinality(MySQL!Orphans)

\* These four sets are finite.
LEMMA MySQLFinite ==
  ASSUME MySQLShape
  PROVE  /\ IsFiniteSet(idle) /\ IsFiniteSet(Holders) /\ IsFiniteSet(At("connecting"))
         /\ IsFiniteSet(MySQL!Orphans) /\ IsFiniteSet(live)
         /\ Cardinality(idle) \in Nat /\ Cardinality(Holders) \in Nat
         /\ Cardinality(At("connecting")) \in Nat /\ Cardinality(MySQL!Orphans) \in Nat
<1>1. idle \subseteq Conn /\ live \subseteq Conn /\ MySQL!Orphans \subseteq Conn
  BY DEF MySQLShape, MySQL!TypeOK, MySQL!Orphans
<1>2. Holders \subseteq Client /\ At("connecting") \subseteq Client
  BY DEF Holders, At
<1>3. /\ IsFiniteSet(idle) /\ IsFiniteSet(Holders) /\ IsFiniteSet(At("connecting"))
      /\ IsFiniteSet(MySQL!Orphans) /\ IsFiniteSet(live)
  BY <1>1, <1>2, Configuration, FS_Subset
<1> QED
  BY <1>3, FS_CardinalityType

\* The property, with FiniteSets' own Cardinality.
LEMMA MySQLAccounts ==
  MySQL!SlotsAreAccountedFor <=> created >= InUse /\ (closed \/ created = InUse)
BY SameCardinality DEF MySQL!SlotsAreAccountedFor, InUse, Holders, At

\* A step that counts what it does and does not reopen the pool keeps it.
LEMMA MySQLAccountsNext ==
  ASSUME MySQL!SlotsAreAccountedFor,
         created' >= InUse', created = InUse => created' = InUse', closed => closed'
  PROVE  MySQL!SlotsAreAccountedFor'
<1>1. MySQL!SlotsAreAccountedFor' <=> created' >= InUse' /\ (closed' \/ created' = InUse')
  BY SameCardinality DEF MySQL!SlotsAreAccountedFor, InUse, Holders, At
<1> QED
  BY <1>1, MySQLAccounts, Zenon

\* On a closed pool what is left may stay counted.
LEMMA MySQLClosedAccounts ==
  ASSUME created' >= InUse', closed' PROVE MySQL!SlotsAreAccountedFor'
BY SameCardinality DEF MySQL!SlotsAreAccountedFor, InUse, Holders, At

\* In the beginning the first connections are counted.
LEMMA MySQLInitSlots == MySQL!Init => MySQL!SlotsAreAccountedFor
<1> SUFFICES ASSUME MySQL!Init PROVE created = InUse /\ created >= InUse
  BY MySQLAccounts, Zenon
<1> USE Configuration DEF MySQL!Init
<1>1. Holders = {} /\ At("connecting") = {} /\ MySQL!Orphans = {}
  BY DEF Holders, At, MySQL!Orphans
<1>2. Cardinality({}) = 0 /\ Cardinality(First) \in Nat
  BY FS_EmptySet
<1>3. created = Cardinality(First) /\ idle = First
  BY SameCardinality
<1>4. InUse = Cardinality(First) + Cardinality({}) + Cardinality({}) + Cardinality({})
  BY <1>1, <1>3 DEF InUse
<1>5. created = InUse /\ created >= InUse
  BY <1>2, <1>3, <1>4
<1> QED
  BY <1>5

\* Who gives its connection up frees its slot.
LEMMA MySQLDiscardSlots ==
  ASSUME MySQLInv, NEW k \in Client, held[k] \in Conn, MySQL!Discard(k)
  PROVE  MySQL!SlotsAreAccountedFor'
<1> USE Configuration DEF MySQLInv, MySQLShape, MySQL!TypeOK, OnePlace
<1>1. k \in Holders /\ Holders' = Holders \ {k}
  BY DEF MySQL!Discard, MySQL!Leave, Holders
<1>2. At("connecting")' = At("connecting")
  BY DEF MySQL!Discard, MySQL!Leave, MySQL!Goto, At
<1>3. MySQL!Orphans' = MySQL!Orphans
  BY DEF MySQL!Discard, MySQL!Leave, MySQL!Orphans
<1>4. Cardinality(Holders) = Cardinality(Holders') + 1 /\ Cardinality(Holders') \in Nat
  BY <1>1, MySQLFinite, Sizes
<1>5. InUse = InUse' + 1 /\ InUse' \in Nat
  BY <1>2, <1>3, <1>4, MySQLFinite DEF InUse, MySQL!Discard
<1>6. created >= InUse /\ created \in Nat
  BY MySQLAccounts
<1>7. created' = created - 1 /\ closed' = closed
  BY <1>5, <1>6 DEF MySQL!Discard, MySQL!Uncount, InUse
<1>8. created' >= InUse' /\ (created = InUse => created' = InUse')
  BY <1>5, <1>6, <1>7 DEF InUse
<1> QED
  BY <1>7, <1>8, MySQLAccountsNext

\* Every step counts what it does.
LEMMA MySQLNextSlots == MySQLInv /\ [MySQL!Next]_(MySQL!vars) => MySQL!SlotsAreAccountedFor'
<1> SUFFICES ASSUME MySQLInv, [MySQL!Next]_(MySQL!vars) PROVE MySQL!SlotsAreAccountedFor'
  OBVIOUS
<1>0. created \in Nat /\ created >= InUse /\ InUse \in Nat /\ MySQL!SlotsAreAccountedFor
  BY MySQLAccounts, MySQLFinite, Configuration DEF MySQLInv, MySQLShape, MySQL!TypeOK, InUse
<1>a. ASSUME InUse' = InUse, UNCHANGED <<created, closed>> PROVE MySQL!SlotsAreAccountedFor'
  BY <1>0, <1>a, MySQLAccountsNext
<1>b. ASSUME InUse = InUse' + 1, InUse' \in Nat, MySQL!Uncount, closed' = closed
      PROVE  MySQL!SlotsAreAccountedFor'
  <2>1. created' = created - 1
    BY <1>0, <1>b DEF MySQL!Uncount, InUse
  <2>2. created' >= InUse' /\ (created = InUse => created' = InUse')
    BY <1>0, <1>b, <2>1 DEF InUse
  <2> QED
    BY <1>0, <1>b, <2>2, MySQLAccountsNext
<1> USE Configuration
    DEF MySQLInv, MySQLShape, MySQL!TypeOK, OnePlace, MySQL!pool, MySQL!Goto, MySQL!Leave
<1>1. ASSUME NEW k \in Client,
             MySQL!Enter(k) \/ MySQL!FindNone(k) \/ MySQL!WaitTimesOut(k)
               \/ MySQL!Ping(k) \/ MySQL!PingFails(k) \/ MySQL!Work(k)
      PROVE  MySQL!SlotsAreAccountedFor'
  <2>1. /\ idle' = idle /\ Holders' = Holders /\ At("connecting")' = At("connecting")
        /\ MySQL!Orphans' = MySQL!Orphans /\ UNCHANGED <<created, closed>>
    BY <1>1 DEF MySQL!Enter, MySQL!FindNone, MySQL!WaitTimesOut, MySQL!Ping, MySQL!PingFails,
                MySQL!Work, Holders, At, MySQL!Orphans
  <2> QED
    BY <1>a, <2>1 DEF InUse
<1>2. ASSUME NEW k \in Client, MySQL!TakeIdle(k) PROVE MySQL!SlotsAreAccountedFor'
  <2>1. PICK c \in idle : idle' = idle \ {c} /\ held' = [held EXCEPT ![k] = c]
    BY <1>2 DEF MySQL!TakeIdle
  <2>2. k \notin Holders /\ Holders' = Holders \cup {k}
    BY <1>2, <2>1 DEF MySQL!TakeIdle, Holders
  <2>3. At("connecting")' = At("connecting")
    BY <1>2 DEF MySQL!TakeIdle, At
  <2>4. MySQL!Orphans' = MySQL!Orphans
    BY <1>2, <2>1 DEF MySQL!TakeIdle, MySQL!Orphans
  <2>5. /\ Cardinality(idle) = Cardinality(idle') + 1 /\ Cardinality(idle') \in Nat
        /\ Cardinality(Holders') = Cardinality(Holders) + 1
    BY <2>1, <2>2, MySQLFinite, Sizes
  <2> QED
    BY <1>a, <1>2, <2>3, <2>4, <2>5, MySQLFinite DEF InUse, MySQL!TakeIdle
<1>3. ASSUME NEW k \in Client, MySQL!Reserve(k) PROVE MySQL!SlotsAreAccountedFor'
  <2>1. idle' = idle /\ Holders' = Holders /\ MySQL!Orphans' = MySQL!Orphans /\ closed' = closed
    BY <1>3 DEF MySQL!Reserve, Holders, MySQL!Orphans
  <2>2. CASE closed \/ created >= Max
    <3>1. At("connecting")' = At("connecting") /\ created' = created
      BY <1>3, <2>2 DEF MySQL!Reserve, At
    <3> QED
      BY <1>a, <2>1, <3>1 DEF InUse
  <2>3. CASE ~(closed \/ created >= Max)
    <3>1. k \notin At("connecting") /\ At("connecting")' = At("connecting") \cup {k}
      BY <1>3, <2>3 DEF MySQL!Reserve, At
    <3>2. Cardinality(At("connecting")') = Cardinality(At("connecting")) + 1
      BY <3>1, MySQLFinite, Sizes
    <3>3. InUse' = InUse + 1
      BY <2>1, <3>2, MySQLFinite DEF InUse
    <3>4. created' = created + 1
      BY <1>3, <2>3 DEF MySQL!Reserve
    <3>5. created' >= InUse' /\ (created = InUse => created' = InUse')
      BY <1>0, <3>3, <3>4 DEF InUse
    <3> QED
      BY <1>0, <2>1, <3>5, MySQLAccountsNext
  <2> QED
    BY <2>2, <2>3
<1>4. ASSUME NEW k \in Client, MySQL!Connect(k) PROVE MySQL!SlotsAreAccountedFor'
  <2>1. PICK c \in Conn \ live :
          /\ \A j \in Client : held[j] # c
          /\ live' = live \cup {c}
          /\ held' = [held EXCEPT ![k] = c]
    BY <1>4 DEF MySQL!Connect
  <2>2. k \notin Holders /\ Holders' = Holders \cup {k}
    BY <1>4, <2>1 DEF MySQL!Connect, Holders
  <2>3. k \in At("connecting") /\ At("connecting")' = At("connecting") \ {k}
    BY <1>4 DEF MySQL!Connect, At
  <2>4. MySQL!Orphans' = MySQL!Orphans
    BY <1>4, <2>1 DEF MySQL!Connect, MySQL!Orphans
  <2>5. /\ Cardinality(At("connecting")) = Cardinality(At("connecting")') + 1
        /\ Cardinality(At("connecting")') \in Nat
        /\ Cardinality(Holders') = Cardinality(Holders) + 1
    BY <2>2, <2>3, MySQLFinite, Sizes
  <2> QED
    BY <1>a, <1>4, <2>4, <2>5, MySQLFinite DEF InUse, MySQL!Connect
<1>5. ASSUME NEW k \in Client, MySQL!ConnectFails(k) PROVE MySQL!SlotsAreAccountedFor'
  <2>1. /\ idle' = idle /\ Holders' = Holders /\ MySQL!Orphans' = MySQL!Orphans /\ closed' = closed
        /\ k \in At("connecting") /\ At("connecting")' = At("connecting") \ {k}
    BY <1>5 DEF MySQL!ConnectFails, Holders, MySQL!Orphans, At
  <2>2. /\ Cardinality(At("connecting")) = Cardinality(At("connecting")') + 1
        /\ Cardinality(At("connecting")') \in Nat
    BY <2>1, MySQLFinite, Sizes
  <2>3. InUse = InUse' + 1 /\ InUse' \in Nat
    BY <2>1, <2>2, MySQLFinite DEF InUse
  <2> QED
    BY <1>b, <1>5, <2>1, <2>3 DEF MySQL!ConnectFails
<1>6. ASSUME NEW k \in Client, held[k] \in Conn, closed, MySQL!Leave(k), UNCHANGED <<live, idle, created, closed>>
      PROVE  MySQL!SlotsAreAccountedFor'
  <2>1. k \in Holders /\ Holders' = Holders \ {k}
    BY <1>6 DEF Holders
  <2>2. At("connecting")' = At("connecting")
    BY <1>6 DEF At
  <2>3. Cardinality(Holders) = Cardinality(Holders') + 1 /\ Cardinality(Holders') \in Nat
    BY <2>1, MySQLFinite, Sizes
  <2>4. \/ MySQL!Orphans' = MySQL!Orphans
        \/ MySQL!Orphans' = MySQL!Orphans \cup {held[k]} /\ held[k] \notin MySQL!Orphans
    BY <1>6 DEF MySQL!Orphans
  <2>5. Cardinality(MySQL!Orphans') \in {Cardinality(MySQL!Orphans), Cardinality(MySQL!Orphans) + 1}
    BY <2>4, MySQLFinite, Sizes
  <2>6. InUse' <= InUse /\ InUse' \in Nat
    BY <1>6, <2>2, <2>3, <2>5, MySQLFinite DEF InUse
  <2>7. created' >= InUse' /\ closed'
    BY <1>0, <1>6, <2>6 DEF InUse
  <2> QED
    BY <1>0, <2>7, MySQLClosedAccounts
<1>7. ASSUME NEW k \in Client, MySQL!Fail(k) PROVE MySQL!SlotsAreAccountedFor'
  <2>1. CASE MySQL!Discard(k)
    BY <1>7, <2>1, MySQLDiscardSlots DEF MySQL!Fail
  <2>2. CASE ~MySQL!Discard(k)
    <3>1. /\ idle' = idle /\ Holders' = Holders /\ At("connecting")' = At("connecting")
          /\ MySQL!Orphans' = MySQL!Orphans /\ UNCHANGED <<created, closed>>
      BY <1>7, <2>2 DEF MySQL!Fail, Holders, At, MySQL!Orphans
    <3> QED
      BY <1>a, <3>1 DEF InUse
  <2> QED
    BY <2>1, <2>2
<1>8. ASSUME NEW k \in Client, MySQL!Return(k) PROVE MySQL!SlotsAreAccountedFor'
  <2>0. held[k] \in Conn
    BY <1>8 DEF MySQL!Return
  <2>1. CASE closed
    BY <1>6, <1>8, <2>0, <2>1 DEF MySQL!Return
  <2>2. CASE MySQL!Discard(k)
    BY <2>0, <2>2, MySQLDiscardSlots
  <2>3. CASE ~closed /\ ~MySQL!Discard(k)
    <3>1. /\ idle' = idle /\ Holders' = Holders /\ At("connecting")' = At("connecting")
          /\ MySQL!Orphans' = MySQL!Orphans /\ UNCHANGED <<created, closed>>
      BY <1>8, <2>3 DEF MySQL!Return, Holders, At, MySQL!Orphans
    <3> QED
      BY <1>a, <3>1 DEF InUse
  <2> QED
    BY <2>1, <2>2, <2>3
<1>9. ASSUME NEW k \in Client, MySQL!Check(k) PROVE MySQL!SlotsAreAccountedFor'
  <2>1. CASE closed
    BY <1>6, <1>9, <2>1 DEF MySQL!Check
  <2>2. CASE ~closed
    <3>1. /\ idle' = idle /\ Holders' = Holders /\ At("connecting")' = At("connecting")
          /\ MySQL!Orphans' = MySQL!Orphans /\ UNCHANGED <<created, closed>>
      BY <1>9, <2>2 DEF MySQL!Check, Holders, At, MySQL!Orphans
    <3> QED
      BY <1>a, <3>1 DEF InUse
  <2> QED
    BY <2>1, <2>2
<1>10. ASSUME NEW k \in Client, MySQL!Store(k) PROVE MySQL!SlotsAreAccountedFor'
  <2>0. held[k] \in Conn
    BY <1>10 DEF MySQL!Store
  <2>1. CASE MySQL!Discard(k)
    BY <2>0, <2>1, MySQLDiscardSlots
  <2>2. CASE ~MySQL!Discard(k)
    <3>1. /\ MySQL!Leave(k) /\ idle' = idle \cup {held[k]} /\ UNCHANGED <<live, dirty, created, closed>>
      BY <1>10, <2>2 DEF MySQL!Store
    <3>2. held[k] \notin idle /\ k \in Holders /\ Holders' = Holders \ {k}
      BY <2>0, <3>1 DEF Holders
    <3>3. At("connecting")' = At("connecting")
      BY <1>10, <3>1 DEF MySQL!Store, At
    <3>4. MySQL!Orphans' = MySQL!Orphans
      BY <2>0, <3>1 DEF MySQL!Orphans
    <3>5. /\ Cardinality(Holders) = Cardinality(Holders') + 1 /\ Cardinality(Holders') \in Nat
          /\ Cardinality(idle') = Cardinality(idle) + 1
      BY <3>1, <3>2, MySQLFinite, Sizes
    <3> QED
      BY <1>a, <3>1, <3>3, <3>4, <3>5, MySQLFinite DEF InUse
  <2> QED
    BY <2>1, <2>2
<1>11. ASSUME MySQL!Close \/ MySQL!DrainEnds PROVE MySQL!SlotsAreAccountedFor'
  <2>1. /\ idle' = idle /\ Holders' = Holders /\ At("connecting")' = At("connecting")
        /\ MySQL!Orphans' = MySQL!Orphans /\ created' = created /\ (closed => closed')
    BY <1>11 DEF MySQL!Close, MySQL!DrainEnds, Holders, At, MySQL!Orphans
  <2>2. InUse' = InUse
    BY <2>1 DEF InUse
  <2>3. created' >= InUse' /\ (created = InUse => created' = InUse')
    BY <1>0, <2>1, <2>2 DEF InUse
  <2> QED
    BY <1>0, <2>1, <2>3, MySQLAccountsNext
<1>12. ASSUME MySQL!Drain PROVE MySQL!SlotsAreAccountedFor'
  <2>1. PICK c \in idle : idle' = idle \ {c} /\ live' = live \ {c}
    BY <1>12 DEF MySQL!Drain
  <2>2. /\ Holders' = Holders /\ At("connecting")' = At("connecting")
        /\ MySQL!Orphans' = MySQL!Orphans /\ closed' = closed
    BY <1>12, <2>1 DEF MySQL!Drain, Holders, At, MySQL!Orphans
  <2>3. Cardinality(idle) = Cardinality(idle') + 1 /\ Cardinality(idle') \in Nat
    BY <2>1, MySQLFinite, Sizes
  <2>4. InUse = InUse' + 1 /\ InUse' \in Nat
    BY <2>2, <2>3, MySQLFinite DEF InUse
  <2> QED
    BY <1>b, <1>12, <2>2, <2>4 DEF MySQL!Drain
<1>13. CASE UNCHANGED MySQL!vars
  BY <1>a, <1>13 DEF MySQL!vars, InUse, Holders, At, MySQL!Orphans
<1> QED
  BY <1>1, <1>2, <1>3, <1>4, <1>5, <1>7, <1>8, <1>9, <1>10, <1>11, <1>12, <1>13
  DEF MySQL!Next, MySQL!Step

\* MySQLPool's invariant holds in every behaviour.
THEOREM MySQLInvariance == MySQL!Spec => []MySQLInv
<1>1. MySQL!Init => MySQLInv
  BY MySQLInitShape, MySQLInitSlots DEF MySQLInv
<1>2. MySQLInv /\ [MySQL!Next]_(MySQL!vars) => MySQLInv'
  BY MySQLNextShape, MySQLNextSlots DEF MySQLInv
<1> QED
  BY <1>1, <1>2, PTL DEF MySQL!Spec

-----------------------------------------------------------------------------
(* The places of the connections, in both pools. *)

\* What makes a connection's place unambiguous.
Placed ==
  /\ live \subseteq Conn /\ idle \subseteq live
  /\ held \in [Client -> Conn \cup {NoConn}]
  /\ OnePlace

\* Place without the choice it makes: a connection that is open is in the
\* queue, with the one client that holds it, or with nobody.
PlaceIsClear ==
  /\ DOMAIN MySQL!Place = Conn /\ MySQL!Place = [c \in Conn |-> MySQL!Place[c]]
  /\ \A c \in Conn :
       /\ c \notin live <=> MySQL!Place[c] = None
       /\ c \in idle <=> MySQL!Place[c] = Idle
       /\ c \in MySQL!Orphans <=> MySQL!Place[c] = Outside
       /\ \A k \in Client : c \in live /\ held[k] = c <=> MySQL!Place[c] = k
       /\ MySQL!Place[c] \in Client \cup {None, Idle, Outside}

\* Place is what it is meant to be.
LEMMA PlacesAreClear == Placed => PlaceIsClear
<1> SUFFICES ASSUME Placed PROVE PlaceIsClear
  OBVIOUS
<1> USE Configuration DEF Placed, OnePlace
<1>1. DOMAIN MySQL!Place = Conn /\ MySQL!Place = [c \in Conn |-> MySQL!Place[c]]
  BY DEF MySQL!Place
<1>2. ASSUME NEW c \in Conn
      PROVE  /\ c \notin live <=> MySQL!Place[c] = None
             /\ c \in idle <=> MySQL!Place[c] = Idle
             /\ c \in MySQL!Orphans <=> MySQL!Place[c] = Outside
             /\ \A k \in Client : c \in live /\ held[k] = c <=> MySQL!Place[c] = k
             /\ MySQL!Place[c] \in Client \cup {None, Idle, Outside}
  <2>1. CASE c \notin live
    <3>1. MySQL!Place[c] = None
      BY <2>1 DEF MySQL!Place
    <3> QED
      BY <2>1, <3>1 DEF MySQL!Orphans
  <2>2. CASE c \in idle
    <3>1. MySQL!Place[c] = Idle
      BY <2>2 DEF MySQL!Place
    <3> QED
      BY <2>2, <3>1 DEF MySQL!Orphans
  <2>3. CASE c \in live \ idle /\ \E k \in Client : held[k] = c
    <3> DEFINE h == CHOOSE k \in Client : held[k] = c
    <3>1. h \in Client /\ held[h] = c
      BY <2>3
    <3>2. MySQL!Place[c] = h
      BY <2>3 DEF MySQL!Place
    <3> HIDE DEF h
    <3>3. \A k \in Client : held[k] = c <=> k = h
      BY <3>1
    <3> QED
      BY <2>3, <3>1, <3>2, <3>3 DEF MySQL!Orphans
  <2>4. CASE c \in live \ idle /\ ~\E k \in Client : held[k] = c
    <3>1. MySQL!Place[c] = Outside
      BY <2>4 DEF MySQL!Place
    <3> QED
      BY <2>4, <3>1 DEF MySQL!Orphans
  <2> QED
    BY <2>1, <2>2, <2>3, <2>4
<1> QED
  BY <1>1, <1>2 DEF PlaceIsClear

\* The same in the next state.
LEMMA PlacesStayClear == Placed' => PlaceIsClear'
BY PlacesAreClear, PTL

\* A connection that is as open, as idle and as much held as before is where
\* it was.
LEMMA PlaceKept ==
  ASSUME Placed, Placed', NEW c \in Conn,
         c \in live' <=> c \in live, c \in idle' <=> c \in idle,
         \A k \in Client : held'[k] = c <=> held[k] = c
  PROVE  MySQL!Place'[c] = MySQL!Place[c]
<1>1. PlaceIsClear /\ PlaceIsClear'
  BY PlacesAreClear, PlacesStayClear
<1>2. c \in MySQL!Orphans' <=> c \in MySQL!Orphans
  BY DEF MySQL!Orphans
<1> QED
  BY <1>1, <1>2, Configuration DEF PlaceIsClear

\* Nothing moves.
LEMMA NothingMoves ==
  ASSUME Placed, Placed',
         \A c \in Conn : /\ c \in live' <=> c \in live
                         /\ c \in idle' <=> c \in idle
                         /\ \A k \in Client : held'[k] = c <=> held[k] = c
  PROVE  MySQL!Place' = MySQL!Place
<1>1. PlaceIsClear /\ PlaceIsClear'
  BY PlacesAreClear, PlacesStayClear
<1>2. \A c \in Conn : MySQL!Place'[c] = MySQL!Place[c]
  BY PlaceKept
<1> QED
  BY <1>1, <1>2 DEF PlaceIsClear

\* One connection moves.
LEMMA OneMoves ==
  ASSUME Placed, Placed', NEW d \in Conn,
         \A c \in Conn \ {d} : /\ c \in live' <=> c \in live
                               /\ c \in idle' <=> c \in idle
                               /\ \A k \in Client : held'[k] = c <=> held[k] = c
  PROVE  MySQL!Place' = [MySQL!Place EXCEPT ![d] = MySQL!Place'[d]]
<1>1. PlaceIsClear /\ PlaceIsClear'
  BY PlacesAreClear, PlacesStayClear
<1>2. \A c \in Conn \ {d} : MySQL!Place'[c] = MySQL!Place[c]
  BY PlaceKept
<1> QED
  BY <1>1, <1>2 DEF PlaceIsClear

\* The open connections are no more than the places they can be in.
LEMMA OpenOnesCounted ==
  ASSUME Placed
  PROVE  /\ MySQL!Promise!OpenOnes = live
         /\ Cardinality(live) <= Cardinality(idle) + Cardinality(Holders) + Cardinality(MySQL!Orphans)
         /\ Cardinality(live) \in Nat /\ Cardinality(idle) \in Nat
         /\ Cardinality(Holders) \in Nat /\ Cardinality(MySQL!Orphans) \in Nat
<1> DEFINE Used == {c \in live : \E k \in Client : held[k] = c}
<1>1. PlaceIsClear
  BY PlacesAreClear
<1>2. MySQL!Promise!OpenOnes = live
  BY <1>1 DEF MySQL!Promise!OpenOnes, PlaceIsClear, Placed
<1>3. /\ IsFiniteSet(live) /\ IsFiniteSet(idle) /\ IsFiniteSet(MySQL!Orphans)
      /\ IsFiniteSet(Used) /\ IsFiniteSet(Holders)
  <2>1. /\ live \subseteq Conn /\ idle \subseteq Conn /\ MySQL!Orphans \subseteq Conn
        /\ Used \subseteq Conn /\ Holders \subseteq Client
    BY DEF Placed, MySQL!Orphans, Holders
  <2> QED
    BY <2>1, Configuration, FS_Subset
<1>4. Cardinality(Used) <= Cardinality(Holders)
  <2> DEFINE f == [c \in Used |-> MySQL!Place[c]]
  <2>1. \A c \in Used : f[c] \in Holders /\ held[f[c]] = c
    <3> SUFFICES ASSUME NEW c \in Used PROVE f[c] \in Holders /\ held[f[c]] = c
      OBVIOUS
    <3>1. PICK k \in Client : held[k] = c
      OBVIOUS
    <3>2. c \in Conn /\ MySQL!Place[c] = k
      BY <1>1, <3>1 DEF PlaceIsClear, Placed
    <3> QED
      BY <3>1, <3>2 DEF Holders
  <2>2. f \in [Used -> Holders]
    BY <2>1
  <2>3. \A c, d \in Used : f[c] = f[d] => c = d
    BY <2>1
  <2>4. f \in Injection(Used, Holders)
    BY <2>2, <2>3 DEF Injection, IsInjective
  <2> QED
    BY <1>3, <2>4, FS_Injection
<1>5. live = (idle \cup Used) \cup MySQL!Orphans
  BY DEF Placed, MySQL!Orphans
<1>6. /\ Cardinality(idle \cup Used) <= Cardinality(idle) + Cardinality(Used)
      /\ IsFiniteSet(idle \cup Used)
      /\ Cardinality(live) <= Cardinality(idle \cup Used) + Cardinality(MySQL!Orphans)
  <2>1. /\ IsFiniteSet(idle \cup Used) /\ IsFiniteSet(idle \cap Used)
        /\ Cardinality(idle \cup Used) = Cardinality(idle) + Cardinality(Used) - Cardinality(idle \cap Used)
    BY <1>3, FS_Union, FS_Intersection
  <2>2. /\ IsFiniteSet((idle \cup Used) \cap MySQL!Orphans)
        /\ Cardinality(live) = Cardinality(idle \cup Used) + Cardinality(MySQL!Orphans)
                                 - Cardinality((idle \cup Used) \cap MySQL!Orphans)
    BY <1>3, <1>5, <2>1, FS_Union, FS_Intersection
  <2>3. /\ Cardinality(idle \cap Used) \in Nat /\ Cardinality(idle) \in Nat /\ Cardinality(Used) \in Nat
        /\ Cardinality((idle \cup Used) \cap MySQL!Orphans) \in Nat
        /\ Cardinality(idle \cup Used) \in Nat /\ Cardinality(MySQL!Orphans) \in Nat
    BY <1>3, <2>1, <2>2, FS_CardinalityType
  <2> QED
    BY <2>1, <2>2, <2>3
<1>7. /\ Cardinality(live) \in Nat /\ Cardinality(idle) \in Nat /\ Cardinality(Used) \in Nat
      /\ Cardinality(Holders) \in Nat /\ Cardinality(MySQL!Orphans) \in Nat
      /\ Cardinality(idle \cup Used) \in Nat
  BY <1>3, <1>6, FS_CardinalityType
<1>8. Cardinality(live) <= Cardinality(idle) + Cardinality(Holders) + Cardinality(MySQL!Orphans)
  BY <1>4, <1>6, <1>7
<1> QED
  BY <1>2, <1>7, <1>8

-----------------------------------------------------------------------------
(* MySQLPool: the promise. *)

\* Its invariant makes places unambiguous, now and in the next state.
LEMMA MySQLPlaced == (MySQLShape => Placed) /\ (MySQLShape' => Placed')
<1>1. MySQLShape => Placed
  BY DEF MySQLShape, MySQL!TypeOK, Placed
<1> QED
  BY <1>1, PTL

\* A pool begins within its limit and without transactions.
LEMMA MySQLInitPromise == MySQL!Init => MySQL!Promise!Init
<1> SUFFICES ASSUME MySQL!Init PROVE MySQL!Promise!Init
  OBVIOUS
<1>1. Placed /\ PlaceIsClear
  BY MySQLInitShape, MySQLPlaced, PlacesAreClear
<1>2. MySQL!Place \in [Conn -> {None, Idle}]
  <2>1. \A c \in Conn : c \notin live \/ c \in idle
    BY DEF MySQL!Init
  <2> QED
    BY <1>1, <2>1 DEF PlaceIsClear
<1>3. MySQL!Promise!Cardinality(MySQL!Promise!OpenOnes) <= Max
  BY <1>1, OpenOnesCounted, SameCardinality, Configuration DEF MySQL!Init
<1> QED
  BY <1>2, <1>3 DEF MySQL!Promise!Init, MySQL!Init

\* While the pool is open, who is connecting has room.
LEMMA MySQLHasRoom ==
  ASSUME MySQLInv, NEW k \in Client, at[k] = "connecting", ~closed
  PROVE  MySQL!Promise!Cardinality(MySQL!Promise!OpenOnes) < Max
<1>1. created = InUse
  BY MySQLAccounts, Zenon DEF MySQLInv
<1>2. created \in 0..Max /\ Max \in Nat
  BY Configuration DEF MySQLInv, MySQLShape, MySQL!TypeOK
<1>3. Cardinality(At("connecting")) \in Nat \ {0}
  <2>1. k \in At("connecting")
    BY DEF At
  <2>2. At("connecting") # {}
    BY <2>1
  <2> QED
    BY <2>2, MySQLFinite, FS_EmptySet DEF MySQLInv
<1>4. /\ Cardinality(live) <= Cardinality(idle) + Cardinality(Holders) + Cardinality(MySQL!Orphans)
      /\ Cardinality(live) \in Nat /\ Cardinality(idle) \in Nat
      /\ Cardinality(Holders) \in Nat /\ Cardinality(MySQL!Orphans) \in Nat
  BY OpenOnesCounted, MySQLPlaced DEF MySQLInv
<1>5. Cardinality(live) < Max
  <2>1. created = Cardinality(idle) + Cardinality(Holders) + Cardinality(At("connecting"))
                    + Cardinality(MySQL!Orphans)
    BY <1>1 DEF InUse
  <2>2. ASSUME NEW a \in Nat, NEW b \in Nat, NEW c \in Nat \ {0}, NEW d \in Nat, NEW e \in Nat,
               e <= a + b + d, created = a + b + c + d
        PROVE  e < Max
    BY <1>2, <2>2
  <2> QED
    BY <1>3, <1>4, <2>1, <2>2
<1> QED
  BY <1>5, OpenOnesCounted, MySQLPlaced, SameCardinality DEF MySQLInv

\* A connection that its holder gives up is closed, if it was not lost before.
LEMMA Disconnects ==
  ASSUME Placed, Placed', dirty \subseteq live, NEW d \in Conn,
         live' = live \ {d}, dirty' = dirty \ {d}, idle' = idle \ {d}, closed' = closed,
         \A c \in Conn \ {d} : \A k \in Client : held'[k] = c <=> held[k] = c
  PROVE  MySQL!Promise!Disconnect(d) \/ UNCHANGED MySQL!Promise!vars
<1>1. PlaceIsClear /\ PlaceIsClear'
  BY PlacesAreClear, PlacesStayClear
<1>2. MySQL!Place' = [MySQL!Place EXCEPT ![d] = MySQL!Place'[d]]
  BY OneMoves
<1>3. MySQL!Place'[d] = None
  BY <1>1 DEF PlaceIsClear
<1>4. CASE d \in live
  BY <1>1, <1>2, <1>3, <1>4 DEF MySQL!Promise!Disconnect, PlaceIsClear
<1>5. CASE d \notin live
  <2>1. dirty' = dirty
    BY <1>5
  <2>2. MySQL!Place' = MySQL!Place
    BY <1>1, <1>2, <1>3, <1>5 DEF PlaceIsClear
  <2> QED
    BY <2>1, <2>2 DEF MySQL!Promise!vars
<1> QED
  BY <1>4, <1>5

\* A client begins or ends a transaction in its open connection.
LEMMA Uses ==
  ASSUME Placed, Placed', NEW k \in Client, held[k] \in live, UNCHANGED <<live, idle, held, closed>>,
         dirty' \in {dirty \cup {held[k]}, dirty \ {held[k]}}
  PROVE  MySQL!Promise!Next
<1>1. PlaceIsClear
  BY PlacesAreClear
<1>2. held[k] \in Conn /\ MySQL!Place[held[k]] = k
  BY <1>1 DEF PlaceIsClear, Placed
<1>3. MySQL!Place' = MySQL!Place
  BY NothingMoves
<1>4. MySQL!Promise!Use(held[k], k)
  BY <1>2, <1>3 DEF MySQL!Promise!Use
<1> QED
  BY <1>2, <1>4 DEF MySQL!Promise!Next

\* Every step is one the promise allows, or none of its business.
LEMMA MySQLNextPromise ==
  MySQLInv /\ MySQLInv' /\ [MySQL!Next]_(MySQL!vars) => [MySQL!Promise!Next]_(MySQL!Promise!vars)
<1> SUFFICES ASSUME MySQLInv, MySQLInv', [MySQL!Next]_(MySQL!vars)
             PROVE  MySQL!Promise!Next \/ UNCHANGED MySQL!Promise!vars
  OBVIOUS
<1>0. Placed /\ Placed' /\ PlaceIsClear /\ PlaceIsClear'
  BY MySQLPlaced, PlacesAreClear, PlacesStayClear DEF MySQLInv
<1>s. ASSUME UNCHANGED <<live, dirty, idle, closed, held>> PROVE UNCHANGED MySQL!Promise!vars
  BY <1>0, <1>s, NothingMoves DEF MySQL!Promise!vars
<1>u. ASSUME NEW k \in Client, held[k] \in live, UNCHANGED <<live, idle, held, closed>>,
             dirty' \in {dirty \cup {held[k]}, dirty \ {held[k]}}
      PROVE  MySQL!Promise!Next
  BY <1>0, <1>u, Uses
<1>d. ASSUME NEW d \in Conn,
             live' = live \ {d}, dirty' = dirty \ {d}, idle' = idle \ {d}, closed' = closed,
             \A c \in Conn \ {d} : \A k \in Client : held'[k] = c <=> held[k] = c
      PROVE  MySQL!Promise!Next \/ UNCHANGED MySQL!Promise!vars
  <2>1. dirty \subseteq live
    BY DEF MySQLInv, MySQLShape, MySQL!TypeOK
  <2>2. MySQL!Promise!Disconnect(d) \/ UNCHANGED MySQL!Promise!vars
    BY <1>0, <1>d, <2>1, Disconnects
  <2> QED
    BY <2>2 DEF MySQL!Promise!Next
<1>l. ASSUME NEW k \in Client, held[k] \in Conn, closed, MySQL!Leave(k),
             UNCHANGED <<live, dirty, idle, closed>>
      PROVE  MySQL!Promise!Next \/ UNCHANGED MySQL!Promise!vars
  <2> DEFINE d == held[k]
  <2>1. \A c \in Conn \ {d} : \A j \in Client : held'[j] = c <=> held[j] = c
    BY <1>l, Configuration DEF MySQL!Leave, MySQLInv, MySQLShape, MySQL!TypeOK
  <2>2. MySQL!Place' = [MySQL!Place EXCEPT ![d] = MySQL!Place'[d]]
    BY <1>0, <1>l, <2>1, OneMoves
  <2>3. CASE d \in live
    <3>1. MySQL!Place[d] = k
      BY <1>0, <1>l, <2>3 DEF PlaceIsClear
    <3>2. d \in MySQL!Orphans'
      BY <1>l, <2>3, Configuration
      DEF MySQL!Orphans, MySQL!Leave, MySQLInv, MySQLShape, MySQL!TypeOK, OnePlace
    <3>3. MySQL!Place'[d] = Outside
      BY <1>0, <1>l, <3>2 DEF PlaceIsClear
    <3>4. MySQL!Promise!LetGo(d, k)
      BY <1>l, <2>2, <3>1, <3>3 DEF MySQL!Promise!LetGo
    <3> QED
      BY <1>l, <3>4 DEF MySQL!Promise!Next
  <2>4. CASE d \notin live
    <3>1. MySQL!Place'[d] = None /\ MySQL!Place[d] = None
      BY <1>0, <1>l, <2>4 DEF PlaceIsClear
    <3>2. MySQL!Place' = MySQL!Place
      BY <1>0, <2>2, <3>1 DEF PlaceIsClear
    <3> QED
      BY <1>l, <3>2 DEF MySQL!Promise!vars
  <2> QED
    BY <2>3, <2>4
<1>x. ASSUME NEW k \in Client, held[k] \in Conn, MySQL!Discard(k)
      PROVE  MySQL!Promise!Next \/ UNCHANGED MySQL!Promise!vars
  <2> DEFINE d == held[k]
  <2>1. /\ live' = live \ {d} /\ dirty' = dirty \ {d} /\ closed' = closed /\ idle' = idle \ {d}
        /\ \A c \in Conn \ {d} : \A j \in Client : held'[j] = c <=> held[j] = c
    BY <1>x, Configuration
    DEF MySQL!Discard, MySQL!Leave, MySQLInv, MySQLShape, MySQL!TypeOK, OnePlace
  <2> QED
    BY <1>d, <1>x, <2>1
<1> USE DEF MySQLInv, MySQLShape, MySQL!TypeOK, MySQL!pool, MySQL!Goto
<1>1. ASSUME NEW k \in Client,
             MySQL!Enter(k) \/ MySQL!FindNone(k) \/ MySQL!Reserve(k) \/ MySQL!ConnectFails(k)
               \/ MySQL!WaitTimesOut(k)
      PROVE  UNCHANGED MySQL!Promise!vars
  <2>1. UNCHANGED <<live, dirty, idle, closed, held>>
    BY <1>1 DEF MySQL!Enter, MySQL!FindNone, MySQL!Reserve, MySQL!ConnectFails, MySQL!WaitTimesOut
  <2> QED
    BY <1>s, <2>1
<1>2. ASSUME NEW k \in Client, MySQL!TakeIdle(k) PROVE MySQL!Promise!Next
  <2>1. PICK c \in idle : idle' = idle \ {c} /\ held' = [held EXCEPT ![k] = c]
    BY <1>2 DEF MySQL!TakeIdle
  <2>2. UNCHANGED <<live, dirty, closed>> /\ c \in Conn /\ held[k] \notin Conn
    BY <1>2, <2>1 DEF MySQL!TakeIdle
  <2>3. MySQL!Place' = [MySQL!Place EXCEPT ![c] = MySQL!Place'[c]]
    BY <1>0, <2>1, <2>2, OneMoves
  <2>4. MySQL!Place[c] = Idle /\ MySQL!Place'[c] = k
    BY <1>0, <2>1, <2>2 DEF PlaceIsClear, Placed
  <2>5. MySQL!Promise!Take(c, k)
    BY <2>2, <2>3, <2>4 DEF MySQL!Promise!Take
  <2> QED
    BY <2>2, <2>5 DEF MySQL!Promise!Next
<1>3. ASSUME NEW k \in Client, MySQL!Connect(k) PROVE MySQL!Promise!Next
  <2>1. PICK c \in Conn \ live :
          /\ \A j \in Client : held[j] # c
          /\ live' = live \cup {c}
          /\ held' = [held EXCEPT ![k] = c]
    BY <1>3 DEF MySQL!Connect
  <2>2. UNCHANGED <<idle, dirty, closed>> /\ held[k] \notin Conn
    BY <1>3 DEF MySQL!Connect
  <2>3. MySQL!Place' = [MySQL!Place EXCEPT ![c] = MySQL!Place'[c]]
    BY <1>0, <2>1, <2>2, OneMoves
  <2>4. MySQL!Place[c] = None /\ MySQL!Place'[c] = k
    BY <1>0, <2>1, <2>2 DEF PlaceIsClear, Placed
  <2>5. closed \/ MySQL!Promise!Cardinality(MySQL!Promise!OpenOnes) < Max
    BY <1>3, MySQLHasRoom DEF MySQL!Connect
  <2>6. MySQL!Promise!Connect(c, k)
    BY <2>2, <2>3, <2>4, <2>5 DEF MySQL!Promise!Connect
  <2> QED
    BY <2>6 DEF MySQL!Promise!Next
<1>4. ASSUME NEW k \in Client, MySQL!Ping(k) PROVE MySQL!Promise!Next \/ UNCHANGED MySQL!Promise!vars
  <2>1. UNCHANGED <<live, idle, closed, held>> /\ held[k] \in live
        /\ (dirty' = dirty \/ dirty' = dirty \ {held[k]})
    BY <1>4 DEF MySQL!Ping, MySQLKnows
  <2> QED
    BY <1>s, <1>u, <2>1
<1>5. ASSUME NEW k \in Client, MySQL!PingFails(k) PROVE MySQL!Promise!Next \/ UNCHANGED MySQL!Promise!vars
  <2>1. /\ live' = live \ {held[k]} /\ dirty' = dirty \ {held[k]} /\ held[k] \in Conn
        /\ idle' = idle \ {held[k]} /\ UNCHANGED <<closed, held>>
    BY <1>5 DEF MySQL!PingFails, OnePlace
  <2> QED
    BY <1>d, <2>1
<1>6. ASSUME NEW k \in Client, MySQL!Work(k) PROVE MySQL!Promise!Next \/ UNCHANGED MySQL!Promise!vars
  <2>1. held[k] \in live /\ held[k] \in Conn /\ idle' = idle \ {held[k]} /\ UNCHANGED <<idle, closed, held>>
    BY <1>6 DEF MySQL!Work, MySQLKnows, OnePlace
  <2>2. \/ live' = live /\ dirty' \in {dirty \cup {held[k]}, dirty \ {held[k]}}
        \/ live' = live \ {held[k]} /\ dirty' = dirty \ {held[k]}
    BY <1>6 DEF MySQL!Work
  <2> QED
    BY <1>u, <1>d, <2>1, <2>2
<1>7. ASSUME NEW k \in Client, MySQL!Fail(k) PROVE MySQL!Promise!Next \/ UNCHANGED MySQL!Promise!vars
  <2>1. held[k] \in Conn
    BY <1>7 DEF MySQL!Fail
  <2>2. \/ held[k] \in live /\ UNCHANGED <<live, idle, held, closed>> /\ dirty' = dirty \ {held[k]}
        \/ MySQL!Discard(k)
    BY <1>7 DEF MySQL!Fail
  <2> QED
    BY <1>u, <1>x, <2>1, <2>2
<1>8. ASSUME NEW k \in Client, MySQL!Return(k) PROVE MySQL!Promise!Next \/ UNCHANGED MySQL!Promise!vars
  <2>1. held[k] \in Conn
    BY <1>8 DEF MySQL!Return
  <2>2. \/ closed /\ MySQL!Leave(k) /\ UNCHANGED <<live, dirty, idle, closed>>
        \/ held[k] \in live /\ UNCHANGED <<live, idle, held, closed>> /\ dirty' = dirty \ {held[k]}
        \/ MySQL!Discard(k)
    BY <1>8 DEF MySQL!Return
  <2> QED
    BY <1>l, <1>u, <1>x, <2>1, <2>2
<1>9. ASSUME NEW k \in Client, MySQL!Check(k) PROVE MySQL!Promise!Next \/ UNCHANGED MySQL!Promise!vars
  <2>1. held[k] \in Conn /\ UNCHANGED <<live, dirty, idle, closed>>
    BY <1>9 DEF MySQL!Check
  <2>2. CASE closed
    BY <1>l, <1>9, <2>1, <2>2 DEF MySQL!Check
  <2>3. CASE ~closed
    <3>1. held' = held
      BY <1>9, <2>3 DEF MySQL!Check
    <3> QED
      BY <1>s, <2>1, <3>1
  <2> QED
    BY <2>2, <2>3
<1>10. ASSUME NEW k \in Client, MySQL!Store(k) PROVE MySQL!Promise!Next \/ UNCHANGED MySQL!Promise!vars
  <2> DEFINE d == held[k]
  <2>1. d \in Conn /\ d \in live /\ d \notin dirty
    BY <1>10 DEF MySQL!Store, MySQLKnows
  <2>2. CASE MySQL!Discard(k)
    BY <1>x, <2>1, <2>2
  <2>3. CASE ~MySQL!Discard(k)
    <3>1. /\ held' = [held EXCEPT ![k] = NoConn] /\ idle' = idle \cup {d}
          /\ UNCHANGED <<live, dirty, closed>>
      BY <1>10, <2>3 DEF MySQL!Store, MySQL!Leave
    <3>2. MySQL!Place' = [MySQL!Place EXCEPT ![d] = MySQL!Place'[d]]
      BY <1>0, <2>1, <3>1, Configuration, OneMoves
    <3>3. MySQL!Place[d] = k /\ MySQL!Place'[d] = Idle
      BY <1>0, <2>1, <3>1 DEF PlaceIsClear
    <3>4. MySQL!Promise!GiveBack(d, k)
      BY <2>1, <3>1, <3>2, <3>3 DEF MySQL!Promise!GiveBack
    <3> QED
      BY <2>1, <3>4 DEF MySQL!Promise!Next
  <2> QED
    BY <2>2, <2>3
<1>11. ASSUME MySQL!Close PROVE MySQL!Promise!Next
  <2>1. MySQL!Place' = MySQL!Place
    BY <1>0, <1>11, NothingMoves DEF MySQL!Close
  <2> QED
    BY <1>11, <2>1 DEF MySQL!Close, MySQL!Promise!Close, MySQL!Promise!Next
<1>12. ASSUME MySQL!Drain PROVE MySQL!Promise!Next \/ UNCHANGED MySQL!Promise!vars
  <2>1. PICK c \in idle : idle' = idle \ {c} /\ live' = live \ {c} /\ dirty' = dirty \ {c}
    BY <1>12 DEF MySQL!Drain
  <2>2. c \in Conn /\ UNCHANGED <<closed, held>>
    BY <1>12, <2>1 DEF MySQL!Drain
  <2> QED
    BY <1>d, <2>1, <2>2
<1>13. CASE MySQL!DrainEnds \/ UNCHANGED MySQL!vars
  <2>1. UNCHANGED <<live, dirty, idle, closed, held>>
    BY <1>13 DEF MySQL!DrainEnds, MySQL!vars
  <2> QED
    BY <1>s, <2>1
<1> QED
  BY <1>1, <1>2, <1>3, <1>4, <1>5, <1>6, <1>7, <1>8, <1>9, <1>10, <1>11, <1>12, <1>13
  DEF MySQL!Next, MySQL!Step

\* MySQLPool implements ConnectionPool.
THEOREM MySQLPromise == MySQL!Spec => MySQL!KeepsPromise
<1>1. MySQL!Init => MySQL!Promise!Init
  BY MySQLInitPromise
<1>2. MySQLInv /\ MySQLInv' /\ [MySQL!Next]_(MySQL!vars) => [MySQL!Promise!Next]_(MySQL!Promise!vars)
  BY MySQLNextPromise
<1> QED
  BY <1>1, <1>2, MySQLInvariance, PTL DEF MySQL!Spec, MySQL!KeepsPromise, MySQL!Promise!Spec

-----------------------------------------------------------------------------
(* DBAPIPool: types and places. *)

\* A pool begins with its first connections in the queue.
LEMMA DBAPIInitShape == DBAPI!Init => DBAPIShape
BY Configuration, SameCardinality
DEF DBAPI!Init, DBAPIShape, DBAPI!TypeOK, DBAPI!Position, OnePlace, DBAPIKnows

\* No step breaks the types, puts a connection in a second place, or takes the
\* room of the one who opens a connection under the lock.
LEMMA DBAPINextShape == DBAPIShape /\ [DBAPI!Next]_(DBAPI!vars) => DBAPIShape'
<1> SUFFICES ASSUME DBAPIShape, [DBAPI!Next]_(DBAPI!vars) PROVE DBAPIShape'
  OBVIOUS
<1> USE Configuration
    DEF DBAPIShape, DBAPI!TypeOK, DBAPI!Position, OnePlace, DBAPIKnows, DBAPI!pool,
        DBAPI!Goto, DBAPI!LetGoTo, DBAPI!Disconnect
<1>1. ASSUME NEW k \in Client, DBAPI!Enter(k) \/ DBAPI!FindNone(k) \/ DBAPI!WaitTimesOut(k)
      PROVE  DBAPIShape'
  BY <1>1 DEF DBAPI!Enter, DBAPI!FindNone, DBAPI!WaitTimesOut
<1>2. ASSUME NEW k \in Client, DBAPI!TakeIdle(k) PROVE DBAPIShape'
  BY <1>2 DEF DBAPI!TakeIdle
<1>3. ASSUME NEW k \in Client, DBAPI!Reserve(k) PROVE DBAPIShape'
  BY <1>3 DEF DBAPI!Reserve
<1>4. ASSUME NEW k \in Client, DBAPI!Open(k) PROVE DBAPIShape'
  <2>1. created + 1 \in 0..Max
    BY <1>4 DEF DBAPI!Open
  <2> QED
    BY <1>4, <2>1 DEF DBAPI!Open
<1>5. ASSUME NEW k \in Client, DBAPI!OpenFails(k) PROVE DBAPIShape'
  BY <1>5 DEF DBAPI!OpenFails
<1>6. ASSUME NEW k \in Client, DBAPI!Work(k) PROVE DBAPIShape'
  BY <1>6 DEF DBAPI!Work
<1>7. ASSUME NEW k \in Client, DBAPI!Release(k) PROVE DBAPIShape'
  BY <1>7 DEF DBAPI!Release
<1>8. ASSUME NEW k \in Client, DBAPI!Store(k) PROVE DBAPIShape'
  BY <1>8 DEF DBAPI!Store
<1>9. ASSUME NEW k \in Client, DBAPI!Uncount(k) PROVE DBAPIShape'
  BY <1>9 DEF DBAPI!Uncount
<1>10. ASSUME DBAPI!Close \/ DBAPI!DrainEnds PROVE DBAPIShape'
  BY <1>10 DEF DBAPI!Close, DBAPI!DrainEnds
<1>11. ASSUME DBAPI!Drain PROVE DBAPIShape'
  BY <1>11 DEF DBAPI!Drain
<1>12. ASSUME DBAPI!Reset PROVE DBAPIShape'
  BY <1>12 DEF DBAPI!Reset
<1>13. CASE UNCHANGED DBAPI!vars
  BY <1>13 DEF DBAPI!vars
<1> QED
  BY <1>1, <1>2, <1>3, <1>4, <1>5, <1>6, <1>7, <1>8, <1>9, <1>10, <1>11, <1>12, <1>13
  DEF DBAPI!Next, DBAPI!Step

-----------------------------------------------------------------------------
(* DBAPIPool: the slots. *)

\* The connections _created counts.
Counted == Cardinality(idle) + Cardinality(Holders) + Cardinality(At("uncounting"))

\* Every open connection is in the queue or with a client.
NoneLeft == \A c \in live : c \in idle \/ \E k \in Client : held[k] = c

\* The counted sets are finite.
LEMMA DBAPIFinite ==
  ASSUME DBAPIShape
  PROVE  /\ IsFiniteSet(idle) /\ IsFiniteSet(Holders) /\ IsFiniteSet(At("uncounting"))
         /\ Cardinality(idle) \in Nat /\ Cardinality(Holders) \in Nat
         /\ Cardinality(At("uncounting")) \in Nat
<1>1. idle \subseteq Conn /\ Holders \subseteq Client /\ At("uncounting") \subseteq Client
  BY DEF DBAPIShape, DBAPI!TypeOK, Holders, At
<1>2. IsFiniteSet(idle) /\ IsFiniteSet(Holders) /\ IsFiniteSet(At("uncounting"))
  BY <1>1, Configuration, FS_Subset
<1> QED
  BY <1>2, FS_CardinalityType

\* The property, with FiniteSets' own Cardinality.
LEMMA DBAPIAccounts ==
  DBAPI!SlotsAreAccountedFor <=> (closed \/ created = Counted) /\ NoneLeft
BY SameCardinality DEF DBAPI!SlotsAreAccountedFor, Counted, Holders, At, NoneLeft

\* A step that counts what it does while the pool is open, does not reopen it
\* and leaves no connection behind keeps it.
LEMMA DBAPIAccountsNext ==
  ASSUME DBAPI!SlotsAreAccountedFor, closed => closed', NoneLeft',
         ~closed' => (created = Counted => created' = Counted')
  PROVE  DBAPI!SlotsAreAccountedFor'
<1>1. DBAPI!SlotsAreAccountedFor' <=> (closed' \/ created' = Counted') /\ NoneLeft'
  BY SameCardinality DEF DBAPI!SlotsAreAccountedFor, Counted, Holders, At, NoneLeft
<1> QED
  BY <1>1, DBAPIAccounts, Zenon

\* In the beginning the first connections are counted.
LEMMA DBAPIInitSlots == DBAPI!Init => DBAPI!SlotsAreAccountedFor
<1> SUFFICES ASSUME DBAPI!Init PROVE created = Counted /\ NoneLeft
  BY DBAPIAccounts, Zenon
<1> USE Configuration DEF DBAPI!Init
<1>1. Holders = {} /\ At("uncounting") = {} /\ NoneLeft
  BY DEF Holders, At, NoneLeft
<1>2. Cardinality({}) = 0 /\ Cardinality(First) \in Nat
  BY FS_EmptySet
<1>3. created = Cardinality(First) /\ idle = First
  BY SameCardinality
<1>4. Counted = Cardinality(First) + Cardinality({}) + Cardinality({})
  BY <1>1, <1>3 DEF Counted
<1>5. created = Counted
  BY <1>2, <1>3, <1>4
<1> QED
  BY <1>1, <1>5

\* Every step counts what it does, and leaves no connection behind.
LEMMA DBAPINextSlots == DBAPIInv /\ [DBAPI!Next]_(DBAPI!vars) => DBAPI!SlotsAreAccountedFor'
<1> SUFFICES ASSUME DBAPIInv, [DBAPI!Next]_(DBAPI!vars) PROVE DBAPI!SlotsAreAccountedFor'
  OBVIOUS
<1>0. /\ DBAPI!SlotsAreAccountedFor /\ NoneLeft /\ created \in Nat
      /\ Cardinality(idle) \in Nat /\ Cardinality(Holders) \in Nat
      /\ Cardinality(At("uncounting")) \in Nat
  BY DBAPIAccounts, DBAPIFinite, Configuration DEF DBAPIInv, DBAPIShape, DBAPI!TypeOK
<1>a. ASSUME Counted' = Counted, NoneLeft', UNCHANGED <<created, closed>>
      PROVE  DBAPI!SlotsAreAccountedFor'
  BY <1>0, <1>a, DBAPIAccountsNext
<1> USE Configuration
    DEF DBAPIInv, DBAPIShape, DBAPI!TypeOK, OnePlace, DBAPI!pool, DBAPI!Goto, DBAPI!LetGoTo,
        DBAPI!Disconnect
<1>1. ASSUME NEW k \in Client,
             DBAPI!Enter(k) \/ DBAPI!FindNone(k) \/ DBAPI!WaitTimesOut(k)
               \/ DBAPI!Reserve(k) \/ DBAPI!OpenFails(k) \/ DBAPI!Work(k)
      PROVE  DBAPI!SlotsAreAccountedFor'
  <2>1. /\ idle' = idle /\ Holders' = Holders /\ At("uncounting")' = At("uncounting")
        /\ NoneLeft' /\ UNCHANGED <<created, closed>>
    BY <1>0, <1>1 DEF DBAPI!Enter, DBAPI!FindNone, DBAPI!WaitTimesOut, DBAPI!Reserve, DBAPI!OpenFails,
                DBAPI!Work, Holders, At, NoneLeft
  <2> QED
    BY <1>a, <2>1 DEF Counted
<1>2. ASSUME NEW k \in Client, DBAPI!TakeIdle(k) PROVE DBAPI!SlotsAreAccountedFor'
  <2>1. PICK c \in idle : idle' = idle \ {c} /\ held' = [held EXCEPT ![k] = c]
    BY <1>2 DEF DBAPI!TakeIdle
  <2>2. k \notin Holders /\ Holders' = Holders \cup {k}
    BY <1>2, <2>1 DEF DBAPI!TakeIdle, Holders
  <2>3. At("uncounting")' = At("uncounting") /\ UNCHANGED <<created, closed>>
    BY <1>2 DEF DBAPI!TakeIdle, At
  <2>4. NoneLeft'
    <3>1. held[k] \notin Conn /\ live' = live
      BY <1>2 DEF DBAPI!TakeIdle
    <3> QED
      BY <1>0, <2>1, <3>1 DEF NoneLeft
  <2>5. /\ Cardinality(idle) = Cardinality(idle') + 1 /\ Cardinality(idle') \in Nat
        /\ Cardinality(Holders') = Cardinality(Holders) + 1
    BY <2>1, <2>2, DBAPIFinite, Sizes
  <2>6. Counted' = Counted
    BY <1>0, <2>3, <2>5 DEF Counted
  <2> QED
    BY <1>a, <2>3, <2>4, <2>6
<1>3. ASSUME NEW k \in Client, DBAPI!Open(k) PROVE DBAPI!SlotsAreAccountedFor'
  <2>1. PICK c \in Conn \ (live \cup idle) :
          live' = live \cup {c} /\ held' = [held EXCEPT ![k] = c]
    BY <1>3 DEF DBAPI!Open
  <2>2. k \notin Holders /\ Holders' = Holders \cup {k}
    BY <1>3, <2>1 DEF DBAPI!Open, Holders
  <2>3. At("uncounting")' = At("uncounting") /\ UNCHANGED <<idle, closed>> /\ created' = created + 1
    BY <1>3 DEF DBAPI!Open, At
  <2>4. NoneLeft'
    <3>1. held[k] \notin Conn
      BY <1>3 DEF DBAPI!Open
    <3> QED
      BY <1>0, <2>1, <2>3, <3>1 DEF NoneLeft
  <2>5. Cardinality(Holders') = Cardinality(Holders) + 1
    BY <2>2, DBAPIFinite, Sizes
  <2>6. created = Counted => created' = Counted'
    BY <1>0, <2>3, <2>5 DEF Counted
  <2> QED
    BY <1>0, <2>3, <2>4, <2>6, DBAPIAccountsNext
<1>d. ASSUME NEW k \in Client, held[k] \in Conn, at[k] # "uncounting",
             DBAPI!Disconnect(held[k]), DBAPI!LetGoTo(k, "uncounting"),
             UNCHANGED <<idle, created, closed>>
      PROVE  DBAPI!SlotsAreAccountedFor'
  <2>1. k \in Holders /\ Holders' = Holders \ {k}
    BY <1>d DEF Holders
  <2>2. k \notin At("uncounting") /\ At("uncounting")' = At("uncounting") \cup {k}
    BY <1>d DEF At
  <2>3. NoneLeft'
    BY <1>0, <1>d DEF NoneLeft
  <2>4. /\ Cardinality(Holders) = Cardinality(Holders') + 1 /\ Cardinality(Holders') \in Nat
        /\ Cardinality(At("uncounting")') = Cardinality(At("uncounting")) + 1
    BY <2>1, <2>2, DBAPIFinite, Sizes
  <2>5. Counted' = Counted
    BY <1>0, <1>d, <2>4 DEF Counted
  <2> QED
    BY <1>a, <1>d, <2>3, <2>5
<1>4. ASSUME NEW k \in Client, DBAPI!Release(k) PROVE DBAPI!SlotsAreAccountedFor'
  <2>0. held[k] \in Conn /\ at[k] # "uncounting"
    BY <1>4 DEF DBAPI!Release
  <2>1. CASE closed
    <3>1. closed' /\ NoneLeft'
      BY <1>0, <1>4, <2>0, <2>1 DEF DBAPI!Release, NoneLeft
    <3> QED
      BY <1>0, <3>1, DBAPIAccountsNext
  <2>2. CASE ~closed /\ at'[k] = "storing"
    <3>1. /\ idle' = idle /\ Holders' = Holders /\ At("uncounting")' = At("uncounting")
          /\ NoneLeft' /\ UNCHANGED <<created, closed>>
      BY <1>0, <1>4, <2>2 DEF DBAPI!Release, Holders, At, NoneLeft
    <3> QED
      BY <1>a, <3>1 DEF Counted
  <2>3. CASE ~closed /\ at'[k] # "storing"
    BY <1>4, <1>d, <2>0, <2>3 DEF DBAPI!Release
  <2> QED
    BY <2>1, <2>2, <2>3
<1>5. ASSUME NEW k \in Client, DBAPI!Store(k) PROVE DBAPI!SlotsAreAccountedFor'
  <2>0. held[k] \in Conn /\ at[k] # "uncounting" /\ UNCHANGED <<created, closed>>
    BY <1>5 DEF DBAPI!Store
  <2>1. CASE DBAPI!Cardinality(idle) < Max
    <3>1. DBAPI!LetGoTo(k, "out") /\ idle' = idle \cup {held[k]} /\ UNCHANGED <<live, dirty>>
      BY <1>5, <2>1 DEF DBAPI!Store
    <3>2. held[k] \notin idle /\ k \in Holders /\ Holders' = Holders \ {k}
      BY <2>0, <3>1 DEF Holders
    <3>3. At("uncounting")' = At("uncounting")
      BY <2>0, <3>1 DEF At
    <3>4. NoneLeft'
      BY <1>0, <2>0, <3>1 DEF NoneLeft
    <3>5. /\ Cardinality(Holders) = Cardinality(Holders') + 1 /\ Cardinality(Holders') \in Nat
          /\ Cardinality(idle') = Cardinality(idle) + 1
      BY <3>1, <3>2, DBAPIFinite, Sizes
    <3>6. Counted' = Counted
      BY <1>0, <3>3, <3>5 DEF Counted
    <3> QED
      BY <1>a, <2>0, <3>4, <3>6
  <2>2. CASE ~(DBAPI!Cardinality(idle) < Max)
    BY <1>5, <1>d, <2>0, <2>2 DEF DBAPI!Store
  <2> QED
    BY <2>1, <2>2
<1>6. ASSUME NEW k \in Client, DBAPI!Uncount(k) PROVE DBAPI!SlotsAreAccountedFor'
  <2>1. /\ idle' = idle /\ Holders' = Holders /\ closed' = closed /\ NoneLeft'
        /\ k \in At("uncounting") /\ At("uncounting")' = At("uncounting") \ {k}
    BY <1>0, <1>6 DEF DBAPI!Uncount, Holders, At, NoneLeft
  <2>2. /\ Cardinality(At("uncounting")) = Cardinality(At("uncounting")') + 1
        /\ Cardinality(At("uncounting")') \in Nat
    BY <2>1, DBAPIFinite, Sizes
  <2>3. created = Counted => created' = Counted'
    BY <1>0, <1>6, <2>1, <2>2 DEF DBAPI!Uncount, Counted
  <2> QED
    BY <1>0, <2>1, <2>3, DBAPIAccountsNext
<1>7. ASSUME DBAPI!Close \/ DBAPI!Drain \/ DBAPI!DrainEnds \/ DBAPI!Reset
      PROVE  DBAPI!SlotsAreAccountedFor'
  <2>1. closed' /\ NoneLeft'
    BY <1>0, <1>7 DEF DBAPI!Close, DBAPI!Drain, DBAPI!DrainEnds, DBAPI!Reset, NoneLeft, DBAPIKnows
  <2> QED
    BY <1>0, <2>1, DBAPIAccountsNext
<1>8. CASE UNCHANGED DBAPI!vars
  <2>1. Counted' = Counted /\ NoneLeft' /\ UNCHANGED <<created, closed>>
    BY <1>0, <1>8 DEF DBAPI!vars, Counted, Holders, At, NoneLeft
  <2> QED
    BY <1>a, <2>1
<1> QED
  BY <1>1, <1>2, <1>3, <1>4, <1>5, <1>6, <1>7, <1>8 DEF DBAPI!Next, DBAPI!Step

\* DBAPIPool's invariant holds in every behaviour.
THEOREM DBAPIInvariance == DBAPI!Spec => []DBAPIInv
<1>1. DBAPI!Init => DBAPIInv
  BY DBAPIInitShape, DBAPIInitSlots DEF DBAPIInv
<1>2. DBAPIInv /\ [DBAPI!Next]_(DBAPI!vars) => DBAPIInv'
  BY DBAPINextShape, DBAPINextSlots DEF DBAPIInv
<1> QED
  BY <1>1, <1>2, PTL DEF DBAPI!Spec

-----------------------------------------------------------------------------
(* DBAPIPool: the promise. *)

\* Its invariant makes places unambiguous, now and in the next state.
LEMMA DBAPIPlaced == (DBAPIShape => Placed) /\ (DBAPIShape' => Placed')
<1>1. DBAPIShape => Placed
  BY DEF DBAPIShape, DBAPI!TypeOK, Placed
<1> QED
  BY <1>1, PTL

\* The two pools make one promise: their refinement mapping is the same.
LEMMA OnePromise ==
  /\ MySQL!Promise!Init <=> DBAPI!Promise!Init
  /\ [MySQL!Promise!Next]_(MySQL!Promise!vars) <=> [DBAPI!Promise!Next]_(DBAPI!Promise!vars)
<1>1. MySQL!Place = DBAPI!Place
  BY DEF MySQL!Place, DBAPI!Place
<1>2. MySQL!Place' = DBAPI!Place'
  BY DEF MySQL!Place, DBAPI!Place
<1>3. \A S : MySQL!Promise!Cardinality(S) = DBAPI!Promise!Cardinality(S)
  BY DEF MySQL!Promise!Cardinality, DBAPI!Promise!Cardinality
<1>4. MySQL!Promise!OpenOnes = DBAPI!Promise!OpenOnes
  BY <1>1 DEF MySQL!Promise!OpenOnes, DBAPI!Promise!OpenOnes
<1>5. MySQL!Promise!Init <=> DBAPI!Promise!Init
  BY <1>1, <1>3, <1>4 DEF MySQL!Promise!Init, DBAPI!Promise!Init
<1>6. ASSUME NEW c, NEW k
      PROVE  /\ MySQL!Promise!Connect(c, k) <=> DBAPI!Promise!Connect(c, k)
             /\ MySQL!Promise!Take(c, k) <=> DBAPI!Promise!Take(c, k)
             /\ MySQL!Promise!Use(c, k) <=> DBAPI!Promise!Use(c, k)
             /\ MySQL!Promise!GiveBack(c, k) <=> DBAPI!Promise!GiveBack(c, k)
             /\ MySQL!Promise!LetGo(c, k) <=> DBAPI!Promise!LetGo(c, k)
             /\ MySQL!Promise!Disconnect(c) <=> DBAPI!Promise!Disconnect(c)
  <2>1. MySQL!Promise!Connect(c, k) <=> DBAPI!Promise!Connect(c, k)
    BY <1>1, <1>2, <1>3, <1>4 DEF MySQL!Promise!Connect, DBAPI!Promise!Connect
  <2>2. MySQL!Promise!Take(c, k) <=> DBAPI!Promise!Take(c, k)
    BY <1>1, <1>2 DEF MySQL!Promise!Take, DBAPI!Promise!Take
  <2>3. MySQL!Promise!Use(c, k) <=> DBAPI!Promise!Use(c, k)
    BY <1>1, <1>2 DEF MySQL!Promise!Use, DBAPI!Promise!Use
  <2>4. MySQL!Promise!GiveBack(c, k) <=> DBAPI!Promise!GiveBack(c, k)
    BY <1>1, <1>2 DEF MySQL!Promise!GiveBack, DBAPI!Promise!GiveBack
  <2>5. MySQL!Promise!LetGo(c, k) <=> DBAPI!Promise!LetGo(c, k)
    BY <1>1, <1>2 DEF MySQL!Promise!LetGo, DBAPI!Promise!LetGo
  <2>6. MySQL!Promise!Disconnect(c) <=> DBAPI!Promise!Disconnect(c)
    BY <1>1, <1>2 DEF MySQL!Promise!Disconnect, DBAPI!Promise!Disconnect
  <2> QED
    BY <2>1, <2>2, <2>3, <2>4, <2>5, <2>6
<1>7. MySQL!Promise!Close <=> DBAPI!Promise!Close
  BY <1>1, <1>2 DEF MySQL!Promise!Close, DBAPI!Promise!Close
<1>8. MySQL!Promise!Next <=> DBAPI!Promise!Next
  BY <1>6, <1>7 DEF MySQL!Promise!Next, DBAPI!Promise!Next
<1>9. (UNCHANGED MySQL!Promise!vars) <=> (UNCHANGED DBAPI!Promise!vars)
  BY <1>1, <1>2 DEF MySQL!Promise!vars, DBAPI!Promise!vars
<1> QED
  BY <1>5, <1>8, <1>9

\* A pool begins within its limit and without transactions.
LEMMA DBAPIInitPromise == DBAPI!Init => MySQL!Promise!Init
<1> SUFFICES ASSUME DBAPI!Init PROVE MySQL!Promise!Init
  OBVIOUS
<1>1. Placed /\ PlaceIsClear
  BY DBAPIInitShape, DBAPIPlaced, PlacesAreClear
<1>2. MySQL!Place \in [Conn -> {None, Idle}]
  <2>1. \A c \in Conn : c \notin live \/ c \in idle
    BY DEF DBAPI!Init
  <2> QED
    BY <1>1, <2>1 DEF PlaceIsClear
<1>3. MySQL!Promise!Cardinality(MySQL!Promise!OpenOnes) <= Max
  BY <1>1, OpenOnesCounted, SameCardinality, Configuration DEF DBAPI!Init
<1> QED
  BY <1>2, <1>3 DEF MySQL!Promise!Init, DBAPI!Init

\* While the pool is open, who opens a connection has room.
LEMMA DBAPIHasRoom ==
  ASSUME DBAPIInv, NEW k \in Client, at[k] = "opening", ~closed
  PROVE  MySQL!Promise!Cardinality(MySQL!Promise!OpenOnes) < Max
<1>1. created = Counted /\ NoneLeft
  BY DBAPIAccounts, Zenon DEF DBAPIInv
<1>2. created \in Nat /\ created < Max /\ Max \in Nat
  BY Configuration DEF DBAPIInv, DBAPIShape, DBAPI!TypeOK, DBAPIKnows
<1>3. MySQL!Orphans = {}
  BY <1>1 DEF NoneLeft, MySQL!Orphans
<1>4. Cardinality(MySQL!Orphans) = 0
  BY <1>3, FS_EmptySet
<1>5. /\ Cardinality(live) <= Cardinality(idle) + Cardinality(Holders) + Cardinality(MySQL!Orphans)
      /\ Cardinality(live) \in Nat /\ Cardinality(idle) \in Nat /\ Cardinality(Holders) \in Nat
      /\ MySQL!Promise!OpenOnes = live
  BY OpenOnesCounted, DBAPIPlaced DEF DBAPIInv
<1>6. Cardinality(At("uncounting")) \in Nat
  BY DBAPIFinite DEF DBAPIInv
<1>7. created = Cardinality(idle) + Cardinality(Holders) + Cardinality(At("uncounting"))
  BY <1>1 DEF Counted
<1>8. Cardinality(live) < Max
  BY <1>2, <1>4, <1>5, <1>6, <1>7
<1> QED
  BY <1>5, <1>8, SameCardinality

\* Every step is one the promise allows, or none of its business.
LEMMA DBAPINextPromise ==
  DBAPIInv /\ DBAPIInv' /\ [DBAPI!Next]_(DBAPI!vars) => [MySQL!Promise!Next]_(MySQL!Promise!vars)
<1> SUFFICES ASSUME DBAPIInv, DBAPIInv', [DBAPI!Next]_(DBAPI!vars)
             PROVE  MySQL!Promise!Next \/ UNCHANGED MySQL!Promise!vars
  OBVIOUS
<1>0. Placed /\ Placed' /\ PlaceIsClear /\ PlaceIsClear'
  BY DBAPIPlaced, PlacesAreClear, PlacesStayClear DEF DBAPIInv
<1>s. ASSUME UNCHANGED <<live, dirty, idle, closed, held>> PROVE UNCHANGED MySQL!Promise!vars
  BY <1>0, <1>s, NothingMoves DEF MySQL!Promise!vars
<1>u. ASSUME NEW k \in Client, held[k] \in live, UNCHANGED <<live, idle, held, closed>>,
             dirty' \in {dirty \cup {held[k]}, dirty \ {held[k]}}
      PROVE  MySQL!Promise!Next
  BY <1>0, <1>u, Uses
<1>d. ASSUME NEW d \in Conn, DBAPI!Disconnect(d), idle' = idle \ {d}, closed' = closed,
             \A c \in Conn \ {d} : \A k \in Client : held'[k] = c <=> held[k] = c
      PROVE  MySQL!Promise!Next \/ UNCHANGED MySQL!Promise!vars
  <2>1. dirty \subseteq live /\ live' = live \ {d} /\ dirty' = dirty \ {d}
    BY <1>d DEF DBAPIInv, DBAPIShape, DBAPI!TypeOK, DBAPI!Disconnect
  <2>2. MySQL!Promise!Disconnect(d) \/ UNCHANGED MySQL!Promise!vars
    BY <1>0, <1>d, <2>1, Disconnects
  <2> QED
    BY <2>2 DEF MySQL!Promise!Next
<1>l. ASSUME NEW k \in Client, NEW position, held[k] \in Conn, DBAPI!LetGoTo(k, position)
      PROVE  /\ idle = idle \ {held[k]} /\ held' = [held EXCEPT ![k] = NoConn]
             /\ \A c \in Conn \ {held[k]} : \A j \in Client : held'[j] = c <=> held[j] = c
  BY <1>l, Configuration DEF DBAPI!LetGoTo, DBAPIInv, DBAPIShape, DBAPI!TypeOK, OnePlace
<1> USE DEF DBAPIInv, DBAPIShape, DBAPI!TypeOK, DBAPI!pool, DBAPI!Goto
<1>1. ASSUME NEW k \in Client,
             DBAPI!Enter(k) \/ DBAPI!FindNone(k) \/ DBAPI!Reserve(k) \/ DBAPI!OpenFails(k)
               \/ DBAPI!WaitTimesOut(k) \/ DBAPI!Uncount(k)
      PROVE  UNCHANGED MySQL!Promise!vars
  <2>1. UNCHANGED <<live, dirty, idle, closed, held>>
    BY <1>1 DEF DBAPI!Enter, DBAPI!FindNone, DBAPI!Reserve, DBAPI!OpenFails, DBAPI!WaitTimesOut,
                DBAPI!Uncount
  <2> QED
    BY <1>s, <2>1
<1>2. ASSUME NEW k \in Client, DBAPI!TakeIdle(k) PROVE MySQL!Promise!Next
  <2>1. PICK c \in idle : idle' = idle \ {c} /\ held' = [held EXCEPT ![k] = c]
    BY <1>2 DEF DBAPI!TakeIdle
  <2>2. UNCHANGED <<live, dirty, closed>> /\ c \in Conn /\ held[k] \notin Conn
    BY <1>2, <2>1 DEF DBAPI!TakeIdle
  <2>3. MySQL!Place' = [MySQL!Place EXCEPT ![c] = MySQL!Place'[c]]
    BY <1>0, <2>1, <2>2, OneMoves
  <2>4. MySQL!Place[c] = Idle /\ MySQL!Place'[c] = k
    BY <1>0, <2>1, <2>2 DEF PlaceIsClear, Placed
  <2>5. MySQL!Promise!Take(c, k)
    BY <2>2, <2>3, <2>4 DEF MySQL!Promise!Take
  <2> QED
    BY <2>2, <2>5 DEF MySQL!Promise!Next
<1>3. ASSUME NEW k \in Client, DBAPI!Open(k) PROVE MySQL!Promise!Next
  <2>1. PICK c \in Conn \ (live \cup idle) :
          /\ \A j \in Client : held[j] # c
          /\ live' = live \cup {c}
          /\ held' = [held EXCEPT ![k] = c]
    BY <1>3 DEF DBAPI!Open
  <2>2. UNCHANGED <<idle, dirty, closed>> /\ held[k] \notin Conn
    BY <1>3 DEF DBAPI!Open
  <2>3. MySQL!Place' = [MySQL!Place EXCEPT ![c] = MySQL!Place'[c]]
    BY <1>0, <2>1, <2>2, OneMoves
  <2>4. MySQL!Place[c] = None /\ MySQL!Place'[c] = k
    BY <1>0, <2>1, <2>2 DEF PlaceIsClear, Placed
  <2>5. closed \/ MySQL!Promise!Cardinality(MySQL!Promise!OpenOnes) < Max
    BY <1>3, DBAPIHasRoom DEF DBAPI!Open
  <2>6. MySQL!Promise!Connect(c, k)
    BY <2>2, <2>3, <2>4, <2>5 DEF MySQL!Promise!Connect
  <2> QED
    BY <2>6 DEF MySQL!Promise!Next
<1>4. ASSUME NEW k \in Client, DBAPI!Work(k) PROVE MySQL!Promise!Next \/ UNCHANGED MySQL!Promise!vars
  <2>1. held[k] \in Conn /\ idle' = idle \ {held[k]} /\ UNCHANGED <<idle, closed, held>>
    BY <1>4 DEF DBAPI!Work, OnePlace
  <2>2. \/ /\ held[k] \in live /\ live' = live
           /\ dirty' \in {dirty \cup {held[k]}, dirty \ {held[k]}}
        \/ DBAPI!Disconnect(held[k])
    BY <1>4 DEF DBAPI!Work
  <2> QED
    BY <1>u, <1>d, <2>1, <2>2
<1>5. ASSUME NEW k \in Client, DBAPI!Release(k) PROVE MySQL!Promise!Next \/ UNCHANGED MySQL!Promise!vars
  <2>1. held[k] \in Conn /\ UNCHANGED <<idle, closed>>
    BY <1>5 DEF DBAPI!Release
  <2>2. \/ /\ held[k] \in live /\ dirty' = dirty \ {held[k]} /\ UNCHANGED <<live, held>>
        \/ DBAPI!Disconnect(held[k]) /\ \E position \in DBAPI!Position : DBAPI!LetGoTo(k, position)
    BY <1>5 DEF DBAPI!Release, DBAPI!Position
  <2> QED
    BY <1>u, <1>d, <1>l, <2>1, <2>2
<1>6. ASSUME NEW k \in Client, DBAPI!Store(k) PROVE MySQL!Promise!Next \/ UNCHANGED MySQL!Promise!vars
  <2> DEFINE d == held[k]
  <2>1. d \in Conn /\ d \in live /\ d \notin dirty /\ closed' = closed
    BY <1>6 DEF DBAPI!Store, DBAPIKnows
  <2>2. CASE DBAPI!Cardinality(idle) < Max
    <3>1. DBAPI!LetGoTo(k, "out") /\ idle' = idle \cup {d} /\ UNCHANGED <<live, dirty>>
      BY <1>6, <2>2 DEF DBAPI!Store
    <3>2. MySQL!Place' = [MySQL!Place EXCEPT ![d] = MySQL!Place'[d]]
      BY <1>0, <1>l, <2>1, <3>1, OneMoves
    <3>3. MySQL!Place[d] = k /\ MySQL!Place'[d] = Idle
      BY <1>0, <2>1, <3>1 DEF PlaceIsClear
    <3>4. MySQL!Promise!GiveBack(d, k)
      BY <2>1, <3>1, <3>2, <3>3 DEF MySQL!Promise!GiveBack
    <3> QED
      BY <2>1, <3>4 DEF MySQL!Promise!Next
  <2>3. CASE ~(DBAPI!Cardinality(idle) < Max)
    <3>1. DBAPI!LetGoTo(k, "uncounting") /\ DBAPI!Disconnect(d) /\ idle' = idle
      BY <1>6, <2>3 DEF DBAPI!Store
    <3> QED
      BY <1>d, <1>l, <2>1, <3>1
  <2> QED
    BY <2>2, <2>3
<1>7. ASSUME DBAPI!Close PROVE MySQL!Promise!Next
  <2>1. MySQL!Place' = MySQL!Place
    BY <1>0, <1>7, NothingMoves DEF DBAPI!Close
  <2> QED
    BY <1>7, <2>1 DEF DBAPI!Close, MySQL!Promise!Close, MySQL!Promise!Next
<1>8. ASSUME DBAPI!Drain PROVE MySQL!Promise!Next \/ UNCHANGED MySQL!Promise!vars
  <2>1. PICK c \in idle : idle' = idle \ {c} /\ DBAPI!Disconnect(c)
    BY <1>8 DEF DBAPI!Drain
  <2>2. c \in Conn /\ UNCHANGED <<closed, held>>
    BY <1>8, <2>1 DEF DBAPI!Drain
  <2> QED
    BY <1>d, <2>1, <2>2
<1>9. CASE DBAPI!DrainEnds \/ DBAPI!Reset \/ UNCHANGED DBAPI!vars
  <2>1. UNCHANGED <<live, dirty, idle, closed, held>>
    BY <1>9 DEF DBAPI!DrainEnds, DBAPI!Reset, DBAPI!vars
  <2> QED
    BY <1>s, <2>1
<1> QED
  BY <1>1, <1>2, <1>3, <1>4, <1>5, <1>6, <1>7, <1>8, <1>9 DEF DBAPI!Next, DBAPI!Step

\* DBAPIPool keeps the promise in MySQLPool's words.
LEMMA DBAPIPromises == DBAPI!Spec => MySQL!Promise!Spec
<1>1. DBAPIInv /\ DBAPIInv' /\ [DBAPI!Next]_(DBAPI!vars) => [MySQL!Promise!Next]_(MySQL!Promise!vars)
  BY DBAPINextPromise
<1> QED
  BY <1>1, DBAPIInitPromise, DBAPIInvariance, PTL DEF DBAPI!Spec, MySQL!Promise!Spec

\* DBAPIPool implements ConnectionPool.
THEOREM DBAPIPromise == DBAPI!Spec => DBAPI!KeepsPromise
BY DBAPIPromises, OnePromise, PTL DEF DBAPI!KeepsPromise, DBAPI!Promise!Spec, MySQL!Promise!Spec

-----------------------------------------------------------------------------
(* What the promise is worth. *)

\* An open pool has at most Max connections open, and none that waits in it
\* has a transaction in it.
PromiseInv ==
  /\ closed \/ Cardinality(MySQL!Promise!OpenOnes) <= Max
  /\ \A c \in Conn : MySQL!Place[c] = Idle => c \notin dirty

\* The promise implies it, whatever pool makes it.
LEMMA PromiseInvariance == MySQL!Promise!Spec => []PromiseInv
<1> USE Configuration
<1>0. DOMAIN MySQL!Place = Conn /\ DOMAIN MySQL!Place' = Conn
  BY DEF MySQL!Place
<1>1. MySQL!Promise!Init => PromiseInv
  BY SameCardinality DEF MySQL!Promise!Init, PromiseInv
<1>2. ASSUME PromiseInv, [MySQL!Promise!Next]_(MySQL!Promise!vars) PROVE PromiseInv'
  <2> DEFINE Opened == MySQL!Promise!OpenOnes
  <2>1. IsFiniteSet(Opened)
    <3>1. Opened \subseteq Conn
      BY DEF MySQL!Promise!OpenOnes
    <3> QED
      BY <3>1, FS_Subset
  <2>2. Opened = {c \in Conn : MySQL!Place[c] # None} /\ Opened' = {c \in Conn : MySQL!Place'[c] # None}
    BY DEF MySQL!Promise!OpenOnes
  <2>3. ASSUME Opened' \subseteq Opened, closed => closed',
               \A c \in Conn : MySQL!Place'[c] = Idle => c \notin dirty'
        PROVE  PromiseInv'
    <3>1. /\ Cardinality(Opened') <= Cardinality(Opened)
          /\ Cardinality(Opened') \in Nat /\ Cardinality(Opened) \in Nat
      BY <2>1, <2>3, FS_Subset, FS_CardinalityType
    <3>2. Cardinality(Opened) <= Max => Cardinality(Opened') <= Max
      BY <3>1
    <3> QED
      BY <1>2, <2>3, <3>2, Zenon DEF PromiseInv
  <2>4. ASSUME NEW c \in Conn, NEW k \in Client, MySQL!Promise!Connect(c, k) PROVE PromiseInv'
    <3>1. /\ MySQL!Place[c] = None /\ MySQL!Place' = [MySQL!Place EXCEPT ![c] = k]
          /\ dirty' = dirty /\ closed' = closed
          /\ closed \/ MySQL!Promise!Cardinality(Opened) < Max
      BY <2>4 DEF MySQL!Promise!Connect
    <3>2. c \notin Opened /\ Opened' = Opened \cup {c}
      BY <1>0, <2>2, <3>1
    <3>3. Cardinality(Opened') = Cardinality(Opened) + 1 /\ Cardinality(Opened) \in Nat
      BY <2>1, <3>2, Sizes
    <3>4. MySQL!Promise!Cardinality(Opened) < Max => Cardinality(Opened') <= Max
      BY <3>3, SameCardinality
    <3>5. \A d \in Conn : MySQL!Place'[d] = Idle => d \notin dirty'
      BY <1>0, <1>2, <3>1 DEF PromiseInv
    <3> QED
      BY <3>1, <3>4, <3>5, Zenon DEF PromiseInv
  <2>5. ASSUME NEW c \in Conn, NEW k \in Client,
               \/ MySQL!Promise!Take(c, k) \/ MySQL!Promise!Use(c, k)
               \/ MySQL!Promise!GiveBack(c, k) \/ MySQL!Promise!LetGo(c, k)
        PROVE  PromiseInv'
    <3>1. closed' = closed
      BY <2>5 DEF MySQL!Promise!Take, MySQL!Promise!Use, MySQL!Promise!GiveBack, MySQL!Promise!LetGo
    <3>2. MySQL!Place[c] # None
      BY <2>5
      DEF MySQL!Promise!Take, MySQL!Promise!Use, MySQL!Promise!GiveBack, MySQL!Promise!LetGo
    <3>3. Opened' \subseteq Opened
      BY <1>0, <2>2, <2>5, <3>2
      DEF MySQL!Promise!Take, MySQL!Promise!Use, MySQL!Promise!GiveBack, MySQL!Promise!LetGo
    <3>4. \A d \in Conn : MySQL!Place'[d] = Idle => d \notin dirty'
      BY <1>0, <1>2, <2>5
      DEF PromiseInv, MySQL!Promise!Take, MySQL!Promise!Use, MySQL!Promise!GiveBack, MySQL!Promise!LetGo
    <3> QED
      BY <2>3, <3>1, <3>3, <3>4
  <2>6. ASSUME NEW c \in Conn, MySQL!Promise!Disconnect(c) PROVE PromiseInv'
    <3>1. closed' = closed /\ Opened' \subseteq Opened
      BY <1>0, <2>2, <2>6 DEF MySQL!Promise!Disconnect
    <3>2. \A d \in Conn : MySQL!Place'[d] = Idle => d \notin dirty'
      BY <1>0, <1>2, <2>6 DEF PromiseInv, MySQL!Promise!Disconnect
    <3> QED
      BY <2>3, <3>1, <3>2
  <2>7. CASE MySQL!Promise!Close \/ UNCHANGED MySQL!Promise!vars
    <3>1. /\ closed => closed'
          /\ MySQL!Place' = MySQL!Place /\ dirty' = dirty
      BY <2>7 DEF MySQL!Promise!Close, MySQL!Promise!vars
    <3>2. Opened' \subseteq Opened
      BY <2>2, <3>1
    <3>3. \A d \in Conn : MySQL!Place'[d] = Idle => d \notin dirty'
      BY <1>2, <3>1 DEF PromiseInv
    <3> QED
      BY <2>3, <3>1, <3>2, <3>3
  <2> QED
    BY <1>2, <2>4, <2>5, <2>6, <2>7 DEF MySQL!Promise!Next
<1> QED
  BY <1>1, <1>2, PTL DEF MySQL!Promise!Spec

\* What it means for the connections themselves.
LEMMA PromiseMeans ==
  Placed /\ PromiseInv => (closed \/ Cardinality(live) <= Max) /\ idle \cap dirty = {}
<1> SUFFICES ASSUME Placed, PromiseInv
             PROVE  (closed \/ Cardinality(live) <= Max) /\ idle \cap dirty = {}
  OBVIOUS
<1>1. closed \/ Cardinality(live) <= Max
  BY OpenOnesCounted, Zenon DEF PromiseInv
<1>2. idle \cap dirty = {}
  BY PlacesAreClear DEF PromiseInv, PlaceIsClear, Placed
<1> QED
  BY <1>1, <1>2

\* The business database never has more connections of a process open than
\* max_size, close() or not, and who takes one from the queue finds no
\* transaction of another in it.
THEOREM MySQLIsSafe == MySQL!Spec => [](Cardinality(live) <= Max /\ idle \cap dirty = {})
<1>1. MySQLInv => Cardinality(live) <= Max
  <2> SUFFICES ASSUME MySQLInv PROVE Cardinality(live) <= Max
    OBVIOUS
  <2>1. created >= InUse
    BY MySQLAccounts DEF MySQLInv
  <2>2. created \in 0..Max /\ Max \in Nat
    BY Configuration DEF MySQLInv, MySQLShape, MySQL!TypeOK
  <2>3. /\ Cardinality(live) <= Cardinality(idle) + Cardinality(Holders) + Cardinality(MySQL!Orphans)
        /\ Cardinality(live) \in Nat /\ Cardinality(idle) \in Nat
        /\ Cardinality(Holders) \in Nat /\ Cardinality(MySQL!Orphans) \in Nat
    BY OpenOnesCounted, MySQLPlaced DEF MySQLInv
  <2>4. Cardinality(At("connecting")) \in Nat
    BY MySQLFinite DEF MySQLInv
  <2>5. created >= Cardinality(idle) + Cardinality(Holders) + Cardinality(At("connecting"))
                     + Cardinality(MySQL!Orphans)
    BY <2>1 DEF InUse
  <2> QED
    BY <2>2, <2>3, <2>4, <2>5
<1>2. MySQLInv => Placed
  BY MySQLPlaced DEF MySQLInv
<1> QED
  BY <1>1, <1>2, MySQLInvariance, MySQLPromise, PromiseInvariance, PromiseMeans, PTL
  DEF MySQL!KeepsPromise

\* The same for the warehouses, whose pool forgets at close() how many of its
\* connections are out.
THEOREM DBAPIIsSafe ==
  DBAPI!Spec => []((closed \/ Cardinality(live) <= Max) /\ idle \cap dirty = {})
<1>1. DBAPIInv => Placed
  BY DBAPIPlaced DEF DBAPIInv
<1> QED
  BY <1>1, DBAPIInvariance, DBAPIPromises, PromiseInvariance, PromiseMeans, PTL

-----------------------------------------------------------------------------
(* The three pools side by side. *)

\* What runs is one of the connection pools, beside the handlers' pool.
LEMMA OneRuns ==
  /\ MCSpec => Spec
  /\ MCSpec /\ which = "dbapi" => DBAPI!Spec /\ [](which = "dbapi")
  /\ MCSpec /\ which # "dbapi" => MySQL!Spec /\ [](which # "dbapi")
<1>1. MCInit => Init /\ MySQL!Init /\ DBAPI!Init
  BY DEF MCInit
<1>2. [MCNext]_mcVars => [Next]_vars /\ which' = which
  BY DEF MCNext, MySQLRuns, mcVars, vars
<1>3. which = "dbapi" /\ [MCNext]_mcVars => [DBAPI!Next]_(DBAPI!vars)
  BY DEF MCNext, MySQLRuns, mcVars, shared, DBAPI!vars, DBAPI!pool
<1>4. which # "dbapi" /\ [MCNext]_mcVars => [MySQL!Next]_(MySQL!vars)
  BY DEF MCNext, MySQLRuns, mcVars, shared, MySQL!vars, MySQL!pool
<1>5. MCSpec => Spec
  BY <1>1, <1>2, PTL DEF MCSpec, Spec
<1>6. MCSpec /\ which = "dbapi" => DBAPI!Spec /\ [](which = "dbapi")
  <2>1. which = "dbapi" /\ which' = which => (which = "dbapi")'
    OBVIOUS
  <2> QED
    BY <1>1, <1>2, <1>3, <2>1, PTL DEF MCSpec, DBAPI!Spec
<1>7. MCSpec /\ which # "dbapi" => MySQL!Spec /\ [](which # "dbapi")
  <2>1. which # "dbapi" /\ which' = which => (which # "dbapi")'
    OBVIOUS
  <2> QED
    BY <1>1, <1>2, <1>4, <2>1, PTL DEF MCSpec, MySQL!Spec
<1> QED
  BY <1>5, <1>6, <1>7

\* Every reachable state of each pool is well-typed.
THEOREM PoolTypesHold == MCSpec => []PoolTypes
<1>0. which = "dbapi" \/ which # "dbapi"
  OBVIOUS
<1>1. TypeOK /\ which = "dbapi" /\ DBAPIInv => PoolTypes
  BY DEF PoolTypes, DBAPIInv, DBAPIShape
<1>2. TypeOK /\ which # "dbapi" /\ MySQLInv => PoolTypes
  BY DEF PoolTypes, MySQLInv, MySQLShape
<1> QED
  BY <1>0, <1>1, <1>2, OneRuns, TypeCorrect, DBAPIInvariance, MySQLInvariance, PTL

\* _created counts every connection once: no slot of either connection pool is
\* lost and none is given out twice, whatever fails.
THEOREM SlotsAccountedFor == MCSpec => []SlotsAreAccountedFor
<1>0. which = "dbapi" \/ which # "dbapi"
  OBVIOUS
<1>1. which = "dbapi" /\ DBAPIInv => SlotsAreAccountedFor
  BY DEF SlotsAreAccountedFor, DBAPIInv
<1>2. which # "dbapi" /\ MySQLInv => SlotsAreAccountedFor
  BY DEF SlotsAreAccountedFor, MySQLInv
<1> QED
  BY <1>0, <1>1, <1>2, OneRuns, DBAPIInvariance, MySQLInvariance, PTL

\* Both connection pools implement ConnectionPool.
THEOREM PromiseKept == MCSpec => KeepsPromise
<1>0. which = "dbapi" \/ which # "dbapi"
  OBVIOUS
<1> QED
  BY <1>0, OneRuns, DBAPIPromises, MySQLPromise, PTL DEF KeepsPromise, MySQL!KeepsPromise
=============================================================================
