------------------------------ MODULE MCPools ------------------------------
(***************************************************************************)
(* The three pools of the backend for one run of TLC: every behaviour is   *)
(* one of the pool `which` names.  The two connection pools share the      *)
(* names of their variables, and so share the variables.                   *)
(***************************************************************************)
EXTENDS HandlerPool

CONSTANTS Conn, Client, Max, First, NoConn, Nobody, None, Idle, Outside

VARIABLES which,
          live, dirty, idle, created, closed, at, held,   \* both connection pools
          draining,                                       \* MySQLPool
          lock, closing                                   \* DBAPIPool

MySQL == INSTANCE MySQLPool WITH pc <- at
DBAPI == INSTANCE DBAPIPool WITH pc <- at

ASSUME PoolsAssumption == MySQL!ConstantsAssumption /\ DBAPI!ConstantsAssumption

shared == <<live, dirty, idle, created, closed, at, held>>
mcVars == <<which, shared, draining, lock, closing, vars>>

MCInit ==
  /\ which \in {"mysql", "dbapi", "handlers"}
  /\ MySQL!Init
  /\ DBAPI!Init
  /\ Init

MySQLRuns(A) == which = "mysql" /\ A /\ UNCHANGED <<which, lock, closing, vars>>

MCNext ==
  \/ MySQLRuns(MySQL!Next)
  \/ which = "dbapi" /\ DBAPI!Next /\ UNCHANGED <<which, draining, vars>>
  \/ which = "handlers" /\ Next /\ UNCHANGED <<which, shared, draining, lock, closing>>

\* The fairness of MySQLPool.
MCSpec == MCInit /\ [][MCNext]_mcVars /\ \A k \in Client : WF_mcVars(MySQLRuns(MySQL!Step(k)))

\* TypeOK of HandlerPool and of the connection pool at work.
PoolTypes == TypeOK /\ IF which = "dbapi" THEN DBAPI!TypeOK ELSE MySQL!TypeOK

\* The properties of the connection pools, under the names they have there.
SlotsAreAccountedFor ==
  IF which = "dbapi" THEN DBAPI!SlotsAreAccountedFor ELSE MySQL!SlotsAreAccountedFor
KeepsPromise == MySQL!KeepsPromise
ClientsComeOut == which = "mysql" => MySQL!ClientsComeOut
=============================================================================
