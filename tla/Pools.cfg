CONSTANTS
  Conn = {c1, c2, c3, c4}
  Client = {k1, k2, k3}
  Max = 2
  First = {c1}
  NoConn = NoConn
  Nobody = Nobody
  None = None
  Idle = Idle
  Outside = Outside
  Run = {r1, r2}
  Slots = 2
  MaxSubmits = 4
SPECIFICATION MCSpec
INVARIANTS PoolTypes SlotsAreAccountedFor AbandonedFitInPool
PROPERTIES KeepsPromise ClientsComeOut NoLateBeginning
CHECK_DEADLOCK FALSE
