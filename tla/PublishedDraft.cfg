CONSTANTS
  User = {u1, u2}
  NoUser = NoUser
  Skill = {k1, k2}
  Topic = {}
  Experience = {}
  Code = {}
  NoCode = NoCode
  NoEntry = NoEntry
  MaxVersions = 3
  MaxBegun = 3
SPECIFICATION AssetSpec
INVARIANT OnlyActiveIsServed
CHECK_DEADLOCK FALSE
