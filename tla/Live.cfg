SPECIFICATION LiveSpec
CONSTANTS
  part_names = {"handles", "thread", "queue"}
  None = None
  INT_MAX = 4
  Objects = {x1, x2}
  Ids = {i1, i2}
  Senders = {s1, s2}
  Receivers = {r1, r2}
  Resetters = {}
  Observers = {o1}
  Items = {a}
  Capacity = 1
INVARIANTS
  HandleIsUnused NoneOnlyWhenFull OldestFirst
  NothingIsLeftBehind
PROPERTIES
  CallReturns JoinReturns NoLostWakeup
