SPECIFICATION FairSpec
CONSTANTS
  Senders = {s1}
  Receivers = {r1}
  Resetters = {z1}
  Observers = {}
  Items = {a}
  None = None
  Capacity = 1
PROPERTY
  ResetReturns
CHECK_DEADLOCK FALSE
