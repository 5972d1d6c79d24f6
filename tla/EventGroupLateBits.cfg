SPECIFICATION Spec
CONSTANTS
  Waiters = {w1, w2}
  Setters = {s1}
  Bits = {b1, b2}
  Masks = {{b1}, {b2}}
  NoCall = NoCall
  NoThread = NoThread
INVARIANT
  AutoClearClears
