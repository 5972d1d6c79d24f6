SPECIFICATION Spec
CONSTANTS
  Objects = {x1, x2}
  Ids = {i1, i2}
  None = None
INVARIANT TerminatedThreadIsGone
