SPECIFICATION Spec
CONSTANTS
  Values = {1, 2, 3, 4, 5, 6, 7}
  None = None
  head = head
  MaxSurplus = 1
INVARIANT SizeCountsValues
