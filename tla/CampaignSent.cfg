SPECIFICATION Spec
CONSTANTS
  p1 = p1
  p2 = p2
  p3 = p3
  Partners = {p1, p2, p3}
  NoNumber = {p3}
  Limit = 2
  MaxUser = 1
  MaxHook = 1
  MaxCrash = 0
INVARIANT
  SentIsTracked
CHECK_DEADLOCK FALSE
