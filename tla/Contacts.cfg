SPECIFICATION Spec
CONSTANTS
  p = p
  None = None
  People = {p}
  Names = {"A", "B"}
  Book <- MCBook
  OnlyNamed = TRUE
  PageSize = 2
  MaxPartners = 3
  MaxHooks = 2
  MaxSyncs = 2
  MaxEdits = 3
INVARIANTS
  OnePartner
  NamesKept
CHECK_DEADLOCK FALSE
