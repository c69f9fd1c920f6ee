CONSTANTS
  Paths = {"a", "b"}
  Hashes = {"v1", "v2", "broken"}
  Requests <- MCRequests
  Panes = {"p"}
  Names = {"n"}
  Nil = Nil
  MaxId = 5
  MaxTimer = 1
  Scopes = {"filter", "surface", "names", "load", "net", "files"}
  SelfUnload = FALSE
  MaxCalls <- MCCalls
  MaxEvents <- MCEvents
SPECIFICATION Spec
CHECK_DEADLOCK FALSE
INVARIANTS FiltersNeverSkipped NothingOutlivesItsOwner
PROPERTIES AsksFirst TerminationComes
