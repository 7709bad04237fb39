CONSTANTS
  Methods = {"GET", "POST", "PUT"}
  Requests <- MCRequests
  Templates <- MCTemplates
  MaxPieces = 5
  MaxRequests = 2
  MaxRoutes = 2
SPECIFICATION Spec
INVARIANTS WholeIsFaithful QueryFresh ParamsAllButLast
\* The requests of the connection end.
CHECK_DEADLOCK FALSE
