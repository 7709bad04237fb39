CONSTANTS
  Methods = {"GET", "POST", "PUT"}
  Requests <- MCRequests
  Templates <- MCTemplates
  MaxPieces = 5
  MaxRequests = 1
  MaxRoutes = 1
SPECIFICATION Spec
INVARIANT FragmentsJoined
\* The requests of the connection end.
CHECK_DEADLOCK FALSE
