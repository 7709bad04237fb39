SPECIFICATION JwtSpec
CONSTANTS
  Keys = {k1, k2}
  Expires = {0, 1, 3}
  MaxAges <- MCMaxAges
  Tick = 2
  Hour = 2
  Half = 4
  None = None
  MaxTime = 9
  MaxTokens = 2
INVARIANTS
  EndsWithFirst
  AgeBounded
  UsableAtOnce
\* The clock of the instance stops.
CHECK_DEADLOCK FALSE
