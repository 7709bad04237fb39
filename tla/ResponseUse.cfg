SPECIFICATION Spec
CONSTANTS
  Strings <- MCStrings
  Files <- MCFiles
  Statuses = {404}
  MaxSends = 2
INVARIANTS
  MemoryCauses
  LeakCauses
  AnswersAsked
  ToldCauses
PROPERTY Implements
\* An answer that was sent is the end of it.
CHECK_DEADLOCK FALSE
