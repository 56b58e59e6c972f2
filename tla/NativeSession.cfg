SPECIFICATION Spec
CONSTANTS
  Requests = {r1, r2}
  NONE = NONE
  MaxRounds = 2
  MaxCrashes = 1
SYMMETRY Symmetry
INVARIANTS
  AnswersAreTrue
  DirectoriesStay
  NoFalseAlarm
CHECK_DEADLOCK FALSE
