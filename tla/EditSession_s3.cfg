\* The S3 leg: the watcher beside a push or a stop, foreign
\* writes, lost answers and the removal timer, over two sessions of a file.
CONSTANTS
  Callers = {c1}
  Editors = {e1}
  Verbs = {"push", "stop"}
  Leg = "s3"
  LostAnswers = TRUE
  Retires = TRUE
  MaxSessions = 2
  MaxSaves = 2
  MaxForeign = 1
SPECIFICATION Spec
CHECK_DEADLOCK FALSE
INVARIANTS EndedStopsPushing
PROPERTIES NoLostUpdate NeverBackwards
