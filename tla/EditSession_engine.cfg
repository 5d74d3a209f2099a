\* The engine leg: no save is forgotten and every standing save lands.
CONSTANTS
  Callers = {c1}
  Editors = {e1}
  Verbs = {"push", "stop", "discard"}
  Leg = "remote"
  LostAnswers = TRUE
  Retires = TRUE
  MaxSessions = 1
  MaxSaves = 2
  MaxForeign = 1
SPECIFICATION FairSpec
CHECK_DEADLOCK FALSE
INVARIANTS NothingForgotten StopSavesFirst
 
