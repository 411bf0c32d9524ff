CONSTANTS
  Messages = {m1}
  Askers = {"main", "helper"}
  MaxSessions = 2
SPECIFICATION Spec
PROPERTIES QueuedIsTaken QuitSaysSo
CHECK_DEADLOCK FALSE
