SPECIFICATION Spec
CONSTANTS
  f1 = f1
  Files = {f1}
  MaxEdits = 2
  EventsPerRead = 2
  StaleLibs = {}
  KillableCompiler = FALSE
INVARIANT GameSurvivesReload
