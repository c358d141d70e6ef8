SPECIFICATION Spec
CONSTANTS
  f1 = f1
  Files = {f1}
  MaxEdits = 3
  EventsPerRead = 2
  StaleLibs <- OneStaleLib
  KillableCompiler = TRUE
INVARIANT ReloadIsFresh
