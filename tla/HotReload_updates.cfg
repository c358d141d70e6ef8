SPECIFICATION FairSpec
CONSTANTS
  f1 = f1
  f2 = f2
  Files = {f1, f2}
  MaxEdits = 4
  EventsPerRead = 2
  StaleLibs <- OneStaleLib
  KillableCompiler = FALSE
INVARIANTS TickCodeMapped NoLeakedLibrary NoLostEdit ReloadIsFresh
PROPERTIES ImplementsCodeSwap NewCodeRuns EditsGetCompiled
