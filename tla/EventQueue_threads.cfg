SPECIFICATION FairSpec
CONSTANTS
  busy = busy
  brief = brief
  Threads <- Emitters
  Quota <- SevenAndOne
  BLOCK_SIZE = 2
  IndexSize = 2
  BulkLimit = 2
INVARIANTS NothingOverwritten NobodyStarves
PROPERTIES EventsInOrder EventsKeepTheirThread EventsArrive
