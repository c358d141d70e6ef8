SPECIFICATION Spec
CONSTANTS
  first = first
  later = later
  other = other
  worker = worker
  Threads <- TheThreads
  thread_id <- TheirIds
  Allocators <- Owners
  block_count = 3
  PageBlocks = 2
  MaxSpans = 2
SYMMETRY Alike
INVARIANTS BlocksInOnePlace SpansInOnePlace NothingStranded
