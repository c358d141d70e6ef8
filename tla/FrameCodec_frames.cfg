SPECIFICATION CodecSpec
CONSTANTS
  TargetFrameSize = 9
  Window = 12
  HashUnit = 2
  OffsetLimit = 24
  MaxAppended = 38
  MINMATCH = 2
  MFLIMIT = 4
  LASTLITERALS = 2
  Mask = 2
  Full = 2
  HashSize = 13
  SkipTrigger = 2
  ItemSizes = {3, 4, 9}
  NoticeAfter = 22
  Texts <- TheTexts
INVARIANTS SentInOrder HistoryIntact PositionsFit
PROPERTIES ServerReadsWhatWasSent
\* A session may end at any time, here when MaxAppended bytes were collected.
CHECK_DEADLOCK FALSE
