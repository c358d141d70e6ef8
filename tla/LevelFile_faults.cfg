SPECIFICATION FileSpec
CONSTANTS
  Levels <- LevelNames
  Size <- SmallFitsLarge
  max_size = 3
PROPERTIES NoTornLevel SavedIsReadable
