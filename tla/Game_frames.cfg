SPECIFICATION Spec
CONSTANTS
  Points <- LevelAndButton
  OnPauseButton <- TheButton
  Step = 2
  MaxFrameTime = 5
  MaxPlayed = 6
  MaxBodies = 3
INVARIANTS TimeConserved DragIsHeld
PROPERTIES SoloDragLaunches PauseButtonEndsDrag
