SPECIFICATION Spec
CONSTANTS
  bird = bird
  grass = grass
  block = block
  Labels = {bird, grass, block}
  MaxSlices = 3
SYMMETRY LabelsSymmetry
INVARIANTS FreedOnce NothingLeaks SheetIsTheFile
