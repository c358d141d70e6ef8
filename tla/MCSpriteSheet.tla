---------------------------- MODULE MCSpriteSheet ----------------------------
(* SpriteSheet for TLC: names of slices are interchangeable. *)
EXTENDS SpriteSheet, TLC

LabelsSymmetry == Permutations(Labels)
=============================================================================
