----------------------------- MODULE MCHotReload -----------------------------
(* Model values for HotReload: which earlier libraries are on disk.        *)
EXTENDS HotReload, TLC

(* lib2.so is left over from an earlier session. *)
OneStaleLib == {2}

FilesSymmetry == Permutations(Files)
=============================================================================
