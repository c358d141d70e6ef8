----------------------------- MODULE LevelFile -----------------------------
(***************************************************************************)
(* Level files of src/Level.zig: save_to_file truncates the file and then  *)
(* writes the JSON text piece by piece; read_from_file reads the text with *)
(* a limit and parses it.  Any call may fail, and the process may be ended *)
(* at any point; what it wrote stays.                                      *)
(*                                                                         *)
(* A text is a sequence of pieces, one a call of the writer.  The parser   *)
(* accepts the whole text of a level only: no proper prefix of a JSON      *)
(* object is one, and nothing may follow it.                               *)
(***************************************************************************)
EXTENDS Integers, Sequences

CONSTANTS
  Levels,     (* the levels that may be saved                              *)
  Size,       (* pieces in the text of each level                          *)
  max_size    (* what deserialize reads at most, 1 MiB in the code         *)

NoLevel == "no level"
Failed  == "error"

ASSUME LevelAssumption ==
  /\ Size \in [Levels -> Nat \ {0}] /\ max_size \in Nat
  /\ NoLevel \notin Levels /\ Failed \notin Levels

VARIABLES
  pc,       (* idle, or the place in save_to_file or read_from_file        *)
  exists,   (* whether there is a file                                     *)
  disk,     (* its text                                                    *)
  level,    (* the level being saved                                       *)
  written,  (* pieces of it that are written                               *)
  result,   (* what the last read returned                                 *)
  saved,    (* history: the last level whose save was begun                *)
  torn,     (* history: whether that save did not reach its end            *)
  faulty    (* history: whether a call of this read failed                 *)

fileVars == <<pc, exists, disk, level, written, result, saved, torn, faulty>>

Piece(l, i) == <<l, i>>
Text(l) == [i \in 1 .. Size[l] |-> Piece(l, i)]

Parsed(text) ==
  IF \E l \in Levels : text = Text(l)
  THEN CHOOSE l \in Levels : text = Text(l)
  ELSE Failed

-----------------------------------------------------------------------------
FileInit ==
  /\ pc = "idle" /\ exists = FALSE /\ disk = <<>>
  /\ level = NoLevel /\ written = 0 /\ result = NoLevel
  /\ saved = NoLevel /\ torn = FALSE /\ faulty = FALSE

(* Mutant: the old text is kept and written over. *)
Create_NoTruncate(l) ==
  /\ pc = "idle" /\ pc' = "write"
  /\ exists' = TRUE
  /\ level' = l /\ written' = 0
  /\ saved' = l /\ torn' = TRUE
  /\ UNCHANGED <<disk, result, faulty>>

(* createFileAbsolute truncates a file that exists.                        *)
Create(l) ==
  /\ pc = "idle" /\ pc' = "write"
  /\ exists' = TRUE /\ disk' = <<>>
  /\ level' = l /\ written' = 0
  /\ saved' = l /\ torn' = TRUE
  /\ UNCHANGED <<result, faulty>>

(* Opening for writing or reading may fail; the caller gets the error.     *)
OpenFails ==
  /\ pc = "idle" /\ result' = Failed /\ faulty' = TRUE
  /\ UNCHANGED <<pc, exists, disk, level, written, saved, torn>>

(* stringify writes each piece straight to the file.                       *)
Write ==
  /\ pc = "write" /\ written < Size[level]
  /\ written' = written + 1
  /\ disk' = [i \in 1 .. IF Len(disk) > written THEN Len(disk) ELSE written + 1 |->
                IF i = written + 1 THEN Piece(level, i) ELSE disk[i]]
  /\ UNCHANGED <<pc, exists, level, result, saved, torn, faulty>>

(* A full disk: `try` returns, the deferred close runs.                    *)
WriteFails ==
  /\ pc = "write" /\ written < Size[level]
  /\ pc' = "idle"
  /\ UNCHANGED <<exists, disk, level, written, result, saved, torn, faulty>>

SaveReturns ==
  /\ pc = "write" /\ written = Size[level]
  /\ pc' = "idle" /\ torn' = FALSE
  /\ UNCHANGED <<exists, disk, level, written, result, saved, faulty>>

OpenToRead ==
  /\ pc = "idle" /\ exists
  /\ pc' = "read" /\ faulty' = FALSE
  /\ UNCHANGED <<exists, disk, level, written, result, saved, torn>>

(* Mutant: what is beyond max_size is cut off and the rest taken for good. *)
ReadAll_Lenient ==
  /\ pc = "read" /\ pc' = "idle"
  /\ result' = IF disk = <<>> THEN Failed ELSE disk[1][1]
  /\ UNCHANGED <<exists, disk, level, written, saved, torn, faulty>>

(* readAllAlloc refuses more than max_size; otherwise the text is parsed.  *)
ReadAll ==
  /\ pc = "read" /\ pc' = "idle"
  /\ result' = IF Len(disk) > max_size THEN Failed ELSE Parsed(disk)
  /\ UNCHANGED <<exists, disk, level, written, saved, torn, faulty>>

(* Reading or allocating may fail too.                                     *)
ReadFails ==
  /\ pc = "read" /\ pc' = "idle"
  /\ result' = Failed /\ faulty' = TRUE
  /\ UNCHANGED <<exists, disk, level, written, saved, torn>>

(* The process ends and is started again.                                  *)
Crash ==
  /\ pc # "idle" /\ pc' = "idle"
  /\ result' = NoLevel /\ faulty' = FALSE
  /\ UNCHANGED <<exists, disk, level, written, saved, torn>>

FileNext ==
  \/ \E l \in Levels : Create(l)
  \/ OpenFails \/ Write \/ WriteFails \/ SaveReturns
  \/ OpenToRead \/ ReadAll \/ ReadFails \/ Crash

FileSpec == FileInit /\ [][FileNext]_fileVars

-----------------------------------------------------------------------------
(* A save that failed or was cut off is never taken for a level: whatever  *)
(* came before and after it, a read returns the last level begun to be     *)
(* saved, all of it, or an error.                                          *)
NoTornLevel ==
  [][(pc = "read" /\ result' \in Levels) =>
       result' = saved /\ written = Size[saved]]_fileVars

(* A level that fits and whose save reached its end can be read again,     *)
(* however often saves before it failed (save_to_file loses the level it   *)
(* replaces as soon as it begins: hence the save has to reach its end).    *)
SavedIsReadable ==
  [][(pc = "read" /\ pc' = "idle" /\ result' = Failed) =>
       faulty' \/ torn \/ Size[saved] > max_size]_fileVars

-----------------------------------------------------------------------------
(* The inductive invariant behind both: the file holds the first pieces of *)
(* the level whose save was begun last, all of them unless it was torn.    *)
FileInv ==
  /\ pc \in {"idle", "write", "read"}
  /\ exists <=> saved \in Levels
  /\ pc # "idle" => exists
  /\ saved \in Levels =>
       /\ level = saved /\ written \in 0 .. Size[saved]
       /\ disk = [i \in 1 .. written |-> Piece(saved, i)]
       /\ torn \/ written = Size[saved]
=============================================================================
