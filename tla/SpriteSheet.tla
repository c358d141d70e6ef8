----------------------------- MODULE SpriteSheet ----------------------------
(***************************************************************************)
(* Loading a sprite sheet (src/aseprite/SpriteSheet.zig) when any step of  *)
(* it may fail: which blocks of memory are live, and what `defer` and      *)
(* `errdefer` give back on the way out.                                    *)
(*                                                                         *)
(* `cleanup` is the stack of the deferred statements that have been        *)
(* reached and not run, the last at its end.  A return runs them from      *)
(* there, the ones marked errdefer only if it returns an error.            *)
(***************************************************************************)
EXTENDS Integers, Sequences

CONSTANTS
  Labels,        (* names of slices                                        *)
  MaxSlices      (* bound of the model: slices in the file                 *)

ASSUME SpriteSheetAssumption == MaxSlices \in Nat

VARIABLES
  slices,        (* meta.slices of the file: name and number of keys       *)
  pc,            (* the next statement                                     *)
  i,             (* the slice the loop of loadSlice is at                  *)
  mapping,       (* the hash map: for each name its key's block and bounds *)
  heap,          (* live blocks                                            *)
  cleanup,       (* deferred statements                                    *)
  failed,        (* whether an error is being returned                     *)
  texture,       (* whether the texture is loaded                          *)
  misfreed       (* history: a block was freed that was not live           *)

vars == <<slices, pc, i, mapping, heap, cleanup, failed, texture, misfreed>>

File == UNION {[1 .. n -> [name : Labels, keys : 0 .. 2]] : n \in 0 .. MaxSlices}

Block(kind) == <<kind, 0>>
Key(n)      == <<"key", n>>

Defer(block)    == [onlyOnError |-> FALSE, frees |-> block]
Errdefer(block) == [onlyOnError |-> TRUE,  frees |-> block]
Push(entry)     == cleanup' = Append(cleanup, entry)
Top             == cleanup[Len(cleanup)]
Pop             == cleanup' = SubSeq(cleanup, 1, Len(cleanup) - 1)

(* The table of the hash map and the keys in it, freed together; a map     *)
(* for no slices has no table.                                             *)
Slices      == Block("slices")
MapBlocks   == {mapping[l].key : l \in DOMAIN mapping}
                 \cup (IF slices = <<>> THEN {} ELSE {Block("table")})
Frees(what) == IF what = Slices THEN MapBlocks ELSE {what}

Free(blocks) ==
  /\ heap' = heap \ blocks
  /\ misfreed' = (misfreed \/ ~ (blocks \subseteq heap))

-----------------------------------------------------------------------------
(* A statement `const x = try f(); defer free(x);`.                        *)
TryAlloc(at, next, kind) ==
  /\ pc = at /\ pc' = next
  /\ heap' = heap \cup {Block(kind)}
  /\ Push(Defer(Block(kind)))
  /\ UNCHANGED <<slices, i, mapping, failed, texture, misfreed>>

(* The `try` of any statement that may fail: out of memory, no such file,  *)
(* a file of more than 1 MiB, a file that is not JSON of this form.        *)
Fails(at, next) ==
  /\ pc = at /\ pc' = next
  /\ failed' = TRUE
  /\ UNCHANGED <<slices, i, mapping, heap, cleanup, texture, misfreed>>

ImagePath   == TryAlloc("image_path", "json_path", "image_path")
JsonPath    == TryAlloc("json_path", "read", "json_path")
ReadFile    == TryAlloc("read", "parse", "file_content")
Parse       == TryAlloc("parse", "reserve", "parsed")

Error ==
  \/ Fails("image_path", "return")
  \/ \E at \in {"json_path", "read", "parse", "reserve"} : Fails(at, "leave")
  \/ i <= Len(slices) /\ Fails("dupe", "leave")

(* ensureTotalCapacity, so that getOrPut does not allocate.                *)
Reserve ==
  /\ pc = "reserve" /\ pc' = "dupe"
  /\ heap' = heap \cup MapBlocks
  /\ Push(Errdefer(Slices))
  /\ UNCHANGED <<slices, i, mapping, failed, texture, misfreed>>

Dupe ==
  /\ pc = "dupe" /\ i <= Len(slices) /\ pc' = "put"
  /\ heap' = heap \cup {Key(i)}
  /\ Push(Errdefer(Key(i)))
  /\ UNCHANGED <<slices, i, mapping, failed, texture, misfreed>>

(* The entry of slice n enters the map under its name.                     *)
Enter(n, bounds) ==
  mapping' = [l \in DOMAIN mapping \cup {slices[n].name} |->
                IF l = slices[n].name THEN [key |-> Key(n), bounds |-> bounds] ELSE mapping[l]]

NextSlice ==
  pc' = "dupe" /\ i' = i + 1 /\ Pop

(* Mutant: found_existing is not looked at. *)
Put_Overwrites ==
  /\ pc = "put" /\ slices[i].keys = 1
  /\ Enter(i, i) /\ NextSlice
  /\ UNCHANGED <<slices, heap, failed, texture, misfreed>>

(* Mutant: a wrong number of keys is an error, found after the name is in. *)
Put_LateError ==
  /\ pc = "put" /\ slices[i].name \notin DOMAIN mapping
  /\ Enter(i, i)
  /\ IF slices[i].keys = 1
     THEN NextSlice /\ UNCHANGED failed
     ELSE pc' = "leave" /\ failed' = TRUE /\ UNCHANGED <<i, cleanup>>
  /\ UNCHANGED <<slices, heap, texture, misfreed>>

(* getOrPut: FoundRepeatingLabels if the name is in the map, otherwise the *)
(* key is in it from here on.  Only then is slice.keys.len asserted to be  *)
(* 1, which a build with safety checks turns into a panic.                 *)
Put ==
  /\ pc = "put"
  /\ \/ /\ slices[i].name \in DOMAIN mapping
        /\ pc' = "leave" /\ failed' = TRUE
        /\ UNCHANGED <<i, mapping, cleanup>>
     \/ /\ slices[i].name \notin DOMAIN mapping
        /\ Enter(i, i)
        /\ IF slices[i].keys = 1
           THEN NextSlice
           ELSE pc' = "panicked" /\ UNCHANGED <<i, cleanup>>
        /\ UNCHANGED failed
  /\ UNCHANGED <<slices, heap, texture, misfreed>>

ReturnSlices ==
  /\ pc = "dupe" /\ i > Len(slices) /\ pc' = "leave"
  /\ UNCHANGED <<slices, i, mapping, heap, cleanup, failed, texture, misfreed>>

(* Leaving a function: the top deferred statement.                         *)
RunCleanup ==
  /\ \/ pc = "leave" /\ Len(cleanup) > 1
     \/ pc = "return" /\ Len(cleanup) = 1
  /\ Pop
  /\ IF Top.onlyOnError => failed
     THEN Free(Frees(Top.frees))
     ELSE UNCHANGED <<heap, misfreed>>
  /\ UNCHANGED <<slices, pc, i, mapping, failed, texture>>

(* Back in loadSpriteSheet, at `try loadSlice(alloc, path)`.               *)
SliceFailed ==
  /\ pc = "leave" /\ Len(cleanup) = 1 /\ failed /\ pc' = "return"
  /\ UNCHANGED <<slices, i, mapping, heap, cleanup, failed, texture, misfreed>>

(* loadTexture returns a texture whatever becomes of the image.            *)
LoadTexture ==
  /\ pc = "leave" /\ Len(cleanup) = 1 /\ ~ failed /\ pc' = "return"
  /\ texture' = TRUE
  /\ UNCHANGED <<slices, i, mapping, heap, cleanup, failed, misfreed>>

Return ==
  /\ pc = "return" /\ cleanup = <<>>
  /\ pc' = IF failed THEN "failed" ELSE "loaded"
  /\ UNCHANGED <<slices, i, mapping, heap, cleanup, failed, texture, misfreed>>

(* Mutant: the keys are not freed. *)
deinit_KeepsKeys ==
  /\ pc = "loaded" /\ pc' = "deinited"
  /\ Free(MapBlocks \cap {Block("table")})
  /\ texture' = FALSE
  /\ UNCHANGED <<slices, i, mapping, cleanup, failed>>

deinit ==
  /\ pc = "loaded" /\ pc' = "deinited"
  /\ Free(MapBlocks)
  /\ texture' = FALSE
  /\ UNCHANGED <<slices, i, mapping, cleanup, failed>>

-----------------------------------------------------------------------------
Init ==
  /\ slices \in File
  /\ pc = "image_path" /\ i = 1
  /\ mapping = <<>> /\ heap = {} /\ cleanup = <<>>
  /\ failed = FALSE /\ texture = FALSE /\ misfreed = FALSE

Terminated == pc \in {"failed", "deinited", "panicked"} /\ UNCHANGED vars

Next ==
  \/ ImagePath \/ JsonPath \/ ReadFile \/ Parse \/ Reserve \/ Dupe \/ Put
  \/ Error \/ ReturnSlices \/ RunCleanup \/ SliceFailed
  \/ LoadTexture \/ Return \/ deinit
  \/ Terminated

Spec == Init /\ [][Next]_vars

-----------------------------------------------------------------------------
Blocks == {Block(k) : k \in {"image_path", "json_path", "file_content", "parsed", "table"}}
            \cup {Key(n) : n \in 1 .. MaxSlices}

(* Type invariant of the loader.                                           *)
TypeOK ==
  /\ slices \in File
  /\ pc \in {"image_path", "json_path", "read", "parse", "reserve", "dupe", "put",
             "leave", "return", "loaded", "deinited", "failed", "panicked"}
  /\ i \in 1 .. MaxSlices + 1
  /\ DOMAIN mapping \subseteq Labels
  /\ \A l \in DOMAIN mapping : mapping[l] \in [key : Blocks, bounds : 1 .. MaxSlices]
  /\ heap \subseteq Blocks
  /\ cleanup \in Seq([onlyOnError : BOOLEAN, frees : Blocks \cup {Slices}])
  /\ failed \in BOOLEAN /\ texture \in BOOLEAN /\ misfreed \in BOOLEAN

(* No block is freed twice, and none that was never allocated, whatever    *)
(* statement of loadSlice or loadSpriteSheet fails and after deinit.       *)
FreedOnce == ~ misfreed

(* Memory is given back on every way out: nothing is left after an error   *)
(* or deinit, and a sheet that is loaded owns just its table and its keys. *)
NothingLeaks ==
  /\ pc \in {"failed", "deinited"} => heap = {} /\ ~ texture
  /\ pc = "loaded" => heap = MapBlocks

(* A loaded sheet is the file: each of its slices is found under its name  *)
(* with its own bounds, so no two slices had the same name.                *)
SheetIsTheFile ==
  pc \in {"loaded", "deinited"} =>
    /\ DOMAIN mapping = {slices[n].name : n \in 1 .. Len(slices)}
    /\ \A n \in 1 .. Len(slices) : mapping[slices[n].name].bounds = n

=============================================================================
