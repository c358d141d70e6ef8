-------------------------- MODULE SpriteSheetProofs -------------------------
(***************************************************************************)
(* Proofs about SpriteSheet, for every set of names and every bound on the *)
(* number of slices.                                                       *)
(***************************************************************************)
EXTENDS SpriteSheet, SequenceTheorems, TLAPS

Entry == [onlyOnError : BOOLEAN, frees : Blocks \cup {Slices}]

(***************************************************************************)
(* Lemmas about the operators.                                             *)
(***************************************************************************)

(* The slices of a file are a sequence, no longer than the bound.          *)
LEMMA FileIsSeq ==
  ASSUME NEW file \in File
  PROVE  /\ Len(file) \in 0 .. MaxSlices
         /\ DOMAIN file = 1 .. Len(file)
         /\ \A n \in 1 .. Len(file) : file[n].name \in Labels
<1> DEFINE S == [name : Labels, keys : 0 .. 2]
<1>1. PICK n \in 0 .. MaxSlices : file \in [1 .. n -> S]
  BY DEF File
<1>2. n \in Nat
  BY SpriteSheetAssumption
<1> HIDE DEF S
<1>3. file \in Seq(S)
  <2>1. file \in UNION {[1 .. m -> S] : m \in Nat}
    BY <1>1, <1>2, Zenon
  <2> QED  BY <2>1, SeqDef, Zenon
<1>4. Len(file) \in Nat /\ DOMAIN file = 1 .. Len(file)
  BY <1>3, LenProperties
<1>5. Len(file) = n
  BY <1>1, <1>2, <1>4
<1>6. ASSUME NEW k \in 1 .. Len(file)  PROVE file[k].name \in Labels
  BY <1>1, <1>5, <1>6 DEF S
<1> QED  BY <1>4, <1>5, <1>6

(* The last deferred statement is the top, and the rest stays.             *)
LEMMA PushOnto ==
  ASSUME NEW stack \in Seq(Entry), NEW e \in Entry
  PROVE  /\ Append(stack, e) \in Seq(Entry)
         /\ Len(Append(stack, e)) = Len(stack) + 1
         /\ \A k \in 1 .. Len(stack) : Append(stack, e)[k] = stack[k]
         /\ Append(stack, e)[Len(stack) + 1] = e
  BY AppendProperties

LEMMA PopFrom ==
  ASSUME NEW stack \in Seq(Entry), Len(stack) > 0,
         NEW rest, rest = SubSeq(stack, 1, Len(stack) - 1)
  PROVE  /\ rest \in Seq(Entry)
         /\ Len(rest) = Len(stack) - 1
         /\ \A k \in 1 .. Len(rest) : rest[k] = stack[k]
         /\ stack[Len(stack)] \in Entry
<1>1. Len(stack) \in Nat /\ \A k \in 1 .. Len(stack) : stack[k] \in Entry
  BY LenProperties, ElementOfSeq
<1>2. \A k \in 1 .. Len(stack) - 1 : stack[k] \in Entry
  BY <1>1
<1>3. 1 \in Int /\ Len(stack) - 1 \in Int
  BY <1>1
<1>4. /\ rest \in Seq(Entry)
      /\ Len(rest) = IF 1 <= Len(stack) - 1 THEN Len(stack) - 1 - 1 + 1 ELSE 0
      /\ \A k \in 1 .. Len(stack) - 1 - 1 + 1 : rest[k] = stack[1 + k - 1]
  BY <1>2, <1>3, SubSeqProperties
<1>5. Len(rest) = Len(stack) - 1
  <2>1. CASE Len(stack) = 1
    BY <1>4, <2>1
  <2>2. CASE Len(stack) # 1
    <3>1. Len(stack) \in Nat
      BY <1>1
    <3>2. ASSUME NEW n \in Nat, n > 0, n # 1
          PROVE  1 <= n - 1 /\ n - 1 - 1 + 1 = n - 1
      BY <3>2
    <3>3. 1 <= Len(stack) - 1 /\ Len(stack) - 1 - 1 + 1 = Len(stack) - 1
      BY <2>2, <3>1, <3>2, Len(stack) > 0
    <3> QED  BY <1>4, <3>3
  <2> QED  BY <2>1, <2>2
<1>6. ASSUME NEW k \in 1 .. Len(rest)  PROVE rest[k] = stack[k]
  <2>1. k \in 1 .. Len(stack) - 1 - 1 + 1 /\ 1 + k - 1 = k
    BY <1>1, <1>5
  <2> QED  BY <2>1, <1>4
<1>7. stack[Len(stack)] \in Entry
  BY <1>1, Len(stack) > 0
<1> QED  BY <1>4, <1>5, <1>6, <1>7

(* What the deferred statements outside the loop free, in the order of the *)
(* source, and what is live when n statements have been reached.           *)
BaseBlock(k) ==
  CASE k = 1 -> Block("image_path")
    [] k = 2 -> Block("json_path")
    [] k = 3 -> Block("file_content")
    [] k = 4 -> Block("parsed")

BaseLive(n) == {BaseBlock(k) : k \in {m \in 1 .. 4 : m <= n}}

(* No two of these blocks are the same, and none is a key or the table.    *)
LEMMA BaseBlocks ==
  /\ BaseBlock(1) = Block("image_path") /\ BaseBlock(2) = Block("json_path")
  /\ BaseBlock(3) = Block("file_content") /\ BaseBlock(4) = Block("parsed")
  BY DEF BaseBlock

LEMMA BlocksDiffer ==
  /\ \A m, n : Key(m) = Key(n) => m = n
  /\ \A k1, k2 : Block(k1) = Block(k2) => k1 = k2
  /\ \A n, k : k # "key" => Key(n) # Block(k)
  BY DEF Key, Block

LEMMA BaseLiveGrows ==
  /\ BaseLive(0) = {} /\ BaseLive(5) = BaseLive(4) /\ BaseLive(6) = BaseLive(4)
  /\ \A n \in 1 .. 4 : /\ BaseLive(n) = BaseLive(n - 1) \cup {BaseBlock(n)}
                       /\ BaseBlock(n) \notin BaseLive(n - 1)
  /\ \A n : /\ BaseLive(n) \subseteq Blocks
            /\ Block("table") \notin BaseLive(n)
            /\ \A m : Key(m) \notin BaseLive(n)
<1>1. /\ BaseLive(0) = {} /\ BaseLive(5) = BaseLive(4) /\ BaseLive(6) = BaseLive(4)
  <2>1. /\ {m \in 1 .. 4 : m <= 0} = {}
        /\ {m \in 1 .. 4 : m <= 5} = {m \in 1 .. 4 : m <= 4}
        /\ {m \in 1 .. 4 : m <= 6} = {m \in 1 .. 4 : m <= 4}
    OBVIOUS
  <2> QED  BY <2>1 DEF BaseLive
<1>2. ASSUME NEW n \in 1 .. 4
      PROVE  /\ BaseLive(n) = BaseLive(n - 1) \cup {BaseBlock(n)}
             /\ BaseBlock(n) \notin BaseLive(n - 1)
  <2>1. {m \in 1 .. 4 : m <= n} = {m \in 1 .. 4 : m <= n - 1} \cup {n}
    OBVIOUS
  <2>2. ASSUME NEW m \in 1 .. 4, m <= n - 1  PROVE BaseBlock(m) # BaseBlock(n)
    <3>1. m < n
      BY <2>2
    <3>2. \/ m = 1 /\ n \in {2, 3, 4}
          \/ m = 2 /\ n \in {3, 4}
          \/ m = 3 /\ n = 4
      BY <3>1
    <3> QED  BY <3>2, BaseBlocks, BlocksDiffer
  <2> QED  BY <2>1, <2>2 DEF BaseLive
<1>3. ASSUME NEW n, NEW b \in BaseLive(n)
      PROVE  b \in Blocks /\ b # Block("table") /\ \A m : Key(m) # b
  <2>1. PICK k \in 1 .. 4 : b = BaseBlock(k)
    BY <1>3 DEF BaseLive
  <2>2. k = 1 \/ k = 2 \/ k = 3 \/ k = 4
    OBVIOUS
  <2>3. b \in {Block(x) : x \in {"image_path", "json_path", "file_content", "parsed"}}
    BY <2>1, <2>2, BaseBlocks
  <2> QED  BY <2>3, BlocksDiffer DEF Blocks
<1> QED  BY <1>1, <1>2, <1>3

-----------------------------------------------------------------------------
(***************************************************************************)
(* The invariant, as long as the assertion has not ended the program.      *)
(***************************************************************************)

(* The statements that can be on the stack, in the order of the source.    *)
Statement(k) ==
  CASE k \in 1 .. 4 -> Defer(BaseBlock(k))
    [] k = 5        -> Errdefer(Slices)
    [] k = 6        -> Errdefer(Key(i))

Depth == Len(cleanup)

InOrder == \A k \in 1 .. Depth : cleanup[k] = Statement(k)

StackInv ==
  /\ InOrder
  /\ Depth <= 6
  /\ pc = "image_path" => Depth = 0
  /\ pc = "json_path"  => Depth = 1
  /\ pc = "read"       => Depth = 2
  /\ pc = "parse"      => Depth = 3
  /\ pc = "reserve"    => Depth = 4
  /\ pc = "dupe"       => Depth = 5
  /\ pc = "put"        => Depth = 6
  /\ pc = "leave"      => Depth >= 1
  /\ pc = "leave" /\ ~ failed => Depth <= 5
  /\ pc = "return"     => Depth <= 1
  /\ pc \in {"loaded", "failed", "deinited"} => Depth = 0

(* An error is on its way only while functions return, and the texture is  *)
(* loaded only when there was none.                                        *)
ErrorInv ==
  /\ failed => pc \in {"leave", "return", "failed"}
  /\ pc = "failed" => failed
  /\ texture => ~ failed /\ pc \in {"return", "loaded"}

(* The map is live from `reserve` until the errdefer runs or the caller    *)
(* gives it back, and the key of the current slice between its two         *)
(* statements.  All else that is live is what the stack is going to free.  *)
HasMap ==
  IF failed THEN Depth >= 5
  ELSE pc \in {"dupe", "put", "leave", "return", "loaded"}

MapLive == IF HasMap THEN MapBlocks ELSE {}
KeyLive == IF Depth = 6 THEN {Key(i)} ELSE {}

HeapInv == heap = BaseLive(Depth) \cup MapLive \cup KeyLive

(* The map holds the slices before the current one and no others.          *)
MapInv ==
  /\ DOMAIN mapping = {slices[n].name : n \in 1 .. i - 1}
  /\ \A n \in 1 .. i - 1 : mapping[slices[n].name] = [key |-> Key(n), bounds |-> n]
  /\ i \in 1 .. Len(slices) + 1
  /\ pc = "put" => i <= Len(slices)
  /\ pc \in {"leave", "return", "loaded", "deinited"} /\ ~ failed => i = Len(slices) + 1

LoaderInv == StackInv /\ ErrorInv /\ HeapInv /\ MapInv

Inv == TypeOK /\ ~ misfreed /\ (pc # "panicked" => LoaderInv)

(***************************************************************************)
(* What the invariant says of the stack and the map.                       *)
(***************************************************************************)

LEMMA StatementsAre ==
  /\ \A k \in 1 .. 4 : Statement(k) = Defer(BaseBlock(k))
  /\ Statement(5) = Errdefer(Slices) /\ Statement(6) = Errdefer(Key(i))
  BY DEF Statement

LEMMA StackType ==
  ASSUME TypeOK
  PROVE  cleanup \in Seq(Entry) /\ Depth \in Nat
  BY LenProperties DEF TypeOK, Entry, Depth

(* A statement reached is pushed, and the one on the top is run.           *)
LEMMA PushKeepsOrder ==
  ASSUME TypeOK, InOrder, NEW n \in 1 .. 6, Depth = n - 1,
         Statement(n) \in Entry, Push(Statement(n)), i' = i
  PROVE  cleanup' \in Seq(Entry) /\ Depth' = n /\ InOrder'
<1>1. cleanup \in Seq(Entry) /\ Depth \in Nat
  BY StackType
<1>2. /\ cleanup' \in Seq(Entry) /\ Depth' = Depth + 1
      /\ \A k \in 1 .. Depth : cleanup'[k] = cleanup[k]
      /\ cleanup'[Depth + 1] = Statement(n)
  BY <1>1, PushOnto DEF Push, Depth
<1>3. Depth' = n
  BY <1>2
<1>4. ASSUME NEW k \in 1 .. n  PROVE cleanup'[k] = Statement(k)'
  <2>1. Statement(k)' = Statement(k)
    BY DEF Statement
  <2>2. CASE k = n
    BY <1>2, <2>1, <2>2
  <2>3. CASE k # n
    <3>1. k \in 1 .. Depth
      BY <2>3
    <3> QED  BY <1>2, <2>1, <3>1 DEF InOrder
  <2> QED  BY <2>2, <2>3
<1> QED  BY <1>2, <1>3, <1>4 DEF InOrder

LEMMA PopKeepsOrder ==
  ASSUME TypeOK, InOrder, NEW n \in 1 .. 6, Depth = n, Pop, i' = i \/ n = 6
  PROVE  /\ cleanup' \in Seq(Entry) /\ Depth' = n - 1
         /\ InOrder' /\ Top = Statement(n)
<1>1. cleanup \in Seq(Entry)
  BY StackType
<1>2. Depth > 0
  BY n > 0
<1>3. /\ cleanup' \in Seq(Entry) /\ Depth' = Depth - 1
      /\ \A k \in 1 .. Depth' : cleanup'[k] = cleanup[k]
  <2>1. cleanup' = SubSeq(cleanup, 1, Depth - 1)
    BY DEF Pop, Depth
  <2>2. ASSUME NEW rest, rest = SubSeq(cleanup, 1, Depth - 1)
        PROVE  /\ rest \in Seq(Entry) /\ Len(rest) = Depth - 1
               /\ \A k \in 1 .. Len(rest) : rest[k] = cleanup[k]
    BY <1>1, <1>2, <2>2, PopFrom DEF Depth
  <2> QED  BY <2>1, <2>2 DEF Depth
<1>4. ASSUME NEW k \in 1 .. Depth'  PROVE cleanup'[k] = Statement(k)'
  <2>1. k \in 1 .. Depth /\ k < Depth
    BY <1>3
  <2>2. Statement(k)' = Statement(k)
    <3>1. CASE i' = i
      BY <3>1 DEF Statement
    <3>2. CASE n = 6
      BY <2>1, <3>2 DEF Statement
    <3> QED  BY <3>1, <3>2
  <2> QED  BY <1>3, <2>1, <2>2 DEF InOrder
<1>5. Top = Statement(n)
  BY <1>2 DEF Top, InOrder, Depth
<1> QED  BY <1>3, <1>4, <1>5 DEF InOrder

(* The blocks of the map are keys of slices before the current one, and    *)
(* the table.                                                              *)
LEMMA MapIsApart ==
  ASSUME TypeOK, MapInv
  PROVE  /\ MapBlocks \subseteq Blocks /\ Key(i) \notin MapBlocks
         /\ \A n : BaseLive(n) \cap MapBlocks = {}
<1>1. ASSUME NEW l \in DOMAIN mapping
      PROVE  /\ mapping[l].key \in Blocks
             /\ mapping[l].key # Key(i)
             /\ \A n : mapping[l].key \notin BaseLive(n)
  <2>1. PICK n \in 1 .. i - 1 : l = slices[n].name
    BY <1>1, MapInv DEF MapInv
  <2>2. mapping[l] = [key |-> Key(n), bounds |-> n]
    BY <2>1, MapInv DEF MapInv
  <2>3. n # i /\ n \in 1 .. MaxSlices
    BY <2>1, SpriteSheetAssumption DEF TypeOK
  <2> QED  BY <2>2, <2>3, BlocksDiffer, BaseLiveGrows DEF Blocks
<1>2. /\ Block("table") \in Blocks /\ Block("table") # Key(i)
      /\ \A n : Block("table") \notin BaseLive(n)
  BY BlocksDiffer, BaseLiveGrows DEF Blocks
<1> QED  BY <1>1, <1>2 DEF MapBlocks

LEMMA EntriesAre ==
  ASSUME TypeOK
  PROVE  /\ \A n \in 1 .. 4 : Statement(n) \in Entry
         /\ Statement(5) \in Entry
         /\ i <= Len(slices) => Statement(6) \in Entry
<1>1. \A n \in 1 .. 4 : BaseBlock(n) \in Blocks
  BY BaseLiveGrows
<1>2. i <= Len(slices) => Key(i) \in Blocks
  <2>1. Len(slices) \in 0 .. MaxSlices /\ i \in 1 .. MaxSlices + 1
    BY FileIsSeq DEF TypeOK
  <2> QED  BY <2>1, SpriteSheetAssumption DEF Blocks
<1>3. \A b \in Blocks \cup {Slices} : Defer(b) \in Entry /\ Errdefer(b) \in Entry
  BY DEF Entry, Defer, Errdefer
<1> QED  BY <1>1, <1>2, <1>3, StatementsAre

-----------------------------------------------------------------------------
(***************************************************************************)
(* Every step preserves the invariant.                                     *)
(***************************************************************************)

LEMMA InitInv ==
  Init => Inv
<1> SUFFICES ASSUME Init PROVE Inv
  OBVIOUS
<1>1. Depth = 0 /\ cleanup \in Seq(Entry)
  BY DEF Init, Depth
<1>2. Len(slices) \in 0 .. MaxSlices
  BY FileIsSeq DEF Init
<1>3. DOMAIN mapping = {}
  BY DEF Init
<1>4. TypeOK
  <2>1. /\ slices \in File /\ pc = "image_path" /\ i = 1 /\ heap = {}
        /\ failed = FALSE /\ texture = FALSE /\ misfreed = FALSE
    BY DEF Init
  <2>2. i \in 1 .. MaxSlices + 1
    BY <2>1, SpriteSheetAssumption
  <2> QED  BY <1>1, <1>3, <2>1, <2>2 DEF TypeOK, Entry
<1>5. HeapInv
  BY <1>1, BaseLiveGrows DEF Init, HeapInv, MapLive, HasMap, KeyLive
<1>6. MapInv
  <2>1. i = 1 /\ 1 .. i - 1 = {}
    BY DEF Init
  <2> QED  BY <1>2, <1>3, <2>1 DEF Init, MapInv
<1>7. StackInv /\ ErrorInv
  BY <1>1 DEF Init, StackInv, ErrorInv, InOrder
<1> QED  BY <1>4, <1>5, <1>6, <1>7 DEF Init, Inv, LoaderInv

(* The four statements that allocate and defer the free.                   *)
LEMMA TryAllocKeepsInv ==
  ASSUME Inv, NEW n \in 1 .. 4, NEW at, NEW next, NEW kind, TryAlloc(at, next, kind),
         \/ n = 1 /\ at = "image_path" /\ next = "json_path" /\ kind = "image_path"
         \/ n = 2 /\ at = "json_path" /\ next = "read" /\ kind = "json_path"
         \/ n = 3 /\ at = "read" /\ next = "parse" /\ kind = "file_content"
         \/ n = 4 /\ at = "parse" /\ next = "reserve" /\ kind = "parsed"
  PROVE  Inv'
<1>1. /\ TypeOK /\ StackInv /\ ErrorInv /\ HeapInv /\ MapInv /\ ~ misfreed
      /\ pc = at /\ pc' = next
      /\ heap' = heap \cup {Block(kind)} /\ Push(Defer(Block(kind)))
      /\ UNCHANGED <<slices, i, mapping, failed, texture, misfreed>>
  BY DEF Inv, LoaderInv, TryAlloc
<1>2. Block(kind) = BaseBlock(n)
  BY BaseBlocks
<1>3. Depth = n - 1 /\ ~ failed
  BY <1>1 DEF StackInv, ErrorInv
<1>4. cleanup' \in Seq(Entry) /\ Depth' = n /\ InOrder'
  <2>1. Statement(n) = Defer(Block(kind)) /\ Statement(n) \in Entry
    BY <1>1, <1>2, StatementsAre, EntriesAre
  <2> QED  BY <1>1, <1>3, <2>1, PushKeepsOrder DEF StackInv
<1>5. heap' = BaseLive(n) /\ heap' \subseteq Blocks
  <2>1. heap = BaseLive(n - 1)
    BY <1>1, <1>3 DEF HeapInv, MapLive, HasMap, KeyLive
  <2> QED  BY <1>1, <1>2, <2>1, BaseLiveGrows
<1>6. TypeOK'
  BY <1>1, <1>4, <1>5 DEF TypeOK, Entry
<1>7. StackInv'
  BY <1>1, <1>3, <1>4 DEF StackInv
<1>8. ErrorInv' /\ MapInv'
  BY <1>1, <1>3 DEF ErrorInv, MapInv
<1>9. HeapInv'
  BY <1>1, <1>3, <1>4, <1>5 DEF HeapInv, MapLive, HasMap, KeyLive
<1> QED  BY <1>1, <1>6, <1>7, <1>8, <1>9 DEF Inv, LoaderInv

LEMMA ErrorKeepsInv ==
  ASSUME Inv, Error
  PROVE  Inv'
<1>1. /\ pc \in {"image_path", "json_path", "read", "parse", "reserve", "dupe"}
      /\ pc' = IF pc = "image_path" THEN "return" ELSE "leave"
      /\ failed'
      /\ UNCHANGED <<slices, i, mapping, heap, cleanup, texture, misfreed>>
  BY DEF Error, Fails
<1>2. TypeOK /\ StackInv /\ ErrorInv /\ HeapInv /\ MapInv /\ ~ misfreed
  BY <1>1 DEF Inv, LoaderInv
<1>3. /\ Depth \in 0 .. 5 /\ Depth' = Depth /\ ~ failed /\ ~ texture
      /\ pc = "image_path" => Depth = 0
      /\ pc # "image_path" => Depth >= 1
      /\ pc = "dupe" <=> Depth = 5
  <2>1. Depth' = Depth
    BY <1>1 DEF Depth
  <2>2. ~ failed /\ ~ texture
    BY <1>1, <1>2 DEF ErrorInv
  <2> QED  BY <1>1, <1>2, <2>1, <2>2 DEF StackInv
<1>4. HasMap' = HasMap
  BY <1>1, <1>3 DEF HasMap
<1>5. HeapInv'
  BY <1>1, <1>2, <1>3, <1>4 DEF HeapInv, MapLive, KeyLive, MapBlocks
<1>6. InOrder'
  BY <1>1, <1>2, <1>3 DEF StackInv, InOrder, Statement
<1>7. StackInv'
  BY <1>1, <1>3, <1>6 DEF StackInv
<1>8. failed' \in BOOLEAN
  BY DEF Error, Fails
<1>9. TypeOK'
  BY <1>1, <1>2, <1>8 DEF TypeOK
<1>10. MapInv'
  BY <1>1, <1>2 DEF MapInv
<1>11. ErrorInv'
  BY <1>1, <1>2, <1>3 DEF ErrorInv
<1> QED  BY <1>1, <1>2, <1>5, <1>7, <1>9, <1>10, <1>11 DEF Inv, LoaderInv

LEMMA ReserveKeepsInv ==
  ASSUME Inv, Reserve
  PROVE  Inv'
<1>1. TypeOK /\ StackInv /\ ErrorInv /\ HeapInv /\ MapInv /\ ~ misfreed
  BY DEF Inv, LoaderInv, Reserve
<1>2. /\ pc = "reserve" /\ pc' = "dupe"
      /\ heap' = heap \cup MapBlocks /\ Push(Statement(5))
      /\ UNCHANGED <<slices, i, mapping, failed, texture, misfreed>>
  BY StatementsAre DEF Reserve
<1>3. Depth = 4 /\ ~ failed
  BY <1>1, <1>2 DEF StackInv, ErrorInv
<1>4. cleanup' \in Seq(Entry) /\ Depth' = 5 /\ InOrder'
  BY <1>1, <1>2, <1>3, EntriesAre, PushKeepsOrder DEF StackInv
<1>5. heap' = BaseLive(5) \cup MapBlocks
  BY <1>1, <1>2, <1>3, BaseLiveGrows DEF HeapInv, MapLive, HasMap, KeyLive
<1>6. TypeOK'
  BY <1>1, <1>2, <1>4, <1>5, MapIsApart, BaseLiveGrows DEF TypeOK, Entry
<1>7. StackInv'
  BY <1>2, <1>3, <1>4 DEF StackInv
<1>8. ErrorInv' /\ MapInv'
  BY <1>1, <1>2, <1>3 DEF ErrorInv, MapInv
<1>9. HeapInv'
  BY <1>2, <1>3, <1>4, <1>5 DEF HeapInv, MapLive, HasMap, KeyLive, MapBlocks
<1> QED  BY <1>1, <1>2, <1>6, <1>7, <1>8, <1>9 DEF Inv, LoaderInv

LEMMA DupeKeepsInv ==
  ASSUME Inv, Dupe
  PROVE  Inv'
<1>1. TypeOK /\ StackInv /\ ErrorInv /\ HeapInv /\ MapInv /\ ~ misfreed
  BY DEF Inv, LoaderInv, Dupe
<1>2. /\ pc = "dupe" /\ pc' = "put" /\ i <= Len(slices)
      /\ heap' = heap \cup {Key(i)} /\ Push(Statement(6))
      /\ UNCHANGED <<slices, i, mapping, failed, texture, misfreed>>
  BY StatementsAre DEF Dupe
<1>3. Depth = 5 /\ ~ failed
  BY <1>1, <1>2 DEF StackInv, ErrorInv
<1>4. Statement(6) \in Entry /\ Key(i) \in Blocks
  <2>1. Statement(6) \in Entry
    BY <1>1, <1>2, EntriesAre
  <2>2. Len(slices) \in 0 .. MaxSlices /\ i \in 1 .. MaxSlices + 1
    BY <1>1, FileIsSeq DEF TypeOK
  <2> QED  BY <1>2, <2>1, <2>2, SpriteSheetAssumption DEF Blocks
<1>5. cleanup' \in Seq(Entry) /\ Depth' = 6 /\ InOrder'
  BY <1>1, <1>2, <1>3, <1>4, PushKeepsOrder DEF StackInv
<1>6. heap' = BaseLive(6) \cup MapBlocks \cup {Key(i)}
  BY <1>1, <1>2, <1>3, BaseLiveGrows DEF HeapInv, MapLive, HasMap, KeyLive
<1>7. TypeOK'
  BY <1>1, <1>2, <1>4, <1>5 DEF TypeOK, Entry
<1>8. StackInv'
  BY <1>2, <1>3, <1>5 DEF StackInv
<1>9. ErrorInv' /\ MapInv'
  BY <1>1, <1>2, <1>3 DEF ErrorInv, MapInv
<1>10. HeapInv'
  BY <1>2, <1>3, <1>5, <1>6 DEF HeapInv, MapLive, HasMap, KeyLive, MapBlocks
<1> QED  BY <1>1, <1>2, <1>7, <1>8, <1>9, <1>10 DEF Inv, LoaderInv

(* A name that was not in the map enters it with its own key and bounds.   *)
LEMMA EnterExtends ==
  ASSUME TypeOK, MapInv, i <= Len(slices), slices[i].name \notin DOMAIN mapping,
         Enter(i, i), slices' = slices
  PROVE  /\ DOMAIN mapping' = {slices[n].name : n \in 1 .. i}
         /\ \A n \in 1 .. i : mapping'[slices[n].name] = [key |-> Key(n), bounds |-> n]
         /\ MapBlocks' = MapBlocks \cup {Key(i)}
         /\ DOMAIN mapping' \subseteq Labels
         /\ \A l \in DOMAIN mapping' : mapping'[l] \in [key : Blocks, bounds : 1 .. MaxSlices]
<1> DEFINE name == slices[i].name
           entry == [key |-> Key(i), bounds |-> i]
<1>1. mapping' = [l \in DOMAIN mapping \cup {name} |-> IF l = name THEN entry ELSE mapping[l]]
  BY DEF Enter
<1>2. /\ Len(slices) \in 0 .. MaxSlices /\ i \in 1 .. Len(slices)
      /\ \A n \in 1 .. Len(slices) : slices[n].name \in Labels
  BY FileIsSeq DEF TypeOK, MapInv
<1>3. 1 .. i = (1 .. i - 1) \cup {i}
  BY <1>2, SpriteSheetAssumption
<1>4. name \in Labels /\ Key(i) \in Blocks /\ entry \in [key : Blocks, bounds : 1 .. MaxSlices]
  BY <1>2, SpriteSheetAssumption DEF Blocks
<1> HIDE DEF entry
<1>5. /\ DOMAIN mapping' = DOMAIN mapping \cup {name}
      /\ mapping'[name] = entry
      /\ \A l \in DOMAIN mapping : mapping'[l] = mapping[l]
  BY <1>1
<1>6. DOMAIN mapping' = {slices[n].name : n \in 1 .. i}
  BY <1>3, <1>5 DEF MapInv
<1>7. ASSUME NEW n \in 1 .. i
      PROVE  mapping'[slices[n].name] = [key |-> Key(n), bounds |-> n]
  <2>1. CASE n = i
    BY <1>5, <2>1 DEF entry
  <2>2. CASE n # i
    <3>1. n \in 1 .. i - 1
      BY <1>3, <2>2
    <3>2. slices[n].name \in DOMAIN mapping
      BY <3>1 DEF MapInv
    <3> QED  BY <1>5, <3>1, <3>2 DEF MapInv
  <2> QED  BY <2>1, <2>2
<1>8. MapBlocks' = MapBlocks \cup {Key(i)}
  <2>1. entry.key = Key(i)
    BY DEF entry
  <2>2. {mapping'[l].key : l \in DOMAIN mapping'} = {mapping[l].key : l \in DOMAIN mapping} \cup {Key(i)}
    BY <1>5, <2>1
  <2> QED  BY <2>2 DEF MapBlocks
<1>9. ASSUME NEW l \in DOMAIN mapping'
      PROVE  l \in Labels /\ mapping'[l] \in [key : Blocks, bounds : 1 .. MaxSlices]
  <2>1. CASE l = name
    BY <1>4, <1>5, <2>1
  <2>2. CASE l \in DOMAIN mapping
    BY <1>5, <2>2 DEF TypeOK
  <2> QED  BY <1>5, <2>1, <2>2
<1> QED  BY <1>6, <1>7, <1>8, <1>9

LEMMA PutKeepsInv ==
  ASSUME Inv, Put
  PROVE  Inv'
<1>1. TypeOK /\ StackInv /\ ErrorInv /\ HeapInv /\ MapInv /\ ~ misfreed
  BY DEF Inv, LoaderInv, Put
<1>2. pc = "put" /\ UNCHANGED <<slices, heap, texture, misfreed>>
  BY DEF Put
<1>3. Depth = 6 /\ ~ failed /\ i <= Len(slices) /\ ~ texture
  BY <1>1, <1>2 DEF StackInv, ErrorInv, MapInv
<1>4. heap = BaseLive(6) \cup MapBlocks \cup {Key(i)}
  BY <1>1, <1>2, <1>3 DEF HeapInv, MapLive, HasMap, KeyLive
<1>5. CASE slices[i].name \in DOMAIN mapping
  <2>1. pc' = "leave" /\ failed' = TRUE /\ UNCHANGED <<i, mapping, cleanup>>
    BY <1>5 DEF Put
  <2>2. Depth' = 6 /\ InOrder'
    BY <1>1, <1>3, <2>1 DEF Depth, InOrder, StackInv, Statement
  <2>3. StackInv'
    BY <2>1, <2>2 DEF StackInv
  <2>4. HeapInv'
    BY <1>2, <1>4, <2>1, <2>2 DEF HeapInv, MapLive, HasMap, KeyLive, MapBlocks
  <2>5. TypeOK'
    BY <1>1, <1>2, <2>1 DEF TypeOK
  <2>6. MapInv'
    BY <1>1, <1>2, <2>1 DEF MapInv
  <2>7. ErrorInv'
    BY <1>2, <1>3, <2>1 DEF ErrorInv
  <2> QED  BY <1>1, <1>2, <2>3, <2>4, <2>5, <2>6, <2>7 DEF Inv, LoaderInv
<1>6. CASE slices[i].name \notin DOMAIN mapping
  <2>1. Enter(i, i) /\ UNCHANGED failed
    BY <1>6 DEF Put
  <2>2. /\ DOMAIN mapping' = {slices[n].name : n \in 1 .. i}
        /\ \A n \in 1 .. i : mapping'[slices[n].name] = [key |-> Key(n), bounds |-> n]
        /\ MapBlocks' = MapBlocks \cup {Key(i)}
        /\ DOMAIN mapping' \subseteq Labels
        /\ \A l \in DOMAIN mapping' : mapping'[l] \in [key : Blocks, bounds : 1 .. MaxSlices]
    BY <1>1, <1>2, <1>3, <1>6, <2>1, EnterExtends
  <2>3. CASE slices[i].keys = 1
    <3>1. pc' = "dupe" /\ i' = i + 1 /\ Pop
      BY <1>6, <2>3 DEF Put, NextSlice
    <3>2. cleanup' \in Seq(Entry) /\ Depth' = 5 /\ InOrder'
      BY <1>1, <1>3, <3>1, PopKeepsOrder DEF StackInv
    <3>3. StackInv'
      BY <3>1, <3>2 DEF StackInv
    <3>4. HeapInv'
      BY <1>2, <1>3, <1>4, <2>1, <2>2, <3>1, <3>2, BaseLiveGrows
      DEF HeapInv, MapLive, HasMap, KeyLive
    <3>5. i \in 1 .. Len(slices) /\ Len(slices) \in 0 .. MaxSlices
      BY <1>1, <1>3, FileIsSeq DEF TypeOK, MapInv
    <3>6. i' - 1 = i /\ i' \in 1 .. Len(slices) + 1 /\ i' \in 1 .. MaxSlices + 1
      BY <3>1, <3>5, SpriteSheetAssumption
    <3>7. MapInv'
      BY <1>2, <2>2, <3>1, <3>6 DEF MapInv
    <3>8. TypeOK'
      BY <1>1, <1>2, <2>1, <2>2, <3>1, <3>2, <3>6 DEF TypeOK, Entry
    <3>9. ErrorInv'
      BY <1>2, <1>3, <2>1, <3>1 DEF ErrorInv
    <3> QED  BY <1>1, <1>2, <3>3, <3>4, <3>7, <3>8, <3>9 DEF Inv, LoaderInv
  <2>4. CASE slices[i].keys # 1
    <3>1. pc' = "panicked" /\ UNCHANGED <<i, cleanup>>
      BY <1>6, <2>4 DEF Put
    <3>2. TypeOK'
      BY <1>1, <1>2, <2>1, <2>2, <3>1 DEF TypeOK
    <3> QED  BY <1>1, <1>2, <3>1, <3>2 DEF Inv
  <2> QED  BY <2>3, <2>4
<1> QED  BY <1>5, <1>6

(* What is live and no part of the rest is freed once and leaves the rest. *)
LEMMA FreeLeavesTheRest ==
  ASSUME NEW blocks, NEW rest, Free(blocks), heap = rest \cup blocks,
         rest \cap blocks = {}, ~ misfreed
  PROVE  heap' = rest /\ ~ misfreed'
<1>1. misfreed' = (misfreed \/ ~ (blocks \subseteq heap)) /\ heap' = heap \ blocks
  BY DEF Free
<1>2. blocks \subseteq heap
  OBVIOUS
<1>3. ~ misfreed'
  BY <1>1, <1>2
<1>4. heap' = rest
  BY <1>1
<1> QED  BY <1>3, <1>4

(* A deferred statement frees what is live, and its own only.              *)
LEMMA RunCleanupKeepsInv ==
  ASSUME Inv, RunCleanup
  PROVE  Inv'
<1>1. /\ pc \in {"leave", "return"} /\ Pop
      /\ IF Top.onlyOnError => failed THEN Free(Frees(Top.frees)) ELSE UNCHANGED <<heap, misfreed>>
      /\ UNCHANGED <<slices, pc, i, mapping, failed, texture>>
  BY DEF RunCleanup
<1>2. TypeOK /\ StackInv /\ ErrorInv /\ HeapInv /\ MapInv /\ ~ misfreed
  BY <1>1 DEF Inv, LoaderInv
<1>3. /\ pc = "leave" => Depth > 1
      /\ pc = "return" => Depth = 1
      /\ Depth <= 6 /\ Depth \in Nat
  BY <1>2, StackType DEF RunCleanup, StackInv, Depth
<1>4. PICK n \in 1 .. 6 : Depth = n
  BY <1>1, <1>3
<1>5. cleanup' \in Seq(Entry) /\ Depth' = n - 1 /\ InOrder' /\ Top = Statement(n)
  BY <1>1, <1>2, <1>4, PopKeepsOrder DEF StackInv
<1>6. MapBlocks' = MapBlocks /\ UNCHANGED Key(i)
  BY <1>1 DEF MapBlocks, Key
<1>7. heap' = BaseLive(n - 1) \cup MapLive' \cup KeyLive' /\ heap' \subseteq heap /\ ~ misfreed'
  <2>1. CASE n = 6
    <3>1. failed /\ Top = Errdefer(Key(i))
      BY <1>1, <1>2, <1>3, <1>4, <1>5, <2>1, StatementsAre DEF StackInv
    <3>2. Frees(Top.frees) = {Key(i)}
      BY <3>1, BlocksDiffer DEF Errdefer, Frees, Slices
    <3>3. Free({Key(i)})
      BY <1>1, <3>1, <3>2 DEF Errdefer
    <3>4. heap = BaseLive(6) \cup MapBlocks \cup {Key(i)}
      BY <1>2, <1>4, <2>1, <3>1 DEF HeapInv, MapLive, HasMap, KeyLive
    <3>5. heap' = BaseLive(5) \cup MapBlocks /\ ~ misfreed'
      <4>1. heap = (BaseLive(5) \cup MapBlocks) \cup {Key(i)}
        BY <3>4, BaseLiveGrows
      <4>2. (BaseLive(5) \cup MapBlocks) \cap {Key(i)} = {}
        BY <1>2, MapIsApart, BaseLiveGrows
      <4> QED  BY <1>2, <3>3, <4>1, <4>2, FreeLeavesTheRest
    <3>6. MapLive' = MapBlocks /\ KeyLive' = {}
      BY <1>1, <1>5, <1>6, <2>1, <3>1 DEF MapLive, HasMap, KeyLive
    <3> QED  BY <2>1, <3>3, <3>5, <3>6 DEF Free
  <2>2. CASE n = 5 /\ failed
    <3>1. Top = Errdefer(Slices)
      BY <1>5, <2>2, StatementsAre
    <3>2. Frees(Top.frees) = MapBlocks
      BY <3>1 DEF Errdefer, Frees
    <3>3. Free(MapBlocks)
      BY <1>1, <2>2, <3>2
    <3>4. heap = BaseLive(5) \cup MapBlocks
      BY <1>2, <1>4, <2>2 DEF HeapInv, MapLive, HasMap, KeyLive
    <3>5. heap' = BaseLive(4) /\ ~ misfreed'
      BY <1>2, <3>3, <3>4, MapIsApart, BaseLiveGrows DEF Free
    <3>6. MapLive' = {} /\ KeyLive' = {}
      BY <1>1, <1>5, <2>2 DEF MapLive, HasMap, KeyLive
    <3> QED  BY <2>2, <3>3, <3>5, <3>6 DEF Free
  <2>3. CASE n = 5 /\ ~ failed
    <3>1. Top = Errdefer(Slices)
      BY <1>5, <2>3, StatementsAre
    <3>2. UNCHANGED <<heap, misfreed>>
      BY <1>1, <2>3, <3>1 DEF Errdefer
    <3>3. heap = BaseLive(4) \cup MapBlocks
      BY <1>1, <1>2, <1>4, <2>3, BaseLiveGrows DEF HeapInv, MapLive, HasMap, KeyLive
    <3>4. MapLive' = MapBlocks /\ KeyLive' = {}
      BY <1>1, <1>5, <1>6, <2>3 DEF MapLive, HasMap, KeyLive
    <3> QED  BY <1>2, <2>3, <3>2, <3>3, <3>4
  <2>4. CASE n \in 1 .. 4
    <3>1. Top = Defer(BaseBlock(n))
      BY <1>5, <2>4, StatementsAre
    <3>2. BaseBlock(n) # Slices /\ BaseBlock(n) \notin MapBlocks
      <4>1. BaseBlock(n) \in BaseLive(n)
        BY <2>4, BaseLiveGrows
      <4>2. BaseBlock(n) # Slices
        <5>1. n = 1 \/ n = 2 \/ n = 3 \/ n = 4
          BY <2>4
        <5> QED  BY <5>1, BaseBlocks, BlocksDiffer DEF Slices
      <4> QED  BY <1>2, <4>1, <4>2, MapIsApart
    <3>3. Frees(Top.frees) = {BaseBlock(n)}
      BY <3>1, <3>2 DEF Defer, Frees
    <3>4. Free({BaseBlock(n)})
      BY <1>1, <3>1, <3>3 DEF Defer
    <3>5. heap = BaseLive(n) \cup MapLive
      BY <1>2, <1>4, <2>4 DEF HeapInv, KeyLive
    <3>6. MapLive' = MapLive /\ KeyLive' = {}
      BY <1>1, <1>4, <1>5, <1>6, <2>4 DEF MapLive, HasMap, KeyLive
    <3>7. BaseBlock(n) \notin MapLive
      BY <3>2 DEF MapLive
    <3>8. heap' = BaseLive(n - 1) \cup MapLive /\ ~ misfreed'
      <4>1. /\ BaseLive(n) = BaseLive(n - 1) \cup {BaseBlock(n)}
            /\ BaseBlock(n) \notin BaseLive(n - 1)
        BY <2>4, BaseLiveGrows
      <4>2. heap = (BaseLive(n - 1) \cup MapLive) \cup {BaseBlock(n)}
        BY <3>5, <4>1
      <4>3. (BaseLive(n - 1) \cup MapLive) \cap {BaseBlock(n)} = {}
        BY <3>7, <4>1
      <4> QED  BY <1>2, <3>4, <4>2, <4>3, FreeLeavesTheRest
    <3> QED  BY <3>4, <3>6, <3>8 DEF Free
  <2> QED  BY <2>1, <2>2, <2>3, <2>4
<1>8. HeapInv'
  BY <1>5, <1>7 DEF HeapInv
<1>9. StackInv'
  BY <1>1, <1>2, <1>3, <1>4, <1>5 DEF StackInv
<1>10. misfreed' \in BOOLEAN
  BY <1>1, <1>2 DEF Free, TypeOK
<1>11. TypeOK'
  BY <1>1, <1>2, <1>5, <1>7, <1>10 DEF TypeOK, Entry
<1>12. MapInv'
  BY <1>1, <1>2 DEF MapInv
<1>13. ErrorInv'
  BY <1>1, <1>2 DEF ErrorInv
<1> QED  BY <1>7, <1>8, <1>9, <1>11, <1>12, <1>13 DEF Inv, LoaderInv

LEMMA ReturnKeepsInv ==
  ASSUME Inv, ReturnSlices \/ SliceFailed \/ LoadTexture \/ Return
  PROVE  Inv'
<1>1. /\ UNCHANGED <<slices, i, mapping, heap, cleanup, failed, misfreed>>
      /\ \/ pc = "dupe" /\ i > Len(slices) /\ pc' = "leave" /\ texture' = texture
         \/ pc = "leave" /\ Depth = 1 /\ failed /\ pc' = "return" /\ texture' = texture
         \/ pc = "leave" /\ Depth = 1 /\ ~ failed /\ pc' = "return" /\ texture' = TRUE
         \/ pc = "return" /\ Depth = 0 /\ failed /\ pc' = "failed" /\ texture' = texture
         \/ pc = "return" /\ Depth = 0 /\ ~ failed /\ pc' = "loaded" /\ texture' = texture
  BY DEF ReturnSlices, SliceFailed, LoadTexture, Return, Depth
<1>2. TypeOK /\ StackInv /\ ErrorInv /\ HeapInv /\ MapInv /\ ~ misfreed
  BY <1>1 DEF Inv, LoaderInv
<1>3. Depth' = Depth /\ InOrder'
  BY <1>1, <1>2 DEF Depth, StackInv, InOrder, Statement
<1>4. StackInv'
  BY <1>1, <1>2, <1>3 DEF StackInv
<1>5. ErrorInv'
  BY <1>1, <1>2 DEF ErrorInv
<1>6. HasMap' = HasMap
  BY <1>1, <1>2, <1>3 DEF HasMap, ErrorInv
<1>7. HeapInv'
  BY <1>1, <1>2, <1>3, <1>6 DEF HeapInv, MapLive, KeyLive, MapBlocks
<1>8. Len(slices) \in Nat
  BY <1>2, FileIsSeq, SpriteSheetAssumption DEF TypeOK
<1>9. MapInv'
  BY <1>1, <1>2, <1>8 DEF MapInv
<1>10. pc' \in {"leave", "return", "failed", "loaded"} /\ texture' \in BOOLEAN
  BY <1>1, <1>2 DEF TypeOK
<1>11. TypeOK'
  BY <1>1, <1>2, <1>10 DEF TypeOK
<1> QED  BY <1>1, <1>2, <1>4, <1>5, <1>7, <1>9, <1>11 DEF Inv, LoaderInv

LEMMA DeinitKeepsInv ==
  ASSUME Inv, deinit
  PROVE  Inv'
<1>1. /\ pc = "loaded" /\ pc' = "deinited" /\ Free(MapBlocks) /\ texture' = FALSE
      /\ UNCHANGED <<slices, i, mapping, cleanup, failed>>
  BY DEF deinit
<1>2. TypeOK /\ StackInv /\ ErrorInv /\ HeapInv /\ MapInv /\ ~ misfreed
  BY <1>1 DEF Inv, LoaderInv
<1>3. Depth = 0 /\ Depth' = 0 /\ ~ failed
  BY <1>1, <1>2 DEF StackInv, ErrorInv, Depth
<1>4. heap = MapBlocks
  BY <1>1, <1>2, <1>3, BaseLiveGrows DEF HeapInv, MapLive, HasMap, KeyLive
<1>5. heap' = {} /\ ~ misfreed'
  <2>1. heap = {} \cup MapBlocks /\ {} \cap MapBlocks = {}
    BY <1>4
  <2> QED  BY <1>1, <1>2, <2>1, FreeLeavesTheRest
<1>6. HeapInv'
  BY <1>1, <1>3, <1>5, BaseLiveGrows DEF HeapInv, MapLive, HasMap, KeyLive
<1>7. InOrder'
  BY <1>1, <1>2, <1>3 DEF StackInv, InOrder, Statement
<1>8. StackInv'
  BY <1>1, <1>3, <1>7 DEF StackInv
<1>9. misfreed' \in BOOLEAN
  BY <1>1, <1>2 DEF Free, TypeOK
<1>10. TypeOK' /\ MapInv' /\ ErrorInv'
  <2>1. TypeOK'
    BY <1>1, <1>2, <1>5, <1>9 DEF TypeOK
  <2>2. MapInv'
    BY <1>1, <1>2 DEF MapInv
  <2>3. ErrorInv'
    BY <1>1, <1>3 DEF ErrorInv
  <2> QED  BY <2>1, <2>2, <2>3
<1> QED  BY <1>5, <1>6, <1>8, <1>10 DEF Inv, LoaderInv

LEMMA NextInv ==
  Inv /\ [Next]_vars => Inv'
<1> SUFFICES ASSUME Inv, [Next]_vars PROVE Inv'
  OBVIOUS
<1>1. CASE ImagePath
  BY <1>1, TryAllocKeepsInv DEF ImagePath
<1>2. CASE JsonPath
  BY <1>2, TryAllocKeepsInv DEF JsonPath
<1>3. CASE ReadFile
  BY <1>3, TryAllocKeepsInv DEF ReadFile
<1>4. CASE Parse
  BY <1>4, TryAllocKeepsInv DEF Parse
<1>5. CASE Error \/ Reserve \/ Dupe \/ Put \/ RunCleanup \/ deinit
  BY <1>5, ErrorKeepsInv, ReserveKeepsInv, DupeKeepsInv, PutKeepsInv,
     RunCleanupKeepsInv, DeinitKeepsInv
<1>6. CASE ReturnSlices \/ SliceFailed \/ LoadTexture \/ Return
  BY <1>6, ReturnKeepsInv
<1>7. CASE UNCHANGED vars
  BY <1>7 DEF vars, Inv, TypeOK, LoaderInv, StackInv, InOrder, Depth, Statement, ErrorInv,
              HeapInv, MapLive, HasMap, KeyLive, MapBlocks, MapInv
<1> QED  BY <1>1, <1>2, <1>3, <1>4, <1>5, <1>6, <1>7 DEF Next, Terminated

-----------------------------------------------------------------------------
LEMMA InvHolds ==
  Spec => []Inv
  BY InitInv, NextInv, PTL DEF Spec

(* Every variable of the loader keeps its type.                            *)
THEOREM TypeCorrect ==
  Spec => []TypeOK
<1>1. Inv => TypeOK
  BY DEF Inv
<1> QED  BY <1>1, InvHolds, PTL

(* However long the file and whichever statement of loadSlice or           *)
(* loadSpriteSheet fails, no block is freed twice or without having been   *)
(* allocated.                                                              *)
THEOREM EveryBlockIsFreedOnce ==
  Spec => []FreedOnce
<1>1. Inv => FreedOnce
  BY DEF Inv, FreedOnce
<1> QED  BY <1>1, InvHolds, PTL

(* An error gives back all memory, so does deinit, and a loaded sheet owns *)
(* no more than its table and its keys.                                    *)
THEOREM MemoryIsGivenBack ==
  Spec => []NothingLeaks
<1>1. Inv => NothingLeaks
  <2> SUFFICES ASSUME Inv, pc \in {"failed", "loaded", "deinited"} PROVE NothingLeaks
    BY DEF NothingLeaks
  <2>1. StackInv /\ ErrorInv /\ HeapInv
    BY DEF Inv, LoaderInv
  <2>2. Depth = 0
    BY <2>1 DEF StackInv
  <2>3. heap = MapLive
    BY <2>1, <2>2, BaseLiveGrows DEF HeapInv, KeyLive
  <2> QED  BY <2>1, <2>2, <2>3 DEF NothingLeaks, ErrorInv, MapLive, HasMap
<1> QED  BY <1>1, InvHolds, PTL

(* A loaded sheet has every slice of the file under its name with its own  *)
(* bounds.                                                                 *)
THEOREM SheetsAreTheirFiles ==
  Spec => []SheetIsTheFile
<1>1. Inv => SheetIsTheFile
  <2> SUFFICES ASSUME Inv, pc \in {"loaded", "deinited"} PROVE SheetIsTheFile
    BY DEF SheetIsTheFile
  <2>1. ErrorInv /\ MapInv /\ TypeOK
    BY DEF Inv, LoaderInv
  <2>2. i = Len(slices) + 1 /\ Len(slices) \in Nat
    BY <2>1, FileIsSeq, SpriteSheetAssumption DEF ErrorInv, MapInv, TypeOK
  <2>3. i - 1 = Len(slices)
    BY <2>2
  <2>4. \A n \in 1 .. Len(slices) : mapping[slices[n].name] = [key |-> Key(n), bounds |-> n]
    BY <2>1, <2>3 DEF MapInv
  <2>5. ASSUME NEW n \in 1 .. Len(slices)  PROVE mapping[slices[n].name].bounds = n
    <3>1. mapping[slices[n].name] = [key |-> Key(n), bounds |-> n]
      BY <2>4
    <3> QED  BY <3>1
  <2> QED  BY <2>1, <2>3, <2>5 DEF MapInv, SheetIsTheFile
<1> QED  BY <1>1, InvHolds, PTL
=============================================================================
