----------------------------- MODULE SendBuffer -----------------------------
(***************************************************************************)
(* The buffer in which the Tracy client collects what it sends, and the    *)
(* history LZ4 refers back to.  Items are appended to m_buffer; when a     *)
(* frame is full it is compressed and sent, and the next one is collected  *)
(* behind it, or at the beginning of the buffer once two thirds are used.  *)
(* The compressor keeps no copy of earlier frames: it writes references    *)
(* to them and reads them where they were.                                 *)
(*                                                                         *)
(* Bytes are numbered as they are appended; a cell of the buffer holds the *)
(* number of its byte.  The compressed text is left out.                   *)
(***************************************************************************)
EXTENDS Integers

CONSTANTS
  TargetFrameSize,
  Window,          (* 64 KB: how far back LZ4 refers                        *)
  HashUnit,        (* 4: shorter dictionaries are of no use                 *)
  OffsetLimit,     (* 0x80000000: when LZ4's positions are renumbered       *)
  MaxAppended      (* bound of the model: bytes appended                    *)

ASSUME SendBufferAssumption ==
  /\ TargetFrameSize \in Nat \ {0} /\ Window \in Nat \ {0}
  /\ HashUnit \in Nat \ {0, 1}
  /\ OffsetLimit \in Nat /\ Window + TargetFrameSize <= OffsetLimit
  /\ MaxAppended \in Nat

VARIABLES
  buffer, bufferOffset, bufferStart,  (* m_buffer, m_bufferOffset, m_bufferStart *)
  stream,                             (* of m_stream: where its history is       *)
  appended, sent                      (* history: bytes appended and sent        *)

vars == <<buffer, bufferOffset, bufferStart, stream, appended, sent>>

Cells == 0 .. 3 * TargetFrameSize - 1

Pending == bufferOffset - bufferStart

Smaller(a, b) == IF a < b THEN a ELSE b

-----------------------------------------------------------------------------
(* LZ4_compress_fast_continue: what becomes of a stream s when n bytes at  *)
(* source are compressed.                                                  *)

Nowhere == -1

DictEnd(s) == IF s.dictSize = 0 THEN Nowhere ELSE s.dictionary + s.dictSize

(* Mutant: positions are renumbered and the dictionary keeps its length. *)
Renormed_KeepsAll(s, n) ==
  IF s.currentOffset + n > OffsetLimit THEN [s EXCEPT !.currentOffset = Window] ELSE s

(* LZ4_renormDictT: before positions overflow. *)
Renormed(s, n) ==
  LET size == Smaller(s.dictSize, Window) IN
  IF s.currentOffset + n > OffsetLimit
  THEN [dictionary |-> s.dictionary + s.dictSize - size, dictSize |-> size,
        currentOffset |-> Window]
  ELSE s

(* "invalidate tiny dictionaries" that do not precede the source. *)
Tiny(s, source, n) == s.dictSize < HashUnit /\ DictEnd(s) # source /\ n > 0

(* Mutant: the input may lie over the dictionary. *)
WithoutOverlap_Skipped(s, sourceEnd) == s

(* "Check overlapping input/dictionary space" *)
WithoutOverlap(s, sourceEnd) ==
  LET rest == Smaller(DictEnd(s) - sourceEnd, Window)
      size == IF rest < HashUnit THEN 0 ELSE rest
  IN  IF s.dictionary < sourceEnd /\ sourceEnd < DictEnd(s)
      THEN [dictionary |-> DictEnd(s) - size, dictSize |-> size, currentOffset |-> s.currentOffset]
      ELSE s

(* The dictionary the compressor works with, *)
Usable(s, source, n) ==
  LET r == Renormed(s, n) IN
  IF Tiny(r, source, n)
  THEN [dictionary |-> source, dictSize |-> 0, currentOffset |-> r.currentOffset]
  ELSE WithoutOverlap(r, source + n)

(* and whether the source directly follows it. *)
PrefixMode(s, source, n) ==
  LET r == Renormed(s, n) IN Tiny(r, source, n) \/ DictEnd(r) = source

Compressed(s, source, n) ==
  LET u == Usable(s, source, n) IN
  [dictionary    |-> IF PrefixMode(s, source, n) THEN u.dictionary ELSE source,
   dictSize      |-> IF PrefixMode(s, source, n) THEN u.dictSize + n ELSE n,
   currentOffset |-> u.currentOffset + n]

-----------------------------------------------------------------------------
(* A session begins with LZ4_resetStream. *)
Init ==
  /\ buffer = [i \in Cells |-> 0]
  /\ bufferOffset = 0 /\ bufferStart = 0
  /\ stream = [dictionary |-> 0, dictSize |-> 0, currentOffset |-> 0]
  /\ appended = 0 /\ sent = 0

NextStart == IF bufferOffset > TargetFrameSize * 2 THEN 0 ELSE bufferOffset

(* Mutant: the start is set before the offset goes back to 0. *)
Send_StartFirst ==
  /\ stream' = Compressed(stream, bufferStart, Pending)
  /\ sent' = sent + Pending
  /\ bufferStart' = bufferOffset

(* CommitData, which goes on the same way when the connection is lost. *)
Send ==
  /\ stream' = Compressed(stream, bufferStart, Pending)
  /\ sent' = sent + Pending
  /\ bufferStart' = NextStart

(* AppendDataUnsafe: len bytes at a place. *)
Write(at, len) ==
  /\ buffer' = [i \in Cells |-> IF at <= i /\ i < at + len THEN appended + 1 + (i - at)
                                ELSE buffer[i]]
  /\ bufferOffset' = at + len
  /\ appended' = appended + len

NeedsCommit(len) == Pending + len > TargetFrameSize

(* An item with what belongs to it, for which NeedDataSize makes room.     *)
AppendData(len) ==
  /\ appended + len <= MaxAppended
  /\ \/ NeedsCommit(len) /\ Send /\ Write(NextStart, len)
     \/ ~ NeedsCommit(len) /\ Write(bufferOffset, len)
        /\ UNCHANGED <<bufferStart, stream, sent>>

(* The worker has nothing to dequeue. *)
Flush ==
  /\ Pending # 0
  /\ Send /\ bufferOffset' = NextStart
  /\ UNCHANGED <<buffer, appended>>

(* The terminate notice is compressed where it is, a variable of the       *)
(* caller, past whatever is collected.                                     *)
Elsewhere == 3 * TargetFrameSize + 1

SendTerminate ==
  /\ stream' = Compressed(stream, Elsewhere, 1)
  /\ UNCHANGED <<buffer, bufferOffset, bufferStart, appended, sent>>

Next == Flush \/ SendTerminate \/ \E len \in 1 .. TargetFrameSize : AppendData(len)

Spec == Init /\ [][Next]_vars

-----------------------------------------------------------------------------
(* Type invariant: the collected frame lies in the buffer, and another of  *)
(* full size has room behind the start.                                    *)
TypeOK ==
  /\ bufferStart \in 0 .. 2 * TargetFrameSize
  /\ bufferOffset \in bufferStart .. 3 * TargetFrameSize
  /\ stream.dictionary \in Nat /\ stream.dictSize \in Nat /\ stream.currentOffset \in Nat
  /\ sent \in Nat /\ appended \in Nat

(* A frame is never larger than what the receiver and m_lz4Buf have room   *)
(* for.                                                                    *)
FramesFit == Pending <= TargetFrameSize

(* Every byte is sent once and in order: what is collected is what was     *)
(* appended after what was sent.                                           *)
SentInOrder ==
  /\ appended = sent + Pending
  /\ \A i \in bufferStart .. bufferOffset - 1 : buffer[i] = sent + 1 + (i - bufferStart)

(* Whatever LZ4 may refer to when the frame is sent is still in the buffer *)
(* where it looks for it: the last bytes sent, not overwritten.            *)
HistoryIntact ==
  LET u == Usable(stream, bufferStart, Pending)
      end == u.dictionary + u.dictSize
  IN  Pending # 0 => \A k \in 1 .. Smaller(u.dictSize, Window) :
        end - k \in Cells /\ buffer[end - k] = sent + 1 - k

(* LZ4's positions stay below the limit, and the dictionary never begins   *)
(* before position 0 (prefixIdxLimit is unsigned).                         *)
PositionsFit ==
  LET u == Usable(stream, bufferStart, Pending) IN
  /\ u.currentOffset + Pending <= OffsetLimit
  /\ u.dictSize <= u.currentOffset
=============================================================================
