-------------------------- MODULE SendBufferProofs --------------------------
(***************************************************************************)
(* Proofs about SendBuffer, for every size of frames, window and buffer.   *)
(***************************************************************************)
EXTENDS SendBuffer, TLAPS

Stream == [dictionary : Nat, dictSize : Nat, currentOffset : Nat]

(* The last bytes sent lie in the cells before `end`, from `first` on, but *)
(* for those below `limit`, which were written since.                      *)
Holds(first, end, limit) ==
  \A i \in Cells : (first <= i /\ limit <= i /\ i < end) => buffer[i] = sent + 1 - (end - i)

(* Where the history is: right before the start, or, once the buffer was   *)
(* wound back, in its last third; or it is the terminate notice alone.     *)
History ==
  \/ stream.dictSize = 0
  \/ /\ stream.dictionary + stream.dictSize = bufferStart
     /\ Holds(stream.dictionary, bufferStart, 0)
  \/ /\ bufferStart = 0
     /\ stream.dictionary + stream.dictSize \in 2 * TargetFrameSize + 1 .. 3 * TargetFrameSize
     /\ Holds(stream.dictionary, stream.dictionary + stream.dictSize, bufferOffset)
  \/ stream.dictionary = Elsewhere /\ stream.dictSize = 1

Positions == stream.dictSize <= stream.currentOffset /\ stream.currentOffset <= OffsetLimit

(* The invariant that is inductive: that of the runs with History for      *)
(* HistoryIntact, since the dictionary is looked at when it is used only.  *)
Inv ==
  /\ buffer \in [Cells -> Int] /\ stream \in Stream
  /\ TypeOK /\ FramesFit /\ SentInOrder /\ History /\ Positions

(***************************************************************************)
(* Lemmas about LZ4's bookkeeping.                                         *)
(***************************************************************************)

(* Renumbering keeps the end of the dictionary and shortens it at most.    *)
LEMMA RenormKeepsEnd ==
  ASSUME NEW s \in Stream, NEW n \in 0 .. TargetFrameSize,
         s.dictSize <= s.currentOffset, s.currentOffset <= OffsetLimit
  PROVE  /\ Renormed(s, n) \in Stream
         /\ Renormed(s, n).dictionary + Renormed(s, n).dictSize = s.dictionary + s.dictSize
         /\ s.dictionary <= Renormed(s, n).dictionary
         /\ Renormed(s, n).dictSize <= Renormed(s, n).currentOffset
         /\ Renormed(s, n).currentOffset + n <= OffsetLimit
         /\ Renormed(s, n).dictSize <= s.dictSize
         /\ s.dictSize # 0 => Renormed(s, n).dictSize # 0
  BY SendBufferAssumption DEF Renormed, Stream, Smaller

(* The dictionary that is used is an end of the old one, or empty, and     *)
(* does not reach into the input unless it lies right before it.           *)
LEMMA UsableIsEnd ==
  ASSUME NEW s \in Stream, NEW n \in 0 .. TargetFrameSize, NEW source \in Nat,
         s.dictSize <= s.currentOffset, s.currentOffset <= OffsetLimit
  PROVE  /\ Usable(s, source, n) \in Stream
         /\ Usable(s, source, n).dictSize <= Usable(s, source, n).currentOffset
         /\ Usable(s, source, n).currentOffset + n <= OffsetLimit
         /\ \/ Usable(s, source, n).dictSize = 0
            \/ /\ s.dictSize # 0
               /\ Usable(s, source, n).dictionary + Usable(s, source, n).dictSize
                    = s.dictionary + s.dictSize
               /\ s.dictionary <= Usable(s, source, n).dictionary
               /\ \/ source + n <= Usable(s, source, n).dictionary
                  \/ s.dictionary + s.dictSize <= source + n
<1> DEFINE r == Renormed(s, n)
<1>1. /\ r \in Stream
      /\ r.dictionary + r.dictSize = s.dictionary + s.dictSize
      /\ s.dictionary <= r.dictionary
      /\ r.dictSize <= r.currentOffset
      /\ r.currentOffset + n <= OffsetLimit
      /\ s.dictSize = 0 => r.dictSize = 0
  BY RenormKeepsEnd DEF Stream
<1>2. Usable(s, source, n) = IF Tiny(r, source, n)
                             THEN [dictionary |-> source, dictSize |-> 0, currentOffset |-> r.currentOffset]
                             ELSE WithoutOverlap(r, source + n)
  BY DEF Usable
<1> HIDE DEF r
<1>3. CASE Tiny(r, source, n)
  BY <1>1, <1>2, <1>3 DEF Stream
<1>4. CASE ~ Tiny(r, source, n)
  <2>1. CASE r.dictionary < source + n /\ source + n < DictEnd(r)
    <3> DEFINE rest == Smaller(DictEnd(r) - (source + n), Window)
               size == IF rest < HashUnit THEN 0 ELSE rest
    <3>1. /\ r.dictSize # 0 /\ DictEnd(r) = r.dictionary + r.dictSize
          /\ r.dictionary + r.dictSize \in Nat
      BY <1>1, <2>1, SendBufferAssumption DEF DictEnd, Nowhere, Stream
    <3>2. /\ rest \in Nat /\ rest <= DictEnd(r) - (source + n)
      BY <1>1, <2>1, <3>1, SendBufferAssumption DEF Smaller, Stream
    <3>3. /\ size \in Nat /\ size <= DictEnd(r) - (source + n)
      BY <3>1, <3>2, <2>1, SendBufferAssumption
    <3>4. Usable(s, source, n) = [dictionary |-> DictEnd(r) - size, dictSize |-> size,
                                  currentOffset |-> r.currentOffset]
      BY <1>2, <1>4, <2>1 DEF WithoutOverlap
    <3> HIDE DEF size
    <3> QED  BY <1>1, <2>1, <3>1, <3>3, <3>4, SendBufferAssumption DEF Stream
  <2>2. CASE ~ (r.dictionary < source + n /\ source + n < DictEnd(r))
    <3>1. Usable(s, source, n) = r
      BY <1>2, <1>4, <2>2 DEF WithoutOverlap
    <3> QED  BY <1>1, <2>2, <3>1 DEF DictEnd, Nowhere, Stream
  <2> QED  BY <2>1, <2>2
<1> QED  BY <1>3, <1>4
(* In prefix mode the dictionary ends where the source begins.             *)
LEMMA PrefixMeetsSource ==
  ASSUME NEW s \in Stream, NEW n \in 0 .. TargetFrameSize, NEW source \in Nat,
         s.dictSize <= s.currentOffset, s.currentOffset <= OffsetLimit,
         PrefixMode(s, source, n)
  PROVE  Usable(s, source, n).dictionary + Usable(s, source, n).dictSize = source
<1> DEFINE r == Renormed(s, n)
<1>1. r \in Stream
  BY RenormKeepsEnd DEF Stream
<1>2. Usable(s, source, n) = IF Tiny(r, source, n)
                             THEN [dictionary |-> source, dictSize |-> 0, currentOffset |-> r.currentOffset]
                             ELSE WithoutOverlap(r, source + n)
  BY DEF Usable
<1>3. Tiny(r, source, n) \/ DictEnd(r) = source
  BY DEF PrefixMode
<1> HIDE DEF r
<1>4. CASE Tiny(r, source, n)
  BY <1>2, <1>4
<1>5. CASE ~ Tiny(r, source, n) /\ DictEnd(r) = source
  <2>1. WithoutOverlap(r, source + n) = r
    BY <1>5 DEF WithoutOverlap
  <2> QED  BY <1>1, <1>2, <1>5, <2>1 DEF DictEnd, Nowhere, Stream
<1> QED  BY <1>3, <1>4, <1>5

(* A dictionary too short for a hash is dropped unless it precedes the     *)
(* source.                                                                 *)
LEMMA TinyIsDropped ==
  ASSUME NEW s \in Stream, NEW n \in 1 .. TargetFrameSize, NEW source \in Nat,
         s.dictSize <= s.currentOffset, s.currentOffset <= OffsetLimit,
         s.dictSize < HashUnit, s.dictionary + s.dictSize # source
  PROVE  Usable(s, source, n).dictSize = 0
<1> DEFINE r == Renormed(s, n)
<1>1. /\ r \in Stream /\ r.dictSize <= s.dictSize
      /\ r.dictionary + r.dictSize = s.dictionary + s.dictSize
  BY RenormKeepsEnd DEF Stream
<1>2. Usable(s, source, n) = IF Tiny(r, source, n)
                             THEN [dictionary |-> source, dictSize |-> 0, currentOffset |-> r.currentOffset]
                             ELSE WithoutOverlap(r, source + n)
  BY DEF Usable
<1> HIDE DEF r
<1>3. Tiny(r, source, n)
  BY <1>1, SendBufferAssumption DEF Tiny, DictEnd, Nowhere, Stream
<1> QED  BY <1>2, <1>3

(***************************************************************************)
(* Sending, as far as it does not depend on what is written next.          *)
(***************************************************************************)

(* The frame that was sent joins the history, or is all of it.             *)
LEMMA SendExtendsHistory ==
  ASSUME Inv, Send, Pending # 0
  PROVE  /\ stream' \in Stream /\ Positions'
         /\ stream'.dictionary + stream'.dictSize = bufferOffset
         /\ \A i \in Cells : (stream'.dictionary <= i /\ i < bufferOffset) =>
              buffer[i] = sent' + 1 - (bufferOffset - i)
<1> DEFINE n == Pending
           u == Usable(stream, bufferStart, n)
<1>1. /\ n \in 0 .. TargetFrameSize /\ bufferStart \in Nat /\ bufferOffset = bufferStart + n
      /\ stream \in Stream /\ stream.dictSize <= stream.currentOffset
      /\ stream.currentOffset <= OffsetLimit /\ sent \in Nat /\ sent' = sent + n
  BY SendBufferAssumption DEF Inv, TypeOK, FramesFit, Pending, Positions, Send
<1>2. /\ u \in Stream /\ u.dictSize <= u.currentOffset /\ u.currentOffset + n <= OffsetLimit
      /\ \/ u.dictSize = 0
         \/ /\ stream.dictSize # 0
            /\ u.dictionary + u.dictSize = stream.dictionary + stream.dictSize
            /\ stream.dictionary <= u.dictionary
  BY <1>1, UsableIsEnd
<1>3. stream' = [dictionary    |-> IF PrefixMode(stream, bufferStart, n) THEN u.dictionary
                                   ELSE bufferStart,
                 dictSize      |-> IF PrefixMode(stream, bufferStart, n) THEN u.dictSize + n ELSE n,
                 currentOffset |-> u.currentOffset + n]
  BY DEF Send, Compressed
<1>4. \A i \in Cells : (bufferStart <= i /\ i < bufferOffset) =>
        buffer[i] = sent' + 1 - (bufferOffset - i)
  BY <1>1, SendBufferAssumption DEF Inv, SentInOrder, Cells
<1> HIDE DEF n, u
<1>5. CASE PrefixMode(stream, bufferStart, n)
  <2>1. u.dictionary + u.dictSize = bufferStart
    BY <1>1, <1>5, PrefixMeetsSource DEF u
  <2>2. /\ stream'.dictionary = u.dictionary /\ stream'.dictSize = u.dictSize + n
        /\ stream'.currentOffset = u.currentOffset + n
    BY <1>3, <1>5
  <2>3. \A i \in Cells : (u.dictionary <= i /\ i < bufferStart) =>
          buffer[i] = sent + 1 - (bufferStart - i)
    <3>1. CASE u.dictSize = 0
      BY <1>1, <1>2, <2>1, <3>1, SendBufferAssumption DEF Stream, Cells
    <3>2. CASE u.dictSize # 0
      <4>1. /\ stream.dictSize # 0 /\ stream.dictionary + stream.dictSize = bufferStart
            /\ stream.dictionary <= u.dictionary
        BY <1>2, <2>1, <3>2
      <4>2. stream.dictionary # Elsewhere
        BY <1>1, <4>1, SendBufferAssumption DEF Inv, TypeOK, Elsewhere
      <4>3. Holds(stream.dictionary, bufferStart, 0)
        BY <1>1, <4>1, <4>2, SendBufferAssumption DEF Inv, History
      <4> QED  BY <1>1, <1>2, <4>1, <4>3, SendBufferAssumption DEF Holds, Cells, Stream
    <3> QED  BY <3>1, <3>2
  <2>4. \A i \in Cells : (u.dictionary <= i /\ i < bufferOffset) =>
          buffer[i] = sent' + 1 - (bufferOffset - i)
    BY <1>1, <1>2, <1>4, <2>1, <2>3, SendBufferAssumption DEF Cells, Stream
  <2>5. stream' \in Stream /\ stream'.dictionary + stream'.dictSize = bufferOffset
    BY <1>1, <1>2, <1>3, <1>5, <2>1 DEF Stream
  <2>6. Positions'
    BY <1>1, <1>2, <2>2, SendBufferAssumption DEF Positions, Stream
  <2> QED  BY <2>2, <2>4, <2>5, <2>6
<1>6. CASE ~ PrefixMode(stream, bufferStart, n)
  <2>1. /\ stream'.dictionary = bufferStart /\ stream'.dictSize = n
        /\ stream'.currentOffset = u.currentOffset + n
    BY <1>3, <1>6
  <2>2. stream' \in Stream
    BY <1>1, <1>2, <1>3, <1>6 DEF Stream
  <2>3. Positions'
    BY <1>1, <1>2, <2>1, SendBufferAssumption DEF Positions, Stream
  <2> QED  BY <1>1, <1>4, <2>1, <2>2, <2>3
<1> QED  BY <1>5, <1>6

(* The next frame begins behind the last one or at 0.                      *)
LEMMA NextStartFits ==
  ASSUME Inv
  PROVE  /\ NextStart \in 0 .. 2 * TargetFrameSize
         /\ NextStart = bufferOffset \/ (NextStart = 0 /\ bufferOffset > 2 * TargetFrameSize)
  BY SendBufferAssumption DEF Inv, TypeOK, NextStart

(* Writing touches the cells it is given only.                             *)
LEMMA WriteWrites ==
  ASSUME Inv, NEW at \in 0 .. 3 * TargetFrameSize, NEW len \in 1 .. TargetFrameSize, Write(at, len)
  PROVE  /\ buffer' \in [Cells -> Int]
         /\ \A i \in Cells : (at <= i /\ i < at + len) => buffer'[i] = appended + 1 + (i - at)
         /\ \A i \in Cells : (i < at \/ at + len <= i) => buffer'[i] = buffer[i]
         /\ bufferOffset' = at + len /\ appended' = appended + len /\ appended \in Nat
  BY SendBufferAssumption DEF Inv, Write, Cells, TypeOK
(***************************************************************************)
(* The invariant.                                                          *)
(***************************************************************************)

LEMMA InitInv == Init => Inv
  BY SendBufferAssumption
  DEF Init, Inv, Stream, TypeOK, FramesFit, SentInOrder, Pending, History, Positions, Cells

(* After a frame was sent, with the next one at its beginning.             *)
LEMMA SentHistory ==
  ASSUME Inv, Send, Pending # 0, bufferOffset' \in NextStart .. NextStart + TargetFrameSize,
         buffer' \in [Cells -> Int],
         \A i \in Cells : (i < NextStart \/ bufferOffset' <= i) => buffer'[i] = buffer[i]
  PROVE  History'
<1> DEFINE end == stream'.dictionary + stream'.dictSize
<1>1. /\ stream' \in Stream /\ end = bufferOffset
      /\ \A i \in Cells : (stream'.dictionary <= i /\ i < bufferOffset) =>
           buffer[i] = sent' + 1 - (bufferOffset - i)
  BY SendExtendsHistory
<1>2. bufferStart' = NextStart /\ bufferOffset \in 0 .. 3 * TargetFrameSize
  BY SendBufferAssumption DEF Send, Inv, TypeOK
<1>3. CASE NextStart = bufferOffset
  <2>1. \A i \in Cells : i < bufferOffset => buffer'[i] = buffer[i]
    BY <1>3
  <2>2. \A i \in Cells : (stream'.dictionary <= i /\ 0 <= i /\ i < bufferStart') =>
          buffer'[i] = sent' + 1 - (bufferStart' - i)
    BY <1>1, <1>2, <1>3, <2>1
  <2> QED  BY <1>1, <1>2, <1>3, <2>2 DEF History, Holds
<1>4. CASE NextStart = 0 /\ bufferOffset > 2 * TargetFrameSize
  <2>1. \A i \in Cells : bufferOffset' <= i => buffer'[i] = buffer[i]
    OBVIOUS
  <2>2. \A i \in Cells : (stream'.dictionary <= i /\ bufferOffset' <= i /\ i < end) =>
          buffer'[i] = sent' + 1 - (end - i)
    BY <1>1, <2>1
  <2>3. end \in 2 * TargetFrameSize + 1 .. 3 * TargetFrameSize
    BY <1>1, <1>2, <1>4, SendBufferAssumption
  <2> QED  BY <1>2, <1>4, <2>2, <2>3 DEF History, Holds
<1> QED  BY <1>3, <1>4, NextStartFits

LEMMA FlushInv == Inv /\ Flush => Inv'
<1> SUFFICES ASSUME Inv, Flush  PROVE Inv'
  OBVIOUS
<1>1. /\ Pending # 0 /\ Send /\ bufferOffset' = NextStart /\ bufferStart' = NextStart
      /\ buffer' = buffer /\ appended' = appended /\ sent' = sent + Pending
  BY DEF Flush, Send
<1>2. stream' \in Stream /\ Positions'
  BY <1>1, SendExtendsHistory
<1>3. NextStart \in 0 .. 2 * TargetFrameSize
  BY NextStartFits
<1>4. TypeOK' /\ FramesFit' /\ buffer' \in [Cells -> Int]
  BY <1>1, <1>2, <1>3, SendBufferAssumption DEF Inv, TypeOK, FramesFit, Pending, Stream
<1>5. SentInOrder'
  BY <1>1, <1>3, SendBufferAssumption DEF Inv, TypeOK, SentInOrder, Pending
<1>6. History'
  BY <1>1, <1>3, <1>4, SentHistory, SendBufferAssumption
<1> QED  BY <1>2, <1>4, <1>5, <1>6 DEF Inv

LEMMA AppendAndSendInv ==
  ASSUME Inv, NEW len \in 1 .. TargetFrameSize, NeedsCommit(len), Send, Write(NextStart, len)
  PROVE  Inv'
<1>1. bufferStart' = NextStart /\ sent' = sent + Pending
  BY DEF Send
<1>0. Pending # 0
  BY SendBufferAssumption DEF NeedsCommit
<1>2. stream' \in Stream /\ Positions'
  BY <1>0, SendExtendsHistory
<1>3. NextStart \in 0 .. 2 * TargetFrameSize /\ NextStart \in 0 .. 3 * TargetFrameSize
  BY NextStartFits, SendBufferAssumption
<1>4. /\ buffer' \in [Cells -> Int]
      /\ \A i \in Cells : (NextStart <= i /\ i < NextStart + len) =>
           buffer'[i] = appended + 1 + (i - NextStart)
      /\ \A i \in Cells : (i < NextStart \/ NextStart + len <= i) => buffer'[i] = buffer[i]
      /\ bufferOffset' = NextStart + len /\ appended' = appended + len /\ appended \in Nat
  BY <1>3, WriteWrites
<1>5. appended = sent + Pending /\ Pending \in Nat /\ sent \in Nat
  BY SendBufferAssumption DEF Inv, SentInOrder, TypeOK, Pending
<1>6. TypeOK' /\ FramesFit'
  BY <1>1, <1>2, <1>3, <1>4, <1>5, SendBufferAssumption DEF TypeOK, FramesFit, Pending, Stream
<1>7. SentInOrder'
  <2>1. \A i \in bufferStart' .. bufferOffset' - 1 :
          i \in Cells /\ NextStart <= i /\ i < NextStart + len
    BY <1>1, <1>3, <1>4, SendBufferAssumption DEF Cells
  <2>2. \A i \in bufferStart' .. bufferOffset' - 1 :
          buffer'[i] = sent' + 1 + (i - bufferStart')
    BY <1>1, <1>4, <1>5, <2>1
  <2>3. appended' = sent' + (bufferOffset' - bufferStart')
    BY <1>1, <1>3, <1>4, <1>5
  <2> QED  BY <2>2, <2>3 DEF SentInOrder, Pending
<1>8. History'
  BY <1>0, <1>3, <1>4, SentHistory, SendBufferAssumption
<1> QED  BY <1>2, <1>4, <1>6, <1>7, <1>8 DEF Inv

LEMMA AppendOnlyInv ==
  ASSUME Inv, NEW len \in 1 .. TargetFrameSize, ~ NeedsCommit(len), Write(bufferOffset, len),
         UNCHANGED <<bufferStart, stream, sent>>
  PROVE  Inv'
<1>1. /\ bufferOffset \in 0 .. 3 * TargetFrameSize /\ bufferStart \in 0 .. 2 * TargetFrameSize
      /\ bufferStart <= bufferOffset /\ sent \in Nat /\ stream \in Stream
      /\ bufferOffset + len <= bufferStart + TargetFrameSize
  BY SendBufferAssumption DEF Inv, TypeOK, NeedsCommit, Pending
<1>2. /\ buffer' \in [Cells -> Int]
      /\ \A i \in Cells : (bufferOffset <= i /\ i < bufferOffset + len) =>
           buffer'[i] = appended + 1 + (i - bufferOffset)
      /\ \A i \in Cells : (i < bufferOffset \/ bufferOffset + len <= i) => buffer'[i] = buffer[i]
      /\ bufferOffset' = bufferOffset + len /\ appended' = appended + len /\ appended \in Nat
  BY <1>1, WriteWrites
<1>3. appended = sent + (bufferOffset - bufferStart)
  BY DEF Inv, SentInOrder, Pending
<1>4. TypeOK' /\ FramesFit'
  BY <1>1, <1>2, SendBufferAssumption DEF Inv, TypeOK, FramesFit, Pending
<1>5. SentInOrder'
  <2>1. ASSUME NEW i \in bufferStart .. bufferOffset + len - 1
        PROVE  buffer'[i] = sent + 1 + (i - bufferStart)
    <3>1. i \in Cells
      BY <1>1, SendBufferAssumption DEF Cells
    <3>2. CASE i < bufferOffset
      <4>1. i \in bufferStart .. bufferOffset - 1
        BY <1>1, <3>2
      <4>2. buffer[i] = sent + 1 + (i - bufferStart)
        BY <4>1 DEF Inv, SentInOrder
      <4> QED  BY <1>2, <3>1, <3>2, <4>2
    <3>3. CASE bufferOffset <= i
      BY <1>1, <1>2, <1>3, <3>1, <3>3
    <3> QED  BY <1>1, <3>2, <3>3
  <2>2. appended' = sent + (bufferOffset' - bufferStart)
    BY <1>1, <1>2, <1>3
  <2>3. bufferStart' = bufferStart /\ sent' = sent /\ bufferOffset' = bufferOffset + len
    BY <1>2
  <2>4. appended' = sent' + Pending'
    BY <2>2, <2>3 DEF Pending
  <2>5. ASSUME NEW i \in bufferStart' .. bufferOffset' - 1
        PROVE  buffer'[i] = sent' + 1 + (i - bufferStart')
    <3>1. i \in bufferStart .. bufferOffset + len - 1
      BY <1>1, <2>3, <2>5
    <3>2. buffer'[i] = sent + 1 + (i - bufferStart)
      BY <2>1, <3>1
    <3> QED  BY <2>3, <3>2
  <2> QED  BY <2>4, <2>5 DEF SentInOrder
<1>6. History'
  <2>1. CASE stream.dictSize = 0
    BY <2>1 DEF History
  <2>2. CASE /\ stream.dictionary + stream.dictSize = bufferStart
             /\ Holds(stream.dictionary, bufferStart, 0)
    <3>1. Holds(stream.dictionary, bufferStart, 0)'
      BY <1>1, <1>2, <2>2, SendBufferAssumption DEF Holds, Cells
    <3> QED  BY <2>2, <3>1 DEF History
  <2>3. CASE /\ bufferStart = 0
             /\ stream.dictionary + stream.dictSize
                  \in 2 * TargetFrameSize + 1 .. 3 * TargetFrameSize
             /\ Holds(stream.dictionary, stream.dictionary + stream.dictSize, bufferOffset)
    <3> DEFINE end == stream.dictionary + stream.dictSize
    <3>1. \A i \in Cells : (stream.dictionary <= i /\ bufferOffset <= i /\ i < end) =>
            buffer[i] = sent + 1 - (end - i)
      BY <2>3 DEF Holds
    <3>2. \A i \in Cells : bufferOffset' <= i => bufferOffset <= i /\ buffer'[i] = buffer[i]
      BY <1>1, <1>2 DEF Cells
    <3>3. stream' = stream /\ sent' = sent /\ bufferStart' = bufferStart
      OBVIOUS
    <3>4. \A i \in Cells : (stream'.dictionary <= i /\ bufferOffset' <= i /\ i < end) =>
            buffer'[i] = sent' + 1 - (end - i)
      BY <3>1, <3>2, <3>3
    <3> HIDE DEF end
    <3>5. Holds(stream.dictionary, end, bufferOffset)'
      BY <3>3, <3>4 DEF Holds, end
    <3> QED  BY <2>3, <3>3, <3>5 DEF History, end
  <2>4. CASE stream.dictionary = Elsewhere /\ stream.dictSize = 1
    BY <2>4 DEF History, Elsewhere
  <2> QED  BY <2>1, <2>2, <2>3, <2>4 DEF Inv, History
<1>7. Positions'
  BY DEF Inv, Positions
<1> QED  BY <1>1, <1>2, <1>4, <1>5, <1>6, <1>7 DEF Inv

LEMMA TerminateInv == Inv /\ SendTerminate => Inv'
<1> SUFFICES ASSUME Inv, SendTerminate  PROVE Inv'
  OBVIOUS
<1> DEFINE u == Usable(stream, Elsewhere, 1)
<1>1. /\ stream \in Stream /\ stream.dictSize <= stream.currentOffset
      /\ stream.currentOffset <= OffsetLimit /\ Elsewhere \in Nat /\ 1 \in 0 .. TargetFrameSize
  BY SendBufferAssumption DEF Inv, Positions, Elsewhere
<1>2. u \in Stream /\ u.currentOffset + 1 <= OffsetLimit
  BY <1>1, UsableIsEnd
<1>3. stream' = [dictionary    |-> IF PrefixMode(stream, Elsewhere, 1) THEN u.dictionary
                                   ELSE Elsewhere,
                 dictSize      |-> IF PrefixMode(stream, Elsewhere, 1) THEN u.dictSize + 1 ELSE 1,
                 currentOffset |-> u.currentOffset + 1]
  BY DEF SendTerminate, Compressed
<1>4. stream.dictSize = 0 \/ stream.dictionary + stream.dictSize # Elsewhere
  BY SendBufferAssumption DEF Inv, TypeOK, History, Elsewhere, Stream
<1>5. ~ Tiny(Renormed(stream, 1), Elsewhere, 1) => DictEnd(Renormed(stream, 1)) # Elsewhere
  <2> DEFINE r == Renormed(stream, 1)
  <2>1. /\ r \in Stream /\ r.dictSize <= stream.dictSize
        /\ r.dictionary + r.dictSize = stream.dictionary + stream.dictSize
    BY <1>1, RenormKeepsEnd DEF Stream
  <2> HIDE DEF r
  <2>2. DictEnd(r) # Elsewhere
    BY <1>1, <1>4, <2>1 DEF DictEnd, Nowhere, Stream
  <2> QED  BY <2>2 DEF r
<1>6. stream'.dictionary = Elsewhere /\ stream'.dictSize = 1
      /\ stream'.currentOffset = u.currentOffset + 1 /\ stream' \in Stream
  <2>1. CASE PrefixMode(stream, Elsewhere, 1)
    <3>1. Tiny(Renormed(stream, 1), Elsewhere, 1)
      BY <1>5, <2>1 DEF PrefixMode
    <3>2. u.dictionary = Elsewhere /\ u.dictSize = 0
      BY <3>1 DEF Usable, u
    <3> QED  BY <1>1, <1>2, <1>3, <2>1, <3>2 DEF Stream
  <2>2. CASE ~ PrefixMode(stream, Elsewhere, 1)
    BY <1>1, <1>2, <1>3, <2>2 DEF Stream
  <2> QED  BY <2>1, <2>2
<1>7. Positions'
  BY <1>2, <1>6 DEF Positions, Stream
<1>8. History'
  BY <1>6 DEF History, Elsewhere
<1>9. TypeOK' /\ FramesFit' /\ SentInOrder' /\ buffer' \in [Cells -> Int]
  BY <1>6 DEF SendTerminate, Inv, TypeOK, FramesFit, SentInOrder, Pending, Stream
<1> QED  BY <1>6, <1>7, <1>8, <1>9 DEF Inv

LEMMA NextInv == Inv /\ [Next]_vars => Inv'
<1>1. ASSUME Inv, NEW len \in 1 .. TargetFrameSize, AppendData(len)  PROVE Inv'
  <2>1. CASE NeedsCommit(len) /\ Send /\ Write(NextStart, len)
    BY <1>1, <2>1, AppendAndSendInv
  <2>2. CASE ~ NeedsCommit(len) /\ Write(bufferOffset, len) /\ UNCHANGED <<bufferStart, stream, sent>>
    BY <1>1, <2>2, AppendOnlyInv
  <2> QED  BY <1>1, <2>1, <2>2 DEF AppendData
<1>2. ASSUME Inv, UNCHANGED vars  PROVE Inv'
  BY <1>2 DEF Inv, vars, TypeOK, FramesFit, SentInOrder, Pending, History, Holds, Positions
<1> QED  BY <1>1, <1>2, FlushInv, TerminateInv DEF Next

THEOREM Invariance == Spec => []Inv
<1> QED  BY InitInv, NextInv, PTL DEF Spec

(***************************************************************************)
(* What follows from it.                                                   *)
(***************************************************************************)

(* The buffer is never overrun.                                            *)
THEOREM BufferSuffices == Spec => [](TypeOK /\ FramesFit)
<1>1. Inv => TypeOK /\ FramesFit
  BY DEF Inv
<1> QED  BY <1>1, Invariance, PTL

(* Every byte is sent once and in order.                                   *)
THEOREM NothingLostOrDoubled == Spec => []SentInOrder
<1>1. Inv => SentInOrder
  BY DEF Inv
<1> QED  BY <1>1, Invariance, PTL

(* LZ4's history is where it looks for it, for windows of any size.        *)
THEOREM ReferencesResolve == Spec => []HistoryIntact
<1>1. ASSUME Inv  PROVE HistoryIntact
  <2> DEFINE u == Usable(stream, bufferStart, Pending)
  <2>1. /\ Pending \in 0 .. TargetFrameSize /\ bufferStart \in Nat
        /\ bufferOffset = bufferStart + Pending /\ bufferStart <= 2 * TargetFrameSize
        /\ stream \in Stream /\ stream.dictSize <= stream.currentOffset
        /\ stream.currentOffset <= OffsetLimit
    BY <1>1, SendBufferAssumption DEF Inv, TypeOK, FramesFit, Pending, Positions
  <2>2. /\ u \in Stream
        /\ \/ u.dictSize = 0
           \/ /\ stream.dictSize # 0
              /\ u.dictionary + u.dictSize = stream.dictionary + stream.dictSize
              /\ stream.dictionary <= u.dictionary
              /\ \/ bufferStart + Pending <= u.dictionary
                 \/ stream.dictionary + stream.dictSize <= bufferStart + Pending
    BY <2>1, UsableIsEnd
  <2> HIDE DEF u
  <2>3. ASSUME Pending # 0, NEW k \in 1 .. Smaller(u.dictSize, Window)
        PROVE  /\ (u.dictionary + u.dictSize) - k \in Cells
               /\ buffer[(u.dictionary + u.dictSize) - k] = sent + 1 - k
    <3> DEFINE i == (u.dictionary + u.dictSize) - k
               end == stream.dictionary + stream.dictSize
    <3>1. k \in 1 .. u.dictSize
      BY <2>2, SendBufferAssumption DEF Smaller, Stream
    <3>2. /\ stream.dictSize # 0 /\ i \in Nat /\ u.dictionary <= i /\ end \in Nat
          /\ u.dictionary + u.dictSize = end
          /\ stream.dictionary <= i /\ i < end /\ k = end - i
      BY <2>1, <2>2, <3>1 DEF Stream
    <3> SUFFICES i \in Cells /\ buffer[i] = sent + 1 - (end - i)
      BY <3>2
    <3> HIDE DEF i
    <3>3. CASE end = bufferStart /\ Holds(stream.dictionary, bufferStart, 0)
      <4>1. i \in Cells
        BY <2>1, <3>2, <3>3, SendBufferAssumption DEF Cells
      <4>2. Holds(stream.dictionary, end, 0)
        BY <3>3
      <4> HIDE DEF end
      <4> QED  BY <3>2, <4>1, <4>2 DEF Holds
    <3>4. CASE /\ bufferStart = 0 /\ end \in 2 * TargetFrameSize + 1 .. 3 * TargetFrameSize
               /\ Holds(stream.dictionary, end, bufferOffset)
      <4>1. i \in Cells
        BY <3>2, <3>4, SendBufferAssumption DEF Cells
      <4>2. bufferOffset <= i
        <5>1. bufferOffset = Pending /\ bufferOffset <= TargetFrameSize
          BY <2>1, <3>4
        <5>2. u.dictSize # 0
          BY <2>2, <3>1 DEF Stream
        <5>3. bufferOffset <= u.dictionary
          BY <2>1, <2>2, <3>4, <5>1, <5>2, SendBufferAssumption DEF Stream
        <5> QED  BY <2>1, <2>2, <3>2, <5>1, <5>3, SendBufferAssumption DEF Stream
      <4> HIDE DEF end
      <4> QED  BY <3>2, <3>4, <4>1, <4>2 DEF Holds
    <3>5. CASE stream.dictionary = Elsewhere /\ stream.dictSize = 1
      <4>1. Pending \in 1 .. TargetFrameSize
        BY <2>1, <2>3
      <4>2. stream.dictSize < HashUnit /\ end # bufferStart
        BY <2>1, <3>5, SendBufferAssumption DEF Elsewhere
      <4>3. u.dictSize = 0
        BY <2>1, <4>1, <4>2, TinyIsDropped DEF u
      <4> QED  BY <3>1, <4>3
    <3> QED  BY <1>1, <3>2, <3>3, <3>4, <3>5 DEF Inv, History
  <2>4. Pending # 0 =>
          \A k \in 1 .. Smaller(u.dictSize, Window) :
            /\ (u.dictionary + u.dictSize) - k \in Cells
            /\ buffer[(u.dictionary + u.dictSize) - k] = sent + 1 - k
    BY <2>3
  <2> QED  BY <2>4, Zenon DEF HistoryIntact, u
<1> QED  BY <1>1, Invariance, PTL

(* LZ4's positions neither overflow nor fall below 0.                      *)
THEOREM PositionsStayInRange == Spec => []PositionsFit
<1>1. ASSUME Inv  PROVE PositionsFit
  <2>1. /\ Pending \in 0 .. TargetFrameSize /\ bufferStart \in Nat
        /\ stream \in Stream /\ stream.dictSize <= stream.currentOffset
        /\ stream.currentOffset <= OffsetLimit
    BY <1>1, SendBufferAssumption DEF Inv, TypeOK, FramesFit, Pending, Positions
  <2> QED  BY <2>1, UsableIsEnd DEF PositionsFit
<1> QED  BY <1>1, Invariance, PTL
=============================================================================
