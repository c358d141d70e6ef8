----------------------------- MODULE FrameCodec -----------------------------
(***************************************************************************)
(* The frames of SendBuffer with what LZ4 (common/tracy_lz4.cpp) makes of  *)
(* them: the client compresses each frame with references to the earlier   *)
(* ones that are still in its buffer, and the server decompresses it with  *)
(* LZ4_decompress_safe_continue behind the ones it has.  The two only      *)
(* share the bytes on the wire.                                            *)
(*                                                                         *)
(* The format is the code's with smaller numbers; what makes it fast (the  *)
(* copies in strides of 8 and 32 bytes, the decoder's short cuts for what  *)
(* fits in them) is left out.  The output buffer is as large as            *)
(* LZ4_COMPRESSBOUND asks, so limitedOutput never strikes.                 *)
(***************************************************************************)
EXTENDS SendBuffer, Sequences, FiniteSetsExt

CONSTANTS
  MINMATCH, MFLIMIT, LASTLITERALS,  (* 4, 12, 5                             *)
  Mask,           (* RUN_MASK and ML_MASK, 15: the longest length in a token *)
  Full,           (* 255: a byte of a length that is continued              *)
  HashSize,       (* entries of hashTable, 4096                             *)
  SkipTrigger,    (* 2^LZ4_skipTrigger, 64                                  *)
  NoticeAfter,    (* bound of the model: the notice comes after so many bytes *)
  ItemSizes,      (* bound of the model: the lengths of items               *)
  Texts           (* bound of the model: what the bytes appended may be     *)

ASSUME FrameCodecAssumption ==
  /\ MINMATCH = HashUnit /\ LASTLITERALS \in Nat \ {0} /\ MFLIMIT >= LASTLITERALS + MINMATCH
  /\ Mask \in Nat \ {0} /\ Full \in Nat \ {0} /\ HashSize \in Nat \ {0}
  /\ SkipTrigger \in Nat \ {0} /\ ItemSizes \subseteq 1 .. TargetFrameSize
  /\ \A t \in Texts : DOMAIN t = 1 .. MaxAppended

LZ4_DISTANCE_MAX == Window - 1

VARIABLES
  text,        (* the bytes that are appended, by number                    *)
  hashTable,   (* of m_stream: the last index with each hash                *)
  output,      (* the server's buffer                                       *)
  streamDecode,(* where its history is                                      *)
  decoded      (* what it made of the last frame, or Failed                 *)

codecVars == <<text, hashTable, output, streamDecode, decoded>>

Failed == <<-1>>

-----------------------------------------------------------------------------
(* The client's memory: the buffer with the bytes instead of their numbers *)
(* and, past it, the notice of SendTerminate.                              *)
Notice == 1

Memory(c) ==
  IF c \in Cells THEN IF buffer[c] = 0 THEN 0 ELSE text[buffer[c]] ELSE Notice

Same(p, q, n) == \A k \in 0 .. n - 1 : Memory(p + k) = Memory(q + k)

(* LZ4_count: how far p, up to limit, goes on like q. *)
Count(p, q, limit) == Max({n \in 0 .. limit - p : Same(p, q, n)} \cup {0})

(* LZ4_hash5 reads one byte more than a match needs. *)
Hash(p) == (9 * Memory(p) + 3 * Memory(p + 1) + Memory(p + 2)) % HashSize

(* The variables of LZ4_compress_generic_validated that do not change. *)
Input(source, n) ==
  LET u == Usable(stream, source, n) IN
  [source         |-> source,
   iend           |-> source + n,
   mflimitPlusOne |-> source + n - MFLIMIT + 1,
   matchlimit     |-> source + n - LASTLITERALS,
   startIndex     |-> u.currentOffset,
   dictionary     |-> u.dictionary,
   dictEnd        |-> u.dictionary + u.dictSize,
   extDict        |-> ~ PrefixMode(stream, source, n),
   prefixIdxLimit |-> u.currentOffset - u.dictSize,
   dictSmall      |-> u.dictSize < Window /\ u.dictSize < u.currentOffset]

Index(f, p) == p - f.source + f.startIndex

InDict(f, index) == f.extDict /\ index < f.startIndex

(* Where an index of the table points, *)
Position(f, index) ==
  IF InDict(f, index) THEN f.dictEnd - (f.startIndex - index)
                      ELSE f.source - (f.startIndex - index)

(* and how far a match there may reach back. *)
LowLimit(f, index) ==
  IF InDict(f, index) \/ ~ f.extDict THEN f.dictionary ELSE f.source

(* Mutant: the limit of the dictionary is only looked at in other modes. *)
IsMatch_AnyIndex(f, index, ip) ==
  /\ index + LZ4_DISTANCE_MAX >= Index(f, ip)
  /\ Same(Position(f, index), ip, MINMATCH)

(* Whether what the table says of ip is of use. *)
IsMatch(f, index, ip) ==
  /\ f.dictSmall => index >= f.prefixIdxLimit
  /\ index + LZ4_DISTANCE_MAX >= Index(f, ip)
  /\ Same(Position(f, index), ip, MINMATCH)

Put(f, table, p) == [table EXCEPT ![Hash(p)] = Index(f, p)]

(* "Find a match": from ip, in steps that grow. *)
RECURSIVE FindMatch(_, _, _, _, _)
FindMatch(f, table, ip, step, searchMatchNb) ==
  LET index == table[Hash(ip)] IN
  IF ip + step > f.mflimitPlusOne
  THEN [found |-> FALSE, table |-> table]
  ELSE IF IsMatch(f, index, ip)
  THEN [found |-> TRUE, ip |-> ip, index |-> index, table |-> Put(f, table, ip)]
  ELSE FindMatch(f, Put(f, table, ip), ip + step, searchMatchNb \div SkipTrigger, searchMatchNb + 1)

(* The bytes with which a length goes on when its token cannot hold it. *)
Extension(n) ==
  IF n < Mask THEN <<>>
  ELSE [i \in 1 .. (n - Mask) \div Full |-> Full] \o <<(n - Mask) % Full>>

Token(literals, match) == <<Smaller(literals, Mask), Smaller(match, Mask)>>

Literals(p, n) == Extension(n) \o [i \in 1 .. n |-> Memory(p + i - 1)]

(* "Catch up": how many bytes before ip belong to the match as well. *)
CatchUp(f, anchor, ip, index) ==
  LET match == Position(f, index) IN
  Max({n \in 0 .. Smaller(ip - anchor, match - LowLimit(f, index)) :
         Same(match - n, ip - n, n)} \cup {0})

(* "Encode MatchLength": from the dictionary a match runs on into the source. *)
MatchCode(f, ip, match, inDict) ==
  LET end   == ip + (f.dictEnd - match)
      limit == IF inDict /\ end <= f.matchlimit THEN end ELSE f.matchlimit
      code  == Count(ip + MINMATCH, match + MINMATCH, limit)
  IN  IF inDict /\ ip + MINMATCH + code = limit
      THEN code + Count(limit, f.source, f.matchlimit)
      ELSE code

LastLiterals(f, anchor, table, out) ==
  [table |-> table,
   wire  |-> out \o <<Token(f.iend - anchor, 0)>> \o Literals(anchor, f.iend - anchor)]

(* The main loop, from the search for a match and from a match on. *)
RECURSIVE Search(_, _, _, _, _), Match(_, _, _, _, _, _)
Search(f, anchor, ip, table, out) ==
  LET m == FindMatch(f, table, ip, 1, SkipTrigger) IN
  IF m.found THEN Match(f, anchor, m.ip, m.index, m.table, out)
             ELSE LastLiterals(f, anchor, m.table, out)

Match(f, anchor, found, index, table, out) ==
  LET back  == CatchUp(f, anchor, found, index)
      ip    == found - back
      match == Position(f, index) - back
      code  == MatchCode(f, ip, match, InDict(f, index))
      after == ip + MINMATCH + code
      sequence == <<Token(ip - anchor, code)>> \o Literals(anchor, ip - anchor)
                    \o <<(Index(f, found) - index) % Window>> \o Extension(code)
      filled == Put(f, table, after - 2)
      again  == filled[Hash(after)]
  IN  IF after >= f.mflimitPlusOne
      THEN LastLiterals(f, after, table, out \o sequence)
      ELSE IF IsMatch(f, again, after)
      THEN Match(f, after, after, again, Put(f, filled, after), out \o sequence)
      ELSE Search(f, after, after + 1, Put(f, filled, after), out \o sequence)

(* LZ4_renormDictT rescales the table. *)
Rescaled(n) ==
  LET delta == stream.currentOffset - Window IN
  IF stream.currentOffset + n > OffsetLimit
  THEN [h \in DOMAIN hashTable |-> IF hashTable[h] < delta THEN 0 ELSE hashTable[h] - delta]
  ELSE hashTable

(* LZ4_compress_fast_continue: the table and the bytes for the wire. *)
Compress(source, n) ==
  LET f == Input(source, n) IN
  IF n < MFLIMIT + 1
  THEN LastLiterals(f, source, Rescaled(n), <<>>)
  ELSE Search(f, source, source + 1, Put(f, Rescaled(n), source), <<>>)

-----------------------------------------------------------------------------
(* LZ4_decompress_generic, with its arguments in d: the wire, where the    *)
(* output ends, the prefix and the external dictionary.                    *)

RECURSIVE Addl(_, _)
Addl(wire, ip) == IF wire[ip] = Full THEN Full + Addl(wire, ip + 1) ELSE wire[ip]

(* read_variable_length: the length that begins with nibble, where it ends, *)
(* and whether that is past the limit.                                     *)
ReadLength(d, nibble, ip, ilimit) ==
  IF nibble < Mask THEN [length |-> nibble, ip |-> ip, error |-> FALSE]
  ELSE LET addl == Addl(d.wire, ip)
           end  == ip + addl \div Full + 1
       IN  [length |-> Mask + addl, ip |-> end, error |-> end > ilimit]

(* n bytes from one place to another, in order: they may overlap. *)
Copied(memory, from, to, n) ==
  [c \in DOMAIN memory |->
     IF to <= c /\ c < to + n
     THEN memory[from + (IF from < to THEN (c - to) % (to - from) ELSE c - to)]
     ELSE memory[c]]

(* A match may begin in the external dictionary and run on in the prefix. *)
MatchCopied(d, memory, op, offset, length) ==
  LET match    == op - offset
      copySize == Smaller(length, d.lowPrefix - match)
  IN  IF match >= d.lowPrefix
      THEN Copied(memory, match, op, length)
      ELSE Copied(Copied(memory, d.dictEnd - (d.lowPrefix - match), op, copySize),
                  d.lowPrefix, op + copySize, length - copySize)

(* From the token at ip on, op being where the output goes: the memory and *)
(* where the output ends, 0 after an error.                                *)
RECURSIVE Sequences(_, _, _, _)
Sequences(d, memory, ip, op) ==
  LET iend     == Len(d.wire) + 1
      literals == ReadLength(d, d.wire[ip][1], ip + 1, iend - Mask)
      cpy      == op + literals.length
      at       == literals.ip + literals.length
      written  == [c \in DOMAIN memory |->
                     IF op <= c /\ c < cpy THEN d.wire[literals.ip + c - op] ELSE memory[c]]
      last     == cpy > d.oend - MFLIMIT \/ at > iend - (1 + 1 + LASTLITERALS)
      offset   == d.wire[at]
      match    == ReadLength(d, d.wire[ip][2], at + 1, iend - LASTLITERALS + 1)
      length   == match.length + MINMATCH
  IN  IF literals.error
      THEN [memory |-> memory, op |-> 0]
      ELSE IF last
      THEN [memory |-> written, op |-> IF at = iend /\ cpy <= d.oend THEN cpy ELSE 0]
      ELSE IF \/ match.error
              \/ d.dictSize < Window /\ cpy - offset + d.dictSize < d.lowPrefix
              \/ cpy + length > d.oend - LASTLITERALS
      THEN [memory |-> memory, op |-> 0]
      ELSE Sequences(d, MatchCopied(d, written, cpy, offset, length), match.ip, cpy + length)

(* LZ4_decompress_safe_continue: what is prefix and what is dictionary     *)
(* depends on whether dest goes on where the last frame ended.             *)
Arguments(wire, dest) ==
  LET s == streamDecode
      rolling == s.prefixSize # 0 /\ s.prefixEnd = dest
  IN  [wire |-> wire, oend |-> dest + TargetFrameSize,
       lowPrefix |-> IF ~ rolling THEN dest
                     ELSE IF s.prefixSize >= Window - 1 THEN dest - Window
                     ELSE dest - s.prefixSize,
       dictEnd |-> IF rolling THEN s.externalDict + s.extDictSize ELSE s.prefixEnd,
       dictSize |-> IF ~ rolling THEN s.prefixSize
                    ELSE IF s.prefixSize >= Window - 1 THEN 0 ELSE s.extDictSize]

Decoded(dest, size) ==
  LET s == streamDecode IN
  IF s.prefixSize # 0 /\ s.prefixEnd = dest
  THEN [s EXCEPT !.prefixSize = @ + size, !.prefixEnd = @ + size]
  ELSE [prefixSize |-> size, prefixEnd |-> dest + size,
        extDictSize |-> s.prefixSize, externalDict |-> s.prefixEnd - s.prefixSize]

(* The server puts frames one behind the other, like the client.           *)
Dest == IF streamDecode.prefixEnd > TargetFrameSize * 2 THEN 0 ELSE streamDecode.prefixEnd

Receive(wire) ==
  LET r == Sequences(Arguments(wire, Dest), output, 1, Dest)
      size == r.op - Dest
  IN  /\ output' = r.memory
      /\ decoded' = IF r.op = 0 THEN Failed ELSE [i \in 1 .. size |-> r.memory[Dest + i - 1]]
      /\ streamDecode' = IF r.op = 0 THEN streamDecode ELSE Decoded(Dest, size)

Transmit(source, n) ==
  LET c == Compress(source, n) IN
  /\ hashTable' = c.table
  /\ Receive(c.wire)
  /\ UNCHANGED text

-----------------------------------------------------------------------------
CodecInit ==
  /\ Init
  /\ text \in Texts
  /\ hashTable = [h \in 0 .. HashSize - 1 |-> 0]
  /\ output = [c \in Cells |-> 0]
  /\ streamDecode = [prefixEnd |-> 0, prefixSize |-> 0, externalDict |-> 0, extDictSize |-> 0]
  /\ decoded = <<>>

AppendItem(len) ==
  /\ AppendData(len)
  /\ IF NeedsCommit(len) THEN Transmit(bufferStart, Pending) ELSE UNCHANGED codecVars

FlushFrame == Flush /\ Transmit(bufferStart, Pending)

Terminate == sent >= NoticeAfter /\ decoded # <<Notice>> /\ SendTerminate /\ Transmit(Elsewhere, 1)

CodecNext == (\E len \in ItemSizes : AppendItem(len)) \/ FlushFrame \/ Terminate

CodecSpec == CodecInit /\ [][CodecNext]_<<vars, codecVars>>

-----------------------------------------------------------------------------
(* The server reads what was sent: whatever the frames' lengths, wherever  *)
(* the two buffers wind back, however the positions are renumbered.        *)
ServerReadsWhatWasSent ==
  [][\/ UNCHANGED sent /\ UNCHANGED stream
     \/ UNCHANGED sent /\ decoded' = <<Notice>>
     \/ decoded' = [i \in 1 .. sent' - sent |-> text[sent + i]]]_<<vars, codecVars>>
=============================================================================
