-------------------------- MODULE RpMallocProofs --------------------------
(***************************************************************************)
(* For any number of threads, spans and blocks of a span: heaps stay whole *)
(* under every order of allocations and frees.  First the inductive        *)
(* invariant, then the operators it is built from, then each action.       *)
(***************************************************************************)
EXTENDS RpMalloc, FiniteSetTheorems, SequenceTheorems, TLAPS

-----------------------------------------------------------------------------
(* The places of a call: filling a class from a span, putting a block into *)
(* a span's deferred list, sending a span back.                            *)
Filling == {"look", "extract", "swap"}
Storing == {"store", "storeLast"}
Holding == {"swap", "count"} \cup Storing
Flying  == Filling \cup {"count"} \cup Storing
Pushing == {"push", "cas"}

Indices == 1 .. block_count

Types ==
  /\ phase \in [Threads -> {"new", "live", "gone"}]
  /\ pc \in [Threads -> {"idle", "sync"} \cup Flying \cup Pushing]
  /\ arg \in [Threads -> Blocks \cup {NoBlock}]
  /\ used \subseteq Blocks /\ mapped \in 0 .. MaxSpans
  /\ heap \in [Spans -> Threads \cup {None}]
  /\ free_list \in [Spans -> SUBSET Indices] /\ deferred \in [Spans -> SUBSET Indices]
  /\ free_list_limit \in [Spans -> 0 .. block_count]
  /\ used_count \in [Spans -> Int] /\ list_size \in [Spans -> Int]
  /\ locked \in [Spans -> BOOLEAN] /\ link \in [Spans -> Spans \cup {None}]
  /\ class_free \in [Threads -> SUBSET Blocks] /\ cache \in [Threads -> SUBSET Spans]
  /\ partial \in [Threads -> Seq(Spans)] /\ full_span_count \in [Threads -> Int]
  /\ span_free_deferred \in [Threads -> Spans \cup {None}]

(* Threads in a call about span s, and the blocks they hold.               *)
At(s, places)   == {t \in Threads : pc[t] \in places /\ Span(arg[t]) = s}
Held(s, places) == {arg[t][2] : t \in At(s, places)}

InUse(s)    == {i \in Indices : <<s, i>> \in used}
InClass(s)  == {i \in Indices : <<s, i>> \in class_free[heap[s]]}
Unlinked(s) == free_list_limit[s] + 1 .. block_count
Stored(s)   == deferred[s] \cup Held(s, Storing)

(* Spans that came back whole: in the cache, sent back, or being sent.     *)
Waiting(h) == cache[h] \cup Queued(h)
Away(s)    == At(s, Pushing) # {} \/ s \in Waiting(heap[s])

(* Threads.  Those with one id are never there at the same time, so a span *)
(* is filled from or given up by one thread.                               *)
OneById ==
  \A t, u \in Threads :
    phase[t] = "live" /\ phase[u] = "live" /\ thread_id[t] = thread_id[u] => t = u

CallOk(t) == pc[t] # "idle" => phase[t] = "live" /\ Span(arg[t]) \in Mapped

FillOk(t) ==
  pc[t] \in Filling =>
    LET s == Span(arg[t]) IN
    /\ heap[s] = t /\ free_list[s] = {} /\ partial[t] # <<>> /\ Head(partial[t]) = s

SyncOk(t) ==
  pc[t] = "sync" =>
    LET s == Span(arg[t]) IN
    /\ ~ Away(s) /\ IsOwner(t, s) /\ s \in Listed(heap[s]) /\ used_count[s] = list_size[s]

OneHolder ==
  \A t, u \in Threads : pc[t] \in Flying /\ pc[u] \in Flying /\ arg[t] = arg[u] => t = u

(* Heaps.                                                                  *)
NoneTwice(seq) == \A i, j \in 1 .. Len(seq) : seq[i] = seq[j] => i = j
Apart(A, B)    == A \cap B = {}

Own(h)  == {s \in Mapped : heap[s] = h}
Full(h) == Own(h) \ (Listed(h) \cup cache[h])

Ends(h) == \A X \in SUBSET Queued(h) : X # {} => \E s \in X : link[s] \notin X

HeapOk(h) ==
  /\ \A b \in class_free[h] : Span(b) \in Own(h)
  /\ Listed(h) \cup Waiting(h) \subseteq Own(h) /\ Apart(cache[h], Queued(h))
  /\ NoneTwice(partial[h]) /\ Ends(h)
  /\ full_span_count[h] = Cardinality(Full(h))

(* Every block of a span in use is in one of six sets.                     *)
Partition(s) ==
  LET F == Held(s, Flying) IN
  /\ InUse(s) \cup InClass(s) \cup free_list[s] \cup deferred[s] \cup F \cup Unlinked(s) = Indices
  /\ Apart(InUse(s), InClass(s) \cup free_list[s] \cup deferred[s] \cup F \cup Unlinked(s))
  /\ Apart(InClass(s), free_list[s] \cup deferred[s] \cup F \cup Unlinked(s))
  /\ Apart(free_list[s], deferred[s] \cup F \cup Unlinked(s))
  /\ Apart(deferred[s], F \cup Unlinked(s))
  /\ Apart(F, Unlinked(s))

CountsOk(s) ==
  /\ used_count[s] = Cardinality((1 .. free_list_limit[s]) \ free_list[s])
  /\ list_size[s] = Cardinality(Stored(s))
  /\ list_size[s] = block_count <=> At(s, {"storeLast"}) # {}

(* Its owner has it in the list of partial spans until it is full.         *)
PlaceOk(s) ==
  s \in Listed(heap[s]) <=> At(s, Filling) # {} \/ ~ IsFull(free_list[s], s)

LockOk(s) ==
  /\ locked[s] <=> At(s, Holding) # {}
  /\ \A t, u \in At(s, Holding) : t = u

(* Nothing is in use of a span that came back, and it is in one list, or   *)
(* one thread is about to put it there.                                    *)
AwayOk(s) ==
  /\ Away(s) => InUse(s) = {} /\ InClass(s) = {} /\ At(s, Flying) = {} /\ s \notin Listed(heap[s])
  /\ s \in Waiting(heap[s]) => At(s, Pushing) = {}
  /\ \A t, u \in At(s, Pushing) : t = u

SpanOk(s) ==
  /\ heap[s] \in Threads /\ LockOk(s) /\ AwayOk(s)
  /\ ~ Away(s) => Partition(s) /\ CountsOk(s) /\ PlaceOk(s)

HeapInv ==
  /\ Types /\ OneById /\ OneHolder
  /\ \A t \in Threads : CallOk(t) /\ FillOk(t) /\ SyncOk(t) /\ HeapOk(t)
  /\ \A s \in Mapped : SpanOk(s)
  /\ \A b \in used : Span(b) \in Mapped

(* What is known of the state of one thread, heap or span.                 *)
LEMMA TypesOf ==
  ASSUME Types
  PROVE  /\ \A t \in Threads :
              /\ arg[t] \in Blocks \cup {NoBlock} /\ class_free[t] \in SUBSET Blocks
              /\ cache[t] \in SUBSET Spans /\ partial[t] \in Seq(Spans)
              /\ full_span_count[t] \in Int /\ span_free_deferred[t] \in Spans \cup {None}
         /\ \A s \in Spans :
              /\ heap[s] \in Threads \cup {None} /\ free_list[s] \in SUBSET Indices
              /\ deferred[s] \in SUBSET Indices /\ free_list_limit[s] \in 0 .. block_count
              /\ used_count[s] \in Int /\ list_size[s] \in Int
              /\ locked[s] \in BOOLEAN /\ link[s] \in Spans \cup {None}
         /\ mapped \in 0 .. MaxSpans /\ Mapped \subseteq Spans /\ used \subseteq Blocks
  BY RpMallocAssumption DEF Types, Mapped, Spans

(* A block is a pair of its span and its place there.                      *)
LEMMA BlockPair ==
  ASSUME NEW b \in Blocks
  PROVE  b = <<Span(b), b[2]>> /\ Span(b) \in Spans /\ b[2] \in Indices
  BY DEF Blocks, Span, Indices

(* One of a list's blocks is in the list.                                  *)
LEMMA AnyOfList ==
  ASSUME NEW list, list # {}
  PROVE  AnyOf(list) \in list
  BY DEF AnyOf

(* The page after the first l blocks.                                      *)
LEMMA PageAfter ==
  ASSUME NEW l \in Nat, l < block_count
  PROVE  /\ Last(NextPage(l)) \in l + 1 .. block_count
         /\ NextPage(l) = l + 1 .. Last(NextPage(l))
<1> DEFINE n == IF l + PageBlocks < block_count THEN l + PageBlocks ELSE block_count
<1>1. n \in l + 1 .. block_count /\ n \in Nat
  BY RpMallocAssumption
<1>2. NextPage(l) = l + 1 .. n
  BY DEF NextPage
<1> HIDE DEF n
<1>3. Last(l + 1 .. n) = n
  <2>1. n \in l + 1 .. n /\ \A j \in l + 1 .. n : j <= n
    BY <1>1
  <2>2. \A m \in l + 1 .. n : (\A j \in l + 1 .. n : j <= m) => m = n
    BY <1>1
  <2> QED BY <2>1, <2>2 DEF Last
<1> QED BY <1>1, <1>2, <1>3

-----------------------------------------------------------------------------
(* The lists of partial spans.                                             *)
InSeq(seq) == {seq[i] : i \in DOMAIN seq}

(* The spans of a heap's partial list.                                     *)
LEMMA ListedIs == ASSUME NEW h PROVE Listed(h) = InSeq(partial[h])
  BY DEF Listed, InSeq

(* A span put first. *)
LEMMA PutFirst ==
  ASSUME NEW seq \in Seq(Spans), NoneTwice(seq), NEW s \in Spans, s \notin InSeq(seq)
  PROVE  /\ <<s>> \o seq \in Seq(Spans) /\ NoneTwice(<<s>> \o seq)
         /\ InSeq(<<s>> \o seq) = InSeq(seq) \cup {s}
<1> DEFINE r == <<s>> \o seq
<1>1. /\ r \in Seq(Spans) /\ Len(r) = Len(seq) + 1 /\ r[1] = s
      /\ \A i \in 2 .. Len(r) : r[i] = seq[i - 1] /\ i - 1 \in 1 .. Len(seq)
  BY ConcatProperties
<1>2. DOMAIN r = 1 .. Len(r) /\ DOMAIN seq = 1 .. Len(seq) /\ Len(seq) \in Nat
  BY <1>1, LenProperties
<1>3. \A i \in 1 .. Len(seq) : r[i + 1] = seq[i] /\ i + 1 \in 1 .. Len(r)
  BY <1>1, <1>2
<1> HIDE DEF r
<1>4. NoneTwice(r)
  <2> SUFFICES ASSUME NEW i \in 1 .. Len(r), NEW j \in 1 .. Len(r), r[i] = r[j] PROVE i = j
    BY DEF NoneTwice
  <2>1. \A k \in 1 .. Len(seq) : seq[k] # s
    BY <1>2 DEF InSeq
  <2>2. \A k \in 1 .. Len(r) : k = 1 \/ (r[k] = seq[k - 1] /\ k - 1 \in 1 .. Len(seq))
    BY <1>1, <1>2
  <2>3. CASE i # 1 /\ j # 1
    <3>1. seq[i - 1] = seq[j - 1] /\ i - 1 \in 1 .. Len(seq) /\ j - 1 \in 1 .. Len(seq)
      BY <2>2, <2>3
    <3>2. i - 1 = j - 1
      BY <3>1 DEF NoneTwice
    <3> QED BY <1>1, <1>2, <3>2
  <2> QED BY <1>1, <2>1, <2>2, <2>3
<1>5. InSeq(r) = InSeq(seq) \cup {s}
  <2>1. InSeq(r) \subseteq InSeq(seq) \cup {s}
    <3> SUFFICES ASSUME NEW i \in 1 .. Len(r) PROVE r[i] \in InSeq(seq) \cup {s}
      BY <1>2 DEF InSeq
    <3> QED BY <1>1, <1>2 DEF InSeq
  <2>2. InSeq(seq) \cup {s} \subseteq InSeq(r)
    <3>1. s \in InSeq(r)
      BY <1>1, <1>2 DEF InSeq
    <3>2. ASSUME NEW i \in 1 .. Len(seq) PROVE seq[i] \in InSeq(r)
      BY <1>2, <1>3 DEF InSeq
    <3> QED BY <1>2, <3>1, <3>2 DEF InSeq
  <2> QED BY <2>1, <2>2
<1> QED BY <1>1, <1>4, <1>5 DEF r

(* A span taken out, wherever it is.                                       *)
LEMMA TakenOut ==
  ASSUME NEW seq \in Seq(Spans), NoneTwice(seq), NEW s, s \in InSeq(seq)
  PROVE  /\ Without(seq, s) \in Seq(Spans) /\ NoneTwice(Without(seq, s))
         /\ InSeq(Without(seq, s)) = InSeq(seq) \ {s}
<1>1. PICK n \in Nat : n = Len(seq) /\ DOMAIN seq = 1 .. n /\ \A i \in 1 .. n : seq[i] \in Spans
  BY LenProperties, ElementOfSeq
<1> DEFINE k == CHOOSE i \in DOMAIN seq : seq[i] = s
<1>2. k \in 1 .. n /\ seq[k] = s
  BY <1>1 DEF InSeq
<1> DEFINE r == [i \in 1 .. Len(seq) - 1 |-> IF i < k THEN seq[i] ELSE seq[i + 1]]
<1>3. Without(seq, s) = r
  BY DEF Without
<1> HIDE DEF k
<1>4. n - 1 \in Nat /\ n >= 1
  BY <1>2
<1>5. \A i \in 1 .. n - 1 : r[i] = (IF i < k THEN seq[i] ELSE seq[i + 1]) /\ i \in 1 .. n /\ i + 1 \in 1 .. n
  BY <1>1, <1>4
<1>6. r \in [1 .. n - 1 -> Spans]
  BY <1>1, <1>5
<1>7. r \in Seq(Spans) /\ Len(r) = n - 1 /\ DOMAIN r = 1 .. n - 1
  <2>1. PICK m \in Nat : m = n - 1
    BY <1>4
  <2> HIDE DEF r
  <2>2. r \in [1 .. m -> Spans]
    BY <1>6, <2>1
  <2>3. r \in Seq(Spans) /\ Len(r) = m /\ DOMAIN r = 1 .. m
    BY <2>2
  <2> QED BY <2>1, <2>3
<1> HIDE DEF r
<1>8. NoneTwice(r)
  <2> SUFFICES ASSUME NEW i \in 1 .. n - 1, NEW j \in 1 .. n - 1, r[i] = r[j] PROVE i = j
    BY <1>7 DEF NoneTwice
  <2> DEFINE x == IF i < k THEN i ELSE i + 1
             y == IF j < k THEN j ELSE j + 1
  <2>1. x \in 1 .. n /\ y \in 1 .. n /\ r[i] = seq[x] /\ r[j] = seq[y] /\ (x = y => i = j)
    BY <1>2, <1>5
  <2> HIDE DEF x, y
  <2>2. x = y
    BY <1>1, <2>1 DEF NoneTwice
  <2> QED BY <2>1, <2>2
<1>9. InSeq(r) \subseteq InSeq(seq) \ {s}
  <2> SUFFICES ASSUME NEW i \in 1 .. n - 1 PROVE r[i] \in InSeq(seq) \ {s}
    BY <1>7 DEF InSeq
  <2> DEFINE x == IF i < k THEN i ELSE i + 1
  <2>1. x \in 1 .. n /\ r[i] = seq[x] /\ x # k
    BY <1>2, <1>5
  <2> HIDE DEF x
  <2>2. seq[x] # s
    BY <1>1, <1>2, <2>1 DEF NoneTwice
  <2> QED BY <1>1, <2>1, <2>2 DEF InSeq
<1>10. InSeq(seq) \ {s} \subseteq InSeq(r)
  <2> SUFFICES ASSUME NEW x \in 1 .. n, seq[x] # s PROVE seq[x] \in InSeq(r)
    BY <1>1 DEF InSeq
  <2> DEFINE i == IF x < k THEN x ELSE x - 1
  <2>1. i \in 1 .. n - 1 /\ r[i] = seq[x]
    BY <1>2, <1>5
  <2> HIDE DEF i
  <2> QED BY <1>7, <2>1 DEF InSeq
<1> QED BY <1>3, <1>7, <1>8, <1>9, <1>10

(* The first taken out. *)
LEMMA FirstTaken ==
  ASSUME NEW seq \in Seq(Spans), NoneTwice(seq), seq # <<>>
  PROVE  /\ Tail(seq) \in Seq(Spans) /\ NoneTwice(Tail(seq))
         /\ Head(seq) \in InSeq(seq) /\ InSeq(Tail(seq)) = InSeq(seq) \ {Head(seq)}
<1>1. PICK n \in Nat : n = Len(seq) /\ DOMAIN seq = 1 .. n /\ n # 0
  BY LenProperties, EmptySeq
<1>2. PICK r : r = Tail(seq)
  OBVIOUS
<1>3. /\ r \in Seq(Spans) /\ Len(r) = n - 1 /\ \A i \in 1 .. n - 1 : r[i] = seq[i + 1]
      /\ Head(seq) = seq[1]
  BY <1>1, <1>2, HeadTailProperties
<1>4. DOMAIN r = 1 .. n - 1
  BY <1>3, LenProperties
<1>5. NoneTwice(r)
  <2> SUFFICES ASSUME NEW i \in 1 .. n - 1, NEW j \in 1 .. n - 1, r[i] = r[j] PROVE i = j
    BY <1>3 DEF NoneTwice
  <2>1. i + 1 \in 1 .. n /\ j + 1 \in 1 .. n /\ seq[i + 1] = seq[j + 1]
    BY <1>3
  <2>2. i + 1 = j + 1
    BY <1>1, <2>1 DEF NoneTwice
  <2> QED BY <2>2
<1>6. InSeq(r) = InSeq(seq) \ {seq[1]}
  <2>1. ASSUME NEW i \in 1 .. n - 1 PROVE r[i] \in InSeq(seq) \ {seq[1]}
    <3>1. i + 1 \in 1 .. n /\ i + 1 # 1 /\ 1 \in 1 .. n /\ r[i] = seq[i + 1]
      BY <1>3
    <3>2. seq[i + 1] # seq[1]
      BY <1>1, <3>1 DEF NoneTwice
    <3> QED BY <1>1, <3>1, <3>2 DEF InSeq
  <2>2. ASSUME NEW x \in 1 .. n, seq[x] # seq[1] PROVE seq[x] \in InSeq(r)
    <3>1. x - 1 \in 1 .. n - 1 /\ r[x - 1] = seq[x]
      BY <1>3, <2>2
    <3> QED BY <1>4, <3>1 DEF InSeq
  <2> QED BY <1>1, <1>4, <2>1, <2>2 DEF InSeq
<1> QED BY <1>1, <1>2, <1>3, <1>5, <1>6 DEF InSeq

(* Without repetition, a list is as long as what is in it.                 *)
LEMMA LengthOfList ==
  ASSUME NEW seq \in Seq(Spans), NoneTwice(seq)
  PROVE  Cardinality(InSeq(seq)) = Len(seq)
<1>1. PICK n \in Nat : n = Len(seq) /\ DOMAIN seq = 1 .. n /\ seq \in [1 .. n -> Spans]
  BY LenProperties
<1>2. seq \in Bijection(1 .. n, InSeq(seq))
  <2>1. seq \in [1 .. n -> InSeq(seq)]
    BY <1>1 DEF InSeq
  <2>2. \A a, b \in 1 .. n : seq[a] = seq[b] => a = b
    BY <1>1 DEF NoneTwice
  <2>3. \A x \in InSeq(seq) : \E a \in 1 .. n : seq[a] = x
    BY <1>1 DEF InSeq
  <2> QED BY <2>1, <2>2, <2>3 DEF Bijection, Injection, Surjection, IsInjective
<1>3. IsFiniteSet(1 .. n) /\ Cardinality(1 .. n) = n
  BY FS_Interval
<1> QED BY <1>1, <1>2, <1>3, FS_Bijection DEF ExistsBijection

-----------------------------------------------------------------------------
(* The list of spans sent back to a heap holds what it is linked to.       *)
LEMMA QueuedFollows ==
  ASSUME Types, NEW h \in Threads
  PROVE  Follows(Queued(h), h) /\ Queued(h) \in SUBSET Spans
<1>1. span_free_deferred[h] \in Queued(h) \cup {None}
  BY TypesOf DEF Queued, Follows
<1>2. ASSUME NEW s \in Queued(h) PROVE link[s] \in Queued(h) \cup {None}
  BY TypesOf DEF Queued, Follows
<1> QED BY <1>1, <1>2 DEF Follows, Queued

(* The spans sent back to a heap are the least set that has the first and *)
(* the one after each.                                                     *)
LEMMA QueuedLeast ==
  ASSUME NEW h, NEW X \in SUBSET Spans, Follows(X, h)
  PROVE  Queued(h) \subseteq X
  BY DEF Queued

(* The end of a list is no span.                                           *)
LEMMA NoneIsNoSpan == None \notin Spans
  BY DEF None, Spans

(* Links outside it do not matter.                                         *)
LEMMA QueuedSame ==
  ASSUME Types, NEW h \in Threads, span_free_deferred'[h] = span_free_deferred[h],
         \A s \in Queued(h) : link'[s] = link[s]
  PROVE  Queued(h)' = Queued(h)
<1>1. Follows(Queued(h), h) /\ Queued(h) \in SUBSET Spans
  BY QueuedFollows
<1>2. ASSUME NEW s \in Queued(h) PROVE s \in Queued(h)'
  <2> SUFFICES ASSUME NEW X \in SUBSET Spans, Follows(X, h)' PROVE s \in X
    BY <1>1, <1>2 DEF Queued
  <2>1. span_free_deferred[h] \in X \cup {None} /\ \A r \in X : link'[r] \in X \cup {None}
    BY DEF Follows
  <2>2. Follows(X \cap Queued(h), h)
    BY <1>1, <2>1 DEF Follows
  <2>3. Queued(h) \subseteq X \cap Queued(h)
    BY <2>2, QueuedLeast
  <2> QED BY <1>2, <2>3
<1>3. ASSUME NEW s \in Queued(h)' PROVE s \in Queued(h)
  <2>1. \A X \in SUBSET Spans : Follows(X, h)' => s \in X
    BY <1>3 DEF Queued
  <2>2. span_free_deferred'[h] \in Queued(h) \cup {None} /\ \A r \in Queued(h) : link'[r] \in Queued(h) \cup {None}
    BY <1>1 DEF Follows
  <2>3. PICK Q \in SUBSET Spans : Q = Queued(h)
    BY <1>1
  <2>4. Follows(Q, h)'
    BY <2>2, <2>3 DEF Follows
  <2> QED BY <2>1, <2>3, <2>4
<1> QED BY <1>2, <1>3

(* A span put first.                                                       *)
LEMMA QueuedPush ==
  ASSUME Types, NEW h \in Threads, NEW z \in Spans, z \notin Queued(h),
         span_free_deferred'[h] = z, link[z] = span_free_deferred[h], link' = link
  PROVE  Queued(h)' = Queued(h) \cup {z} /\ (Ends(h) => Ends(h)')
<1>1. Follows(Queued(h), h) /\ Queued(h) \in SUBSET Spans
  BY QueuedFollows
<1>2. Queued(h)' \subseteq Queued(h) \cup {z}
  <2>1. PICK Q \in SUBSET Spans : Q = Queued(h) \cup {z}
    BY <1>1
  <2>2. span_free_deferred'[h] \in Q /\ \A r \in Q : link'[r] \in Q \cup {None}
    BY <1>1, <2>1 DEF Follows
  <2>3. Follows(Q, h)'
    BY <2>2 DEF Follows
  <2>4. \A s \in Queued(h)' : s \in Q
    BY <2>3 DEF Queued
  <2> QED BY <2>1, <2>4
<1>3. ASSUME NEW X \in SUBSET Spans, Follows(X, h)' PROVE Queued(h) \cup {z} \subseteq X
  <2>1. z \in X /\ \A r \in X : link[r] \in X \cup {None}
    BY <1>3, NoneIsNoSpan DEF Follows
  <2>2. Follows(X, h)
    BY <2>1 DEF Follows
  <2> QED BY <2>1, <2>2, QueuedLeast
<1>4. Queued(h) \cup {z} \subseteq Queued(h)'
  <2> SUFFICES ASSUME NEW s \in Queued(h) \cup {z} PROVE s \in Queued(h)'
    OBVIOUS
  <2>1. s \in Spans
    BY <1>1
  <2> QED BY <1>3, <2>1 DEF Queued
<1>5. ASSUME Ends(h), NEW X \in SUBSET (Queued(h) \cup {z}), X # {}
      PROVE  \E s \in X : link[s] \notin X
  <2>1. CASE X \ {z} = {}
    <3>1. X = {z} /\ link[z] # z
      BY <1>1, <1>5, <2>1, NoneIsNoSpan DEF Follows
    <3> QED BY <3>1
  <2>2. CASE X \ {z} # {}
    <3>1. PICK s \in X \ {z} : link[s] \notin X \ {z}
      BY <1>5, <2>2 DEF Ends
    <3>2. link[s] # z
      BY <1>1, <1>5, <3>1, NoneIsNoSpan DEF Follows
    <3> QED BY <3>1, <3>2
  <2> QED BY <2>1, <2>2
<1>6. Queued(h)' = Queued(h) \cup {z}
  BY <1>2, <1>4
<1>7. Ends(h) => Ends(h)'
  <2> SUFFICES ASSUME Ends(h), NEW X \in SUBSET Queued(h)', X # {} PROVE \E s \in X : link'[s] \notin X
    BY DEF Ends
  <2> QED BY <1>5, <1>6
<1> QED BY <1>6, <1>7

(* Without a first span, nothing was sent back.                            *)
LEMMA QueuedTaken ==
  ASSUME NEW h, span_free_deferred'[h] = None
  PROVE  Queued(h)' = {} /\ Ends(h)'
<1>1. Follows({}, h)'
  BY DEF Follows
<1>2. Queued(h)' = {}
  BY <1>1 DEF Queued
<1> QED BY <1>2 DEF Ends

-----------------------------------------------------------------------------
(* A step of one thread, seen from a span.                                 *)
SameAt(s) ==
  \A u \in Threads :
    \/ pc'[u] = pc[u] /\ arg'[u] = arg[u]
    \/ (pc[u] = "idle" \/ Span(arg[u]) # s) /\ (pc'[u] = "idle" \/ Span(arg'[u]) # s)

Quiet(s) ==
  /\ SameAt(s)
  /\ heap'[s] = heap[s] /\ free_list'[s] = free_list[s] /\ free_list_limit'[s] = free_list_limit[s]
  /\ used_count'[s] = used_count[s] /\ list_size'[s] = list_size[s]
  /\ deferred'[s] = deferred[s] /\ locked'[s] = locked[s]
  /\ InUse(s)' = InUse(s) /\ InClass(s)' = InClass(s)
  /\ (s \in Listed(heap[s]))' <=> s \in Listed(heap[s])
  /\ (s \in Waiting(heap[s]))' <=> s \in Waiting(heap[s])

(* A step that concerns another span leaves the calls about this one.      *)
LEMMA SameCalls ==
  ASSUME NEW s, SameAt(s), NEW X, "idle" \notin X
  PROVE  At(s, X)' = At(s, X) /\ Held(s, X)' = Held(s, X)
<1>1. At(s, X)' = At(s, X)
  <2>1. ASSUME NEW u \in Threads
        PROVE  (pc'[u] \in X /\ Span(arg'[u]) = s) <=> (pc[u] \in X /\ Span(arg[u]) = s)
    BY DEF SameAt
  <2> QED BY <2>1 DEF At
<1>2. \A u \in At(s, X) : arg'[u] = arg[u]
  BY DEF SameAt, At
<1> QED BY <1>1, <1>2 DEF Held

(* A span a step does not concern keeps its invariant.                     *)
LEMMA QuietSpan ==
  ASSUME NEW s, Quiet(s), SpanOk(s)
  PROVE  SpanOk(s)' /\ (Away(s)' <=> Away(s))
<1>1. "idle" \notin Flying /\ "idle" \notin Pushing /\ "idle" \notin Holding /\ "idle" \notin Storing
      /\ "idle" \notin Filling /\ "idle" \notin {"storeLast"}
  BY DEF Flying, Pushing, Holding, Storing, Filling
<1>2. /\ At(s, Flying)' = At(s, Flying) /\ At(s, Pushing)' = At(s, Pushing)
      /\ At(s, Holding)' = At(s, Holding) /\ At(s, Filling)' = At(s, Filling)
      /\ At(s, {"storeLast"})' = At(s, {"storeLast"})
      /\ Held(s, Flying)' = Held(s, Flying) /\ Held(s, Storing)' = Held(s, Storing)
  <2>1. SameAt(s)
    BY DEF Quiet
  <2> QED BY <1>1, <2>1, SameCalls
<1>3. Away(s)' <=> Away(s)
  BY <1>2 DEF Away, Quiet
<1>4. LockOk(s)'
  BY <1>2 DEF LockOk, SpanOk, Quiet
<1>5. AwayOk(s)'
  BY <1>2, <1>3 DEF AwayOk, SpanOk, Quiet
<1>6. ASSUME Partition(s) PROVE Partition(s)'
  <2>1. Unlinked(s)' = Unlinked(s)
    BY DEF Quiet, Unlinked
  <2> QED BY <1>2, <1>6, <2>1 DEF Partition, Quiet
<1>7. ASSUME CountsOk(s) PROVE CountsOk(s)'
  <2>1. Stored(s)' = Stored(s)
    BY <1>2 DEF Stored, Quiet
  <2> QED BY <1>2, <1>7, <2>1 DEF CountsOk, Quiet
<1>8. ASSUME PlaceOk(s) PROVE PlaceOk(s)'
  BY <1>2, <1>8 DEF PlaceOk, IsFull, Quiet
<1> QED BY <1>3, <1>4, <1>5, <1>6, <1>7, <1>8 DEF SpanOk, Quiet

(* No other thread moves.                                                  *)
OnlyBy(t) == \A u \in Threads \ {t} : pc'[u] = pc[u] /\ arg'[u] = arg[u]

(* A step of thread t that is about span z.                                *)
Touched(t, z) ==
  /\ OnlyBy(t)
  /\ pc[t] = "idle" \/ Span(arg[t]) = z
  /\ pc'[t] = "idle" \/ Span(arg'[t]) = z
  /\ phase' = phase
  /\ \A s \in Spans \ {z} :
       /\ heap'[s] = heap[s] /\ free_list'[s] = free_list[s] /\ free_list_limit'[s] = free_list_limit[s]
       /\ used_count'[s] = used_count[s] /\ list_size'[s] = list_size[s]
       /\ deferred'[s] = deferred[s] /\ locked'[s] = locked[s]
  /\ \A b \in Blocks : Span(b) # z => (b \in used' <=> b \in used)
  /\ \A h \in Threads, b \in Blocks : Span(b) # z => (b \in class_free'[h] <=> b \in class_free[h])
  /\ \A h \in Threads, s \in Spans \ {z} :
       ((s \in Listed(h))' <=> s \in Listed(h)) /\ ((s \in Waiting(h))' <=> s \in Waiting(h))

(* A span whose own fields and callers stay as they are keeps its           *)
(* invariant.                                                              *)
LEMMA TouchedQuiet ==
  ASSUME NEW t \in Threads, NEW z, Touched(t, z), NEW s \in Spans \ {z}, heap[s] \in Threads
  PROVE  Quiet(s)
<1>1. SameAt(s)
  <2> SUFFICES ASSUME NEW u \in Threads
               PROVE  \/ pc'[u] = pc[u] /\ arg'[u] = arg[u]
                      \/ (pc[u] = "idle" \/ Span(arg[u]) # s) /\ (pc'[u] = "idle" \/ Span(arg'[u]) # s)
    BY DEF SameAt
  <2>1. CASE u = t
    BY <2>1 DEF Touched
  <2>2. CASE u # t
    BY <2>2 DEF Touched, OnlyBy
  <2> QED BY <2>1, <2>2
<1>2. PICK h \in Threads : h = heap[s] /\ h = heap'[s]
  BY DEF Touched
<1>3. \A i \in Indices : <<s, i>> \in Blocks /\ Span(<<s, i>>) = s
  BY DEF Indices, Blocks, Span
<1>4. InUse(s)' = InUse(s)
  <2>1. \A i \in Indices : <<s, i>> \in used' <=> <<s, i>> \in used
    BY <1>3 DEF Touched
  <2> QED BY <2>1 DEF InUse
<1>5. InClass(s)' = InClass(s)
  <2>1. \A i \in Indices : <<s, i>> \in class_free'[h] <=> <<s, i>> \in class_free[h]
    BY <1>3 DEF Touched
  <2> QED BY <1>2, <2>1 DEF InClass
<1>6. ((s \in Listed(h))' <=> s \in Listed(h)) /\ ((s \in Waiting(h))' <=> s \in Waiting(h))
  BY DEF Touched
<1>7. ((s \in Listed(heap[s]))' <=> s \in Listed(heap[s])) /\ ((s \in Waiting(heap[s]))' <=> s \in Waiting(heap[s]))
  <2>1. Listed(heap[s])' = Listed(h)' /\ Listed(heap[s]) = Listed(h)
    BY <1>2 DEF Listed
  <2>2. Waiting(heap[s])' = Waiting(h)' /\ Waiting(heap[s]) = Waiting(h)
    BY <1>2 DEF Waiting, Queued, Follows
  <2> QED BY <1>6, <2>1, <2>2
<1> QED BY <1>1, <1>4, <1>5, <1>7 DEF Quiet, Touched

(* A thread that owns the heap of a span is alone with it.                 *)
LEMMA OneOwner ==
  ASSUME OneById, NEW t \in Threads, NEW u \in Threads, phase[t] = "live", CallOk(u),
         pc[u] \in Filling \cup {"sync"}, FillOk(u), SyncOk(u), IsOwner(t, Span(arg[u]))
  PROVE  u = t
<1>1. phase[u] = "live"
  BY DEF CallOk, Filling
<1>2. thread_id[t] = thread_id[u]
  BY DEF FillOk, SyncOk, IsOwner
<1> QED BY <1>1, <1>2 DEF OneById

(* What is left to show of such a step.                                    *)
LEMMA StepKeeps ==
  ASSUME HeapInv, NEW t \in Threads, NEW z \in Spans, Touched(t, z), Types',
         Mapped \subseteq Mapped', Mapped' \subseteq Mapped \cup {z},
         z \in Mapped' => SpanOk(z)',
         CallOk(t)', FillOk(t)', SyncOk(t)', OneHolder',
         \A u \in Threads \ {t} :
           /\ phase[u] = "live" => partial'[u] = partial[u]
           /\ pc[u] # "idle" /\ Span(arg[u]) = z => FillOk(u)' /\ SyncOk(u)',
         \A h \in Threads : HeapOk(h)',
         \A b \in used' : Span(b) = z => z \in Mapped'
  PROVE  HeapInv'
<1>0. Mapped \subseteq Spans
  BY TypesOf DEF HeapInv
<1>1. ASSUME NEW s \in Mapped' PROVE SpanOk(s)'
  <2>1. CASE s # z
    <3>1. s \in Spans \ {z} /\ s \in Mapped /\ SpanOk(s)
      BY <1>0, <1>1, <2>1 DEF HeapInv
    <3>2. Quiet(s)
      BY <3>1, TouchedQuiet DEF SpanOk
    <3> QED BY <3>1, <3>2, QuietSpan
  <2> QED BY <1>1, <2>1
<1>2. OneById'
  BY DEF HeapInv, OneById, Touched
<1>3. ASSUME NEW u \in Threads \ {t} PROVE CallOk(u)' /\ FillOk(u)' /\ SyncOk(u)'
  <2>1. CallOk(u) /\ FillOk(u) /\ SyncOk(u) /\ pc'[u] = pc[u] /\ arg'[u] = arg[u] /\ phase'[u] = phase[u]
    BY <1>3 DEF HeapInv, Touched, OnlyBy
  <2>2. CallOk(u)'
    BY <2>1 DEF CallOk
  <2>3. CASE pc[u] = "idle"
    BY <2>1, <2>2, <2>3 DEF FillOk, SyncOk, Filling
  <2>4. CASE pc[u] # "idle" /\ Span(arg[u]) = z
    BY <1>3, <2>2, <2>4
  <2>5. CASE pc[u] # "idle" /\ Span(arg[u]) # z
    <3>1. PICK s \in Mapped : s = Span(arg[u]) /\ s # z /\ s \in Spans
      BY <1>0, <2>1, <2>5 DEF CallOk
    <3>2. SpanOk(s) /\ Quiet(s)
      BY <3>1, TouchedQuiet DEF HeapInv, SpanOk
    <3>3. Away(s)' <=> Away(s)
      BY <3>2, QuietSpan
    <3>4. heap'[s] = heap[s] /\ free_list'[s] = free_list[s] /\ used_count'[s] = used_count[s]
          /\ list_size'[s] = list_size[s] /\ ((s \in Listed(heap[s]))' <=> s \in Listed(heap[s]))
      BY <3>2 DEF Quiet
    <3>5. partial'[u] = partial[u]
      BY <1>3, <2>1, <2>5 DEF CallOk
    <3>6. FillOk(u)'
      BY <2>1, <3>1, <3>4, <3>5 DEF FillOk
    <3>7. SyncOk(u)'
      <4>1. SUFFICES ASSUME pc[u] = "sync"
                     PROVE  /\ ~ Away(s)' /\ IsOwner(u, s)' /\ (s \in Listed(heap[s]))'
                            /\ used_count'[s] = list_size'[s]
        <5>1. Span(arg[u])' = s
          BY <2>1, <3>1
        <5> QED BY <2>1, <3>1, <5>1 DEF SyncOk, Away, At, Waiting, Queued, Follows, IsOwner, Listed
      <4>2. ~ Away(s) /\ IsOwner(u, s) /\ s \in Listed(heap[s]) /\ used_count[s] = list_size[s]
        BY <2>1, <3>1, <4>1 DEF SyncOk
      <4> QED BY <3>3, <3>4, <4>2 DEF IsOwner
    <3> QED BY <2>2, <3>6, <3>7
  <2> QED BY <2>3, <2>4, <2>5
<1>4. \A b \in used' : Span(b) \in Mapped'
  <2>1. \A b \in used' : Span(b) # z => b \in used
    BY TypesOf DEF HeapInv, Touched, Types
  <2> QED BY <2>1 DEF HeapInv
<1>5. \A u \in Threads : CallOk(u)' /\ FillOk(u)' /\ SyncOk(u)' /\ HeapOk(u)'
  BY <1>3
<1> QED BY <1>1, <1>2, <1>4, <1>5 DEF HeapInv

(* A heap nothing happens to.                                              *)
LEMMA HeapSame ==
  ASSUME Types, NEW h \in Threads, HeapOk(h), Own(h)' = Own(h),
         class_free'[h] = class_free[h], partial'[h] = partial[h], cache'[h] = cache[h],
         full_span_count'[h] = full_span_count[h], span_free_deferred'[h] = span_free_deferred[h],
         \A s \in Queued(h) : link'[s] = link[s]
  PROVE  HeapOk(h)'
<1>1. Queued(h)' = Queued(h) /\ Listed(h)' = Listed(h)
  BY QueuedSame DEF Listed
<1>2. Full(h)' = Full(h) /\ Waiting(h)' = Waiting(h)
  BY <1>1 DEF Full, Waiting
<1>3. Ends(h)'
  <2> SUFFICES ASSUME NEW X \in SUBSET Queued(h), X # {} PROVE \E s \in X : link'[s] \notin X
    BY <1>1 DEF Ends
  <2> QED BY DEF HeapOk, Ends
<1> QED BY <1>1, <1>2, <1>3 DEF HeapOk

-----------------------------------------------------------------------------
(* Calls go from place to place.                                           *)
LEMMA OnlyByOne ==
  ASSUME Types, NEW t \in Threads, NEW place, NEW b,
         pc' = [pc EXCEPT ![t] = place], arg' = [arg EXCEPT ![t] = b]
  PROVE  OnlyBy(t) /\ pc'[t] = place /\ arg'[t] = b
  BY DEF Types, OnlyBy

(* A step of one thread moves only that thread.                            *)
LEMMA Moves ==
  ASSUME NEW t \in Threads, OnlyBy(t)
  PROVE  \A s, X : At(s, X)' = IF pc'[t] \in X /\ Span(arg'[t]) = s THEN At(s, X) \cup {t} ELSE At(s, X) \ {t}
<1> SUFFICES ASSUME NEW s, NEW X
             PROVE  At(s, X)' = IF pc'[t] \in X /\ Span(arg'[t]) = s THEN At(s, X) \cup {t} ELSE At(s, X) \ {t}
  OBVIOUS
<1>1. At(s, X)' = {u \in Threads : pc'[u] \in X /\ Span(arg'[u]) = s}
  BY DEF At
<1> QED BY <1>1 DEF At, OnlyBy

(* A block is held by one call.                                            *)
LEMMA HolderMoves ==
  ASSUME OneHolder, NEW t \in Threads, OnlyBy(t),
         pc'[t] \in Flying => \A u \in Threads \ {t} : pc[u] \in Flying => arg[u] # arg'[t]
  PROVE  OneHolder'
  BY DEF OneHolder, OnlyBy

(* A call at a span of which what it relies on stays.                      *)
LEMMA CallSame ==
  ASSUME NEW u \in Threads, NEW s, s = Span(arg[u]), FillOk(u), SyncOk(u),
         pc'[u] = pc[u], arg'[u] = arg[u], partial'[u] = partial[u],
         heap'[s] = heap[s], free_list'[s] = free_list[s],
         used_count'[s] = used_count[s], list_size'[s] = list_size[s],
         Away(s)' <=> Away(s), (s \in Listed(heap[s]))' <=> s \in Listed(heap[s])
  PROVE  FillOk(u)' /\ SyncOk(u)'
<1>1. FillOk(u)'
  BY DEF FillOk
<1>2. ASSUME pc[u] = "sync"
      PROVE  ~ Away(s)' /\ IsOwner(u, s)' /\ (s \in Listed(heap[s]))' /\ used_count'[s] = list_size'[s]
  <2>1. ~ Away(s) /\ IsOwner(u, s) /\ s \in Listed(heap[s]) /\ used_count[s] = list_size[s]
    BY <1>2 DEF SyncOk
  <2> QED BY <2>1 DEF IsOwner
<1>3. SyncOk(u)'
  <2>1. Span(arg[u])' = s
    OBVIOUS
  <2> QED BY <1>2, <2>1 DEF SyncOk, Away, At, Waiting, Queued, Follows, IsOwner, Listed
<1> QED BY <1>1, <1>3

(* A thread that holds a block goes on with it.                            *)
LEMMA GoesOn ==
  ASSUME NEW t \in Threads, OnlyBy(t), arg'[t] = arg[t],
         NEW X, pc[t] \in X <=> pc'[t] \in X
  PROVE  \A s : At(s, X)' = At(s, X) /\ Held(s, X)' = Held(s, X)
<1> SUFFICES ASSUME NEW s PROVE At(s, X)' = At(s, X) /\ Held(s, X)' = Held(s, X)
  OBVIOUS
<1>1. At(s, X)' = At(s, X)
  BY Moves DEF At
<1>2. \A u \in At(s, X) : arg'[u] = arg[u]
  BY DEF At, OnlyBy
<1> QED BY <1>1, <1>2 DEF Held

(* Neither starting nor ending changes anything of a call.                 *)
LEMMA PhaseKeeps ==
  ASSUME HeapInv, phase' \in [Threads -> {"new", "live", "gone"}],
         UNCHANGED <<pc, arg, used, localVars, ownerVars, sharedVars, spanList>>,
         OneById', \A t \in Threads : CallOk(t)'
  PROVE  HeapInv'
<1> USE DEF localVars, ownerVars, sharedVars, spanList
<1>1. Types'
  BY DEF HeapInv, Types
<1>2. \A s, X : At(s, X)' = At(s, X) /\ Held(s, X)' = Held(s, X)
  BY DEF At, Held
<1>3. \A h : /\ Listed(h)' = Listed(h) /\ Queued(h)' = Queued(h) /\ Waiting(h)' = Waiting(h)
             /\ Own(h)' = Own(h)
  BY DEF Listed, Queued, Follows, Waiting, Own, Mapped
<1>4. \A s : SameAt(s)
  BY DEF SameAt
<1>5. ASSUME NEW s \in Mapped PROVE SpanOk(s)' /\ (Away(s)' <=> Away(s))
  <2>1. InUse(s)' = InUse(s) /\ InClass(s)' = InClass(s)
    BY DEF InUse, InClass
  <2>2. Quiet(s)
    BY <1>3, <1>4, <2>1 DEF Quiet
  <2>3. SpanOk(s)
    BY DEF HeapInv
  <2> QED BY <2>2, <2>3, QuietSpan
<1>6. ASSUME NEW t \in Threads PROVE FillOk(t)' /\ SyncOk(t)' /\ HeapOk(t)'
  <2>1. FillOk(t) /\ SyncOk(t) /\ CallOk(t) /\ HeapOk(t) /\ Types
    BY DEF HeapInv
  <2>2. HeapOk(t)'
    BY <1>3, <2>1, HeapSame
  <2>3. CASE pc[t] = "idle"
    BY <2>2, <2>3 DEF FillOk, SyncOk, Filling
  <2>4. CASE pc[t] # "idle"
    <3>1. Span(arg[t]) \in Mapped
      BY <2>1, <2>4 DEF CallOk
    <3>2. Away(Span(arg[t]))' <=> Away(Span(arg[t]))
      BY <1>5, <3>1
    <3> QED BY <1>3, <2>1, <2>2, <3>2, CallSame
  <2> QED BY <2>3, <2>4
<1>7. OneHolder' /\ Mapped' = Mapped
  BY DEF HeapInv, OneHolder, Mapped
<1> QED BY <1>1, <1>5, <1>6, <1>7 DEF HeapInv

(* A thread that starts has an id that no live thread has.                 *)
LEMMA StartKeeps ==
  ASSUME HeapInv, NEW t \in Threads, Start(t)
  PROVE  HeapInv'
<1>1. /\ phase' = [phase EXCEPT ![t] = "live"] /\ phase[t] = "new"
      /\ \A u \in Threads : phase[u] = "live" => thread_id[u] # thread_id[t]
      /\ UNCHANGED <<pc, arg, used, localVars, ownerVars, sharedVars, spanList>>
  BY DEF Start
<1>2. phase \in [Threads -> {"new", "live", "gone"}] /\ OneById /\ \A u \in Threads : CallOk(u)
  BY DEF HeapInv, Types
<1>3. phase' \in [Threads -> {"new", "live", "gone"}] /\ phase'[t] = "live"
      /\ \A u \in Threads \ {t} : phase'[u] = phase[u]
  BY <1>1, <1>2
<1>4. OneById'
  BY <1>1, <1>2, <1>3 DEF OneById
<1>5. \A u \in Threads : CallOk(u)'
  BY <1>1, <1>2, <1>3 DEF CallOk, Mapped, localVars
<1> QED BY <1>1, <1>3, <1>4, <1>5, PhaseKeeps

(* A thread ends outside of a call.                                        *)
LEMMA ExitKeeps ==
  ASSUME HeapInv, NEW t \in Threads, Exit(t)
  PROVE  HeapInv'
<1>1. /\ phase' = [phase EXCEPT ![t] = "gone"] /\ pc[t] = "idle"
      /\ UNCHANGED <<pc, arg, used, localVars, ownerVars, sharedVars, spanList>>
  BY DEF Exit
<1>2. phase \in [Threads -> {"new", "live", "gone"}] /\ OneById /\ \A u \in Threads : CallOk(u)
  BY DEF HeapInv, Types
<1>3. phase' \in [Threads -> {"new", "live", "gone"}] /\ phase'[t] = "gone"
      /\ \A u \in Threads \ {t} : phase'[u] = phase[u]
  BY <1>1, <1>2
<1>4. OneById'
  BY <1>1, <1>2, <1>3 DEF OneById
<1>5. \A u \in Threads : CallOk(u)'
  BY <1>1, <1>2, <1>3 DEF CallOk, Mapped, localVars
<1> QED BY <1>1, <1>3, <1>4, <1>5, PhaseKeeps

(* A block of the class is given to the program.                           *)
LEMMA PopBlockKeeps ==
  ASSUME HeapInv, NEW t \in Threads, PopBlock(t)
  PROVE  HeapInv'
<1>0. Types /\ HeapOk(t) /\ OneHolder
  BY DEF HeapInv
<1>1. PICK b \in Blocks :
      /\ phase[t] = "live" /\ pc[t] = "idle" /\ b \in class_free[t]
      /\ class_free' = [class_free EXCEPT ![t] = @ \ {b}] /\ used' = used \cup {b}
      /\ UNCHANGED <<phase, pc, arg, mapped, heap, free_list_limit, partial, cache, full_span_count>>
      /\ UNCHANGED <<ownerVars, sharedVars, spanList>>
  <2>1. PICK b : b = AnyOf(class_free[t])
    OBVIOUS
  <2>2. b \in class_free[t] /\ b \in Blocks
    BY <1>0, <2>1, AnyOfList, TypesOf DEF PopBlock
  <2> QED BY <2>1, <2>2 DEF PopBlock, Asked, Idle
<1>2. PICK z \in Spans, i \in Indices : b = <<z, i>> /\ z = Span(b)
  BY <1>1, BlockPair
<1>3. z \in Mapped /\ heap[z] = t /\ SpanOk(z) /\ i \in InClass(z)
  BY <1>0, <1>1, <1>2 DEF HeapOk, Own, HeapInv, InClass
<1>4. ~ Away(z) /\ Partition(z) /\ CountsOk(z) /\ PlaceOk(z) /\ LockOk(z) /\ AwayOk(z)
  BY <1>3 DEF SpanOk, AwayOk
<1>5. class_free' \in [Threads -> SUBSET Blocks] /\ class_free'[t] = class_free[t] \ {b}
      /\ \A h \in Threads \ {t} : class_free'[h] = class_free[h]
  BY <1>0, <1>1 DEF Types
<1>6. Types'
  BY <1>0, <1>1, <1>5 DEF Types, ownerVars, sharedVars, spanList
<1>7. /\ \A s, X : At(s, X)' = At(s, X) /\ Held(s, X)' = Held(s, X)
      /\ \A h : Listed(h)' = Listed(h) /\ Queued(h)' = Queued(h) /\ Waiting(h)' = Waiting(h) /\ Own(h)' = Own(h)
      /\ Mapped' = Mapped
  BY <1>1 DEF At, Held, Listed, Queued, Follows, Waiting, Own, Mapped, spanList
<1>8. Touched(t, z)
  BY <1>1, <1>2, <1>5, <1>7 DEF Touched, OnlyBy, ownerVars, sharedVars
<1>9. InUse(z)' = InUse(z) \cup {i} /\ InClass(z)' = InClass(z) \ {i}
  BY <1>1, <1>2, <1>3, <1>5 DEF InUse, InClass
<1>10. SpanOk(z)'
  <2>1. Away(z)' <=> Away(z)
    BY <1>1, <1>7 DEF Away
  <2>2. LockOk(z)' /\ AwayOk(z)'
    BY <1>1, <1>4, <1>7, <2>1 DEF LockOk, AwayOk, sharedVars
  <2>3. Partition(z)'
    <3>1. Unlinked(z)' = Unlinked(z) /\ free_list'[z] = free_list[z] /\ deferred'[z] = deferred[z]
      BY <1>1 DEF Unlinked, ownerVars, sharedVars
    <3> QED BY <1>3, <1>4, <1>7, <1>9, <3>1 DEF Partition, Apart
  <2>4. CountsOk(z)'
    BY <1>1, <1>4, <1>7 DEF CountsOk, Stored, ownerVars, sharedVars
  <2>5. PlaceOk(z)'
    BY <1>1, <1>4, <1>7 DEF PlaceOk, IsFull, ownerVars
  <2> QED BY <1>1, <1>3, <2>2, <2>3, <2>4, <2>5 DEF SpanOk
<1>11. \A u \in Threads : (pc[u] # "idle" /\ Span(arg[u]) = z) \/ u = t => CallOk(u)' /\ FillOk(u)' /\ SyncOk(u)'
  <2> SUFFICES ASSUME NEW u \in Threads, (pc[u] # "idle" /\ Span(arg[u]) = z) \/ u = t
               PROVE  CallOk(u)' /\ FillOk(u)' /\ SyncOk(u)'
    OBVIOUS
  <2>1. FillOk(u) /\ SyncOk(u) /\ CallOk(u)
    BY DEF HeapInv
  <2>2. Away(z)' <=> Away(z)
    BY <1>1, <1>7 DEF Away
  <2>3. CASE u = t
    BY <1>1, <2>3 DEF CallOk, FillOk, SyncOk, Filling
  <2>4. CASE u # t
    <3>1. Span(arg[u]) = z /\ pc[u] # "idle"
      BY <2>4
    <3>2. /\ pc'[u] = pc[u] /\ arg'[u] = arg[u] /\ partial'[u] = partial[u] /\ heap'[z] = heap[z]
          /\ free_list'[z] = free_list[z] /\ used_count'[z] = used_count[z] /\ list_size'[z] = list_size[z]
          /\ ((z \in Listed(heap[z]))' <=> z \in Listed(heap[z]))
      BY <1>1, <1>7 DEF ownerVars, sharedVars
    <3>3. FillOk(u)' /\ SyncOk(u)'
      BY <2>1, <2>2, <3>1, <3>2, CallSame
    <3>4. CallOk(u)'
      BY <1>1, <1>7, <2>1 DEF CallOk
    <3> QED BY <3>3, <3>4
  <2> QED BY <2>3, <2>4
<1>12. OneHolder'
  BY <1>0, <1>1 DEF OneHolder
<1>13. ASSUME NEW h \in Threads PROVE HeapOk(h)'
  <2>1. HeapOk(h)
    BY DEF HeapInv
  <2>2. CASE h # t
    BY <1>0, <1>1, <1>5, <1>7, <2>1, <2>2, HeapSame DEF spanList
  <2>3. CASE h = t
    <3>1. Full(h)' = Full(h) /\ Ends(h)'
      BY <1>1, <1>7, <2>1 DEF Full, HeapOk, Ends, spanList
    <3> QED BY <1>1, <1>5, <1>7, <2>1, <2>3, <3>1 DEF HeapOk
  <2> QED BY <2>2, <2>3
<1> QED BY <1>1, <1>2, <1>3, <1>6, <1>7, <1>8, <1>10, <1>11, <1>12, <1>13, StepKeeps

(* The other calls at a span of which what they rely on stays.             *)
LEMMA OthersSame ==
  ASSUME HeapInv, NEW t \in Threads, OnlyBy(t), NEW z,
         partial' = partial, heap'[z] = heap[z], free_list'[z] = free_list[z],
         used_count'[z] = used_count[z], list_size'[z] = list_size[z], Away(z)' <=> Away(z)
  PROVE  \A u \in Threads \ {t} :
           /\ partial'[u] = partial[u]
           /\ pc[u] # "idle" /\ Span(arg[u]) = z => FillOk(u)' /\ SyncOk(u)'
<1> SUFFICES ASSUME NEW u \in Threads \ {t}, Span(arg[u]) = z PROVE FillOk(u)' /\ SyncOk(u)'
  OBVIOUS
<1>1. FillOk(u) /\ SyncOk(u) /\ pc'[u] = pc[u] /\ arg'[u] = arg[u]
  BY DEF HeapInv, OnlyBy
<1>2. (z \in Listed(heap[z]))' <=> z \in Listed(heap[z])
  BY DEF Listed
<1> QED BY <1>1, <1>2, CallSame

(* When the owner acts, no other thread fills from the span or gives it up. *)
LEMMA OthersAway ==
  ASSUME HeapInv, NEW t \in Threads, OnlyBy(t), NEW z, phase[t] = "live", IsOwner(t, z)
  PROVE  \A u \in Threads \ {t} :
           pc[u] # "idle" /\ Span(arg[u]) = z =>
             pc[u] \notin Filling \cup {"sync"} /\ FillOk(u)' /\ SyncOk(u)'
<1> SUFFICES ASSUME NEW u \in Threads \ {t}, pc[u] # "idle", Span(arg[u]) = z
             PROVE  pc[u] \notin Filling \cup {"sync"} /\ FillOk(u)' /\ SyncOk(u)'
  OBVIOUS
<1>1. pc[u] \notin Filling \cup {"sync"}
  BY OneOwner DEF HeapInv
<1> QED BY <1>1 DEF OnlyBy, FillOk, SyncOk

(* A heap whose spans are only used by others.                             *)
LEMMA HeapsSame ==
  ASSUME HeapInv,
         UNCHANGED <<mapped, heap, class_free, partial, cache, full_span_count, span_free_deferred, link>>
  PROVE  /\ \A h \in Threads : HeapOk(h)'
         /\ \A h : Listed(h)' = Listed(h) /\ Queued(h)' = Queued(h) /\ Waiting(h)' = Waiting(h)
         /\ Mapped' = Mapped
<1>1. \A h : /\ Listed(h)' = Listed(h) /\ Queued(h)' = Queued(h) /\ Waiting(h)' = Waiting(h)
             /\ Own(h)' = Own(h)
  BY DEF Listed, Queued, Follows, Waiting, Own, Mapped
<1>2. ASSUME NEW h \in Threads PROVE HeapOk(h)'
  <2>1. HeapOk(h) /\ Types
    BY DEF HeapInv
  <2> QED BY <1>1, <2>1, HeapSame
<1> QED BY <1>1, <1>2 DEF Mapped

(* A call is about a span that is there, with the block it holds.          *)
LEMMA CallAt ==
  ASSUME HeapInv, NEW t \in Threads, pc[t] # "idle"
  PROVE  \E z \in Mapped, i \in Indices :
           /\ z \in Spans /\ arg[t] = <<z, i>> /\ Span(arg[t]) = z /\ arg[t][2] = i
           /\ phase[t] = "live" /\ SpanOk(z)
<1>1. CallOk(t) /\ Types
  BY DEF HeapInv
<1>2. Span(arg[t]) \in Mapped /\ phase[t] = "live" /\ Mapped \subseteq Spans
  BY <1>1, TypesOf DEF CallOk
<1>3. arg[t] \in Blocks
  BY <1>1, <1>2, TypesOf, NoneIsNoSpan DEF NoBlock, Span, None
<1> QED BY <1>2, <1>3, BlockPair DEF HeapInv

(* Of a span that is held, nothing came back.                              *)
LEMMA HeldSpan ==
  ASSUME NEW z, SpanOk(z), NEW t \in Threads, pc[t] \in Flying, Span(arg[t]) = z
  PROVE  /\ ~ Away(z) /\ Partition(z) /\ CountsOk(z) /\ PlaceOk(z) /\ LockOk(z) /\ AwayOk(z)
         /\ t \in At(z, Flying) /\ arg[t][2] \in Held(z, Flying) /\ At(z, Pushing) = {}
<1>1. t \in At(z, Flying)
  BY DEF At
<1> QED BY <1>1 DEF SpanOk, AwayOk, Away, Held

(* Taking the lock of a span's deferred list, with the list in it.         *)
LEMMA ExtractKeeps ==
  ASSUME HeapInv, NEW t \in Threads, Extract(t)
  PROVE  HeapInv'
<1>0. Types /\ OneHolder /\ FillOk(t) /\ CallOk(t)
  BY DEF HeapInv
<1>1. PICK z \in Mapped, i \in Indices :
        z \in Spans /\ arg[t] = <<z, i>> /\ Span(arg[t]) = z /\ SpanOk(z) /\ phase[t] = "live"
  BY CallAt DEF Extract
<1>2. /\ pc[t] = "extract" /\ ~ locked[z] /\ locked' = [locked EXCEPT ![z] = TRUE]
      /\ OnlyBy(t) /\ pc'[t] = "swap" /\ arg'[t] = arg[t]
      /\ phase' = phase /\ UNCHANGED <<used, localVars, ownerVars, deferred, list_size, spanList>>
  BY <1>0, <1>1, OnlyByOne DEF Extract, LockDeferred, GoTo
<1>3. /\ ~ Away(z) /\ Partition(z) /\ CountsOk(z) /\ PlaceOk(z) /\ LockOk(z) /\ AwayOk(z)
      /\ t \in At(z, Flying) /\ At(z, Pushing) = {}
  BY <1>1, <1>2, HeldSpan DEF Flying, Filling
<1>4. /\ \A s : At(s, Flying)' = At(s, Flying) /\ Held(s, Flying)' = Held(s, Flying)
      /\ \A s : At(s, Filling)' = At(s, Filling)
      /\ \A s : At(s, Storing)' = At(s, Storing) /\ Held(s, Storing)' = Held(s, Storing)
      /\ \A s : At(s, {"storeLast"})' = At(s, {"storeLast"})
      /\ \A s : At(s, Pushing)' = At(s, Pushing)
  <2>1. /\ pc[t] \in Flying /\ pc'[t] \in Flying /\ pc[t] \in Filling /\ pc'[t] \in Filling
        /\ pc[t] \notin Storing /\ pc'[t] \notin Storing /\ pc[t] \notin Pushing /\ pc'[t] \notin Pushing
        /\ pc[t] \notin {"storeLast"} /\ pc'[t] \notin {"storeLast"}
    BY <1>2 DEF Flying, Filling, Storing, Pushing
  <2> QED BY <1>2, <2>1, GoesOn
<1>5. At(z, Holding) = {} /\ At(z, Holding)' = {t}
  <2>1. At(z, Holding) = {}
    BY <1>2, <1>3 DEF LockOk
  <2>2. pc'[t] \in Holding /\ Span(arg'[t]) = z
    BY <1>1, <1>2 DEF Holding
  <2> QED BY <1>2, <2>1, <2>2, Moves
<1>6. locked'[z] = TRUE /\ locked' \in [Spans -> BOOLEAN] /\ \A s \in Spans \ {z} : locked'[s] = locked[s]
  BY <1>0, <1>1, <1>2 DEF Types
<1>7. UNCHANGED <<mapped, heap, class_free, partial, cache, full_span_count, span_free_deferred, link>>
  BY <1>2 DEF localVars, spanList
<1>8. /\ \A h \in Threads : HeapOk(h)' /\ Mapped' = Mapped
      /\ \A h : Listed(h)' = Listed(h) /\ Waiting(h)' = Waiting(h)
  BY <1>7, HeapsSame
<1>9. Away(z)' <=> Away(z)
  BY <1>4, <1>7, <1>8 DEF Away
<1>10. Touched(t, z)
  BY <1>1, <1>2, <1>6, <1>8 DEF Touched, localVars, ownerVars, sharedVars
<1>11. Types'
  <2>1. pc' = [pc EXCEPT ![t] = "swap"] /\ arg' = [arg EXCEPT ![t] = arg[t]]
    BY <1>1 DEF Extract, GoTo
  <2>2. pc' \in [Threads -> {"idle", "sync"} \cup Flying \cup Pushing] /\ arg' = arg
    BY <1>0, <2>1 DEF Types, Flying, Filling
  <2> QED BY <1>0, <1>2, <1>6, <2>2 DEF Types, localVars, ownerVars, spanList
<1>12. SpanOk(z)'
  <2>1. LockOk(z)'
    BY <1>5, <1>6 DEF LockOk
  <2>2. InUse(z)' = InUse(z) /\ InClass(z)' = InClass(z) /\ Unlinked(z)' = Unlinked(z)
    BY <1>2 DEF InUse, InClass, Unlinked, localVars
  <2>3. AwayOk(z)'
    BY <1>3, <1>4, <1>7, <1>8, <1>9, <2>2 DEF AwayOk
  <2>4. Partition(z)' /\ CountsOk(z)' /\ PlaceOk(z)'
    BY <1>2, <1>3, <1>4, <1>8, <2>2 DEF Partition, CountsOk, Stored, PlaceOk, IsFull, localVars, ownerVars
  <2> QED BY <1>1, <1>7, <2>1, <2>3, <2>4 DEF SpanOk
<1>13. \A u \in Threads \ {t} :
         /\ partial'[u] = partial[u]
         /\ pc[u] # "idle" /\ Span(arg[u]) = z => FillOk(u)' /\ SyncOk(u)'
  BY <1>2, <1>7, <1>9, OthersSame DEF ownerVars
<1>14. CallOk(t)' /\ FillOk(t)' /\ SyncOk(t)'
  BY <1>0, <1>1, <1>2, <1>7, <1>8 DEF CallOk, FillOk, SyncOk, Filling, ownerVars
<1>15. OneHolder'
  BY <1>0, <1>2, HolderMoves DEF OneHolder, Flying, Filling
<1> QED BY <1>1, <1>8, <1>10, <1>11, <1>12, <1>13, <1>14, <1>15, StepKeeps

-----------------------------------------------------------------------------
(* A thread comes to a place, leaves one, or has nothing to do with it.    *)
LEMMA Comes ==
  ASSUME NEW t \in Threads, OnlyBy(t), NEW X, pc[t] \notin X, pc'[t] \in X, NEW z, Span(arg'[t]) = z
  PROVE  /\ At(z, X)' = At(z, X) \cup {t} /\ t \notin At(z, X)
         /\ Held(z, X)' = Held(z, X) \cup {arg'[t][2]}
<1>1. At(z, X)' = At(z, X) \cup {t} /\ t \notin At(z, X)
  BY Moves DEF At
<1>2. \A u \in At(z, X) : arg'[u] = arg[u]
  BY <1>1 DEF At, OnlyBy
<1> QED BY <1>1, <1>2 DEF Held

(* A span that the head of the partial list gives up is in it no more.    *)
LEMMA Leaves ==
  ASSUME Types, OneHolder, NEW t \in Threads, OnlyBy(t), NEW X, X \subseteq Flying,
         pc[t] \in X, pc'[t] \notin X, NEW z \in Spans, NEW i, arg[t] = <<z, i>>
  PROVE  At(z, X)' = At(z, X) \ {t} /\ Held(z, X)' = Held(z, X) \ {i}
<1>1. At(z, X)' = At(z, X) \ {t} /\ t \in At(z, X) /\ arg[t][2] = i
  BY Moves DEF At, Span
<1>2. \A u \in At(z, X) : u # t => arg'[u] = arg[u]
  BY DEF At, OnlyBy
<1>3. ASSUME NEW u \in At(z, X), u # t PROVE arg[u][2] # i
  <2>1. pc[u] \in Flying /\ pc[t] \in Flying /\ Span(arg[u]) = z /\ u \in Threads
    BY <1>3 DEF At
  <2>2. arg[u] # arg[t]
    BY <1>3, <2>1 DEF OneHolder
  <2>3. arg[u] \in Blocks
    BY <2>1, TypesOf, NoneIsNoSpan DEF NoBlock, Span, None
  <2> QED BY <2>1, <2>2, <2>3, BlockPair
<1> QED BY <1>1, <1>2, <1>3 DEF Held

(* Who is outside of some places, and stays so, leaves them as they are.   *)
LEMMA StaysOut ==
  ASSUME NEW t \in Threads, OnlyBy(t), NEW X, pc[t] \notin X, pc'[t] \notin X
  PROVE  \A s : At(s, X)' = At(s, X) /\ Held(s, X)' = Held(s, X)
<1> SUFFICES ASSUME NEW s PROVE At(s, X)' = At(s, X) /\ Held(s, X)' = Held(s, X)
  OBVIOUS
<1>1. At(s, X)' = At(s, X)
  BY Moves DEF At
<1>2. \A u \in At(s, X) : arg'[u] = arg[u]
  BY DEF At, OnlyBy
<1> QED BY <1>1, <1>2 DEF Held

(* A block that is freed by another thread is taken from the program.      *)
LEMMA FreeDeferredKeeps ==
  ASSUME HeapInv, NEW t \in Threads, NEW b \in used, FreeDeferred(t, b)
  PROVE  HeapInv'
<1>0. Types /\ OneHolder
  BY DEF HeapInv
<1>1. PICK z \in Spans, i \in Indices : b = <<z, i>> /\ z = Span(b) /\ b \in Blocks
  BY <1>0, BlockPair, TypesOf
<1>2. z \in Mapped /\ SpanOk(z) /\ i \in InUse(z)
  BY <1>1 DEF HeapInv, InUse
<1>3. /\ ~ Away(z) /\ Partition(z) /\ CountsOk(z) /\ PlaceOk(z) /\ LockOk(z) /\ AwayOk(z)
      /\ At(z, Pushing) = {}
  BY <1>2 DEF SpanOk, AwayOk, Away
<1>4. /\ phase[t] = "live" /\ pc[t] = "idle" /\ ~ locked[z] /\ locked' = [locked EXCEPT ![z] = TRUE]
      /\ used' = used \ {b} /\ OnlyBy(t) /\ pc'[t] = "count" /\ arg'[t] = b
      /\ phase' = phase /\ UNCHANGED <<localVars, ownerVars, deferred, list_size, spanList>>
  BY <1>0, <1>1, OnlyByOne DEF FreeDeferred, Idle, LockDeferred, GoTo
<1>5. /\ At(z, Flying)' = At(z, Flying) \cup {t} /\ Held(z, Flying)' = Held(z, Flying) \cup {i}
      /\ \A s : At(s, Filling)' = At(s, Filling) /\ At(s, Pushing)' = At(s, Pushing)
      /\ \A s : At(s, Storing)' = At(s, Storing) /\ Held(s, Storing)' = Held(s, Storing)
      /\ \A s : At(s, {"storeLast"})' = At(s, {"storeLast"})
      /\ At(z, Holding)' = At(z, Holding) \cup {t}
  <2>1. /\ pc[t] \notin Flying \cup Holding /\ pc'[t] \in Flying /\ pc'[t] \in Holding
        /\ pc[t] \notin Storing \cup Pushing \cup Filling \cup {"storeLast"}
        /\ pc'[t] \notin Storing \cup Pushing \cup Filling \cup {"storeLast"}
    BY <1>4 DEF Flying, Filling, Storing, Pushing, Holding
  <2>2. Span(arg'[t]) = z /\ arg'[t][2] = i
    BY <1>1, <1>4
  <2>3. /\ At(z, Flying)' = At(z, Flying) \cup {t} /\ Held(z, Flying)' = Held(z, Flying) \cup {i}
        /\ At(z, Holding)' = At(z, Holding) \cup {t}
    BY <1>4, <2>1, <2>2, Comes
  <2>4. /\ \A s : At(s, Filling)' = At(s, Filling) /\ At(s, Pushing)' = At(s, Pushing)
        /\ \A s : At(s, Storing)' = At(s, Storing) /\ Held(s, Storing)' = Held(s, Storing)
        /\ \A s : At(s, {"storeLast"})' = At(s, {"storeLast"})
    BY <1>4, <2>1, StaysOut
  <2> QED BY <2>3, <2>4
<1>6. At(z, Holding)' = {t}
  BY <1>3, <1>4, <1>5 DEF LockOk
<1>7. locked'[z] = TRUE /\ locked' \in [Spans -> BOOLEAN] /\ \A s \in Spans \ {z} : locked'[s] = locked[s]
  BY <1>0, <1>1, <1>4 DEF Types
<1>8. UNCHANGED <<mapped, heap, class_free, partial, cache, full_span_count, span_free_deferred, link>>
  BY <1>4 DEF localVars, spanList
<1>9. /\ \A h \in Threads : HeapOk(h)' /\ Mapped' = Mapped
      /\ \A h : Listed(h)' = Listed(h) /\ Waiting(h)' = Waiting(h)
  BY <1>8, HeapsSame
<1>10. Away(z)' <=> Away(z)
  BY <1>5, <1>8, <1>9 DEF Away
<1>11. Touched(t, z)
  BY <1>1, <1>4, <1>7, <1>8, <1>9 DEF Touched, localVars, ownerVars, sharedVars
<1>12. Types'
  <2>1. pc' = [pc EXCEPT ![t] = "count"] /\ arg' = [arg EXCEPT ![t] = b]
    BY <1>1 DEF FreeDeferred, GoTo
  <2>2. pc' \in [Threads -> {"idle", "sync"} \cup Flying \cup Pushing] /\ arg' \in [Threads -> Blocks \cup {NoBlock}]
    BY <1>0, <1>1, <2>1 DEF Types, Flying
  <2> QED BY <1>0, <1>4, <1>7, <2>2 DEF Types, localVars, ownerVars, spanList
<1>13. SpanOk(z)'
  <2>1. LockOk(z)'
    BY <1>6, <1>7 DEF LockOk
  <2>2. InUse(z)' = InUse(z) \ {i} /\ InClass(z)' = InClass(z) /\ Unlinked(z)' = Unlinked(z)
    <3>1. \A j \in Indices : <<z, j>> \in used' <=> <<z, j>> \in used /\ j # i
      <4>1. \A j : <<z, j>> = b <=> j = i
        BY <1>1
      <4> QED BY <1>4, <4>1
    <3>2. InUse(z)' = InUse(z) \ {i}
      BY <3>1 DEF InUse
    <3> QED BY <1>4, <3>2 DEF InClass, Unlinked, localVars
  <2>3. AwayOk(z)'
    BY <1>3, <1>5, <1>8, <1>9, <1>10 DEF AwayOk
  <2>4. Partition(z)'
    <3>1. free_list'[z] = free_list[z] /\ deferred'[z] = deferred[z]
      BY <1>4 DEF ownerVars
    <3> QED BY <1>2, <1>3, <1>5, <2>2, <3>1 DEF Partition, Apart
  <2>5. CountsOk(z)' /\ PlaceOk(z)'
    BY <1>3, <1>4, <1>5, <1>8, <1>9 DEF CountsOk, Stored, PlaceOk, IsFull, localVars, ownerVars
  <2> QED BY <1>2, <1>8, <2>1, <2>3, <2>4, <2>5 DEF SpanOk
<1>14. \A u \in Threads \ {t} :
         /\ partial'[u] = partial[u]
         /\ pc[u] # "idle" /\ Span(arg[u]) = z => FillOk(u)' /\ SyncOk(u)'
  BY <1>4, <1>8, <1>10, OthersSame DEF ownerVars
<1>15. CallOk(t)' /\ FillOk(t)' /\ SyncOk(t)'
  BY <1>1, <1>2, <1>4, <1>9 DEF CallOk, FillOk, SyncOk, Filling
<1>16. OneHolder'
  <2>1. i \notin Held(z, Flying)
    BY <1>2, <1>3 DEF Partition, Apart
  <2>2. ASSUME NEW u \in Threads \ {t}, pc[u] \in Flying PROVE arg[u] # arg'[t]
    BY <1>1, <1>4, <2>1, <2>2 DEF Held, At
  <2> QED BY <1>0, <1>4, <2>2, HolderMoves
<1> QED BY <1>1, <1>2, <1>9, <1>11, <1>12, <1>13, <1>14, <1>15, <1>16, StepKeeps

(* Sets of a span's blocks are finite.                                     *)
LEMMA IndicesFinite ==
  /\ IsFiniteSet(Indices) /\ Cardinality(Indices) = block_count
  /\ \A X \in SUBSET Indices : IsFiniteSet(X) /\ Cardinality(X) \in 0 .. block_count
                               /\ (Cardinality(X) = block_count => X = Indices)
<1>1. block_count \in Nat
  BY RpMallocAssumption
<1>2. IsFiniteSet(Indices) /\ Cardinality(Indices) = block_count
  BY <1>1, FS_Interval DEF Indices
<1>3. ASSUME NEW X \in SUBSET Indices
      PROVE  IsFiniteSet(X) /\ Cardinality(X) \in 0 .. block_count
             /\ (Cardinality(X) = block_count => X = Indices)
  <2>1. IsFiniteSet(X) /\ Cardinality(X) <= block_count /\ (Cardinality(X) = block_count => X = Indices)
    BY <1>2, FS_Subset
  <2>2. Cardinality(X) \in Nat
    BY <2>1, FS_CardinalityType
  <2> QED BY <1>1, <2>1, <2>2
<1> QED BY <1>2, <1>3

(* One that is going to be in a set of blocks makes it one larger.         *)
LEMMA OneMore ==
  ASSUME NEW X \in SUBSET Indices, NEW i \in Indices, i \notin X
  PROVE  Cardinality(X \cup {i}) = Cardinality(X) + 1
BY IndicesFinite, FS_AddElement

(* When all that are out of a span were counted, none is anywhere else.    *)
LEMMA NoneOut ==
  ASSUME Types, NEW z \in Spans, Partition(z), CountsOk(z), used_count[z] = list_size[z]
  PROVE  InUse(z) = {} /\ InClass(z) = {} /\ Held(z, Flying) \subseteq Stored(z)
<1>1. free_list[z] \in SUBSET Indices /\ deferred[z] \in SUBSET Indices
      /\ free_list_limit[z] \in 0 .. block_count
  BY TypesOf
<1>2. PICK l \in 0 .. block_count : l = free_list_limit[z]
  BY <1>1
<1> DEFINE Out == (1 .. l) \ free_list[z]
<1>3. Unlinked(z) = l + 1 .. block_count /\ Unlinked(z) = Indices \ (1 .. l) /\ 1 .. l \subseteq Indices
  BY <1>2, RpMallocAssumption DEF Unlinked, Indices
<1>4. Held(z, Storing) \subseteq Held(z, Flying)
  BY DEF Held, At, Flying
<1>5. /\ Out \subseteq Indices
      /\ InUse(z) \cup InClass(z) \cup Held(z, Flying) \cup deferred[z] \subseteq Out
  BY <1>1, <1>3 DEF Partition, Apart
<1>6. Stored(z) \subseteq Out
  BY <1>4, <1>5 DEF Stored
<1>7. Cardinality(Stored(z)) = Cardinality(Out)
  BY <1>2 DEF CountsOk
<1>8. IsFiniteSet(Out)
  BY <1>5, IndicesFinite
<1>9. Stored(z) = Out
  BY <1>6, <1>7, <1>8, FS_Subset
<1>10. InUse(z) \cap Stored(z) = {} /\ InClass(z) \cap Stored(z) = {}
  BY <1>4 DEF Partition, Apart, Stored
<1> QED BY <1>5, <1>9, <1>10

(* A block that was taken is counted.                                      *)
LEMMA CountKeeps ==
  ASSUME HeapInv, NEW t \in Threads, Count(t)
  PROVE  HeapInv'
<1>0. Types /\ OneHolder
  BY DEF HeapInv
<1>1. PICK z \in Mapped, i \in Indices :
        z \in Spans /\ arg[t] = <<z, i>> /\ Span(arg[t]) = z /\ arg[t][2] = i
        /\ SpanOk(z) /\ phase[t] = "live"
  BY CallAt DEF Count
<1>2. PICK place \in Storing :
      /\ pc[t] = "count" /\ list_size' = [list_size EXCEPT ![z] = @ + 1]
      /\ place = IF list_size'[z] = block_count THEN "storeLast" ELSE "store"
      /\ pc' = [pc EXCEPT ![t] = place] /\ arg' = [arg EXCEPT ![t] = arg[t]]
      /\ phase' = phase /\ UNCHANGED <<used, localVars, ownerVars, deferred, locked, spanList>>
  BY <1>1 DEF Count, GoTo, Storing
<1>3. OnlyBy(t) /\ pc'[t] = place /\ arg'[t] = arg[t] /\ arg' = arg
  BY <1>0, <1>2, OnlyByOne DEF Types
<1>4. /\ ~ Away(z) /\ Partition(z) /\ CountsOk(z) /\ PlaceOk(z) /\ LockOk(z) /\ AwayOk(z)
      /\ t \in At(z, Flying) /\ i \in Held(z, Flying) /\ At(z, Pushing) = {}
  BY <1>1, <1>2, HeldSpan DEF Flying
<1>5. /\ \A s : At(s, Flying)' = At(s, Flying) /\ Held(s, Flying)' = Held(s, Flying)
      /\ \A s : At(s, Filling)' = At(s, Filling) /\ At(s, Holding)' = At(s, Holding)
      /\ At(z, Storing)' = At(z, Storing) \cup {t} /\ Held(z, Storing)' = Held(z, Storing) \cup {i}
      /\ \A s : At(s, Pushing)' = At(s, Pushing)
  <2>1. /\ pc[t] \in Flying /\ pc'[t] \in Flying /\ pc[t] \notin Filling /\ pc'[t] \notin Filling
        /\ pc[t] \in Holding /\ pc'[t] \in Holding
        /\ pc[t] \notin Storing /\ pc'[t] \in Storing /\ pc[t] \notin Pushing /\ pc'[t] \notin Pushing
    BY <1>2, <1>3 DEF Flying, Filling, Storing, Pushing, Holding
  <2>2. At(z, Storing)' = At(z, Storing) \cup {t} /\ Held(z, Storing)' = Held(z, Storing) \cup {i}
    BY <1>1, <1>3, <2>1, Comes
  <2> QED BY <1>3, <2>1, <2>2, GoesOn
<1>6. At(z, Holding) = {t} /\ At(z, Storing) = {}
  <2>1. t \in At(z, Holding) /\ At(z, Holding) \subseteq {t}
    BY <1>1, <1>2, <1>4 DEF LockOk, At, Holding
  <2>2. At(z, Storing) \subseteq At(z, Holding) /\ t \notin At(z, Storing)
    BY <1>2 DEF At, Holding, Storing
  <2> QED BY <2>1, <2>2
<1>7. list_size'[z] = list_size[z] + 1 /\ list_size' \in [Spans -> Int]
      /\ \A s \in Spans \ {z} : list_size'[s] = list_size[s]
  BY <1>0, <1>1, <1>2 DEF Types
<1>8. UNCHANGED <<mapped, heap, class_free, partial, cache, full_span_count, span_free_deferred, link>>
      /\ UNCHANGED <<used, free_list, free_list_limit, used_count, deferred, locked, phase>>
  BY <1>2 DEF localVars, spanList, ownerVars
<1>9. /\ \A h \in Threads : HeapOk(h)' /\ Mapped' = Mapped
      /\ \A h : Listed(h)' = Listed(h) /\ Waiting(h)' = Waiting(h)
  BY <1>8, HeapsSame
<1>10. Away(z)' <=> Away(z)
  BY <1>5, <1>8, <1>9 DEF Away
<1>11. Touched(t, z)
  BY <1>1, <1>3, <1>7, <1>8, <1>9 DEF Touched
<1>12. Types'
  <2>1. pc' \in [Threads -> {"idle", "sync"} \cup Flying \cup Pushing]
    BY <1>0, <1>2 DEF Types, Flying
  <2> QED BY <1>0, <1>3, <1>7, <1>8, <2>1 DEF Types
<1>13. Held(z, Storing) = {} /\ Stored(z) = deferred[z] /\ Stored(z)' = Stored(z) \cup {i} /\ i \notin Stored(z)
       /\ Stored(z) \in SUBSET Indices
  <2>1. Held(z, Storing) = {}
    BY <1>6 DEF Held
  <2>2. deferred[z] \in SUBSET Indices /\ i \notin deferred[z]
    BY <1>0, <1>1, <1>4, TypesOf DEF Partition, Apart
  <2> QED BY <1>5, <1>8, <2>1, <2>2 DEF Stored
<1>14. SpanOk(z)'
  <2>1. LockOk(z)'
    BY <1>4, <1>5, <1>8 DEF LockOk
  <2>2. InUse(z)' = InUse(z) /\ InClass(z)' = InClass(z) /\ Unlinked(z)' = Unlinked(z)
    BY <1>8 DEF InUse, InClass, Unlinked
  <2>3. AwayOk(z)'
    BY <1>4, <1>5, <1>8, <1>9, <1>10, <2>2 DEF AwayOk
  <2>4. Partition(z)' /\ PlaceOk(z)'
    BY <1>4, <1>5, <1>8, <1>9, <2>2 DEF Partition, PlaceOk, IsFull
  <2>5. CountsOk(z)'
    <3>1. list_size'[z] = Cardinality(Stored(z)')
      BY <1>1, <1>4, <1>7, <1>13, OneMore DEF CountsOk
    <3>2. At(z, {"storeLast"})' # {} <=> place = "storeLast"
      <4>1. At(z, Storing)' = {t}
        BY <1>5, <1>6
      <4>2. At(z, {"storeLast"})' \subseteq At(z, Storing)'
        BY DEF At, Storing
      <4>3. t \in At(z, {"storeLast"})' <=> place = "storeLast"
        BY <1>1, <1>3 DEF At
      <4> QED BY <4>1, <4>2, <4>3
    <3>3. list_size'[z] = block_count <=> place = "storeLast"
      BY <1>2
    <3>4. used_count'[z] = Cardinality((1 .. free_list_limit'[z]) \ free_list'[z])
      BY <1>4, <1>8 DEF CountsOk
    <3> QED BY <3>1, <3>2, <3>3, <3>4 DEF CountsOk
  <2> QED BY <1>1, <1>8, <2>1, <2>3, <2>4, <2>5 DEF SpanOk
<1>15. ASSUME NEW u \in Threads \ {t}
       PROVE  /\ partial'[u] = partial[u]
              /\ pc[u] # "idle" /\ Span(arg[u]) = z => FillOk(u)' /\ SyncOk(u)'
  <2> SUFFICES ASSUME Span(arg[u]) = z PROVE FillOk(u)' /\ SyncOk(u)'
    BY <1>8
  <2>1. FillOk(u) /\ SyncOk(u) /\ pc'[u] = pc[u] /\ arg'[u] = arg[u]
    BY <1>3 DEF HeapInv, OnlyBy
  <2>2. pc[u] # "sync"
    <3> SUFFICES ASSUME pc[u] = "sync" PROVE FALSE
      OBVIOUS
    <3>1. used_count[z] = list_size[z]
      BY <2>1 DEF SyncOk
    <3>2. Held(z, Flying) \subseteq Stored(z)
      BY <1>0, <1>1, <1>4, <3>1, NoneOut
    <3> QED BY <1>4, <1>13, <3>2
  <2> QED BY <1>8, <2>1, <2>2 DEF FillOk, SyncOk
<1>16. CallOk(t)' /\ FillOk(t)' /\ SyncOk(t)'
  BY <1>1, <1>2, <1>3, <1>8, <1>9 DEF CallOk, FillOk, SyncOk, Filling, Storing
<1>17. OneHolder'
  BY <1>0, <1>2, <1>3, HolderMoves DEF OneHolder, Flying
<1> QED BY <1>1, <1>9, <1>11, <1>12, <1>14, <1>15, <1>16, <1>17, StepKeeps

(* When the last block of a span is counted, all are in the list or on the *)
(* way there.                                                              *)
LEMMA AllBack ==
  ASSUME Types, OneHolder, NEW z \in Spans, Partition(z), CountsOk(z), PlaceOk(z), LockOk(z),
         NEW t \in Threads, pc[t] = "storeLast", Span(arg[t]) = z
  PROVE  InUse(z) = {} /\ InClass(z) = {} /\ z \notin Listed(heap[z]) /\ At(z, Flying) = {t}
<1>1. list_size[z] = block_count
  BY DEF CountsOk, At
<1>2. deferred[z] \in SUBSET Indices /\ free_list[z] \in SUBSET Indices /\ free_list_limit[z] \in 0 .. block_count
  BY TypesOf
<1>3. Held(z, Flying) \subseteq Indices /\ Held(z, Storing) \subseteq Held(z, Flying)
  BY DEF Partition, Held, At, Flying
<1>4. Stored(z) = Indices
  BY <1>1, <1>2, <1>3, IndicesFinite DEF Stored, CountsOk
<1>5. InUse(z) = {} /\ InClass(z) = {} /\ free_list[z] = {} /\ Unlinked(z) = {}
  <2>1. Stored(z) \subseteq deferred[z] \cup Held(z, Flying)
    BY <1>3 DEF Stored
  <2>2. InUse(z) \subseteq Indices /\ InClass(z) \subseteq Indices /\ Unlinked(z) \subseteq Indices
    BY DEF InUse, InClass, Partition
  <2> QED BY <1>2, <1>4, <2>1, <2>2 DEF Partition, Apart
<1>6. free_list_limit[z] >= block_count
  BY <1>2, <1>5, RpMallocAssumption DEF Unlinked
<1>7. ASSUME NEW u \in At(z, Flying) PROVE u \in At(z, Storing)
  <2>1. arg[u][2] \in Held(z, Flying)
    BY <1>7 DEF Held
  <2>2. arg[u][2] \in Held(z, Storing)
    BY <1>3, <1>4, <2>1 DEF Stored, Partition, Apart
  <2>3. PICK w \in At(z, Storing) : arg[w][2] = arg[u][2]
    BY <2>2 DEF Held
  <2>4. /\ u \in Threads /\ w \in Threads /\ pc[u] \in Flying /\ pc[w] \in Flying
        /\ Span(arg[u]) = z /\ Span(arg[w]) = z
    BY <1>7 DEF At, Flying
  <2>5. arg[u] \in Blocks /\ arg[w] \in Blocks
    BY <2>4, TypesOf, NoneIsNoSpan DEF NoBlock, Span, None
  <2>6. arg[u] = arg[w]
    BY <2>3, <2>4, <2>5, BlockPair
  <2> QED BY <2>3, <2>4, <2>6 DEF OneHolder
<1>8. At(z, Flying) = {t}
  <2>1. At(z, Storing) \subseteq At(z, Holding) /\ t \in At(z, Storing) /\ At(z, Storing) \subseteq At(z, Flying)
    BY DEF At, Holding, Storing, Flying
  <2> QED BY <1>7, <2>1 DEF LockOk
<1>9. At(z, Filling) = {}
  <2>1. At(z, Filling) \subseteq At(z, Flying) /\ t \notin At(z, Filling)
    BY DEF At, Flying, Filling
  <2> QED BY <1>8, <2>1
<1> QED BY <1>5, <1>6, <1>8, <1>9 DEF PlaceOk, IsFull

(* A block that was counted is put into the list.                          *)
LEMMA StoreKeeps ==
  ASSUME HeapInv, NEW t \in Threads, Store(t)
  PROVE  HeapInv'
<1>0. Types /\ OneHolder
  BY DEF HeapInv
<1>1. PICK z \in Mapped, i \in Indices :
        z \in Spans /\ arg[t] = <<z, i>> /\ Span(arg[t]) = z /\ arg[t][2] = i
        /\ SpanOk(z) /\ phase[t] = "live"
  BY CallAt DEF Store
<1>2. PICK place, b :
      /\ pc[t] \in Storing
      /\ IF pc[t] = "storeLast" THEN place = "push" /\ b = arg[t] ELSE place = "idle" /\ b = NoBlock
      /\ pc' = [pc EXCEPT ![t] = place] /\ arg' = [arg EXCEPT ![t] = b] /\ phase' = phase
      /\ deferred' = [deferred EXCEPT ![z] = @ \cup {i}] /\ locked' = [locked EXCEPT ![z] = FALSE]
      /\ UNCHANGED <<used, localVars, ownerVars, list_size, spanList>>
  <2>1. pc[t] \in Storing /\ UNCHANGED <<used, localVars, ownerVars, list_size, spanList>>
        /\ deferred' = [deferred EXCEPT ![z] = @ \cup {i}] /\ locked' = [locked EXCEPT ![z] = FALSE]
    BY <1>1 DEF Store, Storing
  <2>2. CASE pc[t] = "storeLast"
    BY <2>1, <2>2 DEF Store, GoTo
  <2>3. CASE pc[t] # "storeLast"
    BY <2>1, <2>3 DEF Store, GoTo, Return
  <2> QED BY <2>2, <2>3
<1>3. OnlyBy(t) /\ pc'[t] = place /\ arg'[t] = b
  BY <1>0, <1>2, OnlyByOne
<1>4. /\ ~ Away(z) /\ Partition(z) /\ CountsOk(z) /\ PlaceOk(z) /\ LockOk(z) /\ AwayOk(z)
      /\ t \in At(z, Flying) /\ i \in Held(z, Flying) /\ At(z, Pushing) = {}
  BY <1>1, <1>2, HeldSpan DEF Flying
<1>5. place \in {"push", "idle"}
  BY <1>2
<1>6. /\ At(z, Flying)' = At(z, Flying) \ {t} /\ Held(z, Flying)' = Held(z, Flying) \ {i}
      /\ Held(z, Storing)' = Held(z, Storing) \ {i} /\ i \in Held(z, Storing)
      /\ \A s : At(s, Filling)' = At(s, Filling)
      /\ At(z, Holding) = {t} /\ At(z, Holding)' = {} /\ At(z, {"storeLast"})' = {}
  <2>1. /\ pc[t] \in Flying /\ pc'[t] \notin Flying /\ pc'[t] \notin Storing
        /\ pc[t] \in Holding /\ pc'[t] \notin Holding
        /\ pc[t] \notin Filling /\ pc'[t] \notin Filling
        /\ Storing \subseteq Flying /\ Holding \subseteq Flying
    BY <1>2, <1>3, <1>5 DEF Flying, Filling, Storing, Holding
  <2>2. /\ At(z, Flying)' = At(z, Flying) \ {t} /\ Held(z, Flying)' = Held(z, Flying) \ {i}
        /\ Held(z, Storing)' = Held(z, Storing) \ {i} /\ At(z, Holding)' = At(z, Holding) \ {t}
    <3>1. pc[t] \in Storing
      BY <1>2
    <3>2. ASSUME NEW X, X \subseteq Flying, pc[t] \in X, pc'[t] \notin X
          PROVE  At(z, X)' = At(z, X) \ {t} /\ Held(z, X)' = Held(z, X) \ {i}
      BY <1>0, <1>1, <1>3, <3>2, Leaves
    <3> QED BY <2>1, <3>1, <3>2
  <2>3. t \in At(z, Holding) /\ At(z, Holding) \subseteq {t} /\ i \in Held(z, Storing)
    BY <1>1, <1>2, <1>4, <2>1 DEF LockOk, At, Held
  <2>4. At(z, {"storeLast"})' \subseteq At(z, Holding)'
    BY DEF At, Holding, Storing
  <2>5. \A s : At(s, Filling)' = At(s, Filling)
    BY <1>3, <2>1, StaysOut
  <2> QED BY <2>2, <2>3, <2>4, <2>5
<1>7. /\ deferred'[z] = deferred[z] \cup {i} /\ deferred' \in [Spans -> SUBSET Indices]
      /\ locked'[z] = FALSE /\ locked' \in [Spans -> BOOLEAN]
      /\ \A s \in Spans \ {z} : deferred'[s] = deferred[s] /\ locked'[s] = locked[s]
  BY <1>0, <1>1, <1>2 DEF Types
<1>8. UNCHANGED <<mapped, heap, class_free, partial, cache, full_span_count, span_free_deferred, link>>
      /\ UNCHANGED <<used, free_list, free_list_limit, used_count, list_size, phase>>
  BY <1>2 DEF localVars, spanList, ownerVars
<1>9. /\ \A h \in Threads : HeapOk(h)' /\ Mapped' = Mapped
      /\ \A h : Listed(h)' = Listed(h) /\ Waiting(h)' = Waiting(h)
  BY <1>8, HeapsSame
<1>10. Touched(t, z)
  BY <1>1, <1>2, <1>3, <1>7, <1>8, <1>9 DEF Touched
<1>11. Types'
  <2>1. pc' \in [Threads -> {"idle", "sync"} \cup Flying \cup Pushing] /\ arg' \in [Threads -> Blocks \cup {NoBlock}]
    <3>1. place \in {"idle", "sync"} \cup Flying \cup Pushing
      BY <1>5 DEF Pushing
    <3>2. b \in Blocks \cup {NoBlock}
      BY <1>0, <1>2, TypesOf
    <3> QED BY <1>0, <1>2, <3>1, <3>2 DEF Types
  <2> QED BY <1>0, <1>7, <1>8, <2>1 DEF Types
<1>12. InUse(z)' = InUse(z) /\ InClass(z)' = InClass(z) /\ Unlinked(z)' = Unlinked(z)
  BY <1>8 DEF InUse, InClass, Unlinked
<1>13. LockOk(z)'
  BY <1>6, <1>7 DEF LockOk
<1>14. CallOk(t)' /\ FillOk(t)' /\ SyncOk(t)'
  BY <1>1, <1>2, <1>3, <1>5, <1>8, <1>9 DEF CallOk, FillOk, SyncOk, Filling
<1>15. OneHolder'
  BY <1>0, <1>3, <1>5, HolderMoves DEF Flying, Filling, Storing
<1>16. CASE pc[t] = "store"
  <2>1. place = "idle"
    BY <1>2, <1>16
  <2>2. At(z, Pushing)' = At(z, Pushing)
    BY <1>3, <1>16, <2>1, StaysOut DEF Pushing
  <2>3. Away(z)' <=> Away(z)
    BY <1>8, <1>9, <2>2 DEF Away
  <2>4. AwayOk(z)'
    BY <1>4, <2>2, <2>3, <1>8, <1>9 DEF AwayOk
  <2>5. Partition(z)'
    BY <1>1, <1>4, <1>6, <1>7, <1>8, <1>12 DEF Partition, Apart
  <2>6. CountsOk(z)'
    <3>1. Stored(z)' = Stored(z)
      BY <1>6, <1>7 DEF Stored
    <3>2. At(z, {"storeLast"}) = {}
      <4>1. At(z, {"storeLast"}) \subseteq At(z, Holding) /\ t \notin At(z, {"storeLast"})
        BY <1>16 DEF At, Holding, Storing
      <4> QED BY <1>6, <4>1
    <3> QED BY <1>4, <1>6, <1>8, <3>1, <3>2 DEF CountsOk
  <2>7. PlaceOk(z)'
    BY <1>4, <1>6, <1>8, <1>9 DEF PlaceOk, IsFull
  <2>8. SpanOk(z)'
    BY <1>1, <1>8, <1>13, <2>4, <2>5, <2>6, <2>7 DEF SpanOk
  <2>9. \A u \in Threads \ {t} :
          /\ partial'[u] = partial[u]
          /\ pc[u] # "idle" /\ Span(arg[u]) = z => FillOk(u)' /\ SyncOk(u)'
    BY <1>3, <1>8, <2>3, OthersSame
  <2> QED BY <1>1, <1>9, <1>10, <1>11, <1>14, <1>15, <2>8, <2>9, StepKeeps
<1>17. CASE pc[t] = "storeLast"
  <2>1. place = "push" /\ b = arg[t]
    BY <1>2, <1>17
  <2>2. InUse(z) = {} /\ InClass(z) = {} /\ z \notin Listed(heap[z]) /\ At(z, Flying) = {t}
    BY <1>0, <1>1, <1>4, <1>17, AllBack
  <2>3. At(z, Pushing)' = {t}
    <3>1. pc[t] \notin Pushing /\ pc'[t] \in Pushing /\ Span(arg'[t]) = z
      BY <1>1, <1>3, <1>17, <2>1 DEF Pushing
    <3> QED BY <1>3, <1>4, <3>1, Comes
  <2>4. Away(z)' /\ z \notin Waiting(heap[z])'
    BY <1>4, <1>8, <1>9, <2>3 DEF Away
  <2>5. AwayOk(z)'
    BY <1>6, <1>8, <1>9, <1>12, <2>2, <2>3, <2>4 DEF AwayOk
  <2>6. SpanOk(z)'
    BY <1>1, <1>8, <1>13, <2>4, <2>5 DEF SpanOk
  <2>7. ASSUME NEW u \in Threads \ {t}
        PROVE  /\ partial'[u] = partial[u]
               /\ pc[u] # "idle" /\ Span(arg[u]) = z => FillOk(u)' /\ SyncOk(u)'
    <3> SUFFICES ASSUME Span(arg[u]) = z PROVE FillOk(u)' /\ SyncOk(u)'
      BY <1>8
    <3>1. SyncOk(u) /\ pc'[u] = pc[u]
      BY <1>3 DEF HeapInv, OnlyBy
    <3>2. pc[u] # "sync"
      BY <2>2, <3>1 DEF SyncOk
    <3>3. pc[u] \notin Filling
      BY <2>2 DEF At, Flying
    <3> QED BY <3>1, <3>2, <3>3 DEF FillOk, SyncOk
  <2> QED BY <1>1, <1>9, <1>10, <1>11, <1>14, <1>15, <2>6, <2>7, StepKeeps
<1> QED BY <1>2, <1>16, <1>17 DEF Storing

(* A span that is being sent back is nowhere else.                         *)
LEMMA SentSpan ==
  ASSUME HeapInv, NEW z \in Spans, SpanOk(z), NEW t \in Threads, pc[t] \in Pushing, Span(arg[t]) = z
  PROVE  /\ Away(z) /\ At(z, Pushing) = {t} /\ InUse(z) = {} /\ InClass(z) = {} /\ At(z, Flying) = {}
         /\ z \notin Listed(heap[z]) /\ LockOk(z) /\ AwayOk(z)
         /\ \A h \in Threads : z \notin Waiting(h)
<1>1. t \in At(z, Pushing)
  BY DEF At
<1>2. At(z, Pushing) = {t} /\ z \notin Waiting(heap[z])
  BY <1>1 DEF SpanOk, AwayOk
<1>3. ASSUME NEW h \in Threads PROVE z \notin Waiting(h)
  <2>1. Waiting(h) \subseteq Own(h)
    BY DEF HeapInv, HeapOk
  <2> QED BY <1>2, <2>1 DEF Own
<1> QED BY <1>1, <1>2, <1>3 DEF SpanOk, AwayOk, Away

(* While it is being sent, only its link and the first of the heap's list  *)
(* change.                                                                 *)
LEMMA SendingKeeps ==
  ASSUME HeapInv, NEW t \in Threads, NEW z \in Mapped, z \in Spans, SpanOk(z), phase[t] = "live",
         pc[t] \in Pushing, Span(arg[t]) = z,
         NEW place \in Pushing \cup {"idle"}, NEW b \in Blocks \cup {NoBlock},
         pc' = [pc EXCEPT ![t] = place], arg' = [arg EXCEPT ![t] = b],
         place \in Pushing => b = arg[t],
         UNCHANGED <<phase, used, localVars, ownerVars, sharedVars>>,
         link' \in [Spans -> Spans \cup {None}],
         span_free_deferred' \in [Threads -> Spans \cup {None}],
         \A h \in Threads, s \in Spans \ {z} : (s \in Waiting(h))' <=> s \in Waiting(h),
         (z \in Waiting(heap[z]))' <=> place = "idle",
         \A h \in Threads : HeapOk(h)'
  PROVE  HeapInv'
<1>0. Types /\ OneHolder
  BY DEF HeapInv
<1>1. OnlyBy(t) /\ pc'[t] = place /\ arg'[t] = b
  BY <1>0, OnlyByOne
<1>2. /\ Away(z) /\ At(z, Pushing) = {t} /\ InUse(z) = {} /\ InClass(z) = {} /\ At(z, Flying) = {}
      /\ z \notin Listed(heap[z]) /\ LockOk(z) /\ AwayOk(z)
  BY SentSpan
<1>3. UNCHANGED <<mapped, heap, class_free, partial, cache, full_span_count>>
      /\ UNCHANGED <<used, free_list, free_list_limit, used_count, list_size, deferred, locked, phase>>
  BY DEF localVars, ownerVars, sharedVars
<1>4. /\ pc[t] \notin Flying \cup Holding \cup Filling /\ pc'[t] \notin Flying \cup Holding \cup Filling
      /\ pc[t] # "idle" /\ pc'[t] # "sync" /\ place # "sync"
  BY <1>1 DEF Flying, Filling, Storing, Pushing, Holding
<1>5. /\ \A s : At(s, Flying)' = At(s, Flying) /\ At(s, Holding)' = At(s, Holding)
  BY <1>1, <1>4, StaysOut
<1>6. At(z, Pushing)' = IF place = "idle" THEN {} ELSE {t}
  <2>1. CASE place = "idle"
    <3>1. pc'[t] \notin Pushing
      BY <1>1, <2>1 DEF Pushing
    <3> QED BY <1>1, <1>2, <2>1, <3>1, Moves
  <2>2. CASE place # "idle"
    <3>1. pc'[t] \in Pushing /\ Span(arg'[t]) = z
      BY <1>1, <2>2
    <3> QED BY <1>1, <1>2, <2>2, <3>1, Moves
  <2> QED BY <2>1, <2>2
<1>7. Away(z)'
  BY <1>6 DEF Away
<1>8. \A h : Listed(h)' = Listed(h) /\ Mapped' = Mapped
  BY <1>3 DEF Listed, Mapped
<1>9. InUse(z)' = InUse(z) /\ InClass(z)' = InClass(z)
  BY <1>3 DEF InUse, InClass
<1>10. SpanOk(z)'
  <2>1. LockOk(z)'
    BY <1>2, <1>3, <1>5 DEF LockOk
  <2>2. AwayOk(z)'
    BY <1>2, <1>3, <1>5, <1>6, <1>7, <1>8, <1>9 DEF AwayOk
  <2> QED BY <1>3, <1>7, <2>1, <2>2 DEF SpanOk
<1>11. Touched(t, z)
  BY <1>1, <1>3, <1>8 DEF Touched
<1>12. Types'
  <2>1. pc' \in [Threads -> {"idle", "sync"} \cup Flying \cup Pushing] /\ arg' \in [Threads -> Blocks \cup {NoBlock}]
    BY <1>0 DEF Types
  <2> QED BY <1>0, <1>3, <2>1 DEF Types
<1>13. ASSUME NEW u \in Threads \ {t}
       PROVE  /\ partial'[u] = partial[u]
              /\ pc[u] # "idle" /\ Span(arg[u]) = z => FillOk(u)' /\ SyncOk(u)'
  <2> SUFFICES ASSUME Span(arg[u]) = z PROVE FillOk(u)' /\ SyncOk(u)'
    BY <1>3
  <2>1. SyncOk(u) /\ pc'[u] = pc[u]
    BY <1>1 DEF HeapInv, OnlyBy
  <2>2. pc[u] # "sync"
    BY <1>2, <2>1 DEF SyncOk
  <2>3. pc[u] \notin Filling
    BY <1>2 DEF At, Flying
  <2> QED BY <2>1, <2>2, <2>3 DEF FillOk, SyncOk
<1>14. CallOk(t)' /\ FillOk(t)' /\ SyncOk(t)'
  BY <1>1, <1>3, <1>4, <1>8 DEF CallOk, FillOk, SyncOk
<1>15. OneHolder'
  BY <1>0, <1>1, <1>4, HolderMoves
<1> QED BY <1>8, <1>10, <1>11, <1>12, <1>13, <1>14, <1>15, StepKeeps

(* Reading the first span sent back, before linking to it.                 *)
LEMMA LoadFirstKeeps ==
  ASSUME HeapInv, NEW t \in Threads, LoadFirst(t)
  PROVE  HeapInv'
<1>0. Types
  BY DEF HeapInv
<1>1. PICK z \in Mapped, i \in Indices :
        z \in Spans /\ arg[t] = <<z, i>> /\ Span(arg[t]) = z /\ SpanOk(z) /\ phase[t] = "live"
  BY CallAt DEF LoadFirst
<1>2. PICK h \in Threads : h = heap[z]
  BY <1>1 DEF SpanOk
<1>3. /\ pc[t] = "push" /\ link' = [link EXCEPT ![z] = span_free_deferred[h]]
      /\ pc' = [pc EXCEPT ![t] = "cas"] /\ arg' = [arg EXCEPT ![t] = arg[t]] /\ phase' = phase
      /\ UNCHANGED <<used, localVars, ownerVars, sharedVars, span_free_deferred>>
  BY <1>1, <1>2 DEF LoadFirst, GoTo
<1>4. pc[t] \in Pushing /\ "cas" \in Pushing /\ "cas" # "idle"
  BY <1>3 DEF Pushing
<1>5. \A g \in Threads : z \notin Waiting(g)
  BY <1>1, <1>4, SentSpan
<1>6. span_free_deferred[h] \in Spans \cup {None}
  BY <1>0, TypesOf
<1>7. link' \in [Spans -> Spans \cup {None}] /\ \A s \in Spans \ {z} : link'[s] = link[s]
  BY <1>0, <1>1, <1>3, <1>6 DEF Types
<1>8. ASSUME NEW g \in Threads
      PROVE  HeapOk(g)' /\ Waiting(g)' = Waiting(g)
  <2>1. Queued(g) \in SUBSET Spans /\ z \notin Queued(g)
    BY <1>0, <1>5, QueuedFollows DEF Waiting
  <2>2. \A s \in Queued(g) : link'[s] = link[s]
    BY <1>7, <2>1
  <2>3. HeapOk(g) /\ Own(g)' = Own(g)
    BY <1>3 DEF HeapInv, Own, Mapped, localVars
  <2>4. HeapOk(g)'
    BY <1>0, <1>3, <2>2, <2>3, HeapSame DEF localVars
  <2>5. Queued(g)' = Queued(g)
    BY <1>0, <1>3, <2>2, QueuedSame
  <2> QED BY <1>3, <2>4, <2>5 DEF Waiting, localVars
<1>9. ~ (z \in Waiting(heap[z]))'
  <2>1. Waiting(heap[z])' = Waiting(h)'
    BY <1>2, <1>3 DEF localVars, Waiting, Queued, Follows
  <2> QED BY <1>5, <1>8, <2>1
<1>10. arg[t] \in Blocks \cup {NoBlock} /\ span_free_deferred' \in [Threads -> Spans \cup {None}]
  BY <1>0, <1>3, TypesOf DEF Types
<1>11. \A g \in Threads, s \in Spans \ {z} : (s \in Waiting(g))' <=> s \in Waiting(g)
  BY <1>8
<1>12. \A g \in Threads : HeapOk(g)'
  BY <1>8
<1>13. (z \in Waiting(heap[z]))' <=> "cas" = "idle"
  BY <1>4, <1>9
<1>14. UNCHANGED <<phase, used, localVars, ownerVars, sharedVars>>
  BY <1>3
<1> QED BY <1>1, <1>3, <1>4, <1>7, <1>10, <1>11, <1>12, <1>13, <1>14, SendingKeeps

(* Sending a span back: it is linked to the first one seen, if that is     *)
(* still the first one.                                                    *)
LEMMA PushSpanKeeps ==
  ASSUME HeapInv, NEW t \in Threads, PushSpan(t)
  PROVE  HeapInv'
<1>0. Types
  BY DEF HeapInv
<1>1. PICK z \in Mapped, i \in Indices :
        z \in Spans /\ arg[t] = <<z, i>> /\ Span(arg[t]) = z /\ SpanOk(z) /\ phase[t] = "live"
  BY CallAt DEF PushSpan
<1>2. PICK h \in Threads : h = heap[z]
  BY <1>1 DEF SpanOk
<1>3. /\ pc[t] = "cas" /\ phase' = phase /\ link' = link
      /\ UNCHANGED <<used, localVars, ownerVars, sharedVars>>
  BY DEF PushSpan, GoTo, Return
<1>4. pc[t] \in Pushing
  BY <1>3 DEF Pushing
<1>5. \A g \in Threads : z \notin Waiting(g)
  BY <1>1, <1>4, SentSpan
<1>6. link' \in [Spans -> Spans \cup {None}] /\ span_free_deferred \in [Threads -> Spans \cup {None}]
      /\ arg[t] \in Blocks \cup {NoBlock}
  BY <1>0, <1>3, TypesOf DEF Types
<1>7. \A g \in Threads : HeapOk(g) /\ Own(g)' = Own(g)
  BY <1>3 DEF HeapInv, Own, Mapped, localVars
<1>8. UNCHANGED <<phase, used, localVars, ownerVars, sharedVars>>
  BY <1>3
<1>9. Waiting(heap[z])' = Waiting(h)'
  BY <1>2, <1>3 DEF localVars, Waiting, Queued, Follows
<1>10. CASE span_free_deferred[h] # link[z]
  <2>1. /\ span_free_deferred' = span_free_deferred
        /\ pc' = [pc EXCEPT ![t] = "push"] /\ arg' = [arg EXCEPT ![t] = arg[t]]
    BY <1>1, <1>2, <1>10 DEF PushSpan, GoTo
  <2>2. UNCHANGED <<mapped, heap, class_free, partial, cache, full_span_count, span_free_deferred, link>>
    BY <1>3, <2>1 DEF localVars
  <2>3. (\A g \in Threads : HeapOk(g)') /\ \A g : Waiting(g)' = Waiting(g)
    BY <2>2, HeapsSame
  <2>4. "push" \in Pushing /\ "push" # "idle"
    BY DEF Pushing
  <2>5. (z \in Waiting(heap[z]))' <=> "push" = "idle"
    BY <1>5, <1>9, <2>3, <2>4
  <2>6. \A g \in Threads, s \in Spans \ {z} : (s \in Waiting(g))' <=> s \in Waiting(g)
    BY <2>3
  <2>7. span_free_deferred' \in [Threads -> Spans \cup {None}]
    BY <1>6, <2>1
  <2> QED BY <1>1, <1>4, <1>6, <1>8, <2>1, <2>3, <2>4, <2>5, <2>6, <2>7, SendingKeeps
<1>11. CASE span_free_deferred[h] = link[z]
  <2>1. /\ span_free_deferred' = [span_free_deferred EXCEPT ![h] = z]
        /\ pc' = [pc EXCEPT ![t] = "idle"] /\ arg' = [arg EXCEPT ![t] = NoBlock]
    BY <1>1, <1>2, <1>11 DEF PushSpan, Return, GoTo
  <2>2. /\ span_free_deferred' \in [Threads -> Spans \cup {None}] /\ span_free_deferred'[h] = z
        /\ \A g \in Threads \ {h} : span_free_deferred'[g] = span_free_deferred[g]
    BY <1>1, <1>6, <2>1
  <2>3. Queued(h)' = Queued(h) \cup {z} /\ (Ends(h) => Ends(h)')
    <3>1. z \notin Queued(h)
      BY <1>5 DEF Waiting
    <3> QED BY <1>0, <1>1, <1>3, <1>11, <2>2, <3>1, QueuedPush
  <2>4. UNCHANGED <<mapped, heap, class_free, partial, cache, full_span_count>>
    BY <1>3 DEF localVars
  <2>5. Waiting(h)' = Waiting(h) \cup {z}
    BY <2>3, <2>4 DEF Waiting
  <2>6. ASSUME NEW g \in Threads, g # h
        PROVE  HeapOk(g)' /\ Waiting(g)' = Waiting(g)
    <3>1. HeapOk(g)'
      BY <1>0, <1>3, <1>7, <2>2, <2>4, <2>6, HeapSame
    <3>2. Queued(g)' = Queued(g)
      BY <1>0, <1>3, <2>2, <2>6, QueuedSame
    <3> QED BY <2>4, <3>1, <3>2 DEF Waiting
  <2>7. HeapOk(h)'
    <3>1. HeapOk(h) /\ Listed(h)' = Listed(h) /\ z \in Own(h) /\ z \notin Waiting(h)
      BY <1>1, <1>2, <1>5, <1>7, <2>4 DEF Listed, Own
    <3>2. Full(h)' = Full(h)
      BY <1>7, <2>4, <3>1 DEF Full
    <3>3. Apart(cache[h], Queued(h))'
      BY <2>3, <2>4, <3>1 DEF Apart, HeapOk, Waiting
    <3>4. /\ (\A b \in class_free[h] : Span(b) \in Own(h))'
          /\ (Listed(h) \cup Waiting(h) \subseteq Own(h))'
      BY <1>7, <2>4, <2>5, <3>1 DEF HeapOk
    <3>5. NoneTwice(partial[h])' /\ (full_span_count[h] = Cardinality(Full(h)))'
      BY <2>4, <3>1, <3>2 DEF HeapOk
    <3>6. Ends(h)'
      BY <2>3, <3>1 DEF HeapOk
    <3> QED BY <3>3, <3>4, <3>5, <3>6 DEF HeapOk
  <2>8. (\A g \in Threads : HeapOk(g)')
        /\ \A g \in Threads, s \in Spans \ {z} : (s \in Waiting(g))' <=> s \in Waiting(g)
    BY <2>5, <2>6, <2>7
  <2>9. (z \in Waiting(heap[z]))' <=> "idle" = "idle"
    BY <1>9, <2>5
  <2>10. "idle" \notin Pushing
    BY DEF Pushing
  <2> QED BY <1>1, <1>4, <1>6, <1>8, <2>1, <2>2, <2>8, <2>9, <2>10, SendingKeeps
<1> QED BY <1>10, <1>11

-----------------------------------------------------------------------------
(* The first partial span of a heap is filled from by nobody else.         *)
LEMMA FirstPartial ==
  ASSUME HeapInv, NEW t \in Threads, partial[t] # <<>>, NEW z, z = Head(partial[t])
  PROVE  /\ z \in Mapped /\ z \in Spans /\ heap[z] = t /\ IsOwner(t, z) /\ z \in Listed(t)
         /\ SpanOk(z) /\ ~ Away(z) /\ Partition(z) /\ CountsOk(z) /\ PlaceOk(z) /\ LockOk(z) /\ AwayOk(z)
         /\ At(z, Filling) \subseteq {t} /\ At(z, Pushing) = {}
<1>1. Types /\ HeapOk(t) /\ Mapped \subseteq Spans
  BY TypesOf DEF HeapInv
<1>2. partial[t] \in Seq(Spans) /\ NoneTwice(partial[t])
  BY <1>1, TypesOf DEF HeapOk
<1>3. z \in Listed(t)
  BY <1>2, FirstTaken, ListedIs
<1>4. z \in Mapped /\ heap[z] = t
  BY <1>1, <1>3 DEF HeapOk, Own
<1>5. SpanOk(z) /\ z \in Spans
  BY <1>1, <1>4 DEF HeapInv
<1>6. ~ Away(z)
  BY <1>3, <1>4, <1>5 DEF SpanOk, AwayOk
<1>7. ASSUME NEW u \in At(z, Filling) PROVE u = t
  BY <1>4, <1>7 DEF At, HeapInv, FillOk
<1> QED BY <1>3, <1>4, <1>5, <1>6, <1>7 DEF SpanOk, IsOwner, Away

(* It gives a set of free blocks to the class and one to the call.         *)
LEMMA UsePartialKeeps ==
  ASSUME HeapInv, NEW t \in Threads, UsePartial(t)
  PROVE  HeapInv'
<1>0. Types /\ OneHolder /\ HeapOk(t)
  BY DEF HeapInv
<1>1. PICK z : z = Head(partial[t])
  OBVIOUS
<1>2. /\ phase[t] = "live" /\ pc[t] = "idle" /\ class_free[t] = {} /\ partial[t] # <<>>
      /\ used_count' = [used_count EXCEPT ![z] = free_list_limit'[z]]
      /\ UNCHANGED <<phase, used, mapped, heap, partial, cache, full_span_count>>
      /\ UNCHANGED <<sharedVars, spanList>>
  BY <1>1 DEF UsePartial, Asked, Idle, GoTo
<1>3. /\ z \in Mapped /\ z \in Spans /\ heap[z] = t /\ IsOwner(t, z) /\ z \in Listed(t)
      /\ SpanOk(z) /\ ~ Away(z) /\ Partition(z) /\ CountsOk(z) /\ PlaceOk(z) /\ LockOk(z) /\ AwayOk(z)
      /\ At(z, Filling) = {} /\ At(z, Pushing) = {}
  <2>1. t \notin At(z, Filling)
    BY <1>2 DEF At, Filling
  <2>2. /\ z \in Mapped /\ z \in Spans /\ heap[z] = t /\ IsOwner(t, z) /\ z \in Listed(t)
        /\ SpanOk(z) /\ ~ Away(z) /\ Partition(z) /\ CountsOk(z) /\ PlaceOk(z) /\ LockOk(z) /\ AwayOk(z)
        /\ At(z, Filling) \subseteq {t} /\ At(z, Pushing) = {}
    BY <1>1, <1>2, FirstPartial
  <2> QED BY <2>1, <2>2
<1>4. free_list[z] \in SUBSET Indices /\ free_list_limit[z] \in 0 .. block_count
  BY <1>0, <1>3, TypesOf
<1>5. PICK G \in SUBSET Indices, i \in Indices, l \in 0 .. block_count :
        /\ i \in G
        /\ class_free' = [class_free EXCEPT ![t] = {z} \X (G \ {i})]
        /\ free_list_limit' = [free_list_limit EXCEPT ![z] = l]
        /\ free_list' = [free_list EXCEPT ![z] = {}]
        /\ pc' = [pc EXCEPT ![t] = "look"] /\ arg' = [arg EXCEPT ![t] = <<z, i>>]
        /\ G \cup (l + 1 .. block_count) = free_list[z] \cup Unlinked(z)
        /\ Apart(G, l + 1 .. block_count)
  <2>1. CASE free_list[z] # {}
    <3>1. PICK i \in free_list[z] : i = AnyOf(free_list[z])
      BY <2>1, AnyOfList
    <3>2. /\ class_free' = [class_free EXCEPT ![t] = {z} \X (free_list[z] \ {i})]
          /\ free_list' = [free_list EXCEPT ![z] = {}] /\ free_list_limit' = free_list_limit
          /\ pc' = [pc EXCEPT ![t] = "look"] /\ arg' = [arg EXCEPT ![t] = <<z, i>>]
      BY <1>1, <2>1, <3>1 DEF UsePartial, GoTo
    <3>3. free_list_limit' = [free_list_limit EXCEPT ![z] = free_list_limit[z]]
      BY <1>0, <3>2 DEF Types
    <3>4. Apart(free_list[z], free_list_limit[z] + 1 .. block_count)
          /\ free_list_limit[z] + 1 .. block_count = Unlinked(z)
      BY <1>3 DEF Partition, Apart, Unlinked
    <3> QED BY <1>4, <3>1, <3>2, <3>3, <3>4
  <2>2. CASE free_list[z] = {}
    <3>1. PICK k \in Nat : k = free_list_limit[z] /\ k < block_count
      <4>1. ~ (free_list_limit[z] >= block_count)
        BY <1>3, <2>2 DEF PlaceOk, IsFull
      <4> QED BY <1>4, <4>1, RpMallocAssumption
    <3>2. PICK l : l = Last(NextPage(k))
      OBVIOUS
    <3>3. l \in k + 1 .. block_count /\ NextPage(k) = k + 1 .. l
      BY <3>1, <3>2, PageAfter
    <3>4. /\ class_free' = [class_free EXCEPT ![t] = {z} \X ((k + 1 .. l) \ {k + 1})]
          /\ free_list_limit' = [free_list_limit EXCEPT ![z] = l] /\ free_list' = free_list
          /\ pc' = [pc EXCEPT ![t] = "look"] /\ arg' = [arg EXCEPT ![t] = <<z, k + 1>>]
      BY <1>1, <2>2, <3>1, <3>2, <3>3 DEF UsePartial, GoTo
    <3>5. free_list' = [free_list EXCEPT ![z] = {}]
      BY <1>0, <2>2, <3>4 DEF Types
    <3>6. PICK G \in SUBSET Indices : G = k + 1 .. l /\ k + 1 \in G
      BY <3>1, <3>3, RpMallocAssumption DEF Indices
    <3>7. /\ G \cup (l + 1 .. block_count) = free_list[z] \cup Unlinked(z)
          /\ Apart(G, l + 1 .. block_count) /\ l \in 0 .. block_count
      BY <2>2, <3>1, <3>3, <3>6, RpMallocAssumption DEF Unlinked, Apart
    <3> QED BY <3>4, <3>5, <3>6, <3>7
  <2> QED BY <2>1, <2>2
<1>6. OnlyBy(t) /\ pc'[t] = "look" /\ arg'[t] = <<z, i>>
  BY <1>0, <1>5, OnlyByOne
<1>7. i \in Indices /\ Span(arg'[t]) = z /\ arg'[t][2] = i /\ <<z, i>> \in Blocks
  BY <1>3, <1>5, <1>6 DEF Span, Blocks, Indices
<1>8. /\ At(z, Flying)' = At(z, Flying) \cup {t} /\ Held(z, Flying)' = Held(z, Flying) \cup {i}
      /\ At(z, Filling)' = At(z, Filling) \cup {t}
      /\ \A s : At(s, Storing)' = At(s, Storing) /\ Held(s, Storing)' = Held(s, Storing)
      /\ \A s : At(s, {"storeLast"})' = At(s, {"storeLast"})
      /\ \A s : At(s, Holding)' = At(s, Holding) /\ At(s, Pushing)' = At(s, Pushing)
  <2>1. /\ pc[t] \notin Flying \cup Filling /\ pc'[t] \in Flying /\ pc'[t] \in Filling
        /\ pc[t] \notin Storing \cup Pushing \cup Holding \cup {"storeLast"}
        /\ pc'[t] \notin Storing \cup Pushing \cup Holding \cup {"storeLast"}
    BY <1>2, <1>6 DEF Flying, Filling, Storing, Pushing, Holding
  <2>2. /\ At(z, Flying)' = At(z, Flying) \cup {t} /\ Held(z, Flying)' = Held(z, Flying) \cup {i}
        /\ At(z, Filling)' = At(z, Filling) \cup {t}
    BY <1>6, <1>7, <2>1, Comes
  <2>3. /\ \A s : At(s, Storing)' = At(s, Storing) /\ Held(s, Storing)' = Held(s, Storing)
        /\ \A s : At(s, {"storeLast"})' = At(s, {"storeLast"})
        /\ \A s : At(s, Holding)' = At(s, Holding) /\ At(s, Pushing)' = At(s, Pushing)
    BY <1>6, <2>1, StaysOut
  <2> QED BY <2>2, <2>3
<1>9. /\ class_free'[t] = {z} \X (G \ {i}) /\ class_free' \in [Threads -> SUBSET Blocks]
      /\ free_list'[z] = {} /\ free_list' \in [Spans -> SUBSET Indices]
      /\ free_list_limit'[z] = l /\ free_list_limit' \in [Spans -> 0 .. block_count]
      /\ used_count'[z] = l /\ used_count' \in [Spans -> Int]
  <2>1. {z} \X (G \ {i}) \in SUBSET Blocks
    BY <1>3 DEF Blocks, Indices
  <2>2. /\ class_free'[t] = {z} \X (G \ {i}) /\ class_free' \in [Threads -> SUBSET Blocks]
    BY <1>0, <1>5, <2>1 DEF Types
  <2>3. /\ free_list'[z] = {} /\ free_list' \in [Spans -> SUBSET Indices]
        /\ free_list_limit'[z] = l /\ free_list_limit' \in [Spans -> 0 .. block_count]
    BY <1>0, <1>3, <1>5 DEF Types
  <2>4. used_count'[z] = l /\ used_count' \in [Spans -> Int]
    BY <1>0, <1>2, <1>3, <2>3 DEF Types
  <2> QED BY <2>2, <2>3, <2>4
<1>10. /\ \A s \in Spans \ {z} : /\ free_list'[s] = free_list[s] /\ used_count'[s] = used_count[s]
                                 /\ free_list_limit'[s] = free_list_limit[s]
       /\ \A h \in Threads \ {t} : class_free'[h] = class_free[h]
  BY <1>0, <1>2, <1>5 DEF Types
<1>11. /\ \A h : /\ Listed(h)' = Listed(h) /\ Queued(h)' = Queued(h) /\ Waiting(h)' = Waiting(h)
                 /\ Own(h)' = Own(h)
       /\ Mapped' = Mapped
       /\ UNCHANGED <<link, span_free_deferred, deferred, locked, list_size>>
  BY <1>2 DEF Listed, Queued, Follows, Waiting, Own, Mapped, spanList, sharedVars
<1>12. Touched(t, z)
  <2>1. ASSUME NEW h \in Threads, NEW b \in Blocks, Span(b) # z
        PROVE  b \in class_free'[h] <=> b \in class_free[h]
    <3>1. CASE h = t
      <4>1. b \notin {z} \X (G \ {i})
        BY <2>1 DEF Span
      <4> QED BY <1>2, <1>9, <3>1, <4>1
    <3> QED BY <1>10, <3>1
  <2> QED BY <1>2, <1>6, <1>7, <1>10, <1>11, <2>1 DEF Touched
<1>13. Types'
  <2>1. pc' \in [Threads -> {"idle", "sync"} \cup Flying \cup Pushing] /\ arg' \in [Threads -> Blocks \cup {NoBlock}]
    BY <1>0, <1>5, <1>7 DEF Types, Flying, Filling
  <2> QED BY <1>0, <1>2, <1>9, <1>11, <2>1 DEF Types
<1>14. /\ InUse(z)' = InUse(z) /\ InClass(z) = {} /\ InClass(z)' = G \ {i}
       /\ Unlinked(z)' = l + 1 .. block_count
  <2>1. InUse(z)' = InUse(z) /\ InClass(z) = {} /\ Unlinked(z)' = l + 1 .. block_count
    BY <1>2, <1>3, <1>9 DEF InUse, InClass, Unlinked
  <2>2. \A j \in Indices : <<z, j>> \in class_free'[t] <=> j \in G \ {i}
    BY <1>9
  <2>3. heap'[z] = t
    BY <1>2, <1>3
  <2>4. InClass(z)' = {j \in Indices : j \in G \ {i}}
    BY <2>2, <2>3 DEF InClass
  <2> QED BY <2>1, <2>4
<1>15. ~ Away(z)'
  BY <1>2, <1>3, <1>8, <1>11 DEF Away
<1>16. SpanOk(z)'
  <2>1. LockOk(z)' /\ AwayOk(z)'
    BY <1>2, <1>3, <1>8, <1>11, <1>15 DEF LockOk, AwayOk
  <2>2. Partition(z)'
    <3>1. i \notin Held(z, Flying) /\ G \cap (InUse(z) \cup deferred[z] \cup Held(z, Flying)) = {}
      BY <1>3, <1>5 DEF Partition, Apart
    <3>2. (l + 1 .. block_count) \cap (InUse(z) \cup deferred[z] \cup Held(z, Flying)) = {}
      BY <1>3, <1>5 DEF Partition, Apart
    <3>3. InUse(z) \cup deferred[z] \cup Held(z, Flying) \cup G \cup (l + 1 .. block_count) = Indices
      <4>1. InUse(z) \cup InClass(z) \cup free_list[z] \cup deferred[z] \cup Held(z, Flying) \cup Unlinked(z) = Indices
        BY <1>3 DEF Partition
      <4> QED BY <1>5, <1>14, <4>1
    <3>4. PICK U : U = l + 1 .. block_count
      OBVIOUS
    <3>5. G \cap U = {}
      BY <1>5, <3>4 DEF Apart
    <3>6. PICK A, D, F : A = InUse(z) /\ D = deferred[z] /\ F = Held(z, Flying)
      OBVIOUS
    <3>7. /\ InUse(z)' = A /\ InClass(z)' = G \ {i} /\ free_list'[z] = {} /\ deferred'[z] = D
          /\ Held(z, Flying)' = F \cup {i} /\ Unlinked(z)' = U
      BY <1>8, <1>9, <1>11, <1>14, <3>4, <3>6
    <3>8. Apart(A, D) /\ Apart(A, F) /\ Apart(D, F)
      BY <1>3, <3>6 DEF Partition, Apart
    <3>9. A \cup (G \ {i}) \cup {} \cup D \cup (F \cup {i}) \cup U = Indices
      BY <1>5, <3>3, <3>4, <3>6
    <3>10. /\ Apart(A, (G \ {i}) \cup {} \cup D \cup (F \cup {i}) \cup U)
           /\ Apart(G \ {i}, {} \cup D \cup (F \cup {i}) \cup U)
           /\ Apart({}, D \cup (F \cup {i}) \cup U)
           /\ Apart(D, (F \cup {i}) \cup U) /\ Apart(F \cup {i}, U)
      BY <1>5, <3>1, <3>2, <3>4, <3>5, <3>6, <3>8 DEF Apart
    <3> QED BY <3>7, <3>9, <3>10 DEF Partition
  <2>3. CountsOk(z)'
    <3>1. (1 .. l) \ {} = 1 .. l /\ Cardinality(1 .. l) = l
      BY FS_Interval
    <3>2. Stored(z)' = Stored(z)
      BY <1>8, <1>11 DEF Stored
    <3> QED BY <1>3, <1>8, <1>9, <1>11, <3>1, <3>2 DEF CountsOk
  <2>4. PlaceOk(z)'
    BY <1>2, <1>3, <1>8, <1>11 DEF PlaceOk
  <2> QED BY <1>2, <1>3, <2>1, <2>2, <2>3, <2>4 DEF SpanOk
<1>17. ASSUME NEW u \in Threads \ {t}
       PROVE  /\ partial'[u] = partial[u]
              /\ pc[u] # "idle" /\ Span(arg[u]) = z => FillOk(u)' /\ SyncOk(u)'
  BY <1>2, <1>3, <1>6, OthersAway
<1>18. CallOk(t)' /\ FillOk(t)' /\ SyncOk(t)'
  BY <1>1, <1>2, <1>3, <1>6, <1>7, <1>9, <1>11 DEF CallOk, FillOk, SyncOk
<1>19. OneHolder'
  <2>1. i \notin Held(z, Flying)
    BY <1>3, <1>5 DEF Partition, Apart
  <2>2. ASSUME NEW u \in Threads \ {t}, pc[u] \in Flying PROVE arg[u] # arg'[t]
    BY <1>6, <1>7, <2>1, <2>2 DEF Held, At, Span
  <2> QED BY <1>0, <1>6, <2>2, HolderMoves
<1>20. ASSUME NEW h \in Threads PROVE HeapOk(h)'
  <2>1. HeapOk(h)
    BY DEF HeapInv
  <2>2. CASE h # t
    BY <1>0, <1>2, <1>10, <1>11, <2>1, <2>2, HeapSame
  <2>3. CASE h = t
    <3>1. Full(h)' = Full(h) /\ Ends(h)'
      BY <1>2, <1>11, <2>1 DEF Full, HeapOk, Ends
    <3>2. \A b \in class_free'[t] : Span(b) = z
      BY <1>9 DEF Span
    <3>3. z \in Own(t)
      BY <1>3 DEF Own
    <3> QED BY <1>2, <1>11, <2>1, <2>3, <3>1, <3>2, <3>3 DEF HeapOk
  <2> QED BY <2>2, <2>3
<1> QED BY <1>3, <1>11, <1>12, <1>13, <1>16, <1>17, <1>18, <1>19, <1>20, StepKeeps

(* Sets of spans are finite.                                               *)
LEMMA SpansFinite ==
  ASSUME Types
  PROVE  \A X \in SUBSET Mapped : IsFiniteSet(X) /\ Cardinality(X) \in Nat
<1>1. mapped \in Nat
  BY RpMallocAssumption, TypesOf
<1>2. IsFiniteSet(Mapped)
  BY <1>1, FS_Interval DEF Mapped
<1> QED BY <1>2, FS_Subset, FS_CardinalityType

(* The free blocks of a span are those that came back; the block of the    *)
(* call is given to the program, and a span with no other leaves the list. *)
LEMMA FinishKeeps ==
  ASSUME HeapInv, NEW t \in Threads, NEW z \in Mapped, NEW i \in Indices,
         z \in Spans, arg[t] = <<z, i>>, Span(arg[t]) = z, arg[t][2] = i, SpanOk(z), phase[t] = "live",
         pc[t] \in {"look", "swap"}, pc[t] = "look" => ~ locked[z],
         free_list' = [free_list EXCEPT ![z] = deferred[z]],
         used_count' = [used_count EXCEPT ![z] = @ - list_size[z]],
         list_size' = [list_size EXCEPT ![z] = 0],
         deferred' = [deferred EXCEPT ![z] = {}], locked' = [locked EXCEPT ![z] = FALSE],
         PlaceSpan(t, deferred[z]), UNCHANGED spanList
  PROVE  HeapInv'
<1>0. Types /\ OneHolder /\ HeapOk(t) /\ FillOk(t) /\ Mapped \subseteq Spans
  BY TypesOf DEF HeapInv
<1>1. partial[t] # <<>> /\ Head(partial[t]) = z /\ free_list[z] = {} /\ heap[z] = t
  BY <1>0 DEF FillOk, Filling
<1>2. /\ z \in Mapped /\ z \in Spans /\ IsOwner(t, z) /\ z \in Listed(t)
      /\ SpanOk(z) /\ ~ Away(z) /\ Partition(z) /\ CountsOk(z) /\ PlaceOk(z) /\ LockOk(z) /\ AwayOk(z)
      /\ At(z, Filling) \subseteq {t} /\ At(z, Pushing) = {}
  BY <1>1, FirstPartial
<1>3. PICK D \in SUBSET Indices, l \in 0 .. block_count : D = deferred[z] /\ l = free_list_limit[z]
  BY <1>0, TypesOf
<1>4. /\ used' = used \cup {<<z, i>>}
      /\ pc' = [pc EXCEPT ![t] = "idle"] /\ arg' = [arg EXCEPT ![t] = NoBlock] /\ phase' = phase
      /\ UNCHANGED <<mapped, heap, free_list_limit, class_free, cache, link, span_free_deferred>>
      /\ IF IsFull(D, z)
         THEN /\ partial' = [partial EXCEPT ![t] = Tail(@)]
              /\ full_span_count' = [full_span_count EXCEPT ![t] = @ + 1]
         ELSE UNCHANGED <<partial, full_span_count>>
  <2>1. PlaceSpan(t, D) /\ UNCHANGED spanList
    BY <1>3
  <2> QED BY <2>1 DEF PlaceSpan, Return, GoTo, spanList
<1>5. OnlyBy(t) /\ pc'[t] = "idle" /\ arg'[t] = NoBlock
  BY <1>0, <1>4, OnlyByOne
(* The list of partial spans. *)
<1>6. /\ partial' \in [Threads -> Seq(Spans)] /\ NoneTwice(partial'[t])
      /\ Listed(t)' = IF IsFull(D, z) THEN Listed(t) \ {z} ELSE Listed(t)
      /\ full_span_count' \in [Threads -> Int]
      /\ full_span_count'[t] = IF IsFull(D, z) THEN full_span_count[t] + 1 ELSE full_span_count[t]
      /\ \A h \in Threads \ {t} : partial'[h] = partial[h] /\ full_span_count'[h] = full_span_count[h]
  <2>1. partial[t] \in Seq(Spans) /\ NoneTwice(partial[t]) /\ Listed(t) = InSeq(partial[t])
        /\ Listed(t)' = InSeq(partial'[t])
    <3>1. Listed(t)' = InSeq(partial'[t])
      BY DEF Listed, InSeq
    <3> QED BY <1>0, <3>1, TypesOf, ListedIs DEF HeapOk
  <2>2. partial \in [Threads -> Seq(Spans)] /\ full_span_count \in [Threads -> Int]
    BY <1>0 DEF Types
  <2>3. CASE IsFull(D, z)
    <3>1. PICK r : r = Tail(partial[t])
      OBVIOUS
    <3>2. r \in Seq(Spans) /\ NoneTwice(r) /\ InSeq(r) = InSeq(partial[t]) \ {z}
      BY <1>1, <2>1, <3>1, FirstTaken
    <3>3. partial' = [partial EXCEPT ![t] = r] /\ full_span_count' = [full_span_count EXCEPT ![t] = @ + 1]
      BY <1>4, <2>3, <3>1
    <3>4. partial'[t] = r /\ partial' \in [Threads -> Seq(Spans)]
          /\ \A h \in Threads \ {t} : partial'[h] = partial[h]
      BY <2>2, <3>2, <3>3
    <3>5. /\ full_span_count' \in [Threads -> Int] /\ full_span_count'[t] = full_span_count[t] + 1
          /\ \A h \in Threads \ {t} : full_span_count'[h] = full_span_count[h]
      BY <2>2, <3>3
    <3> QED BY <2>1, <2>3, <3>2, <3>4, <3>5
  <2>4. CASE ~ IsFull(D, z)
    BY <1>4, <2>1, <2>2, <2>4
  <2> QED BY <2>3, <2>4
(* The calls. *)
<1>7. /\ At(z, Flying)' = At(z, Flying) \ {t} /\ Held(z, Flying)' = Held(z, Flying) \ {i}
      /\ At(z, Filling)' = {} /\ At(z, Holding)' = {}
      /\ At(z, Storing) = {} /\ At(z, Storing)' = {} /\ i \in Held(z, Flying)
      /\ At(z, Pushing)' = {}
  <2>1. /\ pc[t] \in Flying /\ pc'[t] \notin Flying /\ pc[t] \in Filling /\ pc'[t] \notin Filling
        /\ pc'[t] \notin Holding /\ pc[t] \notin Pushing /\ pc'[t] \notin Pushing
        /\ pc[t] \notin Storing /\ pc'[t] \notin Storing /\ Filling \subseteq Flying
    BY <1>5 DEF Flying, Filling, Storing, Holding, Pushing
  <2>2. At(z, Filling)' = At(z, Filling) \ {t}
        /\ At(z, Flying)' = At(z, Flying) \ {t} /\ Held(z, Flying)' = Held(z, Flying) \ {i}
    <3>1. At(z, Flying)' = At(z, Flying) \ {t} /\ Held(z, Flying)' = Held(z, Flying) \ {i}
      <4>1. Types /\ OneHolder /\ OnlyBy(t) /\ Flying \subseteq Flying /\ pc[t] \in Flying /\ pc'[t] \notin Flying
        BY <1>0, <1>5, <2>1
      <4>2. z \in Spans /\ arg[t] = <<z, i>>
        OBVIOUS
      <4> HIDE DEF Flying
      <4> QED BY ONLY <4>1, <4>2, Leaves
    <3>2. At(z, Filling)' = At(z, Filling) \ {t}
      BY <1>5, <2>1, Moves
    <3> QED BY <3>1, <3>2
  <2>3. At(z, Pushing)' = At(z, Pushing) /\ At(z, Storing)' = At(z, Storing)
    BY <1>5, <2>1, StaysOut
  <2>4. At(z, Holding) \subseteq {t} /\ t \notin At(z, Storing)
    <3>1. pc[t] = "swap" => t \in At(z, Holding)
      BY DEF At, Holding
    <3>2. pc[t] = "look" => At(z, Holding) = {}
      BY <1>2 DEF LockOk
    <3> QED BY <1>2, <2>1, <3>1, <3>2 DEF LockOk, At
  <2>5. At(z, Holding)' = At(z, Holding) \ {t}
    BY <1>5, <2>1, Moves
  <2>6. At(z, Storing) \subseteq At(z, Holding)
    BY DEF At, Storing, Holding
  <2>7. i \in Held(z, Flying)
    BY <2>1 DEF Held, At
  <2> QED BY <1>2, <2>2, <2>3, <2>4, <2>5, <2>6, <2>7
<1>8. /\ free_list' \in [Spans -> SUBSET Indices] /\ free_list'[z] = D
      /\ deferred' \in [Spans -> SUBSET Indices] /\ deferred'[z] = {}
      /\ locked' \in [Spans -> BOOLEAN] /\ locked'[z] = FALSE
      /\ list_size' \in [Spans -> Int] /\ list_size'[z] = 0
      /\ used_count' \in [Spans -> Int] /\ used_count'[z] = used_count[z] - list_size[z]
  BY <1>0, <1>3 DEF Types
<1>9. \A s \in Spans \ {z} :
        /\ free_list'[s] = free_list[s] /\ deferred'[s] = deferred[s] /\ locked'[s] = locked[s]
        /\ list_size'[s] = list_size[s] /\ used_count'[s] = used_count[s]
  BY <1>0 DEF Types
<1>10. /\ \A h : Queued(h)' = Queued(h) /\ Waiting(h)' = Waiting(h) /\ Own(h)' = Own(h)
       /\ Mapped' = Mapped
  BY <1>4 DEF Queued, Follows, Waiting, Own, Mapped
<1>11. \A h \in Threads \ {t} : Listed(h)' = Listed(h)
  BY <1>6 DEF Listed
<1>12. Touched(t, z)
  <2>1. \A b : Span(b) # z => (b \in used' <=> b \in used)
    BY <1>4 DEF Span
  <2>2. \A h \in Threads, s \in Spans \ {z} : (s \in Listed(h))' <=> s \in Listed(h)
    BY <1>6, <1>11
  <2> QED BY <1>4, <1>5, <1>9, <1>10, <2>1, <2>2 DEF Touched
<1>13. Types'
  <2>1. pc' \in [Threads -> {"idle", "sync"} \cup Flying \cup Pushing] /\ arg' \in [Threads -> Blocks \cup {NoBlock}]
    BY <1>0, <1>4 DEF Types
  <2>2. used' \subseteq Blocks
    BY <1>0, <1>4 DEF Types, Blocks, Indices
  <2> QED BY <1>0, <1>4, <1>6, <1>8, <2>1, <2>2 DEF Types
<1>14. InUse(z)' = InUse(z) \cup {i} /\ InClass(z)' = InClass(z) /\ Unlinked(z)' = Unlinked(z)
       /\ Unlinked(z) = l + 1 .. block_count
  BY <1>3, <1>4 DEF InUse, InClass, Unlinked
<1>15. heap'[z] = t /\ ~ Away(z)' /\ ((z \in Waiting(heap[z]))' <=> FALSE) /\ ~ (z \in Waiting(t))'
  <2>1. heap'[z] = t
    BY <1>1, <1>4
  <2>2. (z \in Waiting(heap[z]))' <=> z \in Waiting(heap[z])
    BY <1>4 DEF Waiting, Queued, Follows
  <2>3. z \notin Waiting(t)
    BY <1>1, <1>2 DEF Away
  <2>4. ~ Away(z)'
    BY <1>1, <1>7, <2>2, <2>3 DEF Away
  <2> QED BY <1>1, <1>10, <2>1, <2>2, <2>3, <2>4
<1>16. SpanOk(z)'
  <2>1. LockOk(z)'
    BY <1>7, <1>8 DEF LockOk
  <2>2. AwayOk(z)'
    BY <1>7, <1>15 DEF AwayOk
  <2>3. Partition(z)'
    <3>1. PICK A, C, F, U : A = InUse(z) /\ C = InClass(z) /\ F = Held(z, Flying) /\ U = Unlinked(z)
      OBVIOUS
    <3>2. /\ InUse(z)' = A \cup {i} /\ InClass(z)' = C /\ free_list'[z] = D /\ deferred'[z] = {}
          /\ Held(z, Flying)' = F \ {i} /\ Unlinked(z)' = U
      BY <1>7, <1>8, <1>14, <3>1
    <3>3. /\ A \cup C \cup {} \cup D \cup F \cup U = Indices
          /\ Apart(A, C \cup {} \cup D \cup F \cup U)
          /\ Apart(C, {} \cup D \cup F \cup U) /\ Apart(D, F \cup U) /\ Apart(F, U) /\ i \in F
      BY <1>1, <1>2, <1>3, <1>7, <3>1 DEF Partition
    <3>4. /\ (A \cup {i}) \cup C \cup D \cup {} \cup (F \ {i}) \cup U = Indices
          /\ Apart(A \cup {i}, C \cup D \cup {} \cup (F \ {i}) \cup U)
          /\ Apart(C, D \cup {} \cup (F \ {i}) \cup U) /\ Apart(D, {} \cup (F \ {i}) \cup U)
          /\ Apart({}, (F \ {i}) \cup U) /\ Apart(F \ {i}, U)
      BY <3>3 DEF Apart
    <3> QED BY <3>2, <3>4 DEF Partition
  <2>4. CountsOk(z)'
    <3>1. Stored(z) = D /\ Stored(z)' = {}
      BY <1>3, <1>7, <1>8 DEF Stored, Held
    <3>2. used_count[z] = Cardinality(1 .. l) /\ list_size[z] = Cardinality(D)
      <4>1. (1 .. l) \ {} = 1 .. l
        OBVIOUS
      <4> QED BY <1>1, <1>2, <1>3, <3>1, <4>1 DEF CountsOk
    <3>3. D \subseteq 1 .. l
      <4>1. D \cap (l + 1 .. block_count) = {}
        BY <1>2, <1>3, <1>14 DEF Partition, Apart
      <4> QED BY <1>3, <4>1, RpMallocAssumption DEF Indices
    <3>4. IsFiniteSet(1 .. l) /\ IsFiniteSet(D)
      <4>1. IsFiniteSet(1 .. l)
        BY <1>3, FS_Interval, RpMallocAssumption
      <4>2. IsFiniteSet(D)
        BY <1>3, IndicesFinite
      <4> QED BY <4>1, <4>2
    <3>5. Cardinality((1 .. l) \ D) = Cardinality(1 .. l) - Cardinality(D)
      <4>1. PICK N : N = 1 .. l
        OBVIOUS
      <4>2. N \cap D = D /\ IsFiniteSet(N)
        BY <3>3, <3>4, <4>1
      <4>3. Cardinality(N \ D) = Cardinality(N) - Cardinality(N \cap D)
        BY <4>2, FS_Difference
      <4> QED BY <4>1, <4>2, <4>3
    <3>6. used_count'[z] = Cardinality((1 .. free_list_limit'[z]) \ free_list'[z])
      BY <1>3, <1>4, <1>8, <3>2, <3>5
    <3>7. list_size'[z] = Cardinality(Stored(z)')
      BY <1>8, <3>1, FS_EmptySet
    <3>8. list_size'[z] # block_count /\ At(z, {"storeLast"})' = {}
      <4>1. At(z, {"storeLast"})' \subseteq At(z, Storing)'
        BY DEF At, Storing
      <4> QED BY <1>7, <1>8, <4>1, RpMallocAssumption
    <3> QED BY <3>6, <3>7, <3>8 DEF CountsOk
  <2>5. PlaceOk(z)'
    <3>1. IsFull(free_list[z], z)' <=> IsFull(D, z)
      BY <1>4, <1>8 DEF IsFull
    <3>2. z \in Listed(t)' <=> ~ IsFull(D, z)
      BY <1>2, <1>6
    <3>3. (z \in Listed(heap[z]))' <=> z \in Listed(t)'
      BY <1>15 DEF Listed
    <3> QED BY <1>7, <3>1, <3>2, <3>3 DEF PlaceOk
  <2> QED BY <1>15, <2>1, <2>2, <2>3, <2>4, <2>5 DEF SpanOk
<1>17. ASSUME NEW u \in Threads \ {t}
       PROVE  /\ partial'[u] = partial[u]
              /\ pc[u] # "idle" /\ Span(arg[u]) = z => FillOk(u)' /\ SyncOk(u)'
  BY <1>2, <1>5, <1>6, OthersAway
<1>18. CallOk(t)' /\ FillOk(t)' /\ SyncOk(t)'
  BY <1>5 DEF CallOk, FillOk, SyncOk, Filling
<1>19. OneHolder'
  BY <1>0, <1>5, HolderMoves DEF Flying, Filling, Storing
<1>20. ASSUME NEW h \in Threads PROVE HeapOk(h)'
  <2>1. HeapOk(h)
    BY DEF HeapInv
  <2>2. CASE h # t
    BY <1>0, <1>4, <1>6, <1>10, <2>1, <2>2, HeapSame
  <2>3. CASE h = t
    <3>1. Ends(t)'
      BY <1>0, <1>4, <1>10 DEF HeapOk, Ends
    <3>2. z \in Own(t) /\ z \notin cache[t] /\ z \notin Full(t)
      BY <1>1, <1>2 DEF Own, Full, Away, Waiting
    <3>3. full_span_count'[t] = Cardinality(Full(t)')
      <4>1. CASE IsFull(D, z)
        <5>1. Full(t)' = Full(t) \cup {z}
          BY <1>4, <1>6, <1>10, <3>2, <4>1 DEF Full
        <5>2. IsFiniteSet(Full(t))
          BY <1>0, SpansFinite DEF Full, Own
        <5>3. Cardinality(Full(t) \cup {z}) = Cardinality(Full(t)) + 1
          BY <3>2, <5>2, FS_AddElement
        <5> QED BY <1>0, <1>6, <4>1, <5>1, <5>3 DEF HeapOk
      <4>2. CASE ~ IsFull(D, z)
        <5>1. Full(t)' = Full(t)
          BY <1>4, <1>6, <1>10, <4>2 DEF Full
        <5> QED BY <1>0, <1>6, <4>2, <5>1 DEF HeapOk
      <4> QED BY <4>1, <4>2
    <3>4. (Listed(t) \cup Waiting(t) \subseteq Own(t))' /\ Apart(cache[t], Queued(t))'
      BY <1>0, <1>4, <1>6, <1>10 DEF HeapOk, Apart
    <3>5. (\A b \in class_free[t] : Span(b) \in Own(t))'
      BY <1>0, <1>4, <1>10 DEF HeapOk
    <3> QED BY <1>6, <2>3, <3>1, <3>3, <3>4, <3>5 DEF HeapOk
  <2> QED BY <2>2, <2>3
<1> QED BY <1>10, <1>12, <1>13, <1>16, <1>17, <1>18, <1>19, <1>20, StepKeeps

(* Giving the lock back, with an empty list behind it.                     *)
LEMMA SwapKeeps ==
  ASSUME HeapInv, NEW t \in Threads, Swap(t)
  PROVE  HeapInv'
<1>1. PICK z \in Mapped, i \in Indices :
        z \in Spans /\ arg[t] = <<z, i>> /\ Span(arg[t]) = z /\ arg[t][2] = i /\ SpanOk(z) /\ phase[t] = "live"
  BY CallAt DEF Swap
<1>2. /\ pc[t] = "swap"
      /\ free_list' = [free_list EXCEPT ![z] = deferred[z]]
      /\ used_count' = [used_count EXCEPT ![z] = @ - list_size[z]]
      /\ list_size' = [list_size EXCEPT ![z] = 0]
      /\ deferred' = [deferred EXCEPT ![z] = {}] /\ locked' = [locked EXCEPT ![z] = FALSE]
      /\ PlaceSpan(t, deferred[z]) /\ UNCHANGED spanList
  BY <1>1 DEF Swap
<1> QED BY <1>1, <1>2, FinishKeeps

(* With nothing in the deferred list there is nothing to change.           *)
LEMMA LookDeferredKeeps ==
  ASSUME HeapInv, NEW t \in Threads, LookDeferred(t)
  PROVE  HeapInv'
<1>0. Types /\ OneHolder /\ FillOk(t)
  BY DEF HeapInv
<1>1. PICK z \in Mapped, i \in Indices :
        z \in Spans /\ arg[t] = <<z, i>> /\ Span(arg[t]) = z /\ arg[t][2] = i /\ SpanOk(z) /\ phase[t] = "live"
  BY CallAt DEF LookDeferred
<1>2. pc[t] = "look" /\ UNCHANGED <<ownerVars, sharedVars, spanList>>
  BY DEF LookDeferred
<1>3. /\ ~ Away(z) /\ Partition(z) /\ CountsOk(z) /\ PlaceOk(z) /\ LockOk(z) /\ AwayOk(z)
      /\ t \in At(z, Flying) /\ At(z, Pushing) = {}
  BY <1>1, <1>2, HeldSpan DEF Flying, Filling
<1>4. CASE deferred[z] = {} /\ ~ locked[z]
  <2>1. PlaceSpan(t, free_list[z])
    BY <1>1, <1>4 DEF LookDeferred
  <2>2. free_list[z] = {}
    BY <1>0, <1>1, <1>2 DEF FillOk, Filling
  <2>3. list_size[z] = 0
    <3>1. At(z, Storing) = {}
      BY <1>3, <1>4 DEF LockOk, At, Storing, Holding
    <3>2. Stored(z) = {}
      BY <1>4, <3>1 DEF Stored, Held
    <3> QED BY <1>3, <3>2, FS_EmptySet DEF CountsOk
  <2>4. /\ free_list' = [free_list EXCEPT ![z] = deferred[z]]
        /\ list_size' = [list_size EXCEPT ![z] = 0]
        /\ deferred' = [deferred EXCEPT ![z] = {}] /\ locked' = [locked EXCEPT ![z] = FALSE]
    BY <1>0, <1>2, <1>4, <2>2, <2>3 DEF Types, ownerVars, sharedVars
  <2>5. used_count' = [used_count EXCEPT ![z] = @ - list_size[z]]
    <3>1. used_count' = used_count /\ used_count \in [Spans -> Int]
      BY <1>0, <1>2 DEF Types, ownerVars
    <3>2. used_count[z] - list_size[z] = used_count[z]
      BY <1>1, <2>3, <3>1
    <3> QED BY <3>1, <3>2
  <2>6. PlaceSpan(t, deferred[z])
    BY <1>4, <2>1, <2>2
  <2> QED BY <1>1, <1>2, <1>4, <2>4, <2>5, <2>6, FinishKeeps
<1>5. CASE ~ (deferred[z] = {} /\ ~ locked[z])
  <2>1. /\ pc' = [pc EXCEPT ![t] = "extract"] /\ arg' = [arg EXCEPT ![t] = arg[t]] /\ phase' = phase
        /\ UNCHANGED <<used, localVars>>
    BY <1>1, <1>5 DEF LookDeferred, GoTo
  <2>2. OnlyBy(t) /\ pc'[t] = "extract" /\ arg'[t] = arg[t] /\ arg' = arg
    BY <1>0, <2>1, OnlyByOne DEF Types
  <2>3. UNCHANGED <<mapped, heap, class_free, partial, cache, full_span_count, span_free_deferred, link>>
        /\ UNCHANGED <<used, free_list, free_list_limit, used_count, list_size, deferred, locked, phase>>
    BY <1>2, <2>1 DEF localVars, spanList, ownerVars, sharedVars
  <2>4. /\ \A h \in Threads : HeapOk(h)' /\ Mapped' = Mapped
        /\ \A h : Listed(h)' = Listed(h) /\ Waiting(h)' = Waiting(h)
    BY <2>3, HeapsSame
  <2>5. Touched(t, z)
    BY <1>1, <2>2, <2>3, <2>4 DEF Touched
  <2>6. Types'
    <3>1. pc' \in [Threads -> {"idle", "sync"} \cup Flying \cup Pushing]
      BY <1>0, <2>1 DEF Types, Flying, Filling
    <3> QED BY <1>0, <2>2, <2>3, <3>1 DEF Types
  <2>7. /\ \A s : At(s, Flying)' = At(s, Flying) /\ Held(s, Flying)' = Held(s, Flying)
        /\ \A s : At(s, Filling)' = At(s, Filling) /\ At(s, Holding)' = At(s, Holding)
        /\ \A s : At(s, Storing)' = At(s, Storing) /\ Held(s, Storing)' = Held(s, Storing)
        /\ \A s : At(s, {"storeLast"})' = At(s, {"storeLast"})
        /\ \A s : At(s, Pushing)' = At(s, Pushing)
    <3>1. /\ pc[t] \in Flying /\ pc'[t] \in Flying /\ pc[t] \in Filling /\ pc'[t] \in Filling
          /\ pc[t] \notin Storing /\ pc'[t] \notin Storing /\ pc[t] \notin Pushing /\ pc'[t] \notin Pushing
          /\ pc[t] \notin Holding /\ pc'[t] \notin Holding
          /\ pc[t] \notin {"storeLast"} /\ pc'[t] \notin {"storeLast"}
      BY <1>2, <2>2 DEF Flying, Filling, Storing, Pushing, Holding
    <3> QED BY <2>2, <3>1, GoesOn
  <2>8. Away(z)' <=> Away(z)
    BY <2>3, <2>4, <2>7 DEF Away
  <2>9. SpanOk(z)'
    <3>1. InUse(z)' = InUse(z) /\ InClass(z)' = InClass(z) /\ Unlinked(z)' = Unlinked(z)
      BY <2>3 DEF InUse, InClass, Unlinked
    <3>2. LockOk(z)' /\ AwayOk(z)'
      BY <1>3, <2>3, <2>4, <2>7, <2>8 DEF LockOk, AwayOk
    <3>3. Partition(z)' /\ CountsOk(z)' /\ PlaceOk(z)'
      BY <1>3, <2>3, <2>4, <2>7, <3>1 DEF Partition, CountsOk, Stored, PlaceOk, IsFull
    <3> QED BY <1>1, <2>3, <3>2, <3>3 DEF SpanOk
  <2>10. \A u \in Threads \ {t} :
           /\ partial'[u] = partial[u]
           /\ pc[u] # "idle" /\ Span(arg[u]) = z => FillOk(u)' /\ SyncOk(u)'
    BY <2>2, <2>3, <2>8, OthersSame
  <2>11. CallOk(t)' /\ FillOk(t)' /\ SyncOk(t)'
    BY <1>0, <1>1, <1>2, <2>2, <2>3, <2>4 DEF CallOk, FillOk, SyncOk, Filling
  <2>12. OneHolder'
    BY <1>0, <1>2, <2>2, HolderMoves DEF OneHolder, Flying, Filling
  <2> QED BY <1>1, <2>4, <2>5, <2>6, <2>9, <2>10, <2>11, <2>12, StepKeeps
<1> QED BY <1>4, <1>5

-----------------------------------------------------------------------------
(* The empty list of spans.                                                *)
LEMMA NoSpans == <<>> \in Seq(Spans) /\ NoneTwice(<<>>) /\ InSeq(<<>>) = {}
<1>1. <<>> \in Seq(Spans) /\ Len(<<>>) = 0
  BY EmptySeq
<1>2. NoneTwice(<<>>)
  BY <1>1 DEF NoneTwice
<1>3. InSeq(<<>>) = {}
  BY DEF InSeq
<1> QED BY <1>1, <1>2, <1>3

(* A span nobody has anything of is initialized: what is common to one of  *)
(* the cache, one that was sent back and one that is mapped.               *)
LEMMA NewSpanKeeps ==
  ASSUME HeapInv, NEW t \in Threads, NeedsSpan(t), NEW z \in Spans, NEW count \in Int,
         InitializeNew(t, z, count),
         \A u \in Threads : pc[u] = "idle" \/ Span(arg[u]) # z,
         \A b \in used : Span(b) # z,
         \A h \in Threads : h # t => z \notin Own(h),
         \A h \in Threads : \A b \in class_free[h] : Span(b) # z,
         Mapped' = Mapped \cup {z}, mapped' \in 0 .. MaxSpans,
         cache' \in [Threads -> SUBSET Spans], span_free_deferred' \in [Threads -> Spans \cup {None}],
         \A h \in Threads \ {t} : cache'[h] = cache[h] /\ span_free_deferred'[h] = span_free_deferred[h],
         Waiting(t)' = Waiting(t) \ {z}, Apart(cache[t], Queued(t))', Ends(t)',
         count = Cardinality((Own(t) \cup {z}) \ (cache'[t] \cup {z}))
  PROVE  HeapInv'
<1>0. Types /\ OneHolder /\ HeapOk(t) /\ Mapped \subseteq Spans
  BY TypesOf DEF HeapInv
<1>1. PICK L \in 1 .. block_count : L = Last(NextPage(0)) /\ NextPage(0) = 1 .. L
  <2>1. 0 \in Nat /\ 0 < block_count /\ 0 + 1 = 1
    BY RpMallocAssumption
  <2>2. Last(NextPage(0)) \in 0 + 1 .. block_count /\ NextPage(0) = 0 + 1 .. Last(NextPage(0))
    BY <2>1, PageAfter
  <2> QED BY <2>1, <2>2
<1>2. /\ phase[t] = "live" /\ pc[t] = "idle" /\ class_free[t] = {} /\ partial[t] = <<>>
      /\ heap' = [heap EXCEPT ![z] = t]
      /\ free_list' = [free_list EXCEPT ![z] = {}] /\ list_size' = [list_size EXCEPT ![z] = 0]
      /\ deferred' = [deferred EXCEPT ![z] = {}] /\ locked' = [locked EXCEPT ![z] = FALSE]
      /\ free_list_limit' = [free_list_limit EXCEPT ![z] = L]
      /\ used_count' = [used_count EXCEPT ![z] = L]
      /\ class_free' = [class_free EXCEPT ![t] = {z} \X ((1 .. L) \ {1})]
      /\ used' = used \cup {<<z, 1>>}
      /\ IF L < block_count
         THEN partial' = [partial EXCEPT ![t] = <<z>> \o <<>>] /\ full_span_count' = [full_span_count EXCEPT ![t] = count]
         ELSE full_span_count' = [full_span_count EXCEPT ![t] = count + 1] /\ UNCHANGED partial
      /\ UNCHANGED <<phase, pc, arg, link>>
  BY <1>1 DEF InitializeNew, NeedsSpan, Asked, Idle
<1>3. L \in Nat /\ L >= 1 /\ L <= block_count /\ block_count \in Nat /\ 1 \in Indices /\ 1 .. L \subseteq Indices
  BY <1>1, RpMallocAssumption DEF Indices
(* The span's fields. *)
<1>4. /\ heap' \in [Spans -> Threads \cup {None}] /\ heap'[z] = t
      /\ free_list' \in [Spans -> SUBSET Indices] /\ free_list'[z] = {}
      /\ deferred' \in [Spans -> SUBSET Indices] /\ deferred'[z] = {}
      /\ locked' \in [Spans -> BOOLEAN] /\ locked'[z] = FALSE
  BY <1>0, <1>2 DEF Types
<1>5. /\ list_size' \in [Spans -> Int] /\ list_size'[z] = 0
      /\ used_count' \in [Spans -> Int] /\ used_count'[z] = L
      /\ free_list_limit' \in [Spans -> 0 .. block_count] /\ free_list_limit'[z] = L
  BY <1>0, <1>2, <1>3 DEF Types
<1>6. \A s \in Spans \ {z} :
        /\ heap'[s] = heap[s] /\ free_list'[s] = free_list[s] /\ free_list_limit'[s] = free_list_limit[s]
        /\ used_count'[s] = used_count[s] /\ list_size'[s] = list_size[s]
        /\ deferred'[s] = deferred[s] /\ locked'[s] = locked[s]
  BY <1>0, <1>2 DEF Types
(* The heap's. *)
<1>7. /\ class_free' \in [Threads -> SUBSET Blocks] /\ class_free'[t] = {z} \X ((1 .. L) \ {1})
      /\ \A h \in Threads \ {t} : class_free'[h] = class_free[h]
  <2>1. {z} \X ((1 .. L) \ {1}) \in SUBSET Blocks
    BY <1>3 DEF Blocks, Indices
  <2> QED BY <1>0, <1>2, <2>1 DEF Types
<1>8. /\ partial' \in [Threads -> Seq(Spans)] /\ NoneTwice(partial'[t])
      /\ Listed(t) = {} /\ Listed(t)' = (IF L < block_count THEN {z} ELSE {})
      /\ \A h \in Threads \ {t} : partial'[h] = partial[h]
  <2>1. partial \in [Threads -> Seq(Spans)]
    BY <1>0 DEF Types
  <2>2. Listed(t)' = InSeq(partial'[t]) /\ InSeq(<<>>) = {} /\ Listed(t) = InSeq(partial[t])
    BY DEF Listed, InSeq
  <2>3. CASE L < block_count
    <3>1. PICK e : e = <<>> /\ e \in Seq(Spans) /\ NoneTwice(e) /\ InSeq(e) = {}
      BY NoSpans
    <3>2. PICK r : r = <<z>> \o e
      OBVIOUS
    <3>3. r \in Seq(Spans) /\ NoneTwice(r) /\ InSeq(r) = {z}
      <4>1. z \notin InSeq(e)
        BY <3>1
      <4>2. e \in Seq(Spans) /\ NoneTwice(e) /\ z \in Spans
        BY <3>1
      <4>3. /\ <<z>> \o e \in Seq(Spans) /\ NoneTwice(<<z>> \o e)
            /\ InSeq(<<z>> \o e) = InSeq(e) \cup {z}
        BY ONLY <4>1, <4>2, PutFirst
      <4> QED BY <3>1, <3>2, <4>3
    <3>4. partial' = [partial EXCEPT ![t] = r]
      BY <1>2, <2>3, <3>1, <3>2
    <3>5. partial'[t] = r /\ partial' \in [Threads -> Seq(Spans)]
          /\ \A h \in Threads \ {t} : partial'[h] = partial[h]
      BY <2>1, <3>3, <3>4
    <3> QED BY <1>2, <2>2, <2>3, <3>3, <3>5
  <2>4. CASE ~ (L < block_count)
    BY <1>2, <2>1, <2>2, <2>4 DEF NoneTwice
  <2> QED BY <2>3, <2>4
<1>9. /\ full_span_count' \in [Threads -> Int]
      /\ full_span_count'[t] = IF L < block_count THEN count ELSE count + 1
      /\ \A h \in Threads \ {t} : full_span_count'[h] = full_span_count[h]
  BY <1>0, <1>2 DEF Types
<1>10. \A h \in Threads \ {t} : Listed(h)' = Listed(h)
  BY <1>8 DEF Listed
<1>11. /\ \A h \in Threads \ {t} : Own(h)' = Own(h)
       /\ Own(t)' = Own(t) \cup {z}
  BY <1>0, <1>4, <1>6 DEF Own
<1>12. ASSUME NEW h \in Threads \ {t} PROVE HeapOk(h)' /\ Waiting(h)' = Waiting(h)
  <2>1. HeapOk(h) /\ link' = link
    BY <1>2 DEF HeapInv
  <2>2. HeapOk(h)'
    BY <1>0, <1>7, <1>8, <1>9, <1>11, <2>1, HeapSame
  <2>3. Queued(h)' = Queued(h)
    BY <1>0, <2>1, QueuedSame
  <2> QED BY <2>2, <2>3 DEF Waiting
<1>13. HeapOk(t)'
  <2>1. \A b \in class_free'[t] : Span(b) \in Own(t)'
    BY <1>7, <1>11 DEF Span
  <2>2. (Listed(t) \cup Waiting(t) \subseteq Own(t))'
    BY <1>0, <1>8, <1>11 DEF HeapOk
  <2>3. full_span_count'[t] = Cardinality(Full(t)')
    <3>1. PICK R : R = (Own(t) \cup {z}) \ (cache'[t] \cup {z})
      OBVIOUS
    <3>2. z \notin cache'[t]
      BY DEF Waiting
    <3>3. CASE L < block_count
      <4>1. Full(t)' = R
        BY <1>8, <1>11, <3>1, <3>3 DEF Full
      <4> QED BY <1>9, <3>1, <3>3, <4>1
    <3>4. CASE ~ (L < block_count)
      <4>1. Full(t)' = R \cup {z} /\ z \notin R
        BY <1>8, <1>11, <3>1, <3>2, <3>4 DEF Full
      <4>2. IsFiniteSet(R)
        <5>1. R \subseteq Mapped
          BY <3>1 DEF Own
        <5> QED BY <1>0, <5>1, SpansFinite
      <4>3. Cardinality(R \cup {z}) = Cardinality(R) + 1
        BY <4>1, <4>2, FS_AddElement
      <4> QED BY <1>9, <3>1, <3>4, <4>1, <4>3
    <3> QED BY <3>3, <3>4
  <2> QED BY <1>8, <2>1, <2>2, <2>3 DEF HeapOk
(* The step. *)
<1>14. Touched(t, z)
  <2>1. ASSUME NEW h \in Threads, NEW b \in Blocks, Span(b) # z
        PROVE  b \in class_free'[h] <=> b \in class_free[h]
    <3>1. CASE h = t
      <4>1. b \notin {z} \X ((1 .. L) \ {1})
        BY <2>1 DEF Span
      <4> QED BY <1>2, <1>7, <3>1, <4>1
    <3> QED BY <1>7, <3>1
  <2>2. \A b : Span(b) # z => (b \in used' <=> b \in used)
    BY <1>2 DEF Span
  <2>3. ASSUME NEW h \in Threads, NEW s \in Spans \ {z}
        PROVE  ((s \in Listed(h))' <=> s \in Listed(h)) /\ ((s \in Waiting(h))' <=> s \in Waiting(h))
    <3>1. CASE h = t
      BY <1>8, <3>1
    <3>2. CASE h # t
      BY <1>10, <1>12, <3>2
    <3> QED BY <3>1, <3>2
  <2> QED BY <1>2, <1>6, <2>1, <2>2, <2>3 DEF Touched, OnlyBy
<1>15. Types'
  <2>1. used' \subseteq Blocks
    BY <1>0, <1>2, <1>3 DEF Types, Blocks, Indices
  <2>2. /\ phase' \in [Threads -> {"new", "live", "gone"}]
        /\ pc' \in [Threads -> {"idle", "sync"} \cup Flying \cup Pushing]
        /\ arg' \in [Threads -> Blocks \cup {NoBlock}]
        /\ link' \in [Spans -> Spans \cup {None}]
    BY <1>0, <1>2 DEF Types
  <2> QED BY <1>4, <1>5, <1>7, <1>8, <1>9, <2>1, <2>2 DEF Types
<1>16. \A X : "idle" \notin X => At(z, X)' = {} /\ Held(z, X)' = {}
  BY <1>2 DEF At, Held
<1>17. /\ At(z, Pushing)' = {} /\ At(z, Holding)' = {} /\ At(z, Filling)' = {} /\ At(z, Flying)' = {}
       /\ At(z, {"storeLast"})' = {} /\ Held(z, Flying)' = {} /\ Held(z, Storing)' = {}
  <2>1. /\ "idle" \notin Pushing /\ "idle" \notin Holding /\ "idle" \notin Filling /\ "idle" \notin Flying
        /\ "idle" \notin {"storeLast"} /\ "idle" \notin Storing
    BY DEF Pushing, Holding, Filling, Flying, Storing
  <2> QED BY <1>16, <2>1
<1>18. /\ InUse(z)' = {1} /\ InClass(z)' = (1 .. L) \ {1} /\ Unlinked(z)' = L + 1 .. block_count
  <2>1. InUse(z)' = {1}
    <3>1. \A j \in Indices : <<z, j>> \in used' <=> j = 1
      BY <1>2 DEF Span
    <3> QED BY <1>3, <3>1 DEF InUse
  <2>2. InClass(z)' = (1 .. L) \ {1}
    <3>1. \A j \in Indices : <<z, j>> \in class_free'[t] <=> j \in (1 .. L) \ {1}
      BY <1>7
    <3>2. InClass(z)' = {j \in Indices : j \in (1 .. L) \ {1}}
      BY <1>4, <3>1 DEF InClass
    <3> QED BY <1>3, <3>2
  <2>3. Unlinked(z)' = L + 1 .. block_count
    BY <1>5 DEF Unlinked
  <2> QED BY <2>1, <2>2, <2>3
<1>19. ~ (z \in Waiting(heap[z]))' /\ ((z \in Listed(heap[z]))' <=> L < block_count)
  <2>1. Waiting(heap[z])' = Waiting(t)' /\ Listed(heap[z])' = Listed(t)'
    BY <1>4 DEF Waiting, Queued, Follows, Listed
  <2> QED BY <1>8, <2>1
<1>20. SpanOk(z)'
  <2>1. LockOk(z)'
    BY <1>4, <1>17 DEF LockOk
  <2>2. ~ Away(z)' /\ AwayOk(z)'
    BY <1>17, <1>19 DEF Away, AwayOk
  <2>3. Partition(z)'
    <3>1. PICK U : U = L + 1 .. block_count
      OBVIOUS
    <3>2. {1} \cup ((1 .. L) \ {1}) \cup {} \cup {} \cup {} \cup U = Indices
          /\ {1} \cap U = {} /\ ((1 .. L) \ {1}) \cap U = {}
      BY <1>3, <3>1 DEF Indices
    <3>3. /\ Apart({1}, ((1 .. L) \ {1}) \cup {} \cup {} \cup {} \cup U)
          /\ Apart((1 .. L) \ {1}, {} \cup {} \cup {} \cup U)
          /\ Apart({}, {} \cup {} \cup U) /\ Apart({}, {} \cup U) /\ Apart({}, U)
      BY <3>2 DEF Apart
    <3>4. /\ InUse(z)' = {1} /\ InClass(z)' = (1 .. L) \ {1} /\ free_list'[z] = {} /\ deferred'[z] = {}
          /\ Held(z, Flying)' = {} /\ Unlinked(z)' = U
      BY <1>4, <1>17, <1>18, <3>1
    <3> QED BY <3>2, <3>3, <3>4 DEF Partition
  <2>4. CountsOk(z)'
    <3>1. Stored(z)' = {}
      BY <1>4, <1>17 DEF Stored
    <3>2. (1 .. L) \ {} = 1 .. L /\ Cardinality(1 .. L) = L
      BY <1>3, FS_Interval
    <3>3. Cardinality({}) = 0
      BY FS_EmptySet
    <3>4. used_count'[z] = Cardinality((1 .. free_list_limit'[z]) \ free_list'[z])
      BY <1>4, <1>5, <3>2
    <3>5. list_size'[z] = Cardinality(Stored(z)')
      BY <1>5, <3>1, <3>3
    <3> QED BY <1>5, <1>17, <3>4, <3>5, RpMallocAssumption DEF CountsOk
  <2>5. PlaceOk(z)'
    BY <1>3, <1>4, <1>5, <1>17, <1>19 DEF PlaceOk, IsFull
  <2> QED BY <1>4, <2>1, <2>2, <2>3, <2>4, <2>5 DEF SpanOk
<1>21. /\ CallOk(t)' /\ FillOk(t)' /\ SyncOk(t)'
       /\ \A u \in Threads \ {t} :
            /\ partial'[u] = partial[u]
            /\ ~ (pc[u] # "idle" /\ Span(arg[u]) = z)
  BY <1>2, <1>8 DEF CallOk, FillOk, SyncOk, Filling
<1>22. OneHolder'
  BY <1>0, <1>2 DEF OneHolder
<1>23. \A h \in Threads : HeapOk(h)'
  BY <1>12, <1>13
<1> QED BY <1>14, <1>15, <1>20, <1>21, <1>22, <1>23, StepKeeps

(* A span that came back is free to be used again.                         *)
LEMMA WaitingFree ==
  ASSUME HeapInv, NEW t \in Threads, NEW z \in Waiting(t)
  PROVE  /\ z \in Mapped /\ z \in Spans /\ heap[z] = t /\ z \in Own(t) /\ z \notin Listed(t)
         /\ \A u \in Threads : pc[u] = "idle" \/ Span(arg[u]) # z
         /\ \A b \in used : Span(b) # z
         /\ \A h \in Threads : h # t => z \notin Own(h)
         /\ \A h \in Threads : \A b \in class_free[h] : Span(b) # z
<1>1. Types /\ HeapOk(t) /\ Mapped \subseteq Spans
  BY TypesOf DEF HeapInv
<1>2. z \in Own(t) /\ z \in Mapped /\ z \in Spans /\ heap[z] = t
  BY <1>1 DEF HeapOk, Own
<1>3. SpanOk(z) /\ Away(z)
  BY <1>2 DEF HeapInv, Away
<1>4. /\ InUse(z) = {} /\ InClass(z) = {} /\ At(z, Flying) = {} /\ z \notin Listed(t)
      /\ At(z, Pushing) = {}
  BY <1>2, <1>3 DEF SpanOk, AwayOk
<1>5. ASSUME NEW u \in Threads, pc[u] # "idle", Span(arg[u]) = z PROVE FALSE
  <2>1. pc[u] \in {"sync"} \cup Flying \cup Pushing
    BY <1>1, <1>5 DEF Types
  <2>2. pc[u] = "sync"
    BY <1>4, <1>5, <2>1 DEF At
  <2> QED BY <1>3, <1>5, <2>2 DEF HeapInv, SyncOk
<1>6. ASSUME NEW b \in used PROVE Span(b) # z
  <2>1. b \in Blocks
    BY <1>1, TypesOf
  <2>2. b = <<Span(b), b[2]>> /\ b[2] \in Indices
    BY <2>1, BlockPair
  <2> QED BY <1>4, <1>6, <2>2 DEF InUse
<1>7. ASSUME NEW h \in Threads, NEW b \in class_free[h] PROVE Span(b) # z
  <2>1. b \in Blocks
    BY <1>1, <1>7, TypesOf
  <2>2. b = <<Span(b), b[2]>> /\ b[2] \in Indices
    BY <2>1, BlockPair
  <2>3. Span(b) \in Own(h)
    BY <1>7 DEF HeapInv, HeapOk
  <2>4. SUFFICES ASSUME Span(b) = z PROVE FALSE
    OBVIOUS
  <2>5. h = t
    BY <1>2, <2>3, <2>4 DEF Own
  <2> QED BY <1>2, <1>4, <1>7, <2>2, <2>4, <2>5 DEF InClass
<1> QED BY <1>2, <1>4, <1>5, <1>6, <1>7 DEF Own

(* Filling the class from a span of the heap's cache.                      *)
LEMMA FromCacheKeeps ==
  ASSUME HeapInv, NEW t \in Threads, FromCache(t)
  PROVE  HeapInv'
<1>0. Types /\ HeapOk(t)
  BY DEF HeapInv
<1>1. PICK z \in cache[t] :
        /\ cache' = [cache EXCEPT ![t] = @ \ {z}] /\ InitializeNew(t, z, full_span_count[t])
        /\ NeedsSpan(t) /\ mapped' = mapped /\ span_free_deferred' = span_free_deferred
  BY DEF FromCache
<1>2. z \in Waiting(t) /\ z \notin Queued(t)
  BY <1>0 DEF Waiting, HeapOk, Apart
<1>3. /\ z \in Mapped /\ z \in Spans /\ heap[z] = t /\ z \in Own(t)
      /\ \A u \in Threads : pc[u] = "idle" \/ Span(arg[u]) # z
      /\ \A b \in used : Span(b) # z
      /\ \A h \in Threads : h # t => z \notin Own(h)
      /\ \A h \in Threads : \A b \in class_free[h] : Span(b) # z
  BY <1>2, WaitingFree
<1>4. /\ cache' \in [Threads -> SUBSET Spans] /\ cache'[t] = cache[t] \ {z}
      /\ \A h \in Threads \ {t} : cache'[h] = cache[h] /\ span_free_deferred'[h] = span_free_deferred[h]
      /\ span_free_deferred' \in [Threads -> Spans \cup {None}]
      /\ mapped' \in 0 .. MaxSpans /\ full_span_count[t] \in Int
  BY <1>0, <1>1 DEF Types
<1>5. link' = link /\ partial[t] = <<>>
  BY <1>1 DEF InitializeNew, NeedsSpan
<1>6. Queued(t)' = Queued(t)
  BY <1>1, <1>5 DEF Queued, Follows
<1>7. Waiting(t)' = Waiting(t) \ {z} /\ Apart(cache[t], Queued(t))'
  BY <1>0, <1>2, <1>4, <1>6 DEF Waiting, Apart, HeapOk
<1>8. Ends(t)'
  BY <1>0, <1>5, <1>6 DEF HeapOk, Ends
<1>9. Mapped' = Mapped \cup {z}
  BY <1>1, <1>3 DEF Mapped
<1>10. full_span_count[t] = Cardinality((Own(t) \cup {z}) \ (cache'[t] \cup {z}))
  <2>1. Listed(t) = {}
    BY <1>5 DEF Listed
  <2>2. (Own(t) \cup {z}) \ (cache'[t] \cup {z}) = Full(t)
    BY <1>3, <1>4, <2>1 DEF Full
  <2> QED BY <1>0, <2>2 DEF HeapOk
<1> QED BY <1>1, <1>3, <1>4, <1>7, <1>8, <1>9, <1>10, NewSpanKeeps

(* All that were sent back are taken at once.                              *)
LEMMA FromDeferredKeeps ==
  ASSUME HeapInv, NEW t \in Threads, FromDeferred(t)
  PROVE  HeapInv'
<1>0. Types /\ HeapOk(t)
  BY DEF HeapInv
<1>1. PICK z, Q, count :
        /\ z = span_free_deferred[t] /\ Q = Queued(t) /\ count = full_span_count[t] - Cardinality(Q)
        /\ z # None /\ cache[t] = {} /\ NeedsSpan(t)
        /\ cache' = [cache EXCEPT ![t] = Q \ {z}] /\ InitializeNew(t, z, count)
        /\ span_free_deferred' = [span_free_deferred EXCEPT ![t] = None] /\ mapped' = mapped
  BY DEF FromDeferred
<1>2. Follows(Queued(t), t) /\ Q \in SUBSET Spans
  BY <1>0, <1>1, QueuedFollows
<1>3. z \in Q /\ Waiting(t) = Q
  BY <1>1, <1>2 DEF Follows, Waiting
<1>4. /\ z \in Mapped /\ z \in Spans /\ heap[z] = t /\ z \in Own(t)
      /\ \A u \in Threads : pc[u] = "idle" \/ Span(arg[u]) # z
      /\ \A b \in used : Span(b) # z
      /\ \A h \in Threads : h # t => z \notin Own(h)
      /\ \A h \in Threads : \A b \in class_free[h] : Span(b) # z
  BY <1>3, WaitingFree
<1>5. /\ cache' \in [Threads -> SUBSET Spans] /\ cache'[t] = Q \ {z}
      /\ span_free_deferred'[t] = None
      /\ \A h \in Threads \ {t} : cache'[h] = cache[h] /\ span_free_deferred'[h] = span_free_deferred[h]
      /\ span_free_deferred' \in [Threads -> Spans \cup {None}] /\ mapped' \in 0 .. MaxSpans
  BY <1>0, <1>1, <1>2 DEF Types
<1>6. Queued(t)' = {} /\ Ends(t)'
  BY <1>5, QueuedTaken
<1>7. Waiting(t)' = Waiting(t) \ {z} /\ Apart(cache[t], Queued(t))'
  BY <1>3, <1>5, <1>6 DEF Waiting, Apart
<1>8. Mapped' = Mapped \cup {z}
  BY <1>1, <1>4 DEF Mapped
<1>9. count \in Int /\ count = Cardinality((Own(t) \cup {z}) \ (cache'[t] \cup {z}))
  <2>1. Listed(t) = {}
    BY <1>1 DEF NeedsSpan, Listed
  <2>2. PICK F : F = Full(t) /\ F = Own(t)
    BY <1>1, <2>1 DEF Full
  <2>3. Q \subseteq F
    BY <1>0, <1>3, <2>2 DEF HeapOk
  <2>4. IsFiniteSet(F) /\ IsFiniteSet(Q) /\ Cardinality(Q) \in Nat
    <3>1. F \subseteq Mapped /\ Q \subseteq Mapped
      BY <2>2, <2>3 DEF Own
    <3> QED BY <1>0, <3>1, SpansFinite
  <2>5. Cardinality(F \ Q) = Cardinality(F) - Cardinality(Q)
    <3>1. F \cap Q = Q
      BY <2>3
    <3> QED BY <2>4, <3>1, FS_Difference
  <2>6. full_span_count[t] = Cardinality(F) /\ full_span_count[t] \in Int
    BY <1>0, <2>2, TypesOf DEF HeapOk
  <2>7. (Own(t) \cup {z}) \ (cache'[t] \cup {z}) = F \ Q
    BY <1>3, <1>4, <1>5, <2>2
  <2>8. count = full_span_count[t] - Cardinality(Q)
    BY <1>1
  <2>9. count \in Int
    BY <2>4, <2>6, <2>8
  <2>10. count = Cardinality(F \ Q)
    BY <2>5, <2>6, <2>8
  <2> QED BY <2>7, <2>9, <2>10
<1>10. NeedsSpan(t) /\ InitializeNew(t, z, count) /\ z \in Spans /\ count \in Int
  BY <1>1, <1>4, <1>9
<1> QED BY <1>4, <1>5, <1>6, <1>7, <1>8, <1>9, <1>10, NewSpanKeeps

(* Filling the class from a span that was mapped just now.                 *)
LEMMA MapSpanKeeps ==
  ASSUME HeapInv, NEW t \in Threads, MapSpan(t)
  PROVE  HeapInv'
<1>0. Types /\ HeapOk(t) /\ Mapped \subseteq Spans /\ mapped \in 0 .. MaxSpans
  BY TypesOf DEF HeapInv
<1>1. PICK z : z = mapped + 1
  OBVIOUS
<1>2. /\ NeedsSpan(t) /\ cache[t] = {} /\ mapped < MaxSpans /\ mapped' = z
      /\ InitializeNew(t, z, full_span_count[t])
      /\ cache' = cache /\ span_free_deferred' = span_free_deferred
  BY <1>1 DEF MapSpan
<1>3. z \in Spans /\ z \notin Mapped /\ Mapped' = Mapped \cup {z} /\ mapped' \in 0 .. MaxSpans
  BY <1>0, <1>1, <1>2, RpMallocAssumption DEF Spans, Mapped
<1>4. \A h \in Threads : HeapOk(h) /\ z \notin Own(h)
  BY <1>3 DEF HeapInv, Own
<1>5. \A u \in Threads : pc[u] = "idle" \/ Span(arg[u]) # z
  BY <1>3 DEF HeapInv, CallOk
<1>6. \A b \in used : Span(b) # z
  BY <1>3 DEF HeapInv
<1>7. \A h \in Threads : \A b \in class_free[h] : Span(b) # z
  BY <1>4 DEF HeapOk
<1>8. link' = link /\ partial[t] = <<>>
  BY <1>2 DEF InitializeNew, NeedsSpan
<1>9. Queued(t)' = Queued(t) /\ Waiting(t)' = Waiting(t)
  BY <1>2, <1>8 DEF Queued, Follows, Waiting
<1>10. z \notin Waiting(t)
  BY <1>0, <1>4 DEF HeapOk
<1>11. Waiting(t)' = Waiting(t) \ {z} /\ Apart(cache[t], Queued(t))' /\ Ends(t)'
  BY <1>0, <1>2, <1>8, <1>9, <1>10 DEF HeapOk, Apart, Ends
<1>12. /\ cache' \in [Threads -> SUBSET Spans] /\ span_free_deferred' \in [Threads -> Spans \cup {None}]
       /\ \A h \in Threads \ {t} : cache'[h] = cache[h] /\ span_free_deferred'[h] = span_free_deferred[h]
       /\ full_span_count[t] \in Int
  BY <1>0, <1>2 DEF Types
<1>13. full_span_count[t] = Cardinality((Own(t) \cup {z}) \ (cache'[t] \cup {z}))
  <2>1. Listed(t) = {}
    BY <1>8 DEF Listed
  <2>2. (Own(t) \cup {z}) \ (cache'[t] \cup {z}) = Full(t)
    BY <1>2, <1>4, <2>1 DEF Full
  <2> QED BY <1>0, <2>2 DEF HeapOk
<1> QED BY <1>2, <1>3, <1>4, <1>5, <1>6, <1>7, <1>11, <1>12, <1>13, NewSpanKeeps

-----------------------------------------------------------------------------
(* A heap is used by the threads with its thread's id; of those one is     *)
(* there at a time.                                                        *)
LEMMA OtherHeaps ==
  ASSUME HeapInv, NEW t \in Threads, phase[t] = "live", NEW h \in Threads, thread_id[h] = thread_id[t],
         \A g \in Threads \ {h} : partial'[g] = partial[g]
  PROVE  \A u \in Threads \ {t} : phase[u] = "live" => partial'[u] = partial[u]
<1> SUFFICES ASSUME NEW u \in Threads \ {t}, phase[u] = "live" PROVE u # h
  OBVIOUS
<1> QED BY DEF HeapInv, OneById

(* A span comes back: its owner puts it into the cache.                    *)
LEMMA ReleaseKeeps ==
  ASSUME HeapInv, NEW t \in Threads, phase[t] = "live", NEW z \in Mapped, z \in Spans,
         NEW h \in Threads, h = heap[z], IsOwner(t, z), ~ Away(z),
         OnlyBy(t), pc'[t] = "idle", pc[t] = "idle" \/ (pc[t] = "sync" /\ Span(arg[t]) = z), phase' = phase,
         pc' \in [Threads -> {"idle", "sync"} \cup Flying \cup Pushing],
         arg' \in [Threads -> Blocks \cup {NoBlock}],
         NEW list \in Seq(Spans), NoneTwice(list), InSeq(list) = Listed(h) \cup {z},
         ReleaseSpan(h, z, list),
         full_span_count' \in [Threads -> Int], full_span_count'[h] = Cardinality(Full(h) \ {z}),
         \A g \in Threads \ {h} : full_span_count'[g] = full_span_count[g],
         used' \subseteq used, \A b : Span(b) # z => (b \in used' <=> b \in used),
         InUse(z)' = {}, InClass(z) = {}, At(z, Flying) = {},
         free_list' \in [Spans -> SUBSET Indices], used_count' \in [Spans -> Int],
         \A s \in Spans \ {z} : free_list'[s] = free_list[s] /\ used_count'[s] = used_count[s],
         UNCHANGED <<mapped, heap, free_list_limit, class_free>>, UNCHANGED <<sharedVars, spanList>>
  PROVE  HeapInv'
<1>0. Types /\ OneHolder /\ HeapOk(h) /\ SpanOk(z)
  BY DEF HeapInv
<1>1. LockOk(z) /\ AwayOk(z) /\ At(z, Pushing) = {} /\ z \notin Waiting(h) /\ z \in Own(h)
  BY <1>0 DEF SpanOk, Away, Own
<1>2. PICK r : r = Without(list, z)
  OBVIOUS
<1>3. r \in Seq(Spans) /\ NoneTwice(r) /\ InSeq(r) = Listed(h) \ {z}
  BY <1>2, TakenOut
<1>4. partial' = [partial EXCEPT ![h] = r] /\ cache' = [cache EXCEPT ![h] = @ \cup {z}]
  BY <1>2 DEF ReleaseSpan
<1>5. /\ partial' \in [Threads -> Seq(Spans)] /\ partial'[h] = r
      /\ cache' \in [Threads -> SUBSET Spans] /\ cache'[h] = cache[h] \cup {z}
      /\ \A g \in Threads \ {h} : partial'[g] = partial[g] /\ cache'[g] = cache[g]
  BY <1>0, <1>3, <1>4 DEF Types
<1>6. Listed(h)' = Listed(h) \ {z}
  <2>1. Listed(h)' = InSeq(partial'[h])
    BY DEF Listed, InSeq
  <2> QED BY <1>3, <1>5, <2>1
<1>7. /\ link' = link /\ span_free_deferred' = span_free_deferred
      /\ deferred' = deferred /\ locked' = locked /\ list_size' = list_size
      /\ Mapped' = Mapped /\ \A g : Own(g)' = Own(g) /\ Queued(g)' = Queued(g)
  BY DEF spanList, sharedVars, Mapped, Own, Queued, Follows
<1>8. Waiting(h)' = Waiting(h) \cup {z}
  BY <1>5, <1>7 DEF Waiting
<1>9. \A g \in Threads \ {h} : Listed(g)' = Listed(g) /\ Waiting(g)' = Waiting(g)
  BY <1>5, <1>7 DEF Listed, Waiting
<1>10. Touched(t, z)
  <2>1. ASSUME NEW g \in Threads, NEW s \in Spans \ {z}
        PROVE  ((s \in Listed(g))' <=> s \in Listed(g)) /\ ((s \in Waiting(g))' <=> s \in Waiting(g))
    <3>1. CASE g = h
      BY <1>6, <1>8, <3>1
    <3>2. CASE g # h
      BY <1>9, <3>2
    <3> QED BY <3>1, <3>2
  <2> QED BY <1>7, <2>1 DEF Touched
<1>11. Types'
  <2>1. used' \subseteq Blocks /\ mapped' \in 0 .. MaxSpans /\ phase' \in [Threads -> {"new", "live", "gone"}]
        /\ heap' \in [Spans -> Threads \cup {None}] /\ free_list_limit' \in [Spans -> 0 .. block_count]
        /\ class_free' \in [Threads -> SUBSET Blocks]
    BY <1>0 DEF Types
  <2>2. /\ deferred' \in [Spans -> SUBSET Indices] /\ locked' \in [Spans -> BOOLEAN]
        /\ list_size' \in [Spans -> Int] /\ link' \in [Spans -> Spans \cup {None}]
        /\ span_free_deferred' \in [Threads -> Spans \cup {None}]
    BY <1>0, <1>7 DEF Types
  <2> QED BY <1>5, <2>1, <2>2 DEF Types
<1>12. /\ At(z, Flying)' = {} /\ At(z, Pushing)' = {} /\ At(z, Holding)' = At(z, Holding)
  <2>1. pc[t] \notin Flying \cup Pushing \cup Holding /\ pc'[t] \notin Flying \cup Pushing \cup Holding
    BY DEF Flying, Filling, Pushing, Holding, Storing
  <2> QED BY <1>1, <2>1, StaysOut
<1>13. SpanOk(z)'
  <2>1. heap'[z] = h
    OBVIOUS
  <2>2. Waiting(heap[z])' = Waiting(h)' /\ Listed(heap[z])' = Listed(h)'
    BY <2>1 DEF Waiting, Queued, Follows, Listed
  <2>3. Away(z)'
    BY <1>8, <2>2 DEF Away
  <2>4. InClass(z)' = {}
    BY DEF InClass
  <2>5. AwayOk(z)'
    BY <1>6, <1>12, <2>2, <2>4 DEF AwayOk
  <2>6. LockOk(z)'
    BY <1>1, <1>7, <1>12 DEF LockOk
  <2> QED BY <2>1, <2>3, <2>5, <2>6 DEF SpanOk
<1>14. \A u \in Threads \ {t} :
         /\ phase[u] = "live" => partial'[u] = partial[u]
         /\ pc[u] # "idle" /\ Span(arg[u]) = z => FillOk(u)' /\ SyncOk(u)'
  <2>1. thread_id[h] = thread_id[t]
    BY DEF IsOwner
  <2>2. \A u \in Threads \ {t} : phase[u] = "live" => partial'[u] = partial[u]
    BY <1>5, <2>1, OtherHeaps
  <2>3. \A u \in Threads \ {t} : pc[u] # "idle" /\ Span(arg[u]) = z => FillOk(u)' /\ SyncOk(u)'
    BY OthersAway
  <2> QED BY <2>2, <2>3
<1>15. CallOk(t)' /\ FillOk(t)' /\ SyncOk(t)'
  BY DEF CallOk, FillOk, SyncOk, Filling
<1>16. OneHolder'
  BY <1>0, HolderMoves DEF Flying, Filling, Storing
<1>17. ASSUME NEW g \in Threads PROVE HeapOk(g)'
  <2>1. HeapOk(g)
    BY DEF HeapInv
  <2>2. CASE g # h
    BY <1>0, <1>5, <1>7, <2>1, <2>2, HeapSame
  <2>3. CASE g = h
    <3>1. (\A b \in class_free[h] : Span(b) \in Own(h))'
      BY <1>0, <1>7 DEF HeapOk
    <3>2. (Listed(h) \cup Waiting(h) \subseteq Own(h))' /\ Apart(cache[h], Queued(h))'
      BY <1>0, <1>1, <1>5, <1>6, <1>7, <1>8 DEF HeapOk, Apart, Waiting
    <3>3. NoneTwice(partial[h])' /\ Ends(h)'
      BY <1>0, <1>3, <1>5, <1>7 DEF HeapOk, Ends
    <3>4. full_span_count'[h] = Cardinality(Full(h)')
      <4>1. Full(h)' = Full(h) \ {z}
        BY <1>5, <1>6, <1>7 DEF Full
      <4> QED BY <4>1
    <3> QED BY <2>3, <3>1, <3>2, <3>3, <3>4 DEF HeapOk
  <2> QED BY <2>2, <2>3
<1> QED BY <1>7, <1>10, <1>11, <1>13, <1>14, <1>15, <1>16, <1>17, StepKeeps

(* The thread that gave back the last block waits until nobody stores one. *)
LEMMA SynchronizeKeeps ==
  ASSUME HeapInv, NEW t \in Threads, Synchronize(t)
  PROVE  HeapInv'
<1>0. Types /\ SyncOk(t)
  BY DEF HeapInv
<1>1. PICK z \in Mapped : z \in Spans /\ Span(arg[t]) = z /\ SpanOk(z) /\ phase[t] = "live"
  BY CallAt DEF Synchronize
<1>2. PICK h \in Threads : h = heap[z]
  BY <1>1 DEF SpanOk
<1>3. /\ pc[t] = "sync" /\ ~ locked[z] /\ ReleaseSpan(h, z, partial[h])
      /\ pc' = [pc EXCEPT ![t] = "idle"] /\ arg' = [arg EXCEPT ![t] = NoBlock] /\ phase' = phase
      /\ UNCHANGED <<mapped, heap, free_list_limit, class_free>>
      /\ UNCHANGED <<used, full_span_count, free_list, used_count, sharedVars, spanList>>
  BY <1>1, <1>2 DEF Synchronize, Return, GoTo, ownerVars
<1>4. ~ Away(z) /\ IsOwner(t, z) /\ z \in Listed(h) /\ used_count[z] = list_size[z]
  BY <1>0, <1>1, <1>2, <1>3 DEF SyncOk
<1>5. Partition(z) /\ CountsOk(z) /\ LockOk(z)
  BY <1>1, <1>4 DEF SpanOk
<1>6. InUse(z) = {} /\ InClass(z) = {} /\ Held(z, Flying) \subseteq Stored(z)
  BY <1>0, <1>1, <1>4, <1>5, NoneOut
<1>7. At(z, Flying) = {}
  <2>1. At(z, Storing) \subseteq At(z, Holding) /\ At(z, Holding) = {}
    BY <1>3, <1>5 DEF LockOk, At, Storing, Holding
  <2>2. Stored(z) = deferred[z]
    BY <2>1 DEF Stored, Held
  <2>3. Held(z, Flying) = {}
    BY <1>5, <1>6, <2>2 DEF Partition, Apart
  <2> QED BY <2>3 DEF Held
<1>8. OnlyBy(t) /\ pc'[t] = "idle"
  BY <1>0, <1>3, OnlyByOne
<1>9. pc' \in [Threads -> {"idle", "sync"} \cup Flying \cup Pushing] /\ arg' \in [Threads -> Blocks \cup {NoBlock}]
      /\ full_span_count' \in [Threads -> Int]
      /\ free_list' \in [Spans -> SUBSET Indices] /\ used_count' \in [Spans -> Int]
  BY <1>0, <1>3 DEF Types
<1>10. partial[h] \in Seq(Spans) /\ NoneTwice(partial[h]) /\ InSeq(partial[h]) = Listed(h) \cup {z}
       /\ full_span_count'[h] = Cardinality(Full(h) \ {z})
  <2>1. HeapOk(h) /\ Full(h) \ {z} = Full(h)
    BY <1>4 DEF HeapInv, Full
  <2> QED BY <1>0, <1>3, <1>4, <2>1, TypesOf, ListedIs DEF HeapOk
<1>11. InUse(z)' = {}
  BY <1>3, <1>6 DEF InUse
<1> QED BY <1>1, <1>2, <1>3, <1>4, <1>6, <1>7, <1>8, <1>9, <1>10, <1>11, ReleaseKeeps

(* Blocks of a span that are linked and not in its free list.              *)
Out(s) == (1 .. free_list_limit[s]) \ free_list[s]

(* Blocks that are not free in the span are among those it counts as out.  *)
LEMMA OutHolds ==
  ASSUME Types, NEW z \in Spans, Partition(z)
  PROVE  /\ InUse(z) \cup InClass(z) \cup Held(z, Flying) \cup deferred[z] \subseteq Out(z)
         /\ Out(z) \subseteq Indices
<1>1. free_list[z] \in SUBSET Indices /\ deferred[z] \in SUBSET Indices
      /\ free_list_limit[z] \in 0 .. block_count
  BY TypesOf
<1>2. PICK l \in 0 .. block_count : l = free_list_limit[z]
  BY <1>1
<1>3. Unlinked(z) = Indices \ (1 .. l) /\ 1 .. l \subseteq Indices
  BY <1>2, RpMallocAssumption DEF Unlinked, Indices
<1>4. Out(z) = (1 .. l) \ free_list[z]
  BY <1>2 DEF Out
<1> QED BY <1>1, <1>3, <1>4 DEF Partition, Apart

(* A block of a thread's own heap is put into its span's list, the span    *)
(* into the list of partial spans if it was full.                          *)
LEMMA FreeDirectStays ==
  ASSUME HeapInv, NEW t \in Threads, phase[t] = "live", pc[t] = "idle",
         NEW z \in Mapped, z \in Spans, NEW i \in Indices, NEW h \in Threads, h = heap[z],
         SpanOk(z), IsOwner(t, z), ~ Away(z), i \in InUse(z),
         used' = used \ {<<z, i>>},
         free_list' \in [Spans -> SUBSET Indices], free_list'[z] = free_list[z] \cup {i},
         used_count' \in [Spans -> Int], used_count'[z] = used_count[z] - 1,
         \A s \in Spans \ {z} : free_list'[s] = free_list[s] /\ used_count'[s] = used_count[s],
         NEW list \in Seq(Spans), NoneTwice(list), InSeq(list) = Listed(h) \cup {z},
         partial' = [partial EXCEPT ![h] = list],
         full_span_count' \in [Threads -> Int], full_span_count'[h] = Cardinality(Full(h) \ {z}),
         \A g \in Threads \ {h} : full_span_count'[g] = full_span_count[g],
         phase' = phase, OnlyBy(t), NEW place \in {"idle", "sync"}, pc'[t] = place,
         pc' \in [Threads -> {"idle", "sync"} \cup Flying \cup Pushing],
         arg' \in [Threads -> Blocks \cup {NoBlock}],
         place = "sync" => Span(arg'[t]) = z /\ used_count'[z] = list_size[z],
         UNCHANGED <<mapped, heap, free_list_limit, class_free, cache>>, UNCHANGED <<sharedVars, spanList>>
  PROVE  HeapInv'
<1>0. Types /\ OneHolder /\ HeapOk(h)
  BY DEF HeapInv
<1>1. LockOk(z) /\ AwayOk(z) /\ Partition(z) /\ CountsOk(z) /\ z \notin Waiting(h) /\ z \in Own(h)
      /\ At(z, Pushing) = {}
  BY DEF SpanOk, Away, Own
<1>2. /\ partial' \in [Threads -> Seq(Spans)] /\ partial'[h] = list
      /\ \A g \in Threads \ {h} : partial'[g] = partial[g]
  BY <1>0 DEF Types
<1>3. Listed(h)' = Listed(h) \cup {z}
  <2>1. Listed(h)' = InSeq(partial'[h])
    BY DEF Listed, InSeq
  <2> QED BY <1>2, <2>1
<1>4. /\ link' = link /\ span_free_deferred' = span_free_deferred
      /\ deferred' = deferred /\ locked' = locked /\ list_size' = list_size
      /\ Mapped' = Mapped /\ \A g : Own(g)' = Own(g) /\ Queued(g)' = Queued(g) /\ Waiting(g)' = Waiting(g)
  BY DEF spanList, sharedVars, Mapped, Own, Queued, Follows, Waiting
<1>5. \A g \in Threads \ {h} : Listed(g)' = Listed(g)
  BY <1>2 DEF Listed
<1>6. Touched(t, z)
  <2>1. \A b : Span(b) # z => (b \in used' <=> b \in used)
    BY DEF Span
  <2>2. pc'[t] = "idle" \/ Span(arg'[t]) = z
    OBVIOUS
  <2>3. \A g \in Threads, s \in Spans \ {z} :
          ((s \in Listed(g))' <=> s \in Listed(g)) /\ ((s \in Waiting(g))' <=> s \in Waiting(g))
    BY <1>3, <1>4, <1>5
  <2> QED BY <1>4, <2>1, <2>2, <2>3 DEF Touched
<1>7. Types'
  <2>1. used' \subseteq Blocks /\ mapped' \in 0 .. MaxSpans /\ phase' \in [Threads -> {"new", "live", "gone"}]
        /\ heap' \in [Spans -> Threads \cup {None}] /\ free_list_limit' \in [Spans -> 0 .. block_count]
        /\ class_free' \in [Threads -> SUBSET Blocks] /\ cache' \in [Threads -> SUBSET Spans]
    BY <1>0 DEF Types
  <2>2. /\ deferred' \in [Spans -> SUBSET Indices] /\ locked' \in [Spans -> BOOLEAN]
        /\ list_size' \in [Spans -> Int] /\ link' \in [Spans -> Spans \cup {None}]
        /\ span_free_deferred' \in [Threads -> Spans \cup {None}]
    BY <1>0, <1>4 DEF Types
  <2> QED BY <1>2, <2>1, <2>2 DEF Types
<1>8. /\ \A s : At(s, Flying)' = At(s, Flying) /\ Held(s, Flying)' = Held(s, Flying)
      /\ \A s : At(s, Filling)' = At(s, Filling) /\ At(s, Holding)' = At(s, Holding)
      /\ \A s : Held(s, Storing)' = Held(s, Storing)
      /\ \A s : At(s, {"storeLast"})' = At(s, {"storeLast"})
      /\ \A s : At(s, Pushing)' = At(s, Pushing)
  <2>1. /\ pc[t] \notin Flying \cup Filling \cup Pushing \cup Holding \cup Storing \cup {"storeLast"}
        /\ pc'[t] \notin Flying \cup Filling \cup Pushing \cup Holding \cup Storing \cup {"storeLast"}
    BY DEF Flying, Filling, Pushing, Holding, Storing
  <2> QED BY <2>1, StaysOut
<1>9. heap'[z] = h /\ Waiting(heap[z])' = Waiting(h) /\ Listed(heap[z])' = Listed(h)'
  <2>1. heap'[z] = h
    OBVIOUS
  <2>2. Waiting(heap[z])' = Waiting(h)' /\ Listed(heap[z])' = Listed(h)'
    BY <2>1 DEF Waiting, Queued, Follows, Listed
  <2> QED BY <1>4, <2>1, <2>2
<1>10. ~ Away(z)'
  BY <1>1, <1>8, <1>9 DEF Away
<1>11. InUse(z)' = InUse(z) \ {i} /\ InClass(z)' = InClass(z) /\ Unlinked(z)' = Unlinked(z)
  BY DEF InUse, InClass, Unlinked
<1>12. SpanOk(z)'
  <2>1. LockOk(z)'
    BY <1>1, <1>4, <1>8 DEF LockOk
  <2>2. AwayOk(z)'
    BY <1>1, <1>8, <1>9, <1>10 DEF AwayOk
  <2>3. Partition(z)'
    <3>1. PICK A, C, S, D, F, U : /\ A = InUse(z) /\ C = InClass(z) /\ S = free_list[z] /\ D = deferred[z]
                                  /\ F = Held(z, Flying) /\ U = Unlinked(z)
      OBVIOUS
    <3>2. /\ InUse(z)' = A \ {i} /\ InClass(z)' = C /\ free_list'[z] = S \cup {i} /\ deferred'[z] = D
          /\ Held(z, Flying)' = F /\ Unlinked(z)' = U /\ i \in A
      BY <1>4, <1>8, <1>11, <3>1
    <3>3. /\ A \cup C \cup S \cup D \cup F \cup U = Indices
          /\ Apart(A, C \cup S \cup D \cup F \cup U)
          /\ Apart(C, S \cup D \cup F \cup U) /\ Apart(S, D \cup F \cup U)
          /\ Apart(D, F \cup U) /\ Apart(F, U)
      BY <1>1, <3>1 DEF Partition
    <3>4. /\ (A \ {i}) \cup C \cup (S \cup {i}) \cup D \cup F \cup U = Indices
          /\ Apart(A \ {i}, C \cup (S \cup {i}) \cup D \cup F \cup U)
          /\ Apart(C, (S \cup {i}) \cup D \cup F \cup U) /\ Apart(S \cup {i}, D \cup F \cup U)
      BY <3>2, <3>3 DEF Apart
    <3> QED BY <3>2, <3>3, <3>4 DEF Partition
  <2>4. CountsOk(z)'
    <3>1. Stored(z)' = Stored(z)
      BY <1>4, <1>8 DEF Stored
    <3>2. PICK O : O = Out(z) /\ i \in O /\ O \subseteq Indices
      BY <1>0, <1>1, OutHolds
    <3>3. Out(z)' = O \ {i}
      BY <3>2 DEF Out
    <3>4. Cardinality(O \ {i}) = Cardinality(O) - 1
      <4>1. IsFiniteSet(O)
        BY <3>2, IndicesFinite
      <4> QED BY <3>2, <4>1, FS_RemoveElement
    <3>5. used_count[z] = Cardinality(O)
      BY <1>1, <3>2 DEF CountsOk, Out
    <3>6. used_count'[z] = Cardinality(Out(z)')
      BY <3>3, <3>4, <3>5
    <3> QED BY <1>1, <1>4, <1>8, <3>1, <3>6 DEF CountsOk, Out
  <2>5. PlaceOk(z)'
    <3>1. free_list'[z] # {}
      OBVIOUS
    <3>2. (z \in Listed(heap[z]))'
      BY <1>3, <1>9
    <3> QED BY <3>1, <3>2 DEF PlaceOk, IsFull
  <2> QED BY <1>9, <2>1, <2>2, <2>3, <2>4, <2>5 DEF SpanOk
<1>13. \A u \in Threads \ {t} :
         /\ phase[u] = "live" => partial'[u] = partial[u]
         /\ pc[u] # "idle" /\ Span(arg[u]) = z => FillOk(u)' /\ SyncOk(u)'
  <2>1. thread_id[h] = thread_id[t]
    BY DEF IsOwner
  <2>2. \A u \in Threads \ {t} : phase[u] = "live" => partial'[u] = partial[u]
    BY <1>2, <2>1, OtherHeaps
  <2>3. \A u \in Threads \ {t} : pc[u] # "idle" /\ Span(arg[u]) = z => FillOk(u)' /\ SyncOk(u)'
    BY OthersAway
  <2> QED BY <2>2, <2>3
<1>14. CallOk(t)' /\ FillOk(t)' /\ SyncOk(t)'
  <2>1. CallOk(t)' /\ FillOk(t)'
    BY <1>4 DEF CallOk, FillOk, Filling
  <2>2. CASE place = "idle"
    BY <2>1, <2>2 DEF SyncOk
  <2>3. CASE place = "sync"
    <3>1. Span(arg[t])' = z
      BY <2>3
    <3>2. /\ ~ Away(z)' /\ IsOwner(t, z)' /\ (z \in Listed(heap[z]))'
          /\ used_count'[z] = list_size'[z]
      BY <1>3, <1>4, <1>9, <1>10, <2>3 DEF IsOwner
    <3>3. SyncOk(t)'
      BY ONLY <3>1, <3>2 DEF SyncOk, Away, At, Waiting, Queued, Follows, IsOwner, Listed
    <3> QED BY <2>1, <3>3
  <2> QED BY <2>2, <2>3
<1>15. OneHolder'
  BY <1>0, HolderMoves DEF Flying, Filling, Storing
<1>16. ASSUME NEW g \in Threads PROVE HeapOk(g)'
  <2>1. HeapOk(g)
    BY DEF HeapInv
  <2>2. CASE g # h
    BY <1>0, <1>2, <1>4, <2>1, <2>2, HeapSame
  <2>3. CASE g = h
    <3>1. (\A b \in class_free[h] : Span(b) \in Own(h))'
      BY <1>0, <1>4 DEF HeapOk
    <3>2. (Listed(h) \cup Waiting(h) \subseteq Own(h))' /\ Apart(cache[h], Queued(h))'
      BY <1>0, <1>1, <1>3, <1>4 DEF HeapOk, Apart
    <3>3. NoneTwice(partial[h])' /\ Ends(h)'
      BY <1>0, <1>2, <1>4 DEF HeapOk, Ends
    <3>4. full_span_count'[h] = Cardinality(Full(h)')
      <4>1. Full(h)' = Full(h) \ {z}
        BY <1>3, <1>4 DEF Full
      <4> QED BY <4>1
    <3> QED BY <2>3, <3>1, <3>2, <3>3, <3>4 DEF HeapOk
  <2> QED BY <2>2, <2>3
<1> QED BY <1>4, <1>6, <1>7, <1>12, <1>13, <1>14, <1>15, <1>16, StepKeeps

(* A block freed by the thread that has its span.                          *)
LEMMA FreeDirectKeeps ==
  ASSUME HeapInv, NEW t \in Threads, NEW b \in used, FreeDirect(t, b)
  PROVE  HeapInv'
<1>0. Types
  BY DEF HeapInv
<1>1. PICK z \in Spans, i \in Indices : b = <<z, i>> /\ z = Span(b) /\ b[2] = i
  BY <1>0, BlockPair, TypesOf
<1>2. z \in Mapped /\ SpanOk(z) /\ i \in InUse(z)
  BY <1>1 DEF HeapInv, InUse
<1>3. PICK h \in Threads : h = heap[z]
  BY <1>2 DEF SpanOk
<1>4. /\ ~ Away(z) /\ Partition(z) /\ CountsOk(z) /\ PlaceOk(z) /\ AwayOk(z)
  BY <1>2 DEF SpanOk, AwayOk
<1>5. HeapOk(h) /\ z \in Own(h) /\ z \notin cache[h]
  BY <1>2, <1>3, <1>4 DEF HeapInv, Own, Away, Waiting
<1>6a. PICK wasFull \in BOOLEAN : wasFull = IsFull(free_list[z], z)
  <2>1. IsFull(free_list[z], z) \in BOOLEAN
    BY DEF IsFull
  <2> QED BY <2>1
<1>6b. PICK list : list = IF wasFull THEN <<z>> \o partial[h] ELSE partial[h]
  OBVIOUS
<1>6c. PICK count : count = (IF wasFull THEN block_count ELSE used_count[z]) - 1
  OBVIOUS
<1>6. /\ wasFull = IsFull(free_list[z], z)
      /\ list = IF wasFull THEN <<z>> \o partial[h] ELSE partial[h]
      /\ count = (IF wasFull THEN block_count ELSE used_count[z]) - 1
      /\ phase[t] = "live" /\ pc[t] = "idle" /\ IsOwner(t, z)
      /\ used' = used \ {b} /\ used_count' = [used_count EXCEPT ![z] = count]
      /\ free_list' = [free_list EXCEPT ![z] = @ \cup {i}]
      /\ full_span_count' = [full_span_count EXCEPT ![h] = IF wasFull THEN @ - 1 ELSE @]
      /\ IF count = list_size[z] /\ count = 0
         THEN ReleaseSpan(h, z, list) /\ UNCHANGED <<phase, pc, arg>>
         ELSE /\ partial' = [partial EXCEPT ![h] = list] /\ UNCHANGED cache
              /\ IF count = list_size[z] THEN GoTo(t, "sync", b) ELSE UNCHANGED <<phase, pc, arg>>
      /\ UNCHANGED <<mapped, heap, free_list_limit, class_free>> /\ UNCHANGED <<sharedVars, spanList>>
  BY <1>1, <1>3, <1>6a, <1>6b, <1>6c DEF FreeDirect, Idle
<1>7. free_list[z] \in SUBSET Indices /\ free_list_limit[z] \in 0 .. block_count
      /\ used_count[z] \in Int /\ list_size[z] \in Int
      /\ partial[h] \in Seq(Spans) /\ full_span_count[h] \in Int
  BY <1>0, TypesOf
<1>8. count = used_count[z] - 1 /\ count \in Int
  <2>1. CASE wasFull
    <3>1. free_list[z] = {} /\ free_list_limit[z] = block_count
      <4>1. IsFull(free_list[z], z)
        BY <1>6, <2>1
      <4>2. free_list[z] = {} /\ free_list_limit[z] >= block_count
        BY <4>1 DEF IsFull
      <4> QED BY <1>7, <4>2, RpMallocAssumption
    <3>2. Out(z) = 1 .. block_count
      BY <3>1 DEF Out
    <3>3. used_count[z] = block_count
      BY <1>4, <3>2, IndicesFinite DEF CountsOk, Out, Indices
    <3> QED BY <1>6, <1>7, <2>1, <3>3
  <2>2. CASE ~ wasFull
    BY <1>6, <1>7, <2>2
  <2> QED BY <2>1, <2>2
<1>9. At(z, Filling) = {}
  <2> SUFFICES ASSUME NEW u \in At(z, Filling) PROVE FALSE
    OBVIOUS
  <2>1. u \in Threads /\ pc[u] \in Filling /\ Span(arg[u]) = z
    BY DEF At
  <2>2. u = t
    BY <1>6, <2>1, OneOwner DEF HeapInv
  <2> QED BY <1>6, <2>1, <2>2 DEF Filling
<1>10. z \in Listed(h) <=> ~ wasFull
  BY <1>3, <1>4, <1>6, <1>9 DEF PlaceOk
<1>11. list \in Seq(Spans) /\ NoneTwice(list) /\ InSeq(list) = Listed(h) \cup {z}
  <2>1. NoneTwice(partial[h]) /\ Listed(h) = InSeq(partial[h])
    BY <1>5, ListedIs DEF HeapOk
  <2>2. CASE wasFull
    <3>1. z \notin InSeq(partial[h])
      BY <1>10, <2>1, <2>2
    <3>2. /\ <<z>> \o partial[h] \in Seq(Spans) /\ NoneTwice(<<z>> \o partial[h])
          /\ InSeq(<<z>> \o partial[h]) = InSeq(partial[h]) \cup {z}
      BY <1>7, <2>1, <3>1, PutFirst
    <3> QED BY <1>6, <2>1, <2>2, <3>2
  <2>3. CASE ~ wasFull
    BY <1>6, <1>7, <1>10, <2>1, <2>3
  <2> QED BY <2>2, <2>3
<1>12. /\ full_span_count' \in [Threads -> Int] /\ full_span_count'[h] = Cardinality(Full(h) \ {z})
       /\ \A g \in Threads \ {h} : full_span_count'[g] = full_span_count[g]
  <2>1. /\ full_span_count' \in [Threads -> Int]
        /\ full_span_count'[h] = (IF wasFull THEN full_span_count[h] - 1 ELSE full_span_count[h])
        /\ \A g \in Threads \ {h} : full_span_count'[g] = full_span_count[g]
    BY <1>0, <1>6 DEF Types
  <2>2. PICK F : F = Full(h) /\ IsFiniteSet(F) /\ (z \in F <=> wasFull)
    <3>1. Full(h) \subseteq Mapped
      BY DEF Full, Own
    <3>2. IsFiniteSet(Full(h))
      BY <1>0, <3>1, SpansFinite
    <3> QED BY <1>5, <1>10, <3>2 DEF Full
  <2>3. Cardinality(F \ {z}) = IF wasFull THEN Cardinality(F) - 1 ELSE Cardinality(F)
    BY <2>2, FS_RemoveElement
  <2>4. full_span_count[h] = Cardinality(F)
    BY <1>5, <2>2 DEF HeapOk
  <2> QED BY <2>1, <2>2, <2>3, <2>4
<1>13. /\ free_list' \in [Spans -> SUBSET Indices] /\ free_list'[z] = free_list[z] \cup {i}
       /\ used_count' \in [Spans -> Int] /\ used_count'[z] = used_count[z] - 1
       /\ \A s \in Spans \ {z} : free_list'[s] = free_list[s] /\ used_count'[s] = used_count[s]
  BY <1>0, <1>6, <1>8 DEF Types
<1>14. CASE count = list_size[z] /\ count = 0
  <2>1. ReleaseSpan(h, z, list) /\ UNCHANGED <<phase, pc, arg>>
    BY <1>6, <1>14
  <2>2. Out(z) = {i}
    <3>1. PICK O : O = Out(z) /\ i \in O /\ O \subseteq Indices
      BY <1>0, <1>2, <1>4, OutHolds
    <3>2. Cardinality(O) = 1 /\ IsFiniteSet(O)
      BY <1>4, <1>7, <1>8, <1>14, <3>1, IndicesFinite DEF CountsOk, Out
    <3>3. Cardinality(O \ {i}) = 0 /\ IsFiniteSet(O \ {i})
      BY <3>1, <3>2, FS_RemoveElement
    <3>4. O \ {i} = {}
      BY <3>3, FS_EmptySet
    <3> QED BY <3>1, <3>4
  <2>3. InUse(z) \cup InClass(z) \cup Held(z, Flying) \cup deferred[z] \subseteq {i}
    BY <1>0, <1>4, <2>2, OutHolds
  <2>4. InClass(z) = {} /\ Held(z, Flying) = {}
    BY <1>2, <1>4, <2>3 DEF Partition, Apart
  <2>5. At(z, Flying) = {}
    BY <2>4 DEF Held
  <2>6. InUse(z)' = {} /\ used' \subseteq used /\ \A c : Span(c) # z => (c \in used' <=> c \in used)
    <3>1. \A j \in Indices : <<z, j>> \in used' => <<z, j>> \in used /\ j # i
      BY <1>1, <1>6
    <3>2. InUse(z)' = {}
      BY <2>3, <3>1 DEF InUse
    <3> QED BY <1>1, <1>6, <3>2
  <2>7. OnlyBy(t) /\ pc'[t] = "idle" /\ phase' = phase
        /\ pc' \in [Threads -> {"idle", "sync"} \cup Flying \cup Pushing]
        /\ arg' \in [Threads -> Blocks \cup {NoBlock}]
    BY <1>0, <1>6, <2>1 DEF OnlyBy, Types
  <2>8. /\ phase[t] = "live" /\ pc[t] = "idle" /\ IsOwner(t, z) /\ ReleaseSpan(h, z, list)
        /\ UNCHANGED <<mapped, heap, free_list_limit, class_free>> /\ UNCHANGED <<sharedVars, spanList>>
    BY <1>6, <2>1
  <2>9. /\ z \in Mapped /\ ~ Away(z) /\ h = heap[z]
        /\ \A s \in Spans \ {z} : free_list'[s] = free_list[s] /\ used_count'[s] = used_count[s]
        /\ free_list' \in [Spans -> SUBSET Indices] /\ used_count' \in [Spans -> Int]
    BY <1>2, <1>3, <1>4, <1>13
  <2> QED BY <1>11, <1>12, <2>4, <2>5, <2>6, <2>7, <2>8, <2>9, ReleaseKeeps
<1>15. CASE ~ (count = list_size[z] /\ count = 0)
  <2>1. /\ partial' = [partial EXCEPT ![h] = list] /\ cache' = cache
        /\ IF count = list_size[z] THEN GoTo(t, "sync", b) ELSE UNCHANGED <<phase, pc, arg>>
    BY <1>6, <1>15
  <2>2. PICK place \in {"idle", "sync"} :
          /\ pc'[t] = place /\ OnlyBy(t) /\ phase' = phase
          /\ pc' \in [Threads -> {"idle", "sync"} \cup Flying \cup Pushing]
          /\ arg' \in [Threads -> Blocks \cup {NoBlock}]
          /\ place = "sync" => Span(arg'[t]) = z /\ used_count'[z] = list_size[z]
    <3>1. CASE count = list_size[z]
      <4>1. pc' = [pc EXCEPT ![t] = "sync"] /\ arg' = [arg EXCEPT ![t] = b] /\ phase' = phase
        BY <2>1, <3>1 DEF GoTo
      <4>2. pc'[t] = "sync" /\ OnlyBy(t) /\ arg'[t] = b
        BY <1>0, <4>1, OnlyByOne
      <4>3. pc' \in [Threads -> {"idle", "sync"} \cup Flying \cup Pushing]
            /\ arg' \in [Threads -> Blocks \cup {NoBlock}]
        <5>1. b \in Blocks
          BY <1>0, TypesOf
        <5> QED BY <1>0, <4>1, <5>1 DEF Types
      <4>4. Span(arg'[t]) = z /\ used_count'[z] = list_size[z]
        BY <1>1, <1>8, <1>13, <3>1, <4>2
      <4> QED BY <4>1, <4>2, <4>3, <4>4
    <3>2. CASE count # list_size[z]
      <4>1. UNCHANGED <<phase, pc, arg>>
        BY <2>1, <3>2
      <4> QED BY <1>0, <1>6, <4>1 DEF OnlyBy, Types
    <3> QED BY <3>1, <3>2
  <2>3. UNCHANGED <<mapped, heap, free_list_limit, class_free, cache>> /\ used' = used \ {<<z, i>>}
        /\ phase[t] = "live" /\ pc[t] = "idle" /\ IsOwner(t, z) /\ UNCHANGED <<sharedVars, spanList>>
    BY <1>1, <1>6, <2>1
  <2> QED BY <1>2, <1>3, <1>4, <1>11, <1>12, <1>13, <2>1, <2>2, <2>3, FreeDirectStays
<1> QED BY <1>14, <1>15

-----------------------------------------------------------------------------
(* Nothing is mapped in the beginning.                                     *)
LEMMA InitHolds == Init => HeapInv
<1> SUFFICES ASSUME Init PROVE HeapInv
  OBVIOUS
<1> USE DEF Init
<1>1. Mapped = {}
  BY DEF Mapped
<1>2. ASSUME NEW h \in Threads PROVE HeapOk(h)
  <2>1. Listed(h) = {}
    BY DEF Listed
  <2>2. Follows({}, h)
    BY DEF Follows
  <2>3. Queued(h) = {}
    BY <2>2 DEF Queued
  <2>4. Full(h) = {} /\ Waiting(h) = {} /\ Own(h) = {} /\ Ends(h)
    BY <1>1, <2>3 DEF Full, Waiting, Own, Ends
  <2>5. Cardinality(Full(h)) = 0
    BY <2>4, FS_EmptySet
  <2>6. NoneTwice(partial[h])
    BY NoSpans
  <2>7. Apart(cache[h], Queued(h))
    BY <2>3 DEF Apart
  <2>8. class_free[h] = {} /\ full_span_count[h] = 0
    OBVIOUS
  <2> QED BY <2>1, <2>4, <2>5, <2>6, <2>7, <2>8 DEF HeapOk
<1>3. ASSUME NEW t \in Threads PROVE CallOk(t) /\ FillOk(t) /\ SyncOk(t)
  BY DEF CallOk, FillOk, SyncOk, Filling
<1>4. OneById /\ OneHolder
  BY DEF OneById, OneHolder, Flying, Filling, Storing
<1>5. Types
  <2>1. partial \in [Threads -> Seq(Spans)]
    BY NoSpans
  <2>2. /\ free_list_limit \in [Spans -> 0 .. block_count] /\ mapped \in 0 .. MaxSpans
    BY RpMallocAssumption
  <2> QED BY <2>1, <2>2 DEF Types
<1> QED BY <1>1, <1>2, <1>3, <1>4, <1>5 DEF HeapInv

(* Every step keeps the invariant.                                         *)
LEMMA NextKeeps == HeapInv /\ [Next]_vars => HeapInv'
<1> SUFFICES ASSUME HeapInv, [Next]_vars PROVE HeapInv'
  OBVIOUS
<1>1. ASSUME UNCHANGED vars PROVE HeapInv'
  <2>1. /\ UNCHANGED <<pc, arg, used, localVars, ownerVars, sharedVars, spanList>> /\ phase' = phase
    BY <1>1 DEF vars, threadVars, localVars, ownerVars, sharedVars, spanList
  <2>2. phase' \in [Threads -> {"new", "live", "gone"}]
    BY <2>1 DEF HeapInv, Types
  <2>3. OneById'
    BY <2>1 DEF HeapInv, OneById
  <2>4. \A t \in Threads : CallOk(t)'
    BY <2>1 DEF HeapInv, CallOk, Mapped, localVars
  <2> QED BY <2>1, <2>2, <2>3, <2>4, PhaseKeeps
<1>2. CASE Over
  BY <1>1, <1>2 DEF Over
<1>3. ASSUME NEW t \in Threads, Start(t) \/ Exit(t) PROVE HeapInv'
  BY <1>3, StartKeeps, ExitKeeps
<1>4. ASSUME NEW t \in Threads, Alloc(t) PROVE HeapInv'
  <2>1. CASE PopBlock(t) \/ UsePartial(t)
    BY <2>1, PopBlockKeeps, UsePartialKeeps
  <2>2. CASE LookDeferred(t) \/ Extract(t) \/ Swap(t)
    BY <2>2, LookDeferredKeeps, ExtractKeeps, SwapKeeps
  <2>3. CASE FromCache(t) \/ FromDeferred(t) \/ MapSpan(t)
    BY <2>3, FromCacheKeeps, FromDeferredKeeps, MapSpanKeeps
  <2> QED BY <1>4, <2>1, <2>2, <2>3 DEF Alloc
<1>5. ASSUME NEW t \in Threads, Free(t) PROVE HeapInv'
  <2>1. CASE \E b \in used : FreeDirect(t, b) \/ FreeDeferred(t, b)
    BY <2>1, FreeDirectKeeps, FreeDeferredKeeps
  <2>2. CASE Synchronize(t)
    BY <2>2, SynchronizeKeeps
  <2>3. CASE Count(t) \/ Store(t)
    BY <2>3, CountKeeps, StoreKeeps
  <2>4. CASE LoadFirst(t) \/ PushSpan(t)
    BY <2>4, LoadFirstKeeps, PushSpanKeeps
  <2> QED BY <1>5, <2>1, <2>2, <2>3, <2>4 DEF Free
<1> QED BY <1>1, <1>2, <1>3, <1>4, <1>5 DEF Next

(* Heaps stay whole: each block of a span in use is in one place, the      *)
(* counts say how many are where, and a span that came back is in one list *)
(* with nothing of it in use (_rpmalloc_deallocate_defer_small_or_medium   *)
(* and _rpmalloc_deallocate_direct_small_or_medium on any threads at once). *)
THEOREM HeapsAreWhole == Spec => []HeapInv
<1> QED BY InitHolds, NextKeeps, PTL DEF Spec

-----------------------------------------------------------------------------
(* A retired span is one that came back, or is being sent.                 *)
LEMMA RetiredIs ==
  ASSUME HeapInv, NEW s \in Mapped
  PROVE  s \in Retired <=> Away(s)
<1>1. SpanOk(s) /\ \A h \in Threads : Waiting(h) \subseteq Own(h)
  BY DEF HeapInv, HeapOk
<1>2. s \in Sending <=> At(s, Pushing) # {}
  BY DEF Sending, At, Pushing
<1>3. s \in UNION {cache[h] \cup Queued(h) : h \in Threads} <=> \E h \in Threads : s \in Waiting(h)
  BY DEF Waiting
<1>4. (\E h \in Threads : s \in Waiting(h)) <=> s \in Waiting(heap[s])
  BY <1>1 DEF Own, SpanOk
<1> QED BY <1>2, <1>3, <1>4 DEF Retired, Away

(* A block in flight is one that a call holds.                             *)
LEMMA InFlightIs ==
  ASSUME HeapInv, NEW s, NEW i \in Indices
  PROVE  <<s, i>> \in InFlight <=> i \in Held(s, Flying)
<1>0. Flying = {"look", "extract", "swap", "count", "store", "storeLast"}
  BY DEF Flying, Filling, Storing
<1>1. ASSUME NEW t \in Threads, pc[t] \in Flying
      PROVE  arg[t] = <<s, i>> <=> Span(arg[t]) = s /\ arg[t][2] = i
  <2>1. PICK z \in Mapped, j \in Indices : arg[t] = <<z, j>> /\ Span(arg[t]) = z /\ arg[t][2] = j
    <3>1. pc[t] # "idle"
      BY <1>0, <1>1
    <3> QED BY <3>1, CallAt
  <2> QED BY <2>1
<1>2. <<s, i>> \in InFlight <=> \E t \in Threads : pc[t] \in Flying /\ arg[t] = <<s, i>>
  BY <1>0 DEF InFlight
<1>3. i \in Held(s, Flying) <=> \E t \in Threads : pc[t] \in Flying /\ Span(arg[t]) = s /\ arg[t][2] = i
  BY DEF Held, At
<1> QED BY <1>1, <1>2, <1>3

(* Whole heaps have each block in one place.                               *)
LEMMA WholeBlocks == HeapInv => BlocksInOnePlace
<1> SUFFICES ASSUME HeapInv, NEW s \in Mapped, NEW i \in Indices
    PROVE LET b == <<s, i>>
              places == {p \in {"used", "class", "span", "deferred", "flight", "unlinked"} :
                     \/ p = "used"     /\ b \in used
                     \/ p = "class"    /\ b \in class_free[heap[s]]
                     \/ p = "span"     /\ i \in free_list[s]
                     \/ p = "deferred" /\ i \in deferred[s]
                     \/ p = "flight"   /\ b \in InFlight
                     \/ p = "unlinked" /\ i > free_list_limit[s]}
          IN  IF s \in Retired THEN places \cap {"used", "class", "flight"} = {}
                               ELSE Cardinality(places) = 1
  BY DEF BlocksInOnePlace, Indices
<1> DEFINE places == {p \in {"used", "class", "span", "deferred", "flight", "unlinked"} :
                     \/ p = "used"     /\ <<s, i>> \in used
                     \/ p = "class"    /\ <<s, i>> \in class_free[heap[s]]
                     \/ p = "span"     /\ i \in free_list[s]
                     \/ p = "deferred" /\ i \in deferred[s]
                     \/ p = "flight"   /\ <<s, i>> \in InFlight
                     \/ p = "unlinked" /\ i > free_list_limit[s]}
<1>1. /\ <<s, i>> \in used <=> i \in InUse(s)
      /\ <<s, i>> \in class_free[heap[s]] <=> i \in InClass(s)
      /\ <<s, i>> \in InFlight <=> i \in Held(s, Flying)
  BY InFlightIs DEF InUse, InClass
<1>2. i > free_list_limit[s] <=> i \in Unlinked(s)
  <2>1. free_list_limit[s] \in 0 .. block_count
    BY TypesOf DEF HeapInv
  <2> QED BY <2>1, RpMallocAssumption DEF Unlinked, Indices
<1>3. SpanOk(s)
  BY DEF HeapInv
<1>4. CASE Away(s)
  <2>1. InUse(s) = {} /\ InClass(s) = {} /\ Held(s, Flying) = {}
    BY <1>3, <1>4 DEF SpanOk, AwayOk, Held
  <2>2. places \cap {"used", "class", "flight"} = {}
    BY <1>1, <2>1
  <2> QED BY <1>4, <2>2, RetiredIs
<1>5. CASE ~ Away(s)
  <2>1. Partition(s)
    BY <1>3, <1>5 DEF SpanOk
  <2>2. PICK A, C, S, D, F, U : /\ A = InUse(s) /\ C = InClass(s) /\ S = free_list[s] /\ D = deferred[s]
                                /\ F = Held(s, Flying) /\ U = Unlinked(s)
    OBVIOUS
  <2>3. places = {p \in {"used", "class", "span", "deferred", "flight", "unlinked"} :
                    \/ p = "used" /\ i \in A
                    \/ p = "class" /\ i \in C
                    \/ p = "span" /\ i \in S
                    \/ p = "deferred" /\ i \in D
                    \/ p = "flight" /\ i \in F
                    \/ p = "unlinked" /\ i \in U}
    BY <1>1, <1>2, <2>2
  <2> HIDE DEF places
  <2>4. /\ A \cup C \cup S \cup D \cup F \cup U = Indices
        /\ A \cap (C \cup S \cup D \cup F \cup U) = {}
        /\ C \cap (S \cup D \cup F \cup U) = {} /\ S \cap (D \cup F \cup U) = {}
        /\ D \cap (F \cup U) = {} /\ F \cap U = {}
    BY <2>1, <2>2 DEF Partition, Apart
  <2>5. \E p : places = {p}
    <3>1. CASE i \in A
      <4>1. places = {"used"}
        <5>1. i \notin C /\ i \notin S /\ i \notin D /\ i \notin F /\ i \notin U
          BY <2>4, <3>1
        <5> QED BY <2>3, <3>1, <5>1
      <4> QED BY <4>1
    <3>2. CASE i \in C
      <4>1. places = {"class"}
        <5>1. i \notin A /\ i \notin S /\ i \notin D /\ i \notin F /\ i \notin U
          BY <2>4, <3>2
        <5> QED BY <2>3, <3>2, <5>1
      <4> QED BY <4>1
    <3>3. CASE i \in S
      <4>1. places = {"span"}
        <5>1. i \notin A /\ i \notin C /\ i \notin D /\ i \notin F /\ i \notin U
          BY <2>4, <3>3
        <5> QED BY <2>3, <3>3, <5>1
      <4> QED BY <4>1
    <3>4. CASE i \in D
      <4>1. places = {"deferred"}
        <5>1. i \notin A /\ i \notin C /\ i \notin S /\ i \notin F /\ i \notin U
          BY <2>4, <3>4
        <5> QED BY <2>3, <3>4, <5>1
      <4> QED BY <4>1
    <3>5. CASE i \in F
      <4>1. places = {"flight"}
        <5>1. i \notin A /\ i \notin C /\ i \notin S /\ i \notin D /\ i \notin U
          BY <2>4, <3>5
        <5> QED BY <2>3, <3>5, <5>1
      <4> QED BY <4>1
    <3>6. CASE i \in U
      <4>1. places = {"unlinked"}
        <5>1. i \notin A /\ i \notin C /\ i \notin S /\ i \notin D /\ i \notin F
          BY <2>4, <3>6
        <5> QED BY <2>3, <3>6, <5>1
      <4> QED BY <4>1
    <3> QED BY <2>4, <3>1, <3>2, <3>3, <3>4, <3>5, <3>6
  <2>6. Cardinality(places) = 1
    BY <2>5, FS_Singleton
  <2> QED BY <1>5, <2>6, RetiredIs DEF places
<1> QED BY <1>4, <1>5

(* However threads allocate and free, a block is in one place: the program *)
(* is never given one twice, nor one that lies in a free list.             *)
THEOREM BlocksStayInOnePlace == Spec => []BlocksInOnePlace
<1> QED BY HeapsAreWhole, WholeBlocks, PTL

(* Whole heaps have each span in one place, and lists that end.            *)
LEMMA WholeSpans == HeapInv => SpansInOnePlace
<1> SUFFICES ASSUME HeapInv, NEW h \in Threads
    PROVE /\ Cardinality(Listed(h)) = Len(partial[h])
          /\ \A X \in SUBSET Queued(h) : X # {} => \E s \in X : link[s] \notin X
          /\ Listed(h) \cap cache[h] = {} /\ Queued(h) \cap (Listed(h) \cup cache[h]) = {}
          /\ full_span_count[h] = Cardinality({s \in Mapped : heap[s] = h} \ (Listed(h) \cup cache[h]))
  BY DEF SpansInOnePlace
<1>1. Types /\ HeapOk(h)
  BY DEF HeapInv
<1>2. Cardinality(Listed(h)) = Len(partial[h])
  BY <1>1, TypesOf, ListedIs, LengthOfList DEF HeapOk
<1>3. ASSUME NEW s \in Listed(h), s \in Waiting(h) PROVE FALSE
  <2>1. s \in Mapped /\ heap[s] = h
    BY <1>1, <1>3 DEF HeapOk, Own
  <2> QED BY <1>3, <2>1 DEF HeapInv, SpanOk, AwayOk, Away
<1>4. Full(h) = {s \in Mapped : heap[s] = h} \ (Listed(h) \cup cache[h])
  BY DEF Full, Own
<1> QED BY <1>1, <1>2, <1>3, <1>4 DEF HeapOk, Ends, Waiting, Apart

(* A span is in one list of its heap, its lists come to an end and the     *)
(* heap's count of full spans is right, although others push spans onto    *)
(* its list with a compare and swap.                                       *)
THEOREM SpansStayInOnePlace == Spec => []SpansInOnePlace
<1> QED BY HeapsAreWhole, WholeSpans, PTL

(* Whole heaps can find every block that is free.                          *)
LEMMA WholeIsFound == HeapInv => NothingStranded
<1> SUFFICES ASSUME HeapInv, \A t \in Threads : pc[t] = "idle", NEW s \in Mapped,
                    s \notin Retired, s \notin Listed(heap[s])
             PROVE  \E b \in used \cup class_free[heap[s]] : Span(b) = s
  BY DEF NothingStranded
<1>1. ~ Away(s) /\ SpanOk(s)
  BY RetiredIs DEF HeapInv
<1>2. Partition(s) /\ CountsOk(s) /\ PlaceOk(s)
  BY <1>1 DEF SpanOk
<1>3. \A X : "idle" \notin X => At(s, X) = {} /\ Held(s, X) = {}
  BY DEF At, Held
<1>4. /\ Held(s, Flying) = {} /\ Held(s, Storing) = {} /\ At(s, {"storeLast"}) = {}
  <2>1. "idle" \notin Flying /\ "idle" \notin Storing /\ "idle" \notin {"storeLast"}
    BY DEF Flying, Filling, Storing
  <2> QED BY <1>3, <2>1
<1>5. free_list[s] = {} /\ free_list_limit[s] >= block_count
  BY <1>2 DEF PlaceOk, IsFull
<1>6. Unlinked(s) = {}
  <2>1. free_list_limit[s] \in 0 .. block_count
    BY TypesOf DEF HeapInv
  <2> QED BY <1>5, <2>1, RpMallocAssumption DEF Unlinked
<1>7. deferred[s] # Indices
  <2> SUFFICES ASSUME deferred[s] = Indices PROVE FALSE
    OBVIOUS
  <2>1. Stored(s) = Indices
    BY <1>4 DEF Stored
  <2>2. list_size[s] = block_count
    BY <1>2, <2>1, IndicesFinite DEF CountsOk
  <2> QED BY <1>2, <1>4, <2>2 DEF CountsOk
<1>8. InUse(s) \cup InClass(s) \cup deferred[s] = Indices
  BY <1>2, <1>4, <1>5, <1>6 DEF Partition
<1>9. PICK i \in Indices : i \in InUse(s) \cup InClass(s)
  BY <1>7, <1>8
<1>10. <<s, i>> \in used \cup class_free[heap[s]] /\ Span(<<s, i>>) = s
  BY <1>9 DEF InUse, InClass, Span
<1> QED BY <1>10

(* No free block is lost: whatever order the threads free the blocks of a *)
(* span in, the heap finds the span or a thread is about to send it back.  *)
THEOREM MemoryComesBack == Spec => []NothingStranded
<1> QED BY HeapsAreWhole, WholeIsFound, PTL
=============================================================================
