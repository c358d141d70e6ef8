-------------------------- MODULE EventQueueProofs --------------------------
(***************************************************************************)
(* For every number of threads, every size of blocks, of the block index   *)
(* and of a bulk: what the threads commit is processed in order, is never  *)
(* overwritten before, is reported under the name of its thread or, once   *)
(* that has ended, of one that took its producer over since, and no        *)
(* producer is passed over for long.                                       *)
(***************************************************************************)
EXTENDS EventQueue, TLAPS, SequenceTheorems

-----------------------------------------------------------------------------
(* Who owns which producer.                                                *)
Owning == {"token", "idle", "block", "entry", "front", "write", "commit"}
Places == Owning \cup {"unborn", "look", "take", "create", "add", "gone"}

OwnerTypes ==
  /\ producerListTail \in Seq(Producers) /\ producerCount \in Nat
  /\ inactive \in [Producers -> BOOLEAN] /\ threadId \in [Producers -> Threads \cup {None}]
  /\ pc \in [Threads -> Places] /\ emitted \in [Threads -> Nat]
  /\ mine \in [Threads -> Producers \cup {None}]
  /\ candidate \in [Threads -> Producers \cup {None}]

InList(p) == \E i \in 1 .. Len(producerListTail) : producerListTail[i] = p

NoneTwice ==
  \A i, j \in 1 .. Len(producerListTail) : producerListTail[i] = producerListTail[j] => i = j

(* A producer in use is in the list and has one owner; an inactive one is  *)
(* in the list and has none.                                               *)
OwnerInv ==
  /\ OwnerTypes /\ NoneTwice
  /\ producerListTail # <<>> => producerCount > 0
  /\ \A t \in Threads :
       /\ InList(t) => pc[t] \in Owning \cup {"gone"}
       /\ inactive[t] => InList(t)
       /\ pc[t] = "add" => producerCount > 0
       /\ pc[t] \in {"look", "take"} => InList(candidate[t])
       /\ pc[t] \in Owning => InList(mine[t]) /\ ~ inactive[mine[t]]
  /\ \A t, u \in Threads : pc[t] \in Owning /\ pc[u] \in Owning /\ mine[t] = mine[u] => t = u

(* Its owner is at one of these places. *)
Busy(p, places) == \E t \in Threads : pc[t] \in places /\ mine[t] = p

-----------------------------------------------------------------------------
(* The blocks of a producer.  Those still in its index are the window of   *)
(* `filled`; From(i) is the first item of its i-th block.                  *)
Events == (Threads \cup {None}) \X Nat

Slots == 0 .. BLOCK_SIZE - 1

Headers == UNION {[size : {n}, front : -1 .. n - 1,
                   entries : [0 .. n - 1 -> [base : Nat, block : Nat]]] : n \in Nat \ {0}}

RingTypes ==
  /\ tailIndex \in [Producers -> Nat] /\ headIndex \in [Producers -> Nat]
  /\ tailBlock \in [Producers -> Nat] /\ slotsUsed \in [Producers -> Nat]
  /\ indexFront \in [Producers -> Nat]
  /\ blockIndex \in [Producers -> Seq(Headers)]
  /\ next \in Seq(Nat) /\ dequeued \in Seq(Nat) /\ elements \in Seq([Slots -> Events])
  /\ Len(dequeued) = Len(next) /\ Len(elements) = Len(next)
  /\ log \in [Producers -> Seq(Events)] /\ filled \in [Producers -> Seq(Nat)]
  /\ consumed \in [Producers -> Nat]

From(i) == (i - 1) * BLOCK_SIZE

Count(p)  == Len(filled[p])
Window(p) == Count(p) - slotsUsed[p] + 1 .. Count(p)

Reading(p) == cpc \in {"index", "locate", "process", "empty"} /\ call.asked = p

(* How many of its items are counted in `dequeued`. *)
Dequeued(p) == IF Reading(p) THEN call.index ELSE headIndex[p]

Clamp(x) == IF x < 0 THEN 0 ELSE IF x > BLOCK_SIZE THEN BLOCK_SIZE ELSE x

(* Where the owner is in its step tells where the tail is in the last block. *)
TailOk(p) ==
  /\ Busy(p, {"entry", "front"}) => Count(p) > 0 /\ tailIndex[p] = From(Count(p))
  /\ Busy(p, {"write", "commit"}) =>
       Count(p) > 0 /\ From(Count(p)) <= tailIndex[p] /\ tailIndex[p] < From(Count(p) + 1)
  /\ Busy(p, {"block"}) => tailIndex[p] = From(Count(p) + 1)
  /\ ~ Busy(p, {"entry", "front", "write", "commit"}) =>
       From(Count(p)) < tailIndex[p] /\ tailIndex[p] <= From(Count(p) + 1)

(* The window begins at or before what is next to be counted as dequeued.  *)
CountsOk(p) ==
  /\ slotsUsed[p] <= Count(p) /\ (Count(p) > 0 => slotsUsed[p] > 0)
  /\ tailBlock[p] = IF Count(p) = 0 THEN 0 ELSE filled[p][Count(p)]
  /\ Len(log[p]) = tailIndex[p]
  /\ From(Count(p) - slotsUsed[p] + 1) <= Dequeued(p)
  /\ Dequeued(p) <= headIndex[p] /\ headIndex[p] <= tailIndex[p]
  /\ tailIndex[p] > 0 => InList(p)
  /\ Count(p) > 0 => InList(p)

(* The blocks of the window are linked in a ring, the first after the last. *)
RingOk(p) ==
  /\ \A i \in 1 .. Count(p) : filled[p][i] \in 1 .. Len(next)
  /\ \A i \in Window(p) :
       next[filled[p][i]] = filled[p][IF i < Count(p) THEN i + 1 ELSE Count(p) - slotsUsed[p] + 1]
  /\ \A i, j \in Window(p) : filled[p][i] = filled[p][j] => i = j
  /\ \A i \in Window(p) : dequeued[filled[p][i]] = Clamp(Dequeued(p) - From(i))

(* No block is in the windows of two producers. *)
Apart(p, q) == \A i \in Window(p), j \in Window(q) : filled[p][i] # filled[q][j]

(* The blocks of the window hold what the log says. *)
ContentsOk(p) ==
  /\ \A i \in Window(p), o \in Slots :
       From(i) + o < tailIndex[p] => elements[filled[p][i]][o] = log[p][From(i) + o + 1]
  /\ \A t \in Threads :
       pc[t] = "commit" /\ mine[t] = p => elements[tailBlock[p]][tailIndex[p] % BLOCK_SIZE] = Event(t)

(* The block for which indexFront is the slot, and the slots of those      *)
(* before it.                                                              *)
NextOrd(p) == IF Busy(p, {"entry", "front"}) THEN Count(p) ELSE Count(p) + 1

Slot(p, i) == (indexFront[p] - (NextOrd(p) - i)) % Header(p).size

EntryOf(p, i) == [base |-> From(i), block |-> filled[p][i]]

(* The current header has the entries of the window in slots side by side. *)
IndexOk(p) ==
  /\ blockIndex[p] # <<>>
  /\ slotsUsed[p] <= Header(p).size /\ indexFront[p] < Header(p).size
  /\ \A i \in Window(p) :
       i < NextOrd(p) \/ Busy(p, {"front"}) => Header(p).entries[Slot(p, i)] = EntryOf(p, i)
  /\ NextOrd(p) > 1 => Header(p).front = Slot(p, NextOrd(p) - 1)

-----------------------------------------------------------------------------
(* The consumer.                                                           *)
Calls == [asked : Producers \cup {None}, walkTail : Producers \cup {None}, count : Nat, index : Nat,
          end : Nat, header : Nat, front : Int, at : Nat, ctx : Threads \cup {None}]

CallOk ==
  /\ cpc \in {"idle", "ask", "claim", "index", "locate", "process", "empty"}
  /\ token \in Producers \cup {None} /\ call \in Calls
  /\ cpc # "idle" => InList(call.asked) /\ token # None
  /\ token # None => InList(token)
  /\ cpc \in {"ask", "claim"} /\ call.asked # token => InList(call.walkTail)
  /\ cpc = "claim" =>
       /\ call.count \in 1 .. BulkLimit
       /\ headIndex[call.asked] + call.count <= tailIndex[call.asked]
  /\ cpc \in {"index", "locate", "process", "empty"} =>
       /\ call.index < call.end /\ call.end = headIndex[call.asked]
       /\ call.end <= call.index + BLOCK_SIZE

ConsumedOk(p) ==
  consumed[p] = IF cpc = "empty" /\ call.asked = p THEN ChunkEnd ELSE Dequeued(p)

Ordinal == call.index \div BLOCK_SIZE + 1

IsCurrent == call.header = Len(blockIndex[call.asked])

(* F is the block that was last in the index when the consumer loaded it. *)
LocateOk ==
  cpc = "locate" =>
    LET p == call.asked IN
    /\ call.header \in 1 .. Len(blockIndex[p]) /\ call.front \in 0 .. Loaded.size - 1
    /\ \E F \in 1 .. Count(p) :
         /\ call.end <= From(F + 1)
         /\ \A i \in 1 .. F : call.index < From(i + 1) =>
              Loaded.entries[(call.front - (F - i)) % Loaded.size] = EntryOf(p, i)
         /\ IsCurrent => F < NextOrd(p) /\ call.front = Slot(p, F)

(* The slots that follow the one it has found are those of the next blocks. *)
ProcessOk ==
  cpc \in {"process", "empty"} =>
    LET p == call.asked IN
    /\ call.header \in 1 .. Len(blockIndex[p]) /\ call.at \in 0 .. Loaded.size - 1
    /\ \A i \in 1 .. Count(p) : call.index < From(i + 1) /\ From(i) < call.end =>
         Loaded.entries[(call.at + (i - Ordinal)) % Loaded.size].block = filled[p][i]
    /\ IsCurrent => Ordinal < NextOrd(p) /\ call.at = Slot(p, Ordinal)
    /\ \A i \in 1 .. Count(p) : From(i) < call.end /\ IsCurrent => i < NextOrd(p)

RingInv ==
  /\ RingTypes /\ CallOk
  /\ \A p \in Producers :
       /\ TailOk(p) /\ CountsOk(p) /\ RingOk(p) /\ ContentsOk(p) /\ IndexOk(p) /\ ConsumedOk(p)
  /\ \A p, q \in Producers : p # q => Apart(p, q)
  /\ LocateOk /\ ProcessOk
-----------------------------------------------------------------------------
(* Whose events they are.  An event of a thread that has not ended is in   *)
(* the log of the producer it owns, which bears its name.  The name of a   *)
(* producer is that of a thread that has or had it, whose events are the   *)
(* last of the log.  What is left of the bulk in hand is of the thread it  *)
(* was announced as, or of one that is gone and whose heir that is.        *)
Named == Owning \ {"token"}

LogOk(p) ==
  \A i \in 1 .. Len(log[p]) :
    LET e == log[p][i][1] IN
    /\ e \in Threads
    /\ pc[e] = "gone" \/ (pc[e] \in Named /\ mine[e] = p)

HadIt(u, p) == u \in Threads /\ pc[u] \in Named \cup {"gone"} /\ mine[u] = p

NameOk(p) ==
  /\ threadId[p] # None => HadIt(threadId[p], p)
  /\ Len(log[p]) > 0 => threadId[p] # None
  /\ \A i \in 1 .. Len(log[p]) : \A j \in 1 .. i :
       log[p][j][1] = threadId[p] => log[p][i][1] = threadId[p]

(* The i-th event of producer p may be announced as u's. *)
Announced(u, p, i) ==
  LET e == log[p][i][1] IN
  e = u \/ (pc[e] = "gone" /\ HadIt(u, p) /\ \A j \in 1 .. i : log[p][j][1] # u)

ThreadInv ==
  /\ \A t \in Threads : pc[t] \in Named => threadId[mine[t]] = t
  /\ \A p \in Producers : LogOk(p) /\ NameOk(p)
  /\ cpc = "process" \/ cpc = "empty" =>
       \A i \in call.index + 1 .. call.end : Announced(call.ctx, call.asked, i)
-----------------------------------------------------------------------------
(* Whose turn it is.  Dist(p, q) is how many places after p, round the     *)
(* list, q comes; NextUp is where the next call will begin.  A producer    *)
(* passed over often is near: the search of the current call has found     *)
(* nothing waiting on its way.                                             *)
Pos(p) == CHOOSE i \in 1 .. Len(producerListTail) : producerListTail[i] = p

Dist(p, q) == IF Pos(q) >= Pos(p) THEN Pos(q) - Pos(p) ELSE Pos(q) - Pos(p) + Len(producerListTail)

NextUp == IF cpc \in {"index", "locate", "process", "empty"} THEN Served ELSE token

WalkInv ==
  /\ passedOver \in [Producers -> Nat]
  /\ \A p \in Producers : passedOver[p] > 0 => headIndex[p] < tailIndex[p]
  /\ token = None => \A p \in Producers : passedOver[p] = 0
  /\ token # None => \A p \in Producers : InList(p) =>
                        passedOver[p] + Dist(NextUp, p) <= Len(producerListTail)
  /\ cpc \in {"ask", "claim"} /\ call.asked # token =>
       /\ \A p \in Producers : InList(p) /\ Dist(token, p) < Dist(token, call.asked) => passedOver[p] = 0
       /\ Pos(call.walkTail) <= Pos(token)
       /\ \A p \in Producers : InList(p) /\ Pos(p) < Pos(call.walkTail) => passedOver[p] = 0
       /\ Pos(call.asked) < Pos(token) => Pos(call.walkTail) <= Pos(call.asked)
-----------------------------------------------------------------------------
USE DEF Producers

(* The walk stays in the list, or goes on where it is told to. *)
LEMMA NextProdInList ==
  ASSUME producerListTail \in Seq(Producers), NEW p, InList(p), NEW tail
  PROVE  NextProd(p, tail) = tail \/ (NextProd(p, tail) \in Producers /\ InList(NextProd(p, tail)))
<1> DEFINE L == producerListTail
           i == CHOOSE i \in DOMAIN L : L[i] = p
<1>1. i \in 1 .. Len(L) /\ Len(L) \in Nat
  BY DEF InList
<1>2. CASE i = Len(L)
  BY <1>2 DEF NextProd
<1>3. CASE i # Len(L)
  <2>1. i + 1 \in 1 .. Len(L)
    BY <1>1, <1>3
  <2>2. NextProd(p, tail) = L[i + 1]
    BY <1>3 DEF NextProd
  <2> HIDE DEF i
  <2>3. L[i + 1] \in Producers
    BY <2>1
  <2> QED BY <2>1, <2>2, <2>3 DEF InList
<1> QED BY <1>2, <1>3

(* At first there is no producer. *)
LEMMA OwnerInit == Init => OwnerInv
<1> SUFFICES ASSUME Init PROVE OwnerInv
  OBVIOUS
<1>1. OwnerTypes
  BY QueueAssumption DEF Init, OwnerTypes, Places, Owning
<1>2. Len(producerListTail) = 0
  BY DEF Init
<1> QED BY <1>1, <1>2 DEF Init, OwnerInv, NoneTwice, InList, Owning

(* A step that changes neither the list nor who owns what. *)
LEMMA OwnerLookAt ==
  ASSUME OwnerInv, NEW t \in Threads, pc[t] \in {"unborn", "look", "take"},
         NEW p \in Producers \cup {None}, p # None => InList(p), LookAt(t, p),
         UNCHANGED <<mine, ownerVars, listVars, emitted>>
  PROVE  OwnerInv'
<1>1. OwnerTypes'
  BY DEF OwnerInv, OwnerTypes, Places, Owning, LookAt, ownerVars, listVars
<1>2. \A q : InList(q)' <=> InList(q)
  BY DEF InList, listVars
<1>3. \A u \in Threads : u # t => pc'[u] = pc[u] /\ candidate'[u] = candidate[u]
  BY DEF OwnerInv, OwnerTypes, LookAt
<1>4. pc'[t] = (IF p = None THEN "create" ELSE "look") /\ candidate'[t] = p
  BY DEF OwnerInv, OwnerTypes, LookAt
<1> QED BY <1>1, <1>2, <1>3, <1>4 DEF OwnerInv, NoneTwice, Owning, ownerVars, listVars

(* No step of a thread makes it share a producer. *)
LEMMA OwnerSteps ==
  ASSUME OwnerInv, NEW t \in Threads, ProducerStep(t)
  PROVE  OwnerInv'
<1> DEFINE L == producerListTail
<1> USE DEF OwnerInv, OwnerTypes
<1>1. CASE StartThread(t)
  <2>1. L # <<>> => InList(Head(L)) /\ Head(L) \in Producers
    BY DEF InList
  <2>2. Head(L) = None => L = <<>>
    BY <2>1, QueueAssumption
  <2> QED BY <1>1, <2>1, OwnerLookAt DEF StartThread, QueueUnchanged, history
<1>2. CASE Look(t)
  <2>1. CASE inactive[candidate[t]] /\ SizeApprox(candidate[t]) = 0
    <3>1. \A q : InList(q)' <=> InList(q)
      BY <1>2, <2>1 DEF Look, InList, listVars
    <3>2. OwnerTypes'
      BY <1>2, <2>1 DEF Look, QueueUnchanged, history, Places, Owning, ownerVars, listVars
    <3>3. pc' = [pc EXCEPT ![t] = "take"] /\ pc[t] = "look"
      BY <1>2, <2>1 DEF Look
    <3> QED BY <1>2, <2>1, <3>1, <3>2, <3>3
            DEF Look, QueueUnchanged, NoneTwice, Owning, ownerVars, listVars
  <2>2. CASE ~ (inactive[candidate[t]] /\ SizeApprox(candidate[t]) = 0)
    BY <1>2, <2>2, OwnerLookAt, NextProdInList DEF Look, QueueUnchanged, history
  <2> QED BY <2>1, <2>2
<1>3. CASE Take(t)
  <2>1. CASE inactive[candidate[t]]
    <3>1. \A q : InList(q)' <=> InList(q)
      BY <1>3, <2>1 DEF Take, InList, listVars
    <3>2. OwnerTypes'
      <4>1. "token" \in Places /\ candidate[t] \in Producers \cup {None}
        BY DEF Places, Owning
      <4>2. /\ pc' = [pc EXCEPT ![t] = "token"] /\ mine' = [mine EXCEPT ![t] = candidate[t]]
            /\ inactive' = [inactive EXCEPT ![candidate[t]] = FALSE]
            /\ UNCHANGED <<producerListTail, producerCount, threadId, emitted, candidate>>
        BY <1>3, <2>1 DEF Take, QueueUnchanged, history, listVars
      <4> QED BY <4>1, <4>2
    <3>3. /\ pc' = [pc EXCEPT ![t] = "token"] /\ pc[t] = "take"
          /\ mine' = [mine EXCEPT ![t] = candidate[t]] /\ InList(candidate[t])
          /\ inactive' = [inactive EXCEPT ![candidate[t]] = FALSE]
      BY <1>3, <2>1 DEF Take
    <3>4. \A u \in Threads : pc[u] \in Owning => mine[u] # candidate[t]
      BY <2>1
    <3> QED BY <1>3, <2>1, <3>1, <3>2, <3>3, <3>4 DEF Take, NoneTwice, Owning, listVars
  <2>2. CASE ~ inactive[candidate[t]]
    BY <1>3, <2>2, OwnerLookAt, NextProdInList DEF Take, QueueUnchanged, history, ownerVars, listVars
  <2> QED BY <2>1, <2>2
<1>4. CASE CountProducer(t)
  <2>1. \A q : InList(q)' <=> InList(q)
    BY <1>4 DEF CountProducer, InList
  <2> QED BY <1>4, <2>1 DEF CountProducer, QueueUnchanged, history, NoneTwice, Places, Owning, ownerVars
<1>5. CASE AddProducer(t)
  <2>1. ~ InList(t)
    BY <1>5 DEF AddProducer, Owning
  <2>2. L' = <<t>> \o L /\ L' \in Seq(Producers) /\ Len(L') = Len(L) + 1
        /\ \A i \in 1 .. Len(L) + 1 : L'[i] = IF i = 1 THEN t ELSE L[i - 1]
    BY <1>5 DEF AddProducer
  <2>3. \A q : InList(q)' <=> q = t \/ InList(q)
    BY <2>2 DEF InList
  <2>4. NoneTwice'
    BY <2>1, <2>2 DEF NoneTwice, InList
  <2> QED BY <1>5, <2>1, <2>2, <2>3, <2>4 DEF AddProducer, QueueUnchanged, history, Places, Owning,
             ownerVars
<1>6. CASE SetToken(t)
  <2>1. \A q : InList(q)' <=> InList(q)
    BY <1>6 DEF SetToken, InList, listVars
  <2> QED BY <1>6, <2>1 DEF SetToken, QueueUnchanged, history, NoneTwice, Places, Owning, listVars
<1>7. CASE ThreadExit(t)
  <2>1. \A q : InList(q)' <=> InList(q)
    BY <1>7 DEF ThreadExit, InList, listVars
  <2>2. OwnerTypes'
    BY <1>7 DEF ThreadExit, QueueUnchanged, history, Places, Owning, listVars
  <2>3. /\ pc' = [pc EXCEPT ![t] = "gone"] /\ pc[t] = "idle" /\ InList(mine[t])
        /\ inactive' = [inactive EXCEPT ![mine[t]] = TRUE]
    BY <1>7 DEF ThreadExit, Owning
  <2>4. \A u \in Threads : pc[u] \in Owning /\ u # t => mine[u] # mine[t]
    BY <2>3 DEF Owning
  <2> QED BY <1>7, <2>1, <2>2, <2>3, <2>4 DEF ThreadExit, NoneTwice, Owning, listVars
<1>8. ASSUME NEW place \in {"block", "write", "entry", "front", "commit", "idle"}, GoOn(t, place),
             pc[t] \in Owning, emitted' \in [Threads -> Nat]
      PROVE  OwnerInv'
  <2>1. \A q : InList(q)' <=> InList(q)
    BY <1>8 DEF GoOn, InList, listVars
  <2> QED BY <1>8, <2>1 DEF GoOn, NoneTwice, Places, Owning, listVars, ownerVars
<1>9. CASE EnqueueBegin(t)
  BY <1>8, <1>9 DEF EnqueueBegin, history, Owning
<1>10. CASE ReuseBlock(t)
  BY <1>8, <1>10 DEF ReuseBlock, history, Owning
<1>11. CASE RequisitionBlock(t)
  BY <1>8, <1>11 DEF RequisitionBlock, history, Owning
<1>12. CASE WriteEntry(t)
  BY <1>8, <1>12 DEF WriteEntry, history, Owning
<1>13. CASE PublishFront(t)
  BY <1>8, <1>13 DEF PublishFront, history, Owning
<1>14. CASE WriteItem(t)
  BY <1>8, <1>14 DEF WriteItem, history, Owning
<1>15. CASE Commit(t)
  BY <1>8, <1>15 DEF Commit, history, Owning
<1> QED BY <1>1, <1>2, <1>3, <1>4, <1>5, <1>6, <1>7, <1>9, <1>10, <1>11, <1>12, <1>13, <1>14, <1>15
        DEF ProducerStep

(* What the consumer never writes. *)
LEMMA ConsumerLeavesOwners ==
  ASSUME ConsumerStep
  PROVE  UNCHANGED <<tailIndex, ownerVars, ringVars, listVars, threadVars, log, filled, emitted, next, elements>>
  BY DEF ConsumerStep, TryDequeue, NothingThere, Reserve, Claim, LoadIndex, Notify, ProcessData,
     SetManyEmpty,
         ConsumerOnly, indexVars, blockVars

(* Nor does a step that leaves list, owners and threads alone. *)
LEMMA OwnerUnchanged ==
  ASSUME OwnerInv, UNCHANGED <<ownerVars, listVars, threadVars, emitted>>
  PROVE  OwnerInv'
<1>1. \A q : InList(q)' <=> InList(q)
  BY DEF InList, listVars
<1> QED BY <1>1 DEF OwnerInv, OwnerTypes, NoneTwice, ownerVars, listVars, threadVars

(* No step breaks who owns what. *)
LEMMA OwnerNext == OwnerInv /\ [Next]_vars => OwnerInv'
<1> SUFFICES ASSUME OwnerInv, [Next]_vars PROVE OwnerInv'
  OBVIOUS
<1>1. CASE ConsumerStep
  BY <1>1, ConsumerLeavesOwners, OwnerUnchanged
<1>2. CASE \E t \in Threads : ProducerStep(t)
  BY <1>2, OwnerSteps
<1>3. CASE UNCHANGED vars
  BY <1>3, OwnerUnchanged DEF vars, history
<1> QED BY <1>1, <1>2, <1>3 DEF Next

HIDE DEF Producers
-----------------------------------------------------------------------------
(* Blocks follow each other without a gap. *)
LEMMA FromFacts ==
  ASSUME NEW i \in Int
  PROVE  From(i) \in Int /\ From(i + 1) = From(i) + BLOCK_SIZE /\ From(1) = 0
<1>1. BLOCK_SIZE \in Nat
  BY QueueAssumption
<1> QED BY <1>1 DEF From

(* A later block begins after an earlier one ends. *)
LEMMA FromGrows ==
  ASSUME NEW i \in Int, NEW j \in Int, i < j
  PROVE  From(i) + BLOCK_SIZE <= From(j)
<1>1. BLOCK_SIZE \in Nat /\ j - 1 - i \in Nat
  BY QueueAssumption
<1>2. (j - 1 - i) * BLOCK_SIZE \in Nat
  BY <1>1
<1>3. From(j) = From(i) + BLOCK_SIZE + (j - 1 - i) * BLOCK_SIZE
  BY <1>1 DEF From
<1>4. From(i) \in Int
  BY FromFacts
<1> QED BY <1>1, <1>2, <1>3, <1>4

(* The block an item is in. *)
LEMMA OrdinalOf ==
  ASSUME NEW x \in Nat
  PROVE  /\ x \div BLOCK_SIZE + 1 \in Nat \ {0}
         /\ From(x \div BLOCK_SIZE + 1) <= x /\ x < From(x \div BLOCK_SIZE + 1) + BLOCK_SIZE
         /\ x % BLOCK_SIZE = x - From(x \div BLOCK_SIZE + 1)
         /\ x % BLOCK_SIZE \in Slots
<1> DEFINE q == x \div BLOCK_SIZE
           r == x % BLOCK_SIZE
<1>1. BLOCK_SIZE \in Nat \ {0}
  BY QueueAssumption
<1>2. q \in Nat /\ r \in 0 .. BLOCK_SIZE - 1 /\ x = q * BLOCK_SIZE + r
  BY <1>1
<1>3. From(q + 1) = q * BLOCK_SIZE
  BY <1>2 DEF From
<1>4. q * BLOCK_SIZE \in Nat
  BY <1>1, <1>2
<1> HIDE DEF q, r
<1>5. From(q + 1) <= x /\ x < From(q + 1) + BLOCK_SIZE /\ r = x - From(q + 1) /\ q + 1 \in Nat \ {0}
  BY <1>1, <1>2, <1>3, <1>4
<1> QED BY <1>2, <1>5 DEF q, r, Slots

(* An item is in one block. *)
LEMMA OrdinalUnique ==
  ASSUME NEW x \in Int, NEW i \in Int, From(i) <= x, x < From(i) + BLOCK_SIZE,
         NEW j \in Int, From(j) <= x, x < From(j) + BLOCK_SIZE
  PROVE  i = j
<1>1. From(i) \in Int /\ From(j) \in Int /\ BLOCK_SIZE \in Nat
  BY FromFacts, QueueAssumption
<1>2. ~ (i < j)
  BY <1>1, FromGrows
<1>3. ~ (j < i)
  BY <1>1, FromGrows
<1> QED BY <1>2, <1>3

(* A slot is one of the index. *)
LEMMA ModRange ==
  ASSUME NEW a \in Int, NEW s \in Nat \ {0}
  PROVE  a % s \in 0 .. s - 1
  OBVIOUS

(* A slot is its own remainder. *)
LEMMA ModSmall ==
  ASSUME NEW s \in Nat \ {0}, NEW a \in 0 .. s - 1
  PROVE  a % s = a
  OBVIOUS

(* To go on from a slot is to go on from what it is the remainder of. *)
LEMMA ModPlus ==
  ASSUME NEW a \in Int, NEW b \in Int, NEW s \in Nat \ {0}
  PROVE  ((a % s) + b) % s = (a + b) % s
<1> DEFINE q == a \div s
           r == a % s
           y == r + b
<1>1. q \in Int /\ r \in Int /\ a = q * s + r
  OBVIOUS
<1>2. a + b = q * s + y /\ y \in Int
  BY <1>1
<1> HIDE DEF q, r, y
<1>3. (q * s + y) % s = y % s
  <2> DEFINE u == y \div s
             v == y % s
  <2>1. u \in Int /\ v \in 0 .. s - 1 /\ y = u * s + v
    BY <1>2
  <2>2. q * s + y = (q + u) * s + v
    BY <1>1, <2>1
  <2> HIDE DEF u, v
  <2>3. ((q + u) * s + v) % s = v
    BY <1>1, <2>1
  <2> QED BY <2>2, <2>3 DEF v
<1> QED BY <1>2, <1>3 DEF y, r

(* Two that share a slot are at least the size of the index apart. *)
LEMMA ModDistinct ==
  ASSUME NEW a \in Int, NEW b \in Int, NEW s \in Nat \ {0}, a % s = b % s, a < b
  PROVE  s <= b - a
<1> DEFINE q == a \div s
           u == b \div s
           r == a % s
<1>1. q \in Int /\ u \in Int /\ r \in Int /\ a = q * s + r /\ b = u * s + r
  OBVIOUS
<1>2. b - a = (u - q) * s
  BY <1>1
<1> HIDE DEF q, u, r
<1>3. u - q > 0
  BY <1>1, <1>2
<1>4. (u - q) * s = s + (u - q - 1) * s /\ (u - q - 1) * s \in Nat
  BY <1>1, <1>3
<1> QED BY <1>2, <1>4
-----------------------------------------------------------------------------
(* What a step leaves of a producer.                                       *)
Working == {"block", "entry", "front", "write", "commit"}

SameRing(q) ==
  /\ tailIndex'[q] = tailIndex[q] /\ tailBlock'[q] = tailBlock[q] /\ slotsUsed'[q] = slotsUsed[q]
  /\ indexFront'[q] = indexFront[q] /\ blockIndex'[q] = blockIndex[q]
  /\ log'[q] = log[q] /\ filled'[q] = filled[q]

SameBusy(q) == \A X \in SUBSET Working : Busy(q, X)' <=> Busy(q, X)

SameReading(q) == Dequeued(q)' = Dequeued(q) /\ headIndex'[q] = headIndex[q]

SameBlocks(q) ==
  /\ Len(next) <= Len(next')
  /\ \A i \in Window(q) :
       LET b == filled[q][i] IN next'[b] = next[b] /\ dequeued'[b] = dequeued[b] /\ elements'[b] = elements[b]

SameCommits(q) ==
  \A t \in Threads : pc'[t] = "commit" /\ mine'[t] = q =>
                       pc[t] = "commit" /\ mine[t] = q /\ emitted'[t] = emitted[t]

StillListed(q) == InList(q) => InList(q)'

Kept(q) == SameRing(q) /\ SameBusy(q) /\ SameReading(q) /\ SameBlocks(q) /\ SameCommits(q) /\ StillListed(q)

RingAt(q) == TailOk(q) /\ CountsOk(q) /\ RingOk(q) /\ ContentsOk(q) /\ IndexOk(q)

(* What the types say of one producer. *)
LEMMA TypesOf ==
  ASSUME RingTypes, NEW p \in Producers
  PROVE  /\ tailIndex[p] \in Nat /\ headIndex[p] \in Nat /\ tailBlock[p] \in Nat /\ slotsUsed[p] \in Nat
         /\ indexFront[p] \in Nat /\ blockIndex[p] \in Seq(Headers) /\ log[p] \in Seq(Events)
         /\ filled[p] \in Seq(Nat) /\ consumed[p] \in Nat
         /\ Count(p) \in Nat /\ Len(next) \in Nat /\ Len(log[p]) \in Nat
  BY DEF RingTypes, Count

(* The last block is in the window, and nothing of the window precedes the *)
(* first.                                                                  *)
LEMMA WindowFacts ==
  ASSUME RingTypes, NEW p \in Producers, CountsOk(p)
  PROVE  /\ Window(p) \subseteq 1 .. Count(p)
         /\ Count(p) > 0 => Count(p) \in Window(p) /\ Count(p) - slotsUsed[p] + 1 \in Window(p)
         /\ \A i \in Window(p) : Count(p) - i < slotsUsed[p]
<1>1. Count(p) \in Nat /\ slotsUsed[p] \in Nat /\ slotsUsed[p] <= Count(p) /\ (Count(p) > 0 => slotsUsed[p] > 0)
  BY TypesOf DEF CountsOk
<1> QED BY <1>1 DEF Window

(* The ring of a producer whose blocks, index and owner stay is still      *)
(* right.                                                                  *)
LEMMA RingKept ==
  ASSUME RingTypes, NEW q \in Producers, RingAt(q), Kept(q)
  PROVE  RingAt(q)'
<1> USE DEF Kept, RingAt
<1>1. Count(q)' = Count(q) /\ Window(q)' = Window(q)
  BY DEF SameRing, Count, Window
<1>2. /\ Busy(q, {"entry", "front"})' <=> Busy(q, {"entry", "front"})
      /\ Busy(q, {"write", "commit"})' <=> Busy(q, {"write", "commit"})
      /\ Busy(q, {"block"})' <=> Busy(q, {"block"})
      /\ Busy(q, {"front"})' <=> Busy(q, {"front"})
      /\ Busy(q, {"entry", "front", "write", "commit"})' <=> Busy(q, {"entry", "front", "write", "commit"})
  BY DEF SameBusy, Working
<1>3. \A i : From(i)' = From(i)
  BY DEF From
<1>4. TailOk(q)'
  BY <1>1, <1>2, <1>3 DEF TailOk, SameRing
<1>5. CountsOk(q)'
  BY <1>1, <1>3 DEF CountsOk, SameRing, SameReading, StillListed
<1>w. Window(q) \subseteq 1 .. Count(q) /\ (Count(q) > 0 => Count(q) \in Window(q))
  BY WindowFacts
<1>6. RingOk(q)'
  <2>1. \A i \in 1 .. Count(q) : filled[q][i] \in 1 .. Len(next')
    <3>1. \A i \in 1 .. Count(q) : filled[q][i] \in 1 .. Len(next)
      BY DEF RingOk
    <3>2. Len(next) \in Nat
      BY DEF RingTypes
    <3> QED BY <3>1, <3>2 DEF SameBlocks
  <2>2. filled'[q] = filled[q] /\ slotsUsed'[q] = slotsUsed[q] /\ Dequeued(q)' = Dequeued(q)
    BY DEF SameRing, SameReading
  <2>3. \A i \in Window(q) : next'[filled[q][i]] = next[filled[q][i]] /\ dequeued'[filled[q][i]] = dequeued[filled[q][i]]
    BY DEF SameBlocks
  <2> QED BY <1>1, <1>3, <2>1, <2>2, <2>3 DEF RingOk, Clamp
<1>7. ContentsOk(q)'
  <2>1. filled'[q] = filled[q] /\ log'[q] = log[q] /\ tailIndex'[q] = tailIndex[q] /\ tailBlock'[q] = tailBlock[q]
    BY DEF SameRing
  <2>2. \A i \in Window(q) : elements'[filled[q][i]] = elements[filled[q][i]]
    BY DEF SameBlocks
  <2>3. ASSUME NEW t \in Threads, pc'[t] = "commit", mine'[t] = q
        PROVE  elements'[tailBlock[q]][tailIndex[q] % BLOCK_SIZE] = Event(t)'
    <3>1. pc[t] = "commit" /\ mine[t] = q /\ Event(t)' = Event(t)
      BY <2>3 DEF SameCommits, Event
    <3>2. Busy(q, {"write", "commit"})
      BY <3>1 DEF Busy
    <3>3. Count(q) > 0 /\ tailBlock[q] = filled[q][Count(q)]
      BY <3>2 DEF TailOk, CountsOk
    <3>4. elements'[tailBlock[q]] = elements[tailBlock[q]]
      BY <1>w, <2>2, <3>3
    <3> QED BY <3>1, <3>4 DEF ContentsOk
  <2> QED BY <1>1, <1>3, <2>1, <2>2, <2>3 DEF ContentsOk
<1>8. NextOrd(q)' = NextOrd(q) /\ Header(q)' = Header(q) /\ \A i : Slot(q, i)' = Slot(q, i) /\ EntryOf(q, i)' = EntryOf(q, i)
  BY <1>1, <1>2, <1>3 DEF NextOrd, Header, Slot, EntryOf, SameRing
<1>9. IndexOk(q)'
  BY <1>1, <1>2, <1>8 DEF IndexOk, SameRing
<1> QED BY <1>4, <1>5, <1>6, <1>7, <1>9

(* Windows that stay stay apart. *)
LEMMA ApartKept ==
  ASSUME NEW p \in Producers, NEW q \in Producers, Apart(p, q), SameRing(p), SameRing(q)
  PROVE  Apart(p, q)'
  BY DEF Apart, Window, Count, SameRing

(* What the consumer holds stays, if its producer's ring does. *)
LEMMA CallKept ==
  ASSUME RingTypes, UNCHANGED <<cpc, call, consumed>>, NEW p \in Producers, call.asked = p, SameRing(p), SameBusy(p)
  PROVE  (LocateOk => LocateOk') /\ (ProcessOk => ProcessOk')
<1>1. Count(p)' = Count(p)
  BY DEF SameRing, Count
<1>2. Busy(p, {"entry", "front"})' <=> Busy(p, {"entry", "front"})
  BY DEF SameBusy, Working
<1>3. \A i : From(i)' = From(i)
  BY DEF From
<1>4. NextOrd(p)' = NextOrd(p) /\ \A i : Slot(p, i)' = Slot(p, i) /\ EntryOf(p, i)' = EntryOf(p, i)
  BY <1>1, <1>2, <1>3 DEF NextOrd, Header, Slot, EntryOf, SameRing
<1>5. Loaded' = Loaded /\ (IsCurrent' <=> IsCurrent)
  BY DEF Loaded, IsCurrent, SameRing
<1>6. LocateOk => LocateOk'
  BY <1>1, <1>3, <1>4, <1>5 DEF LocateOk, SameRing
<1>7. ProcessOk => ProcessOk'
  BY <1>1, <1>3, <1>4, <1>5 DEF ProcessOk, SameRing, Ordinal
<1> QED BY <1>6, <1>7
-----------------------------------------------------------------------------
(* A step of the thread that owns a producer.                              *)
OwnerStep(t, place) ==
  /\ GoOn(t, place) /\ UNCHANGED <<headIndex, consumed>>
  /\ \A q \in Producers \ {mine[t]} : SameRing(q) /\ SameBlocks(q)
  /\ \A u \in Threads \ {t} : emitted'[u] = emitted[u]

(* A thread that owns a producer alone tells how busy it is. *)
LEMMA OwnerIsAlone ==
  ASSUME OwnerInv, NEW t \in Threads, pc[t] \in Owning
  PROVE  /\ mine[t] \in Producers /\ InList(mine[t])
         /\ \A X \in SUBSET Owning : Busy(mine[t], X) <=> pc[t] \in X
<1>1. mine[t] \in Producers /\ InList(mine[t])
  BY QueueAssumption DEF OwnerInv, OwnerTypes, InList
<1>2. \A u \in Threads : pc[u] \in Owning /\ mine[u] = mine[t] => u = t
  BY DEF OwnerInv
<1> QED BY <1>1, <1>2 DEF Busy

(* After its step it is at the new place, and the others where they were. *)
LEMMA BusyAfter ==
  ASSUME OwnerInv, NEW t \in Threads, pc[t] \in Owning, NEW p, p = mine[t],
         NEW place \in Owning, GoOn(t, place)
  PROVE  /\ \A X \in SUBSET Owning : Busy(p, X)' <=> place \in X
         /\ \A q \in Producers \ {p} : SameBusy(q)
         /\ \A q : InList(q)' <=> InList(q)
<1>1. pc' = [pc EXCEPT ![t] = place] /\ mine' = mine /\ pc \in [Threads -> Places] /\ producerListTail' = producerListTail
  BY DEF GoOn, OwnerInv, OwnerTypes, listVars
<1>2. \A u \in Threads : pc[u] \in Owning /\ mine[u] = mine[t] => u = t
  BY DEF OwnerInv
<1>3. \A u \in Threads : pc'[u] = IF u = t THEN place ELSE pc[u]
  BY <1>1
<1>4. ASSUME NEW X \in SUBSET Owning
      PROVE  Busy(p, X)' <=> place \in X
  BY <1>1, <1>2, <1>3 DEF Busy
<1>5. ASSUME NEW q \in Producers \ {p}
      PROVE  SameBusy(q)
  BY <1>1, <1>3 DEF Busy, SameBusy
<1>6. \A q : InList(q)' <=> InList(q)
  BY <1>1 DEF InList
<1> QED BY <1>4, <1>5, <1>6

(* What is counted as dequeued, when the consumer does nothing. *)
LEMMA ReadingUnchanged ==
  ASSUME UNCHANGED <<cpc, call, headIndex>>, NEW q
  PROVE  (Reading(q)' <=> Reading(q)) /\ SameReading(q)
  BY DEF Reading, SameReading, Dequeued

(* What remains to be shown of such a step.                                *)
LEMMA OwnerStepKeepsRing ==
  ASSUME OwnerInv, RingInv, NEW t \in Threads, pc[t] \in Owning, NEW p \in Producers, p = mine[t],
         NEW place \in Owning, OwnerStep(t, place),
         RingTypes', RingAt(p)', tailIndex'[p] >= tailIndex[p],
         \A q \in Producers \ {p} : Apart(p, q)',
         call.asked = p => LocateOk' /\ ProcessOk'
  PROVE  RingInv'
<1>1. UNCHANGED <<cpc, token, call, headIndex, consumed>> /\ RingTypes
  BY DEF OwnerStep, GoOn, callVars, RingInv
<1>2. \A q \in Producers \ {p} : SameRing(q) /\ SameBusy(q)
  BY BusyAfter DEF OwnerStep
<1>3. \A q \in Producers : InList(q)' <=> InList(q)
  BY BusyAfter DEF OwnerStep
<1>4. ASSUME NEW q \in Producers \ {p}
      PROVE  RingAt(q)'
  <2>1. SameCommits(q)
    <3> SUFFICES ASSUME NEW u \in Threads, pc'[u] = "commit", mine'[u] = q
                 PROVE  pc[u] = "commit" /\ mine[u] = q /\ emitted'[u] = emitted[u]
      BY DEF SameCommits
    <3>1. u # t
      BY DEF OwnerStep, GoOn
    <3> QED BY <3>1 DEF OwnerStep, GoOn, OwnerInv, OwnerTypes
  <2>2. Kept(q)
    BY <1>1, <1>2, <1>3, <2>1, ReadingUnchanged DEF Kept, StillListed, OwnerStep
  <2>3. RingAt(q)
    BY DEF RingInv, RingAt
  <2> QED BY <1>1, <2>2, <2>3, RingKept
<1>5. ASSUME NEW q \in Producers
      PROVE  RingAt(q)'
  <2>1. CASE q = p
    BY <2>1
  <2>2. CASE q # p
    BY <1>4, <2>2
  <2> QED BY <2>1, <2>2
<1>6. CallOk'
  <2>1. \A q \in Producers : tailIndex[q] <= tailIndex'[q]
    <3>1. \A q \in Producers : tailIndex[q] \in Nat /\ tailIndex'[q] \in Nat
      BY <1>1 DEF RingTypes
    <3> QED BY <1>2, <3>1 DEF SameRing
  <2>2. cpc # "idle" => call.asked \in Producers
    BY QueueAssumption DEF RingInv, CallOk, InList, Calls, OwnerInv, OwnerTypes
  <2>3. /\ cpc # "idle" => InList(call.asked)' /\ token # None
        /\ token # None => InList(token)'
        /\ cpc \in {"ask", "claim"} /\ call.asked # token => InList(call.walkTail)'
    BY <1>1 DEF RingInv, CallOk, InList, OwnerStep, GoOn, listVars
  <2>4. cpc = "claim" => /\ call.count \in 1 .. BulkLimit
                         /\ headIndex[call.asked] + call.count <= tailIndex'[call.asked]
    <3> SUFFICES ASSUME cpc = "claim" PROVE headIndex[call.asked] + call.count <= tailIndex'[call.asked] /\ call.count \in 1 .. BulkLimit
      OBVIOUS
    <3>1. call.asked \in Producers
      BY <2>2
    <3>2. call.count \in 1 .. BulkLimit /\ headIndex[call.asked] + call.count <= tailIndex[call.asked]
      BY DEF RingInv, CallOk
    <3>3. headIndex[call.asked] \in Nat /\ tailIndex[call.asked] \in Nat /\ tailIndex'[call.asked] \in Nat
      BY <1>1, <3>1 DEF RingTypes
    <3>4. call.count \in Nat
      BY <3>2
    <3> QED BY <2>1, <3>1, <3>2, <3>3, <3>4
  <2> QED BY <1>1, <2>3, <2>4 DEF RingInv, CallOk
<1>7. \A q \in Producers : ConsumedOk(q)'
  <2>1. ChunkEnd' = ChunkEnd
    BY <1>1 DEF ChunkEnd
  <2>2. \A q \in Producers : Dequeued(q)' = Dequeued(q)
    BY <1>1, ReadingUnchanged DEF SameReading
  <2> QED BY <1>1, <2>1, <2>2 DEF RingInv, ConsumedOk
<1>8. ASSUME NEW q \in Producers, NEW r \in Producers, q # r
      PROVE  Apart(q, r)'
  <2>1. CASE q = p
    BY <1>8, <2>1
  <2>2. CASE r = p
    <3>1. Apart(r, q)'
      BY <1>8, <2>2
    <3> QED BY <3>1 DEF Apart
  <2>3. CASE q # p /\ r # p
    BY <1>2, <1>8, <2>3, ApartKept DEF RingInv
  <2> QED BY <2>1, <2>2, <2>3
<1>9. LocateOk' /\ ProcessOk'
  <2>1. CASE cpc = "idle"
    BY <1>1, <2>1 DEF LocateOk, ProcessOk
  <2>2. CASE cpc # "idle" /\ call.asked # p
    <3>1. call.asked \in Producers
      BY <2>2, QueueAssumption DEF RingInv, CallOk, InList, Calls, OwnerInv, OwnerTypes
    <3> QED BY <1>1, <1>2, <2>2, <3>1, CallKept DEF RingInv
  <2> QED BY <2>1, <2>2
<1> QED BY <1>5, <1>6, <1>7, <1>8, <1>9 DEF RingInv, RingAt
-----------------------------------------------------------------------------
(* The fields of a header. *)
LEMMA HeaderFields ==
  ASSUME NEW h \in Headers
  PROVE  /\ h.size \in Nat \ {0} /\ h.front \in -1 .. h.size - 1
         /\ h.entries \in [0 .. h.size - 1 -> [base : Nat, block : Nat]]
         /\ h = [size |-> h.size, front |-> h.front, entries |-> h.entries]
  BY DEF Headers

(* A header is made of its fields. *)
LEMMA HeaderMade ==
  ASSUME NEW n \in Nat \ {0}, NEW f \in -1 .. n - 1, NEW e \in [0 .. n - 1 -> [base : Nat, block : Nat]]
  PROVE  [size |-> n, front |-> f, entries |-> e] \in Headers
  BY DEF Headers

(* The current header is the last one published. *)
LEMMA HeaderOf ==
  ASSUME RingTypes, NEW p \in Producers, blockIndex[p] # <<>>
  PROVE  Header(p) \in Headers /\ Len(blockIndex[p]) \in Nat \ {0}
         /\ Header(p) = blockIndex[p][Len(blockIndex[p])]
<1>1. blockIndex[p] \in Seq(Headers)
  BY TypesOf
<1> QED BY <1>1 DEF Header

(* At first no producer has a block. *)
LEMMA NoBlockAtFirst == Init => RingInv
<1> SUFFICES ASSUME Init PROVE RingInv
  OBVIOUS
<1>1. EmptyHeader \in Headers /\ EmptyHeader.size = IndexSize /\ IndexSize \in Nat \ {0}
  <2>1. [i \in 0 .. IndexSize - 1 |-> NoEntry] \in [0 .. IndexSize - 1 -> [base : Nat, block : Nat]]
    BY DEF NoEntry
  <2>2. IndexSize \in Nat \ {0} /\ -1 \in -1 .. IndexSize - 1
    BY QueueAssumption
  <2> QED BY <2>1, <2>2, HeaderMade DEF EmptyHeader
<1>2. RingTypes
  <2>1. blockIndex \in [Producers -> Seq(Headers)]
    BY <1>1 DEF Init
  <2> QED BY <2>1 DEF Init, RingTypes
<1>3. CallOk
  BY DEF Init, CallOk, Calls, NoCall
<1>4. ASSUME NEW p \in Producers
      PROVE  /\ TailOk(p) /\ CountsOk(p) /\ RingOk(p) /\ ContentsOk(p) /\ IndexOk(p) /\ ConsumedOk(p)
  <2>1. /\ Count(p) = 0 /\ slotsUsed[p] = 0 /\ Window(p) = {} /\ tailIndex[p] = 0 /\ headIndex[p] = 0
        /\ Dequeued(p) = 0 /\ ~ Reading(p) /\ log[p] = <<>> /\ indexFront[p] = 0 /\ blockIndex[p] = <<EmptyHeader>>
    BY DEF Init, Count, Window, Dequeued, Reading
  <2>2. \A X \in SUBSET Working : ~ Busy(p, X)
    BY DEF Init, Busy, Working
  <2>3. From(1) = 0 /\ From(0) < 0 /\ From(0) \in Int
    <3>1. From(1) = 0 /\ From(0) \in Int /\ From(0) + BLOCK_SIZE = From(0 + 1)
      BY FromFacts
    <3> QED BY <3>1, QueueAssumption
  <2>4. TailOk(p)
    BY <2>1, <2>2, <2>3 DEF TailOk, Working
  <2>5. CountsOk(p)
    BY <2>1, <2>3 DEF CountsOk, Init
  <2>6. RingOk(p)
    BY <2>1 DEF RingOk
  <2>7. ContentsOk(p)
    BY <2>1 DEF ContentsOk, Init
  <2>8. NextOrd(p) = 1
    BY <2>1, <2>2 DEF NextOrd, Working
  <2>9. Header(p) = EmptyHeader
    BY <2>1 DEF Header
  <2>10. IndexOk(p)
    BY <1>1, <2>1, <2>8, <2>9 DEF IndexOk
  <2>11. ConsumedOk(p)
    BY <2>1 DEF ConsumedOk, Init
  <2> QED BY <2>4, <2>5, <2>6, <2>7, <2>10, <2>11
<1>5. \A p, q \in Producers : Apart(p, q)
  BY DEF Init, Apart, Window, Count
<1> QED BY <1>2, <1>3, <1>4, <1>5 DEF RingInv, LocateOk, ProcessOk, Init

-----------------------------------------------------------------------------
(* Steps which only concern the list and who owns what. *)
LEMMA ListStepKeepsRing ==
  ASSUME OwnerInv, RingInv, OwnerTypes',
         UNCHANGED <<indexVars, ringVars, blockVars, callVars, history>>,
         \A q \in Producers : SameBusy(q) /\ StillListed(q) /\ SameCommits(q),
         call.asked \in Producers => StillListed(call.asked)
  PROVE  RingInv'
<1>0. RingTypes' /\ RingTypes
  BY DEF RingInv, RingTypes, indexVars, ringVars, blockVars, history
<1>1. ASSUME NEW q \in Producers PROVE SameRing(q)
  BY DEF SameRing, indexVars, ringVars, history
<1>2. ASSUME NEW q \in Producers PROVE RingAt(q)'
  <2>1. SameReading(q)
    BY ReadingUnchanged DEF callVars, indexVars
  <2>2. SameBlocks(q)
    BY <1>0 DEF SameBlocks, blockVars, RingTypes
  <2>3. Kept(q)
    BY <1>1, <2>1, <2>2 DEF Kept
  <2> QED BY <1>0, <2>3, RingKept DEF RingInv, RingAt
<1>3. CallOk'
  <2>1. ASSUME NEW q, InList(q)
        PROVE  InList(q)'
    <3>1. q \in Producers
      BY <2>1 DEF InList, OwnerInv, OwnerTypes
    <3> QED BY <2>1, <3>1 DEF StillListed
  <2>2. /\ cpc # "idle" => InList(call.asked)' /\ token # None
        /\ token # None => InList(token)'
        /\ cpc \in {"ask", "claim"} /\ call.asked # token => InList(call.walkTail)'
    <3>1. PICK a, b, c : a = call.asked /\ b = token /\ c = call.walkTail
      OBVIOUS
    <3>2. (InList(a) => InList(a)') /\ (InList(b) => InList(b)') /\ (InList(c) => InList(c)')
      BY <2>1
    <3>3. /\ cpc # "idle" => InList(a) /\ token # None
          /\ token # None => InList(b)
          /\ cpc \in {"ask", "claim"} /\ call.asked # token => InList(c)
      BY <3>1 DEF RingInv, CallOk
    <3>4. call' = call /\ token' = token
      BY DEF callVars
    <3> QED BY <3>1, <3>2, <3>3, <3>4 DEF InList
  <2> QED BY <2>2 DEF RingInv, CallOk, callVars, indexVars
<1>4. \A q \in Producers : ConsumedOk(q)'
  BY DEF RingInv, ConsumedOk, Dequeued, Reading, ChunkEnd, callVars, indexVars, history
<1>5. \A p, q \in Producers : p # q => Apart(p, q)'
  BY <1>1, ApartKept DEF RingInv
<1>6. LocateOk' /\ ProcessOk'
  <2>1. CASE cpc = "idle"
    BY <2>1 DEF LocateOk, ProcessOk, callVars
  <2>2. CASE cpc # "idle"
    <3>1. call.asked \in Producers
      BY <2>2, QueueAssumption DEF RingInv, CallOk, InList, Calls, OwnerInv, OwnerTypes
    <3>2. PICK q \in Producers : q = call.asked
      BY <3>1
    <3>3. SameRing(q) /\ SameBusy(q)
      BY <1>1
    <3> QED BY <1>0, <3>2, <3>3, CallKept DEF RingInv, callVars, history
  <2> QED BY <2>1, <2>2
<1> QED BY <1>0, <1>2, <1>3, <1>4, <1>5, <1>6 DEF RingInv, RingAt
-----------------------------------------------------------------------------
(* Threads that come, take over a producer or end leave the rings alone. *)
LEMMA ListStep ==
  ASSUME OwnerInv, RingInv, NEW t \in Threads,
         StartThread(t) \/ Look(t) \/ Take(t) \/ CountProducer(t) \/ AddProducer(t) \/ SetToken(t) \/ ThreadExit(t)
  PROVE  RingInv'
<1> DEFINE act == StartThread(t) \/ Look(t) \/ Take(t) \/ CountProducer(t) \/ AddProducer(t) \/ SetToken(t) \/ ThreadExit(t)
<1>0. pc \in [Threads -> Places] /\ mine \in [Threads -> Producers \cup {None}]
  BY DEF OwnerInv, OwnerTypes
<1>1. UNCHANGED <<indexVars, ringVars, blockVars, callVars, history>>
  BY DEF StartThread, Look, Take, CountProducer, AddProducer, SetToken, ThreadExit, QueueUnchanged
<1>2. /\ pc[t] \notin Working /\ pc'[t] \notin Working
      /\ \A u \in Threads \ {t} : pc'[u] = pc[u] /\ mine'[u] = mine[u]
  BY <1>0 DEF StartThread, Look, Take, CountProducer, AddProducer, SetToken, ThreadExit, LookAt, Working
<1>3. ASSUME NEW q \in Producers
      PROVE  SameBusy(q) /\ SameCommits(q)
  <2>1. \A u \in Threads : pc'[u] \in Working <=> pc[u] \in Working
    BY <1>2
  <2>2. \A u \in Threads : pc[u] \in Working => pc'[u] = pc[u] /\ mine'[u] = mine[u]
    BY <1>2
  <2>3. SameBusy(q)
    BY <2>1, <2>2 DEF SameBusy, Busy
  <2>4. "commit" \in Working /\ emitted' = emitted
    BY <1>1 DEF Working, history
  <2> QED BY <2>1, <2>2, <2>3, <2>4 DEF SameCommits
<1>4. ASSUME NEW q \in Producers
      PROVE  StillListed(q)
  <2>1. CASE AddProducer(t)
    <3>1. producerListTail' = <<t>> \o producerListTail /\ producerListTail \in Seq(Producers)
      BY <2>1 DEF AddProducer, OwnerInv, OwnerTypes
    <3>2. Len(producerListTail') = Len(producerListTail) + 1
          /\ \A i \in 1 .. Len(producerListTail) : producerListTail'[i + 1] = producerListTail[i]
      BY <3>1
    <3>3. \A i \in 1 .. Len(producerListTail) : i + 1 \in 1 .. Len(producerListTail')
      BY <3>1, <3>2
    <3> QED BY <3>2, <3>3 DEF StillListed, InList
  <2>2. CASE ~ AddProducer(t)
    BY <2>2 DEF StartThread, Look, Take, CountProducer, SetToken, ThreadExit, listVars, StillListed, InList
  <2> QED BY <2>1, <2>2
<1>5. ProducerStep(t)
  BY DEF ProducerStep
<1>6. OwnerTypes'
  BY <1>5, OwnerSteps DEF OwnerInv
<1> QED BY <1>1, <1>3, <1>4, <1>6, ListStepKeepsRing

(* Steps of an owner which change nothing but the place. *)
LEMMA TailAfterIdle ==
  ASSUME RingInv, OwnerInv, NEW t \in Threads, NEW p \in Producers, p = mine[t], pc[t] = "idle"
  PROVE  From(Count(p)) < tailIndex[p] /\ tailIndex[p] <= From(Count(p) + 1)
<1>1. ~ Busy(p, {"entry", "front", "write", "commit"})
  BY OwnerIsAlone DEF Owning
<1> QED BY <1>1 DEF RingInv, TailOk

(* Whether a block is needed is seen from where the tail is. *)
LEMMA EnqueueBeginKeepsRing ==
  ASSUME OwnerInv, RingInv, NEW t \in Threads, EnqueueBegin(t)
  PROVE  RingInv'
<1> DEFINE place == IF tailIndex[mine[t]] % BLOCK_SIZE = 0 THEN "block" ELSE "write"
<1>0. pc[t] = "idle" /\ pc[t] \in Owning /\ GoOn(t, place) /\ place \in Owning
      /\ UNCHANGED <<indexVars, ringVars, blockVars, history>>
  BY DEF EnqueueBegin, Owning
<1>1. PICK p \in Producers : p = mine[t]
  BY <1>0, OwnerIsAlone
<1>2. RingTypes' /\ RingTypes
  BY <1>0 DEF RingInv, RingTypes, indexVars, ringVars, blockVars, history
<1>3. \A q \in Producers : SameRing(q) /\ SameBlocks(q)
  BY <1>0, <1>2 DEF SameRing, SameBlocks, RingTypes, indexVars, ringVars, blockVars, history
<1>4. UNCHANGED <<cpc, call, headIndex, consumed, emitted>>
  BY <1>0 DEF GoOn, callVars, indexVars, history
<1>5. OwnerStep(t, place)
  BY <1>0, <1>3, <1>4 DEF OwnerStep
<1>6. From(Count(p)) < tailIndex[p] /\ tailIndex[p] <= From(Count(p) + 1)
  BY <1>0, <1>1, TailAfterIdle
<1>t. tailIndex[p] \in Nat /\ Count(p) \in Nat
  BY <1>2, TypesOf
<1>7. IF place = "block" THEN tailIndex[p] = From(Count(p) + 1)
                         ELSE Count(p) > 0 /\ tailIndex[p] < From(Count(p) + 1)
  <2> DEFINE x == tailIndex[p]
             k == x \div BLOCK_SIZE + 1
  <2>0. place = (IF x % BLOCK_SIZE = 0 THEN "block" ELSE "write") /\ BLOCK_SIZE \in Nat \ {0}
    BY <1>1, QueueAssumption
  <2>1. k \in Int /\ From(k) <= x /\ x < From(k) + BLOCK_SIZE /\ x % BLOCK_SIZE = x - From(k)
    BY <1>t, OrdinalOf
  <2>2. From(k) \in Int /\ From(Count(p)) \in Int /\ From(Count(p) + 1) = From(Count(p)) + BLOCK_SIZE
    BY <1>t, <2>1, FromFacts
  <2> HIDE DEF k
  <2>3. CASE x < From(Count(p) + 1)
    <3>1. Count(p) = k
      <4>1. From(Count(p)) <= x /\ x < From(Count(p)) + BLOCK_SIZE
        BY <1>6, <1>t, <2>2, <2>3
      <4> QED BY <1>t, <2>1, <4>1, OrdinalUnique
    <3>2. x % BLOCK_SIZE # 0
      BY <1>6, <1>t, <2>1, <2>2, <3>1
    <3>3. Count(p) > 0
      <4>1. From(1) = 0 /\ From(0 + 1) = From(0) + BLOCK_SIZE
        BY FromFacts
      <4>2. Count(p) # 0
        BY <1>t, <2>3, <4>1
      <4> QED BY <1>t, <4>2
    <3> QED BY <2>0, <2>3, <3>2, <3>3
  <2>4. CASE x = From(Count(p) + 1)
    <3>1. k = Count(p) + 1
      <4>1. From(Count(p) + 1) <= x /\ x < From(Count(p) + 1) + BLOCK_SIZE
        BY <1>t, <2>0, <2>2, <2>4
      <4> QED BY <1>t, <2>1, <4>1, OrdinalUnique
    <3>2. x % BLOCK_SIZE = 0
      BY <2>1, <2>4, <3>1, <1>t
    <3> QED BY <2>0, <2>4, <3>2
  <2> QED BY <1>6, <1>t, <2>0, <2>2, <2>3, <2>4
<1>8. \A X \in SUBSET Owning : (Busy(p, X) <=> "idle" \in X) /\ (Busy(p, X)' <=> place \in X)
  BY <1>0, <1>1, OwnerIsAlone, BusyAfter
<1>b. /\ ~ Busy(p, {"entry", "front"})' /\ (Busy(p, {"write", "commit"})' <=> place = "write")
      /\ (Busy(p, {"block"})' <=> place = "block") /\ ~ Busy(p, {"commit"})'
      /\ (Busy(p, {"entry", "front", "write", "commit"})' <=> place = "write")
      /\ place \in {"block", "write"}
  BY <1>8 DEF Owning
<1>9. Count(p)' = Count(p) /\ Window(p)' = Window(p) /\ \A i : From(i)' = From(i)
  BY <1>3 DEF Count, Window, SameRing, From
<1>10. SameRing(p) /\ SameReading(p) /\ SameBlocks(p) /\ StillListed(p)
  BY <1>3, <1>4, <1>0, <1>1, ReadingUnchanged, BusyAfter DEF StillListed
<1>11. TailOk(p)'
  <2>1. From(Count(p)) <= tailIndex[p]
    BY <1>6, <1>t, FromFacts
  <2>2. tailIndex'[p] = tailIndex[p]
    BY <1>10 DEF SameRing
  <2> HIDE DEF place
  <2> QED BY <1>6, <1>7, <1>b, <1>9, <2>1, <2>2 DEF TailOk
<1>12. CountsOk(p)'
  BY <1>9, <1>10 DEF RingInv, CountsOk, SameRing, SameReading, StillListed
<1>13. RingOk(p)'
  BY <1>0, <1>9, <1>10 DEF RingInv, RingOk, SameRing, SameReading, blockVars, Clamp
<1>14. ContentsOk(p)'
  <2>1. \A u \in Threads : pc'[u] = "commit" /\ mine'[u] = p => FALSE
    BY <1>b DEF Busy
  <2> QED BY <1>0, <1>9, <1>10, <2>1 DEF RingInv, ContentsOk, SameRing, blockVars
<1>15. NextOrd(p)' = NextOrd(p) /\ NextOrd(p) = Count(p) + 1 /\ Header(p)' = Header(p)
       /\ \A i : Slot(p, i)' = Slot(p, i) /\ EntryOf(p, i)' = EntryOf(p, i)
  BY <1>8, <1>9, <1>10 DEF NextOrd, Header, Slot, EntryOf, SameRing, Owning
<1>16. IndexOk(p)'
  BY <1>8, <1>9, <1>10, <1>15 DEF RingInv, IndexOk, SameRing, Owning
<1>17. \A q \in Producers \ {p} : Apart(p, q)'
  BY <1>3, ApartKept DEF RingInv
<1>18. call.asked = p => LocateOk' /\ ProcessOk'
  <2> SUFFICES ASSUME call.asked = p PROVE LocateOk' /\ ProcessOk'
    OBVIOUS
  <2>1. Loaded' = Loaded /\ (IsCurrent' <=> IsCurrent)
    BY <1>4, <1>10 DEF Loaded, IsCurrent, SameRing
  <2>2. LocateOk'
    BY <1>4, <1>9, <1>10, <1>15, <2>1 DEF RingInv, LocateOk, SameRing
  <2>3. ProcessOk'
    BY <1>4, <1>9, <1>10, <1>15, <2>1 DEF RingInv, ProcessOk, SameRing, Ordinal
  <2> QED BY <2>2, <2>3
<1> HIDE DEF place
<1>19. RingAt(p)' /\ tailIndex'[p] >= tailIndex[p]
  BY <1>11, <1>12, <1>13, <1>14, <1>16, <1>10, <1>t DEF RingAt, SameRing
<1> QED BY <1>0, <1>1, <1>2, <1>5, <1>17, <1>18, <1>19, OwnerStepKeepsRing
-----------------------------------------------------------------------------
(* Blocks begin in their order. *)
LEMMA FromOrder ==
  ASSUME NEW i \in Int, NEW j \in Int, i <= j
  PROVE  From(i) <= From(j)
<1>1. From(i) \in Int /\ From(j) \in Int /\ BLOCK_SIZE \in Nat
  BY FromFacts, QueueAssumption
<1>2. CASE i = j
  BY <1>1, <1>2
<1>3. CASE i < j
  BY <1>1, <1>3, FromGrows
<1> QED BY <1>2, <1>3

(* Where the owner is, before and after its step. *)
LEMMA BusyFacts ==
  ASSUME OwnerInv, NEW t \in Threads, pc[t] \in Owning, NEW p, p = mine[t],
         NEW place \in Owning, GoOn(t, place)
  PROVE  /\ (Busy(p, {"entry", "front"}) <=> pc[t] \in {"entry", "front"})
         /\ (Busy(p, {"write", "commit"}) <=> pc[t] \in {"write", "commit"})
         /\ (Busy(p, {"block"}) <=> pc[t] = "block")
         /\ (Busy(p, {"front"}) <=> pc[t] = "front")
         /\ (Busy(p, {"entry", "front", "write", "commit"}) <=> pc[t] \in {"entry", "front", "write", "commit"})
         /\ (Busy(p, {"entry", "front"})' <=> place \in {"entry", "front"})
         /\ (Busy(p, {"write", "commit"})' <=> place \in {"write", "commit"})
         /\ (Busy(p, {"block"})' <=> place = "block")
         /\ (Busy(p, {"front"})' <=> place = "front")
         /\ (Busy(p, {"entry", "front", "write", "commit"})' <=> place \in {"entry", "front", "write", "commit"})
         /\ \A u \in Threads : mine'[u] = p /\ pc'[u] \in Owning => u = t
<1>1. \A X \in SUBSET Owning : (Busy(p, X) <=> pc[t] \in X) /\ (Busy(p, X)' <=> place \in X)
  BY OwnerIsAlone, BusyAfter
<1>2. /\ {"entry", "front"} \in SUBSET Owning /\ {"write", "commit"} \in SUBSET Owning
      /\ {"block"} \in SUBSET Owning /\ {"front"} \in SUBSET Owning
      /\ {"entry", "front", "write", "commit"} \in SUBSET Owning
  BY DEF Owning
<1>3. \A u \in Threads : mine'[u] = p /\ pc'[u] \in Owning => u = t
  BY DEF GoOn, OwnerInv, OwnerTypes
<1>4. /\ (Busy(p, {"entry", "front"}) <=> pc[t] \in {"entry", "front"})
      /\ (Busy(p, {"entry", "front"})' <=> place \in {"entry", "front"})
  BY <1>1, <1>2
<1>5. /\ (Busy(p, {"write", "commit"}) <=> pc[t] \in {"write", "commit"})
      /\ (Busy(p, {"write", "commit"})' <=> place \in {"write", "commit"})
  BY <1>1, <1>2
<1>6. (Busy(p, {"block"}) <=> pc[t] \in {"block"}) /\ (Busy(p, {"block"})' <=> place \in {"block"})
  BY <1>1, <1>2
<1>7. (Busy(p, {"front"}) <=> pc[t] \in {"front"}) /\ (Busy(p, {"front"})' <=> place \in {"front"})
  BY <1>1, <1>2
<1>8. /\ (Busy(p, {"entry", "front", "write", "commit"}) <=> pc[t] \in {"entry", "front", "write", "commit"})
      /\ (Busy(p, {"entry", "front", "write", "commit"})' <=> place \in {"entry", "front", "write", "commit"})
  BY <1>1, <1>2
<1> QED BY <1>3, <1>4, <1>5, <1>6, <1>7, <1>8

(* What holds of the producer whose owner makes a step. *)
LEMMA StepBegins ==
  ASSUME OwnerInv, RingInv, NEW t \in Threads, pc[t] \in Owning
  PROVE  \E p \in Producers :
           /\ p = mine[t] /\ InList(p) /\ RingTypes /\ RingAt(p)
           /\ Window(p) \subseteq 1 .. Count(p)
           /\ Count(p) > 0 => Count(p) \in Window(p) /\ Count(p) - slotsUsed[p] + 1 \in Window(p)
           /\ \A i \in Window(p) : Count(p) - i < slotsUsed[p]
<1>1. PICK p \in Producers : p = mine[t] /\ InList(p)
  BY OwnerIsAlone
<1>2. RingTypes /\ RingAt(p)
  BY DEF RingInv, RingAt
<1> QED BY <1>1, <1>2, WindowFacts DEF RingAt

(* The consumer's call, where the entries it may read are the same.        *)
LEMMA CallKeptAt ==
  ASSUME UNCHANGED <<cpc, call>>, NEW p \in Producers, call.asked = p,
         blockIndex'[p] = blockIndex[p], filled'[p] = filled[p], NextOrd(p)' >= NextOrd(p),
         NextOrd(p) \in Int, NextOrd(p)' \in Int,
         \A i \in 1 .. Count(p) : Slot(p, i)' = Slot(p, i), RingTypes, RingInv
  PROVE  LocateOk' /\ ProcessOk'
<1>1. Count(p)' = Count(p) /\ \A i : From(i)' = From(i) /\ EntryOf(p, i)' = EntryOf(p, i)
  BY DEF Count, From, EntryOf
<1>2. Loaded' = Loaded /\ (IsCurrent' <=> IsCurrent)
  BY DEF Loaded, IsCurrent
<1>3. LocateOk'
  <2> SUFFICES ASSUME cpc = "locate" PROVE LocateOk'
    BY DEF LocateOk
  <2>1. PICK F \in 1 .. Count(p) :
         /\ call.end <= From(F + 1)
         /\ \A i \in 1 .. F : call.index < From(i + 1) =>
              Loaded.entries[(call.front - (F - i)) % Loaded.size] = EntryOf(p, i)
         /\ IsCurrent => F < NextOrd(p) /\ call.front = Slot(p, F)
    BY DEF RingInv, LocateOk
  <2>2. F \in Int /\ F \in 1 .. Count(p)'
    BY <1>1, <2>1, TypesOf
  <2>3. IsCurrent' => F < NextOrd(p)' /\ call'.front = Slot(p, F)'
    BY <1>2, <2>1, <2>2
  <2>4. /\ call'.end <= From(F + 1)'
        /\ \A i \in 1 .. F : call'.index < From(i + 1)' =>
              Loaded'.entries[(call'.front - (F - i)) % Loaded'.size] = EntryOf(p, i)'
    BY <1>1, <1>2, <2>1
  <2>5. call.header \in 1 .. Len(blockIndex[p]) /\ call.front \in 0 .. Loaded.size - 1
    BY DEF RingInv, LocateOk
  <2> QED BY <1>1, <1>2, <2>2, <2>3, <2>4, <2>5 DEF LocateOk
<1>4. ProcessOk'
  <2> SUFFICES ASSUME cpc \in {"process", "empty"} PROVE ProcessOk'
    BY DEF ProcessOk
  <2>0. /\ call.header \in 1 .. Len(blockIndex[p]) /\ call.at \in 0 .. Loaded.size - 1
        /\ \A i \in 1 .. Count(p) : call.index < From(i + 1) /\ From(i) < call.end =>
             Loaded.entries[(call.at + (i - Ordinal)) % Loaded.size].block = filled[p][i]
        /\ IsCurrent => Ordinal < NextOrd(p) /\ call.at = Slot(p, Ordinal)
        /\ \A i \in 1 .. Count(p) : From(i) < call.end /\ IsCurrent => i < NextOrd(p)
    BY DEF RingInv, ProcessOk
  <2>1. call.index \in Nat /\ BLOCK_SIZE \in Nat \ {0} /\ call.index < headIndex[p]
    BY QueueAssumption DEF RingInv, CallOk, Calls
  <2>2. Ordinal \in 1 .. Count(p)
    <3>1. Ordinal \in Nat \ {0} /\ From(Ordinal) <= call.index
      BY <2>1, OrdinalOf DEF Ordinal
    <3>2. tailIndex[p] <= From(Count(p) + 1) /\ headIndex[p] <= tailIndex[p]
      <4>1. TailOk(p) /\ CountsOk(p)
        BY DEF RingInv
      <4>2. Count(p) \in Int /\ tailIndex[p] \in Nat /\ From(Count(p)) \in Int /\ From(Count(p) + 1) \in Int
        BY TypesOf, FromFacts
      <4>3. From(Count(p)) <= From(Count(p) + 1)
        BY <2>1, <4>2, FromFacts
      <4>4. Busy(p, {"entry", "front"}) \/ Busy(p, {"write", "commit"}) \/ ~ Busy(p, {"entry", "front", "write", "commit"})
        BY DEF Busy
      <4> QED BY <4>1, <4>2, <4>3, <4>4 DEF TailOk, CountsOk
    <3>3. Ordinal < Count(p) + 1
      <4> SUFFICES ASSUME Count(p) + 1 <= Ordinal PROVE FALSE
        BY <3>1, TypesOf
      <4>1. From(Count(p) + 1) <= From(Ordinal)
        <5>1. Count(p) + 1 \in Int /\ Ordinal \in Int
          BY <3>1, TypesOf
        <5> HIDE DEF Ordinal, Count, From
        <5> QED BY <5>1, FromOrder
      <4>2. From(Count(p) + 1) \in Int /\ From(Ordinal) \in Int /\ tailIndex[p] \in Nat /\ headIndex[p] \in Nat
        BY <3>1, TypesOf, FromFacts
      <4> QED BY <2>1, <3>1, <3>2, <4>1, <4>2
    <3> QED BY <3>1, <3>3, TypesOf
  <2>3. Ordinal' = Ordinal
    BY DEF Ordinal
  <2>4. IsCurrent' => Ordinal' < NextOrd(p)' /\ call'.at = Slot(p, Ordinal)'
    <3>1. PICK k \in 1 .. Count(p) : k = Ordinal
      BY <2>2
    <3>2. Slot(p, k)' = Slot(p, k) /\ Slot(p, Ordinal)' = Slot(p, k)'
      BY <2>3, <3>1 DEF Slot
    <3> QED BY <1>2, <2>0, <2>3, <3>1, <3>2
  <2>5. \A i \in 1 .. Count(p) : From(i)' < call'.end /\ IsCurrent' => i < NextOrd(p)'
    BY <1>1, <1>2, <2>0
  <2>6. \A i \in 1 .. Count(p) : call'.index < From(i + 1)' /\ From(i)' < call'.end =>
             Loaded'.entries[(call'.at + (i - Ordinal')) % Loaded'.size].block = filled'[p][i]
    BY <1>1, <1>2, <2>0, <2>3
  <2> QED BY <1>1, <1>2, <2>0, <2>4, <2>5, <2>6 DEF ProcessOk
<1> QED BY <1>3, <1>4
-----------------------------------------------------------------------------
(* All that is committed lies before the block that the index gets next.   *)
LEMMA TailBound ==
  ASSUME RingTypes, NEW p \in Producers, TailOk(p)
  PROVE  /\ tailIndex[p] <= From(NextOrd(p)) /\ NextOrd(p) \in Nat /\ NextOrd(p) <= Count(p) + 1
         /\ From(NextOrd(p)) \in Int /\ tailIndex[p] \in Nat
<1>1. Count(p) \in Nat /\ tailIndex[p] \in Nat
  BY TypesOf
<1>2. CASE Busy(p, {"entry", "front"})
  <2>1. NextOrd(p) = Count(p) /\ tailIndex[p] = From(Count(p))
    BY <1>2 DEF NextOrd, TailOk
  <2> QED BY <1>1, <2>1, FromFacts
<1>3. CASE ~ Busy(p, {"entry", "front"})
  <2>1. NextOrd(p) = Count(p) + 1
    BY <1>3 DEF NextOrd
  <2>2. From(Count(p) + 1) \in Int
    BY <1>1, FromFacts
  <2>3. Busy(p, {"write", "commit"}) \/ ~ Busy(p, {"entry", "front", "write", "commit"})
    BY <1>3 DEF Busy
  <2>4. tailIndex[p] <= From(Count(p) + 1)
    BY <1>1, <2>2, <2>3 DEF TailOk
  <2> QED BY <1>1, <2>1, <2>2, <2>4
<1> QED BY <1>2, <1>3

(* An item not yet processed is in a block of the window that has its      *)
(* entry in the index.                                                     *)
LEMMA ItemListed ==
  ASSUME RingTypes, NEW p \in Producers, TailOk(p), CountsOk(p),
         NEW x \in Nat, From(Count(p) - slotsUsed[p] + 1) <= x, x < tailIndex[p]
  PROVE  x \div BLOCK_SIZE + 1 \in Window(p) /\ x \div BLOCK_SIZE + 1 < NextOrd(p)
<1>1. PICK k \in Nat \ {0} : k = x \div BLOCK_SIZE + 1 /\ From(k) <= x /\ x < From(k) + BLOCK_SIZE
  BY OrdinalOf
<1>2. Count(p) \in Nat /\ slotsUsed[p] \in Nat /\ slotsUsed[p] <= Count(p) /\ BLOCK_SIZE \in Nat
  BY TypesOf, QueueAssumption DEF CountsOk
<1>3. PICK a \in Int : a = Count(p) - slotsUsed[p] + 1
  BY <1>2
<1>4. From(k) \in Int /\ From(a) \in Int /\ From(k + 1) = From(k) + BLOCK_SIZE
  BY FromFacts
<1>5. PICK m \in Nat : m = NextOrd(p) /\ m <= Count(p) + 1 /\ tailIndex[p] <= From(m) /\ From(m) \in Int
                       /\ tailIndex[p] \in Nat
  BY TailBound
<1>6. k < m
  <2>1. m <= k => From(m) <= From(k)
    BY FromOrder
  <2> QED BY <1>1, <1>4, <1>5, <2>1
<1>7. a <= k
  <2>1. k < a => From(k) + BLOCK_SIZE <= From(a)
    BY FromGrows
  <2> QED BY <1>1, <1>2, <1>3, <1>4, <2>1
<1>8. k \in Window(p)
  BY <1>2, <1>3, <1>5, <1>6, <1>7 DEF Window
<1> QED BY <1>1, <1>5, <1>6, <1>8

(* A block that begins before the tail has its entry in the index. *)
LEMMA BeforeTail ==
  ASSUME RingTypes, NEW p \in Producers, TailOk(p), NEW i \in Int, From(i) < tailIndex[p]
  PROVE  i < NextOrd(p)
<1>1. PICK m \in Nat : m = NextOrd(p) /\ tailIndex[p] <= From(m) /\ From(m) \in Int /\ tailIndex[p] \in Nat
  BY TailBound
<1>2. m <= i => From(m) <= From(i)
  BY FromOrder
<1>3. From(i) \in Int
  BY FromFacts
<1> QED BY <1>1, <1>2, <1>3

-----------------------------------------------------------------------------
(* The item filled in becomes the next of the log. *)
LEMMA CommitKeepsRing ==
  ASSUME OwnerInv, RingInv, NEW t \in Threads, Commit(t)
  PROVE  RingInv'
<1>0. pc[t] = "commit" /\ pc[t] \in Owning /\ GoOn(t, "idle") /\ "idle" \in Owning
  BY DEF Commit, Owning
<1>1. PICK p \in Producers : /\ p = mine[t] /\ InList(p) /\ RingTypes /\ RingAt(p)
                             /\ Window(p) \subseteq 1 .. Count(p)
  BY <1>0, StepBegins
<1>2. /\ tailIndex' = [tailIndex EXCEPT ![p] = @ + 1]
      /\ log' = [log EXCEPT ![p] = Append(@, Event(t))]
      /\ emitted' = [emitted EXCEPT ![t] = @ + 1]
      /\ UNCHANGED <<headIndex, ringVars, blockVars, filled, consumed>>
  BY <1>1 DEF Commit
<1>3. /\ ~ Busy(p, {"entry", "front"}) /\ Busy(p, {"write", "commit"})
      /\ ~ Busy(p, {"entry", "front"})' /\ ~ Busy(p, {"write", "commit"})' /\ ~ Busy(p, {"block"})'
      /\ ~ Busy(p, {"front"})' /\ ~ Busy(p, {"front"})
      /\ ~ Busy(p, {"entry", "front", "write", "commit"})'
      /\ \A u \in Threads : mine'[u] = p /\ pc'[u] \in Owning => u = t
  BY <1>0, <1>1, BusyFacts
<1>t. tailIndex[p] \in Nat /\ Count(p) \in Nat /\ log[p] \in Seq(Events) /\ headIndex[p] \in Nat
  BY <1>1, TypesOf
<1>e. Event(t) \in Events
  BY DEF Event, Events, OwnerInv, OwnerTypes
<1>4. RingTypes'
  <2>1. tailIndex' \in [Producers -> Nat]
    BY <1>1, <1>2 DEF RingTypes
  <2>2. log' \in [Producers -> Seq(Events)]
    BY <1>1, <1>2, <1>e DEF RingTypes
  <2> QED BY <1>1, <1>2, <2>1, <2>2 DEF RingTypes, ringVars, blockVars
<1>5. /\ tailIndex'[p] = tailIndex[p] + 1 /\ Len(log'[p]) = Len(log[p]) + 1
      /\ log'[p][Len(log[p]) + 1] = Event(t)
      /\ \A i \in 1 .. Len(log[p]) : log'[p][i] = log[p][i]
      /\ filled'[p] = filled[p] /\ blockIndex'[p] = blockIndex[p]
  BY <1>1, <1>2, <1>t DEF RingTypes, ringVars
<1>6. OwnerStep(t, "idle")
  <2>1. \A q \in Producers \ {p} : SameRing(q)
    BY <1>1, <1>2 DEF SameRing, RingTypes, ringVars
  <2>2. \A q \in Producers : SameBlocks(q)
    BY <1>1, <1>2 DEF SameBlocks, blockVars, RingTypes
  <2>3. \A u \in Threads \ {t} : emitted'[u] = emitted[u]
    BY <1>2 DEF OwnerInv, OwnerTypes
  <2> QED BY <1>0, <1>1, <1>2, <2>1, <2>2, <2>3 DEF OwnerStep
<1>7. Count(p) > 0 /\ From(Count(p)) <= tailIndex[p] /\ tailIndex[p] < From(Count(p) + 1)
      /\ Len(log[p]) = tailIndex[p]
  BY <1>1, <1>3 DEF RingAt, TailOk, CountsOk
<1>8. Count(p)' = Count(p) /\ Window(p)' = Window(p) /\ \A i : From(i)' = From(i)
  BY <1>2 DEF Count, Window, From, ringVars
<1>9. SameReading(p)
  BY <1>0, <1>2, ReadingUnchanged DEF GoOn, callVars
<1>10. TailOk(p)'
  <2>1. From(Count(p)) \in Int /\ From(Count(p) + 1) \in Int
    BY <1>t, FromFacts
  <2> QED BY <1>3, <1>5, <1>7, <1>8, <1>t, <2>1 DEF TailOk
<1>11. CountsOk(p)'
  <2>1. InList(p)'
    BY <1>0, <1>1 DEF InList, GoOn, listVars
  <2>2. headIndex'[p] <= tailIndex'[p]
    BY <1>1, <1>2, <1>5, <1>t DEF RingAt, CountsOk
  <2>3. slotsUsed'[p] = slotsUsed[p] /\ tailBlock'[p] = tailBlock[p] /\ headIndex'[p] = headIndex[p]
    BY <1>2 DEF ringVars
  <2> QED BY <1>1, <1>5, <1>7, <1>8, <1>9, <2>1, <2>2, <2>3 DEF RingAt, CountsOk, SameReading
<1>12. RingOk(p)'
  BY <1>1, <1>2, <1>8, <1>9 DEF RingAt, RingOk, SameReading, blockVars, ringVars, Clamp
<1>13. ContentsOk(p)'
  <2>1. ASSUME NEW i \in Window(p), NEW o \in Slots, From(i) + o < tailIndex'[p]
        PROVE  elements[filled[p][i]][o] = log'[p][From(i) + o + 1]
    <3>1. i \in 1 .. Count(p) /\ i \in Int /\ From(i) \in Int /\ BLOCK_SIZE \in Nat \ {0} /\ o \in 0 .. BLOCK_SIZE - 1
      BY <1>1, <1>t, FromFacts, QueueAssumption DEF Slots
    <3>2. CASE From(i) + o < tailIndex[p]
      <4>1. From(1) <= From(i) /\ From(1) = 0
        BY <3>1, FromOrder, FromFacts
      <4>2. From(i) + o + 1 \in 1 .. Len(log[p])
        BY <1>7, <1>t, <3>1, <3>2, <4>1
      <4> QED BY <1>1, <1>5, <3>2, <4>2 DEF RingAt, ContentsOk
    <3>3. CASE From(i) + o = tailIndex[p]
      <4>1. From(i) <= tailIndex[p] /\ tailIndex[p] < From(i) + BLOCK_SIZE
        BY <3>1, <3>3
      <4>2. From(Count(p) + 1) = From(Count(p)) + BLOCK_SIZE
        BY <1>t, FromFacts
      <4>3. i = Count(p)
        BY <1>7, <1>t, <3>1, <4>1, <4>2, OrdinalUnique
      <4>4. i = tailIndex[p] \div BLOCK_SIZE + 1
        <5>1. PICK k \in Nat : k = tailIndex[p] \div BLOCK_SIZE + 1 /\ From(k) <= tailIndex[p] /\ tailIndex[p] < From(k) + BLOCK_SIZE
          BY <1>t, OrdinalOf
        <5>2. k = i
          BY <1>t, <3>1, <4>1, <5>1, OrdinalUnique
        <5> QED BY <5>1, <5>2
      <4>5. tailIndex[p] % BLOCK_SIZE = o
        <5>1. tailIndex[p] % BLOCK_SIZE = tailIndex[p] - From(i)
          BY <1>t, <4>4, OrdinalOf
        <5> QED BY <3>1, <3>3, <5>1
      <4>6. elements[tailBlock[p]][o] = Event(t)
        BY <1>0, <1>1, <4>5 DEF RingAt, ContentsOk
      <4>7. tailBlock[p] = filled[p][i]
        BY <1>1, <1>7, <4>3 DEF RingAt, CountsOk
      <4> QED BY <1>5, <1>7, <3>3, <4>6, <4>7
    <3> QED BY <1>5, <1>t, <2>1, <3>1, <3>2, <3>3
  <2>2. \A u \in Threads : pc'[u] = "commit" /\ mine'[u] = p => FALSE
    BY <1>3 DEF Busy
  <2> QED BY <1>2, <1>5, <1>8, <2>1, <2>2 DEF ContentsOk, blockVars, ringVars
<1>14. NextOrd(p)' = NextOrd(p) /\ NextOrd(p) = Count(p) + 1 /\ Header(p)' = Header(p)
       /\ \A i : Slot(p, i)' = Slot(p, i) /\ EntryOf(p, i)' = EntryOf(p, i)
  BY <1>2, <1>3, <1>5, <1>8 DEF NextOrd, Header, Slot, EntryOf, ringVars
<1>15. IndexOk(p)'
  BY <1>1, <1>2, <1>3, <1>8, <1>14 DEF RingAt, IndexOk, ringVars
<1>16. \A q \in Producers \ {p} : Apart(p, q)'
  BY <1>2 DEF RingInv, Apart, Window, Count, ringVars
<1>17. call.asked = p => LocateOk' /\ ProcessOk'
  BY <1>0, <1>1, <1>5, <1>14, <1>t, CallKeptAt DEF GoOn, callVars
<1>18. RingAt(p)' /\ tailIndex'[p] >= tailIndex[p]
  BY <1>5, <1>10, <1>11, <1>12, <1>13, <1>15, <1>t DEF RingAt
<1> QED BY <1>0, <1>1, <1>4, <1>6, <1>16, <1>17, <1>18, OwnerStepKeepsRing
-----------------------------------------------------------------------------
(* The block of the item being filled in, and which of its items it is.    *)
LEMMA WhereTailIs ==
  ASSUME RingTypes, NEW p \in Producers, CountsOk(p), Count(p) > 0,
         From(Count(p)) <= tailIndex[p], tailIndex[p] < From(Count(p) + 1)
  PROVE  /\ tailIndex[p] % BLOCK_SIZE = tailIndex[p] - From(Count(p))
         /\ tailIndex[p] % BLOCK_SIZE \in Slots
         /\ tailBlock[p] = filled[p][Count(p)]
<1>1. tailIndex[p] \in Nat /\ Count(p) \in Nat
  BY TypesOf
<1>2. PICK k \in Nat : /\ k = tailIndex[p] \div BLOCK_SIZE + 1
                       /\ From(k) <= tailIndex[p] /\ tailIndex[p] < From(k) + BLOCK_SIZE
                       /\ tailIndex[p] % BLOCK_SIZE = tailIndex[p] - From(k)
                       /\ tailIndex[p] % BLOCK_SIZE \in Slots
  BY <1>1, OrdinalOf
<1>3. From(Count(p) + 1) = From(Count(p)) + BLOCK_SIZE
  BY <1>1, FromFacts
<1>4. k = Count(p)
  BY <1>1, <1>2, <1>3, OrdinalUnique
<1> QED BY <1>2, <1>4 DEF CountsOk

(* An item is filled in where nothing is committed. *)
LEMMA WriteItemKeepsRing ==
  ASSUME OwnerInv, RingInv, NEW t \in Threads, WriteItem(t)
  PROVE  RingInv'
<1>0. pc[t] = "write" /\ pc[t] \in Owning /\ GoOn(t, "commit") /\ "commit" \in Owning
  BY DEF WriteItem, Owning
<1>1. PICK p \in Producers : /\ p = mine[t] /\ InList(p) /\ RingTypes /\ RingAt(p)
                             /\ Window(p) \subseteq 1 .. Count(p)
                             /\ (Count(p) > 0 => Count(p) \in Window(p))
  BY <1>0, StepBegins
<1> DEFINE b == tailBlock[p]
           o == tailIndex[p] % BLOCK_SIZE
<1>2. /\ elements' = [elements EXCEPT ![b][o] = Event(t)]
      /\ UNCHANGED <<indexVars, ringVars, next, dequeued, history>>
  BY <1>1 DEF WriteItem
<1>3. /\ ~ Busy(p, {"entry", "front"}) /\ Busy(p, {"write", "commit"})
      /\ ~ Busy(p, {"entry", "front"})' /\ Busy(p, {"write", "commit"})' /\ ~ Busy(p, {"block"})'
      /\ ~ Busy(p, {"front"})' /\ ~ Busy(p, {"front"})
      /\ Busy(p, {"entry", "front", "write", "commit"})'
      /\ \A u \in Threads : mine'[u] = p /\ pc'[u] \in Owning => u = t
  BY <1>0, <1>1, BusyFacts
<1>t. tailIndex[p] \in Nat /\ Count(p) \in Nat
  BY <1>1, TypesOf
<1>e. Event(t) \in Events /\ Event(t)' = Event(t)
  BY <1>2 DEF Event, Events, OwnerInv, OwnerTypes, history
<1>4. Count(p) > 0 /\ From(Count(p)) <= tailIndex[p] /\ tailIndex[p] < From(Count(p) + 1)
  BY <1>1, <1>3 DEF RingAt, TailOk
<1>5. o = tailIndex[p] - From(Count(p)) /\ o \in Slots /\ b = filled[p][Count(p)]
  BY <1>1, <1>4, WhereTailIs DEF RingAt
<1>6. b \in 1 .. Len(elements) /\ elements \in Seq([Slots -> Events]) /\ Len(elements) = Len(next)
  BY <1>1, <1>4, <1>5, <1>t DEF RingAt, RingOk, RingTypes
<1> HIDE DEF b, o
<1>7. /\ elements' \in Seq([Slots -> Events]) /\ Len(elements') = Len(elements)
      /\ elements'[b][o] = Event(t)
      /\ \A i \in Slots : i # o => elements'[b][i] = elements[b][i]
      /\ \A c \in 1 .. Len(next) : c # b => elements'[c] = elements[c]
  <2>1. elements[b] \in [Slots -> Events]
    BY <1>6
  <2>2. [elements[b] EXCEPT ![o] = Event(t)] \in [Slots -> Events]
    BY <1>5, <1>e, <2>1
  <2>3. elements' = [elements EXCEPT ![b] = [elements[b] EXCEPT ![o] = Event(t)]]
    BY <1>2
  <2> QED BY <1>5, <1>6, <2>1, <2>2, <2>3
<1>8. RingTypes'
  BY <1>1, <1>2, <1>7 DEF RingTypes, ringVars, indexVars, history
<1>9. OwnerStep(t, "commit")
  <2>1. \A q \in Producers \ {p} : SameRing(q)
    BY <1>2 DEF SameRing, ringVars, indexVars, history
  <2>2. ASSUME NEW q \in Producers \ {p} PROVE SameBlocks(q)
    <3>1. \A i \in Window(q) : filled[q][i] # b
      BY <1>1, <1>4, <1>5 DEF RingInv, Apart
    <3>2. Window(q) \subseteq 1 .. Count(q) /\ \A i \in 1 .. Count(q) : filled[q][i] \in 1 .. Len(next)
      BY WindowFacts DEF RingInv, RingOk
    <3>3. \A i \in Window(q) : elements'[filled[q][i]] = elements[filled[q][i]]
      BY <1>7, <3>1, <3>2
    <3>4. Len(next) <= Len(next)
      BY <1>1, TypesOf
    <3> QED BY <1>2, <3>3, <3>4 DEF SameBlocks
  <2>3. UNCHANGED <<headIndex, consumed, emitted>>
    BY <1>2 DEF indexVars, history
  <2> QED BY <1>0, <1>1, <2>1, <2>2, <2>3 DEF OwnerStep
<1>10. SameRing(p) /\ SameReading(p)
  BY <1>0, <1>2, ReadingUnchanged DEF GoOn, callVars, SameRing, ringVars, indexVars, history
<1>11. Count(p)' = Count(p) /\ Window(p)' = Window(p) /\ \A i : From(i)' = From(i)
  BY <1>10 DEF Count, Window, From, SameRing
<1>12. TailOk(p)'
  BY <1>3, <1>4, <1>10, <1>11 DEF TailOk, SameRing
<1>13. CountsOk(p)'
  <2>1. InList(p)'
    BY <1>0, <1>1 DEF InList, GoOn, listVars
  <2> QED BY <1>1, <1>10, <1>11, <2>1 DEF RingAt, CountsOk, SameRing, SameReading
<1>14. RingOk(p)'
  BY <1>1, <1>2, <1>10, <1>11 DEF RingAt, RingOk, SameRing, SameReading, Clamp
<1>15. ContentsOk(p)'
  <2>1. ASSUME NEW i \in Window(p), NEW a \in Slots, From(i) + a < tailIndex[p]
        PROVE  elements'[filled[p][i]][a] = log[p][From(i) + a + 1]
    <3>1. elements[filled[p][i]][a] = log[p][From(i) + a + 1]
      BY <1>1, <2>1 DEF RingAt, ContentsOk
    <3>2. CASE i = Count(p)
      <4>1. a # o
        <5>1. From(Count(p)) \in Int /\ a \in Int
          BY <1>t, FromFacts DEF Slots
        <5> QED BY <1>5, <1>t, <2>1, <3>2, <5>1
      <4> QED BY <1>5, <1>7, <3>1, <3>2, <4>1
    <3>3. CASE i # Count(p)
      <4>1. filled[p][i] # b /\ filled[p][i] \in 1 .. Len(next)
        BY <1>1, <1>4, <1>5, <3>3 DEF RingAt, RingOk
      <4> QED BY <1>7, <3>1, <4>1
    <3> QED BY <3>2, <3>3
  <2>2. ASSUME NEW u \in Threads, pc'[u] = "commit", mine'[u] = p
        PROVE  elements'[tailBlock'[p]][tailIndex'[p] % BLOCK_SIZE] = Event(u)'
    <3>1. u = t
      BY <1>3, <2>2 DEF Owning
    <3> QED BY <1>7, <1>10, <1>e, <3>1 DEF SameRing, b, o
  <2>3. filled'[p] = filled[p] /\ log'[p] = log[p] /\ tailIndex'[p] = tailIndex[p]
    BY <1>10 DEF SameRing
  <2> QED BY <1>11, <2>1, <2>2, <2>3 DEF ContentsOk
<1>16. NextOrd(p)' = NextOrd(p) /\ NextOrd(p) = Count(p) + 1 /\ Header(p)' = Header(p)
       /\ \A i : Slot(p, i)' = Slot(p, i) /\ EntryOf(p, i)' = EntryOf(p, i)
  BY <1>3, <1>10, <1>11 DEF NextOrd, Header, Slot, EntryOf, SameRing
<1>17. IndexOk(p)'
  BY <1>1, <1>3, <1>10, <1>11, <1>16 DEF RingAt, IndexOk, SameRing
<1>18. \A q \in Producers \ {p} : Apart(p, q)'
  BY <1>2 DEF RingInv, Apart, Window, Count, ringVars, history
<1>19. call.asked = p => LocateOk' /\ ProcessOk'
  BY <1>0, <1>1, <1>10, <1>16, <1>t, CallKeptAt DEF GoOn, callVars, SameRing
<1>20. RingAt(p)' /\ tailIndex'[p] >= tailIndex[p]
  BY <1>10, <1>12, <1>13, <1>14, <1>15, <1>17, <1>t DEF RingAt, SameRing
<1> QED BY <1>0, <1>1, <1>8, <1>9, <1>18, <1>19, <1>20, OwnerStepKeepsRing
-----------------------------------------------------------------------------
(* The slots of blocks that follow each other do too. *)
LEMMA SlotFacts ==
  ASSUME RingTypes, NEW p \in Producers, IndexOk(p), NextOrd(p) \in Int, NEW i \in Int
  PROVE  /\ Header(p).size \in Nat \ {0} /\ Slot(p, i) \in 0 .. Header(p).size - 1
         /\ indexFront[p] \in Nat
         /\ \A d \in Int : (Slot(p, i) + d) % Header(p).size = Slot(p, i + d)
<1>1. Header(p).size \in Nat \ {0} /\ indexFront[p] \in Nat
  BY HeaderOf, HeaderFields, TypesOf DEF IndexOk
<1>2. PICK s \in Nat \ {0}, f \in Nat, n \in Int : s = Header(p).size /\ f = indexFront[p] /\ n = NextOrd(p)
  BY <1>1
<1>3. \A k \in Int : Slot(p, k) = (f - (n - k)) % s
  BY <1>2 DEF Slot
<1>4. Slot(p, i) \in 0 .. s - 1
  <2>1. f - (n - i) \in Int
    OBVIOUS
  <2> QED BY <1>3, <2>1, ModRange
<1>5. ASSUME NEW d \in Int
      PROVE  (Slot(p, i) + d) % s = Slot(p, i + d)
  <2>1. PICK a \in Int : a = f - (n - i)
    OBVIOUS
  <2>2. Slot(p, i) = a % s
    BY <1>3, <2>1
  <2>3. i + d \in Int /\ f - (n - (i + d)) = a + d
    BY <2>1
  <2>4. Slot(p, i + d) = (a + d) % s
    BY <1>3, <2>3
  <2>5. ((a % s) + d) % s = (a + d) % s
    BY ModPlus
  <2> QED BY <2>2, <2>4, <2>5
<1> QED BY <1>1, <1>2, <1>4, <1>5

(* What the consumer is about to process. *)
LEMMA CallFacts ==
  ASSUME OwnerInv, RingInv, NEW p \in Producers, call.asked = p, cpc \in {"index", "locate", "process", "empty"}
  PROVE  /\ call.index \in Nat /\ call.end \in Nat /\ call.index < call.end /\ call.end <= tailIndex[p]
         /\ call.end <= call.index + BLOCK_SIZE
         /\ From(Count(p) - slotsUsed[p] + 1) <= call.index
         /\ Ordinal \in Window(p) /\ Ordinal < NextOrd(p) /\ Ordinal \in Nat \ {0}
         /\ From(Ordinal) <= call.index /\ call.index < From(Ordinal + 1)
         /\ \A i \in Int : call.index < From(i + 1) => Count(p) - slotsUsed[p] + 1 <= i /\ Ordinal <= i
         /\ \A i \in Int : From(i) < call.end => i < NextOrd(p) /\ i <= Count(p)
<1>1. RingTypes /\ TailOk(p) /\ CountsOk(p) /\ tailIndex[p] \in Nat /\ headIndex[p] \in Nat
      /\ Count(p) \in Nat /\ slotsUsed[p] \in Nat
  BY TypesOf DEF RingInv
<1>2. call.index \in Nat /\ call.end \in Nat /\ call.index < call.end /\ call.end = headIndex[p]
      /\ call.end <= call.index + BLOCK_SIZE
  BY DEF RingInv, CallOk, Calls
<1>3. call.end <= tailIndex[p] /\ Dequeued(p) = call.index
      /\ From(Count(p) - slotsUsed[p] + 1) <= call.index
  BY <1>1, <1>2 DEF CountsOk, Dequeued, Reading
<1>4. call.index < tailIndex[p]
  BY <1>1, <1>2, <1>3
<1>5. PICK x \in Nat : x = call.index
  BY <1>2
<1>6. Ordinal = x \div BLOCK_SIZE + 1
  BY <1>5 DEF Ordinal
<1>7. Ordinal \in Window(p) /\ Ordinal < NextOrd(p)
  BY <1>1, <1>3, <1>4, <1>5, <1>6, ItemListed
<1>8. Ordinal \in Nat \ {0} /\ From(Ordinal) <= x /\ x < From(Ordinal) + BLOCK_SIZE
  BY <1>6, OrdinalOf
<1>9. From(Ordinal + 1) = From(Ordinal) + BLOCK_SIZE
  <2>1. Ordinal \in Int
    BY <1>8
  <2> QED BY <2>1, FromFacts
<1>10. ASSUME NEW i \in Int, call.index < From(i + 1), NEW k \in Int, From(k) <= call.index
       PROVE  k <= i
  <2>1. i + 1 <= k => From(i + 1) <= From(k)
    BY FromOrder
  <2>2. From(i + 1) \in Int /\ From(k) \in Int
    BY FromFacts
  <2> QED BY <1>2, <1>10, <2>1, <2>2
<1>11. Count(p) - slotsUsed[p] + 1 \in Int /\ Ordinal \in Int
  BY <1>1, <1>8
<1>12. ASSUME NEW i \in Int, From(i) < call.end
       PROVE  i < NextOrd(p) /\ i <= Count(p)
  <2>1. From(i) < tailIndex[p]
    BY <1>1, <1>2, <1>3, <1>12, FromFacts
  <2>2. i < NextOrd(p)
    BY <1>1, <2>1, BeforeTail
  <2> QED BY <1>1, <2>2, TailBound
<1> QED BY <1>1, <1>2, <1>3, <1>5, <1>7, <1>8, <1>9, <1>10, <1>11, <1>12

(* The consumer may go on with what it holds, when its owner has changed   *)
(* neither old headers nor the entries of blocks still to be processed.    *)
LEMMA CallStays ==
  ASSUME OwnerInv, RingInv, UNCHANGED <<cpc, call>>, NEW p \in Producers, call.asked = p,
         NEW n \in Nat \ {0}, n = Len(blockIndex[p]), Len(blockIndex'[p]) \in Nat, n <= Len(blockIndex'[p]),
         \A h \in 1 .. n : blockIndex'[p][h].size = blockIndex[p][h].size,
         \A h \in 1 .. n - 1 : blockIndex'[p][h] = blockIndex[p][h],
         \A i \in Window(p) : i < NextOrd(p) =>
           blockIndex'[p][n].entries[Slot(p, i)] = blockIndex[p][n].entries[Slot(p, i)],
         Count(p)' \in Nat, Count(p) <= Count(p)', \A i \in 1 .. Count(p) : filled'[p][i] = filled[p][i],
         NextOrd(p)' \in Nat,
         Len(blockIndex'[p]) = n => NextOrd(p) <= NextOrd(p)' /\ \A i \in Int : Slot(p, i)' = Slot(p, i)
  PROVE  LocateOk' /\ ProcessOk'
<1>0. \A i : From(i)' = From(i)
  BY DEF From
<1>1. RingTypes /\ IndexOk(p) /\ NextOrd(p) \in Nat /\ Count(p) \in Nat /\ slotsUsed[p] \in Nat
  BY TypesOf, TailBound DEF RingInv
<1>2. Header(p) = blockIndex[p][n]
  BY DEF Header
<1>3. \A i \in 1 .. Count(p) : EntryOf(p, i)' = EntryOf(p, i)
  BY <1>0 DEF EntryOf
<1>4. IsCurrent' => (Len(blockIndex'[p]) = n /\ IsCurrent) \/ call.header > n
  BY DEF IsCurrent
<1>5. LocateOk'
  <2> SUFFICES ASSUME cpc = "locate" PROVE LocateOk'
    BY DEF LocateOk
  <2>0. call.header \in 1 .. n /\ call.front \in 0 .. Loaded.size - 1
    BY DEF RingInv, LocateOk
  <2>1. PICK F \in 1 .. Count(p) :
         /\ call.end <= From(F + 1)
         /\ \A i \in 1 .. F : call.index < From(i + 1) =>
              Loaded.entries[(call.front - (F - i)) % Loaded.size] = EntryOf(p, i)
         /\ IsCurrent => F < NextOrd(p) /\ call.front = Slot(p, F)
    BY DEF RingInv, LocateOk
  <2>2. F \in Int /\ F \in 1 .. Count(p)'
    BY <1>1, <2>1
  <2>3. IsCurrent' => F < NextOrd(p)' /\ call'.front = Slot(p, F)'
    BY <1>1, <1>4, <2>0, <2>1, <2>2 DEF IsCurrent
  <2>4. Loaded'.size = Loaded.size /\ call.header \in 1 .. Len(blockIndex'[p])
    BY <2>0 DEF Loaded
  <2>5. ASSUME NEW i \in 1 .. F, call.index < From(i + 1)
        PROVE  Loaded'.entries[(call.front - (F - i)) % Loaded.size] = EntryOf(p, i)
    <3>1. Loaded.entries[(call.front - (F - i)) % Loaded.size] = EntryOf(p, i)
      BY <2>1, <2>5
    <3>2. CASE call.header < n
      <4>1. Loaded' = Loaded
        <5>1. PICK h \in 1 .. n - 1 : h = call.header
          BY <2>0, <3>2
        <5>2. blockIndex'[p][h] = blockIndex[p][h]
          OBVIOUS
        <5> QED BY <5>1, <5>2 DEF Loaded
      <4> QED BY <3>1, <4>1
    <3>3. CASE call.header = n
      <4>1. call.front = Slot(p, F) /\ F < NextOrd(p)
        BY <2>1, <3>3 DEF IsCurrent
      <4>2. Loaded = Header(p) /\ Loaded' = blockIndex'[p][n]
        BY <1>2, <3>3 DEF Loaded
      <4>3. (call.front - (F - i)) % Loaded.size = Slot(p, i)
        <5>1. i \in Int /\ i - F \in Int /\ F + (i - F) = i
          BY <2>2
        <5>2. (Slot(p, F) + (i - F)) % Header(p).size = Slot(p, F + (i - F))
          BY <1>1, <2>2, <5>1, SlotFacts
        <5>3. Slot(p, F) \in Int /\ Slot(p, F) - (F - i) = Slot(p, F) + (i - F)
          <6>1. Slot(p, F) \in Int
            BY <1>1, <2>2, SlotFacts
          <6> QED BY <2>2, <6>1
        <5> QED BY <4>1, <4>2, <5>1, <5>2, <5>3
      <4>4. i \in Window(p) /\ i < NextOrd(p)
        <5>1. Count(p) - slotsUsed[p] + 1 <= i
          BY <2>2, <2>5, CallFacts
        <5> QED BY <1>1, <2>1, <2>2, <4>1, <5>1 DEF Window
      <4> QED BY <1>2, <3>1, <4>2, <4>3, <4>4
    <3> QED BY <2>0, <3>2, <3>3
  <2>6. \A i \in 1 .. F : EntryOf(p, i)' = EntryOf(p, i)
    BY <1>1, <1>3, <2>1
  <2> QED BY <1>0, <2>0, <2>1, <2>2, <2>3, <2>4, <2>5, <2>6 DEF LocateOk
<1>6. ProcessOk'
  <2> SUFFICES ASSUME cpc \in {"process", "empty"} PROVE ProcessOk'
    BY DEF ProcessOk
  <2>0. /\ call.header \in 1 .. n /\ call.at \in 0 .. Loaded.size - 1
        /\ \A i \in 1 .. Count(p) : call.index < From(i + 1) /\ From(i) < call.end =>
             Loaded.entries[(call.at + (i - Ordinal)) % Loaded.size].block = filled[p][i]
        /\ IsCurrent => Ordinal < NextOrd(p) /\ call.at = Slot(p, Ordinal)
    BY DEF RingInv, ProcessOk
  <2>1. Ordinal' = Ordinal /\ Ordinal \in Int
    BY CallFacts DEF Ordinal
  <2>2. IsCurrent' => Ordinal < NextOrd(p)' /\ call.at = Slot(p, Ordinal)'
    <3>1. PICK k \in Int : k = Ordinal
      BY <2>1
    <3>2. Slot(p, Ordinal)' = Slot(p, k)'
      BY <2>1, <3>1 DEF Slot
    <3> QED BY <1>1, <1>4, <2>0, <2>1, <3>1, <3>2 DEF IsCurrent
  <2>4. Loaded'.size = Loaded.size /\ call.header \in 1 .. Len(blockIndex'[p])
    BY <2>0 DEF Loaded
  <2>5. ASSUME NEW i \in Int, From(i) < call.end
        PROVE  i < NextOrd(p) /\ i <= Count(p)
    BY <2>5, CallFacts
  <2>6. ASSUME NEW i \in 1 .. Count(p)', call.index < From(i + 1), From(i) < call.end
        PROVE  Loaded'.entries[(call.at + (i - Ordinal)) % Loaded.size].block = filled'[p][i]
    <3>0. i \in 1 .. Count(p) /\ i < NextOrd(p) /\ filled'[p][i] = filled[p][i]
      BY <1>1, <2>5, <2>6
    <3>1. Loaded.entries[(call.at + (i - Ordinal)) % Loaded.size].block = filled[p][i]
      BY <2>0, <2>6, <3>0
    <3>2. CASE call.header < n
      <4>1. Loaded' = Loaded
        BY <2>0, <3>2 DEF Loaded
      <4> QED BY <3>0, <3>1, <4>1
    <3>3. CASE call.header = n
      <4>1. call.at = Slot(p, Ordinal)
        BY <2>0, <3>3 DEF IsCurrent
      <4>2. Loaded = Header(p) /\ Loaded' = blockIndex'[p][n]
        BY <1>2, <3>3 DEF Loaded
      <4>3. (call.at + (i - Ordinal)) % Loaded.size = Slot(p, i)
        <5>1. PICK k \in Int : k = Ordinal
          BY <2>1
        <5>2. i - k \in Int /\ k + (i - k) = i
          OBVIOUS
        <5>3. (Slot(p, k) + (i - k)) % Header(p).size = Slot(p, k + (i - k))
          BY <1>1, <5>2, SlotFacts
        <5> QED BY <4>1, <4>2, <5>1, <5>2, <5>3
      <4>4. i \in Window(p)
        <5>1. Count(p) - slotsUsed[p] + 1 <= i
          BY <2>6, CallFacts
        <5> QED BY <1>1, <3>0, <5>1 DEF Window
      <4> QED BY <1>2, <3>0, <3>1, <4>2, <4>3, <4>4
    <3> QED BY <2>0, <3>2, <3>3
  <2>7. \A i \in 1 .. Count(p)' : From(i) < call.end /\ IsCurrent' => i < NextOrd(p)'
    BY <1>1, <1>4, <2>0, <2>5 DEF IsCurrent
  <2> QED BY <1>0, <2>0, <2>1, <2>2, <2>4, <2>6, <2>7 DEF ProcessOk
<1> QED BY <1>5, <1>6
-----------------------------------------------------------------------------
(* A step that writes to the current header of its producer. *)
HeaderBecomes(p, h) ==
  blockIndex' = [blockIndex EXCEPT ![p] = [blockIndex[p] EXCEPT ![Len(blockIndex[p])] = h]]

(* Only the current header of one producer is replaced. *)
LEMMA HeaderWritten ==
  ASSUME RingTypes, NEW p \in Producers, NEW n \in Nat \ {0}, n = Len(blockIndex[p]),
         NEW h \in Headers, h.size = blockIndex[p][n].size,
         HeaderBecomes(p, h)
  PROVE  /\ blockIndex' \in [Producers -> Seq(Headers)] /\ Len(blockIndex'[p]) = n /\ blockIndex'[p] # <<>>
         /\ blockIndex'[p][n] = h
         /\ \A i \in 1 .. n - 1 : blockIndex'[p][i] = blockIndex[p][i]
         /\ \A i \in 1 .. n : blockIndex'[p][i].size = blockIndex[p][i].size
         /\ \A q \in Producers \ {p} : blockIndex'[q] = blockIndex[q]
<1>1. blockIndex \in [Producers -> Seq(Headers)] /\ blockIndex[p] \in Seq(Headers)
  BY DEF RingTypes
<1>2. [blockIndex[p] EXCEPT ![n] = h] \in Seq(Headers) /\ Len([blockIndex[p] EXCEPT ![n] = h]) = n
  BY <1>1
<1>0. blockIndex' = [blockIndex EXCEPT ![p] = [blockIndex[p] EXCEPT ![n] = h]]
  BY DEF HeaderBecomes
<1>3. blockIndex'[p] = [blockIndex[p] EXCEPT ![n] = h]
  BY <1>0, <1>1
<1>4. blockIndex' \in [Producers -> Seq(Headers)]
  BY <1>0, <1>1, <1>2
<1>5. \A i \in 1 .. n : blockIndex'[p][i] = IF i = n THEN h ELSE blockIndex[p][i]
  BY <1>1, <1>3
<1>7. \A q \in Producers \ {p} : blockIndex'[q] = blockIndex[q]
  BY <1>0, <1>1
<1>8. Len(blockIndex'[p]) = n /\ blockIndex'[p] # <<>>
  BY <1>2, <1>3
<1> QED BY <1>4, <1>5, <1>7, <1>8

(* The slot written to is that of no block the consumer may look for. *)
LEMMA WriteEntryKeepsRing ==
  ASSUME OwnerInv, RingInv, NEW t \in Threads, WriteEntry(t)
  PROVE  RingInv'
<1>0. pc[t] = "entry" /\ pc[t] \in Owning /\ GoOn(t, "front") /\ "front" \in Owning
  BY DEF WriteEntry, Owning
<1>1. PICK p \in Producers : /\ p = mine[t] /\ InList(p) /\ RingTypes /\ RingAt(p)
                             /\ Window(p) \subseteq 1 .. Count(p)
                             /\ (Count(p) > 0 => Count(p) \in Window(p))
                             /\ \A i \in Window(p) : Count(p) - i < slotsUsed[p]
  BY <1>0, StepBegins
<1>t. tailIndex[p] \in Nat /\ Count(p) \in Nat /\ slotsUsed[p] \in Nat /\ tailBlock[p] \in Nat
      /\ blockIndex[p] \in Seq(Headers)
  BY <1>1, TypesOf
<1>3. /\ Busy(p, {"entry", "front"}) /\ ~ Busy(p, {"front"})
      /\ Busy(p, {"entry", "front"})' /\ ~ Busy(p, {"write", "commit"})' /\ ~ Busy(p, {"block"})'
      /\ Busy(p, {"front"})' /\ Busy(p, {"entry", "front", "write", "commit"})'
      /\ \A u \in Threads : mine'[u] = p /\ pc'[u] \in Owning => u = t
  BY <1>0, <1>1, BusyFacts
<1>4. Count(p) > 0 /\ tailIndex[p] = From(Count(p)) /\ tailBlock[p] = filled[p][Count(p)]
  BY <1>1, <1>3 DEF RingAt, TailOk, CountsOk
<1> DEFINE H == Header(p)
           f == indexFront[p]
           E == [base |-> tailIndex[p], block |-> tailBlock[p]]
           N == [H EXCEPT !.entries = [H.entries EXCEPT ![f] = E]]
<1>5. PICK n \in Nat \ {0} : n = Len(blockIndex[p]) /\ blockIndex[p] # <<>> /\ H \in Headers
  BY <1>1, HeaderOf DEF RingAt, IndexOk
<1>6. /\ f \in 0 .. H.size - 1 /\ H.size \in Nat \ {0} /\ E \in [base : Nat, block : Nat]
      /\ H.entries \in [0 .. H.size - 1 -> [base : Nat, block : Nat]]
      /\ slotsUsed[p] <= H.size
  <2>1. f \in Nat /\ f < H.size /\ slotsUsed[p] <= H.size
    BY <1>1, TypesOf DEF RingAt, IndexOk
  <2> QED BY <1>5, <1>t, <2>1, HeaderFields
<1>7. E = EntryOf(p, Count(p))
  BY <1>4 DEF EntryOf
<1> HIDE DEF E
<1>8. /\ N \in Headers /\ N.size = H.size /\ N.front = H.front
      /\ N.entries[f] = E /\ \A i \in 0 .. H.size - 1 : i # f => N.entries[i] = H.entries[i]
  <2>1. [H.entries EXCEPT ![f] = E] \in [0 .. H.size - 1 -> [base : Nat, block : Nat]]
    BY <1>6
  <2>2. H = [size |-> H.size, front |-> H.front, entries |-> H.entries] /\ H.front \in -1 .. H.size - 1
    BY <1>5, HeaderFields
  <2> HIDE DEF H
  <2>3. N = [size |-> H.size, front |-> H.front, entries |-> [H.entries EXCEPT ![f] = E]]
    BY <2>2
  <2> HIDE DEF N
  <2> QED BY <1>6, <2>1, <2>2, <2>3, HeaderMade
<1>2. /\ blockIndex' = [blockIndex EXCEPT ![p] = [blockIndex[p] EXCEPT ![n] = N]]
      /\ UNCHANGED <<tailBlock, slotsUsed, indexFront, indexVars, blockVars, history>>
  <2>1. blockIndex' = [blockIndex EXCEPT ![p] = [blockIndex[p] EXCEPT ![n] =
                         [blockIndex[p][n] EXCEPT !.entries = [blockIndex[p][n].entries EXCEPT ![f] = E]]]]
    BY <1>1, <1>5 DEF WriteEntry, E
  <2>2. H = blockIndex[p][n]
    BY <1>5 DEF Header
  <2> HIDE DEF H, E
  <2> QED BY <1>1, <2>1, <2>2 DEF WriteEntry
<1> HIDE DEF N
<1>9. /\ blockIndex' \in [Producers -> Seq(Headers)] /\ Len(blockIndex'[p]) = n /\ blockIndex'[p] # <<>>
      /\ Header(p)' = N /\ blockIndex'[p][n] = N /\ H = blockIndex[p][n]
      /\ \A i \in 1 .. n - 1 : blockIndex'[p][i] = blockIndex[p][i]
      /\ \A i \in 1 .. n : blockIndex'[p][i].size = blockIndex[p][i].size
      /\ \A q \in Producers \ {p} : blockIndex'[q] = blockIndex[q]
  <2>1. PICK h \in Headers : h = N
    BY <1>8
  <2>2. H = blockIndex[p][n]
    BY <1>5 DEF Header
  <2>3. h.size = blockIndex[p][n].size
    BY <1>8, <2>1, <2>2
  <2> HIDE DEF H
  <2>p. HeaderBecomes(p, h)
    BY <1>2, <1>5, <2>1 DEF HeaderBecomes
  <2>4. /\ blockIndex' \in [Producers -> Seq(Headers)] /\ Len(blockIndex'[p]) = n /\ blockIndex'[p] # <<>>
        /\ blockIndex'[p][n] = h
        /\ \A i \in 1 .. n - 1 : blockIndex'[p][i] = blockIndex[p][i]
        /\ \A i \in 1 .. n : blockIndex'[p][i].size = blockIndex[p][i].size
        /\ \A q \in Producers \ {p} : blockIndex'[q] = blockIndex[q]
    BY <1>1, <1>5, <2>3, <2>p, HeaderWritten
  <2>5. Header(p)' = h
    BY <2>4 DEF Header
  <2> QED BY <2>1, <2>2, <2>4, <2>5
<1>10. RingTypes'
  BY <1>1, <1>2, <1>9 DEF RingTypes, indexVars, blockVars, history
<1>11. OwnerStep(t, "front")
  <2>1. \A q \in Producers \ {p} : SameRing(q)
    BY <1>2, <1>9 DEF SameRing, indexVars, history
  <2>2. \A q \in Producers : SameBlocks(q)
    BY <1>1, <1>2, TypesOf DEF SameBlocks, blockVars
  <2>3. UNCHANGED <<headIndex, consumed, emitted>>
    BY <1>2 DEF indexVars, history
  <2> QED BY <1>0, <1>1, <2>1, <2>2, <2>3 DEF OwnerStep
<1>12. /\ UNCHANGED <<next, dequeued, elements, filled, log, tailIndex, headIndex, slotsUsed, tailBlock, indexFront>>
       /\ Dequeued(p)' = Dequeued(p) /\ Count(p)' = Count(p) /\ Window(p)' = Window(p)
       /\ \A i : From(i)' = From(i) /\ EntryOf(p, i)' = EntryOf(p, i)
  <2>1. UNCHANGED <<next, dequeued, elements, filled, log, tailIndex, headIndex, slotsUsed, tailBlock, indexFront>>
    BY <1>2 DEF indexVars, blockVars, history
  <2>2. SameReading(p)
    BY <1>0, <2>1, ReadingUnchanged DEF GoOn, callVars
  <2> QED BY <2>1, <2>2 DEF SameReading, Count, Window, From, EntryOf
<1>13. TailOk(p)'
  BY <1>3, <1>4, <1>12 DEF TailOk
<1>14. CountsOk(p)'
  <2>1. InList(p)'
    BY <1>0, <1>1 DEF InList, GoOn, listVars
  <2> QED BY <1>1, <1>12, <2>1 DEF RingAt, CountsOk
<1>15. RingOk(p)'
  BY <1>1, <1>12 DEF RingAt, RingOk, Clamp
<1>16. ContentsOk(p)'
  <2>1. \A u \in Threads : pc'[u] = "commit" /\ mine'[u] = p => FALSE
    <3>1. pc'[t] = "front"
      BY <1>0 DEF GoOn, OwnerInv, OwnerTypes
    <3> QED BY <1>3, <3>1 DEF Owning
  <2> QED BY <1>1, <1>12, <2>1 DEF RingAt, ContentsOk
<1>17. NextOrd(p)' = NextOrd(p) /\ NextOrd(p) = Count(p) /\ \A i : Slot(p, i)' = Slot(p, i)
  <2>1. NextOrd(p)' = NextOrd(p) /\ NextOrd(p) = Count(p)
    BY <1>3, <1>12 DEF NextOrd
  <2> QED BY <1>8, <1>9, <1>12, <2>1 DEF Slot
<1>18. Slot(p, Count(p)) = f
  <2>1. f - (Count(p) - Count(p)) = f
    BY <1>t, <1>6
  <2> QED BY <1>6, <1>17, <2>1, ModSmall DEF Slot
<1>19. ASSUME NEW i \in Window(p), i < NextOrd(p)
       PROVE  Slot(p, i) \in 0 .. H.size - 1 /\ Slot(p, i) # f
  <2>1. i \in Int /\ Count(p) - i < slotsUsed[p] /\ i < Count(p) /\ NextOrd(p) \in Int
    BY <1>1, <1>t, <1>17, <1>19
  <2>2. Slot(p, i) \in 0 .. H.size - 1
    BY <1>1, <2>1, SlotFacts DEF RingAt
  <2>3. Slot(p, i) # f
    <3> SUFFICES ASSUME Slot(p, i) = f PROVE FALSE
      OBVIOUS
    <3>1. PICK a \in Int : a = f - (Count(p) - i)
      BY <1>6, <1>t, <2>1
    <3>2. a % H.size = f % H.size
      BY <1>6, <1>17, <3>1, ModSmall DEF Slot
    <3>3. a < f /\ f \in Int /\ f - a = Count(p) - i
      BY <1>6, <1>t, <2>1, <3>1
    <3>4. H.size <= f - a
      BY <1>6, <3>2, <3>3, ModDistinct
    <3> QED BY <1>6, <1>t, <2>1, <3>3, <3>4
  <2> QED BY <2>2, <2>3
<1>20. IndexOk(p)'
  <2>1. ASSUME NEW i \in Window(p)
        PROVE  N.entries[Slot(p, i)] = EntryOf(p, i)
    <3>1. CASE i = Count(p)
      BY <1>7, <1>8, <1>18, <3>1
    <3>2. CASE i < Count(p)
      <4>1. H.entries[Slot(p, i)] = EntryOf(p, i)
        BY <1>1, <1>17, <3>2 DEF RingAt, IndexOk
      <4> QED BY <1>8, <1>17, <1>19, <3>2, <4>1
    <3> QED BY <1>1, <1>t, <3>1, <3>2
  <2>2. NextOrd(p) > 1 => N.front = Slot(p, NextOrd(p) - 1)
    BY <1>1, <1>8 DEF RingAt, IndexOk
  <2>3. f < N.size /\ slotsUsed[p] <= N.size
    BY <1>6, <1>8
  <2> QED BY <1>9, <1>12, <1>17, <2>1, <2>2, <2>3 DEF IndexOk
<1>21. \A q \in Producers \ {p} : Apart(p, q)'
  BY <1>12 DEF RingInv, Apart, Window, Count
<1>22. call.asked = p => LocateOk' /\ ProcessOk'
  <2>1. UNCHANGED <<cpc, call>>
    BY <1>0 DEF GoOn, callVars
  <2>2. \A i \in Window(p) : i < NextOrd(p) =>
           blockIndex'[p][n].entries[Slot(p, i)] = blockIndex[p][n].entries[Slot(p, i)]
    BY <1>8, <1>9, <1>19
  <2>3. NextOrd(p)' \in Nat /\ NextOrd(p) <= NextOrd(p)' /\ Count(p)' \in Nat /\ Count(p) <= Count(p)'
    BY <1>12, <1>17, <1>t
  <2>4. \A i \in 1 .. Count(p) : filled'[p][i] = filled[p][i]
    BY <1>12
  <2>5. \A i \in Int : Slot(p, i)' = Slot(p, i)
    BY <1>17
  <2>6. Len(blockIndex'[p]) \in Nat /\ n <= Len(blockIndex'[p])
    BY <1>9
  <2> QED BY <1>5, <1>9, <2>1, <2>2, <2>3, <2>4, <2>5, <2>6, CallStays
<1>23. RingAt(p)' /\ tailIndex'[p] >= tailIndex[p]
  BY <1>12, <1>13, <1>14, <1>15, <1>16, <1>20, <1>t DEF RingAt
<1> QED BY <1>0, <1>1, <1>10, <1>11, <1>21, <1>22, <1>23, OwnerStepKeepsRing
-----------------------------------------------------------------------------
(* The front moves on to the block just entered. *)
LEMMA PublishFrontKeepsRing ==
  ASSUME OwnerInv, RingInv, NEW t \in Threads, PublishFront(t)
  PROVE  RingInv'
<1>0. pc[t] = "front" /\ pc[t] \in Owning /\ GoOn(t, "write") /\ "write" \in Owning
  BY DEF PublishFront, Owning
<1>1. PICK p \in Producers : /\ p = mine[t] /\ InList(p) /\ RingTypes /\ RingAt(p)
                             /\ Window(p) \subseteq 1 .. Count(p)
                             /\ (Count(p) > 0 => Count(p) \in Window(p))
                             /\ \A i \in Window(p) : Count(p) - i < slotsUsed[p]
  BY <1>0, StepBegins
<1>t. tailIndex[p] \in Nat /\ Count(p) \in Nat /\ slotsUsed[p] \in Nat /\ tailBlock[p] \in Nat
      /\ blockIndex[p] \in Seq(Headers)
  BY <1>1, TypesOf
<1>3. /\ Busy(p, {"entry", "front"}) /\ Busy(p, {"front"})
      /\ ~ Busy(p, {"entry", "front"})' /\ Busy(p, {"write", "commit"})' /\ ~ Busy(p, {"block"})'
      /\ ~ Busy(p, {"front"})' /\ Busy(p, {"entry", "front", "write", "commit"})'
      /\ \A u \in Threads : mine'[u] = p /\ pc'[u] \in Owning => u = t
  BY <1>0, <1>1, BusyFacts
<1>4. Count(p) > 0 /\ tailIndex[p] = From(Count(p)) /\ tailBlock[p] = filled[p][Count(p)]
  BY <1>1, <1>3 DEF RingAt, TailOk, CountsOk
<1> DEFINE H == Header(p)
           f == indexFront[p]
           N == [H EXCEPT !.front = f]
<1>5. PICK n \in Nat \ {0} : n = Len(blockIndex[p]) /\ blockIndex[p] # <<>> /\ H \in Headers
  BY <1>1, HeaderOf DEF RingAt, IndexOk
<1>6. /\ f \in 0 .. H.size - 1 /\ H.size \in Nat \ {0}
      /\ H.entries \in [0 .. H.size - 1 -> [base : Nat, block : Nat]]
      /\ slotsUsed[p] <= H.size
  <2>1. f \in Nat /\ f < H.size /\ slotsUsed[p] <= H.size
    BY <1>1, TypesOf DEF RingAt, IndexOk
  <2> QED BY <1>5, <1>t, <2>1, HeaderFields
<1>8. /\ N \in Headers /\ N.size = H.size /\ N.front = f /\ N.entries = H.entries
  <2>2. H = [size |-> H.size, front |-> H.front, entries |-> H.entries] /\ H.front \in -1 .. H.size - 1
    BY <1>5, HeaderFields
  <2> HIDE DEF H
  <2>3. N = [size |-> H.size, front |-> f, entries |-> H.entries]
    BY <2>2
  <2>4. f \in -1 .. H.size - 1
    BY <1>6
  <2> HIDE DEF N
  <2> QED BY <1>6, <2>2, <2>3, <2>4, HeaderMade
<1>2. /\ blockIndex' = [blockIndex EXCEPT ![p] = [blockIndex[p] EXCEPT ![n] = N]]
      /\ indexFront' = [indexFront EXCEPT ![p] = (f + 1) % H.size]
      /\ UNCHANGED <<tailBlock, slotsUsed, indexVars, blockVars, history>>
  <2>1. blockIndex' = [blockIndex EXCEPT ![p] = [blockIndex[p] EXCEPT ![n] =
                         [blockIndex[p][n] EXCEPT !.front = f]]]
    BY <1>1, <1>5 DEF PublishFront
  <2>2. H = blockIndex[p][n]
    BY <1>5 DEF Header
  <2> QED BY <1>1, <2>1, <2>2 DEF PublishFront
<1> HIDE DEF N
<1>9. /\ blockIndex' \in [Producers -> Seq(Headers)] /\ Len(blockIndex'[p]) = n /\ blockIndex'[p] # <<>>
      /\ Header(p)' = N /\ blockIndex'[p][n] = N /\ H = blockIndex[p][n]
      /\ \A i \in 1 .. n - 1 : blockIndex'[p][i] = blockIndex[p][i]
      /\ \A i \in 1 .. n : blockIndex'[p][i].size = blockIndex[p][i].size
      /\ \A q \in Producers \ {p} : blockIndex'[q] = blockIndex[q]
  <2>1. PICK h \in Headers : h = N
    BY <1>8
  <2>2. H = blockIndex[p][n]
    BY <1>5 DEF Header
  <2>3. h.size = blockIndex[p][n].size
    BY <1>8, <2>1, <2>2
  <2> HIDE DEF H
  <2>p. HeaderBecomes(p, h)
    BY <1>2, <1>5, <2>1 DEF HeaderBecomes
  <2>4. /\ blockIndex' \in [Producers -> Seq(Headers)] /\ Len(blockIndex'[p]) = n /\ blockIndex'[p] # <<>>
        /\ blockIndex'[p][n] = h
        /\ \A i \in 1 .. n - 1 : blockIndex'[p][i] = blockIndex[p][i]
        /\ \A i \in 1 .. n : blockIndex'[p][i].size = blockIndex[p][i].size
        /\ \A q \in Producers \ {p} : blockIndex'[q] = blockIndex[q]
    BY <1>1, <1>5, <2>3, <2>p, HeaderWritten
  <2>5. Header(p)' = h
    BY <2>4 DEF Header
  <2> QED BY <2>1, <2>2, <2>4, <2>5
<1>f. indexFront'[p] = (f + 1) % H.size /\ indexFront'[p] \in 0 .. H.size - 1
      /\ indexFront' \in [Producers -> Nat] /\ \A q \in Producers \ {p} : indexFront'[q] = indexFront[q]
  <2>1. (f + 1) % H.size \in 0 .. H.size - 1
    <3>1. PICK g \in Nat : g = f /\ g + 1 \in Int
      BY <1>1, TypesOf
    <3>2. PICK z \in Nat \ {0} : z = H.size
      BY <1>6
    <3>3. (g + 1) % z \in 0 .. z - 1
      BY <3>1, ModRange
    <3> HIDE DEF f, H
    <3> QED BY <3>1, <3>2, <3>3
  <2> HIDE DEF f, H
  <2>2. PICK g \in Nat : g = (f + 1) % H.size
    BY <1>6, <2>1
  <2>3. indexFront' = [indexFront EXCEPT ![p] = g]
    BY <1>2, <2>2
  <2>4. indexFront \in [Producers -> Nat] /\ p \in Producers
    BY <1>1 DEF RingTypes
  <2>5. /\ indexFront'[p] = g /\ indexFront' \in [Producers -> Nat]
        /\ \A q \in Producers \ {p} : indexFront'[q] = indexFront[q]
    BY <2>3, <2>4
  <2> QED BY <2>1, <2>2, <2>5
<1>10. RingTypes'
  BY <1>1, <1>2, <1>9, <1>f DEF RingTypes, indexVars, blockVars, history
<1>11. OwnerStep(t, "write")
  <2>1. \A q \in Producers \ {p} : SameRing(q)
    BY <1>2, <1>9, <1>f DEF SameRing, indexVars, history
  <2>2. \A q \in Producers : SameBlocks(q)
    BY <1>1, <1>2, TypesOf DEF SameBlocks, blockVars
  <2>3. UNCHANGED <<headIndex, consumed, emitted>>
    BY <1>2 DEF indexVars, history
  <2> QED BY <1>0, <1>1, <2>1, <2>2, <2>3 DEF OwnerStep
<1>12. /\ UNCHANGED <<next, dequeued, elements, filled, log, tailIndex, headIndex, slotsUsed, tailBlock>>
       /\ Dequeued(p)' = Dequeued(p) /\ Count(p)' = Count(p) /\ Window(p)' = Window(p)
       /\ \A i : From(i)' = From(i) /\ EntryOf(p, i)' = EntryOf(p, i)
  <2>1. UNCHANGED <<next, dequeued, elements, filled, log, tailIndex, headIndex, slotsUsed, tailBlock>>
    BY <1>2 DEF indexVars, blockVars, history
  <2>2. SameReading(p)
    BY <1>0, <2>1, ReadingUnchanged DEF GoOn, callVars
  <2> QED BY <2>1, <2>2 DEF SameReading, Count, Window, From, EntryOf
<1>13. TailOk(p)'
  <2>1. From(Count(p)) \in Int /\ From(Count(p) + 1) = From(Count(p)) + BLOCK_SIZE /\ BLOCK_SIZE \in Nat \ {0}
    BY <1>t, FromFacts, QueueAssumption
  <2> QED BY <1>3, <1>4, <1>12, <2>1 DEF TailOk
<1>14. CountsOk(p)'
  <2>1. InList(p)'
    BY <1>0, <1>1 DEF InList, GoOn, listVars
  <2> QED BY <1>1, <1>12, <2>1 DEF RingAt, CountsOk
<1>15. RingOk(p)'
  BY <1>1, <1>12 DEF RingAt, RingOk, Clamp
<1>16. ContentsOk(p)'
  <2>1. \A u \in Threads : pc'[u] = "commit" /\ mine'[u] = p => FALSE
    <3>1. pc'[t] = "write"
      BY <1>0 DEF GoOn, OwnerInv, OwnerTypes
    <3> QED BY <1>3, <3>1 DEF Owning
  <2> QED BY <1>1, <1>12, <2>1 DEF RingAt, ContentsOk
<1>17. NextOrd(p)' = Count(p) + 1 /\ NextOrd(p) = Count(p)
  BY <1>3, <1>12 DEF NextOrd
<1>18. ASSUME NEW i \in Int
       PROVE  Slot(p, i)' = Slot(p, i)
  <2>1. PICK s \in Nat \ {0}, g \in Int, k \in Int : s = H.size /\ g = f /\ k = Count(p)
    BY <1>6, <1>t
  <2>2. Slot(p, i) = (g - (k - i)) % s
    BY <1>17, <2>1 DEF Slot
  <2>3. Slot(p, i)' = (((g + 1) % s) - (k + 1 - i)) % s
    BY <1>8, <1>9, <1>f, <1>17, <2>1 DEF Slot
  <2>4. PICK a \in Int, d \in Int : a = g + 1 /\ d = - (k + 1 - i)
    BY <2>1
  <2>5. ((g + 1) % s) - (k + 1 - i) = (a % s) + d /\ a + d = g - (k - i)
    <3>1. (g + 1) % s \in Int
      BY <2>1
    <3> QED BY <2>1, <2>4, <3>1
  <2>6. ((a % s) + d) % s = (a + d) % s
    BY ModPlus
  <2> QED BY <2>2, <2>3, <2>5, <2>6
<1>19. Slot(p, Count(p)) = f
  <2>1. f - (Count(p) - Count(p)) = f
    BY <1>t, <1>6
  <2> QED BY <1>6, <1>17, <2>1, ModSmall DEF Slot
<1>20. IndexOk(p)'
  <2>1. ASSUME NEW i \in Window(p)
        PROVE  N.entries[Slot(p, i)'] = EntryOf(p, i)
    <3>1. H.entries[Slot(p, i)] = EntryOf(p, i)
      BY <1>1, <1>3 DEF RingAt, IndexOk
    <3>2. i \in Int
      BY <1>1, <1>t
    <3> QED BY <1>8, <1>18, <3>1, <3>2
  <2>2. (Header(p).front = Slot(p, NextOrd(p) - 1))'
    <3>1. PICK k \in Int : k = Count(p)
      BY <1>t
    <3>2. NextOrd(p)' = k + 1
      BY <1>17, <3>1
    <3>3. (Slot(p, NextOrd(p) - 1))' = Slot(p, k)'
      BY <3>2 DEF Slot
    <3>4. Slot(p, k)' = f
      BY <1>18, <1>19, <3>1
    <3> QED BY <1>8, <1>9, <3>3, <3>4
  <2>3. indexFront'[p] < N.size /\ slotsUsed[p] <= N.size
    BY <1>6, <1>8, <1>f
  <2> QED BY <1>9, <1>12, <2>1, <2>2, <2>3 DEF IndexOk
<1>21. \A q \in Producers \ {p} : Apart(p, q)'
  BY <1>12 DEF RingInv, Apart, Window, Count
<1>22. call.asked = p => LocateOk' /\ ProcessOk'
  <2>1. UNCHANGED <<cpc, call>>
    BY <1>0 DEF GoOn, callVars
  <2>2. \A i \in Window(p) : i < NextOrd(p) =>
           blockIndex'[p][n].entries[Slot(p, i)] = blockIndex[p][n].entries[Slot(p, i)]
    BY <1>8, <1>9
  <2>3. NextOrd(p)' \in Nat /\ NextOrd(p) <= NextOrd(p)' /\ Count(p)' \in Nat /\ Count(p) <= Count(p)'
    BY <1>12, <1>17, <1>t
  <2>4. \A i \in 1 .. Count(p) : filled'[p][i] = filled[p][i]
    BY <1>12
  <2>5. \A i \in Int : Slot(p, i)' = Slot(p, i)
    BY <1>18
  <2>6. Len(blockIndex'[p]) \in Nat /\ n <= Len(blockIndex'[p])
    BY <1>9
  <2> QED BY <1>5, <1>9, <2>1, <2>2, <2>3, <2>4, <2>5, <2>6, CallStays
<1>23. RingAt(p)' /\ tailIndex'[p] >= tailIndex[p]
  BY <1>12, <1>13, <1>14, <1>15, <1>16, <1>20, <1>t DEF RingAt
<1> QED BY <1>0, <1>1, <1>10, <1>11, <1>21, <1>22, <1>23, OwnerStepKeepsRing
-----------------------------------------------------------------------------
(* A block has from none to all of its items dequeued. *)
LEMMA ClampFacts ==
  ASSUME NEW x \in Int
  PROVE  /\ Clamp(x) \in 0 .. BLOCK_SIZE /\ (x <= 0 => Clamp(x) = 0)
         /\ (Clamp(x) = BLOCK_SIZE <=> x >= BLOCK_SIZE)
         /\ (0 <= x /\ x <= BLOCK_SIZE => Clamp(x) = x)
  BY QueueAssumption DEF Clamp

(* What is counted as dequeued is a number. *)
LEMMA DequeuedIn ==
  ASSUME RingInv, NEW p \in Producers
  PROVE  Dequeued(p) \in Nat
  BY DEF RingInv, RingTypes, CallOk, Calls, Dequeued

(* The oldest block of the window follows the newest, and when it is       *)
(* empty everything in it was processed.                                   *)
LEMMA AheadIsOldest ==
  ASSUME RingInv, NEW p \in Producers, tailBlock[p] # 0,
         NEW first, first = Count(p) - slotsUsed[p] + 1
  PROVE  /\ Count(p) > 0 /\ first \in Window(p) /\ next[tailBlock[p]] = filled[p][first]
         /\ filled[p][first] \in 1 .. Len(next)
         /\ IsEmpty(filled[p][first]) => From(first + 1) <= Dequeued(p)
<1>1. RingTypes /\ CountsOk(p) /\ RingOk(p)
  BY DEF RingInv
<1>2. Count(p) \in Nat /\ slotsUsed[p] \in Nat
  BY <1>1, TypesOf
<1>3. Count(p) > 0 /\ tailBlock[p] = filled[p][Count(p)]
  BY <1>1, <1>2 DEF CountsOk
<1>4. Count(p) \in Window(p) /\ first \in Window(p) /\ Window(p) \subseteq 1 .. Count(p)
  BY <1>1, <1>3, WindowFacts
<1>5. next[tailBlock[p]] = filled[p][first] /\ filled[p][first] \in 1 .. Len(next)
      /\ dequeued[filled[p][first]] = Clamp(Dequeued(p) - From(first))
  BY <1>1, <1>3, <1>4 DEF RingOk
<1>6. ASSUME IsEmpty(filled[p][first])
      PROVE  From(first + 1) <= Dequeued(p)
  <2>1. first \in Int /\ From(first) \in Int /\ Dequeued(p) \in Nat /\ From(first + 1) = From(first) + BLOCK_SIZE
        /\ BLOCK_SIZE \in Nat
    <3>1. first \in Int
      BY <1>2
    <3> QED BY <3>1, FromFacts, DequeuedIn, QueueAssumption
  <2>2. PICK x \in Int : x = Dequeued(p) - From(first)
    BY <2>1
  <2>3. Clamp(x) = BLOCK_SIZE
    BY <1>5, <1>6, <2>2 DEF IsEmpty
  <2>4. x >= BLOCK_SIZE
    BY <2>3, ClampFacts
  <2> QED BY <2>1, <2>2, <2>4
<1> QED BY <1>3, <1>4, <1>5, <1>6

(* The oldest block becomes the newest when it has nothing left to         *)
(* process.                                                                *)
LEMMA ReuseBlockKeepsRing ==
  ASSUME OwnerInv, RingInv, NEW t \in Threads, ReuseBlock(t)
  PROVE  RingInv'
<1>0. pc[t] = "block" /\ pc[t] \in Owning /\ GoOn(t, "entry") /\ "entry" \in Owning
  BY DEF ReuseBlock, Owning
<1>1. PICK p \in Producers : /\ p = mine[t] /\ InList(p) /\ RingTypes /\ RingAt(p)
                             /\ Window(p) \subseteq 1 .. Count(p)
  BY <1>0, StepBegins
<1>2. PICK K \in Nat, s \in Nat, first \in Int : K = Count(p) /\ s = slotsUsed[p] /\ first = K - s + 1
  BY <1>1, TypesOf
<1>3. tailBlock[p] # 0 /\ IsEmpty(next[tailBlock[p]])
  BY <1>1 DEF ReuseBlock
<1>4. /\ K > 0 /\ first \in Window(p) /\ next[tailBlock[p]] = filled[p][first]
      /\ filled[p][first] \in 1 .. Len(next) /\ From(first + 1) <= Dequeued(p)
  BY <1>2, <1>3, AheadIsOldest
<1>r. Window(p) = first .. K /\ s <= K /\ s > 0 /\ first \in 1 .. K
  BY <1>1, <1>2, <1>4 DEF Window, RingAt, CountsOk
<1>5. PICK b \in Nat : b = filled[p][first] /\ b \in 1 .. Len(next)
  BY <1>1, <1>4 DEF RingTypes
<1>t. /\ tailIndex[p] \in Nat /\ filled[p] \in Seq(Nat) /\ b \in Nat /\ Len(next) \in Nat
      /\ dequeued \in Seq(Nat) /\ Len(dequeued) = Len(next)
  <2>1. /\ tailIndex[p] \in Nat /\ filled[p] \in Seq(Nat) /\ Len(next) \in Nat /\ b \in Nat
    BY <1>1, TypesOf
  <2>2. dequeued \in Seq(Nat) /\ Len(dequeued) = Len(next)
    BY <1>1 DEF RingTypes
  <2> QED BY <2>1, <2>2
<1>n. next[filled[p][K]] = b
  BY <1>1, <1>2, <1>4, <1>5 DEF RingAt, CountsOk
<1>6. /\ tailBlock' = [tailBlock EXCEPT ![p] = b]
      /\ dequeued' = [dequeued EXCEPT ![b] = 0]
      /\ filled' = [filled EXCEPT ![p] = Append(filled[p], b)]
      /\ UNCHANGED <<slotsUsed, indexFront, blockIndex, next, elements, tailIndex, headIndex,
                     emitted, log, consumed>>
  BY <1>1, <1>4, <1>5 DEF ReuseBlock, RingTypes, indexVars
<1>7. /\ tailBlock'[p] = b /\ dequeued'[b] = 0 /\ Len(dequeued') = Len(dequeued)
      /\ \A c \in 1 .. Len(next) : c # b => dequeued'[c] = dequeued[c]
      /\ Len(filled'[p]) = K + 1 /\ filled'[p][K + 1] = b
      /\ \A i \in 1 .. K : filled'[p][i] = filled[p][i]
      /\ dequeued' \in Seq(Nat)
  <2>1. tailBlock'[p] = b /\ filled'[p] = Append(filled[p], b) /\ Len(filled[p]) = K
    BY <1>1, <1>2, <1>6 DEF RingTypes, Count
  <2>2. /\ dequeued'[b] = 0 /\ Len(dequeued') = Len(dequeued) /\ dequeued' \in Seq(Nat)
        /\ \A c \in 1 .. Len(next) : c # b => dequeued'[c] = dequeued[c]
    BY <1>5, <1>6, <1>t
  <2>3. /\ Len(filled'[p]) = K + 1 /\ filled'[p][K + 1] = b
        /\ \A i \in 1 .. K : filled'[p][i] = filled[p][i]
    BY <1>t, <2>1
  <2> QED BY <2>1, <2>2, <2>3
<1>8. RingTypes'
  <2>0. Append(filled[p], b) \in Seq(Nat)
    BY <1>t
  <2>1. filled' \in [Producers -> Seq(Nat)] /\ tailBlock' \in [Producers -> Nat]
    BY <1>1, <1>6, <1>t, <2>0 DEF RingTypes
  <2> QED BY <1>1, <1>6, <1>7, <2>1 DEF RingTypes
<1>9. \A q \in Producers \ {p} : \A i \in Window(q) : filled[q][i] # b /\ filled[q][i] \in 1 .. Len(next)
  <2>1. \A q \in Producers \ {p} : Apart(p, q)
    BY DEF RingInv
  <2>2. \A q \in Producers : Window(q) \subseteq 1 .. Count(q)
    BY <1>1, WindowFacts DEF RingInv
  <2>3. \A q \in Producers : \A i \in 1 .. Count(q) : filled[q][i] \in 1 .. Len(next)
    BY DEF RingInv, RingOk
  <2> QED BY <1>4, <1>5, <2>1, <2>2, <2>3 DEF Apart
<1>10. OwnerStep(t, "entry")
  <2>1. \A q \in Producers \ {p} : SameRing(q)
    BY <1>1, <1>6 DEF SameRing, RingTypes
  <2>2. \A q \in Producers \ {p} : SameBlocks(q)
    <3>1. Len(next) <= Len(next) /\ UNCHANGED <<next, elements>>
      BY <1>6, <1>t
    <3> QED BY <1>7, <1>9, <3>1 DEF SameBlocks
  <2> QED BY <1>0, <1>1, <1>6, <2>1, <2>2 DEF OwnerStep
<1>11. /\ Busy(p, {"block"}) /\ ~ Busy(p, {"entry", "front"})
       /\ Busy(p, {"entry", "front"})' /\ ~ Busy(p, {"write", "commit"})' /\ ~ Busy(p, {"block"})'
       /\ ~ Busy(p, {"front"})' /\ Busy(p, {"entry", "front", "write", "commit"})'
       /\ \A u \in Threads : mine'[u] = p /\ pc'[u] \in Owning => u = t
  BY <1>0, <1>1, BusyFacts
<1>12. /\ Dequeued(p)' = Dequeued(p) /\ Dequeued(p) \in Nat /\ Count(p)' = K + 1
       /\ \A i : From(i)' = From(i)
  <2>1. SameReading(p)
    BY <1>0, <1>6, ReadingUnchanged DEF GoOn, callVars
  <2> QED BY <1>7, <2>1, DequeuedIn DEF SameReading, Count, From
<1>w. Window(p)' = first + 1 .. K + 1
  <2>1. slotsUsed'[p] = s
    BY <1>2, <1>6
  <2>2. Count(p)' - s + 1 = first + 1 /\ Count(p)' = K + 1
    BY <1>2, <1>12
  <2> QED BY <2>1, <2>2 DEF Window
<1>13. tailIndex[p] = From(K + 1) /\ tailIndex'[p] = From(K + 1) /\ Dequeued(p) <= tailIndex[p]
  <2>1. tailIndex[p] = From(K + 1)
    BY <1>1, <1>2, <1>11 DEF RingAt, TailOk
  <2>2. Dequeued(p) <= headIndex[p] /\ headIndex[p] <= tailIndex[p] /\ headIndex[p] \in Nat
    BY <1>1, TypesOf DEF RingAt, CountsOk
  <2> QED BY <1>6, <1>12, <1>t, <2>1, <2>2
<1>14. TailOk(p)'
  BY <1>11, <1>12, <1>13 DEF TailOk
<1>15. CountsOk(p)'
  <2>1. InList(p)'
    BY <1>0, <1>1 DEF InList, GoOn, listVars
  <2>2. slotsUsed'[p] = s /\ s <= K + 1 /\ tailBlock'[p] = filled'[p][K + 1] /\ K + 1 # 0
    BY <1>2, <1>6, <1>7, <1>r
  <2>3. Count(p)' - s + 1 = first + 1
    BY <1>2, <1>12
  <2>4. log' = log /\ headIndex' = headIndex /\ tailIndex' = tailIndex
    BY <1>6
  <2>5. (From(Count(p) - slotsUsed[p] + 1) <= Dequeued(p))'
    <3>1. (Count(p) - slotsUsed[p] + 1)' = first + 1
      BY <2>2, <2>3
    <3> QED BY <1>4, <1>12, <3>1 DEF From
  <2> QED BY <1>1, <1>12, <1>r, <2>1, <2>2, <2>4, <2>5 DEF RingAt, CountsOk
<1>16. RingOk(p)'
  <2>1. \A i \in 1 .. K + 1 : filled'[p][i] \in 1 .. Len(next)
    <3>1. \A i \in 1 .. K : filled[p][i] \in 1 .. Len(next)
      BY <1>1, <1>2 DEF RingAt, RingOk
    <3>2. \A i \in 1 .. K + 1 : i \in 1 .. K \/ i = K + 1
      BY <1>2
    <3> QED BY <1>5, <1>7, <3>1, <3>2
  <2>0. first \in Int /\ first + 1 .. K + 1 = (first + 1 .. K) \cup {K + 1}
    BY <1>r
  <2>2. ASSUME NEW i \in first + 1 .. K + 1
        PROVE  next[filled'[p][i]] = filled'[p][IF i < K + 1 THEN i + 1 ELSE first + 1]
    <3>1. \A j \in first .. K : next[filled[p][j]] = filled[p][IF j < K THEN j + 1 ELSE first]
      BY <1>1, <1>2, <1>r DEF RingAt, RingOk
    <3>2. CASE i < K
      <4>1. i \in first .. K /\ i \in 1 .. K /\ i + 1 \in 1 .. K /\ i < K + 1
        BY <1>2, <1>r, <3>2
      <4> QED BY <1>7, <3>1, <3>2, <4>1
    <3>3. CASE i = K
      <4>1. K \in 1 .. K /\ K < K + 1
        BY <1>2, <1>4
      <4> QED BY <1>7, <1>n, <3>3, <4>1
    <3>4. CASE i = K + 1
      <4>1. CASE first < K
        <5>0. first \in first .. K /\ first + 1 \in 1 .. K /\ ~ (K + 1 < K + 1)
          BY <1>2, <1>r, <4>1
        <5>1. next[b] = filled[p][first + 1]
          BY <1>5, <3>1, <4>1, <5>0
        <5> QED BY <1>7, <3>4, <5>0, <5>1
      <4>2. CASE first = K
        <5>1. ~ (K + 1 < K + 1) /\ first + 1 = K + 1
          BY <1>2, <4>2
        <5> QED BY <1>5, <1>7, <1>n, <3>4, <4>2, <5>1
      <4> QED BY <1>r, <4>1, <4>2
    <3> QED BY <2>0, <3>2, <3>3, <3>4
  <2>3. ASSUME NEW i \in first + 1 .. K + 1, NEW j \in first + 1 .. K + 1, filled'[p][i] = filled'[p][j]
        PROVE  i = j
    <3>1. \A m, n \in first .. K : filled[p][m] = filled[p][n] => m = n
      BY <1>1, <1>r DEF RingAt, RingOk
    <3>2. ASSUME NEW m \in first + 1 .. K
          PROVE  filled'[p][m] = filled[p][m] /\ filled[p][m] # b /\ m \in first .. K
      <4>1. m \in first .. K /\ m \in 1 .. K /\ first \in first .. K /\ m # first
        BY <1>r
      <4> QED BY <1>5, <1>7, <3>1, <4>1
    <3>3. i = K + 1 \/ i \in first + 1 .. K
      BY <2>0
    <3>4. j = K + 1 \/ j \in first + 1 .. K
      BY <2>0
    <3>5. CASE i \in first + 1 .. K /\ j \in first + 1 .. K
      BY <2>3, <3>1, <3>2, <3>5
    <3>6. CASE i = K + 1 \/ j = K + 1
      BY <1>7, <2>3, <3>2, <3>3, <3>4, <3>6
    <3> QED BY <3>3, <3>4, <3>5, <3>6
  <2>4. ASSUME NEW i \in first + 1 .. K + 1
        PROVE  dequeued'[filled'[p][i]] = Clamp(Dequeued(p) - From(i))
    <3>1. CASE i <= K
      <4>1. i \in Window(p) /\ first \in Window(p) /\ i # first
        BY <1>r, <3>1
      <4>2. filled[p][i] # b /\ filled[p][i] \in 1 .. Len(next)
            /\ dequeued[filled[p][i]] = Clamp(Dequeued(p) - From(i))
        BY <1>1, <1>5, <4>1 DEF RingAt, RingOk
      <4>3. i \in 1 .. K
        BY <1>r, <3>1
      <4> QED BY <1>7, <1>12, <4>2, <4>3
    <3>2. CASE i = K + 1
      <4>1. PICK x \in Int : x = Dequeued(p) - From(i) /\ x <= 0
        BY <1>12, <1>13, <1>t, <3>2
      <4>2. Clamp(x) = 0
        BY <4>1, ClampFacts
      <4> QED BY <1>7, <3>2, <4>1, <4>2
    <3> QED BY <2>0, <3>1, <3>2
  <2>5. (Count(p) - slotsUsed[p] + 1)' = first + 1
    <3>1. slotsUsed'[p] = s /\ Count(p)' = K + 1
      BY <1>2, <1>6, <1>12
    <3> QED BY <1>2, <3>1
  <2>6. (\A i \in Window(p) : next[filled[p][i]] = filled[p][IF i < Count(p) THEN i + 1 ELSE Count(p) - slotsUsed[p] + 1])'
    BY <1>6, <1>12, <1>w, <2>2, <2>5
  <2>7. (\A i \in Window(p) : dequeued[filled[p][i]] = Clamp(Dequeued(p) - From(i)))'
    BY <1>12, <1>w, <2>4 DEF Clamp
  <2>8. (\A i \in 1 .. Count(p) : filled[p][i] \in 1 .. Len(next))'
    BY <1>6, <1>12, <2>1
  <2>9. (\A i, j \in Window(p) : filled[p][i] = filled[p][j] => i = j)'
    BY <1>w, <2>3
  <2> QED BY <2>6, <2>7, <2>8, <2>9 DEF RingOk
<1>17. ContentsOk(p)'
  <2>1. ASSUME NEW i \in first + 1 .. K + 1, NEW o \in Slots, From(i) + o < tailIndex[p]
        PROVE  elements[filled'[p][i]][o] = log[p][From(i) + o + 1]
    <3>1. i # K + 1
      <4>1. From(K + 1) \in Int /\ o >= 0 /\ o \in Int
        BY FromFacts DEF Slots
      <4> QED BY <1>13, <1>r, <2>1, <4>1
    <3>2. i \in Window(p) /\ i \in 1 .. K
      BY <1>r, <3>1
    <3> QED BY <1>1, <1>7, <2>1, <3>2 DEF RingAt, ContentsOk
  <2>2. \A u \in Threads : pc'[u] = "commit" /\ mine'[u] = p => FALSE
    BY <1>11 DEF Busy
  <2> QED BY <1>6, <1>12, <1>w, <2>1, <2>2 DEF ContentsOk
<1>18. NextOrd(p)' = K + 1 /\ NextOrd(p) = K + 1 /\ Header(p)' = Header(p) /\ \A i : Slot(p, i)' = Slot(p, i)
  <2>1. NextOrd(p)' = K + 1 /\ NextOrd(p) = K + 1 /\ Header(p)' = Header(p)
    BY <1>2, <1>6, <1>11, <1>12 DEF NextOrd, Header
  <2> QED BY <1>6, <2>1 DEF Slot
<1>19. IndexOk(p)'
  <2>1. ASSUME NEW i \in first + 1 .. K + 1, i < NextOrd(p)'
        PROVE  Header(p).entries[Slot(p, i)] = EntryOf(p, i)'
    <3>1. i \in Window(p) /\ i \in 1 .. K /\ i < NextOrd(p)
      BY <1>18, <1>r, <2>1
    <3>2. EntryOf(p, i)' = EntryOf(p, i)
      BY <1>7, <1>12, <3>1 DEF EntryOf
    <3> QED BY <1>1, <3>1, <3>2 DEF RingAt, IndexOk
  <2>2. Header(p).front = Slot(p, K) /\ K + 1 - 1 = K
    BY <1>1, <1>4, <1>18 DEF RingAt, IndexOk
  <2>3. (NextOrd(p) > 1 => Header(p).front = Slot(p, NextOrd(p) - 1))'
    <3>1. (NextOrd(p) - 1)' = K
      BY <1>18
    <3>2. (Slot(p, NextOrd(p) - 1))' = Slot(p, K)'
      BY <3>1 DEF Slot
    <3> QED BY <1>18, <2>2, <3>2
  <2>4. blockIndex' = blockIndex /\ slotsUsed' = slotsUsed /\ indexFront' = indexFront
    BY <1>6
  <2>5. /\ blockIndex[p] # <<>> /\ slotsUsed[p] <= Header(p).size /\ indexFront[p] < Header(p).size
    BY <1>1 DEF RingAt, IndexOk
  <2> QED BY <1>11, <1>18, <1>w, <2>1, <2>3, <2>4, <2>5 DEF IndexOk
<1>20. \A q \in Producers \ {p} : Apart(p, q)'
  <2> SUFFICES \A q \in Producers \ {p} : \A i \in first + 1 .. K + 1, j \in Window(q) : filled'[p][i] # filled'[q][j]
    <3> TAKE q \in Producers \ {p}
    <3>1. filled'[q] = filled[q] /\ slotsUsed'[q] = slotsUsed[q]
      BY <1>1, <1>6 DEF RingTypes
    <3>2. Window(q)' = Window(q)
      BY <3>1 DEF Window, Count
    <3> QED BY <1>w, <3>2 DEF Apart
  <2> SUFFICES ASSUME NEW q \in Producers \ {p}, NEW i \in first + 1 .. K + 1, NEW j \in Window(q)
               PROVE  filled'[p][i] # filled'[q][j]
    OBVIOUS
  <2>1. filled'[q][j] = filled[q][j] /\ filled[q][j] # b
    BY <1>1, <1>6, <1>9 DEF RingTypes
  <2>2. CASE i = K + 1
    BY <1>7, <2>1, <2>2
  <2>3. CASE i # K + 1
    <3>1. i \in Window(p) /\ i \in 1 .. K
      BY <1>r, <2>3
    <3>2. filled[p][i] # filled[q][j]
      BY <3>1 DEF RingInv, Apart
    <3> QED BY <1>7, <2>1, <3>1, <3>2
  <2> QED BY <2>2, <2>3
<1>21. call.asked = p => LocateOk' /\ ProcessOk'
  <2>1. UNCHANGED <<cpc, call>> /\ blockIndex' = blockIndex
    BY <1>0, <1>6 DEF GoOn, callVars
  <2>2. PICK n \in Nat \ {0} : n = Len(blockIndex[p])
    BY <1>1, HeaderOf DEF RingAt, IndexOk
  <2>3. NextOrd(p)' \in Nat /\ NextOrd(p) <= NextOrd(p)' /\ Count(p)' \in Nat /\ Count(p) <= Count(p)'
    BY <1>2, <1>12, <1>18
  <2>4. \A i \in 1 .. Count(p) : filled'[p][i] = filled[p][i]
    BY <1>2, <1>7
  <2>5. \A i \in Int : Slot(p, i)' = Slot(p, i)
    BY <1>18
  <2>6. Len(blockIndex'[p]) \in Nat /\ n <= Len(blockIndex'[p])
    BY <2>1, <2>2
  <2> QED BY <2>1, <2>2, <2>3, <2>4, <2>5, <2>6, CallStays
<1>22. RingAt(p)' /\ tailIndex'[p] >= tailIndex[p]
  BY <1>6, <1>14, <1>15, <1>16, <1>17, <1>19, <1>t DEF RingAt
<1> QED BY <1>0, <1>1, <1>8, <1>10, <1>20, <1>21, <1>22, OwnerStepKeepsRing
-----------------------------------------------------------------------------
(* The grown header holds the entries of the window, unrolled.             *)
LEMMA GrownHeader ==
  ASSUME RingTypes, NEW p \in Producers, CountsOk(p), IndexOk(p), slotsUsed[p] = Header(p).size,
         NEW K \in Nat, K = Count(p), NextOrd(p) = K + 1, NEW first \in Int, first = K - slotsUsed[p] + 1
  PROVE  /\ NewBlockIndex(p) \in Headers /\ slotsUsed[p] \in Nat \ {0}
         /\ NewBlockIndex(p).size = 2 * slotsUsed[p] /\ NewBlockIndex(p).front = slotsUsed[p] - 1
         /\ \A i \in first .. K : NewBlockIndex(p).entries[i - first] = Header(p).entries[Slot(p, i)]
<1> DEFINE old == Header(p)
           entry(i) == IF i < slotsUsed[p] THEN old.entries[(indexFront[p] - slotsUsed[p] + i) % old.size] ELSE NoEntry
<1>1. PICK s \in Nat \ {0}, f \in Nat : s = old.size /\ s = slotsUsed[p] /\ f = indexFront[p]
  BY HeaderOf, HeaderFields, TypesOf DEF IndexOk
<1>2. old.entries \in [0 .. s - 1 -> [base : Nat, block : Nat]]
  BY <1>1, HeaderOf, HeaderFields DEF IndexOk
<1>3. ASSUME NEW i \in 0 .. 2 * s - 1
      PROVE  entry(i) \in [base : Nat, block : Nat]
  <2>1. (f - s + i) % s \in 0 .. s - 1
    BY ModRange
  <2>2. NoEntry \in [base : Nat, block : Nat]
    BY DEF NoEntry
  <2> HIDE DEF old
  <2> QED BY <1>1, <1>2, <2>1, <2>2
<1>4. NewBlockIndex(p) = [size |-> 2 * s, front |-> s - 1, entries |-> [i \in 0 .. 2 * s - 1 |-> entry(i)]]
  <2> HIDE DEF old
  <2> QED BY <1>1 DEF NewBlockIndex, old
<1>5. 2 * s \in Nat \ {0} /\ s - 1 \in -1 .. 2 * s - 1
  OBVIOUS
<1> HIDE DEF entry
<1>6. [i \in 0 .. 2 * s - 1 |-> entry(i)] \in [0 .. 2 * s - 1 -> [base : Nat, block : Nat]]
  BY <1>3
<1>7. NewBlockIndex(p) \in Headers
  <2>1. PICK e : e = [i \in 0 .. 2 * s - 1 |-> entry(i)]
    OBVIOUS
  <2>2. PICK m \in Nat \ {0} : m = 2 * s
    BY <1>5
  <2>3. PICK x \in -1 .. m - 1 : x = s - 1
    BY <1>5, <2>2
  <2>4. e \in [0 .. m - 1 -> [base : Nat, block : Nat]]
    BY <1>6, <2>1, <2>2
  <2>5. NewBlockIndex(p) = [size |-> m, front |-> x, entries |-> e]
    BY <1>4, <2>1, <2>2, <2>3
  <2> QED BY <2>4, <2>5, HeaderMade
<1>8. ASSUME NEW i \in first .. K
      PROVE  NewBlockIndex(p).entries[i - first] = old.entries[Slot(p, i)]
  <2>1. i - first \in 0 .. 2 * s - 1 /\ i - first < s /\ f - s + (i - first) = f - (K + 1 - i)
    BY <1>1
  <2>2. NewBlockIndex(p).entries[i - first] = entry(i - first)
    BY <1>4, <2>1
  <2>3. Slot(p, i) = (f - (K + 1 - i)) % s
    BY <1>1 DEF Slot
  <2>4. entry(i - first) = old.entries[(f - s + (i - first)) % s]
    <3> HIDE DEF old
    <3>1. PICK d \in Int : d = i - first /\ d < s
      BY <2>1
    <3>2. entry(d) = old.entries[(f - s + d) % s]
      BY <1>1, <3>1 DEF entry
    <3> QED BY <3>1, <3>2
  <2> QED BY <2>1, <2>2, <2>3, <2>4
<1>9. slotsUsed[p] \in Nat \ {0} /\ slotsUsed[p] = s
  BY <1>1
<1>10. NewBlockIndex(p).size = 2 * s /\ NewBlockIndex(p).front = s - 1
  <2> HIDE DEF old
  <2>1. PICK e : e = [i \in 0 .. 2 * s - 1 |-> entry(i)]
    OBVIOUS
  <2>2. NewBlockIndex(p) = [size |-> 2 * s, front |-> s - 1, entries |-> e]
    BY <1>4, <2>1
  <2> QED BY <2>2
<1>11. \A i \in first .. K : NewBlockIndex(p).entries[i - first] = Header(p).entries[Slot(p, i)]
  BY <1>8
<1> HIDE DEF old
<1> QED BY <1>7, <1>9, <1>10, <1>11

(* A new block is put between the newest and the oldest, the index grown   *)
(* if full.                                                                *)
LEMMA RequisitionBlockKeepsRing ==
  ASSUME OwnerInv, RingInv, NEW t \in Threads, RequisitionBlock(t)
  PROVE  RingInv'
<1>0. pc[t] = "block" /\ pc[t] \in Owning /\ GoOn(t, "entry") /\ "entry" \in Owning
  BY DEF RequisitionBlock, Owning
<1>1. PICK p \in Producers : /\ p = mine[t] /\ InList(p) /\ RingTypes /\ RingAt(p)
                             /\ Window(p) \subseteq 1 .. Count(p)
  BY <1>0, StepBegins
<1>2. PICK K \in Nat, s \in Nat, first \in Int, L \in Nat :
        K = Count(p) /\ s = slotsUsed[p] /\ first = K - s + 1 /\ L = Len(next)
  <2>1. PICK K \in Nat, s \in Nat, L \in Nat : K = Count(p) /\ s = slotsUsed[p] /\ L = Len(next)
    BY <1>1, TypesOf
  <2>2. K - s + 1 \in Int
    BY <2>1
  <2> QED BY <2>1, <2>2
<1>b. PICK b \in Nat : b = L + 1
  OBVIOUS
<1>r. Window(p) = first .. K /\ s <= K /\ (K > 0 => s > 0) /\ first \in 1 .. K + 1 /\ (K > 0 => first \in 1 .. K)
      /\ tailBlock[p] = (IF K = 0 THEN 0 ELSE filled[p][K])
  BY <1>1, <1>2 DEF Window, RingAt, CountsOk
<1>t. /\ tailIndex[p] \in Nat /\ filled[p] \in Seq(Nat) /\ next \in Seq(Nat)
      /\ dequeued \in Seq(Nat) /\ Len(dequeued) = L
      /\ elements \in Seq([Slots -> Events]) /\ Len(elements) = L
  BY <1>1, <1>2, TypesOf DEF RingTypes
<1>f. \A i \in 1 .. K : filled[p][i] \in 1 .. L
  BY <1>1, <1>2 DEF RingAt, RingOk
<1>6. /\ tailBlock' = [tailBlock EXCEPT ![p] = b]
      /\ filled' = [filled EXCEPT ![p] = Append(filled[p], b)]
      /\ slotsUsed' = [slotsUsed EXCEPT ![p] = s + 1]
      /\ dequeued' = Append(dequeued, 0)
      /\ elements' = Append(elements, [i \in Slots |-> NoEvent])
      /\ UNCHANGED <<tailIndex, headIndex, emitted, log, consumed>>
  BY <1>1, <1>2, <1>b DEF RequisitionBlock, indexVars, Slots
<1>x. next' = IF K = 0 THEN Append(next, b) ELSE Append([next EXCEPT ![filled[p][K]] = b], next[filled[p][K]])
  <2>1. K # 0 => tailBlock[p] = filled[p][K] /\ tailBlock[p] # 0
    <3>1. K # 0 => K \in 1 .. K /\ K > 0
      BY <1>2
    <3> QED BY <1>r, <1>f, <3>1
  <2>2. K = 0 => tailBlock[p] = 0
    BY <1>r
  <2> QED BY <1>1, <1>2, <1>b, <2>1, <2>2 DEF RequisitionBlock
<1>7. /\ tailBlock'[p] = b /\ slotsUsed'[p] = s + 1
      /\ Len(filled'[p]) = K + 1 /\ filled'[p][K + 1] = b
      /\ \A i \in 1 .. K : filled'[p][i] = filled[p][i]
  <2>1. tailBlock'[p] = b /\ filled'[p] = Append(filled[p], b) /\ Len(filled[p]) = K /\ slotsUsed'[p] = s + 1
    BY <1>1, <1>2, <1>6 DEF RingTypes, Count
  <2>2. /\ Len(filled'[p]) = K + 1 /\ filled'[p][K + 1] = b
        /\ \A i \in 1 .. K : filled'[p][i] = filled[p][i]
    BY <1>t, <2>1
  <2> QED BY <2>1, <2>2
<1>8. /\ dequeued' \in Seq(Nat) /\ Len(dequeued') = b /\ dequeued'[b] = 0
      /\ \A c \in 1 .. L : dequeued'[c] = dequeued[c]
  BY <1>2, <1>b, <1>6, <1>t
<1>9. /\ elements' \in Seq([Slots -> Events]) /\ Len(elements') = b
      /\ \A c \in 1 .. L : elements'[c] = elements[c]
  <2>1. [i \in Slots |-> NoEvent] \in [Slots -> Events]
    BY DEF NoEvent, Events
  <2> QED BY <1>2, <1>b, <1>6, <1>t, <2>1
<1>10. /\ next' \in Seq(Nat) /\ Len(next') = b
       /\ next'[b] = (IF K = 0 THEN b ELSE next[filled[p][K]])
       /\ K > 0 => next'[filled[p][K]] = b
       /\ \A c \in 1 .. L : (K = 0 \/ c # filled[p][K]) => next'[c] = next[c]
  <2>1. CASE K = 0
    BY <1>2, <1>b, <1>t, <1>x, <2>1
  <2>2. CASE K > 0
    <3>1. PICK c \in Nat : c = filled[p][K] /\ c \in 1 .. L
      <4>1. K \in 1 .. K
        BY <2>2
      <4> QED BY <1>f, <4>1
    <3>2. PICK N : N = [next EXCEPT ![c] = b]
      OBVIOUS
    <3>3. N \in Seq(Nat) /\ Len(N) = L /\ N[c] = b /\ \A d \in 1 .. L : d # c => N[d] = next[d]
      BY <1>2, <1>t, <3>1, <3>2
    <3>4. next' = Append(N, next[c]) /\ next[c] \in Nat
      <4>1. next' = Append([next EXCEPT ![c] = b], next[c])
        BY <1>x, <2>2, <3>1
      <4>2. next[c] \in Nat
        <5>1. c \in 1 .. Len(next) /\ next \in Seq(Nat)
          BY <1>1, <1>2, <3>1 DEF RingTypes
        <5> QED BY <5>1
      <4> QED BY <3>2, <4>1, <4>2
    <3>5. /\ next' \in Seq(Nat) /\ Len(next') = b /\ next'[b] = next[c] /\ next'[c] = b
          /\ \A d \in 1 .. L : d # c => next'[d] = next[d]
      BY <1>b, <3>1, <3>3, <3>4
    <3> QED BY <2>2, <3>1, <3>5
  <2> QED BY <1>2, <2>1, <2>2
<1>11. /\ Busy(p, {"block"}) /\ ~ Busy(p, {"entry", "front"})
       /\ Busy(p, {"entry", "front"})' /\ ~ Busy(p, {"write", "commit"})' /\ ~ Busy(p, {"block"})'
       /\ ~ Busy(p, {"front"})' /\ Busy(p, {"entry", "front", "write", "commit"})'
       /\ \A u \in Threads : mine'[u] = p /\ pc'[u] \in Owning => u = t
  BY <1>0, <1>1, BusyFacts
<1>12. /\ Dequeued(p)' = Dequeued(p) /\ Dequeued(p) \in Nat /\ Count(p)' = K + 1
       /\ (Count(p) - slotsUsed[p] + 1)' = first
       /\ \A i : From(i)' = From(i)
  <2>1. SameReading(p)
    BY <1>0, <1>6, ReadingUnchanged DEF GoOn, callVars
  <2>2. Count(p)' = K + 1
    BY <1>7 DEF Count
  <2>3. (Count(p) - slotsUsed[p] + 1)' = first
    <3>1. K + 1 - (s + 1) + 1 = first
      BY <1>2
    <3>2. slotsUsed'[p] = s + 1
      BY <1>7
    <3> QED BY <2>2, <3>1, <3>2
  <2> QED BY <2>1, <2>2, <2>3, DequeuedIn DEF SameReading, From
<1>w. Window(p)' = first .. K + 1 /\ \A i \in first .. K + 1 : (i \in first .. K /\ i \in 1 .. K) \/ i = K + 1
  <2>1. Window(p)' = first .. K + 1
    BY <1>12 DEF Window
  <2>2. \A i \in first .. K + 1 : (i \in first .. K /\ i \in 1 .. K) \/ i = K + 1
    BY <1>2, <1>r
  <2> QED BY <2>1, <2>2
<1>e. PICK n \in Nat \ {0}, z \in Nat \ {0}, g \in Nat :
        /\ n = Len(blockIndex[p]) /\ z = Header(p).size /\ g = indexFront[p] /\ g < z /\ s <= z
        /\ Header(p) \in Headers /\ Header(p) = blockIndex[p][n] /\ blockIndex[p] \in Seq(Headers)
  <2>1. blockIndex[p] # <<>> /\ slotsUsed[p] <= Header(p).size /\ indexFront[p] < Header(p).size
    BY <1>1 DEF RingAt, IndexOk
  <2>2. Header(p) \in Headers /\ Len(blockIndex[p]) \in Nat \ {0} /\ Header(p) = blockIndex[p][Len(blockIndex[p])]
    BY <1>1, <2>1, HeaderOf
  <2>3. indexFront[p] \in Nat /\ blockIndex[p] \in Seq(Headers)
    BY <1>1, TypesOf
  <2> QED BY <1>2, <2>1, <2>2, <2>3, HeaderFields
<1>h. NextOrd(p) = K + 1 /\ NextOrd(p)' = K + 1
  BY <1>2, <1>11, <1>12 DEF NextOrd
<1>i. /\ blockIndex' \in [Producers -> Seq(Headers)] /\ indexFront' \in [Producers -> Nat]
      /\ \A q \in Producers \ {p} : blockIndex'[q] = blockIndex[q] /\ indexFront'[q] = indexFront[q]
      /\ Len(blockIndex'[p]) \in Nat /\ n <= Len(blockIndex'[p])
      /\ \A h \in 1 .. n : blockIndex'[p][h] = blockIndex[p][h]
      /\ Len(blockIndex'[p]) = n => \A i \in Int : Slot(p, i)' = Slot(p, i)
      /\ s + 1 <= Header(p)'.size /\ indexFront'[p] < Header(p)'.size
      /\ \A i \in first .. K : Header(p)'.entries[Slot(p, i)'] = Header(p).entries[Slot(p, i)]
      /\ K > 0 => Header(p)'.front = Slot(p, K)'
  <2>1. CASE s # z
    <3>1. UNCHANGED <<blockIndex, indexFront>>
      BY <1>1, <1>2, <1>e, <2>1 DEF RequisitionBlock
    <3>2. Header(p)' = Header(p) /\ NextOrd(p)' = NextOrd(p)
      BY <1>h, <3>1 DEF Header
    <3>3. \A i : Slot(p, i)' = Slot(p, i)
      BY <3>1, <3>2 DEF Slot
    <3>4. K > 0 => Header(p).front = Slot(p, K)
      <4>1. NextOrd(p) - 1 = K /\ (K > 0 => NextOrd(p) > 1)
        BY <1>2, <1>h
      <4> QED BY <1>1, <4>1 DEF RingAt, IndexOk
    <3>5. s + 1 <= z
      BY <1>2, <1>e, <2>1
    <3>6. /\ blockIndex' \in [Producers -> Seq(Headers)] /\ indexFront' \in [Producers -> Nat]
          /\ \A q \in Producers \ {p} : blockIndex'[q] = blockIndex[q] /\ indexFront'[q] = indexFront[q]
          /\ Len(blockIndex'[p]) \in Nat /\ n <= Len(blockIndex'[p])
          /\ \A h \in 1 .. n : blockIndex'[p][h] = blockIndex[p][h]
      BY <1>1, <1>e, <3>1 DEF RingTypes
    <3>7. s + 1 <= Header(p)'.size /\ indexFront'[p] < Header(p)'.size
      BY <1>e, <3>1, <3>2, <3>5
    <3>8. \A i \in first .. K : Header(p)'.entries[Slot(p, i)'] = Header(p).entries[Slot(p, i)]
      BY <3>2, <3>3
    <3>9. K > 0 => Header(p)'.front = Slot(p, K)'
      BY <3>2, <3>3, <3>4
    <3> QED BY <3>3, <3>6, <3>7, <3>8, <3>9
  <2>2. CASE s = z
    <3>1. /\ blockIndex' = [blockIndex EXCEPT ![p] = Append(blockIndex[p], NewBlockIndex(p))]
          /\ indexFront' = [indexFront EXCEPT ![p] = s]
      BY <1>1, <1>2, <1>e, <2>2 DEF RequisitionBlock
    <3>2. PICK N \in Headers : /\ N = NewBlockIndex(p) /\ N.size = 2 * s /\ N.front = s - 1
                               /\ \A i \in first .. K : N.entries[i - first] = Header(p).entries[Slot(p, i)]
      <4>1. CountsOk(p) /\ IndexOk(p) /\ slotsUsed[p] = Header(p).size /\ first = K - slotsUsed[p] + 1
        BY <1>1, <1>2, <1>e, <2>2 DEF RingAt
      <4> QED BY <1>1, <1>2, <1>h, <4>1, GrownHeader
    <3>3. blockIndex'[p] = Append(blockIndex[p], N) /\ blockIndex' \in [Producers -> Seq(Headers)]
      <4>1. Append(blockIndex[p], N) \in Seq(Headers)
        BY <1>e
      <4> QED BY <1>1, <3>1, <3>2, <4>1 DEF RingTypes
    <3>4. /\ Len(blockIndex'[p]) = n + 1 /\ blockIndex'[p][n + 1] = N
          /\ \A h \in 1 .. n : blockIndex'[p][h] = blockIndex[p][h]
      BY <1>e, <3>3
    <3>5. Header(p)' = N
      BY <3>4 DEF Header
    <3>6. indexFront'[p] = s /\ indexFront' \in [Producers -> Nat]
          /\ \A q \in Producers \ {p} : blockIndex'[q] = blockIndex[q] /\ indexFront'[q] = indexFront[q]
      BY <1>1, <1>2, <3>1 DEF RingTypes
    <3>7. ASSUME NEW i \in first .. K
          PROVE  Slot(p, i)' = i - first
      <4>0. i - first \in 0 .. s - 1 /\ s - (K + 1 - i) = i - first
        BY <1>2
      <4>3. 2 * s \in Nat \ {0} /\ i - first \in 0 .. 2 * s - 1
        <5>1. s > 0
          BY <1>e, <2>2
        <5> QED BY <4>0, <5>1
      <4>1. PICK m \in Nat \ {0}, a \in 0 .. 2 * s - 1 : m = 2 * s /\ a = i - first /\ a \in 0 .. m - 1 /\ s - (K + 1 - i) = a
        BY <4>0, <4>3
      <4>2. a % m = a
        BY <4>1, ModSmall
      <4> QED BY <1>h, <3>2, <3>5, <3>6, <4>1, <4>2 DEF Slot
    <3>8. K > 0 => Slot(p, K)' = s - 1
      <4>1. K > 0 => K \in first .. K /\ K - first = s - 1
        BY <1>2, <1>r
      <4> QED BY <3>7, <4>1
    <3>9. s + 1 <= 2 * s /\ s < 2 * s /\ n + 1 \in Nat /\ n <= n + 1 /\ n + 1 # n
      BY <1>e, <2>2
    <3> QED BY <3>2, <3>3, <3>4, <3>5, <3>6, <3>7, <3>8, <3>9
  <2> QED BY <2>1, <2>2
<1>13. RingTypes'
  <2>0. Append(filled[p], b) \in Seq(Nat) /\ s + 1 \in Nat
    BY <1>t
  <2>1. filled' \in [Producers -> Seq(Nat)] /\ tailBlock' \in [Producers -> Nat] /\ slotsUsed' \in [Producers -> Nat]
    BY <1>1, <1>6, <2>0 DEF RingTypes
  <2> QED BY <1>1, <1>6, <1>8, <1>9, <1>10, <1>i, <2>1 DEF RingTypes
<1>14. OwnerStep(t, "entry")
  <2>1. \A q \in Producers \ {p} : SameRing(q)
    BY <1>1, <1>6, <1>i DEF SameRing, RingTypes
  <2>2. ASSUME NEW q \in Producers \ {p} PROVE SameBlocks(q)
    <3>1. L <= b
      BY <1>b
    <3>2. \A i \in Window(q) : filled[q][i] \in 1 .. L /\ (K > 0 => filled[q][i] # filled[p][K])
      <4>1. Window(q) \subseteq 1 .. Count(q) /\ \A i \in 1 .. Count(q) : filled[q][i] \in 1 .. L
        BY <1>1, <1>2, WindowFacts DEF RingInv, RingOk
      <4>2. K > 0 => K \in Window(p)
        BY <1>2, <1>r
      <4>3. Apart(p, q)
        BY DEF RingInv
      <4> QED BY <4>1, <4>2, <4>3 DEF Apart
    <3>3. K = 0 \/ K > 0
      BY <1>2
    <3> QED BY <1>2, <1>8, <1>9, <1>10, <3>1, <3>2, <3>3 DEF SameBlocks
  <2> QED BY <1>0, <1>1, <1>6, <2>1, <2>2 DEF OwnerStep
<1>15. tailIndex[p] = From(K + 1) /\ tailIndex'[p] = From(K + 1) /\ Dequeued(p) <= tailIndex[p]
  <2>1. tailIndex[p] = From(K + 1)
    BY <1>1, <1>2, <1>11 DEF RingAt, TailOk
  <2>2. Dequeued(p) <= headIndex[p] /\ headIndex[p] <= tailIndex[p] /\ headIndex[p] \in Nat
    BY <1>1, TypesOf DEF RingAt, CountsOk
  <2> QED BY <1>6, <1>12, <1>t, <2>1, <2>2
<1>16. TailOk(p)'
  BY <1>11, <1>12, <1>15 DEF TailOk
<1>17. CountsOk(p)'
  <2>1. InList(p)'
    BY <1>0, <1>1 DEF InList, GoOn, listVars
  <2>2. s + 1 <= K + 1 /\ K + 1 # 0 /\ s + 1 > 0
    BY <1>2, <1>r
  <2>3. log' = log /\ headIndex' = headIndex /\ tailIndex' = tailIndex
    BY <1>6
  <2>4. From(first) <= Dequeued(p)
    BY <1>1, <1>2 DEF RingAt, CountsOk
  <2>5. (From(Count(p) - slotsUsed[p] + 1) <= Dequeued(p))'
    BY <1>12, <2>4 DEF From
  <2> QED BY <1>1, <1>7, <1>12, <2>1, <2>2, <2>3, <2>5 DEF RingAt, CountsOk
<1>18. RingOk(p)'
  <2>1. (\A i \in 1 .. Count(p) : filled[p][i] \in 1 .. Len(next))'
    <3>1. \A i \in 1 .. K + 1 : i \in 1 .. K \/ i = K + 1
      BY <1>2
    <3>2. b \in 1 .. b /\ \A c \in 1 .. L : c \in 1 .. b
      BY <1>b
    <3> QED BY <1>7, <1>10, <1>12, <1>f, <3>1, <3>2
  <2>2. ASSUME NEW i \in first .. K + 1
        PROVE  next'[filled'[p][i]] = filled'[p][IF i < K + 1 THEN i + 1 ELSE first]
    <3>1. \A j \in first .. K : next[filled[p][j]] = filled[p][IF j < K THEN j + 1 ELSE first]
      BY <1>1, <1>2, <1>r DEF RingAt, RingOk
    <3>2. CASE i < K
      <4>1. i \in first .. K /\ K \in first .. K /\ i \in 1 .. K /\ i + 1 \in 1 .. K /\ i < K + 1 /\ i # K
        BY <1>2, <1>r, <3>2
      <4>2. filled[p][i] # filled[p][K] /\ filled[p][i] \in 1 .. L
        BY <1>1, <1>f, <1>r, <4>1 DEF RingAt, RingOk
      <4> QED BY <1>7, <1>10, <3>1, <3>2, <4>1, <4>2
    <3>3. CASE i = K
      <4>1. K \in 1 .. K /\ K < K + 1 /\ K > 0
        BY <1>2, <1>r, <3>3
      <4> QED BY <1>7, <1>10, <3>3, <4>1
    <3>4. CASE i = K + 1
      <4>0. ~ (K + 1 < K + 1) /\ (K = 0 => first = K + 1) /\ (K > 0 => K \in first .. K /\ first \in 1 .. K)
            /\ (K = 0 \/ K > 0) /\ ~ (K < K)
        BY <1>2, <1>r
      <4>1. K > 0 => next[filled[p][K]] = filled[p][first]
        BY <3>1, <4>0
      <4> QED BY <1>7, <1>10, <3>4, <4>0, <4>1
    <3> QED BY <1>w, <3>2, <3>3, <3>4
  <2>3. (\A i \in Window(p) : next[filled[p][i]] = filled[p][IF i < Count(p) THEN i + 1 ELSE Count(p) - slotsUsed[p] + 1])'
    BY <1>12, <1>w, <2>2
  <2>4. ASSUME NEW i \in first .. K + 1, NEW j \in first .. K + 1, filled'[p][i] = filled'[p][j]
        PROVE  i = j
    <3>1. \A m, o \in first .. K : filled[p][m] = filled[p][o] => m = o
      BY <1>1, <1>r DEF RingAt, RingOk
    <3>2. \A m \in 1 .. K : filled'[p][m] = filled[p][m] /\ filled[p][m] # b
      BY <1>2, <1>7, <1>b, <1>f
    <3>3. CASE i \in first .. K /\ j \in first .. K /\ i \in 1 .. K /\ j \in 1 .. K
      BY <2>4, <3>1, <3>2, <3>3
    <3>4. CASE i = K + 1 \/ j = K + 1
      BY <1>7, <1>w, <2>4, <3>2, <3>4
    <3> QED BY <1>w, <3>3, <3>4
  <2>5. (\A i, j \in Window(p) : filled[p][i] = filled[p][j] => i = j)'
    BY <1>w, <2>4
  <2>6. ASSUME NEW i \in first .. K + 1
        PROVE  dequeued'[filled'[p][i]] = Clamp(Dequeued(p) - From(i))
    <3>1. CASE i \in first .. K /\ i \in 1 .. K
      <4>1. dequeued[filled[p][i]] = Clamp(Dequeued(p) - From(i))
        BY <1>1, <1>r, <3>1 DEF RingAt, RingOk
      <4>2. filled'[p][i] = filled[p][i] /\ filled[p][i] \in 1 .. L
        BY <1>7, <1>f, <3>1
      <4> QED BY <1>8, <4>1, <4>2
    <3>2. CASE i = K + 1
      <4>1. PICK x \in Int : x = Dequeued(p) - From(i) /\ x <= 0
        BY <1>12, <1>15, <1>t, <3>2
      <4>2. Clamp(x) = 0
        BY <4>1, ClampFacts
      <4> QED BY <1>7, <1>8, <3>2, <4>1, <4>2
    <3> QED BY <1>w, <3>1, <3>2
  <2>7. (\A i \in Window(p) : dequeued[filled[p][i]] = Clamp(Dequeued(p) - From(i)))'
    BY <1>12, <1>w, <2>6 DEF Clamp
  <2> QED BY <2>1, <2>3, <2>5, <2>7 DEF RingOk
<1>19. ContentsOk(p)'
  <2>1. ASSUME NEW i \in first .. K + 1, NEW o \in Slots, From(i) + o < tailIndex[p]
        PROVE  elements'[filled'[p][i]][o] = log[p][From(i) + o + 1]
    <3>1. i # K + 1
      <4>1. From(K + 1) \in Int /\ o >= 0 /\ o \in Int
        BY FromFacts DEF Slots
      <4> QED BY <1>15, <1>t, <2>1, <4>1
    <3>2. i \in Window(p) /\ i \in 1 .. K
      BY <1>r, <1>w, <3>1
    <3> QED BY <1>1, <1>7, <1>9, <1>f, <2>1, <3>2 DEF RingAt, ContentsOk
  <2>2. \A u \in Threads : pc'[u] = "commit" /\ mine'[u] = p => FALSE
    BY <1>11 DEF Busy
  <2>3. (\A i \in Window(p), o \in Slots :
           From(i) + o < tailIndex[p] => elements[filled[p][i]][o] = log[p][From(i) + o + 1])'
    <3>1. tailIndex' = tailIndex /\ log' = log /\ Window(p)' = first .. K + 1 /\ \A i : From(i)' = From(i)
      BY <1>6, <1>12, <1>w
    <3> QED BY <2>1, <3>1
  <2> QED BY <2>2, <2>3 DEF ContentsOk
<1>20. IndexOk(p)'
  <2>1. ASSUME NEW i \in first .. K + 1, i < NextOrd(p)'
        PROVE  Header(p)'.entries[Slot(p, i)'] = EntryOf(p, i)'
    <3>1. i \in Window(p) /\ i \in first .. K /\ i \in 1 .. K /\ i < NextOrd(p)
      <4>1. i # K + 1
        BY <1>2, <1>h, <2>1
      <4> QED BY <1>h, <1>r, <1>w, <2>1, <4>1
    <3>2. EntryOf(p, i)' = EntryOf(p, i)
      BY <1>7, <1>12, <3>1 DEF EntryOf
    <3>3. Header(p).entries[Slot(p, i)] = EntryOf(p, i)
      BY <1>1, <3>1 DEF RingAt, IndexOk
    <3> QED BY <1>i, <3>1, <3>2, <3>3
  <2>2. (NextOrd(p) > 1 => Header(p).front = Slot(p, NextOrd(p) - 1))'
    <3>1. (NextOrd(p) - 1)' = K /\ (NextOrd(p)' > 1 => K > 0)
      BY <1>2, <1>h
    <3>2. (Slot(p, NextOrd(p) - 1))' = Slot(p, K)'
      BY <3>1 DEF Slot
    <3> QED BY <1>i, <3>1, <3>2
  <2>3. blockIndex'[p] # <<>>
    BY <1>i, <1>e
  <2> QED BY <1>7, <1>11, <1>i, <1>w, <2>1, <2>2, <2>3 DEF IndexOk
<1>21. \A q \in Producers \ {p} : Apart(p, q)'
  <2> SUFFICES \A q \in Producers \ {p} : \A i \in first .. K + 1, j \in Window(q) : filled'[p][i] # filled'[q][j]
    <3> TAKE q \in Producers \ {p}
    <3>1. filled'[q] = filled[q] /\ slotsUsed'[q] = slotsUsed[q]
      BY <1>1, <1>6 DEF RingTypes
    <3>2. Window(q)' = Window(q)
      BY <3>1 DEF Window, Count
    <3> QED BY <1>w, <3>2 DEF Apart
  <2> SUFFICES ASSUME NEW q \in Producers \ {p}, NEW i \in first .. K + 1, NEW j \in Window(q)
               PROVE  filled'[p][i] # filled'[q][j]
    OBVIOUS
  <2>1. filled'[q][j] = filled[q][j] /\ filled[q][j] # b
    <3>1. Window(q) \subseteq 1 .. Count(q) /\ \A k \in 1 .. Count(q) : filled[q][k] \in 1 .. L
      BY <1>1, <1>2, WindowFacts DEF RingInv, RingOk
    <3>2. b \notin 1 .. L
      BY <1>2, <1>b
    <3> QED BY <1>1, <1>6, <3>1, <3>2 DEF RingTypes
  <2>2. CASE i = K + 1
    BY <1>7, <2>1, <2>2
  <2>3. CASE i \in first .. K /\ i \in 1 .. K
    <3>1. filled[p][i] # filled[q][j]
      BY <1>r, <2>3 DEF RingInv, Apart
    <3> QED BY <1>7, <2>1, <2>3, <3>1
  <2> QED BY <1>w, <2>2, <2>3
<1>22. call.asked = p => LocateOk' /\ ProcessOk'
  <2>1. UNCHANGED <<cpc, call>>
    BY <1>0 DEF GoOn, callVars
  <2>2. NextOrd(p)' \in Nat /\ NextOrd(p) <= NextOrd(p)' /\ Count(p)' \in Nat /\ Count(p) <= Count(p)'
    BY <1>2, <1>12, <1>h
  <2>3. \A i \in 1 .. Count(p) : filled'[p][i] = filled[p][i]
    BY <1>2, <1>7
  <2>4. /\ \A h \in 1 .. n : blockIndex'[p][h].size = blockIndex[p][h].size
        /\ \A h \in 1 .. n - 1 : blockIndex'[p][h] = blockIndex[p][h]
        /\ blockIndex'[p][n] = blockIndex[p][n]
    <3>1. n \in 1 .. n /\ \A h \in 1 .. n - 1 : h \in 1 .. n
      OBVIOUS
    <3> QED BY <1>i, <3>1
  <2> QED BY <1>e, <1>i, <2>1, <2>2, <2>3, <2>4, CallStays
<1>23. RingAt(p)' /\ tailIndex'[p] >= tailIndex[p]
  BY <1>6, <1>16, <1>17, <1>18, <1>19, <1>20, <1>t DEF RingAt
<1> QED BY <1>0, <1>1, <1>13, <1>14, <1>21, <1>22, <1>23, OwnerStepKeepsRing
-----------------------------------------------------------------------------
(* Types after a step of the consumer. *)
LEMMA ConsumerTypes ==
  ASSUME RingInv, ConsumerStep, headIndex' \in [Producers -> Nat], dequeued' \in Seq(Nat),
         Len(dequeued') = Len(dequeued), consumed' \in [Producers -> Nat]
  PROVE  RingTypes'
  BY ConsumerLeavesOwners DEF RingInv, RingTypes, ringVars

(* A step of the consumer up to where it marks items as dequeued.          *)
LEMMA ConsumerKeepsRing ==
  ASSUME OwnerInv, RingInv, ConsumerStep, UNCHANGED dequeued,
         headIndex' \in [Producers -> Nat], consumed' \in [Producers -> Nat],
         \A q \in Producers :
           /\ Dequeued(q)' = Dequeued(q) /\ ConsumedOk(q)'
           /\ headIndex[q] <= headIndex'[q] /\ headIndex'[q] <= tailIndex[q],
         CallOk', LocateOk', ProcessOk'
  PROVE  RingInv'
<1>1. UNCHANGED <<tailIndex, tailBlock, slotsUsed, indexFront, blockIndex, producerListTail, pc, mine,
                  log, filled, emitted, next, elements>>
  BY ConsumerLeavesOwners DEF ringVars, listVars, threadVars
<1>2. RingTypes' /\ RingTypes
  <2>1. dequeued' \in Seq(Nat) /\ Len(dequeued') = Len(dequeued)
    BY DEF RingInv, RingTypes
  <2> QED BY <2>1, ConsumerTypes DEF RingInv
<1>3. ASSUME NEW q \in Producers
      PROVE  /\ TailOk(q)' /\ CountsOk(q)' /\ RingOk(q)' /\ ContentsOk(q)' /\ IndexOk(q)'
  <2>1. TailOk(q) /\ CountsOk(q) /\ RingOk(q) /\ ContentsOk(q) /\ IndexOk(q)
    BY DEF RingInv
  <2>2. \A X : Busy(q, X)' <=> Busy(q, X)
    BY <1>1 DEF Busy
  <2>3. Count(q)' = Count(q) /\ Window(q)' = Window(q) /\ \A i : From(i)' = From(i)
    BY <1>1 DEF Count, Window, From
  <2>4. TailOk(q)'
    BY <1>1, <2>1, <2>2, <2>3 DEF TailOk
  <2>5. CountsOk(q)'
    <3>1. Dequeued(q) <= headIndex'[q]
      BY <1>2, <2>1, DequeuedIn, TypesOf DEF CountsOk, RingTypes
    <3>2. InList(q)' <=> InList(q)
      BY <1>1 DEF InList
    <3> QED BY <1>1, <2>1, <2>3, <3>1, <3>2 DEF CountsOk
  <2>6. RingOk(q)'
    BY <1>1, <2>1, <2>3 DEF RingOk, Clamp
  <2>7. ContentsOk(q)'
    BY <1>1, <2>1, <2>3 DEF ContentsOk, Event
  <2>8. NextOrd(q)' = NextOrd(q) /\ Header(q)' = Header(q)
    BY <1>1, <2>2, <2>3 DEF NextOrd, Header
  <2>9. \A i : Slot(q, i)' = Slot(q, i) /\ EntryOf(q, i)' = EntryOf(q, i)
    BY <1>1, <2>3, <2>8 DEF Slot, EntryOf
  <2>10. IndexOk(q)'
    BY <1>1, <2>1, <2>2, <2>3, <2>8, <2>9 DEF IndexOk
  <2> QED BY <2>4, <2>5, <2>6, <2>7, <2>10
<1>4. \A p, q \in Producers : p # q => Apart(p, q)'
  BY <1>1 DEF RingInv, Apart, Window, Count
<1> QED BY <1>2, <1>3, <1>4 DEF RingInv

(* Steps of the consumer while it claims nothing.                          *)
LEMMA AskKeepsRing ==
  ASSUME OwnerInv, RingInv, ConsumerStep, UNCHANGED <<dequeued, headIndex, consumed>>, CallOk',
         cpc \notin {"index", "locate", "process", "empty"}, cpc' \notin {"index", "locate", "process", "empty"}
  PROVE  RingInv'
<1>1. RingTypes
  BY DEF RingInv
<1>2. ASSUME NEW q \in Producers
      PROVE  /\ Dequeued(q)' = Dequeued(q) /\ ConsumedOk(q)'
             /\ headIndex[q] <= headIndex'[q] /\ headIndex'[q] <= tailIndex[q]
  <2>1. Dequeued(q) = headIndex[q] /\ Dequeued(q)' = headIndex'[q]
    BY DEF Dequeued, Reading
  <2>2. consumed[q] = Dequeued(q)
    BY DEF RingInv, ConsumedOk
  <2>3. ConsumedOk(q)'
    BY <2>1, <2>2 DEF ConsumedOk
  <2>4. headIndex[q] \in Nat /\ headIndex[q] <= tailIndex[q]
    BY <1>1, TypesOf DEF RingInv, CountsOk
  <2> QED BY <2>1, <2>3, <2>4
<1>3. headIndex' \in [Producers -> Nat] /\ consumed' \in [Producers -> Nat]
  BY <1>1 DEF RingTypes
<1>4. LocateOk' /\ ProcessOk'
  BY DEF LocateOk, ProcessOk
<1> QED BY <1>2, <1>3, <1>4, ConsumerKeepsRing

(* The newest producer is in the list. *)
LEMMA HeadInList ==
  ASSUME OwnerInv, producerListTail # <<>>
  PROVE  InList(Head(producerListTail)) /\ Head(producerListTail) \in Producers
<1>1. producerListTail \in Seq(Producers)
  BY DEF OwnerInv, OwnerTypes
<1> QED BY <1>1 DEF InList

(* The first producer asked is in the list. *)
LEMMA TryDequeueKeepsRing ==
  ASSUME OwnerInv, RingInv, TryDequeue
  PROVE  RingInv'
<1>0. ConsumerStep
  BY DEF ConsumerStep
<1>1. /\ cpc = "idle" /\ producerListTail # <<>> /\ cpc' = "ask"
      /\ token' = (IF token = None THEN FirstProducer ELSE token)
      /\ call' = [NoCall EXCEPT !.asked = token', !.walkTail = None]
      /\ UNCHANGED <<consumed, dequeued, headIndex, producerListTail>>
  BY DEF TryDequeue, ConsumerOnly, blockVars, indexVars, listVars
<1>2. InList(token') /\ token' \in Producers
  <2>1. CASE token = None
    <3> DEFINE L == producerListTail
               n == Len(L)
               c == producerCount
    <3>1. L \in Seq(Producers) /\ n \in Nat /\ n > 0 /\ c \in Nat /\ c > 0
      BY <1>1 DEF OwnerInv, OwnerTypes
    <3>2. 1 % c \in Int
      BY <3>1
    <3>3. (c - 1 + (1 % c)) % n \in 0 .. n - 1
      BY <3>1, <3>2
    <3>4. 1 + ((c - 1 + (1 % c)) % n) \in 1 .. n
      <4> HIDE DEF c, n
      <4> QED BY <3>1, <3>3
    <3>5. PICK i \in 1 .. n : FirstProducer = L[i]
      BY <3>4 DEF FirstProducer
    <3> QED BY <1>1, <2>1, <3>1, <3>5 DEF InList
  <2>2. CASE token # None
    BY <1>1, <2>2 DEF RingInv, CallOk
  <2> QED BY <2>1, <2>2
<1>3. token' # None
  BY <1>2, QueueAssumption DEF Producers
<1>4. CallOk'
  <2>1. call' = [asked |-> token', walkTail |-> None, count |-> 0, index |-> 0, end |-> 0,
                 header |-> 0, front |-> 0, at |-> 0, ctx |-> None]
    BY <1>1 DEF NoCall
  <2>2. call' \in Calls
    BY <1>2, <2>1 DEF Calls
  <2>3. InList(call.asked)' /\ InList(token)'
    BY <1>1, <1>2, <2>1 DEF InList
  <2> QED BY <1>1, <1>2, <1>3, <2>1, <2>2, <2>3 DEF CallOk
<1> QED BY <1>0, <1>1, <1>4, AskKeepsRing

(* The next producer asked is in the list. *)
LEMMA NothingThereKeepsRing ==
  ASSUME OwnerInv, RingInv, NothingThere
  PROVE  RingInv'
<1>0. ConsumerStep
  BY DEF ConsumerStep
<1> DEFINE tail == IF call.asked = token THEN Head(producerListTail) ELSE call.walkTail
           ptr  == NextProd(call.asked, tail)
<1>1. /\ cpc = "ask"
      /\ IF ptr = token
         THEN cpc' = "idle" /\ call' = NoCall
         ELSE cpc' = "ask" /\ call' = [call EXCEPT !.asked = ptr, !.walkTail = tail]
      /\ UNCHANGED <<token, consumed, dequeued, headIndex, producerListTail>>
  BY DEF NothingThere, ConsumerOnly, blockVars, indexVars, listVars
<1>2. InList(tail) /\ tail \in Producers /\ InList(token) /\ token \in Producers
  <2>1. producerListTail # <<>> /\ InList(token) /\ producerListTail \in Seq(Producers)
    BY <1>1 DEF RingInv, CallOk, InList, OwnerInv, OwnerTypes
  <2>2. \A q : InList(q) => q \in Producers
    BY <2>1 DEF InList
  <2>3. InList(tail)
    BY <1>1, <2>1, HeadInList DEF RingInv, CallOk
  <2> QED BY <2>1, <2>2, <2>3
<1>3. InList(ptr) /\ ptr \in Producers
  <2>1. producerListTail \in Seq(Producers) /\ InList(call.asked)
    BY <1>1 DEF RingInv, CallOk, OwnerInv, OwnerTypes
  <2> HIDE DEF tail
  <2> QED BY <1>2, <2>1, NextProdInList
<1>4. CallOk'
  <2>1. call \in Calls /\ token # None
    BY <1>1 DEF RingInv, CallOk
  <2> HIDE DEF ptr, tail
  <2>2. CASE ptr = token
    <3>1. call' \in Calls /\ cpc' = "idle" /\ token' = token /\ InList(token)'
      BY <1>1, <1>2, <2>2 DEF NoCall, Calls, InList
    <3> QED BY <1>2, <3>1 DEF CallOk
  <2>3. CASE ptr # token
    <3>1. call' \in Calls /\ call'.asked = ptr /\ call'.walkTail = tail
      BY <1>1, <1>2, <1>3, <2>1, <2>3 DEF Calls
    <3>2. /\ cpc' = "ask" /\ token' = token /\ InList(token)' /\ InList(call.asked)' /\ InList(call.walkTail)'
      BY <1>1, <1>2, <1>3, <2>3, <3>1 DEF InList
    <3> QED BY <1>2, <2>1, <3>1, <3>2 DEF CallOk
  <2> QED BY <2>2, <2>3
<1> HIDE DEF ptr, tail
<1>5. cpc' \in {"ask", "idle"}
  BY <1>1
<1> QED BY <1>0, <1>1, <1>4, <1>5, AskKeepsRing

(* No more is asked for than is committed. *)
LEMMA ReserveKeepsRing ==
  ASSUME OwnerInv, RingInv, Reserve
  PROVE  RingInv'
<1>0. ConsumerStep
  BY DEF ConsumerStep
<1>1. PICK p \in Producers : p = call.asked /\ InList(p)
  BY DEF Reserve, RingInv, CallOk, InList, OwnerInv, OwnerTypes
<1>2. PICK a \in Nat, h \in Nat : a = tailIndex[p] - headIndex[p] /\ a > 0 /\ h = headIndex[p] /\ tailIndex[p] = h + a
  <2>1. tailIndex[p] \in Nat /\ headIndex[p] \in Nat /\ tailIndex[p] - headIndex[p] > 0
    BY <1>1, TypesOf DEF RingInv, Reserve
  <2> QED BY <2>1
<1>3. PICK m \in Nat : m = (IF a < BulkLimit THEN a ELSE BulkLimit) /\ m \in 1 .. BulkLimit /\ m <= a
  BY <1>2, QueueAssumption
<1>4. /\ cpc = "ask" /\ cpc' = "claim" /\ call' = [call EXCEPT !.count = m]
      /\ UNCHANGED <<token, consumed, dequeued, headIndex, tailIndex, producerListTail>>
  BY <1>1, <1>2, <1>3 DEF Reserve, ConsumerOnly, blockVars, indexVars, listVars
<1>5. CallOk'
  <2>1. call \in Calls /\ token # None /\ token \in Producers \cup {None} /\ InList(token)
        /\ (call.asked # token => InList(call.walkTail))
    BY <1>4 DEF RingInv, CallOk
  <2>2. /\ call' \in Calls /\ call'.asked = p /\ call'.walkTail = call.walkTail /\ call'.count = m
    BY <1>1, <1>4, <2>1 DEF Calls
  <2>3. headIndex'[p] + m <= tailIndex'[p]
    <3>1. headIndex'[p] = h /\ tailIndex'[p] = h + a /\ h + m <= h + a
      <4>1. headIndex' = headIndex /\ tailIndex' = tailIndex
        BY <1>4
      <4>2. h + m <= h + a
        BY <1>2, <1>3
      <4> QED BY <1>2, <4>1, <4>2
    <3> QED BY <3>1
  <2>4. InList(token)' /\ InList(call.asked)' /\ (call'.asked # token' => InList(call.walkTail)')
    BY <1>1, <1>4, <2>1, <2>2 DEF InList
  <2> QED BY <1>3, <1>4, <2>1, <2>2, <2>3, <2>4 DEF CallOk
<1> QED BY <1>0, <1>4, <1>5, AskKeepsRing
-----------------------------------------------------------------------------
AtWork == {"index", "locate", "process", "empty"}

(* Who the consumer deals with is in the list. *)
LEMMA Asked ==
  ASSUME OwnerInv, RingInv, cpc # "idle"
  PROVE  \E p \in Producers : /\ p = call.asked /\ InList(p)
                              /\ RingTypes /\ RingAt(p) /\ Dequeued(p) \in Nat
<1>1. PICK p \in Producers : p = call.asked /\ InList(p)
  BY DEF RingInv, CallOk, InList, OwnerInv, OwnerTypes
<1> QED BY <1>1, DequeuedIn DEF RingInv, RingAt

(* The items of one block. *)
LEMMA ChunkFacts ==
  ASSUME OwnerInv, RingInv, NEW p \in Producers, call.asked = p, cpc \in AtWork
  PROVE  /\ ChunkEnd \in Nat /\ call.index < ChunkEnd /\ ChunkEnd <= call.end /\ ChunkEnd <= From(Ordinal + 1)
         /\ ChunkEnd < call.end => ChunkEnd = From(Ordinal + 1)
         /\ Len(Chunk) = ChunkEnd - call.index /\ ChunkEnd - call.index \in Nat
<1>1. PICK x \in Nat, e \in Nat, k \in Nat : /\ x = call.index /\ e = call.end /\ x < e /\ k = Ordinal
                                            /\ x < From(k + 1)
  BY CallFacts DEF AtWork
<1>2. PICK d \in Nat : d = x \div BLOCK_SIZE
  BY <1>1, QueueAssumption
<1>3. k = d + 1 /\ BLOCK_SIZE \in Nat
  BY <1>1, <1>2, QueueAssumption DEF Ordinal
<1>4. From(k + 1) = d * BLOCK_SIZE + BLOCK_SIZE /\ From(k + 1) \in Int
  <2>1. From(k) = d * BLOCK_SIZE
    BY <1>2, <1>3 DEF From
  <2>2. From(k + 1) = From(k) + BLOCK_SIZE /\ From(k + 1) \in Int
    BY FromFacts
  <2> QED BY <2>1, <2>2
<1>5. ChunkEnd = IF e < From(k + 1) THEN e ELSE From(k + 1)
  BY <1>1, <1>2, <1>4 DEF ChunkEnd
<1>6. PICK c \in Nat : c = ChunkEnd /\ x < c
  <2>1. PICK f \in Int : f = From(k + 1)
    BY <1>4
  <2> QED BY <1>1, <1>5, <2>1
<1>7. Len(Chunk) = c - x /\ c - x \in Nat
  <2>1. Chunk = [i \in 1 .. c - x |-> elements[Block][(x + i - 1) % BLOCK_SIZE]]
    BY <1>1, <1>6 DEF Chunk
  <2> QED BY <1>6, <2>1
<1> QED BY <1>1, <1>4, <1>5, <1>6, <1>7

(* A step that only advances the call. *)
LEMMA WorkKeepsRing ==
  ASSUME OwnerInv, RingInv, ConsumerStep, UNCHANGED <<dequeued, headIndex>>,
         cpc \in AtWork, cpc' \in AtWork, call' \in Calls,
         call'.asked = call.asked, call'.index = call.index, call'.end = call.end,
         UNCHANGED token, consumed' \in [Producers -> Nat],
         \A q \in Producers : consumed'[q] = IF cpc' = "empty" /\ call.asked = q THEN ChunkEnd ELSE Dequeued(q),
         LocateOk', ProcessOk'
  PROVE  RingInv'
<1>1. RingTypes /\ producerListTail' = producerListTail
  BY ConsumerLeavesOwners DEF RingInv, listVars
<1>2. ASSUME NEW q \in Producers
      PROVE  /\ Dequeued(q)' = Dequeued(q) /\ ConsumedOk(q)'
             /\ headIndex[q] <= headIndex'[q] /\ headIndex'[q] <= tailIndex[q]
  <2>1. Dequeued(q)' = Dequeued(q)
    BY DEF Dequeued, Reading, AtWork
  <2>2. ChunkEnd' = ChunkEnd
    BY DEF ChunkEnd
  <2>3. ConsumedOk(q)'
    BY <2>1, <2>2 DEF ConsumedOk
  <2>4. headIndex[q] \in Nat /\ headIndex[q] <= tailIndex[q]
    BY <1>1, TypesOf DEF RingInv, CountsOk
  <2> QED BY <2>1, <2>3, <2>4
<1>3. headIndex' \in [Producers -> Nat]
  BY <1>1 DEF RingTypes
<1>4. CallOk'
  <2>1. \A q : InList(q)' <=> InList(q)
    BY <1>1 DEF InList
  <2>2. /\ call.index < call.end /\ call.end = headIndex[call.asked] /\ call.end <= call.index + BLOCK_SIZE
        /\ InList(call.asked) /\ InList(token) /\ token # None /\ token \in Producers \cup {None}
    BY DEF RingInv, CallOk, AtWork
  <2>3. InList(call.asked)' /\ InList(token)'
    BY <1>1, <2>2 DEF InList
  <2> QED BY <2>2, <2>3 DEF CallOk, AtWork
<1> QED BY <1>2, <1>3, <1>4, ConsumerKeepsRing

(* What is claimed is not yet counted as dequeued. *)
LEMMA ClaimKeepsRing ==
  ASSUME OwnerInv, RingInv, Claim
  PROVE  RingInv'
<1>0. ConsumerStep /\ cpc # "idle"
  BY DEF ConsumerStep, Claim
<1>1. PICK p \in Producers : p = call.asked /\ InList(p) /\ RingTypes /\ RingAt(p)
  BY <1>0, Asked
<1>2. PICK h \in Nat, m \in Nat, e \in Nat :
        /\ h = headIndex[p] /\ m = call.count /\ e = h + m /\ m > 0 /\ m <= BulkLimit /\ e <= tailIndex[p]
  <2>1. headIndex[p] \in Nat /\ call.count \in 1 .. BulkLimit /\ headIndex[p] + call.count <= tailIndex[p]
    BY <1>1, TypesOf DEF RingInv, CallOk, Claim
  <2>2. BulkLimit \in Nat
    BY QueueAssumption
  <2> QED BY <2>1, <2>2
<1>3. /\ cpc = "claim" /\ cpc' = "index"
      /\ headIndex' = [headIndex EXCEPT ![p] = e]
      /\ call' = [call EXCEPT !.index = h, !.end = e]
      /\ UNCHANGED <<token, consumed, dequeued, tailIndex, producerListTail>>
  BY <1>1, <1>2 DEF Claim, blockVars, listVars, RingTypes
<1>4. /\ call' \in Calls /\ call'.asked = p /\ call'.index = h /\ call'.end = e
  BY <1>1, <1>3 DEF RingInv, CallOk, Calls
<1>5. headIndex' \in [Producers -> Nat] /\ headIndex'[p] = e /\ \A q \in Producers \ {p} : headIndex'[q] = headIndex[q]
  BY <1>1, <1>3 DEF RingTypes
<1>6. CallOk'
  <2>1. h < e /\ e <= h + BLOCK_SIZE
    BY <1>2, QueueAssumption
  <2>2. InList(token) /\ token # None /\ token \in Producers \cup {None}
    BY <1>3 DEF RingInv, CallOk
  <2>3. InList(call.asked)' /\ InList(token)'
    BY <1>1, <1>3, <1>4, <2>2 DEF InList
  <2> QED BY <1>3, <1>4, <1>5, <2>1, <2>2, <2>3 DEF CallOk
<1>7. ASSUME NEW q \in Producers
      PROVE  /\ Dequeued(q)' = Dequeued(q) /\ ConsumedOk(q)'
             /\ headIndex[q] <= headIndex'[q] /\ headIndex'[q] <= tailIndex[q]
  <2>1. Dequeued(q) = headIndex[q] /\ consumed[q] = Dequeued(q)
    BY <1>3 DEF Dequeued, Reading, RingInv, ConsumedOk
  <2>2. Dequeued(q)' = headIndex[q]
    BY <1>2, <1>3, <1>4, <1>5 DEF Dequeued, Reading
  <2>3. ConsumedOk(q)'
    BY <1>3, <2>1, <2>2 DEF ConsumedOk
  <2>4. headIndex[q] \in Nat /\ headIndex[q] <= tailIndex[q]
    BY <1>1, TypesOf DEF RingInv, CountsOk
  <2>5. headIndex[q] <= headIndex'[q] /\ headIndex'[q] <= tailIndex[q]
    <3>1. CASE q = p
      BY <1>2, <1>5, <3>1
    <3>2. CASE q # p
      BY <1>5, <2>4, <3>2
    <3> QED BY <3>1, <3>2
  <2> QED BY <2>1, <2>2, <2>3, <2>5
<1>8. LocateOk' /\ ProcessOk' /\ consumed' \in [Producers -> Nat]
  BY <1>1, <1>3 DEF LocateOk, ProcessOk, RingTypes
<1> QED BY <1>0, <1>3, <1>5, <1>6, <1>7, <1>8, ConsumerKeepsRing

(* What the consumer reads of the ring is not its to change. *)
LEMMA RingSeenUnchanged ==
  ASSUME ConsumerStep, NEW p
  PROVE  /\ Count(p)' = Count(p) /\ NextOrd(p)' = NextOrd(p) /\ filled' = filled /\ blockIndex' = blockIndex
         /\ Header(p)' = Header(p)
         /\ \A i : From(i)' = From(i) /\ Slot(p, i)' = Slot(p, i) /\ EntryOf(p, i)' = EntryOf(p, i)
<1>1. UNCHANGED <<tailIndex, tailBlock, slotsUsed, indexFront, blockIndex, producerListTail, pc, mine, filled>>
  BY ConsumerLeavesOwners DEF ringVars, listVars, threadVars
<1>2. Count(p)' = Count(p) /\ \A X : Busy(p, X)' <=> Busy(p, X)
  BY <1>1 DEF Count, Busy
<1>3. NextOrd(p)' = NextOrd(p) /\ Header(p)' = Header(p) /\ \A i : From(i)' = From(i)
  BY <1>1, <1>2 DEF NextOrd, Header, From
<1> QED BY <1>1, <1>2, <1>3 DEF Slot, EntryOf

(* The header and front loaded show every block of the bulk. *)
LEMMA LoadIndexKeepsRing ==
  ASSUME OwnerInv, RingInv, LoadIndex
  PROVE  RingInv'
<1>0. ConsumerStep /\ cpc = "index" /\ cpc' = "locate" /\ UNCHANGED <<token, consumed, dequeued, headIndex>>
  BY DEF ConsumerStep, LoadIndex, ConsumerOnly, indexVars, blockVars
<1>1. PICK p \in Producers : p = call.asked /\ InList(p) /\ RingTypes /\ RingAt(p)
  BY <1>0, Asked
<1>2. PICK n \in Nat \ {0}, z \in Nat \ {0} :
        /\ n = Len(blockIndex[p]) /\ z = Header(p).size /\ Header(p) = blockIndex[p][n]
        /\ Header(p) \in Headers
  BY <1>1, HeaderOf, HeaderFields DEF RingAt, IndexOk
<1>3. PICK N \in Nat, F \in Nat : N = NextOrd(p) /\ F = N - 1 /\ F \in 1 .. Count(p) /\ tailIndex[p] <= From(N)
  <2>1. Ordinal < NextOrd(p) /\ Ordinal \in Nat \ {0}
    BY <1>0, <1>1, CallFacts
  <2>2. PICK N \in Nat : N = NextOrd(p) /\ N <= Count(p) + 1 /\ tailIndex[p] <= From(N)
    BY <1>1, TailBound DEF RingAt
  <2>3. Count(p) \in Nat
    BY <1>1, TypesOf
  <2> QED BY <2>1, <2>2, <2>3
<1>4. Header(p).front = Slot(p, F) /\ Slot(p, F) \in 0 .. z - 1
  <2>1. Header(p).front = Slot(p, NextOrd(p) - 1)
    BY <1>1, <1>3 DEF RingAt, IndexOk
  <2>2. NextOrd(p) \in Int /\ F \in Int /\ NextOrd(p) - 1 = F /\ IndexOk(p)
    BY <1>1, <1>3 DEF RingAt
  <2> QED BY <1>1, <1>2, <2>1, <2>2, SlotFacts
<1>5. call' = [call EXCEPT !.header = n, !.front = Slot(p, F)]
  BY <1>1, <1>2, <1>4 DEF LoadIndex
<1>6. /\ call' \in Calls /\ call'.asked = p /\ call'.header = n /\ call'.front = Slot(p, F)
      /\ call'.index = call.index /\ call'.end = call.end
  <2>1. PICK f \in Int : f = Slot(p, F)
    BY <1>4
  <2>2. call \in Calls /\ call' = [call EXCEPT !.header = n, !.front = f]
    BY <1>5, <2>1 DEF RingInv, CallOk
  <2> QED BY <1>1, <2>1, <2>2 DEF Calls
<1>7. Loaded' = Header(p)
  <2>1. blockIndex' = blockIndex
    BY <1>0, RingSeenUnchanged
  <2> QED BY <1>2, <1>6, <2>1 DEF Loaded
<1>8. LocateOk'
  <2>1. /\ Count(p)' = Count(p) /\ NextOrd(p)' = NextOrd(p) /\ blockIndex' = blockIndex
        /\ \A i : From(i)' = From(i) /\ Slot(p, i)' = Slot(p, i) /\ EntryOf(p, i)' = EntryOf(p, i)
    BY <1>0, RingSeenUnchanged
  <2>2. call.end <= From(F + 1)
    <3>1. call.end \in Nat /\ call.end <= tailIndex[p] /\ tailIndex[p] \in Nat
      BY <1>0, <1>1, CallFacts, TypesOf
    <3>2. From(N) \in Int /\ F + 1 = N
      BY <1>3, FromFacts
    <3> QED BY <1>3, <3>1, <3>2
  <2>3. ASSUME NEW i \in 1 .. F, call.index < From(i + 1)
        PROVE  Header(p).entries[(Slot(p, F) - (F - i)) % z] = EntryOf(p, i)
    <3>1. i \in Int /\ i - F \in Int /\ F + (i - F) = i
      BY <1>3
    <3>2. (Slot(p, F) + (i - F)) % z = Slot(p, i)
      <4>1. NextOrd(p) \in Int /\ F \in Int /\ IndexOk(p)
        BY <1>1, <1>3 DEF RingAt
      <4>2. PICK d \in Int : d = i - F /\ F + d = i
        BY <3>1
      <4>3. (Slot(p, F) + d) % Header(p).size = Slot(p, F + d)
        BY <1>1, <4>1, SlotFacts
      <4> QED BY <1>2, <4>2, <4>3
    <3>3. Slot(p, F) - (F - i) = Slot(p, F) + (i - F)
      BY <1>3, <1>4
    <3>4. i \in Window(p) /\ i < NextOrd(p)
      <4>1. Count(p) - slotsUsed[p] + 1 <= i
        BY <1>0, <1>1, <2>3, <3>1, CallFacts
      <4>2. Count(p) \in Nat /\ slotsUsed[p] \in Nat /\ i <= Count(p) /\ i < N
        BY <1>1, <1>3, TypesOf
      <4> QED BY <1>3, <3>1, <4>1, <4>2 DEF Window
    <3>5. Header(p).entries[Slot(p, i)] = EntryOf(p, i)
      BY <1>1, <3>4 DEF RingAt, IndexOk
    <3> QED BY <3>2, <3>3, <3>5
  <2>4. n \in 1 .. Len(blockIndex'[p]) /\ Slot(p, F) \in 0 .. Loaded'.size - 1
    BY <1>2, <1>4, <1>7, <2>1
  <2>5. F < NextOrd(p)' /\ F \in 1 .. Count(p)'
    BY <1>3, <2>1
  <2>6. \A i \in 1 .. F : call'.index < From(i + 1)' =>
          Loaded'.entries[(call'.front - (F - i)) % Loaded'.size] = EntryOf(p, i)'
    BY <1>2, <1>6, <1>7, <2>1, <2>3
  <2> QED BY <1>6, <2>1, <2>2, <2>4, <2>5, <2>6 DEF LocateOk
<1>9. ProcessOk'
  BY <1>0 DEF ProcessOk
<1>10. consumed' \in [Producers -> Nat] /\
       \A q \in Producers : consumed'[q] = IF cpc' = "empty" /\ call.asked = q THEN ChunkEnd ELSE Dequeued(q)
  BY <1>0, <1>1 DEF RingInv, ConsumedOk, RingTypes
<1> QED BY <1>0, <1>1, <1>6, <1>8, <1>9, <1>10, WorkKeepsRing DEF AtWork
-----------------------------------------------------------------------------
(* Bases apart by so many blocks. *)
LEMMA FromDifference ==
  ASSUME NEW k \in Int, NEW m \in Int
  PROVE  (From(k) - From(m)) \div BLOCK_SIZE = k - m
<1>1. PICK b \in Nat \ {0}, d \in Int : b = BLOCK_SIZE /\ d = k - m
  BY QueueAssumption
<1>2. From(k) - From(m) = d * b
  BY <1>1 DEF From
<1>3. (d * b) \div b = d
  BY <1>1
<1> QED BY <1>1, <1>2, <1>3

(* The slot computed from the front is that of the first block of the      *)
(* bulk.                                                                   *)
LEMMA NotifyKeepsRing ==
  ASSUME OwnerInv, RingInv, Notify
  PROVE  RingInv'
<1>0. ConsumerStep /\ cpc = "locate" /\ cpc' = "process" /\ UNCHANGED <<token, consumed, dequeued, headIndex>>
  BY DEF ConsumerStep, Notify, ConsumerOnly, indexVars, blockVars
<1>1. PICK p \in Producers : p = call.asked /\ InList(p) /\ RingTypes /\ RingAt(p)
  BY <1>0, Asked
<1>2. PICK F \in 1 .. Count(p) :
         /\ call.end <= From(F + 1)
         /\ \A i \in 1 .. F : call.index < From(i + 1) =>
              Loaded.entries[(call.front - (F - i)) % Loaded.size] = EntryOf(p, i)
         /\ IsCurrent => F < NextOrd(p) /\ call.front = Slot(p, F)
  BY <1>0, <1>1 DEF RingInv, LocateOk
<1>3. call.header \in 1 .. Len(blockIndex[p]) /\ call.front \in 0 .. Loaded.size - 1
  BY <1>0, <1>1 DEF RingInv, LocateOk
<1>4. PICK z \in Nat \ {0}, g \in Nat, f \in Nat, k \in Nat \ {0} :
        z = Loaded.size /\ g = call.front /\ g \in 0 .. z - 1 /\ f = F /\ k = Ordinal
  <2>1. Loaded \in Headers
    <3>1. blockIndex[p] \in Seq(Headers)
      BY <1>1, TypesOf
    <3> QED BY <1>1, <1>3, <3>1 DEF Loaded
  <2>2. Loaded.size \in Nat \ {0}
    BY <2>1, HeaderFields
  <2>3. F \in Nat
    BY <1>1, TypesOf
  <2>4. Ordinal \in Nat \ {0}
    BY <1>0, <1>1, CallFacts
  <2> QED BY <1>3, <2>2, <2>3, <2>4
<1>5. /\ call.index \in Nat /\ call.end \in Nat /\ call.index < call.end
      /\ \A i \in Int : From(i) < call.end => i < NextOrd(p) /\ i <= Count(p)
  BY <1>0, <1>1, CallFacts
<1>6. FirstSlot = (g + (k - f)) % z
  <2>1. (call.index \div BLOCK_SIZE) * BLOCK_SIZE = From(k)
    <3>1. PICK d \in Nat : d = call.index \div BLOCK_SIZE
      BY <1>5, QueueAssumption
    <3>2. k - 1 = d
      BY <1>4, <3>1 DEF Ordinal
    <3> QED BY <3>1, <3>2 DEF From
  <2>2. Loaded.entries[g] = EntryOf(p, f)
    <3>1. (g - (f - f)) % z = g
      <4>1. g - (f - f) = g
        OBVIOUS
      <4> QED BY <1>4, <4>1, ModSmall
    <3>2. From(f + 1) \in Int
      BY FromFacts
    <3>3. call.index < From(f + 1) /\ f \in 1 .. F
      BY <1>2, <1>4, <1>5, <3>2
    <3> QED BY <1>2, <1>4, <3>1, <3>3
  <2>3. (From(k) - From(f)) \div BLOCK_SIZE = k - f
    BY FromDifference
  <2>4. Loaded.entries[g].base = From(f)
    BY <2>2 DEF EntryOf
  <2> QED BY <1>4, <2>1, <2>3, <2>4 DEF FirstSlot
<1>7. PICK a \in Nat : a = FirstSlot /\ a \in 0 .. z - 1
  <2>1. g + (k - f) \in Int
    BY <1>4
  <2>2. (g + (k - f)) % z \in 0 .. z - 1
    BY <2>1, ModRange
  <2> QED BY <1>6, <2>2
<1>8. call' = [call EXCEPT !.at = a, !.ctx = threadId[p]] /\ threadId[p] \in Threads \cup {None}
  BY <1>1, <1>7 DEF Notify, OwnerInv, OwnerTypes
<1>9. /\ call' \in Calls /\ call'.asked = p /\ call'.header = call.header /\ call'.at = a
      /\ call'.index = call.index /\ call'.end = call.end
  <2>1. call \in Calls
    BY DEF RingInv, CallOk
  <2> QED BY <1>1, <1>8, <2>1 DEF Calls
<1>s. /\ Count(p)' = Count(p) /\ NextOrd(p)' = NextOrd(p) /\ filled' = filled /\ blockIndex' = blockIndex
      /\ \A i : From(i)' = From(i) /\ Slot(p, i)' = Slot(p, i)
  BY <1>0, RingSeenUnchanged
<1>l. Loaded' = Loaded /\ (IsCurrent' <=> IsCurrent) /\ Ordinal' = Ordinal
  BY <1>1, <1>9, <1>s DEF Loaded, IsCurrent, Ordinal
<1>10. ProcessOk'
  <2>1. ASSUME NEW i \in 1 .. Count(p), call.index < From(i + 1), From(i) < call.end
        PROVE  Loaded.entries[(a + (i - k)) % z].block = filled[p][i]
    <3>1. i \in Int /\ i <= f
      <4>1. i \in Int
        BY <1>1, TypesOf
      <4>2. f + 1 <= i => From(f + 1) <= From(i)
        BY <4>1, FromOrder
      <4>3. From(f + 1) \in Int /\ From(i) \in Int
        BY <4>1, FromFacts
      <4> QED BY <1>2, <1>4, <1>5, <2>1, <4>1, <4>2, <4>3
    <3>2. (a + (i - k)) % z = (g - (f - i)) % z
      <4>1. PICK x \in Int, d \in Int : x = g + (k - f) /\ d = i - k /\ x + d = g - (f - i)
        BY <1>4, <3>1
      <4>2. ((x % z) + d) % z = (x + d) % z
        BY ModPlus
      <4> QED BY <1>6, <1>7, <4>1, <4>2
    <3>3. i \in 1 .. F
      BY <1>4, <2>1, <3>1
    <3>4. Loaded.entries[(g - (f - i)) % z] = EntryOf(p, i)
      BY <1>2, <1>4, <2>1, <3>3
    <3> QED BY <3>2, <3>4 DEF EntryOf
  <2>2. IsCurrent => k < NextOrd(p) /\ a = Slot(p, k)
    <3>1. k < NextOrd(p)
      BY <1>0, <1>1, <1>4, CallFacts
    <3>2. ASSUME IsCurrent PROVE a = Slot(p, k)
      <4>1. g = Slot(p, f) /\ Loaded = Header(p)
        BY <1>1, <1>2, <1>4, <3>2 DEF Header, Loaded, IsCurrent
      <4>2. PICK d \in Int : d = k - f /\ f + d = k
        BY <1>4
      <4>3. IndexOk(p) /\ NextOrd(p) \in Int
        BY <1>1, TailBound DEF RingAt
      <4>f. f \in Int
        BY <1>4
      <4>4. (Slot(p, f) + d) % Header(p).size = Slot(p, f + d)
        BY <1>1, <4>2, <4>3, <4>f, SlotFacts
      <4>5. a = (Slot(p, f) + d) % z
        BY <1>6, <1>7, <4>1, <4>2
      <4> QED BY <1>4, <4>1, <4>2, <4>4, <4>5
    <3> QED BY <3>1, <3>2
  <2>3. \A i \in 1 .. Count(p) : From(i) < call.end => i < NextOrd(p)
    BY <1>1, <1>5, TypesOf
  <2> QED BY <1>3, <1>4, <1>7, <1>9, <1>s, <1>l, <1>1, <2>1, <2>2, <2>3 DEF ProcessOk
<1>11. LocateOk'
  BY <1>0 DEF LocateOk
<1>12. consumed' \in [Producers -> Nat] /\
       \A q \in Producers : consumed'[q] = IF cpc' = "empty" /\ call.asked = q THEN ChunkEnd ELSE Dequeued(q)
  BY <1>0, <1>1 DEF RingInv, ConsumedOk, RingTypes
<1> QED BY <1>0, <1>1, <1>9, <1>10, <1>11, <1>12, WorkKeepsRing DEF AtWork

(* The items of a block are processed before they are counted. *)
LEMMA ProcessDataKeepsRing ==
  ASSUME OwnerInv, RingInv, ProcessData
  PROVE  RingInv'
<1>0. ConsumerStep /\ cpc = "process" /\ cpc' = "empty" /\ UNCHANGED <<token, call, dequeued, headIndex>>
  BY DEF ConsumerStep, ProcessData, ConsumerOnly, indexVars, blockVars
<1>1. PICK p \in Producers : p = call.asked /\ InList(p) /\ RingTypes /\ RingAt(p)
  BY <1>0, Asked
<1>2. PICK x \in Nat, c \in Nat : x = call.index /\ c = ChunkEnd /\ Len(Chunk) = c - x /\ c - x \in Nat
  BY <1>0, <1>1, ChunkFacts, CallFacts DEF AtWork
<1>3. consumed[p] = x
  BY <1>0, <1>1, <1>2 DEF RingInv, ConsumedOk, Dequeued, Reading
<1>4. consumed' = [consumed EXCEPT ![p] = c]
  <2>1. consumed' = [consumed EXCEPT ![p] = consumed[p] + Len(Chunk)]
    BY <1>1 DEF ProcessData, RingTypes
  <2>2. consumed[p] + Len(Chunk) = c
    BY <1>2, <1>3
  <2> QED BY <2>1, <2>2
<1>5. consumed' \in [Producers -> Nat] /\
      \A q \in Producers : consumed'[q] = IF cpc' = "empty" /\ call.asked = q THEN ChunkEnd ELSE Dequeued(q)
  <2>1. \A q \in Producers \ {p} : consumed[q] = Dequeued(q)
    BY <1>0, <1>1 DEF RingInv, ConsumedOk
  <2> QED BY <1>0, <1>1, <1>2, <1>4, <2>1 DEF RingTypes
<1>s. /\ Count(p)' = Count(p) /\ NextOrd(p)' = NextOrd(p) /\ filled' = filled /\ blockIndex' = blockIndex
      /\ \A i : From(i)' = From(i) /\ Slot(p, i)' = Slot(p, i)
  BY <1>0, RingSeenUnchanged
<1>6. ProcessOk'
  <2>1. Loaded' = Loaded /\ (IsCurrent' <=> IsCurrent) /\ Ordinal' = Ordinal
    BY <1>0, <1>s DEF Loaded, IsCurrent, Ordinal
  <2>2. ProcessOk
    BY DEF RingInv
  <2> QED BY <1>0, <1>1, <1>s, <2>1, <2>2 DEF ProcessOk
<1>7. LocateOk' /\ call' \in Calls
  BY <1>0 DEF LocateOk, RingInv, CallOk
<1> QED BY <1>0, <1>1, <1>5, <1>6, <1>7, WorkKeepsRing DEF AtWork
-----------------------------------------------------------------------------
(* What the clamped counts do when the items from x to c are counted, all  *)
(* of them in block k.                                                     *)
LEMMA ClampAdvances ==
  ASSUME NEW x \in Int, NEW c \in Int, NEW k \in Int, From(k) <= x, x < c, c <= From(k + 1),
         NEW i \in Int
  PROVE  Clamp(c - From(i)) = IF i = k THEN Clamp(x - From(i)) + c - x ELSE Clamp(x - From(i))
<1>1. From(k) \in Int /\ From(i) \in Int /\ From(k + 1) = From(k) + BLOCK_SIZE /\ BLOCK_SIZE \in Nat
  BY FromFacts, QueueAssumption
<1>2. CASE i = k
  BY <1>1, <1>2 DEF Clamp
<1>3. CASE i < k
  <2>1. From(i) + BLOCK_SIZE <= From(k)
    BY <1>3, FromGrows
  <2> QED BY <1>1, <1>3, <2>1 DEF Clamp
<1>4. CASE k < i
  <2>1. From(k) + BLOCK_SIZE <= From(i)
    BY <1>4, FromGrows
  <2> QED BY <1>1, <1>4, <2>1 DEF Clamp
<1> QED BY <1>2, <1>3, <1>4

(* The block whose items the consumer reads. *)
LEMMA BlockRead ==
  ASSUME OwnerInv, RingInv, NEW p \in Producers, call.asked = p, cpc \in {"process", "empty"}
  PROVE  /\ Loaded.size \in Nat \ {0} /\ call.at \in 0 .. Loaded.size - 1
         /\ Ordinal \in Window(p) /\ Block = filled[p][Ordinal]
<1>1. RingTypes /\ RingAt(p)
  BY DEF RingInv, RingAt
<1>2. /\ Ordinal \in Window(p) /\ Ordinal \in Nat \ {0} /\ From(Ordinal) <= call.index
      /\ call.index < From(Ordinal + 1) /\ call.index \in Nat /\ call.end \in Nat /\ call.index < call.end
  BY CallFacts
<1>3. Ordinal \in 1 .. Count(p)
  BY <1>1, <1>2, WindowFacts DEF RingAt
<1>4. call.header \in 1 .. Len(blockIndex[p]) /\ call.at \in 0 .. Loaded.size - 1
  BY DEF RingInv, ProcessOk
<1>5. Loaded.size \in Nat \ {0}
  <2>1. blockIndex[p] \in Seq(Headers)
    BY <1>1, TypesOf
  <2>2. Loaded \in Headers
    BY <1>4, <2>1 DEF Loaded
  <2> QED BY <2>2, HeaderFields
<1>6. PICK k \in Nat, a \in Nat, z \in Nat \ {0} : k = Ordinal /\ a = call.at /\ z = Loaded.size /\ a \in 0 .. z - 1
  BY <1>2, <1>4, <1>5
<1>7. (a + (k - k)) % z = a
  <2>1. a + (k - k) = a
    OBVIOUS
  <2> QED BY <1>6, <2>1, ModSmall
<1>8. From(Ordinal) < call.end
  <2>1. From(Ordinal) \in Int
    BY <1>2, FromFacts
  <2> QED BY <1>2, <2>1
<1>9. Loaded.entries[(call.at + (Ordinal - Ordinal)) % Loaded.size].block = filled[p][Ordinal]
  BY <1>2, <1>3, <1>8 DEF RingInv, ProcessOk
<1>10. Block = filled[p][Ordinal]
  BY <1>6, <1>7, <1>9 DEF Block
<1> QED BY <1>2, <1>4, <1>5, <1>10

(* The items processed are counted in their block, and the next slot is    *)
(* the next block.                                                         *)
LEMMA SetManyEmptyKeepsRing ==
  ASSUME OwnerInv, RingInv, SetManyEmpty
  PROVE  RingInv'
<1>0. ConsumerStep /\ cpc = "empty" /\ cpc \in AtWork
  BY DEF ConsumerStep, SetManyEmpty, AtWork
<1>1. PICK p \in Producers : p = call.asked /\ InList(p) /\ RingTypes /\ RingAt(p)
  BY <1>0, Asked
<1>2. UNCHANGED <<tailIndex, headIndex, tailBlock, slotsUsed, indexFront, blockIndex, producerListTail, pc, mine,
                  log, filled, emitted, next, elements, consumed>>
  BY <1>0, ConsumerLeavesOwners DEF ringVars, listVars, threadVars, SetManyEmpty, ConsumerOnly, indexVars
<1>3. PICK x \in Nat, c \in Nat, e \in Nat, k \in Nat \ {0} :
        /\ x = call.index /\ c = ChunkEnd /\ e = call.end /\ k = Ordinal
        /\ x < c /\ c <= e /\ c <= From(k + 1) /\ From(k) <= x /\ (c < e => c = From(k + 1))
        /\ e = headIndex[p] /\ e <= x + BLOCK_SIZE
  <2>1. /\ ChunkEnd \in Nat /\ call.index < ChunkEnd /\ ChunkEnd <= call.end /\ ChunkEnd <= From(Ordinal + 1)
        /\ ChunkEnd < call.end => ChunkEnd = From(Ordinal + 1)
    BY <1>0, <1>1, ChunkFacts
  <2>2. /\ call.index \in Nat /\ call.end \in Nat /\ Ordinal \in Nat \ {0} /\ From(Ordinal) <= call.index
        /\ call.end <= call.index + BLOCK_SIZE
    BY <1>0, <1>1, CallFacts DEF AtWork
  <2>3. call.end = headIndex[p]
    BY <1>0, <1>1 DEF RingInv, CallOk
  <2> QED BY <2>1, <2>2, <2>3
<1>4. k \in Window(p) /\ Block = filled[p][k] /\ Loaded.size \in Nat \ {0} /\ call.at \in 0 .. Loaded.size - 1
  BY <1>0, <1>1, <1>3, BlockRead
<1>5. Block \in 1 .. Len(dequeued)
  <2>1. Window(p) \subseteq 1 .. Count(p) /\ RingOk(p) /\ Len(dequeued) = Len(next)
    BY <1>1, WindowFacts DEF RingAt, RingTypes
  <2> QED BY <1>4, <2>1 DEF RingOk
<1>6. /\ dequeued' \in Seq(Nat) /\ Len(dequeued') = Len(dequeued)
      /\ dequeued'[Block] = dequeued[Block] + c - x
      /\ \A b \in 1 .. Len(dequeued) : b # Block => dequeued'[b] = dequeued[b]
  <2>1. dequeued \in Seq(Nat)
    BY <1>1 DEF RingTypes
  <2>2. PICK b \in Nat, v \in Nat : b = Block /\ v = dequeued[b] + c - x /\ b \in 1 .. Len(dequeued)
    <3>1. PICK b \in Nat : b = Block /\ b \in 1 .. Len(dequeued)
      BY <1>5, <2>1
    <3>2. dequeued[b] \in Nat
      BY <2>1, <3>1
    <3>3. PICK w \in Nat : w = dequeued[b]
      BY <3>2
    <3>4. w + c - x \in Nat
      BY <1>3
    <3> QED BY <3>1, <3>3, <3>4
  <2>3. dequeued' = [dequeued EXCEPT ![b] = v]
    BY <1>3, <2>2 DEF SetManyEmpty
  <2> QED BY <2>1, <2>2, <2>3
<1>7. IF c < e
      THEN /\ cpc' = "process" /\ token' = token
           /\ call' = [call EXCEPT !.index = c, !.at = (call.at + 1) % Loaded.size]
      ELSE cpc' = "idle" /\ token' = Served /\ call' = NoCall
  BY <1>3 DEF SetManyEmpty, RingInv, CallOk, Calls
<1>a. (call.at + 1) % Loaded.size \in Nat /\ (call.at + 1) % Loaded.size \in 0 .. Loaded.size - 1
  <2>1. PICK a \in Nat, z \in Nat \ {0} : a = call.at /\ z = Loaded.size
    BY <1>4
  <2>2. (a + 1) % z \in 0 .. z - 1
    BY ModRange
  <2> QED BY <2>1, <2>2
<1>8. /\ call' \in Calls
      /\ c < e => /\ call'.asked = p /\ call'.index = c /\ call'.end = e /\ call'.header = call.header
                  /\ call'.at = (call.at + 1) % Loaded.size
  <2>1. call \in Calls
    BY DEF RingInv, CallOk
  <2>2. CASE c < e
    <3>1. PICK a \in Nat : a = (call.at + 1) % Loaded.size
      BY <1>a
    <3>2. call' = [call EXCEPT !.index = c, !.at = a]
      BY <1>7, <2>2, <3>1
    <3> QED BY <1>1, <1>3, <2>1, <3>1, <3>2 DEF Calls
  <2>3. CASE ~ (c < e)
    BY <1>7, <2>3 DEF NoCall, Calls
  <2> QED BY <2>2, <2>3
<1>9. ASSUME NEW q \in Producers
      PROVE  Dequeued(q)' = IF q = p THEN c ELSE Dequeued(q)
  <2>1. CASE c < e
    BY <1>0, <1>1, <1>2, <1>7, <1>8, <2>1 DEF Dequeued, Reading
  <2>2. CASE ~ (c < e)
    BY <1>0, <1>1, <1>2, <1>3, <1>7, <2>2 DEF Dequeued, Reading
  <2> QED BY <2>1, <2>2
<1>10. Dequeued(p) = x
  BY <1>0, <1>1, <1>3 DEF Dequeued, Reading
<1>11. ASSUME NEW q \in Producers
       PROVE  ConsumedOk(q)'
  <2>1. consumed[q] = IF q = p THEN c ELSE Dequeued(q)
    BY <1>0, <1>1, <1>3 DEF RingInv, ConsumedOk
  <2>2. cpc' # "empty"
    BY <1>7
  <2> QED BY <1>2, <1>9, <2>1, <2>2 DEF ConsumedOk
<1>12. RingTypes'
  <2>1. headIndex' \in [Producers -> Nat] /\ consumed' \in [Producers -> Nat]
    BY <1>1, <1>2 DEF RingTypes
  <2> QED BY <1>0, <1>6, <2>1, ConsumerTypes
<1>13. ASSUME NEW q \in Producers, NEW i \in Window(q)
       PROVE  dequeued'[filled[q][i]] = Clamp(Dequeued(q)' - From(i))
  <2>1. /\ RingOk(q) /\ filled[q][i] \in 1 .. Len(dequeued) /\ i \in Int
        /\ dequeued[filled[q][i]] = Clamp(Dequeued(q) - From(i))
    <3>1. RingOk(q) /\ CountsOk(q) /\ RingTypes
      BY <1>1 DEF RingInv
    <3>2. Window(q) \subseteq 1 .. Count(q) /\ Len(dequeued) = Len(next)
      BY <3>1, WindowFacts DEF RingTypes
    <3> QED BY <3>1, <3>2 DEF RingOk
  <2>2. CASE q = p
    <3>1. Clamp(c - From(i)) = IF i = k THEN Clamp(x - From(i)) + c - x ELSE Clamp(x - From(i))
      BY <1>3, <2>1, ClampAdvances
    <3>2. CASE i = k
      BY <1>4, <1>6, <1>9, <1>10, <2>1, <2>2, <3>1, <3>2
    <3>3. CASE i # k
      <4>1. filled[q][i] # Block
        BY <1>4, <2>1, <2>2, <3>3 DEF RingOk
      <4> QED BY <1>6, <1>9, <1>10, <2>1, <2>2, <3>1, <3>3, <4>1
    <3> QED BY <3>2, <3>3
  <2>3. CASE q # p
    <3>1. filled[q][i] # Block
      BY <1>4, <2>3 DEF RingInv, Apart
    <3> QED BY <1>6, <1>9, <2>1, <2>3, <3>1
  <2> QED BY <2>2, <2>3
<1>14. ASSUME NEW q \in Producers
       PROVE  TailOk(q)' /\ CountsOk(q)' /\ RingOk(q)' /\ ContentsOk(q)' /\ IndexOk(q)'
  <2>1. TailOk(q) /\ CountsOk(q) /\ RingOk(q) /\ ContentsOk(q) /\ IndexOk(q)
    BY DEF RingInv
  <2>2. \A X : Busy(q, X)' <=> Busy(q, X)
    BY <1>2 DEF Busy
  <2>3. Count(q)' = Count(q) /\ Window(q)' = Window(q) /\ \A i : From(i)' = From(i)
    BY <1>2 DEF Count, Window, From
  <2>4. TailOk(q)'
    BY <1>2, <2>1, <2>2, <2>3 DEF TailOk
  <2>5. CountsOk(q)'
    <3>1. From(Count(q) - slotsUsed[q] + 1) <= Dequeued(q)' /\ Dequeued(q)' <= headIndex[q]
      <4>1. CASE q = p
        <5>1. Dequeued(q)' = c /\ c <= headIndex[q] /\ x < c /\ From(Count(q) - slotsUsed[q] + 1) <= x
          BY <1>3, <1>9, <1>10, <2>1, <4>1 DEF CountsOk
        <5>2. From(Count(q) - slotsUsed[q] + 1) \in Int
          <6>1. Count(q) - slotsUsed[q] + 1 \in Int
            BY <1>1, TypesOf
          <6> QED BY <6>1, FromFacts
        <5> QED BY <5>1, <5>2
      <4>2. CASE q # p
        BY <1>9, <2>1, <4>2 DEF CountsOk
      <4> QED BY <4>1, <4>2
    <3>2. InList(q)' <=> InList(q)
      BY <1>2 DEF InList
    <3> QED BY <1>2, <2>1, <2>3, <3>1, <3>2 DEF CountsOk
  <2>6. RingOk(q)'
    <3>1. \A i \in Window(q) : dequeued'[filled[q][i]] = Clamp(Dequeued(q)' - From(i))
      BY <1>13
    <3>2. \A y : Clamp(y)' = Clamp(y)
      BY DEF Clamp
    <3> QED BY <1>2, <2>1, <2>3, <3>1, <3>2 DEF RingOk
  <2>7. ContentsOk(q)'
    BY <1>2, <2>1, <2>3 DEF ContentsOk, Event
  <2>8. NextOrd(q)' = NextOrd(q) /\ Header(q)' = Header(q)
    BY <1>2, <2>2, <2>3 DEF NextOrd, Header
  <2>9. \A i : Slot(q, i)' = Slot(q, i) /\ EntryOf(q, i)' = EntryOf(q, i)
    BY <1>2, <2>3, <2>8 DEF Slot, EntryOf
  <2>10. IndexOk(q)'
    BY <1>2, <2>1, <2>2, <2>3, <2>8, <2>9 DEF IndexOk
  <2> QED BY <2>4, <2>5, <2>6, <2>7, <2>10
<1>15. \A q, r \in Producers : q # r => Apart(q, r)'
  BY <1>2 DEF RingInv, Apart, Window, Count
<1>16. CallOk'
  <2>1. InList(token) /\ token # None /\ token \in Producers \cup {None} /\ producerListTail \in Seq(Producers)
    BY <1>0 DEF RingInv, CallOk, OwnerInv, OwnerTypes
  <2>2. \A q : InList(q)' <=> InList(q)
    BY <1>2 DEF InList
  <2>3. CASE c < e
    <3>1. e <= c + BLOCK_SIZE
      BY <1>3, QueueAssumption
    <3>2. call'.index < call'.end /\ call'.end = headIndex'[p] /\ call'.end <= call'.index + BLOCK_SIZE
      BY <1>2, <1>3, <1>8, <2>3, <3>1
    <3>3. InList(call.asked)' /\ InList(token)'
      BY <1>1, <1>2, <1>7, <1>8, <2>1, <2>3 DEF InList
    <3> QED BY <1>7, <1>8, <2>1, <2>3, <3>2, <3>3 DEF CallOk
  <2>4. CASE ~ (c < e)
    <3>1. InList(Served) /\ Served \in Producers /\ Served # None
      <4>1. producerListTail # <<>>
        BY <2>1 DEF InList
      <4>2. InList(Head(producerListTail)) /\ Head(producerListTail) \in Producers
        BY <4>1, HeadInList
      <4>3. NextProd(call.asked, Head(producerListTail)) \in Producers /\
            InList(NextProd(call.asked, Head(producerListTail)))
        BY <1>1, <2>1, <4>2, NextProdInList
      <4>4. Served \in Producers /\ InList(Served)
        BY <1>1, <4>3 DEF Served
      <4> QED BY <4>4, QueueAssumption DEF Producers
    <3>2. InList(token)'
      BY <1>2, <1>7, <2>4, <3>1 DEF InList
    <3> QED BY <1>7, <1>8, <2>4, <3>1, <3>2 DEF CallOk
  <2> QED BY <2>3, <2>4
<1>17. LocateOk'
  BY <1>7 DEF LocateOk
<1>18. ProcessOk'
  <2>1. CASE ~ (c < e)
    BY <1>7, <2>1 DEF ProcessOk
  <2>2. CASE c < e
    <3>s. /\ Count(p)' = Count(p) /\ NextOrd(p)' = NextOrd(p) /\ filled' = filled /\ blockIndex' = blockIndex
          /\ \A i : From(i)' = From(i) /\ Slot(p, i)' = Slot(p, i)
      BY <1>0, RingSeenUnchanged
    <3>1. Loaded' = Loaded /\ (IsCurrent' <=> IsCurrent)
      BY <1>1, <1>8, <2>2, <3>s DEF Loaded, IsCurrent
    <3>2. Ordinal' = k + 1
      <4>1. c = From(k + 1)
        BY <1>3, <2>2
      <4>2. PICK b \in Nat \ {0} : b = BLOCK_SIZE
        BY QueueAssumption
      <4>3. c = k * b
        BY <4>1, <4>2 DEF From
      <4>4. (k * b) \div b = k
        BY <4>2
      <4> QED BY <1>8, <2>2, <4>2, <4>3, <4>4 DEF Ordinal
    <3>3. PICK a \in Nat, z \in Nat \ {0} : a = call.at /\ z = Loaded.size /\ a \in 0 .. z - 1
      BY <1>4
    <3>o. /\ call.header \in 1 .. Len(blockIndex[p])
          /\ \A i \in 1 .. Count(p) : x < From(i + 1) /\ From(i) < e =>
               Loaded.entries[(a + (i - k)) % z].block = filled[p][i]
          /\ IsCurrent => a = Slot(p, k)
          /\ \A i \in 1 .. Count(p) : From(i) < e /\ IsCurrent => i < NextOrd(p)
      BY <1>0, <1>1, <1>3, <3>3 DEF RingInv, ProcessOk
    <3>4. ASSUME NEW i \in 1 .. Count(p), c < From(i + 1), From(i) < e
          PROVE  Loaded.entries[(((a + 1) % z) + (i - (k + 1))) % z].block = filled[p][i]
      <4>1. i \in Int
        BY <1>1, TypesOf
      <4>2. From(i + 1) \in Int
        BY <4>1, FromFacts
      <4>3. x < From(i + 1)
        BY <1>3, <3>4, <4>2
      <4>4. PICK d \in Int, y \in Int : d = i - (k + 1) /\ y = a + 1 /\ y + d = a + (i - k)
        BY <4>1
      <4>5. ((y % z) + d) % z = (y + d) % z
        BY ModPlus
      <4> QED BY <3>o, <3>4, <4>3, <4>4, <4>5
    <3>5. k + 1 < NextOrd(p)
      <4>1. From(k + 1) < e
        BY <1>3, <2>2
      <4>2. \A i \in Int : From(i) < call.end => i < NextOrd(p) /\ i <= Count(p)
        BY <1>0, <1>1, CallFacts DEF AtWork
      <4> QED BY <1>3, <4>1, <4>2
    <3>6. IsCurrent => (a + 1) % z = Slot(p, k + 1)
      <4>1. SUFFICES ASSUME IsCurrent PROVE (a + 1) % z = Slot(p, k + 1)
        OBVIOUS
      <4>2. Loaded = Header(p) /\ a = Slot(p, k)
        BY <1>1, <3>o, <4>1 DEF Header, Loaded, IsCurrent
      <4>3. IndexOk(p) /\ NextOrd(p) \in Int
        BY <1>1, TailBound DEF RingAt
      <4>4. k \in Int
        OBVIOUS
      <4>5. PICK d \in Int : d = 1
        OBVIOUS
      <4>6. (Slot(p, k) + d) % Header(p).size = Slot(p, k + d)
        BY <1>1, <4>3, <4>4, SlotFacts
      <4> QED BY <3>3, <4>2, <4>5, <4>6
    <3>7. call'.at = (a + 1) % z /\ (a + 1) % z \in 0 .. z - 1 /\ call'.index = c /\ call'.end = e
          /\ call'.header = call.header /\ call'.asked = p
      BY <1>a, <1>8, <2>2, <3>3
    <3> QED BY <3>s, <3>1, <3>2, <3>3, <3>o, <3>4, <3>5, <3>6, <3>7 DEF ProcessOk
  <2> QED BY <2>1, <2>2
<1> QED BY <1>11, <1>12, <1>14, <1>15, <1>16, <1>17, <1>18 DEF RingInv
-----------------------------------------------------------------------------
(* A step of nobody changes nothing. *)
LEMMA RingUnchanged ==
  ASSUME OwnerInv, RingInv, UNCHANGED vars
  PROVE  RingInv'
<1>1. /\ UNCHANGED <<indexVars, ringVars, blockVars, callVars, history>>
      /\ UNCHANGED <<pc, mine, producerListTail, emitted>>
  BY DEF vars, threadVars, listVars, history
<1>2. OwnerTypes'
  BY OwnerUnchanged DEF vars, history, OwnerInv
<1>3. ASSUME NEW q
      PROVE  SameBusy(q) /\ StillListed(q) /\ SameCommits(q)
  BY <1>1 DEF SameBusy, Busy, StillListed, InList, SameCommits
<1> QED BY <1>1, <1>2, <1>3, ListStepKeepsRing

(* No step breaks a ring. *)
LEMMA RingNext == OwnerInv /\ RingInv /\ [Next]_vars => RingInv'
<1> SUFFICES ASSUME OwnerInv, RingInv, [Next]_vars PROVE RingInv'
  OBVIOUS
<1>1. CASE ConsumerStep
  BY <1>1, TryDequeueKeepsRing, NothingThereKeepsRing, ReserveKeepsRing, ClaimKeepsRing, LoadIndexKeepsRing,
     NotifyKeepsRing, ProcessDataKeepsRing, SetManyEmptyKeepsRing DEF ConsumerStep
<1>2. ASSUME NEW t \in Threads, ProducerStep(t)
      PROVE  RingInv'
  BY <1>2, ListStep, EnqueueBeginKeepsRing, ReuseBlockKeepsRing, RequisitionBlockKeepsRing,
     WriteEntryKeepsRing,
     PublishFrontKeepsRing, WriteItemKeepsRing, CommitKeepsRing DEF ProducerStep
<1>3. CASE UNCHANGED vars
  BY <1>3, RingUnchanged
<1> QED BY <1>1, <1>2, <1>3 DEF Next

(* Who owns which producer, where its blocks are and what they hold, what  *)
(* the consumer holds of them: the invariants above, in every reachable    *)
(* state (recycle_or_create_producer, enqueue_begin, dequeue_bulk).        *)
THEOREM QueueIsARing == Spec => [](OwnerInv /\ RingInv)
<1>1. Init => OwnerInv /\ RingInv
  BY OwnerInit, NoBlockAtFirst
<1>2. OwnerInv /\ RingInv /\ [Next]_vars => (OwnerInv /\ RingInv)'
  BY OwnerNext, RingNext
<1> QED BY <1>1, <1>2, PTL DEF Spec

(* Where an item that is counted neither as dequeued nor as missing is. *)
LEMMA ItemPresent ==
  ASSUME RingInv, NEW p \in Producers, NEW x \in Nat, Dequeued(p) <= x, x < tailIndex[p]
  PROVE  /\ x \div BLOCK_SIZE + 1 \in Window(p)
         /\ filled[p][x \div BLOCK_SIZE + 1] \in 1 .. Len(elements)
         /\ elements[filled[p][x \div BLOCK_SIZE + 1]][x % BLOCK_SIZE] = log[p][x + 1]
<1>1. RingTypes /\ TailOk(p) /\ CountsOk(p) /\ RingOk(p) /\ ContentsOk(p)
  BY DEF RingInv
<1>2. From(Count(p) - slotsUsed[p] + 1) <= x
  <2>1. Count(p) - slotsUsed[p] + 1 \in Int
    BY <1>1, TypesOf
  <2>2. From(Count(p) - slotsUsed[p] + 1) \in Int /\ Dequeued(p) \in Nat
    BY <2>1, FromFacts, DequeuedIn
  <2> QED BY <1>1, <2>2 DEF CountsOk
<1>3. PICK k \in Nat : k = x \div BLOCK_SIZE + 1
  BY OrdinalOf
<1>4. k \in Window(p)
  BY <1>1, <1>2, <1>3, ItemListed
<1>5. k \in 1 .. Count(p)
  BY <1>1, <1>4, WindowFacts
<1>6. filled[p][k] \in 1 .. Len(elements)
  BY <1>1, <1>5 DEF RingOk, RingTypes
<1>7. PICK o \in Slots : o = x % BLOCK_SIZE /\ From(k) + o = x
  <2>1. x % BLOCK_SIZE = x - From(k) /\ x % BLOCK_SIZE \in Slots
    BY <1>3, OrdinalOf
  <2>2. PICK f \in Int : f = From(k)
    BY FromFacts
  <2>3. PICK o \in Slots : o = x % BLOCK_SIZE /\ o = x - f
    BY <2>1, <2>2
  <2>4. f + o = x
    BY <2>3
  <2> QED BY <2>2, <2>3, <2>4
<1>8. elements[filled[p][k]][x % BLOCK_SIZE] = log[p][x + 1]
  <2>1. elements[filled[p][k]][o] = log[p][From(k) + o + 1]
    BY <1>1, <1>4, <1>7 DEF ContentsOk
  <2> QED BY <1>7, <2>1
<1> QED BY <1>3, <1>4, <1>6, <1>7, <1>8

(* What is committed and not yet processed is still in a block:            *)
(* enqueue_begin_alloc takes a block for new items only after              *)
(* set_many_empty has counted all of its old ones.                         *)
THEOREM NothingLost == Spec => []NothingOverwritten
<1>1. OwnerInv /\ RingInv => NothingOverwritten
  <2> SUFFICES ASSUME OwnerInv, RingInv, NEW p \in Producers, NEW i \in consumed[p] + 1 .. tailIndex[p]
               PROVE  \E b \in DOMAIN elements : elements[b][(i - 1) % BLOCK_SIZE] = log[p][i]
    BY DEF NothingOverwritten
  <2>1. RingTypes /\ consumed[p] \in Nat /\ tailIndex[p] \in Nat /\ Dequeued(p) \in Nat
    BY TypesOf, DequeuedIn DEF RingInv
  <2>2. Dequeued(p) <= consumed[p]
    <3>1. CASE cpc = "empty" /\ call.asked = p
      <4>1. Dequeued(p) = call.index /\ consumed[p] = ChunkEnd
        BY <3>1 DEF Dequeued, Reading, RingInv, ConsumedOk
      <4>2. call.index < ChunkEnd
        BY <3>1, ChunkFacts DEF AtWork
      <4> QED BY <2>1, <4>1, <4>2
    <3>2. CASE ~ (cpc = "empty" /\ call.asked = p)
      BY <2>1, <3>2 DEF RingInv, ConsumedOk
    <3> QED BY <3>1, <3>2
  <2>3. PICK x \in Nat : x = i - 1 /\ x + 1 = i /\ Dequeued(p) <= x /\ x < tailIndex[p]
    BY <2>1, <2>2
  <2>4. /\ filled[p][x \div BLOCK_SIZE + 1] \in 1 .. Len(elements)
        /\ elements[filled[p][x \div BLOCK_SIZE + 1]][x % BLOCK_SIZE] = log[p][x + 1]
    BY <2>3, ItemPresent
  <2>5. DOMAIN elements = 1 .. Len(elements)
    BY <2>1 DEF RingTypes
  <2> QED BY <2>3, <2>4, <2>5
<1> QED BY <1>1, QueueIsARing, PTL

(* What the consumer reads is what was committed next. *)
LEMMA ChunkInOrder ==
  ASSUME OwnerInv, RingInv, cpc = "process"
  PROVE  /\ call.index = consumed[call.asked]
         /\ Chunk = SubSeq(log[call.asked], call.index + 1, ChunkEnd)
<1>1. PICK p \in Producers : p = call.asked /\ InList(p) /\ RingTypes /\ RingAt(p)
  BY Asked
<1>2. Dequeued(p) = call.index /\ consumed[p] = call.index
  BY <1>1 DEF Dequeued, Reading, RingInv, ConsumedOk
<1>3. PICK x \in Nat, c \in Nat, k \in Nat \ {0} :
        /\ x = call.index /\ c = ChunkEnd /\ k = Ordinal
        /\ x < c /\ c <= From(k + 1) /\ From(k) <= x /\ c <= tailIndex[p]
  <2>1. /\ ChunkEnd \in Nat /\ call.index < ChunkEnd /\ ChunkEnd <= call.end /\ ChunkEnd <= From(Ordinal + 1)
    BY <1>1, ChunkFacts DEF AtWork
  <2>2. /\ call.index \in Nat /\ call.end \in Nat /\ Ordinal \in Nat \ {0} /\ From(Ordinal) <= call.index
        /\ call.end <= tailIndex[p]
    BY <1>1, CallFacts
  <2>3. tailIndex[p] \in Nat
    BY <1>1, TypesOf
  <2> QED BY <2>1, <2>2, <2>3
<1>4. Block = filled[p][k]
  BY <1>1, <1>3, BlockRead
<1>5. ASSUME NEW j \in 1 .. c - x
      PROVE  elements[Block][(x + j - 1) % BLOCK_SIZE] = log[p][x + j]
  <2>1. PICK y \in Nat : y = x + j - 1 /\ y + 1 = x + j /\ x <= y /\ y < c
    BY <1>3
  <2>2. y \div BLOCK_SIZE + 1 = k
    <3>1. PICK o \in Int : o = y \div BLOCK_SIZE + 1 /\ From(o) <= y /\ y < From(o) + BLOCK_SIZE
      BY OrdinalOf
    <3>2. From(k) \in Int /\ From(k + 1) = From(k) + BLOCK_SIZE /\ BLOCK_SIZE \in Nat
      BY FromFacts, QueueAssumption
    <3>3. From(k) <= y /\ y < From(k) + BLOCK_SIZE
      BY <1>3, <2>1, <3>2
    <3> QED BY <3>1, <3>3, OrdinalUnique
  <2>3. Dequeued(p) <= y /\ y < tailIndex[p]
    <3>1. tailIndex[p] \in Nat
      BY <1>1, TypesOf
    <3> QED BY <1>2, <1>3, <2>1, <3>1
  <2>4. elements[filled[p][y \div BLOCK_SIZE + 1]][y % BLOCK_SIZE] = log[p][y + 1]
    BY <2>3, ItemPresent
  <2> QED BY <1>4, <2>1, <2>2, <2>4
<1>6. Chunk = [j \in 1 .. c - x |-> elements[Block][(x + j - 1) % BLOCK_SIZE]]
  BY <1>3 DEF Chunk
<1>7. SubSeq(log[p], x + 1, c) = [j \in 1 .. c - x |-> log[p][x + j]]
  <2>1. log[p] \in Seq(Events)
    BY <1>1, TypesOf
  <2>2. PICK s \in Seq(Events), m \in Int : s = log[p] /\ m = x + 1 /\ m <= c /\ c - m + 1 = c - x
    BY <1>3, <2>1
  <2>3. Len(s) = tailIndex[p] /\ tailIndex[p] \in Nat
    BY <1>1, <2>2, TypesOf DEF RingAt, CountsOk
  <2>4. \A i \in m .. c : i \in 1 .. Len(s)
    BY <1>3, <2>2, <2>3
  <2>5. \A i \in m .. c : s[i] \in Events
    BY <2>2, <2>4
  <2>6. /\ SubSeq(s, m, c) \in Seq(Events) /\ Len(SubSeq(s, m, c)) = c - x
        /\ \A j \in 1 .. c - m + 1 : SubSeq(s, m, c)[j] = s[m + j - 1]
    BY <2>2, <2>5, SubSeqProperties
  <2>7. \A j \in 1 .. c - x : m + j - 1 = x + j
    BY <2>2
  <2>8. SubSeq(s, m, c) = [j \in 1 .. c - x |-> s[m + j - 1]]
    BY <2>2, <2>6
  <2> QED BY <2>2, <2>7, <2>8
<1> QED BY <1>1, <1>2, <1>3, <1>5, <1>6, <1>7

(* First in, first out, each once: what dequeue_bulk hands to processData  *)
(* is what the producer committed next, whether its index was overwritten, *)
(* moved on or grown after it was loaded.                                  *)
THEOREM InOrder == Spec => EventsInOrder
<1>1. OwnerInv /\ RingInv =>
        (cpc = "process" => /\ call.index = consumed[call.asked]
                            /\ Chunk = SubSeq(log[call.asked], call.index + 1, ChunkEnd))
  BY ChunkInOrder
<1> QED BY <1>1, QueueIsARing, PTL DEF EventsInOrder
-----------------------------------------------------------------------------
(* The thread of an event goes on as the owner of its producer, or ends. *)
Carries(e) ==
  /\ pc[e] = "gone" => pc'[e] = "gone" /\ mine'[e] = mine[e]
  /\ pc[e] \in Named => pc'[e] \in Named \cup {"gone"} /\ mine'[e] = mine[e]

(* Steps of threads and the names they go by. *)
LEMMA ThreadCarries ==
  ASSUME OwnerInv, NEW t \in Threads, ProducerStep(t)
  PROVE  /\ \A e \in Threads : Carries(e)
         /\ \A u \in Threads \ {t} : pc'[u] = pc[u] /\ mine'[u] = mine[u]
         /\ UNCHANGED callVars
         /\ pc'[t] \in Named => \/ pc[t] \in Named /\ mine'[t] = mine[t] /\ UNCHANGED threadId
                                \/ /\ pc[t] = "token" /\ mine'[t] = mine[t]
                                   /\ threadId' = [threadId EXCEPT ![mine[t]] = t]
         /\ ~ SetToken(t) => UNCHANGED threadId
<1>0. pc \in [Threads -> Places] /\ mine \in [Threads -> Producers \cup {None}]
  BY DEF OwnerInv, OwnerTypes
<1>1. ASSUME NEW place \in Named, GoOn(t, place), pc[t] \in Named
      PROVE  /\ \A e \in Threads : Carries(e)
             /\ \A u \in Threads \ {t} : pc'[u] = pc[u] /\ mine'[u] = mine[u]
             /\ mine'[t] = mine[t] /\ UNCHANGED threadId /\ UNCHANGED callVars
  <2>1. pc' = [pc EXCEPT ![t] = place] /\ mine' = mine /\ threadId' = threadId /\ UNCHANGED callVars
    BY <1>1 DEF GoOn, ownerVars
  <2>2. pc'[t] = place /\ \A u \in Threads \ {t} : pc'[u] = pc[u]
    BY <1>0, <2>1
  <2>3. \A e \in Threads : Carries(e)
    <3>1. "gone" \notin Named
      BY DEF Named, Owning
    <3>2. Carries(t)
      BY <1>1, <2>1, <2>2, <3>1 DEF Carries
    <3>3. \A e \in Threads \ {t} : Carries(e)
      BY <2>1, <2>2 DEF Carries
    <3> QED BY <3>2, <3>3
  <2> QED BY <2>1, <2>2, <2>3
<1>2. CASE StartThread(t) \/ Look(t) \/ Take(t) \/ CountProducer(t) \/ AddProducer(t)
  <2>1. /\ pc[t] \notin Owning \cup {"gone"} /\ pc'[t] \notin Named
        /\ \A u \in Threads \ {t} : pc'[u] = pc[u] /\ mine'[u] = mine[u]
    BY <1>0, <1>2 DEF StartThread, Look, Take, CountProducer, AddProducer, LookAt, Owning, Named
  <2>2. UNCHANGED threadId /\ UNCHANGED callVars
    BY <1>2 DEF StartThread, Look, Take, CountProducer, AddProducer, QueueUnchanged, ownerVars
  <2>3. \A e \in Threads : Carries(e)
    BY <2>1 DEF Carries, Named
  <2> QED BY <2>1, <2>2, <2>3
<1>3. CASE SetToken(t)
  <2>1. pc[t] = "token" /\ pc' = [pc EXCEPT ![t] = "idle"] /\ mine' = mine /\ UNCHANGED callVars
        /\ threadId' = [threadId EXCEPT ![mine[t]] = t]
    BY <1>3 DEF SetToken, QueueUnchanged
  <2>2. \A e \in Threads : Carries(e)
    BY <1>0, <2>1 DEF Carries, Named
  <2> QED BY <1>0, <1>3, <2>1, <2>2
<1>4. CASE ThreadExit(t)
  <2>1. pc[t] = "idle" /\ pc' = [pc EXCEPT ![t] = "gone"] /\ mine' = mine /\ threadId' = threadId /\ UNCHANGED callVars
    BY <1>4 DEF ThreadExit, QueueUnchanged
  <2>2. \A e \in Threads : Carries(e)
    BY <1>0, <2>1 DEF Carries, Named
  <2>3. "gone" \notin Named
    BY DEF Named, Owning
  <2> QED BY <1>0, <2>1, <2>2, <2>3
<1>5. {"block", "write", "entry", "front", "commit", "idle"} \subseteq Named
  BY DEF Named, Owning
<1>6. CASE EnqueueBegin(t)
  BY <1>1, <1>5, <1>6 DEF EnqueueBegin
<1>7. CASE ReuseBlock(t)
  BY <1>1, <1>5, <1>7 DEF ReuseBlock
<1>8. CASE RequisitionBlock(t)
  BY <1>1, <1>5, <1>8 DEF RequisitionBlock
<1>9. CASE WriteEntry(t)
  BY <1>1, <1>5, <1>9 DEF WriteEntry
<1>10. CASE PublishFront(t)
  BY <1>1, <1>5, <1>10 DEF PublishFront
<1>11. CASE WriteItem(t)
  BY <1>1, <1>5, <1>11 DEF WriteItem
<1>12. CASE Commit(t)
  BY <1>1, <1>5, <1>12 DEF Commit
<1> QED BY <1>2, <1>3, <1>4, <1>6, <1>7, <1>8, <1>9, <1>10, <1>11, <1>12 DEF ProducerStep

(* What a step does to the logs. *)
LEMMA LogGrows ==
  ASSUME NEW t \in Threads, ProducerStep(t)
  PROVE  \/ log' = log
         \/ /\ pc[t] = "commit" /\ pc'  = [pc EXCEPT ![t] = "idle"] /\ mine' = mine
            /\ log' = [log EXCEPT ![mine[t]] = Append(log[mine[t]], Event(t))]
  BY DEF ProducerStep, StartThread, Look, Take, CountProducer, AddProducer, SetToken, ThreadExit,
     QueueUnchanged,
         EnqueueBegin, ReuseBlock, RequisitionBlock, WriteEntry, PublishFront, WriteItem, Commit, GoOn, history

(* A log only grows, by events of the owner of its producer. *)
LEMMA LogKept ==
  ASSUME OwnerInv, RingInv, NEW t \in Threads, ProducerStep(t), NEW p \in Producers
  PROVE  /\ Len(log'[p]) \in Nat /\ Len(log[p]) \in Nat /\ Len(log[p]) <= Len(log'[p])
         /\ \A i \in 1 .. Len(log[p]) : log'[p][i] = log[p][i]
         /\ \A i \in 1 .. Len(log'[p]) : i > Len(log[p]) =>
              log'[p][i][1] = t /\ pc'[t] \in Named /\ mine'[t] = p
<1>1. log \in [Producers -> Seq(Events)] /\ log[p] \in Seq(Events)
  BY DEF RingInv, RingTypes
<1>2. CASE log' = log
  BY <1>1, <1>2
<1>3. CASE /\ pc[t] = "commit" /\ pc'  = [pc EXCEPT ![t] = "idle"] /\ mine' = mine
           /\ log' = [log EXCEPT ![mine[t]] = Append(log[mine[t]], Event(t))]
  <2>1. PICK q \in Producers : q = mine[t]
    BY <1>3 DEF OwnerInv, OwnerTypes, InList, Owning
  <2>2. CASE q # p
    <3>1. log'[p] = log[p]
      BY <1>1, <1>3, <2>1, <2>2
    <3> QED BY <1>1, <3>1
  <2>3. CASE q = p
    <3>1. log'[p] = Append(log[p], Event(t))
      BY <1>1, <1>3, <2>1, <2>3
    <3>a. Event(t)[1] = t
      BY DEF Event
    <3>b. PICK e : e = Event(t)
      OBVIOUS
    <3>2. PICK s \in Seq(Events) : s = log[p] /\ e[1] = t
      BY <1>1, <3>a, <3>b
    <3>3. /\ Len(Append(s, e)) = Len(s) + 1 /\ Append(s, e)[Len(s) + 1] = e
          /\ \A i \in 1 .. Len(s) : Append(s, e)[i] = s[i]
      BY <3>2
    <3>4. pc'[t] \in Named /\ mine'[t] = p
      BY <1>3, <2>1, <2>3 DEF OwnerInv, OwnerTypes, Named, Owning
    <3>5. Len(s) \in Nat
      BY <3>2
    <3> QED BY <3>1, <3>b, <3>2, <3>3, <3>4, <3>5
  <2> QED BY <2>2, <2>3
<1> QED BY <1>2, <1>3, LogGrows

(* At first nothing is logged. *)
LEMMA ThreadInit == Init => ThreadInv
  BY DEF Init, ThreadInv, LogOk, NameOk, Owning, Named

(* Who had a producer has had it for good. *)
LEMMA HadItStays ==
  ASSUME NEW u, NEW p, HadIt(u, p), Carries(u)
  PROVE  HadIt(u, p)'
  BY DEF HadIt, Carries

(* No step of a thread gives away what it has emitted. *)
LEMMA ProducersKeepThreads ==
  ASSUME OwnerInv, RingInv, ThreadInv, NEW t \in Threads, ProducerStep(t)
  PROVE  ThreadInv'
<1>0. /\ \A e \in Threads : Carries(e)
      /\ \A u \in Threads \ {t} : pc'[u] = pc[u] /\ mine'[u] = mine[u]
      /\ UNCHANGED callVars
      /\ pc'[t] \in Named => \/ pc[t] \in Named /\ mine'[t] = mine[t] /\ UNCHANGED threadId
                             \/ /\ pc[t] = "token" /\ mine'[t] = mine[t]
                                /\ threadId' = [threadId EXCEPT ![mine[t]] = t]
      /\ ~ SetToken(t) => UNCHANGED threadId
  BY ThreadCarries
<1>1. ASSUME NEW u \in Threads, pc'[u] \in Named
      PROVE  threadId'[mine'[u]] = u
  <2>0. threadId \in [Producers -> Threads \cup {None}]
    BY DEF OwnerInv, OwnerTypes
  <2>1. CASE u = t
    <3>1. CASE pc[t] \in Named /\ mine'[t] = mine[t] /\ UNCHANGED threadId
      BY <2>1, <3>1 DEF ThreadInv, Named
    <3>2. CASE pc[t] = "token" /\ mine'[t] = mine[t] /\ threadId' = [threadId EXCEPT ![mine[t]] = t]
      <4>1. mine[t] \in Producers
        BY <3>2 DEF OwnerInv, OwnerTypes, InList, Owning
      <4> QED BY <2>0, <2>1, <3>2, <4>1
    <3> QED BY <1>0, <1>1, <2>1, <3>1, <3>2
  <2>2. CASE u # t
    <3>1. pc[u] \in Named /\ mine'[u] = mine[u] /\ threadId[mine[u]] = u
      BY <1>0, <1>1, <2>2 DEF ThreadInv, Named
    <3>2. CASE ~ SetToken(t)
      BY <1>0, <3>1, <3>2
    <3>3. CASE SetToken(t)
      <4>1. pc[t] = "token" /\ threadId' = [threadId EXCEPT ![mine[t]] = t]
        BY <3>3 DEF SetToken
      <4>2. mine[u] # mine[t]
        BY <2>2, <3>1, <4>1 DEF OwnerInv, Owning, Named
      <4>3. mine[u] \in Producers
        BY <3>1 DEF OwnerInv, OwnerTypes, InList, Named
      <4> QED BY <2>0, <3>1, <4>1, <4>2, <4>3
    <3> QED BY <3>2, <3>3
  <2> QED BY <2>1, <2>2
<1>2. ASSUME NEW p \in Producers
      PROVE  LogOk(p)'
  <2>1. ASSUME NEW i \in 1 .. Len(log'[p])
        PROVE  /\ log'[p][i][1] \in Threads
               /\ \/ pc'[log'[p][i][1]] = "gone"
                  \/ pc'[log'[p][i][1]] \in Named /\ mine'[log'[p][i][1]] = p
    <3>1. CASE i > Len(log[p])
      BY <2>1, <3>1, LogKept
    <3>2. CASE ~ (i > Len(log[p]))
      <4>1. i \in 1 .. Len(log[p]) /\ log'[p][i] = log[p][i]
        BY <2>1, <3>2, LogKept
      <4>2. PICK e \in Threads : e = log[p][i][1] /\ (pc[e] = "gone" \/ (pc[e] \in Named /\ mine[e] = p))
        BY <4>1 DEF ThreadInv, LogOk, Named
      <4>3. Carries(e)
        BY <1>0
      <4> QED BY <4>1, <4>2, <4>3 DEF Carries
    <3> QED BY <3>1, <3>2
  <2> QED BY <2>1 DEF LogOk, Named
<1>3. ASSUME NEW p \in Producers
      PROVE  NameOk(p)'
  <2>0. threadId \in [Producers -> Threads \cup {None}] /\ None \notin Threads
    BY QueueAssumption DEF OwnerInv, OwnerTypes
  <2>1. /\ Len(log'[p]) \in Nat /\ Len(log[p]) \in Nat /\ Len(log[p]) <= Len(log'[p])
        /\ \A i \in 1 .. Len(log[p]) : log'[p][i] = log[p][i]
        /\ \A i \in 1 .. Len(log'[p]) : i > Len(log[p]) =>
             log'[p][i][1] = t /\ pc'[t] \in Named /\ mine'[t] = p
    BY LogKept
  <2>2. CASE threadId'[p] = threadId[p]
    <3>1. (threadId[p] # None => HadIt(threadId[p], p))'
      <4> SUFFICES ASSUME threadId'[p] # None PROVE HadIt(threadId[p], p)'
        OBVIOUS
      <4>1. HadIt(threadId[p], p) /\ threadId[p] \in Threads
        BY <2>0, <2>2 DEF ThreadInv, NameOk
      <4>2. PICK u \in Threads : u = threadId[p]
        BY <4>1
      <4>3. HadIt(u, p)'
        BY <1>0, <4>1, <4>2, HadItStays
      <4> QED BY <2>2, <4>2, <4>3 DEF HadIt
    <3>2. \A i \in 1 .. Len(log'[p]) : i > Len(log[p]) => log'[p][i][1] = threadId'[p]
      BY <1>1, <2>1
    <3>3. Len(log'[p]) > 0 => threadId'[p] # None
      <4>1. CASE Len(log[p]) > 0
        BY <2>2, <4>1 DEF ThreadInv, NameOk
      <4>2. CASE ~ (Len(log[p]) > 0)
        <5> SUFFICES ASSUME Len(log'[p]) > 0 PROVE threadId'[p] # None
          OBVIOUS
        <5>1. 1 \in 1 .. Len(log'[p]) /\ 1 > Len(log[p])
          BY <2>1, <4>2
        <5> QED BY <2>0, <2>1, <3>2, <5>1
      <4> QED BY <4>1, <4>2
    <3>4. ASSUME NEW i \in 1 .. Len(log'[p]), NEW j \in 1 .. i, log'[p][j][1] = threadId'[p]
          PROVE  log'[p][i][1] = threadId'[p]
      <4>1. CASE i > Len(log[p])
        BY <3>2, <4>1
      <4>2. CASE ~ (i > Len(log[p]))
        <5>1. i \in 1 .. Len(log[p]) /\ j \in 1 .. Len(log[p])
          BY <2>1, <4>2
        <5>2. log'[p][i] = log[p][i] /\ log'[p][j] = log[p][j]
          BY <2>1, <5>1
        <5> QED BY <2>2, <3>4, <5>1, <5>2 DEF ThreadInv, NameOk
      <4> QED BY <4>1, <4>2
    <3> QED BY <3>1, <3>3, <3>4 DEF NameOk
  <2>3. CASE threadId'[p] # threadId[p]
    <3>1. SetToken(t) /\ pc[t] = "token" /\ p = mine[t] /\ threadId'[p] = t
      <4>1. SetToken(t)
        BY <1>0, <2>3
      <4>2. pc[t] = "token" /\ threadId' = [threadId EXCEPT ![mine[t]] = t]
        BY <4>1 DEF SetToken
      <4>3. mine[t] = p
        BY <2>0, <2>3, <4>2
      <4> QED BY <2>0, <4>1, <4>2, <4>3
    <3>2. pc'[t] \in Named /\ mine'[t] = p
      BY <3>1 DEF SetToken, OwnerInv, OwnerTypes, Named, Owning
    <3>3. log' = log
      BY <3>1 DEF SetToken, QueueUnchanged, history
    <3>4. \A i \in 1 .. Len(log[p]) : log[p][i][1] # t
      BY <3>1 DEF ThreadInv, LogOk, Named
    <3>5. HadIt(t, p)'
      BY <3>2 DEF HadIt
    <3>6. \A i \in 1 .. Len(log'[p]) : \A j \in 1 .. i : log'[p][j][1] # t
      <4> SUFFICES ASSUME NEW i \in 1 .. Len(log[p]), NEW j \in 1 .. i PROVE log[p][j][1] # t
        BY <3>3
      <4>1. j \in 1 .. Len(log[p])
        BY <2>1
      <4> QED BY <3>4, <4>1
    <3>7. t # None
      BY <2>0
    <3>8. (threadId[p] # None => HadIt(threadId[p], p))'
      BY <3>1, <3>5 DEF HadIt
    <3> QED BY <3>1, <3>6, <3>7, <3>8 DEF NameOk
  <2> QED BY <2>2, <2>3
<1>4. ASSUME cpc' = "process" \/ cpc' = "empty", NEW i \in call'.index + 1 .. call'.end
      PROVE  Announced(call.ctx, call.asked, i)'
  <2>1. cpc' = cpc /\ call' = call
    BY <1>0 DEF callVars
  <2>2. PICK p \in Producers : p = call.asked /\ RingTypes /\ RingAt(p)
    BY <1>4, <2>1, Asked
  <2>3. call.index \in Nat /\ call.end \in Nat /\ call.end <= tailIndex[p]
    BY <1>4, <2>1, <2>2, CallFacts
  <2>4. Len(log[p]) = tailIndex[p] /\ tailIndex[p] \in Nat
    BY <2>2, TypesOf DEF RingAt, CountsOk
  <2>5. i \in call.index + 1 .. call.end
    BY <2>1
  <2>6. i \in 1 .. Len(log[p])
    BY <2>3, <2>4, <2>5
  <2>7. \A j \in 1 .. i : log'[p][j] = log[p][j]
    <3> SUFFICES ASSUME NEW j \in 1 .. i PROVE log'[p][j] = log[p][j]
      OBVIOUS
    <3>1. j \in 1 .. Len(log[p])
      BY <2>4, <2>6
    <3> QED BY <3>1, LogKept
  <2>8. PICK e \in Threads : e = log[p][i][1]
    BY <2>6 DEF ThreadInv, LogOk
  <2>9. PICK u : u = call.ctx
    OBVIOUS
  <2>10. e = u \/ (pc[e] = "gone" /\ HadIt(u, p) /\ \A j \in 1 .. i : log[p][j][1] # u)
    BY <1>4, <2>1, <2>2, <2>5, <2>8, <2>9 DEF ThreadInv, Announced
  <2>11. log'[p][i][1] = e
    BY <2>6, <2>7, <2>8
  <2>12. CASE e = u
    BY <2>1, <2>2, <2>9, <2>11, <2>12 DEF Announced
  <2>13. CASE pc[e] = "gone" /\ HadIt(u, p) /\ \A j \in 1 .. i : log[p][j][1] # u
    <3>1. u \in Threads
      BY <2>13 DEF HadIt
    <3>2. pc'[e] = "gone" /\ HadIt(u, p)'
      <4>1. Carries(u) /\ Carries(e)
        BY <1>0, <3>1
      <4>2. HadIt(u, p)'
        BY <2>13, <4>1, HadItStays
      <4> QED BY <2>13, <4>1, <4>2 DEF Carries
    <3>3. HadIt(call.ctx, call.asked)'
      BY <2>1, <2>2, <2>9, <3>2 DEF HadIt
    <3> QED BY <2>1, <2>2, <2>7, <2>9, <2>11, <2>13, <3>2, <3>3 DEF Announced
  <2> QED BY <2>10, <2>12, <2>13
<1> QED BY <1>1, <1>2, <1>3, <1>4 DEF ThreadInv

(* The consumer announces the owner of all it goes on to process. *)
LEMMA ConsumerKeepsThreads ==
  ASSUME OwnerInv, RingInv, ThreadInv, ConsumerStep
  PROVE  ThreadInv'
<1>0. UNCHANGED <<pc, mine, threadId, log>>
  BY ConsumerLeavesOwners DEF ownerVars, threadVars
<1>1. \A t \in Threads : pc'[t] \in Named => threadId'[mine'[t]] = t
  BY <1>0 DEF ThreadInv, Named
<1>2. \A p \in Producers : LogOk(p)' /\ NameOk(p)'
  BY <1>0 DEF ThreadInv, LogOk, NameOk, HadIt
<1>3. ASSUME cpc' = "process" \/ cpc' = "empty", NEW i \in call'.index + 1 .. call'.end
      PROVE  Announced(call.ctx, call.asked, i)'
  <2>1. Notify \/ ProcessData \/ SetManyEmpty
    BY <1>3 DEF ConsumerStep, TryDequeue, NothingThere, Reserve, Claim, LoadIndex
  <2>2. PICK p \in Producers : p = call.asked /\ RingTypes /\ RingAt(p)
    BY <2>1, Asked DEF Notify, ProcessData, SetManyEmpty
  <2>c. call \in Calls
    BY DEF RingInv, CallOk
  <2>3. CASE Notify
    <3>1. PICK a : a = FirstSlot
      OBVIOUS
    <3>2. call' = [call EXCEPT !.at = a, !.ctx = threadId[p]] /\ cpc = "locate"
      BY <2>2, <2>3, <3>1 DEF Notify
    <3>3. call'.index = call.index /\ call'.end = call.end /\ call'.asked = p /\ call'.ctx = threadId[p]
      BY <2>2, <2>c, <3>2 DEF Calls
    <3>4. call.index \in Nat /\ call.end \in Nat /\ call.end <= tailIndex[p]
      BY <2>2, <3>2, CallFacts
    <3>5. Len(log[p]) = tailIndex[p] /\ tailIndex[p] \in Nat
      BY <2>2, TypesOf DEF RingAt, CountsOk
    <3>6. i \in call.index + 1 .. call.end
      BY <3>3
    <3>7. i \in 1 .. Len(log[p])
      BY <3>4, <3>5, <3>6
    <3>8. PICK e \in Threads : e = log[p][i][1] /\ (pc[e] = "gone" \/ (pc[e] \in Named /\ mine[e] = p))
      BY <3>7 DEF ThreadInv, LogOk, Named
    <3>9. PICK u : u = threadId[p]
      OBVIOUS
    <3>10. Announced(u, p, i)
      <4>1. CASE e = u
        BY <3>8, <4>1 DEF Announced
      <4>2. CASE e # u
        <5>1. pc[e] = "gone"
          BY <3>8, <3>9, <4>2 DEF ThreadInv
        <5>2. HadIt(u, p)
          <6>1. Len(log[p]) > 0
            BY <3>5, <3>7
          <6> QED BY <3>9, <6>1 DEF ThreadInv, NameOk
        <5>3. \A j \in 1 .. i : log[p][j][1] # u
          BY <3>7, <3>8, <3>9, <4>2 DEF ThreadInv, NameOk
        <5> QED BY <3>8, <5>1, <5>2, <5>3 DEF Announced
      <4> QED BY <4>1, <4>2
    <3> QED BY <1>0, <3>3, <3>9, <3>10 DEF Announced, HadIt
  <2>4. CASE ProcessData
    <3>1. call' = call /\ cpc = "process"
      BY <2>4 DEF ProcessData
    <3> QED BY <1>0, <1>3, <3>1 DEF ThreadInv, Announced, HadIt
  <2>5. CASE SetManyEmpty
    <3>a. PICK a : a = (call.at + 1) % Loaded.size
      OBVIOUS
    <3>1. PICK c \in Nat : c = ChunkEnd /\ call.index < c
      BY <2>2, <2>5, ChunkFacts DEF SetManyEmpty, AtWork
    <3>2. call' = [call EXCEPT !.index = c, !.at = a] /\ cpc = "empty"
      BY <1>3, <2>5, <3>a, <3>1 DEF SetManyEmpty
    <3>3. call'.index = c /\ call'.end = call.end /\ call'.asked = call.asked /\ call'.ctx = call.ctx
      BY <2>c, <3>2 DEF Calls
    <3>4. call.index \in Nat /\ call.end \in Nat
      BY <2>c DEF Calls
    <3>5. i \in call.index + 1 .. call.end
      BY <3>1, <3>3, <3>4
    <3> QED BY <1>0, <3>2, <3>3, <3>5 DEF ThreadInv, Announced, HadIt
  <2> QED BY <2>1, <2>3, <2>4, <2>5
<1> QED BY <1>1, <1>2, <1>3 DEF ThreadInv, Named

(* No step mixes up whose events they are. *)
LEMMA ThreadNext == OwnerInv /\ RingInv /\ ThreadInv /\ [Next]_vars => ThreadInv'
<1> SUFFICES ASSUME OwnerInv, RingInv, ThreadInv, [Next]_vars PROVE ThreadInv'
  OBVIOUS
<1>1. CASE UNCHANGED vars
  BY <1>1 DEF vars, ownerVars, threadVars, callVars, history, ThreadInv, LogOk, NameOk,
         Announced, HadIt
<1> QED BY <1>1, ConsumerKeepsThreads, ProducersKeepThreads DEF Next

(* The items of the block in hand are those of the thread announced, or of *)
(* one whose heir that is.                                                 *)
LEMMA ChunkOfOwner ==
  ASSUME OwnerInv, RingInv, ThreadInv, cpc = "process", NEW i \in DOMAIN Chunk
  PROVE  LET t == Chunk[i][1] IN
         \/ call.ctx = t
         \/ pc[t] = "gone" /\ Heir(call.ctx, call.asked, call.index + i)
<1>1. PICK p \in Producers : p = call.asked /\ RingTypes /\ RingAt(p)
  BY Asked
<1>2. PICK x \in Nat, c \in Nat, e \in Nat :
         x = call.index /\ c = ChunkEnd /\ e = call.end /\ x < c /\ c <= e /\ e <= tailIndex[p]
  BY <1>1, CallFacts, ChunkFacts DEF AtWork
<1>3. tailIndex[p] \in Nat /\ Len(log[p]) = tailIndex[p] /\ log[p] \in Seq(Events)
  BY <1>1, TypesOf DEF RingAt, CountsOk
<1>4. DOMAIN Chunk = 1 .. c - x
  BY <1>2 DEF Chunk
<1>5. x + i \in call.index + 1 .. call.end /\ i \in 1 .. c - x
  BY <1>2, <1>4
<1>6. Chunk[i] = log[p][x + i]
  <2>1. Chunk = SubSeq(log[p], x + 1, c)
    BY <1>1, <1>2, ChunkInOrder
  <2>0. PICK m \in Int : m = x + 1 /\ c - m + 1 = c - x /\ m + i - 1 = x + i
    BY <1>2, <1>5
  <2>2. PICK s \in Seq(Events) : s = log[p]
    BY <1>3
  <2>3. \A j \in m .. c : j \in 1 .. Len(s)
    BY <1>2, <1>3, <2>0, <2>2
  <2>4. \A j \in m .. c : s[j] \in Events
    BY <2>2, <2>3
  <2>5. \A j \in 1 .. c - m + 1 : SubSeq(s, m, c)[j] = s[m + j - 1]
    BY <2>4, SubSeqProperties
  <2> QED BY <1>5, <2>0, <2>1, <2>2, <2>5
<1>7. PICK k \in Nat : k = x + i /\ k \in call.index + 1 .. call.end /\ k = call.index + i
  BY <1>2, <1>5
<1>8. Announced(call.ctx, call.asked, k)
  BY <1>7 DEF ThreadInv
<1> QED BY <1>1, <1>6, <1>7, <1>8 DEF Announced, HadIt, Heir

(* Events are announced by notifyThread as those of the thread that        *)
(* emitted them, or, once that has ended, of a thread that has taken its   *)
(* producer over since and emitted nothing into it so far.                 *)
THEOREM RightThread == Spec => EventsKeepTheirThread
<1>1. Init => OwnerInv /\ RingInv /\ ThreadInv
  BY OwnerInit, NoBlockAtFirst, ThreadInit
<1>2. (OwnerInv /\ RingInv /\ ThreadInv) /\ [Next]_vars => (OwnerInv /\ RingInv /\ ThreadInv)'
  BY OwnerNext, RingNext, ThreadNext
<1>3. OwnerInv /\ RingInv /\ ThreadInv =>
        (cpc = "process" =>
           \A i \in DOMAIN Chunk :
             LET t == Chunk[i][1] IN
             \/ call.ctx = t
             \/ pc[t] = "gone" /\ Heir(call.ctx, call.asked, call.index + i))
  BY ChunkOfOwner
<1> QED BY <1>1, <1>2, <1>3, PTL DEF Spec, EventsKeepTheirThread
-----------------------------------------------------------------------------
(* Everybody listed has a place of its own. *)
LEMMA PosFacts ==
  ASSUME OwnerInv, NEW p, InList(p)
  PROVE  /\ Len(producerListTail) \in Nat /\ Pos(p) \in Nat /\ 1 <= Pos(p) /\ Pos(p) <= Len(producerListTail)
         /\ producerListTail[Pos(p)] = p /\ p \in Producers
         /\ \A i \in 1 .. Len(producerListTail) : producerListTail[i] = p => i = Pos(p)
<1>1. producerListTail \in Seq(Producers) /\ NoneTwice
  BY DEF OwnerInv, OwnerTypes
<1>2. Pos(p) \in 1 .. Len(producerListTail) /\ producerListTail[Pos(p)] = p
  BY DEF InList, Pos
<1>3. Len(producerListTail) \in Nat /\ p \in Producers
  BY <1>1, <1>2
<1> QED BY <1>1, <1>2, <1>3 DEF NoneTwice

(* No two producers are in one place. *)
LEMMA SamePlace ==
  ASSUME OwnerInv, NEW p, InList(p), NEW q, InList(q), Pos(p) = Pos(q)
  PROVE  p = q
  BY PosFacts

(* Nobody is further than round the list. *)
LEMMA DistFacts ==
  ASSUME OwnerInv, NEW p, InList(p), NEW q, InList(q)
  PROVE  /\ Dist(p, q) \in Nat /\ Dist(p, q) <= Len(producerListTail) - 1
         /\ Dist(p, q) = 0 => p = q
         /\ Dist(p, p) = 0
<1>1. PICK n \in Nat, a \in Nat, b \in Nat :
        /\ n = Len(producerListTail) /\ a = Pos(p) /\ b = Pos(q) /\ 1 <= a /\ a <= n /\ 1 <= b /\ b <= n
  BY PosFacts
<1>2. a = b => p = q
  BY <1>1, SamePlace
<1> QED BY <1>1, <1>2 DEF Dist

(* The next in the list, or where the walk goes on. *)
LEMMA NextPlace ==
  ASSUME OwnerInv, NEW p, InList(p), NEW tail
  PROVE  /\ Pos(p) = Len(producerListTail) => NextProd(p, tail) = tail
         /\ Pos(p) < Len(producerListTail) =>
              InList(NextProd(p, tail)) /\ Pos(NextProd(p, tail)) = Pos(p) + 1
<1>1. PICK n \in Nat, a \in Nat : n = Len(producerListTail) /\ a = Pos(p) /\ 1 <= a /\ a <= n
  BY PosFacts
<1>2. DOMAIN producerListTail = 1 .. Len(producerListTail)
  BY DEF OwnerInv, OwnerTypes
<1>3. Pos(p) = CHOOSE i \in DOMAIN producerListTail : producerListTail[i] = p
  BY <1>2 DEF Pos
<1>4. NextProd(p, tail) = IF a = n THEN tail ELSE producerListTail[a + 1]
  BY <1>1, <1>3 DEF NextProd
<1>5. ASSUME a < n
      PROVE  InList(producerListTail[a + 1]) /\ Pos(producerListTail[a + 1]) = a + 1
  <2>1. PICK k \in Nat : k = a + 1 /\ k \in 1 .. n
    BY <1>1, <1>5
  <2>2. InList(producerListTail[k])
    BY <1>1, <2>1 DEF InList
  <2>3. PICK q : q = producerListTail[k]
    OBVIOUS
  <2>4. k = Pos(q)
    BY <1>1, <2>1, <2>2, <2>3, PosFacts
  <2> QED BY <2>1, <2>2, <2>3, <2>4
<1> QED BY <1>1, <1>4, <1>5

(* The newest producer comes first. *)
LEMMA HeadPlace ==
  ASSUME OwnerInv, producerListTail # <<>>
  PROVE  InList(Head(producerListTail)) /\ Pos(Head(producerListTail)) = 1
<1>1. InList(Head(producerListTail))
  BY HeadInList
<1>2. PICK h : h = Head(producerListTail)
  OBVIOUS
<1>3. producerListTail[1] = h /\ 1 \in 1 .. Len(producerListTail)
  BY <1>2 DEF OwnerInv, OwnerTypes
<1>4. 1 = Pos(h)
  BY <1>1, <1>2, <1>3, PosFacts
<1> QED BY <1>1, <1>2, <1>4

(* Whose turn it is next is in the list. *)
LEMMA TurnInList ==
  ASSUME OwnerInv, RingInv, token # None
  PROVE  /\ producerListTail # <<>> /\ InList(token)
         /\ cpc # "idle" => InList(call.asked) /\ InList(Served)
         /\ InList(NextUp)
<1>1. producerListTail \in Seq(Producers) /\ InList(token)
  BY DEF RingInv, CallOk, OwnerInv, OwnerTypes
<1>2. producerListTail # <<>>
  BY <1>1 DEF InList
<1>3. ASSUME cpc # "idle"
      PROVE  InList(call.asked) /\ InList(Served)
  <2>1. InList(call.asked)
    BY <1>3 DEF RingInv, CallOk
  <2>2. InList(Head(producerListTail))
    BY <1>2, HeadInList
  <2>3. InList(NextProd(call.asked, Head(producerListTail)))
    BY <1>1, <2>1, <2>2, NextProdInList
  <2> QED BY <2>1, <2>3 DEF Served
<1> QED BY <1>1, <1>2, <1>3 DEF NextUp

(* Nobody is passed over who has nothing. *)
LEMMA UnlistedNotPassed ==
  ASSUME OwnerInv, RingInv, WalkInv, NEW p \in Producers
  PROVE  /\ passedOver[p] \in Nat
         /\ headIndex[p] \in Nat /\ tailIndex[p] \in Nat /\ headIndex[p] <= tailIndex[p]
         /\ ~ InList(p) => passedOver[p] = 0
         /\ headIndex[p] = tailIndex[p] => passedOver[p] = 0
<1>1. passedOver[p] \in Nat /\ (passedOver[p] > 0 => headIndex[p] < tailIndex[p])
  BY DEF WalkInv
<1>2. headIndex[p] \in Nat /\ tailIndex[p] \in Nat
  BY TypesOf DEF RingInv
<1>3. headIndex[p] <= tailIndex[p] /\ (tailIndex[p] > 0 => InList(p))
  BY DEF RingInv, CountsOk
<1> QED BY <1>1, <1>2, <1>3

(* At first nobody was passed over. *)
LEMMA WalkInit == Init => WalkInv
  BY DEF Init, WalkInv

(* The bound on turns is the bound on being passed over. *)
LEMMA Starves ==
  ASSUME OwnerInv, RingInv, WalkInv
  PROVE  NobodyStarves
<1> SUFFICES ASSUME NEW p \in Producers PROVE passedOver[p] <= Len(producerListTail)
  BY DEF NobodyStarves
<1>0. Len(producerListTail) \in Nat /\ passedOver[p] \in Nat
  BY DEF OwnerInv, OwnerTypes, WalkInv
<1>1. CASE ~ InList(p)
  BY <1>0, <1>1, UnlistedNotPassed
<1>2. CASE InList(p) /\ token = None
  BY <1>0, <1>2 DEF WalkInv
<1>3. CASE InList(p) /\ token # None
  <2>1. passedOver[p] + Dist(NextUp, p) <= Len(producerListTail)
    BY <1>3 DEF WalkInv
  <2>2. Dist(NextUp, p) \in Nat
    BY <1>3, TurnInList, DistFacts
  <2> QED BY <1>0, <2>1, <2>2
<1> QED BY <1>1, <1>2, <1>3

(* Steps that move nobody's turn. *)
LEMMA WalkStays ==
  ASSUME OwnerInv, WalkInv, UNCHANGED <<producerListTail, passedOver, headIndex>>,
         tailIndex \in [Producers -> Nat], headIndex \in [Producers -> Nat],
         \A p \in Producers : tailIndex'[p] \in Nat /\ tailIndex[p] <= tailIndex'[p],
         token # None, token' # None, NextUp' = NextUp,
         cpc' \in {"ask", "claim"} /\ call'.asked # token' =>
           cpc \in {"ask", "claim"} /\ token' = token /\ call'.asked = call.asked /\ call'.walkTail = call.walkTail
  PROVE  WalkInv'
<1>1. /\ \A q : Pos(q)' = Pos(q) /\ (InList(q)' <=> InList(q))
      /\ \A p, q : Dist(p, q)' = Dist(p, q)
  BY DEF Pos, InList, Dist
<1>2. \A p \in Producers : passedOver'[p] > 0 => headIndex'[p] < tailIndex'[p]
  <2>1. \A p \in Producers : /\ passedOver[p] > 0 => headIndex[p] < tailIndex[p]
                             /\ tailIndex[p] \in Nat /\ headIndex[p] \in Nat
    BY DEF WalkInv
  <2> QED BY <2>1
<1>3. \A p \in Producers : InList(p)' => passedOver'[p] + Dist(NextUp, p)' <= Len(producerListTail)'
  BY <1>1 DEF WalkInv
<1>4. ASSUME cpc' \in {"ask", "claim"}, call'.asked # token'
      PROVE  /\ \A p \in Producers : InList(p)' /\ Dist(token, p)' < Dist(token, call.asked)' => passedOver'[p] = 0
             /\ Pos(call.walkTail)' <= Pos(token)'
             /\ \A p \in Producers : InList(p)' /\ Pos(p)' < Pos(call.walkTail)' => passedOver'[p] = 0
             /\ Pos(call.asked)' < Pos(token)' => Pos(call.walkTail)' <= Pos(call.asked)'
  <2>1. cpc \in {"ask", "claim"} /\ token' = token /\ call'.asked = call.asked /\ call'.walkTail = call.walkTail
    BY <1>4
  <2>2. /\ Pos(token)' = Pos(token) /\ Pos(call.asked)' = Pos(call.asked)
        /\ Pos(call.walkTail)' = Pos(call.walkTail)
        /\ Dist(token, call.asked)' = Dist(token, call.asked)
    BY <2>1 DEF Pos, Dist
  <2>3. \A p \in Producers : Dist(token, p)' = Dist(token, p) /\ Pos(p)' = Pos(p) /\ (InList(p)' <=> InList(p))
    BY <1>1, <2>1 DEF Dist
  <2> QED BY <1>4, <2>1, <2>2, <2>3 DEF WalkInv
<1>5. passedOver' \in [Producers -> Nat]
  BY DEF WalkInv
<1> QED BY <1>2, <1>3, <1>4, <1>5 DEF WalkInv
-----------------------------------------------------------------------------
(* A new producer comes first, everybody else one place later. *)
LEMMA ListGrows ==
  ASSUME OwnerInv, OwnerInv', NEW t \in Threads, ~ InList(t), producerListTail' = <<t>> \o producerListTail
  PROVE  /\ Len(producerListTail') = Len(producerListTail) + 1
         /\ InList(t)' /\ Pos(t)' = 1 /\ Head(producerListTail') = t
         /\ \A p : InList(p) => InList(p)' /\ Pos(p)' = Pos(p) + 1 /\ p # t
         /\ \A p : InList(p)' => p = t \/ InList(p)
<1>1. PICK L \in Seq(Producers), n \in Nat : L = producerListTail /\ n = Len(L)
  BY DEF OwnerInv, OwnerTypes
<1>2. /\ Len(producerListTail') = n + 1 /\ producerListTail'[1] = t
      /\ \A i \in 1 .. n + 1 : i # 1 => producerListTail'[i] = L[i - 1]
  BY <1>1
<1>3. \A i, j \in 1 .. n + 1 : producerListTail'[i] = producerListTail'[j] => i = j
  BY <1>2 DEF OwnerInv, NoneTwice
<1>4. ASSUME NEW q, NEW i \in 1 .. n + 1, producerListTail'[i] = q
      PROVE  InList(q)' /\ Pos(q)' = i
  BY <1>2, <1>3, <1>4 DEF InList, Pos
<1>5. 1 \in 1 .. n + 1
  BY <1>1
<1>6. Head(producerListTail') = t
  BY <1>1
<1>7. ASSUME NEW p, InList(p)
      PROVE  InList(p)' /\ Pos(p)' = Pos(p) + 1
  <2>1. PICK k \in Nat : k = Pos(p) /\ k \in 1 .. n /\ L[k] = p
    BY <1>1, <1>7, PosFacts
  <2>2. k + 1 \in 1 .. n + 1 /\ k + 1 # 1 /\ (k + 1) - 1 = k
    BY <2>1
  <2>3. producerListTail'[k + 1] = p
    BY <1>2, <2>1, <2>2
  <2> QED BY <1>4, <2>1, <2>2, <2>3
<1>8. ASSUME NEW p, InList(p)'
      PROVE  p = t \/ InList(p)
  <2>1. PICK i \in 1 .. n + 1 : producerListTail'[i] = p
    BY <1>2, <1>8 DEF InList
  <2>2. CASE i # 1
    <3>1. i - 1 \in 1 .. n /\ L[i - 1] = p
      BY <1>2, <2>1, <2>2
    <3> QED BY <1>1, <3>1 DEF InList
  <2> QED BY <1>2, <2>1, <2>2
<1> QED BY <1>1, <1>2, <1>4, <1>5, <1>6, <1>7, <1>8

(* A new producer makes the round longer by one for all. *)
LEMMA AddProducerKeepsWalk ==
  ASSUME OwnerInv, RingInv, WalkInv, OwnerInv', RingInv', NEW t \in Threads, AddProducer(t)
  PROVE  WalkInv'
<1>1. /\ UNCHANGED <<passedOver, headIndex, tailIndex, cpc, token, call>>
      /\ producerListTail' = <<t>> \o producerListTail /\ pc[t] = "add"
  BY DEF AddProducer, QueueUnchanged, history, indexVars, callVars
<1>2. ~ InList(t)
  BY <1>1 DEF OwnerInv, Owning
<1>3. /\ Len(producerListTail') = Len(producerListTail) + 1
      /\ InList(t)' /\ Pos(t)' = 1 /\ Head(producerListTail') = t
      /\ \A p : InList(p) => InList(p)' /\ Pos(p)' = Pos(p) + 1 /\ p # t
      /\ \A p : InList(p)' => p = t \/ InList(p)
  BY <1>1, <1>2, ListGrows
<1>4. passedOver[t] = 0 /\ t \in Producers
  BY <1>2, UnlistedNotPassed DEF Producers
<1>5. PICK n \in Nat : n = Len(producerListTail)
  BY DEF OwnerInv, OwnerTypes
<1>6. ASSUME token # None
      PROVE  \A p \in Producers : InList(p)' => passedOver[p] + Dist(NextUp, p)' <= n + 1
  <2>1. PICK u : u = NextUp /\ InList(u)
    BY <1>6, TurnInList
  <2>2. PICK v : v = NextUp' /\ (v = u \/ (Pos(u) = 1 /\ v = t))
    <3>1. NextUp' = u \/ (Pos(u) = 1 /\ NextUp' = t)
      <4>1. CASE cpc \notin {"index", "locate", "process", "empty"}
        BY <1>1, <2>1, <4>1 DEF NextUp
      <4>2. CASE cpc \in {"index", "locate", "process", "empty"}
        <5>1. NextUp = Served /\ NextUp' = Served' /\ InList(call.asked) /\ producerListTail # <<>>
          BY <1>1, <1>6, <4>2, TurnInList DEF NextUp
        <5>2. CASE call.asked # token
          BY <1>1, <2>1, <5>1, <5>2 DEF Served
        <5>3. CASE call.asked = token
          <6>1. PICK a : a = call.asked /\ InList(a)
            BY <5>1
          <6>2. Served = NextProd(a, Head(producerListTail)) /\ Served' = NextProd(a, t)'
            BY <1>1, <1>3, <5>3, <6>1 DEF Served
          <6>3. PICK i \in Nat : i = Pos(a) /\ 1 <= i /\ i <= n /\ producerListTail[i] = a
            BY <1>5, <6>1, PosFacts
          <6>4. NextProd(a, t)' = IF i + 1 = n + 1 THEN t ELSE producerListTail'[i + 2]
            <7>1. DOMAIN producerListTail' = 1 .. Len(producerListTail')
              BY DEF OwnerInv, OwnerTypes
            <7>2. Pos(a)' = i + 1 /\ Len(producerListTail') = n + 1
              BY <1>3, <1>5, <6>1, <6>3
            <7>3. Pos(a)' = CHOOSE j \in DOMAIN producerListTail' : producerListTail'[j] = a
              BY <7>1 DEF Pos
            <7>4. NextProd(a, t)' = IF Pos(a)' = Len(producerListTail') THEN t ELSE producerListTail'[Pos(a)' + 1]
              BY <7>3 DEF NextProd
            <7>5. (i + 1) + 1 = i + 2
              BY <6>3
            <7> QED BY <7>2, <7>4, <7>5
          <6>5. CASE i = n
            <7>1. u = Head(producerListTail) /\ Pos(u) = 1
              BY <1>5, <2>1, <5>1, <6>1, <6>2, <6>3, <6>5, NextPlace, HeadPlace
            <7> QED BY <2>1, <5>1, <6>2, <6>4, <6>5, <7>1
          <6>6. CASE i # n
            <7>1. Pos(u) = i + 1
              BY <1>5, <2>1, <5>1, <6>1, <6>2, <6>3, <6>6, NextPlace
            <7>2. producerListTail[i + 1] = u /\ i + 2 \in 1 .. n + 1
              BY <1>5, <2>1, <6>3, <6>6, <7>1, PosFacts
            <7>3. producerListTail'[i + 2] = producerListTail[i + 1]
              <8>1. PICK L \in Seq(Producers), k \in Nat : L = producerListTail /\ k = i + 1 /\ k \in 1 .. Len(L)
                BY <1>5, <6>3, <6>6 DEF OwnerInv, OwnerTypes
              <8>2. (<<t>> \o L)[k + 1] = L[k]
                BY <8>1
              <8>3. k + 1 = i + 2
                BY <8>1
              <8> QED BY <1>1, <8>1, <8>2, <8>3
            <7> QED BY <2>1, <5>1, <6>2, <6>3, <6>4, <6>6, <7>2, <7>3
          <6> QED BY <6>5, <6>6
        <5> QED BY <5>2, <5>3
      <4> QED BY <4>1, <4>2
    <3> QED BY <3>1
  <2>3. ASSUME NEW p \in Producers, InList(p)'
        PROVE  passedOver[p] + Dist(v, p)' <= n + 1
    <3>1. PICK a \in Nat, b \in Nat : a = Pos(u) /\ 1 <= a /\ a <= n /\ b = Pos(v)' /\
                                      (b = a + 1 \/ (a = 1 /\ b = 1))
      BY <1>3, <1>5, <2>1, <2>2, PosFacts
    <3>2. CASE p = t
      <4>1. Pos(p)' = 1 /\ passedOver[p] = 0
        BY <1>3, <1>4, <3>2
      <4>2. Dist(v, p)' <= n + 1
        BY <1>3, <1>5, <3>1, <4>1 DEF Dist
      <4> QED BY <4>1, <4>2, <1>3, <1>5, <3>1 DEF Dist
    <3>3. CASE p # t
      <4>1. InList(p) /\ Pos(p)' = Pos(p) + 1
        BY <1>3, <2>3, <3>3
      <4>2. PICK c \in Nat : c = Pos(p) /\ 1 <= c /\ c <= n
        BY <1>5, <4>1, PosFacts
      <4>3. PICK o \in Nat : o = passedOver[p]
        BY DEF WalkInv
      <4>4. o + Dist(u, p) <= n
        BY <1>5, <1>6, <2>1, <4>1, <4>3 DEF WalkInv
      <4>5. Dist(u, p) = IF c >= a THEN c - a ELSE c - a + n
        BY <1>5, <3>1, <4>2 DEF Dist
      <4>6. Dist(v, p)' = IF c + 1 >= b THEN c + 1 - b ELSE c + 1 - b + (n + 1)
        BY <1>3, <1>5, <3>1, <4>1, <4>2 DEF Dist
      <4>7. Dist(v, p)' <= Dist(u, p) + 1 /\ Dist(v, p)' \in Int /\ Dist(u, p) \in Int
        BY <3>1, <4>2, <4>5, <4>6
      <4> QED BY <4>3, <4>4, <4>7
    <3> QED BY <3>2, <3>3
  <2> QED BY <2>2, <2>3 DEF Dist
<1>7. ASSUME cpc \in {"ask", "claim"}, call.asked # token
      PROVE  /\ \A p \in Producers : InList(p)' /\ Dist(token, p)' < Dist(token, call.asked)' => passedOver[p] = 0
             /\ Pos(call.walkTail)' <= Pos(token)'
             /\ \A p \in Producers : InList(p)' /\ Pos(p)' < Pos(call.walkTail)' => passedOver[p] = 0
             /\ Pos(call.asked)' < Pos(token)' => Pos(call.walkTail)' <= Pos(call.asked)'
  <2>1. InList(token) /\ InList(call.asked) /\ InList(call.walkTail)
    BY <1>7 DEF RingInv, CallOk
  <2>2. PICK c, d, e : c = token /\ d = call.asked /\ e = call.walkTail
    OBVIOUS
  <2>3. PICK k \in Nat, a \in Nat, w \in Nat :
           /\ k = Pos(c) /\ a = Pos(d) /\ w = Pos(e)
           /\ 1 <= k /\ k <= n /\ 1 <= a /\ a <= n /\ 1 <= w /\ w <= n
    BY <1>5, <2>1, <2>2, PosFacts
  <2>4. Pos(c)' = k + 1 /\ Pos(d)' = a + 1 /\ Pos(e)' = w + 1
    BY <1>3, <2>1, <2>2, <2>3
  <2>5. /\ w <= k /\ (a < k => w <= a)
        /\ \A p \in Producers : InList(p) /\ Dist(c, p) < Dist(c, d) => passedOver[p] = 0
        /\ \A p \in Producers : InList(p) /\ Pos(p) < w => passedOver[p] = 0
    BY <1>7, <2>2, <2>3 DEF WalkInv
  <2>6. ASSUME NEW p \in Producers, InList(p)', p # t
        PROVE  /\ Dist(c, p)' < Dist(c, d)' => passedOver[p] = 0
               /\ Pos(p)' < w + 1 => passedOver[p] = 0
    <3>1. InList(p) /\ Pos(p)' = Pos(p) + 1
      BY <1>3, <2>6
    <3>2. PICK x \in Nat : x = Pos(p) /\ 1 <= x /\ x <= n
      BY <1>5, <3>1, PosFacts
    <3>3. /\ Dist(c, p) = (IF x >= k THEN x - k ELSE x - k + n)
          /\ Dist(c, d) = (IF a >= k THEN a - k ELSE a - k + n)
      BY <1>5, <2>3, <3>2 DEF Dist
    <3>4. /\ Dist(c, p)' = (IF x + 1 >= k + 1 THEN x - k ELSE x - k + (n + 1))
          /\ Dist(c, d)' = (IF a + 1 >= k + 1 THEN a - k ELSE a - k + (n + 1))
      BY <1>3, <1>5, <2>4, <3>1, <3>2, <2>3 DEF Dist
    <3>5. Dist(c, p)' < Dist(c, d)' => Dist(c, p) < Dist(c, d)
      BY <2>3, <3>2, <3>3, <3>4
    <3>6. Pos(p)' < w + 1 => Pos(p) < w
      BY <2>3, <3>1, <3>2
    <3> QED BY <2>5, <3>1, <3>5, <3>6
  <2>7. \A p \in Producers : InList(p)' => /\ Dist(c, p)' < Dist(c, d)' => passedOver[p] = 0
                                           /\ Pos(p)' < Pos(e)' => passedOver[p] = 0
    BY <1>4, <2>4, <2>6
  <2>8. k + 1 >= w + 1 /\ (a + 1 < k + 1 => w + 1 <= a + 1)
    BY <2>3, <2>5
  <2>9. /\ Pos(token)' = k + 1 /\ Pos(call.asked)' = a + 1 /\ Pos(call.walkTail)' = w + 1
        /\ Dist(token, call.asked)' = Dist(c, d)' /\ \A p : Dist(token, p)' = Dist(c, p)'
    BY <1>1, <2>2, <2>4 DEF Pos, Dist
  <2> QED BY <2>4, <2>7, <2>8, <2>9
<1>8. passedOver' \in [Producers -> Nat] /\ Len(producerListTail') = n + 1
  BY <1>1, <1>3, <1>5 DEF WalkInv
<1> QED BY <1>1, <1>6, <1>7, <1>8 DEF WalkInv
-----------------------------------------------------------------------------
(* As long as the consumer has not begun, nobody was passed over. *)
LEMMA WalkNotBegun ==
  ASSUME RingInv, WalkInv, token = None, token' = None, UNCHANGED passedOver, cpc' = cpc
  PROVE  WalkInv'
<1>1. cpc = "idle"
  BY DEF RingInv, CallOk
<1>2. \A p \in Producers : passedOver[p] = 0
  BY DEF WalkInv
<1> QED BY <1>1, <1>2 DEF WalkInv

(* Threads take nobody's turn. *)
LEMMA ProducersKeepWalk ==
  ASSUME OwnerInv, RingInv, WalkInv, OwnerInv', RingInv', NEW t \in Threads, ProducerStep(t)
  PROVE  WalkInv'
<1>1. UNCHANGED <<passedOver, headIndex, cpc, token, call>>
  BY DEF ProducerStep, StartThread, Look, Take, CountProducer, AddProducer, SetToken, ThreadExit,
     QueueUnchanged,
         EnqueueBegin, ReuseBlock, RequisitionBlock, WriteEntry, PublishFront, WriteItem, Commit, GoOn,
         history, indexVars, callVars
<1>2. CASE token = None
  BY <1>1, <1>2, WalkNotBegun
<1>3. CASE AddProducer(t)
  BY <1>3, AddProducerKeepsWalk
<1>4. CASE token # None /\ ~ AddProducer(t)
  <2>1. UNCHANGED producerListTail
    BY <1>4 DEF ProducerStep, StartThread, Look, Take, CountProducer, SetToken, ThreadExit,
         EnqueueBegin, ReuseBlock, RequisitionBlock, WriteEntry, PublishFront, WriteItem, Commit, GoOn, listVars
  <2>2. tailIndex \in [Producers -> Nat] /\ tailIndex' \in [Producers -> Nat] /\ headIndex \in [Producers -> Nat]
    BY DEF RingInv, RingTypes
  <2>3. tailIndex' = tailIndex \/ tailIndex' = [tailIndex EXCEPT ![mine[t]] = @ + 1]
    BY DEF ProducerStep, StartThread, Look, Take, CountProducer, AddProducer, SetToken, ThreadExit,
       QueueUnchanged,
         EnqueueBegin, ReuseBlock, RequisitionBlock, WriteEntry, PublishFront, WriteItem, Commit, indexVars
  <2>4. \A p \in Producers : tailIndex'[p] \in Nat /\ tailIndex[p] <= tailIndex'[p]
    BY <2>2, <2>3
  <2>5. NextUp' = NextUp
    BY <1>1, <2>1 DEF NextUp, Served, NextProd
  <2> QED BY <1>1, <1>4, <2>1, <2>2, <2>4, <2>5, WalkStays
<1> QED BY <1>2, <1>3, <1>4

(* A call begins where the last one ended. *)
LEMMA TryDequeueKeepsWalk ==
  ASSUME OwnerInv, RingInv, WalkInv, OwnerInv', RingInv', TryDequeue
  PROVE  WalkInv'
<1>1. /\ cpc = "idle" /\ cpc' = "ask" /\ token' = (IF token = None THEN FirstProducer ELSE token)
      /\ call' = [NoCall EXCEPT !.asked = token', !.walkTail = None]
      /\ UNCHANGED <<passedOver, producerListTail, headIndex, tailIndex>>
  BY DEF TryDequeue, ConsumerOnly, indexVars, listVars
<1>2. call'.asked = token' /\ token' # None
  <2>1. call'.asked = token'
    BY <1>1 DEF NoCall
  <2>2. token' # None
    BY <1>1 DEF RingInv, CallOk
  <2> QED BY <2>1, <2>2
<1>3. CASE token = None
  <2>1. PICK u : u = token'
    OBVIOUS
  <2>2. InList(u)
    BY <1>1, <2>1 DEF RingInv, CallOk, InList
  <2>3. \A p \in Producers : passedOver[p] = 0
    BY <1>3 DEF WalkInv
  <2>4. ASSUME NEW p \in Producers, InList(p)
        PROVE  Dist(u, p) <= Len(producerListTail)
    <3>1. Dist(u, p) \in Nat /\ Dist(u, p) <= Len(producerListTail) - 1 /\ Len(producerListTail) \in Nat
      BY <2>2, <2>4, DistFacts, PosFacts
    <3> QED BY <3>1
  <2>5. \A p \in Producers : (InList(p)' <=> InList(p)) /\ Dist(NextUp, p)' = Dist(u, p)
    BY <1>1, <2>1 DEF InList, NextUp, Dist, Pos
  <2>6. \A p \in Producers : InList(p) => 0 + Dist(u, p) <= Len(producerListTail)
    <3>1. \A p \in Producers : InList(p) => Dist(u, p) \in Nat
      BY <2>2, DistFacts
    <3> QED BY <2>4, <3>1
  <2> QED BY <1>1, <1>2, <2>3, <2>5, <2>6 DEF WalkInv
<1>4. CASE token # None
  <2>1. NextUp' = NextUp
    BY <1>1, <1>4 DEF NextUp
  <2>2. tailIndex \in [Producers -> Nat] /\ headIndex \in [Producers -> Nat]
    BY DEF RingInv, RingTypes
  <2>3. \A p \in Producers : tailIndex'[p] \in Nat /\ tailIndex[p] <= tailIndex'[p]
    BY <1>1, <2>2
  <2> QED BY <1>1, <1>2, <1>4, <2>1, <2>2, <2>3, WalkStays
<1> QED BY <1>3, <1>4

(* Steps with which a call goes on, or ends. *)
LEMMA CallGoesOn ==
  ASSUME OwnerInv, RingInv, WalkInv, Reserve \/ LoadIndex \/ Notify \/ ProcessData \/ SetManyEmpty
  PROVE  WalkInv'
<1>0. call \in Calls /\ token # None
  BY DEF RingInv, CallOk, Reserve, LoadIndex, Notify, ProcessData, SetManyEmpty
<1>1. UNCHANGED <<producerListTail, passedOver, headIndex, tailIndex>>
  BY DEF Reserve, LoadIndex, Notify, ProcessData, SetManyEmpty, ConsumerOnly, indexVars, listVars
<1>2. /\ tailIndex \in [Producers -> Nat] /\ headIndex \in [Producers -> Nat]
      /\ \A p \in Producers : tailIndex'[p] \in Nat /\ tailIndex[p] <= tailIndex'[p]
  BY <1>1 DEF RingInv, RingTypes
<1>3. CASE Reserve
  <2>1. PICK m : m = IF tailIndex[call.asked] - headIndex[call.asked] < BulkLimit
                     THEN tailIndex[call.asked] - headIndex[call.asked] ELSE BulkLimit
    OBVIOUS
  <2>2. cpc = "ask" /\ cpc' = "claim" /\ token' = token /\ call' = [call EXCEPT !.count = m]
    BY <1>3, <2>1 DEF Reserve
  <2>3. call'.asked = call.asked /\ call'.walkTail = call.walkTail
    BY <1>0, <2>2 DEF Calls
  <2>4. NextUp' = NextUp
    BY <2>2 DEF NextUp
  <2> QED BY <1>0, <1>1, <1>2, <2>2, <2>3, <2>4, WalkStays
<1>4. CASE LoadIndex \/ Notify \/ ProcessData
  <2>1. cpc \in {"index", "locate", "process"} /\ cpc' \in {"locate", "process", "empty"} /\ token' = token
    BY <1>4 DEF LoadIndex, Notify, ProcessData
  <2>2. call'.asked = call.asked
    BY <1>0, <1>4 DEF LoadIndex, Notify, ProcessData, Calls
  <2>3. NextUp' = NextUp
    BY <1>1, <2>1, <2>2 DEF NextUp, Served, NextProd
  <2> QED BY <1>0, <1>1, <1>2, <2>1, <2>3, WalkStays
<1>5. CASE SetManyEmpty /\ ChunkEnd < call.end
  <2>1. cpc = "empty" /\ cpc' = "process" /\ token' = token
    BY <1>5 DEF SetManyEmpty
  <2>2. PICK c, a : c = ChunkEnd /\ a = (call.at + 1) % Loaded.size
    OBVIOUS
  <2>3. call' = [call EXCEPT !.index = c, !.at = a]
    BY <1>5, <2>2 DEF SetManyEmpty
  <2>4. call'.asked = call.asked
    BY <1>0, <2>3 DEF Calls
  <2>5. NextUp' = NextUp
    BY <1>1, <2>1, <2>4 DEF NextUp, Served, NextProd
  <2> QED BY <1>0, <1>1, <1>2, <2>1, <2>5, WalkStays
<1>6. CASE SetManyEmpty /\ ~ (ChunkEnd < call.end)
  <2>1. cpc = "empty" /\ cpc' = "idle" /\ token' = Served
    BY <1>6 DEF SetManyEmpty
  <2>2. NextUp' = NextUp
    BY <2>1 DEF NextUp
  <2>3. token' # None
    <3>1. InList(Served)
      BY <1>0, <2>1, TurnInList
    <3>2. Served \in Producers
      BY <3>1, PosFacts
    <3> QED BY <2>1, <3>2, QueueAssumption DEF Producers
  <2> QED BY <1>0, <1>1, <1>2, <2>1, <2>2, <2>3, WalkStays
<1> QED BY <1>3, <1>4, <1>5, <1>6

(* Who the search comes to next. *)
LEMMA NothingThereKeepsWalk ==
  ASSUME OwnerInv, RingInv, WalkInv, NothingThere
  PROVE  WalkInv'
<1> DEFINE tail == IF call.asked = token THEN Head(producerListTail) ELSE call.walkTail
           ptr  == NextProd(call.asked, tail)
<1>1. /\ cpc = "ask" /\ tailIndex[call.asked] = headIndex[call.asked]
      /\ IF ptr = token
         THEN cpc' = "idle" /\ call' = NoCall
         ELSE cpc' = "ask" /\ call' = [call EXCEPT !.asked = ptr, !.walkTail = tail]
      /\ UNCHANGED <<token, passedOver, headIndex, tailIndex, producerListTail>>
  BY DEF NothingThere, ConsumerOnly, indexVars, listVars
<1>2. token # None /\ InList(token) /\ InList(call.asked) /\ producerListTail # <<>> /\ call \in Calls
  BY <1>1, TurnInList DEF RingInv, CallOk
<1>3. /\ tailIndex \in [Producers -> Nat] /\ headIndex \in [Producers -> Nat]
      /\ \A p \in Producers : tailIndex'[p] \in Nat /\ tailIndex[p] <= tailIndex'[p]
  BY <1>1 DEF RingInv, RingTypes
<1>4. NextUp' = NextUp
  BY <1>1 DEF NextUp
<1>5. CASE ptr = token
  BY <1>1, <1>2, <1>3, <1>4, <1>5, WalkStays
<1>6. CASE ptr # token
  <2>1. PICK c, d, e, r : c = token /\ d = call.asked /\ e = tail /\ r = ptr /\ r = NextProd(d, e)
    OBVIOUS
  <2>2. /\ cpc' = "ask" /\ call'.asked = r /\ call'.walkTail = e
    BY <1>1, <1>2, <1>6, <2>1 DEF Calls
  <2>3. InList(c) /\ InList(d) /\ c \in Producers /\ d \in Producers
    BY <1>2, <2>1, PosFacts
  <2>4. InList(e) /\ (d = c => Pos(e) = 1) /\ (d # c => e = call.walkTail)
    <3>1. CASE d = c
      BY <1>2, <2>1, <3>1, HeadPlace
    <3>2. CASE d # c
      BY <1>1, <2>1, <3>2 DEF RingInv, CallOk
    <3> QED BY <3>1, <3>2
  <2>5. PICK n \in Nat, k \in Nat, a \in Nat, w \in Nat :
           /\ n = Len(producerListTail) /\ k = Pos(c) /\ a = Pos(d) /\ w = Pos(e)
           /\ 1 <= k /\ k <= n /\ 1 <= a /\ a <= n /\ 1 <= w /\ w <= n
    BY <2>3, <2>4, PosFacts
  <2>6. /\ w <= k /\ (a < k => w <= a) /\ (d = c => w = 1) /\ (d = c <=> a = k)
        /\ d # c => /\ \A p \in Producers : InList(p) /\ Dist(c, p) < Dist(c, d) => passedOver[p] = 0
                    /\ \A p \in Producers : InList(p) /\ Pos(p) < w => passedOver[p] = 0
    <3>1. d = c <=> a = k
      BY <2>3, <2>5, SamePlace
    <3>2. CASE d = c
      BY <2>4, <2>5, <3>1, <3>2
    <3>3. CASE d # c
      <4>1. e = call.walkTail /\ call.asked # token
        BY <2>1, <2>4, <3>3
      <4> HIDE DEF tail, ptr
      <4> QED BY <1>1, <2>1, <2>5, <3>1, <3>3, <4>1 DEF WalkInv
    <3> QED BY <3>2, <3>3
  <2>7. InList(r) /\ (a = n => r = e) /\ (a < n => Pos(r) = a + 1)
    <3>1. (a = n => NextProd(d, e) = e) /\ (a < n => InList(NextProd(d, e)) /\ Pos(NextProd(d, e)) = a + 1)
      BY <2>3, <2>5, NextPlace
    <3>2. a = n \/ a < n
      BY <2>5
    <3> QED BY <2>1, <2>4, <3>1, <3>2
  <2>8. PICK s \in Nat : s = Pos(r) /\ 1 <= s /\ s <= n /\ s # k /\ (a = n => s = w) /\ (a < n => s = a + 1)
    <3>1. r # c
      BY <1>6, <2>1
    <3>2. Pos(r) # k
      BY <2>3, <2>5, <2>7, <3>1, SamePlace
    <3>3. Pos(r) \in Nat /\ 1 <= Pos(r) /\ Pos(r) <= n
      BY <2>5, <2>7, PosFacts
    <3> QED BY <2>5, <2>7, <3>2, <3>3
  <2>9. passedOver[d] = 0
    BY <1>1, <2>1, <2>3, UnlistedNotPassed
  <2>10. ASSUME NEW p \in Producers, InList(p)
         PROVE  /\ Dist(c, p) < Dist(c, r) => passedOver[p] = 0
                /\ Pos(p) < w => passedOver[p] = 0
    <3>1. PICK x \in Nat : x = Pos(p) /\ 1 <= x /\ x <= n /\ (x = a => p = d)
      BY <2>3, <2>5, <2>10, PosFacts, SamePlace
    <3>2. /\ Dist(c, p) = (IF x >= k THEN x - k ELSE x - k + n)
          /\ Dist(c, d) = (IF a >= k THEN a - k ELSE a - k + n)
          /\ Dist(c, r) = (IF s >= k THEN s - k ELSE s - k + n)
      BY <2>5, <2>8, <3>1 DEF Dist
    <3>3. Pos(p) < w => passedOver[p] = 0
      BY <2>5, <2>6, <2>10, <3>1
    <3>4. Dist(c, p) < Dist(c, r) => x = a \/ (a # k /\ Dist(c, p) < Dist(c, d)) \/ x < w
      BY <2>5, <2>6, <2>8, <3>1, <3>2
    <3> QED BY <2>6, <2>9, <2>10, <3>1, <3>3, <3>4
  <2>11. s < k => w <= s
    BY <2>5, <2>6, <2>8
  <2>12. /\ \A p : Pos(p)' = Pos(p) /\ (InList(p)' <=> InList(p)) /\ Dist(c, p)' = Dist(c, p)
         /\ Pos(token)' = k /\ Pos(call.asked)' = s /\ Pos(call.walkTail)' = w
         /\ Dist(token, call.asked)' = Dist(c, r) /\ \A p : Dist(token, p)' = Dist(c, p)
         /\ \A p : Dist(NextUp, p)' = Dist(NextUp, p)
    <3> HIDE DEF tail, ptr
    <3> QED BY <1>1, <1>4, <2>1, <2>2, <2>5, <2>8 DEF Pos, InList, Dist
  <2> HIDE DEF tail, ptr
  <2>13. /\ passedOver' \in [Producers -> Nat] /\ token' # None /\ cpc' = "ask"
         /\ \A p \in Producers : passedOver'[p] > 0 => headIndex'[p] < tailIndex'[p]
         /\ \A p \in Producers : InList(p)' => passedOver'[p] + Dist(NextUp, p)' <= Len(producerListTail)'
    BY <1>1, <1>2, <2>2, <2>12 DEF WalkInv
  <2>14. /\ \A p \in Producers : InList(p)' /\ Dist(token, p)' < Dist(token, call.asked)' => passedOver'[p] = 0
         /\ Pos(call.walkTail)' <= Pos(token)'
         /\ \A p \in Producers : InList(p)' /\ Pos(p)' < Pos(call.walkTail)' => passedOver'[p] = 0
         /\ Pos(call.asked)' < Pos(token)' => Pos(call.walkTail)' <= Pos(call.asked)'
    BY <1>1, <2>5, <2>6, <2>8, <2>10, <2>11, <2>12
  <2> QED BY <2>13, <2>14 DEF WalkInv
<1> QED BY <1>5, <1>6

(* Whoever is served is a turn nearer for all others. *)
LEMMA ClaimKeepsWalk ==
  ASSUME OwnerInv, RingInv, WalkInv, Claim
  PROVE  WalkInv'
<1>1. /\ cpc = "claim" /\ cpc' = "index" /\ UNCHANGED <<token, tailIndex, producerListTail>>
      /\ headIndex' = [headIndex EXCEPT ![call.asked] = @ + call.count]
      /\ passedOver' = [q \in Producers |->
                          IF q = call.asked \/ headIndex[q] = tailIndex[q] THEN 0 ELSE passedOver[q] + 1]
  BY DEF Claim, listVars
<1>2. /\ token # None /\ InList(token) /\ InList(call.asked) /\ InList(Served)
      /\ producerListTail # <<>> /\ call \in Calls
  BY <1>1, TurnInList DEF RingInv, CallOk
<1>3. PICK c, d, u : c = token /\ d = call.asked /\ u = Served /\ InList(c) /\ InList(d) /\ InList(u)
  BY <1>2
<1>4. NextUp = c /\ NextUp' = u
  <2>1. PICK h, m : h = headIndex[d] /\ m = headIndex[d] + call.count
    OBVIOUS
  <2>2. call' = [call EXCEPT !.index = h, !.end = m]
    BY <1>3, <2>1 DEF Claim
  <2>3. call'.asked = call.asked
    BY <1>2, <2>2 DEF Calls
  <2> QED BY <1>1, <1>3, <2>3 DEF NextUp, Served, NextProd
<1>5. \A p \in Producers : passedOver'[p] = IF p = d \/ headIndex[p] = tailIndex[p] THEN 0 ELSE passedOver[p] + 1
  BY <1>1, <1>3
<1>6. ASSUME NEW p \in Producers, passedOver'[p] > 0
      PROVE  headIndex'[p] < tailIndex'[p]
  <2>1. p # d /\ headIndex[p] # tailIndex[p]
    BY <1>5, <1>6
  <2>2. headIndex'[p] = headIndex[p] /\ tailIndex' = tailIndex
    BY <1>1, <1>3, <2>1 DEF RingInv, RingTypes
  <2> QED BY <2>1, <2>2, UnlistedNotPassed
<1>7. PICK n \in Nat, k \in Nat, a \in Nat, v \in Nat :
         /\ n = Len(producerListTail) /\ k = Pos(c) /\ a = Pos(d) /\ v = Pos(u)
         /\ 1 <= k /\ k <= n /\ 1 <= a /\ a <= n /\ 1 <= v /\ v <= n
  BY <1>3, PosFacts
<1>8. /\ d = c => v = IF k = n THEN 1 ELSE k + 1
      /\ d # c => v = a
      /\ d = c <=> k = a
  <2>1. d = c <=> k = a
    BY <1>3, <1>7, SamePlace
  <2>2. ASSUME d = c
        PROVE  v = IF k = n THEN 1 ELSE k + 1
    <3>1. PICK h : h = Head(producerListTail) /\ Pos(h) = 1
      BY <1>2, HeadPlace
    <3>2. u = NextProd(c, h)
      BY <1>3, <2>2, <3>1 DEF Served
    <3>3. (k = n => NextProd(c, h) = h) /\ (k < n => Pos(NextProd(c, h)) = k + 1)
      BY <1>3, <1>7, NextPlace
    <3>4. k = n \/ k < n
      BY <1>7
    <3> QED BY <1>7, <3>1, <3>2, <3>3, <3>4
  <2>3. d # c => v = a
    BY <1>3, <1>7 DEF Served
  <2> QED BY <2>1, <2>2, <2>3
<1>9. ASSUME NEW p \in Producers, InList(p)
      PROVE  passedOver'[p] + Dist(u, p) <= n
  <2>1. PICK x \in Nat, o \in Nat : x = Pos(p) /\ 1 <= x /\ x <= n /\ o = passedOver[p] /\ (x = a => p = d)
    BY <1>3, <1>7, <1>9, PosFacts, SamePlace DEF WalkInv
  <2>2. /\ Dist(c, p) = (IF x >= k THEN x - k ELSE x - k + n)
        /\ Dist(c, d) = (IF a >= k THEN a - k ELSE a - k + n)
        /\ Dist(u, p) = (IF x >= v THEN x - v ELSE x - v + n)
    BY <1>7, <2>1 DEF Dist
  <2>3. o + Dist(c, p) <= n
    BY <1>2, <1>4, <1>7, <1>9, <2>1 DEF WalkInv
  <2>4. CASE p = d \/ headIndex[p] = tailIndex[p]
    <3>1. passedOver'[p] = 0
      BY <1>5, <2>4
    <3> QED BY <1>7, <2>1, <2>2, <3>1
  <2>5. CASE ~ (p = d \/ headIndex[p] = tailIndex[p])
    <3>1. passedOver'[p] = o + 1 /\ x # a
      BY <1>5, <2>1, <2>5
    <3>2. CASE d = c
      BY <1>7, <1>8, <2>1, <2>2, <2>3, <3>1, <3>2
    <3>3. CASE d # c
      <4>1. Dist(c, p) < Dist(c, d) => o = 0
        BY <1>1, <1>3, <1>9, <2>1, <3>3 DEF WalkInv
      <4>2. v = a /\ k # a
        BY <1>8, <3>3
      <4>3. PICK x1 \in Int, x2 \in Int, x3 \in Int :
              /\ x1 = Dist(c, p) /\ x2 = Dist(c, d) /\ x3 = Dist(u, p)
              /\ x1 = (IF x >= k THEN x - k ELSE x - k + n)
              /\ x2 = (IF a >= k THEN a - k ELSE a - k + n)
              /\ x3 = (IF x >= a THEN x - a ELSE x - a + n)
        BY <1>7, <2>1, <2>2, <4>2
      <4>r. 1 <= k /\ k <= n /\ 1 <= a /\ a <= n /\ 1 <= x /\ x <= n /\ x # a
        BY <1>7, <2>1, <3>1
      <4>4. x3 <= n - 1 /\ 1 <= x2 /\ (x1 >= x2 => x3 = x1 - x2)
        BY <4>r, <4>2, <4>3
      <4>5. o + 1 + x3 <= n
        <5>1. o + x1 <= n /\ (x1 < x2 => o = 0)
          BY <2>3, <4>1, <4>3
        <5>2. CASE x1 < x2
          BY <4>4, <5>1, <5>2
        <5>3. CASE x1 >= x2
          BY <4>4, <5>1, <5>3
        <5> QED BY <5>2, <5>3
      <4> QED BY <3>1, <4>3, <4>5
    <3> QED BY <3>2, <3>3
  <2> QED BY <2>4, <2>5
<1>10. passedOver' \in [Producers -> Nat]
  BY <1>1, UnlistedNotPassed
<1>11. /\ \A p : InList(p)' <=> InList(p)
       /\ \A p : Dist(NextUp, p)' = Dist(u, p)
  BY <1>1, <1>4 DEF InList, Dist, Pos
<1>12. token' # None /\ cpc' = "index" /\ Len(producerListTail)' = n
  BY <1>1, <1>2, <1>7
<1> QED BY <1>6, <1>9, <1>10, <1>11, <1>12 DEF WalkInv

(* No step lets anybody wait for longer than a round. *)
LEMMA WalkNext ==
  OwnerInv /\ RingInv /\ WalkInv /\ [Next]_vars => WalkInv'
<1> SUFFICES ASSUME OwnerInv, RingInv, WalkInv, [Next]_vars PROVE WalkInv'
  OBVIOUS
<1>0. OwnerInv' /\ RingInv'
  BY OwnerNext, RingNext
<1>1. CASE ConsumerStep
  BY <1>0, <1>1, TryDequeueKeepsWalk, CallGoesOn, NothingThereKeepsWalk, ClaimKeepsWalk DEF ConsumerStep
<1>2. ASSUME NEW t \in Threads, ProducerStep(t)
      PROVE  WalkInv'
  BY <1>0, <1>2, ProducersKeepWalk
<1>3. CASE UNCHANGED vars
  <2>1. UNCHANGED <<passedOver, headIndex, tailIndex, cpc, token, call, producerListTail>>
    BY <1>3 DEF vars, indexVars, callVars, listVars, history
  <2>2. CASE token = None
    BY <2>1, <2>2, WalkNotBegun
  <2>3. CASE token # None
    <3>1. NextUp' = NextUp
      BY <2>1 DEF NextUp, Served, NextProd
    <3>2. tailIndex \in [Producers -> Nat] /\ headIndex \in [Producers -> Nat]
      BY DEF RingInv, RingTypes
    <3>3. \A p \in Producers : tailIndex'[p] \in Nat /\ tailIndex[p] <= tailIndex'[p]
      BY <2>1, <3>2
    <3> QED BY <2>1, <2>3, <3>1, <3>2, <3>3, WalkStays
  <2> QED BY <2>2, <2>3
<1> QED BY <1>1, <1>2, <1>3 DEF Next

(* While a producer has events, others are served at most as many times as *)
(* there are producers: the rotation of try_dequeue_bulk reaches           *)
(* everybody.                                                              *)
THEOREM EverybodysTurn == Spec => []NobodyStarves
<1>1. Init => OwnerInv /\ RingInv /\ WalkInv
  BY OwnerInit, NoBlockAtFirst, WalkInit
<1>2. (OwnerInv /\ RingInv /\ WalkInv) /\ [Next]_vars => (OwnerInv /\ RingInv /\ WalkInv)'
  BY OwnerNext, RingNext, WalkNext
<1>3. OwnerInv /\ RingInv /\ WalkInv => NobodyStarves
  BY Starves
<1> QED BY <1>1, <1>2, <1>3, PTL DEF Spec
=============================================================================
