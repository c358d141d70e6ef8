----------------------------- MODULE EventQueue -----------------------------
(***************************************************************************)
(* The lock-free queue through which threads hand events to the Tracy      *)
(* client (client/tracy_concurrentqueue.h).  Each thread owns a producer,  *)
(* a FIFO of blocks found through a circular block index; a thread that    *)
(* ends gives its producer up for another to recycle.  One thread, the     *)
(* profiler's worker, dequeues from all producers in turn.                 *)
(*                                                                         *)
(* An action is the code between two accesses to what both sides share.    *)
(* Atomic accesses are taken in the order of the source; indices do not    *)
(* wrap (they are 64 bits wide).  With one consumer nothing is ever        *)
(* overcommitted, so headIndex stands for dequeueOptimisticCount too.      *)
(***************************************************************************)
EXTENDS Integers, Sequences

CONSTANTS
  Threads,
  Quota,          (* bound of the model: events each thread emits          *)
  BLOCK_SIZE,
  IndexSize,      (* EXPLICIT_INITIAL_INDEX_SIZE                           *)
  BulkLimit       (* what dequeue_bulk takes at most, 8192 in the code     *)

None == "none"

ASSUME QueueAssumption ==
  /\ Quota \in [Threads -> Nat] /\ None \notin Threads
  /\ BLOCK_SIZE \in Nat \ {0} /\ IndexSize \in Nat \ {0} /\ BulkLimit \in 1 .. BLOCK_SIZE

(* A producer has the name of the thread that created it. *)
Producers == Threads

VARIABLES
  producerListTail, (* the list of producers, the newest first              *)
  producerCount,
  tailIndex, headIndex, inactive, threadId,    (* of each producer          *)
  tailBlock, slotsUsed, indexFront,            (* private to its thread     *)
  blockIndex,       (* the headers each producer has published, newest last *)
  next, dequeued, elements, (* of each block, named 1, 2, ... as requisitioned *)
  pc, mine, candidate, (* of each thread: place, producer, one it looks at  *)
  cpc,              (* place of the consumer                                *)
  token,            (* its ConsumerToken: the current producer, or None     *)
  call,             (* its call of dequeue_bulk                             *)
  emitted,          (* history: events emitted by each thread               *)
  log,              (* history: the events committed to each producer       *)
  filled,           (* history: the blocks each producer took, in order     *)
  consumed,         (* history: how many of them were processed             *)
  passedOver        (* history: calls others were served in its stead       *)

indexVars  == <<tailIndex, headIndex>>
ownerVars  == <<inactive, threadId>>
ringVars   == <<tailBlock, slotsUsed, indexFront, blockIndex>>
listVars   == <<producerListTail, producerCount>>
blockVars  == <<next, dequeued, elements>>
threadVars == <<pc, mine, candidate>>
callVars   == <<cpc, token, call>>
history    == <<emitted, log, filled, consumed, passedOver>>
vars == <<indexVars, ownerVars, ringVars, listVars, blockVars, threadVars, callVars, history>>

(* next_prod, from which a walk goes on at the end of the list it has seen. *)
NextProd(p, tail) ==
  LET i == CHOOSE i \in DOMAIN producerListTail : producerListTail[i] = p
  IN  IF i = Len(producerListTail) THEN tail ELSE producerListTail[i + 1]

SizeApprox(p) == IF headIndex[p] < tailIndex[p] THEN tailIndex[p] - headIndex[p] ELSE 0

Header(p) == blockIndex[p][Len(blockIndex[p])]

(* Mutant: one item of the block may be left. *)
IsEmpty_AllButOne(b) == dequeued[b] >= BLOCK_SIZE - 1

(* All items of the block were dequeued. *)
IsEmpty(b) == dequeued[b] = BLOCK_SIZE

NoEntry == [base |-> 0, block |-> 0]

NoEvent == <<None, 0>>

EmptyHeader == [size |-> IndexSize, front |-> -1,
                entries |-> [i \in 0 .. IndexSize - 1 |-> NoEntry]]

NoCall == [asked |-> None, walkTail |-> None, count |-> 0, index |-> 0, end |-> 0,
           header |-> 0, front |-> 0, at |-> 0, ctx |-> None]

-----------------------------------------------------------------------------
Init ==
  /\ producerListTail = <<>> /\ producerCount = 0
  /\ tailIndex = [p \in Producers |-> 0] /\ headIndex = [p \in Producers |-> 0]
  /\ inactive = [p \in Producers |-> FALSE] /\ threadId = [p \in Producers |-> None]
  /\ tailBlock = [p \in Producers |-> 0] /\ slotsUsed = [p \in Producers |-> 0]
  /\ indexFront = [p \in Producers |-> 0]
  /\ blockIndex = [p \in Producers |-> <<EmptyHeader>>]
  /\ next = <<>> /\ dequeued = <<>> /\ elements = <<>>
  /\ pc = [t \in Threads |-> "unborn"]
  /\ mine = [t \in Threads |-> None] /\ candidate = [t \in Threads |-> None]
  /\ cpc = "idle" /\ token = None /\ call = NoCall
  /\ emitted = [t \in Threads |-> 0] /\ log = [p \in Producers |-> <<>>]
  /\ filled = [p \in Producers |-> <<>>]
  /\ consumed = [p \in Producers |-> 0] /\ passedOver = [p \in Producers |-> 0]

-----------------------------------------------------------------------------
(* The ProducerToken of a thread: recycle_or_create_producer.              *)
QueueUnchanged == UNCHANGED <<indexVars, ringVars, blockVars, callVars, history>>

LookAt(t, p) ==
  /\ candidate' = [candidate EXCEPT ![t] = p]
  /\ pc' = [pc EXCEPT ![t] = IF p = None THEN "create" ELSE "look"]

StartThread(t) ==
  /\ pc[t] = "unborn"
  /\ LookAt(t, IF producerListTail = <<>> THEN None ELSE Head(producerListTail))
  /\ UNCHANGED <<mine, ownerVars, listVars>> /\ QueueUnchanged

(* An inactive producer that looks empty is worth trying. *)
Look(t) ==
  /\ pc[t] = "look"
  /\ IF inactive[candidate[t]] /\ SizeApprox(candidate[t]) = 0
     THEN pc' = [pc EXCEPT ![t] = "take"] /\ UNCHANGED candidate
     ELSE LookAt(t, NextProd(candidate[t], None))
  /\ UNCHANGED <<mine, ownerVars, listVars>> /\ QueueUnchanged

(* The compare_exchange of `inactive`; another thread may have been first. *)
Take(t) ==
  /\ pc[t] = "take"
  /\ IF inactive[candidate[t]]
     THEN /\ inactive' = [inactive EXCEPT ![candidate[t]] = FALSE]
          /\ mine' = [mine EXCEPT ![t] = candidate[t]]
          /\ pc' = [pc EXCEPT ![t] = "token"] /\ UNCHANGED candidate
     ELSE LookAt(t, NextProd(candidate[t], None)) /\ UNCHANGED <<inactive, mine>>
  /\ UNCHANGED <<threadId, listVars>>
  /\ QueueUnchanged

(* add_producer counts the new producer before it is in the list. *)
CountProducer(t) ==
  /\ pc[t] = "create" /\ pc' = [pc EXCEPT ![t] = "add"]
  /\ producerCount' = producerCount + 1
  /\ UNCHANGED <<mine, candidate, producerListTail, ownerVars>> /\ QueueUnchanged

AddProducer(t) ==
  /\ pc[t] = "add" /\ pc' = [pc EXCEPT ![t] = "token"]
  /\ producerListTail' = <<t>> \o producerListTail
  /\ mine' = [mine EXCEPT ![t] = t]
  /\ UNCHANGED <<candidate, producerCount, ownerVars>> /\ QueueUnchanged

(* Mutant: a recycled producer keeps the name it had. *)
SetToken_NewOnly(t) ==
  /\ pc[t] = "token" /\ pc' = [pc EXCEPT ![t] = "idle"]
  /\ threadId' = IF threadId[mine[t]] = None THEN [threadId EXCEPT ![mine[t]] = t] ELSE threadId
  /\ UNCHANGED <<mine, candidate, inactive, listVars>> /\ QueueUnchanged

(* Only then does the constructor store whose producer it is. *)
SetToken(t) ==
  /\ pc[t] = "token" /\ pc' = [pc EXCEPT ![t] = "idle"]
  /\ threadId' = [threadId EXCEPT ![mine[t]] = t]
  /\ UNCHANGED <<mine, candidate, inactive, listVars>> /\ QueueUnchanged

(* The thread ends: ~ProducerToken. *)
ThreadExit(t) ==
  /\ pc[t] = "idle" /\ pc' = [pc EXCEPT ![t] = "gone"]
  /\ inactive' = [inactive EXCEPT ![mine[t]] = TRUE]
  /\ UNCHANGED <<mine, candidate, threadId, listVars>> /\ QueueUnchanged

-----------------------------------------------------------------------------
(* An event: TracyLfqPrepare, which begins with enqueue_begin, and         *)
(* TracyLfqCommit.                                                         *)
GoOn(t, place) ==
  /\ pc' = [pc EXCEPT ![t] = place]
  /\ UNCHANGED <<mine, candidate, ownerVars, listVars, callVars>>

EnqueueBegin(t) ==
  /\ pc[t] = "idle" /\ emitted[t] < Quota[t]
  /\ GoOn(t, IF tailIndex[mine[t]] % BLOCK_SIZE = 0 THEN "block" ELSE "write")
  /\ UNCHANGED <<indexVars, ringVars, blockVars, history>>

(* enqueue_begin_alloc: "We can re-use the block ahead of us, it's empty!" *)
ReuseBlock(t) ==
  LET p == mine[t] IN
  /\ pc[t] = "block"
  /\ tailBlock[p] # 0 /\ IsEmpty(next[tailBlock[p]])
  /\ tailBlock' = [tailBlock EXCEPT ![p] = next[@]]
  /\ dequeued' = [dequeued EXCEPT ![next[tailBlock[p]]] = 0]
  /\ filled' = [filled EXCEPT ![p] = Append(@, tailBlock'[p])]
  /\ GoOn(t, "entry")
  /\ UNCHANGED <<slotsUsed, indexFront, blockIndex, next, elements, indexVars,
                 emitted, log, consumed, passedOver>>

(* Mutant: the header is grown without unrolling the old entries. *)
NewBlockIndex_CopiesAsIs(p) ==
  LET old == Header(p) IN
  [size    |-> 2 * old.size,
   front   |-> slotsUsed[p] - 1,
   entries |-> [i \in 0 .. 2 * old.size - 1 |->
                  IF i < slotsUsed[p] THEN old.entries[i] ELSE NoEntry]]

(* new_block_index: the entries in use, the oldest first, and as many free. *)
NewBlockIndex(p) ==
  LET old == Header(p) IN
  [size    |-> 2 * old.size,
   front   |-> slotsUsed[p] - 1,
   entries |-> [i \in 0 .. 2 * old.size - 1 |->
                  IF i < slotsUsed[p]
                  THEN old.entries[(indexFront[p] - slotsUsed[p] + i) % old.size]
                  ELSE NoEntry]]

AheadInUse(p) == tailBlock[p] # 0 => ~ IsEmpty(next[tailBlock[p]])

(* Otherwise a block is requisitioned: the next of the initial pool or a   *)
(* new one (blocks come back to the free list only with the queue's end).  *)
RequisitionBlock(t) ==
  LET p     == mine[t]
      block == Len(next) + 1
  IN
  /\ pc[t] = "block"
  /\ AheadInUse(p)
  /\ IF slotsUsed[p] = Header(p).size
     THEN /\ blockIndex' = [blockIndex EXCEPT ![p] = Append(@, NewBlockIndex(p))]
          /\ indexFront' = [indexFront EXCEPT ![p] = slotsUsed[p]]
     ELSE UNCHANGED <<blockIndex, indexFront>>
  /\ IF tailBlock[p] = 0
     THEN next' = Append(next, block)
     ELSE next' = Append([next EXCEPT ![tailBlock[p]] = block], next[tailBlock[p]])
  /\ dequeued' = Append(dequeued, 0)
  /\ elements' = Append(elements, [i \in 0 .. BLOCK_SIZE - 1 |-> NoEvent])
  /\ tailBlock' = [tailBlock EXCEPT ![p] = block]
  /\ slotsUsed' = [slotsUsed EXCEPT ![p] = @ + 1]
  /\ filled' = [filled EXCEPT ![p] = Append(@, block)]
  /\ GoOn(t, "entry")
  /\ UNCHANGED <<indexVars, emitted, log, consumed, passedOver>>

(* "Add block to block index": first the entry, *)
WriteEntry(t) ==
  LET p == mine[t] IN
  /\ pc[t] = "entry"
  /\ blockIndex' = [blockIndex EXCEPT ![p][Len(blockIndex[p])].entries[indexFront[p]] =
                      [base |-> tailIndex[p], block |-> tailBlock[p]]]
  /\ GoOn(t, "front")
  /\ UNCHANGED <<tailBlock, slotsUsed, indexFront, indexVars, blockVars, history>>

(* then where it is. *)
PublishFront(t) ==
  LET p == mine[t] IN
  /\ pc[t] = "front"
  /\ blockIndex' = [blockIndex EXCEPT ![p][Len(blockIndex[p])].front = indexFront[p]]
  /\ indexFront' = [indexFront EXCEPT ![p] = (@ + 1) % Header(p).size]
  /\ GoOn(t, "write")
  /\ UNCHANGED <<tailBlock, slotsUsed, indexVars, blockVars, history>>

Event(t) == <<t, emitted[t] + 1>>

(* The item is filled in. *)
WriteItem(t) ==
  /\ pc[t] = "write"
  /\ elements' = [elements EXCEPT ![tailBlock[mine[t]]][tailIndex[mine[t]] % BLOCK_SIZE] =
                    Event(t)]
  /\ GoOn(t, "commit")
  /\ UNCHANGED <<indexVars, ringVars, next, dequeued, history>>

Commit(t) ==
  /\ pc[t] = "commit"
  /\ tailIndex' = [tailIndex EXCEPT ![mine[t]] = @ + 1]
  /\ log' = [log EXCEPT ![mine[t]] = Append(@, Event(t))]
  /\ emitted' = [emitted EXCEPT ![t] = @ + 1]
  /\ GoOn(t, "idle")
  /\ UNCHANGED <<headIndex, ringVars, blockVars, filled, consumed, passedOver>>

ProducerStep(t) ==
  \/ StartThread(t) \/ Look(t) \/ Take(t) \/ CountProducer(t) \/ AddProducer(t)
  \/ SetToken(t) \/ ThreadExit(t)
  \/ EnqueueBegin(t) \/ ReuseBlock(t) \/ RequisitionBlock(t) \/ WriteEntry(t)
  \/ PublishFront(t) \/ WriteItem(t) \/ Commit(t)

-----------------------------------------------------------------------------
(* The consumer: try_dequeue_bulk_single and dequeue_bulk.                 *)
ConsumerOnly == UNCHANGED <<indexVars, ownerVars, ringVars, listVars, threadVars, log, filled, emitted>>

(* The producer to begin with: update_current_producer_after_rotation with *)
(* the offset of the first token and one rotation to make up for.          *)
FirstProducer ==
  producerListTail[1 + ((producerCount - 1 + (1 % producerCount)) % Len(producerListTail))]

TryDequeue ==
  /\ cpc = "idle" /\ producerListTail # <<>>
  /\ cpc' = "ask"
  /\ token' = IF token = None THEN FirstProducer ELSE token
  /\ call' = [NoCall EXCEPT !.asked = token', !.walkTail = None]
  /\ UNCHANGED <<consumed, passedOver, blockVars>> /\ ConsumerOnly

(* Mutant: an empty current producer ends the search. *)
NothingThere_GivesUp ==
  /\ cpc = "ask" /\ tailIndex[call.asked] = headIndex[call.asked]
  /\ cpc' = "idle" /\ call' = NoCall
  /\ UNCHANGED <<token, consumed, passedOver, blockVars>> /\ ConsumerOnly

(* dequeue_bulk returns 0: the next one is asked, until all have been.     *)
NothingThere ==
  LET tail == IF call.asked = token THEN Head(producerListTail) ELSE call.walkTail
      ptr  == NextProd(call.asked, tail)
  IN
  /\ cpc = "ask" /\ tailIndex[call.asked] = headIndex[call.asked]
  /\ IF ptr = token
     THEN cpc' = "idle" /\ call' = NoCall
     ELSE cpc' = "ask" /\ call' = [call EXCEPT !.asked = ptr, !.walkTail = tail]
  /\ UNCHANGED <<token, consumed, passedOver, blockVars>> /\ ConsumerOnly

(* desiredCount, which the second reading of tailIndex confirms since      *)
(* nobody else dequeues.                                                   *)
Reserve ==
  LET available == tailIndex[call.asked] - headIndex[call.asked] IN
  /\ cpc = "ask" /\ available > 0
  /\ cpc' = "claim"
  /\ call' = [call EXCEPT !.count = IF available < BulkLimit THEN available ELSE BulkLimit]
  /\ UNCHANGED <<token, consumed, passedOver, blockVars>> /\ ConsumerOnly

Claim ==
  LET p == call.asked IN
  /\ cpc = "claim" /\ cpc' = "index"
  /\ headIndex' = [headIndex EXCEPT ![p] = @ + call.count]
  /\ call' = [call EXCEPT !.index = headIndex[p], !.end = headIndex[p] + call.count]
  /\ passedOver' = [q \in Producers |->
                      IF q = p \/ headIndex[q] = tailIndex[q] THEN 0 ELSE passedOver[q] + 1]
  /\ UNCHANGED <<token, consumed, tailIndex, blockVars, ownerVars, ringVars, listVars,
                 threadVars, log, filled, emitted>>

LoadIndex ==
  /\ cpc = "index" /\ cpc' = "locate"
  /\ call' = [call EXCEPT !.header = Len(blockIndex[call.asked]),
                          !.front  = Header(call.asked).front]
  /\ UNCHANGED <<token, consumed, passedOver, blockVars>> /\ ConsumerOnly

Loaded == blockIndex[call.asked][call.header]

(* indexIndex: the slot of the first block, which lies behind the front.   *)
FirstSlot ==
  LET base == (call.index \div BLOCK_SIZE) * BLOCK_SIZE
  IN  (call.front + (base - Loaded.entries[call.front].base) \div BLOCK_SIZE) % Loaded.size

(* notifyThread is given the name the producer has now. *)
Notify ==
  /\ cpc = "locate" /\ cpc' = "process"
  /\ call' = [call EXCEPT !.at = FirstSlot, !.ctx = threadId[call.asked]]
  /\ UNCHANGED <<token, consumed, passedOver, blockVars>> /\ ConsumerOnly

(* The items of one block: from index to the end of the block or the bulk. *)
ChunkEnd ==
  LET blockEnd == (call.index \div BLOCK_SIZE) * BLOCK_SIZE + BLOCK_SIZE
  IN  IF call.end < blockEnd THEN call.end ELSE blockEnd

Block == Loaded.entries[call.at].block

Chunk == [i \in 1 .. ChunkEnd - call.index |->
            elements[Block][(call.index + i - 1) % BLOCK_SIZE]]

ProcessData ==
  /\ cpc = "process" /\ cpc' = "empty"
  /\ consumed' = [consumed EXCEPT ![call.asked] = @ + Len(Chunk)]
  /\ UNCHANGED <<token, call, passedOver, blockVars>> /\ ConsumerOnly

(* Mutant: whoever was served is asked first again. *)
Served_Stays == token

(* The current producer after a bulk: the next one, or the one found by    *)
(* the search.                                                             *)
Served ==
  IF call.asked = token
  THEN NextProd(call.asked, Head(producerListTail))
  ELSE call.asked

SetManyEmpty ==
  /\ cpc = "empty"
  /\ dequeued' = [dequeued EXCEPT ![Block] = @ + ChunkEnd - call.index]
  /\ IF ChunkEnd < call.end
     THEN /\ cpc' = "process" /\ UNCHANGED token
          /\ call' = [call EXCEPT !.index = ChunkEnd, !.at = (@ + 1) % Loaded.size]
     ELSE cpc' = "idle" /\ token' = Served /\ call' = NoCall
  /\ UNCHANGED <<consumed, passedOver, next, elements>> /\ ConsumerOnly

ConsumerStep ==
  \/ TryDequeue \/ NothingThere \/ Reserve \/ Claim \/ LoadIndex \/ Notify
  \/ ProcessData \/ SetManyEmpty

Next == ConsumerStep \/ \E t \in Threads : ProducerStep(t)

Spec == Init /\ [][Next]_vars

(* The worker keeps asking; threads owe nothing. *)
FairSpec == Spec /\ WF_vars(ConsumerStep)

-----------------------------------------------------------------------------
(* First in, first out, each once: whatever the producer does meanwhile to *)
(* its blocks and its index, the consumer finds the events next in turn.   *)
EventsInOrder ==
  [][cpc = "process" =>
       /\ call.index = consumed[call.asked]
       /\ Chunk = SubSeq(log[call.asked], call.index + 1, ChunkEnd)]_vars

(* A block is filled anew only when all of its items were processed: what  *)
(* is committed and not yet processed is still in some block of the queue. *)
NothingOverwritten ==
  \A p \in Producers : \A i \in consumed[p] + 1 .. tailIndex[p] :
    \E b \in DOMAIN elements : elements[b][(i - 1) % BLOCK_SIZE] = log[p][i]

(* Thread u took producer p over after its first n events were committed.  *)
Heir(u, p, n) == u \in Threads /\ mine[u] = p /\ \A j \in 1 .. n : log[p][j][1] # u

(* Events are reported under the name of the thread that emitted them.     *)
(* Once it has ended its last events may bear the name of a thread that    *)
(* recycled its producer since, which stores its own name while they wait  *)
(* (see Notify): such an heir's only, never no name, nor that of a thread  *)
(* that had the producer before, nor that of one with another producer.    *)
EventsKeepTheirThread ==
  [][cpc = "process" =>
       \A i \in DOMAIN Chunk :
         LET t == Chunk[i][1] IN
         \/ call.ctx = t
         \/ pc[t] = "gone" /\ Heir(call.ctx, call.asked, call.index + i)]_vars

(* No producer starves: others are served a limited number of times while  *)
(* it has events, however busy they are.                                   *)
NobodyStarves ==
  \A p \in Producers : passedOver[p] <= Len(producerListTail)

(* What is committed gets processed: as threads emit limited numbers,       *)
(* the worker keeps coming to where nothing is left, with every producer.  *)
EventsArrive == \A p \in Producers : []<>(consumed[p] = tailIndex[p])

=============================================================================
