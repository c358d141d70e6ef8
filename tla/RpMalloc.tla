------------------------------ MODULE RpMalloc ------------------------------
(***************************************************************************)
(* The allocator of the Tracy client (client/tracy_rpmalloc.cpp): threads  *)
(* allocate the payloads of their events and the worker frees them.  Each  *)
(* thread has a heap of its own, which it uses without a lock; blocks that *)
(* others free come back through a list of the span they are in, and spans *)
(* that come back whole through a list of the heap.                        *)
(*                                                                         *)
(* One size class is modelled.  Free lists are sets, which give any one of *)
(* their blocks: those that are linked are alike.  An action is the code   *)
(* up to the next access to what several threads share; atomic accesses    *)
(* are taken in the order of the source.  A thread that ends does not give *)
(* up its heap (only TRACY_MANUAL_LIFETIME does), and its id, the address  *)
(* of its control block, may come to be that of a later thread.            *)
(***************************************************************************)
EXTENDS Integers, Sequences, FiniteSets

CONSTANTS
  Threads,
  thread_id,     (* get_thread_id of each                                   *)
  Allocators,    (* bound of the model: the threads that allocate           *)
  block_count,   (* blocks of a span                                        *)
  PageBlocks,    (* those of a page, which are linked up at a time          *)
  MaxSpans       (* bound of the model: spans that can be mapped            *)

ASSUME RpMallocAssumption ==
  /\ DOMAIN thread_id = Threads /\ Allocators \subseteq Threads
  /\ block_count \in Nat \ {0, 1} /\ PageBlocks \in Nat \ {0, 1} /\ MaxSpans \in Nat

None == 0

Spans  == 1 .. MaxSpans
Blocks == Spans \X (1 .. block_count)

VARIABLES
  phase,               (* of each thread: "new", "live" or "gone"           *)
  pc, arg,             (* place in a call, and the block it is about        *)
  used,                (* history: blocks the program has                   *)
  mapped,              (* how many spans were mapped                        *)
  heap,                (* of each span; heaps have their thread's name      *)
  free_list, free_list_limit, used_count,            (* its owner's fields  *)
  deferred, locked, list_size, (* free_list_deferred, who has put INVALID_POINTER there *)
  link,                (* free_list when it links span_free_deferred        *)
  class_free,          (* of each heap: size_class.free_list                *)
  partial,             (* size_class.partial_span                           *)
  cache,               (* size_class.cache and span_cache                   *)
  full_span_count,
  span_free_deferred   (* the first span of the list, or None               *)

threadVars == <<phase, pc, arg, used>>
localVars  == <<mapped, heap, free_list_limit, class_free, partial, cache, full_span_count>>
ownerVars  == <<free_list, used_count>>
sharedVars == <<deferred, locked, list_size>>
spanList   == <<link, span_free_deferred>>
vars == <<threadVars, localVars, ownerVars, sharedVars, spanList>>

Span(b)  == b[1]
NoBlock  == <<0, 0>>

Init ==
  /\ phase = [t \in Threads |-> "new"]
  /\ pc = [t \in Threads |-> "idle"] /\ arg = [t \in Threads |-> NoBlock]
  /\ used = {} /\ mapped = 0
  /\ heap = [s \in Spans |-> None]
  /\ free_list = [s \in Spans |-> {}] /\ free_list_limit = [s \in Spans |-> 0]
  /\ used_count = [s \in Spans |-> 0]
  /\ deferred = [s \in Spans |-> {}] /\ locked = [s \in Spans |-> FALSE]
  /\ list_size = [s \in Spans |-> 0] /\ link = [s \in Spans |-> None]
  /\ class_free = [t \in Threads |-> {}] /\ partial = [t \in Threads |-> <<>>]
  /\ cache = [t \in Threads |-> {}] /\ full_span_count = [t \in Threads |-> 0]
  /\ span_free_deferred = [t \in Threads |-> None]

-----------------------------------------------------------------------------
(* Threads.  One that starts gets a new heap.                              *)
Start(t) ==
  /\ phase[t] = "new"
  /\ \A u \in Threads : phase[u] = "live" => thread_id[u] # thread_id[t]
  /\ phase' = [phase EXCEPT ![t] = "live"]
  /\ UNCHANGED <<pc, arg, used, localVars, ownerVars, sharedVars, spanList>>

Exit(t) ==
  /\ phase[t] = "live" /\ pc[t] = "idle"
  /\ phase' = [phase EXCEPT ![t] = "gone"]
  /\ UNCHANGED <<pc, arg, used, localVars, ownerVars, sharedVars, spanList>>

Idle(t) == phase[t] = "live" /\ pc[t] = "idle"

GoTo(t, place, block) ==
  pc' = [pc EXCEPT ![t] = place] /\ arg' = [arg EXCEPT ![t] = block] /\ UNCHANGED phase

Return(t) == GoTo(t, "idle", NoBlock)

(* _rpmalloc_span_double_link_list_remove *)
Without(list, s) ==
  LET k == CHOOSE i \in DOMAIN list : list[i] = s
  IN  [i \in 1 .. Len(list) - 1 |-> IF i < k THEN list[i] ELSE list[i + 1]]

-----------------------------------------------------------------------------
Asked(t) == Idle(t) /\ t \in Allocators

AnyOf(list) == CHOOSE b \in list : TRUE

(* rpmalloc: a block of the class's free list if it has one.               *)
PopBlock(t) ==
  /\ Asked(t) /\ class_free[t] # {}
  /\ LET b == AnyOf(class_free[t]) IN
       /\ class_free' = [class_free EXCEPT ![t] = @ \ {b}]
       /\ used' = used \cup {b}
  /\ UNCHANGED <<phase, pc, arg, mapped, heap, free_list_limit, partial, cache, full_span_count,
                 ownerVars, sharedVars, spanList>>

(* free_list_partial_init: the blocks from a page's start to its end.      *)
NextPage(limit) ==
  limit + 1 .. IF limit + PageBlocks < block_count THEN limit + PageBlocks ELSE block_count

Last(page) == CHOOSE i \in page : \A j \in page : j <= i

(* _rpmalloc_allocate_from_heap_fallback: the first partial span gives its *)
(* free blocks to the class, or links up another page of them.             *)
UsePartial(t) ==
  LET s == Head(partial[t]) IN
  /\ Asked(t) /\ class_free[t] = {} /\ partial[t] # <<>>
  /\ IF free_list[s] # {}
     THEN LET i == AnyOf(free_list[s]) IN
            /\ class_free' = [class_free EXCEPT ![t] = {s} \X (free_list[s] \ {i})]
            /\ free_list' = [free_list EXCEPT ![s] = {}]
            /\ GoTo(t, "look", <<s, i>>)
            /\ UNCHANGED free_list_limit
     ELSE LET page == NextPage(free_list_limit[s])
              i    == free_list_limit[s] + 1
          IN  /\ class_free' = [class_free EXCEPT ![t] = {s} \X (page \ {i})]
              /\ free_list_limit' = [free_list_limit EXCEPT ![s] = Last(page)]
              /\ GoTo(t, "look", <<s, i>>)
              /\ UNCHANGED free_list
  /\ used_count' = [used_count EXCEPT ![s] = free_list_limit'[s]]
  /\ UNCHANGED <<used, mapped, heap, partial, cache, full_span_count, sharedVars, spanList>>

IsFull(list, s) == list = {} /\ free_list_limit[s] >= block_count

(* The block is returned; a span without another leaves the partial list.  *)
PlaceSpan(t, list) ==
  /\ IF IsFull(list, Span(arg[t]))
     THEN /\ partial' = [partial EXCEPT ![t] = Tail(@)]
          /\ full_span_count' = [full_span_count EXCEPT ![t] = @ + 1]
     ELSE UNCHANGED <<partial, full_span_count>>
  /\ used' = used \cup {arg[t]} /\ Return(t)
  /\ UNCHANGED <<mapped, heap, free_list_limit, class_free, cache>>

(* "Swap in deferred free list if present" *)
LookDeferred(t) ==
  LET s == Span(arg[t]) IN
  /\ pc[t] = "look"
  /\ IF deferred[s] = {} /\ ~ locked[s]
     THEN PlaceSpan(t, free_list[s])
     ELSE GoTo(t, "extract", arg[t]) /\ UNCHANGED <<used, localVars>>
  /\ UNCHANGED <<ownerVars, sharedVars, spanList>>

(* The exchange with INVALID_POINTER, until it is not already there.       *)
LockDeferred(t, s) == ~ locked[s] /\ locked' = [locked EXCEPT ![s] = TRUE]

Extract(t) ==
  /\ pc[t] = "extract" /\ LockDeferred(t, Span(arg[t]))
  /\ GoTo(t, "swap", arg[t])
  /\ UNCHANGED <<used, localVars, ownerVars, deferred, list_size, spanList>>

Swap(t) ==
  LET s == Span(arg[t]) IN
  /\ pc[t] = "swap"
  /\ free_list' = [free_list EXCEPT ![s] = deferred[s]]
  /\ used_count' = [used_count EXCEPT ![s] = @ - list_size[s]]
  /\ list_size' = [list_size EXCEPT ![s] = 0]
  /\ deferred' = [deferred EXCEPT ![s] = {}] /\ locked' = [locked EXCEPT ![s] = FALSE]
  /\ PlaceSpan(t, deferred[s])
  /\ UNCHANGED spanList

(* The spans of a span_free_deferred list: the first and those linked to.  *)
Follows(X, h) ==
  /\ span_free_deferred[h] \in X \cup {None}
  /\ \A s \in X : link[s] \in X \cup {None}

Queued(h) == {s \in Spans : \A X \in SUBSET Spans : Follows(X, h) => s \in X}

(* _rpmalloc_span_initialize_new: a span starts with its first page and    *)
(* gives its first block.                                                  *)
InitializeNew(t, s, count) ==
  LET page == NextPage(0) IN
  /\ heap' = [heap EXCEPT ![s] = t]
  /\ free_list' = [free_list EXCEPT ![s] = {}] /\ list_size' = [list_size EXCEPT ![s] = 0]
  /\ deferred' = [deferred EXCEPT ![s] = {}] /\ locked' = [locked EXCEPT ![s] = FALSE]
  /\ free_list_limit' = [free_list_limit EXCEPT ![s] = Last(page)]
  /\ used_count' = [used_count EXCEPT ![s] = Last(page)]
  /\ class_free' = [class_free EXCEPT ![t] = {s} \X (page \ {1})]
  /\ used' = used \cup {<<s, 1>>}
  /\ IF Last(page) < block_count
     THEN partial' = [partial EXCEPT ![t] = <<s>> \o @] /\ full_span_count' = [full_span_count EXCEPT ![t] = count]
     ELSE full_span_count' = [full_span_count EXCEPT ![t] = count + 1] /\ UNCHANGED partial
  /\ UNCHANGED <<phase, pc, arg, link>>

NeedsSpan(t) == Asked(t) /\ class_free[t] = {} /\ partial[t] = <<>>

(* _rpmalloc_heap_extract_new_span: a span of the heap's caches, *)
FromCache(t) ==
  /\ NeedsSpan(t)
  /\ \E s \in cache[t] :
       /\ cache' = [cache EXCEPT ![t] = @ \ {s}]
       /\ InitializeNew(t, s, full_span_count[t])
  /\ UNCHANGED <<mapped, span_free_deferred>>

(* Mutant: only the span that is used again is counted. *)
FromDeferred_CountsOne(t) ==
  /\ NeedsSpan(t) /\ cache[t] = {} /\ span_free_deferred[t] # None
  /\ cache' = [cache EXCEPT ![t] = Queued(t) \ {span_free_deferred[t]}]
  /\ InitializeNew(t, span_free_deferred[t], full_span_count[t] - 1)
  /\ span_free_deferred' = [span_free_deferred EXCEPT ![t] = None]
  /\ UNCHANGED mapped

(* one of those that came back whole, the others going to the cache, *)
FromDeferred(t) ==
  /\ NeedsSpan(t) /\ cache[t] = {} /\ span_free_deferred[t] # None
  /\ cache' = [cache EXCEPT ![t] = Queued(t) \ {span_free_deferred[t]}]
  /\ InitializeNew(t, span_free_deferred[t], full_span_count[t] - Cardinality(Queued(t)))
  /\ span_free_deferred' = [span_free_deferred EXCEPT ![t] = None]
  /\ UNCHANGED mapped

(* or a new one.  (Caches do not reach the 400 spans they are limited to.) *)
MapSpan(t) ==
  /\ NeedsSpan(t) /\ cache[t] = {} /\ span_free_deferred[t] = None
  /\ mapped < MaxSpans /\ mapped' = mapped + 1
  /\ InitializeNew(t, mapped + 1, full_span_count[t])
  /\ UNCHANGED <<cache, span_free_deferred>>

-----------------------------------------------------------------------------
(* rpfree.  A block of another thread's heap is deferred.                  *)
IsOwner(t, s) == thread_id[heap[s]] = thread_id[t]

(* _rpmalloc_span_release_to_cache *)
ReleaseSpan(h, s, list) ==
  /\ partial' = [partial EXCEPT ![h] = Without(list, s)]
  /\ cache' = [cache EXCEPT ![h] = @ \cup {s}]

(* _rpmalloc_deallocate_direct_small_or_medium: the block goes to its      *)
(* span's list; when all that are out are in the deferred list the span is *)
(* released.                                                               *)
FreeDirect(t, b) ==
  LET s == Span(b)
      h == heap[s]
      wasFull == IsFull(free_list[s], s)
      list    == IF wasFull THEN <<s>> \o partial[h] ELSE partial[h]
      count   == (IF wasFull THEN block_count ELSE used_count[s]) - 1
  IN
  /\ Idle(t) /\ b \in used /\ IsOwner(t, s)
  /\ used' = used \ {b}
  /\ used_count' = [used_count EXCEPT ![s] = count]
  /\ free_list' = [free_list EXCEPT ![s] = @ \cup {b[2]}]
  /\ full_span_count' = [full_span_count EXCEPT ![h] = IF wasFull THEN @ - 1 ELSE @]
  /\ IF count = list_size[s] /\ count = 0
     THEN ReleaseSpan(h, s, list) /\ UNCHANGED <<phase, pc, arg>>
     ELSE /\ partial' = [partial EXCEPT ![h] = list] /\ UNCHANGED cache
          /\ IF count = list_size[s] THEN GoTo(t, "sync", b) ELSE UNCHANGED <<phase, pc, arg>>
  /\ UNCHANGED <<mapped, heap, free_list_limit, class_free, sharedVars, spanList>>

(* Mutant: the thread that is just storing the list is not waited for. *)
Synchronize_NoWait(t) ==
  LET s == Span(arg[t]) IN
  /\ pc[t] = "sync"
  /\ ReleaseSpan(heap[s], s, partial[heap[s]]) /\ Return(t)
  /\ UNCHANGED <<used, mapped, heap, free_list_limit, class_free, full_span_count,
                 ownerVars, sharedVars, spanList>>

(* The exchange waits for a thread that has counted its block and not yet  *)
(* stored it.                                                              *)
Synchronize(t) ==
  LET s == Span(arg[t]) IN
  /\ pc[t] = "sync" /\ ~ locked[s]
  /\ ReleaseSpan(heap[s], s, partial[heap[s]]) /\ Return(t)
  /\ UNCHANGED <<used, mapped, heap, free_list_limit, class_free, full_span_count,
                 ownerVars, sharedVars, spanList>>

(* _rpmalloc_deallocate_defer_small_or_medium *)
FreeDeferred(t, b) ==
  /\ Idle(t) /\ b \in used /\ ~ IsOwner(t, Span(b))
  /\ LockDeferred(t, Span(b))
  /\ used' = used \ {b} /\ GoTo(t, "count", b)
  /\ UNCHANGED <<localVars, ownerVars, deferred, list_size, spanList>>

Count(t) ==
  /\ pc[t] = "count"
  /\ list_size' = [list_size EXCEPT ![Span(arg[t])] = @ + 1]
  /\ GoTo(t, IF list_size'[Span(arg[t])] = block_count THEN "storeLast" ELSE "store", arg[t])
  /\ UNCHANGED <<used, localVars, ownerVars, deferred, locked, spanList>>

(* The block is first in the list; the last one sends the span back.       *)
Store(t) ==
  LET s == Span(arg[t]) IN
  /\ pc[t] \in {"store", "storeLast"}
  /\ deferred' = [deferred EXCEPT ![s] = @ \cup {arg[t][2]}]
  /\ locked' = [locked EXCEPT ![s] = FALSE]
  /\ IF pc[t] = "storeLast" THEN GoTo(t, "push", arg[t]) ELSE Return(t)
  /\ UNCHANGED <<used, localVars, ownerVars, list_size, spanList>>

(* _rpmalloc_deallocate_defer_free_span: "This list does not need ABA      *)
(* protection, no mutable side state"                                      *)
LoadFirst(t) ==
  LET s == Span(arg[t]) IN
  /\ pc[t] = "push"
  /\ link' = [link EXCEPT ![s] = span_free_deferred[heap[s]]]
  /\ GoTo(t, "cas", arg[t])
  /\ UNCHANGED <<used, localVars, ownerVars, sharedVars, span_free_deferred>>

(* Mutant: a store instead of the compare and exchange. *)
PushSpan_Stores(t) ==
  LET s == Span(arg[t]) IN
  /\ pc[t] = "cas"
  /\ span_free_deferred' = [span_free_deferred EXCEPT ![heap[s]] = s] /\ Return(t)
  /\ UNCHANGED <<used, localVars, ownerVars, sharedVars, link>>

PushSpan(t) ==
  LET s == Span(arg[t]) IN
  /\ pc[t] = "cas"
  /\ IF span_free_deferred[heap[s]] = link[s]
     THEN span_free_deferred' = [span_free_deferred EXCEPT ![heap[s]] = s] /\ Return(t)
     ELSE GoTo(t, "push", arg[t]) /\ UNCHANGED span_free_deferred
  /\ UNCHANGED <<used, localVars, ownerVars, sharedVars, link>>

-----------------------------------------------------------------------------
Alloc(t) ==
  \/ PopBlock(t) \/ UsePartial(t) \/ LookDeferred(t) \/ Extract(t) \/ Swap(t)
  \/ FromCache(t) \/ FromDeferred(t) \/ MapSpan(t)

Free(t) ==
  \/ \E b \in used : FreeDirect(t, b) \/ FreeDeferred(t, b)
  \/ Synchronize(t) \/ Count(t) \/ Store(t) \/ LoadFirst(t) \/ PushSpan(t)

Over == (\A t \in Threads : phase[t] = "gone") /\ UNCHANGED vars

Next == (\E t \in Threads : Start(t) \/ Exit(t) \/ Alloc(t) \/ Free(t)) \/ Over

Spec == Init /\ [][Next]_vars

-----------------------------------------------------------------------------
(* Where spans are: those of no list are full, or just sent back.          *)
Mapped == 1 .. mapped

Listed(h) == {partial[h][i] : i \in DOMAIN partial[h]}
Sending   == {Span(arg[t]) : t \in {u \in Threads : pc[u] \in {"push", "cas"}}}
Retired   == Sending \cup UNION {cache[h] \cup Queued(h) : h \in Threads}

(* Calls that hold a block which is in no list.                            *)
InFlight == {arg[t] : t \in {u \in Threads : pc[u] \in {"look", "extract", "swap",
                                                       "count", "store", "storeLast"}}}

(* No block is lost and none is given to two, whoever frees it and in      *)
(* whichever order the lists are taken and put back: each block of a span  *)
(* in use is in the program's hands, in one free list, or not yet linked.  *)
BlocksInOnePlace ==
  \A s \in Mapped : \A i \in 1 .. block_count :
    LET b == <<s, i>>
        places == {p \in {"used", "class", "span", "deferred", "flight", "unlinked"} :
                     \/ p = "used"     /\ b \in used
                     \/ p = "class"    /\ b \in class_free[heap[s]]
                     \/ p = "span"     /\ i \in free_list[s]
                     \/ p = "deferred" /\ i \in deferred[s]
                     \/ p = "flight"   /\ b \in InFlight
                     \/ p = "unlinked" /\ i > free_list_limit[s]}
    IN  IF s \in Retired THEN places \cap {"used", "class", "flight"} = {}
                         ELSE Cardinality(places) = 1

(* A span is in one list of its heap, once, following a list comes to an   *)
(* end, and the heap knows how many spans are not in its hands.            *)
SpansInOnePlace ==
  \A h \in Threads :
    /\ Cardinality(Listed(h)) = Len(partial[h])
    /\ \A X \in SUBSET Queued(h) : X # {} => \E s \in X : link[s] \notin X
    /\ Listed(h) \cap cache[h] = {} /\ Queued(h) \cap (Listed(h) \cup cache[h]) = {}
    /\ full_span_count[h] =
         Cardinality({s \in Mapped : heap[s] = h} \ (Listed(h) \cup cache[h]))

(* Memory comes back: when no call is under way, a span of which nothing   *)
(* is used is where its owner finds it, although its blocks were freed by  *)
(* several threads of which each may have been the last.                   *)
NothingStranded ==
  (\A t \in Threads : pc[t] = "idle") =>
    \A s \in Mapped :
      \/ s \in Retired \/ s \in Listed(heap[s])
      \/ \E b \in used \cup class_free[heap[s]] : Span(b) = s

=============================================================================
