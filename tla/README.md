# Formal models of *angry*

*angry* is an Angry Birds clone: one window, a Box2D world, birds and blocks
launched with the mouse. Its own code is the thirteen Zig files under `src/`
(1339 lines) and `build.zig`. The rest of the tree is `libs/ztracy`, the Tracy
profiler client that is compiled into the game: some 42 000 lines of C++, of
which the runtime (queue, session, allocator, send buffer, compressor) is a
concurrent program in the game's process. This directory holds TLA+ models of
the parts of both that keep state, the TLC configurations that check them, and
proofs checked by TLAPS.

File names below are relative to the repository (`src/hot_main.zig` etc.);
those of Tracy are relative to `libs/ztracy/libs/tracy`.

## The system

The game:

| component | state | operations | talks to |
|---|---|---|---|
| **hot reload** (`hot_main.zig`, `Watcher.zig`, `hot_game.zig`) | the global `gameTick` pointer, `loaded_lib`, `inited`, `mutex`, inotify watches, the number of the next library | compile, open, publish and close a library; watch and listen; call a frame; restart | two threads, the compiler (a child process), whoever edits the sources |
| **game loop** (`game.zig`, `main.zig`) | drag start, pause, objects, physics world, left-over time | one `gameTick` per frame; init and deinit | raylib's sampled input, Box2D, the sprite sheet |
| **physics clock** (`updatePhysics`) | `left_over_time` (f32) | spend the time of a frame in steps of 1 ms | Box2D |
| **sprite sheet** (`aseprite/SpriteSheet.zig`) | hash map from names to rectangles, its keys, the texture | load, look up, deinit | allocator, file system, JSON parser |
| **objects** (`Object.zig`) | body, name, size, draw mode | create a circle or a thick line, draw | Box2D, sprite sheet |
| **level files** (`Level.zig`) | a file with a list of shapes | save, read | file system; nothing calls it yet |
| bindings and drawing (`box2d.zig`, `debug_draw.zig`, `utils.zig`, `math.zig`) | none | forwarding, conversions, output | C libraries |
| `Block.zig` | | dead code, does not compile | |

The profiler client:

| component | state | operations | talks to |
|---|---|---|---|
| **event queue** (`client/tracy_concurrentqueue.h`) | a list of producers, each with blocks, a circular block index, head and tail | emit from any thread; recycle a producer; dequeue in bulk by one worker | every instrumented thread, the worker |
| **send buffer** (`client/TracyProfiler.*`) | three frames' room, start and offset, LZ4's stream state | append, commit, wind back, terminate | the worker, the compressor, the socket |
| **compression** (`common/tracy_lz4.*`) | hash table, dictionary, positions; at the server the prefix and the external dictionary | compress and decompress a frame that refers to earlier ones | the send buffer, the server |
| **session** (`Profiler::Worker`) | `m_sock`, `m_isConnected`, queues, `m_shutdown`, `m_shutdownFinished` | accept, handshake, send, answer queries, turn servers away, shut down | the server, the symbol thread, the destructor |
| **allocator** (`client/tracy_rpmalloc.cpp`) | heaps, spans, free lists, deferred lists, caches | allocate, free from the same or another thread | every instrumented thread, the worker |
| zones and locks (`TracyScoped.hpp`, `TracyLock.hpp`) | what a macro puts in a queue | emit | the event queue |
| call stacks (`libbacktrace`), system tracing, DXT1, `ztracy.zig` | tables of debug information; the kernel's rings; none | parse, read, convert, forward | |

The game calls Tracy's macros from its frames; each puts an item in the event
queue. The worker takes items out, appends them to the send buffer, which
compresses full frames and writes them to the socket; payloads are allocated by
the threads and freed by the worker.

What is hard in it:

* *Hot reload.* Two threads share a plain global that is stored **without** the
  mutex (`hot_main.zig:60`) while frames run under it; the old library is
  closed under the mutex (`:62-64`); the handle is replaced after the unlock
  (`:68`). `zig build` runs for seconds while files are being edited, `read`
  takes several events at once, the compiler may fail or be killed, and
  `std.Thread.Mutex` does not queue its waiters.
* *Input.* raylib samples the input once per frame; `gameInput` and
  `mouse_shift` see it only in frames that play. Two mouse buttons share one
  drag, with conditions in which `and` binds tighter than `or`
  (`game.zig:97,100`). The space bar acts at the beginning of a frame, the
  Pause button at its end.
* *Time.* `updatePhysics` spends frame times of any length in fixed steps with
  f32 arithmetic and carries a rest over.
* *Failure.* Each statement of the loader may fail, and has to give back what
  those before it took. Saving a level truncates the file before it writes.
* *Queues without locks.* A producer writes a block, a tail and a block index
  that the worker reads at the same time; a thread that ends leaves its producer
  to the next one while the worker may be in the middle of it.
* *Memory that comes home.* A block is freed by a thread that does not own its
  span, while the owner takes blocks from it, or releases it.
* *History by reference.* The compressor keeps no copy of what it refers to: the
  buffer it refers into is written again, its hash table holds positions that
  are no longer in it, and positions are renumbered on the way.
* *The end of a session.* The server may stall, disconnect, ask or be gone while
  the program is destroyed; three threads have to find out in the right order.

What makes each component correct: hot reload calls only mapped code, closes
only code that neither runs nor will, forgets no edit and gets new code to run;
a drag belongs to a press and launches one object; simulated time is the time
played; a loaded sheet is the file, and no way out of the loader leaks or frees
twice; a torn level is not read, and a saved one is (the level that was there
before is lost from the truncation on, which the code does not prevent). Tracy's
events arrive in order, from every thread, under the name of the thread that
emitted them or, if that thread has ended, possibly of one that took over its
producer; the server reads the bytes
that were sent; no socket is used after it was destroyed, and what was emitted
before the exit is delivered unless the server leaves; a block is in one place,
and a span nobody uses is found again.

## Modules

| module | models | checked by |
|---|---|---|
| `CodeSwap` | what hot reloading promises, without threads: open, publish, call, return, retire | refined by `HotReload` |
| `HotReload` | `hot_main.zig`, `Watcher.zig` | `MCHotReload`, `HotReloadProofs` |
| `Game` | `gameTick`, `gameInput`, `mouse_shift`, `generalInput`, `updatePhysics`, `createLevel`, `Game.init`/`deinit`, `main.zig`'s loop | `MCGame`, `GameProofs` |
| `FrameClock` | `updatePhysics` with rounding, on a machine that takes time | `MCFrameClock`, `FrameClockProofs` |
| `SpriteSheet` | `loadSlice`, `loadSpriteSheet`, `deinit` | `MCSpriteSheet`, `SpriteSheetProofs` |
| `LevelFile` | `save_to_file`, `read_from_file` | `MCLevelFile`, `GameProofs` |
| `EventQueue` | producers, consumer and recycling of `tracy_concurrentqueue.h` | `MCEventQueue`, `EventQueueProofs` |
| `SendBuffer` | the send buffer and where LZ4's history is | `SendBufferProofs`, and as part of `FrameCodec` |
| `FrameCodec` | `SendBuffer` composed with the compressor and the server's decompressor | `MCFrameCodec` |
| `ServerSession` | `Profiler::Worker`, `SymbolWorker`, the destructor | `MCServerSession`, `ServerSessionProofs` |
| `RpMalloc` | one size class of the allocator | `MCRpMalloc`, `RpMallocProofs` |

Definitions named `X_Something` and introduced by "Mutant:" are wrong variants
of `X`. They are not part of any specification; they show that each property
can be broken by a plausible bug in `X`.

### HotReload

`pc` holds where each thread is; an action is the code between two places where
the other thread or the outside may intervene. Both threads share the actions
of `compileShared` and `loadShared` (`CompileStart` to `SymbolMissing`). `num`
is the argument `num`, `loaded` is `loaded_lib` (`NoLib` while `inited` is
false), `mapped` the libraries opened and not closed.

The contents of files are a version number: each edit makes the sources one
version newer, a library (`artifact`) carries a version between that at the
start of its compilation (`snapshot`) and that at its end. `Edit` and `Replace`
are whoever edits; an edit in place raises an event if the file is watched,
replacing a file by rename raises a last event and ends the watch. `wanted` is
the version of the last edit that raised an event. inotify merges an event with
the last unread one if they are equal.

`Lookup` is the moment the store to the global pointer becomes visible. The
code has a data race there (the pointer is not atomic); on the targets of the
program it is one aligned word, so main reads the old or the new value, which
is the choice of interleaving in the model.

`names` is the set of libraries whose string constants the names of
`state.bodies` are. Drawing reads those names (`Object.zig:101`), so a frame
that draws a name of a closed library faults (`TickCrash`). This takes closing
to unmap the library, which is what `dlclose` does with the last reference. The
objects of the level are created by the executable and have its constants.

`build.zig` in this commit no longer declares the options `hot_main.zig` passes
to it (`-Dgame_only`, `-Dhot_reload`, `-Dlib_name`) and builds `main.zig` only.
The model is of `hot_main.zig` with a build that understands them.

### Game

One frame is one action, since one thread runs it and the input does not change
within it: `Play` (a frame in which `gameInput` and `updatePhysics` run),
`Freeze` (a paused frame), `Panic` (an append fails), `Leave` (R or the window
is closed, before anything else). A frame chooses the buttons held, the
position of the mouse, the space bar and the frame time; `down` keeps the
buttons of the last sample, from which "pressed" and "released" follow, as in
raylib. Whatever the frame ends with (`mouse_shift`, the click of the Pause
button) is part of the action.

Histories: `pressedAt` (where each button last went down), `played` (sum of the
frame times), `orphaned` (a release fell into a paused frame during this drag),
`solo` (a drag during which no other button was held), `frame` (what the last
frame did). They only record; no guard of the code reads them.

Time is an integer here: `Step` units a physics step.

### FrameClock

The same loop with rounded numbers: `Nearest` rounds to `Precision` bits, ties
to even, as f32 does with 24. Each trip round the loop is an action, so that
"the loop ends" is a liveness property. A step of a frame takes the machine
`cost`, chosen from `Costs` for each frame, and the rest of a frame `Drawing`;
`elapsed` adds them up while the frame runs, and the next frame is given that
time or more (`EnterLoop`): the least is what `getFrameTime` gives when nothing
else held the machine up. `PausedFrame` is a frame that does not call
`updatePhysics`. Nothing is assumed of how costs compare to `step_time`; the
properties say which frames they are about. With steps that take less than they
simulate a slow frame is followed by shorter ones until they are steady
(`SlownessDiesOut`). With steps that take more, a frame that follows a long one
takes longer still (`SlownessGrows`): that is the runaway, which a cap on
`frame_time` would end and the code does not have.

### SpriteSheet

Each fallible statement is an action that succeeds or fails. `cleanup` is the
stack of `defer` and `errdefer` statements reached; returning runs it from the
top (its end), an `errdefer` only with an error. Blocks of memory have names,
so that a block freed twice or leaked is seen. A slice with a number of keys other than
one fails the assertion and ends the program, as in a build with safety checks.

### LevelFile

A text is a sequence of pieces, one for each call of the writer; the parser
takes a whole text or none. Each call may fail, and `Crash` ends the process
anywhere: what is on the disk stays (the file is truncated first, so the level
it held is gone from `Create` on; `saved` and `torn` record that). The
properties are about what a reader gets, a level that was saved whole or none;
none claims that the old level survives a save that fails, since it does not.

### EventQueue

Blocks are named in the order of their requisition; a block holds `BLOCK_SIZE`
elements by slot, so that a slot that is used again too early is seen in
`elements`. `blockIndex[p]` is what producer `p` has published: its newest
header and, behind it, the older and smaller ones a consumer may still be
looking at. `pc` and `cpc` are the places of threads and consumer, an action is
the code up to the next access to what they share, and atomic accesses happen
in the order of the source: the memory orders of the code are taken to be
strong enough, not checked. A thread that ends gives up its producer
(`inactive`), and one that starts takes an inactive one or adds its own. The
new owner's name is written to it while the worker may hold events of the one
that ended and has not yet read the name (1408, 1113): those are then reported
as the heir's. `EventsKeepTheirThread` allows this and nothing else (`Heir`): a
living thread's events carry its own name, those of a thread that ended its name
or that of a thread which got the producer after the events were claimed.

Histories: `log` (what a producer committed), `filled` (the blocks it put
elements in, in order), `consumed`, `emitted` and `passedOver`. No guard reads
`filled`, `log` or `passedOver`; `emitted` bounds what a thread has to say.

### SendBuffer and FrameCodec

`SendBuffer` numbers the bytes: a cell of the buffer holds the number of its
byte, so that "what LZ4 would read here" can be compared with "the byte it
means". `Compressed` is what `LZ4_compress_fast_continue` does to the stream:
renumbering, the check for tiny dictionaries, the overlap check, prefix or
external dictionary. A connection that is lost changes nothing (`CommitData`
goes on the same way).

`FrameCodec` gives the bytes contents and adds the compressor: the search by
hash table with growing steps, the limits of window, dictionary and source,
catching up backwards, matches that run from the dictionary into the source,
and lengths that do not fit a token. A frame on the wire is a sequence of
tokens, length bytes, literals and offsets. The server's half is
`LZ4_decompress_safe_continue` with its three cases of where the history is.
Where the server puts frames is not in the repository; it is taken to wind back
like the client, and is marked external. Offsets are taken modulo `Window`, as
65 536 does not fit their 16 bits.

Wild copies and the decoder's short cuts (which give the same bytes faster) and
damaged input are left out; the output buffer always suffices.

### ServerSession

`worker` is the place of `Worker`, `stage` which of its loops it is in (the
session, the draining after the shutdown, what follows the terminate notice,
and the wait after the server's `Disconnect`). Items are counted per queue
instead of kept. The server is external and may do whatever a server may:
connect with a wrong handshake, ask up to `QueryLimit` queries at a time (its
own choice; nothing in the client bounds it), stall in a packet, say it leaves, or break the connection. `due` is what was queued
when the shutdown began. Each exit of `Worker` is an action with the calls it
makes: `DestroySocket` counts how often each socket was destroyed, which is how
the double destruction of a rejected server's socket is seen.

The symbol thread queues an answer (`SymbolAnswer`) before it takes the query
out (`SymbolPop`), so a server that asks again at once can find the queue full
and the worker waits in `emplace`. `EmplaceGoesOn` says that it then waits for
this one step only; without the server's restraint (`QueryLimit <=
SymbolCapacity`, which is a hypothesis of `EmplaceGoesOn`, `ShutdownEnds` and
`QueriesAnswered`, not an assumption of the module) it could wait for itself
after the symbol thread's end. Sending takes no time in the model: a server that
keeps the connection and reads nothing, so that a send blocks until its
time-out, is not modelled.

### RpMalloc

Free lists are sets: the model allocates any of their blocks, since all that
are linked are alike. The owner's fields (`free_list`, `used_count`) are
changed without a lock; `deferred`, `locked` and `list_size` are the atomic
list to which other threads give blocks back, `locked` standing for
`INVALID_POINTER`. `link` is the pointer by which spans that came back whole
form a stack; the spans of the stack (`Queued`) are the least set that has the
first and whatever a member links to. A thread that ends keeps its heap, and a later one may get its id
(the address of its control block), which makes it look like the owner.

## Runs

| run | instance | shows |
|---|---|---|
| `hot_reload_updates` | 2 files, 4 edits, reads of 2 events, library 2 left from earlier | no call into closed code, no library left open, no edit lost, fresh reloads; the refinement of `CodeSwap`; new code runs and edits get compiled |
| `hot_reload_names` | 1 file, 2 edits | *violation*: a frame after a reload faults |
| `hot_reload_killed` | 1 file, 3 edits, a compiler that may be killed | *violation*: an old library is put in place |
| `game_frames` | 3 positions, one on the Pause button, step 2, frames up to 5, 6 units in all, 3 objects | drags, launches, time |
| `frame_clock_loop` | 6 bits, step 37, cost 28 or 49 a step and 12 a frame, frames up to 17 steps | rounding, termination, slow frames get shorter or longer |
| `sprite_sheet_memory` | files of up to 3 slices, 3 names, 0 to 2 keys | memory and contents |
| `level_file_faults` | levels of 1, 3 and 4 pieces, 3 can be read | torn levels are refused, saved ones are read |
| `event_queue_threads` | threads with 7 and 1 events, blocks of 2, index of 2, 2 events a call | nothing is overwritten, order, names, nobody starves, everything arrives |
| `frame_codec` | frames of 9, window 12, positions up to 24, 38 bytes, three texts | buffer, history and positions; the server reads what was sent |
| `server_session_life` | 2 sockets, 1 event in each queue, 2 queries, symbol queue of 1, no `TRACY_NO_EXIT` | sockets, delivery, answers, a full symbol queue, shutdown ends |
| `server_session_rejected` | the same, also with `TRACY_NO_EXIT` | *violation*: a rejected server's socket is destroyed twice |
| `rpmalloc_heaps` | 2 spans of 3 blocks, pages of 2, 4 threads of which one allocates and one has its id | blocks and spans are in one place, nothing is stranded |

Why the bounds are enough. Four edits allow two full reloads with an edit
during a compilation, events left unread by one read and a failed compilation
in between; two events a read (17 in the code) are fewer than can queue. Two
files are needed for one to lose its watch while the other is edited. Three
objects cover the ground, a bird and a block of one frame. Frames of 0 to 5
units with a step of 2 cover no step, exact multiples and two steps at once. In
`frame_clock_loop` the step uses all bits of the mantissa, as 0.001 does, so
that every subtraction from a larger number rounds; frames go beyond the limit
of `ShortFrame`. Frames longer than `MaxFrameTime` are
left out: a runaway ends there in the model, with pauses as the only frames left,
and `SlowMachinesRunAway` is the proof for every value of that bound. The
theorems about short frames ask for seven bits; the run has six, to leave room
for two costs a frame, and all properties hold there too. Three slices allow a repeated label first, last and after
another entry. Levels lie below, at and above the limit.

In `event_queue_threads` seven events fill four blocks, so the index of two
entries is full, a block is used again and the index grows while the worker
holds the old one; the second thread is new while the first is busy, and may
recycle its producer. In `frame_codec` the model's smallest numbers keep
most of the code's relations: the window is smaller than the
buffer, the shortest match is as long as the shortest dictionary, 38 bytes wind
the buffer back more than once and pass the renumbering, and the texts have
matches in the frame, in the prefix, across the end of the dictionary, and at a
distance of a window exactly (one that must not be used). Making the largest
distance, the rescaling of the table or either restriction on the last bytes
wrong by one breaks `ServerReadsWhatWasSent` there. One relation is the other way
round: a frame has up to 256 KB in the code (`common/TracyProtocol.hpp:17`), four
times LZ4's window, and 9 bytes in a window of 12 here. The window limit inside
one frame is therefore reached only with what came before it: the prefix spans
several frames, and matches at and beyond the window's distance cross frame
boundaries. The theorems about `SendBuffer` hold for all sizes of both. Two
sockets are one session and one server turned away; both queues of threads can
be loaded at once. A second query is asked while the answered first one still
fills the symbol queue, so that the worker does wait in `emplace`.
`TRACY_NO_EXIT` would let the worker wait for a first server after the exit; the
variable does not change and `server_session_life` takes the half without it,
which is the one `ShutdownEnds` is about. The theorems hold for both.

In `rpmalloc_heaps` spans of three blocks have a
last page that is short, both spans can come back whole, and three threads can
be freeing blocks of one span; the two that only free are symmetric.

Deadlock is checked in all runs but `frame_codec`, where a run ends when the
bytes of its text are used up; where the program may stop, the specification
says so (`Terminated`, `Over`).

Fairness. `HotReload!FairSpec` gives weak fairness to each thread and,
separately, to taking the mutex: threads keep being scheduled, but a mutex that
is free only now and then promises nothing, since `std.Thread.Mutex` has no
queue. Hence `EditsGetCompiled` excepts an updater that waits for ever, and
`NewCodeRuns` holds without exception because the pointer is stored before the
mutex is asked for. Nothing is assumed of editors nor of errors (a read of
events that fails is never forced), and the compiler ends (as a step of its
thread). `FrameClock!FairSpec` only says that the loop runs on.
`EventQueue!FairSpec`: the worker keeps asking (it is a loop with a short
sleep); threads owe nothing, and what is committed arrives all the same.
`ServerSession!FairSpec`: worker, symbol thread and destructor run; the server
completes a packet it began and ends the session when told (the code waits for
that without a limit, so it has to be assumed); nothing is assumed of its
connecting or asking. `TRACY_NO_EXIT` is excepted in `ShutdownEnds`.

`MCFrameClock` also assumes, and TLC evaluates, that each step of the model's
frames makes progress and that frames of more than `2^(Precision + 1)` steps
never end. In the code that limit is 32768 seconds: above it, neighbouring f32
are 1/256 apart and subtracting 0.001 changes nothing. `StepsAreRight` needs
frames of at most `2^((Precision + 1) / 2)` steps, 5.8 seconds in the code;
beyond that rounding may add up to more than a step.

## Disagreements found

* `hot_reload_names`. The code announces "hot realoaded" (`hot_main.zig:144`)
  and goes on with the state of the game, but the names of objects launched
  before are in the library it has closed. One launch and one reload fault.
* `hot_reload_killed`. `else => {}` (`hot_main.zig:44`) takes a compiler that
  was killed for a success and logs "Recompiled:"; the next open takes whatever
  file has the number.
* `server_session_rejected`. A server that comes while the client is no longer
  available is told so, and its socket destroyed (`client/TracyProfiler.cpp:1940`)
  with `m_sock` left pointing to it; if the exit is requested then, the destructor
  destroys and frees it again (1507).

One more was read off the code and has no run: when the connection is lost in
the middle of a batch, `DequeueSerial` returns (2920) without clearing
`m_serialDequeue`, although the payloads of its earlier items are freed, and
`ClearSerial` (2238) then frees them again. The session's model counts serial
items and does not hold their payloads, and no line of the repository says
otherwise; it is listed as a hazard.

## Proofs

All theorems hold for every value of the constants that satisfies the named
assumptions (`ConstantsAssumption`, `GameAssumption`, `SpriteSheetAssumption`,
`LevelAssumption`, `SendBufferAssumption`, `ServerSessionAssumption`,
`FrameClockAssumption`, `NumbersFit`, `QueueAssumption`, `RpMallocAssumption`: bounds are naturals, steps and buffers are
not zero, LZ4's positions have room for a window and a frame, and a frame's time
is a number of the format). `FrameClock` assumes besides a few laws of powers of
two (`PowersAssumption`), since the provers know none; TLC evaluates all of them
for the constants of the runs.

`HotReloadProofs`. Types first (`TypeCorrect`). Then `SwapInv`, which is
inductive relative to the types and says for each place of each thread which
libraries are open, what the pointer and the handle name, and who holds the
mutex. The properties the runs check are not inductive: that `CloseOld` leaves
the running library alone, say, needs that the updater holds the mutex there,
that main in a frame holds it too, and that the pointer is at the new library
by then. From `SwapInv` follow `CallsStayMapped`, `LibrariesDoNotPileUp`,
`OnlyReloadsMakeNamesDangle` and, step by step, `HotReloadImplementsCodeSwap`.
`EditsAreRemembered` needs besides that no event is of a version newer than the
disk (`EditInv`), `ReloadsAreFresh` where the version of the library came from
(`FreshInv`) and that no signal ends the compiler.

`GameProofs`. Types; the loop leaves between nothing and one step
(`StepsInBounds`), so that time is conserved (`NoTimeIsLost`). `DragIsHeld` is
inductive relative to the types: a start that is set is set at a press, a start
that is kept had no release. `SoloInv` strengthens it for `SoloDragsLaunch`.

`FrameClockProofs`. That the time of a frame is spent needs a bound for what each
rounding costs, and the spacing of numbers is a minimum over exponents. A set of
naturals has a least element since they are well-founded (`LeastOfNaturals`);
hence the exponent of a number is the least with room for it (`SpacingIsPower`),
no number below the upper end of a binade is spaced more coarsely
(`SpacingGrows`), and rounding costs at most half a spacing and does not pass
that end (`Rounding`). `ClockInv` says that the time left is never past the end
of the binade of what was given, although it may have been rounded up, so that
each step rounds by half of that spacing at most. `TimeIsAccountedFor` and
`TypeCorrect` follow.

That bound alone would allow a short frame to be off by two steps. `StepsInv` is
sharper: a rounding costs the spacing of the number it happens at (`Charge`,
nothing where numbers are exact), and the numbers get smaller. `Potential` is six
times the area under the spacing up to a number, which has a closed form in each
binade; taking a step off a number lowers it by the charge times twice the step
less the spacing, all times three (`PotentialFalls`), whether or not the step
crosses into a finer binade. The charges of a frame are thus bounded by the
potential it starts with (`Budget`), at most nine squares of a step for a short
frame, which with a spacing of at most a quarter of a step makes an error below
one step (`ShortIsFine`, `ErrorIsLess`). Hence `ShortFramesTakeTheirSteps`, from
seven bits of mantissa on (`2 ^ Precision >= 128`; the code has 24), and from the
number of steps `SlowFramesGetFaster` and `SlowMachinesRunAway`: a frame takes
`Drawing` and the cost of its steps, which are the steps of what it was given but
for one, so what it takes compares to what it was given as a step's cost does to
a step. Whether steps take less or more than they simulate is a hypothesis of
the property; nothing is assumed of the costs.

`SpriteSheetProofs`. That nothing leaks says nothing of the states in between,
so the invariant does: unless the assertion has ended the program, the stack
holds the first statements of the source in their order (`StackInv`), what is
live is what they are going to free, the map while it is somebody's (`HasMap`)
and the key between `dupe` and `getOrPut` (`HeapInv`), and the map holds the
slices before the current one (`MapInv`). Blocks freed by different statements
are different (`MapIsApart`, `BaseLiveGrows`), so each is freed once. The three
properties of the run follow, for files of any length.

`GameProofs` also has the theorems about `LevelFile`. `FileInv`: the file holds the first pieces of the level whose
save was begun last, all of them unless it was torn. Since only whole texts
parse (`ParsedPieces`), `TornLevelsAreRefused` and `SavedLevelsAreReadable`
follow for all levels and limits.

`SendBufferProofs`. What LZ4 may refer to is only looked at when a frame is
sent, and what it will be depends on how long that frame gets. The invariant
(`Inv`) therefore has `History`: the dictionary ends at the start of the frame,
or the buffer was wound back and it lies in the last third, and in both cases
holds the last bytes sent but for what was collected over it since. A frame of
any size then takes away from it exactly what the overlap check takes
(`ReferencesResolve`); the bounds of the buffer (`BufferSuffices`), the order of
bytes (`NothingLostOrDoubled`) and the positions (`PositionsStayInRange`) are
parts of the same invariant.

`ServerSessionProofs`. `SessionInv` says for each place of the worker whether a
socket is open, that older ones are closed and later ones untouched, and that
the symbol thread is gone before the worker reads its queue. From it follow
`SocketsAreThere`, `NoSocketIsLeft` and `SymbolsHaveOneReader`.
`EverythingIsDelivered` needs `DeliveryInv` besides: as long as the server stays, what was emitted is queued, in the buffer or received
(`NothingLost`), and a queue that was found empty after the exit has given all
that is due (`FoundEmpty`), which is why both queues have to be found empty in
one round.

`EventQueueProofs`. The queue is correct because of what is where, so the
invariant is built from that. `OwnerInv`: a producer in the list is owned by one
thread or by none, and then it is marked inactive; a thread that has seen a
producer in the list may rely on it. `RingInv` says for each producer:

* of the blocks ever filled (`filled`), the last `slotsUsed` are the *window*;
  all elements before it are given back (`CountsOk`, `TailOk`);
* the blocks of the window are linked in a ring, its newest to its oldest, and
  each counts what the consumer has given back of it (`RingOk`), so that a block
  looks empty only when it is; no block is in two windows (`Apart`);
* slot by slot, the window holds the entries of `log` (`ContentsOk`);
* the entries of the newest header of the index are the blocks of the window with
  their first positions, one behind the other modulo its size, also between the
  steps of a requisition and after the index was unrolled into a larger one
  (`IndexOk`);
* while the consumer is in a call, the header and front it loaded lead to the
  block of the element it has reserved, even if the producer has published a
  larger header or later entries since: older headers are not written any more,
  and the slots written meanwhile are not those of the reserved elements
  (`CallOk`, `LocateOk`, `ProcessOk`).

`QueueIsARing` is this invariant as a theorem, `NothingLost` and `InOrder` follow
from it. `RightThread` needs `ThreadInv`: an entry of `log` whose thread still
lives is in a producer which that thread owns, and it carries its name; one whose
thread has ended is in a producer that was this thread's, whose name is that of
the thread or of one that had the producer later (`LogOk`, `HadIt`, `NameOk`);
and what the worker has announced was the producer's name after it had claimed
the events (`Announced`). `EverybodysTurn` needs `WalkInv`: a
producer with something in it that was passed over `n` times is at least that
many places nearer to the place the walk will serve next (`Dist`), so it cannot
be passed over once more than the list is long; a producer that joins the list
lengthens both.

`RpMallocProofs`. No property of the run is inductive: that a block is not given
out twice needs to know where it is while nobody has it, and that nothing is
stranded needs counts that two threads change at different times. `HeapInv` has

* for each span in use (`Partition`): every block is in exactly one of six sets,
  used by the program, in the class's list, in the span's free list, in its
  deferred list, held by a call, or not yet linked (`Unlinked`);
* the counts (`CountsOk`): `used_count` is the number of linked blocks that are
  not in the free list, `list_size` that of the deferred list with the blocks
  that were counted and are about to be stored, and only a thread that brings the
  last block finds it at `block_count`;
* the place (`PlaceOk`): its heap lists the span until it is full, which for a
  span being filled is settled only at the end of the call; the lock (`LockOk`)
  is with one call;
* a span that came back (`Away`) is in the cache, in the stack or with the one
  thread that sends it, with nothing in use and nothing held (`AwayOk`); whoever
  sends it back is the only one who could (`storeLast`, or `sync` in its owner);
* for each heap (`HeapOk`), its lists have its spans only, each once, following
  the stack comes to an end (`Ends`), and `full_span_count` is the number of its
  spans that are in neither its list nor its cache;
* what the callers rely on: `FillOk`, `SyncOk` (between the check of the counts
  and the release, nobody can free a block of the span), `OneById`, since a
  thread is taken for the owner by its id, and ids are used again.

That the stack stays one, with a compare and swap from several threads and an
exchange by the owner, is shown without following it: a set closed under `link`
that has the first (`Follows`) gains exactly the span that is pushed
(`QueuedPush`). `HeapsAreWhole` is the invariant as a theorem;
`BlocksStayInOnePlace`, `SpansStayInOnePlace` and `MemoryComesBack` follow.

Only model-checked: liveness (`NewCodeRuns`, `EditsGetCompiled`, `LoopEnds`,
`EventsArrive`, `ShutdownEnds`, `QueriesAnswered`), the invariant
`EmplaceGoesOn`, and `FrameCodec`, whose
compressor and decompressor are recursive, so that what they compute is an
induction over data.

## Not modelled

Of the game: drawing and debug drawing (output only); the launch velocity and
the shapes of objects (numbers the properties do not tell apart); Box2D's
behaviour; the arena of `Game`, from which nothing is allocated; leaked
directory handles of `add_directory`; `Block.zig`; `build.zig`.

Of the profiler, which is most of the tree by lines:

* `libbacktrace` (a third of the tree): parsers of ELF and DWARF that fill
  tables once. Their state is the input's bytes, and what could be wrong in them
  is a field of a format, which a model would only copy.
* `TracySysTrace`, `TracySysTime`, `TracySysPower`: readers of the kernel's
  rings and files, whose other side is not in the repository.
* `tracy_lz4hc.cpp`: the client does not call it. Of `tracy_lz4.cpp`, the entry
  points a session does not use and the fast paths of the decoder.
* `TracyDxt1.cpp`: a pure function on pixels. `ztracy.zig`: forwarding.
* Of the allocator, large and huge spans, the global cache, unmapping and
  `realloc`; of the queue, the parts for several consumers; of the session,
  system tracing, the broadcast, the compression of frame images, and which
  item each macro emits.

The models therefore cover a small share of the tree's lines: most of them
belong to parsers, tables and platform code without behaviour to check.

## Plan

1. `ObjectGeometry`: `findSizeOfBody`, the number of tiles, `calculate_speed`
   and the dots of `draw_trace` as functions, against reference definitions.
2. `Lifecycle`: `Game.init`, the loop and `Game.deinit` composed with
   `SpriteSheet`: what is open when initialisation fails, the order of deinit.
3. Locks: the announcements of `TracyLock.hpp` through the serial queue, and
   `ClearSerial` with the payloads of items.
