------------------------------ MODULE HotReload ------------------------------
(***************************************************************************)
(* Hot reloading (src/hot_main.zig, src/Watcher.zig).                      *)
(*                                                                         *)
(* The main thread compiles and opens library 0, initialises the game,     *)
(* spawns the updater and then calls gameTick, a function of the newest    *)
(* library, once per frame with `mutex` held.  The updater waits for       *)
(* inotify events of the sources, compiles library num, opens it, stores   *)
(* its gameTick in the global pointer WITHOUT the mutex, and only takes    *)
(* the mutex to close the library it replaces.                             *)
(*                                                                         *)
(* Time of day is a version number of the sources: each edit increments    *)
(* `source`, and a library carries the version it was built from.          *)
(***************************************************************************)
EXTENDS Integers, Sequences

CONSTANTS
  Files,             (* the files under src/ when the updater scans it     *)
  MaxEdits,          (* bound of the model: the last version of `source`   *)
  EventsPerRead,     (* inotify events that fit the buffer of listen: 17   *)
  StaleLibs,         (* numbers n whose zig-out/lib/lib<n>.so is left from *)
                     (* an earlier session                                 *)
  KillableCompiler   (* whether a signal may end the `zig build` child     *)

ASSUME ConstantsAssumption ==
  /\ MaxEdits \in Nat \ {0}
  /\ EventsPerRead \in Nat \ {0}
  /\ StaleLibs \subseteq Nat
  /\ KillableCompiler \in BOOLEAN

VARIABLES
  pc,         (* where each of the two threads is                          *)
  mutex,      (* the owner of `mutex`, or "free"                           *)
  gameTick,   (* the library whose function the global pointer holds       *)
  tickVersion,(* the version of the sources that library was built from    *)
  running,    (* the library main called last                              *)
  loaded,     (* `loaded_lib`, NoLib while `inited` is false               *)
  mapped,     (* the libraries opened and not closed                       *)
  num,        (* argument of compileShared and loadShared                  *)
  source,     (* version of the sources on disk                            *)
  snapshot,   (* version on disk when the last compilation started         *)
  artifact,   (* version of zig-out/lib/lib<num>.so, or NoFile             *)
  toScan,     (* files add_directory has not reached                       *)
  watched,    (* files with an inotify watch                               *)
  queue,      (* unread inotify events                                     *)
  wanted,     (* history: version of the last edit that raised an event    *)
  names,      (* libraries whose constants the names of state.bodies are   *)
  child       (* whether restart spawned a new game                        *)

libVars  == <<gameTick, tickVersion, loaded, mapped>>
buildVars == <<num, snapshot, artifact>>
diskVars == <<source, toScan, watched, queue, wanted>>
gameVars == <<running, names, child>>
vars     == <<pc, mutex, libVars, buildVars, diskVars, gameVars>>

Threads == {"main", "updater"}
LoadPlaces    == {"compile", "compiling", "open", "lookup"}
MainPlaces    == LoadPlaces \cup {"init", "spawn", "loop", "locked", "tick", "teardown",
                                  "ended", "crashed"}
UpdaterPlaces == LoadPlaces \cup {"unborn", "watcher", "scan", "listen", "acquire",
                                  "close", "store", "dead"}
Places        == MainPlaces \cup UpdaterPlaces
NoLib   == -1
NoFile  == -1

Goto(t, from, to) == pc[t] = from /\ pc' = [pc EXCEPT ![t] = to]

(* An error returned by update() ends the thread; its errdefer closes the  *)
(* inotify descriptor, which drops the watches and the unread events.      *)
UpdaterDies(from) ==
  /\ Goto("updater", from, "dead")
  /\ watched' = {} /\ queue' = <<>>
  /\ UNCHANGED <<source, toScan, wanted>>

(* An error returned by loadShared ends main as well as update.            *)
Fail(t, from) ==
  \/ t = "main" /\ Goto(t, from, "ended") /\ UNCHANGED diskVars
  \/ t = "updater" /\ UpdaterDies(from)

-----------------------------------------------------------------------------
(* The world outside: whoever edits the sources.                           *)

(* inotify merges an event into the last unread one when they are equal.   *)
Notify(f) ==
  /\ queue' = IF queue # <<>> /\ queue[Len(queue)] = f
              THEN queue ELSE Append(queue, f)
  /\ wanted' = source + 1

(* A file is written in place: IN_MODIFY for those who watch it.           *)
Edit(f) ==
  /\ source < MaxEdits
  /\ source' = source + 1
  /\ IF f \in watched THEN Notify(f) ELSE UNCHANGED <<queue, wanted>>
  /\ UNCHANGED <<pc, mutex, libVars, buildVars, gameVars, toScan, watched>>

(* A file is replaced by renaming another over it: the watched inode goes, *)
(* IN_IGNORED is its last event, and the new file is not watched.          *)
Replace(f) ==
  /\ source < MaxEdits /\ f \in watched
  /\ source' = source + 1
  /\ queue' = Append(queue, f)
  /\ wanted' = source + 1
  /\ watched' = watched \ {f}
  /\ UNCHANGED <<pc, mutex, libVars, buildVars, gameVars, toScan>>

-----------------------------------------------------------------------------
(* compileShared and loadShared, called by both threads.                   *)

CompileStart(t) ==
  /\ Goto(t, "compile", "compiling")
  /\ snapshot' = source
  /\ artifact' = IF num \in StaleLibs THEN 0 ELSE NoFile
  /\ UNCHANGED <<mutex, libVars, num, diskVars, gameVars>>

(* Mutant: the events that came during the compilation are dropped. *)
CompileExitsZero_Drains(t) ==
  /\ Goto(t, "compiling", "open")
  /\ artifact' \in snapshot .. source
  /\ queue' = <<>>
  /\ UNCHANGED <<mutex, libVars, num, snapshot, source, toScan, watched, wanted, gameVars>>

(* `zig build` reads the sources while it runs, so it may see later edits. *)
CompileExitsZero(t) ==
  /\ Goto(t, "compiling", "open")
  /\ artifact' \in snapshot .. source
  /\ UNCHANGED <<mutex, libVars, num, snapshot, diskVars, gameVars>>

(* A child that did not exit (`else => {}`) is taken for a success.        *)
CompileKilled(t) ==
  /\ KillableCompiler
  /\ Goto(t, "compiling", "open")
  /\ UNCHANGED <<mutex, libVars, buildVars, diskVars, gameVars>>

(* Mutant: the updater loads the library although compiling it failed. *)
CompileFails_LoadsAnyway(t) ==
  /\ Goto("updater", "compiling", "open") /\ t = "updater"
  /\ UNCHANGED <<mutex, libVars, buildVars, diskVars, gameVars>>

(* FailedToRecompile, or an error of ChildProcess.run: main gives up, the  *)
(* updater goes on with the next number.                                   *)
CompileFails(t) ==
  /\ \/ t = "main" /\ Goto(t, "compiling", "ended") /\ UNCHANGED num
     \/ t = "updater" /\ Goto(t, "compiling", "listen") /\ num' = num + 1
  /\ UNCHANGED <<mutex, libVars, snapshot, artifact, diskVars, gameVars>>

OpenLib(t) ==
  /\ Goto(t, "open", "lookup")
  /\ artifact # NoFile
  /\ mapped' = mapped \cup {num}
  /\ UNCHANGED <<mutex, gameTick, tickVersion, loaded, buildVars, diskVars, gameVars>>

OpenFails(t) ==
  /\ Fail(t, "open")
  /\ UNCHANGED <<mutex, libVars, buildVars, gameVars>>

(* Mutant: the pointer is only stored the first time. *)
Lookup_FirstOnly(t) ==
  /\ \/ loaded = NoLib /\ Goto(t, "lookup", "init") /\ loaded' = num /\ gameTick' = num
     \/ loaded # NoLib /\ Goto(t, "lookup", "acquire") /\ UNCHANGED <<loaded, gameTick>>
  /\ tickVersion' = artifact
  /\ UNCHANGED <<mutex, mapped, buildVars, diskVars, gameVars>>

(* The pointer is a plain global that main reads under the mutex and that  *)
(* is stored here without it: an aligned word, so main reads the old or    *)
(* the new library, and this action is the moment the store is visible.    *)
Lookup(t) ==
  /\ gameTick' = num
  /\ tickVersion' = artifact
  /\ \/ loaded = NoLib /\ Goto(t, "lookup", "init") /\ loaded' = num
     \/ loaded # NoLib /\ Goto(t, "lookup", "acquire") /\ UNCHANGED loaded
  /\ UNCHANGED <<mutex, mapped, buildVars, diskVars, gameVars>>

(* SymbolNotFound: the library just opened is never closed.                *)
SymbolMissing(t) ==
  /\ Fail(t, "lookup")
  /\ UNCHANGED <<mutex, libVars, buildVars, gameVars>>

-----------------------------------------------------------------------------
(* The rest of update(), the updater thread.                               *)

WatcherInit ==
  /\ \/ Goto("updater", "watcher", "scan")
     \/ Goto("updater", "watcher", "dead")
  /\ UNCHANGED <<mutex, libVars, buildVars, diskVars, gameVars>>

WatchFile(f) ==
  /\ pc["updater"] = "scan" /\ f \in toScan
  /\ toScan' = toScan \ {f}
  /\ watched' = watched \cup {f}
  /\ UNCHANGED <<pc, mutex, libVars, buildVars, source, queue, wanted, gameVars>>

ScanDone ==
  /\ Goto("updater", "scan", "listen") /\ toScan = {}
  /\ num' = 1
  /\ UNCHANGED <<mutex, libVars, snapshot, artifact, diskVars, gameVars>>

ScanFails ==
  /\ UpdaterDies("scan")
  /\ UNCHANGED <<mutex, libVars, buildVars, gameVars>>

(* Mutant: read waits for as many events as the buffer holds. *)
Listen_FillsBuffer ==
  /\ Goto("updater", "listen", "compile")
  /\ Len(queue) >= EventsPerRead
  /\ queue' = SubSeq(queue, EventsPerRead + 1, Len(queue))
  /\ UNCHANGED <<mutex, libVars, buildVars, source, toScan, watched, wanted, gameVars>>

(* One read takes the oldest events, as many as the buffer holds.          *)
Listen ==
  /\ Goto("updater", "listen", "compile")
  /\ queue # <<>>
  /\ queue' = SubSeq(queue, EventsPerRead + 1, Len(queue))
  /\ UNCHANGED <<mutex, libVars, buildVars, source, toScan, watched, wanted, gameVars>>

ListenFails ==
  /\ UpdaterDies("listen")
  /\ UNCHANGED <<mutex, libVars, buildVars, gameVars>>

(* Mutant: loadShared closes the old library without the mutex. *)
UpdaterLock_None ==
  /\ Goto("updater", "acquire", "close")
  /\ UNCHANGED <<mutex, libVars, buildVars, diskVars, gameVars>>

UpdaterLock ==
  /\ Goto("updater", "acquire", "close")
  /\ mutex = "free" /\ mutex' = "updater"
  /\ UNCHANGED <<libVars, buildVars, diskVars, gameVars>>

(* Mutant: the old library stays open. *)
CloseOld_Forgets ==
  /\ Goto("updater", "close", "store")
  /\ mutex' = "free"
  /\ UNCHANGED <<libVars, buildVars, diskVars, gameVars>>

(* close(), then the deferred unlock.                                      *)
CloseOld ==
  /\ Goto("updater", "close", "store")
  /\ mapped' = mapped \ {loaded}
  /\ mutex' = "free"
  /\ UNCHANGED <<gameTick, tickVersion, loaded, buildVars, diskVars, gameVars>>

(* loaded_lib is assigned after the unlock; then back to listen.           *)
StoreHandle ==
  /\ Goto("updater", "store", "listen")
  /\ loaded' = num
  /\ num' = num + 1
  /\ UNCHANGED <<mutex, gameTick, tickVersion, mapped, snapshot, artifact, diskVars, gameVars>>

-----------------------------------------------------------------------------
(* The rest of main().                                                     *)

InitGame ==
  /\ \/ Goto("main", "init", "spawn")
     \/ Goto("main", "init", "ended")
  /\ UNCHANGED <<mutex, libVars, buildVars, diskVars, gameVars>>

Spawn ==
  /\ \/ /\ pc["main"] = "spawn"
        /\ pc' = [pc EXCEPT !["main"] = "loop", !["updater"] = "watcher"]
     \/ Goto("main", "spawn", "ended")
  /\ UNCHANGED <<mutex, libVars, buildVars, diskVars, gameVars>>

MainLock ==
  /\ Goto("main", "loop", "locked")
  /\ mutex = "free" /\ mutex' = "main"
  /\ UNCHANGED <<libVars, buildVars, diskVars, gameVars>>

(* Mutant: main calls into loaded_lib, which the updater stores last. *)
CallTick_ByHandle ==
  /\ Goto("main", "locked", "tick")
  /\ running' = loaded
  /\ UNCHANGED <<mutex, libVars, buildVars, diskVars, names, child>>

CallTick ==
  /\ Goto("main", "locked", "tick")
  /\ running' = gameTick
  /\ UNCHANGED <<mutex, libVars, buildVars, diskVars, names, child>>

(* A frame that returns .none: it may add an object, whose name is a       *)
(* constant of the library that runs, then draws every object by its name. *)
TickNone ==
  /\ Goto("main", "tick", "loop")
  /\ names' \in {names, names \cup {running}}
  /\ names' \subseteq mapped
  /\ mutex' = "free"
  /\ UNCHANGED <<libVars, buildVars, diskVars, running, child>>

(* Drawing an object whose name was in a closed library faults.            *)
TickCrash ==
  /\ Goto("main", "tick", "crashed")
  /\ ~ (names \subseteq mapped)
  /\ UNCHANGED <<mutex, libVars, buildVars, diskVars, gameVars>>

(* .exit and .restart leave the loop before drawing; the mutex is released *)
(* by the deferred unlock, and restart() ignores a failing spawn.          *)
TickLeaves ==
  /\ Goto("main", "tick", "teardown")
  /\ mutex' = "free"
  /\ child' \in BOOLEAN
  /\ UNCHANGED <<libVars, buildVars, diskVars, running, names>>

(* detach and deinit; the process ends and the updater with it.            *)
Teardown ==
  /\ Goto("main", "teardown", "ended")
  /\ UNCHANGED <<mutex, libVars, buildVars, diskVars, gameVars>>

-----------------------------------------------------------------------------
Init ==
  /\ pc = [t \in Threads |-> IF t = "main" THEN "compile" ELSE "unborn"]
  /\ mutex = "free"
  /\ gameTick = NoLib /\ tickVersion = 0 /\ running = NoLib
  /\ loaded = NoLib /\ mapped = {}
  /\ num = 0 /\ source = 1 /\ snapshot = 0 /\ artifact = NoFile
  /\ toScan = Files /\ watched = {} /\ queue = <<>> /\ wanted = 0
  /\ names = {} /\ child = FALSE

ProcessRuns == pc["main"] \notin {"ended", "crashed"}

LoadStep(t) ==
  \/ CompileStart(t) \/ CompileExitsZero(t) \/ CompileKilled(t) \/ CompileFails(t)
  \/ OpenLib(t) \/ OpenFails(t) \/ Lookup(t) \/ SymbolMissing(t)

UpdaterStep ==
  \/ LoadStep("updater")
  \/ WatcherInit \/ (\E f \in Files : WatchFile(f)) \/ ScanDone \/ ScanFails
  \/ Listen \/ CloseOld \/ StoreHandle

MainStep ==
  \/ LoadStep("main")
  \/ InitGame \/ Spawn \/ MainLock \/ CallTick
  \/ TickNone \/ TickCrash \/ TickLeaves \/ Teardown

Terminated == ~ ProcessRuns /\ UNCHANGED vars

Next ==
  \/ ProcessRuns /\ \/ MainStep
                    \/ UpdaterStep \/ ListenFails
                    \/ UpdaterLock
                    \/ \E f \in Files : Edit(f) \/ Replace(f)
  \/ Terminated

Spec == Init /\ [][Next]_vars

(* Each thread keeps running: what it can do it does, but an error of a    *)
(* read that waits for events need not come, and std.Thread.Mutex does not  *)
(* queue its waiters: main may retake it every time, so nothing is         *)
(* promised of UpdaterLock beyond what a mutex that stays free gives.      *)
FairSpec ==
  /\ Spec
  /\ WF_vars(ProcessRuns /\ MainStep)
  /\ WF_vars(ProcessRuns /\ UpdaterStep)
  /\ WF_vars(ProcessRuns /\ UpdaterLock)

-----------------------------------------------------------------------------
(* Type invariant of the variables of hot_main.zig and Watcher.zig.        *)
TypeOK ==
  /\ pc \in [Threads -> Places]
  /\ mutex \in {"free", "main", "updater"}
  /\ gameTick \in Nat \cup {NoLib} /\ running \in Nat \cup {NoLib}
  /\ loaded \in Nat \cup {NoLib} /\ mapped \in SUBSET Nat
  /\ num \in Nat /\ artifact \in Nat \cup {NoFile}
  /\ tickVersion \in Nat \cup {NoFile}
  /\ source \in Nat /\ snapshot \in Nat /\ wanted \in Nat
  /\ toScan \in SUBSET Files /\ watched \in SUBSET Files
  /\ queue \in Seq(Files)
  /\ names \in SUBSET Nat /\ child \in BOOLEAN

(* Although the pointer is stored without the mutex and a library closed   *)
(* while frames go on, main never calls into a library that is not open,   *)
(* and a library is never closed under the frame that runs in it.          *)
TickCodeMapped ==
  /\ pc["main"] \in {"loop", "locked"} => gameTick \in mapped
  /\ pc["main"] = "tick" => running \in mapped

(* Reloading does not pile up libraries: when the updater is back at       *)
(* listen or in the next compilation exactly the one main calls is open,   *)
(* and during the swap at most the old and the new one.                    *)
NoLeakedLibrary ==
  /\ pc["updater"] \in {"listen", "compile", "compiling", "open"} =>
       mapped = {loaded} /\ gameTick = loaded
  /\ mapped \subseteq {loaded, num}

(* No lost edit: an edit of a watched file that the last compilation may   *)
(* have missed has an unread event, or the updater is about to compile.    *)
NoLostEdit ==
  (wanted > snapshot /\ pc["updater"] # "dead") =>
    queue # <<>> \/ pc["updater"] = "compile"

(* A name that is no longer mapped is that of an object made before the    *)
(* last reload: the library main calls now keeps its own names alive.      *)
OnlyReloadsDangle == \A n \in names \ mapped : n < gameTick

(* What "Recompiled" and "hot realoaded" say: the library put in place was *)
(* built from sources as new as those on disk when its compilation began.  *)
ReloadIsFresh ==
  pc["updater"] \in {"acquire", "close", "store"} => tickVersion >= snapshot

(* A hot reload leaves a game that goes on: no frame faults.               *)
GameSurvivesReload == pc["main"] # "crashed"

-----------------------------------------------------------------------------
(* The protocol the two threads carry out between them: see CodeSwap.      *)
Swap == INSTANCE CodeSwap WITH
          open    <- mapped,
          current <- gameTick,
          inUse   <- IF pc["main"] = "tick" THEN {running} ELSE {}

(* The threads implement the protocol of CodeSwap.                         *)
ImplementsCodeSwap == Swap!Spec

-----------------------------------------------------------------------------
(* The inductive invariant behind TickCodeMapped, NoLeakedLibrary and      *)
(* OnlyReloadsDangle: which libraries are open, which one the pointer and  *)
(* the handle name, and who owns the mutex, for each place of each thread. *)
StartupInv ==
  /\ pc["main"] \in {"compile", "compiling", "open", "lookup", "init", "spawn"} =>
       pc["updater"] = "unborn" /\ num = 0 /\ names = {}
  /\ pc["main"] \in LoadPlaces => loaded = NoLib /\ gameTick = NoLib
  /\ pc["main"] \in {"compile", "compiling", "open"} => mapped = {}
  /\ pc["main"] = "lookup" => mapped = {0}
  /\ pc["main"] \in {"init", "spawn"} => loaded = 0 /\ gameTick = 0 /\ mapped = {0}
  /\ pc["updater"] = "unborn" => num = 0 /\ mapped \subseteq {0}
  /\ pc["main"] \in {"loop", "locked", "tick", "teardown"} => pc["updater"] # "unborn"

HandleInv ==
  /\ pc["updater"] \in UpdaterPlaces
  /\ pc["updater"] # "unborn" => loaded \in Nat
  /\ pc["updater"] \in {"watcher", "scan"} => loaded = 0 /\ num = 0
  /\ pc["updater"] \in {"listen", "compile", "compiling", "open", "lookup",
                        "acquire", "close", "store"} => loaded < num
  /\ pc["updater"] \in {"watcher", "scan", "listen", "compile", "compiling", "open"} =>
       mapped = {loaded} /\ gameTick = loaded
  /\ pc["updater"] = "lookup" => mapped = {loaded, num} /\ gameTick = loaded
  /\ pc["updater"] \in {"acquire", "close"} => mapped = {loaded, num} /\ gameTick = num
  /\ pc["updater"] = "store" => mapped = {num} /\ gameTick = num
  /\ pc["updater"] = "dead" =>
       loaded \in mapped /\ mapped \subseteq {loaded, num} /\ gameTick = loaded

MutexInv ==
  /\ pc["main"] \in {"locked", "tick"} => mutex = "main"
  /\ pc["updater"] = "close" => mutex = "updater"
  /\ pc["main"] = "tick" => running \in mapped

SwapInv == StartupInv /\ HandleInv /\ MutexInv /\ OnlyReloadsDangle

(* What makes NoLostEdit inductive: an event is never of a later version   *)
(* than the disk's, so a compilation that starts covers all of them.       *)
EditInv == wanted <= source /\ NoLostEdit

(* What makes ReloadIsFresh inductive: where its version comes from.       *)
FreshInv ==
  /\ pc["updater"] \in {"open", "lookup"} => artifact >= snapshot
  /\ ReloadIsFresh

-----------------------------------------------------------------------------
(* The new code, or newer code, runs even when the updater never gets the  *)
(* mutex, because the pointer is stored before the mutex is asked for.     *)
NewCodeRuns ==
  \A n \in 1 .. MaxEdits :
    (pc["updater"] = "acquire" /\ num = n) ~>
      \/ pc["main"] = "tick" /\ running >= n
      \/ ~ ProcessRuns

(* Every edit of a watched file is compiled, unless the updater died or    *)
(* main keeps it from the mutex for ever.                                  *)
EditsGetCompiled ==
  \/ <>[](pc["updater"] = "acquire")
  \/ (wanted > snapshot) ~>
       (wanted <= snapshot \/ pc["updater"] = "dead" \/ ~ ProcessRuns)

=============================================================================
