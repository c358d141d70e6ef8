--------------------------- MODULE HotReloadProofs ---------------------------
(***************************************************************************)
(* Proofs about HotReload, for every set of files, every bound on the      *)
(* edits, every buffer size and every set of left-over libraries.          *)
(***************************************************************************)
EXTENDS HotReload, TLAPS

(***************************************************************************)
(* Types.                                                                  *)
(***************************************************************************)
LEMMA NotifyType ==
  ASSUME TypeOK, NEW f \in Files, Notify(f)
  PROVE  queue' \in Seq(Files) /\ wanted' \in Nat
  BY DEF TypeOK, Notify

LEMMA UpdaterDiesType ==
  ASSUME TypeOK, NEW from, UpdaterDies(from)
  PROVE  /\ queue' \in Seq(Files) /\ watched' \in SUBSET Files
         /\ pc'["main"] = pc["main"] /\ pc'["updater"] = "dead"
  BY DEF TypeOK, UpdaterDies, Goto, Threads

LEMMA LoadStepType ==
  ASSUME TypeOK, NEW t \in Threads, LoadStep(t)
  PROVE  TypeOK'
<1> USE DEF TypeOK, Threads, Places, MainPlaces, UpdaterPlaces, LoadPlaces, NoLib, NoFile, libVars, buildVars, diskVars, gameVars
<1>1. CASE CompileStart(t)  BY <1>1, ConstantsAssumption DEF CompileStart, Goto
<1>2. CASE CompileExitsZero(t)  BY <1>2 DEF CompileExitsZero, Goto
<1>3. CASE CompileKilled(t)  BY <1>3 DEF CompileKilled, Goto
<1>4. CASE CompileFails(t)  BY <1>4 DEF CompileFails, Goto
<1>5. CASE OpenLib(t)  BY <1>5 DEF OpenLib, Goto
<1>6. CASE OpenFails(t)
  <2>1. CASE UpdaterDies("open")
    BY <1>6, <2>1, UpdaterDiesType DEF OpenFails, UpdaterDies, Goto
  <2>2. CASE Goto(t, "open", "ended") /\ UNCHANGED diskVars
    BY <1>6, <2>2 DEF OpenFails, Goto
  <2> QED  BY <1>6, <2>1, <2>2 DEF OpenFails, Fail
<1>7. CASE Lookup(t)  BY <1>7 DEF Lookup, Goto
<1>8. CASE SymbolMissing(t)
  <2>1. CASE UpdaterDies("lookup")
    BY <1>8, <2>1, UpdaterDiesType DEF SymbolMissing, UpdaterDies, Goto
  <2>2. CASE Goto(t, "lookup", "ended") /\ UNCHANGED diskVars
    BY <1>8, <2>2 DEF SymbolMissing, Goto
  <2> QED  BY <1>8, <2>1, <2>2 DEF SymbolMissing, Fail
<1> QED  BY <1>1, <1>2, <1>3, <1>4, <1>5, <1>6, <1>7, <1>8 DEF LoadStep

(* The variables always have their types: spelled out so that the other    *)
(* proofs may reason about the numbers, sets and sequences they hold.      *)
THEOREM TypeCorrect == Spec => []TypeOK
<1>1. Init => TypeOK
  <2> SUFFICES ASSUME Init  PROVE TypeOK
    OBVIOUS
  <2>1. queue \in Seq(Files)
    BY DEF Init
  <2>2. source \in Nat /\ snapshot \in Nat /\ wanted \in Nat /\ num \in Nat
    BY DEF Init
  <2> QED  BY <2>1, <2>2 DEF Init, TypeOK, Threads, Places, MainPlaces, UpdaterPlaces, LoadPlaces, NoLib, NoFile
<1>2. TypeOK /\ [Next]_vars => TypeOK'
  <2> SUFFICES ASSUME TypeOK, [Next]_vars  PROVE TypeOK'
    OBVIOUS
  <2> USE DEF TypeOK, Threads, Places, MainPlaces, UpdaterPlaces, LoadPlaces, NoLib, NoFile, libVars, buildVars, diskVars, gameVars, vars
  <2>1. ASSUME NEW t \in Threads, LoadStep(t)  PROVE TypeOK'
    BY <2>1, LoadStepType
  <2>2. CASE WatcherInit  BY <2>2 DEF WatcherInit, Goto
  <2>3. CASE ScanDone  BY <2>3 DEF ScanDone, Goto
  <2>4. CASE ScanFails  BY <2>4 DEF ScanFails, UpdaterDies, Goto
  <2>5. CASE Listen
    <3>1. queue' \in Seq(Files)
      BY <2>5, ConstantsAssumption DEF Listen
    <3> QED  BY <2>5, <3>1 DEF Listen, Goto
  <2>6. CASE ListenFails  BY <2>6 DEF ListenFails, UpdaterDies, Goto
  <2>7. CASE UpdaterLock  BY <2>7 DEF UpdaterLock, Goto
  <2>8. CASE CloseOld  BY <2>8 DEF CloseOld, Goto
  <2>9. CASE StoreHandle  BY <2>9 DEF StoreHandle, Goto
  <2>10. CASE InitGame  BY <2>10 DEF InitGame, Goto
  <2>11. CASE Spawn  BY <2>11 DEF Spawn, Goto
  <2>12. CASE MainLock  BY <2>12 DEF MainLock, Goto
  <2>13. CASE CallTick  BY <2>13 DEF CallTick, Goto
  <2>14. CASE TickNone  BY <2>14 DEF TickNone, Goto
  <2>15. CASE TickCrash  BY <2>15 DEF TickCrash, Goto
  <2>16. CASE TickLeaves  BY <2>16 DEF TickLeaves, Goto
  <2>17. CASE Teardown  BY <2>17 DEF Teardown, Goto
  <2>18. ASSUME NEW f \in Files, WatchFile(f)  PROVE TypeOK'
    BY <2>18 DEF WatchFile
  <2>19. ASSUME NEW f \in Files, Edit(f)  PROVE TypeOK'
    BY <2>19, NotifyType DEF Edit
  <2>20. ASSUME NEW f \in Files, Replace(f)  PROVE TypeOK'
    BY <2>20 DEF Replace
  <2>21. CASE UNCHANGED vars  BY <2>21
  <2> HIDE DEF TypeOK, vars
  <2> QED
    BY <2>1, <2>2, <2>3, <2>4, <2>5, <2>6, <2>7, <2>8, <2>9, <2>10, <2>11, <2>12,
       <2>13, <2>14, <2>15, <2>16, <2>17, <2>18, <2>19, <2>20, <2>21
    DEF Next, MainStep, UpdaterStep, Terminated
<1> QED  BY <1>1, <1>2, PTL DEF Spec

(***************************************************************************)
(* The swap of libraries: SwapInv is inductive relative to the types.      *)
(***************************************************************************)

(* Steps that leave the libraries, the number, the mutex and the names     *)
(* alone preserve SwapInv when they move no thread.                        *)
LEMMA SwapFrame ==
  ASSUME SwapInv, UNCHANGED <<pc, mutex, libVars, num, running, names>>
  PROVE  SwapInv'
  BY DEF SwapInv, StartupInv, HandleInv, MutexInv, OnlyReloadsDangle, libVars

LEMMA LoadStepSwap ==
  ASSUME TypeOK, SwapInv, ProcessRuns, NEW t \in Threads, LoadStep(t)
  PROVE  SwapInv'
<1> USE DEF SwapInv, StartupInv, HandleInv, MutexInv, OnlyReloadsDangle,
            Threads, UpdaterPlaces, LoadPlaces, NoLib, libVars, buildVars, gameVars, Goto
<1>0. /\ pc \in [Threads -> Places] /\ num \in Nat /\ names \subseteq Nat
      /\ mapped \subseteq Nat /\ loaded \in Nat \cup {-1} /\ gameTick \in Nat \cup {-1}
  BY DEF TypeOK, NoLib
<1>1. CASE CompileStart(t)  BY <1>0, <1>1 DEF CompileStart
<1>2. CASE CompileExitsZero(t)  BY <1>0, <1>2 DEF CompileExitsZero
<1>3. CASE CompileKilled(t)  BY <1>0, <1>3 DEF CompileKilled
<1>4. CASE CompileFails(t)  BY <1>0, <1>4 DEF CompileFails
<1>5. CASE OpenLib(t)  BY <1>0, <1>5 DEF OpenLib
<1>6. CASE OpenFails(t)  BY <1>0, <1>6 DEF OpenFails, Fail, UpdaterDies
<1>7. CASE Lookup(t)  BY <1>0, <1>7 DEF Lookup
<1>8. CASE SymbolMissing(t)  BY <1>0, <1>8 DEF SymbolMissing, Fail, UpdaterDies
<1> QED  BY <1>1, <1>2, <1>3, <1>4, <1>5, <1>6, <1>7, <1>8 DEF LoadStep

LEMMA NextSwap ==
  ASSUME TypeOK, SwapInv, [Next]_vars
  PROVE  SwapInv'
<1>1. ASSUME ProcessRuns, NEW t \in Threads, LoadStep(t)  PROVE SwapInv'
  BY <1>1, LoadStepSwap
<1>2. ASSUME NEW f \in Files, WatchFile(f) \/ Edit(f) \/ Replace(f)  PROVE SwapInv'
  BY <1>2, SwapFrame DEF WatchFile, Edit, Replace, buildVars, gameVars
<1>3. CASE UNCHANGED vars
  BY <1>3, SwapFrame DEF vars, buildVars, gameVars
<1> USE DEF SwapInv, StartupInv, HandleInv, MutexInv, OnlyReloadsDangle,
            Threads, UpdaterPlaces, LoadPlaces, libVars, buildVars, gameVars, Goto
<1>0. /\ pc \in [Threads -> Places] /\ num \in Nat /\ names \subseteq Nat
      /\ mapped \subseteq Nat /\ loaded \in Nat \cup {-1} /\ gameTick \in Nat \cup {-1}
  BY DEF TypeOK, NoLib
<1>4. CASE WatcherInit  BY <1>0, <1>4 DEF WatcherInit
<1>5. CASE ScanDone  BY <1>0, <1>5 DEF ScanDone
<1>6. CASE ScanFails  BY <1>0, <1>6 DEF ScanFails, UpdaterDies
<1>7. CASE Listen  BY <1>0, <1>7 DEF Listen
<1>8. CASE ListenFails  BY <1>0, <1>8 DEF ListenFails, UpdaterDies
<1>9. CASE UpdaterLock  BY <1>0, <1>9 DEF UpdaterLock
<1>10. CASE CloseOld
  (* main is in no frame, because the updater owns the mutex *)
  <2>1. pc["main"] \notin {"locked", "tick"}
    BY <1>10 DEF CloseOld
  <2> QED  BY <1>0, <1>10, <2>1 DEF CloseOld
<1>11. CASE StoreHandle  BY <1>0, <1>11 DEF StoreHandle
<1>12. CASE InitGame  BY <1>0, <1>12 DEF InitGame
<1>13. CASE Spawn  BY <1>0, <1>13 DEF Spawn
<1>14. CASE MainLock  BY <1>0, <1>14 DEF MainLock
<1>15. CASE CallTick
  <2>1. pc["updater"] # "unborn" /\ gameTick \in mapped
    BY <1>15 DEF CallTick
  <2> QED  BY <1>0, <1>15, <2>1 DEF CallTick
<1>16. CASE TickNone  BY <1>0, <1>16 DEF TickNone
<1>17. CASE TickCrash  BY <1>0, <1>17 DEF TickCrash
<1>18. CASE TickLeaves  BY <1>0, <1>18 DEF TickLeaves
<1>19. CASE Teardown  BY <1>0, <1>19 DEF Teardown
<1> HIDE DEF SwapInv
<1> QED
  BY <1>1, <1>2, <1>3, <1>4, <1>5, <1>6, <1>7, <1>8, <1>9, <1>10, <1>11, <1>12,
     <1>13, <1>14, <1>15, <1>16, <1>17, <1>18, <1>19
  DEF Next, MainStep, UpdaterStep, Terminated

THEOREM SwapInvariant == Spec => []SwapInv
<1>1. Init => SwapInv
  BY DEF Init, SwapInv, StartupInv, HandleInv, MutexInv, OnlyReloadsDangle, Threads, UpdaterPlaces, LoadPlaces
<1>2. TypeOK /\ SwapInv /\ [Next]_vars => SwapInv'
  BY NextSwap
<1> QED  BY <1>1, <1>2, TypeCorrect, PTL DEF Spec

(* main never calls a function of a library that is closed, and no library *)
(* is closed under a running frame, although the pointer is stored without *)
(* the mutex (hot_main.zig:60) and only the close is under it.             *)
THEOREM CallsStayMapped == Spec => []TickCodeMapped
<1>1. TypeOK /\ SwapInv => TickCodeMapped
  BY DEF TypeOK, Threads, UpdaterPlaces, LoadPlaces, SwapInv, StartupInv, HandleInv, MutexInv, TickCodeMapped
<1> QED  BY <1>1, TypeCorrect, SwapInvariant, PTL

(* At most the library being replaced and its replacement are open, and    *)
(* between two reloads only the one main calls.                            *)
THEOREM LibrariesDoNotPileUp == Spec => []NoLeakedLibrary
<1>1. TypeOK /\ SwapInv => NoLeakedLibrary
  BY DEF TypeOK, Threads, UpdaterPlaces, LoadPlaces, SwapInv, StartupInv, HandleInv, NoLeakedLibrary
<1> QED  BY <1>1, TypeCorrect, SwapInvariant, PTL

(* Only a reload makes a name dangle: the names given by the library that  *)
(* gameTick points to are always mapped.                                   *)
THEOREM OnlyReloadsMakeNamesDangle == Spec => []OnlyReloadsDangle
  BY SwapInvariant, PTL DEF SwapInv

(***************************************************************************)
(* The protocol: every step of the two threads is one of CodeSwap.         *)
(***************************************************************************)

(* Steps that touch neither the libraries nor main's call are stutters.    *)
LEMMA SwapStutter ==
  ASSUME UNCHANGED <<libVars, running>>, pc["main"] # "tick", pc'["main"] # "tick"
  PROVE  UNCHANGED Swap!swapVars
  BY DEF libVars, Swap!swapVars

LEMMA SwapStutterUpdater ==
  ASSUME UNCHANGED <<libVars, running>>, pc'["main"] = pc["main"]
  PROVE  UNCHANGED Swap!swapVars
  BY DEF libVars, Swap!swapVars

LEMMA LoadStepRefines ==
  ASSUME TypeOK, SwapInv, SwapInv', NEW t \in Threads, LoadStep(t)
  PROVE  [Swap!Next]_(Swap!swapVars)
<1>0. /\ pc \in [Threads -> Places] /\ num \in Nat /\ mapped \subseteq Nat
      /\ loaded \in Nat \cup {-1} /\ gameTick \in Nat \cup {-1}
  BY DEF TypeOK, NoLib
<1>1. CASE OpenLib(t)
  <2>1. \A m \in mapped : m < num
    BY <1>0, <1>1 DEF OpenLib, Goto, Threads, SwapInv, StartupInv, HandleInv
  <2>2. Swap!Open(num)
    BY <1>0, <1>1, <2>1 DEF OpenLib, Goto, Threads, gameVars, Swap!Open
  <2>3. num \in mapped' \ mapped
    BY <1>0, <1>1, <2>1 DEF OpenLib
  <2> QED  BY <2>2, <2>3 DEF Swap!Next
<1>2. CASE Lookup(t)
  <2>1. num \in mapped /\ gameTick < num
    BY <1>0, <1>2 DEF Lookup, Goto, Threads, SwapInv, StartupInv, HandleInv, NoLib,
        LoadPlaces
  <2>2. Swap!Publish(num)
    BY <1>0, <1>2, <2>1 DEF Lookup, Goto, Threads, gameVars, Swap!Publish
  <2> QED  BY <2>1, <2>2 DEF Swap!Next
<1>3. CASE OpenFails(t) \/ SymbolMissing(t)
  BY <1>0, <1>3, SwapStutter, SwapStutterUpdater
  DEF OpenFails, SymbolMissing, Fail, UpdaterDies, Goto, Threads, gameVars
<1>4. CASE CompileStart(t) \/ CompileExitsZero(t) \/ CompileKilled(t) \/ CompileFails(t)
  BY <1>0, <1>4, SwapStutter, SwapStutterUpdater
  DEF CompileStart, CompileExitsZero, CompileKilled, CompileFails, Goto, Threads, gameVars
<1> QED  BY <1>1, <1>2, <1>3, <1>4 DEF LoadStep

LEMMA NextRefines ==
  ASSUME TypeOK, SwapInv, SwapInv', [Next]_vars
  PROVE  [Swap!Next]_(Swap!swapVars)
<1>0. /\ pc \in [Threads -> Places] /\ num \in Nat /\ mapped \subseteq Nat
      /\ loaded \in Nat \cup {-1} /\ gameTick \in Nat \cup {-1}
  BY DEF TypeOK, NoLib
<1>1. ASSUME NEW t \in Threads, LoadStep(t)  PROVE [Swap!Next]_(Swap!swapVars)
  BY <1>1, LoadStepRefines
<1>2. CASE \/ WatcherInit \/ ScanDone \/ ScanFails \/ Listen \/ ListenFails
           \/ UpdaterLock \/ StoreHandle
  BY <1>0, <1>2, SwapStutterUpdater
  DEF WatcherInit, ScanDone, ScanFails, Listen, ListenFails, UpdaterDies, UpdaterLock,
      StoreHandle, Goto, Threads, libVars, gameVars, Swap!swapVars
<1>3. ASSUME NEW f \in Files, WatchFile(f) \/ Edit(f) \/ Replace(f)
      PROVE  [Swap!Next]_(Swap!swapVars)
  BY <1>3, SwapStutterUpdater DEF WatchFile, Edit, Replace, gameVars
<1>4. CASE InitGame \/ Spawn \/ MainLock \/ Teardown
  BY <1>0, <1>4, SwapStutter
  DEF InitGame, Spawn, MainLock, Teardown, Goto, Threads, gameVars
<1>5. CASE UNCHANGED vars
  BY <1>5, SwapStutterUpdater DEF vars, gameVars
<1>6. CASE CloseOld
  <2>1. loaded \in mapped /\ loaded < gameTick /\ pc["main"] # "tick"
    BY <1>0, <1>6 DEF CloseOld, Goto, SwapInv, HandleInv, MutexInv
  <2>2. Swap!Retire(loaded)
    BY <1>0, <1>6, <2>1 DEF CloseOld, Goto, Threads, gameVars, Swap!Retire
  <2> QED  BY <2>1, <2>2 DEF Swap!Next
<1>7. CASE CallTick
  <2>1. gameTick \in mapped
    BY <1>7 DEF CallTick, Goto, SwapInv, StartupInv, HandleInv, MutexInv,
                UpdaterPlaces, LoadPlaces
  <2>2. Swap!Call
    BY <1>0, <1>7, <2>1 DEF CallTick, Goto, Threads, libVars, Swap!Call
  <2> QED  BY <2>2 DEF Swap!Next
<1>8. CASE TickNone \/ TickCrash \/ TickLeaves
  <2>1. Swap!Return
    BY <1>0, <1>8 DEF TickNone, TickCrash, TickLeaves, Goto, Threads, libVars, Swap!Return
  <2> QED  BY <2>1 DEF Swap!Next
<1> QED
  BY <1>1, <1>2, <1>3, <1>4, <1>5, <1>6, <1>7, <1>8
  DEF Next, MainStep, UpdaterStep, Terminated, Threads

(* The two threads and the one mutex of hot_main.zig implement CodeSwap:   *)
(* code is called only while open, replaced only by newer code, and closed *)
(* only when it neither runs nor will run again.                           *)
THEOREM HotReloadImplementsCodeSwap == Spec => ImplementsCodeSwap
<1>1. Init => Swap!Init
  BY DEF Init, Swap!Init, Threads, NoLib, Swap!None
<1>2. TypeOK /\ SwapInv /\ SwapInv' /\ [Next]_vars => [Swap!Next]_(Swap!swapVars)
  BY NextRefines
<1> QED
  BY <1>1, <1>2, TypeCorrect, SwapInvariant, PTL DEF Spec, ImplementsCodeSwap, Swap!Spec

(***************************************************************************)
(* Edits and versions.                                                     *)
(***************************************************************************)
LEMMA LoadStepEdits ==
  ASSUME TypeOK, EditInv, NEW t \in Threads, LoadStep(t)
  PROVE  EditInv'
<1> USE DEF EditInv, NoLostEdit, Goto, Threads, TypeOK, diskVars, buildVars
<1>1. CASE CompileStart(t)  BY <1>1 DEF CompileStart
<1>2. CASE CompileExitsZero(t) \/ CompileKilled(t) \/ CompileFails(t)
  BY <1>2 DEF CompileExitsZero, CompileKilled, CompileFails
<1>3. CASE OpenLib(t) \/ Lookup(t)  BY <1>3 DEF OpenLib, Lookup
<1>4. CASE OpenFails(t) \/ SymbolMissing(t)
  BY <1>4 DEF OpenFails, SymbolMissing, Fail, UpdaterDies
<1> QED  BY <1>1, <1>2, <1>3, <1>4 DEF LoadStep

LEMMA NextEdits ==
  ASSUME TypeOK, SwapInv, EditInv, [Next]_vars
  PROVE  EditInv'
<1>1. ASSUME NEW t \in Threads, LoadStep(t)  PROVE EditInv'
  BY <1>1, LoadStepEdits
<1> USE DEF EditInv, NoLostEdit, Goto, Threads, TypeOK, diskVars, buildVars
<1>2. ASSUME NEW f \in Files, Edit(f)  PROVE EditInv'
  BY <1>2 DEF Edit, Notify
<1>3. ASSUME NEW f \in Files, Replace(f)  PROVE EditInv'
  BY <1>3 DEF Replace
<1>4. ASSUME NEW f \in Files, WatchFile(f)  PROVE EditInv'
  BY <1>4 DEF WatchFile
<1>5. CASE Listen  BY <1>5 DEF Listen
<1>6. CASE WatcherInit \/ ScanDone \/ UpdaterLock \/ CloseOld \/ StoreHandle
  BY <1>6 DEF WatcherInit, ScanDone, UpdaterLock, CloseOld, StoreHandle
<1>7. CASE ScanFails \/ ListenFails  BY <1>7 DEF ScanFails, ListenFails, UpdaterDies
<1>8. CASE Spawn  BY <1>8 DEF Spawn, SwapInv, StartupInv
<1>9. CASE InitGame \/ MainLock \/ CallTick \/ TickNone \/ TickCrash \/ TickLeaves \/ Teardown
  BY <1>9 DEF InitGame, MainLock, CallTick, TickNone, TickCrash, TickLeaves, Teardown
<1>10. CASE UNCHANGED vars  BY <1>10 DEF vars
<1> HIDE DEF EditInv
<1> QED
  BY <1>1, <1>2, <1>3, <1>4, <1>5, <1>6, <1>7, <1>8, <1>9, <1>10
  DEF Next, MainStep, UpdaterStep, Terminated

(* An edit that raised an event is never forgotten while the updater lives:*)
(* its event is unread, or a compilation that will see it is due.          *)
THEOREM EditsAreRemembered == Spec => []NoLostEdit
<1>1. Init => EditInv
  BY DEF Init, EditInv, NoLostEdit
<1>2. TypeOK /\ SwapInv /\ EditInv /\ [Next]_vars => EditInv'
  BY NextEdits
<1>3. EditInv => NoLostEdit
  BY DEF EditInv
<1> QED  BY <1>1, <1>2, <1>3, TypeCorrect, SwapInvariant, PTL DEF Spec

LEMMA NextFresh ==
  ASSUME ~ KillableCompiler, TypeOK, SwapInv, FreshInv, [Next]_vars
  PROVE  FreshInv'
<1> USE DEF FreshInv, ReloadIsFresh, Goto, Threads, TypeOK, libVars, buildVars
<1>1. ASSUME NEW t \in Threads, LoadStep(t)  PROVE FreshInv'
  <2>1. t = "main" /\ pc["main"] \in LoadPlaces => pc["updater"] = "unborn"
    BY DEF SwapInv, StartupInv, LoadPlaces
  <2>2. CASE CompileStart(t)  BY <2>1, <2>2 DEF CompileStart, LoadPlaces
  <2>3. CASE CompileExitsZero(t)  BY <2>1, <2>3 DEF CompileExitsZero, LoadPlaces
  <2>4. CASE CompileKilled(t)  BY <2>4 DEF CompileKilled
  <2>5. CASE CompileFails(t)  BY <2>5 DEF CompileFails
  <2>6. CASE OpenLib(t)  BY <2>6 DEF OpenLib
  <2>7. CASE Lookup(t)  BY <2>1, <2>7 DEF Lookup, LoadPlaces
  <2>8. CASE OpenFails(t) \/ SymbolMissing(t)
    BY <2>8 DEF OpenFails, SymbolMissing, Fail, UpdaterDies
  <2> QED  BY <1>1, <2>2, <2>3, <2>4, <2>5, <2>6, <2>7, <2>8 DEF LoadStep
<1>2. ASSUME NEW f \in Files, Edit(f) \/ Replace(f) \/ WatchFile(f)  PROVE FreshInv'
  BY <1>2 DEF Edit, Replace, WatchFile
<1>3. CASE \/ WatcherInit \/ ScanDone \/ ScanFails \/ Listen \/ ListenFails
           \/ UpdaterLock \/ CloseOld \/ StoreHandle
  BY <1>3 DEF WatcherInit, ScanDone, ScanFails, Listen, ListenFails, UpdaterDies,
              UpdaterLock, CloseOld, StoreHandle
<1>4. CASE \/ InitGame \/ Spawn \/ MainLock \/ CallTick
           \/ TickNone \/ TickCrash \/ TickLeaves \/ Teardown
  BY <1>4 DEF InitGame, Spawn, MainLock, CallTick, TickNone, TickCrash, TickLeaves, Teardown
<1>5. CASE UNCHANGED vars  BY <1>5 DEF vars
<1> HIDE DEF FreshInv
<1> QED
  BY <1>1, <1>2, <1>3, <1>4, <1>5 DEF Next, MainStep, UpdaterStep, Terminated

(* Unless a signal ends the compiler, what a reload puts in place is at    *)
(* least as new as the sources when its compilation began.                 *)
THEOREM ReloadsAreFresh == ~ KillableCompiler /\ Spec => []ReloadIsFresh
<1> SUFFICES ASSUME ~ KillableCompiler  PROVE Spec => []ReloadIsFresh
  OBVIOUS
<1>1. Init => FreshInv
  BY DEF Init, FreshInv, ReloadIsFresh, Threads
<1>2. TypeOK /\ SwapInv /\ FreshInv /\ [Next]_vars => FreshInv'
  BY NextFresh
<1>3. FreshInv => ReloadIsFresh
  BY DEF FreshInv
<1> QED  BY <1>1, <1>2, <1>3, TypeCorrect, SwapInvariant, PTL DEF Spec

=============================================================================
