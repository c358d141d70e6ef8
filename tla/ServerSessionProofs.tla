------------------------ MODULE ServerSessionProofs ------------------------
(***************************************************************************)
(* For every number of sockets, events and queries: the worker never uses  *)
(* a socket that is gone, the destructor leaves none, and the symbol queue *)
(* has one reader.                                                         *)
(***************************************************************************)
EXTENDS ServerSession, SequenceTheorems, TLAPS

LEMMA SessionInvInit == Init => SessionInv
<1> SUFFICES ASSUME Init PROVE SessionInv
  OBVIOUS
<1> USE ServerSessionAssumption DEF Init
<1>1. SocketTypes
  <2>1. accepted \in 0 .. MaxSockets /\ sock \in 0 .. accepted
    OBVIOUS
  <2>2. connected \in BOOLEAN /\ stage \in {"main", "drain", "last", "parting"}
    OBVIOUS
  <2>3. destroyed \in [1 .. MaxSockets -> Nat]
    <3>1. 0 \in Nat /\ destroyed = [s \in 1 .. MaxSockets |-> 0]
      OBVIOUS
    <3> QED BY ONLY <3>1
  <2> QED BY <2>1, <2>2, <2>3 DEF SocketTypes
<1>2. PlacesInv
  BY DEF PlacesInv, Session
<1>3. OthersInv
  BY DEF OthersInv
<1>4. EndInv
  BY DEF EndInv
<1> QED BY <1>1, <1>2, <1>3, <1>4 DEF SessionInv

(* Steps that leave the sockets, and the places that matter, alone. *)
LEMMA Frame ==
  ASSUME SessionInv, UNCHANGED <<socketVars, worker, stage, main, symbol>>
  PROVE  SessionInv'
  BY DEF SessionInv, SocketTypes, PlacesInv, OthersInv, EndInv, Session, socketVars

(* Steps of a session between its places, "done" included. *)
LEMMA WithinSession ==
  ASSUME SessionInv, worker \in Session, worker' \in Session \cup {"done"},
         stage' \in {"main", "drain", "last", "parting"},
         stage' \in {"drain", "last"} => symbol = "gone",
         worker' \in {"symbols", "terminate"} => stage' \in {"drain", "last"},
         UNCHANGED <<socketVars, main, symbol>>
  PROVE  SessionInv'
  BY DEF SessionInv, SocketTypes, PlacesInv, OthersInv, EndInv, Session, socketVars

(* A socket is accepted: the one before is closed or there was none. *)
LEMMA AcceptKeeps ==
  ASSUME SessionInv, NEW next \in {"handshake", "rejectHandshake"}, NEW again \in {"wait", "reject"},
         worker \in {"accept", "rejectAccept"}, Accept(next, again), UNCHANGED <<main, symbol>>
  PROVE  SessionInv'
<1> USE DEF SessionInv, SocketTypes, OthersInv, GoTo
<1>0. main # "deleted" /\ ~ connected /\ (sock # 0 => destroyed[sock] > 0)
  BY DEF PlacesInv, EndInv
<1>1. CASE accepted < MaxSockets /\ accepted' = accepted + 1 /\ sock' = accepted + 1
           /\ GoTo(next) /\ UNCHANGED <<connected, destroyed>>
  <2>1. SocketTypes'
    BY <1>1, ServerSessionAssumption
  <2>2. accepted + 1 \in accepted + 1 .. MaxSockets /\ destroyed[accepted + 1] = 0
    BY <1>1, ServerSessionAssumption
  <2>3. PlacesInv'
    BY <1>0, <1>1, <2>2 DEF PlacesInv, Session
  <2>4. \A s \in 1 .. accepted : destroyed[s] > 0
    BY <1>0
  <2>5. OthersInv'
    BY <1>1, <2>4
  <2>6. EndInv'
    BY <1>0, <1>1 DEF EndInv
  <2> QED BY <2>1, <2>3, <2>5, <2>6
<1>2. CASE sock' = 0 /\ GoTo(again) /\ UNCHANGED <<connected, accepted, destroyed>>
  <2>1. SocketTypes'
    BY <1>2, ServerSessionAssumption
  <2>2. PlacesInv'
    BY <1>0, <1>2 DEF PlacesInv, Session
  <2>3. OthersInv'
    BY <1>0, <1>2
  <2>4. EndInv'
    BY <1>0, <1>2 DEF EndInv
  <2> QED BY <2>1, <2>2, <2>3, <2>4
<1> QED BY <1>1, <1>2 DEF Accept

(* The socket is destroyed, and m_sock cleared where it may be used again. *)
LEMMA DestroyKeeps ==
  ASSUME SessionInv, worker \in {"handshake", "broken", "rejectHandshake"}, main # "deleted",
         DestroySocket, sock' = 0 \/ (sock' = sock /\ worker' = "reject"),
         connected' = FALSE, worker' \in {"wait", "reject"},
         UNCHANGED <<stage, main, symbol>>
  PROVE  SessionInv'
<1> USE DEF SessionInv, SocketTypes, OthersInv, DestroySocket
<1>1. sock \in 1 .. MaxSockets /\ destroyed[sock] \in Nat
  BY ServerSessionAssumption DEF PlacesInv, Session
<1>2. destroyed'[sock] > 0 /\ \A s \in 1 .. MaxSockets : s # sock => destroyed'[s] = destroyed[s]
  BY <1>1
<1>3. SocketTypes'
  <2>1. destroyed' \in [1 .. MaxSockets -> Nat]
    BY <1>1
  <2>2. sock' \in 0 .. accepted' /\ accepted' = accepted
    BY <1>1, ServerSessionAssumption
  <2> QED BY <2>1, <2>2
<1>4. PlacesInv'
  BY <1>1, <1>2 DEF PlacesInv, Session
<1>5. OthersInv'
  BY <1>1, <1>2, ServerSessionAssumption
<1>6. EndInv'
  BY DEF EndInv
<1> QED BY <1>3, <1>4, <1>5, <1>6

LEMMA WorkerKeeps ==
  ASSUME SessionInv, Worker
  PROVE  SessionInv'
<1> USE DEF symbolVars, mainVars, socketVars, GoTo, GoOn, Session
<1>0. worker # "done" /\ main # "deleted" /\ UNCHANGED <<main, symbol>>
  <2>1. worker # "done"
    BY DEF Worker, Deaf, Wait, AcceptServer, HandshakeFails, HandshakeSucceeds, Dequeue,
       DequeueSerial, Judge, QueriesDone, ReadFails, AnswerNow, QueueSymbolQuery, ServerTerminates,
       HandleDisconnect, ClearWhileParting, HandleSymbols, Broken, SymbolWait, SendTerminate,
       Reject, RejectAccept, RejectHandshake
  <2> QED BY <2>1 DEF Worker, SessionInv, EndInv
<1>1. CASE Deaf
  BY <1>0, <1>1 DEF Deaf, SessionInv, SocketTypes, PlacesInv, OthersInv, EndInv
<1>2. CASE Wait
  BY <1>0, <1>2 DEF Wait, SessionInv, SocketTypes, PlacesInv, OthersInv, EndInv
<1>3. CASE AcceptServer
  BY <1>0, <1>3, AcceptKeeps DEF AcceptServer
<1>4. CASE HandshakeFails
  <2>1. connected' = FALSE
    BY <1>4 DEF HandshakeFails, DropSocket, DestroySocket, SessionInv, SocketTypes, PlacesInv
  <2> QED BY <1>0, <1>4, <2>1, DestroyKeeps DEF HandshakeFails, DropSocket
<1>5. CASE HandshakeSucceeds
  BY <1>0, <1>5 DEF HandshakeSucceeds, SessionInv, SocketTypes, PlacesInv, OthersInv, EndInv
<1>6. CASE Dequeue
  BY <1>0, <1>6, WithinSession DEF Dequeue, SessionInv, SocketTypes, EndInv
<1>7. CASE DequeueSerial
  BY <1>0, <1>7, WithinSession DEF DequeueSerial, SessionInv, SocketTypes, EndInv
<1>8. CASE Judge
  <2>1. CASE JudgeMain
    BY <1>0, <1>8, <2>1, WithinSession DEF Judge, JudgeMain, SessionInv, SocketTypes, EndInv
  <2>2. CASE JudgeDrain
    BY <1>0, <1>8, <2>2, WithinSession DEF Judge, JudgeDrain, SessionInv, SocketTypes, EndInv
  <2>3. CASE JudgeLast
    BY <1>0, <1>8, <2>3, WithinSession DEF Judge, JudgeLast, SessionInv, SocketTypes, EndInv
  <2> QED BY <1>8, <2>1, <2>2, <2>3 DEF Judge
<1>9. CASE QueriesDone
  <2>1. worker' \in Session \cup {"done"} /\ (worker' \in {"symbols", "terminate"} => stage \in {"drain", "last"})
    BY <1>9 DEF QueriesDone, SessionInv, SocketTypes
  <2> QED BY <1>0, <1>9, <2>1, WithinSession DEF QueriesDone, SessionInv, SocketTypes, EndInv
<1>10. CASE ReadFails
  BY <1>0, <1>10, WithinSession DEF ReadFails, Ended, SessionInv, SocketTypes, EndInv
<1>11. CASE AnswerNow
  BY <1>0, <1>11, Frame DEF AnswerNow, loopVars
<1>12. CASE QueueSymbolQuery
  BY <1>0, <1>12, Frame DEF QueueSymbolQuery, loopVars
<1>13. CASE ServerTerminates
  BY <1>0, <1>13, WithinSession DEF ServerTerminates, Ended, SessionInv, SocketTypes, EndInv
<1>14. CASE HandleDisconnect
  BY <1>0, <1>14, WithinSession DEF HandleDisconnect, Ended, SessionInv, SocketTypes, EndInv
<1>15. CASE ClearWhileParting
  BY <1>0, <1>15, WithinSession DEF ClearWhileParting, SessionInv, SocketTypes, EndInv
<1>16. CASE HandleSymbols
  BY <1>0, <1>16, WithinSession, Frame DEF HandleSymbols, loopVars, SessionInv, SocketTypes, EndInv
<1>17. CASE Broken
  <2>1. CASE shutdown
    BY <1>0, <1>17, <2>1, WithinSession DEF Broken, SessionInv, SocketTypes, EndInv
  <2>2. CASE ~ shutdown
    BY <1>0, <1>17, <2>2, DestroyKeeps DEF Broken
  <2> QED BY <2>1, <2>2
<1>18. CASE SymbolWait
  BY <1>0, <1>18, WithinSession DEF SymbolWait, SessionInv, SocketTypes, EndInv
<1>19. CASE SendTerminate
  BY <1>0, <1>19, WithinSession DEF SendTerminate, SessionInv, SocketTypes, EndInv
<1>20. CASE Reject
  BY <1>0, <1>20 DEF Reject, SessionInv, SocketTypes, PlacesInv, OthersInv, EndInv
<1>21. CASE RejectAccept
  BY <1>0, <1>21, AcceptKeeps DEF RejectAccept
<1>22. CASE RejectHandshake
  <2>1. connected' = FALSE
    BY <1>22 DEF RejectHandshake, DropSocket, DestroySocket, SessionInv, SocketTypes, PlacesInv
  <2> QED BY <1>0, <1>22, <2>1, DestroyKeeps DEF RejectHandshake, DropSocket
<1> QED BY <1>1, <1>2, <1>3, <1>4, <1>5, <1>6, <1>7, <1>8, <1>9, <1>10, <1>11, <1>12, <1>13,
           <1>14, <1>15, <1>16, <1>17, <1>18, <1>19, <1>20, <1>21, <1>22 DEF Worker

LEMMA DestructorKeeps ==
  ASSUME SessionInv, Destructor
  PROVE  SessionInv'
<1> USE DEF socketVars, loopVars, symbolVars
<1>1. CASE Shutdown \/ JoinSymbol
  <2>1. main # "deleted" /\ main' # "deleted" /\ UNCHANGED <<socketVars, worker, stage, symbol>>
    BY <1>1 DEF Destructor, Shutdown, JoinSymbol, Delete
  <2> QED BY <2>1 DEF SessionInv, SocketTypes, PlacesInv, OthersInv, EndInv, Session
<1>2. CASE Delete
  <2> USE <1>2 DEF Delete, Destructor, SessionInv, SocketTypes, OthersInv
  <2>1. worker' = "done" /\ main # "deleted" /\ main' = "deleted" /\ UNCHANGED <<stage, symbol, sock, connected, accepted>>
    OBVIOUS
  <2>2. CASE sock = 0
    BY <2>1, <2>2 DEF PlacesInv, EndInv, Session
  <2>3. CASE sock # 0
    <3>1. sock \in 1 .. MaxSockets /\ destroyed[sock] \in Nat
      BY <2>3, ServerSessionAssumption
    <3>2. destroyed' = [destroyed EXCEPT ![sock] = @ + 1]
      BY <2>3
    <3>3. SocketTypes' /\ destroyed'[sock] > 0
          /\ \A s \in 1 .. MaxSockets : s # sock => destroyed'[s] = destroyed[s]
      BY <2>1, <3>1, <3>2
    <3>4. OthersInv'
      BY <2>1, <3>1, <3>3, ServerSessionAssumption
    <3>5. PlacesInv' /\ EndInv'
      BY <2>1, <3>3 DEF PlacesInv, EndInv, Session
    <3> QED BY <3>3, <3>4, <3>5
  <2> QED BY <2>2, <2>3
<1> QED BY <1>1, <1>2 DEF Destructor

LEMMA SymbolWorkerKeeps ==
  ASSUME SessionInv, SymbolWorker
  PROVE  SessionInv'
<1>1. UNCHANGED <<socketVars, worker, stage, main>> /\ (symbol # "gone")
  BY DEF SymbolWorker, loopVars, mainVars, SymbolCheck, SymbolFront, SymbolAnswer, SymbolPop
<1> QED BY <1>1 DEF SessionInv, SocketTypes, PlacesInv, OthersInv, EndInv, Session, socketVars

(* The invariant of the session: for each place of the worker, which       *)
(* socket is open, and who may read the symbol queue.                      *)
THEOREM SessionInvariant == Spec => []SessionInv
<1>1. SessionInv /\ [Next]_vars => SessionInv'
  <2> SUFFICES ASSUME SessionInv, [Next]_vars PROVE SessionInv'
    OBVIOUS
  <2>1. CASE Worker
    BY <2>1, WorkerKeeps
  <2>2. CASE SymbolWorker
    BY <2>2, SymbolWorkerKeeps
  <2>3. CASE Destructor
    BY <2>3, DestructorKeeps
  <2>4. CASE Server
    BY <2>4, Frame DEF Server, loopVars, symbolVars, mainVars
  <2>5. CASE Over \/ UNCHANGED vars
    BY <2>5, Frame DEF Over, vars, loopVars, symbolVars, mainVars
  <2>6. CASE \E queue \in {"events", "serial"} : Emit(queue)
    BY <2>6, Frame DEF Emit, loopVars, symbolVars
  <2> QED BY <2>1, <2>2, <2>3, <2>4, <2>5, <2>6 DEF Next
<1> QED BY SessionInvInit, <1>1, PTL DEF Spec

(* From the handshake to the end of a session, whichever way it ends,      *)
(* m_sock points to a socket that was not destroyed.                       *)
THEOREM SocketsAreThere == Spec => []SocketIsThere
<1>1. SessionInv => SocketIsThere
  <2> SUFFICES ASSUME SessionInv PROVE SocketIsThere
    OBVIOUS
  <2>1. worker \in Session => main # "deleted" /\ connected
    BY DEF SessionInv, PlacesInv, EndInv, Session
  <2> QED BY <2>1 DEF SessionInv, PlacesInv, SocketIsThere, Session
<1> QED BY SessionInvariant, <1>1, PTL

(* When the destructor returns, every socket that was ever accepted has    *)
(* been destroyed.                                                         *)
THEOREM NoSocketIsLeft == Spec => []NoSocketLeaks
<1>1. SessionInv => NoSocketLeaks
  BY DEF SessionInv, SocketTypes, OthersInv, EndInv, NoSocketLeaks
<1> QED BY SessionInvariant, <1>1, PTL

(* The worker reads the symbol queue only when the symbol thread is gone.  *)
THEOREM SymbolsHaveOneReader == Spec => []OneSymbolReader
<1>1. SessionInv => OneSymbolReader
  BY DEF SessionInv, EndInv, OneSymbolReader
<1> QED BY SessionInvariant, <1>1, PTL
-----------------------------------------------------------------------------
(* What was queued is delivered. *)
USE DEF Session

LEMMA PlusItems ==
  ASSUME NEW a \in Items, NEW b \in Items
  PROVE  /\ Plus(a, b) \in Items
         /\ Plus(a, b).events = a.events + b.events
         /\ Plus(a, b).serial = a.serial + b.serial
<1>1. DOMAIN a = {"events", "serial", "answers"}
  BY DEF Items
<1>2. Plus(a, b) = [events |-> a.events + b.events, serial |-> a.serial + b.serial,
                    answers |-> a.answers + b.answers]
  BY <1>1 DEF Plus
<1>3. a.events \in Nat /\ a.serial \in Nat /\ a.answers \in Nat
      /\ b.events \in Nat /\ b.serial \in Nat /\ b.answers \in Nat
  BY DEF Items
<1>4. a.events + b.events \in Nat /\ a.serial + b.serial \in Nat /\ a.answers + b.answers \in Nat
  BY <1>3
<1> QED BY <1>2, <1>4 DEF Items

LEMMA NothingIsItems == Nothing \in Items /\ Nothing.events = 0 /\ Nothing.serial = 0
  BY DEF Nothing, Items

LEMMA ItemsAreNats ==
  ASSUME NEW a \in Items
  PROVE  a.events \in Nat /\ a.serial \in Nat
  BY DEF Items

(* What a step that sends does: nothing the server has is lost, and what   *)
(* is under way counts the new items in, as long as the server is there.   *)
Sends(e, n) ==
  /\ buffer' \in Items /\ received' \in Items
  /\ received'.events >= received.events /\ received'.serial >= received.serial
  /\ link = "up" => SentEvents' = SentEvents + e /\ SentSerial' = SentSerial + n

LEMMA AppendSends ==
  ASSUME buffer \in Items, received \in Items, NEW items \in Items, AppendItems(items)
  PROVE  Sends(items.events, items.serial) /\ link' = link /\ parted' = parted
<1> DEFINE e0 == buffer.events
           s0 == buffer.serial
           e1 == received.events
           s1 == received.serial
           ie == items.events
           is == items.serial
<1>0. /\ e0 \in Nat /\ s0 \in Nat /\ e1 \in Nat /\ s1 \in Nat /\ ie \in Nat /\ is \in Nat
  BY ItemsAreNats
<1>s. /\ SentEvents = e1 + e0 /\ SentSerial = s1 + s0
      /\ SentEvents' = e1' + e0' /\ SentSerial' = s1' + s0'
  BY DEF SentEvents, SentSerial
<1>k. /\ buffer' \in Items /\ received' \in Items /\ e1' >= e1 /\ s1' >= s1
      /\ link = "up" => SentEvents' = SentEvents + ie /\ SentSerial' = SentSerial + is
      => Sends(items.events, items.serial)
  BY DEF Sends
<1>l. link' = link /\ parted' = parted
  BY DEF AppendItems
<1>1. CASE buffer' = Plus(buffer, items) /\ received' = received
  <2>1. buffer' \in Items /\ e0' = e0 + ie /\ s0' = s0 + is
    BY <1>1, PlusItems
  <2>2. received' \in Items /\ e1' = e1 /\ s1' = s1
    BY <1>1
  <2>3. e1' >= e1 /\ s1' >= s1 /\ SentEvents' = SentEvents + ie /\ SentSerial' = SentSerial + is
    <3> HIDE DEF e0, s0, e1, s1, ie, is
    <3> QED BY <1>0, <1>s, <2>1, <2>2
  <2> QED BY <1>k, <1>l, <2>1, <2>2, <2>3
<1>2. CASE buffer' = items /\ received' = IF link = "up" THEN Plus(received, buffer) ELSE received
  <2>0. buffer' \in Items /\ e0' = ie /\ s0' = is
    BY <1>2
  <2>1. CASE link = "up"
    <3>1. received' \in Items /\ e1' = e1 + e0 /\ s1' = s1 + s0
      BY <1>2, <2>1, PlusItems
    <3>2. e1' >= e1 /\ s1' >= s1 /\ SentEvents' = SentEvents + ie /\ SentSerial' = SentSerial + is
      <4> HIDE DEF e0, s0, e1, s1, ie, is
      <4> QED BY <1>0, <1>s, <2>0, <3>1
    <3> QED BY <1>k, <1>l, <2>0, <3>1, <3>2
  <2>2. CASE link # "up"
    <3>1. received' \in Items /\ e1' = e1 /\ s1' = s1
      BY <1>2, <2>2
    <3>2. e1' >= e1 /\ s1' >= s1
      <4> HIDE DEF e1, s1
      <4> QED BY <1>0, <3>1
    <3> QED BY <1>k, <1>l, <2>0, <2>2, <3>1, <3>2
  <2> QED BY <2>1, <2>2
<1> QED BY <1>1, <1>2 DEF AppendItems

LEMMA CommitSends ==
  ASSUME buffer \in Items, received \in Items, Commit
  PROVE  /\ Sends(0, 0) /\ link' = link /\ parted' = parted
         /\ link = "up" => received'.events = SentEvents /\ received'.serial = SentSerial
<1> USE PlusItems, NothingIsItems, ItemsAreNats DEF Sends, SentEvents, SentSerial, Commit
<1>1. buffer' \in Items /\ received' \in Items /\ received'.events >= received.events
      /\ received'.serial >= received.serial
  OBVIOUS
<1>2. link = "up" => received'.events = SentEvents /\ received'.serial = SentSerial
  OBVIOUS
<1>3. buffer'.events = 0 /\ buffer'.serial = 0
  OBVIOUS
<1>4. received'.events \in Nat /\ received'.serial \in Nat
  BY <1>1
<1> QED BY <1>1, <1>2, <1>3, <1>4

LEMMA QuietSends ==
  ASSUME buffer \in Items, received \in Items, UNCHANGED sendVars
  PROVE  Sends(0, 0)
  BY ItemsAreNats DEF Sends, SentEvents, SentSerial, sendVars

(* Steps of a session that neither empty a queue nor drop the connection.  *)
LEMMA SessionStep ==
  ASSUME DeliveryInv, worker \in Session, worker' \in Session \cup {"done"},
         Sends(0, 0), StagesInv', InboxInv',
         stage' = stage \/ stage' = "parting" \/ (stage = "main" /\ stage' = "drain"),
         worker' \notin {"dequeueSerial", "judge", "terminate"},
         events' \in [events : Nat, answers : Nat], events'.events = events.events,
         UNCHANGED <<serial, link, parted, main, shutdown, emitted, due>>
  PROVE  DeliveryInv'
<1>1. QueueTypes'
  BY DEF DeliveryInv, QueueTypes, Sends
<1>2. NothingLost'
  <2> SUFFICES ASSUME worker' \in Session, stage' \in {"main", "drain"}, Stays'
               PROVE  emitted'.events <= SentEvents' + events'.events /\ emitted'.serial <= SentSerial' + serial'
    BY DEF NothingLost
  <2>1. link = "up" /\ Stays /\ stage \in {"main", "drain"}
    BY DEF Stays
  <2>2. emitted.events <= SentEvents + events.events /\ emitted.serial <= SentSerial + serial
    BY <2>1 DEF DeliveryInv, NothingLost
  <2>3. SentEvents' = SentEvents + 0 /\ SentSerial' = SentSerial + 0
    BY <2>1 DEF Sends
  <2>4. SentEvents \in Nat /\ SentSerial \in Nat
    BY ItemsAreNats DEF DeliveryInv, QueueTypes, SentEvents, SentSerial
  <2> QED BY <2>2, <2>3, <2>4
<1>3. FoundEmpty'
  BY DEF FoundEmpty
<1>4. NothingLeftBehind'
  <2>1. /\ due.events \in Nat /\ due.serial \in Nat
        /\ received.events \in Nat /\ received.serial \in Nat
        /\ received'.events \in Nat /\ received'.serial \in Nat
    BY DEF DeliveryInv, QueueTypes, Sends, Items, Counts
  <2>2. stage' = "last" => stage = "last"
    OBVIOUS
  <2> QED BY <2>1, <2>2 DEF DeliveryInv, NothingLeftBehind, Sends
<1> QED BY <1>1, <1>2, <1>3, <1>4 DEF DeliveryInv

(* The same where the step is quiet.                                       *)
LEMMA TailOfInbox ==
  ASSUME InboxInv, inbox # <<>>, inbox' = Tail(inbox), parted' = parted
  PROVE  InboxInv'
<1>1. inbox' \in Seq(Packets) /\ Len(inbox') = Len(inbox) - 1 /\ Len(inbox) \in Nat
  BY DEF InboxInv
<1>2. ASSUME NEW i \in DOMAIN inbox' PROVE i + 1 \in DOMAIN inbox /\ inbox'[i] = inbox[i + 1]
  <2>1. i \in 1 .. Len(inbox) - 1
    BY <1>1
  <2> QED BY <1>1, <2>1 DEF InboxInv
<1> QED BY <1>1, <1>2 DEF InboxInv

LEMMA AppendToInbox ==
  ASSUME InboxInv, NEW q \in Packets, inbox' = Append(inbox, q),
         q = "disconnect" => parted', parted' \in BOOLEAN, parted => parted'
  PROVE  InboxInv'
<1>1. inbox' \in Seq(Packets) /\ Len(inbox') = Len(inbox) + 1 /\ Len(inbox) \in Nat
  BY DEF InboxInv
<1>2. ASSUME NEW i \in DOMAIN inbox', inbox'[i] = "disconnect" PROVE parted'
  <2>1. CASE i \in DOMAIN inbox
    BY <2>1, <1>2 DEF InboxInv
  <2>2. CASE i \notin DOMAIN inbox
    <3>1. i = Len(inbox) + 1
      BY <1>1, <2>2 DEF InboxInv
    <3> QED BY <3>1, <1>2 DEF InboxInv
  <2> QED BY <2>1, <2>2
<1> QED BY <1>1, <1>2 DEF InboxInv

Outside == {"deaf", "wait", "accept", "handshake", "reject", "rejectAccept", "rejectHandshake"}

(* Steps before and after the session, where nothing is sent. *)
LEMMA OutsideStep ==
  ASSUME DeliveryInv, worker' \in Outside \cup {"done"}, stage' = stage,
         stage \notin {"drain", "last"}, InboxInv',
         worker' \in {"wait", "accept", "handshake"} =>
           worker \in {"wait", "accept", "handshake"} /\ UNCHANGED queueVars,
         events' \in [events : Nat, answers : Nat], serial' \in Nat,
         UNCHANGED <<sendVars, main, shutdown, emitted, due>>
  PROVE  DeliveryInv'
<1>1. QueueTypes'
  BY DEF DeliveryInv, QueueTypes, sendVars
<1>2. StagesInv'
  BY DEF StagesInv, Outside
<1>3. NothingLost'
  BY DEF DeliveryInv, NothingLost, Outside, queueVars
<1>4. FoundEmpty' /\ NothingLeftBehind'
  BY DEF FoundEmpty, NothingLeftBehind
<1> QED BY <1>1, <1>2, <1>3, <1>4 DEF DeliveryInv

LEMMA DequeueKeeps ==
  ASSUME DeliveryInv, Dequeue, UNCHANGED mainVars
  PROVE  DeliveryInv'
<1> USE DEF Dequeue, socketVars, mainVars
<1>1. PICK b \in Batches :
        /\ events' = [events |-> events.events - b.events, answers |-> events.answers - b.answers]
        /\ IF b.events + b.answers = 0
           THEN status' = "empty" /\ UNCHANGED <<sendVars, link, asked, unanswered, parted, told>>
           ELSE /\ AppendItems([events |-> b.events, serial |-> 0, answers |-> b.answers])
                /\ status' \in IF link = "up" THEN {"sent"} ELSE {"sent", "lost"}
  OBVIOUS
<1>2. /\ b.events \in 0 .. events.events /\ b.answers \in 0 .. events.answers
      /\ events.events \in Nat /\ events.answers \in Nat
      /\ b.events + b.answers = 0 => events.events = 0 /\ b.events = 0
  BY DEF Batches, DeliveryInv, QueueTypes
<1>3. events' \in [events : Nat, answers : Nat] /\ events'.events = events.events - b.events
  <2>1. events.events - b.events \in Nat /\ events.answers - b.answers \in Nat
    BY <1>2
  <2> QED BY <1>1, <2>1
<1>4. Sends(b.events, 0) /\ link' = link /\ parted' = parted
      /\ (status' = "empty" => events.events = 0 /\ b.events = 0)
  <2>1. CASE b.events + b.answers = 0
    <3>1. Sends(0, 0)
      BY <1>1, <2>1, QuietSends DEF DeliveryInv, QueueTypes
    <3> QED BY <1>1, <1>2, <2>1, <3>1
  <2>2. CASE b.events + b.answers # 0
    <3> DEFINE items == [events |-> b.events, serial |-> 0, answers |-> b.answers]
    <3>1. items \in Items /\ items.events = b.events /\ items.serial = 0
      BY <1>2 DEF Items
    <3>2. AppendItems(items) /\ status' # "empty"
      BY <1>1, <2>2
    <3> HIDE DEF items
    <3> QED BY <3>1, <3>2, AppendSends DEF DeliveryInv, QueueTypes
  <2> QED BY <2>1, <2>2
<1>5. QueueTypes'
  BY <1>3, <1>4 DEF DeliveryInv, QueueTypes, Sends
<1>6. InboxInv' /\ StagesInv'
  BY <1>4 DEF DeliveryInv, InboxInv, StagesInv
<1>7. SentEvents \in Nat /\ SentSerial \in Nat
  BY ItemsAreNats DEF DeliveryInv, QueueTypes, SentEvents, SentSerial
<1>8. ASSUME Stays', stage \in {"main", "drain"}
      PROVE  /\ emitted.events <= SentEvents' + events'.events
             /\ emitted.serial <= SentSerial' + serial
             /\ SentEvents' = SentEvents + b.events
  <2>1. emitted.events <= SentEvents + events.events /\ emitted.serial <= SentSerial + serial
    BY <1>4, <1>8 DEF DeliveryInv, NothingLost, Stays
  <2>2. SentEvents' = SentEvents + b.events /\ SentSerial' = SentSerial + 0
    BY <1>4, <1>8 DEF Sends, Stays
  <2>3. emitted.events \in Nat /\ emitted.serial \in Nat /\ serial \in Nat
    BY DEF DeliveryInv, QueueTypes, Counts
  <2> QED BY <1>2, <1>3, <1>7, <2>1, <2>2, <2>3
<1>9. NothingLost'
  BY <1>8 DEF NothingLost
<1>10. FoundEmpty'
  <2> SUFFICES ASSUME stage = "drain", Stays', status' = "empty"
               PROVE  due.events <= SentEvents'
    BY DEF FoundEmpty
  <2>1. events'.events = 0
    BY <1>2, <1>3, <1>4
  <2>2. due.events <= emitted.events /\ due.events \in Nat /\ emitted.events \in Nat
    BY DEF DeliveryInv, QueueTypes, Counts
  <2>3. SentEvents' \in Nat
    BY <1>2, <1>7, <1>8
  <2> QED BY <1>8, <2>1, <2>2, <2>3
<1>11. NothingLeftBehind'
  <2>1. /\ due.events \in Nat /\ due.serial \in Nat
        /\ received.events \in Nat /\ received.serial \in Nat
        /\ received'.events \in Nat /\ received'.serial \in Nat
    BY <1>4 DEF DeliveryInv, QueueTypes, Sends, Items, Counts
  <2> QED BY <1>4, <2>1 DEF DeliveryInv, NothingLeftBehind, Sends
<1> QED BY <1>5, <1>6, <1>9, <1>10, <1>11 DEF DeliveryInv

LEMMA DequeueSerialKeeps ==
  ASSUME DeliveryInv, DequeueSerial, UNCHANGED mainVars
  PROVE  DeliveryInv'
<1> USE DEF DequeueSerial, socketVars, mainVars
<1>1. serial \in Nat /\ due.serial \in Nat /\ emitted.serial \in Nat /\ due.serial <= emitted.serial
      /\ emitted.events \in Nat /\ events.events \in Nat
  BY DEF DeliveryInv, QueueTypes, Counts
<1>2. Sends(0, serial) /\ link' = link /\ parted' = parted
      /\ (serialStatus' = "empty" => serial = 0)
  <2>1. CASE serial = 0
    <3>1. Sends(0, 0)
      BY <2>1, QuietSends DEF DeliveryInv, QueueTypes
    <3> QED BY <2>1, <3>1
  <2>2. CASE serial # 0
    <3> DEFINE items == [events |-> 0, serial |-> serial, answers |-> 0]
    <3>1. items \in Items /\ items.events = 0 /\ items.serial = serial
      BY <1>1 DEF Items
    <3>2. AppendItems(items) /\ serialStatus' # "empty"
      BY <2>2
    <3> HIDE DEF items
    <3> QED BY <3>1, <3>2, AppendSends DEF DeliveryInv, QueueTypes
  <2> QED BY <2>1, <2>2
<1>3. QueueTypes'
  BY <1>2 DEF DeliveryInv, QueueTypes, Sends
<1>4. InboxInv' /\ StagesInv'
  BY <1>2 DEF DeliveryInv, InboxInv, StagesInv
<1>5. SentEvents \in Nat /\ SentSerial \in Nat
  BY ItemsAreNats DEF DeliveryInv, QueueTypes, SentEvents, SentSerial
<1>6. ASSUME Stays', stage \in {"main", "drain"}
      PROVE  /\ emitted.events <= SentEvents' + events.events
             /\ emitted.serial <= SentSerial'
             /\ SentEvents' = SentEvents /\ SentSerial' \in Nat
  <2>1. emitted.events <= SentEvents + events.events /\ emitted.serial <= SentSerial + serial
    BY <1>2, <1>6 DEF DeliveryInv, NothingLost, Stays
  <2>2. SentEvents' = SentEvents + 0 /\ SentSerial' = SentSerial + serial
    BY <1>2, <1>6 DEF Sends, Stays
  <2> QED BY <1>1, <1>5, <2>1, <2>2
<1>7. NothingLost'
  <2> SUFFICES ASSUME Stays', stage \in {"main", "drain"}
               PROVE  emitted.events <= SentEvents' + events.events /\ emitted.serial <= SentSerial' + 0
    BY DEF NothingLost
  <2> QED BY <1>1, <1>5, <1>6
<1>8. FoundEmpty'
  <2> SUFFICES ASSUME stage = "drain", Stays'
               PROVE  /\ status = "empty" => due.events <= SentEvents'
                      /\ serialStatus' = "empty" => due.serial <= SentSerial'
    BY DEF FoundEmpty
  <2>1. status = "empty" => due.events <= SentEvents
    BY <1>2 DEF DeliveryInv, FoundEmpty, Stays
  <2>2. due.serial <= SentSerial'
    BY <1>1, <1>6
  <2> QED BY <1>6, <2>1, <2>2
<1>9. NothingLeftBehind'
  <2>1. /\ due.events \in Nat /\ due.serial \in Nat
        /\ received.events \in Nat /\ received.serial \in Nat
        /\ received'.events \in Nat /\ received'.serial \in Nat
    BY <1>2 DEF DeliveryInv, QueueTypes, Sends, Items, Counts
  <2> QED BY <1>2, <2>1 DEF DeliveryInv, NothingLeftBehind, Sends
<1> QED BY <1>3, <1>4, <1>7, <1>8, <1>9 DEF DeliveryInv

LEMMA QuietStep ==
  ASSUME DeliveryInv, Quiet \/ Commit
  PROVE  Sends(0, 0) /\ link' = link /\ parted' = parted
  BY QuietSends, CommitSends DEF DeliveryInv, QueueTypes, Quiet, Commit

LEMMA JudgeKeeps ==
  ASSUME SessionInv, DeliveryInv, Judge, UNCHANGED mainVars
  PROVE  DeliveryInv'
<1> USE DEF Judge, GoOn, socketVars, mainVars, queueVars
<1>0. stage' = stage /\ (Quiet \/ Commit)
  BY DEF JudgeMain, JudgeDrain, JudgeLast
<1>1. Sends(0, 0) /\ link' = link /\ parted' = parted
  BY <1>0, QuietStep
<1>2. InboxInv' /\ (events' \in [events : Nat, answers : Nat])
  BY <1>1 DEF DeliveryInv, InboxInv, QueueTypes
<1>3. CASE JudgeMain
  <2>1. worker' \in {"broken", "query", "symbolWait"} /\ StagesInv'
    BY <1>3 DEF JudgeMain, StagesInv
  <2> QED BY <1>0, <1>1, <1>2, <2>1, SessionStep
<1>4. CASE JudgeLast
  <2>1. worker' \in {"done", "query"} /\ StagesInv'
    BY <1>4, <1>1 DEF JudgeLast, StagesInv, DeliveryInv
  <2> QED BY <1>0, <1>1, <1>2, <2>1, SessionStep
<1>5. CASE JudgeDrain
  <2>1. worker' \in {"done", "query", "terminate"} /\ StagesInv' /\ stage = "drain"
    BY <1>5, <1>1 DEF JudgeDrain, StagesInv, DeliveryInv
  <2>2. CASE worker' # "terminate"
    BY <1>0, <1>1, <1>2, <2>1, <2>2, SessionStep
  <2>3. CASE worker' = "terminate"
    <3>1. Idle /\ Commit
      BY <1>5, <2>3 DEF JudgeDrain
    <3>2. QueueTypes'
      BY <1>1 DEF DeliveryInv, QueueTypes, Sends
    <3>3. SentEvents \in Nat /\ SentSerial \in Nat /\ emitted.events \in Nat /\ emitted.serial \in Nat
          /\ events.events \in Nat /\ serial \in Nat
      BY ItemsAreNats DEF DeliveryInv, QueueTypes, SentEvents, SentSerial, Counts
    <3>4. NothingLost'
      <4> SUFFICES ASSUME Stays'
                   PROVE  emitted.events <= SentEvents' + events.events /\ emitted.serial <= SentSerial' + serial
        BY <2>1, <2>3 DEF NothingLost
      <4>1. emitted.events <= SentEvents + events.events /\ emitted.serial <= SentSerial + serial
        BY <1>1, <2>1 DEF DeliveryInv, NothingLost, Stays
      <4>2. SentEvents' = SentEvents + 0 /\ SentSerial' = SentSerial + 0
        BY <1>1 DEF Sends, Stays
      <4> QED BY <3>3, <4>1, <4>2
    <3>5. FoundEmpty'
      <4> SUFFICES ASSUME Stays'
                   PROVE  due.events <= received'.events /\ due.serial <= received'.serial
        BY <2>1, <2>3 DEF FoundEmpty
      <4>1. received'.events = SentEvents /\ received'.serial = SentSerial
        BY <1>1, <3>1, CommitSends DEF DeliveryInv, QueueTypes, Stays
      <4>2. due.events <= SentEvents /\ due.serial <= SentSerial
        BY <1>1, <2>1, <3>1 DEF DeliveryInv, FoundEmpty, Stays, Idle
      <4> QED BY <4>1, <4>2
    <3>6. NothingLeftBehind'
      BY <1>0, <2>1 DEF NothingLeftBehind
    <3> QED BY <1>2, <2>1, <3>2, <3>4, <3>5, <3>6 DEF DeliveryInv
  <2> QED BY <2>2, <2>3
<1> QED BY <1>3, <1>4, <1>5

(* Answering queries, the symbol queue and the ways a session ends.        *)
LEMMA QueriesKeep ==
  ASSUME SessionInv, DeliveryInv, UNCHANGED mainVars,
         \/ QueriesDone \/ ReadFails \/ AnswerNow \/ QueueSymbolQuery
         \/ ServerTerminates \/ HandleDisconnect
  PROVE  DeliveryInv'
<1> USE DEF GoTo, socketVars, mainVars, queueVars, serverVars, loopVars
<1>0. worker = "query" /\ stage \in {"main", "drain", "last", "parting"} /\ StagesInv /\ InboxInv
      /\ events \in [events : Nat, answers : Nat]
  BY DEF QueriesDone, ReadFails, AnswerNow, QueueSymbolQuery, ServerTerminates, HandleDisconnect,
     SessionInv, SocketTypes, DeliveryInv, QueueTypes
<1>1. CASE QueriesDone
  <2>1. Sends(0, 0) /\ link' = link /\ parted' = parted
    BY <1>1, QuietStep DEF QueriesDone
  <2>2. worker' \in {"dequeue", "clear", "symbols"} /\ StagesInv'
    BY <1>0, <1>1, <2>1 DEF QueriesDone, StagesInv
  <2>3. InboxInv'
    BY <1>0, <1>1, <2>1 DEF QueriesDone, InboxInv
  <2> QED BY <1>0, <1>1, <2>1, <2>2, <2>3, SessionStep DEF QueriesDone
<1>2. CASE ReadFails
  <2>1. Sends(0, 0)
    BY <1>2, QuietSends DEF ReadFails, DeliveryInv, QueueTypes
  <2>2. worker' \in {"broken", "done"} /\ StagesInv' /\ InboxInv'
    BY <1>0, <1>2 DEF ReadFails, Ended, StagesInv, InboxInv
  <2> QED BY <1>0, <1>2, <2>1, <2>2, SessionStep DEF ReadFails
<1>3. CASE AnswerNow
  <2> DEFINE items == [events |-> 0, serial |-> 0, answers |-> 1]
  <2>1. items \in Items /\ items.events = 0 /\ items.serial = 0 /\ AppendItems(items)
    BY <1>3 DEF Items, AnswerNow
  <2>2. Sends(0, 0) /\ link' = link /\ parted' = parted
    <3> HIDE DEF items
    <3> QED BY <2>1, AppendSends DEF DeliveryInv, QueueTypes
  <2>3. inbox # <<>> /\ inbox' = Tail(inbox) /\ StagesInv'
    BY <1>0, <1>3, <2>2 DEF AnswerNow, Arrived, StagesInv
  <2> HIDE DEF items
  <2> QED BY <1>0, <1>3, <2>2, <2>3, TailOfInbox, SessionStep DEF AnswerNow
<1>4. CASE QueueSymbolQuery
  <2>1. Sends(0, 0)
    BY <1>4, QuietSends DEF QueueSymbolQuery, DeliveryInv, QueueTypes
  <2>2. inbox # <<>> /\ inbox' = Tail(inbox) /\ StagesInv'
    BY <1>0, <1>4 DEF QueueSymbolQuery, Arrived, StagesInv
  <2> QED BY <1>0, <1>4, <2>1, <2>2, TailOfInbox, SessionStep DEF QueueSymbolQuery
<1>5. CASE ServerTerminates
  <2>1. Sends(0, 0)
    BY <1>5, QuietSends DEF ServerTerminates, DeliveryInv, QueueTypes
  <2>2. inbox # <<>> /\ inbox' = Tail(inbox) /\ worker' \in {"broken", "done"} /\ StagesInv'
    BY <1>0, <1>5 DEF ServerTerminates, Ended, Arrived, StagesInv
  <2> QED BY <1>0, <1>5, <2>1, <2>2, TailOfInbox, SessionStep DEF ServerTerminates
<1>6. CASE HandleDisconnect
  <2>1. Sends(0, 0)
    BY <1>6, QuietSends DEF HandleDisconnect, DeliveryInv, QueueTypes
  <2>2. inbox # <<>> /\ inbox' = Tail(inbox) /\ inbox[1] = "disconnect" /\ Len(inbox) >= 1
    BY <1>0, <1>6 DEF HandleDisconnect, Arrived, InboxInv
  <2>3. parted
    BY <1>0, <2>2 DEF InboxInv
  <2>4. worker' \in {"broken", "done", "clear"} /\ StagesInv' /\ (stage' = stage \/ stage' = "parting")
    BY <1>0, <1>6, <2>3 DEF HandleDisconnect, Ended, StagesInv
  <2> QED BY <1>0, <1>6, <2>1, <2>2, <2>4, TailOfInbox, SessionStep DEF HandleDisconnect
<1> QED BY <1>1, <1>2, <1>3, <1>4, <1>5, <1>6

LEMMA ClearKeeps ==
  ASSUME DeliveryInv, ClearWhileParting, UNCHANGED mainVars
  PROVE  DeliveryInv'
<1> USE DEF ClearWhileParting, GoTo, ClearQueues, socketVars, mainVars, serverVars, sendVars
<1>1. stage = "parting" /\ stage' = stage /\ worker' = "query"
  BY DEF DeliveryInv, StagesInv
<1>2. QueueTypes'
  BY DEF DeliveryInv, QueueTypes
<1>3. InboxInv' /\ StagesInv'
  BY <1>1 DEF DeliveryInv, InboxInv, StagesInv
<1>4. NothingLost' /\ FoundEmpty' /\ NothingLeftBehind'
  BY <1>1 DEF NothingLost, FoundEmpty, NothingLeftBehind
<1> QED BY <1>2, <1>3, <1>4 DEF DeliveryInv

LEMMA HandleSymbolsKeeps ==
  ASSUME SessionInv, DeliveryInv, HandleSymbols, UNCHANGED mainVars
  PROVE  DeliveryInv'
<1> USE DEF HandleSymbols, GoTo, socketVars, mainVars, serverVars, sendVars, loopVars
<1>1. Sends(0, 0)
  BY QuietSends DEF DeliveryInv, QueueTypes
<1>2. stage \in {"drain", "last"} /\ stage' = stage /\ worker' \in {"symbols", "dequeue"}
  BY DEF SessionInv, EndInv
<1>3. InboxInv' /\ StagesInv'
  BY <1>2 DEF DeliveryInv, InboxInv, StagesInv
<1>4. events' \in [events : Nat, answers : Nat] /\ events'.events = events.events
  BY DEF DeliveryInv, QueueTypes
<1> QED BY <1>1, <1>2, <1>3, <1>4, SessionStep

(* The exit is noticed, and the server is told.                            *)
LEMMA ExitKeeps ==
  ASSUME SessionInv, DeliveryInv, SymbolWait \/ SendTerminate, UNCHANGED mainVars
  PROVE  DeliveryInv'
<1> USE DEF GoTo, socketVars, mainVars, serverVars, sendVars, queueVars
<1>1. InboxInv' /\ QueueTypes'
  BY DEF SymbolWait, SendTerminate, DeliveryInv, InboxInv, QueueTypes
<1>2. CASE SymbolWait
  <2>1. Sends(0, 0)
    BY <1>2, QuietSends DEF SymbolWait, DeliveryInv, QueueTypes
  <2>2. stage \in {"main", "parting"}
    BY <1>2 DEF SymbolWait, SessionInv, SocketTypes, DeliveryInv, StagesInv
  <2>3. StagesInv'
    BY <1>2 DEF SymbolWait, DeliveryInv, StagesInv
  <2>4. stage # "parting" \/ parted
    BY <1>2 DEF SymbolWait, DeliveryInv, StagesInv
  <2>5. NothingLost'
    BY <1>2, <2>2, <2>4 DEF SymbolWait, DeliveryInv, NothingLost, Stays, SentEvents, SentSerial
  <2>6. FoundEmpty' /\ NothingLeftBehind'
    BY <1>2 DEF SymbolWait, FoundEmpty, NothingLeftBehind
  <2> QED BY <1>1, <2>3, <2>5, <2>6 DEF DeliveryInv
<1>3. CASE SendTerminate /\ link = "up"
  <2> USE DEF SendTerminate
  <2>1. StagesInv' /\ stage = "drain"
    BY <1>3 DEF DeliveryInv, StagesInv
  <2>2. NothingLost' /\ FoundEmpty'
    BY <1>3 DEF NothingLost, FoundEmpty
  <2>3. NothingLeftBehind'
    <3> SUFFICES ASSUME ~ parted
                 PROVE  received.events >= due.events /\ received.serial >= due.serial
      BY <1>3 DEF NothingLeftBehind
    <3>1. due.events <= received.events /\ due.serial <= received.serial
      BY <1>3, <2>1 DEF DeliveryInv, FoundEmpty, Stays
    <3>2. /\ due.events \in Nat /\ due.serial \in Nat
          /\ received.events \in Nat /\ received.serial \in Nat
      BY DEF DeliveryInv, QueueTypes, Items, Counts
    <3> QED BY <3>1, <3>2
  <2> QED BY <1>1, <2>1, <2>2, <2>3 DEF DeliveryInv
<1>4. CASE SendTerminate /\ link # "up"
  <2>1. Sends(0, 0) /\ StagesInv'
    BY <1>4, QuietSends DEF SendTerminate, DeliveryInv, QueueTypes, StagesInv
  <2>2. events' \in [events : Nat, answers : Nat]
    BY <1>1 DEF QueueTypes
  <2> QED BY <1>1, <1>4, <2>1, <2>2, SessionStep DEF SendTerminate
<1> QED BY <1>2, <1>3, <1>4

(* Waiting for servers, before the session and after it.                   *)
LEMMA WaitingKeeps ==
  ASSUME SessionInv, DeliveryInv, UNCHANGED mainVars,
         \/ Deaf \/ Wait \/ AcceptServer \/ HandshakeFails
         \/ Reject \/ RejectAccept \/ RejectHandshake \/ (Broken /\ ~ shutdown)
  PROVE  DeliveryInv'
<1> USE DEF Deaf, Wait, AcceptServer, HandshakeFails, Reject, RejectAccept, RejectHandshake, Broken,
        GoTo, socketVars, mainVars, serverVars, queueVars
<1>1. worker \in Outside \cup {"broken"} /\ stage' = stage /\ UNCHANGED sendVars
  BY DEF Accept, DropSocket, Outside
<1>2. stage \notin {"drain", "last"}
  BY <1>1 DEF DeliveryInv, StagesInv, Outside
<1>3. events' \in [events : Nat, answers : Nat] /\ serial' \in Nat
  BY DEF ClearQueues, DeliveryInv, QueueTypes
<1>4. InboxInv'
  <2>1. CASE UNCHANGED <<inbox, parted>>
    BY <2>1 DEF DeliveryInv, InboxInv
  <2>2. CASE inbox' = <<>> /\ parted' = FALSE
    <3>1. <<>> \in Seq(Packets) /\ \A i \in DOMAIN << >> : FALSE
      OBVIOUS
    <3>2. inbox' \in Seq(Packets) /\ parted' \in BOOLEAN /\ \A i \in DOMAIN inbox' : FALSE
      BY ONLY <2>2, <3>1
    <3> QED BY ONLY <3>2 DEF InboxInv
  <2> QED BY <2>1, <2>2 DEF Accept, DropSocket, DestroySocket
<1>5. worker' \in Outside \cup {"done"}
      /\ (worker' \in {"wait", "accept", "handshake"} =>
            worker \in {"wait", "accept", "handshake"} /\ UNCHANGED queueVars)
  BY DEF Accept, Outside
<1> QED BY <1>1, <1>2, <1>3, <1>4, <1>5, OutsideStep

LEMMA HandshakeKeeps ==
  ASSUME DeliveryInv, HandshakeSucceeds, UNCHANGED mainVars
  PROVE  DeliveryInv'
<1> USE DEF HandshakeSucceeds, socketVars, mainVars, serverVars, sendVars, queueVars
<1>1. QueueTypes' /\ InboxInv' /\ StagesInv'
  BY DEF DeliveryInv, QueueTypes, InboxInv, StagesInv
<1>2. NothingLost'
  <2>1. SentEvents' = SentEvents /\ SentSerial' = SentSerial
    BY DEF SentEvents, SentSerial
  <2>2. /\ SentEvents \in Nat /\ SentSerial \in Nat
        /\ emitted.events \in Nat /\ emitted.serial \in Nat /\ events.events \in Nat /\ serial \in Nat
    BY ItemsAreNats DEF DeliveryInv, QueueTypes, SentEvents, SentSerial, Counts
  <2>3. emitted.events <= events.events /\ emitted.serial <= serial
    BY DEF DeliveryInv, NothingLost
  <2>4. emitted.events <= SentEvents + events.events /\ emitted.serial <= SentSerial + serial
    BY <2>2, <2>3
  <2> QED BY <2>1, <2>4 DEF NothingLost
<1>3. FoundEmpty' /\ NothingLeftBehind'
  BY DEF FoundEmpty, NothingLeftBehind
<1> QED BY <1>1, <1>2, <1>3 DEF DeliveryInv

LEMMA BrokenKeeps ==
  ASSUME DeliveryInv, Broken, shutdown, UNCHANGED mainVars
  PROVE  DeliveryInv'
<1> USE DEF Broken, GoTo, socketVars, mainVars, serverVars, queueVars
<1>1. Sends(0, 0)
  BY QuietSends DEF DeliveryInv, QueueTypes
<1>2. StagesInv' /\ InboxInv' /\ events' \in [events : Nat, answers : Nat]
  BY DEF DeliveryInv, StagesInv, InboxInv, QueueTypes
<1> QED BY <1>1, <1>2, SessionStep

(* Steps of the other threads and of the server.                           *)
LEMMA OthersKeep ==
  ASSUME DeliveryInv, SymbolWorker \/ Destructor \/ Server \/ UNCHANGED vars
  PROVE  DeliveryInv'
<1> USE DEF loopVars, sendVars, vars, socketVars, serverVars, mainVars, queueVars
<1>1. UNCHANGED <<loopVars, sendVars, serial, emitted>> /\ (link' = "up" => link = "up")
      /\ (parted => parted')
  BY DEF SymbolWorker, Destructor, Server, Shutdown, JoinSymbol, Delete,
     Ask, CompletePacket, Disconnect, EndSession, Vanish, DeliveryInv, InboxInv
<1>2. events' \in [events : Nat, answers : Nat] /\ events'.events = events.events
  BY DEF SymbolWorker, SymbolCheck, SymbolFront, SymbolAnswer, SymbolPop, Destructor, Server,
     DeliveryInv, QueueTypes
<1>3. UNCHANGED <<shutdown, due>> \/ (~ shutdown /\ shutdown' /\ due' = emitted)
  BY DEF SymbolWorker, Destructor, Server, Shutdown, JoinSymbol, Delete, DeliveryInv, QueueTypes
<1>4. shutdown' => main' # "running"
  BY DEF SymbolWorker, Destructor, Server, Shutdown, JoinSymbol, Delete, DeliveryInv, QueueTypes
<1>5. InboxInv'
  <2>1. CASE UNCHANGED <<inbox, parted>>
    BY <2>1 DEF DeliveryInv, InboxInv
  <2>2. CASE Ask
    BY <2>2, AppendToInbox DEF Ask, Packets, DeliveryInv, InboxInv
  <2>3. CASE CompletePacket
    BY <2>3 DEF CompletePacket, Packets, DeliveryInv, InboxInv
  <2>4. CASE Disconnect
    BY <2>4, AppendToInbox DEF Disconnect, Packets, DeliveryInv
  <2>5. CASE EndSession
    BY <2>5, AppendToInbox DEF EndSession, Packets, DeliveryInv, InboxInv
  <2> QED BY <2>1, <2>2, <2>3, <2>4, <2>5 DEF SymbolWorker, Destructor, Server, Vanish
<1>6. QueueTypes'
  <2>1. due' \in Counts /\ due'.events <= emitted.events /\ due'.serial <= emitted.serial
    BY <1>3 DEF DeliveryInv, QueueTypes, Counts
  <2> QED BY <1>1, <1>2, <1>4, <2>1 DEF DeliveryInv, QueueTypes
<1>7. StagesInv'
  BY <1>1, <1>3 DEF DeliveryInv, StagesInv
<1>8. NothingLost'
  BY <1>1, <1>2 DEF DeliveryInv, NothingLost, Stays, SentEvents, SentSerial
<1>9. FoundEmpty' /\ NothingLeftBehind'
  <2>1. CASE stage \in {"drain", "last"}
    <3>1. due' = due
      BY <1>3, <2>1 DEF DeliveryInv, StagesInv
    <3> QED BY <1>1, <3>1 DEF DeliveryInv, FoundEmpty, NothingLeftBehind, Stays, SentEvents, SentSerial
  <2>2. CASE stage \notin {"drain", "last"}
    BY <1>1, <2>2 DEF FoundEmpty, NothingLeftBehind
  <2> QED BY <2>1, <2>2
<1> QED BY <1>5, <1>6, <1>7, <1>8, <1>9 DEF DeliveryInv

LEMMA EmitKeeps ==
  ASSUME DeliveryInv, NEW queue \in {"events", "serial"}, Emit(queue)
  PROVE  DeliveryInv'
<1> USE DEF Emit, loopVars, sendVars, socketVars, serverVars
<1>1. emitted \in Counts /\ due \in Counts /\ events \in [events : Nat, answers : Nat] /\ serial \in Nat
      /\ emitted.events \in Nat /\ emitted.serial \in Nat /\ events.events \in Nat
      /\ due.events \in Nat /\ due.serial \in Nat
  BY DEF DeliveryInv, QueueTypes, Counts
<1>2. \/ /\ events' \in [events : Nat, answers : Nat] /\ events'.events = events.events + 1 /\ serial' = serial
         /\ emitted' \in Counts /\ emitted'.events = emitted.events + 1 /\ emitted'.serial = emitted.serial
      \/ /\ events' = events /\ serial' = serial + 1
         /\ emitted' \in Counts /\ emitted'.events = emitted.events /\ emitted'.serial = emitted.serial + 1
  <2>1. CASE queue = "events"
    BY <1>1, <2>1 DEF Counts
  <2>2. CASE queue = "serial"
    BY <1>1, <2>2 DEF Counts
  <2> QED BY <2>1, <2>2
<1>3. QueueTypes'
  <2>1. due.events <= emitted'.events /\ due.serial <= emitted'.serial
    BY <1>1, <1>2 DEF DeliveryInv, QueueTypes
  <2>2. events' \in [events : Nat, answers : Nat] /\ serial' \in Nat /\ emitted' \in Counts
    BY <1>1, <1>2
  <2> QED BY <2>1, <2>2 DEF DeliveryInv, QueueTypes
<1>4. InboxInv' /\ StagesInv'
  BY DEF DeliveryInv, InboxInv, StagesInv
<1>5. NothingLost'
  <2>1. SentEvents' = SentEvents /\ SentSerial' = SentSerial /\ SentEvents \in Nat /\ SentSerial \in Nat
        /\ (Stays' <=> Stays)
    BY ItemsAreNats DEF DeliveryInv, QueueTypes, SentEvents, SentSerial, Stays
  <2>2. emitted.events <= events.events /\ emitted.serial <= serial =>
          emitted'.events <= events'.events /\ emitted'.serial <= serial'
    BY <1>1, <1>2
  <2>3. emitted.events <= SentEvents + events.events /\ emitted.serial <= SentSerial + serial =>
          emitted'.events <= SentEvents + events'.events /\ emitted'.serial <= SentSerial + serial'
    BY <1>1, <1>2, <2>1
  <2> QED BY <2>1, <2>2, <2>3 DEF DeliveryInv, NothingLost
<1>6. FoundEmpty' /\ NothingLeftBehind'
  BY DEF DeliveryInv, FoundEmpty, NothingLeftBehind, Stays, SentEvents, SentSerial
<1> QED BY <1>3, <1>4, <1>5, <1>6 DEF DeliveryInv

LEMMA DeliveryInvInit == Init => DeliveryInv
<1> SUFFICES ASSUME Init PROVE DeliveryInv
  OBVIOUS
<1> USE DEF Init
<1>1. QueueTypes
  BY NothingIsItems DEF QueueTypes, Counts
<1>2. InboxInv
  <2>1. <<>> \in Seq(Packets) /\ \A i \in DOMAIN << >> : FALSE
    OBVIOUS
  <2> QED BY <2>1 DEF InboxInv
<1>3. StagesInv /\ FoundEmpty /\ NothingLeftBehind
  BY DEF StagesInv, FoundEmpty, NothingLeftBehind
<1>4. NothingLost
  BY DEF NothingLost
<1> QED BY <1>1, <1>2, <1>3, <1>4 DEF DeliveryInv

(* What was queued when the profiler is destroyed is sent before the       *)
(* server is told that nothing follows, however the threads' events, the   *)
(* queries and the two queues are interleaved.                             *)
THEOREM EverythingIsDelivered == Spec => []NothingLeftBehind
<1>1. SessionInv /\ DeliveryInv /\ [Next]_vars => DeliveryInv'
  <2> SUFFICES ASSUME SessionInv, DeliveryInv, [Next]_vars PROVE DeliveryInv'
    OBVIOUS
  <2>1. CASE Worker
    <3>1. UNCHANGED mainVars
      BY <2>1 DEF Worker
    <3> QED BY <2>1, <3>1, WaitingKeeps, HandshakeKeeps, BrokenKeeps, DequeueKeeps, DequeueSerialKeeps,
               JudgeKeeps, QueriesKeep, ClearKeeps, HandleSymbolsKeeps, ExitKeeps DEF Worker
  <2>2. CASE SymbolWorker \/ Destructor \/ Server \/ Over \/ UNCHANGED vars
    BY <2>2, OthersKeep DEF Over
  <2>3. CASE \E queue \in {"events", "serial"} : Emit(queue)
    BY <2>3, EmitKeeps
  <2> QED BY <2>1, <2>2, <2>3 DEF Next
<1>2. DeliveryInv => NothingLeftBehind
  BY DEF DeliveryInv
<1> QED BY DeliveryInvInit, SessionInvariant, <1>1, <1>2, PTL DEF Spec
=============================================================================
