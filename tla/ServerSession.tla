---------------------------- MODULE ServerSession ----------------------------
(***************************************************************************)
(* The life of the Tracy client's worker thread: it waits for a server,    *)
(* shakes hands, sends what the program's threads queue, answers the       *)
(* server's queries with the help of the symbol thread, and when the       *)
(* profiler is destroyed sends what is left and waits for the server to    *)
(* end the session.  The destructor joins the threads and destroys the     *)
(* socket that m_sock points to.                                           *)
(*                                                                         *)
(* Events, queries and answers are counted; sockets are numbered in the    *)
(* order in which they were accepted.  The server and the network are      *)
(* external: it may connect with a wrong handshake, stall in the middle of *)
(* a packet, disconnect, or be gone at any time.                           *)
(***************************************************************************)
EXTENDS Integers, Sequences

CONSTANTS
  SymbolCapacity,   (* of m_symbolQueue, 8192                                 *)
  QueryLimit,       (* queries a server leaves unanswered at a time: the      *)
                    (* server's own choice, nothing in the client bounds it   *)
  MaxSockets, MaxEvents, MaxQueries   (* bounds of the model                  *)

ASSUME ServerSessionAssumption ==
  /\ SymbolCapacity \in Nat \ {0} /\ QueryLimit \in Nat
  /\ MaxSockets \in Nat /\ MaxEvents \in Nat /\ MaxQueries \in Nat

VARIABLES
  worker, stage,        (* where Worker is, and in which of its loops          *)
  origin,               (* the loop that called HandleDisconnect               *)
  status, serialStatus, (* results of Dequeue and DequeueSerial                *)
  sock, connected,      (* m_sock (0: nullptr), m_isConnected                  *)
  accepted, destroyed,  (* sockets accepted; how often each was destroyed      *)
  link, inbox,          (* the connection behind sock, queries not yet read    *)
  asked, unanswered, parted, told,  (* the server: told of the end by Terminate *)
  events, serial,       (* s_queue: events and answers; m_serialQueue          *)
  buffer, received,     (* appended and not committed; what the server has     *)
  symbolQueue, symbol, seesExit,    (* m_symbolQueue, SymbolWorker             *)
  main, shutdown, noExit,  (* the destructor's thread, m_shutdown, m_noExit    *)
  emitted, due          (* history: events per queue, and those before shutdown *)

socketVars == <<sock, connected, accepted, destroyed>>
serverVars == <<link, inbox, asked, unanswered, parted, told>>
queueVars  == <<events, serial>>
sendVars   == <<buffer, received>>
symbolVars == <<symbol, seesExit>>
mainVars   == <<main, shutdown, noExit, emitted, due>>
loopVars   == <<worker, stage, origin, status, serialStatus>>

vars == <<loopVars, socketVars, serverVars, queueVars, sendVars, symbolQueue, symbolVars, mainVars>>

Nothing == [events |-> 0, serial |-> 0, answers |-> 0]

Plus(a, b) == [f \in DOMAIN a |-> a[f] + b[f]]

Init ==
  /\ worker \in {"deaf", "wait"} /\ stage = "main" /\ origin = "main"
  /\ status = "empty" /\ serialStatus = "empty"
  /\ sock = 0 /\ connected = FALSE /\ accepted = 0
  /\ destroyed = [s \in 1 .. MaxSockets |-> 0]
  /\ link = "none" /\ inbox = <<>> /\ asked = 0 /\ unanswered = 0
  /\ parted = FALSE /\ told = FALSE
  /\ events = [events |-> 0, answers |-> 0] /\ serial = 0
  /\ buffer = Nothing /\ received = Nothing
  /\ symbolQueue = 0 /\ symbol = "check" /\ seesExit = FALSE
  /\ main = "running" /\ shutdown = FALSE /\ noExit \in BOOLEAN
  /\ emitted = [events |-> 0, serial |-> 0] /\ due = [events |-> 0, serial |-> 0]

-----------------------------------------------------------------------------
(* Steps of the worker that several of its loops share.                    *)

GoTo(place) == worker' = place /\ UNCHANGED <<stage, origin, status, serialStatus>>

(* The loop goes on; the two results are of no more use. *)
GoOn(place) ==
  worker' = place /\ status' = "empty" /\ serialStatus' = "empty" /\ UNCHANGED <<stage, origin>>

(* ~Socket and tracy_free. *)
DestroySocket ==
  /\ destroyed' = [destroyed EXCEPT ![sock] = @ + 1]
  /\ link' = "none" /\ inbox' = <<>>
  /\ asked' = 0 /\ unanswered' = 0 /\ parted' = FALSE /\ told' = FALSE
  /\ UNCHANGED accepted

DropSocket == DestroySocket /\ sock' = 0 /\ UNCHANGED connected

(* m_sock = listen.Accept(), which waits a moment for a connection. *)
Accept(next, again) ==
  \/ /\ accepted < MaxSockets
     /\ accepted' = accepted + 1 /\ sock' = accepted + 1 /\ link' = "up"
     /\ GoTo(next)
     /\ UNCHANGED <<connected, destroyed, inbox, asked, unanswered, parted, told>>
  \/ GoTo(again) /\ sock' = 0 /\ UNCHANGED <<connected, accepted, destroyed, serverVars>>

ClearQueues ==
  /\ events' = [events |-> 0, answers |-> 0] /\ serial' = 0

(* CommitData: what is in the buffer reaches the server if it is there. *)
Commit ==
  /\ buffer' = Nothing
  /\ received' = IF link = "up" THEN Plus(received, buffer) ELSE received
  /\ unanswered' = IF link = "up" THEN unanswered - buffer.answers ELSE unanswered
  /\ UNCHANGED <<link, asked, parted, told>>

(* Items are appended; when the frame is full it is committed before. *)
AppendItems(items) ==
  \/ /\ buffer' = Plus(buffer, items)
     /\ UNCHANGED <<received, link, asked, unanswered, parted, told>>
  \/ /\ buffer # Nothing
     /\ buffer' = items
     /\ received' = IF link = "up" THEN Plus(received, buffer) ELSE received
     /\ unanswered' = IF link = "up" THEN unanswered - buffer.answers ELSE unanswered
     /\ UNCHANGED <<link, asked, parted, told>>

-----------------------------------------------------------------------------
(* Waiting for a server.                                                   *)

(* No port was free. *)
Deaf ==
  /\ worker = "deaf"
  /\ IF shutdown THEN GoTo("done") /\ UNCHANGED queueVars ELSE GoTo("deaf") /\ ClearQueues
  /\ UNCHANGED <<socketVars, serverVars, sendVars, symbolQueue>>

Wait ==
  /\ worker = "wait"
  /\ IF ~ noExit /\ shutdown THEN GoTo("done") ELSE GoTo("accept")
  /\ UNCHANGED <<socketVars, serverVars, queueVars, sendVars, symbolQueue>>

AcceptServer ==
  /\ worker = "accept" /\ Accept("handshake", "wait")
  /\ UNCHANGED <<queueVars, sendVars, symbolQueue>>

(* A server that is none, does not answer in time or has another version. *)
HandshakeFails ==
  /\ worker = "handshake" /\ DropSocket /\ GoTo("wait")
  /\ UNCHANGED <<queueVars, sendVars, symbolQueue>>

HandshakeSucceeds ==
  /\ worker = "handshake" /\ link = "up"
  /\ connected' = TRUE /\ stage' = "main" /\ worker' = "dequeue"
  /\ UNCHANGED <<origin, status, serialStatus, sock, accepted, destroyed,
                 serverVars, queueVars, sendVars, symbolQueue>>

-----------------------------------------------------------------------------
(* The loops of a session: "main", "drain" once the program exits, "last"  *)
(* when the server was told so, and "parting" in HandleDisconnect.         *)

(* Some of what is queued, all of it when there is room. *)
Batches == {b \in [events : 0 .. events.events, answers : 0 .. events.answers] :
              b.events + b.answers = 0 <=> events.events + events.answers = 0}

Dequeue ==
  /\ worker = "dequeue"
  /\ \E b \in Batches :
       /\ events' = [events |-> events.events - b.events, answers |-> events.answers - b.answers]
       /\ IF b.events + b.answers = 0
          THEN status' = "empty" /\ UNCHANGED <<sendVars, link, asked, unanswered, parted, told>>
          ELSE /\ AppendItems([events |-> b.events, serial |-> 0, answers |-> b.answers])
               /\ status' \in IF link = "up" THEN {"sent"} ELSE {"sent", "lost"}
  /\ worker' = "dequeueSerial"
  /\ UNCHANGED <<stage, origin, serialStatus, socketVars, inbox, serial, symbolQueue>>

DequeueSerial ==
  /\ worker = "dequeueSerial"
  /\ serial' = 0
  /\ IF serial = 0
     THEN serialStatus' = "empty" /\ UNCHANGED <<sendVars, link, asked, unanswered, parted, told>>
     ELSE /\ AppendItems([events |-> 0, serial |-> serial, answers |-> 0])
          /\ serialStatus' \in IF link = "up" THEN {"sent"} ELSE {"sent", "lost"}
  /\ worker' = "judge"
  /\ UNCHANGED <<stage, origin, status, socketVars, inbox, events, symbolQueue>>

Lost == status = "lost" \/ serialStatus = "lost"

(* Mutant: the threads' queue alone decides. *)
Idle_EventsOnly == status = "empty"

Idle == status = "empty" /\ serialStatus = "empty"

(* Where a loop ends when the connection is gone or the server ended it. *)
Ended == IF stage = "main" \/ (stage = "parting" /\ origin = "main") THEN "broken" ELSE "done"

Quiet == UNCHANGED <<sendVars, link, asked, unanswered, parted, told>>

(* The main loop: what was appended is committed when there is no more. *)
JudgeMain ==
  /\ stage = "main"
  /\ \/ Lost /\ GoOn("broken") /\ Quiet
     \/ ~ Lost /\ ~ Idle /\ GoOn("query") /\ Quiet
     \/ Idle /\ shutdown /\ GoOn("symbolWait") /\ Quiet
     \/ Idle /\ ~ shutdown /\ buffer = Nothing /\ GoOn("query") /\ Quiet
     \/ /\ Idle /\ ~ shutdown /\ buffer # Nothing /\ Commit
        /\ GoOn(IF link = "up" THEN "query" ELSE "broken")
     \/ (* a keep-alive tells that the server is gone *)
        Idle /\ ~ shutdown /\ link # "up" /\ buffer = Nothing /\ GoOn("broken") /\ Quiet

(* Mutant: the rest of the last frame is left in the buffer. *)
JudgeDrain_NoCommit ==
  /\ stage = "drain"
  /\ \/ Lost /\ GoOn("done") /\ Quiet
     \/ ~ Lost /\ ~ Idle /\ GoOn("query") /\ Quiet
     \/ Idle /\ GoOn("terminate") /\ Quiet

JudgeDrain ==
  /\ stage = "drain"
  /\ \/ Lost /\ GoOn("done") /\ Quiet
     \/ ~ Lost /\ ~ Idle /\ GoOn("query") /\ Quiet
     \/ Idle /\ Commit /\ GoOn("terminate")

JudgeLast ==
  /\ stage = "last"
  /\ \/ Lost /\ GoOn("done") /\ Quiet
     \/ ~ Lost /\ buffer = Nothing /\ GoOn("query") /\ Quiet
     \/ /\ ~ Lost /\ buffer # Nothing /\ Commit
        /\ GoOn(IF link = "up" THEN "query" ELSE "done")

Judge ==
  /\ worker = "judge"
  /\ JudgeMain \/ JudgeDrain \/ JudgeLast
  /\ UNCHANGED <<socketVars, inbox, queueVars, symbolQueue>>

(* HasData is also true of a closed connection, which is how it is noticed. *)
NoData == inbox = <<>> /\ link = "up"

Arrived == IF inbox = <<>> THEN "none" ELSE Head(inbox)

(* All queries that have arrived are answered before the loop goes on. *)
QueriesDone ==
  /\ worker = "query" /\ NoData
  /\ GoTo(CASE stage = "main" -> "dequeue" [] stage = "parting" -> "clear" [] OTHER -> "symbols")
  /\ IF stage = "parting" THEN Commit ELSE Quiet
  /\ UNCHANGED <<socketVars, inbox, queueVars, symbolQueue>>

(* A packet of which the rest is missing is waited for. *)
ReadFails ==
  /\ worker = "query" /\ link # "up" /\ Arrived \in {"none", "part"}
  /\ GoTo(Ended)
  /\ UNCHANGED <<socketVars, serverVars, queueVars, sendVars, symbolQueue>>

(* SendString and the like: the answer is appended. *)
AnswerNow ==
  /\ worker = "query" /\ Arrived = "string"
  /\ inbox' = Tail(inbox)
  /\ AppendItems([events |-> 0, serial |-> 0, answers |-> 1])
  /\ UNCHANGED <<loopVars, socketVars, queueVars, symbolQueue>>

(* Mutant: a query is acknowledged as soon as it is queued. *)
QueueSymbolQuery_Acknowledges ==
  /\ worker = "query" /\ Arrived = "symbol"
  /\ symbolQueue < SymbolCapacity
  /\ symbolQueue' = symbolQueue + 1 /\ inbox' = Tail(inbox)
  /\ AppendItems([events |-> 0, serial |-> 0, answers |-> 1])
  /\ UNCHANGED <<loopVars, socketVars, queueVars>>

(* m_symbolQueue.emplace, which waits while the queue is full. *)
QueueSymbolQuery ==
  /\ worker = "query" /\ Arrived = "symbol"
  /\ symbolQueue < SymbolCapacity
  /\ symbolQueue' = symbolQueue + 1 /\ inbox' = Tail(inbox)
  /\ UNCHANGED <<loopVars, socketVars, link, asked, unanswered, parted, told, queueVars, sendVars>>

ServerTerminates ==
  /\ worker = "query" /\ Arrived = "terminate"
  /\ inbox' = Tail(inbox)
  /\ GoTo(Ended)
  /\ UNCHANGED <<socketVars, link, asked, unanswered, parted, told, queueVars, sendVars, symbolQueue>>

(* HandleDisconnect tells the server and then answers only its queries. *)
HandleDisconnect ==
  /\ worker = "query" /\ Arrived = "disconnect"
  /\ inbox' = Tail(inbox)
  /\ IF link = "up"
     THEN /\ worker' = "clear" /\ stage' = "parting" /\ origin' = stage /\ told' = TRUE
          /\ UNCHANGED <<status, serialStatus>>
     ELSE GoTo(Ended) /\ UNCHANGED told
  /\ UNCHANGED <<socketVars, link, asked, unanswered, parted, queueVars, sendVars, symbolQueue>>

ClearWhileParting ==
  /\ worker = "clear" /\ ClearQueues /\ GoTo("query")
  /\ UNCHANGED <<socketVars, serverVars, sendVars, symbolQueue>>

(* Mutant: the last loop leaves the symbol queue alone. *)
HandleSymbols_DrainOnly ==
  /\ worker = "symbols"
  /\ \/ /\ symbolQueue > 0 /\ stage = "drain"
        /\ symbolQueue' = symbolQueue - 1
        /\ events' = [events EXCEPT !.answers = @ + 1] /\ UNCHANGED loopVars
     \/ (symbolQueue = 0 \/ stage # "drain") /\ GoTo("dequeue") /\ UNCHANGED <<symbolQueue, events>>
  /\ UNCHANGED <<socketVars, serverVars, serial, sendVars>>

(* "Symbol resolution will continue in this thread." *)
HandleSymbols ==
  /\ worker = "symbols"
  /\ \/ /\ symbolQueue > 0
        /\ symbolQueue' = symbolQueue - 1
        /\ events' = [events EXCEPT !.answers = @ + 1] /\ UNCHANGED loopVars
     \/ symbolQueue = 0 /\ GoTo("dequeue") /\ UNCHANGED <<symbolQueue, events>>
  /\ UNCHANGED <<socketVars, serverVars, serial, sendVars>>

(* Mutant: the socket is closed before the exit is considered. *)
Broken_ClosesFirst ==
  /\ worker = "broken" /\ DestroySocket
  /\ IF shutdown THEN GoTo("symbolWait") /\ UNCHANGED <<sock, connected>>
     ELSE sock' = 0 /\ connected' = FALSE /\ GoTo("reject")
  /\ UNCHANGED <<queueVars, sendVars, symbolQueue>>

(* Without on-demand mode there is one session. *)
Broken ==
  /\ worker = "broken"
  /\ IF shutdown
     THEN GoTo("symbolWait") /\ UNCHANGED <<socketVars, serverVars>>
     ELSE DestroySocket /\ sock' = 0 /\ connected' = FALSE /\ GoTo("reject")
  /\ UNCHANGED <<queueVars, sendVars, symbolQueue>>

(* Mutant: the worker does not wait for the symbol thread. *)
SymbolWait_Skipped ==
  /\ worker = "symbolWait"
  /\ worker' = "dequeue" /\ stage' = "drain"
  /\ UNCHANGED <<origin, status, serialStatus, socketVars, serverVars, queueVars, sendVars, symbolQueue>>

SymbolWait ==
  /\ worker = "symbolWait" /\ symbol = "gone"
  /\ worker' = "dequeue" /\ stage' = "drain"
  /\ UNCHANGED <<origin, status, serialStatus, socketVars, serverVars, queueVars, sendVars, symbolQueue>>

SendTerminate ==
  /\ worker = "terminate"
  /\ IF link = "up"
     THEN worker' = "query" /\ stage' = "last" /\ told' = TRUE /\ UNCHANGED <<origin, status, serialStatus>>
     ELSE GoTo("done") /\ UNCHANGED told
  /\ UNCHANGED <<socketVars, link, inbox, asked, unanswered, parted, queueVars, sendVars, symbolQueue>>

-----------------------------------------------------------------------------
(* "Client is no longer available here. Accept incoming connections, but   *)
(* reject handshake."                                                      *)

Reject ==
  /\ worker = "reject"
  /\ IF shutdown THEN GoTo("done") /\ UNCHANGED queueVars
                 ELSE GoTo("rejectAccept") /\ ClearQueues
  /\ UNCHANGED <<socketVars, serverVars, sendVars, symbolQueue>>

RejectAccept ==
  /\ worker = "rejectAccept" /\ Accept("rejectHandshake", "reject")
  /\ UNCHANGED <<queueVars, sendVars, symbolQueue>>

(* Mutant: a server without a proper handshake is forgotten. *)
RejectHandshake_Forgets ==
  /\ worker = "rejectHandshake"
  /\ \/ sock' = 0 /\ link' = "none" /\ UNCHANGED <<connected, accepted, destroyed, inbox, asked, unanswered, parted, told>>
     \/ DestroySocket /\ UNCHANGED <<sock, connected>>
  /\ GoTo("reject")
  /\ UNCHANGED <<queueVars, sendVars, symbolQueue>>

(* A server with a proper handshake is told HandshakeNotAvailable; only    *)
(* then m_sock keeps pointing to the socket that was destroyed.            *)
RejectHandshake ==
  /\ worker = "rejectHandshake"
  /\ \/ DropSocket
     \/ DestroySocket /\ UNCHANGED <<sock, connected>>
  /\ GoTo("reject")
  /\ UNCHANGED <<queueVars, sendVars, symbolQueue>>

Worker ==
  /\ \/ Deaf \/ Wait \/ AcceptServer \/ HandshakeFails \/ HandshakeSucceeds
     \/ Dequeue \/ DequeueSerial \/ Judge
     \/ QueriesDone \/ ReadFails \/ AnswerNow \/ QueueSymbolQuery \/ ServerTerminates
     \/ HandleDisconnect \/ ClearWhileParting \/ HandleSymbols
     \/ Broken \/ SymbolWait \/ SendTerminate
     \/ Reject \/ RejectAccept \/ RejectHandshake
  /\ UNCHANGED <<symbolVars, mainVars>>

-----------------------------------------------------------------------------
(* SymbolWorker looks whether to exit before it looks at the queue.        *)

SymbolCheck == symbol = "check" /\ symbol' = "front" /\ seesExit' = shutdown
               /\ UNCHANGED <<symbolQueue, events>>

(* Mutant: it ends when there is something to do. *)
SymbolFront_ExitsBusy ==
  /\ symbol = "front"
  /\ symbol' = IF symbolQueue = 0 THEN "check" ELSE IF seesExit THEN "gone" ELSE "handle"
  /\ UNCHANGED <<symbolQueue, events, seesExit>>

SymbolFront ==
  /\ symbol = "front"
  /\ symbol' = IF symbolQueue > 0 THEN "handle" ELSE IF seesExit THEN "gone" ELSE "check"
  /\ UNCHANGED <<symbolQueue, events, seesExit>>

(* HandleSymbolQueueItem queues the answer while the query still takes its *)
(* place in the queue.                                                     *)
SymbolAnswer ==
  /\ symbol = "handle" /\ symbol' = "pop"
  /\ events' = [events EXCEPT !.answers = @ + 1]
  /\ UNCHANGED <<symbolQueue, seesExit>>

SymbolPop ==
  /\ symbol = "pop" /\ symbol' = "check"
  /\ symbolQueue' = symbolQueue - 1
  /\ UNCHANGED <<events, seesExit>>

SymbolWorker ==
  /\ SymbolCheck \/ SymbolFront \/ SymbolAnswer \/ SymbolPop
  /\ UNCHANGED <<loopVars, socketVars, serverVars, serial, sendVars, mainVars>>

-----------------------------------------------------------------------------
(* The program's threads, of which one destroys the profiler.              *)

Emit(queue) ==
  /\ main # "deleted" /\ emitted[queue] < MaxEvents
  /\ emitted' = [emitted EXCEPT ![queue] = @ + 1]
  /\ \/ queue = "events" /\ events' = [events EXCEPT !.events = @ + 1] /\ UNCHANGED serial
     \/ queue = "serial" /\ serial' = serial + 1 /\ UNCHANGED events
  /\ UNCHANGED <<loopVars, socketVars, serverVars, sendVars, symbolQueue, symbolVars,
                 main, shutdown, noExit, due>>

Shutdown ==
  /\ main = "running" /\ main' = "joinSymbol" /\ shutdown' = TRUE /\ due' = emitted
  /\ UNCHANGED <<socketVars, link>>

JoinSymbol ==
  /\ main = "joinSymbol" /\ symbol = "gone" /\ main' = "joinWorker"
  /\ UNCHANGED <<socketVars, link, shutdown, due>>

(* Joins the worker and frees what is left: "if( m_sock )". *)
Delete ==
  /\ main = "joinWorker" /\ worker = "done" /\ main' = "deleted"
  /\ IF sock = 0 THEN UNCHANGED <<destroyed, link>>
     ELSE destroyed' = [destroyed EXCEPT ![sock] = @ + 1] /\ link' = "none"
  /\ UNCHANGED <<sock, connected, accepted, shutdown, due>>

Destructor ==
  /\ Shutdown \/ JoinSymbol \/ Delete
  /\ UNCHANGED <<loopVars, inbox, asked, unanswered, parted, told, queueVars, sendVars,
                 symbolQueue, symbolVars, noExit, emitted>>

-----------------------------------------------------------------------------
(* The server, once the session has begun.                                 *)

Serving == connected /\ link = "up"

Ask ==
  /\ Serving /\ asked < MaxQueries /\ unanswered < QueryLimit
  /\ \A i \in DOMAIN inbox : inbox[i] \notin {"part", "terminate"}
  /\ \E q \in {"string", "symbol", "part"} : inbox' = Append(inbox, q)
  /\ asked' = asked + 1 /\ unanswered' = unanswered + 1
  /\ UNCHANGED <<link, parted, told>>

CompletePacket ==
  /\ Serving
  /\ \E i \in DOMAIN inbox, q \in {"string", "symbol"} :
       inbox[i] = "part" /\ inbox' = [inbox EXCEPT ![i] = q]
  /\ UNCHANGED <<link, asked, unanswered, parted, told>>

Disconnect ==
  /\ Serving /\ ~ parted /\ ~ told /\ parted' = TRUE
  /\ \A i \in DOMAIN inbox : inbox[i] \notin {"part", "terminate"}
  /\ inbox' = Append(inbox, "disconnect")
  /\ UNCHANGED <<link, asked, unanswered, told>>

(* It ends a session the client has ended when nothing it asked for is     *)
(* missing, or when it left and gives up.                                  *)
EndSession ==
  /\ Serving /\ told /\ (unanswered = 0 \/ parted)
  /\ \A i \in DOMAIN inbox : inbox[i] \notin {"part", "terminate"}
  /\ inbox' = Append(inbox, "terminate")
  /\ UNCHANGED <<link, asked, unanswered, parted, told>>

Vanish == link = "up" /\ link' = "closed" /\ UNCHANGED <<inbox, asked, unanswered, parted, told>>

Server ==
  /\ Ask \/ CompletePacket \/ Disconnect \/ EndSession \/ Vanish
  /\ UNCHANGED <<loopVars, socketVars, queueVars, sendVars, symbolQueue, symbolVars, mainVars>>

(* The program is over when the profiler is deleted. *)
Over == main = "deleted" /\ UNCHANGED vars

Next == Worker \/ SymbolWorker \/ Destructor \/ Server \/ Over
        \/ \E queue \in {"events", "serial"} : Emit(queue)

Spec == Init /\ [][Next]_vars

(* The threads run; a server finishes the packets it has begun and ends a  *)
(* session when told to.                                                   *)
Fairness ==
  /\ WF_vars(Worker) /\ WF_vars(SymbolWorker)
  /\ WF_vars((JoinSymbol \/ Delete) /\ Destructor)
  /\ WF_vars((CompletePacket \/ EndSession) /\ Server)

FairSpec == Spec /\ Fairness

-----------------------------------------------------------------------------
(* Whatever the worker does with m_sock, the socket is there: from the     *)
(* handshake to the end of the session.                                    *)
SocketIsThere ==
  (\/ connected /\ main # "deleted"
   \/ worker \in {"handshake", "dequeue", "dequeueSerial", "judge", "query", "symbols", "clear",
                  "broken", "symbolWait", "terminate", "rejectHandshake"})
    => sock # 0 /\ destroyed[sock] = 0

(* No socket is left when the profiler is gone. *)
NoSocketLeaks == main = "deleted" => \A s \in 1 .. accepted : destroyed[s] > 0

(* A socket is destroyed once, also that of a server that is turned away:  *)
(* "Accept incoming connections, but reject handshake."                    *)
SocketsDestroyedOnce == \A s \in 1 .. accepted : destroyed[s] <= 1

(* The queue to the symbol thread has one reader at a time. *)
OneSymbolReader == ~ (worker = "symbols" /\ symbol \in {"front", "handle", "pop"})

(* When the server is told that the program has exited, it has everything  *)
(* that was queued before, unless the server left.                         *)
NothingLeftBehind ==
  stage = "last" /\ ~ parted => received.events >= due.events /\ received.serial >= due.serial

(* The worker waits in emplace for a place in the symbol queue only while  *)
(* the symbol thread is about to free one, in particular never when it     *)
(* would have to free it itself, after the symbol thread's end; if the     *)
(* server leaves no more queries unanswered than the queue can hold.       *)
EmplaceGoesOn ==
  QueryLimit <= SymbolCapacity =>
    (worker = "query" /\ Arrived = "symbol" /\ symbolQueue = SymbolCapacity => symbol = "pop")

(* The destructor ends, unless TRACY_NO_EXIT asks it to wait for a server, *)
(* against a server of which the queue can hold all open queries.          *)
ShutdownEnds == QueryLimit <= SymbolCapacity /\ shutdown /\ ~ noExit ~> main = "deleted"

(* A query is answered while the connection lasts, also while the program  *)
(* exits, unless the server left; again if the queue can hold all of them. *)
QueriesAnswered ==
  QueryLimit <= SymbolCapacity /\ unanswered > 0 ~> unanswered = 0 \/ link # "up" \/ parted

-----------------------------------------------------------------------------
(* The inductive invariant behind SocketIsThere, NoSocketLeaks and         *)
(* OneSymbolReader.                                                        *)

SocketTypes ==
  /\ accepted \in 0 .. MaxSockets /\ sock \in 0 .. accepted
  /\ connected \in BOOLEAN /\ stage \in {"main", "drain", "last", "parting"}
  /\ destroyed \in [1 .. MaxSockets -> Nat]

Session == {"dequeue", "dequeueSerial", "judge", "query", "symbols", "clear",
            "broken", "symbolWait", "terminate"}

(* Which socket is open at each place of the worker.                       *)
PlacesInv ==
  /\ worker \in {"deaf", "wait", "accept"} => sock = 0 /\ ~ connected
  /\ worker \in {"handshake", "rejectHandshake"} => ~ connected /\ sock # 0 /\ destroyed[sock] = 0
  /\ worker \in {"reject", "rejectAccept"} => ~ connected /\ (sock # 0 => destroyed[sock] > 0)
  /\ worker \in Session => connected
  /\ connected /\ main # "deleted" => sock # 0 /\ destroyed[sock] = 0

(* Sockets other than the current one are closed, later ones untouched.    *)
OthersInv ==
  /\ \A s \in 1 .. accepted : s # sock => destroyed[s] > 0
  /\ \A s \in accepted + 1 .. MaxSockets : destroyed[s] = 0

(* The destructor deletes when the worker is done; the symbol thread is    *)
(* gone before the worker reads its queue.                                 *)
EndInv ==
  /\ main = "deleted" => worker = "done" /\ (sock # 0 => destroyed[sock] > 0)
  /\ stage \in {"drain", "last"} => symbol = "gone"
  /\ worker \in {"symbols", "terminate"} => stage \in {"drain", "last"}

SessionInv == SocketTypes /\ PlacesInv /\ OthersInv /\ EndInv

(* And the one behind NothingLeftBehind: what was emitted is queued, in    *)
(* the buffer or at the server as long as it stays.                        *)

Items  == [events : Nat, serial : Nat, answers : Nat]
Counts == [events : Nat, serial : Nat]

QueueTypes ==
  /\ buffer \in Items /\ received \in Items
  /\ events \in [events : Nat, answers : Nat] /\ serial \in Nat
  /\ emitted \in Counts /\ due \in Counts
  /\ due.events <= emitted.events /\ due.serial <= emitted.serial
  /\ shutdown => main # "running"

Packets == {"string", "symbol", "part", "disconnect", "terminate"}

InboxInv ==
  /\ inbox \in Seq(Packets) /\ parted \in BOOLEAN
  /\ \A i \in DOMAIN inbox : inbox[i] = "disconnect" => parted

StagesInv ==
  /\ worker \in Session /\ stage = "parting" => parted
  /\ worker = "clear" => stage = "parting"
  /\ worker = "terminate" => stage = "drain"
  /\ worker = "symbolWait" \/ stage \in {"drain", "last"} => shutdown
  /\ stage \in {"drain", "last"} =>
       worker \in {"dequeue", "dequeueSerial", "judge", "query", "symbols", "terminate", "done"}

Stays == link = "up" /\ ~ parted

SentEvents == received.events + buffer.events
SentSerial == received.serial + buffer.serial

(* Nothing is lost before the first session, nor while the server stays.   *)
NothingLost ==
  /\ worker \in {"wait", "accept", "handshake"} =>
       emitted.events <= events.events /\ emitted.serial <= serial
  /\ worker \in Session /\ stage \in {"main", "drain"} /\ Stays =>
       emitted.events <= SentEvents + events.events /\ emitted.serial <= SentSerial + serial

(* A queue found empty after the exit has given all that is due.           *)
FoundEmpty ==
  stage = "drain" /\ Stays =>
    /\ worker \in {"dequeueSerial", "judge"} /\ status = "empty" => due.events <= SentEvents
    /\ worker = "judge" /\ serialStatus = "empty" => due.serial <= SentSerial
    /\ worker = "terminate" => due.events <= received.events /\ due.serial <= received.serial

DeliveryInv == QueueTypes /\ InboxInv /\ StagesInv /\ NothingLost /\ FoundEmpty /\ NothingLeftBehind
=============================================================================
