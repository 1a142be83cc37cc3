------------------------------ MODULE IocpExit ------------------------------
(***************************************************************************)
(* The life of an IocpServer: start, shutdown, stop and the destructor, on *)
(* the thread that owns the server, against the loop of the worker         *)
(* threads.  What a handler does to contexts and sockets is the subject of *)
(* IocpServer; here a handler is one step that may post its operation      *)
(* again.                                                                  *)
(*                                                                         *)
(* The completion port is external: a queue, served in order.  AcceptEx is *)
(* assumed to end when the listening or the accepting socket is closed,    *)
(* which is what stop() waits for.                                         *)
(***************************************************************************)
EXTENDS Naturals, Sequences, FiniteSets

CONSTANTS
  Workers,     \* one per processor
  Accepts,     \* the POST_ACCEPT_CNT AcceptIoContexts
  Faults,      \* what may fail
  MaxConnects, \* bound: clients that connect
  None

ExitFaults == {"init", "event", "port", "bind", "extension", "thread",
               "accept", "post", "cancel"}

ASSUME ExitAssumption ==
  /\ IsFiniteSet(Workers) /\ IsFiniteSet(Accepts)
  /\ None \notin Accepts
  /\ Faults \subseteq ExitFaults
  /\ MaxConnects \in Nat

VARIABLES
  owner,      \* where the owning thread is
  stops,      \* calls of stop() that are still to come, the current included
  event,      \* m_hExitEvent
  port,       \* m_hComPort
  listener,   \* m_pListenCtx->m_socket
  shut,       \* m_bIsShutdown
  wpc, wio,   \* per worker: place in the loop, AcceptIoContext in use
  queue,      \* packets in the completion port
  left,       \* EXIT_THREAD packets still to be posted
  made,       \* AcceptIoContexts that new has returned
  listed,     \* m_acceptIoCtxList
  closing,    \* the AcceptIoContext whose operation the owner waits for
  deleted,    \* AcceptIoContexts deleted
  flight,     \* AcceptIoContexts whose AcceptEx is pending
  connects,   \* clients that have connected
  clientOps   \* operations on clients in flight

workerVars == <<wpc, wio>>
serverVars == <<event, port, listener, shut>>
acceptVars == <<made, listed, closing, deleted>>
netVars == <<flight, connects, clientOps>>
exitVars == <<owner, stops, serverVars, workerVars, queue, left, acceptVars,
              netVars>>

\* The threads that createIocpWorker has started, m_nWorkerCnt of them.
Started == {w \in Workers : wpc[w] # "none"}
InLoop(w) == wpc[w] \in {"test", "wait", "accept", "client"}
AllExited == \A w \in Workers : ~InLoop(w)

Packet(key, a) == [key |-> key, io |-> a]

\* A completion is queued as long as the port is open.
Complete(p) == queue' = IF port = "open" THEN Append(queue, p) ELSE queue

\* The constructor; CreateEvent may fail.
ExitInit ==
  /\ owner = "new" /\ stops = 0
  /\ event \in {"unset"} \cup (IF "event" \in Faults THEN {"null"} ELSE {})
  /\ port = "null" /\ listener = "null" /\ shut = FALSE
  /\ wpc = [w \in Workers |-> "none"] /\ wio = [w \in Workers |-> None]
  /\ queue = <<>> /\ left = 0
  /\ made = {} /\ listed = {} /\ closing = None /\ deleted = {}
  /\ flight = {} /\ connects = 0 /\ clientOps = 0

-----------------------------------------------------------------------------
(* start *)

\* main returns when start() has failed, and the destructor calls stop().
StartFails == owner' = "stop" /\ stops' = 1

\* Net::init, and createListenClient with getAcceptExPtr and
\* getAcceptExSockaddrs, which close the listening socket when they fail.
CreateListen ==
  /\ owner = "new"
  /\ \/ /\ "init" \in Faults /\ StartFails
        /\ UNCHANGED <<port, listener>>
     \/ /\ "port" \in Faults /\ StartFails
        /\ listener' = "open" /\ UNCHANGED port
     \/ /\ "bind" \in Faults /\ StartFails
        /\ listener' = "open" /\ port' = "open"
     \/ /\ "extension" \in Faults /\ StartFails
        /\ listener' = "closed" /\ port' = "open"
     \/ /\ owner' = "workers" /\ UNCHANGED stops
        /\ listener' = "open" /\ port' = "open"
  /\ UNCHANGED <<event, shut, workerVars, queue, left, acceptVars, netVars>>

\* One round of the loop of createIocpWorker, and its end.
CreateWorker ==
  /\ owner = "workers"
  /\ \/ /\ \E w \in Workers \ Started : wpc' = [wpc EXCEPT ![w] = "test"]
        /\ UNCHANGED <<owner, stops>>
     \/ /\ Started # Workers /\ "thread" \in Faults /\ StartFails
        /\ UNCHANGED wpc
     \/ /\ Started = Workers
        /\ owner' = "accepts" /\ UNCHANGED <<stops, wpc>>
  /\ UNCHANGED <<serverVars, wio, queue, left, acceptVars, netVars>>

\* Mutant: a context goes on the list only once its AcceptEx is posted.
PostAccept_ListsLate ==
  /\ owner = "accepts"
  /\ \/ \E a \in Accepts \ made :
          /\ made' = made \cup {a}
          /\ \/ /\ flight' = flight \cup {a} /\ listed' = listed \cup {a}
                /\ UNCHANGED <<owner, stops>>
             \/ /\ "accept" \in Faults /\ StartFails
                /\ UNCHANGED <<flight, listed>>
     \/ /\ made = Accepts
        /\ owner' = "running" /\ UNCHANGED <<stops, flight, made, listed>>
  /\ UNCHANGED <<serverVars, workerVars, queue, left, closing, deleted,
                 connects, clientOps>>

\* One round of the loop of initAcceptIoContext, and its end.
PostAccept ==
  /\ owner = "accepts"
  /\ \/ \E a \in Accepts \ made :
          /\ made' = made \cup {a}
          /\ listed' = listed \cup {a}
          /\ \/ /\ flight' = flight \cup {a}
                /\ UNCHANGED <<owner, stops>>
             \/ /\ "accept" \in Faults /\ StartFails
                /\ UNCHANGED flight
     \/ /\ made = Accepts
        /\ owner' = "running" /\ UNCHANGED <<stops, flight, made, listed>>
  /\ UNCHANGED <<serverVars, workerVars, queue, left, closing, deleted,
                 connects, clientOps>>

-----------------------------------------------------------------------------
(* shutdown *)

\* shutdown(), up to the loop: it gives up when there is nothing to cancel on
\* the listening socket, with m_bIsShutdown already set.
Shutdown ==
  /\ owner = "running" /\ ~shut
  /\ shut' = TRUE
  /\ \/ /\ flight # {}
        /\ listener' = "closed"
        /\ owner' = "shut"
     \/ /\ flight = {} \/ "cancel" \in Faults
        /\ UNCHANGED <<listener, owner>>
  /\ UNCHANGED <<stops, event, port, workerVars, queue, left, acceptVars,
                 netVars>>

\* One round of the loop in shutdown(): an operation that CancelIoEx does not
\* find leaves its context undeleted; m_acceptIoCtxList is cleared at the end.
ShutdownAccept ==
  /\ owner = "shut" /\ closing = None
  /\ \/ \E a \in listed :
          /\ listed' = listed \ {a}
          /\ \/ a \in flight /\ closing' = a
             \/ /\ a \notin flight \/ "cancel" \in Faults
                /\ UNCHANGED closing
          /\ UNCHANGED owner
     \/ /\ listed = {}
        /\ owner' = "running" /\ UNCHANGED <<listed, closing>>
  /\ UNCHANGED <<stops, serverVars, workerVars, queue, left, made, deleted,
                 netVars>>

-----------------------------------------------------------------------------
(* stop *)

\* The owner calls stop() and the destructor calls it again, or the destructor
\* alone does.
Stop ==
  /\ owner = "running"
  /\ owner' = "stop"
  /\ stops' \in {1, 2}
  /\ UNCHANGED <<serverVars, workerVars, queue, left, acceptVars, netVars>>

\* Mutant: one packet fewer than there are workers.
ExitSignal_OneLess ==
  /\ owner = "stop"
  /\ event' = IF event = "unset" THEN "set" ELSE event
  /\ left' = IF Started = {} THEN 0 ELSE Cardinality(Started) - 1
  /\ owner' = "post"
  /\ UNCHANGED <<stops, port, listener, shut, workerVars, queue, acceptVars,
                 netVars>>

\* exitIocpWorker: SetEvent ...
ExitSignal ==
  /\ owner = "stop"
  /\ event' = IF event = "unset" THEN "set" ELSE event
  /\ left' = Cardinality(Started)
  /\ owner' = "post"
  /\ UNCHANGED <<stops, port, listener, shut, workerVars, queue, acceptVars,
                 netVars>>

\* ... one packet per worker ...
ExitPost ==
  /\ owner = "post"
  /\ \/ /\ left > 0
        /\ left' = left - 1
        /\ \/ port = "open" /\ queue' = Append(queue, Packet("exit", None))
           \/ (port # "open" \/ "post" \in Faults) /\ UNCHANGED queue
        /\ UNCHANGED owner
     \/ /\ left = 0
        /\ owner' = "wait" /\ UNCHANGED <<left, queue>>
  /\ UNCHANGED <<stops, serverVars, workerVars, acceptVars, netVars>>

\* Mutant: WaitForMultipleObjects waits for any of the threads.
ExitWait_Any ==
  /\ owner = "wait"
  /\ Started # {} => \E w \in Started : wpc[w] = "exited"
  /\ owner' = "delete"
  /\ UNCHANGED <<stops, serverVars, workerVars, queue, left, acceptVars,
                 netVars>>

\* ... and WaitForMultipleObjects, for all of them.
ExitWait ==
  /\ owner = "wait"
  /\ \A w \in Started : wpc[w] = "exited"
  /\ owner' = "delete"
  /\ UNCHANGED <<stops, serverVars, workerVars, queue, left, acceptVars,
                 netVars>>

\* The loop over m_acceptIoCtxList in stop(): closesocket, then wait.
StopAccept ==
  /\ owner = "delete" /\ closing = None
  /\ \E a \in listed : closing' = a /\ listed' = listed \ {a}
  /\ UNCHANGED <<owner, stops, serverVars, workerVars, queue, left, made, deleted,
                 netVars>>

\* Mutant: the context is deleted without waiting for its operation.
DeleteAccept_NoWait ==
  /\ owner \in {"delete", "shut"} /\ closing # None
  /\ deleted' = deleted \cup {closing}
  /\ closing' = None
  /\ UNCHANGED <<owner, stops, serverVars, workerVars, queue, left, made, listed,
                 netVars>>

\* HasOverlappedIoCompleted, and delete.
DeleteAccept ==
  /\ owner \in {"delete", "shut"} /\ closing # None
  /\ closing \notin flight
  /\ deleted' = deleted \cup {closing}
  /\ closing' = None
  /\ UNCHANGED <<owner, stops, serverVars, workerVars, queue, left, made, listed,
                 netVars>>

\* The rest of stop(): the event, the port and the listening socket.
StopEnds ==
  /\ owner = "delete" /\ closing = None /\ listed = {}
  /\ event' = IF event = "null" THEN "null" ELSE "closed"
  /\ port' = IF port = "null" THEN "null" ELSE "closed"
  /\ listener' = IF listener = "null" THEN "null" ELSE "closed"
  /\ queue' = <<>>
  /\ stops' = stops - 1
  /\ owner' = IF stops = 1 THEN "gone" ELSE "stop"
  /\ UNCHANGED <<shut, workerVars, left, acceptVars, netVars>>

-----------------------------------------------------------------------------
(* IocpWorkerThread *)

\* The test of the loop: WaitForSingleObject with no time.
TestEvent(w) ==
  /\ wpc[w] = "test"
  /\ wpc' = [wpc EXCEPT ![w] = IF event = "set" THEN "exited" ELSE "wait"]
  /\ UNCHANGED <<owner, stops, serverVars, wio, queue, left, acceptVars,
                 netVars>>

\* Mutant: m_bIsShutdown is not tested.
Dispatch_NoShutdown(p) ==
  CASE p.key = "exit" -> "exited" [] OTHER -> p.key

\* Where a packet takes the worker.
Dispatch(p) ==
  CASE p.key = "exit" -> "exited"
    [] p.key = "accept" /\ shut -> "test"
    [] OTHER -> p.key

\* GetQueuedCompletionStatus.
TakePacket(w) ==
  /\ wpc[w] = "wait" /\ queue # <<>>
  /\ wpc' = [wpc EXCEPT ![w] = Dispatch(Head(queue))]
  /\ wio' = [wio EXCEPT ![w] =
               IF Dispatch(Head(queue)) = "accept" THEN Head(queue).io ELSE None]
  /\ queue' = Tail(queue)
  /\ UNCHANGED <<owner, stops, serverVars, left, acceptVars, netVars>>

\* handleAccept: the client's first receive may be posted, and AcceptEx again.
HandleAccept(w) ==
  /\ wpc[w] = "accept"
  /\ clientOps' \in {clientOps, clientOps + 1}
  /\ \/ listener = "open" /\ flight' = flight \cup {wio[w]}
     \/ (listener # "open" \/ "accept" \in Faults) /\ UNCHANGED flight
  /\ wpc' = [wpc EXCEPT ![w] = "test"]
  /\ wio' = [wio EXCEPT ![w] = None]
  /\ UNCHANGED <<owner, stops, serverVars, queue, left, acceptVars, connects>>

\* handleRecv, handleSend and handleClose: another operation, or none.
HandleClient(w) ==
  /\ wpc[w] = "client"
  /\ clientOps' \in {clientOps, clientOps + 1}
  /\ wpc' = [wpc EXCEPT ![w] = "test"]
  /\ UNCHANGED <<owner, stops, serverVars, wio, queue, left, acceptVars,
                 flight, connects>>

-----------------------------------------------------------------------------
(* The system *)

EndAccept(a) ==
  /\ a \in flight
  /\ flight' = flight \ {a}
  /\ Complete(Packet("accept", a))
  /\ UNCHANGED <<owner, stops, serverVars, workerVars, left, acceptVars,
                 clientOps>>

\* A client connects.
Connected(a) ==
  /\ listener = "open" /\ connects < MaxConnects
  /\ connects' = connects + 1
  /\ EndAccept(a)

\* The pending AcceptEx fails, since one of its sockets was closed.
Aborted(a) ==
  /\ listener = "closed" \/ closing = a
  /\ EndAccept(a)
  /\ UNCHANGED connects

\* An operation on a client is completed.
ClientDone ==
  /\ clientOps > 0
  /\ clientOps' = clientOps - 1
  /\ Complete(Packet("client", None))
  /\ UNCHANGED <<owner, stops, serverVars, workerVars, left, acceptVars,
                 flight, connects>>

Start == CreateListen \/ CreateWorker \/ PostAccept
ShutdownSteps == Shutdown \/ ShutdownAccept
StopSteps ==
  ExitSignal \/ ExitPost \/ ExitWait \/ StopAccept \/ DeleteAccept \/ StopEnds
Loop(w) == TestEvent(w) \/ TakePacket(w) \/ HandleAccept(w) \/ HandleClient(w)

\* The server object is destroyed: nothing is left to run.
Destroyed == owner = "gone" /\ AllExited /\ UNCHANGED exitVars

ExitNext ==
  \/ Start \/ ShutdownSteps \/ Stop \/ StopSteps
  \/ \E w \in Workers : Loop(w)
  \/ \E a \in Accepts : Connected(a) \/ Aborted(a)
  \/ ClientDone
  \/ Destroyed

ExitSpec == ExitInit /\ [][ExitNext]_exitVars

\* Runnable threads run, and the system ends operations on closed sockets.
\* Nothing makes the owner call stop(), a client connect or send.
ExitFairness ==
  /\ WF_exitVars(Start \/ ShutdownAccept \/ StopSteps)
  /\ \A w \in Workers : WF_exitVars(Loop(w))
  /\ \A a \in Accepts : WF_exitVars(Aborted(a))

ExitFairSpec == ExitSpec /\ ExitFairness

-----------------------------------------------------------------------------
(* Properties *)

\* A worker that is still in its loop uses m_hExitEvent, m_hComPort and the
\* listening context: stop() releases them only when every worker has left,
\* whichever of the event and the packet each of them saw.
ServerOutlivesWorkers ==
  \A w \in Workers : InLoop(w) => event # "closed" /\ port = "open"

\* handleAccept never works on an AcceptIoContext that stop() or shutdown()
\* has deleted, although shutdown() deletes them under the running workers.
NoDeletedInUse == \A w \in Workers : wpc[w] = "accept" => wio[w] \notin deleted

\* The system writes to the OVERLAPPED of an operation until it ends: no
\* AcceptIoContext is deleted before that.
NoDeletedInFlight == deleted \cap flight = {}

\* A server that was not shut down gives everything back, also when start()
\* failed half-way: every AcceptIoContext it made is deleted.
StopReclaims ==
  owner = "gone" /\ ~shut =>
    /\ deleted = made /\ flight = {}
    /\ event \in {"null", "closed"} /\ port \in {"null", "closed"}

\* stop() returns, also with packets still in the queue, workers inside a
\* handler or no exit event, as long as the packets can be posted.
StopReturns ==
  "post" \notin Faults =>
    (owner \in {"stop", "post", "wait", "delete"} ~> owner = "gone")
=============================================================================
