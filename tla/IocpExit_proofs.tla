--------------------------- MODULE IocpExit_proofs --------------------------
(***************************************************************************)
(* Proofs about the life of an IocpServer: what a worker uses outlives it, *)
(* for any number of workers and AcceptIoContexts and for every fault.     *)
(***************************************************************************)
EXTENDS IocpExit, TLAPS

Packets == [key : {"exit", "accept", "client"}, io : Accepts \cup {None}]

WorkerPcs == {"none", "test", "wait", "accept", "client", "exited"}

ExitTypeOK ==
  /\ wpc \in [Workers -> WorkerPcs]
  /\ wio \in [Workers -> Accepts \cup {None}]
  /\ queue \in Seq(Packets)
  /\ made \subseteq Accepts /\ listed \subseteq made
  /\ closing \in made \cup {None}
  /\ flight \subseteq made /\ deleted \subseteq made
  /\ shut \in BOOLEAN

\* The steps of stop().
Stopping == {"stop", "post", "wait", "delete", "gone"}

\* The handles are there for the workers that run, and for those that are still
\* to be started.
HandlesInv ==
  /\ ServerOutlivesWorkers
  /\ owner = "new" => event # "closed"
  /\ owner = "workers" => event # "closed" /\ port = "open"
  /\ owner = "delete" => AllExited

\* Each AcceptIoContext is in one place: with the system, in a packet, or with a
\* worker.
PlacesInv ==
  /\ \A i \in 1 .. Len(queue) : queue[i].key = "accept" =>
       queue[i].io \in made /\ queue[i].io \notin flight
  /\ \A i, j \in 1 .. Len(queue) :
       queue[i].key = "accept" /\ queue[j].key = "accept" /\ i # j =>
         queue[i].io # queue[j].io
  /\ \A w \in Workers : wpc[w] = "accept" =>
       /\ wio[w] \in made /\ wio[w] \notin flight
       /\ \A i \in 1 .. Len(queue) :
            queue[i].key = "accept" => queue[i].io # wio[w]
       /\ \A v \in Workers : wpc[v] = "accept" /\ v # w => wio[v] # wio[w]

\* A context that is deleted, or about to be, is out of the reach of the workers:
\* they drop its packet, or have left.
DeletedInv ==
  /\ NoDeletedInUse
  /\ NoDeletedInFlight
  /\ owner = "shut" => shut
  /\ closing # None => owner \in {"shut", "delete"}
  /\ owner = "shut" /\ closing # None =>
       \A w \in Workers : wpc[w] = "accept" => wio[w] # closing
  /\ deleted # {} /\ ~shut => AllExited /\ owner \in Stopping

ExitInv == ExitTypeOK /\ HandlesInv /\ PlacesInv /\ DeletedInv

-----------------------------------------------------------------------------

\* The constructor establishes the invariant.
LEMMA ExitInitInv == ExitInit => ExitInv
<1> SUFFICES ASSUME ExitInit PROVE ExitInv
  OBVIOUS
<1>1. ExitTypeOK
  <2>1. queue \in Seq(Packets)
    <3>1. queue = <<>>
      BY DEF ExitInit
    <3> QED BY <3>1
  <2>2. shut \in BOOLEAN
    BY Zenon DEF ExitInit
  <2>3. /\ wpc \in [Workers -> WorkerPcs] /\ wio \in [Workers -> Accepts \cup {None}]
        /\ made \subseteq Accepts /\ listed \subseteq made
        /\ closing \in made \cup {None} /\ flight \subseteq made /\ deleted \subseteq made
    BY DEF ExitInit, WorkerPcs
  <2> QED BY <2>1, <2>2, <2>3 DEF ExitTypeOK
<1>2. HandlesInv
  BY DEF ExitInit, HandlesInv, ServerOutlivesWorkers, InLoop
<1>3. PlacesInv
  BY DEF ExitInit, PlacesInv
<1>4. DeletedInv
  BY DEF ExitInit, DeletedInv, NoDeletedInUse, NoDeletedInFlight
<1> QED BY <1>1, <1>2, <1>3, <1>4 DEF ExitInv

\* start() opens the port before any worker is started.
LEMMA CreateListenInv == ExitInv /\ CreateListen => ExitInv'
<1> SUFFICES ASSUME ExitInv, CreateListen PROVE ExitInv'
  OBVIOUS
<1> USE ExitAssumption DEF ExitInv, serverVars, workerVars, acceptVars, netVars
<1>1. ExitTypeOK'
  BY DEF ExitTypeOK, CreateListen, StartFails
<1>2. HandlesInv'
  BY DEF ExitTypeOK, HandlesInv, ServerOutlivesWorkers, AllExited, InLoop, CreateListen, StartFails
<1>3. PlacesInv'
  BY DEF ExitTypeOK, PlacesInv, CreateListen, StartFails
<1>4. DeletedInv'
  BY DEF ExitTypeOK, HandlesInv, PlacesInv, DeletedInv, Stopping, NoDeletedInUse,
    NoDeletedInFlight, AllExited, InLoop, CreateListen, StartFails
<1> QED BY <1>1, <1>2, <1>3, <1>4

\* A worker is started with the port open.
LEMMA CreateWorkerInv == ExitInv /\ CreateWorker => ExitInv'
<1> SUFFICES ASSUME ExitInv, CreateWorker PROVE ExitInv'
  OBVIOUS
<1> USE ExitAssumption DEF ExitInv, serverVars, workerVars, acceptVars, netVars
<1>1. ExitTypeOK'
  BY DEF ExitTypeOK, CreateWorker, StartFails, Started, WorkerPcs
<1>2. HandlesInv'
  BY DEF ExitTypeOK, HandlesInv, ServerOutlivesWorkers, AllExited, InLoop, CreateWorker, StartFails, Started, WorkerPcs
<1>3. PlacesInv'
  BY DEF ExitTypeOK, PlacesInv, CreateWorker, StartFails, Started, WorkerPcs
<1>4. DeletedInv'
  BY DEF ExitTypeOK, HandlesInv, PlacesInv, DeletedInv, Stopping, NoDeletedInUse,
    NoDeletedInFlight, AllExited, InLoop, CreateWorker, StartFails, Started, WorkerPcs
<1> QED BY <1>1, <1>2, <1>3, <1>4

\* A new AcceptIoContext is nowhere yet.
LEMMA PostAcceptInv == ExitInv /\ PostAccept => ExitInv'
<1> SUFFICES ASSUME ExitInv, PostAccept PROVE ExitInv'
  OBVIOUS
<1> USE ExitAssumption DEF ExitInv, serverVars, workerVars, acceptVars, netVars
<1>1. ExitTypeOK'
  BY DEF ExitTypeOK, PostAccept, StartFails
<1>2. HandlesInv'
  BY DEF ExitTypeOK, HandlesInv, ServerOutlivesWorkers, AllExited, InLoop, PostAccept, StartFails
<1>3. PlacesInv'
  BY DEF ExitTypeOK, PlacesInv, PostAccept, StartFails
<1>4. DeletedInv'
  BY DEF ExitTypeOK, HandlesInv, PlacesInv, DeletedInv, Stopping, NoDeletedInUse,
    NoDeletedInFlight, AllExited, InLoop, PostAccept, StartFails
<1> QED BY <1>1, <1>2, <1>3, <1>4

\* shutdown() sets its flag first.
LEMMA ShutdownInv == ExitInv /\ Shutdown => ExitInv'
<1> SUFFICES ASSUME ExitInv, Shutdown PROVE ExitInv'
  OBVIOUS
<1> USE ExitAssumption DEF ExitInv, serverVars, workerVars, acceptVars, netVars
<1>1. ExitTypeOK'
  BY DEF ExitTypeOK, Shutdown
<1>2. HandlesInv'
  BY DEF ExitTypeOK, HandlesInv, ServerOutlivesWorkers, AllExited, InLoop, Shutdown
<1>3. PlacesInv'
  BY DEF ExitTypeOK, PlacesInv, Shutdown
<1>4. DeletedInv'
  BY DEF ExitTypeOK, HandlesInv, PlacesInv, DeletedInv, Stopping, NoDeletedInUse,
    NoDeletedInFlight, AllExited, InLoop, Shutdown
<1> QED BY <1>1, <1>2, <1>3, <1>4

\* An operation that shutdown() waits for is with the system.
LEMMA ShutdownAcceptInv == ExitInv /\ ShutdownAccept => ExitInv'
<1> SUFFICES ASSUME ExitInv, ShutdownAccept PROVE ExitInv'
  OBVIOUS
<1> USE ExitAssumption DEF ExitInv, serverVars, workerVars, acceptVars, netVars
<1>1. ExitTypeOK'
  BY DEF ExitTypeOK, ShutdownAccept
<1>2. HandlesInv'
  BY DEF ExitTypeOK, HandlesInv, ServerOutlivesWorkers, AllExited, InLoop, ShutdownAccept
<1>3. PlacesInv'
  BY DEF ExitTypeOK, PlacesInv, ShutdownAccept
<1>4. DeletedInv'
  BY DEF ExitTypeOK, HandlesInv, PlacesInv, DeletedInv, Stopping, NoDeletedInUse,
    NoDeletedInFlight, AllExited, InLoop, ShutdownAccept
<1> QED BY <1>1, <1>2, <1>3, <1>4

\* stop() begins.
LEMMA StopInv == ExitInv /\ Stop => ExitInv'
<1> SUFFICES ASSUME ExitInv, Stop PROVE ExitInv'
  OBVIOUS
<1> USE ExitAssumption DEF ExitInv, serverVars, workerVars, acceptVars, netVars
<1>1. ExitTypeOK'
  BY DEF ExitTypeOK, Stop
<1>2. HandlesInv'
  BY DEF ExitTypeOK, HandlesInv, ServerOutlivesWorkers, AllExited, InLoop, Stop
<1>3. PlacesInv'
  BY DEF ExitTypeOK, PlacesInv, Stop
<1>4. DeletedInv'
  BY DEF ExitTypeOK, HandlesInv, PlacesInv, DeletedInv, Stopping, NoDeletedInUse,
    NoDeletedInFlight, AllExited, InLoop, Stop
<1> QED BY <1>1, <1>2, <1>3, <1>4

\* exitIocpWorker sets the event.
LEMMA ExitSignalInv == ExitInv /\ ExitSignal => ExitInv'
<1> SUFFICES ASSUME ExitInv, ExitSignal PROVE ExitInv'
  OBVIOUS
<1> USE ExitAssumption DEF ExitInv, serverVars, workerVars, acceptVars, netVars
<1>1. ExitTypeOK'
  BY DEF ExitTypeOK, ExitSignal
<1>2. HandlesInv'
  BY DEF ExitTypeOK, HandlesInv, ServerOutlivesWorkers, AllExited, InLoop, ExitSignal
<1>3. PlacesInv'
  BY DEF ExitTypeOK, PlacesInv, ExitSignal
<1>4. DeletedInv'
  BY DEF ExitTypeOK, HandlesInv, PlacesInv, DeletedInv, Stopping, NoDeletedInUse,
    NoDeletedInFlight, AllExited, InLoop, ExitSignal
<1> QED BY <1>1, <1>2, <1>3, <1>4

\* The packets of exitIocpWorker carry no AcceptIoContext.
LEMMA ExitPostInv == ExitInv /\ ExitPost => ExitInv'
<1> SUFFICES ASSUME ExitInv, ExitPost PROVE ExitInv'
  OBVIOUS
<1> USE ExitAssumption DEF ExitInv, serverVars, workerVars, acceptVars, netVars
<1>1. ExitTypeOK'
  <2>1. Packet("exit", None) \in Packets
    BY DEF Packet, Packets
  <2>2. queue' \in Seq(Packets)
    BY <2>1 DEF ExitTypeOK, ExitPost
  <2> QED BY <2>2 DEF ExitTypeOK, ExitPost
<1>2. HandlesInv'
  BY DEF ExitTypeOK, HandlesInv, ServerOutlivesWorkers, AllExited, InLoop, ExitPost, Packet, Packets
<1>3. PlacesInv'
  <2>1. CASE UNCHANGED queue
    BY <2>1 DEF PlacesInv, ExitPost
  <2>2. CASE queue' = Append(queue, Packet("exit", None))
    <3>1. Packet("exit", None).key # "accept"
      BY DEF Packet
    <3>2. /\ Len(queue') = Len(queue) + 1 /\ Len(queue) \in Nat
          /\ \A i \in 1 .. Len(queue') :
               queue'[i] = IF i <= Len(queue) THEN queue[i] ELSE Packet("exit", None)
      BY <2>2 DEF ExitTypeOK
    <3>3. \A i \in 1 .. Len(queue') : queue'[i].key = "accept" =>
            i \in 1 .. Len(queue) /\ queue'[i] = queue[i]
      BY <3>1, <3>2
    <3> QED BY <3>3 DEF PlacesInv, ExitPost
  <2> QED BY <2>1, <2>2 DEF ExitPost
<1>4. DeletedInv'
  BY DEF ExitTypeOK, HandlesInv, PlacesInv, DeletedInv, Stopping, NoDeletedInUse,
    NoDeletedInFlight, AllExited, InLoop, ExitPost, Packet, Packets
<1> QED BY <1>1, <1>2, <1>3, <1>4

\* When all threads have ended no worker is in its loop.
LEMMA ExitWaitInv == ExitInv /\ ExitWait => ExitInv'
<1> SUFFICES ASSUME ExitInv, ExitWait PROVE ExitInv'
  OBVIOUS
<1> USE ExitAssumption DEF ExitInv, serverVars, workerVars, acceptVars, netVars
<1>1. ExitTypeOK'
  BY DEF ExitTypeOK, ExitWait, Started
<1>2. HandlesInv'
  BY DEF ExitTypeOK, HandlesInv, ServerOutlivesWorkers, AllExited, InLoop, ExitWait, Started
<1>3. PlacesInv'
  BY DEF ExitTypeOK, PlacesInv, ExitWait, Started
<1>4. DeletedInv'
  BY DEF ExitTypeOK, HandlesInv, PlacesInv, DeletedInv, Stopping, NoDeletedInUse,
    NoDeletedInFlight, AllExited, InLoop, ExitWait, Started
<1> QED BY <1>1, <1>2, <1>3, <1>4

\* stop() takes a context off the list.
LEMMA StopAcceptInv == ExitInv /\ StopAccept => ExitInv'
<1> SUFFICES ASSUME ExitInv, StopAccept PROVE ExitInv'
  OBVIOUS
<1> USE ExitAssumption DEF ExitInv, serverVars, workerVars, acceptVars, netVars
<1>1. ExitTypeOK'
  BY DEF ExitTypeOK, StopAccept
<1>2. HandlesInv'
  BY DEF ExitTypeOK, HandlesInv, ServerOutlivesWorkers, AllExited, InLoop, StopAccept
<1>3. PlacesInv'
  BY DEF ExitTypeOK, PlacesInv, StopAccept
<1>4. DeletedInv'
  BY DEF ExitTypeOK, HandlesInv, PlacesInv, DeletedInv, Stopping, NoDeletedInUse,
    NoDeletedInFlight, AllExited, InLoop, StopAccept
<1> QED BY <1>1, <1>2, <1>3, <1>4

\* A context is deleted when its operation has ended, and no worker has it.
LEMMA DeleteAcceptInv == ExitInv /\ DeleteAccept => ExitInv'
<1> SUFFICES ASSUME ExitInv, DeleteAccept PROVE ExitInv'
  OBVIOUS
<1> USE ExitAssumption DEF ExitInv, serverVars, workerVars, acceptVars, netVars
<1>1. ExitTypeOK'
  BY DEF ExitTypeOK, DeleteAccept
<1>2. HandlesInv'
  BY DEF ExitTypeOK, HandlesInv, ServerOutlivesWorkers, AllExited, InLoop, DeleteAccept
<1>3. PlacesInv'
  BY DEF ExitTypeOK, PlacesInv, DeleteAccept
<1>4. DeletedInv'
  BY DEF ExitTypeOK, HandlesInv, PlacesInv, DeletedInv, Stopping, NoDeletedInUse,
    NoDeletedInFlight, AllExited, InLoop, DeleteAccept
<1> QED BY <1>1, <1>2, <1>3, <1>4

\* The handles are closed when no worker is in its loop.
LEMMA StopEndsInv == ExitInv /\ StopEnds => ExitInv'
<1> SUFFICES ASSUME ExitInv, StopEnds PROVE ExitInv'
  OBVIOUS
<1> USE ExitAssumption DEF ExitInv, serverVars, workerVars, acceptVars, netVars
<1>1. ExitTypeOK'
  BY DEF ExitTypeOK, StopEnds
<1>2. HandlesInv'
  BY DEF ExitTypeOK, HandlesInv, ServerOutlivesWorkers, AllExited, InLoop, StopEnds
<1>3. PlacesInv'
  BY DEF ExitTypeOK, PlacesInv, StopEnds
<1>4. DeletedInv'
  BY DEF ExitTypeOK, HandlesInv, PlacesInv, DeletedInv, Stopping, NoDeletedInUse,
    NoDeletedInFlight, AllExited, InLoop, StopEnds
<1> QED BY <1>1, <1>2, <1>3, <1>4

\* The test of the exit event.
LEMMA TestEventInv ==
  ASSUME NEW w \in Workers, ExitInv, TestEvent(w)
  PROVE  ExitInv'
<1> USE ExitAssumption DEF ExitInv, serverVars, workerVars, acceptVars, netVars
<1>1. ExitTypeOK'
  BY DEF ExitTypeOK, TestEvent, WorkerPcs
<1>2. HandlesInv'
  BY DEF ExitTypeOK, HandlesInv, ServerOutlivesWorkers, AllExited, InLoop, TestEvent, WorkerPcs
<1>3. PlacesInv'
  BY DEF ExitTypeOK, PlacesInv, TestEvent, WorkerPcs
<1>4. DeletedInv'
  BY DEF ExitTypeOK, HandlesInv, PlacesInv, DeletedInv, Stopping, NoDeletedInUse,
    NoDeletedInFlight, AllExited, InLoop, TestEvent, WorkerPcs
<1> QED BY <1>1, <1>2, <1>3, <1>4

\* A worker takes a context from its packet, unless the server is shut down.
LEMMA TakePacketInv ==
  ASSUME NEW w \in Workers, ExitInv, TakePacket(w)
  PROVE  ExitInv'
<1> USE ExitAssumption DEF ExitInv, serverVars, workerVars, acceptVars, netVars
<1> DEFINE p == Head(queue)
<1>a. /\ p \in Packets /\ p = queue[1] /\ 1 \in 1 .. Len(queue)
      /\ queue' \in Seq(Packets)
      /\ Len(queue') = Len(queue) - 1 /\ Len(queue) \in Nat
      /\ \A i \in 1 .. Len(queue') : queue'[i] = queue[i + 1]
  BY DEF ExitTypeOK, TakePacket
<1>b. p.key \in {"exit", "accept", "client"} /\ p.io \in Accepts \cup {None}
  BY <1>a DEF Packets
<1>c. /\ Dispatch(p) \in WorkerPcs
      /\ Dispatch(p) = "accept" => p.key = "accept" /\ ~shut
  BY <1>b DEF Dispatch, WorkerPcs, ExitTypeOK
<1>d. /\ wpc' = [wpc EXCEPT ![w] = Dispatch(p)]
      /\ wio' = [wio EXCEPT ![w] = IF Dispatch(p) = "accept" THEN p.io ELSE None]
      /\ UNCHANGED <<owner, event, port, shut, made, listed, closing, deleted, flight>>
  BY DEF TakePacket
<1> HIDE DEF p
<1>1. ExitTypeOK'
  BY <1>a, <1>b, <1>c, <1>d DEF ExitTypeOK
<1>2. HandlesInv'
  BY DEF ExitTypeOK, HandlesInv, ServerOutlivesWorkers, AllExited, InLoop, TakePacket, Dispatch, Packets, WorkerPcs
<1>3. PlacesInv'
  <2>1. \A i \in 1 .. Len(queue') : i + 1 \in 1 .. Len(queue) /\ i + 1 # 1
    BY <1>a
  <2>2. \A i \in 1 .. Len(queue') : queue'[i].key = "accept" =>
          queue'[i].io \in made /\ queue'[i].io \notin flight
    BY <2>1, <1>a DEF PlacesInv
  <2>3. \A i, j \in 1 .. Len(queue') :
          queue'[i].key = "accept" /\ queue'[j].key = "accept" /\ i # j =>
            queue'[i].io # queue'[j].io
    <3> SUFFICES ASSUME NEW i \in 1 .. Len(queue'), NEW j \in 1 .. Len(queue'),
                        queue'[i].key = "accept", queue'[j].key = "accept", i # j
                 PROVE  queue'[i].io # queue'[j].io
      OBVIOUS
    <3>1. i + 1 # j + 1
      BY <1>a
    <3> QED BY <3>1, <2>1, <1>a DEF PlacesInv
  <2>4. \A v \in Workers : wpc'[v] = "accept" =>
          IF v = w THEN wio'[v] = p.io /\ p.key = "accept"
          ELSE wio'[v] = wio[v] /\ wpc[v] = "accept"
    BY <1>c, <1>d DEF ExitTypeOK
  <2>5. p.key = "accept" =>
          /\ p.io \in made /\ p.io \notin flight
          /\ \A i \in 1 .. Len(queue') : queue'[i].key = "accept" => queue'[i].io # p.io
          /\ \A v \in Workers : wpc[v] = "accept" => wio[v] # p.io
    BY <2>1, <1>a DEF PlacesInv
  <2>6. \A v \in Workers : wpc[v] = "accept" =>
          /\ wio[v] \in made /\ wio[v] \notin flight
          /\ \A i \in 1 .. Len(queue') : queue'[i].key = "accept" => queue'[i].io # wio[v]
          /\ \A u \in Workers : wpc[u] = "accept" /\ u # v => wio[u] # wio[v]
    BY <2>1, <1>a DEF PlacesInv
  <2>7. \A v \in Workers : wpc'[v] = "accept" =>
          /\ wio'[v] \in made /\ wio'[v] \notin flight
          /\ \A i \in 1 .. Len(queue') : queue'[i].key = "accept" => queue'[i].io # wio'[v]
          /\ \A u \in Workers : wpc'[u] = "accept" /\ u # v => wio'[u] # wio'[v]
    BY <2>4, <2>5, <2>6
  <2> QED BY <2>2, <2>3, <2>7, <1>d DEF PlacesInv
<1>4. DeletedInv'
  BY DEF ExitTypeOK, HandlesInv, PlacesInv, DeletedInv, Stopping, NoDeletedInUse,
    NoDeletedInFlight, AllExited, InLoop, TakePacket, Dispatch, Packets, WorkerPcs
<1> QED BY <1>1, <1>2, <1>3, <1>4

\* handleAccept gives its context back to the system.
LEMMA HandleAcceptInv ==
  ASSUME NEW w \in Workers, ExitInv, HandleAccept(w)
  PROVE  ExitInv'
<1> USE ExitAssumption DEF ExitInv, serverVars, workerVars, acceptVars, netVars
<1>1. ExitTypeOK'
  BY DEF ExitTypeOK, PlacesInv, HandleAccept, WorkerPcs
<1>2. HandlesInv'
  BY DEF ExitTypeOK, HandlesInv, ServerOutlivesWorkers, AllExited, InLoop, HandleAccept, WorkerPcs
<1>3. PlacesInv'
  BY DEF ExitTypeOK, PlacesInv, HandleAccept, WorkerPcs
<1>4. DeletedInv'
  BY DEF ExitTypeOK, HandlesInv, PlacesInv, DeletedInv, Stopping, NoDeletedInUse,
    NoDeletedInFlight, AllExited, InLoop, HandleAccept, WorkerPcs
<1> QED BY <1>1, <1>2, <1>3, <1>4

\* The other handlers use no AcceptIoContext.
LEMMA HandleClientInv ==
  ASSUME NEW w \in Workers, ExitInv, HandleClient(w)
  PROVE  ExitInv'
<1> USE ExitAssumption DEF ExitInv, serverVars, workerVars, acceptVars, netVars
<1>1. ExitTypeOK'
  BY DEF ExitTypeOK, HandleClient, WorkerPcs
<1>2. HandlesInv'
  BY DEF ExitTypeOK, HandlesInv, ServerOutlivesWorkers, AllExited, InLoop, HandleClient, WorkerPcs
<1>3. PlacesInv'
  BY DEF ExitTypeOK, PlacesInv, HandleClient, WorkerPcs
<1>4. DeletedInv'
  BY DEF ExitTypeOK, HandlesInv, PlacesInv, DeletedInv, Stopping, NoDeletedInUse,
    NoDeletedInFlight, AllExited, InLoop, HandleClient, WorkerPcs
<1> QED BY <1>1, <1>2, <1>3, <1>4

\* The system hands a context back in a packet, while the port is open.
LEMMA EndAcceptInv ==
  ASSUME NEW a \in Accepts, ExitInv, EndAccept(a)
  PROVE  ExitInv'
<1> USE ExitAssumption DEF ExitInv, serverVars, workerVars, acceptVars, netVars
<1>1. ExitTypeOK'
  <2>1. Packet("accept", a) \in Packets
    BY DEF Packet, Packets
  <2>2. queue' \in Seq(Packets)
    BY <2>1 DEF ExitTypeOK, EndAccept, Complete
  <2> QED BY <2>2 DEF ExitTypeOK, EndAccept
<1>2. HandlesInv'
  BY DEF ExitTypeOK, HandlesInv, ServerOutlivesWorkers, AllExited, InLoop, EndAccept, Complete, Packet, Packets
<1>3. PlacesInv'
  BY DEF ExitTypeOK, PlacesInv, EndAccept, Complete, Packet, Packets
<1>4. DeletedInv'
  BY DEF ExitTypeOK, HandlesInv, PlacesInv, DeletedInv, Stopping, NoDeletedInUse,
    NoDeletedInFlight, AllExited, InLoop, EndAccept, Complete, Packet, Packets
<1> QED BY <1>1, <1>2, <1>3, <1>4

\* The packets of clients carry no AcceptIoContext.
LEMMA ClientDoneInv == ExitInv /\ ClientDone => ExitInv'
<1> SUFFICES ASSUME ExitInv, ClientDone PROVE ExitInv'
  OBVIOUS
<1> USE ExitAssumption DEF ExitInv, serverVars, workerVars, acceptVars, netVars
<1>1. ExitTypeOK'
  <2>1. Packet("client", None) \in Packets
    BY DEF Packet, Packets
  <2>2. queue' \in Seq(Packets)
    BY <2>1 DEF ExitTypeOK, ClientDone, Complete
  <2> QED BY <2>2 DEF ExitTypeOK, ClientDone
<1>2. HandlesInv'
  BY DEF ExitTypeOK, HandlesInv, ServerOutlivesWorkers, AllExited, InLoop, ClientDone, Complete, Packet, Packets
<1>3. PlacesInv'
  BY DEF ExitTypeOK, PlacesInv, ClientDone, Complete, Packet, Packets
<1>4. DeletedInv'
  BY DEF ExitTypeOK, HandlesInv, PlacesInv, DeletedInv, Stopping, NoDeletedInUse,
    NoDeletedInFlight, AllExited, InLoop, ClientDone, Complete, Packet, Packets
<1> QED BY <1>1, <1>2, <1>3, <1>4

-----------------------------------------------------------------------------

\* Every step keeps the invariant.
LEMMA ExitAlways == ExitSpec => []ExitInv
<1>1. ExitInv /\ [ExitNext]_exitVars => ExitInv'
  <2> SUFFICES ASSUME ExitInv, [ExitNext]_exitVars PROVE ExitInv'
    OBVIOUS
  <2>1. CASE Start
    BY <2>1, CreateListenInv, CreateWorkerInv, PostAcceptInv DEF Start
  <2>2. CASE ShutdownSteps
    BY <2>2, ShutdownInv, ShutdownAcceptInv DEF ShutdownSteps
  <2>3. CASE Stop
    BY <2>3, StopInv
  <2>4. CASE StopSteps
    BY <2>4, ExitSignalInv, ExitPostInv, ExitWaitInv, StopAcceptInv,
       DeleteAcceptInv, StopEndsInv DEF StopSteps
  <2>5. ASSUME NEW w \in Workers, Loop(w) PROVE ExitInv'
    BY <2>5, TestEventInv, TakePacketInv, HandleAcceptInv, HandleClientInv DEF Loop
  <2>6. ASSUME NEW a \in Accepts, Connected(a) \/ Aborted(a) PROVE ExitInv'
    BY <2>6, EndAcceptInv DEF Connected, Aborted
  <2>7. CASE ClientDone
    BY <2>7, ClientDoneInv
  <2>8. CASE Destroyed \/ UNCHANGED exitVars
    BY <2>8 DEF Destroyed, exitVars, serverVars, workerVars, acceptVars, netVars,
      ExitInv, ExitTypeOK, HandlesInv, PlacesInv, DeletedInv,
      ServerOutlivesWorkers, NoDeletedInUse, NoDeletedInFlight, AllExited, InLoop
  <2> QED
    BY <2>1, <2>2, <2>3, <2>4, <2>5, <2>6, <2>7, <2>8 DEF ExitNext
<1> QED
  BY ExitInitInv, <1>1, PTL DEF ExitSpec

\* Whatever stop(), shutdown(), the destructor and a start() that failed do
\* beside the workers: the event and the port are open while a worker is in its
\* loop.
THEOREM ExitCorrect == ExitSpec => []ServerOutlivesWorkers
<1>1. ExitInv => ServerOutlivesWorkers
  BY DEF ExitInv, HandlesInv
<1> QED BY <1>1, ExitAlways, PTL

\* No AcceptIoContext is deleted while handleAccept works on it: shutdown()
\* deletes only contexts whose packet the workers drop, stop() only when every
\* worker has left.
THEOREM UseCorrect == ExitSpec => []NoDeletedInUse
<1>1. ExitInv => NoDeletedInUse
  BY DEF ExitInv, DeletedInv
<1> QED BY <1>1, ExitAlways, PTL

\* No AcceptIoContext is deleted while the system still writes to its
\* OVERLAPPED: both loops wait for the operation, and nobody posts it again.
THEOREM FlightCorrect == ExitSpec => []NoDeletedInFlight
<1>1. ExitInv => NoDeletedInFlight
  BY DEF ExitInv, DeletedInv
<1> QED BY <1>1, ExitAlways, PTL

-----------------------------------------------------------------------------
(* What stop() gives back *)

\* A context that initAcceptIoContext has made is on the list, deleted, or the
\* one that is being closed, unless shutdown() has dropped it from the list.
ReclaimInv ==
  /\ ~shut => made \subseteq listed \cup deleted \cup {closing}
  /\ owner = "gone" =>
       /\ AllExited /\ closing = None /\ listed = {}
       /\ event \in {"null", "closed"} /\ port \in {"null", "closed"}

\* The steps of the owner keep it.
LEMMA ReclaimOwner ==
  ASSUME ExitInv, ReclaimInv, Start \/ ShutdownSteps \/ Stop \/ StopSteps
  PROVE  ReclaimInv'
<1> USE DEF ExitInv, ExitTypeOK, ReclaimInv, serverVars, workerVars, acceptVars,
            netVars, AllExited, InLoop
<1>1. CASE CreateListen
  BY <1>1 DEF CreateListen, StartFails
<1>2. CASE CreateWorker
  BY <1>2 DEF CreateWorker, StartFails
<1>3. CASE PostAccept
  BY <1>3 DEF PostAccept, StartFails
<1>4. CASE Shutdown
  BY <1>4 DEF Shutdown
<1>5. CASE ShutdownAccept
  BY <1>5 DEF ShutdownAccept, DeletedInv
<1>6. CASE Stop
  BY <1>6 DEF Stop
<1>7. CASE ExitSignal \/ ExitPost \/ ExitWait
  BY <1>7 DEF ExitSignal, ExitPost, ExitWait
<1>8. CASE StopAccept
  BY <1>8, ExitAssumption DEF StopAccept
<1>9. CASE DeleteAccept
  BY <1>9 DEF DeleteAccept
<1>10. CASE StopEnds
  BY <1>10 DEF StopEnds, HandlesInv
<1> QED
  BY <1>1, <1>2, <1>3, <1>4, <1>5, <1>6, <1>7, <1>8, <1>9, <1>10
  DEF Start, ShutdownSteps, StopSteps

\* A server that was not shut down gives everything back, also when start()
\* failed half-way: when the destructor has returned, every AcceptIoContext is
\* deleted, none is still with the system, and the handles are closed.
THEOREM ReclaimCorrect == ExitSpec => []StopReclaims
<1>1. ExitInit => ReclaimInv
  BY DEF ExitInit, ReclaimInv
<1>2. ExitInv /\ ReclaimInv /\ [ExitNext]_exitVars => ReclaimInv'
  <2> SUFFICES ASSUME ExitInv, ReclaimInv, [ExitNext]_exitVars PROVE ReclaimInv'
    OBVIOUS
  <2> USE DEF serverVars, workerVars, acceptVars, netVars, AllExited, InLoop
  <2>1. CASE Start \/ ShutdownSteps \/ Stop \/ StopSteps
    BY <2>1, ReclaimOwner
  <2>2. ASSUME NEW w \in Workers, Loop(w) PROVE ReclaimInv'
    <3>1. InLoop(w) /\ UNCHANGED <<owner, serverVars, acceptVars>>
      BY <2>2 DEF Loop, TestEvent, TakePacket, HandleAccept, HandleClient
    <3> QED BY <3>1 DEF ReclaimInv
  <2>3. CASE \/ \E a \in Accepts : Connected(a) \/ Aborted(a)
             \/ ClientDone \/ Destroyed \/ UNCHANGED exitVars
    <3>1. UNCHANGED <<owner, serverVars, workerVars, acceptVars>>
      BY <2>3 DEF Connected, Aborted, EndAccept, ClientDone, Destroyed, exitVars
    <3> QED BY <3>1 DEF ReclaimInv
  <2> QED BY <2>1, <2>2, <2>3 DEF ExitNext
<1>3. ExitInv /\ ReclaimInv => StopReclaims
  BY ExitAssumption
  DEF ExitInv, ExitTypeOK, DeletedInv, NoDeletedInFlight, ReclaimInv, StopReclaims
<1> QED BY <1>1, <1>2, <1>3, ExitAlways, PTL DEF ExitSpec
=============================================================================
