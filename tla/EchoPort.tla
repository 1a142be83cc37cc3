------------------------------ MODULE EchoPort ------------------------------
(***************************************************************************)
(* The completion port echo servers IOCPEchoServ ("EchoServ") and IOCPDemo *)
(* ("Demo"): main accepts and posts the first receive, the workers send    *)
(* back what was received with the same ioInfo and post a receive with a   *)
(* new one.  The programs differ in what they do when a call fails at      *)
(* once: EchoServ does not look, in Demo the thread leaves its loop.       *)
(*                                                                         *)
(* A message is a number, and <<c, k>> is the ioInfo that receives and     *)
(* sends message k of client c.  Sockets and the port are external.        *)
(***************************************************************************)
EXTENDS Naturals, Sequences

CONSTANTS
  PortClients,
  MaxAsked,     \* bound: messages of a client
  PortWorkers   \* the threads, one per processor

ASSUME PortAssumption == MaxAsked \in Nat

VARIABLES
  portProg,     \* "EchoServ" or "Demo"
  accepting,    \* main is in its loop
  asked, gone,  \* per client: messages sent; "no", "closed" or "reset"
  echoed,       \* per client: messages received back
  handle,       \* per client: handleInfo, "none", "live" or "freed"
  io,           \* per ioInfo: "none", "READ", "WRITE" or "freed"
  ops,          \* ioInfos that the kernel works on
  port,         \* packets: [c, k, bytes]
  wk,           \* per worker: where it is and its ioInfo
  failed        \* per client: a call for it failed at once

portVars == <<portProg, accepting, asked, gone, echoed, handle, io, ops, port,
              wk, failed>>

Infos == PortClients \X (1 .. MaxAsked + 1)
Waiting == [pc |-> "wait", info |-> <<>>]

PortInit ==
  /\ portProg \in {"EchoServ", "Demo"}
  /\ accepting = TRUE
  /\ asked = [c \in PortClients |-> 0]
  /\ gone = [c \in PortClients |-> "no"]
  /\ echoed = [c \in PortClients |-> <<>>]
  /\ handle = [c \in PortClients |-> "none"]
  /\ io = [i \in Infos |-> "none"]
  /\ ops = {} /\ port = <<>>
  /\ wk = [w \in PortWorkers |-> Waiting]
  /\ failed = [c \in PortClients |-> FALSE]

-----------------------------------------------------------------------------
(* The clients and the kernel *)

PortClient(c) ==
  /\ handle[c] # "none" /\ gone[c] = "no"
  /\ \/ /\ asked[c] < MaxAsked
        /\ asked' = [asked EXCEPT ![c] = @ + 1] /\ UNCHANGED gone
     \/ /\ \E how \in {"closed", "reset"} : gone' = [gone EXCEPT ![c] = how]
        /\ UNCHANGED asked
  /\ UNCHANGED <<portProg, accepting, echoed, handle, io, ops, port, wk, failed>>

\* WSACleanup and a reset abort what is under way.
Severed(c) == ~accepting \/ gone[c] = "reset"

Queue(i, bytes) ==
  /\ ops' = ops \ {i}
  /\ port' = Append(port, [info |-> i, bytes |-> bytes])

\* A receive completes with the next message, or with no bytes.
ReadDone(i) ==
  /\ i \in ops /\ io[i] = "READ"
  /\ \/ asked[i[1]] >= i[2] /\ Queue(i, 1)
     \/ gone[i[1]] = "closed" /\ asked[i[1]] < i[2] /\ Queue(i, 0)
     \/ Severed(i[1]) /\ Queue(i, 0)
  /\ UNCHANGED <<portProg, accepting, asked, gone, echoed, handle, io, wk, failed>>

\* The sends of a socket complete in the order of the calls.
WriteDone(i) ==
  /\ i \in ops /\ io[i] = "WRITE"
  /\ \A j \in ops : j[1] = i[1] /\ io[j] = "WRITE" => i[2] <= j[2]
  /\ Queue(i, 1)
  /\ echoed' = IF Severed(i[1]) THEN echoed
               ELSE [echoed EXCEPT ![i[1]] = Append(@, i[2])]
  /\ UNCHANGED <<portProg, accepting, asked, gone, handle, io, wk, failed>>

\* WSARecv or WSASend with ioInfo i: what the caller does when the call
\* succeeds or is pending, and when it fails.
Call(i, Goes, Fails) ==
  \/ accepting /\ ops' = ops \cup {i} /\ Goes /\ UNCHANGED failed
  \/ /\ failed' = [failed EXCEPT ![i[1]] = TRUE]
     /\ Fails /\ UNCHANGED ops

-----------------------------------------------------------------------------
(* main *)

PortAccept(c) ==
  /\ accepting /\ handle[c] = "none"
  /\ handle' = [handle EXCEPT ![c] = "live"]
  /\ io' = [io EXCEPT ![<<c, 1>>] = "READ"]
  /\ Call(<<c, 1>>, UNCHANGED accepting, accepting' = (portProg = "EchoServ"))
  /\ UNCHANGED <<portProg, asked, gone, echoed, port, wk>>

\* The first receive of some further client fails, and Demo leaves the loop.
AcceptEnds ==
  /\ accepting /\ portProg = "Demo"
  /\ accepting' = FALSE
  /\ UNCHANGED <<portProg, asked, gone, echoed, handle, io, ops, port, wk, failed>>

-----------------------------------------------------------------------------
(* EchoThreadMain *)

SetWk(w, pc, i) == wk' = [wk EXCEPT ![w] = [pc |-> pc, info |-> i]]

\* Whether the thread goes on after a failed call.
AfterFailure == IF portProg = "Demo" THEN "ended" ELSE "wait"

\* GetQueuedCompletionStatus, and the packet of a send.
TakeWrite(w) ==
  /\ wk[w].pc = "wait" /\ port # <<>> /\ io[Head(port).info] = "WRITE"
  /\ port' = Tail(port)
  /\ io' = [io EXCEPT ![Head(port).info] = "freed"]
  /\ UNCHANGED <<portProg, accepting, asked, gone, echoed, handle, ops, wk, failed>>

\* No bytes: closesocket, and handleInfo and ioInfo are freed.
TakeZero(w) ==
  /\ wk[w].pc = "wait" /\ port # <<>> /\ io[Head(port).info] = "READ"
  /\ Head(port).bytes = 0
  /\ port' = Tail(port)
  /\ handle' = [handle EXCEPT ![Head(port).info[1]] = "freed"]
  /\ io' = [io EXCEPT ![Head(port).info] = "freed"]
  /\ UNCHANGED <<portProg, accepting, asked, gone, echoed, ops, wk, failed>>

TakeRead(w) ==
  /\ wk[w].pc = "wait" /\ port # <<>> /\ io[Head(port).info] = "READ"
  /\ Head(port).bytes # 0
  /\ port' = Tail(port)
  /\ io' = [io EXCEPT ![Head(port).info] = "WRITE"]
  /\ SetWk(w, "send", Head(port).info)
  /\ UNCHANGED <<portProg, accepting, asked, gone, echoed, handle, ops, failed>>

PostSend(w, next) ==
  LET i == wk[w].info IN
  /\ Call(i, SetWk(w, next, i),
          SetWk(w, IF portProg = "Demo" THEN "ended" ELSE next, i))
  /\ UNCHANGED <<portProg, accepting, asked, gone, echoed, handle, io, port>>

PostRecv(w, next) ==
  LET i == <<wk[w].info[1], wk[w].info[2] + 1>> IN
  /\ io' = [io EXCEPT ![i] = "READ"]
  /\ Call(i, SetWk(w, next, wk[w].info), SetWk(w, AfterFailure, wk[w].info))
  /\ UNCHANGED <<portProg, accepting, asked, gone, echoed, handle, port>>

\* Mutant: the next receive is posted before the send.
EchoAnswer_RecvFirst(w) ==
  \/ wk[w].pc = "send" /\ PostRecv(w, "recv")
  \/ wk[w].pc = "recv" /\ PostSend(w, "wait")

\* WSASend, then WSARecv with a new ioInfo.
EchoAnswer(w) ==
  \/ wk[w].pc = "send" /\ PostSend(w, "recv")
  \/ wk[w].pc = "recv" /\ PostRecv(w, "wait")

\* Nothing is left to do: main waits in accept or system, the workers for a
\* packet, or all of them have ended.
PortOver ==
  /\ \A c \in PortClients : accepting => handle[c] # "none"
  /\ \A w \in PortWorkers :
       wk[w].pc = "ended" \/ (wk[w].pc = "wait" /\ port = <<>>)
  /\ UNCHANGED portVars

PortNext ==
  \/ \E c \in PortClients : PortClient(c) \/ PortAccept(c)
  \/ \E i \in Infos : ReadDone(i) \/ WriteDone(i)
  \/ \E w \in PortWorkers :
       TakeWrite(w) \/ TakeZero(w) \/ TakeRead(w) \/ EchoAnswer(w)
  \/ AcceptEnds \/ PortOver

-----------------------------------------------------------------------------
(* Properties *)

\* Two workers may hold packets of one client, and still it gets its messages
\* back in order, with none missing unless a call failed.
EchoInOrder ==
  \A c \in PortClients : \A i \in DOMAIN echoed[c] :
    /\ failed[c] \/ echoed[c][i] = i
    /\ i > 1 => echoed[c][i - 1] < echoed[c][i]

\* handleInfo is freed without counting who uses it.  It outlives every receive
\* and every worker that is about to use its socket: only the packet of a send
\* can meet a freed one.
HandleOutlives ==
  /\ \A i \in ops \cup {port[j].info : j \in DOMAIN port} :
       /\ io[i] \in {"READ", "WRITE"}
       /\ io[i] = "READ" => handle[i[1]] = "live"
  /\ \A w \in PortWorkers :
       wk[w].pc \in {"send", "recv"} => handle[wk[w].info[1]] = "live"
=============================================================================
