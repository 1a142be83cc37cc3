----------------------------- MODULE EventEcho ------------------------------
(***************************************************************************)
(* AsynNotiEcho: one thread, and two parallel arrays of sockets and of the *)
(* events that report on them.  The arrays are kept as sequences; the      *)
(* listener is the first entry, and the event of a socket has its name.    *)
(* Sockets and events are external: an event is signalled while it has     *)
(* something recorded that WSAEnumNetworkEvents has not fetched.           *)
(***************************************************************************)
EXTENDS Naturals, Sequences, SequencesExt

CONSTANTS
  EventClients, Listener,
  WaitEvents,   \* WSA_MAXIMUM_WAIT_EVENTS
  MaxUnits      \* bound: messages of a client

ASSUME EventAssumption ==
  Listener \notin EventClients /\ WaitEvents \in Nat \ {0} /\ MaxUnits \in Nat

VARIABLES
  step,         \* "wait", "loop", or "overrun": the arrays are full
  idx,          \* i
  hSockArr, hEventArr,
  backlog,      \* clients to be accepted, in order
  lnet,         \* per socket: what is recorded, lNetworkEvents
  unread,       \* per client: messages to be received
  sentTo,       \* per client: messages that it sent
  fate          \* per client: "new", "open", "closed", "aborted", or "freed"

eventVars == <<step, idx, hSockArr, hEventArr, backlog, lnet, unread, sentTo, fate>>

Sockets == EventClients \cup {Listener}
Signalled(e) == lnet[e] # {}
Live == {c \in EventClients : fate[c] \in {"open", "closed", "aborted"}}

EventInit ==
  /\ step = "wait" /\ idx = 0
  /\ hSockArr = <<Listener>> /\ hEventArr = <<Listener>>
  /\ backlog = <<>>
  /\ lnet = [s \in Sockets |-> {}]
  /\ unread = [c \in EventClients |-> 0]
  /\ sentTo = [c \in EventClients |-> 0]
  /\ fate = [c \in EventClients |-> "new"]

Accepted(c) == fate[c] # "new" /\ \A i \in DOMAIN backlog : backlog[i] # c
Record(s, e) == lnet' = [lnet EXCEPT ![s] = @ \cup {e}]

\* A client's event reports once it was accepted.
RecordFor(c, e) == IF Accepted(c) THEN Record(c, e) ELSE UNCHANGED lnet

-----------------------------------------------------------------------------
(* The clients *)

\* FD_CLOSE is recorded when nothing is left to read, with an error code when
\* the client aborted.
EventClient(c) ==
  /\ \/ /\ fate[c] = "new"
        /\ fate' = [fate EXCEPT ![c] = "open"]
        /\ backlog' = Append(backlog, c)
        /\ Record(Listener, "accept")
        /\ UNCHANGED <<unread, sentTo>>
     \/ /\ fate[c] = "open" /\ sentTo[c] < MaxUnits
        /\ sentTo' = [sentTo EXCEPT ![c] = @ + 1]
        /\ unread' = [unread EXCEPT ![c] = @ + 1]
        /\ RecordFor(c, "read")
        /\ UNCHANGED <<backlog, fate>>
     \/ /\ fate[c] = "open"
        /\ fate' = [fate EXCEPT ![c] = "closed"]
        /\ IF unread[c] = 0 THEN RecordFor(c, "close") ELSE UNCHANGED lnet
        /\ UNCHANGED <<backlog, unread, sentTo>>
     \/ /\ fate[c] = "open" /\ Accepted(c)
        /\ fate' = [fate EXCEPT ![c] = "aborted"]
        /\ Record(c, "error")
        /\ UNCHANGED <<backlog, unread, sentTo>>
  /\ UNCHANGED <<step, idx, hSockArr, hEventArr>>

-----------------------------------------------------------------------------
(* The server *)

\* Mutant: the event is reset by the wait that reports it.
EventWait_AutoReset ==
  /\ step = "wait"
  /\ \E i \in DOMAIN hEventArr :
       /\ Signalled(hEventArr[i])
       /\ \A j \in 1 .. i - 1 : ~Signalled(hEventArr[j])
       /\ idx' = i
       /\ lnet' = [lnet EXCEPT ![hEventArr[i]] = {}]
  /\ step' = "loop"
  /\ UNCHANGED <<hSockArr, hEventArr, backlog, unread, sentTo, fate>>

\* WSAWaitForMultipleEvents reports the first event that is signalled.
EventWait ==
  /\ step = "wait"
  /\ \E i \in DOMAIN hEventArr :
       /\ Signalled(hEventArr[i])
       /\ \A j \in 1 .. i - 1 : ~Signalled(hEventArr[j])
       /\ idx' = i
  /\ step' = "loop"
  /\ UNCHANGED <<hSockArr, hEventArr, backlog, lnet, unread, sentTo, fate>>

\* The entry at idx is not signalled, or the loop ends.
EventSkip ==
  /\ step = "loop"
  /\ \/ /\ idx > Len(hSockArr)
        /\ step' = "wait" /\ UNCHANGED idx
     \/ /\ idx <= Len(hSockArr) /\ ~Signalled(hEventArr[idx])
        /\ idx' = idx + 1 /\ UNCHANGED step
  /\ UNCHANGED <<hSockArr, hEventArr, backlog, lnet, unread, sentTo, fate>>

\* WSAEnumNetworkEvents fetches the events of s and resets the event.  Reading or
\* accepting records them again while there is more.
Fetch(s, again) == lnet' = [lnet EXCEPT ![s] = again]

\* What there is to read, or else that the client has closed.
More(c, units) ==
  IF units > 0 THEN {"read"} ELSE IF fate[c] = "closed" THEN {"close"} ELSE {}

\* FD_ACCEPT: the new entry goes to the end, whether there is room or not.  Its
\* event reports what the client has done so far, and FD_WRITE.
HandleFdAccept ==
  LET c == Head(backlog) IN
  /\ Len(hSockArr) < WaitEvents
  /\ lnet' = [lnet EXCEPT ![c] = {"write"} \cup More(c, unread[c]),
                          ![Listener] = IF Len(backlog) > 1 THEN @ ELSE {}]
  /\ backlog' = Tail(backlog)
  /\ hSockArr' = Append(hSockArr, c)
  /\ hEventArr' = Append(hEventArr, c)
  /\ idx' = idx + 1
  /\ UNCHANGED <<step, unread, sentTo, fate>>

ArrayOverrun ==
  /\ Len(hSockArr) = WaitEvents
  /\ step' = "overrun"
  /\ UNCHANGED <<idx, hSockArr, hEventArr, backlog, lnet, unread, sentTo, fate>>

\* FD_READ: one message is received and echoed.
HandleRead(s) ==
  /\ "read" \in lnet[s] /\ "error" \notin lnet[s]
  /\ unread' = [unread EXCEPT ![s] = @ - 1]
  /\ Fetch(s, More(s, unread[s] - 1))
  /\ idx' = idx + 1
  /\ UNCHANGED <<step, hSockArr, hEventArr, backlog, sentTo, fate>>

\* Mutant: the last event is not moved up.
CompressEvents_Short ==
  IF idx < Len(hEventArr) - 1 THEN RemoveAt(hEventArr, idx)
  ELSE SubSeq(hEventArr, 1, Len(hEventArr) - 1)

CompressEvents == RemoveAt(hEventArr, idx)
CompressSockets == RemoveAt(hSockArr, idx)

\* FD_CLOSE: the entry is taken out, and the one that moves to its place is not
\* looked at in this round.
HandleFdClose(s) ==
  /\ "close" \in lnet[s]
  /\ Fetch(s, {})
  /\ fate' = [fate EXCEPT ![s] = "freed"]
  /\ hSockArr' = CompressSockets
  /\ hEventArr' = CompressEvents
  /\ idx' = idx + 1
  /\ UNCHANGED <<step, backlog, unread, sentTo>>

\* An error code leaves the loop over the entries, with the event reset.
HandleError(s) ==
  /\ "error" \in lnet[s]
  /\ Fetch(s, {})
  /\ step' = "wait"
  /\ UNCHANGED <<idx, hSockArr, hEventArr, backlog, unread, sentTo, fate>>

\* FD_WRITE is asked for and not acted on.
HandleWrite(s) ==
  /\ lnet[s] = {"write"}
  /\ Fetch(s, {})
  /\ idx' = idx + 1
  /\ UNCHANGED <<step, hSockArr, hEventArr, backlog, unread, sentTo, fate>>

EventHandle ==
  /\ step = "loop" /\ idx <= Len(hSockArr) /\ Signalled(hEventArr[idx])
  /\ \/ hSockArr[idx] = Listener /\ (HandleFdAccept \/ ArrayOverrun)
     \/ HandleRead(hSockArr[idx])
     \/ HandleFdClose(hSockArr[idx])
     \/ HandleError(hSockArr[idx])
     \/ HandleWrite(hSockArr[idx])

EventServer == EventWait \/ EventSkip \/ EventHandle

\* Nothing is signalled and the server waits, or what it does is undefined.
EventOver ==
  /\ \/ step = "wait" /\ \A s \in Sockets : ~Signalled(s)
     \/ step = "overrun"
  /\ UNCHANGED eventVars

EventNext ==
  \/ EventServer \/ EventOver
  \/ \E c \in EventClients : EventClient(c)

-----------------------------------------------------------------------------
(* Properties *)

\* The arrays stay parallel through every compression, and hold the listener and
\* each accepted client that is not closed, once.
ArraysParallel ==
  step # "overrun" =>
    /\ hSockArr = hEventArr
    /\ ToSet(hSockArr) = {Listener} \cup {c \in Live : Accepted(c)}
    /\ \A i, j \in DOMAIN hSockArr : hSockArr[i] = hSockArr[j] => i = j

\* Entries that a compression moves are skipped in that round, and an error
\* leaves the round early: still every message is received in the end, unless
\* its client aborts or the arrays overrun.
EventsServed ==
  \A c \in EventClients :
    unread[c] > 0 ~> unread[c] = 0 \/ fate[c] = "aborted" \/ step = "overrun"
=============================================================================
