------------------------------ MODULE ApcEcho -------------------------------
(***************************************************************************)
(* CmplRouEchoServ: one thread that accepts, and that runs the completion  *)
(* routines of its clients when it sleeps alertably.  One hbInfo serves    *)
(* both directions of a client, so a client has one operation at a time.   *)
(* What a client sent is counted in bytes, since wsaBuf.len changes.       *)
(***************************************************************************)
EXTENDS Naturals

CONSTANTS
  ApcClients,
  BufSize,      \* BUF_SIZE
  MaxBytes      \* bound: bytes that a client sends

ASSUME ApcAssumption == BufSize \in Nat \ {0} /\ MaxBytes \in Nat

VARIABLES
  serving,      \* main is in its loop
  asleep,       \* ... in SleepEx
  inbox,        \* per client: bytes sent and not received
  outbox,       \* per client: bytes echoed
  left,         \* per client: "no", "closed" or "reset"
  hbInfo        \* per client: [st, len, op, bytes, got]

apcVars == <<serving, asleep, inbox, outbox, left, hbInfo>>

\* st: "none", "live" or "freed"; op: "none", or "recv", "send", "received" and
\* "sent", an operation under way and a routine queued with its bytes; got: all
\* bytes received.
Fresh == [st |-> "none", len |-> 0, op |-> "none", bytes |-> 0, got |-> 0]

ApcInit ==
  /\ serving = TRUE /\ asleep = TRUE
  /\ inbox = [c \in ApcClients |-> 0]
  /\ outbox = [c \in ApcClients |-> 0]
  /\ left = [c \in ApcClients |-> "no"]
  /\ hbInfo = [c \in ApcClients |-> Fresh]

-----------------------------------------------------------------------------
(* The clients and the kernel *)

ApcClient(c) ==
  /\ hbInfo[c].st # "none" /\ left[c] = "no"
  /\ \/ \E b \in 1 .. MaxBytes :
          /\ hbInfo[c].got + inbox[c] + b <= MaxBytes
          /\ inbox' = [inbox EXCEPT ![c] = @ + b]
          /\ UNCHANGED left
     \/ \E how \in {"closed", "reset"} :
          left' = [left EXCEPT ![c] = how] /\ UNCHANGED inbox
  /\ UNCHANGED <<serving, asleep, outbox, hbInfo>>

Finish(c, op, b) == hbInfo' = [hbInfo EXCEPT ![c].op = op, ![c].bytes = b]

\* A receive takes what there is, up to len.
Received(c) ==
  /\ hbInfo[c].op = "recv"
  /\ \/ \E b \in 1 .. MaxBytes :
          /\ b = (IF inbox[c] < hbInfo[c].len THEN inbox[c] ELSE hbInfo[c].len)
          /\ inbox' = [inbox EXCEPT ![c] = @ - b]
          /\ Finish(c, "received", b)
     \/ /\ \/ hbInfo[c].len = 0 \/ left[c] = "reset"
           \/ left[c] = "closed" /\ inbox[c] = 0
        /\ Finish(c, "received", 0) /\ UNCHANGED inbox
  /\ UNCHANGED <<serving, asleep, outbox, left>>

Sent(c) ==
  /\ hbInfo[c].op = "send"
  /\ Finish(c, "sent", hbInfo[c].len)
  /\ outbox' = [outbox EXCEPT ![c] = IF left[c] = "reset" THEN @ ELSE @ + hbInfo[c].len]
  /\ UNCHANGED <<serving, asleep, inbox, left>>

\* WSARecv and WSASend: the operation starts, or fails unnoticed.
Starts(op) == {op, "none"}

-----------------------------------------------------------------------------
(* The server *)

\* accept: a client, none, or an error that ends the program.
ApcAccept ==
  /\ serving /\ ~asleep
  /\ asleep' = TRUE
  /\ \/ \E c \in ApcClients, op \in Starts("recv") :
          /\ hbInfo[c].st = "none"
          /\ hbInfo' = [hbInfo EXCEPT ![c] =
               [Fresh EXCEPT !.st = "live", !.len = BufSize, !.op = op]]
          /\ UNCHANGED serving
     \/ UNCHANGED <<serving, hbInfo>>
     \/ serving' = FALSE /\ UNCHANGED hbInfo
  /\ UNCHANGED <<inbox, outbox, left>>

\* Mutant: the length is what is left of the buffer.
ReadCompRoutine_LenLeft(c) ==
  LET b == hbInfo[c].bytes IN
  /\ serving /\ asleep /\ hbInfo[c].op = "received"
  /\ \/ /\ b = 0
        /\ hbInfo' = [hbInfo EXCEPT ![c].st = "freed", ![c].op = "none"]
     \/ /\ b > 0
        /\ \E op \in Starts("send") :
             hbInfo' = [hbInfo EXCEPT ![c].len = @ - b, ![c].op = op,
                                      ![c].got = @ + b]
  /\ UNCHANGED <<serving, asleep, inbox, outbox, left>>

\* No bytes: the client is closed and its data freed.  Else they go back.
ReadCompRoutine(c) ==
  LET b == hbInfo[c].bytes IN
  /\ serving /\ asleep /\ hbInfo[c].op = "received"
  /\ \/ /\ b = 0
        /\ hbInfo' = [hbInfo EXCEPT ![c].st = "freed", ![c].op = "none"]
     \/ /\ b > 0
        /\ \E op \in Starts("send") :
             hbInfo' = [hbInfo EXCEPT ![c].len = b, ![c].op = op,
                                      ![c].got = @ + b]
  /\ UNCHANGED <<serving, asleep, inbox, outbox, left>>

\* The next receive, with the length that the last one left in wsaBuf.
WriteCompRoutine(c) ==
  /\ serving /\ asleep /\ hbInfo[c].op = "sent"
  /\ \E op \in Starts("recv") : hbInfo' = [hbInfo EXCEPT ![c].op = op]
  /\ UNCHANGED <<serving, asleep, inbox, outbox, left>>

\* Mutant: the sleep is not alertable in time: it ends with routines queued.
Wake_Early ==
  /\ serving /\ asleep /\ asleep' = FALSE
  /\ UNCHANGED <<serving, inbox, outbox, left, hbInfo>>

\* SleepEx returns when no routine is queued, or all queued ones have run.
Wake ==
  /\ serving /\ asleep
  /\ \A c \in ApcClients : hbInfo[c].op \notin {"received", "sent"}
  /\ asleep' = FALSE
  /\ UNCHANGED <<serving, inbox, outbox, left, hbInfo>>

ApcKernel == \E c \in ApcClients : Received(c) \/ Sent(c)
ApcRoutines == \E c \in ApcClients : ReadCompRoutine(c) \/ WriteCompRoutine(c)

ApcOver == ~serving /\ UNCHANGED apcVars

ApcNext ==
  \/ ApcKernel \/ ApcRoutines \/ ApcAccept \/ Wake \/ ApcOver
  \/ \E c \in ApcClients : ApcClient(c)

-----------------------------------------------------------------------------
(* Properties *)

\* wsaBuf.len is never set back to BUF_SIZE, it only shrinks.  It never reaches
\* 0, where a receive completes with no bytes: a client is closed only when it
\* has left, with nothing of it under way, and until then all that was received
\* has been sent back or is being sent.
ApcClosesLeft ==
  \A c \in ApcClients :
    /\ hbInfo[c].st = "freed" => left[c] # "no" /\ hbInfo[c].op = "none"
    /\ left[c] # "reset" /\ hbInfo[c].op \in {"recv", "received", "sent"} =>
         outbox[c] = hbInfo[c].got

\* Although len shrinks, everything that a client sends is received in the end,
\* unless the client resets, a call fails or the program ends.
ApcTakesAll ==
  \A c \in ApcClients :
    inbox[c] > 0 ~>
      \/ inbox[c] = 0 \/ left[c] = "reset" \/ ~serving
      \/ hbInfo[c].st = "live" /\ hbInfo[c].op = "none"
=============================================================================
