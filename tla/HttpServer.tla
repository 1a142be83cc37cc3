----------------------------- MODULE HttpServer -----------------------------
(***************************************************************************)
(* HttpServer.cpp: the IocpServer whose notifyPackageReceived decodes      *)
(* m_inBuf as HTTP requests and answers them.  The other handlers are the  *)
(* ones of IocpServer.                                                     *)
(*                                                                         *)
(* A request is abstracted to what HttpCodec::tryDecode says of it:        *)
(* incomplete (0), well formed (> 0) or refused (< 0, complete POST        *)
(* requests included).                                                     *)
(***************************************************************************)
EXTENDS IocpServer

CONSTANT MaxDecodes   \* bound: requests decoded in one notification

ASSUME DecodesAssumption == MaxDecodes \in Nat \ {0}

VARIABLES
  dec,     \* per worker: the last non-zero result of tryDecode
  passes   \* per worker: how often tryDecode returned > 0 in this notification

httpVars == <<dec, passes>>
allVars == <<vars, httpVars>>

\* What writeResponse leaves in HttpCodec::m_outBuf; nothing else writes it,
\* so a request refused before any was accepted is answered by no bytes.
Response == << <<None, 1>> >>

HttpInit ==
  /\ Init
  /\ dec = [w \in Workers |-> "ok"]
  /\ passes = [w \in Workers |-> 0]

\* One round of the loop in notifyPackageReceived: tryDecode and send.  From
\* the second round on the codec reads, through its Slice, what remove() left
\* in the memory of m_inBuf, so that every result is possible again.
TryDecode(w) ==
  /\ At(w, "notify")
  /\ \/ /\ Goto(w, "post_recv")
        /\ passes' = [passes EXCEPT ![w] = 0]
        /\ UNCHANGED <<cnt, outBuf, outQ, ops, ret, lock, dec>>
     \/ /\ passes[w] < MaxDecodes
        /\ Send(w, Response, "sent")
        /\ dec' = [dec EXCEPT ![w] = "ok"]
        /\ passes' = [passes EXCEPT ![w] = @ + 1]
     \/ /\ Send(w, IF passes[w] = 0 THEN <<>> ELSE Response, "sent")
        /\ dec' = [dec EXCEPT ![w] = "bad"]
        /\ passes' = [passes EXCEPT ![w] = 0]
  /\ UNCHANGED <<ctx, sk, io, nb, sock, inBuf, poolVars, connCnt, accepting,
                 netVars, heap>>

\* After send: m_inBuf is emptied; a refused request closes the client and
\* releases its context, and handleRecv goes on to postRecv all the same.
Decoded(w) ==
  /\ At(w, "sent")
  /\ inBuf' = [inBuf EXCEPT ![ctx[w]] = <<>>]
  /\ \/ /\ dec[w] = "bad"
        /\ CallClose(w, "post_recv")
     \/ /\ dec[w] = "ok"
        /\ Goto(w, "notify")
        /\ UNCHANGED ret
  /\ UNCHANGED <<ctx, sk, io, nb, sock, cnt, outBuf, outQ, lock, poolVars,
                 connCnt, ops, accepting, netVars, heap, httpVars>>

HttpNext ==
  \/ \E w \in Workers :
       \/ (Dequeue(w) \/ Handle(w)) /\ UNCHANGED httpVars
       \/ TryDecode(w)
       \/ Decoded(w)
  \/ HeapFault /\ UNCHANGED httpVars
  \/ Quiescent /\ UNCHANGED httpVars

HttpSpec == HttpInit /\ [][HttpNext]_allVars

HttpFairness ==
  \A w \in Workers :
    WF_allVars((Handle(w) /\ UNCHANGED httpVars) \/ TryDecode(w) \/ Decoded(w))

HttpFairSpec == HttpSpec /\ HttpFairness

-----------------------------------------------------------------------------
(* Properties *)

\* The types of IocpServer and of the decoder's state.
HttpTypeOK ==
  /\ TypeOK
  /\ dec \in [Workers -> {"ok", "bad"}]
  /\ passes \in [Workers -> 0 .. MaxDecodes]
=============================================================================
