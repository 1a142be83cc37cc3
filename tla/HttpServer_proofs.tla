-------------------------- MODULE HttpServer_proofs -------------------------
(***************************************************************************)
(* HttpServer keeps the invariants of the pool, of the sockets and of the  *)
(* counter of connections although it releases contexts early: none of     *)
(* them rests on m_nPendingIoCnt.                                          *)
(***************************************************************************)
EXTENDS HttpServer, IocpServer_proofs

\* The decoding steps keep the types.
LEMMA TypeHttp ==
  ASSUME HttpTypeOK, NEW w \in Workers, TryDecode(w) \/ Decoded(w)
  PROVE  HttpTypeOK'
<1>0. TypeOK /\ ctx[w] \in Contexts
  BY Labels DEF HttpTypeOK, TryDecode, Decoded, At, TypeOK, WorkerType
<1>1. CASE TryDecode(w)
  <2>1. UNCHANGED <<ctx, sk, io, nb, sock, inBuf, poolVars, connCnt, accepting,
                    netVars, heap>>
    BY <1>1 DEF TryDecode
  <2>2. Response \in Seq(Byte) /\ <<>> \in Seq(Byte)
    BY DEF Response, Byte
  <2>3. ASSUME Goto(w, "post_recv"),
               UNCHANGED <<cnt, outBuf, outQ, ops, ret, lock>>
        PROVE  TypeOK'
    <3>1. WorkerType'
      BY <1>0, <2>1, <2>3, Labels, GotoType DEF TypeOK, WorkerType
    <3>2. ContextType' /\ PoolType'
      BY <1>0, <2>1, <2>3 DEF TypeOK, ContextType, PoolType, poolVars
    <3>3. NetType'
      BY <1>0, <2>1, <2>3 DEF TypeOK, NetType, netVars
    <3> QED BY <3>1, <3>2, <3>3 DEF TypeOK
  <2>4. ASSUME NEW p \in Seq(Byte), Send(w, p, "sent")
        PROVE  TypeOK'
    <3>1. /\ pc' \in [Workers -> Pcs] /\ ret' \in [Workers -> Returns]
          /\ \A v \in Workers :
               /\ pc'[v] \in UsesContext => ctx'[v] \in Contexts
               /\ pc'[v] \in HoldsAccept => io[v] \in AcceptIos /\ sk[v] \in Socks
          /\ lock' \in [Contexts -> Workers \cup {None}]
          /\ ops' \subseteq Op
          /\ cnt' \in [Contexts -> Int]
          /\ outBuf' \in [Contexts -> Seq(Byte)]
          /\ outQ' \in [Contexts -> Seq(Seq(Byte))]
      BY <1>0, <2>1, <2>4, TypeSend, Labels
    <3> QED BY <1>0, <2>1, <3>1
        DEF TypeOK, WorkerType, ContextType, PoolType, NetType, poolVars, netVars
  <2>5. \/ Goto(w, "post_recv") /\ UNCHANGED <<cnt, outBuf, outQ, ops, ret, lock>>
        \/ Send(w, Response, "sent")
        \/ Send(w, <<>>, "sent")
    BY <1>1 DEF TryDecode
  <2>6. TypeOK'
    <3>1. CASE Send(w, Response, "sent")
      BY <2>2, <2>4, <3>1
    <3>2. CASE Send(w, <<>>, "sent")
      BY <2>2, <2>4, <3>2
    <3> QED BY <2>3, <2>5, <3>1, <3>2
  <2>7. dec' \in [Workers -> {"ok", "bad"}]
    BY <1>1 DEF TryDecode, HttpTypeOK
  <2>8. passes' \in [Workers -> 0 .. MaxDecodes]
    BY <1>1, DecodesAssumption DEF TryDecode, HttpTypeOK
  <2> QED BY <2>6, <2>7, <2>8 DEF HttpTypeOK
<1>2. CASE Decoded(w)
  <2>1. /\ \E l \in {"close", "notify"} : Goto(w, l)
        /\ ret' = ret \/ ret' = [ret EXCEPT ![w] = "post_recv"]
        /\ inBuf' = [inBuf EXCEPT ![ctx[w]] = <<>>]
        /\ UNCHANGED <<ctx, sk, io, nb, sock, cnt, outBuf, outQ, lock, poolVars,
                       connCnt, ops, accepting, netVars, heap, httpVars>>
    BY <1>2 DEF Decoded, CallClose
  <2>2. ret' \in [Workers -> Returns]
    BY <1>0, <2>1, Labels DEF TypeOK, WorkerType
  <2>3. WorkerType'
    BY <1>0, <2>1, <2>2, Labels, GotoType DEF TypeOK, WorkerType
  <2>4. inBuf' \in [Contexts -> Seq(Byte)]
    BY <1>0, <2>1, EmptySeq DEF TypeOK, ContextType
  <2>5. TypeOK'
    BY <1>0, <2>1, <2>3, <2>4
    DEF TypeOK, ContextType, PoolType, NetType, poolVars, netVars
  <2> QED BY <2>1, <2>5 DEF HttpTypeOK, httpVars
<1> QED BY <1>1, <1>2

\* The decoding steps are callbacks in the sense of IocpServer_proofs.
LEMMA HttpCallback ==
  ASSUME NEW w \in Workers, TryDecode(w) \/ Decoded(w)
  PROVE  Callback(w)
<1>1. CASE TryDecode(w)
  <2>1. Goto(w, "post_recv") \/ \E p \in {Response, <<>>} : Send(w, p, "sent")
    BY <1>1 DEF TryDecode
  <2>2. \E l \in {"post_recv", "sent", "close"} : Goto(w, l)
    BY <2>1, SendGoto
  <2> QED BY <1>1, <2>2 DEF TryDecode, At, Callback, netVars
<1>2. CASE Decoded(w)
  BY <1>2 DEF Decoded, CallClose, At, Callback, netVars
<1> QED BY <1>1, <1>2

\* What HttpServer keeps.
HttpInv == HttpTypeOK /\ PoolInv /\ OneOwner /\ CountOK

\* For the HTTP server too, for any number of workers, contexts and clients
\* and any sequence of requests: the lists of contexts are disjoint and
\* without duplicates, every socket has one owner and is closed at most once,
\* and m_nConnClientCnt counts the open sockets and stays below its bound.
THEOREM HttpCorrect ==
  HttpSpec => [](/\ HttpTypeOK /\ PoolDiscipline /\ OneOwner
                 /\ ConnCountExact /\ CountBound)
<1>1. HttpInit => HttpInv
  <2> SUFFICES ASSUME HttpInit PROVE HttpInv
    OBVIOUS
  <2>1. TypeOK /\ CountOK
    BY IocpServerTypeInit, CountInit DEF HttpInit
  <2>2. PoolInv /\ OneOwner
    BY DEF HttpInit, Init, PoolInv, PoolDiscipline, Accepting, OneOwner,
           OwnsSocket
  <2>3. HttpTypeOK
    BY <2>1, DecodesAssumption DEF HttpInit, HttpTypeOK
  <2> QED BY <2>1, <2>2, <2>3 DEF HttpInv
<1>2. HttpInv /\ [HttpNext]_allVars => HttpInv'
  <2> SUFFICES ASSUME HttpInv, [HttpNext]_allVars PROVE HttpInv'
    OBVIOUS
  <2>0. HttpTypeOK /\ TypeOK /\ PoolInv /\ OneOwner /\ CountOK
    BY DEF HttpInv, HttpTypeOK
  <2>1. ASSUME NEW w \in Workers, Dequeue(w) \/ Handle(w), UNCHANGED httpVars
        PROVE  HttpInv'
    <3>1. TypeOK'
      BY <2>0, <2>1, TypeDequeue, TypeAccept, TypePostRecv, TypeHandleSend,
         TypeClose DEF Handle
    <3>2. HttpTypeOK'
      BY <2>0, <2>1, <3>1 DEF HttpTypeOK, httpVars
    <3> QED BY <2>0, <2>1, <3>2, PoolShared, OwnerShared, CountShared
        DEF HttpInv
  <2>2. ASSUME NEW w \in Workers, TryDecode(w) \/ Decoded(w)
        PROVE  HttpInv'
    BY <2>0, <2>2, TypeHttp, HttpCallback, PoolCallback, OwnerCallback,
       CountCallback DEF HttpInv
  <2>3. CASE (HeapFault \/ UNCHANGED vars) /\ UNCHANGED httpVars
    <3>1. UNCHANGED <<workerVars, sock, cnt, bufVars, lock, poolVars, connCnt,
                      ops, accepting, netVars>>
      BY <2>3 DEF HeapFault, vars
    <3>2. TypeOK'
      BY <2>0, <2>3, <3>1 DEF HeapFault, vars, TypeOK, WorkerType, ContextType,
        PoolType, NetType, workerVars, bufVars, poolVars, netVars
    <3>3. HttpTypeOK'
      BY <2>0, <2>3, <3>2 DEF HttpTypeOK, httpVars
    <3>4. PoolInv'
      BY <2>0, <3>1 DEF PoolInv, PoolDiscipline, Accepting, workerVars, poolVars
    <3>5. OneOwner'
      BY <2>0, <3>1 DEF OneOwner, OwnsSocket, workerVars, netVars
    <3>6. CountOK'
      BY <2>0, <3>1 DEF CountOK, CountInv, ConnCountExact, WorkersAt,
                        workerVars, netVars
    <3> QED BY <3>3, <3>4, <3>5, <3>6 DEF HttpInv
  <2> QED BY <2>1, <2>2, <2>3 DEF HttpNext, Quiescent, allVars
<1>3. HttpInv => /\ HttpTypeOK /\ PoolDiscipline /\ OneOwner
                 /\ ConnCountExact /\ CountBound
  BY CountInvBound DEF HttpInv, HttpTypeOK, PoolInv, CountOK
<1> QED BY <1>1, <1>2, <1>3, PTL DEF HttpSpec
=============================================================================
