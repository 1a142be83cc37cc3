-------------------------- MODULE IocpServer_proofs -------------------------
(***************************************************************************)
(* Proofs about IocpServer.  Every handler step is one lemma per group of  *)
(* variables; the echo and the HTTP server share the lemmas.               *)
(***************************************************************************)
EXTENDS IocpServer, FiniteSetTheorems, TLAPS

\* The labels of the handlers, and which of them use a context.
LEMMA Labels ==
  /\ "idle" \in Pcs /\ "idle" \notin UsesContext /\ "idle" \notin HoldsAccept
  /\ \A l \in {"acc_check", "acc_inc", "acc_alloc"} :
       l \in Pcs /\ l \notin UsesContext /\ l \in HoldsAccept
  /\ "acc_post" \in Pcs /\ "acc_post" \in UsesContext /\ "acc_post" \in HoldsAccept
  /\ \A l \in {"acc_add", "post_recv", "notify", "sent", "hsend",
               "close", "cancel", "uncount", "release", "remove", "unlock"} :
       l \in Pcs /\ l \in UsesContext /\ l \notin HoldsAccept
  /\ Returns \ {"drained"} \subseteq Pcs \ HoldsAccept
  /\ "idle" \in Returns /\ "sent" \in Returns /\ "post_recv" \in Returns
  /\ "drained" \in Returns
  BY DEF Pcs, UsesContext, HoldsAccept, Returns

\* A jump of one worker keeps the types if it holds a context where it needs
\* one.
LEMMA GotoType ==
  ASSUME WorkerType, NEW w \in Workers, NEW l \in Pcs, Goto(w, l), ctx' = ctx,
         ctx[w] \in Contexts \/ l \notin UsesContext,
         pc[w] \in HoldsAccept \/ l \notin HoldsAccept
  PROVE  /\ pc' \in [Workers -> Pcs]
         /\ \A v \in Workers :
              /\ pc'[v] \in UsesContext => ctx'[v] \in Contexts
              /\ pc'[v] \in HoldsAccept => io[v] \in AcceptIos /\ sk[v] \in Socks
  BY DEF Goto, WorkerType

\* Where releaseClientContext and the LockGuard of its caller end.
LEMMA ReturnGoto ==
  ASSUME TypeOK, NEW w \in Workers
  PROVE  /\ Return(w) => \E l \in {"idle", "sent", "post_recv", "unlock"} : Goto(w, l)
         /\ Release(w) =>
              \E l \in {"remove", "idle", "sent", "post_recv", "unlock"} : Goto(w, l)
         /\ Unlock(w) => \E l \in {"idle", "sent", "post_recv"} : Goto(w, l)
  BY DEF Return, Release, Unlock, TypeOK, WorkerType, Returns

\* The empty sequence of bytes.
LEMMA EmptySeq == <<>> \in Seq(Byte)
  OBVIOUS

\* postAccept posts the AcceptIoContext of the worker.
LEMMA PostAcceptType ==
  ASSUME TypeOK, NEW w \in Workers, io[w] \in AcceptIos, PostAccept(w)
  PROVE  accepting' \subseteq AcceptIos
  BY DEF PostAccept, TypeOK, NetType

\* The initial state has the types.
LEMMA IocpServerTypeInit == Init => TypeOK
  BY ConstAssumption
  DEF Init, TypeOK, WorkerType, ContextType, PoolType, NetType, UsesContext,
      HoldsAccept, Pcs, Returns

\* Dequeueing a packet keeps the types.
LEMMA TypeDequeue ==
  ASSUME TypeOK, NEW w \in Workers, Dequeue(w)
  PROVE  TypeOK'
<1> USE DEF At, Goto, CallClose, UsesContext, HoldsAccept, Pcs, Returns, bufVars, poolVars, netVars
<1>1. ASSUME NEW a \in AcceptIos, NEW s \in Socks, AcceptDone(w, a, s)
      PROVE  TypeOK'
  <2>1. WorkerType'
    BY <1>1 DEF AcceptDone, TypeOK, WorkerType
  <2>2. ContextType' /\ PoolType'
    BY <1>1 DEF AcceptDone, TypeOK, ContextType, PoolType
  <2>3. NetType'
    BY <1>1 DEF AcceptDone, TypeOK, NetType
  <2> QED BY <2>1, <2>2, <2>3 DEF TypeOK
<1>2. ASSUME NEW o \in ops, NEW n \in 1 .. MaxBytes, RecvDone(w, o, n)
      PROVE  TypeOK'
  <2>0. o \in Op
    BY DEF TypeOK, NetType
  <2>1. WorkerType'
    BY <1>2, <2>0 DEF RecvDone, TypeOK, WorkerType, Op
  <2>2. ContextType' /\ PoolType'
    <3> DEFINE new == [i \in 1 .. n |-> <<o.sock, got[o.sock] + i>>]
    <3>1. new \in Seq(Byte)
      <4>1. \A i \in 1 .. n : <<o.sock, got[o.sock] + i>> \in Byte
        BY <2>0 DEF TypeOK, NetType, Op, Byte
      <4> QED BY <4>1
    <3>2. inBuf' \in [Contexts -> Seq(Byte)]
      BY <1>2, <2>0, <3>1 DEF RecvDone, TypeOK, ContextType, Op
    <3> QED BY <1>2, <3>2 DEF RecvDone, TypeOK, ContextType, PoolType
  <2>3. NetType'
    BY <1>2, <2>0 DEF RecvDone, TypeOK, NetType, Op
  <2> QED BY <2>1, <2>2, <2>3 DEF TypeOK
<1>3. ASSUME NEW o \in ops, NEW n \in 1 .. Len(o.data), SendDone(w, o, n)
      PROVE  TypeOK'
  <2>0. o \in Op
    BY DEF TypeOK, NetType
  <2>1. WorkerType'
    BY <1>3, <2>0 DEF SendDone, TypeOK, WorkerType, Op
  <2>2. ContextType' /\ PoolType'
    BY <1>3 DEF SendDone, TypeOK, ContextType, PoolType
  <2>3. NetType'
    <3>1. SubSeq(o.data, 1, n) \in Seq(Byte)
      BY <2>0 DEF Op
    <3> QED BY <1>3, <2>0, <3>1 DEF SendDone, TypeOK, NetType, Op
  <2> QED BY <2>1, <2>2, <2>3 DEF TypeOK
<1>4. ASSUME NEW o \in ops, IoClosed(w, o)
      PROVE  TypeOK'
  <2>0. o \in Op
    BY DEF TypeOK, NetType
  <2>1. WorkerType'
    BY <1>4, <2>0 DEF IoClosed, TypeOK, WorkerType, Op
  <2>2. ContextType' /\ PoolType' /\ NetType'
    BY <1>4 DEF IoClosed, TypeOK, ContextType, PoolType, NetType
  <2> QED BY <2>1, <2>2 DEF TypeOK
<1> QED BY <1>1, <1>2, <1>3, <1>4 DEF Dequeue, ClientPacket

\* Posting a send keeps the types, whatever the handler does next.
LEMMA TypePostSend ==
  ASSUME TypeOK, NEW w \in Workers, ctx[w] \in Contexts,
         NEW p \in Seq(Byte), NEW k \in Returns \ {"drained"},
         PostSend(w, p, k), ctx' = ctx
  PROVE  /\ pc' \in [Workers -> Pcs] /\ ret' \in [Workers -> Returns]
         /\ \A v \in Workers :
              /\ pc'[v] \in UsesContext => ctx'[v] \in Contexts
              /\ pc'[v] \in HoldsAccept => io[v] \in AcceptIos /\ sk[v] \in Socks
         /\ lock' \in [Contexts -> Workers \cup {None}]
         /\ ops' \subseteq Op
<1> DEFINE c == ctx[w]
<1>1. \E l \in {k, "close"} : Goto(w, l)
  BY DEF PostSend, CallClose
<1>2. /\ pc' \in [Workers -> Pcs]
      /\ \A v \in Workers :
           /\ pc'[v] \in UsesContext => ctx'[v] \in Contexts
           /\ pc'[v] \in HoldsAccept => io[v] \in AcceptIos /\ sk[v] \in Socks
  BY <1>1, Labels, GotoType DEF TypeOK
<1>3. ret' = ret \/ ret' = [ret EXCEPT ![w] = k]
  BY DEF PostSend, CallClose
<1>4. lock' = lock \/ lock' = [lock EXCEPT ![c] = w]
  BY DEF PostSend
<1>5. ops' \subseteq Op
  <2>1. ops' = ops \/ (sock[c] # None /\ ops' = ops \cup
          {[type |-> "send", ctx |-> c, sock |-> sock[c], data |-> p]})
    BY DEF PostSend
  <2> QED BY <2>1 DEF TypeOK, ContextType, NetType, Op
<1>6. ret' \in [Workers -> Returns] /\ lock' \in [Contexts -> Workers \cup {None}]
  BY <1>3, <1>4 DEF TypeOK, WorkerType, ContextType
<1> QED BY <1>2, <1>5, <1>6

\* So does send().
LEMMA TypeSend ==
  ASSUME TypeOK, NEW w \in Workers, ctx[w] \in Contexts,
         NEW p \in Seq(Byte), NEW k \in Returns \ {"drained"},
         Send(w, p, k), ctx' = ctx
  PROVE  /\ pc' \in [Workers -> Pcs] /\ ret' \in [Workers -> Returns]
         /\ \A v \in Workers :
              /\ pc'[v] \in UsesContext => ctx'[v] \in Contexts
              /\ pc'[v] \in HoldsAccept => io[v] \in AcceptIos /\ sk[v] \in Socks
         /\ lock' \in [Contexts -> Workers \cup {None}]
         /\ ops' \subseteq Op
         /\ cnt' \in [Contexts -> Int]
         /\ outBuf' \in [Contexts -> Seq(Byte)]
         /\ outQ' \in [Contexts -> Seq(Seq(Byte))]
<1> DEFINE c == ctx[w]
<1>1. CASE outBuf[c] = <<>>
  <2>1. /\ PostSend(w, p, k) /\ outQ' = outQ
        /\ cnt' = [cnt EXCEPT ![c] = @ + 1]
        /\ outBuf' = [outBuf EXCEPT ![c] = p]
    BY <1>1 DEF Send
  <2>2. /\ cnt' \in [Contexts -> Int] /\ outBuf' \in [Contexts -> Seq(Byte)]
        /\ outQ' \in [Contexts -> Seq(Seq(Byte))]
    BY <2>1 DEF TypeOK, ContextType
  <2> QED BY <2>1, <2>2, TypePostSend
<1>2. CASE outBuf[c] # <<>>
  <2>1. Append(outQ[c], p) \in Seq(Seq(Byte))
    BY DEF TypeOK, ContextType
  <2>2. outQ' \in [Contexts -> Seq(Seq(Byte))]
    BY <1>2, <2>1 DEF Send, TypeOK, ContextType
  <2>3. Goto(w, k) /\ UNCHANGED <<cnt, outBuf, ops, ret, lock>>
    BY <1>2 DEF Send
  <2>4. /\ pc' \in [Workers -> Pcs]
        /\ \A v \in Workers :
             /\ pc'[v] \in UsesContext => ctx'[v] \in Contexts
             /\ pc'[v] \in HoldsAccept => io[v] \in AcceptIos /\ sk[v] \in Socks
    BY <2>3, Labels, GotoType DEF TypeOK
  <2> QED
    BY <2>2, <2>3, <2>4 DEF TypeOK, WorkerType, ContextType, NetType
<1> QED BY <1>1, <1>2

\* handleAccept keeps the types.
LEMMA TypeAccept ==
  ASSUME TypeOK, NEW w \in Workers, HandleAccept(w)
  PROVE  TypeOK'
<1> USE DEF bufVars, poolVars, netVars
<1>1. CASE AcceptCheck(w)
  <2>1. \E l \in {"idle", "acc_inc"} : Goto(w, l)
    BY <1>1 DEF AcceptCheck
  <2>2. UNCHANGED <<ctx, sk, io, ret, nb, sock, cnt, bufVars, lock, poolVars,
                    connCnt, ops, seen, got, wire, heap>>
    BY <1>1 DEF AcceptCheck
  <2>3. open' \subseteq open /\ accepting' \subseteq accepting \cup {io[w]}
    BY <1>1 DEF AcceptCheck, PostAccept
  <2>4. WorkerType'
    BY <1>1, <2>1, <2>2, Labels, GotoType DEF AcceptCheck, At, TypeOK, WorkerType
  <2>5. ContextType' /\ PoolType'
    BY <2>2 DEF TypeOK, ContextType, PoolType
  <2>6. accepting' \subseteq AcceptIos
    <3>1. io[w] \in AcceptIos
      BY <1>1, Labels DEF AcceptCheck, At, TypeOK, WorkerType
    <3> QED BY <1>1, <3>1, PostAcceptType DEF AcceptCheck, TypeOK, NetType
  <2> QED BY <2>2, <2>3, <2>4, <2>5, <2>6 DEF TypeOK, NetType
<1>2. CASE AcceptCount(w)
  <2>1. WorkerType'
    BY <1>2, Labels, GotoType DEF AcceptCount, At, TypeOK, WorkerType
  <2> QED BY <1>2, <2>1 DEF AcceptCount, TypeOK, ContextType, PoolType, NetType
<1>3. ASSUME NEW c \in Contexts, AcceptAlloc(w, c)
      PROVE  TypeOK'
  <2>1. /\ \E l \in {"idle", "acc_post"} : Goto(w, l)
        /\ ctx' = [ctx EXCEPT ![w] = c]
        /\ sock' = [sock EXCEPT ![c] = sk[w]]
        /\ UNCHANGED <<sk, io, ret, nb, cnt, bufVars, lock, connected, connCnt,
                       ops, accepting, netVars, heap>>
    BY <1>3 DEF AcceptAlloc, Allocate
  <2>2. WorkerType'
    BY <1>3, <2>1, Labels DEF AcceptAlloc, At, Goto, TypeOK, WorkerType
  <2>3. ContextType'
    BY <2>1 DEF TypeOK, WorkerType, ContextType
  <2>4. free' \in [Contexts -> Nat] /\ born' \subseteq Contexts
    <3>1. CASE free[c] > 0 /\ free' = [free EXCEPT ![c] = @ - 1] /\ born' = born
      BY <3>1 DEF TypeOK, PoolType
    <3>2. CASE born' = born \cup {c} /\ free' = free
      BY <3>2 DEF TypeOK, PoolType
    <3> QED BY <1>3, <3>1, <3>2 DEF AcceptAlloc, Allocate
  <2>5. PoolType' /\ NetType'
    BY <2>1, <2>4 DEF TypeOK, PoolType, NetType
  <2> QED BY <2>2, <2>3, <2>5 DEF TypeOK
<1>4. CASE AcceptPost(w)
  <2>1. WorkerType'
    BY <1>4, Labels, GotoType DEF AcceptPost, At, TypeOK, WorkerType
  <2>2. cnt' \in [Contexts -> Int]
    BY <1>4, Labels DEF AcceptPost, At, TypeOK, WorkerType, ContextType
  <2>3. accepting' \subseteq AcceptIos
    <3>1. io[w] \in AcceptIos
      BY <1>4, Labels DEF AcceptPost, At, TypeOK, WorkerType
    <3> QED BY <1>4, <3>1, PostAcceptType DEF AcceptPost
  <2>4. ContextType' /\ PoolType'
    BY <1>4, <2>2 DEF AcceptPost, TypeOK, ContextType, PoolType
  <2> QED BY <1>4, <2>1, <2>3, <2>4 DEF AcceptPost, TypeOK, NetType
<1>5. CASE AcceptAdd(w)
  <2>1. WorkerType'
    BY <1>5, Labels, GotoType DEF AcceptAdd, At, TypeOK, WorkerType
  <2>2. connected' \in [Contexts -> Nat]
    BY <1>5, Labels DEF AcceptAdd, At, TypeOK, WorkerType, PoolType
  <2> QED BY <1>5, <2>1, <2>2 DEF AcceptAdd, TypeOK, ContextType, PoolType,
                                  NetType
<1> QED BY <1>1, <1>2, <1>3, <1>4, <1>5 DEF HandleAccept

\* postRecv keeps the types.
LEMMA TypePostRecv ==
  ASSUME TypeOK, NEW w \in Workers, PostRecv(w)
  PROVE  TypeOK'
<1> USE DEF bufVars, poolVars, netVars
<1> DEFINE c == ctx[w]
<1>1. c \in Contexts
  BY Labels DEF PostRecv, At, TypeOK, WorkerType
<1>2. /\ \E l \in {"idle", "close"} : Goto(w, l)
      /\ ret' = ret \/ ret' = [ret EXCEPT ![w] = "idle"]
      /\ ops' = ops \/ (sock[c] # None /\ ops' = ops \cup
           {[type |-> "recv", ctx |-> c, sock |-> sock[c], data |-> <<>>]})
      /\ UNCHANGED <<ctx, sk, io, nb, sock, cnt, bufVars, lock, poolVars,
                     connCnt, accepting, netVars, heap>>
  BY DEF PostRecv, CallClose
<1>3. WorkerType'
  <2>1. /\ pc' \in [Workers -> Pcs]
        /\ \A v \in Workers :
             /\ pc'[v] \in UsesContext => ctx'[v] \in Contexts
             /\ pc'[v] \in HoldsAccept => io[v] \in AcceptIos /\ sk[v] \in Socks
    BY <1>1, <1>2, Labels, GotoType DEF TypeOK
  <2>2. ret' \in [Workers -> Returns]
    BY <1>2, Labels DEF TypeOK, WorkerType
  <2> QED BY <1>2, <2>1, <2>2 DEF TypeOK, WorkerType
<1>4. ContextType' /\ PoolType'
  BY <1>2 DEF TypeOK, ContextType, PoolType
<1>5. ops' \subseteq Op
  <2>1. CASE sock[c] # None
    <3>1. sock[c] \in Socks
      BY <1>1, <2>1 DEF TypeOK, ContextType
    <3>2. [type |-> "recv", ctx |-> c, sock |-> sock[c], data |-> <<>>] \in Op
      BY <1>1, <3>1, EmptySeq DEF Op
    <3> QED BY <1>2, <3>2 DEF TypeOK, NetType
  <2>2. CASE sock[c] = None
    BY <1>2, <2>2 DEF TypeOK, NetType
  <2> QED BY <2>1, <2>2
<1> QED BY <1>2, <1>3, <1>4, <1>5 DEF TypeOK, NetType

\* handleSend keeps the types.
LEMMA TypeHandleSend ==
  ASSUME TypeOK, NEW w \in Workers, HandleSend(w)
  PROVE  TypeOK'
<1> DEFINE c == ctx[w]
<1>1. pc[w] = "hsend" /\ c \in Contexts /\ "idle" \in Returns \ {"drained"}
  BY Labels DEF HandleSend, SendNext, SendQueued, At, TypeOK, WorkerType
<1>2. CASE SendNext(w)
  <2> DEFINE rest == SubSeq(outBuf[c], nb[w] + 1, Len(outBuf[c]))
  <2>1. rest \in Seq(Byte)
    <3>1. outBuf[c] \in Seq(Byte) /\ nb[w] \in Nat
      BY <1>1 DEF TypeOK, ContextType, WorkerType
    <3> HIDE DEF c
    <3> QED BY <3>1
  <2>2. /\ ctx' = ctx /\ outBuf' = [outBuf EXCEPT ![c] = rest]
        /\ UNCHANGED <<sk, io, nb, sock, cnt, inBuf, outQ, poolVars, connCnt,
                       accepting, netVars, heap>>
    BY <1>2 DEF SendNext
  <2>3. /\ pc' \in [Workers -> Pcs] /\ ret' \in [Workers -> Returns]
        /\ \A v \in Workers :
             /\ pc'[v] \in UsesContext => ctx'[v] \in Contexts
             /\ pc'[v] \in HoldsAccept => io[v] \in AcceptIos /\ sk[v] \in Socks
        /\ lock' \in [Contexts -> Workers \cup {None}]
        /\ ops' \subseteq Op
    <3>1. CASE rest # <<>>
      <4>1. PostSend(w, rest, "idle")
        BY <1>2, <3>1 DEF SendNext
      <4> HIDE DEF rest
      <4> QED BY <1>1, <2>1, <2>2, <4>1, TypePostSend
    <3>2. CASE rest = <<>>
      <4>1. /\ Goto(w, "release") /\ ret' = [ret EXCEPT ![w] = "drained"]
            /\ lock' = [lock EXCEPT ![c] = w] /\ ops' = ops
        BY <1>2, <3>2 DEF SendNext
      <4>2. WorkerType /\ ContextType /\ NetType
        BY DEF TypeOK
      <4>3. /\ pc' \in [Workers -> Pcs]
            /\ \A v \in Workers :
                 /\ pc'[v] \in UsesContext => ctx'[v] \in Contexts
                 /\ pc'[v] \in HoldsAccept => io[v] \in AcceptIos /\ sk[v] \in Socks
        BY <1>1, <2>2, <4>1, <4>2, Labels, GotoType
      <4> HIDE DEF c
      <4> QED BY <4>1, <4>2, <4>3, <1>1, Labels DEF WorkerType, ContextType, NetType
    <3> QED BY <3>1, <3>2
  <2> HIDE DEF rest
  <2>4. WorkerType' /\ ContextType'
    BY <2>1, <2>2, <2>3 DEF TypeOK, WorkerType, ContextType
  <2>5. PoolType' /\ NetType'
    BY <2>2, <2>3 DEF TypeOK, PoolType, NetType, poolVars, netVars
  <2> QED BY <2>4, <2>5 DEF TypeOK
<1>3. CASE SendQueued(w)
  <2> DEFINE read == [i \in 1 .. Len(Head(outQ[c])) |-> Garbage]
  <2>1. outQ[c] \in Seq(Seq(Byte)) /\ outQ[c] # <<>>
    BY <1>1, <1>3 DEF SendQueued, TypeOK, ContextType
  <2>2. Head(outQ[c]) \in Seq(Byte) /\ Tail(outQ[c]) \in Seq(Seq(Byte))
    BY <2>1
  <2>3. read \in Seq(Byte)
    <3>1. Garbage \in Byte
      BY DEF Garbage, Byte
    <3> QED BY <2>2, <3>1
  <2>4. /\ ctx' = ctx /\ outBuf' = [outBuf EXCEPT ![c] = read]
        /\ outQ' = [outQ EXCEPT ![c] = Tail(@)]
        /\ heap' \in {"ok", "corrupt", "fault"}
        /\ UNCHANGED <<sk, io, nb, sock, cnt, inBuf, poolVars, connCnt,
                       accepting, netVars>>
    BY <1>3 DEF SendQueued, TypeOK, NetType
  <2>5. PostSend(w, read, "idle") \/ (Goto(w, "idle") /\ UNCHANGED <<ops, ret, lock>>)
    BY <1>3 DEF SendQueued
  <2> HIDE DEF read
  <2>6. /\ pc' \in [Workers -> Pcs] /\ ret' \in [Workers -> Returns]
        /\ \A v \in Workers :
             /\ pc'[v] \in UsesContext => ctx'[v] \in Contexts
             /\ pc'[v] \in HoldsAccept => io[v] \in AcceptIos /\ sk[v] \in Socks
        /\ lock' \in [Contexts -> Workers \cup {None}]
        /\ ops' \subseteq Op
    <3>1. CASE PostSend(w, read, "idle")
      BY <1>1, <2>3, <2>4, <3>1, TypePostSend
    <3>2. CASE Goto(w, "idle") /\ UNCHANGED <<ops, ret, lock>>
      <4>1. /\ pc' \in [Workers -> Pcs]
            /\ \A v \in Workers :
                 /\ pc'[v] \in UsesContext => ctx'[v] \in Contexts
                 /\ pc'[v] \in HoldsAccept => io[v] \in AcceptIos /\ sk[v] \in Socks
        BY <2>4, <3>2, Labels, GotoType DEF TypeOK
      <4> QED BY <3>2, <4>1 DEF TypeOK, WorkerType, ContextType, NetType
    <3> QED BY <2>5, <3>1, <3>2
  <2>7. WorkerType' /\ ContextType'
    BY <2>2, <2>3, <2>4, <2>6 DEF TypeOK, WorkerType, ContextType
  <2>8. PoolType' /\ NetType'
    BY <2>4, <2>6 DEF TypeOK, PoolType, NetType, poolVars, netVars
  <2> QED BY <2>7, <2>8 DEF TypeOK
<1> QED BY <1>2, <1>3 DEF HandleSend

\* CloseClient and releaseClientContext keep the types.
LEMMA TypeClose ==
  ASSUME TypeOK, NEW w \in Workers, CloseClient(w)
  PROVE  TypeOK'
<1> USE DEF bufVars, poolVars, netVars
<1>0. ctx[w] \in Contexts
  BY Labels DEF CloseClient, CloseTake, CloseCancel, CloseCount, Release,
                RemoveClient, Unlock, At, TypeOK, WorkerType
<1>1. CASE CloseTake(w)
  <2>1. \E l \in {"release", "cancel"} : Goto(w, l)
    BY <1>1 DEF CloseTake
  <2>2. sk' \in [Workers -> Socks \cup {None}]
    BY <1>0, <1>1 DEF CloseTake, TypeOK, WorkerType, ContextType
  <2>3. /\ pc' \in [Workers -> Pcs]
        /\ \A v \in Workers :
             /\ pc'[v] \in UsesContext => ctx'[v] \in Contexts
             /\ pc'[v] \in HoldsAccept => io[v] \in AcceptIos /\ sk[v] \in Socks
    BY <1>0, <1>1, <2>1, Labels, GotoType DEF CloseTake, TypeOK
  <2>4. pc'[w] \notin HoldsAccept
    BY <2>1, Labels DEF Goto, TypeOK, WorkerType
  <2>5. WorkerType'
    BY <1>1, <2>2, <2>3, <2>4 DEF CloseTake, TypeOK, WorkerType
  <2> QED BY <1>1, <2>5 DEF CloseTake, TypeOK, ContextType, PoolType, NetType
<1>2. CASE CloseCancel(w)
  <2>1. \E l \in {"release", "uncount"} : Goto(w, l)
    BY <1>2 DEF CloseCancel
  <2>2. WorkerType'
    BY <1>0, <1>2, <2>1, Labels, GotoType DEF CloseCancel, TypeOK, WorkerType
  <2> QED BY <1>2, <2>2 DEF CloseCancel, TypeOK, ContextType, PoolType, NetType
<1>3. CASE CloseCount(w)
  <2>1. WorkerType'
    BY <1>0, <1>3, Labels, GotoType DEF CloseCount, TypeOK, WorkerType
  <2> QED BY <1>3, <2>1 DEF CloseCount, TypeOK, ContextType, PoolType, NetType
<1>4. CASE Release(w)
  <2>1. \E l \in {"remove", "idle", "sent", "post_recv", "unlock"} : Goto(w, l)
    BY <1>4, ReturnGoto
  <2>2. WorkerType'
    BY <1>0, <1>4, <2>1, Labels, GotoType DEF Release, TypeOK, WorkerType
  <2>4. cnt' \in [Contexts -> Int]
    BY <1>0, <1>4 DEF Release, TypeOK, ContextType
  <2>5. ContextType'
    BY <1>4, <2>4 DEF Release, TypeOK, ContextType
  <2> QED BY <1>4, <2>2, <2>5 DEF Release, TypeOK, PoolType, NetType
<1>5. CASE RemoveClient(w)
  <2>0. \E l \in {"idle", "sent", "post_recv", "unlock"} : Goto(w, l)
    BY <1>5, ReturnGoto DEF RemoveClient
  <2>1. WorkerType'
    BY <1>0, <1>5, <2>0, Labels, GotoType DEF RemoveClient, TypeOK, WorkerType
  <2>2. ContextType'
    BY <1>5 DEF RemoveClient, TypeOK, ContextType
  <2>3. connected' \in [Contexts -> Nat] /\ free' \in [Contexts -> Nat]
    BY <1>0, <1>5 DEF RemoveClient, TypeOK, PoolType
  <2>4. PoolType' /\ NetType'
    BY <1>5, <2>3 DEF RemoveClient, TypeOK, PoolType, NetType
  <2> QED BY <2>1, <2>2, <2>4 DEF TypeOK
<1>6. CASE Unlock(w)
  <2>1. \E l \in {"idle", "sent", "post_recv"} : Goto(w, l)
    BY <1>6, ReturnGoto
  <2>2. WorkerType'
    BY <1>0, <1>6, <2>1, Labels, GotoType DEF Unlock, TypeOK, WorkerType
  <2>3. ContextType'
    BY <1>0, <1>6 DEF Unlock, TypeOK, ContextType
  <2> QED BY <1>6, <2>2, <2>3 DEF Unlock, TypeOK, PoolType, NetType
<1> QED BY <1>1, <1>2, <1>3, <1>4, <1>5, <1>6 DEF CloseClient

\* The echo callback keeps the types.
LEMMA TypeEcho ==
  ASSUME TypeOK, NEW w \in Workers, Echo(w) \/ EchoDone(w)
  PROVE  TypeOK'
<1>1. CASE Echo(w)
  <2>1. ctx[w] \in Contexts /\ inBuf[ctx[w]] \in Seq(Byte)
        /\ "sent" \in Returns \ {"drained"}
    BY <1>1, Labels DEF Echo, At, TypeOK, WorkerType, ContextType
  <2>2. Send(w, inBuf[ctx[w]], "sent") /\ ctx' = ctx
    BY <1>1 DEF Echo
  <2>3. UNCHANGED <<sk, io, nb, sock, inBuf, poolVars, connCnt, accepting,
                    netVars, heap>>
    BY <1>1 DEF Echo
  <2>4. /\ pc' \in [Workers -> Pcs] /\ ret' \in [Workers -> Returns]
        /\ \A v \in Workers :
             /\ pc'[v] \in UsesContext => ctx'[v] \in Contexts
             /\ pc'[v] \in HoldsAccept => io[v] \in AcceptIos /\ sk[v] \in Socks
        /\ lock' \in [Contexts -> Workers \cup {None}]
        /\ ops' \subseteq Op
        /\ cnt' \in [Contexts -> Int]
        /\ outBuf' \in [Contexts -> Seq(Byte)]
        /\ outQ' \in [Contexts -> Seq(Seq(Byte))]
    BY <2>1, <2>2, TypeSend
  <2> QED BY <2>2, <2>3, <2>4 DEF TypeOK, WorkerType, ContextType, PoolType,
                                  NetType, poolVars, netVars
<1>2. CASE EchoDone(w)
  <2>1. WorkerType'
    BY <1>2, Labels, GotoType DEF EchoDone, At, TypeOK, WorkerType
  <2>2. inBuf' \in [Contexts -> Seq(Byte)]
    BY <1>2, EmptySeq DEF EchoDone, TypeOK, ContextType
  <2>3. ContextType' /\ PoolType' /\ NetType'
    BY <1>2, <2>2 DEF EchoDone, TypeOK, ContextType, PoolType, NetType,
                      poolVars, netVars
  <2> QED BY <2>1, <2>3 DEF TypeOK
<1> QED BY <1>1, <1>2

\* No step of the echo server leaves the types of its variables.
THEOREM TypeCorrect == Spec => []TypeOK
<1>1. Init => TypeOK
  BY IocpServerTypeInit
<1>2. TypeOK /\ [Next]_vars => TypeOK'
  <2> SUFFICES ASSUME TypeOK, [Next]_vars PROVE TypeOK'
    OBVIOUS
  <2>1. ASSUME NEW w \in Workers,
               Dequeue(w) \/ Handle(w) \/ Echo(w) \/ EchoDone(w)
        PROVE  TypeOK'
    BY <2>1, TypeDequeue, TypeAccept, TypePostRecv, TypeHandleSend, TypeClose,
       TypeEcho DEF Handle
  <2>2. CASE HeapFault
    BY <2>2 DEF HeapFault, TypeOK, WorkerType, ContextType, PoolType, NetType,
                workerVars, bufVars, poolVars, netVars
  <2>3. CASE UNCHANGED vars
    BY <2>3 DEF vars, TypeOK, WorkerType, ContextType, PoolType, NetType,
                workerVars, bufVars, poolVars, netVars
  <2> QED BY <2>1, <2>2, <2>3 DEF Next, Quiescent
<1> QED BY <1>1, <1>2, PTL DEF Spec

-----------------------------------------------------------------------------
(* What a callback may do *)

\* The part of the state that notifyPackageReceived, of either server, leaves
\* alone, and where it may go.
Callback(w) ==
  /\ pc[w] \in {"notify", "sent"}
  /\ \E l \in {"notify", "sent", "close", "post_recv"} : Goto(w, l)
  /\ UNCHANGED <<ctx, sk, sock, poolVars, connCnt, open>>

\* send() returns to its caller or closes the client.
LEMMA SendGoto ==
  ASSUME NEW w, NEW p, NEW k, Send(w, p, k)
  PROVE  Goto(w, k) \/ Goto(w, "close")
  BY DEF Send, PostSend, CallClose

\* The echo callback is one.
LEMMA EchoCallback ==
  ASSUME NEW w \in Workers, Echo(w) \/ EchoDone(w)
  PROVE  Callback(w)
<1>1. CASE Echo(w)
  <2>1. Goto(w, "sent") \/ Goto(w, "close")
    BY <1>1, SendGoto DEF Echo
  <2> QED BY <1>1, <2>1 DEF Echo, At, Callback, netVars
<1>2. CASE EchoDone(w)
  BY <1>2 DEF EchoDone, At, Callback, netVars
<1> QED BY <1>1, <1>2

-----------------------------------------------------------------------------
(* The lists of contexts *)

\* A step that leaves the lists alone and does not enter the part of
\* handleAccept that owns a context.
LEMMA PoolFrame ==
  ASSUME TypeOK, PoolInv, NEW w \in Workers, NEW l,
         Goto(w, l), l \notin {"acc_post", "acc_add"},
         UNCHANGED poolVars,
         \A v \in Workers \ {w} : ctx'[v] = ctx[v]
  PROVE  PoolInv'
<1>1. \A v \in Workers : Accepting(v)' => v # w /\ Accepting(v) /\ ctx'[v] = ctx[v]
  BY DEF Goto, Accepting, TypeOK, WorkerType
<1>2. UNCHANGED <<connected, free, born>>
  BY DEF poolVars
<1> QED BY <1>1, <1>2 DEF PoolInv, PoolDiscipline

\* The steps of IocpServer keep PoolInv.
LEMMA PoolShared ==
  ASSUME TypeOK, PoolInv, NEW w \in Workers, Dequeue(w) \/ Handle(w)
  PROVE  PoolInv'
<1> USE DEF At
<1>1. CASE Dequeue(w)
  <2>1. \E l \in {"acc_check", "notify", "hsend", "close"} : Goto(w, l)
    BY <1>1 DEF Dequeue, ClientPacket, AcceptDone, RecvDone, SendDone, IoClosed, CallClose
  <2>2. UNCHANGED poolVars /\ \A v \in Workers \ {w} : ctx'[v] = ctx[v]
    BY <1>1 DEF Dequeue, ClientPacket, AcceptDone, RecvDone, SendDone, IoClosed, TypeOK,
                WorkerType
  <2> QED BY <2>1, <2>2, PoolFrame
<1>2. CASE AcceptCheck(w) \/ AcceptCount(w)
  <2>1. \E l \in {"idle", "acc_inc", "acc_alloc"} : Goto(w, l)
    BY <1>2 DEF AcceptCheck, AcceptCount
  <2> QED BY <1>2, <2>1, PoolFrame DEF AcceptCheck, AcceptCount
<1>3. ASSUME NEW c \in Contexts, AcceptAlloc(w, c)
      PROVE  PoolInv'
  <2>1. /\ ctx' = [ctx EXCEPT ![w] = c] /\ connected' = connected
        /\ \E l \in {"idle", "acc_post"} : Goto(w, l)
    BY <1>3 DEF AcceptAlloc, Allocate
  <2>2. \A v \in Workers : v # w =>
          (Accepting(v)' <=> Accepting(v)) /\ ctx'[v] = ctx[v]
    BY <2>1 DEF Goto, Accepting, TypeOK, WorkerType
  <2>3. ctx'[w] = c /\ \A v \in Workers : Accepting(v) => ctx[v] \in Contexts
    BY <2>1, Labels DEF Accepting, TypeOK, WorkerType
  <2>4. CASE free[c] > 0 /\ free' = [free EXCEPT ![c] = @ - 1] /\ born' = born
    <3>1. /\ connected'[c] + free'[c] = 0 /\ c \in born
          /\ \A v \in Workers : Accepting(v) => ctx[v] # c
      BY <2>1, <2>4 DEF PoolInv, PoolDiscipline, TypeOK, PoolType
    <3>2. \A d \in Contexts : d # c => free'[d] = free[d]
      BY <2>4 DEF TypeOK, PoolType
    <3>3. PoolDiscipline'
      BY <2>1, <2>2, <2>3, <3>1, <3>2 DEF PoolInv, PoolDiscipline
    <3> QED BY <2>1, <2>2, <2>3, <2>4, <3>1, <3>2, <3>3 DEF PoolInv
  <2>5. CASE c \notin born /\ born' = born \cup {c} /\ free' = free
    <3>1. /\ connected'[c] + free'[c] = 0
          /\ \A v \in Workers : Accepting(v) => ctx[v] # c
      BY <2>1, <2>5 DEF PoolInv
    <3>2. PoolDiscipline'
      BY <2>1, <2>2, <2>3, <2>5, <3>1 DEF PoolInv, PoolDiscipline
    <3> QED BY <2>1, <2>2, <2>3, <2>5, <3>1, <3>2 DEF PoolInv
  <2> QED BY <1>3, <2>4, <2>5 DEF AcceptAlloc, Allocate
<1>4. CASE AcceptPost(w)
  <2>1. \A v \in Workers : (Accepting(v)' <=> Accepting(v)) /\ ctx'[v] = ctx[v]
    BY <1>4 DEF AcceptPost, Goto, Accepting, TypeOK, WorkerType
  <2> QED BY <1>4, <2>1 DEF AcceptPost, poolVars, PoolInv, PoolDiscipline
<1>5. CASE AcceptAdd(w)
  <2> DEFINE c == ctx[w]
  <2>1. c \in Contexts /\ Accepting(w)
    BY <1>5, Labels DEF AcceptAdd, Accepting, TypeOK, WorkerType
  <2>2. \A v \in Workers : Accepting(v)' => v # w /\ Accepting(v) /\ ctx'[v] = ctx[v]
    BY <1>5 DEF AcceptAdd, Goto, Accepting, TypeOK, WorkerType
  <2>3. /\ connected' = [connected EXCEPT ![c] = @ + 1]
        /\ free' = free /\ born' = born
    BY <1>5 DEF AcceptAdd
  <2>4. connected[c] + free[c] = 0 /\ c \in born
    BY <2>1 DEF PoolInv, PoolDiscipline
  <2>5. /\ connected'[c] + free'[c] = 1
        /\ \A d \in Contexts : d # c => connected'[d] = connected[d]
    BY <2>1, <2>3, <2>4 DEF TypeOK, PoolType
  <2>6. \A v \in Workers : Accepting(v)' => ctx[v] # c
    BY <2>1, <2>2 DEF PoolInv, PoolDiscipline
  <2>7. \A v \in Workers : Accepting(v)' => ctx[v] \in Contexts
    BY <2>2, Labels DEF Accepting, TypeOK, WorkerType
  <2> HIDE DEF c
  <2>8. PoolDiscipline'
    BY <2>2, <2>3, <2>5, <2>6, <2>7 DEF PoolInv, PoolDiscipline
  <2> QED BY <2>2, <2>3, <2>4, <2>5, <2>8 DEF PoolInv
<1>6. CASE PostRecv(w)
  <2>1. \E l \in {"idle", "close"} : Goto(w, l)
    BY <1>6 DEF PostRecv, CallClose
  <2> QED BY <1>6, <2>1, PoolFrame DEF PostRecv
<1>7. CASE HandleSend(w)
  <2>1. \E l \in {"idle", "close", "release"} : Goto(w, l)
    BY <1>7 DEF HandleSend, SendNext, SendQueued, PostSend, CallClose
  <2> QED BY <1>7, <2>1, PoolFrame DEF HandleSend, SendNext, SendQueued
<1>8. CASE CloseTake(w) \/ CloseCancel(w) \/ CloseCount(w)
  <2>1. \E l \in {"release", "cancel", "uncount"} : Goto(w, l)
    BY <1>8 DEF CloseTake, CloseCancel, CloseCount
  <2> QED BY <1>8, <2>1, PoolFrame DEF CloseTake, CloseCancel, CloseCount
<1>9. CASE Release(w) \/ Unlock(w)
  <2>1. \E l \in {"remove", "idle", "sent", "post_recv", "unlock"} : Goto(w, l)
    BY <1>9, ReturnGoto
  <2> QED BY <1>9, <2>1, PoolFrame DEF Release, Unlock
<1>10. CASE RemoveClient(w)
  <2> DEFINE c == ctx[w]
  <2>1. c \in Contexts
    BY <1>10, Labels DEF RemoveClient, TypeOK, WorkerType
  <2>2. /\ \E l \in {"idle", "sent", "post_recv", "unlock"} : Goto(w, l)
        /\ ctx' = ctx
    BY <1>10, ReturnGoto DEF RemoveClient
  <2>3. CASE connected[c] = 0
    BY <1>10, <2>2, <2>3, PoolFrame DEF RemoveClient, poolVars, TypeOK, PoolType
  <2>4. CASE connected[c] > 0
    <3>1. /\ connected' = [connected EXCEPT ![c] = 0]
          /\ free' = [free EXCEPT ![c] = @ + 1] /\ born' = born
      BY <1>10, <2>4 DEF RemoveClient
    <3>2. /\ free[c] = 0 /\ connected[c] = 1 /\ c \in born
          /\ \A v \in Workers : Accepting(v) => ctx[v] # c
      BY <2>1, <2>4 DEF PoolInv, PoolDiscipline, TypeOK, PoolType
    <3>3. /\ connected'[c] + free'[c] = 1
          /\ \A d \in Contexts : d # c =>
               connected'[d] = connected[d] /\ free'[d] = free[d]
      BY <2>1, <3>1, <3>2 DEF TypeOK, PoolType
    <3>4. \A v \in Workers :
            Accepting(v)' => Accepting(v) /\ ctx'[v] = ctx[v] /\ ctx[v] \in Contexts
      BY <2>2, Labels DEF Goto, Accepting, TypeOK, WorkerType
    <3> HIDE DEF c
    <3>5. PoolDiscipline'
      BY <3>2, <3>3, <3>4 DEF PoolInv, PoolDiscipline
    <3> QED BY <3>1, <3>2, <3>3, <3>4, <3>5 DEF PoolInv
  <2>5. connected[c] \in Nat
    BY <2>1 DEF TypeOK, PoolType
  <2> QED BY <2>3, <2>4, <2>5
<1> QED
  BY <1>1, <1>2, <1>3, <1>4, <1>5, <1>6, <1>7, <1>8, <1>9, <1>10
  DEF Handle, HandleAccept, CloseClient

\* A callback keeps PoolInv.
LEMMA PoolCallback ==
  ASSUME TypeOK, PoolInv, NEW w \in Workers, Callback(w)
  PROVE  PoolInv'
  BY PoolFrame DEF Callback

\* PoolInv is inductive, relative to the types.
LEMMA PoolAlways == Spec => []PoolInv
<1>1. Init => PoolInv
  BY DEF Init, PoolInv, PoolDiscipline, Accepting
<1>2. TypeOK /\ PoolInv /\ [Next]_vars => PoolInv'
  <2> SUFFICES ASSUME TypeOK, PoolInv, [Next]_vars PROVE PoolInv'
    OBVIOUS
  <2>1. ASSUME NEW w \in Workers,
               Dequeue(w) \/ Handle(w) \/ Echo(w) \/ EchoDone(w)
        PROVE  PoolInv'
    BY <2>1, PoolShared, PoolCallback, EchoCallback
  <2>2. CASE HeapFault \/ UNCHANGED vars
    BY <2>2 DEF HeapFault, vars, workerVars, poolVars, PoolInv, PoolDiscipline,
                Accepting
  <2> QED BY <2>1, <2>2 DEF Next, Quiescent
<1> QED BY <1>1, <1>2, TypeCorrect, PTL DEF Spec

\* The lists of IocpServer.h:96-97 stay disjoint and without duplicates, and
\* handleAccept never shares the context it allocated, for any number of
\* workers, contexts and clients.
THEOREM PoolCorrect == Spec => []PoolDiscipline
<1>1. PoolInv => PoolDiscipline
  BY DEF PoolInv
<1> QED BY <1>1, PoolAlways, PTL

-----------------------------------------------------------------------------
(* The sockets and their owners *)

\* A step that changes no socket variable and does not become an owner.
LEMMA OwnerFrame ==
  ASSUME TypeOK, OneOwner, NEW w \in Workers, NEW l,
         Goto(w, l),
         l \notin {"acc_check", "acc_inc", "acc_alloc", "cancel"} \/ OwnsSocket(w),
         UNCHANGED <<sk, sock, open>>
  PROVE  OneOwner'
<1>1. \A v \in Workers : OwnsSocket(v)' => OwnsSocket(v)
  BY DEF Goto, OwnsSocket, TypeOK, WorkerType
<1> QED BY <1>1 DEF OneOwner

\* A step that closes the socket its worker owns.
LEMMA OwnerClose ==
  ASSUME TypeOK, OneOwner, NEW w \in Workers, NEW l, OwnsSocket(w),
         Goto(w, l), l \notin {"acc_check", "acc_inc", "acc_alloc", "cancel"},
         open' = open \ {sk[w]}, UNCHANGED <<sk, sock>>
  PROVE  OneOwner'
<1>1. \A v \in Workers : OwnsSocket(v)' => v # w /\ OwnsSocket(v)
  BY DEF Goto, OwnsSocket, TypeOK, WorkerType
<1> QED BY <1>1 DEF OneOwner

\* The steps of IocpServer keep OneOwner.
LEMMA OwnerShared ==
  ASSUME TypeOK, OneOwner, NEW w \in Workers, Dequeue(w) \/ Handle(w)
  PROVE  OneOwner'
<1> USE DEF At
<1>1. ASSUME NEW a \in AcceptIos, NEW s \in Socks, AcceptDone(w, a, s)
      PROVE  OneOwner'
  <2>1. /\ s \notin open /\ open' = open \cup {s} /\ sk' = [sk EXCEPT ![w] = s]
        /\ sock' = sock /\ Goto(w, "acc_check") /\ ~OwnsSocket(w)
    BY <1>1 DEF AcceptDone, OwnsSocket, TypeOK, NetType
  <2>2. \A v \in Workers : v # w =>
          (OwnsSocket(v)' <=> OwnsSocket(v)) /\ sk'[v] = sk[v]
    BY <2>1 DEF Goto, OwnsSocket, TypeOK, WorkerType
  <2>3. sk'[w] = s /\ s # None
    BY <2>1, ConstAssumption DEF TypeOK, WorkerType
  <2>4. \A c \in Contexts : sock[c] # s
    BY <2>1, <2>3 DEF OneOwner
  <2> QED BY <2>1, <2>2, <2>3, <2>4 DEF OneOwner
<1>2. CASE ClientPacket(w)
  <2>1. /\ \E l \in {"notify", "hsend", "close"} : Goto(w, l)
        /\ UNCHANGED <<sk, sock, open>>
    BY <1>2 DEF ClientPacket, RecvDone, SendDone, IoClosed, CallClose,
                netVars
  <2> QED BY <2>1, OwnerFrame
<1>3. CASE AcceptCheck(w)
  <2>1. OwnsSocket(w) /\ UNCHANGED <<sk, sock>>
    BY <1>3 DEF AcceptCheck, OwnsSocket
  <2>2. CASE open' = open \ {sk[w]} /\ Goto(w, "idle")
    BY <2>1, <2>2, OwnerClose
  <2>3. CASE open' = open /\ Goto(w, "acc_inc")
    BY <2>1, <2>3, OwnerFrame
  <2> QED BY <1>3, <2>2, <2>3 DEF AcceptCheck
<1>4. CASE AcceptCount(w)
  BY <1>4, OwnerFrame DEF AcceptCount, OwnsSocket, netVars
<1>5. ASSUME NEW c \in Contexts, AcceptAlloc(w, c)
      PROVE  OneOwner'
  <2>1. /\ sock' = [sock EXCEPT ![c] = sk[w]] /\ OwnsSocket(w)
        /\ \E l \in {"idle", "acc_post"} : Goto(w, l)
        /\ UNCHANGED <<sk, open>>
    BY <1>5 DEF AcceptAlloc, Allocate, OwnsSocket, netVars
  <2>2. \A v \in Workers : OwnsSocket(v)' => v # w /\ OwnsSocket(v)
    BY <2>1 DEF Goto, OwnsSocket, TypeOK, WorkerType
  <2>3. sock'[c] = sk[w] /\ \A d \in Contexts : d # c => sock'[d] = sock[d]
    BY <2>1 DEF TypeOK, ContextType
  <2> QED BY <2>1, <2>2, <2>3 DEF OneOwner
<1>6. CASE AcceptPost(w) \/ AcceptAdd(w)
  <2>1. /\ \E l \in {"acc_add", "post_recv"} : Goto(w, l)
        /\ UNCHANGED <<sk, sock, open>>
    BY <1>6 DEF AcceptPost, AcceptAdd, netVars
  <2> QED BY <2>1, OwnerFrame
<1>7. CASE PostRecv(w)
  <2>1. /\ \E l \in {"idle", "close"} : Goto(w, l)
        /\ UNCHANGED <<sk, sock, open>>
    BY <1>7 DEF PostRecv, CallClose, netVars
  <2> QED BY <2>1, OwnerFrame
<1>8. CASE HandleSend(w)
  <2>1. /\ \E l \in {"idle", "close", "release"} : Goto(w, l)
        /\ UNCHANGED <<sk, sock, open>>
    BY <1>8 DEF HandleSend, SendNext, SendQueued, PostSend, CallClose, netVars
  <2> QED BY <2>1, OwnerFrame
<1>9. CASE CloseTake(w)
  <2> DEFINE c == ctx[w]
  <2>1. c \in Contexts
    BY <1>9, Labels DEF CloseTake, TypeOK, WorkerType
  <2>2. /\ sk' = [sk EXCEPT ![w] = sock[c]] /\ sock' = [sock EXCEPT ![c] = None]
        /\ open' = open /\ ~OwnsSocket(w)
        /\ Goto(w, IF sock[c] = None THEN "release" ELSE "cancel")
    BY <1>9 DEF CloseTake, netVars, OwnsSocket
  <2>3. \A v \in Workers : v # w =>
          (OwnsSocket(v)' <=> OwnsSocket(v)) /\ sk'[v] = sk[v]
    BY <2>2 DEF Goto, OwnsSocket, TypeOK, WorkerType
  <2>4. sk'[w] = sock[c] /\ (OwnsSocket(w)' => sock[c] # None)
    BY <2>2 DEF Goto, OwnsSocket, TypeOK, WorkerType
  <2>5. sock'[c] = None /\ \A d \in Contexts : d # c => sock'[d] = sock[d]
    BY <2>1, <2>2 DEF TypeOK, ContextType
  <2>6. \A v \in Workers : OwnsSocket(v) => sk[v] # None
    BY ConstAssumption DEF OneOwner, TypeOK, NetType
  <2> HIDE DEF c
  <2> QED BY <2>1, <2>2, <2>3, <2>4, <2>5, <2>6 DEF OneOwner
<1>10. CASE CloseCancel(w)
  <2>1. OwnsSocket(w) /\ UNCHANGED <<sk, sock>>
    BY <1>10 DEF CloseCancel, OwnsSocket
  <2>2. CASE open' = open \ {sk[w]} /\ Goto(w, "uncount")
    BY <2>1, <2>2, OwnerClose
  <2>3. CASE open' = open /\ Goto(w, "release")
    BY <2>1, <2>3, OwnerFrame
  <2> QED BY <1>10, <2>2, <2>3 DEF CloseCancel
<1>11. CASE CloseCount(w) \/ Release(w) \/ RemoveClient(w) \/ Unlock(w)
  <2>1. UNCHANGED <<sk, sock, open>>
    BY <1>11 DEF CloseCount, Release, RemoveClient, Unlock, netVars
  <2>2. \E l \in {"release", "remove", "idle", "sent", "post_recv", "unlock"} :
          Goto(w, l)
    BY <1>11, ReturnGoto DEF CloseCount, RemoveClient
  <2> QED BY <2>1, <2>2, OwnerFrame
<1>12. CASE Dequeue(w)
  BY <1>1, <1>2, <1>12 DEF Dequeue
<1>13. CASE Handle(w)
  BY <1>3, <1>4, <1>5, <1>6, <1>7, <1>8, <1>9, <1>10, <1>11, <1>13
  DEF Handle, HandleAccept, CloseClient
<1> QED BY <1>12, <1>13

\* A callback keeps OneOwner.
LEMMA OwnerCallback ==
  ASSUME TypeOK, OneOwner, NEW w \in Workers, Callback(w)
  PROVE  OneOwner'
  BY OwnerFrame DEF Callback

\* No client socket has two owners: CloseClient closes each at most once, and
\* never while another handler may still use it.
THEOREM OwnerCorrect == Spec => []OneOwner
<1>1. Init => OneOwner
  BY DEF Init, OneOwner, OwnsSocket
<1>2. TypeOK /\ OneOwner /\ [Next]_vars => OneOwner'
  <2> SUFFICES ASSUME TypeOK, OneOwner, [Next]_vars PROVE OneOwner'
    OBVIOUS
  <2>1. ASSUME NEW w \in Workers,
               Dequeue(w) \/ Handle(w) \/ Echo(w) \/ EchoDone(w)
        PROVE  OneOwner'
    BY <2>1, OwnerShared, OwnerCallback, EchoCallback
  <2>2. CASE HeapFault \/ UNCHANGED vars
    BY <2>2 DEF HeapFault, vars, workerVars, netVars, OneOwner, OwnsSocket
  <2> QED BY <2>1, <2>2 DEF Next, Quiescent
<1> QED BY <1>1, <1>2, TypeCorrect, PTL DEF Spec

-----------------------------------------------------------------------------
(* The counter of connections *)

\* How a jump of one worker changes the number of workers at a set of labels.
LEMMA CardJump ==
  ASSUME TypeOK, NEW w \in Workers, NEW l, Goto(w, l), NEW labels
  PROVE  /\ Cardinality(WorkersAt(labels)) \in Nat
         /\ pc[w] \notin labels /\ l \in labels =>
              /\ Cardinality(WorkersAt(labels)') = Cardinality(WorkersAt(labels)) + 1
              /\ Cardinality(WorkersAt(labels)) + 1 <= Cardinality(Workers)
         /\ pc[w] \in labels /\ l \notin labels =>
              Cardinality(WorkersAt(labels)') = Cardinality(WorkersAt(labels)) - 1
         /\ (pc[w] \in labels <=> l \in labels) =>
              WorkersAt(labels)' = WorkersAt(labels)
<1> DEFINE A == WorkersAt(labels)
           B == WorkersAt(labels)'
<1>1. A \subseteq Workers /\ IsFiniteSet(Workers) /\ B \subseteq Workers
  BY ConstAssumption DEF WorkersAt
<1>2. IsFiniteSet(A) /\ IsFiniteSet(B) /\ Cardinality(A) \in Nat
  BY <1>1, FS_Subset, FS_CardinalityType
<1>3. \A v \in Workers : v # w => (v \in A <=> v \in B)
  BY DEF Goto, WorkersAt, TypeOK, WorkerType
<1>4. (w \in A <=> pc[w] \in labels) /\ (w \in B <=> l \in labels)
  BY DEF Goto, WorkersAt, TypeOK, WorkerType
<1> HIDE DEF A, B
<1>5. CASE pc[w] \notin labels /\ l \in labels
  <2>1. B = A \cup {w} /\ w \notin A
    BY <1>1, <1>3, <1>4, <1>5
  <2>2. Cardinality(B) = Cardinality(A) + 1
    BY <1>2, <2>1, FS_AddElement
  <2>3. Cardinality(B) <= Cardinality(Workers)
    BY <1>1, FS_Subset
  <2> QED BY <1>2, <1>5, <2>2, <2>3 DEF A, B
<1>6. CASE pc[w] \in labels /\ l \notin labels
  <2>1. B = A \ {w} /\ w \in A
    BY <1>1, <1>3, <1>4, <1>6
  <2>2. Cardinality(B) = Cardinality(A) - 1
    BY <1>2, <2>1, FS_RemoveElement
  <2> QED BY <1>2, <1>6, <2>2 DEF A, B
<1>7. CASE pc[w] \in labels <=> l \in labels
  <2>1. B = A
    BY <1>1, <1>3, <1>4, <1>7
  <2> QED BY <1>2, <1>7, <2>1 DEF A, B
<1> QED BY <1>5, <1>6, <1>7

\* The sets of sockets are finite.
LEMMA OpenFinite ==
  ASSUME TypeOK
  PROVE  IsFiniteSet(open) /\ Cardinality(open) \in Nat
  BY ConstAssumption, FS_Subset, FS_CardinalityType DEF TypeOK, NetType

\* The two invariants of the counter.
CountOK == CountInv /\ ConnCountExact

\* A step that neither counts nor opens nor closes.
LEMMA CountFrame ==
  ASSUME TypeOK, CountOK, NEW w \in Workers, NEW l, Goto(w, l),
         pc[w] \notin {"acc_check", "acc_inc", "uncount"},
         l \notin {"acc_check", "acc_inc", "uncount"},
         UNCHANGED <<connCnt, open>>
  PROVE  CountOK'
<1>1. /\ WorkersAt({"acc_inc"})' = WorkersAt({"acc_inc"})
      /\ WorkersAt({"acc_check", "acc_inc"})' = WorkersAt({"acc_check", "acc_inc"})
      /\ WorkersAt({"uncount"})' = WorkersAt({"uncount"})
  BY CardJump
<1> QED BY <1>1 DEF CountOK, CountInv, ConnCountExact

\* The steps of IocpServer keep the invariants of the counter.
LEMMA CountShared ==
  ASSUME TypeOK, OneOwner, CountOK, NEW w \in Workers, Dequeue(w) \/ Handle(w)
  PROVE  CountOK'
<1> DEFINE N == Cardinality(WorkersAt({"acc_inc"}))
           A == Cardinality(WorkersAt({"acc_check", "acc_inc"}))
           U == Cardinality(WorkersAt({"uncount"}))
           O == Cardinality(open)
           M == MaxConn + Cardinality(Workers) - 1
<1> USE DEF At
<1>0. /\ connCnt \in Int /\ connCnt + N <= M /\ connCnt + A = O + U
      /\ MaxConn \in Nat /\ Cardinality(Workers) \in Nat /\ M \in Int
      /\ IsFiniteSet(open) /\ O \in Nat
  BY ConstAssumption, FS_CardinalityType, OpenFinite
  DEF TypeOK, PoolType, CountOK, CountInv, ConnCountExact
<1>1. ASSUME NEW a \in AcceptIos, NEW s \in Socks, AcceptDone(w, a, s)
      PROVE  CountOK'
  <2>1. /\ s \notin open /\ open' = open \cup {s} /\ connCnt' = connCnt
        /\ pc[w] = "idle" /\ Goto(w, "acc_check")
    BY <1>1 DEF AcceptDone, TypeOK, NetType
  <2>2. O' = O + 1
    BY <1>0, <2>1, FS_AddElement
  <2>3. N' = N /\ U' = U /\ A' = A + 1 /\ A \in Nat /\ N \in Nat /\ U \in Nat
    BY <2>1, CardJump
  <2> HIDE DEF N, A, U, O, M
  <2>4. connCnt' + N' <= M /\ connCnt' + A' = O' + U'
    BY <1>0, <2>1, <2>2, <2>3
  <2> QED BY <2>4 DEF CountOK, CountInv, ConnCountExact, N, A, U, O, M
<1>2. CASE ClientPacket(w)
  <2>1. /\ \E l \in {"notify", "hsend", "close"} : Goto(w, l)
        /\ pc[w] = "idle" /\ UNCHANGED <<connCnt, open>>
    BY <1>2 DEF ClientPacket, RecvDone, SendDone, IoClosed, CallClose,
                netVars
  <2> QED BY <2>1, CountFrame
<1>3. CASE AcceptCheck(w)
  <2>1. pc[w] = "acc_check" /\ sk[w] \in open /\ connCnt' = connCnt
    BY <1>3 DEF AcceptCheck, OneOwner, OwnsSocket
  <2>2. CASE open' = open \ {sk[w]} /\ Goto(w, "idle")
    <3>1. O' = O - 1
      BY <1>0, <2>1, <2>2, FS_RemoveElement
    <3>2. N' = N /\ U' = U /\ A' = A - 1 /\ A \in Nat /\ N \in Nat /\ U \in Nat
      BY <2>1, <2>2, CardJump
    <3> HIDE DEF N, A, U, O, M
    <3>3. connCnt' + N' <= M /\ connCnt' + A' = O' + U'
      BY <1>0, <2>1, <3>1, <3>2
    <3> QED BY <3>3 DEF CountOK, CountInv, ConnCountExact, N, A, U, O, M
  <2>3. CASE connCnt < MaxConn /\ open' = open /\ Goto(w, "acc_inc")
    <3>1. /\ N' = N + 1 /\ N + 1 <= Cardinality(Workers) /\ U' = U /\ A' = A
          /\ A \in Nat /\ N \in Nat /\ U \in Nat
      BY <2>1, <2>3, CardJump
    <3>2. O' = O
      BY <2>3
    <3> HIDE DEF N, A, U, O
    <3>3. connCnt' + N' <= M /\ connCnt' + A' = O' + U'
      BY <1>0, <2>1, <2>3, <3>1, <3>2
    <3> QED BY <3>3 DEF CountOK, CountInv, ConnCountExact, N, A, U, O
  <2> QED BY <1>3, <2>2, <2>3 DEF AcceptCheck
<1>4. CASE AcceptCount(w)
  <2>1. /\ pc[w] = "acc_inc" /\ Goto(w, "acc_alloc")
        /\ connCnt' = connCnt + 1 /\ open' = open
    BY <1>4 DEF AcceptCount, netVars
  <2>2. /\ N' = N - 1 /\ A' = A - 1 /\ U' = U
        /\ A \in Nat /\ N \in Nat /\ U \in Nat
    BY <2>1, CardJump
  <2>3. O' = O
    BY <2>1
  <2> HIDE DEF N, A, U, O, M
  <2>4. connCnt' + N' <= M /\ connCnt' + A' = O' + U'
    BY <1>0, <2>1, <2>2, <2>3
  <2> QED BY <2>4 DEF CountOK, CountInv, ConnCountExact, N, A, U, O, M
<1>5. CASE \/ \E c \in Contexts : AcceptAlloc(w, c)
           \/ AcceptPost(w) \/ AcceptAdd(w) \/ PostRecv(w) \/ HandleSend(w)
           \/ CloseTake(w) \/ Release(w) \/ RemoveClient(w) \/ Unlock(w)
  <2>1. /\ pc[w] \notin {"acc_check", "acc_inc", "uncount"}
        /\ UNCHANGED <<connCnt, open>>
    BY <1>5 DEF AcceptAlloc, AcceptPost, AcceptAdd, PostRecv, HandleSend,
                SendNext, SendQueued, CloseTake, Release, RemoveClient, Unlock,
                netVars
  <2>2. \E l \in {"idle", "acc_post", "acc_add", "post_recv", "close", "release",
                 "cancel", "remove", "sent", "unlock"} : Goto(w, l)
    BY <1>5, ReturnGoto
    DEF AcceptAlloc, AcceptPost, AcceptAdd, PostRecv, HandleSend, SendNext,
        SendQueued, PostSend, CallClose, CloseTake, RemoveClient
  <2> QED BY <2>1, <2>2, CountFrame
<1>6. CASE CloseCancel(w)
  <2>1. pc[w] = "cancel" /\ sk[w] \in open /\ connCnt' = connCnt
    BY <1>6 DEF CloseCancel, OneOwner, OwnsSocket
  <2>2. CASE open' = open \ {sk[w]} /\ Goto(w, "uncount")
    <3>1. O' = O - 1
      BY <1>0, <2>1, <2>2, FS_RemoveElement
    <3>2. N' = N /\ U' = U + 1 /\ A' = A /\ A \in Nat /\ N \in Nat /\ U \in Nat
      BY <2>1, <2>2, CardJump
    <3> HIDE DEF N, A, U, O, M
    <3>3. connCnt' + N' <= M /\ connCnt' + A' = O' + U'
      BY <1>0, <2>1, <3>1, <3>2
    <3> QED BY <3>3 DEF CountOK, CountInv, ConnCountExact, N, A, U, O, M
  <2>3. CASE open' = open /\ Goto(w, "release")
    BY <2>1, <2>3, CountFrame
  <2> QED BY <1>6, <2>2, <2>3 DEF CloseCancel
<1>7. CASE CloseCount(w)
  <2>1. /\ pc[w] = "uncount" /\ Goto(w, "release")
        /\ connCnt' = connCnt - 1 /\ open' = open
    BY <1>7 DEF CloseCount, netVars
  <2>2. /\ N' = N /\ A' = A /\ U' = U - 1
        /\ A \in Nat /\ N \in Nat /\ U \in Nat
    BY <2>1, CardJump
  <2>3. O' = O
    BY <2>1
  <2> HIDE DEF N, A, U, O, M
  <2>4. connCnt' + N' <= M /\ connCnt' + A' = O' + U'
    BY <1>0, <2>1, <2>2, <2>3
  <2> QED BY <2>4 DEF CountOK, CountInv, ConnCountExact, N, A, U, O, M
<1>8. CASE Dequeue(w)
  BY <1>1, <1>2, <1>8 DEF Dequeue
<1>9. CASE Handle(w)
  BY <1>3, <1>4, <1>5, <1>6, <1>7, <1>9 DEF Handle, HandleAccept, CloseClient
<1> QED BY <1>8, <1>9

\* A callback keeps them.
LEMMA CountCallback ==
  ASSUME TypeOK, CountOK, NEW w \in Workers, Callback(w)
  PROVE  CountOK'
  BY CountFrame DEF Callback

\* Nothing is counted before the first client.
LEMMA CountInit == Init => CountOK
<1> SUFFICES ASSUME Init PROVE CountOK
  OBVIOUS
<1>1. /\ WorkersAt({"acc_inc"}) = {} /\ WorkersAt({"acc_check", "acc_inc"}) = {}
      /\ WorkersAt({"uncount"}) = {} /\ open = {} /\ connCnt = 0
  BY DEF Init, WorkersAt
<1>2. Cardinality({}) = 0 /\ Cardinality(Workers) \in Nat \ {0}
  BY ConstAssumption, FS_EmptySet, FS_CardinalityType
<1>3. ConnCountExact
  BY <1>1, <1>2 DEF ConnCountExact
<1>4. CountInv
  <2>1. MaxConn \in Nat \ {0}
    BY ConstAssumption
  <2>2. Cardinality(WorkersAt({"acc_inc"})) = 0
    BY <1>1, <1>2
  <2> QED BY <1>1, <1>2, <2>1, <2>2 DEF CountInv
<1> QED BY <1>3, <1>4 DEF CountOK

\* The race between the test of the limit and the increment lets each worker
\* but one exceed the maximum once, never more.
LEMMA CountInvBound ==
  ASSUME TypeOK, CountInv
  PROVE  CountBound
<1>1. Cardinality(WorkersAt({"acc_inc"})) \in Nat
  BY ConstAssumption, FS_Subset, FS_CardinalityType DEF WorkersAt
<1>2. Cardinality(Workers) \in Nat /\ MaxConn \in Nat /\ connCnt \in Int
  BY ConstAssumption, FS_CardinalityType DEF TypeOK, PoolType
<1> QED BY <1>1, <1>2 DEF CountInv, CountBound

\* m_nConnClientCnt is exactly the number of client sockets held open, up to
\* the handlers between a socket call and the interlocked operation, and it
\* exceeds the maximum by fewer than the number of workers.
THEOREM CountCorrect == Spec => [](ConnCountExact /\ CountBound)
<1>1. Init => CountOK
  BY CountInit
<1>2. TypeOK /\ OneOwner /\ CountOK /\ [Next]_vars => CountOK'
  <2> SUFFICES ASSUME TypeOK, OneOwner, CountOK, [Next]_vars PROVE CountOK'
    OBVIOUS
  <2>1. ASSUME NEW w \in Workers,
               Dequeue(w) \/ Handle(w) \/ Echo(w) \/ EchoDone(w)
        PROVE  CountOK'
    BY <2>1, CountShared, CountCallback, EchoCallback
  <2>2. CASE HeapFault \/ UNCHANGED vars
    BY <2>2 DEF HeapFault, vars, workerVars, netVars, CountOK, CountInv,
                ConnCountExact, WorkersAt
  <2> QED BY <2>1, <2>2 DEF Next, Quiescent
<1>3. TypeOK /\ CountOK => ConnCountExact /\ CountBound
  BY CountInvBound DEF CountOK
<1> QED BY <1>1, <1>2, <1>3, TypeCorrect, OwnerCorrect, PTL DEF Spec

-----------------------------------------------------------------------------
(* The AcceptIoContexts bound the counter too *)

\* An AcceptIoContext is in flight or with one worker, never both.
AcceptHeld ==
  /\ \A w \in Workers : pc[w] \in HoldsAccept => io[w] \notin accepting
  /\ \A v, w \in Workers :
       pc[v] \in HoldsAccept /\ pc[w] \in HoldsAccept /\ io[v] = io[w] => v = w

\* AcceptBound made inductive: the increments still to come are counted too.
AcceptCountInv ==
  connCnt + Cardinality(WorkersAt({"acc_inc"}))
    <= MaxConn + Cardinality(AcceptIos) - 1

\* A step in which a worker takes or gives back no AcceptIoContext.
LEMMA HeldFrame ==
  ASSUME TypeOK, AcceptHeld, NEW w \in Workers, NEW l, Goto(w, l),
         pc[w] \in HoldsAccept \/ l \notin HoldsAccept,
         UNCHANGED <<io, accepting>>
  PROVE  AcceptHeld'
<1>1. \A v \in Workers : pc'[v] \in HoldsAccept => pc[v] \in HoldsAccept
  BY DEF Goto, TypeOK, WorkerType
<1> QED BY <1>1 DEF AcceptHeld

\* A step in which a worker gives its AcceptIoContext back to postAccept.
LEMMA HeldPost ==
  ASSUME TypeOK, AcceptHeld, NEW w \in Workers, NEW l, Goto(w, l),
         pc[w] \in HoldsAccept, l \notin HoldsAccept,
         PostAccept(w), io' = io
  PROVE  AcceptHeld'
<1>1. \A v \in Workers : pc'[v] \in HoldsAccept => pc[v] \in HoldsAccept /\ v # w
  BY DEF Goto, TypeOK, WorkerType
<1>2. accepting' \subseteq accepting \cup {io[w]}
  BY DEF PostAccept
<1> QED BY <1>1, <1>2 DEF AcceptHeld

\* No AcceptIoContext is held by two workers, so no more workers than there are
\* of them are about to count a client.
LEMMA HeldCount ==
  TypeOK /\ AcceptHeld =>
    Cardinality(WorkersAt({"acc_inc"})) <= Cardinality(AcceptIos)
<1> SUFFICES ASSUME TypeOK, AcceptHeld
             PROVE  Cardinality(WorkersAt({"acc_inc"})) <= Cardinality(AcceptIos)
  OBVIOUS
<1> DEFINE W == WorkersAt({"acc_inc"})
           f == [v \in W |-> io[v]]
<1>1. f \in [W -> AcceptIos]
  BY Labels DEF WorkersAt, TypeOK, WorkerType
<1>2. \A u, v \in W : f[u] = f[v] => u = v
  BY Labels DEF WorkersAt, AcceptHeld
<1>3. f \in Injection(W, AcceptIos)
  BY <1>1, <1>2 DEF Injection, IsInjective
<1> HIDE DEF W, f
<1>4. Cardinality(W) <= Cardinality(AcceptIos)
  BY <1>3, ConstAssumption, FS_Injection
<1> QED BY <1>4 DEF W

\* The steps of IocpServer keep an AcceptIoContext with one holder.
LEMMA HeldShared ==
  ASSUME TypeOK, AcceptHeld, NEW w \in Workers, Dequeue(w) \/ Handle(w)
  PROVE  AcceptHeld'
<1> USE DEF At
<1>1. ASSUME NEW a \in AcceptIos, NEW s \in Socks, AcceptDone(w, a, s)
      PROVE  AcceptHeld'
  <2>1. /\ a \in accepting /\ accepting' = accepting \ {a}
        /\ io' = [io EXCEPT ![w] = a] /\ Goto(w, "acc_check")
    BY <1>1 DEF AcceptDone
  <2>2. io'[w] = a /\ \A v \in Workers : v # w => io'[v] = io[v]
    BY <2>1 DEF TypeOK, WorkerType
  <2>3. \A v \in Workers : v # w => pc'[v] = pc[v]
    BY <2>1 DEF Goto, TypeOK, WorkerType
  <2> QED BY <2>1, <2>2, <2>3 DEF AcceptHeld
<1>2. CASE ClientPacket(w)
  <2>1. /\ \E l \in {"notify", "hsend", "close"} : Goto(w, l)
        /\ UNCHANGED <<io, accepting>>
    BY <1>2 DEF ClientPacket, RecvDone, SendDone, IoClosed, CallClose
  <2> QED BY <2>1, Labels, HeldFrame
<1>3. CASE AcceptCheck(w)
  <2>1. pc[w] \in HoldsAccept /\ io' = io
    BY <1>3, Labels DEF AcceptCheck
  <2>2. CASE PostAccept(w) /\ Goto(w, "idle")
    BY <2>1, <2>2, Labels, HeldPost
  <2>3. CASE accepting' = accepting /\ Goto(w, "acc_inc")
    BY <2>1, <2>3, HeldFrame
  <2> QED BY <1>3, <2>2, <2>3 DEF AcceptCheck
<1>4. CASE AcceptCount(w) \/ \E c \in Contexts : AcceptAlloc(w, c)
  <2>1. /\ pc[w] \in HoldsAccept /\ UNCHANGED <<io, accepting>>
        /\ \E l \in {"idle", "acc_alloc", "acc_post"} : Goto(w, l)
    BY <1>4, Labels DEF AcceptCount, AcceptAlloc
  <2> QED BY <2>1, HeldFrame
<1>5. CASE AcceptPost(w)
  <2>1. pc[w] \in HoldsAccept /\ io' = io /\ PostAccept(w) /\ Goto(w, "acc_add")
    BY <1>5, Labels DEF AcceptPost
  <2> QED BY <2>1, Labels, HeldPost
<1>6. CASE \/ AcceptAdd(w) \/ PostRecv(w) \/ HandleSend(w) \/ CloseTake(w)
           \/ CloseCancel(w) \/ CloseCount(w) \/ Release(w) \/ RemoveClient(w)
           \/ Unlock(w)
  <2>1. UNCHANGED <<io, accepting>>
    BY <1>6 DEF AcceptAdd, PostRecv, HandleSend, SendNext, SendQueued, CloseTake,
                CloseCancel, CloseCount, Release, RemoveClient, Unlock
  <2>2. \E l \in {"idle", "post_recv", "close", "release", "cancel", "uncount",
                 "remove", "sent", "unlock"} : Goto(w, l)
    BY <1>6, ReturnGoto
    DEF AcceptAdd, PostRecv, HandleSend, SendNext, SendQueued, PostSend,
        CallClose, CloseTake, CloseCancel, CloseCount, RemoveClient
  <2> QED BY <2>1, <2>2, Labels, HeldFrame
<1>7. CASE Dequeue(w)
  BY <1>1, <1>2, <1>7 DEF Dequeue
<1>8. CASE Handle(w)
  BY <1>3, <1>4, <1>5, <1>6, <1>8 DEF Handle, HandleAccept, CloseClient
<1> QED BY <1>7, <1>8

\* They keep the bound: at the test of the limit, at most |AcceptIos| - 1 other
\* workers can be between the test and the increment.
LEMMA AcceptCountShared ==
  ASSUME TypeOK, AcceptHeld, AcceptHeld', TypeOK', AcceptCountInv,
         NEW w \in Workers, Dequeue(w) \/ Handle(w)
  PROVE  AcceptCountInv'
<1> DEFINE N == Cardinality(WorkersAt({"acc_inc"}))
           M == MaxConn + Cardinality(AcceptIos) - 1
<1> USE DEF At
<1>0. /\ connCnt \in Int /\ connCnt + N <= M /\ MaxConn \in Nat
      /\ Cardinality(AcceptIos) \in Nat /\ M \in Int
  BY ConstAssumption, FS_CardinalityType DEF TypeOK, PoolType, AcceptCountInv
<1>1. CASE AcceptCheck(w) /\ Goto(w, "acc_inc") /\ connCnt < MaxConn
  <2>1. connCnt' = connCnt
    BY <1>1 DEF AcceptCheck
  <2>2. Cardinality(WorkersAt({"acc_inc"})') <= Cardinality(AcceptIos)
    <3>1. (TypeOK /\ AcceptHeld =>
             Cardinality(WorkersAt({"acc_inc"})) <= Cardinality(AcceptIos))'
      BY HeldCount, PTL
    <3> QED BY <3>1
  <2>3. N' \in Nat
    BY <1>1, CardJump
  <2> HIDE DEF N
  <2> QED BY <1>0, <1>1, <2>1, <2>2, <2>3 DEF AcceptCountInv, N
<1>2. CASE AcceptCount(w)
  <2>1. /\ pc[w] = "acc_inc" /\ Goto(w, "acc_alloc") /\ connCnt' = connCnt + 1
    BY <1>2 DEF AcceptCount
  <2>2. N' = N - 1 /\ N \in Nat
    BY <2>1, CardJump
  <2> HIDE DEF N, M
  <2>3. connCnt' + N' <= M
    BY <1>0, <2>1, <2>2
  <2> QED BY <2>3 DEF AcceptCountInv, N, M
<1>3. CASE CloseCount(w)
  <2>1. /\ pc[w] = "uncount" /\ Goto(w, "release") /\ connCnt' = connCnt - 1
    BY <1>3 DEF CloseCount
  <2>2. N' = N /\ N \in Nat
    BY <2>1, CardJump
  <2> HIDE DEF N, M
  <2>3. connCnt' + N' <= M
    BY <1>0, <2>1, <2>2
  <2> QED BY <2>3 DEF AcceptCountInv, N, M
<1>4. ASSUME NEW l, Goto(w, l), l # "acc_inc", pc[w] # "acc_inc", connCnt' = connCnt
      PROVE  AcceptCountInv'
  <2>1. WorkersAt({"acc_inc"})' = WorkersAt({"acc_inc"})
    BY <1>4, CardJump
  <2> QED BY <1>4, <2>1 DEF AcceptCountInv
<1>5. CASE Dequeue(w)
  <2>1. /\ \E l \in {"acc_check", "notify", "hsend", "close"} : Goto(w, l)
        /\ pc[w] = "idle" /\ connCnt' = connCnt
    BY <1>5 DEF Dequeue, AcceptDone, ClientPacket, RecvDone, SendDone, IoClosed,
                CallClose
  <2> QED BY <2>1, <1>4
<1>6. CASE AcceptCheck(w) /\ Goto(w, "idle")
  BY <1>4, <1>6 DEF AcceptCheck
<1>7. CASE \/ \E c \in Contexts : AcceptAlloc(w, c)
           \/ AcceptPost(w) \/ AcceptAdd(w) \/ PostRecv(w) \/ HandleSend(w)
           \/ CloseTake(w) \/ CloseCancel(w) \/ Release(w) \/ RemoveClient(w)
           \/ Unlock(w)
  <2>1. pc[w] # "acc_inc" /\ connCnt' = connCnt
    BY <1>7 DEF AcceptAlloc, AcceptPost, AcceptAdd, PostRecv, HandleSend,
                SendNext, SendQueued, CloseTake, CloseCancel, Release,
                RemoveClient, Unlock
  <2>2. \E l \in {"idle", "acc_post", "acc_add", "post_recv", "close", "release",
                 "cancel", "uncount", "remove", "sent", "unlock"} : Goto(w, l)
    BY <1>7, ReturnGoto
    DEF AcceptAlloc, AcceptPost, AcceptAdd, PostRecv, HandleSend, SendNext,
        SendQueued, PostSend, CallClose, CloseTake, CloseCancel, RemoveClient
  <2> QED BY <2>1, <2>2, <1>4
<1>8. CASE Handle(w)
  <2>1. AcceptCheck(w) => Goto(w, "idle") \/ (Goto(w, "acc_inc") /\ connCnt < MaxConn)
    BY DEF AcceptCheck
  <2> QED BY <1>1, <1>2, <1>3, <1>6, <1>7, <1>8, <2>1
          DEF Handle, HandleAccept, CloseClient
<1> QED BY <1>5, <1>8

\* The race past the limit is bounded by the AcceptIoContexts as well: the one
\* that completed is posted again only after its client was counted, so at most
\* POST_ACCEPT_CNT - 1 clients exceed the limit, however many workers there are.
THEOREM AcceptCorrect == Spec => []AcceptBound
<1> DEFINE Inv == AcceptHeld /\ AcceptCountInv
<1>1. Init => Inv
  <2> SUFFICES ASSUME Init PROVE Inv
    OBVIOUS
  <2>1. AcceptHeld
    BY Labels DEF Init, AcceptHeld
  <2>2. WorkersAt({"acc_inc"}) = {} /\ connCnt = 0
    BY DEF Init, WorkersAt
  <2>3. /\ Cardinality(WorkersAt({"acc_inc"})) = 0
        /\ Cardinality(AcceptIos) \in Nat /\ MaxConn \in Nat \ {0}
    BY <2>2, ConstAssumption, FS_EmptySet, FS_CardinalityType
  <2> QED BY <2>1, <2>2, <2>3 DEF AcceptCountInv
<1>2. TypeOK /\ TypeOK' /\ Inv /\ [Next]_vars => Inv'
  <2> SUFFICES ASSUME TypeOK, TypeOK', Inv, [Next]_vars PROVE Inv'
    OBVIOUS
  <2>1. ASSUME NEW w \in Workers, Dequeue(w) \/ Handle(w)
        PROVE  Inv'
    BY <2>1, HeldShared, AcceptCountShared
  <2>2. ASSUME NEW w \in Workers, Echo(w) \/ EchoDone(w)
        PROVE  Inv'
    <3>1. /\ \E l \in {"sent", "close", "post_recv"} : Goto(w, l)
          /\ pc[w] # "acc_inc" /\ UNCHANGED <<io, accepting, connCnt>>
      BY <2>2, SendGoto DEF Echo, EchoDone, At
    <3>2. AcceptHeld'
      BY <3>1, Labels, HeldFrame
    <3>3. WorkersAt({"acc_inc"})' = WorkersAt({"acc_inc"})
      BY <3>1, CardJump
    <3> QED BY <3>1, <3>2, <3>3 DEF AcceptCountInv
  <2>3. CASE HeapFault \/ UNCHANGED vars
    BY <2>3 DEF HeapFault, vars, workerVars, AcceptHeld, AcceptCountInv, WorkersAt
  <2> QED BY <2>1, <2>2, <2>3 DEF Next, Quiescent
<1>3. TypeOK /\ Inv => AcceptBound
  <2> SUFFICES ASSUME TypeOK, AcceptCountInv PROVE AcceptBound
    OBVIOUS
  <2>1. Cardinality(WorkersAt({"acc_inc"})) \in Nat
    BY ConstAssumption, FS_Subset, FS_CardinalityType DEF WorkersAt
  <2>2. Cardinality(AcceptIos) \in Nat /\ MaxConn \in Nat /\ connCnt \in Int
    BY ConstAssumption, FS_CardinalityType DEF TypeOK, PoolType
  <2> QED BY <2>1, <2>2 DEF AcceptCountInv, AcceptBound
<1> QED BY <1>1, <1>2, <1>3, TypeCorrect, PTL DEF Spec
=============================================================================
