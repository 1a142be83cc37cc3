----------------------------- MODULE IocpServer -----------------------------
(***************************************************************************)
(* The echo server of WinHttpServer/IocpServer.cpp: worker threads that    *)
(* dequeue completion packets, the pool of client contexts and its pending *)
(* I/O counters, and the connection limit.                                 *)
(*                                                                         *)
(* Every worker runs one handler at a time; pc names the next step of the  *)
(* handler.  A step reads and writes what one critical section or one      *)
(* interlocked operation of the code does.  The completion port itself is  *)
(* Windows: ops is the set of overlapped operations that were posted and   *)
(* whose packet no worker has dequeued yet, and the outcome of an          *)
(* operation is chosen when it is dequeued.                                *)
(***************************************************************************)
EXTENDS Integers, Sequences, FiniteSets

CONSTANTS
  Workers,    \* threads running IocpWorkerThread
  Contexts,   \* ClientContext objects that new can return
  Socks,      \* sockets of the clients that connect
  AcceptIos,  \* AcceptIoContext objects (POST_ACCEPT_CNT of them)
  MaxConn,    \* m_nMaxConnClientCnt
  MaxBytes,   \* bound: bytes one client sends
  Faults,     \* system calls that may fail: see FaultKinds
  None        \* INVALID_SOCKET, and "nobody"

FaultKinds == {"associate", "accept", "recv", "send", "cancel"}

ASSUME ConstAssumption ==
  /\ IsFiniteSet(Workers) /\ Workers # {}
  /\ IsFiniteSet(Contexts) /\ IsFiniteSet(Socks) /\ IsFiniteSet(AcceptIos)
  /\ MaxConn \in Nat \ {0}
  /\ MaxBytes \in Nat
  /\ Faults \subseteq FaultKinds
  /\ None \notin Workers \cup Contexts \cup Socks \cup AcceptIos

VARIABLES
  pc, ctx, sk, io, ret, nb,           \* per worker: the handler it runs
  sock, cnt, inBuf, outBuf, outQ,     \* per context: its fields
  lock,                               \* per context: owner of m_csLock
  connected, free, born, connCnt,     \* the pool and m_nConnClientCnt
  ops, accepting,                     \* operations in flight
  seen, open, got, wire,              \* the network
  heap                                \* state of the Buffer memory

workerVars == <<pc, ctx, sk, io, ret, nb>>
bufVars    == <<inBuf, outBuf, outQ>>
poolVars   == <<connected, free, born>>
netVars    == <<seen, open, got, wire>>
vars == <<workerVars, sock, cnt, bufVars, lock, poolVars, connCnt, ops,
          accepting, netVars, heap>>

-----------------------------------------------------------------------------
(* Values *)

Pcs == {"idle", "acc_check", "acc_inc", "acc_alloc", "acc_post", "acc_add",
        "post_recv", "notify", "sent", "hsend",
        "close", "cancel", "uncount", "release", "remove", "unlock"}

\* Steps at which a worker holds a client context.
UsesContext == Pcs \ {"idle", "acc_check", "acc_inc", "acc_alloc"}

\* Steps at which it holds an AcceptIoContext, and its socket.
HoldsAccept == {"acc_check", "acc_inc", "acc_alloc", "acc_post"}

\* Where a handler goes on after releaseClientContext: "drained" is the test of
\* m_outBuf in handleSend, line 652.
Returns == {"idle", "sent", "post_recv", "drained"}

\* A byte is named by the socket it was received from and its position; what
\* is read from released memory comes from no socket.
Byte == (Socks \cup {None}) \X Nat
Garbage == <<None, 0>>

Op == [type : {"recv", "send"}, ctx : Contexts, sock : Socks, data : Seq(Byte)]

Init ==
  /\ pc = [w \in Workers |-> "idle"]
  /\ ctx = [w \in Workers |-> None]
  /\ sk = [w \in Workers |-> None]
  /\ io = [w \in Workers |-> None]
  /\ ret = [w \in Workers |-> "idle"]
  /\ nb = [w \in Workers |-> 0]
  /\ sock = [c \in Contexts |-> None]
  /\ cnt = [c \in Contexts |-> 0]
  /\ inBuf = [c \in Contexts |-> <<>>]
  /\ outBuf = [c \in Contexts |-> <<>>]
  /\ outQ = [c \in Contexts |-> <<>>]
  /\ lock = [c \in Contexts |-> None]
  /\ connected = [c \in Contexts |-> 0]
  /\ free = [c \in Contexts |-> 0]
  /\ born = {}
  /\ connCnt = 0
  /\ ops = {}
  /\ accepting = AcceptIos
  /\ seen = {}
  /\ open = {}
  /\ got = [s \in Socks |-> 0]
  /\ wire = [s \in Socks |-> <<>>]
  /\ heap = "ok"

-----------------------------------------------------------------------------
(* Pieces of the handlers *)

At(w, label) == heap # "fault" /\ pc[w] = label

Goto(w, label) == pc' = [pc EXCEPT ![w] = label]

\* LockGuard lk(&pConnClient->m_csLock): the critical section is recursive.
MayLock(w, c) == lock[c] \in {None, w}

\* The worker calls CloseClient, then releaseClientContext, then goes on at k.
CallClose(w, k) ==
  /\ Goto(w, "close")
  /\ ret' = [ret EXCEPT ![w] = k]

\* releaseClientContext returns.  A send or a handleSend that called it still
\* has its LockGuard.
Return(w) ==
  Goto(w, IF lock[ctx[w]] = w \/ ret[w] = "drained" THEN "unlock" ELSE ret[w])

\* postSend on the bytes p of m_outBuf, under m_csLock.  On failure the
\* caller closes the client while it still holds the lock; a closed socket
\* (PostResultInvalidSocket) is not handled by any caller.
PostSend(w, p, k) ==
  LET c == ctx[w] IN
  \/ /\ sock[c] = None
     /\ Goto(w, k)
     /\ UNCHANGED <<ops, ret, lock>>
  \/ /\ sock[c] # None
     /\ ops' = ops \cup
          {[type |-> "send", ctx |-> c, sock |-> sock[c], data |-> p]}
     /\ Goto(w, k)
     /\ UNCHANGED <<ret, lock>>
  \/ /\ sock[c] # None
     /\ "send" \in Faults \/ heap = "corrupt"
     /\ CallClose(w, k)
     /\ lock' = [lock EXCEPT ![c] = w]
     /\ UNCHANGED ops

\* Mutant: send() without enterIoLoop.
Send_NoEnter(w, p, k) ==
  LET c == ctx[w] IN
  /\ MayLock(w, c)
  /\ \/ /\ outBuf[c] = <<>>
        /\ outBuf' = [outBuf EXCEPT ![c] = p]
        /\ PostSend(w, p, k)
        /\ UNCHANGED outQ
     \/ /\ outBuf[c] # <<>>
        /\ outQ' = [outQ EXCEPT ![c] = Append(@, p)]
        /\ Goto(w, k)
        /\ UNCHANGED <<outBuf, ops, ret, lock>>
  /\ UNCHANGED cnt

\* Mutant: send() posts at once although a send is in flight.
Send_Overwrites(w, p, k) ==
  LET c == ctx[w] IN
  /\ MayLock(w, c)
  /\ cnt' = [cnt EXCEPT ![c] = @ + 1]
  /\ outBuf' = [outBuf EXCEPT ![c] = p]
  /\ PostSend(w, p, k)
  /\ UNCHANGED outQ

\* send(): the first bytes are posted at once, later ones wait in
\* m_outBufQueue for handleSend.
Send(w, p, k) ==
  LET c == ctx[w] IN
  /\ MayLock(w, c)
  /\ \/ /\ outBuf[c] = <<>>
        /\ cnt' = [cnt EXCEPT ![c] = @ + 1]
        /\ outBuf' = [outBuf EXCEPT ![c] = p]
        /\ PostSend(w, p, k)
        /\ UNCHANGED outQ
     \/ /\ outBuf[c] # <<>>
        /\ outQ' = [outQ EXCEPT ![c] = Append(@, p)]
        /\ Goto(w, k)
        /\ UNCHANGED <<cnt, outBuf, ops, ret, lock>>

\* postAccept: a failed AcceptEx loses the AcceptIoContext, since no caller
\* looks at the result.
PostAccept(w) ==
  \/ accepting' = accepting \cup {io[w]}
  \/ "accept" \in Faults /\ UNCHANGED accepting

-----------------------------------------------------------------------------
(* IocpWorkerThread: a packet is dequeued *)

\* AcceptEx completed: the packet carries the AcceptIoContext a, now
\* connected to the client socket s.
AcceptDone(w, a, s) ==
  /\ At(w, "idle")
  /\ a \in accepting /\ s \notin seen
  /\ accepting' = accepting \ {a}
  /\ seen' = seen \cup {s}
  /\ open' = open \cup {s}
  /\ io' = [io EXCEPT ![w] = a]
  /\ sk' = [sk EXCEPT ![w] = s]
  /\ Goto(w, "acc_check")
  /\ UNCHANGED <<ctx, ret, nb, sock, cnt, bufVars, lock, poolVars, connCnt,
                 ops, got, wire, heap>>

\* WSARecv completed with n > 0 bytes: handleRecv appends them to m_inBuf.
RecvDone(w, o, n) ==
  /\ At(w, "idle")
  /\ o \in ops /\ o.type = "recv"
  /\ n \in 1 .. MaxBytes - got[o.sock]
  /\ ops' = ops \ {o}
  /\ ctx' = [ctx EXCEPT ![w] = o.ctx]
  /\ got' = [got EXCEPT ![o.sock] = @ + n]
  /\ inBuf' = [inBuf EXCEPT ![o.ctx] =
                 @ \o [i \in 1 .. n |-> <<o.sock, got[o.sock] + i>>]]
  /\ Goto(w, "notify")
  /\ UNCHANGED <<sk, io, ret, nb, sock, cnt, outBuf, outQ, lock, poolVars,
                 connCnt, accepting, seen, open, wire, heap>>

\* WSASend completed after the peer was sent n > 0 bytes.
SendDone(w, o, n) ==
  /\ At(w, "idle")
  /\ o \in ops /\ o.type = "send"
  /\ n \in 1 .. Len(o.data)
  /\ ops' = ops \ {o}
  /\ ctx' = [ctx EXCEPT ![w] = o.ctx]
  /\ nb' = [nb EXCEPT ![w] = n]
  /\ wire' = [wire EXCEPT ![o.sock] = @ \o SubSeq(o.data, 1, n)]
  /\ Goto(w, "hsend")
  /\ UNCHANGED <<sk, io, ret, sock, cnt, bufVars, lock, poolVars, connCnt,
                 accepting, seen, open, got, heap>>

\* The packet reports an error, or no bytes (the peer closed, or the send was
\* empty): handleClose.
IoClosed(w, o) ==
  /\ At(w, "idle")
  /\ o \in ops
  /\ ops' = ops \ {o}
  /\ ctx' = [ctx EXCEPT ![w] = o.ctx]
  /\ CallClose(w, "idle")
  /\ UNCHANGED <<sk, io, nb, sock, cnt, bufVars, lock, poolVars, connCnt,
                 accepting, netVars, heap>>

-----------------------------------------------------------------------------
(* handleAccept *)

\* Mutant: the AcceptIoContext is posted again before its client is counted.
AcceptCheck_PostsFirst(w) ==
  /\ At(w, "acc_check")
  /\ \/ connCnt >= MaxConn /\ open' = open \ {sk[w]} /\ Goto(w, "idle")
     \/ connCnt < MaxConn /\ Goto(w, "acc_inc") /\ UNCHANGED open
  /\ PostAccept(w)
  /\ UNCHANGED <<ctx, sk, io, ret, nb, sock, cnt, bufVars, lock, poolVars,
                 connCnt, ops, seen, got, wire, heap>>

\* Mutant: the socket beyond the limit is not closed.
AcceptCheck_NoClose(w) ==
  /\ At(w, "acc_check")
  /\ \/ connCnt >= MaxConn /\ PostAccept(w) /\ Goto(w, "idle")
     \/ connCnt < MaxConn /\ Goto(w, "acc_inc") /\ UNCHANGED accepting
  /\ UNCHANGED <<ctx, sk, io, ret, nb, sock, cnt, bufVars, lock, poolVars,
                 connCnt, ops, netVars, heap>>

\* Mutant: the AcceptIoContext is not posted again at the limit.
AcceptCheck_NoRepost(w) ==
  /\ At(w, "acc_check")
  /\ \/ /\ connCnt >= MaxConn
        /\ open' = open \ {sk[w]}
        /\ Goto(w, "idle")
     \/ connCnt < MaxConn /\ Goto(w, "acc_inc") /\ UNCHANGED open
  /\ UNCHANGED <<ctx, sk, io, ret, nb, sock, cnt, bufVars, lock, poolVars,
                 connCnt, ops, accepting, seen, got, wire, heap>>

\* The connection limit is tested; a socket beyond it is closed and the
\* AcceptIoContext posted again.
AcceptCheck(w) ==
  /\ At(w, "acc_check")
  /\ \/ /\ connCnt >= MaxConn
        /\ open' = open \ {sk[w]}
        /\ PostAccept(w)
        /\ Goto(w, "idle")
     \/ /\ connCnt < MaxConn
        /\ Goto(w, "acc_inc")
        /\ UNCHANGED <<open, accepting>>
  /\ UNCHANGED <<ctx, sk, io, ret, nb, sock, cnt, bufVars, lock, poolVars,
                 connCnt, ops, seen, got, wire, heap>>

\* InterlockedIncrement(&m_nConnClientCnt)
AcceptCount(w) ==
  /\ At(w, "acc_inc")
  /\ connCnt' = connCnt + 1
  /\ Goto(w, "acc_alloc")
  /\ UNCHANGED <<ctx, sk, io, ret, nb, sock, cnt, bufVars, lock, poolVars, ops,
                 accepting, netVars, heap>>

\* allocateClientContext: a context of m_freeClientList, or a new one when the
\* list is empty.  reset() clears none of the buffers and not the counter.
Allocate(w, c) ==
  /\ \/ /\ free[c] > 0
        /\ free' = [free EXCEPT ![c] = @ - 1]
        /\ UNCHANGED born
     \/ /\ \A d \in Contexts : free[d] = 0
        /\ c \notin born
        /\ born' = born \cup {c}
        /\ UNCHANGED free
  /\ sock' = [sock EXCEPT ![c] = sk[w]]
  /\ ctx' = [ctx EXCEPT ![w] = c]

\* allocateClientContext and associateWithCompletionPort.  When the latter
\* fails the handler returns at once.
AcceptAlloc(w, c) ==
  /\ At(w, "acc_alloc")
  /\ Allocate(w, c)
  /\ \/ Goto(w, "acc_post")
     \/ "associate" \in Faults /\ Goto(w, "idle")
  /\ UNCHANGED <<sk, io, ret, nb, cnt, bufVars, lock, connected, connCnt, ops,
                 accepting, netVars, heap>>

\* Mutant: no enterIoLoop for the first recv.
AcceptPost_NoEnter(w) ==
  /\ At(w, "acc_post")
  /\ PostAccept(w)
  /\ Goto(w, "acc_add")
  /\ UNCHANGED <<ctx, sk, io, ret, nb, sock, cnt, bufVars, lock, poolVars,
                 connCnt, ops, netVars, heap>>

\* enterIoLoop, then postAccept with the same AcceptIoContext.
AcceptPost(w) ==
  /\ At(w, "acc_post")
  /\ cnt' = [cnt EXCEPT ![ctx[w]] = @ + 1]
  /\ PostAccept(w)
  /\ Goto(w, "acc_add")
  /\ UNCHANGED <<ctx, sk, io, ret, nb, sock, bufVars, lock, poolVars, connCnt,
                 ops, netVars, heap>>

\* addClient
AcceptAdd(w) ==
  /\ At(w, "acc_add")
  /\ connected' = [connected EXCEPT ![ctx[w]] = @ + 1]
  /\ Goto(w, "post_recv")
  /\ UNCHANGED <<ctx, sk, io, ret, nb, sock, cnt, bufVars, lock, free, born,
                 connCnt, ops, accepting, netVars, heap>>

-----------------------------------------------------------------------------
(* handleRecv *)

\* notifyPackageReceived of the echo server: echo() sends m_inBuf.
Echo(w) ==
  /\ At(w, "notify")
  /\ Send(w, inBuf[ctx[w]], "sent")
  /\ UNCHANGED <<ctx, sk, io, nb, sock, inBuf, poolVars, connCnt, accepting,
                 netVars, heap>>

\* ... and empties m_inBuf.
EchoDone(w) ==
  /\ At(w, "sent")
  /\ inBuf' = [inBuf EXCEPT ![ctx[w]] = <<>>]
  /\ Goto(w, "post_recv")
  /\ UNCHANGED <<ctx, sk, io, ret, nb, sock, cnt, outBuf, outQ, lock, poolVars,
                 connCnt, ops, accepting, netVars, heap>>

\* Mutant: postRecv does not test for INVALID_SOCKET.
PostRecv_NoTest(w) ==
  LET c == ctx[w] IN
  /\ At(w, "post_recv")
  /\ MayLock(w, c)
  /\ ops' = ops \cup
       {[type |-> "recv", ctx |-> c, sock |-> sock[c], data |-> <<>>]}
  /\ Goto(w, "idle")
  /\ UNCHANGED <<ctx, sk, io, ret, nb, sock, cnt, bufVars, lock, poolVars,
                 connCnt, accepting, netVars, heap>>

\* postRecv and the test of its result, at the end of handleAccept and of
\* handleRecv.
PostRecv(w) ==
  LET c == ctx[w] IN
  /\ At(w, "post_recv")
  /\ MayLock(w, c)
  /\ \/ /\ sock[c] # None
        /\ ops' = ops \cup
             {[type |-> "recv", ctx |-> c, sock |-> sock[c], data |-> <<>>]}
        /\ Goto(w, "idle")
        /\ UNCHANGED ret
     \/ /\ sock[c] = None \/ "recv" \in Faults
        /\ CallClose(w, "idle")
        /\ UNCHANGED ops
  /\ UNCHANGED <<ctx, sk, io, nb, sock, cnt, bufVars, lock, poolVars, connCnt,
                 accepting, netVars, heap>>

-----------------------------------------------------------------------------
(* handleSend *)

\* Mutant: the bytes sent are not removed before the rest is posted.
SendNext_KeepsBytes(w) ==
  LET c == ctx[w]
      rest == SubSeq(outBuf[c], nb[w] + 1, Len(outBuf[c])) IN
  /\ At(w, "hsend")
  /\ MayLock(w, c)
  /\ rest # <<>> \/ outQ[c] = <<>>
  /\ \/ /\ rest # <<>>
        /\ PostSend(w, outBuf[c], "idle")
        /\ UNCHANGED outBuf
     \/ /\ rest = <<>>
        /\ outBuf' = [outBuf EXCEPT ![c] = <<>>]
        /\ Goto(w, "release")
        /\ ret' = [ret EXCEPT ![w] = "drained"]
        /\ lock' = [lock EXCEPT ![c] = w]
        /\ UNCHANGED ops
  /\ UNCHANGED <<ctx, sk, io, nb, sock, cnt, inBuf, outQ, poolVars, connCnt,
                 accepting, netVars, heap>>

\* Bytes were sent and some are left, or m_outBuf is empty and the queue
\* too: post the rest, or give up the counter of the send.
SendNext(w) ==
  LET c == ctx[w]
      rest == SubSeq(outBuf[c], nb[w] + 1, Len(outBuf[c])) IN
  /\ At(w, "hsend")
  /\ MayLock(w, c)
  /\ rest # <<>> \/ outQ[c] = <<>>
  /\ outBuf' = [outBuf EXCEPT ![c] = rest]
  /\ \/ /\ rest # <<>>
        /\ PostSend(w, rest, "idle")
     \/ /\ rest = <<>>
        /\ Goto(w, "release")
        /\ ret' = [ret EXCEPT ![w] = "drained"]
        /\ lock' = [lock EXCEPT ![c] = w]
        /\ UNCHANGED ops
  /\ UNCHANGED <<ctx, sk, io, nb, sock, cnt, inBuf, outQ, poolVars, connCnt,
                 accepting, netVars, heap>>

\* m_outBuf is empty and the queue is not.  The queued Buffer is a copy of the
\* members of send()'s local one, whose destructor released the memory: the
\* read faults, or yields what that memory holds now, and pop() releases it a
\* second time.  An empty Buffer has no memory: copying it is harmless, but
\* then nothing is posted and the counter of the send is not given up.
SendQueued(w) ==
  LET c == ctx[w]
      read == [i \in 1 .. Len(Head(outQ[c])) |-> Garbage] IN
  /\ At(w, "hsend")
  /\ MayLock(w, c)
  /\ nb[w] >= Len(outBuf[c]) /\ outQ[c] # <<>>
  /\ outQ' = [outQ EXCEPT ![c] = Tail(@)]
  /\ outBuf' = [outBuf EXCEPT ![c] = read]
  /\ \/ /\ read # <<>>
        /\ heap' = "corrupt"
        /\ PostSend(w, read, "idle")
     \/ /\ read # <<>>
        /\ heap' = "fault"
        /\ Goto(w, "idle")
        /\ UNCHANGED <<ops, ret, lock>>
     \/ /\ read = <<>>
        /\ Goto(w, "idle")
        /\ UNCHANGED <<ops, ret, lock, heap>>
  /\ UNCHANGED <<ctx, sk, io, nb, sock, cnt, inBuf, poolVars, connCnt,
                 accepting, netVars>>

\* Any later use of a Buffer may touch memory released twice.
HeapFault ==
  /\ heap = "corrupt"
  /\ heap' = "fault"
  /\ UNCHANGED <<workerVars, sock, cnt, bufVars, lock, poolVars, connCnt, ops,
                 accepting, netVars>>

-----------------------------------------------------------------------------
(* CloseClient and releaseClientContext *)

\* Mutant: the context keeps the socket that is being closed.
CloseTake_KeepsSocket(w) ==
  LET c == ctx[w] IN
  /\ At(w, "close")
  /\ MayLock(w, c)
  /\ sk' = [sk EXCEPT ![w] = sock[c]]
  /\ Goto(w, IF sock[c] = None THEN "release" ELSE "cancel")
  /\ UNCHANGED <<ctx, io, ret, nb, sock, cnt, bufVars, lock, poolVars, connCnt,
                 ops, accepting, netVars, heap>>

\* CloseClient takes the socket out of the context, under m_csLock.
CloseTake(w) ==
  LET c == ctx[w] IN
  /\ At(w, "close")
  /\ MayLock(w, c)
  /\ sk' = [sk EXCEPT ![w] = sock[c]]
  /\ sock' = [sock EXCEPT ![c] = None]
  /\ Goto(w, IF sock[c] = None THEN "release" ELSE "cancel")
  /\ UNCHANGED <<ctx, io, ret, nb, cnt, bufVars, lock, poolVars, connCnt, ops,
                 accepting, netVars, heap>>

\* setLinger, CancelIoEx and closesocket.  When one of the first two fails,
\* CloseClient returns with the socket open and still counted.
CloseCancel(w) ==
  /\ At(w, "cancel")
  /\ \/ /\ open' = open \ {sk[w]}
        /\ Goto(w, "uncount")
     \/ /\ "cancel" \in Faults
        /\ Goto(w, "release")
        /\ UNCHANGED open
  /\ UNCHANGED <<ctx, sk, io, ret, nb, sock, cnt, bufVars, lock, poolVars,
                 connCnt, ops, accepting, seen, got, wire, heap>>

\* InterlockedDecrement(&m_nConnClientCnt)
CloseCount(w) ==
  /\ At(w, "uncount")
  /\ connCnt' = connCnt - 1
  /\ Goto(w, "release")
  /\ UNCHANGED <<ctx, sk, io, ret, nb, sock, cnt, bufVars, lock, poolVars, ops,
                 accepting, netVars, heap>>

\* Mutant: a context with one pending operation is released too.
Release_AtOne(w) ==
  LET c == ctx[w] IN
  /\ At(w, "release")
  /\ cnt' = [cnt EXCEPT ![c] = @ - 1]
  /\ \/ cnt[c] - 1 <= 1 /\ Goto(w, "remove")
     \/ cnt[c] - 1 > 1 /\ Return(w)
  /\ UNCHANGED <<ctx, sk, io, ret, nb, sock, bufVars, lock, poolVars, connCnt, ops,
                 accepting, netVars, heap>>

\* releaseClientContext: exitIoLoop, and removeClient when nothing is pending.
Release(w) ==
  LET c == ctx[w] IN
  /\ At(w, "release")
  /\ cnt' = [cnt EXCEPT ![c] = @ - 1]
  /\ \/ cnt[c] - 1 <= 0 /\ Goto(w, "remove")
     \/ cnt[c] - 1 > 0 /\ Return(w)
  /\ UNCHANGED <<ctx, sk, io, ret, nb, sock, bufVars, lock, poolVars, connCnt, ops,
                 accepting, netVars, heap>>

\* Mutant: the context stays in m_connectedClientList.
RemoveClient_Keeps(w) ==
  LET c == ctx[w] IN
  /\ At(w, "remove")
  /\ \/ connected[c] > 0 /\ free' = [free EXCEPT ![c] = @ + 1]
     \/ connected[c] = 0 /\ UNCHANGED free
  /\ Return(w)
  /\ UNCHANGED <<ctx, sk, io, ret, nb, sock, cnt, bufVars, lock, connected, born,
                 connCnt, ops, accepting, netVars, heap>>

\* Mutant: the context is not looked up before it is put on the free list.
RemoveClient_NoFind(w) ==
  LET c == ctx[w] IN
  /\ At(w, "remove")
  /\ connected' = [connected EXCEPT ![c] = 0]
  /\ free' = [free EXCEPT ![c] = @ + 1]
  /\ Return(w)
  /\ UNCHANGED <<ctx, sk, io, ret, nb, sock, cnt, bufVars, lock, born, connCnt,
                 ops, accepting, netVars, heap>>

\* removeClient: list::remove drops every occurrence, one goes to the free
\* list.
RemoveClient(w) ==
  LET c == ctx[w] IN
  /\ At(w, "remove")
  /\ \/ /\ connected[c] > 0
        /\ connected' = [connected EXCEPT ![c] = 0]
        /\ free' = [free EXCEPT ![c] = @ + 1]
     \/ /\ connected[c] = 0
        /\ UNCHANGED <<connected, free>>
  /\ Return(w)
  /\ UNCHANGED <<ctx, sk, io, ret, nb, sock, cnt, bufVars, lock, born, connCnt,
                 ops, accepting, netVars, heap>>

\* Mutant: the LockGuard is not destroyed.
Unlock_KeepsLock(w) ==
  /\ At(w, "unlock")
  /\ Goto(w, IF ret[w] = "drained" THEN "idle" ELSE ret[w])
  /\ UNCHANGED <<ctx, sk, io, ret, nb, sock, cnt, bufVars, lock, poolVars, connCnt,
                 ops, accepting, netVars, heap>>

\* The end of a send or a handleSend that released the context: the LockGuard is
\* destroyed, although the context may be on the free list or serve another
\* connection by now.  handleSend first looks for bytes in m_outBuf to post;
\* SendBufferStable says that there are none.
Unlock(w) ==
  /\ At(w, "unlock")
  /\ ret[w] = "drained" => outBuf[ctx[w]] = <<>>
  /\ lock' = [lock EXCEPT ![ctx[w]] = None]
  /\ Goto(w, IF ret[w] = "drained" THEN "idle" ELSE ret[w])
  /\ UNCHANGED <<ctx, sk, io, ret, nb, sock, cnt, bufVars, poolVars, connCnt, ops,
                 accepting, netVars, heap>>

-----------------------------------------------------------------------------
(* The specification *)

\* A packet whose key is a client context.
ClientPacket(w) ==
  \E o \in ops : \/ \E n \in 1 .. MaxBytes : RecvDone(w, o, n)
                 \/ \E n \in 1 .. Len(o.data) : SendDone(w, o, n)
                 \/ IoClosed(w, o)

Dequeue(w) ==
  \/ \E a \in AcceptIos, s \in Socks : AcceptDone(w, a, s)
  \/ ClientPacket(w)

HandleAccept(w) ==
  \/ AcceptCheck(w)
  \/ AcceptCount(w)
  \/ \E c \in Contexts : AcceptAlloc(w, c)
  \/ AcceptPost(w)
  \/ AcceptAdd(w)

HandleSend(w) == SendNext(w) \/ SendQueued(w)

CloseClient(w) ==
  \/ CloseTake(w)
  \/ CloseCancel(w)
  \/ CloseCount(w)
  \/ Release(w)
  \/ RemoveClient(w)
  \/ Unlock(w)

\* The handler steps that the echo and the HTTP server share.
Handle(w) == HandleAccept(w) \/ PostRecv(w) \/ HandleSend(w) \/ CloseClient(w)

\* The process died, or every worker waits for a packet and none can come.
Quiescent ==
  /\ \/ heap = "fault"
     \/ \A w \in Workers : pc[w] = "idle"
  /\ ops = {} \/ heap = "fault"
  /\ UNCHANGED vars

Next ==
  \/ \E w \in Workers : Dequeue(w) \/ Handle(w) \/ Echo(w) \/ EchoDone(w)
  \/ HeapFault
  \/ Quiescent

Spec == Init /\ [][Next]_vars

\* A thread that can take a step takes it.  Nothing makes a client send or a
\* packet arrive.
Fairness == \A w \in Workers : WF_vars(Handle(w) \/ Echo(w) \/ EchoDone(w))

FairSpec == Spec /\ Fairness

-----------------------------------------------------------------------------
(* Properties *)

WorkerType ==
  /\ pc \in [Workers -> Pcs]
  /\ ctx \in [Workers -> Contexts \cup {None}]
  /\ sk \in [Workers -> Socks \cup {None}]
  /\ io \in [Workers -> AcceptIos \cup {None}]
  /\ ret \in [Workers -> Returns]
  /\ nb \in [Workers -> Nat]
  /\ \A w \in Workers :
       /\ pc[w] \in UsesContext => ctx[w] \in Contexts
       /\ pc[w] \in HoldsAccept => io[w] \in AcceptIos /\ sk[w] \in Socks

ContextType ==
  /\ sock \in [Contexts -> Socks \cup {None}]
  /\ cnt \in [Contexts -> Int]
  /\ lock \in [Contexts -> Workers \cup {None}]
  /\ inBuf \in [Contexts -> Seq(Byte)]
  /\ outBuf \in [Contexts -> Seq(Byte)]
  /\ outQ \in [Contexts -> Seq(Seq(Byte))]

PoolType ==
  /\ connected \in [Contexts -> Nat]
  /\ free \in [Contexts -> Nat]
  /\ born \subseteq Contexts
  /\ connCnt \in Int

NetType ==
  /\ ops \subseteq Op
  /\ accepting \subseteq AcceptIos
  /\ seen \subseteq Socks
  /\ open \subseteq seen
  /\ got \in [Socks -> Nat]
  /\ wire \in [Socks -> Seq(Byte)]
  /\ heap \in {"ok", "corrupt", "fault"}

\* Every variable has its type: no handler runs without a context, and no
\* operation is posted on an invalid socket.
TypeOK == WorkerType /\ ContextType /\ PoolType /\ NetType

\* A worker between allocateClientContext and addClient: its context is on
\* neither list.
Accepting(w) == pc[w] \in {"acc_post", "acc_add"}

\* The lists of IocpServer.h:96-97 share no context and hold none twice, a
\* context that handleAccept has allocated but not yet added is on neither,
\* and no two handlers are given the same one.
PoolDiscipline ==
  /\ \A c \in Contexts : connected[c] + free[c] <= 1
  /\ \A w \in Workers : Accepting(w) =>
       /\ connected[ctx[w]] + free[ctx[w]] = 0
       /\ \A v \in Workers : Accepting(v) /\ ctx[v] = ctx[w] => v = w

\* PoolDiscipline made inductive: a context that new has not returned yet is
\* nowhere.
PoolInv ==
  /\ PoolDiscipline
  /\ \A c \in Contexts \ born : connected[c] + free[c] = 0
  /\ \A w \in Workers : Accepting(w) => ctx[w] \in born

\* A worker that will store its socket s in a context, or close it.
OwnsSocket(w) == pc[w] \in {"acc_check", "acc_inc", "acc_alloc", "cancel"}

\* Every client socket that is still to be closed is open and has one owner,
\* the worker that has it in a local variable or the context it is stored in:
\* no socket is closed twice, and none is closed under another handler.
OneOwner ==
  /\ \A w \in Workers : OwnsSocket(w) =>
       /\ sk[w] \in open
       /\ \A v \in Workers : OwnsSocket(v) /\ sk[v] = sk[w] => v = w
       /\ \A c \in Contexts : sock[c] # sk[w]
  /\ \A c \in Contexts : sock[c] # None =>
       /\ sock[c] \in open
       /\ \A d \in Contexts : sock[d] = sock[c] => d = c

WorkersAt(labels) == {w \in Workers : pc[w] \in labels}

\* m_nConnClientCnt counts the client sockets the process holds open, except
\* those not counted yet or closed and not yet uncounted.
ConnCountExact ==
  connCnt + Cardinality(WorkersAt({"acc_check", "acc_inc"}))
    = Cardinality(open) + Cardinality(WorkersAt({"uncount"}))

\* Each worker between the test of the limit and the increment can push the
\* counter one beyond it, and no more than that.
CountBound == connCnt <= MaxConn + Cardinality(Workers) - 1

\* CountBound made inductive: the increments still to come are counted too.
CountInv ==
  connCnt + Cardinality(WorkersAt({"acc_inc"}))
    <= MaxConn + Cardinality(Workers) - 1

\* Nor can more clients race past the test than there are AcceptIoContexts, each
\* of which is posted again only after its client was counted: with one of them
\* the maximum is respected.
AcceptBound == connCnt <= MaxConn + Cardinality(AcceptIos) - 1

\* Workers that have nothing left to do but to give up the lock of a context
\* that they released.
Leaving(w) == pc[w] = "unlock" /\ ret[w] \in {"idle", "drained"}

\* Workers inside a handler that uses context c.
Handlers(c) ==
  {w \in Workers : ctx[w] = c /\ pc[w] \in UsesContext /\ ~Leaving(w)}

\* A context goes back to the pool only when no operation on it is in flight,
\* no handler uses it, its socket is given up and no input is left for the next
\* connection (ClientContext.h:37, IocpServer.h:55).  Its lock is free or with a
\* worker that leaves: handleSend releases the context while it holds the lock.
NoEarlyRelease ==
  \A c \in Contexts : free[c] > 0 =>
    /\ \A o \in ops : o.ctx # c
    /\ Handlers(c) = {}
    /\ cnt[c] = 0
    /\ sock[c] = None
    /\ lock[c] # None => Leaving(lock[c]) /\ ctx[lock[c]] = c
    /\ inBuf[c] = <<>>

\* Counters of c that worker w still has to give back: one per handler, two
\* when a failed send is closed inside handleRecv.
Held(w, c) ==
  IF w \notin Handlers(c) \/ pc[w] = "acc_post" THEN 0
  ELSE IF ret[w] = "sent" /\ pc[w] \in {"close", "cancel", "uncount", "release"}
  THEN 2
  ELSE IF pc[w] = "remove" /\ ret[w] \in {"idle", "drained"} THEN 0 ELSE 1

\* m_nPendingIoCnt of a context is at least the number of operations in flight
\* and of handlers that will post or release one.
PendingCovers ==
  \A c \in Contexts :
    cnt[c] >= Cardinality({o \in ops : o.ctx = c})
                + Cardinality({w \in Workers : Held(w, c) >= 1})
                + Cardinality({w \in Workers : Held(w, c) = 2})

\* The key of a packet is the context, so a packet of an earlier connection
\* must never meet a later one on the same context; and m_recvIoCtx and
\* m_sendIoCtx hold one OVERLAPPED each, so at most one operation of each kind
\* is in flight.
NoStalePacket ==
  \A o \in ops :
    /\ sock[o.ctx] \in {None, o.sock}
    /\ \A p \in ops : p.ctx = o.ctx /\ p.type = o.type => p = o

\* While a send is in flight nobody changes the bytes WSASend was given; and a
\* handleSend that has released the context finds m_outBuf as empty as it left
\* it, also when the context has been given to another connection since: it posts
\* nothing for a client that is not its own.
SendBufferStable ==
  /\ \A o \in ops : o.type = "send" => o.data = outBuf[o.ctx]
  /\ \A w \in Workers :
       pc[w] = "unlock" /\ ret[w] = "drained" => outBuf[ctx[w]] = <<>>

\* What a client is sent is a prefix of what it sent, in order, each byte
\* once, as long as no released Buffer was read.
EchoIntegrity ==
  heap = "ok" =>
    \A s \in Socks : /\ Len(wire[s]) <= got[s]
                     /\ \A i \in 1 .. Len(wire[s]) : wire[s][i] = <<s, i>>

\* reset(), ClientContext.cpp:48: assert(0 == m_nPendingIoCnt)
ResetPendingZero ==
  [][\A c \in Contexts : free'[c] < free[c] => cnt[c] = 0]_vars

\* reset(), ClientContext.cpp:49: assert(m_outBufQueue.empty())
ResetQueueEmpty ==
  [][\A c \in Contexts : free'[c] < free[c] => outQ[c] = <<>>]_vars

\* A worker always comes back to GetQueuedCompletionStatus: no handler waits
\* for ever for a critical section.
WorkerReturns == \A w \in Workers : []<>(pc[w] = "idle" \/ heap = "fault")

\* An AcceptIoContext whose packet was dequeued is posted again, unless
\* AcceptEx or the association fails: the server does not stop accepting.
AcceptReposted ==
  Faults \cap {"accept", "associate"} = {} =>
    \A a \in AcceptIos : a \notin accepting ~> a \in accepting \/ heap = "fault"
=============================================================================
