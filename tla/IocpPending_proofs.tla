------------------------- MODULE IocpPending_proofs -------------------------
(***************************************************************************)
(* Proofs about the pending I/O counter of a client context: what it       *)
(* covers, when the context may go back to the pool, and that the echo is  *)
(* right as long as the queue of Buffers has not been read: what a client  *)
(* is sent is what it sent.                                                *)
(*                                                                         *)
(* The invariant is stated context by context: a step of a worker touches  *)
(* one context, and FrameContext disposes of the others.                   *)
(*                                                                         *)
(* The argument for the echo follows the bytes of a connection.  Those     *)
(* that were received are on the wire, then in m_outBuf, then in m_inBuf,  *)
(* in this order; send() and handleSend only move the border between two   *)
(* of these parts.  Bytes that send() could not post break the chain for   *)
(* good: m_outBuf is then never empty again, and nothing more is sent.     *)
(***************************************************************************)
EXTENDS IocpServer_proofs

\* The operations in flight on context c.
OpsOf(c) == {o \in ops : o.ctx = c}

\* The worker is inside CloseClient or is about to call exitIoLoop.
InClose(w) == pc[w] \in {"close", "cancel", "uncount", "release"}

\* The worker will post the next receive, or find out that it need not: it has
\* taken the place of the receive in flight.
WillRecv(w) ==
  \/ pc[w] \in {"acc_post", "acc_add", "post_recv", "notify", "sent"}
  \/ (InClose(w) \/ pc[w] = "unlock") /\ ret[w] = "sent"

\* The worker has bytes in m_inBuf that are still to be removed.
HasInput(w) ==
  \/ pc[w] \in {"notify", "sent"}
  \/ (InClose(w) \/ pc[w] = "unlock") /\ ret[w] = "sent"

\* A context has one receive, in flight or in the hands of a worker, and at most
\* one send.
UniqueInv(c) ==
  /\ \A o, p \in OpsOf(c) : o.type = p.type => o = p
  /\ \A v, w \in Handlers(c) : WillRecv(v) /\ WillRecv(w) => v = w
  /\ \A v, w \in Handlers(c) : pc[v] = "hsend" /\ pc[w] = "hsend" => v = w
  /\ \A o \in OpsOf(c), w \in Handlers(c) :
       /\ o.type = "recv" => ~WillRecv(w)
       /\ o.type = "send" => pc[w] # "hsend"

\* Before enterIoLoop, and after the exitIoLoop that found nothing pending, the
\* worker has the context for itself.
AloneInv(c) ==
  \A w \in Handlers(c) : pc[w] \in {"acc_post", "remove"} =>
    /\ cnt[c] = 0 /\ OpsOf(c) = {} /\ Handlers(c) = {w}
    /\ pc[w] = "remove" => ret[w] \in {"idle", "drained"}

\* The worker is inside CloseClient or releaseClientContext, or about to destroy
\* the LockGuard around them.
Closing(w) == InClose(w) \/ pc[w] \in {"remove", "unlock"}

\* m_csLock is held across steps only by a worker that closes or releases the
\* client, also when the context serves another connection by now.  handleSend
\* found m_outBuf empty, and as it has the lock nobody writes it.
LockInv(c) ==
  /\ \A w \in Workers : lock[c] = w => ctx[w] = c /\ Closing(w)
  /\ \A w \in Workers : ctx[w] = c /\ pc[w] = "unlock" => lock[c] = w
  /\ \A w \in Workers : ctx[w] = c /\ Closing(w) /\ ret[w] = "drained" =>
       lock[c] = w /\ outBuf[c] = <<>>

\* m_inBuf is empty unless a callback is running, and then it is not.
InputInv(c) ==
  /\ inBuf[c] # <<>> => \E w \in Handlers(c) : HasInput(w)
  /\ \A w \in Handlers(c) : pc[w] = "notify" => inBuf[c] # <<>>

\* Somebody will notice that the socket of a context in use was closed.
SocketInv(c) ==
  sock[c] # None /\ (OpsOf(c) # {} \/ Handlers(c) # {}) =>
    \/ \E o \in OpsOf(c) : o.type = "recv"
    \/ \E w \in Handlers(c) : WillRecv(w) \/ pc[w] = "close"

\* Packets in flight are those of the connection on the context.
StaleInv(c) == \A o \in OpsOf(c) : sock[c] \in {None, o.sock}

\* While a send is in flight, or was completed and not yet handled, m_outBuf
\* holds its bytes.
OutputInv(c) ==
  /\ \A o \in OpsOf(c) : o.type = "send" => o.data = outBuf[c] /\ o.data # <<>>
  /\ \A w \in Handlers(c) : pc[w] = "hsend" => nb[w] \in 1 .. Len(outBuf[c])

\* A context that is free, or that new has not returned yet, is not in use.
FreeInv(c) ==
  free[c] > 0 \/ c \notin born =>
    /\ OpsOf(c) = {} /\ Handlers(c) = {} /\ cnt[c] = 0
    /\ sock[c] = None /\ inBuf[c] = <<>>

\* Workers that hold a counter of c, and those that hold two.
Holders(c) == {w \in Workers : Held(w, c) >= 1}
TwiceHolders(c) == {w \in Workers : Held(w, c) = 2}

\* PendingCovers for one context.
CoverInv(c) ==
  cnt[c] >= Cardinality(OpsOf(c)) + Cardinality(Holders(c))
              + Cardinality(TwiceHolders(c))

ContextInv(c) ==
  /\ UniqueInv(c) /\ AloneInv(c) /\ LockInv(c) /\ InputInv(c) /\ SocketInv(c)
  /\ StaleInv(c) /\ OutputInv(c) /\ FreeInv(c) /\ CoverInv(c)

\* The echo server closes a client from handleRecv only inside send().
RetInv == \A w \in Workers : ret[w] # "post_recv"

PendingInv ==
  /\ IsFiniteSet(ops) /\ RetInv
  /\ \A c \in Contexts : ContextInv(c)

-----------------------------------------------------------------------------
(* Steps that touch one context *)

\* The step changes, of workers and contexts, only worker w and context c; with
\* None for c it changes no context.
Local(w, c) ==
  /\ \A v \in Workers \ {w} :
       /\ pc'[v] = pc[v] /\ ctx'[v] = ctx[v]
       /\ ret'[v] = ret[v] /\ nb'[v] = nb[v]
  /\ pc[w] \in UsesContext => ctx[w] = c
  /\ pc'[w] \in UsesContext => ctx'[w] = c
  /\ \A d \in Contexts \ {c} :
       /\ OpsOf(d)' = OpsOf(d) /\ (d \in born' <=> d \in born)
       /\ sock'[d] = sock[d] /\ cnt'[d] = cnt[d] /\ lock'[d] = lock[d]
       /\ inBuf'[d] = inBuf[d] /\ outBuf'[d] = outBuf[d] /\ free'[d] = free[d]

\* The other contexts keep their invariant.
LEMMA FrameContext ==
  ASSUME NEW w \in Workers, NEW c, Local(w, c),
         NEW d \in Contexts \ {c}, ContextInv(d)
  PROVE  ContextInv(d)'
<1>1. \A v \in Workers :
        /\ v \in Handlers(d)' <=> v \in Handlers(d)
        /\ v \in Handlers(d) =>
             /\ v # w /\ pc'[v] = pc[v] /\ ret'[v] = ret[v] /\ nb'[v] = nb[v]
  BY DEF Local, Handlers, Leaving
<1>2. Handlers(d)' = Handlers(d) /\ Handlers(d) \subseteq Workers
  BY <1>1 DEF Handlers
<1>3. \A v \in Handlers(d) : /\ WillRecv(v)' <=> WillRecv(v)
                             /\ HasInput(v)' <=> HasInput(v)
                             /\ InClose(v)' <=> InClose(v)
  BY <1>1, <1>2 DEF WillRecv, HasInput, InClose
<1>31. \A v \in Workers : (ctx[v] = d /\ Closing(v)) \/ (ctx[v] = d /\ Closing(v))' =>
         /\ v # w /\ ctx'[v] = ctx[v] /\ pc'[v] = pc[v] /\ ret'[v] = ret[v]
  BY Labels DEF Local, Closing, InClose
<1>4. \A v \in Workers : Held(v, d)' = Held(v, d)
  BY <1>1 DEF Held
<1>5. Holders(d)' = Holders(d) /\ TwiceHolders(d)' = TwiceHolders(d)
  BY <1>4 DEF Holders, TwiceHolders
<1>6. /\ OpsOf(d)' = OpsOf(d) /\ (d \in born' <=> d \in born)
      /\ sock'[d] = sock[d] /\ cnt'[d] = cnt[d] /\ lock'[d] = lock[d]
      /\ inBuf'[d] = inBuf[d] /\ outBuf'[d] = outBuf[d] /\ free'[d] = free[d]
  BY DEF Local
<1>7. UniqueInv(d)' /\ AloneInv(d)'
  BY <1>1, <1>2, <1>3, <1>6 DEF ContextInv, UniqueInv, AloneInv
<1>71. LockInv(d)'
  BY <1>31, <1>6 DEF ContextInv, LockInv, Closing, InClose
<1>8. InputInv(d)' /\ SocketInv(d)' /\ StaleInv(d)'
  BY <1>1, <1>2, <1>3, <1>6 DEF ContextInv, InputInv, SocketInv, StaleInv
<1>9. OutputInv(d)' /\ FreeInv(d)' /\ CoverInv(d)'
  BY <1>1, <1>2, <1>5, <1>6 DEF ContextInv, OutputInv, FreeInv, CoverInv
<1> QED BY <1>7, <1>71, <1>8, <1>9 DEF ContextInv

\* So a step keeps PendingInv if it keeps that of the context it touches.
LEMMA PendingStep ==
  ASSUME PendingInv, NEW w \in Workers, NEW c, Local(w, c),
         IsFiniteSet(ops'), RetInv',
         c \in Contexts => ContextInv(c)'
  PROVE  PendingInv'
<1>1. \A d \in Contexts \ {c} : ContextInv(d)'
  BY FrameContext DEF PendingInv
<1> QED BY <1>1 DEF PendingInv

-----------------------------------------------------------------------------
(* Counting *)

\* Two sets of workers that differ in one worker at most.
LEMMA CardStep ==
  ASSUME NEW A \in SUBSET Workers, NEW B \in SUBSET Workers, NEW w \in Workers,
         \A v \in Workers \ {w} : v \in A <=> v \in B
  PROVE  /\ Cardinality(A) \in Nat /\ Cardinality(B) \in Nat
         /\ Cardinality(B) = Cardinality(A) + (IF w \in B THEN 1 ELSE 0)
                                            - (IF w \in A THEN 1 ELSE 0)
<1>1. /\ IsFiniteSet(A) /\ IsFiniteSet(B)
      /\ Cardinality(A) \in Nat /\ Cardinality(B) \in Nat
  BY ConstAssumption, FS_Subset, FS_CardinalityType
<1>2. CASE w \in A <=> w \in B
  <2>1. A = B
    BY <1>2
  <2> QED BY <1>1, <2>1
<1>3. CASE w \in A /\ w \notin B
  <2>1. B = A \ {w}
    BY <1>3
  <2>2. Cardinality(B) = Cardinality(A) - 1
    BY <1>1, <1>3, <2>1, FS_RemoveElement
  <2> QED BY <1>1, <1>3, <2>2
<1>4. CASE w \notin A /\ w \in B
  <2>1. B = A \cup {w}
    BY <1>4
  <2>2. Cardinality(B) = Cardinality(A) + 1
    BY <1>1, <1>4, <2>1, FS_AddElement
  <2> QED BY <1>1, <1>4, <2>2
<1> QED BY <1>2, <1>3, <1>4

\* The counters that the workers hold change with those of the one that steps.
LEMMA HeldStep ==
  ASSUME NEW w \in Workers, NEW c, Local(w, c)
  PROVE  /\ Cardinality(Holders(c)) \in Nat /\ Cardinality(TwiceHolders(c)) \in Nat
         /\ Cardinality(Holders(c)') + Cardinality(TwiceHolders(c)')
              = Cardinality(Holders(c)) + Cardinality(TwiceHolders(c))
                  + Held(w, c)' - Held(w, c)
<1>1. \A v \in Workers \ {w} : Held(v, c)' = Held(v, c)
  BY DEF Local, Held, Handlers, Leaving
<1>2. Held(w, c) \in {0, 1, 2} /\ Held(w, c)' \in {0, 1, 2}
  BY DEF Held
<1>3. /\ Holders(c) \in SUBSET Workers /\ Holders(c)' \in SUBSET Workers
      /\ TwiceHolders(c) \in SUBSET Workers /\ TwiceHolders(c)' \in SUBSET Workers
  BY DEF Holders, TwiceHolders
<1>4. \A v \in Workers \ {w} : /\ v \in Holders(c) <=> v \in Holders(c)'
                               /\ v \in TwiceHolders(c) <=> v \in TwiceHolders(c)'
  BY <1>1 DEF Holders, TwiceHolders
<1>5. /\ (w \in Holders(c) <=> Held(w, c) >= 1)
      /\ (w \in Holders(c)' <=> Held(w, c)' >= 1)
      /\ (w \in TwiceHolders(c) <=> Held(w, c) = 2)
      /\ (w \in TwiceHolders(c)' <=> Held(w, c)' = 2)
  BY DEF Holders, TwiceHolders
<1>6. /\ Cardinality(Holders(c)) \in Nat
      /\ Cardinality(Holders(c)') = Cardinality(Holders(c))
           + (IF w \in Holders(c)' THEN 1 ELSE 0) - (IF w \in Holders(c) THEN 1 ELSE 0)
  BY <1>3, <1>4, CardStep
<1>7. /\ Cardinality(TwiceHolders(c)) \in Nat
      /\ Cardinality(TwiceHolders(c)') = Cardinality(TwiceHolders(c))
           + (IF w \in TwiceHolders(c)' THEN 1 ELSE 0)
           - (IF w \in TwiceHolders(c) THEN 1 ELSE 0)
  BY <1>3, <1>4, CardStep
<1> QED BY <1>2, <1>5, <1>6, <1>7

\* An operation that is posted or dequeued.
LEMMA OpsStep ==
  ASSUME NEW c, IsFiniteSet(ops), IsFiniteSet(ops')
  PROVE  /\ Cardinality(OpsOf(c)) \in Nat /\ Cardinality(OpsOf(c)') \in Nat
         /\ \A o : OpsOf(c)' = OpsOf(c) \cup {o} =>
              Cardinality(OpsOf(c)') <= Cardinality(OpsOf(c)) + 1
         /\ \A o \in OpsOf(c) : OpsOf(c)' = OpsOf(c) \ {o} =>
              Cardinality(OpsOf(c)') = Cardinality(OpsOf(c)) - 1
<1>1. /\ IsFiniteSet(OpsOf(c)) /\ IsFiniteSet(OpsOf(c)')
      /\ Cardinality(OpsOf(c)) \in Nat /\ Cardinality(OpsOf(c)') \in Nat
  BY FS_Subset, FS_CardinalityType DEF OpsOf
<1>2. ASSUME NEW o, OpsOf(c)' = OpsOf(c) \cup {o}
      PROVE  Cardinality(OpsOf(c)') <= Cardinality(OpsOf(c)) + 1
  BY <1>1, <1>2, FS_AddElement
<1>3. ASSUME NEW o \in OpsOf(c), OpsOf(c)' = OpsOf(c) \ {o}
      PROVE  Cardinality(OpsOf(c)') = Cardinality(OpsOf(c)) - 1
  BY <1>1, <1>3, FS_RemoveElement
<1> QED BY <1>1, <1>2, <1>3

\* A worker that gives back the last counter is the only one that has any, and
\* nothing is in flight.
LEMMA LastCounter ==
  ASSUME TypeOK, IsFiniteSet(ops), NEW c \in Contexts, CoverInv(c),
         NEW w \in Workers, Held(w, c) >= 1, cnt[c] - 1 <= 0
  PROVE  /\ cnt[c] = 1 /\ OpsOf(c) = {} /\ Held(w, c) = 1
         /\ \A v \in Workers : v # w => Held(v, c) = 0
<1> DEFINE A == Holders(c)
           B == TwiceHolders(c)
<1>1. /\ IsFiniteSet(A) /\ IsFiniteSet(B) /\ IsFiniteSet(OpsOf(c))
      /\ Cardinality(A) \in Nat /\ Cardinality(B) \in Nat
      /\ Cardinality(OpsOf(c)) \in Nat
  BY ConstAssumption, FS_Subset, FS_CardinalityType DEF Holders, TwiceHolders, OpsOf
<1>2. w \in A
  BY DEF Holders
<1>3. Cardinality(A) >= 1
  BY <1>1, <1>2, FS_EmptySet
<1>4. cnt[c] \in Int /\ cnt[c] >= Cardinality(OpsOf(c)) + Cardinality(A) + Cardinality(B)
  BY DEF TypeOK, ContextType, CoverInv
<1>5. /\ cnt[c] = 1 /\ Cardinality(A) = 1 /\ Cardinality(B) = 0
      /\ Cardinality(OpsOf(c)) = 0
  <2> HIDE DEF A, B
  <2> QED BY <1>1, <1>3, <1>4
<1>6. OpsOf(c) = {} /\ B = {}
  BY <1>1, <1>5, FS_EmptySet
<1>7. A = {w}
  BY <1>1, <1>2, <1>5, FS_Singleton
<1>8. \A v \in Workers : Held(v, c) \in {0, 1, 2}
  BY DEF Held
<1> QED BY <1>5, <1>6, <1>7, <1>8 DEF Holders, TwiceHolders

-----------------------------------------------------------------------------
(* The steps *)

\* Steps of a worker without a context.
LEMMA PendingNoContext ==
  ASSUME TypeOK, PendingInv, NEW w \in Workers, NEW l, Goto(w, l),
         pc[w] \notin UsesContext, l \notin UsesContext,
         UNCHANGED <<ctx, ret, nb, sock, cnt, bufVars, lock, poolVars, ops>>
  PROVE  PendingInv'
<1>1. Local(w, None)
  BY DEF Goto, Local, OpsOf, bufVars, poolVars, TypeOK, WorkerType
<1>2. None \notin Contexts /\ IsFiniteSet(ops') /\ RetInv'
  BY ConstAssumption DEF PendingInv, RetInv
<1> QED BY <1>1, <1>2, PendingStep

\* Who uses context c after worker w, which uses it or starts to, has jumped.
LEMMA JumpHandlers ==
  ASSUME TypeOK, NEW w \in Workers, NEW l, Goto(w, l), NEW c \in Contexts,
         ctx'[w] = c, pc[w] \in UsesContext => ctx[w] = c,
         \A v \in Workers : v # w => ctx'[v] = ctx[v] /\ ret'[v] = ret[v]
  PROVE  /\ pc'[w] = l /\ Handlers(c) \subseteq Workers
         /\ \A v \in Workers : v # w => pc'[v] = pc[v] /\ ctx'[v] = ctx[v]
         /\ l \in UsesContext \ {"unlock"} => Handlers(c)' = Handlers(c) \cup {w}
         /\ l \notin UsesContext \/ Leaving(w)' => Handlers(c)' = Handlers(c) \ {w}
<1>1. /\ pc'[w] = l
      /\ \A v \in Workers : v # w => pc'[v] = pc[v] /\ ctx'[v] = ctx[v]
  BY DEF Goto, TypeOK, WorkerType
<1> QED BY <1>1 DEF Handlers, Leaving

\* What a worker at a step that uses its context knows.
LEMMA InHandler ==
  ASSUME TypeOK, PendingInv, NEW w \in Workers,
         pc[w] \in UsesContext \ {"unlock"}, NEW c, ctx[w] = c
  PROVE  /\ c \in Contexts /\ w \in Handlers(c) /\ ContextInv(c)
         /\ ~(free[c] > 0) /\ c \in born
         /\ \A v \in Handlers(c) : v # w => pc[v] \notin {"acc_post", "remove"}
<1>1. c \in Contexts /\ w \in Handlers(c) /\ ContextInv(c)
  BY DEF TypeOK, WorkerType, Handlers, Leaving, PendingInv
<1> QED BY <1>1 DEF ContextInv, FreeInv, AloneInv

\* The counter covers what it did before if it changes with the counters that
\* are held and the operations in flight.
LEMMA CoverStep ==
  ASSUME TypeOK, PendingInv, NEW w \in Workers, NEW c \in Contexts, Local(w, c),
         IsFiniteSet(ops'), cnt'[c] \in Int,
         \/ /\ OpsOf(c)' = OpsOf(c)
            /\ cnt'[c] + Held(w, c) >= cnt[c] + Held(w, c)'
         \/ /\ \E o : OpsOf(c)' = OpsOf(c) \cup {o}
            /\ cnt'[c] + Held(w, c) >= cnt[c] + Held(w, c)' + 1
         \/ /\ \E o \in OpsOf(c) : OpsOf(c)' = OpsOf(c) \ {o}
            /\ cnt'[c] + Held(w, c) >= cnt[c] + Held(w, c)' - 1
  PROVE  CoverInv(c)'
<1>1. /\ cnt[c] \in Int /\ cnt[c] >= Cardinality(OpsOf(c)) + Cardinality(Holders(c))
                                       + Cardinality(TwiceHolders(c))
      /\ IsFiniteSet(ops)
  BY DEF TypeOK, ContextType, PendingInv, ContextInv, CoverInv
<1>2. /\ Cardinality(Holders(c)) \in Nat /\ Cardinality(TwiceHolders(c)) \in Nat
      /\ Cardinality(Holders(c)') + Cardinality(TwiceHolders(c)')
           = Cardinality(Holders(c)) + Cardinality(TwiceHolders(c))
               + Held(w, c)' - Held(w, c)
  BY HeldStep
<1>3. /\ Cardinality(OpsOf(c)) \in Nat /\ Cardinality(OpsOf(c)') \in Nat
      /\ \/ /\ Cardinality(OpsOf(c)') = Cardinality(OpsOf(c))
            /\ cnt'[c] + Held(w, c) >= cnt[c] + Held(w, c)'
         \/ /\ Cardinality(OpsOf(c)') <= Cardinality(OpsOf(c)) + 1
            /\ cnt'[c] + Held(w, c) >= cnt[c] + Held(w, c)' + 1
         \/ /\ Cardinality(OpsOf(c)') = Cardinality(OpsOf(c)) - 1
            /\ cnt'[c] + Held(w, c) >= cnt[c] + Held(w, c)' - 1
  BY <1>1, OpsStep
<1>4. Held(w, c) \in Int /\ Held(w, c)' \in Int
  BY DEF Held
<1>5. Cardinality(Holders(c)') \in Nat /\ Cardinality(TwiceHolders(c)') \in Nat
  BY ConstAssumption, FS_Subset, FS_CardinalityType DEF Holders, TwiceHolders
<1> QED BY <1>1, <1>2, <1>3, <1>4, <1>5 DEF CoverInv

\* What a step of worker w on context c has to keep.
LEMMA PendingKeeps ==
  ASSUME TypeOK, PendingInv, NEW w \in Workers, NEW c \in Contexts, Local(w, c),
         IsFiniteSet(ops'), RetInv',
         UniqueInv(c)' /\ AloneInv(c)' /\ LockInv(c)',
         InputInv(c)' /\ SocketInv(c)' /\ StaleInv(c)' /\ OutputInv(c)' /\ FreeInv(c)',
         CoverInv(c)'
  PROVE  PendingInv'
  BY PendingStep DEF ContextInv

\* A worker that is not closing a client has no lock; what it does, unless it
\* writes m_outBuf, leaves the locks to those who have them.
LEMMA LockKeeps ==
  ASSUME NEW w \in Workers, NEW c \in Contexts, ContextInv(c),
         lock'[c] = lock[c], outBuf'[c] = outBuf[c],
         \A v \in Workers : v # w =>
           pc'[v] = pc[v] /\ ctx'[v] = ctx[v] /\ ret'[v] = ret[v],
         pc[w] \notin {"close", "cancel", "uncount", "release", "remove", "unlock"},
         pc'[w] \notin {"remove", "unlock"}, ret'[w] # "drained" \/ pc'[w] = "idle"
  PROVE  LockInv(c)'
<1>1. lock[c] # w
  BY DEF ContextInv, LockInv, Closing, InClose
<1>2. \A v \in Workers : v # w => (Closing(v)' <=> Closing(v))
  BY DEF Closing, InClose
<1>3. ~(Closing(w)' /\ ret'[w] = "drained")
  BY DEF Closing, InClose
<1> QED BY <1>1, <1>2, <1>3 DEF ContextInv, LockInv

\* postRecv posts the receive, or closes the client.
LEMMA PendingPostRecv ==
  ASSUME TypeOK, PendingInv, NEW w \in Workers, PostRecv(w), NEW c, ctx[w] = c
  PROVE  PendingInv'
<1>1. /\ pc[w] = "post_recv" /\ pc[w] \in UsesContext
      /\ UNCHANGED <<ctx, nb, sock, cnt, bufVars, lock, poolVars>>
  BY Labels DEF PostRecv, At
<1>2. /\ c \in Contexts /\ w \in Handlers(c) /\ ContextInv(c)
      /\ ~(free[c] > 0) /\ c \in born
      /\ \A v \in Handlers(c) : v # w => pc[v] \notin {"acc_post", "remove"}
  BY <1>1, InHandler
<1>3. CASE sock[c] # None /\ Goto(w, "idle") /\ ret' = ret /\ ops' = ops \cup
             {[type |-> "recv", ctx |-> c, sock |-> sock[c], data |-> <<>>]}
  <2> DEFINE op == [type |-> "recv", ctx |-> c, sock |-> sock[c], data |-> <<>>]
  <2>1. OpsOf(c)' = OpsOf(c) \cup {op} /\ \A d \in Contexts \ {c} : OpsOf(d)' = OpsOf(d)
    BY <1>1, <1>3 DEF OpsOf
  <2>2. op.type = "recv" /\ op.sock = sock[c]
    OBVIOUS
  <2>3. IsFiniteSet(ops') /\ RetInv'
    BY <1>3, FS_AddElement DEF PendingInv, RetInv
  <2> HIDE DEF op
  <2>4. /\ pc'[w] = "idle" /\ Handlers(c)' = Handlers(c) \ {w} /\ Handlers(c) \subseteq Workers
        /\ \A v \in Workers : v # w => pc'[v] = pc[v] /\ ctx'[v] = ctx[v]
    BY <1>1, <1>2, <1>3, JumpHandlers, Labels
  <2>5. Local(w, c)
    BY <1>1, <1>3, <2>1, <2>4, Labels DEF Local, bufVars, poolVars
  <2>6. UniqueInv(c)' /\ AloneInv(c)' /\ LockInv(c)'
    <3>1. UniqueInv(c)' /\ AloneInv(c)'
      BY <1>1, <1>2, <1>3, <2>1, <2>2, <2>4
      DEF ContextInv, UniqueInv, AloneInv, WillRecv, InClose
    <3>2. LockInv(c)'
      BY <1>1, <1>2, <1>3, <2>4, LockKeeps DEF bufVars
    <3> QED BY <3>1, <3>2
  <2>7. InputInv(c)' /\ SocketInv(c)' /\ StaleInv(c)' /\ OutputInv(c)' /\ FreeInv(c)'
    BY <1>1, <1>2, <1>3, <2>1, <2>2, <2>4
    DEF ContextInv, InputInv, SocketInv, StaleInv, OutputInv, FreeInv, UniqueInv,
        WillRecv, InClose, HasInput, bufVars, poolVars
  <2>8. CoverInv(c)'
    <3>1. Held(w, c) = 1 /\ Held(w, c)' = 0
      BY <1>1, <1>2, <2>4 DEF Held
    <3>2. cnt'[c] = cnt[c] /\ cnt[c] \in Int
      BY <1>1, <1>2 DEF TypeOK, ContextType
    <3>3. cnt'[c] + Held(w, c) >= cnt[c] + Held(w, c)' + 1
      BY <3>1, <3>2
    <3> QED BY <1>2, <2>1, <2>3, <2>5, <3>2, <3>3, CoverStep
  <2> QED BY <1>2, <2>3, <2>5, <2>6, <2>7, <2>8, PendingKeeps
<1>4. CASE CallClose(w, "idle") /\ ops' = ops
  <2>1. \A d \in Contexts : OpsOf(d)' = OpsOf(d)
    BY <1>4 DEF OpsOf
  <2>3. ret'[w] = "idle" /\ \A v \in Workers : v # w => ret'[v] = ret[v]
    BY <1>4 DEF CallClose, TypeOK, WorkerType
  <2>2. /\ pc'[w] = "close" /\ Handlers(c)' = Handlers(c) /\ Handlers(c) \subseteq Workers
        /\ \A v \in Workers : v # w => pc'[v] = pc[v] /\ ctx'[v] = ctx[v]
    <3>1. Goto(w, "close") /\ "close" \in UsesContext \ {"unlock"}
      BY <1>4, Labels DEF CallClose
    <3>2. ctx'[w] = c /\ \A v \in Workers : v # w => ctx'[v] = ctx[v] /\ ret'[v] = ret[v]
      BY <1>1, <2>3
    <3>3. /\ pc'[w] = "close" /\ Handlers(c)' = Handlers(c) \cup {w}
          /\ Handlers(c) \subseteq Workers
          /\ \A v \in Workers : v # w => pc'[v] = pc[v] /\ ctx'[v] = ctx[v]
      BY <1>2, <3>1, <3>2, JumpHandlers
    <3> QED BY <1>2, <3>3
  <2>4. IsFiniteSet(ops') /\ RetInv'
    BY <1>4, <2>3 DEF PendingInv, RetInv
  <2>5. Local(w, c)
    BY <1>1, <2>1, <2>2, <2>3, Labels DEF Local, bufVars, poolVars
  <2>6. UniqueInv(c)' /\ AloneInv(c)' /\ LockInv(c)'
    <3>1. UniqueInv(c)' /\ AloneInv(c)'
      BY <1>1, <1>2, <2>1, <2>2, <2>3
      DEF ContextInv, UniqueInv, AloneInv, WillRecv, InClose
    <3>2. LockInv(c)'
      BY <1>1, <1>2, <2>2, <2>3, LockKeeps DEF bufVars
    <3> QED BY <3>1, <3>2
  <2>7. InputInv(c)' /\ SocketInv(c)' /\ StaleInv(c)' /\ OutputInv(c)' /\ FreeInv(c)'
    BY <1>1, <1>2, <2>1, <2>2, <2>3
    DEF ContextInv, InputInv, SocketInv, StaleInv, OutputInv, FreeInv, UniqueInv,
        WillRecv, InClose, HasInput, bufVars, poolVars
  <2>8. CoverInv(c)'
    <3>1. Held(w, c) = 1 /\ Held(w, c)' = 1
      BY <1>1, <1>2, <2>2, <2>3 DEF Held
    <3> QED BY <1>1, <1>2, <2>1, <2>4, <2>5, <3>1, CoverStep DEF TypeOK, ContextType
  <2> QED BY <1>2, <2>4, <2>5, <2>6, <2>7, <2>8, PendingKeeps
<1> QED BY <1>3, <1>4 DEF PostRecv

\* The worker that dequeues a packet takes the place of the operation.
LEMMA PendingPacket ==
  ASSUME TypeOK, PendingInv, NEW w \in Workers, pc[w] = "idle", NEW o \in ops,
         NEW c, o.ctx = c, ops' = ops \ {o}, ctx' = [ctx EXCEPT ![w] = c],
         NEW l \in {"notify", "hsend", "close"}, Goto(w, l),
         UNCHANGED <<sock, cnt, outBuf, outQ, lock, poolVars>>,
         \A v \in Workers \ {w} : ret'[v] = ret[v] /\ nb'[v] = nb[v],
         ret'[w] # "post_recv", \A d \in Contexts \ {c} : inBuf'[d] = inBuf[d],
         l = "notify" => o.type = "recv" /\ inBuf'[c] # <<>>,
         l # "notify" => inBuf' = inBuf,
         l = "hsend" => o.type = "send" /\ nb'[w] \in 1 .. Len(o.data),
         l = "close" => ret'[w] = "idle"
  PROVE  PendingInv'
<1>1. c \in Contexts /\ o \in OpsOf(c) /\ ContextInv(c) /\ o.type \in {"recv", "send"}
  BY DEF TypeOK, NetType, Op, OpsOf, PendingInv
<1>2. /\ OpsOf(c)' = OpsOf(c) \ {o}
      /\ \A d \in Contexts \ {c} : OpsOf(d)' = OpsOf(d)
  BY DEF OpsOf
<1>3. /\ pc'[w] = l /\ Handlers(c)' = Handlers(c) \cup {w} /\ Handlers(c) \subseteq Workers
      /\ ctx'[w] = c
      /\ \A v \in Workers : v # w => pc'[v] = pc[v] /\ ctx'[v] = ctx[v]
  <2>1. l \in UsesContext \ {"unlock"} /\ pc[w] \notin UsesContext
    BY Labels
  <2>2. ctx'[w] = c /\ \A v \in Workers : v # w => ctx'[v] = ctx[v]
    BY DEF TypeOK, WorkerType
  <2> QED BY <1>1, <2>1, <2>2, JumpHandlers
<1>4. w \notin Handlers(c)
  BY Labels DEF Handlers
<1>5. IsFiniteSet(ops') /\ RetInv'
  BY FS_RemoveElement DEF PendingInv, RetInv
<1>6. Local(w, c)
  BY <1>2, <1>3, Labels DEF Local, poolVars
<1>7. /\ ~(free[c] > 0) /\ c \in born
      /\ \A v \in Handlers(c) : pc[v] \notin {"acc_post", "remove"}
  BY <1>1 DEF ContextInv, FreeInv, AloneInv
<1>8. UniqueInv(c)' /\ AloneInv(c)' /\ LockInv(c)'
  BY <1>1, <1>2, <1>3, <1>4, <1>7
  DEF ContextInv, UniqueInv, AloneInv, LockInv, Closing, WillRecv, InClose
<1>9. InputInv(c)' /\ SocketInv(c)' /\ StaleInv(c)' /\ OutputInv(c)' /\ FreeInv(c)'
  BY <1>1, <1>2, <1>3, <1>4, <1>7
  DEF ContextInv, InputInv, SocketInv, StaleInv, OutputInv, FreeInv, UniqueInv,
      WillRecv, InClose, HasInput, poolVars
<1>10. CoverInv(c)'
  <2>1. Held(w, c) = 0 /\ Held(w, c)' = 1
    BY <1>3, <1>4 DEF Held
  <2>2. cnt'[c] = cnt[c] /\ cnt[c] \in Int
    BY <1>1 DEF TypeOK, ContextType
  <2>3. cnt'[c] + Held(w, c) >= cnt[c] + Held(w, c)' - 1
    BY <2>1, <2>2
  <2> QED BY <1>1, <1>2, <1>5, <1>6, <2>2, <2>3, CoverStep
<1> QED BY <1>1, <1>5, <1>6, <1>8, <1>9, <1>10, PendingKeeps

\* Dequeueing a packet.
LEMMA PendingDequeue ==
  ASSUME TypeOK, PendingInv, NEW w \in Workers, Dequeue(w)
  PROVE  PendingInv'
<1>1. ASSUME NEW a \in AcceptIos, NEW s \in Socks, AcceptDone(w, a, s)
      PROVE  PendingInv'
  <2>1. pc[w] \notin UsesContext /\ "acc_check" \notin UsesContext
    BY <1>1, Labels DEF AcceptDone, At
  <2> QED BY <1>1, <2>1, PendingNoContext DEF AcceptDone
<1>2. ASSUME NEW o \in ops, NEW n \in 1 .. MaxBytes, RecvDone(w, o, n)
      PROVE  PendingInv'
  <2>1. /\ o.ctx \in Contexts /\ inBuf[o.ctx] \in Seq(Byte) /\ o.sock \in Socks
        /\ got[o.sock] \in Nat /\ n \in Nat /\ n >= 1
    BY <1>2, ConstAssumption DEF TypeOK, NetType, ContextType, Op
  <2> DEFINE new == [i \in 1 .. n |-> <<o.sock, got[o.sock] + i>>]
  <2>2. new \in Seq(Byte) /\ Len(new) = n
    BY <2>1 DEF Byte
  <2>3. inBuf[o.ctx] \o new # <<>>
    <3> HIDE DEF new
    <3>1. Len(inBuf[o.ctx] \o new) = Len(inBuf[o.ctx]) + n
      BY <2>1, <2>2
    <3> QED BY <2>1, <3>1
  <2>4. /\ inBuf'[o.ctx] # <<>>
        /\ \A d \in Contexts \ {o.ctx} : inBuf'[d] = inBuf[d]
    BY <1>2, <2>1, <2>3 DEF RecvDone, TypeOK, ContextType
  <2> QED BY <1>2, <2>4, PendingPacket DEF RecvDone, At, PendingInv, RetInv
<1>3. ASSUME NEW o \in ops, NEW n \in 1 .. Len(o.data), SendDone(w, o, n)
      PROVE  PendingInv'
  <2>1. nb'[w] = n /\ \A v \in Workers \ {w} : nb'[v] = nb[v]
    BY <1>3 DEF SendDone, TypeOK, WorkerType
  <2> QED BY <1>3, <2>1, PendingPacket DEF SendDone, At, PendingInv, RetInv, bufVars
<1>4. ASSUME NEW o \in ops, IoClosed(w, o)
      PROVE  PendingInv'
  <2>1. ret'[w] = "idle" /\ \A v \in Workers \ {w} : ret'[v] = ret[v]
    BY <1>4 DEF IoClosed, CallClose, TypeOK, WorkerType
  <2> QED BY <1>4, <2>1, PendingPacket DEF IoClosed, CallClose, At, bufVars
<1> QED BY <1>1, <1>2, <1>3, <1>4 DEF Dequeue, ClientPacket

\* Steps that stay in the handler and neither post nor complete an operation.
LEMMA PendingMove ==
  ASSUME TypeOK, PendingInv, NEW w \in Workers, NEW c, ctx[w] = c,
         pc[w] \in UsesContext, NEW l, Goto(w, l),
         UNCHANGED <<ctx, ret, nb, outBuf, lock, free, born, ops>>,
         \A d \in Contexts \ {c} :
           sock'[d] = sock[d] /\ cnt'[d] = cnt[d] /\ inBuf'[d] = inBuf[d],
         \/ /\ pc[w] = "acc_post" /\ l = "acc_add" /\ cnt'[c] = cnt[c] + 1
            /\ sock'[c] = sock[c] /\ inBuf'[c] = inBuf[c]
         \/ /\ pc[w] = "acc_add" /\ l = "post_recv" /\ cnt'[c] = cnt[c]
            /\ sock'[c] = sock[c] /\ inBuf'[c] = inBuf[c]
         \/ /\ pc[w] = "notify" /\ l = "sent" /\ cnt'[c] = cnt[c]
            /\ sock'[c] = sock[c] /\ inBuf'[c] = inBuf[c]
         \/ /\ pc[w] = "sent" /\ l = "post_recv" /\ cnt'[c] = cnt[c]
            /\ sock'[c] = sock[c] /\ inBuf'[c] = <<>>
         \/ /\ pc[w] = "close" /\ l \in {"release", "cancel"} /\ cnt'[c] = cnt[c]
            /\ sock'[c] = None /\ inBuf'[c] = inBuf[c]
         \/ /\ pc[w] \in {"cancel", "uncount"} /\ l \in {"uncount", "release"}
            /\ cnt'[c] = cnt[c] /\ sock'[c] = sock[c] /\ inBuf'[c] = inBuf[c]
  PROVE  PendingInv'
<1>1. /\ c \in Contexts /\ w \in Handlers(c) /\ ContextInv(c)
      /\ ~(free[c] > 0) /\ c \in born
      /\ \A v \in Handlers(c) : v # w => pc[v] \notin {"acc_post", "remove"}
  BY InHandler
<1>2. \A d \in Contexts : OpsOf(d)' = OpsOf(d)
  BY DEF OpsOf
<1>3. /\ pc'[w] = l /\ Handlers(c)' = Handlers(c) /\ Handlers(c) \subseteq Workers
      /\ \A v \in Workers : v # w => pc'[v] = pc[v] /\ ctx'[v] = ctx[v]
  <2>1. /\ l \in UsesContext \ {"unlock"} /\ ctx'[w] = c
        /\ \A v \in Workers : v # w => ctx'[v] = ctx[v]
    BY Labels
  <2>2. /\ pc'[w] = l /\ Handlers(c)' = Handlers(c) \cup {w} /\ Handlers(c) \subseteq Workers
        /\ \A v \in Workers : v # w => pc'[v] = pc[v] /\ ctx'[v] = ctx[v]
    BY <1>1, <2>1, JumpHandlers
  <2> QED BY <1>1, <2>2
<1>4. IsFiniteSet(ops') /\ RetInv'
  BY DEF PendingInv, RetInv
<1>5. Local(w, c)
  BY <1>2, <1>3, Labels DEF Local
<1>6. UniqueInv(c)' /\ AloneInv(c)' /\ LockInv(c)'
  BY <1>1, <1>2, <1>3
  DEF ContextInv, UniqueInv, AloneInv, LockInv, Closing, WillRecv, InClose
<1>7. InputInv(c)' /\ SocketInv(c)' /\ StaleInv(c)' /\ OutputInv(c)' /\ FreeInv(c)'
  BY <1>1, <1>2, <1>3
  DEF ContextInv, InputInv, SocketInv, StaleInv, OutputInv, FreeInv, UniqueInv,
      AloneInv, WillRecv, InClose, HasInput
<1>8. CoverInv(c)'
  <2>1. /\ Held(w, c) \in Int /\ Held(w, c)' \in Int
        /\ Held(w, c)' = IF pc[w] = "acc_post" THEN Held(w, c) + 1 ELSE Held(w, c)
    BY <1>1, <1>3 DEF Held
  <2>2. cnt[c] \in Int /\ cnt'[c] \in Int
    BY <1>1 DEF TypeOK, ContextType
  <2>3. cnt'[c] + Held(w, c) >= cnt[c] + Held(w, c)'
    BY <2>1, <2>2
  <2> QED BY <1>1, <1>2, <1>4, <1>5, <2>2, <2>3, CoverStep
<1> QED BY <1>1, <1>4, <1>5, <1>6, <1>7, <1>8, PendingKeeps

\* A context that is allocated was not in use, and is used by one handler.
LEMMA PendingAlloc ==
  ASSUME TypeOK, PoolInv, PendingInv, NEW w \in Workers, NEW c \in Contexts,
         AcceptAlloc(w, c)
  PROVE  PendingInv'
<1>1. /\ pc[w] = "acc_alloc" /\ sk[w] \in Socks
      /\ UNCHANGED <<ret, nb, cnt, bufVars, lock, ops>>
  BY Labels DEF AcceptAlloc, At, TypeOK, WorkerType
<1>2. /\ sock'[c] = sk[w] /\ ctx'[w] = c
      /\ \A d \in Contexts \ {c} : sock'[d] = sock[d]
      /\ \A v \in Workers : v # w => ctx'[v] = ctx[v]
  BY DEF AcceptAlloc, Allocate, TypeOK, WorkerType, ContextType
<1>3. /\ free[c] > 0 \/ c \notin born
      /\ ~(free'[c] > 0) /\ c \in born'
      /\ \A d \in Contexts \ {c} : free'[d] = free[d] /\ (d \in born' <=> d \in born)
  <2>1. free[c] \in Nat /\ connected[c] \in Nat /\ connected[c] + free[c] <= 1
    BY DEF PoolInv, PoolDiscipline, TypeOK, PoolType
  <2>2. c \notin born => free[c] = 0
    BY <2>1 DEF PoolInv, TypeOK, PoolType
  <2> QED BY <2>1, <2>2 DEF AcceptAlloc, Allocate, TypeOK, PoolType
<1>4. /\ OpsOf(c) = {} /\ Handlers(c) = {} /\ cnt[c] = 0
      /\ inBuf[c] = <<>> /\ LockInv(c)
  BY <1>3 DEF PendingInv, ContextInv, FreeInv
<1>5. \A d \in Contexts : OpsOf(d)' = OpsOf(d)
  BY <1>1 DEF OpsOf
<1>6. PICK l \in {"acc_post", "idle"} : Goto(w, l)
  BY DEF AcceptAlloc
<1>7. /\ pc'[w] = l /\ Handlers(c)' = IF l = "acc_post" THEN {w} ELSE {}
      /\ \A v \in Workers : v # w => pc'[v] = pc[v] /\ ctx'[v] = ctx[v]
  <2>1. pc'[w] = l /\ \A v \in Workers : v # w => pc'[v] = pc[v]
    BY <1>6 DEF Goto, TypeOK, WorkerType
  <2>2. Handlers(c)' = IF l = "acc_post" THEN {w} ELSE {}
    <3>1. w \in Handlers(c)' <=> l = "acc_post"
      BY <1>2, <2>1, Labels DEF Handlers, Leaving
    <3>2. \A v \in Workers : v # w => v \notin Handlers(c)'
      BY <1>1, <1>2, <1>4, <2>1 DEF Handlers, Leaving
    <3>3. Handlers(c)' \subseteq Workers
      BY DEF Handlers
    <3> QED BY <3>1, <3>2, <3>3
  <2> QED BY <1>2, <2>1, <2>2
<1>8. IsFiniteSet(ops') /\ RetInv'
  BY <1>1 DEF PendingInv, RetInv
<1>9. Local(w, c)
  BY <1>1, <1>2, <1>3, <1>5, <1>7, Labels DEF Local, bufVars
<1>10. LockInv(c)'
  BY <1>1, <1>4, <1>6, <1>7 DEF LockInv, Closing, InClose, bufVars
<1>11. UniqueInv(c)' /\ AloneInv(c)' /\ LockInv(c)'
  BY <1>1, <1>4, <1>5, <1>7, <1>10 DEF UniqueInv, AloneInv
<1>12. InputInv(c)' /\ SocketInv(c)' /\ StaleInv(c)' /\ OutputInv(c)' /\ FreeInv(c)'
  BY <1>1, <1>3, <1>4, <1>5, <1>7
  DEF InputInv, SocketInv, StaleInv, OutputInv, FreeInv, WillRecv, bufVars
<1>13. CoverInv(c)'
  <2>1. Held(w, c) = 0 /\ Held(w, c)' = 0
    BY <1>4, <1>7 DEF Held
  <2>2. cnt'[c] = cnt[c] /\ cnt[c] \in Int
    BY <1>1 DEF TypeOK, ContextType
  <2>3. cnt'[c] + Held(w, c) >= cnt[c] + Held(w, c)'
    BY <2>1, <2>2
  <2> QED BY <1>5, <1>8, <1>9, <2>2, <2>3, CoverStep
<1> QED BY <1>8, <1>9, <1>11, <1>12, <1>13, PendingKeeps

\* handleAccept.
LEMMA PendingAccept ==
  ASSUME TypeOK, PoolInv, PendingInv, NEW w \in Workers, HandleAccept(w)
  PROVE  PendingInv'
<1>1. CASE AcceptCheck(w)
  <2>1. \E l \in {"idle", "acc_inc"} : Goto(w, l)
    BY <1>1 DEF AcceptCheck
  <2> QED BY <1>1, <2>1, PendingNoContext, Labels DEF AcceptCheck, At
<1>2. CASE AcceptCount(w)
  BY <1>2, PendingNoContext, Labels DEF AcceptCount, At
<1>3. ASSUME NEW c \in Contexts, AcceptAlloc(w, c)
      PROVE  PendingInv'
  BY <1>3, PendingAlloc
<1>4. CASE AcceptPost(w)
  <2>1. pc[w] = "acc_post" /\ pc[w] \in UsesContext /\ ctx[w] \in Contexts
    BY <1>4, Labels DEF AcceptPost, At, TypeOK, WorkerType
  <2>2. /\ cnt'[ctx[w]] = cnt[ctx[w]] + 1
        /\ \A d \in Contexts \ {ctx[w]} : cnt'[d] = cnt[d]
    BY <1>4, <2>1 DEF AcceptPost, TypeOK, ContextType
  <2> QED BY <1>4, <2>1, <2>2, PendingMove DEF AcceptPost, bufVars, poolVars
<1>5. CASE AcceptAdd(w)
  <2>1. pc[w] = "acc_add" /\ pc[w] \in UsesContext
    BY <1>5, Labels DEF AcceptAdd, At
  <2> QED BY <1>5, <2>1, PendingMove DEF AcceptAdd, bufVars
<1> QED BY <1>1, <1>2, <1>3, <1>4, <1>5 DEF HandleAccept

\* Where a step of send() or handleSend goes on.
After(w) == IF pc[w] = "notify" THEN "sent" ELSE "idle"

\* Steps that write m_outBuf: the first bytes of send(), for which it calls
\* enterIoLoop, and what handleSend leaves.  They are posted, or they are not
\* (the socket is closed, there are none, the process dies), or the worker goes
\* on to give up the counter of the send with the lock held.
LEMMA PendingOutput ==
  ASSUME TypeOK, PendingInv, NEW w \in Workers, NEW c, ctx[w] = c,
         NEW l, Goto(w, l),
         UNCHANGED <<ctx, nb, sock, inBuf, free, born>>,
         lock[c] \in {None, w},
         \A d \in Contexts \ {c} :
           cnt'[d] = cnt[d] /\ lock'[d] = lock[d] /\ outBuf'[d] = outBuf[d],
         \A v \in Workers \ {w} : ret'[v] = ret[v],
         \/ pc[w] = "notify" /\ outBuf[c] = <<>> /\ cnt'[c] = cnt[c] + 1
         \/ pc[w] = "hsend" /\ cnt'[c] = cnt[c],
         \/ /\ l = After(w) /\ ops' = ops /\ lock'[c] = lock[c] /\ ret'[w] = ret[w]
         \/ /\ l = After(w) /\ lock'[c] = lock[c] /\ ret'[w] = ret[w]
            /\ sock[c] # None /\ outBuf'[c] # <<>>
            /\ ops' = ops \cup {[type |-> "send", ctx |-> c, sock |-> sock[c],
                                 data |-> outBuf'[c]]}
         \/ /\ l = "close" /\ ops' = ops /\ lock'[c] = w /\ ret'[w] = After(w)
         \/ /\ l = "release" /\ pc[w] = "hsend" /\ outBuf'[c] = <<>>
            /\ ops' = ops /\ lock'[c] = w /\ ret'[w] = "drained"
  PROVE  PendingInv'
<1>0. pc[w] \in UsesContext \ {"unlock"}
  BY Labels
<1>1. /\ c \in Contexts /\ w \in Handlers(c) /\ ContextInv(c)
      /\ ~(free[c] > 0) /\ c \in born
      /\ \A v \in Handlers(c) : v # w => pc[v] \notin {"acc_post", "remove"}
  BY <1>0, InHandler
<1>2. /\ pc'[w] = l /\ Handlers(c) \subseteq Workers
      /\ Handlers(c)' = IF l = "idle" THEN Handlers(c) \ {w} ELSE Handlers(c)
      /\ \A v \in Workers : v # w => pc'[v] = pc[v] /\ ctx'[v] = ctx[v]
  <2>1. ctx'[w] = c /\ \A v \in Workers : v # w => ctx'[v] = ctx[v]
    OBVIOUS
  <2>2. l \in {"idle", "sent", "close", "release"}
    BY DEF After
  <2>3. IF l = "idle" THEN l \notin UsesContext ELSE l \in UsesContext \ {"unlock"}
    BY <2>2, Labels
  <2>4. /\ pc'[w] = l /\ Handlers(c) \subseteq Workers
        /\ l \in UsesContext \ {"unlock"} => Handlers(c)' = Handlers(c) \cup {w}
        /\ l \notin UsesContext => Handlers(c)' = Handlers(c) \ {w}
        /\ \A v \in Workers : v # w => pc'[v] = pc[v] /\ ctx'[v] = ctx[v]
    BY <1>1, <2>1, JumpHandlers
  <2> QED BY <1>1, <2>3, <2>4
<1>3. /\ \A o \in OpsOf(c) : o.type # "send"
      /\ \A v \in Handlers(c) : v # w => pc[v] # "hsend"
  BY <1>1 DEF ContextInv, UniqueInv, OutputInv
<1>4. \/ OpsOf(c)' = OpsOf(c) /\ ops' = ops
      \/ /\ l = After(w) /\ lock'[c] = lock[c] /\ ret'[w] = ret[w]
         /\ \E o : /\ ops' = ops \cup {o} /\ OpsOf(c)' = OpsOf(c) \cup {o}
                   /\ o.type = "send" /\ o.data = outBuf'[c] /\ o.data # <<>>
                   /\ o.sock = sock[c] /\ o.ctx = c
  <2>1. CASE ops' = ops
    BY <2>1 DEF OpsOf
  <2>2. CASE ops' # ops
    <3> DEFINE op == [type |-> "send", ctx |-> c, sock |-> sock[c], data |-> outBuf'[c]]
    <3>1. op.type = "send" /\ op.data = outBuf'[c] /\ op.sock = sock[c] /\ op.ctx = c
      OBVIOUS
    <3> HIDE DEF op
    <3>2. /\ l = After(w) /\ lock'[c] = lock[c] /\ ret'[w] = ret[w]
          /\ ops' = ops \cup {op} /\ outBuf'[c] # <<>>
      BY <2>2 DEF op
    <3>3. OpsOf(c)' = OpsOf(c) \cup {op}
      BY <3>1, <3>2 DEF OpsOf
    <3> QED BY <3>1, <3>2, <3>3
  <2> QED BY <2>1, <2>2
<1>5. IsFiniteSet(ops') /\ \A d \in Contexts \ {c} : OpsOf(d)' = OpsOf(d)
  BY <1>4, FS_AddElement DEF PendingInv, OpsOf
<1>6. RetInv'
  BY DEF PendingInv, RetInv, After
<1>7. Local(w, c)
  BY <1>0, <1>2, <1>5 DEF Local
<1>8. UniqueInv(c)' /\ AloneInv(c)' /\ LockInv(c)'
  <2>1. UniqueInv(c)'
    BY <1>1, <1>2, <1>3, <1>4 DEF ContextInv, UniqueInv, WillRecv, InClose, After
  <2>2. AloneInv(c)'
    BY <1>1, <1>2, <1>3, <1>4 DEF ContextInv, AloneInv, After
  <2>3. LockInv(c)'
    <3>1. lock[c] = None /\ \A v \in Workers : lock[c] # v
      BY <1>1, ConstAssumption DEF ContextInv, LockInv, Closing, InClose
    <3>2. \A v \in Workers : v # w /\ ctx[v] = c => ~(Closing(v) /\ ret[v] = "drained")
                                                   /\ pc[v] # "unlock"
      BY <1>1, <3>1 DEF ContextInv, LockInv
    <3> QED BY <1>2, <1>4, <3>1, <3>2 DEF LockInv, Closing, InClose, After
  <2> QED BY <2>1, <2>2, <2>3
<1>9. InputInv(c)' /\ SocketInv(c)' /\ StaleInv(c)' /\ OutputInv(c)' /\ FreeInv(c)'
  <2>1. InputInv(c)' /\ SocketInv(c)'
    BY <1>1, <1>2, <1>4 DEF ContextInv, InputInv, SocketInv, WillRecv, InClose,
                            HasInput, After
  <2>2. StaleInv(c)' /\ OutputInv(c)' /\ FreeInv(c)'
    BY <1>1, <1>2, <1>3, <1>4 DEF ContextInv, StaleInv, OutputInv, FreeInv, After
  <2> QED BY <2>1, <2>2
<1>10. CoverInv(c)'
  <2>1. /\ Held(w, c) = 1
        /\ l = "idle" => Held(w, c)' = 0
        /\ l = "sent" => Held(w, c)' = 1
        /\ l \in {"close", "release"} => Held(w, c)' = IF pc[w] = "notify" THEN 2 ELSE 1
    BY <1>1, <1>2 DEF Held, After
  <2>2. cnt[c] \in Int /\ cnt'[c] \in Int
    BY <1>1 DEF TypeOK, ContextType
  <2>3. /\ cnt'[c] + Held(w, c) >= cnt[c] + Held(w, c)'
        /\ l = After(w) => cnt'[c] + Held(w, c) >= cnt[c] + Held(w, c)' + 1
    BY <2>1, <2>2 DEF After
  <2> QED BY <1>1, <1>4, <1>5, <1>7, <2>2, <2>3, CoverStep
<1> QED BY <1>1, <1>5, <1>6, <1>7, <1>8, <1>9, <1>10, PendingKeeps

\* postSend, called by send() or by handleSend.
LEMMA PendingPostSend ==
  ASSUME TypeOK, PendingInv, NEW w \in Workers, NEW c \in Contexts, ctx[w] = c,
         NEW p, p # <<>>, PostSend(w, p, After(w)), MayLock(w, c),
         UNCHANGED <<ctx, nb, sock, inBuf, free, born>>,
         outBuf' = [outBuf EXCEPT ![c] = p],
         \A d \in Contexts \ {c} : cnt'[d] = cnt[d],
         \/ pc[w] = "notify" /\ outBuf[c] = <<>> /\ cnt'[c] = cnt[c] + 1
         \/ pc[w] = "hsend" /\ cnt'[c] = cnt[c]
  PROVE  PendingInv'
<1>1. /\ outBuf'[c] = p /\ lock[c] \in {None, w}
      /\ \A d \in Contexts \ {c} : outBuf'[d] = outBuf[d]
  BY DEF MayLock, TypeOK, ContextType
<1>2. CASE Goto(w, After(w)) /\ UNCHANGED <<ops, ret, lock>>
  BY <1>1, <1>2, PendingOutput
<1>3. CASE /\ sock[c] # None /\ Goto(w, After(w)) /\ UNCHANGED <<ret, lock>>
           /\ ops' = ops \cup
                {[type |-> "send", ctx |-> c, sock |-> sock[c], data |-> p]}
  BY <1>1, <1>3, PendingOutput
<1>4. CASE CallClose(w, After(w)) /\ lock' = [lock EXCEPT ![c] = w] /\ ops' = ops
  <2>1. /\ Goto(w, "close") /\ ret'[w] = After(w) /\ lock'[c] = w
        /\ \A v \in Workers \ {w} : ret'[v] = ret[v]
        /\ \A d \in Contexts \ {c} : lock'[d] = lock[d]
    BY <1>4 DEF CallClose, TypeOK, WorkerType, ContextType
  <2> QED BY <1>1, <1>4, <2>1, PendingOutput
<1> QED BY <1>2, <1>3, <1>4 DEF PostSend

\* The echo callback.
LEMMA PendingEcho ==
  ASSUME TypeOK, PendingInv, NEW w \in Workers, Echo(w) \/ EchoDone(w),
         NEW c, ctx[w] = c
  PROVE  PendingInv'
<1>1. pc[w] \in {"notify", "sent"} /\ pc[w] \in UsesContext
  BY Labels DEF Echo, EchoDone, At
<1>2. c \in Contexts /\ w \in Handlers(c) /\ ContextInv(c)
  BY <1>1, InHandler
<1>3. CASE EchoDone(w)
  <2>1. inBuf'[c] = <<>> /\ \A d \in Contexts \ {c} : inBuf'[d] = inBuf[d]
    BY <1>2, <1>3 DEF EchoDone, TypeOK, ContextType
  <2> QED BY <1>1, <1>3, <2>1, PendingMove DEF EchoDone, At, poolVars
<1>4. CASE Echo(w)
  <2>1. /\ pc[w] = "notify" /\ After(w) = "sent"
        /\ UNCHANGED <<ctx, nb, sock, inBuf, poolVars>>
    BY <1>4 DEF Echo, At, After
  <2>2. inBuf[c] # <<>>
    BY <1>2, <2>1 DEF ContextInv, InputInv
  <2>3. CASE /\ outBuf[c] = <<>> /\ cnt' = [cnt EXCEPT ![c] = @ + 1]
             /\ outBuf' = [outBuf EXCEPT ![c] = inBuf[c]]
             /\ PostSend(w, inBuf[c], "sent")
    <3>1. cnt'[c] = cnt[c] + 1 /\ \A d \in Contexts \ {c} : cnt'[d] = cnt[d]
      BY <1>2, <2>3 DEF TypeOK, ContextType
    <3>2. MayLock(w, c)
      BY <1>4 DEF Echo, Send
    <3> QED BY <1>2, <2>1, <2>2, <2>3, <3>1, <3>2, PendingPostSend DEF poolVars
  <2>4. CASE Goto(w, "sent") /\ UNCHANGED <<cnt, outBuf, ops, ret, lock>>
    BY <1>1, <2>1, <2>4, PendingMove DEF poolVars
  <2> QED BY <1>4, <2>3, <2>4 DEF Echo, Send
<1> QED BY <1>3, <1>4

\* handleSend.
LEMMA PendingHandleSend ==
  ASSUME TypeOK, PendingInv, NEW w \in Workers, HandleSend(w), NEW c, ctx[w] = c
  PROVE  PendingInv'
<1>1. /\ pc[w] = "hsend" /\ After(w) = "idle" /\ lock[c] \in {None, w} /\ MayLock(w, c)
      /\ UNCHANGED <<ctx, nb, sock, cnt, inBuf, poolVars>>
  BY DEF HandleSend, SendNext, SendQueued, At, MayLock, After
<1>2. c \in Contexts
  BY <1>1, Labels DEF TypeOK, WorkerType
<1>3. ASSUME NEW p, p # <<>>, outBuf' = [outBuf EXCEPT ![c] = p], PostSend(w, p, "idle")
      PROVE  PendingInv'
  BY <1>1, <1>2, <1>3, PendingPostSend DEF poolVars
<1>4. ASSUME NEW p, outBuf' = [outBuf EXCEPT ![c] = p],
             Goto(w, "idle"), UNCHANGED <<ops, ret, lock>>
      PROVE  PendingInv'
  <2>1. \A d \in Contexts \ {c} : outBuf'[d] = outBuf[d]
    BY <1>2, <1>4 DEF TypeOK, ContextType
  <2> QED BY <1>1, <1>4, <2>1, PendingOutput DEF poolVars
<1>5. ASSUME outBuf' = [outBuf EXCEPT ![c] = <<>>], Goto(w, "release"), ops' = ops,
             ret' = [ret EXCEPT ![w] = "drained"], lock' = [lock EXCEPT ![c] = w]
      PROVE  PendingInv'
  <2>1. /\ ret'[w] = "drained" /\ lock'[c] = w /\ outBuf'[c] = <<>>
        /\ \A v \in Workers \ {w} : ret'[v] = ret[v]
        /\ \A d \in Contexts \ {c} : outBuf'[d] = outBuf[d] /\ lock'[d] = lock[d]
    BY <1>2, <1>5 DEF TypeOK, WorkerType, ContextType
  <2> QED BY <1>1, <1>5, <2>1, PendingOutput DEF poolVars
<1>6. CASE SendNext(w)
  BY <1>3, <1>5, <1>6 DEF SendNext
<1>7. CASE SendQueued(w)
  BY <1>3, <1>4, <1>7 DEF SendQueued
<1> QED BY <1>6, <1>7 DEF HandleSend

\* exitIoLoop: the last counter belongs to the only worker that uses the context.
LEMMA PendingRelease ==
  ASSUME TypeOK, PendingInv, NEW w \in Workers, Release(w), NEW c, ctx[w] = c
  PROVE  PendingInv'
<1>1. /\ pc[w] = "release" /\ pc[w] \in UsesContext
      /\ UNCHANGED <<ctx, ret, nb, sock, bufVars, lock, poolVars, ops>>
      /\ cnt' = [cnt EXCEPT ![c] = @ - 1]
  BY Labels DEF Release, At
<1>2. /\ c \in Contexts /\ w \in Handlers(c) /\ ContextInv(c)
      /\ ~(free[c] > 0) /\ c \in born
      /\ \A v \in Handlers(c) : v # w => pc[v] \notin {"acc_post", "remove"}
  BY <1>1, InHandler
<1>3. /\ cnt[c] \in Int /\ cnt'[c] = cnt[c] - 1
      /\ \A d \in Contexts \ {c} : cnt'[d] = cnt[d]
  BY <1>1, <1>2 DEF TypeOK, ContextType
<1>4. \A d \in Contexts : OpsOf(d)' = OpsOf(d)
  BY <1>1 DEF OpsOf
<1>5. IsFiniteSet(ops') /\ RetInv'
  BY <1>1 DEF PendingInv, RetInv
<1>6. ret[w] \in {"idle", "drained", "sent"} /\ Held(w, c) = IF ret[w] = "sent" THEN 2 ELSE 1
  BY <1>1, <1>2 DEF PendingInv, RetInv, TypeOK, WorkerType, Returns, Held
<1>7. CASE cnt[c] - 1 <= 0 /\ Goto(w, "remove")
  <2>1. IsFiniteSet(ops) /\ CoverInv(c) /\ Held(w, c) >= 1
    BY <1>2, <1>6 DEF PendingInv, ContextInv
  <2>2. /\ cnt[c] = 1 /\ OpsOf(c) = {} /\ Held(w, c) = 1
        /\ \A v \in Workers : v # w => Held(v, c) = 0
    BY <1>2, <1>7, <2>1, LastCounter
  <2>3. ret[w] \in {"idle", "drained"}
    BY <1>6, <2>2
  <2>4. \A v \in Handlers(c) : v = w
    BY <1>2, <2>2 DEF Held, Handlers
  <2>5. Handlers(c) = {w}
    BY <1>2, <2>4
  <2>6. /\ pc'[w] = "remove" /\ Handlers(c)' = {w}
        /\ \A v \in Workers : v # w => pc'[v] = pc[v] /\ ctx'[v] = ctx[v]
    <3>1. /\ "remove" \in UsesContext \ {"unlock"} /\ ctx'[w] = c
          /\ \A v \in Workers : v # w => ctx'[v] = ctx[v] /\ ret'[v] = ret[v]
      BY <1>1, Labels
    <3>2. /\ pc'[w] = "remove" /\ Handlers(c)' = Handlers(c) \cup {w}
          /\ \A v \in Workers : v # w => pc'[v] = pc[v] /\ ctx'[v] = ctx[v]
      BY <1>2, <1>7, <3>1, JumpHandlers
    <3> QED BY <2>5, <3>2
  <2>7. Local(w, c)
    BY <1>1, <1>3, <1>4, <1>7, <2>6 DEF Local, bufVars, poolVars
  <2>8. UniqueInv(c)' /\ AloneInv(c)' /\ LockInv(c)'
    <3>1. OpsOf(c)' = {} /\ cnt'[c] = 0 /\ ret'[w] \in {"idle", "drained"}
      BY <1>1, <1>2, <1>3, <1>4, <2>2, <2>3
    <3>2. UniqueInv(c)' /\ AloneInv(c)'
      BY <2>6, <3>1 DEF UniqueInv, AloneInv
    <3>3. /\ Closing(w) /\ Closing(w)'
          /\ \A v \in Workers : v # w => (Closing(v)' <=> Closing(v))
      BY <1>1, <2>6 DEF Closing, InClose
    <3>4. LockInv(c)'
      BY <1>1, <1>2, <2>6, <3>3 DEF ContextInv, LockInv, bufVars
    <3> QED BY <3>2, <3>4
  <2>9. InputInv(c)' /\ SocketInv(c)' /\ StaleInv(c)' /\ OutputInv(c)' /\ FreeInv(c)'
    BY <1>1, <1>2, <1>4, <2>2, <2>3, <2>5, <2>6
    DEF ContextInv, InputInv, SocketInv, StaleInv, OutputInv, FreeInv, WillRecv,
        InClose, HasInput, bufVars, poolVars
  <2>10. CoverInv(c)'
    <3>1. Held(w, c)' = 0
      BY <1>1, <2>3, <2>6 DEF Held
    <3>2. cnt'[c] \in Int /\ cnt'[c] + Held(w, c) >= cnt[c] + Held(w, c)'
      BY <1>3, <2>2, <3>1
    <3> QED BY <1>2, <1>4, <1>5, <2>7, <3>2, CoverStep
  <2> QED BY <1>2, <1>5, <2>7, <2>8, <2>9, <2>10, PendingKeeps
<1>8. CASE Return(w)
  <2>1. PICK l \in {"idle", "sent", "unlock"} :
          /\ Goto(w, l)
          /\ l # "unlock" => l = ret[w] /\ lock[c] # w
          /\ l = "unlock" => lock[c] = w
    BY <1>1, <1>2, <1>6, <1>8 DEF Return, ContextInv, LockInv, Closing, InClose
  <2>2. /\ pc'[w] = l /\ Handlers(c) \subseteq Workers
        /\ Handlers(c)' = IF ret[w] = "sent" THEN Handlers(c) ELSE Handlers(c) \ {w}
        /\ \A v \in Workers : v # w => pc'[v] = pc[v] /\ ctx'[v] = ctx[v]
    <3>1. /\ pc'[w] = l /\ \A v \in Workers : v # w => pc'[v] = pc[v] /\ ctx'[v] = ctx[v]
      <4>1. Goto(w, l) /\ ctx' = ctx
        BY <1>1, <2>1
      <4> QED BY <4>1 DEF Goto, TypeOK, WorkerType
    <3>2. w \in Handlers(c)' <=> ret[w] = "sent"
      <4>1. ctx'[w] = c /\ ret'[w] = ret[w]
        BY <1>1
      <4>2. CASE l = "unlock"
        BY <1>6, <3>1, <4>1, <4>2, Labels DEF Handlers, Leaving
      <4>3. CASE l # "unlock"
        BY <1>6, <2>1, <3>1, <4>1, <4>3, Labels DEF Handlers, Leaving
      <4> QED BY <4>2, <4>3
    <3>3. \A v \in Workers : v # w => (v \in Handlers(c)' <=> v \in Handlers(c))
      BY <1>1, <3>1 DEF Handlers, Leaving
    <3>4. Handlers(c) \subseteq Workers /\ Handlers(c)' \subseteq Workers
      BY DEF Handlers
    <3> QED BY <1>2, <3>1, <3>2, <3>3, <3>4
  <2>3. Local(w, c)
    BY <1>1, <1>3, <1>4, <2>2 DEF Local, bufVars, poolVars
  <2>4. LockInv(c)'
    <3>1. /\ Closing(w) /\ (Closing(w)' <=> l = "unlock")
          /\ \A v \in Workers : v # w => (Closing(v)' <=> Closing(v))
      BY <1>1, <2>2, <2>1 DEF Closing, InClose
    <3>2. lock'[c] = lock[c] /\ outBuf'[c] = outBuf[c] /\ ctx' = ctx /\ ret' = ret
      BY <1>1 DEF bufVars
    <3>3. /\ l = "unlock" <=> lock[c] = w
          /\ \A v \in Workers : lock[c] = v => ctx[v] = c /\ Closing(v)
      BY <1>2, <2>1 DEF ContextInv, LockInv
    <3> QED BY <1>2, <2>2, <3>1, <3>2, <3>3 DEF ContextInv, LockInv
  <2>5. UniqueInv(c)' /\ AloneInv(c)'
    BY <1>1, <1>2, <1>4, <1>6, <2>1, <2>2
    DEF ContextInv, UniqueInv, AloneInv, InClose, WillRecv
  <2>6. InputInv(c)' /\ SocketInv(c)' /\ StaleInv(c)' /\ OutputInv(c)' /\ FreeInv(c)'
    <3>1. /\ sock'[c] = sock[c] /\ inBuf'[c] = inBuf[c] /\ outBuf'[c] = outBuf[c]
          /\ free'[c] = free[c] /\ born' = born /\ nb' = nb /\ ret' = ret
      BY <1>1 DEF bufVars, poolVars
    <3>2. /\ ~(pc'[w] \in {"notify", "hsend", "close"})
          /\ (WillRecv(w)' <=> ret[w] = "sent") /\ (HasInput(w)' <=> ret[w] = "sent")
          /\ (WillRecv(w) <=> ret[w] = "sent") /\ (HasInput(w) <=> ret[w] = "sent")
      BY <1>1, <1>6, <2>1, <2>2 DEF WillRecv, HasInput, InClose
    <3>3. \A v \in Workers : v # w => /\ WillRecv(v)' <=> WillRecv(v)
                                     /\ HasInput(v)' <=> HasInput(v)
      BY <2>2, <3>1 DEF WillRecv, HasInput, InClose
    <3>4. InputInv(c)' /\ SocketInv(c)'
      <4>1. InputInv(c) /\ SocketInv(c) /\ pc[w] = "release"
        BY <1>1, <1>2 DEF ContextInv
      <4>2. CASE ret[w] = "sent"
        BY <1>2, <1>4, <2>2, <3>1, <3>2, <3>3, <4>1, <4>2 DEF InputInv, SocketInv
      <4>3. CASE ret[w] # "sent"
        <5>1. \A v \in Handlers(c)' :
                /\ v \in Handlers(c) /\ v # w /\ pc'[v] = pc[v]
                /\ (WillRecv(v)' <=> WillRecv(v)) /\ (HasInput(v)' <=> HasInput(v))
          <6> SUFFICES ASSUME NEW v \in Handlers(c)'
                       PROVE  /\ v \in Handlers(c) /\ v # w /\ pc'[v] = pc[v]
                              /\ (WillRecv(v)' <=> WillRecv(v))
                              /\ (HasInput(v)' <=> HasInput(v))
            OBVIOUS
          <6>1. v \in Handlers(c) /\ v # w /\ v \in Workers
            BY <2>2, <4>3
          <6>2. pc'[v] = pc[v] /\ ret'[v] = ret[v]
            BY <2>2, <3>1, <6>1
          <6> QED BY <6>1, <6>2 DEF WillRecv, HasInput, InClose
        <5>2. \A v \in Handlers(c) :
                WillRecv(v) \/ HasInput(v) \/ pc[v] = "close" => v \in Handlers(c)'
          BY <2>2, <3>2, <4>1, <4>3
        <5>3. InputInv(c)'
          BY <3>1, <4>1, <5>1, <5>2 DEF InputInv
        <5>4. SocketInv(c)'
          BY <1>2, <1>4, <3>1, <4>1, <5>1, <5>2 DEF SocketInv
        <5> QED BY <5>3, <5>4
      <4> QED BY <4>2, <4>3
    <3>5. StaleInv(c)' /\ OutputInv(c)' /\ FreeInv(c)'
      BY <1>2, <1>4, <2>2, <3>1, <3>2 DEF ContextInv, StaleInv, OutputInv, FreeInv
    <3> QED BY <3>4, <3>5
  <2>7. CoverInv(c)'
    <3>1. Held(w, c)' = IF ret[w] = "sent" THEN 1 ELSE 0
      BY <1>1, <1>2, <1>6, <2>1, <2>2 DEF Held
    <3>2. cnt'[c] \in Int /\ cnt'[c] + Held(w, c) >= cnt[c] + Held(w, c)'
      BY <1>3, <1>6, <3>1
    <3> QED BY <1>2, <1>4, <1>5, <2>3, <3>2, CoverStep
  <2> QED BY <1>2, <1>5, <2>3, <2>4, <2>5, <2>6, <2>7, PendingKeeps
<1> QED BY <1>7, <1>8 DEF Release

\* removeClient: the context that goes back to the pool is not in use.
LEMMA PendingRemove ==
  ASSUME TypeOK, PendingInv, NEW w \in Workers, RemoveClient(w), NEW c, ctx[w] = c
  PROVE  PendingInv'
<1>1. /\ pc[w] = "remove" /\ pc[w] \in UsesContext /\ Return(w)
      /\ UNCHANGED <<ctx, ret, nb, sock, cnt, bufVars, lock, born, ops>>
  BY Labels DEF RemoveClient, At
<1>2. /\ c \in Contexts /\ w \in Handlers(c) /\ ContextInv(c) /\ c \in born
  BY <1>1, InHandler
<1>3. /\ cnt[c] = 0 /\ OpsOf(c) = {} /\ Handlers(c) = {w}
      /\ ret[w] \in {"idle", "drained"}
  BY <1>1, <1>2 DEF ContextInv, AloneInv
<1>4. \A d \in Contexts \ {c} : free'[d] = free[d]
  BY <1>1, <1>2 DEF RemoveClient, TypeOK, PoolType
<1>5. OpsOf(c)' = {} /\ \A d \in Contexts : OpsOf(d)' = OpsOf(d)
  BY <1>1, <1>3 DEF OpsOf
<1>6. IsFiniteSet(ops') /\ RetInv'
  BY <1>1 DEF PendingInv, RetInv
<1>7. PICK l \in {"idle", "unlock"} :
        /\ Goto(w, l)
        /\ l # "unlock" => lock[c] # w
        /\ l = "unlock" => lock[c] = w
  BY <1>1, <1>2, <1>3 DEF Return, ContextInv, LockInv, Closing
<1>8. /\ pc'[w] = l /\ Handlers(c)' = {}
      /\ \A v \in Workers : v # w => pc'[v] = pc[v] /\ ctx'[v] = ctx[v]
  <2>1. /\ pc'[w] = l
        /\ \A v \in Workers : v # w => pc'[v] = pc[v] /\ ctx'[v] = ctx[v]
    <3>1. Goto(w, l) /\ ctx' = ctx
      BY <1>1, <1>7
    <3> QED BY <3>1 DEF Goto, TypeOK, WorkerType
  <2>2. w \notin Handlers(c)'
    BY <1>1, <1>3, <2>1, Labels DEF Handlers, Leaving
  <2>3. \A v \in Workers : v # w => v \notin Handlers(c)'
    BY <1>1, <1>3, <2>1 DEF Handlers, Leaving
  <2> QED BY <2>1, <2>2, <2>3 DEF Handlers
<1>9. Local(w, c)
  BY <1>1, <1>4, <1>5, <1>8 DEF Local, bufVars
<1>10. sock[c] = None /\ inBuf[c] = <<>>
  <2>1. ~WillRecv(w) /\ ~HasInput(w) /\ pc[w] # "close"
    BY <1>1 DEF WillRecv, HasInput, InClose
  <2> QED BY <1>2, <1>3, <2>1 DEF ContextInv, SocketInv, InputInv
<1>11. LockInv(c)'
  <2>1. /\ Closing(w) /\ (Closing(w)' <=> l = "unlock")
        /\ \A v \in Workers : v # w => (Closing(v)' <=> Closing(v))
    BY <1>1, <1>7, <1>8 DEF Closing, InClose
  <2>2. lock'[c] = lock[c] /\ outBuf'[c] = outBuf[c] /\ ctx' = ctx /\ ret' = ret
    BY <1>1 DEF bufVars
  <2>3. l = "unlock" <=> lock[c] = w
    BY <1>7
  <2> QED BY <1>2, <1>8, <2>1, <2>2, <2>3 DEF ContextInv, LockInv
<1>12. UniqueInv(c)' /\ AloneInv(c)'
  BY <1>3, <1>5, <1>8 DEF UniqueInv, AloneInv
<1>13. InputInv(c)' /\ SocketInv(c)' /\ StaleInv(c)' /\ OutputInv(c)' /\ FreeInv(c)'
  BY <1>1, <1>3, <1>5, <1>8, <1>10
  DEF InputInv, SocketInv, StaleInv, OutputInv, FreeInv, bufVars
<1>14. CoverInv(c)'
  <2>1. Held(w, c) = 0 /\ Held(w, c)' = 0
    BY <1>1, <1>3, <1>8 DEF Held
  <2>2. cnt'[c] \in Int /\ cnt'[c] + Held(w, c) >= cnt[c] + Held(w, c)'
    BY <1>1, <1>3, <2>1
  <2> QED BY <1>2, <1>5, <1>6, <1>9, <2>2, CoverStep
<1> QED BY <1>2, <1>6, <1>9, <1>11, <1>12, <1>13, <1>14, PendingKeeps

\* The LockGuard is destroyed: the context may be free, or with another client,
\* and nothing of it but the lock is touched.
LEMMA PendingUnlock ==
  ASSUME TypeOK, PendingInv, NEW w \in Workers, Unlock(w), NEW c, ctx[w] = c
  PROVE  PendingInv'
<1>1. /\ pc[w] = "unlock" /\ pc[w] \in UsesContext
      /\ lock' = [lock EXCEPT ![c] = None]
      /\ UNCHANGED <<ctx, ret, nb, sock, cnt, bufVars, poolVars, ops>>
  BY Labels DEF Unlock, At
<1>2. c \in Contexts /\ ContextInv(c)
  BY <1>1 DEF TypeOK, WorkerType, PendingInv
<1>3. /\ lock[c] = w /\ lock'[c] = None /\ lock'[c] \notin Workers
      /\ \A d \in Contexts \ {c} : lock'[d] = lock[d]
  BY <1>1, <1>2, ConstAssumption DEF ContextInv, LockInv, TypeOK, ContextType
<1>4. \A d \in Contexts : OpsOf(d)' = OpsOf(d)
  BY <1>1 DEF OpsOf
<1>5. IsFiniteSet(ops') /\ RetInv'
  BY <1>1 DEF PendingInv, RetInv
<1>6. PICK l \in {"idle", "sent"} : Goto(w, l) /\ (l = "sent" <=> ret[w] = "sent")
  BY DEF Unlock, PendingInv, RetInv, TypeOK, WorkerType, Returns
<1>7. /\ pc'[w] = l /\ Handlers(c) \subseteq Workers /\ Handlers(c)' = Handlers(c)
      /\ (w \in Handlers(c) <=> l = "sent")
      /\ \A v \in Workers : v # w => pc'[v] = pc[v] /\ ctx'[v] = ctx[v]
  <2>1. /\ pc'[w] = l
        /\ \A v \in Workers : v # w => pc'[v] = pc[v] /\ ctx'[v] = ctx[v]
    BY <1>1, <1>6 DEF Goto, TypeOK, WorkerType
  <2>2. ret[w] \in {"idle", "drained", "sent"}
    BY DEF PendingInv, RetInv, TypeOK, WorkerType, Returns
  <2>3. (w \in Handlers(c)' <=> l = "sent") /\ (w \in Handlers(c) <=> l = "sent")
    BY <1>1, <1>6, <2>1, <2>2, Labels DEF Handlers, Leaving
  <2>4. \A v \in Workers : v # w => (v \in Handlers(c)' <=> v \in Handlers(c))
    BY <1>1, <2>1 DEF Handlers, Leaving
  <2>5. Handlers(c) \subseteq Workers /\ Handlers(c)' \subseteq Workers
    BY DEF Handlers
  <2> QED BY <2>1, <2>3, <2>4, <2>5
<1>8. Local(w, c)
  BY <1>1, <1>3, <1>4, <1>7 DEF Local, bufVars, poolVars
<1>9. LockInv(c)'
  BY <1>1, <1>2, <1>3, <1>6, <1>7 DEF ContextInv, LockInv, Closing, InClose
<1>10. UniqueInv(c)' /\ AloneInv(c)'
  BY <1>1, <1>2, <1>4, <1>6, <1>7
  DEF ContextInv, UniqueInv, AloneInv, WillRecv, InClose
<1>11. InputInv(c)' /\ SocketInv(c)' /\ StaleInv(c)' /\ OutputInv(c)' /\ FreeInv(c)'
  BY <1>1, <1>2, <1>4, <1>6, <1>7
  DEF ContextInv, InputInv, SocketInv, StaleInv, OutputInv, FreeInv, WillRecv,
      InClose, HasInput, bufVars, poolVars
<1>12. CoverInv(c)'
  <2>1. Held(w, c)' = Held(w, c) /\ Held(w, c) \in Int
    BY <1>1, <1>6, <1>7 DEF Held
  <2>2. cnt'[c] \in Int /\ cnt'[c] + Held(w, c) >= cnt[c] + Held(w, c)'
    BY <1>1, <1>2, <2>1 DEF TypeOK, ContextType
  <2> QED BY <1>2, <1>4, <1>5, <1>8, <2>2, CoverStep
<1> QED BY <1>2, <1>5, <1>8, <1>9, <1>10, <1>11, <1>12, PendingKeeps

\* CloseClient and releaseClientContext.
LEMMA PendingClose ==
  ASSUME TypeOK, PendingInv, NEW w \in Workers, CloseClient(w), NEW c, ctx[w] = c
  PROVE  PendingInv'
<1>1. pc[w] \in {"close", "cancel", "uncount", "release", "remove", "unlock"}
  BY DEF CloseClient, CloseTake, CloseCancel, CloseCount, Release, RemoveClient,
         Unlock, At
<1>2. pc[w] \in UsesContext /\ c \in Contexts
  BY <1>1, Labels DEF TypeOK, WorkerType
<1>3. CASE CloseTake(w)
  <2>1. sock'[c] = None /\ \A d \in Contexts \ {c} : sock'[d] = sock[d]
    BY <1>2, <1>3 DEF CloseTake, TypeOK, ContextType
  <2>2. \E l \in {"release", "cancel"} : Goto(w, l)
    BY <1>3 DEF CloseTake
  <2> QED BY <1>2, <1>3, <2>1, <2>2, PendingMove DEF CloseTake, At, bufVars, poolVars
<1>4. CASE CloseCancel(w)
  <2>1. \E l \in {"uncount", "release"} : Goto(w, l)
    BY <1>4 DEF CloseCancel
  <2> QED BY <1>2, <1>4, <2>1, PendingMove DEF CloseCancel, At, bufVars, poolVars
<1>5. CASE CloseCount(w)
  BY <1>2, <1>5, PendingMove DEF CloseCount, At, bufVars, poolVars
<1>6. CASE Release(w)
  BY <1>6, PendingRelease
<1>7. CASE RemoveClient(w)
  BY <1>7, PendingRemove
<1>8. CASE Unlock(w)
  BY <1>8, PendingUnlock
<1> QED BY <1>3, <1>4, <1>5, <1>6, <1>7, <1>8 DEF CloseClient

-----------------------------------------------------------------------------
(* The theorems *)

\* The initial state.
LEMMA PendingInit == Init => PendingInv
<1> SUFFICES ASSUME Init PROVE PendingInv
  OBVIOUS
<1>1. IsFiniteSet(ops) /\ RetInv
  BY FS_EmptySet DEF Init, RetInv
<1>2. ASSUME NEW c \in Contexts PROVE ContextInv(c)
  <2>1. OpsOf(c) = {} /\ Handlers(c) = {}
    BY Labels DEF Init, OpsOf, Handlers
  <2>2. /\ cnt[c] = 0 /\ sock[c] = None /\ lock[c] = None /\ inBuf[c] = <<>>
        /\ lock[c] \notin Workers
    BY ConstAssumption DEF Init
  <2>3. \A w \in Workers : Held(w, c) = 0
    BY <2>1 DEF Held
  <2>4. Holders(c) = {} /\ TwiceHolders(c) = {}
    BY <2>3 DEF Holders, TwiceHolders
  <2>5. CoverInv(c)
    BY <2>1, <2>2, <2>4, FS_EmptySet DEF CoverInv
  <2>6. LockInv(c)
    BY <2>2 DEF Init, LockInv, Closing, InClose
  <2> QED BY <2>1, <2>2, <2>5, <2>6
      DEF ContextInv, UniqueInv, AloneInv, InputInv, SocketInv, StaleInv,
          OutputInv, FreeInv
<1> QED BY <1>1, <1>2 DEF PendingInv

\* A step that changes nothing but the state of the heap.
LEMMA PendingStutter ==
  ASSUME PendingInv, UNCHANGED <<workerVars, sock, cnt, bufVars, lock, poolVars, ops>>
  PROVE  PendingInv'
<1>1. \A c \in Contexts : OpsOf(c)' = OpsOf(c) /\ Handlers(c)' = Handlers(c)
  BY DEF OpsOf, Handlers, Leaving, workerVars
<1>2. \A c \in Contexts, w \in Workers : Held(w, c)' = Held(w, c)
  BY <1>1 DEF Held, workerVars
<1>3. \A c \in Contexts : Holders(c)' = Holders(c) /\ TwiceHolders(c)' = TwiceHolders(c)
  BY <1>2 DEF Holders, TwiceHolders
<1>4. ASSUME NEW c \in Contexts PROVE ContextInv(c)'
  BY <1>1, <1>3
  DEF PendingInv, ContextInv, UniqueInv, AloneInv, LockInv, InputInv, SocketInv,
      StaleInv, OutputInv, FreeInv, CoverInv, WillRecv, HasInput, InClose, Closing,
      workerVars, bufVars, poolVars
<1> QED BY <1>4 DEF PendingInv, RetInv, workerVars

\* PendingInv is inductive, relative to the types and the discipline of the pool.
LEMMA PendingNext ==
  ASSUME TypeOK, PoolInv, PendingInv, [Next]_vars
  PROVE  PendingInv'
<1>1. ASSUME NEW w \in Workers,
             Dequeue(w) \/ Handle(w) \/ Echo(w) \/ EchoDone(w)
      PROVE  PendingInv'
  BY <1>1, PendingDequeue, PendingAccept, PendingPostRecv, PendingHandleSend,
     PendingClose, PendingEcho DEF Handle
<1>2. CASE HeapFault \/ Quiescent \/ UNCHANGED vars
  BY <1>2, PendingStutter DEF HeapFault, Quiescent, vars
<1> QED BY <1>1, <1>2 DEF Next

\* PendingInv holds in every state of the echo server.
LEMMA PendingAlways == Spec => []PendingInv
<1>1. TypeOK /\ PoolInv /\ PendingInv /\ [Next]_vars => PendingInv'
  BY PendingNext
<1> QED BY <1>1, PendingInit, TypeCorrect, PoolAlways, PTL DEF Spec

\* A context is on the free list only when nothing is in flight on it, no handler
\* has anything left to do with it but to give up its lock, and its socket and
\* input are given up: whatever fails, in whatever order the packets come, for
\* any number of workers and clients.
THEOREM ReleaseCorrect == Spec => []NoEarlyRelease
<1>1. TypeOK /\ PendingInv => NoEarlyRelease
  <2> SUFFICES ASSUME TypeOK, PendingInv, NEW c \in Contexts, free[c] > 0
               PROVE  /\ \A o \in ops : o.ctx # c
                      /\ Handlers(c) = {} /\ cnt[c] = 0 /\ sock[c] = None
                      /\ lock[c] # None => Leaving(lock[c]) /\ ctx[lock[c]] = c
                      /\ inBuf[c] = <<>>
    BY DEF NoEarlyRelease
  <2>1. ContextInv(c)
    BY DEF PendingInv
  <2>2. /\ \A o \in ops : o.ctx # c
        /\ Handlers(c) = {} /\ cnt[c] = 0 /\ sock[c] = None /\ inBuf[c] = <<>>
    BY <2>1 DEF ContextInv, FreeInv, OpsOf
  <2>3. ASSUME lock[c] # None
        PROVE  Leaving(lock[c]) /\ ctx[lock[c]] = c
    <3>1. PICK w \in Workers : lock[c] = w
      BY <2>3 DEF TypeOK, ContextType
    <3>2. ctx[w] = c /\ Closing(w)
      BY <2>1, <3>1 DEF ContextInv, LockInv
    <3>3. pc[w] \in UsesContext
      BY <3>2, Labels DEF Closing, InClose
    <3> QED BY <2>2, <3>1, <3>2, <3>3 DEF Handlers
  <2> QED BY <2>2, <2>3
<1> QED BY <1>1, PendingAlways, TypeCorrect, PTL

\* m_nPendingIoCnt covers the operations in flight and the handlers that will
\* post or release one: exitIoLoop never finds nothing pending too early.
THEOREM PendingCorrect == Spec => []PendingCovers
<1>1. PendingInv => PendingCovers
  BY DEF PendingInv, ContextInv, CoverInv, PendingCovers, OpsOf, Holders, TwiceHolders
<1> QED BY <1>1, PendingAlways, PTL

\* No packet of an earlier connection meets a later one on the same context, and
\* each OVERLAPPED of a context serves one operation at a time.
THEOREM PacketCorrect == Spec => []NoStalePacket
<1>1. TypeOK /\ PendingInv => NoStalePacket
  <2> SUFFICES ASSUME TypeOK, PendingInv, NEW o \in ops
               PROVE  /\ sock[o.ctx] \in {None, o.sock}
                      /\ \A p \in ops : p.ctx = o.ctx /\ p.type = o.type => p = o
    BY DEF NoStalePacket
  <2>1. ContextInv(o.ctx) /\ o \in OpsOf(o.ctx)
    BY DEF TypeOK, NetType, Op, PendingInv, OpsOf
  <2> QED BY <2>1 DEF ContextInv, StaleInv, UniqueInv, OpsOf
<1> QED BY <1>1, PendingAlways, TypeCorrect, PTL

\* m_outBuf is not written while WSASend reads it, nor before a handleSend that
\* found it empty has given up the lock.
THEOREM SendBufferCorrect == Spec => []SendBufferStable
<1>1. TypeOK /\ PendingInv => SendBufferStable
  <2> SUFFICES ASSUME TypeOK, PendingInv PROVE SendBufferStable
    OBVIOUS
  <2>1. ASSUME NEW o \in ops, o.type = "send"
        PROVE  o.data = outBuf[o.ctx]
    <3>1. ContextInv(o.ctx) /\ o \in OpsOf(o.ctx)
      BY DEF TypeOK, NetType, Op, PendingInv, OpsOf
    <3> QED BY <2>1, <3>1 DEF ContextInv, OutputInv
  <2>2. ASSUME NEW w \in Workers, pc[w] = "unlock", ret[w] = "drained"
        PROVE  outBuf[ctx[w]] = <<>>
    <3>1. ctx[w] \in Contexts
      BY <2>2, Labels DEF TypeOK, WorkerType
    <3> QED BY <2>2, <3>1 DEF PendingInv, ContextInv, LockInv, Closing
  <2> QED BY <2>1, <2>2 DEF SendBufferStable
<1> QED BY <1>1, PendingAlways, TypeCorrect, PTL

\* The first assertion of reset() never fails in the echo server: a context is
\* allocated again with no operation pending.
THEOREM ResetPendingCorrect == Spec => ResetPendingZero
<1>1. TypeOK /\ TypeOK' /\ PendingInv =>
        [\A c \in Contexts : free'[c] < free[c] => cnt[c] = 0]_vars
  <2> SUFFICES ASSUME TypeOK, TypeOK', PendingInv, NEW c \in Contexts, free'[c] < free[c]
               PROVE  cnt[c] = 0
    OBVIOUS
  <2>1. free[c] \in Nat /\ free'[c] \in Nat
    BY DEF TypeOK, PoolType
  <2> QED BY <2>1 DEF PendingInv, ContextInv, FreeInv
<1> QED BY <1>1, PendingAlways, TypeCorrect, PTL DEF ResetPendingZero

-----------------------------------------------------------------------------
(* The echo *)

\* Steps of handleAccept before the socket is stored in a context.
NewSocket == {"acc_check", "acc_inc", "acc_alloc"}

\* The socket of an operation belongs to its context, and to no other one.
OpSockInv ==
  \A o \in ops :
    /\ o.sock \in seen
    /\ \A d \in Contexts : sock[d] = o.sock => d = o.ctx
    /\ \A p \in ops : p.sock = o.sock => p.ctx = o.ctx
    /\ \A w \in Workers : pc[w] \in NewSocket => sk[w] # o.sock

\* Nothing was received from a new socket or sent to it.
NewInv ==
  /\ \A s \in Socks \ seen : wire[s] = <<>> /\ got[s] = 0
  /\ \A w \in Workers : pc[w] \in NewSocket =>
       wire[sk[w]] = <<>> /\ got[sk[w]] = 0

SockInv == OpSockInv /\ NewInv

\* Bytes of m_inBuf that were not handed to send() yet.
Waiting(c) ==
  IF \E w \in Handlers(c) : pc[w] = "notify" THEN Len(inBuf[c]) ELSE 0

\* The sequence p holds the bytes of socket s from position n + 1 on.
BytesFrom(p, s, n) == \A i \in 1 .. Len(p) : p[i] = <<s, n + i>>

\* Only bytes that have to wait for others are queued.
QueueInv(c) ==
  /\ outBuf[c] = <<>> => outQ[c] = <<>>
  /\ \A i \in 1 .. Len(outQ[c]) : outQ[c][i] # <<>>

\* The bytes of a send in flight follow those on the wire; if none were queued,
\* nothing is missing.
FlightInv(c) ==
  \A o \in OpsOf(c) : o.type = "send" =>
    /\ BytesFrom(o.data, o.sock, Len(wire[o.sock]))
    /\ Len(wire[o.sock]) + Len(o.data) <= got[o.sock]
    /\ sock[c] # None /\ outQ[c] = <<>> =>
         Len(wire[sock[c]]) + Len(outBuf[c]) = got[sock[c]] - Waiting(c)

\* So do those of m_outBuf that a completed send left.
LeftInv(c) ==
  sock[c] # None =>
    \A w \in Handlers(c) : pc[w] = "hsend" =>
      /\ nb[w] <= Len(wire[sock[c]])
      /\ BytesFrom(outBuf[c], sock[c], Len(wire[sock[c]]) - nb[w])
      /\ Len(wire[sock[c]]) - nb[w] + Len(outBuf[c]) <= got[sock[c]]
      /\ outQ[c] = <<>> =>
           Len(wire[sock[c]]) - nb[w] + Len(outBuf[c]) = got[sock[c]] - Waiting(c)

\* m_inBuf holds the last bytes received; if m_outBuf is empty the others are on
\* the wire.
InputBytesInv(c) ==
  sock[c] # None =>
    /\ \A w \in Handlers(c) : pc[w] = "notify" =>
         BytesFrom(inBuf[c], sock[c], got[sock[c]] - Len(inBuf[c]))
    /\ outBuf[c] = <<>> => Len(wire[sock[c]]) = got[sock[c]] - Waiting(c)

ByteInv(c) == QueueInv(c) /\ FlightInv(c) /\ LeftInv(c) /\ InputBytesInv(c)

EchoInv == heap = "ok" => EchoIntegrity /\ \A c \in Contexts : ByteInv(c)

-----------------------------------------------------------------------------
(* The sockets *)

\* Steps that make no socket new and store none in a context.
LEMMA SockFrame ==
  ASSUME TypeOK, OneOwner, SockInv, NEW w \in Workers, NEW l, Goto(w, l),
         l \in NewSocket => pc[w] \in NewSocket /\ sk'[w] = sk[w],
         \A v \in Workers \ {w} : sk'[v] = sk[v], seen' = seen,
         \A d \in Contexts : sock'[d] \in {sock[d], None},
         \A s \in Socks : \/ wire'[s] = wire[s] /\ got'[s] = got[s]
                          \/ \E o \in ops : o.sock = s,
         \/ ops' \subseteq ops
         \/ \E o : /\ ops' = ops \cup {o} /\ o.ctx \in Contexts
                   /\ o.sock = sock[o.ctx] /\ o.sock # None
  PROVE  SockInv'
<1>1. /\ \A v \in Workers : pc'[v] \in NewSocket =>
           pc[v] \in NewSocket /\ sk'[v] = sk[v] /\ sk[v] \in Socks
  BY Labels DEF Goto, NewSocket, TypeOK, WorkerType, HoldsAccept
<1>2. \A o \in ops' \ ops : /\ o.ctx \in Contexts /\ o.sock = sock[o.ctx]
                            /\ o.sock # None
  OBVIOUS
<1>3. None \notin Socks /\ \A o \in ops : o.sock \in Socks
  BY ConstAssumption DEF TypeOK, NetType, Op
<1>4. NewInv'
  BY <1>1, <1>3 DEF SockInv, NewInv, OpSockInv
<1>5. ASSUME NEW o \in ops'
      PROVE  /\ o.sock \in seen /\ o.sock \in Socks
             /\ \A d \in Contexts : sock[d] = o.sock => d = o.ctx
             /\ \A v \in Workers : pc[v] \in NewSocket => sk[v] # o.sock
  <2>1. CASE o \in ops
    BY <1>3, <2>1 DEF SockInv, OpSockInv
  <2>2. CASE o \notin ops
    <3>1. o.ctx \in Contexts /\ o.sock = sock[o.ctx] /\ o.sock # None
      BY <1>2, <2>2
    <3>2. sock[o.ctx] \in open /\ \A d \in Contexts : sock[d] = sock[o.ctx] => d = o.ctx
      BY <3>1 DEF OneOwner
    <3>3. \A v \in Workers : pc[v] \in NewSocket => sk[v] # sock[o.ctx]
      BY <3>1 DEF OneOwner, OwnsSocket, NewSocket
    <3> QED BY <3>1, <3>2, <3>3 DEF TypeOK, NetType, ContextType
  <2> QED BY <2>1, <2>2
<1>6. ASSUME NEW o \in ops', NEW p \in ops', p.sock = o.sock
      PROVE  p.ctx = o.ctx
  <2>1. CASE o \in ops /\ p \in ops
    BY <1>6, <2>1 DEF SockInv, OpSockInv
  <2>2. CASE o \notin ops
    BY <1>2, <1>5, <1>6, <2>2
  <2>3. CASE p \notin ops
    BY <1>2, <1>5, <1>6, <2>3
  <2> QED BY <2>1, <2>2, <2>3
<1>7. ASSUME NEW o \in ops', NEW d \in Contexts, sock'[d] = o.sock
      PROVE  d = o.ctx
  BY <1>3, <1>5, <1>7
<1>8. OpSockInv'
  BY <1>1, <1>5, <1>6, <1>7 DEF OpSockInv
<1> QED BY <1>4, <1>8 DEF SockInv

\* A packet is dequeued.
LEMMA SockDequeue ==
  ASSUME TypeOK, OneOwner, SockInv, NEW w \in Workers, Dequeue(w)
  PROVE  SockInv'
<1>1. ASSUME NEW a \in AcceptIos, NEW s \in Socks, AcceptDone(w, a, s)
      PROVE  SockInv'
  <2>1. /\ seen' = seen \cup {s} /\ s \notin seen
        /\ UNCHANGED <<ops, sock, wire, got>>
        /\ \A v \in Workers : pc'[v] \in NewSocket =>
             IF v = w THEN sk'[v] = s ELSE pc[v] \in NewSocket /\ sk'[v] = sk[v]
    BY <1>1 DEF AcceptDone, Goto, NewSocket, TypeOK, WorkerType
  <2>2. OpSockInv'
    BY <2>1 DEF SockInv, OpSockInv
  <2>3. NewInv'
    BY <2>1 DEF SockInv, NewInv
  <2> QED BY <2>2, <2>3 DEF SockInv
<1>2. ASSUME NEW o \in ops, NEW n, RecvDone(w, o, n)
      PROVE  SockInv'
  <2>1. \A s \in Socks : \/ wire'[s] = wire[s] /\ got'[s] = got[s]
                         \/ \E p \in ops : p.sock = s
    BY <1>2 DEF RecvDone, TypeOK, NetType
  <2> QED BY <1>2, <2>1, SockFrame DEF RecvDone, NewSocket
<1>3. ASSUME NEW o \in ops, NEW n, SendDone(w, o, n)
      PROVE  SockInv'
  <2>1. \A s \in Socks : \/ wire'[s] = wire[s] /\ got'[s] = got[s]
                         \/ \E p \in ops : p.sock = s
    BY <1>3 DEF SendDone, TypeOK, NetType
  <2> QED BY <1>3, <2>1, SockFrame DEF SendDone, NewSocket
<1>4. ASSUME NEW o \in ops, IoClosed(w, o)
      PROVE  SockInv'
  BY <1>4, SockFrame DEF IoClosed, CallClose, NewSocket, netVars
<1> QED BY <1>1, <1>2, <1>3, <1>4 DEF Dequeue, ClientPacket

\* handleAccept.
LEMMA SockAccept ==
  ASSUME TypeOK, OneOwner, SockInv, NEW w \in Workers, HandleAccept(w)
  PROVE  SockInv'
<1>1. CASE AcceptCheck(w)
  <2>1. \E l \in {"idle", "acc_inc"} : Goto(w, l) /\ pc[w] \in NewSocket
    BY <1>1 DEF AcceptCheck, At, NewSocket
  <2> QED BY <1>1, <2>1, SockFrame DEF AcceptCheck
<1>2. CASE AcceptCount(w)
  <2>1. Goto(w, "acc_alloc") /\ pc[w] \in NewSocket
    BY <1>2 DEF AcceptCount, At, NewSocket
  <2> QED BY <1>2, <2>1, SockFrame DEF AcceptCount, netVars
<1>3. ASSUME NEW c \in Contexts, AcceptAlloc(w, c)
      PROVE  SockInv'
  <2>1. /\ pc[w] \in NewSocket /\ sock'[c] = sk[w]
        /\ \A d \in Contexts \ {c} : sock'[d] = sock[d]
        /\ UNCHANGED <<sk, ops, seen, wire, got>>
    BY <1>3 DEF AcceptAlloc, Allocate, At, NewSocket, netVars, TypeOK, ContextType
  <2>2. \A v \in Workers : pc'[v] \in NewSocket => pc[v] \in NewSocket
    BY <1>3 DEF AcceptAlloc, Goto, NewSocket, TypeOK, WorkerType
  <2>3. OpSockInv'
    BY <2>1, <2>2 DEF SockInv, OpSockInv
  <2>4. NewInv'
    BY <2>1, <2>2 DEF SockInv, NewInv
  <2> QED BY <2>3, <2>4 DEF SockInv
<1>4. CASE AcceptPost(w)
  BY <1>4, SockFrame DEF AcceptPost, NewSocket, netVars
<1>5. CASE AcceptAdd(w)
  BY <1>5, SockFrame DEF AcceptAdd, NewSocket, netVars
<1> QED BY <1>1, <1>2, <1>3, <1>4, <1>5 DEF HandleAccept

\* postSend posts on the socket of the context, or nothing.
LEMMA SockPostSend ==
  ASSUME TypeOK, OneOwner, SockInv, NEW w \in Workers, ctx[w] \in Contexts,
         NEW p, NEW k \in {"idle", "sent"}, PostSend(w, p, k),
         UNCHANGED <<sk, sock, seen, wire, got>>
  PROVE  SockInv'
<1> DEFINE op == [type |-> "send", ctx |-> ctx[w], sock |-> sock[ctx[w]], data |-> p]
<1>1. op.ctx = ctx[w] /\ op.sock = sock[ctx[w]]
  OBVIOUS
<1>2. \E l \in {"idle", "sent", "close"} : Goto(w, l) /\ l \notin NewSocket
  BY DEF PostSend, CallClose, NewSocket
<1>3. ops' = ops \/ (ops' = ops \cup {op} /\ sock[ctx[w]] # None)
  BY DEF PostSend
<1> HIDE DEF op
<1> QED BY <1>1, <1>2, <1>3, SockFrame

\* The other handlers.
LEMMA SockHandle ==
  ASSUME TypeOK, OneOwner, SockInv, NEW w \in Workers,
         PostRecv(w) \/ HandleSend(w) \/ CloseClient(w) \/ Echo(w) \/ EchoDone(w)
  PROVE  SockInv'
<1> USE DEF netVars
<1>0. ctx[w] \in Contexts
  BY Labels DEF PostRecv, HandleSend, SendNext, SendQueued, CloseClient, CloseTake,
    CloseCancel, CloseCount, Release, RemoveClient, Unlock, Echo, EchoDone, At,
    TypeOK, WorkerType
<1>1. CASE PostRecv(w)
  <2> DEFINE op == [type |-> "recv", ctx |-> ctx[w], sock |-> sock[ctx[w]], data |-> <<>>]
  <2>1. op.ctx = ctx[w] /\ op.sock = sock[ctx[w]]
    OBVIOUS
  <2>2. \E l \in {"idle", "close"} : Goto(w, l) /\ l \notin NewSocket
    BY <1>1 DEF PostRecv, CallClose, NewSocket
  <2>3. ops' = ops \/ (ops' = ops \cup {op} /\ sock[ctx[w]] # None)
    BY <1>1 DEF PostRecv
  <2>4. UNCHANGED <<sk, sock, seen, wire, got>>
    BY <1>1 DEF PostRecv
  <2> HIDE DEF op
  <2> QED BY <1>0, <2>1, <2>2, <2>3, <2>4, SockFrame
<1>2. CASE SendNext(w) \/ SendQueued(w)
  <2>1. UNCHANGED <<sk, sock, seen, wire, got>>
    BY <1>2 DEF SendNext, SendQueued
  <2>2. \/ \E p : PostSend(w, p, "idle")
        \/ \E l \in {"idle", "release"} : Goto(w, l) /\ ops' = ops
    BY <1>2 DEF SendNext, SendQueued
  <2>3. CASE \E p : PostSend(w, p, "idle")
    BY <1>0, <2>1, <2>3, SockPostSend
  <2>4. CASE \E l \in {"idle", "release"} : Goto(w, l) /\ ops' = ops
    BY <2>1, <2>4, SockFrame DEF NewSocket
  <2> QED BY <2>2, <2>3, <2>4
<1>3. CASE Echo(w)
  <2>1. UNCHANGED <<sk, sock, seen, wire, got>>
    BY <1>3 DEF Echo
  <2>2. \/ PostSend(w, inBuf[ctx[w]], "sent")
        \/ Goto(w, "sent") /\ ops' = ops
    BY <1>3 DEF Echo, Send
  <2> QED BY <1>0, <2>1, <2>2, SockPostSend, SockFrame DEF NewSocket
<1>4. CASE EchoDone(w)
  BY <1>4, SockFrame DEF EchoDone, NewSocket
<1>5. CASE CloseTake(w)
  <2>1. /\ \A d \in Contexts : sock'[d] \in {sock[d], None}
        /\ \A v \in Workers \ {w} : sk'[v] = sk[v]
    BY <1>0, <1>5 DEF CloseTake, TypeOK, WorkerType, ContextType
  <2>2. \E l \in {"release", "cancel"} : Goto(w, l) /\ l \notin NewSocket
    BY <1>5 DEF CloseTake, NewSocket
  <2>3. UNCHANGED <<ops, seen, wire, got>>
    BY <1>5 DEF CloseTake
  <2> QED BY <2>1, <2>2, <2>3, SockFrame
<1>6. CASE \/ CloseCancel(w) \/ CloseCount(w) \/ Release(w) \/ RemoveClient(w)
           \/ Unlock(w)
  <2>1. UNCHANGED <<sk, sock, ops, seen, wire, got>>
    BY <1>6 DEF CloseCancel, CloseCount, Release, RemoveClient, Unlock
  <2>2. \E l \in {"uncount", "release", "remove", "idle", "sent", "post_recv",
                 "unlock"} : Goto(w, l) /\ l \notin NewSocket
    BY <1>6, ReturnGoto DEF CloseCancel, CloseCount, RemoveClient, NewSocket
  <2> QED BY <2>1, <2>2, SockFrame
<1> QED BY <1>1, <1>2, <1>3, <1>4, <1>5, <1>6 DEF HandleSend, CloseClient

\* SockInv is inductive, relative to the types and the ownership of the sockets.
LEMMA SockAlways == Spec => []SockInv
<1>1. Init => SockInv
  BY DEF Init, SockInv, OpSockInv, NewInv, NewSocket
<1>2. TypeOK /\ OneOwner /\ SockInv /\ [Next]_vars => SockInv'
  <2> SUFFICES ASSUME TypeOK, OneOwner, SockInv, [Next]_vars PROVE SockInv'
    OBVIOUS
  <2>1. ASSUME NEW w \in Workers,
               Dequeue(w) \/ Handle(w) \/ Echo(w) \/ EchoDone(w)
        PROVE  SockInv'
    BY <2>1, SockDequeue, SockAccept, SockHandle DEF Handle
  <2>2. CASE HeapFault \/ UNCHANGED vars
    BY <2>2 DEF HeapFault, vars, workerVars, netVars, SockInv, OpSockInv, NewInv
  <2> QED BY <2>1, <2>2 DEF Next, Quiescent
<1> QED BY <1>1, <1>2, TypeCorrect, OwnerCorrect, PTL DEF Spec

-----------------------------------------------------------------------------
(* The bytes *)

\* The step moves, of the bytes that contexts hold, only those of c, and of the
\* bytes of the network those of sockets that have an operation on c.
BytesLocal(w, c) ==
  /\ \A v \in Workers \ {w} : pc'[v] = pc[v] /\ ctx'[v] = ctx[v] /\ nb'[v] = nb[v]
  /\ pc[w] \in UsesContext => ctx[w] = c
  /\ pc'[w] \in UsesContext => ctx'[w] = c
  /\ \A d \in Contexts \ {c} :
       /\ OpsOf(d)' = OpsOf(d) /\ sock'[d] = sock[d] /\ inBuf'[d] = inBuf[d]
       /\ outBuf'[d] = outBuf[d] /\ outQ'[d] = outQ[d]
  /\ \A s \in Socks : \/ wire'[s] = wire[s] /\ got'[s] = got[s]
                      \/ \E o \in OpsOf(c) : o.sock = s

\* The other contexts keep their bytes.
LEMMA FrameBytes ==
  ASSUME TypeOK, SockInv, NEW w \in Workers, NEW c, BytesLocal(w, c),
         NEW d \in Contexts \ {c}, ByteInv(d)
  PROVE  ByteInv(d)'
<1>1. \A v \in Workers, l \in {"notify", "hsend"} :
        /\ v \in Handlers(d)' /\ pc'[v] = l <=> v \in Handlers(d) /\ pc[v] = l
        /\ v \in Handlers(d) /\ pc[v] = l => nb'[v] = nb[v]
  BY Labels DEF BytesLocal, Handlers, Leaving
<1>2. Handlers(d)' \subseteq Workers /\ Handlers(d) \subseteq Workers
  BY DEF Handlers
<1>3. /\ OpsOf(d)' = OpsOf(d) /\ sock'[d] = sock[d] /\ inBuf'[d] = inBuf[d]
      /\ outBuf'[d] = outBuf[d] /\ outQ'[d] = outQ[d]
  BY DEF BytesLocal
<1>4. Waiting(d)' = Waiting(d)
  BY <1>1, <1>2, <1>3 DEF Waiting
<1>5. ASSUME sock[d] # None
      PROVE  wire'[sock[d]] = wire[sock[d]] /\ got'[sock[d]] = got[sock[d]]
  <2>1. sock[d] \in Socks
    BY <1>5 DEF TypeOK, ContextType
  <2>2. \A o \in OpsOf(c) : o.sock # sock[d]
    BY DEF SockInv, OpSockInv, OpsOf
  <2> QED BY <2>1, <2>2 DEF BytesLocal
<1>6. \A o \in OpsOf(d) : wire'[o.sock] = wire[o.sock] /\ got'[o.sock] = got[o.sock]
  BY DEF BytesLocal, SockInv, OpSockInv, OpsOf, TypeOK, NetType, Op
<1>7. QueueInv(d)'
  BY <1>3 DEF ByteInv, QueueInv
<1>8. FlightInv(d)'
  BY <1>3, <1>4, <1>5, <1>6 DEF ByteInv, FlightInv, BytesFrom
<1>9. LeftInv(d)' /\ InputBytesInv(d)'
  BY <1>1, <1>2, <1>3, <1>4, <1>5 DEF ByteInv, LeftInv, InputBytesInv, BytesFrom
<1> QED BY <1>7, <1>8, <1>9 DEF ByteInv

\* What a step of worker w on context c has to keep.
LEMMA BytesKeep ==
  ASSUME TypeOK, SockInv, EchoInv, heap = "ok", NEW w \in Workers, NEW c,
         BytesLocal(w, c), EchoIntegrity', c \in Contexts => ByteInv(c)'
  PROVE  EchoInv'
<1>1. \A d \in Contexts \ {c} : ByteInv(d)'
  BY FrameBytes DEF EchoInv
<1> QED BY <1>1 DEF EchoInv

\* As long as nothing is received or sent, the wire is right.
LEMMA WireSame ==
  ASSUME EchoInv, heap = "ok", UNCHANGED <<wire, got>>
  PROVE  EchoIntegrity'
  BY DEF EchoInv, EchoIntegrity

\* Steps that touch neither m_outBuf nor the bytes of m_inBuf.
LEMMA BytesMove ==
  ASSUME TypeOK, SockInv, EchoInv, heap = "ok", NEW w \in Workers, NEW c,
         BytesLocal(w, c), UNCHANGED <<outBuf, outQ, wire, got, nb>>,
         pc[w] \notin {"notify", "hsend"}, pc'[w] \notin {"notify", "hsend"},
         c \in Contexts =>
           /\ sock'[c] \in {sock[c], None}
           /\ \A o \in OpsOf(c)' : o.type = "send" => o \in OpsOf(c)
           /\ \/ inBuf'[c] = inBuf[c]
              \/ \A v \in Handlers(c) : pc[v] # "notify"
  PROVE  EchoInv'
<1>1. EchoIntegrity'
  BY WireSame
<1>2. ASSUME c \in Contexts
      PROVE  ByteInv(c)'
  <2>1. \A v \in Workers, l \in {"notify", "hsend"} :
          v \in Handlers(c)' /\ pc'[v] = l <=> v \in Handlers(c) /\ pc[v] = l
    BY DEF BytesLocal, Handlers, Leaving
  <2>2. Handlers(c) \subseteq Workers /\ Handlers(c)' \subseteq Workers
    BY DEF Handlers
  <2>3. Waiting(c)' = Waiting(c)
    BY <1>2, <2>1, <2>2 DEF Waiting
  <2>4. ByteInv(c)
    BY <1>2 DEF EchoInv
  <2>5. QueueInv(c)' /\ FlightInv(c)'
    BY <1>2, <2>3, <2>4 DEF ByteInv, QueueInv, FlightInv, BytesFrom
  <2>6. LeftInv(c)'
    BY <1>2, <2>1, <2>2, <2>3, <2>4 DEF ByteInv, LeftInv, BytesFrom
  <2>7. InputBytesInv(c)'
    BY <1>2, <2>1, <2>2, <2>3, <2>4 DEF ByteInv, InputBytesInv, BytesFrom
  <2> QED BY <2>5, <2>6, <2>7 DEF ByteInv
<1> QED BY <1>1, <1>2, BytesKeep

\* The steps of this kind of a worker with context c, or without one.
LEMMA BytesStep ==
  ASSUME TypeOK, SockInv, EchoInv, heap = "ok", NEW w \in Workers, NEW c,
         pc[w] \in UsesContext => ctx[w] = c,
         NEW l, Goto(w, l), l \in UsesContext => ctx'[w] = c,
         \A v \in Workers \ {w} : ctx'[v] = ctx[v],
         UNCHANGED <<outBuf, outQ, wire, got, nb>>,
         pc[w] \notin {"notify", "hsend"}, l \notin {"notify", "hsend"},
         \A d \in Contexts \ {c} :
           OpsOf(d)' = OpsOf(d) /\ sock'[d] = sock[d] /\ inBuf'[d] = inBuf[d],
         c \in Contexts =>
           /\ sock'[c] \in {sock[c], None}
           /\ \A o \in OpsOf(c)' : o.type = "send" => o \in OpsOf(c)
           /\ \/ inBuf'[c] = inBuf[c]
              \/ \A v \in Handlers(c) : pc[v] # "notify"
  PROVE  EchoInv'
<1>1. pc'[w] = l /\ \A v \in Workers \ {w} : pc'[v] = pc[v]
  BY DEF Goto, TypeOK, WorkerType
<1>2. BytesLocal(w, c)
  BY <1>1 DEF BytesLocal
<1> QED BY <1>1, <1>2, BytesMove

\* CloseClient and releaseClientContext move no bytes.
LEMMA BytesClose ==
  ASSUME TypeOK, SockInv, EchoInv, heap = "ok", NEW w \in Workers, CloseClient(w),
         NEW c, ctx[w] = c
  PROVE  EchoInv'
<1>1. pc[w] \in {"close", "cancel", "uncount", "release", "remove", "unlock"}
  BY DEF CloseClient, CloseTake, CloseCancel, CloseCount, Release, RemoveClient,
    Unlock, At
<1>2. c \in Contexts
  BY <1>1, Labels DEF TypeOK, WorkerType
<1>3. /\ UNCHANGED <<ctx, nb, inBuf, outBuf, outQ, wire, got, ops>>
      /\ sock'[c] \in {sock[c], None}
      /\ \A d \in Contexts \ {c} : sock'[d] = sock[d]
  BY <1>2 DEF CloseClient, CloseTake, CloseCancel, CloseCount, Release, RemoveClient,
    Unlock, bufVars, netVars, TypeOK, ContextType
<1>4. \E l \in {"cancel", "uncount", "release", "remove", "idle", "sent", "post_recv",
                "unlock"} : Goto(w, l)
  BY ReturnGoto DEF CloseClient, CloseTake, CloseCancel, CloseCount, RemoveClient
<1>5. \A d \in Contexts : OpsOf(d)' = OpsOf(d)
  BY <1>3 DEF OpsOf
<1> QED BY <1>1, <1>2, <1>3, <1>4, <1>5, BytesStep

\* Nor does postRecv, and echo() only discards what send() has taken.
LEMMA BytesRecv ==
  ASSUME TypeOK, PendingInv, SockInv, EchoInv, heap = "ok", NEW w \in Workers,
         PostRecv(w) \/ EchoDone(w), NEW c, ctx[w] = c
  PROVE  EchoInv'
<1>1. pc[w] \in {"post_recv", "sent"} /\ pc[w] \in UsesContext
  BY Labels DEF PostRecv, EchoDone, At
<1>2. c \in Contexts /\ w \in Handlers(c) /\ ContextInv(c)
  BY <1>1, InHandler
<1>3. \A v \in Handlers(c) : pc[v] # "notify"
  BY <1>1, <1>2 DEF ContextInv, UniqueInv, WillRecv
<1>4. /\ UNCHANGED <<ctx, nb, sock, outBuf, outQ, wire, got>>
      /\ \A d \in Contexts \ {c} : inBuf'[d] = inBuf[d]
  BY <1>2 DEF PostRecv, EchoDone, bufVars, netVars, TypeOK, ContextType
<1>5. \E l \in {"idle", "close", "post_recv"} : Goto(w, l)
  BY DEF PostRecv, EchoDone, CallClose
<1>6. \A d \in Contexts : \A o \in OpsOf(d)' :
        o \in OpsOf(d) \/ (o.type = "recv" /\ d = c)
  BY DEF PostRecv, EchoDone, OpsOf
<1>7. \A d \in Contexts \ {c} : OpsOf(d)' = OpsOf(d)
  BY DEF PostRecv, EchoDone, OpsOf
<1> QED BY <1>1, <1>2, <1>3, <1>4, <1>5, <1>6, <1>7, BytesStep

\* A context that is allocated has a socket to which nothing was sent.
LEMMA BytesAlloc ==
  ASSUME TypeOK, PendingInv, SockInv, EchoInv, heap = "ok", NEW w \in Workers,
         NEW c \in Contexts, AcceptAlloc(w, c)
  PROVE  EchoInv'
<1>1. /\ pc[w] = "acc_alloc" /\ sk[w] \in Socks /\ wire[sk[w]] = <<>> /\ got[sk[w]] = 0
      /\ UNCHANGED <<nb, inBuf, outBuf, outQ, wire, got, ops>>
  BY Labels DEF AcceptAlloc, At, TypeOK, WorkerType, SockInv, NewInv, NewSocket,
    bufVars, netVars
<1>2. /\ sock'[c] = sk[w] /\ ctx'[w] = c
      /\ \A d \in Contexts \ {c} : sock'[d] = sock[d]
      /\ \A v \in Workers : v # w => ctx'[v] = ctx[v]
  BY DEF AcceptAlloc, Allocate, TypeOK, WorkerType, ContextType
<1>3. OpsOf(c) = {} /\ Handlers(c) = {}
  BY DEF AcceptAlloc, Allocate, PendingInv, ContextInv, FreeInv
<1>4. OpsOf(c)' = {} /\ \A d \in Contexts : OpsOf(d)' = OpsOf(d)
  BY <1>1, <1>3 DEF OpsOf
<1>5. /\ pc'[w] \in {"acc_post", "idle"}
      /\ \A v \in Workers : v # w => pc'[v] = pc[v]
  BY DEF AcceptAlloc, Goto, TypeOK, WorkerType
<1>6. \A v \in Handlers(c)' : v = w
  <2>1. ret' = ret
    BY DEF AcceptAlloc
  <2> QED BY <1>2, <1>3, <1>5, <2>1 DEF Handlers, Leaving
<1>7. BytesLocal(w, c) /\ EchoIntegrity'
  BY <1>1, <1>2, <1>4, <1>5, Labels, WireSame DEF BytesLocal
<1>8. Waiting(c)' = 0
  BY <1>5, <1>6 DEF Waiting
<1>9. ByteInv(c)'
  <2>1. QueueInv(c)'
    BY <1>1 DEF EchoInv, ByteInv, QueueInv
  <2>2. FlightInv(c)' /\ LeftInv(c)'
    BY <1>4, <1>5, <1>6 DEF FlightInv, LeftInv
  <2>3. InputBytesInv(c)'
    BY <1>1, <1>2, <1>5, <1>6, <1>8 DEF InputBytesInv
  <2> QED BY <2>1, <2>2, <2>3 DEF ByteInv
<1> QED BY <1>7, <1>9, BytesKeep

\* handleAccept moves no bytes.
LEMMA BytesAccept ==
  ASSUME TypeOK, PendingInv, SockInv, EchoInv, heap = "ok", NEW w \in Workers,
         HandleAccept(w)
  PROVE  EchoInv'
<1>1. CASE AcceptCheck(w) \/ AcceptCount(w)
  <2>1. /\ pc[w] \notin UsesContext /\ pc[w] \notin {"notify", "hsend"}
        /\ UNCHANGED <<ctx, nb, sock, inBuf, outBuf, outQ, wire, got, ops>>
    BY <1>1, Labels DEF AcceptCheck, AcceptCount, At, bufVars, netVars
  <2>2. \E l \in {"idle", "acc_inc", "acc_alloc"} : Goto(w, l) /\ l \notin UsesContext
    BY <1>1, Labels DEF AcceptCheck, AcceptCount
  <2>3. \A d \in Contexts : OpsOf(d)' = OpsOf(d)
    BY <2>1 DEF OpsOf
  <2> QED BY <2>1, <2>2, <2>3, BytesStep
<1>2. CASE AcceptPost(w) \/ AcceptAdd(w)
  <2>1. /\ pc[w] \in {"acc_post", "acc_add"}
        /\ UNCHANGED <<ctx, nb, sock, inBuf, outBuf, outQ, wire, got, ops>>
    BY <1>2 DEF AcceptPost, AcceptAdd, At, bufVars, netVars
  <2>2. \E l \in {"acc_add", "post_recv"} : Goto(w, l)
    BY <1>2 DEF AcceptPost, AcceptAdd
  <2>3. \A d \in Contexts : OpsOf(d)' = OpsOf(d)
    BY <2>1 DEF OpsOf
  <2> QED BY <2>1, <2>2, <2>3, BytesStep
<1> QED BY <1>1, <1>2, BytesAlloc DEF HandleAccept

\* Received bytes follow those received before.
LEMMA BytesRecvDone ==
  ASSUME TypeOK, PendingInv, SockInv, EchoInv, heap = "ok", NEW w \in Workers,
         NEW o \in ops, NEW n \in 1 .. MaxBytes, RecvDone(w, o, n),
         NEW c, o.ctx = c, NEW s, o.sock = s
  PROVE  EchoInv'
<1> DEFINE new == [i \in 1 .. n |-> <<s, got[s] + i>>]
<1>1. /\ pc[w] = "idle" /\ o.type = "recv" /\ ops' = ops \ {o}
      /\ UNCHANGED <<nb, sock, outBuf, outQ, wire>>
  BY DEF RecvDone, At
<1>2. /\ c \in Contexts /\ o \in OpsOf(c) /\ ContextInv(c) /\ ByteInv(c) /\ s \in Socks
      /\ n \in Nat /\ got[s] \in Nat /\ wire \in [Socks -> Seq(Byte)] /\ got \in [Socks -> Nat]
  BY ConstAssumption DEF TypeOK, NetType, Op, OpsOf, PendingInv, EchoInv
<1>3. /\ ctx'[w] = c /\ pc'[w] = "notify" /\ got'[s] = got[s] + n
      /\ inBuf'[c] = inBuf[c] \o new
      /\ \A v \in Workers : v # w => ctx'[v] = ctx[v] /\ pc'[v] = pc[v]
      /\ \A d \in Contexts \ {c} : inBuf'[d] = inBuf[d]
      /\ \A t \in Socks \ {s} : got'[t] = got[t]
  BY <1>2 DEF RecvDone, Goto, TypeOK, WorkerType, ContextType, NetType
<1>4. new \in Seq(Byte) /\ Len(new) = n /\ \A i \in 1 .. n : new[i] = <<s, got[s] + i>>
  BY <1>2 DEF Byte
<1>5. \A v \in Handlers(c) : ~WillRecv(v) /\ ~HasInput(v) /\ pc[v] # "notify"
  BY <1>1, <1>2 DEF ContextInv, UniqueInv, WillRecv, HasInput
<1>6. inBuf[c] = <<>>
  BY <1>2, <1>5 DEF ContextInv, InputInv
<1> HIDE DEF new
<1>7. inBuf'[c] = new
  BY <1>3, <1>4, <1>6
<1>8. /\ OpsOf(c)' = OpsOf(c) \ {o} /\ \A d \in Contexts \ {c} : OpsOf(d)' = OpsOf(d)
  BY <1>1 DEF OpsOf
<1>9. Handlers(c)' = Handlers(c) \cup {w} /\ Handlers(c) \subseteq Workers
      /\ w \notin Handlers(c)
  <2>1. ret' = ret
    BY DEF RecvDone
  <2> QED BY <1>1, <1>2, <1>3, <2>1, Labels DEF Handlers, Leaving
<1>10. Waiting(c) = 0 /\ Waiting(c)' = n
  BY <1>3, <1>4, <1>5, <1>7, <1>9 DEF Waiting
<1>11. \A t \in Socks : got'[t] \in Nat /\ got'[t] >= got[t] /\ Len(wire[t]) \in Nat
  <2> SUFFICES ASSUME NEW t \in Socks
               PROVE  got'[t] \in Nat /\ got'[t] >= got[t] /\ Len(wire[t]) \in Nat
    OBVIOUS
  <2>1. got[t] \in Nat /\ wire[t] \in Seq(Byte)
    BY <1>2
  <2>2. Len(wire[t]) \in Nat
    BY <2>1
  <2>3. CASE t = s
    BY <1>2, <1>3, <2>2, <2>3
  <2>4. CASE t # s
    BY <1>3, <2>1, <2>2, <2>4
  <2> QED BY <2>3, <2>4
<1>12. BytesLocal(w, c) /\ EchoIntegrity'
  <2>1. BytesLocal(w, c)
    BY <1>1, <1>2, <1>3, <1>8, Labels DEF BytesLocal
  <2>2. EchoIntegrity'
    BY <1>1, <1>2, <1>11 DEF EchoInv, EchoIntegrity
  <2> QED BY <2>1, <2>2
<1>13. sock[c] \in {None, s}
  BY <1>2 DEF ContextInv, StaleInv
<1>14. QueueInv(c)'
  BY <1>1, <1>2 DEF ByteInv, QueueInv
<1>15. FlightInv(c)'
  <2>1. ASSUME NEW p \in OpsOf(c), p.type = "send", NEW t, p.sock = t, NEW q, p.data = q
        PROVE  /\ BytesFrom(q, t, Len(wire[t])) /\ Len(wire[t]) + Len(q) <= got'[t]
               /\ sock[c] # None /\ outQ[c] = <<>> =>
                    Len(wire[s]) + Len(outBuf[c]) = got[s]
    <3>1. t \in Socks /\ q \in Seq(Byte)
      BY <2>1 DEF OpsOf, TypeOK, NetType, Op
    <3>2. /\ BytesFrom(q, t, Len(wire[t])) /\ Len(wire[t]) + Len(q) <= got[t]
          /\ sock[c] # None /\ outQ[c] = <<>> =>
               Len(wire[sock[c]]) + Len(outBuf[c]) = got[sock[c]] - Waiting(c)
      BY <1>2, <2>1 DEF ByteInv, FlightInv
    <3>3. Len(wire[t]) \in Nat /\ Len(q) \in Nat /\ got[t] \in Nat
      BY <1>2, <3>1
    <3>4. got'[t] \in Nat /\ got'[t] >= got[t]
      BY <1>11, <3>1
    <3>5. Len(wire[t]) + Len(q) <= got'[t]
      BY <3>2, <3>3, <3>4
    <3>6. sock[c] # None => sock[c] = s /\ got[s] - Waiting(c) = got[s]
      BY <1>2, <1>10, <1>13
    <3> QED BY <3>2, <3>5, <3>6
  <2>2. got'[s] - Waiting(c)' = got[s]
    BY <1>2, <1>3, <1>10
  <2> QED BY <1>1, <1>8, <1>13, <2>1, <2>2 DEF FlightInv
<1>16. LeftInv(c)'
  <2> SUFFICES ASSUME sock[c] # None, NEW v \in Handlers(c)', pc'[v] = "hsend"
               PROVE  /\ nb[v] <= Len(wire[s])
                      /\ BytesFrom(outBuf[c], s, Len(wire[s]) - nb[v])
                      /\ Len(wire[s]) - nb[v] + Len(outBuf[c]) <= got'[s]
                      /\ outQ[c] = <<>> =>
                           Len(wire[s]) - nb[v] + Len(outBuf[c]) = got'[s] - Waiting(c)'
    BY <1>1, <1>13 DEF LeftInv
  <2>1. v \in Handlers(c) /\ pc[v] = "hsend" /\ v \in Workers
    BY <1>3, <1>9
  <2>2. /\ nb[v] <= Len(wire[s])
        /\ BytesFrom(outBuf[c], s, Len(wire[s]) - nb[v])
        /\ Len(wire[s]) - nb[v] + Len(outBuf[c]) <= got[s]
        /\ outQ[c] = <<>> =>
             Len(wire[s]) - nb[v] + Len(outBuf[c]) = got[s] - Waiting(c)
    BY <1>2, <1>13, <2>1 DEF ByteInv, LeftInv
  <2>3. Len(wire[s]) \in Nat /\ nb[v] \in Nat /\ Len(outBuf[c]) \in Nat
    BY <1>2, <2>1 DEF TypeOK, WorkerType, ContextType
  <2> QED BY <1>2, <1>3, <1>10, <2>2, <2>3
<1>17. InputBytesInv(c)'
  <2> SUFFICES ASSUME sock[c] # None
               PROVE  /\ BytesFrom(inBuf'[c], s, got'[s] - Len(inBuf'[c]))
                      /\ outBuf[c] = <<>> => Len(wire[s]) = got'[s] - Waiting(c)'
    BY <1>1, <1>13 DEF InputBytesInv
  <2>1. outBuf[c] = <<>> => Len(wire[s]) = got[s] - Waiting(c)
    BY <1>2, <1>13 DEF ByteInv, InputBytesInv
  <2>2. BytesFrom(new, s, got[s])
    BY <1>4 DEF BytesFrom
  <2>3. got'[s] - Len(new) = got[s]
    BY <1>2, <1>3, <1>4
  <2> QED BY <1>2, <1>3, <1>7, <1>10, <2>1, <2>2, <2>3
<1> QED BY <1>12, <1>14, <1>15, <1>16, <1>17, BytesKeep DEF ByteInv

\* The sequence u holds the bytes of socket s, in order.
Echoes(u, s) == \A i \in 1 .. Len(u) : u[i] = <<s, i>>

\* x is u with the first n bytes of q behind it.
Appended(x, u, q, n) == x = u \o SubSeq(q, 1, n)

\* Appending the bytes that follow keeps a sequence of bytes right.
LEMMA WireAppend ==
  ASSUME NEW u \in Seq(Byte), NEW q \in Seq(Byte), NEW n \in 1 .. Len(q), NEW s,
         Echoes(u, s), BytesFrom(q, s, Len(u)), NEW x, Appended(x, u, q, n)
  PROVE  Len(x) = Len(u) + n /\ Echoes(x, s)
<1> DEFINE r == SubSeq(q, 1, n)
<1>1. r \in Seq(Byte) /\ Len(r) = n /\ \A i \in 1 .. n : r[i] = q[i]
  OBVIOUS
<1>2. \A i \in 1 .. n : r[i] = <<s, Len(u) + i>>
  <2>1. \A i \in 1 .. n : i \in 1 .. Len(q)
    OBVIOUS
  <2> HIDE DEF r
  <2> QED BY <1>1, <2>1 DEF BytesFrom
<1> HIDE DEF r
<1>3. Len(u \o r) = Len(u) + n
  BY <1>1
<1>4. ASSUME NEW i \in 1 .. Len(u) + n PROVE (u \o r)[i] = <<s, i>>
  <2>1. CASE i <= Len(u)
    BY <1>1, <2>1 DEF Echoes
  <2>2. CASE i > Len(u)
    <3>1. i - Len(u) \in 1 .. n /\ Len(u) + (i - Len(u)) = i
      BY <2>2
    <3>2. (u \o r)[i] = r[i - Len(u)]
      BY <1>1, <2>2
    <3> QED BY <1>2, <3>1, <3>2
  <2>3. i <= Len(u) \/ i > Len(u)
    OBVIOUS
  <2> QED BY <2>1, <2>2, <2>3, Zenon
<1>5. x = u \o r
  BY DEF r, Appended
<1> QED BY <1>3, <1>4, <1>5 DEF Echoes

\* The wire stays right when the bytes that follow are sent.
LEMMA WireSent ==
  ASSUME NEW s, NEW q \in Seq(Byte), NEW n \in 1 .. Len(q), wire[s] \in Seq(Byte),
         Echoes(wire[s], s), BytesFrom(q, s, Len(wire[s])),
         Appended(wire'[s], wire[s], q, n)
  PROVE  Len(wire'[s]) = Len(wire[s]) + n /\ Echoes(wire'[s], s)
  BY WireAppend, Zenon

\* Sent bytes follow those sent before.
LEMMA BytesSendDone ==
  ASSUME TypeOK, PendingInv, SockInv, EchoInv, heap = "ok", NEW w \in Workers,
         NEW o \in ops, NEW q, o.data = q, NEW n \in 1 .. Len(q), SendDone(w, o, n),
         NEW c, o.ctx = c, NEW s, o.sock = s
  PROVE  EchoInv'
<1>1. /\ pc[w] = "idle" /\ o.type = "send" /\ ops' = ops \ {o}
      /\ UNCHANGED <<sock, inBuf, outBuf, outQ, got>>
  BY DEF SendDone, At, bufVars
<1>2. /\ c \in Contexts /\ o \in OpsOf(c) /\ ContextInv(c) /\ ByteInv(c) /\ s \in Socks
      /\ q \in Seq(Byte) /\ wire \in [Socks -> Seq(Byte)] /\ got \in [Socks -> Nat]
  BY DEF TypeOK, NetType, Op, OpsOf, PendingInv, EchoInv
<1>3. /\ ctx'[w] = c /\ pc'[w] = "hsend" /\ nb'[w] = n
      /\ wire'[s] = wire[s] \o SubSeq(q, 1, n)
      /\ \A v \in Workers : v # w => ctx'[v] = ctx[v] /\ pc'[v] = pc[v] /\ nb'[v] = nb[v]
      /\ \A t \in Socks \ {s} : wire'[t] = wire[t]
  BY <1>2 DEF SendDone, Goto, TypeOK, WorkerType
<1>4. /\ \A p \in OpsOf(c) : p.type = "send" => p = o
      /\ \A v \in Handlers(c) : pc[v] # "hsend"
      /\ outBuf[c] = q /\ sock[c] \in {None, s}
  BY <1>1, <1>2 DEF ContextInv, UniqueInv, OutputInv, StaleInv
<1>5. /\ BytesFrom(q, s, Len(wire[s])) /\ Len(wire[s]) + Len(q) <= got[s]
      /\ sock[c] # None /\ outQ[c] = <<>> =>
           Len(wire[s]) + Len(q) = got[s] - Waiting(c)
  <2>1. /\ BytesFrom(q, s, Len(wire[s])) /\ Len(wire[s]) + Len(q) <= got[s]
        /\ sock[c] # None /\ outQ[c] = <<>> =>
             Len(wire[sock[c]]) + Len(outBuf[c]) = got[sock[c]] - Waiting(c)
    BY <1>1, <1>2 DEF ByteInv, FlightInv
  <2> QED BY <1>4, <2>1
<1>6. /\ Len(wire[s]) \in Nat /\ Len(q) \in Nat /\ n \in Nat /\ n >= 1 /\ n <= Len(q)
      /\ got[s] \in Nat
  BY <1>2
<1>7. Len(wire'[s]) = Len(wire[s]) + n /\ Echoes(wire'[s], s)
  <2>1. wire[s] \in Seq(Byte) /\ Echoes(wire[s], s)
    BY <1>2 DEF EchoInv, EchoIntegrity, Echoes
  <2>2. Appended(wire'[s], wire[s], q, n)
    BY <1>3 DEF Appended
  <2>3. q \in Seq(Byte) /\ BytesFrom(q, s, Len(wire[s]))
    BY <1>2, <1>5
  <2> QED BY <2>1, <2>2, <2>3, WireSent
<1>8. EchoIntegrity'
  <2>1. Len(wire'[s]) <= got[s]
    BY <1>5, <1>6, <1>7
  <2>2. \A t \in Socks : /\ Len(wire'[t]) <= got[t]
                         /\ \A i \in 1 .. Len(wire'[t]) : wire'[t][i] = <<t, i>>
    BY <1>3, <1>7, <2>1 DEF EchoInv, EchoIntegrity, Echoes
  <2> QED BY <1>1, <2>2 DEF EchoIntegrity
<1>9. /\ OpsOf(c)' = OpsOf(c) \ {o} /\ \A d \in Contexts \ {c} : OpsOf(d)' = OpsOf(d)
  BY <1>1 DEF OpsOf
<1>10. Handlers(c)' = Handlers(c) \cup {w} /\ Handlers(c) \subseteq Workers
      /\ w \notin Handlers(c)
  <2>1. ret' = ret
    BY DEF SendDone
  <2> QED BY <1>1, <1>2, <1>3, <2>1, Labels DEF Handlers, Leaving
<1>11. Waiting(c)' = Waiting(c)
  BY <1>1, <1>3, <1>10 DEF Waiting
<1>12. BytesLocal(w, c)
  BY <1>1, <1>2, <1>3, <1>9, Labels DEF BytesLocal
<1>13. QueueInv(c)' /\ FlightInv(c)'
  BY <1>1, <1>2, <1>4, <1>9 DEF ByteInv, QueueInv, FlightInv
<1>14. LeftInv(c)'
  <2>1. Len(wire'[s]) - n = Len(wire[s]) /\ n <= Len(wire'[s])
    BY <1>6, <1>7
  <2>2. \A v \in Handlers(c)' : pc'[v] = "hsend" => v = w
    BY <1>3, <1>4, <1>10
  <2> QED BY <1>1, <1>3, <1>4, <1>5, <1>11, <2>1, <2>2 DEF LeftInv
<1>15. InputBytesInv(c)'
  <2>1. outBuf[c] # <<>>
    BY <1>4, <1>6
  <2>2. \A v \in Handlers(c)' : pc'[v] = "notify" => v \in Handlers(c) /\ pc[v] = "notify"
    BY <1>3, <1>10
  <2> QED BY <1>1, <1>2, <2>1, <2>2 DEF ByteInv, InputBytesInv, BytesFrom
<1> QED BY <1>8, <1>12, <1>13, <1>14, <1>15, BytesKeep DEF ByteInv

\* Dequeueing a packet.
LEMMA BytesDequeue ==
  ASSUME TypeOK, PendingInv, SockInv, EchoInv, heap = "ok", NEW w \in Workers,
         Dequeue(w)
  PROVE  EchoInv'
<1>1. ASSUME NEW a \in AcceptIos, NEW s \in Socks, AcceptDone(w, a, s)
      PROVE  EchoInv'
  <2>1. /\ pc[w] = "idle" /\ Goto(w, "acc_check")
        /\ UNCHANGED <<ctx, nb, sock, inBuf, outBuf, outQ, wire, got, ops>>
    BY <1>1 DEF AcceptDone, At, bufVars
  <2>2. \A d \in Contexts : OpsOf(d)' = OpsOf(d)
    BY <2>1 DEF OpsOf
  <2> QED BY <2>1, <2>2, Labels, BytesStep
<1>2. ASSUME NEW o \in ops, IoClosed(w, o), NEW c, o.ctx = c
      PROVE  EchoInv'
  <2>1. /\ pc[w] = "idle" /\ Goto(w, "close") /\ ctx'[w] = c
        /\ \A v \in Workers \ {w} : ctx'[v] = ctx[v]
        /\ UNCHANGED <<nb, sock, inBuf, outBuf, outQ, wire, got>>
    BY <1>2 DEF IoClosed, CallClose, At, bufVars, netVars, TypeOK, WorkerType
  <2>2. /\ \A d \in Contexts \ {c} : OpsOf(d)' = OpsOf(d)
        /\ OpsOf(c)' \subseteq OpsOf(c)
    BY <1>2 DEF IoClosed, OpsOf
  <2> QED BY <2>1, <2>2, Labels, BytesStep
<1> QED BY <1>1, <1>2, BytesRecvDone, BytesSendDone DEF Dequeue, ClientPacket

\* Steps that write m_outBuf: the bytes p they put there are those that follow the
\* wire, so that they may be posted.
LEMMA BytesOutput ==
  ASSUME TypeOK, PendingInv, SockInv, EchoInv, heap = "ok", NEW w \in Workers,
         NEW c \in Contexts, ctx[w] = c, NEW p, outBuf'[c] = p,
         UNCHANGED <<ctx, nb, sock, inBuf, outQ, wire, got>>,
         \A d \in Contexts \ {c} : outBuf'[d] = outBuf[d],
         NEW l \in {"idle", "sent", "close", "release"}, Goto(w, l),
         pc[w] = "hsend" \/ (pc[w] = "notify" /\ outBuf[c] = <<>>),
         \/ ops' = ops
         \/ /\ sock[c] # None
            /\ ops' = ops \cup
                 {[type |-> "send", ctx |-> c, sock |-> sock[c], data |-> p]},
         p = <<>> => outQ[c] = <<>>,
         sock[c] # None =>
           /\ BytesFrom(p, sock[c], Len(wire[sock[c]]))
           /\ Len(wire[sock[c]]) + Len(p) <= got[sock[c]]
           /\ outQ[c] = <<>> =>
                Len(wire[sock[c]]) + Len(p)
                  = got[sock[c]] - (IF pc[w] = "notify" THEN 0 ELSE Waiting(c))
  PROVE  EchoInv'
<1>1. /\ w \in Handlers(c) /\ ContextInv(c) /\ ByteInv(c) /\ Handlers(c) \subseteq Workers
  BY Labels DEF Handlers, Leaving, PendingInv, EchoInv
<1>2. /\ \A o \in OpsOf(c) : o.type # "send"
      /\ \A v \in Handlers(c) : v # w => pc[v] # "hsend"
      /\ pc[w] = "notify" => \A v \in Handlers(c) : v # w => pc[v] # "notify"
  BY <1>1 DEF ContextInv, UniqueInv, OutputInv, WillRecv
<1>3. pc'[w] = l /\ \A v \in Workers : v # w => pc'[v] = pc[v]
  BY DEF Goto, TypeOK, WorkerType
<1>4. \A v \in Workers : v \in Handlers(c)' /\ pc'[v] \in {"notify", "hsend"} <=>
        v # w /\ v \in Handlers(c) /\ pc[v] \in {"notify", "hsend"}
  BY <1>3, Labels DEF Handlers, Leaving
<1>5. Handlers(c)' \subseteq Workers
  BY DEF Handlers
<1>6. Waiting(c)' = IF pc[w] = "notify" THEN 0 ELSE Waiting(c)
  BY <1>1, <1>2, <1>3, <1>4, <1>5 DEF Waiting
<1>7. /\ \A d \in Contexts \ {c} : OpsOf(d)' = OpsOf(d)
      /\ \A o \in OpsOf(c)' : o.type = "send" =>
           sock[c] # None /\ o.sock = sock[c] /\ o.data = p
  BY <1>2 DEF OpsOf
<1>8. BytesLocal(w, c) /\ EchoIntegrity'
  BY <1>3, <1>7, WireSame DEF BytesLocal
<1>9. QueueInv(c)'
  BY <1>1 DEF ByteInv, QueueInv
<1>10. FlightInv(c)'
  BY <1>6, <1>7 DEF FlightInv
<1>11. LeftInv(c)'
  BY <1>2, <1>3, <1>4, <1>5 DEF LeftInv
<1>12. InputBytesInv(c)'
  <2>1. \A v \in Handlers(c)' : pc'[v] = "notify" => v \in Handlers(c) /\ pc[v] = "notify"
    BY <1>3, <1>4, <1>5
  <2>2. p = <<>> /\ sock[c] # None => Len(wire[sock[c]]) = got[sock[c]] - Waiting(c)'
    <3> SUFFICES ASSUME p = <<>>, sock[c] # None
                 PROVE  Len(wire[sock[c]]) = got[sock[c]] - Waiting(c)'
      OBVIOUS
    <3>1. Len(wire[sock[c]]) \in Nat
      BY DEF TypeOK, NetType, ContextType
    <3>2. Len(p) = 0 /\ outQ[c] = <<>>
      OBVIOUS
    <3> QED BY <1>6, <3>1, <3>2
  <2> QED BY <1>1, <2>1, <2>2 DEF ByteInv, InputBytesInv, BytesFrom
<1> QED BY <1>8, <1>9, <1>10, <1>11, <1>12, BytesKeep DEF ByteInv

\* What postSend does to the operations and to the worker.
LEMMA PostSendStep ==
  ASSUME TypeOK, NEW w \in Workers, NEW c, ctx[w] = c, NEW p,
         NEW k \in {"idle", "sent"}, PostSend(w, p, k)
  PROVE  /\ \E l \in {"idle", "sent", "close", "release"} : Goto(w, l)
         /\ \/ ops' = ops
            \/ /\ sock[c] # None
               /\ ops' = ops \cup
                    {[type |-> "send", ctx |-> c, sock |-> sock[c], data |-> p]}
  BY DEF PostSend, CallClose

\* echo() hands the bytes of m_inBuf to send(): they are posted when m_outBuf is
\* empty, that is when the others are on the wire, and queued otherwise.
LEMMA BytesEcho ==
  ASSUME TypeOK, PendingInv, SockInv, EchoInv, heap = "ok", NEW w \in Workers,
         Echo(w), NEW c, ctx[w] = c
  PROVE  EchoInv'
<1>1. /\ pc[w] = "notify" /\ UNCHANGED <<ctx, nb, sock, inBuf, wire, got>>
  BY DEF Echo, At, netVars
<1>2. /\ c \in Contexts /\ w \in Handlers(c) /\ ContextInv(c) /\ ByteInv(c)
      /\ inBuf[c] \in Seq(Byte) /\ inBuf[c] # <<>>
  <2>1. /\ c \in Contexts /\ w \in Handlers(c) /\ ContextInv(c)
    BY <1>1, InHandler, Labels
  <2> QED BY <1>1, <2>1 DEF EchoInv, ContextInv, InputInv, TypeOK, ContextType
<1>3. Waiting(c) = Len(inBuf[c])
  BY <1>1, <1>2 DEF Waiting
<1>4. CASE /\ outBuf[c] = <<>> /\ outBuf' = [outBuf EXCEPT ![c] = inBuf[c]]
           /\ PostSend(w, inBuf[c], "sent") /\ outQ' = outQ
  <2> DEFINE p == inBuf[c]
  <2>1. /\ outBuf'[c] = p /\ \A d \in Contexts \ {c} : outBuf'[d] = outBuf[d]
        /\ outBuf[c] = <<>> /\ outQ' = outQ /\ (p = <<>> => outQ[c] = <<>>)
    BY <1>2, <1>4 DEF TypeOK, ContextType
  <2>2. ASSUME sock[c] # None
        PROVE  /\ BytesFrom(p, sock[c], Len(wire[sock[c]]))
               /\ Len(wire[sock[c]]) + Len(p) <= got[sock[c]]
               /\ Len(wire[sock[c]]) + Len(p) = got[sock[c]] - 0
    <3>1. /\ BytesFrom(p, sock[c], got[sock[c]] - Len(p))
          /\ Len(wire[sock[c]]) = got[sock[c]] - Len(p)
      BY <1>1, <1>2, <1>3, <1>4, <2>2 DEF ByteInv, InputBytesInv
    <3>2. /\ Len(wire[sock[c]]) \in Nat /\ got[sock[c]] \in Nat /\ Len(p) \in Nat
      BY <1>2, <2>2 DEF TypeOK, NetType, ContextType
    <3> HIDE DEF p
    <3> QED BY <3>1, <3>2
  <2>3. /\ \E l \in {"idle", "sent", "close", "release"} : Goto(w, l)
        /\ \/ ops' = ops
           \/ /\ sock[c] # None
              /\ ops' = ops \cup
                   {[type |-> "send", ctx |-> c, sock |-> sock[c], data |-> p]}
    BY <1>4, PostSendStep
  <2> HIDE DEF p
  <2>4. sock[c] # None =>
          /\ BytesFrom(p, sock[c], Len(wire[sock[c]]))
          /\ Len(wire[sock[c]]) + Len(p) <= got[sock[c]]
          /\ outQ[c] = <<>> =>
               Len(wire[sock[c]]) + Len(p)
                 = got[sock[c]] - (IF pc[w] = "notify" THEN 0 ELSE Waiting(c))
    BY <1>1, <2>2
  <2>5. PICK l \in {"idle", "sent", "close", "release"} : Goto(w, l)
    BY <2>3
  <2>6. c \in Contexts
    BY <1>2
  <2> QED BY <1>1, <2>1, <2>3, <2>4, <2>5, <2>6, BytesOutput
<1>5. CASE /\ outBuf[c] # <<>> /\ outQ' = [outQ EXCEPT ![c] = Append(@, inBuf[c])]
           /\ Goto(w, "sent") /\ UNCHANGED <<outBuf, ops>>
  <2>1. /\ outQ'[c] = Append(outQ[c], inBuf[c]) /\ outQ[c] \in Seq(Seq(Byte))
        /\ \A d \in Contexts \ {c} : outQ'[d] = outQ[d]
    BY <1>2, <1>5 DEF TypeOK, ContextType
  <2>2. pc'[w] = "sent" /\ \A v \in Workers : v # w => pc'[v] = pc[v]
    BY <1>5 DEF Goto, TypeOK, WorkerType
  <2>3. \A d \in Contexts : OpsOf(d)' = OpsOf(d)
    BY <1>5 DEF OpsOf
  <2>4. BytesLocal(w, c) /\ EchoIntegrity'
    BY <1>1, <1>5, <2>1, <2>2, <2>3, WireSame DEF BytesLocal
  <2>5. \A v \in Handlers(c)' : v # w => v \in Handlers(c) /\ pc'[v] = pc[v]
    <3>1. ret' = ret
      BY <1>1, <1>2, <1>5 DEF Echo, Send
    <3> QED BY <1>1, <2>2, <3>1 DEF Handlers, Leaving
  <2>6. outQ'[c] # <<>> /\ \A i \in 1 .. Len(outQ'[c]) : outQ'[c][i] # <<>>
    <3>1. \A i \in 1 .. Len(outQ[c]) : outQ[c][i] # <<>>
      BY <1>2 DEF ByteInv, QueueInv
    <3>2. /\ Len(outQ'[c]) = Len(outQ[c]) + 1 /\ Len(outQ[c]) \in Nat
          /\ \A i \in 1 .. Len(outQ[c]) + 1 :
               outQ'[c][i] = IF i = Len(outQ[c]) + 1 THEN inBuf[c] ELSE outQ[c][i]
      BY <1>2, <2>1
    <3> QED BY <1>2, <3>1, <3>2
  <2>7. QueueInv(c)' /\ FlightInv(c)'
    BY <1>1, <1>2, <1>5, <2>3, <2>6 DEF ByteInv, QueueInv, FlightInv
  <2>8. LeftInv(c)' /\ InputBytesInv(c)'
    BY <1>1, <1>2, <1>5, <2>2, <2>5, <2>6 DEF ByteInv, LeftInv, InputBytesInv
  <2> QED BY <2>4, <2>7, <2>8, BytesKeep DEF ByteInv
<1> QED BY <1>4, <1>5 DEF Echo, Send

\* handleSend posts the bytes that are left; when there are none, what was
\* received is on the wire.  A Buffer of the queue is never empty, so reading one
\* leaves the heap broken.
LEMMA BytesHandleSend ==
  ASSUME TypeOK, PendingInv, SockInv, EchoInv, heap = "ok", heap' = "ok",
         NEW w \in Workers, HandleSend(w), NEW c, ctx[w] = c, NEW m, nb[w] = m
  PROVE  EchoInv'
<1>1. pc[w] = "hsend"
  BY DEF HandleSend, SendNext, SendQueued, At
<1>2. c \in Contexts /\ w \in Handlers(c) /\ ContextInv(c)
  BY <1>1, InHandler, Labels
<1>3. /\ ByteInv(c) /\ outBuf[c] \in Seq(Byte) /\ outQ[c] \in Seq(Seq(Byte))
      /\ m \in 1 .. Len(outBuf[c])
  BY <1>1, <1>2 DEF EchoInv, TypeOK, ContextType, ContextInv, OutputInv
<1>4. ASSUME SendQueued(w) PROVE FALSE
  <2>1. outQ[c] # <<>> /\ [i \in 1 .. Len(Head(outQ[c])) |-> Garbage] = <<>>
    BY <1>4 DEF SendQueued
  <2>2. Head(outQ[c]) \in Seq(Byte) /\ Head(outQ[c]) # <<>>
    <3>1. \A i \in 1 .. Len(outQ[c]) : outQ[c][i] # <<>>
      BY <1>3 DEF ByteInv, QueueInv
    <3>2. 1 \in 1 .. Len(outQ[c]) /\ Head(outQ[c]) = outQ[c][1] /\ outQ[c][1] \in Seq(Byte)
      BY <1>3, <2>1
    <3> QED BY <3>1, <3>2
  <2>3. Len(Head(outQ[c])) = 0
    BY <2>1, <2>2
  <2> QED BY <2>2, <2>3
<1>5. SendNext(w)
  BY <1>4 DEF HandleSend
<1> DEFINE rest == SubSeq(outBuf[c], m + 1, Len(outBuf[c]))
<1>6. /\ Len(rest) = Len(outBuf[c]) - m /\ rest \in Seq(Byte)
      /\ \A i \in 1 .. Len(rest) : rest[i] = outBuf[c][m + i]
  BY <1>3
<1>7. /\ UNCHANGED <<ctx, nb, sock, inBuf, outQ, wire, got>>
      /\ rest # <<>> \/ outQ[c] = <<>>
      /\ outBuf'[c] = rest /\ \A d \in Contexts \ {c} : outBuf'[d] = outBuf[d]
      /\ PostSend(w, rest, "idle") \/ (Goto(w, "release") /\ ops' = ops)
  BY <1>2, <1>5 DEF SendNext, netVars, TypeOK, ContextType
<1> HIDE DEF rest
<1>8. /\ \E l \in {"idle", "sent", "close", "release"} : Goto(w, l)
      /\ \/ ops' = ops
         \/ /\ sock[c] # None
            /\ ops' = ops \cup
                 {[type |-> "send", ctx |-> c, sock |-> sock[c], data |-> rest]}
  BY <1>7, PostSendStep
<1>9. ASSUME sock[c] # None
      PROVE  /\ BytesFrom(rest, sock[c], Len(wire[sock[c]]))
             /\ Len(wire[sock[c]]) + Len(rest) <= got[sock[c]]
             /\ outQ[c] = <<>> =>
                  Len(wire[sock[c]]) + Len(rest) = got[sock[c]] - Waiting(c)
  <2>1. /\ m <= Len(wire[sock[c]])
        /\ BytesFrom(outBuf[c], sock[c], Len(wire[sock[c]]) - m)
        /\ Len(wire[sock[c]]) - m + Len(outBuf[c]) <= got[sock[c]]
        /\ outQ[c] = <<>> =>
             Len(wire[sock[c]]) - m + Len(outBuf[c]) = got[sock[c]] - Waiting(c)
    BY <1>1, <1>2, <1>3, <1>9 DEF ByteInv, LeftInv
  <2>2. /\ Len(wire[sock[c]]) \in Nat /\ m \in Nat /\ Len(outBuf[c]) \in Nat
        /\ m <= Len(outBuf[c])
    BY <1>2, <1>3, <1>9 DEF TypeOK, NetType, ContextType
  <2>3. BytesFrom(rest, sock[c], Len(wire[sock[c]]))
    <3> SUFFICES ASSUME NEW i \in 1 .. Len(rest)
                 PROVE  rest[i] = <<sock[c], Len(wire[sock[c]]) + i>>
      BY DEF BytesFrom
    <3>0. i \in Nat /\ i >= 1 /\ i <= Len(outBuf[c]) - m
      BY <1>6, <2>2
    <3>1. m + i \in 1 .. Len(outBuf[c]) /\ Len(wire[sock[c]]) - m + (m + i)
                                             = Len(wire[sock[c]]) + i
      BY <2>2, <3>0
    <3> QED BY <1>6, <2>1, <3>1 DEF BytesFrom
  <2>4. Len(wire[sock[c]]) + Len(rest) = Len(wire[sock[c]]) - m + Len(outBuf[c])
    BY <1>6, <2>2
  <2> QED BY <2>1, <2>3, <2>4
<1> QED BY <1>1, <1>2, <1>7, <1>8, <1>9, BytesOutput

-----------------------------------------------------------------------------
(* The theorem *)

\* A broken heap is never mended.
LEMMA HeapBroken ==
  ASSUME NEW w \in Workers, Dequeue(w) \/ Handle(w) \/ Echo(w) \/ EchoDone(w),
         heap' = "ok"
  PROVE  heap = "ok"
<1>1. CASE Dequeue(w)
  BY <1>1 DEF Dequeue, ClientPacket, AcceptDone, RecvDone, SendDone, IoClosed
<1>2. CASE HandleAccept(w) \/ PostRecv(w)
  BY <1>2 DEF HandleAccept, AcceptCheck, AcceptCount, AcceptAlloc, AcceptPost,
    AcceptAdd, PostRecv
<1>3. CASE HandleSend(w)
  BY <1>3 DEF HandleSend, SendNext, SendQueued
<1>4. CASE CloseClient(w)
  BY <1>4 DEF CloseClient, CloseTake, CloseCancel, CloseCount, Release, RemoveClient,
    Unlock
<1>5. CASE Echo(w) \/ EchoDone(w)
  BY <1>5 DEF Echo, EchoDone
<1> QED BY <1>1, <1>2, <1>3, <1>4, <1>5 DEF Handle

\* EchoInv is inductive, relative to the invariants of the contexts and sockets.
LEMMA EchoNext ==
  ASSUME TypeOK, PendingInv, SockInv, EchoInv, [Next]_vars
  PROVE  EchoInv'
<1> SUFFICES ASSUME heap' = "ok" PROVE EchoInv'
  BY DEF EchoInv
<1>1. ASSUME NEW w \in Workers,
             Dequeue(w) \/ Handle(w) \/ Echo(w) \/ EchoDone(w)
      PROVE  EchoInv'
  <2>1. heap = "ok"
    BY <1>1, HeapBroken
  <2> QED BY <1>1, <2>1, BytesDequeue, BytesAccept, BytesRecv, BytesHandleSend,
             BytesClose, BytesEcho DEF Handle
<1>2. CASE UNCHANGED vars
  <2>1. \A c \in Contexts : OpsOf(c)' = OpsOf(c) /\ Handlers(c)' = Handlers(c)
    BY <1>2 DEF OpsOf, Handlers, Leaving, vars, workerVars
  <2>2. \A c \in Contexts : Waiting(c)' = Waiting(c)
    BY <1>2, <2>1 DEF Waiting, vars, workerVars, bufVars
  <2>3. heap = "ok" /\ EchoIntegrity'
    BY <1>2 DEF vars, netVars, EchoInv, EchoIntegrity
  <2>4. ASSUME NEW c \in Contexts PROVE ByteInv(c)'
    BY <1>2, <2>1, <2>2, <2>3
    DEF EchoInv, ByteInv, QueueInv, FlightInv, LeftInv, InputBytesInv, BytesFrom,
        vars, workerVars, bufVars, netVars
  <2> QED BY <2>3, <2>4 DEF EchoInv
<1>3. ~HeapFault
  BY DEF HeapFault
<1> QED BY <1>1, <1>2, <1>3 DEF Next, Quiescent

\* What a client is sent is a prefix of what it sent, in order and each byte once,
\* for any number of clients, workers and contexts and whatever calls fail, until
\* a Buffer of the queue is read.
THEOREM EchoCorrect == Spec => []EchoIntegrity
<1>1. Init => EchoInv
  <2> SUFFICES ASSUME Init PROVE EchoInv
    OBVIOUS
  <2>1. \A c \in Contexts : OpsOf(c) = {} /\ Handlers(c) = {}
    BY Labels DEF Init, OpsOf, Handlers
  <2>2. EchoIntegrity
    BY DEF Init, EchoIntegrity
  <2>3. ASSUME NEW c \in Contexts PROVE ByteInv(c)
    <3>1. outBuf[c] = <<>> /\ outQ[c] = <<>> /\ sock[c] = None
      BY DEF Init
    <3>2. QueueInv(c)
      BY <3>1 DEF QueueInv
    <3>3. FlightInv(c) /\ LeftInv(c) /\ InputBytesInv(c)
      BY <2>1, <3>1 DEF FlightInv, LeftInv, InputBytesInv
    <3> QED BY <3>2, <3>3 DEF ByteInv
  <2> QED BY <2>2, <2>3 DEF EchoInv
<1>2. TypeOK /\ PendingInv /\ SockInv /\ EchoInv /\ [Next]_vars => EchoInv'
  BY EchoNext
<1>3. EchoInv => EchoIntegrity
  BY DEF EchoInv, EchoIntegrity
<1> QED BY <1>1, <1>2, <1>3, TypeCorrect, PendingAlways, SockAlways, PTL DEF Spec
=============================================================================
