------------------------------- MODULE Buffer -------------------------------
(***************************************************************************)
(* Buffer.cpp: the byte buffer behind m_inBuf and m_outBuf.  mem is the    *)
(* block at m_pBegin, m_nSize bytes of which the first len are the data    *)
(* and the others what earlier operations left there; a Buffer without     *)
(* memory has an empty block.  Every CopyMemory and MoveMemory is tested   *)
(* against the block it touches.                                           *)
(***************************************************************************)
EXTENDS Naturals, Sequences

CONSTANTS
  Bytes,     \* bytes that callers write
  Nul,       \* what VirtualAlloc fills a block with
  Align,     \* 1024
  MaxLen,    \* bound: bytes a Buffer holds
  Strings    \* byte sequences that callers pass

ASSUME BufferAssumption ==
  /\ Align \in Nat \ {0}
  /\ MaxLen \in Nat
  /\ Strings \subseteq Seq(Bytes)

VARIABLES
  mem, len,   \* the block and m_pEnd - m_pBegin
  moved,      \* the last operation changed m_pBegin
  fault,      \* some operation touched memory outside the block
  call, out   \* the last operation, and the bytes it returned

bufferVars == <<mem, len, moved, fault, call, out>>

Byte == Bytes \cup {Nul}

\* The sizes a caller may ask for: beyond the data and beyond the block.
Sizes == 0 .. MaxLen + Align

Init ==
  /\ mem = <<>>
  /\ len = 0
  /\ moved = FALSE
  /\ fault = FALSE
  /\ call = <<"new", 0>>
  /\ out = <<>>

-----------------------------------------------------------------------------
(* Memory *)

\* ceil(n / 1024.0) * 1024
RoundUp(n) == ((n + Align - 1) \div Align) * Align

\* A block for n bytes that starts with the first l bytes of m.
NewBlock(m, l, n) ==
  [i \in 1 .. RoundUp(n) |-> IF i <= l THEN m[i] ELSE Nul]

\* Mutant: a block that the data overflows by one byte is kept.
MustGrow_Late(m, n) == n > Len(m) + 1

\* reallocateBuffer(n) returns early on a block larger than n.
MustGrow(m, n) == n >= Len(m)

reallocateBuffer(m, l, n) == IF MustGrow(m, n) THEN NewBlock(m, l, n) ELSE m

\* Mutant: a block larger than needed is given back.
MustTrim_Larger(m, l, n) == n >= l /\ RoundUp(n) <= Len(m)

\* deallocateBuffer(n) returns early on fewer bytes than the data and on a
\* block larger than n rounded up: it never makes a block smaller.
MustTrim(m, l, n) == n >= l /\ RoundUp(n) >= Len(m)

deallocateBuffer(m, l, n) == IF MustTrim(m, l, n) THEN NewBlock(m, l, n) ELSE m

\* CopyMemory of p to offset d of the block m.
Put(m, d, p) ==
  [i \in 1 .. Len(m) |-> IF i \in d + 1 .. d + Len(p) THEN p[i - d] ELSE m[i]]

\* MoveMemory that drops the first n bytes of m, whatever they are; the last n
\* bytes of the block stay where they are.
ShiftDown(m, n) ==
  [i \in 1 .. Len(m) |-> IF i + n <= Len(m) THEN m[i + n] ELSE m[i]]

\* MoveMemory that makes room for n bytes at the beginning of m.
ShiftUp(m, n) == [i \in 1 .. Len(m) |-> IF i > n THEN m[i - n] ELSE m[i]]

-----------------------------------------------------------------------------
(* Operations *)

Called(op, arg) == call' = <<op, arg>>

write(p) ==
  LET n == len + Len(p)
      m == reallocateBuffer(mem, len, n) IN
  /\ n <= MaxLen
  /\ mem' = Put(m, len, p)
  /\ len' = n
  /\ moved' = (MustGrow(mem, n) /\ m # <<>>)
  /\ fault' = (fault \/ n > Len(m))
  /\ out' = <<>>
  /\ Called("write", p)

\* Mutant: the data is not moved out of the way.
insert_NoShift(p) ==
  LET n == len + Len(p)
      m == reallocateBuffer(mem, len, n) IN
  /\ n <= MaxLen
  /\ mem' = Put(m, 0, p)
  /\ len' = n
  /\ moved' = (MustGrow(mem, n) /\ m # <<>>)
  /\ fault' = (fault \/ n > Len(m))
  /\ out' = <<>>
  /\ Called("insert", p)

insert(p) ==
  LET n == len + Len(p)
      m == reallocateBuffer(mem, len, n) IN
  /\ n <= MaxLen
  /\ mem' = Put(ShiftUp(m, Len(p)), 0, p)
  /\ len' = n
  /\ moved' = (MustGrow(mem, n) /\ m # <<>>)
  /\ fault' = (fault \/ n > Len(m))
  /\ out' = <<>>
  /\ Called("insert", p)

\* remove and read refuse a size beyond the block and clip it to the data.
Clip(n) == IF n > Len(mem) THEN 0 ELSE IF n > len THEN len ELSE n

\* The block after the first k bytes were taken; a refused call changes
\* nothing.
Consume(n, k) ==
  LET m == ShiftDown(mem, k)
      trim == n <= Len(mem) /\ MustTrim(m, len - k, len - k) IN
  /\ mem' = IF trim THEN NewBlock(m, len - k, len - k) ELSE m
  /\ len' = len - k
  /\ moved' = (trim /\ mem # <<>>)
  /\ fault' = (fault \/ k > Len(mem) \/ len - k > Len(mem'))

remove(n) ==
  /\ Consume(n, Clip(n))
  /\ out' = <<>>
  /\ Called("remove", n)

read(n) ==
  /\ Consume(n, Clip(n))
  /\ out' = SubSeq(mem, 1, Clip(n))
  /\ Called("read", n)

\* clear keeps a block larger than 1024 bytes, and replaces any other.
clear ==
  /\ mem' = deallocateBuffer(mem, 0, Align)
  /\ len' = 0
  /\ moved' = MustTrim(mem, 0, Align)
  /\ UNCHANGED fault
  /\ out' = <<>>
  /\ Called("clear", 0)

\* copy from a Buffer that holds p in a block of size bytes.
copy(p, size) ==
  LET c == deallocateBuffer(mem, 0, Align)
      m == reallocateBuffer(c, 0, size) IN
  /\ mem' = Put(m, 0, p)
  /\ len' = Len(p)
  /\ moved' = (MustTrim(mem, 0, Align) \/ MustGrow(c, size))
  /\ fault' = (fault \/ Len(p) > Len(m))
  /\ out' = <<>>
  /\ Called("copy", p)

\* The sizes of the blocks that can hold p.
Blocks(p) == {RoundUp(n) : n \in Len(p) .. MaxLen}

Next ==
  \/ \E p \in Strings : write(p) \/ insert(p)
  \/ \E n \in Sizes : remove(n) \/ read(n)
  \/ \E p \in Strings : \E s \in Blocks(p) : copy(p, s)
  \/ clear

Spec == Init /\ [][Next]_bufferVars

-----------------------------------------------------------------------------
(* Properties *)

\* The block is a multiple of the allocation unit and holds the data.
BufferType ==
  /\ mem \in Seq(Byte)
  /\ len \in 0 .. Len(mem)
  /\ Len(mem) % Align = 0
  /\ moved \in BOOLEAN /\ fault \in BOOLEAN

\* No operation, in whatever order they are called, reads or writes outside
\* the block: the sizes that write, insert, copy and remove compute fit the
\* block that reallocateBuffer and deallocateBuffer left.
NoFault == ~fault

\* The data of the Buffer.
Data == SubSeq(mem, 1, len)

\* A Buffer is a queue of bytes: moving the data inside the block, and from
\* one block to another, loses, repeats and reorders none of it, and nothing
\* that earlier operations left behind the data comes back.
Queue == INSTANCE ByteQueue WITH queue <- Data
QueueSpec == Queue!Spec

\* HttpServer::notifyPackageReceived goes on decoding through a Slice of the
\* block after remove(getBufferLen()): taking all of the data never replaces
\* the block, so that the Slice does not point to released memory.
EmptyingKeepsBlock == call[1] \in {"remove", "read"} /\ len = 0 => ~moved

\* Buffer.h:16: unlike consume, remove replaces the memory every time.  It does
\* not: deallocateBuffer keeps a block larger than the data that is left, rounded
\* up, and so always when nothing is left, on which EmptyingKeepsBlock rests.
RemoveReplaces ==
  [][call'[1] = "remove" /\ len' < len => moved']_bufferVars
=============================================================================
