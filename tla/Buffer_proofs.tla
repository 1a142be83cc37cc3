---------------------------- MODULE Buffer_proofs ----------------------------
(***************************************************************************)
(* Proofs about Buffer, for every allocation unit, every set of bytes and  *)
(* every bound: no operation leaves the block, emptying a Buffer keeps its *)
(* block, and a Buffer implements ByteQueue.                               *)
(***************************************************************************)
EXTENDS Buffer, TLAPS, SequenceTheorems

-----------------------------------------------------------------------------
(* Memory *)

\* What the rounding in reallocateBuffer and deallocateBuffer returns.
LEMMA RoundUpSize ==
  ASSUME NEW n \in Nat
  PROVE  /\ RoundUp(n) \in Nat
         /\ RoundUp(n) >= n
         /\ n = 0 => RoundUp(n) = 0
         /\ RoundUp(n) % Align = 0
<1>. DEFINE q == (n + Align - 1) \div Align
<1>1. Align \in Nat /\ Align >= 1
  BY BufferAssumption
<1>2. n + Align - 1 \in Nat
  BY <1>1
<1>3. /\ q \in Nat
      /\ n + Align - 1 = Align * q + ((n + Align - 1) % Align)
      /\ (n + Align - 1) % Align \in 0 .. Align - 1
  BY <1>1, <1>2
<1>4. RoundUp(n) \in Nat
  BY <1>1, <1>3 DEF RoundUp
<1>5. RoundUp(n) >= n
  BY <1>1, <1>3 DEF RoundUp
<1>6. n = 0 => RoundUp(n) = 0
  BY <1>1, <1>3 DEF RoundUp
<1>7. (q * Align) % Align = 0
  BY <1>1, <1>3
<1>. QED
  BY <1>4, <1>5, <1>6, <1>7 DEF RoundUp

\* A block is a sequence of whole allocation units.
IsBlock(m) == m \in Seq(Byte) /\ Len(m) % Align = 0

\* A new block is large enough and starts with the data of the old one.
LEMMA NewBlockData ==
  ASSUME NEW m, IsBlock(m), NEW l \in 0 .. Len(m), NEW n \in Nat, l <= n
  PROVE  /\ IsBlock(NewBlock(m, l, n))
         /\ Len(NewBlock(m, l, n)) = RoundUp(n)
         /\ \A i \in 1 .. l : NewBlock(m, l, n)[i] = m[i]
<1>. DEFINE b == NewBlock(m, l, n)
<1>1. RoundUp(n) \in Nat /\ RoundUp(n) >= n /\ RoundUp(n) % Align = 0
  BY RoundUpSize
<1>2. m \in [1 .. Len(m) -> Byte] /\ Len(m) \in Nat
  BY LenProperties DEF IsBlock
<1>3. b \in [1 .. RoundUp(n) -> Byte]
  BY <1>1, <1>2 DEF NewBlock, Byte
<1>4. b \in Seq(Byte) /\ Len(b) = RoundUp(n)
  BY <1>1, <1>3
<1>5. \A i \in 1 .. l : b[i] = m[i]
  BY <1>1 DEF NewBlock
<1>. QED
  BY <1>1, <1>4, <1>5 DEF IsBlock

\* reallocateBuffer leaves a block for n bytes that starts with the data.
LEMMA ReallocateData ==
  ASSUME NEW m, IsBlock(m), NEW l \in 0 .. Len(m), NEW n \in Nat, l <= n
  PROVE  /\ IsBlock(reallocateBuffer(m, l, n))
         /\ Len(reallocateBuffer(m, l, n)) >= n
         /\ \A i \in 1 .. l : reallocateBuffer(m, l, n)[i] = m[i]
<1>1. Len(m) \in Nat
  BY LenProperties DEF IsBlock
<1>2. RoundUp(n) \in Nat /\ RoundUp(n) >= n
  BY RoundUpSize
<1>3. CASE MustGrow(m, n)
  BY <1>2, <1>3, NewBlockData DEF reallocateBuffer
<1>4. CASE ~ MustGrow(m, n)
  BY <1>1, <1>4 DEF reallocateBuffer, MustGrow
<1>. QED
  BY <1>3, <1>4

\* So does deallocateBuffer.
LEMMA DeallocateData ==
  ASSUME NEW m, IsBlock(m), NEW l \in 0 .. Len(m), NEW n \in Nat, l <= n
  PROVE  /\ IsBlock(deallocateBuffer(m, l, n))
         /\ Len(deallocateBuffer(m, l, n)) >= n
         /\ \A i \in 1 .. l : deallocateBuffer(m, l, n)[i] = m[i]
<1>1. Len(m) \in Nat
  BY LenProperties DEF IsBlock
<1>2. RoundUp(n) \in Nat /\ RoundUp(n) >= n
  BY RoundUpSize
<1>3. CASE MustTrim(m, l, n)
  BY <1>2, <1>3, NewBlockData DEF deallocateBuffer
<1>4. CASE ~ MustTrim(m, l, n)
  BY <1>1, <1>2, <1>4 DEF deallocateBuffer, MustTrim
<1>. QED
  BY <1>3, <1>4

\* What CopyMemory writes, and what it leaves alone.
LEMMA PutData ==
  ASSUME NEW m, IsBlock(m), NEW d \in Nat, NEW p \in Seq(Bytes),
         d + Len(p) <= Len(m)
  PROVE  /\ IsBlock(Put(m, d, p))
         /\ Len(Put(m, d, p)) = Len(m)
         /\ \A i \in 1 .. Len(p) : Put(m, d, p)[d + i] = p[i]
         /\ \A i \in 1 .. d : Put(m, d, p)[i] = m[i]
         /\ \A i \in d + Len(p) + 1 .. Len(m) : Put(m, d, p)[i] = m[i]
<1>1. m \in [1 .. Len(m) -> Byte] /\ Len(m) \in Nat
  BY LenProperties DEF IsBlock
<1>2. p \in [1 .. Len(p) -> Bytes] /\ Len(p) \in Nat
  BY LenProperties
<1>3. Put(m, d, p) \in [1 .. Len(m) -> Byte]
  BY <1>1, <1>2 DEF Put, Byte
<1>4. Put(m, d, p) \in Seq(Byte) /\ Len(Put(m, d, p)) = Len(m)
  BY <1>1, <1>3
<1>5. \A i \in 1 .. Len(p) : Put(m, d, p)[d + i] = p[i]
  BY <1>1, <1>2 DEF Put
<1>6. \A i \in 1 .. d : Put(m, d, p)[i] = m[i]
  BY <1>1, <1>2 DEF Put
<1>7. \A i \in d + Len(p) + 1 .. Len(m) : Put(m, d, p)[i] = m[i]
  BY <1>1, <1>2 DEF Put
<1>. QED
  BY <1>4, <1>5, <1>6, <1>7 DEF IsBlock

\* The two uses of MoveMemory.
LEMMA ShiftData ==
  ASSUME NEW m, IsBlock(m), NEW n \in 0 .. Len(m)
  PROVE  /\ IsBlock(ShiftDown(m, n)) /\ IsBlock(ShiftUp(m, n))
         /\ Len(ShiftDown(m, n)) = Len(m) /\ Len(ShiftUp(m, n)) = Len(m)
         /\ \A i \in 1 .. Len(m) - n : ShiftDown(m, n)[i] = m[i + n]
         /\ \A i \in n + 1 .. Len(m) : ShiftUp(m, n)[i] = m[i - n]
<1>1. m \in [1 .. Len(m) -> Byte] /\ Len(m) \in Nat
  BY LenProperties DEF IsBlock
<1>2. ShiftDown(m, n) \in [1 .. Len(m) -> Byte]
  BY <1>1 DEF ShiftDown
<1>3. ShiftUp(m, n) \in [1 .. Len(m) -> Byte]
  BY <1>1 DEF ShiftUp
<1>4. /\ ShiftDown(m, n) \in Seq(Byte) /\ Len(ShiftDown(m, n)) = Len(m)
      /\ ShiftUp(m, n) \in Seq(Byte) /\ Len(ShiftUp(m, n)) = Len(m)
  BY <1>1, <1>2, <1>3
<1>5. \A i \in 1 .. Len(m) - n : ShiftDown(m, n)[i] = m[i + n]
  BY <1>1 DEF ShiftDown
<1>6. \A i \in n + 1 .. Len(m) : ShiftUp(m, n)[i] = m[i - n]
  BY <1>1 DEF ShiftUp
<1>. QED
  BY <1>4, <1>5, <1>6 DEF IsBlock

-----------------------------------------------------------------------------
(* The operations *)

\* The inductive invariant: the types, no access outside the block, and the
\* block that remove and read keep.
BufferInv == BufferType /\ NoFault /\ EmptyingKeepsBlock

\* The first l bytes of a block, as a sequence.
LEMMA Prefix ==
  ASSUME NEW m, IsBlock(m), NEW l \in 0 .. Len(m)
  PROVE  /\ SubSeq(m, 1, l) \in Seq(Byte)
         /\ Len(SubSeq(m, 1, l)) = l
         /\ \A i \in 1 .. l : SubSeq(m, 1, l)[i] = m[i]
<1>1. m \in [1 .. Len(m) -> Byte] /\ Len(m) \in Nat
  BY LenProperties DEF IsBlock
<1>2. \A i \in 1 .. l : m[i] \in Byte
  BY <1>1
<1>. QED
  BY <1>1, <1>2, SubSeqProperties

\* A block that starts with the bytes of s has s as its first bytes.
LEMMA PrefixIs ==
  ASSUME NEW m, IsBlock(m), NEW s \in Seq(Byte), Len(s) <= Len(m),
         \A i \in 1 .. Len(s) : m[i] = s[i]
  PROVE  SubSeq(m, 1, Len(s)) = s
<1>1. Len(s) \in 0 .. Len(m)
  BY LenProperties DEF IsBlock
<1>. QED
  BY <1>1, Prefix, SeqEqual

\* The same for two sequences, one behind the other.
LEMMA PrefixConcat ==
  ASSUME NEW m, IsBlock(m), NEW a \in Seq(Byte), NEW b \in Seq(Byte),
         Len(a) + Len(b) <= Len(m),
         \A i \in 1 .. Len(a) : m[i] = a[i],
         \A i \in 1 .. Len(b) : m[Len(a) + i] = b[i]
  PROVE  SubSeq(m, 1, Len(a) + Len(b)) = a \o b
<1>1. Len(a) \in Nat /\ Len(b) \in Nat
  BY LenProperties
<1>2. /\ a \o b \in Seq(Byte) /\ Len(a \o b) = Len(a) + Len(b)
      /\ \A i \in 1 .. Len(a) + Len(b) :
            (a \o b)[i] = IF i <= Len(a) THEN a[i] ELSE b[i - Len(a)]
  BY ConcatProperties
<1>3. ASSUME NEW i \in 1 .. Len(a \o b)
      PROVE  m[i] = (a \o b)[i]
  <2>1. CASE i <= Len(a)
    <3>1. i \in 1 .. Len(a) /\ i \in 1 .. Len(a) + Len(b)
      BY <1>1, <1>2, <2>1
    <3>. QED
      BY <1>2, <2>1, <3>1
  <2>2. CASE ~ (i <= Len(a))
    <3>1. /\ i \in 1 .. Len(a) + Len(b)
          /\ i - Len(a) \in 1 .. Len(b) /\ Len(a) + (i - Len(a)) = i
      BY <1>1, <1>2, <2>2
    <3>2. m[i] = b[i - Len(a)]
      BY <3>1
    <3>. QED
      BY <1>2, <2>2, <3>1, <3>2
  <2>. QED
    BY <2>1, <2>2
<1>. QED
  BY <1>2, <1>3, PrefixIs

\* The strings that callers pass are sequences of bytes.
LEMMA StringType ==
  ASSUME NEW p \in Strings
  PROVE  /\ p \in Seq(Bytes) /\ p \in Seq(Byte) /\ Len(p) \in Nat
<1>1. p \in Seq(Bytes)
  BY BufferAssumption
<1>2. p \in Seq(Byte)
  BY <1>1, SeqMonotonic DEF Byte
<1>. QED
  BY <1>1, <1>2, LenProperties

\* write appends.
LEMMA WriteStep ==
  ASSUME BufferInv, NEW p \in Strings, write(p)
  PROVE  BufferInv' /\ Queue!Write(p)
<1>. DEFINE n == len + Len(p)
            m == reallocateBuffer(mem, len, n)
<1>0. IsBlock(mem) /\ Len(mem) \in Nat /\ len \in 0 .. Len(mem)
  BY LenProperties DEF BufferInv, BufferType, IsBlock
<1>1. p \in Seq(Bytes) /\ p \in Seq(Byte) /\ Len(p) \in Nat
  BY StringType
<1>2. n \in Nat /\ len <= n
  BY <1>0, <1>1
<1>3. /\ IsBlock(m) /\ Len(m) >= n
      /\ \A i \in 1 .. len : m[i] = mem[i]
  BY <1>0, <1>2, ReallocateData
<1>4. mem' = Put(m, len, p) /\ len' = n
  BY DEF write
<1>5. /\ IsBlock(mem') /\ Len(mem') = Len(m)
      /\ \A i \in 1 .. Len(p) : mem'[len + i] = p[i]
      /\ \A i \in 1 .. len : mem'[i] = mem[i]
  <2>1. len \in Nat /\ len + Len(p) <= Len(m)
    BY <1>0, <1>3
  <2>. QED
    BY <1>1, <1>3, <1>4, <2>1, PutData
<1>6. len' \in 0 .. Len(mem')
  BY <1>2, <1>3, <1>4, <1>5, LenProperties DEF IsBlock
<1>7. fault' = FALSE
  <2>1. ~ (n > Len(m))
    BY <1>2, <1>3, LenProperties DEF IsBlock
  <2>2. fault' = (fault \/ n > Len(m)) /\ fault = FALSE
    BY DEF write, BufferInv, BufferType, NoFault
  <2>. QED
    BY <2>1, <2>2
<1>8. Data' = Data \o p
  <2>1. /\ Data \in Seq(Byte) /\ Len(Data) = len
        /\ \A i \in 1 .. len : Data[i] = mem[i]
    BY <1>0, Prefix DEF Data
  <2>2. /\ \A i \in 1 .. Len(Data) : mem'[i] = Data[i]
        /\ \A i \in 1 .. Len(p) : mem'[Len(Data) + i] = p[i]
    BY <1>5, <2>1
  <2>3. Len(Data) + Len(p) <= Len(mem')
    BY <1>3, <1>5, <2>1
  <2>4. SubSeq(mem', 1, Len(Data) + Len(p)) = Data \o p
    BY <1>1, <1>5, <2>1, <2>2, <2>3, PrefixConcat
  <2>. QED
    BY <1>4, <2>1, <2>4 DEF Data
<1>9. call'[1] = "write" /\ moved' \in BOOLEAN
  BY DEF write, Called
<1>10. EmptyingKeepsBlock'
  BY <1>9 DEF EmptyingKeepsBlock
<1>. QED
  BY <1>5, <1>6, <1>7, <1>8, <1>9, <1>10
  DEF BufferInv, BufferType, NoFault, IsBlock, Queue!Write, write, Called

\* insert puts the bytes in front.
LEMMA InsertStep ==
  ASSUME BufferInv, NEW p \in Strings, insert(p)
  PROVE  BufferInv' /\ Queue!Insert(p)
<1>. DEFINE n == len + Len(p)
            m == reallocateBuffer(mem, len, n)
            u == ShiftUp(m, Len(p))
<1>0. IsBlock(mem) /\ Len(mem) \in Nat /\ len \in 0 .. Len(mem)
  BY LenProperties DEF BufferInv, BufferType, IsBlock
<1>1. p \in Seq(Bytes) /\ p \in Seq(Byte) /\ Len(p) \in Nat
  BY StringType
<1>2. n \in Nat /\ len <= n
  BY <1>0, <1>1
<1>3. /\ IsBlock(m) /\ Len(m) >= n
      /\ \A i \in 1 .. len : m[i] = mem[i]
  BY <1>0, <1>2, ReallocateData
<1>4. mem' = Put(u, 0, p) /\ len' = n
  BY DEF insert
<1>5. /\ IsBlock(u) /\ Len(u) = Len(m)
      /\ \A i \in Len(p) + 1 .. Len(m) : u[i] = m[i - Len(p)]
  <2>1. Len(p) \in 0 .. Len(m)
    BY <1>0, <1>1, <1>3, LenProperties DEF IsBlock
  <2>. QED
    BY <1>3, <2>1, ShiftData
<1>6. /\ IsBlock(mem') /\ Len(mem') = Len(m)
      /\ \A i \in 1 .. Len(p) : mem'[0 + i] = p[i]
      /\ \A i \in 0 + Len(p) + 1 .. Len(m) : mem'[i] = u[i]
  <2>1. 0 \in Nat /\ 0 + Len(p) <= Len(u)
    BY <1>0, <1>1, <1>3, <1>5, LenProperties DEF IsBlock
  <2>. QED
    BY <1>1, <1>4, <1>5, <2>1, PutData
<1>7. len' \in 0 .. Len(mem')
  BY <1>2, <1>3, <1>4, <1>6, LenProperties DEF IsBlock
<1>8. fault' = FALSE
  <2>1. ~ (n > Len(m))
    BY <1>2, <1>3, LenProperties DEF IsBlock
  <2>2. fault' = (fault \/ n > Len(m)) /\ fault = FALSE
    BY DEF insert, BufferInv, BufferType, NoFault
  <2>. QED
    BY <2>1, <2>2
<1>9. Data' = p \o Data
  <2>1. /\ Data \in Seq(Byte) /\ Len(Data) = len
        /\ \A i \in 1 .. len : Data[i] = mem[i]
    BY <1>0, Prefix DEF Data
  <2>2. \A i \in 1 .. Len(p) : mem'[i] = p[i]
    BY <1>1, <1>6
  <2>3. ASSUME NEW i \in 1 .. Len(Data)
        PROVE  mem'[Len(p) + i] = Data[i]
    <3>1. /\ Len(p) + i \in 0 + Len(p) + 1 .. Len(m)
          /\ Len(p) + i \in Len(p) + 1 .. Len(m)
          /\ (Len(p) + i) - Len(p) = i /\ i \in 1 .. len
      BY <1>0, <1>1, <1>3, <2>1, LenProperties DEF IsBlock
    <3>2. mem'[Len(p) + i] = u[Len(p) + i]
      BY <1>6, <3>1
    <3>3. u[Len(p) + i] = m[(Len(p) + i) - Len(p)]
      BY <1>5, <3>1
    <3>4. m[i] = Data[i]
      BY <1>3, <2>1, <3>1
    <3>. QED
      BY <3>1, <3>2, <3>3, <3>4
  <2>4. Len(p) + Len(Data) <= Len(mem') /\ Len(p) + Len(Data) = n
    BY <1>0, <1>1, <1>3, <1>6, <2>1
  <2>5. SubSeq(mem', 1, Len(p) + Len(Data)) = p \o Data
    BY <1>1, <1>6, <2>1, <2>2, <2>3, <2>4, PrefixConcat
  <2>. QED
    BY <1>4, <2>4, <2>5 DEF Data
<1>10. call'[1] = "insert" /\ moved' \in BOOLEAN
  BY DEF insert, Called
<1>11. EmptyingKeepsBlock'
  BY <1>10 DEF EmptyingKeepsBlock
<1>. QED
  BY <1>6, <1>7, <1>8, <1>9, <1>10, <1>11
  DEF BufferInv, BufferType, NoFault, IsBlock, Queue!Insert, insert, Called

\* clear empties.
LEMMA ClearStep ==
  ASSUME BufferInv, clear
  PROVE  BufferInv' /\ Queue!Clear
<1>0. IsBlock(mem) /\ 0 \in 0 .. Len(mem)
  BY LenProperties DEF BufferInv, BufferType, IsBlock
<1>1. Align \in Nat /\ 0 <= Align
  BY BufferAssumption
<1>2. IsBlock(mem') /\ len' = 0
  BY <1>0, <1>1, DeallocateData DEF clear
<1>3. 0 \in 0 .. Len(mem')
  BY <1>2, LenProperties DEF IsBlock
<1>4. Data' = <<>>
  BY <1>2, SubSeqEmpty DEF Data
<1>5. call'[1] = "clear" /\ moved' \in BOOLEAN /\ fault' = FALSE
  BY DEF clear, Called, MustTrim, BufferInv, BufferType, NoFault
<1>6. EmptyingKeepsBlock'
  BY <1>5 DEF EmptyingKeepsBlock
<1>. QED
  BY <1>2, <1>3, <1>4, <1>5, <1>6
  DEF BufferInv, BufferType, NoFault, IsBlock, Queue!Clear, clear, Called

\* copy makes the data equal to that of the source.
LEMMA CopyStep ==
  ASSUME BufferInv, NEW p \in Strings, NEW s \in Blocks(p), copy(p, s)
  PROVE  BufferInv' /\ Queue!Copy(p)
<1>. DEFINE c == deallocateBuffer(mem, 0, Align)
            m == reallocateBuffer(c, 0, s)
<1>0. IsBlock(mem) /\ 0 \in 0 .. Len(mem)
  BY LenProperties DEF BufferInv, BufferType, IsBlock
<1>1. p \in Seq(Bytes) /\ p \in Seq(Byte) /\ Len(p) \in Nat
  BY StringType
<1>2. s \in Nat /\ Len(p) <= s
  <2>1. PICK n \in Len(p) .. MaxLen : s = RoundUp(n)
    BY DEF Blocks
  <2>2. n \in Nat /\ Len(p) <= n
    BY <1>1, <2>1, BufferAssumption
  <2>. QED
    BY <1>1, <2>1, <2>2, RoundUpSize
<1>3. IsBlock(c)
  <2>1. Align \in Nat /\ 0 <= Align
    BY BufferAssumption
  <2>. QED
    BY <1>0, <2>1, DeallocateData
<1>4. IsBlock(m) /\ Len(m) >= s
  <2>1. 0 \in 0 .. Len(c) /\ 0 <= s
    BY <1>2, <1>3, LenProperties DEF IsBlock
  <2>. QED
    BY <1>2, <1>3, <2>1, ReallocateData
<1>5. 0 + Len(p) <= Len(m)
  BY <1>1, <1>2, <1>4, LenProperties DEF IsBlock
<1>6. mem' = Put(m, 0, p) /\ len' = Len(p)
  BY DEF copy
<1>7. /\ IsBlock(mem') /\ Len(mem') = Len(m)
      /\ \A i \in 1 .. Len(p) : mem'[0 + i] = p[i]
  <2>1. 0 \in Nat
    OBVIOUS
  <2>. QED
    BY <1>1, <1>4, <1>5, <1>6, <2>1, PutData
<1>8. len' \in 0 .. Len(mem')
  BY <1>1, <1>4, <1>5, <1>6, <1>7, LenProperties DEF IsBlock
<1>9. fault' = FALSE
  <2>1. ~ (Len(p) > Len(m))
    BY <1>1, <1>4, <1>5, LenProperties DEF IsBlock
  <2>2. fault' = (fault \/ Len(p) > Len(m)) /\ fault = FALSE
    BY DEF copy, BufferInv, BufferType, NoFault
  <2>. QED
    BY <2>1, <2>2
<1>10. Data' = p
  <2>1. Len(p) <= Len(mem') /\ \A i \in 1 .. Len(p) : mem'[i] = p[i]
    BY <1>1, <1>4, <1>5, <1>7, LenProperties DEF IsBlock
  <2>. QED
    BY <1>1, <1>6, <1>7, <2>1, PrefixIs DEF Data
<1>11. call'[1] = "copy" /\ moved' \in BOOLEAN
  BY DEF copy, Called
<1>12. EmptyingKeepsBlock'
  BY <1>11 DEF EmptyingKeepsBlock
<1>. QED
  BY <1>7, <1>8, <1>9, <1>10, <1>11, <1>12
  DEF BufferInv, BufferType, NoFault, IsBlock, Queue!Copy, copy, Called

\* The number of bytes that remove and read take is one that ByteQueue allows.
LEMMA ClipTakes ==
  ASSUME BufferInv, NEW n \in Sizes
  PROVE  Clip(n) \in 0 .. len /\ Clip(n) \in Queue!Take(n)
<1>1. IsBlock(mem) /\ Len(mem) \in Nat /\ len \in 0 .. Len(mem)
  BY LenProperties DEF BufferInv, BufferType, IsBlock
<1>2. Len(Data) = len
  BY <1>1, Prefix DEF Data
<1>3. n \in Nat
  BY BufferAssumption DEF Sizes
<1>. QED
  BY <1>1, <1>2, <1>3 DEF Clip, Queue!Take

\* remove and read take the first k bytes.
LEMMA ConsumeStep ==
  ASSUME BufferInv, NEW n \in Sizes, NEW k \in 0 .. len, Consume(n, k)
  PROVE  /\ IsBlock(mem') /\ len' \in 0 .. Len(mem')
         /\ moved' \in BOOLEAN /\ fault' = FALSE
         /\ len' = 0 => ~ moved'
         /\ Data' = SubSeq(Data, k + 1, Len(Data))
<1>. DEFINE m == ShiftDown(mem, k)
            l == len - k
            trim == n <= Len(mem) /\ MustTrim(m, l, l)
<1>0. IsBlock(mem) /\ Len(mem) \in Nat /\ len \in 0 .. Len(mem)
  BY LenProperties DEF BufferInv, BufferType, IsBlock
<1>1. l \in Nat /\ l <= Len(mem) /\ k \in 0 .. Len(mem)
  BY <1>0
<1>2. /\ IsBlock(m) /\ Len(m) = Len(mem)
      /\ \A i \in 1 .. Len(mem) - k : m[i] = mem[i + k]
  BY <1>0, <1>1, ShiftData
<1>3. /\ mem' = (IF trim THEN NewBlock(m, l, l) ELSE m)
      /\ len' = l
      /\ moved' = (trim /\ mem # <<>>)
      /\ fault' = (fault \/ k > Len(mem) \/ l > Len(mem'))
  BY DEF Consume
<1>4. /\ IsBlock(mem') /\ Len(mem') >= l
      /\ \A i \in 1 .. l : mem'[i] = m[i]
  <2>1. l \in 0 .. Len(m) /\ l <= l
    BY <1>0, <1>1, <1>2
  <2>2. RoundUp(l) \in Nat /\ RoundUp(l) >= l
    BY <1>1, RoundUpSize
  <2>3. CASE trim
    BY <1>1, <1>2, <1>3, <2>1, <2>2, <2>3, NewBlockData
  <2>4. CASE ~ trim
    BY <1>0, <1>1, <1>2, <1>3, <2>4
  <2>. QED
    BY <2>3, <2>4
<1>5. len' \in 0 .. Len(mem')
  BY <1>1, <1>3, <1>4, LenProperties DEF IsBlock
<1>6. fault' = FALSE
  <2>1. ~ (k > Len(mem)) /\ ~ (l > Len(mem'))
    BY <1>0, <1>1, <1>4, LenProperties DEF IsBlock
  <2>2. fault = FALSE
    BY DEF BufferInv, BufferType, NoFault
  <2>. QED
    BY <1>3, <2>1, <2>2
<1>7. len' = 0 => ~ moved'
  <2>. SUFFICES ASSUME l = 0, trim PROVE mem = <<>>
    BY <1>3
  <2>1. RoundUp(l) = 0
    BY <1>1, RoundUpSize
  <2>2. Len(mem) = 0
    BY <1>0, <1>2, <2>1 DEF MustTrim
  <2>. QED
    BY <1>0, <2>2, EmptySeq DEF IsBlock
<1>8. Data' = SubSeq(Data, k + 1, Len(Data))
  <2>1. /\ Data \in Seq(Byte) /\ Len(Data) = len
        /\ \A i \in 1 .. len : Data[i] = mem[i]
    BY <1>0, Prefix DEF Data
  <2>2. \A i \in k + 1 .. len : Data[i] \in Byte
    BY <1>0, <2>1, ElementOfSeq
  <2>3. /\ SubSeq(Data, k + 1, len) \in Seq(Byte)
        /\ Len(SubSeq(Data, k + 1, len)) = l
        /\ \A i \in 1 .. len - (k + 1) + 1 :
              SubSeq(Data, k + 1, len)[i] = Data[(k + 1) + i - 1]
    <3>1. k + 1 \in Int /\ len \in Int
      BY <1>0
    <3>2. (IF k + 1 <= len THEN len - (k + 1) + 1 ELSE 0) = l
      BY <1>0, <1>1
    <3>. QED
      BY <2>2, <3>1, <3>2, SubSeqProperties
  <2>4. ASSUME NEW i \in 1 .. l
        PROVE  mem'[i] = SubSeq(Data, k + 1, len)[i]
    <3>1. /\ i \in 1 .. Len(mem) - k /\ i \in 1 .. len - (k + 1) + 1
          /\ (k + 1) + i - 1 = i + k /\ i + k \in 1 .. len
      BY <1>0, <1>1
    <3>2. mem'[i] = mem[i + k]
      BY <1>2, <1>4, <3>1
    <3>3. SubSeq(Data, k + 1, len)[i] = Data[i + k]
      BY <2>3, <3>1
    <3>. QED
      BY <2>1, <3>1, <3>2, <3>3
  <2>5. SubSeq(mem', 1, l) = SubSeq(Data, k + 1, len)
    BY <1>4, <2>3, <2>4, PrefixIs
  <2>. QED
    BY <1>3, <2>1, <2>5 DEF Data
<1>. QED
  BY <1>3, <1>4, <1>5, <1>6, <1>7, <1>8

LEMMA RemoveStep ==
  ASSUME BufferInv, NEW n \in Sizes, remove(n)
  PROVE  BufferInv' /\ Queue!Remove(n)
<1>1. Clip(n) \in 0 .. len /\ Clip(n) \in Queue!Take(n)
  BY ClipTakes
<1>2. Consume(n, Clip(n)) /\ out' = <<>> /\ call' = <<"remove", n>>
  BY DEF remove, Called
<1>3. /\ IsBlock(mem') /\ len' \in 0 .. Len(mem')
      /\ moved' \in BOOLEAN /\ fault' = FALSE
      /\ len' = 0 => ~ moved'
      /\ Data' = SubSeq(Data, Clip(n) + 1, Len(Data))
  BY <1>1, <1>2, ConsumeStep
<1>4. BufferInv'
  BY <1>3 DEF BufferInv, BufferType, NoFault, EmptyingKeepsBlock, IsBlock
<1>5. Queue!Remove(n)
  BY <1>1, <1>2, <1>3 DEF Queue!Remove
<1>. QED
  BY <1>4, <1>5

LEMMA ReadStep ==
  ASSUME BufferInv, NEW n \in Sizes, read(n)
  PROVE  BufferInv' /\ Queue!Read(n)
<1>1. Clip(n) \in 0 .. len /\ Clip(n) \in Queue!Take(n)
  BY ClipTakes
<1>2. /\ Consume(n, Clip(n)) /\ call' = <<"read", n>>
      /\ out' = SubSeq(mem, 1, Clip(n))
  BY DEF read, Called
<1>3. /\ IsBlock(mem') /\ len' \in 0 .. Len(mem')
      /\ moved' \in BOOLEAN /\ fault' = FALSE
      /\ len' = 0 => ~ moved'
      /\ Data' = SubSeq(Data, Clip(n) + 1, Len(Data))
  BY <1>1, <1>2, ConsumeStep
<1>4. BufferInv'
  BY <1>3 DEF BufferInv, BufferType, NoFault, EmptyingKeepsBlock, IsBlock
<1>5. out' = SubSeq(Data, 1, Clip(n))
  <2>1. IsBlock(mem) /\ Len(mem) \in Nat /\ len \in 0 .. Len(mem)
    BY LenProperties DEF BufferInv, BufferType, IsBlock
  <2>2. /\ Data \in Seq(Byte) /\ Len(Data) = len
        /\ \A i \in 1 .. len : Data[i] = mem[i]
    BY <2>1, Prefix DEF Data
  <2>3. Clip(n) \in 0 .. Len(mem) /\ 1 \in Int /\ Clip(n) \in Int
    BY <1>1, <2>1
  <2>4. \A i \in 1 .. Clip(n) : Data[i] \in Byte /\ Data[i] = mem[i]
    BY <1>1, <2>1, <2>2, ElementOfSeq
  <2>5. /\ SubSeq(Data, 1, Clip(n)) \in Seq(Byte)
        /\ Len(SubSeq(Data, 1, Clip(n))) = Clip(n)
        /\ \A i \in 1 .. Clip(n) : SubSeq(Data, 1, Clip(n))[i] = mem[i]
    <3>1. /\ (IF 1 <= Clip(n) THEN Clip(n) - 1 + 1 ELSE 0) = Clip(n)
          /\ Clip(n) - 1 + 1 = Clip(n)
          /\ \A i \in 1 .. Clip(n) : 1 + i - 1 = i
      BY <1>1, <2>1
    <3>. QED
      BY <2>3, <2>4, <3>1, SubSeqProperties
  <2>. QED
    BY <1>2, <2>1, <2>3, <2>5, PrefixIs
<1>6. Queue!Read(n)
  BY <1>1, <1>2, <1>3, <1>5 DEF Queue!Read
<1>. QED
  BY <1>4, <1>6

-----------------------------------------------------------------------------
(* Theorems *)

\* Every step keeps the invariant and is a step of ByteQueue.
LEMMA BufferStep ==
  ASSUME BufferInv, [Next]_bufferVars
  PROVE  BufferInv' /\ [Queue!Next]_<<Data, call, out>>
<1>1. CASE \E p \in Strings : write(p)
  BY <1>1, WriteStep DEF Queue!Next
<1>2. CASE \E p \in Strings : insert(p)
  BY <1>2, InsertStep DEF Queue!Next
<1>3. CASE \E n \in Sizes : remove(n)
  BY <1>3, RemoveStep DEF Queue!Next
<1>4. CASE \E n \in Sizes : read(n)
  BY <1>4, ReadStep DEF Queue!Next
<1>5. CASE \E p \in Strings : \E s \in Blocks(p) : copy(p, s)
  BY <1>5, CopyStep DEF Queue!Next
<1>6. CASE clear
  BY <1>6, ClearStep DEF Queue!Next
<1>7. CASE UNCHANGED bufferVars
  BY <1>7 DEF bufferVars, BufferInv, BufferType, NoFault, EmptyingKeepsBlock,
              Data
<1>. QED
  BY <1>1, <1>2, <1>3, <1>4, <1>5, <1>6, <1>7 DEF Next

LEMMA BufferInit ==
  ASSUME Init
  PROVE  BufferInv /\ Queue!Init
<1>1. 0 % Align = 0
  BY BufferAssumption
<1>2. Data = <<>>
  BY SubSeqEmpty DEF Init, Data
<1>3. mem \in Seq(Byte) /\ Len(mem) = 0
  BY EmptySeq DEF Init
<1>4. BufferType
  <2>1. len = 0 /\ moved = FALSE /\ fault = FALSE
    BY DEF Init
  <2>2. len \in 0 .. Len(mem) /\ Len(mem) % Align = 0
    BY <1>1, <1>3, <2>1
  <2>. QED
    BY <1>3, <2>1, <2>2 DEF BufferType
<1>5. NoFault /\ EmptyingKeepsBlock
  BY DEF Init, NoFault, EmptyingKeepsBlock
<1>6. Queue!Init
  BY <1>2 DEF Init, Queue!Init
<1>. QED
  BY <1>4, <1>5, <1>6 DEF BufferInv

\* The invariant holds whatever is called in whatever order.
LEMMA BufferAlways == Spec => []BufferInv
<1>1. Init => BufferInv
  BY BufferInit
<1>2. BufferInv /\ [Next]_bufferVars => BufferInv'
  BY BufferStep
<1>. QED
  BY <1>1, <1>2, PTL DEF Spec

\* Buffer.cpp: whatever is called in whatever order, every CopyMemory and
\* MoveMemory stays inside the block, and the block holds the data.
THEOREM BufferCorrect == Spec => [](BufferType /\ NoFault)
<1>1. BufferInv => BufferType /\ NoFault
  BY DEF BufferInv
<1>. QED
  BY <1>1, BufferAlways, PTL

\* Taking all of the data does not replace the block under the Slice that the
\* HTTP codec keeps of it.
THEOREM EmptyingCorrect == Spec => []EmptyingKeepsBlock
<1>1. BufferInv => EmptyingKeepsBlock
  BY DEF BufferInv
<1>. QED
  BY <1>1, BufferAlways, PTL

\* Buffer.cpp implements a queue of bytes: no operation loses, repeats or
\* reorders data, or brings back what an earlier one left in the block.
THEOREM BufferImplementsQueue == Spec => QueueSpec
<1>1. Init => BufferInv /\ Queue!Init
  BY BufferInit
<1>2. BufferInv /\ [Next]_bufferVars =>
        BufferInv' /\ [Queue!Next]_<<Data, call, out>>
  BY BufferStep
<1>. QED
  BY <1>1, <1>2, PTL DEF Spec, QueueSpec, Queue!Spec
==============================================================================
