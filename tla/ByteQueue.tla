------------------------------ MODULE ByteQueue -----------------------------
(***************************************************************************)
(* What a Buffer promises to its users: a queue of bytes.  call is the     *)
(* last operation and out the bytes it returned.  remove and read may      *)
(* refuse to take more bytes than the queue holds, or take all of them;    *)
(* which of the two depends on the memory of the Buffer.                   *)
(***************************************************************************)
EXTENDS Naturals, Sequences

CONSTANTS
  Strings,   \* the byte sequences that callers pass
  Sizes      \* the numbers of bytes they ask for

VARIABLES queue, call, out

Init == queue = <<>> /\ call = <<"new", 0>> /\ out = <<>>

\* What is taken from the queue when n bytes are asked for.
Take(n) == IF n <= Len(queue) THEN {n} ELSE {0, Len(queue)}

Write(p)  == queue' = queue \o p /\ call' = <<"write", p>> /\ out' = <<>>

Insert(p) == queue' = p \o queue /\ call' = <<"insert", p>> /\ out' = <<>>

Remove(n) ==
  /\ \E k \in Take(n) : queue' = SubSeq(queue, k + 1, Len(queue))
  /\ call' = <<"remove", n>>
  /\ out' = <<>>

Read(n) ==
  /\ \E k \in Take(n) : /\ queue' = SubSeq(queue, k + 1, Len(queue))
                        /\ out' = SubSeq(queue, 1, k)
  /\ call' = <<"read", n>>

Clear   == queue' = <<>> /\ call' = <<"clear", 0>> /\ out' = <<>>

Copy(p) == queue' = p /\ call' = <<"copy", p>> /\ out' = <<>>

Next ==
  \/ \E p \in Strings : Write(p) \/ Insert(p) \/ Copy(p)
  \/ \E n \in Sizes : Remove(n) \/ Read(n)
  \/ Clear

Spec == Init /\ [][Next]_<<queue, call, out>>
=============================================================================
