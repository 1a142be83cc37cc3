------------------------------ MODULE Handoff -------------------------------
(***************************************************************************)
(* semaphore.c: one thread reads numbers into num, the other adds them up, *)
(* and two semaphores hand num over.                                       *)
(***************************************************************************)
EXTENDS Integers

CONSTANTS
  Times,        \* 5 rounds
  Numbers       \* the numbers that may be entered

ASSUME HandoffAssumption == Times \in Nat \ {0} /\ Numbers \subseteq Int

VARIABLES
  sem_one, sem_two, num,
  reader, adder,      \* per thread: where it is, and its i
  sum,
  entered             \* what num held after each scanf, added up

handVars == <<sem_one, sem_two, num, reader, adder, sum, entered>>

\* Mutant: both threads may go first.
HandInit_TwoTokens ==
  /\ sem_one = 0 /\ sem_two = 2 /\ num = 0
  /\ reader = [pc |-> "wait", i |-> 0] /\ adder = [pc |-> "wait", i |-> 0]
  /\ sum = 0 /\ entered = 0

HandInit ==
  /\ sem_one = 0 /\ sem_two = 1 /\ num = 0
  /\ reader = [pc |-> "wait", i |-> 0] /\ adder = [pc |-> "wait", i |-> 0]
  /\ sum = 0 /\ entered = 0

\* The next round, or the end of the loop.
Again(r) == IF r.i + 1 < Times THEN [pc |-> "wait", i |-> r.i + 1]
            ELSE [pc |-> "ended", i |-> Times]

\* read: sem_wait, then scanf, which leaves num alone when it fails, and sem_post.
ReaderWaits ==
  /\ reader.pc = "wait" /\ sem_two > 0
  /\ sem_two' = sem_two - 1
  /\ reader' = [reader EXCEPT !.pc = "scanf"]
  /\ UNCHANGED <<sem_one, num, adder, sum, entered>>

Scanf ==
  /\ reader.pc = "scanf"
  /\ num' \in Numbers \cup {num}
  /\ entered' = entered + num'
  /\ reader' = [reader EXCEPT !.pc = "post"]
  /\ UNCHANGED <<sem_one, sem_two, adder, sum>>

ReaderPosts ==
  /\ reader.pc = "post"
  /\ sem_one' = sem_one + 1
  /\ reader' = Again(reader)
  /\ UNCHANGED <<sem_two, num, adder, sum, entered>>

\* accu: sem_wait, the addition, and sem_post.
AdderWaits ==
  /\ adder.pc = "wait" /\ sem_one > 0
  /\ sem_one' = sem_one - 1
  /\ adder' = [adder EXCEPT !.pc = "add"]
  /\ UNCHANGED <<sem_two, num, reader, sum, entered>>

Add ==
  /\ adder.pc = "add"
  /\ sum' = sum + num
  /\ adder' = [adder EXCEPT !.pc = "post"]
  /\ UNCHANGED <<sem_one, sem_two, num, reader, entered>>

AdderPosts ==
  /\ adder.pc = "post"
  /\ sem_two' = sem_two + 1
  /\ adder' = Again(adder)
  /\ UNCHANGED <<sem_one, num, reader, sum, entered>>

HandStep ==
  ReaderWaits \/ Scanf \/ ReaderPosts \/ AdderWaits \/ Add \/ AdderPosts

\* main has joined both.
HandOver ==
  reader.pc = "ended" /\ adder.pc = "ended" /\ UNCHANGED handVars

HandNext == HandStep \/ HandOver

-----------------------------------------------------------------------------
(* Properties *)

\* No number is overwritten before it was added or added twice: the sum printed
\* is that of what scanf left in num, round by round.
SumExact ==
  /\ adder.pc = "ended" => sum = entered /\ reader.pc = "ended"
  /\ adder.pc = "add" => reader.pc \notin {"scanf", "post"}
=============================================================================
