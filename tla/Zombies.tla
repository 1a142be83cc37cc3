------------------------------ MODULE Zombies -------------------------------
(***************************************************************************)
(* remove_zombie.c: the parent of two children that end, and the handler   *)
(* of SIGCHLD that removes one of them each time it runs.  Of a signal     *)
(* that is pending or blocked, further ones are merged into one.           *)
(***************************************************************************)
EXTENDS Naturals

VARIABLES
  parent,     \* "fork1", "fork2", "sleep" or "ended"
  sleeps,     \* sleep calls made
  child,      \* per child: "none", "runs", "zombie" or "reaped"
  sigchld,    \* SIGCHLD is pending
  handling,   \* read_childproc runs
  merged      \* a SIGCHLD was merged

zombieVars == <<parent, sleeps, child, sigchld, handling, merged>>

Children == {1, 2}
ZombieSet == {c \in Children : child[c] = "zombie"}

ZombiesInit ==
  /\ parent = "fork1" /\ sleeps = 0
  /\ child = [c \in Children |-> "none"]
  /\ sigchld = FALSE /\ handling = FALSE /\ merged = FALSE

\* fork, which may fail: main goes on as the parent.
Fork(c) ==
  /\ ~handling
  /\ \/ c = 1 /\ parent = "fork1" /\ parent' = "fork2" /\ UNCHANGED sleeps
     \/ c = 2 /\ parent = "fork2" /\ parent' = "sleep" /\ sleeps' = 1
  /\ \/ child' = [child EXCEPT ![c] = "runs"]
     \/ UNCHANGED child
  /\ UNCHANGED <<sigchld, handling, merged>>

ChildEnds(c) ==
  /\ child[c] = "runs" /\ parent # "ended"
  /\ child' = [child EXCEPT ![c] = "zombie"]
  /\ sigchld' = TRUE
  /\ merged' = (merged \/ sigchld)
  /\ UNCHANGED <<parent, sleeps, handling>>

Deliver ==
  /\ sigchld /\ ~handling /\ parent # "ended"
  /\ sigchld' = FALSE
  /\ handling' = TRUE
  /\ UNCHANGED <<parent, sleeps, child, merged>>

\* The second sleep has ended.
Slept ==
  \/ sleeps < 2 /\ sleeps' = sleeps + 1 /\ UNCHANGED parent
  \/ sleeps = 2 /\ parent' = "ended" /\ UNCHANGED sleeps

\* Mutant: waitpid is called for the first child only.
Reap_First ==
  /\ handling
  /\ child' = IF child[1] = "zombie" THEN [child EXCEPT ![1] = "reaped"] ELSE child
  /\ handling' = FALSE
  /\ UNCHANGED <<parent, sleeps, sigchld, merged>>

\* read_childproc: waitpid removes one zombie if there is one.  A sleep that was
\* interrupted has ended.
Reap ==
  /\ handling
  /\ child' \in IF ZombieSet = {} THEN {child}
                ELSE {[child EXCEPT ![c] = "reaped"] : c \in ZombieSet}
  /\ handling' = FALSE
  /\ \/ parent = "sleep" /\ Slept
     \/ UNCHANGED <<parent, sleeps>>
  /\ UNCHANGED <<sigchld, merged>>

\* The 100 seconds of a sleep pass.
SleepPasses ==
  /\ parent = "sleep" /\ ~handling /\ ~sigchld
  /\ Slept
  /\ UNCHANGED <<child, sigchld, handling, merged>>

ZombiesOver == parent = "ended" /\ UNCHANGED zombieVars

ZombiesNext ==
  \/ \E c \in Children : Fork(c) \/ ChildEnds(c)
  \/ Deliver \/ Reap \/ SleepPasses \/ ZombiesOver

-----------------------------------------------------------------------------
(* Properties *)

\* The handler calls waitpid once.  A zombie is left behind only when two
\* SIGCHLD were merged into one; and the handler, which looks at status without
\* looking at what waitpid returned, always finds a zombie.
ZombieOnlyMerged ==
  /\ ~sigchld /\ ~handling /\ ~merged => ZombieSet = {}
  /\ handling => ZombieSet # {}
=============================================================================
