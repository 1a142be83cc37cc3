----------------------------- MODULE MCPrograms -----------------------------
(***************************************************************************)
(* The demonstration programs, checked together.  They share nothing: prog *)
(* says which one was started, and the others stay where they begin.       *)
(***************************************************************************)
EXTENDS Connect, Nbc, EchoPort, ApcEcho, EventEcho, HttpThreads, Handoff, Zombies

VARIABLE prog

connOnly == <<nbcVars, portVars, apcVars, eventVars, threadVars, handVars, zombieVars>>
nbcOnly == <<connVars, portVars, apcVars, eventVars, threadVars, handVars, zombieVars>>
portOnly == <<connVars, nbcVars, apcVars, eventVars, threadVars, handVars, zombieVars>>
apcOnly == <<connVars, nbcVars, portVars, eventVars, threadVars, handVars, zombieVars>>
eventOnly == <<connVars, nbcVars, portVars, apcVars, threadVars, handVars, zombieVars>>
threadOnly == <<connVars, nbcVars, portVars, apcVars, eventVars, handVars, zombieVars>>
handOnly == <<connVars, nbcVars, portVars, apcVars, eventVars, threadVars, zombieVars>>
zombieOnly == <<connVars, nbcVars, portVars, apcVars, eventVars, threadVars, handVars>>

allVars == <<prog, connVars, nbcVars, portVars, apcVars, eventVars,
             threadVars, handVars, zombieVars>>

Programs == {"connect", "nbc", "port", "apc", "event", "threads", "hand", "zombies"}

ProgramsInit ==
  /\ prog \in Programs
  /\ ConnInit /\ NbcInit /\ PortInit /\ ApcInit /\ EventInit /\ ThreadsInit
  /\ HandInit /\ ZombiesInit
  /\ prog = "connect" \/ version = "v1"
  /\ prog = "nbc" \/ \A h \in Hosts : addrs[h] = 1
  /\ prog = "port" \/ portProg = "Demo"

ProgramsNext ==
  /\ UNCHANGED prog
  /\ \/ prog = "connect" /\ ConnNext /\ UNCHANGED connOnly
     \/ prog = "nbc" /\ NbcNext /\ UNCHANGED nbcOnly
     \/ prog = "port" /\ PortNext /\ UNCHANGED portOnly
     \/ prog = "apc" /\ ApcNext /\ UNCHANGED apcOnly
     \/ prog = "event" /\ EventNext /\ UNCHANGED eventOnly
     \/ prog = "threads" /\ ThreadsNext /\ UNCHANGED threadOnly
     \/ prog = "hand" /\ HandNext /\ UNCHANGED handOnly
     \/ prog = "zombies" /\ ZombiesNext /\ UNCHANGED zombieOnly

-----------------------------------------------------------------------------
(* Fairness.  A step of the program that was started is taken in the end: its   *)
(* threads run and its selects come back; what peers and users do is never      *)
(* asked for, but that a number is entered and that a request line comes or the *)
(* client closes.  Only one program runs, so one condition serves them all;     *)
(* the tasks of one program that run side by side have one each.                *)

Task(k) ==
  /\ UNCHANGED prog
  /\ \/ k = 1 /\ prog = "connect" /\ ConnStep /\ UNCHANGED connOnly
     \/ k = 1 /\ prog = "nbc" /\ NbcStep /\ UNCHANGED nbcOnly
     \/ k = 1 /\ prog = "event" /\ EventServer /\ UNCHANGED eventOnly
     \/ k = 1 /\ prog = "hand" /\ HandStep /\ UNCHANGED handOnly
     \/ k \in Threads /\ prog = "threads" /\ RequestHandler(k) /\ UNCHANGED threadOnly
     \/ k = 1 /\ prog = "apc" /\ ApcKernel /\ UNCHANGED apcOnly
     \/ k = 2 /\ prog = "apc" /\ ApcRoutines /\ UNCHANGED apcOnly
     \/ k = 3 /\ prog = "apc" /\ (ApcAccept \/ Wake) /\ UNCHANGED apcOnly

ProgramsSpec ==
  /\ ProgramsInit /\ [][ProgramsNext]_allVars
  /\ \A k \in 1 .. 3 : WF_allVars(Task(k))
=============================================================================
