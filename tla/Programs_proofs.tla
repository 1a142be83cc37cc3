--------------------------- MODULE Programs_proofs --------------------------
(***************************************************************************)
(* Proofs about the demonstration programs, each of which is one part of   *)
(* the specification of MCPrograms.                                        *)
(***************************************************************************)
EXTENDS MCPrograms, FiniteSetTheorems, SequenceTheorems, WellFoundedInduction, TLAPS

\* A step of the specification is a step of one program, and the others stay
\* where they are.
LEMMA OneProgram ==
  ASSUME [ProgramsNext]_allVars
  PROVE  /\ [ConnNext]_connVars /\ [NbcNext]_nbcVars /\ [PortNext]_portVars
         /\ [ApcNext]_apcVars /\ [EventNext]_eventVars
         /\ [ThreadsNext]_threadVars /\ [HandNext]_handVars
         /\ [ZombiesNext]_zombieVars
<1>1. CASE ProgramsNext
  BY <1>1 DEF ProgramsNext, connOnly, nbcOnly, portOnly, apcOnly, eventOnly,
              threadOnly, handOnly, zombieOnly
<1>2. CASE UNCHANGED allVars
  BY <1>2 DEF allVars
<1> QED BY <1>1, <1>2

\* The safety part of the specification.
LEMMA ProgramsSafe == ProgramsSpec => ProgramsInit /\ [][ProgramsNext]_allVars
  BY PTL DEF ProgramsSpec

-----------------------------------------------------------------------------
(* semaphore.c *)

HandPc == {"wait", "scanf", "add", "post", "ended"}

\* One token is passed round.  It is in a semaphore or with the thread between
\* its sem_wait and its sem_post, and while it is on its way to the adder num
\* holds the number that is not added yet.
HandInv ==
  /\ reader \in [pc : {"wait", "scanf", "post", "ended"}, i : 0 .. Times]
  /\ adder \in [pc : {"wait", "add", "post", "ended"}, i : 0 .. Times]
  /\ num \in Int /\ sum \in Int /\ entered \in Int
  /\ reader.pc = "ended" <=> reader.i = Times
  /\ adder.pc = "ended" <=> adder.i = Times
  /\ \/ /\ sem_two = 1 /\ sem_one = 0
        /\ reader.pc \in {"wait", "ended"} /\ adder.pc \in {"wait", "ended"}
        /\ reader.i = adder.i /\ entered = sum
     \/ /\ sem_two = 0 /\ sem_one = 0
        /\ reader.pc = "scanf" /\ adder.pc = "wait"
        /\ reader.i = adder.i /\ entered = sum
     \/ /\ sem_two = 0 /\ sem_one = 0
        /\ reader.pc = "post" /\ adder.pc = "wait"
        /\ reader.i = adder.i /\ entered = sum + num
     \/ /\ sem_two = 0 /\ sem_one = 1
        /\ reader.pc \in {"wait", "ended"} /\ adder.pc = "wait"
        /\ reader.i = adder.i + 1 /\ entered = sum + num
     \/ /\ sem_two = 0 /\ sem_one = 0
        /\ reader.pc \in {"wait", "ended"} /\ adder.pc = "add"
        /\ reader.i = adder.i + 1 /\ entered = sum + num
     \/ /\ sem_two = 0 /\ sem_one = 0
        /\ reader.pc \in {"wait", "ended"} /\ adder.pc = "post"
        /\ reader.i = adder.i + 1 /\ entered = sum

\* Every step of the two threads passes the token on.
LEMMA HandStepInv == HandInv /\ [HandNext]_handVars => HandInv'
<1> SUFFICES ASSUME HandInv, [HandNext]_handVars PROVE HandInv'
  OBVIOUS
<1> USE HandoffAssumption DEF HandInv
<1>1. CASE ReaderWaits
  BY <1>1 DEF ReaderWaits
<1>2. CASE Scanf
  BY <1>2 DEF Scanf
<1>3. CASE ReaderPosts
  BY <1>3 DEF ReaderPosts, Again
<1>4. CASE AdderWaits
  BY <1>4 DEF AdderWaits
<1>5. CASE Add
  BY <1>5 DEF Add
<1>6. CASE AdderPosts
  BY <1>6 DEF AdderPosts, Again
<1>7. CASE UNCHANGED handVars
  BY <1>7 DEF handVars
<1> QED BY <1>1, <1>2, <1>3, <1>4, <1>5, <1>6, <1>7 DEF HandNext, HandStep, HandOver

\* The two semaphores of semaphore.c hand num over and back: no number is
\* overwritten before it was added, none is added twice.
THEOREM HandoffCorrect == ProgramsSpec => []SumExact
<1>1. ProgramsInit => HandInv
  BY HandoffAssumption DEF ProgramsInit, HandInit, HandInv
<1>2. HandInv /\ [ProgramsNext]_allVars => HandInv'
  BY OneProgram, HandStepInv
<1>3. HandInv => SumExact
  BY DEF HandInv, SumExact
<1> QED BY <1>1, <1>2, <1>3, ProgramsSafe, PTL

-----------------------------------------------------------------------------
(* remove_zombie.c *)

\* A signal that is pending or being handled stands for a zombie of its own,
\* unless two were merged.
ZombieInv ==
  /\ child \in [Children -> {"none", "runs", "zombie", "reaped"}]
  /\ sigchld \in BOOLEAN /\ handling \in BOOLEAN /\ merged \in BOOLEAN
  /\ parent = "fork1" => child[1] = "none"
  /\ parent \in {"fork1", "fork2"} => child[2] = "none"
  /\ sigchld /\ handling => child[1] = "zombie" /\ child[2] = "zombie"
  /\ sigchld \/ handling => child[1] = "zombie" \/ child[2] = "zombie"
  /\ ~merged /\ ~(sigchld /\ handling) => child[1] # "zombie" \/ child[2] # "zombie"
  /\ ~merged /\ ~sigchld /\ ~handling => child[1] # "zombie" /\ child[2] # "zombie"

\* Every step keeps the signals and the zombies together.
LEMMA ZombieStepInv == ZombieInv /\ [ZombiesNext]_zombieVars => ZombieInv'
<1> SUFFICES ASSUME ZombieInv, [ZombiesNext]_zombieVars PROVE ZombieInv'
  OBVIOUS
<1> USE DEF ZombieInv, Children
<1>1. ASSUME NEW c \in Children, Fork(c) PROVE ZombieInv'
  BY <1>1 DEF Fork
<1>2. ASSUME NEW c \in Children, ChildEnds(c) PROVE ZombieInv'
  BY <1>2 DEF ChildEnds
<1>3. CASE Deliver
  BY <1>3 DEF Deliver
<1>4. CASE Reap
  <2>1. handling /\ handling' = FALSE /\ UNCHANGED <<sigchld, merged>>
    BY <1>4 DEF Reap
  <2>2. \E c \in Children :
          child[c] = "zombie" /\ child' = [child EXCEPT ![c] = "reaped"]
    BY <1>4, <2>1 DEF Reap, ZombieSet
  <2>3. parent' = parent \/ parent' \notin {"fork1", "fork2"}
    BY <1>4 DEF Reap, Slept
  <2>4. PICK c \in Children :
          child[c] = "zombie" /\ child' = [child EXCEPT ![c] = "reaped"]
    BY <2>2
  <2>5. CASE c = 1
    <3>1. child'[1] = "reaped" /\ child'[2] = child[2]
      BY <2>4, <2>5
    <3> QED BY <2>1, <2>3, <2>4, <2>5, <3>1
  <2>6. CASE c = 2
    <3>1. child'[2] = "reaped" /\ child'[1] = child[1]
      BY <2>4, <2>6
    <3> QED BY <2>1, <2>3, <2>4, <2>6, <3>1
  <2> QED BY <2>5, <2>6
<1>5. CASE SleepPasses \/ UNCHANGED zombieVars
  BY <1>5 DEF SleepPasses, Slept, zombieVars
<1> QED BY <1>1, <1>2, <1>3, <1>4, <1>5 DEF ZombiesNext, ZombiesOver

\* A zombie is left behind only when two SIGCHLD were merged, and waitpid in
\* read_childproc always finds one.
THEOREM ZombiesCorrect == ProgramsSpec => []ZombieOnlyMerged
<1>1. ProgramsInit => ZombieInv
  BY DEF ProgramsInit, ZombiesInit, ZombieInv, Children
<1>2. ZombieInv /\ [ProgramsNext]_allVars => ZombieInv'
  BY OneProgram, ZombieStepInv
<1>3. ZombieInv => ZombieOnlyMerged
  BY DEF ZombieInv, ZombieOnlyMerged, ZombieSet, Children
<1> QED BY <1>1, <1>2, <1>3, ProgramsSafe, PTL

-----------------------------------------------------------------------------
(* The connect demonstrations *)

ConnSocks == {"fresh", "connecting", "established", "connected", "refused"}

\* A socket that is connected was established at an earlier select or before the
\* first, and errno is EISCONN only after that.  Only the versions that call
\* connect again can wait on a socket that is fresh again.
ConnSoundInv ==
  /\ sock \in ConnSocks
  /\ at \in {"socket", "connect", "select", "sending", "done"}
  /\ round \in 0 .. Rounds /\ estd \in 0 .. Rounds + 1
  /\ at \in {"socket", "connect"} => round = 0
  /\ sock \in Established => estd <= round
  /\ errno = "EISCONN" => estd <= Rounds
  /\ at = "select" /\ version \notin {"v2", "rounds"} => sock # "fresh"
  /\ said = "success" => estd <= Rounds

\* What a connect leaves behind.
LEMMA ConnectResult ==
  ASSUME ConnSoundInv, NEW r \in ConnectResults, SetErrno(r), SetSock(r[2])
  PROVE  /\ sock' \in ConnSocks /\ estd' \in 0 .. Rounds + 1 /\ estd' <= estd
         /\ sock' \in Established => estd' <= round
         /\ errno' = "EISCONN" => estd' <= Rounds
         /\ r[1] = "none" => sock' = "connected"
         /\ r[1] = "EINPROGRESS" => sock' = "connecting"
<1>1. /\ r[2] \in ConnSocks /\ sock' = r[2]
      /\ r[1] = "none" => r[2] = "connected"
      /\ r[1] = "EINPROGRESS" => r[2] = "connecting"
      /\ r[1] = "EISCONN" => sock = "connected"
  BY DEF ConnSoundInv, ConnSocks, ConnectResults, SetSock
<1>2. estd' = (IF r[2] \in Established /\ estd > round THEN round ELSE estd)
  BY DEF SetSock
<1>3. estd' \in 0 .. Rounds + 1 /\ estd' <= estd
  BY <1>2, RoundsAssumption DEF ConnSoundInv
<1>4. r[2] \in Established => estd' <= round
  BY <1>2, RoundsAssumption DEF ConnSoundInv
<1>5. errno' = "EISCONN" => estd <= Rounds
  BY <1>1, RoundsAssumption DEF SetErrno, ConnSoundInv, Established
<1>6. errno' = "EISCONN" => estd' <= Rounds
  BY <1>3, <1>5, RoundsAssumption DEF ConnSoundInv
<1> QED BY <1>1, <1>3, <1>4, <1>6

\* NextRound begins another select or gives up.
LEMMA RoundNext ==
  ASSUME round \in 0 .. Rounds, NEW b, NextRound(b)
  PROVE  /\ round' \in 0 .. Rounds /\ round <= round'
         /\ (round' = round + 1 /\ at' = at /\ said' = said)
              \/ (round = Rounds /\ at' = "done" /\ said' = "failure" /\ round' = round)
  BY RoundsAssumption DEF NextRound, Report

\* Every step keeps a report of success true.
LEMMA ConnSoundStep == ConnSoundInv /\ [ConnNext]_connVars => ConnSoundInv'
<1> SUFFICES ASSUME ConnSoundInv, [ConnNext]_connVars PROVE ConnSoundInv'
  OBVIOUS
<1>1. CASE OpenSocket
  BY <1>1 DEF OpenSocket, Report, ConnSoundInv
<1>2. CASE FirstConnect
  <2>1. PICK r \in ConnectResults :
          /\ SetErrno(r) /\ SetSock(r[2])
          /\ \/ r[1] = "none" /\ Report("success", "done") /\ UNCHANGED round
             \/ /\ r[1] = "EINPROGRESS"
                /\ at' = "select" /\ round' = 1 /\ UNCHANGED said
             \/ UNCHANGED <<at, said, round>>
             \/ Report("failure", "done") /\ UNCHANGED round
    BY <1>2 DEF FirstConnect
  <2>2. at = "connect" /\ round = 0 /\ version' = version
    BY <1>2 DEF FirstConnect, ConnSoundInv
  <2>3. round' \in 0 .. Rounds /\ round <= round'
    BY <2>1, <2>2, RoundsAssumption
  <2>4. sock' \in Established => estd' <= round'
    BY <2>1, <2>3, ConnectResult, RoundsAssumption DEF ConnSoundInv
  <2>5. said' = "success" => estd' <= Rounds
    BY <2>1, <2>2, ConnectResult, RoundsAssumption
    DEF ConnSoundInv, Report, Established
  <2>6. at' = "select" => sock' # "fresh"
    BY <2>1, <2>2, ConnectResult DEF Report
  <2>7. /\ at' \in {"socket", "connect"} => round' = 0
        /\ at' \in {"connect", "select", "done"}
    BY <2>1, <2>2 DEF Report
  <2> QED BY <2>1, <2>3, <2>4, <2>5, <2>6, <2>7, ConnectResult DEF ConnSoundInv
<1>3. CASE SelectTimesOut
  <2>1. at = "select" /\ UNCHANGED <<version, sock, errno, estd>>
    BY <1>3 DEF SelectTimesOut
  <2>2. /\ round' \in 0 .. Rounds /\ round <= round'
        /\ at' \in {"select", "done"} /\ said' \in {said, "failure"}
    <3>1. round \in 0 .. Rounds
      BY DEF ConnSoundInv
    <3>2. CASE NextRound(TRUE)
      BY <2>1, <3>1, <3>2, RoundNext
    <3>3. CASE Report("failure", "done") /\ round' = round
      BY <3>1, <3>3, RoundsAssumption DEF Report
    <3> QED BY <1>3, <3>2, <3>3 DEF SelectTimesOut
  <2> QED BY <2>1, <2>2, RoundsAssumption DEF ConnSoundInv
<1>4. CASE SelectAsks
  BY <1>4, RoundsAssumption
  DEF SelectAsks, Report, Writable, OnlyPollOut, ConnSoundInv, ConnSocks, Established
<1>5. CASE SelectConnects
  <2>1. PICK r \in ConnectResults : SetErrno(r) /\ SetSock(r[2])
    BY <1>5 DEF SelectConnects
  <2>2. /\ at = "select" /\ version' = version /\ version \in {"v2", "rounds"}
    BY <1>5 DEF SelectConnects
  <2>3. /\ round' \in 0 .. Rounds /\ round <= round'
        /\ at' \in {"select", "sending", "done"}
        /\ said' = "success" => said = "success" \/ errno' = "EISCONN"
    <3>1. round \in 0 .. Rounds
      BY DEF ConnSoundInv
    <3>2. CASE NextRound(FALSE)
      BY <2>2, <3>1, <3>2, RoundNext
    <3>3. CASE /\ errno' = "EISCONN" /\ round' = round
               /\ Report("success", IF version = "v2" THEN "sending" ELSE "done")
      BY <3>1, <3>3, RoundsAssumption DEF Report
    <3>4. CASE UNCHANGED <<at, said, round>>
      BY <2>2, <3>1, <3>4, RoundsAssumption
    <3> QED BY <1>5, <3>2, <3>3, <3>4 DEF SelectConnects, ConnectedNow
  <2>4. sock' \in Established => estd' <= round'
    BY <2>1, <2>3, ConnectResult, RoundsAssumption DEF ConnSoundInv
  <2>5. said' = "success" => estd' <= Rounds
    BY <2>1, <2>3, ConnectResult, RoundsAssumption DEF ConnSoundInv
  <2> QED BY <2>1, <2>2, <2>3, <2>4, <2>5, ConnectResult DEF ConnSoundInv
<1>6. CASE SendFails \/ SelectFails
  BY <1>6 DEF SendFails, SelectFails, Report, ConnSoundInv
<1>7. CASE Network
  BY <1>7, RoundsAssumption
  DEF Network, SetSock, ConnSoundInv, ConnSocks, Established
<1>8. CASE UNCHANGED connVars
  BY <1>8 DEF connVars, ConnSoundInv
<1> QED BY <1>1, <1>2, <1>3, <1>4, <1>5, <1>6, <1>7, <1>8
        DEF ConnNext, ConnStep, ConnOver

\* Whichever way a version finds out, it reports success only when the connection
\* was established before.
THEOREM ConnectCorrect == ProgramsSpec => []ConnectSound
<1>1. ProgramsInit => ConnSoundInv
  BY RoundsAssumption
  DEF ProgramsInit, ConnInit, ConnSoundInv, ConnSocks, Established
<1>2. ConnSoundInv /\ [ProgramsNext]_allVars => ConnSoundInv'
  BY OneProgram, ConnSoundStep
<1>3. ConnSoundInv => ConnectSound
  BY DEF ConnSoundInv, ConnectSound
<1> QED BY <1>1, <1>2, <1>3, ProgramsSafe, PTL

\* 2_NonblockConnect.cpp, when nothing goes wrong after the connection is
\* established: that is at the select of this round, or the second connect
\* returned 0 in the round before.
RoundsInv ==
  version = "rounds" /\ ~trouble =>
    /\ at # "sending"
    /\ at \in {"socket", "connect"} => sock = "fresh" /\ estd = Rounds + 1
    /\ at \in {"socket", "connect", "select"} => errno # "EISCONN"
    /\ at = "select" =>
         /\ round >= 1
         /\ sock = "established" => estd = round
         /\ sock = "connected" => estd + 1 = round
         /\ sock \notin Established => estd = Rounds + 1
    /\ at = "done" /\ said # "success" => estd \notin 1 .. Rounds - 1

\* Every step keeps it.
LEMMA RoundsStep ==
  ConnSoundInv /\ RoundsInv /\ [ConnNext]_connVars => RoundsInv'
<1> SUFFICES ASSUME ConnSoundInv, RoundsInv, [ConnNext]_connVars,
                    version' = "rounds", ~trouble'
             PROVE  RoundsInv'
  BY DEF RoundsInv
<1>0. round \in 0 .. Rounds /\ Rounds \in Nat \ {0} /\ estd \in 0 .. Rounds + 1
  BY RoundsAssumption DEF ConnSoundInv
<1>1. CASE OpenSocket
  BY <1>0, <1>1 DEF OpenSocket, Report, RoundsInv
<1>2. CASE FirstConnect
  <2>1. /\ version = "rounds" /\ ~trouble /\ at = "connect" /\ sock = "fresh"
        /\ estd = Rounds + 1 /\ errno # "EISCONN" /\ round = 0
    BY <1>2 DEF FirstConnect, RoundsInv, ConnSoundInv
  <2>2. PICK r \in ConnectResults :
          /\ SetErrno(r) /\ SetSock(r[2])
          /\ \/ r[1] = "none" /\ Report("success", "done") /\ UNCHANGED round
             \/ /\ r[1] = "EINPROGRESS"
                /\ at' = "select" /\ round' = 1 /\ UNCHANGED said
             \/ /\ r[1] # "none" /\ Report("failure", "done") /\ UNCHANGED round
    BY <1>2, <2>1 DEF FirstConnect
  <2>3. /\ r[1] # "none" => r[2] \notin Established
        /\ r[1] # "EISCONN"
    BY <2>1, <2>2 DEF ConnectResults, Established
  <2>4. /\ r[1] # "none" => estd' = Rounds + 1 /\ sock' \notin Established
        /\ errno' # "EISCONN"
    BY <2>1, <2>2, <2>3 DEF SetSock, SetErrno
  <2>5. CASE r[1] = "none" /\ Report("success", "done") /\ UNCHANGED round
    BY <2>5 DEF Report, RoundsInv
  <2>6. CASE r[1] = "EINPROGRESS" /\ at' = "select" /\ round' = 1 /\ UNCHANGED said
    BY <2>4, <2>6 DEF RoundsInv, Established
  <2>7. CASE r[1] # "none" /\ Report("failure", "done") /\ UNCHANGED round
    BY <1>0, <2>4, <2>7 DEF Report, RoundsInv
  <2> QED BY <2>2, <2>5, <2>6, <2>7
<1>3. CASE SelectTimesOut
  <2>1. /\ version = "rounds" /\ ~trouble /\ at = "select"
        /\ sock \notin Established /\ NextRound(TRUE)
        /\ UNCHANGED <<sock, errno, estd>>
    BY <1>3 DEF SelectTimesOut, Writable
  <2>2. estd = Rounds + 1 /\ errno # "EISCONN" /\ round >= 1
    BY <2>1 DEF RoundsInv
  <2>3. \/ at' = "done"
        \/ at' = "select" /\ round' = round + 1
    BY <1>0, <2>1, RoundNext
  <2> QED BY <1>0, <2>1, <2>2, <2>3 DEF RoundsInv, Established
<1>4. CASE SelectAsks \/ SelectFails \/ SendFails
  BY <1>4 DEF SelectAsks, SelectFails, SendFails, RoundsInv
<1>5. CASE SelectConnects
  <2>1. /\ version = "rounds" /\ ~trouble /\ at = "select"
    BY <1>5 DEF SelectConnects
  <2>2. PICK r \in ConnectResults : SetErrno(r) /\ SetSock(r[2])
    BY <1>5 DEF SelectConnects
  <2>3. CASE errno' = "EISCONN"
    <3>1. Report("success", "done")
      BY <1>5, <2>1, <2>3 DEF SelectConnects, ConnectedNow
    <3> QED BY <3>1 DEF Report, RoundsInv
  <2>4. CASE errno' # "EISCONN"
    <3>1. NextRound(FALSE)
      BY <1>5, <2>1, <2>4 DEF SelectConnects, ConnectedNow
    <3>2. /\ (round' = round + 1 /\ at' = "select")
               \/ (round = Rounds /\ at' = "done" /\ round' = round)
      BY <1>0, <2>1, <3>1, RoundNext
    <3>3. sock # "connected"
      BY <2>2, <2>4 DEF ConnectResults, SetErrno
    <3>4. sock' \in Established => sock' = "connected" /\ estd' = round
      <4>1. CASE sock = "established"
        <5>1. r[2] = "connected" /\ estd = round
          BY <2>1, <2>2, <4>1 DEF ConnectResults, RoundsInv
        <5> QED BY <1>0, <2>2, <5>1 DEF SetSock
      <4>2. CASE sock \notin Established
        <5>1. estd = Rounds + 1
          BY <2>1, <4>2 DEF RoundsInv
        <5>2. r[2] # "established"
          BY <2>2, <4>2 DEF ConnectResults, Established, ConnSoundInv, ConnSocks
        <5> QED BY <1>0, <2>2, <5>1, <5>2 DEF SetSock, Established
      <4> QED BY <3>3, <4>1, <4>2 DEF Established
    <3>5. sock' \notin Established => estd' = Rounds + 1
      <4> SUFFICES ASSUME sock' \notin Established PROVE estd' = Rounds + 1
        OBVIOUS
      <4>1. sock \notin Established
        BY <2>2, <3>3 DEF ConnectResults, Established, SetSock
      <4>2. estd = Rounds + 1
        BY <2>1, <4>1 DEF RoundsInv
      <4> QED BY <2>2, <4>2 DEF SetSock
    <3>6. round >= 1
      BY <2>1 DEF RoundsInv
    <3>7. CASE round' = round + 1 /\ at' = "select"
      BY <1>0, <2>4, <3>4, <3>5, <3>6, <3>7 DEF RoundsInv, Established
    <3>8. CASE round = Rounds /\ at' = "done"
      BY <1>0, <3>4, <3>5, <3>8 DEF RoundsInv
    <3> QED BY <3>2, <3>7, <3>8
  <2> QED BY <2>3, <2>4
<1>6. CASE Network
  <2>1. /\ version = "rounds" /\ ~trouble /\ sock = "connecting"
        /\ SetSock("established") \/ SetSock("refused")
        /\ UNCHANGED <<at, errno, said, round>> /\ at \notin {"socket", "done"}
    BY <1>6 DEF Network
  <2>2. at = "select" /\ estd = Rounds + 1 /\ round >= 1 /\ errno # "EISCONN"
    <3>1. at # "connect" /\ at # "sending"
      BY <2>1 DEF RoundsInv
    <3>2. at \in {"socket", "connect", "select", "sending", "done"}
      BY DEF ConnSoundInv
    <3> QED BY <2>1, <3>1, <3>2 DEF RoundsInv, Established
  <2> QED BY <1>0, <2>1, <2>2 DEF RoundsInv, SetSock, Established
<1>7. CASE UNCHANGED connVars
  BY <1>7 DEF connVars, RoundsInv
<1> QED BY <1>1, <1>2, <1>3, <1>4, <1>5, <1>6, <1>7
        DEF ConnNext, ConnStep, ConnOver

\* 2_NonblockConnect.cpp reports success when the connection is established with
\* two selects left: in one connect returns 0 and errno is left as it was, in the
\* next errno is EISCONN.
THEOREM RoundsCorrect == ProgramsSpec => []RoundsSuffice
<1>1. ProgramsInit => ConnSoundInv /\ RoundsInv
  BY RoundsAssumption
  DEF ProgramsInit, ConnInit, ConnSoundInv, ConnSocks, Established, RoundsInv
<1>2. ConnSoundInv /\ RoundsInv /\ [ProgramsNext]_allVars => ConnSoundInv' /\ RoundsInv'
  BY OneProgram, ConnSoundStep, RoundsStep
<1>3. RoundsInv => RoundsSuffice
  BY DEF RoundsInv, RoundsSuffice
<1> QED BY <1>1, <1>2, <1>3, ProgramsSafe, PTL

-----------------------------------------------------------------------------
(* CmplRouEchoServ *)

\* The data of one client.  len is BUF_SIZE or what a receive returned, so it is
\* never 0, and a receive returns no bytes only when the client has left.
ApcClientInv(c) ==
  LET h == hbInfo[c] IN
  /\ h.st = "none" => h.op = "none"
  /\ h.op # "none" => h.st = "live"
  /\ h.st = "none" => left[c] = "no" /\ outbox[c] = 0
  /\ h.st = "live" => h.len > 0
  /\ h.op = "received" /\ h.bytes = 0 => left[c] # "no"
  /\ h.st = "freed" => left[c] # "no"
  /\ left[c] # "reset" /\ h.op \in {"recv", "received", "sent"} => outbox[c] = h.got
  /\ left[c] # "reset" /\ h.op = "send" => outbox[c] + h.len = h.got

HbInfos == [st : {"none", "live", "freed"}, len : Nat,
            op : {"none", "recv", "send", "received", "sent"},
            bytes : Nat, got : Nat]

ApcInv ==
  /\ hbInfo \in [ApcClients -> HbInfos]
  /\ left \in [ApcClients -> {"no", "closed", "reset"}]
  /\ inbox \in [ApcClients -> Nat] /\ outbox \in [ApcClients -> Nat]
  /\ \A c \in ApcClients : ApcClientInv(c)

\* A step that concerns client c only.
LEMMA ApcFrame ==
  ASSUME ApcInv, NEW c \in ApcClients,
         hbInfo' \in [ApcClients -> HbInfos],
         \A d \in ApcClients \ {c} :
           hbInfo'[d] = hbInfo[d] /\ left'[d] = left[d] /\ outbox'[d] = outbox[d],
         left' \in [ApcClients -> {"no", "closed", "reset"}],
         inbox' \in [ApcClients -> Nat], outbox' \in [ApcClients -> Nat],
         ApcClientInv(c)'
  PROVE  ApcInv'
<1>1. ASSUME NEW d \in ApcClients, d # c PROVE ApcClientInv(d)'
  BY <1>1 DEF ApcInv, ApcClientInv
<1> QED BY <1>1 DEF ApcInv

\* Every step keeps the data of every client.
LEMMA ApcStepInv == ApcInv /\ [ApcNext]_apcVars => ApcInv'
<1> SUFFICES ASSUME ApcInv, [ApcNext]_apcVars PROVE ApcInv'
  OBVIOUS
<1>0. ASSUME NEW c \in ApcClients
      PROVE  /\ hbInfo[c] \in HbInfos /\ left[c] \in {"no", "closed", "reset"}
             /\ inbox[c] \in Nat /\ outbox[c] \in Nat /\ ApcClientInv(c)
             /\ hbInfo[c].len \in Nat /\ hbInfo[c].bytes \in Nat /\ hbInfo[c].got \in Nat
  BY DEF ApcInv, HbInfos
<1>a. hbInfo \in [ApcClients -> HbInfos]
  BY DEF ApcInv
<1>1. ASSUME NEW c \in ApcClients, Received(c) PROVE ApcInv'
  <2>1. hbInfo[c].op = "recv" /\ UNCHANGED <<outbox, left>>
    BY <1>1 DEF Received
  <2>2. \E b \in Nat :
          /\ Finish(c, "received", b) /\ inbox' \in [ApcClients -> Nat]
          /\ b = 0 => hbInfo[c].len = 0 \/ left[c] # "no"
    <3>1. ASSUME NEW b \in 1 .. MaxBytes,
                 b = (IF inbox[c] < hbInfo[c].len THEN inbox[c] ELSE hbInfo[c].len),
                 inbox' = [inbox EXCEPT ![c] = @ - b], Finish(c, "received", b)
          PROVE  b \in Nat /\ b # 0 /\ inbox' \in [ApcClients -> Nat]
      <4>1. inbox[c] - b \in Nat /\ b \in Nat /\ b # 0
        BY <3>1, <1>0, ApcAssumption
      <4> QED BY <3>1, <4>1 DEF ApcInv
    <3>2. CASE /\ hbInfo[c].len = 0 \/ left[c] = "reset"
                  \/ (left[c] = "closed" /\ inbox[c] = 0)
               /\ Finish(c, "received", 0) /\ UNCHANGED inbox
      BY <3>2 DEF ApcInv
    <3> QED BY <1>1, <3>1, <3>2 DEF Received
  <2>3. PICK b \in Nat :
          /\ Finish(c, "received", b) /\ inbox' \in [ApcClients -> Nat]
          /\ b = 0 => hbInfo[c].len = 0 \/ left[c] # "no"
    BY <2>2
  <2>4. /\ hbInfo' \in [ApcClients -> HbInfos] /\ hbInfo'[c].op = "received"
        /\ \A d \in ApcClients : d # c => hbInfo'[d] = hbInfo[d]
    BY <1>a, <2>3 DEF Finish, HbInfos
  <2>5. /\ hbInfo'[c].bytes = b /\ hbInfo'[c].st = hbInfo[c].st
        /\ hbInfo'[c].len = hbInfo[c].len /\ hbInfo'[c].got = hbInfo[c].got
    BY <1>a, <2>3 DEF Finish, HbInfos
  <2>6. ApcClientInv(c)'
    BY <1>0, <2>1, <2>3, <2>4, <2>5 DEF ApcClientInv
  <2> QED BY <2>1, <2>3, <2>4, <2>6, ApcFrame DEF ApcInv
<1>2. ASSUME NEW c \in ApcClients, Sent(c) PROVE ApcInv'
  <2>1. hbInfo[c].op = "send" /\ Finish(c, "sent", hbInfo[c].len)
    BY <1>2 DEF Sent
  <2>2. /\ outbox' \in [ApcClients -> Nat]
        /\ \A d \in ApcClients \ {c} : outbox'[d] = outbox[d]
        /\ left[c] # "reset" => outbox'[c] = outbox[c] + hbInfo[c].len
        /\ UNCHANGED <<left, inbox>>
    BY <1>0, <1>2 DEF Sent, ApcInv
  <2>3. /\ hbInfo' \in [ApcClients -> HbInfos] /\ hbInfo'[c].op = "sent"
        /\ \A d \in ApcClients : d # c => hbInfo'[d] = hbInfo[d]
    BY <1>a, <1>0, <2>1 DEF Finish, HbInfos
  <2>4. /\ hbInfo'[c].st = hbInfo[c].st
        /\ hbInfo'[c].len = hbInfo[c].len /\ hbInfo'[c].got = hbInfo[c].got
    BY <1>a, <2>1 DEF Finish, HbInfos
  <2>5. ApcClientInv(c)'
    BY <1>0, <2>1, <2>2, <2>3, <2>4 DEF ApcClientInv
  <2> QED BY <2>2, <2>3, <2>5, ApcFrame DEF ApcInv
<1>3. ASSUME NEW c \in ApcClients, ReadCompRoutine(c) PROVE ApcInv'
  <2>1. hbInfo[c].op = "received" /\ UNCHANGED <<inbox, outbox, left>>
    BY <1>3 DEF ReadCompRoutine
  <2>2. CASE hbInfo[c].bytes = 0
    <3>1. hbInfo' = [hbInfo EXCEPT ![c].st = "freed", ![c].op = "none"]
      BY <1>3, <2>2 DEF ReadCompRoutine
    <3>2. /\ hbInfo' \in [ApcClients -> HbInfos] /\ hbInfo'[c].op = "none"
          /\ \A d \in ApcClients : d # c => hbInfo'[d] = hbInfo[d]
      BY <1>a, <3>1 DEF HbInfos
    <3>3. hbInfo'[c].st = "freed"
      BY <1>a, <3>1 DEF HbInfos
    <3>4. ApcClientInv(c)'
      BY <1>0, <2>1, <2>2, <3>2, <3>3 DEF ApcClientInv
    <3> QED BY <2>1, <3>2, <3>4, ApcFrame DEF ApcInv
  <2>3. CASE hbInfo[c].bytes > 0
    <3> DEFINE y == hbInfo[c].got + hbInfo[c].bytes
    <3>1. \E op \in {"send", "none"} :
            hbInfo' = [hbInfo EXCEPT ![c].len = hbInfo[c].bytes, ![c].op = op,
                                     ![c].got = y]
      <4>1. hbInfo[c].bytes # 0
        BY <1>0, <2>3
      <4> QED BY <1>3, <1>a, <4>1 DEF ReadCompRoutine, Starts, HbInfos
    <3>2. PICK op \in {"send", "none"} :
            hbInfo' = [hbInfo EXCEPT ![c].len = hbInfo[c].bytes, ![c].op = op,
                                     ![c].got = y]
      BY <3>1
    <3>3. y \in Nat /\ y = hbInfo[c].got + hbInfo[c].bytes
      BY <1>0
    <3> HIDE DEF y
    <3>4. /\ hbInfo' \in [ApcClients -> HbInfos] /\ hbInfo'[c].op = op
          /\ \A d \in ApcClients : d # c => hbInfo'[d] = hbInfo[d]
      <4>1. hbInfo'[c] = [hbInfo[c] EXCEPT !.len = hbInfo[c].bytes, !.op = op,
                                           !.got = y]
        BY <1>a, <3>2
      <4>2. hbInfo'[c] \in HbInfos /\ hbInfo'[c].op = op
        BY <1>0, <3>3, <4>1 DEF HbInfos
      <4>3. \A d \in ApcClients : d # c => hbInfo'[d] = hbInfo[d]
        BY <1>a, <3>2
      <4>4. hbInfo' = [d \in ApcClients |-> hbInfo'[d]]
        BY <1>a, <3>2
      <4> QED BY <1>a, <4>2, <4>3, <4>4
    <3>5. /\ hbInfo'[c].st = hbInfo[c].st /\ hbInfo'[c].got = y
          /\ hbInfo'[c].len = hbInfo[c].bytes
      BY <1>a, <3>2 DEF HbInfos
    <3>6. ApcClientInv(c)'
      BY <1>0, <2>1, <2>3, <3>3, <3>4, <3>5 DEF ApcClientInv
    <3> QED BY <2>1, <3>4, <3>6, ApcFrame DEF ApcInv
  <2> QED BY <1>3, <2>2, <2>3 DEF ReadCompRoutine
<1>4. ASSUME NEW c \in ApcClients, WriteCompRoutine(c) PROVE ApcInv'
  <2>1. PICK op \in {"recv", "none"} : hbInfo' = [hbInfo EXCEPT ![c].op = op]
    BY <1>4 DEF WriteCompRoutine, Starts
  <2>2. hbInfo[c].op = "sent" /\ UNCHANGED <<inbox, outbox, left>>
    BY <1>4 DEF WriteCompRoutine
  <2>3. /\ hbInfo' \in [ApcClients -> HbInfos] /\ hbInfo'[c].op = op
        /\ \A d \in ApcClients : d # c => hbInfo'[d] = hbInfo[d]
    BY <1>a, <2>1 DEF HbInfos
  <2>4. /\ hbInfo'[c].st = hbInfo[c].st
        /\ hbInfo'[c].len = hbInfo[c].len /\ hbInfo'[c].got = hbInfo[c].got
    BY <1>a, <2>1 DEF HbInfos
  <2>5. ApcClientInv(c)'
    BY <1>0, <2>2, <2>3, <2>4 DEF ApcClientInv
  <2> QED BY <2>2, <2>3, <2>5, ApcFrame DEF ApcInv
<1>5. CASE ApcAccept
  <2>1. CASE hbInfo' = hbInfo
    BY <1>5, <2>1 DEF ApcAccept, ApcInv, ApcClientInv
  <2>2. ASSUME NEW c \in ApcClients, NEW op \in {"recv", "none"},
               hbInfo[c].st = "none",
               hbInfo' = [hbInfo EXCEPT ![c] =
                 [Fresh EXCEPT !.st = "live", !.len = BufSize, !.op = op]]
        PROVE  ApcInv'
    <3> DEFINE h == [Fresh EXCEPT !.st = "live", !.len = BufSize, !.op = op]
    <3>1. h \in HbInfos /\ h.st = "live" /\ h.len = BufSize /\ h.op = op /\ h.got = 0
      BY ApcAssumption DEF HbInfos, Fresh
    <3>2. hbInfo' = [hbInfo EXCEPT ![c] = h] /\ UNCHANGED <<inbox, outbox, left>>
      BY <1>5, <2>2 DEF ApcAccept
    <3> HIDE DEF h
    <3>3. /\ hbInfo' \in [ApcClients -> HbInfos] /\ hbInfo'[c] = h
          /\ \A d \in ApcClients : d # c => hbInfo'[d] = hbInfo[d]
      BY <1>a, <3>1, <3>2
    <3>4. BufSize > 0 /\ left[c] = "no" /\ outbox[c] = 0
      BY <1>0, <2>2, ApcAssumption DEF ApcClientInv
    <3>5. ApcClientInv(c)'
      BY <3>1, <3>2, <3>3, <3>4 DEF ApcClientInv
    <3> QED BY <3>2, <3>3, <3>5, ApcFrame DEF ApcInv
  <2> QED BY <1>5, <2>1, <2>2 DEF ApcAccept, Starts
<1>6. ASSUME NEW c \in ApcClients, ApcClient(c) PROVE ApcInv'
  <2>1. hbInfo[c].st # "none" /\ left[c] = "no" /\ UNCHANGED <<outbox, hbInfo>>
    BY <1>6 DEF ApcClient
  <2>2. /\ inbox' \in [ApcClients -> Nat]
        /\ left' = left \/ (\E how \in {"closed", "reset"} : left' = [left EXCEPT ![c] = how])
    BY <1>6 DEF ApcClient, ApcInv
  <2>3. /\ left' \in [ApcClients -> {"no", "closed", "reset"}]
        /\ \A d \in ApcClients : d # c => left'[d] = left[d]
    BY <2>2 DEF ApcInv
  <2>4. ASSUME NEW d \in ApcClients PROVE ApcClientInv(d)'
    BY <1>0, <2>1, <2>3 DEF ApcClientInv
  <2> QED BY <2>1, <2>2, <2>3, <2>4 DEF ApcInv
<1>7. CASE Wake \/ UNCHANGED apcVars
  BY <1>7 DEF Wake, apcVars, ApcInv, ApcClientInv
<1> QED BY <1>1, <1>2, <1>3, <1>4, <1>5, <1>6, <1>7
        DEF ApcNext, ApcKernel, ApcRoutines, ApcOver

\* The length that the completion routines leave in wsaBuf never reaches 0: a
\* client is closed only when it has left, with no operation under way, and all
\* that was received has been sent back or is being sent.
THEOREM ApcCorrect == ProgramsSpec => []ApcClosesLeft
<1>1. ProgramsInit => ApcInv
  BY DEF ProgramsInit, ApcInit, ApcInv, ApcClientInv, Fresh, HbInfos
<1>2. ApcInv /\ [ProgramsNext]_allVars => ApcInv'
  BY OneProgram, ApcStepInv
<1>3. ApcInv => ApcClosesLeft
  BY DEF ApcInv, ApcClientInv, ApcClosesLeft
<1> QED BY <1>1, <1>2, <1>3, ProgramsSafe, PTL

-----------------------------------------------------------------------------
(* nbc.cpp *)

Decided == {"ok", "failed"}

\* A place that was told of is decided and in neither set of descriptors.  During
\* the first loop every socket is in wrfds or counted in n, and afterwards in
\* wrfds_orig or counted.
NbcInv ==
  /\ addrs \in [Hosts -> 1 .. MaxAddrs] /\ tried \in [Hosts -> 0 .. MaxAddrs]
  /\ outcome \in [Places -> {"none", "pending"} \cup Decided]
  /\ told \in [Places -> {0, 1}]
  /\ wrfds \subseteq Places /\ orig \subseteq Places
  /\ n \in Nat /\ total \in Nat
  /\ \A p \in wrfds \cup orig : told[p] = 0
  /\ \A p \in Places : told[p] = 1 => outcome[p] \in Decided
  /\ stage = "start" =>
       /\ orig = {} /\ n + Cardinality(wrfds) = total
       /\ \A p \in Places : p[2] > tried[p[1]] => p \notin wrfds /\ told[p] = 0
  /\ stage \in {"select", "check", "done"} =>
       n + Cardinality(orig) = total /\ wrfds \subseteq orig
  /\ stage = "check" => \A p \in wrfds : outcome[p] \in Decided

\* There are finitely many places.
LEMMA PlacesFinite ==
  ASSUME NEW P \in SUBSET Places
  PROVE  IsFiniteSet(P) /\ Cardinality(P) \in Nat
<1>1. IsFiniteSet(Hosts) /\ IsFiniteSet(1 .. MaxAddrs)
  BY NbcAssumption, FS_Interval DEF Hosts
<1>2. IsFiniteSet(Places)
  BY <1>1, FS_Product DEF Places
<1> QED BY <1>2, FS_Subset, FS_CardinalityType

\* One address of the first loop.
LEMMA NbcConnectInv ==
  ASSUME NbcInv, NEW h \in Hosts, NbcConnect(h)
  PROVE  NbcInv'
<1> DEFINE q == <<h, tried[h] + 1>>
<1>1. /\ stage = "start" /\ tried[h] < addrs[h] /\ UNCHANGED <<stage, addrs, orig>>
      /\ tried' = [tried EXCEPT ![h] = @ + 1]
  BY DEF NbcConnect
<1>2. /\ tried[h] \in 0 .. MaxAddrs /\ tried[h] + 1 \in 1 .. MaxAddrs
      /\ tried' \in [Hosts -> 0 .. MaxAddrs]
  BY <1>1, NbcAssumption DEF NbcInv
<1>3. q \in Places /\ q[1] = h /\ q[2] = tried[h] + 1
  BY <1>2 DEF Places
<1>4. q \notin wrfds /\ told[q] = 0 /\ orig = {}
  BY <1>1, <1>2, <1>3 DEF NbcInv
<1>5. \A p \in Places : p[2] > tried'[p[1]] => p[2] > tried[p[1]] /\ p # q
  <2> SUFFICES ASSUME NEW g \in Hosts, NEW k \in 1 .. MaxAddrs, k > tried'[g]
               PROVE  k > tried[g] /\ <<g, k>> # q
    BY DEF Places
  <2>1. tried'[g] = IF g = h THEN tried[h] + 1 ELSE tried[g]
    BY <1>1 DEF NbcInv
  <2>2. tried[g] \in Nat /\ tried[h] \in Nat /\ k \in Nat
    BY NbcAssumption DEF NbcInv
  <2> QED BY <2>1, <2>2
<1> HIDE DEF q
<1>6. CASE NoSocket
  BY <1>1, <1>2, <1>5, <1>6 DEF NoSocket, NbcInv
<1>7. CASE StartConnect(h, q)
  <2>1. total' = total + 1 /\ total \in Nat /\ n \in Nat
        /\ n + Cardinality(wrfds) = total /\ Cardinality(wrfds) \in Nat
    BY <1>1, <1>7, PlacesFinite DEF StartConnect, NbcInv
  <2>2. CASE /\ outcome' = [outcome EXCEPT ![q] = "pending"]
             /\ wrfds' = wrfds \cup {q} /\ UNCHANGED <<n, told>>
    <3>1. Cardinality(wrfds') = Cardinality(wrfds) + 1
      BY <1>4, <2>2, PlacesFinite, FS_AddElement DEF NbcInv
    <3>2. /\ outcome' \in [Places -> {"none", "pending"} \cup Decided]
          /\ \A p \in Places : told'[p] = 1 => outcome'[p] \in Decided
      BY <1>3, <1>4, <2>2 DEF NbcInv
    <3>3. /\ wrfds' \subseteq Places /\ \A p \in wrfds' \cup orig' : told'[p] = 0
          /\ \A p \in Places : p[2] > tried'[p[1]] => p \notin wrfds' /\ told'[p] = 0
      BY <1>1, <1>3, <1>4, <1>5, <2>2 DEF NbcInv
    <3>4. n' + Cardinality(wrfds') = total' /\ n' \in Nat /\ total' \in Nat
      BY <2>1, <2>2, <3>1
    <3> QED BY <1>1, <1>2, <1>4, <2>2, <3>2, <3>3, <3>4 DEF NbcInv
  <2>3. CASE /\ \E r \in {"ok", "failed"} : outcome' = [outcome EXCEPT ![q] = r]
             /\ n' = n + 1 /\ Tell({q}) /\ UNCHANGED wrfds
    <3>1. told' = [p \in Places |-> IF p = q THEN told[p] + 1 ELSE told[p]]
      BY <2>3 DEF Tell
    <3>2. told' \in [Places -> {0, 1}] /\ \A p \in Places : p # q => told'[p] = told[p]
      BY <1>4, <3>1 DEF NbcInv
    <3>3. /\ outcome' \in [Places -> {"none", "pending"} \cup Decided]
          /\ \A p \in Places : told'[p] = 1 => outcome'[p] \in Decided
      BY <1>3, <2>3, <3>2 DEF NbcInv, Decided
    <3>4. /\ \A p \in wrfds' \cup orig' : told'[p] = 0
          /\ \A p \in Places : p[2] > tried'[p[1]] => p \notin wrfds' /\ told'[p] = 0
      BY <1>1, <1>4, <1>5, <2>3, <3>2 DEF NbcInv
    <3>5. n' + Cardinality(wrfds') = total' /\ n' \in Nat /\ total' \in Nat
      <4>1. Cardinality(wrfds') = Cardinality(wrfds) /\ n' = n + 1
        BY <2>3
      <4> QED BY <2>1, <4>1
    <3> QED BY <1>1, <1>2, <1>4, <2>3, <3>2, <3>3, <3>4, <3>5 DEF NbcInv
  <2> QED BY <1>7, <2>2, <2>3 DEF StartConnect
<1> QED BY <1>6, <1>7 DEF NbcConnect, q

\* The scan after a select.
LEMMA CheckAllInv ==
  ASSUME NbcInv, CheckAll
  PROVE  NbcInv'
<1> DEFINE seen == {p \in wrfds : p[2] <= numsock[p[1]]}
<1>1. /\ stage = "check" /\ Tell(seen) /\ n' = n + Cardinality(seen)
      /\ orig' = orig \ seen /\ wrfds' = orig' /\ stage' \in {"done", "select"}
      /\ UNCHANGED <<addrs, tried, outcome, total>>
  BY DEF CheckAll
<1>2. seen \subseteq wrfds
  OBVIOUS
<1> HIDE DEF seen
<1>3. /\ seen \subseteq orig /\ orig \subseteq Places /\ seen \subseteq Places
      /\ \A p \in seen : outcome[p] \in Decided /\ told[p] = 0
      /\ n + Cardinality(orig) = total /\ n \in Nat
  BY <1>1, <1>2 DEF NbcInv
<1>4. /\ Cardinality(orig \ seen) = Cardinality(orig) - Cardinality(seen)
      /\ Cardinality(orig) \in Nat /\ Cardinality(seen) \in Nat
  <2>1. IsFiniteSet(orig) /\ orig \cap seen = seen
    BY <1>3, PlacesFinite
  <2> QED BY <1>3, <2>1, PlacesFinite, FS_Difference
<1>5. n' + Cardinality(orig') = total' /\ n' \in Nat
  BY <1>1, <1>3, <1>4
<1>6. /\ told' \in [Places -> {0, 1}]
      /\ \A p \in Places : told'[p] = IF p \in seen THEN 1 ELSE told[p]
  BY <1>1, <1>3 DEF Tell, NbcInv
<1>7. /\ \A p \in wrfds' \cup orig' : told'[p] = 0
      /\ \A p \in Places : told'[p] = 1 => outcome'[p] \in Decided
  BY <1>1, <1>3, <1>6 DEF NbcInv
<1> QED BY <1>1, <1>3, <1>5, <1>6, <1>7 DEF NbcInv

\* Every step keeps the counts.
LEMMA NbcStepInv == NbcInv /\ [NbcNext]_nbcVars => NbcInv'
<1> SUFFICES ASSUME NbcInv, [NbcNext]_nbcVars PROVE NbcInv'
  OBVIOUS
<1>1. CASE NbcStarted
  BY <1>1 DEF NbcStarted, NbcInv
<1>2. CASE SelectReady
  BY <1>2 DEF SelectReady, Ready, NbcInv, Decided
<1>3. CASE SelectTimeout
  BY <1>3 DEF SelectTimeout, NbcInv
<1>4. CASE NbcDies
  BY <1>4 DEF NbcDies, NbcInv
<1>5. CASE NbcNetwork
  <2>1. PICK p \in Places, r \in {"ok", "failed"} :
          outcome[p] = "pending" /\ outcome' = [outcome EXCEPT ![p] = r]
    BY <1>5 DEF NbcNetwork
  <2>2. /\ outcome' \in [Places -> {"none", "pending"} \cup Decided]
        /\ \A q \in Places : outcome[q] \in Decided => outcome'[q] \in Decided
    BY <2>1 DEF NbcInv, Decided
  <2> QED BY <1>5, <2>2 DEF NbcNetwork, NbcInv
<1>6. CASE UNCHANGED nbcVars
  BY <1>6 DEF nbcVars, NbcInv
<1> QED BY <1>1, <1>2, <1>3, <1>4, <1>5, <1>6, NbcConnectInv, CheckAllInv
        DEF NbcNext, NbcStep, NbcOver

\* nbc.cpp ends by counting: n, the saved set of descriptors and the results
\* printed agree, and no connect is reported twice.
THEOREM NbcCorrect == ProgramsSpec => []CountsAgree
<1>1. ProgramsInit => NbcInv
  <2>1. Cardinality({}) = 0
    BY FS_EmptySet
  <2> QED BY <2>1, NbcAssumption DEF ProgramsInit, NbcInit, NbcInv
<1>2. NbcInv /\ [ProgramsNext]_allVars => NbcInv'
  BY OneProgram, NbcStepInv
<1>3. NbcInv => CountsAgree
  <2> SUFFICES ASSUME NbcInv PROVE CountsAgree
    OBVIOUS
  <2>1. stage \in {"select", "check", "done"} => total - n = Cardinality(orig)
    BY PlacesFinite DEF NbcInv
  <2> QED BY <2>1 DEF NbcInv, CountsAgree, Decided
<1> QED BY <1>1, <1>2, <1>3, ProgramsSafe, PTL

-----------------------------------------------------------------------------
(* http_server.c *)

\* A set of naturals that is not empty has a least element, and Min is it.
LEMMA MinIsLeast ==
  ASSUME NEW S, S \subseteq Nat, S # {}
  PROVE  Min(S) \in S
<1>1. PICK x \in S : \A y \in S : ~ (<<y, x>> \in OpToRel(<, Nat))
  BY NatLessThanWellFounded, WFMin
<1>2. \A y \in S : ~ (y < x)
  BY <1>1, Zenon DEF OpToRel
<1>3. \A y \in S : x <= y
  BY <1>2
<1> QED
  BY <1>3 DEF Min

ThreadPc == {"none", "start", "open", "read", "send", "copy", "ended"}
ThreadRecord == [pc : ThreadPc, rd : 0 .. Fds, wr : 0 .. Fds, file : 0 .. Fds]

\* What a descriptor may stand for; the files are neither connections nor free.
Opened == {0} \cup Threads \cup {File(t) : t \in Threads}

LEMMA FilesApart ==
  \A t \in Threads : /\ t # 0 /\ File(t) # 0 /\ File(t) \notin Threads
                     /\ t \in Opened /\ File(t) \in Opened
                     /\ \A u \in Threads : File(t) = File(u) => t = u
<1>1. \A t \in Threads : t \in Nat /\ t >= 1 /\ t <= Conns
  BY ThreadsAssumption DEF Threads
<1>2. \A t \in Threads : File(t) \in Nat /\ File(t) > Conns /\ File(t) - Conns = t
  BY <1>1, ThreadsAssumption DEF File
<1>3. \A t \in Threads : File(t) # 0 /\ File(t) \notin Threads
  BY <1>1, <1>2, ThreadsAssumption
<1>4. \A t, u \in Threads : File(t) = File(u) => t = u
  BY <1>2
<1> QED BY <1>1, <1>3, <1>4 DEF Opened

\* Thread t, which main has started or which works, has descriptor f open.
Holds(t, f) ==
  \/ th[t].pc = "start" /\ f = clnt_sock
  \/ th[t].pc \in {"open", "read"} /\ f = th[t].rd
  \/ th[t].pc \in {"read", "send", "copy", "ended"} /\ f = th[t].wr

\* What holds of one thread: the descriptors of its connection are the ones that
\* it holds, it has one file open at most, it answers when it ends, and then it
\* leaves the connection or the file open but not both.
ThreadInv(t) ==
  /\ th[t].pc = "none" <=> t > made
  /\ th[t].pc = "start" =>
       t = made /\ clnt_sock \in 1 .. Fds /\ fdTable[clnt_sock] = t
  /\ th[t].pc \in {"open", "read"} => th[t].rd \in 1 .. Fds /\ fdTable[th[t].rd] = t
  /\ th[t].pc \in {"read", "send", "copy"} =>
       th[t].wr \in 1 .. Fds /\ fdTable[th[t].wr] = t
  /\ th[t].pc = "copy" => th[t].file \in 1 .. Fds /\ fdTable[th[t].file] = File(t)
  /\ th[t].pc = "read" => th[t].rd # th[t].wr
  /\ th[t].pc # "ended" => answers[t] = 0
  /\ \A f \in 1 .. Fds : fdTable[f] = t => Holds(t, f)
  /\ \A f \in 1 .. Fds : fdTable[f] = File(t) =>
       th[t].pc \in {"copy", "ended"} /\ f = th[t].file
  /\ th[t].pc = "ended" => \A e, f \in 1 .. Fds : ~(fdTable[e] = t /\ fdTable[f] = File(t))

\* The threads that have ended with a descriptor open.
Leaking == {t \in Threads :
              th[t].pc = "ended" /\ \E f \in 1 .. Fds : fdTable[f] \in {t, File(t)}}

\* As long as each thread reads clnt_sock before accept returns again.
ThreadsInv ==
  ~hasty =>
    /\ made \in 0 .. Conns
    /\ th \in [Threads -> ThreadRecord]
    /\ fdTable \in [1 .. Fds -> Opened]
    /\ answers \in [Threads -> {0, 1}]
    /\ \A t \in Threads : ThreadInv(t)
    /\ leaks = Cardinality(Leaking)

\* While some thread has no descriptor for writing yet, or has only that, there is
\* a free one: a thread never has more than two.
LEMMA FreeExists ==
  ASSUME ThreadsInv, ~hasty, NEW x \in Threads,
         th[x].pc \in {"none", "start", "open", "send"}
  PROVE  /\ Min(Free) \in 1 .. Fds
         /\ fdTable[Min(Free)] = 0
<1> DEFINE K == {1, 2}
           P == Threads \X K
           spare == IF th[x].pc = "send" THEN 1 ELSE 2
           T == P \ {<<x, spare>>}
           o(f) == CHOOSE t \in Threads : fdTable[f] \in {t, File(t)}
           g == [f \in 1 .. Fds |->
                  IF /\ fdTable[f] = o(f) /\ f = th[o(f)].wr
                     /\ th[o(f)].pc \in {"read", "send", "copy", "ended"}
                  THEN <<o(f), 2>> ELSE <<o(f), 1>>]
<1>1. Conns \in Nat /\ Fds \in Nat /\ Fds >= 3 * Conns
  BY ThreadsAssumption
<1>2. IsFiniteSet(Threads) /\ Cardinality(Threads) = Conns
  BY <1>1, FS_Interval DEF Threads
<1>3. IsFiniteSet(1 .. Fds) /\ Cardinality(1 .. Fds) = Fds
  BY <1>1, FS_Interval
<1>4. IsFiniteSet(K) /\ Cardinality(K) = 2
  <2>1. IsFiniteSet({1}) /\ Cardinality({1}) = 1
    BY FS_Singleton
  <2>2. K = {1} \cup {2} /\ 2 \notin {1}
    OBVIOUS
  <2>3. IsFiniteSet({1} \cup {2}) /\ Cardinality({1} \cup {2}) = Cardinality({1}) + 1
    BY <2>1, <2>2, FS_AddElement
  <2> QED BY <2>1, <2>2, <2>3
<1>5. IsFiniteSet(P) /\ Cardinality(P) = Conns * 2
  BY <1>2, <1>4, FS_Product
<1>6. IsFiniteSet(T) /\ Cardinality(T) = Conns * 2 - 1
  <2>1. <<x, spare>> \in P
    OBVIOUS
  <2>2. Cardinality(T) = Cardinality(P) - 1 /\ IsFiniteSet(T)
    <3> HIDE DEF P
    <3> QED BY <1>5, <2>1, FS_RemoveElement
  <2> HIDE DEF P, T
  <2> QED BY <1>1, <1>5, <2>2
<1>7. Free # {}
  <2> SUFFICES ASSUME Free = {} PROVE FALSE
    OBVIOUS
  <2>1. \A f \in 1 .. Fds : o(f) \in Threads /\ fdTable[f] \in {o(f), File(o(f))}
    <3> SUFFICES ASSUME NEW f \in 1 .. Fds
                 PROVE  \E t \in Threads : fdTable[f] \in {t, File(t)}
      OBVIOUS
    <3>1. fdTable[f] \in Opened /\ fdTable[f] # 0
      BY DEF Free, ThreadsInv
    <3> QED BY <3>1 DEF Opened
  <2> HIDE DEF o
  <2>2. \A f \in 1 .. Fds : ThreadInv(o(f))
    BY <2>1 DEF ThreadsInv
  <2>3. \A f \in 1 .. Fds :
          \/ fdTable[f] = o(f) /\ Holds(o(f), f)
          \/ /\ fdTable[f] = File(o(f)) /\ fdTable[f] # o(f)
             /\ th[o(f)].pc \in {"copy", "ended"} /\ f = th[o(f)].file
    BY <2>1, <2>2, FilesApart DEF ThreadInv
  <2>4. ASSUME NEW f \in 1 .. Fds PROVE g[f] \in T
    <3>1. g[f] \in P
      BY <2>1
    <3>2. ASSUME g[f] = <<x, spare>> PROVE FALSE
      <4>1. o(f) = x
        BY <3>2
      <4> QED BY <2>3, <3>2, <4>1 DEF Holds
    <3> QED BY <3>1, <3>2
  <2>5. g \in [1 .. Fds -> T]
    <3> HIDE DEF T
    <3> QED BY <2>4
  <2>6. PICK e \in 1 .. Fds, f \in 1 .. Fds : e # f /\ g[e] = g[f]
    <3> HIDE DEF T, g
    <3>1. Fds > Cardinality(T)
      BY <1>1, <1>6
    <3>2. IsFiniteSet(1 .. Fds) /\ IsFiniteSet(T) /\ Cardinality(T) < Cardinality(1 .. Fds)
      BY <1>1, <1>3, <1>6, <3>1
    <3>3. PICK A, B, q : A = 1 .. Fds /\ B = T /\ q = g
      OBVIOUS
    <3>4. IsFiniteSet(A) /\ IsFiniteSet(B) /\ Cardinality(B) < Cardinality(A) /\ q \in [A -> B]
      BY <2>5, <3>2, <3>3
    <3>5. \E e, f \in A : e # f /\ q[e] = q[f]
      BY <3>4, FS_PigeonHole
    <3> QED BY <3>3, <3>5
  <2>7. o(e) = o(f)
    BY <2>6
  <2>8. PICK t \in Threads : t = o(e) /\ ThreadInv(t)
    BY <2>1, <2>2
  <2>9. CASE fdTable[e] = t /\ fdTable[f] = t
    BY <2>3, <2>6, <2>7, <2>8, <2>9 DEF Holds
  <2>10. CASE fdTable[e] = File(t) /\ fdTable[f] = File(t)
    BY <2>6, <2>8, <2>10 DEF ThreadInv
  <2>11. CASE fdTable[e] = t /\ fdTable[f] = File(t)
    BY <2>3, <2>6, <2>7, <2>8, <2>11, FilesApart DEF ThreadInv, Holds
  <2>12. CASE fdTable[e] = File(t) /\ fdTable[f] = t
    BY <2>3, <2>6, <2>7, <2>8, <2>12, FilesApart DEF ThreadInv, Holds
  <2> QED BY <2>1, <2>7, <2>8, <2>9, <2>10, <2>11, <2>12
<1>8. Min(Free) \in Free
  <2>1. Free \subseteq Nat
    BY <1>1 DEF Free
  <2> QED BY <1>7, <2>1, MinIsLeast
<1> QED BY <1>8 DEF Free

\* A step that leaves thread u, its answers and its descriptors as they are.
LEMMA ThreadFrame ==
  ASSUME NEW u \in Threads, ThreadInv(u), th'[u] = th[u], answers'[u] = answers[u],
         \A f \in 1 .. Fds : fdTable'[f] = u <=> fdTable[f] = u,
         \A f \in 1 .. Fds : fdTable'[f] = File(u) <=> fdTable[f] = File(u),
         u > made' <=> u > made,
         th[u].pc = "start" => UNCHANGED <<clnt_sock, made>>
  PROVE  ThreadInv(u)'
BY DEF ThreadInv, Holds

\* accept and pthread_create.
LEMMA AcceptAndCreateInv ==
  ASSUME ThreadsInv, AcceptAndCreate
  PROVE  ThreadsInv'
<1> SUFFICES ASSUME ~hasty' PROVE ThreadsInv'
  BY DEF ThreadsInv
<1>0. PICK k : k = made'
  OBVIOUS
<1>1. /\ ~hasty /\ (\A t \in Threads : th[t].pc # "start")
      /\ made' = k /\ k = made + 1 /\ made < Conns /\ clnt_sock' = Min(Free)
      /\ fdTable' = [fdTable EXCEPT ![clnt_sock'] = k]
      /\ th' = [th EXCEPT ![k].pc = "start"]
      /\ UNCHANGED <<answers, leaks>>
  BY <1>0 DEF AcceptAndCreate
<1>2. /\ made \in Nat /\ made' \in 0 .. Conns /\ k \in Threads
      /\ Conns \in Nat /\ Fds \in Nat
  BY <1>1, ThreadsAssumption DEF ThreadsInv, Threads
<1>3. th[k].pc = "none" /\ answers[k] = 0
  BY <1>1, <1>2 DEF ThreadsInv, ThreadInv
<1>4. clnt_sock' \in 1 .. Fds /\ fdTable[clnt_sock'] = 0
  BY <1>1, <1>2, <1>3, FreeExists
<1>5. /\ fdTable' \in [1 .. Fds -> Opened]
      /\ \A f \in 1 .. Fds :
           fdTable'[f] = IF f = clnt_sock' THEN k ELSE fdTable[f]
  BY <1>1, <1>2, <1>4, FilesApart DEF ThreadsInv
<1>6. /\ th' \in [Threads -> ThreadRecord]
      /\ th'[k].pc = "start"
      /\ \A u \in Threads : u # k => th'[u] = th[u]
  BY <1>1, <1>2 DEF ThreadsInv, ThreadPc, ThreadRecord
<1>7. ThreadInv(k)'
  <2>1. \A f \in 1 .. Fds : fdTable[f] # k /\ fdTable[f] # File(k)
    BY <1>1, <1>2, <1>3 DEF ThreadsInv, ThreadInv, Holds
  <2>2. \A f \in 1 .. Fds : fdTable'[f] # File(k)
    BY <1>2, <1>5, <2>1, FilesApart
  <2> QED BY <1>1, <1>2, <1>3, <1>4, <1>5, <1>6, <2>1, <2>2 DEF ThreadInv, Holds
<1>8. ASSUME NEW u \in Threads, u # k PROVE ThreadInv(u)'
  <2>1. u \in Nat /\ u # 0
    BY <1>2 DEF Threads
  <2>2. \A f \in 1 .. Fds : /\ fdTable'[f] = u <=> fdTable[f] = u
                            /\ fdTable'[f] = File(u) <=> fdTable[f] = File(u)
    BY <1>2, <1>4, <1>5, <1>8, <2>1, FilesApart
  <2>3. u > made' <=> u > made
    BY <1>1, <1>2, <1>8, <2>1
  <2> QED BY <1>1, <1>6, <1>8, <2>2, <2>3, ThreadFrame DEF ThreadsInv
<1>9. Leaking' = Leaking
  <2>1. \A u \in Threads, f \in 1 .. Fds :
          u # k => (fdTable'[f] \in {u, File(u)} <=> fdTable[f] \in {u, File(u)})
    BY <1>2, <1>4, <1>5, FilesApart
  <2> QED BY <1>3, <1>6, <2>1 DEF Leaking
<1> QED BY <1>1, <1>2, <1>5, <1>6, <1>7, <1>8, <1>9 DEF ThreadsInv

\* A step of thread t touches its own descriptors only.
Apart(t) ==
  \A u \in Threads : u # t =>
    \A f \in 1 .. Fds : /\ fdTable'[f] = u <=> fdTable[f] = u
                        /\ fdTable'[f] = File(u) <=> fdTable[f] = File(u)

LEMMA HandlerStep ==
  ASSUME ThreadsInv, ~hasty, NEW t \in Threads, th[t].pc # "ended",
         UNCHANGED <<clnt_sock, made>>,
         th' \in [Threads -> ThreadRecord],
         \A u \in Threads : u # t => th'[u] = th[u],
         fdTable' \in [1 .. Fds -> Opened],
         Apart(t),
         answers' \in [Threads -> {0, 1}],
         \A u \in Threads : u # t => answers'[u] = answers[u],
         ThreadInv(t)',
         \/ /\ th'[t].pc # "ended" \/ \A f \in 1 .. Fds : fdTable'[f] \notin {t, File(t)}
            /\ leaks' = leaks
         \/ /\ th'[t].pc = "ended" /\ \E f \in 1 .. Fds : fdTable'[f] \in {t, File(t)}
            /\ leaks' = leaks + 1
  PROVE  ThreadsInv'
<1>1. ASSUME NEW u \in Threads, u # t PROVE ThreadInv(u)'
  BY <1>1, ThreadFrame DEF ThreadsInv, Apart
<1>2. IsFiniteSet(Leaking) /\ t \notin Leaking
  <2>1. IsFiniteSet(Threads)
    BY ThreadsAssumption, FS_Interval DEF Threads
  <2> QED BY <2>1, FS_Subset DEF Leaking
<1>3. leaks' = Cardinality(Leaking')
  <2>1. CASE /\ th'[t].pc # "ended" \/ \A f \in 1 .. Fds : fdTable'[f] \notin {t, File(t)}
             /\ leaks' = leaks
    <3>1. Leaking' = Leaking
      BY <2>1 DEF Leaking, Apart
    <3> QED BY <2>1, <3>1 DEF ThreadsInv
  <2>2. CASE /\ th'[t].pc = "ended" /\ \E f \in 1 .. Fds : fdTable'[f] \in {t, File(t)}
             /\ leaks' = leaks + 1
    <3>1. Leaking' = Leaking \cup {t}
      BY <2>2 DEF Leaking, Apart
    <3>2. Cardinality(Leaking \cup {t}) = Cardinality(Leaking) + 1
      BY <1>2, FS_AddElement
    <3> QED BY <2>2, <3>1, <3>2 DEF ThreadsInv
  <2> QED BY <2>1, <2>2
<1> QED BY <1>1, <1>3 DEF ThreadsInv

\* Closing descriptors of thread t.
LEMMA ClosingOwn ==
  ASSUME ThreadsInv, ~hasty, NEW t \in Threads, NEW F, Closing(F),
         \A f \in F : f \in 1 .. Fds /\ fdTable[f] = t
  PROVE  /\ fdTable' \in [1 .. Fds -> Opened]
         /\ \A f \in 1 .. Fds : fdTable'[f] = IF f \in F THEN 0 ELSE fdTable[f]
         /\ Apart(t)
<1>1. Conns \in Nat /\ fdTable \in [1 .. Fds -> Opened] /\ 0 \in Opened
  BY ThreadsAssumption DEF ThreadsInv, Opened
<1>2. fdTable' = [f \in 1 .. Fds |-> IF f \in F THEN 0 ELSE fdTable[f]]
  BY DEF Closing
<1> QED BY <1>1, <1>2, FilesApart DEF Apart

\* An answer on a descriptor of thread t.
LEMMA AnswersOwn ==
  ASSUME ThreadsInv, ~hasty, NEW t \in Threads, NEW f, fdTable[f] = t,
         answers[t] = 0, Answers(f)
  PROVE  /\ answers' \in [Threads -> {0, 1}]
         /\ \A u \in Threads : u # t => answers'[u] = answers[u]
<1>1. answers' = [u \in Threads |->
                    IF fdTable[f] = u THEN answers[u] + 1 ELSE answers[u]]
  BY DEF Answers
<1>2. answers \in [Threads -> {0, 1}]
  BY DEF ThreadsInv
<1> QED BY <1>1, <1>2

\* The steps of request_handler.
LEMMA RequestHandlerInv ==
  ASSUME ThreadsInv, NEW t \in Threads, RequestHandler(t)
  PROVE  ThreadsInv'
<1> SUFFICES ASSUME ~hasty' PROVE ThreadsInv'
  BY DEF ThreadsInv
<1>0. /\ ~hasty /\ UNCHANGED <<clnt_sock, made>>
  BY DEF RequestHandler, ReadArg, OpenStreams, HandleRequest, SendData, SendFile
<1>1. /\ Conns \in Nat /\ Fds \in Nat
      /\ th \in [Threads -> ThreadRecord]
      /\ fdTable \in [1 .. Fds -> Opened]
      /\ answers \in [Threads -> {0, 1}]
      /\ ThreadInv(t)
  BY <1>0, ThreadsAssumption DEF ThreadsInv
<1>2. th[t].rd \in 0 .. Fds /\ th[t].wr \in 0 .. Fds
  BY <1>1 DEF ThreadRecord
<1>t. t # 0 /\ File(t) # 0 /\ File(t) # t /\ t \in Opened /\ File(t) \in Opened
  BY FilesApart
<1>3. CASE ReadArg(t)
  <2>1. /\ th[t].pc = "start" /\ UNCHANGED <<fdTable, answers, leaks>>
        /\ th' = [th EXCEPT ![t].pc = "open", ![t].rd = clnt_sock]
    BY <1>3 DEF ReadArg
  <2>2. clnt_sock \in 0 .. Fds
    BY <1>1, <2>1 DEF ThreadInv
  <2>3. /\ th' \in [Threads -> ThreadRecord]
        /\ th'[t].pc = "open" /\ th'[t].rd = clnt_sock
        /\ \A u \in Threads : u # t => th'[u] = th[u]
    BY <1>1, <2>1, <2>2 DEF ThreadPc, ThreadRecord
  <2>4. ThreadInv(t)'
    BY <1>0, <1>1, <2>1, <2>3 DEF ThreadInv, Holds
  <2> QED BY <1>0, <1>1, <2>1, <2>3, <2>4, HandlerStep DEF Apart
<1>4. CASE OpenStreams(t)
  <2>1. th[t].pc = "open" /\ fdTable[th[t].rd] = t /\ th[t].rd \in 1 .. Fds
    BY <1>1, <1>4 DEF OpenStreams, ThreadInv
  <2>2. PICK g : g = Min(Free)
    OBVIOUS
  <2>3. g \in 1 .. Fds /\ fdTable[g] = 0
    BY <1>0, <2>1, <2>2, FreeExists
  <2>4. /\ th' = [th EXCEPT ![t].pc = "read", ![t].wr = g]
        /\ fdTable' = [fdTable EXCEPT ![g] = t]
        /\ UNCHANGED <<answers, leaks>>
    BY <1>4, <1>t, <2>1, <2>2 DEF OpenStreams
  <2>5. /\ th' \in [Threads -> ThreadRecord]
        /\ th'[t].pc = "read" /\ th'[t].rd = th[t].rd /\ th'[t].wr = g
        /\ \A u \in Threads : u # t => th'[u] = th[u]
    <3>1. g \in 0 .. Fds
      BY <1>1, <2>3
    <3> QED BY <1>1, <2>4, <3>1 DEF ThreadPc, ThreadRecord
  <2>6. /\ fdTable' \in [1 .. Fds -> Opened]
        /\ \A f \in 1 .. Fds : fdTable'[f] = IF f = g THEN t ELSE fdTable[f]
    BY <1>1, <1>t, <2>3, <2>4
  <2>7. ThreadInv(t)'
    BY <1>0, <1>1, <1>t, <2>1, <2>3, <2>4, <2>5, <2>6 DEF ThreadInv, Holds
  <2>8. Apart(t)
    BY <2>3, <2>6, FilesApart DEF Apart
  <2> QED BY <1>0, <1>1, <2>1, <2>4, <2>5, <2>6, <2>7, <2>8, HandlerStep
<1>5. CASE \E q \in Requests : HandleRequest(t, q) /\ ~Refuse(t) /\ ~Serve(t)
  <2>1. UNCHANGED <<fdTable, th, answers, leaks>>
    BY <1>5 DEF HandleRequest, NoExtension
  <2>2. ThreadInv(t)' /\ th[t].pc = "read"
    BY <1>0, <1>1, <1>5, <2>1 DEF HandleRequest, ThreadInv, Holds
  <2> QED BY <1>0, <1>1, <2>1, <2>2, HandlerStep DEF Apart
<1>6. CASE th[t].pc = "read" /\ Refuse(t)
  <2>1. /\ Answers(th[t].wr) /\ Closing({th[t].rd, th[t].wr}) /\ UNCHANGED leaks
        /\ th' = [th EXCEPT ![t].pc = "ended"]
    BY <1>6 DEF Refuse
  <2>2. /\ fdTable[th[t].rd] = t /\ fdTable[th[t].wr] = t /\ answers[t] = 0
        /\ th[t].rd \in 1 .. Fds /\ th[t].wr \in 1 .. Fds
    BY <1>1, <1>6 DEF ThreadInv
  <2>3. /\ fdTable' \in [1 .. Fds -> Opened]
        /\ \A f \in 1 .. Fds :
             fdTable'[f] = IF f \in {th[t].rd, th[t].wr} THEN 0 ELSE fdTable[f]
        /\ Apart(t)
    BY <1>0, <2>1, <2>2, ClosingOwn
  <2>4. /\ answers' \in [Threads -> {0, 1}]
        /\ \A u \in Threads : u # t => answers'[u] = answers[u]
    BY <1>0, <2>1, <2>2, AnswersOwn
  <2>5. /\ th' \in [Threads -> ThreadRecord]
        /\ th'[t].pc = "ended" /\ \A u \in Threads : u # t => th'[u] = th[u]
    BY <1>1, <2>1 DEF ThreadPc, ThreadRecord
  <2>6. \A f \in 1 .. Fds : fdTable'[f] \notin {t, File(t)}
    BY <1>1, <1>6, <1>t, <2>3 DEF ThreadInv, Holds
  <2>7. ThreadInv(t)'
    BY <1>0, <1>1, <1>6, <2>5, <2>6 DEF ThreadInv
  <2> QED BY <1>0, <1>6, <2>1, <2>3, <2>4, <2>5, <2>6, <2>7, HandlerStep
<1>7. CASE th[t].pc = "read" /\ Serve(t)
  <2>1. /\ Closing({th[t].rd}) /\ UNCHANGED <<answers, leaks>>
        /\ th' = [th EXCEPT ![t].pc = "send"]
    BY <1>7 DEF Serve
  <2>2. /\ fdTable[th[t].rd] = t /\ fdTable[th[t].wr] = t /\ answers[t] = 0
        /\ th[t].rd \in 1 .. Fds /\ th[t].wr \in 1 .. Fds /\ th[t].rd # th[t].wr
    BY <1>1, <1>7 DEF ThreadInv
  <2>3. /\ fdTable' \in [1 .. Fds -> Opened]
        /\ \A f \in 1 .. Fds :
             fdTable'[f] = IF f \in {th[t].rd} THEN 0 ELSE fdTable[f]
        /\ Apart(t)
    BY <1>0, <2>1, <2>2, ClosingOwn
  <2>4. /\ th' \in [Threads -> ThreadRecord]
        /\ th'[t].pc = "send" /\ th'[t].wr = th[t].wr
        /\ \A u \in Threads : u # t => th'[u] = th[u]
    BY <1>1, <2>1 DEF ThreadPc, ThreadRecord
  <2>5. ThreadInv(t)'
    BY <1>0, <1>1, <1>7, <1>t, <2>1, <2>2, <2>3, <2>4 DEF ThreadInv, Holds
  <2> QED BY <1>0, <1>1, <1>7, <2>1, <2>3, <2>4, <2>5, HandlerStep
<1>8. CASE SendData(t, "missing")
  <2>1. /\ th[t].pc = "send" /\ Answers(th[t].wr)
        /\ th' = [th EXCEPT ![t].pc = "ended"]
        /\ leaks' = leaks + 1 /\ UNCHANGED fdTable
    BY <1>8 DEF SendData
  <2>2. fdTable[th[t].wr] = t /\ answers[t] = 0 /\ th[t].wr \in 1 .. Fds
    BY <1>1, <2>1 DEF ThreadInv
  <2>3. /\ answers' \in [Threads -> {0, 1}]
        /\ \A u \in Threads : u # t => answers'[u] = answers[u]
    BY <1>0, <2>1, <2>2, AnswersOwn
  <2>4. /\ th' \in [Threads -> ThreadRecord]
        /\ th'[t].pc = "ended" /\ th'[t].wr = th[t].wr
        /\ \A u \in Threads : u # t => th'[u] = th[u]
    BY <1>1, <2>1 DEF ThreadPc, ThreadRecord
  <2>5. ThreadInv(t)'
    BY <1>0, <1>1, <2>1, <2>4 DEF ThreadInv, Holds
  <2>6. \E f \in 1 .. Fds : fdTable'[f] \in {t, File(t)}
    BY <2>1, <2>2
  <2> QED BY <1>0, <1>1, <2>1, <2>3, <2>4, <2>5, <2>6, HandlerStep DEF Apart
<1>9. CASE SendData(t, "found")
  <2>1. th[t].pc = "send" /\ fdTable[th[t].wr] = t /\ th[t].wr \in 1 .. Fds
    BY <1>1, <1>9 DEF SendData, ThreadInv
  <2>2. PICK g : g = Min(Free)
    OBVIOUS
  <2>3. g \in 1 .. Fds /\ fdTable[g] = 0
    BY <1>0, <2>1, <2>2, FreeExists
  <2>4. /\ th' = [th EXCEPT ![t].pc = "copy", ![t].file = g]
        /\ fdTable' = [fdTable EXCEPT ![g] = File(t)]
        /\ UNCHANGED <<answers, leaks>>
    BY <1>9, <2>2 DEF SendData
  <2>5. /\ th' \in [Threads -> ThreadRecord]
        /\ th'[t].pc = "copy" /\ th'[t].file = g /\ th'[t].wr = th[t].wr
        /\ \A u \in Threads : u # t => th'[u] = th[u]
    <3>1. g \in 0 .. Fds
      BY <1>1, <2>3
    <3> QED BY <1>1, <2>4, <3>1 DEF ThreadPc, ThreadRecord
  <2>6. /\ fdTable' \in [1 .. Fds -> Opened]
        /\ \A f \in 1 .. Fds : fdTable'[f] = IF f = g THEN File(t) ELSE fdTable[f]
    BY <1>1, <1>t, <2>3, <2>4
  <2>7. \A f \in 1 .. Fds : fdTable[f] # File(t)
    BY <1>1, <2>1 DEF ThreadInv
  <2>8. ThreadInv(t)'
    BY <1>0, <1>1, <1>t, <2>1, <2>3, <2>4, <2>5, <2>6, <2>7 DEF ThreadInv, Holds
  <2>9. Apart(t)
    BY <2>3, <2>6, FilesApart DEF Apart
  <2> QED BY <1>0, <1>1, <2>1, <2>4, <2>5, <2>6, <2>8, <2>9, HandlerStep
<1>10. CASE SendFile(t)
  <2>1. /\ th[t].pc = "copy" /\ Answers(th[t].wr) /\ Closing({th[t].wr})
        /\ th' = [th EXCEPT ![t].pc = "ended"] /\ leaks' = leaks + 1
    BY <1>10 DEF SendFile
  <2>2. /\ fdTable[th[t].wr] = t /\ answers[t] = 0 /\ th[t].wr \in 1 .. Fds
        /\ fdTable[th[t].file] = File(t) /\ th[t].file \in 1 .. Fds
    BY <1>1, <2>1 DEF ThreadInv
  <2>3. /\ answers' \in [Threads -> {0, 1}]
        /\ \A u \in Threads : u # t => answers'[u] = answers[u]
    BY <1>0, <2>1, <2>2, AnswersOwn
  <2>4. /\ th' \in [Threads -> ThreadRecord]
        /\ th'[t].pc = "ended" /\ th'[t].file = th[t].file
        /\ \A u \in Threads : u # t => th'[u] = th[u]
    BY <1>1, <2>1 DEF ThreadPc, ThreadRecord
  <2>5. /\ fdTable' \in [1 .. Fds -> Opened]
        /\ \A f \in 1 .. Fds :
             fdTable'[f] = IF f \in {th[t].wr} THEN 0 ELSE fdTable[f]
        /\ Apart(t)
    BY <1>0, <2>1, <2>2, ClosingOwn
  <2>6. \A f \in 1 .. Fds : fdTable'[f] # t
    BY <1>1, <1>t, <2>1, <2>5 DEF ThreadInv, Holds
  <2>7. \A f \in 1 .. Fds : fdTable'[f] = File(t) => f = th[t].file
    BY <1>1, <1>t, <2>5 DEF ThreadInv
  <2>8. ThreadInv(t)'
    BY <1>0, <1>1, <2>1, <2>4, <2>6, <2>7 DEF ThreadInv
  <2>9. \E f \in 1 .. Fds : fdTable'[f] \in {t, File(t)}
    BY <1>t, <2>2, <2>5
  <2> QED BY <1>0, <1>1, <2>1, <2>3, <2>4, <2>5, <2>8, <2>9, HandlerStep
<1>11. SendData(t, "missing") \/ SendData(t, "found") \/ \A q : ~SendData(t, q)
  BY DEF SendData
<1> QED BY <1>3, <1>4, <1>5, <1>6, <1>7, <1>8, <1>9, <1>10, <1>11
        DEF RequestHandler, HandleRequest

\* Without haste, one thread per connection and no descriptor forgotten:
\* http_server.c answers each connection once at most, no thread meets a closed
\* descriptor, and what stays open is what send_data left open.
THEOREM ThreadsCorrect == ProgramsSpec => []OneAnswerEach
<1>1. ProgramsInit => ThreadsInv
  <2> SUFFICES ASSUME ProgramsInit PROVE ThreadsInv
    OBVIOUS
  <2>1. /\ made = 0 /\ leaks = 0 /\ fdTable = [f \in 1 .. Fds |-> 0]
        /\ th = [t \in Threads |-> [pc |-> "none", rd |-> 0, wr |-> 0, file |-> 0]]
        /\ answers = [t \in Threads |-> 0]
    BY DEF ProgramsInit, ThreadsInit
  <2>2. Conns \in Nat /\ Fds \in Nat
    BY ThreadsAssumption
  <2>3. Leaking = {} /\ Cardinality({}) = 0
    BY <2>1, FS_EmptySet DEF Leaking
  <2>4. \A t \in Threads : t > made
    BY <2>1, <2>2 DEF Threads
  <2>5. \A t \in Threads : ThreadInv(t)
    BY <2>1, <2>2, <2>4, FilesApart DEF ThreadInv
  <2> QED BY <2>1, <2>2, <2>3, <2>5 DEF ThreadsInv, ThreadPc, ThreadRecord, Opened
<1>2. ThreadsInv /\ [ProgramsNext]_allVars => ThreadsInv'
  <2> SUFFICES ASSUME ThreadsInv, [ThreadsNext]_threadVars PROVE ThreadsInv'
    BY OneProgram
  <2>1. CASE UNCHANGED threadVars
    BY <2>1 DEF threadVars, ThreadsInv, ThreadInv, Holds, Leaking
  <2> QED BY <2>1, AcceptAndCreateInv, RequestHandlerInv DEF ThreadsNext, ThreadsOver
<1>3. ThreadsInv => OneAnswerEach
  <2> SUFFICES ASSUME ThreadsInv, ~hasty PROVE OneAnswerEach
    BY DEF OneAnswerEach
  <2>1. \A t \in Threads : answers[t] <= 1
    BY DEF ThreadsInv
  <2>2. \A t \in Threads : th[t].pc \in {"open", "read"} => fdTable[th[t].rd] = t
    BY DEF ThreadsInv, ThreadInv
  <2>3. ASSUME \A t \in Threads : th[t].pc \in {"none", "ended"}
        PROVE  Cardinality(1 .. Fds \ Free) = leaks
    <3> DEFINE U == 1 .. Fds \ Free
               o(f) == CHOOSE t \in Threads : fdTable[f] \in {t, File(t)}
               g == [f \in U |-> o(f)]
    <3>1. Conns \in Nat /\ Fds \in Nat /\ fdTable \in [1 .. Fds -> Opened]
      BY ThreadsAssumption DEF ThreadsInv
    <3>2. \A f \in U : /\ f \in 1 .. Fds /\ o(f) \in Threads
                      /\ fdTable[f] \in {o(f), File(o(f))}
      <4> SUFFICES ASSUME NEW f \in U PROVE \E t \in Threads : fdTable[f] \in {t, File(t)}
        OBVIOUS
      <4> QED BY <3>1 DEF Free, Opened
    <3>x. \A t, u \in Threads, f \in U :
            fdTable[f] \in {t, File(t)} /\ fdTable[f] \in {u, File(u)} => t = u
      BY FilesApart
    <3>3. \A f \in U : th[o(f)].pc = "ended" /\ o(f) \in Leaking
      <4> SUFFICES ASSUME NEW f \in U PROVE th[o(f)].pc = "ended" /\ o(f) \in Leaking
        OBVIOUS
      <4>1. PICK t \in Threads : t = o(f) /\ fdTable[f] \in {t, File(t)}
        BY <3>2
      <4>2. th[t].pc = "ended"
        <5>1. ThreadInv(t) /\ f \in 1 .. Fds
          BY <3>2, <4>1 DEF ThreadsInv
        <5>2. fdTable[f] = t => Holds(t, f)
          BY <5>1 DEF ThreadInv
        <5>3. fdTable[f] = File(t) => th[t].pc \in {"copy", "ended"}
          BY <5>1 DEF ThreadInv
        <5>4. th[t].pc \in {"none", "ended"}
          BY <2>3
        <5> QED BY <4>1, <5>2, <5>3, <5>4 DEF Holds
      <4> QED BY <4>1, <4>2 DEF Leaking
    <3>5. \A t \in Leaking : \E f \in U : o(f) = t
      <4> SUFFICES ASSUME NEW t \in Leaking PROVE \E f \in U : o(f) = t
        OBVIOUS
      <4>1. t \in Threads
        BY DEF Leaking
      <4>2. PICK f \in 1 .. Fds : fdTable[f] \in {t, File(t)}
        BY DEF Leaking
      <4>3. f \in U
        BY <4>1, <4>2, FilesApart DEF Free
      <4> QED BY <3>2, <3>x, <4>1, <4>2, <4>3
    <3>6. \A e, f \in U : o(e) = o(f) => e = f
      <4> SUFFICES ASSUME NEW e \in U, NEW f \in U, o(e) = o(f) PROVE e = f
        OBVIOUS
      <4>1. PICK t \in Threads : /\ t = o(e) /\ th[t].pc = "ended"
                                 /\ fdTable[e] \in {t, File(t)}
                                 /\ fdTable[f] \in {t, File(t)}
        BY <3>2, <3>3
      <4>2. ThreadInv(t)
        BY DEF ThreadsInv
      <4> HIDE DEF o
      <4> QED BY <4>1, <4>2 DEF ThreadInv, Holds
    <3> HIDE DEF o
    <3>4. \A f \in U : o(f) \in Leaking
      BY <3>3
    <3>7. IsFiniteSet(U)
      BY <3>1, FS_Interval, FS_Subset
    <3> HIDE DEF U
    <3>8. g \in Surjection(U, Leaking) /\ g \in Injection(U, Leaking)
      BY <3>4, <3>5, <3>6 DEF Surjection, Injection, IsInjective
    <3> HIDE DEF g
    <3>9. Cardinality(U) = Cardinality(Leaking)
      BY <3>7, <3>8, FS_Surjection
    <3> QED BY <3>9 DEF U, ThreadsInv
  <2> QED BY <2>1, <2>2, <2>3 DEF OneAnswerEach
<1> QED BY <1>1, <1>2, <1>3, ProgramsSafe, PTL

-----------------------------------------------------------------------------
(* IOCPEchoServ and IOCPDemo *)

Packet == [info : Infos, bytes : {0, 1}]
InfosOf(q) == {q[p].info : p \in DOMAIN q}
Serves(w) == wk[w].pc \in {"send", "recv"}

PortType ==
  /\ accepting \in BOOLEAN
  /\ asked \in [PortClients -> 0 .. MaxAsked]
  /\ handle \in [PortClients -> {"none", "live", "freed"}]
  /\ io \in [Infos -> {"none", "READ", "WRITE", "freed"}]
  /\ ops \subseteq Infos
  /\ port \in Seq(Packet)
  /\ wk \in [PortWorkers -> [pc : {"wait", "send", "recv", "ended"},
                             info : Infos \cup {<<>>}]]
  /\ \A w \in PortWorkers : Serves(w) => wk[w].info \in Infos

\* An ioInfo is in one place at most, and a receive that brought bytes brought a
\* message.
PacketInv ==
  /\ \A p, q \in DOMAIN port : port[p].info = port[q].info => p = q
  /\ \A i \in ops : i \notin InfosOf(port)
  /\ \A i \in ops \cup InfosOf(port) : io[i] \in {"READ", "WRITE"}
  /\ \A p \in DOMAIN port :
       port[p].bytes # 0 /\ io[port[p].info] = "READ" =>
         asked[port[p].info[1]] >= port[p].info[2]

\* The ioInfos of a client are used in order, and only the last of them receives.
ChainInv ==
  /\ \A i, j \in Infos : i[1] = j[1] /\ j[2] < i[2] /\ io[i] # "none" =>
       io[j] \in {"WRITE", "freed"}
  /\ \A i \in Infos : io[i] = "READ" => handle[i[1]] = "live"
  /\ \A i \in Infos : handle[i[1]] = "none" => io[i] = "none"

\* Each client is served by one worker at most, which holds its last ioInfo; and
\* then no receive is under way.
ServeInv ==
  /\ \A w \in PortWorkers : Serves(w) =>
       /\ handle[wk[w].info[1]] = "live" /\ wk[w].info[2] <= MaxAsked
       /\ io[wk[w].info] \in {"WRITE", "freed"}
       /\ \A i \in Infos : i[1] = wk[w].info[1] =>
            io[i] # "READ" /\ (i[2] > wk[w].info[2] => io[i] = "none")
  /\ \A w \in PortWorkers : wk[w].pc = "send" =>
       io[wk[w].info] = "WRITE" /\ wk[w].info \notin ops \cup InfosOf(port)
  /\ \A v, w \in PortWorkers :
       Serves(v) /\ Serves(w) /\ wk[v].info[1] = wk[w].info[1] => v = w

PortInv == PortType /\ PacketInv /\ ChainInv /\ ServeInv

\* A packet is put at the end of the queue.
LEMMA PacketQueued ==
  ASSUME NEW q \in Seq(Packet), NEW x \in Packet, x.info \notin InfosOf(q),
         \A m, y \in DOMAIN q : q[m].info = q[y].info => m = y
  PROVE  /\ Append(q, x) \in Seq(Packet)
         /\ InfosOf(Append(q, x)) = InfosOf(q) \cup {x.info}
         /\ \A m, y \in DOMAIN Append(q, x) :
              Append(q, x)[m].info = Append(q, x)[y].info => m = y
         /\ \A m \in DOMAIN Append(q, x) :
              Append(q, x)[m] = x \/ \E y \in DOMAIN q : Append(q, x)[m] = q[y]
<1> DEFINE a == Append(q, x)
<1>1. /\ a \in Seq(Packet) /\ Len(a) = Len(q) + 1 /\ a[Len(q) + 1] = x
      /\ \A m \in 1 .. Len(q) : a[m] = q[m]
      /\ DOMAIN q = 1 .. Len(q) /\ DOMAIN a = 1 .. Len(q) + 1 /\ Len(q) \in Nat
  OBVIOUS
<1> HIDE DEF a
<1>2. \A m \in DOMAIN a : m = Len(q) + 1 \/ m \in DOMAIN q
  BY <1>1
<1>3. \A m \in DOMAIN q : m \in DOMAIN a /\ a[m] = q[m] /\ q[m].info # x.info
  BY <1>1 DEF InfosOf
<1>4. Len(q) + 1 \in DOMAIN a
  BY <1>1
<1>5. InfosOf(a) = InfosOf(q) \cup {x.info}
  BY <1>1, <1>2, <1>3, <1>4 DEF InfosOf
<1>6. \A m, y \in DOMAIN a : a[m].info = a[y].info => m = y
  BY <1>1, <1>2, <1>3
<1>7. \A m \in DOMAIN a : a[m] = x \/ \E y \in DOMAIN q : a[m] = q[y]
  BY <1>1, <1>2, <1>3
<1> QED BY <1>1, <1>5, <1>6, <1>7 DEF a

\* The packet in front is taken.
LEMMA PacketTaken ==
  ASSUME NEW q \in Seq(Packet), q # <<>>,
         \A m, y \in DOMAIN q : q[m].info = q[y].info => m = y
  PROVE  /\ Tail(q) \in Seq(Packet) /\ Head(q) \in Packet
         /\ \E m \in DOMAIN q : q[m] = Head(q)
         /\ Head(q).info \in InfosOf(q)
         /\ InfosOf(Tail(q)) = InfosOf(q) \ {Head(q).info}
         /\ \A m, y \in DOMAIN Tail(q) : Tail(q)[m].info = Tail(q)[y].info => m = y
         /\ \A m \in DOMAIN Tail(q) : \E y \in DOMAIN q : Tail(q)[m] = q[y]
<1> DEFINE t == Tail(q)
<1>1. /\ t \in Seq(Packet) /\ Len(t) = Len(q) - 1 /\ Head(q) = q[1]
      /\ \A m \in 1 .. Len(q) - 1 : t[m] = q[m + 1]
      /\ DOMAIN q = 1 .. Len(q) /\ DOMAIN t = 1 .. Len(q) - 1
      /\ Len(q) \in Nat /\ Len(q) > 0
  OBVIOUS
<1>2. 1 \in DOMAIN q /\ Head(q) \in Packet
  BY <1>1
<1> HIDE DEF t
<1>3. \A m \in DOMAIN t : m + 1 \in DOMAIN q /\ m + 1 # 1 /\ t[m] = q[m + 1]
  BY <1>1
<1>4. \A m \in DOMAIN q : m = 1 \/ (m - 1 \in DOMAIN t /\ t[m - 1] = q[m])
  BY <1>1
<1>5. InfosOf(t) = InfosOf(q) \ {Head(q).info}
  <2>1. ASSUME NEW m \in DOMAIN t PROVE t[m].info \in InfosOf(q) \ {Head(q).info}
    BY <1>1, <1>2, <1>3 DEF InfosOf
  <2>2. ASSUME NEW m \in DOMAIN q, q[m].info # Head(q).info PROVE q[m].info \in InfosOf(t)
    BY <1>1, <1>4, <2>2 DEF InfosOf
  <2> QED BY <2>1, <2>2 DEF InfosOf
<1>6. \A m, y \in DOMAIN t : t[m].info = t[y].info => m = y
  <2> SUFFICES ASSUME NEW m \in DOMAIN t, NEW y \in DOMAIN t, t[m].info = t[y].info
               PROVE  m = y
    OBVIOUS
  <2>1. m + 1 = y + 1
    BY <1>3
  <2> QED BY <1>1, <2>1
<1>7. \A m \in DOMAIN t : \E y \in DOMAIN q : t[m] = q[y]
  BY <1>3
<1> QED BY <1>1, <1>2, <1>5, <1>6, <1>7 DEF t, InfosOf

\* An ioInfo is a client and a number.
LEMMA InfoPair ==
  /\ \A i \in Infos : i[1] \in PortClients /\ i[2] \in 1 .. MaxAsked + 1
  /\ \A i, j \in Infos : i[1] = j[1] /\ i[2] = j[2] => i = j
  /\ \A c \in PortClients, k \in 1 .. MaxAsked + 1 :
       <<c, k>> \in Infos /\ <<c, k>>[1] = c /\ <<c, k>>[2] = k
BY DEF Infos

\* The packets of a queue are packets of ioInfos.
LEMMA PacketInfos ==
  ASSUME NEW q \in Seq(Packet)
  PROVE  InfosOf(q) \subseteq Infos /\ \A y \in DOMAIN q : q[y].info \in Infos
<1>1. \A y \in DOMAIN q : q[y] \in Packet
  OBVIOUS
<1> QED BY <1>1 DEF Packet, InfosOf

\* A call completes: its ioInfo goes from the kernel to the end of the queue.
LEMMA QueueInv ==
  ASSUME PortInv, NEW i \in ops, NEW b \in {0, 1}, Queue(i, b),
         io[i] = "READ" /\ b # 0 => asked[i[1]] >= i[2],
         UNCHANGED <<accepting, asked, handle, io, wk>>
  PROVE  PortInv'
<1> DEFINE x == [info |-> i, bytes |-> b]
<1>1. ops' = ops \ {i} /\ port' = Append(port, x)
  BY DEF Queue
<1>2. /\ port \in Seq(Packet) /\ i \in Infos /\ i \notin InfosOf(port)
      /\ \A p, q \in DOMAIN port : port[p].info = port[q].info => p = q
  BY DEF PortInv, PortType, PacketInv
<1>3. x \in Packet /\ x.info = i /\ x.bytes = b
  BY <1>2 DEF Packet
<1> HIDE DEF x
<1>4. /\ port' \in Seq(Packet)
      /\ InfosOf(port') = InfosOf(port) \cup {i}
      /\ \A m, y \in DOMAIN port' : port'[m].info = port'[y].info => m = y
      /\ \A m \in DOMAIN port' : port'[m] = x \/ \E y \in DOMAIN port : port'[m] = port[y]
  BY <1>1, <1>2, <1>3, PacketQueued
<1>5. ops' \cup InfosOf(port') = ops \cup InfosOf(port)
  BY <1>1, <1>4
<1>6. PortType'
  BY <1>1, <1>4 DEF PortInv, PortType, Serves
<1>7. PacketInv'
  <2>1. \A j \in ops' : j \notin InfosOf(port')
    BY <1>1, <1>4 DEF PortInv, PacketInv
  <2>2. \A j \in ops' \cup InfosOf(port') : io'[j] \in {"READ", "WRITE"}
    BY <1>5 DEF PortInv, PacketInv
  <2>3. ASSUME NEW m \in DOMAIN port', port'[m].bytes # 0, io'[port'[m].info] = "READ"
        PROVE  asked'[port'[m].info[1]] >= port'[m].info[2]
    <3>1. CASE port'[m] = x
      BY <1>3, <2>3, <3>1
    <3>2. ASSUME NEW y \in DOMAIN port, port'[m] = port[y]
          PROVE  asked'[port'[m].info[1]] >= port'[m].info[2]
      BY <2>3, <3>2 DEF PortInv, PacketInv
    <3> QED BY <1>4, <3>1, <3>2
  <2> QED BY <1>4, <2>1, <2>2, <2>3 DEF PacketInv
<1>8. ChainInv' /\ ServeInv'
  BY <1>5 DEF PortInv, ChainInv, ServeInv, Serves
<1> QED BY <1>6, <1>7, <1>8 DEF PortInv

\* A worker takes the packet in front, and frees its ioInfo.
LEMMA TakeFreedInv ==
  ASSUME PortInv, port # <<>>, port' = Tail(port),
         io' = [io EXCEPT ![Head(port).info] = "freed"],
         \/ UNCHANGED handle
         \/ /\ io[Head(port).info] = "READ"
            /\ handle' = [handle EXCEPT ![Head(port).info[1]] = "freed"],
         UNCHANGED <<accepting, asked, ops, wk>>
  PROVE  PortInv'
<1>0. PICK h : h = Head(port).info
  OBVIOUS
<1>1. /\ port' \in Seq(Packet) /\ Head(port) \in Packet
      /\ h \in InfosOf(port) /\ InfosOf(port') = InfosOf(port) \ {h}
      /\ \A m, y \in DOMAIN port' : port'[m].info = port'[y].info => m = y
      /\ \A m \in DOMAIN port' : \E y \in DOMAIN port : port'[m] = port[y]
  BY <1>0, PacketTaken DEF PortInv, PortType, PacketInv
<1>2. h \in Infos /\ h[1] \in PortClients
  BY <1>0, <1>1, InfoPair DEF Packet
<1>3. /\ io' \in [Infos -> {"none", "READ", "WRITE", "freed"}]
      /\ \A i \in Infos : io'[i] = IF i = h THEN "freed" ELSE io[i]
      /\ io[h] \in {"READ", "WRITE"} /\ h \notin ops
  BY <1>0, <1>1, <1>2 DEF PortInv, PortType, PacketInv
<1>4. /\ handle' \in [PortClients -> {"none", "live", "freed"}]
      /\ \A c \in PortClients : handle'[c] = handle[c]
                                \/ (c = h[1] /\ io[h] = "READ" /\ handle'[c] = "freed")
  BY <1>0, <1>2 DEF PortInv, PortType
<1>5. PortType'
  BY <1>1, <1>3, <1>4 DEF PortInv, PortType, Serves
<1>6. PacketInv'
  <2>1. \A j \in ops' : j \notin InfosOf(port')
    BY <1>1 DEF PortInv, PacketInv
  <2>2. \A j \in ops' \cup InfosOf(port') : io'[j] \in {"READ", "WRITE"}
    <3>1. InfosOf(port) \subseteq Infos
      BY PacketInfos DEF PortInv, PortType
    <3> QED BY <1>1, <1>3, <3>1 DEF PortInv, PortType, PacketInv
  <2>3. ASSUME NEW m \in DOMAIN port', port'[m].bytes # 0, io'[port'[m].info] = "READ"
        PROVE  asked'[port'[m].info[1]] >= port'[m].info[2]
    <3>1. PICK y \in DOMAIN port : port'[m] = port[y]
      BY <1>1
    <3>2. port[y].info \in Infos
      BY PacketInfos DEF PortInv, PortType
    <3>3. io[port[y].info] = "READ"
      BY <1>3, <2>3, <3>1, <3>2
    <3> QED BY <2>3, <3>1, <3>3 DEF PortInv, PacketInv
  <2> QED BY <1>1, <2>1, <2>2, <2>3 DEF PacketInv
<1>7. ChainInv'
  <2>1. \A i, j \in Infos : i[1] = j[1] /\ j[2] < i[2] /\ io'[i] # "none" =>
          io'[j] \in {"WRITE", "freed"}
    BY <1>3 DEF PortInv, ChainInv
  <2>2. ASSUME NEW i \in Infos, io'[i] = "READ" PROVE handle'[i[1]] = "live"
    <3>1. io[i] = "READ" /\ i # h /\ i[1] \in PortClients
      BY <1>3, <2>2, InfoPair
    <3>2. io[h] # "READ" \/ i[1] # h[1]
      <4> SUFFICES ASSUME io[h] = "READ", i[1] = h[1] PROVE FALSE
        OBVIOUS
      <4>1. i[2] # h[2] /\ i[2] \in Nat /\ h[2] \in Nat
        BY <1>2, <3>1, InfoPair, PortAssumption
      <4>2. i[2] < h[2] \/ h[2] < i[2]
        BY <4>1
      <4> QED BY <1>2, <3>1, <4>2 DEF PortInv, ChainInv
    <3> QED BY <1>4, <3>1, <3>2 DEF PortInv, ChainInv
  <2>3. ASSUME NEW i \in Infos, handle'[i[1]] = "none" PROVE io'[i] = "none"
    <3>1. handle[i[1]] = "none"
      BY <1>4, <2>3, InfoPair
    <3> QED BY <1>3, <3>1 DEF PortInv, ChainInv
  <2> QED BY <2>1, <2>2, <2>3 DEF ChainInv
<1>8. ServeInv'
  <2>1. ASSUME NEW w \in PortWorkers, Serves(w)
        PROVE  /\ handle'[wk[w].info[1]] = "live" /\ wk[w].info[2] <= MaxAsked
               /\ io'[wk[w].info] \in {"WRITE", "freed"}
               /\ \A i \in Infos : i[1] = wk[w].info[1] =>
                    io'[i] # "READ" /\ (i[2] > wk[w].info[2] => io'[i] = "none")
    <3>1. PICK i : i = wk[w].info
      OBVIOUS
    <3>2. i \in Infos /\ i[1] \in PortClients
      BY <2>1, <3>1, InfoPair DEF PortInv, PortType
    <3>3. /\ handle[i[1]] = "live" /\ i[2] <= MaxAsked /\ io[i] \in {"WRITE", "freed"}
          /\ \A j \in Infos : j[1] = i[1] =>
                io[j] # "READ" /\ (j[2] > i[2] => io[j] = "none")
      BY <2>1, <3>1 DEF PortInv, ServeInv
    <3>4. handle'[i[1]] = "live"
      BY <1>2, <1>4, <3>2, <3>3
    <3> QED BY <1>2, <1>3, <3>1, <3>2, <3>3, <3>4
  <2>2. ASSUME NEW w \in PortWorkers, wk[w].pc = "send"
        PROVE  io'[wk[w].info] = "WRITE" /\ wk[w].info \notin ops' \cup InfosOf(port')
    <3>1. wk[w].info \in Infos /\ wk[w].info # h
      BY <1>1, <2>2 DEF PortInv, PortType, ServeInv, Serves
    <3> QED BY <1>1, <1>3, <2>2, <3>1 DEF PortInv, ServeInv
  <2> QED BY <2>1, <2>2 DEF PortInv, ServeInv, Serves
<1> QED BY <1>5, <1>6, <1>7, <1>8 DEF PortInv

\* A worker takes the packet of a receive with bytes, and starts to answer it.
LEMMA TakeReadInv ==
  ASSUME PortInv, NEW w \in PortWorkers, TakeRead(w)
  PROVE  PortInv'
<1>0. PICK h : h = Head(port).info
  OBVIOUS
<1>1. /\ wk[w].pc = "wait" /\ port # <<>> /\ port' = Tail(port)
      /\ io[h] = "READ" /\ Head(port).bytes # 0 /\ io' = [io EXCEPT ![h] = "WRITE"]
      /\ wk' = [wk EXCEPT ![w] = [pc |-> "send", info |-> h]]
      /\ UNCHANGED <<accepting, asked, handle, ops>>
  BY <1>0 DEF TakeRead, SetWk
<1>2. /\ port' \in Seq(Packet) /\ Head(port) \in Packet
      /\ h \in InfosOf(port) /\ InfosOf(port') = InfosOf(port) \ {h}
      /\ \A m, y \in DOMAIN port' : port'[m].info = port'[y].info => m = y
      /\ \A m \in DOMAIN port' : \E y \in DOMAIN port : port'[m] = port[y]
      /\ \E m \in DOMAIN port : port[m] = Head(port)
  BY <1>0, <1>1, PacketTaken DEF PortInv, PortType, PacketInv
<1>3. h \in Infos /\ h[1] \in PortClients /\ h[2] \in 1 .. MaxAsked + 1
  BY <1>0, <1>2, InfoPair DEF Packet
<1>4. /\ io' \in [Infos -> {"none", "READ", "WRITE", "freed"}]
      /\ \A i \in Infos : io'[i] = IF i = h THEN "WRITE" ELSE io[i]
      /\ h \notin ops
  BY <1>1, <1>2, <1>3 DEF PortInv, PortType, PacketInv
<1>5. /\ wk' \in [PortWorkers -> [pc : {"wait", "send", "recv", "ended"},
                                  info : Infos \cup {<<>>}]]
      /\ wk'[w].pc = "send" /\ wk'[w].info = h
      /\ \A v \in PortWorkers : v # w => wk'[v] = wk[v]
  BY <1>1, <1>3 DEF PortInv, PortType
<1>6. h[2] <= MaxAsked /\ handle[h[1]] = "live"
  <2>1. asked[h[1]] >= h[2]
    BY <1>0, <1>1, <1>2 DEF PortInv, PacketInv
  <2>2. asked[h[1]] \in 0 .. MaxAsked
    BY <1>3 DEF PortInv, PortType
  <2> QED BY <1>1, <1>3, <2>1, <2>2, PortAssumption DEF PortInv, ChainInv
<1>7. PortType'
  <2>1. \A v \in PortWorkers : Serves(v)' => wk'[v].info \in Infos
    BY <1>3, <1>5 DEF PortInv, PortType, Serves
  <2> QED BY <1>1, <1>2, <1>4, <1>5, <2>1 DEF PortInv, PortType
<1>8. PacketInv'
  <2>0. InfosOf(port) \subseteq Infos /\ \A y \in DOMAIN port : port[y].info \in Infos
    BY PacketInfos DEF PortInv, PortType
  <2>1. \A j \in ops' : j \notin InfosOf(port')
    BY <1>1, <1>2 DEF PortInv, PacketInv
  <2>2. \A j \in ops' \cup InfosOf(port') : io'[j] \in {"READ", "WRITE"}
    BY <1>1, <1>2, <1>4, <2>0 DEF PortInv, PortType, PacketInv
  <2>3. ASSUME NEW m \in DOMAIN port', port'[m].bytes # 0, io'[port'[m].info] = "READ"
        PROVE  asked'[port'[m].info[1]] >= port'[m].info[2]
    <3>1. PICK y \in DOMAIN port : port'[m] = port[y]
      BY <1>2
    <3>2. io[port[y].info] = "READ"
      BY <1>4, <2>0, <2>3, <3>1
    <3> QED BY <1>1, <2>3, <3>1, <3>2 DEF PortInv, PacketInv
  <2> QED BY <1>2, <2>1, <2>2, <2>3 DEF PacketInv
\* The only receive of its client.
<1>9. \A i \in Infos : i[1] = h[1] /\ i # h =>
         io[i] # "READ" /\ (i[2] > h[2] => io[i] = "none")
  <2> SUFFICES ASSUME NEW i \in Infos, i[1] = h[1], i # h
               PROVE  io[i] # "READ" /\ (i[2] > h[2] => io[i] = "none")
    OBVIOUS
  <2>1. i[2] # h[2] /\ i[2] \in Nat /\ h[2] \in Nat
    BY <1>3, InfoPair, PortAssumption
  <2>2. i[2] < h[2] \/ h[2] < i[2]
    BY <2>1
  <2>3. CASE i[2] < h[2]
    BY <1>1, <1>3, <2>1, <2>3 DEF PortInv, ChainInv
  <2>4. CASE h[2] < i[2]
    BY <1>1, <1>3, <2>1, <2>4 DEF PortInv, ChainInv
  <2> QED BY <2>2, <2>3, <2>4
<1>10. ChainInv'
  <2>1. \A i, j \in Infos : i[1] = j[1] /\ j[2] < i[2] /\ io'[i] # "none" =>
          io'[j] \in {"WRITE", "freed"}
    BY <1>1, <1>4 DEF PortInv, ChainInv
  <2>2. \A i \in Infos : io'[i] = "READ" => handle'[i[1]] = "live"
    BY <1>1, <1>4 DEF PortInv, ChainInv
  <2>3. \A i \in Infos : handle'[i[1]] = "none" => io'[i] = "none"
    BY <1>1, <1>4 DEF PortInv, ChainInv
  <2> QED BY <2>1, <2>2, <2>3 DEF ChainInv
\* Nobody served the client, since its receive was under way.
<1>11. \A v \in PortWorkers : v # w /\ Serves(v) => wk[v].info[1] # h[1]
  BY <1>1, <1>3 DEF PortInv, ServeInv
<1>12. ServeInv'
  <2>1. ASSUME NEW v \in PortWorkers, Serves(v)'
        PROVE  /\ handle'[wk'[v].info[1]] = "live" /\ wk'[v].info[2] <= MaxAsked
               /\ io'[wk'[v].info] \in {"WRITE", "freed"}
               /\ \A i \in Infos : i[1] = wk'[v].info[1] =>
                    io'[i] # "READ" /\ (i[2] > wk'[v].info[2] => io'[i] = "none")
    <3>1. CASE v = w
      <4>1. h[2] \in Nat
        BY <1>3
      <4> QED BY <1>1, <1>3, <1>4, <1>5, <1>6, <1>9, <3>1, <4>1
    <3>2. CASE v # w
      <4>1. Serves(v) /\ wk'[v] = wk[v]
        BY <1>5, <2>1, <3>2 DEF Serves
      <4>2. PICK i : i = wk[v].info
        OBVIOUS
      <4>3. i \in Infos /\ i[1] # h[1] /\ i # h
        BY <1>11, <3>2, <4>1, <4>2 DEF PortInv, PortType
      <4>4. /\ handle[i[1]] = "live" /\ i[2] <= MaxAsked /\ io[i] \in {"WRITE", "freed"}
            /\ \A j \in Infos : j[1] = i[1] =>
                io[j] # "READ" /\ (j[2] > i[2] => io[j] = "none")
        BY <4>1, <4>2 DEF PortInv, ServeInv
      <4> QED BY <1>1, <1>4, <4>1, <4>2, <4>3, <4>4
    <3> QED BY <3>1, <3>2
  <2>2. ASSUME NEW v \in PortWorkers, wk'[v].pc = "send"
        PROVE  io'[wk'[v].info] = "WRITE" /\ wk'[v].info \notin ops' \cup InfosOf(port')
    <3>1. CASE v = w
      BY <1>1, <1>2, <1>3, <1>4, <1>5, <3>1
    <3>2. CASE v # w
      <4>1. wk'[v] = wk[v] /\ wk[v].pc = "send" /\ wk[v].info \in Infos
        BY <1>5, <2>2, <3>2 DEF PortInv, PortType, Serves
      <4> QED BY <1>1, <1>2, <1>4, <4>1 DEF PortInv, ServeInv
    <3> QED BY <3>1, <3>2
  <2>3. ASSUME NEW u \in PortWorkers, NEW v \in PortWorkers, Serves(u)', Serves(v)',
               wk'[u].info[1] = wk'[v].info[1]
        PROVE  u = v
    BY <1>5, <1>11, <2>3 DEF PortInv, ServeInv, Serves
  <2> QED BY <2>1, <2>2, <2>3 DEF ServeInv
<1> QED BY <1>7, <1>8, <1>10, <1>12 DEF PortInv

\* The answer is posted, or the call fails, and the worker goes on or ends.
LEMMA PostSendInv ==
  ASSUME PortInv, NEW w \in PortWorkers, wk[w].pc = "send", PostSend(w, "recv")
  PROVE  PortInv'
<1>0. PICK h : h = wk[w].info
  OBVIOUS
<1>1. /\ UNCHANGED <<accepting, asked, handle, io, port>>
      /\ ops' = ops \cup {h} \/ ops' = ops
      /\ \E pc \in {"recv", "ended"} : wk' = [wk EXCEPT ![w] = [pc |-> pc, info |-> h]]
  BY <1>0 DEF PostSend, Call, SetWk
<1>2. h \in Infos /\ io[h] = "WRITE" /\ h \notin ops \cup InfosOf(port)
  BY <1>0 DEF PortInv, PortType, ServeInv, Serves
<1>3. /\ wk' \in [PortWorkers -> [pc : {"wait", "send", "recv", "ended"},
                                  info : Infos \cup {<<>>}]]
      /\ wk'[w].pc \in {"recv", "ended"} /\ wk'[w].info = h
      /\ \A v \in PortWorkers : v # w => wk'[v] = wk[v]
  BY <1>1, <1>2 DEF PortInv, PortType
<1>4. \A v \in PortWorkers : Serves(v)' => Serves(v) /\ wk'[v].info = wk[v].info
  BY <1>0, <1>3 DEF Serves
<1>5. PortType'
  BY <1>1, <1>2, <1>3, <1>4 DEF PortInv, PortType
<1>6. PacketInv' /\ ChainInv'
  BY <1>1, <1>2 DEF PortInv, PacketInv, ChainInv
<1>7. ServeInv'
  <2>1. ASSUME NEW v \in PortWorkers, wk'[v].pc = "send"
        PROVE  wk'[v] = wk[v] /\ wk[v].info # h
    <3>1. v # w /\ wk'[v] = wk[v] /\ Serves(v) /\ Serves(w)
      BY <1>3, <2>1 DEF Serves
    <3> QED BY <1>0, <3>1 DEF PortInv, ServeInv
  <2> QED BY <1>1, <1>4, <2>1 DEF PortInv, ServeInv
<1> QED BY <1>5, <1>6, <1>7 DEF PortInv

\* A receive is posted with a new ioInfo i, the next one of a client that nobody
\* serves any more, or the call fails.
LEMMA NewReceive ==
  ASSUME PortInv, NEW i \in Infos, io[i] = "none",
         \A j \in Infos : j[1] = i[1] =>
           IF j[2] < i[2] THEN io[j] \in {"WRITE", "freed"} ELSE io[j] = "none",
         io' = [io EXCEPT ![i] = "READ"], ops' = ops \cup {i} \/ ops' = ops,
         accepting' \in BOOLEAN,
         handle' = [handle EXCEPT ![i[1]] = "live"], UNCHANGED <<asked, port>>,
         wk' \in [PortWorkers -> [pc : {"wait", "send", "recv", "ended"},
                                  info : Infos \cup {<<>>}]],
         \A v \in PortWorkers : Serves(v)' =>
           Serves(v) /\ wk'[v] = wk[v] /\ wk[v].info[1] # i[1]
  PROVE  PortInv'
<1>1. /\ io' \in [Infos -> {"none", "READ", "WRITE", "freed"}]
      /\ \A j \in Infos : io'[j] = IF j = i THEN "READ" ELSE io[j]
      /\ i[1] \in PortClients
  BY InfoPair DEF PortInv, PortType
<1>2. /\ handle' \in [PortClients -> {"none", "live", "freed"}]
      /\ \A c \in PortClients : handle'[c] = IF c = i[1] THEN "live" ELSE handle[c]
  BY DEF PortInv, PortType
<1>3. /\ i \notin InfosOf(port) /\ i \notin ops /\ InfosOf(port) \subseteq Infos
      /\ \A y \in DOMAIN port : port[y].info \in Infos /\ port[y].info \in InfosOf(port)
  BY PacketInfos DEF PortInv, PortType, PacketInv, InfosOf
<1>4. PortType'
  BY <1>1, <1>2 DEF PortInv, PortType, Serves
<1>5. PacketInv'
  <2>1. \A j \in ops' : j \notin InfosOf(port)
    BY <1>3 DEF PortInv, PacketInv
  <2>2. \A j \in ops' \cup InfosOf(port) : io'[j] \in {"READ", "WRITE"}
    BY <1>1, <1>3 DEF PortInv, PortType, PacketInv
  <2>3. \A p \in DOMAIN port : io'[port[p].info] = io[port[p].info]
    BY <1>1, <1>3
  <2> QED BY <2>1, <2>2, <2>3 DEF PortInv, PacketInv
<1>6. ChainInv'
  <2>1. ASSUME NEW j \in Infos, NEW k \in Infos, j[1] = k[1], k[2] < j[2], io'[j] # "none"
        PROVE  io'[k] \in {"WRITE", "freed"}
    <3>1. k # i
      BY <1>1, <2>1 DEF Infos
    <3> QED BY <1>1, <2>1, <3>1 DEF PortInv, ChainInv
  <2>2. ASSUME NEW j \in Infos, io'[j] = "READ" PROVE handle'[j[1]] = "live"
    BY <1>1, <1>2, <2>2, InfoPair DEF PortInv, ChainInv
  <2>3. ASSUME NEW j \in Infos, handle'[j[1]] = "none" PROVE io'[j] = "none"
    BY <1>1, <1>2, <2>3, InfoPair DEF PortInv, ChainInv
  <2> QED BY <2>1, <2>2, <2>3 DEF ChainInv
<1>7. ServeInv'
  <2>1. ASSUME NEW v \in PortWorkers, Serves(v)'
        PROVE  /\ handle'[wk'[v].info[1]] = "live" /\ wk'[v].info[2] <= MaxAsked
               /\ io'[wk'[v].info] \in {"WRITE", "freed"}
               /\ \A j \in Infos : j[1] = wk'[v].info[1] =>
                    io'[j] # "READ" /\ (j[2] > wk'[v].info[2] => io'[j] = "none")
    <3>1. PICK h : h = wk[v].info
      OBVIOUS
    <3>2. Serves(v) /\ wk'[v] = wk[v] /\ h[1] # i[1] /\ h # i /\ h \in Infos
      BY <2>1, <3>1 DEF PortInv, PortType
    <3>3. /\ handle[h[1]] = "live" /\ h[2] <= MaxAsked /\ io[h] \in {"WRITE", "freed"}
          /\ \A j \in Infos : j[1] = h[1] =>
               io[j] # "READ" /\ (j[2] > h[2] => io[j] = "none")
      BY <3>1, <3>2 DEF PortInv, ServeInv
    <3> QED BY <1>1, <1>2, <3>1, <3>2, <3>3, InfoPair
  <2>2. ASSUME NEW v \in PortWorkers, wk'[v].pc = "send"
        PROVE  io'[wk'[v].info] = "WRITE" /\ wk'[v].info \notin ops' \cup InfosOf(port)
    <3>1. Serves(v)'
      BY <2>2 DEF Serves
    <3>2. wk'[v] = wk[v] /\ wk[v].info # i /\ wk[v].info \in Infos
      BY <3>1 DEF PortInv, PortType
    <3> QED BY <1>1, <2>2, <3>2 DEF PortInv, ServeInv
  <2> QED BY <2>1, <2>2 DEF PortInv, ServeInv
<1> QED BY <1>4, <1>5, <1>6, <1>7 DEF PortInv

\* The worker posts the next receive.
LEMMA PostRecvInv ==
  ASSUME PortInv, NEW w \in PortWorkers, wk[w].pc = "recv", PostRecv(w, "wait")
  PROVE  PortInv'
<1>0. PICK h : h = wk[w].info
  OBVIOUS
<1>1. Serves(w) /\ h \in Infos /\ h[1] \in PortClients /\ h[2] \in 1 .. MaxAsked + 1
  BY <1>0, InfoPair DEF Serves, PortInv, PortType
<1>2. /\ handle[h[1]] = "live" /\ h[2] <= MaxAsked /\ io[h] \in {"WRITE", "freed"}
      /\ \A j \in Infos : j[1] = h[1] =>
                io[j] # "READ" /\ (j[2] > h[2] => io[j] = "none")
  BY <1>0, <1>1 DEF PortInv, ServeInv
<1>3. PICK i : i = <<h[1], h[2] + 1>>
  OBVIOUS
<1>4. h[2] \in Nat /\ h[2] + 1 \in 1 .. MaxAsked + 1
  BY <1>1, <1>2, PortAssumption
<1>5. i \in Infos /\ i[1] = h[1] /\ i[2] = h[2] + 1
  BY <1>1, <1>3, <1>4 DEF Infos
<1>6. /\ io' = [io EXCEPT ![i] = "READ"] /\ UNCHANGED <<accepting, asked, handle, port>>
      /\ ops' = ops \cup {i} \/ ops' = ops
      /\ \E pc \in {"wait", "ended"} : wk' = [wk EXCEPT ![w] = [pc |-> pc, info |-> h]]
  BY <1>0, <1>3 DEF PostRecv, Call, SetWk, AfterFailure
<1>7. ASSUME NEW j \in Infos, j[1] = i[1]
      PROVE  IF j[2] < i[2] THEN io[j] \in {"WRITE", "freed"} ELSE io[j] = "none"
  <2>1. j[2] \in Nat
    BY InfoPair, PortAssumption
  <2>2. CASE j[2] > h[2]
    BY <1>2, <1>4, <1>5, <1>7, <2>1, <2>2
  <2>3. CASE j[2] = h[2]
    <3>1. j = h
      BY <1>1, <1>5, <1>7, <2>3, InfoPair
    <3> QED BY <1>2, <1>4, <1>5, <3>1
  <2>4. CASE j[2] < h[2]
    <3>1. io[j] \in {"WRITE", "freed"}
      BY <1>1, <1>2, <1>5, <1>7, <2>4 DEF PortInv, ChainInv
    <3> QED BY <1>4, <1>5, <2>1, <2>4, <3>1
  <2> QED BY <1>4, <2>1, <2>2, <2>3, <2>4
<1>8. io[i] = "none" /\ accepting' \in BOOLEAN
  <2>1. i[2] > h[2]
    BY <1>4, <1>5
  <2> QED BY <1>2, <1>5, <1>6, <2>1 DEF PortInv, PortType
<1>9. handle' = [handle EXCEPT ![i[1]] = "live"]
  BY <1>1, <1>2, <1>5, <1>6 DEF PortInv, PortType
<1>10. /\ wk' \in [PortWorkers -> [pc : {"wait", "send", "recv", "ended"},
                                  info : Infos \cup {<<>>}]]
      /\ wk'[w].pc \in {"wait", "ended"}
      /\ \A v \in PortWorkers : v # w => wk'[v] = wk[v]
  BY <1>1, <1>6 DEF PortInv, PortType
<1>11. ASSUME NEW v \in PortWorkers, Serves(v)'
       PROVE  Serves(v) /\ wk'[v] = wk[v] /\ wk[v].info[1] # i[1]
  <2>1. v # w /\ Serves(v) /\ wk'[v] = wk[v]
    BY <1>10, <1>11 DEF Serves
  <2> QED BY <1>0, <1>1, <1>5, <2>1 DEF PortInv, ServeInv
<1> QED BY <1>5, <1>6, <1>7, <1>8, <1>9, <1>10, <1>11, NewReceive

\* main posts the first receive of a client.
LEMMA PortAcceptInv ==
  ASSUME PortInv, NEW c \in PortClients, PortAccept(c)
  PROVE  PortInv'
<1>1. PICK i : i = <<c, 1>>
  OBVIOUS
<1>2. i \in Infos /\ i[1] = c /\ i[2] = 1
  BY <1>1, PortAssumption DEF Infos
<1>3. /\ accepting /\ handle[c] = "none"
      /\ handle' = [handle EXCEPT ![i[1]] = "live"]
      /\ io' = [io EXCEPT ![i] = "READ"]
      /\ ops' = ops \cup {i} \/ ops' = ops
      /\ accepting' \in BOOLEAN /\ UNCHANGED <<asked, port, wk>>
  BY <1>1, <1>2 DEF PortAccept, Call, PortInv, PortType
<1>4. \A j \in Infos : j[1] = i[1] => io[j] = "none"
  BY <1>2, <1>3 DEF PortInv, ChainInv
<1>5. \A j \in Infos : ~ (j[2] < i[2])
  BY <1>2, InfoPair, PortAssumption
<1>6. \A j \in Infos : j[1] = i[1] =>
        IF j[2] < i[2] THEN io[j] \in {"WRITE", "freed"} ELSE io[j] = "none"
  BY <1>4, <1>5
<1>7. \A v \in PortWorkers : Serves(v)' =>
        Serves(v) /\ wk'[v] = wk[v] /\ wk[v].info[1] # i[1]
  BY <1>2, <1>3 DEF PortInv, ServeInv, Serves
<1>8. wk' \in [PortWorkers -> [pc : {"wait", "send", "recv", "ended"},
                                  info : Infos \cup {<<>>}]]
  BY <1>3 DEF PortInv, PortType
<1> QED BY <1>2, <1>3, <1>4, <1>6, <1>7, <1>8, NewReceive

\* Every step keeps the ioInfos in order and the handle data alive.
LEMMA PortStepInv == PortInv /\ [PortNext]_portVars => PortInv'
<1> SUFFICES ASSUME PortInv, [PortNext]_portVars PROVE PortInv'
  OBVIOUS
<1>1. ASSUME NEW c \in PortClients, PortClient(c) PROVE PortInv'
  <2>1. UNCHANGED <<accepting, handle, io, ops, port, wk>>
    BY <1>1 DEF PortClient
  <2>2. /\ asked' \in [PortClients -> 0 .. MaxAsked]
        /\ \A d \in PortClients : asked'[d] >= asked[d]
    BY <1>1, PortAssumption DEF PortClient, PortInv, PortType
  <2>3. ASSUME NEW p \in DOMAIN port, port[p].bytes # 0, io[port[p].info] = "READ"
        PROVE  asked'[port[p].info[1]] >= port[p].info[2]
    <3>1. PICK i : i = port[p].info
      OBVIOUS
    <3>2. i \in Infos /\ i[1] \in PortClients /\ i[2] \in Nat
      BY <3>1, PacketInfos, InfoPair, PortAssumption DEF PortInv, PortType
    <3>3. asked[i[1]] >= i[2] /\ asked[i[1]] \in Nat /\ asked'[i[1]] \in Nat
      BY <2>2, <2>3, <3>1, <3>2, PortAssumption DEF PortInv, PortType, PacketInv
    <3> QED BY <2>2, <3>1, <3>2, <3>3
  <2>4. PacketInv'
    BY <2>1, <2>3 DEF PortInv, PacketInv
  <2> QED BY <2>1, <2>2, <2>4 DEF PortInv, PortType, ChainInv, ServeInv, Serves
<1>2. ASSUME NEW i \in Infos, ReadDone(i) PROVE PortInv'
  <2>1. i \in ops /\ UNCHANGED <<accepting, asked, handle, io, wk>>
    BY <1>2 DEF ReadDone
  <2>2. CASE asked[i[1]] >= i[2] /\ Queue(i, 1)
    BY <2>1, <2>2, QueueInv
  <2>3. CASE Queue(i, 0)
    BY <2>1, <2>3, QueueInv
  <2> QED BY <1>2, <2>2, <2>3 DEF ReadDone
<1>3. ASSUME NEW i \in Infos, WriteDone(i) PROVE PortInv'
  BY <1>3, QueueInv DEF WriteDone
<1>4. ASSUME NEW w \in PortWorkers, TakeWrite(w) PROVE PortInv'
  BY <1>4, TakeFreedInv DEF TakeWrite
<1>5. ASSUME NEW w \in PortWorkers, TakeZero(w) PROVE PortInv'
  BY <1>5, TakeFreedInv DEF TakeZero
<1>6. ASSUME NEW w \in PortWorkers, EchoAnswer(w) PROVE PortInv'
  BY <1>6, PostSendInv, PostRecvInv DEF EchoAnswer
<1>7. CASE AcceptEnds \/ UNCHANGED portVars
  <2>1. accepting' \in BOOLEAN /\ UNCHANGED <<asked, handle, io, ops, port, wk>>
    BY <1>7 DEF AcceptEnds, portVars, PortInv, PortType
  <2>2. PortType'
    BY <2>1 DEF PortInv, PortType, Serves
  <2>3. PacketInv' /\ ChainInv'
    BY <2>1 DEF PortInv, PacketInv, ChainInv
  <2>4. ServeInv'
    BY <2>1 DEF PortInv, ServeInv, Serves
  <2> QED BY <2>2, <2>3, <2>4 DEF PortInv
<1> QED BY <1>1, <1>2, <1>3, <1>4, <1>5, <1>6, <1>7, TakeReadInv, PortAcceptInv
        DEF PortNext, PortOver

LEMMA PortInvInit == ProgramsInit => PortInv
<1> SUFFICES ASSUME ProgramsInit PROVE PortInv
  OBVIOUS
<1>1. PortInit
  BY DEF ProgramsInit
<1>2. port = <<>> /\ ops = {} /\ DOMAIN port = {} /\ InfosOf(port) = {}
  BY <1>1 DEF PortInit, InfosOf
<1>3. \A w \in PortWorkers : wk[w].pc = "wait"
  BY <1>1 DEF PortInit, Waiting
<1>4. PortType
  BY <1>1, <1>2, <1>3, PortAssumption DEF PortInit, PortType, Waiting, Serves
<1>5. PacketInv /\ ChainInv /\ ServeInv
  BY <1>1, <1>2, <1>3 DEF PortInit, PacketInv, ChainInv, ServeInv, Serves
<1> QED BY <1>4, <1>5 DEF PortInv

LEMMA PortAlways == ProgramsSpec => []PortInv
<1>1. PortInv /\ [ProgramsNext]_allVars => PortInv'
  BY OneProgram, PortStepInv
<1> QED BY <1>1, PortInvInit, ProgramsSafe, PTL

\* handleInfo outlives every receive and every worker that is about to use its
\* socket, although nobody counts who uses it.
THEOREM HandleCorrect == ProgramsSpec => []HandleOutlives
<1>1. PortInv => HandleOutlives
  <2> SUFFICES ASSUME PortInv PROVE HandleOutlives
    OBVIOUS
  <2>1. ops \cup InfosOf(port) \subseteq Infos
    BY PacketInfos DEF PortInv, PortType
  <2>2. \A i \in ops \cup InfosOf(port) :
          io[i] \in {"READ", "WRITE"} /\ (io[i] = "READ" => handle[i[1]] = "live")
    BY <2>1 DEF PortInv, PacketInv, ChainInv
  <2> QED BY <2>2 DEF PortInv, ServeInv, Serves, HandleOutlives, InfosOf
<1> QED BY <1>1, PortAlways, PTL

Sends(i) == \E w \in PortWorkers : wk[w].pc = "send" /\ wk[w].info = i

\* The message of ioInfo i may still be sent back.
Awaited(i) ==
  \/ io[i] \in {"none", "READ"}
  \/ io[i] = "WRITE" /\ (i \in ops \/ Sends(i))

\* What was sent back is in order, and before all that may still be.
OrderInv ==
  /\ echoed \in [PortClients -> Seq(Nat)]
  /\ \A c \in PortClients, m \in Nat, y \in Nat :
       m \in DOMAIN echoed[c] /\ y \in DOMAIN echoed[c] /\ m < y =>
         echoed[c][m] < echoed[c][y]
  /\ \A i \in Infos : Awaited(i) =>
       \A m \in DOMAIN echoed[i[1]] : echoed[i[1]][m] < i[2]

\* Without a failed call nothing is missing from it, and until the connection is
\* severed every message that was received is on its way or has arrived.
NoGapInv ==
  /\ gone \in [PortClients -> {"no", "closed", "reset"}]
  /\ failed \in [PortClients -> BOOLEAN]
  /\ \A c \in PortClients : ~failed[c] =>
       \A m \in DOMAIN echoed[c] : echoed[c][m] = m
  /\ \A i \in Infos :
       ~failed[i[1]] /\ ~Severed(i[1]) /\ i[2] > Len(echoed[i[1]]) =>
         /\ io[i] = "WRITE" => i \in ops \/ Sends(i)
         /\ io[i] = "freed" =>
              /\ handle[i[1]] = "freed"
              /\ \A j \in Infos : j[1] = i[1] /\ j[2] > i[2] => io[j] = "none"

EchoInv == OrderInv /\ NoGapInv

\* A step that sends nothing back.
LEMMA EchoFrame ==
  ASSUME EchoInv, UNCHANGED echoed,
         \A i \in Infos : Awaited(i)' => Awaited(i),
         gone' \in [PortClients -> {"no", "closed", "reset"}],
         failed' \in [PortClients -> BOOLEAN],
         \A c \in PortClients : failed[c] => failed'[c],
         \A c \in PortClients : Severed(c) => Severed(c)',
         \A i \in Infos :
           (~failed'[i[1]] /\ i[2] > Len(echoed[i[1]]) /\ ~Severed(i[1])) =>
             /\ io'[i] = "WRITE" => i \in ops' \/ Sends(i)'
             /\ io'[i] = "freed" =>
                  /\ handle'[i[1]] = "freed"
                  /\ \A j \in Infos : j[1] = i[1] /\ j[2] > i[2] => io'[j] = "none"
  PROVE  EchoInv'
<1>1. OrderInv'
  BY DEF EchoInv, OrderInv
<1>2. NoGapInv'
  BY InfoPair DEF EchoInv, NoGapInv
<1> QED BY <1>1, <1>2 DEF EchoInv

\* The kernel has sent a message.
LEMMA WriteDoneEcho ==
  ASSUME PortInv, EchoInv, NEW i \in Infos, WriteDone(i)
  PROVE  EchoInv'
<1>0. PICK c, k : c = i[1] /\ k = i[2]
  OBVIOUS
<1>1. /\ i \in ops /\ io[i] = "WRITE" /\ ops' = ops \ {i}
      /\ \A j \in ops : j[1] = c /\ io[j] = "WRITE" => k <= j[2]
      /\ echoed' = IF Severed(c) THEN echoed ELSE [echoed EXCEPT ![c] = Append(@, k)]
      /\ UNCHANGED <<accepting, gone, handle, io, wk, failed>>
  BY <1>0 DEF WriteDone, Queue
<1>2. c \in PortClients /\ k \in Nat /\ k > 0
  BY <1>0, InfoPair, PortAssumption
<1>3. \A j \in Infos : (Sends(j)' <=> Sends(j)) /\ (Severed(j[1])' <=> Severed(j[1]))
  BY <1>1 DEF Sends, Severed
<1>4. \A j \in Infos : Awaited(j)' => Awaited(j) /\ j # i
  BY <1>1, <1>3 DEF Awaited, PortInv, ServeInv, Sends
<1>5. CASE Severed(c)
  <2>1. UNCHANGED echoed
    BY <1>1, <1>5
  <2>2. ASSUME NEW j \in Infos, ~failed[j[1]], ~Severed(j[1]), j[2] > Len(echoed[j[1]])
        PROVE  /\ io[j] = "WRITE" => j \in ops' \/ Sends(j)'
               /\ io[j] = "freed" =>
                  /\ handle[j[1]] = "freed"
                  /\ \A l \in Infos : l[1] = j[1] /\ l[2] > j[2] => io[l] = "none"
    <3>1. j # i
      BY <1>0, <1>5, <2>2
    <3> QED BY <1>1, <1>3, <2>2, <3>1 DEF EchoInv, NoGapInv
  <2>3. /\ gone' \in [PortClients -> {"no", "closed", "reset"}]
        /\ failed' \in [PortClients -> BOOLEAN]
        /\ \A d \in PortClients : Severed(d) => Severed(d)'
    BY <1>1 DEF EchoInv, NoGapInv, Severed
  <2> QED BY <1>1, <1>4, <2>1, <2>2, <2>3, EchoFrame
<1>6. CASE ~Severed(c)
  <2> DEFINE e == echoed[c]
  <2>1. e \in Seq(Nat) /\ Len(e) \in Nat /\ DOMAIN e = 1 .. Len(e)
    BY <1>2 DEF EchoInv, OrderInv
  <2>2. \A m \in DOMAIN e : e[m] < k
    BY <1>0, <1>1 DEF EchoInv, OrderInv, Awaited
  <2>3. /\ echoed' \in [PortClients -> Seq(Nat)] /\ echoed'[c] = Append(e, k)
        /\ \A d \in PortClients : d # c => echoed'[d] = echoed[d]
    <3>1. Append(e, k) \in Seq(Nat)
      BY <1>2, <2>1
    <3> QED BY <1>1, <1>2, <1>6, <3>1 DEF EchoInv, OrderInv
  <2> HIDE DEF e
  <2>4. /\ Len(echoed'[c]) = Len(e) + 1 /\ DOMAIN echoed'[c] = 1 .. Len(e) + 1
        /\ echoed'[c][Len(e) + 1] = k /\ \A m \in 1 .. Len(e) : echoed'[c][m] = e[m]
    BY <1>2, <2>1, <2>3
  <2>5. \A m \in DOMAIN echoed'[c] : m \in Nat /\ (m = Len(e) + 1 \/ m \in DOMAIN e)
    BY <2>1, <2>4
\* i is the first of what may still be sent.
  <2>6. ASSUME NEW j \in Infos, j[1] = c, Awaited(j)' PROVE k < j[2]
    <3>1. j # i /\ Awaited(j) /\ j[2] \in Nat /\ j[2] # k
      BY <1>0, <1>4, <2>6, InfoPair, PortAssumption
    <3>2. CASE io[j] \in {"none", "READ"}
      <4>1. ~ (j[2] < k)
        BY <1>0, <1>1, <2>6, <3>2 DEF PortInv, ChainInv
      <4> QED BY <1>2, <3>1, <4>1
    <3>3. CASE io[j] = "WRITE" /\ j \in ops
      BY <1>1, <1>2, <2>6, <3>1, <3>3
    <3>4. CASE Sends(j)
      <4>1. PICK w \in PortWorkers : wk[w].pc = "send" /\ wk[w].info = j
        BY <3>4 DEF Sends
      <4>2. ~ (k > j[2])
        BY <1>0, <1>1, <2>6, <4>1 DEF PortInv, ServeInv, Serves
      <4> QED BY <1>2, <3>1, <4>2
    <3> QED BY <3>1, <3>2, <3>3, <3>4 DEF Awaited
  <2>7. OrderInv'
    <3>1. ASSUME NEW d \in PortClients, NEW m \in Nat, NEW y \in Nat,
                 m \in DOMAIN echoed'[d], y \in DOMAIN echoed'[d], m < y
          PROVE  echoed'[d][m] < echoed'[d][y]
      <4>1. CASE d # c
        BY <2>3, <3>1, <4>1 DEF EchoInv, OrderInv
      <4>2. CASE d = c
        <5>1. m \in DOMAIN e /\ echoed'[c][m] = e[m]
          BY <2>1, <2>4, <3>1, <4>2
        <5>2. CASE y = Len(e) + 1
          BY <2>2, <2>4, <4>2, <5>1, <5>2
        <5>3. CASE y \in DOMAIN e
          BY <1>2, <2>1, <2>4, <3>1, <4>2, <5>1, <5>3 DEF EchoInv, OrderInv, e
        <5> QED BY <2>5, <3>1, <4>2, <5>2, <5>3
      <4> QED BY <4>1, <4>2
    <3>2. ASSUME NEW j \in Infos, Awaited(j)', NEW m \in DOMAIN echoed'[j[1]]
          PROVE  echoed'[j[1]][m] < j[2]
      <4>1. CASE j[1] # c
        BY <1>4, <2>3, <3>2, <4>1, InfoPair DEF EchoInv, OrderInv
      <4>2. CASE j[1] = c
        <5>1. k < j[2] /\ Awaited(j)
          BY <1>4, <2>6, <3>2, <4>2
        <5>2. CASE m = Len(e) + 1
          BY <2>4, <4>2, <5>1, <5>2
        <5>3. CASE m \in DOMAIN e
          <6>1. echoed'[c][m] = e[m] /\ e[m] < j[2]
            BY <2>1, <2>4, <4>2, <5>1, <5>3 DEF EchoInv, OrderInv, e
          <6> QED BY <4>2, <6>1
        <5> QED BY <2>5, <3>2, <4>2, <5>2, <5>3
      <4> QED BY <4>1, <4>2
    <3> QED BY <2>3, <3>1, <3>2 DEF OrderInv
\* Nothing was left out before it.
  <2>8. ~failed[c] => k = Len(e) + 1
    <3> SUFFICES ASSUME ~failed[c], k # Len(e) + 1 PROVE FALSE
      OBVIOUS
    <3>1. k > Len(e)
      <4>1. CASE Len(e) = 0
        BY <1>2, <4>1
      <4>2. CASE Len(e) # 0
        <5>1. Len(e) \in DOMAIN e /\ e[Len(e)] = Len(e)
          BY <1>2, <2>1, <4>2 DEF EchoInv, NoGapInv, e
        <5> QED BY <1>2, <2>1, <2>2, <5>1
      <4> QED BY <4>1, <4>2
    <3>2. k > Len(e) + 1 /\ Len(e) + 1 \in 1 .. MaxAsked + 1
      <4>1. k \in 1 .. MaxAsked + 1
        BY <1>0, InfoPair
      <4> QED BY <1>2, <2>1, <3>1, <4>1, PortAssumption
    <3>3. PICK j \in Infos : j[1] = c /\ j[2] = Len(e) + 1
      <4>1. PICK y : y = Len(e) + 1
        OBVIOUS
      <4>2. <<c, y>> \in Infos /\ <<c, y>>[1] = c /\ <<c, y>>[2] = y
        BY <1>2, <3>2, <4>1, InfoPair
      <4> QED BY <4>1, <4>2
    <3>4. j[2] < k /\ j[2] > Len(e) /\ io[j] \in {"WRITE", "freed"}
      <4>1. j[2] < k /\ j[2] > Len(e)
        BY <1>2, <2>1, <3>2, <3>3
      <4> QED BY <1>0, <1>1, <3>3, <4>1 DEF PortInv, ChainInv
    <3>5. /\ io[j] = "WRITE" => j \in ops \/ Sends(j)
          /\ io[j] = "freed" => \A l \in Infos : l[1] = c /\ l[2] > j[2] => io[l] = "none"
      BY <1>6, <3>3, <3>4 DEF EchoInv, NoGapInv, e
    <3>6. io[j] # "freed"
      <4>1. k > j[2]
        BY <1>2, <2>1, <3>2, <3>3
      <4> QED BY <1>0, <1>1, <3>5, <4>1
    <3>7. ~ Sends(j)
      <4> SUFFICES ASSUME NEW w \in PortWorkers, wk[w].pc = "send", wk[w].info = j
                   PROVE  FALSE
        BY DEF Sends
      <4>1. k > j[2]
        BY <1>2, <2>1, <3>2, <3>3
      <4> QED BY <1>0, <1>1, <3>3, <4>1 DEF PortInv, ServeInv, Serves
    <3>8. j \in ops /\ io[j] = "WRITE"
      BY <3>4, <3>5, <3>6, <3>7
    <3> QED BY <1>1, <1>2, <2>1, <3>2, <3>3, <3>8
  <2>9. NoGapInv'
    <3>1. ASSUME NEW d \in PortClients, ~failed[d], NEW m \in DOMAIN echoed'[d]
          PROVE  echoed'[d][m] = m
      <4>1. CASE d # c
        BY <2>3, <3>1, <4>1 DEF EchoInv, NoGapInv
      <4>2. CASE d = c /\ m = Len(e) + 1
        BY <2>4, <2>8, <3>1, <4>2
      <4>3. CASE d = c /\ m \in DOMAIN e
        BY <1>2, <2>1, <2>4, <3>1, <4>3 DEF EchoInv, NoGapInv, e
      <4> QED BY <2>5, <3>1, <4>1, <4>2, <4>3
    <3>2. ASSUME NEW j \in Infos, ~failed[j[1]], ~Severed(j[1]),
                 j[2] > Len(echoed'[j[1]])
          PROVE  j[2] > Len(echoed[j[1]]) /\ j # i
      <4>1. CASE j[1] # c
        BY <1>0, <2>3, <3>2, <4>1, InfoPair
      <4>2. CASE j[1] = c
        <5>1. j[2] \in Nat /\ j[2] > Len(e) + 1 /\ k = Len(e) + 1
          BY <2>4, <2>8, <3>2, <4>2, InfoPair, PortAssumption
        <5>2. j[2] > Len(e) /\ j[2] # k
          BY <2>1, <5>1
        <5> QED BY <1>0, <4>2, <5>2 DEF e
      <4> QED BY <4>1, <4>2
    <3>3. ASSUME NEW j \in Infos, ~failed[j[1]], ~Severed(j[1]),
                 j[2] > Len(echoed'[j[1]])
          PROVE  /\ io[j] = "WRITE" => j \in ops' \/ Sends(j)'
                 /\ io[j] = "freed" =>
                    /\ handle[j[1]] = "freed"
                    /\ \A l \in Infos : l[1] = j[1] /\ l[2] > j[2] => io[l] = "none"
      BY <1>1, <1>3, <3>2, <3>3 DEF EchoInv, NoGapInv
    <3> QED BY <1>1, <1>3, <3>1, <3>3 DEF EchoInv, NoGapInv
  <2> QED BY <2>7, <2>9 DEF EchoInv
<1> QED BY <1>5, <1>6

\* Every step keeps the order.
LEMMA EchoStepInv == PortInv /\ EchoInv /\ [PortNext]_portVars => EchoInv'
<1> SUFFICES ASSUME PortInv, EchoInv, [PortNext]_portVars PROVE EchoInv'
  OBVIOUS
<1>0. /\ gone \in [PortClients -> {"no", "closed", "reset"}]
      /\ failed \in [PortClients -> BOOLEAN]
      /\ io \in [Infos -> {"none", "READ", "WRITE", "freed"}]
  BY DEF EchoInv, NoGapInv, PortInv, PortType
<1> DEFINE Gap(i) == /\ ~failed[i[1]] /\ ~Severed(i[1])
                     /\ i[2] > Len(echoed[i[1]])
<1>a. \A i \in Infos : Gap(i) =>
        /\ io[i] = "WRITE" => i \in ops \/ Sends(i)
        /\ io[i] = "freed" =>
             /\ handle[i[1]] = "freed"
             /\ \A j \in Infos : j[1] = i[1] /\ j[2] > i[2] => io[j] = "none"
  BY DEF EchoInv, NoGapInv
<1>1. ASSUME NEW c \in PortClients, PortClient(c) PROVE EchoInv'
  <2>1. /\ UNCHANGED <<accepting, echoed, handle, io, ops, wk, failed>>
        /\ gone[c] = "no"
        /\ gone' = gone \/ \E how \in {"closed", "reset"} : gone' = [gone EXCEPT ![c] = how]
    BY <1>1 DEF PortClient
  <2>2. /\ gone' \in [PortClients -> {"no", "closed", "reset"}]
        /\ \A d \in PortClients : Severed(d) => Severed(d)'
    BY <1>0, <2>1 DEF Severed
  <2>3. \A i \in Infos : (Sends(i)' <=> Sends(i)) /\ (Awaited(i)' => Awaited(i))
    BY <2>1 DEF Sends, Awaited
  <2> QED BY <1>0, <1>a, <2>1, <2>2, <2>3, EchoFrame
<1>2. ASSUME NEW c \in PortClients, PortAccept(c) PROVE EchoInv'
  <2>0. PICK h : h = <<c, 1>>
    OBVIOUS
  <2>1. /\ UNCHANGED <<echoed, gone, wk>> /\ handle[c] = "none"
        /\ handle' = [handle EXCEPT ![c] = "live"]
        /\ io' = [io EXCEPT ![h] = "READ"]
        /\ \/ UNCHANGED <<accepting, failed>> /\ ops' = ops \cup {h}
           \/ accepting /\ ops' = ops /\ failed' = [failed EXCEPT ![h[1]] = TRUE]
    BY <1>2, <2>0 DEF PortAccept, Call
  <2>2. h \in Infos /\ h[1] = c
    BY <2>0, PortAssumption DEF Infos
  <2>3. \A i \in Infos : /\ i[1] \in PortClients /\ (i[1] = c => io[i] = "none")
                         /\ io'[i] = IF i = h THEN "READ" ELSE io[i]
                         /\ handle'[i[1]] = IF i[1] = c THEN "live" ELSE handle[i[1]]
    BY <1>0, <2>1, <2>2, InfoPair DEF PortInv, PortType, ChainInv
  <2>4. /\ failed' \in [PortClients -> BOOLEAN]
        /\ \A d \in PortClients : failed[d] => failed'[d]
        /\ \A d \in PortClients : Severed(d) => Severed(d)'
    <3>1. \A d \in PortClients : Severed(d) => Severed(d)'
      BY <2>1 DEF Severed
    <3>2. failed' = failed \/ failed' = [failed EXCEPT ![c] = TRUE]
      BY <2>1, <2>2
    <3> QED BY <1>0, <3>1, <3>2
  <2>5. \A i \in Infos : (Sends(i)' <=> Sends(i)) /\ (Awaited(i)' => Awaited(i))
    BY <2>1, <2>2, <2>3 DEF Sends, Awaited
  <2>6. ASSUME NEW i \in Infos, ~failed'[i[1]], ~Severed(i[1]), i[2] > Len(echoed[i[1]])
        PROVE  /\ io'[i] = "WRITE" => i \in ops' \/ Sends(i)'
               /\ io'[i] = "freed" =>
                  /\ handle'[i[1]] = "freed"
                  /\ \A j \in Infos : j[1] = i[1] /\ j[2] > i[2] => io'[j] = "none"
    <3>1. Gap(i)
      BY <2>3, <2>4, <2>6
    <3> QED BY <1>a, <2>1, <2>2, <2>3, <2>5, <3>1
  <2> QED BY <1>0, <2>1, <2>4, <2>5, <2>6, EchoFrame
<1>3. ASSUME NEW h \in Infos, ReadDone(h) PROVE EchoInv'
  <2>1. /\ io[h] = "READ" /\ ops' = ops \ {h}
        /\ UNCHANGED <<accepting, gone, echoed, handle, io, wk, failed>>
    BY <1>3 DEF ReadDone, Queue
  <2>2. \A i \in Infos : (Sends(i)' <=> Sends(i)) /\ (Awaited(i)' => Awaited(i))
    BY <2>1 DEF Sends, Awaited
  <2>3. \A d \in PortClients : Severed(d) => Severed(d)'
    BY <2>1 DEF Severed
  <2> QED BY <1>0, <1>a, <2>1, <2>2, <2>3, EchoFrame
<1>4. ASSUME NEW w \in PortWorkers, TakeWrite(w) \/ TakeZero(w) PROVE EchoInv'
  <2>0. PICK h : h = Head(port).info
    OBVIOUS
  <2>1. /\ UNCHANGED <<accepting, gone, echoed, ops, wk, failed>> /\ port # <<>>
        /\ io' = [io EXCEPT ![h] = "freed"]
        /\ \/ io[h] = "WRITE" /\ UNCHANGED handle
           \/ io[h] = "READ" /\ handle' = [handle EXCEPT ![h[1]] = "freed"]
    BY <1>4, <2>0 DEF TakeWrite, TakeZero
  <2>2. h \in InfosOf(port) /\ h \in Infos /\ h \notin ops
    <3>1. h \in InfosOf(port) /\ InfosOf(port) \subseteq Infos
      BY <2>0, <2>1, PacketTaken, PacketInfos DEF PortInv, PortType, PacketInv
    <3> QED BY <3>1 DEF PortInv, PacketInv
  <2>3. ~Sends(h)
    BY <2>2 DEF Sends, PortInv, ServeInv
  <2>4. \A i \in Infos : /\ i[1] \in PortClients
                         /\ io'[i] = IF i = h THEN "freed" ELSE io[i]
                         /\ handle'[i[1]] = handle[i[1]] \/ handle'[i[1]] = "freed"
    BY <1>0, <2>1, <2>2, InfoPair DEF PortInv, PortType
  <2>5. \A i \in Infos : (Sends(i)' <=> Sends(i)) /\ (Awaited(i)' => Awaited(i))
    BY <2>1, <2>4 DEF Sends, Awaited
  <2>6. \A d \in PortClients : Severed(d) => Severed(d)'
    BY <2>1 DEF Severed
  <2>7. ASSUME NEW i \in Infos, Gap(i)
        PROVE  /\ io'[i] = "WRITE" => i \in ops' \/ Sends(i)'
               /\ io'[i] = "freed" =>
                  /\ handle'[i[1]] = "freed"
                  /\ \A j \in Infos : j[1] = i[1] /\ j[2] > i[2] => io'[j] = "none"
    <3>1. CASE i # h
      BY <1>a, <2>1, <2>2, <2>4, <2>5, <2>7, <3>1
    <3>2. CASE i = h /\ io[h] = "WRITE"
      BY <1>a, <2>2, <2>3, <2>7, <3>2
    <3>3. CASE i = h /\ io[h] = "READ"
      <4>1. handle'[i[1]] = "freed"
        BY <2>1, <2>4, <3>3 DEF PortInv, PortType
      <4>2. ASSUME NEW j \in Infos, j[1] = i[1], j[2] > i[2] PROVE io'[j] = "none"
        <5>1. i[2] < j[2] /\ j # i
          BY <4>2, InfoPair, PortAssumption
        <5>2. io[j] = "none"
          BY <3>3, <4>2, <5>1 DEF PortInv, ChainInv
        <5> QED BY <2>4, <3>3, <5>1, <5>2
      <4> QED BY <2>4, <3>3, <4>1, <4>2
    <3> QED BY <2>1, <3>1, <3>2, <3>3
  <2> HIDE DEF Gap
  <2>8. \A i \in Infos :
           (~failed'[i[1]] /\ i[2] > Len(echoed[i[1]]) /\ ~Severed(i[1])) => Gap(i)
    BY <2>1 DEF Gap
  <2> QED BY <1>0, <2>1, <2>5, <2>6, <2>7, <2>8, EchoFrame
<1>5. ASSUME NEW w \in PortWorkers, TakeRead(w) PROVE EchoInv'
  <2>0. PICK h : h = Head(port).info
    OBVIOUS
  <2>1. /\ UNCHANGED <<accepting, gone, echoed, handle, ops, failed>>
        /\ wk[w].pc = "wait" /\ io[h] = "READ" /\ port # <<>>
        /\ io' = [io EXCEPT ![h] = "WRITE"]
        /\ wk' = [wk EXCEPT ![w] = [pc |-> "send", info |-> h]]
    BY <1>5, <2>0 DEF TakeRead, SetWk
  <2>2. h \in Infos
    BY <2>0, <2>1, PacketTaken, PacketInfos DEF PortInv, PortType, PacketInv
  <2>3. \A i \in Infos : io'[i] = IF i = h THEN "WRITE" ELSE io[i]
    BY <1>0, <2>1, <2>2
  <2>4. \A i \in Infos : Sends(i)' <=> Sends(i) \/ i = h
    BY <2>1 DEF Sends, PortInv, PortType
  <2>5. \A i \in Infos : Awaited(i)' => Awaited(i)
    BY <2>1, <2>3, <2>4 DEF Awaited
  <2>6. \A d \in PortClients : Severed(d) => Severed(d)'
    BY <2>1 DEF Severed
  <2> QED BY <1>0, <1>a, <2>1, <2>3, <2>4, <2>5, <2>6, EchoFrame
<1>6. ASSUME NEW w \in PortWorkers, wk[w].pc = "send", PostSend(w, "recv")
      PROVE  EchoInv'
  <2>0. PICK h : h = wk[w].info
    OBVIOUS
  <2>1. /\ UNCHANGED <<accepting, gone, echoed, handle, io>>
        /\ \E pc \in {"recv", "ended"} : wk' = [wk EXCEPT ![w] = [pc |-> pc, info |-> h]]
        /\ \/ ops' = ops \cup {h} /\ UNCHANGED failed
           \/ ops' = ops /\ failed' = [failed EXCEPT ![h[1]] = TRUE]
    BY <1>6, <2>0 DEF PostSend, Call, SetWk
  <2>2. h \in Infos /\ h[1] \in PortClients /\ io[h] = "WRITE" /\ Sends(h)
    BY <1>6, <2>0, InfoPair DEF PortInv, PortType, ServeInv, Serves, Sends
  <2>3. \A i \in Infos : /\ Sends(i)' => Sends(i)
                         /\ Sends(i) => Sends(i)' \/ i = h
    BY <2>0, <2>1 DEF Sends, PortInv, PortType
  <2>4. \A i \in Infos : Awaited(i)' => Awaited(i)
    BY <2>1, <2>2, <2>3 DEF Awaited
  <2>5. /\ failed' \in [PortClients -> BOOLEAN]
        /\ \A d \in PortClients : failed[d] => failed'[d]
        /\ \A d \in PortClients : Severed(d) => Severed(d)'
        /\ ops' = ops \cup {h} \/ failed'[h[1]]
    BY <1>0, <2>1, <2>2 DEF Severed
  <2>6. ASSUME NEW i \in Infos, ~failed'[i[1]], ~Severed(i[1]), i[2] > Len(echoed[i[1]])
        PROVE  /\ io'[i] = "WRITE" => i \in ops' \/ Sends(i)'
               /\ io'[i] = "freed" =>
                  /\ handle'[i[1]] = "freed"
                  /\ \A j \in Infos : j[1] = i[1] /\ j[2] > i[2] => io'[j] = "none"
    <3>1. Gap(i)
      BY <2>5, <2>6, InfoPair
    <3> QED BY <1>a, <2>1, <2>3, <2>5, <2>6, <3>1
  <2> QED BY <1>0, <2>1, <2>4, <2>5, <2>6, EchoFrame
<1>7. ASSUME NEW w \in PortWorkers, wk[w].pc = "recv", PostRecv(w, "wait")
      PROVE  EchoInv'
  <2>0. PICK g, h : g = wk[w].info /\ h = <<g[1], g[2] + 1>>
    OBVIOUS
  <2>1. /\ UNCHANGED <<accepting, gone, echoed, handle>>
        /\ io' = [io EXCEPT ![h] = "READ"]
        /\ \E pc \in {"wait", "ended"} : wk' = [wk EXCEPT ![w] = [pc |-> pc, info |-> g]]
        /\ \/ ops' = ops \cup {h} /\ UNCHANGED failed
           \/ ops' = ops /\ failed' = [failed EXCEPT ![h[1]] = TRUE]
    BY <1>7, <2>0 DEF PostRecv, Call, SetWk, AfterFailure
  <2>2. /\ Serves(w) /\ g \in Infos /\ g[1] \in PortClients /\ g[2] \in Nat
        /\ handle[g[1]] = "live" /\ g[2] <= MaxAsked
        /\ \A j \in Infos : j[1] = g[1] /\ j[2] > g[2] => io[j] = "none"
    <3>1. Serves(w) /\ g \in Infos
      BY <1>7, <2>0 DEF PortInv, PortType, Serves
    <3> QED BY <2>0, <3>1, InfoPair, PortAssumption DEF PortInv, ServeInv
  <2>3. h \in Infos /\ h[1] = g[1] /\ io[h] = "none"
    <3>1. g[2] + 1 \in 1 .. MaxAsked + 1 /\ g[2] + 1 > g[2]
      BY <2>2, PortAssumption
    <3>2. h \in Infos /\ h[1] = g[1] /\ h[2] = g[2] + 1
      BY <2>0, <2>2, <3>1 DEF Infos
    <3> QED BY <2>2, <3>1, <3>2
  <2>4. \A i \in Infos : io'[i] = IF i = h THEN "READ" ELSE io[i]
    BY <1>0, <2>1, <2>3
  <2>5. \A i \in Infos : Sends(i)' <=> Sends(i)
    BY <1>7, <2>1 DEF Sends, PortInv, PortType
  <2>6. \A i \in Infos : Awaited(i)' => Awaited(i)
    BY <2>1, <2>3, <2>4, <2>5 DEF Awaited
  <2>7. /\ failed' \in [PortClients -> BOOLEAN]
        /\ \A d \in PortClients : failed[d] => failed'[d]
        /\ \A d \in PortClients : Severed(d) => Severed(d)'
    BY <1>0, <2>1, <2>2, <2>3 DEF Severed
  <2>8. ASSUME NEW i \in Infos, ~failed'[i[1]], ~Severed(i[1]), i[2] > Len(echoed[i[1]])
        PROVE  /\ io'[i] = "WRITE" => i \in ops' \/ Sends(i)'
               /\ io'[i] = "freed" =>
                  /\ handle'[i[1]] = "freed"
                  /\ \A j \in Infos : j[1] = i[1] /\ j[2] > i[2] => io'[j] = "none"
    <3>1. Gap(i)
      BY <2>7, <2>8, InfoPair
    <3> QED BY <1>a, <2>1, <2>2, <2>3, <2>4, <2>5, <3>1
  <2> QED BY <1>0, <2>1, <2>6, <2>7, <2>8, EchoFrame
<1>8. CASE AcceptEnds \/ UNCHANGED portVars
  <2>1. /\ UNCHANGED <<gone, echoed, handle, io, ops, wk, failed>>
        /\ accepting' => accepting
    BY <1>8 DEF AcceptEnds, portVars
  <2>2. \A i \in Infos : (Sends(i)' <=> Sends(i)) /\ (Awaited(i)' => Awaited(i))
    BY <2>1 DEF Sends, Awaited
  <2>3. \A d \in PortClients : Severed(d) => Severed(d)'
    BY <2>1 DEF Severed
  <2> QED BY <1>0, <1>a, <2>1, <2>2, <2>3, EchoFrame
<1> QED BY <1>1, <1>2, <1>3, <1>4, <1>5, <1>6, <1>7, <1>8, WriteDoneEcho
        DEF PortNext, PortOver, EchoAnswer

\* Whichever workers take the packets of a client, its messages come back in the
\* order in which they were sent, and none is missing unless a call failed.
THEOREM EchoOrderCorrect == ProgramsSpec => []EchoInOrder
<1>1. ProgramsInit => EchoInv
  <2> SUFFICES ASSUME ProgramsInit PROVE EchoInv
    OBVIOUS
  <2>1. PortInit
    BY DEF ProgramsInit
  <2>2. /\ echoed \in [PortClients -> Seq(Nat)]
        /\ \A c \in PortClients : DOMAIN echoed[c] = {}
    BY <2>1 DEF PortInit
  <2>3. OrderInv
    BY <2>2, InfoPair DEF OrderInv
  <2>4. NoGapInv
    BY <2>1 DEF PortInit, NoGapInv
  <2> QED BY <2>3, <2>4 DEF EchoInv
<1>2. PortInv /\ EchoInv /\ [ProgramsNext]_allVars => EchoInv'
  BY OneProgram, EchoStepInv
<1>3. EchoInv => EchoInOrder
  <2> SUFFICES ASSUME EchoInv, NEW c \in PortClients, NEW i \in DOMAIN echoed[c]
               PROVE  /\ failed[c] \/ echoed[c][i] = i
                      /\ i > 1 => echoed[c][i - 1] < echoed[c][i]
    BY DEF EchoInOrder
  <2>1. failed[c] \/ echoed[c][i] = i
    BY DEF EchoInv, NoGapInv
  <2>2. ASSUME i > 1 PROVE echoed[c][i - 1] < echoed[c][i]
    <3>1. /\ i \in Nat /\ i - 1 \in Nat /\ i - 1 < i
          /\ i \in DOMAIN echoed[c] /\ i - 1 \in DOMAIN echoed[c]
      BY <2>2 DEF EchoInv, OrderInv
    <3> QED BY <3>1 DEF EchoInv, OrderInv
  <2> QED BY <2>1, <2>2
<1> QED BY <1>1, <1>2, <1>3, PortAlways, ProgramsSafe, PTL

-----------------------------------------------------------------------------
(* AsynNotiEcho *)

NetworkEvents == {"accept", "read", "write", "close", "error"}
Distinct(q) == \A i, j \in DOMAIN q : q[i] = q[j] => i = j

\* What follows when an entry is taken out of one of the arrays.
LEMMA Compressed ==
  ASSUME NEW S, NEW q \in Seq(S), NEW k \in 1 .. Len(q), Distinct(q)
  PROVE  /\ RemoveAt(q, k) \in Seq(S)
         /\ ToSet(RemoveAt(q, k)) = ToSet(q) \ {q[k]}
         /\ Distinct(RemoveAt(q, k))
<1> DEFINE len == Len(q)
           a == SubSeq(q, 1, k - 1)
           b == SubSeq(q, k + 1, len)
           r == RemoveAt(q, k)
<1>1. len \in Nat /\ k \in Nat /\ 1 <= k /\ k <= len /\ DOMAIN q = 1 .. len
  OBVIOUS
<1>2. /\ a \in Seq(S) /\ Len(a) = k - 1
      /\ \A m \in 1 .. k - 1 : a[m] = q[m]
  BY <1>1
<1>3. /\ b \in Seq(S) /\ Len(b) = len - k
      /\ \A m \in 1 .. len - k : b[m] = q[k + m]
  <2>1. k + 1 \in Int /\ len \in Int /\ \A m \in (k + 1) .. len : q[m] \in S
    BY <1>1
  <2>2. /\ b \in Seq(S) /\ Len(b) = IF k + 1 <= len THEN len - (k + 1) + 1 ELSE 0
        /\ \A m \in 1 .. len - (k + 1) + 1 : b[m] = q[(k + 1) + m - 1]
    <3> HIDE DEF len
    <3> QED BY <2>1, SubSeqProperties
  <2>3. len - (k + 1) + 1 = len - k /\ \A m \in 1 .. len - k : (k + 1) + m - 1 = k + m
    BY <1>1
  <2> HIDE DEF len, b
  <2> QED BY <1>1, <2>2, <2>3
<1> HIDE DEF len, a, b
<1>4. /\ r = a \o b
  BY DEF RemoveAt, a, b, len
<1>5. /\ r \in Seq(S) /\ Len(r) = len - 1 /\ DOMAIN r = 1 .. len - 1
      /\ \A m \in 1 .. len - 1 : r[m] = IF m < k THEN a[m] ELSE b[m - (k - 1)]
  <2> HIDE DEF r
  <2>1. /\ r \in Seq(S) /\ Len(r) = Len(a) + Len(b)
        /\ \A m \in 1 .. Len(a) + Len(b) :
             r[m] = IF m <= Len(a) THEN a[m] ELSE b[m - Len(a)]
    BY <1>2, <1>3, <1>4, ConcatProperties
  <2>2. Len(a) + Len(b) = len - 1 /\ \A m \in 1 .. len - 1 : m <= Len(a) <=> m < k
    BY <1>1, <1>2, <1>3
  <2>3. DOMAIN r = 1 .. Len(r)
    BY <2>1, LenProperties
  <2> QED BY <1>2, <2>1, <2>2, <2>3
<1> HIDE DEF r
<1>6. \A m \in 1 .. len - 1 : r[m] = IF m < k THEN q[m] ELSE q[m + 1]
  <2> SUFFICES ASSUME NEW m \in 1 .. len - 1 PROVE r[m] = IF m < k THEN q[m] ELSE q[m + 1]
    OBVIOUS
  <2>1. CASE m < k
    BY <1>1, <1>2, <1>5, <2>1
  <2>2. CASE ~(m < k)
    <3>1. m - (k - 1) \in 1 .. len - k /\ k + (m - (k - 1)) = m + 1
      BY <1>1, <2>2
    <3> QED BY <1>3, <1>5, <2>2, <3>1
  <2> QED BY <2>1, <2>2
<1>7. \A m \in DOMAIN r :
        \E l \in DOMAIN q : l # k /\ r[m] = q[l] /\ l = (IF m < k THEN m ELSE m + 1)
  BY <1>1, <1>5, <1>6
<1>8. \A l \in DOMAIN q : l # k => \E m \in DOMAIN r : r[m] = q[l]
  <2> SUFFICES ASSUME NEW l \in DOMAIN q, l # k PROVE \E m \in DOMAIN r : r[m] = q[l]
    OBVIOUS
  <2>1. CASE l < k
    BY <1>1, <1>5, <1>6, <2>1
  <2>2. CASE l > k
    <3>1. l - 1 \in DOMAIN r /\ ~(l - 1 < k) /\ (l - 1) + 1 = l
      BY <1>1, <1>5, <2>2
    <3> QED BY <1>5, <1>6, <3>1
  <2> QED BY <1>1, <2>1, <2>2
<1>9. ToSet(r) = ToSet(q) \ {q[k]}
  <2>1. ASSUME NEW m \in DOMAIN r PROVE r[m] \in ToSet(q) \ {q[k]}
    BY <1>1, <1>7 DEF ToSet, Distinct
  <2>2. ASSUME NEW l \in DOMAIN q, q[l] # q[k] PROVE q[l] \in ToSet(r)
    BY <1>8, <2>2 DEF ToSet
  <2> QED BY <2>1, <2>2 DEF ToSet
<1>10. Distinct(r)
  <2> SUFFICES ASSUME NEW i \in DOMAIN r, NEW j \in DOMAIN r, r[i] = r[j] PROVE i = j
    BY DEF Distinct
  <2>1. (IF i < k THEN i ELSE i + 1) = (IF j < k THEN j ELSE j + 1)
    BY <1>7 DEF Distinct
  <2> QED BY <1>1, <1>5, <2>1
<1> QED BY <1>5, <1>9, <1>10 DEF r

\* A socket that is not in the array is put at its end.
LEMMA Appended ==
  ASSUME NEW S, NEW q \in Seq(S), NEW x \in S, x \notin ToSet(q), Distinct(q)
  PROVE  /\ Append(q, x) \in Seq(S)
         /\ ToSet(Append(q, x)) = ToSet(q) \cup {x}
         /\ Distinct(Append(q, x))
<1> DEFINE a == Append(q, x)
<1>1. /\ a \in Seq(S) /\ a[Len(q) + 1] = x
      /\ \A m \in 1 .. Len(q) : a[m] = q[m]
      /\ DOMAIN q = 1 .. Len(q) /\ DOMAIN a = 1 .. Len(q) + 1 /\ Len(q) \in Nat
  OBVIOUS
<1> HIDE DEF a
<1>2. \A m \in DOMAIN a : m = Len(q) + 1 \/ m \in DOMAIN q
  BY <1>1
<1>3. \A m \in DOMAIN q : m \in DOMAIN a /\ a[m] = q[m] /\ q[m] # x
  BY <1>1 DEF ToSet
<1>4. Len(q) + 1 \in DOMAIN a
  BY <1>1
<1>5. ToSet(a) = ToSet(q) \cup {x}
  BY <1>1, <1>2, <1>3, <1>4 DEF ToSet
<1>6. Distinct(a)
  BY <1>1, <1>2, <1>3 DEF Distinct
<1> QED BY <1>1, <1>5, <1>6 DEF a

\* The first client is taken from the backlog.
LEMMA Taken ==
  ASSUME NEW S, NEW q \in Seq(S), q # <<>>, Distinct(q)
  PROVE  /\ Tail(q) \in Seq(S) /\ Head(q) \in S /\ Head(q) \in ToSet(q)
         /\ ToSet(Tail(q)) = ToSet(q) \ {Head(q)} /\ Distinct(Tail(q))
<1> DEFINE t == Tail(q)
<1>1. /\ t \in Seq(S) /\ Len(t) = Len(q) - 1 /\ Head(q) = q[1]
      /\ \A m \in 1 .. Len(q) - 1 : t[m] = q[m + 1]
      /\ DOMAIN q = 1 .. Len(q) /\ DOMAIN t = 1 .. Len(q) - 1
      /\ Len(q) \in Nat /\ Len(q) > 0
  OBVIOUS
<1>2. 1 \in DOMAIN q /\ Head(q) \in S
  BY <1>1
<1> HIDE DEF t
<1>3. \A m \in DOMAIN t : m + 1 \in DOMAIN q /\ m + 1 # 1 /\ t[m] = q[m + 1]
  BY <1>1
<1>4. \A m \in DOMAIN q : m = 1 \/ (m - 1 \in DOMAIN t /\ t[m - 1] = q[m])
  BY <1>1
<1>5. ToSet(t) = ToSet(q) \ {Head(q)}
  <2>1. ASSUME NEW m \in DOMAIN t PROVE t[m] \in ToSet(q) \ {Head(q)}
    BY <1>1, <1>2, <1>3 DEF ToSet, Distinct
  <2>2. ASSUME NEW m \in DOMAIN q, q[m] # Head(q) PROVE q[m] \in ToSet(t)
    BY <1>1, <1>4, <2>2 DEF ToSet
  <2> QED BY <2>1, <2>2 DEF ToSet
<1>6. Distinct(t)
  <2> SUFFICES ASSUME NEW m \in DOMAIN t, NEW y \in DOMAIN t, t[m] = t[y]
               PROVE  m = y
    BY DEF Distinct
  <2>1. m + 1 = y + 1
    BY <1>3 DEF Distinct
  <2> QED BY <1>1, <2>1
<1> QED BY <1>1, <1>2, <1>5, <1>6 DEF t, ToSet

Fates == {"new", "open", "closed", "aborted", "freed"}

\* The arrays, as the property has them but also when they overrun.
EntriesInv ==
  /\ hSockArr \in Seq(Sockets) /\ hEventArr = hSockArr /\ Distinct(hSockArr)
  /\ ToSet(hSockArr) = {Listener} \cup {c \in Live : Accepted(c)}

\* A client waits in the backlog once, and only before it is accepted.
BacklogInv ==
  /\ fate \in [EventClients -> Fates]
  /\ backlog \in Seq(EventClients) /\ Distinct(backlog)
  /\ \A c \in ToSet(backlog) : fate[c] \in {"open", "closed"}

\* The listener reports accepts only, and only while there are some; the loop looks
\* at entries of the arrays.
ReportInv ==
  /\ lnet \in [Sockets -> SUBSET NetworkEvents]
  /\ lnet[Listener] \subseteq {"accept"}
  /\ lnet[Listener] # {} => backlog # <<>>
  /\ idx \in Nat /\ (step = "loop" => idx >= 1)

EventInv == EntriesInv /\ BacklogInv /\ ReportInv

\* A step that leaves the entries and the clients as they are.
LEMMA EventFrame ==
  ASSUME EventInv, UNCHANGED <<hSockArr, hEventArr, backlog, fate>>, ReportInv'
  PROVE  EventInv'
BY DEF EventInv, EntriesInv, BacklogInv, Live, Accepted

\* An event is recorded for a client.
LEMMA ReportClient ==
  ASSUME ReportInv, NEW s \in EventClients, NEW new \in SUBSET NetworkEvents,
         lnet' = [lnet EXCEPT ![s] = new], backlog # <<>> => backlog' # <<>>,
         idx' \in Nat, step' = "loop" => idx' >= 1
  PROVE  ReportInv'
<1>1. s \in Sockets /\ Listener \in Sockets /\ s # Listener
  BY EventAssumption DEF Sockets
<1>2. lnet' \in [Sockets -> SUBSET NetworkEvents] /\ lnet'[Listener] = lnet[Listener]
  BY <1>1 DEF ReportInv
<1> QED BY <1>2 DEF ReportInv

LEMMA EventClientInv ==
  ASSUME EventInv, NEW c \in EventClients, EventClient(c)
  PROVE  EventInv'
<1>0. /\ fate \in [EventClients -> Fates] /\ UNCHANGED <<step, idx, hSockArr, hEventArr>>
      /\ c \in Sockets /\ Listener \in Sockets /\ c # Listener
      /\ lnet \in [Sockets -> SUBSET NetworkEvents]
  BY EventAssumption DEF EventClient, EventInv, BacklogInv, ReportInv, Sockets
<1>i. idx' \in Nat /\ (step' = "loop" => idx' >= 1)
  BY <1>0 DEF EventInv, ReportInv
<1>1. CASE /\ fate[c] = "new" /\ fate' = [fate EXCEPT ![c] = "open"]
           /\ backlog' = Append(backlog, c) /\ Record(Listener, "accept")
  <2>1. c \notin ToSet(backlog)
    BY <1>1 DEF EventInv, BacklogInv
  <2>2. /\ backlog' \in Seq(EventClients) /\ ToSet(backlog') = ToSet(backlog) \cup {c}
        /\ Distinct(backlog')
    BY <1>1, <2>1, Appended DEF EventInv, BacklogInv
  <2>3. /\ fate' \in [EventClients -> Fates] /\ fate'[c] = "open"
        /\ \A d \in EventClients : d # c => fate'[d] = fate[d]
    BY <1>0, <1>1 DEF Fates
  <2>4. BacklogInv'
    <3>1. ToSet(backlog) \subseteq EventClients
      BY DEF EventInv, BacklogInv, ToSet
    <3> QED BY <2>2, <2>3, <3>1 DEF EventInv, BacklogInv
  <2>5. \A d \in EventClients : Accepted(d)' <=> Accepted(d)
    <3>1. \A d \in EventClients :
            /\ Accepted(d) <=> fate[d] # "new" /\ d \notin ToSet(backlog)
            /\ Accepted(d)' <=> fate'[d] # "new" /\ d \notin ToSet(backlog')
      BY DEF Accepted, ToSet
    <3> QED BY <1>1, <2>2, <2>3, <3>1
  <2>6. {d \in Live : Accepted(d)}' = {d \in Live : Accepted(d)}
    <3>1. ~Accepted(c) /\ ~Accepted(c)'
      BY <1>1, <2>5 DEF Accepted
    <3> QED BY <2>3, <2>5, <3>1 DEF Live
  <2>7. EntriesInv'
    BY <1>0, <2>6 DEF EventInv, EntriesInv
  <2>8. ReportInv'
    <3>1. /\ lnet' \in [Sockets -> SUBSET NetworkEvents]
          /\ lnet'[Listener] = lnet[Listener] \cup {"accept"}
      BY <1>0, <1>1 DEF Record, NetworkEvents
    <3>2. backlog' # <<>>
      BY <2>2 DEF ToSet
    <3> QED BY <1>i, <3>1, <3>2 DEF EventInv, ReportInv
  <2> QED BY <2>4, <2>7, <2>8 DEF EventInv
<1>2. CASE UNCHANGED <<backlog, fate>> /\ RecordFor(c, "read")
  <2>1. lnet' = [lnet EXCEPT ![c] = lnet[c] \cup {"read"}] \/ UNCHANGED lnet
    BY <1>2 DEF RecordFor, Record
  <2>2. lnet[c] \cup {"read"} \in SUBSET NetworkEvents
    BY <1>0 DEF NetworkEvents
  <2>3. ReportInv'
    <3>1. CASE UNCHANGED lnet
      BY <1>2, <1>i, <3>1 DEF EventInv, ReportInv
    <3> QED BY <1>2, <1>i, <2>1, <2>2, <3>1, ReportClient DEF EventInv
  <2> QED BY <1>0, <1>2, <2>3, EventFrame
<1>3. CASE /\ fate[c] = "open" /\ UNCHANGED backlog
           /\ \/ /\ fate' = [fate EXCEPT ![c] = "closed"]
                 /\ RecordFor(c, "close") \/ UNCHANGED lnet
              \/ /\ Accepted(c) /\ fate' = [fate EXCEPT ![c] = "aborted"]
                 /\ Record(c, "error")
  <2>1. PICK e \in {"close", "error"} :
          lnet' = [lnet EXCEPT ![c] = lnet[c] \cup {e}] \/ UNCHANGED lnet
    BY <1>3 DEF RecordFor, Record
  <2>2. lnet[c] \cup {e} \in SUBSET NetworkEvents
    BY <1>0 DEF NetworkEvents
  <2>3. ReportInv'
    <3>1. CASE UNCHANGED lnet
      BY <1>3, <1>i, <3>1 DEF EventInv, ReportInv
    <3> QED BY <1>3, <1>i, <2>1, <2>2, <3>1, ReportClient DEF EventInv
  <2>4. /\ fate' \in [EventClients -> Fates] /\ fate'[c] \in {"closed", "aborted"}
        /\ fate'[c] = "aborted" => Accepted(c)
        /\ \A d \in EventClients : d # c => fate'[d] = fate[d]
    BY <1>0, <1>3 DEF Fates
  <2>5. BacklogInv'
    <3>1. ToSet(backlog) \subseteq EventClients /\ (Accepted(c) => c \notin ToSet(backlog))
      BY DEF EventInv, BacklogInv, ToSet, Accepted
    <3> QED BY <1>3, <2>4, <3>1 DEF EventInv, BacklogInv
  <2>6. {d \in Live : Accepted(d)}' = {d \in Live : Accepted(d)}
    BY <1>3, <2>4 DEF Live, Accepted
  <2>7. EntriesInv'
    BY <1>0, <2>6 DEF EventInv, EntriesInv
  <2> QED BY <2>3, <2>5, <2>7 DEF EventInv
<1> QED BY <1>1, <1>2, <1>3 DEF EventClient

\* FD_ACCEPT.
LEMMA HandleFdAcceptInv ==
  ASSUME EventInv, step = "loop", idx <= Len(hSockArr), Signalled(hEventArr[idx]),
         hSockArr[idx] = Listener, HandleFdAccept
  PROVE  EventInv'
<1>0. PICK c : c = Head(backlog)
  OBVIOUS
<1>1. /\ lnet' = [lnet EXCEPT ![c] = {"write"} \cup More(c, unread[c]),
                              ![Listener] = IF Len(backlog) > 1 THEN @ ELSE {}]
      /\ backlog' = Tail(backlog) /\ hSockArr' = Append(hSockArr, c)
      /\ hEventArr' = Append(hEventArr, c) /\ idx' = idx + 1 /\ UNCHANGED <<step, fate>>
  BY <1>0 DEF HandleFdAccept
<1>2. backlog # <<>>
  BY DEF Signalled, EventInv, EntriesInv, ReportInv
<1>3. /\ backlog' \in Seq(EventClients) /\ c \in EventClients /\ c \in ToSet(backlog)
      /\ ToSet(backlog') = ToSet(backlog) \ {c} /\ Distinct(backlog')
  BY <1>0, <1>1, <1>2, Taken DEF EventInv, BacklogInv
<1>4. c \in Sockets /\ Listener \in Sockets /\ c # Listener
  BY <1>3, EventAssumption DEF Sockets
<1>5. /\ ~Accepted(c) /\ c \in Live
      /\ \A d \in EventClients : Accepted(d)' <=> Accepted(d) \/ d = c
  <2>1. fate[c] \in {"open", "closed"} /\ c \in Live
    BY <1>3 DEF EventInv, BacklogInv, Live
  <2>2. \A d \in EventClients : Accepted(d) <=> fate[d] # "new" /\ d \notin ToSet(backlog)
    BY DEF Accepted, ToSet
  <2>3. \A d \in EventClients : Accepted(d)' <=> fate'[d] # "new" /\ d \notin ToSet(backlog')
    BY DEF Accepted, ToSet
  <2> QED BY <1>1, <1>3, <2>1, <2>2, <2>3
<1>6. EntriesInv'
  <2>1. c \notin ToSet(hSockArr)
    BY <1>4, <1>5 DEF EventInv, EntriesInv
  <2>2. /\ hSockArr' \in Seq(Sockets) /\ Distinct(hSockArr')
        /\ ToSet(hSockArr') = ToSet(hSockArr) \cup {c}
    BY <1>1, <1>4, <2>1, Appended DEF EventInv, EntriesInv
  <2>3. {d \in Live : Accepted(d)}' = {d \in Live : Accepted(d)} \cup {c}
    BY <1>1, <1>3, <1>5 DEF Live
  <2> QED BY <1>1, <2>2, <2>3 DEF EventInv, EntriesInv
<1>7. BacklogInv'
  BY <1>1, <1>3 DEF EventInv, BacklogInv
<1>8. ReportInv'
  <2>1. {"write"} \cup More(c, unread[c]) \in SUBSET NetworkEvents
    BY DEF More, NetworkEvents
  <2>2. PICK m \in SUBSET NetworkEvents : m = {"write"} \cup More(c, unread[c])
    BY <2>1
  <2>3. /\ lnet' \in [Sockets -> SUBSET NetworkEvents]
        /\ lnet'[Listener] = IF Len(backlog) > 1 THEN lnet[Listener] ELSE {}
    BY <1>1, <1>4, <2>2 DEF EventInv, ReportInv
  <2>4. Len(backlog) > 1 => backlog' # <<>>
    <3>1. backlog \in Seq(EventClients)
      BY DEF EventInv, BacklogInv
    <3>2. Len(Tail(backlog)) = Len(backlog) - 1 /\ Len(backlog) \in Nat
      BY <1>2, <3>1
    <3>3. Len(<<>>) = 0
      OBVIOUS
    <3>4. PICK y : y = Len(backlog)
      OBVIOUS
    <3>5. y > 1 /\ y \in Nat => y - 1 # 0
      OBVIOUS
    <3>6. Tail(backlog) = <<>> => y - 1 = 0
      BY <3>2, <3>3, <3>4, Zenon
    <3> QED BY <1>1, <3>2, <3>4, <3>5, <3>6, Zenon
  <2>5. idx' \in Nat /\ idx' >= 1
    BY <1>1 DEF EventInv, ReportInv
  <2> QED BY <2>3, <2>4, <2>5 DEF EventInv, ReportInv
<1> QED BY <1>6, <1>7, <1>8 DEF EventInv

\* FD_CLOSE.
LEMMA HandleFdCloseInv ==
  ASSUME EventInv, step = "loop", idx <= Len(hSockArr), HandleFdClose(hSockArr[idx])
  PROVE  EventInv'
<1>0. PICK s : s = hSockArr[idx]
  OBVIOUS
<1>1. /\ "close" \in lnet[s] /\ lnet' = [lnet EXCEPT ![s] = {}]
      /\ fate' = [fate EXCEPT ![s] = "freed"]
      /\ hSockArr' = RemoveAt(hSockArr, idx) /\ hEventArr' = RemoveAt(hEventArr, idx)
      /\ idx' = idx + 1 /\ UNCHANGED <<step, backlog>>
  BY <1>0 DEF HandleFdClose, Fetch, CompressSockets, CompressEvents
<1>2. idx \in 1 .. Len(hSockArr) /\ s \in ToSet(hSockArr)
  BY <1>0 DEF EventInv, EntriesInv, ReportInv, ToSet
<1>3. s # Listener
  BY <1>1 DEF EventInv, ReportInv
<1>4. s \in EventClients /\ s \in Live /\ Accepted(s)
  BY <1>2, <1>3 DEF EventInv, EntriesInv, Live
<1>5. /\ hSockArr' \in Seq(Sockets) /\ Distinct(hSockArr')
      /\ ToSet(hSockArr') = ToSet(hSockArr) \ {s}
  BY <1>0, <1>1, <1>2, Compressed DEF EventInv, EntriesInv
<1>6. /\ fate' \in [EventClients -> Fates] /\ fate'[s] = "freed"
      /\ \A d \in EventClients : d # s => fate'[d] = fate[d]
  BY <1>1, <1>4 DEF EventInv, BacklogInv, Fates
<1>7. {d \in Live : Accepted(d)}' = {d \in Live : Accepted(d)} \ {s}
  BY <1>1, <1>6 DEF Live, Accepted
<1>8. EntriesInv'
  BY <1>1, <1>3, <1>5, <1>7 DEF EventInv, EntriesInv
<1>9. BacklogInv'
  <2>1. ToSet(backlog) \subseteq EventClients /\ s \notin ToSet(backlog)
    BY <1>4 DEF EventInv, BacklogInv, ToSet, Accepted
  <2> QED BY <1>1, <1>6, <2>1 DEF EventInv, BacklogInv
<1>10. ReportInv'
  <2>1. idx' \in Nat /\ idx' >= 1 /\ {} \in SUBSET NetworkEvents
    BY <1>1 DEF EventInv, ReportInv
  <2> QED BY <1>1, <1>4, <2>1, ReportClient DEF EventInv
<1> QED BY <1>8, <1>9, <1>10 DEF EventInv

\* Every step keeps the arrays parallel and complete.
LEMMA EventStepInv == EventInv /\ [EventNext]_eventVars => EventInv'
<1> SUFFICES ASSUME EventInv, [EventNext]_eventVars PROVE EventInv'
  OBVIOUS
<1>1. CASE EventWait
  <2>1. idx' \in 1 .. Len(hSockArr) /\ UNCHANGED <<hSockArr, hEventArr, backlog, lnet, fate>>
    BY <1>1 DEF EventWait, EventInv, EntriesInv
  <2>2. ReportInv'
    BY <2>1 DEF EventInv, EntriesInv, ReportInv
  <2> QED BY <2>1, <2>2, EventFrame
<1>2. CASE EventSkip
  <2>1. ReportInv' /\ UNCHANGED <<hSockArr, hEventArr, backlog, fate>>
    BY <1>2 DEF EventSkip, EventInv, ReportInv
  <2> QED BY <2>1, EventFrame
<1>3. CASE ArrayOverrun
  <2>1. ReportInv' /\ UNCHANGED <<hSockArr, hEventArr, backlog, fate>>
    BY <1>3 DEF ArrayOverrun, EventInv, ReportInv
  <2> QED BY <2>1, EventFrame
<1>4. ASSUME NEW s \in Sockets, step = "loop",
             HandleRead(s) \/ HandleError(s) \/ HandleWrite(s)
      PROVE  EventInv'
  <2>1. /\ UNCHANGED <<hSockArr, hEventArr, backlog, fate>>
        /\ "read" \in lnet[s] \/ "error" \in lnet[s] \/ "write" \in lnet[s]
        /\ idx' = idx + 1 \/ idx' = idx
        /\ lnet' = [lnet EXCEPT ![s] = More(s, unread[s] - 1)] \/ lnet' = [lnet EXCEPT ![s] = {}]
    BY <1>4 DEF HandleRead, HandleError, HandleWrite, Fetch
  <2>2. s \in EventClients
    BY <2>1 DEF EventInv, ReportInv, Sockets
  <2>3. PICK new \in SUBSET NetworkEvents : lnet' = [lnet EXCEPT ![s] = new]
    BY <2>1 DEF More, NetworkEvents
  <2>4. idx' \in Nat /\ idx' >= 1
    BY <1>4, <2>1 DEF EventInv, ReportInv
  <2>5. ReportInv'
    BY <2>1, <2>2, <2>3, <2>4, ReportClient DEF EventInv
  <2> QED BY <2>1, <2>5, EventFrame
<1>5. CASE EventHandle
  <2>1. /\ step = "loop" /\ idx <= Len(hSockArr) /\ Signalled(hEventArr[idx])
        /\ \/ hSockArr[idx] = Listener /\ (HandleFdAccept \/ ArrayOverrun)
           \/ HandleRead(hSockArr[idx]) \/ HandleFdClose(hSockArr[idx])
           \/ HandleError(hSockArr[idx]) \/ HandleWrite(hSockArr[idx])
    BY <1>5 DEF EventHandle
  <2>2. hSockArr[idx] \in Sockets
    BY <2>1 DEF EventInv, EntriesInv, ReportInv
  <2> QED BY <1>3, <1>4, <2>1, <2>2, HandleFdAcceptInv, HandleFdCloseInv
<1>6. CASE UNCHANGED eventVars
  BY <1>6, EventFrame DEF eventVars, EventInv, ReportInv
<1> QED BY <1>1, <1>2, <1>5, <1>6, EventClientInv DEF EventNext, EventServer, EventOver

\* hSockArr and hEventArr of AsynNotiEcho are compressed inside the loop over them:
\* they stay parallel, and hold the listener and each open client once.
THEOREM ArraysCorrect == ProgramsSpec => []ArraysParallel
<1>1. ProgramsInit => EventInv
  <2> SUFFICES ASSUME EventInit PROVE EventInv
    BY DEF ProgramsInit
  <2>1. Listener \in Sockets
    BY DEF Sockets
  <2>2. /\ hSockArr = <<Listener>> /\ hSockArr \in Seq(Sockets) /\ hEventArr = hSockArr
        /\ DOMAIN hSockArr = {1} /\ hSockArr[1] = Listener
    BY <2>1 DEF EventInit
  <2>3. ToSet(hSockArr) = {Listener} /\ Distinct(hSockArr) /\ Live = {}
    BY <2>2 DEF ToSet, Distinct, Live, EventInit
  <2>4. EntriesInv
    BY <2>2, <2>3 DEF EntriesInv
  <2>5. backlog = <<>> /\ DOMAIN backlog = {}
    BY DEF EventInit
  <2>6. BacklogInv
    BY <2>5 DEF EventInit, BacklogInv, Fates, Distinct, ToSet
  <2>7. ReportInv
    BY <2>1 DEF EventInit, ReportInv
  <2> QED BY <2>4, <2>6, <2>7 DEF EventInv
<1>2. EventInv /\ [ProgramsNext]_allVars => EventInv'
  BY OneProgram, EventStepInv
<1>3. EventInv => ArraysParallel
  BY DEF EventInv, EntriesInv, Distinct, ArraysParallel
<1> QED BY <1>1, <1>2, <1>3, ProgramsSafe, PTL
=============================================================================
