-------------------------------- MODULE Nbc ---------------------------------
(***************************************************************************)
(* nbc.cpp: connects to every address of every host at once and waits for  *)
(* all of them with one select.  addrs gives the addresses of each host in *)
(* order; a socket is named by its host and its place in hosts[].sockets.  *)
(***************************************************************************)
EXTENDS Naturals, FiniteSets

CONSTANTS
  NumHosts,   \* bound: entries of hosts[]
  MaxAddrs,   \* bound: addresses of a host, MAX_SOCKETS at most
  Timeouts    \* TIMEOUT

ASSUME NbcAssumption ==
  NumHosts \in Nat /\ MaxAddrs \in Nat /\ Timeouts \in Nat \ {0}

Hosts == 1 .. NumHosts
Places == Hosts \X (1 .. MaxAddrs)

VARIABLES
  stage,      \* "start", "select", "check", "done", "exited"
  addrs,      \* addresses of each host
  tried,      \* addresses of each host gone through, in the first loop
  numsock,    \* hostp->numsock
  outcome,    \* per place: "none", "pending", "ok" or "failed"
  wrfds,      \* descriptors passed to select, and what it leaves
  orig,       \* wrfds_orig
  n, total,   \* n and num_sockets
  tick,       \* timeouts
  told,       \* per place: how often a result was printed
  hole        \* a place of sockets[] was left without a socket

nbcVars == <<stage, addrs, tried, numsock, outcome, wrfds, orig, n, total,
             tick, told, hole>>

NbcInit ==
  /\ stage = "start"
  /\ addrs \in [Hosts -> 1 .. MaxAddrs]
  /\ tried = [h \in Hosts |-> 0]
  /\ numsock = [h \in Hosts |-> 0]
  /\ outcome = [p \in Places |-> "none"]
  /\ wrfds = {} /\ orig = {} /\ n = 0 /\ total = 0 /\ tick = 0
  /\ told = [p \in Places |-> 0] /\ hole = FALSE

Tell(P) == told' = [p \in Places |-> IF p \in P THEN told[p] + 1 ELSE told[p]]

-----------------------------------------------------------------------------
(* The first loop *)

\* Another family, or socket() fails: the place is passed over and not counted.
NoSocket ==
  /\ hole' = TRUE
  /\ UNCHANGED <<numsock, outcome, wrfds, n, total, told>>

\* connect is pending, or it is decided at once.
StartConnect(h, p) ==
  /\ numsock' = [numsock EXCEPT ![h] = @ + 1]
  /\ total' = total + 1
  /\ \/ /\ outcome' = [outcome EXCEPT ![p] = "pending"]
        /\ wrfds' = wrfds \cup {p}
        /\ UNCHANGED <<n, told>>
     \/ /\ \E r \in {"ok", "failed"} : outcome' = [outcome EXCEPT ![p] = r]
        /\ n' = n + 1
        /\ Tell({p})
        /\ UNCHANGED wrfds
  /\ UNCHANGED hole

\* The next address of host h, the first host that has one left.
NbcConnect(h) ==
  /\ stage = "start" /\ tried[h] < addrs[h]
  /\ \A g \in 1 .. h - 1 : tried[g] = addrs[g]
  /\ tried' = [tried EXCEPT ![h] = @ + 1]
  /\ NoSocket \/ StartConnect(h, <<h, tried[h] + 1>>)
  /\ UNCHANGED <<stage, addrs, orig, tick>>

\* All connects are started: the set is saved, and the waiting begins.
NbcStarted ==
  /\ stage = "start" /\ tried = addrs
  /\ orig' = wrfds
  /\ stage' = IF n = total THEN "done" ELSE "select"
  /\ UNCHANGED <<addrs, tried, numsock, outcome, wrfds, n, total, tick, told, hole>>

-----------------------------------------------------------------------------
(* The second loop *)

\* The network decides a connect, at any time.
NbcNetwork ==
  /\ stage \notin {"done", "exited"}
  /\ \E p \in Places, r \in {"ok", "failed"} :
       outcome[p] = "pending" /\ outcome' = [outcome EXCEPT ![p] = r]
  /\ UNCHANGED <<stage, addrs, tried, numsock, wrfds, orig, n, total, tick, told, hole>>

Ready == {p \in wrfds : outcome[p] \in {"ok", "failed"}}

\* select returns with the descriptors that are writable.
SelectReady ==
  /\ stage = "select" /\ Ready # {}
  /\ wrfds' = Ready
  /\ stage' = "check"
  /\ UNCHANGED <<addrs, tried, numsock, outcome, orig, n, total, tick, told, hole>>

\* Mutant: the timeouts are not counted.
SelectTimeout_NotCounted ==
  /\ stage = "select" /\ Ready = {}
  /\ wrfds' = {}
  /\ UNCHANGED <<stage, tick, addrs, tried, numsock, outcome, orig, n, total,
                 told, hole>>

\* select times out and leaves its set empty; the loop goes on without
\* restoring it.
SelectTimeout ==
  /\ stage = "select" /\ Ready = {}
  /\ wrfds' = {}
  /\ tick' = tick + 1
  /\ stage' = IF tick + 1 = Timeouts THEN "done" ELSE "select"
  /\ UNCHANGED <<addrs, tried, numsock, outcome, orig, n, total, told, hole>>

\* Mutant: the descriptor stays in the set that the next select is given.
CheckAll_KeepsSet ==
  LET seen == {p \in wrfds : p[2] <= numsock[p[1]]} IN
  /\ stage = "check"
  /\ Tell(seen)
  /\ n' = n + Cardinality(seen)
  /\ orig' = orig /\ wrfds' = orig'
  /\ stage' = IF n' = total THEN "done" ELSE "select"
  /\ UNCHANGED <<addrs, tried, numsock, outcome, total, tick, hole>>

\* The scan over the first numsock places of every host, and the end of the
\* loop.
CheckAll ==
  LET seen == {p \in wrfds : p[2] <= numsock[p[1]]} IN
  /\ stage = "check"
  /\ Tell(seen)
  /\ n' = n + Cardinality(seen)
  /\ orig' = orig \ seen /\ wrfds' = orig'
  /\ stage' = IF n' = total THEN "done" ELSE "select"
  /\ UNCHANGED <<addrs, tried, numsock, outcome, total, tick, hole>>

\* A call fails, or FD_ISSET is given the -1 of a hole: err and errx exit.
NbcDies ==
  /\ stage \in {"start", "select", "check"}
  /\ stage' = "exited"
  /\ UNCHANGED <<addrs, tried, numsock, outcome, wrfds, orig, n, total, tick,
                 told, hole>>

NbcStep ==
  \/ \E h \in Hosts : NbcConnect(h)
  \/ NbcStarted \/ SelectReady \/ SelectTimeout \/ CheckAll

NbcOver == stage \in {"done", "exited"} /\ UNCHANGED nbcVars

NbcNext == NbcStep \/ NbcDies \/ NbcNetwork \/ NbcOver

\* The program runs; whether a connect is ever decided is up to the network.
NbcFairness == WF_nbcVars(NbcStep)

NbcSpec == NbcInit /\ [][NbcNext]_nbcVars /\ NbcFairness

-----------------------------------------------------------------------------
(* Properties *)

\* The loop ends by counting: n, the saved set and the results printed agree,
\* and no connect is reported twice, also when the same select finds several
\* ready and when socket() failed for some address.
CountsAgree ==
  /\ stage \in {"select", "check", "done"} => total - n = Cardinality(orig)
  /\ \A p \in Places : told[p] <= 1 /\ (p \in orig => told[p] = 0)
  /\ \A p \in Places : told[p] = 1 => outcome[p] \in {"ok", "failed"}

\* The waiting ends, unless a place without a socket has left a hole among those
\* of a host.
NbcEnds == stage = "select" ~> stage \in {"done", "exited"} \/ hole

\* nbc.cpp:222: those remaining in the set are those that timed out on us, not
\* those that were decided before the last select began.
RemainingTimedOut ==
  [][stage = "select" /\ stage' = "done" => \A p \in orig : outcome[p] = "pending"]_nbcVars
=============================================================================
