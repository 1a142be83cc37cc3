------------------------------ MODULE Connect -------------------------------
(***************************************************************************)
(* The connect demonstrations, one client each: blockingConnect and the    *)
(* three versions of nonblockingConnect (Linux), main of                   *)
(* 2_NonblockConnect.cpp ("rounds") and the Windows nonblockingConnect.    *)
(* They differ in how they find out whether a pending connect succeeded.   *)
(*                                                                         *)
(* The socket is external.  On Linux a connect that is repeated returns 0  *)
(* once after the connection is established and EISCONN from then on;      *)
(* after a refusal it returns the error once and then starts anew; a       *)
(* socket that was refused is writable.                                    *)
(***************************************************************************)
EXTENDS Naturals

Versions == {"blocking", "v1", "v2", "v3", "rounds", "windows"}

CONSTANT Rounds   \* 5 selects in 2_NonblockConnect.cpp

ASSUME RoundsAssumption == Rounds \in Nat \ {0}

VARIABLES
  version,   \* the function that runs
  at,        \* where it is: "socket", "connect", "select", "sending", "done"
  sock,      \* the socket, as the kernel sees it
  errno,
  said,      \* what was reported: "nothing", "success", "failure"
  round,     \* selects begun by "rounds"
  estd,      \* the select, 0 before the first, at which the connection was
             \* established; Rounds + 1 when it is not
  trouble    \* the connection was reset, or select failed

connVars == <<version, at, sock, errno, said, round, estd, trouble>>

ConnInit ==
  /\ version \in Versions
  /\ at = "socket" /\ sock = "fresh" /\ errno = "none" /\ said = "nothing"
  /\ round = 0 /\ estd = Rounds + 1 /\ trouble = FALSE

Established == {"established", "connected"}
Report(what, where) == said' = what /\ at' = where

\* The socket becomes k.
SetSock(k) ==
  /\ sock' = k
  /\ estd' = IF k \in Established /\ estd > round THEN round ELSE estd

-----------------------------------------------------------------------------
(* The kernel *)

\* What connect may do: the error it sets ("none" when it returns 0) and the
\* state that it leaves the socket in.
ConnectResults ==
  CASE sock = "fresh" ->
         {<<"none", "connected">>, <<"EINTR", "connecting">>,
          <<"ECONNREFUSED", "fresh">>}
           \cup (IF version = "blocking" THEN {}
                 ELSE {<<"EINPROGRESS", "connecting">>})
    [] sock = "connecting" -> {<<"EALREADY", "connecting">>}
    [] sock = "established" -> {<<"none", "connected">>}
    [] sock = "connected" -> {<<"EISCONN", "connected">>}
    [] sock = "refused" -> {<<"ECONNREFUSED", "fresh">>}

\* A successful call leaves errno alone.
SetErrno(r) == errno' = IF r[1] = "none" THEN errno ELSE r[1]

\* select finds the socket in wfds; Windows reports failures elsewhere.
Writable ==
  sock \in Established \/ (version # "windows" /\ sock # "connecting")

\* Mutant: poll reports POLLOUT together with an error.
OnlyPollOut_Masked == sock # "connecting"

\* revents == POLLOUT: no POLLERR or POLLHUP with it.
OnlyPollOut == sock \in Established

Network ==
  /\ at \notin {"socket", "done"}
  /\ \/ /\ sock = "connecting"
        /\ SetSock("established") /\ UNCHANGED trouble
     \/ /\ sock = "connecting"
        /\ SetSock("refused") /\ UNCHANGED trouble
     \/ /\ sock \in Established /\ ~trouble
        /\ SetSock("refused") /\ trouble' = TRUE
  /\ UNCHANGED <<version, at, errno, said, round>>

-----------------------------------------------------------------------------
(* The programs *)

\* socket and fcntl, either of which may fail.
OpenSocket ==
  /\ at = "socket"
  /\ \/ at' = "connect" /\ UNCHANGED said
     \/ Report("failure", "done")
  /\ UNCHANGED <<version, sock, errno, round, estd, trouble>>

\* The first connect.  v1, v2 and v3 call it again after EINTR.
FirstConnect ==
  /\ at = "connect"
  /\ \E r \in ConnectResults :
       /\ SetErrno(r) /\ SetSock(r[2])
       /\ \/ r[1] = "none" /\ Report("success", "done") /\ UNCHANGED round
          \/ /\ r[1] = "EINPROGRESS"
             /\ at' = "select" /\ round' = 1 /\ UNCHANGED said
          \/ /\ r[1] = "EINTR" /\ version \in {"v1", "v2", "v3"}
             /\ UNCHANGED <<at, said, round>>
          \/ /\ \/ r[1] \in {"EALREADY", "ECONNREFUSED", "EISCONN"}
                \/ r[1] = "EINTR" /\ version \notin {"v1", "v2", "v3"}
             /\ Report("failure", "done") /\ UNCHANGED round
  /\ UNCHANGED <<version, trouble>>

\* Mutant: a select that times out is not counted.
NextRound_TimeoutFree(timedOut) ==
  IF timedOut THEN UNCHANGED <<round, at, said>>
  ELSE IF round < Rounds
  THEN round' = round + 1 /\ UNCHANGED <<at, said>>
  ELSE Report("failure", "done") /\ UNCHANGED round

\* Mutant: one select too few.
NextRound_OneLess(timedOut) ==
  IF round < Rounds - 1
  THEN round' = round + 1 /\ UNCHANGED <<at, said>>
  ELSE Report("failure", "done") /\ UNCHANGED round

\* while (times++ < 5)
NextRound(timedOut) ==
  IF round < Rounds
  THEN round' = round + 1 /\ UNCHANGED <<at, said>>
  ELSE Report("failure", "done") /\ UNCHANGED round

\* select or poll fails, or the time passes.
SelectFails ==
  /\ at = "select"
  /\ trouble' = TRUE
  /\ Report("failure", "done")
  /\ UNCHANGED <<version, sock, errno, round, estd>>

SelectTimesOut ==
  /\ at = "select" /\ ~Writable
  /\ \/ version = "rounds" /\ NextRound(TRUE)
     \/ version # "rounds" /\ Report("failure", "done") /\ UNCHANGED round
  /\ UNCHANGED <<version, sock, errno, estd, trouble>>

\* v1 asks getsockopt for SO_ERROR, v3 looks at revents, Windows believes
\* select.
SelectAsks ==
  /\ at = "select" /\ Writable
  /\ \/ /\ version = "v1"
        /\ Report(IF sock = "refused" THEN "failure" ELSE "success",
                  IF sock = "refused" THEN "done" ELSE "sending")
     \/ /\ version = "v3"
        /\ Report(IF OnlyPollOut THEN "success" ELSE "failure",
                  IF OnlyPollOut THEN "sending" ELSE "done")
     \/ version = "windows" /\ Report("success", "done")
  /\ UNCHANGED <<version, sock, errno, round, estd, trouble>>

\* The test of errno after the second connect, whatever that returned.
ConnectedNow == errno' = "EISCONN"

\* v2 and 2_NonblockConnect.cpp call connect again and look at errno.
SelectConnects ==
  /\ at = "select" /\ Writable /\ version \in {"v2", "rounds"}
  /\ \E r \in ConnectResults : SetErrno(r) /\ SetSock(r[2])
  /\ \/ /\ ConnectedNow
        /\ Report("success", IF version = "v2" THEN "sending" ELSE "done")
        /\ UNCHANGED round
     \/ ~ConnectedNow /\ version = "rounds" /\ NextRound(FALSE)
     \/ ~ConnectedNow /\ version = "v2" /\ UNCHANGED <<at, said, round>>
  /\ UNCHANGED <<version, trouble>>

\* The endless send loop of v1, v2 and v3 ends when the peer is gone.
SendFails ==
  /\ at = "sending" /\ sock = "refused"
  /\ at' = "done"
  /\ UNCHANGED <<version, sock, errno, said, round, estd, trouble>>

ConnStep ==
  \/ OpenSocket \/ FirstConnect
  \/ SelectTimesOut \/ SelectAsks \/ SelectConnects
  \/ SendFails

ConnOver == at \in {"sending", "done"} /\ UNCHANGED connVars

ConnNext == ConnStep \/ SelectFails \/ Network \/ ConnOver

-----------------------------------------------------------------------------
(* Properties *)

\* Whichever way a version finds out, from select and SO_ERROR, from revents or
\* from a stale errno, it reports success only when the connection was
\* established before.
ConnectSound == said = "success" => estd <= Rounds

\* 2_NonblockConnect.cpp needs two more selects after the connection is
\* established, since the first connect then returns 0 and leaves errno as it
\* was: with those left it reports success.
RoundsSuffice ==
  version = "rounds" /\ at = "done" /\ estd \in 1 .. Rounds - 1 /\ ~trouble =>
    said = "success"

\* Every version comes to a verdict.  v2 does when the connection is
\* established; while it is refused v2 may go round for ever.
ConnectDecides ==
  /\ at \in {"connect", "select"}
  /\ version = "v2" => sock \in Established
  ~> at \in {"sending", "done"} \/ (version = "v2" /\ trouble)
=============================================================================
