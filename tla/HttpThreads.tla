---------------------------- MODULE HttpThreads -----------------------------
(***************************************************************************)
(* http_server.c: main accepts and starts a thread for each connection,    *)
(* which it gives the address of its own variable clnt_sock.  Thread t is  *)
(* the one started for connection t.  Descriptors are external: a number   *)
(* names a connection or a file while it is open, and the lowest free one  *)
(* is reused.                                                              *)
(***************************************************************************)
EXTENDS Naturals, FiniteSets, FiniteSetsExt

CONSTANTS
  Conns,        \* bound: connections, 1 .. Conns
  Fds           \* bound: descriptors, 1 .. Fds

ASSUME ThreadsAssumption ==
  Conns \in Nat /\ Fds \in Nat /\ Fds >= 3 * Conns

\* What a thread can meet in the request line; "quit" is a client that closes
\* without one, which leaves req_line uninitialized.
Requests == {"nothttp", "notget", "noext", "missing", "found", "quit"}

VARIABLES
  clnt_sock,    \* main's variable
  made,         \* connections accepted
  fdTable,      \* per descriptor: its connection or file, 0 when it is free
  th,           \* per thread: [pc, rd, wr, file], the descriptors of clnt_read,
                \* clnt_write and send_file
  answers,      \* per connection: answers that were sent
  leaks,        \* threads that ended with a descriptor open
  hasty,        \* accept returned before the last thread had read clnt_sock
  died          \* the process is gone

threadVars == <<clnt_sock, made, fdTable, th, answers, leaks, hasty, died>>

Threads == 1 .. Conns
File(t) == Conns + t    \* the file that thread t has opened
Free == {f \in 1 .. Fds : fdTable[f] = 0}

ThreadsInit ==
  /\ clnt_sock = 0 /\ made = 0
  /\ fdTable = [f \in 1 .. Fds |-> 0]
  /\ th = [t \in Threads |-> [pc |-> "none", rd |-> 0, wr |-> 0, file |-> 0]]
  /\ answers = [t \in Threads |-> 0]
  /\ leaks = 0 /\ hasty = FALSE /\ died = FALSE

-----------------------------------------------------------------------------
(* main *)

\* accept, and a thread that is given &clnt_sock.
AcceptAndCreate ==
  /\ ~died /\ made < Conns
  /\ made' = made + 1
  /\ clnt_sock' = Min(Free)
  /\ fdTable' = [fdTable EXCEPT ![clnt_sock'] = made']
  /\ th' = [th EXCEPT ![made'].pc = "start"]
  /\ hasty' = (hasty \/ \E t \in Threads : th[t].pc = "start")
  /\ UNCHANGED <<answers, leaks, died>>

-----------------------------------------------------------------------------
(* request_handler *)

\* clnt_sock is read through the pointer.
ReadArg(t) ==
  /\ th[t].pc = "start"
  /\ th' = [th EXCEPT ![t].pc = "open", ![t].rd = clnt_sock]
  /\ UNCHANGED <<clnt_sock, made, fdTable, answers, leaks, hasty, died>>

\* fdopen and dup.  A descriptor that was closed gives NULL, which fgets does
\* not survive.
OpenStreams(t) ==
  /\ th[t].pc = "open"
  /\ \/ /\ fdTable[th[t].rd] # 0
        /\ fdTable' = [fdTable EXCEPT ![Min(Free)] = fdTable[th[t].rd]]
        /\ th' = [th EXCEPT ![t].pc = "read", ![t].wr = Min(Free)]
        /\ UNCHANGED died
     \/ /\ fdTable[th[t].rd] = 0
        /\ died' = TRUE
        /\ UNCHANGED <<fdTable, th>>
  /\ UNCHANGED <<clnt_sock, made, answers, leaks, hasty>>

Closing(F) == fdTable' = [f \in 1 .. Fds |-> IF f \in F THEN 0 ELSE fdTable[f]]

\* send_error and the answer of send_data go to the connection of the stream.
Answers(f) == answers' = [t \in Threads |->
                            IF fdTable[f] = t THEN answers[t] + 1 ELSE answers[t]]

\* Mutant: the return after it is missing.
Refuse_GoesOn(t) ==
  /\ Answers(th[t].wr)
  /\ Closing({th[t].rd, th[t].wr})
  /\ th' = [th EXCEPT ![t].pc = "send"]
  /\ UNCHANGED <<leaks, died>>

\* Mutant: only the streams are closed.
Refuse_Silent(t) ==
  /\ Closing({th[t].rd, th[t].wr})
  /\ th' = [th EXCEPT ![t].pc = "ended"]
  /\ UNCHANGED <<answers, leaks, died>>

\* Not HTTP, or not GET: send_error and both streams are closed.
Refuse(t) ==
  /\ Answers(th[t].wr)
  /\ Closing({th[t].rd, th[t].wr})
  /\ th' = [th EXCEPT ![t].pc = "ended"]
  /\ UNCHANGED <<leaks, died>>

\* strtok finds no extension, and strcpy is given NULL.
NoExtension ==
  /\ died' = TRUE
  /\ UNCHANGED <<fdTable, th, answers, leaks>>

\* The first stream is closed before the file is opened.
Serve(t) ==
  /\ Closing({th[t].rd})
  /\ th' = [th EXCEPT ![t].pc = "send"]
  /\ UNCHANGED <<answers, leaks, died>>

HandleRequest(t, q) ==
  /\ th[t].pc = "read"
  /\ \/ q \in {"nothttp", "notget", "quit"} /\ Refuse(t)
     \/ q \in {"noext", "quit"} /\ NoExtension
     \/ q \in {"missing", "found", "quit"} /\ Serve(t)
  /\ UNCHANGED <<clnt_sock, made, hasty>>

\* send_data opens the file.  When it cannot, it sends an error and leaves the
\* stream open.
SendData(t, q) ==
  /\ th[t].pc = "send"
  /\ \/ /\ q = "missing"
        /\ Answers(th[t].wr)
        /\ th' = [th EXCEPT ![t].pc = "ended"]
        /\ leaks' = leaks + 1
        /\ UNCHANGED fdTable
     \/ /\ q = "found"
        /\ fdTable' = [fdTable EXCEPT ![Min(Free)] = File(t)]
        /\ th' = [th EXCEPT ![t].pc = "copy", ![t].file = Min(Free)]
        /\ UNCHANGED <<answers, leaks>>
  /\ UNCHANGED <<clnt_sock, made, hasty, died>>

\* The rest of send_data: the file is sent and the stream closed, send_file is
\* not.
SendFile(t) ==
  /\ th[t].pc = "copy"
  /\ Answers(th[t].wr)
  /\ Closing({th[t].wr})
  /\ th' = [th EXCEPT ![t].pc = "ended"]
  /\ leaks' = leaks + 1
  /\ UNCHANGED <<clnt_sock, made, hasty, died>>

RequestHandler(t) ==
  /\ ~died
  /\ \/ ReadArg(t) \/ OpenStreams(t) \/ SendFile(t)
     \/ \E q \in Requests : HandleRequest(t, q) \/ SendData(t, q)

ThreadsOver ==
  /\ died \/ (made = Conns /\ \A t \in Threads : th[t].pc = "ended")
  /\ UNCHANGED threadVars

ThreadsNext ==
  \/ AcceptAndCreate \/ ThreadsOver
  \/ \E t \in Threads : RequestHandler(t)

-----------------------------------------------------------------------------
(* Properties *)

\* A connection gets at most one answer, and no thread meets a closed descriptor,
\* as long as each thread reads clnt_sock before accept returns again.  Threads
\* that have ended leave one descriptor open each if they got to send_data, that
\* of the file or, when it was not found, that of the stream, and no other.
OneAnswerEach ==
  ~hasty =>
    /\ \A t \in Threads : answers[t] <= 1
    /\ \A t \in Threads : th[t].pc \in {"open", "read"} => fdTable[th[t].rd] = t
    /\ ~died /\ (\A t \in Threads : th[t].pc \in {"none", "ended"}) =>
         Cardinality(1 .. Fds \ Free) = leaks

\* Then every accepted connection is answered, unless a request ends the process.
AllAnswered ==
  \A t \in Threads : made >= t ~> answers[t] > 0 \/ hasty \/ died
=============================================================================
