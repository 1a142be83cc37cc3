------------------------------ MODULE HttpParse -----------------------------
(***************************************************************************)
(* http_parse.cpp: a server that reads one HTTP request from one client,   *)
(* in pieces of any size, and parses it line by line as it arrives.        *)
(*                                                                         *)
(* The input is a sequence of tokens: the characters the parser looks at   *)
(* ("CR", "LF", "SP" for a space or a tab) and the words it compares,      *)
(* "GET", "HTTP" (HTTP/1.1), "PATH" (a slash and what follows), "SCHEME"   *)
(* (http://) and "WORD" for any other.  Where recv cuts a word is of no    *)
(* consequence, since parse_line only looks at CR and LF.                  *)
(***************************************************************************)
EXTENDS Naturals, Sequences, FiniteSetsExt

CONSTANTS
  Size,      \* BUFFER_SIZE
  Streams    \* what a client may send before it closes its side

Token == {"CR", "LF", "SP", "GET", "HTTP", "PATH", "SCHEME", "WORD"}

ASSUME ParseAssumption == Size \in Nat \ {0} /\ Streams \subseteq Seq(Token)

VARIABLES
  stream,         \* all that this client sends
  buffer,         \* the characters received; "NUL" where there is none
  read_index, checked_index, start_line,
  checkstate,     \* the main state machine
  phase,          \* "recv", "parse" (inside parse_content) or "done"
  result          \* the last HTTP_CODE, or how the connection ended

parseVars == <<stream, buffer, read_index, checked_index, start_line,
               checkstate, phase, result>>

ParseInit ==
  /\ stream \in Streams
  /\ buffer = [i \in 0 .. Size - 1 |-> "NUL"]
  /\ read_index = 0 /\ checked_index = 0 /\ start_line = 0
  /\ checkstate = "REQUESTLINE"
  /\ phase = "recv"
  /\ result = "NO_REQUEST"

-----------------------------------------------------------------------------
(* parse_requestline and parse_headers *)

Spaces(l) == {i \in 1 .. Len(l) : l[i] = "SP"}

\* l without the spaces it begins with: strspn(l, " \t").
SkipSpaces(l) ==
  LET words == 1 .. Len(l) \ Spaces(l) IN
  IF words = {} THEN <<>> ELSE SubSeq(l, Min(words), Len(l))

\* The text before and after the first space: strpbrk(l, " \t").
Before(l) == SubSeq(l, 1, Min(Spaces(l)) - 1)
After(l) == SubSeq(l, Min(Spaces(l)) + 1, Len(l))

\* Words that contain a slash.
HasSlash == {"PATH", "SCHEME", "HTTP"}

\* A path, or http:// with a slash somewhere behind it.
UrlOK(url) ==
  \/ url[1] = "PATH"
  \/ url[1] = "SCHEME" /\ \E i \in 2 .. Len(url) : url[i] \in HasSlash

\* The separators that parse_requestline overwrites with NUL, by their place in
\* the line: the first, and, if the method is GET, the one behind the target.
Separators(l) ==
  LET rest == SkipSpaces(After(l)) IN
  IF Spaces(l) = {} THEN {}
  ELSE {Min(Spaces(l))} \cup
       (IF Before(l) = <<"GET">> /\ Spaces(rest) # {}
        THEN {Len(l) - Len(rest) + Min(Spaces(rest))} ELSE {})

\* TRUE for NO_REQUEST (go on with the headers), FALSE for BAD_REQUEST.
parse_requestline(l) ==
  /\ Spaces(l) # {}
  /\ Before(l) = <<"GET">>
  /\ LET rest == SkipSpaces(After(l)) IN
     /\ Spaces(rest) # {}
     /\ SkipSpaces(After(rest)) = <<"HTTP">>
     /\ UrlOK(Before(rest))

-----------------------------------------------------------------------------
(* parse_line and parse_content *)

\* Where the loop of parse_line stops: at a CR, or at a LF behind a CR.
Stops ==
  {i \in checked_index .. read_index - 1 :
     \/ buffer[i] = "CR"
     \/ buffer[i] = "LF" /\ i > 1 /\ buffer[i - 1] = "CR"}

\* parse_line: the status, the new checked_index, and the two characters of the
\* line end, which are overwritten.
LineOpen(i) == [status |-> "OPEN", checked |-> i, erased |-> {}]
LineBad(i)  == [status |-> "BAD",  checked |-> i, erased |-> {}]
LineOK(i)   == [status |-> "OK",   checked |-> i, erased |-> {i - 2, i - 1}]

\* Mutant: a CR at the end of what was received is skipped.
parse_line_SkipsCR ==
  LET i == Min(Stops) IN
  IF Stops = {} THEN LineOpen(read_index)
  ELSE IF buffer[i] = "LF" THEN LineOK(i + 1)
  ELSE IF i + 1 = read_index THEN LineOpen(i + 1)
  ELSE IF buffer[i + 1] = "LF" THEN LineOK(i + 2)
  ELSE LineBad(i)

\* Mutant: a CR is taken for a line end before the next character is received.
parse_line_NoBound ==
  LET i == Min(Stops) IN
  IF Stops = {} THEN LineOpen(read_index)
  ELSE IF buffer[i] = "LF" THEN LineOK(i + 1)
  ELSE LineOK(i + 2)

parse_line ==
  LET i == Min(Stops) IN
  IF Stops = {} THEN LineOpen(read_index)
  ELSE IF buffer[i] = "LF" THEN LineOK(i + 1)
  ELSE IF i + 1 = read_index THEN LineOpen(i)
  ELSE IF buffer[i + 1] = "LF" THEN LineOK(i + 2)
  ELSE LineBad(i)

\* The string at start_line in the buffer b, up to its first NUL.
Line(b) ==
  LET ends == {i \in start_line .. Size - 1 : b[i] = "NUL"} IN
  [k \in 1 .. Min(ends) - start_line |-> b[start_line + k - 1]]

\* b with NUL at the places P.
Erase(b, P) == [i \in DOMAIN b |-> IF i \in P THEN "NUL" ELSE b[i]]

\* parse_content returns code, and main goes on or ends.
Finish(code) ==
  /\ result' = code
  /\ phase' = IF code = "NO_REQUEST" THEN "recv" ELSE "done"

\* One round of the loop of parse_content that finds a line.
ParseLine ==
  LET p == parse_line
      b == Erase(buffer, p.erased)
      line == Line(b)
  IN
  /\ phase = "parse"
  /\ p.status = "OK"
  /\ checked_index' = p.checked
  /\ start_line' = p.checked
  /\ \/ /\ checkstate = "REQUESTLINE"
        /\ buffer' = Erase(b, {start_line + k - 1 : k \in Separators(line)})
        /\ \/ /\ parse_requestline(line)
              /\ checkstate' = "HEADER"
              /\ UNCHANGED <<phase, result>>
           \/ /\ ~ parse_requestline(line)
              /\ Finish("BAD_REQUEST")
              /\ UNCHANGED checkstate
     \/ /\ checkstate = "HEADER"
        /\ buffer' = b
        /\ \/ line = <<>> /\ Finish("GET_REQUEST")
           \/ line # <<>> /\ UNCHANGED <<phase, result>>
        /\ UNCHANGED checkstate
  /\ UNCHANGED <<stream, read_index>>

\* The round that finds none: parse_content returns.
ParseEnd ==
  /\ phase = "parse"
  /\ parse_line.status # "OK"
  /\ checked_index' = parse_line.checked
  /\ Finish(IF parse_line.status = "OPEN" THEN "NO_REQUEST" ELSE "BAD_REQUEST")
  /\ UNCHANGED <<stream, buffer, read_index, start_line, checkstate>>

-----------------------------------------------------------------------------
(* main *)

\* recv returns n > 0 characters, and parse_content is called.
Recv(n) ==
  /\ phase = "recv"
  /\ read_index + n <= Size
  /\ read_index + n <= Len(stream)
  /\ buffer' = [i \in DOMAIN buffer |->
                  IF i \in read_index .. read_index + n - 1
                  THEN stream[i + 1] ELSE buffer[i]]
  /\ read_index' = read_index + n
  /\ phase' = "parse"
  /\ UNCHANGED <<stream, checked_index, start_line, checkstate, result>>

\* recv returns 0: the client closed its side, or there is no room left in the
\* buffer and recv was asked for no characters.
RecvNothing ==
  /\ phase = "recv"
  /\ read_index = Len(stream) \/ read_index = Size
  /\ phase' = "done"
  /\ result' = "CLOSED"
  /\ UNCHANGED <<stream, buffer, read_index, checked_index, start_line,
                 checkstate>>

\* recv returns -1.
RecvFailed ==
  /\ phase = "recv"
  /\ phase' = "done"
  /\ result' = "FAILED"
  /\ UNCHANGED <<stream, buffer, read_index, checked_index, start_line,
                 checkstate>>

\* The program has sent its answer, closed the connection and returned.
Done == phase = "done" /\ UNCHANGED parseVars

ParseNext ==
  \/ \E n \in 1 .. Size : Recv(n)
  \/ RecvNothing
  \/ RecvFailed
  \/ ParseLine
  \/ ParseEnd
  \/ Done

ParseSpec == ParseInit /\ [][ParseNext]_parseVars

-----------------------------------------------------------------------------
(* Properties *)

\* The indices stay in order and inside the buffer, in whatever pieces the
\* request arrives, and nothing behind read_index was written: the characters
\* that parse_line and the string functions look at have been received, or are
\* the NUL that ends the string.
ParseType ==
  /\ buffer \in [0 .. Size - 1 -> Token \cup {"NUL"}]
  /\ read_index \in 0 .. Size
  /\ checked_index \in 0 .. read_index
  /\ start_line \in 0 .. checked_index
  /\ \A i \in read_index .. Size - 1 : buffer[i] = "NUL"
  /\ checkstate \in {"REQUESTLINE", "HEADER"}
  /\ phase \in {"recv", "parse", "done"}
  /\ result \in {"NO_REQUEST", "GET_REQUEST", "BAD_REQUEST", "CLOSED", "FAILED"}

\* A request line: GET, a target and HTTP/1.1, separated by spaces.
IsRequestLine(l) ==
  \E i, j \in 2 .. Len(l) :
    LET url == SubSeq(l, i, j - 1) IN
    /\ i < j
    /\ l = <<"GET">> \o [k \in 1 .. i - 2 |-> "SP"] \o url
             \o [k \in 1 .. Len(l) - j |-> "SP"] \o <<"HTTP">>
    /\ i > 2 /\ j < Len(l)
    /\ Spaces(url) = {}
    /\ \/ url[1] = "PATH"
       \/ url[1] = "SCHEME" /\ \E k \in 2 .. Len(url) : url[k] \in HasSlash

\* What a client that has sent s so far should be told, read off s as a whole:
\* lines end at CR LF, a CR before anything else is an error, the first line is
\* the request line and the first empty line behind it ends the request.
Outcome(s) ==
  LET crs == {i \in 1 .. Len(s) - 1 : s[i] = "CR"}
      bad == {i \in crs : s[i + 1] # "LF"}
      ends == {i \in crs : \A b \in bad : i < b}
      start(i) == Max({e + 2 : e \in {e \in ends : e < i}})
  IN IF ends # {} /\ ~ IsRequestLine(SubSeq(s, 1, Min(ends) - 1)) THEN "BAD_REQUEST"
     ELSE IF \E i, e \in ends : e < i /\ start(i) = i THEN "GET_REQUEST"
     ELSE IF bad # {} THEN "BAD_REQUEST"
     ELSE "NO_REQUEST"

\* The answer depends on what the client sent and not on the pieces in which
\* recv returned it: a line, or the CR LF at its end, may be cut anywhere.
PiecesDoNotMatter ==
  phase = "recv" \/ (phase = "done" /\ result \notin {"CLOSED", "FAILED"}) =>
    result = Outcome(SubSeq(stream, 1, read_index))
=============================================================================
