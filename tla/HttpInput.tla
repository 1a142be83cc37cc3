----------------------------- MODULE HttpInput ------------------------------
(***************************************************************************)
(* One connection of the HTTP server, from the bytes that arrive to the    *)
(* responses that leave: handleRecv appends to m_inBuf, and                *)
(* notifyPackageReceived runs a new HttpCodec over the memory of m_inBuf   *)
(* until it asks for more or refuses.  The codec's Slice is taken before   *)
(* the loop; remove() moves the bytes under it.                            *)
(***************************************************************************)
EXTENDS Buffer, HttpCodec

CONSTANTS
  Conversations,  \* sequences of requests that a client sends
  MaxAnswers      \* bound: responses that are counted

VARIABLES
  reqs,      \* the requests of this client
  stream,    \* their characters, and where each one ends in them
  ends,
  sent,      \* characters of them received so far
  piped,     \* a request was begun before the one before it was answered
  big,       \* the data once filled more than half of its block
  state,     \* "recv", "decode", "answer", "closed"
  slice,     \* size of the codec's m_inBuf
  known,     \* m_req.m_headers of the codec
  ret,       \* last result of tryDecode
  rounds,    \* calls of tryDecode in this notification, 3 for more than two
  answers    \* responses sent that are not empty

codecVars == <<state, slice, known, ret, rounds, answers>>
clientVars == <<reqs, stream, ends>>
inputVars == <<bufferVars, clientVars, sent, piped, big, codecVars>>

-----------------------------------------------------------------------------
(* Requests as the client means them *)

Eol == <<CR, LF>>

\* The characters of a request up to the empty line, and with its body.
HeadText(r) ==
  <<r.method, SP, r.url, SP, r.version>> \o Eol
    \o FlattenSeq([i \in DOMAIN r.fields |-> r.fields[i] \o Eol]) \o Eol
Text(r) == HeadText(r) \o r.body

\* Characters before request i; requests begun and complete in the first n
\* characters.
Before(i) == IF i = 1 THEN 0 ELSE ends[i - 1]
Begun(n) == {i \in DOMAIN reqs : Before(i) < n}
Whole(n) == {i \in DOMAIN reqs : ends[i] <= n}

\* A field line is a key with its colon, a space and a value.
FieldOK(f) == Len(f) >= 3 /\ f[1] \in Keys /\ f[2] = SP
FieldKeys(r) == {r.fields[i][1] : i \in DOMAIN r.fields}

\* What the server takes: the head of a request, and a request.
HeadOK(r) ==
  /\ r.method \in {"GET", "POST"} /\ r.url = "/" /\ r.version = "HTTP/1.1"
  /\ \A i \in DOMAIN r.fields : FieldOK(r.fields[i])
  /\ "Host:" \in FieldKeys(r)
  /\ r.method = "POST" => "Content-Length:" \in FieldKeys(r)
Legal(r) == HeadOK(r) /\ r.method = "GET"

\* What a client writes: a field line is a word, or two words with a space between
\* them, and a content-length line has one word for its value.  The body is any text
\* and as long as the client likes.
Requests ==
  [method : Words, url : Words, version : Words,
   fields : Seq(Seq(Words \cup {SP})), body : Seq(Words \cup Space)]
Line(f) ==
  /\ Len(f) >= 1 /\ f[1] # SP
  /\ Len(f) >= 3 => f[2] = SP /\ \A i \in 3 .. Len(f) : f[i] # SP
  /\ f[1] = "content-length:" => Len(f) <= 3
Written(r) == \A i \in DOMAIN r.fields : Line(r.fields[i])

\* The length of the body for the server: it looks "content-length" up, in lower
\* case, and finds no "Content-Length", though that is what it asks of a POST.
Announced(r) ==
  LET lines == {i \in DOMAIN r.fields : r.fields[i][1] = "content-length:"} IN
  IF lines = {} THEN 0 ELSE atoi(<<r.fields[Min(lines)][3]>>)

\* The requests whose end the server sees where the client puts it, and whose body
\* is not read as the start of another request.
Framed(r) ==
  /\ \A x \in DOMAIN r.body : r.body[x] # SP
  /\ HeadOK(r) => Len(r.body) = Announced(r)
AllFramed == \A i \in DOMAIN reqs : Framed(reqs[i])

ASSUME InputAssumption ==
  /\ Bytes = Token /\ Nul = NUL /\ MaxAnswers \in Nat
  /\ Conversations \subseteq Seq(Requests)
  /\ \A c \in Conversations :
       Len(c) <= MaxAnswers /\ \A i \in DOMAIN c : Written(c[i])

\* The answer that n characters deserve that begin with request r: the head is judged
\* for what it says, and one that is taken waits for the length it announces.
Verdict(r, n) ==
  IF \/ n < Len(HeadText(r))
     \/ HeadOK(r) /\ n < Len(HeadText(r)) + Announced(r) THEN "more"
  ELSE IF Legal(r) THEN "ok" ELSE "bad"

-----------------------------------------------------------------------------
(* The server *)

InputInit ==
  /\ Init
  /\ reqs \in Conversations
  /\ stream = FlattenSeq([i \in DOMAIN reqs |-> Text(reqs[i])])
  /\ ends = [i \in DOMAIN reqs |->
               Len(FlattenSeq([j \in 1 .. i |-> Text(reqs[j])]))]
  /\ sent = 0 /\ piped = FALSE /\ big = FALSE
  /\ state = "recv" /\ slice = 0 /\ known = <<>> /\ ret = "more"
  /\ rounds = 0 /\ answers = 0

\* handleRecv and the beginning of notifyPackageReceived.
Receive(n) ==
  /\ state = "recv" /\ n <= Len(stream) - sent
  /\ write(SubSeq(stream, sent + 1, sent + n))
  /\ sent' = sent + n
  /\ piped' = (piped \/ Cardinality(Begun(sent')) > answers + 1)
  /\ big' = (big \/ 2 * len' > Len(mem'))
  /\ state' = "decode" /\ slice' = len' /\ known' = <<>> /\ rounds' = 0
  /\ UNCHANGED <<clientVars, ret, answers>>

\* One call of tryDecode and, unless more is needed, of send with what the
\* codec's m_outBuf holds: the response of an accepted request stays in it.
Decode ==
  LET d == tryDecode(SubSeq(mem, 1, slice), known)
      writes == d.ret = "ok" \/ (d.ret = "bad" /\ rounds > 0) IN
  /\ state = "decode"
  /\ ret' = d.ret /\ known' = d.fields
  /\ rounds' = Min({rounds + 1, 3})
  /\ answers' = IF writes /\ answers < MaxAnswers THEN answers + 1 ELSE answers
  /\ state' = IF d.ret = "more" THEN "recv" ELSE "answer"
  /\ UNCHANGED <<bufferVars, clientVars, sent, piped, big, slice>>

\* Mutant: m_inBuf keeps the request that was answered.
Answer_KeepsInput ==
  /\ state = "answer"
  /\ state' = IF ret = "bad" THEN "closed" ELSE "decode"
  /\ UNCHANGED <<bufferVars, clientVars, sent, piped, big, slice, known, ret, rounds,
                 answers>>

\* After send: all of m_inBuf is removed, and a refused client is closed.
Answer ==
  /\ state = "answer"
  /\ remove(len)
  /\ state' = IF ret = "bad" THEN "closed" ELSE "decode"
  /\ UNCHANGED <<clientVars, sent, piped, big, slice, known, ret, rounds, answers>>

\* The client is closed, or has nothing more to send.
Over ==
  /\ state = "closed" \/ (state = "recv" /\ sent = Len(stream))
  /\ UNCHANGED inputVars

InputNext ==
  \/ \E n \in 1 .. Len(stream) : Receive(n)
  \/ Decode
  \/ Answer
  \/ Over

InputSpec == InputInit /\ [][InputNext]_inputVars

-----------------------------------------------------------------------------
(* Properties *)

\* However recv cuts the stream, also inside a line end or a body, the first tryDecode
\* of every notification gives the verdict of the text so far, more until the request
\* is complete and then accepted or refused for what it says.  That holds for the
\* request that m_inBuf begins with, whatever its body is and whatever follows it.
\* While every request ends where the server thinks it does, and is sent after the one
\* before it was answered, m_inBuf always begins with the request sent last.
DecodeExact ==
  rounds = 1 /\ state # "decode" =>
    /\ \A i \in DOMAIN reqs :
         len > 0 /\ Before(i) = sent - len => ret = Verdict(reqs[i], len)
    /\ ~piped /\ AllFramed =>
         LET i == Cardinality(Begun(sent)) IN
         ret = Verdict(reqs[i], sent - Before(i))

\* As long as the data never fills more than half of its block, decoding again what
\* remove() left under the Slice finds nothing, whatever the client sends and
\* whatever earlier requests left in the block: the loop of notifyPackageReceived
\* never goes round a third time.  Where every request ends where the server thinks
\* it does, each accepted one has one response, and only a refused one, or one lost
\* to a request sent too early, closes the client.
AnsweredOnce ==
  LET good == Cardinality({i \in Whole(sent) : Legal(reqs[i])}) IN
  ~big =>
    /\ rounds <= 2
    /\ AllFramed =>
         /\ answers <= good
         /\ ~piped /\ state \in {"recv", "closed"} => answers = good
         /\ ~piped /\ state = "closed" => \E i \in Begun(sent) : ~Legal(reqs[i])

\* Codec.cpp:133: it is the illegal connection that the server closes, after it
\* has told the peer.  A client all of whose requests are legal is not closed.
LegalStaysOpen ==
  ~piped /\ (\A i \in DOMAIN reqs : Legal(reqs[i])) => state # "closed"
=============================================================================
