----------------------------- MODULE HttpCodec ------------------------------
(***************************************************************************)
(* Codec.cpp, Slice.cpp, HttpMessage.cpp: how a request is decoded.  The   *)
(* characters of m_inBuf are tokens: a word that the code compares, the    *)
(* three kinds of white space, and Nul for memory that was never written.  *)
(* Words that touch are one longer word.                                   *)
(***************************************************************************)
EXTENDS Naturals, Sequences, SequencesExt, FiniteSetsExt, TLC

SP == "SP"  CR == "CR"  LF == "LF"  NUL == "NUL"

Space == {SP, CR, LF}
Keys == {"Host:", "content-length:", "Content-Length:"}   \* end with a colon
Digits == {"0", "1", "2"}
Words == {"GET", "POST", "PUT", "/", "x", "HTTP/1.1", "HTTP/2"} \cup Keys
           \cup Digits
Token == Words \cup Space \cup {NUL}

-----------------------------------------------------------------------------
(* Slice.  A Slice that has been eaten from is the text and the index of   *)
(* its first character; eating returns what was eaten and the next index.  *)

\* The first index from i on, or the one behind the text, not in set C.
Skip(s, i, C) == Min({j \in i .. Len(s) : s[j] \notin C} \cup {Len(s) + 1})

Eaten(s, b, e) == [text |-> SubSeq(s, b, e - 1), next |-> e]

eatWord(s, i) ==
  LET b == Skip(s, i, Space) IN Eaten(s, b, Skip(s, b, Token \ Space))

eatLine(s, i) == Eaten(s, i, Skip(s, i, Token \ {CR, LF}))

eat(s, i, n) == Min({i + n, Len(s) + 1})

-----------------------------------------------------------------------------
(* HttpCodec *)

EndMark == <<CR, LF, CR, LF>>

\* Mutant: the last place where the header may end is not looked at.
getHeader_Early(d) ==
  LET ends == {i \in 1 .. Len(d) - 4 : SubSeq(d, i, i + 3) = EndMark} IN
  IF ends = {} THEN 0 ELSE Min(ends)

\* Where the empty line after the header begins, 0 when it is not there yet.
getHeader(d) ==
  LET ends == {i \in 1 .. Len(d) - 3 : SubSeq(d, i, i + 3) = EndMark} IN
  IF ends = {} THEN 0 ELSE Min(ends)

\* The map m after the pairs of map n were inserted: a key that is there keeps its
\* value.
Inserted(m, n) ==
  [k \in DOMAIN m \cup DOMAIN n |-> IF k \in DOMAIN m THEN m[k] ELSE n[k]]

\* The header lines from index i of header h on, as a map of keys to values that
\* keeps the first value of a key, and whether all of them are well formed.
HeaderLines(h, i) ==
  LET from[p \in 1 .. Len(h) + 1] ==
        IF p = Len(h) + 1 THEN [ok |-> TRUE, fields |-> <<>>]
        ELSE LET line == eatLine(h, eat(h, p, 2))
                 key == eatWord(line.text, 1)
                 value == eatWord(line.text, key.next) IN
             IF value.text # <<>> /\ key.text # <<>> /\ Last(key.text) \in Keys
             THEN [from[line.next] EXCEPT
                     !.fields = Inserted([k \in {key.text} |-> value.text], @)]
             ELSE [ok |-> FALSE, fields |-> <<>>]
  IN from[i]

Has(fields, key) == <<key>> \in DOMAIN fields
getHeaderField(fields, key) ==
  IF Has(fields, key) THEN fields[<<key>>] ELSE <<>>

atoi(v) == CASE v = <<"1">> -> 1 [] v = <<"2">> -> 2 [] OTHER -> 0

parseStartLine(method, url, version) ==
  /\ version = <<"HTTP/1.1">>
  /\ method \in {<<"GET">>, <<"POST">>}
  /\ url # <<>> /\ Head(url) = "/"

parseHeader(method, fields) ==
  /\ method = <<"POST">> => Has(fields, "Content-Length:")
  /\ Has(fields, "Host:")

\* tryDecode on the characters d, with the fields that earlier calls of the same
\* codec have left in m_req: 0 ("more"), positive ("ok") or negative ("bad"),
\* and the fields afterwards.  Only a GET is ever accepted.
tryDecode(d, known) ==
  LET end == getHeader(d)
      header == SubSeq(d, 1, end - 1)
      line == eatLine(header, 1)
      method == eatWord(line.text, 1)
      url == eatWord(line.text, method.next)
      version == eatWord(line.text, url.next)
      lines == HeaderLines(header, line.next)
      fields == Inserted(known, lines.fields)
      result(r) == [ret |-> r, fields |-> fields]
  IN CASE end <= 1 -> [ret |-> "more", fields |-> known]
       [] end > 1 /\ version.text = <<>> -> [ret |-> "bad", fields |-> known]
       [] OTHER ->
            IF \/ ~lines.ok
               \/ ~parseStartLine(method.text, url.text, version.text)
               \/ ~parseHeader(method.text, fields) THEN result("bad")
            ELSE IF Len(d) < end + 3 + atoi(getHeaderField(fields, "content-length:"))
            THEN result("more")
            ELSE IF method.text = <<"GET">> THEN result("ok") ELSE result("bad")
=============================================================================
