-------------------------- MODULE HttpParse_proofs --------------------------
(***************************************************************************)
(* Proofs about http_parse.cpp, for every buffer size, every request and   *)
(* every way recv may cut it.  The indices stay in order and inside the    *)
(* buffer, and the answer is the one that Outcome reads off the text as a  *)
(* whole.  The second needs three things: parse_requestline accepts        *)
(* exactly the request lines, what Outcome says follows from the lines     *)
(* found so far, and those lines are what parse_content keeps track of.    *)
(***************************************************************************)
EXTENDS HttpParse, SequenceTheorems, WellFoundedInduction, TLAPS

\* A set of naturals that is not empty has a least element, and Min is it.
LEMMA LeastElement ==
  ASSUME NEW S, S \subseteq Nat, S # {}
  PROVE  Min(S) \in S /\ \A m \in S : Min(S) <= m
<1>1. PICK x \in S : \A y \in S : ~ (<<y, x>> \in OpToRel(<, Nat))
  BY NatLessThanWellFounded, WFMin
<1>2. \A y \in S : ~ (y < x)
  BY <1>1, Zenon DEF OpToRel
<1>3. \A y \in S : x <= y
  BY <1>2
<1> QED
  BY <1>3 DEF Min

\* What parse_line returns lies between checked_index and read_index, and the
\* two characters that it overwrites have been received.
LEMMA ParseLineBounds ==
  ASSUME ParseType
  PROVE  /\ parse_line.checked \in checked_index .. read_index
         /\ parse_line.erased \subseteq 0 .. read_index - 1
         /\ parse_line.status \in {"OK", "OPEN", "BAD"}
<1> DEFINE first == Min(Stops)
<1>1. /\ Size \in Nat
      /\ read_index \in Nat /\ checked_index \in Nat
      /\ checked_index <= read_index /\ read_index <= Size
  BY ParseAssumption DEF ParseType
<1>2. CASE Stops = {}
  BY <1>1, <1>2 DEF parse_line, LineOpen
<1>3. CASE Stops # {}
  <2>1. Stops \subseteq Nat
    BY <1>1 DEF Stops
  <2>2. first \in Stops
    BY <2>1, <1>3, LeastElement
  <2>3. /\ first \in checked_index .. read_index - 1
        /\ buffer[first] = "CR" \/ first > 1
    BY <2>2 DEF Stops
  <2> HIDE DEF first
  <2>4. CASE buffer[first] = "LF"
    BY <1>1, <1>3, <2>3, <2>4 DEF parse_line, LineOK, first
  <2>5. CASE buffer[first] # "LF" /\ first + 1 = read_index
    BY <1>1, <1>3, <2>3, <2>5 DEF parse_line, LineOpen, first
  <2>6. CASE buffer[first] # "LF" /\ first + 1 # read_index
    BY <1>1, <1>3, <2>3, <2>6 DEF parse_line, LineOK, LineBad, first
  <2> QED
    BY <2>4, <2>5, <2>6
<1> QED
  BY <1>2, <1>3

\* Erasing keeps the buffer's type and whatever is NUL already.
LEMMA EraseKeeps ==
  ASSUME NEW b \in [0 .. Size - 1 -> Token \cup {"NUL"}], NEW P
  PROVE  /\ Erase(b, P) \in [0 .. Size - 1 -> Token \cup {"NUL"}]
         /\ \A i \in 0 .. Size - 1 : b[i] = "NUL" => Erase(b, P)[i] = "NUL"
BY DEF Erase

LEMMA ParseTypeInit == ParseInit => ParseType
BY ParseAssumption DEF ParseInit, ParseType

\* Theorem: every step keeps ParseType.
LEMMA ParseTypeNext ==
  ASSUME ParseType, stream \in Seq(Token), [ParseNext]_parseVars
  PROVE  ParseType'
<1>1. /\ Size \in Nat
      /\ read_index \in Nat /\ checked_index \in Nat /\ start_line \in Nat
  BY ParseAssumption DEF ParseType
<1>2. ASSUME NEW n \in 1 .. Size, Recv(n)
      PROVE  ParseType'
  <2>1. \A i \in read_index .. read_index + n - 1 : stream[i + 1] \in Token
    BY <1>1, <1>2 DEF Recv
  <2>2. buffer' \in [0 .. Size - 1 -> Token \cup {"NUL"}]
    BY <2>1, <1>2 DEF Recv, ParseType
  <2>3. \A i \in read_index' .. Size - 1 : buffer'[i] = "NUL"
    BY <1>1, <1>2 DEF Recv, ParseType
  <2> QED
    BY <1>1, <1>2, <2>2, <2>3 DEF Recv, ParseType
<1>3. CASE RecvNothing
  BY <1>3 DEF RecvNothing, ParseType
<1>4. CASE RecvFailed
  BY <1>4 DEF RecvFailed, ParseType
<1>5. CASE ParseLine
  <2> DEFINE b == Erase(buffer, parse_line.erased)
  <2>1. /\ b \in [0 .. Size - 1 -> Token \cup {"NUL"}]
        /\ \A i \in 0 .. Size - 1 : buffer[i] = "NUL" => b[i] = "NUL"
    BY EraseKeeps DEF ParseType
  <2>2. \/ buffer' = b
        \/ buffer' = Erase(b, {start_line + k - 1 : k \in Separators(Line(b))})
    BY <1>5 DEF ParseLine
  <2>3. /\ buffer' \in [0 .. Size - 1 -> Token \cup {"NUL"}]
        /\ \A i \in 0 .. Size - 1 : b[i] = "NUL" => buffer'[i] = "NUL"
    <3> HIDE DEF b
    <3> QED BY <2>1, <2>2, EraseKeeps
  <2>4. \A i \in read_index' .. Size - 1 : buffer'[i] = "NUL"
    <3>1. read_index' = read_index
      BY <1>5 DEF ParseLine
    <3> HIDE DEF b
    <3> QED BY <1>1, <2>1, <2>3, <3>1 DEF ParseType
  <2>5. checked_index' \in 0 .. read_index' /\ start_line' \in 0 .. checked_index'
    <3>1. /\ read_index' = read_index
          /\ checked_index' = parse_line.checked
          /\ start_line' = parse_line.checked
      BY <1>5 DEF ParseLine
    <3> QED BY <1>1, <3>1, ParseLineBounds
  <2>6. /\ read_index' \in 0 .. Size
        /\ checkstate' \in {"REQUESTLINE", "HEADER"}
        /\ phase' \in {"recv", "parse", "done"}
        /\ result' \in {"NO_REQUEST", "GET_REQUEST", "BAD_REQUEST", "CLOSED", "FAILED"}
    BY <1>5 DEF ParseLine, Finish, ParseType
  <2> QED
    BY <2>3, <2>4, <2>5, <2>6 DEF ParseType
<1>6. CASE ParseEnd
  <2>1. checked_index' \in checked_index .. read_index
    BY <1>6, ParseLineBounds DEF ParseEnd
  <2> QED
    BY <1>1, <1>6, <2>1 DEF ParseEnd, Finish, ParseType
<1>7. CASE Done \/ UNCHANGED parseVars
  BY <1>7 DEF Done, parseVars, ParseType
<1> QED
  BY <1>2, <1>3, <1>4, <1>5, <1>6, <1>7 DEF ParseNext

\* The indices of parse_content never pass each other or the end of the buffer,
\* and every character that is looked at has been received or is a NUL.
THEOREM ParseCorrect == ParseSpec => []ParseType
<1> DEFINE Inv == ParseType /\ stream \in Seq(Token)
<1>1. ParseInit => Inv
  BY ParseTypeInit, ParseAssumption DEF ParseInit
<1>2. Inv /\ [ParseNext]_parseVars => Inv'
  <2> SUFFICES ASSUME Inv, [ParseNext]_parseVars PROVE Inv'
    OBVIOUS
  <2>1. stream' = stream
    BY DEF ParseNext, Recv, RecvNothing, RecvFailed, ParseLine, ParseEnd, Done, parseVars
  <2> QED
    BY <2>1, ParseTypeNext
<1> QED
  BY <1>1, <1>2, PTL DEF ParseSpec

-----------------------------------------------------------------------------
(* parse_requestline against the definition of a request line *)

LEMMA LeastIs ==
  ASSUME NEW S, S \subseteq Nat, NEW x \in S, \A y \in S : x <= y
  PROVE  Min(S) = x
<1>1. Min(S) \in S /\ Min(S) <= x
  BY LeastElement
<1>2. Min(S) \in Nat /\ x \in Nat /\ x <= Min(S)
  BY <1>1
<1> QED BY <1>1, <1>2

\* A part of a text.
LEMMA Part ==
  ASSUME NEW l \in Seq(Token), NEW i \in Nat \ {0}, NEW j \in Nat,
         i <= j + 1, j <= Len(l)
  PROVE  /\ SubSeq(l, i, j) \in Seq(Token)
         /\ Len(SubSeq(l, i, j)) = j - i + 1
         /\ \A k \in 1 .. j - i + 1 : SubSeq(l, i, j)[k] = l[i + k - 1]
<1>1. Len(l) \in Nat /\ \A k \in i .. j : l[k] \in Token
  BY ElementOfSeq, LenProperties
<1> QED BY <1>1, SubSeqProperties

\* What strpbrk finds.
LEMMA SpaceFound ==
  ASSUME NEW l \in Seq(Token), Spaces(l) # {}
  PROVE  \E m \in 1 .. Len(l) :
           /\ l[m] = "SP" /\ \A k \in 1 .. m - 1 : l[k] # "SP"
           /\ Before(l) = SubSeq(l, 1, m - 1) /\ After(l) = SubSeq(l, m + 1, Len(l))
<1> DEFINE m == Min(Spaces(l))
<1>1. Len(l) \in Nat
  BY LenProperties
<1>2. Spaces(l) \subseteq Nat
  BY <1>1 DEF Spaces
<1>3. m \in Spaces(l) /\ \A k \in Spaces(l) : m <= k
  BY <1>2, LeastElement
<1>4. Before(l) = SubSeq(l, 1, m - 1) /\ After(l) = SubSeq(l, m + 1, Len(l))
  BY DEF Before, After
<1> HIDE DEF m
<1>5. m \in 1 .. Len(l) /\ l[m] = "SP" /\ \A k \in 1 .. m - 1 : l[k] # "SP"
  BY <1>1, <1>3 DEF Spaces
<1> QED BY <1>4, <1>5

\* What strspn skips.
LEMMA WordFound ==
  ASSUME NEW l \in Seq(Token), SkipSpaces(l) # <<>>
  PROVE  \E m \in 1 .. Len(l) :
           /\ l[m] # "SP" /\ \A k \in 1 .. m - 1 : l[k] = "SP"
           /\ SkipSpaces(l) = SubSeq(l, m, Len(l))
<1> DEFINE words == 1 .. Len(l) \ Spaces(l)
           m == Min(words)
<1>1. Len(l) \in Nat /\ words # {}
  BY LenProperties DEF SkipSpaces
<1>2. words \subseteq Nat
  BY <1>1
<1>3. m \in words /\ \A k \in words : m <= k
  BY <1>1, <1>2, LeastElement
<1>4. SkipSpaces(l) = SubSeq(l, m, Len(l))
  BY <1>1 DEF SkipSpaces
<1> HIDE DEF m
<1>5. m \in 1 .. Len(l) /\ l[m] # "SP" /\ \A k \in 1 .. m - 1 : l[k] = "SP"
  BY <1>1, <1>3 DEF Spaces
<1> QED BY <1>4, <1>5

LEMMA FirstWord ==
  ASSUME NEW l \in Seq(Token), NEW m \in 1 .. Len(l),
         l[m] # "SP", \A k \in 1 .. m - 1 : l[k] = "SP"
  PROVE  SkipSpaces(l) = SubSeq(l, m, Len(l))
<1> DEFINE words == 1 .. Len(l) \ Spaces(l)
<1>1. Len(l) \in Nat
  BY LenProperties
<1>2. words \subseteq Nat /\ m \in words /\ \A k \in words : m <= k
  BY <1>1 DEF Spaces
<1>3. Min(words) = m
  <2> HIDE DEF words
  <2> QED BY <1>2, LeastIs
<1> QED BY <1>2, <1>3 DEF SkipSpaces

\* A request line, place by place: the target begins at i and the spaces behind
\* it at j.
IsTarget(url) ==
  \/ url[1] = "PATH"
  \/ url[1] = "SCHEME" /\ \E k \in 2 .. Len(url) : url[k] \in HasSlash

Shape(l, i, j) ==
  /\ 2 < i /\ i < j /\ j < Len(l)
  /\ l[1] = "GET" /\ l[Len(l)] = "HTTP"
  /\ \A k \in 2 .. i - 1 : l[k] = "SP"
  /\ \A k \in i .. j - 1 : l[k] # "SP"
  /\ \A k \in j .. Len(l) - 1 : l[k] = "SP"
  /\ IsTarget(SubSeq(l, i, j - 1))

LEMMA Joined ==
  ASSUME NEW s \in Seq(Token), NEW t \in Seq(Token)
  PROVE  /\ s \o t \in Seq(Token) /\ Len(s \o t) = Len(s) + Len(t)
         /\ \A k \in 1 .. Len(s) : (s \o t)[k] = s[k]
         /\ \A k \in 1 .. Len(t) : (s \o t)[Len(s) + k] = t[k]
<1>1. Len(s) \in Nat /\ Len(t) \in Nat
  BY LenProperties
<1> DEFINE z == s \o t
<1>2. /\ z \in Seq(Token) /\ Len(z) = Len(s) + Len(t)
      /\ \A i \in 1 .. Len(s) + Len(t) :
           z[i] = IF i <= Len(s) THEN s[i] ELSE t[i - Len(s)]
  BY ConcatProperties
<1> HIDE DEF z
<1>3. \A k \in 1 .. Len(s) : z[k] = s[k]
  BY <1>1, <1>2
<1>4. ASSUME NEW k \in 1 .. Len(t) PROVE z[Len(s) + k] = t[k]
  <2>1. Len(s) + k \in 1 .. Len(s) + Len(t) /\ ~ (Len(s) + k <= Len(s))
    BY <1>1
  <2>2. (Len(s) + k) - Len(s) = k
    BY <1>1
  <2> QED BY <1>2, <2>1, <2>2
<1> QED BY <1>2, <1>3, <1>4 DEF z

\* The text of a request line, put together from its parts.
Assembly(l, i, j) ==
  <<"GET">> \o [k \in 1 .. i - 2 |-> "SP"] \o SubSeq(l, i, j - 1)
    \o [k \in 1 .. Len(l) - j |-> "SP"] \o <<"HTTP">>

LEMMA Assembled ==
  ASSUME NEW l \in Seq(Token), NEW i \in Nat, NEW j \in Nat,
         2 < i, i < j, j < Len(l)
  PROVE  /\ Assembly(l, i, j) \in Seq(Token) /\ Len(Assembly(l, i, j)) = Len(l)
         /\ Assembly(l, i, j)[1] = "GET" /\ Assembly(l, i, j)[Len(l)] = "HTTP"
         /\ \A k \in 2 .. i - 1 : Assembly(l, i, j)[k] = "SP"
         /\ \A k \in i .. j - 1 : Assembly(l, i, j)[k] = l[k]
         /\ \A k \in j .. Len(l) - 1 : Assembly(l, i, j)[k] = "SP"
<1> DEFINE x == Assembly(l, i, j)
           p == [k \in 1 .. i - 2 |-> "SP"]
           u == SubSeq(l, i, j - 1)
           q == [k \in 1 .. Len(l) - j |-> "SP"]
           x1 == <<"GET">> \o p
           x2 == x1 \o u
           x3 == x2 \o q
<1>0. Len(l) \in Nat
  BY LenProperties
<1>1. /\ <<"GET">> \in Seq(Token) /\ Len(<<"GET">>) = 1 /\ <<"GET">>[1] = "GET"
      /\ <<"HTTP">> \in Seq(Token) /\ Len(<<"HTTP">>) = 1 /\ <<"HTTP">>[1] = "HTTP"
  BY DEF Token
<1>2. p \in Seq(Token) /\ Len(p) = i - 2 /\ \A k \in 1 .. i - 2 : p[k] = "SP"
  <2>1. "SP" \in Token /\ i - 2 \in Nat
    BY DEF Token
  <2> QED BY <2>1
<1>3. q \in Seq(Token) /\ Len(q) = Len(l) - j /\ \A k \in 1 .. Len(l) - j : q[k] = "SP"
  <2>1. "SP" \in Token /\ Len(l) - j \in Nat
    BY <1>0 DEF Token
  <2> QED BY <2>1
<1>4. /\ u \in Seq(Token) /\ Len(u) = j - i
      /\ \A k \in 1 .. j - i : u[k] = l[i + k - 1]
  <2>1. /\ i \in Nat \ {0} /\ j - 1 \in Nat /\ i <= (j - 1) + 1 /\ j - 1 <= Len(l)
        /\ (j - 1) - i + 1 = j - i
    BY <1>0
  <2>2. /\ u \in Seq(Token) /\ Len(u) = (j - 1) - i + 1
        /\ \A k \in 1 .. (j - 1) - i + 1 : u[k] = l[i + k - 1]
    BY <2>1, Part
  <2> QED BY <2>1, <2>2
<1> HIDE DEF p, u, q
<1>5. /\ x1 \in Seq(Token) /\ Len(x1) = i - 1 /\ x1[1] = "GET"
      /\ \A k \in 2 .. i - 1 : x1[k] = "SP"
  <2>1. /\ x1 \in Seq(Token) /\ Len(x1) = 1 + (i - 2)
        /\ \A k \in 1 .. 1 : x1[k] = <<"GET">>[k]
        /\ \A k \in 1 .. i - 2 : x1[1 + k] = p[k]
    BY <1>1, <1>2, Joined
  <2> HIDE DEF x1
  <2>2. x1[1] = "GET"
    BY <1>1, <2>1
  <2>3. ASSUME NEW k \in 2 .. i - 1 PROVE x1[k] = "SP"
    <3>1. k - 1 \in 1 .. i - 2 /\ 1 + (k - 1) = k
      OBVIOUS
    <3> QED BY <2>1, <1>2, <3>1
  <2> QED BY <2>1, <2>2, <2>3
<1> HIDE DEF x1
<1>6. /\ x2 \in Seq(Token) /\ Len(x2) = j - 1
      /\ \A k \in 1 .. i - 1 : x2[k] = x1[k]
      /\ \A k \in i .. j - 1 : x2[k] = l[k]
  <2>1. /\ x2 \in Seq(Token) /\ Len(x2) = (i - 1) + (j - i)
        /\ \A k \in 1 .. i - 1 : x2[k] = x1[k]
        /\ \A k \in 1 .. j - i : x2[(i - 1) + k] = u[k]
    <3>1. /\ x2 \in Seq(Token) /\ Len(x2) = Len(x1) + Len(u)
          /\ \A k \in 1 .. Len(x1) : x2[k] = x1[k]
          /\ \A k \in 1 .. Len(u) : x2[Len(x1) + k] = u[k]
      BY <1>5, <1>4, Joined
    <3> HIDE DEF x2
    <3> QED BY <3>1, <1>5, <1>4
  <2> HIDE DEF x2
  <2>2. ASSUME NEW k \in i .. j - 1 PROVE x2[k] = l[k]
    <3>1. /\ k - (i - 1) \in 1 .. j - i /\ (i - 1) + (k - (i - 1)) = k
          /\ i + (k - (i - 1)) - 1 = k
      OBVIOUS
    <3> QED BY <2>1, <1>4, <3>1
  <2> QED BY <2>1, <2>2
<1> HIDE DEF x2
<1>7. /\ x3 \in Seq(Token) /\ Len(x3) = Len(l) - 1
      /\ \A k \in 1 .. j - 1 : x3[k] = x2[k]
      /\ \A k \in j .. Len(l) - 1 : x3[k] = "SP"
  <2>1. /\ x3 \in Seq(Token) /\ Len(x3) = (j - 1) + (Len(l) - j)
        /\ \A k \in 1 .. j - 1 : x3[k] = x2[k]
        /\ \A k \in 1 .. Len(l) - j : x3[(j - 1) + k] = q[k]
    <3>1. /\ x3 \in Seq(Token) /\ Len(x3) = Len(x2) + Len(q)
          /\ \A k \in 1 .. Len(x2) : x3[k] = x2[k]
          /\ \A k \in 1 .. Len(q) : x3[Len(x2) + k] = q[k]
      BY <1>6, <1>3, Joined
    <3> HIDE DEF x3
    <3> QED BY <3>1, <1>6, <1>3
  <2> HIDE DEF x3
  <2>2. ASSUME NEW k \in j .. Len(l) - 1 PROVE x3[k] = "SP"
    <3>1. k - (j - 1) \in 1 .. Len(l) - j /\ (j - 1) + (k - (j - 1)) = k
      BY <1>0
    <3> QED BY <2>1, <1>3, <3>1
  <2> QED BY <1>0, <2>1, <2>2
<1>8. x = x3 \o <<"HTTP">>
  BY DEF x3, x2, x1, p, u, q, Assembly
<1> HIDE DEF x3, x
<1>9. /\ x \in Seq(Token) /\ Len(x) = Len(l)
      /\ \A k \in 1 .. Len(l) - 1 : x[k] = x3[k]
      /\ x[Len(l)] = "HTTP"
  <2> DEFINE y == x3 \o <<"HTTP">>
  <2>1. /\ y \in Seq(Token) /\ Len(y) = (Len(l) - 1) + 1
        /\ \A k \in 1 .. Len(l) - 1 : y[k] = x3[k]
        /\ \A k \in 1 .. 1 : y[(Len(l) - 1) + k] = <<"HTTP">>[k]
    BY <1>7, <1>1, Joined
  <2>2. x = y
    BY <1>8
  <2> HIDE DEF y
  <2>3. y[(Len(l) - 1) + 1] = <<"HTTP">>[1] /\ (Len(l) - 1) + 1 = Len(l)
    BY <1>0, <2>1
  <2> QED BY <1>1, <2>1, <2>2, <2>3
<1>10. /\ x \in Seq(Token) /\ Len(x) = Len(l)
       /\ x[1] = "GET" /\ x[Len(l)] = "HTTP"
       /\ \A k \in 2 .. i - 1 : x[k] = "SP"
       /\ \A k \in i .. j - 1 : x[k] = l[k]
       /\ \A k \in j .. Len(l) - 1 : x[k] = "SP"
  <2>1. \A k \in 1 .. j - 1 : x[k] = x2[k]
    BY <1>0, <1>7, <1>9
  <2>2. \A k \in 1 .. i - 1 : x[k] = x1[k]
    BY <1>6, <2>1
  <2>3. x[1] = "GET" /\ \A k \in 2 .. i - 1 : x[k] = "SP"
    BY <1>5, <2>2
  <2>4. \A k \in i .. j - 1 : x[k] = l[k]
    BY <1>6, <2>1
  <2>5. ASSUME NEW k \in j .. Len(l) - 1 PROVE x[k] = "SP"
    <3>1. k \in 1 .. Len(l) - 1
      BY <1>0
    <3> QED BY <1>7, <1>9, <3>1
  <2> QED BY <1>9, <2>3, <2>4, <2>5
<1> QED BY <1>10 DEF x

\* IsRequestLine says what Shape says.
LEMMA ShapeOfLine ==
  ASSUME NEW l \in Seq(Token)
  PROVE  IsRequestLine(l) <=> \E i, j \in Nat : Shape(l, i, j)
<1>0. Len(l) \in Nat
  BY LenProperties
<1>1. ASSUME NEW i \in Nat, NEW j \in Nat, 2 < i, i < j, j < Len(l)
      PROVE  l = Assembly(l, i, j) /\ Spaces(SubSeq(l, i, j - 1)) = {}
               /\ IsTarget(SubSeq(l, i, j - 1))
             <=> Shape(l, i, j)
  <2> DEFINE x == Assembly(l, i, j)
             u == SubSeq(l, i, j - 1)
  <2>1. /\ x \in Seq(Token) /\ Len(x) = Len(l)
        /\ x[1] = "GET" /\ x[Len(l)] = "HTTP"
        /\ \A k \in 2 .. i - 1 : x[k] = "SP"
        /\ \A k \in i .. j - 1 : x[k] = l[k]
        /\ \A k \in j .. Len(l) - 1 : x[k] = "SP"
    BY <1>1, Assembled
  <2>2. /\ Len(u) = j - i
        /\ \A k \in 1 .. j - i : u[k] = l[i + k - 1]
    <3>1. /\ i \in Nat \ {0} /\ j - 1 \in Nat /\ i <= (j - 1) + 1 /\ j - 1 <= Len(l)
          /\ (j - 1) - i + 1 = j - i
      BY <1>0, <1>1
    <3>2. /\ Len(u) = (j - 1) - i + 1
          /\ \A k \in 1 .. (j - 1) - i + 1 : u[k] = l[i + k - 1]
      BY <3>1, Part
    <3> QED BY <3>1, <3>2
  <2>3. Spaces(u) = {} <=> \A k \in i .. j - 1 : l[k] # "SP"
    <3> HIDE DEF u
    <3>1. Spaces(u) = {} <=> \A k \in 1 .. j - i : u[k] # "SP"
      BY <2>2 DEF Spaces
    <3>2. (\A k \in 1 .. j - i : u[k] # "SP") => \A k \in i .. j - 1 : l[k] # "SP"
      <4> SUFFICES ASSUME \A k \in 1 .. j - i : u[k] # "SP", NEW k \in i .. j - 1
                   PROVE  l[k] # "SP"
        OBVIOUS
      <4>1. k - i + 1 \in 1 .. j - i /\ i + (k - i + 1) - 1 = k
        BY <1>1
      <4> QED BY <2>2, <4>1
    <3>3. (\A k \in i .. j - 1 : l[k] # "SP") => \A k \in 1 .. j - i : u[k] # "SP"
      BY <2>2, <1>1
    <3> QED BY <3>1, <3>2, <3>3
  <2>4. l = x <=> \A k \in 1 .. Len(l) : x[k] = l[k]
    <3> HIDE DEF x
    <3> QED BY <2>1, SeqEqual
  <2> HIDE DEF x
  <2>5. (\A k \in 1 .. Len(l) : x[k] = l[k]) <=>
          /\ l[1] = "GET" /\ l[Len(l)] = "HTTP"
          /\ \A k \in 2 .. i - 1 : l[k] = "SP"
          /\ \A k \in j .. Len(l) - 1 : l[k] = "SP"
    BY <1>0, <1>1, <2>1
  <2>6. l = Assembly(l, i, j) <=> l = x
    BY DEF x
  <2> HIDE DEF u
  <2>7. Shape(l, i, j) <=>
          /\ l[1] = "GET" /\ l[Len(l)] = "HTTP"
          /\ \A k \in 2 .. i - 1 : l[k] = "SP"
          /\ \A k \in i .. j - 1 : l[k] # "SP"
          /\ \A k \in j .. Len(l) - 1 : l[k] = "SP"
          /\ IsTarget(u)
    BY <1>1 DEF Shape, u
  <2>8. IsTarget(u) <=> IsTarget(SubSeq(l, i, j - 1))
    BY DEF u
  <2>9. Spaces(u) = {} <=> Spaces(SubSeq(l, i, j - 1)) = {}
    BY DEF u
  <2> QED BY <2>3, <2>4, <2>5, <2>6, <2>7, <2>8, <2>9
<1>2. IsRequestLine(l) <=>
        \E i, j \in 2 .. Len(l) :
          /\ i < j /\ i > 2 /\ j < Len(l)
          /\ l = Assembly(l, i, j) /\ Spaces(SubSeq(l, i, j - 1)) = {}
          /\ IsTarget(SubSeq(l, i, j - 1))
  BY DEF IsRequestLine, IsTarget, Assembly
<1>3. ASSUME NEW i \in Nat, NEW j \in Nat, Shape(l, i, j)
      PROVE  i \in 2 .. Len(l) /\ j \in 2 .. Len(l) /\ 2 < i /\ i < j /\ j < Len(l)
  BY <1>0, <1>3 DEF Shape
<1>4. ASSUME NEW i \in 2 .. Len(l), NEW j \in 2 .. Len(l)
      PROVE  i \in Nat /\ j \in Nat /\ (i > 2 <=> 2 < i)
  BY <1>0
<1> QED BY <1>1, <1>2, <1>3, <1>4

\* The same for the part of a text from place i on.
LEMMA PartOfPart ==
  ASSUME NEW l \in Seq(Token), NEW i \in 1 .. Len(l) + 1,
         NEW a \in Nat \ {0}, NEW b \in Nat, a <= b + 1, b <= Len(l) - i + 1
  PROVE  SubSeq(SubSeq(l, i, Len(l)), a, b) = SubSeq(l, i + a - 1, i + b - 1)
<1> DEFINE t == SubSeq(l, i, Len(l))
           x == SubSeq(t, a, b)
           y == SubSeq(l, i + a - 1, i + b - 1)
<1>0. Len(l) \in Nat /\ i \in Nat \ {0} /\ i <= Len(l) + 1
  BY LenProperties
<1>1. /\ t \in Seq(Token) /\ Len(t) = Len(l) - i + 1
      /\ \A k \in 1 .. Len(l) - i + 1 : t[k] = l[i + k - 1]
  BY <1>0, Part
<1> HIDE DEF t
<1>2. /\ x \in Seq(Token) /\ Len(x) = b - a + 1
      /\ \A k \in 1 .. b - a + 1 : x[k] = t[a + k - 1]
  BY <1>1, Part
<1>3. /\ i + a - 1 \in Nat \ {0} /\ i + b - 1 \in Nat
      /\ i + a - 1 <= (i + b - 1) + 1 /\ i + b - 1 <= Len(l)
      /\ (i + b - 1) - (i + a - 1) + 1 = b - a + 1
  BY <1>0
<1>4. /\ y \in Seq(Token) /\ Len(y) = (i + b - 1) - (i + a - 1) + 1
      /\ \A k \in 1 .. (i + b - 1) - (i + a - 1) + 1 : y[k] = l[(i + a - 1) + k - 1]
  BY <1>3, Part
<1> HIDE DEF x, y
<1>5. ASSUME NEW k \in 1 .. b - a + 1 PROVE x[k] = y[k]
  <2>1. /\ a + k - 1 \in 1 .. Len(l) - i + 1
        /\ i + (a + k - 1) - 1 = (i + a - 1) + k - 1
    BY <1>0
  <2> QED BY <1>1, <1>2, <1>3, <1>4, <2>1
<1>6. x = y
  BY <1>2, <1>3, <1>4, <1>5, SeqEqual
<1> QED BY <1>6 DEF x, y, t

LEMMA SpaceFoundFrom ==
  ASSUME NEW l \in Seq(Token), NEW i \in 1 .. Len(l) + 1,
         Spaces(SubSeq(l, i, Len(l))) # {}
  PROVE  \E m \in i .. Len(l) :
           /\ l[m] = "SP" /\ \A k \in i .. m - 1 : l[k] # "SP"
           /\ Before(SubSeq(l, i, Len(l))) = SubSeq(l, i, m - 1)
           /\ After(SubSeq(l, i, Len(l))) = SubSeq(l, m + 1, Len(l))
<1> DEFINE t == SubSeq(l, i, Len(l))
<1>0. Len(l) \in Nat /\ i \in Nat \ {0} /\ i <= Len(l) + 1
  BY LenProperties
<1>1. /\ t \in Seq(Token) /\ Len(t) = Len(l) - i + 1
      /\ \A k \in 1 .. Len(l) - i + 1 : t[k] = l[i + k - 1]
  BY <1>0, Part
<1>2. PICK d \in 1 .. Len(t) :
        /\ t[d] = "SP" /\ \A k \in 1 .. d - 1 : t[k] # "SP"
        /\ Before(t) = SubSeq(t, 1, d - 1) /\ After(t) = SubSeq(t, d + 1, Len(t))
  BY <1>1, SpaceFound
<1> DEFINE m == i + d - 1
<1>3. /\ m \in i .. Len(l) /\ d \in 1 .. Len(l) - i + 1 /\ d - 1 \in Nat
      /\ d + 1 \in Nat \ {0} /\ Len(t) \in Nat
      /\ 1 <= (d - 1) + 1 /\ d - 1 <= Len(l) - i + 1
      /\ d + 1 <= Len(t) + 1 /\ Len(t) <= Len(l) - i + 1
      /\ i + 1 - 1 = i /\ i + (d - 1) - 1 = m - 1
      /\ i + (d + 1) - 1 = m + 1 /\ i + Len(t) - 1 = Len(l)
  <2> HIDE DEF t
  <2> QED BY <1>0, <1>1, <1>2
<1>4. SubSeq(t, 1, d - 1) = SubSeq(l, i, m - 1)
  <2>1. SubSeq(t, 1, d - 1) = SubSeq(l, i + 1 - 1, i + (d - 1) - 1)
    BY <1>3, PartOfPart
  <2> HIDE DEF t, m
  <2> QED BY <2>1, <1>3
<1>5. SubSeq(t, d + 1, Len(t)) = SubSeq(l, m + 1, Len(l))
  <2>1. SubSeq(t, d + 1, Len(t)) = SubSeq(l, i + (d + 1) - 1, i + Len(t) - 1)
    BY <1>3, PartOfPart
  <2> HIDE DEF t, m
  <2> QED BY <2>1, <1>3
<1>6. l[m] = "SP" /\ \A k \in i .. m - 1 : l[k] # "SP"
  <2> HIDE DEF t
  <2>1. l[m] = "SP"
    BY <1>1, <1>2, <1>3
  <2>2. ASSUME NEW k \in i .. m - 1 PROVE l[k] # "SP"
    <3>1. k - i + 1 \in 1 .. d - 1 /\ i + (k - i + 1) - 1 = k
      BY <1>0, <1>3
    <3>2. k - i + 1 \in 1 .. Len(l) - i + 1
      BY <1>0, <1>3, <3>1
    <3> QED BY <1>1, <1>2, <3>1, <3>2
  <2> QED BY <2>1, <2>2
<1>7. /\ Before(t) = SubSeq(l, i, m - 1)
      /\ After(t) = SubSeq(l, m + 1, Len(l))
  BY <1>2, <1>4, <1>5
<1> HIDE DEF m
<1> QED BY <1>3, <1>6, <1>7

LEMMA FirstSpaceFrom ==
  ASSUME NEW l \in Seq(Token), NEW i \in 1 .. Len(l) + 1, NEW m \in i .. Len(l),
         l[m] = "SP", \A k \in i .. m - 1 : l[k] # "SP"
  PROVE  /\ Spaces(SubSeq(l, i, Len(l))) # {}
         /\ Before(SubSeq(l, i, Len(l))) = SubSeq(l, i, m - 1)
         /\ After(SubSeq(l, i, Len(l))) = SubSeq(l, m + 1, Len(l))
<1> DEFINE t == SubSeq(l, i, Len(l))
<1>0. Len(l) \in Nat /\ i \in Nat \ {0} /\ i <= Len(l) + 1
  BY LenProperties
<1>1. /\ t \in Seq(Token) /\ Len(t) = Len(l) - i + 1
      /\ \A k \in 1 .. Len(l) - i + 1 : t[k] = l[i + k - 1]
  BY <1>0, Part
<1> HIDE DEF t
<1>2. Spaces(t) # {}
  <2>1. m - i + 1 \in 1 .. Len(t) /\ i + (m - i + 1) - 1 = m
    BY <1>0, <1>1
  <2> QED BY <1>1, <2>1 DEF Spaces
<1>3. PICK d \in i .. Len(l) :
        /\ l[d] = "SP" /\ \A k \in i .. d - 1 : l[k] # "SP"
        /\ Before(t) = SubSeq(l, i, d - 1) /\ After(t) = SubSeq(l, d + 1, Len(l))
  BY <1>2, SpaceFoundFrom DEF t
<1>4. d = m
  BY <1>0, <1>3
<1> QED BY <1>2, <1>3, <1>4 DEF t

LEMMA WordFoundFrom ==
  ASSUME NEW l \in Seq(Token), NEW i \in 1 .. Len(l) + 1,
         SkipSpaces(SubSeq(l, i, Len(l))) # <<>>
  PROVE  \E m \in i .. Len(l) :
           /\ l[m] # "SP" /\ \A k \in i .. m - 1 : l[k] = "SP"
           /\ SkipSpaces(SubSeq(l, i, Len(l))) = SubSeq(l, m, Len(l))
<1> DEFINE t == SubSeq(l, i, Len(l))
<1>0. Len(l) \in Nat /\ i \in Nat \ {0} /\ i <= Len(l) + 1
  BY LenProperties
<1>1. /\ t \in Seq(Token) /\ Len(t) = Len(l) - i + 1
      /\ \A k \in 1 .. Len(l) - i + 1 : t[k] = l[i + k - 1]
  BY <1>0, Part
<1>2. PICK d \in 1 .. Len(t) :
        /\ t[d] # "SP" /\ \A k \in 1 .. d - 1 : t[k] = "SP"
        /\ SkipSpaces(t) = SubSeq(t, d, Len(t))
  BY <1>1, WordFound
<1> DEFINE m == i + d - 1
<1>3. /\ m \in i .. Len(l) /\ d \in 1 .. Len(l) - i + 1
      /\ d \in Nat \ {0} /\ Len(t) \in Nat
      /\ d <= Len(t) + 1 /\ Len(t) <= Len(l) - i + 1 /\ i + Len(t) - 1 = Len(l)
  <2> HIDE DEF t
  <2> QED BY <1>0, <1>1, <1>2
<1>4. SubSeq(t, d, Len(t)) = SubSeq(l, m, Len(l))
  <2>1. SubSeq(t, d, Len(t)) = SubSeq(l, i + d - 1, i + Len(t) - 1)
    BY <1>3, PartOfPart
  <2> HIDE DEF t
  <2> QED BY <2>1, <1>3
<1>5. l[m] # "SP" /\ \A k \in i .. m - 1 : l[k] = "SP"
  <2> HIDE DEF t
  <2>1. l[m] # "SP"
    BY <1>1, <1>2, <1>3
  <2>2. ASSUME NEW k \in i .. m - 1 PROVE l[k] = "SP"
    <3>1. k - i + 1 \in 1 .. d - 1 /\ i + (k - i + 1) - 1 = k
      BY <1>0, <1>3
    <3>2. k - i + 1 \in 1 .. Len(l) - i + 1
      BY <1>0, <1>3, <3>1
    <3> QED BY <1>1, <1>2, <3>1, <3>2
  <2> QED BY <2>1, <2>2
<1>6. SkipSpaces(t) = SubSeq(l, m, Len(l))
  BY <1>2, <1>4
<1> HIDE DEF m
<1> QED BY <1>3, <1>5, <1>6

LEMMA FirstWordFrom ==
  ASSUME NEW l \in Seq(Token), NEW i \in 1 .. Len(l) + 1, NEW m \in i .. Len(l),
         l[m] # "SP", \A k \in i .. m - 1 : l[k] = "SP"
  PROVE  SkipSpaces(SubSeq(l, i, Len(l))) = SubSeq(l, m, Len(l))
<1> DEFINE t == SubSeq(l, i, Len(l))
           d == m - i + 1
<1>0. Len(l) \in Nat /\ i \in Nat \ {0} /\ i <= Len(l) + 1
  BY LenProperties
<1>1. /\ t \in Seq(Token) /\ Len(t) = Len(l) - i + 1
      /\ \A k \in 1 .. Len(l) - i + 1 : t[k] = l[i + k - 1]
  BY <1>0, Part
<1>2. /\ d \in 1 .. Len(t) /\ i + d - 1 = m /\ d \in Nat \ {0} /\ Len(t) \in Nat
      /\ d <= Len(t) + 1 /\ Len(t) <= Len(l) - i + 1 /\ i + Len(t) - 1 = Len(l)
  <2> HIDE DEF t
  <2> QED BY <1>0, <1>1
<1>3. t[d] # "SP" /\ \A k \in 1 .. d - 1 : t[k] = "SP"
  <2> HIDE DEF t
  <2>1. t[d] = l[m]
    BY <1>1, <1>2
  <2>2. ASSUME NEW k \in 1 .. d - 1 PROVE t[k] = "SP"
    <3>1. i + k - 1 \in i .. m - 1 /\ k \in 1 .. Len(l) - i + 1
      BY <1>0
    <3> QED BY <1>1, <3>1
  <2> QED BY <2>1, <2>2
<1>4. SkipSpaces(t) = SubSeq(t, d, Len(t))
  <2> HIDE DEF t, d
  <2> QED BY <1>1, <1>2, <1>3, FirstWord
<1>5. SubSeq(t, d, Len(t)) = SubSeq(l, i + d - 1, i + Len(t) - 1)
  <2> HIDE DEF d
  <2> QED BY <1>2, PartOfPart
<1> QED BY <1>2, <1>4, <1>5

\* parse_requestline accepts exactly the request lines.
LEMMA RequestLine ==
  ASSUME NEW l \in Seq(Token)
  PROVE  parse_requestline(l) <=> IsRequestLine(l)
<1>0. Len(l) \in Nat /\ 1 \in 1 .. Len(l) + 1
  BY LenProperties
<1>3. l = SubSeq(l, 1, Len(l))
  <2>1. Len(l) \in Nat /\ 1 \in Nat \ {0} /\ 1 <= Len(l) + 1 /\ Len(l) <= Len(l)
        /\ Len(l) - 1 + 1 = Len(l)
    BY LenProperties
  <2> DEFINE y == SubSeq(l, 1, Len(l))
  <2>2. /\ y \in Seq(Token) /\ Len(y) = Len(l) - 1 + 1
        /\ \A k \in 1 .. Len(l) - 1 + 1 : y[k] = l[1 + k - 1]
    BY <2>1, Part
  <2> HIDE DEF y
  <2>3. \A k \in 1 .. Len(l) : y[k] = l[k]
    BY <2>1, <2>2
  <2>4. l = y
    BY <2>1, <2>2, <2>3, SeqEqual
  <2> QED BY <2>4 DEF y
<1>1. ASSUME parse_requestline(l)
      PROVE  \E i, j \in Nat : Shape(l, i, j)
  <2>1. Spaces(l) # {} /\ Before(l) = <<"GET">>
    BY <1>1 DEF parse_requestline
  <2>2. PICK m \in 1 .. Len(l) :
          /\ l[m] = "SP" /\ \A k \in 1 .. m - 1 : l[k] # "SP"
          /\ Before(l) = SubSeq(l, 1, m - 1) /\ After(l) = SubSeq(l, m + 1, Len(l))
    BY <2>1, SpaceFound
  <2>3. m = 2 /\ l[1] = "GET"
    <3> DEFINE y == SubSeq(l, 1, m - 1)
    <3>0. 1 \in Nat \ {0} /\ m - 1 \in Nat /\ 1 <= (m - 1) + 1 /\ m - 1 <= Len(l)
      BY <1>0
    <3>1. /\ Len(y) = (m - 1) - 1 + 1
          /\ \A k \in 1 .. (m - 1) - 1 + 1 : y[k] = l[1 + k - 1]
      BY <3>0, Part
    <3>2. y = <<"GET">>
      BY <2>1, <2>2
    <3> HIDE DEF y
    <3>3. Len(y) = 1 /\ y[1] = "GET"
      BY <3>2
    <3>4. m = 2
      <4>1. 1 = (m - 1) - 1 + 1
        BY <3>1, <3>3, Zenon
      <4> QED BY <3>0, <4>1
    <3>5. y[1] = l[1]
      BY <3>1, <3>4
    <3> QED BY <3>3, <3>4, <3>5
  <2> DEFINE rest == SkipSpaces(After(l))
  <2>4. /\ Spaces(rest) # {} /\ SkipSpaces(After(rest)) = <<"HTTP">>
        /\ UrlOK(Before(rest))
    BY <1>1 DEF parse_requestline
  <2>5. rest # <<>>
    BY <2>4 DEF Spaces
  <2>6. 3 \in 1 .. Len(l) + 1 /\ After(l) = SubSeq(l, 3, Len(l))
    BY <1>0, <2>2, <2>3
  <2>7. PICK i \in 3 .. Len(l) :
          /\ l[i] # "SP" /\ \A k \in 3 .. i - 1 : l[k] = "SP"
          /\ rest = SubSeq(l, i, Len(l))
    BY <2>5, <2>6, WordFoundFrom
  <2> HIDE DEF rest
  <2>8. i \in 1 .. Len(l) + 1
    BY <1>0
  <2>9. PICK j \in i .. Len(l) :
          /\ l[j] = "SP" /\ \A k \in i .. j - 1 : l[k] # "SP"
          /\ Before(rest) = SubSeq(l, i, j - 1) /\ After(rest) = SubSeq(l, j + 1, Len(l))
    BY <2>4, <2>7, <2>8, SpaceFoundFrom
  <2>10. j + 1 \in 1 .. Len(l) + 1 /\ i < j
    BY <1>0, <2>7, <2>9
  <2>11. SkipSpaces(After(rest)) # <<>>
    BY <2>4
  <2>12. PICK h \in j + 1 .. Len(l) :
           /\ l[h] # "SP" /\ \A k \in j + 1 .. h - 1 : l[k] = "SP"
           /\ SkipSpaces(After(rest)) = SubSeq(l, h, Len(l))
    BY <2>9, <2>10, <2>11, WordFoundFrom
  <2>13. h = Len(l) /\ l[h] = "HTTP"
    <3> DEFINE y == SubSeq(l, h, Len(l))
    <3>1. /\ Len(y) = Len(l) - h + 1
          /\ \A k \in 1 .. Len(l) - h + 1 : y[k] = l[h + k - 1]
      BY <1>0, Part
    <3>2. y = <<"HTTP">>
      BY <2>4, <2>12
    <3> HIDE DEF y
    <3>3. Len(y) = 1 /\ y[1] = "HTTP"
      BY <3>2
    <3>4. h = Len(l)
      <4>1. 1 = Len(l) - h + 1
        BY <3>1, <3>3, Zenon
      <4>2. h \in Int
        BY <1>0
      <4> QED BY <1>0, <4>1, <4>2
    <3>5. y[1] = l[h]
      BY <1>0, <3>1, <3>4
    <3> QED BY <3>3, <3>4, <3>5
  <2>14. IsTarget(SubSeq(l, i, j - 1))
    BY <2>4, <2>9, Zenon DEF UrlOK, IsTarget
  <2>15. /\ 2 < i /\ i < j /\ j < Len(l) /\ l[Len(l)] = "HTTP"
         /\ \A k \in 2 .. i - 1 : l[k] = "SP"
         /\ \A k \in j .. Len(l) - 1 : l[k] = "SP"
    <3>1. \A k \in 2 .. i - 1 : l[k] = "SP"
      BY <2>2, <2>3, <2>7
    <3>2. \A k \in j .. Len(l) - 1 : l[k] = "SP"
      BY <1>0, <2>9, <2>12, <2>13
    <3>3. 2 < i /\ i < j /\ j < Len(l) /\ l[Len(l)] = "HTTP"
      BY <1>0, <2>10, <2>13
    <3> QED BY <3>1, <3>2, <3>3
  <2>16. Shape(l, i, j)
    BY <2>3, <2>9, <2>14, <2>15 DEF Shape
  <2> QED BY <1>0, <2>16
<1>2. ASSUME NEW i \in Nat, NEW j \in Nat, Shape(l, i, j)
      PROVE  parse_requestline(l)
  <2> USE <1>2
  <2>1. /\ 2 < i /\ i < j /\ j < Len(l)
        /\ l[1] = "GET" /\ l[Len(l)] = "HTTP"
        /\ \A k \in 2 .. i - 1 : l[k] = "SP"
        /\ \A k \in i .. j - 1 : l[k] # "SP"
        /\ \A k \in j .. Len(l) - 1 : l[k] = "SP"
    BY DEF Shape
  <2>2. /\ 2 \in 1 .. Len(l) /\ l[2] = "SP" /\ \A k \in 1 .. 2 - 1 : l[k] # "SP"
    BY <1>0, <2>1
  <2>3. Spaces(l) # {} /\ Before(l) = SubSeq(l, 1, 2 - 1) /\ After(l) = SubSeq(l, 2 + 1, Len(l))
    BY <1>0, <1>3, <2>2, FirstSpaceFrom
  <2>4. Before(l) = <<"GET">>
    <3> DEFINE y == SubSeq(l, 1, 2 - 1)
    <3>1. /\ y \in Seq(Token) /\ Len(y) = (2 - 1) - 1 + 1
          /\ \A k \in 1 .. (2 - 1) - 1 + 1 : y[k] = l[1 + k - 1]
      BY <1>0, <2>2, Part
    <3> HIDE DEF y
    <3>2. y \in Seq(Token) /\ Len(y) = 1 /\ y[1] = "GET"
      BY <2>1, <3>1
    <3>3. y = <<"GET">>
      BY <3>2
    <3> QED BY <2>3, <3>3 DEF y
  <2>5. 2 + 1 \in 1 .. Len(l) + 1 /\ i \in 2 + 1 .. Len(l) /\ l[i] # "SP"
        /\ \A k \in 2 + 1 .. i - 1 : l[k] = "SP"
    BY <1>0, <2>1
  <2> DEFINE rest == SkipSpaces(After(l))
  <2>6. rest = SubSeq(l, i, Len(l))
    BY <2>3, <2>5, FirstWordFrom
  <2> HIDE DEF rest
  <2>7. i \in 1 .. Len(l) + 1 /\ j \in i .. Len(l) /\ l[j] = "SP"
    BY <1>0, <2>1
  <2>8. /\ Spaces(rest) # {} /\ Before(rest) = SubSeq(l, i, j - 1)
        /\ After(rest) = SubSeq(l, j + 1, Len(l))
    BY <2>1, <2>6, <2>7, FirstSpaceFrom
  <2>9. /\ j + 1 \in 1 .. Len(l) + 1 /\ Len(l) \in j + 1 .. Len(l) /\ l[Len(l)] # "SP"
        /\ \A k \in j + 1 .. Len(l) - 1 : l[k] = "SP"
    BY <1>0, <2>1
  <2>10. SkipSpaces(After(rest)) = SubSeq(l, Len(l), Len(l))
    BY <2>8, <2>9, FirstWordFrom
  <2>11. SubSeq(l, Len(l), Len(l)) = <<"HTTP">>
    <3> DEFINE y == SubSeq(l, Len(l), Len(l))
    <3>1. /\ y \in Seq(Token) /\ Len(y) = Len(l) - Len(l) + 1
          /\ \A k \in 1 .. Len(l) - Len(l) + 1 : y[k] = l[Len(l) + k - 1]
      BY <1>0, <2>2, Part
    <3> HIDE DEF y
    <3>2. y \in Seq(Token) /\ Len(y) = 1 /\ y[1] = "HTTP"
      BY <1>0, <2>1, <3>1
    <3>3. y = <<"HTTP">>
      BY <3>2
    <3> QED BY <3>3 DEF y
  <2>12. UrlOK(Before(rest))
    <3>1. IsTarget(SubSeq(l, i, j - 1))
      BY DEF Shape
    <3> QED BY <2>8, <3>1, Zenon DEF UrlOK, IsTarget
  <2> QED BY <2>3, <2>4, <2>8, <2>10, <2>11, <2>12, Zenon DEF parse_requestline, rest
<1> QED BY <1>1, <1>2, ShapeOfLine

-----------------------------------------------------------------------------
(* The reference answer, from the lines found so far *)

LEMMA GreatestIs ==
  ASSUME NEW S, S \subseteq Nat, NEW x \in S, \A y \in S : y <= x
  PROVE  Max(S) = x
<1>1. \A y \in S : x >= y
  OBVIOUS
<1>2. Max(S) \in S /\ Max(S) >= x
  BY <1>1 DEF Max
<1>3. Max(S) \in Nat /\ x \in Nat /\ Max(S) <= x
  BY <1>2
<1> QED BY <1>2, <1>3

LEMMA GreatestElement ==
  ASSUME NEW S, S \subseteq Nat, S # {}, NEW b \in Nat, \A y \in S : y <= b
  PROVE  Max(S) \in S
<1> DEFINE D == {b - y : y \in S}
<1>1. D \subseteq Nat /\ D # {}
  <2>1. \A y \in S : b - y \in Nat
    OBVIOUS
  <2>2. PICK y \in S : TRUE
    OBVIOUS
  <2>3. b - y \in D
    OBVIOUS
  <2> QED BY <2>1, <2>3
<1>2. Min(D) \in D /\ \A m \in D : Min(D) <= m
  BY <1>1, LeastElement
<1>3. PICK x \in S : Min(D) = b - x
  BY <1>2
<1>4. \A y \in S : b - x <= b - y
  BY <1>2, <1>3
<1>5. \A y \in S : y <= x
  BY <1>4
<1>6. Max(S) = x
  BY <1>5, GreatestIs
<1> QED BY <1>6

\* The sets of Outcome.
Crs(s) == {i \in 1 .. Len(s) - 1 : s[i] = "CR"}
Bads(s) == {i \in Crs(s) : s[i + 1] # "LF"}
EndsOf(s) == {i \in Crs(s) : \A b \in Bads(s) : i < b}
Starts(s, i) == {e + 2 : e \in {e \in EndsOf(s) : e < i}}

LEMMA OutcomeIs ==
  ASSUME NEW s
  PROVE  Outcome(s) =
           IF EndsOf(s) # {} /\ ~ IsRequestLine(SubSeq(s, 1, Min(EndsOf(s)) - 1))
           THEN "BAD_REQUEST"
           ELSE IF \E i, e \in EndsOf(s) : e < i /\ Max(Starts(s, i)) = i
           THEN "GET_REQUEST"
           ELSE IF Bads(s) # {} THEN "BAD_REQUEST" ELSE "NO_REQUEST"
BY Zenon DEF Outcome, EndsOf, Bads, Crs, Starts

\* The first a characters of s are complete lines.
Whole(s, a) ==
  /\ \A i \in 1 .. a : s[i] = "CR" => i < a /\ s[i + 1] = "LF"
  /\ a > 0 => a >= 2 /\ s[a - 1] = "CR" /\ s[a] = "LF"

\* They begin with a request line, which no empty line has followed yet.
FirstEnd(s, f) ==
  /\ s[f] = "CR" /\ \A i \in 1 .. f - 1 : s[i] # "CR"
  /\ IsRequestLine(SubSeq(s, 1, f - 1))

Headed(s, a) ==
  /\ a > 0
  /\ \E f \in 1 .. a - 1 : FirstEnd(s, f)
  /\ \A i \in 3 .. a : ~ (s[i - 2] = "CR" /\ s[i] = "CR")

\* While the line ends are those of the lines that were found, the request is
\* neither wrong nor complete.
LEMMA NoAnswerYet ==
  ASSUME NEW s \in Seq(Token), NEW a \in 0 .. Len(s), Whole(s, a),
         a = 0 \/ Headed(s, a), EndsOf(s) = {i \in 1 .. a : s[i] = "CR"}
  PROVE  Outcome(s) = IF Bads(s) # {} THEN "BAD_REQUEST" ELSE "NO_REQUEST"
<1>0. Len(s) \in Nat
  BY LenProperties
<1>1. EndsOf(s) # {} => IsRequestLine(SubSeq(s, 1, Min(EndsOf(s)) - 1))
  <2> SUFFICES ASSUME EndsOf(s) # {}
               PROVE  IsRequestLine(SubSeq(s, 1, Min(EndsOf(s)) - 1))
    OBVIOUS
  <2>1. Headed(s, a)
    BY <1>0
  <2>2. PICK f \in 1 .. a - 1 : FirstEnd(s, f)
    BY <2>1 DEF Headed
  <2>3. f \in EndsOf(s) /\ EndsOf(s) \subseteq Nat /\ \A y \in EndsOf(s) : f <= y
    BY <1>0, <2>2 DEF FirstEnd
  <2>4. Min(EndsOf(s)) = f
    BY <2>3, LeastIs
  <2> QED BY <2>2, <2>4 DEF FirstEnd
<1>2. ASSUME NEW i \in EndsOf(s), NEW e \in EndsOf(s), e < i, Max(Starts(s, i)) = i
      PROVE  FALSE
  <2>1. /\ Starts(s, i) \subseteq Nat /\ e + 2 \in Starts(s, i) /\ Len(s) + 2 \in Nat
        /\ \A y \in Starts(s, i) : y <= Len(s) + 2
    BY <1>0, <1>2 DEF Starts
  <2>2. i \in Starts(s, i)
    <3>1. Starts(s, i) # {}
      BY <2>1
    <3> QED BY <1>2, <2>1, <3>1, GreatestElement
  <2>3. PICK d \in EndsOf(s) : i = d + 2
    BY <2>2 DEF Starts
  <2>4. i \in 3 .. a /\ s[i - 2] = "CR" /\ s[i] = "CR"
    BY <1>0, <2>3
  <2>5. Headed(s, a)
    BY <1>0, <2>4
  <2> QED BY <2>4, <2>5 DEF Headed
<1> QED BY <1>1, <1>2, OutcomeIs, Zenon

LEMMA AnswerNone ==
  ASSUME NEW s \in Seq(Token), NEW a \in 0 .. Len(s), Whole(s, a),
         a = 0 \/ Headed(s, a), \A i \in a + 1 .. Len(s) - 1 : s[i] # "CR"
  PROVE  Outcome(s) = "NO_REQUEST"
<1>0. Len(s) \in Nat
  BY LenProperties
<1>1. \A i \in Crs(s) : i \in 1 .. a /\ s[i] = "CR"
  BY <1>0 DEF Crs
<1>2. Bads(s) = {}
  BY <1>1 DEF Bads, Whole
<1>3. \A i \in 1 .. a : s[i] = "CR" => i \in Crs(s)
  BY <1>0 DEF Crs, Whole
<1>4. EndsOf(s) = {i \in 1 .. a : s[i] = "CR"}
  BY <1>1, <1>2, <1>3 DEF EndsOf
<1> QED BY <1>2, <1>4, NoAnswerYet

\* A CR that something else follows than LF.
LEMMA AnswerBad ==
  ASSUME NEW s \in Seq(Token), NEW a \in 0 .. Len(s), Whole(s, a),
         a = 0 \/ Headed(s, a),
         NEW p \in a + 1 .. Len(s) - 1, \A i \in a + 1 .. p - 1 : s[i] # "CR",
         s[p] = "CR", s[p + 1] # "LF"
  PROVE  Outcome(s) = "BAD_REQUEST"
<1>0. Len(s) \in Nat /\ a \in Nat /\ p \in Nat
  BY LenProperties
<1>1. p \in Crs(s) /\ p \in Bads(s)
  BY <1>0 DEF Crs, Bads
<1>2. \A i \in EndsOf(s) : i \in 1 .. a /\ s[i] = "CR"
  BY <1>0, <1>1 DEF EndsOf, Crs
<1>3. \A i \in 1 .. a : s[i] = "CR" => i \in Crs(s)
  BY <1>0 DEF Crs, Whole
<1>4. \A b \in Bads(s) : b \in Nat /\ a < b
  BY <1>0 DEF Bads, Crs, Whole
<1>5. \A i \in 1 .. a : s[i] = "CR" => i \in EndsOf(s)
  BY <1>0, <1>3, <1>4 DEF EndsOf
<1>6. EndsOf(s) = {i \in 1 .. a : s[i] = "CR"}
  BY <1>2, <1>5
<1> QED BY <1>1, <1>6, NoAnswerYet

\* A first line that is no request line.
LEMMA AnswerLine ==
  ASSUME NEW s \in Seq(Token), NEW p \in 1 .. Len(s) - 1,
         \A i \in 1 .. p - 1 : s[i] # "CR", s[p] = "CR", s[p + 1] = "LF",
         ~ IsRequestLine(SubSeq(s, 1, p - 1))
  PROVE  Outcome(s) = "BAD_REQUEST"
<1>0. Len(s) \in Nat /\ p \in Nat
  BY LenProperties
<1>1. p \in Crs(s) /\ \A i \in Crs(s) : i \in Nat /\ p <= i
  BY <1>0 DEF Crs
<1>2. \A b \in Bads(s) : p < b
  BY <1>0, <1>1 DEF Bads
<1>3. p \in EndsOf(s) /\ EndsOf(s) \subseteq Nat /\ \A i \in EndsOf(s) : p <= i
  BY <1>1, <1>2 DEF EndsOf
<1>4. Min(EndsOf(s)) = p /\ EndsOf(s) # {}
  BY <1>3, LeastIs
<1> QED BY <1>4, OutcomeIs

\* The first empty line behind a request line.
LEMMA AnswerGet ==
  ASSUME NEW s \in Seq(Token), NEW a \in 0 .. Len(s), Whole(s, a), Headed(s, a),
         a + 2 <= Len(s), s[a + 1] = "CR", s[a + 2] = "LF"
  PROVE  Outcome(s) = "GET_REQUEST"
<1>0. Len(s) \in Nat /\ a \in Nat
  BY LenProperties
<1>1. /\ a >= 2 /\ s[a - 1] = "CR" /\ s[a] = "LF"
  BY <1>0 DEF Headed, Whole
<1>2. /\ \A i \in 1 .. a + 1 : s[i] = "CR" => i \in Crs(s)
      /\ \A b \in Bads(s) : b \in Nat /\ a + 1 < b
  <2>1. \A i \in 1 .. a + 1 : s[i] = "CR" => i \in Crs(s)
    BY <1>0 DEF Crs
  <2>2. ASSUME NEW b \in Bads(s) PROVE b \in Nat /\ a + 1 < b
    <3>1. b \in 1 .. Len(s) - 1 /\ s[b] = "CR" /\ s[b + 1] # "LF"
      BY DEF Bads, Crs
    <3>2. b # a + 1
      BY <1>0, <3>1
    <3>3. ~ (b <= a)
      BY <1>0, <3>1 DEF Whole
    <3> QED BY <1>0, <3>1, <3>2, <3>3
  <2> QED BY <2>1, <2>2
<1>3. \A i \in 1 .. a + 1 : s[i] = "CR" => i \in EndsOf(s)
  BY <1>0, <1>2 DEF EndsOf
<1>4. EndsOf(s) \subseteq Nat \ {0} /\ \A i \in EndsOf(s) : s[i] = "CR"
  BY <1>0 DEF EndsOf, Crs
<1>5. IsRequestLine(SubSeq(s, 1, Min(EndsOf(s)) - 1))
  <2>1. PICK f \in 1 .. a - 1 : FirstEnd(s, f)
    BY DEF Headed
  <2>2. f \in EndsOf(s) /\ EndsOf(s) \subseteq Nat /\ \A y \in EndsOf(s) : f <= y
    BY <1>0, <1>3, <1>4, <2>1 DEF FirstEnd
  <2>3. Min(EndsOf(s)) = f
    BY <2>2, LeastIs
  <2> QED BY <2>1, <2>3 DEF FirstEnd
<1>6. Max(Starts(s, a + 1)) = a + 1
  <2>1. a - 1 \in EndsOf(s) /\ a - 1 < a + 1 /\ (a - 1) + 2 = a + 1
    BY <1>0, <1>1, <1>3
  <2>2. a + 1 \in Starts(s, a + 1)
    BY <2>1 DEF Starts
  <2>3. \A e \in EndsOf(s) : e < a + 1 => e <= a - 1
    BY <1>0, <1>1, <1>4
  <2>4. Starts(s, a + 1) \subseteq Nat /\ \A y \in Starts(s, a + 1) : y <= a + 1
    BY <1>0, <1>4, <2>3 DEF Starts
  <2> QED BY <2>2, <2>4, GreatestIs
<1>7. a + 1 \in EndsOf(s) /\ a - 1 \in EndsOf(s) /\ a - 1 < a + 1
  BY <1>0, <1>1, <1>3
<1> QED BY <1>5, <1>6, <1>7, OutcomeIs, Zenon

\* What is known of the text holds of the part that was received.
LEMMA Received ==
  ASSUME NEW t \in Seq(Token), NEW r \in 0 .. Len(t), NEW a \in 0 .. r
  PROVE  /\ SubSeq(t, 1, r) \in Seq(Token) /\ Len(SubSeq(t, 1, r)) = r
         /\ \A k \in 1 .. r : SubSeq(t, 1, r)[k] = t[k]
         /\ SubSeq(SubSeq(t, 1, r), 1, a) = SubSeq(t, 1, a)
         /\ Whole(t, a) => Whole(SubSeq(t, 1, r), a)
         /\ Headed(t, a) => Headed(SubSeq(t, 1, r), a)
<1> DEFINE s == SubSeq(t, 1, r)
<1>0. Len(t) \in Nat /\ r \in Nat /\ a \in Nat /\ a <= r /\ r <= Len(t)
  BY LenProperties
<1>1. s \in Seq(Token) /\ Len(s) = r /\ \A k \in 1 .. r : s[k] = t[k]
  <2>1. /\ s \in Seq(Token) /\ Len(s) = r - 1 + 1
        /\ \A k \in 1 .. r - 1 + 1 : s[k] = t[1 + k - 1]
    BY <1>0, Part
  <2> HIDE DEF s
  <2> QED BY <1>0, <2>1
<1> HIDE DEF s
<1>2. ASSUME NEW b \in 0 .. r PROVE SubSeq(s, 1, b) = SubSeq(t, 1, b)
  <2> DEFINE x == SubSeq(s, 1, b)
             y == SubSeq(t, 1, b)
  <2>0. b \in Nat /\ b <= r /\ b <= Len(t) /\ b - 1 + 1 = b
    BY <1>0
  <2>1. /\ x \in Seq(Token) /\ Len(x) = b - 1 + 1
        /\ \A k \in 1 .. b - 1 + 1 : x[k] = s[1 + k - 1]
    BY <1>1, <2>0, Part
  <2>2. /\ y \in Seq(Token) /\ Len(y) = b - 1 + 1
        /\ \A k \in 1 .. b - 1 + 1 : y[k] = t[1 + k - 1]
    BY <2>0, Part
  <2> HIDE DEF x, y
  <2>3. \A k \in 1 .. b : x[k] = y[k]
    BY <1>0, <1>1, <2>0, <2>1, <2>2
  <2>4. x = y
    BY <2>0, <2>1, <2>2, <2>3, SeqEqual
  <2> QED BY <2>4 DEF x, y
<1>3. Whole(t, a) => Whole(s, a)
  BY <1>0, <1>1 DEF Whole
<1>4. ASSUME Headed(t, a) PROVE Headed(s, a)
  <2>1. PICK f \in 1 .. a - 1 : FirstEnd(t, f)
    BY <1>4 DEF Headed
  <2>2. SubSeq(s, 1, f - 1) = SubSeq(t, 1, f - 1)
    <3>1. f - 1 \in 0 .. r
      BY <1>0
    <3> QED BY <1>2, <3>1
  <2>3. FirstEnd(s, f)
    <3>1. s[f] = t[f] /\ \A i \in 1 .. f - 1 : s[i] = t[i]
      BY <1>0, <1>1
    <3> QED BY <2>1, <2>2, <3>1, Zenon DEF FirstEnd
  <2>4. \A i \in 3 .. a : s[i] = t[i] /\ s[i - 2] = t[i - 2]
    BY <1>0, <1>1
  <2> QED BY <1>4, <2>3, <2>4 DEF Headed
<1>5. SubSeq(s, 1, a) = SubSeq(t, 1, a)
  BY <1>2
<1> QED BY <1>1, <1>3, <1>4, <1>5 DEF s

-----------------------------------------------------------------------------
(* The answer does not depend on the pieces *)

\* While the request is being read: what is behind start_line is as it was sent,
\* what is before it are complete lines, and no line ends between start_line and
\* checked_index, nor anywhere in what was received when recv is called.
Reading ==
  /\ result = "NO_REQUEST"
  /\ read_index <= Len(stream)
  /\ \A i \in start_line .. read_index - 1 : buffer[i] = stream[i + 1]
  /\ start_line > 0 => buffer[start_line - 1] = "NUL"
  /\ Whole(stream, start_line)
  /\ checkstate = "REQUESTLINE" => start_line = 0
  /\ checkstate = "HEADER" => Headed(stream, start_line)
  /\ \A i \in start_line + 1 .. checked_index : stream[i] # "CR"
  /\ phase = "recv" => \A i \in start_line + 1 .. read_index - 1 : stream[i] # "CR"

PieceInv ==
  /\ phase # "done" => Reading
  /\ phase = "done" => PiecesDoNotMatter

\* The first line end behind start_line is at p.
NextEnd(p) ==
  /\ p \in start_line + 1 .. read_index - 1
  /\ stream[p] = "CR" /\ \A i \in start_line + 1 .. p - 1 : stream[i] # "CR"

\* What parse_line finds.
LEMMA ParseLineFinds ==
  ASSUME ParseType, stream \in Seq(Token), Reading
  PROVE  \/ /\ parse_line.status = "OPEN"
            /\ \A i \in start_line + 1 .. parse_line.checked : stream[i] # "CR"
            /\ \A i \in start_line + 1 .. read_index - 1 : stream[i] # "CR"
         \/ /\ parse_line.status = "OK"
            /\ \E p \in Nat : /\ NextEnd(p) /\ stream[p + 1] = "LF"
                              /\ parse_line.checked = p + 1
                              /\ parse_line.erased = {p - 1, p}
         \/ /\ parse_line.status = "BAD"
            /\ \E p \in Nat : NextEnd(p) /\ stream[p + 1] # "LF"
<1>0. /\ Size \in Nat /\ Len(stream) \in Nat
      /\ read_index \in Nat /\ checked_index \in Nat /\ start_line \in Nat
      /\ start_line <= checked_index /\ checked_index <= read_index
      /\ read_index <= Size /\ read_index <= Len(stream)
  BY ParseAssumption, LenProperties DEF ParseType, Reading
<1>1. \A i \in start_line .. read_index - 1 : buffer[i] = stream[i + 1]
  BY DEF Reading
<1>2. \A i \in start_line + 1 .. checked_index : stream[i] # "CR"
  BY DEF Reading
<1>3. CASE Stops = {}
  <2>1. \A i \in checked_index .. read_index - 1 : buffer[i] # "CR"
    BY <1>3 DEF Stops
  <2>2. ASSUME NEW i \in start_line + 1 .. read_index PROVE stream[i] # "CR"
    <3>1. CASE i <= checked_index
      BY <1>0, <1>2, <3>1
    <3>2. CASE i > checked_index
      <4>1. i - 1 \in checked_index .. read_index - 1 /\ (i - 1) + 1 = i
            /\ i - 1 \in start_line .. read_index - 1
        BY <1>0, <3>2
      <4> QED BY <1>1, <2>1, <4>1
    <3> QED BY <1>0, <3>1, <3>2
  <2>3. parse_line.status = "OPEN" /\ parse_line.checked = read_index
    BY <1>3 DEF parse_line, LineOpen
  <2> QED BY <1>0, <2>2, <2>3
<1>4. CASE Stops # {}
  <2> DEFINE first == Min(Stops)
  <2>1. Stops \subseteq Nat
    BY <1>0 DEF Stops
  <2>2. first \in Stops /\ \A m \in Stops : first <= m
    BY <2>1, <1>4, LeastElement
  <2>3. parse_line = IF buffer[first] = "LF" THEN LineOK(first + 1)
                     ELSE IF first + 1 = read_index THEN LineOpen(first)
                     ELSE IF buffer[first + 1] = "LF" THEN LineOK(first + 2)
                     ELSE LineBad(first)
    BY <1>4 DEF parse_line
  <2> HIDE DEF first
  <2>4. /\ first \in Nat /\ checked_index <= first /\ first < read_index
        /\ \/ buffer[first] = "CR"
           \/ buffer[first] = "LF" /\ first > 1 /\ buffer[first - 1] = "CR"
    BY <1>0, <2>2 DEF Stops
  <2>5. \A i \in checked_index .. first - 1 : buffer[i] # "CR"
    BY <1>0, <2>2, <2>4 DEF Stops
  <2>6. \A i \in start_line + 1 .. first : stream[i] # "CR"
    <3> SUFFICES ASSUME NEW i \in start_line + 1 .. first PROVE stream[i] # "CR"
      OBVIOUS
    <3>1. CASE i <= checked_index
      BY <1>0, <1>2, <2>4, <3>1
    <3>2. CASE i > checked_index
      <4>1. i - 1 \in checked_index .. first - 1 /\ (i - 1) + 1 = i
            /\ i - 1 \in start_line .. read_index - 1
        BY <1>0, <2>4, <3>2
      <4> QED BY <1>1, <2>5, <4>1
    <3> QED BY <1>0, <2>4, <3>1, <3>2
  <2>7. buffer[first] = "CR"
    <3> SUFFICES ASSUME buffer[first] = "LF", first > 1, buffer[first - 1] = "CR"
                 PROVE  FALSE
      BY <2>4
    <3>1. first - 1 >= start_line => buffer[first - 1] = stream[first]
      <4>1. first - 1 >= start_line => first - 1 \in start_line .. read_index - 1
        BY <1>0, <2>4
      <4>2. (first - 1) + 1 = first
        BY <2>4
      <4> QED BY <1>1, <4>1, <4>2
    <3>2. first - 1 >= start_line => first \in start_line + 1 .. first
      BY <1>0, <2>4
    <3>3. ~ (first - 1 >= start_line) => start_line > 0 /\ first - 1 = start_line - 1
      BY <1>0, <2>4
    <3>4. start_line > 0 => buffer[start_line - 1] = "NUL"
      BY DEF Reading
    <3> QED BY <2>6, <3>1, <3>2, <3>3, <3>4
  <2> DEFINE p == first + 1
  <2>8. /\ p \in Nat /\ p - 1 = first /\ first + 2 = p + 1 /\ (first + 2) - 2 = p - 1
        /\ (first + 2) - 1 = p /\ p <= read_index /\ start_line < p
    BY <1>0, <2>4
  <2>9. stream[p] = "CR"
    BY <1>0, <1>1, <2>4, <2>7
  <2>10. first + 1 # read_index => p \in start_line + 1 .. read_index - 1
    BY <1>0, <2>4
  <2>11. first + 1 # read_index => buffer[first + 1] = stream[p + 1]
    BY <1>0, <1>1, <2>4
  <2>12. \A i \in start_line + 1 .. p - 1 : stream[i] # "CR"
    BY <2>6, <2>8
  <2>13. CASE first + 1 = read_index
    <3>1. parse_line.status = "OPEN" /\ parse_line.checked = first
      BY <2>3, <2>7, <2>13 DEF LineOpen
    <3> QED BY <2>6, <2>8, <2>13, <3>1
  <2>14. CASE first + 1 # read_index /\ buffer[first + 1] = "LF"
    <3>1. parse_line = LineOK(first + 2)
      BY <2>3, <2>7, <2>14
    <3>2. /\ parse_line.status = "OK" /\ parse_line.checked = p + 1
          /\ parse_line.erased = {p - 1, p}
      BY <2>8, <3>1 DEF LineOK
    <3>3. NextEnd(p)
      BY <2>9, <2>10, <2>12, <2>14 DEF NextEnd
    <3> QED BY <2>8, <2>11, <2>14, <3>2, <3>3
  <2>15. CASE first + 1 # read_index /\ buffer[first + 1] # "LF"
    <3>1. parse_line.status = "BAD"
      BY <2>3, <2>7, <2>15 DEF LineBad
    <3>2. NextEnd(p)
      BY <2>9, <2>10, <2>12, <2>15 DEF NextEnd
    <3> QED BY <2>8, <2>11, <2>15, <3>1, <3>2
  <2> QED BY <2>13, <2>14, <2>15
<1> QED BY <1>3, <1>4

\* The separators lie inside the line.
LEMMA SeparatorsBound ==
  ASSUME NEW l \in Seq(Token)
  PROVE  Separators(l) \subseteq 1 .. Len(l)
<1> DEFINE rest == SkipSpaces(After(l))
           d == Len(l) - Len(rest) + Min(Spaces(rest))
<1>0. Len(l) \in Nat
  BY LenProperties
<1>1. CASE Spaces(l) = {}
  BY <1>1 DEF Separators
<1>2. CASE Spaces(l) # {}
  <2>1. Min(Spaces(l)) \in 1 .. Len(l)
    <3>1. Spaces(l) \subseteq Nat /\ Spaces(l) \subseteq 1 .. Len(l)
      BY <1>0 DEF Spaces
    <3> QED BY <1>2, <3>1, LeastElement
  <2>2. PICK m \in 1 .. Len(l) : After(l) = SubSeq(l, m + 1, Len(l))
    BY <1>2, SpaceFound
  <2>3. Spaces(rest) # {} => d \in 1 .. Len(l)
    <3> SUFFICES ASSUME Spaces(rest) # {} PROVE d \in 1 .. Len(l)
      OBVIOUS
    <3>1. m + 1 \in 1 .. Len(l) + 1
      BY <1>0
    <3>2. rest # <<>>
      BY DEF Spaces
    <3>3. PICK i \in m + 1 .. Len(l) : rest = SubSeq(l, i, Len(l))
      BY <2>2, <3>1, <3>2, WordFoundFrom
    <3> HIDE DEF rest
    <3>4. i \in Nat \ {0} /\ i <= Len(l)
      BY <1>0
    <3>5. Len(rest) = Len(l) - i + 1
      BY <1>0, <3>3, <3>4, Part
    <3>6. Spaces(rest) \subseteq Nat /\ Spaces(rest) \subseteq 1 .. Len(rest)
      BY <1>0, <3>4, <3>5 DEF Spaces
    <3>7. Min(Spaces(rest)) \in 1 .. Len(rest)
      BY <3>6, LeastElement
    <3> QED BY <1>0, <3>4, <3>5, <3>7
  <2>4. Separators(l) \subseteq {Min(Spaces(l))} \cup (IF Spaces(rest) # {} THEN {d} ELSE {})
    BY DEF Separators
  <2> HIDE DEF d, rest
  <2> QED BY <2>1, <2>3, <2>4
<1> QED BY <1>1, <1>2

\* The line that parse_content sees is the one that was sent.
LEMMA LineSent ==
  ASSUME ParseType, stream \in Seq(Token), Reading,
         NEW p \in Nat, NextEnd(p), NEW b, b = Erase(buffer, {p - 1, p})
  PROVE  Line(b) = SubSeq(stream, start_line + 1, p - 1)
<1> DEFINE ends == {i \in start_line .. Size - 1 : b[i] = "NUL"}
           len == p - 1 - start_line
           x == [k \in 1 .. len |-> b[start_line + k - 1]]
           y == SubSeq(stream, start_line + 1, p - 1)
<1>0. /\ Size \in Nat /\ Len(stream) \in Nat /\ read_index \in Nat /\ start_line \in Nat
      /\ read_index <= Size /\ read_index <= Len(stream)
      /\ start_line + 1 <= p /\ p <= read_index - 1
  BY ParseAssumption, LenProperties DEF ParseType, Reading, NextEnd
<1>1. /\ b[p - 1] = "NUL"
      /\ \A i \in start_line .. p - 2 : b[i] = stream[i + 1]
  <2>1. /\ DOMAIN buffer = 0 .. Size - 1
        /\ \A i \in start_line .. read_index - 1 : buffer[i] = stream[i + 1]
    BY DEF ParseType, Reading
  <2>2. \A i \in 0 .. Size - 1 : b[i] = IF i \in {p - 1, p} THEN "NUL" ELSE buffer[i]
    BY <2>1 DEF Erase
  <2>3. p - 1 \in 0 .. Size - 1
    BY <1>0
  <2>4. ASSUME NEW i \in start_line .. p - 2 PROVE b[i] = stream[i + 1]
    <3>1. i \in 0 .. Size - 1 /\ i \notin {p - 1, p} /\ i \in start_line .. read_index - 1
      BY <1>0
    <3> QED BY <2>1, <2>2, <3>1
  <2> QED BY <2>2, <2>3, <2>4
<1>2. \A i \in start_line .. p - 2 : b[i] \in Token
  <2>1. \A i \in start_line .. p - 2 : i + 1 \in 1 .. Len(stream)
    BY <1>0
  <2> QED BY <1>1, <2>1, ElementOfSeq
<1>3. "NUL" \notin Token
  BY DEF Token
<1>4. ends \subseteq Nat /\ p - 1 \in ends /\ \A i \in ends : p - 1 <= i
  <2>1. ends \subseteq Nat /\ p - 1 \in start_line .. Size - 1
    BY <1>0
  <2>2. ASSUME NEW i \in ends PROVE p - 1 <= i
    <3>1. i \in start_line .. Size - 1 /\ b[i] = "NUL"
      OBVIOUS
    <3>2. i \notin start_line .. p - 2
      BY <1>2, <1>3, <3>1
    <3> QED BY <1>0, <3>1, <3>2
  <2> QED BY <1>1, <2>1, <2>2
<1>5. Min(ends) = p - 1
  <2> HIDE DEF ends
  <2> QED BY <1>4, LeastIs
<1>6. Line(b) = x
  BY <1>5 DEF Line
<1>7. /\ start_line + 1 \in Nat \ {0} /\ p - 1 \in Nat /\ start_line + 1 <= (p - 1) + 1
      /\ p - 1 <= Len(stream) /\ (p - 1) - (start_line + 1) + 1 = len /\ len \in Nat
  BY <1>0
<1>8. /\ y \in Seq(Token) /\ Len(y) = (p - 1) - (start_line + 1) + 1
      /\ \A k \in 1 .. (p - 1) - (start_line + 1) + 1 :
           y[k] = stream[(start_line + 1) + k - 1]
  BY <1>7, Part
<1>9. \A k \in 1 .. len : /\ start_line + k - 1 \in start_line .. p - 2
                          /\ (start_line + k - 1) + 1 = (start_line + 1) + k - 1
  BY <1>0
<1> HIDE DEF y, len
<1>10. \A k \in 1 .. len : x[k] \in Token
  BY <1>2, <1>9
<1>11. x \in Seq(Token) /\ Len(x) = len
  <2>1. x \in [1 .. len -> Token]
    BY <1>10
  <2> HIDE DEF x
  <2> QED BY <1>7, <2>1
<1>12. \A k \in 1 .. len : x[k] = y[k]
  BY <1>1, <1>7, <1>8, <1>9
<1> HIDE DEF x
<1>13. x = y
  BY <1>7, <1>8, <1>11, <1>12, SeqEqual
<1> QED BY <1>6, <1>13 DEF y

\* The lines found, when one more is found at p.
LEMMA LineAdded ==
  ASSUME NEW s \in Seq(Token), NEW a \in 0 .. Len(s), Whole(s, a),
         NEW p \in a + 1 .. Len(s) - 1, \A i \in a + 1 .. p - 1 : s[i] # "CR",
         s[p] = "CR", s[p + 1] = "LF"
  PROVE  /\ Whole(s, p + 1)
         /\ a = 0 /\ IsRequestLine(SubSeq(s, 1, p - 1)) => Headed(s, p + 1)
         /\ Headed(s, a) /\ p # a + 1 => Headed(s, p + 1)
<1>0. Len(s) \in Nat /\ a \in Nat /\ p \in Nat /\ a < p /\ p < Len(s)
  BY LenProperties
<1>1. \A i \in a + 1 .. p + 1 : s[i] = "CR" => i = p
  BY <1>0
<1>2. Whole(s, p + 1)
  <2>1. ASSUME NEW i \in 1 .. p + 1, s[i] = "CR"
        PROVE  i < p + 1 /\ s[i + 1] = "LF"
    <3>1. CASE i <= a
      BY <1>0, <2>1, <3>1 DEF Whole
    <3>2. CASE i > a
      <4>1. i = p
        BY <1>0, <1>1, <2>1, <3>2
      <4> QED BY <1>0, <4>1
    <3> QED BY <1>0, <3>1, <3>2
  <2>2. p + 1 >= 2 /\ (p + 1) - 1 = p
    BY <1>0
  <2> QED BY <2>1, <2>2 DEF Whole
<1>3. ASSUME a = 0, IsRequestLine(SubSeq(s, 1, p - 1)) PROVE Headed(s, p + 1)
  <2>1. FirstEnd(s, p) /\ p \in 1 .. (p + 1) - 1
    BY <1>0, <1>3 DEF FirstEnd
  <2>2. \A i \in 3 .. p + 1 : ~ (s[i - 2] = "CR" /\ s[i] = "CR")
    BY <1>0, <1>1, <1>3
  <2> QED BY <1>0, <2>1, <2>2 DEF Headed
<1>4. ASSUME Headed(s, a), p # a + 1 PROVE Headed(s, p + 1)
  <2>1. PICK f \in 1 .. a - 1 : FirstEnd(s, f)
    BY <1>4 DEF Headed
  <2>2. f \in 1 .. (p + 1) - 1
    BY <1>0
  <2>3. s[a] = "LF" /\ a >= 2 /\ \A i \in 3 .. a : ~ (s[i - 2] = "CR" /\ s[i] = "CR")
    BY <1>0, <1>4 DEF Headed, Whole
  <2>4. ASSUME NEW i \in 3 .. p + 1, s[i - 2] = "CR", s[i] = "CR" PROVE FALSE
    <3>1. i > a
      BY <1>0, <2>3, <2>4
    <3>2. i = p
      BY <1>0, <1>1, <2>4, <3>1
    <3>3. p - 2 \in a + 1 .. p - 1 \/ p - 2 = a
      BY <1>0, <1>4
    <3> QED BY <2>3, <2>4, <3>2, <3>3
  <2> QED BY <1>0, <2>1, <2>2, <2>4 DEF Headed
<1> QED BY <1>2, <1>3, <1>4

\* What Reading says of the part received, as the lemmas about Outcome need it.
LEMMA ReadingFacts ==
  ASSUME ParseType, stream \in Seq(Token), Reading
  PROVE  /\ start_line \in Nat /\ checked_index \in Nat /\ read_index \in Nat
         /\ Size \in Nat /\ Len(stream) \in Nat /\ start_line <= checked_index
         /\ checked_index <= read_index /\ read_index <= Size /\ read_index <= Len(stream)
         /\ Whole(stream, start_line)
         /\ start_line = 0 \/ Headed(stream, start_line)
         /\ Whole(SubSeq(stream, 1, read_index), start_line)
         /\ start_line = 0 \/ Headed(SubSeq(stream, 1, read_index), start_line)
         /\ SubSeq(stream, 1, read_index) \in Seq(Token)
         /\ Len(SubSeq(stream, 1, read_index)) = read_index
         /\ \A k \in 1 .. read_index : SubSeq(stream, 1, read_index)[k] = stream[k]
<1>1. /\ start_line \in Nat /\ checked_index \in Nat /\ read_index \in Nat
      /\ Size \in Nat /\ Len(stream) \in Nat /\ start_line <= checked_index
      /\ checked_index <= read_index /\ read_index <= Size /\ read_index <= Len(stream)
  BY ParseAssumption, LenProperties DEF ParseType, Reading
<1>2. Whole(stream, start_line) /\ (start_line = 0 \/ Headed(stream, start_line))
  BY DEF Reading, ParseType
<1>3. read_index \in 0 .. Len(stream) /\ start_line \in 0 .. read_index
  BY <1>1
<1> QED BY <1>1, <1>2, <1>3, Received

\* When recv is called the answer is that there is none yet.
LEMMA ReadingAnswer ==
  ASSUME ParseType, stream \in Seq(Token), Reading, phase = "recv"
  PROVE  PiecesDoNotMatter
<1> DEFINE s == SubSeq(stream, 1, read_index)
<1>1. /\ start_line \in Nat /\ read_index \in Nat /\ start_line <= read_index
      /\ s \in Seq(Token) /\ Len(s) = read_index
      /\ Whole(s, start_line) /\ (start_line = 0 \/ Headed(s, start_line))
      /\ \A k \in 1 .. read_index : s[k] = stream[k]
  BY ReadingFacts
<1>2. \A i \in start_line + 1 .. read_index - 1 : stream[i] # "CR"
  BY DEF Reading
<1>3. result = "NO_REQUEST"
  BY DEF Reading
<1>4. Outcome(s) = "NO_REQUEST"
  <2> HIDE DEF s
  <2>1. start_line \in 0 .. Len(s) /\ \A i \in start_line + 1 .. Len(s) - 1 : s[i] # "CR"
    BY <1>1, <1>2
  <2> QED BY <1>1, <2>1, AnswerNone
<1> QED BY <1>3, <1>4 DEF PiecesDoNotMatter

LEMMA PieceRecv ==
  ASSUME ParseType, stream \in Seq(Token), Reading, NEW n \in 1 .. Size, Recv(n)
  PROVE  PieceInv'
<1>1. /\ phase' = "parse" /\ read_index' = read_index + n /\ read_index' <= Len(stream')
      /\ UNCHANGED <<stream, checked_index, start_line, checkstate, result>>
  BY DEF Recv
<1>2. /\ start_line \in Nat /\ read_index \in Nat /\ start_line <= read_index /\ n \in Nat
      /\ Size \in Nat /\ read_index + n <= Size
  BY ReadingFacts DEF Recv
<1>3. \A i \in 0 .. Size - 1 :
        buffer'[i] = IF i \in read_index .. read_index + n - 1 THEN stream[i + 1] ELSE buffer[i]
  BY DEF Recv, ParseType
<1>4. ASSUME NEW i \in start_line .. read_index + n - 1
      PROVE  buffer'[i] = stream[i + 1]
  <2>1. i \in 0 .. Size - 1
        /\ (i \in read_index .. read_index + n - 1 \/ i \in start_line .. read_index - 1)
    BY <1>2
  <2> QED BY <1>3, <2>1 DEF Reading
<1>5. start_line > 0 => buffer'[start_line - 1] = "NUL"
  <2>1. start_line > 0 => /\ start_line - 1 \in 0 .. Size - 1
                          /\ start_line - 1 \notin read_index .. read_index + n - 1
    BY <1>2
  <2> QED BY <1>3, <2>1 DEF Reading
<1>6. ASSUME NEW i \in start_line' .. read_index' - 1
      PROVE  buffer'[i] = stream'[i + 1]
  <2>1. i \in start_line .. read_index + n - 1
    BY <1>1, <1>2
  <2> QED BY <1>1, <1>4, <2>1
<1>7. Reading'
  BY <1>1, <1>5, <1>6 DEF Reading
<1> QED BY <1>1, <1>7 DEF PieceInv

LEMMA PieceEnd ==
  ASSUME ParseType, stream \in Seq(Token), Reading, ParseEnd
  PROVE  PieceInv'
<1> DEFINE s == SubSeq(stream, 1, read_index)
<1>1. /\ parse_line.status # "OK" /\ checked_index' = parse_line.checked
      /\ UNCHANGED <<stream, buffer, read_index, start_line, checkstate>>
  BY DEF ParseEnd
<1>2. CASE /\ parse_line.status = "OPEN"
           /\ \A i \in start_line + 1 .. parse_line.checked : stream[i] # "CR"
           /\ \A i \in start_line + 1 .. read_index - 1 : stream[i] # "CR"
  <2>1. phase' = "recv" /\ result' = "NO_REQUEST"
    BY <1>2 DEF ParseEnd, Finish
  <2>2. Reading'
    BY <1>1, <1>2, <2>1 DEF Reading
  <2> QED BY <2>1, <2>2 DEF PieceInv
<1>3. ASSUME parse_line.status = "BAD", NEW p \in Nat, NextEnd(p), stream[p + 1] # "LF"
      PROVE  PieceInv'
  <2>1. phase' = "done" /\ result' = "BAD_REQUEST"
    BY <1>3 DEF ParseEnd, Finish
  <2>2. /\ start_line \in Nat /\ read_index \in Nat /\ start_line <= read_index
        /\ s \in Seq(Token) /\ Len(s) = read_index
        /\ Whole(s, start_line) /\ (start_line = 0 \/ Headed(s, start_line))
        /\ \A k \in 1 .. read_index : s[k] = stream[k]
    BY ReadingFacts
  <2>3. Outcome(s) = "BAD_REQUEST"
    <3> HIDE DEF s
    <3>1. /\ p \in start_line + 1 .. read_index - 1 /\ stream[p] = "CR"
          /\ \A i \in start_line + 1 .. p - 1 : stream[i] # "CR"
      BY <1>3 DEF NextEnd
    <3>2. /\ start_line \in 0 .. Len(s) /\ p \in start_line + 1 .. Len(s) - 1
          /\ s[p] = "CR" /\ s[p + 1] # "LF"
          /\ \A i \in start_line + 1 .. p - 1 : s[i] # "CR"
      BY <1>3, <2>2, <3>1
    <3> QED BY <2>2, <3>2, AnswerBad
  <2>4. SubSeq(stream, 1, read_index)' = s
    BY <1>1
  <2> HIDE DEF s
  <2>5. result' = Outcome(SubSeq(stream, 1, read_index))'
    <3>1. Outcome(SubSeq(stream, 1, read_index))' = Outcome(s)
      BY <1>1 DEF s
    <3> QED BY <2>1, <2>3, <3>1
  <2> QED BY <2>1, <2>5 DEF PieceInv, PiecesDoNotMatter
<1> QED BY <1>1, <1>2, <1>3, ParseLineFinds

LEMMA PieceLine ==
  ASSUME ParseType, stream \in Seq(Token), Reading, ParseLine
  PROVE  PieceInv'
<1> DEFINE s == SubSeq(stream, 1, read_index)
           b == Erase(buffer, parse_line.erased)
           line == Line(b)
<1>1. /\ parse_line.status = "OK" /\ phase = "parse"
      /\ checked_index' = parse_line.checked /\ start_line' = parse_line.checked
      /\ UNCHANGED <<stream, read_index>>
  BY DEF ParseLine
<1>2. PICK p \in Nat : /\ NextEnd(p) /\ stream[p + 1] = "LF"
                       /\ parse_line.checked = p + 1 /\ parse_line.erased = {p - 1, p}
  BY <1>1, ParseLineFinds
<1>3. /\ start_line \in Nat /\ read_index \in Nat /\ start_line <= read_index
      /\ Size \in Nat /\ read_index <= Size /\ Len(stream) \in Nat
      /\ read_index <= Len(stream) /\ Whole(stream, start_line)
      /\ s \in Seq(Token) /\ Len(s) = read_index
      /\ Whole(s, start_line) /\ (start_line = 0 \/ Headed(s, start_line))
      /\ \A k \in 1 .. read_index : s[k] = stream[k]
  BY ReadingFacts
<1>4. /\ start_line < p /\ p < read_index /\ stream[p] = "CR"
      /\ \A i \in start_line + 1 .. p - 1 : stream[i] # "CR"
  BY <1>2, <1>3 DEF NextEnd
<1>5. line = SubSeq(stream, start_line + 1, p - 1)
  BY <1>2, LineSent
<1>6. line \in Seq(Token) /\ Len(line) = p - 1 - start_line
  <2>1. /\ start_line + 1 \in Nat \ {0} /\ p - 1 \in Nat
        /\ start_line + 1 <= (p - 1) + 1 /\ p - 1 <= Len(stream)
        /\ (p - 1) - (start_line + 1) + 1 = p - 1 - start_line
    BY <1>3, <1>4
  <2> HIDE DEF line
  <2> QED BY <1>5, <2>1, Part
<1>7. DOMAIN b = 0 .. Size - 1
      /\ \A i \in 0 .. Size - 1 : b[i] = IF i \in {p - 1, p} THEN "NUL" ELSE buffer[i]
  BY <1>2 DEF Erase, ParseType
<1>8. ASSUME NEW i \in p .. read_index - 1
      PROVE  buffer'[i] = IF i = p THEN "NUL" ELSE stream[i + 1]
  <2>1. i \in 0 .. Size - 1 /\ i \in start_line .. read_index - 1 /\ i # p - 1 /\ i \in Nat
    BY <1>3, <1>4
  <2>2. b[i] = IF i = p THEN "NUL" ELSE stream[i + 1]
    BY <1>7, <2>1 DEF Reading
  <2> HIDE DEF b, line
  <2>3. \A k \in Separators(line) : start_line + k - 1 # i
    <3>1. Separators(line) \subseteq 1 .. p - 1 - start_line
      BY <1>6, SeparatorsBound
    <3> QED BY <1>3, <1>4, <2>1, <3>1
  <2>4. \/ buffer' = b
        \/ buffer' = Erase(b, {start_line + k - 1 : k \in Separators(line)})
    BY DEF ParseLine, line, b
  <2>5. Erase(b, {start_line + k - 1 : k \in Separators(line)})[i] = b[i]
    BY <1>7, <2>1, <2>3 DEF Erase
  <2> QED BY <2>2, <2>4, <2>5
<1> HIDE DEF b
<1>9. /\ start_line \in 0 .. Len(stream) /\ p \in start_line + 1 .. Len(stream) - 1
      /\ start_line \in 0 .. Len(s) /\ p \in start_line + 1 .. Len(s) - 1
  <2> HIDE DEF s
  <2> QED BY <1>3, <1>4
<1>10. Whole(stream, p + 1)
  BY <1>2, <1>3, <1>4, <1>9, LineAdded
<1>11. ASSUME phase' = "parse", result' = "NO_REQUEST", checkstate' = "HEADER",
              Headed(stream, p + 1)
       PROVE  PieceInv'
  <2>1. \A i \in p + 1 .. read_index - 1 : buffer'[i] = stream[i + 1]
    BY <1>3, <1>4, <1>8
  <2>2. buffer'[p] = "NUL"
    BY <1>3, <1>4, <1>8
  <2>3. (p + 1) - 1 = p /\ \A i \in (p + 1) + 1 .. p + 1 : FALSE
    OBVIOUS
  <2>4. start_line' = p + 1 /\ checked_index' = p + 1 /\ read_index' = read_index
        /\ stream' = stream
    BY <1>1, <1>2
  <2>5. Reading'
    BY <1>3, <1>10, <1>11, <2>1, <2>2, <2>3, <2>4 DEF Reading
  <2> QED BY <1>11, <2>5 DEF PieceInv
<1>12. ASSUME phase' = "done", result' = Outcome(s) PROVE PieceInv'
  <2>1. result' = Outcome(SubSeq(stream, 1, read_index))'
    BY <1>1, <1>12
  <2> HIDE DEF s
  <2> QED BY <1>12, <2>1 DEF PieceInv, PiecesDoNotMatter
<1>13. CASE checkstate = "REQUESTLINE"
  <2>1. start_line = 0
    BY <1>13 DEF Reading
  <2>2. line = SubSeq(stream, 1, p - 1)
    BY <1>5, <2>1
  <2>3. CASE parse_requestline(line)
    <3>1. phase' = "parse" /\ result' = "NO_REQUEST" /\ checkstate' = "HEADER"
      BY <1>1, <1>13, <2>3 DEF ParseLine, Reading, line, b
    <3> HIDE DEF line
    <3>2. IsRequestLine(SubSeq(stream, 1, p - 1))
      BY <1>6, <2>2, <2>3, RequestLine
    <3>3. Headed(stream, p + 1)
      BY <1>2, <1>3, <1>4, <1>9, <2>1, <3>2, LineAdded
    <3> QED BY <1>11, <3>1, <3>3
  <2>4. CASE ~ parse_requestline(line)
    <3>1. phase' = "done" /\ result' = "BAD_REQUEST"
      BY <1>13, <2>4 DEF ParseLine, Finish, line, b
    <3> HIDE DEF line
    <3>2. ~ IsRequestLine(SubSeq(stream, 1, p - 1))
      BY <1>6, <2>2, <2>4, RequestLine
    <3>3. SubSeq(s, 1, p - 1) = SubSeq(stream, 1, p - 1)
      <4>1. read_index \in 0 .. Len(stream) /\ p - 1 \in 0 .. read_index
        BY <1>3, <1>4
      <4> QED BY <4>1, Received
    <3> HIDE DEF s
    <3>4. ~ IsRequestLine(SubSeq(s, 1, p - 1))
      BY <3>2, <3>3
    <3>5. /\ p \in 1 .. Len(s) - 1 /\ s[p] = "CR" /\ s[p + 1] = "LF"
          /\ \A i \in 1 .. p - 1 : s[i] # "CR"
      BY <1>2, <1>3, <1>4, <2>1
    <3>6. Outcome(s) = "BAD_REQUEST"
      BY <1>3, <3>4, <3>5, AnswerLine
    <3> QED BY <1>12, <3>1, <3>6
  <2> QED BY <2>3, <2>4
<1>14. CASE checkstate = "HEADER"
  <2>1. Headed(stream, start_line)
    BY <1>14 DEF Reading
  <2>2. CASE line = <<>>
    <3>1. phase' = "done" /\ result' = "GET_REQUEST"
      BY <1>14, <2>2 DEF ParseLine, Finish, line, b
    <3> HIDE DEF line
    <3>2. p = start_line + 1
      <4>1. Len(line) = 0
        BY <2>2
      <4>2. 0 = p - 1 - start_line
        BY <1>6, <4>1
      <4> QED BY <1>3, <4>2
    <3>3. start_line > 0
      BY <2>1 DEF Headed
    <3> HIDE DEF s
    <3>4. /\ start_line + 2 <= Len(s) /\ s[start_line + 1] = "CR"
          /\ s[start_line + 2] = "LF" /\ Headed(s, start_line)
      BY <1>2, <1>3, <1>4, <3>2, <3>3
    <3>5. Outcome(s) = "GET_REQUEST"
      BY <1>3, <1>9, <3>4, AnswerGet
    <3> QED BY <1>12, <3>1, <3>5
  <2>3. CASE line # <<>>
    <3>1. phase' = "parse" /\ result' = "NO_REQUEST" /\ checkstate' = "HEADER"
      BY <1>1, <1>14, <2>3 DEF ParseLine, Reading, line, b
    <3> HIDE DEF line
    <3>2. p # start_line + 1
      <4>1. Len(line) # 0
        BY <1>6, <2>3, EmptySeq
      <4> QED BY <1>3, <1>6, <4>1
    <3>3. Headed(stream, p + 1)
      BY <1>2, <1>3, <1>4, <1>9, <2>1, <3>2, LineAdded
    <3> QED BY <1>11, <3>1, <3>3
  <2> QED BY <2>2, <2>3
<1> QED BY <1>13, <1>14 DEF ParseType

LEMMA PieceNext ==
  ASSUME ParseType, stream \in Seq(Token), PieceInv, [ParseNext]_parseVars
  PROVE  PieceInv'
<1>1. phase # "done" => Reading
  BY DEF PieceInv
<1>2. ASSUME NEW n \in 1 .. Size, Recv(n) PROVE PieceInv'
  <2>1. Reading
    BY <1>1, <1>2 DEF Recv
  <2> QED BY <1>2, <2>1, PieceRecv
<1>3. CASE RecvNothing
  BY <1>3 DEF RecvNothing, PieceInv, PiecesDoNotMatter
<1>4. CASE RecvFailed
  BY <1>4 DEF RecvFailed, PieceInv, PiecesDoNotMatter
<1>5. CASE ParseLine
  <2>1. Reading
    BY <1>1, <1>5 DEF ParseLine
  <2> QED BY <1>5, <2>1, PieceLine
<1>6. CASE ParseEnd
  <2>1. Reading
    BY <1>1, <1>6 DEF ParseEnd
  <2> QED BY <1>6, <2>1, PieceEnd
<1>7. CASE Done \/ UNCHANGED parseVars
  <2>1. UNCHANGED parseVars
    BY <1>7 DEF Done
  <2>2. Reading' <=> Reading
    BY <2>1 DEF Reading, parseVars
  <2>3. PiecesDoNotMatter' <=> PiecesDoNotMatter
    BY <2>1 DEF PiecesDoNotMatter, parseVars
  <2>4. phase' = phase
    BY <2>1 DEF parseVars
  <2> QED BY <2>2, <2>3, <2>4 DEF PieceInv
<1> QED BY <1>2, <1>3, <1>4, <1>5, <1>6, <1>7 DEF ParseNext

\* The answer of http_parse.cpp is that of the text received, read as a whole, for
\* every request, every buffer size and every way recv may cut it.
THEOREM PiecesCorrect == ParseSpec => []PiecesDoNotMatter
<1> DEFINE Inv == ParseType /\ stream \in Seq(Token) /\ PieceInv
<1>1. ParseInit => Inv
  <2> SUFFICES ASSUME ParseInit PROVE Inv
    OBVIOUS
  <2>1. stream \in Seq(Token) /\ ParseType
    BY ParseTypeInit, ParseAssumption DEF ParseInit
  <2>2. /\ result = "NO_REQUEST" /\ checkstate = "REQUESTLINE"
        /\ start_line = 0 /\ checked_index = 0 /\ read_index = 0
    BY DEF ParseInit
  <2>3. 0 <= Len(stream) /\ Whole(stream, 0)
    BY <2>1, LenProperties DEF Whole
  <2>4. Reading
    BY <2>2, <2>3 DEF Reading
  <2>5. phase = "recv"
    BY DEF ParseInit
  <2> QED BY <2>1, <2>4, <2>5 DEF PieceInv
<1>2. Inv /\ [ParseNext]_parseVars => Inv'
  <2> SUFFICES ASSUME Inv, [ParseNext]_parseVars PROVE Inv'
    OBVIOUS
  <2>1. stream' = stream
    BY DEF ParseNext, Recv, RecvNothing, RecvFailed, ParseLine, ParseEnd, Done, parseVars
  <2> QED BY <2>1, ParseTypeNext, PieceNext
<1>3. Inv => PiecesDoNotMatter
  <2> SUFFICES ASSUME Inv PROVE PiecesDoNotMatter
    OBVIOUS
  <2>1. CASE phase = "recv"
    BY <2>1, ReadingAnswer DEF PieceInv
  <2>2. CASE phase = "done"
    BY <2>2 DEF PieceInv
  <2>3. CASE phase = "parse"
    BY <2>3 DEF PiecesDoNotMatter
  <2> QED BY <2>1, <2>2, <2>3 DEF ParseType
<1> QED BY <1>1, <1>2, <1>3, PTL DEF ParseSpec
=============================================================================
