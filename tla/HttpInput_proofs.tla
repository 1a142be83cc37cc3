--------------------------- MODULE HttpInput_proofs --------------------------
(***************************************************************************)
(* The proofs that HttpCodec::tryDecode judges a request for what it says  *)
(* and that notifyPackageReceived answers each accepted one once, for any  *)
(* requests a client may write, however recv cuts them.                    *)
(*                                                                         *)
(* First what tryDecode computes: the characters of a request, the place   *)
(* of its empty line, its words and its field lines, read one after the    *)
(* other.  Then the stream of a conversation, what tryDecode makes of      *)
(* characters from the middle of it, and the Buffer they are written to.   *)
(* The invariant of the connection is the last part.                       *)
(*                                                                         *)
(* What FlattenSeq and HeaderLines compute is shown by the least number at *)
(* which it would fail.  Functions that are defined by their own equation  *)
(* are shown to exist first, value by value.                               *)
(***************************************************************************)
EXTENDS HttpInput, Buffer_proofs, FiniteSetTheorems, WellFoundedInduction

-----------------------------------------------------------------------------
(* Numbers and sequences *)

\* Min of a set of numbers is its least element.
LEMMA LeastElement ==
  ASSUME NEW S, S \subseteq Nat, S # {}
  PROVE  Min(S) \in S /\ \A m \in S : Min(S) <= m
<1>1. PICK x \in S : \A y \in S : ~ (<<y, x>> \in OpToRel(<, Nat))
  BY NatLessThanWellFounded, WFMin
<1>2. \A y \in S : ~ (y < x)
  BY <1>1, Zenon DEF OpToRel
<1>3. \A y \in S : x <= y
  BY <1>2
<1> QED
  BY <1>3 DEF Min

\* Concatenation, by a name that the provers do not look into.
Then(a, b) == a \o b

\* f is the function that FlattenSeq defines, on the first k of the sequences s.
Flattens(f, s, k) ==
  f = [i \in 1 .. k |-> IF i = 1 THEN s[i] ELSE Then(f[i - 1], s[i])]

\* The first k of the sequences s, one after the other.
Joined(s, k) == FlattenSeq([i \in 1 .. k |-> s[i]])

\* FlattenSeq is the last value of any function that satisfies its equation.
LEMMA FlattenUnfold ==
  ASSUME NEW s, Len(s) # 0, NEW f, Flattens(f, s, Len(s))
  PROVE  \E g : Flattens(g, s, Len(s)) /\ FlattenSeq(s) = g[Len(s)]
  BY Zenon DEF FlattenSeq, Flattens, Then

\* The first value of such a function is the first sequence.
LEMMA FlattensFirst ==
  ASSUME NEW s, NEW k, NEW f, Flattens(f, s, k), NEW i \in 1 .. k, i = 1
  PROVE  f[i] = s[i]
  BY Zenon DEF Flattens

\* Each later value is the one before it and the next sequence.
LEMMA FlattensNext ==
  ASSUME NEW s, NEW k, NEW f, Flattens(f, s, k), NEW i \in 1 .. k, i # 1
  PROVE  f[i] = Then(f[i - 1], s[i])
  BY Zenon DEF Flattens

\* A function that satisfies the equation exists.
LEMMA FlattenExists ==
  ASSUME NEW s, NEW n \in Nat
  PROVE  \E f : Flattens(f, s, n)
<1> DEFINE Bad == {k \in Nat : ~ \E f : Flattens(f, s, k)}
<1>1. SUFFICES ASSUME Bad # {} PROVE FALSE
  OBVIOUS
<1>2. PICK m \in Bad : \A k \in Bad : m <= k
  BY <1>1, LeastElement
<1>3. CASE m = 0
  <2>1. Flattens(<<>>, s, 0)
    BY DEF Flattens
  <2> QED BY <1>2, <1>3, <2>1
<1>4. CASE m # 0
  <2>1. m \in Nat /\ m - 1 \in Nat /\ m - 1 \notin Bad
    BY <1>2, <1>4
  <2>2. PICK f : Flattens(f, s, m - 1)
    BY <2>1
  <2> DEFINE g == [i \in 1 .. m |->
                     IF i < m THEN f[i]
                     ELSE IF m = 1 THEN s[1] ELSE Then(f[m - 1], s[m])]
  <2>3. ASSUME NEW i \in 1 .. m
        PROVE  g[i] = IF i = 1 THEN s[i] ELSE Then(g[i - 1], s[i])
    <3>1. CASE i < m
      <4>1. i \in 1 .. m - 1 /\ (i # 1 => i - 1 \in 1 .. m /\ i - 1 < m)
        BY <2>1, <3>1
      <4>2. i = 1 => f[i] = s[i]
        BY <4>1, <2>2, FlattensFirst
      <4>3. i # 1 => f[i] = Then(f[i - 1], s[i])
        BY <4>1, <2>2, FlattensNext
      <4> QED BY <3>1, <4>1, <4>2, <4>3
    <3>2. CASE i = m
      BY <2>1, <3>2
    <3> QED BY <2>1, <3>1, <3>2
  <2>4. g = [i \in 1 .. m |-> IF i = 1 THEN s[i] ELSE Then(g[i - 1], s[i])]
    BY <2>3
  <2>5. Flattens(g, s, m)
    BY <2>4 DEF Flattens
  <2> QED BY <2>5, <1>2
<1> QED BY <1>3, <1>4

\* Two such functions, and the ones for fewer sequences, agree.
Agree(s, t, k) == \A i \in 1 .. k : s[i] = t[i]

\* Two functions that satisfy the equation are the same.
LEMMA FlattenUnique ==
  ASSUME NEW s, NEW t, NEW n \in Nat, NEW k \in 0 .. n,
         Agree(s, t, k),
         NEW f, Flattens(f, s, n), NEW g, Flattens(g, t, k)
  PROVE  Agree(g, f, k)
<1> DEFINE Bad == {i \in 1 .. k : g[i] # f[i]}
<1>1. SUFFICES ASSUME Bad # {} PROVE FALSE
  BY DEF Agree
<1>2. PICK m \in Bad : \A i \in Bad : m <= i
  <2>1. Bad \subseteq Nat
    OBVIOUS
  <2> HIDE DEF Bad
  <2> QED BY <1>1, <2>1, LeastElement
<1>3. m \in 1 .. k /\ g[m] # f[m]
  BY <1>2
<1>4. CASE m = 1
  BY <1>3, <1>4, FlattensFirst DEF Agree
<1>5. CASE m # 1
  <2>1. m - 1 \in 1 .. k /\ ~ (m <= m - 1)
    BY <1>3, <1>5
  <2>2. g[m - 1] = f[m - 1]
    BY <2>1, <1>2
  <2>3. g[m] = Then(g[m - 1], t[m]) /\ f[m] = Then(f[m - 1], s[m])
    <3>1. m \in 1 .. n
      BY <1>3
    <3>2. g[m] = Then(g[m - 1], t[m])
      BY <1>3, <1>5, FlattensNext
    <3>3. f[m] = Then(f[m - 1], s[m])
      BY <3>1, <1>5, FlattensNext
    <3> QED BY <3>2, <3>3
  <2> QED BY <1>3, <2>2, <2>3 DEF Agree
<1> QED BY <1>4, <1>5

\* No sequences make no text.
LEMMA JoinedEmpty == \A s : Joined(s, 0) = <<>>
<1> SUFFICES ASSUME NEW s PROVE Joined(s, 0) = <<>>
  OBVIOUS
<1>1. [i \in 1 .. 0 |-> s[i]] = <<>>
  OBVIOUS
<1>2. Len(<<>>) = 0
  OBVIOUS
<1>3. FlattenSeq(<<>>) = <<>>
  BY <1>2, Zenon DEF FlattenSeq
<1> QED BY <1>1, <1>3 DEF Joined

\* One more sequence is appended at the end.
LEMMA JoinedStep ==
  ASSUME NEW T, NEW s \in Seq(Seq(T)), NEW k \in 1 .. Len(s)
  PROVE  Joined(s, k) = Joined(s, k - 1) \o s[k]
<1>n. PICK n \in Nat : n = Len(s)
  OBVIOUS
<1>0. k \in Nat /\ k - 1 \in Nat /\ k \in 1 .. n
  BY <1>n
<1>1. PICK f : Flattens(f, s, n)
  BY FlattenExists
<1>2. ASSUME NEW j \in 1 .. n
      PROVE  Joined(s, j) = f[j]
  <2>0. PICK t : t = [i \in 1 .. j |-> s[i]]
    OBVIOUS
  <2>1. Len(t) = j /\ t \in Seq(Seq(T))
    BY <1>0, <1>n, <2>0
  <2>2. j \in Nat /\ j # 0
    BY <1>0
  <2>3. PICK h : Flattens(h, t, j)
    BY <2>2, FlattenExists
  <2>4. PICK g : Flattens(g, t, j) /\ FlattenSeq(t) = g[j]
    BY <2>1, <2>2, <2>3, FlattenUnfold
  <2>5. Agree(s, t, j)
    BY <2>0 DEF Agree
  <2>6. g[j] = f[j]
    <3>1. j \in 0 .. n /\ j \in 1 .. j
      BY <1>0
    <3>2. Agree(g, f, j)
      <4>1. Flattens(g, t, j)
        BY <2>4
      <4> QED BY <1>1, <2>5, <3>1, <4>1, FlattenUnique
    <3> QED BY <3>1, <3>2 DEF Agree
  <2> QED BY <2>0, <2>4, <2>6 DEF Joined
<1>3. CASE k = 1
  <2>1. f[k] = s[k]
    BY <1>0, <1>1, <1>3, FlattensFirst
  <2>2. Joined(s, k) = s[k] /\ Joined(s, k - 1) = <<>> /\ s[k] \in Seq(T)
    BY <1>0, <1>2, <1>3, <2>1, JoinedEmpty
  <2>3. <<>> \o s[k] = s[k]
    BY <2>2
  <2> QED BY <2>2, <2>3
<1>4. CASE k # 1
  <2>1. f[k] = Then(f[k - 1], s[k])
    BY <1>0, <1>1, <1>4, FlattensNext
  <2>2. k - 1 \in 1 .. n
    BY <1>0, <1>4
  <2>3. Joined(s, k) = f[k] /\ Joined(s, k - 1) = f[k - 1]
    BY <1>0, <1>2, <2>2
  <2> QED BY <2>1, <2>3 DEF Then
<1> QED BY <1>3, <1>4

\* What is joined is text.
LEMMA JoinedType ==
  ASSUME NEW T, NEW s \in Seq(Seq(T)), NEW n \in 0 .. Len(s)
  PROVE  Joined(s, n) \in Seq(T)
<1> DEFINE Bad == {k \in 0 .. Len(s) : Joined(s, k) \notin Seq(T)}
<1>1. SUFFICES ASSUME Bad # {} PROVE FALSE
  OBVIOUS
<1>2. PICK m \in Bad : \A k \in Bad : m <= k
  <2>1. Bad \subseteq Nat
    OBVIOUS
  <2> HIDE DEF Bad
  <2> QED BY <1>1, <2>1, LeastElement
<1>3. m \in 0 .. Len(s) /\ Joined(s, m) \notin Seq(T)
  OBVIOUS
<1> HIDE DEF Bad
<1>4. m # 0
  <2>1. Joined(s, 0) = <<>> /\ <<>> \in Seq(T)
    BY JoinedEmpty
  <2> QED BY <1>3, <2>1
<1>5. m \in 1 .. Len(s) /\ m - 1 \in 0 .. Len(s) /\ ~ (m <= m - 1)
  BY <1>3, <1>4
<1>6. Joined(s, m - 1) \in Seq(T)
  BY <1>2, <1>5 DEF Bad
<1>7. Joined(s, m) = Joined(s, m - 1) \o s[m]
  BY <1>5, JoinedStep
<1>8. s[m] \in Seq(T)
  BY <1>5
<1> QED BY <1>3, <1>6, <1>7, <1>8

-----------------------------------------------------------------------------
(* Slice *)

\* Skip stops at the first character that is not in C, or behind the text.
LEMMA SkipRange ==
  ASSUME NEW s \in Seq(Token), NEW i \in 1 .. Len(s) + 1, NEW C
  PROVE  /\ Skip(s, i, C) \in i .. Len(s) + 1
         /\ \A x \in i .. Skip(s, i, C) - 1 : s[x] \in C
         /\ Skip(s, i, C) <= Len(s) => s[Skip(s, i, C)] \notin C
<1> DEFINE S == {j \in i .. Len(s) : s[j] \notin C} \cup {Len(s) + 1}
<1>0. Len(s) \in Nat /\ i \in Nat
  OBVIOUS
<1>1. S \subseteq Nat /\ S # {}
  BY <1>0
<1>2. Skip(s, i, C) = Min(S)
  BY DEF Skip
<1>3. Min(S) \in S /\ \A m \in S : Min(S) <= m
  BY <1>1, LeastElement
<1>4. Min(S) \in i .. Len(s) + 1
  BY <1>0, <1>3
<1>5. ASSUME NEW x \in i .. Min(S) - 1
      PROVE  s[x] \in C
  BY <1>0, <1>3, <1>4
<1>6. Min(S) <= Len(s) => s[Min(S)] \notin C
  BY <1>0, <1>3
<1> QED BY <1>2, <1>4, <1>5, <1>6

\* Skip stops at j when all before it are in C and it is not.
LEMMA SkipIs ==
  ASSUME NEW s \in Seq(Token), NEW i \in 1 .. Len(s) + 1, NEW C,
         NEW j \in i .. Len(s) + 1,
         \A x \in i .. j - 1 : s[x] \in C,
         j <= Len(s) => s[j] \notin C
  PROVE  Skip(s, i, C) = j
<1>1. PICK k : k = Skip(s, i, C)
  OBVIOUS
<1>2. /\ k \in i .. Len(s) + 1
      /\ \A x \in i .. k - 1 : s[x] \in C
      /\ k <= Len(s) => s[k] \notin C
  BY <1>1, SkipRange
<1>3. ~ (k < j)
  BY <1>2
<1>4. ~ (j < k)
  BY <1>2
<1> QED BY <1>1, <1>2, <1>3, <1>4

\* A word is white space and what follows it, up to the next white space.
LEMMA eatWordIs ==
  ASSUME NEW s \in Seq(Token), NEW i \in 1 .. Len(s) + 1,
         NEW b \in i .. Len(s) + 1, NEW e \in b .. Len(s) + 1,
         \A x \in i .. b - 1 : s[x] \in Space,
         b <= Len(s) => s[b] \notin Space,
         \A x \in b .. e - 1 : s[x] \notin Space,
         e <= Len(s) => s[e] \in Space
  PROVE  eatWord(s, i).text = SubSeq(s, b, e - 1) /\ eatWord(s, i).next = e
<1>1. Skip(s, i, Space) = b
  BY SkipIs
<1>2. b \in 1 .. Len(s) + 1
  OBVIOUS
<1>3. \A x \in 1 .. Len(s) : s[x] \in Token
  OBVIOUS
<1>4. \A x \in b .. e - 1 : s[x] \in Token \ Space
  BY <1>3
<1>5. Skip(s, b, Token \ Space) = e
  BY <1>2, <1>4, SkipIs
<1> QED BY <1>1, <1>5 DEF eatWord, Eaten

\* What a word is in any case.
LEMMA eatWordRange ==
  ASSUME NEW s \in Seq(Token), NEW i \in 1 .. Len(s) + 1
  PROVE  \E b \in i .. Len(s) + 1 : \E e \in b .. Len(s) + 1 :
           /\ eatWord(s, i).text = SubSeq(s, b, e - 1)
           /\ eatWord(s, i).next = e
           /\ \A x \in i .. b - 1 : s[x] \in Space
           /\ \A x \in b .. e - 1 : s[x] \notin Space
           /\ e <= Len(s) => s[e] \in Space
<1>1. PICK b : b = Skip(s, i, Space)
  OBVIOUS
<1>2. b \in i .. Len(s) + 1 /\ \A x \in i .. b - 1 : s[x] \in Space
  BY <1>1, SkipRange
<1>3. b \in 1 .. Len(s) + 1
  BY <1>2
<1>4. PICK e : e = Skip(s, b, Token \ Space)
  OBVIOUS
<1>5. /\ e \in b .. Len(s) + 1
      /\ \A x \in b .. e - 1 : s[x] \in Token \ Space
      /\ e <= Len(s) => s[e] \notin Token \ Space
  BY <1>3, <1>4, SkipRange
<1>6. e <= Len(s) => s[e] \in Space
  <2> SUFFICES ASSUME e <= Len(s) PROVE s[e] \in Space
    OBVIOUS
  <2>1. e \in 1 .. Len(s)
    BY <1>3, <1>5
  <2>2. s[e] \in Token
    BY <2>1
  <2> QED BY <1>5, <2>2
<1>7. eatWord(s, i).text = SubSeq(s, b, e - 1) /\ eatWord(s, i).next = e
  BY <1>1, <1>4 DEF eatWord, Eaten
<1> QED BY <1>2, <1>5, <1>6, <1>7

\* Slice::eatLine stops at the first carriage return or line feed.
LEMMA eatLineIs ==
  ASSUME NEW s \in Seq(Token), NEW i \in 1 .. Len(s) + 1,
         NEW e \in i .. Len(s) + 1,
         \A x \in i .. e - 1 : s[x] \notin {CR, LF},
         e <= Len(s) => s[e] \in {CR, LF}
  PROVE  eatLine(s, i).text = SubSeq(s, i, e - 1) /\ eatLine(s, i).next = e
<1>1. \A x \in 1 .. Len(s) : s[x] \in Token
  OBVIOUS
<1>2. \A x \in i .. e - 1 : s[x] \in Token \ {CR, LF}
  BY <1>1
<1>3. Skip(s, i, Token \ {CR, LF}) = e
  BY <1>2, SkipIs
<1> QED BY <1>3 DEF eatLine, Eaten

-----------------------------------------------------------------------------
(* The header lines *)

\* One line, from the end of the line before it, as HeaderLines takes it.
LineAt(h, p) == eatLine(h, eat(h, p, 2))
KeyAt(h, p) == eatWord(LineAt(h, p).text, 1)
ValueAt(h, p) == eatWord(LineAt(h, p).text, KeyAt(h, p).next)
GoodLine(h, p) ==
  ValueAt(h, p).text # <<>> /\ KeyAt(h, p).text # <<>> /\ Last(KeyAt(h, p).text) \in Keys
Plus(rest, key, value) == [rest EXCEPT !.fields = Inserted([x \in {key} |-> value], @)]
AllRead == [ok |-> TRUE, fields |-> <<>>]
Refused == [ok |-> FALSE, fields |-> <<>>]

\* f is a function that satisfies the equation of HeaderLines.
Reads(f, h) ==
  f = [p \in 1 .. Len(h) + 1 |->
         IF p = Len(h) + 1 THEN AllRead
         ELSE IF GoodLine(h, p)
         THEN Plus(f[LineAt(h, p).next], KeyAt(h, p).text, ValueAt(h, p).text)
         ELSE Refused]

\* HeaderLines is a function that satisfies its equation, if there is one.
LEMMA HeaderLinesUnfold ==
  ASSUME NEW h, NEW f, Reads(f, h)
  PROVE  \E g : Reads(g, h) /\ \A i : HeaderLines(h, i) = g[i]
<1>1. \A i : HeaderLines(h, i) = (CHOOSE g : Reads(g, h))[i]
  BY Zenon DEF HeaderLines, Reads, AllRead, Refused, Plus, GoodLine, ValueAt, KeyAt, LineAt
<1>2. Reads(CHOOSE g : Reads(g, h), h)
  BY Zenon
<1> QED BY <1>1, <1>2, Zenon

\* The same equation for any places, keys and values.
Backward(f, L, next, good, key, value) ==
  f = [p \in 1 .. L + 1 |->
         IF p = L + 1 THEN AllRead
         ELSE IF p \in good THEN Plus(f[next[p]], key[p], value[p])
         ELSE Refused]

\* There is a function that satisfies such an equation when every place leads to
\* a later one.
LEMMA BackwardExists ==
  ASSUME NEW L \in Nat, NEW next \in [1 .. L -> Nat],
         \A p \in 1 .. L : next[p] \in p + 1 .. L + 1,
         NEW good, NEW key, NEW value
  PROVE  \E f : Backward(f, L, next, good, key, value)
<1> DEFINE Step(f, p) ==
             IF p = L + 1 THEN AllRead
             ELSE IF p \in good THEN Plus(f[next[p]], key[p], value[p])
             ELSE Refused
           Upto(f, k) ==
             /\ DOMAIN f = 1 .. L + 1
             /\ f = [x \in 1 .. L + 1 |-> f[x]]
             /\ \A p \in 1 .. L + 1 : p >= L + 1 - k => f[p] = Step(f, p)
           Bad == {k \in 0 .. L : ~ \E f : Upto(f, k)}
<1>1. ASSUME Bad # {} PROVE FALSE
  <2>1. PICK m \in Bad : \A k \in Bad : m <= k
    <3>1. Bad \subseteq Nat
      OBVIOUS
    <3> HIDE DEF Bad
    <3> QED BY <1>1, <3>1, LeastElement
  <2>2. m \in 0 .. L /\ ~ \E f : Upto(f, m)
    OBVIOUS
  <2>3. CASE m = 0
    <3>1. PICK f : f = [p \in 1 .. L + 1 |-> AllRead]
      OBVIOUS
    <3>2. Upto(f, 0)
      BY <3>1
    <3> QED BY <2>2, <2>3, <3>2
  <2>4. CASE m # 0
    <3>1. m - 1 \in 0 .. L /\ ~ (m <= m - 1)
      BY <2>2, <2>4
    <3>2. PICK f : Upto(f, m - 1)
      BY <2>1, <3>1
    <3>3. PICK q : q = L + 1 - m
      OBVIOUS
    <3>4. q \in 1 .. L
      BY <2>2, <2>4, <3>3
    <3>5. PICK v : v = Step(f, q)
      OBVIOUS
    <3>6. PICK g : g = [x \in 1 .. L + 1 |-> IF x = q THEN v ELSE f[x]]
      OBVIOUS
    <3>7. ASSUME NEW p \in 1 .. L + 1, p >= L + 1 - m
          PROVE  g[p] = Step(g, p)
      <4>1. CASE p = L + 1
        BY <2>2, <3>1, <3>2, <3>4, <3>6, <4>1
      <4>2. CASE p # L + 1
        <5>1. p \in 1 .. L /\ next[p] \in p + 1 .. L + 1 /\ q <= p
          BY <2>2, <3>3, <3>7, <4>2
        <5>2. next[p] \in 1 .. L + 1 /\ next[p] # q
          BY <3>4, <5>1
        <5>3. g[next[p]] = f[next[p]]
          BY <3>6, <5>2
        <5>4. CASE p = q
          BY <3>4, <3>5, <3>6, <4>2, <5>3, <5>4
        <5>5. CASE p # q
          <6>1. p >= L + 1 - (m - 1)
            BY <2>2, <3>3, <5>1, <5>5
          <6>2. f[p] = Step(f, p)
            BY <3>2, <6>1
          <6>3. g[p] = f[p]
            BY <3>6, <5>5
          <6> QED BY <4>2, <5>3, <6>2, <6>3
        <5> QED BY <5>4, <5>5
      <4> QED BY <4>1, <4>2
    <3>8. DOMAIN g = 1 .. L + 1 /\ g = [x \in 1 .. L + 1 |-> g[x]]
      BY <3>6
    <3>9. Upto(g, m)
      BY <3>7, <3>8
    <3> QED BY <2>2, <3>9
  <2> QED BY <2>3, <2>4
<1>2. PICK f : Upto(f, L)
  BY <1>1
<1>3. ASSUME NEW p \in 1 .. L + 1
      PROVE  f[p] = Step(f, p)
  <2>1. p >= L + 1 - L
    OBVIOUS
  <2> HIDE DEF Step
  <2> QED BY <1>2, <2>1
<1>4. f = [p \in 1 .. L + 1 |-> Step(f, p)]
  BY <1>2, <1>3, Zenon
<1> QED BY <1>4, Zenon DEF Backward

\* Every line of a header begins behind the one before it.
LEMMA LineAdvances ==
  ASSUME NEW h \in Seq(Token), NEW p \in 1 .. Len(h)
  PROVE  LineAt(h, p).next \in p + 1 .. Len(h) + 1
<1>1. PICK b : b = eat(h, p, 2)
  OBVIOUS
<1>2. b \in {p + 2, Len(h) + 1} /\ b <= Len(h) + 1
  <2>1. {p + 2, Len(h) + 1} \subseteq Nat /\ {p + 2, Len(h) + 1} # {}
    OBVIOUS
  <2>2. b = Min({p + 2, Len(h) + 1})
    BY <1>1 DEF eat
  <2> QED BY <2>1, <2>2, LeastElement
<1>3. b \in p + 1 .. Len(h) + 1 /\ b \in 1 .. Len(h) + 1
  BY <1>2
<1>4. PICK e : e = Skip(h, b, Token \ {CR, LF})
  OBVIOUS
<1>5. e \in b .. Len(h) + 1
  BY <1>3, <1>4, SkipRange
<1>6. LineAt(h, p).next = e
  BY <1>1, <1>4 DEF LineAt, eatLine, Eaten
<1> QED BY <1>3, <1>5, <1>6

\* What HeaderLines finds is a function that satisfies its equation.
LEMMA HeaderLinesReads ==
  ASSUME NEW h \in Seq(Token)
  PROVE  \E g : Reads(g, h) /\ \A i : HeaderLines(h, i) = g[i]
<1>1. PICK L \in Nat : L = Len(h)
  OBVIOUS
<1>2. PICK next : next = [p \in 1 .. L |-> LineAt(h, p).next]
  OBVIOUS
<1>3. PICK good : good = {p \in 1 .. L : GoodLine(h, p)}
  OBVIOUS
<1>4. PICK key : key = [p \in 1 .. L |-> KeyAt(h, p).text]
  OBVIOUS
<1>5. PICK value : value = [p \in 1 .. L |-> ValueAt(h, p).text]
  OBVIOUS
<1>6. \A p \in 1 .. L : next[p] \in p + 1 .. L + 1
  BY <1>1, <1>2, LineAdvances
<1>7. next \in [1 .. L -> Nat]
  BY <1>2, <1>6
<1>8. PICK f : Backward(f, L, next, good, key, value)
  BY <1>6, <1>7, BackwardExists
<1>9. ASSUME NEW p \in 1 .. L + 1
      PROVE  f[p] = IF p = L + 1 THEN AllRead
                    ELSE IF GoodLine(h, p)
                    THEN Plus(f[LineAt(h, p).next], KeyAt(h, p).text, ValueAt(h, p).text)
                    ELSE Refused
  <2>1. f[p] = IF p = L + 1 THEN AllRead
               ELSE IF p \in good THEN Plus(f[next[p]], key[p], value[p])
               ELSE Refused
    BY <1>8, Zenon DEF Backward
  <2>2. CASE p = L + 1
    BY <2>1, <2>2
  <2>3. CASE p # L + 1
    <3>1. p \in 1 .. L
      BY <2>3
    <3>2. /\ p \in good <=> GoodLine(h, p)
          /\ next[p] = LineAt(h, p).next
          /\ key[p] = KeyAt(h, p).text
          /\ value[p] = ValueAt(h, p).text
      BY <1>2, <1>3, <1>4, <1>5, <3>1
    <3> QED BY <2>1, <2>3, <3>2
  <2> QED BY <2>2, <2>3
<1>10. DOMAIN f = 1 .. L + 1 /\ f = [x \in 1 .. L + 1 |-> f[x]]
  BY <1>8, Zenon DEF Backward
<1>11. Reads(f, h)
  BY <1>1, <1>9, <1>10, Zenon DEF Reads
<1> QED BY <1>11, HeaderLinesUnfold

-----------------------------------------------------------------------------
(* The text of a request *)

\* The kinds of characters.
LEMMA Tokens ==
  /\ Words \subseteq Token /\ Space \subseteq Token /\ NUL \in Token
  /\ SP \in Space /\ CR \in Space /\ LF \in Space
  /\ SP # CR /\ SP # LF /\ CR # LF /\ NUL # CR
  /\ \A w \in Words : w \notin Space
  BY DEF Words, Token, Space, Keys, Digits, SP, CR, LF, NUL

\* Concatenation, character by character.
IsCat(u, s, t) ==
  /\ u \in Seq(Token)
  /\ Len(u) = Len(s) + Len(t)
  /\ \A x \in 1 .. Len(s) : u[x] = s[x]
  /\ \A y \in 1 .. Len(t) : u[Len(s) + y] = t[y]

\* What two texts make is their concatenation.
LEMMA CatIs ==
  ASSUME NEW s \in Seq(Token), NEW t \in Seq(Token)
  PROVE  s \o t \in Seq(Token) /\ IsCat(s \o t, s, t)
  BY DEF IsCat

\* The same for a part of a text.
IsPart(u, d, i, j) ==
  /\ u \in Seq(Token)
  /\ Len(u) = j - i + 1
  /\ \A x \in 1 .. j - i + 1 : u[x] = d[i + x - 1]

\* What SubSeq makes is a part.
LEMMA PartIs ==
  ASSUME NEW d \in Seq(Token), NEW i \in 1 .. Len(d) + 1, NEW j \in i - 1 .. Len(d)
  PROVE  SubSeq(d, i, j) \in Seq(Token) /\ IsPart(SubSeq(d, i, j), d, i, j)
  BY DEF IsPart

\* The line end is two characters.
LEMMA EolIs == Eol \in Seq(Token) /\ Len(Eol) = 2 /\ Eol[1] = CR /\ Eol[2] = LF
  BY Tokens DEF Eol

\* The start line, and the field lines with their ends.
StartLine(r) == <<r.method, SP, r.url, SP, r.version>>
FieldTexts(r) == [i \in DOMAIN r.fields |-> r.fields[i] \o Eol]

\* The start line and the first k field lines.
Lead(r, k) == StartLine(r) \o Eol \o Joined(FieldTexts(r), k)

\* The parts of a request are texts.
LEMMA RequestType ==
  ASSUME NEW r \in Requests
  PROVE  /\ r.method \in Words /\ r.url \in Words /\ r.version \in Words
         /\ r.fields \in Seq(Seq(Words \cup {SP})) /\ Len(r.fields) \in Nat
         /\ DOMAIN r.fields = 1 .. Len(r.fields)
         /\ r.body \in Seq(Words \cup Space) /\ r.body \in Seq(Token)
         /\ \A k \in 1 .. Len(r.fields) :
              /\ r.fields[k] \in Seq(Words \cup {SP}) /\ r.fields[k] \in Seq(Token)
              /\ Len(r.fields[k]) \in Nat
              /\ \A y \in 1 .. Len(r.fields[k]) :
                   r.fields[k][y] \in Token /\ r.fields[k][y] \notin {CR, LF}
<1>1. /\ r.method \in Words /\ r.url \in Words /\ r.version \in Words
      /\ r.fields \in Seq(Seq(Words \cup {SP}))
      /\ r.body \in Seq(Words \cup Space)
  BY DEF Requests
<1>2. Words \cup {SP} \subseteq Token /\ Words \cup Space \subseteq Token
  BY Tokens DEF Space
<1>3. r.body \in Seq(Token)
  BY <1>1, <1>2, SeqMonotonic
<1>4. Len(r.fields) \in Nat /\ DOMAIN r.fields = 1 .. Len(r.fields)
  BY <1>1
<1>5. ASSUME NEW k \in 1 .. Len(r.fields)
      PROVE  /\ r.fields[k] \in Seq(Words \cup {SP}) /\ r.fields[k] \in Seq(Token)
             /\ Len(r.fields[k]) \in Nat
             /\ \A y \in 1 .. Len(r.fields[k]) :
                  r.fields[k][y] \in Token /\ r.fields[k][y] \notin {CR, LF}
  <2>1. r.fields[k] \in Seq(Words \cup {SP})
    BY <1>1
  <2>2. PICK f : f = r.fields[k]
    OBVIOUS
  <2>3. f \in Seq(Words \cup {SP})
    BY <2>1, <2>2
  <2>4. f \in Seq(Token) /\ Len(f) \in Nat
    BY <1>2, <2>3, SeqMonotonic
  <2>5. ASSUME NEW y \in 1 .. Len(f)
        PROVE  f[y] \in Token /\ f[y] \notin {CR, LF}
    <3>1. f[y] \in Words \cup {SP}
      BY <2>3
    <3> QED BY <1>2, <3>1, Tokens
  <2> QED BY <2>2, <2>3, <2>4, <2>5
<1> QED BY <1>1, <1>3, <1>4, <1>5

\* The field lines with their ends are texts.
LEMMA FieldTextsType ==
  ASSUME NEW r \in Requests
  PROVE  /\ FieldTexts(r) \in Seq(Seq(Token))
         /\ Len(FieldTexts(r)) = Len(r.fields)
         /\ \A k \in 1 .. Len(r.fields) : FieldTexts(r)[k] = r.fields[k] \o Eol
<1>1. PICK n \in Nat : n = Len(r.fields) /\ DOMAIN r.fields = 1 .. n
  BY RequestType
<1>2. FieldTexts(r) = [i \in 1 .. n |-> r.fields[i] \o Eol]
  BY <1>1 DEF FieldTexts
<1>3. ASSUME NEW i \in 1 .. n
      PROVE  r.fields[i] \o Eol \in Seq(Token)
  <2>1. r.fields[i] \in Seq(Token)
    BY <1>1, RequestType
  <2> QED BY <2>1, EolIs, ConcatProperties
<1>4. FieldTexts(r) \in Seq(Seq(Token)) /\ Len(FieldTexts(r)) = n
  BY <1>2, <1>3
<1> QED BY <1>1, <1>2, <1>4

\* The start line is five characters.
LEMMA StartLineIs ==
  ASSUME NEW r \in Requests
  PROVE  /\ StartLine(r) \in Seq(Token) /\ Len(StartLine(r)) = 5
         /\ StartLine(r)[1] = r.method /\ StartLine(r)[2] = SP
         /\ StartLine(r)[3] = r.url /\ StartLine(r)[4] = SP
         /\ StartLine(r)[5] = r.version
<1>1. r.method \in Token /\ r.url \in Token /\ r.version \in Token /\ SP \in Token
  BY RequestType, Tokens
<1> QED BY <1>1 DEF StartLine

\* Lead, character by character.
LEMMA LeadFirst ==
  ASSUME NEW r \in Requests
  PROVE  /\ Lead(r, 0) \in Seq(Token) /\ Len(Lead(r, 0)) = 7
         /\ Lead(r, 0)[1] = r.method /\ Lead(r, 0)[2] = SP
         /\ Lead(r, 0)[3] = r.url /\ Lead(r, 0)[4] = SP
         /\ Lead(r, 0)[5] = r.version
         /\ Lead(r, 0)[6] = CR /\ Lead(r, 0)[7] = LF
<1>1. Joined(FieldTexts(r), 0) = <<>>
  BY JoinedEmpty
<1>2. PICK s : s = StartLine(r) \o Eol
  OBVIOUS
<1>3. /\ s \in Seq(Token) /\ Len(s) = 7
      /\ s[1] = r.method /\ s[2] = SP /\ s[3] = r.url /\ s[4] = SP
      /\ s[5] = r.version /\ s[6] = CR /\ s[7] = LF
  <2>1. PICK a : a = StartLine(r)
    OBVIOUS
  <2>2. /\ a \in Seq(Token) /\ Len(a) = 5
        /\ a[1] = r.method /\ a[2] = SP /\ a[3] = r.url /\ a[4] = SP
        /\ a[5] = r.version
    BY <2>1, StartLineIs
  <2>3. PICK e : e = Eol
    OBVIOUS
  <2>4. e \in Seq(Token) /\ Len(e) = 2 /\ e[1] = CR /\ e[2] = LF
    BY <2>3, EolIs
  <2>5. IsCat(s, a, e)
    BY <1>2, <2>1, <2>2, <2>3, <2>4, CatIs
  <2>6. /\ s \in Seq(Token) /\ Len(s) = 7
        /\ \A x \in 1 .. 5 : s[x] = a[x]
        /\ \A y \in 1 .. 2 : s[5 + y] = e[y]
    BY <2>2, <2>4, <2>5 DEF IsCat
  <2>7. s[1] = a[1] /\ s[2] = a[2] /\ s[3] = a[3] /\ s[4] = a[4] /\ s[5] = a[5]
    BY <2>6
  <2>8. s[6] = e[1] /\ s[7] = e[2]
    <3>1. s[5 + 1] = e[1] /\ s[5 + 2] = e[2]
      BY <2>6
    <3> QED BY <3>1
  <2> QED BY <2>2, <2>4, <2>6, <2>7, <2>8
<1>4. s \o <<>> = s
  BY <1>3
<1> QED BY <1>1, <1>2, <1>3, <1>4 DEF Lead

\* The start line and the first lines are text.
LEMMA LeadType ==
  ASSUME NEW r \in Requests, NEW k \in 0 .. Len(r.fields)
  PROVE  Lead(r, k) \in Seq(Token) /\ Len(Lead(r, k)) \in Nat
<1>1. Joined(FieldTexts(r), k) \in Seq(Token)
  BY FieldTextsType, JoinedType
<1>2. StartLine(r) \o Eol \in Seq(Token)
  BY StartLineIs, EolIs
<1> QED BY <1>1, <1>2 DEF Lead

\* One more field line makes the lead longer by the line and its end.
LEMMA LeadStep ==
  ASSUME NEW r \in Requests, NEW k \in 1 .. Len(r.fields)
  PROVE  Lead(r, k) = Lead(r, k - 1) \o (r.fields[k] \o Eol)
<1>1. k - 1 \in 0 .. Len(r.fields)
  BY RequestType
<1>2. PICK s : s = StartLine(r) \o Eol
  OBVIOUS
<1>3. s \in Seq(Token)
  BY <1>2, StartLineIs, EolIs
<1>4. PICK j : j = Joined(FieldTexts(r), k - 1)
  OBVIOUS
<1>5. j \in Seq(Token)
  BY <1>1, <1>4, FieldTextsType, JoinedType
<1>6. PICK f : f = r.fields[k] \o Eol
  OBVIOUS
<1>7. f \in Seq(Token)
  <2>1. r.fields[k] \in Seq(Token)
    BY RequestType
  <2> QED BY <1>6, <2>1, EolIs, ConcatProperties
<1>8. Joined(FieldTexts(r), k) = j \o f
  <2>1. k \in 1 .. Len(FieldTexts(r)) /\ FieldTexts(r) \in Seq(Seq(Token))
    BY FieldTextsType
  <2>2. Joined(FieldTexts(r), k) = Joined(FieldTexts(r), k - 1) \o FieldTexts(r)[k]
    BY <2>1, JoinedStep
  <2>3. FieldTexts(r)[k] = f
    BY <1>6, FieldTextsType
  <2> QED BY <1>4, <2>2, <2>3
<1>9. s \o (j \o f) = (s \o j) \o f
  BY <1>3, <1>5, <1>7, ConcatAssociative
<1>10. Lead(r, k) = s \o (j \o f) /\ Lead(r, k - 1) = s \o j
  BY <1>2, <1>4, <1>8 DEF Lead
<1> QED BY <1>6, <1>9, <1>10

\* A text, a line and its end.
LEMMA LineChars ==
  ASSUME NEW s \in Seq(Token), NEW f \in Seq(Token)
  PROVE  LET t == s \o (f \o Eol) IN
         /\ Len(t) = Len(s) + Len(f) + 2
         /\ \A x \in 1 .. Len(s) : t[x] = s[x]
         /\ \A y \in 1 .. Len(f) : t[Len(s) + y] = f[y]
         /\ t[Len(s) + Len(f) + 1] = CR
         /\ t[Len(s) + Len(f) + 2] = LF
<1>1. PICK g : g = f \o Eol
  OBVIOUS
<1>2. PICK t : t = s \o (f \o Eol)
  OBVIOUS
<1>3. IsCat(g, f, Eol) /\ g \in Seq(Token)
  BY <1>1, EolIs, CatIs
<1>4. IsCat(t, s, g)
  BY <1>1, <1>2, <1>3, CatIs
<1>5. PICK a \in Nat : a = Len(s)
  OBVIOUS
<1>6. PICK m \in Nat : m = Len(f)
  OBVIOUS
<1>7. /\ Len(g) = m + 2
      /\ \A y \in 1 .. m : g[y] = f[y]
      /\ g[m + 1] = CR /\ g[m + 2] = LF
  BY <1>3, <1>6, EolIs DEF IsCat
<1>8. /\ Len(t) = a + (m + 2)
      /\ \A x \in 1 .. a : t[x] = s[x]
      /\ \A y \in 1 .. m + 2 : t[a + y] = g[y]
  BY <1>4, <1>5, <1>7 DEF IsCat
<1>9. ASSUME NEW y \in 1 .. m
      PROVE  t[a + y] = f[y]
  BY <1>7, <1>8
<1>10. t[a + (m + 1)] = CR /\ t[a + (m + 2)] = LF
  BY <1>7, <1>8
<1>11. a + (m + 1) = a + m + 1 /\ a + (m + 2) = a + m + 2
  OBVIOUS
<1>12. /\ Len(t) = a + m + 2
       /\ t[a + m + 1] = CR /\ t[a + m + 2] = LF
  BY <1>8, <1>10, <1>11
<1> QED BY <1>2, <1>5, <1>6, <1>8, <1>9, <1>12, Zenon

\* The same for lengths and characters.
LEMMA LeadChars ==
  ASSUME NEW r \in Requests, NEW k \in 1 .. Len(r.fields)
  PROVE  /\ Len(Lead(r, k)) = Len(Lead(r, k - 1)) + Len(r.fields[k]) + 2
         /\ \A x \in 1 .. Len(Lead(r, k - 1)) : Lead(r, k)[x] = Lead(r, k - 1)[x]
         /\ \A y \in 1 .. Len(r.fields[k]) :
              Lead(r, k)[Len(Lead(r, k - 1)) + y] = r.fields[k][y]
         /\ Lead(r, k)[Len(Lead(r, k)) - 1] = CR
         /\ Lead(r, k)[Len(Lead(r, k))] = LF
<1>1. r.fields[k] \in Seq(Token) /\ Len(r.fields[k]) \in Nat
  BY RequestType
<1>2. Lead(r, k - 1) \in Seq(Token) /\ Len(Lead(r, k - 1)) \in Nat
  <2>1. k - 1 \in 0 .. Len(r.fields)
    BY RequestType
  <2> QED BY <2>1, LeadType
<1>3. Lead(r, k) = Lead(r, k - 1) \o (r.fields[k] \o Eol)
  BY LeadStep
<1>4. PICK f : f = r.fields[k]
  OBVIOUS
<1>5. PICK s : s = Lead(r, k - 1)
  OBVIOUS
<1>6. PICK t : t = Lead(r, k)
  OBVIOUS
<1>7. /\ Len(t) = Len(s) + Len(f) + 2
      /\ \A x \in 1 .. Len(s) : t[x] = s[x]
      /\ \A y \in 1 .. Len(f) : t[Len(s) + y] = f[y]
      /\ t[Len(s) + Len(f) + 1] = CR
      /\ t[Len(s) + Len(f) + 2] = LF
  <2>1. s \in Seq(Token) /\ f \in Seq(Token)
    BY <1>1, <1>2, <1>4, <1>5
  <2>2. t = s \o (f \o Eol)
    BY <1>3, <1>4, <1>5, <1>6
  <2> QED BY <2>1, <2>2, LineChars, Zenon
<1>8. Len(t) - 1 = Len(s) + Len(f) + 1
  BY <1>1, <1>2, <1>4, <1>5, <1>7
<1> QED BY <1>4, <1>5, <1>6, <1>7, <1>8

\* Where the lines of a request lie: a[k] is the place of the line feed that ends
\* field line k, a[0] of the one that ends the start line.
HeadShape(r, T, a) ==
  LET F == r.fields  n == Len(F) IN
  /\ T \in Seq(Token)
  /\ a \in [0 .. n -> Nat]
  /\ a[0] = 7 /\ Len(T) = a[n] + 2
  /\ \A k \in 1 .. n : a[k] = a[k - 1] + Len(F[k]) + 2
  /\ \A k \in 0 .. n : 7 <= a[k] /\ a[k] <= a[n]
  /\ \A k \in 1 .. n : \A y \in 1 .. Len(F[k]) : T[a[k - 1] + y] = F[k][y]
  /\ \A k \in 0 .. n : T[a[k] - 1] = CR /\ T[a[k]] = LF
  /\ T[a[n] + 1] = CR /\ T[a[n] + 2] = LF
  /\ T[1] = r.method /\ T[2] = SP /\ T[3] = r.url /\ T[4] = SP /\ T[5] = r.version
  /\ \A x \in 8 .. a[n] : \E k \in 1 .. n : a[k - 1] < x /\ x <= a[k]

\* Lines that have been written stay where they are.
LEMMA LeadPrefix ==
  ASSUME NEW r \in Requests, NEW n \in 0 .. Len(r.fields)
  PROVE  \A j \in 0 .. n :
           /\ Len(Lead(r, j)) <= Len(Lead(r, n))
           /\ \A x \in 1 .. Len(Lead(r, j)) : Lead(r, n)[x] = Lead(r, j)[x]
<1> DEFINE Ok(k) == \A j \in 0 .. k :
             /\ Len(Lead(r, j)) <= Len(Lead(r, k))
             /\ \A x \in 1 .. Len(Lead(r, j)) : Lead(r, k)[x] = Lead(r, j)[x]
           Bad == {k \in 0 .. Len(r.fields) : ~ Ok(k)}
<1>0. Len(r.fields) \in Nat
  BY RequestType
<1>1. SUFFICES ASSUME Bad # {} PROVE FALSE
  OBVIOUS
<1>2. PICK m \in Bad : \A k \in Bad : m <= k
  <2>1. Bad \subseteq Nat
    BY <1>0
  <2> HIDE DEF Bad
  <2> QED BY <1>1, <2>1, LeastElement
<1>3. m \in 0 .. Len(r.fields) /\ ~ Ok(m)
  OBVIOUS
<1>4. \A k \in 0 .. Len(r.fields) : k < m => Ok(k)
  BY <1>0, <1>2
<1> HIDE DEF Bad
<1>5. ASSUME NEW j \in 0 .. m
      PROVE  /\ Len(Lead(r, j)) <= Len(Lead(r, m))
             /\ \A x \in 1 .. Len(Lead(r, j)) : Lead(r, m)[x] = Lead(r, j)[x]
  <2>0. j \in 0 .. Len(r.fields) /\ Len(Lead(r, j)) \in Nat /\ Len(Lead(r, m)) \in Nat
    BY <1>0, <1>3, LeadType
  <2>1. CASE j = m
    BY <2>0, <2>1
  <2>2. CASE j # m
    <3>1. m \in 1 .. Len(r.fields) /\ m - 1 \in 0 .. Len(r.fields) /\ j \in 0 .. m - 1
      BY <1>0, <1>3, <2>2
    <3>2. Ok(m - 1)
      BY <1>0, <1>4, <3>1
    <3>3. /\ Len(Lead(r, j)) <= Len(Lead(r, m - 1))
          /\ \A x \in 1 .. Len(Lead(r, j)) : Lead(r, m - 1)[x] = Lead(r, j)[x]
      BY <3>1, <3>2
    <3> HIDE DEF Ok
    <3>4. /\ Len(Lead(r, m)) = Len(Lead(r, m - 1)) + Len(r.fields[m]) + 2
          /\ \A x \in 1 .. Len(Lead(r, m - 1)) : Lead(r, m)[x] = Lead(r, m - 1)[x]
      BY <3>1, LeadChars
    <3>5. Len(r.fields[m]) \in Nat /\ Len(Lead(r, m - 1)) \in Nat
      BY <3>1, RequestType, LeadType
    <3>6. Len(Lead(r, j)) <= Len(Lead(r, m))
      <4>1. PICK u \in Nat, v \in Nat, w \in Nat, z \in Nat :
              /\ u = Len(Lead(r, j)) /\ v = Len(Lead(r, m - 1))
              /\ w = Len(r.fields[m]) /\ z = Len(Lead(r, m))
        BY <2>0, <3>5
      <4>2. u <= v
        BY <3>3, <4>1
      <4>3. z = v + w + 2
        BY <3>4, <4>1
      <4> HIDE <4>1
      <4>4. u <= z
        BY <4>2, <4>3
      <4> QED BY <4>1, <4>4
    <3>7. ASSUME NEW x \in 1 .. Len(Lead(r, j))
          PROVE  Lead(r, m)[x] = Lead(r, j)[x]
      <4>1. x \in 1 .. Len(Lead(r, m - 1))
        BY <2>0, <3>3, <3>5
      <4> QED BY <3>3, <3>4, <4>1
    <3> QED BY <3>6, <3>7
  <2> QED BY <2>1, <2>2
<1> QED BY <1>3, <1>5

\* The head is the lead of all field lines and an empty line.
LEMMA HeadTextIs ==
  ASSUME NEW r \in Requests
  PROVE  /\ HeadText(r) = Lead(r, Len(r.fields)) \o Eol
         /\ HeadText(r) \in Seq(Token)
         /\ IsCat(HeadText(r), Lead(r, Len(r.fields)), Eol)
<1>1. PICK n \in Nat : n = Len(r.fields)
  BY RequestType
<1>2. [i \in 1 .. n |-> FieldTexts(r)[i]] = FieldTexts(r)
  BY <1>1, FieldTextsType
<1>3. Joined(FieldTexts(r), n) = FlattenSeq(FieldTexts(r))
  BY <1>2 DEF Joined
<1>4. HeadText(r) = StartLine(r) \o Eol \o FlattenSeq(FieldTexts(r)) \o Eol
  BY Zenon DEF HeadText, StartLine, FieldTexts
<1>5. HeadText(r) = Lead(r, n) \o Eol
  BY <1>3, <1>4, Zenon DEF Lead
<1>6. Lead(r, n) \in Seq(Token)
  BY <1>1, LeadType
<1> QED BY <1>1, <1>5, <1>6, CatIs, EolIs

\* The head has the shape of HeadShape.
LEMMA HeadShaped ==
  ASSUME NEW r \in Requests
  PROVE  \E a : HeadShape(r, HeadText(r), a)
<1>1. PICK n \in Nat : n = Len(r.fields)
  BY RequestType
<1>2. PICK T : T = HeadText(r)
  OBVIOUS
<1>3. PICK a : a = [k \in 0 .. n |-> Len(Lead(r, k))]
  OBVIOUS
<1>4. \A k \in 0 .. n : a[k] = Len(Lead(r, k)) /\ a[k] \in Nat
  BY <1>1, <1>3, LeadType
<1>5. a \in [0 .. n -> Nat]
  BY <1>3, <1>4
<1>6. 0 \in 0 .. n /\ n \in 0 .. n
  OBVIOUS
<1>7. /\ T \in Seq(Token) /\ Len(T) = a[n] + 2
      /\ \A x \in 1 .. a[n] : T[x] = Lead(r, n)[x]
      /\ T[a[n] + 1] = CR /\ T[a[n] + 2] = LF
  <2>1. T \in Seq(Token) /\ IsCat(T, Lead(r, n), Eol)
    BY <1>1, <1>2, HeadTextIs
  <2>2. a[n] = Len(Lead(r, n)) /\ a[n] \in Nat
    BY <1>4, <1>6
  <2> QED BY <2>1, <2>2, EolIs DEF IsCat
<1>8. ASSUME NEW k \in 0 .. n
      PROVE  /\ a[k] <= a[n]
             /\ \A x \in 1 .. a[k] : T[x] = Lead(r, k)[x]
  <2>1. /\ Len(Lead(r, k)) <= Len(Lead(r, n))
        /\ \A x \in 1 .. Len(Lead(r, k)) : Lead(r, n)[x] = Lead(r, k)[x]
    BY <1>1, <1>6, LeadPrefix
  <2>2. a[k] <= a[n]
    BY <1>4, <1>6, <2>1
  <2>3. ASSUME NEW x \in 1 .. a[k]
        PROVE  T[x] = Lead(r, k)[x]
    <3>1. x \in 1 .. a[n] /\ x \in 1 .. Len(Lead(r, k))
      BY <1>4, <1>6, <2>2
    <3> QED BY <1>7, <2>1, <3>1
  <2> QED BY <2>2, <2>3
<1>9. /\ a[0] = 7
      /\ T[1] = r.method /\ T[2] = SP /\ T[3] = r.url /\ T[4] = SP /\ T[5] = r.version
      /\ T[6] = CR /\ T[7] = LF
  <2>1. a[0] = 7
    BY <1>4, <1>6, LeadFirst
  <2>2. \A x \in 1 .. 7 : T[x] = Lead(r, 0)[x]
    BY <1>6, <1>8, <2>1
  <2> QED BY <2>1, <2>2, LeadFirst
<1>10. ASSUME NEW k \in 1 .. n
       PROVE  /\ a[k] = a[k - 1] + Len(r.fields[k]) + 2
              /\ \A y \in 1 .. Len(r.fields[k]) : T[a[k - 1] + y] = r.fields[k][y]
              /\ T[a[k] - 1] = CR /\ T[a[k]] = LF
  <2>1. k \in 0 .. n /\ k - 1 \in 0 .. n
    OBVIOUS
  <2>2. /\ a[k] = Len(Lead(r, k)) /\ a[k - 1] = Len(Lead(r, k - 1))
        /\ a[k] \in Nat /\ a[k - 1] \in Nat
    BY <1>4, <2>1
  <2>3. PICK L : L = Lead(r, k)
    OBVIOUS
  <2>4. PICK f : f = r.fields[k]
    OBVIOUS
  <2>5. /\ a[k] = a[k - 1] + Len(f) + 2
        /\ \A y \in 1 .. Len(f) : L[a[k - 1] + y] = f[y]
        /\ L[a[k] - 1] = CR /\ L[a[k]] = LF
    BY <1>1, <2>2, <2>3, <2>4, LeadChars
  <2>6. Len(f) \in Nat
    BY <1>1, <2>4, RequestType
  <2>7. \A x \in 1 .. a[k] : T[x] = L[x]
    BY <1>8, <2>1, <2>3
  <2>8. ASSUME NEW y \in 1 .. Len(f)
        PROVE  T[a[k - 1] + y] = f[y]
    <3>1. a[k - 1] + y \in 1 .. a[k]
      BY <2>2, <2>5, <2>6
    <3> QED BY <2>5, <2>7, <3>1
  <2>9. a[k] - 1 \in 1 .. a[k] /\ a[k] \in 1 .. a[k]
    BY <2>2, <2>5, <2>6
  <2>10. T[a[k] - 1] = CR /\ T[a[k]] = LF
    BY <2>5, <2>7, <2>9
  <2> QED BY <2>4, <2>5, <2>8, <2>10
<1>11. ASSUME NEW k \in 0 .. n
       PROVE  7 <= a[k] /\ T[a[k] - 1] = CR /\ T[a[k]] = LF
  <2>1. CASE k = 0
    BY <1>9, <2>1
  <2>2. CASE k # 0
    <3>1. k \in 1 .. n /\ 0 \in 0 .. k /\ k \in 0 .. Len(r.fields)
      BY <1>1, <2>2
    <3>2. Len(Lead(r, 0)) <= Len(Lead(r, k))
      BY <3>1, LeadPrefix
    <3>3. a[0] <= a[k]
      BY <1>4, <1>6, <3>2
    <3> QED BY <1>9, <1>10, <3>1, <3>3
  <2> QED BY <2>1, <2>2
<1>12. ASSUME NEW x \in 8 .. a[n]
       PROVE  \E k \in 1 .. n : a[k - 1] < x /\ x <= a[k]
  <2> DEFINE S == {k \in 0 .. n : x <= a[k]}
  <2>1. n \in S /\ S \subseteq Nat
    BY <1>4, <1>6
  <2>2. PICK k \in S : \A j \in S : k <= j
    <3> HIDE DEF S
    <3> QED BY <2>1, LeastElement
  <2>3. k \in 0 .. n /\ x <= a[k]
    OBVIOUS
  <2>4. k # 0
    BY <1>9, <2>3
  <2>5. k \in 1 .. n /\ k - 1 \in 0 .. n /\ ~ (k <= k - 1)
    BY <2>3, <2>4
  <2>6. ~ (x <= a[k - 1])
    BY <2>2, <2>5
  <2>7. a[k - 1] \in Nat
    BY <1>4, <2>5
  <2>8. a[k - 1] < x
    BY <2>6, <2>7
  <2> QED BY <2>3, <2>5, <2>8
<1> QED BY <1>1, <1>2, <1>5, <1>7, <1>8, <1>9, <1>10, <1>11, <1>12 DEF HeadShape

\* A carriage return in a head ends one of its lines.
LEMMA ReturnPlaces ==
  ASSUME NEW r \in Requests, NEW T, NEW a, HeadShape(r, T, a),
         NEW x \in 1 .. a[Len(r.fields)], T[x] = CR
  PROVE  \E k \in 0 .. Len(r.fields) : x = a[k] - 1
<1>1. PICK n \in Nat : n = Len(r.fields)
  BY RequestType
<1>2. a \in [0 .. n -> Nat] /\ a[0] = 7
  BY <1>1 DEF HeadShape
<1>3. CASE x <= 5
  <2>1. x \in {1, 2, 3, 4, 5}
    BY <1>1, <1>2, <1>3
  <2>2. T[1] = r.method /\ T[2] = SP /\ T[3] = r.url /\ T[4] = SP /\ T[5] = r.version
    BY DEF HeadShape
  <2>3. CR # r.method /\ CR # SP /\ CR # r.url /\ CR # r.version
    BY RequestType, Tokens
  <2> QED BY <2>1, <2>2, <2>3
<1>4. CASE x = 6
  BY <1>1, <1>2, <1>4
<1>5. CASE x = 7
  <2>1. T[a[0]] = LF
    BY <1>1 DEF HeadShape
  <2> QED BY <1>2, <1>5, <2>1, Tokens
<1>6. CASE x >= 8
  <2>1. x \in 8 .. a[n]
    BY <1>1, <1>2, <1>6
  <2>2. PICK k \in 1 .. n : a[k - 1] < x /\ x <= a[k]
    BY <1>1, <2>1 DEF HeadShape
  <2>3. PICK m : m = Len(r.fields[k])
    OBVIOUS
  <2>4. m \in Nat /\ k \in 0 .. n /\ k - 1 \in 0 .. n
    BY <1>1, <2>3, RequestType
  <2>5. a[k] = a[k - 1] + m + 2 /\ a[k] \in Nat /\ a[k - 1] \in Nat
    BY <1>1, <1>2, <2>3, <2>4 DEF HeadShape
  <2>6. PICK y \in Nat : x = a[k - 1] + y /\ y \in 1 .. m + 2
    <3>1. PICK p \in Nat, q \in Nat, v \in Nat : p = a[k - 1] /\ q = a[k] /\ v = x
      <4>1. x \in Nat
        BY <1>1, <1>2
      <4> QED BY <2>5, <4>1
    <3>2. q = p + m + 2 /\ p < v /\ v <= q
      BY <2>2, <2>5, <3>1
    <3>3. v - p \in 1 .. m + 2 /\ v = p + (v - p) /\ v - p \in Nat
      BY <2>4, <3>2
    <3> QED BY <3>1, <3>3
  <2>7. CASE y <= m
    <3>1. y \in 1 .. m
      BY <2>4, <2>6, <2>7
    <3>2. T[x] = r.fields[k][y]
      BY <1>1, <2>3, <2>6, <3>1 DEF HeadShape
    <3>3. r.fields[k][y] \notin {CR, LF}
      BY <1>1, <2>3, <3>1, RequestType
    <3> QED BY <3>2, <3>3
  <2>8. CASE y = m + 1
    <3>1. x = a[k] - 1
      BY <2>4, <2>5, <2>6, <2>8
    <3> QED BY <1>1, <2>4, <3>1
  <2>9. CASE y = m + 2
    <3>1. x = a[k]
      BY <2>4, <2>5, <2>6, <2>9
    <3>2. T[a[k]] = LF
      BY <1>1, <2>4 DEF HeadShape
    <3> QED BY <3>1, <3>2, Tokens
  <2> QED BY <2>4, <2>6, <2>7, <2>8, <2>9
<1> QED
  <2>1. x \in Nat
    BY <1>1, <1>2
  <2> QED BY <2>1, <1>3, <1>4, <1>5, <1>6

\* No two line ends follow each other before the end of the head.
LEMMA NoEarlyEnd ==
  ASSUME NEW r \in Requests, Written(r), NEW T, NEW a, HeadShape(r, T, a),
         NEW x \in 1 .. Len(T) - 4, T[x] = CR
  PROVE  T[x + 2] # CR
<1>1. PICK n \in Nat : n = Len(r.fields)
  BY RequestType
<1>2. a \in [0 .. n -> Nat] /\ Len(T) = a[n] + 2
  BY <1>1 DEF HeadShape
<1>3. x \in 1 .. a[n] /\ x <= a[n] - 2
  BY <1>2
<1>4. PICK k \in 0 .. n : x = a[k] - 1
  BY <1>1, <1>3, ReturnPlaces
<1>5. k # n
  BY <1>2, <1>3, <1>4
<1>6. k + 1 \in 1 .. n /\ k + 1 - 1 = k
  BY <1>4, <1>5
<1>7. PICK j \in 1 .. n : j = k + 1 /\ j - 1 = k
  BY <1>6
<1>8. Len(r.fields[j]) \in Nat /\ Len(r.fields[j]) >= 1
  BY <1>1, <1>7, RequestType DEF Written, Line
<1>9. 1 \in 1 .. Len(r.fields[j])
  BY <1>8
<1>10. T[a[j - 1] + 1] = r.fields[j][1]
  BY <1>1, <1>9 DEF HeadShape
<1>11. x + 2 = a[j - 1] + 1
  BY <1>2, <1>4, <1>7
<1>12. r.fields[j][1] # CR
  BY <1>1, <1>9, RequestType
<1> QED BY <1>10, <1>11, <1>12

\* The end of a header is where its four characters are.
LEMMA MarkIs ==
  ASSUME NEW d \in Seq(Token), NEW i \in 1 .. Len(d) - 3
  PROVE  SubSeq(d, i, i + 3) = EndMark <=>
           d[i] = CR /\ d[i + 1] = LF /\ d[i + 2] = CR /\ d[i + 3] = LF
<1>1. PICK s : s = SubSeq(d, i, i + 3)
  OBVIOUS
<1>2. /\ s \in Seq(Token) /\ Len(s) = 4
      /\ s[1] = d[i] /\ s[2] = d[i + 1] /\ s[3] = d[i + 2] /\ s[4] = d[i + 3]
  <2>1. i \in 1 .. Len(d) + 1 /\ i + 3 \in i - 1 .. Len(d)
    OBVIOUS
  <2>2. IsPart(s, d, i, i + 3)
    BY <1>1, <2>1, PartIs
  <2>3. i \in Nat /\ i + 3 - i + 1 = 4
    OBVIOUS
  <2>4. s \in Seq(Token) /\ Len(s) = 4 /\ \A x \in 1 .. 4 : s[x] = d[i + x - 1]
    BY <2>2, <2>3 DEF IsPart
  <2>5. s[1] = d[i + 1 - 1] /\ s[2] = d[i + 2 - 1] /\ s[3] = d[i + 3 - 1] /\ s[4] = d[i + 4 - 1]
    BY <2>4
  <2>6. i + 1 - 1 = i /\ i + 2 - 1 = i + 1 /\ i + 3 - 1 = i + 2 /\ i + 4 - 1 = i + 3
    BY <2>3
  <2> QED BY <2>4, <2>5, <2>6
<1>3. EndMark = <<CR, LF, CR, LF>>
  BY DEF EndMark
<1>4. s = EndMark <=> s[1] = CR /\ s[2] = LF /\ s[3] = CR /\ s[4] = LF
  <2>1. s = EndMark => s[1] = CR /\ s[2] = LF /\ s[3] = CR /\ s[4] = LF
    BY <1>3
  <2>2. ASSUME s[1] = CR, s[2] = LF, s[3] = CR, s[4] = LF PROVE s = EndMark
    <3>1. EndMark \in Seq(Token) /\ Len(EndMark) = 4
      BY <1>3, Tokens
    <3>2. \A j \in 1 .. 4 : s[j] = EndMark[j]
      BY <1>3, <2>2
    <3> QED BY <1>2, <3>1, <3>2, SeqEqual
  <2> QED BY <2>1, <2>2
<1> QED BY <1>1, <1>2, <1>4

\* The empty line begins at place i.
MarkAt(d, i) == d[i] = CR /\ d[i + 1] = LF /\ d[i + 2] = CR /\ d[i + 3] = LF

\* getHeader finds the first empty line.
LEMMA getHeaderFinds ==
  ASSUME NEW d \in Seq(Token), NEW e, e = getHeader(d)
  PROVE  \/ e = 0 /\ \A i \in 1 .. Len(d) - 3 : ~ MarkAt(d, i)
         \/ /\ e \in 1 .. Len(d) - 3
            /\ MarkAt(d, e)
            /\ \A i \in 1 .. Len(d) - 3 : MarkAt(d, i) => e <= i
<1> DEFINE S == {i \in 1 .. Len(d) - 3 : SubSeq(d, i, i + 3) = EndMark}
<1>1. e = IF S = {} THEN 0 ELSE Min(S)
  BY DEF getHeader
<1>2. \A i \in 1 .. Len(d) - 3 : i \in S <=> MarkAt(d, i)
  BY MarkIs DEF MarkAt
<1>3. S \subseteq 1 .. Len(d) - 3 /\ S \subseteq Nat
  OBVIOUS
<1> HIDE DEF S
<1>4. CASE S = {}
  BY <1>1, <1>2, <1>4
<1>5. CASE S # {}
  <2>1. Min(S) \in S /\ \A i \in S : Min(S) <= i
    BY <1>3, <1>5, LeastElement
  <2> QED BY <1>1, <1>2, <1>3, <1>5, <2>1
<1> QED BY <1>4, <1>5

\* d begins as T does, as far as it goes.
Opens(d, T) == \A x \in 1 .. Len(d) : x <= Len(T) => d[x] = T[x]

\* getHeader finds the empty line of a request once all of it is there, and nothing before.
LEMMA getHeaderIs ==
  ASSUME NEW r \in Requests, Written(r), NEW T, NEW a, HeadShape(r, T, a),
         NEW d \in Seq(Token), Opens(d, T)
  PROVE  getHeader(d) = IF Len(d) >= Len(T) THEN Len(T) - 3 ELSE 0
<1>1. PICK n \in Nat : n = Len(r.fields)
  BY RequestType
<1>2. PICK z \in Nat : z = a[n] /\ Len(T) = z + 2 /\ 7 <= z
  <2>1. a \in [0 .. n -> Nat] /\ n \in 0 .. n
    BY <1>1 DEF HeadShape
  <2>2. 7 <= a[n] /\ Len(T) = a[n] + 2
    BY <1>1, <2>1 DEF HeadShape
  <2> QED BY <2>1, <2>2
<1>3. T[z - 1] = CR /\ T[z] = LF /\ T[z + 1] = CR /\ T[z + 2] = LF
  <2>1. n \in 0 .. n
    OBVIOUS
  <2> QED BY <1>1, <1>2, <2>1 DEF HeadShape
<1>4. PICK m \in Nat : m = Len(d)
  OBVIOUS
<1>5. \A x \in 1 .. m : x <= z + 2 => d[x] = T[x]
  BY <1>2, <1>4 DEF Opens
<1>6. ASSUME NEW i \in 1 .. m - 3, MarkAt(d, i) PROVE i >= z - 1
  <2>1. SUFFICES ASSUME i <= z - 2 PROVE FALSE
    OBVIOUS
  <2>2. d[i] = CR /\ d[i + 2] = CR
    BY <1>6 DEF MarkAt
  <2>3. i \in 1 .. m /\ i + 2 \in 1 .. m /\ i <= z + 2 /\ i + 2 <= z + 2
    BY <2>1
  <2>4. T[i] = CR /\ T[i + 2] = CR
    BY <1>5, <2>2, <2>3
  <2>5. i \in 1 .. Len(T) - 4
    BY <1>2, <2>1
  <2> QED BY <2>4, <2>5, NoEarlyEnd
<1>7. PICK e : e = getHeader(d)
  OBVIOUS
<1>8. \/ e = 0 /\ \A i \in 1 .. m - 3 : ~ MarkAt(d, i)
      \/ /\ e \in 1 .. m - 3
         /\ MarkAt(d, e)
         /\ \A i \in 1 .. m - 3 : MarkAt(d, i) => e <= i
  BY <1>4, <1>7, getHeaderFinds
<1>9. CASE m >= z + 2
  <2>1. z - 1 \in 1 .. m - 3
    BY <1>2, <1>9
  <2>2. d[z - 1] = T[z - 1] /\ d[z] = T[z] /\ d[z + 1] = T[z + 1] /\ d[z + 2] = T[z + 2]
    <3>1. z - 1 \in 1 .. m /\ z \in 1 .. m /\ z + 1 \in 1 .. m /\ z + 2 \in 1 .. m
      BY <1>2, <1>9
    <3>2. z - 1 <= z + 2 /\ z <= z + 2 /\ z + 1 <= z + 2 /\ z + 2 <= z + 2
      OBVIOUS
    <3> QED BY <1>5, <3>1, <3>2
  <2>3. MarkAt(d, z - 1)
    <3>1. z - 1 + 1 = z /\ z - 1 + 2 = z + 1 /\ z - 1 + 3 = z + 2
      OBVIOUS
    <3> QED BY <1>3, <2>2, <3>1 DEF MarkAt
  <2>4. e = z - 1
    BY <1>6, <1>8, <2>1, <2>3
  <2> QED BY <1>2, <1>4, <1>7, <1>9, <2>4
<1>10. CASE ~ (m >= z + 2)
  <2>1. e = 0
    BY <1>6, <1>8, <1>10
  <2> QED BY <1>2, <1>4, <1>7, <1>10, <2>1
<1> QED BY <1>9, <1>10

-----------------------------------------------------------------------------
(* The header of a request *)

\* h is the header that ends before the empty line of T.
Header(r, T, a, h) ==
  /\ h \in Seq(Token) /\ Len(h) = a[Len(r.fields)] - 2
  /\ \A x \in 1 .. a[Len(r.fields)] - 2 : h[x] = T[x]

\* Two texts with the same characters are the same text.
LEMMA SameText ==
  ASSUME NEW s \in Seq(Token), NEW t \in Seq(Token), Len(s) = Len(t),
         \A x \in 1 .. Len(s) : s[x] = t[x]
  PROVE  s = t
  BY SeqEqual

\* A part of one character is that character.
LEMMA OneWord ==
  ASSUME NEW s \in Seq(Token), NEW i \in 1 .. Len(s)
  PROVE  SubSeq(s, i, i) = <<s[i]>>
<1>1. PICK t : t = SubSeq(s, i, i)
  OBVIOUS
<1>2. i \in 1 .. Len(s) + 1 /\ i \in i - 1 .. Len(s) /\ i \in Nat
  OBVIOUS
<1>3. IsPart(t, s, i, i)
  BY <1>1, <1>2, PartIs
<1>4. t \in Seq(Token) /\ Len(t) = 1 /\ t[1] = s[i]
  <2>1. i - i + 1 = 1 /\ i + 1 - 1 = i /\ 1 \in 1 .. 1
    BY <1>2
  <2>2. t \in Seq(Token) /\ Len(t) = 1 /\ \A x \in 1 .. 1 : t[x] = s[i + x - 1]
    BY <1>3, <2>1 DEF IsPart
  <2> QED BY <2>1, <2>2
<1>5. PICK u : u = <<s[i]>>
  OBVIOUS
<1>6. u \in Seq(Token) /\ Len(u) = 1 /\ u[1] = s[i]
  BY <1>5
<1>7. t = u
  BY <1>4, <1>6, SameText
<1> QED BY <1>1, <1>5, <1>7

\* The line that HeaderLines takes behind line end k - 1 is field line k.
LEMMA FieldLineAt ==
  ASSUME NEW r \in Requests, NEW T, NEW a, HeadShape(r, T, a),
         NEW h, Header(r, T, a, h), NEW k \in 1 .. Len(r.fields)
  PROVE  /\ a[k - 1] - 1 \in 1 .. Len(h)
         /\ LineAt(h, a[k - 1] - 1).text = r.fields[k]
         /\ LineAt(h, a[k - 1] - 1).next = a[k] - 1
<1>1. PICK n \in Nat : n = Len(r.fields)
  BY RequestType
<1>2. k \in 1 .. n /\ k \in 0 .. n /\ k - 1 \in 0 .. n /\ n \in 0 .. n
  BY <1>1
<1>3. PICK f : f = r.fields[k]
  OBVIOUS
<1>4. PICK m \in Nat : m = Len(f)
  BY <1>1, <1>3, RequestType
<1>5. PICK p \in Nat, q \in Nat, z \in Nat : p = a[k - 1] /\ q = a[k] /\ z = a[n]
  BY <1>1, <1>2 DEF HeadShape
<1>6. q = p + m + 2 /\ 7 <= p /\ q <= z
  <2>1. a[k] = a[k - 1] + m + 2 /\ 7 <= a[k - 1] /\ a[k] <= a[n]
    BY <1>1, <1>2, <1>3, <1>4 DEF HeadShape
  <2> QED BY <1>5, <2>1
<1>7. PICK l \in Nat, i \in Nat, e \in Nat : l = z - 2 /\ i = p + 1 /\ e = q - 1
  BY <1>6
<1>8. h \in Seq(Token) /\ Len(h) = l /\ \A x \in 1 .. l : h[x] = T[x]
  BY <1>1, <1>5, <1>7 DEF Header
<1>9. eat(h, p - 1, 2) = i
  <2>1. p - 1 + 2 = i /\ i <= l + 1
    BY <1>6, <1>7
  <2>2. PICK S : S = {i, l + 1}
    OBVIOUS
  <2>3. S \subseteq Nat /\ S # {}
    BY <2>2
  <2>4. Min(S) \in S /\ \A y \in S : Min(S) <= y
    BY <2>3, LeastElement
  <2>5. Min(S) = i
    BY <2>1, <2>2, <2>4
  <2>6. eat(h, p - 1, 2) = Min({p - 1 + 2, Len(h) + 1})
    BY DEF eat
  <2> QED BY <1>8, <2>1, <2>2, <2>5, <2>6
<1>10. \A y \in 1 .. m : T[p + y] = f[y] /\ f[y] \notin {CR, LF}
  BY <1>1, <1>2, <1>3, <1>4, <1>5, RequestType DEF HeadShape
<1>11. \A x \in i .. e - 1 : h[x] = f[x - p] /\ h[x] \notin {CR, LF}
  <2>1. SUFFICES ASSUME NEW x \in i .. e - 1
                 PROVE  h[x] = f[x - p] /\ h[x] \notin {CR, LF}
    OBVIOUS
  <2>2. x - p \in 1 .. m /\ p + (x - p) = x /\ x \in 1 .. l
    BY <1>6, <1>7, <2>1
  <2> QED BY <1>8, <1>10, <2>2
<1>12. T[e] = CR
  BY <1>1, <1>2, <1>5, <1>7 DEF HeadShape
<1>13. e \in 1 .. l + 1 /\ i \in 1 .. l + 1 /\ e \in i .. l + 1 /\ e - 1 \in i - 1 .. l
  BY <1>6, <1>7
<1>14. e <= Len(h) => h[e] \in {CR, LF}
  <2>1. e <= l => e \in 1 .. l
    BY <1>13
  <2> QED BY <1>8, <1>12, <2>1
<1>15. eatLine(h, i).text = SubSeq(h, i, e - 1) /\ eatLine(h, i).next = e
  BY <1>8, <1>11, <1>13, <1>14, eatLineIs
<1>16. PICK t : t = SubSeq(h, i, e - 1)
  OBVIOUS
<1>17. IsPart(t, h, i, e - 1)
  BY <1>8, <1>13, <1>16, PartIs
<1>18. e - 1 - i + 1 = m
  BY <1>6, <1>7
<1>19. t \in Seq(Token) /\ Len(t) = m /\ \A x \in 1 .. m : t[x] = h[i + x - 1]
  BY <1>17, <1>18 DEF IsPart
<1>20. \A x \in 1 .. m : t[x] = f[x]
  <2>1. SUFFICES ASSUME NEW x \in 1 .. m PROVE t[x] = f[x]
    OBVIOUS
  <2>2. PICK v \in Nat : v = p + x
    OBVIOUS
  <2>3. i + x - 1 = v /\ v \in i .. e - 1 /\ v - p = x
    BY <1>6, <1>7, <2>2
  <2>4. t[x] = h[v]
    BY <1>19, <2>3
  <2> QED BY <1>11, <2>3, <2>4
<1>21. f \in Seq(Token)
  BY <1>1, <1>3, RequestType
<1>22. t = f
  BY <1>4, <1>19, <1>20, <1>21, SameText
<1>23. LineAt(h, p - 1) = eatLine(h, i)
  BY <1>9 DEF LineAt
<1>24. p - 1 \in 1 .. l
  BY <1>6, <1>7
<1> QED BY <1>3, <1>5, <1>7, <1>8, <1>15, <1>16, <1>22, <1>23, <1>24

\* The words of a field line.
LEMMA FieldWords ==
  ASSUME NEW f \in Seq(Words \cup {SP}), Line(f)
  PROVE  LET key == eatWord(f, 1)  value == eatWord(f, key.next) IN
         /\ Len(f) < 3 => value.text = <<>>
         /\ Len(f) >= 3 => key.text = <<f[1]>> /\ value.text = SubSeq(f, 3, Len(f))
<1>1. PICK m \in Nat : m = Len(f)
  OBVIOUS
<1>2. f \in Seq(Token)
  <2>1. f \in [1 .. m -> Words \cup {SP}]
    BY <1>1
  <2>2. f \in [1 .. m -> Token]
    BY <2>1, Tokens
  <2> QED BY <1>1, <2>2
<1>3. \A x \in 1 .. m : f[x] \in Space <=> f[x] = SP
  BY <1>1, Tokens
<1>4. m >= 1 /\ f[1] # SP
  BY <1>1 DEF Line
<1>5. PICK key, value : key = eatWord(f, 1) /\ value = eatWord(f, key.next)
  OBVIOUS
<1>6. CASE m >= 3
  <2>1. f[2] = SP /\ \A x \in 3 .. m : f[x] # SP
    BY <1>1, <1>6 DEF Line
  <2>2. key.text = SubSeq(f, 1, 2 - 1) /\ key.next = 2
    <3>1. /\ 1 \in 1 .. Len(f) + 1 /\ 2 \in 1 .. Len(f) + 1
          /\ \A x \in 1 .. 1 - 1 : f[x] \in Space
          /\ f[1] \notin Space
          /\ \A x \in 1 .. 2 - 1 : f[x] \notin Space
          /\ f[2] \in Space
      BY <1>1, <1>3, <1>4, <1>6, <2>1
    <3> QED BY <1>2, <1>5, <3>1, eatWordIs
  <2>3. key.text = <<f[1]>>
    <3>1. 2 - 1 = 1 /\ 1 \in 1 .. Len(f)
      BY <1>1, <1>6
    <3> QED BY <1>2, <2>2, <3>1, OneWord
  <2>4. value.text = SubSeq(f, 3, m + 1 - 1)
    <3>1. /\ 2 \in 1 .. Len(f) + 1 /\ 3 \in 2 .. Len(f) + 1 /\ m + 1 \in 3 .. Len(f) + 1
          /\ \A x \in 2 .. 3 - 1 : f[x] \in Space
          /\ f[3] \notin Space
          /\ \A x \in 3 .. m + 1 - 1 : f[x] \notin Space
          /\ ~ (m + 1 <= Len(f))
      BY <1>1, <1>3, <1>6, <2>1
    <3> QED BY <1>2, <1>5, <2>2, <3>1, eatWordIs
  <2>5. m + 1 - 1 = m
    OBVIOUS
  <2> QED BY <1>1, <1>5, <1>6, <2>3, <2>4, <2>5
<1>7. CASE m < 3
  <2>1. value.text = <<>>
    <3>1. /\ key.next \in 1 .. m + 1
          /\ \A x \in key.next .. m : f[x] \in Space
      <4>1. CASE m = 2 /\ f[2] = SP
        <5>1. /\ 1 \in 1 .. Len(f) + 1 /\ 2 \in 1 .. Len(f) + 1
              /\ \A x \in 1 .. 1 - 1 : f[x] \in Space
              /\ f[1] \notin Space
              /\ \A x \in 1 .. 2 - 1 : f[x] \notin Space
              /\ f[2] \in Space
          BY <1>1, <1>3, <1>4, <4>1
        <5>2. key.next = 2
          BY <1>2, <1>5, <5>1, eatWordIs
        <5> QED BY <1>1, <4>1, <5>1, <5>2
      <4>2. CASE ~ (m = 2 /\ f[2] = SP)
        <5>1. /\ 1 \in 1 .. Len(f) + 1 /\ m + 1 \in 1 .. Len(f) + 1
              /\ \A x \in 1 .. 1 - 1 : f[x] \in Space
              /\ f[1] \notin Space
              /\ \A x \in 1 .. m + 1 - 1 : f[x] \notin Space
              /\ ~ (m + 1 <= Len(f))
          BY <1>1, <1>3, <1>4, <1>7, <4>2
        <5>2. key.next = m + 1
          BY <1>2, <1>5, <5>1, eatWordIs
        <5> QED BY <1>1, <5>2
      <4> QED BY <4>1, <4>2
    <3>2. /\ key.next \in 1 .. Len(f) + 1 /\ m + 1 \in key.next .. Len(f) + 1
          /\ m + 1 \in m + 1 .. Len(f) + 1
          /\ \A x \in key.next .. m + 1 - 1 : f[x] \in Space
          /\ ~ (m + 1 <= Len(f))
          /\ \A x \in m + 1 .. m + 1 - 1 : f[x] \notin Space
      BY <1>1, <3>1
    <3>3. value.text = SubSeq(f, m + 1, m + 1 - 1)
      BY <1>2, <1>5, <3>2, eatWordIs
    <3>4. m + 1 - 1 = m /\ m < m + 1
      OBVIOUS
    <3> QED BY <3>3, <3>4
  <2> QED BY <1>1, <1>5, <1>7, <2>1
<1> QED BY <1>1, <1>6, <1>7
\* The start line of a header.
LEMMA StartLineAt ==
  ASSUME NEW r \in Requests, NEW T, NEW a, HeadShape(r, T, a),
         NEW h, Header(r, T, a, h)
  PROVE  eatLine(h, 1).text = StartLine(r) /\ eatLine(h, 1).next = 6
<1>1. PICK n \in Nat : n = Len(r.fields)
  BY RequestType
<1>2. PICK l \in Nat : l = a[n] - 2 /\ 5 <= l
  <2>1. n \in 0 .. n
    OBVIOUS
  <2>2. a[n] \in Nat /\ 7 <= a[n]
    BY <1>1, <2>1 DEF HeadShape
  <2> QED BY <2>2
<1>3. h \in Seq(Token) /\ Len(h) = l /\ \A x \in 1 .. l : h[x] = T[x]
  BY <1>1, <1>2 DEF Header
<1>4. /\ T[1] = r.method /\ T[2] = SP /\ T[3] = r.url /\ T[4] = SP /\ T[5] = r.version
      /\ T[6] = CR
  <2>1. 0 \in 0 .. n /\ 7 - 1 = 6
    OBVIOUS
  <2>2. T[a[0] - 1] = CR /\ a[0] = 7
    BY <1>1, <2>1 DEF HeadShape
  <2>3. T[6] = CR
    BY <2>1, <2>2
  <2> QED BY <2>3 DEF HeadShape
<1>5. PICK s : s = StartLine(r)
  OBVIOUS
<1>6. /\ s \in Seq(Token) /\ Len(s) = 5
      /\ \A x \in 1 .. 5 : h[x] = s[x] /\ s[x] \notin {CR, LF}
  <2>1. /\ s \in Seq(Token) /\ Len(s) = 5
        /\ s[1] = r.method /\ s[2] = SP /\ s[3] = r.url /\ s[4] = SP /\ s[5] = r.version
    BY <1>5, StartLineIs
  <2>2. \A x \in 1 .. 5 : h[x] = T[x]
    BY <1>2, <1>3
  <2>3. \A x \in 1 .. 5 : x = 1 \/ x = 2 \/ x = 3 \/ x = 4 \/ x = 5
    OBVIOUS
  <2>4. /\ r.method \notin {CR, LF} /\ r.url \notin {CR, LF} /\ r.version \notin {CR, LF}
        /\ SP \notin {CR, LF}
    BY RequestType, Tokens
  <2> QED BY <1>4, <2>1, <2>2, <2>3, <2>4
<1>7. eatLine(h, 1).text = SubSeq(h, 1, 5) /\ eatLine(h, 1).next = 6
  <2>0. PICK e \in Nat, i \in Nat : e = 6 /\ i = 1
    OBVIOUS
  <2>1. i \in 1 .. Len(h) + 1 /\ e \in i .. Len(h) + 1
    BY <1>2, <1>3, <2>0
  <2>2. e <= Len(h) => h[e] \in {CR, LF}
    BY <1>3, <1>4, <2>0
  <2>3. \A x \in i .. e - 1 : h[x] \notin {CR, LF}
    BY <1>6, <2>0
  <2>4. h \in Seq(Token)
    BY <1>3
  <2>5. eatLine(h, i).text = SubSeq(h, i, e - 1) /\ eatLine(h, i).next = e
    BY <2>1, <2>2, <2>3, <2>4, eatLineIs
  <2>6. e - 1 = 5
    BY <2>0
  <2> QED BY <2>0, <2>5, <2>6
<1>8. PICK t : t = SubSeq(h, 1, 5)
  OBVIOUS
<1>9. IsPart(t, h, 1, 5)
  <2>1. 1 \in 1 .. l + 1 /\ 5 \in 1 - 1 .. l
    BY <1>2
  <2> QED BY <1>3, <1>8, <2>1, PartIs
<1>10. t \in Seq(Token) /\ Len(t) = 5 /\ \A x \in 1 .. 5 : t[x] = h[1 + x - 1]
  BY <1>9 DEF IsPart
<1>11. \A x \in 1 .. 5 : t[x] = s[x]
  <2>1. \A x \in 1 .. 5 : 1 + x - 1 = x
    OBVIOUS
  <2> QED BY <1>6, <1>10, <2>1
<1>12. t = s
  BY <1>6, <1>10, <1>11, SameText
<1> QED BY <1>5, <1>7, <1>8, <1>12

\* Its words.
LEMMA StartWords ==
  ASSUME NEW r \in Requests, NEW s, s = StartLine(r)
  PROVE  /\ eatWord(s, 1).text = <<r.method>> /\ eatWord(s, 1).next = 2
         /\ eatWord(s, 2).text = <<r.url>> /\ eatWord(s, 2).next = 4
         /\ eatWord(s, 4).text = <<r.version>>
<1>1. /\ s \in Seq(Token) /\ Len(s) = 5
      /\ s[1] = r.method /\ s[2] = SP /\ s[3] = r.url /\ s[4] = SP /\ s[5] = r.version
  BY StartLineIs
<1>2. /\ s[1] \notin Space /\ s[2] \in Space /\ s[3] \notin Space /\ s[4] \in Space
      /\ s[5] \notin Space
  BY <1>1, RequestType, Tokens
<1>3. /\ SubSeq(s, 1, 1) = <<r.method>> /\ SubSeq(s, 3, 3) = <<r.url>>
      /\ SubSeq(s, 5, 5) = <<r.version>>
  BY <1>1, OneWord
<1>4. eatWord(s, 1).text = SubSeq(s, 1, 2 - 1) /\ eatWord(s, 1).next = 2
  <2>1. /\ 1 \in 1 .. Len(s) + 1 /\ 2 \in 1 .. Len(s) + 1
        /\ \A x \in 1 .. 1 - 1 : s[x] \in Space
        /\ \A x \in 1 .. 2 - 1 : s[x] \notin Space
    BY <1>1, <1>2
  <2> QED BY <1>1, <1>2, <2>1, eatWordIs
<1>5. eatWord(s, 2).text = SubSeq(s, 3, 4 - 1) /\ eatWord(s, 2).next = 4
  <2>1. /\ 2 \in 1 .. Len(s) + 1 /\ 3 \in 2 .. Len(s) + 1 /\ 4 \in 3 .. Len(s) + 1
        /\ \A x \in 2 .. 3 - 1 : s[x] \in Space
        /\ \A x \in 3 .. 4 - 1 : s[x] \notin Space
    BY <1>1, <1>2
  <2> QED BY <1>1, <1>2, <2>1, eatWordIs
<1>6. eatWord(s, 4).text = SubSeq(s, 5, 6 - 1)
  <2>0. PICK e \in Nat, i \in Nat, b \in Nat : e = 6 /\ i = 4 /\ b = 5
    OBVIOUS
  <2>1. /\ i \in 1 .. Len(s) + 1 /\ b \in i .. Len(s) + 1 /\ e \in b .. Len(s) + 1
        /\ \A x \in i .. b - 1 : s[x] \in Space
        /\ b <= Len(s) => s[b] \notin Space
        /\ \A x \in b .. e - 1 : s[x] \notin Space
        /\ e <= Len(s) => s[e] \in Space
    BY <1>1, <1>2, <2>0
  <2>2. s \in Seq(Token)
    BY <1>1
  <2>3. eatWord(s, i).text = SubSeq(s, b, e - 1) /\ eatWord(s, i).next = e
    BY <2>1, <2>2, eatWordIs
  <2> QED BY <2>0, <2>3
<1>7. 2 - 1 = 1 /\ 4 - 1 = 3 /\ 6 - 1 = 5
  OBVIOUS
<1> QED BY <1>3, <1>4, <1>5, <1>6, <1>7
\* One more key in the map of the fields.
Pair(key, value) == [x \in {key} |-> value]

\* The parts of what Plus makes.
LEMMA PlusIs ==
  ASSUME NEW o, NEW q, NEW v, v = [ok |-> o, fields |-> q], NEW key, NEW value
  PROVE  Plus(v, key, value) = [ok |-> o, fields |-> Inserted(Pair(key, value), q)]
  BY DEF Plus, Pair

\* p is q with this value of the key, whatever q had for it.
Adds(p, key, value, q) ==
  /\ DOMAIN p = {key} \cup DOMAIN q
  /\ p[key] = value
  /\ \A y \in DOMAIN q : y # key => p[y] = q[y]

\* Inserting a pair before the others gives the key its value.
LEMMA MapPlus ==
  ASSUME NEW key, NEW value, NEW q
  PROVE  Adds(Inserted(Pair(key, value), q), key, value, q)
  BY DEF Inserted, Pair, Adds

\* What the field lines behind line k say.
AllOK(r, k) == \A j \in k + 1 .. Len(r.fields) : FieldOK(r.fields[j])
KeysFrom(r, k) == {<<r.fields[j][1]>> : j \in k + 1 .. Len(r.fields)}
IsLength(r, j) == r.fields[j][1] = "content-length:"
FirstLength(r, k, m) == IsLength(r, m) /\ \A j \in k + 1 .. m - 1 : ~ IsLength(r, j)
LengthIs(r, k, q) ==
  \A m \in k + 1 .. Len(r.fields) :
    FirstLength(r, k, m) => q[<<"content-length:">>] = <<r.fields[m][3]>>

\* x is the outcome of reading them.
Outcome(r, k, x) ==
  \E o, q :
    /\ x = [ok |-> o, fields |-> q]
    /\ o = AllOK(r, k)
    /\ AllOK(r, k) => DOMAIN q = KeysFrom(r, k) /\ LengthIs(r, k, q)

\* The outcome of one more line that is well formed.
LEMMA OutcomeStep ==
  ASSUME NEW r \in Requests, NEW k \in 1 .. Len(r.fields), NEW j, j = k - 1,
         NEW f, f = r.fields[k], Line(f), FieldOK(f),
         NEW x, Outcome(r, k, x)
  PROVE  Outcome(r, j, Plus(x, <<f[1]>>, SubSeq(f, 3, Len(f))))
<1>1. PICK n \in Nat : n = Len(r.fields)
  BY RequestType
<1>2. PICK o, q : /\ x = [ok |-> o, fields |-> q]
                  /\ o = AllOK(r, k)
                  /\ AllOK(r, k) => DOMAIN q = KeysFrom(r, k) /\ LengthIs(r, k, q)
  BY DEF Outcome
<1>3. PICK key, value : key = <<f[1]>> /\ value = SubSeq(f, 3, Len(f))
  OBVIOUS
<1>4. PICK p : p = Inserted(Pair(key, value), q)
  OBVIOUS
<1>12. /\ DOMAIN p = {key} \cup DOMAIN q
       /\ p[key] = value
       /\ \A y \in DOMAIN q : y # key => p[y] = q[y]
  <2>1. Adds(p, key, value, q)
    BY <1>4, MapPlus
  <2> QED BY <2>1 DEF Adds
<1>5. Plus(x, key, value) = [ok |-> o, fields |-> p]
  BY <1>2, <1>4, PlusIs
<1>6. \A i : i \in j + 1 .. n <=> i = k \/ i \in k + 1 .. n
  BY <1>1
<1>7. AllOK(r, j) <=> AllOK(r, k)
  BY <1>1, <1>6 DEF AllOK
<1>8. AllOK(r, j) \in BOOLEAN /\ AllOK(r, k) \in BOOLEAN
  BY DEF AllOK
<1>9. ASSUME AllOK(r, j) PROVE DOMAIN p = KeysFrom(r, j)
  <2>1. DOMAIN p = {key} \cup DOMAIN q
    BY <1>12
  <2>2. DOMAIN q = KeysFrom(r, k)
    BY <1>2, <1>7, <1>9
  <2>3. KeysFrom(r, j) = {<<f[1]>>} \cup KeysFrom(r, k)
    BY <1>1, <1>6 DEF KeysFrom
  <2> QED BY <1>3, <2>1, <2>2, <2>3
<1>10. ASSUME AllOK(r, j) PROVE LengthIs(r, j, p)
  <2>1. SUFFICES ASSUME NEW m \in j + 1 .. n, FirstLength(r, j, m)
                 PROVE  p[<<"content-length:">>] = <<r.fields[m][3]>>
    BY <1>1 DEF LengthIs
  <2>2. CASE m = k
    <3>1. key = <<"content-length:">>
      BY <1>3, <2>1, <2>2 DEF FirstLength, IsLength
    <3>2. p[key] = value
      BY <1>12
    <3>3. f[1] = "content-length:"
      BY <2>1, <2>2 DEF FirstLength, IsLength
    <3>4. Len(f) = 3
      <4>1. Len(f) \in Nat
        BY <1>1, RequestType
      <4>2. Len(f) >= 3 /\ Len(f) <= 3
        BY <3>3 DEF FieldOK, Line
      <4>3. PICK l \in Nat : l = Len(f)
        BY <4>1
      <4>4. l >= 3 /\ l <= 3
        BY <4>2, <4>3
      <4>5. l = 3
        BY <4>4
      <4> QED BY <4>3, <4>5
    <3>5. f \in Seq(Token) /\ 3 \in 1 .. Len(f)
      <4>1. f \in Seq(Token)
        BY <1>1, RequestType
      <4> QED BY <3>4, <4>1
    <3>6. value = <<f[3]>>
      BY <1>3, <3>4, <3>5, OneWord
    <3> QED BY <2>2, <3>1, <3>2, <3>6
  <2>3. CASE m \in k + 1 .. n
    <3>1. j + 1 = k /\ k \in j + 1 .. m - 1
      BY <1>1, <2>3
    <3>2. f[1] # "content-length:"
      BY <2>1, <3>1 DEF FirstLength, IsLength
    <3>3. FirstLength(r, k, m)
      <4>1. \A i \in k + 1 .. m - 1 : i \in j + 1 .. m - 1
        BY <1>1, <2>3
      <4> QED BY <2>1, <4>1 DEF FirstLength
    <3>4. q[<<"content-length:">>] = <<r.fields[m][3]>>
      BY <1>1, <1>2, <1>7, <1>10, <2>3, <3>3 DEF LengthIs
    <3>5. <<"content-length:">> \in DOMAIN q
      <4>1. r.fields[m][1] = "content-length:"
        BY <2>1 DEF FirstLength, IsLength
      <4>2. <<r.fields[m][1]>> \in KeysFrom(r, k)
        BY <1>1, <2>3 DEF KeysFrom
      <4> QED BY <1>2, <1>7, <1>10, <4>1, <4>2
    <3>6. <<"content-length:">> # key
      BY <1>3, <3>2
    <3>7. p[<<"content-length:">>] = q[<<"content-length:">>]
      BY <1>12, <3>5, <3>6
    <3> QED BY <3>4, <3>7
  <2> QED BY <1>6, <2>1, <2>2, <2>3
<1>11. o = AllOK(r, j)
  BY <1>2, <1>7, <1>8
<1> QED BY <1>3, <1>5, <1>9, <1>10, <1>11 DEF Outcome

\* The outcome when no line is left.
LEMMA OutcomeEnd ==
  ASSUME NEW r \in Requests, NEW k, k = Len(r.fields)
  PROVE  Outcome(r, k, AllRead)
<1>1. k \in Nat
  BY RequestType
<1>2. k + 1 .. k = {}
  BY <1>1
<1>3. AllOK(r, k) /\ KeysFrom(r, k) = {}
  BY <1>2 DEF AllOK, KeysFrom
<1>4. PICK q : q = <<>>
  OBVIOUS
<1>5. DOMAIN q = {}
  BY <1>4
<1>6. LengthIs(r, k, q)
  BY <1>2 DEF LengthIs
<1>7. AllRead = [ok |-> TRUE, fields |-> q]
  BY <1>4 DEF AllRead
<1>8. AllOK(r, k) \in BOOLEAN
  BY DEF AllOK
<1>9. TRUE = AllOK(r, k)
  BY <1>3, <1>8
<1> QED BY <1>3, <1>5, <1>6, <1>7, <1>9 DEF Outcome

\* The outcome of a line that is not well formed.
LEMMA OutcomeBad ==
  ASSUME NEW r \in Requests, NEW k \in 1 .. Len(r.fields), NEW j, j = k - 1,
         ~ FieldOK(r.fields[k])
  PROVE  Outcome(r, j, Refused)
<1>1. Len(r.fields) \in Nat
  BY RequestType
<1>2. k \in j + 1 .. Len(r.fields)
  BY <1>1
<1>3. ~ AllOK(r, j) /\ AllOK(r, j) \in BOOLEAN
  BY <1>2 DEF AllOK
<1>4. FALSE = AllOK(r, j)
  BY <1>3
<1> QED BY <1>3, <1>4 DEF Outcome, Refused

\* The equation of HeaderLines at one place.
LEMMA ReadsAt ==
  ASSUME NEW h, NEW g, Reads(g, h), NEW p \in 1 .. Len(h) + 1
  PROVE  g[p] = IF p = Len(h) + 1 THEN AllRead
                ELSE IF GoodLine(h, p)
                THEN Plus(g[LineAt(h, p).next], KeyAt(h, p).text, ValueAt(h, p).text)
                ELSE Refused
  BY Zenon DEF Reads

\* A field line is taken when it is a key, a space and a value.
LEMMA FieldGood ==
  ASSUME NEW f \in Seq(Words \cup {SP}), Line(f),
         NEW h, NEW p, LineAt(h, p).text = f
  PROVE  /\ GoodLine(h, p) <=> FieldOK(f)
         /\ FieldOK(f) => /\ KeyAt(h, p).text = <<f[1]>>
                          /\ ValueAt(h, p).text = SubSeq(f, 3, Len(f))
<1>1. PICK m \in Nat : m = Len(f)
  OBVIOUS
<1>2. PICK key, value : key = eatWord(f, 1) /\ value = eatWord(f, key.next)
  OBVIOUS
<1>3. KeyAt(h, p) = key /\ ValueAt(h, p) = value
  BY <1>2 DEF KeyAt, ValueAt
<1>4. /\ m < 3 => value.text = <<>>
      /\ m >= 3 => key.text = <<f[1]>> /\ value.text = SubSeq(f, 3, m)
  BY <1>1, <1>2, FieldWords
<1>5. CASE m < 3
  BY <1>1, <1>3, <1>4, <1>5 DEF GoodLine, FieldOK
<1>6. CASE m >= 3
  <2>1. key.text = <<f[1]>> /\ value.text = SubSeq(f, 3, m) /\ f[2] = SP
    BY <1>1, <1>4, <1>6 DEF Line
  <2>2. SubSeq(f, 3, m) # <<>>
    <3>1. Len(SubSeq(f, 3, m)) = m - 3 + 1
      BY <1>1, <1>6
    <3>2. m - 3 + 1 # 0
      BY <1>6
    <3> QED BY <3>1, <3>2
  <2>3. <<f[1]>> # <<>> /\ Last(<<f[1]>>) = f[1]
    BY DEF Last
  <2>4. GoodLine(h, p) <=> f[1] \in Keys
    BY <1>3, <2>1, <2>2, <2>3 DEF GoodLine
  <2>5. FieldOK(f) <=> f[1] \in Keys
    BY <1>1, <1>6, <2>1 DEF FieldOK
  <2> QED BY <1>1, <1>3, <2>1, <2>4, <2>5
<1> QED BY <1>5, <1>6

\* From the outcome of the lines behind a line to the outcome with it.
LEMMA OutcomeBack ==
  ASSUME NEW r \in Requests, Written(r), NEW T, NEW a, HeadShape(r, T, a),
         NEW h, Header(r, T, a, h), NEW g, Reads(g, h),
         NEW k \in 1 .. Len(r.fields), Outcome(r, k, g[a[k] - 1])
  PROVE  Outcome(r, k - 1, g[a[k - 1] - 1])
<1>1. PICK f, p : f = r.fields[k] /\ p = a[k - 1] - 1
  OBVIOUS
<1>2. p \in 1 .. Len(h) /\ LineAt(h, p).text = f /\ LineAt(h, p).next = a[k] - 1
  BY <1>1, FieldLineAt
<1>3. f \in Seq(Words \cup {SP}) /\ Line(f)
  BY <1>1, RequestType DEF Written
<1>4. /\ GoodLine(h, p) <=> FieldOK(f)
      /\ FieldOK(f) => /\ KeyAt(h, p).text = <<f[1]>>
                       /\ ValueAt(h, p).text = SubSeq(f, 3, Len(f))
  BY <1>2, <1>3, FieldGood
<1>5. Len(h) \in Nat
  BY DEF Header
<1>6. p \in 1 .. Len(h) + 1 /\ p # Len(h) + 1
  BY <1>2, <1>5
<1>7. g[p] = IF GoodLine(h, p)
             THEN Plus(g[LineAt(h, p).next], KeyAt(h, p).text, ValueAt(h, p).text)
             ELSE Refused
  BY <1>6, ReadsAt
<1>8. CASE FieldOK(f)
  <2>1. g[p] = Plus(g[a[k] - 1], <<f[1]>>, SubSeq(f, 3, Len(f)))
    BY <1>2, <1>4, <1>7, <1>8
  <2>2. PICK x : x = g[a[k] - 1] /\ Outcome(r, k, x)
    OBVIOUS
  <2>3. PICK j : j = k - 1
    OBVIOUS
  <2>4. Outcome(r, j, Plus(x, <<f[1]>>, SubSeq(f, 3, Len(f))))
    BY <1>1, <1>3, <1>8, <2>2, <2>3, OutcomeStep
  <2> QED BY <1>1, <2>1, <2>2, <2>3, <2>4
<1>9. CASE ~ FieldOK(f)
  <2>1. g[p] = Refused
    BY <1>4, <1>7, <1>9
  <2>2. PICK j : j = k - 1
    OBVIOUS
  <2>3. Outcome(r, j, Refused)
    BY <1>1, <1>9, <2>2, OutcomeBad
  <2> QED BY <1>1, <2>1, <2>2, <2>3
<1> QED BY <1>8, <1>9

\* What HeaderLines makes of the field lines of a request.
LEMMA FieldsOutcome ==
  ASSUME NEW r \in Requests, Written(r), NEW T, NEW a, HeadShape(r, T, a),
         NEW h, Header(r, T, a, h)
  PROVE  Outcome(r, 0, HeaderLines(h, 6))
<1>1. PICK n \in Nat : n = Len(r.fields)
  BY RequestType
<1>2. h \in Seq(Token) /\ Len(h) = a[n] - 2 /\ a[n] \in Nat /\ a[0] = 7 /\ 7 <= a[n]
  <2>1. n \in 0 .. n
    OBVIOUS
  <2>2. a[n] \in Nat /\ 7 <= a[n] /\ a[0] = 7
    BY <1>1, <2>1 DEF HeadShape
  <2> QED BY <1>1, <2>2 DEF Header
<1>3. PICK g : Reads(g, h) /\ \A i : HeaderLines(h, i) = g[i]
  BY <1>2, HeaderLinesReads
<1> DEFINE Ok(k) == Outcome(r, k, g[a[k] - 1])
           Bad == {i \in 0 .. n : ~ Ok(n - i)}
<1>4. Ok(n)
  <2>1. PICK z \in Nat : z = a[n] /\ Len(h) = z - 2 /\ 7 <= z
    BY <1>2
  <2>2. z - 1 \in 1 .. Len(h) + 1 /\ z - 1 = Len(h) + 1
    BY <2>1
  <2>3. g[z - 1] = AllRead
    BY <1>3, <2>2, ReadsAt
  <2>4. Outcome(r, n, AllRead)
    BY <1>1, OutcomeEnd
  <2> QED BY <2>1, <2>3, <2>4
<1>5. ASSUME NEW k \in 1 .. n, Ok(k) PROVE Ok(k - 1)
  BY <1>1, <1>3, <1>5, OutcomeBack
<1> HIDE DEF Ok
<1>6. Bad = {}
  <2>1. SUFFICES ASSUME Bad # {} PROVE FALSE
    OBVIOUS
  <2>2. Bad \subseteq Nat
    OBVIOUS
  <2>3. PICK i : i \in Bad /\ \A j \in Bad : i <= j
    BY <2>1, <2>2, LeastElement
  <2>4. i \in 0 .. n /\ ~ Ok(n - i)
    BY <2>3
  <2>5. i # 0
    <3>1. n - 0 = n
      OBVIOUS
    <3> QED BY <1>4, <2>4, <3>1
  <2>6. i - 1 \in 0 .. n /\ i - 1 < i /\ n - (i - 1) \in 1 .. n /\ n - (i - 1) - 1 = n - i
    BY <2>4, <2>5
  <2>7. i - 1 \notin Bad
    BY <2>3, <2>4, <2>6
  <2>8. Ok(n - (i - 1))
    BY <2>6, <2>7
  <2>9. Ok(n - (i - 1) - 1)
    BY <1>5, <2>6, <2>8
  <2> QED BY <2>4, <2>6, <2>9
<1>7. Ok(0)
  <2>1. n \in 0 .. n /\ n - n = 0
    OBVIOUS
  <2> QED BY <1>6, <2>1
<1>8. a[0] - 1 = 6
  BY <1>2
<1> QED BY <1>3, <1>7, <1>8 DEF Ok

-----------------------------------------------------------------------------
(* tryDecode *)

\* The result for a header that has the three words m, u and v in its first line.
Judged(d, e, m, u, v, ok, q) ==
  IF ~ ok \/ ~ parseStartLine(m, u, v) \/ ~ parseHeader(m, q) THEN "bad"
  ELSE IF Len(d) < e + 3 + atoi(getHeaderField(q, "content-length:")) THEN "more"
  ELSE IF m = <<"GET">> THEN "ok" ELSE "bad"

\* Without a header more is asked for.
LEMMA tryDecodeNoHeader ==
  ASSUME NEW d, NEW k, NEW e \in Nat, e = getHeader(d), e <= 1
  PROVE  tryDecode(d, k) = [ret |-> "more", fields |-> k]
  BY DEF tryDecode

\* The header h of d, the three words of its first line and its field lines.
Parts(d, e, h, line, m, u, v, ls) ==
  /\ e = getHeader(d) /\ e \in Nat /\ e > 1
  /\ h = SubSeq(d, 1, e - 1)
  /\ line = eatLine(h, 1).text
  /\ m = eatWord(line, 1) /\ u = eatWord(line, m.next) /\ v = eatWord(line, u.next)
  /\ ls = HeaderLines(h, eatLine(h, 1).next)

\* A start line of fewer than three words is refused.
LEMMA tryDecodeFewWords ==
  ASSUME NEW d, NEW e, NEW h, NEW line, NEW m, NEW u, NEW v, NEW ls,
         Parts(d, e, h, line, m, u, v, ls), v.text = <<>>, NEW k
  PROVE  tryDecode(d, k) = [ret |-> "bad", fields |-> k]
  BY DEF tryDecode, Parts

\* Anything else is judged.
LEMMA tryDecodeJudges ==
  ASSUME NEW d, NEW e, NEW h, NEW line, NEW m, NEW u, NEW v, NEW ls,
         Parts(d, e, h, line, m, u, v, ls), v.text # <<>>, NEW k
  PROVE  tryDecode(d, k) =
           [ret |-> Judged(d, e, m.text, u.text, v.text, ls.ok, Inserted(k, ls.fields)),
            fields |-> Inserted(k, ls.fields)]
  BY DEF tryDecode, Parts, Judged

\* Nothing known, every key is new.
LEMMA InsertedInNone ==
  ASSUME NEW q
  PROVE  /\ DOMAIN Inserted(<<>>, q) = DOMAIN q
         /\ \A x \in DOMAIN q : Inserted(<<>>, q)[x] = q[x]
  BY DEF Inserted

\* The fields of a request whose lines are well formed.
FieldsOf(r, q) == DOMAIN q = KeysFrom(r, 0) /\ LengthIs(r, 0, q)

\* The keys that tryDecode finds are the ones of the lines.
LEMMA HasField ==
  ASSUME NEW r \in Requests, NEW q, FieldsOf(r, q), NEW key
  PROVE  Has(q, key) <=> key \in FieldKeys(r)
<1>1. DOMAIN r.fields = 0 + 1 .. Len(r.fields)
  BY RequestType
<1>2. DOMAIN q = {<<r.fields[j][1]>> : j \in DOMAIN r.fields}
  BY <1>1 DEF FieldsOf, KeysFrom
<1>3. \A x : <<x>> = <<key>> <=> x = key
  OBVIOUS
<1> QED BY <1>2, <1>3 DEF Has, FieldKeys

\* The content length that tryDecode reads is the one the request announces.
LEMMA LengthField ==
  ASSUME NEW r \in Requests, NEW q, FieldsOf(r, q)
  PROVE  atoi(getHeaderField(q, "content-length:")) = Announced(r)
<1>1. PICK n \in Nat : n = Len(r.fields)
  BY RequestType
<1>2. DOMAIN r.fields = 1 .. n /\ 0 + 1 = 1
  BY <1>1, RequestType
<1>3. PICK S : S = {i \in DOMAIN r.fields : r.fields[i][1] = "content-length:"}
  OBVIOUS
<1>4. Announced(r) = IF S = {} THEN 0 ELSE atoi(<<r.fields[Min(S)][3]>>)
  BY <1>3 DEF Announced
<1>5. Has(q, "content-length:") <=> S # {}
  BY <1>3, HasField DEF FieldKeys
<1>6. CASE S = {}
  <2>1. getHeaderField(q, "content-length:") = <<>>
    BY <1>5, <1>6 DEF getHeaderField
  <2>2. atoi(<<>>) = 0
    BY DEF atoi
  <2> QED BY <1>4, <1>6, <2>1, <2>2
<1>7. CASE S # {}
  <2>1. S \subseteq Nat
    BY <1>2, <1>3
  <2>2. PICK m : m = Min(S) /\ m \in S /\ \A i \in S : m <= i
    BY <1>7, <2>1, LeastElement
  <2>3. m \in 1 .. n /\ IsLength(r, m)
    BY <1>2, <1>3, <2>2 DEF IsLength
  <2>4. \A j \in 1 .. m - 1 : ~ IsLength(r, j)
    <3>1. SUFFICES ASSUME NEW j \in 1 .. m - 1, IsLength(r, j) PROVE FALSE
      OBVIOUS
    <3>2. j \in 1 .. n /\ ~ (m <= j)
      BY <2>3
    <3>3. j \in S
      BY <1>2, <1>3, <3>1, <3>2 DEF IsLength
    <3> QED BY <2>2, <3>2, <3>3
  <2>5. FirstLength(r, 0, m)
    BY <1>2, <2>3, <2>4 DEF FirstLength
  <2>6. q[<<"content-length:">>] = <<r.fields[m][3]>>
    BY <1>1, <1>2, <2>3, <2>5 DEF FieldsOf, LengthIs
  <2>7. getHeaderField(q, "content-length:") = q[<<"content-length:">>]
    BY <1>5, <1>7 DEF getHeaderField
  <2> QED BY <1>4, <1>7, <2>2, <2>6, <2>7
<1> QED BY <1>6, <1>7

\* The start line that parseStartLine takes.
LEMMA StartLineTaken ==
  ASSUME NEW m, NEW u, NEW v
  PROVE  parseStartLine(<<m>>, <<u>>, <<v>>) <=>
           v = "HTTP/1.1" /\ m \in {"GET", "POST"} /\ u = "/"
<1>1. Head(<<u>>) = u /\ <<u>> # <<>>
  OBVIOUS
<1>2. \A x, y : <<x>> = <<y>> <=> x = y
  OBVIOUS
<1> QED BY <1>1, <1>2 DEF parseStartLine

\* A length is announced by a number.
LEMMA AnnouncedType ==
  ASSUME NEW r
  PROVE  Announced(r) \in Nat
<1>1. \A v : atoi(v) \in Nat
  BY DEF atoi
<1> QED BY <1>1 DEF Announced

\* tryDecode on text that begins as a request does, with a codec that knows
\* nothing yet.
LEMMA DecodeHead ==
  ASSUME NEW r \in Requests, Written(r), NEW d \in Seq(Token), Opens(d, HeadText(r))
  PROVE  tryDecode(d, <<>>).ret = Verdict(r, Len(d))
<1>1. PICK n \in Nat : n = Len(r.fields)
  BY RequestType
<1>2. PICK T, a : T = HeadText(r) /\ HeadShape(r, T, a)
  BY HeadShaped
<1>3. PICK z \in Nat : z = a[n]
  <2>1. n \in 0 .. n
    OBVIOUS
  <2> QED BY <1>1, <1>2, <2>1 DEF HeadShape
<1>4. 7 <= z
  <2>1. n \in 0 .. n
    OBVIOUS
  <2>2. 7 <= a[n]
    BY <1>1, <1>2, <2>1 DEF HeadShape
  <2> QED BY <1>3, <2>2
<1>5. PICK t \in Nat, l \in Nat : t = z + 2 /\ l = Len(d)
  OBVIOUS
<1>6. Len(T) = t
  BY <1>1, <1>2, <1>3, <1>5 DEF HeadShape
<1>7. PICK b \in Nat : b = Announced(r)
  BY AnnouncedType
<1>8. PICK e : e = getHeader(d)
  OBVIOUS
<1>9. e = IF l >= t THEN t - 3 ELSE 0
  BY <1>2, <1>5, <1>6, <1>8, getHeaderIs
<1>10. Verdict(r, l) = IF l < t \/ (HeadOK(r) /\ l < t + b) THEN "more"
                       ELSE IF HeadOK(r) /\ r.method = "GET" THEN "ok" ELSE "bad"
  BY <1>2, <1>6, <1>7 DEF Verdict, Legal
<1>11. CASE l < t
  <2>1. e = 0 /\ e \in Nat /\ e <= 1
    BY <1>9, <1>11
  <2>2. tryDecode(d, <<>>) = [ret |-> "more", fields |-> <<>>]
    BY <1>8, <2>1, tryDecodeNoHeader
  <2> QED BY <1>5, <1>10, <1>11, <2>2
<1>12. CASE l >= t
  <2>1. e \in Nat /\ e > 1 /\ e + 3 = t /\ e - 1 = z - 2 /\ e - 1 \in 0 .. l
    BY <1>4, <1>5, <1>9, <1>12
  <2>2. PICK h : h = SubSeq(d, 1, e - 1)
    OBVIOUS
  <2>3. Header(r, T, a, h)
    <3>1. IsPart(h, d, 1, e - 1)
      <4>1. 1 \in 1 .. Len(d) + 1 /\ e - 1 \in 1 - 1 .. Len(d)
        BY <1>5, <2>1
      <4> QED BY <2>2, <4>1, PartIs
    <3>2. e - 1 - 1 + 1 = z - 2
      BY <2>1
    <3>3. h \in Seq(Token) /\ Len(h) = z - 2 /\ \A x \in 1 .. z - 2 : h[x] = d[1 + x - 1]
      BY <3>1, <3>2 DEF IsPart
    <3>4. \A x \in 1 .. z - 2 : h[x] = T[x]
      <4>1. SUFFICES ASSUME NEW x \in 1 .. z - 2 PROVE h[x] = T[x]
        OBVIOUS
      <4>2. 1 + x - 1 = x /\ x \in 1 .. l /\ x <= t
        BY <1>5, <1>12
      <4>3. d[x] = T[x]
        BY <1>2, <1>5, <1>6, <4>2 DEF Opens
      <4> QED BY <3>3, <4>2, <4>3
    <3> QED BY <1>1, <1>3, <3>3, <3>4 DEF Header
  <2>4. PICK line : line = eatLine(h, 1).text
    OBVIOUS
  <2>5. line = StartLine(r) /\ eatLine(h, 1).next = 6
    BY <1>2, <2>3, <2>4, StartLineAt
  <2>6. PICK m, u, v : m = eatWord(line, 1) /\ u = eatWord(line, m.next) /\ v = eatWord(line, u.next)
    OBVIOUS
  <2>7. m.text = <<r.method>> /\ u.text = <<r.url>> /\ v.text = <<r.version>>
    <3>1. /\ eatWord(line, 1).text = <<r.method>> /\ eatWord(line, 1).next = 2
          /\ eatWord(line, 2).text = <<r.url>> /\ eatWord(line, 2).next = 4
          /\ eatWord(line, 4).text = <<r.version>>
      BY <2>5, StartWords
    <3> QED BY <2>6, <3>1
  <2>8. PICK ls, q : ls = HeaderLines(h, 6) /\ q = Inserted(<<>>, ls.fields)
    OBVIOUS
  <2>9. v.text # <<>>
    BY <2>7
  <2>10. tryDecode(d, <<>>).ret =
           Judged(d, e, <<r.method>>, <<r.url>>, <<r.version>>, ls.ok, q)
    <3>1. Parts(d, e, h, line, m, u, v, ls)
      BY <1>8, <2>1, <2>2, <2>4, <2>5, <2>6, <2>8 DEF Parts
    <3>2. tryDecode(d, <<>>) =
            [ret |-> Judged(d, e, m.text, u.text, v.text, ls.ok, Inserted(<<>>, ls.fields)),
             fields |-> Inserted(<<>>, ls.fields)]
      BY <2>9, <3>1, tryDecodeJudges
    <3> QED BY <2>7, <2>8, <3>2
  <2>11. Outcome(r, 0, ls)
    BY <1>2, <2>3, <2>8, FieldsOutcome
  <2>12. ls.ok = AllOK(r, 0) /\ (AllOK(r, 0) => FieldsOf(r, q))
    <3>1. PICK o, p : /\ ls = [ok |-> o, fields |-> p]
                      /\ o = AllOK(r, 0)
                      /\ AllOK(r, 0) => DOMAIN p = KeysFrom(r, 0) /\ LengthIs(r, 0, p)
      BY <2>11 DEF Outcome
    <3>2. ls.ok = o /\ ls.fields = p
      BY <3>1
    <3>3. DOMAIN q = DOMAIN p /\ \A x \in DOMAIN p : q[x] = p[x]
      BY <2>8, <3>2, InsertedInNone
    <3>4. ASSUME AllOK(r, 0) PROVE LengthIs(r, 0, q)
      <4>1. SUFFICES ASSUME NEW i \in 0 + 1 .. Len(r.fields), FirstLength(r, 0, i)
                     PROVE  q[<<"content-length:">>] = <<r.fields[i][3]>>
        BY DEF LengthIs
      <4>2. p[<<"content-length:">>] = <<r.fields[i][3]>>
        BY <3>1, <3>4, <4>1 DEF LengthIs
      <4>3. r.fields[i][1] = "content-length:"
        BY <4>1 DEF FirstLength, IsLength
      <4>4. <<r.fields[i][1]>> \in KeysFrom(r, 0)
        BY <4>1 DEF KeysFrom
      <4> QED BY <3>1, <3>3, <3>4, <4>2, <4>3, <4>4
    <3> QED BY <3>1, <3>2, <3>3, <3>4 DEF FieldsOf
  <2>13. AllOK(r, 0) <=> \A i \in DOMAIN r.fields : FieldOK(r.fields[i])
    <3>1. DOMAIN r.fields = 0 + 1 .. Len(r.fields)
      BY RequestType
    <3> QED BY <3>1 DEF AllOK
  <2>14. parseStartLine(<<r.method>>, <<r.url>>, <<r.version>>) <=>
           r.version = "HTTP/1.1" /\ r.method \in {"GET", "POST"} /\ r.url = "/"
    BY StartLineTaken
  <2>15. <<r.method>> = <<"POST">> <=> r.method = "POST"
    OBVIOUS
  <2>16. <<r.method>> = <<"GET">> <=> r.method = "GET"
    OBVIOUS
  <2>17. AllOK(r, 0) => (parseHeader(<<r.method>>, q) <=>
           /\ r.method = "POST" => "Content-Length:" \in FieldKeys(r)
           /\ "Host:" \in FieldKeys(r))
    BY <2>12, <2>15, HasField DEF parseHeader
  <2>18. CASE ~ HeadOK(r)
    <3>1. Judged(d, e, <<r.method>>, <<r.url>>, <<r.version>>, ls.ok, q) = "bad"
      <4>1. \/ ~ AllOK(r, 0)
            \/ ~ parseStartLine(<<r.method>>, <<r.url>>, <<r.version>>)
            \/ ~ parseHeader(<<r.method>>, q)
        BY <2>13, <2>14, <2>17, <2>18 DEF HeadOK
      <4> QED BY <2>12, <4>1 DEF Judged
    <3> QED BY <1>5, <1>10, <1>12, <2>10, <2>18, <3>1
  <2>19. CASE HeadOK(r)
    <3>1. /\ AllOK(r, 0)
          /\ parseStartLine(<<r.method>>, <<r.url>>, <<r.version>>)
          /\ parseHeader(<<r.method>>, q)
      BY <2>13, <2>14, <2>17, <2>19 DEF HeadOK
    <3>2. atoi(getHeaderField(q, "content-length:")) = b
      BY <1>7, <2>12, <3>1, LengthField
    <3>3. Judged(d, e, <<r.method>>, <<r.url>>, <<r.version>>, ls.ok, q) =
            IF l < e + 3 + b THEN "more" ELSE IF r.method = "GET" THEN "ok" ELSE "bad"
      BY <1>5, <2>12, <2>16, <3>1, <3>2 DEF Judged
    <3> QED BY <1>5, <1>10, <1>12, <2>1, <2>10, <2>19, <3>3
  <2> QED BY <2>18, <2>19
<1> QED BY <1>5, <1>11, <1>12

\* getHeader returns a number.
LEMMA getHeaderType ==
  ASSUME NEW d \in Seq(Token)
  PROVE  getHeader(d) \in Nat
<1>1. PICK e : e = getHeader(d)
  OBVIOUS
<1>2. e = 0 \/ e \in 1 .. Len(d) - 3
  BY <1>1, getHeaderFinds
<1> QED BY <1>1, <1>2

\* Inserting the same pairs again changes nothing.
LEMMA InsertedTwice ==
  ASSUME NEW k, NEW l
  PROVE  Inserted(Inserted(k, l), l) = Inserted(k, l)
  BY DEF Inserted

\* A codec that has accepted the text accepts it again, and learns nothing new.
LEMMA DecodeAgain ==
  ASSUME NEW d \in Seq(Token), NEW k, NEW q, tryDecode(d, k) = q, q.ret = "ok"
  PROVE  tryDecode(d, q.fields) = q
<1>1. PICK e \in Nat : e = getHeader(d)
  BY getHeaderType
<1>2. CASE e <= 1
  BY <1>1, <1>2, tryDecodeNoHeader
<1>3. CASE e > 1
  <2>1. PICK h, line, m, u, v, ls : Parts(d, e, h, line, m, u, v, ls)
    BY <1>1, <1>3 DEF Parts
  <2>2. CASE v.text = <<>>
    BY <2>1, <2>2, tryDecodeFewWords
  <2>3. CASE v.text # <<>>
    <3>1. PICK p : p = Inserted(k, ls.fields)
      OBVIOUS
    <3>2. q = [ret |-> Judged(d, e, m.text, u.text, v.text, ls.ok, p), fields |-> p]
      BY <2>1, <2>3, <3>1, tryDecodeJudges
    <3>3. q.fields = p
      BY <3>2
    <3>4. Inserted(p, ls.fields) = p
      BY <3>1, InsertedTwice
    <3>5. tryDecode(d, p) =
            [ret |-> Judged(d, e, m.text, u.text, v.text, ls.ok, Inserted(p, ls.fields)),
             fields |-> Inserted(p, ls.fields)]
      BY <2>1, <2>3, tryDecodeJudges
    <3> QED BY <3>2, <3>3, <3>4, <3>5
  <2> QED BY <2>2, <2>3
<1> QED BY <1>1, <1>2, <1>3

\* Memory that was never written holds no header.
LEMMA DecodeNul ==
  ASSUME NEW d \in Seq(Token), \A x \in 1 .. Len(d) : d[x] = NUL, NEW k
  PROVE  tryDecode(d, k) = [ret |-> "more", fields |-> k]
<1>1. PICK e : e = getHeader(d)
  OBVIOUS
<1>2. e = 0
  <2>1. ASSUME NEW i \in 1 .. Len(d) - 3 PROVE ~ MarkAt(d, i)
    <3>1. i \in 1 .. Len(d)
      OBVIOUS
    <3> QED BY <3>1, Tokens DEF MarkAt
  <2> QED BY <1>1, <2>1, getHeaderFinds
<1>3. e \in Nat /\ e <= 1
  BY <1>2
<1> QED BY <1>1, <1>3, tryDecodeNoHeader

\* The characters of d before place L are its first line, which ends there.
LineEnd(d, L) ==
  /\ L \in 1 .. Len(d) /\ d[L] \in {CR, LF}
  /\ \A x \in 1 .. L - 1 : d[x] \notin {CR, LF}

\* The first line of a header ends at the first line end.
LEMMA FirstLine ==
  ASSUME NEW d \in Seq(Token), NEW e \in Nat, e = getHeader(d), e > 1,
         NEW h, h = SubSeq(d, 1, e - 1), NEW line, line = eatLine(h, 1).text
  PROVE  \E L : LineEnd(d, L) /\ IsPart(line, d, 1, L - 1)
<1>1. PICK l \in Nat : l = Len(d)
  OBVIOUS
<1>2. e \in 1 .. l - 3 /\ d[e] = CR
  <2>1. \/ e = 0 /\ \A i \in 1 .. l - 3 : ~ MarkAt(d, i)
        \/ /\ e \in 1 .. l - 3
           /\ MarkAt(d, e)
           /\ \A i \in 1 .. l - 3 : MarkAt(d, i) => e <= i
    BY <1>1, getHeaderFinds
  <2> QED BY <2>1 DEF MarkAt
<1>3. IsPart(h, d, 1, e - 1)
  <2>1. 1 \in 1 .. l + 1 /\ e - 1 \in 1 - 1 .. l
    BY <1>2
  <2> QED BY <1>1, <2>1, PartIs
<1>4. PICK g \in Nat : g = e - 1
  OBVIOUS
<1>5. h \in Seq(Token) /\ Len(h) = g /\ \A x \in 1 .. g : h[x] = d[x]
  <2>1. e - 1 - 1 + 1 = g /\ \A x \in 1 .. g : 1 + x - 1 = x
    BY <1>4
  <2>2. h \in Seq(Token) /\ Len(h) = g /\ \A x \in 1 .. g : h[x] = d[1 + x - 1]
    BY <1>3, <2>1 DEF IsPart
  <2> QED BY <2>1, <2>2
<1>6. PICK C : C = Token \ {CR, LF}
  OBVIOUS
<1>7. PICK s : s = Skip(h, 1, C)
  OBVIOUS
<1>8. /\ s \in 1 .. g + 1
      /\ \A x \in 1 .. s - 1 : h[x] \in C
      /\ s <= g => h[s] \notin C
  <2>1. 1 \in 1 .. Len(h) + 1
    BY <1>5
  <2>2. /\ s \in 1 .. Len(h) + 1
        /\ \A x \in 1 .. s - 1 : h[x] \in C
        /\ s <= Len(h) => h[s] \notin C
    BY <1>5, <1>7, <2>1, SkipRange
  <2> QED BY <1>5, <2>2
<1>9. line = SubSeq(h, 1, s - 1)
  BY <1>6, <1>7 DEF eatLine, Eaten
<1>10. LineEnd(d, s)
  <2>1. s \in 1 .. Len(d)
    BY <1>1, <1>2, <1>4, <1>8
  <2>2. d[s] \in {CR, LF}
    <3>1. CASE s = g + 1
      BY <1>2, <1>4, <3>1
    <3>2. CASE s <= g
      <4>1. s \in 1 .. g /\ h[s] \in Token
        BY <1>5, <1>8, <3>2
      <4> QED BY <1>5, <1>6, <1>8, <3>2, <4>1
    <3> QED BY <1>8, <3>1, <3>2
  <2>3. \A x \in 1 .. s - 1 : d[x] \notin {CR, LF}
    <3>1. \A x \in 1 .. s - 1 : x \in 1 .. g
      BY <1>8
    <3> QED BY <1>5, <1>6, <1>8, <3>1
  <2> QED BY <2>1, <2>2, <2>3 DEF LineEnd
<1>11. IsPart(line, d, 1, s - 1)
  <2>1. 1 \in 1 .. g + 1 /\ s - 1 \in 1 - 1 .. g
    BY <1>8
  <2>2. IsPart(line, h, 1, s - 1)
    BY <1>5, <1>9, <2>1, PartIs
  <2>3. \A x \in 1 .. s - 1 - 1 + 1 : 1 + x - 1 \in 1 .. g
    BY <1>8
  <2> QED BY <1>5, <2>2, <2>3 DEF IsPart
<1> QED BY <1>10, <1>11

\* A first word of one character, and two spaces behind it.
WordsIn(s, b, j) ==
  /\ b \in Nat /\ j \in Nat /\ 1 <= b /\ b + 1 < j /\ j <= Len(s)
  /\ \A x \in 1 .. b - 1 : s[x] \in Space
  /\ s[b] \notin Space /\ s[b + 1] \in Space /\ s[j] \in Space

\* A part that ends before it begins is empty.
LEMMA PartEmpty ==
  ASSUME NEW s \in Seq(Token), NEW b \in 1 .. Len(s) + 1, NEW e \in b .. Len(s) + 1
  PROVE  SubSeq(s, b, e - 1) \in Seq(Token) /\ Len(SubSeq(s, b, e - 1)) = e - b
<1>1. e - 1 \in b - 1 .. Len(s) /\ e - 1 - b + 1 = e - b
  OBVIOUS
<1>2. PICK t : t = SubSeq(s, b, e - 1)
  OBVIOUS
<1>3. t \in Seq(Token) /\ IsPart(t, s, b, e - 1)
  BY <1>1, <1>2, PartIs
<1> QED BY <1>1, <1>2, <1>3 DEF IsPart

\* w is the word from b to e - 1 that eatWord takes at place i.
IsWord(s, i, w, b, e) ==
  /\ b \in i .. Len(s) + 1 /\ e \in b .. Len(s) + 1
  /\ w.text \in Seq(Token) /\ Len(w.text) = e - b /\ w.next = e
  /\ \A x \in i .. b - 1 : s[x] \in Space
  /\ \A x \in b .. e - 1 : s[x] \notin Space
  /\ e <= Len(s) => s[e] \in Space

\* A word begins and ends where eatWord says.
LEMMA WordAt ==
  ASSUME NEW s \in Seq(Token), NEW i \in 1 .. Len(s) + 1, NEW w, w = eatWord(s, i)
  PROVE  \E b, e : IsWord(s, i, w, b, e)
<1>1. PICK b \in i .. Len(s) + 1 : \E e \in b .. Len(s) + 1 :
        /\ w.text = SubSeq(s, b, e - 1) /\ w.next = e
        /\ \A x \in i .. b - 1 : s[x] \in Space
        /\ \A x \in b .. e - 1 : s[x] \notin Space
        /\ e <= Len(s) => s[e] \in Space
  BY eatWordRange
<1>2. PICK e \in b .. Len(s) + 1 :
        /\ w.text = SubSeq(s, b, e - 1) /\ w.next = e
        /\ \A x \in i .. b - 1 : s[x] \in Space
        /\ \A x \in b .. e - 1 : s[x] \notin Space
        /\ e <= Len(s) => s[e] \in Space
  BY <1>1
<1>3. b \in 1 .. Len(s) + 1
  OBVIOUS
<1>4. w.text \in Seq(Token) /\ Len(w.text) = e - b
  BY <1>2, <1>3, PartEmpty
<1>5. IsWord(s, i, w, b, e)
  BY <1>2, <1>4 DEF IsWord
<1> QED BY <1>5

\* What is accepted has three words in its first line.
LEMMA OkWords ==
  ASSUME NEW s \in Seq(Token), NEW m, m = eatWord(s, 1), NEW u, u = eatWord(s, m.next),
         NEW v, v = eatWord(s, u.next), NEW w,
         m.text = <<w>>, u.text # <<>>, v.text # <<>>
  PROVE  \E b, j : WordsIn(s, b, j)
<1>1. PICK l \in Nat : l = Len(s)
  OBVIOUS
<1>2. PICK b1, e1 : IsWord(s, 1, m, b1, e1)
  <2>1. 1 \in 1 .. Len(s) + 1
    BY <1>1
  <2> QED BY <2>1, WordAt
<1>3. b1 \in 1 .. l + 1 /\ e1 \in b1 .. l + 1 /\ m.next = e1
  BY <1>1, <1>2 DEF IsWord
<1>4. PICK b2, e2 : IsWord(s, e1, u, b2, e2)
  <2>1. e1 \in 1 .. Len(s) + 1 /\ u = eatWord(s, e1)
    BY <1>1, <1>3
  <2> QED BY <2>1, WordAt
<1>5. b2 \in e1 .. l + 1 /\ e2 \in b2 .. l + 1 /\ u.next = e2
  BY <1>1, <1>4 DEF IsWord
<1>6. PICK b3, e3 : IsWord(s, e2, v, b3, e3)
  <2>1. e2 \in 1 .. Len(s) + 1 /\ v = eatWord(s, e2)
    BY <1>1, <1>3, <1>5
  <2> QED BY <2>1, WordAt
<1>7. b3 \in e2 .. l + 1 /\ e3 \in b3 .. l + 1
  BY <1>1, <1>6 DEF IsWord
<1>11. Len(m.text) = e1 - b1 /\ Len(u.text) = e2 - b2 /\ Len(v.text) = e3 - b3
  BY <1>2, <1>4, <1>6 DEF IsWord
<1>12. e1 - b1 = 1
  <2>1. Len(m.text) = 1
    OBVIOUS
  <2> QED BY <1>11, <2>1
<1>13. e2 - b2 # 0 /\ e3 - b3 # 0
  <2>1. u.text \in Seq(Token) /\ v.text \in Seq(Token)
    BY <1>4, <1>6 DEF IsWord
  <2>2. Len(u.text) # 0 /\ Len(v.text) # 0
    BY <2>1, EmptySeq
  <2> QED BY <1>11, <2>2
<1>14. /\ b1 \in Nat /\ e2 \in Nat /\ 1 <= b1 /\ e1 = b1 + 1 /\ e1 < e2 /\ e2 <= l /\ e1 <= l
       /\ b1 \in b1 .. e1 - 1
  BY <1>3, <1>5, <1>7, <1>12, <1>13
<1>15. s[e1] \in Space /\ s[b1] \notin Space /\ \A x \in 1 .. b1 - 1 : s[x] \in Space
  BY <1>1, <1>2, <1>14 DEF IsWord
<1>16. s[e2] \in Space
  BY <1>1, <1>4, <1>14 DEF IsWord
<1>17. WordsIn(s, b1, e2)
  BY <1>1, <1>14, <1>15, <1>16 DEF WordsIn
<1> QED BY <1>17

\* A text that is accepted begins with a line of three words, the first of which is
\* one character.
LEMMA OkShape ==
  ASSUME NEW d \in Seq(Token), NEW k, tryDecode(d, k).ret = "ok"
  PROVE  \E L, b, j :
           /\ LineEnd(d, L)
           /\ b \in Nat /\ j \in Nat /\ 1 <= b /\ b + 1 < j /\ j < L
           /\ \A x \in 1 .. b - 1 : d[x] \in Space
           /\ d[b] \notin Space /\ d[b + 1] = SP /\ d[j] = SP
<1>1. PICK e \in Nat : e = getHeader(d)
  BY getHeaderType
<1>2. e > 1
  <2>1. CASE e <= 1
    BY <1>1, <2>1, tryDecodeNoHeader
  <2> QED BY <2>1
<1>3. PICK h, s, m, u, v, ls : Parts(d, e, h, s, m, u, v, ls)
  BY <1>1, <1>2 DEF Parts
<1>4. v.text # <<>>
  BY <1>3, tryDecodeFewWords
<1>5. Judged(d, e, m.text, u.text, v.text, ls.ok, Inserted(k, ls.fields)) = "ok"
  BY <1>3, <1>4, tryDecodeJudges
<1>6. m.text = <<"GET">> /\ u.text # <<>>
  BY <1>5 DEF Judged, parseStartLine
<1>7. PICK L : LineEnd(d, L) /\ IsPart(s, d, 1, L - 1)
  <2>1. h = SubSeq(d, 1, e - 1) /\ s = eatLine(h, 1).text
    BY <1>3 DEF Parts
  <2> QED BY <1>1, <1>2, <2>1, FirstLine
<1>8. L \in Nat /\ 1 <= L
  BY <1>7 DEF LineEnd
<1>9. L - 1 - 1 + 1 = L - 1 /\ \A x \in 1 .. L - 1 : 1 + x - 1 = x
  BY <1>8
<1>10. s \in Seq(Token) /\ Len(s) = L - 1 /\ \A x \in 1 .. L - 1 : s[x] = d[x]
  <2>1. s \in Seq(Token) /\ Len(s) = L - 1 /\ \A x \in 1 .. L - 1 : s[x] = d[1 + x - 1]
    BY <1>7, <1>9 DEF IsPart
  <2> QED BY <1>9, <2>1
<1>11. PICK b, j : WordsIn(s, b, j)
  <2>1. m = eatWord(s, 1) /\ u = eatWord(s, m.next) /\ v = eatWord(s, u.next)
    BY <1>3 DEF Parts
  <2> QED BY <1>4, <1>6, <1>10, <2>1, OkWords
<1>12. b \in Nat /\ j \in Nat /\ 1 <= b /\ b + 1 < j /\ j <= L - 1
  BY <1>10, <1>11 DEF WordsIn
<1>13. /\ b \in 1 .. L - 1 /\ b + 1 \in 1 .. L - 1 /\ j \in 1 .. L - 1 /\ j < L
       /\ \A x \in 1 .. b - 1 : x \in 1 .. L - 1
  BY <1>8, <1>12
<1>14. /\ \A x \in 1 .. b - 1 : d[x] \in Space
       /\ d[b] \notin Space /\ d[b + 1] \in Space /\ d[j] \in Space
  BY <1>10, <1>11, <1>13 DEF WordsIn
<1>15. d[b + 1] = SP /\ d[j] = SP
  <2>1. \A x \in Space : x \notin {CR, LF} => x = SP
    BY DEF Space
  <2>2. d[b + 1] \notin {CR, LF} /\ d[j] \notin {CR, LF}
    BY <1>7, <1>13 DEF LineEnd
  <2> QED BY <1>14, <2>1, <2>2
<1> QED BY <1>7, <1>12, <1>13, <1>14, <1>15

-----------------------------------------------------------------------------
(* Text that does not begin where a request does *)

\* No word with two spaces behind it from place y to place E - 1.
NoTwo(T, y, E) ==
  \A b, i, j \in y .. E - 1 : ~ (b < i /\ i < j /\ T[b] \notin Space /\ T[i] = SP /\ T[j] = SP)

\* Only the first character of a head is followed by a line of three words.
LEMMA TailLine ==
  ASSUME NEW r \in Requests, Written(r), NEW T, NEW a, HeadShape(r, T, a),
         NEW y \in 2 .. Len(T)
  PROVE  \E E \in y .. Len(T) : T[E] \in {CR, LF} /\ NoTwo(T, y, E)
<1>1. PICK n \in Nat : n = Len(r.fields)
  BY RequestType
<1>2. PICK z \in Nat : z = a[n]
  <2>1. n \in 0 .. n
    OBVIOUS
  <2> QED BY <1>1, <2>1 DEF HeadShape
<1>3. 7 <= z /\ Len(T) = z + 2
  <2>1. n \in 0 .. n
    OBVIOUS
  <2>2. 7 <= a[n] /\ Len(T) = a[n] + 2
    BY <1>1, <2>1 DEF HeadShape
  <2> QED BY <1>2, <2>2
<1>4. y \in 2 .. z + 2
  BY <1>3
<1>5. ASSUME T[y] \in {CR, LF} PROVE \E E \in y .. Len(T) : T[E] \in {CR, LF} /\ NoTwo(T, y, E)
  <2>1. y \in y .. Len(T) /\ y .. y - 1 = {}
    BY <1>3, <1>4
  <2>2. NoTwo(T, y, y)
    BY <2>1 DEF NoTwo
  <2> QED BY <1>5, <2>1, <2>2
<1>6. CASE y <= 5
  <2>1. /\ T[1] = r.method /\ T[2] = SP /\ T[3] = r.url /\ T[4] = SP /\ T[5] = r.version
        /\ T[6] = CR
    <3>1. 0 \in 0 .. n /\ 7 - 1 = 6
      OBVIOUS
    <3>2. T[a[0] - 1] = CR /\ a[0] = 7
      BY <1>1, <3>1 DEF HeadShape
    <3>3. T[6] = CR
      BY <3>1, <3>2
    <3> QED BY <3>3 DEF HeadShape
  <2>2. T[2] \in Space /\ T[3] \notin Space /\ T[5] # SP /\ T[3] # SP
    BY <2>1, RequestType, Tokens
  <2>3. NoTwo(T, y, 6)
    <3>1. SUFFICES ASSUME NEW b \in y .. 6 - 1, NEW i \in y .. 6 - 1, NEW j \in y .. 6 - 1,
                          b < i, i < j, T[b] \notin Space, T[i] = SP, T[j] = SP
                   PROVE  FALSE
      BY DEF NoTwo
    <3>2. b \in {2, 3, 4, 5} /\ i \in {2, 3, 4, 5} /\ j \in {2, 3, 4, 5}
      BY <1>4, <1>6, <3>1
    <3>3. b # 2
      BY <2>2, <3>1
    <3>4. i # 5 /\ j # 5
      BY <2>2, <3>1
    <3> QED BY <3>1, <3>2, <3>3, <3>4
  <2>4. 6 \in y .. Len(T)
    BY <1>3, <1>4, <1>6
  <2> QED BY <2>1, <2>3, <2>4
<1>7. CASE y = 6 \/ y = 7
  <2>1. 0 \in 0 .. n /\ 7 - 1 = 6
    OBVIOUS
  <2>2. T[a[0] - 1] = CR /\ T[a[0]] = LF /\ a[0] = 7
    BY <1>1, <2>1 DEF HeadShape
  <2>3. T[y] \in {CR, LF}
    BY <1>7, <2>1, <2>2
  <2> QED BY <1>5, <2>3
<1>8. CASE y > z
  <2>1. y = z + 1 \/ y = z + 2
    BY <1>4, <1>8
  <2>2. T[z + 1] = CR /\ T[z + 2] = LF
    BY <1>1, <1>2 DEF HeadShape
  <2>3. T[y] \in {CR, LF}
    BY <2>1, <2>2
  <2> QED BY <1>5, <2>3
<1>9. CASE y \in 8 .. z
  <2>1. PICK k \in 1 .. n : a[k - 1] < y /\ y <= a[k]
    BY <1>1, <1>2, <1>9 DEF HeadShape
  <2>2. k \in 0 .. n /\ k - 1 \in 0 .. n
    OBVIOUS
  <2>3. PICK f, p, q : f = r.fields[k] /\ p = a[k - 1] /\ q = a[k]
    OBVIOUS
  <2>4. PICK m \in Nat : m = Len(f)
    BY <1>1, <2>3, RequestType
  <2>5. p \in Nat /\ q \in Nat
    BY <1>1, <2>2, <2>3 DEF HeadShape
  <2>6. q = p + m + 2 /\ q <= z /\ p < y /\ y <= q
    <3>1. a[k] = a[k - 1] + m + 2 /\ a[k] <= a[n]
      BY <1>1, <2>2, <2>3, <2>4 DEF HeadShape
    <3> QED BY <1>2, <2>1, <2>3, <3>1
  <2>7. T[q - 1] = CR /\ T[q] = LF
    BY <1>1, <2>2, <2>3 DEF HeadShape
  <2>8. \A x \in 1 .. m : T[p + x] = f[x]
    BY <1>1, <2>3, <2>4 DEF HeadShape
  <2>9. CASE y <= p + m
    <3>1. f \in Seq(Words \cup {SP}) /\ Line(f)
      BY <1>1, <2>3, RequestType DEF Written
    <3>2. ASSUME NEW x \in 1 .. m, f[x] = SP PROVE x = 2
      <4>1. f[1] # SP /\ (m >= 3 => \A i \in 3 .. m : f[i] # SP)
        BY <2>4, <3>1 DEF Line
      <4>2. x = 1 \/ x = 2 \/ (m >= 3 /\ x \in 3 .. m)
        OBVIOUS
      <4> QED BY <3>2, <4>1, <4>2
    <3>3. NoTwo(T, y, q - 1)
      <4>1. SUFFICES ASSUME NEW b \in y .. q - 1 - 1, NEW i \in y .. q - 1 - 1,
                            NEW j \in y .. q - 1 - 1, i < j, T[i] = SP, T[j] = SP
                     PROVE  FALSE
        BY DEF NoTwo
      <4>2. PICK v \in Nat, w \in Nat : v = i - p /\ w = j - p
        BY <2>5, <2>6
      <4>3. v \in 1 .. m /\ w \in 1 .. m /\ i = p + v /\ j = p + w /\ v < w
        BY <2>5, <2>6, <4>1, <4>2
      <4>4. f[v] = SP /\ f[w] = SP
        BY <2>8, <4>1, <4>3
      <4>5. v = 2 /\ w = 2
        BY <3>2, <4>3, <4>4
      <4> QED BY <4>3, <4>5
    <3>4. q - 1 \in y .. Len(T)
      BY <1>3, <2>5, <2>6, <2>9
    <3> QED BY <2>7, <3>3, <3>4
  <2>10. CASE y > p + m
    <3>1. y = q - 1 \/ y = q
      BY <2>5, <2>6, <2>10
    <3> QED BY <1>5, <2>7, <3>1
  <2> QED BY <2>5, <2>9, <2>10
<1> QED BY <1>4, <1>6, <1>7, <1>8, <1>9

\* d goes on as X does from place y on, and then with a word.
Continues(d, X, y) ==
  \A x \in 1 .. Len(d) :
    /\ y - 1 + x <= Len(X) => d[x] = X[y - 1 + x]
    /\ y - 1 + x = Len(X) + 1 => d[x] \in Words

\* Such text is never accepted, whatever follows it.
LEMMA DecodeTail ==
  ASSUME NEW r \in Requests, Written(r), Framed(r), NEW d \in Seq(Token), NEW k,
         NEW y \in 2 .. Len(Text(r)), Continues(d, Text(r), y)
  PROVE  tryDecode(d, k).ret # "ok"
<1>1. SUFFICES ASSUME tryDecode(d, k).ret = "ok" PROVE FALSE
  OBVIOUS
<1>2. PICK L, b, j :
        /\ LineEnd(d, L)
        /\ b \in Nat /\ j \in Nat /\ 1 <= b /\ b + 1 < j /\ j < L
        /\ \A x \in 1 .. b - 1 : d[x] \in Space
        /\ d[b] \notin Space /\ d[b + 1] = SP /\ d[j] = SP
  BY <1>1, OkShape
<1>3. PICK l \in Nat : l = Len(d)
  OBVIOUS
<1>4. L \in 1 .. l /\ d[L] \in {CR, LF} /\ \A x \in 1 .. L - 1 : d[x] \notin {CR, LF}
  BY <1>2, <1>3 DEF LineEnd
<1>5. PICK T, a : T = HeadText(r) /\ HeadShape(r, T, a)
  BY HeadShaped
<1>6. PICK X : X = Text(r)
  OBVIOUS
<1>7. PICK t \in Nat, c \in Nat : t = Len(T) /\ c = Len(r.body)
  <2>1. T \in Seq(Token)
    BY <1>5 DEF HeadShape
  <2>2. r.body \in Seq(Token)
    BY RequestType
  <2>3. Len(T) \in Nat /\ Len(r.body) \in Nat
    BY <2>1, <2>2
  <2> QED BY <2>3
<1>8. /\ Len(X) = t + c
      /\ \A x \in 1 .. t : X[x] = T[x]
      /\ \A x \in 1 .. c : X[t + x] = r.body[x]
  <2>1. T \in Seq(Token) /\ r.body \in Seq(Token)
    <3>1. T \in Seq(Token)
      BY <1>5 DEF HeadShape
    <3> QED BY <3>1, RequestType
  <2>2. X = T \o r.body
    BY <1>5, <1>6 DEF Text
  <2>3. IsCat(X, T, r.body)
    BY <2>1, <2>2, CatIs
  <2> QED BY <1>7, <2>3 DEF IsCat
<1>9. y \in 2 .. t + c
  BY <1>6, <1>8
<1>10. \A x \in 1 .. l : /\ y - 1 + x <= t + c => d[x] = X[y - 1 + x]
                         /\ y - 1 + x = t + c + 1 => d[x] \in Words
  BY <1>3, <1>6, <1>8 DEF Continues
<1>11. CASE y <= t
  <2>1. PICK E \in y .. t : T[E] \in {CR, LF} /\ NoTwo(T, y, E)
    <3>1. y \in 2 .. Len(T)
      BY <1>7, <1>9, <1>11
    <3> QED BY <1>5, <1>7, <3>1, TailLine
  <2>2. \A x \in 1 .. l : y - 1 + x <= t => d[x] = T[y - 1 + x]
    <3>1. SUFFICES ASSUME NEW x \in 1 .. l, y - 1 + x <= t PROVE d[x] = T[y - 1 + x]
      OBVIOUS
    <3>2. PICK w \in Nat : w = y - 1 + x
      BY <1>9
    <3>3. w \in 1 .. t /\ w <= t + c
      BY <1>9, <3>1, <3>2
    <3> QED BY <1>8, <1>10, <3>1, <3>2, <3>3
  <2>3. L <= E - y + 1
    <3>1. SUFFICES ASSUME L > E - y + 1 PROVE FALSE
      BY <1>4, <1>9
    <3>2. PICK w \in Nat : w = E - y + 1
      BY <1>9
    <3>3. w \in 1 .. l /\ w \in 1 .. L - 1 /\ y - 1 + w = E /\ E <= t
      BY <1>4, <1>9, <3>1, <3>2
    <3>4. d[w] = T[E]
      BY <2>2, <3>3
    <3> QED BY <1>4, <2>1, <3>3, <3>4
  <2>4. PICK u \in Nat, v \in Nat, w \in Nat :
          u = y - 1 + b /\ v = y - 1 + (b + 1) /\ w = y - 1 + j
    BY <1>2, <1>9
  <2>5. /\ u \in y .. E - 1 /\ v \in y .. E - 1 /\ w \in y .. E - 1 /\ u < v /\ v < w
        /\ b \in 1 .. l /\ b + 1 \in 1 .. l /\ j \in 1 .. l /\ u <= t /\ v <= t /\ w <= t
    BY <1>2, <1>4, <1>9, <2>3, <2>4
  <2>6. d[b] = T[u] /\ d[b + 1] = T[v] /\ d[j] = T[w]
    BY <2>2, <2>4, <2>5
  <2> QED BY <1>2, <2>1, <2>5, <2>6 DEF NoTwo
<1>12. CASE y > t
  <2>1. ASSUME NEW x \in 1 .. l, y - 1 + x <= t + c PROVE d[x] \in Words \cup {CR, LF}
    <3>1. PICK v \in Nat : v = y - 1 + x - t
      BY <1>9, <1>12
    <3>2. v \in 1 .. c /\ t + v = y - 1 + x
      BY <1>9, <1>12, <2>1, <3>1
    <3>3. d[x] = r.body[v]
      BY <1>8, <1>10, <2>1, <3>2
    <3>4. r.body \in Seq(Words \cup Space) /\ v \in DOMAIN r.body
      BY <1>7, <3>2, RequestType
    <3>5. r.body[v] \in Words \cup Space /\ r.body[v] # SP
      BY <3>4 DEF Framed
    <3> QED BY <3>3, <3>5 DEF Space
  <2>2. 1 \in 1 .. l /\ y - 1 + 1 <= t + c /\ 2 \in 1 .. l
    BY <1>2, <1>4, <1>9
  <2>3. d[1] \in Words
    <3>1. 1 \in 1 .. L - 1
      BY <1>2, <1>4
    <3> QED BY <1>4, <2>1, <2>2, <3>1
  <2>4. b = 1
    <3>1. b # 1 => 1 \in 1 .. b - 1
      BY <1>2
    <3> QED BY <1>2, <2>3, <3>1, Tokens
  <2>5. d[2] = SP
    BY <1>2, <2>4
  <2>6. d[2] \in Words \cup {CR, LF}
    <3>1. y - 1 + 2 <= t + c \/ y - 1 + 2 = t + c + 1
      BY <1>9
    <3> QED BY <1>10, <2>1, <2>2, <3>1
  <2> QED BY <2>5, <2>6, Tokens
<1> QED BY <1>9, <1>11, <1>12

-----------------------------------------------------------------------------
(* The characters of a conversation *)

\* Induction over the numbers up to n, with a set for what holds.
LEMMA Upward ==
  ASSUME NEW n \in Nat, NEW S, 0 \in S, \A k \in 1 .. n : k - 1 \in S => k \in S
  PROVE  \A k \in 0 .. n : k \in S
<1> DEFINE Bad == {k \in 0 .. n : k \notin S}
<1>1. SUFFICES ASSUME Bad # {} PROVE FALSE
  OBVIOUS
<1>2. Bad \subseteq Nat
  OBVIOUS
<1>3. PICK m : m \in Bad /\ \A k \in Bad : m <= k
  <2> HIDE DEF Bad
  <2> QED BY <1>1, <1>2, LeastElement
<1>4. m \in 0 .. n /\ m \notin S /\ m # 0
  BY <1>3
<1>5. m \in 1 .. n /\ m - 1 \in 0 .. n /\ ~ (m <= m - 1)
  BY <1>4
<1>6. m - 1 \in S
  BY <1>3, <1>5
<1> QED BY <1>4, <1>5, <1>6

\* s begins with t.
Begins(s, t) == Len(t) <= Len(s) /\ \A x \in 1 .. Len(t) : s[x] = t[x]

\* What s begins with, s and more begins with.
LEMMA BeginsOn ==
  ASSUME NEW s \in Seq(Token), NEW t \in Seq(Token), NEW u \in Seq(Token),
         Begins(s, t)
  PROVE  Begins(s \o u, t)
<1>1. PICK v : v = s \o u
  OBVIOUS
<1>2. IsCat(v, s, u)
  BY <1>1, CatIs
<1>3. PICK l \in Nat, m \in Nat, n \in Nat : l = Len(s) /\ m = Len(t) /\ n = Len(u)
  OBVIOUS
<1>4. Len(v) = l + n /\ \A x \in 1 .. l : v[x] = s[x]
  BY <1>2, <1>3 DEF IsCat
<1>5. m <= l /\ \A x \in 1 .. m : s[x] = t[x]
  BY <1>3 DEF Begins
<1>6. m <= l + n /\ \A x \in 1 .. m : x \in 1 .. l
  BY <1>5
<1>7. Begins(v, t)
  BY <1>3, <1>4, <1>5, <1>6 DEF Begins
<1> QED BY <1>1, <1>7

\* What has been written of a stream stays where it is.
LEMMA JoinedBegins ==
  ASSUME NEW s \in Seq(Seq(Token)), NEW j \in 0 .. Len(s)
  PROVE  Begins(Joined(s, Len(s)), Joined(s, j))
<1>1. PICK n \in Nat : n = Len(s)
  OBVIOUS
<1> DEFINE S == {k \in 0 .. n : k < j \/ Begins(Joined(s, k), Joined(s, j))}
<1>2. \A k \in 0 .. n : Joined(s, k) \in Seq(Token)
  BY <1>1, JoinedType
<1>3. j \in 0 .. n /\ Begins(Joined(s, j), Joined(s, j))
  BY <1>1, <1>2 DEF Begins
<1>4. 0 \in S
  <2>1. 0 < j \/ 0 = j
    OBVIOUS
  <2> QED BY <1>3, <2>1
<1>5. ASSUME NEW k \in 1 .. n, k - 1 \in S PROVE k \in S
  <2>1. k \in 0 .. n /\ k - 1 \in 0 .. n /\ k \in 1 .. Len(s)
    BY <1>1
  <2>2. CASE k < j
    BY <2>1, <2>2
  <2>3. CASE k = j
    BY <1>3, <2>1, <2>3
  <2>4. CASE k > j
    <3>1. Begins(Joined(s, k - 1), Joined(s, j))
      <4>1. ~ (k - 1 < j)
        BY <2>4
      <4> QED BY <1>5, <4>1
    <3>2. Joined(s, k) = Joined(s, k - 1) \o s[k]
      BY <2>1, JoinedStep
    <3>3. Joined(s, k - 1) \in Seq(Token) /\ Joined(s, j) \in Seq(Token) /\ s[k] \in Seq(Token)
      BY <1>2, <1>3, <2>1
    <3> HIDE DEF S
    <3>4. Begins(Joined(s, k), Joined(s, j))
      BY <3>1, <3>2, <3>3, BeginsOn
    <3> QED BY <2>1, <3>4 DEF S
  <2> QED BY <1>3, <2>1, <2>2, <2>3, <2>4
<1> HIDE DEF S
<1>6. \A k \in 0 .. n : k \in S
  BY <1>4, <1>5, Upward
<1>7. n \in S
  BY <1>6
<1>8. ~ (n < j)
  BY <1>1
<1> QED BY <1>1, <1>7, <1>8 DEF S

\* Where request i ends in the stream, 0 for i = 0.
EndOf(e, i) == IF i = 0 THEN 0 ELSE e[i]

\* The stream s of a conversation c with the ends e of its requests.
Placed(c, s, e) ==
  \A i \in 1 .. Len(c) :
    /\ Written(c[i])
    /\ Text(c[i]) \in Seq(Token) /\ Len(Text(c[i])) >= 9
    /\ EndOf(e, i) = EndOf(e, i - 1) + Len(Text(c[i]))
    /\ \A x \in 1 .. Len(Text(c[i])) : s[EndOf(e, i - 1) + x] = Text(c[i])[x]
Rising(c, e) == \A i, j \in 0 .. Len(c) : i < j => EndOf(e, i) < EndOf(e, j)
Covered(c, s, e) ==
  \A p \in 1 .. Len(s) : \E i \in 1 .. Len(c) : EndOf(e, i - 1) < p /\ p <= EndOf(e, i)
StreamShape(c, s, e) ==
  /\ c \in Seq(Requests) /\ s \in Seq(Token)
  /\ \A i \in 0 .. Len(c) : EndOf(e, i) \in Nat
  /\ EndOf(e, 0) = 0 /\ Len(s) = EndOf(e, Len(c))
  /\ Placed(c, s, e) /\ Rising(c, e) /\ Covered(c, s, e)

\* A request has nine characters or more.
LEMMA TextType ==
  ASSUME NEW r \in Requests
  PROVE  /\ Text(r) \in Seq(Token) /\ Len(Text(r)) >= 9 /\ Len(Text(r)) \in Nat
         /\ IsCat(Text(r), HeadText(r), r.body)
         /\ Text(r)[1] = r.method
<1>1. PICK T, a : T = HeadText(r) /\ HeadShape(r, T, a)
  BY HeadShaped
<1>2. PICK n \in Nat : n = Len(r.fields)
  BY RequestType
<1>3. T \in Seq(Token) /\ T[1] = r.method
  BY <1>1 DEF HeadShape
<1>4. Len(T) >= 9 /\ Len(T) \in Nat
  <2>1. n \in 0 .. n
    OBVIOUS
  <2>2. a[n] \in Nat /\ 7 <= a[n] /\ Len(T) = a[n] + 2
    BY <1>1, <1>2, <2>1 DEF HeadShape
  <2> QED BY <2>2
<1>5. r.body \in Seq(Token) /\ Len(r.body) \in Nat
  <2>1. r.body \in Seq(Token)
    BY RequestType
  <2> QED BY <2>1
<1>6. PICK X : X = Text(r)
  OBVIOUS
<1>7. X \in Seq(Token) /\ IsCat(X, T, r.body)
  <2>1. X = T \o r.body
    BY <1>1, <1>6 DEF Text
  <2> QED BY <1>3, <1>5, <2>1, CatIs
<1>8. PICK t \in Nat, b \in Nat : t = Len(T) /\ b = Len(r.body) /\ t >= 9
  BY <1>4, <1>5
<1>9. Len(X) = t + b /\ \A x \in 1 .. t : X[x] = T[x]
  BY <1>7, <1>8 DEF IsCat
<1>10. t + b >= 9 /\ t + b \in Nat /\ 1 \in 1 .. t
  BY <1>8
<1> QED BY <1>1, <1>3, <1>6, <1>7, <1>9, <1>10

\* The requests of a conversation, each as text.
Texts(c) == [i \in DOMAIN c |-> Text(c[i])]

\* The texts of a conversation are texts.
LEMMA TextsType ==
  ASSUME NEW c \in Seq(Requests)
  PROVE  /\ Texts(c) \in Seq(Seq(Token)) /\ Len(Texts(c)) = Len(c)
         /\ \A i \in 1 .. Len(c) : c[i] \in Requests /\ Texts(c)[i] = Text(c[i])
<1>1. PICK n \in Nat : n = Len(c) /\ DOMAIN c = 1 .. n
  OBVIOUS
<1>2. \A i \in 1 .. n : c[i] \in Requests
  BY <1>1
<1>3. \A i \in 1 .. n : Text(c[i]) \in Seq(Token)
  BY <1>2, TextType
<1>4. Texts(c) \in [1 .. n -> Seq(Token)] /\ \A i \in 1 .. n : Texts(c)[i] = Text(c[i])
  BY <1>1, <1>3 DEF Texts
<1>5. Texts(c) \in Seq(Seq(Token)) /\ Len(Texts(c)) = n
  BY <1>4
<1> QED BY <1>1, <1>2, <1>4, <1>5

\* The ends of the requests rise when each of them is longer than nothing.
LEMMA RisingEnds ==
  ASSUME NEW n \in Nat, NEW f \in [0 .. n -> Nat], \A i \in 1 .. n : f[i - 1] < f[i],
         NEW i \in 0 .. n, NEW j \in 0 .. n, i < j
  PROVE  f[i] < f[j]
<1> DEFINE S == {k \in 0 .. n : i < k => f[i] < f[k]}
<1>1. 0 \in S
  OBVIOUS
<1>2. ASSUME NEW k \in 1 .. n, k - 1 \in S PROVE k \in S
  <2>1. k \in 0 .. n /\ k - 1 \in 0 .. n /\ f[k - 1] < f[k]
    OBVIOUS
  <2>2. f[k - 1] \in Nat /\ f[k] \in Nat /\ f[i] \in Nat
    BY <2>1
  <2>3. i < k => i = k - 1 \/ i < k - 1
    OBVIOUS
  <2>4. i < k - 1 => f[i] < f[k - 1]
    BY <1>2
  <2> QED BY <2>1, <2>2, <2>3, <2>4
<1> HIDE DEF S
<1>3. \A k \in 0 .. n : k \in S
  BY <1>1, <1>2, Upward
<1> QED BY <1>3 DEF S

\* Every place up to the last end is before some end and not before the one before.
LEMMA CoveredEnds ==
  ASSUME NEW n \in Nat, NEW f \in [0 .. n -> Nat], f[0] = 0, NEW p \in 1 .. f[n]
  PROVE  \E i \in 1 .. n : f[i - 1] < p /\ p <= f[i]
<1>1. PICK S : S = {i \in 0 .. n : p <= f[i]}
  OBVIOUS
<1>2. f[n] \in Nat /\ n \in S /\ S \subseteq Nat
  BY <1>1
<1>3. PICK i : i \in S /\ \A k \in S : i <= k
  BY <1>2, LeastElement
<1>4. i \in 0 .. n /\ p <= f[i] /\ i # 0
  BY <1>1, <1>2, <1>3
<1>5. i \in 1 .. n /\ i - 1 \in 0 .. n /\ ~ (i <= i - 1)
  BY <1>4
<1>6. ~ (p <= f[i - 1])
  BY <1>1, <1>3, <1>5
<1>7. f[i - 1] \in Nat /\ p \in Nat
  BY <1>2, <1>5
<1> QED BY <1>4, <1>5, <1>6, <1>7

\* The stream that InputInit makes has the shape of StreamShape.
LEMMA StreamShaped ==
  ASSUME NEW c \in Conversations,
         NEW s, s = FlattenSeq([i \in DOMAIN c |-> Text(c[i])]),
         NEW e, e = [i \in DOMAIN c |-> Len(FlattenSeq([j \in 1 .. i |-> Text(c[j])]))]
  PROVE  StreamShape(c, s, e)
<1>1. c \in Seq(Requests) /\ \A i \in DOMAIN c : Written(c[i])
  BY InputAssumption
<1>2. PICK n \in Nat : n = Len(c) /\ DOMAIN c = 1 .. n
  BY <1>1
<1>3. PICK ts : ts = Texts(c)
  OBVIOUS
<1>4. /\ ts \in Seq(Seq(Token)) /\ Len(ts) = n
      /\ \A i \in 1 .. n : c[i] \in Requests /\ ts[i] = Text(c[i])
  BY <1>1, <1>2, <1>3, TextsType
<1>5. \A i \in 0 .. n : [j \in 1 .. i |-> Text(c[j])] = [j \in 1 .. i |-> ts[j]]
  BY <1>4
<1>6. \A i \in 0 .. n : Joined(ts, i) = FlattenSeq([j \in 1 .. i |-> Text(c[j])])
  BY <1>5 DEF Joined
<1>7. \A i \in 0 .. n : Joined(ts, i) \in Seq(Token) /\ Len(Joined(ts, i)) \in Nat
  <2>1. \A i \in 0 .. n : Joined(ts, i) \in Seq(Token)
    BY <1>4, JoinedType
  <2> QED BY <2>1
<1>8. s = Joined(ts, n)
  BY <1>2, <1>6
<1>9. Joined(ts, 0) = <<>>
  BY JoinedEmpty
<1>10. ASSUME NEW i \in 0 .. n PROVE EndOf(e, i) = Len(Joined(ts, i))
  <2>1. CASE i = 0
    BY <1>9, <2>1 DEF EndOf
  <2>2. CASE i # 0
    <3>1. i \in 1 .. n
      BY <2>2
    <3> QED BY <1>2, <1>6, <2>2, <3>1 DEF EndOf
  <2> QED BY <2>1, <2>2
<1>11. PICK f \in [0 .. n -> Nat] : \A i \in 0 .. n : f[i] = EndOf(e, i) /\ f[i] = Len(Joined(ts, i))
  <2>1. [i \in 0 .. n |-> Len(Joined(ts, i))] \in [0 .. n -> Nat]
    BY <1>7
  <2> QED BY <1>10, <2>1
<1>12. \A i \in 0 .. n : EndOf(e, i) \in Nat
  BY <1>11
<1>13. EndOf(e, 0) = 0
  BY DEF EndOf
<1>14. s \in Seq(Token) /\ Len(s) = EndOf(e, n)
  <2>1. n \in 0 .. n
    OBVIOUS
  <2> QED BY <1>7, <1>8, <1>10, <2>1
<1>15. ASSUME NEW i \in 1 .. n
       PROVE  /\ Text(c[i]) \in Seq(Token) /\ Len(Text(c[i])) >= 9
              /\ EndOf(e, i) = EndOf(e, i - 1) + Len(Text(c[i]))
              /\ \A x \in 1 .. Len(Text(c[i])) : s[EndOf(e, i - 1) + x] = Text(c[i])[x]
  <2>1. i \in 0 .. n /\ i - 1 \in 0 .. n /\ i \in 1 .. Len(ts)
    BY <1>4
  <2>2. PICK X : X = Text(c[i])
    OBVIOUS
  <2>3. X \in Seq(Token) /\ Len(X) >= 9 /\ Len(X) \in Nat
    BY <1>4, <2>2, TextType
  <2>4. PICK u, v : u = Joined(ts, i - 1) /\ v = Joined(ts, i)
    OBVIOUS
  <2>5. u \in Seq(Token) /\ v \in Seq(Token)
    BY <1>7, <2>1, <2>4
  <2>6. v = u \o X
    BY <1>4, <2>1, <2>2, <2>4, JoinedStep
  <2>7. IsCat(v, u, X)
    BY <2>3, <2>5, <2>6, CatIs
  <2>8. PICK p \in Nat, m \in Nat : p = Len(u) /\ m = Len(X)
    <3>1. Len(u) \in Nat
      BY <2>5
    <3> QED BY <2>3, <3>1
  <2>9. Len(v) = p + m /\ \A x \in 1 .. m : v[p + x] = X[x]
    BY <2>7, <2>8 DEF IsCat
  <2>10. EndOf(e, i - 1) = p /\ EndOf(e, i) = Len(v)
    BY <1>10, <2>1, <2>4, <2>8
  <2>11. \A x \in 1 .. p + m : s[x] = v[x]
    <3>1. i \in 0 .. Len(ts)
      BY <1>4, <2>1
    <3>2. Begins(s, v)
      BY <1>4, <1>8, <2>4, <3>1, JoinedBegins
    <3> QED BY <2>9, <3>2 DEF Begins
  <2>12. \A x \in 1 .. m : s[p + x] = X[x]
    <3>1. \A x \in 1 .. m : p + x \in 1 .. p + m
      OBVIOUS
    <3> QED BY <2>9, <2>11, <3>1
  <2> QED BY <2>2, <2>3, <2>8, <2>9, <2>10, <2>12
<1>16. Placed(c, s, e)
  BY <1>1, <1>2, <1>15 DEF Placed
<1>17. ASSUME NEW i \in 1 .. n PROVE f[i - 1] < f[i]
  <2>1. PICK m \in Nat, p \in Nat, q \in Nat :
          m = Len(Text(c[i])) /\ p = EndOf(e, i - 1) /\ q = EndOf(e, i)
    <3>1. i \in 0 .. n /\ i - 1 \in 0 .. n
      OBVIOUS
    <3>2. Len(Text(c[i])) \in Nat
      BY <1>4, TextType
    <3> QED BY <1>12, <3>1, <3>2
  <2>2. m >= 9 /\ q = p + m
    BY <1>15, <2>1
  <2>3. p < q
    BY <2>2
  <2>4. i \in 0 .. n /\ i - 1 \in 0 .. n
    OBVIOUS
  <2> QED BY <1>11, <2>1, <2>3, <2>4
<1>18. Rising(c, e)
  <2>1. \A i, j \in 0 .. n : i < j => f[i] < f[j]
    BY <1>17, RisingEnds
  <2> QED BY <1>2, <1>11, <2>1 DEF Rising
<1>19. Covered(c, s, e)
  <2>1. SUFFICES ASSUME NEW p \in 1 .. Len(s)
                 PROVE  \E i \in 1 .. n : EndOf(e, i - 1) < p /\ p <= EndOf(e, i)
    BY <1>2 DEF Covered
  <2>2. f[0] = 0 /\ p \in 1 .. f[n]
    BY <1>11, <1>13, <1>14
  <2>3. PICK i \in 1 .. n : f[i - 1] < p /\ p <= f[i]
    BY <2>2, CoveredEnds
  <2>4. i \in 0 .. n /\ i - 1 \in 0 .. n
    OBVIOUS
  <2> QED BY <1>11, <2>3, <2>4
<1> QED BY <1>1, <1>2, <1>12, <1>13, <1>14, <1>16, <1>18, <1>19 DEF StreamShape

\* d is what the stream s holds behind place p.
Shows(d, s, p) ==
  /\ d \in Seq(Token) /\ p \in Nat /\ p + Len(d) <= Len(s)
  /\ \A x \in 1 .. Len(d) : d[x] = s[p + x]

\* The text X stands in s behind place p.
StandsAt(s, p, X) == \A x \in 1 .. Len(X) : s[p + x] = X[x]

\* Requests that end where the server thinks they do.
FramedAll(c) == \A i \in 1 .. Len(c) : Framed(c[i])

\* What StreamShape says of one request.
LEMMA StreamFacts ==
  ASSUME NEW c, NEW s, NEW e, StreamShape(c, s, e), NEW i \in 1 .. Len(c)
  PROVE  /\ c[i] \in Requests /\ Written(c[i])
         /\ EndOf(e, i - 1) \in Nat /\ EndOf(e, i) \in Nat
         /\ Len(Text(c[i])) \in Nat /\ Len(Text(c[i])) >= 9
         /\ EndOf(e, i) = EndOf(e, i - 1) + Len(Text(c[i]))
         /\ StandsAt(s, EndOf(e, i - 1), Text(c[i]))
         /\ EndOf(e, i) <= Len(s) /\ Len(s) \in Nat
<1>1. c \in Seq(Requests) /\ Placed(c, s, e) /\ Rising(c, e) /\ Len(s) = EndOf(e, Len(c))
  BY DEF StreamShape
<1>2. PICK n \in Nat : n = Len(c)
  BY <1>1
<1>3. i \in 0 .. n /\ i - 1 \in 0 .. n /\ n \in 0 .. n /\ (i = n \/ i < n)
  BY <1>2
<1>4. c[i] \in Requests
  BY <1>1
<1>5. EndOf(e, i - 1) \in Nat /\ EndOf(e, i) \in Nat /\ EndOf(e, n) \in Nat
  BY <1>2, <1>3 DEF StreamShape
<1>6. EndOf(e, i) <= EndOf(e, n)
  <2>1. i < n => EndOf(e, i) < EndOf(e, n)
    BY <1>1, <1>2, <1>3 DEF Rising
  <2> QED BY <1>3, <1>5, <2>1
<1>7. Len(Text(c[i])) \in Nat
  BY <1>4, TextType
<1>8. /\ Written(c[i]) /\ Len(Text(c[i])) >= 9
      /\ EndOf(e, i) = EndOf(e, i - 1) + Len(Text(c[i]))
      /\ StandsAt(s, EndOf(e, i - 1), Text(c[i]))
  BY <1>1 DEF Placed, StandsAt
<1> QED BY <1>1, <1>2, <1>4, <1>5, <1>6, <1>7, <1>8

\* The verdict on what begins where a request begins.
LEMMA DecodeAtStart ==
  ASSUME NEW c, NEW s, NEW e, StreamShape(c, s, e), NEW i \in 1 .. Len(c),
         NEW d, NEW p, Shows(d, s, p), p = EndOf(e, i - 1)
  PROVE  tryDecode(d, <<>>).ret = Verdict(c[i], Len(d))
<1>1. PICK r : r = c[i]
  OBVIOUS
<1>2. /\ r \in Requests /\ Written(r)
      /\ \A x \in 1 .. Len(Text(r)) : s[p + x] = Text(r)[x]
  <2>1. r \in Requests /\ Written(r) /\ StandsAt(s, p, Text(r))
    BY <1>1, StreamFacts
  <2> QED BY <2>1 DEF StandsAt
<1>3. PICK T, X : T = HeadText(r) /\ X = Text(r)
  OBVIOUS
<1>4. IsCat(X, T, r.body) /\ T \in Seq(Token) /\ r.body \in Seq(Token)
  BY <1>2, <1>3, TextType, HeadTextIs, RequestType
<1>5. PICK t \in Nat, b \in Nat : t = Len(T) /\ b = Len(r.body)
  <2>1. Len(T) \in Nat /\ Len(r.body) \in Nat
    BY <1>4
  <2> QED BY <2>1
<1>6. Len(X) = t + b /\ \A x \in 1 .. t : X[x] = T[x]
  BY <1>4, <1>5 DEF IsCat
<1>7. \A x \in 1 .. t : x \in 1 .. t + b
  OBVIOUS
<1>8. \A x \in 1 .. t : s[p + x] = T[x]
  BY <1>2, <1>3, <1>6, <1>7
<1>9. d \in Seq(Token) /\ \A x \in 1 .. Len(d) : d[x] = s[p + x]
  BY DEF Shows
<1>10. Opens(d, T)
  <2>1. SUFFICES ASSUME NEW x \in 1 .. Len(d), x <= Len(T) PROVE d[x] = T[x]
    BY DEF Opens
  <2>2. x \in 1 .. t
    BY <1>5, <1>9, <2>1
  <2> QED BY <1>8, <1>9, <2>2
<1>11. tryDecode(d, <<>>).ret = Verdict(r, Len(d))
  BY <1>2, <1>3, <1>9, <1>10, DecodeHead
<1> QED BY <1>1, <1>11

\* What begins inside a request is not accepted.
LEMMA DecodeInside ==
  ASSUME NEW c, NEW s, NEW e, StreamShape(c, s, e), FramedAll(c),
         NEW d, NEW p, Shows(d, s, p), Len(d) >= 1,
         \A i \in 1 .. Len(c) : p # EndOf(e, i - 1), NEW k
  PROVE  tryDecode(d, k).ret # "ok"
<1>1. d \in Seq(Token) /\ p \in Nat /\ \A x \in 1 .. Len(d) : d[x] = s[p + x]
  BY DEF Shows
<1>2. PICK l \in Nat, h \in Nat : l = Len(d) /\ h = Len(s) /\ l >= 1 /\ p + l <= h
  <2>1. s \in Seq(Token)
    BY DEF StreamShape
  <2> QED BY <1>1, <2>1 DEF Shows
<1>3. PICK n \in Nat : n = Len(c)
  BY DEF StreamShape
<1>4. PICK i \in 1 .. n : EndOf(e, i - 1) < p + 1 /\ p + 1 <= EndOf(e, i)
  <2>1. p + 1 \in 1 .. Len(s)
    BY <1>1, <1>2
  <2> QED BY <1>3, <2>1 DEF StreamShape, Covered
<1>5. PICK r, X : r = c[i] /\ X = Text(r)
  OBVIOUS
<1>6. PICK b \in Nat, q \in Nat, m \in Nat : b = EndOf(e, i - 1) /\ q = EndOf(e, i) /\ m = Len(X)
  BY <1>3, <1>5, StreamFacts
<1>7. q = b + m /\ b < p + 1 /\ p + 1 <= q /\ b # p /\ q <= h
  <2>1. EndOf(e, i) = EndOf(e, i - 1) + Len(Text(c[i])) /\ EndOf(e, i) <= Len(s)
    BY <1>3, StreamFacts
  <2>2. p # EndOf(e, i - 1)
    BY <1>3
  <2> QED BY <1>2, <1>4, <1>5, <1>6, <2>1, <2>2
<1>8. r \in Requests /\ Written(r) /\ \A x \in 1 .. m : s[b + x] = X[x]
  <2>1. r \in Requests /\ Written(r) /\ StandsAt(s, b, X)
    BY <1>3, <1>5, <1>6, StreamFacts
  <2> QED BY <1>6, <2>1 DEF StandsAt
<1>9. PICK y \in Nat : y = p + 1 - b
  BY <1>1, <1>7
<1>10. y \in 2 .. m
  BY <1>1, <1>7, <1>9
<1>11. Continues(d, X, y)
  <2>1. SUFFICES ASSUME NEW x \in 1 .. l
                 PROVE  /\ y - 1 + x <= m => d[x] = X[y - 1 + x]
                        /\ y - 1 + x = m + 1 => d[x] \in Words
    BY <1>2, <1>6 DEF Continues
  <2>2. PICK w \in Nat : w = y - 1 + x
    BY <1>10
  <2>3. p + x = b + w /\ 1 <= w
    BY <1>1, <1>7, <1>9, <1>10, <2>2
  <2>4. d[x] = s[b + w]
    BY <1>1, <1>2, <2>3
  <2>5. ASSUME w <= m PROVE d[x] = X[w]
    <3>1. w \in 1 .. m
      BY <2>3, <2>5
    <3> QED BY <1>8, <2>4, <3>1
  <2>6. ASSUME w = m + 1 PROVE d[x] \in Words
    <3>1. p + x <= h
      BY <1>1, <1>2
    <3>2. q < h
      BY <1>7, <2>3, <2>6, <3>1
    <3>3. i # n
      BY <1>2, <1>3, <1>6, <3>2 DEF StreamShape
    <3>4. PICK j \in 1 .. n : j = i + 1 /\ j - 1 = i
      BY <3>3
    <3>5. PICK v : v = c[j]
      OBVIOUS
    <3>6. v \in Requests /\ Len(Text(v)) \in Nat /\ Len(Text(v)) >= 9
          /\ StandsAt(s, EndOf(e, j - 1), Text(v))
      BY <1>3, <3>5, StreamFacts
    <3>7. 1 \in 1 .. Len(Text(v))
      BY <3>6
    <3>8. s[q + 1] = Text(v)[1]
      BY <1>6, <3>4, <3>6, <3>7 DEF StandsAt
    <3>9. b + w = q + 1
      BY <1>7, <2>6
    <3>10. Text(v)[1] \in Words
      BY <3>6, TextType, RequestType
    <3> QED BY <2>4, <3>8, <3>9, <3>10
  <2> QED BY <2>2, <2>5, <2>6
<1>12. y \in 2 .. Len(Text(r)) /\ Continues(d, Text(r), y)
  BY <1>5, <1>6, <1>10, <1>11
<1>13. Framed(r)
  BY <1>3, <1>5 DEF FramedAll
<1> QED BY <1>1, <1>8, <1>12, <1>13, DecodeTail

-----------------------------------------------------------------------------
(* m_inBuf *)

\* Nothing was ever written behind the first l bytes of m.
Spare(m, l) == \A x \in l + 1 .. Len(m) : m[x] = Nul

\* reallocateBuffer fills what it adds with Nul.
LEMMA ReallocateSpare ==
  ASSUME NEW m, IsBlock(m), NEW l \in 0 .. Len(m), NEW n \in Nat, l <= n, Spare(m, l)
  PROVE  Spare(reallocateBuffer(m, l, n), l)
<1>1. CASE ~ MustGrow(m, n)
  BY <1>1 DEF reallocateBuffer
<1>2. CASE MustGrow(m, n)
  <2>1. PICK b : b = NewBlock(m, l, n)
    OBVIOUS
  <2>2. RoundUp(n) \in Nat
    BY RoundUpSize
  <2>3. Len(b) = RoundUp(n)
    BY <2>1, NewBlockData
  <2>4. \A x \in 1 .. RoundUp(n) : b[x] = IF x <= l THEN m[x] ELSE Nul
    BY <2>1 DEF NewBlock
  <2>5. l \in Nat
    BY LenProperties DEF IsBlock
  <2>6. \A x \in l + 1 .. RoundUp(n) : x \in 1 .. RoundUp(n) /\ ~ (x <= l)
    BY <2>2, <2>5
  <2>7. Spare(b, l)
    BY <2>3, <2>4, <2>6 DEF Spare
  <2> QED BY <1>2, <2>1, <2>7 DEF reallocateBuffer
<1> QED BY <1>1, <1>2

\* write appends, and writes nothing behind what it appends.
LEMMA WriteInput ==
  ASSUME IsBlock(mem), len \in 0 .. Len(mem), NEW p \in Seq(Bytes), write(p)
  PROVE  /\ IsBlock(mem') /\ len' = len + Len(p) /\ len' \in 0 .. Len(mem')
         /\ \A x \in 1 .. len : mem'[x] = mem[x]
         /\ \A x \in 1 .. Len(p) : mem'[len + x] = p[x]
         /\ Spare(mem, len) => Spare(mem', len')
<1>1. PICK k \in Nat, l \in Nat, h \in Nat : k = Len(p) /\ l = len /\ h = Len(mem) /\ l <= h
  BY LenProperties DEF IsBlock
<1>2. PICK n \in Nat : n = l + k
  OBVIOUS
<1>3. PICK m : m = reallocateBuffer(mem, len, n)
  OBVIOUS
<1>4. len' = n /\ mem' = Put(m, len, p)
  BY <1>1, <1>2, <1>3 DEF write
<1>5. len <= n
  BY <1>1, <1>2
<1>6. IsBlock(m) /\ Len(m) >= n /\ \A x \in 1 .. len : m[x] = mem[x]
  BY <1>3, <1>5, ReallocateData
<1>7. PICK g \in Nat : g = Len(m) /\ g >= n
  BY <1>6, LenProperties DEF IsBlock
<1>8. len \in Nat /\ len + Len(p) <= Len(m)
  BY <1>1, <1>2, <1>7
<1>9. /\ IsBlock(mem') /\ Len(mem') = Len(m)
      /\ \A x \in 1 .. Len(p) : mem'[len + x] = p[x]
      /\ \A x \in 1 .. len : mem'[x] = m[x]
      /\ \A x \in len + Len(p) + 1 .. Len(m) : mem'[x] = m[x]
  BY <1>4, <1>6, <1>8, PutData
<1>10. ASSUME Spare(mem, len) PROVE Spare(mem', len')
  <2>1. Spare(m, len)
    BY <1>3, <1>5, <1>10, ReallocateSpare
  <2>2. SUFFICES ASSUME NEW x \in n + 1 .. g PROVE mem'[x] = Nul
    BY <1>4, <1>7, <1>9 DEF Spare
  <2>3. x \in len + Len(p) + 1 .. Len(m) /\ x \in len + 1 .. Len(m)
    BY <1>1, <1>2, <1>7
  <2> QED BY <1>9, <2>1, <2>3 DEF Spare
<1>11. len' \in 0 .. Len(mem') /\ len' = len + Len(p)
  BY <1>1, <1>2, <1>4, <1>7, <1>9
<1> QED BY <1>6, <1>9, <1>10, <1>11

\* remove(getBufferLen()): all of the data goes, and the bytes behind it move over it.
LEMMA RemoveInput ==
  ASSUME IsBlock(mem), len \in 0 .. Len(mem), remove(len)
  PROVE  /\ IsBlock(mem') /\ len' = 0 /\ Len(mem') = Len(mem)
         /\ \A x \in 1 .. Len(mem) :
              mem'[x] = IF x + len <= Len(mem) THEN mem[x + len] ELSE mem[x]
<1>1. PICK l \in Nat, h \in Nat : l = len /\ h = Len(mem) /\ l <= h
  BY LenProperties DEF IsBlock
<1>2. Clip(len) = len /\ len - len = 0
  BY <1>1 DEF Clip
<1>3. PICK m : m = ShiftDown(mem, len)
  OBVIOUS
<1>4. IsBlock(m) /\ Len(m) = h
  BY <1>1, <1>3, ShiftData
<1>5. \A x \in 1 .. h : m[x] = IF x + len <= h THEN mem[x + len] ELSE mem[x]
  BY <1>1, <1>3 DEF ShiftDown
<1>6. /\ len' = 0
      /\ mem' = IF len <= Len(mem) /\ MustTrim(m, 0, 0) THEN NewBlock(m, 0, 0) ELSE m
  BY <1>2, <1>3 DEF remove, Consume
<1>7. RoundUp(0) = 0
  BY RoundUpSize
<1>8. CASE h = 0
  <2>1. IsBlock(mem') /\ Len(mem') = 0
    <3>1. 0 \in 0 .. Len(m) /\ 0 \in Nat /\ 0 <= 0
      BY <1>4
    <3>2. IsBlock(NewBlock(m, 0, 0)) /\ Len(NewBlock(m, 0, 0)) = 0
      BY <1>4, <1>7, <3>1, NewBlockData
    <3> QED BY <1>4, <1>6, <1>8, <3>2
  <2> QED BY <1>1, <1>6, <1>8, <2>1
<1>9. CASE h # 0
  <2>1. ~ MustTrim(m, 0, 0)
    BY <1>4, <1>7, <1>9 DEF MustTrim
  <2>2. mem' = m
    BY <1>6, <2>1
  <2> QED BY <1>1, <1>4, <1>5, <1>6, <2>2
<1> QED BY <1>8, <1>9

-----------------------------------------------------------------------------
(* Requests that were begun and requests that were received *)

\* Begun and the legal ones of Whole, of a conversation c with the ends e.
BegunIn(c, e, n) == {i \in 1 .. Len(c) : EndOf(e, i - 1) < n}
GoodIn(c, e, n) == {i \in 1 .. Len(c) : EndOf(e, i) <= n /\ Legal(c[i])}

\* The first k requests are legal and end at place p.
Turn(c, e, k, p) ==
  k \in 0 .. Len(c) /\ p = EndOf(e, k) /\ \A i \in 1 .. k : Legal(c[i])

\* The places of request ends, as a function, for arithmetic.
LEMMA EndsMonotone ==
  ASSUME NEW c, NEW s, NEW e, StreamShape(c, s, e),
         NEW i \in 0 .. Len(c), NEW j \in 0 .. Len(c)
  PROVE  /\ EndOf(e, i) \in Nat /\ EndOf(e, j) \in Nat
         /\ i < j <=> EndOf(e, i) < EndOf(e, j)
         /\ i <= j <=> EndOf(e, i) <= EndOf(e, j)
<1>1. PICK n \in Nat : n = Len(c)
  BY DEF StreamShape
<1>2. EndOf(e, i) \in Nat /\ EndOf(e, j) \in Nat
  BY DEF StreamShape
<1>3. (i < j => EndOf(e, i) < EndOf(e, j)) /\ (j < i => EndOf(e, j) < EndOf(e, i))
  BY DEF StreamShape, Rising
<1>4. i \in Nat /\ j \in Nat
  BY <1>1
<1>5. i < j \/ i = j \/ j < i
  BY <1>4
<1>6. PICK p \in Nat, q \in Nat : p = EndOf(e, i) /\ q = EndOf(e, j)
  BY <1>2
<1>7. (i < j => p < q) /\ (j < i => q < p) /\ (i = j => p = q)
  BY <1>3, <1>6
<1>8. (i < j <=> p < q) /\ (i <= j <=> p <= q)
  BY <1>4, <1>5, <1>7
<1> QED BY <1>2, <1>6, <1>8

\* There are no more legal requests than requests.
LEMMA GoodFinite ==
  ASSUME NEW c \in Seq(Requests), NEW e, NEW n
  PROVE  /\ IsFiniteSet(GoodIn(c, e, n)) /\ Cardinality(GoodIn(c, e, n)) \in Nat
         /\ Cardinality(GoodIn(c, e, n)) <= Len(c)
<1>1. PICK l \in Nat : l = Len(c)
  OBVIOUS
<1>2. IsFiniteSet(1 .. l) /\ Cardinality(1 .. l) = l
  BY FS_Interval
<1>3. GoodIn(c, e, n) \subseteq 1 .. l
  BY <1>1 DEF GoodIn
<1>4. IsFiniteSet(GoodIn(c, e, n)) /\ Cardinality(GoodIn(c, e, n)) <= l
  BY <1>2, <1>3, FS_Subset
<1>5. Cardinality(GoodIn(c, e, n)) \in Nat
  BY <1>4, FS_CardinalityType
<1> QED BY <1>1, <1>4, <1>5

\* With more characters there are no fewer legal requests.
LEMMA GoodGrows ==
  ASSUME NEW c, NEW s, NEW e, StreamShape(c, s, e), NEW m \in Nat, NEW n \in Nat, m <= n
  PROVE  Cardinality(GoodIn(c, e, m)) <= Cardinality(GoodIn(c, e, n))
<1>1. c \in Seq(Requests)
  BY DEF StreamShape
<1>2. IsFiniteSet(GoodIn(c, e, n))
  BY <1>1, GoodFinite
<1>3. GoodIn(c, e, m) \subseteq GoodIn(c, e, n)
  <2>1. SUFFICES ASSUME NEW i \in 1 .. Len(c), EndOf(e, i) <= m PROVE EndOf(e, i) <= n
    BY DEF GoodIn
  <2>2. EndOf(e, i) \in Nat
    BY StreamFacts
  <2> QED BY <2>1, <2>2
<1> QED BY <1>2, <1>3, FS_Subset

\* One more legal request between two places is one more.
LEMMA GoodOneMore ==
  ASSUME NEW c, NEW s, NEW e, StreamShape(c, s, e), NEW m \in Nat, NEW n \in Nat, m <= n,
         NEW i \in 1 .. Len(c), m < EndOf(e, i), EndOf(e, i) <= n, Legal(c[i])
  PROVE  Cardinality(GoodIn(c, e, m)) + 1 <= Cardinality(GoodIn(c, e, n))
<1>1. c \in Seq(Requests)
  BY DEF StreamShape
<1>2. PICK G, H : G = GoodIn(c, e, m) /\ H = GoodIn(c, e, n)
  OBVIOUS
<1>3. IsFiniteSet(G) /\ IsFiniteSet(H) /\ Cardinality(G) \in Nat
  BY <1>1, <1>2, GoodFinite
<1>4. EndOf(e, i) \in Nat
  BY StreamFacts
<1>5. i \notin G
  BY <1>2, <1>4 DEF GoodIn
<1>6. G \cup {i} \subseteq H
  <2>1. i \in H
    BY <1>2 DEF GoodIn
  <2>2. SUFFICES ASSUME NEW j \in 1 .. Len(c), EndOf(e, j) <= m PROVE EndOf(e, j) <= n
    BY <1>2, <2>1 DEF GoodIn
  <2>3. EndOf(e, j) \in Nat
    BY StreamFacts
  <2> QED BY <2>2, <2>3
<1>7. Cardinality(G \cup {i}) = Cardinality(G) + 1
  BY <1>3, <1>5, FS_AddElement
<1>8. Cardinality(G \cup {i}) <= Cardinality(H)
  BY <1>3, <1>6, FS_Subset
<1> QED BY <1>2, <1>7, <1>8

\* The legal requests up to a place in or before a request that is not legal or not
\* complete are the ones before it.
LEMMA GoodIsTurn ==
  ASSUME NEW c, NEW s, NEW e, StreamShape(c, s, e), NEW k, NEW p, Turn(c, e, k, p),
         NEW n \in Nat, p <= n, n <= Len(s),
         k < Len(c) => \/ n < EndOf(e, k + 1)
                       \/ n <= EndOf(e, k + 1) /\ ~ Legal(c[k + 1])
  PROVE  Cardinality(GoodIn(c, e, n)) = k
<1>1. PICK l \in Nat : l = Len(c)
  BY DEF StreamShape
<1>2. k \in 0 .. l /\ p = EndOf(e, k) /\ \A i \in 1 .. k : Legal(c[i])
  BY <1>1 DEF Turn
<1>3. \A i : i \in GoodIn(c, e, n) <=> i \in 1 .. l /\ EndOf(e, i) <= n /\ Legal(c[i])
  BY <1>1 DEF GoodIn
<1>4. ASSUME NEW i \in 1 .. k PROVE i \in GoodIn(c, e, n)
  <2>1. i \in 1 .. l /\ i \in 0 .. l /\ k \in 0 .. l /\ i <= k
    BY <1>2
  <2>2. EndOf(e, i) \in Nat /\ EndOf(e, k) \in Nat /\ EndOf(e, i) <= EndOf(e, k)
    BY <1>1, <2>1, EndsMonotone
  <2>3. EndOf(e, i) <= n
    BY <1>2, <2>2
  <2> QED BY <1>2, <1>3, <2>1, <2>3
<1>5. ASSUME NEW i \in GoodIn(c, e, n) PROVE i \in 1 .. k
  <2>1. i \in 1 .. l /\ EndOf(e, i) <= n /\ Legal(c[i])
    BY <1>3
  <2>2. SUFFICES ASSUME i > k PROVE FALSE
    BY <1>2, <2>1
  <2>3. PICK j \in 1 .. l : j = k + 1 /\ k < l /\ j <= i /\ (j = i \/ j < i)
    BY <1>2, <2>1, <2>2
  <2>4. i \in 0 .. l /\ j \in 0 .. l
    BY <2>1, <2>3
  <2>5. /\ EndOf(e, i) \in Nat /\ EndOf(e, j) \in Nat /\ EndOf(e, j) <= EndOf(e, i)
        /\ (j < i => EndOf(e, j) < EndOf(e, i))
    BY <1>1, <2>3, <2>4, EndsMonotone
  <2>6. n < EndOf(e, j) \/ (n <= EndOf(e, j) /\ ~ Legal(c[j]))
    BY <1>1, <2>3
  <2>7. j = i
    BY <2>1, <2>3, <2>5, <2>6
  <2> QED BY <2>1, <2>5, <2>6, <2>7
<1>6. GoodIn(c, e, n) = 1 .. k
  BY <1>4, <1>5
<1>7. Cardinality(1 .. k) = k
  BY <1>2, FS_Interval
<1> QED BY <1>6, <1>7

\* The requests begun before a place in request k + 1.
LEMMA BegunIs ==
  ASSUME NEW c, NEW s, NEW e, StreamShape(c, s, e), NEW k \in 0 .. Len(c), k < Len(c),
         NEW n \in Nat, EndOf(e, k) < n, n <= EndOf(e, k + 1)
  PROVE  BegunIn(c, e, n) = 1 .. k + 1 /\ Cardinality(BegunIn(c, e, n)) = k + 1
<1>1. PICK l \in Nat : l = Len(c)
  BY DEF StreamShape
<1>2. k \in 0 .. l /\ k + 1 \in 1 .. l /\ k + 1 \in 0 .. l
  BY <1>1
<1>3. \A i : i \in BegunIn(c, e, n) <=> i \in 1 .. l /\ EndOf(e, i - 1) < n
  BY <1>1 DEF BegunIn
<1>4. EndOf(e, k) \in Nat /\ EndOf(e, k + 1) \in Nat
  BY <1>1, <1>2, EndsMonotone
<1>5. ASSUME NEW i \in 1 .. k + 1 PROVE i \in BegunIn(c, e, n)
  <2>1. i \in 1 .. l /\ i - 1 \in 0 .. l /\ i - 1 <= k
    BY <1>2
  <2>2. EndOf(e, i - 1) \in Nat /\ EndOf(e, i - 1) <= EndOf(e, k)
    BY <1>1, <1>2, <2>1, EndsMonotone
  <2>3. EndOf(e, i - 1) < n
    BY <1>4, <2>2
  <2> QED BY <1>3, <2>1, <2>3
<1>6. ASSUME NEW i \in BegunIn(c, e, n) PROVE i \in 1 .. k + 1
  <2>1. i \in 1 .. l /\ EndOf(e, i - 1) < n
    BY <1>3
  <2>2. SUFFICES ASSUME i > k + 1 PROVE FALSE
    BY <1>2, <2>1
  <2>3. i - 1 \in 0 .. l /\ k + 1 <= i - 1
    BY <1>2, <2>1, <2>2
  <2>4. EndOf(e, i - 1) \in Nat /\ EndOf(e, k + 1) <= EndOf(e, i - 1)
    BY <1>1, <1>2, <2>3, EndsMonotone
  <2> QED BY <1>4, <2>1, <2>4
<1>7. BegunIn(c, e, n) = 1 .. k + 1
  BY <1>5, <1>6
<1>8. 1 \in Nat /\ k + 1 \in Nat
  BY <1>2
<1>9. Cardinality(1 .. k + 1) = k + 1
  <2>1. PICK m \in Nat : m = k + 1
    BY <1>8
  <2>2. Cardinality(1 .. m) = m
    BY FS_Interval
  <2> QED BY <2>1, <2>2
<1> QED BY <1>7, <1>9

\* When no more than k + 1 requests are begun, request k + 1 is the last of them.
LEMMA BegunAtMost ==
  ASSUME NEW c, NEW s, NEW e, StreamShape(c, s, e), NEW k \in 0 .. Len(c), k < Len(c),
         NEW n \in Nat, n <= Len(s), Cardinality(BegunIn(c, e, n)) <= k + 1
  PROVE  n <= EndOf(e, k + 1)
<1>1. PICK l \in Nat : l = Len(c)
  BY DEF StreamShape
<1>2. k \in 0 .. l /\ k + 1 \in 1 .. l /\ k + 1 \in 0 .. l /\ l \in 0 .. l
  BY <1>1
<1>3. EndOf(e, k + 1) \in Nat /\ EndOf(e, l) \in Nat /\ Len(s) = EndOf(e, l)
  BY <1>1, <1>2 DEF StreamShape
<1>4. SUFFICES ASSUME EndOf(e, k + 1) < n PROVE FALSE
  BY <1>3
<1>5. k + 1 < l
  <2>1. EndOf(e, k + 1) < EndOf(e, l)
    BY <1>3, <1>4
  <2> QED BY <1>1, <1>2, <2>1, EndsMonotone
<1>6. PICK m \in Nat : m = k + 2
  BY <1>2
<1>7. 1 .. m \subseteq BegunIn(c, e, n)
  <2>1. SUFFICES ASSUME NEW i \in 1 .. m PROVE i \in 1 .. l /\ EndOf(e, i - 1) < n
    BY <1>1 DEF BegunIn
  <2>2. i \in 1 .. l /\ i - 1 \in 0 .. l /\ i - 1 <= k + 1
    BY <1>2, <1>5, <1>6
  <2>3. EndOf(e, i - 1) \in Nat /\ EndOf(e, i - 1) <= EndOf(e, k + 1)
    BY <1>1, <1>2, <2>2, EndsMonotone
  <2> QED BY <1>3, <1>4, <2>2, <2>3
<1>8. IsFiniteSet(BegunIn(c, e, n))
  <2>1. IsFiniteSet(1 .. l)
    BY FS_Interval
  <2>2. BegunIn(c, e, n) \subseteq 1 .. l
    BY <1>1 DEF BegunIn
  <2> QED BY <2>1, <2>2, FS_Subset
<1>9. Cardinality(1 .. m) = m
  BY FS_Interval
<1>10. m <= Cardinality(BegunIn(c, e, n)) /\ Cardinality(BegunIn(c, e, n)) \in Nat
  BY <1>7, <1>8, <1>9, FS_Subset, FS_CardinalityType
<1> QED BY <1>2, <1>6, <1>10

-----------------------------------------------------------------------------
(* What the first tryDecode of a notification finds *)

\* What tryDecode returns: a result and fields.
Result(q) == q = [ret |-> q.ret, fields |-> q.fields] /\ q.ret \in {"more", "ok", "bad"}

\* tryDecode returns one of its three results.
LEMMA DecodeResult ==
  ASSUME NEW d \in Seq(Token), NEW k
  PROVE  Result(tryDecode(d, k))
<1>1. PICK e \in Nat : e = getHeader(d)
  BY getHeaderType
<1>2. CASE e <= 1
  BY <1>1, <1>2, tryDecodeNoHeader DEF Result
<1>3. CASE e > 1
  <2>1. PICK h : h = SubSeq(d, 1, e - 1)
    OBVIOUS
  <2>2. PICK line : line = eatLine(h, 1).text
    OBVIOUS
  <2>3. PICK m : m = eatWord(line, 1)
    OBVIOUS
  <2>4. PICK u : u = eatWord(line, m.next)
    OBVIOUS
  <2>5. PICK v : v = eatWord(line, u.next)
    OBVIOUS
  <2>6. PICK ls : ls = HeaderLines(h, eatLine(h, 1).next)
    OBVIOUS
  <2>7. Parts(d, e, h, line, m, u, v, ls)
    BY <1>1, <1>3, <2>1, <2>2, <2>3, <2>4, <2>5, <2>6 DEF Parts
  <2>8. CASE v.text = <<>>
    BY <2>7, <2>8, tryDecodeFewWords DEF Result
  <2>9. CASE v.text # <<>>
    <3>1. PICK j : j = Judged(d, e, m.text, u.text, v.text, ls.ok, Inserted(k, ls.fields))
      OBVIOUS
    <3>2. j \in {"more", "ok", "bad"}
      BY <3>1 DEF Judged
    <3>3. tryDecode(d, k) = [ret |-> j, fields |-> Inserted(k, ls.fields)]
      BY <2>7, <2>9, <3>1, tryDecodeJudges
    <3> QED BY <3>2, <3>3 DEF Result
  <2> QED BY <2>8, <2>9
<1> QED BY <1>1, <1>2, <1>3

\* What a verdict says of the request.
LEMMA VerdictSays ==
  ASSUME NEW r \in Requests, Framed(r), NEW n \in Nat
  PROVE  /\ Verdict(r, n) = "more" => n < Len(Text(r))
         /\ Verdict(r, n) = "ok" => Legal(r) /\ Len(Text(r)) <= n
         /\ Verdict(r, n) = "bad" => ~ Legal(r)
<1>1. IsCat(Text(r), HeadText(r), r.body) /\ HeadText(r) \in Seq(Token) /\ r.body \in Seq(Token)
  BY TextType, HeadTextIs, RequestType
<1>2. PICK t \in Nat, h \in Nat, b \in Nat :
        t = Len(Text(r)) /\ h = Len(HeadText(r)) /\ b = Len(r.body)
  BY <1>1, TextType
<1>3. t = h + b
  BY <1>1, <1>2 DEF IsCat
<1>4. PICK v : v = Verdict(r, n)
  OBVIOUS
<1>5. v = IF n < h \/ (HeadOK(r) /\ n < t) THEN "more"
          ELSE IF Legal(r) THEN "ok" ELSE "bad"
  BY <1>2, <1>3, <1>4 DEF Verdict, Framed
<1>6. Legal(r) => HeadOK(r)
  BY DEF Legal
<1>7. /\ v = "more" => n < t
      /\ v = "ok" => Legal(r) /\ t <= n
      /\ v = "bad" => ~ Legal(r)
  BY <1>3, <1>5, <1>6
<1> QED BY <1>2, <1>4, <1>7

\* What is accepted is a legal request, all of it, from its first character on.
LEMMA AcceptedIsLegal ==
  ASSUME NEW c, NEW s, NEW e, StreamShape(c, s, e), FramedAll(c), NEW d, NEW p,
         Shows(d, s, p), Len(d) >= 1, tryDecode(d, <<>>).ret = "ok"
  PROVE  \E i \in 1 .. Len(c) :
           Legal(c[i]) /\ p < EndOf(e, i) /\ EndOf(e, i) <= p + Len(d)
<1>1. PICK i \in 1 .. Len(c) : p = EndOf(e, i - 1)
  BY DecodeInside
<1>2. PICK t \in Nat : t = Len(Text(c[i])) /\ t >= 9
  BY StreamFacts
<1>3. c[i] \in Requests /\ Framed(c[i]) /\ p \in Nat /\ EndOf(e, i) = p + t
  BY <1>1, <1>2, StreamFacts DEF FramedAll
<1>4. PICK n \in Nat : n = Len(d)
  BY DEF Shows
<1>5. Verdict(c[i], n) = "ok"
  BY <1>1, <1>4, DecodeAtStart
<1>6. Legal(c[i]) /\ t <= n
  BY <1>2, <1>3, <1>5, VerdictSays
<1>7. p < p + t /\ p + t <= p + n
  BY <1>2, <1>3, <1>6
<1> QED BY <1>3, <1>4, <1>6, <1>7

\* The request whose turn it is, received up to place n, is judged for what it says.
LEMMA DecodeTurn ==
  ASSUME NEW c, NEW s, NEW e, StreamShape(c, s, e), FramedAll(c),
         NEW k, NEW p, Turn(c, e, k, p),
         k < Len(c), NEW d, Shows(d, s, p), Len(d) >= 1,
         NEW n, n = p + Len(d), n <= EndOf(e, k + 1), NEW v, v = tryDecode(d, <<>>).ret
  PROVE  /\ BegunIn(c, e, n) = 1 .. k + 1
         /\ v = Verdict(c[k + 1], n - EndOf(e, k))
         /\ v = "more" => n < EndOf(e, k + 1)
         /\ v = "ok" => Turn(c, e, k + 1, n)
         /\ v = "bad" => ~ Legal(c[k + 1])
<1>1. c \in Seq(Requests) /\ Len(c) \in Nat
  BY DEF StreamShape
<1>2. k \in 0 .. Len(c) /\ p = EndOf(e, k) /\ \A i \in 1 .. k : Legal(c[i])
  BY DEF Turn
<1>3. PICK i \in 1 .. Len(c) : i = k + 1 /\ i - 1 = k
  BY <1>1, <1>2
<1>4. PICK t \in Nat : t = Len(Text(c[i]))
  BY StreamFacts
<1>5. c[i] \in Requests /\ Framed(c[i]) /\ p \in Nat /\ EndOf(e, i) = p + t
  BY <1>2, <1>3, <1>4, StreamFacts DEF FramedAll
<1>6. PICK l \in Nat : l = Len(d) /\ l >= 1
  BY DEF Shows
<1>7. n = p + l /\ n \in Nat /\ p < n /\ n - p = l
  BY <1>5, <1>6
<1>8. v = Verdict(c[i], l)
  BY <1>2, <1>3, <1>6, DecodeAtStart
<1>9. BegunIn(c, e, n) = 1 .. k + 1
  BY <1>2, <1>7, BegunIs
<1>10. /\ v = "more" => l < t
       /\ v = "ok" => Legal(c[i]) /\ t <= l
       /\ v = "bad" => ~ Legal(c[i])
  BY <1>4, <1>5, <1>8, VerdictSays
<1>11. n <= p + t
  BY <1>3, <1>5
<1>12. (l < t => n < p + t) /\ (t <= l => n = p + t)
  BY <1>5, <1>7, <1>11
<1>13. v = "more" => n < EndOf(e, i)
  BY <1>5, <1>10, <1>12
<1>14. ASSUME v = "ok" PROVE Turn(c, e, i, n)
  <2>1. Legal(c[i]) /\ n = EndOf(e, i)
    BY <1>5, <1>10, <1>12, <1>14
  <2>2. \A j \in 1 .. i : j = i \/ j \in 1 .. k
    BY <1>2, <1>3
  <2>3. i \in 0 .. Len(c)
    BY <1>1
  <2> QED BY <1>2, <2>1, <2>2, <2>3 DEF Turn
<1> QED BY <1>2, <1>3, <1>7, <1>8, <1>9, <1>10, <1>13, <1>14

-----------------------------------------------------------------------------
(* The inductive invariant *)

\* The block of m_inBuf, the codec's Slice of it and what has been received.
InputType ==
  /\ IsBlock(mem) /\ len \in 0 .. Len(mem) /\ slice \in 0 .. Len(mem)
  /\ StreamShape(reqs, stream, ends) /\ Len(reqs) <= MaxAnswers
  /\ sent \in Nat /\ len <= sent /\ sent <= Len(stream)
  /\ answers \in Nat /\ piped \in BOOLEAN /\ big \in BOOLEAN

\* The data of m_inBuf are the last characters received.
DataInv == \A x \in 1 .. len : mem[x] = stream[sent - len + x]

\* There is nothing behind the data while it fills half of the block or less.
SpareInv == ~ big => 2 * len <= Len(mem) /\ Spare(mem, len)

\* Where the server is in notifyPackageReceived: waiting for data, before the first
\* tryDecode, after it, before the second, closed after the first; the second and
\* later ones accepted what was left under the Slice, or refused it.
Receiving == state = "recv" /\ rounds \in 0 .. 2
Fresh == state = "decode" /\ rounds = 0 /\ known = <<>> /\ slice = len /\ len >= 1
Found == state = "answer" /\ rounds = 1 /\ ret \in {"ok", "bad"}
Emptied == state = "decode" /\ rounds = 1 /\ ret = "ok" /\ len = 0
Shut == state = "closed" /\ rounds = 1 /\ ret = "bad"
Looping ==
  /\ big /\ state \in {"decode", "answer"} /\ rounds \in 2 .. 3 /\ ret = "ok" /\ len = 0
  /\ tryDecode(SubSeq(mem, 1, slice), known) = [ret |-> "ok", fields |-> known]
Lost == big /\ state \in {"answer", "closed"} /\ rounds \in 2 .. 3 /\ ret = "bad"
PhaseInv == Receiving \/ Fresh \/ Found \/ Emptied \/ Shut \/ Looping \/ Lost

\* The first verdict of a notification is that of the request m_inBuf begins with.
HeadInv ==
  rounds = 1 /\ state # "decode" /\ len >= 1 =>
    \A i \in 1 .. Len(reqs) : sent - len = EndOf(ends, i - 1) => ret = Verdict(reqs[i], len)

\* No more responses than legal requests that were taken from m_inBuf.
Good(n) == Cardinality(GoodIn(reqs, ends, n))
CountInv ==
  /\ Receiving \/ Fresh => answers <= Good(sent - len)
  /\ Found \/ Emptied \/ Shut => answers <= Good(sent)

\* With one request at a time, the next one begins where the last one ended.
InTurn(k, p) == Turn(reqs, ends, k, p)
Waiting == answers < Len(reqs) => sent < EndOf(ends, answers + 1)
Reached == answers < Len(reqs) /\ sent <= EndOf(ends, answers + 1)
Declined ==
  /\ InTurn(answers, EndOf(ends, answers)) /\ EndOf(ends, answers) < sent
  /\ Reached /\ ~ Legal(reqs[answers + 1])
TurnInv ==
  ~ piped =>
    /\ Receiving => InTurn(answers, sent - len) /\ Waiting
    /\ Fresh => InTurn(answers, sent - len) /\ Reached
    /\ (Found /\ ret = "ok") \/ Emptied => InTurn(answers, sent)
    /\ (Found /\ ret = "bad") \/ Shut => Declined

\* The second part of DecodeExact, with the request that was begun last.
ExactInv ==
  rounds = 1 /\ ~ piped /\ state # "decode" =>
    \E i \in 1 .. Len(reqs) :
      BegunIn(reqs, ends, sent) = 1 .. i /\ ret = Verdict(reqs[i], sent - EndOf(ends, i - 1))

\* The inductive invariant.  What is counted is right where every request ends where
\* the server thinks it does.
InputInv ==
  /\ InputType /\ DataInv /\ SpareInv /\ PhaseInv /\ HeadInv
  /\ FramedAll(reqs) => CountInv /\ TurnInv /\ ExactInv

-----------------------------------------------------------------------------
(* The invariant implies the properties *)

\* Begun, Whole and Before, by the names of the lemmas.
LEMMA BegunLink ==
  ASSUME StreamShape(reqs, stream, ends)
  PROVE  /\ Begun(sent) = BegunIn(reqs, ends, sent)
         /\ {i \in Whole(sent) : Legal(reqs[i])} = GoodIn(reqs, ends, sent)
         /\ \A i \in 1 .. Len(reqs) : Before(i) = EndOf(ends, i - 1)
         /\ AllFramed <=> FramedAll(reqs)
         /\ DOMAIN reqs = 1 .. Len(reqs)
<1>1. reqs \in Seq(Requests)
  BY DEF StreamShape
<1>2. PICK n \in Nat : n = Len(reqs) /\ DOMAIN reqs = 1 .. n
  BY <1>1
<1>3. \A i \in 1 .. n : (i = 1 <=> i - 1 = 0) /\ i # 0
  OBVIOUS
<1>4. \A i \in 1 .. n : Before(i) = EndOf(ends, i - 1) /\ ends[i] = EndOf(ends, i)
  BY <1>3 DEF Before, EndOf
<1>5. AllFramed <=> FramedAll(reqs)
  BY <1>2 DEF AllFramed, FramedAll
<1> QED BY <1>2, <1>4, <1>5 DEF Begun, BegunIn, Whole, GoodIn

\* The invariant names the requests that DecodeExact speaks of.
LEMMA InvDecodeExact ==
  ASSUME InputInv
  PROVE  DecodeExact
<1>1. SUFFICES ASSUME rounds = 1, state # "decode"
               PROVE  /\ \A i \in DOMAIN reqs : len > 0 /\ Before(i) = sent - len =>
                           ret = Verdict(reqs[i], len)
                      /\ ~ piped /\ AllFramed =>
                           ret = Verdict(reqs[Cardinality(Begun(sent))],
                                         sent - Before(Cardinality(Begun(sent))))
  BY DEF DecodeExact
<1>2. StreamShape(reqs, stream, ends) /\ len \in Nat
  <2>1. len \in 0 .. Len(mem) /\ IsBlock(mem)
    BY DEF InputInv, InputType
  <2>2. Len(mem) \in Nat
    BY <2>1, LenProperties DEF IsBlock
  <2>3. StreamShape(reqs, stream, ends)
    BY DEF InputInv, InputType
  <2> QED BY <2>1, <2>2, <2>3
<1>3. ASSUME NEW i \in DOMAIN reqs, len > 0, Before(i) = sent - len
      PROVE  ret = Verdict(reqs[i], len)
  <2>1. i \in 1 .. Len(reqs) /\ Before(i) = EndOf(ends, i - 1)
    BY <1>2, BegunLink
  <2>2. len >= 1
    BY <1>2, <1>3
  <2> QED BY <1>1, <1>3, <2>1, <2>2 DEF InputInv, HeadInv
<1>4. ASSUME ~ piped, AllFramed
      PROVE  ret = Verdict(reqs[Cardinality(Begun(sent))],
                           sent - Before(Cardinality(Begun(sent))))
  <2>1. FramedAll(reqs)
    BY <1>2, <1>4, BegunLink
  <2>2. PICK i \in 1 .. Len(reqs) :
          BegunIn(reqs, ends, sent) = 1 .. i /\ ret = Verdict(reqs[i], sent - EndOf(ends, i - 1))
    BY <1>1, <1>4, <2>1 DEF InputInv, ExactInv
  <2>3. i \in Nat /\ 1 \in Nat
    BY <1>2 DEF StreamShape
  <2>4. Cardinality(1 .. i) = i
    BY <2>3, FS_Interval
  <2>5. Cardinality(Begun(sent)) = i
    BY <1>2, <2>2, <2>4, BegunLink
  <2>6. Before(i) = EndOf(ends, i - 1)
    BY <1>2, BegunLink
  <2> QED BY <2>2, <2>5, <2>6
<1> QED BY <1>3, <1>4

\* Without a full block only the first five phases remain; the request whose turn it
\* is tells how many legal ones there were.
LEMMA InvAnsweredOnce ==
  ASSUME InputInv
  PROVE  AnsweredOnce
<1>1. StreamShape(reqs, stream, ends) /\ reqs \in Seq(Requests) /\ Len(reqs) \in Nat
  BY DEF InputInv, InputType, StreamShape
<1>2. PICK good \in Nat : good = Good(sent) /\ good = Cardinality(GoodIn(reqs, ends, sent))
  BY <1>1, GoodFinite DEF Good
<1>3. Cardinality({i \in Whole(sent) : Legal(reqs[i])}) = good
  BY <1>1, <1>2, BegunLink
<1>4. SUFFICES ASSUME ~ big
               PROVE  /\ rounds <= 2
                      /\ FramedAll(reqs) =>
                           /\ answers <= good
                           /\ ~ piped /\ state \in {"recv", "closed"} => answers = good
                           /\ ~ piped /\ state = "closed" =>
                                \E i \in Begun(sent) : ~ Legal(reqs[i])
  BY <1>1, <1>3, BegunLink DEF AnsweredOnce
<1>5. Receiving \/ Fresh \/ Found \/ Emptied \/ Shut
  BY <1>4 DEF InputInv, PhaseInv, Looping, Lost
<1>6. rounds <= 2
  BY <1>5 DEF Receiving, Fresh, Found, Emptied, Shut
<1>7. sent \in Nat /\ len \in Nat /\ sent - len \in Nat /\ sent - len <= sent /\ answers \in Nat
  <2>1. sent \in Nat /\ len <= sent /\ answers \in Nat /\ len \in 0 .. Len(mem) /\ IsBlock(mem)
    BY DEF InputInv, InputType
  <2>2. Len(mem) \in Nat
    BY <2>1, LenProperties DEF IsBlock
  <2> QED BY <2>1, <2>2
<1>8. ASSUME FramedAll(reqs) PROVE answers <= good
  <2>1. CASE Receiving \/ Fresh
    <3>1. PICK old \in Nat : old = Good(sent - len)
      BY <1>1, GoodFinite DEF Good
    <3>2. answers <= old
      BY <1>8, <2>1, <3>1 DEF InputInv, CountInv
    <3>3. old <= good
      BY <1>1, <1>2, <1>7, <3>1, GoodGrows DEF Good
    <3> QED BY <1>7, <3>2, <3>3
  <2>2. CASE Found \/ Emptied \/ Shut
    BY <1>2, <1>8, <2>2 DEF InputInv, CountInv
  <2> QED BY <1>5, <2>1, <2>2
<1>9. ASSUME FramedAll(reqs), ~ piped, Receiving PROVE answers = good
  <2>1. Turn(reqs, ends, answers, sent - len) /\ Waiting /\ sent <= Len(stream)
    BY <1>9 DEF InputInv, InputType, TurnInv, InTurn
  <2> QED BY <1>1, <1>2, <1>7, <2>1, GoodIsTurn DEF Waiting
<1>10. ASSUME FramedAll(reqs), ~ piped, Shut
       PROVE  answers = good /\ \E i \in Begun(sent) : ~ Legal(reqs[i])
  <2>1. PICK p : p = EndOf(ends, answers)
    OBVIOUS
  <2>2. /\ Turn(reqs, ends, answers, p) /\ p < sent /\ answers < Len(reqs)
        /\ sent <= EndOf(ends, answers + 1) /\ ~ Legal(reqs[answers + 1])
        /\ sent <= Len(stream)
    BY <1>10, <2>1 DEF InputInv, InputType, TurnInv, Declined, Reached, InTurn
  <2>3. answers \in 0 .. Len(reqs)
    BY <2>2 DEF Turn
  <2>4. p \in Nat
    BY <1>1, <2>1, <2>3 DEF StreamShape
  <2>5. p <= sent
    BY <1>7, <2>2, <2>4
  <2>6. answers = good
    BY <1>1, <1>2, <1>7, <2>2, <2>5, GoodIsTurn
  <2>7. Begun(sent) = 1 .. answers + 1
    BY <1>1, <1>7, <2>1, <2>2, <2>3, BegunIs, BegunLink
  <2>8. answers + 1 \in 1 .. answers + 1
    BY <1>7
  <2> QED BY <2>2, <2>6, <2>7, <2>8
<1>11. /\ state = "recv" => Receiving
       /\ state = "closed" => Shut
  BY <1>5 DEF Receiving, Fresh, Found, Emptied, Shut
<1> QED BY <1>6, <1>8, <1>9, <1>10, <1>11

-----------------------------------------------------------------------------
(* The invariant is inductive *)

\* The characters of the model are the bytes of the Buffer.
LEMMA BytesAre == Bytes = Token /\ Nul = NUL /\ Byte = Token
<1>1. Bytes = Token /\ Nul = NUL
  BY InputAssumption
<1>2. NUL \in Token
  BY DEF Token
<1> QED BY <1>1, <1>2 DEF Byte

\* A new connection: nothing received, no memory.
LEMMA InputInitInv ==
  ASSUME InputInit
  PROVE  InputInv
<1>1. StreamShape(reqs, stream, ends)
  BY StreamShaped DEF InputInit
<1>2. reqs \in Seq(Requests) /\ Len(reqs) \in Nat /\ Len(stream) \in Nat /\ Len(reqs) <= MaxAnswers
  BY <1>1, InputAssumption DEF StreamShape, InputInit
<1>3. /\ mem = <<>> /\ len = 0 /\ sent = 0 /\ piped = FALSE /\ big = FALSE /\ state = "recv"
      /\ slice = 0 /\ rounds = 0 /\ answers = 0
  BY DEF InputInit, Init
<1>4. InputType
  <2>1. IsBlock(<<>>)
    BY BufferAssumption DEF IsBlock
  <2>2. IsBlock(mem) /\ Len(mem) = 0
    BY <1>3, <2>1
  <2>3. 0 \in 0 .. 0 /\ 0 \in Nat /\ 0 <= Len(stream)
    BY <1>2
  <2>4. len \in 0 .. Len(mem) /\ slice \in 0 .. Len(mem) /\ len <= sent
    BY <1>3, <2>2, <2>3
  <2>5. piped \in BOOLEAN /\ big \in BOOLEAN
    BY <1>3
  <2> QED BY <1>1, <1>2, <1>3, <2>2, <2>3, <2>4, <2>5 DEF InputType
<1>5. DataInv
  BY <1>3 DEF DataInv
<1>6. SpareInv
  <2>1. Len(mem) = 0
    BY <1>3
  <2> QED BY <1>3, <2>1 DEF SpareInv, Spare
<1>7. Receiving /\ ~ Fresh /\ ~ Found /\ ~ Emptied /\ ~ Shut
  BY <1>3 DEF Receiving, Fresh, Found, Emptied, Shut
<1>8. CountInv
  <2>1. Good(0) \in Nat
    BY <1>2, GoodFinite DEF Good
  <2>2. answers <= Good(0) /\ sent - len = 0
    BY <1>3, <2>1
  <2> QED BY <1>7, <2>2 DEF CountInv
<1>9. TurnInv
  <2>1. EndOf(ends, 0) = 0
    BY DEF EndOf
  <2>2. InTurn(answers, sent - len)
    BY <1>2, <1>3, <2>1 DEF InTurn, Turn
  <2>3. ASSUME 0 < Len(reqs) PROVE EndOf(ends, 0) < EndOf(ends, 1)
    <3>1. 0 \in 0 .. Len(reqs) /\ 1 \in 0 .. Len(reqs)
      BY <1>2, <2>3
    <3> QED BY <1>1, <3>1, EndsMonotone
  <2>4. Waiting
    BY <1>3, <2>1, <2>3 DEF Waiting
  <2> QED BY <1>7, <2>2, <2>4 DEF TurnInv
<1>10. ExactInv
  BY <1>3 DEF ExactInv
<1>11. HeadInv
  BY <1>3 DEF HeadInv
<1> QED BY <1>4, <1>5, <1>6, <1>7, <1>8, <1>9, <1>10, <1>11 DEF InputInv, PhaseInv

\* handleRecv appends the next characters.
LEMMA ReceiveInv ==
  ASSUME InputInv, NEW n \in 1 .. Len(stream), Receive(n)
  PROVE  InputInv'
<1>1. /\ StreamShape(reqs, stream, ends) /\ reqs \in Seq(Requests) /\ stream \in Seq(Token)
      /\ Len(reqs) \in Nat /\ Len(stream) \in Nat
  BY DEF InputInv, InputType, StreamShape
<1>2. IsBlock(mem) /\ len \in 0 .. Len(mem) /\ Len(mem) \in Nat
  BY LenProperties DEF InputInv, InputType, IsBlock
<1>3. /\ len \in Nat /\ sent \in Nat /\ len <= sent /\ answers \in Nat /\ n \in Nat /\ n >= 1
      /\ piped \in BOOLEAN /\ big \in BOOLEAN /\ Len(reqs) <= MaxAnswers
  BY <1>1, <1>2 DEF InputInv, InputType
<1>4. /\ state = "recv" /\ n <= Len(stream) - sent
      /\ write(SubSeq(stream, sent + 1, sent + n)) /\ sent' = sent + n
      /\ piped' = (piped \/ Cardinality(Begun(sent')) > answers + 1)
      /\ big' = (big \/ 2 * len' > Len(mem'))
      /\ state' = "decode" /\ slice' = len' /\ known' = <<>> /\ rounds' = 0
      /\ reqs' = reqs /\ stream' = stream /\ ends' = ends /\ answers' = answers
  BY DEF Receive, clientVars
<1>5. Receiving
  BY <1>4 DEF InputInv, PhaseInv, Receiving, Fresh, Found, Emptied, Shut, Looping, Lost
<1>6. PICK p \in Seq(Bytes) :
        /\ p = SubSeq(stream, sent + 1, sent + n) /\ Len(p) = n
        /\ \A x \in 1 .. n : p[x] = stream[sent + x]
  <2>1. PICK p : p = SubSeq(stream, sent + 1, sent + n)
    OBVIOUS
  <2>2. PICK i \in Nat, j \in Nat : i = sent + 1 /\ j = sent + n
    BY <1>3
  <2>3. i \in 1 .. Len(stream) + 1 /\ j \in 0 .. Len(stream) /\ i <= j + 1
    BY <1>1, <1>3, <1>4, <2>2
  <2>4. p \in Seq(Token) /\ IsPart(p, stream, i, j)
    BY <1>1, <2>1, <2>2, <2>3, PartIs
  <2>5. Len(p) = j - i + 1 /\ \A x \in 1 .. j - i + 1 : p[x] = stream[i + x - 1]
    BY <2>4 DEF IsPart
  <2>6. j - i + 1 = n /\ \A x \in 1 .. n : i + x - 1 = sent + x
    BY <1>3, <2>2
  <2>7. p \in Seq(Bytes)
    BY <2>4, BytesAre
  <2> QED BY <2>1, <2>5, <2>6, <2>7
<1>7. /\ IsBlock(mem') /\ len' = len + n /\ len' \in 0 .. Len(mem')
      /\ \A x \in 1 .. len : mem'[x] = mem[x]
      /\ \A x \in 1 .. n : mem'[len + x] = p[x]
      /\ Spare(mem, len) => Spare(mem', len')
  BY <1>2, <1>4, <1>6, WriteInput
<1>8. sent' \in Nat /\ len' <= sent' /\ sent' <= Len(stream) /\ sent' - len' = sent - len
      /\ len' \in Nat /\ len' >= 1 /\ sent' >= 1
  BY <1>1, <1>3, <1>4, <1>7
<1>9. Len(mem') \in Nat
  BY <1>7, LenProperties DEF IsBlock
<1>10. InputType'
  <2>1. piped' \in BOOLEAN /\ big' \in BOOLEAN
    BY <1>3, <1>4
  <2>2. slice' \in 0 .. Len(mem')
    BY <1>4, <1>7
  <2> QED BY <1>1, <1>3, <1>4, <1>7, <1>8, <2>1, <2>2 DEF InputType
<1>11. DataInv'
  <2>1. SUFFICES ASSUME NEW x \in 1 .. len' PROVE mem'[x] = stream[sent' - len' + x]
    BY <1>4 DEF DataInv
  <2>2. CASE x \in 1 .. len
    <3>1. mem[x] = stream[sent - len + x]
      BY <2>2 DEF InputInv, DataInv
    <3> QED BY <1>7, <1>8, <2>2, <3>1
  <2>3. CASE x \notin 1 .. len
    <3>1. PICK y \in 1 .. n : x = len + y
      <4>1. x - len \in 1 .. n /\ x = len + (x - len)
        BY <1>3, <1>7, <2>3
      <4> QED BY <4>1
    <3>2. mem'[x] = stream[sent + y]
      BY <1>6, <1>7, <3>1
    <3>3. sent - len + x = sent + y
      BY <1>3, <3>1
    <3> QED BY <1>8, <3>2, <3>3
  <2> QED BY <2>2, <2>3
<1>12. SpareInv'
  <2>1. SUFFICES ASSUME ~ big' PROVE 2 * len' <= Len(mem') /\ Spare(mem', len')
    BY DEF SpareInv
  <2>2. ~ big /\ ~ (2 * len' > Len(mem'))
    BY <1>3, <1>4, <2>1
  <2>3. 2 * len' <= Len(mem')
    BY <1>8, <1>9, <2>2
  <2>4. Spare(mem, len)
    BY <2>2 DEF InputInv, SpareInv
  <2> QED BY <1>7, <2>3, <2>4
<1>13. Fresh' /\ ~ Receiving' /\ ~ Found' /\ ~ Emptied' /\ ~ Shut'
  BY <1>4, <1>8 DEF Receiving, Fresh, Found, Emptied, Shut
<1>14. ASSUME FramedAll(reqs) PROVE CountInv'
  <2>1. answers <= Good(sent - len)
    BY <1>5, <1>14 DEF InputInv, CountInv
  <2>2. Good(sent - len)' = Good(sent - len)
    BY <1>4, <1>8 DEF Good
  <2> QED BY <1>4, <1>13, <2>1, <2>2 DEF CountInv
<1>15. ASSUME FramedAll(reqs) PROVE TurnInv'
  <2>1. SUFFICES ASSUME ~ piped' PROVE InTurn(answers, sent - len)' /\ Reached'
    BY <1>13 DEF TurnInv
  <2>2. ~ piped /\ ~ (Cardinality(Begun(sent')) > answers + 1)
    BY <1>3, <1>4, <2>1
  <2>3. Turn(reqs, ends, answers, sent - len) /\ Waiting
    BY <1>5, <1>15, <2>2 DEF InputInv, TurnInv, InTurn
  <2>4. InTurn(answers, sent - len)'
    BY <1>4, <1>8, <2>3 DEF InTurn
  <2>5. answers \in 0 .. Len(reqs) /\ sent - len = EndOf(ends, answers)
    BY <2>3 DEF Turn
  <2>6. answers < Len(reqs)
    <3>1. SUFFICES ASSUME answers = Len(reqs) PROVE FALSE
      BY <1>1, <2>5
    <3>2. sent - len = Len(stream)
      BY <1>1, <2>5, <3>1 DEF StreamShape
    <3> QED BY <1>1, <1>3, <1>4, <3>2
  <2>7. PICK g : g = BegunIn(reqs, ends, sent')
    OBVIOUS
  <2>8. Begun(sent') = g
    <3>1. DOMAIN reqs = 1 .. Len(reqs)
      BY <1>1
    <3>2. \A i \in 1 .. Len(reqs) : (i = 1 <=> i - 1 = 0)
      BY <1>1
    <3>3. \A i \in 1 .. Len(reqs) : Before(i) = EndOf(ends, i - 1)
      BY <3>2 DEF Before, EndOf
    <3> QED BY <2>7, <3>1, <3>3 DEF Begun, BegunIn
  <2>9. Cardinality(g) <= answers + 1
    <3>1. IsFiniteSet(1 .. Len(reqs)) /\ g \subseteq 1 .. Len(reqs)
      BY <1>1, <2>7, FS_Interval DEF BegunIn
    <3>2. IsFiniteSet(g)
      BY <3>1, FS_Subset
    <3>3. PICK m \in Nat : m = Cardinality(g)
      BY <3>2, FS_CardinalityType
    <3>4. ~ (m > answers + 1)
      BY <2>2, <2>8, <3>3
    <3>5. m <= answers + 1
      BY <1>3, <3>4
    <3> QED BY <3>3, <3>5
  <2>10. sent' <= EndOf(ends, answers + 1)
    BY <1>1, <1>8, <2>5, <2>6, <2>7, <2>9, BegunAtMost
  <2> QED BY <1>4, <2>4, <2>6, <2>10 DEF Reached
<1>16. ExactInv' /\ HeadInv'
  BY <1>4 DEF ExactInv, HeadInv
<1>17. FramedAll(reqs)' => FramedAll(reqs)
  BY <1>4 DEF FramedAll
<1> QED BY <1>10, <1>11, <1>12, <1>13, <1>14, <1>15, <1>16, <1>17 DEF InputInv, PhaseInv

\* The rounds that are counted.
LEMMA RoundsIs ==
  /\ Min({0 + 1, 3}) = 1 /\ Min({1 + 1, 3}) = 2 /\ Min({2 + 1, 3}) = 3 /\ Min({3 + 1, 3}) = 3
<1>1. ASSUME NEW n \in 0 .. 3
      PROVE  Min({n + 1, 3}) \in {n + 1, 3} /\ Min({n + 1, 3}) <= n + 1 /\ Min({n + 1, 3}) <= 3
  <2>1. PICK S : S = {n + 1, 3}
    OBVIOUS
  <2>2. S \subseteq Nat /\ S # {}
    BY <2>1
  <2>3. Min(S) \in S /\ \A m \in S : Min(S) <= m
    BY <2>2, LeastElement
  <2> QED BY <2>1, <2>3
<1> QED BY <1>1

\* The characters under the codec's Slice.
LEMMA WindowIs ==
  ASSUME InputType
  PROVE  /\ SubSeq(mem, 1, slice) \in Seq(Token) /\ Len(SubSeq(mem, 1, slice)) = slice
         /\ \A x \in 1 .. slice : SubSeq(mem, 1, slice)[x] = mem[x]
         /\ slice \in Nat /\ len \in Nat /\ Len(mem) \in Nat /\ sent - len \in Nat
<1>1. mem \in Seq(Token) /\ Len(mem) \in Nat
  BY BytesAre, LenProperties DEF InputType, IsBlock
<1>2. slice \in Nat /\ slice <= Len(mem) /\ len \in Nat /\ sent - len \in Nat
  BY <1>1 DEF InputType
<1>3. 1 \in 1 .. Len(mem) + 1 /\ slice \in 1 - 1 .. Len(mem)
  BY <1>1, <1>2
<1>4. PICK d : d = SubSeq(mem, 1, slice)
  OBVIOUS
<1>5. d \in Seq(Token) /\ IsPart(d, mem, 1, slice)
  BY <1>1, <1>3, <1>4, PartIs
<1>6. slice - 1 + 1 = slice /\ \A x \in 1 .. slice : 1 + x - 1 = x
  BY <1>2
<1>7. Len(d) = slice /\ \A x \in 1 .. slice : d[x] = mem[x]
  BY <1>5, <1>6 DEF IsPart
<1> QED BY <1>1, <1>2, <1>4, <1>5, <1>7

\* What Decode does to the state, d being what tryDecode returns.
Decodes(d) ==
  /\ d = tryDecode(SubSeq(mem, 1, slice), known) /\ d.ret \in {"more", "ok", "bad"}
  /\ ret' = d.ret /\ known' = d.fields
  /\ answers' = IF (d.ret = "ok" \/ (d.ret = "bad" /\ rounds > 0)) /\ answers < MaxAnswers
                THEN answers + 1 ELSE answers
  /\ state' = IF d.ret = "more" THEN "recv" ELSE "answer"
  /\ mem' = mem /\ len' = len /\ slice' = slice
  /\ reqs' = reqs /\ stream' = stream /\ ends' = ends
  /\ sent' = sent /\ piped' = piped /\ big' = big

\* Decode is Decodes for what tryDecode returns.
LEMMA DecodeDecodes ==
  ASSUME InputInv, Decode
  PROVE  state = "decode" /\ rounds' = Min({rounds + 1, 3}) /\ \E d : Decodes(d)
<1>1. PICK d : d = tryDecode(SubSeq(mem, 1, slice), known)
  OBVIOUS
<1>2. d.ret \in {"more", "ok", "bad"}
  <2>1. SubSeq(mem, 1, slice) \in Seq(Token)
    BY WindowIs DEF InputInv
  <2> QED BY <1>1, <2>1, DecodeResult DEF Result
<1>3. state = "decode" /\ rounds' = Min({rounds + 1, 3}) /\ Decodes(d)
  BY <1>1, <1>2 DEF Decode, Decodes, bufferVars, clientVars
<1> QED BY <1>3

\* The parts that a call of tryDecode leaves alone.
LEMMA DecodeKeeps ==
  ASSUME InputInv, NEW d, Decodes(d)
  PROVE  InputType' /\ DataInv' /\ SpareInv'
<1>1. answers \in Nat
  BY DEF InputInv, InputType
<1>2. answers' \in Nat
  BY <1>1 DEF Decodes
<1>3. InputType'
  BY <1>2 DEF InputInv, InputType, Decodes
<1>4. DataInv' /\ SpareInv'
  BY DEF InputInv, DataInv, SpareInv, Decodes
<1> QED BY <1>3, <1>4

\* The first call of tryDecode after data was received.
LEMMA DecodeFresh ==
  ASSUME InputInv, Fresh, NEW d, Decodes(d), rounds' = 1
  PROVE  InputInv'
<1>1. InputType /\ InputType' /\ DataInv' /\ SpareInv'
  BY DecodeKeeps DEF InputInv
<1>2. /\ StreamShape(reqs, stream, ends) /\ reqs \in Seq(Requests) /\ Len(reqs) \in Nat
      /\ sent \in Nat /\ answers \in Nat /\ sent <= Len(stream) /\ Len(reqs) <= MaxAnswers
      /\ MaxAnswers \in Nat /\ Len(stream) \in Nat
  BY <1>1, InputAssumption DEF InputType, StreamShape
<1>3. rounds = 0 /\ slice = len /\ len >= 1 /\ known = <<>>
  BY DEF Fresh
<1>4. PICK w : w = SubSeq(mem, 1, slice)
  OBVIOUS
<1>5. PICK p \in Nat : p = sent - len
  BY <1>1, WindowIs
<1>6. len \in Nat /\ Len(w) = len /\ w \in Seq(Token) /\ Len(w) >= 1
  BY <1>1, <1>3, <1>4, WindowIs
<1>7. p + Len(w) = sent /\ p <= sent
  BY <1>2, <1>5, <1>6
<1>8. Shows(w, stream, p)
  <2>1. \A x \in 1 .. len : w[x] = stream[p + x]
    BY <1>1, <1>3, <1>4, <1>5, WindowIs DEF InputInv, DataInv
  <2> QED BY <1>2, <1>6, <1>7, <2>1 DEF Shows
<1>9. /\ d = tryDecode(w, <<>>) /\ ret' = d.ret /\ d.ret \in {"more", "ok", "bad"}
      /\ state' = IF d.ret = "more" THEN "recv" ELSE "answer"
      /\ reqs' = reqs /\ stream' = stream /\ ends' = ends /\ len' = len
      /\ sent' = sent /\ piped' = piped /\ big' = big
  BY <1>3, <1>4 DEF Decodes
<1>10. answers' = IF d.ret = "ok" /\ answers < MaxAnswers THEN answers + 1 ELSE answers
  BY <1>3 DEF Decodes
<1>11. PICK old \in Nat, new \in Nat :
         /\ old = Good(p) /\ new = Good(sent) /\ old <= new /\ new <= Len(reqs)
  <2>1. Good(p) \in Nat /\ Good(sent) \in Nat /\ Good(sent) <= Len(reqs)
    BY <1>2, GoodFinite DEF Good
  <2>2. Good(p) <= Good(sent)
    BY <1>2, <1>7, GoodGrows DEF Good
  <2> QED BY <2>1, <2>2
<1>12. FramedAll(reqs) => answers <= old
  BY <1>5, <1>11 DEF InputInv, CountInv
<1>13. ASSUME FramedAll(reqs), d.ret = "ok" PROVE answers' = answers + 1 /\ answers' <= new
  <2>1. PICK i \in 1 .. Len(reqs) :
          Legal(reqs[i]) /\ p < EndOf(ends, i) /\ EndOf(ends, i) <= sent
    BY <1>2, <1>6, <1>7, <1>8, <1>9, <1>13, AcceptedIsLegal
  <2>2. old + 1 <= new
    BY <1>2, <1>7, <1>11, <2>1, GoodOneMore DEF Good
  <2>3. answers < MaxAnswers /\ answers + 1 <= new
    BY <1>2, <1>11, <1>12, <1>13, <2>2
  <2> QED BY <1>10, <1>13, <2>3
<1>14. d.ret # "ok" => answers' = answers
  BY <1>10
<1>15. PhaseInv' /\ ~ Fresh' /\ ~ Emptied' /\ ~ Shut'
       /\ (Receiving' <=> d.ret = "more") /\ (Found' <=> d.ret # "more")
  BY <1>9 DEF PhaseInv, Receiving, Fresh, Found, Emptied, Shut
<1>16. ASSUME FramedAll(reqs) PROVE CountInv'
  <2>1. Good(sent - len)' = Good(p) /\ Good(sent)' = Good(sent)
    BY <1>5, <1>9 DEF Good
  <2>2. CASE d.ret = "more"
    BY <1>11, <1>12, <1>14, <1>15, <1>16, <2>1, <2>2 DEF CountInv
  <2>3. CASE d.ret # "more"
    <3>1. answers' <= new
      BY <1>2, <1>11, <1>12, <1>13, <1>14, <1>16
    <3> QED BY <1>11, <1>15, <2>1, <2>3, <3>1 DEF CountInv
  <2> QED BY <2>2, <2>3
<1>17. ASSUME FramedAll(reqs), ~ piped
       PROVE  /\ Turn(reqs, ends, answers, p) /\ Reached
              /\ BegunIn(reqs, ends, sent) = 1 .. answers + 1
              /\ d.ret = Verdict(reqs[answers + 1], sent - EndOf(ends, answers))
              /\ d.ret = "more" => sent < EndOf(ends, answers + 1)
              /\ d.ret = "ok" => Turn(reqs, ends, answers + 1, sent)
              /\ d.ret = "bad" => ~ Legal(reqs[answers + 1])
  <2>1. Turn(reqs, ends, answers, p) /\ Reached
    BY <1>5, <1>17 DEF InputInv, TurnInv, InTurn
  <2>2. answers < Len(reqs) /\ sent <= EndOf(ends, answers + 1)
    BY <2>1 DEF Reached
  <2>3. PICK v : v = d.ret
    OBVIOUS
  <2>4. v = tryDecode(w, <<>>).ret
    BY <1>9, <2>3
  <2>5. sent = p + Len(w)
    BY <1>7
  <2>6. /\ BegunIn(reqs, ends, sent) = 1 .. answers + 1
        /\ v = Verdict(reqs[answers + 1], sent - EndOf(ends, answers))
        /\ v = "more" => sent < EndOf(ends, answers + 1)
        /\ v = "ok" => Turn(reqs, ends, answers + 1, sent)
        /\ v = "bad" => ~ Legal(reqs[answers + 1])
    <3>1. StreamShape(reqs, stream, ends) /\ FramedAll(reqs) /\ Turn(reqs, ends, answers, p)
      BY <1>2, <1>17, <2>1
    <3>2. answers < Len(reqs) /\ Shows(w, stream, p) /\ Len(w) >= 1
      BY <1>6, <1>8, <2>2
    <3>3. sent = p + Len(w) /\ sent <= EndOf(ends, answers + 1) /\ v = tryDecode(w, <<>>).ret
      BY <2>2, <2>4, <2>5
    <3> QED BY <3>1, <3>2, <3>3, DecodeTurn
  <2> QED BY <2>1, <2>3, <2>6
<1>18. ASSUME FramedAll(reqs) PROVE TurnInv'
  <2>1. SUFFICES ASSUME ~ piped
                 PROVE  /\ d.ret = "more" => InTurn(answers, sent - len)' /\ Waiting'
                        /\ d.ret = "ok" => InTurn(answers, sent)'
                        /\ d.ret = "bad" => Declined'
    BY <1>9, <1>15 DEF TurnInv
  <2>2. ASSUME d.ret = "more" PROVE InTurn(answers, sent - len)' /\ Waiting'
    BY <1>5, <1>9, <1>14, <1>17, <1>18, <2>1, <2>2 DEF InTurn, Waiting
  <2>3. ASSUME d.ret = "ok" PROVE InTurn(answers, sent)'
    BY <1>9, <1>13, <1>17, <1>18, <2>1, <2>3 DEF InTurn
  <2>4. ASSUME d.ret = "bad" PROVE Declined'
    <3>1. answers' = answers
      BY <1>14, <2>4
    <3>2. p = EndOf(ends, answers)
      BY <1>17, <1>18, <2>1 DEF Turn
    <3>3. p < sent
      BY <1>2, <1>6, <1>7
    <3> QED BY <1>9, <1>17, <1>18, <2>1, <2>4, <3>1, <3>2, <3>3 DEF Declined, InTurn, Reached
  <2> QED BY <2>2, <2>3, <2>4
<1>19. ASSUME FramedAll(reqs) PROVE ExactInv'
  <2>1. SUFFICES ASSUME ~ piped
                 PROVE  \E i \in 1 .. Len(reqs) :
                          /\ BegunIn(reqs, ends, sent) = 1 .. i
                          /\ d.ret = Verdict(reqs[i], sent - EndOf(ends, i - 1))
    BY <1>9 DEF ExactInv
  <2>2. PICK i \in 1 .. Len(reqs) : i = answers + 1 /\ i - 1 = answers
    BY <1>2, <1>17, <1>19, <2>1 DEF Reached
  <2> QED BY <1>17, <1>19, <2>1, <2>2
<1>20. HeadInv'
  <2>1. SUFFICES ASSUME NEW i \in 1 .. Len(reqs), p = EndOf(ends, i - 1)
                 PROVE  d.ret = Verdict(reqs[i], len)
    BY <1>5, <1>9 DEF HeadInv
  <2>2. tryDecode(w, <<>>).ret = Verdict(reqs[i], Len(w))
    BY <1>2, <1>8, <2>1, DecodeAtStart
  <2> QED BY <1>6, <1>9, <2>2
<1>21. FramedAll(reqs)' => FramedAll(reqs)
  BY <1>9 DEF FramedAll
<1> QED BY <1>1, <1>15, <1>16, <1>18, <1>19, <1>20, <1>21 DEF InputInv

\* The second call, after the data was removed: what is under the Slice now.
LEMMA DecodeEmptied ==
  ASSUME InputInv, Emptied, NEW d, Decodes(d), rounds' = 2
  PROVE  InputInv'
<1>1. InputType /\ InputType' /\ DataInv' /\ SpareInv'
  BY DecodeKeeps DEF InputInv
<1>2. /\ StreamShape(reqs, stream, ends) /\ sent \in Nat /\ answers \in Nat
      /\ Len(reqs) \in Nat /\ piped \in BOOLEAN /\ big \in BOOLEAN
  BY <1>1 DEF InputType, StreamShape
<1>3. rounds = 1 /\ len = 0 /\ sent - len = sent
  BY <1>2 DEF Emptied
<1>4. PICK w : w = SubSeq(mem, 1, slice)
  OBVIOUS
<1>5. w \in Seq(Token)
  BY <1>1, <1>4, WindowIs
<1>6. /\ d = tryDecode(w, known) /\ ret' = d.ret /\ d.ret \in {"more", "ok", "bad"}
      /\ known' = d.fields /\ state' = IF d.ret = "more" THEN "recv" ELSE "answer"
      /\ reqs' = reqs /\ stream' = stream /\ ends' = ends /\ len' = len /\ mem' = mem
      /\ slice' = slice /\ sent' = sent /\ piped' = piped /\ big' = big
  BY <1>4 DEF Decodes
<1>7. d.ret = "more" => answers' = answers
  BY DEF Decodes
<1>8. ~ big => d.ret = "more"
  <2>1. SUFFICES ASSUME ~ big PROVE d.ret = "more"
    OBVIOUS
  <2>2. Spare(mem, len)
    BY <2>1 DEF InputInv, SpareInv
  <2>3. \A x \in 1 .. slice : x \in len + 1 .. Len(mem)
    BY <1>1, <1>3, WindowIs DEF InputType
  <2>4. \A x \in 1 .. Len(w) : w[x] = NUL
    BY <1>1, <1>4, <2>2, <2>3, WindowIs, BytesAre DEF Spare
  <2>5. d = [ret |-> "more", fields |-> known]
    BY <1>5, <1>6, <2>4, DecodeNul
  <2> QED BY <2>5
<1>9. CASE d.ret = "more"
  <2>1. Receiving' /\ ~ Fresh' /\ ~ Found' /\ ~ Emptied' /\ ~ Shut'
    BY <1>6, <1>9 DEF Receiving, Fresh, Found, Emptied, Shut
  <2>2. ASSUME FramedAll(reqs) PROVE CountInv'
    <3>1. answers <= Good(sent)
      BY <2>2 DEF InputInv, CountInv
    <3>2. Good(sent - len)' = Good(sent)
      BY <1>3, <1>6 DEF Good
    <3> QED BY <1>7, <1>9, <2>1, <3>1, <3>2 DEF CountInv
  <2>3. ASSUME FramedAll(reqs) PROVE TurnInv'
    <3>1. SUFFICES ASSUME ~ piped PROVE InTurn(answers, sent - len)' /\ Waiting'
      BY <1>6, <2>1 DEF TurnInv
    <3>2. Turn(reqs, ends, answers, sent)
      BY <2>3, <3>1 DEF InputInv, TurnInv, InTurn
    <3>3. answers \in 0 .. Len(reqs) /\ sent = EndOf(ends, answers)
      BY <3>2 DEF Turn
    <3>4. ASSUME answers < Len(reqs) PROVE sent < EndOf(ends, answers + 1)
      <4>1. PICK i \in 0 .. Len(reqs) : i = answers + 1 /\ answers < i
        BY <1>2, <3>4
      <4>2. EndOf(ends, answers) < EndOf(ends, i)
        BY <1>2, <3>3, <4>1, EndsMonotone
      <4> QED BY <3>3, <4>1, <4>2
    <3> QED BY <1>3, <1>6, <1>7, <1>9, <3>2, <3>4 DEF InTurn, Waiting
  <2>4. ExactInv' /\ HeadInv'
    BY DEF ExactInv, HeadInv
  <2>5. FramedAll(reqs)' => FramedAll(reqs)
    BY <1>6 DEF FramedAll
  <2> QED BY <1>1, <2>1, <2>2, <2>3, <2>4, <2>5 DEF InputInv, PhaseInv
<1>10. CASE d.ret # "more"
  <2>1. ~ Receiving' /\ ~ Fresh' /\ ~ Found' /\ ~ Emptied' /\ ~ Shut'
    BY <1>6, <1>10 DEF Receiving, Fresh, Found, Emptied, Shut
  <2>2. big' /\ state' = "answer"
    BY <1>6, <1>8, <1>10
  <2>3. ASSUME d.ret = "ok" PROVE PhaseInv'
    <3>1. tryDecode(w, d.fields) = d
      BY <1>5, <1>6, <2>3, DecodeAgain
    <3>2. d = [ret |-> "ok", fields |-> d.fields]
      <4>1. Result(d)
        BY <1>5, <1>6, DecodeResult
      <4> QED BY <2>3, <4>1 DEF Result
    <3>3. tryDecode(SubSeq(mem, 1, slice), known)' = [ret |-> "ok", fields |-> known']
      BY <1>4, <1>6, <3>1, <3>2
    <3> QED BY <1>3, <1>6, <2>2, <2>3, <3>3 DEF Looping, PhaseInv
  <2>4. ASSUME d.ret = "bad" PROVE PhaseInv'
    BY <1>6, <2>2, <2>4 DEF Lost, PhaseInv
  <2>5. PhaseInv'
    BY <1>6, <1>10, <2>3, <2>4
  <2>6. CountInv' /\ TurnInv' /\ ExactInv' /\ HeadInv'
    BY <2>1 DEF CountInv, TurnInv, ExactInv, HeadInv
  <2> QED BY <1>1, <2>5, <2>6 DEF InputInv
<1> QED BY <1>9, <1>10

\* A later call finds what the one before it found.
LEMMA DecodeLooping ==
  ASSUME InputInv, Looping, NEW d, Decodes(d), rounds' = 3
  PROVE  InputInv'
<1>1. InputType' /\ DataInv' /\ SpareInv'
  BY DecodeKeeps
<1>2. d = [ret |-> "ok", fields |-> known]
  BY DEF Looping, Decodes
<1>3. d.ret = "ok" /\ d.fields = known
  BY <1>2
<1>4. /\ ret' = "ok" /\ known' = known /\ state' = "answer" /\ mem' = mem /\ len' = len
      /\ slice' = slice /\ big' = big
  BY <1>3 DEF Decodes
<1>5. Looping'
  BY <1>4 DEF Looping
<1>6. ~ Receiving' /\ ~ Fresh' /\ ~ Found' /\ ~ Emptied' /\ ~ Shut'
  BY <1>4 DEF Receiving, Fresh, Found, Emptied, Shut
<1>7. CountInv' /\ TurnInv' /\ ExactInv' /\ HeadInv'
  BY <1>6 DEF CountInv, TurnInv, ExactInv, HeadInv
<1> QED BY <1>1, <1>5, <1>7 DEF InputInv, PhaseInv

\* The calls of tryDecode, by the phase they are made in.
LEMMA DecodeInv ==
  ASSUME InputInv, Decode
  PROVE  InputInv'
<1>1. state = "decode" /\ rounds' = Min({rounds + 1, 3}) /\ \E d : Decodes(d)
  BY DecodeDecodes
<1>2. PICK d : Decodes(d)
  BY <1>1
<1>3. Fresh \/ Emptied \/ Looping
  BY <1>1 DEF InputInv, PhaseInv, Receiving, Found, Shut, Lost
<1>4. CASE Fresh
  <2>1. rounds' = 1
    BY <1>1, <1>4, RoundsIs DEF Fresh
  <2> QED BY <1>2, <1>4, <2>1, DecodeFresh
<1>5. CASE Emptied
  <2>1. rounds' = 2
    BY <1>1, <1>5, RoundsIs DEF Emptied
  <2> QED BY <1>2, <1>5, <2>1, DecodeEmptied
<1>6. CASE Looping
  <2>1. rounds = 2 \/ rounds = 3
    BY <1>6 DEF Looping
  <2>2. rounds' = 3
    BY <1>1, <2>1, RoundsIs
  <2> QED BY <1>2, <1>6, <2>2, DecodeLooping
<1> QED BY <1>3, <1>4, <1>5, <1>6

\* After send.
LEMMA AnswerInv ==
  ASSUME InputInv, Answer
  PROVE  InputInv'
<1>1. /\ state = "answer" /\ remove(len) /\ state' = IF ret = "bad" THEN "closed" ELSE "decode"
      /\ reqs' = reqs /\ stream' = stream /\ ends' = ends /\ sent' = sent /\ piped' = piped
      /\ big' = big /\ slice' = slice /\ known' = known /\ ret' = ret /\ rounds' = rounds
      /\ answers' = answers
  BY DEF Answer, clientVars
<1>2. InputType /\ IsBlock(mem) /\ len \in 0 .. Len(mem) /\ sent \in Nat
  BY DEF InputInv, InputType
<1>3. Len(mem) \in Nat /\ len \in Nat
  BY <1>2, WindowIs
<1>4. /\ IsBlock(mem') /\ len' = 0 /\ Len(mem') = Len(mem)
      /\ \A x \in 1 .. Len(mem) :
           mem'[x] = IF x + len <= Len(mem) THEN mem[x + len] ELSE mem[x]
  BY <1>1, <1>2, RemoveInput
<1>5. InputType'
  <2>1. len' \in 0 .. Len(mem') /\ len' <= sent'
    BY <1>1, <1>2, <1>3, <1>4
  <2> QED BY <1>1, <1>2, <1>4, <2>1 DEF InputType
<1>6. DataInv'
  BY <1>4 DEF DataInv
<1>7. SpareInv'
  <2>1. SUFFICES ASSUME ~ big, NEW x \in 1 .. Len(mem) PROVE mem'[x] = Nul
    <3>1. 2 * len' <= Len(mem') /\ len' + 1 = 1
      BY <1>3, <1>4
    <3> QED BY <1>1, <1>4, <3>1 DEF SpareInv, Spare
  <2>2. 2 * len <= Len(mem) /\ Spare(mem, len)
    BY <2>1 DEF InputInv, SpareInv
  <2>3. CASE x + len <= Len(mem)
    <3>1. x + len \in len + 1 .. Len(mem)
      BY <1>3, <2>3
    <3>2. mem[x + len] = Nul
      BY <2>2, <3>1 DEF Spare
    <3> QED BY <1>4, <2>3, <3>2
  <2>4. CASE ~ (x + len <= Len(mem))
    <3>1. x \in len + 1 .. Len(mem)
      BY <1>3, <2>2, <2>4
    <3>2. mem[x] = Nul
      BY <2>2, <3>1 DEF Spare
    <3> QED BY <1>4, <2>4, <3>2
  <2> QED BY <2>3, <2>4
<1>h. HeadInv' /\ (FramedAll(reqs)' => FramedAll(reqs))
  BY <1>1, <1>4 DEF HeadInv, FramedAll
<1>8. Found \/ Looping \/ Lost
  BY <1>1 DEF InputInv, PhaseInv, Receiving, Fresh, Emptied, Shut
<1>9. CASE Found /\ ret = "ok"
  <2>1. Emptied' /\ ~ Receiving' /\ ~ Fresh' /\ ~ Found' /\ ~ Shut'
    BY <1>1, <1>4, <1>9 DEF Receiving, Fresh, Found, Emptied, Shut
  <2>2. FramedAll(reqs) => CountInv'
    BY <1>1, <1>9, <2>1 DEF InputInv, CountInv, Good
  <2>3. FramedAll(reqs) => TurnInv'
    BY <1>1, <1>9, <2>1 DEF InputInv, TurnInv, InTurn
  <2>4. ExactInv'
    BY <1>1, <1>9 DEF ExactInv
  <2> QED BY <1>5, <1>6, <1>7, <1>h, <2>1, <2>2, <2>3, <2>4 DEF InputInv, PhaseInv
<1>10. CASE Found /\ ret = "bad"
  <2>1. Shut' /\ ~ Receiving' /\ ~ Fresh' /\ ~ Found' /\ ~ Emptied'
    BY <1>1, <1>4, <1>10 DEF Receiving, Fresh, Found, Emptied, Shut
  <2>2. FramedAll(reqs) => CountInv'
    BY <1>1, <1>10, <2>1 DEF InputInv, CountInv, Good
  <2>3. FramedAll(reqs) => TurnInv'
    BY <1>1, <1>10, <2>1 DEF InputInv, TurnInv, Declined, Reached, InTurn
  <2>4. FramedAll(reqs) => ExactInv'
    BY <1>1, <1>10 DEF InputInv, ExactInv
  <2> QED BY <1>5, <1>6, <1>7, <1>h, <2>1, <2>2, <2>3, <2>4 DEF InputInv, PhaseInv
<1>11. CASE Looping
  <2>1. mem' = mem
    <3>1. len = 0
      BY <1>11 DEF Looping
    <3>2. \A x \in 1 .. Len(mem) : mem'[x] = mem[x]
      BY <1>3, <1>4, <3>1
    <3>3. mem \in Seq(Byte) /\ mem' \in Seq(Byte)
      BY <1>2, <1>4 DEF IsBlock
    <3> QED BY <1>4, <3>2, <3>3, SeqEqual
  <2>2. Looping'
    BY <1>1, <1>4, <1>11, <2>1 DEF Looping
  <2>3. ~ Receiving' /\ ~ Fresh' /\ ~ Found' /\ ~ Emptied' /\ ~ Shut'
    BY <1>1, <1>11, <2>2 DEF Receiving, Fresh, Found, Emptied, Shut, Looping
  <2>4. CountInv' /\ TurnInv' /\ ExactInv'
    BY <1>1, <1>11, <2>3 DEF CountInv, TurnInv, ExactInv, Looping
  <2> QED BY <1>5, <1>6, <1>7, <1>h, <2>2, <2>4 DEF InputInv, PhaseInv
<1>12. CASE Lost
  <2>1. Lost'
    BY <1>1, <1>12 DEF Lost
  <2>2. ~ Receiving' /\ ~ Fresh' /\ ~ Found' /\ ~ Emptied' /\ ~ Shut'
    BY <2>1 DEF Receiving, Fresh, Found, Emptied, Shut, Lost
  <2>3. CountInv' /\ TurnInv' /\ ExactInv'
    BY <2>1, <2>2 DEF CountInv, TurnInv, ExactInv, Lost
  <2> QED BY <1>5, <1>6, <1>7, <1>h, <2>1, <2>3 DEF InputInv, PhaseInv
<1> QED BY <1>8, <1>9, <1>10, <1>11, <1>12 DEF Found

\* Nothing happens.
LEMMA InputStutter ==
  ASSUME InputInv, UNCHANGED inputVars
  PROVE  InputInv'
<1>1. /\ mem' = mem /\ len' = len /\ reqs' = reqs /\ stream' = stream /\ ends' = ends
      /\ sent' = sent /\ piped' = piped /\ big' = big /\ state' = state /\ slice' = slice
      /\ known' = known /\ ret' = ret /\ rounds' = rounds /\ answers' = answers
  BY DEF inputVars, bufferVars, clientVars, codecVars
<1>2. InputType' /\ DataInv' /\ SpareInv'
  BY <1>1 DEF InputInv, InputType, DataInv, SpareInv
<1>3. /\ Receiving' <=> Receiving
      /\ Fresh' <=> Fresh
      /\ Found' <=> Found
      /\ Emptied' <=> Emptied
      /\ Shut' <=> Shut
      /\ Looping' <=> Looping
      /\ Lost' <=> Lost
  BY <1>1 DEF Receiving, Fresh, Found, Emptied, Shut, Looping, Lost
<1>4. PhaseInv'
  BY <1>3 DEF InputInv, PhaseInv
<1>5. FramedAll(reqs) => CountInv'
  BY <1>1, <1>3 DEF InputInv, CountInv, Good
<1>6. FramedAll(reqs) => TurnInv'
  BY <1>1, <1>3 DEF InputInv, TurnInv, Waiting, Declined, Reached, InTurn
<1>7. FramedAll(reqs) => ExactInv'
  BY <1>1 DEF InputInv, ExactInv
<1>8. HeadInv' /\ (FramedAll(reqs)' => FramedAll(reqs))
  BY <1>1 DEF InputInv, HeadInv, FramedAll
<1> QED BY <1>2, <1>4, <1>5, <1>6, <1>7, <1>8 DEF InputInv

\* All steps.
LEMMA InputNextInv ==
  ASSUME InputInv, [InputNext]_inputVars
  PROVE  InputInv'
<1>1. CASE \E n \in 1 .. Len(stream) : Receive(n)
  BY <1>1, ReceiveInv
<1>2. CASE Decode
  BY <1>2, DecodeInv
<1>3. CASE Answer
  BY <1>3, AnswerInv
<1>4. CASE Over
  BY <1>4, InputStutter DEF Over
<1>5. CASE UNCHANGED inputVars
  BY <1>5, InputStutter
<1> QED BY <1>1, <1>2, <1>3, <1>4, <1>5 DEF InputNext

-----------------------------------------------------------------------------
(* Theorems *)

\* HttpServer::handleRecv and notifyPackageReceived keep the state that InputInv
\* describes, for any requests of ordinary field lines and any bodies, any way recv
\* cuts them and any block size.
THEOREM InputInvariant == InputSpec => []InputInv
<1>1. InputInit => InputInv
  BY InputInitInv
<1>2. InputInv /\ [InputNext]_inputVars => InputInv'
  BY InputNextInv
<1> QED BY <1>1, <1>2, PTL DEF InputSpec

\* The first HttpCodec::tryDecode of a notification gives the request that m_inBuf
\* begins with the verdict of its head, and of the length that its lower-case
\* content-length line announces, however recv cut it, whatever its body is and
\* whatever follows it.  Where that length is the one of the body, as it is not for
\* a body under Content-Length, m_inBuf always begins with the request sent last.
THEOREM DecodeCorrect == InputSpec => []DecodeExact
<1>1. InputInv => DecodeExact
  BY InvDecodeExact
<1> QED BY <1>1, InputInvariant, PTL

\* While the data never fills more than half of its block, notifyPackageReceived goes
\* round its loop twice at most, whatever arrives, and sends one response for each
\* accepted request of a client whose requests end where the server thinks they do.
THEOREM AnsweredCorrect == InputSpec => []AnsweredOnce
<1>1. InputInv => AnsweredOnce
  BY InvAnsweredOnce
<1> QED BY <1>1, InputInvariant, PTL
=============================================================================
