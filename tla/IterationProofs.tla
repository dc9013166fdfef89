-------------------------- MODULE IterationProofs --------------------------
(***************************************************************************)
(* Iterating a container and measuring it, for every text and every path.  *)
(* The scan that counts has its own idea of where a part ends: it closes   *)
(* brackets of both kinds against a stack, takes a scalar up to the next   *)
(* comma and never looks for a colon inside a part.  Wherever it goes on,  *)
(* it has ended the part where getType ends it.                            *)
(***************************************************************************)
EXTENDS IterateLength, LookupProofs

---------------------------------------------------------------------------
\* Whitespace in front makes no difference to the next token or value.
LEMMA BehindBlanks ==
  ASSUME NEW d, NEW i \in Nat \ {0}, NEW j \in Nat, i =< j, NEW hi \in Nat,
         Blanks(d, i, j)
  PROVE  /\ NextToken(d, i, hi) = NextToken(d, j, hi)
         /\ ClosestValue(d, i, hi) = ClosestValue(d, j, hi)
<1> DEFINE S == {p \in i .. hi - 1 : d[p] \notin Blank}
           T == {p \in j .. hi - 1 : d[p] \notin Blank}
<1>1. ASSUME NEW p PROVE p \in S <=> p \in T
  BY DEF Blanks
<1>2. S = T
  <2> HIDE DEF S, T
  <2> QED BY <1>1
<1>3. NextToken(d, i, hi) = NextToken(d, j, hi)
  BY <1>2 DEF NextToken
<1> QED BY <1>3 DEF ClosestValue

\* A value that was read ends behind the byte it begins at.
LEMMA SoundValueEnds ==
  ASSUME NEW d, NEW i \in Nat \ {0}, NEW hi \in Nat,
         ClosestValue(d, i, hi).err = "none"
  PROVE  /\ NextToken(d, i, hi) # None
         /\ NextToken(d, i, hi) \in i .. hi - 1
         /\ ClosestValue(d, i, hi).end \in NextToken(d, i, hi) + 1 .. hi
<1> DEFINE v == ClosestValue(d, i, hi)
           q == NextToken(d, i, hi)
<1>1. \/ v = Failed("NotExist", None, "MalformedJson")
      \/ q \in i .. hi - 1 /\ ReadInWindow(v, q, hi)
  BY ClosestValueRange
<1>2. v.err = "none"
  OBVIOUS
<1> HIDE DEF v, q
<1>3. q \in i .. hi - 1 /\ ReadInWindow(v, q, hi)
  BY <1>1, <1>2 DEF Failed
<1>4. q # None /\ v.end \in q + 1 .. hi
  BY <1>2, <1>3 DEF ReadInWindow, None
<1> QED BY <1>3, <1>4 DEF v, q

---------------------------------------------------------------------------
\* Whether the backslashes before a byte are even in number.
LEMMA EvenRunStart ==
  ASSUME NEW d, NEW i \in Nat
  PROVE  EvenRun(d, i, i)
<1>1. i \in i .. i /\ (\A j \in i .. i - 1 : d[j] = Backslash) /\ (i - i) % 2 = 0
  OBVIOUS
<1> QED BY <1>1 DEF EvenRun

\* One byte further on.
LEMMA EvenRunNext ==
  ASSUME NEW d, NEW i \in Nat, NEW p \in Nat, i =< p
  PROVE  EvenRun(d, i, p + 1) <=> (d[p] # Backslash \/ ~EvenRun(d, i, p))
<1> DEFINE Run(k, q) == /\ k \in i .. q
                        /\ \A j \in k .. q - 1 : d[j] = Backslash
                        /\ k > i => d[k - 1] # Backslash
<1>1. \A q \in Nat : EvenRun(d, i, q) <=> \E k \in i .. q : Run(k, q) /\ (q - k) % 2 = 0
  BY DEF EvenRun
<1>2. CASE d[p] # Backslash
  <2>1. Run(p + 1, p + 1) /\ (p + 1 - (p + 1)) % 2 = 0 /\ p + 1 \in i .. p + 1
    BY <1>2
  <2> HIDE DEF Run
  <2>2. p + 1 \in Nat
    OBVIOUS
  <2> QED BY <1>1, <1>2, <2>1, <2>2
<1>3. CASE d[p] = Backslash
  <2>1. ASSUME NEW k \in i .. p PROVE Run(k, p) <=> Run(k, p + 1)
    <3>1. \A j \in k .. p : j \in k .. p - 1 \/ j = p
      OBVIOUS
    <3> QED BY <1>3, <3>1
  <2>2. ~Run(p + 1, p + 1)
    BY <1>3
  <2>3. ASSUME NEW k \in Nat, NEW l \in Nat, Run(k, p), Run(l, p) PROVE k = l
    <3>1. ASSUME NEW x \in Nat, NEW y \in Nat, Run(x, p), Run(y, p), x < y PROVE FALSE
      <4>1. y - 1 \in x .. p - 1 /\ y > i
        BY <3>1
      <4> QED BY <3>1, <4>1
    <3>2. k < l \/ l < k \/ k = l
      OBVIOUS
    <3> HIDE DEF Run
    <3> QED BY <2>3, <3>1, <3>2
  <2>4. \E k \in i .. p : Run(k, p)
    <3> DEFINE T == {k \in Nat : k =< p - i =>
                       \/ \E l \in i .. p : Run(l, p)
                       \/ \A j \in p - k .. p - 1 : d[j] = Backslash}
    <3>1. 0 \in T
      OBVIOUS
    <3>2. ASSUME NEW k \in Nat, k \in T PROVE k + 1 \in T
      <4>1. CASE k + 1 > p - i
        BY <4>1
      <4>2. CASE k + 1 =< p - i
        <5>1. \/ \E l \in i .. p : Run(l, p)
              \/ \A j \in p - k .. p - 1 : d[j] = Backslash
          BY <3>2, <4>2
        <5>2. ASSUME \A j \in p - k .. p - 1 : d[j] = Backslash,
                     d[p - k - 1] # Backslash
              PROVE  Run(p - k, p) /\ p - k \in i .. p
          BY <4>2, <5>2
        <5>3. ASSUME \A j \in p - k .. p - 1 : d[j] = Backslash,
                     d[p - k - 1] = Backslash
              PROVE  \A j \in p - (k + 1) .. p - 1 : d[j] = Backslash
          <6>1. \A j \in p - (k + 1) .. p - 1 : j = p - k - 1 \/ j \in p - k .. p - 1
            BY <4>2
          <6> QED BY <5>3, <6>1
        <5> HIDE DEF Run
        <5> QED BY <5>1, <5>2, <5>3
      <4> QED BY <4>1, <4>2
    <3>3. p - i \in T
      <4> HIDE DEF T
      <4>1. Nat \subseteq T
        BY <3>1, <3>2, NatSetInduction
      <4> QED BY <4>1
    <3>4. Run(i, p) \/ \E l \in i .. p : Run(l, p)
      BY <3>3
    <3> QED BY <3>4
  <2>5. PICK k \in i .. p : Run(k, p)
    BY <2>4
  <2>6. \A l \in i .. p : Run(l, p) => l = k
    <3>1. \A l \in i .. p : l \in Nat
      OBVIOUS
    <3> HIDE DEF Run
    <3> QED BY <2>3, <2>5, <3>1
  <2>7. EvenRun(d, i, p) <=> (p - k) % 2 = 0
    <3> HIDE DEF Run
    <3> QED BY <1>1, <2>5, <2>6
  <2>8. EvenRun(d, i, p + 1) <=> (p + 1 - k) % 2 = 0
    <3>1. \A l \in i .. p + 1 : l = p + 1 \/ l \in i .. p
      OBVIOUS
    <3>2. p + 1 \in Nat /\ k \in i .. p + 1
      OBVIOUS
    <3>3. EvenRun(d, i, p + 1)
            <=> \E l \in i .. p + 1 : Run(l, p + 1) /\ (p + 1 - l) % 2 = 0
      BY <1>1, <3>2
    <3> HIDE DEF Run
    <3>4. \A l \in i .. p + 1 : Run(l, p + 1) => l = k
      BY <2>1, <2>2, <2>6, <3>1
    <3>5. Run(k, p + 1)
      BY <2>1, <2>5
    <3> QED BY <3>2, <3>3, <3>4, <3>5
  <2>9. (p + 1 - k) % 2 = 0 <=> ~((p - k) % 2 = 0)
    <3>1. p - k \in Nat
      OBVIOUS
    <3> DEFINE n == p - k
    <3>2. n \in Nat /\ p + 1 - k = n + 1
      OBVIOUS
    <3> HIDE DEF n
    <3>3. (n + 1) % 2 = 0 <=> ~(n % 2 = 0)
      BY <3>2
    <3> QED BY <3>2, <3>3 DEF n
  <2> QED BY <1>3, <2>7, <2>8, <2>9
<1> QED BY <1>2, <1>3

---------------------------------------------------------------------------
\* Inside a string that a quote has opened.
Within(escaped) == [quote |-> Quote, escaped |-> escaped]

\* What a byte does to the modes of blockEnd that a double quote can lead to.
LEMMA ReadingQuoted ==
  ASSUME NEW c
  PROVE  /\ Reading(Quote)[Outside] = Within(FALSE)
         /\ Reading(c)[Within(TRUE)] = Within(FALSE)
         /\ Reading(Quote)[Within(FALSE)] = Outside
         /\ c # Quote => Reading(c)[Within(FALSE)] = Within(c = Backslash)
         /\ c \notin Quotes => Reading(c)[Outside] = Outside
<1>1. Quote \in Quotes /\ Quote # NoQuote /\ Quote # Backslash
  BY DEF Quotes, Quote, NoQuote, Backslash
<1>2. Outside \in Modes /\ \A b \in BOOLEAN : Within(b) \in Modes
  BY <1>1 DEF Modes, Within
<1>3. \A b \in BOOLEAN : Within(b) # Outside /\ Within(b).escaped = b
                         /\ Within(b).quote = Quote
  BY <1>1 DEF Within, Outside
<1>4. \A x, b \in BOOLEAN : [Within(x) EXCEPT !.escaped = b] = Within(b)
  BY DEF Within
<1>5. (c = Backslash) \in BOOLEAN
  OBVIOUS
<1> DEFINE Moves(x, m) ==
       CASE m = Outside  -> IF x \in Quotes
                            THEN [quote |-> x, escaped |-> FALSE] ELSE m
         [] m.escaped    -> [m EXCEPT !.escaped = FALSE]
         [] OTHER        -> IF x = m.quote THEN Outside
                            ELSE [m EXCEPT !.escaped = (x = Backslash)]
<1>6. \A x : \A m \in Modes : Reading(x)[m] = Moves(x, m)
  BY DEF Reading
<1>12. Outside.escaped = FALSE
  BY DEF Outside
<1>7. Moves(Quote, Outside) = Within(FALSE)
  BY <1>1, <1>12 DEF Within
<1>8. Moves(c, Within(TRUE)) = Within(FALSE)
  BY <1>3, <1>4
<1>9. Moves(Quote, Within(FALSE)) = Outside
  BY <1>3
<1>10. c # Quote => Moves(c, Within(FALSE)) = Within(c = Backslash)
  BY <1>3, <1>4, <1>5
<1>11. c \notin Quotes => Moves(c, Outside) = Outside
  BY <1>12
<1> HIDE DEF Moves
<1> QED BY <1>2, <1>6, <1>7, <1>8, <1>9, <1>10, <1>11

\* A string that stringEnd closes is one that blockEnd leaves behind the same
\* quote, and nothing in it counts.
LEMMA StringModes ==
  ASSUME NEW d, NEW i \in Nat, NEW h \in Nat, NEW m, ReadsModes(m, d, i, h),
         NEW q \in i .. h - 1, m[q] = Outside, d[q] = Quote,
         NEW e, e = StringEnd(d, q + 1, h, Quote), e # None
  PROVE  /\ e \in q + 1 .. h - 1
         /\ \A x \in q + 1 .. e : m[x] # Outside
         /\ m[e + 1] = Outside
<1> DEFINE S == {p \in q + 1 .. h - 1 : d[p] = Quote /\ EvenRun(d, q + 1, p)}
<1>1. q \in Nat /\ q + 1 \in Nat \ {0} /\ i =< q /\ q < h
  OBVIOUS
<1>2. e \in q + 1 .. h - 1
  BY <1>1, StringEndRange
<1>3. e = First(S) /\ S \in SUBSET Nat
  BY <1>1 DEF StringEnd
<1>4. e \in S /\ \A r \in S : e =< r
  <2>1. S # {}
    BY <1>3 DEF First
  <2> HIDE DEF S
  <2> QED BY <1>3, <2>1, FirstIsLeast
<1>5. \A p \in i .. h : m[p] = IF p = i THEN Outside ELSE Reading(d[p - 1])[m[p - 1]]
  BY DEF ReadsModes
<1>6. \A p \in q .. h - 1 : m[p + 1] = Reading(d[p])[m[p]]
  <2> SUFFICES ASSUME NEW p \in q .. h - 1 PROVE m[p + 1] = Reading(d[p])[m[p]]
    OBVIOUS
  <2>1. p + 1 \in i .. h /\ p + 1 # i /\ (p + 1) - 1 = p
    BY <1>1
  <2> QED BY <1>5, <2>1
<1> DEFINE Fits(x) == /\ EvenRun(d, q + 1, x) => m[x] = Within(FALSE)
                      /\ ~EvenRun(d, q + 1, x) => m[x] = Within(TRUE)
           T == {k \in Nat : q + 1 + k =< e => Fits(q + 1 + k)}
<1>7. 0 \in T
  <2>1. m[q + 1] = Within(FALSE)
    <3>1. q \in q .. h - 1
      BY <1>1
    <3>2. m[q + 1] = Reading(d[q])[m[q]]
      BY <1>6, <3>1
    <3> QED BY <3>2, ReadingQuoted
  <2>2. EvenRun(d, q + 1, q + 1)
    BY <1>1, EvenRunStart
  <2>3. q + 1 + 0 = q + 1
    BY <1>1
  <2> QED BY <2>1, <2>2, <2>3
<1>8. ASSUME NEW k \in Nat, k \in T PROVE k + 1 \in T
  <2> DEFINE x == q + 1 + k
  <2> SUFFICES ASSUME x + 1 =< e PROVE Fits(x + 1)
    <3>1. q + 1 + (k + 1) = x + 1
      BY <1>1
    <3> HIDE DEF Fits
    <3> QED BY <3>1
  <2>1. x \in Nat /\ q + 1 =< x /\ x \in q .. h - 1 /\ x < e /\ x \in q + 1 .. h - 1
    BY <1>1, <1>2
  <2>2. Fits(x)
    <3>1. x =< e
      <4> HIDE DEF x
      <4> QED BY <1>2, <2>1
    <3> HIDE DEF Fits
    <3> QED BY <1>8, <3>1
  <2>3. m[x + 1] = Reading(d[x])[m[x]]
    BY <1>6, <2>1
  <2>4. EvenRun(d, q + 1, x + 1) <=> (d[x] # Backslash \/ ~EvenRun(d, q + 1, x))
    <3> HIDE DEF x
    <3> QED BY <1>1, <2>1, EvenRunNext
  <2>5. ~(d[x] = Quote /\ EvenRun(d, q + 1, x))
    <3> HIDE DEF x
    <3>1. ~(e =< x)
      BY <1>2, <2>1
    <3>2. x \notin S
      BY <1>4, <3>1
    <3> QED BY <2>1, <3>2
  <2> HIDE DEF x
  <2>6. CASE EvenRun(d, q + 1, x)
    <3>1. m[x + 1] = Within(d[x] = Backslash)
      BY <2>2, <2>3, <2>5, <2>6, ReadingQuoted
    <3>2. CASE d[x] = Backslash
      <4>1. (d[x] = Backslash) = TRUE
        BY <3>2
      <4> QED BY <2>4, <2>6, <3>1, <3>2, <4>1
    <3>3. CASE d[x] # Backslash
      <4>1. (d[x] = Backslash) = FALSE
        BY <3>3
      <4> QED BY <2>4, <2>6, <3>1, <3>3, <4>1
    <3> QED BY <3>2, <3>3
  <2>7. CASE ~EvenRun(d, q + 1, x)
    <3>1. m[x + 1] = Within(FALSE)
      BY <2>2, <2>3, <2>7, ReadingQuoted
    <3> QED BY <2>4, <2>7, <3>1
  <2> QED BY <2>6, <2>7
<1>9. \A k \in Nat : k \in T
  <2> HIDE DEF T
  <2> QED BY <1>7, <1>8, NatSetInduction
<1>10. ASSUME NEW x \in q + 1 .. e PROVE Fits(x)
  <2>1. x - (q + 1) \in Nat /\ q + 1 + (x - (q + 1)) = x /\ x =< e
    BY <1>1, <1>2
  <2>2. x - (q + 1) \in T
    <3> HIDE DEF T
    <3> QED BY <1>9, <2>1
  <2> HIDE DEF Fits
  <2> QED BY <2>1, <2>2
<1>11. \A b : Within(b) # Outside
  BY DEF Within, Outside, Quote, NoQuote
<1>12. m[e + 1] = Outside
  <2>1. d[e] = Quote /\ EvenRun(d, q + 1, e)
    BY <1>4
  <2>2. m[e] = Within(FALSE)
    <3>1. e \in q + 1 .. e
      BY <1>1, <1>2
    <3> QED BY <1>10, <2>1, <3>1
  <2>3. e \in q .. h - 1
    BY <1>1, <1>2
  <2>4. m[e + 1] = Reading(d[e])[m[e]]
    BY <1>6, <2>3
  <2> QED BY <2>1, <2>2, <2>4, ReadingQuoted
<1>13. \A x \in q + 1 .. e : m[x] # Outside
  BY <1>10, <1>11
<1> HIDE DEF S
<1> QED BY <1>2, <1>12, <1>13

---------------------------------------------------------------------------
\* The brackets a stack of open blocks waits for.
Closers == {"]", "}"}

\* Nor in a string, its quotes included.
LEMMA TallyOverString ==
  ASSUME NEW d, NEW i \in Nat, NEW h, NEW symbol, symbol # Quote,
         NEW q \in Nat, i =< q, d[q] = Quote, NEW e \in Nat, q =< e,
         \A x \in q + 1 .. e : ModesOf(d, i, h)[x] # Outside
  PROVE  Tally(d, i, h, symbol, e) = Tally(d, i, h, symbol, q - 1)
<1>1. ASSUME NEW r
      PROVE  r \in Seen(d, i, h, symbol, e) <=> r \in Seen(d, i, h, symbol, q - 1)
  <2>1. r \in i .. e <=> (r \in i .. q - 1 \/ r = q \/ r \in q + 1 .. e)
    OBVIOUS
  <2> QED BY <2>1 DEF Seen
<1>2. Seen(d, i, h, symbol, e) = Seen(d, i, h, symbol, q - 1)
  BY <1>1
<1> QED BY <1>2 DEF Tally

---------------------------------------------------------------------------
\* The closing brackets of one kind that the stack waits for inside a part.
Waiting(st, c) == Cardinality({x \in 2 .. Len(st) : st[x] = c})

Stacks == Seq(Closers)

\* One bracket pushed.
LEMMA WaitingPushed ==
  ASSUME NEW st \in Stacks, Len(st) >= 1, NEW b \in Closers, NEW c
  PROVE  /\ Append(st, b) \in Stacks
         /\ Len(Append(st, b)) = Len(st) + 1
         /\ Append(st, b)[2] = IF Len(st) = 1 THEN b ELSE st[2]
         /\ Waiting(st, c) \in Nat
         /\ Waiting(Append(st, b), c) = Waiting(st, c) + IF b = c THEN 1 ELSE 0
<1> DEFINE n == Len(st)
           s == Append(st, b)
           S == {x \in 2 .. Len(s) : s[x] = c}
           T == {x \in 2 .. n : st[x] = c}
<1>1. n \in Nat /\ n >= 1
  BY LenProperties DEF Stacks
<1>2. s \in Stacks /\ Len(s) = n + 1 /\ s[n + 1] = b /\ \A x \in 1 .. n : s[x] = st[x]
  BY AppendProperties DEF Stacks
<1>3. s[2] = IF n = 1 THEN b ELSE st[2]
  <2> HIDE DEF s, n
  <2>1. n # 1 => 2 \in 1 .. n
    BY <1>1
  <2> QED BY <1>2, <2>1
<1>4. S = (IF b = c THEN T \cup {n + 1} ELSE T) /\ n + 1 \notin T
  <2> HIDE DEF s, n
  <2>1. \A x : x \in 2 .. n + 1 <=> (x \in 2 .. n \/ x = n + 1)
    BY <1>1
  <2>2. n + 1 \notin 2 .. n /\ \A x \in 2 .. n : x \in 1 .. n
    BY <1>1
  <2> QED BY <1>2, <2>1, <2>2
<1>5. IsFiniteSet(T)
  <2> HIDE DEF n
  <2>1. IsFiniteSet(2 .. n)
    BY <1>1, FS_Interval
  <2> QED BY <2>1, FS_Subset
<1>6. Cardinality(T) \in Nat
  BY <1>5, FS_CardinalityType
<1>7. Cardinality(T \cup {n + 1}) = Cardinality(T) + 1
  <2> HIDE DEF T, n
  <2> QED BY <1>4, <1>5, FS_AddElement
<1> HIDE DEF S, T
<1>8. Cardinality(S) = Cardinality(T) + IF b = c THEN 1 ELSE 0
  BY <1>4, <1>6, <1>7
<1> QED BY <1>2, <1>3, <1>6, <1>8 DEF S, T, Waiting

\* One bracket taken off: the same, the other way round.
LEMMA WaitingPopped ==
  ASSUME NEW st \in Stacks, Len(st) >= 2, NEW c
  PROVE  /\ SubSeq(st, 1, Len(st) - 1) \in Stacks
         /\ Len(SubSeq(st, 1, Len(st) - 1)) = Len(st) - 1
         /\ Len(st) > 2 => SubSeq(st, 1, Len(st) - 1)[2] = st[2]
         /\ Waiting(SubSeq(st, 1, Len(st) - 1), c) \in Nat
         /\ Waiting(st, c) = Waiting(SubSeq(st, 1, Len(st) - 1), c)
                               + IF st[Len(st)] = c THEN 1 ELSE 0
<1> DEFINE n == Len(st)
           s == SubSeq(st, 1, n - 1)
           b == st[n]
<1>1. n \in Nat /\ n >= 2
  BY LenProperties DEF Stacks
<1>2. s \in Stacks /\ Len(s) = n - 1 /\ \A x \in 1 .. n - 1 : s[x] = st[x]
  <2>1. st \in Seq(Closers) /\ 1 \in 1 .. n + 1 /\ n - 1 \in Nat /\ n - 1 =< Len(st)
    BY <1>1 DEF Stacks
  <2>2. \A x \in 1 .. n - 1 : st[x] \in Closers
    <3>1. \A x \in 1 .. n : st[x] \in Closers
      BY <2>1, ElementOfSeq
    <3> QED BY <1>1, <3>1
  <2>3. s \in Seq(Closers)
    BY <1>1, <2>1, <2>2, SubSeqProperties
  <2>4. Len(s) = n - 1 /\ \A x \in 1 .. n - 1 : s[x] = st[x]
    <3>1. 1 =< n - 1 /\ n - 1 \in Int
      BY <1>1
    <3> QED BY <1>1, <2>1, <3>1, SubSeqProperties
  <2> QED BY <2>3, <2>4 DEF Stacks
<1>3. b \in Closers
  BY <1>1, ElementOfSeq DEF Stacks
<1>4. st = Append(s, b)
  <2>1. /\ Append(s, b) \in Seq(Closers) /\ Len(Append(s, b)) = (n - 1) + 1
        /\ Append(s, b)[(n - 1) + 1] = b
        /\ \A x \in 1 .. n - 1 : Append(s, b)[x] = s[x]
    BY <1>2, <1>3, AppendProperties DEF Stacks
  <2>2. (n - 1) + 1 = n /\ st \in Seq(Closers) /\ n = Len(st)
    BY <1>1 DEF Stacks
  <2> DEFINE t == Append(s, b)
  <2> HIDE DEF s, n, b, t
  <2>3. t \in Seq(Closers) /\ Len(t) = n /\ t[n] = b /\ \A x \in 1 .. n - 1 : t[x] = s[x]
    BY <2>1, <2>2 DEF t
  <2>4. \A x \in 1 .. n : t[x] = st[x]
    <3>1. \A x \in 1 .. n : x = n \/ x \in 1 .. n - 1
      BY <1>1
    <3>2. st[n] = b
      BY DEF b
    <3> QED BY <1>2, <2>3, <3>1, <3>2
  <2>5. t = st
    BY <2>2, <2>3, <2>4, SeqEqual
  <2> QED BY <2>5 DEF t
<1> HIDE DEF s, b
<1>5. /\ Waiting(s, c) \in Nat
      /\ Waiting(Append(s, b), c) = Waiting(s, c) + IF b = c THEN 1 ELSE 0
  <2>1. Len(s) >= 1
    BY <1>1, <1>2
  <2> QED BY <1>2, <1>3, <2>1, WaitingPushed
<1>6. n > 2 => s[2] = st[2]
  <2>1. n > 2 => 2 \in 1 .. n - 1
    BY <1>1
  <2> QED BY <1>2, <2>1
<1> QED BY <1>2, <1>4, <1>5, <1>6 DEF s, b

---------------------------------------------------------------------------
\* The bytes that the scans ask for, by name.
Comma == ","
Opener(c) == c \in {"[", "{"}

\* They are all different.
LEMMA BytesDiffer ==
  ASSUME NEW c, Opener(c)
  PROVE  /\ Closer(c) \in Closers /\ c \notin Closers /\ c # Closer(c)
         /\ c \notin Quotes /\ c # Quote /\ Closer(c) # Quote
         /\ \A b : Opener(b) /\ Closer(b) = Closer(c) => b = c
<1>1. Quotes = {Quote}
  BY StrictLengthAssumption, ConfigAssumption, Zenon DEF Quotes
<1>2. /\ Closer(c) \in Closers /\ c \notin Closers /\ c # Closer(c)
      /\ c # Quote /\ Closer(c) # Quote
  BY Zenon DEF Opener, Closer, Closers, Quote
<1>3. ASSUME NEW b, Opener(b), Closer(b) = Closer(c) PROVE b = c
  <2>1. \A x : x = "[" => Closer(x) = "]"
    BY Zenon DEF Closer
  <2>2. \A x : x = "{" => Closer(x) = "}"
    BY Zenon DEF Closer
  <2>3. "]" # "}"
    BY Zenon
  <2> QED BY <1>3, <2>1, <2>2, <2>3, Zenon DEF Opener
<1> QED BY <1>1, <1>2, <1>3

\* No closing bracket opens a block or a string.
LEMMA ClosersDiffer ==
  ASSUME NEW c, c \in Closers
  PROVE  ~Opener(c) /\ c \notin Quotes /\ c # Quote
<1>1. Quotes = {Quote}
  BY StrictLengthAssumption, ConfigAssumption, Zenon DEF Quotes
<1>2. ~Opener(c) /\ c # Quote
  BY Zenon DEF Opener, Closers, Quote
<1> QED BY <1>1, <1>2

\* The counting scan stands at q in the part that opens at p, with the stack
\* st: blockEnd, started at p, would not have stopped, and is not in a string.
Nested(d, p, h, q, st) ==
  /\ p \in Nat \ {0} /\ h \in Nat /\ q \in p + 1 .. h
  /\ Opener(d[p])
  /\ ModesOf(d, p, h)[q] = Outside
  /\ \A r \in p .. q - 1 : ~EndsAt(d, p, h, r)
  /\ st \in Stacks /\ Len(st) >= 2 /\ st[2] = Closer(d[p])
  /\ Waiting(st, Closer(d[p]))
       = Tally(d, p, h, d[p], q - 1) - Tally(d, p, h, Closer(d[p]), q - 1)

\* A byte that is not a quote leaves blockEnd outside of strings.
LEMMA StaysOutside ==
  ASSUME NEW d, NEW p \in Nat \ {0}, NEW h \in Nat, NEW q \in p .. h - 1,
         ModesOf(d, p, h)[q] = Outside, d[q] \notin Quotes
  PROVE  ModesOf(d, p, h)[q + 1] = Outside
<1> DEFINE m == ModesOf(d, p, h)
<1>1. ReadsModes(m, d, p, h)
  BY ModesSolved
<1> HIDE DEF m
<1>2. q + 1 \in p .. h /\ q + 1 # p /\ (q + 1) - 1 = q
  OBVIOUS
<1>3. m[q + 1] = Reading(d[q])[m[q]]
  BY <1>1, <1>2 DEF ReadsModes
<1>4. m[q] = Outside
  BY DEF m
<1>5. Reading(d[q])[Outside] = Outside
  BY ReadingQuoted
<1> QED BY <1>3, <1>4, <1>5 DEF m

\* The block that a part opens is entered.
LEMMA NestedOpens ==
  ASSUME NEW d, NEW p \in Nat \ {0}, NEW h \in Nat, p < h, Opener(d[p]),
         NEW c \in Closers
  PROVE  Nested(d, p, h, p + 1, Append(<<c>>, Closer(d[p])))
<1> DEFINE b == Closer(d[p])
           m == ModesOf(d, p, h)
           st == Append(<<c>>, b)
<1>1. b \in Closers /\ d[p] # b /\ d[p] \notin Quotes
  BY BytesDiffer
<1>2. m[p] = Outside
  <2>1. ReadsModes(m, d, p, h)
    BY ModesSolved
  <2>2. p \in p .. h
    OBVIOUS
  <2> HIDE DEF m
  <2> QED BY <2>1, <2>2 DEF ReadsModes
<1>3. m[p + 1] = Outside
  <2>1. p \in p .. h - 1
    OBVIOUS
  <2> QED BY <1>1, <1>2, <2>1, StaysOutside
<1>4. /\ Tally(d, p, h, d[p], p) = 1
      /\ Tally(d, p, h, b, p) = 0
  <2>1. \A s : Tally(d, p, h, s, p) = Tally(d, p, h, s, p - 1)
                 + (IF d[p] = s /\ m[p] = Outside THEN 1 ELSE 0)
    BY TallyNext
  <2>2. \A s : Tally(d, p, h, s, p - 1) = 0
    BY TallyNothing
  <2> HIDE DEF b, m
  <2> QED BY <1>1, <1>2, <2>1, <2>2
<1>5. ~EndsAt(d, p, h, p)
  BY <1>1 DEF EndsAt
<1>6. /\ <<c>> \in Stacks /\ Len(<<c>>) = 1 /\ Waiting(<<c>>, b) = 0
  <2>1. <<c>> \in Stacks /\ Len(<<c>>) = 1
    BY DEF Stacks
  <2>2. 2 .. 1 = {}
    OBVIOUS
  <2>3. {x \in 2 .. Len(<<c>>) : <<c>>[x] = b} = {}
    BY <2>1, <2>2
  <2>4. Waiting(<<c>>, b) = 0
    BY <2>3, FS_EmptySet DEF Waiting
  <2> QED BY <2>1, <2>4
<1>7. /\ st \in Stacks /\ Len(st) = 2 /\ st[2] = b /\ Waiting(st, b) = 1
  <2> HIDE DEF b
  <2>1. Len(<<c>>) >= 1
    BY <1>6
  <2>2. /\ Append(<<c>>, b) \in Stacks
        /\ Len(Append(<<c>>, b)) = Len(<<c>>) + 1
        /\ Append(<<c>>, b)[2] = IF Len(<<c>>) = 1 THEN b ELSE <<c>>[2]
        /\ Waiting(Append(<<c>>, b), b) = Waiting(<<c>>, b) + IF b = b THEN 1 ELSE 0
    BY <1>1, <1>6, <2>1, WaitingPushed
  <2> DEFINE one == <<c>>
  <2> HIDE DEF one
  <2> QED BY <1>6, <2>2 DEF one
<1> HIDE DEF b, m, st
<1>8. p + 1 \in p + 1 .. h /\ (p + 1) - 1 = p /\ \A r \in p .. p : r = p
  OBVIOUS
<1>9. Tally(d, p, h, d[p], (p + 1) - 1) - Tally(d, p, h, b, (p + 1) - 1) = 1
  BY <1>4, <1>8
<1>10. \A r \in p .. (p + 1) - 1 : ~EndsAt(d, p, h, r)
  BY <1>5, <1>8
<1>11. Len(st) >= 2
  BY <1>7
<1> QED BY <1>3, <1>7, <1>8, <1>9, <1>10, <1>11 DEF Nested, b, m, st

\* One byte that is no quote is passed, and blockEnd would not stop at it.
LEMMA NestedNext ==
  ASSUME NEW d, NEW p, NEW h, NEW q, NEW st, Nested(d, p, h, q, st), q < h,
         d[q] \notin Quotes, ~EndsAt(d, p, h, q), NEW s \in Stacks,
         Len(s) >= 2, s[2] = Closer(d[p]),
         Waiting(s, Closer(d[p]))
           = Waiting(st, Closer(d[p])) + (IF d[q] = d[p] THEN 1 ELSE 0)
                                       - (IF d[q] = Closer(d[p]) THEN 1 ELSE 0)
  PROVE  Nested(d, p, h, q + 1, s)
<1> DEFINE b == Closer(d[p])
           T(c, x) == Tally(d, p, h, c, x)
<1>1. /\ p \in Nat \ {0} /\ h \in Nat /\ q \in p + 1 .. h
      /\ Opener(d[p])
      /\ ModesOf(d, p, h)[q] = Outside
      /\ \A r \in p .. q - 1 : ~EndsAt(d, p, h, r)
      /\ Waiting(st, b) = T(d[p], q - 1) - T(b, q - 1)
  BY DEF Nested
<1>2. q \in p .. h - 1 /\ q \in Nat /\ p =< q /\ p \in Nat
  BY <1>1
<1>3. ModesOf(d, p, h)[q + 1] = Outside
  BY <1>1, <1>2, StaysOutside
<1>4. \A c : /\ T(c, q - 1) \in Nat
             /\ T(c, q) = T(c, q - 1) + IF d[q] = c THEN 1 ELSE 0
  <2>1. \A c : /\ Tally(d, p, h, c, q - 1) \in Nat
               /\ Tally(d, p, h, c, q) = Tally(d, p, h, c, q - 1)
                     + (IF d[q] = c /\ ModesOf(d, p, h)[q] = Outside THEN 1 ELSE 0)
    BY <1>2, TallyNext
  <2> QED BY <1>1, <2>1
<1> HIDE DEF T, b
<1>5. Waiting(s, b) = T(d[p], q) - T(b, q)
  <2>1. Waiting(s, b) = Waiting(st, b) + (IF d[q] = d[p] THEN 1 ELSE 0)
                                       - (IF d[q] = b THEN 1 ELSE 0)
    BY DEF b
  <2>2. /\ T(d[p], q - 1) \in Nat /\ T(b, q - 1) \in Nat
        /\ T(d[p], q) = T(d[p], q - 1) + IF d[q] = d[p] THEN 1 ELSE 0
        /\ T(b, q) = T(b, q - 1) + IF d[q] = b THEN 1 ELSE 0
    BY <1>4
  <2> QED BY <1>1, <2>1, <2>2
<1>6. q + 1 \in p + 1 .. h /\ (q + 1) - 1 = q
  BY <1>1, <1>2
<1>7. \A r \in p .. (q + 1) - 1 : ~EndsAt(d, p, h, r)
  <2>1. \A r \in p .. q : r \in p .. q - 1 \/ r = q
    BY <1>2
  <2> QED BY <1>1, <1>6, <2>1
<1> QED BY <1>1, <1>3, <1>5, <1>6, <1>7 DEF Nested, T, b

\* A byte that means nothing there.
LEMMA NestedSkips ==
  ASSUME NEW d, NEW p, NEW h, NEW q, NEW st, Nested(d, p, h, q, st), q < h,
         d[q] \notin Quotes, ~Opener(d[q]), d[q] \notin Closers
  PROVE  Nested(d, p, h, q + 1, st)
<1>1. Opener(d[p]) /\ st \in Stacks /\ Len(st) >= 2 /\ st[2] = Closer(d[p])
  BY DEF Nested
<1>2. d[q] # d[p] /\ d[q] # Closer(d[p])
  BY <1>1, BytesDiffer
<1>3. ~EndsAt(d, p, h, q)
  BY <1>2 DEF EndsAt
<1>4. Waiting(st, Closer(d[p])) \in Nat
  BY <1>1, WaitingPopped
<1>5. Waiting(st, Closer(d[p]))
        = Waiting(st, Closer(d[p])) + (IF d[q] = d[p] THEN 1 ELSE 0)
                                    - (IF d[q] = Closer(d[p]) THEN 1 ELSE 0)
  BY <1>2, <1>4
<1> QED BY <1>1, <1>3, <1>5, NestedNext

\* A bracket opens.
LEMMA NestedPush ==
  ASSUME NEW d, NEW p, NEW h, NEW q, NEW st, Nested(d, p, h, q, st), q < h,
         Opener(d[q])
  PROVE  Nested(d, p, h, q + 1, Append(st, Closer(d[q])))
<1> DEFINE b == Closer(d[p])
           c == Closer(d[q])
           s == Append(st, c)
<1>1. Opener(d[p]) /\ st \in Stacks /\ Len(st) \in Nat /\ Len(st) >= 2 /\ st[2] = b
  BY LenProperties DEF Nested, Stacks
<1>2. c \in Closers /\ d[q] \notin Closers /\ d[q] \notin Quotes
  BY BytesDiffer
<1>3. b \in Closers /\ (c = b => d[q] = d[p])
  BY <1>1, BytesDiffer
<1>4. ~EndsAt(d, p, h, q)
  BY <1>2, <1>3 DEF EndsAt
<1> HIDE DEF b
<1>5. /\ s \in Stacks /\ Len(s) = Len(st) + 1
      /\ s[2] = IF Len(st) = 1 THEN c ELSE st[2]
      /\ Waiting(st, b) \in Nat
      /\ Waiting(s, b) = Waiting(st, b) + IF c = b THEN 1 ELSE 0
  <2>1. Len(st) >= 1
    BY <1>1
  <2> HIDE DEF c
  <2> QED BY <1>1, <1>2, <2>1, WaitingPushed
<1>6. c = b <=> d[q] = d[p]
  BY <1>3 DEF b
<1> HIDE DEF s, c
<1>7. Len(s) >= 2 /\ s[2] = b
  BY <1>1, <1>5
<1>8. d[q] # b
  BY <1>2, <1>3
<1>9. Waiting(s, b) = Waiting(st, b) + (IF d[q] = d[p] THEN 1 ELSE 0)
                                     - (IF d[q] = b THEN 1 ELSE 0)
  BY <1>5, <1>6, <1>8
<1> QED BY <1>2, <1>4, <1>5, <1>7, <1>9, NestedNext DEF s, b, c

\* What is above the bottom of the stack, when there is no more than one.
LEMMA WaitingOne ==
  ASSUME NEW st \in Stacks, NEW c
  PROVE  /\ Len(st) = 1 => Waiting(st, c) = 0
         /\ Len(st) >= 2 /\ st[2] = c => Waiting(st, c) \in Nat \ {0}
<1> DEFINE n == Len(st)
           S == {x \in 2 .. n : st[x] = c}
<1>1. n \in Nat
  BY LenProperties DEF Stacks
<1>2. n = 1 => Waiting(st, c) = 0
  <2>1. n = 1 => 2 .. n = {}
    <3> HIDE DEF n
    <3> QED OBVIOUS
  <2>2. n = 1 => S = {}
    <3> HIDE DEF n
    <3> QED BY <2>1
  <2> HIDE DEF S
  <2>3. n = 1 => Cardinality(S) = 0
    BY <2>2, FS_EmptySet
  <2> QED BY <2>3 DEF S, Waiting
<1>3. ASSUME n >= 2, st[2] = c PROVE Waiting(st, c) \in Nat \ {0}
  <2>1. IsFiniteSet(S)
    <3> HIDE DEF n
    <3>1. IsFiniteSet(2 .. n)
      BY <1>1, FS_Interval
    <3> QED BY <3>1, FS_Subset
  <2>2. 2 \in S
    <3> HIDE DEF n
    <3> QED BY <1>1, <1>3
  <2> HIDE DEF S
  <2>3. Cardinality(S) \in Nat /\ Cardinality(S) # 0
    BY <2>1, <2>2, FS_CardinalityType, FS_EmptySet
  <2> QED BY <2>3 DEF S, Waiting
<1> QED BY <1>2, <1>3

\* A bracket closes one that was opened in the part.
LEMMA NestedPop ==
  ASSUME NEW d, NEW p, NEW h, NEW q, NEW st, Nested(d, p, h, q, st), q < h,
         Len(st) > 2, d[q] = st[Len(st)]
  PROVE  Nested(d, p, h, q + 1, SubSeq(st, 1, Len(st) - 1))
<1> DEFINE b == Closer(d[p])
           s == SubSeq(st, 1, Len(st) - 1)
           n == Len(st)
           T(c, x) == Tally(d, p, h, c, x)
<1>1. /\ p \in Nat \ {0} /\ h \in Nat /\ q \in p + 1 .. h
      /\ Opener(d[p]) /\ st \in Stacks /\ st[2] = b
      /\ ModesOf(d, p, h)[q] = Outside
      /\ Waiting(st, b) = T(d[p], q - 1) - T(b, q - 1)
  BY DEF Nested
<1>2. n \in Nat /\ n > 2 /\ d[q] = st[n] /\ d[q] \in Closers
  <2>1. st \in Seq(Closers) /\ n \in Nat
    BY <1>1, LenProperties DEF Stacks
  <2>2. n \in 1 .. n
    <3> HIDE DEF n
    <3>1. n > 2
      BY DEF n
    <3> QED BY <2>1, <3>1
  <2>3. st[n] \in Closers
    BY <2>1, <2>2, ElementOfSeq
  <2> QED BY <2>1, <2>3
<1>3. d[q] \notin Quotes /\ ~Opener(d[q]) /\ d[q] # d[p] /\ d[p] # b
  BY <1>1, <1>2, ClosersDiffer, BytesDiffer
<1>4. /\ s \in Stacks /\ Len(s) = n - 1 /\ s[2] = b
      /\ Waiting(s, b) \in Nat
      /\ Waiting(st, b) = Waiting(s, b) + IF d[q] = b THEN 1 ELSE 0
  <2>1. Len(st) >= 2
    BY <1>2
  <2> HIDE DEF b
  <2> QED BY <1>1, <1>2, <2>1, WaitingPopped
<1>5. Len(s) >= 2
  <2> HIDE DEF s, n
  <2> QED BY <1>2, <1>4
<1>6. Waiting(s, b) \in Nat \ {0}
  <2> HIDE DEF s, b
  <2> QED BY <1>4, <1>5, WaitingOne
<1>7. /\ T(d[p], q - 1) \in Nat /\ T(b, q - 1) \in Nat
      /\ T(d[p], q) = T(d[p], q - 1)
      /\ T(b, q) = T(b, q - 1) + IF d[q] = b THEN 1 ELSE 0
  <2>1. q \in Nat /\ p =< q /\ p \in Nat
    BY <1>1
  <2>2. \A c : /\ Tally(d, p, h, c, q - 1) \in Nat
               /\ Tally(d, p, h, c, q) = Tally(d, p, h, c, q - 1)
                     + (IF d[q] = c /\ ModesOf(d, p, h)[q] = Outside THEN 1 ELSE 0)
    BY <2>1, TallyNext
  <2>3. T(d[p], q) = T(d[p], q - 1) + IF d[q] = d[p] THEN 1 ELSE 0
    BY <1>1, <2>2
  <2>4. T(b, q) = T(b, q - 1) + IF d[q] = b THEN 1 ELSE 0
    BY <1>1, <2>2
  <2>5. T(d[p], q - 1) \in Nat /\ T(b, q - 1) \in Nat
    BY <2>2
  <2> HIDE DEF T, b
  <2> QED BY <1>3, <2>3, <2>4, <2>5
<1> HIDE DEF T, s, n
<1>8. ~EndsAt(d, p, h, q)
  <2>1. CASE d[q] = b
    <3>1. T(d[p], q) # T(b, q)
      <4> HIDE DEF b
      <4> QED BY <1>1, <1>4, <1>6, <1>7, <2>1
    <3> QED BY <3>1 DEF EndsAt, T
  <2>2. CASE d[q] # b
    BY <2>2 DEF EndsAt
  <2> QED BY <2>1, <2>2
<1>9. Waiting(s, b) = Waiting(st, b) + (IF d[q] = d[p] THEN 1 ELSE 0)
                                     - (IF d[q] = b THEN 1 ELSE 0)
  <2> HIDE DEF b
  <2> QED BY <1>3, <1>4
<1> QED BY <1>3, <1>4, <1>5, <1>8, <1>9, NestedNext DEF s, b, n

\* The bracket closes that opened the part: there blockEnd stops too.
LEMMA NestedEnds ==
  ASSUME NEW d, NEW p, NEW h, NEW q, NEW st, Nested(d, p, h, q, st), q < h,
         Len(st) = 2, d[q] = st[Len(st)]
  PROVE  BlockEnd(d, p, h, d[p], Closer(d[p])) = q + 1
<1> DEFINE b == Closer(d[p])
           s == SubSeq(st, 1, Len(st) - 1)
           T(c, x) == Tally(d, p, h, c, x)
<1>1. /\ p \in Nat \ {0} /\ h \in Nat /\ q \in p + 1 .. h
      /\ Opener(d[p]) /\ st \in Stacks /\ st[2] = b /\ d[q] = b
      /\ ModesOf(d, p, h)[q] = Outside
      /\ Waiting(st, b) = T(d[p], q - 1) - T(b, q - 1)
      /\ \A r \in p .. q - 1 : ~EndsAt(d, p, h, r)
  BY DEF Nested
<1>2. d[p] # b
  BY <1>1, BytesDiffer
<1>3. Waiting(st, b) = 1
  <2>1. Len(st) >= 2
    OBVIOUS
  <2>2. /\ s \in Stacks /\ Len(s) = Len(st) - 1
        /\ Waiting(st, b) = Waiting(s, b) + IF st[Len(st)] = b THEN 1 ELSE 0
    <3> HIDE DEF b
    <3> QED BY <1>1, <2>1, WaitingPopped
  <2> HIDE DEF s
  <2>3. Len(s) = 1
    BY <2>2
  <2>4. Waiting(s, b) = 0
    BY <2>2, <2>3, WaitingOne
  <2> HIDE DEF b
  <2> QED BY <1>1, <2>2, <2>4
<1>4. /\ T(d[p], q - 1) \in Nat /\ T(b, q - 1) \in Nat
      /\ T(d[p], q) = T(d[p], q - 1)
      /\ T(b, q) = T(b, q - 1) + 1
  <2>1. q \in Nat /\ p =< q /\ p \in Nat
    BY <1>1
  <2>2. \A c : /\ Tally(d, p, h, c, q - 1) \in Nat
               /\ Tally(d, p, h, c, q) = Tally(d, p, h, c, q - 1)
                     + (IF d[q] = c /\ ModesOf(d, p, h)[q] = Outside THEN 1 ELSE 0)
    BY <2>1, TallyNext
  <2>3. T(d[p], q) = T(d[p], q - 1) + IF d[q] = d[p] THEN 1 ELSE 0
    BY <1>1, <2>2
  <2>4. T(b, q) = T(b, q - 1) + IF d[q] = b THEN 1 ELSE 0
    BY <1>1, <2>2
  <2>5. T(d[p], q - 1) \in Nat /\ T(b, q - 1) \in Nat
    BY <2>2
  <2> HIDE DEF T, b
  <2> QED BY <1>1, <1>2, <2>3, <2>4, <2>5
<1>5. T(d[p], q) = T(b, q)
  <2> HIDE DEF T, b
  <2> QED BY <1>1, <1>3, <1>4
<1>6. EndsAt(d, p, h, q)
  BY <1>1, <1>5 DEF EndsAt
<1>7. q \in p .. h - 1
  BY <1>1
<1> QED BY <1>1, <1>6, <1>7, BlockEndFirst

\* A string in the part is passed as a whole.
LEMMA NestedString ==
  ASSUME NEW d, NEW p, NEW h, NEW q, NEW st, Nested(d, p, h, q, st), q < h,
         d[q] = Quote, NEW e, e = StringEnd(d, q + 1, h, Quote), e # None
  PROVE  Nested(d, p, h, e + 1, st)
<1> DEFINE b == Closer(d[p])
           m == ModesOf(d, p, h)
<1>1. /\ p \in Nat \ {0} /\ h \in Nat /\ q \in p + 1 .. h
      /\ Opener(d[p]) /\ m[q] = Outside
      /\ \A r \in p .. q - 1 : ~EndsAt(d, p, h, r)
      /\ st \in Stacks /\ Len(st) >= 2 /\ st[2] = b
      /\ Waiting(st, b) = Tally(d, p, h, d[p], q - 1) - Tally(d, p, h, b, q - 1)
  BY DEF Nested
<1>2. d[p] # Quote /\ b # Quote
  BY <1>1, BytesDiffer
<1>3. /\ e \in q + 1 .. h - 1
      /\ \A x \in q + 1 .. e : m[x] # Outside
      /\ m[e + 1] = Outside
  <2>1. p \in Nat /\ q \in p .. h - 1
    BY <1>1
  <2>2. ReadsModes(m, d, p, h)
    BY <1>1, ModesSolved
  <2> HIDE DEF m
  <2> QED BY <1>1, <2>1, <2>2, StringModes
<1>4. q \in Nat /\ e \in Nat /\ p \in Nat /\ p =< q /\ q =< e /\ e + 1 \in p + 1 .. h
  BY <1>1, <1>3
<1>5. \A c : c # Quote => Tally(d, p, h, c, e) = Tally(d, p, h, c, q - 1)
  BY <1>3, <1>4, TallyOverString
<1>6. (e + 1) - 1 = e
  BY <1>4
<1>7. ASSUME NEW r \in p .. e PROVE ~EndsAt(d, p, h, r)
  <2>1. r \in p .. q - 1 \/ r = q \/ r \in q + 1 .. e
    BY <1>4
  <2>2. r = q => ~EndsAt(d, p, h, r)
    BY <1>2 DEF EndsAt
  <2>3. r \in q + 1 .. e => ~EndsAt(d, p, h, r)
    BY <1>3 DEF EndsAt
  <2> QED BY <1>1, <2>1, <2>2, <2>3
<1>8. Waiting(st, b) = Tally(d, p, h, d[p], e) - Tally(d, p, h, b, e)
  BY <1>1, <1>2, <1>5
<1> QED BY <1>1, <1>3, <1>4, <1>6, <1>7, <1>8 DEF Nested

---------------------------------------------------------------------------
\* The bytes of JSON's numbers.
NumberBytes == Digits \cup {"-", "+", ".", "e"}

\* The bytes a scalar ends at, whitespace apart.
Stops == {",", "}", "]"}

\* None of the bytes of a number ends a scalar, and none opens something.
LEMMA NumberBytesDiffer ==
  ASSUME NEW c \in NumberBytes
  PROVE  c \notin Blank /\ c \notin Stops
<1>1. \A k \in 1 .. 10 : DigitNames[k] \in
        {"0", "1", "2", "3", "4", "5", "6", "7", "8", "9"}
  BY DEF DigitNames
<1>2. c \in {"0", "1", "2", "3", "4", "5", "6", "7", "8", "9", "-", "+", ".", "e"}
  BY <1>1, Zenon DEF NumberBytes, Digits
<1> QED BY <1>2, Zenon DEF Blank, Stops

\* Bytes of a slice.
LEMMA SliceBytes ==
  ASSUME NEW u \in Seq(STRING), NEW m \in Nat \ {0}, NEW n \in Nat, n =< Len(u)
  PROVE  /\ SubSeq(u, m, n) \in Seq(STRING)
         /\ Len(SubSeq(u, m, n)) = IF m =< n THEN n - m + 1 ELSE 0
         /\ \A k \in m .. n : SubSeq(u, m, n)[k - m + 1] = u[k]
<1>1. \A k \in m .. n : u[k] \in STRING
  <2>1. Len(u) \in Nat
    BY LenProperties
  <2>2. \A k \in m .. n : k \in 1 .. Len(u)
    BY <2>1
  <2> QED BY <2>2, ElementOfSeq
<1>2. /\ SubSeq(u, m, n) \in Seq(STRING)
      /\ Len(SubSeq(u, m, n)) = IF m <= n THEN n - m + 1 ELSE 0
      /\ \A i \in 1 .. n - m + 1 : SubSeq(u, m, n)[i] = u[m + i - 1]
  BY <1>1, SubSeqProperties
<1>3. \A k \in m .. n : k - m + 1 \in 1 .. n - m + 1 /\ m + (k - m + 1) - 1 = k
  OBVIOUS
<1> QED BY <1>2, <1>3

\* All bytes are in a set when the first is, and those of the rest.
LEMMA TailBytes ==
  ASSUME NEW x \in Seq(STRING), x # <<>>, NEW T, x[1] \in T,
         \A k \in 1 .. Len(Tail(x)) : Tail(x)[k] \in T
  PROVE  \A k \in 1 .. Len(x) : x[k] \in T
<1>1. /\ Len(Tail(x)) = Len(x) - 1 /\ Len(x) \in Nat
      /\ \A k \in 1 .. Len(Tail(x)) : Tail(x)[k] = x[k + 1]
  BY HeadTailProperties, LenProperties
<1> SUFFICES ASSUME NEW k \in 1 .. Len(x), k # 1 PROVE x[k] \in T
  OBVIOUS
<1>2. k - 1 \in 1 .. Len(Tail(x)) /\ (k - 1) + 1 = k
  BY <1>1
<1> QED BY <1>1, <1>2

\* validJSONNumber lets no other bytes pass, and starts as getType expects it.
LEMMA ValidNumberBytes ==
  ASSUME NEW b \in Seq(STRING), b # <<>>, ValidNumber(b)
  PROVE  /\ b[1] \in Digits \cup {"-"}
         /\ \A k \in 1 .. Len(b) : b[k] \in NumberBytes
<1> DEFINE u == IF b[1] = "-" THEN Tail(b) ELSE b
<1>1. PICK m \in 1 .. Len(u), n \in 1 .. Len(u) :
        /\ m =< n
        /\ AllDigits(SubSeq(u, 1, m))
        /\ \/ SubSeq(u, m + 1, n) = <<>>
           \/ /\ SubSeq(u, m + 1, n)[1] = "."
              /\ AllDigits(Tail(SubSeq(u, m + 1, n)))
        /\ \/ SubSeq(u, n + 1, Len(u)) = <<>>
           \/ /\ SubSeq(u, n + 1, Len(u))[1] = "e"
              /\ AllDigits(Unsigned(Tail(SubSeq(u, n + 1, Len(u)))))
  BY DEF ValidNumber
<1>2. u \in Seq(STRING)
  BY HeadTailProperties
<1>3. Len(u) \in Nat
  BY <1>2, LenProperties
<1>4. b[1] # "-" => u = b
  OBVIOUS
<1>5. b[1] = "-" => u = Tail(b)
  OBVIOUS
<1> HIDE DEF u
<1> DEFINE whole == SubSeq(u, 1, m)
           fraction == SubSeq(u, m + 1, n)
           exponent == SubSeq(u, n + 1, Len(u))
<1>6. \A x \in Seq(STRING) : AllDigits(x) => \A k \in 1 .. Len(x) : x[k] \in Digits
  BY DEF AllDigits
<1>7. /\ whole \in Seq(STRING) /\ Len(whole) = m
      /\ \A k \in 1 .. m : whole[k] = u[k]
  <2>1. 1 \in Nat \ {0} /\ m \in Nat /\ m =< Len(u) /\ 1 =< m
    BY <1>3
  <2>2. /\ whole \in Seq(STRING)
        /\ Len(whole) = IF 1 =< m THEN m - 1 + 1 ELSE 0
        /\ \A k \in 1 .. m : whole[k - 1 + 1] = u[k]
    BY <1>2, <2>1, SliceBytes
  <2> HIDE DEF whole
  <2> QED BY <2>1, <2>2
<1>8. /\ fraction \in Seq(STRING)
      /\ Len(fraction) = IF m + 1 =< n THEN n - m ELSE 0
      /\ \A k \in m + 1 .. n : fraction[k - m] = u[k]
  <2>1. m + 1 \in Nat \ {0} /\ n \in Nat /\ n =< Len(u)
    BY <1>3
  <2>2. /\ fraction \in Seq(STRING)
        /\ Len(fraction) = IF m + 1 =< n THEN n - (m + 1) + 1 ELSE 0
        /\ \A k \in m + 1 .. n : fraction[k - (m + 1) + 1] = u[k]
    BY <1>2, <2>1, SliceBytes
  <2>3. n - (m + 1) + 1 = n - m /\ \A k \in m + 1 .. n : k - (m + 1) + 1 = k - m
    BY <1>3
  <2> HIDE DEF fraction
  <2> QED BY <2>2, <2>3
<1>9. /\ exponent \in Seq(STRING)
      /\ Len(exponent) = IF n + 1 =< Len(u) THEN Len(u) - n ELSE 0
      /\ \A k \in n + 1 .. Len(u) : exponent[k - n] = u[k]
  <2>1. n + 1 \in Nat \ {0} /\ Len(u) \in Nat
    BY <1>3
  <2>2. /\ exponent \in Seq(STRING)
        /\ Len(exponent) = IF n + 1 =< Len(u) THEN Len(u) - (n + 1) + 1 ELSE 0
        /\ \A k \in n + 1 .. Len(u) : exponent[k - (n + 1) + 1] = u[k]
    BY <1>2, <2>1, SliceBytes
  <2>3. /\ Len(u) - (n + 1) + 1 = Len(u) - n
        /\ \A k \in n + 1 .. Len(u) : k - (n + 1) + 1 = k - n
    BY <1>3
  <2> HIDE DEF exponent
  <2> QED BY <2>2, <2>3
<1>10. AllDigits(whole)
  BY <1>1
<1>11. \A k \in 1 .. Len(fraction) : fraction[k] \in NumberBytes
  <2>1. CASE fraction = <<>>
    <3> HIDE DEF fraction
    <3> QED BY <2>1
  <2>2. CASE fraction # <<>>
    <3>1. fraction[1] = "." /\ AllDigits(Tail(fraction))
      BY <1>1, <2>2
    <3> HIDE DEF fraction
    <3>2. Tail(fraction) \in Seq(STRING)
      BY <1>8, <2>2, HeadTailProperties
    <3>3. \A k \in 1 .. Len(Tail(fraction)) : Tail(fraction)[k] \in NumberBytes
      BY <1>6, <3>1, <3>2 DEF NumberBytes
    <3>4. fraction[1] \in NumberBytes
      BY <3>1 DEF NumberBytes
    <3> QED BY <1>8, <2>2, <3>3, <3>4, TailBytes
  <2> QED BY <2>1, <2>2
<1>12. \A k \in 1 .. Len(exponent) : exponent[k] \in NumberBytes
  <2>1. CASE exponent = <<>>
    <3> HIDE DEF exponent
    <3> QED BY <2>1
  <2>2. CASE exponent # <<>>
    <3> DEFINE x == Tail(exponent)
    <3>1. exponent[1] = "e" /\ AllDigits(Unsigned(x))
      BY <1>1, <2>2
    <3> HIDE DEF exponent
    <3>2. x \in Seq(STRING)
      BY <1>9, <2>2, HeadTailProperties
    <3> HIDE DEF x
    <3>3. \A k \in 1 .. Len(x) : x[k] \in NumberBytes
      <4>1. CASE Signed(x)
        <5>1. x # <<>> /\ x[1] \in NumberBytes /\ Unsigned(x) = Tail(x)
          BY <4>1 DEF Signed, Unsigned, NumberBytes
        <5>2. Tail(x) \in Seq(STRING)
          BY <3>2, <5>1, HeadTailProperties
        <5>3. \A k \in 1 .. Len(Tail(x)) : Tail(x)[k] \in NumberBytes
          BY <1>6, <3>1, <5>1, <5>2 DEF NumberBytes
        <5> QED BY <3>2, <5>1, <5>3, TailBytes
      <4>2. CASE ~Signed(x)
        BY <1>6, <3>1, <3>2, <4>2 DEF Unsigned, NumberBytes
      <4> QED BY <4>1, <4>2
    <3>4. exponent[1] \in NumberBytes
      BY <3>1 DEF NumberBytes
    <3> QED BY <1>9, <2>2, <3>3, <3>4, TailBytes DEF x
  <2> QED BY <2>1, <2>2
<1> HIDE DEF whole, fraction, exponent
<1>13. ASSUME NEW k \in 1 .. Len(u) PROVE u[k] \in NumberBytes
  <2>1. CASE k =< m
    <3>1. k \in 1 .. m
      BY <1>3, <2>1
    <3>2. whole[k] \in Digits /\ whole[k] = u[k]
      BY <1>6, <1>7, <1>10, <3>1
    <3> QED BY <3>2 DEF NumberBytes
  <2>2. CASE k > m /\ k =< n
    <3>1. k \in m + 1 .. n /\ k - m \in 1 .. Len(fraction)
      BY <1>3, <1>8, <2>2
    <3> QED BY <1>8, <1>11, <3>1
  <2>3. CASE k > n
    <3>1. k \in n + 1 .. Len(u) /\ k - n \in 1 .. Len(exponent)
      BY <1>3, <1>9, <2>3
    <3> QED BY <1>9, <1>12, <3>1
  <2> QED BY <1>3, <2>1, <2>2, <2>3
<1>14. u[1] \in Digits
  <2>1. 1 \in 1 .. m
    BY <1>3
  <2> QED BY <1>6, <1>7, <1>10, <2>1
<1>15. CASE b[1] = "-"
  <2>1. b[1] \in NumberBytes
    BY <1>15 DEF NumberBytes
  <2>2. \A k \in 1 .. Len(Tail(b)) : Tail(b)[k] \in NumberBytes
    BY <1>5, <1>13, <1>15
  <2>3. \A k \in 1 .. Len(b) : b[k] \in NumberBytes
    BY <2>1, <2>2, TailBytes
  <2> QED BY <1>15, <2>3
<1>16. CASE b[1] # "-"
  BY <1>4, <1>13, <1>14, <1>16
<1> QED BY <1>15, <1>16

\* Where a scalar ends, given every byte of it.
LEMMA TokenEndAt ==
  ASSUME NEW d, NEW i \in Nat \ {0}, NEW hi \in Nat, NEW e \in i + 1 .. hi - 1,
         \A r \in i .. e - 1 : d[r] \notin Blank /\ d[r] \notin Stops,
         d[e] \in Blank \/ d[e] \in Stops
  PROVE  TokenEnd(d, i, hi) = e
<1> DEFINE Ends == Blank \cup Stops
           S == {p \in i .. hi - 1 : d[p] \in Ends}
<1>1. TokenEnd(d, i, hi) = IF First(S) = None THEN hi ELSE First(S)
  BY Zenon DEF TokenEnd, Stops
<1>2. \A c : c \in Ends <=> (c \in Blank \/ c \in Stops)
  BY Zenon
<1> HIDE DEF Ends
<1>3. e \in S /\ S \in SUBSET Nat
  BY <1>2
<1>4. \A r \in S : r \in i .. hi - 1 /\ d[r] \in Ends
  OBVIOUS
<1> HIDE DEF S
<1>5. First(S) \in S /\ First(S) =< e
  BY <1>3, FirstIsLeast
<1>6. First(S) \in i .. hi - 1 /\ d[First(S)] \in Ends
  BY <1>4, <1>5
<1>7. ~(First(S) < e)
  <2>1. First(S) < e => First(S) \in i .. e - 1
    BY <1>6
  <2> QED BY <1>2, <1>6, <2>1
<1>8. First(S) = e /\ e # None
  BY <1>5, <1>6, <1>7 DEF None
<1> QED BY <1>1, <1>8

\* The last byte before p that is not whitespace.
LEMMA LastByte ==
  ASSUME NEW d, NEW i \in Nat, NEW p \in Nat, i < p, d[i] \notin Blank
  PROVE  \E k \in i .. p - 1 : d[k] \notin Blank /\ Blanks(d, k + 1, p)
<1> DEFINE S == {k \in i .. p : Blanks(d, k, p)}
<1>1. p \in S /\ S \in SUBSET Nat
  BY DEF Blanks
<1>2. PICK l \in S : \A k \in S : l =< k
  <2> HIDE DEF S
  <2> QED BY <1>1, FirstIsLeast
<1>3. l \in i .. p /\ Blanks(d, l, p)
  OBVIOUS
<1>4. l # i
  BY <1>3 DEF Blanks
<1>5. d[l - 1] \notin Blank
  <2> SUFFICES ASSUME d[l - 1] \in Blank PROVE FALSE
    OBVIOUS
  <2>1. \A x \in l - 1 .. p - 1 : x = l - 1 \/ x \in l .. p - 1
    BY <1>3
  <2>2. Blanks(d, l - 1, p)
    BY <1>3, <2>1 DEF Blanks
  <2>3. l - 1 \in S
    BY <1>3, <1>4, <2>2
  <2> QED BY <1>2, <1>3, <2>3
<1>6. l - 1 \in i .. p - 1 /\ (l - 1) + 1 = l
  BY <1>3, <1>4
<1> QED BY <1>3, <1>5, <1>6

\* A scalar that passes validContainerPrimitive is one that Get can read, and
\* there is only whitespace between where getType ends it and where the scan
\* does.
LEMMA ScalarRead ==
  ASSUME text \in Seq(STRING), NEW i \in Nat \ {0}, NEW p \in i + 1 .. End - 1,
         text[i] \notin Blank, text[i] \notin Quotes, ~Opener(text[i]),
         \A r \in i .. p - 1 : text[r] \notin Stops,
         text[p] \in Stops, ValidScalar(i, p)
  PROVE  LET v == ClosestValue(text, i, End)
         IN  v.err = "none" /\ v.end \in i + 1 .. p /\ Blanks(text, v.end, p)
<1> DEFINE Last(k) == text[k] \notin Blank /\ \A r \in k + 1 .. p - 1 : text[r] \in Blank
           last == CHOOSE k \in i .. p - 1 : Last(k)
           b == Text(text, i, last + 1)
<1>1. Len(text) \in Nat /\ End = Len(text) + 1
  BY LenProperties DEF End
<1>2. last \in i .. p - 1 /\ Last(last)
  <2>1. \E k \in i .. p - 1 : Last(k)
    <3>1. i \in Nat /\ p \in Nat /\ i < p
      BY <1>1
    <3>2. PICK k \in i .. p - 1 : text[k] \notin Blank /\ Blanks(text, k + 1, p)
      BY <3>1, LastByte
    <3> QED BY <3>2 DEF Blanks
  <2> HIDE DEF Last
  <2> QED BY <2>1
<1>3. b = SubSeq(text, i, last)
  <2>1. (last + 1) - 1 = last
    BY <1>2
  <2> HIDE DEF last
  <2> QED BY <2>1 DEF Text
<1>4. b \in {<<"t">>, <<"f">>, <<"n">>} \/ ValidNumber(b)
  BY Zenon DEF ValidScalar, Space
<1>5. /\ b \in Seq(STRING) /\ Len(b) = last - i + 1
      /\ \A k \in i .. last : b[k - i + 1] = text[k]
  <2> HIDE DEF last
  <2>1. last \in Nat /\ last =< Len(text) /\ i =< last
    BY <1>1, <1>2
  <2> HIDE DEF b
  <2>2. /\ SubSeq(text, i, last) \in Seq(STRING)
        /\ Len(SubSeq(text, i, last)) = IF i =< last THEN last - i + 1 ELSE 0
        /\ \A k \in i .. last : SubSeq(text, i, last)[k - i + 1] = text[k]
    BY <2>1, SliceBytes
  <2> QED BY <1>3, <2>1, <2>2
<1> HIDE DEF b, last
<1>6. Len(b) \in Nat \ {0} /\ b # <<>>
  BY <1>2, <1>5
<1>7. /\ ScalarType(b) # "Unknown"
      /\ \A k \in 1 .. Len(b) : b[k] \notin Blank
  <2>1. CASE ValidNumber(b)
    <3>1. /\ b[1] \in Digits \cup {"-"}
          /\ \A k \in 1 .. Len(b) : b[k] \in NumberBytes
      BY <1>5, <1>6, <2>1, ValidNumberBytes
    <3>2. \A k \in 1 .. Len(b) : b[k] \notin Blank
      BY <3>1, NumberBytesDiffer
    <3>3. ScalarType(b) # "Unknown"
      BY <3>1 DEF ScalarType
    <3> QED BY <3>2, <3>3
  <2>2. CASE b \in {<<"t">>, <<"f">>, <<"n">>}
    <3>1. Len(b) = 1 /\ b[1] \in {"t", "f", "n"}
      BY <2>2
    <3>2. \A c \in {"t", "f", "n"} : c \notin Blank
      BY Zenon DEF Blank
    <3>3. \A k \in 1 .. Len(b) : k = 1
      BY <3>1
    <3>4. ScalarType(b) # "Unknown"
      BY <3>1 DEF ScalarType
    <3> QED BY <3>1, <3>2, <3>3, <3>4
  <2> QED BY <1>4, <2>1, <2>2
<1>8. \A k \in i .. last : text[k] \notin Blank
  <2>1. \A k \in i .. last : k - i + 1 \in 1 .. Len(b)
    BY <1>2, <1>5
  <2> QED BY <1>5, <1>7, <2>1
<1>9. TokenEnd(text, i, End) = last + 1
  <2>1. last + 1 \in i + 1 .. End - 1 /\ End \in Nat
    BY <1>1, <1>2
  <2>2. \A r \in i .. (last + 1) - 1 : text[r] \notin Blank /\ text[r] \notin Stops
    BY <1>2, <1>8
  <2>3. text[last + 1] \in Blank \/ text[last + 1] \in Stops
    <3>1. last + 1 = p \/ last + 1 \in last + 1 .. p - 1
      BY <1>1, <1>2
    <3> QED BY <1>2, <3>1
  <2> QED BY <2>1, <2>2, <2>3, TokenEndAt
<1>10. GetType(text, i, End) = GetScalar(text, i, last + 1)
  BY <1>9, Zenon DEF GetType, Opener
<1>11. GetScalar(text, i, last + 1) = Got(ScalarType(b), <<i, last + 1>>, last + 1)
  <2>1. last + 1 # i
    BY <1>2
  <2> QED BY <1>7, <2>1, Zenon DEF GetScalar, b
<1>12. ClosestValue(text, i, End) = GetType(text, i, End)
  <2>1. NextToken(text, i, End) = i /\ i # None
    <3>1. i \in i .. End - 1 /\ End \in Nat /\ Blanks(text, i, i)
      BY <1>1 DEF Blanks
    <3> QED BY <3>1, NextTokenBehind DEF None
  <2> QED BY <2>1, Zenon DEF ClosestValue
<1>13. /\ ClosestValue(text, i, End).err = "none"
       /\ ClosestValue(text, i, End).end = last + 1
  BY <1>10, <1>11, <1>12 DEF Got
<1>14. last + 1 \in i + 1 .. p /\ Blanks(text, last + 1, p)
  BY <1>2 DEF Blanks
<1> QED BY <1>13, <1>14

\* So is a string that closes.
LEMMA StringRead ==
  ASSUME NEW d, NEW i \in Nat \ {0}, NEW hi \in Nat, i < hi, d[i] = Quote,
         NEW c, c = StringEnd(d, i + 1, hi, Quote), c # None
  PROVE  /\ ClosestValue(d, i, hi).err = "none"
         /\ ClosestValue(d, i, hi).end = c + 1
<1>1. c \in i + 1 .. hi - 1
  BY StringEndRange
<1>2. d[i] \notin Blank
  BY Zenon DEF Blank, Quote
<1>3. NextToken(d, i, hi) = i /\ i # None
  BY <1>2, NextTokenRange DEF None
<1>4. ClosestValue(d, i, hi) = GetString(i, c)
  <2>1. d[i] \in Quotes
    BY Zenon DEF Quotes
  <2>2. GetType(d, i, hi) = GetString(i, StringEnd(d, i + 1, hi, d[i]))
    <3>1. d[i] # "[" /\ d[i] # "{"
      BY Zenon DEF Quote
    <3> QED BY <2>1, <3>1, Zenon DEF GetType
  <2> QED BY <1>3, <2>2, Zenon DEF ClosestValue
<1>5. c + 1 # None
  BY <1>1 DEF None
<1>6. GetString(i, c) = Got("String", <<i + 1, c>>, c + 1)
  BY <1>5, Zenon DEF GetString, Delimited
<1> QED BY <1>4, <1>6 DEF Got

\* And a block that closes.
LEMMA BlockRead ==
  ASSUME NEW d, NEW i \in Nat \ {0}, NEW hi \in Nat, i < hi, Opener(d[i]),
         NEW e, e = BlockEnd(d, i, hi, d[i], Closer(d[i])), e # None
  PROVE  /\ ClosestValue(d, i, hi).err = "none"
         /\ ClosestValue(d, i, hi).end = e
<1>1. d[i] \notin Quotes
  BY BytesDiffer
<1>2. d[i] \notin Blank
  BY Zenon DEF Blank, Opener
<1>3. NextToken(d, i, hi) = i /\ i # None
  BY <1>2, NextTokenRange DEF None
<1>4. ClosestValue(d, i, hi) = GetType(d, i, hi)
  BY <1>3, Zenon DEF ClosestValue
<1>5. \/ GetType(d, i, hi) = GetBlock("Array", i, e, "MalformedArray")
      \/ GetType(d, i, hi) = GetBlock("Object", i, e, "MalformedObject")
  <2>1. CASE d[i] = "["
    <3>1. Closer(d[i]) = "]"
      BY <2>1, Zenon DEF Closer
    <3> QED BY <1>1, <2>1, <3>1, Zenon DEF GetType
  <2>2. CASE d[i] = "{"
    <3>1. Closer(d[i]) = "}" /\ d[i] # "["
      BY <2>2, Zenon DEF Closer
    <3> QED BY <1>1, <2>2, <3>1, Zenon DEF GetType
  <2> QED BY <2>1, <2>2, Zenon DEF Opener
<1>6. \A t, x : GetBlock(t, i, e, x) = Got(t, <<i, e>>, e)
  BY Zenon DEF GetBlock, Delimited
<1>7. \E t : ClosestValue(d, i, hi) = Got(t, <<i, e>>, e)
  BY <1>4, <1>5, <1>6, Zenon
<1> QED BY <1>7 DEF Got

---------------------------------------------------------------------------
\* What the iteration would do, as a function of the text d and of the
\* bracket o that opens the container; nothing of it depends on where the
\* callback is.
Limit(d) == Len(d) + 1

Spots == Nat \ {0}

\* How many parts there still are, and how the loop ends: well, at a malformed
\* key, or otherwise badly.
Outcomes == [n : Nat, how : {"ok", "key", "bad"}]
Ended == [n |-> 0, how |-> "ok"]
Lost(how) == [n |-> 0, how |-> how]
Plus(k, r) == [n |-> k + r.n, how |-> r.how]

\* The part whose key, or whose value, is read from p on.
KeyEndOf(d, p) == StringEnd(d, p + 1, Limit(d), d[p])
KeyOf(d, p) == Unescape(Text(d, p + 1, KeyEndOf(d, p)))
ColonOf(d, p) == NextToken(d, KeyEndOf(d, p) + 1, Limit(d))
ValueSpot(d, o, p) == IF o = "[" THEN p ELSE ColonOf(d, p) + 1
ValueOf(d, o, p) == ClosestValue(d, ValueSpot(d, o, p), Limit(d))

HasKey(d, p) == d[p] \in Quotes /\ KeyEndOf(d, p) # None
HasColon(d, p) == ColonOf(d, p) # None /\ d[ColonOf(d, p)] = ":"

IsEnd(d, o, p) == o # "[" /\ d[p] = Closer(o)
HasBadKey(d, o, p) == o # "[" /\ HasKey(d, p) /\ KeyOf(d, p) = BadText
IsPart(d, o, p) ==
  /\ o # "[" => HasKey(d, p) /\ KeyOf(d, p) # BadText /\ HasColon(d, p)
  /\ ValueOf(d, o, p).err = "none"

\* Where the part behind the comma at x begins.
PartBehind(d, o, x) == IF o = "[" THEN x + 1 ELSE NextToken(d, x + 1, Limit(d))

\* What is left behind a part that ends at e, when left says what is left at
\* the start of each part.
Onward(d, o, left, e) ==
  LET x == NextToken(d, e, Limit(d))
  IN  IF x = None THEN Lost("bad")
      ELSE IF d[x] = Closer(o) THEN Ended
      ELSE IF d[x] # Comma \/ PartBehind(d, o, x) = None THEN Lost("bad")
      ELSE left[PartBehind(d, o, x)]

Turn(d, o, left, p) ==
  IF IsEnd(d, o, p) THEN Ended
  ELSE IF HasBadKey(d, o, p) THEN Lost("key")
  ELSE IF ~IsPart(d, o, p) THEN Lost("bad")
  ELSE Plus(1, Onward(d, o, left, ValueOf(d, o, p).end))

Remaining(d, o) ==
  LET left[p \in Spots] == Turn(d, o, left, p)
  IN  left

After(d, o, e) == Onward(d, o, Remaining(d, o), e)

\* The container is opened where the search ended.
Opening(d, from) == NextToken(d, from, Limit(d))
Opened(d, o, from) == from # None /\ Opening(d, from) # None /\ d[Opening(d, from)] = o
FirstPart(d, from) == NextToken(d, Opening(d, from) + 1, Limit(d))

Total(d, o, from) ==
  IF ~Opened(d, o, from) \/ FirstPart(d, from) = None THEN Lost("bad")
  ELSE IF d[FirstPart(d, from)] = Closer(o) THEN Ended
  ELSE Remaining(d, o)[FirstPart(d, from)]

\* The iteration reaches a point where k parts are behind it and r is left,
\* unless it trips over a key before.
InStep(d, o, from, k, r) ==
  Total(d, o, from).how = "key" \/ Total(d, o, from) = Plus(k, r)

\* The k-th part's value is expected from s on, k from 0.
ValueFrom(d, o, from, s, k) ==
  IF o = "["
  THEN \/ k = 0 /\ Opened(d, o, from) /\ s = Opening(d, from) + 1
       \/ k # 0 /\ InStep(d, o, from, k, Remaining(d, o)[s])
  ELSE \E p \in Spots : /\ InStep(d, o, from, k, Remaining(d, o)[p])
                        /\ d[p] = Quote /\ KeyEndOf(d, p) # None
                        /\ HasColon(d, p) /\ s = ColonOf(d, p) + 1

\* A part ends behind the place it is read from.
LEMMA PartMoves ==
  ASSUME NEW d, Len(d) \in Nat, NEW o, NEW p \in Spots, IsPart(d, o, p)
  PROVE  /\ ValueOf(d, o, p).end \in Spots
         /\ p < ValueOf(d, o, p).end
         /\ ValueOf(d, o, p).end =< Limit(d)
<1> DEFINE s == ValueSpot(d, o, p)
           h == Limit(d)
           e == ValueOf(d, o, p).end
           at0 == NextToken(d, s, h)
<1>1. h \in Nat
  BY DEF Limit
<1>2. s \in Spots /\ p =< s
  <2>1. CASE o = "["
    BY <2>1 DEF ValueSpot, Spots
  <2>2. CASE o # "["
    <3>1. KeyEndOf(d, p) # None /\ ColonOf(d, p) # None
      BY <2>2 DEF IsPart, HasKey, HasColon
    <3> DEFINE c == KeyEndOf(d, p)
    <3>2. c \in p + 1 .. h - 1
      <4>1. p + 1 \in Nat \ {0}
        BY DEF Spots
      <4> QED BY <1>1, <3>1, <4>1, StringEndRange DEF KeyEndOf
    <3> HIDE DEF h
    <3>3. c + 1 \in Nat \ {0} /\ p < c
      <4> HIDE DEF c
      <4> QED BY <1>1, <3>2 DEF Spots
    <3>4. ColonOf(d, p) \in c + 1 .. h - 1
      BY <1>1, <3>1, <3>3, NextTokenRange DEF ColonOf, h
    <3>5. ValueSpot(d, o, p) = ColonOf(d, p) + 1
      BY <2>2 DEF ValueSpot
    <3> HIDE DEF c
    <3> QED BY <1>1, <3>2, <3>3, <3>4, <3>5 DEF Spots
  <2> QED BY <2>1, <2>2
<1>3. ClosestValue(d, s, h).err = "none" /\ e = ClosestValue(d, s, h).end
  BY DEF IsPart, ValueOf
<1> HIDE DEF s, h, e
<1>4. at0 \in s .. h - 1 /\ ClosestValue(d, s, h).end \in at0 + 1 .. h
  <2>1. s \in Nat \ {0}
    BY <1>2 DEF Spots
  <2> QED BY <1>1, <1>3, <2>1, SoundValueEnds
<1> HIDE DEF at0
<1>5. e \in Spots /\ p < e /\ e =< h
  BY <1>1, <1>2, <1>3, <1>4 DEF Spots
<1> QED BY <1>5 DEF e, h

\* The next part begins behind the end of the one before it.
LEMMA BehindMoves ==
  ASSUME NEW d, Len(d) \in Nat, NEW o, NEW e \in Spots,
         NEW x, x = NextToken(d, e, Limit(d)), x # None, PartBehind(d, o, x) # None
  PROVE  /\ PartBehind(d, o, x) \in Spots
         /\ e < PartBehind(d, o, x)
         /\ PartBehind(d, o, x) =< Limit(d)
<1> DEFINE h == Limit(d)
<1>1. h \in Nat
  BY DEF Limit
<1>2. x \in e .. h - 1
  <2>1. e \in Nat \ {0}
    BY DEF Spots
  <2> QED BY <1>1, <2>1, NextTokenRange
<1>3. CASE o = "["
  <2>1. PartBehind(d, o, x) = x + 1
    BY <1>3 DEF PartBehind
  <2> HIDE DEF h
  <2>2. x + 1 \in Spots /\ e < x + 1 /\ x + 1 =< h
    BY <1>1, <1>2 DEF Spots
  <2> QED BY <2>1, <2>2 DEF h
<1>4. CASE o # "["
  <2> DEFINE y == NextToken(d, x + 1, h)
  <2>1. PartBehind(d, o, x) = y
    BY <1>4 DEF PartBehind
  <2>2. y \in x + 1 .. h - 1
    <3>1. x + 1 \in Nat \ {0}
      BY <1>1, <1>2 DEF Spots
    <3> QED BY <1>1, <2>1, <3>1, NextTokenRange
  <2> HIDE DEF h, y
  <2>3. y \in Spots /\ e < y /\ y =< h
    BY <1>1, <1>2, <2>2 DEF Spots
  <2> QED BY <2>1, <2>3 DEF h
<1> QED BY <1>3, <1>4

\* What is left is an outcome when it is one at every later part, and does not
\* depend on what is left at earlier ones.
LEMMA OnwardIsOutcome ==
  ASSUME NEW d, Len(d) \in Nat, NEW o, NEW e \in Spots,
         NEW left \in [Spots -> Outcomes]
  PROVE  /\ Onward(d, o, left, e) \in Outcomes
         /\ \A other :
              (\A p \in Spots : e < p /\ p =< Limit(d) => other[p] = left[p])
                => Onward(d, o, other, e) = Onward(d, o, left, e)
<1> DEFINE x == NextToken(d, e, Limit(d))
           b == PartBehind(d, o, x)
           Go(f) == IF x = None THEN Lost("bad")
                    ELSE IF d[x] = Closer(o) THEN Ended
                    ELSE IF d[x] # Comma \/ b = None THEN Lost("bad")
                    ELSE f[b]
<1>1. \A f : Onward(d, o, f, e) = Go(f)
  BY DEF Onward
<1>2. Lost("bad") \in Outcomes /\ Ended \in Outcomes
  BY DEF Lost, Ended, Outcomes
<1>3. x # None /\ b # None => b \in Spots /\ e < b /\ b =< Limit(d)
  BY BehindMoves
<1> HIDE DEF x, b
<1>4. Go(left) \in Outcomes
  <2>1. x # None /\ b # None => left[b] \in Outcomes
    BY <1>3
  <2> QED BY <1>2, <2>1
<1>5. ASSUME NEW other,
             \A p \in Spots : e < p /\ p =< Limit(d) => other[p] = left[p]
      PROVE  Go(other) = Go(left)
  <2>1. x # None /\ b # None => other[b] = left[b]
    BY <1>3, <1>5
  <2> QED BY <2>1
<1> HIDE DEF Go
<1> QED BY <1>1, <1>4, <1>5

\* The recursion over the parts is well defined: every part ends behind the
\* place it is read from.
LEMMA RemainingUnfold ==
  ASSUME NEW d, Len(d) \in Nat, NEW o
  PROVE  /\ Remaining(d, o) \in [Spots -> Outcomes]
         /\ \A p \in Spots : Remaining(d, o)[p] = Turn(d, o, Remaining(d, o), p)
<1> DEFINE S == Spots
           V == Outcomes
           h == Limit(d)
           Body(f, p) == Turn(d, o, f, p)
           rank == [p \in S |-> IF p =< h THEN h - p ELSE 0]
           G == [f \in [S -> V] |-> [p \in S |-> Body(f, p)]]
<1>1. h \in Nat /\ \A p \in S : p \in Nat
  BY DEF Limit, Spots
<1>2. Ended \in V /\ Lost("bad") \in V /\ Lost("key") \in V
  BY DEF Lost, Ended, Outcomes
<1>3. ASSUME NEW f \in [S -> V], NEW p \in S PROVE Body(f, p) \in V
  <2>1. IsPart(d, o, p) => Onward(d, o, f, ValueOf(d, o, p).end) \in V
    BY PartMoves, OnwardIsOutcome
  <2>2. \A r \in V : Plus(1, r) \in V
    BY DEF Plus, Outcomes
  <2> QED BY <1>2, <2>1, <2>2 DEF Turn
<1>4. ASSUME NEW f, NEW g \in [S -> V], NEW p \in S,
             \A t \in S : rank[t] < rank[p] => f[t] = g[t]
      PROVE  Body(f, p) = Body(g, p)
  <2> DEFINE e == ValueOf(d, o, p).end
  <2>1. IsPart(d, o, p) => Onward(d, o, f, e) = Onward(d, o, g, e)
    <3> SUFFICES ASSUME IsPart(d, o, p) PROVE Onward(d, o, f, e) = Onward(d, o, g, e)
      OBVIOUS
    <3>1. e \in S /\ p < e /\ e =< h
      BY PartMoves
    <3> HIDE DEF e, h
    <3>2. ASSUME NEW t \in S, e < t, t =< h PROVE f[t] = g[t]
      <4>1. rank[t] < rank[p]
        BY <1>1, <3>1, <3>2
      <4> QED BY <1>4, <4>1
    <3>3. \A t \in S : e < t /\ t =< Limit(d) => f[t] = g[t]
      BY <3>2 DEF h
    <3> QED BY <3>1, <3>3, OnwardIsOutcome
  <2> QED BY <2>1 DEF Turn
<1>5. rank \in [S -> Nat]
  <2> HIDE DEF h
  <2> QED BY <1>1
<1> HIDE DEF Body, rank, S, V
<1>6. G \in [[S -> V] -> [S -> V]]
  BY <1>3
<1>7. \A f, g \in [S -> V], p \in S :
        (\A t \in S : rank[t] < rank[p] => f[t] = g[t]) => G[f][p] = G[g][p]
  BY <1>4
<1>8. \E f \in [S -> V] : f = G[f]
  <2> HIDE DEF G
  <2>1. DescendsIn(G, S, V, rank)
    BY <1>5, <1>6, <1>7 DEF DescendsIn
  <2>2. V # {}
    BY <1>2
  <2> QED BY <2>1, <2>2, RecursionHasSolution
<1>9. \E f : f = [p \in S |-> Body(f, p)]
  BY <1>8
<1>10. Remaining(d, o) = CHOOSE f : f = [p \in S |-> Body(f, p)]
  BY DEF Remaining, Body, S
<1>11. Remaining(d, o) = [p \in S |-> Body(Remaining(d, o), p)]
  BY <1>9, <1>10
<1> DEFINE r == Remaining(d, o)
<1> HIDE DEF r, G
<1>12. r = [p \in S |-> Body(r, p)]
  BY <1>11 DEF r
<1>13. \A p \in S : r[p] = Body(r, p)
  BY <1>12
<1> DEFINE T == {p \in S : r[p] \in V}
<1>14. ASSUME NEW p \in S, \A t \in S : rank[t] < rank[p] => t \in T
       PROVE  p \in T
  <2> DEFINE g == [t \in S |-> IF r[t] \in V THEN r[t] ELSE Ended]
  <2>1. g \in [S -> V]
    BY <1>2
  <2>2. \A t \in S : rank[t] < rank[p] => r[t] = g[t]
    BY <1>14
  <2> HIDE DEF g
  <2>3. Body(r, p) = Body(g, p)
    BY <1>4, <2>1, <2>2
  <2> QED BY <1>3, <1>13, <2>1, <2>3
<1>15. S \subseteq T
  <2> HIDE DEF T
  <2> QED BY <1>5, <1>14, RankInduction
<1>16. r \in [S -> V]
  BY <1>12, <1>13, <1>15
<1> QED BY <1>13, <1>16 DEF r, Body, S, V

---------------------------------------------------------------------------
\* Parts are added up.
LEMMA PlusSums ==
  ASSUME NEW k \in Nat, NEW r \in Outcomes
  PROVE  /\ Plus(k, Plus(1, r)) = Plus(k + 1, r)
         /\ Plus(0, r) = r
         /\ Plus(k, Lost("key")).how = "key"
<1>1. r = [n |-> r.n, how |-> r.how] /\ r.n \in Nat
  BY DEF Outcomes
<1>2. Plus(0, r) = r
  BY <1>1 DEF Plus
<1>3. k + (1 + r.n) = k + 1 + r.n
  BY <1>1
<1>4. Plus(k, Plus(1, r)) = Plus(k + 1, r)
  BY <1>3 DEF Plus
<1>5. Plus(k, Lost("key")).how = "key"
  BY DEF Plus, Lost
<1> QED BY <1>2, <1>4, <1>5

\* A comma, a colon and a quote close nothing.
LEMMA CommaDiffers ==
  ASSUME NEW o, Opener(o)
  PROVE  /\ Comma # Closer(o) /\ ":" # Closer(o) /\ Quote # Closer(o)
         /\ Comma \notin Blank /\ ":" \notin Blank /\ Quote \notin Blank
         /\ Closer(o) \notin Blank /\ o \notin Blank
<1>1. Comma # Closer(o) /\ ":" # Closer(o) /\ Quote # Closer(o)
  BY Zenon DEF Comma, Closer, Quote
<1>2. Comma \notin Blank /\ ":" \notin Blank /\ Quote \notin Blank
  BY Zenon DEF Comma, Blank, Quote
<1>3. Closer(o) \notin Blank
  BY Zenon DEF Closer, Blank
<1>4. o \notin Blank
  BY Zenon DEF Opener, Blank
<1> QED BY <1>1, <1>2, <1>3, <1>4

\* What is left behind an end is what the iteration says.
LEMMA AfterIsOutcome ==
  ASSUME NEW d, Len(d) \in Nat, NEW o, NEW e \in Spots
  PROVE  After(d, o, e) \in Outcomes
<1>1. Remaining(d, o) \in [Spots -> Outcomes]
  BY RemainingUnfold
<1> QED BY <1>1, OnwardIsOutcome DEF After

\* Reading a part brings the iteration one part on.
LEMMA PartRead ==
  ASSUME NEW d, Len(d) \in Nat, NEW o, Opener(o), NEW p \in Spots,
         ~IsEnd(d, o, p), ~HasBadKey(d, o, p), IsPart(d, o, p)
  PROVE  /\ ValueOf(d, o, p).end \in Spots
         /\ Remaining(d, o)[p] = Plus(1, After(d, o, ValueOf(d, o, p).end))
<1>1. Remaining(d, o)[p] = Turn(d, o, Remaining(d, o), p)
  BY RemainingUnfold
<1>2. ValueOf(d, o, p).end \in Spots
  BY PartMoves
<1> QED BY <1>1, <1>2 DEF Turn, After

\* A value the counting scan has read, beginning where the iteration expects
\* one, is one the iteration has read.
LEMMA ValueRead ==
  ASSUME NEW d, Len(d) \in Nat, NEW o, Opener(o), NEW from, NEW k \in Nat,
         NEW s \in Spots, NEW q \in s .. Limit(d) - 1, Blanks(d, s, q),
         d[q] \notin Blank, d[q] \notin Closers,
         ValueFrom(d, o, from, s, k),
         NEW v, v = ClosestValue(d, q, Limit(d)), v.err = "none"
  PROVE  v.end \in Spots /\ InStep(d, o, from, k + 1, After(d, o, v.end))
<1>1. Limit(d) \in Nat /\ s \in Nat \ {0} /\ q \in Nat /\ s =< q
  BY DEF Limit, Spots
<1>2. v = ClosestValue(d, s, Limit(d)) /\ NextToken(d, s, Limit(d)) = q
  BY <1>1, BehindBlanks, NextTokenBehind
<1>3. Closer(o) \in Closers
  BY BytesDiffer
<1>4. \A e \in Spots : InStep(d, o, from, k, Plus(1, After(d, o, e)))
                         => InStep(d, o, from, k + 1, After(d, o, e))
  BY AfterIsOutcome, PlusSums DEF InStep
<1>5. CASE o = "[" /\ k # 0
  <2>1. InStep(d, o, from, k, Remaining(d, o)[s])
    BY <1>5 DEF ValueFrom
  <2>2. ValueOf(d, o, s) = v
    BY <1>2, <1>5 DEF ValueOf, ValueSpot
  <2>3. ~IsEnd(d, o, s) /\ ~HasBadKey(d, o, s) /\ IsPart(d, o, s)
    BY <1>5, <2>2 DEF IsEnd, HasBadKey, IsPart
  <2>4. v.end \in Spots /\ Remaining(d, o)[s] = Plus(1, After(d, o, v.end))
    BY <2>2, <2>3, PartRead
  <2> QED BY <1>4, <2>1, <2>4
<1>6. CASE o = "[" /\ k = 0
  <2>1. Opened(d, o, from) /\ s = Opening(d, from) + 1
    BY <1>6 DEF ValueFrom
  <2>2. FirstPart(d, from) = q /\ q # None
    BY <1>1, <1>2, <2>1 DEF FirstPart, None
  <2>3. Total(d, o, from) = Remaining(d, o)[q]
    BY <1>3, <2>1, <2>2 DEF Total
  <2>4. q \in Spots
    BY <1>1 DEF Spots
  <2>5. ValueOf(d, o, q) = v
    BY <1>6 DEF ValueOf, ValueSpot
  <2>6. ~IsEnd(d, o, q) /\ ~HasBadKey(d, o, q) /\ IsPart(d, o, q)
    BY <1>6, <2>5 DEF IsEnd, HasBadKey, IsPart
  <2>7. v.end \in Spots /\ Remaining(d, o)[q] = Plus(1, After(d, o, v.end))
    BY <2>4, <2>5, <2>6, PartRead
  <2>8. k + 1 = 1
    BY <1>6
  <2> QED BY <2>3, <2>7, <2>8 DEF InStep
<1>7. CASE o # "["
  <2>1. PICK p \in Spots : /\ InStep(d, o, from, k, Remaining(d, o)[p])
                           /\ d[p] = Quote /\ KeyEndOf(d, p) # None
                           /\ HasColon(d, p) /\ s = ColonOf(d, p) + 1
    BY <1>7 DEF ValueFrom
  <2>2. ValueOf(d, o, p) = v
    BY <1>2, <1>7, <2>1 DEF ValueOf, ValueSpot
  <2>3. HasKey(d, p)
    BY <2>1 DEF HasKey, Quotes
  <2>4. ~IsEnd(d, o, p)
    BY <2>1, CommaDiffers DEF IsEnd
  <2>5. v.end \in Spots
    <3>1. v.end \in NextToken(d, s, Limit(d)) + 1 .. Limit(d)
      BY <1>1, <1>2, SoundValueEnds
    <3> QED BY <1>1, <1>2, <3>1 DEF Spots
  <2>6. CASE KeyOf(d, p) = BadText
    <3>1. HasBadKey(d, o, p)
      BY <1>7, <2>3, <2>6 DEF HasBadKey
    <3>2. Remaining(d, o)[p] = Lost("key")
      <4>1. Remaining(d, o)[p] = Turn(d, o, Remaining(d, o), p)
        BY RemainingUnfold
      <4> QED BY <2>4, <3>1, <4>1 DEF Turn
    <3>3. Plus(k, Lost("key")).how = "key"
      BY DEF Plus, Lost
    <3>4. Total(d, o, from).how = "key"
      BY <2>1, <3>2, <3>3 DEF InStep
    <3> QED BY <2>5, <3>4 DEF InStep
  <2>7. CASE KeyOf(d, p) # BadText
    <3>1. ~HasBadKey(d, o, p) /\ IsPart(d, o, p)
      BY <2>1, <2>2, <2>3, <2>7 DEF HasBadKey, IsPart
    <3>2. Remaining(d, o)[p] = Plus(1, After(d, o, v.end))
      BY <2>2, <2>4, <3>1, PartRead
    <3> QED BY <1>4, <2>1, <2>5, <3>2
  <2> QED BY <2>6, <2>7
<1> QED BY <1>5, <1>6, <1>7

\* Behind a comma both expect the next part.
LEMMA CommaRead ==
  ASSUME NEW d, Len(d) \in Nat, NEW o, Opener(o), NEW from, NEW k \in Nat, k # 0,
         NEW e \in Spots, NEW x \in e .. Limit(d) - 1, Blanks(d, e, x),
         d[x] = Comma, InStep(d, o, from, k, After(d, o, e))
  PROVE  /\ o = "[" => ValueFrom(d, o, from, x + 1, k)
         /\ o # "[" => \A q \in Spots : q = NextToken(d, x + 1, Limit(d))
                                          => InStep(d, o, from, k, Remaining(d, o)[q])
<1>1. Limit(d) \in Nat /\ e \in Nat \ {0} /\ x \in Nat /\ x # None
  BY DEF Limit, Spots, None
<1>2. NextToken(d, e, Limit(d)) = x
  BY <1>1, CommaDiffers, NextTokenBehind
<1>3. PartBehind(d, o, x) # None
        => After(d, o, e) = Remaining(d, o)[PartBehind(d, o, x)]
  BY <1>1, <1>2, CommaDiffers DEF After, Onward
<1>4. CASE o = "["
  <2>1. PartBehind(d, o, x) = x + 1 /\ x + 1 # None
    BY <1>1, <1>4 DEF PartBehind, None
  <2> QED BY <1>3, <1>4, <2>1 DEF ValueFrom
<1>5. CASE o # "["
  <2>1. PartBehind(d, o, x) = NextToken(d, x + 1, Limit(d))
    BY <1>5 DEF PartBehind
  <2>2. \A q \in Spots : q # None
    BY DEF Spots, None
  <2> QED BY <1>3, <1>5, <2>1, <2>2
<1> QED BY <1>4, <1>5

\* Behind the closing bracket nothing is left.
LEMMA CloserRead ==
  ASSUME NEW d, Len(d) \in Nat, NEW o, Opener(o), NEW from, NEW k \in Nat,
         NEW e \in Spots, NEW x \in e .. Limit(d) - 1, Blanks(d, e, x),
         d[x] = Closer(o), InStep(d, o, from, k, After(d, o, e))
  PROVE  InStep(d, o, from, k, Ended)
<1>1. Limit(d) \in Nat /\ e \in Nat \ {0} /\ x \in Nat /\ x # None
  BY DEF Limit, Spots, None
<1>2. NextToken(d, e, Limit(d)) = x
  BY <1>1, CommaDiffers, NextTokenBehind
<1>3. After(d, o, e) = Ended
  BY <1>1, <1>2 DEF After, Onward
<1> QED BY <1>3

---------------------------------------------------------------------------
\* Where the counting scan stands at x, with k parts counted: what it takes
\* for the start of a key, the end of one, the start of a value or the end of
\* one is that for the iteration too.
KeyAhead(d, o, from, k, x) ==
  \A q \in Spots : q = NextToken(d, x, Limit(d)) =>
    InStep(d, o, from, k, Remaining(d, o)[q])

ColonAhead(d, o, from, k, x) ==
  \E p \in Spots : /\ InStep(d, o, from, k, Remaining(d, o)[p])
                   /\ d[p] = Quote /\ KeyEndOf(d, p) # None
                   /\ KeyEndOf(d, p) + 1 =< x
                   /\ Blanks(d, KeyEndOf(d, p) + 1, x)

ValueAhead(d, o, from, k, x) ==
  \E s \in Spots : s =< x /\ Blanks(d, s, x) /\ ValueFrom(d, o, from, s, k)

\* In a scalar that begins at z, the k-th part.
InScalar(d, o, from, k, x, z) ==
  /\ z \in Spots /\ z < x
  /\ d[z] \notin Blank /\ d[z] \notin Quotes /\ ~Opener(d[z])
  /\ \A r \in z .. x - 1 : d[r] \notin Stops
  /\ ValueAhead(d, o, from, k - 1, z)

\* In a block, the k-th part.
InBlock(d, o, from, k, x, st) ==
  \E p \in Spots : /\ Nested(d, p, Limit(d), x, st)
                   /\ ValueAhead(d, o, from, k - 1, p)

PartOver(d, o, from, k, x) ==
  \E e \in Spots : /\ e =< x /\ Blanks(d, e, x)
                   /\ InStep(d, o, from, k, After(d, o, e))

Scanning(d, o, from, s, k, x, st, z) ==
  /\ x \in Spots /\ x =< Limit(d) /\ k \in Nat
  /\ st \in Stacks /\ Len(st) >= 1 /\ st[1] = Closer(o)
  /\ Len(st) > 1 => s = "delimiter"
  /\ s \in {"primitive", "delimiter"} => k # 0
  /\ s = "key" => o # "[" /\ KeyAhead(d, o, from, k, x)
  /\ s = "colon" => o # "[" /\ ColonAhead(d, o, from, k, x)
  /\ s = "value" => ValueAhead(d, o, from, k, x)
  /\ s = "primitive" => InScalar(d, o, from, k, x, z)
  /\ s = "delimiter" /\ Len(st) = 1 => PartOver(d, o, from, k, x)
  /\ s = "delimiter" /\ Len(st) > 1 => InBlock(d, o, from, k, x, st)

FirstState(o) == IF o = "[" THEN "value" ELSE "key"

\* The stack of a scan that is inside of no part.
LEMMA OneCloser ==
  ASSUME NEW st \in Stacks, Len(st) = 1
  PROVE  st[1] \in Closers /\ st = <<st[1]>>
<1>1. st[1] \in Closers
  <2>1. 1 \in 1 .. Len(st)
    OBVIOUS
  <2> QED BY <2>1, ElementOfSeq DEF Stacks
<1>2. <<st[1]>> \in Seq(Closers) /\ Len(<<st[1]>>) = 1
  BY <1>1
<1>3. \A i \in 1 .. Len(st) : st[i] = <<st[1]>>[i]
  OBVIOUS
<1>4. st \in Seq(Closers)
  BY DEF Stacks
<1> DEFINE t == <<st[1]>>
<1> HIDE DEF t
<1>5. st = t
  BY <1>2, <1>3, <1>4, SeqEqual DEF t
<1> QED BY <1>1, <1>5 DEF t

\* Behind the bracket that opens the container.
LEMMA ScanStarts ==
  ASSUME NEW d, Len(d) \in Nat, NEW o, Opener(o), NEW from \in Nat,
         Opened(d, o, from), NEW z
  PROVE  Scanning(d, o, from, FirstState(o), 0, Opening(d, from) + 1, <<Closer(o)>>, z)
<1> DEFINE x == Opening(d, from)
           st == <<Closer(o)>>
<1>1. /\ Limit(d) \in Nat /\ x \in from .. Limit(d) - 1 /\ from \in Nat \ {0}
  <2>1. Limit(d) \in Nat /\ from \in Nat \ {0}
    BY DEF Limit, Opened, None
  <2>2. x # None
    BY DEF Opened
  <2> QED BY <2>1, <2>2, NextTokenRange DEF Opening
<1>2. x + 1 \in Spots /\ x + 1 =< Limit(d)
  <2> HIDE DEF x
  <2> QED BY <1>1 DEF Spots
<1>3. st \in Stacks /\ Len(st) = 1 /\ st[1] = Closer(o)
  BY BytesDiffer DEF Stacks
<1>4. CASE o = "["
  <2>1. ValueFrom(d, o, from, x + 1, 0)
    BY <1>4 DEF ValueFrom
  <2>2. Blanks(d, x + 1, x + 1)
    <3> HIDE DEF x
    <3> QED BY <1>1 DEF Blanks
  <2>3. x + 1 =< x + 1
    <3> HIDE DEF x
    <3> QED BY <1>1
  <2>4. ValueAhead(d, o, from, 0, x + 1)
    BY <1>2, <2>1, <2>2, <2>3 DEF ValueAhead
  <2>5. FirstState(o) = "value"
    BY <1>4 DEF FirstState
  <2> HIDE DEF x, st
  <2> QED BY <1>2, <1>3, <2>4, <2>5 DEF Scanning, x, st
<1>5. CASE o # "["
  <2>1. ASSUME NEW q \in Spots, q = NextToken(d, x + 1, Limit(d))
        PROVE  InStep(d, o, from, 0, Remaining(d, o)[q])
    <3>1. q # None /\ q = FirstPart(d, from)
      BY <2>1 DEF Spots, None, FirstPart
    <3>2. Remaining(d, o)[q] = Turn(d, o, Remaining(d, o), q)
          /\ Remaining(d, o)[q] \in Outcomes
      BY RemainingUnfold
    <3>3. d[q] = Closer(o) => Remaining(d, o)[q] = Ended
      BY <1>5, <3>2 DEF Turn, IsEnd
    <3>4. Total(d, o, from) = Remaining(d, o)[q]
      BY <3>1, <3>3 DEF Total
    <3>5. Plus(0, Remaining(d, o)[q]) = Remaining(d, o)[q]
      BY <3>2, PlusSums
    <3> QED BY <3>4, <3>5 DEF InStep
  <2>2. KeyAhead(d, o, from, 0, x + 1)
    BY <2>1 DEF KeyAhead
  <2>3. FirstState(o) = "key"
    BY <1>5 DEF FirstState
  <2> HIDE DEF x, st
  <2> QED BY <1>2, <1>3, <1>5, <2>2, <2>3 DEF Scanning, x, st
<1> QED BY <1>4, <1>5

\* One blank more.
LEMMA BlanksNext ==
  ASSUME NEW d, NEW i \in Nat, NEW x \in Nat, i =< x, Blanks(d, i, x), d[x] \in Blank
  PROVE  Blanks(d, i, x + 1)
<1>1. \A y \in i .. (x + 1) - 1 : y \in i .. x - 1 \/ y = x
  OBVIOUS
<1> QED BY <1>1 DEF Blanks

\* Whitespace between the tokens of the container.
LEMMA ScanSkips ==
  ASSUME NEW d, Len(d) \in Nat, NEW o, NEW from, NEW s, NEW k, NEW x, NEW st, NEW z,
         Scanning(d, o, from, s, k, x, st, z), x < Limit(d), d[x] \in Blank,
         Len(st) = 1, s \in {"key", "colon", "value", "delimiter"}
  PROVE  Scanning(d, o, from, s, k, x + 1, st, z)
<1>1. Limit(d) \in Nat /\ x \in Nat \ {0}
  BY DEF Limit, Scanning, Spots
<1>2. x + 1 \in Spots /\ x + 1 =< Limit(d)
  BY <1>1 DEF Spots
<1>3. s = "key" => KeyAhead(d, o, from, k, x + 1)
  <2>1. Blanks(d, x, x + 1) /\ x =< x + 1 /\ x + 1 \in Nat
    BY <1>1 DEF Blanks
  <2>2. NextToken(d, x, Limit(d)) = NextToken(d, x + 1, Limit(d))
    BY <1>1, <2>1, BehindBlanks
  <2> QED BY <2>2 DEF Scanning, KeyAhead
<1>4. s = "colon" => ColonAhead(d, o, from, k, x + 1)
  <2> SUFFICES ASSUME s = "colon" PROVE ColonAhead(d, o, from, k, x + 1)
    OBVIOUS
  <2>1. PICK p \in Spots : /\ InStep(d, o, from, k, Remaining(d, o)[p])
                           /\ d[p] = Quote /\ KeyEndOf(d, p) # None
                           /\ KeyEndOf(d, p) + 1 =< x
                           /\ Blanks(d, KeyEndOf(d, p) + 1, x)
    BY DEF Scanning, ColonAhead
  <2>2. KeyEndOf(d, p) + 1 \in Nat
    <3>1. p + 1 \in Nat \ {0}
      BY DEF Spots
    <3>2. KeyEndOf(d, p) \in p + 1 .. Limit(d) - 1
      BY <1>1, <2>1, <3>1, StringEndRange DEF KeyEndOf
    <3> QED BY <3>1, <3>2
  <2> DEFINE i == KeyEndOf(d, p) + 1
  <2> HIDE DEF i
  <2>3. i \in Nat /\ i =< x /\ Blanks(d, i, x)
    BY <2>1, <2>2 DEF i
  <2>4. Blanks(d, i, x + 1) /\ i =< x + 1
    BY <1>1, <2>3, BlanksNext
  <2> QED BY <2>1, <2>4 DEF ColonAhead, i
<1>5. s = "value" => ValueAhead(d, o, from, k, x + 1)
  <2> SUFFICES ASSUME s = "value" PROVE ValueAhead(d, o, from, k, x + 1)
    OBVIOUS
  <2>1. PICK i \in Spots : i =< x /\ Blanks(d, i, x) /\ ValueFrom(d, o, from, i, k)
    BY DEF Scanning, ValueAhead
  <2>2. Blanks(d, i, x + 1) /\ i =< x + 1
    BY <1>1, <2>1, BlanksNext DEF Spots
  <2> QED BY <2>1, <2>2 DEF ValueAhead
<1>6. s = "delimiter" => PartOver(d, o, from, k, x + 1)
  <2> SUFFICES ASSUME s = "delimiter" PROVE PartOver(d, o, from, k, x + 1)
    OBVIOUS
  <2>1. PICK i \in Spots : /\ i =< x /\ Blanks(d, i, x)
                           /\ InStep(d, o, from, k, After(d, o, i))
    BY DEF Scanning, PartOver
  <2>2. Blanks(d, i, x + 1) /\ i =< x + 1
    BY <1>1, <2>1, BlanksNext DEF Spots
  <2> QED BY <2>1, <2>2 DEF PartOver
<1>7. /\ k \in Nat /\ st \in Stacks /\ Len(st) >= 1 /\ st[1] = Closer(o)
      /\ s \in {"primitive", "delimiter"} => k # 0
      /\ s \in {"key", "colon"} => o # "["
  BY DEF Scanning
<1> QED BY <1>2, <1>3, <1>4, <1>5, <1>6, <1>7 DEF Scanning

\* What the scan knows about itself anywhere inside the container.
LEMMA ScanningRange ==
  ASSUME NEW d, Len(d) \in Nat, NEW o, NEW from, NEW s, NEW k, NEW x, NEW st, NEW z,
         Scanning(d, o, from, s, k, x, st, z), x < Limit(d)
  PROVE  /\ Limit(d) \in Nat /\ x \in Nat \ {0} /\ x \in Spots
         /\ x + 1 \in Spots /\ x + 1 =< Limit(d)
         /\ k \in Nat /\ k + 1 \in Nat /\ k + 1 # 0 /\ (k + 1) - 1 = k
         /\ st \in Stacks /\ Len(st) \in Nat /\ Len(st) >= 1 /\ st[1] = Closer(o)
         /\ s # "delimiter" => Len(st) = 1
<1>1. Limit(d) \in Nat /\ x \in Nat \ {0} /\ k \in Nat /\ x \in Spots
  BY DEF Limit, Scanning, Spots
<1>2. st \in Stacks /\ Len(st) \in Nat /\ Len(st) >= 1 /\ st[1] = Closer(o)
  BY LenProperties DEF Scanning, Stacks
<1>3. /\ x + 1 \in Nat \ {0} /\ x + 1 =< Limit(d)
      /\ k + 1 \in Nat /\ k + 1 # 0 /\ (k + 1) - 1 = k
  BY <1>1
<1>4. s # "delimiter" => Len(st) = 1
  <2>1. s # "delimiter" => ~(Len(st) > 1)
    BY DEF Scanning
  <2> QED BY <1>2, <2>1
<1> QED BY <1>1, <1>2, <1>3, <1>4 DEF Spots

\* An object that is empty, at its closing brace.
LEMMA KeyCloses ==
  ASSUME NEW d, Len(d) \in Nat, NEW o, Opener(o), NEW from, NEW x, NEW st, NEW z,
         Scanning(d, o, from, "key", 0, x, st, z), x < Limit(d), d[x] = Closer(o)
  PROVE  InStep(d, o, from, 0, Ended)
<1>1. Limit(d) \in Nat /\ x \in Nat \ {0} /\ x \in Spots
  BY ScanningRange
<1>2. NextToken(d, x, Limit(d)) = x
  BY <1>1, CommaDiffers, NextTokenRange
<1>3. o # "[" /\ InStep(d, o, from, 0, Remaining(d, o)[x])
  BY <1>1, <1>2 DEF Scanning, KeyAhead
<1>4. Remaining(d, o)[x] = Turn(d, o, Remaining(d, o), x)
  BY <1>1, RemainingUnfold
<1>5. Remaining(d, o)[x] = Ended
  BY <1>3, <1>4 DEF Turn, IsEnd
<1> QED BY <1>3, <1>5

\* The key of a member.
LEMMA KeyReads ==
  ASSUME NEW d, Len(d) \in Nat, NEW o, NEW from, NEW k, NEW x, NEW st, NEW z,
         Scanning(d, o, from, "key", k, x, st, z), x < Limit(d), d[x] = Quote,
         NEW c, c = StringEnd(d, x + 1, Limit(d), Quote), c # None
  PROVE  Scanning(d, o, from, "colon", k, c + 1, st, z)
<1>1. /\ Limit(d) \in Nat /\ x \in Nat \ {0} /\ x \in Spots /\ k \in Nat
      /\ st \in Stacks /\ Len(st) >= 1 /\ st[1] = Closer(o) /\ Len(st) \in Nat
  BY ScanningRange
<1>2. c \in x + 1 .. Limit(d) - 1
  <2>1. x + 1 \in Nat \ {0}
    BY <1>1
  <2> QED BY <1>1, <2>1, StringEndRange
<1>3. c + 1 \in Nat \ {0} /\ c + 1 =< Limit(d) /\ c + 1 =< c + 1
  BY <1>1, <1>2
<1>4. NextToken(d, x, Limit(d)) = x
  <2>1. d[x] \notin Blank
    BY Zenon DEF Blank, Quote
  <2> QED BY <1>1, <2>1, NextTokenRange
<1>5. o # "[" /\ InStep(d, o, from, k, Remaining(d, o)[x]) /\ ~(Len(st) > 1)
  <2>1. o # "[" /\ KeyAhead(d, o, from, k, x) /\ ~(Len(st) > 1)
    BY DEF Scanning
  <2> QED BY <1>1, <1>4, <2>1 DEF KeyAhead
<1>6. KeyEndOf(d, x) = c
  BY DEF KeyEndOf
<1>7. Blanks(d, c + 1, c + 1)
  BY <1>2 DEF Blanks
<1>8. ColonAhead(d, o, from, k, c + 1)
  BY <1>1, <1>3, <1>5, <1>6, <1>7 DEF ColonAhead
<1> QED BY <1>1, <1>3, <1>5, <1>8 DEF Scanning, Spots

\* Its colon.
LEMMA ColonReads ==
  ASSUME NEW d, Len(d) \in Nat, NEW o, Opener(o), NEW from, NEW k, NEW x, NEW st, NEW z,
         Scanning(d, o, from, "colon", k, x, st, z), x < Limit(d), d[x] = ":"
  PROVE  Scanning(d, o, from, "value", k, x + 1, st, z)
<1>1. /\ Limit(d) \in Nat /\ x \in Nat \ {0} /\ k \in Nat
      /\ x + 1 \in Spots /\ x + 1 =< Limit(d)
      /\ st \in Stacks /\ Len(st) >= 1 /\ st[1] = Closer(o) /\ Len(st) \in Nat
  BY ScanningRange
<1>2. PICK p \in Spots : /\ InStep(d, o, from, k, Remaining(d, o)[p])
                         /\ d[p] = Quote /\ KeyEndOf(d, p) # None
                         /\ KeyEndOf(d, p) + 1 =< x
                         /\ Blanks(d, KeyEndOf(d, p) + 1, x)
  BY DEF Scanning, ColonAhead
<1>3. KeyEndOf(d, p) \in p + 1 .. Limit(d) - 1
  <2>1. p + 1 \in Nat \ {0}
    BY DEF Spots
  <2> QED BY <1>1, <1>2, <2>1, StringEndRange DEF KeyEndOf
<1>4. o # "[" /\ ~(Len(st) > 1)
  BY DEF Scanning
<1>5. ColonOf(d, p) = x
  <2> DEFINE i == KeyEndOf(d, p) + 1
  <2>1. i \in Nat \ {0} /\ i =< x
    BY <1>2, <1>3 DEF Spots
  <2>2. Blanks(d, i, x)
    BY <1>2
  <2> HIDE DEF i
  <2>3. x \in i .. Limit(d) - 1
    BY <1>1, <2>1
  <2>4. NextToken(d, i, Limit(d)) = x
    BY <1>1, <2>1, <2>2, <2>3, CommaDiffers, NextTokenBehind
  <2> QED BY <2>4 DEF i, ColonOf
<1>6. HasColon(d, p)
  BY <1>1, <1>5 DEF HasColon, None
<1>7. ValueFrom(d, o, from, x + 1, k)
  BY <1>2, <1>4, <1>5, <1>6 DEF ValueFrom
<1>8. x + 1 =< x + 1 /\ Blanks(d, x + 1, x + 1)
  BY <1>1 DEF Blanks
<1>9. ValueAhead(d, o, from, k, x + 1)
  BY <1>1, <1>7, <1>8 DEF ValueAhead
<1> QED BY <1>1, <1>4, <1>9 DEF Scanning

\* An array that is empty, at its closing bracket.
LEMMA ValueCloses ==
  ASSUME NEW d, Len(d) \in Nat, NEW o, Opener(o), o = "[", NEW from \in Nat, NEW x,
         NEW st, NEW z,
         Scanning(d, o, from, "value", 0, x, st, z), x < Limit(d), d[x] = Closer(o)
  PROVE  InStep(d, o, from, 0, Ended)
<1>1. Limit(d) \in Nat /\ x \in Nat \ {0}
  BY ScanningRange
<1>2. PICK s \in Spots : s =< x /\ Blanks(d, s, x) /\ ValueFrom(d, o, from, s, 0)
  BY DEF Scanning, ValueAhead
<1>3. Opened(d, o, from) /\ s = Opening(d, from) + 1
  BY <1>2 DEF ValueFrom
<1>4. NextToken(d, s, Limit(d)) = x
  <2>1. s \in Nat \ {0} /\ x \in s .. Limit(d) - 1
    BY <1>1, <1>2 DEF Spots
  <2> QED BY <1>1, <1>2, <2>1, CommaDiffers, NextTokenBehind
<1>5. FirstPart(d, from) = x /\ x # None
  BY <1>1, <1>3, <1>4 DEF FirstPart, None
<1>6. Total(d, o, from) = Ended
  BY <1>3, <1>5 DEF Total
<1>7. Plus(0, Ended) = Ended
  BY DEF Plus, Ended
<1> QED BY <1>6, <1>7 DEF InStep

\* A part that is a block.
LEMMA ValueOpens ==
  ASSUME NEW d, Len(d) \in Nat, NEW o, Opener(o), NEW from, NEW k, NEW x, NEW st, NEW z,
         Scanning(d, o, from, "value", k, x, st, z), x < Limit(d), Opener(d[x])
  PROVE  Scanning(d, o, from, "delimiter", k + 1, x + 1, Append(st, Closer(d[x])), z)
<1> DEFINE b == Closer(d[x])
<1>1. /\ Limit(d) \in Nat /\ x \in Nat \ {0} /\ x \in Spots
      /\ x + 1 \in Spots /\ x + 1 =< Limit(d)
      /\ k \in Nat /\ k + 1 \in Nat /\ k + 1 # 0 /\ (k + 1) - 1 = k
      /\ st \in Stacks /\ Len(st) \in Nat /\ Len(st) >= 1 /\ st[1] = Closer(o)
  BY ScanningRange
<1>2. Len(st) = 1 /\ ValueAhead(d, o, from, k, x)
  <2>1. ~(Len(st) > 1) /\ ValueAhead(d, o, from, k, x)
    BY DEF Scanning
  <2>2. Len(st) = 1
    BY ScanningRange
  <2> QED BY <2>1, <2>2, Zenon
<1>3. b \in Closers
  BY BytesDiffer
<1>4. st = <<Closer(o)>> /\ Closer(o) \in Closers
  BY <1>1, <1>2, OneCloser
<1>5. Nested(d, x, Limit(d), x + 1, Append(st, b))
  BY <1>1, <1>4, NestedOpens
<1> HIDE DEF b
<1>6. Append(st, b) \in Stacks /\ Len(Append(st, b)) = 2
  <2>1. Len(Append(st, b)) = Len(st) + 1
    BY <1>1, <1>3, WaitingPushed
  <2>2. Append(st, b) \in Stacks
    BY <1>1, <1>3, WaitingPushed
  <2> QED BY <1>2, <2>1, <2>2
<1>7. Append(st, b)[1] = Closer(o)
  <2>1. 1 \in 1 .. Len(st) /\ st \in Seq(Closers)
    BY <1>2, <1>1 DEF Stacks
  <2>2. Append(st, b)[1] = st[1]
    BY <1>3, <2>1, AppendProperties
  <2> QED BY <1>1, <2>2
<1>8. InBlock(d, o, from, k + 1, x + 1, Append(st, b))
  BY <1>1, <1>2, <1>5 DEF InBlock
<1> DEFINE t == Append(st, b)
<1> HIDE DEF t
<1>9. t \in Stacks /\ Len(t) = 2 /\ t[1] = Closer(o)
  BY <1>6, <1>7 DEF t
<1>10. InBlock(d, o, from, k + 1, x + 1, t)
  BY <1>8 DEF t
<1>11. Scanning(d, o, from, "delimiter", k + 1, x + 1, t, z)
  BY <1>1, <1>9, <1>10 DEF Scanning
<1> QED BY <1>11 DEF t, b

\* What was read as the next part, and ends at e.
LEMMA ValueEnds ==
  ASSUME NEW d, Len(d) \in Nat, NEW o, Opener(o), NEW from, NEW k \in Nat,
         NEW q \in Spots, q < Limit(d), ValueAhead(d, o, from, k, q),
         d[q] \notin Blank, d[q] \notin Closers,
         ClosestValue(d, q, Limit(d)).err = "none", NEW x \in Spots,
         ClosestValue(d, q, Limit(d)).end =< x,
         Blanks(d, ClosestValue(d, q, Limit(d)).end, x)
  PROVE  PartOver(d, o, from, k + 1, x)
<1> DEFINE v == ClosestValue(d, q, Limit(d))
<1>1. PICK s \in Spots : s =< q /\ Blanks(d, s, q) /\ ValueFrom(d, o, from, s, k)
  BY DEF ValueAhead
<1>2. q \in s .. Limit(d) - 1
  BY <1>1 DEF Spots, Limit
<1>3. v.end \in Spots /\ InStep(d, o, from, k + 1, After(d, o, v.end))
  BY <1>1, <1>2, ValueRead
<1>4. v.end =< x /\ Blanks(d, v.end, x)
  OBVIOUS
<1> HIDE DEF v
<1> QED BY <1>3, <1>4 DEF PartOver

\* A part that is a string.
LEMMA ValueString ==
  ASSUME NEW d, Len(d) \in Nat, NEW o, Opener(o), NEW from, NEW k, NEW x, NEW st, NEW z,
         Scanning(d, o, from, "value", k, x, st, z), x < Limit(d), d[x] = Quote,
         NEW c, c = StringEnd(d, x + 1, Limit(d), Quote), c # None
  PROVE  Scanning(d, o, from, "delimiter", k + 1, c + 1, st, z)
<1>1. /\ Limit(d) \in Nat /\ x \in Nat \ {0} /\ x \in Spots
      /\ k \in Nat /\ k + 1 \in Nat /\ k + 1 # 0
      /\ st \in Stacks /\ Len(st) \in Nat /\ Len(st) >= 1 /\ st[1] = Closer(o)
  BY ScanningRange
<1>2. Len(st) = 1 /\ ValueAhead(d, o, from, k, x)
  <2>1. ~(Len(st) > 1) /\ ValueAhead(d, o, from, k, x)
    BY DEF Scanning
  <2>2. Len(st) = 1
    BY ScanningRange
  <2> QED BY <2>1, <2>2, Zenon
<1>3. /\ ClosestValue(d, x, Limit(d)).err = "none"
      /\ ClosestValue(d, x, Limit(d)).end = c + 1
  BY <1>1, StringRead
<1>4. c \in x + 1 .. Limit(d) - 1
  <2>1. x + 1 \in Nat \ {0}
    BY <1>1
  <2> QED BY <1>1, <2>1, StringEndRange
<1>5. c + 1 \in Spots /\ c + 1 =< Limit(d) /\ c + 1 =< c + 1 /\ Blanks(d, c + 1, c + 1)
  BY <1>1, <1>4 DEF Spots, Blanks
<1>6. d[x] \notin Blank /\ d[x] \notin Closers
  BY Zenon DEF Blank, Closers, Quote
<1>7. PartOver(d, o, from, k + 1, c + 1)
  BY <1>1, <1>2, <1>3, <1>5, <1>6, ValueEnds
<1> QED BY <1>1, <1>2, <1>5, <1>7 DEF Scanning

\* A part that is a scalar.
LEMMA ValueScalar ==
  ASSUME NEW d, Len(d) \in Nat, NEW o, NEW from, NEW k, NEW x, NEW st, NEW z,
         Scanning(d, o, from, "value", k, x, st, z), x < Limit(d),
         d[x] \notin Blank, d[x] \notin Quotes, ~Opener(d[x]), d[x] \notin Stops
  PROVE  Scanning(d, o, from, "primitive", k + 1, x + 1, st, x)
<1>1. /\ Limit(d) \in Nat /\ x \in Nat \ {0} /\ x \in Spots
      /\ x + 1 \in Spots /\ x + 1 =< Limit(d)
      /\ k \in Nat /\ k + 1 \in Nat /\ k + 1 # 0 /\ (k + 1) - 1 = k
      /\ st \in Stacks /\ Len(st) \in Nat /\ Len(st) >= 1 /\ st[1] = Closer(o)
  BY ScanningRange
<1>2. Len(st) = 1 /\ ValueAhead(d, o, from, k, x)
  <2>1. ~(Len(st) > 1) /\ ValueAhead(d, o, from, k, x)
    BY DEF Scanning
  <2>2. Len(st) = 1
    BY ScanningRange
  <2> QED BY <2>1, <2>2, Zenon
<1>3. x < x + 1 /\ \A r \in x .. (x + 1) - 1 : r = x
  BY <1>1
<1>4. InScalar(d, o, from, k + 1, x + 1, x)
  BY <1>1, <1>2, <1>3 DEF InScalar
<1> QED BY <1>1, <1>2, <1>4 DEF Scanning

\* One byte more of it.
LEMMA ScalarGoesOn ==
  ASSUME NEW d, Len(d) \in Nat, NEW o, NEW from, NEW k, NEW x, NEW st, NEW z,
         Scanning(d, o, from, "primitive", k, x, st, z), x < Limit(d),
         d[x] \notin Stops
  PROVE  Scanning(d, o, from, "primitive", k, x + 1, st, z)
<1>1. /\ Limit(d) \in Nat /\ x \in Nat \ {0} /\ x \in Spots
      /\ x + 1 \in Spots /\ x + 1 =< Limit(d) /\ k \in Nat
      /\ st \in Stacks /\ Len(st) \in Nat /\ Len(st) >= 1 /\ st[1] = Closer(o)
  BY ScanningRange
<1>2. Len(st) = 1 /\ k # 0 /\ InScalar(d, o, from, k, x, z)
  BY <1>1 DEF Scanning
<1>3. \A r \in z .. (x + 1) - 1 : r \in z .. x - 1 \/ r = x
  BY <1>1, <1>2 DEF InScalar, Spots
<1>4. z < x + 1
  BY <1>1, <1>2 DEF InScalar, Spots
<1>5. InScalar(d, o, from, k, x + 1, z)
  BY <1>2, <1>3, <1>4 DEF InScalar
<1> QED BY <1>1, <1>2, <1>5 DEF Scanning

\* The end of it: a comma or a closing bracket.
LEMMA ScalarEnds ==
  ASSUME text \in Seq(STRING), NEW o, Opener(o), NEW from, NEW k, NEW x, NEW st, NEW z,
         Scanning(text, o, from, "primitive", k, x, st, z), x < Limit(text),
         text[x] \in Stops, ValidScalar(z, x)
  PROVE  Scanning(text, o, from, "delimiter", k, x, st, z)
<1>1. Len(text) \in Nat
  BY LenProperties
<1>2. /\ Limit(text) \in Nat /\ x \in Nat \ {0} /\ x \in Spots /\ k \in Nat
      /\ st \in Stacks /\ Len(st) \in Nat /\ Len(st) >= 1 /\ st[1] = Closer(o)
  BY <1>1, ScanningRange
<1>3. Len(st) = 1 /\ k # 0 /\ InScalar(text, o, from, k, x, z)
  <2>1. Len(st) = 1
    BY <1>1, ScanningRange
  <2>2. k # 0 /\ InScalar(text, o, from, k, x, z)
    BY DEF Scanning
  <2> QED BY <2>1, <2>2
<1>4. /\ z \in Nat \ {0} /\ z \in Spots /\ x \in z + 1 .. End - 1 /\ z < Limit(text)
      /\ text[z] \notin Blank /\ text[z] \notin Quotes /\ ~Opener(text[z])
      /\ \A r \in z .. x - 1 : text[r] \notin Stops
      /\ ValueAhead(text, o, from, k - 1, z)
  BY <1>2, <1>3 DEF InScalar, Spots, End, Limit
<1>5. text[z] \notin Closers
  <2>1. z \in z .. x - 1
    BY <1>2, <1>4
  <2>2. text[z] \notin Stops
    BY <1>4, <2>1
  <2> QED BY <2>2, Zenon DEF Stops, Closers
<1>6. LET v == ClosestValue(text, z, End)
      IN  v.err = "none" /\ v.end \in z + 1 .. x /\ Blanks(text, v.end, x)
  BY <1>4, ScalarRead
<1>7. End = Limit(text)
  BY DEF End, Limit
<1>8. /\ ClosestValue(text, z, Limit(text)).err = "none"
      /\ ClosestValue(text, z, Limit(text)).end =< x
      /\ Blanks(text, ClosestValue(text, z, Limit(text)).end, x)
  BY <1>2, <1>4, <1>6, <1>7
<1>9. k - 1 \in Nat /\ (k - 1) + 1 = k
  BY <1>2, <1>3
<1>10. PartOver(text, o, from, (k - 1) + 1, x)
  BY <1>1, <1>2, <1>4, <1>5, <1>8, <1>9, ValueEnds
<1>11. PartOver(text, o, from, k, x)
  BY <1>9, <1>10
<1>12. x =< Limit(text)
  BY <1>2
<1> QED BY <1>2, <1>3, <1>11, <1>12 DEF Scanning

\* Between two parts.
LEMMA PartGoesOn ==
  ASSUME NEW d, Len(d) \in Nat, NEW o, Opener(o), NEW from, NEW k, NEW x, NEW st, NEW z,
         Scanning(d, o, from, "delimiter", k, x, st, z), x < Limit(d), d[x] = Comma,
         Len(st) = 1
  PROVE  Scanning(d, o, from, FirstState(o), k, x + 1, st, z)
<1>1. /\ Limit(d) \in Nat /\ x \in Nat \ {0} /\ x \in Spots /\ k \in Nat
      /\ x + 1 \in Spots /\ x + 1 =< Limit(d)
      /\ st \in Stacks /\ Len(st) >= 1 /\ st[1] = Closer(o)
  BY ScanningRange
<1>2. k # 0 /\ PartOver(d, o, from, k, x)
  BY DEF Scanning
<1>3. PICK e \in Spots : /\ e =< x /\ Blanks(d, e, x)
                         /\ InStep(d, o, from, k, After(d, o, e))
  BY <1>2 DEF PartOver
<1>4. x \in e .. Limit(d) - 1
  BY <1>1, <1>3 DEF Spots
<1>5. /\ o = "[" => ValueFrom(d, o, from, x + 1, k)
      /\ o # "[" => \A q \in Spots : q = NextToken(d, x + 1, Limit(d))
                                       => InStep(d, o, from, k, Remaining(d, o)[q])
  BY <1>1, <1>2, <1>3, <1>4, CommaRead
<1>6. Blanks(d, x + 1, x + 1) /\ x + 1 =< x + 1
  BY <1>1 DEF Blanks
<1>7. o = "[" => ValueAhead(d, o, from, k, x + 1)
  BY <1>1, <1>5, <1>6 DEF ValueAhead
<1>8. o # "[" => KeyAhead(d, o, from, k, x + 1)
  BY <1>5 DEF KeyAhead
<1> QED BY <1>1, <1>7, <1>8 DEF Scanning, FirstState

\* And behind the last.
LEMMA PartCloses ==
  ASSUME NEW d, Len(d) \in Nat, NEW o, Opener(o), NEW from, NEW k, NEW x, NEW st, NEW z,
         Scanning(d, o, from, "delimiter", k, x, st, z), x < Limit(d),
         d[x] = Closer(o), Len(st) = 1
  PROVE  InStep(d, o, from, k, Ended)
<1>1. Limit(d) \in Nat /\ x \in Nat \ {0} /\ k \in Nat
  BY ScanningRange
<1>2. PartOver(d, o, from, k, x)
  BY DEF Scanning
<1>3. PICK e \in Spots : /\ e =< x /\ Blanks(d, e, x)
                         /\ InStep(d, o, from, k, After(d, o, e))
  BY <1>2 DEF PartOver
<1>4. x \in e .. Limit(d) - 1
  BY <1>1, <1>3 DEF Spots
<1> QED BY <1>1, <1>3, <1>4, CloserRead

\* A part that is a block goes on.
LEMMA BlockGoesOn ==
  ASSUME NEW d, Len(d) \in Nat, NEW o, NEW from, NEW s, NEW k, NEW x, NEW st, NEW z,
         Scanning(d, o, from, s, k, x, st, z), x < Limit(d), Len(st) > 1,
         NEW y, NEW t \in Stacks, Len(t) > 1, t[1] = st[1],
         \A p \in Spots : Nested(d, p, Limit(d), x, st) => Nested(d, p, Limit(d), y, t)
  PROVE  Scanning(d, o, from, s, k, y, t, z)
<1>1. /\ Limit(d) \in Nat /\ k \in Nat /\ st[1] = Closer(o)
  BY ScanningRange
<1>2. s = "delimiter" /\ k # 0 /\ InBlock(d, o, from, k, x, st)
  BY DEF Scanning
<1>3. PICK p \in Spots : /\ Nested(d, p, Limit(d), x, st)
                         /\ ValueAhead(d, o, from, k - 1, p)
  BY <1>2 DEF InBlock
<1>4. Nested(d, p, Limit(d), y, t)
  BY <1>3
<1>5. InBlock(d, o, from, k, y, t)
  BY <1>3, <1>4 DEF InBlock
<1>6. y \in Spots /\ y =< Limit(d)
  BY <1>1, <1>4 DEF Nested, Spots
<1>7. Len(t) >= 1 /\ ~(Len(t) = 1)
  <2>1. t \in Seq(Closers)
    BY DEF Stacks
  <2>2. Len(t) \in Nat
    BY <2>1, LenProperties
  <2>3. \A n \in Nat : n > 1 => n >= 1 /\ ~(n = 1)
    OBVIOUS
  <2> QED BY <2>2, <2>3, Zenon
<1> QED BY <1>1, <1>2, <1>5, <1>6, <1>7 DEF Scanning

\* And ends, where getType ends it.
LEMMA BlockCloses ==
  ASSUME NEW d, Len(d) \in Nat, NEW o, Opener(o), NEW from, NEW s, NEW k, NEW x, NEW st, NEW z,
         Scanning(d, o, from, s, k, x, st, z), x < Limit(d), Len(st) = 2,
         d[x] = st[Len(st)]
  PROVE  Scanning(d, o, from, s, k, x + 1, SubSeq(st, 1, Len(st) - 1), z)
<1> DEFINE t == SubSeq(st, 1, Len(st) - 1)
<1>1. /\ Limit(d) \in Nat /\ x \in Nat \ {0} /\ x \in Spots /\ k \in Nat
      /\ x + 1 \in Spots /\ x + 1 =< Limit(d)
      /\ st \in Stacks /\ Len(st) >= 1 /\ st[1] = Closer(o)
  BY ScanningRange
<1>2. s = "delimiter" /\ k # 0 /\ InBlock(d, o, from, k, x, st)
  BY DEF Scanning
<1>3. PICK p \in Spots : /\ Nested(d, p, Limit(d), x, st)
                         /\ ValueAhead(d, o, from, k - 1, p)
  BY <1>2 DEF InBlock
<1>4. BlockEnd(d, p, Limit(d), d[p], Closer(d[p])) = x + 1
  BY <1>1, <1>3, NestedEnds
<1>5. Opener(d[p]) /\ p \in Nat \ {0} /\ p < Limit(d)
  BY <1>1, <1>3 DEF Nested
<1>6. x + 1 # None
  BY <1>1 DEF None
<1>7. /\ ClosestValue(d, p, Limit(d)).err = "none"
      /\ ClosestValue(d, p, Limit(d)).end = x + 1
  BY <1>1, <1>4, <1>5, <1>6, BlockRead
<1>8. d[p] \notin Blank /\ d[p] \notin Closers
  BY <1>5, BytesDiffer, CommaDiffers
<1>9. k - 1 \in Nat /\ (k - 1) + 1 = k /\ x + 1 =< x + 1 /\ Blanks(d, x + 1, x + 1)
  BY <1>1, <1>2 DEF Blanks
<1>10. PartOver(d, o, from, (k - 1) + 1, x + 1)
  BY <1>1, <1>3, <1>5, <1>7, <1>8, <1>9, ValueEnds
<1>11. t \in Stacks /\ Len(t) = 1 /\ t[1] = st[1]
  <2>0. Len(st) >= 2
    OBVIOUS
  <2>1. t \in Stacks /\ Len(t) = Len(st) - 1
    BY <1>1, <2>0, WaitingPopped, Zenon
  <2>2. t[1] = st[1]
    BY <1>1 DEF Stacks
  <2> QED BY <2>1, <2>2
<1>12. Scanning(d, o, from, s, k, x + 1, t, z)
  <2>1. Len(t) >= 1 /\ ~(Len(t) > 1) /\ t[1] = Closer(o)
    BY <1>1, <1>11
  <2>2. PartOver(d, o, from, k, x + 1)
    BY <1>9, <1>10
  <2> HIDE DEF t
  <2> QED BY <1>1, <1>2, <1>11, <2>1, <2>2 DEF Scanning
<1> QED BY <1>12

---------------------------------------------------------------------------
\* What the calls are about, which no step changes.
Fixed == /\ text \in Seq(STRING)
         /\ each \in [name : {"ArrayEach", "ArrayEachWildcard", "ObjectEach"},
                      keys : Seq(Seq(STRING))]
         /\ SameContainer

\* What the iteration will have done in the end, if nobody stops it.
Whole == Total(text, asked.open, Located)

\* The loop stands where a part begins.
AtPart == /\ off \in Spots
          /\ Whole = Plus(count, Remaining(text, asked.open)[off])

\* The loop stands where a part ended.
AtPartEnd == /\ off \in Spots
             /\ Whole = Plus(count, After(text, asked.open, off))

\* The loop is over.
Finished ==
  ~Stopped => /\ Whole.how = "ok" => reply.err = "none" /\ count = Whole.n
              /\ Whole.how = "key" => reply.err = "MalformedStringEscape"

\* There are as many reports as the loop has counted.
Told == /\ count \in Nat
        /\ \E S : delivered \in Seq(S)
        /\ Len(delivered) = count

\* The inductive invariant of the iteration: what is behind it and what
\* Remaining says is left add up to the whole.
IterateInv ==
  /\ Fixed /\ Told
  /\ pc \in {"start", "open", "part", "after", "done"}
  /\ pc \in {"start", "open"} => count = 0
  /\ pc = "open" => off = Located
  /\ pc = "part" => AtPart
  /\ pc = "after" => AtPartEnd
  /\ pc # "done" => ~Stopped
  /\ pc = "done" => Finished

\* The counting scan is where the iteration would be.
LengthInv ==
  /\ parts \in Nat
  /\ state \in {"start", "key", "colon", "value", "primitive", "delimiter", "done"}
  /\ state = "start" => parts = 0 /\ at = 1 /\ stack = <<>>
  /\ state \notin {"start", "done"} =>
       Scanning(text, asked.open, Located, state, parts, at, stack, scalar)
  /\ state = "done" /\ length.err = "none" =>
       length.n \in Nat /\ InStep(text, asked.open, Located, length.n, Ended)

\* What neither call changes stays what it is.
LEMMA FixedStays ==
  ASSUME Fixed, text' = text, each' = each, asked' = asked
  PROVE  Fixed' /\ Located' = Located /\ Whole' = Whole /\ End' = End
<1>1. SameContainer'
  BY Zenon DEF Fixed, SameContainer, OverArray, Keys
<1>2. Located' = Located
  BY DEF Located, Keys, End
<1>3. Whole' = Whole
  BY <1>2 DEF Whole
<1> QED BY <1>1, <1>2, <1>3 DEF Fixed, End

\* The bracket that opens the container, and what it says about the call.
LEMMA FixedBracket ==
  ASSUME Fixed
  PROVE  /\ Opener(asked.open)
         /\ OverArray => asked.open = "["
         /\ OverObject => asked.open # "[" /\ ~OverArray
         /\ OverArray \/ OverObject
<1>1. asked.open = IF OverArray THEN "[" ELSE "{"
  BY Zenon DEF Fixed, SameContainer
<1>2. OverArray \/ OverObject
  BY DEF Fixed, OverArray, OverObject
<1>3. OverObject => ~OverArray
  BY DEF OverArray, OverObject
<1> QED BY <1>1, <1>2, <1>3, Zenon DEF Opener

\* The lengths of what the calls are about.
LEMMA FixedText ==
  ASSUME Fixed
  PROVE  Len(text) \in Nat /\ End = Limit(text) /\ End \in Nat
<1>1. Len(text) \in Nat
  BY LenProperties DEF Fixed
<1> QED BY <1>1 DEF End, Limit

\* The path of the container, and where searchKeys finds it.
LEMMA FixedLocated ==
  ASSUME Fixed
  PROVE  Located \in Nat
<1>1. Keys \in Seq(Seq(STRING))
  <2>1. each.keys \in Seq(Seq(STRING))
    BY DEF Fixed
  <2>2. each.keys # <<>> =>
          SubSeq(each.keys, 1, Len(each.keys) - 1) \in Seq(Seq(STRING))
    BY <2>1
  <2> QED BY <2>1, <2>2 DEF Keys
<1>2. StartScan(Keys, <<1, End>>) \in Scans
  BY <1>1, FixedText DEF StartScan, Scans
<1>3. SearchKeys(text, Keys, 1, End) \in Nat
  BY <1>2, FoundRange DEF SearchKeys
<1> QED BY <1>3 DEF Located

\* One report more.
LEMMA TellsOne ==
  ASSUME Told, NEW r, delivered' = Append(delivered, r), count' = count + 1
  PROVE  Told'
<1>1. PICK S : delivered \in Seq(S)
  BY DEF Told
<1> DEFINE R == S \cup {r}
<1>2. delivered \in Seq(R) /\ r \in R
  BY <1>1
<1>3. delivered' \in Seq(R) /\ Len(delivered') = Len(delivered) + 1
  <2> HIDE DEF R
  <2> QED BY <1>2, AppendProperties
<1> QED BY <1>3 DEF Told

\* No report more.
LEMMA TellsNothing ==
  ASSUME Told, UNCHANGED <<callback, count>>
  PROVE  Told' /\ Stopped' = Stopped
BY DEF Told, callback, Stopped

---------------------------------------------------------------------------
\* The loop ends, in what is then called the right way.
LEMMA LoopEnds ==
  ASSUME Fixed, UNCHANGED <<text, each, asked>>, Told', pc' = "done", Finished'
  PROVE  IterateInv'
<1>1. Fixed'
  BY FixedStays
<1> QED BY <1>1 DEF IterateInv

\* The loop ends badly, and nothing more is said.
LEMMA LoopFails ==
  ASSUME Fixed, UNCHANGED <<text, each, asked>>, Told', pc' = "done",
         ~Stopped' => Whole.how = "bad"
  PROVE  IterateInv'
<1>1. Whole' = Whole
  BY FixedStays
<1>2. Finished'
  BY <1>1 DEF Finished
<1> QED BY <1>2, LoopEnds

\* ArrayEach begins.
LEMMA StartArrayEachKeeps ==
  ASSUME IterateInv, StartArrayEach, asked' = asked
  PROVE  IterateInv'
<1>1. /\ Fixed /\ Told /\ count = 0 /\ ~Stopped /\ pc = "start"
  BY DEF IterateInv, StartArrayEach
<1>2. PICK error : /\ Search(error)
                   /\ error # "none" => text = <<>> \/ NextToken(text, 1, End) = None
  BY Zenon DEF StartArrayEach
<1>3. UNCHANGED <<text, each, callback, count>>
  BY <1>2 DEF Search
<1>4. Told' /\ ~Stopped'
  BY <1>1, <1>3, TellsNothing
<1>5. CASE error # "none"
  <2>1. pc' = "done"
    BY <1>2, <1>5 DEF Search, Return
  <2>2. Located \in Nat /\ Len(text) \in Nat /\ End = Limit(text) /\ End \in Nat
    BY <1>1, FixedLocated, FixedText
  <2>3. ~Opened(text, asked.open, Located)
    <3> SUFFICES ASSUME Located # None, Opening(text, Located) # None
                 PROVE  FALSE
      BY DEF Opened
    <3> DEFINE q == Opening(text, Located)
    <3>1. Located \in Nat \ {0}
      BY <2>2 DEF None
    <3>2. q \in Located .. End - 1 /\ text[q] \notin Blank
      BY <2>2, <3>1, NextTokenRange DEF Opening
    <3>3. q \in 1 .. End - 1
      BY <2>2, <3>1, <3>2
    <3>4. text # <<>>
      BY <2>2, <3>3 DEF End
    <3>5. NextToken(text, 1, End) = None
      BY <1>2, <1>5, <3>4
    <3>6. NextToken(text, 1, End) # None
      <4> DEFINE S == {p \in 1 .. End - 1 : text[p] \notin Blank}
      <4>1. S \in SUBSET Nat /\ S # {}
        BY <2>2, <3>2, <3>3
      <4>2. First(S) \in S
        BY <4>1, FirstIsLeast
      <4>3. NextToken(text, 1, End) = First(S)
        BY DEF NextToken
      <4>4. First(S) # None
        BY <4>2 DEF None
      <4> QED BY <4>3, <4>4, Zenon
    <3> QED BY <3>5, <3>6
  <2>4. Whole.how = "bad"
    BY <2>3 DEF Whole, Total, Lost
  <2> QED BY <1>1, <1>3, <1>4, <2>1, <2>4, LoopFails
<1>6. CASE error = "none"
  <2>1. pc' = "open" /\ off' = Located /\ count' = 0
    BY <1>1, <1>2, <1>6 DEF Search
  <2>2. Fixed' /\ Located' = Located
    BY <1>1, <1>3, FixedStays
  <2> QED BY <1>4, <2>1, <2>2 DEF IterateInv
<1> QED BY <1>5, <1>6

\* ObjectEach begins.
LEMMA StartObjectEachKeeps ==
  ASSUME IterateInv, StartObjectEach, asked' = asked
  PROVE  IterateInv'
<1>1. /\ Fixed /\ Told /\ count = 0 /\ ~Stopped
  BY DEF IterateInv, StartObjectEach
<1>2. /\ UNCHANGED <<text, each, callback, count>>
      /\ pc' = "open" /\ off' = Located
  BY DEF StartObjectEach, Search
<1>3. Told' /\ ~Stopped'
  BY <1>1, <1>2, TellsNothing
<1>4. Fixed' /\ Located' = Located
  BY <1>1, <1>2, FixedStays
<1> QED BY <1>1, <1>2, <1>3, <1>4 DEF IterateInv

\* The container is opened, or is not there.
LEMMA OpenKeeps ==
  ASSUME IterateInv, OpenArray \/ OpenObject, asked' = asked
  PROVE  IterateInv'
<1> DEFINE o == asked.open
           first == FirstPart(text, Located)
<1>1. /\ Fixed /\ Told /\ count = 0 /\ ~Stopped /\ off = Located
  BY DEF IterateInv, OpenArray, OpenObject
<1>2. PICK missing, other : Enter(o, Closer(o), missing, other)
  <2>1. OpenArray => Enter(o, Closer(o), "MalformedJson", "MalformedArray")
    <3>1. OpenArray => o = "[" /\ Closer(o) = "]"
      <4>1. OpenArray => asked.open = "["
        BY <1>1, FixedBracket DEF OpenArray
      <4> QED BY <4>1, Zenon DEF Closer
    <3> QED BY <3>1, Zenon DEF OpenArray
  <2>2. OpenObject => Enter(o, Closer(o), "MalformedObject", "MalformedObject")
    <3>1. OpenObject => o = "{" /\ Closer(o) = "}"
      <4>1. OpenObject => asked.open # "[" /\ Opener(asked.open)
        BY <1>1, FixedBracket DEF OpenObject
      <4> QED BY <4>1, Zenon DEF Closer, Opener
    <3> QED BY <3>1, Zenon DEF OpenObject
  <2> QED BY <2>1, <2>2
<1>3. /\ Len(text) \in Nat /\ End = Limit(text) /\ End \in Nat /\ Located \in Nat
      /\ Opener(o)
  BY <1>1, FixedText, FixedLocated, FixedBracket
<1>4. Next = Opening(text, Located) /\ NextToken(text, Next + 1, End) = first
  BY <1>1, <1>3 DEF Next, Opening, FirstPart
<1>5. UNCHANGED <<text, each, callback, count>>
  BY <1>2 DEF Enter
<1>6. Told' /\ ~Stopped'
  BY <1>1, <1>5, TellsNothing
<1>7. Fixed' /\ Located' = Located /\ Whole' = Whole
  BY <1>1, <1>5, FixedStays
<1>8. CASE ~Opened(text, o, Located) \/ first = None
  <2>1. Whole.how = "bad"
    BY <1>8 DEF Whole, Total, Lost
  <2>2. pc' = "done"
    <3>1. Located = None \/ Next = None \/ text[Next] # o \/ first = None
      BY <1>4, <1>8 DEF Opened
    <3> QED BY <1>1, <1>2, <1>4, <3>1 DEF Enter, Return
  <2> QED BY <1>1, <1>5, <1>6, <2>1, <2>2, LoopFails
<1>9. CASE Opened(text, o, Located) /\ first # None
  <2>1. /\ off # None /\ Next # None /\ text[Next] = o
        /\ NextToken(text, Next + 1, End) # None
    BY <1>1, <1>4, <1>9 DEF Opened
  <2>2. IF text[first] = Closer(o) THEN Return("none") ELSE LoopAt("part", first)
    BY <1>2, <1>4, <2>1 DEF Enter
  <2>3. Whole = IF text[first] = Closer(o) THEN Ended ELSE Remaining(text, o)[first]
    BY <1>9 DEF Whole, Total
  <2>4. CASE text[first] = Closer(o)
    <3>1. pc' = "done" /\ reply'.err = "none" /\ count' = 0
      BY <1>1, <1>5, <2>2, <2>4 DEF Return
    <3>2. Whole.how = "ok" /\ Whole.n = 0
      BY <2>3, <2>4 DEF Ended
    <3>3. Finished'
      BY <1>7, <3>1, <3>2 DEF Finished
    <3> QED BY <1>1, <1>5, <1>6, <3>1, <3>3, LoopEnds
  <2>5. CASE text[first] # Closer(o)
    <3>1. pc' = "part" /\ off' = first /\ count' = 0
      BY <1>1, <1>5, <2>2, <2>5 DEF LoopAt
    <3>2. first \in Spots
      <4>1. Next \in Nat \ {0}
        BY <1>1, <1>3, <1>4, <2>1, NextTokenRange DEF Opening, None
      <4>2. Next + 1 \in Nat \ {0}
        BY <4>1
      <4>3. NextToken(text, Next + 1, End) \in Next + 1 .. End - 1
        BY <1>3, <2>1, <4>2, NextTokenRange
      <4>4. NextToken(text, Next + 1, End) \in Spots
        BY <1>3, <4>1, <4>3 DEF Spots
      <4> QED BY <1>4, <4>4, Zenon
    <3>3. Remaining(text, o)[first] \in Outcomes
      BY <1>3, <3>2, RemainingUnfold
    <3>4. Whole = Plus(0, Remaining(text, o)[first])
      BY <2>3, <2>5, <3>3, PlusSums
    <3>5. AtPart'
      BY <1>5, <1>7, <3>1, <3>2, <3>4 DEF AtPart
    <3> QED BY <1>6, <1>7, <3>1, <3>5 DEF IterateInv
  <2> QED BY <2>4, <2>5
<1> QED BY <1>8, <1>9

---------------------------------------------------------------------------
\* What is left where a part begins, and what is left behind one.
LEMMA TurnNow ==
  ASSUME Fixed, AtPart
  PROVE  LET o == asked.open
         IN  /\ IsEnd(text, o, off) => Whole.how = "ok" /\ Whole.n = count + 0
             /\ ~IsEnd(text, o, off) /\ HasBadKey(text, o, off) => Whole.how = "key"
             /\ ~IsEnd(text, o, off) /\ ~HasBadKey(text, o, off) /\ ~IsPart(text, o, off)
                  => Whole.how = "bad"
             /\ ~IsEnd(text, o, off) /\ ~HasBadKey(text, o, off) /\ IsPart(text, o, off)
                  => LET e == ValueOf(text, o, off).end
                     IN  /\ off < e /\ e \in Spots
                         /\ count \in Nat
                              => Whole = Plus(count + 1, After(text, o, e))
<1> DEFINE o == asked.open
           e == ValueOf(text, o, off).end
<1>1. Len(text) \in Nat /\ Opener(o) /\ off \in Spots
  BY FixedText, FixedBracket DEF AtPart
<1>2. Whole = Plus(count, Turn(text, o, Remaining(text, o), off))
  BY <1>1, RemainingUnfold DEF AtPart
<1>3. IsEnd(text, o, off) => Whole.how = "ok" /\ Whole.n = count + 0
  BY <1>2 DEF Turn, Plus, Ended
<1>4. ~IsEnd(text, o, off) /\ HasBadKey(text, o, off) => Whole.how = "key"
  BY <1>2 DEF Turn, Plus, Lost
<1>5. ~IsEnd(text, o, off) /\ ~HasBadKey(text, o, off) /\ ~IsPart(text, o, off)
        => Whole.how = "bad"
  BY <1>2 DEF Turn, Plus, Lost
<1>6. ASSUME ~IsEnd(text, o, off), ~HasBadKey(text, o, off), IsPart(text, o, off)
      PROVE  /\ off < e /\ e \in Spots
             /\ count \in Nat => Whole = Plus(count + 1, After(text, o, e))
  <2>1. off < e /\ e \in Spots
    BY <1>1, <1>6, PartMoves
  <2>2. Remaining(text, o)[off] = Plus(1, After(text, o, e))
    BY <1>1, <1>6, PartRead
  <2>3. After(text, o, e) \in Outcomes
    BY <1>1, <2>1, AfterIsOutcome
  <2>4. count \in Nat => Plus(count, Plus(1, After(text, o, e)))
                            = Plus(count + 1, After(text, o, e))
    BY <2>3, PlusSums
  <2> QED BY <2>1, <2>2, <2>4 DEF AtPart
<1> QED BY <1>3, <1>4, <1>5, <1>6

\* A part that was read is reported, and the loop stands behind it or stops.
LEMMA DeliverKeeps ==
  ASSUME Fixed, Told, asked' = asked, NEW idx, NEW v, Deliver(idx, v),
         LET o == asked.open
         IN  \/ Whole.how = "bad" /\ v.err # "none"
             \/ /\ v.err = "none" /\ v.end \in Spots
                /\ Whole = Plus(count + 1, After(text, o, v.end))
  PROVE  IterateInv'
<1>1. /\ UNCHANGED <<text, each, asked>> /\ count' = count + 1
      /\ delivered' = Append(delivered, Report(idx, v))
  BY DEF Deliver, Tell
<1>2. Told'
  BY <1>1, TellsOne
<1>3. Fixed' /\ Whole' = Whole
  BY <1>1, FixedStays
<1>4. CASE Stopped'
  <2>1. pc' = "done"
    BY <1>4 DEF Deliver, Return
  <2> QED BY <1>1, <1>2, <1>4, <2>1, LoopFails
<1>5. CASE ~Stopped' /\ v.err # "none"
  <2>1. pc' = "done"
    BY <1>5 DEF Deliver, Return
  <2> QED BY <1>1, <1>2, <1>5, <2>1, LoopFails
<1>6. CASE ~Stopped' /\ v.err = "none"
  <2>1. pc' = "after" /\ off' = v.end
    BY <1>6 DEF Deliver, LoopAt
  <2>2. AtPartEnd'
    BY <1>1, <1>3, <1>6, <2>1 DEF AtPartEnd
  <2> QED BY <1>2, <1>3, <1>6, <2>1, <2>2 DEF IterateInv
<1> QED BY <1>4, <1>5, <1>6

\* An element is reported, or not.
LEMMA NextElementKeeps ==
  ASSUME IterateInv, NextElement, asked' = asked
  PROVE  IterateInv'
<1> DEFINE o == asked.open
           v == ClosestValue(text, off, End)
<1>1. Fixed /\ Told /\ AtPart /\ ~Stopped /\ OverArray /\ count \in Nat
  BY DEF IterateInv, NextElement, Told
<1>2. o = "[" /\ End = Limit(text)
  BY <1>1, FixedBracket, FixedText
<1>3. v = ValueOf(text, o, off) /\ ~IsEnd(text, o, off) /\ ~HasBadKey(text, o, off)
  BY <1>2 DEF ValueOf, ValueSpot, IsEnd, HasBadKey
<1>4. IsPart(text, o, off) <=> v.err = "none"
  BY <1>2, <1>3 DEF IsPart
<1>5. \/ Whole.how = "bad" /\ v.err # "none"
      \/ /\ v.err = "none" /\ v.end \in Spots /\ off < v.end
         /\ Whole = Plus(count + 1, After(text, o, v.end))
  <2> HIDE DEF v
  <2> QED BY <1>1, <1>3, <1>4, TurnNow
<1>6. CASE v.end = off
  <2>1. /\ UNCHANGED <<text, each, callback, count>> /\ pc' = "done"
    BY <1>6 DEF NextElement, Return
  <2>2. Told'
    BY <1>1, <2>1, TellsNothing
  <2>3. Whole.how = "bad"
    <3>1. off \in Spots
      BY <1>1 DEF AtPart
    <3>2. ~(off < off)
      BY <3>1 DEF Spots
    <3> HIDE DEF v
    <3> QED BY <1>5, <1>6, <3>2
  <2> QED BY <1>1, <2>1, <2>2, <2>3, LoopFails
<1>7. CASE v.end # off
  <2>1. Deliver(count, v)
    BY <1>7 DEF NextElement
  <2> HIDE DEF v
  <2> QED BY <1>1, <1>5, <2>1, DeliverKeeps
<1> QED BY <1>6, <1>7

\* What ObjectEach finds wrong with a member.
LEMMA MemberErrorIs ==
  ASSUME Fixed, OverObject
  PROVE  LET o == asked.open
         IN  /\ HasBadKey(text, o, off) <=>
                  HasKey(text, off) /\ Key = BadText
             /\ HasBadKey(text, o, off) => MemberError = "MalformedStringEscape"
             /\ MemberError = "none" <=> IsPart(text, o, off)
             /\ MemberValue = ValueOf(text, o, off)
<1> DEFINE o == asked.open
<1>1. o # "[" /\ End = Limit(text)
  BY FixedBracket, FixedText
<1>2. /\ KeyEnd = KeyEndOf(text, off) /\ Key = KeyOf(text, off)
      /\ Colon = ColonOf(text, off)
  BY <1>1 DEF KeyEnd, KeyEndOf, Key, KeyOf, Colon, ColonOf
<1>3. MemberValue = ValueOf(text, o, off)
  BY <1>1, <1>2 DEF MemberValue, ValueOf, ValueSpot
<1>4. HasBadKey(text, o, off) <=> HasKey(text, off) /\ Key = BadText
  BY <1>1, <1>2 DEF HasBadKey
<1>5. MemberError = IF text[off] \notin Quotes THEN "MalformedObject"
                    ELSE IF KeyEnd = None THEN "MalformedJson"
                    ELSE IF Key = BadText THEN "MalformedStringEscape"
                    ELSE IF Colon = None \/ text[Colon] # ":" THEN "MalformedJson"
                    ELSE MemberValue.err
  BY DEF MemberError
<1>6. HasBadKey(text, o, off) => MemberError = "MalformedStringEscape"
  BY <1>2, <1>4, <1>5 DEF HasKey
<1>7. MemberError = "none" <=> IsPart(text, o, off)
  BY <1>1, <1>2, <1>3, <1>5 DEF IsPart, HasKey, HasColon
<1> QED BY <1>3, <1>4, <1>6, <1>7

\* A member is reported, or the loop ends there.
LEMMA NextMemberKeeps ==
  ASSUME IterateInv, NextMember, asked' = asked
  PROVE  IterateInv'
<1> DEFINE o == asked.open
<1>1. Fixed /\ Told /\ AtPart /\ ~Stopped /\ OverObject /\ count \in Nat
  BY DEF IterateInv, NextMember, Told
<1>2. IF IsEnd(text, o, off) \/ MemberError # "none"
      THEN /\ UNCHANGED <<text, each, callback, count>>
           /\ Return(IF IsEnd(text, o, off) THEN "none" ELSE MemberError)
      ELSE Deliver(Key, MemberValue)
  <2>1. o # "[" /\ Opener(o)
    BY <1>1, FixedBracket
  <2>2. IsEnd(text, o, off) <=> text[off] = "}"
    BY <2>1, Zenon DEF IsEnd, Closer, Opener
  <2> QED BY <2>2, Zenon DEF NextMember
<1>3. CASE IsEnd(text, o, off)
  <2>1. /\ UNCHANGED <<text, each, callback, count>> /\ pc' = "done"
        /\ reply'.err = "none"
    BY <1>2, <1>3 DEF Return
  <2>2. Told'
    BY <1>1, <2>1, TellsNothing
  <2>3. Whole.how = "ok" /\ Whole.n = count
    BY <1>1, <1>3, TurnNow
  <2>4. Whole' = Whole
    BY <1>1, <2>1, FixedStays
  <2>5. Finished'
    BY <2>1, <2>3, <2>4 DEF Finished
  <2> QED BY <1>1, <2>1, <2>2, <2>5, LoopEnds
<1>4. CASE ~IsEnd(text, o, off) /\ MemberError # "none"
  <2>1. /\ UNCHANGED <<text, each, callback, count>> /\ pc' = "done"
        /\ reply'.err = MemberError
    BY <1>2, <1>4 DEF Return
  <2>2. Told'
    BY <1>1, <2>1, TellsNothing
  <2>3. /\ HasBadKey(text, o, off) => MemberError = "MalformedStringEscape"
        /\ ~IsPart(text, o, off)
    BY <1>1, <1>4, MemberErrorIs
  <2>4. \/ Whole.how = "key" /\ reply'.err = "MalformedStringEscape"
        \/ Whole.how = "bad"
    BY <1>1, <1>4, <2>1, <2>3, TurnNow
  <2>5. Whole' = Whole
    BY <1>1, <2>1, FixedStays
  <2>6. Finished'
    BY <2>4, <2>5 DEF Finished
  <2> QED BY <1>1, <2>1, <2>2, <2>6, LoopEnds
<1>5. CASE ~IsEnd(text, o, off) /\ MemberError = "none"
  <2>1. Deliver(Key, MemberValue)
    BY <1>2, <1>5
  <2>2. IsPart(text, o, off) /\ ~HasBadKey(text, o, off)
    BY <1>1, <1>5, MemberErrorIs
  <2>3. MemberValue = ValueOf(text, o, off) /\ MemberValue.err = "none"
    BY <1>1, <2>2, MemberErrorIs DEF IsPart
  <2>4. /\ MemberValue.end \in Spots
        /\ Whole = Plus(count + 1, After(text, o, MemberValue.end))
    BY <1>1, <1>5, <2>2, <2>3, TurnNow
  <2> QED BY <1>1, <2>1, <2>3, <2>4, DeliverKeeps
<1> QED BY <1>3, <1>4, <1>5

---------------------------------------------------------------------------
\* Behind a part the loop ends, goes on, or fails, as Onward says.
LEMMA AfterKeeps ==
  ASSUME Fixed, Told, AtPartEnd, ~Stopped,
         UNCHANGED <<text, each, callback, count, asked>>,
         LET o == asked.open
             part == PartBehind(text, o, Next)
         IN  IF Next = None THEN pc' = "done"
             ELSE IF text[Next] = Closer(o) THEN Return("none")
             ELSE IF text[Next] # Comma \/ part = None THEN pc' = "done"
             ELSE LoopAt("part", part)
  PROVE  IterateInv'
<1> DEFINE o == asked.open
           part == PartBehind(text, o, Next)
<1>1. /\ Len(text) \in Nat /\ End = Limit(text) /\ End \in Nat /\ Opener(o)
      /\ off \in Spots /\ off \in Nat \ {0}
  BY FixedText, FixedBracket DEF AtPartEnd, Spots
<1>2. Next = NextToken(text, off, Limit(text))
  BY <1>1 DEF Next
<1>3. Whole = Plus(count, Onward(text, o, Remaining(text, o), off))
  BY DEF AtPartEnd, After
<1>4. Told' /\ ~Stopped' /\ Fixed' /\ Whole' = Whole
  BY TellsNothing, FixedStays
<1>5. CASE \/ Next = None
           \/ text[Next] # Closer(o) /\ (text[Next] # Comma \/ part = None)
  <2>1. pc' = "done"
    BY <1>5 DEF Return
  <2>2. Onward(text, o, Remaining(text, o), off) = Lost("bad")
    BY <1>2, <1>5 DEF Onward
  <2>3. Whole.how = "bad"
    BY <1>3, <2>2 DEF Plus, Lost
  <2> QED BY <1>4, <2>1, <2>3, LoopFails
<1>6. CASE Next # None /\ text[Next] = Closer(o)
  <2>1. pc' = "done" /\ reply'.err = "none"
    BY <1>6 DEF Return
  <2>2. Onward(text, o, Remaining(text, o), off) = Ended
    BY <1>2, <1>6 DEF Onward
  <2>3. Whole.n = count + 0 /\ count \in Nat
    BY <1>3, <2>2 DEF Plus, Ended, Told
  <2>4. Whole.n = count
    BY <2>3
  <2>5. Finished'
    BY <1>4, <2>1, <2>4, <1>3, <2>2 DEF Finished, Plus, Ended
  <2> QED BY <1>4, <2>1, <2>5, LoopEnds
<1>7. CASE Next # None /\ text[Next] # Closer(o) /\ text[Next] = Comma /\ part # None
  <2>1. pc' = "part" /\ off' = part
    BY <1>7 DEF LoopAt
  <2>2. Onward(text, o, Remaining(text, o), off) = Remaining(text, o)[part]
    BY <1>2, <1>7 DEF Onward
  <2>3. part \in Spots
    BY <1>1, <1>2, <1>7, BehindMoves
  <2>4. AtPart'
    BY <1>3, <1>4, <2>1, <2>2, <2>3 DEF AtPart
  <2> QED BY <1>4, <2>1, <2>4 DEF IterateInv
<1> QED BY <1>5, <1>6, <1>7

\* In an array the next element begins right behind the comma.
LEMMA AfterElementKeeps ==
  ASSUME IterateInv, AfterElement, asked' = asked
  PROVE  IterateInv'
<1> DEFINE o == asked.open
           part == PartBehind(text, o, Next)
<1>1. /\ Fixed /\ Told /\ AtPartEnd /\ ~Stopped /\ OverArray
      /\ UNCHANGED <<text, each, callback, count>>
  BY DEF IterateInv, AfterElement
<1>2. o = "[" /\ part = Next + 1
  BY <1>1, FixedBracket DEF PartBehind
<1>3. Next = None \/ Next \in Nat \ {0}
  <2>1. End \in Nat /\ off \in Nat \ {0}
    BY <1>1, FixedText DEF AtPartEnd, Spots
  <2>2. Next = None \/ Next \in off .. End - 1
    BY <2>1, NextTokenRange DEF Next
  <2> QED BY <2>1, <2>2
<1>4. Next # None => part # None
  BY <1>2, <1>3 DEF None
<1>5. CASE Next = None
  <2>1. pc' = "done"
    BY <1>5, Zenon DEF AfterElement, Return
  <2> QED BY <1>1, <1>5, <2>1, AfterKeeps
<1>6. CASE Next # None
  <2>1. IF text[Next] = Closer(o) THEN Return("none")
        ELSE IF text[Next] # Comma THEN Return("MalformedArray")
        ELSE LoopAt("part", Next + 1)
    <3>1. Closer(o) = "]"
      BY <1>2, Zenon DEF Closer
    <3>2. CASE text[Next] = "]"
      BY <1>6, <3>1, <3>2, Zenon DEF AfterElement
    <3>3. CASE text[Next] = ","
      <4>1. text[Next] # "]"
        BY <3>3, Zenon
      <4>2. LoopAt("part", Next + 1)
        BY <1>6, <3>3, <4>1, Zenon DEF AfterElement
      <4> QED BY <3>1, <3>3, <4>1, <4>2, Zenon DEF Comma
    <3>4. CASE text[Next] # "]" /\ text[Next] # ","
      <4>1. Return("MalformedArray")
        BY <1>6, <3>4, Zenon DEF AfterElement
      <4> QED BY <3>1, <3>4, <4>1, Zenon DEF Comma
    <3> QED BY <3>2, <3>3, <3>4, Zenon
  <2>2. IF text[Next] = Closer(o) THEN Return("none")
        ELSE IF text[Next] # Comma \/ part = None THEN pc' = "done"
        ELSE LoopAt("part", part)
    BY <1>2, <1>4, <1>6, <2>1 DEF Return
  <2> QED BY <1>1, <1>6, <2>2, AfterKeeps
<1> QED BY <1>5, <1>6

\* In an object the next member begins at its key.
LEMMA AfterMemberKeeps ==
  ASSUME IterateInv, AfterMember, asked' = asked
  PROVE  IterateInv'
<1> DEFINE o == asked.open
           part == PartBehind(text, o, Next)
<1>1. /\ Fixed /\ Told /\ AtPartEnd /\ ~Stopped /\ OverObject
      /\ UNCHANGED <<text, each, callback, count>>
  BY DEF IterateInv, AfterMember
<1>2. o # "[" /\ Opener(o) /\ part = NextToken(text, Next + 1, End)
  BY <1>1, FixedBracket, FixedText DEF PartBehind
<1>3. CASE Next = None
  <2>1. pc' = "done"
    BY <1>3, Zenon DEF AfterMember, Return
  <2> QED BY <1>1, <1>3, <2>1, AfterKeeps
<1>4. CASE Next # None
  <2>1. IF text[Next] = Closer(o) THEN Return("none")
        ELSE IF text[Next] # Comma THEN Return("MalformedObject")
        ELSE IF part = None THEN Return("MalformedArray")
        ELSE LoopAt("part", part)
    <3>1. Closer(o) = "}"
      BY <1>2, Zenon DEF Closer, Opener
    <3>2. CASE text[Next] = "}"
      <4>1. text[Next] # ","
        BY <3>2, Zenon
      <4> QED BY <1>4, <3>1, <3>2, <4>1, Zenon DEF AfterMember
    <3>3. CASE text[Next] = ","
      <4>1. text[Next] # "}"
        BY <3>3, Zenon
      <4>2. IF part = None THEN Return("MalformedArray") ELSE LoopAt("part", part)
        BY <1>2, <1>4, <3>3, <4>1, Zenon DEF AfterMember
      <4> QED BY <3>1, <3>3, <4>1, <4>2, Zenon DEF Comma
    <3>4. CASE text[Next] # "}" /\ text[Next] # ","
      <4>1. Return("MalformedObject")
        BY <1>4, <3>4, Zenon DEF AfterMember
      <4> QED BY <3>1, <3>4, <4>1, Zenon DEF Comma
    <3> QED BY <3>2, <3>3, <3>4, Zenon
  <2>2. IF text[Next] = Closer(o) THEN Return("none")
        ELSE IF text[Next] # Comma \/ part = None THEN pc' = "done"
        ELSE LoopAt("part", part)
    BY <2>1 DEF Return
  <2> QED BY <1>1, <1>4, <2>2, AfterKeeps
<1> QED BY <1>3, <1>4

\* A step of the iteration, the container length not yet asked for.
LEMMA IterateNextKeeps ==
  ASSUME IterateInv, IterateNext, asked' = asked
  PROVE  IterateInv' /\ UNCHANGED <<text, each>>
<1>1. IterateInv'
  BY StartArrayEachKeeps, StartObjectEachKeeps, OpenKeeps, NextElementKeeps,
     NextMemberKeeps, AfterElementKeeps, AfterMemberKeeps DEF IterateNext
<1>2. UNCHANGED <<text, each>>
  BY Zenon DEF IterateNext, StartArrayEach, StartObjectEach, OpenArray, OpenObject,
     NextElement, NextMember, AfterElement, AfterMember, Search, Enter, Deliver
<1> QED BY <1>1, <1>2

---------------------------------------------------------------------------
\* Where the counting scan stands.
Standing(s, k, x, st, z) == Scanning(text, asked.open, Located, s, k, x, st, z)

\* The scan goes on.
LEMMA LengthGoesOn ==
  ASSUME Fixed, UNCHANGED <<text, each, asked>>,
         state' \in {"key", "colon", "value", "primitive", "delimiter"},
         Standing(state', parts', at', stack', scalar')
  PROVE  LengthInv'
<1>1. Located' = Located
  BY FixedStays
<1>2. parts' \in Nat
  BY DEF Standing, Scanning
<1> QED BY <1>1, <1>2 DEF LengthInv, Standing

\* The scan returns a length.
LEMMA LengthAnswers ==
  ASSUME Fixed, UNCHANGED <<text, each, asked>>, parts \in Nat, NEW n \in Nat, Answer(n, "none"),
         InStep(text, asked.open, Located, n, Ended)
  PROVE  LengthInv'
<1>1. Located' = Located
  BY FixedStays
<1>2. /\ state' = "done" /\ parts' = parts /\ length'.n = n
  BY DEF Answer
<1> QED BY <1>1, <1>2 DEF LengthInv

\* The scan refuses the container.
LEMMA LengthRefuses ==
  ASSUME parts \in Nat, \/ Refuse
                        \/ Answer(0, "KeyPathNotFound")
  PROVE  LengthInv'
<1>1. PICK err : Answer(0, err) /\ err # "none"
  <2>1. Malformed # "none"
    BY Zenon DEF Malformed
  <2>2. Refuse => Answer(0, Malformed)
    BY Zenon DEF Refuse
  <2> QED BY <2>1, <2>2
<1>2. /\ state' = "done" /\ parts' = parts /\ length'.err # "none"
  BY <1>1 DEF Answer
<1> QED BY <1>2 DEF LengthInv

\* What the scan knows wherever it expects something.
LEMMA ExpectingIs ==
  ASSUME Fixed, LengthInv, NEW s \in {"key", "colon", "value", "primitive", "delimiter"},
         state = s, at < End
  PROVE  /\ Standing(s, parts, at, stack, scalar)
         /\ Len(text) \in Nat /\ Limit(text) = End /\ at < Limit(text) /\ Opener(asked.open)
         /\ Located \in Nat /\ parts \in Nat /\ at \in Nat \ {0}
         /\ stack \in Stacks /\ Len(stack) \in Nat /\ Len(stack) >= 1
         /\ ~Inside => Len(stack) = 1
         /\ at + 1 \in Spots
<1>1. /\ Standing(s, parts, at, stack, scalar) /\ parts \in Nat
  BY DEF LengthInv, Standing
<1>2. /\ Len(text) \in Nat /\ Limit(text) = End /\ at < Limit(text) /\ Opener(asked.open)
      /\ Located \in Nat
  BY FixedText, FixedBracket, FixedLocated
<1>3. /\ stack \in Stacks /\ Len(stack) \in Nat /\ Len(stack) >= 1 /\ at \in Nat \ {0}
      /\ at + 1 \in Spots
  BY <1>1, <1>2, ScanningRange DEF Standing
<1>4. ~Inside => Len(stack) = 1
  <2>1. \A n \in Nat : n >= 1 /\ ~(n > 1) => n = 1
    OBVIOUS
  <2> QED BY <1>3, <2>1, Zenon DEF Inside
<1> QED BY <1>1, <1>2, <1>3, <1>4

\* The closing bracket of the container, as the scan calls it.
LEMMA CloseIs ==
  ASSUME Fixed
  PROVE  /\ Close = Closer(asked.open)
         /\ (IF asked.open = "{" THEN "key" ELSE "value") = FirstState(asked.open)
<1>1. Opener(asked.open)
  BY FixedBracket
<1>2. Close = Closer(asked.open)
  BY Zenon DEF Close, Closer
<1>3. (IF asked.open = "{" THEN "key" ELSE "value") = FirstState(asked.open)
  BY <1>1, Zenon DEF FirstState, Opener
<1> QED BY <1>2, <1>3, Zenon

\* The container is entered, or is not there.
LEMMA StartKeeps ==
  ASSUME Fixed, LengthInv, Start, each' = each
  PROVE  LengthInv'
<1> DEFINE o == asked.open
           open == Opening(text, Located)
<1>1. parts = 0 /\ UNCHANGED <<text, each, asked>> /\ parts \in Nat
  BY DEF LengthInv, Start, Rest
<1>2. /\ Len(text) \in Nat /\ End = Limit(text) /\ Located \in Nat /\ Opener(o)
  BY FixedText, FixedLocated, FixedBracket
<1>3. Located = IF asked.keys = <<>> THEN 1 ELSE SearchKeys(text, asked.keys, 1, End)
  <2>1. asked.keys = Keys
    BY Zenon DEF Fixed, SameContainer
  <2> QED BY <2>1 DEF Located
<1>4. IF Opened(text, o, Located)
      THEN /\ state' = FirstState(o) /\ at' = open + 1 /\ stack' = <<Closer(o)>>
           /\ parts' = 0
      ELSE Answer(0, "KeyPathNotFound")
  <2> DEFINE found == IF Located = None THEN None ELSE NextToken(text, Located, End)
  <2>1. IF found # None /\ text[found] = asked.open
        THEN /\ Expect(FirstState(o), found + 1)
             /\ stack' = <<Close>>
             /\ UNCHANGED <<parts, scalar>>
        ELSE Answer(0, "KeyPathNotFound")
    BY <1>3, CloseIs, Zenon DEF Start
  <2>2. Located # None => found = open
    BY <1>2 DEF Opening
  <2>3. Opened(text, o, Located) <=> found # None /\ text[found] = o
    BY <2>2 DEF Opened
  <2>4. Opened(text, o, Located) => found = open
    BY <2>2 DEF Opened
  <2>5. Close = Closer(o)
    BY CloseIs
  <2> HIDE DEF found
  <2> QED BY <1>1, <2>1, <2>3, <2>4, <2>5 DEF Expect
<1>5. CASE Opened(text, o, Located)
  <2>1. Standing(FirstState(o), 0, open + 1, <<Closer(o)>>, scalar')
    BY <1>2, <1>5, ScanStarts DEF Standing
  <2>2. FirstState(o) \in {"key", "colon", "value", "primitive", "delimiter"}
    BY DEF FirstState
  <2> QED BY <1>1, <1>4, <1>5, <2>1, <2>2, LengthGoesOn
<1>6. CASE ~Opened(text, o, Located)
  <2>1. Answer(0, "KeyPathNotFound")
    BY <1>4, <1>6
  <2> QED BY <1>1, <2>1, LengthRefuses
<1> QED BY <1>5, <1>6

\* Whitespace is skipped.
LEMMA SkipSpaceKeeps ==
  ASSUME Fixed, LengthInv, SkipSpace, each' = each
  PROVE  LengthInv'
<1>1. PICK s \in {"key", "colon", "value", "delimiter"} :
        Expecting(s) /\ Here \in Space /\ Expect(s, at + 1)
  BY DEF SkipSpace
<1>2. /\ UNCHANGED <<text, each, asked, stack, scalar, parts>>
      /\ state' = s /\ at' = at + 1 /\ state = s /\ at < End /\ text[at] \in Blank /\ ~Inside
  BY <1>1 DEF SkipSpace, Rest, Count, Expect, Expecting, Here, Space
<1>3. s \in {"key", "colon", "value", "primitive", "delimiter"}
  BY <1>1
<1>4. Standing(s, parts, at + 1, stack, scalar)
  BY <1>1, <1>2, <1>3, ExpectingIs, ScanSkips DEF Standing
<1> QED BY <1>2, <1>3, <1>4, LengthGoesOn

\* The end of a string the scan passes.
LEMMA BehindStringIs ==
  ASSUME Fixed, BehindString # None
  PROVE  LET c == StringEnd(text, at + 1, Limit(text), Quote)
         IN  c # None /\ BehindString = c + 1
BY FixedText DEF BehindString

\* The key of a member, or the end of an empty object.
LEMMA ScanKeyKeeps ==
  ASSUME Fixed, LengthInv, ScanKey, each' = each
  PROVE  LengthInv'
<1> DEFINE o == asked.open
           c == StringEnd(text, at + 1, Limit(text), Quote)
<1>1. /\ UNCHANGED <<text, each, asked>> /\ state = "key" /\ at < End /\ ~Inside
  BY DEF ScanKey, Rest, Expecting
<1>2. /\ Standing("key", parts, at, stack, scalar) /\ parts \in Nat
      /\ Len(text) \in Nat /\ at < Limit(text) /\ Opener(o) /\ Located \in Nat
      /\ Len(stack) = 1
  BY <1>1, ExpectingIs
<1>3. Closer(o) = "}"
  <2>1. o # "["
    BY <1>2 DEF Standing, Scanning
  <2> QED BY <1>2, <2>1, Zenon DEF Closer, Opener
<1>4. CASE Here = Closer(o) /\ parts = 0
  <2>0. Here = "}" /\ Here # Quote
    BY <1>3, <1>4, Zenon DEF Quote
  <2>1. Answer(0, "none")
    BY <1>4, <2>0, Zenon DEF ScanKey
  <2>2. InStep(text, o, Located, 0, Ended)
    BY <1>2, <1>4, KeyCloses DEF Standing, Here
  <2> QED BY <1>1, <1>2, <2>1, <2>2, LengthAnswers
<1>5. CASE ~(Here = Closer(o) /\ parts = 0) /\ Here = Quote /\ BehindString # None
  <2>1. Expect("colon", BehindString) /\ Count(parts)
    BY <1>3, <1>5, Zenon DEF ScanKey
  <2>2. c # None /\ BehindString = c + 1
    BY <1>5, BehindStringIs
  <2>3. Standing("colon", parts, c + 1, stack, scalar)
    BY <1>2, <1>5, <2>2, KeyReads DEF Standing, Here
  <2>4. /\ state' = "colon" /\ at' = c + 1 /\ UNCHANGED <<stack, scalar, parts>>
    BY <2>1, <2>2 DEF Expect, Count
  <2> QED BY <1>1, <2>3, <2>4, LengthGoesOn
<1>6. CASE ~(Here = Closer(o) /\ parts = 0) /\ ~(Here = Quote /\ BehindString # None)
  <2>1. Refuse
    BY <1>3, <1>6, Zenon DEF ScanKey
  <2> QED BY <1>2, <2>1, LengthRefuses
<1> QED BY <1>4, <1>5, <1>6

\* Its colon.
LEMMA ScanColonKeeps ==
  ASSUME Fixed, LengthInv, ScanColon, each' = each
  PROVE  LengthInv'
<1>1. /\ UNCHANGED <<text, each, asked>> /\ state = "colon" /\ at < End /\ ~Inside
  BY DEF ScanColon, Rest, Expecting
<1>2. /\ Standing("colon", parts, at, stack, scalar) /\ parts \in Nat
      /\ Len(text) \in Nat /\ at < Limit(text) /\ Opener(asked.open)
  BY <1>1, ExpectingIs
<1>3. CASE Here = ":"
  <2>1. Standing("value", parts, at + 1, stack, scalar)
    BY <1>2, <1>3, ColonReads DEF Standing, Here
  <2>2. /\ state' = "value" /\ at' = at + 1 /\ UNCHANGED <<stack, scalar, parts>>
    BY <1>3 DEF ScanColon, Expect, Count
  <2> QED BY <1>1, <2>1, <2>2, LengthGoesOn
<1>4. CASE Here # ":"
  <2>1. Refuse
    BY <1>4 DEF ScanColon
  <2> QED BY <1>2, <2>1, LengthRefuses
<1> QED BY <1>3, <1>4

\* A value begins, or the container is an empty array.
LEMMA ScanValueKeeps ==
  ASSUME Fixed, LengthInv, ScanValue, each' = each
  PROVE  LengthInv'
<1> DEFINE o == asked.open
           c == StringEnd(text, at + 1, Limit(text), Quote)
           empty == Here = "]" /\ o = "[" /\ parts = 0
           passed == Here = Quote /\ BehindString # None
           plain == /\ Here \notin Blank /\ Here \notin Quotes /\ ~Opener(Here)
                    /\ Here \notin Stops /\ Here # ":"
<1>1. /\ UNCHANGED <<text, each, asked>> /\ state = "value" /\ at < End /\ ~Inside
      /\ Here \notin Blank
  BY DEF ScanValue, Rest, Expecting, Space
<1>2. /\ Standing("value", parts, at, stack, scalar) /\ parts \in Nat
      /\ Len(text) \in Nat /\ at < Limit(text) /\ Opener(o) /\ Located \in Nat
      /\ Len(stack) = 1
  BY <1>1, ExpectingIs
<1>3. /\ empty => Answer(0, "none")
      /\ Opener(Here) =>
           /\ Expect("delimiter", at + 1)
           /\ stack' = Append(stack, Closer(Here))
           /\ parts' = parts + 1 /\ UNCHANGED scalar
      /\ passed => Expect("delimiter", BehindString) /\ Count(parts + 1)
      /\ plain => /\ Expect("primitive", at + 1)
                  /\ scalar' = at /\ parts' = parts + 1 /\ UNCHANGED stack
      /\ ~empty /\ ~Opener(Here) /\ ~passed /\ ~plain => Refuse
  <2>1. Quotes = {Quote}
    BY StrictLengthAssumption DEF Quotes
  <2>2. CASE Here = "["
    <3>1. /\ ~empty /\ ~passed /\ ~plain
      BY <2>2, Zenon DEF Quote, Opener
    <3>2. (IF Here = "[" THEN "]" ELSE "}") = Closer(Here)
      BY <2>2, Zenon DEF Closer
    <3> QED BY <2>2, <3>1, <3>2, Zenon DEF ScanValue, Opener
  <2>3. CASE Here = "{"
    <3>1. /\ ~empty /\ ~passed /\ ~plain
      BY <2>3, Zenon DEF Quote, Opener
    <3>2. (IF Here = "[" THEN "]" ELSE "}") = Closer(Here)
      BY <2>3, Zenon DEF Closer
    <3> QED BY <2>3, <3>1, <3>2, Zenon DEF ScanValue, Opener
  <2>4. CASE Here = Quote
    <3>1. ~empty /\ ~Opener(Here) /\ ~plain
      BY <2>1, <2>4, Zenon DEF Quote, Opener
    <3> QED BY <2>4, <3>1, Zenon DEF ScanValue, Opener
  <2>5. CASE Here = "]"
    <3>1. ~passed /\ ~Opener(Here) /\ ~plain
      BY <2>5, Zenon DEF Quote, Opener, Stops
    <3> QED BY <2>5, <3>1, Zenon DEF ScanValue, Opener
  <2>6. CASE Here \in {"}", ",", ":"}
    <3>1. ~empty /\ ~passed /\ ~Opener(Here) /\ ~plain
      BY <2>6, Zenon DEF Quote, Opener, Stops
    <3>2. Refuse
      BY <2>6, <3>1, Zenon DEF ScanValue, Opener
    <3> QED BY <3>1, <3>2, Zenon
  <2>7. CASE Here \notin {"[", "{", "]", "}", ",", ":", Quote}
    <3>1. ~empty /\ ~passed /\ ~Opener(Here)
      BY <2>7, Zenon DEF Opener
    <3>2. Here \notin Quotes /\ Here \notin Stops /\ Here # ":"
      BY <2>1, <2>7, Zenon DEF Stops
    <3>3. plain
      BY <1>1, <3>1, <3>2, Zenon
    <3> QED BY <2>7, <3>1, <3>3, Zenon DEF ScanValue, Opener
  <2> QED BY <2>2, <2>3, <2>4, <2>5, <2>6, <2>7, Zenon
<1>4. CASE empty
  <2>1. Closer(o) = "]"
    BY <1>4, Zenon DEF Closer
  <2>2. InStep(text, o, Located, 0, Ended)
    BY <1>2, <1>4, <2>1, ValueCloses DEF Standing, Here
  <2> QED BY <1>1, <1>2, <1>3, <1>4, <2>2, LengthAnswers
<1>5. CASE Opener(Here)
  <2>1. Standing("delimiter", parts + 1, at + 1, Append(stack, Closer(Here)), scalar)
    BY <1>2, <1>5, ValueOpens DEF Standing, Here
  <2>2. /\ state' = "delimiter" /\ at' = at + 1 /\ stack' = Append(stack, Closer(Here))
        /\ parts' = parts + 1 /\ scalar' = scalar
    BY <1>3, <1>5 DEF Expect
  <2> QED BY <1>1, <2>1, <2>2, LengthGoesOn
<1>6. CASE passed
  <2>1. c # None /\ BehindString = c + 1
    BY <1>6, BehindStringIs
  <2>2. Standing("delimiter", parts + 1, c + 1, stack, scalar)
    BY <1>2, <1>6, <2>1, ValueString DEF Standing, Here
  <2>3. /\ state' = "delimiter" /\ at' = c + 1 /\ parts' = parts + 1
        /\ UNCHANGED <<stack, scalar>>
    BY <1>3, <1>6, <2>1 DEF Expect, Count
  <2> QED BY <1>1, <2>2, <2>3, LengthGoesOn
<1>7. CASE plain
  <2>1. Standing("primitive", parts + 1, at + 1, stack, at)
    BY <1>2, <1>7, ValueScalar DEF Standing, Here
  <2>2. /\ state' = "primitive" /\ at' = at + 1 /\ parts' = parts + 1
        /\ stack' = stack /\ scalar' = at
    BY <1>3, <1>7 DEF Expect
  <2> QED BY <1>1, <2>1, <2>2, LengthGoesOn
<1>8. CASE ~empty /\ ~Opener(Here) /\ ~passed /\ ~plain
  <2>1. Refuse
    BY <1>3, <1>8
  <2> QED BY <1>2, <2>1, LengthRefuses
<1> QED BY <1>4, <1>5, <1>6, <1>7, <1>8

\* A part is over.
LEMMA EndPartKeeps ==
  ASSUME Fixed, EndPart, UNCHANGED <<text, each, asked>>, parts \in Nat,
         Standing("delimiter", parts, at, stack, scalar), Len(stack) = 1, at < End
  PROVE  LengthInv'
<1> DEFINE o == asked.open
<1>1. /\ Len(text) \in Nat /\ at < Limit(text) /\ Opener(o)
  BY FixedText, FixedBracket
<1>2. /\ Here = Comma => Expect(FirstState(o), at + 1) /\ Count(parts)
      /\ Here = Closer(o) => Answer(parts, "none")
      /\ Here # Comma /\ Here # Closer(o) => Refuse
  <2>1. Close = Closer(o) /\ (IF o = "{" THEN "key" ELSE "value") = FirstState(o)
    BY CloseIs
  <2>2. Comma # Closer(o)
    BY <1>1, CommaDiffers
  <2>3. CASE Here = Comma
    <3>1. Here = "," /\ Here # Close
      BY <2>1, <2>2, <2>3, Zenon DEF Comma
    <3> QED BY <2>1, <2>2, <2>3, <3>1, Zenon DEF EndPart
  <2>4. CASE Here = Closer(o)
    <3>1. Here # "," /\ Here = Close
      BY <2>1, <2>2, <2>4, Zenon DEF Comma
    <3> QED BY <2>2, <2>4, <3>1, Zenon DEF EndPart
  <2>5. CASE Here # Comma /\ Here # Closer(o)
    <3>1. Here # "," /\ Here # Close
      BY <2>1, <2>5, Zenon DEF Comma
    <3> QED BY <2>5, <3>1, Zenon DEF EndPart
  <2> QED BY <2>3, <2>4, <2>5, Zenon
<1>3. CASE Here = Comma
  <2>1. Standing(FirstState(o), parts, at + 1, stack, scalar)
    BY <1>1, <1>3, PartGoesOn DEF Standing, Here
  <2>2. /\ state' = FirstState(o) /\ at' = at + 1 /\ UNCHANGED <<stack, scalar, parts>>
    BY <1>2, <1>3 DEF Expect, Count
  <2>3. FirstState(o) \in {"key", "colon", "value", "primitive", "delimiter"}
    BY DEF FirstState
  <2> QED BY <2>1, <2>2, <2>3, LengthGoesOn
<1>4. CASE Here = Closer(o)
  <2>1. InStep(text, o, Located, parts, Ended)
    BY <1>1, <1>4, PartCloses DEF Standing, Here
  <2> QED BY <1>2, <1>4, <2>1, LengthAnswers
<1>5. CASE Here # Comma /\ Here # Closer(o)
  <2>1. Refuse
    BY <1>2, <1>5
  <2> QED BY <2>1, LengthRefuses
<1> QED BY <1>3, <1>4, <1>5

\* A scalar goes on, or is checked where it ends.
LEMMA ScanPrimitiveKeeps ==
  ASSUME Fixed, LengthInv, ScanPrimitive, each' = each
  PROVE  LengthInv'
<1> DEFINE o == asked.open
<1>1. /\ UNCHANGED <<text, each, asked>> /\ state = "primitive" /\ at < End /\ ~Inside
  BY DEF ScanPrimitive, Rest, Expecting
<1>2. /\ Standing("primitive", parts, at, stack, scalar) /\ parts \in Nat
      /\ Len(text) \in Nat /\ at < Limit(text) /\ Opener(o) /\ Len(stack) = 1
  BY <1>1, ExpectingIs
<1>3. /\ Here \in Stops
      => \/ ValidScalar(scalar, at) /\ EndPart
         \/ Refuse
  <2>1. Close = Closer(o) /\ Closer(o) \in {"]", "}"} /\ Closer(o) # ","
    BY CloseIs, Zenon DEF Closer
  <2>2. CASE Here \in {",", Close}
    <3>1. Here \notin {"]", "}"} \ {Close}
      BY <2>1, <2>2, Zenon
    <3> QED BY <2>2, <3>1, Zenon DEF ScanPrimitive
  <2>3. CASE Here \in {"]", "}"} \ {Close}
    <3>1. Here \notin {",", Close}
      BY <2>3, Zenon
    <3> QED BY <2>3, <3>1, Zenon DEF ScanPrimitive
  <2> QED BY <2>2, <2>3, Zenon DEF Stops
<1>4. Here \notin Stops => Expect("primitive", at + 1) /\ Count(parts)
  <2>1. Close \in {"]", "}"}
    BY Zenon DEF Close
  <2>2. Here \notin Stops => Here \notin {",", Close} /\ Here \notin {"]", "}"} \ {Close}
    BY <2>1, Zenon DEF Stops
  <2> QED BY <2>2, Zenon DEF ScanPrimitive
<1>5. CASE Here \in Stops /\ ValidScalar(scalar, at) /\ EndPart
  <2>1. text \in Seq(STRING)
    BY DEF Fixed
  <2>2. Standing("delimiter", parts, at, stack, scalar)
    BY <1>2, <1>5, <2>1, ScalarEnds DEF Standing, Here
  <2> QED BY <1>1, <1>2, <1>5, <2>2, EndPartKeeps
<1>6. CASE Refuse
  BY <1>2, <1>6, LengthRefuses
<1>7. CASE Here \notin Stops
  <2>1. Standing("primitive", parts, at + 1, stack, scalar)
    BY <1>2, <1>7, ScalarGoesOn DEF Standing, Here
  <2>2. /\ state' = "primitive" /\ at' = at + 1 /\ UNCHANGED <<stack, scalar, parts>>
    BY <1>4, <1>7 DEF Expect, Count
  <2> QED BY <1>1, <2>1, <2>2, LengthGoesOn
<1> QED BY <1>3, <1>5, <1>6, <1>7

\* Behind a part.
LEMMA ScanDelimiterKeeps ==
  ASSUME Fixed, LengthInv, ScanDelimiter, each' = each
  PROVE  LengthInv'
<1>1. /\ UNCHANGED <<text, each, asked>> /\ state = "delimiter" /\ at < End /\ ~Inside
      /\ EndPart
  BY DEF ScanDelimiter, Rest, Expecting
<1>2. /\ Standing("delimiter", parts, at, stack, scalar) /\ parts \in Nat
      /\ Len(stack) = 1
  BY <1>1, ExpectingIs
<1> QED BY <1>1, <1>2, EndPartKeeps

\* The text ends inside the container.
LEMMA RunsOutKeeps ==
  ASSUME LengthInv, RunsOut
  PROVE  LengthInv'
<1>1. parts \in Nat /\ Refuse
  BY DEF LengthInv, RunsOut
<1> QED BY <1>1, LengthRefuses

\* Inside a part that is a block.
LEMMA ScanNestedKeeps ==
  ASSUME Fixed, LengthInv, ScanNested, each' = each
  PROVE  LengthInv'
<1> DEFINE o == asked.open
           c == StringEnd(text, at + 1, Limit(text), Quote)
           top == stack[Len(stack)]
           Go(s, p) == /\ stack' = s /\ at' = p
                       /\ UNCHANGED <<state, length, parts, scalar>>
           popped == SubSeq(stack, 1, Len(stack) - 1)
<1>1. /\ UNCHANGED <<text, each, asked>> /\ at < End /\ Inside /\ state # "done"
  BY DEF ScanNested, Rest
<1>2. state # "start"
  <2>1. Len(<<>>) = 0 /\ ~(0 > 1)
    OBVIOUS
  <2> QED BY <1>1, <2>1 DEF LengthInv, Inside
<1>3. state \in {"key", "colon", "value", "primitive", "delimiter"}
  BY <1>1, <1>2 DEF LengthInv
<1>4. /\ Standing(state, parts, at, stack, scalar) /\ parts \in Nat
      /\ Len(text) \in Nat /\ at < Limit(text) /\ Opener(o) /\ Limit(text) = End
      /\ stack \in Stacks /\ Len(stack) \in Nat /\ Len(stack) >= 1 /\ at \in Nat \ {0}
  BY <1>1, <1>3, ExpectingIs
<1>5. Len(stack) > 1
  BY <1>1 DEF Inside
<1>6. ASSUME NEW y, NEW t \in Stacks, Len(t) > 1, t[1] = stack[1], Go(t, y),
             \A p \in Spots : Nested(text, p, Limit(text), at, stack)
                                => Nested(text, p, Limit(text), y, t)
      PROVE  LengthInv'
  <2>1. Standing(state, parts, y, t, scalar)
    BY <1>4, <1>5, <1>6, BlockGoesOn DEF Standing
  <2> QED BY <1>1, <1>3, <1>6, <2>1, LengthGoesOn
<1>7. /\ Here = Quote => Refuse \/ (BehindString # None /\ Go(stack, BehindString))
      /\ Opener(Here) => Go(Append(stack, Closer(Here)), at + 1)
      /\ Here \in Closers => Refuse \/ (Here = top /\ Go(popped, at + 1))
      /\ Here # Quote /\ ~Opener(Here) /\ Here \notin Closers => Go(stack, at + 1)
  <2>1. CASE Here = Quote
    <3>1. Here \notin {"[", "{", "]", "}"}
      BY <2>1, Zenon DEF Quote
    <3> QED BY <2>1, <3>1, Zenon DEF ScanNested, Opener, Closers
  <2>2. CASE Here = "["
    <3>1. Here # Quote /\ Here \notin {"{", "]", "}"} /\ Closer(Here) = "]"
      BY <2>2, Zenon DEF Quote, Closer
    <3> QED BY <2>2, <3>1, Zenon DEF ScanNested, Opener, Closers
  <2>3. CASE Here = "{"
    <3>1. Here # Quote /\ Here \notin {"[", "]", "}"} /\ Closer(Here) = "}"
      BY <2>3, Zenon DEF Quote, Closer
    <3> QED BY <2>3, <3>1, Zenon DEF ScanNested, Opener, Closers
  <2>4. CASE Here \in {"]", "}"}
    <3>1. Here # Quote /\ Here \notin {"[", "{"}
      BY <2>4, Zenon DEF Quote
    <3>2. IF Here # top THEN Refuse ELSE Go(popped, at + 1)
      BY <2>4, <3>1, Zenon DEF ScanNested
    <3> QED BY <2>4, <3>1, <3>2, Zenon DEF Opener, Closers
  <2>5. CASE Here \notin {"[", "{", "]", "}", Quote}
    <3>1. Go(stack, at + 1)
      BY <2>5, Zenon DEF ScanNested
    <3> QED BY <2>5, <3>1, Zenon DEF Opener, Closers
  <2> QED BY <2>1, <2>2, <2>3, <2>4, <2>5, Zenon
<1>8. CASE Refuse
  BY <1>4, <1>8, LengthRefuses
<1>9. CASE Here = Quote /\ BehindString # None /\ Go(stack, BehindString)
  <2>1. c # None /\ BehindString = c + 1
    BY <1>9, BehindStringIs
  <2>2. \A p \in Spots : Nested(text, p, Limit(text), at, stack)
                           => Nested(text, p, Limit(text), c + 1, stack)
    BY <1>4, <1>9, <2>1, NestedString DEF Here
  <2>3. Go(stack, c + 1)
    BY <1>9, <2>1
  <2> QED BY <1>4, <1>5, <1>6, <2>2, <2>3
<1>10. CASE Opener(Here) /\ Go(Append(stack, Closer(Here)), at + 1)
  <2> DEFINE t == Append(stack, Closer(Here))
  <2>1. Closer(Here) \in Closers
    BY <1>10, BytesDiffer
  <2>2. t \in Stacks /\ Len(t) > 1 /\ t[1] = stack[1]
    <3>1. stack \in Seq(Closers)
      BY <1>4 DEF Stacks
    <3>2. t \in Seq(Closers) /\ Len(t) = Len(stack) + 1 /\ t[1] = stack[1]
      BY <1>4, <2>1, <3>1, AppendProperties
    <3>3. Len(stack) + 1 > 1
      BY <1>4
    <3> QED BY <3>2, <3>3 DEF Stacks
  <2>3. \A p \in Spots : Nested(text, p, Limit(text), at, stack)
                           => Nested(text, p, Limit(text), at + 1, t)
    BY <1>4, <1>10, NestedPush DEF Here
  <2> HIDE DEF t
  <2>4. Go(t, at + 1)
    BY <1>10 DEF t
  <2> QED BY <1>6, <2>2, <2>3, <2>4
<1>11. CASE Here \in Closers /\ Here = top /\ Go(popped, at + 1)
  <2>1. CASE Len(stack) = 2
    <3>1. Standing(state, parts, at + 1, popped, scalar)
      BY <1>4, <1>11, <2>1, BlockCloses DEF Standing, Here
    <3>2. /\ state' = state /\ at' = at + 1 /\ stack' = popped
          /\ parts' = parts /\ scalar' = scalar
      BY <1>11
    <3> HIDE DEF popped
    <3> QED BY <1>1, <1>3, <3>1, <3>2, LengthGoesOn
  <2>2. CASE Len(stack) > 2
    <3>1. \A p \in Spots : Nested(text, p, Limit(text), at, stack)
                             => Nested(text, p, Limit(text), at + 1, popped)
      BY <1>4, <1>11, <2>2, NestedPop DEF Here
    <3>2. popped \in Stacks /\ Len(popped) > 1 /\ popped[1] = stack[1]
      <4>1. Len(stack) >= 2 /\ Len(stack) - 1 > 1 /\ Len(stack) - 1 \in Nat
        BY <1>4, <2>2
      <4>2. popped \in Stacks /\ Len(popped) = Len(stack) - 1
        BY <1>4, <4>1, WaitingPopped, Zenon
      <4>3. popped[1] = stack[1]
        BY <1>4, <4>1 DEF Stacks
      <4> QED BY <4>1, <4>2, <4>3
    <3> HIDE DEF popped
    <3> QED BY <1>6, <1>11, <3>1, <3>2
  <2>3. Len(stack) = 2 \/ Len(stack) > 2
    <3>1. \A n \in Nat : n > 1 => n = 2 \/ n > 2
      OBVIOUS
    <3> QED BY <1>4, <1>5, <3>1, Zenon
  <2> QED BY <2>1, <2>2, <2>3
<1>12. CASE Here # Quote /\ ~Opener(Here) /\ Here \notin Closers /\ Go(stack, at + 1)
  <2>1. Here \notin Quotes
    <3>1. Quotes = {Quote}
      BY StrictLengthAssumption DEF Quotes
    <3> QED BY <1>12, <3>1
  <2>2. \A p \in Spots : Nested(text, p, Limit(text), at, stack)
                           => Nested(text, p, Limit(text), at + 1, stack)
    BY <1>4, <1>12, <2>1, NestedSkips DEF Here
  <2> QED BY <1>4, <1>5, <1>6, <1>12, <2>2
<1> QED BY <1>7, <1>8, <1>9, <1>10, <1>11, <1>12

\* A step of the counting scan.
LEMMA LengthNextKeeps ==
  ASSUME Fixed, LengthInv, LengthNext, each' = each
  PROVE  LengthInv' /\ UNCHANGED <<text, callback, asked>>
<1>1. LengthInv'
  BY StartKeeps, ScanNestedKeeps, SkipSpaceKeeps, ScanKeyKeeps, ScanColonKeeps,
     ScanValueKeeps, ScanPrimitiveKeeps, ScanDelimiterKeeps, RunsOutKeeps DEF LengthNext
<1>2. UNCHANGED <<text, callback, asked>>
  BY Zenon DEF LengthNext, Start, ScanNested, SkipSpace, ScanKey, ScanColon, ScanValue,
     ScanPrimitive, ScanDelimiter, RunsOut, Rest
<1> QED BY <1>1, <1>2

---------------------------------------------------------------------------
\* The container is measured when it has been iterated to its end.
InTurn == state # "start" => pc = "done" /\ ~Stopped

BothInv == IterateInv /\ LengthInv /\ InTurn

\* Nothing is behind either of them yet.
LEMMA BothInitEstablishes ==
  ASSUME BothInit
  PROVE  BothInv
<1>1. Fixed
  BY DEF BothInit, Fixed
<1>2. /\ delivered = <<>> /\ verdict = "go on" /\ count = 0 /\ pc = "start"
      /\ state = "start" /\ at = 1 /\ parts = 0 /\ stack = <<>>
  BY DEF BothInit, IterateInit, CallbackInit, LengthInit
<1>3. Told
  <2>1. <<>> \in Seq({}) /\ Len(<<>>) = 0
    OBVIOUS
  <2> QED BY <1>2, <2>1 DEF Told
<1>4. IterateInv
  BY <1>1, <1>2, <1>3 DEF IterateInv, Stopped
<1>5. LengthInv
  BY <1>2 DEF LengthInv
<1> QED BY <1>2, <1>4, <1>5 DEF BothInv, InTurn

\* The iteration goes first, and the scan only when it is over.
LEMMA BothNextKeeps ==
  ASSUME BothInv, [BothNext]_bothVars
  PROVE  BothInv'
<1>1. Fixed /\ IterateInv /\ LengthInv /\ InTurn
  BY DEF BothInv, IterateInv
<1>2. CASE IterateNext /\ UNCHANGED lengthVars
  <2>1. UNCHANGED <<asked, state, at, stack, parts, scalar, length>>
    BY <1>2 DEF lengthVars
  <2>2. IterateInv' /\ UNCHANGED <<text, each>>
    BY <1>1, <1>2, <2>1, IterateNextKeeps
  <2>3. Located' = Located
    BY <1>1, <2>1, <2>2, FixedStays
  <2>4. LengthInv'
    BY <1>1, <2>1, <2>2, <2>3 DEF LengthInv
  <2>5. pc # "done"
    BY <1>2, Zenon DEF IterateNext, StartArrayEach, StartObjectEach, OpenArray,
       OpenObject, NextElement, NextMember, AfterElement, AfterMember
  <2>6. InTurn'
    BY <1>1, <2>1, <2>5 DEF InTurn
  <2> QED BY <2>2, <2>4, <2>6 DEF BothInv
<1>3. CASE /\ pc = "done" /\ ~Stopped /\ LengthNext
           /\ UNCHANGED <<each, off, count, pc, reply>>
  <2>1. LengthInv' /\ UNCHANGED <<text, callback, asked>>
    BY <1>1, <1>3, LengthNextKeeps
  <2>2. UNCHANGED <<text, delivered, verdict, each, off, count, pc, reply, asked>>
    BY <1>3, <2>1 DEF callback
  <2>3. IterateInv'
    <3>1. Fixed' /\ Located' = Located /\ Whole' = Whole
      BY <1>1, <2>2, FixedStays
    <3>2. Told' /\ Stopped' = Stopped
      BY <1>1, <2>2, TellsNothing DEF callback, IterateInv
    <3> QED BY <1>1, <2>2, <3>1, <3>2 DEF IterateInv, AtPart, AtPartEnd, Finished
  <2>4. InTurn'
    BY <1>3, <2>2 DEF InTurn, Stopped
  <2> QED BY <2>1, <2>3, <2>4 DEF BothInv
<1>4. CASE UNCHANGED bothVars
  <2>1. UNCHANGED <<text, delivered, verdict, each, off, count, pc, reply,
                    asked, state, at, stack, parts, scalar, length>>
    BY <1>4 DEF bothVars, iterateVars, lengthVars
  <2>2. Fixed' /\ Located' = Located /\ Whole' = Whole
    BY <1>1, <2>1, FixedStays
  <2>3. Told' /\ Stopped' = Stopped
    BY <1>1, <2>1, TellsNothing DEF callback, IterateInv
  <2>4. IterateInv'
    BY <1>1, <2>1, <2>2, <2>3 DEF IterateInv, AtPart, AtPartEnd, Finished
  <2>5. LengthInv'
    BY <1>1, <2>1, <2>2 DEF LengthInv
  <2>6. InTurn'
    BY <1>1, <2>1, <2>3 DEF InTurn
  <2> QED BY <2>4, <2>5, <2>6 DEF BothInv
<1> QED BY <1>2, <1>3, <1>4 DEF BothNext

\* A length is the one the iteration came to.
LEMMA BothInvMeans ==
  ASSUME BothInv
  PROVE  LengthIsTrue
<1> SUFFICES ASSUME state = "done", length.err = "none"
             PROVE  \/ reply.err = "none" /\ Len(delivered) = length.n
                    \/ reply.err = "MalformedStringEscape"
  BY DEF LengthIsTrue
<1>1. Finished /\ ~Stopped /\ Told
  BY DEF BothInv, InTurn, IterateInv
<1>2. Whole.how = "key" \/ Whole = Plus(length.n, Ended)
  BY DEF BothInv, LengthInv, InStep, Whole
<1>3. CASE Whole.how = "key"
  BY <1>1, <1>3 DEF Finished
<1>4. CASE Whole = Plus(length.n, Ended)
  <2>1. Whole.how = "ok" /\ Whole.n = length.n + 0
    BY <1>4 DEF Plus, Ended
  <2>2. reply.err = "none" /\ Len(delivered) = length.n + 0
    BY <1>1, <2>1 DEF Finished, Told
  <2>3. length.n \in Nat
    BY DEF BothInv, LengthInv
  <2> QED BY <2>2, <2>3
<1> QED BY <1>2, <1>3, <1>4

\* On any text at all, JSON or not, and with any path, GetArrayLen and
\* GetObjectLen return a length only of a container that ArrayEach and
\* ObjectEach iterate to its end, unless a key of it is malformed, and then
\* it is the number of parts they report.
THEOREM LengthIsTrueAlways == BothSpec => []LengthIsTrue
<1>1. BothInit => BothInv
  BY BothInitEstablishes
<1>2. BothInv /\ [BothNext]_bothVars => BothInv'
  BY BothNextKeeps
<1>3. BothInv => LengthIsTrue
  BY BothInvMeans
<1> QED BY <1>1, <1>2, <1>3, PTL DEF BothSpec
=============================================================================
