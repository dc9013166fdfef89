---------------------------- MODULE LookupProofs ----------------------------
(***************************************************************************)
(* Get as a function, for every text and every path: the recursion is well *)
(* defined, because every step leaves less to scan, and what is found lies *)
(* in the text.  And a text beside the longer one it was cut from: every   *)
(* step finds the same in both, or has run into the cut, so what Get finds *)
(* in the cut text is what it finds in the whole one.                      *)
(***************************************************************************)
EXTENDS Lookup, JsonTextProofs, FiniteSetTheorems

\* A pair of positions of [a, b].
WindowIn(w, a, b) ==
  \E l, r \in Nat : w = <<l, r>> /\ a =< l /\ l =< r /\ r =< b

\* The window searchKeys keeps of an element it hears of lies in the array.
LEMMA ElementWindowRange ==
  ASSUME NEW v, NEW off \in Nat, NEW a \in Nat, NEW p \in Nat, NEW h \in Nat,
         a < off, off =< p, p < h,
         ReadInWindow(v, p, h), v.end # off, off >= a + 3 \/ p = off
  PROVE  ElementWindow(v) = NoWindow \/ WindowIn(ElementWindow(v), a + 1, h)
<1>1. CASE v.err # "none"
  <2>1. v.window[2] - v.window[1] = 0 /\ v.end = p
    BY <1>1 DEF ReadInWindow, NoWindow
  <2>2. CASE v.type = "String"
    <3>1. ElementWindow(v) = <<p - 2, p>>
      BY <2>1, <2>2 DEF ElementWindow
    <3>2. p - 2 \in Nat /\ a + 1 =< p - 2 /\ p - 2 =< p /\ p =< h
      BY <2>1
    <3> QED BY <3>1, <3>2 DEF WindowIn
  <2>3. CASE v.type # "String"
    BY <1>1, <2>3 DEF ElementWindow
  <2> QED BY <2>2, <2>3
<1>2. CASE v.err = "none" /\ v.type = "String"
  <2>1. /\ v.end \in p + 2 .. h /\ v.window = <<p + 1, v.end - 1>>
    BY <1>2 DEF ReadInWindow
  <2>2. v.end - (v.window[2] - v.window[1]) - 2 = p
    BY <2>1
  <2>3. ElementWindow(v) = <<p, v.end>>
    BY <1>2, <2>2 DEF ElementWindow
  <2>4. v.end \in Nat /\ a + 1 =< p /\ p =< v.end /\ v.end =< h
    BY <2>1
  <2> QED BY <2>3, <2>4 DEF WindowIn
<1>3. CASE v.err = "none" /\ v.type # "String"
  <2>1. v.end \in p + 1 .. h /\ v.window = <<p, v.end>>
    BY <1>3 DEF ReadInWindow
  <2>2. ElementWindow(v) = <<p, v.end>>
    BY <1>3, <2>1 DEF ElementWindow
  <2>3. v.end \in Nat /\ a + 1 =< p /\ p =< v.end /\ v.end =< h
    BY <2>1
  <2> QED BY <2>2, <2>3 DEF WindowIn
<1> QED BY <1>1, <1>2, <1>3

\* The loop's next element starts behind the one it follows and its comma.
LEMMA NextStartRange ==
  ASSUME NEW d, NEW p \in Nat \ {0}, NEW h \in Nat
  PROVE  \/ NextStart(d, ClosestValue(d, p, h), h) = None
         \/ /\ NextStart(d, ClosestValue(d, p, h), h) \in Nat
            /\ NextStart(d, ClosestValue(d, p, h), h) >= p + 2
            /\ NextStart(d, ClosestValue(d, p, h), h) =< h
<1> DEFINE v == ClosestValue(d, p, h)
           at == NextToken(d, p, h)
           next == NextToken(d, v.end, h)
<1>1. \/ v = Failed("NotExist", None, "MalformedJson")
      \/ at \in p .. h - 1 /\ ReadInWindow(v, at, h)
  BY ClosestValueRange
<1>2. NextStart(d, v, h) =
        IF v.err = "none" /\ next # None /\ d[next] = "," THEN next + 1 ELSE None
  BY DEF NextStart
<1> HIDE DEF v, at
<1>3. ASSUME v.err = "none", next # None
      PROVE  next + 1 \in Nat /\ next + 1 >= p + 2 /\ next + 1 =< h
  <2>1. at \in p .. h - 1 /\ ReadInWindow(v, at, h)
    BY <1>1, <1>3 DEF Failed
  <2>2. v.end \in at + 1 .. h
    BY <1>3, <2>1 DEF ReadInWindow
  <2>3. v.end \in Nat \ {0} /\ v.end >= p + 1
    BY <2>1, <2>2
  <2>4. next \in v.end .. h - 1
    BY <1>3, <2>3, NextTokenRange
  <2> HIDE DEF next
  <2> QED BY <2>3, <2>4
<1> HIDE DEF next
<1> QED BY <1>2, <1>3 DEF v

\* Where the elements start is what the recursion says.
LEMMA ElementStartsUnfold ==
  ASSUME NEW d, NEW a \in Nat \ {0}, NEW h \in Nat
  PROVE  /\ ElementStarts(d, a, h) \in [Nat -> Nat]
         /\ \A k \in Nat :
              ElementStarts(d, a, h)[k] =
                IF k = 0 THEN FirstStart(d, a, h)
                ELSE IF ElementStarts(d, a, h)[k - 1] = None THEN None
                ELSE NextStart(d, ClosestValue(d, ElementStarts(d, a, h)[k - 1], h), h)
<1> DEFINE Body(f, k) == IF k = 0 THEN FirstStart(d, a, h)
                         ELSE IF f[k - 1] = None THEN None
                         ELSE NextStart(d, ClosestValue(d, f[k - 1], h), h)
           G == [f \in [Nat -> Nat] |-> [k \in Nat |-> Body(f, k)]]
           rank == [k \in Nat |-> k]
<1>1. FirstStart(d, a, h) \in Nat
  BY NextTokenRange DEF FirstStart, None
<1>2. ASSUME NEW f \in [Nat -> Nat], NEW k \in Nat
      PROVE  Body(f, k) \in Nat
  <2>1. CASE k = 0
    BY <1>1, <2>1
  <2>2. CASE k # 0
    <3>1. k - 1 \in Nat /\ f[k - 1] \in Nat
      BY <2>2
    <3>2. f[k - 1] # None => f[k - 1] \in Nat \ {0}
      BY <3>1 DEF None
    <3>3. f[k - 1] # None =>
            NextStart(d, ClosestValue(d, f[k - 1], h), h) \in Nat
      BY <3>2, NextStartRange DEF None
    <3> QED BY <2>2, <3>3 DEF None
  <2> QED BY <2>1, <2>2
<1>3. ASSUME NEW f \in [Nat -> Nat], NEW g \in [Nat -> Nat], NEW k \in Nat,
             \A t \in Nat : rank[t] < rank[k] => f[t] = g[t]
      PROVE  Body(f, k) = Body(g, k)
  <2>1. k # 0 => f[k - 1] = g[k - 1]
    BY <1>3
  <2> QED BY <2>1
<1> HIDE DEF Body
<1>4. DescendsIn(G, Nat, Nat, rank)
  <2>1. G \in [[Nat -> Nat] -> [Nat -> Nat]]
    BY <1>2
  <2>2. \A f, g \in [Nat -> Nat], k \in Nat :
          (\A t \in Nat : rank[t] < rank[k] => f[t] = g[t]) => G[f][k] = G[g][k]
    BY <1>3
  <2>3. rank \in [Nat -> Nat]
    OBVIOUS
  <2> HIDE DEF G, rank
  <2> QED BY <2>1, <2>2, <2>3 DEF DescendsIn
<1>5. \E f \in [Nat -> Nat] : f = G[f]
  <2> DEFINE S == Nat
             V == Nat
  <2> HIDE DEF S, G, rank
  <2>1. DescendsIn(G, S, V, rank) /\ V # {}
    BY <1>4 DEF S
  <2>2. \E f \in [S -> V] : f = G[f]
    BY <2>1, RecursionHasSolution
  <2> QED BY <2>2 DEF S
<1>6. ElementStarts(d, a, h) = CHOOSE f : f = [k \in Nat |-> Body(f, k)]
  BY DEF ElementStarts, Body
<1>7. ElementStarts(d, a, h) = [k \in Nat |-> Body(ElementStarts(d, a, h), k)]
  <2>1. \E f : f = [k \in Nat |-> Body(f, k)]
    BY <1>5
  <2> QED BY <1>6, <2>1
<1>8. \A f : f = [k \in Nat |-> Body(f, k)] => f \in [Nat -> Nat]
  <2> SUFFICES ASSUME NEW f, f = [k \in Nat |-> Body(f, k)]
               PROVE  f \in [Nat -> Nat]
    OBVIOUS
  <2> DEFINE T == {k \in Nat : f[k] \in Nat}
  <2>1. \A k \in Nat : f[k] = Body(f, k)
    OBVIOUS
  <2>2. 0 \in T
    BY <1>1, <2>1 DEF Body
  <2>3. ASSUME NEW k \in Nat, k \in T PROVE k + 1 \in T
    <3>1. f[k + 1] = Body(f, k + 1) /\ (k + 1) - 1 = k /\ k + 1 # 0
      BY <2>1
    <3>2. f[k] # None => f[k] \in Nat \ {0}
      BY <2>3 DEF None
    <3>3. f[k] # None => NextStart(d, ClosestValue(d, f[k], h), h) \in Nat
      BY <3>2, NextStartRange DEF None
    <3> QED BY <3>1, <3>3 DEF Body, None
  <2>4. Nat \subseteq T
    <3> HIDE DEF T
    <3> QED BY <2>2, <2>3, NatSetInduction
  <2> QED BY <2>4
<1> QED BY <1>7, <1>8 DEF Body

\* Every element starts in the array, and every one but the first at least
\* three bytes into it.
InArray(d, p, a, h) ==
  /\ p \in a + 1 .. h
  /\ p >= a + 3 \/ (p < h /\ d[p] \notin Blank)

\* Every element that arrayEach comes to starts inside its array.
LEMMA ElementStartRange ==
  ASSUME NEW d, NEW a \in Nat \ {0}, NEW h \in Nat
  PROVE  \A k \in Nat : \/ ElementStarts(d, a, h)[k] = None
                        \/ InArray(d, ElementStarts(d, a, h)[k], a, h)
<1> DEFINE start == ElementStarts(d, a, h)
           T == {k \in Nat : start[k] = None \/ InArray(d, start[k], a, h)}
<1>1. /\ start \in [Nat -> Nat]
      /\ \A k \in Nat :
           start[k] = IF k = 0 THEN FirstStart(d, a, h)
                      ELSE IF start[k - 1] = None THEN None
                      ELSE NextStart(d, ClosestValue(d, start[k - 1], h), h)
  BY ElementStartsUnfold
<1> HIDE DEF start
<1>2. 0 \in T
  <2> DEFINE first == NextToken(d, a + 1, h)
  <2>1. first = None \/ (first \in a + 1 .. h - 1 /\ d[first] \notin Blank)
    <3>1. a + 1 \in Nat \ {0}
      OBVIOUS
    <3> QED BY <3>1, NextTokenRange
  <2>2. start[0] = None \/ start[0] = first
    BY <1>1 DEF FirstStart
  <2> HIDE DEF first
  <2> QED BY <2>1, <2>2 DEF InArray
<1>3. ASSUME NEW k \in Nat, k \in T PROVE k + 1 \in T
  <2>1. /\ (k + 1) - 1 = k /\ k + 1 # 0 /\ k + 1 \in Nat
        /\ start[k + 1] = IF start[k] = None THEN None
                          ELSE NextStart(d, ClosestValue(d, start[k], h), h)
    BY <1>1
  <2>2. CASE start[k] = None
    BY <2>1, <2>2
  <2>3. CASE start[k] # None
    <3> DEFINE next == NextStart(d, ClosestValue(d, start[k], h), h)
    <3>1. start[k] \in a + 1 .. h /\ start[k] \in Nat \ {0}
      BY <1>3, <2>3 DEF InArray
    <3>2. next = None \/ (next \in Nat /\ next >= start[k] + 2 /\ next =< h)
      BY <3>1, NextStartRange
    <3>3. start[k + 1] = next
      BY <2>1, <2>3
    <3> HIDE DEF next
    <3> QED BY <3>1, <3>2, <3>3 DEF InArray
  <2> QED BY <2>2, <2>3
<1>4. Nat \subseteq T
  <2> HIDE DEF T
  <2> QED BY <1>2, <1>3, NatSetInduction
<1> QED BY <1>4 DEF start

\* What is kept of an element lies in the array.
LEMMA ElementFromRange ==
  ASSUME NEW d, NEW a \in Nat \ {0}, NEW h \in Nat, NEW p,
         p = None \/ InArray(d, p, a, h)
  PROVE  ElementFrom(d, p, h) = NoWindow \/ WindowIn(ElementFrom(d, p, h), a + 1, h)
<1> DEFINE v == ClosestValue(d, p, h)
           at == NextToken(d, p, h)
<1>1. CASE p = None \/ v.end = p
  BY <1>1 DEF ElementFrom, Kept
<1>2. CASE p # None /\ v.end # p
  <2>1. p \in Nat \ {0} /\ p \in a + 1 .. h /\ a < p
    BY <1>2 DEF InArray
  <2>2. ElementFrom(d, p, h) = ElementWindow(v)
    BY <1>2 DEF ElementFrom, Kept
  <2>3. \/ v = Failed("NotExist", None, "MalformedJson")
        \/ at \in p .. h - 1 /\ ReadInWindow(v, at, h)
    BY <2>1, ClosestValueRange
  <2>4. p >= a + 3 \/ at = p
    BY <1>2, <2>1, NextTokenRange DEF InArray
  <2> HIDE DEF v, at
  <2>5. CASE v = Failed("NotExist", None, "MalformedJson")
    BY <2>2, <2>5 DEF ElementWindow, Failed
  <2>6. CASE at \in p .. h - 1 /\ ReadInWindow(v, at, h)
    <3>1. at \in Nat /\ p =< at /\ at < h
      BY <2>1, <2>6
    <3>2. ElementWindow(v) = NoWindow \/ WindowIn(ElementWindow(v), a + 1, h)
      BY <1>2, <2>1, <2>4, <2>6, <3>1, ElementWindowRange
    <3> QED BY <2>2, <3>2
  <2> QED BY <2>3, <2>5, <2>6
<1> QED BY <1>1, <1>2

---------------------------------------------------------------------------
\* How much there is left to scan.
Left(s) == IF s.keys = <<>> THEN 0
           ELSE IF s.i < s.hi THEN (s.hi - s.i) + 1 ELSE 1

\* s is a scan from p on, with the keys and the limit of t or smaller ones.
Nearer(s, t) == s \in Scans /\ Left(s) < Left(t)

\* An answer leaves nothing to scan.
LEMMA AnsweredIsNearer ==
  ASSUME NEW t \in Scans, t.keys # <<>>, NEW p \in Nat
  PROVE  Nearer(Answered(p), t)
<1>1. Answered(p) \in Scans
  BY EmptySeq DEF Answered, StartScan, Scans
<1>2. Left(Answered(p)) = 0
  BY DEF Answered, StartScan, Left
<1>3. Left(t) \in Nat \ {0}
  BY DEF Left, Scans
<1> QED BY <1>1, <1>2, <1>3 DEF Nearer

\* A scan that has moved on, with the same path and limit, has less to do.
LEMMA FurtherIsNearer ==
  ASSUME NEW t \in Scans, t.keys # <<>>, t.i < t.hi,
         NEW s \in Scans, s.keys = t.keys, s.hi = t.hi, s.i > t.i
  PROVE  Nearer(s, t)
BY DEF Nearer, Left, Scans

\* A scan that goes on inside s, with its keys and to its limit.
LEMMA MovedIsNearer ==
  ASSUME NEW s \in Scans, s.keys # <<>>, s.i < s.hi, NEW p \in Nat, p > s.i,
         NEW l \in Int, NEW k \in Int, NEW b \in BOOLEAN
  PROVE  Nearer([s EXCEPT !.i = p, !.level = l, !.keyLevel = k,
                          !.lastMatched = b], s)
<1> DEFINE t == [s EXCEPT !.i = p, !.level = l, !.keyLevel = k,
                          !.lastMatched = b]
<1>1. t \in Scans /\ t.keys = s.keys /\ t.hi = s.hi /\ t.i = p
  BY DEF Scans
<1> HIDE DEF t
<1>2. Nearer(t, s)
  BY <1>1, FurtherIsNearer
<1> QED BY <1>2 DEF t

\* A string, or a key, is left behind.
LEMMA StepStringIsNearer ==
  ASSUME NEW d, NEW s \in Scans, s.keys # <<>>, s.i \in 1 .. s.hi - 1
  PROVE  Nearer(StepString(d, s), s)
<1> DEFINE close == StringEnd(d, s.i + 1, s.hi, d[s.i])
           after == IF close = None THEN None ELSE NextToken(d, close + 1, s.hi)
           text == Unescape(Text(d, s.i + 1, close))
<1>1. /\ s.i \in Nat \ {0} /\ s.hi \in Nat /\ s.i < s.hi /\ s.i + 1 \in Nat \ {0}
      /\ s.level \in Int /\ s.keyLevel \in Int /\ s.lastMatched \in BOOLEAN
      /\ s = [keys |-> s.keys, i |-> s.i, hi |-> s.hi, level |-> s.level,
              keyLevel |-> s.keyLevel, lastMatched |-> s.lastMatched]
  BY DEF Scans
<1>2. close = None \/ close \in s.i + 1 .. s.hi - 1
  BY <1>1, StringEndRange
<1>3. after = None \/ (after \in Nat /\ after > s.i /\ after + 1 \in Nat /\ after + 1 > s.i)
  <2>1. CASE close = None
    BY <2>1
  <2>2. CASE close # None
    <3> HIDE DEF close
    <3>1. close + 1 \in Nat \ {0} /\ close + 1 > s.i
      BY <1>1, <1>2, <2>2
    <3>2. NextToken(d, close + 1, s.hi) = None
            \/ NextToken(d, close + 1, s.hi) \in close + 1 .. s.hi - 1
      BY <1>1, <3>1, NextTokenRange
    <3>3. after = NextToken(d, close + 1, s.hi)
      BY <2>2
    <3> HIDE DEF after
    <3> QED BY <1>1, <3>1, <3>2, <3>3
  <2> QED BY <2>1, <2>2
<1>4. StepString(d, s) = IF after = None THEN Answered(None)
                         ELSE IF d[after] # ":" THEN [s EXCEPT !.i = after]
                         ELSE StepKey(s, text, after)
  BY DEF StepString
<1> HIDE DEF close, after, text
<1>5. CASE after = None
  BY <1>4, <1>5, AnsweredIsNearer DEF None
<1>6. CASE after # None /\ d[after] # ":"
  <2>1. StepString(d, s) = [s EXCEPT !.i = after, !.level = s.level,
                                     !.keyLevel = s.keyLevel,
                                     !.lastMatched = s.lastMatched]
    BY <1>1, <1>4, <1>6
  <2>2. Nearer([s EXCEPT !.i = after, !.level = s.level, !.keyLevel = s.keyLevel,
                         !.lastMatched = s.lastMatched], s)
    BY <1>1, <1>3, <1>6, MovedIsNearer
  <2> QED BY <2>1, <2>2
<1>7. CASE after # None /\ d[after] = ":"
  <2> DEFINE k == IF s.keyLevel = s.level - 1 THEN s.level ELSE s.keyLevel
  <2>1. after \in Nat /\ after + 1 \in Nat /\ after + 1 > s.i
    BY <1>3, <1>7
  <2>2. \/ StepKey(s, text, after) = Answered(None)
        \/ StepKey(s, text, after) = Answered(after + 1)
        \/ StepKey(s, text, after)
             = [s EXCEPT !.i = after + 1, !.level = s.level,
                         !.keyLevel = s.keyLevel, !.lastMatched = FALSE]
        \/ StepKey(s, text, after)
             = [s EXCEPT !.i = after + 1, !.level = s.level,
                         !.keyLevel = k, !.lastMatched = TRUE]
    BY <1>1 DEF StepKey
  <2>3. k \in Int
    BY <1>1
  <2> HIDE DEF k
  <2>4. /\ Nearer([s EXCEPT !.i = after + 1, !.level = s.level,
                            !.keyLevel = s.keyLevel, !.lastMatched = FALSE], s)
        /\ Nearer([s EXCEPT !.i = after + 1, !.level = s.level,
                            !.keyLevel = k, !.lastMatched = TRUE], s)
    BY <1>1, <2>1, <2>3, MovedIsNearer
  <2>5. Nearer(Answered(None), s) /\ Nearer(Answered(after + 1), s)
    BY <2>1, AnsweredIsNearer DEF None
  <2> QED BY <1>4, <1>7, <2>2, <2>4, <2>5
<1> QED BY <1>5, <1>6, <1>7

\* Where the element n of an array starts, when it has one.
LEMMA ElementStartOf ==
  ASSUME NEW d, NEW a \in Nat \ {0}, NEW h \in Nat, NEW n
  PROVE  ElementStart(d, a, h, n) = None \/ InArray(d, ElementStart(d, a, h, n), a, h)
BY ElementStartRange DEF ElementStart

\* The scan of an element is a smaller one than that of its array.
LEMMA StepElementIsNearer ==
  ASSUME NEW d, NEW s \in Scans, s.keys # <<>>, s.i \in 1 .. s.hi - 1,
         s.level + 1 \in 1 .. Len(s.keys), NEW n
  PROVE  Nearer(StartScan(SubSeq(s.keys, s.level + 2, Len(s.keys)),
                          ElementFrom(d, ElementStart(d, s.i, s.hi, n), s.hi)), s)
<1> DEFINE rest == SubSeq(s.keys, s.level + 2, Len(s.keys))
           w == ElementFrom(d, ElementStart(d, s.i, s.hi, n), s.hi)
           t == StartScan(rest, w)
<1>1. /\ s.i \in Nat \ {0} /\ s.hi \in Nat /\ s.i < s.hi
      /\ s.keys \in Seq(Seq(STRING)) /\ s.level \in Int /\ Len(s.keys) \in Nat
  BY LenProperties DEF Scans
<1>2. rest \in Seq(Seq(STRING))
  <2> DEFINE V == Seq(STRING)
             a == s.level + 2
  <2>1. s.keys \in Seq(V) /\ Len(s.keys) \in Nat /\ a \in 1 .. Len(s.keys) + 1
    BY <1>1
  <2> HIDE DEF V, a
  <2>2. SubSeq(s.keys, a, Len(s.keys)) \in Seq(V)
    BY <2>1, SubSeqProperties
  <2> QED BY <2>2 DEF V, a
<1>3. w = NoWindow \/ WindowIn(w, s.i + 1, s.hi)
  BY <1>1, ElementStartOf, ElementFromRange
<1> HIDE DEF rest, w
<1>4. /\ w[1] \in Nat /\ w[2] \in Nat
      /\ w[1] < w[2] => w[2] - w[1] < s.hi - s.i
  <2> DEFINE a == s.i
             b == s.hi
  <2>1. a \in Nat /\ b \in Nat /\ (w = NoWindow \/ WindowIn(w, a + 1, b))
    BY <1>1, <1>3
  <2> HIDE DEF a, b
  <2>2. CASE w = NoWindow
    BY <2>2 DEF NoWindow
  <2>3. CASE WindowIn(w, a + 1, b)
    <3>1. PICK l \in Nat, r \in Nat : w = <<l, r>> /\ a + 1 =< l /\ l =< r /\ r =< b
      BY <2>3 DEF WindowIn
    <3>2. r - l < b - a
      BY <2>1, <3>1
    <3> QED BY <3>1, <3>2 DEF a, b
  <2> QED BY <2>1, <2>2, <2>3 DEF a, b
<1>5. /\ t \in Scans /\ t.keys = rest /\ t.i = w[1] /\ t.hi = w[2]
  BY <1>2, <1>4 DEF StartScan, Scans
<1> HIDE DEF t
<1>6. Left(t) < Left(s)
  <2> DEFINE a == s.i
             b == s.hi
             l == w[1]
             r == w[2]
  <2>1. /\ a \in Nat /\ b \in Nat /\ a < b /\ l \in Nat /\ r \in Nat
        /\ l < r => r - l < b - a
    BY <1>1, <1>4
  <2>2. Left(s) = b - a + 1
    BY <1>1 DEF Left
  <2>3. Left(t) = 0 \/ Left(t) = 1 \/ (l < r /\ Left(t) = r - l + 1)
    BY <1>4, <1>5 DEF Left
  <2> HIDE DEF a, b, l, r
  <2>4. 0 < b - a + 1 /\ 1 < b - a + 1 /\ (l < r => r - l + 1 < b - a + 1)
    BY <2>1
  <2> QED BY <2>2, <2>3, <2>4
<1>7. Nearer(t, s)
  BY <1>5, <1>6 DEF Nearer
<1> QED BY <1>7 DEF t, rest, w

\* Every step of the scan makes it a smaller one.
LEMMA StepDescends ==
  ASSUME NEW d, NEW s \in Scans, s.keys # <<>>
  PROVE  Nearer(StepScan(d, s), s)
<1> DEFINE c == d[s.i]
<1>1. /\ s.keys \in Seq(Seq(STRING)) /\ s.i \in Nat /\ s.hi \in Nat
      /\ s.level \in Int /\ s.keyLevel \in Int /\ s.lastMatched \in BOOLEAN
      /\ Len(s.keys) \in Nat
      /\ s = [keys |-> s.keys, i |-> s.i, hi |-> s.hi, level |-> s.level,
              keyLevel |-> s.keyLevel, lastMatched |-> s.lastMatched]
  BY LenProperties DEF Scans
<1>2. CASE s.i \notin 1 .. s.hi - 1
  BY <1>2, AnsweredIsNearer DEF StepScan, None
<1>3. CASE s.i \in 1 .. s.hi - 1
  <2>1. s.i \in Nat \ {0} /\ s.i < s.hi /\ s.i + 1 \in Nat \ {0}
    BY <1>1, <1>3
  <2>2. ASSUME NEW p \in Nat, p > s.i, NEW l \in Int, NEW k \in Int, NEW b \in BOOLEAN
        PROVE  Nearer([s EXCEPT !.i = p, !.level = l, !.keyLevel = k,
                                !.lastMatched = b], s)
    BY <2>1, <2>2, MovedIsNearer
  <2>3. ASSUME NEW end, end = None \/ (end \in Nat /\ end > s.i)
        PROVE  Nearer(StepOver(s, end), s)
    <3>1. CASE end = None
      BY <3>1, AnsweredIsNearer DEF StepOver, None
    <3>2. CASE end # None
      <4>1. StepOver(s, end) = [s EXCEPT !.i = end]
        BY <3>2 DEF StepOver
      <4>2. [s EXCEPT !.i = end]
              = [s EXCEPT !.i = end, !.level = s.level, !.keyLevel = s.keyLevel,
                          !.lastMatched = s.lastMatched]
        BY <1>1
      <4>3. end \in Nat /\ end > s.i
        BY <2>3, <3>2
      <4>4. Nearer([s EXCEPT !.i = end, !.level = s.level,
                             !.keyLevel = s.keyLevel,
                             !.lastMatched = s.lastMatched], s)
        BY <1>1, <2>2, <4>3
      <4> QED BY <4>1, <4>2, <4>4
    <3> QED BY <3>1, <3>2
  <2>o. ASSUME NEW open, NEW close
        PROVE  Nearer(StepOver(s, BlockEnd(d, s.i, s.hi, open, close)), s)
    <3> DEFINE end == BlockEnd(d, s.i, s.hi, open, close)
    <3>1. end = None \/ end \in s.i + 1 .. s.hi
      BY <1>1, <2>1, BlockEndRange
    <3> HIDE DEF end
    <3>2. end = None \/ (end \in Nat /\ end > s.i)
      BY <2>1, <3>1, <1>1
    <3>3. Nearer(StepOver(s, end), s)
      BY <2>3, <3>2
    <3> QED BY <3>3 DEF end
  <2>4. CASE c \in Quotes
    <3>1. StepScan(d, s) = StepString(d, s)
      BY <1>3, <2>4 DEF StepScan, Quotes, Quote
    <3> QED BY <3>1, <1>3, StepStringIsNearer
  <2>5. CASE c \notin Quotes /\ c = "{"
    <3>1. StepScan(d, s) = StepBrace(d, s)
      BY <1>3, <2>5 DEF StepScan
    <3>2. CASE s.lastMatched
      <4>1. StepBrace(d, s) = [s EXCEPT !.i = s.i + 1, !.level = s.level + 1,
                                        !.keyLevel = s.keyLevel,
                                        !.lastMatched = s.lastMatched]
        BY <1>1, <3>2 DEF StepBrace
      <4>2. s.i + 1 \in Nat /\ s.i + 1 > s.i /\ s.level + 1 \in Int
        BY <1>1
      <4>3. Nearer([s EXCEPT !.i = s.i + 1, !.level = s.level + 1,
                             !.keyLevel = s.keyLevel,
                             !.lastMatched = s.lastMatched], s)
        BY <1>1, <2>1, <4>2, MovedIsNearer
      <4> QED BY <3>1, <4>1, <4>3
    <3>3. CASE ~s.lastMatched
      BY <2>o, <3>1, <3>3 DEF StepBrace
    <3> QED BY <3>2, <3>3
  <2>6. CASE c \notin Quotes /\ c = "}"
    <3> DEFINE k == IF s.keyLevel = s.level - 1 THEN s.keyLevel - 1 ELSE s.keyLevel
    <3>1. StepScan(d, s) = [s EXCEPT !.i = s.i + 1, !.level = s.level - 1,
                                     !.keyLevel = k,
                                     !.lastMatched = s.lastMatched]
      BY <1>1, <1>3, <2>6 DEF StepScan
    <3>2. s.i + 1 \in Nat /\ s.i + 1 > s.i /\ s.level - 1 \in Int /\ k \in Int
      BY <1>1
    <3> HIDE DEF k
    <3>3. Nearer([s EXCEPT !.i = s.i + 1, !.level = s.level - 1, !.keyLevel = k,
                           !.lastMatched = s.lastMatched], s)
      BY <1>1, <2>1, <3>2, MovedIsNearer
    <3> QED BY <3>1, <3>3
  <2>7. CASE c \notin Quotes /\ c = "["
    <3>1. StepScan(d, s) = StepArray(d, s)
      BY <1>3, <2>7 DEF StepScan
    <3>2. \/ StepArray(d, s) = StepOver(s, BlockEnd(d, s.i, s.hi, "[", "]"))
          \/ StepArray(d, s) = Answered(None)
          \/ /\ s.level + 1 \in 1 .. Len(s.keys)
             /\ StepArray(d, s)
                  = StartScan(SubSeq(s.keys, s.level + 2, Len(s.keys)),
                              ElementFrom(d, ElementStart(d, s.i, s.hi,
                                          Index(s.keys[s.level + 1])), s.hi))
      BY DEF StepArray
    <3>3. ASSUME s.level + 1 \in 1 .. Len(s.keys), NEW n
          PROVE  Nearer(StartScan(SubSeq(s.keys, s.level + 2, Len(s.keys)),
                          ElementFrom(d, ElementStart(d, s.i, s.hi, n), s.hi)), s)
      BY <1>3, <3>3, StepElementIsNearer
    <3> QED BY <2>o, <3>1, <3>2, <3>3, AnsweredIsNearer DEF None
  <2>8. CASE c \notin Quotes /\ c \notin {"{", "}", "["}
    <3>1. \/ StepScan(d, s) = Answered(None)
          \/ StepScan(d, s) = [s EXCEPT !.i = s.i + 1, !.level = s.level,
                                        !.keyLevel = s.keyLevel,
                                        !.lastMatched = s.lastMatched]
      BY <1>1, <1>3, <2>8 DEF StepScan
    <3>2. s.i + 1 \in Nat /\ s.i + 1 > s.i
      BY <1>1
    <3>3. Nearer([s EXCEPT !.i = s.i + 1, !.level = s.level,
                           !.keyLevel = s.keyLevel,
                           !.lastMatched = s.lastMatched], s)
      BY <1>1, <2>2, <3>2
    <3>4. Nearer(Answered(None), s)
      BY AnsweredIsNearer DEF None
    <3> QED BY <3>1, <3>3, <3>4
  <2> QED BY <2>4, <2>5, <2>6, <2>7, <2>8
<1> QED BY <1>2, <1>3
\* searchKeys in one step, unfolded: it is well defined on every text and
\* every path, because every step leaves less to scan.
LEMMA FoundFromUnfold ==
  ASSUME NEW d
  PROVE  \A s \in Scans :
           FoundFrom(d)[s] = IF s.keys = <<>> THEN s.i
                             ELSE FoundFrom(d)[StepScan(d, s)]
<1> DEFINE Body(f, s) == IF s.keys = <<>> THEN s.i ELSE f[StepScan(d, s)]
           G == [f \in [Scans -> Nat] |-> [s \in Scans |-> Body(f, s)]]
           rank == [s \in Scans |-> Left(s)]
<1>1. ASSUME NEW s \in Scans
      PROVE  s.i \in Nat /\ Left(s) \in Nat
  BY DEF Scans, Left
<1>2. ASSUME NEW s \in Scans, s.keys # <<>>
      PROVE  StepScan(d, s) \in Scans /\ Left(StepScan(d, s)) < Left(s)
  BY <1>2, StepDescends DEF Nearer
<1>3. ASSUME NEW f \in [Scans -> Nat], NEW s \in Scans
      PROVE  Body(f, s) \in Nat
  <2>1. CASE s.keys = <<>>
    BY <1>1, <2>1
  <2>2. CASE s.keys # <<>>
    <3>1. StepScan(d, s) \in Scans
      BY <1>2, <2>2
    <3> QED BY <2>2, <3>1
  <2> QED BY <2>1, <2>2
<1>4. ASSUME NEW f \in [Scans -> Nat], NEW g \in [Scans -> Nat], NEW s \in Scans,
             \A t \in Scans : rank[t] < rank[s] => f[t] = g[t]
      PROVE  Body(f, s) = Body(g, s)
  <2>1. CASE s.keys = <<>>
    BY <2>1
  <2>2. CASE s.keys # <<>>
    <3>1. StepScan(d, s) \in Scans /\ rank[StepScan(d, s)] < rank[s]
      BY <1>2, <2>2
    <3>2. f[StepScan(d, s)] = g[StepScan(d, s)]
      BY <1>4, <3>1
    <3> QED BY <2>2, <3>2
  <2> QED BY <2>1, <2>2
<1>5. rank \in [Scans -> Nat]
  BY <1>1
<1> HIDE DEF Body
<1>6. G \in [[Scans -> Nat] -> [Scans -> Nat]]
  BY <1>3
<1>7. \A f, g \in [Scans -> Nat], s \in Scans :
        (\A t \in Scans : rank[t] < rank[s] => f[t] = g[t]) => G[f][s] = G[g][s]
  BY <1>4
<1>8. \E f \in [Scans -> Nat] : f = G[f]
  <2> DEFINE V == Nat
  <2>1. DescendsIn(G, Scans, V, rank) /\ V # {}
    <3> HIDE DEF G, rank
    <3> QED BY <1>5, <1>6, <1>7 DEF DescendsIn
  <2> HIDE DEF G, rank, V
  <2>2. \E f \in [Scans -> V] : f = G[f]
    BY <2>1, RecursionHasSolution
  <2> QED BY <2>2 DEF V
<1>9. FoundFrom(d) = CHOOSE f : f = [s \in Scans |-> Body(f, s)]
  BY DEF FoundFrom, Body
<1>10. FoundFrom(d) = [s \in Scans |-> Body(FoundFrom(d), s)]
  <2>1. \E f : f = [s \in Scans |-> Body(f, s)]
    BY <1>8
  <2> QED BY <1>9, <2>1
<1> QED BY <1>10 DEF Body

\* An answered scan has its answer.
LEMMA FoundAnswered ==
  ASSUME NEW d, NEW p \in Nat
  PROVE  FoundFrom(d)[Answered(p)] = p
<1>1. Answered(p) \in Scans /\ Answered(p).keys = <<>> /\ Answered(p).i = p
  BY EmptySeq DEF Answered, StartScan, Scans
<1> QED BY <1>1, FoundFromUnfold

\* Nothing is found in no element.
LEMMA FoundNowhere ==
  ASSUME NEW d, NEW rest \in Seq(Seq(STRING))
  PROVE  FoundFrom(d)[StartScan(rest, NoWindow)] = None
<1> DEFINE t == StartScan(rest, NoWindow)
<1>1. t \in Scans /\ t.keys = rest /\ t.i = 0 /\ t.hi = 0
  BY DEF StartScan, Scans, NoWindow
<1> SUFFICES FoundFrom(d)[t] = None
  OBVIOUS
<1> HIDE DEF t
<1>2. CASE rest = <<>>
  BY <1>1, <1>2, FoundFromUnfold DEF None
<1>3. CASE rest # <<>>
  <2>1. StepScan(d, t) = Answered(None)
    BY <1>1 DEF StepScan
  <2>2. FoundFrom(d)[t] = FoundFrom(d)[StepScan(d, t)]
    BY <1>1, <1>3, FoundFromUnfold
  <2>3. FoundFrom(d)[Answered(None)] = None
    BY FoundAnswered DEF None
  <2> QED BY <2>1, <2>2, <2>3
<1> QED BY <1>2, <1>3

\* Where the loop ends it stays: no later element starts.
LEMMA ElementsEnd ==
  ASSUME NEW d, NEW a \in Nat \ {0}, NEW h \in Nat, NEW k \in Nat,
         ElementStarts(d, a, h)[k] = None
  PROVE  \A n \in Nat : n >= k => ElementStarts(d, a, h)[n] = None
<1> DEFINE start == ElementStarts(d, a, h)
           T == {n \in Nat : n >= k => start[n] = None}
<1>1. \A n \in Nat : n # 0 /\ start[n - 1] = None => start[n] = None
  BY ElementStartsUnfold
<1> HIDE DEF start
<1>2. start[k] = None
  BY DEF start
<1>3. 0 \in T
  BY <1>2
<1>4. ASSUME NEW n \in Nat, n \in T PROVE n + 1 \in T
  <2>1. n + 1 \in Nat /\ n + 1 # 0 /\ (n + 1) - 1 = n
    OBVIOUS
  <2>2. n + 1 = k \/ n >= k \/ n + 1 < k
    OBVIOUS
  <2>3. n >= k => start[n + 1] = None
    BY <1>1, <1>4, <2>1
  <2> QED BY <1>2, <2>1, <2>2, <2>3
<1>5. Nat \subseteq T
  <2> HIDE DEF T
  <2> QED BY <1>3, <1>4, NatSetInduction
<1> QED BY <1>5 DEF start

\* The first element, and an array without one.
LEMMA FirstElement ==
  ASSUME NEW d, NEW a \in Nat \ {0}, NEW h \in Nat
  PROVE  /\ ElementStarts(d, a, h)[0] = FirstStart(d, a, h)
         /\ FirstStart(d, a, h) = None =>
              \A n \in Nat : ElementStarts(d, a, h)[n] = None
<1>1. ElementStarts(d, a, h)[0] = FirstStart(d, a, h)
  <2> DEFINE start == ElementStarts(d, a, h)
  <2>1. \A k \in Nat : start[k] = IF k = 0 THEN FirstStart(d, a, h)
              ELSE IF start[k - 1] = None THEN None
              ELSE NextStart(d, ClosestValue(d, start[k - 1], h), h)
    BY ElementStartsUnfold
  <2> HIDE DEF start
  <2>2. start[0] = FirstStart(d, a, h)
    BY <2>1
  <2> QED BY <2>2 DEF start
<1>2. ASSUME FirstStart(d, a, h) = None
      PROVE  \A n \in Nat : ElementStarts(d, a, h)[n] = None
  <2>1. 0 \in Nat /\ ElementStarts(d, a, h)[0] = None
    BY <1>1, <1>2
  <2>2. \A n \in Nat : n >= 0 => ElementStarts(d, a, h)[n] = None
    BY <2>1, ElementsEnd
  <2> QED BY <2>2
<1> QED BY <1>1, <1>2

\* searchKeys returns a position or None.
LEMMA FoundRange ==
  ASSUME NEW d
  PROVE  \A s \in Scans : FoundFrom(d)[s] \in Nat
<1> DEFINE T == {s \in Scans : FoundFrom(d)[s] \in Nat}
           rank == [s \in Scans |-> Left(s)]
<1>1. rank \in [Scans -> Nat]
  BY DEF Left, Scans
<1>2. ASSUME NEW s \in Scans, \A t \in Scans : rank[t] < rank[s] => t \in T
      PROVE  s \in T
  <2>1. FoundFrom(d)[s] = IF s.keys = <<>> THEN s.i
                          ELSE FoundFrom(d)[StepScan(d, s)]
    BY FoundFromUnfold
  <2>2. CASE s.keys = <<>>
    BY <2>1, <2>2 DEF Scans
  <2>3. CASE s.keys # <<>>
    <3>1. StepScan(d, s) \in Scans /\ rank[StepScan(d, s)] < rank[s]
      BY <2>3, StepDescends DEF Nearer
    <3>2. StepScan(d, s) \in T
      BY <1>2, <3>1
    <3> QED BY <2>1, <2>3, <3>2
  <2> QED BY <2>2, <2>3
<1>3. Scans \subseteq T
  <2> HIDE DEF T, rank
  <2> QED BY <1>1, <1>2, RankInduction
<1> QED BY <1>3

\* A value internalGet finds begins before it ends, and ends in its window.
LEMMA GetInRange ==
  ASSUME NEW d, NEW keys \in Seq(Seq(STRING)), NEW lo \in Nat, NEW hi \in Nat,
         GetIn(d, keys, lo, hi).err = "none"
  PROVE  /\ StartOf(GetIn(d, keys, lo, hi)) \in Nat \ {0}
         /\ GetIn(d, keys, lo, hi).end \in Nat
         /\ StartOf(GetIn(d, keys, lo, hi)) < GetIn(d, keys, lo, hi).end
         /\ GetIn(d, keys, lo, hi).end =< hi
<1> DEFINE v == GetIn(d, keys, lo, hi)
           offset == SearchKeys(d, keys, lo, hi)
           at == NextToken(d, offset, hi)
<1>1. offset \in Nat
  <2>1. StartScan(keys, <<lo, hi>>) \in Scans
    BY DEF StartScan, Scans
  <2> QED BY <2>1, FoundRange DEF SearchKeys
<1>2. offset # None /\ v = ClosestValue(d, offset, hi)
  BY DEF GetIn, ValueAt, Failed
<1> SUFFICES /\ StartOf(v) \in Nat \ {0} /\ v.end \in Nat
             /\ StartOf(v) < v.end /\ v.end =< hi
  OBVIOUS
<1>3. v.err = "none"
  OBVIOUS
<1> HIDE DEF v, offset
<1>4. offset \in Nat \ {0}
  BY <1>1, <1>2 DEF None
<1>5. at \in offset .. hi - 1 /\ ReadInWindow(v, at, hi)
  BY <1>2, <1>3, <1>4, ClosestValueRange DEF Failed
<1>6. at \in Nat \ {0}
  BY <1>4, <1>5
<1> HIDE DEF at
<1>7. CASE v.type = "String"
  <2>1. v.end \in at + 2 .. hi /\ v.window = <<at + 1, v.end - 1>>
    BY <1>3, <1>5, <1>7 DEF ReadInWindow
  <2>2. StartOf(v) = at
    BY <1>6, <1>7, <2>1 DEF StartOf
  <2> QED BY <1>6, <2>1, <2>2
<1>8. CASE v.type # "String"
  <2>1. v.end \in at + 1 .. hi /\ v.window = <<at, v.end>>
    BY <1>3, <1>5, <1>8 DEF ReadInWindow
  <2>2. StartOf(v) = at
    BY <1>8, <2>1 DEF StartOf
  <2> QED BY <1>6, <2>1, <2>2
<1> QED BY <1>7, <1>8
---------------------------------------------------------------------------
\* Two texts that agree below h: what a scan of the one, up to h, comes upon,
\* the scan of the other, up to h or further, comes upon as well.
Extends(w, g, d, h) ==
  h \in Nat /\ g \in Nat /\ h =< g /\ \A x \in 1 .. h - 1 : d[x] = w[x]

\* What is found up to h is found up to g, and if h is g then exactly that.
LEMMA FirstExtends ==
  ASSUME NEW i \in Nat \ {0}, NEW h \in Nat, NEW g \in Nat, h =< g,
         NEW S \in SUBSET (i .. h - 1), NEW T \in SUBSET (i .. g - 1),
         \A p \in i .. h - 1 : p \in S <=> p \in T
  PROVE  First(S) = First(T) \/ (h < g /\ First(S) = None)
<1>1. S \in SUBSET Nat /\ T \in SUBSET Nat
  OBVIOUS
<1>2. CASE S = {}
  <2>1. First(S) = None
    BY <1>2 DEF First
  <2>2. h = g => S = T
    OBVIOUS
  <2> QED BY <2>1, <2>2
<1>3. CASE S # {}
  <2>1. First(S) \in S /\ \A r \in S : First(S) =< r
    BY <1>1, <1>3, FirstIsLeast
  <2>2. First(S) \in T /\ T # {}
    BY <2>1
  <2>3. First(T) \in T /\ \A r \in T : First(T) =< r
    BY <1>1, <2>2, FirstIsLeast
  <2>4. First(T) =< First(S) /\ First(S) \in Nat /\ First(T) \in Nat
    BY <1>1, <2>1, <2>2, <2>3
  <2>5. First(T) \in i .. h - 1
    <3>1. First(S) \in i .. h - 1 /\ First(T) \in i .. g - 1
      BY <2>1, <2>3
    <3> QED BY <2>4, <3>1
  <2>6. First(S) =< First(T)
    BY <2>1, <2>3, <2>5
  <2> QED BY <2>4, <2>6
<1> QED BY <1>2, <1>3

\* nextToken finds the same in a longer text, or had found nothing.
LEMMA NextTokenExtends ==
  ASSUME NEW d, NEW w, NEW h, NEW g, Extends(w, g, d, h), NEW i \in Nat \ {0}
  PROVE  \/ NextToken(d, i, h) = NextToken(w, i, g)
         \/ h < g /\ NextToken(d, i, h) = None
<1> DEFINE S == {p \in i .. h - 1 : d[p] \notin Blank}
           T == {p \in i .. g - 1 : w[p] \notin Blank}
<1>1. h \in Nat /\ g \in Nat /\ h =< g
  BY DEF Extends
<1>2. \A p \in i .. h - 1 : d[p] = w[p] /\ p \in i .. g - 1
  BY <1>1 DEF Extends
<1>3. \A p \in i .. h - 1 : p \in S <=> p \in T
  BY <1>2
<1>4. S \in SUBSET (i .. h - 1) /\ T \in SUBSET (i .. g - 1)
  OBVIOUS
<1>5. NextToken(d, i, h) = First(S) /\ NextToken(w, i, g) = First(T)
  BY DEF NextToken
<1> HIDE DEF S, T
<1> QED BY <1>1, <1>3, <1>4, <1>5, FirstExtends

\* A scalar that ends before h ends there in both texts; one that h cuts off
\* does not end before.
LEMMA TokenEndExtends ==
  ASSUME NEW d, NEW w, NEW h, NEW g, Extends(w, g, d, h), NEW i \in Nat \ {0}, i < h
  PROVE  \/ TokenEnd(d, i, h) = TokenEnd(w, i, g)
         \/ /\ h < g /\ TokenEnd(d, i, h) = h
            /\ TokenEnd(w, i, g) \in h .. g
<1> DEFINE Stops == Blank \cup {",", "}", "]"}
           S == {p \in i .. h - 1 : d[p] \in Stops}
           T == {p \in i .. g - 1 : w[p] \in Stops}
<1>1. h \in Nat /\ g \in Nat /\ h =< g
  BY DEF Extends
<1>2. \A p \in i .. h - 1 : d[p] = w[p] /\ p \in i .. g - 1
  BY <1>1 DEF Extends
<1>3. \A p \in i .. h - 1 : p \in S <=> p \in T
  BY <1>2
<1>4. S \in SUBSET (i .. h - 1) /\ T \in SUBSET (i .. g - 1)
  OBVIOUS
<1>5. /\ TokenEnd(d, i, h) = IF First(S) = None THEN h ELSE First(S)
      /\ TokenEnd(w, i, g) = IF First(T) = None THEN g ELSE First(T)
  BY DEF TokenEnd
<1> HIDE DEF S, T
<1>6. First(S) = First(T) \/ (h < g /\ First(S) = None)
  BY <1>1, <1>3, <1>4, FirstExtends
<1>7. CASE First(S) = First(T) /\ (First(S) # None \/ h = g)
  BY <1>5, <1>7
<1>8. CASE First(S) = None /\ h < g
  <2>1. S = {}
    <3>1. S \in SUBSET Nat /\ \A p \in S : p # 0
      BY <1>4
    <3> QED BY <1>8, <3>1, FirstIsLeast DEF None
  <2>2. First(T) = None \/ First(T) \in T
    BY <1>1, <1>4, FirstInRange
  <2>3. First(T) = None \/ First(T) \in h .. g - 1
    <3>1. \A p \in T : p \in i .. g - 1 /\ p \notin i .. h - 1
      BY <1>3, <1>4, <2>1
    <3>2. \A p \in T : p \in h .. g - 1
      BY <1>1, <3>1
    <3> QED BY <2>2, <3>2
  <2>4. TokenEnd(w, i, g) \in h .. g /\ TokenEnd(d, i, h) = h
    BY <1>1, <1>5, <1>8, <2>3
  <2> QED BY <1>8, <2>4
<1>9. h = g \/ h < g
  BY <1>1
<1> QED BY <1>6, <1>7, <1>8, <1>9

\* The run of backslashes before p is seen before p.
LEMMA EvenRunExtends ==
  ASSUME NEW d, NEW w, NEW h, NEW g, Extends(w, g, d, h),
         NEW i \in Nat \ {0}, NEW p \in i .. h
  PROVE  EvenRun(d, i, p) = EvenRun(w, i, p)
<1>1. \A x \in i .. p - 1 : d[x] = w[x]
  BY DEF Extends
<1>2. ASSUME NEW k \in i .. p
      PROVE  /\ (\A j \in k .. p - 1 : d[j] = Backslash)
                  <=> (\A j \in k .. p - 1 : w[j] = Backslash)
             /\ (k > i => d[k - 1] # Backslash) <=> (k > i => w[k - 1] # Backslash)
  <2>1. \A j \in k .. p - 1 : j \in i .. p - 1
    OBVIOUS
  <2>2. k > i => k - 1 \in i .. p - 1
    OBVIOUS
  <2> QED BY <1>1, <2>1, <2>2
<1> DEFINE E(k) == (p - k) % 2 = 0
<1>3. /\ EvenRun(d, i, p) = \E k \in i .. p :
            /\ \A j \in k .. p - 1 : d[j] = Backslash
            /\ k > i => d[k - 1] # Backslash
            /\ E(k)
      /\ EvenRun(w, i, p) = \E k \in i .. p :
            /\ \A j \in k .. p - 1 : w[j] = Backslash
            /\ k > i => w[k - 1] # Backslash
            /\ E(k)
  BY DEF EvenRun
<1> HIDE DEF E
<1> QED BY <1>2, <1>3

\* stringEnd finds the same in a longer text, or had found nothing.
LEMMA StringEndExtends ==
  ASSUME NEW d, NEW w, NEW h, NEW g, Extends(w, g, d, h), NEW i \in Nat \ {0}, NEW q
  PROVE  \/ StringEnd(d, i, h, q) = StringEnd(w, i, g, q)
         \/ h < g /\ StringEnd(d, i, h, q) = None
<1> DEFINE S == {p \in i .. h - 1 : d[p] = q /\ EvenRun(d, i, p)}
           T == {p \in i .. g - 1 : w[p] = q /\ EvenRun(w, i, p)}
<1>1. h \in Nat /\ g \in Nat /\ h =< g
  BY DEF Extends
<1>2. \A p \in i .. h - 1 : d[p] = w[p] /\ p \in i .. g - 1 /\ p \in i .. h
  BY <1>1 DEF Extends
<1>3. \A p \in i .. h - 1 : EvenRun(d, i, p) = EvenRun(w, i, p)
  BY <1>2, EvenRunExtends
<1>4. \A p \in i .. h - 1 : p \in S <=> p \in T
  BY <1>2, <1>3
<1>5. S \in SUBSET (i .. h - 1) /\ T \in SUBSET (i .. g - 1)
  OBVIOUS
<1>6. StringEnd(d, i, h, q) = First(S) /\ StringEnd(w, i, g, q) = First(T)
  BY DEF StringEnd
<1> HIDE DEF S, T
<1> QED BY <1>1, <1>4, <1>5, <1>6, FirstExtends

\* Where the bytes of [i, h] stand with respect to strings, as blockEnd sees
\* them when it starts outside of every string.
ModesOf(d, i, h) ==
  LET mode[p \in i .. h] ==
        IF p = i THEN Outside ELSE Reading(d[p - 1])[mode[p - 1]]
  IN  mode

\* Reading a byte leads from one mode of blockEnd to another.
LEMMA ReadingIsMode ==
  ASSUME NEW c, NEW m \in Modes
  PROVE  Reading(c)[m] \in Modes
<1>1. Reading(c)[m] = CASE m = Outside -> IF c \in Quotes
                                          THEN [quote |-> c, escaped |-> FALSE] ELSE m
                        [] m.escaped   -> [m EXCEPT !.escaped = FALSE]
                        [] OTHER       -> IF c = m.quote THEN Outside
                                          ELSE [m EXCEPT !.escaped = (c = Backslash)]
  BY DEF Reading
<1>2. Outside \in Modes
  BY DEF Modes
<1>3. CASE m = Outside
  <2>1. c \in Quotes => [quote |-> c, escaped |-> FALSE] \in Modes
    BY DEF Modes
  <2>2. Reading(c)[m] = IF c \in Quotes THEN [quote |-> c, escaped |-> FALSE] ELSE m
    <3>1. ~m.escaped
      BY <1>3 DEF Outside
    <3> QED BY <1>1, <1>3, <3>1
  <2> QED BY <2>1, <2>2
<1>4. CASE m # Outside
  <2>1. m \in [quote : Quotes, escaped : BOOLEAN]
    BY <1>4 DEF Modes
  <2>2. \A b \in BOOLEAN : [m EXCEPT !.escaped = b] \in Modes
    BY <2>1 DEF Modes
  <2>3. (c = Backslash) \in BOOLEAN /\ FALSE \in BOOLEAN
    OBVIOUS
  <2>4. CASE m.escaped
    BY <1>1, <1>4, <2>2, <2>4
  <2>5. CASE ~m.escaped
    <3>1. Reading(c)[m] = IF c = m.quote THEN Outside
                          ELSE [m EXCEPT !.escaped = (c = Backslash)]
      BY <1>1, <1>4, <2>5
    <3> DEFINE b == c = Backslash
    <3>2. Reading(c)[m] = Outside \/ Reading(c)[m] = [m EXCEPT !.escaped = b]
      BY <3>1
    <3>3. b \in BOOLEAN
      OBVIOUS
    <3> HIDE DEF b
    <3> QED BY <1>2, <2>2, <3>2, <3>3
  <2> QED BY <2>4, <2>5
<1> QED BY <1>3, <1>4

ReadsModes(m, d, i, h) ==
  \A p \in i .. h : m[p] = IF p = i THEN Outside ELSE Reading(d[p - 1])[m[p - 1]]

\* The recursion is well defined.
LEMMA ModesSolved ==
  ASSUME NEW d, NEW i \in Nat, NEW h \in Nat
  PROVE  ReadsModes(ModesOf(d, i, h), d, i, h)
<1> DEFINE S == i .. h
           Body(f, p) == IF p = i THEN Outside ELSE Reading(d[p - 1])[f[p - 1]]
           rank == [p \in S |-> p]
           G == [f \in [S -> Modes] |-> [p \in S |-> Body(f, p)]]
<1>1. Outside \in Modes
  BY DEF Modes
<1>2. \A p \in S : p \in Nat /\ (p # i => p - 1 \in S /\ p - 1 < p)
  OBVIOUS
<1> HIDE DEF S
<1>3. ASSUME NEW f \in [S -> Modes], NEW p \in S PROVE Body(f, p) \in Modes
  <2>1. p # i => f[p - 1] \in Modes
    BY <1>2
  <2> QED BY <1>1, <2>1, ReadingIsMode
<1>4. ASSUME NEW f \in [S -> Modes], NEW g \in [S -> Modes], NEW p \in S,
             \A t \in S : rank[t] < rank[p] => f[t] = g[t]
      PROVE  Body(f, p) = Body(g, p)
  <2>1. p # i => f[p - 1] = g[p - 1]
    BY <1>2, <1>4
  <2> QED BY <2>1
<1>5. rank \in [S -> Nat]
  BY <1>2
<1> HIDE DEF Body, rank
<1>6. G \in [[S -> Modes] -> [S -> Modes]]
  BY <1>3
<1>7. \A f, g \in [S -> Modes], p \in S :
        (\A t \in S : rank[t] < rank[p] => f[t] = g[t]) => G[f][p] = G[g][p]
  BY <1>4
<1>8. \E f \in [S -> Modes] : f = G[f]
  <2> DEFINE V == Modes
  <2> HIDE DEF G, V
  <2>1. DescendsIn(G, S, V, rank)
    BY <1>5, <1>6, <1>7 DEF DescendsIn, V
  <2>2. V # {}
    BY <1>1 DEF V
  <2>3. \E f \in [S -> V] : f = G[f]
    BY <2>1, <2>2, RecursionHasSolution
  <2> QED BY <2>3 DEF V
<1>9. ModesOf(d, i, h) = CHOOSE f : f = [p \in S |-> Body(f, p)]
  BY DEF ModesOf, Body, S
<1>10. ModesOf(d, i, h) = [p \in S |-> Body(ModesOf(d, i, h), p)]
  <2>1. \E f : f = [p \in S |-> Body(f, p)]
    BY <1>8
  <2> QED BY <1>9, <2>1
<1> DEFINE m == ModesOf(d, i, h)
<1>11. m = [p \in S |-> Body(m, p)]
  BY <1>10
<1> HIDE DEF m
<1>12. \A p \in S : m[p] = Body(m, p)
  BY <1>11
<1>13. ReadsModes(m, d, i, h)
  BY <1>12 DEF ReadsModes, Body, S
<1> QED BY <1>13 DEF m

\* Where the texts agree, so does what is read of them.
LEMMA ReadingsAgree ==
  ASSUME NEW d, NEW w, NEW h, NEW g, Extends(w, g, d, h), NEW i \in Nat \ {0},
         NEW m, NEW n, ReadsModes(m, d, i, h), ReadsModes(n, w, i, g)
  PROVE  \A p \in i .. h : m[p] = n[p]
<1>1. i \in Nat /\ h \in Nat /\ g \in Nat /\ h =< g
  BY DEF Extends
<1>2. \A p \in i .. h : m[p] = IF p = i THEN Outside ELSE Reading(d[p - 1])[m[p - 1]]
  BY DEF ReadsModes
<1>3. \A p \in i .. g : n[p] = IF p = i THEN Outside ELSE Reading(w[p - 1])[n[p - 1]]
  BY DEF ReadsModes
<1> DEFINE S == i .. h
           T == {p \in S : m[p] = n[p]}
           rank == [p \in S |-> p]
<1>4. rank \in [S -> Nat]
  OBVIOUS
<1>5. ASSUME NEW p \in S, \A t \in S : rank[t] < rank[p] => t \in T
      PROVE  p \in T
  <2>1. CASE p = i
    <3>1. p \in i .. g
      BY <1>1
    <3> QED BY <1>2, <1>3, <2>1, <3>1
  <2>2. CASE p # i
    <3>1. p - 1 \in S /\ p - 1 < p /\ p - 1 \in 1 .. h - 1 /\ p \in i .. g
      BY <1>1, <2>2
    <3>2. m[p - 1] = n[p - 1]
      BY <1>5, <3>1
    <3>3. d[p - 1] = w[p - 1]
      BY <3>1 DEF Extends
    <3>4. m[p] = Reading(d[p - 1])[m[p - 1]]
      BY <1>2, <2>2
    <3>5. n[p] = Reading(w[p - 1])[n[p - 1]]
      BY <1>3, <2>2, <3>1
    <3> QED BY <3>2, <3>3, <3>4, <3>5
  <2> QED BY <2>1, <2>2
<1>6. S \subseteq T
  <2> HIDE DEF S, T, rank
  <2> QED BY <1>4, <1>5, RankInduction
<1> QED BY <1>6

\* The modes of blockEnd, up to where the shorter text ends, are the same.
LEMMA ModesExtend ==
  ASSUME NEW d, NEW w, NEW h, NEW g, Extends(w, g, d, h), NEW i \in Nat \ {0}
  PROVE  \A p \in i .. h : ModesOf(d, i, h)[p] = ModesOf(w, i, g)[p]
<1>1. ReadsModes(ModesOf(d, i, h), d, i, h) /\ ReadsModes(ModesOf(w, i, g), w, i, g)
  BY ModesSolved DEF Extends
<1> QED BY <1>1, ReadingsAgree

\* blockEnd finds the same in a longer text, or had found nothing.
LEMMA BlockEndExtends ==
  ASSUME NEW d, NEW w, NEW h, NEW g, Extends(w, g, d, h), NEW i \in Nat \ {0},
         NEW open, NEW close
  PROVE  \/ BlockEnd(d, i, h, open, close) = BlockEnd(w, i, g, open, close)
         \/ h < g /\ BlockEnd(d, i, h, open, close) = None
<1> DEFINE m == ModesOf(d, i, h)
           n == ModesOf(w, i, g)
           C(symbol, p) == Cardinality({r \in i .. p : d[r] = symbol /\ m[r] = Outside})
           D(symbol, p) == Cardinality({r \in i .. p : w[r] = symbol /\ n[r] = Outside})
           S == {p \in i .. h - 1 : /\ d[p] = close /\ m[p] = Outside
                                    /\ C(open, p) = C(close, p)}
           T == {p \in i .. g - 1 : /\ w[p] = close /\ n[p] = Outside
                                    /\ D(open, p) = D(close, p)}
<1>1. h \in Nat /\ g \in Nat /\ h =< g
  BY DEF Extends
<1>2. \A p \in i .. h - 1 : /\ d[p] = w[p] /\ p \in i .. g - 1 /\ p \in i .. h
                            /\ \A r \in i .. p : r \in i .. h - 1
  BY <1>1 DEF Extends
<1>3. \A p \in i .. h - 1 : m[p] = n[p]
  BY <1>2, ModesExtend
<1>4. /\ BlockEnd(d, i, h, open, close) = IF First(S) = None THEN None ELSE First(S) + 1
      /\ BlockEnd(w, i, g, open, close) = IF First(T) = None THEN None ELSE First(T) + 1
  BY DEF BlockEnd, ModesOf
<1> HIDE DEF m, n
<1>5. ASSUME NEW symbol, NEW p \in i .. h - 1
      PROVE  C(symbol, p) = D(symbol, p)
  <2>1. \A r \in i .. p : d[r] = w[r] /\ m[r] = n[r]
    BY <1>2, <1>3
  <2>2. {r \in i .. p : d[r] = symbol /\ m[r] = Outside}
          = {r \in i .. p : w[r] = symbol /\ n[r] = Outside}
    BY <2>1
  <2> QED BY <2>2
<1>6. S \in SUBSET (i .. h - 1) /\ T \in SUBSET (i .. g - 1)
  OBVIOUS
<1> HIDE DEF C, D
<1>7. \A p \in i .. h - 1 : p \in S <=> p \in T
  BY <1>2, <1>3, <1>5
<1> HIDE DEF S, T
<1>8. First(S) = First(T) \/ (h < g /\ First(S) = None)
  BY <1>1, <1>6, <1>7, FirstExtends
<1> QED BY <1>4, <1>8

\* The bracket that closes what c opens.
Closer(c) == IF c = "{" THEN "}" ELSE "]"

\* The bytes of [i, p] that blockEnd counts.
Seen(d, i, h, symbol, p) ==
  {r \in i .. p : d[r] = symbol /\ ModesOf(d, i, h)[r] = Outside}

Tally(d, i, h, symbol, p) == Cardinality(Seen(d, i, h, symbol, p))

\* blockEnd would stop at p.
EndsAt(d, i, h, p) == /\ d[p] = Closer(d[i])
                      /\ ModesOf(d, i, h)[p] = Outside
                      /\ Tally(d, i, h, d[i], p) = Tally(d, i, h, Closer(d[i]), p)

\* It does stop at the first such byte.
LEMMA BlockEndFirst ==
  ASSUME NEW d, NEW i \in Nat \ {0}, NEW h \in Nat, NEW q \in i .. h - 1,
         EndsAt(d, i, h, q), \A r \in i .. q - 1 : ~EndsAt(d, i, h, r)
  PROVE  BlockEnd(d, i, h, d[i], Closer(d[i])) = q + 1
<1> DEFINE open == d[i]
           close == Closer(d[i])
           mode == ModesOf(d, i, h)
           C(symbol, p) ==
             Cardinality({r \in i .. p : d[r] = symbol /\ mode[r] = Outside})
           S == {p \in i .. h - 1 : /\ d[p] = close
                                     /\ mode[p] = Outside
                                     /\ C(open, p) = C(close, p)}
<1>1. BlockEnd(d, i, h, open, close)
        = IF First(S) = None THEN None ELSE First(S) + 1
  BY DEF BlockEnd, ModesOf
<1>2. \A p \in i .. h - 1 : p \in S <=> EndsAt(d, i, h, p)
  BY DEF EndsAt, Tally, Seen
<1>3. S \in SUBSET (i .. h - 1)
  OBVIOUS
<1> HIDE DEF S, open, close
<1>4. q \in S /\ S \in SUBSET Nat
  BY <1>2, <1>3
<1>5. First(S) \in S /\ First(S) =< q
  BY <1>4, FirstIsLeast
<1>6. First(S) \in i .. h - 1 /\ ~(First(S) < q)
  <2>1. First(S) \in i .. h - 1 /\ EndsAt(d, i, h, First(S))
    BY <1>2, <1>3, <1>5
  <2>2. First(S) < q => First(S) \in i .. q - 1
    BY <2>1
  <2> QED BY <2>1, <2>2
<1>7. First(S) = q
  BY <1>5, <1>6
<1> QED BY <1>1, <1>7 DEF None, open, close

\* One byte more is one symbol more, or none.
LEMMA TallyNext ==
  ASSUME NEW d, NEW i \in Nat, NEW h, NEW symbol, NEW q \in Nat, i =< q
  PROVE  /\ Tally(d, i, h, symbol, q) \in Nat
         /\ Tally(d, i, h, symbol, q - 1) \in Nat
         /\ Tally(d, i, h, symbol, q) = Tally(d, i, h, symbol, q - 1)
               + (IF d[q] = symbol /\ ModesOf(d, i, h)[q] = Outside THEN 1 ELSE 0)
<1> DEFINE S == Seen(d, i, h, symbol, q)
           T == Seen(d, i, h, symbol, q - 1)
           counted == d[q] = symbol /\ ModesOf(d, i, h)[q] = Outside
<1>1. S = (IF counted THEN T \cup {q} ELSE T) /\ q \notin T
  <2>1. q - 1 \in Int /\ \A r : r \in i .. q <=> (r \in i .. q - 1 \/ r = q)
    OBVIOUS
  <2>2. q \notin i .. q - 1
    OBVIOUS
  <2> QED BY <2>1, <2>2 DEF Seen
<1>2. IsFiniteSet(T)
  <2>1. IsFiniteSet(i .. q - 1)
    BY FS_Interval
  <2> QED BY <2>1, FS_Subset DEF Seen
<1>3. Cardinality(T) \in Nat
  BY <1>2, FS_CardinalityType
<1>4. Cardinality(T \cup {q}) = Cardinality(T) + 1
  <2> HIDE DEF T
  <2> QED BY <1>1, <1>2, FS_AddElement
<1>5. Cardinality(S) = Cardinality(T) + IF counted THEN 1 ELSE 0
  <2> HIDE DEF S, T, counted
  <2> QED BY <1>1, <1>3, <1>4
<1> HIDE DEF S, T, counted
<1>6. Cardinality(S) \in Nat
  BY <1>3, <1>5
<1> QED BY <1>3, <1>5, <1>6 DEF S, T, counted, Tally

\* In front of the block nothing is counted.
LEMMA TallyNothing ==
  ASSUME NEW d, NEW i \in Nat, NEW h, NEW symbol
  PROVE  Tally(d, i, h, symbol, i - 1) = 0
<1>1. i .. i - 1 = {}
  OBVIOUS
<1>2. Seen(d, i, h, symbol, i - 1) = {}
  BY <1>1 DEF Seen
<1> QED BY <1>2, FS_EmptySet DEF Tally

\* The same bytes are the same text.
LEMMA TextsAgree ==
  ASSUME NEW d, NEW w, NEW lo \in Int, NEW hi \in Int,
         \A x \in lo .. hi - 1 : d[x] = w[x]
  PROVE  Text(d, lo, hi) = Text(w, lo, hi)
<1> DEFINE S == {d[x] : x \in lo .. hi - 1}
           s == SubSeq(d, lo, hi - 1)
           t == SubSeq(w, lo, hi - 1)
<1>1. /\ \A x \in lo .. hi - 1 : d[x] \in S /\ w[x] \in S
      /\ hi - 1 \in Int
  OBVIOUS
<1> HIDE DEF S
<1>2. /\ s \in Seq(S) /\ Len(s) = IF lo =< hi - 1 THEN hi - 1 - lo + 1 ELSE 0
      /\ \A k \in 1 .. hi - 1 - lo + 1 : s[k] = d[lo + k - 1]
  BY <1>1, SubSeqProperties
<1>3. /\ t \in Seq(S) /\ Len(t) = IF lo =< hi - 1 THEN hi - 1 - lo + 1 ELSE 0
      /\ \A k \in 1 .. hi - 1 - lo + 1 : t[k] = w[lo + k - 1]
  BY <1>1, SubSeqProperties
<1> HIDE DEF s, t
<1>4. \A k \in 1 .. Len(s) : s[k] = t[k]
  <2>1. ASSUME NEW k \in 1 .. Len(s) PROVE s[k] = t[k]
    <3>1. k \in 1 .. hi - 1 - lo + 1 /\ lo + k - 1 \in lo .. hi - 1
      BY <1>2
    <3>2. s[k] = d[lo + k - 1] /\ t[k] = w[lo + k - 1]
      BY <1>2, <1>3, <3>1
    <3> QED BY <3>1, <3>2
  <2> QED BY <2>1
<1>5. s = t
  BY <1>2, <1>3, <1>4, SeqEqual
<1> QED BY <1>5 DEF Text, s, t

\* A text that is not empty: how long it is and how it begins.
LEMMA TextBegins ==
  ASSUME NEW d, NEW lo \in Int, NEW hi \in Int, lo < hi
  PROVE  Len(Text(d, lo, hi)) = hi - lo /\ Text(d, lo, hi)[1] = d[lo]
<1> DEFINE S == {d[x] : x \in lo .. hi - 1}
           s == SubSeq(d, lo, hi - 1)
<1>1. (\A x \in lo .. hi - 1 : d[x] \in S) /\ hi - 1 \in Int
  OBVIOUS
<1> HIDE DEF S
<1>2. /\ Len(s) = IF lo =< hi - 1 THEN hi - 1 - lo + 1 ELSE 0
      /\ \A k \in 1 .. hi - 1 - lo + 1 : s[k] = d[lo + k - 1]
  BY <1>1, SubSeqProperties
<1> HIDE DEF s
<1>3. 1 \in 1 .. hi - 1 - lo + 1 /\ lo + 1 - 1 = lo
  OBVIOUS
<1> QED BY <1>2, <1>3 DEF Text, s

\* A scalar that h cuts off: a literal, which shows nothing, or a number.
CutScalar(v, u, h) ==
  /\ v.err = "none" /\ v.end = h
  /\ \/ v.type \in {"Boolean", "Null"} /\ v.window = <<h - 1, h>>
     \/ /\ v.type = "Number" /\ u.type = "Number" /\ u.err = "none"
        /\ u.window = <<v.window[1], u.end>> /\ u.end \in Nat /\ u.end >= h

\* u is what reads further where v was cut off at h, if it was.
ReadsOn(v, u, h, g) ==
  u = v \/ (h < g /\ (v.err # "none" \/ CutScalar(v, u, h)))

\* A number or a literal is the same in a longer text when a byte ended it in
\* the shorter one; otherwise it may read on.
LEMMA ScalarReadsOn ==
  ASSUME NEW d, NEW w, NEW h, NEW g, Extends(w, g, d, h), NEW p \in Nat \ {0}, p < h
  PROVE  ReadsOn(GetScalar(d, p, TokenEnd(d, p, h)), GetScalar(w, p, TokenEnd(w, p, g)), h, g)
<1> DEFINE a == TokenEnd(d, p, h)
           b == TokenEnd(w, p, g)
           v == GetScalar(d, p, a)
           u == GetScalar(w, p, b)
<1>1. h \in Nat /\ g \in Nat /\ h =< g
  BY DEF Extends
<1>2. a \in p .. h
  BY <1>1, TokenEndRange
<1>3. a = b \/ (h < g /\ a = h /\ b \in h .. g)
  BY TokenEndExtends
<1> SUFFICES ReadsOn(v, u, h, g)
  OBVIOUS
<1> HIDE DEF a, b
<1>4. CASE a = b
  <2>1. Text(d, p, a) = Text(w, p, a)
    <3>1. a \in Int /\ \A x \in p .. a - 1 : d[x] = w[x]
      BY <1>1, <1>2 DEF Extends
    <3> QED BY <3>1, TextsAgree
  <2>2. v = u
    BY <1>4, <2>1 DEF GetScalar
  <2> QED BY <2>2 DEF ReadsOn
<1>5. CASE h < g /\ a = h /\ b \in h .. g
  <2> DEFINE s == Text(d, p, a)
             t == Text(w, p, b)
  <2>0. b \in Nat /\ p < b /\ b >= h
    BY <1>1, <1>5
  <2>1. Len(s) = h - p /\ s[1] = d[p]
    BY <1>1, <1>5, TextBegins
  <2>2. t[1] = w[p]
    BY <2>0, TextBegins
  <2>3. d[p] = w[p]
    BY <1>1 DEF Extends
  <2> HIDE DEF s, t
  <2>4. v = IF ScalarType(s) = "Unknown" THEN Failed("Unknown", p, "UnknownValueType")
            ELSE Got(ScalarType(s), <<p, h>>, h)
    BY <1>5 DEF GetScalar, s
  <2>5. u = IF ScalarType(t) = "Unknown" THEN Failed("Unknown", p, "UnknownValueType")
            ELSE Got(ScalarType(t), <<p, b>>, b)
    BY <2>0 DEF GetScalar, t
  <2> HIDE DEF v, u
  <2>6. \/ ScalarType(s) = "Boolean" /\ Len(s) = 1
        \/ ScalarType(s) = "Null" /\ Len(s) = 1
        \/ ScalarType(s) = "Number" /\ s[1] \in Digits \cup {"-"}
        \/ ScalarType(s) = "Unknown"
    BY DEF ScalarType
  <2>7. CASE ScalarType(s) = "Unknown"
    BY <1>5, <2>4, <2>7 DEF ReadsOn, Failed
  <2>8. CASE ScalarType(s) \in {"Boolean", "Null"} /\ Len(s) = 1
    <3>0. h - p = 1
      BY <2>1, <2>8
    <3>1. p = h - 1
      BY <1>1, <3>0
    <3>2. /\ v.err = "none" /\ v.end = h /\ v.type \in {"Boolean", "Null"}
          /\ v.window = <<h - 1, h>>
      BY <2>4, <2>8, <3>1 DEF Got
    <3> QED BY <1>5, <3>2 DEF ReadsOn, CutScalar
  <2>9. CASE ScalarType(s) = "Number" /\ s[1] \in Digits \cup {"-"}
    <3>1. t[1] \in Digits \cup {"-"}
      BY <2>1, <2>2, <2>3, <2>9
    <3>2. t[1] \notin {"t", "f", "n"}
      BY <3>1 DEF Digits, DigitNames
    <3>3. ScalarType(t) = "Number"
      BY <3>1, <3>2 DEF ScalarType
    <3>4. /\ u.type = "Number" /\ u.err = "none" /\ u.end = b /\ u.window = <<p, b>>
      BY <2>5, <3>3 DEF Got
    <3>5. /\ v.type = "Number" /\ v.err = "none" /\ v.end = h /\ v.window = <<p, h>>
      BY <2>4, <2>9 DEF Got
    <3> QED BY <1>5, <2>0, <3>4, <3>5 DEF ReadsOn, CutScalar
  <2> QED BY <2>6, <2>7, <2>8, <2>9
<1> QED BY <1>3, <1>4, <1>5

\* What getType reads where the text goes on.
LEMMA GetTypeReadsOn ==
  ASSUME NEW d, NEW w, NEW h, NEW g, Extends(w, g, d, h), NEW p \in Nat \ {0}, p < h
  PROVE  ReadsOn(GetType(d, p, h), GetType(w, p, g), h, g)
<1>1. d[p] = w[p]
  BY DEF Extends
<1>2. ASSUME NEW a, NEW b, a = b \/ (h < g /\ a = None),
             NEW type, NEW x, NEW y, NEW err, err # "none",
             a = b => x = y
      PROVE  ReadsOn(Delimited(type, p, x, a, err), Delimited(type, p, y, b, err), h, g)
  <2>1. CASE a = b
    BY <1>2, <2>1 DEF ReadsOn
  <2>2. CASE h < g /\ a = None
    BY <1>2, <2>2 DEF ReadsOn, Delimited, Failed
  <2> QED BY <1>2, <2>1, <2>2
<1>3. CASE d[p] \in Quotes
  <2> DEFINE a == StringEnd(d, p + 1, h, d[p])
             b == StringEnd(w, p + 1, g, d[p])
  <2>1. a = b \/ (h < g /\ a = None)
    <3>1. p + 1 \in Nat \ {0}
      OBVIOUS
    <3> QED BY <3>1, StringEndExtends
  <2>2. GetType(d, p, h) = GetString(p, a) /\ GetType(w, p, g) = GetString(p, b)
    BY <1>1, <1>3 DEF GetType, Quotes, Quote
  <2> HIDE DEF a, b
  <2>4. CASE a = b
    BY <2>2, <2>4 DEF ReadsOn
  <2>5. CASE h < g /\ a = None
    <3>1. GetString(p, a).err = "MalformedString"
      BY <2>5 DEF GetString, Delimited, Failed
    <3> QED BY <2>2, <2>5, <3>1 DEF ReadsOn
  <2> QED BY <2>1, <2>4, <2>5
<1>4. ASSUME NEW open, NEW close, NEW type, NEW err, err # "none"
      PROVE  ReadsOn(GetBlock(type, p, BlockEnd(d, p, h, open, close), err),
                     GetBlock(type, p, BlockEnd(w, p, g, open, close), err), h, g)
  <2>1. \/ BlockEnd(d, p, h, open, close) = BlockEnd(w, p, g, open, close)
        \/ h < g /\ BlockEnd(d, p, h, open, close) = None
    BY BlockEndExtends
  <2> QED BY <1>2, <1>4, <2>1 DEF GetBlock
<1>5. CASE d[p] \notin Quotes /\ d[p] = "["
  <2>1. /\ GetType(d, p, h) = GetBlock("Array", p, BlockEnd(d, p, h, "[", "]"),
                                       "MalformedArray")
        /\ GetType(w, p, g) = GetBlock("Array", p, BlockEnd(w, p, g, "[", "]"),
                                       "MalformedArray")
    BY <1>1, <1>5 DEF GetType
  <2> QED BY <1>4, <2>1
<1>6. CASE d[p] \notin Quotes /\ d[p] # "[" /\ d[p] = "{"
  <2>1. /\ GetType(d, p, h) = GetBlock("Object", p, BlockEnd(d, p, h, "{", "}"),
                                       "MalformedObject")
        /\ GetType(w, p, g) = GetBlock("Object", p, BlockEnd(w, p, g, "{", "}"),
                                       "MalformedObject")
    BY <1>1, <1>6 DEF GetType
  <2> QED BY <1>4, <2>1
<1>7. CASE d[p] \notin Quotes /\ d[p] # "[" /\ d[p] # "{"
  <2>1. /\ GetType(d, p, h) = GetScalar(d, p, TokenEnd(d, p, h))
        /\ GetType(w, p, g) = GetScalar(w, p, TokenEnd(w, p, g))
    BY <1>1, <1>7 DEF GetType
  <2> QED BY <2>1, ScalarReadsOn
<1> QED BY <1>3, <1>5, <1>6, <1>7

\* What internalGet reads where the text goes on.
LEMMA ClosestValueReadsOn ==
  ASSUME NEW d, NEW w, NEW h, NEW g, Extends(w, g, d, h), NEW p \in Nat \ {0}
  PROVE  ReadsOn(ClosestValue(d, p, h), ClosestValue(w, p, g), h, g)
<1> DEFINE a == NextToken(d, p, h)
           b == NextToken(w, p, g)
<1>1. a = b \/ (h < g /\ a = None)
  BY NextTokenExtends
<1>2. a = None \/ a \in p .. h - 1
  BY NextTokenRange DEF Extends
<1>3. h \in Nat
  BY DEF Extends
<1>4. /\ ClosestValue(d, p, h) = IF a = None THEN Failed("NotExist", None, "MalformedJson")
                                 ELSE GetType(d, a, h)
      /\ ClosestValue(w, p, g) = IF b = None THEN Failed("NotExist", None, "MalformedJson")
                                 ELSE GetType(w, b, g)
  BY DEF ClosestValue
<1> HIDE DEF a, b
<1>5. CASE a = None
  <2>1. CASE a = b
    BY <1>4, <1>5, <2>1 DEF ReadsOn
  <2>2. CASE h < g
    BY <1>4, <1>5, <2>2 DEF ReadsOn, Failed
  <2> QED BY <1>1, <2>1, <2>2
<1>6. CASE a # None
  <2>1. a = b /\ a \in Nat \ {0} /\ a < h
    BY <1>1, <1>2, <1>3, <1>6
  <2> QED BY <1>4, <1>6, <2>1, GetTypeReadsOn
<1> QED BY <1>5, <1>6


---------------------------------------------------------------------------
\* A value that was read ends at a position.
LEMMA ValueEndsInNat ==
  ASSUME NEW d, NEW p \in Nat \ {0}, NEW h \in Nat, ClosestValue(d, p, h).err = "none"
  PROVE  ClosestValue(d, p, h).end \in Nat \ {0}
<1> DEFINE v == ClosestValue(d, p, h)
           at == NextToken(d, p, h)
<1>1. \/ v = Failed("NotExist", None, "MalformedJson")
      \/ at \in p .. h - 1 /\ ReadInWindow(v, at, h)
  BY ClosestValueRange
<1>2. v.err = "none"
  OBVIOUS
<1> HIDE DEF v, at
<1>3. at \in p .. h - 1 /\ ReadInWindow(v, at, h)
  BY <1>1, <1>2 DEF Failed
<1>4. at \in Nat /\ at > 0
  BY <1>3
<1>5. v.end \in at + 1 .. h \/ v.end \in at + 2 .. h
  BY <1>2, <1>3 DEF ReadInWindow
<1>6. v.end \in Nat \ {0}
  BY <1>4, <1>5
<1> QED BY <1>6 DEF v

\* Where the next element starts, where the text goes on.
LEMMA NextStartReadsOn ==
  ASSUME NEW d, NEW w, NEW h, NEW g, Extends(w, g, d, h), NEW p \in Nat \ {0}
  PROVE  \/ NextStart(d, ClosestValue(d, p, h), h) = NextStart(w, ClosestValue(w, p, g), g)
         \/ h < g /\ NextStart(d, ClosestValue(d, p, h), h) = None
<1> DEFINE v == ClosestValue(d, p, h)
           u == ClosestValue(w, p, g)
           a == NextToken(d, v.end, h)
           b == NextToken(w, v.end, g)
<1>1. h \in Nat /\ g \in Nat
  BY DEF Extends
<1>2. ReadsOn(v, u, h, g)
  BY ClosestValueReadsOn
<1>3. v.err = "none" => v.end \in Nat \ {0}
  BY <1>1, ValueEndsInNat
<1>4. NextStart(d, v, h) = IF v.err = "none" /\ a # None /\ d[a] = "," THEN a + 1 ELSE None
  BY DEF NextStart
<1> SUFFICES NextStart(d, v, h) = NextStart(w, u, g) \/ (h < g /\ NextStart(d, v, h) = None)
  OBVIOUS
<1>5. u = v => NextStart(w, u, g)
                 = IF v.err = "none" /\ b # None /\ w[b] = "," THEN b + 1 ELSE None
  BY DEF NextStart
<1> HIDE DEF u, v
<1>6. CASE v.err # "none"
  BY <1>2, <1>4, <1>5, <1>6 DEF ReadsOn, CutScalar
<1>7. CASE v.err = "none" /\ u = v
  <2>1. a = b \/ (h < g /\ a = None)
    BY <1>3, <1>7, NextTokenExtends
  <2>2. a = None \/ a \in v.end .. h - 1
    BY <1>1, <1>3, <1>7, NextTokenRange
  <2>3. a # None => d[a] = w[a]
    <3> HIDE DEF a
    <3> QED BY <1>1, <1>3, <1>7, <2>2 DEF Extends
  <2> HIDE DEF a, b
  <2> QED BY <1>4, <1>5, <1>7, <2>1, <2>3
<1>8. CASE v.err = "none" /\ u # v
  <2>1. h < g /\ v.end = h
    BY <1>2, <1>8 DEF ReadsOn, CutScalar
  <2>2. a = None \/ a \in h .. h - 1
    BY <1>1, <1>3, <1>8, <2>1, NextTokenRange
  <2>3. a = None
    BY <1>1, <2>2
  <2> QED BY <1>4, <2>1, <2>3
<1> QED BY <1>6, <1>7, <1>8

\* Where the elements start, where the text goes on.
LEMMA ElementStartsReadOn ==
  ASSUME NEW d, NEW w, NEW h, NEW g, Extends(w, g, d, h), NEW a \in Nat \ {0}, a < h
  PROVE  \A k \in Nat : \/ ElementStarts(d, a, h)[k] = ElementStarts(w, a, g)[k]
                        \/ h < g /\ ElementStarts(d, a, h)[k] = None
<1> DEFINE start == ElementStarts(d, a, h)
           later == ElementStarts(w, a, g)
           T == {k \in Nat : start[k] = later[k] \/ (h < g /\ start[k] = None)}
<1>1. h \in Nat /\ g \in Nat /\ h =< g
  BY DEF Extends
<1>2. /\ start \in [Nat -> Nat]
      /\ \A k \in Nat :
           start[k] = IF k = 0 THEN FirstStart(d, a, h)
                      ELSE IF start[k - 1] = None THEN None
                      ELSE NextStart(d, ClosestValue(d, start[k - 1], h), h)
  BY <1>1, ElementStartsUnfold
<1>3. /\ \A k \in Nat :
           later[k] = IF k = 0 THEN FirstStart(w, a, g)
                      ELSE IF later[k - 1] = None THEN None
                      ELSE NextStart(w, ClosestValue(w, later[k - 1], g), g)
  BY <1>1, ElementStartsUnfold
<1> HIDE DEF start, later
<1>4. 0 \in T
  <2> DEFINE x == NextToken(d, a + 1, h)
             y == NextToken(w, a + 1, g)
  <2>1. a + 1 \in Nat \ {0}
    OBVIOUS
  <2>2. x = y \/ (h < g /\ x = None)
    BY <2>1, NextTokenExtends
  <2>3. x = None \/ x \in a + 1 .. h - 1
    BY <1>1, <2>1, NextTokenRange
  <2>4. /\ start[0] = IF x = None \/ d[x] = "]" THEN None ELSE x
        /\ later[0] = IF y = None \/ w[y] = "]" THEN None ELSE y
    BY <1>2, <1>3 DEF FirstStart
  <2> HIDE DEF x, y
  <2>5. x # None => d[x] = w[x]
    BY <1>1, <2>1, <2>3 DEF Extends
  <2> QED BY <2>2, <2>4, <2>5
<1>5. ASSUME NEW k \in Nat, k \in T PROVE k + 1 \in T
  <2>1. /\ (k + 1) - 1 = k /\ k + 1 # 0 /\ k + 1 \in Nat
        /\ start[k + 1] = IF start[k] = None THEN None
                          ELSE NextStart(d, ClosestValue(d, start[k], h), h)
        /\ later[k + 1] = IF later[k] = None THEN None
                          ELSE NextStart(w, ClosestValue(w, later[k], g), g)
    BY <1>2, <1>3
  <2>2. CASE start[k] = None
    BY <1>5, <2>1, <2>2
  <2>3. CASE start[k] # None
    <3>1. start[k] = later[k] /\ start[k] \in Nat \ {0}
      BY <1>2, <1>5, <2>3 DEF None
    <3> DEFINE p == start[k]
    <3>2. \/ NextStart(d, ClosestValue(d, p, h), h)
               = NextStart(w, ClosestValue(w, p, g), g)
          \/ h < g /\ NextStart(d, ClosestValue(d, p, h), h) = None
      BY <3>1, NextStartReadsOn
    <3> QED BY <2>1, <2>3, <3>1, <3>2
  <2> QED BY <2>2, <2>3
<1>6. Nat \subseteq T
  <2> HIDE DEF T
  <2> QED BY <1>4, <1>5, NatSetInduction
<1> QED BY <1>6 DEF start, later

\* The same for the element an index component asks for.
LEMMA ElementStartReadsOn ==
  ASSUME NEW d, NEW w, NEW h, NEW g, Extends(w, g, d, h), NEW a \in Nat \ {0}, a < h,
         NEW n
  PROVE  \/ ElementStart(d, a, h, n) = ElementStart(w, a, g, n)
         \/ h < g /\ ElementStart(d, a, h, n) = None
BY ElementStartsReadOn DEF ElementStart

\* An element is the first, or it starts behind a comma.
LEMMA StartsBehindComma ==
  ASSUME NEW d, NEW a \in Nat \ {0}, NEW h \in Nat, NEW k \in Nat,
         ElementStarts(d, a, h)[k] # None
  PROVE  \/ NextToken(d, ElementStarts(d, a, h)[k], h) = ElementStarts(d, a, h)[k]
         \/ d[ElementStarts(d, a, h)[k] - 1] = ","
<1> DEFINE start == ElementStarts(d, a, h)
           first == NextToken(d, a + 1, h)
<1>1. /\ start \in [Nat -> Nat]
      /\ \A m \in Nat :
           start[m] = IF m = 0 THEN FirstStart(d, a, h)
                      ELSE IF start[m - 1] = None THEN None
                      ELSE NextStart(d, ClosestValue(d, start[m - 1], h), h)
  BY ElementStartsUnfold
<1>2. start[k] # None
  OBVIOUS
<1> SUFFICES NextToken(d, start[k], h) = start[k] \/ d[start[k] - 1] = ","
  OBVIOUS
<1> HIDE DEF start
<1>3. CASE k = 0
  <2>1. start[k] = first
    BY <1>1, <1>2, <1>3 DEF FirstStart
  <2>2. a + 1 \in Nat \ {0}
    OBVIOUS
  <2>3. first \in a + 1 .. h - 1 /\ d[first] \notin Blank
    BY <1>2, <2>1, <2>2, NextTokenRange
  <2> HIDE DEF first
  <2>4. first \in Nat \ {0} /\ first < h
    BY <2>3
  <2> QED BY <2>1, <2>3, <2>4, NextTokenRange
<1>4. CASE k # 0
  <2> DEFINE v == ClosestValue(d, start[k - 1], h)
             next == NextToken(d, v.end, h)
  <2>1. k - 1 \in Nat /\ start[k - 1] # None /\ start[k] = NextStart(d, v, h)
    BY <1>1, <1>2, <1>4
  <2>2. start[k - 1] \in Nat \ {0}
    BY <1>1, <2>1 DEF None
  <2>3. NextStart(d, v, h) =
          IF v.err = "none" /\ next # None /\ d[next] = "," THEN next + 1 ELSE None
    BY DEF NextStart
  <2>4. v.err = "none" /\ next # None /\ d[next] = "," /\ start[k] = next + 1
    BY <1>2, <2>1, <2>3
  <2>5. next \in Nat
    <3>1. v.end \in Nat \ {0}
      BY <2>2, <2>4, ValueEndsInNat
    <3>2. next = None \/ next \in v.end .. h - 1
      BY <3>1, NextTokenRange
    <3>3. next \in v.end .. h - 1
      BY <2>4, <3>2
    <3> HIDE DEF v, next
    <3> QED BY <3>1, <3>3
  <2>6. start[k] = next + 1
    BY <2>4
  <2> HIDE DEF next
  <2>7. (next + 1) - 1 = next
    BY <2>5
  <2> QED BY <2>4, <2>6, <2>7
<1> QED BY <1>3, <1>4


---------------------------------------------------------------------------
\* What a caller can rely on when the text ends at h: a value without an error,
\* and no literal that h may have cut off.
Sound(v, h) == v.err = "none" /\ (v.type \in {"Boolean", "Null"} => v.end < h)

\* Bytes in which no scan finds anything.
Plain == Blank \cup {",", "t", "f", "n"}

\* What is read at the token is what is read on the way to it.
LEMMA ClosestAgain ==
  ASSUME NEW d, NEW p \in Nat \ {0}, NEW h \in Nat, NEW q \in Nat \ {0},
         NextToken(d, p, h) # None,
         q = NextToken(d, p, h) \/ NextToken(d, q, h) = NextToken(d, p, h)
  PROVE  ClosestValue(d, q, h) = ClosestValue(d, p, h)
<1> DEFINE at == NextToken(d, p, h)
<1>1. at \in p .. h - 1 /\ d[at] \notin Blank
  BY NextTokenRange
<1>2. ClosestValue(d, p, h) = GetType(d, at, h)
  BY DEF ClosestValue
<1>3. at \in Nat \ {0} /\ at < h
  <2> HIDE DEF at
  <2> QED BY <1>1
<1>4. NextToken(d, at, h) = at
  <2> HIDE DEF at
  <2> QED BY <1>1, <1>3, NextTokenRange
<1>5. NextToken(d, q, h) = at
  BY <1>4
<1> QED BY <1>2, <1>3, <1>5 DEF ClosestValue, None

\* A literal is one of three bytes.
LEMMA LiteralByte ==
  ASSUME NEW d, NEW p \in Nat \ {0}, NEW h \in Nat, p < h,
         GetType(d, p, h).err = "none", GetType(d, p, h).type \in {"Boolean", "Null"}
  PROVE  d[p] \in {"t", "f", "n"}
<1> DEFINE v == GetType(d, p, h)
           end == TokenEnd(d, p, h)
           s == Text(d, p, end)
<1>1. v.err = "none" /\ v.type \in {"Boolean", "Null"}
  OBVIOUS
<1>2. ASSUME NEW type, NEW window, NEW x, NEW err,
             v = Delimited(type, p, window, x, err)
      PROVE  v.type = type
  BY <1>2 DEF Delimited, Got, Failed
<1>3. d[p] \notin Quotes
  <2>1. d[p] \in Quotes => v = GetString(p, StringEnd(d, p + 1, h, d[p]))
    BY DEF GetType, Quotes, Quote
  <2>2. d[p] \in Quotes => v.type = "String"
    <3> HIDE DEF v
    <3> QED BY <1>2, <2>1 DEF GetString
  <2> HIDE DEF v
  <2> QED BY <1>1, <2>2
<1>4. d[p] # "["
  <2>1. d[p] = "[" => v = GetBlock("Array", p, BlockEnd(d, p, h, "[", "]"), "MalformedArray")
    BY <1>3 DEF GetType
  <2>2. d[p] = "[" => v.type = "Array"
    <3> HIDE DEF v
    <3> QED BY <1>2, <2>1 DEF GetBlock
  <2> HIDE DEF v
  <2> QED BY <1>1, <2>2
<1>5. d[p] # "{"
  <2>1. d[p] = "{" => v = GetBlock("Object", p, BlockEnd(d, p, h, "{", "}"), "MalformedObject")
    BY <1>3, <1>4 DEF GetType
  <2>2. d[p] = "{" => v.type = "Object"
    <3> HIDE DEF v
    <3> QED BY <1>2, <2>1 DEF GetBlock
  <2> HIDE DEF v
  <2> QED BY <1>1, <2>2
<1>6. v = GetScalar(d, p, end)
  BY <1>3, <1>4, <1>5 DEF GetType
<1> HIDE DEF v
<1>7. end \in p .. h
  BY TokenEndRange
<1> HIDE DEF end
<1>8. /\ end # p /\ v.type = ScalarType(s)
  BY <1>1, <1>6 DEF GetScalar, Got, Failed
<1>9. s[1] = d[p]
  <2>1. end \in Int /\ p < end
    BY <1>7, <1>8
  <2> QED BY <2>1, TextBegins
<1> HIDE DEF s
<1> QED BY <1>1, <1>8, <1>9 DEF ScalarType

\* The window e that is kept of an element, and the window f where the text
\* goes on: the same, or one in which nothing sound is found, or a number of
\* which more is read.
ElementReadsOn(d, e, f, h, g) ==
  \/ f = e /\ \E l, r \in Nat : e = <<l, r>> /\ r =< h
  \/ h < g /\ e = NoWindow
  \/ /\ h < g
     /\ \E l \in Nat \ {0}, r \in Nat : /\ e = <<l, r>> /\ l < r
                                        /\ \A x \in l .. r - 1 : d[x] \in Plain
                                        /\ ~Sound(ClosestValue(d, l, h), h)
  \/ h < g /\ \E l, r \in Nat : e = <<l, h>> /\ f = <<l, r>> /\ r >= h

BehindComma(d, p) == d[p - 1] = ","

\* A window in which nothing is found.
PlainWindow(d, e, h) ==
  \E l \in Nat \ {0}, r \in Nat : /\ e = <<l, r>> /\ l < r
                                 /\ \A x \in l .. r - 1 : d[x] \in Plain
                                 /\ ClosestValue(d, l, h).err # "none"

\* An element that is an unterminated string, widened by quotes it does not
\* have: what is kept are the bytes before it.
LEMMA UnterminatedIsPlain ==
  ASSUME NEW d, NEW h \in Nat, NEW a \in Nat \ {0},
         NEW p \in Nat, p >= a + 3, BehindComma(d, p),
         ClosestValue(d, p, h).err # "none", ClosestValue(d, p, h).type = "String",
         ClosestValue(d, p, h).end # p
  PROVE  PlainWindow(d, ElementWindow(ClosestValue(d, p, h)), h)
<1> DEFINE v == ClosestValue(d, p, h)
           at == NextToken(d, p, h)
<1>1. p \in Nat \ {0}
  OBVIOUS
<1>2. \/ v = Failed("NotExist", None, "MalformedJson")
      \/ at \in p .. h - 1 /\ ReadInWindow(v, at, h)
  BY <1>1, ClosestValueRange
<1>3. v.err # "none" /\ v.type = "String" /\ v.end # p
  OBVIOUS
<1> SUFFICES PlainWindow(d, ElementWindow(v), h)
  OBVIOUS
<1>4. at \in p .. h - 1 /\ ReadInWindow(v, at, h)
  <2> HIDE DEF v, at
  <2> QED BY <1>2, <1>3 DEF Failed
<1>5. v.window = NoWindow /\ v.end = at
  <2> HIDE DEF v, at
  <2> QED BY <1>3, <1>4 DEF ReadInWindow
<1>6. at = First({x \in p .. h - 1 : d[x] \notin Blank})
  BY DEF NextToken
<1>7. \A x \in p .. at - 1 : d[x] \in Blank
  <2> DEFINE S == {x \in p .. h - 1 : d[x] \notin Blank}
  <2>1. S \in SUBSET Nat /\ at # None
    BY <1>1, <1>4 DEF None
  <2>2. S # {}
    BY <1>6, <2>1 DEF First
  <2>3. \A x \in S : at =< x
    BY <1>6, <2>1, <2>2, FirstIsLeast
  <2>4. \A x \in p .. at - 1 : x \in p .. h - 1 /\ x < at
    <3> HIDE DEF at, S
    <3> QED BY <1>1, <1>4
  <2>5. \A x \in p .. at - 1 : x \notin S
    <3> HIDE DEF at, S
    <3> QED BY <1>1, <1>4, <2>3, <2>4
  <2> QED BY <2>4, <2>5
<1>8. v = GetType(d, at, h)
  BY <1>4 DEF ClosestValue, None
<1>9. NextToken(d, p, h) # None
  BY <1>1, <1>4 DEF None
<1>A. at \in Nat /\ p < at /\ at < h
  <2> HIDE DEF v, at
  <2> QED BY <1>3, <1>4, <1>5
<1>10. ElementWindow(v) = <<at - 2, at>>
  <2> HIDE DEF v, at
  <2> QED BY <1>3, <1>5, <1>A DEF ElementWindow, NoWindow
<1> DEFINE l == at - 2
<1>11. l \in Nat \ {0} /\ l < at /\ l + 1 \in p .. at - 1 /\ (l = p - 1 \/ l \in p .. at - 1)
  <2> HIDE DEF v, at
  <2> QED BY <1>A
<1>12. d[l + 1] \in Blank /\ (d[l] \in Blank \/ d[l] = ",")
  <2>1. d[p - 1] = ","
    BY DEF BehindComma
  <2>2. l = p - 1 => d[l] = ","
    BY <2>1
  <2> HIDE DEF l
  <2> QED BY <1>7, <1>11, <2>2
<1>13. \A x \in l .. at - 1 : x = l \/ x = l + 1
  <2> HIDE DEF v, at
  <2> QED BY <1>A
<1>14. \A x \in l .. at - 1 : d[x] \in Plain
  BY <1>12, <1>13 DEF Plain
<1>15. ClosestValue(d, l, h).err # "none"
  <2>1. CASE d[l] = ","
    <3>1. NextToken(d, l, h) = l
      <4>1. l < h
        <5> HIDE DEF at
        <5> QED BY <1>A
      <4> HIDE DEF l
      <4>2. d[l] \notin Blank
        BY <2>1 DEF Blank
      <4> QED BY <1>11, <4>1, <4>2, NextTokenRange
    <3>2. ClosestValue(d, l, h) = GetScalar(d, l, TokenEnd(d, l, h))
      <4>1. ClosestValue(d, l, h) = GetType(d, l, h)
        BY <1>11, <3>1 DEF ClosestValue, None
      <4> HIDE DEF l
      <4> QED BY <2>1, <4>1 DEF GetType, Quotes, Quote
    <3>3. TokenEnd(d, l, h) = l
      <4> DEFINE S == {x \in l .. h - 1 : d[x] \in Blank \cup {",", "}", "]"}}
      <4>1. l \in S /\ S \in SUBSET Nat /\ \A x \in S : l =< x
        <5>1. l \in l .. h - 1
          <6> HIDE DEF at
          <6> QED BY <1>A
        <5>2. l \in S
          <6> HIDE DEF l
          <6> QED BY <2>1, <5>1
        <5>3. S \in SUBSET Nat
          <6>1. \A x \in l .. h - 1 : x \in Nat
            <7> HIDE DEF l
            <7> QED BY <1>11
          <6> HIDE DEF l
          <6> QED BY <6>1
        <5>4. \A x \in l .. h - 1 : l =< x
          <6> HIDE DEF l
          <6> QED BY <1>11
        <5> HIDE DEF l
        <5> QED BY <5>2, <5>3, <5>4
      <4>2. First(S) \in S /\ First(S) =< l
        <5> HIDE DEF l, S
        <5> QED BY <4>1, FirstIsLeast
      <4>3. First(S) = l
        <5>1. First(S) >= l /\ First(S) \in Nat
          BY <4>1, <4>2
        <5> HIDE DEF l, S
        <5> QED BY <1>11, <4>2, <5>1
      <4> HIDE DEF l
      <4> QED BY <1>11, <4>3 DEF TokenEnd, None
    <3> HIDE DEF l
    <3>4. ClosestValue(d, l, h).err = "UnknownValueType"
      BY <3>2, <3>3 DEF GetScalar, Failed
    <3> QED BY <3>4
  <2>2. CASE d[l] \in Blank
    <3>1. NextToken(d, l, h) = at
      <4> DEFINE S == {x \in l .. h - 1 : d[x] \notin Blank}
      <4>1. \A x \in l .. at - 1 : d[x] \in Blank
        <5> HIDE DEF l, at
        <5> QED BY <1>12, <1>13, <2>2
      <4>2. at \in l .. h - 1 /\ d[at] \notin Blank
        <5>1. d[at] \notin Blank
          BY <1>1, <1>9, NextTokenRange
        <5> HIDE DEF at
        <5> QED BY <1>A, <5>1
      <4>3. at \in S /\ S \in SUBSET Nat /\ \A x \in S : at =< x
        <5>1. \A x \in l .. h - 1 : x < at => x \in l .. at - 1
          <6> HIDE DEF at
          <6> QED BY <1>A
        <5>2. \A x \in S : ~(x < at)
          BY <4>1, <5>1
        <5> HIDE DEF at
        <5> QED BY <1>A, <1>11, <4>2, <5>2
      <4>4. First(S) \in S /\ \A x \in S : First(S) =< x
        BY <4>3, FirstIsLeast
      <4>5. First(S) = at
        <5>1. First(S) \in Nat /\ First(S) =< at /\ at =< First(S)
          <6> HIDE DEF S, at
          <6> QED BY <4>3, <4>4
        <5> HIDE DEF S, at
        <5> QED BY <5>1, <1>A
      <4> QED BY <4>5 DEF NextToken
    <3>2. ClosestValue(d, l, h) = v
      <4> HIDE DEF l
      <4> QED BY <1>1, <1>9, <1>11, <3>1, ClosestAgain
    <3> HIDE DEF v
    <3> QED BY <1>3, <3>2
  <2> QED BY <1>12, <2>1, <2>2
<1> HIDE DEF v, at, l
<1>16. ElementWindow(v) = <<l, at>>
  BY <1>10 DEF l
<1> QED BY <1>A, <1>11, <1>14, <1>15, <1>16 DEF PlainWindow

\* What is kept of the element that starts at p, where the text goes on.
LEMMA ElementReadsFurther ==
  ASSUME NEW d, NEW w, NEW h, NEW g, Extends(w, g, d, h), NEW a \in Nat \ {0}, a < h,
         NEW p, InArray(d, p, a, h), NextToken(d, p, h) = p \/ BehindComma(d, p)
  PROVE  ElementReadsOn(d, ElementFrom(d, p, h), ElementFrom(w, p, g), h, g)
<1> DEFINE v == ClosestValue(d, p, h)
           u == ClosestValue(w, p, g)
           at == NextToken(d, p, h)
           e == IF v.end = p THEN NoWindow ELSE ElementWindow(v)
           f == IF u.end = p THEN NoWindow ELSE ElementWindow(u)
<1>1. h \in Nat /\ g \in Nat /\ h =< g
  BY DEF Extends
<1>2. p \in Nat \ {0} /\ p =< h /\ a + 1 =< p /\ (p >= a + 3 \/ (p < h /\ d[p] \notin Blank))
  <2>1. p \in a + 1 .. h /\ (p >= a + 3 \/ (p < h /\ d[p] \notin Blank))
    BY DEF InArray
  <2>2. p \in Nat \ {0} /\ p =< h /\ a + 1 =< p
    BY <1>1, <2>1
  <2> QED BY <2>1, <2>2
<1>3. ElementFrom(d, p, h) = e /\ ElementFrom(w, p, g) = f
  BY <1>2 DEF ElementFrom, Kept, None
<1>4. e = NoWindow \/ WindowIn(e, a + 1, h)
  <2>1. ElementFrom(d, p, h) = NoWindow \/ WindowIn(ElementFrom(d, p, h), a + 1, h)
    BY <1>1, ElementFromRange
  <2> HIDE DEF e
  <2> QED BY <1>3, <2>1
<1>5. ReadsOn(v, u, h, g)
  BY <1>2, ClosestValueReadsOn
<1>6. \/ v = Failed("NotExist", None, "MalformedJson")
      \/ at \in p .. h - 1 /\ ReadInWindow(v, at, h)
  BY <1>1, <1>2, ClosestValueRange
<1> SUFFICES ElementReadsOn(d, e, f, h, g)
  BY <1>3
<1>7. CASE u = v
  <2>1. f = e
    BY <1>7
  <2>2. \E l, r \in Nat : e = <<l, r>> /\ r =< h
    <3> HIDE DEF e
    <3> QED BY <1>1, <1>4 DEF WindowIn, NoWindow
  <2> HIDE DEF e, f
  <2> QED BY <2>1, <2>2 DEF ElementReadsOn
<1>8. CASE h < g /\ v.err # "none"
  <2>1. CASE v.end = p \/ v.type # "String"
    <3>1. e = NoWindow
      BY <1>8, <2>1 DEF ElementWindow
    <3> HIDE DEF e, f
    <3> QED BY <1>8, <3>1 DEF ElementReadsOn
  <2>2. CASE v.end # p /\ v.type = "String"
    <3>1. at \in p .. h - 1 /\ ReadInWindow(v, at, h)
      <4> HIDE DEF v, at
      <4> QED BY <1>6, <2>2 DEF Failed
    <3>2. v.end = at
      <4> HIDE DEF v, at
      <4> QED BY <1>8, <3>1 DEF ReadInWindow
    <3>3. at # p
      BY <2>2, <3>2
    <3>4. BehindComma(d, p)
      BY <3>3
    <3>5. p >= a + 3
      <4>1. p < h /\ d[p] \notin Blank => at = p
        BY <1>1, <1>2, NextTokenRange
      <4> HIDE DEF at
      <4> QED BY <1>2, <3>3, <4>1
    <3>6. ElementReadsOn(d, ElementWindow(v), f, h, g)
      <4>1. v.err # "none" /\ v.type = "String" /\ v.end # p
        BY <1>8, <2>2
      <4>2. p \in Nat
        BY <1>2
      <4>3. PlainWindow(d, ElementWindow(v), h)
        BY <1>1, <3>4, <3>5, <4>1, <4>2, UnterminatedIsPlain
      <4> HIDE DEF f, v
      <4> QED BY <1>8, <4>3 DEF PlainWindow, ElementReadsOn, Sound
    <3>7. e = ElementWindow(v)
      BY <2>2
    <3> HIDE DEF e, f, v
    <3> QED BY <3>6, <3>7
  <2> QED BY <2>1, <2>2
<1>9. CASE h < g /\ v.err = "none" /\ CutScalar(v, u, h)
  <2>1. /\ v.err = "none" /\ v.end = h
        /\ \/ v.type \in {"Boolean", "Null"} /\ v.window = <<h - 1, h>>
           \/ /\ v.type = "Number" /\ u.type = "Number" /\ u.err = "none"
              /\ u.window = <<v.window[1], u.end>> /\ u.end \in Nat /\ u.end >= h
    BY <1>9 DEF CutScalar
  <2>2. at \in p .. h - 1 /\ ReadInWindow(v, at, h)
    <3> HIDE DEF v, at
    <3> QED BY <1>6, <2>1 DEF Failed
  <2>3. v.window = <<at, h>>
    <3> HIDE DEF v, at, u
    <3> QED BY <2>1, <2>2 DEF ReadInWindow
  <2>4. at \in Nat \ {0} /\ at < h /\ p < h
    <3> HIDE DEF at
    <3> QED BY <1>1, <1>2, <2>2
  <2>5. v.end # p
    <3> HIDE DEF v, at, u
    <3> QED BY <1>2, <2>1, <2>4
  <2>6. e = <<at, h>>
    <3>1. e = v.window
      <4> HIDE DEF v, u
      <4> QED BY <2>1, <2>5 DEF ElementWindow
    <3> HIDE DEF e, v, at
    <3> QED BY <2>3, <3>1
  <2>7. CASE v.type \in {"Boolean", "Null"}
    <3>0. v.window = <<h - 1, h>>
      <4> HIDE DEF v, u
      <4> QED BY <2>1, <2>7
    <3>1. at = h - 1
      <4> HIDE DEF v, at
      <4> QED BY <2>3, <3>0
    <3>2. v = GetType(d, at, h)
      BY <2>4 DEF ClosestValue, None
    <3>3. d[at] \in {"t", "f", "n"}
      <4>1. GetType(d, at, h).err = "none" /\ GetType(d, at, h).type \in {"Boolean", "Null"}
        BY <2>1, <2>7, <3>2
      <4> HIDE DEF v, at
      <4> QED BY <1>1, <2>4, <4>1, LiteralByte
    <3>4. \A x \in at .. h - 1 : d[x] \in Plain
      <4>1. \A x \in at .. h - 1 : x = at
        <5> HIDE DEF at
        <5> QED BY <1>1, <3>1
      <4> HIDE DEF at
      <4> QED BY <3>3, <4>1 DEF Plain
    <3>5. ~Sound(ClosestValue(d, at, h), h)
      <4>1. NextToken(d, p, h) # None /\ at = NextToken(d, p, h)
        BY <2>4 DEF None
      <4>2. ClosestValue(d, at, h) = v
        <5> HIDE DEF at
        <5> QED BY <1>1, <1>2, <2>4, <4>1, ClosestAgain
      <4>3. ~(v.end < h)
        <5> HIDE DEF v, u
        <5> QED BY <1>1, <2>1
      <4> HIDE DEF v, at
      <4> QED BY <2>7, <4>2, <4>3 DEF Sound
    <3> HIDE DEF e, f, at
    <3> QED BY <1>1, <1>9, <2>4, <2>6, <3>4, <3>5 DEF ElementReadsOn
  <2>8. CASE v.type \notin {"Boolean", "Null"}
    <3>1. /\ u.type = "Number" /\ u.err = "none" /\ u.window = <<v.window[1], u.end>>
          /\ u.end \in Nat /\ u.end >= h
      <4> HIDE DEF v, u
      <4> QED BY <2>1, <2>8
    <3>2. u.end # p
      <4> HIDE DEF v, u, at
      <4> QED BY <1>1, <1>2, <2>4, <3>1
    <3>3. f = u.window
      <4> HIDE DEF v, u
      <4> QED BY <3>1, <3>2 DEF ElementWindow
    <3>4. f = <<at, u.end>>
      <4>1. v.window[1] = at
        <5> HIDE DEF v, at
        <5> QED BY <2>3
      <4> HIDE DEF f, u, v, at
      <4> QED BY <3>1, <3>3, <4>1
    <3> HIDE DEF e, f, at, u
    <3> QED BY <1>1, <1>9, <2>4, <2>6, <3>1, <3>4 DEF ElementReadsOn
  <2> QED BY <2>7, <2>8
<1>10. u = v \/ (h < g /\ v.err # "none") \/ (h < g /\ v.err = "none" /\ CutScalar(v, u, h))
  <2> HIDE DEF u, v
  <2> QED BY <1>5 DEF ReadsOn
<1> HIDE DEF u, v, e, f
<1> QED BY <1>7, <1>8, <1>9, <1>10

\* The element an index component asks for, where the text goes on.
LEMMA WantedReadsFurther ==
  ASSUME NEW d, NEW w, NEW h, NEW g, Extends(w, g, d, h), NEW a \in Nat \ {0}, a < h,
         NEW n
  PROVE  ElementReadsOn(d, ElementFrom(d, ElementStart(d, a, h, n), h),
                        ElementFrom(w, ElementStart(w, a, g, n), g), h, g)
<1> DEFINE p == ElementStart(d, a, h, n)
           q == ElementStart(w, a, g, n)
<1>1. h \in Nat /\ g \in Nat /\ h =< g
  BY DEF Extends
<1>2. p = q \/ (h < g /\ p = None)
  BY ElementStartReadsOn
<1>3. p = None \/ InArray(d, p, a, h)
  BY <1>1, ElementStartOf
<1>4. p # None => NextToken(d, p, h) = p \/ BehindComma(d, p)
  BY <1>1, StartsBehindComma DEF ElementStart, BehindComma
<1> HIDE DEF p, q
<1>5. CASE p = None
  <2>1. ElementFrom(d, p, h) = NoWindow /\ (q = None => ElementFrom(w, q, g) = NoWindow)
    BY <1>5 DEF ElementFrom
  <2>2. NoWindow = <<0, 0>> /\ 0 \in Nat /\ 0 =< h
    BY <1>1 DEF NoWindow
  <2> QED BY <1>2, <1>5, <2>1, <2>2 DEF ElementReadsOn, p, q
<1>6. CASE p # None
  <2>1. ElementReadsOn(d, ElementFrom(d, p, h), ElementFrom(w, p, g), h, g)
    BY <1>3, <1>4, <1>6, ElementReadsFurther
  <2> QED BY <1>2, <1>6, <2>1 DEF p, q
<1> QED BY <1>5, <1>6

---------------------------------------------------------------------------
\* The same scan, with a limit further on.
Wider(s, t, h, g) ==
  /\ s \in Scans /\ t \in Scans /\ s.hi = h /\ t.hi = g
  /\ t.keys = s.keys /\ t.i = s.i /\ t.level = s.level
  /\ t.keyLevel = s.keyLevel /\ t.lastMatched = s.lastMatched

\* x is where a scan stands and y where it stands when the text goes on.
StepsOn(d, x, y, h, g) ==
  \/ h < g /\ x = Answered(None)
  \/ \E q \in Nat : x = Answered(q) /\ y = x
  \/ Wider(x, y, h, g)
  \/ \E rest \in Seq(Seq(STRING)) : \E e, f :
       /\ x = StartScan(rest, e) /\ y = StartScan(rest, f)
       /\ ElementReadsOn(d, e, f, h, g)

\* A key, where the text goes on.
LEMMA StepKeyReadsOn ==
  ASSUME NEW d, NEW h, NEW g, NEW s, NEW t, Wider(s, t, h, g), NEW text, NEW after \in Nat
  PROVE  StepsOn(d, StepKey(s, text, after), StepKey(t, text, after), h, g)
<1> DEFINE isNext == s.keyLevel = s.level - 1
           usable == s.level >= 1 /\ s.level =< Len(s.keys) /\ text # BadText
           p == after + 1
<1>p. p \in Nat
  OBVIOUS
<1>1. /\ s \in Scans /\ t \in Scans
      /\ t.keys = s.keys /\ t.level = s.level /\ t.keyLevel = s.keyLevel
  BY DEF Wider
<1>2. CASE ~usable
  <2>1. StepKey(s, text, after) = Answered(None) /\ StepKey(t, text, after) = Answered(None)
    BY <1>1, <1>2 DEF StepKey
  <2> QED BY <2>1 DEF StepsOn, None
<1>3. CASE usable /\ text # s.keys[s.level]
  <2>1. /\ StepKey(s, text, after) = [s EXCEPT !.i = p, !.lastMatched = FALSE]
        /\ StepKey(t, text, after) = [t EXCEPT !.i = p, !.lastMatched = FALSE]
    BY <1>1, <1>3 DEF StepKey
  <2> HIDE DEF p
  <2>2. Wider([s EXCEPT !.i = p, !.lastMatched = FALSE],
              [t EXCEPT !.i = p, !.lastMatched = FALSE], h, g)
    BY <1>p DEF Wider, Scans
  <2> QED BY <2>1, <2>2 DEF StepsOn
<1>4. CASE usable /\ text = s.keys[s.level] /\ isNext /\ s.level = Len(s.keys)
  <2>1. /\ StepKey(s, text, after) = Answered(after + 1)
        /\ StepKey(t, text, after) = Answered(after + 1)
    BY <1>1, <1>4 DEF StepKey
  <2>2. after + 1 \in Nat
    OBVIOUS
  <2> QED BY <2>1, <2>2 DEF StepsOn
<1>5. CASE usable /\ text = s.keys[s.level] /\ ~(isNext /\ s.level = Len(s.keys))
  <2> DEFINE k == IF isNext THEN s.level ELSE s.keyLevel
  <2>1. /\ StepKey(s, text, after) = [s EXCEPT !.i = p, !.lastMatched = TRUE,
                                               !.keyLevel = k]
        /\ StepKey(t, text, after) = [t EXCEPT !.i = p, !.lastMatched = TRUE,
                                               !.keyLevel = k]
    BY <1>1, <1>5 DEF StepKey
  <2>2. k \in Int
    BY <1>1 DEF Scans
  <2> HIDE DEF k, p
  <2>3. Wider([s EXCEPT !.i = p, !.lastMatched = TRUE, !.keyLevel = k],
              [t EXCEPT !.i = p, !.lastMatched = TRUE, !.keyLevel = k], h, g)
    BY <1>p, <2>2 DEF Wider, Scans
  <2> QED BY <2>1, <2>3 DEF StepsOn
<1> QED BY <1>2, <1>3, <1>4, <1>5

\* A string, where the text goes on.
LEMMA StepStringReadsOn ==
  ASSUME NEW d, NEW w, NEW h, NEW g, Extends(w, g, d, h), NEW s, NEW t, Wider(s, t, h, g),
         s.i \in 1 .. h - 1
  PROVE  StepsOn(d, StepString(d, s), StepString(w, t), h, g)
<1> DEFINE i == s.i
           a == StringEnd(d, i + 1, h, d[i])
           b == StringEnd(w, i + 1, g, d[i])
           x == NextToken(d, a + 1, h)
           y == NextToken(w, a + 1, g)
<1>1. h \in Nat /\ g \in Nat /\ h =< g
  BY DEF Extends
<1>2. i \in 1 .. h - 1 /\ i \in Nat \ {0} /\ i + 1 \in Nat \ {0} /\ t.i = i /\ s.hi = h /\ t.hi = g
  BY <1>1 DEF Wider
<1>3. d[i] = w[i]
  <2> HIDE DEF i
  <2> QED BY <1>2 DEF Extends
<1>4. StepString(d, s) =
        IF a = None \/ x = None THEN Answered(None)
        ELSE IF d[x] # ":" THEN [s EXCEPT !.i = x]
        ELSE StepKey(s, Unescape(Text(d, i + 1, a)), x)
  BY <1>2 DEF StepString
<1>5. a = b => StepString(w, t) =
        IF a = None \/ y = None THEN Answered(None)
        ELSE IF w[y] # ":" THEN [t EXCEPT !.i = y]
        ELSE StepKey(t, Unescape(Text(w, i + 1, a)), y)
  BY <1>2, <1>3 DEF StepString
<1>6. a = b \/ (h < g /\ a = None)
  <2> HIDE DEF i
  <2> QED BY <1>2, StringEndExtends
<1>7. a = None \/ (a \in i + 1 .. h - 1 /\ a + 1 \in Nat \ {0} /\ a \in Nat)
  <2>1. a = None \/ a \in i + 1 .. h - 1
    <3> HIDE DEF i
    <3> QED BY <1>1, <1>2, StringEndRange
  <2> HIDE DEF a, i
  <2> QED BY <1>2, <2>1
<1> HIDE DEF a, b, i
<1>8. a # None => x = y \/ (h < g /\ x = None)
  BY <1>7, NextTokenExtends
<1>9. a # None => x = None \/ (x \in Nat /\ x < h /\ x > 0)
  <2>1. a # None => x = None \/ x \in a + 1 .. h - 1
    BY <1>1, <1>7, NextTokenRange
  <2> HIDE DEF x
  <2> QED BY <1>1, <1>7, <2>1
<1> HIDE DEF x, y
<1>10. CASE a = None \/ x = None
  <2>1. StepString(d, s) = Answered(None)
    BY <1>4, <1>10
  <2>2. h < g \/ (a = b /\ (a = None \/ x = y))
    BY <1>6, <1>8
  <2>3. h < g \/ StepString(w, t) = Answered(None)
    BY <1>5, <1>10, <2>2
  <2> QED BY <2>1, <2>3 DEF StepsOn, None
<1>11. CASE a # None /\ x # None
  <2>1. a = b /\ x = y /\ x \in Nat /\ x \in 1 .. h - 1
    BY <1>1, <1>6, <1>8, <1>9, <1>11
  <2>2. d[x] = w[x]
    BY <2>1 DEF Extends
  <2>3. Text(d, i + 1, a) = Text(w, i + 1, a)
    <3>1. i + 1 \in Int /\ a \in Int
      BY <1>2, <1>7, <1>11
    <3>2. \A z \in i + 1 .. a - 1 : z \in 1 .. h - 1
      BY <1>1, <1>2, <1>7, <1>11
    <3>3. \A z \in i + 1 .. a - 1 : d[z] = w[z]
      BY <3>2 DEF Extends
    <3> QED BY <3>1, <3>3, TextsAgree
  <2>4. CASE d[x] # ":"
    <3>1. StepString(d, s) = [s EXCEPT !.i = x] /\ StepString(w, t) = [t EXCEPT !.i = x]
      BY <1>4, <1>5, <1>11, <2>1, <2>2, <2>4
    <3>2. Wider([s EXCEPT !.i = x], [t EXCEPT !.i = x], h, g)
      BY <2>1 DEF Wider, Scans
    <3> QED BY <3>1, <3>2 DEF StepsOn
  <2>5. CASE d[x] = ":"
    <3> DEFINE text == Unescape(Text(d, i + 1, a))
    <3>1. StepString(d, s) = StepKey(s, text, x) /\ StepString(w, t) = StepKey(t, text, x)
      BY <1>4, <1>5, <1>11, <2>1, <2>2, <2>3, <2>5
    <3> HIDE DEF text
    <3>2. StepsOn(d, StepKey(s, text, x), StepKey(t, text, x), h, g)
      BY <2>1, StepKeyReadsOn
    <3> QED BY <3>1, <3>2
  <2> QED BY <2>4, <2>5
<1> QED BY <1>10, <1>11

\* A block that is passed over, where the text goes on.
LEMMA StepOverReadsOn ==
  ASSUME NEW d, NEW w, NEW h, NEW g, Extends(w, g, d, h), NEW s, NEW t, Wider(s, t, h, g),
         s.i \in 1 .. h - 1, NEW open, NEW close
  PROVE  StepsOn(d, StepOver(s, BlockEnd(d, s.i, s.hi, open, close)),
                 StepOver(t, BlockEnd(w, t.i, t.hi, open, close)), h, g)
<1> DEFINE i == s.i
           a == BlockEnd(d, i, h, open, close)
           b == BlockEnd(w, i, g, open, close)
<1>1. h \in Nat /\ g \in Nat /\ h =< g
  BY DEF Extends
<1>2. i \in Nat \ {0} /\ t.i = i /\ s.hi = h /\ t.hi = g
  BY <1>1 DEF Wider
<1>3. a = b \/ (h < g /\ a = None)
  <2> HIDE DEF i
  <2> QED BY <1>2, BlockEndExtends
<1>4. a = None \/ a \in Nat
  <2>1. a = None \/ a \in i + 1 .. h
    <3> HIDE DEF i
    <3> QED BY <1>1, <1>2, BlockEndRange
  <2> HIDE DEF a, i
  <2> QED BY <1>2, <2>1
<1> SUFFICES StepsOn(d, StepOver(s, a), StepOver(t, b), h, g)
  BY <1>2
<1> HIDE DEF a, b, i
<1>5. CASE a = None
  BY <1>3, <1>5 DEF StepsOn, StepOver, None
<1>6. CASE a # None
  <2>1. Wider([s EXCEPT !.i = a], [t EXCEPT !.i = a], h, g)
    BY <1>4, <1>6 DEF Wider, Scans
  <2> QED BY <1>3, <1>6, <2>1 DEF StepsOn, StepOver
<1> QED BY <1>5, <1>6

\* A step of the scan, where the text goes on.
LEMMA StepReadsOn ==
  ASSUME NEW d, NEW w, NEW h, NEW g, Extends(w, g, d, h), NEW s, NEW t, Wider(s, t, h, g)
  PROVE  StepsOn(d, StepScan(d, s), StepScan(w, t), h, g)
<1> DEFINE i == s.i
           c == d[i]
<1>1. h \in Nat /\ g \in Nat /\ h =< g
  BY DEF Extends
<1>2. /\ s \in Scans /\ t \in Scans /\ s.hi = h /\ t.hi = g /\ t.i = i
      /\ t.keys = s.keys /\ t.level = s.level /\ t.keyLevel = s.keyLevel
      /\ t.lastMatched = s.lastMatched
      /\ i \in Nat /\ s.level \in Int /\ s.keyLevel \in Int
  BY DEF Wider, Scans
<1>3. CASE i \notin 1 .. h - 1
  <2>1. StepScan(d, s) = Answered(None)
    BY <1>2, <1>3 DEF StepScan
  <2>2. h = g => StepScan(w, t) = Answered(None)
    BY <1>2, <1>3 DEF StepScan
  <2> QED BY <1>1, <2>1, <2>2 DEF StepsOn, None
<1>4. CASE i \in 1 .. h - 1
  <2>1. i \in 1 .. g - 1 /\ i \in Nat \ {0} /\ i < h /\ i + 1 \in Nat
    <3> HIDE DEF i
    <3> QED BY <1>1, <1>4
  <2>2. w[i] = c
    <3> HIDE DEF i
    <3> QED BY <1>4 DEF Extends
  <2> DEFINE p == i + 1
  <2>3. CASE c \in Quotes
    <3>1. StepScan(d, s) = StepString(d, s)
      BY <1>2, <1>4, <2>3 DEF StepScan, Quotes, Quote
    <3>2. StepScan(w, t) = StepString(w, t)
      BY <1>2, <2>1, <2>2, <2>3 DEF StepScan, Quotes, Quote
    <3> QED BY <1>4, <3>1, <3>2, StepStringReadsOn
  <2>4. CASE c \notin Quotes /\ c = "{"
    <3>1. StepScan(d, s) = StepBrace(d, s)
      BY <1>2, <1>4, <2>4 DEF StepScan
    <3>2. StepScan(w, t) = StepBrace(w, t)
      BY <1>2, <2>1, <2>2, <2>4 DEF StepScan
    <3>3. CASE s.lastMatched
      <4> DEFINE l == s.level + 1
      <4>1. /\ StepBrace(d, s) = [s EXCEPT !.i = p, !.level = l]
            /\ StepBrace(w, t) = [t EXCEPT !.i = p, !.level = l]
        BY <1>2, <3>3 DEF StepBrace
      <4>2. l \in Int /\ p \in Nat
        BY <1>2, <2>1
      <4> HIDE DEF l, p
      <4>3. Wider([s EXCEPT !.i = p, !.level = l], [t EXCEPT !.i = p, !.level = l], h, g)
        BY <4>2 DEF Wider, Scans
      <4> QED BY <3>1, <3>2, <4>1, <4>3 DEF StepsOn
    <3>4. CASE ~s.lastMatched
      <4>1. /\ StepBrace(d, s) = StepOver(s, BlockEnd(d, s.i, s.hi, "{", "}"))
            /\ StepBrace(w, t) = StepOver(t, BlockEnd(w, t.i, t.hi, "{", "}"))
        BY <1>2, <3>4 DEF StepBrace
      <4> QED BY <1>4, <3>1, <3>2, <4>1, StepOverReadsOn
    <3> QED BY <3>3, <3>4
  <2>5. CASE c \notin Quotes /\ c = "}"
    <3> DEFINE l == s.level - 1
               k == IF s.keyLevel = s.level - 1 THEN s.keyLevel - 1 ELSE s.keyLevel
    <3>1. StepScan(d, s) = [s EXCEPT !.i = p, !.level = l, !.keyLevel = k]
      BY <1>2, <1>4, <2>5 DEF StepScan
    <3>2. StepScan(w, t) = [t EXCEPT !.i = p, !.level = l, !.keyLevel = k]
      BY <1>2, <2>1, <2>2, <2>5 DEF StepScan
    <3>3. l \in Int /\ k \in Int /\ p \in Nat
      BY <1>2, <2>1
    <3> HIDE DEF l, k, p
    <3>4. Wider([s EXCEPT !.i = p, !.level = l, !.keyLevel = k],
                [t EXCEPT !.i = p, !.level = l, !.keyLevel = k], h, g)
      BY <3>3 DEF Wider, Scans
    <3> QED BY <3>1, <3>2, <3>4 DEF StepsOn
  <2>6. CASE c \notin Quotes /\ c = "["
    <3>1. StepScan(d, s) = StepArray(d, s)
      BY <1>2, <1>4, <2>6 DEF StepScan
    <3>2. StepScan(w, t) = StepArray(w, t)
      BY <1>2, <2>1, <2>2, <2>6 DEF StepScan
    <3> DEFINE component == s.keys[s.level + 1]
               wants == /\ s.keyLevel = s.level /\ s.level + 1 \in 1 .. Len(s.keys)
                        /\ IsIndexForm(component)
               n == Index(component)
               rest == SubSeq(s.keys, s.level + 2, Len(s.keys))
               e == ElementFrom(d, ElementStart(d, i, h, n), h)
               f == ElementFrom(w, ElementStart(w, i, g, n), g)
    <3>3. CASE ~wants
      <4>1. /\ StepArray(d, s) = StepOver(s, BlockEnd(d, s.i, s.hi, "[", "]"))
            /\ StepArray(w, t) = StepOver(t, BlockEnd(w, t.i, t.hi, "[", "]"))
        BY <1>2, <3>3 DEF StepArray
      <4> QED BY <1>4, <3>1, <3>2, <4>1, StepOverReadsOn
    <3>4. CASE wants /\ ~IsIndex(component)
      <4>1. StepArray(d, s) = Answered(None) /\ StepArray(w, t) = Answered(None)
        BY <1>2, <3>4 DEF StepArray
      <4> QED BY <3>1, <3>2, <4>1 DEF StepsOn, None
    <3>5. CASE wants /\ IsIndex(component)
      <4>1. StepArray(d, s) = StartScan(rest, e) /\ StepArray(w, t) = StartScan(rest, f)
        BY <1>2, <3>5 DEF StepArray
      <4>2. rest \in Seq(Seq(STRING))
        <5> DEFINE V == Seq(STRING)
                   a == s.level + 2
        <5>1. /\ s.keys \in Seq(V) /\ s.level \in Int
              /\ s.level + 1 \in 1 .. Len(s.keys)
          BY <1>2, <3>5 DEF Scans
        <5>2. Len(s.keys) \in Nat /\ a \in 1 .. Len(s.keys) + 1
          BY <5>1, LenProperties
        <5> HIDE DEF V, a
        <5>3. SubSeq(s.keys, a, Len(s.keys)) \in Seq(V)
          BY <5>1, <5>2, SubSeqProperties
        <5> QED BY <5>3 DEF V, a
      <4>3. ElementReadsOn(d, e, f, h, g)
        <5> HIDE DEF n, i
        <5> QED BY <2>1, WantedReadsFurther
      <4> HIDE DEF e, f, rest
      <4> QED BY <3>1, <3>2, <4>1, <4>2, <4>3 DEF StepsOn
    <3> QED BY <3>3, <3>4, <3>5
  <2>7. CASE c = ":"
    <3>1. c \notin Quotes
      BY <2>7 DEF Quotes, Quote
    <3>2. StepScan(d, s) = Answered(None)
      BY <1>2, <1>4, <2>7, <3>1 DEF StepScan
    <3>3. StepScan(w, t) = Answered(None)
      BY <1>2, <2>1, <2>2, <2>7, <3>1 DEF StepScan
    <3> QED BY <3>2, <3>3 DEF StepsOn, None
  <2>8. CASE c \notin Quotes /\ c \notin {"{", "}", "[", ":"}
    <3>1. StepScan(d, s) = [s EXCEPT !.i = p]
      BY <1>2, <1>4, <2>8 DEF StepScan
    <3>2. StepScan(w, t) = [t EXCEPT !.i = p]
      BY <1>2, <2>1, <2>2, <2>8 DEF StepScan
    <3>3. p \in Nat
      BY <2>1
    <3> HIDE DEF p
    <3>4. Wider([s EXCEPT !.i = p], [t EXCEPT !.i = p], h, g)
      BY <3>3 DEF Wider, Scans
    <3> QED BY <3>1, <3>2, <3>4 DEF StepsOn
  <2> QED BY <2>3, <2>4, <2>5, <2>6, <2>7, <2>8
<1> QED BY <1>3, <1>4

\* In a window of such bytes nothing is found.
LEMMA PlainFindsNothing ==
  ASSUME NEW d
  PROVE  \A s \in Scans : /\ s.keys # <<>>
                          /\ \A x \in s.i .. s.hi - 1 : d[x] \in Plain
                          => FoundFrom(d)[s] = None
<1> DEFINE IsPlain(s) == s.keys # <<>> /\ \A x \in s.i .. s.hi - 1 : d[x] \in Plain
           T == {s \in Scans : IsPlain(s) => FoundFrom(d)[s] = None}
           rank == [s \in Scans |-> Left(s)]
<1>1. rank \in [Scans -> Nat]
  BY DEF Left, Scans
<1>2. ASSUME NEW s \in Scans, \A t \in Scans : rank[t] < rank[s] => t \in T
      PROVE  s \in T
  <2> SUFFICES ASSUME IsPlain(s) PROVE FoundFrom(d)[s] = None
    OBVIOUS
  <2> DEFINE i == s.i
             t == StepScan(d, s)
  <2>1. FoundFrom(d)[s] = FoundFrom(d)[t]
    BY FoundFromUnfold
  <2>2. CASE i \notin 1 .. s.hi - 1
    <3>1. t = Answered(None)
      BY <2>2 DEF StepScan
    <3> HIDE DEF t
    <3> QED BY <2>1, <3>1, FoundAnswered DEF None
  <2>3. CASE i \in 1 .. s.hi - 1
    <3>1. d[i] \in Plain
      BY <2>3
    <3>2. t = [s EXCEPT !.i = i + 1]
      BY <2>3, <3>1 DEF StepScan, Plain, Blank, Quotes, Quote
    <3>3. t \in Scans /\ rank[t] < rank[s]
      BY StepDescends DEF Nearer
    <3> DEFINE p == i + 1
    <3>4. s.hi \in Nat /\ i \in Nat /\ p \in Nat
      BY DEF Scans
    <3>5. \A x \in p .. s.hi - 1 : x \in i .. s.hi - 1
      <4> HIDE DEF i
      <4> QED BY <3>4
    <3>6. t.keys = s.keys /\ t.hi = s.hi /\ t.i = p
      <4> HIDE DEF p, t
      <4> QED BY <3>2, <3>4 DEF Scans, p
    <3>7. IsPlain(t)
      <4> HIDE DEF t, p
      <4> QED BY <3>5, <3>6
    <3>8. t \in T
      BY <1>2, <3>3
    <3> HIDE DEF t
    <3> QED BY <2>1, <3>7, <3>8
  <2> QED BY <2>2, <2>3
<1>3. Scans \subseteq T
  <2> HIDE DEF T, rank
  <2> QED BY <1>1, <1>2, RankInduction
<1> QED BY <1>3

\* Two scans with the same limit and the same of everything else are one.
LEMMA WiderIsSame ==
  ASSUME NEW x, NEW y, NEW k, Wider(x, y, k, k)
  PROVE  x = y /\ x.hi = k
<1>1. x = [keys |-> x.keys, i |-> x.i, hi |-> x.hi, level |-> x.level,
           keyLevel |-> x.keyLevel, lastMatched |-> x.lastMatched]
  BY DEF Wider, Scans
<1>2. y = [keys |-> y.keys, i |-> y.i, hi |-> y.hi, level |-> y.level,
           keyLevel |-> y.keyLevel, lastMatched |-> y.lastMatched]
  BY DEF Wider, Scans
<1>3. /\ x.keys = y.keys /\ x.i = y.i /\ x.hi = k /\ y.hi = k /\ x.level = y.level
      /\ x.keyLevel = y.keyLevel /\ x.lastMatched = y.lastMatched
  BY DEF Wider
<1> QED BY <1>1, <1>2, <1>3

\* Below h nothing changes: what is found there is found in both texts.
LEMMA FoundAlike ==
  ASSUME NEW d, NEW w, NEW h \in Nat, \A x \in 1 .. h - 1 : d[x] = w[x]
  PROVE  \A s \in Scans : s.hi =< h => FoundFrom(d)[s] = FoundFrom(w)[s]
<1> DEFINE T == {s \in Scans : s.hi =< h => FoundFrom(d)[s] = FoundFrom(w)[s]}
           rank == [s \in Scans |-> Left(s)]
<1>1. rank \in [Scans -> Nat]
  BY DEF Left, Scans
<1>2. ASSUME NEW s \in Scans, \A t \in Scans : rank[t] < rank[s] => t \in T
      PROVE  s \in T
  <2> SUFFICES ASSUME s.hi =< h PROVE FoundFrom(d)[s] = FoundFrom(w)[s]
    OBVIOUS
  <2>1. /\ FoundFrom(d)[s] = IF s.keys = <<>> THEN s.i ELSE FoundFrom(d)[StepScan(d, s)]
        /\ FoundFrom(w)[s] = IF s.keys = <<>> THEN s.i ELSE FoundFrom(w)[StepScan(w, s)]
    BY FoundFromUnfold
  <2>2. CASE s.keys = <<>>
    BY <2>1, <2>2
  <2>3. CASE s.keys # <<>>
    <3> DEFINE k == s.hi
               x == StepScan(d, s)
               y == StepScan(w, s)
    <3>1. k \in Nat /\ k =< h
      BY DEF Scans
    <3>2. Extends(w, k, d, k)
      <4> HIDE DEF k
      <4> QED BY <3>1 DEF Extends
    <3>3. Wider(s, s, k, k)
      BY DEF Wider
    <3>4. StepsOn(d, x, y, k, k)
      <4> HIDE DEF k
      <4> QED BY <3>2, <3>3, StepReadsOn
    <3>5. x \in Scans /\ rank[x] < rank[s]
      BY <2>3, StepDescends DEF Nearer
    <3>6. x \in T
      BY <1>2, <3>5
    <3> HIDE DEF x, y, k, T, rank
    <3>7. ~(k < k)
      BY <3>1
    <3>8. CASE \E q \in Nat : x = Answered(q) /\ y = x
      <4>1. PICK q \in Nat : x = Answered(q) /\ y = Answered(q)
        BY <3>8
      <4> QED BY <2>1, <2>3, <4>1, FoundAnswered DEF x, y
    <3>9. CASE Wider(x, y, k, k)
      <4>1. x = y /\ x.hi = k
        BY <3>9, WiderIsSame
      <4>2. FoundFrom(d)[x] = FoundFrom(w)[x]
        BY <3>1, <3>6, <4>1 DEF T
      <4> QED BY <2>1, <2>3, <4>1, <4>2 DEF x, y
    <3>10. ASSUME NEW rest \in Seq(Seq(STRING)), NEW e, NEW f,
                  x = StartScan(rest, e), y = StartScan(rest, f),
                  ElementReadsOn(d, e, f, k, k)
           PROVE  FoundFrom(d)[x] = FoundFrom(w)[y]
      <4>1. PICK l \in Nat, r \in Nat : e = <<l, r>> /\ f = e /\ r =< k
        BY <3>7, <3>10 DEF ElementReadsOn
      <4>2. y = x /\ x.hi = r
        BY <3>10, <4>1 DEF StartScan
      <4>3. r =< h
        BY <3>1, <4>1
      <4> QED BY <3>6, <4>2, <4>3 DEF T
    <3>11. FoundFrom(d)[x] = FoundFrom(w)[y]
      <4>1. CASE \E rest \in Seq(Seq(STRING)) : \E e, f :
                   /\ x = StartScan(rest, e) /\ y = StartScan(rest, f)
                   /\ ElementReadsOn(d, e, f, k, k)
        BY <3>10, <4>1
      <4> QED BY <2>1, <2>3, <3>4, <3>7, <3>8, <3>9, <4>1 DEF StepsOn, x, y
    <3> QED BY <2>1, <2>3, <3>11 DEF x, y
  <2> QED BY <2>2, <2>3
<1>3. Scans \subseteq T
  <2> HIDE DEF T, rank
  <2> QED BY <1>1, <1>2, RankInduction
<1> QED BY <1>3

\* The position found is one at which something sound is read.
SoundAt(d, p, h) == p # None /\ Sound(ClosestValue(d, p, h), h)

\* A sound answer is the answer where the text goes on.
LEMMA FoundReadsOn ==
  ASSUME NEW d, NEW w, NEW h \in Nat, \A x \in 1 .. h - 1 : d[x] = w[x]
  PROVE  \A s \in Scans : \A g \in Nat : \A t :
           h =< g /\ Wider(s, t, h, g) /\ SoundAt(d, FoundFrom(d)[s], h)
             => FoundFrom(w)[t] = FoundFrom(d)[s]
<1> DEFINE Holds(s) == \A g \in Nat : \A t :
             h =< g /\ Wider(s, t, h, g) /\ SoundAt(d, FoundFrom(d)[s], h)
               => FoundFrom(w)[t] = FoundFrom(d)[s]
           T == {s \in Scans : Holds(s)}
           rank == [s \in Scans |-> Left(s)]
<1>1. rank \in [Scans -> Nat]
  BY DEF Left, Scans
<1>2. ASSUME NEW s \in Scans, \A z \in Scans : rank[z] < rank[s] => z \in T
      PROVE  s \in T
  <2> SUFFICES ASSUME NEW g \in Nat, NEW t, h =< g, Wider(s, t, h, g),
                      SoundAt(d, FoundFrom(d)[s], h)
               PROVE  FoundFrom(w)[t] = FoundFrom(d)[s]
    BY DEF Holds
  <2>0. t \in Scans /\ t.keys = s.keys /\ t.i = s.i
    BY DEF Wider
  <2>1. /\ FoundFrom(d)[s] = IF s.keys = <<>> THEN s.i ELSE FoundFrom(d)[StepScan(d, s)]
        /\ FoundFrom(w)[t] = IF t.keys = <<>> THEN t.i ELSE FoundFrom(w)[StepScan(w, t)]
    BY <2>0, FoundFromUnfold
  <2>2. CASE s.keys = <<>>
    BY <2>0, <2>1, <2>2
  <2>3. CASE s.keys # <<>>
    <3> DEFINE x == StepScan(d, s)
               y == StepScan(w, t)
    <3>1. Extends(w, g, d, h)
      BY DEF Extends
    <3>2. StepsOn(d, x, y, h, g)
      BY <3>1, StepReadsOn
    <3>3. x \in Scans /\ rank[x] < rank[s]
      BY <2>3, StepDescends DEF Nearer
    <3>4. Holds(x)
      BY <1>2, <3>3
    <3>5. FoundFrom(d)[s] = FoundFrom(d)[x] /\ FoundFrom(w)[t] = FoundFrom(w)[y]
      BY <2>0, <2>1, <2>3
    <3> HIDE DEF x, y, T, rank, Holds
    <3>6. FoundFrom(d)[x] # None /\ SoundAt(d, FoundFrom(d)[x], h)
      BY <3>5 DEF SoundAt
    <3> SUFFICES FoundFrom(w)[y] = FoundFrom(d)[x]
      BY <3>5
    <3>7. CASE x = Answered(None)
      BY <3>6, <3>7, FoundAnswered DEF None
    <3>8. CASE \E q \in Nat : x = Answered(q) /\ y = x
      <4>1. PICK q \in Nat : x = Answered(q) /\ y = Answered(q)
        BY <3>8
      <4> QED BY <4>1, FoundAnswered
    <3>9. CASE Wider(x, y, h, g)
      BY <3>4, <3>6, <3>9 DEF Holds
    <3>10. ASSUME NEW rest \in Seq(Seq(STRING)), NEW e, NEW f,
                  x = StartScan(rest, e), y = StartScan(rest, f),
                  ElementReadsOn(d, e, f, h, g)
           PROVE  FoundFrom(w)[y] = FoundFrom(d)[x]
      <4>1. CASE f = e /\ \E l, r \in Nat : e = <<l, r>> /\ r =< h
        <5>1. PICK l \in Nat, r \in Nat : e = <<l, r>> /\ f = e /\ r =< h
          BY <4>1
        <5>2. y = x /\ x.hi = r
          BY <3>10, <5>1 DEF StartScan
        <5> QED BY <3>3, <5>1, <5>2, FoundAlike
      <4>2. CASE e = NoWindow
        BY <3>6, <3>10, <4>2, FoundNowhere
      <4>3. ASSUME NEW l \in Nat \ {0}, NEW r \in Nat, e = <<l, r>>, l < r,
                   \A b \in l .. r - 1 : d[b] \in Plain,
                   ~Sound(ClosestValue(d, l, h), h)
            PROVE  FALSE
        <5>1. x.keys = rest /\ x.i = l /\ x.hi = r
          BY <3>10, <4>3 DEF StartScan
        <5>2. CASE rest = <<>>
          <6>1. FoundFrom(d)[x] = l
            BY <3>3, <5>1, <5>2, FoundFromUnfold
          <6> QED BY <3>6, <4>3, <6>1 DEF SoundAt
        <5>3. CASE rest # <<>>
          <6>1. \A b \in x.i .. x.hi - 1 : d[b] \in Plain
            BY <4>3, <5>1
          <6>2. FoundFrom(d)[x] = None
            BY <3>3, <5>1, <5>3, <6>1, PlainFindsNothing
          <6> QED BY <3>6, <6>2
        <5> QED BY <5>2, <5>3
      <4>4. ASSUME NEW l \in Nat, NEW r \in Nat, e = <<l, h>>, f = <<l, r>>, r >= h
            PROVE  FoundFrom(w)[y] = FoundFrom(d)[x]
        <5>1. Wider(x, y, h, r)
          BY <3>10, <4>4 DEF Wider, StartScan, Scans
        <5>2. h =< r
          BY <4>4
        <5> QED BY <3>4, <3>6, <5>1, <5>2 DEF Holds
      <4> QED BY <3>10, <4>1, <4>2, <4>3, <4>4 DEF ElementReadsOn
    <3>11. CASE \E rest \in Seq(Seq(STRING)) : \E e, f :
                  /\ x = StartScan(rest, e) /\ y = StartScan(rest, f)
                  /\ ElementReadsOn(d, e, f, h, g)
      BY <3>10, <3>11
    <3> QED BY <3>2, <3>7, <3>8, <3>9, <3>11 DEF StepsOn
  <2> QED BY <2>2, <2>3
<1>3. Scans \subseteq T
  <2> HIDE DEF T, rank
  <2> QED BY <1>1, <1>2, RankInduction
<1> QED BY <1>3

\* d is what is left of w when it is cut short.
IsCutOf(d, w) == /\ Len(d) \in Nat /\ Len(w) \in Nat /\ Len(d) =< Len(w)
                 /\ \A x \in 1 .. Len(d) : d[x] = w[x]

\* What Get returns of a text cut short, where it shows its own end, is what
\* it returns of the whole; a number at the cut is still one, with the same
\* start.
LEMMA GetOfCut ==
  ASSUME NEW d, NEW w, IsCutOf(d, w), NEW keys \in Seq(Seq(STRING)),
         Get(d, keys).err = "none"
  PROVE  \/ Get(w, keys) = Get(d, keys)
         \/ /\ Get(d, keys).end = Len(d) + 1
            /\ Get(d, keys).type \in {"Boolean", "Null"}
         \/ /\ Get(d, keys).end = Len(d) + 1
            /\ Get(d, keys).type = "Number" /\ Get(w, keys).type = "Number"
            /\ Get(w, keys).window[1] = Get(d, keys).window[1]
<1> DEFINE h == Len(d) + 1
           g == Len(w) + 1
           s == StartScan(keys, <<1, h>>)
           t == StartScan(keys, <<1, g>>)
           p == FoundFrom(d)[s]
           q == FoundFrom(w)[t]
           v == ClosestValue(d, p, h)
           u == ClosestValue(w, q, g)
           at == NextToken(d, p, h)
<1>1. h \in Nat /\ g \in Nat /\ h =< g /\ \A x \in 1 .. h - 1 : d[x] = w[x]
  BY DEF IsCutOf
<1>2. Get(d, keys) = ValueAt(d, p, h) /\ Get(w, keys) = ValueAt(w, q, g)
  BY DEF Get, GetIn, SearchKeys
<1>3. p # None /\ Get(d, keys) = v
  BY <1>2 DEF ValueAt, Failed
<1>4. v.err = "none"
  BY <1>3
<1> HIDE DEF h, g
<1>5. s \in Scans /\ Wider(s, t, h, g)
  BY <1>1 DEF StartScan, Scans, Wider
<1>6. p \in Nat \ {0}
  <2> HIDE DEF s
  <2> QED BY <1>3, <1>5, FoundRange DEF None
<1> HIDE DEF s, t
<1>7. \/ v = Failed("NotExist", None, "MalformedJson")
      \/ at \in p .. h - 1 /\ ReadInWindow(v, at, h)
  <2> HIDE DEF p
  <2> QED BY <1>1, <1>6, ClosestValueRange
<1>8. v.end \in Nat /\ v.end =< h
  <2> HIDE DEF v, at, p
  <2>1. at \in p .. h - 1 /\ ReadInWindow(v, at, h)
    BY <1>4, <1>7 DEF Failed
  <2>2. at \in Nat
    BY <1>6, <2>1
  <2>3. v.end \in at + 1 .. h \/ v.end \in at + 2 .. h
    BY <1>4, <2>1 DEF ReadInWindow
  <2> QED BY <1>1, <2>2, <2>3
<1>9. CASE Sound(v, h)
  <2>1. SoundAt(d, p, h)
    BY <1>3, <1>9 DEF SoundAt
  <2>2. q = p
    BY <1>1, <1>5, <2>1, FoundReadsOn
  <2> HIDE DEF p, q
  <2>3. u = ClosestValue(w, p, g) /\ Get(w, keys) = u
    BY <1>2, <1>3, <2>2 DEF ValueAt
  <2>4. Extends(w, g, d, h)
    BY <1>1 DEF Extends
  <2>5. ReadsOn(v, u, h, g)
    BY <1>6, <2>3, <2>4, ClosestValueReadsOn
  <2> HIDE DEF u, v
  <2>6. CASE u = v
    BY <1>3, <2>3, <2>6
  <2>7. CASE CutScalar(v, u, h)
    <3>1. v.end = h /\ ~(v.end < h)
      BY <1>1, <2>7 DEF CutScalar
    <3>2. v.type \notin {"Boolean", "Null"}
      BY <1>9, <3>1 DEF Sound
    <3>3. v.type = "Number" /\ u.type = "Number" /\ u.window[1] = v.window[1]
      BY <2>7, <3>2 DEF CutScalar
    <3> QED BY <1>3, <2>3, <3>1, <3>3 DEF h
  <2> QED BY <1>4, <2>5, <2>6, <2>7 DEF ReadsOn
<1>10. CASE ~Sound(v, h)
  <2>1. v.type \in {"Boolean", "Null"} /\ ~(v.end < h)
    BY <1>4, <1>10 DEF Sound
  <2>2. v.end = h
    <3> HIDE DEF v
    <3> QED BY <1>1, <1>8, <2>1
  <2> HIDE DEF v
  <2> QED BY <1>3, <2>1, <2>2 DEF h
<1> QED BY <1>9, <1>10
=============================================================================
