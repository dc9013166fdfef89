--------------------------- MODULE JsonTextProofs ---------------------------
(***************************************************************************)
(* What the scanners of parser.go promise about positions, for every text: *)
(* whatever a scanner returns lies in the window it was given, and a value *)
(* that was read ends after the byte it starts at.                         *)
(***************************************************************************)
EXTENDS JsonText, SequenceTheorems, WellFoundedInduction, TLAPS

\* A nonempty set of positions has a least one, and First is it.
LEMMA FirstIsLeast ==
  ASSUME NEW S \in SUBSET Nat, S # {}
  PROVE  First(S) \in S /\ \A r \in S : First(S) =< r
<1>1. PICK x \in S : \A y \in S : ~(<<y, x>> \in OpToRel(<, Nat))
  BY NatLessThanWellFounded, WFMin
<1>2. ASSUME NEW y \in S
      PROVE  x =< y
  <2>1. x \in Nat /\ y \in Nat
    OBVIOUS
  <2>2. y < x => <<y, x>> \in OpToRel(<, Nat)
    BY <2>1 DEF OpToRel
  <2>3. ~(y < x)
    BY <1>1, <2>2, Zenon
  <2> QED BY <2>1, <2>3
<1> QED BY <1>2 DEF First

\* A first position, when there is one, is one of the positions looked at.
LEMMA FirstInRange ==
  ASSUME NEW i \in Nat, NEW hi \in Nat, NEW S \in SUBSET (i .. hi - 1)
  PROVE  First(S) = None \/ First(S) \in S
<1>1. S \in SUBSET Nat
  OBVIOUS
<1> QED BY <1>1, FirstIsLeast DEF First

\* nextToken returns a byte of its window that is not whitespace, and it
\* returns the first byte when that is one.
LEMMA NextTokenRange ==
  ASSUME NEW d, NEW i \in Nat \ {0}, NEW hi \in Nat
  PROVE  /\ \/ NextToken(d, i, hi) = None
            \/ /\ NextToken(d, i, hi) \in i .. hi - 1
               /\ d[NextToken(d, i, hi)] \notin Blank
         /\ i < hi /\ d[i] \notin Blank => NextToken(d, i, hi) = i
<1> DEFINE S == {p \in i .. hi - 1 : d[p] \notin Blank}
<1>1. First(S) = None \/ First(S) \in S
  BY FirstInRange
<1>2. ASSUME i < hi, d[i] \notin Blank
      PROVE  First(S) = i
  <2>1. i \in S /\ S \in SUBSET Nat
    BY <1>2
  <2>2. First(S) \in S /\ First(S) =< i
    BY <2>1, FirstIsLeast
  <2> QED BY <2>2
<1> QED BY <1>1, <1>2 DEF NextToken

\* There is nothing but whitespace from i up to j.
Blanks(d, i, j) == \A x \in i .. j - 1 : d[x] \in Blank

\* What nextToken found has only whitespace before it.
LEMMA NextTokenFound ==
  ASSUME NEW d, NEW i \in Nat \ {0}, NEW hi \in Nat, NextToken(d, i, hi) # None
  PROVE  /\ NextToken(d, i, hi) \in i .. hi - 1
         /\ d[NextToken(d, i, hi)] \notin Blank
         /\ Blanks(d, i, NextToken(d, i, hi))
<1> DEFINE S == {p \in i .. hi - 1 : d[p] \notin Blank}
           q == NextToken(d, i, hi)
<1>1. q \in i .. hi - 1 /\ d[q] \notin Blank
  BY NextTokenRange
<1>2. q = First(S)
  BY DEF NextToken
<1>3. S \in SUBSET Nat /\ S # {}
  BY <1>1
<1>4. \A r \in S : q =< r
  <2> HIDE DEF S, q
  <2> QED BY <1>2, <1>3, FirstIsLeast
<1>5. ASSUME NEW x \in i .. q - 1 PROVE d[x] \in Blank
  <2>1. x \in i .. hi - 1 /\ ~(q =< x)
    <3> HIDE DEF q
    <3> QED BY <1>1
  <2> QED BY <1>4, <2>1
<1> QED BY <1>1, <1>5 DEF Blanks

\* The first byte behind whitespace is the next token.
LEMMA NextTokenBehind ==
  ASSUME NEW d, NEW i \in Nat \ {0}, NEW hi \in Nat, NEW q \in i .. hi - 1,
         d[q] \notin Blank, Blanks(d, i, q)
  PROVE  NextToken(d, i, hi) = q
<1> DEFINE S == {p \in i .. hi - 1 : d[p] \notin Blank}
<1>1. q \in S /\ S \in SUBSET Nat
  OBVIOUS
<1>2. First(S) \in S /\ First(S) =< q
  <2> HIDE DEF S
  <2> QED BY <1>1, FirstIsLeast
<1>3. First(S) \in i .. hi - 1 /\ d[First(S)] \notin Blank
  BY <1>2
<1>4. ~(First(S) < q)
  BY <1>3 DEF Blanks
<1>5. First(S) = q
  <2> HIDE DEF S
  <2> QED BY <1>2, <1>3, <1>4
<1> QED BY <1>5 DEF NextToken

\* tokenEnd stays in its window.
LEMMA TokenEndRange ==
  ASSUME NEW d, NEW i \in Nat \ {0}, NEW hi \in Nat, i < hi
  PROVE  TokenEnd(d, i, hi) \in i .. hi
<1> DEFINE S == {p \in i .. hi - 1 : d[p] \in Blank \cup {",", "}", "]"}}
<1>1. First(S) = None \/ First(S) \in S
  BY FirstInRange
<1>2. TokenEnd(d, i, hi) = IF First(S) = None THEN hi ELSE First(S)
  BY DEF TokenEnd
<1>3. First(S) = None \/ First(S) \in i .. hi - 1
  BY <1>1
<1> HIDE DEF S
<1> QED BY <1>2, <1>3

\* stringEnd returns a closing quote in its window.
LEMMA StringEndRange ==
  ASSUME NEW d, NEW i \in Nat \ {0}, NEW hi \in Nat, NEW q
  PROVE  StringEnd(d, i, hi, q) = None \/ StringEnd(d, i, hi, q) \in i .. hi - 1
<1> DEFINE S == {p \in i .. hi - 1 : d[p] = q /\ EvenRun(d, i, p)}
<1>1. First(S) = None \/ First(S) \in S
  BY FirstInRange
<1> QED BY <1>1 DEF StringEnd

\* blockEnd returns a position after the block's first byte.
LEMMA BlockEndRange ==
  ASSUME NEW d, NEW i \in Nat, NEW hi \in Nat, NEW open, NEW close
  PROVE  \/ BlockEnd(d, i, hi, open, close) = None
         \/ BlockEnd(d, i, hi, open, close) \in i + 1 .. hi
<1> DEFINE mode[p \in i .. hi] ==
             IF p = i THEN Outside ELSE Reading(d[p - 1])[mode[p - 1]]
           Count(symbol, p) ==
             Cardinality({r \in i .. p : d[r] = symbol /\ mode[r] = Outside})
           S == {p \in i .. hi - 1 : /\ d[p] = close
                                     /\ mode[p] = Outside
                                     /\ Count(open, p) = Count(close, p)}
<1>1. BlockEnd(d, i, hi, open, close)
        = IF First(S) = None THEN None ELSE First(S) + 1
  BY DEF BlockEnd
<1>2. S \in SUBSET (i .. hi - 1)
  OBVIOUS
<1> HIDE DEF S
<1>3. First(S) = None \/ First(S) \in i .. hi - 1
  BY <1>2, FirstInRange
<1> QED BY <1>1, <1>3 DEF None

---------------------------------------------------------------------------
\* v is what getType may return for a value that starts at i.
ReadInWindow(v, i, hi) ==
  \/ /\ v.err # "none"
     /\ v.window = NoWindow /\ v.end = i
  \/ /\ v.err = "none" /\ v.type = "String"
     /\ v.end \in i + 2 .. hi /\ v.window = <<i + 1, v.end - 1>>
  \/ /\ v.err = "none" /\ v.type # "String"
     /\ v.end \in i + 1 .. hi /\ v.window = <<i, v.end>>

\* getType: an error reports the position it started at and no window; a
\* value ends in the window of the call, after its first byte.
LEMMA GetTypeRange ==
  ASSUME NEW d, NEW i \in Nat \ {0}, NEW hi \in Nat, i < hi
  PROVE  ReadInWindow(GetType(d, i, hi), i, hi)
<1>1. CASE d[i] \in Quotes
  <2> DEFINE end == StringEnd(d, i + 1, hi, d[i])
  <2>1. end = None \/ end \in i + 1 .. hi - 1
    BY StringEndRange
  <2>2. GetType(d, i, hi) = GetString(i, end)
    BY <1>1 DEF GetType, Quotes, Quote
  <2> HIDE DEF end
  <2>3. ReadInWindow(GetString(i, end), i, hi)
    BY <2>1 DEF GetString, Delimited, Got, Failed, ReadInWindow, None, NoWindow
  <2> QED BY <2>2, <2>3
<1>2. ASSUME NEW type, type # "String", NEW err, err # "none", NEW end,
             end = None \/ end \in i + 1 .. hi
      PROVE  ReadInWindow(GetBlock(type, i, end, err), i, hi)
  BY <1>2 DEF GetBlock, Delimited, Got, Failed, ReadInWindow, None, NoWindow
<1>3. CASE d[i] \notin Quotes /\ d[i] = "["
  <2>1. GetType(d, i, hi) = GetBlock("Array", i, BlockEnd(d, i, hi, "[", "]"),
                                     "MalformedArray")
    BY <1>3 DEF GetType
  <2> QED BY <1>2, <2>1, BlockEndRange
<1>4. CASE d[i] \notin Quotes /\ d[i] # "[" /\ d[i] = "{"
  <2>1. GetType(d, i, hi) = GetBlock("Object", i, BlockEnd(d, i, hi, "{", "}"),
                                     "MalformedObject")
    BY <1>4 DEF GetType
  <2> QED BY <1>2, <2>1, BlockEndRange
<1>5. CASE d[i] \notin Quotes /\ d[i] # "[" /\ d[i] # "{"
  <2> DEFINE end == TokenEnd(d, i, hi)
  <2>1. end \in i .. hi
    BY TokenEndRange
  <2>2. GetType(d, i, hi) = GetScalar(d, i, end)
    BY <1>5 DEF GetType
  <2> HIDE DEF end
  <2>3. \A text : ScalarType(text) # "String"
    BY DEF ScalarType
  <2>4. ReadInWindow(GetScalar(d, i, end), i, hi)
    BY <2>1, <2>3 DEF GetScalar, Got, Failed, ReadInWindow, NoWindow
  <2> QED BY <2>2, <2>4
<1> QED BY <1>1, <1>3, <1>4, <1>5

\* internalGet without a path: nothing, or the value at the next token.
LEMMA ClosestValueRange ==
  ASSUME NEW d, NEW i \in Nat \ {0}, NEW hi \in Nat
  PROVE  \/ ClosestValue(d, i, hi) = Failed("NotExist", None, "MalformedJson")
         \/ /\ NextToken(d, i, hi) \in i .. hi - 1
            /\ ReadInWindow(ClosestValue(d, i, hi), NextToken(d, i, hi), hi)
<1>1. NextToken(d, i, hi) = None \/ NextToken(d, i, hi) \in i .. hi - 1
  BY NextTokenRange
<1> QED BY <1>1, GetTypeRange DEF ClosestValue

---------------------------------------------------------------------------
\* Induction over a set of numbers.
LEMMA NatSetInduction ==
  ASSUME NEW T, 0 \in T, \A n \in Nat : n \in T => n + 1 \in T
  PROVE  Nat \subseteq T
<1> DEFINE bad == Nat \ T
<1> SUFFICES ASSUME bad # {} PROVE FALSE
  OBVIOUS
<1>1. PICK x \in bad : \A y \in bad : ~(<<y, x>> \in OpToRel(<, Nat))
  BY NatLessThanWellFounded, WFMin
<1>2. x \in Nat /\ x # 0 /\ x - 1 \in Nat
  OBVIOUS
<1>3. <<x - 1, x>> \in OpToRel(<, Nat)
  <2>1. x - 1 < x
    BY <1>2
  <2> QED BY <1>2, <2>1 DEF OpToRel
<1>4. x - 1 \in T
  BY <1>1, <1>2, <1>3
<1>5. (x - 1) + 1 \in T
  BY <1>2, <1>4
<1> QED BY <1>2, <1>5

\* Induction over a rank.
LEMMA RankInduction ==
  ASSUME NEW S, NEW rank \in [S -> Nat], NEW T,
         \A s \in S : (\A t \in S : rank[t] < rank[s] => t \in T) => s \in T
  PROVE  S \subseteq T
<1> DEFINE U == {n \in Nat : \A s \in S : rank[s] < n => s \in T}
<1>1. 0 \in U
  OBVIOUS
<1>2. ASSUME NEW n \in Nat, n \in U PROVE n + 1 \in U
  <2>1. ASSUME NEW s \in S, rank[s] < n + 1 PROVE s \in T
    <3>1. \A t \in S : rank[t] < rank[s] => t \in T
      <4>1. ASSUME NEW t \in S, rank[t] < rank[s] PROVE t \in T
        <5>1. rank[t] \in Nat /\ rank[s] \in Nat /\ rank[t] < n
          BY <2>1, <4>1
        <5> QED BY <1>2, <5>1
      <4> QED BY <4>1
    <3> QED BY <3>1
  <2> QED BY <2>1
<1>3. Nat \subseteq U
  <2> HIDE DEF U
  <2> QED BY <1>1, <1>2, NatSetInduction
<1>4. ASSUME NEW s \in S PROVE s \in T
  <2>1. rank[s] \in Nat /\ rank[s] + 1 \in Nat /\ rank[s] < rank[s] + 1
    OBVIOUS
  <2> QED BY <1>3, <2>1
<1> QED BY <1>4

\* f satisfies the recursion G wherever the rank is below n.
SolvesBelow(f, G, S, rank, n) == \A s \in S : rank[s] < n => f[s] = G[f][s]

\* G asks f only for what has a smaller rank.
DescendsIn(G, S, V, rank) ==
  /\ rank \in [S -> Nat]
  /\ G \in [[S -> V] -> [S -> V]]
  /\ \A f, g \in [S -> V], s \in S :
       (\A t \in S : rank[t] < rank[s] => f[t] = g[t]) => G[f][s] = G[g][s]

\* Two functions that satisfy it below n agree there.
LEMMA SolutionsAgree ==
  ASSUME NEW S, NEW V, NEW rank,
         NEW G, DescendsIn(G, S, V, rank)
  PROVE  \A n \in Nat : \A f, g \in [S -> V] :
           SolvesBelow(f, G, S, rank, n) /\ SolvesBelow(g, G, S, rank, n)
             => \A s \in S : rank[s] < n => f[s] = g[s]
<1> SUFFICES ASSUME NEW n \in Nat, NEW f \in [S -> V], NEW g \in [S -> V],
                    SolvesBelow(f, G, S, rank, n), SolvesBelow(g, G, S, rank, n)
             PROVE  \A s \in S : rank[s] < n => f[s] = g[s]
  OBVIOUS
<1>0. \A s \in S : rank[s] \in Nat
  BY DEF DescendsIn
<1> DEFINE T == {m \in Nat : \A s \in S : rank[s] < m /\ rank[s] < n => f[s] = g[s]}
<1>1. 0 \in T
  BY <1>0
<1>2. ASSUME NEW m \in Nat, m \in T PROVE m + 1 \in T
  <2>1. ASSUME NEW s \in S, rank[s] < m + 1, rank[s] < n PROVE f[s] = g[s]
    <3>1. \A t \in S : rank[t] < rank[s] => f[t] = g[t]
      <4>1. ASSUME NEW t \in S, rank[t] < rank[s] PROVE f[t] = g[t]
        <5>1. rank[t] \in Nat /\ rank[s] \in Nat
          BY <1>0
        <5>2. rank[t] < m /\ rank[t] < n
          BY <2>1, <4>1, <5>1
        <5> QED BY <1>2, <5>2
      <4> QED BY <4>1
    <3>2. G[f][s] = G[g][s]
      BY <3>1 DEF DescendsIn
    <3> QED BY <2>1, <3>2 DEF SolvesBelow
  <2> QED BY <2>1
<1>3. n \in T
  BY <1>1, <1>2, NatSetInduction
<1> QED BY <1>3

\* For every n there is one that satisfies it below n.
LEMMA SolutionsExist ==
  ASSUME NEW S, NEW V, NEW default \in V, NEW rank,
         NEW G, DescendsIn(G, S, V, rank)
  PROVE  \A n \in Nat : \E f \in [S -> V] : SolvesBelow(f, G, S, rank, n)
<1>0. \A s \in S : rank[s] \in Nat
  BY DEF DescendsIn
<1> DEFINE T == {n \in Nat : \E f \in [S -> V] : SolvesBelow(f, G, S, rank, n)}
<1>1. 0 \in T
  <2> DEFINE f == [s \in S |-> default]
  <2>1. f \in [S -> V] /\ SolvesBelow(f, G, S, rank, 0)
    BY <1>0 DEF SolvesBelow
  <2> QED BY <2>1
<1>2. ASSUME NEW n \in Nat, n \in T PROVE n + 1 \in T
  <2>1. PICK f \in [S -> V] : SolvesBelow(f, G, S, rank, n)
    BY <1>2
  <2>2. G[f] \in [S -> V]
    BY DEF DescendsIn
  <2>3. ASSUME NEW s \in S, rank[s] < n + 1 PROVE G[f][s] = G[G[f]][s]
    <3>1. \A t \in S : rank[t] < rank[s] => f[t] = G[f][t]
      <4>1. ASSUME NEW t \in S, rank[t] < rank[s] PROVE f[t] = G[f][t]
        <5>1. rank[t] \in Nat /\ rank[s] \in Nat
          BY <1>0
        <5>2. rank[t] < n
          BY <2>3, <4>1, <5>1
        <5> QED BY <2>1, <5>2 DEF SolvesBelow
      <4> QED BY <4>1
    <3> QED BY <2>2, <3>1 DEF DescendsIn
  <2>4. SolvesBelow(G[f], G, S, rank, n + 1)
    BY <2>3 DEF SolvesBelow
  <2> QED BY <2>2, <2>4
<1> QED BY <1>1, <1>2, NatSetInduction

\* A recursion that descends in a rank has a solution, so that the recursive
\* function defined by it is what the recursion says.
LEMMA RecursionHasSolution ==
  ASSUME NEW S, NEW V, V # {}, NEW rank,
         NEW G, DescendsIn(G, S, V, rank)
  PROVE  \E f \in [S -> V] : f = G[f]
<1> PICK default \in V : TRUE
  OBVIOUS
<1>0. \A s \in S : rank[s] \in Nat
  BY DEF DescendsIn
<1> DEFINE part(n) == CHOOSE f \in [S -> V] : SolvesBelow(f, G, S, rank, n)
           whole == [s \in S |-> part(rank[s] + 1)[s]]
<1>1. \A n \in Nat : part(n) \in [S -> V] /\ SolvesBelow(part(n), G, S, rank, n)
  BY SolutionsExist
<1> HIDE DEF part
<1>A. \A n \in Nat : \A f, g \in [S -> V] :
        SolvesBelow(f, G, S, rank, n) /\ SolvesBelow(g, G, S, rank, n)
             => \A s \in S : rank[s] < n => f[s] = g[s]
  BY SolutionsAgree
<1>2. whole \in [S -> V]
  BY <1>0, <1>1
<1>3. ASSUME NEW s \in S, NEW t \in S, rank[t] < rank[s] + 1
      PROVE  whole[t] = part(rank[s] + 1)[t]
  <2>1. rank[t] \in Nat /\ rank[s] \in Nat
    BY <1>0
  <2>2. SolvesBelow(part(rank[s] + 1), G, S, rank, rank[t] + 1)
    <3>1. SolvesBelow(part(rank[s] + 1), G, S, rank, rank[s] + 1)
      BY <1>1, <2>1
    <3>2. \A u \in S : rank[u] < rank[t] + 1 => rank[u] < rank[s] + 1
      BY <1>0, <1>3, <2>1
    <3> QED BY <3>1, <3>2 DEF SolvesBelow
  <2>3. SolvesBelow(part(rank[t] + 1), G, S, rank, rank[t] + 1)
    BY <1>1, <2>1
  <2>4. /\ part(rank[s] + 1) \in [S -> V] /\ part(rank[t] + 1) \in [S -> V]
        /\ rank[t] + 1 \in Nat /\ rank[t] < rank[t] + 1
    BY <1>1, <2>1
  <2> DEFINE f == part(rank[t] + 1)
             g == part(rank[s] + 1)
             n == rank[t] + 1
  <2>5. n \in Nat /\ f \in [S -> V] /\ g \in [S -> V]
    BY <2>1, <2>4
  <2>6. SolvesBelow(f, G, S, rank, n) /\ SolvesBelow(g, G, S, rank, n)
    BY <2>2, <2>3
  <2> HIDE DEF f, g, n
  <2>7. \A u \in S : rank[u] < n => f[u] = g[u]
    BY <2>5, <2>6, <1>A
  <2> QED BY <2>4, <2>7 DEF f, g, n
<1>4. ASSUME NEW s \in S PROVE whole[s] = G[whole][s]
  <2>1. /\ rank[s] \in Nat /\ rank[s] < rank[s] + 1
        /\ part(rank[s] + 1) \in [S -> V]
        /\ SolvesBelow(part(rank[s] + 1), G, S, rank, rank[s] + 1)
    BY <1>0, <1>1
  <2>2. \A t \in S : rank[t] < rank[s] => whole[t] = part(rank[s] + 1)[t]
    <3>1. ASSUME NEW t \in S, rank[t] < rank[s]
          PROVE whole[t] = part(rank[s] + 1)[t]
      <4>1. rank[t] \in Nat /\ rank[t] < rank[s] + 1
        BY <1>0, <2>1, <3>1
      <4> QED BY <1>3, <4>1
    <3> QED BY <3>1
  <2>3. G[whole][s] = G[part(rank[s] + 1)][s]
    BY <1>2, <2>1, <2>2 DEF DescendsIn
  <2> QED BY <2>1, <2>3 DEF SolvesBelow
<1> HIDE DEF whole
<1>5. whole = G[whole]
  <2>1. G[whole] \in [S -> V]
    BY <1>2 DEF DescendsIn
  <2> QED BY <1>2, <1>4, <2>1
<1> QED BY <1>2, <1>5
=============================================================================
