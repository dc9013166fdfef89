----------------------------- MODULE EditProofs -----------------------------
(***************************************************************************)
(* Set, Delete and Append on every text, JSON or not, for every path and   *)
(* every value.  No slice a call takes is out of range, and what it gives  *)
(* up is a window of the text: the lemmas follow the code, what the        *)
(* backward scans and findKeyStart return, what the inserted component is, *)
(* then one lemma for each way a call decides on its splice.  And what Set *)
(* puts in the place of a value is what Get finds there: the search takes  *)
(* the same way up to it (FoundStays, from SameUpTo), and a value that     *)
(* ends itself ends where it did (ValuePlaced, from Placed).  Last, what   *)
(* Set and Append do to a text that was cut.                               *)
(***************************************************************************)
EXTENDS Edit, LookupProofs

\* A nonempty set of positions has a greatest one, and Latest is it.
LEMMA LatestIsGreatest ==
  ASSUME NEW n \in Nat, NEW S \in SUBSET Nat, \A p \in S : p =< n, S # {}
  PROVE  Latest(S) \in S /\ \A r \in S : r =< Latest(S)
<1> DEFINE B == {n - p : p \in S}
<1>1. B \in SUBSET Nat /\ B # {}
  <2>1. \A p \in S : n - p \in Nat
    OBVIOUS
  <2> QED BY <2>1
<1>2. First(B) \in B /\ \A r \in B : First(B) =< r
  BY <1>1, FirstIsLeast
<1>3. PICK x \in S : First(B) = n - x
  BY <1>2
<1>4. ASSUME NEW r \in S PROVE r =< x
  <2>1. n - x =< n - r
    BY <1>2, <1>3
  <2> QED BY <2>1
<1> QED BY <1>4 DEF Latest

\* lastToken returns a byte of its window that is not whitespace, and the last
\* one that is none.
LEMMA LastTokenRange ==
  ASSUME NEW d, NEW lo \in Nat \ {0}, NEW hi \in Nat
  PROVE  /\ LastToken(d, lo, hi) = None \/ LastToken(d, lo, hi) \in lo .. hi - 1
         /\ \A p \in lo .. hi - 1 :
              d[p] \notin Blank => /\ LastToken(d, lo, hi) # None
                                   /\ p =< LastToken(d, lo, hi)
<1> DEFINE S == {p \in lo .. hi - 1 : d[p] \notin Blank}
<1>1. S \in SUBSET Nat /\ \A r \in S : r =< hi
  OBVIOUS
<1>2. LastToken(d, lo, hi) = Latest(S)
  BY DEF LastToken
<1>3. S = {} => Latest(S) = None
  BY DEF Latest
<1>4. S # {} => Latest(S) \in S /\ \A r \in S : r =< Latest(S)
  BY <1>1, LatestIsGreatest
<1>5. \A p \in lo .. hi - 1 : p # None
  BY DEF None
<1>6. CASE S = {}
  BY <1>2, <1>3, <1>6
<1>7. CASE S # {}
  BY <1>2, <1>4, <1>5, <1>7
<1> QED BY <1>6, <1>7

\* findTokenStart looks before hi only.
LEMMA FindTokenStartRange ==
  ASSUME NEW d, NEW hi \in Nat \ {0}, NEW c
  PROVE  FindTokenStart(d, hi, c) \in Nat \ {0} /\ FindTokenStart(d, hi, c) =< hi
<1> DEFINE S == {r \in 1 .. hi - 1 : d[r] \in {c, "[", "{"}}
           p == Latest(S)
<1>1. S \in SUBSET Nat /\ \A r \in S : r =< hi
  <2>1. \A r \in S : r \in 1 .. hi - 1
    OBVIOUS
  <2> HIDE DEF S
  <2> QED BY <2>1
<1>2. S # {} => p \in S
  BY <1>1, LatestIsGreatest
<1>3. S = {} => p = None
  BY DEF Latest
<1>4. p # None => p \in 1 .. hi - 1
  BY <1>2, <1>3
<1>5. FindTokenStart(d, hi, c) = IF p # None /\ d[p] = c THEN p ELSE 1
  BY DEF FindTokenStart
<1> HIDE DEF p
<1> QED BY <1>4, <1>5

\* The strings findKeyStart stops at begin in its window.
LEMMA StringsMetRange ==
  ASSUME NEW d, NEW lo \in Nat \ {0}, NEW hi \in Nat
  PROVE  StringsMet(d, lo, hi) \in Seq(0 .. hi)
<1> DEFINE Places == Seq(0 .. hi)
           first == NextToken(d, lo, hi)
           close(i) == StringEnd(d, i + 1, hi, d[i])
           after(i) == IF close(i) = None THEN None
                       ELSE NextToken(d, close(i) + 1, hi)
           end(i) == BlockEnd(d, i, hi, d[i], IF d[i] = "{" THEN "}" ELSE "]")
           Step(f, i) ==
             CASE d[i] \in Quotes ->
                    (CASE close(i) = None -> f[i + 2]
                       [] close(i) # None /\ after(i) = None -> f[close(i) + 2]
                       [] OTHER -> <<i>> \o f[after(i) + 1])
               [] d[i] \in {"{", "["} ->
                    f[IF end(i) = None THEN i + 1 ELSE end(i) + 1]
               [] OTHER -> f[i + 1]
           Body(f, i) == IF i >= hi THEN <<>> ELSE Step(f, i)
           from == CHOOSE f : f = [i \in Nat |-> Body(f, i)]
           rank == [i \in Nat |-> IF i >= hi THEN 0 ELSE hi - i]
           G == [f \in [Nat -> Places] |-> [i \in Nat |-> Body(f, i)]]
<1>1. StringsMet(d, lo, hi)
        = IF first = None THEN <<>>
          ELSE from[IF d[first] \in {"{", "["} THEN first + 1 ELSE first]
  BY DEF StringsMet
<1>2. ASSUME NEW i \in Nat, i < hi
      PROVE  /\ close(i) = None \/ (close(i) \in Nat /\ close(i) > i)
             /\ after(i) = None \/ (close(i) # None /\ after(i) \in Nat /\ after(i) > i)
             /\ end(i) = None \/ (end(i) \in Nat /\ end(i) > i)
  <2>1. close(i) = None \/ close(i) \in i + 1 .. hi - 1
    BY StringEndRange
  <2>2. end(i) = None \/ end(i) \in i + 1 .. hi
    BY BlockEndRange
  <2>3. close(i) # None =>
          \/ NextToken(d, close(i) + 1, hi) = None
          \/ NextToken(d, close(i) + 1, hi) \in close(i) + 1 .. hi - 1
    <3> HIDE DEF close
    <3>1. close(i) # None => close(i) + 1 \in Nat \ {0}
      BY <2>1
    <3> QED BY <3>1, NextTokenRange
  <2> HIDE DEF close, end
  <2> QED BY <2>1, <2>2, <2>3
\* A step goes on further to the right, and may have met a string before.
<1>3. ASSUME NEW i \in Nat, i < hi
      PROVE  \E t \in Nat : /\ t > i
                            /\ \/ \A f : Step(f, i) = f[t]
                               \/ \A f : Step(f, i) = <<i>> \o f[t]
  <2> HIDE DEF close, after, end
  <2>1. CASE d[i] \in Quotes
    <3>1. \A f : Step(f, i) =
            IF close(i) = None THEN f[i + 2]
            ELSE IF after(i) = None THEN f[close(i) + 2]
            ELSE <<i>> \o f[after(i) + 1]
      BY <1>2, <1>3, <2>1 DEF Quotes, Quote
    <3> HIDE DEF Step
    <3>2. CASE close(i) = None
      <4>1. i + 2 \in Nat /\ i + 2 > i
        OBVIOUS
      <4> QED BY <3>1, <3>2, <4>1
    <3>3. CASE close(i) # None /\ after(i) = None
      <4>1. close(i) + 2 \in Nat /\ close(i) + 2 > i
        BY <1>2, <1>3, <3>3
      <4> QED BY <3>1, <3>3, <4>1
    <3>4. CASE close(i) # None /\ after(i) # None
      <4>1. after(i) + 1 \in Nat /\ after(i) + 1 > i
        BY <1>2, <1>3, <3>4
      <4> QED BY <3>1, <3>4, <4>1
    <3> QED BY <3>2, <3>3, <3>4
  <2>2. CASE d[i] \notin Quotes /\ d[i] \in {"{", "["}
    <3> DEFINE t == IF end(i) = None THEN i + 1 ELSE end(i) + 1
    <3>1. \A f : Step(f, i) = f[t]
      BY <2>2
    <3>2. t \in Nat /\ t > i
      BY <1>2, <1>3
    <3> QED BY <3>1, <3>2
  <2>3. CASE d[i] \notin Quotes /\ d[i] \notin {"{", "["}
    <3>1. \A f : Step(f, i) = f[i + 1]
      BY <2>3
    <3>2. i + 1 \in Nat /\ i + 1 > i
      OBVIOUS
    <3> QED BY <3>1, <3>2
  <2> QED BY <2>1, <2>2, <2>3
<1> HIDE DEF Step
<1>4. rank \in [Nat -> Nat]
  OBVIOUS
<1>5. ASSUME NEW i \in Nat, i < hi, NEW t \in Nat, t > i
      PROVE  rank[t] < rank[i]
  BY <1>5
<1> HIDE DEF rank
\* What is met first comes before what the rest of the scan meets.
<1>6. ASSUME NEW i \in Nat, i < hi, NEW s \in Places
      PROVE  <<i>> \o s \in Places
  <2>1. <<i>> \in Seq(0 .. hi)
    BY <1>6
  <2> QED BY <2>1, ConcatProperties
<1>7. <<>> \in Places
  BY EmptySeq
<1> HIDE DEF Places
<1>8. ASSUME NEW f \in [Nat -> Places], NEW i \in Nat
      PROVE  Body(f, i) \in Places
  <2>1. CASE i >= hi
    BY <1>7, <2>1
  <2>2. CASE i < hi
    <3>1. Body(f, i) = Step(f, i)
      BY <2>2
    <3>2. PICK t \in Nat : Step(f, i) = f[t] \/ Step(f, i) = <<i>> \o f[t]
      BY <1>3, <2>2
    <3> QED BY <1>6, <2>2, <3>1, <3>2
  <2> QED BY <2>1, <2>2
<1>9. ASSUME NEW f \in [Nat -> Places], NEW g \in [Nat -> Places],
             NEW i \in Nat, \A t \in Nat : rank[t] < rank[i] => f[t] = g[t]
      PROVE  Body(f, i) = Body(g, i)
  <2>1. CASE i >= hi
    BY <2>1
  <2>2. CASE i < hi
    <3>1. Body(f, i) = Step(f, i) /\ Body(g, i) = Step(g, i)
      BY <2>2
    <3>2. PICK t \in Nat : /\ t > i
                           /\ \/ \A h : Step(h, i) = h[t]
                              \/ \A h : Step(h, i) = <<i>> \o h[t]
      BY <1>3, <2>2
    <3>3. f[t] = g[t]
      BY <1>5, <1>9, <2>2, <3>2
    <3> QED BY <3>1, <3>2, <3>3
  <2> QED BY <2>1, <2>2
<1> HIDE DEF Body
<1>10. G \in [[Nat -> Places] -> [Nat -> Places]]
  BY <1>8
<1>11. \A f, g \in [Nat -> Places], i \in Nat :
        (\A t \in Nat : rank[t] < rank[i] => f[t] = g[t]) => G[f][i] = G[g][i]
  BY <1>9
<1>12. \E f \in [Nat -> Places] : f = G[f]
  <2> DEFINE S == Nat
  <2>1. Places # {}
    BY <1>7
  <2> HIDE DEF S, G
  <2>2. DescendsIn(G, S, Places, rank)
    BY <1>4, <1>10, <1>11 DEF DescendsIn, S
  <2>3. \E f \in [S -> Places] : f = G[f]
    BY <2>1, <2>2, RecursionHasSolution
  <2> QED BY <2>3 DEF S
<1>13. from = [i \in Nat |-> Body(from, i)]
  <2>1. \E f : f = [i \in Nat |-> Body(f, i)]
    BY <1>12
  <2> QED BY <2>1
<1> HIDE DEF from
\* Whatever the solution, its values are sequences of positions.
<1>14. \A i \in Nat : from[i] \in Places
  <2> DEFINE T == {i \in Nat : from[i] \in Places}
             S == Nat
  <2>1. ASSUME NEW i \in Nat, \A t \in Nat : rank[t] < rank[i] => t \in T
        PROVE  i \in T
    <3>1. from[i] = Body(from, i)
      BY <1>13
    <3>2. CASE i >= hi
      BY <1>7, <3>1, <3>2 DEF Body
    <3>3. CASE i < hi
      <4>1. from[i] = Step(from, i)
        BY <3>1, <3>3 DEF Body
      <4>2. PICK t \in Nat : /\ t > i
                             /\ \/ Step(from, i) = from[t]
                                \/ Step(from, i) = <<i>> \o from[t]
        BY <1>3, <3>3
      <4>3. from[t] \in Places
        BY <1>5, <2>1, <3>3, <4>2
      <4> QED BY <1>6, <3>3, <4>1, <4>2, <4>3
    <3> QED BY <3>2, <3>3
  <2>2. S \subseteq T
    <3> HIDE DEF T
    <3>1. rank \in [S -> Nat]
      BY <1>4 DEF S
    <3>2. \A i \in S : (\A t \in S : rank[t] < rank[i] => t \in T) => i \in T
      BY <2>1 DEF S
    <3> HIDE DEF S
    <3> QED BY <3>1, <3>2, RankInduction
  <2> QED BY <2>2
<1>15. first = None \/ first \in lo .. hi - 1
  BY NextTokenRange
<1> HIDE DEF first
<1>16. first # None => first \in Nat /\ first + 1 \in Nat
  BY <1>15
<1> DEFINE t == IF d[first] \in {"{", "["} THEN first + 1 ELSE first
<1>17. StringsMet(d, lo, hi) = IF first = None THEN <<>> ELSE from[t]
  BY <1>1
<1>18. first # None => t \in Nat
  BY <1>16
<1> HIDE DEF t
<1>19. first # None => from[t] \in Places
  BY <1>14, <1>18
<1> QED BY <1>7, <1>17, <1>19 DEF Places

\* findKeyStart returns a position of its window, or none.
LEMMA FindKeyStartRange ==
  ASSUME NEW d, NEW lo \in Nat \ {0}, NEW hi \in Nat, NEW component
  PROVE  FindKeyStart(d, lo, hi, component) \in 0 .. hi
<1> DEFINE met == StringsMet(d, lo, hi)
           Closing(n) == StringEnd(d, met[n] + 1, hi, d[met[n]])
           Body(n) == Text(d, met[n] + 1, Closing(n))
           Named(n) ==
             /\ d[NextToken(d, Closing(n) + 1, hi)] = ":"
             /\ Unescape(Body(n)) = Wanted(component, [m \in 1 .. n |-> Body(m)])
           S == {m \in 1 .. Len(met) : Named(m)}
<1>1. FindKeyStart(d, lo, hi, component)
        = IF First(S) = None THEN None ELSE met[First(S)]
  BY DEF FindKeyStart
<1>2. S \subseteq 1 .. Len(met)
  OBVIOUS
<1>3. met \in Seq(0 .. hi)
  BY StringsMetRange
<1> HIDE DEF S, met
<1>4. S = {} => First(S) = None
  BY DEF First
<1>5. S # {} => First(S) \in S
  <2>1. S \in SUBSET Nat
    BY <1>2
  <2> QED BY <2>1, FirstIsLeast
<1>6. First(S) # None => met[First(S)] \in 0 .. hi
  BY <1>2, <1>3, <1>4, <1>5, ElementOfSeq
<1>7. None \in 0 .. hi
  BY DEF None
<1> QED BY <1>1, <1>6, <1>7

---------------------------------------------------------------------------
\* The bytes of a text: strings, among them those that edits write (which the
\* provers do not know to be strings).
Bytes == STRING \cup {Quote, ":", ",", "[", "]", "{", "}", "nul"}

\* One byte, or two, are a text.
LEMMA BytesMakeText ==
  ASSUME NEW a \in Bytes
  PROVE  /\ <<a>> \in Seq(Bytes)
         /\ \A b \in Bytes : <<a, b>> \in Seq(Bytes)
<1> HIDE DEF Bytes
<1>1. <<a>> \in Seq(Bytes)
  OBVIOUS
<1>2. ASSUME NEW b \in Bytes PROVE <<a, b>> \in Seq(Bytes)
  OBVIOUS
<1> QED BY <1>1, <1>2

\* What the code writes of its own is made of bytes.
LEMMA StringsAreBytes ==
  /\ Seq(STRING) \subseteq Seq(Bytes)
  /\ Quote \in Bytes /\ ":" \in Bytes /\ "," \in Bytes /\ "nul" \in Bytes
  /\ "[" \in Bytes /\ "]" \in Bytes /\ "{" \in Bytes /\ "}" \in Bytes
<1>1. STRING \subseteq Bytes
  BY DEF Bytes
<1>2. Seq(STRING) \subseteq Seq(Bytes)
  BY <1>1, SeqMonotonic
<1> QED BY <1>2 DEF Bytes

\* The value in its containers is a text.
LEMMA WrappedText ==
  ASSUME NEW key \in Seq(STRING), NEW text \in Seq(Bytes)
  PROVE  /\ MemberName(key) \in Seq(Bytes)
         /\ Wrapped(key, text) \in Seq(Bytes)
<1>1. /\ <<Quote>> \in Seq(Bytes) /\ <<Quote, ":">> \in Seq(Bytes)
      /\ <<"[">> \in Seq(Bytes) /\ <<"]">> \in Seq(Bytes)
      /\ <<"{">> \in Seq(Bytes) /\ <<"}">> \in Seq(Bytes)
  BY BytesMakeText, StringsAreBytes
<1>2. \A s, t \in Seq(Bytes) : s \o t \in Seq(Bytes)
  BY ConcatProperties
<1>3. MemberName(key) \in Seq(Bytes)
  BY <1>1, <1>2, StringsAreBytes DEF MemberName
<1>4. /\ <<"[">> \o text \o <<"]">> \in Seq(Bytes)
      /\ <<"{">> \o MemberName(key) \o text \o <<"}">> \in Seq(Bytes)
  BY <1>1, <1>2, <1>3
<1> QED BY <1>3, <1>4 DEF Wrapped

\* createInsertComponent writes a text, for any number of components.
LEMMA InsideText ==
  ASSUME NEW keys \in Seq(Seq(STRING)), keys # <<>>, NEW value \in Seq(Bytes)
  PROVE  Inside(keys, value) \in Seq(Bytes)
<1> DEFINE S == 1 .. Len(keys)
           V == Seq(Bytes)
           Body(f, k) == IF k = Len(keys) THEN value
                         ELSE Wrapped(keys[k + 1], f[k + 1])
           inside == CHOOSE f : f = [k \in S |-> Body(f, k)]
           rank == [k \in S |-> Len(keys) - k]
           G == [f \in [S -> V] |-> [k \in S |-> Body(f, k)]]
<1>0. Len(keys) \in Nat \ {0} /\ \A k \in S : keys[k] \in Seq(STRING)
  BY LenProperties, ElementOfSeq, EmptySeq
<1>1. Inside(keys, value) = inside[1]
  BY DEF Inside
<1>2. rank \in [S -> Nat]
  BY <1>0
<1>3. ASSUME NEW k \in S, k # Len(keys)
      PROVE  k + 1 \in S /\ rank[k + 1] < rank[k]
  BY <1>0, <1>3
<1> HIDE DEF rank
<1>4. ASSUME NEW f, NEW k \in S, k # Len(keys) => f[k + 1] \in V
      PROVE  Body(f, k) \in V
  <2>1. CASE k = Len(keys)
    BY <2>1
  <2>2. CASE k # Len(keys)
    <3>1. keys[k + 1] \in Seq(STRING) /\ f[k + 1] \in Seq(Bytes)
      BY <1>0, <1>3, <1>4, <2>2
    <3>2. Body(f, k) = Wrapped(keys[k + 1], f[k + 1])
      BY <2>2
    <3> QED BY <3>1, <3>2, WrappedText
  <2> QED BY <2>1, <2>2
<1>5. ASSUME NEW f \in [S -> V], NEW g \in [S -> V], NEW k \in S,
             \A t \in S : rank[t] < rank[k] => f[t] = g[t]
      PROVE  Body(f, k) = Body(g, k)
  <2>1. k # Len(keys) => f[k + 1] = g[k + 1]
    BY <1>3, <1>5
  <2> QED BY <2>1
<1>6. value \in V
  OBVIOUS
<1>7. \A f \in [S -> V], k \in S : Body(f, k) \in V
  BY <1>3, <1>4
<1> HIDE DEF Body, S, V
<1>8. G \in [[S -> V] -> [S -> V]]
  BY <1>7
<1>9. \A f, g \in [S -> V], k \in S :
        (\A t \in S : rank[t] < rank[k] => f[t] = g[t]) => G[f][k] = G[g][k]
  BY <1>5
<1>10. \E f \in [S -> V] : f = G[f]
  <2> HIDE DEF G
  <2>1. DescendsIn(G, S, V, rank) /\ V # {}
    BY <1>2, <1>6, <1>8, <1>9 DEF DescendsIn
  <2> QED BY <2>1, RecursionHasSolution
<1>11. inside = [k \in S |-> Body(inside, k)]
  <2>1. \E f : f = [k \in S |-> Body(f, k)]
    BY <1>10
  <2> QED BY <2>1
<1> HIDE DEF inside
<1>12. S \subseteq {k \in S : inside[k] \in V}
  <2> DEFINE T == {k \in S : inside[k] \in V}
  <2>1. ASSUME NEW k \in S, \A t \in S : rank[t] < rank[k] => t \in T
        PROVE  k \in T
    <3>1. k # Len(keys) => inside[k + 1] \in V
      BY <1>3, <2>1
    <3>2. inside[k] = Body(inside, k)
      BY <1>11
    <3> QED BY <1>4, <3>1, <3>2
  <2> HIDE DEF T
  <2>2. S \subseteq T
    BY <1>2, <2>1, RankInduction
  <2> QED BY <2>2 DEF T
<1>13. 1 \in S
  BY <1>0 DEF S
<1> QED BY <1>1, <1>12, <1>13 DEF V

\* The buffer it is written to has a size.
LEMMA AllocatedSpaceIsNat ==
  ASSUME NEW keys \in Seq(Seq(STRING)), keys # <<>>, NEW value \in Seq(Bytes),
         NEW comma \in BOOLEAN, NEW object \in BOOLEAN
  PROVE  AllocatedSpace(keys, value, comma, object) \in Nat
<1> DEFINE S == 1 .. Len(keys)
           V == Nat
           More(k) == IF IsIndexForm(keys[k]) THEN 2 ELSE Len(keys[k]) + 5
           Body(f, k) == IF k = 1 THEN Len(value) ELSE f[k - 1] + More(k)
           size == CHOOSE f : f = [k \in S |-> Body(f, k)]
           rank == [k \in S |-> k]
           G == [f \in [S -> V] |-> [k \in S |-> Body(f, k)]]
           last == CASE IsIndexForm(keys[1]) /\ ~comma -> 2
                     [] IsIndexForm(keys[1]) /\ comma  -> IF object THEN 1 ELSE 0
                     [] OTHER -> Len(keys[1]) + (IF object THEN 5 ELSE 3)
<1>0. /\ Len(keys) \in Nat \ {0} /\ Len(value) \in Nat
      /\ \A k \in S : Len(keys[k]) \in Nat
  BY LenProperties, ElementOfSeq, EmptySeq
<1>1. AllocatedSpace(keys, value, comma, object)
        = size[Len(keys)] + (IF comma THEN 1 ELSE 0) + last
  BY DEF AllocatedSpace
<1>2. /\ 1 \in S /\ Len(keys) \in S
      /\ \A k \in S : k \in Nat /\ (k # 1 => k - 1 \in S /\ k - 1 < k)
      /\ \A k \in S : More(k) \in Nat
  BY <1>0
<1>3. last \in Nat
  <2>1. Len(keys[1]) \in Nat
    BY <1>0, <1>2
  <2>2. CASE IsIndexForm(keys[1]) /\ ~comma
    <3>1. last = 2
      BY <2>2
    <3> HIDE DEF last
    <3> QED BY <3>1
  <2>3. CASE IsIndexForm(keys[1]) /\ comma
    <3>1. last = IF object THEN 1 ELSE 0
      BY <2>3
    <3> HIDE DEF last
    <3> QED BY <3>1
  <2>4. CASE ~IsIndexForm(keys[1])
    <3>1. last = Len(keys[1]) + 5 \/ last = Len(keys[1]) + 3
      BY <2>4
    <3> HIDE DEF last
    <3> QED BY <2>1, <3>1
  <2> QED BY <2>2, <2>3, <2>4
<1> HIDE DEF S, More, last
<1>4. ASSUME NEW f, NEW k \in S, k # 1 => f[k - 1] \in V
      PROVE  Body(f, k) \in V
  BY <1>0, <1>2, <1>4
<1>5. ASSUME NEW f \in [S -> V], NEW g \in [S -> V], NEW k \in S,
             \A t \in S : rank[t] < rank[k] => f[t] = g[t]
      PROVE  Body(f, k) = Body(g, k)
  <2>1. k # 1 => f[k - 1] = g[k - 1]
    BY <1>2, <1>5
  <2> QED BY <2>1
<1>6. rank \in [S -> Nat]
  BY <1>2
<1>7. \A f \in [S -> V], k \in S : Body(f, k) \in V
  BY <1>2, <1>4
<1>8. \A k \in S : k # 1 => k - 1 \in S /\ rank[k - 1] < rank[k]
  BY <1>2
<1>9. V # {}
  OBVIOUS
<1> HIDE DEF Body, V, rank
<1>10. G \in [[S -> V] -> [S -> V]]
  BY <1>7
<1>11. \A f, g \in [S -> V], k \in S :
         (\A t \in S : rank[t] < rank[k] => f[t] = g[t]) => G[f][k] = G[g][k]
  BY <1>5
<1>12. \E f \in [S -> V] : f = G[f]
  <2> HIDE DEF G
  <2>1. DescendsIn(G, S, V, rank)
    BY <1>6, <1>10, <1>11 DEF DescendsIn
  <2> QED BY <1>9, <2>1, RecursionHasSolution
<1>13. size = [k \in S |-> Body(size, k)]
  <2>1. \E f : f = [k \in S |-> Body(f, k)]
    BY <1>12
  <2> QED BY <2>1
<1> HIDE DEF size
<1>14. S \subseteq {k \in S : size[k] \in V}
  <2> DEFINE T == {k \in S : size[k] \in V}
  <2>1. ASSUME NEW k \in S, \A t \in S : rank[t] < rank[k] => t \in T
        PROVE  k \in T
    <3>1. k # 1 => size[k - 1] \in V
      BY <1>8, <2>1
    <3>2. size[k] = Body(size, k)
      BY <1>13
    <3> QED BY <1>4, <3>1, <3>2
  <2> HIDE DEF T
  <2>2. S \subseteq T
    BY <1>6, <2>1, RankInduction
  <2> QED BY <2>2 DEF T
<1>15. size[Len(keys)] \in Nat
  BY <1>2, <1>14 DEF V
<1> QED BY <1>1, <1>3, <1>15

\* What createInsertComponent returns is a text.
LEMMA InsertedText ==
  ASSUME NEW keys \in Seq(Seq(STRING)), keys # <<>>, NEW value \in Seq(Bytes),
         NEW comma \in BOOLEAN, NEW object \in BOOLEAN
  PROVE  InsertComponent(keys, value, comma, object) \in Seq(Bytes)
<1> DEFINE inside == Inside(keys, value)
           size == AllocatedSpace(keys, value, comma, object)
           text == CASE IsIndexForm(keys[1]) /\ ~comma -> <<"[">> \o inside \o <<"]">>
                     [] IsIndexForm(keys[1]) /\ comma  -> inside
                     [] ~IsIndexForm(keys[1]) /\ object -> Wrapped(keys[1], inside)
                     [] OTHER -> MemberName(keys[1]) \o inside
           whole == (IF comma THEN <<",">> ELSE <<>>) \o text
<1>1. inside \in Seq(Bytes) /\ size \in Nat
  BY InsideText, AllocatedSpaceIsNat
<1>2. keys[1] \in Seq(STRING)
  BY LenProperties, ElementOfSeq, EmptySeq
<1>3. InsertComponent(keys, value, comma, object) = Buffered(whole, size)
  BY DEF InsertComponent
<1> HIDE DEF inside, size
<1>4. \A s, t \in Seq(Bytes) : s \o t \in Seq(Bytes)
  BY ConcatProperties
<1>5. text \in Seq(Bytes)
  <2>1. <<"[">> \o inside \o <<"]">> \in Seq(Bytes)
    <3>1. <<"[">> \in Seq(Bytes) /\ <<"]">> \in Seq(Bytes)
      BY BytesMakeText, StringsAreBytes
    <3> QED BY <1>1, <1>4, <3>1
  <2>2. /\ Wrapped(keys[1], inside) \in Seq(Bytes)
        /\ MemberName(keys[1]) \o inside \in Seq(Bytes)
    BY <1>1, <1>2, <1>4, WrappedText
  <2> QED BY <1>1, <2>1, <2>2
<1> HIDE DEF text
<1>6. whole \in Seq(Bytes)
  <2>1. <<",">> \in Seq(Bytes) /\ <<>> \in Seq(Bytes)
    BY BytesMakeText, StringsAreBytes, EmptySeq
  <2> QED BY <1>4, <1>5, <2>1
<1> HIDE DEF whole
<1>7. Buffered(whole, size) \in Seq(Bytes)
  <2> DEFINE S == Bytes
  <2>1. "nul" \in S /\ whole \in Seq(S)
    BY <1>6, StringsAreBytes
  <2> HIDE DEF S
  <2>2. Len(whole) \in Nat
    BY <2>1, LenProperties
  <2>3. ASSUME NEW k \in 1 .. size
        PROVE  (IF k =< Len(whole) THEN whole[k] ELSE "nul") \in S
    BY <1>1, <2>1, <2>2, <2>3
  <2>4. [k \in 1 .. size |-> IF k =< Len(whole) THEN whole[k] ELSE "nul"] \in Seq(S)
    BY <1>1, <2>3
  <2> QED BY <2>4 DEF Buffered, S
<1> QED BY <1>3, <1>7

---------------------------------------------------------------------------
\* Documents, and the splices a call may make in one.
Texts == Seq(Bytes)

GoodEdit(d, e) == /\ e.from \in 1 .. Len(d) + 1
                  /\ e.to \in 1 .. Len(d) + 1
                  /\ e.text \in Texts

Ordered(d, e) == GoodEdit(d, e) /\ e.from =< e.to

\* An error splices nothing.
LEMMA RefusedIsOrdered ==
  ASSUME NEW d \in Texts, NEW err
  PROVE  Ordered(d, Refused(err)) /\ Ordered(d, NotFound)
<1>1. Len(d) \in Nat /\ <<>> \in Texts
  BY LenProperties, EmptySeq DEF Texts
<1> QED BY <1>1 DEF Refused, NotFound, Ordered, GoodEdit

\* A splice between two positions of the text is in range.
LEMMA SpliceIsGood ==
  ASSUME NEW d \in Texts, NEW text \in Texts,
         NEW from \in 1 .. Len(d) + 1, NEW to \in 1 .. Len(d) + 1
  PROVE  /\ GoodEdit(d, Splice(from, to, text))
         /\ from =< to => Ordered(d, Splice(from, to, text))
BY DEF Splice, Ordered, GoodEdit

\* A deletion that is in range stays so when it takes the comma beside it
\* along, and its ends stay in order.
LEMMA TrimIsGood ==
  ASSUME NEW d \in Texts, NEW from \in 1 .. Len(d) + 1,
         NEW to \in 1 .. Len(d) + 1, NEW closing
  PROVE  /\ GoodEdit(d, Trim(d, from, to, closing))
         /\ from =< to => Ordered(d, Trim(d, from, to, closing))
<1> DEFINE end == Len(d) + 1
           stop == TokenEnd(d, to, end)
           next == NextToken(d, stop, end)
           comma == FindTokenStart(d, from, ",")
           commaFollows == next # None /\ d[next] = ","
           isLast == ~commaFollows /\ d[stop] = closing /\ d[comma] = ","
           dropTo == IF commaFollows THEN next + 1 ELSE to
           limit == IF isLast THEN comma ELSE from
           before == LastToken(d, 1, limit)
           after == NextToken(d, dropTo, end)
           dangling == /\ before # None /\ d[before] = ","
                       /\ after # None /\ d[after] \in {"}", "]"}
           start == IF dangling THEN before ELSE before + 1
<1>1. Len(d) \in Nat /\ end \in Nat /\ end = Len(d) + 1
  BY LenProperties DEF Texts
<1>2. Trim(d, from, to, closing)
        = IF stop >= end THEN NotFound ELSE Splice(start, dropTo, <<>>)
  BY DEF Trim
<1> HIDE DEF end
<1>3. /\ from \in Nat \ {0} /\ from =< end
      /\ to \in Nat \ {0} /\ to =< end
  BY <1>1
<1>4. CASE to < end
  <2>1. stop \in to .. end
    BY <1>1, <1>3, <1>4, TokenEndRange
  <2>2. stop \in Nat \ {0} /\ to =< stop
    BY <1>1, <1>3, <2>1
  <2> HIDE DEF stop
  <2>3. next = None \/ next \in stop .. end - 1
    BY <1>1, <2>2, NextTokenRange
  <2>4. comma \in Nat \ {0} /\ comma =< from
    BY <1>3, FindTokenStartRange
  <2> HIDE DEF next, comma
  <2>d. dropTo = to \/ (next # None /\ dropTo = next + 1)
    OBVIOUS
  <2>l. limit = comma \/ limit = from
    OBVIOUS
  <2> HIDE DEF dropTo, limit
  <2>5. dropTo \in Nat \ {0} /\ to =< dropTo /\ dropTo =< end
    BY <1>1, <1>3, <2>2, <2>3, <2>d
  <2>6. limit \in Nat \ {0} /\ limit =< from
    BY <1>3, <2>4, <2>l
  <2>7. before = None \/ before \in 1 .. limit - 1
    BY <2>6, LastTokenRange
  <2>s. start = before + 1 \/ (before # None /\ start = before)
    OBVIOUS
  <2> HIDE DEF before, start
  <2>8. start \in Nat \ {0} /\ start =< from
    BY <1>3, <2>6, <2>7, <2>s DEF None
  <2>9. dropTo \in 1 .. Len(d) + 1 /\ start \in 1 .. Len(d) + 1
    BY <1>1, <1>3, <2>5, <2>8
  <2>10. from =< to => start =< dropTo
    BY <1>3, <2>5, <2>8
  <2>11. <<>> \in Texts
    BY EmptySeq DEF Texts
  <2>12. /\ GoodEdit(d, Splice(start, dropTo, <<>>))
         /\ from =< to => Ordered(d, Splice(start, dropTo, <<>>))
    BY <2>9, <2>10, <2>11, SpliceIsGood
  <2>13. Ordered(d, NotFound) /\ GoodEdit(d, NotFound)
    BY RefusedIsOrdered DEF Ordered
  <2> QED BY <1>2, <2>12, <2>13
<1>5. CASE to = end
  <2>1. stop = end
    <3> DEFINE S == {p \in to .. end - 1 : d[p] \in Blank \cup {",", "}", "]"}}
    <3>1. S = {}
      <4>1. \A p \in to .. end - 1 : FALSE
        BY <1>1, <1>3, <1>5
      <4> QED BY <4>1
    <3>2. TokenEnd(d, to, end) = IF First(S) = None THEN end ELSE First(S)
      BY DEF TokenEnd
    <3> HIDE DEF S
    <3>3. First(S) = None
      BY <3>1 DEF First
    <3> QED BY <3>2, <3>3
  <2>2. Trim(d, from, to, closing) = NotFound
    <3> HIDE DEF stop, start, dropTo
    <3>1. stop >= end
      BY <1>1, <2>1
    <3> QED BY <1>2, <3>1
  <2>3. Ordered(d, NotFound) /\ GoodEdit(d, NotFound)
    BY RefusedIsOrdered DEF Ordered
  <2> QED BY <2>2, <2>3
<1> QED BY <1>1, <1>3, <1>4, <1>5

\* What Get finds is a window of the text.
LEMMA GetRange ==
  ASSUME NEW d \in Texts, NEW keys \in Seq(Seq(STRING)),
         Get(d, keys).err = "none"
  PROVE  /\ StartOf(Get(d, keys)) \in 1 .. Len(d)
         /\ Get(d, keys).end \in 2 .. Len(d) + 1
         /\ StartOf(Get(d, keys)) < Get(d, keys).end
<1> DEFINE v == Get(d, keys)
           hi == Len(d) + 1
           lo == 1
<1>1. Len(d) \in Nat /\ hi \in Nat /\ lo \in Nat
  BY LenProperties DEF Texts
<1>2. v = GetIn(d, keys, lo, hi)
  BY DEF Get
<1>3. GetIn(d, keys, lo, hi).err = "none"
  BY <1>2
<1>4. hi = Len(d) + 1
  OBVIOUS
<1> HIDE DEF v, lo, hi
<1>5. StartOf(v) \in Nat \ {0} /\ v.end \in Nat /\ StartOf(v) < v.end /\ v.end =< hi
  BY <1>1, <1>2, <1>3, GetInRange
<1>6. StartOf(v) \in 1 .. Len(d) /\ v.end \in 2 .. Len(d) + 1 /\ StartOf(v) < v.end
  BY <1>1, <1>4, <1>5
<1> QED BY <1>6 DEF v

\* Delete: both ends are positions of the text, whatever it is; those of an
\* element are in order.
LEMMA DeleteIsGood ==
  ASSUME NEW d \in Texts, NEW keys \in Seq(Seq(STRING))
  PROVE  /\ GoodEdit(d, Delete(d, keys))
         /\ keys = <<>> \/ IsIndexForm(keys[Len(keys)]) => Ordered(d, Delete(d, keys))
<1> DEFINE name == keys[Len(keys)]
           scope == Scope(d, keys)
<1>0. /\ Len(d) \in Nat /\ <<>> \in Texts
      /\ Ordered(d, NotFound) /\ GoodEdit(d, NotFound)
      /\ \A e : Ordered(d, e) => GoodEdit(d, e)
  BY LenProperties, EmptySeq, RefusedIsOrdered DEF Texts, Ordered
<1>1. CASE keys = <<>>
  <2>1. Delete(d, keys) = Splice(1, Len(d) + 1, <<>>)
    BY <1>1 DEF Delete
  <2>2. 1 \in 1 .. Len(d) + 1 /\ Len(d) + 1 \in 1 .. Len(d) + 1 /\ 1 =< Len(d) + 1
    BY <1>0
  <2>3. Ordered(d, Splice(1, Len(d) + 1, <<>>))
    BY <1>0, <2>2, SpliceIsGood
  <2> QED BY <1>0, <2>1, <2>3
<1>2. CASE keys # <<>> /\ IsIndexForm(name)
  <2>1. Delete(d, keys) = IF Get(d, keys).err # "none" THEN NotFound
                          ELSE Trim(d, StartOf(Get(d, keys)), Get(d, keys).end, "]")
    BY <1>2 DEF Delete, DeleteElement
  <2>2. ASSUME Get(d, keys).err = "none"
        PROVE  Ordered(d, Trim(d, StartOf(Get(d, keys)), Get(d, keys).end, "]"))
    <3> DEFINE from == StartOf(Get(d, keys))
               to == Get(d, keys).end
    <3>1. from \in 1 .. Len(d) /\ to \in 2 .. Len(d) + 1 /\ from < to
      BY <2>2, GetRange
    <3> HIDE DEF from, to
    <3>2. from \in 1 .. Len(d) + 1 /\ to \in 1 .. Len(d) + 1 /\ from =< to
      BY <1>0, <3>1
    <3>3. Ordered(d, Trim(d, from, to, "]"))
      BY <3>2, TrimIsGood
    <3> QED BY <3>3 DEF from, to
  <2> QED BY <1>0, <2>1, <2>2
<1>3. CASE keys # <<>> /\ ~IsIndexForm(name)
  <2>1. Delete(d, keys) = DeleteMember(d, scope, name)
    BY <1>3 DEF Delete
  <2>2. name \in Seq(STRING) /\ <<name>> \in Seq(Seq(STRING))
    <3>1. Len(keys) \in 1 .. Len(keys)
      BY <1>3, LenProperties, EmptySeq
    <3> QED BY <3>1, ElementOfSeq
  <2>3. \/ scope = NoWindow
        \/ /\ scope[1] \in Nat \ {0} /\ scope[2] \in Nat
           /\ scope[2] =< Len(d) + 1
    <3> DEFINE front == SubSeq(keys, 1, Len(keys) - 1)
               v == Get(d, front)
    <3>1. scope = IF Len(keys) = 1 THEN <<1, Len(d) + 1>>
                  ELSE IF v.err = "none" THEN <<StartOf(v), v.end>> ELSE NoWindow
      BY DEF Scope, WindowOf
    <3>2. front \in Seq(Seq(STRING))
      OBVIOUS
    <3> HIDE DEF front
    <3>3. v.err = "none" => /\ StartOf(v) \in 1 .. Len(d)
                            /\ v.end \in 2 .. Len(d) + 1
      BY <3>2, GetRange
    <3> HIDE DEF v, scope
    <3> QED BY <1>0, <3>1, <3>3
  <2> HIDE DEF scope, name
  <2>4. CASE scope = NoWindow
    BY <1>0, <1>3, <2>1, <2>4 DEF DeleteMember, name
  <2>5. CASE scope # NoWindow
    <3> DEFINE key == FindKeyStart(d, scope[1], scope[2], name)
               path == <<name>>
               member == GetIn(d, path, scope[1], scope[2])
    <3>1. Delete(d, keys) = IF key = None \/ member.err # "none" THEN NotFound
                            ELSE Trim(d, key, member.end, "}")
      BY <2>1, <2>5 DEF DeleteMember, DeleteFound
    <3>2. /\ scope[1] \in Nat \ {0} /\ scope[1] \in Nat /\ scope[2] \in Nat
          /\ scope[2] =< Len(d) + 1
      BY <2>3, <2>5
    <3>3. key \in 0 .. scope[2]
      BY <3>2, FindKeyStartRange
    <3>4. path \in Seq(Seq(STRING))
      BY <2>2
    <3> HIDE DEF key, path
    <3>5. member.err = "none" =>
            /\ StartOf(member) \in Nat \ {0} /\ member.end \in Nat
            /\ StartOf(member) < member.end /\ member.end =< scope[2]
      BY <3>2, <3>4, GetInRange
    <3> HIDE DEF member
    <3>6. ASSUME key # None, member.err = "none"
          PROVE  GoodEdit(d, Trim(d, key, member.end, "}"))
      <4>1. key \in 1 .. Len(d) + 1
        BY <1>0, <3>2, <3>3, <3>6 DEF None
      <4>2. member.end \in 1 .. Len(d) + 1
        BY <1>0, <3>2, <3>5, <3>6
      <4> QED BY <4>1, <4>2, TrimIsGood
    <3>7. GoodEdit(d, Delete(d, keys))
      BY <1>0, <3>1, <3>6
    <3> QED BY <1>3, <3>7 DEF name
  <2> QED BY <2>4, <2>5
<1> QED BY <1>1, <1>2, <1>3

---------------------------------------------------------------------------
\* A missing index of the root array.
LEMMA AppendToRootIsOrdered ==
  ASSUME NEW d \in Texts, NEW first \in 1 .. Len(d),
         NEW keys \in Seq(Seq(STRING)), keys # <<>>, NEW value \in Texts
  PROVE  Ordered(d, AppendToRoot(d, first, keys, value))
<1> DEFINE end == BlockEnd(d, first, Len(d) + 1, "[", "]")
           close == end - 1
           last == LastToken(d, first + 1, close)
           trailing == last # None /\ d[last] = ","
           empty == \/ last = None
                    \/ trailing /\ LastToken(d, first + 1, last) = None
           fresh == InsertComponent(keys, value, FALSE, FALSE)
           more == InsertComponent(keys, value, TRUE, FALSE)
           start == IF trailing THEN last ELSE close
<1>1. Len(d) \in Nat /\ first \in Nat \ {0} /\ first =< Len(d)
  BY LenProperties DEF Texts
<1>2. AppendToRoot(d, first, keys, value) =
        IF end = None THEN Refused("MalformedArray")
        ELSE IF empty THEN Splice(first, end, fresh)
        ELSE Splice(start, close, more)
  BY DEF AppendToRoot
<1>3. fresh \in Texts /\ more \in Texts
  BY InsertedText DEF Texts
<1>4. end = None \/ end \in first + 1 .. Len(d) + 1
  BY <1>1, BlockEndRange
<1>s. start = close \/ (last # None /\ start = last)
  OBVIOUS
<1> HIDE DEF end, fresh, more, empty, start
<1>5. Ordered(d, Refused("MalformedArray"))
  BY RefusedIsOrdered
<1>6. CASE end = None
  BY <1>2, <1>5, <1>6
<1>7. CASE end # None
  <2>1. /\ end \in 1 .. Len(d) + 1 /\ first \in 1 .. Len(d) + 1 /\ first =< end
        /\ close \in Nat /\ first =< close /\ close =< Len(d)
    BY <1>1, <1>4, <1>7
  <2>2. Ordered(d, Splice(first, end, fresh))
    BY <1>3, <2>1, SpliceIsGood
  <2>3. last = None \/ last \in first + 1 .. close - 1
    <3>1. first + 1 \in Nat \ {0}
      BY <1>1
    <3> HIDE DEF close
    <3> QED BY <2>1, <3>1, LastTokenRange
  <2> HIDE DEF close, last
  <2>4. start \in 1 .. Len(d) + 1 /\ close \in 1 .. Len(d) + 1 /\ start =< close
    BY <1>1, <1>s, <2>1, <2>3
  <2>5. Ordered(d, Splice(start, close, more))
    BY <1>3, <2>4, SpliceIsGood
  <2> QED BY <1>2, <1>7, <2>2, <2>5
<1> QED BY <1>6, <1>7

\* Set when nothing of the path exists.
LEMMA SetAtRootIsOrdered ==
  ASSUME NEW d \in Texts, NEW keys \in Seq(Seq(STRING)), keys # <<>>,
         NEW value \in Texts
  PROVE  Ordered(d, SetAtRoot(d, keys, value))
<1> DEFINE first == NextToken(d, 1, Len(d) + 1)
           last == LastToken(d, 1, Len(d) + 1)
           second == NextToken(d, first + 1, Len(d) + 1)
           isIndex == IsIndexForm(keys[1])
           Coerced(object) ==
             Splice(first, last + 1, InsertComponent(keys, value, FALSE, object))
           comma == second = None \/ d[second] # "}"
           e == SetAtRoot(d, keys, value)
<1>1. Len(d) \in Nat /\ Len(d) + 1 \in Nat /\ 1 \in Nat \ {0}
  BY LenProperties DEF Texts
<1>2. \/ e = NotFound
      \/ first # None /\ e = Coerced(FALSE)
      \/ first # None /\ e = Coerced(TRUE)
      \/ /\ first # None
         /\ e = Splice(last, last, InsertComponent(keys, value, comma, FALSE))
      \/ first # None /\ e = AppendToRoot(d, first, keys, value)
  <2> HIDE DEF first, last, comma
  <2> QED BY DEF SetAtRoot, first, last, second, comma
<1>3. \/ first = None
      \/ first \in 1 .. (Len(d) + 1) - 1 /\ d[first] \notin Blank
  BY <1>1, NextTokenRange
<1>4. /\ last = None \/ last \in 1 .. (Len(d) + 1) - 1
      /\ \A p \in 1 .. (Len(d) + 1) - 1 : d[p] \notin Blank => last # None /\ p =< last
  BY <1>1, LastTokenRange
<1>5. /\ comma \in BOOLEAN
      /\ \A c, o \in BOOLEAN : InsertComponent(keys, value, c, o) \in Texts
  BY InsertedText DEF Texts
<1> SUFFICES Ordered(d, e)
  OBVIOUS
<1> HIDE DEF first, last, comma, e
<1>6. CASE e = NotFound
  BY <1>6, RefusedIsOrdered
<1>7. ASSUME first # None
      PROVE  /\ first \in 1 .. Len(d) /\ last \in 1 .. Len(d) /\ first =< last
             /\ first \in 1 .. Len(d) + 1 /\ last \in 1 .. Len(d) + 1
             /\ last + 1 \in 1 .. Len(d) + 1 /\ first =< last + 1 /\ last =< last
  BY <1>1, <1>3, <1>4, <1>7
<1>8. ASSUME first # None, NEW object \in BOOLEAN PROVE Ordered(d, Coerced(object))
  BY <1>5, <1>7, <1>8, SpliceIsGood
<1>9. CASE first # None /\ e = Splice(last, last, InsertComponent(keys, value, comma, FALSE))
  <2>1. InsertComponent(keys, value, comma, FALSE) \in Texts
    BY <1>5
  <2> QED BY <1>7, <1>9, <2>1, SpliceIsGood
<1>10. CASE first # None /\ e = AppendToRoot(d, first, keys, value)
  BY <1>7, <1>10, AppendToRootIsOrdered
<1>11. CASE first # None /\ (e = Coerced(FALSE) \/ e = Coerced(TRUE))
  <2> HIDE DEF Coerced
  <2> QED BY <1>8, <1>11
<1> QED BY <1>2, <1>6, <1>9, <1>10, <1>11

\* Set below a value that was found.
LEMMA SetBelowIsOrdered ==
  ASSUME NEW d \in Texts, NEW found, NEW rest \in Seq(Seq(STRING)), rest # <<>>,
         NEW value \in Texts,
         StartOf(found) \in 1 .. Len(d), found.end \in 2 .. Len(d) + 1,
         StartOf(found) < found.end
  PROVE  Ordered(d, SetBelow(d, found, rest, value))
<1> DEFINE start == StartOf(found)
           isIndex == IsIndexForm(rest[1])
           next == NextToken(d, start + 1, Len(d) + 1)
           first == IF next = None THEN start ELSE next
           mismatch == \/ isIndex /\ d[start] = "{"
                       \/ ~isIndex /\ d[start] = "["
           joins == \/ d[start] = "{" /\ d[first] # "}"
                    \/ d[start] = "[" /\ d[first] # "]" /\ isIndex
           over(object) == Splice(start, found.end,
                                  InsertComponent(rest, value, FALSE, object))
           behind == Splice(found.end - 1, found.end - 1,
                            InsertComponent(rest, value, TRUE, FALSE))
<1>1. /\ Len(d) \in Nat
      /\ start \in 1 .. Len(d) + 1 /\ found.end \in 1 .. Len(d) + 1
      /\ start =< found.end
      /\ found.end - 1 \in 1 .. Len(d) + 1 /\ found.end - 1 =< found.end - 1
  BY LenProperties DEF Texts
<1>2. SetBelow(d, found, rest, value) =
        IF mismatch THEN over(~isIndex) ELSE IF joins THEN behind ELSE over(TRUE)
  BY DEF SetBelow
<1>3. isIndex \in BOOLEAN
  BY DEF IsIndexForm
<1>4. \A c, o \in BOOLEAN : InsertComponent(rest, value, c, o) \in Texts
  BY InsertedText DEF Texts
<1> HIDE DEF start, isIndex, mismatch, joins
<1>5. \A o \in BOOLEAN : Ordered(d, over(o))
  BY <1>1, <1>4, SpliceIsGood
<1>6. Ordered(d, behind)
  BY <1>1, <1>4, SpliceIsGood
<1>7. (~isIndex) \in BOOLEAN
  OBVIOUS
<1> HIDE DEF over, behind
<1> QED BY <1>2, <1>5, <1>6, <1>7

\* The first Depth components lead somewhere.
LEMMA DepthLeads ==
  ASSUME NEW d, NEW keys \in Seq(Seq(STRING))
  PROVE  \/ Depth(d, keys) = 0
         \/ /\ Depth(d, keys) \in 1 .. Len(keys)
            /\ Get(d, SubSeq(keys, 1, Depth(d, keys))).err = "none"
<1> DEFINE S == {n \in 1 .. Len(keys) :
                   \A k \in 1 .. n : Get(d, SubSeq(keys, 1, k)).err = "none"}
<1>1. Len(keys) \in Nat
  BY LenProperties
<1>2. S \in SUBSET Nat /\ \A n \in S : n =< Len(keys)
  BY <1>1
<1>3. Depth(d, keys) = Latest(S)
  BY DEF Depth
<1>4. CASE S = {}
  <2> HIDE DEF S
  <2> QED BY <1>3, <1>4 DEF Latest, None
<1>5. CASE S # {}
  <2>1. Depth(d, keys) \in S
    <3> HIDE DEF S
    <3> QED BY <1>1, <1>2, <1>3, <1>5, LatestIsGreatest
  <2>2. Depth(d, keys) \in 1 .. Depth(d, keys)
    BY <2>1
  <2> QED BY <2>1, <2>2
<1> QED BY <1>4, <1>5

\* Set, on every text.
LEMMA SetIsOrdered ==
  ASSUME NEW d \in Texts, NEW keys \in Seq(Seq(STRING)), NEW value \in Texts
  PROVE  Ordered(d, Set(d, keys, value))
<1> DEFINE found == Get(d, keys)
           depth == Depth(d, keys)
<1>1. CASE keys = <<>>
  BY <1>1, RefusedIsOrdered DEF Set
<1>2. CASE keys # <<>> /\ found.err = "none"
  <2>1. Set(d, keys, value) = Splice(StartOf(found), found.end, value)
    BY <1>2 DEF Set, SetAt
  <2>2. /\ StartOf(found) \in 1 .. Len(d) /\ found.end \in 2 .. Len(d) + 1
        /\ StartOf(found) < found.end
    BY <1>2, GetRange
  <2> DEFINE from == StartOf(found)
             to == found.end
  <2>3. from \in 1 .. Len(d) + 1 /\ to \in 1 .. Len(d) + 1 /\ from =< to
    <3> HIDE DEF found
    <3>1. Len(d) \in Nat
      BY LenProperties DEF Texts
    <3> QED BY <2>2, <3>1
  <2> HIDE DEF from, to
  <2>4. Ordered(d, Splice(from, to, value))
    BY <2>3, SpliceIsGood
  <2> QED BY <2>1, <2>4 DEF from, to
<1>3. CASE keys # <<>> /\ found.err = "KeyPathNotFound"
  <2>1. Set(d, keys, value) = SetMissing(d, keys, value, depth)
    BY <1>3 DEF Set, SetAt
  <2>2. CASE depth = 0
    BY <1>3, <2>1, <2>2, SetAtRootIsOrdered DEF SetMissing
  <2>3. CASE depth # 0
    <3> DEFINE front == SubSeq(keys, 1, depth)
               rest == SubSeq(keys, depth + 1, Len(keys))
               v == Get(d, front)
    <3>1. Set(d, keys, value) = SetBelow(d, v, rest, value)
      BY <2>1, <2>3 DEF SetMissing
    <3>2. depth \in 1 .. Len(keys) /\ v.err = "none"
      BY <2>3, DepthLeads
    <3>3. Len(keys) \in Nat /\ depth \in Nat /\ depth =< Len(keys)
      BY <3>2, LenProperties
    <3>4. depth # Len(keys)
      <4>1. SubSeq(keys, 1, Len(keys)) = keys
        BY SubSeqFull
      <4> QED BY <1>3, <3>2, <4>1
    <3> HIDE DEF depth
    <3>5. rest \in Seq(Seq(STRING)) /\ front \in Seq(Seq(STRING))
      BY <3>3
    <3>6. rest # <<>>
      <4>1. Len(rest) = Len(keys) - depth
        BY <3>3, <3>4
      <4>2. Len(rest) # 0
        BY <3>3, <3>4, <4>1
      <4> QED BY <4>2, EmptySeq
    <3> HIDE DEF rest, front
    <3>7. /\ StartOf(v) \in 1 .. Len(d) /\ v.end \in 2 .. Len(d) + 1
          /\ StartOf(v) < v.end
      BY <3>2, <3>5, GetRange
    <3> HIDE DEF v
    <3>8. Ordered(d, SetBelow(d, v, rest, value))
      BY <3>5, <3>6, <3>7, SetBelowIsOrdered
    <3> QED BY <3>1, <3>8
  <2> QED BY <2>2, <2>3
<1>4. CASE keys # <<>> /\ found.err \notin {"none", "KeyPathNotFound"}
  <2>1. Set(d, keys, value) = Refused(found.err)
    BY <1>4 DEF Set, SetAt
  <2> QED BY <2>1, RefusedIsOrdered
<1> QED BY <1>1, <1>2, <1>3, <1>4

\* Append, on every text.
LEMMA AppendIsOrdered ==
  ASSUME NEW d \in Texts, NEW keys \in Seq(Seq(STRING)), NEW value \in Texts
  PROVE  Ordered(d, AppendValue(d, keys, value))
<1> DEFINE found == Get(d, keys)
<1>1. CASE found.err = "none"
  <2> DEFINE start == StartOf(found)
             close == found.end - 1
             first == NextToken(d, start + 1, close)
             more == (IF first = None THEN <<>> ELSE <<",">>) \o value
  <2>1. AppendValue(d, keys, value) = AppendTo(d, value, found)
    BY <1>1 DEF AppendValue, AppendAt
  <2>2. AppendTo(d, value, found) = Refused("MalformedArray")
          \/ AppendTo(d, value, found) = Splice(close, close, more)
    BY DEF AppendTo
  <2>3. found.end \in 2 .. Len(d) + 1
    BY <1>1, GetRange
  <2>4. close \in 1 .. Len(d) + 1 /\ close =< close
    <3> HIDE DEF found
    <3>1. Len(d) \in Nat
      BY LenProperties DEF Texts
    <3> QED BY <2>3, <3>1
  <2> HIDE DEF first, close
  <2>5. more \in Texts
    <3>1. <<>> \in Seq(Bytes) /\ <<",">> \in Seq(Bytes)
      BY BytesMakeText, StringsAreBytes, EmptySeq
    <3>2. \A s, t \in Seq(Bytes) : s \o t \in Seq(Bytes)
      BY ConcatProperties
    <3> QED BY <3>1, <3>2 DEF Texts
  <2> HIDE DEF more
  <2>6. Ordered(d, Splice(close, close, more))
    BY <2>4, <2>5, SpliceIsGood
  <2> QED BY <2>1, <2>2, <2>6, RefusedIsOrdered
<1>2. CASE found.err = "KeyPathNotFound" /\ keys # <<>>
  <2>1. AppendValue(d, keys, value) = Set(d, keys, <<"[">> \o value \o <<"]">>)
    BY <1>2 DEF AppendValue, AppendAt
  <2>2. <<"[">> \o value \o <<"]">> \in Texts
    <3>1. <<"[">> \in Seq(Bytes) /\ <<"]">> \in Seq(Bytes)
      BY BytesMakeText, StringsAreBytes
    <3>2. \A s, t \in Seq(Bytes) : s \o t \in Seq(Bytes)
      BY ConcatProperties
    <3> QED BY <3>1, <3>2 DEF Texts
  <2> QED BY <2>1, <2>2, SetIsOrdered
<1>3. CASE found.err # "none" /\ ~(found.err = "KeyPathNotFound" /\ keys # <<>>)
  <2>1. AppendValue(d, keys, value) = Refused(found.err)
    BY <1>3 DEF AppendValue, AppendAt
  <2> QED BY <2>1, RefusedIsOrdered
<1> QED BY <1>1, <1>2, <1>3

---------------------------------------------------------------------------
\* Between two calls the document is a text, and the last splice was one of
\* the text the last call was given.
EditInv == /\ document \in Texts /\ given \in Texts
           /\ SplicesInRange

\* A splice in range leaves a text.
LEMMA SplicedText ==
  ASSUME NEW d \in Texts, NEW e, GoodEdit(d, e)
  PROVE  Spliced(d, e) \in Texts
<1>1. Len(d) \in Nat /\ e.from \in Nat /\ e.to \in Nat /\ e.text \in Seq(Bytes)
  BY LenProperties DEF GoodEdit, Texts
<1>2. /\ e.from \in 1 .. Len(d) + 1 /\ e.to \in 1 .. Len(d) + 1
  BY DEF GoodEdit
<1>3. \A i \in 1 .. Len(d) : d[i] \in Bytes
  BY ElementOfSeq DEF Texts
<1>4. SubSeq(d, 1, e.from - 1) \in Seq(Bytes)
  <2> DEFINE n == e.from - 1
  <2>1. n \in Int /\ \A i \in 1 .. n : d[i] \in Bytes
    BY <1>1, <1>2, <1>3
  <2> HIDE DEF n
  <2>2. SubSeq(d, 1, n) \in Seq(Bytes)
    BY <2>1, SubSeqProperties
  <2> QED BY <2>2 DEF n
<1>5. SubSeq(d, e.to, Len(d)) \in Seq(Bytes)
  <2>1. \A i \in e.to .. Len(d) : d[i] \in Bytes
    BY <1>1, <1>2, <1>3
  <2> QED BY <1>1, <2>1, SubSeqProperties
<1>6. \A s, t \in Seq(Bytes) : s \o t \in Seq(Bytes)
  BY ConcatProperties
<1> QED BY <1>1, <1>4, <1>5, <1>6 DEF Spliced, Texts

\* Every call makes a splice in range, and leaves a text behind.
LEMMA CallKeeps ==
  ASSUME EditInv, NEW name, NEW keys \in Seq(Seq(STRING)), NEW value, NEW e,
         Call(name, keys, value, e), GoodEdit(document, e),
         \/ Ordered(document, e)
         \/ name = "Delete" /\ keys # <<>> /\ ~IsIndexForm(keys[Len(keys)])
  PROVE  EditInv'
<1>1. /\ call' = [name |-> name, path |-> keys, value |-> value]
      /\ edit' = e /\ given' = document
      /\ document' = IF e.err = "none" THEN Spliced(document, e) ELSE document
  BY DEF Call
<1>2. document \in Texts
  BY DEF EditInv
<1>3. document' \in Texts
  BY <1>1, <1>2, SplicedText
<1>4. SplicesInRange'
  BY <1>1 DEF SplicesInRange, DeletesMember, Ordered, GoodEdit
<1> QED BY <1>1, <1>2, <1>3, <1>4 DEF EditInv

\* No call has been made.
LEMMA EditInvInit == EditInit => EditInv
<1> SUFFICES ASSUME EditInit PROVE EditInv
  OBVIOUS
<1>1. document \in Texts /\ given \in Texts
  BY StringsAreBytes DEF EditInit, Texts
<1>2. Ordered(given, Refused("none"))
  BY <1>1, RefusedIsOrdered
<1>3. edit = Refused("none")
  BY DEF EditInit
<1> QED BY <1>1, <1>2, <1>3 DEF EditInv, SplicesInRange, Ordered, GoodEdit

\* A call leaves a text and a splice in range.
LEMMA EditInvNext == EditInv /\ [EditNext]_editVars => EditInv'
<1> SUFFICES ASSUME EditInv, [EditNext]_editVars PROVE EditInv'
  OBVIOUS
<1>1. document \in Texts
  BY DEF EditInv
<1>2. Paths \subseteq Seq(Seq(STRING)) /\ Values \subseteq Texts
  BY CallsAssumption, StringsAreBytes DEF Texts
<1>3. CASE SetCall
  <2>1. PICK keys \in Paths, value \in Values :
          Call("Set", keys, value, Set(document, keys, value))
    BY <1>3 DEF SetCall
  <2>2. Ordered(document, Set(document, keys, value))
    BY <1>1, <1>2, SetIsOrdered
  <2>3. GoodEdit(document, Set(document, keys, value))
    BY <2>2 DEF Ordered
  <2> QED BY <1>2, <2>1, <2>2, <2>3, CallKeeps
<1>4. CASE DeleteCall
  <2>1. PICK keys \in Paths : Call("Delete", keys, <<>>, Delete(document, keys))
    BY <1>4 DEF DeleteCall
  <2>2. /\ GoodEdit(document, Delete(document, keys))
        /\ keys = <<>> \/ IsIndexForm(keys[Len(keys)])
             => Ordered(document, Delete(document, keys))
    BY <1>1, <1>2, DeleteIsGood
  <2> QED BY <1>2, <2>1, <2>2, CallKeeps
<1>5. CASE AppendCall
  <2>1. PICK keys \in Paths, value \in Values :
          Call("Append", keys, value, AppendValue(document, keys, value))
    BY <1>5 DEF AppendCall
  <2>2. Ordered(document, AppendValue(document, keys, value))
    BY <1>1, <1>2, AppendIsOrdered
  <2>3. GoodEdit(document, AppendValue(document, keys, value))
    BY <2>2 DEF Ordered
  <2> QED BY <1>2, <2>1, <2>2, <2>3, CallKeeps
<1>6. CASE UNCHANGED editVars
  BY <1>6 DEF editVars, EditInv, SplicesInRange, DeletesMember
<1> QED BY <1>3, <1>4, <1>5, <1>6 DEF EditNext

\* Set, Delete and Append never take a slice out of range, whatever the text
\* they are given and however many calls came before, and what Set, Append and
\* the deletion of an element replace is a window of the text.
THEOREM SplicesAlwaysInRange == EditSpec => []SplicesInRange
<1>1. EditInv => SplicesInRange
  BY DEF EditInv
<1> QED BY <1>1, EditInvInit, EditInvNext, PTL DEF EditSpec

---------------------------------------------------------------------------
\* Two texts that are the same up to p, where a value begins in the second:
\* a text and what Set makes of it.
SameUpTo(d, h, w, g, p) ==
  /\ h \in Nat /\ g \in Nat /\ p \in Nat \ {0} /\ p < h /\ p < g
  /\ \A x \in 1 .. p - 1 : d[x] = w[x]
  /\ w[p] \notin Blank /\ w[p] # "]"

\* What is found before p among the same is found again.
LEMMA FirstStays ==
  ASSUME NEW S \in SUBSET Nat, NEW T \in SUBSET Nat, First(S) # None,
         \A x \in Nat : x =< First(S) => (x \in S <=> x \in T)
  PROVE  First(T) = First(S)
<1>1. S # {}
  BY DEF First
<1>2. First(S) \in S /\ \A r \in S : First(S) =< r
  BY <1>1, FirstIsLeast
<1>3. First(S) \in T
  BY <1>2
<1>4. First(T) \in T /\ \A r \in T : First(T) =< r
  BY <1>3, FirstIsLeast
<1>5. First(T) \in Nat /\ First(S) \in Nat /\ First(T) =< First(S)
  BY <1>2, <1>3, <1>4
<1>6. First(S) =< First(T)
  BY <1>2, <1>4, <1>5
<1> QED BY <1>5, <1>6

\* A token at p, or before it, is found again.
LEMMA NextTokenStays ==
  ASSUME NEW d, NEW h, NEW w, NEW g, NEW p, SameUpTo(d, h, w, g, p),
         NEW i \in Nat \ {0}, NextToken(d, i, h) # None, NextToken(d, i, h) =< p
  PROVE  NextToken(w, i, g) = NextToken(d, i, h)
<1> DEFINE S == {x \in i .. h - 1 : d[x] \notin Blank}
           T == {x \in i .. g - 1 : w[x] \notin Blank}
           q == NextToken(d, i, h)
<1>1. /\ h \in Nat /\ g \in Nat /\ p \in Nat /\ p < h /\ p < g /\ w[p] \notin Blank
      /\ \A x \in 1 .. p - 1 : d[x] = w[x]
  BY DEF SameUpTo
<1>2. q = First(S) /\ NextToken(w, i, g) = First(T) /\ q # None /\ q =< p
  BY DEF NextToken
<1>3. q \in i .. h - 1 /\ d[q] \notin Blank
  BY <1>1, NextTokenRange
<1>4. \A x \in Nat : x =< q => (x \in S <=> x \in T)
  <2>1. ASSUME NEW x \in Nat, x =< q, x < p PROVE x \in S <=> x \in T
    <3>1. x \in i .. h - 1 <=> x \in i .. g - 1
      BY <1>1, <2>1
    <3>2. x \in i .. h - 1 => d[x] = w[x]
      BY <1>1, <2>1
    <3> QED BY <3>1, <3>2
  <2>2. ASSUME NEW x \in Nat, x =< q, x = p PROVE x \in S <=> x \in T
    <3>1. x = q /\ x \in i .. g - 1
      BY <1>1, <1>2, <1>3, <2>2
    <3> QED BY <1>1, <1>3, <2>2, <3>1
  <2>3. \A x \in Nat : x =< q => x < p \/ x = p
    BY <1>1, <1>2, <1>3
  <2> HIDE DEF q, S, T
  <2> QED BY <2>1, <2>2, <2>3
<1>5. S \in SUBSET Nat /\ T \in SUBSET Nat
  OBVIOUS
<1> HIDE DEF q, S, T
<1>6. First(S) # None /\ \A x \in Nat : x =< First(S) => (x \in S <=> x \in T)
  BY <1>2, <1>4
<1>7. First(T) = First(S)
  BY <1>5, <1>6, FirstStays
<1> QED BY <1>2, <1>7 DEF q

\* So is the end of a string that closes before p.
LEMMA StringEndStays ==
  ASSUME NEW d, NEW h, NEW w, NEW g, NEW p, SameUpTo(d, h, w, g, p),
         NEW i \in Nat \ {0}, NEW c, StringEnd(d, i, h, c) # None,
         StringEnd(d, i, h, c) < p
  PROVE  StringEnd(w, i, g, c) = StringEnd(d, i, h, c)
<1> DEFINE S == {x \in i .. h - 1 : d[x] = c /\ EvenRun(d, i, x)}
           T == {x \in i .. g - 1 : w[x] = c /\ EvenRun(w, i, x)}
<1>1. /\ h \in Nat /\ g \in Nat /\ p \in Nat /\ p < h /\ p < g
      /\ \A x \in 1 .. p - 1 : d[x] = w[x]
  BY DEF SameUpTo
<1>2. Extends(w, g, d, p)
  BY <1>1 DEF Extends
<1>3. \A x \in i .. p - 1 : x \in i .. p
  BY <1>1
<1>4. \A x \in i .. p - 1 : EvenRun(d, i, x) = EvenRun(w, i, x)
  BY <1>2, <1>3, EvenRunExtends
<1>5. \A x \in i .. p - 1 : x \in i .. h - 1 /\ x \in i .. g - 1 /\ d[x] = w[x]
  BY <1>1
<1>6. \A x \in i .. p - 1 : x \in S <=> x \in T
  BY <1>4, <1>5
<1>7. \A x \in Nat : x < p => (x \in S <=> x \in T)
  <2>1. \A x \in Nat : x < p => x \in i .. p - 1 \/ (x \notin S /\ x \notin T)
    BY <1>1
  <2> HIDE DEF S, T
  <2> QED BY <2>1, <1>6
<1>8. S \in SUBSET Nat /\ T \in SUBSET Nat
  OBVIOUS
<1>9. StringEnd(d, i, h, c) = First(S) /\ StringEnd(w, i, g, c) = First(T)
  BY DEF StringEnd
<1>10. StringEnd(d, i, h, c) = None \/ StringEnd(d, i, h, c) \in i .. h - 1
  BY <1>1, StringEndRange
<1> HIDE DEF S, T
<1>11. First(S) # None /\ First(S) \in Nat /\ First(S) < p
  BY <1>9, <1>10
<1>12. \A x \in Nat : x =< First(S) => (x \in S <=> x \in T)
  BY <1>1, <1>7, <1>11
<1> QED BY <1>8, <1>9, <1>11, <1>12, FirstStays

\* Of a scalar.
LEMMA TokenEndStays ==
  ASSUME NEW d, NEW h, NEW w, NEW g, NEW p, SameUpTo(d, h, w, g, p),
         NEW i \in Nat \ {0}, TokenEnd(d, i, h) < p
  PROVE  TokenEnd(w, i, g) = TokenEnd(d, i, h)
<1> DEFINE Stops == Blank \cup {",", "}", "]"}
           S == {x \in i .. h - 1 : d[x] \in Stops}
           T == {x \in i .. g - 1 : w[x] \in Stops}
<1>1. /\ h \in Nat /\ g \in Nat /\ p \in Nat /\ p < h /\ p < g
      /\ \A x \in 1 .. p - 1 : d[x] = w[x]
  BY DEF SameUpTo
<1>2. /\ TokenEnd(d, i, h) = IF First(S) = None THEN h ELSE First(S)
      /\ TokenEnd(w, i, g) = IF First(T) = None THEN g ELSE First(T)
  BY DEF TokenEnd
<1>3. \A x \in i .. p - 1 : x \in i .. h - 1 /\ x \in i .. g - 1 /\ d[x] = w[x]
  BY <1>1
<1> HIDE DEF Stops
<1>4. \A x \in i .. p - 1 : x \in S <=> x \in T
  BY <1>3
<1>5. \A x \in Nat : x < p => (x \in S <=> x \in T)
  <2>1. \A x \in Nat : x < p => x \in i .. p - 1 \/ (x \notin S /\ x \notin T)
    BY <1>1
  <2> HIDE DEF S, T
  <2> QED BY <2>1, <1>4
<1>6. S \in SUBSET Nat /\ T \in SUBSET Nat /\ S \in SUBSET (i .. h - 1)
  OBVIOUS
<1> HIDE DEF S, T
<1>7. First(S) = None \/ First(S) \in S
  BY <1>1, <1>6, FirstInRange
<1>8. First(S) # None /\ First(S) \in Nat /\ First(S) < p
  <2>1. First(S) # None
    BY <1>1, <1>2
  <2>2. First(S) \in Nat
    BY <1>6, <1>7, <2>1
  <2> QED BY <1>2, <2>1, <2>2
<1>9. \A x \in Nat : x =< First(S) => (x \in S <=> x \in T)
  BY <1>1, <1>5, <1>8
<1>10. First(T) = First(S)
  BY <1>6, <1>8, <1>9, FirstStays
<1> QED BY <1>2, <1>8, <1>10

\* And of a block.
LEMMA BlockEndStays ==
  ASSUME NEW d, NEW h, NEW w, NEW g, NEW p, SameUpTo(d, h, w, g, p),
         NEW i \in Nat \ {0}, NEW open, NEW close,
         BlockEnd(d, i, h, open, close) # None, BlockEnd(d, i, h, open, close) =< p
  PROVE  BlockEnd(w, i, g, open, close) = BlockEnd(d, i, h, open, close)
<1> DEFINE m == ModesOf(d, i, h)
           n == ModesOf(w, i, g)
           C(symbol, x) == Cardinality({r \in i .. x : d[r] = symbol /\ m[r] = Outside})
           D(symbol, x) == Cardinality({r \in i .. x : w[r] = symbol /\ n[r] = Outside})
           S == {x \in i .. h - 1 : /\ d[x] = close /\ m[x] = Outside
                                    /\ C(open, x) = C(close, x)}
           T == {x \in i .. g - 1 : /\ w[x] = close /\ n[x] = Outside
                                    /\ D(open, x) = D(close, x)}
<1>1. /\ h \in Nat /\ g \in Nat /\ p \in Nat /\ p < h /\ p < g
      /\ \A x \in 1 .. p - 1 : d[x] = w[x]
  BY DEF SameUpTo
<1>2. \A x \in i .. p - 1 : /\ d[x] = w[x] /\ x \in i .. h - 1 /\ x \in i .. g - 1
                            /\ x \in i .. p
                            /\ \A r \in i .. x : r \in i .. p - 1
  BY <1>1
<1>3. Extends(w, g, d, p) /\ Extends(d, h, d, p)
  BY <1>1 DEF Extends
<1>4. \A x \in i .. p - 1 : m[x] = n[x]
  <2>1. \A x \in i .. p : ModesOf(d, i, p)[x] = m[x]
    BY <1>3, ModesExtend
  <2>2. \A x \in i .. p : ModesOf(d, i, p)[x] = n[x]
    BY <1>3, ModesExtend
  <2> HIDE DEF m, n
  <2> QED BY <1>2, <2>1, <2>2
<1>5. /\ BlockEnd(d, i, h, open, close) = IF First(S) = None THEN None ELSE First(S) + 1
      /\ BlockEnd(w, i, g, open, close) = IF First(T) = None THEN None ELSE First(T) + 1
  BY DEF BlockEnd, ModesOf
<1> HIDE DEF m, n
<1>6. ASSUME NEW symbol, NEW x \in i .. p - 1
      PROVE  C(symbol, x) = D(symbol, x)
  <2>1. \A r \in i .. x : d[r] = w[r] /\ m[r] = n[r]
    BY <1>2, <1>4
  <2>2. {r \in i .. x : d[r] = symbol /\ m[r] = Outside}
          = {r \in i .. x : w[r] = symbol /\ n[r] = Outside}
    BY <2>1
  <2> QED BY <2>2
<1>7. S \in SUBSET (i .. h - 1) /\ T \in SUBSET (i .. g - 1)
  OBVIOUS
<1> HIDE DEF C, D
<1>8. \A x \in i .. p - 1 : x \in S <=> x \in T
  BY <1>2, <1>4, <1>6
<1>9. First(S) = None \/ First(S) \in S
  BY <1>1, <1>7, FirstInRange
<1>10. First(S) = None \/ First(S) \in Nat
  BY <1>7, <1>9
<1>11. \A x \in Nat : x < p => (x \in S <=> x \in T)
  <2>1. \A x \in Nat : x < p => x \in i .. p - 1 \/ (x \notin S /\ x \notin T)
    BY <1>1
  <2> HIDE DEF S, T
  <2> QED BY <2>1, <1>8
<1>12. S \in SUBSET Nat /\ T \in SUBSET Nat
  OBVIOUS
<1> HIDE DEF S, T
<1>13. First(S) # None /\ First(S) \in Nat /\ First(S) < p
  BY <1>1, <1>5, <1>10
<1>14. \A x \in Nat : x =< First(S) => (x \in S <=> x \in T)
  BY <1>1, <1>11, <1>13
<1>15. First(T) = First(S)
  BY <1>12, <1>13, <1>14, FirstStays
<1> QED BY <1>5, <1>13, <1>15

\* A value that ends before p is read again.
LEMMA TypeStays ==
  ASSUME NEW d, NEW h, NEW w, NEW g, NEW p, SameUpTo(d, h, w, g, p),
         NEW q \in 1 .. p - 1, GetType(d, q, h).err = "none", GetType(d, q, h).end < p
  PROVE  GetType(w, q, g) = GetType(d, q, h)
<1> DEFINE v == GetType(d, q, h)
<1>1. h \in Nat /\ g \in Nat /\ p \in Nat /\ p < h /\ p < g /\ d[q] = w[q]
  BY DEF SameUpTo
<1>2. q \in Nat \ {0} /\ q + 1 \in Nat \ {0} /\ q < h
  BY <1>1
<1>3. CASE d[q] \in Quotes
  <2> DEFINE a == StringEnd(d, q + 1, h, d[q])
             b == StringEnd(w, q + 1, g, d[q])
  <2>1. v = GetString(q, a) /\ GetType(w, q, g) = GetString(q, b)
    BY <1>1, <1>3 DEF GetType, Quotes, Quote
  <2>2. a = None \/ a \in q + 1 .. h - 1
    BY <1>1, <1>2, StringEndRange
  <2> HIDE DEF a, b
  <2>3. a # None /\ a + 1 < p
    BY <2>1 DEF GetString, Delimited, Failed, Got
  <2>4. a < p
    BY <1>1, <1>2, <2>2, <2>3
  <2>5. b = a
    BY <1>2, <2>3, <2>4, StringEndStays DEF a, b
  <2> QED BY <2>1, <2>5
<1>4. ASSUME NEW open, NEW close, NEW type, NEW err, err # "none",
             v = GetBlock(type, q, BlockEnd(d, q, h, open, close), err)
      PROVE  BlockEnd(w, q, g, open, close) = BlockEnd(d, q, h, open, close)
  <2> DEFINE a == BlockEnd(d, q, h, open, close)
  <2>1. a = None \/ a \in q + 1 .. h
    BY <1>1, <1>2, BlockEndRange
  <2>2. v.err = "none" /\ v.end < p
    OBVIOUS
  <2> HIDE DEF a, v
  <2>3. a # None /\ a < p
    BY <1>4, <2>2 DEF GetBlock, Delimited, Failed, Got, a
  <2>4. a =< p
    BY <1>1, <1>2, <2>1, <2>3
  <2> QED BY <1>2, <2>3, <2>4, BlockEndStays DEF a
<1>5. CASE d[q] \notin Quotes /\ d[q] = "["
  <2>1. /\ v = GetBlock("Array", q, BlockEnd(d, q, h, "[", "]"), "MalformedArray")
        /\ GetType(w, q, g) = GetBlock("Array", q, BlockEnd(w, q, g, "[", "]"),
                                       "MalformedArray")
    BY <1>1, <1>5 DEF GetType
  <2> QED BY <1>4, <2>1
<1>6. CASE d[q] \notin Quotes /\ d[q] # "[" /\ d[q] = "{"
  <2>1. /\ v = GetBlock("Object", q, BlockEnd(d, q, h, "{", "}"), "MalformedObject")
        /\ GetType(w, q, g) = GetBlock("Object", q, BlockEnd(w, q, g, "{", "}"),
                                       "MalformedObject")
    BY <1>1, <1>6 DEF GetType
  <2> QED BY <1>4, <2>1
<1>7. CASE d[q] \notin Quotes /\ d[q] \notin {"[", "{"}
  <2> DEFINE a == TokenEnd(d, q, h)
             b == TokenEnd(w, q, g)
  <2>1. v = GetScalar(d, q, a) /\ GetType(w, q, g) = GetScalar(w, q, b)
    BY <1>1, <1>7 DEF GetType
  <2>2. a < p
    BY <2>1 DEF GetScalar, Failed, Got
  <2>3. b = a
    BY <1>2, <2>2, TokenEndStays
  <2>4. a \in q .. h
    BY <1>1, <1>2, TokenEndRange
  <2>5. Text(d, q, a) = Text(w, q, a)
    <3> HIDE DEF a
    <3>1. a \in Int /\ q \in Int /\ \A x \in q .. a - 1 : x \in 1 .. p - 1
      BY <1>1, <1>2, <2>2, <2>4
    <3>2. \A x \in q .. a - 1 : d[x] = w[x]
      BY <3>1 DEF SameUpTo
    <3> QED BY <3>1, <3>2, TextsAgree
  <2> QED BY <2>1, <2>3, <2>5 DEF GetScalar
<1> QED BY <1>3, <1>5, <1>6, <1>7

\* The same of the value closest to i.
LEMMA ValueStays ==
  ASSUME NEW d, NEW h, NEW w, NEW g, NEW p, SameUpTo(d, h, w, g, p),
         NEW i \in Nat \ {0}, ClosestValue(d, i, h).err = "none",
         ClosestValue(d, i, h).end < p
  PROVE  ClosestValue(w, i, g) = ClosestValue(d, i, h)
<1> DEFINE q == NextToken(d, i, h)
           v == ClosestValue(d, i, h)
<1>1. h \in Nat /\ g \in Nat /\ p \in Nat /\ p < h /\ p < g
  BY DEF SameUpTo
<1>2. q # None /\ v = GetType(d, q, h)
  BY DEF ClosestValue, Failed
<1>3. q \in i .. h - 1 /\ ReadInWindow(v, q, h)
  BY <1>1, ClosestValueRange DEF Failed
<1>4. v.err = "none" /\ v.end < p
  OBVIOUS
<1> HIDE DEF v
<1>5. v.end \in q + 1 .. h
  BY <1>3, <1>4 DEF ReadInWindow
<1>6. q \in 1 .. p - 1 /\ q =< p
  <2> HIDE DEF q
  <2> QED BY <1>1, <1>3, <1>4, <1>5
<1>7. NextToken(w, i, g) = q
  BY <1>2, <1>6, NextTokenStays
<1>8. GetType(w, q, g) = GetType(d, q, h)
  <2> HIDE DEF q
  <2> QED BY <1>2, <1>4, <1>6, TypeStays
<1> QED BY <1>2, <1>7, <1>8 DEF ClosestValue, v

\* Where the next element starts, behind a comma before p.
LEMMA NextStartStays ==
  ASSUME NEW d, NEW h, NEW w, NEW g, NEW p, SameUpTo(d, h, w, g, p),
         NEW i \in Nat \ {0}, NextStart(d, ClosestValue(d, i, h), h) # None,
         NextStart(d, ClosestValue(d, i, h), h) =< p
  PROVE  NextStart(w, ClosestValue(w, i, g), g) = NextStart(d, ClosestValue(d, i, h), h)
<1> DEFINE v == ClosestValue(d, i, h)
           a == NextToken(d, v.end, h)
           n == NextStart(d, v, h)
<1>1. /\ h \in Nat /\ g \in Nat /\ p \in Nat /\ p < h /\ p < g
      /\ \A x \in 1 .. p - 1 : d[x] = w[x]
  BY DEF SameUpTo
<1>2. n = IF v.err = "none" /\ a # None /\ d[a] = "," THEN a + 1 ELSE None
  BY DEF NextStart
<1>3. n # None /\ n =< p
  OBVIOUS
<1>4. v.err = "none" /\ a # None /\ d[a] = "," /\ n = a + 1
  <2> HIDE DEF n, v, a
  <2> QED BY <1>2, <1>3
<1>5. v.end \in Nat \ {0}
  BY <1>1, <1>4, ValueEndsInNat
<1>6. a \in v.end .. h - 1
  BY <1>1, <1>4, <1>5, NextTokenFound
<1>7. v.end < p /\ a =< p /\ a \in 1 .. p - 1
  <2> DEFINE e == v.end
  <2>1. e \in Nat \ {0} /\ a \in e .. h - 1 /\ n = a + 1 /\ n =< p
    BY <1>3, <1>4, <1>5, <1>6
  <2> HIDE DEF n, v, a, e
  <2>2. e < p /\ a =< p /\ a \in 1 .. p - 1
    BY <1>1, <2>1
  <2> QED BY <2>2 DEF e
<1>8. ClosestValue(w, i, g) = v
  <2>1. ClosestValue(d, i, h).err = "none" /\ ClosestValue(d, i, h).end < p
    BY <1>4, <1>7
  <2> QED BY <2>1, ValueStays
<1>9. NextToken(w, v.end, g) = a
  <2>1. NextToken(d, v.end, h) # None /\ NextToken(d, v.end, h) =< p
    BY <1>4, <1>7
  <2> HIDE DEF v
  <2> QED BY <1>5, <2>1, NextTokenStays
<1>10. w[a] = ","
  <2> HIDE DEF a
  <2> QED BY <1>1, <1>4, <1>7
<1>11. NextStart(w, v, g) = a + 1
  <2> HIDE DEF v, a
  <2> QED BY <1>4, <1>9, <1>10 DEF NextStart
<1> QED BY <1>4, <1>8, <1>11

\* The elements that start up to p start there again.
LEMMA ElementStartsStay ==
  ASSUME NEW d, NEW h, NEW w, NEW g, NEW p, SameUpTo(d, h, w, g, p), NEW a \in Nat \ {0}
  PROVE  \A k \in Nat :
           ElementStarts(d, a, h)[k] # None /\ ElementStarts(d, a, h)[k] =< p
             => ElementStarts(w, a, g)[k] = ElementStarts(d, a, h)[k]
<1> DEFINE start == ElementStarts(d, a, h)
           later == ElementStarts(w, a, g)
           T == {k \in Nat : start[k] # None /\ start[k] =< p => later[k] = start[k]}
<1>1. /\ h \in Nat /\ g \in Nat /\ p \in Nat /\ p < h /\ p < g
      /\ \A x \in 1 .. p - 1 : d[x] = w[x]
      /\ w[p] # "]"
  BY DEF SameUpTo
<1>2. /\ start \in [Nat -> Nat]
      /\ \A k \in Nat :
           start[k] = IF k = 0 THEN FirstStart(d, a, h)
                      ELSE IF start[k - 1] = None THEN None
                      ELSE NextStart(d, ClosestValue(d, start[k - 1], h), h)
  BY <1>1, ElementStartsUnfold
<1>3. /\ later \in [Nat -> Nat]
      /\ \A k \in Nat :
           later[k] = IF k = 0 THEN FirstStart(w, a, g)
                      ELSE IF later[k - 1] = None THEN None
                      ELSE NextStart(w, ClosestValue(w, later[k - 1], g), g)
  BY <1>1, ElementStartsUnfold
<1> HIDE DEF start, later
<1>4. 0 \in T
  <2> SUFFICES ASSUME start[0] # None, start[0] =< p PROVE later[0] = start[0]
    OBVIOUS
  <2> DEFINE x == NextToken(d, a + 1, h)
             y == NextToken(w, a + 1, g)
  <2>1. a + 1 \in Nat \ {0}
    OBVIOUS
  <2>2. /\ start[0] = IF x = None \/ d[x] = "]" THEN None ELSE x
        /\ later[0] = IF y = None \/ w[y] = "]" THEN None ELSE y
    BY <1>2, <1>3 DEF FirstStart
  <2>3. x # None /\ d[x] # "]" /\ x =< p /\ start[0] = x
    <3> HIDE DEF x, y
    <3> QED BY <2>2
  <2>4. x \in a + 1 .. h - 1
    BY <1>1, <2>1, <2>3, NextTokenFound
  <2>5. y = x
    BY <2>1, <2>3, NextTokenStays
  <2> HIDE DEF x, y
  <2>6. x = p \/ x \in 1 .. p - 1
    BY <1>1, <2>1, <2>3, <2>4
  <2>7. w[x] # "]"
    BY <1>1, <2>3, <2>6
  <2> QED BY <2>2, <2>3, <2>5, <2>7
<1>5. ASSUME NEW k \in Nat, k \in T PROVE k + 1 \in T
  <2> SUFFICES ASSUME start[k + 1] # None, start[k + 1] =< p
               PROVE  later[k + 1] = start[k + 1]
    OBVIOUS
  <2>1. /\ (k + 1) - 1 = k /\ k + 1 # 0 /\ k + 1 \in Nat
        /\ start[k + 1] = IF start[k] = None THEN None
                          ELSE NextStart(d, ClosestValue(d, start[k], h), h)
        /\ later[k + 1] = IF later[k] = None THEN None
                          ELSE NextStart(w, ClosestValue(w, later[k], g), g)
    BY <1>2, <1>3
  <2> DEFINE b == start[k]
             n == NextStart(d, ClosestValue(d, b, h), h)
  <2>2. b # None /\ b \in Nat \ {0} /\ n = start[k + 1]
    BY <1>2, <2>1 DEF None
  <2>3. n # None /\ n =< p
    BY <2>2
  <2>4. n = None \/ (n \in Nat /\ n >= b + 2)
    <3> HIDE DEF b
    <3> QED BY <1>1, <2>2, NextStartRange
  <2>5. b =< p
    <3> HIDE DEF b, n
    <3> QED BY <1>1, <2>2, <2>3, <2>4
  <2>6. later[k] = b
    BY <1>5, <2>2, <2>5
  <2>7. NextStart(w, ClosestValue(w, b, g), g) = n
    <3> HIDE DEF b
    <3> QED BY <2>2, <2>3, NextStartStays
  <2> HIDE DEF b, n
  <2> QED BY <2>1, <2>2, <2>6, <2>7
<1>6. Nat \subseteq T
  <2> HIDE DEF T
  <2> QED BY <1>4, <1>5, NatSetInduction
<1> QED BY <1>6 DEF start, later

\* What is kept of an element that is read is where it stands.
LEMMA ElementWindowOf ==
  ASSUME NEW v, NEW q \in Nat, NEW h \in Nat, v.err = "none", ReadInWindow(v, q, h)
  PROVE  ElementWindow(v) = <<q, v.end>> /\ v.end \in Nat /\ v.end > q
<1>1. CASE v.type = "String"
  <2>1. v.end \in q + 2 .. h /\ v.window = <<q + 1, v.end - 1>>
    BY <1>1 DEF ReadInWindow
  <2>2. v.end \in Nat /\ v.end > q /\ v.end - ((v.end - 1) - (q + 1)) - 2 = q
    BY <2>1
  <2>3. ElementWindow(v) = <<v.end - ((v.end - 1) - (q + 1)) - 2, v.end>>
    BY <1>1, <2>1 DEF ElementWindow
  <2> QED BY <2>2, <2>3
<1>2. CASE v.type # "String"
  <2>1. v.end \in q + 1 .. h /\ v.window = <<q, v.end>>
    BY <1>2 DEF ReadInWindow
  <2>2. v.end \in Nat /\ v.end > q
    BY <2>1
  <2>3. ElementWindow(v) = <<q, v.end>>
    BY <1>2, <2>1 DEF ElementWindow
  <2> QED BY <2>2, <2>3
<1> QED BY <1>1, <1>2

\* The element an index component asks for is the first, or behind a comma.
LEMMA WantedBehindComma ==
  ASSUME NEW d, NEW a \in Nat \ {0}, NEW h \in Nat, NEW n,
         ElementStart(d, a, h, n) # None
  PROVE  \/ NextToken(d, ElementStart(d, a, h, n), h) = ElementStart(d, a, h, n)
         \/ BehindComma(d, ElementStart(d, a, h, n))
BY StartsBehindComma DEF ElementStart, BehindComma

\* The element that begins at p, when its value is another.
LEMMA ElementStays ==
  ASSUME NEW d, NEW h, NEW w, NEW g, NEW p, SameUpTo(d, h, w, g, p),
         NEW a \in Nat \ {0}, NEW n, NEW o \in Nat \ {0},
         o = ElementFrom(d, ElementStart(d, a, h, n), h)[1],
         NextToken(d, o, h) = p, ClosestValue(d, o, h).err = "none",
         GetType(w, p, g).err = "none"
  PROVE  \E r \in Nat : ElementFrom(w, ElementStart(w, a, g, n), g) = <<p, r>>
<1> DEFINE s == ElementStart(d, a, h, n)
           v == ClosestValue(d, s, h)
           q == NextToken(d, s, h)
           u == ClosestValue(w, s, g)
<1>1. /\ h \in Nat /\ g \in Nat /\ p \in Nat \ {0} /\ p < h /\ p < g
      /\ w[p] \notin Blank
  BY DEF SameUpTo
<1>2. s # None
  <2>1. s = None => ElementFrom(d, s, h)[1] = 0
    BY DEF ElementFrom, NoWindow
  <2> QED BY <2>1
<1>3. n \in Nat /\ s = ElementStarts(d, a, h)[n]
  BY <1>2 DEF ElementStart
<1>4. InArray(d, s, a, h)
  BY <1>1, <1>2, ElementStartOf
<1>5. s \in Nat \ {0} /\ s =< h /\ a + 1 =< s /\ (s >= a + 3 \/ (s < h /\ d[s] \notin Blank))
  <2> HIDE DEF s
  <2>1. s \in a + 1 .. h /\ (s >= a + 3 \/ (s < h /\ d[s] \notin Blank))
    BY <1>4 DEF InArray
  <2>2. s \in Nat \ {0} /\ s =< h /\ a + 1 =< s
    BY <1>1, <2>1
  <2> QED BY <2>1, <2>2
<1>6. o = Kept(v, s)[1]
  BY <1>2 DEF ElementFrom
<1>7. v.end # s /\ o = ElementWindow(v)[1]
  <2>1. v.end = s => Kept(v, s)[1] = 0
    BY DEF Kept, NoWindow
  <2>2. v.end # s => Kept(v, s) = ElementWindow(v)
    BY DEF Kept
  <2> HIDE DEF v, s
  <2> QED BY <1>6, <2>1, <2>2
<1>8. \/ v = Failed("NotExist", None, "MalformedJson")
      \/ q \in s .. h - 1 /\ ReadInWindow(v, q, h)
  <2> HIDE DEF s
  <2> QED BY <1>1, <1>5, ClosestValueRange
<1>9. CASE v.err = "none"
  <2>1. q \in s .. h - 1 /\ ReadInWindow(v, q, h)
    <3> HIDE DEF v, q
    <3> QED BY <1>8, <1>9 DEF Failed
  <2>2. q \in Nat \ {0} /\ q < h /\ s =< q
    <3> HIDE DEF v, q, s
    <3> QED BY <1>1, <1>5, <2>1
  <2>3. ElementWindow(v) = <<q, v.end>>
    <3> HIDE DEF v, q
    <3> QED BY <1>1, <1>9, <2>1, <2>2, ElementWindowOf
  <2>4. o = q
    BY <1>7, <2>3
  <2>5. p = q
    <3>1. d[q] \notin Blank
      <4> HIDE DEF s
      <4> QED BY <1>1, <1>5, <2>2, NextTokenFound DEF None
    <3>2. NextToken(d, q, h) = q
      <4> HIDE DEF q
      <4> QED BY <1>1, <2>2, <3>1, NextTokenRange
    <3> QED BY <2>4, <3>2
  <2>6. ElementStart(w, a, g, n) = s
    <3>1. s =< p
      BY <2>2, <2>5
    <3>2. ElementStarts(w, a, g)[n] = s
      BY <1>2, <1>3, <3>1, ElementStartsStay
    <3> QED BY <1>3, <3>2 DEF ElementStart
  <2>7. NextToken(w, s, g) = p
    <3>1. NextToken(d, s, h) # None /\ NextToken(d, s, h) =< p
      <4> HIDE DEF s
      <4> QED BY <1>1, <2>2, <2>5 DEF None
    <3>2. NextToken(w, s, g) = q
      <4> HIDE DEF s
      <4> QED BY <1>5, <3>1, NextTokenStays
    <3> QED BY <2>5, <3>2
  <2>8. u = GetType(w, p, g)
    BY <1>1, <2>7 DEF ClosestValue, None
  <2>9. ElementWindow(u) = <<p, u.end>> /\ u.end \in Nat /\ u.end > p
    <3>1. ReadInWindow(u, p, g)
      <4> HIDE DEF u
      <4> QED BY <1>1, <2>8, GetTypeRange
    <3>2. u.err = "none"
      BY <2>8
    <3> HIDE DEF u
    <3> QED BY <1>1, <3>1, <3>2, ElementWindowOf
  <2>10. u.end # s
    <3> HIDE DEF u, s, q
    <3> QED BY <1>1, <1>5, <2>2, <2>5, <2>9
  <2>11. ElementFrom(w, s, g) = <<p, u.end>>
    BY <1>2, <2>9, <2>10 DEF ElementFrom, Kept
  <2> QED BY <2>6, <2>9, <2>11
<1>10. CASE v.err # "none"
  <2>1. v.type = "String"
    <3>1. v.type # "String" => ElementWindow(v) = NoWindow
      BY <1>10 DEF ElementWindow
    <3>2. NoWindow[1] = 0
      BY DEF NoWindow
    <3> HIDE DEF v
    <3> QED BY <1>7, <3>1, <3>2
  <2>2. q \in s .. h - 1 /\ v.end = q
    <3> HIDE DEF v, q
    <3>1. q \in s .. h - 1 /\ ReadInWindow(v, q, h)
      BY <1>8, <2>1 DEF Failed
    <3> QED BY <1>10, <3>1 DEF ReadInWindow
  <2>3. BehindComma(d, s)
    <3>1. NextToken(d, s, h) # s
      BY <1>7, <2>2
    <3>2. s # None => NextToken(d, s, h) = s \/ BehindComma(d, s)
      BY <1>1, WantedBehindComma
    <3> QED BY <1>2, <3>1, <3>2
  <2>4. s >= a + 3
    <3>1. s < h /\ d[s] \notin Blank => NextToken(d, s, h) = s
      <4> HIDE DEF s
      <4> QED BY <1>1, <1>5, NextTokenRange
    <3>2. NextToken(d, s, h) # s
      BY <1>7, <2>2
    <3> HIDE DEF s
    <3> QED BY <1>5, <3>1, <3>2
  <2>5. PlainWindow(d, ElementWindow(v), h)
    <3> HIDE DEF s
    <3> QED BY <1>1, <1>5, <1>7, <1>10, <2>1, <2>3, <2>4, UnterminatedIsPlain
  <2>6. ClosestValue(d, o, h).err # "none"
    <3> HIDE DEF v
    <3> QED BY <1>7, <2>5 DEF PlainWindow
  <2> QED BY <2>6
<1> QED BY <1>9, <1>10

---------------------------------------------------------------------------
\* A scan that finds anything is further on than i.
Further(d, x, i) == x.i > i \/ FoundFrom(d)[x] = None

\* An answer of None finds nothing.
LEMMA NoAnswerIsFurther ==
  ASSUME NEW d, NEW i
  PROVE  Further(d, Answered(None), i)
BY FoundAnswered DEF Further, None

\* A string, or a key, is left behind.
LEMMA StepStringMovesOn ==
  ASSUME NEW d, NEW s \in Scans, s.i \in 1 .. s.hi - 1
  PROVE  Further(d, StepString(d, s), s.i)
<1> DEFINE i == s.i
           close == StringEnd(d, i + 1, s.hi, d[i])
           after == NextToken(d, close + 1, s.hi)
           text == Unescape(Text(d, i + 1, close))
           x == StepString(d, s)
<1>1. i \in Nat \ {0} /\ s.hi \in Nat /\ i + 1 \in Nat \ {0} /\ s.level \in Int
  BY DEF Scans
<1>2. x = IF close = None \/ after = None THEN Answered(None)
          ELSE IF d[after] # ":" THEN [s EXCEPT !.i = after]
          ELSE StepKey(s, text, after)
  BY DEF StepString
<1>3. close = None \/ close \in i + 1 .. s.hi - 1
  <2> HIDE DEF i
  <2> QED BY <1>1, StringEndRange
<1> SUFFICES Further(d, x, i)
  OBVIOUS
<1>4. CASE close = None \/ after = None
  BY <1>2, <1>4, NoAnswerIsFurther
<1>5. CASE close # None /\ after # None
  <2>1. close \in Nat /\ close + 1 \in Nat \ {0} /\ close > i
    <3> HIDE DEF i, close
    <3> QED BY <1>1, <1>3, <1>5
  <2>2. after \in close + 1 .. s.hi - 1
    <3> HIDE DEF close
    <3> QED BY <1>1, <1>5, <2>1, NextTokenFound
  <2>3. after \in Nat /\ after > i /\ after + 1 > i
    <3> HIDE DEF i, close, after
    <3> QED BY <1>1, <2>1, <2>2
  <2>4. [s EXCEPT !.i = after].i = after
    BY DEF Scans
  <2>5. StepKey(s, text, after) = Answered(None) \/ StepKey(s, text, after).i = after + 1
    BY DEF StepKey, Scans, Answered, StartScan
  <2> HIDE DEF i, close, after, text, x
  <2>6. x = Answered(None) \/ x.i = after \/ x.i = after + 1
    BY <1>2, <1>5, <2>4, <2>5
  <2> QED BY <2>3, <2>6, NoAnswerIsFurther DEF Further
<1> QED BY <1>4, <1>5

\* Every step of the scan leads further on, or nowhere.
LEMMA StepMovesOn ==
  ASSUME NEW d, NEW s \in Scans, s.keys # <<>>
  PROVE  Further(d, StepScan(d, s), s.i)
<1> DEFINE c == d[s.i]
<1>1. /\ s.keys \in Seq(Seq(STRING)) /\ s.i \in Nat /\ s.hi \in Nat
      /\ s.level \in Int /\ s.keyLevel \in Int /\ Len(s.keys) \in Nat
  BY LenProperties DEF Scans
<1>2. CASE s.i \notin 1 .. s.hi - 1
  BY <1>2, NoAnswerIsFurther DEF StepScan
<1>3. CASE s.i \in 1 .. s.hi - 1
  <2>1. s.i \in Nat \ {0} /\ s.i + 1 > s.i
    BY <1>1, <1>3
  <2>2. ASSUME NEW open, NEW close
        PROVE  Further(d, StepOver(s, BlockEnd(d, s.i, s.hi, open, close)), s.i)
    <3> DEFINE end == BlockEnd(d, s.i, s.hi, open, close)
    <3>1. end = None \/ end \in s.i + 1 .. s.hi
      BY <1>1, BlockEndRange
    <3> HIDE DEF end
    <3>2. end = None \/ end > s.i
      BY <1>1, <3>1
    <3>3. StepOver(s, end) = Answered(None) \/ (end # None /\ StepOver(s, end).i = end)
      BY DEF StepOver, Scans
    <3>4. Further(d, StepOver(s, end), s.i)
      BY <3>2, <3>3, NoAnswerIsFurther DEF Further
    <3> QED BY <3>4 DEF end
  <2>3. CASE c \in Quotes
    <3>1. StepScan(d, s) = StepString(d, s)
      BY <1>3, <2>3 DEF StepScan, Quotes, Quote
    <3> QED BY <3>1, <1>3, StepStringMovesOn
  <2>4. CASE c \notin Quotes /\ c = "{"
    <3>1. StepScan(d, s) = StepBrace(d, s)
      BY <1>3, <2>4 DEF StepScan
    <3>2. CASE s.lastMatched
      <4>1. StepBrace(d, s).i = s.i + 1
        BY <1>1, <3>2 DEF StepBrace, Scans
      <4> QED BY <2>1, <3>1, <4>1 DEF Further
    <3>3. CASE ~s.lastMatched
      BY <2>2, <3>1, <3>3 DEF StepBrace
    <3> QED BY <3>2, <3>3
  <2>5. CASE c \notin Quotes /\ c = "}"
    <3>1. StepScan(d, s).i = s.i + 1
      BY <1>1, <1>3, <2>5 DEF StepScan, Scans
    <3> QED BY <2>1, <3>1 DEF Further
  <2>6. CASE c \notin Quotes /\ c = "["
    <3> DEFINE e == ElementFrom(d, ElementStart(d, s.i, s.hi, Index(s.keys[s.level + 1])), s.hi)
               rest == SubSeq(s.keys, s.level + 2, Len(s.keys))
    <3>1. StepScan(d, s) = StepArray(d, s)
      BY <1>3, <2>6 DEF StepScan
    <3>2. \/ StepArray(d, s) = StepOver(s, BlockEnd(d, s.i, s.hi, "[", "]"))
          \/ StepArray(d, s) = Answered(None)
          \/ /\ s.level + 1 \in 1 .. Len(s.keys)
             /\ StepArray(d, s) = StartScan(rest, e)
      BY DEF StepArray
    <3>3. ASSUME s.level + 1 \in 1 .. Len(s.keys)
          PROVE  Further(d, StartScan(rest, e), s.i)
      <4>1. rest \in Seq(Seq(STRING))
        <5> DEFINE V == Seq(STRING)
                   a == s.level + 2
        <5>1. s.keys \in Seq(V) /\ Len(s.keys) \in Nat /\ a \in 1 .. Len(s.keys) + 1
          BY <1>1, <3>3
        <5> HIDE DEF V, a
        <5>2. SubSeq(s.keys, a, Len(s.keys)) \in Seq(V)
          BY <5>1, SubSeqProperties
        <5> QED BY <5>2 DEF V, a
      <4>2. e = NoWindow \/ WindowIn(e, s.i + 1, s.hi)
        <5> DEFINE n == Index(s.keys[s.level + 1])
        <5> HIDE DEF n
        <5> QED BY <1>1, <2>1, ElementStartOf, ElementFromRange DEF n
      <4> HIDE DEF e, rest
      <4>3. CASE e = NoWindow
        BY <4>1, <4>3, FoundNowhere DEF Further
      <4>4. CASE WindowIn(e, s.i + 1, s.hi)
        <5>1. StartScan(rest, e).i = e[1]
          BY DEF StartScan
        <5>2. e[1] > s.i
          BY <1>1, <4>4 DEF WindowIn
        <5> QED BY <5>1, <5>2 DEF Further
      <4> QED BY <4>2, <4>3, <4>4
    <3> QED BY <2>2, <3>1, <3>2, <3>3, NoAnswerIsFurther
  <2>7. CASE c \notin Quotes /\ c \notin {"{", "}", "["}
    <3>1. StepScan(d, s) = Answered(None) \/ StepScan(d, s).i = s.i + 1
      BY <1>1, <1>3, <2>7 DEF StepScan, Scans
    <3> QED BY <2>1, <3>1, NoAnswerIsFurther DEF Further
  <2> QED BY <2>3, <2>4, <2>5, <2>6, <2>7
<1> QED BY <1>2, <1>3

\* What a scan finds is not behind it, and ahead of it while components are left.
LEMMA FoundBehind ==
  ASSUME NEW d
  PROVE  \A s \in Scans : FoundFrom(d)[s] # None =>
           /\ FoundFrom(d)[s] >= s.i
           /\ s.keys # <<>> => FoundFrom(d)[s] > s.i
<1> DEFINE o(s) == FoundFrom(d)[s]
           T == {s \in Scans : o(s) # None => o(s) >= s.i /\ (s.keys # <<>> => o(s) > s.i)}
           rank == [s \in Scans |-> Left(s)]
<1>1. rank \in [Scans -> Nat]
  BY DEF Left, Scans
<1>2. ASSUME NEW s \in Scans, \A t \in Scans : rank[t] < rank[s] => t \in T
      PROVE  s \in T
  <2>1. FoundFrom(d)[s] = IF s.keys = <<>> THEN s.i
                          ELSE FoundFrom(d)[StepScan(d, s)]
    BY FoundFromUnfold
  <2>2. CASE s.keys = <<>>
    BY <2>1, <2>2 DEF Scans
  <2>3. CASE s.keys # <<>>
    <3> DEFINE x == StepScan(d, s)
    <3>1. x \in Scans /\ rank[x] < rank[s]
      BY <2>3, StepDescends DEF Nearer
    <3>2. x \in T
      BY <1>2, <3>1
    <3>3. Further(d, x, s.i)
      BY <2>3, StepMovesOn
    <3>4. x.i \in Nat /\ s.i \in Nat /\ o(x) \in Nat /\ o(s) = o(x)
      BY <2>1, <2>3, <3>1, FoundRange DEF Scans
    <3>5. o(x) # None => x.i > s.i /\ o(x) >= x.i
      BY <3>2, <3>3 DEF Further
    <3> HIDE DEF o, x
    <3>6. o(s) # None => o(s) >= s.i /\ o(s) > s.i
      BY <3>4, <3>5
    <3> QED BY <3>6
  <2> QED BY <2>2, <2>3
<1>3. Scans \subseteq T
  <2> HIDE DEF T, rank
  <2> QED BY <1>1, <1>2, RankInduction
<1> QED BY <1>3

---------------------------------------------------------------------------
\* The scan s of d finds a value that is read, and it begins at p.
Leads(d, s, h, p) ==
  /\ s \in Scans /\ FoundFrom(d)[s] # None
  /\ NextToken(d, FoundFrom(d)[s], h) = p
  /\ ClosestValue(d, FoundFrom(d)[s], h).err = "none"

\* Where the step of a scan of the one text leads, that of the other leads.
StaysOn(s, x, y, h, g, p) ==
  \/ \E q \in Nat : x = Answered(q) /\ y = x
  \/ Wider(x, y, h, g) /\ x.keys = s.keys
  \/ \E r \in Nat : y = StartScan(<<>>, <<p, r>>)

\* Such a scan is before p while there are components left.
LEMMA LeadsAhead ==
  ASSUME NEW d, NEW s, NEW h \in Nat, NEW p \in Nat \ {0}, Leads(d, s, h, p)
  PROVE  /\ s.i =< p /\ FoundFrom(d)[s] \in Nat \ {0} /\ FoundFrom(d)[s] =< p
         /\ s.keys # <<>> => s.i < p
<1> DEFINE o == FoundFrom(d)[s]
<1>1. s \in Scans /\ o # None /\ NextToken(d, o, h) = p /\ s.i \in Nat
  BY DEF Leads, Scans
<1>2. o \in Nat /\ o >= s.i /\ (s.keys # <<>> => o > s.i)
  BY <1>1, FoundRange, FoundBehind
<1>3. o \in Nat \ {0}
  BY <1>1, <1>2 DEF None
<1> HIDE DEF o
<1>4. p \in o .. h - 1
  BY <1>1, <1>3, NextTokenFound DEF None
<1>5. o =< p
  BY <1>3, <1>4
<1>6. s.i =< p /\ o \in Nat \ {0} /\ o =< p /\ (s.keys # <<>> => s.i < p)
  BY <1>1, <1>2, <1>3, <1>5
<1> QED BY <1>6 DEF o

\* An answer of None leads nowhere.
LEMMA NoAnswerLeads ==
  ASSUME NEW d, NEW h, NEW p
  PROVE  ~Leads(d, Answered(None), h, p)
BY FoundAnswered DEF Leads, None

\* A key.
LEMMA StepKeyStays ==
  ASSUME NEW h, NEW g, NEW p, NEW s, NEW t, Wider(s, t, h, g), NEW text, NEW after \in Nat
  PROVE  StaysOn(s, StepKey(s, text, after), StepKey(t, text, after), h, g, p)
<1> DEFINE isNext == s.keyLevel = s.level - 1
           usable == s.level >= 1 /\ s.level =< Len(s.keys) /\ text # BadText
           q == after + 1
<1>p. q \in Nat
  OBVIOUS
<1>1. /\ s \in Scans /\ t \in Scans
      /\ t.keys = s.keys /\ t.level = s.level /\ t.keyLevel = s.keyLevel
  BY DEF Wider
<1>2. CASE ~usable
  <2>1. StepKey(s, text, after) = Answered(None) /\ StepKey(t, text, after) = Answered(None)
    BY <1>1, <1>2 DEF StepKey
  <2> QED BY <2>1 DEF StaysOn, None
<1>3. CASE usable /\ text # s.keys[s.level]
  <2>1. /\ StepKey(s, text, after) = [s EXCEPT !.i = q, !.lastMatched = FALSE]
        /\ StepKey(t, text, after) = [t EXCEPT !.i = q, !.lastMatched = FALSE]
    BY <1>1, <1>3 DEF StepKey
  <2> HIDE DEF q
  <2>2. /\ Wider([s EXCEPT !.i = q, !.lastMatched = FALSE],
                 [t EXCEPT !.i = q, !.lastMatched = FALSE], h, g)
        /\ [s EXCEPT !.i = q, !.lastMatched = FALSE].keys = s.keys
    BY <1>p DEF Wider, Scans
  <2> QED BY <2>1, <2>2 DEF StaysOn
<1>4. CASE usable /\ text = s.keys[s.level] /\ isNext /\ s.level = Len(s.keys)
  <2>1. /\ StepKey(s, text, after) = Answered(after + 1)
        /\ StepKey(t, text, after) = Answered(after + 1)
    BY <1>1, <1>4 DEF StepKey
  <2>2. after + 1 \in Nat
    OBVIOUS
  <2> QED BY <2>1, <2>2 DEF StaysOn
<1>5. CASE usable /\ text = s.keys[s.level] /\ ~(isNext /\ s.level = Len(s.keys))
  <2> DEFINE k == IF isNext THEN s.level ELSE s.keyLevel
  <2>1. /\ StepKey(s, text, after) = [s EXCEPT !.i = q, !.lastMatched = TRUE,
                                               !.keyLevel = k]
        /\ StepKey(t, text, after) = [t EXCEPT !.i = q, !.lastMatched = TRUE,
                                               !.keyLevel = k]
    BY <1>1, <1>5 DEF StepKey
  <2>2. k \in Int
    BY <1>1 DEF Scans
  <2> HIDE DEF k, q
  <2>3. /\ Wider([s EXCEPT !.i = q, !.lastMatched = TRUE, !.keyLevel = k],
                 [t EXCEPT !.i = q, !.lastMatched = TRUE, !.keyLevel = k], h, g)
        /\ [s EXCEPT !.i = q, !.lastMatched = TRUE, !.keyLevel = k].keys = s.keys
    BY <1>p, <2>2 DEF Wider, Scans
  <2> QED BY <2>1, <2>3 DEF StaysOn
<1> QED BY <1>2, <1>3, <1>4, <1>5

\* A string.
LEMMA StepStringStays ==
  ASSUME NEW d, NEW h, NEW w, NEW g, NEW p, SameUpTo(d, h, w, g, p),
         NEW s, NEW t, Wider(s, t, h, g), s.keys # <<>>, s.i \in 1 .. p - 1,
         Leads(d, StepString(d, s), h, p)
  PROVE  StaysOn(s, StepString(d, s), StepString(w, t), h, g, p)
<1> DEFINE i == s.i
           a == StringEnd(d, i + 1, h, d[i])
           x == NextToken(d, a + 1, h)
           z == StepString(d, s)
           text == Unescape(Text(d, i + 1, a))
<1>1. /\ h \in Nat /\ g \in Nat /\ p \in Nat \ {0} /\ p < h /\ p < g
      /\ \A r \in 1 .. p - 1 : d[r] = w[r]
  BY DEF SameUpTo
<1>2. i \in 1 .. p - 1 /\ i \in Nat \ {0} /\ i + 1 \in Nat \ {0} /\ t.i = i /\ s.hi = h /\ t.hi = g
  BY <1>1 DEF Wider
<1>3. d[i] = w[i]
  BY <1>1, <1>2
<1>4. z = IF a = None \/ x = None THEN Answered(None)
          ELSE IF d[x] # ":" THEN [s EXCEPT !.i = x]
          ELSE StepKey(s, text, x)
  BY <1>2 DEF StepString
<1>5. a # None /\ x # None
  BY <1>4, NoAnswerLeads
<1>6. a \in Nat /\ i + 1 =< a /\ a + 1 \in Nat \ {0}
  <2>1. a = None \/ a \in i + 1 .. h - 1
    <3> HIDE DEF i
    <3> QED BY <1>1, <1>2, StringEndRange
  <2> HIDE DEF a, i
  <2> QED BY <1>2, <1>5, <2>1
<1>7. x \in Nat /\ a < x
  <2>1. x \in a + 1 .. h - 1
    <3> HIDE DEF a
    <3> QED BY <1>1, <1>5, <1>6, NextTokenFound
  <2> HIDE DEF a, x
  <2> QED BY <1>6, <2>1
<1>8. x < p
  <2>1. z.i =< p /\ (z.keys # <<>> => z.i < p)
    <3> HIDE DEF z
    <3> QED BY <1>1, LeadsAhead DEF z
  <2>2. z = Answered(None) \/ z.i = x + 1 \/ (z.i = x /\ z.keys = s.keys)
    <3>1. [s EXCEPT !.i = x].i = x /\ [s EXCEPT !.i = x].keys = s.keys
      BY DEF Wider, Scans
    <3>2. StepKey(s, text, x) = Answered(None) \/ StepKey(s, text, x).i = x + 1
      BY DEF StepKey, Wider, Scans, Answered, StartScan
    <3> HIDE DEF x, text, z, a
    <3> QED BY <1>4, <1>5, <3>1, <3>2
  <2>3. z # Answered(None)
    BY NoAnswerLeads
  <2> HIDE DEF x, z
  <2> QED BY <1>1, <1>7, <2>1, <2>2, <2>3
<1>9. StringEnd(w, i + 1, g, w[i]) = a
  <2>1. a < p
    <3> HIDE DEF a, x
    <3> QED BY <1>1, <1>6, <1>7, <1>8
  <2>2. StringEnd(d, i + 1, h, d[i]) # None /\ StringEnd(d, i + 1, h, d[i]) < p
    BY <1>5, <2>1
  <2>3. StringEnd(w, i + 1, g, d[i]) = StringEnd(d, i + 1, h, d[i])
    <3> HIDE DEF i
    <3> QED BY <1>2, <2>2, StringEndStays
  <2> QED BY <1>3, <2>3
<1>10. NextToken(w, a + 1, g) = x
  <2>1. NextToken(d, a + 1, h) # None /\ NextToken(d, a + 1, h) =< p
    BY <1>1, <1>5, <1>7, <1>8
  <2> HIDE DEF a
  <2> QED BY <1>6, <2>1, NextTokenStays
<1>11. w[x] = d[x]
  <2> HIDE DEF x
  <2>1. x \in 1 .. p - 1
    BY <1>1, <1>6, <1>7, <1>8
  <2> QED BY <1>1, <2>1
<1>12. Text(w, i + 1, a) = Text(d, i + 1, a)
  <2> HIDE DEF a, i, x
  <2>1. i + 1 \in Int /\ a \in Int /\ \A r \in i + 1 .. a - 1 : r \in 1 .. p - 1
    BY <1>1, <1>2, <1>6, <1>7, <1>8
  <2>2. \A r \in i + 1 .. a - 1 : d[r] = w[r]
    BY <1>1, <2>1
  <2> QED BY <2>1, <2>2, TextsAgree
<1>13. StepString(w, t) = IF d[x] # ":" THEN [t EXCEPT !.i = x]
                          ELSE StepKey(t, text, x)
  <2> DEFINE b == StringEnd(w, t.i + 1, t.hi, w[t.i])
  <2>1. b = a
    BY <1>2, <1>9
  <2>2. StepString(w, t) =
          IF b = None \/ NextToken(w, b + 1, g) = None THEN Answered(None)
          ELSE IF w[NextToken(w, b + 1, g)] # ":"
          THEN [t EXCEPT !.i = NextToken(w, b + 1, g)]
          ELSE StepKey(t, Unescape(Text(w, i + 1, b)), NextToken(w, b + 1, g))
    BY <1>2 DEF StepString
  <2> HIDE DEF a, b, x
  <2> QED BY <1>5, <1>10, <1>11, <1>12, <2>1, <2>2
<1> HIDE DEF a, x, text, z
<1>14. CASE d[x] # ":"
  <2>1. z = [s EXCEPT !.i = x] /\ StepString(w, t) = [t EXCEPT !.i = x]
    BY <1>4, <1>5, <1>13, <1>14
  <2>2. Wider([s EXCEPT !.i = x], [t EXCEPT !.i = x], h, g) /\ [s EXCEPT !.i = x].keys = s.keys
    BY <1>7 DEF Wider, Scans
  <2> QED BY <2>1, <2>2 DEF StaysOn, z
<1>15. CASE d[x] = ":"
  <2>1. z = StepKey(s, text, x) /\ StepString(w, t) = StepKey(t, text, x)
    BY <1>4, <1>5, <1>13, <1>15
  <2>2. StaysOn(s, StepKey(s, text, x), StepKey(t, text, x), h, g, p)
    BY <1>7, StepKeyStays
  <2> QED BY <2>1, <2>2 DEF z
<1> QED BY <1>14, <1>15

\* A block that is passed over.
LEMMA StepOverStays ==
  ASSUME NEW d, NEW h, NEW w, NEW g, NEW p, SameUpTo(d, h, w, g, p),
         NEW s, NEW t, Wider(s, t, h, g), s.keys # <<>>, s.i \in 1 .. p - 1,
         NEW open, NEW close,
         Leads(d, StepOver(s, BlockEnd(d, s.i, s.hi, open, close)), h, p)
  PROVE  StaysOn(s, StepOver(s, BlockEnd(d, s.i, s.hi, open, close)),
                 StepOver(t, BlockEnd(w, t.i, t.hi, open, close)), h, g, p)
<1> DEFINE i == s.i
           a == BlockEnd(d, i, h, open, close)
           b == BlockEnd(w, i, g, open, close)
           x == StepOver(s, a)
<1>1. h \in Nat /\ g \in Nat /\ p \in Nat \ {0}
  BY DEF SameUpTo
<1>2. i \in Nat \ {0} /\ t.i = i /\ s.hi = h /\ t.hi = g
  BY <1>1 DEF Wider
<1>3. Leads(d, x, h, p)
  BY <1>2
<1>4. a # None
  BY <1>3, NoAnswerLeads DEF StepOver
<1>5. a \in Nat
  <2>1. a = None \/ a \in i + 1 .. h
    <3> HIDE DEF i
    <3> QED BY <1>1, <1>2, BlockEndRange
  <2> HIDE DEF a, i
  <2> QED BY <1>2, <1>4, <2>1
<1>6. x = [s EXCEPT !.i = a] /\ x.i = a /\ x.keys = s.keys
  <2>1. x = [s EXCEPT !.i = a]
    BY <1>4 DEF StepOver
  <2> HIDE DEF a, x
  <2> QED BY <2>1 DEF Wider, Scans
<1>7. a < p
  <2> HIDE DEF a, x
  <2> QED BY <1>1, <1>3, <1>6, LeadsAhead
<1>8. b = a
  <2>1. a =< p
    BY <1>1, <1>5, <1>7
  <2> HIDE DEF i
  <2> QED BY <1>2, <1>4, <2>1, BlockEndStays
<1> SUFFICES StaysOn(s, x, StepOver(t, b), h, g, p)
  BY <1>2
<1> HIDE DEF a, b, i, x
<1>9. StepOver(t, b) = [t EXCEPT !.i = a]
  BY <1>4, <1>8 DEF StepOver
<1>10. Wider([s EXCEPT !.i = a], [t EXCEPT !.i = a], h, g)
  BY <1>5 DEF Wider, Scans
<1> QED BY <1>6, <1>9, <1>10 DEF StaysOn

\* A component that asks for an element is the last.
LEMMA NamedPlace ==
  ASSUME NEW keys, InNamedPlace(keys), Len(keys) \in Nat,
         NEW k \in 1 .. Len(keys), IsIndexForm(keys[k])
  PROVE  k = Len(keys)
<1>1. k \notin 1 .. Len(keys) - 1
  BY DEF InNamedPlace
<1> QED BY <1>1

\* A step of the scan.
LEMMA StepStays ==
  ASSUME NEW d, NEW h, NEW w, NEW g, NEW p, SameUpTo(d, h, w, g, p),
         NEW s, NEW t, Wider(s, t, h, g), s.keys # <<>>, InNamedPlace(s.keys),
         s.i < p, Leads(d, StepScan(d, s), h, p), GetType(w, p, g).err = "none"
  PROVE  StaysOn(s, StepScan(d, s), StepScan(w, t), h, g, p)
<1> DEFINE i == s.i
           c == d[i]
           n == i + 1
           x == StepScan(d, s)
<1>1. /\ h \in Nat /\ g \in Nat /\ p \in Nat \ {0} /\ p < h /\ p < g
      /\ \A r \in 1 .. p - 1 : d[r] = w[r]
  BY DEF SameUpTo
<1>2. /\ s \in Scans /\ t \in Scans /\ s.hi = h /\ t.hi = g /\ t.i = i
      /\ t.keys = s.keys /\ t.level = s.level /\ t.keyLevel = s.keyLevel
      /\ t.lastMatched = s.lastMatched
      /\ i \in Nat /\ s.level \in Int /\ s.keyLevel \in Int
  BY DEF Wider, Scans
<1>3. i \in 1 .. h - 1
  <2>1. i \notin 1 .. h - 1 => x = Answered(None)
    BY <1>2 DEF StepScan
  <2> HIDE DEF x, i
  <2> QED BY <2>1, NoAnswerLeads DEF x
<1>4. i \in 1 .. p - 1 /\ i \in 1 .. g - 1 /\ i \in Nat \ {0} /\ n \in Nat
  <2>1. i < p
    OBVIOUS
  <2> HIDE DEF i
  <2> QED BY <1>1, <1>3, <2>1
<1>5. w[i] = c
  <2> HIDE DEF i
  <2> QED BY <1>1, <1>4
<1> HIDE DEF x
<1>6. CASE c \in Quotes
  <2>1. StepScan(d, s) = StepString(d, s)
    BY <1>2, <1>3, <1>6 DEF StepScan, Quotes, Quote
  <2>2. StepScan(w, t) = StepString(w, t)
    BY <1>2, <1>4, <1>5, <1>6 DEF StepScan, Quotes, Quote
  <2> QED BY <1>4, <2>1, <2>2, StepStringStays
<1>7. CASE c \notin Quotes /\ c = "{"
  <2>1. StepScan(d, s) = StepBrace(d, s)
    BY <1>2, <1>3, <1>7 DEF StepScan
  <2>2. StepScan(w, t) = StepBrace(w, t)
    BY <1>2, <1>4, <1>5, <1>7 DEF StepScan
  <2>3. CASE s.lastMatched
    <3> DEFINE l == s.level + 1
    <3>1. /\ StepBrace(d, s) = [s EXCEPT !.i = n, !.level = l]
          /\ StepBrace(w, t) = [t EXCEPT !.i = n, !.level = l]
      BY <1>2, <2>3 DEF StepBrace
    <3>2. l \in Int
      BY <1>2
    <3> HIDE DEF l, n
    <3>3. /\ Wider([s EXCEPT !.i = n, !.level = l], [t EXCEPT !.i = n, !.level = l], h, g)
          /\ [s EXCEPT !.i = n, !.level = l].keys = s.keys
      BY <1>4, <3>2 DEF Wider, Scans
    <3> QED BY <2>1, <2>2, <3>1, <3>3 DEF StaysOn
  <2>4. CASE ~s.lastMatched
    <3>1. /\ StepBrace(d, s) = StepOver(s, BlockEnd(d, s.i, s.hi, "{", "}"))
          /\ StepBrace(w, t) = StepOver(t, BlockEnd(w, t.i, t.hi, "{", "}"))
      BY <1>2, <2>4 DEF StepBrace
    <3> QED BY <1>4, <2>1, <2>2, <3>1, StepOverStays
  <2> QED BY <2>3, <2>4
<1>8. CASE c \notin Quotes /\ c = "}"
  <2> DEFINE l == s.level - 1
             k == IF s.keyLevel = s.level - 1 THEN s.keyLevel - 1 ELSE s.keyLevel
  <2>1. StepScan(d, s) = [s EXCEPT !.i = n, !.level = l, !.keyLevel = k]
    BY <1>2, <1>3, <1>8 DEF StepScan
  <2>2. StepScan(w, t) = [t EXCEPT !.i = n, !.level = l, !.keyLevel = k]
    BY <1>2, <1>4, <1>5, <1>8 DEF StepScan
  <2>3. l \in Int /\ k \in Int
    BY <1>2
  <2> HIDE DEF l, k, n
  <2>4. /\ Wider([s EXCEPT !.i = n, !.level = l, !.keyLevel = k],
                 [t EXCEPT !.i = n, !.level = l, !.keyLevel = k], h, g)
        /\ [s EXCEPT !.i = n, !.level = l, !.keyLevel = k].keys = s.keys
    BY <1>4, <2>3 DEF Wider, Scans
  <2> QED BY <2>1, <2>2, <2>4 DEF StaysOn
<1>9. CASE c \notin Quotes /\ c = "["
  <2>1. StepScan(d, s) = StepArray(d, s)
    BY <1>2, <1>3, <1>9 DEF StepScan
  <2>2. StepScan(w, t) = StepArray(w, t)
    BY <1>2, <1>4, <1>5, <1>9 DEF StepScan
  <2> DEFINE component == s.keys[s.level + 1]
             wants == /\ s.keyLevel = s.level /\ s.level + 1 \in 1 .. Len(s.keys)
                      /\ IsIndexForm(component)
             m == Index(component)
             rest == SubSeq(s.keys, s.level + 2, Len(s.keys))
             e == ElementFrom(d, ElementStart(d, i, h, m), h)
             f == ElementFrom(w, ElementStart(w, i, g, m), g)
  <2>3. CASE ~wants
    <3>1. /\ StepArray(d, s) = StepOver(s, BlockEnd(d, s.i, s.hi, "[", "]"))
          /\ StepArray(w, t) = StepOver(t, BlockEnd(w, t.i, t.hi, "[", "]"))
      BY <1>2, <2>3 DEF StepArray
    <3> QED BY <1>4, <2>1, <2>2, <3>1, StepOverStays
  <2>4. CASE wants /\ ~IsIndex(component)
    <3>1. StepArray(d, s) = Answered(None)
      BY <1>2, <2>4 DEF StepArray
    <3> QED BY <2>1, <3>1, NoAnswerLeads
  <2>5. CASE wants /\ IsIndex(component)
    <3>1. StepArray(d, s) = StartScan(rest, e) /\ StepArray(w, t) = StartScan(rest, f)
      BY <1>2, <2>5 DEF StepArray
    <3>2. rest = <<>>
      <4>1. s.keys \in Seq(Seq(STRING)) /\ Len(s.keys) \in Nat
        BY <1>2, LenProperties DEF Scans
      <4>2. s.level + 1 = Len(s.keys)
        <5> DEFINE k == s.level + 1
        <5>1. k \in 1 .. Len(s.keys) /\ IsIndexForm(s.keys[k])
          BY <2>5
        <5> HIDE DEF k
        <5>2. k = Len(s.keys)
          BY <4>1, <5>1, NamedPlace
        <5> QED BY <5>2 DEF k
      <4>3. s.level + 2 > Len(s.keys)
        BY <1>2, <4>1, <4>2
      <4> QED BY <1>2, <4>1, <4>3
    <3> DEFINE o == e[1]
    <3>3. FoundFrom(d)[StartScan(<<>>, e)] = o /\ o \in Nat \ {0}
      <4>1. Leads(d, StartScan(<<>>, e), h, p)
        <5> HIDE DEF e, rest
        <5> QED BY <2>1, <3>1, <3>2
      <4>2. FoundFrom(d)[StartScan(<<>>, e)] = e[1]
        <5> HIDE DEF e
        <5>1. /\ StartScan(<<>>, e).keys = <<>> /\ StartScan(<<>>, e).i = e[1]
              /\ StartScan(<<>>, e) \in Scans
          BY <4>1 DEF Leads, StartScan
        <5> QED BY <5>1, FoundFromUnfold
      <4>3. FoundFrom(d)[StartScan(<<>>, e)] \in Nat \ {0}
        <5> HIDE DEF e
        <5> QED BY <1>1, <4>1, LeadsAhead
      <4> HIDE DEF e
      <4> QED BY <4>2, <4>3
    <3>4. NextToken(d, o, h) = p /\ ClosestValue(d, o, h).err = "none"
      <4> HIDE DEF e, rest, o
      <4> QED BY <2>1, <3>1, <3>2, <3>3 DEF Leads
    <3>5. \E r \in Nat : f = <<p, r>>
      <4>1. i \in Nat \ {0} /\ o = ElementFrom(d, ElementStart(d, i, h, m), h)[1]
        BY <1>4
      <4> HIDE DEF o, m, i, e
      <4> QED BY <1>1, <3>3, <3>4, <4>1, ElementStays
    <3> HIDE DEF e, f, rest
    <3> QED BY <2>2, <3>1, <3>2, <3>5 DEF StaysOn
  <2> QED BY <2>3, <2>4, <2>5
<1>10. CASE c = ":"
  <2>1. c \notin Quotes
    BY <1>10 DEF Quotes, Quote
  <2>2. StepScan(d, s) = Answered(None)
    BY <1>2, <1>3, <1>10, <2>1 DEF StepScan
  <2> QED BY <2>2, NoAnswerLeads
<1>11. CASE c \notin Quotes /\ c \notin {"{", "}", "[", ":"}
  <2>1. StepScan(d, s) = [s EXCEPT !.i = n]
    BY <1>2, <1>3, <1>11 DEF StepScan
  <2>2. StepScan(w, t) = [t EXCEPT !.i = n]
    BY <1>2, <1>4, <1>5, <1>11 DEF StepScan
  <2> HIDE DEF n
  <2>3. Wider([s EXCEPT !.i = n], [t EXCEPT !.i = n], h, g) /\ [s EXCEPT !.i = n].keys = s.keys
    BY <1>4 DEF Wider, Scans
  <2> QED BY <2>1, <2>2, <2>3 DEF StaysOn
<1> QED BY <1>6, <1>7, <1>8, <1>9, <1>10, <1>11

\* The value found where one that is read begins is the one that begins there
\* in the other text.
LEMMA FoundStays ==
  ASSUME NEW d, NEW h, NEW w, NEW g, NEW p, SameUpTo(d, h, w, g, p),
         GetType(w, p, g).err = "none"
  PROVE  \A s \in Scans : \A t :
           Wider(s, t, h, g) /\ InNamedPlace(s.keys) /\ Leads(d, s, h, p)
             => FoundFrom(w)[t] \in Nat \ {0} /\ NextToken(w, FoundFrom(w)[t], g) = p
<1> DEFINE Holds(s) == \A t :
             Wider(s, t, h, g) /\ InNamedPlace(s.keys) /\ Leads(d, s, h, p)
               => FoundFrom(w)[t] \in Nat \ {0} /\ NextToken(w, FoundFrom(w)[t], g) = p
           T == {s \in Scans : Holds(s)}
           rank == [s \in Scans |-> Left(s)]
<1>1. rank \in [Scans -> Nat]
  BY DEF Left, Scans
<1>2. h \in Nat /\ g \in Nat /\ p \in Nat \ {0} /\ p < g /\ w[p] \notin Blank
  BY DEF SameUpTo
<1>3. ASSUME NEW q \in Nat \ {0}, q =< p, NextToken(d, q, h) = p
      PROVE  NextToken(w, q, g) = p
  BY <1>2, <1>3, NextTokenStays DEF None
<1>4. ASSUME NEW s \in Scans, \A z \in Scans : rank[z] < rank[s] => z \in T
      PROVE  s \in T
  <2> SUFFICES ASSUME NEW t, Wider(s, t, h, g), InNamedPlace(s.keys), Leads(d, s, h, p)
               PROVE  FoundFrom(w)[t] \in Nat \ {0} /\ NextToken(w, FoundFrom(w)[t], g) = p
    BY DEF Holds
  <2>0. t \in Scans /\ t.keys = s.keys /\ t.i = s.i
    BY DEF Wider
  <2>1. /\ FoundFrom(d)[s] = IF s.keys = <<>> THEN s.i ELSE FoundFrom(d)[StepScan(d, s)]
        /\ FoundFrom(w)[t] = IF t.keys = <<>> THEN t.i ELSE FoundFrom(w)[StepScan(w, t)]
    BY <2>0, FoundFromUnfold
  <2>2. /\ s.i =< p /\ FoundFrom(d)[s] \in Nat \ {0} /\ FoundFrom(d)[s] =< p
        /\ (s.keys # <<>> => s.i < p)
    BY <1>2, LeadsAhead
  <2>3. CASE s.keys = <<>>
    <3>1. FoundFrom(w)[t] = FoundFrom(d)[s]
      BY <2>0, <2>1, <2>3
    <3> QED BY <1>3, <2>2, <3>1 DEF Leads
  <2>4. CASE s.keys # <<>>
    <3> DEFINE x == StepScan(d, s)
               y == StepScan(w, t)
    <3>1. x \in Scans /\ rank[x] < rank[s]
      BY <2>4, StepDescends DEF Nearer
    <3>2. Holds(x)
      BY <1>4, <3>1
    <3>3. FoundFrom(d)[s] = FoundFrom(d)[x] /\ FoundFrom(w)[t] = FoundFrom(w)[y]
      BY <2>0, <2>1, <2>4
    <3>4. Leads(d, x, h, p)
      BY <3>1, <3>3 DEF Leads
    <3>5. StaysOn(s, x, y, h, g, p)
      BY <2>2, <2>4, <3>4, StepStays
    <3> HIDE DEF x, y, T, rank
    <3>6. CASE \E q \in Nat : x = Answered(q) /\ y = x
      <4>1. PICK q \in Nat : x = Answered(q) /\ y = Answered(q)
        BY <3>6
      <4>2. FoundFrom(d)[x] = q /\ FoundFrom(w)[y] = q
        BY <4>1, FoundAnswered
      <4> QED BY <1>3, <2>2, <3>3, <4>2 DEF Leads
    <3>7. CASE Wider(x, y, h, g) /\ x.keys = s.keys
      BY <3>2, <3>3, <3>4, <3>7 DEF Holds
    <3>8. CASE \E r \in Nat : y = StartScan(<<>>, <<p, r>>)
      <4>1. PICK r \in Nat : y = StartScan(<<>>, <<p, r>>)
        BY <3>8
      <4>2. y \in Scans /\ y.keys = <<>> /\ y.i = p
        BY <1>2, <4>1, EmptySeq DEF StartScan, Scans
      <4>3. FoundFrom(w)[y] = p
        BY <4>2, FoundFromUnfold
      <4>4. NextToken(w, p, g) = p
        BY <1>2, NextTokenRange
      <4> QED BY <1>2, <3>3, <4>3, <4>4
    <3> QED BY <3>5, <3>6, <3>7, <3>8 DEF StaysOn
  <2> QED BY <2>3, <2>4
<1>5. Scans \subseteq T
  <2> HIDE DEF T, rank
  <2> QED BY <1>1, <1>4, RankInduction
<1> QED BY <1>5

---------------------------------------------------------------------------
\* The text v stands in w behind the first o bytes.
Placed(v, w, g, o) ==
  /\ Len(v) \in Nat \ {0} /\ o \in Nat /\ g \in Nat /\ o + Len(v) < g
  /\ \A x \in 1 .. Len(v) : w[o + x] = v[x]

\* What is found at a distance of o.
LEMMA FirstPlaced ==
  ASSUME NEW S \in SUBSET Nat, NEW T \in SUBSET Nat, NEW o \in Nat,
         First(S) # None, o + First(S) \in T,
         \A t \in T : t < o + First(S) => t - o \in S
  PROVE  First(T) = o + First(S)
<1> DEFINE t == First(T)
           a == First(S)
<1>3. S # {}
  BY DEF First
<1>4. a \in S /\ \A r \in S : a =< r
  BY <1>3, FirstIsLeast
<1>1. t \in T /\ \A r \in T : t =< r
  BY FirstIsLeast
<1>2. t \in Nat /\ t =< o + a /\ a \in Nat
  BY <1>1, <1>4
<1>7. \A r \in T : r < o + a => r - o \in S
  OBVIOUS
<1> HIDE DEF t, a
<1>5. ~(t < o + a)
  <2> SUFFICES ASSUME t < o + a PROVE FALSE
    OBVIOUS
  <2>1. t - o \in S
    BY <1>1, <1>7
  <2>2. t - o \in Nat /\ a =< t - o
    BY <1>4, <2>1
  <2> QED BY <1>2, <2>2
<1>6. t = o + a
  BY <1>2, <1>5
<1> QED BY <1>6 DEF t, a

\* The run of backslashes that begins at k.
Run(d, i, k, x) == /\ \A j \in k .. x - 1 : d[j] = Backslash
                   /\ k > i => d[k - 1] # Backslash
                   /\ (x - k) % 2 = 0

\* The backslashes stand where they stood.
LEMMA RunPlaced ==
  ASSUME NEW v, NEW w, NEW g, NEW o, Placed(v, w, g, o),
         NEW i \in Nat \ {0}, NEW x \in i .. Len(v), NEW k \in i .. x
  PROVE  Run(v, i, k, x) <=> Run(w, o + i, o + k, o + x)
<1> DEFINE l == Len(v)
<1>1. l \in Nat /\ o \in Nat /\ \A j \in 1 .. l : w[o + j] = v[j]
  BY DEF Placed
<1>2. x \in i .. l
  OBVIOUS
<1> HIDE DEF l
<1>3. ASSUME NEW j \in k .. x - 1
      PROVE  o + j \in o + k .. (o + x) - 1 /\ w[o + j] = v[j]
  BY <1>1, <1>2
<1>4. ASSUME NEW j \in o + k .. (o + x) - 1
      PROVE  j - o \in k .. x - 1 /\ w[j] = v[j - o]
  <2>1. j - o \in k .. x - 1 /\ o + (j - o) = j /\ j - o \in 1 .. l
    BY <1>1, <1>2
  <2> QED BY <1>1, <2>1
<1>5. (\A j \in k .. x - 1 : v[j] = Backslash)
        <=> (\A j \in o + k .. (o + x) - 1 : w[j] = Backslash)
  BY <1>3, <1>4
<1>6. (k > i => v[k - 1] # Backslash) <=> (o + k > o + i => w[(o + k) - 1] # Backslash)
  <2>1. (k > i <=> o + k > o + i) /\ (o + k) - 1 = o + (k - 1)
    BY <1>1, <1>2
  <2>2. k > i => w[o + (k - 1)] = v[k - 1]
    BY <1>1, <1>2
  <2> QED BY <2>1, <2>2
<1>7. (o + x) - (o + k) = x - k
  BY <1>1, <1>2
<1> QED BY <1>5, <1>6, <1>7 DEF Run

\* So does an even run of them, which leaves the byte behind it unescaped.
LEMMA EvenRunPlaced ==
  ASSUME NEW v, NEW w, NEW g, NEW o, Placed(v, w, g, o),
         NEW i \in Nat \ {0}, NEW x \in i .. Len(v)
  PROVE  EvenRun(v, i, x) <=> EvenRun(w, o + i, o + x)
<1>1. o \in Nat /\ Len(v) \in Nat
  BY DEF Placed
<1>2. /\ EvenRun(v, i, x) <=> \E k \in i .. x : Run(v, i, k, x)
      /\ EvenRun(w, o + i, o + x) <=> \E k \in o + i .. o + x : Run(w, o + i, k, o + x)
  BY DEF EvenRun, Run
<1>3. \A k \in i .. x : o + k \in o + i .. o + x
  BY <1>1
<1>4. \A k \in o + i .. o + x : k - o \in i .. x /\ o + (k - o) = k
  BY <1>1
<1>5. \A k \in i .. x : Run(v, i, k, x) <=> Run(w, o + i, o + k, o + x)
  BY RunPlaced
<1>6. ASSUME NEW k \in o + i .. o + x, Run(w, o + i, k, o + x)
      PROVE  Run(v, i, k - o, x)
  BY <1>4, <1>5, <1>6
<1> QED BY <1>2, <1>3, <1>4, <1>5, <1>6

\* A string that the text ends is one within the other.
LEMMA StringEndPlaced ==
  ASSUME NEW v, NEW w, NEW g, NEW o, Placed(v, w, g, o),
         NEW i \in Nat \ {0}, NEW c, StringEnd(v, i, Len(v) + 1, c) = Len(v)
  PROVE  StringEnd(w, o + i, g, c) = o + Len(v)
<1> DEFINE l == Len(v)
           S == {x \in i .. (l + 1) - 1 : v[x] = c /\ EvenRun(v, i, x)}
           T == {x \in o + i .. g - 1 : w[x] = c /\ EvenRun(w, o + i, x)}
<1>1. l \in Nat \ {0} /\ o \in Nat /\ g \in Nat /\ o + l < g
      /\ \A j \in 1 .. l : w[o + j] = v[j]
  BY DEF Placed
<1>2. \A x \in i .. l : EvenRun(v, i, x) <=> EvenRun(w, o + i, o + x)
  BY EvenRunPlaced
<1>3. StringEnd(v, i, l + 1, c) = First(S) /\ StringEnd(w, o + i, g, c) = First(T)
  BY DEF StringEnd
<1>4. First(S) = l
  BY <1>3
<1> HIDE DEF l
<1>5. \A x \in i .. l : o + x \in o + i .. g - 1 /\ x \in i .. (l + 1) - 1 /\ w[o + x] = v[x]
  BY <1>1
<1>6. \A x \in i .. l : x \in S <=> o + x \in T
  BY <1>2, <1>5
<1>7. S \in SUBSET (i .. (l + 1) - 1) /\ T \in SUBSET (o + i .. g - 1)
  OBVIOUS
<1> HIDE DEF S, T
<1>8. l \in S /\ l \in i .. l
  <2>1. First(S) = None \/ First(S) \in S
    <3>1. i \in Nat /\ l + 1 \in Nat
      BY <1>1
    <3> QED BY <1>7, <3>1, FirstInRange
  <2>2. l \in S
    BY <1>1, <1>4, <2>1 DEF None
  <2> QED BY <1>1, <1>7, <2>2
<1>9. o + l \in T
  BY <1>6, <1>8
<1>10. \A t \in T : t < o + l => t - o \in S
  <2> SUFFICES ASSUME NEW t \in T, t < o + l PROVE t - o \in S
    OBVIOUS
  <2>1. t \in o + i .. g - 1
    BY <1>7
  <2>2. t - o \in i .. l /\ o + (t - o) = t
    BY <1>1, <2>1
  <2> QED BY <1>6, <2>2
<1>11. S \in SUBSET Nat /\ T \in SUBSET Nat
  BY <1>1, <1>7
<1>12. First(T) = o + First(S)
  <2>1. First(S) # None /\ o + First(S) \in T
    BY <1>1, <1>4, <1>9 DEF None
  <2>2. \A t \in T : t < o + First(S) => t - o \in S
    BY <1>4, <1>10
  <2> QED BY <1>1, <1>11, <2>1, <2>2, FirstPlaced
<1> QED BY <1>3, <1>4, <1>12 DEF l

\* Where a block ends is the first byte at which blockEnd would stop.
LEMMA BlockEndStops ==
  ASSUME NEW d, NEW i \in Nat \ {0}, NEW h \in Nat, NEW q \in i .. h - 1,
         BlockEnd(d, i, h, d[i], Closer(d[i])) = q + 1
  PROVE  EndsAt(d, i, h, q) /\ \A r \in i .. q - 1 : ~EndsAt(d, i, h, r)
<1> DEFINE open == d[i]
           close == Closer(d[i])
           mode == ModesOf(d, i, h)
           C(symbol, p) ==
             Cardinality({r \in i .. p : d[r] = symbol /\ mode[r] = Outside})
           S == {p \in i .. h - 1 : /\ d[p] = close
                                     /\ mode[p] = Outside
                                     /\ C(open, p) = C(close, p)}
<1>1. BlockEnd(d, i, h, open, close)
        = IF First(S) = None THEN None ELSE First(S) + 1
  BY DEF BlockEnd, ModesOf
<1>2. \A p \in i .. h - 1 : p \in S <=> EndsAt(d, i, h, p)
  BY DEF EndsAt, Tally, Seen
<1>3. S \in SUBSET (i .. h - 1)
  OBVIOUS
<1>4. BlockEnd(d, i, h, open, close) = q + 1
  OBVIOUS
<1> HIDE DEF S, open, close
<1>5. First(S) # None /\ First(S) + 1 = q + 1
  BY <1>1, <1>4 DEF None
<1>6. S # {} /\ S \in SUBSET Nat
  BY <1>3, <1>5 DEF First
<1>7. First(S) \in S /\ \A r \in S : First(S) =< r
  BY <1>6, FirstIsLeast
<1>8. First(S) = q
  <2> DEFINE a == First(S)
  <2>1. a \in i .. h - 1 /\ a + 1 = q + 1
    BY <1>3, <1>5, <1>7
  <2> HIDE DEF a
  <2>2. a = q
    BY <2>1
  <2> QED BY <2>2 DEF a
<1>9. \A r \in i .. q - 1 : r \in i .. h - 1 /\ r < q
  OBVIOUS
<1> QED BY <1>2, <1>7, <1>8, <1>9

\* How the bytes stand with respect to strings does not depend on the place.
LEMMA ModesPlaced ==
  ASSUME NEW v, NEW w, NEW g, NEW o, Placed(v, w, g, o)
  PROVE  \A r \in 1 .. Len(v) :
           ModesOf(w, o + 1, g)[o + r] = ModesOf(v, 1, Len(v) + 1)[r]
<1> DEFINE l == Len(v)
           m == ModesOf(v, 1, l + 1)
           n == ModesOf(w, o + 1, g)
           T == {r \in Nat : r + 1 =< l => n[o + (r + 1)] = m[r + 1]}
<1>1. l \in Nat \ {0} /\ o \in Nat /\ g \in Nat /\ o + l < g
      /\ \A j \in 1 .. l : w[o + j] = v[j]
  BY DEF Placed
<1> HIDE DEF l
<1>2. 1 \in Nat /\ l + 1 \in Nat /\ o + 1 \in Nat
  BY <1>1
<1>3. \A x \in 1 .. l + 1 : m[x] = IF x = 1 THEN Outside ELSE Reading(v[x - 1])[m[x - 1]]
  <2>1. ReadsModes(m, v, 1, l + 1)
    BY <1>2, ModesSolved
  <2> HIDE DEF m
  <2> QED BY <2>1 DEF ReadsModes
<1>4. \A x \in o + 1 .. g :
        n[x] = IF x = o + 1 THEN Outside ELSE Reading(w[x - 1])[n[x - 1]]
  <2>1. ReadsModes(n, w, o + 1, g)
    BY <1>1, <1>2, ModesSolved
  <2> HIDE DEF n
  <2> QED BY <2>1 DEF ReadsModes
<1> HIDE DEF m, n
<1>5. 0 \in T
  <2>1. 0 + 1 = 1 /\ 1 \in 1 .. l + 1 /\ o + 1 \in o + 1 .. g
    BY <1>1
  <2>2. m[1] = Outside /\ n[o + 1] = Outside
    BY <1>3, <1>4, <2>1
  <2> QED BY <2>1, <2>2
<1>6. ASSUME NEW r \in Nat, r \in T PROVE r + 1 \in T
  <2> DEFINE a == r + 1
  <2> SUFFICES ASSUME a + 1 =< l PROVE n[o + (a + 1)] = m[a + 1]
    OBVIOUS
  <2>1. a \in Nat /\ a =< l /\ a \in 1 .. l /\ a + 1 \in 1 .. l + 1 /\ a + 1 # 1 /\ (a + 1) - 1 = a
    BY <1>1
  <2>2. n[o + a] = m[a]
    BY <1>6, <2>1
  <2> HIDE DEF a
  <2>3. /\ o + (a + 1) \in o + 1 .. g /\ o + (a + 1) # o + 1
        /\ (o + (a + 1)) - 1 = o + a
    BY <1>1, <2>1
  <2>4. m[a + 1] = Reading(v[a])[m[a]]
    BY <1>3, <2>1
  <2>5. n[o + (a + 1)] = Reading(w[o + a])[n[o + a]]
    BY <1>4, <2>3
  <2> QED BY <1>1, <2>1, <2>2, <2>4, <2>5
<1>7. Nat \subseteq T
  <2> HIDE DEF T
  <2> QED BY <1>5, <1>6, NatSetInduction
<1>8. ASSUME NEW r \in 1 .. l PROVE n[o + r] = m[r]
  <2>1. r - 1 \in Nat /\ (r - 1) + 1 = r /\ r =< l
    BY <1>1
  <2>2. r - 1 \in T
    BY <1>7, <2>1
  <2> QED BY <2>1, <2>2
<1> QED BY <1>8 DEF l, m, n

\* Nor does what is counted.
LEMMA TallyPlaced ==
  ASSUME NEW v, NEW w, NEW g, NEW o, Placed(v, w, g, o), NEW symbol
  PROVE  \A r \in 1 .. Len(v) :
           Tally(w, o + 1, g, symbol, o + r) = Tally(v, 1, Len(v) + 1, symbol, r)
<1> DEFINE l == Len(v)
           C(r) == Tally(v, 1, l + 1, symbol, r)
           D(r) == Tally(w, o + 1, g, symbol, r)
           m == ModesOf(v, 1, l + 1)
           n == ModesOf(w, o + 1, g)
           T == {r \in Nat : r =< l => D(o + r) = C(r)}
<1>1. l \in Nat \ {0} /\ o \in Nat /\ g \in Nat /\ o + l < g
      /\ \A j \in 1 .. l : w[o + j] = v[j]
  BY DEF Placed
<1>2. \A r \in 1 .. l : n[o + r] = m[r]
  BY ModesPlaced
<1>3. C(0) = 0 /\ D(o) = 0
  <2>1. C(1 - 1) = 0
    BY TallyNothing
  <2>2. o + 1 \in Nat /\ (o + 1) - 1 = o
    BY <1>1
  <2>3. D((o + 1) - 1) = 0
    BY <2>2, TallyNothing
  <2> QED BY <2>1, <2>2, <2>3
<1>4. ASSUME NEW r \in Nat, 1 =< r
      PROVE  C(r) = C(r - 1) + (IF v[r] = symbol /\ m[r] = Outside THEN 1 ELSE 0)
  BY <1>4, TallyNext
<1>5. ASSUME NEW r \in Nat, o + 1 =< r
      PROVE  D(r) = D(r - 1) + (IF w[r] = symbol /\ n[r] = Outside THEN 1 ELSE 0)
  <2>1. o + 1 \in Nat
    BY <1>1
  <2> QED BY <1>5, <2>1, TallyNext
<1> HIDE DEF l, C, D, m, n
<1>6. 0 \in T
  BY <1>1, <1>3
<1>7. ASSUME NEW r \in Nat, r \in T PROVE r + 1 \in T
  <2> SUFFICES ASSUME r + 1 =< l PROVE D(o + (r + 1)) = C(r + 1)
    OBVIOUS
  <2>1. r + 1 \in 1 .. l /\ r + 1 \in Nat /\ (r + 1) - 1 = r /\ 1 =< r + 1 /\ r =< l
    BY <1>1
  <2>2. /\ o + (r + 1) \in Nat /\ o + 1 =< o + (r + 1) /\ (o + (r + 1)) - 1 = o + r
    BY <1>1
  <2>3. C(r + 1) = C(r) + (IF v[r + 1] = symbol /\ m[r + 1] = Outside THEN 1 ELSE 0)
    BY <1>4, <2>1
  <2>4. D(o + (r + 1)) = D(o + r)
          + (IF w[o + (r + 1)] = symbol /\ n[o + (r + 1)] = Outside THEN 1 ELSE 0)
    BY <1>5, <2>2
  <2>5. D(o + r) = C(r)
    BY <1>7, <2>1
  <2> QED BY <1>1, <1>2, <2>1, <2>3, <2>4, <2>5
<1>8. Nat \subseteq T
  <2> HIDE DEF T
  <2> QED BY <1>6, <1>7, NatSetInduction
<1>9. \A r \in 1 .. l : r \in Nat /\ r =< l
  BY <1>1
<1>10. \A r \in 1 .. l : D(o + r) = C(r)
  BY <1>8, <1>9
<1> QED BY <1>10 DEF l, C, D

\* A block that is the whole text is one within the other.
LEMMA BlockEndPlaced ==
  ASSUME NEW v, NEW w, NEW g, NEW o, Placed(v, w, g, o),
         BlockEnd(v, 1, Len(v) + 1, v[1], Closer(v[1])) = Len(v) + 1
  PROVE  BlockEnd(w, o + 1, g, v[1], Closer(v[1])) = (o + Len(v)) + 1
<1> DEFINE l == Len(v)
           k == l + 1
           a == o + 1
<1>1. l \in Nat \ {0} /\ o \in Nat /\ g \in Nat /\ o + l < g
      /\ \A j \in 1 .. l : w[o + j] = v[j]
  BY DEF Placed
<1>2. \A r \in 1 .. l : ModesOf(w, a, g)[o + r] = ModesOf(v, 1, k)[r]
  BY ModesPlaced
<1>3. \A symbol : \A r \in 1 .. l : Tally(w, a, g, symbol, o + r) = Tally(v, 1, k, symbol, r)
  BY TallyPlaced
<1>4. BlockEnd(v, 1, k, v[1], Closer(v[1])) = l + 1
  OBVIOUS
<1> HIDE DEF l
<1>5. 1 \in Nat \ {0} /\ k \in Nat /\ l \in 1 .. k - 1 /\ a \in Nat \ {0} /\ 1 \in 1 .. l
  BY <1>1
<1> HIDE DEF k
<1>6. EndsAt(v, 1, k, l) /\ \A r \in 1 .. l - 1 : ~EndsAt(v, 1, k, r)
  BY <1>4, <1>5, BlockEndStops
<1>7. w[a] = v[1]
  BY <1>1, <1>5
<1> HIDE DEF a
<1>8. \A r \in 1 .. l : EndsAt(w, a, g, o + r) <=> EndsAt(v, 1, k, r)
  BY <1>1, <1>2, <1>3, <1>7 DEF EndsAt
<1>9. EndsAt(w, a, g, o + l) /\ o + l \in a .. g - 1
  <2>1. l \in 1 .. l
    BY <1>1
  <2> QED BY <1>1, <1>6, <1>8, <2>1 DEF a
<1>10. \A r \in a .. (o + l) - 1 : ~EndsAt(w, a, g, r)
  <2> SUFFICES ASSUME NEW r \in a .. (o + l) - 1 PROVE ~EndsAt(w, a, g, r)
    OBVIOUS
  <2>1. r - o \in 1 .. l - 1 /\ r - o \in 1 .. l /\ o + (r - o) = r
    BY <1>1 DEF a
  <2> QED BY <1>6, <1>8, <2>1
<1>11. BlockEnd(w, a, g, w[a], Closer(w[a])) = (o + l) + 1
  BY <1>1, <1>5, <1>9, <1>10, BlockEndFirst
<1> QED BY <1>7, <1>11 DEF a, l

\* A text that ends itself is read wherever it stands.
LEMMA ValuePlaced ==
  ASSUME NEW v, NEW w, NEW g, NEW o, Placed(v, w, g, o), EndsItself(v)
  PROVE  /\ GetType(w, o + 1, g).err = "none"
         /\ StartOf(GetType(w, o + 1, g)) = o + 1
         /\ GetType(w, o + 1, g).end = (o + Len(v)) + 1
<1> DEFINE l == Len(v)
           a == o + 1
           x == GetType(w, a, g)
<1>1. l \in Nat \ {0} /\ o \in Nat /\ g \in Nat /\ o + l < g
      /\ \A j \in 1 .. l : w[o + j] = v[j]
  BY DEF Placed
<1>2. v[1] \in Quotes \cup {"[", "{"}
  BY DEF EndsItself
<1>3. GetType(v, 1, l + 1).err = "none" /\ GetType(v, 1, l + 1).end = l + 1
  <2>1. ClosestValue(v, 1, l + 1).err = "none" /\ ClosestValue(v, 1, l + 1).end = l + 1
    BY DEF EndsItself
  <2>2. NextToken(v, 1, l + 1) = 1
    <3>1. v[1] \notin Blank
      <4>1. CASE v[1] \in Quotes
        BY <4>1 DEF Quotes, Quote, Blank
      <4>2. CASE v[1] \in {"[", "{"}
        BY <4>2 DEF Blank
      <4> QED BY <1>2, <4>1, <4>2
    <3> HIDE DEF l
    <3>2. 1 \in Nat \ {0} /\ l + 1 \in Nat /\ 1 < l + 1
      BY <1>1
    <3> QED BY <3>1, <3>2, NextTokenRange
  <2>3. ClosestValue(v, 1, l + 1) = GetType(v, 1, l + 1)
    <3> HIDE DEF l
    <3> QED BY <2>2 DEF ClosestValue, None
  <2> QED BY <2>1, <2>3
<1>4. w[a] = v[1] /\ a \in Nat \ {0} /\ a < g
  <2> HIDE DEF l
  <2>1. 1 \in 1 .. l
    BY <1>1
  <2> QED BY <1>1, <2>1
<1>5. ReadInWindow(x, a, g)
  <2> HIDE DEF a, l
  <2> QED BY <1>1, <1>4, GetTypeRange
<1>6. x.err = "none" /\ x.end = (o + l) + 1
  <2>1. CASE v[1] \in Quotes
    <3> DEFINE e == StringEnd(v, 2, l + 1, v[1])
               f == StringEnd(w, a + 1, g, w[a])
    <3>1. GetType(v, 1, l + 1) = GetString(1, e) /\ x = GetString(a, f)
      <4>1. 1 + 1 = 2
        OBVIOUS
      <4> QED BY <1>4, <2>1, <4>1 DEF GetType, Quotes, Quote
    <3>2. e # None /\ e + 1 = l + 1
      <4> HIDE DEF e, f, l
      <4> QED BY <1>3, <3>1 DEF GetString, Delimited, Failed, Got
    <3>3. e = l
      <4>1. e = None \/ e \in 2 .. (l + 1) - 1
        <5> HIDE DEF l
        <5> QED BY <1>1, StringEndRange
      <4> HIDE DEF e, l
      <4> QED BY <1>1, <3>2, <4>1
    <3>4. f = o + l
      <4>1. StringEnd(w, o + 2, g, v[1]) = o + Len(v)
        BY <3>3, StringEndPlaced
      <4>2. a + 1 = o + 2
        BY <1>1
      <4> QED BY <1>4, <4>1, <4>2
    <3>5. f # None /\ f + 1 # None
      <4> HIDE DEF f, l
      <4> QED BY <1>1, <3>4 DEF None
    <3> HIDE DEF f, x, l
    <3>6. x.err = "none" /\ x.end = f + 1
      BY <3>1, <3>5 DEF GetString, Delimited, Got
    <3> QED BY <3>4, <3>6
  <2>2. ASSUME NEW type, NEW err, err # "none",
               GetType(v, 1, l + 1)
                 = GetBlock(type, 1, BlockEnd(v, 1, l + 1, v[1], Closer(v[1])), err),
               x = GetBlock(type, a, BlockEnd(w, a, g, v[1], Closer(v[1])), err)
        PROVE  x.err = "none" /\ x.end = (o + l) + 1
    <3> DEFINE e == BlockEnd(v, 1, l + 1, v[1], Closer(v[1]))
               f == BlockEnd(w, a, g, v[1], Closer(v[1]))
    <3>1. e = l + 1
      <4> HIDE DEF e, l
      <4> QED BY <1>3, <2>2 DEF GetBlock, Delimited, Failed, Got, e
    <3>2. f = (o + l) + 1
      BY <3>1, BlockEndPlaced
    <3>3. f # None
      <4> HIDE DEF f, l
      <4> QED BY <1>1, <3>2 DEF None
    <3>4. x = GetBlock(type, a, f, err)
      BY <2>2
    <3> HIDE DEF f, x, l
    <3> QED BY <3>2, <3>3, <3>4 DEF GetBlock, Delimited, Got
  <2>3. CASE v[1] \notin Quotes /\ v[1] = "["
    <3>1. Closer(v[1]) = "]"
      BY <2>3 DEF Closer
    <3>2. /\ GetType(v, 1, l + 1) = GetBlock("Array", 1, BlockEnd(v, 1, l + 1, "[", "]"),
                                             "MalformedArray")
          /\ x = GetBlock("Array", a, BlockEnd(w, a, g, "[", "]"), "MalformedArray")
      BY <1>4, <2>3 DEF GetType
    <3> HIDE DEF x, l, a
    <3> QED BY <2>2, <2>3, <3>1, <3>2
  <2>4. CASE v[1] \notin Quotes /\ v[1] = "{"
    <3>1. Closer(v[1]) = "}"
      BY <2>4 DEF Closer
    <3>2. /\ GetType(v, 1, l + 1) = GetBlock("Object", 1, BlockEnd(v, 1, l + 1, "{", "}"),
                                             "MalformedObject")
          /\ x = GetBlock("Object", a, BlockEnd(w, a, g, "{", "}"), "MalformedObject")
      BY <1>4, <2>4 DEF GetType
    <3> HIDE DEF x, l, a
    <3> QED BY <2>2, <2>4, <3>1, <3>2
  <2> QED BY <1>2, <2>1, <2>3, <2>4
<1>7. StartOf(x) = a
  <2> HIDE DEF x, a, l
  <2>1. CASE x.type = "String"
    <3>1. x.window = <<a + 1, x.end - 1>>
      BY <1>5, <1>6, <2>1 DEF ReadInWindow
    <3> QED BY <1>4, <2>1, <3>1 DEF StartOf
  <2>2. CASE x.type # "String"
    <3>1. x.window = <<a, x.end>>
      BY <1>5, <1>6, <2>2 DEF ReadInWindow
    <3> QED BY <2>2, <3>1 DEF StartOf
  <2> QED BY <2>1, <2>2
<1> QED BY <1>6, <1>7

---------------------------------------------------------------------------
\* What stands where in the text that a splice leaves: the same up to its
\* start, and then the new text.
LEMMA SplicedBytes ==
  ASSUME NEW d \in Texts, NEW e, Ordered(d, e)
  PROVE  /\ Spliced(d, e) \in Texts
         /\ Len(Spliced(d, e)) >= (e.from - 1) + Len(e.text)
         /\ \A x \in 1 .. e.from - 1 : Spliced(d, e)[x] = d[x]
         /\ \A x \in 1 .. Len(e.text) : Spliced(d, e)[(e.from - 1) + x] = e.text[x]
<1> DEFINE n == e.from - 1
           a == SubSeq(d, 1, n)
           t == e.text
           c == SubSeq(d, e.to, Len(d))
           w == Spliced(d, e)
<1>1. /\ Len(d) \in Nat /\ n \in Nat /\ n =< Len(d) /\ e.to \in Nat \ {0}
      /\ t \in Seq(Bytes) /\ Len(t) \in Nat
  <2>1. e.from \in 1 .. Len(d) + 1 /\ e.to \in 1 .. Len(d) + 1 /\ e.text \in Seq(Bytes)
    BY DEF Ordered, GoodEdit, Texts
  <2>2. Len(d) \in Nat /\ Len(t) \in Nat
    BY <2>1, LenProperties DEF Texts
  <2> QED BY <2>1, <2>2
<1>2. \A i \in 1 .. Len(d) : d[i] \in Bytes
  BY ElementOfSeq DEF Texts
<1>3. w = (a \o t) \o c
  BY DEF Spliced
<1> DEFINE to == e.to
<1>4. to \in Nat \ {0} /\ c = SubSeq(d, to, Len(d))
  BY <1>1
<1> HIDE DEF n, t, w, to
<1>5. a \in Seq(Bytes) /\ Len(a) = n /\ \A x \in 1 .. n : a[x] = d[x]
  <2>1. 1 \in Int /\ n \in Int /\ \A i \in 1 .. n : d[i] \in Bytes
    BY <1>1, <1>2
  <2>2. /\ a \in Seq(Bytes) /\ Len(a) = IF 1 =< n THEN n - 1 + 1 ELSE 0
        /\ \A i \in 1 .. n - 1 + 1 : a[i] = d[1 + i - 1]
    BY <2>1, SubSeqProperties
  <2> HIDE DEF a
  <2>3. Len(a) = n
    BY <1>1, <2>2
  <2>4. ASSUME NEW x \in 1 .. n PROVE a[x] = d[x]
    <3>1. x \in 1 .. n - 1 + 1 /\ 1 + x - 1 = x
      BY <1>1
    <3> QED BY <2>2, <3>1
  <2> QED BY <2>2, <2>3, <2>4
<1>6. c \in Seq(Bytes) /\ Len(c) \in Nat
  <2>1. \A i \in to .. Len(d) : d[i] \in Bytes
    BY <1>1, <1>2, <1>4
  <2>2. c \in Seq(Bytes)
    BY <1>1, <1>4, <2>1, SubSeqProperties
  <2> QED BY <2>2, LenProperties
<1> HIDE DEF a, c
<1>7. /\ a \o t \in Seq(Bytes) /\ Len(a \o t) = n + Len(t)
      /\ \A x \in 1 .. n + Len(t) :
           (a \o t)[x] = IF x <= n THEN a[x] ELSE t[x - n]
  BY <1>1, <1>5, ConcatProperties
<1>8. /\ w \in Seq(Bytes) /\ Len(w) = Len(a \o t) + Len(c)
      /\ \A x \in 1 .. Len(a \o t) + Len(c) :
           w[x] = IF x <= Len(a \o t) THEN (a \o t)[x] ELSE c[x - Len(a \o t)]
  BY <1>3, <1>6, <1>7, ConcatProperties
<1>9. \A x \in 1 .. n + Len(t) : w[x] = IF x <= n THEN a[x] ELSE t[x - n]
  <2>1. ASSUME NEW x \in 1 .. n + Len(t) PROVE w[x] = (a \o t)[x]
    <3>1. x \in 1 .. Len(a \o t) + Len(c) /\ x <= Len(a \o t)
      BY <1>1, <1>6, <1>7
    <3> QED BY <1>8, <3>1
  <2> QED BY <1>7, <2>1
<1>10. Len(w) >= n + Len(t)
  BY <1>1, <1>6, <1>7, <1>8
<1>11. ASSUME NEW x \in 1 .. n PROVE w[x] = d[x]
  <2>1. x \in 1 .. n + Len(t) /\ x <= n
    BY <1>1
  <2> QED BY <1>5, <1>9, <2>1
<1>12. ASSUME NEW x \in 1 .. Len(t) PROVE w[n + x] = t[x]
  <2>1. n + x \in 1 .. n + Len(t) /\ ~(n + x <= n) /\ (n + x) - n = x
    BY <1>1
  <2> QED BY <1>9, <2>1
<1>13. w \in Texts
  BY <1>8 DEF Texts
<1> QED BY <1>10, <1>11, <1>12, <1>13 DEF n, t, w

\* The offset at which Get found the value, and where that value begins.
LEMMA GetLeads ==
  ASSUME NEW d \in Texts, NEW keys \in Seq(Seq(STRING)), Get(d, keys).err = "none"
  PROVE  Leads(d, StartScan(keys, <<1, Len(d) + 1>>), Len(d) + 1, StartOf(Get(d, keys)))
<1> DEFINE h == Len(d) + 1
           s == StartScan(keys, <<1, h>>)
           o == FoundFrom(d)[s]
           v == Get(d, keys)
           q == NextToken(d, o, h)
<1>1. h \in Nat
  BY LenProperties DEF Texts
<1>2. s \in Scans
  BY <1>1 DEF StartScan, Scans
<1>3. o \in Nat
  BY <1>2, FoundRange
<1>4. o # None /\ v = ClosestValue(d, o, h) /\ v.err = "none"
  BY DEF Get, GetIn, SearchKeys, ValueAt, Failed
<1> HIDE DEF v, o, h
<1>5. o \in Nat \ {0}
  BY <1>3, <1>4 DEF None
<1>6. q \in o .. h - 1 /\ ReadInWindow(v, q, h)
  BY <1>1, <1>4, <1>5, ClosestValueRange DEF Failed
<1>7. q \in Nat \ {0}
  BY <1>1, <1>5, <1>6
<1> HIDE DEF q
<1>8. StartOf(v) = q
  <2>1. CASE v.type = "String"
    <3>1. v.window = <<q + 1, v.end - 1>>
      BY <1>4, <1>6, <2>1 DEF ReadInWindow
    <3> QED BY <1>7, <2>1, <3>1 DEF StartOf
  <2>2. CASE v.type # "String"
    <3>1. v.window = <<q, v.end>>
      BY <1>4, <1>6, <2>2 DEF ReadInWindow
    <3> QED BY <2>2, <3>1 DEF StartOf
  <2> QED BY <2>1, <2>2
<1> QED BY <1>2, <1>4, <1>8 DEF Leads, v, o, h, q

\* A text that stands in another is a slice of it.
LEMMA PlacedText ==
  ASSUME NEW v \in Texts, NEW w \in Texts, NEW o, Placed(v, w, Len(w) + 1, o)
  PROVE  Text(w, o + 1, (o + Len(v)) + 1) = v
<1> DEFINE m == o + 1
           n == o + Len(v)
           t == SubSeq(w, m, n)
<1>1. /\ Len(v) \in Nat \ {0} /\ o \in Nat /\ n < Len(w) + 1 /\ Len(w) \in Nat
      /\ \A x \in 1 .. Len(v) : w[o + x] = v[x]
  BY LenProperties DEF Placed, Texts
<1>2. m \in Nat \ {0} /\ n \in Nat /\ m <= n /\ n =< Len(w) /\ (n - m) + 1 = Len(v)
  BY <1>1
<1>3. (n + 1) - 1 = n
  BY <1>2
<1>4. Text(w, o + 1, (o + Len(v)) + 1) = t
  BY <1>3 DEF Text
<1>5. \A x \in 1 .. Len(v) : m + x - 1 = o + x
  BY <1>1
<1> HIDE DEF m, n
<1>6. \A i \in m .. n : w[i] \in Bytes
  <2>1. \A i \in m .. n : i \in 1 .. Len(w)
    BY <1>1, <1>2
  <2> QED BY <2>1, ElementOfSeq DEF Texts
<1>7. /\ t \in Seq(Bytes) /\ Len(t) = IF m <= n THEN n - m + 1 ELSE 0
      /\ \A i \in 1 .. n - m + 1 : t[i] = w[m + i - 1]
  BY <1>2, <1>6, SubSeqProperties
<1> HIDE DEF t
<1>8. Len(t) = Len(v)
  BY <1>2, <1>7
<1>9. \A i \in 1 .. Len(t) : t[i] = v[i]
  <2>1. ASSUME NEW i \in 1 .. Len(t) PROVE t[i] = v[i]
    <3>1. i \in 1 .. n - m + 1 /\ i \in 1 .. Len(v)
      BY <1>2, <1>8
    <3> QED BY <1>1, <1>5, <1>7, <3>1
  <2> QED BY <2>1
<1>10. t = v
  BY <1>7, <1>8, <1>9, SeqEqual DEF Texts
<1> QED BY <1>4, <1>10

\* What is put in the place of a value that Get found is what Get finds there.
LEMMA SetReadsBack ==
  ASSUME NEW d \in Texts, NEW value \in Texts, NEW keys \in Seq(Seq(STRING)),
         keys # <<>>, InNamedPlace(keys), EndsItself(value),
         Get(d, keys).err = "none", NEW w,
         w = Spliced(d, Splice(StartOf(Get(d, keys)), Get(d, keys).end, value))
  PROVE  /\ Get(w, keys).err = "none"
         /\ Text(w, StartOf(Get(w, keys)), Get(w, keys).end) = value
<1> DEFINE f == Get(d, keys)
           p == StartOf(f)
           o == p - 1
           e == Splice(p, f.end, value)
           h == Len(d) + 1
           g == Len(w) + 1
           s == StartScan(keys, <<1, h>>)
           t == StartScan(keys, <<1, g>>)
           x == GetType(w, p, g)
<1>1. p \in 1 .. Len(d) /\ f.end \in 2 .. Len(d) + 1 /\ p < f.end
  BY GetRange
<1>2. Leads(d, s, h, p)
  BY GetLeads
<1>3. Len(d) \in Nat /\ Len(value) \in Nat \ {0}
  BY LenProperties, EmptySeq DEF Texts, EndsItself
<1>v. value[1] \in Quotes \cup {"[", "{"}
  BY DEF EndsItself
<1>4. Ordered(d, e) /\ e.from = p /\ e.text = value /\ w = Spliced(d, e)
  <2> HIDE DEF p, f
  <2>1. p \in 1 .. Len(d) + 1 /\ f.end \in 1 .. Len(d) + 1 /\ p =< f.end
    BY <1>1, <1>3
  <2> QED BY <2>1 DEF Ordered, GoodEdit, Splice, p, f
<1>5. /\ w \in Texts /\ Len(w) >= o + Len(value)
      /\ \A y \in 1 .. o : w[y] = d[y]
      /\ \A y \in 1 .. Len(value) : w[o + y] = value[y]
  <2> HIDE DEF e
  <2>1. /\ Spliced(d, e) \in Texts
        /\ Len(Spliced(d, e)) >= (e.from - 1) + Len(e.text)
        /\ \A y \in 1 .. e.from - 1 : Spliced(d, e)[y] = d[y]
        /\ \A y \in 1 .. Len(e.text) : Spliced(d, e)[(e.from - 1) + y] = e.text[y]
    BY <1>4, SplicedBytes
  <2> QED BY <1>4, <2>1
<1>6. Len(w) \in Nat /\ g \in Nat /\ h \in Nat
  BY <1>3, <1>5, LenProperties DEF Texts
<1> HIDE DEF p, f, e
<1>7. o \in Nat /\ p \in Nat \ {0} /\ o + 1 = p /\ p < h /\ o + Len(value) < g /\ p < g
  BY <1>1, <1>3, <1>5, <1>6
<1>8. Placed(value, w, g, o)
  BY <1>3, <1>5, <1>6, <1>7 DEF Placed
<1>9. x.err = "none" /\ StartOf(x) = p /\ x.end = (o + Len(value)) + 1
  <2>1. /\ GetType(w, o + 1, g).err = "none"
        /\ StartOf(GetType(w, o + 1, g)) = o + 1
        /\ GetType(w, o + 1, g).end = (o + Len(value)) + 1
    <3> HIDE DEF g
    <3> QED BY <1>8, ValuePlaced
  <2> QED BY <1>7, <2>1
<1>10. SameUpTo(d, h, w, g, p)
  <2>1. w[p] = value[1]
    <3>1. 1 \in 1 .. Len(value)
      BY <1>3
    <3> QED BY <1>5, <1>7, <3>1
  <2>2. value[1] \notin Blank /\ value[1] # "]"
    <3>1. CASE value[1] \in Quotes
      BY <3>1 DEF Quotes, Quote, Blank
    <3>2. CASE value[1] \in {"[", "{"}
      BY <3>2 DEF Blank
    <3> QED BY <1>v, <3>1, <3>2
  <2> HIDE DEF h, g
  <2> QED BY <1>5, <1>6, <1>7, <2>1, <2>2 DEF SameUpTo
<1>11. Wider(s, t, h, g) /\ s.keys = keys /\ s \in Scans
  <2> HIDE DEF h, g
  <2> QED BY <1>6 DEF Wider, StartScan, Scans
<1> DEFINE q == FoundFrom(w)[t]
<1>12. q \in Nat \ {0} /\ NextToken(w, q, g) = p
  <2> HIDE DEF s, t, h, g
  <2> QED BY <1>2, <1>9, <1>10, <1>11, FoundStays
<1>13. Get(w, keys) = x
  <2>1. Get(w, keys) = ValueAt(w, q, g)
    BY DEF Get, GetIn, SearchKeys
  <2> HIDE DEF q, g
  <2> QED BY <1>7, <1>12, <2>1 DEF ValueAt, ClosestValue, None
<1>14. Text(w, o + 1, (o + Len(value)) + 1) = value
  BY <1>5, <1>8, PlacedText
<1> HIDE DEF x
<1> QED BY <1>7, <1>9, <1>13, <1>14
---------------------------------------------------------------------------
\* After a call of Set, the document is what Set made of the text it was given.
SetInv ==
  call.name = "Set" =>
    /\ call.path \in Seq(Seq(STRING)) /\ call.value \in Texts
    /\ edit = Set(given, call.path, call.value)
    /\ document = IF edit.err = "none" THEN Spliced(given, edit) ELSE given

\* A call records what it was given and what it made of it.
LEMMA SetInvNext == [EditNext]_editVars /\ SetInv => SetInv'
<1> SUFFICES ASSUME [EditNext]_editVars, SetInv PROVE SetInv'
  OBVIOUS
<1>1. CASE SetCall
  <2>1. PICK keys \in Paths, value \in Values :
          Call("Set", keys, value, Set(document, keys, value))
    BY <1>1 DEF SetCall
  <2>2. keys \in Seq(Seq(STRING)) /\ value \in Texts
    BY CallsAssumption, StringsAreBytes DEF Texts
  <2>3. call'.path = keys /\ call'.value = value
    BY <2>1 DEF Call
  <2>4. /\ edit' = Set(document, keys, value) /\ given' = document
        /\ document' = IF edit'.err = "none" THEN Spliced(document, edit') ELSE document
    BY <2>1 DEF Call
  <2> QED BY <2>2, <2>3, <2>4 DEF SetInv
<1>2. CASE DeleteCall \/ AppendCall
  <2>1. call'.name # "Set"
    <3>1. \A name, keys, value, e : Call(name, keys, value, e) => call'.name = name
      BY DEF Call
    <3>2. CASE DeleteCall
      <4>1. call'.name = "Delete"
        BY <3>1, <3>2 DEF DeleteCall
      <4> QED BY <4>1
    <3>3. CASE AppendCall
      <4>1. call'.name = "Append"
        BY <3>1, <3>3 DEF AppendCall
      <4> QED BY <4>1
    <3> QED BY <1>2, <3>2, <3>3
  <2> QED BY <2>1 DEF SetInv
<1>3. CASE UNCHANGED editVars
  BY <1>3 DEF SetInv, editVars
<1> QED BY <1>1, <1>2, <1>3 DEF EditNext

\* In such a state, what was put in the place of a value is read there.
LEMMA SetInvReads ==
  ASSUME EditInv, SetInv
  PROVE  SetIsRead
<1> SUFFICES ASSUME call.name = "Set", call.path # <<>>, InNamedPlace(call.path),
                    EndsItself(call.value), Get(given, call.path).err = "none"
             PROVE  Reads(Get(document, call.path), call.value)
  BY DEF SetIsRead
<1> DEFINE f == Get(given, call.path)
           e == Splice(StartOf(f), f.end, call.value)
<1>1. /\ given \in Texts /\ call.path \in Seq(Seq(STRING)) /\ call.value \in Texts
      /\ edit = Set(given, call.path, call.value)
      /\ document = IF edit.err = "none" THEN Spliced(given, edit) ELSE given
  BY DEF EditInv, SetInv
<1>2. edit = e
  BY <1>1 DEF Set, SetAt
<1>3. e.err = "none"
  BY DEF Splice
<1>4. document = Spliced(given, e)
  BY <1>1, <1>2, <1>3
<1> HIDE DEF e
<1>5. /\ Get(document, call.path).err = "none"
      /\ Text(document, StartOf(Get(document, call.path)), Get(document, call.path).end)
           = call.value
  BY <1>1, <1>4, SetReadsBack DEF e
<1> QED BY <1>5 DEF Reads

\* Whatever the text, JSON or not, and however many calls came before: what Set
\* puts in the place of a value that Get found is what Get finds there
\* afterwards.  The search takes the same way up to the value, which ends where
\* it ended on its own.
THEOREM SetIsReadAlways == EditSpec => []SetIsRead
<1>1. EditInit => SetInv
  BY DEF EditInit, NoCall, SetInv
<1>2. EditInv /\ SetInv => SetIsRead
  BY SetInvReads
<1> QED BY <1>1, <1>2, SetInvNext, EditInvInit, EditInvNext, PTL DEF EditSpec

---------------------------------------------------------------------------
\* A cut does not mislead Set and Append.  Where the value at the path is found in
\* a text that was cut, and ends before the cut, both make the very splice they
\* make in the whole text, JSON or not (SYS-REQ-048 and 050).
THEOREM CutIsEditedAsWhole ==
  ASSUME NEW d \in Texts, NEW w \in Texts, IsCutOf(d, w),
         NEW keys \in Seq(Seq(STRING)), NEW value \in Texts,
         Get(d, keys).err = "none", Get(d, keys).end =< Len(d)
  PROVE  /\ Set(w, keys, value) = Set(d, keys, value)
         /\ AppendValue(w, keys, value) = AppendValue(d, keys, value)
<1> DEFINE f == Get(d, keys)
           start == StartOf(f)
           close == f.end - 1
<1>1. /\ Len(d) \in Nat /\ start \in 1 .. Len(d) /\ f.end \in 2 .. Len(d) + 1
      /\ f.end # Len(d) + 1
  BY GetRange, LenProperties DEF Texts
<1>2. Get(w, keys) = f /\ f.err = "none"
  BY <1>1, GetOfCut
<1>3. Set(w, keys, value) = Set(d, keys, value)
  BY <1>2 DEF Set, SetAt
<1>4. \A x \in 1 .. Len(d) : d[x] = w[x]
  BY DEF IsCutOf
<1> HIDE DEF f, start
<1>5. close \in 1 .. Len(d) /\ start + 1 \in Nat \ {0}
  BY <1>1
<1> HIDE DEF close
<1>6. d[close] = w[close]
  BY <1>4, <1>5
<1>7. NextToken(w, start + 1, close) = NextToken(d, start + 1, close)
  <2>1. \A x \in start + 1 .. close - 1 : d[x] = w[x]
    BY <1>1, <1>4, <1>5
  <2> QED BY <2>1 DEF NextToken
<1>8. AppendTo(w, value, f) = AppendTo(d, value, f)
  BY <1>6, <1>7 DEF AppendTo, close, start
<1>9. AppendValue(w, keys, value) = AppendValue(d, keys, value)
  BY <1>2, <1>8 DEF AppendValue, AppendAt, f
<1> QED BY <1>3, <1>9
=============================================================================
