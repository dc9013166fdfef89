-------------------------- MODULE SearchKeysProofs --------------------------
(***************************************************************************)
(* For every text and every key path: the scan of searchKeys never indexes *)
(* the path out of range, and neither the scan, the element loop nor the   *)
(* final read takes a slice of the data out of range - on malformed and    *)
(* truncated text as well as on JSON.  And step by step the scan computes  *)
(* what Get is as a function of the text, so that what it answers on a     *)
(* text cut short is the answer of the whole text.                         *)
(***************************************************************************)
EXTENDS SearchLookup, LookupProofs

TextInv == /\ data \in Seq(STRING) /\ keys \in Seq(Seq(STRING))
           /\ lo \in Nat \ {0} /\ hi \in Nat /\ i \in Nat
           /\ lo =< i /\ i =< hi /\ hi =< Len(data) + 1
           /\ pc \in {"scan", "array", "element", "locate", "done"}

\* While the scan runs the match is never complete, and after an unbalanced
\* closing brace keyLevel is below level for good: that is what makes the
\* unguarded keys[level] safe.
CountersInv ==
  /\ level \in Int /\ keyLevel \in Int /\ lastMatched \in BOOLEAN
  /\ pc = "scan" => keyLevel < Len(keys) /\ (keyLevel < 0 => keyLevel < level)
  /\ pc \in {"array", "element"} => level + 1 \in 1 .. Len(keys) /\ i < hi

\* The element loop: its first element starts at a token, and every later one
\* at least three bytes into the array - the quotes counted back from the end
\* of an unterminated string stay inside it.
ElementInv ==
  /\ elem.index \in Nat
  /\ elem.off = None \/ elem.off \in i + 1 .. hi
  /\ pc \in {"scan", "locate"} => elem = NoElement
  /\ pc = "array" => /\ elem.off \in i + 1 .. hi
                     /\ \/ elem.off >= i + 3
                        \/ /\ elem.off < hi
                           /\ data[elem.off] \notin Blank
  /\ elem.found = NoWindow \/ WindowIn(elem.found, i + 1, hi)

AnswerInv ==
  /\ offset = None \/ offset \in 1 .. Len(data) + 1
  /\ pc = "locate" => offset \in lo .. hi
  /\ pc # "done" => value = Unanswered
  /\ value.window = NoWindow \/ WindowIn(value.window, lo, Len(data) + 1)

SearchInv == TextInv /\ CountersInv /\ ElementInv /\ AnswerInv

---------------------------------------------------------------------------
\* Get's start satisfies the invariant, on any text and any path.
LEMMA SearchInvInit == Init => SearchInv
<1> SUFFICES ASSUME Init PROVE SearchInv
  OBVIOUS
<1>1. Len(data) \in Nat /\ Len(keys) \in Nat
  BY LenProperties DEF Init
<1>2. keys # <<>> => Len(keys) > 0
  BY EmptySeq, LenProperties DEF Init
<1>3. TextInv
  BY <1>1 DEF Init, TextInv
<1>4. CountersInv
  BY <1>1, <1>2 DEF Init, CountersInv
<1>5. ElementInv
  BY DEF Init, ElementInv, NoElement, None
<1>6. AnswerInv
  BY <1>1 DEF Init, AnswerInv, Unanswered, Failed, None
<1> QED BY <1>3, <1>4, <1>5, <1>6 DEF SearchInv

\* -1: nothing changes but the answer.
LEMMA NotFoundKeeps == SearchInv /\ NotFound => SearchInv'
<1> SUFFICES ASSUME SearchInv, NotFound PROVE SearchInv'
  OBVIOUS
<1>1. /\ pc' = "done" /\ value' = NotFoundValue
      /\ data' = data /\ keys' = keys /\ lo' = lo /\ hi' = hi /\ i' = i
      /\ level' = level /\ keyLevel' = keyLevel /\ lastMatched' = lastMatched
      /\ elem' = elem /\ offset' = offset
  BY DEF NotFound, counters
<1>2. TextInv'
  BY <1>1 DEF SearchInv, TextInv
<1>3. CountersInv'
  BY <1>1 DEF SearchInv, CountersInv
<1>4. ElementInv'
  BY <1>1 DEF SearchInv, ElementInv, WindowIn
<1>5. AnswerInv'
  BY <1>1 DEF SearchInv, AnswerInv, NotFoundValue, Failed
<1> QED BY <1>2, <1>3, <1>4, <1>5 DEF SearchInv

\* The counters are still those of an incomplete match.
IncompleteMatch ==
  /\ level \in Int /\ keyLevel \in Int /\ lastMatched \in BOOLEAN
  /\ keyLevel < Len(keys)
  /\ keyLevel < 0 => keyLevel < level

\* The scan goes on, further to the right.
LEMMA MoveKeeps ==
  ASSUME SearchInv, pc = "scan", NEW p, p \in i .. hi, MoveTo(p),
         IncompleteMatch'
  PROVE  SearchInv'
<1>1. /\ data' = data /\ keys' = keys /\ lo' = lo /\ hi' = hi /\ i' = p
      /\ elem' = elem /\ pc' = pc /\ offset' = offset /\ value' = value
  BY DEF MoveTo, input, answer
<1>2. TextInv'
  BY <1>1 DEF SearchInv, TextInv
<1>3. CountersInv'
  BY <1>1 DEF CountersInv, IncompleteMatch
<1>4. ElementInv'
  BY <1>1 DEF SearchInv, ElementInv, NoElement
<1>5. AnswerInv'
  BY <1>1 DEF SearchInv, AnswerInv, WindowIn
<1> QED BY <1>2, <1>3, <1>4, <1>5 DEF SearchInv

\* While the scan is under way its position is a position of the text.
LEMMA ScanningFacts ==
  ASSUME SearchInv, Scanning
  PROVE  /\ pc = "scan" /\ i \in Nat \ {0} /\ hi \in Nat /\ i < hi
         /\ i + 1 \in i .. hi
         /\ Len(keys) \in Nat
         /\ IncompleteMatch
BY LenProperties
   DEF SearchInv, Scanning, TextInv, CountersInv, IncompleteMatch

\* A token after a string lies after it.
LEMMA AfterStringRange ==
  ASSUME SearchInv, AtString, AfterString # None
  PROVE  AfterString \in i + 1 .. hi - 1
<1>1. i \in Nat \ {0} /\ hi \in Nat /\ i < hi
  BY ScanningFacts DEF AtString
<1>2. ClosingQuote # None /\ AfterString = NextToken(data, ClosingQuote + 1, hi)
  BY DEF AfterString
<1>3. ClosingQuote \in i + 1 .. hi - 1
  BY <1>1, <1>2, StringEndRange DEF ClosingQuote
<1>4. ClosingQuote + 1 \in Nat \ {0}
  BY <1>1, <1>3
<1>5. \/ NextToken(data, ClosingQuote + 1, hi) = None
      \/ NextToken(data, ClosingQuote + 1, hi) \in ClosingQuote + 1 .. hi - 1
  BY <1>1, <1>4, NextTokenRange
<1> QED BY <1>1, <1>2, <1>3, <1>5

---------------------------------------------------------------------------
\* The cases of the scan that start at a quote keep the invariant.
LEMMA StringsKeep ==
  ASSUME SearchInv, ValueString \/ OtherKey PROVE SearchInv'
<1>1. CASE ValueString
  <2>1. AtString /\ AfterString # None /\ MoveTo(AfterString)
        /\ UNCHANGED counters
    BY <1>1 DEF ValueString
  <2>2. /\ pc = "scan" /\ IncompleteMatch /\ i \in Nat /\ hi \in Nat
        /\ AfterString \in i .. hi
    BY <2>1, ScanningFacts, AfterStringRange DEF AtString
  <2>3. IncompleteMatch'
    BY <2>1, <2>2 DEF IncompleteMatch, counters, MoveTo, input
  <2> QED BY <2>1, <2>2, <2>3, MoveKeeps
<1>2. CASE OtherKey
  <2>1. /\ AtString /\ AfterString # None /\ MoveTo(AfterString + 1)
        /\ lastMatched' = FALSE /\ level' = level /\ keyLevel' = keyLevel
    BY <1>2 DEF OtherKey, AtKey
  <2>2. /\ pc = "scan" /\ IncompleteMatch /\ i \in Nat /\ hi \in Nat
        /\ AfterString + 1 \in i .. hi
    BY <2>1, ScanningFacts, AfterStringRange DEF AtString
  <2>3. IncompleteMatch'
    BY <2>1, <2>2 DEF IncompleteMatch, MoveTo, input
  <2> QED BY <2>1, <2>2, <2>3, MoveKeeps
<1> QED BY <1>1, <1>2

\* A complete match is the only way a key ends the scan, so an incomplete one
\* stays short of the path.
LEMMA MatchingKeyKeeps ==
  ASSUME SearchInv, MatchingKey PROVE SearchInv'
<1>1. /\ AtString /\ AfterString # None
      /\ level >= 1 /\ level =< Len(keys)
      /\ lastMatched' = TRUE /\ level' = level
      /\ keyLevel' = IF keyLevel = level - 1 THEN keyLevel + 1 ELSE keyLevel
  BY DEF MatchingKey, AtKey, UsableKey
<1>2. /\ pc = "scan" /\ IncompleteMatch /\ i \in Nat /\ hi \in Nat
      /\ Len(keys) \in Nat
      /\ AfterString + 1 \in i + 1 .. hi
  BY <1>1, ScanningFacts, AfterStringRange DEF AtString
<1>3. CASE keyLevel = level - 1 /\ keyLevel' = Len(keys)
  <2>1. Found(AfterString + 1) /\ UNCHANGED <<input, i, elem>>
    BY <1>3 DEF MatchingKey
  <2>2. /\ data' = data /\ keys' = keys /\ lo' = lo /\ hi' = hi /\ i' = i
        /\ elem' = elem /\ pc' = "locate" /\ offset' = AfterString + 1
        /\ value' = value
    BY <2>1 DEF Found, input
  <2>3. TextInv'
    BY <2>2 DEF SearchInv, TextInv
  <2>4. CountersInv'
    BY <1>1, <1>2, <2>2 DEF CountersInv, IncompleteMatch
  <2>5. ElementInv'
    BY <1>2, <2>2 DEF SearchInv, ElementInv, NoElement
  <2>6. AfterString + 1 \in lo .. hi /\ AfterString + 1 \in 1 .. Len(data) + 1
    BY <1>2, LenProperties DEF SearchInv, TextInv
  <2>7. AnswerInv'
    BY <1>2, <2>2, <2>6 DEF SearchInv, AnswerInv, WindowIn
  <2> QED BY <2>3, <2>4, <2>5, <2>7 DEF SearchInv
<1>4. CASE ~(keyLevel = level - 1 /\ keyLevel' = Len(keys))
  <2>1. MoveTo(AfterString + 1)
    BY <1>4 DEF MatchingKey
  <2>2. IncompleteMatch'
    BY <1>1, <1>2, <1>4, <2>1 DEF IncompleteMatch, MoveTo, input
  <2>3. AfterString + 1 \in i .. hi
    BY <1>2
  <2> QED BY <1>2, <2>1, <2>2, <2>3, MoveKeeps
<1> QED BY <1>3, <1>4

\* The cases of the scan that start at a brace keep the invariant.
LEMMA BracesKeep ==
  ASSUME SearchInv, OpenBrace \/ SkipObject \/ CloseBrace \/ SkipByte
  PROVE  SearchInv'
<1>1. /\ pc = "scan" /\ IncompleteMatch /\ i \in Nat \ {0} /\ hi \in Nat
      /\ Len(keys) \in Nat /\ i + 1 \in i .. hi
  BY ScanningFacts DEF OpenBrace, SkipObject, CloseBrace, SkipByte
<1>2. CASE OpenBrace
  <2>1. /\ MoveTo(i + 1) /\ keys' = keys /\ level' = level + 1
        /\ keyLevel' = keyLevel /\ lastMatched' = lastMatched
    BY <1>2 DEF OpenBrace, MoveTo, input
  <2>2. IncompleteMatch'
    BY <1>1, <2>1 DEF IncompleteMatch
  <2> QED BY <1>1, <2>1, <2>2, MoveKeeps
<1>3. CASE SkipObject
  <2> DEFINE end == BlockEnd(data, i, hi, "{", "}")
  <2>1. CASE end = None
    BY <1>3, <2>1, NotFoundKeeps DEF SkipObject
  <2>2. CASE end # None
    <3>1. MoveTo(end) /\ UNCHANGED counters
      BY <1>3, <2>2 DEF SkipObject
    <3>2. end \in i .. hi
      <4>1. end \in i + 1 .. hi
        BY <1>1, <2>2, BlockEndRange
      <4> HIDE DEF end
      <4> QED BY <1>1, <4>1
    <3>3. IncompleteMatch'
      BY <1>1, <3>1 DEF IncompleteMatch, counters, MoveTo, input
    <3> QED BY <1>1, <3>1, <3>2, <3>3, MoveKeeps
  <2> QED BY <2>1, <2>2
<1>4. CASE CloseBrace
  <2>1. /\ MoveTo(i + 1) /\ keys' = keys /\ level' = level - 1
        /\ keyLevel' = IF level' = keyLevel THEN keyLevel - 1 ELSE keyLevel
        /\ lastMatched' = lastMatched
    BY <1>4 DEF CloseBrace, MoveTo, input
  <2>2. IncompleteMatch'
    <3>1. CASE level' = keyLevel
      BY <1>1, <2>1, <3>1 DEF IncompleteMatch
    <3>2. CASE level' # keyLevel
      BY <1>1, <2>1, <3>2 DEF IncompleteMatch
    <3> QED BY <3>1, <3>2
  <2> QED BY <1>1, <2>1, <2>2, MoveKeeps
<1>5. CASE SkipByte
  <2>1. IncompleteMatch'
    BY <1>1, <1>5 DEF SkipByte, IncompleteMatch, counters, MoveTo, input
  <2> QED BY <1>1, <1>5, <2>1, MoveKeeps DEF SkipByte
<1> QED BY <1>2, <1>3, <1>4, <1>5

---------------------------------------------------------------------------
\* At an array of the matched level the path still has a component.
LEMMA WantedComponentExists ==
  ASSUME SearchInv, Scanning, keyLevel = level
  PROVE  level + 1 \in 1 .. Len(keys)
<1>1. IncompleteMatch /\ Len(keys) \in Nat
  BY ScanningFacts
<1> QED BY <1>1 DEF IncompleteMatch

\* The element loop and its entry and exits keep the invariant.
LEMMA ArraysKeep ==
  ASSUME SearchInv, SkipArray \/ EnterArray
  PROVE  SearchInv'
<1>1. /\ pc = "scan" /\ IncompleteMatch /\ i \in Nat \ {0} /\ hi \in Nat
      /\ i < hi /\ Scanning
  BY ScanningFacts DEF SkipArray, EnterArray
<1>2. CASE SkipArray
  <2> DEFINE end == BlockEnd(data, i, hi, "[", "]")
  <2>1. CASE end = None
    BY <1>2, <2>1, NotFoundKeeps DEF SkipArray
  <2>2. CASE end # None
    <3>1. MoveTo(end) /\ UNCHANGED counters
      BY <1>2, <2>2 DEF SkipArray
    <3>2. end \in i .. hi
      <4>1. end \in i + 1 .. hi
        BY <1>1, <2>2, BlockEndRange
      <4> HIDE DEF end
      <4> QED BY <1>1, <4>1
    <3>3. IncompleteMatch'
      BY <1>1, <3>1 DEF IncompleteMatch, counters, MoveTo, input
    <3> QED BY <1>1, <3>1, <3>2, <3>3, MoveKeeps
  <2> QED BY <2>1, <2>2
<1>3. CASE EnterArray
  <2> DEFINE first == NextToken(data, i + 1, hi)
             gives == \/ ~IsIndex(keys[level + 1]) \/ first = None
                      \/ data[first] = "]"
  <2>1. CASE gives
    BY <1>3, <2>1, NotFoundKeeps DEF EnterArray
  <2>2. CASE ~gives
    <3>1. /\ pc' = "array"
          /\ elem' = [off |-> first, index |-> 0, found |-> NoWindow]
          /\ UNCHANGED <<input, i, counters, answer>>
      BY <1>3, <2>2 DEF EnterArray
    <3>2. /\ data' = data /\ keys' = keys /\ lo' = lo /\ hi' = hi /\ i' = i
          /\ level' = level /\ keyLevel' = keyLevel
          /\ lastMatched' = lastMatched /\ offset' = offset /\ value' = value
      BY <3>1 DEF input, counters, answer
    <3>3. first \in i + 1 .. hi - 1 /\ data[first] \notin Blank
      BY <1>1, <2>2, NextTokenRange
    <3>4. level + 1 \in 1 .. Len(keys)
      BY <1>1, <1>3, WantedComponentExists DEF EnterArray, WantsElement
    <3>5. TextInv'
      BY <3>1, <3>2 DEF SearchInv, TextInv
    <3>6. CountersInv'
      BY <1>1, <3>1, <3>2, <3>4 DEF SearchInv, CountersInv
    <3> HIDE DEF first
    <3>7. ElementInv'
      <4>1. /\ elem'.off = first /\ elem'.index = 0 /\ elem'.found = NoWindow
            /\ first \in i + 1 .. hi /\ first < hi
        BY <1>1, <3>1, <3>3
      <4> QED BY <3>1, <3>2, <3>3, <4>1 DEF ElementInv
    <3>8. AnswerInv'
      BY <1>1, <3>1, <3>2 DEF SearchInv, AnswerInv, WindowIn
    <3> QED BY <3>5, <3>6, <3>7, <3>8 DEF SearchInv
  <2> QED BY <2>1, <2>2
<1> QED BY <1>2, <1>3

\* One turn of the element loop.
LEMMA NextElementKeeps ==
  ASSUME SearchInv, NextElement
  PROVE  SearchInv'
<1> DEFINE v == ClosestValue(data, elem.off, hi)
           heard == v.end # elem.off
           next == IF heard /\ v.err = "none" THEN NextToken(data, v.end, hi)
                   ELSE None
           more == next # None /\ data[next] = ","
           wanted == heard /\ elem.index = Index(keys[level + 1])
           found == IF wanted THEN ElementWindow(v) ELSE elem.found
<1>1. /\ pc = "array" /\ pc' \in {"array", "element"}
      /\ pc' = IF more THEN "array" ELSE "element"
      /\ elem' = [off |-> IF more THEN next + 1 ELSE elem.off,
                  index |-> IF heard THEN elem.index + 1 ELSE elem.index,
                  found |-> found]
  BY DEF NextElement
<1>2. /\ data' = data /\ keys' = keys /\ lo' = lo /\ hi' = hi /\ i' = i
      /\ level' = level /\ keyLevel' = keyLevel
      /\ lastMatched' = lastMatched /\ offset' = offset /\ value' = value
  BY DEF NextElement, input, counters, answer
<1>3. /\ i \in Nat \ {0} /\ hi \in Nat /\ i < hi
      /\ elem.off \in i + 1 .. hi /\ elem.off \in Nat \ {0}
      /\ elem.index \in Nat
  <2>1. /\ i \in Nat /\ lo \in Nat \ {0} /\ lo =< i /\ hi \in Nat
    BY DEF SearchInv, TextInv
  <2>2. i < hi
    BY <1>1 DEF SearchInv, CountersInv
  <2>3. elem.off \in i + 1 .. hi /\ elem.index \in Nat
    BY <1>1 DEF SearchInv, ElementInv
  <2> QED BY <2>1, <2>2, <2>3
<1>4. \/ v = Failed("NotExist", None, "MalformedJson")
      \/ /\ NextToken(data, elem.off, hi) \in elem.off .. hi - 1
         /\ ReadInWindow(v, NextToken(data, elem.off, hi), hi)
  BY <1>3, ClosestValueRange
<1>5. elem.off >= i + 3 \/ (elem.off < hi /\ data[elem.off] \notin Blank)
  BY <1>1 DEF SearchInv, ElementInv
<1>6. \/ elem.off >= i + 3
      \/ NextToken(data, elem.off, hi) = elem.off
  BY <1>3, <1>5, NextTokenRange
<1> HIDE DEF v
<1>7. found = NoWindow \/ WindowIn(found, i + 1, hi)
  <2>1. CASE ~wanted
    BY <2>1 DEF SearchInv, ElementInv
  <2>2. CASE wanted /\ v = Failed("NotExist", None, "MalformedJson")
    <3>1. ElementWindow(v) = NoWindow
      BY <2>2 DEF ElementWindow, Failed
    <3> QED BY <2>2, <3>1
  <2>3. CASE /\ wanted
             /\ NextToken(data, elem.off, hi) \in elem.off .. hi - 1
             /\ ReadInWindow(v, NextToken(data, elem.off, hi), hi)
    <3> DEFINE p == NextToken(data, elem.off, hi)
    <3>1. /\ p \in Nat /\ elem.off =< p /\ p < hi /\ i < elem.off
          /\ v.end # elem.off /\ (elem.off >= i + 3 \/ p = elem.off)
          /\ ReadInWindow(v, p, hi)
      BY <1>3, <1>6, <2>3
    <3> HIDE DEF p
    <3>2. ElementWindow(v) = NoWindow \/ WindowIn(ElementWindow(v), i + 1, hi)
      BY <1>3, <3>1, ElementWindowRange
    <3> QED BY <2>3, <3>2
  <2> QED BY <1>4, <2>1, <2>2, <2>3
<1>8. ASSUME more
      PROVE  next \in i + 2 .. hi - 1
  <2> DEFINE p == NextToken(data, elem.off, hi)
             end == v.end
  <2>1. heard /\ v.err = "none" /\ next = NextToken(data, end, hi) /\ next # None
    BY <1>8
  <2>2. v # Failed("NotExist", None, "MalformedJson")
    BY <2>1 DEF Failed
  <2>3. p \in elem.off .. hi - 1 /\ ReadInWindow(v, p, hi)
    BY <1>4, <2>2
  <2> HIDE DEF next, p
  <2>4. end \in p + 1 .. hi
    BY <1>3, <2>1, <2>3 DEF ReadInWindow
  <2> HIDE DEF end
  <2>5. end \in Nat \ {0} /\ end >= i + 2
    BY <1>3, <2>3, <2>4
  <2>6. next \in end .. hi - 1
    BY <1>3, <2>1, <2>5, NextTokenRange
  <2> QED BY <1>3, <2>5, <2>6
<1> HIDE DEF next, heard, more, found
<1>9. TextInv'
  BY <1>1, <1>2 DEF SearchInv, TextInv
<1>10. CountersInv'
  BY <1>1, <1>2 DEF SearchInv, CountersInv
<1>11. ElementInv'
  <2>1. /\ elem'.found = found /\ elem'.index \in Nat
        /\ elem'.off = IF more THEN next + 1 ELSE elem.off
    BY <1>1, <1>3
  <2>2. /\ elem'.off \in i + 1 .. hi
        /\ more => elem'.off >= i + 3
    BY <1>3, <1>8, <2>1
  <2>3. pc' = "array" => more
    BY <1>1
  <2> QED BY <1>1, <1>2, <1>7, <2>1, <2>2, <2>3 DEF ElementInv
<1>12. AnswerInv'
  BY <1>1, <1>2 DEF SearchInv, AnswerInv, WindowIn
<1> QED BY <1>9, <1>10, <1>11, <1>12 DEF SearchInv

\* The recursive call starts over on the element, with what is left of the path.
LEMMA SearchElementKeeps ==
  ASSUME SearchInv, SearchElement
  PROVE  SearchInv'
<1> DEFINE rest == SubSeq(keys, level + 2, Len(keys))
<1>1. /\ pc = "element" /\ elem.found # NoWindow
      /\ keys' = rest /\ lo' = elem.found[1] /\ hi' = elem.found[2]
      /\ i' = elem.found[1] /\ data' = data
      /\ level' = 0 /\ keyLevel' = 0 /\ lastMatched' = TRUE
      /\ elem' = NoElement
      /\ \/ rest = <<>> /\ Found(elem.found[1])
         \/ rest # <<>> /\ pc' = "scan" /\ UNCHANGED answer
  BY DEF SearchElement
<1>2. PICK l, r \in Nat : elem.found = <<l, r>> /\ i + 1 =< l /\ l =< r /\ r =< hi
  BY <1>1 DEF SearchInv, ElementInv, WindowIn
<1>3. elem.found[1] = l /\ elem.found[2] = r
  BY <1>2
<1>4. /\ data \in Seq(STRING) /\ keys \in Seq(Seq(STRING))
      /\ i \in Nat /\ hi \in Nat /\ hi =< Len(data) + 1
      /\ Len(data) \in Nat /\ Len(keys) \in Nat /\ level + 1 \in 1 .. Len(keys)
      /\ level \in Int /\ value = Unanswered
  BY <1>1, LenProperties DEF SearchInv, TextInv, CountersInv, AnswerInv
<1>5. rest \in Seq(Seq(STRING)) /\ (rest # <<>> => Len(rest) > 0)
  <2>1. \A k \in level + 2 .. Len(keys) : keys[k] \in Seq(STRING)
    BY <1>4, ElementOfSeq
  <2>2. rest \in Seq(Seq(STRING))
    BY <1>4, <2>1, SubSeqProperties
  <2> HIDE DEF rest
  <2> QED BY <2>2, EmptySeq, LenProperties
<1> HIDE DEF rest
<1>6. /\ \/ pc' = "scan" /\ offset' = offset /\ rest # <<>>
         \/ pc' = "locate" /\ offset' = l
      /\ value' = value
  BY <1>1, <1>3 DEF Found, answer
<1>7. TextInv'
  BY <1>1, <1>2, <1>3, <1>4, <1>5, <1>6 DEF TextInv
<1>8. CountersInv'
  BY <1>1, <1>5, <1>6 DEF CountersInv
<1>9. ElementInv'
  BY <1>1, <1>6 DEF ElementInv, NoElement, None
<1>10. AnswerInv'
  <2>1. l \in 1 .. Len(data) + 1 /\ l \in l .. r
    BY <1>2, <1>4
  <2>2. offset' = None \/ offset' \in 1 .. Len(data) + 1
    BY <1>6, <2>1 DEF SearchInv, AnswerInv
  <2>3. pc' = "locate" => offset' \in l .. r
    BY <1>6, <2>1
  <2>4. value' = Unanswered /\ value'.window = NoWindow
    BY <1>4, <1>6 DEF Unanswered, Failed
  <2> QED BY <1>1, <1>3, <2>2, <2>3, <2>4 DEF AnswerInv
<1> QED BY <1>7, <1>8, <1>9, <1>10 DEF SearchInv

\* The final read looks from the offset to the end of the whole text.
LEMMA LocateKeeps ==
  ASSUME SearchInv, Locate
  PROVE  SearchInv'
<1> DEFINE v == ClosestValue(data, offset, Len(data) + 1)
<1>1. /\ pc = "locate" /\ pc' = "done" /\ value' = v
      /\ data' = data /\ keys' = keys /\ lo' = lo /\ hi' = hi /\ i' = i
      /\ level' = level /\ keyLevel' = keyLevel
      /\ lastMatched' = lastMatched /\ elem' = elem /\ offset' = offset
  BY DEF Locate, input, counters
<1>2. /\ offset \in lo .. hi /\ lo \in Nat \ {0} /\ hi \in Nat
      /\ Len(data) \in Nat /\ Len(data) + 1 \in Nat /\ offset \in Nat \ {0}
  BY <1>1, LenProperties DEF SearchInv, TextInv, AnswerInv
<1>3. \/ v = Failed("NotExist", None, "MalformedJson")
      \/ /\ NextToken(data, offset, Len(data) + 1)
              \in offset .. (Len(data) + 1) - 1
         /\ ReadInWindow(v, NextToken(data, offset, Len(data) + 1), Len(data) + 1)
  BY <1>2, ClosestValueRange
<1> HIDE DEF v
<1>4. v.window = NoWindow \/ WindowIn(v.window, lo, Len(data) + 1)
  <2>1. CASE v = Failed("NotExist", None, "MalformedJson")
    BY <2>1 DEF Failed
  <2>2. ASSUME NEW p \in offset .. Len(data), ReadInWindow(v, p, Len(data) + 1),
               v.window # NoWindow
        PROVE  WindowIn(v.window, lo, Len(data) + 1)
    <3>1. p \in Nat /\ lo =< p
      BY <1>2
    <3>2. CASE v.end \in p + 2 .. Len(data) + 1 /\ v.window = <<p + 1, v.end - 1>>
      <4>1. /\ p + 1 \in Nat /\ v.end - 1 \in Nat /\ lo =< p + 1
            /\ p + 1 =< v.end - 1 /\ v.end - 1 =< Len(data) + 1
        BY <1>2, <3>1, <3>2
      <4> QED BY <3>2, <4>1 DEF WindowIn
    <3>3. CASE v.end \in p + 1 .. Len(data) + 1 /\ v.window = <<p, v.end>>
      <4>1. v.end \in Nat /\ p =< v.end /\ v.end =< Len(data) + 1
        BY <1>2, <3>1, <3>3
      <4> QED BY <3>1, <3>3, <4>1 DEF WindowIn
    <3> QED BY <2>2, <3>2, <3>3 DEF ReadInWindow
  <2>3. (Len(data) + 1) - 1 = Len(data)
    BY <1>2
  <2> QED BY <1>3, <2>1, <2>2, <2>3
<1>5. TextInv'
  BY <1>1 DEF SearchInv, TextInv
<1>6. CountersInv'
  BY <1>1 DEF SearchInv, CountersInv
<1>7. ElementInv'
  BY <1>1 DEF SearchInv, ElementInv, WindowIn
<1>8. AnswerInv'
  BY <1>1, <1>4 DEF SearchInv, AnswerInv, WindowIn
<1> QED BY <1>5, <1>6, <1>7, <1>8 DEF SearchInv

---------------------------------------------------------------------------
\* The inductive invariant: every case of the scan keeps it.
LEMMA SearchInvNext == SearchInv /\ [Next]_vars => SearchInv'
<1> SUFFICES ASSUME SearchInv, [Next]_vars PROVE SearchInv'
  OBVIOUS
<1>1. CASE HopelessString
  BY <1>1, NotFoundKeeps DEF HopelessString
<1>2. CASE ValueString \/ OtherKey
  BY <1>2, StringsKeep
<1>3. CASE MatchingKey
  BY <1>3, MatchingKeyKeeps
<1>4. CASE OpenBrace \/ SkipObject \/ CloseBrace \/ SkipByte
  BY <1>4, BracesKeep
<1>5. CASE SkipArray \/ EnterArray
  BY <1>5, ArraysKeep
<1>6. CASE NextElement
  BY <1>6, NextElementKeeps
<1>7. CASE SearchElement
  BY <1>7, SearchElementKeeps
<1>8. CASE NoSuchElement \/ StrayColon \/ Exhausted
  BY <1>8, NotFoundKeeps DEF NoSuchElement, StrayColon, Exhausted
<1>9. CASE Locate
  BY <1>9, LocateKeeps
<1>10. CASE UNCHANGED vars
  BY <1>10 DEF vars, SearchInv, TextInv, CountersInv, ElementInv, AnswerInv,
               WindowIn
<1> QED BY <1>1, <1>2, <1>3, <1>4, <1>5, <1>6, <1>7, <1>8, <1>9, <1>10 DEF Next

\* The invariant gives type correctness.
LEMMA SearchInvType == SearchInv => TypeOK
<1> SUFFICES ASSUME SearchInv PROVE TypeOK
  OBVIOUS
<1>1. Len(data) \in Nat
  BY LenProperties DEF SearchInv, TextInv
<1>2. elem.off \in Positions \cup {None}
  BY <1>1 DEF SearchInv, TextInv, ElementInv, Positions
<1> QED BY <1>1, <1>2
        DEF SearchInv, TextInv, CountersInv, ElementInv, AnswerInv, TypeOK,
            Positions

\* The invariant gives the range of the path index.
LEMMA SearchInvPath == SearchInv => PathIndexInRange
<1> SUFFICES ASSUME SearchInv PROVE PathIndexInRange
  OBVIOUS
<1>1. pc = "scan" /\ i < hi /\ keyLevel = level => level + 1 \in 1 .. Len(keys)
  BY WantedComponentExists DEF Scanning
<1> QED BY <1>1 DEF PathIndexInRange, SearchInv, CountersInv

\* The invariant gives the range of every slice.
LEMMA SearchInvSlices == SearchInv => SlicesInRange
<1> SUFFICES ASSUME SearchInv PROVE SlicesInRange
  OBVIOUS
<1>1. i \in Nat
  BY DEF SearchInv, TextInv
<1>2. ASSUME elem.found # NoWindow
      PROVE  /\ i < elem.found[1]
             /\ elem.found[1] =< elem.found[2]
             /\ elem.found[2] =< hi
  BY <1>1, <1>2 DEF SearchInv, ElementInv, WindowIn
<1>3. ASSUME value.window # NoWindow
      PROVE  /\ lo =< value.window[1]
             /\ value.window[1] =< value.window[2]
             /\ value.window[2] =< Len(data) + 1
  BY <1>3 DEF SearchInv, AnswerInv, WindowIn
<1> QED BY <1>2, <1>3 DEF SlicesInRange, SearchInv, AnswerInv

\* The scan's variables have their types, for every text and path.
THEOREM SearchTypeCorrect == Spec => []TypeOK
<1> QED BY SearchInvInit, SearchInvNext, SearchInvType, PTL DEF Spec

\* No text and no path makes searchKeys index the path out of range.
THEOREM PathIndexAlwaysInRange == Spec => []PathIndexInRange
<1> QED BY SearchInvInit, SearchInvNext, SearchInvPath, PTL DEF Spec

\* No text and no path makes Get slice the data out of range.
THEOREM SlicesAlwaysInRange == Spec => []SlicesInRange
<1> QED BY SearchInvInit, SearchInvNext, SearchInvSlices, PTL DEF Spec

---------------------------------------------------------------------------
\* The scan's variables as one record, and what the search has to answer.
ScanState == [keys |-> keys, i |-> i, hi |-> hi, level |-> level,
              keyLevel |-> keyLevel, lastMatched |-> lastMatched]

Result == FoundFrom(data)[StartScan(asked, <<1, Len(data) + 1>>)]

\* The array loop: the element it is asked for, and what it keeps of one.
Wanted == Index(keys[level + 1])
Rest == SubSeq(keys, level + 2, Len(keys))
Element(n) == ElementFrom(data, ElementStart(data, i, hi, n), hi)

\* The loop stands at the start of its element, and has kept the one that is
\* wanted once it is past it.
LoopInv ==
  /\ elem.off = ElementStarts(data, i, hi)[elem.index]
  /\ elem.found = IF Wanted \in 0 .. elem.index - 1 THEN Element(Wanted)
                  ELSE NoWindow

\* Whatever has been read, the answer still to be computed from here is the
\* answer from the start.
LookupInv ==
  /\ asked \in Seq(Seq(STRING))
  /\ pc = "scan" => keys # <<>> /\ FoundFrom(data)[ScanState] = Result
  /\ pc \in {"array", "element"} =>
       FoundFrom(data)[StartScan(Rest, Element(Wanted))] = Result
  /\ pc = "array" => LoopInv
  /\ pc = "element" => elem.found = Element(Wanted)
  /\ pc = "locate" => offset = Result
  /\ pc = "done" => value = ValueAt(data, Result, Len(data) + 1)

\* The scan's record is a scan; where it is searched from here is where it is
\* searched after one step.
LEMMA ScanFacts ==
  ASSUME SearchInv, LookupInv, Scanning
  PROVE  /\ ScanState \in Scans /\ ScanState.keys = keys /\ ScanState.i = i
         /\ ScanState.hi = hi /\ ScanState.level = level
         /\ ScanState.keyLevel = keyLevel /\ ScanState.lastMatched = lastMatched
         /\ i \in 1 .. hi - 1 /\ keys # <<>>
         /\ FoundFrom(data)[StepScan(data, ScanState)] = Result
<1>1. pc = "scan" /\ i \in Nat \ {0} /\ hi \in Nat /\ i < hi /\ IncompleteMatch
  BY ScanningFacts
<1>2. keys \in Seq(Seq(STRING))
  BY DEF SearchInv, TextInv
<1>3. ScanState \in Scans
  BY <1>1, <1>2 DEF ScanState, Scans, IncompleteMatch
<1>4. keys # <<>> /\ FoundFrom(data)[ScanState] = Result
  BY <1>1 DEF LookupInv
<1>5. ScanState.keys = keys
  BY DEF ScanState
<1>6. FoundFrom(data)[StepScan(data, ScanState)] = Result
  BY <1>3, <1>4, <1>5, FoundFromUnfold
<1> QED BY <1>1, <1>3, <1>4, <1>6 DEF ScanState

\* The record after a step that leaves the path and the limit alone.
LEMMA NextScanState ==
  ASSUME keys' = keys, hi' = hi
  PROVE  /\ UNCHANGED <<level, keyLevel, lastMatched>> =>
              ScanState' = [ScanState EXCEPT !.i = i']
         /\ UNCHANGED <<keyLevel, lastMatched>> =>
              ScanState' = [ScanState EXCEPT !.i = i', !.level = level']
         /\ UNCHANGED lastMatched =>
              ScanState' = [ScanState EXCEPT !.i = i', !.level = level',
                                             !.keyLevel = keyLevel']
         /\ UNCHANGED <<level, keyLevel>> =>
              ScanState' = [ScanState EXCEPT !.i = i', !.lastMatched = lastMatched']
         /\ UNCHANGED level =>
              ScanState' = [ScanState EXCEPT !.i = i', !.lastMatched = lastMatched',
                                             !.keyLevel = keyLevel']
<1> DEFINE R(lv, kl, lm) == [keys |-> keys, i |-> i', hi |-> hi, level |-> lv,
                             keyLevel |-> kl, lastMatched |-> lm]
           s1 == [ScanState EXCEPT !.i = i']
<1>1. ScanState' = R(level', keyLevel', lastMatched')
  BY Zenon DEF ScanState
<1>2. s1 = R(level, keyLevel, lastMatched)
  BY DEF ScanState
<1>3. /\ [ScanState EXCEPT !.i = i', !.level = level'] = [s1 EXCEPT !.level = level']
      /\ [ScanState EXCEPT !.i = i', !.lastMatched = lastMatched']
           = [s1 EXCEPT !.lastMatched = lastMatched']
      /\ [ScanState EXCEPT !.i = i', !.level = level', !.keyLevel = keyLevel']
           = [[s1 EXCEPT !.level = level'] EXCEPT !.keyLevel = keyLevel']
      /\ [ScanState EXCEPT !.i = i', !.lastMatched = lastMatched',
                           !.keyLevel = keyLevel']
           = [[s1 EXCEPT !.lastMatched = lastMatched'] EXCEPT !.keyLevel = keyLevel']
  OBVIOUS
<1> HIDE DEF s1
<1>4. [s1 EXCEPT !.level = level'] = R(level', keyLevel, lastMatched)
  BY <1>2
<1>5. [s1 EXCEPT !.lastMatched = lastMatched'] = R(level, keyLevel, lastMatched')
  BY <1>2
<1> DEFINE s2 == [s1 EXCEPT !.level = level']
           s3 == [s1 EXCEPT !.lastMatched = lastMatched']
<1> HIDE DEF s2, s3
<1>6. [s2 EXCEPT !.keyLevel = keyLevel'] = R(level', keyLevel', lastMatched)
  <2>1. s2 = R(level', keyLevel, lastMatched)
    BY <1>4 DEF s2
  <2> QED BY <2>1
<1>7. [s3 EXCEPT !.keyLevel = keyLevel'] = R(level, keyLevel', lastMatched')
  <2>1. s3 = R(level, keyLevel, lastMatched')
    BY <1>5 DEF s3
  <2> QED BY <2>1
<1> HIDE DEF R
<1>8. UNCHANGED <<level, keyLevel, lastMatched>> => ScanState' = s1
  BY <1>1, <1>2, Zenon
<1>9. UNCHANGED <<keyLevel, lastMatched>> => ScanState' = [s1 EXCEPT !.level = level']
  BY <1>1, <1>4, Zenon
<1>10. UNCHANGED lastMatched => ScanState' = [s2 EXCEPT !.keyLevel = keyLevel']
  BY <1>1, <1>6, Zenon
<1>11. UNCHANGED <<level, keyLevel>> =>
         ScanState' = [s1 EXCEPT !.lastMatched = lastMatched']
  BY <1>1, <1>5, Zenon
<1>12. UNCHANGED level => ScanState' = [s3 EXCEPT !.keyLevel = keyLevel']
  BY <1>1, <1>7, Zenon
<1> QED BY <1>3, <1>8, <1>9, <1>10, <1>11, <1>12, Zenon DEF s1, s2, s3

\* The search is given up, and rightly.
LEMMA GivenUp ==
  ASSUME LookupInv, NotFound, asked' = asked, Result = None
  PROVE  LookupInv'
<1>1. pc' = "done" /\ value' = NotFoundValue /\ data' = data
  BY DEF NotFound
<1>2. Result' = None
  BY <1>1 DEF Result
<1>3. value' = ValueAt(data', Result', Len(data') + 1)
  BY <1>1, <1>2 DEF ValueAt, NotFoundValue
<1> QED BY <1>1, <1>3 DEF LookupInv

\* The scan goes on as the function does.
LEMMA MovedOn ==
  ASSUME SearchInv, LookupInv, Scanning, NEW p, MoveTo(p), asked' = asked,
         ScanState' = StepScan(data, ScanState)
  PROVE  LookupInv'
<1>1. /\ pc' = "scan" /\ keys' = keys /\ data' = data
  BY DEF MoveTo, input, Scanning
<1>2. keys # <<>> /\ FoundFrom(data)[StepScan(data, ScanState)] = Result
  BY ScanFacts
<1>3. Result' = Result
  BY <1>1 DEF Result
<1>4. FoundFrom(data')[ScanState'] = Result'
  BY <1>1, <1>2, <1>3
<1> QED BY <1>1, <1>2, <1>4 DEF LookupInv

\* The search is given up where the function gives it up.
LEMMA GivenUpInScan ==
  ASSUME SearchInv, LookupInv, Scanning, NotFound, asked' = asked,
         StepScan(data, ScanState) = Answered(None)
  PROVE  LookupInv'
<1>1. Result = None
  BY ScanFacts, FoundAnswered DEF None
<1> QED BY <1>1, GivenUp

\* A string is read as the function reads it.
LEMMA StringStep ==
  ASSUME SearchInv, LookupInv, AtString
  PROVE  StepScan(data, ScanState) =
           IF AfterString = None THEN Answered(None)
           ELSE IF data[AfterString] # ":" THEN [ScanState EXCEPT !.i = AfterString]
           ELSE StepKey(ScanState, KeyText, AfterString)
<1>1. Scanning /\ data[i] \in Quotes
  BY DEF AtString
<1>2. /\ ScanState.i = i /\ ScanState.hi = hi /\ i \in 1 .. hi - 1
  BY <1>1, ScanFacts
<1>3. StepScan(data, ScanState) = StepString(data, ScanState)
  BY <1>1, <1>2 DEF StepScan, Quotes, Quote
<1> QED BY <1>2, <1>3 DEF StepString, ClosingQuote, AfterString, KeyText

\* The cases of a string follow the function.
LEMMA StringsFollow ==
  ASSUME SearchInv, LookupInv, asked' = asked,
         HopelessString \/ ValueString \/ OtherKey \/ MatchingKey
  PROVE  LookupInv'
<1>1. AtString /\ Scanning
  BY DEF HopelessString, ValueString, OtherKey, MatchingKey, AtKey, AtString
<1>2. /\ ScanState.keys = keys /\ ScanState.level = level
      /\ ScanState.keyLevel = keyLevel
  BY <1>1, ScanFacts
<1>3. StepScan(data, ScanState) =
        IF AfterString = None THEN Answered(None)
        ELSE IF data[AfterString] # ":" THEN [ScanState EXCEPT !.i = AfterString]
        ELSE StepKey(ScanState, KeyText, AfterString)
  BY <1>1, StringStep
<1>4. CASE HopelessString
  <2>1. CASE AfterString = None
    BY <1>1, <1>3, <1>4, <2>1, GivenUpInScan DEF HopelessString
  <2>2. CASE AtKey /\ ~UsableKey
    <3>1. StepScan(data, ScanState) = StepKey(ScanState, KeyText, AfterString)
      BY <1>3, <2>2 DEF AtKey
    <3>2. StepKey(ScanState, KeyText, AfterString) = Answered(None)
      BY <1>2, <2>2 DEF StepKey, UsableKey
    <3> QED BY <1>1, <1>4, <3>1, <3>2, GivenUpInScan DEF HopelessString
  <2> QED BY <1>4, <2>1, <2>2 DEF HopelessString
<1>5. CASE ValueString
  <2>1. /\ MoveTo(AfterString) /\ AfterString # None /\ data[AfterString] # ":"
        /\ keys' = keys /\ hi' = hi /\ i' = AfterString
        /\ level' = level /\ keyLevel' = keyLevel /\ lastMatched' = lastMatched
    BY <1>5 DEF ValueString, MoveTo, counters, input
  <2>2. ScanState' = [ScanState EXCEPT !.i = AfterString]
    BY <2>1, NextScanState
  <2> QED BY <1>1, <1>3, <2>1, <2>2, MovedOn
<1>6. ASSUME AtKey, UsableKey
      PROVE  /\ StepScan(data, ScanState) = StepKey(ScanState, KeyText, AfterString)
             /\ level >= 1 /\ level =< Len(keys) /\ KeyText # BadText
  BY <1>3, <1>6 DEF AtKey, UsableKey
<1>7. CASE OtherKey
  <2>1. /\ MoveTo(AfterString + 1) /\ KeyText # keys[level]
        /\ keys' = keys /\ hi' = hi /\ i' = AfterString + 1
        /\ level' = level /\ keyLevel' = keyLevel /\ lastMatched' = FALSE
    BY <1>7 DEF OtherKey, MoveTo, input, MatchesComponent
  <2>2. StepScan(data, ScanState) = StepKey(ScanState, KeyText, AfterString)
        /\ level >= 1 /\ level =< Len(keys) /\ KeyText # BadText
    BY <1>6, <1>7 DEF OtherKey
  <2>3. StepKey(ScanState, KeyText, AfterString)
          = [ScanState EXCEPT !.i = AfterString + 1, !.lastMatched = FALSE]
    BY <1>2, <2>1, <2>2 DEF StepKey
  <2>4. ScanState' = [ScanState EXCEPT !.i = AfterString + 1, !.lastMatched = FALSE]
    BY <2>1, NextScanState
  <2> QED BY <1>1, <2>1, <2>2, <2>3, <2>4, MovedOn
<1>8. CASE MatchingKey
  <2>1. StepScan(data, ScanState) = StepKey(ScanState, KeyText, AfterString)
        /\ level >= 1 /\ level =< Len(keys) /\ KeyText # BadText
        /\ KeyText = keys[level]
    BY <1>6, <1>8 DEF MatchingKey, MatchesComponent
  <2>2. /\ level \in Int /\ keyLevel \in Int /\ Len(keys) \in Nat
    BY <1>1, ScanningFacts DEF IncompleteMatch
  <2>3. keyLevel' = IF keyLevel = level - 1 THEN keyLevel + 1 ELSE keyLevel
    BY <1>8 DEF MatchingKey
  <2>4. CASE keyLevel = level - 1 /\ keyLevel' = Len(keys)
    <3>1. /\ pc' = "locate" /\ offset' = AfterString + 1 /\ data' = data
      BY <1>8, <2>4 DEF MatchingKey, Found, input
    <3>2. level = Len(keys)
      BY <2>2, <2>3, <2>4
    <3>3. StepKey(ScanState, KeyText, AfterString) = Answered(AfterString + 1)
      BY <1>2, <2>1, <2>4, <3>2 DEF StepKey
    <3>4. AfterString + 1 \in Nat
      <4>1. AfterString \in i + 1 .. hi - 1 /\ i \in Nat
        BY <1>1, <1>8, AfterStringRange, ScanningFacts DEF MatchingKey, AtKey
      <4> QED BY <4>1
    <3>5. Result = AfterString + 1
      BY <1>1, <2>1, <3>3, <3>4, ScanFacts, FoundAnswered
    <3>6. Result' = Result
      BY <3>1 DEF Result
    <3> QED BY <3>1, <3>5, <3>6 DEF LookupInv
  <2>5. CASE ~(keyLevel = level - 1 /\ keyLevel' = Len(keys))
    <3>1. /\ MoveTo(AfterString + 1)
          /\ keys' = keys /\ hi' = hi /\ i' = AfterString + 1
          /\ level' = level /\ lastMatched' = TRUE
      BY <1>8, <2>5 DEF MatchingKey, MoveTo, input
    <3>2. keyLevel' = IF keyLevel = level - 1 THEN level ELSE keyLevel
      BY <2>2, <2>3
    <3>3. ~(keyLevel = level - 1 /\ level = Len(keys))
      BY <2>2, <2>5, <3>2
    <3> DEFINE k == IF keyLevel = level - 1 THEN level ELSE keyLevel
               p == AfterString + 1
    <3>4. StepKey(ScanState, KeyText, AfterString)
            = [ScanState EXCEPT !.i = p, !.lastMatched = TRUE, !.keyLevel = k]
      BY <1>2, <2>1, <3>3 DEF StepKey
    <3>5. keyLevel' = k /\ i' = p
      BY <3>1, <3>2
    <3> HIDE DEF k, p
    <3>6. ScanState' = [ScanState EXCEPT !.i = p, !.lastMatched = TRUE,
                                         !.keyLevel = k]
      BY <3>1, <3>5, NextScanState, Zenon
    <3> QED BY <1>1, <2>1, <3>1, <3>4, <3>6, MovedOn
  <2> QED BY <2>4, <2>5
<1> QED BY <1>4, <1>5, <1>7, <1>8

\* The bytes that are no strings and no arrays.
LEMMA BytesFollow ==
  ASSUME SearchInv, LookupInv, asked' = asked,
         OpenBrace \/ SkipObject \/ CloseBrace \/ StrayColon \/ SkipByte
  PROVE  LookupInv'
<1>1. Scanning
  BY DEF OpenBrace, SkipObject, CloseBrace, StrayColon, SkipByte
<1>2. /\ ScanState.keys = keys /\ ScanState.i = i /\ ScanState.hi = hi
      /\ ScanState.level = level /\ ScanState.keyLevel = keyLevel
      /\ ScanState.lastMatched = lastMatched /\ i \in 1 .. hi - 1
  BY <1>1, ScanFacts
<1>3. CASE OpenBrace
  <2>1. /\ MoveTo(i + 1) /\ data[i] = "{" /\ lastMatched
        /\ keys' = keys /\ hi' = hi /\ i' = i + 1
        /\ level' = level + 1 /\ keyLevel' = keyLevel /\ lastMatched' = lastMatched
    BY <1>3 DEF OpenBrace, MoveTo, input
  <2>2. StepScan(data, ScanState) = StepBrace(data, ScanState)
    BY <1>2, <2>1 DEF StepScan, Quotes, Quote
  <2>3. StepBrace(data, ScanState)
          = [ScanState EXCEPT !.i = i + 1, !.level = level + 1]
    BY <1>2, <2>1 DEF StepBrace
  <2>4. ScanState' = [ScanState EXCEPT !.i = i + 1, !.level = level + 1]
    BY <2>1, NextScanState
  <2> QED BY <1>1, <2>1, <2>2, <2>3, <2>4, MovedOn
<1>4. CASE SkipObject
  <2> DEFINE end == BlockEnd(data, i, hi, "{", "}")
  <2>1. StepScan(data, ScanState) = StepBrace(data, ScanState)
    BY <1>2, <1>4 DEF SkipObject, StepScan, Quotes, Quote
  <2>2. StepBrace(data, ScanState) = StepOver(ScanState, end)
    BY <1>2, <1>4 DEF SkipObject, StepBrace
  <2>3. CASE end = None
    <3>1. NotFound
      BY <1>4, <2>3 DEF SkipObject
    <3>2. StepScan(data, ScanState) = Answered(None)
      BY <2>1, <2>2, <2>3 DEF StepOver
    <3> QED BY <1>1, <3>1, <3>2, GivenUpInScan
  <2>4. CASE end # None
    <3>1. MoveTo(end) /\ UNCHANGED counters
      BY <1>4, <2>4 DEF SkipObject
    <3> HIDE DEF end
    <3>2. /\ keys' = keys /\ hi' = hi /\ i' = end
          /\ level' = level /\ keyLevel' = keyLevel /\ lastMatched' = lastMatched
      BY <3>1 DEF MoveTo, input, counters
    <3>3. StepScan(data, ScanState) = [ScanState EXCEPT !.i = end]
      BY <2>1, <2>2, <2>4 DEF StepOver
    <3>4. ScanState' = [ScanState EXCEPT !.i = end]
      BY <3>2, NextScanState
    <3> QED BY <1>1, <3>1, <3>3, <3>4, MovedOn
  <2> QED BY <2>3, <2>4
<1>5. CASE CloseBrace
  <2> DEFINE k == IF keyLevel = level - 1 THEN keyLevel - 1 ELSE keyLevel
             l == level - 1
             p == i + 1
  <2>1. /\ MoveTo(p) /\ data[i] = "}"
        /\ keys' = keys /\ hi' = hi /\ i' = p /\ level' = l
        /\ keyLevel' = k /\ lastMatched' = lastMatched
    BY <1>5 DEF CloseBrace, MoveTo, input
  <2>2. StepScan(data, ScanState)
          = [ScanState EXCEPT !.i = p, !.level = l, !.keyLevel = k]
    BY <1>2, <2>1 DEF StepScan, Quotes, Quote
  <2> HIDE DEF k, l, p
  <2>3. ScanState' = [ScanState EXCEPT !.i = p, !.level = l, !.keyLevel = k]
    BY <2>1, NextScanState, Zenon
  <2> QED BY <1>1, <2>1, <2>2, <2>3, MovedOn
<1>6. CASE StrayColon
  <2>1. StepScan(data, ScanState) = Answered(None)
    BY <1>2, <1>6 DEF StrayColon, StepScan, Quotes, Quote
  <2> QED BY <1>1, <1>6, <2>1, GivenUpInScan DEF StrayColon
<1>7. CASE SkipByte
  <2>1. /\ MoveTo(i + 1) /\ data[i] \notin Quotes \cup {"{", "}", "[", ":"}
        /\ keys' = keys /\ hi' = hi /\ i' = i + 1
        /\ level' = level /\ keyLevel' = keyLevel /\ lastMatched' = lastMatched
    BY <1>7 DEF SkipByte, MoveTo, input, counters
  <2>2. StepScan(data, ScanState) = [ScanState EXCEPT !.i = i + 1]
    BY <1>2, <2>1 DEF StepScan
  <2>3. ScanState' = [ScanState EXCEPT !.i = i + 1]
    BY <2>1, NextScanState
  <2> QED BY <1>1, <2>1, <2>2, <2>3, MovedOn
<1> QED BY <1>3, <1>4, <1>5, <1>6, <1>7

\* An array is passed over, or its elements are looked at.
LEMMA ArraysFollow ==
  ASSUME SearchInv, LookupInv, asked' = asked, SkipArray \/ EnterArray
  PROVE  LookupInv'
<1>1. Scanning /\ data[i] = "["
  BY DEF SkipArray, EnterArray
<1>2. /\ ScanState.keys = keys /\ ScanState.i = i /\ ScanState.hi = hi
      /\ ScanState.level = level /\ ScanState.keyLevel = keyLevel
      /\ i \in 1 .. hi - 1 /\ i \in Nat \ {0} /\ hi \in Nat
      /\ keys \in Seq(Seq(STRING)) /\ level \in Int
  BY <1>1, ScanFacts, ScanningFacts DEF SearchInv, TextInv, CountersInv
<1>3. StepScan(data, ScanState) = StepArray(data, ScanState)
  BY <1>1, <1>2 DEF StepScan, Quotes, Quote
<1>4. WantsElement => level + 1 \in 1 .. Len(keys)
  BY <1>1, WantedComponentExists DEF WantsElement
<1>5. StepArray(data, ScanState) =
        IF ~WantsElement THEN StepOver(ScanState, BlockEnd(data, i, hi, "[", "]"))
        ELSE IF ~IsIndex(keys[level + 1]) THEN Answered(None)
        ELSE StartScan(Rest, Element(Wanted))
  BY <1>2, <1>4 DEF StepArray, WantsElement, Rest, Element, Wanted
<1>6. CASE SkipArray
  <2> DEFINE end == BlockEnd(data, i, hi, "[", "]")
  <2>1. StepScan(data, ScanState) = StepOver(ScanState, end)
    BY <1>3, <1>5, <1>6 DEF SkipArray
  <2>2. CASE end = None
    <3>1. NotFound
      BY <1>6, <2>2 DEF SkipArray
    <3>2. StepScan(data, ScanState) = Answered(None)
      BY <2>1, <2>2 DEF StepOver
    <3> QED BY <1>1, <3>1, <3>2, GivenUpInScan
  <2>3. CASE end # None
    <3>1. MoveTo(end) /\ UNCHANGED counters
      BY <1>6, <2>3 DEF SkipArray
    <3> HIDE DEF end
    <3>2. /\ keys' = keys /\ hi' = hi /\ i' = end
          /\ level' = level /\ keyLevel' = keyLevel /\ lastMatched' = lastMatched
      BY <3>1 DEF MoveTo, input, counters
    <3>3. StepScan(data, ScanState) = [ScanState EXCEPT !.i = end]
      BY <2>1, <2>3 DEF StepOver
    <3>4. ScanState' = [ScanState EXCEPT !.i = end]
      BY <3>2, NextScanState
    <3> QED BY <1>1, <3>1, <3>3, <3>4, MovedOn
  <2> QED BY <2>2, <2>3
<1>7. CASE EnterArray
  <2> DEFINE first == NextToken(data, i + 1, hi)
  <2>1. WantsElement
    BY <1>7 DEF EnterArray
  <2>2. CASE ~IsIndex(keys[level + 1])
    <3>1. NotFound
      BY <1>7, <2>2 DEF EnterArray
    <3> QED BY <1>1, <1>3, <1>5, <2>1, <2>2, <3>1, GivenUpInScan
  <2>3. CASE IsIndex(keys[level + 1])
    <3>1. FoundFrom(data)[StartScan(Rest, Element(Wanted))] = Result
      BY <1>1, <1>3, <1>5, <2>1, <2>3, ScanFacts
    <3>2. ElementStarts(data, i, hi)[0]
            = IF first = None \/ data[first] = "]" THEN None ELSE first
      <4>1. ElementStarts(data, i, hi)[0] = FirstStart(data, i, hi)
        BY <1>2, FirstElement
      <4> QED BY <4>1 DEF FirstStart
    <3>3. Rest \in Seq(Seq(STRING))
      <4>1. level + 1 \in 1 .. Len(keys)
        BY <1>4, <2>1
      <4> QED BY <1>2, <4>1 DEF Rest
    <3>4. CASE first = None \/ data[first] = "]"
      <4>1. NotFound
        BY <1>7, <3>4 DEF EnterArray
      <4>2. ElementStarts(data, i, hi)[0] = None
        BY <3>2, <3>4
      <4>3. Element(Wanted) = NoWindow
        <5>1. \A n \in Nat : ElementStarts(data, i, hi)[n] = None
          BY <1>2, <4>2, FirstElement
        <5> QED BY <5>1 DEF Element, ElementStart, ElementFrom
      <4>4. Result = None
        BY <3>1, <3>3, <4>3, FoundNowhere
      <4> QED BY <4>1, <4>4, GivenUp
    <3>5. CASE ~(first = None \/ data[first] = "]")
      <4>1. /\ pc' = "array"
            /\ elem' = [off |-> first, index |-> 0, found |-> NoWindow]
            /\ data' = data /\ keys' = keys /\ hi' = hi /\ i' = i
            /\ level' = level
        BY <1>7, <2>3, <3>5 DEF EnterArray, input, counters
      <4>2. Rest' = Rest /\ Wanted' = Wanted /\ Result' = Result
        BY <4>1 DEF Rest, Wanted, Result
      <4>3. Element(Wanted)' = Element(Wanted)
        BY <4>1, <4>2 DEF Element
      <4>4. FoundFrom(data')[StartScan(Rest', Element(Wanted)')] = Result'
        BY <3>1, <4>1, <4>2, <4>3
      <4>5. LoopInv'
        <5>1. elem'.off = first /\ elem'.index = 0 /\ elem'.found = NoWindow
          BY <4>1
        <5>2. ElementStarts(data', i', hi')[elem'.index] = first
          BY <3>2, <3>5, <4>1, <5>1
        <5>3. Wanted' \notin 0 .. elem'.index - 1
          BY <5>1
        <5> QED BY <5>1, <5>2, <5>3 DEF LoopInv
      <4> QED BY <4>1, <4>4, <4>5 DEF LookupInv
    <3> QED BY <3>4, <3>5
  <2> QED BY <2>2, <2>3
<1> QED BY <1>6, <1>7

\* One turn of the array loop: the loop keeps the element that is wanted, and
\* ends where the function has no next element.
LEMMA LoopFollows ==
  ASSUME SearchInv, LookupInv, NextElement, asked' = asked
  PROVE  LookupInv'
<1> DEFINE n == elem.index
           off == elem.off
           v == ClosestValue(data, off, hi)
           heard == v.end # off
           next == IF heard /\ v.err = "none" THEN NextToken(data, v.end, hi)
                   ELSE None
           more == next # None /\ data[next] = ","
           start == ElementStarts(data, i, hi)
<1>1. /\ pc = "array"
      /\ data' = data /\ keys' = keys /\ hi' = hi /\ i' = i /\ level' = level
      /\ elem' = [off   |-> IF more THEN next + 1 ELSE off,
                  index |-> IF heard THEN n + 1 ELSE n,
                  found |-> IF heard /\ n = Wanted THEN ElementWindow(v)
                            ELSE elem.found]
      /\ pc' = IF more THEN "array" ELSE "element"
  BY DEF NextElement, input, counters, Wanted
<1>2. /\ n \in Nat /\ i \in Nat \ {0} /\ hi \in Nat
      /\ off \in i + 1 .. hi
  <2>1. pc = "array"
    BY <1>1
  <2> QED BY <2>1 DEF SearchInv, TextInv, ElementInv
<1>3. /\ off \in Nat \ {0} /\ off # None
  BY <1>2 DEF None
<1>4. /\ off = start[n]
      /\ elem.found = IF Wanted \in 0 .. n - 1 THEN Element(Wanted) ELSE NoWindow
      /\ FoundFrom(data)[StartScan(Rest, Element(Wanted))] = Result
  BY <1>1 DEF LookupInv, LoopInv
<1>5. heard \/ v.err # "none"
  <2>1. \/ v = Failed("NotExist", None, "MalformedJson")
        \/ /\ NextToken(data, off, hi) \in off .. hi - 1
           /\ ReadInWindow(v, NextToken(data, off, hi), hi)
    BY <1>2, <1>3, ClosestValueRange
  <2> HIDE DEF v
  <2>2. CASE v = Failed("NotExist", None, "MalformedJson")
    BY <2>2 DEF Failed
  <2>3. ASSUME NEW at, at \in off .. hi - 1, ReadInWindow(v, at, hi)
        PROVE  v.end # off \/ v.err # "none"
    BY <1>2, <1>3, <2>3 DEF ReadInWindow
  <2> QED BY <2>1, <2>2, <2>3
<1>6. NextStart(data, v, hi) = IF more THEN next + 1 ELSE None
  BY <1>5 DEF NextStart, None
<1>7. start[n + 1] = IF more THEN next + 1 ELSE None
  <2>1. \A k \in Nat :
          start[k] = IF k = 0 THEN FirstStart(data, i, hi)
                     ELSE IF start[k - 1] = None THEN None
                     ELSE NextStart(data, ClosestValue(data, start[k - 1], hi), hi)
    BY <1>2, ElementStartsUnfold
  <2> HIDE DEF start, more, next
  <2>2. n + 1 \in Nat /\ n + 1 # 0 /\ (n + 1) - 1 = n
    BY <1>2
  <2>3. start[n + 1] = IF start[n] = None THEN None
                       ELSE NextStart(data, ClosestValue(data, start[n], hi), hi)
    BY <2>1, <2>2
  <2>4. start[n + 1] = NextStart(data, v, hi)
    BY <1>3, <1>4, <2>3
  <2> QED BY <1>6, <2>4
<1>8. Element(n) = IF heard THEN ElementWindow(v) ELSE NoWindow
  <2>1. Element(n) = ElementFrom(data, off, hi)
    BY <1>2, <1>4 DEF Element, ElementStart
  <2> QED BY <1>3, <2>1 DEF ElementFrom, Kept
<1>9. \A m : m \in 0 .. n <=> m = n \/ m \in 0 .. n - 1
  BY <1>2
<1>10. elem'.found = IF Wanted \in 0 .. n THEN Element(Wanted) ELSE NoWindow
  <2>1. elem'.found = IF heard /\ n = Wanted THEN ElementWindow(v) ELSE elem.found
    BY <1>1
  <2>2. Wanted \in 0 .. n - 1 => n # Wanted
    BY <1>2
  <2> HIDE DEF heard, v, n
  <2>3. CASE Wanted = n
    <3>1. Wanted \notin 0 .. n - 1 /\ Wanted \in 0 .. n
      BY <1>9, <2>2, <2>3
    <3> QED BY <1>4, <1>8, <2>1, <2>3, <3>1
  <2>4. CASE Wanted # n
    BY <1>4, <1>9, <2>1, <2>4
  <2> QED BY <2>3, <2>4
<1>11. /\ Rest' = Rest /\ Wanted' = Wanted /\ Result' = Result
       /\ Element(Wanted)' = Element(Wanted)
  BY <1>1 DEF Rest, Wanted, Result, Element
<1>12. FoundFrom(data')[StartScan(Rest', Element(Wanted)')] = Result'
  BY <1>1, <1>4, <1>11
<1>13. CASE more
  <2>1. heard /\ pc' = "array" /\ elem'.off = next + 1 /\ elem'.index = n + 1
    BY <1>1, <1>13
  <2> HIDE DEF heard, next, more, v, start, n
  <2>2. (n + 1) - 1 = n
    BY <1>2 DEF n
  <2>3. elem'.off = start[elem'.index]
    BY <1>7, <1>13, <2>1
  <2>4. LoopInv'
    BY <1>1, <1>10, <1>11, <2>1, <2>2, <2>3 DEF LoopInv, start
  <2> QED BY <1>1, <1>12, <2>1, <2>4 DEF LookupInv
<1>14. CASE ~more
  <2>1. pc' = "element"
    BY <1>1, <1>14
  <2>2. Wanted \notin 0 .. n => Element(Wanted) = NoWindow
    <3> SUFFICES ASSUME Wanted \notin 0 .. n
                 PROVE  Element(Wanted) = NoWindow
      OBVIOUS
    <3>1. CASE Wanted \in Nat
      <4>1. start[n + 1] = None /\ n + 1 \in Nat
        <5> HIDE DEF start, more, n
        <5> QED BY <1>2, <1>7, <1>14
      <4>2. \A m \in Nat : m >= n + 1 => start[m] = None
        <5> DEFINE k == n + 1
        <5>1. /\ i \in Nat \ {0} /\ hi \in Nat
              /\ k \in Nat /\ ElementStarts(data, i, hi)[k] = None
          BY <1>2, <4>1
        <5> HIDE DEF k, n, start
        <5>2. \A m \in Nat : m >= k => ElementStarts(data, i, hi)[m] = None
          BY <5>1, ElementsEnd
        <5> QED BY <5>2 DEF k, start
      <4>3. Wanted >= n + 1
        BY <1>2, <3>1
      <4>4. start[Wanted] = None
        BY <3>1, <4>2, <4>3
      <4> QED BY <3>1, <4>4 DEF Element, ElementStart, ElementFrom
    <3>2. CASE Wanted \notin Nat
      BY <3>2 DEF Element, ElementStart, ElementFrom
    <3> QED BY <3>1, <3>2
  <2>3. elem'.found = Element(Wanted)
    BY <1>10, <2>2
  <2> QED BY <1>1, <1>11, <1>12, <2>1, <2>3 DEF LookupInv
<1> QED BY <1>13, <1>14

\* The element is searched with the rest of the path, or there is none.
LEMMA ElementFollows ==
  ASSUME SearchInv, LookupInv, SearchElement \/ NoSuchElement, asked' = asked
  PROVE  LookupInv'
<1>1. /\ pc = "element" /\ elem.found = Element(Wanted)
      /\ FoundFrom(data)[StartScan(Rest, elem.found)] = Result
  BY DEF SearchElement, NoSuchElement, LookupInv
<1>2. Rest \in Seq(Seq(STRING))
  <2>1. /\ keys \in Seq(Seq(STRING)) /\ level \in Int
        /\ level + 1 \in 1 .. Len(keys)
    BY <1>1 DEF SearchInv, TextInv, CountersInv
  <2> QED BY <2>1 DEF Rest
<1>3. CASE SearchElement
  <2> DEFINE w == elem.found
  <2>1. /\ keys' = Rest /\ hi' = w[2] /\ i' = w[1] /\ data' = data
        /\ level' = 0 /\ keyLevel' = 0 /\ lastMatched' = TRUE
        /\ \/ Rest = <<>> /\ pc' = "locate" /\ offset' = w[1]
           \/ Rest # <<>> /\ pc' = "scan"
    BY <1>3 DEF SearchElement, Found, Rest
  <2>2. w[1] \in Nat /\ w[2] \in Nat
    BY <1>3 DEF SearchElement, SearchInv, ElementInv, WindowIn
  <2>3. StartScan(Rest, w) \in Scans
    BY <1>2, <2>2 DEF StartScan, Scans
  <2>4. Result' = Result
    BY <2>1 DEF Result
  <2>5. CASE Rest = <<>>
    <3>1. StartScan(Rest, w).keys = Rest /\ StartScan(Rest, w).i = w[1]
      BY DEF StartScan
    <3>2. FoundFrom(data)[StartScan(Rest, w)] = w[1]
      BY <2>3, <2>5, <3>1, FoundFromUnfold
    <3> QED BY <1>1, <2>1, <2>4, <2>5, <3>2 DEF LookupInv
  <2>6. CASE Rest # <<>>
    <3>1. ScanState' = StartScan(Rest, w)
      <4> HIDE DEF w
      <4> QED BY <2>1, Zenon DEF ScanState, StartScan
    <3> QED BY <1>1, <2>1, <2>4, <2>6, <3>1 DEF LookupInv
  <2> QED BY <2>5, <2>6
<1>4. CASE NoSuchElement
  <2>1. NotFound /\ elem.found = NoWindow
    BY <1>4 DEF NoSuchElement
  <2>2. Result = None
    BY <1>1, <1>2, <2>1, FoundNowhere
  <2> QED BY <2>1, <2>2, GivenUp
<1> QED BY <1>3, <1>4

\* The scan reaches the end of its window, or its answer is read.
LEMMA EndFollows ==
  ASSUME SearchInv, LookupInv, Exhausted \/ Locate, asked' = asked
  PROVE  LookupInv'
<1>1. CASE Exhausted
  <2>1. NotFound /\ pc = "scan" /\ i >= hi
    BY <1>1 DEF Exhausted
  <2>2. /\ keys \in Seq(Seq(STRING)) /\ i \in Nat /\ hi \in Nat
        /\ level \in Int /\ keyLevel \in Int /\ lastMatched \in BOOLEAN
    BY DEF SearchInv, TextInv, CountersInv
  <2>3. /\ ScanState \in Scans /\ ScanState.keys = keys
        /\ ScanState.i \notin 1 .. ScanState.hi - 1
    BY <2>1, <2>2 DEF ScanState, Scans
  <2>4. keys # <<>> /\ FoundFrom(data)[ScanState] = Result
    BY <2>1 DEF LookupInv
  <2>5. StepScan(data, ScanState) = Answered(None)
    BY <2>3 DEF StepScan
  <2>6. Result = None
    BY <2>3, <2>4, <2>5, FoundFromUnfold, FoundAnswered DEF None
  <2> QED BY <2>1, <2>6, GivenUp
<1>2. CASE Locate
  <2>1. /\ pc = "locate" /\ pc' = "done" /\ data' = data
        /\ value' = ClosestValue(data, offset, Len(data) + 1)
    BY <1>2 DEF Locate, input
  <2>2. offset = Result /\ Result' = Result
    BY <2>1 DEF LookupInv, Result
  <2>3. offset # None
    BY <2>1 DEF SearchInv, TextInv, AnswerInv, None
  <2> QED BY <2>1, <2>2, <2>3 DEF LookupInv, ValueAt
<1> QED BY <1>1, <1>2

\* Get's start: everything is still to be computed.
LEMMA LookupInvInit == AskedInit => LookupInv
<1> SUFFICES ASSUME AskedInit PROVE LookupInv
  OBVIOUS
<1>1. /\ data \in Seq(STRING) /\ keys \in Seq(Seq(STRING)) /\ asked = keys
      /\ i = 1 /\ hi = Len(data) + 1
      /\ level = 0 /\ keyLevel = 0 /\ lastMatched = TRUE
      /\ pc = IF keys = <<>> THEN "locate" ELSE "scan"
      /\ keys = <<>> => offset = 1
  BY DEF AskedInit, Init
<1>2. ScanState = StartScan(asked, <<1, Len(data) + 1>>)
  BY <1>1, Zenon DEF ScanState, StartScan
<1>3. CASE keys = <<>>
  <2>1. Len(data) + 1 \in Nat
    BY <1>1, LenProperties
  <2>2. /\ ScanState \in Scans /\ ScanState.keys = <<>> /\ ScanState.i = 1
    BY <1>1, <1>3, <2>1 DEF ScanState, Scans
  <2>3. Result = 1
    BY <1>2, <2>2, FoundFromUnfold DEF Result
  <2> QED BY <1>1, <1>3, <2>3 DEF LookupInv
<1>4. CASE keys # <<>>
  BY <1>1, <1>2, <1>4 DEF LookupInv, Result
<1> QED BY <1>3, <1>4

\* Every step of Get computes the function further.
LEMMA LookupInvNext ==
  SearchInv /\ LookupInv /\ [AskedNext]_askedVars => LookupInv'
<1> SUFFICES ASSUME SearchInv, LookupInv, [AskedNext]_askedVars
             PROVE  LookupInv'
  OBVIOUS
<1>1. asked' = asked
  BY DEF AskedNext, askedVars
<1>2. CASE HopelessString \/ ValueString \/ OtherKey \/ MatchingKey
  BY <1>1, <1>2, StringsFollow
<1>3. CASE OpenBrace \/ SkipObject \/ CloseBrace \/ StrayColon \/ SkipByte
  BY <1>1, <1>3, BytesFollow
<1>4. CASE SkipArray \/ EnterArray
  BY <1>1, <1>4, ArraysFollow
<1>5. CASE NextElement
  BY <1>1, <1>5, LoopFollows
<1>6. CASE SearchElement \/ NoSuchElement
  BY <1>1, <1>6, ElementFollows
<1>7. CASE Exhausted \/ Locate
  BY <1>1, <1>7, EndFollows
<1>8. CASE UNCHANGED askedVars
  <2>1. /\ data' = data /\ keys' = keys /\ hi' = hi /\ i' = i /\ level' = level
        /\ keyLevel' = keyLevel /\ lastMatched' = lastMatched /\ elem' = elem
        /\ pc' = pc /\ offset' = offset /\ value' = value
    BY <1>8 DEF askedVars, vars
  <2> QED BY <1>1, <2>1 DEF LookupInv, LoopInv, ScanState, Result, Rest, Wanted,
                            Element
<1> QED BY <1>2, <1>3, <1>4, <1>5, <1>6, <1>7, <1>8 DEF AskedNext, Next

\* What Get returned is what the function says.
LEMMA LookupInvAgrees == LookupInv => AgreesWithLookup
BY DEF LookupInv, AgreesWithLookup, Get, GetIn, SearchKeys, Result

\* On every text, JSON or not, and for every path: Get step by step, with its
\* counters, its array loop and its restarts inside elements, returns exactly
\* what the function of the text says (searchKeys, internalGet).
THEOREM GetComputesLookup == AskedSpec => []AgreesWithLookup
<1>1. AskedInit => SearchInv /\ LookupInv
  BY SearchInvInit, LookupInvInit DEF AskedInit
<1>2. SearchInv /\ LookupInv /\ [AskedNext]_askedVars => (SearchInv /\ LookupInv)'
  <2>1. [AskedNext]_askedVars => [Next]_vars
    BY DEF AskedNext, askedVars, vars
  <2> QED BY <2>1, SearchInvNext, LookupInvNext
<1> QED BY <1>1, <1>2, LookupInvAgrees, PTL DEF AskedSpec

---------------------------------------------------------------------------
\* Get reads a text that is the whole or what a cut left of it.
CutInv == asked \in Seq(Seq(STRING)) /\ IsCutOf(data, whole)

\* No step touches the text.
LEMMA TextIsRead == Next => data' = data
<1> SUFFICES ASSUME Next PROVE data' = data
  OBVIOUS
<1>1. NotFound \/ (\E p : MoveTo(p)) => data' = data
  BY DEF NotFound, MoveTo, input
<1>2. CASE HopelessString \/ ValueString \/ OtherKey \/ MatchingKey
  BY <1>1, <1>2 DEF HopelessString, ValueString, OtherKey, MatchingKey, input
<1>3. CASE OpenBrace \/ SkipObject \/ CloseBrace \/ StrayColon \/ SkipByte \/ SkipArray
  BY <1>1, <1>3 DEF OpenBrace, SkipObject, CloseBrace, StrayColon, SkipByte, SkipArray
<1>4. CASE EnterArray \/ NextElement
  BY <1>1, <1>4 DEF EnterArray, NextElement, input
<1>5. CASE SearchElement \/ NoSuchElement \/ Exhausted \/ Locate
  BY <1>1, <1>5 DEF SearchElement, NoSuchElement, Exhausted, Locate, input
<1> QED BY <1>2, <1>3, <1>4, <1>5 DEF Next

\* The first bytes of a text are a cut of it.
LEMMA CutInvInit == AskedInit => CutInv
<1> SUFFICES ASSUME AskedInit PROVE CutInv
  OBVIOUS
<1>1. /\ whole \in Seq(STRING) /\ Len(whole) \in Nat
      /\ asked \in Seq(Seq(STRING))
  BY LenProperties DEF AskedInit, Init
<1>2. PICK n \in 0 .. Len(whole) : data = SubSeq(whole, 1, n)
  BY DEF AskedInit
<1>3. \A x \in 1 .. n : whole[x] \in STRING
  BY <1>1, ElementOfSeq
<1>4. /\ Len(data) = IF 1 =< n THEN n - 1 + 1 ELSE 0
      /\ \A x \in 1 .. n - 1 + 1 : data[x] = whole[1 + x - 1]
  BY <1>1, <1>2, <1>3, SubSeqProperties
<1>5. Len(data) = n /\ n \in Nat /\ n =< Len(whole)
  BY <1>1, <1>4
<1>6. \A x \in 1 .. n : x \in 1 .. n - 1 + 1 /\ 1 + x - 1 = x
  BY <1>5
<1>7. \A x \in 1 .. n : data[x] = whole[x]
  BY <1>4, <1>6
<1> QED BY <1>1, <1>5, <1>7 DEF CutInv, IsCutOf

\* What Get answers of a text that was cut is no other answer.
LEMMA CutInvAnswers == LookupInv /\ CutInv => TruncationNeverMisleads
<1> SUFFICES ASSUME LookupInv, CutInv, pc = "done", value.err = "none"
             PROVE  LET right == Get(whole, asked)
                    IN  IF Delimits(value) THEN value = right
                        ELSE value.type = "Number" =>
                               /\ right.type = "Number"
                               /\ right.window[1] = value.window[1]
  BY DEF TruncationNeverMisleads
<1>1. value = Get(data, asked)
  BY LookupInvAgrees DEF AgreesWithLookup
<1>2. /\ asked \in Seq(Seq(STRING)) /\ IsCutOf(data, whole)
      /\ Len(data) \in Nat /\ ~(Len(data) + 1 =< Len(data))
  BY DEF CutInv, IsCutOf
<1> DEFINE right == Get(whole, asked)
<1>3. \/ right = value
      \/ value.end = Len(data) + 1 /\ value.type \in {"Boolean", "Null"}
      \/ /\ value.end = Len(data) + 1
         /\ value.type = "Number" /\ right.type = "Number"
         /\ right.window[1] = value.window[1]
  BY <1>1, <1>2, GetOfCut
<1> HIDE DEF right
<1>4. value.end = Len(data) + 1 /\ value.type \in {"Boolean", "Null", "Number"}
        => ~Delimits(value)
  BY <1>2 DEF Delimits
<1>5. IF Delimits(value) THEN value = right
      ELSE value.type = "Number" => /\ right.type = "Number"
                                    /\ right.window[1] = value.window[1]
  BY <1>3, <1>4
<1> QED BY <1>5 DEF right

\* On every text cut short anywhere, JSON or not, and for every path: what Get
\* returns without an error and with its end in sight is what it returns of
\* the whole text, and a number at the cut is the beginning of the one it
\* returns of the whole (SYS-REQ-017, SYS-REQ-026).
THEOREM TruncationNeverMisleadsAlways == AskedSpec => []TruncationNeverMisleads
<1>1. AskedInit => SearchInv /\ LookupInv /\ CutInv
  BY SearchInvInit, LookupInvInit, CutInvInit DEF AskedInit
<1>2. SearchInv /\ LookupInv /\ CutInv /\ [AskedNext]_askedVars
        => (SearchInv /\ LookupInv /\ CutInv)'
  <2>1. [AskedNext]_askedVars => [Next]_vars
    BY DEF AskedNext, askedVars, vars
  <2>2. [AskedNext]_askedVars => asked' = asked /\ whole' = whole /\ data' = data
    BY TextIsRead DEF AskedNext, askedVars, vars
  <2>3. CutInv /\ [AskedNext]_askedVars => CutInv'
    BY <2>2 DEF CutInv, IsCutOf
  <2> QED BY <2>1, <2>3, SearchInvNext, LookupInvNext
<1> QED BY <1>1, <1>2, CutInvAnswers, PTL DEF AskedSpec
=============================================================================
