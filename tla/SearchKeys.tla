---------------------------- MODULE SearchKeys ----------------------------
(***************************************************************************)
(* Get(data, keys...): searchKeys, the single forward scan that locates    *)
(* the value a key path addresses without building a tree, followed by the *)
(* rest of internalGet.  One action per case of the scan's switch.  The    *)
(* scan keeps two counters, level (how many braces are open) and keyLevel  *)
(* (how many path components are matched), and one flag, lastMatched; an   *)
(* index component hands over to arrayEach's loop and then restarts the    *)
(* scan inside the element it found, with the rest of the path.            *)
(***************************************************************************)
EXTENDS JsonText

VARIABLES data,         \* the document: any bytes at all
          keys,         \* the path still to be resolved
          lo, hi,       \* the window of data searched: the whole of it, or an
                        \* array element
          i,            \* the scan position
          level,        \* open braces
          keyLevel,     \* matched components of keys
          lastMatched,  \* whether the last key read equals its component
          elem,         \* arrayEach inside the scan: [off, index, found]
          pc,           \* "scan", "array", "element", "locate" or "done"
          offset,       \* what searchKeys returned
          value         \* what Get returned

vars == <<data, keys, lo, hi, i, level, keyLevel, lastMatched, elem, pc,
          offset, value>>

input == <<data, keys, lo, hi>>
counters == <<level, keyLevel, lastMatched>>
answer == <<offset, value>>

NoElement == [off |-> None, index |-> 0, found |-> NoWindow]
Unanswered == Failed("NotExist", None, "none")
NotFoundValue == Failed("NotExist", None, "KeyPathNotFound")

Init == /\ data \in Seq(STRING)
        /\ keys \in Seq(Seq(STRING))
        /\ lo = 1 /\ hi = Len(data) + 1
        /\ i = 1
        /\ level = 0 /\ keyLevel = 0 /\ lastMatched = TRUE
        /\ elem = NoElement
        /\ pc = IF keys = <<>> THEN "locate" ELSE "scan"
        /\ offset = IF keys = <<>> THEN 1 ELSE None
        /\ value = Unanswered

---------------------------------------------------------------------------
\* searchKeys returns: with a position, or with -1 (and Get with it).
Found(p) == /\ pc' = "locate"
            /\ offset' = p
            /\ UNCHANGED value

NotFound == /\ pc' = "done"
            /\ value' = NotFoundValue
            /\ UNCHANGED <<data, keys, lo, hi, i, counters, elem, offset>>

Scanning == pc = "scan" /\ i < hi

MoveTo(p) == i' = p /\ UNCHANGED <<input, elem, pc, answer>>

\* The string that starts at i: where it ends and what token follows it.
ClosingQuote == StringEnd(data, i + 1, hi, data[i])
AfterString == IF ClosingQuote = None THEN None
               ELSE NextToken(data, ClosingQuote + 1, hi)
KeyText == Unescape(Text(data, i + 1, ClosingQuote))

AtString == Scanning /\ data[i] \in Quotes
AtKey == AtString /\ AfterString # None /\ data[AfterString] = ":"
UsableKey == level >= 1 /\ level =< Len(keys) /\ KeyText # BadText
MatchesComponent == KeyText = keys[level]

\* A string with nothing after it, a key outside every object or too deep, or
\* a key with a malformed escape: the search is given up.
HopelessString ==
  /\ \/ AtString /\ AfterString = None
     \/ AtKey /\ ~UsableKey
  /\ NotFound

\* Mutant of ValueString: the scan is put back to the opening quote.
ValueStringRewinds == /\ AtString /\ AfterString # None
                      /\ data[AfterString] # ":"
                      /\ MoveTo(i)
                      /\ UNCHANGED counters

\* A string that is a value, not a key.
ValueString == /\ AtString /\ AfterString # None
               /\ data[AfterString] # ":"
               /\ MoveTo(AfterString)
               /\ UNCHANGED counters

OtherKey == /\ AtKey /\ UsableKey /\ ~MatchesComponent
            /\ lastMatched' = FALSE
            /\ MoveTo(AfterString + 1)
            /\ UNCHANGED <<level, keyLevel>>

\* Mutant of MatchingKey: the complete match does not return.
MatchingKeyGoesOn ==
  /\ AtKey /\ UsableKey /\ MatchesComponent
  /\ lastMatched' = TRUE
  /\ keyLevel' = IF keyLevel = level - 1 THEN keyLevel + 1 ELSE keyLevel
  /\ MoveTo(AfterString + 1)
  /\ UNCHANGED level

\* A key that equals the component of its level.  Only at the level where the
\* match stands does it extend the match; it may complete the path.
MatchingKey ==
  /\ AtKey /\ UsableKey /\ MatchesComponent
  /\ lastMatched' = TRUE
  /\ keyLevel' = IF keyLevel = level - 1 THEN keyLevel + 1 ELSE keyLevel
  /\ IF keyLevel = level - 1 /\ keyLevel' = Len(keys)
     THEN Found(AfterString + 1) /\ UNCHANGED <<input, i, elem>>
     ELSE MoveTo(AfterString + 1)
  /\ UNCHANGED level

OpenBrace ==
  /\ Scanning /\ data[i] = "{"
  /\ lastMatched
  /\ level' = level + 1
  /\ MoveTo(i + 1)
  /\ UNCHANGED <<keyLevel, lastMatched>>

\* Mutant of SkipObject: i += end without the - 1 the loop's i++ asks for.
SkipObjectTooFar ==
  /\ Scanning /\ data[i] = "{"
  /\ ~lastMatched
  /\ LET end == BlockEnd(data, i, hi, "{", "}")
     IN  IF end = None THEN NotFound
         ELSE MoveTo(end + 1) /\ UNCHANGED counters

\* An object under a key that did not match is skipped as a block.
SkipObject ==
  /\ Scanning /\ data[i] = "{"
  /\ ~lastMatched
  /\ LET end == BlockEnd(data, i, hi, "{", "}")
     IN  IF end = None THEN NotFound
         ELSE MoveTo(end) /\ UNCHANGED counters

\* Mutant of CloseBrace: the match of the closed object's key is kept.
CloseBraceKeepsMatch ==
  /\ Scanning /\ data[i] = "}"
  /\ level' = level - 1
  /\ MoveTo(i + 1)
  /\ UNCHANGED <<keyLevel, lastMatched>>

CloseBrace ==
  /\ Scanning /\ data[i] = "}"
  /\ level' = level - 1
  /\ keyLevel' = IF level' = keyLevel THEN keyLevel - 1 ELSE keyLevel
  /\ MoveTo(i + 1)
  /\ UNCHANGED lastMatched

\* The array at i is asked for an element: the next component is an index.
WantsElement == keyLevel = level /\ IsIndexForm(keys[level + 1])

SkipArray ==
  /\ Scanning /\ data[i] = "["
  /\ ~WantsElement
  /\ LET end == BlockEnd(data, i, hi, "[", "]")
     IN  IF end = None THEN NotFound
         ELSE MoveTo(end) /\ UNCHANGED counters

\* An index component: malformed, or on an array with no first element, it
\* ends the search; otherwise arrayEach starts on the elements.
EnterArray ==
  /\ Scanning /\ data[i] = "["
  /\ WantsElement
  /\ LET first == NextToken(data, i + 1, hi)
     IN  IF ~IsIndex(keys[level + 1]) \/ first = None \/ data[first] = "]"
         THEN NotFound
         ELSE /\ pc' = "array"
              /\ elem' = [off |-> first, index |-> 0, found |-> NoWindow]
              /\ UNCHANGED <<input, i, counters, answer>>

\* Mutant of NextElement: the test o == 0 is missing, the callback hears all.
NextElementUnguarded ==
  /\ pc = "array"
  /\ LET v == ClosestValue(data, elem.off, hi)
         next == IF v.err = "none" THEN NextToken(data, v.end, hi) ELSE None
         more == next # None /\ data[next] = ","
     IN  /\ elem' = [off   |-> IF more THEN next + 1 ELSE elem.off,
                     index |-> elem.index + 1,
                     found |-> IF elem.index = Index(keys[level + 1])
                               THEN ElementWindow(v) ELSE elem.found]
         /\ pc' = IF more THEN "array" ELSE "element"
  /\ UNCHANGED <<input, i, counters, answer>>

\* Mutant of NextElement: the callback counts the element before it compares.
NextElementCountedFirst ==
  /\ pc = "array"
  /\ LET v == ClosestValue(data, elem.off, hi)
         heard == v.end # elem.off
         next == IF heard /\ v.err = "none" THEN NextToken(data, v.end, hi)
                 ELSE None
         more == next # None /\ data[next] = ","
     IN  /\ elem' = [off   |-> IF more THEN next + 1 ELSE elem.off,
                     index |-> IF heard THEN elem.index + 1 ELSE elem.index,
                     found |-> IF heard /\ elem.index + 1 = Index(keys[level + 1])
                               THEN ElementWindow(v) ELSE elem.found]
         /\ pc' = IF more THEN "array" ELSE "element"
  /\ UNCHANGED <<input, i, counters, answer>>

\* One turn of arrayEach's loop.  A value that ends where the element should
\* have started is an error no callback hears of.
NextElement ==
  /\ pc = "array"
  /\ LET v == ClosestValue(data, elem.off, hi)
         heard == v.end # elem.off
         next == IF heard /\ v.err = "none" THEN NextToken(data, v.end, hi)
                 ELSE None
         more == next # None /\ data[next] = ","
     IN  /\ elem' = [off   |-> IF more THEN next + 1 ELSE elem.off,
                     index |-> IF heard THEN elem.index + 1 ELSE elem.index,
                     found |-> IF heard /\ elem.index = Index(keys[level + 1])
                               THEN ElementWindow(v) ELSE elem.found]
         /\ pc' = IF more THEN "array" ELSE "element"
  /\ UNCHANGED <<input, i, counters, answer>>

\* The recursive call on the element, or -1 when there is none.
SearchElement ==
  /\ pc = "element" /\ elem.found # NoWindow
  /\ LET rest == SubSeq(keys, level + 2, Len(keys))
         start == elem.found[1]
     IN  /\ keys' = rest
         /\ lo' = start /\ hi' = elem.found[2] /\ i' = start
         /\ IF rest = <<>> THEN Found(start)
            ELSE pc' = "scan" /\ UNCHANGED answer
  /\ level' = 0 /\ keyLevel' = 0 /\ lastMatched' = TRUE
  /\ elem' = NoElement
  /\ UNCHANGED data

NoSuchElement == /\ pc = "element" /\ elem.found = NoWindow
                 /\ NotFound

\* A colon that follows no key: the text is malformed.
StrayColon == /\ Scanning /\ data[i] = ":"
              /\ NotFound

SkipByte == /\ Scanning
            /\ data[i] \notin Quotes \cup {"{", "}", "[", ":"}
            /\ MoveTo(i + 1)
            /\ UNCHANGED counters

Exhausted == /\ pc = "scan" /\ i >= hi
             /\ NotFound

\* The rest of internalGet: the closest value to the offset found.
Locate == /\ pc = "locate"
          /\ value' = ClosestValue(data, offset, Len(data) + 1)
          /\ pc' = "done"
          /\ UNCHANGED <<input, i, counters, elem, offset>>

Next == \/ HopelessString \/ ValueString \/ OtherKey \/ MatchingKey
        \/ OpenBrace \/ SkipObject \/ CloseBrace
        \/ SkipArray \/ EnterArray \/ NextElement
        \/ SearchElement \/ NoSuchElement
        \/ StrayColon \/ SkipByte \/ Exhausted
        \/ Locate

Spec == Init /\ [][Next]_vars /\ WF_vars(Next)

---------------------------------------------------------------------------
Positions == 1 .. Len(data) + 1

\* Type correctness of the scan's variables.
TypeOK ==
  /\ data \in Seq(STRING) /\ keys \in Seq(Seq(STRING))
  /\ lo \in Positions /\ hi \in Positions /\ i \in lo .. hi
  /\ level \in Int /\ keyLevel \in Int /\ lastMatched \in BOOLEAN
  /\ pc \in {"scan", "array", "element", "locate", "done"}
  /\ elem.off \in Positions \cup {None} /\ elem.index \in Nat
  /\ offset \in Positions \cup {None}

\* No path component is read out of range, whatever the text: not keys[level]
\* at an array (searchKeys tests only keyLevel == level before it), and not by
\* the element loop.  An unbalanced closing brace takes both counters below
\* zero, and keyLevel only ever below level.
PathIndexInRange ==
  \/ pc = "scan" /\ i < hi /\ data[i] = "[" /\ keyLevel = level
  \/ pc \in {"array", "element"}
  => level + 1 \in 1 .. Len(keys)

\* No slice of the data is taken out of range: the element handed to the
\* recursive call, widened by its quotes even when it is an unterminated
\* string, lies inside the array being searched; so does every offset.
SlicesInRange ==
  /\ elem.found # NoWindow =>
       /\ i < elem.found[1]
       /\ elem.found[1] =< elem.found[2]
       /\ elem.found[2] =< hi
  /\ pc = "locate" => offset \in lo .. hi
  /\ value.window # NoWindow =>
       /\ lo =< value.window[1]
       /\ value.window[1] =< value.window[2]
       /\ value.window[2] =< Len(data) + 1
=============================================================================
