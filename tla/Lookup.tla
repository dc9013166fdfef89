------------------------------ MODULE Lookup ------------------------------
(***************************************************************************)
(* Get as a function of the text: searchKeys and internalGet in one step,  *)
(* for the operations that are built on what Get finds.  SearchKeys has    *)
(* the same scan as a machine; that the machine computes this function is  *)
(* checked and proved (SearchLookup).  The functions are recursive, not    *)
(* operators, so that modules with proofs can use this one.                *)
(***************************************************************************)
EXTENDS JsonText

\* The local variables of searchKeys.  A scan with no component left has its
\* answer, and i is it: where the value begins, or None.
Scans == [keys : Seq(Seq(STRING)), i : Nat, hi : Nat,
          level : Int, keyLevel : Int, lastMatched : BOOLEAN]

StartScan(keys, window) ==
  [keys |-> keys, i |-> window[1], hi |-> window[2],
   level |-> 0, keyLevel |-> 0, lastMatched |-> TRUE]

Answered(p) == StartScan(<<>>, <<p, p>>)

\* arrayEach, as searchKeys uses it.  After the element v the loop goes on
\* behind a comma, or ends.
NextStart(d, v, hi) ==
  LET next == NextToken(d, v.end, hi)
  IN  IF v.err = "none" /\ next # None /\ d[next] = "," THEN next + 1 ELSE None

\* Where each element of the array opened at i starts, or None when the loop
\* does not get there.
FirstStart(d, i, hi) ==
  LET first == NextToken(d, i + 1, hi)
  IN  IF first = None \/ d[first] = "]" THEN None ELSE first

ElementStarts(d, i, hi) ==
  LET start[k \in Nat] ==
        IF k = 0 THEN FirstStart(d, i, hi)
        ELSE IF start[k - 1] = None THEN None
        ELSE NextStart(d, ClosestValue(d, start[k - 1], hi), hi)
  IN  start

ElementStart(d, i, hi, n) ==
  IF n \in Nat THEN ElementStarts(d, i, hi)[n] ELSE None

\* What the callback keeps of the element v that starts at i; one that is
\* empty is not handed to it.
Kept(v, i) == IF v.end = i THEN NoWindow ELSE ElementWindow(v)

ElementFrom(d, start, hi) ==
  IF start = None THEN NoWindow ELSE Kept(ClosestValue(d, start, hi), start)

\* One case of the switch of searchKeys.  A key with its colon at after:
StepKey(s, text, after) ==
  LET isNext == s.keyLevel = s.level - 1
      usable == s.level >= 1 /\ s.level =< Len(s.keys) /\ text # BadText
  IN  IF ~usable THEN Answered(None)
      ELSE IF text # s.keys[s.level]
      THEN [s EXCEPT !.i = after + 1, !.lastMatched = FALSE]
      ELSE IF isNext /\ s.level = Len(s.keys) THEN Answered(after + 1)
      ELSE [s EXCEPT !.i = after + 1, !.lastMatched = TRUE,
                     !.keyLevel = IF isNext THEN s.level ELSE @]

\* A string: a key when a colon follows it.
StepString(d, s) ==
  LET close == StringEnd(d, s.i + 1, s.hi, d[s.i])
      after == IF close = None THEN None ELSE NextToken(d, close + 1, s.hi)
  IN  IF after = None THEN Answered(None)
      ELSE IF d[after] # ":" THEN [s EXCEPT !.i = after]
      ELSE StepKey(s, Unescape(Text(d, s.i + 1, close)), after)

StepOver(s, end) == IF end = None THEN Answered(None) ELSE [s EXCEPT !.i = end]

StepBrace(d, s) ==
  IF s.lastMatched THEN [s EXCEPT !.i = @ + 1, !.level = @ + 1]
  ELSE StepOver(s, BlockEnd(d, s.i, s.hi, "{", "}"))

\* An array is passed over, unless the next component asks for an element.
StepArray(d, s) ==
  LET component == s.keys[s.level + 1]
      start == ElementStart(d, s.i, s.hi, Index(component))
      rest == SubSeq(s.keys, s.level + 2, Len(s.keys))
  IN  IF ~(/\ s.keyLevel = s.level /\ s.level + 1 \in 1 .. Len(s.keys)
           /\ IsIndexForm(component))
      THEN StepOver(s, BlockEnd(d, s.i, s.hi, "[", "]"))
      ELSE IF ~IsIndex(component) THEN Answered(None)
      ELSE StartScan(rest, ElementFrom(d, start, s.hi))

StepScan(d, s) ==
  LET c == d[s.i]
  IN  IF s.i \notin 1 .. s.hi - 1 THEN Answered(None)
      ELSE CASE c \in Quotes -> StepString(d, s)
             [] c = "{"      -> StepBrace(d, s)
             [] c = "}"      -> [s EXCEPT !.i = @ + 1, !.level = @ - 1,
                                          !.keyLevel = IF @ = s.level - 1
                                                       THEN @ - 1 ELSE @]
             [] c = "["      -> StepArray(d, s)
             [] c = ":"      -> Answered(None)
             [] OTHER        -> [s EXCEPT !.i = @ + 1]

\* searchKeys: where the value the path addresses begins, or None.
FoundFrom(d) ==
  LET found[s \in Scans] == IF s.keys = <<>> THEN s.i ELSE found[StepScan(d, s)]
  IN  found

SearchKeys(d, keys, lo, hi) == FoundFrom(d)[StartScan(keys, <<lo, hi>>)]

\* internalGet on the window [lo, hi) of the text.
ValueAt(d, offset, hi) ==
  IF offset = None THEN Failed("NotExist", None, "KeyPathNotFound")
  ELSE ClosestValue(d, offset, hi)

GetIn(d, keys, lo, hi) == ValueAt(d, SearchKeys(d, keys, lo, hi), hi)

Get(d, keys) == GetIn(d, keys, 1, Len(d) + 1)

\* Mutant of StartOf: the quote before a string is not counted.
StartOfText(v) == v.window[1]

\* Where the value begins in the text, its quote included.
StartOf(v) == IF v.type = "String" THEN v.window[1] - 1 ELSE v.window[1]
=============================================================================
