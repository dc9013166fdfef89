------------------------------ MODULE EachKey ------------------------------
(***************************************************************************)
(* EachKey and EachKeyErr: one scan of the data that answers several key   *)
(* paths.  It descends into every object, keeps the names of the objects   *)
(* it is in (pathsBuf), and marks a path once it is answered (pathFlags).  *)
(* An array that some path wants an element of is handed to arrayEach,     *)
(* whose callback answers the paths that end at the element and looks the  *)
(* others up inside it; every other array is skipped.  The two functions   *)
(* differ in what they return: EachKey a position, EachKeyErr the error of *)
(* the callback, which may stop the scan.                                  *)
(***************************************************************************)
EXTENDS Callback

ASSUME StrictAssumption == ~AllowSingleQuotes /\ ~AllowUnknownEscapes

VARIABLES paths,        \* the paths asked for, a sequence
          i,            \* the scan position
          level,        \* open braces, and arrays that are being iterated
          pathsBuf,     \* the keys read last, by level
          matched,      \* the paths answered (pathFlags)
          elem,         \* the loop of arrayEach: [off, index, value, wanted], and
                        \* what a path found in the element: [found]
          due,          \* the paths the callback is still to hear of
          pc,           \* "scan", "key", "array", "element" or "done"
          reply         \* what is returned: [offset, err]

eachKeyVars == <<text, delivered, verdict, paths, i, level, pathsBuf, matched,
                 elem, due, pc, reply>>

request == <<text, paths>>
progress == <<level, pathsBuf, matched>>

Asked == 1 .. Len(paths)

Nowhere == Failed("NotExist", None, "none")
NoLoop == [off |-> None, index |-> 0, value |-> Nowhere, wanted |-> {},
           found |-> None]
Malformed == Failed("Unknown", None, "MalformedJson")

MaxPath == CHOOSE n \in {0} \cup {Len(paths[p]) : p \in Asked} :
             \A p \in Asked : Len(paths[p]) =< n

EachKeyInit ==
  /\ text \in Seq(STRING)
  /\ paths \in Seq(Seq(Seq(STRING)))
  /\ CallbackInit
  /\ i = 1
  /\ level = 0
  /\ pathsBuf = [n \in 1 .. MaxPath |-> <<>>]
  /\ matched = {}
  /\ elem = NoLoop
  /\ due = {}
  /\ pc = "scan"
  /\ reply = [offset |-> None, err |-> "none"]

---------------------------------------------------------------------------
Return(offset, err) == /\ pc' = "done"
                       /\ reply' = [offset |-> offset, err |-> err]
                       /\ UNCHANGED i

GoTo(p) == pc' = "scan" /\ i' = p /\ UNCHANGED reply

Scanning == pc = "scan" /\ i < End

\* The string that starts at i, as in searchKeys.
Closing == StringEnd(text, i + 1, End, Quote)
Following == IF Closing = None THEN None ELSE NextToken(text, Closing + 1, End)
KeyRead == Unescape(Text(text, i + 1, Closing))

AtString == Scanning /\ text[i] = Quote
AtKey == AtString /\ Following # None /\ text[Following] = ":"

\* An open string, one that nothing follows, or a key that does not unescape.
HopelessString ==
  /\ \/ AtString /\ Following = None
     \/ AtKey /\ KeyRead = BadText
  /\ Return(None, "none")
  /\ UNCHANGED <<request, callback, progress, elem, due>>

\* Mutant of ValueString: the scan is put back to the opening quote.
ValueStringRewinds ==
  /\ AtString /\ Following # None /\ text[Following] # ":"
  /\ GoTo(i)
  /\ UNCHANGED <<request, callback, progress, elem, due>>

ValueString == /\ AtString /\ Following # None /\ text[Following] # ":"
               /\ GoTo(Following)
               /\ UNCHANGED <<request, callback, progress, elem, due>>

\* A key, or an array, outside of every object: the callback hears of it with
\* the index -1, and the scan ends whatever it answers.
Misplaced ==
  /\ \/ AtKey /\ KeyRead # BadText /\ level < 1
     \/ Scanning /\ text[i] = "[" /\ level < 0
  /\ Tell(Report(None, Malformed))
  /\ Return(None, ErrorOf(verdict'))
  /\ UNCHANGED <<request, progress, elem, due>>

\* Mutant of SameTree: only the last component is compared.
SameTreeLast(path, buf, n) == Len(path) >= n /\ (n > 0 => path[n] = buf[n])

\* sameTree: the path and the first n names agree as far as both go.
SameTree(path, buf, n) ==
  \A k \in 1 .. n : k =< Len(path) => path[k] = buf[k]

\* Mutant of Completed: a path answered before is answered again.
CompletedAgain(names) ==
  {p \in Asked : /\ Len(paths[p]) = level
                 /\ SameTree(paths[p], names, level)}

\* The paths a key completes, given the names down to it.
Completed(names) ==
  {p \in Asked \ matched : /\ Len(paths[p]) = level
                           /\ SameTree(paths[p], names, level)}

\* Behind a key that completes no path the scan goes on at the value.  With
\* nothing behind the colon it steps back instead, by one or two bytes.
ValueAfter(colon) ==
  LET next == NextToken(text, colon + 1, End)
  IN  CASE next # None                                 -> next
        [] next = None /\ text[colon - 1] = Quote      -> colon - 1
        [] OTHER                                       -> colon

\* Mutant of ReadKey: the key replaces no name left by an earlier object.
ReadKeyStale ==
  /\ AtKey /\ KeyRead # BadText /\ level >= 1
  /\ pathsBuf' = IF level =< MaxPath /\ pathsBuf[level] = <<>>
                 THEN [pathsBuf EXCEPT ![level] = KeyRead] ELSE pathsBuf
  /\ due' = IF level =< MaxPath THEN Completed(pathsBuf') ELSE {}
  /\ IF due' = {} THEN GoTo(ValueAfter(Following))
     ELSE pc' = "key" /\ i' = Following /\ UNCHANGED reply
  /\ UNCHANGED <<request, callback, level, matched, elem>>

\* A key of an object; below the longest path it is not even recorded.
ReadKey ==
  /\ AtKey /\ KeyRead # BadText /\ level >= 1
  /\ pathsBuf' = IF level =< MaxPath THEN [pathsBuf EXCEPT ![level] = KeyRead]
                 ELSE pathsBuf
  /\ due' = IF level =< MaxPath THEN Completed(pathsBuf') ELSE {}
  /\ IF due' = {} THEN GoTo(ValueAfter(Following))
     ELSE pc' = "key" /\ i' = Following /\ UNCHANGED reply
  /\ UNCHANGED <<request, callback, level, matched, elem>>

\* The callback hears the value of path p.
Answer(p, v) == /\ Tell(Report(p, v))
                /\ matched' = matched \cup {p}
                /\ due' = due \ {p}

\* The value behind the key goes to each path it completes, in the order of
\* the paths.  The scan ends when the callback stops it or nothing is left to
\* find; otherwise it goes on inside the value, where longer paths lead.
ReportKey ==
  /\ pc = "key"
  /\ Answer(First(due), ClosestValue(text, i + 1, End))
  /\ CASE Stopped'                         -> Return(None, ErrorOf(verdict'))
       [] ~Stopped' /\ matched' = Asked    -> Return(i, "none")
       [] ~Stopped' /\ matched' # Asked /\ due' = {}  -> GoTo(i + 1)
       [] OTHER                            -> UNCHANGED <<pc, i, reply>>
  /\ UNCHANGED <<request, level, pathsBuf, elem>>

OpenBrace == /\ Scanning /\ text[i] = "{"
             /\ level' = level + 1
             /\ GoTo(i + 1)
             /\ UNCHANGED <<request, callback, pathsBuf, matched, elem, due>>

\* A bracket closes here only behind an array that was iterated.
CloseBlock == /\ Scanning /\ text[i] \in {"}", "]"}
              /\ level' = level - 1
              /\ GoTo(i + 1)
              /\ UNCHANGED <<request, callback, pathsBuf, matched, elem, due>>

\* The paths that want an element of the array at i.
Wanting ==
  {p \in Asked \ matched : /\ Len(paths[p]) >= level + 1
                           /\ IsIndex(paths[p][level + 1])
                           /\ SameTree(paths[p], pathsBuf, level)}

AtArray == Scanning /\ text[i] = "[" /\ level >= 0

SkipArray ==
  /\ AtArray /\ Wanting = {}
  /\ LET end == BlockEnd(text, i, End, "[", "]")
     IN  IF end = None THEN Return(None, "none") ELSE GoTo(end)
  /\ UNCHANGED <<request, callback, progress, elem, due>>

\* arrayEach starts, or ends at once: at a closing bracket, or at the end of
\* the data just behind the opening one.
EnterArray ==
  /\ AtArray /\ Wanting # {}
  /\ level' = level + 1
  /\ LET first == NextToken(text, i + 1, End)
         loop == [NoLoop EXCEPT !.off = first, !.wanted = Wanting]
     IN  CASE first = None        -> GoTo(i + 1) /\ UNCHANGED elem
           [] first # None /\ text[first] = "]" -> GoTo(first) /\ UNCHANGED elem
           [] OTHER               -> /\ pc' = "array" /\ elem' = loop
                                     /\ UNCHANGED <<i, reply>>
  /\ UNCHANGED <<request, callback, pathsBuf, matched, due>>

\* arrayEach is over; it returned the position p.
LeaveArray(p) == /\ elem' = NoLoop
                 /\ IF matched = Asked THEN Return(i, "none") ELSE GoTo(p)

\* One turn of arrayEach up to its callback: the paths that want this element
\* and are not answered yet are due.
NextElement ==
  /\ pc = "array"
  /\ LET v == ClosestValue(text, elem.off, End)
     IN  IF v.end = elem.off
         THEN LeaveArray(elem.off) /\ UNCHANGED due
         ELSE /\ elem' = [elem EXCEPT !.value = v]
              /\ due' = {p \in elem.wanted \ matched :
                           Index(paths[p][level]) = elem.index}
              /\ pc' = "element"
              /\ UNCHANGED <<i, reply>>
  /\ UNCHANGED <<request, callback, progress>>

AtPath(p) == /\ pc = "element" /\ elem.found = None
             /\ due # {} /\ p = First(due)

\* A path that goes on below the element is looked up in the text of the
\* element; it gets nothing when it leads nowhere there.
LookInside ==
  \E p \in due :
    /\ AtPath(p) /\ Len(paths[p]) > level
    /\ LET rest == SubSeq(paths[p], level + 1, Len(paths[p]))
           at == SearchKeys(text, rest, elem.value.window[1], elem.value.window[2])
       IN  /\ elem' = [elem EXCEPT !.found = at]
           /\ due' = IF at = None THEN due \ {p} ELSE due
    /\ UNCHANGED <<pc, i, reply, request, callback, progress>>

\* Mutant of TellElement: that the callback stopped is not passed on.
TellElementUnstopped(p, v) ==
  /\ Answer(p, v)
  /\ elem' = [elem EXCEPT !.found = None]
  /\ UNCHANGED <<pc, i, reply>>
  /\ UNCHANGED <<request, level, pathsBuf>>

\* The callback of arrayEach calls the caller's.
TellElement(p, v) ==
  /\ Answer(p, v)
  /\ elem' = [elem EXCEPT !.found = None]
  /\ IF Stopped' THEN Return(None, ErrorOf(verdict'))
     ELSE UNCHANGED <<pc, i, reply>>
  /\ UNCHANGED <<request, level, pathsBuf>>

\* A path that ends here gets the element as arrayEach handed it over, another
\* the value that was found inside it.
ReportElement ==
  \/ \E p \in due : /\ AtPath(p) /\ Len(paths[p]) = level
                    /\ TellElement(p, elem.value)
  \/ /\ pc = "element" /\ elem.found # None
     /\ TellElement(First(due),
                    ClosestValue(text, elem.found, elem.value.window[2]))

\* The rest of the turn: on behind a comma, else the loop ends where it is.
AfterElement ==
  /\ pc = "element" /\ due = {}
  /\ LET v == elem.value
         next == NextToken(text, v.end, End)
     IN  CASE v.err # "none" -> LeaveArray(elem.off)
           [] v.err = "none" /\ next = None -> LeaveArray(v.end)
           [] v.err = "none" /\ next # None /\ text[next] = "," ->
                /\ elem' = [elem EXCEPT !.off = next + 1, !.index = @ + 1,
                                        !.value = Nowhere]
                /\ pc' = "array" /\ UNCHANGED <<i, reply>>
           [] OTHER -> LeaveArray(next)
  /\ UNCHANGED <<request, callback, progress, due>>

OtherByte == /\ Scanning /\ text[i] \notin {Quote, "{", "}", "[", "]"}
             /\ GoTo(i + 1)
             /\ UNCHANGED <<request, callback, progress, elem, due>>

Exhausted == /\ pc = "scan" /\ i >= End
             /\ Return(None, "none")
             /\ UNCHANGED <<request, callback, progress, elem, due>>

EachKeyNext == \/ HopelessString \/ ValueString \/ Misplaced
               \/ ReadKey \/ ReportKey \/ OpenBrace \/ CloseBlock
               \/ SkipArray \/ EnterArray
               \/ NextElement \/ LookInside \/ ReportElement \/ AfterElement
               \/ OtherByte \/ Exhausted

EachKeySpec == EachKeyInit /\ [][EachKeyNext]_eachKeyVars

---------------------------------------------------------------------------
\* On any data a path is answered at most once, however many keys or elements
\* fit it and whichever paths share them (pathFlags).
NoPathTwice ==
  \A m, n \in 1 .. Len(delivered) :
    m # n /\ delivered[m].idx # None => delivered[m].idx # delivered[n].idx

\* Once the callback has answered with an error it hears nothing more, and the
\* call returns that error, or none for io.EOF (EachKeyErr, SYS-REQ-008).
StopsWhenTold ==
  [][/\ Stopped => UNCHANGED delivered
     /\ pc' = "done" => reply'.err = ErrorOf(verdict')]_eachKeyVars
=============================================================================
