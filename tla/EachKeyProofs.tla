--------------------------- MODULE EachKeyProofs ---------------------------
(***************************************************************************)
(* For every text and every list of paths: EachKey answers no path twice,  *)
(* and calls nothing back once it has been told to stop.                   *)
(*                                                                         *)
(* What keeps a path from being answered again are the flags, read when it *)
(* becomes due and not again before it is answered: nothing may be marked  *)
(* in between but what is taken off the list (DueInv).                     *)
(***************************************************************************)
EXTENDS EachKey, JsonTextProofs

\* The loop's record has its fields, and the paths it serves were asked for.
ElemInv ==
  /\ elem = [off |-> elem.off, index |-> elem.index, value |-> elem.value,
             wanted |-> elem.wanted, found |-> elem.found]
  /\ elem.wanted \subseteq Asked

\* What was found inside an element was found for a path that is still due.
LoopInv ==
  /\ pc = "array" => elem.found = None
  /\ pc = "element" /\ elem.found # None => due # {}

DueInv ==
  /\ matched \subseteq Asked /\ due \subseteq Asked
  /\ pc \in {"key", "element"} => due \cap matched = {}
  /\ pc = "key" => due # {}

IsSequence(s) == \E S : s \in Seq(S)

\* Whatever has been reported is marked.
DeliveredInv ==
  /\ IsSequence(delivered)
  /\ \A m \in 1 .. Len(delivered) :
       delivered[m].idx # None => delivered[m].idx \in matched
  /\ NoPathTwice

\* A scan that was stopped is over, and returns what it was told.
StopInv ==
  /\ pc # "done" => ~Stopped
  /\ pc = "done" => reply.err = ErrorOf(verdict)

AnswersInv == ElemInv /\ LoopInv /\ DueInv /\ DeliveredInv /\ StopInv

---------------------------------------------------------------------------
\* A sequence of anything, with one more.
LEMMA AppendAny ==
  ASSUME NEW s, IsSequence(s), NEW r
  PROVE  /\ IsSequence(Append(s, r))
         /\ Len(s) \in Nat /\ Len(Append(s, r)) = Len(s) + 1
         /\ Append(s, r)[Len(s) + 1] = r
         /\ \A k \in 1 .. Len(s) : Append(s, r)[k] = s[k]
<1>1. PICK S : s \in Seq(S)
  BY DEF IsSequence
<1>2. s \in Seq(S \cup {r}) /\ r \in S \cup {r}
  <2>1. s \in [1 .. Len(s) -> S] /\ Len(s) \in Nat
    BY <1>1, LenProperties
  <2>2. s \in [1 .. Len(s) -> S \cup {r}]
    BY <2>1
  <2> QED BY <2>1, <2>2, SeqDef
<1> QED BY <1>2, AppendProperties, LenProperties DEF IsSequence

\* Telling the callback of a path that is not marked, and marking it.
LEMMA AnswerKeeps ==
  ASSUME DueInv, DeliveredInv, NEW p \in Asked \ matched, NEW v, Answer(p, v),
         paths' = paths
  PROVE  DeliveredInv' /\ matched' \subseteq Asked
<1>1. /\ delivered' = Append(delivered, Report(p, v))
      /\ matched' = matched \cup {p}
  BY DEF Answer, Tell
<1>2. Report(p, v).idx = p
  BY DEF Report
<1> DEFINE r == Report(p, v)
<1> HIDE DEF r
<1>3. /\ IsSequence(delivered')
      /\ Len(delivered) \in Nat /\ Len(delivered') = Len(delivered) + 1
      /\ delivered'[Len(delivered) + 1].idx = p
      /\ \A k \in 1 .. Len(delivered) : delivered'[k] = delivered[k]
  <2>1. IsSequence(delivered)
    BY DEF DeliveredInv
  <2>2. delivered' = Append(delivered, r) /\ r.idx = p
    BY <1>1, <1>2 DEF r
  <2>3. /\ IsSequence(Append(delivered, r))
        /\ Len(delivered) \in Nat
        /\ Len(Append(delivered, r)) = Len(delivered) + 1
        /\ Append(delivered, r)[Len(delivered) + 1] = r
        /\ \A k \in 1 .. Len(delivered) :
             Append(delivered, r)[k] = delivered[k]
    BY <2>1, AppendAny
  <2> QED BY <2>2, <2>3
<1>4. \A m \in 1 .. Len(delivered') :
        delivered'[m].idx # None => delivered'[m].idx \in matched'
  BY <1>1, <1>3 DEF DeliveredInv
<1>5. NoPathTwice'
  <2> SUFFICES ASSUME NEW m \in 1 .. Len(delivered'),
                      NEW n \in 1 .. Len(delivered'),
                      m # n, delivered'[m].idx # None
               PROVE  delivered'[m].idx # delivered'[n].idx
    BY DEF NoPathTwice
  <2>1. CASE m =< Len(delivered) /\ n =< Len(delivered)
    <3>1. /\ m \in 1 .. Len(delivered) /\ n \in 1 .. Len(delivered)
      BY <1>3, <2>1
    <3> QED BY <1>3, <3>1 DEF DeliveredInv, NoPathTwice
  <2>2. CASE m =< Len(delivered) /\ n = Len(delivered) + 1
    <3>1. m \in 1 .. Len(delivered)
      BY <1>3, <2>2
    <3> QED BY <1>3, <2>2, <3>1 DEF DeliveredInv
  <2>3. CASE m = Len(delivered) + 1 /\ n =< Len(delivered)
    <3>1. n \in 1 .. Len(delivered) /\ p # None
      BY <1>3, <2>3 DEF Asked, None
    <3> QED BY <1>3, <2>3, <3>1 DEF DeliveredInv
  <2> QED BY <1>3, <2>1, <2>2, <2>3
<1> QED BY <1>1, <1>3, <1>4, <1>5 DEF DeliveredInv, DueInv

---------------------------------------------------------------------------
\* What a step that tells the callback nothing leaves alone.
Silent == UNCHANGED <<text, paths, delivered, verdict, matched>>

\* A step that tells the callback nothing.
LEMMA SilentKeeps ==
  ASSUME DeliveredInv, Silent
  PROVE  DeliveredInv'
<1>1. delivered' = delivered /\ matched' = matched
  BY DEF Silent
<1>2. NoPathTwice'
  BY <1>1 DEF DeliveredInv, NoPathTwice
<1> QED BY <1>1, <1>2 DEF DeliveredInv

\* A silent step that goes back to the scan, or ends it without an error.
LEMMA ScanKeeps ==
  ASSUME AnswersInv, Silent, pc # "done", ElemInv', due' \subseteq Asked,
         pc' = "scan" \/ (pc' = "done" /\ reply'.err = "none")
  PROVE  AnswersInv'
<1>1. DeliveredInv'
  BY SilentKeeps DEF AnswersInv
<1>2. StopInv'
  BY DEF AnswersInv, StopInv, Stopped, ErrorOf, Silent
<1>3. DueInv' /\ LoopInv'
  BY DEF AnswersInv, DueInv, LoopInv, Silent, Asked
<1> QED BY <1>1, <1>2, <1>3 DEF AnswersInv

\* A step that leaves the element loop alone.
LEMMA ElemKept ==
  ASSUME ElemInv, UNCHANGED <<elem, paths>>
  PROVE  ElemInv'
BY DEF ElemInv, Asked

\* A step that leaves the element loop.
LEMMA NoLoopKept == ASSUME elem' = NoLoop PROVE ElemInv'
BY DEF ElemInv, NoLoop

\* The steps of the scan that report nothing.
LEMMA PlainSteps ==
  ASSUME AnswersInv,
         \/ HopelessString \/ ValueString \/ OpenBrace \/ CloseBlock
         \/ SkipArray \/ OtherByte \/ Exhausted
  PROVE  AnswersInv'
<1>1. /\ Silent /\ UNCHANGED <<elem, due>> /\ pc = "scan"
      /\ pc' = "scan" \/ (pc' = "done" /\ reply'.err = "none")
  <2>1. CASE HopelessString
    BY <2>1 DEF HopelessString, AtKey, AtString, Scanning, Return, Silent,
                request, callback, progress
  <2>2. CASE ValueString
    BY <2>2 DEF ValueString, AtString, Scanning, GoTo, Silent,
                request, callback, progress
  <2>3. CASE OpenBrace
    BY <2>3 DEF OpenBrace, Scanning, GoTo, Silent, request, callback
  <2>4. CASE CloseBlock
    BY <2>4 DEF CloseBlock, Scanning, GoTo, Silent, request, callback
  <2>5. CASE SkipArray
    BY <2>5 DEF SkipArray, AtArray, Scanning, GoTo, Return, Silent,
                request, callback, progress
  <2>6. CASE OtherByte
    BY <2>6 DEF OtherByte, Scanning, GoTo, Silent, request, callback, progress
  <2>7. CASE Exhausted
    BY <2>7 DEF Exhausted, Return, Silent, request, callback, progress
  <2> QED BY <2>1, <2>2, <2>3, <2>4, <2>5, <2>6, <2>7
<1>2. ElemInv' /\ due' \subseteq Asked
  BY <1>1, ElemKept DEF AnswersInv, DueInv, Silent
<1> QED BY <1>1, <1>2, ScanKeeps

\* The report of a misplaced key answers no path.
LEMMA MisplacedKeeps == AnswersInv /\ Misplaced => AnswersInv'
<1> SUFFICES ASSUME AnswersInv, Misplaced PROVE AnswersInv'
  OBVIOUS
<1> DEFINE r == Report(None, Malformed)
<1>1. /\ delivered' = Append(delivered, r)
      /\ matched' = matched /\ paths' = paths /\ elem' = elem /\ due' = due
      /\ pc' = "done" /\ reply'.err = ErrorOf(verdict')
  BY DEF Misplaced, Tell, Return, request, progress
<1>2. r.idx = None
  BY DEF Report
<1> HIDE DEF r
<1>3. /\ IsSequence(delivered')
      /\ Len(delivered) \in Nat /\ Len(delivered') = Len(delivered) + 1
      /\ delivered'[Len(delivered) + 1].idx = None
      /\ \A k \in 1 .. Len(delivered) : delivered'[k] = delivered[k]
  <2>1. IsSequence(delivered)
    BY DEF AnswersInv, DeliveredInv
  <2> QED BY <1>1, <1>2, <2>1, AppendAny
<1>4. \A m \in 1 .. Len(delivered') :
        delivered'[m].idx # None => m \in 1 .. Len(delivered)
  BY <1>3
<1>5. DeliveredInv'
  <2>1. \A m \in 1 .. Len(delivered') :
          delivered'[m].idx # None => delivered'[m].idx \in matched'
    BY <1>1, <1>3, <1>4 DEF AnswersInv, DeliveredInv
  <2>2. NoPathTwice'
    <3> SUFFICES ASSUME NEW m \in 1 .. Len(delivered'),
                        NEW n \in 1 .. Len(delivered'),
                        m # n, delivered'[m].idx # None
                 PROVE  delivered'[m].idx # delivered'[n].idx
      BY DEF NoPathTwice
    <3>1. m \in 1 .. Len(delivered)
      BY <1>4
    <3>2. CASE n \in 1 .. Len(delivered)
      BY <1>3, <3>1, <3>2 DEF AnswersInv, DeliveredInv, NoPathTwice
    <3>3. CASE n = Len(delivered) + 1
      BY <1>3, <3>3
    <3> QED BY <1>3, <3>2, <3>3
  <2> QED BY <1>3, <2>1, <2>2 DEF DeliveredInv
<1>6. ElemInv'
  BY <1>1, ElemKept DEF AnswersInv
<1> QED BY <1>1, <1>5, <1>6 DEF AnswersInv, DueInv, LoopInv, StopInv, Asked

\* A key is compared with the paths.
LEMMA ReadKeyKeeps == AnswersInv /\ ReadKey => AnswersInv'
<1> SUFFICES ASSUME AnswersInv, ReadKey PROVE AnswersInv'
  OBVIOUS
<1>1. /\ Silent /\ elem' = elem /\ pc = "scan" /\ due' \subseteq Asked \ matched
      /\ IF due' = {} THEN pc' = "scan" ELSE pc' = "key"
  <2>1. due' \subseteq Asked \ matched
    BY DEF ReadKey, Completed
  <2> QED BY <2>1 DEF ReadKey, AtKey, AtString, Scanning, GoTo, Silent,
                      request, callback
<1>2. ElemInv'
  BY <1>1, ElemKept DEF AnswersInv, Silent
<1>3. CASE pc' = "scan"
  BY <1>1, <1>2, <1>3, ScanKeeps
<1>4. CASE pc' = "key"
  <2>1. DeliveredInv'
    BY <1>1, SilentKeeps DEF AnswersInv
  <2>2. DueInv' /\ LoopInv'
    BY <1>1, <1>4 DEF AnswersInv, DueInv, LoopInv, Silent, Asked
  <2>3. StopInv'
    BY <1>1, <1>4 DEF AnswersInv, StopInv, Stopped, Silent
  <2> QED BY <1>2, <2>1, <2>2, <2>3 DEF AnswersInv
<1> QED BY <1>1, <1>3, <1>4

\* The least path that is due was asked for.
LEMMA FirstDue == ASSUME due \subseteq Asked, due # {} PROVE First(due) \in due
<1>1. due \in SUBSET Nat
  BY DEF Asked
<1> QED BY <1>1, FirstIsLeast

\* A path that ends at the key is answered.
LEMMA ReportKeyKeeps == AnswersInv /\ ReportKey => AnswersInv'
<1> SUFFICES ASSUME AnswersInv, ReportKey PROVE AnswersInv'
  OBVIOUS
<1> DEFINE p == First(due)
           v == ClosestValue(text, i + 1, End)
<1>1. /\ pc = "key" /\ Answer(p, v)
      /\ paths' = paths /\ elem' = elem
  BY DEF ReportKey, request
<1>2. p \in due /\ p \in Asked \ matched
  BY <1>1, FirstDue DEF AnswersInv, DueInv
<1>3. matched' = matched \cup {p} /\ due' = due \ {p}
  BY <1>1 DEF Answer
<1>4. \/ pc' = "done" /\ reply'.err = ErrorOf(verdict')
      \/ ~Stopped' /\ pc' = "scan"
      \/ ~Stopped' /\ pc' = "key" /\ due' # {}
  <2>1. CASE Stopped'
    BY <2>1 DEF ReportKey, Return
  <2>2. CASE ~Stopped' /\ matched' = Asked
    <3>1. Return(i, "none")
      BY <2>2 DEF ReportKey
    <3>2. ErrorOf(verdict') = "none"
      BY <2>2 DEF Stopped, ErrorOf
    <3> QED BY <3>1, <3>2 DEF Return
  <2>3. CASE ~Stopped' /\ matched' # Asked /\ due' = {}
    BY <2>3 DEF ReportKey, GoTo
  <2>4. CASE ~Stopped' /\ matched' # Asked /\ due' # {}
    BY <1>1, <2>4 DEF ReportKey
  <2> QED BY <2>1, <2>2, <2>3, <2>4
<1> HIDE DEF p, v
<1>5. DeliveredInv' /\ matched' \subseteq Asked
  BY <1>1, <1>2, AnswerKeeps DEF AnswersInv
<1>6. ElemInv'
  BY <1>1, ElemKept DEF AnswersInv
<1>7. DueInv'
  BY <1>1, <1>2, <1>3, <1>4, <1>5 DEF AnswersInv, DueInv, Asked
<1>8. LoopInv' /\ StopInv'
  BY <1>4 DEF LoopInv, StopInv
<1> QED BY <1>5, <1>6, <1>7, <1>8 DEF AnswersInv

\* An array that paths ask into is entered.
LEMMA EnterArrayKeeps == AnswersInv /\ EnterArray => AnswersInv'
<1> SUFFICES ASSUME AnswersInv, EnterArray PROVE AnswersInv'
  OBVIOUS
<1> DEFINE first == NextToken(text, i + 1, End)
           loop == [NoLoop EXCEPT !.off = first, !.wanted = Wanting]
<1>1. /\ Silent /\ pc = "scan" /\ due' = due
      /\ \/ pc' = "scan" /\ elem' = elem
         \/ pc' = "array" /\ elem' = loop
  BY DEF EnterArray, AtArray, Scanning, GoTo, Silent, request, callback
<1>2. CASE pc' = "scan" /\ elem' = elem
  <2>1. ElemInv'
    BY <1>1, <1>2, ElemKept DEF AnswersInv, Silent
  <2> QED BY <1>1, <1>2, <2>1, ScanKeeps DEF AnswersInv, DueInv
<1>3. CASE pc' = "array" /\ elem' = loop
  <2>1. /\ elem' = [off |-> first, index |-> 0, value |-> Nowhere,
                    wanted |-> Wanting, found |-> None]
    BY <1>3 DEF NoLoop
  <2>2. Wanting \subseteq Asked \ matched
    BY DEF Wanting
  <2>3. /\ elem'.off = first /\ elem'.index = 0 /\ elem'.value = Nowhere
        /\ elem'.wanted = Wanting /\ elem'.found = None
    BY <2>1
  <2>4. ElemInv'
    BY <1>1, <2>1, <2>2, <2>3 DEF ElemInv, Asked, Silent
  <2>7. DueInv'
    BY <1>1, <1>3 DEF AnswersInv, DueInv, Silent, Asked
  <2>8. LoopInv'
    BY <1>3, <2>3 DEF LoopInv
  <2>5. DeliveredInv'
    BY <1>1, SilentKeeps DEF AnswersInv
  <2>6. StopInv'
    BY <1>1, <1>3 DEF AnswersInv, StopInv, Stopped, Silent
  <2> QED BY <2>4, <2>5, <2>6, <2>7, <2>8 DEF AnswersInv
<1> QED BY <1>1, <1>2, <1>3

\* arrayEach returns: the scan goes on, or is over.
LEMMA LeaveArrayKeeps ==
  ASSUME AnswersInv, Silent, pc # "done", due' = due, NEW q, LeaveArray(q)
  PROVE  AnswersInv'
<1>1. /\ elem' = NoLoop
      /\ pc' = "scan" \/ (pc' = "done" /\ reply'.err = "none")
  BY DEF LeaveArray, Return, GoTo
<1>2. ElemInv' /\ due' \subseteq Asked
  BY <1>1, NoLoopKept DEF AnswersInv, DueInv
<1> QED BY <1>1, <1>2, ScanKeeps

\* arrayEach comes to its next element.
LEMMA NextElementKeeps == AnswersInv /\ NextElement => AnswersInv'
<1> SUFFICES ASSUME AnswersInv, NextElement PROVE AnswersInv'
  OBVIOUS
<1> DEFINE v == ClosestValue(text, elem.off, End)
           now == {p \in elem.wanted \ matched :
                     Index(paths[p][level]) = elem.index}
<1>1. Silent /\ pc = "array"
  BY DEF NextElement, Silent, request, callback, progress
<1>2. CASE v.end = elem.off
  BY <1>1, <1>2, LeaveArrayKeeps DEF NextElement
<1>3. CASE v.end # elem.off
  <2>1. /\ elem' = [elem EXCEPT !.value = v] /\ due' = now /\ pc' = "element"
    BY <1>3 DEF NextElement
  <2> HIDE DEF v
  <2>2. /\ elem' = [off |-> elem.off, index |-> elem.index, value |-> v,
                    wanted |-> elem.wanted, found |-> elem.found]
    BY <2>1 DEF AnswersInv, ElemInv
  <2>3. /\ elem'.off = elem.off /\ elem'.index = elem.index /\ elem'.value = v
        /\ elem'.wanted = elem.wanted /\ elem'.found = elem.found
    BY <2>2
  <2>4. ElemInv'
    BY <1>1, <2>2, <2>3 DEF AnswersInv, ElemInv, Silent, Asked
  <2>5. now \cap matched = {} /\ now \subseteq Asked
    BY DEF AnswersInv, ElemInv
  <2>6. LoopInv'
    BY <1>1, <2>1, <2>3 DEF AnswersInv, LoopInv
  <2>7. DueInv'
    <3> HIDE DEF now
    <3> QED BY <1>1, <2>1, <2>5 DEF AnswersInv, DueInv, Silent, Asked
  <2>8. DeliveredInv' /\ StopInv'
    BY <1>1, <2>1, SilentKeeps DEF AnswersInv, StopInv, Stopped, Silent
  <2> QED BY <2>4, <2>6, <2>7, <2>8 DEF AnswersInv
<1> QED BY <1>2, <1>3

\* A path is looked up in the element.
LEMMA LookInsideKeeps == AnswersInv /\ LookInside => AnswersInv'
<1> SUFFICES ASSUME AnswersInv, LookInside PROVE AnswersInv'
  OBVIOUS
<1>1. PICK p \in due, at \in {elem'.found} :
        /\ AtPath(p) /\ elem' = [elem EXCEPT !.found = at]
        /\ due' = IF at = None THEN due \ {p} ELSE due
        /\ Silent /\ pc' = pc
  <2>1. PICK p \in due :
          /\ AtPath(p)
          /\ LET rest == SubSeq(paths[p], level + 1, Len(paths[p]))
                 at == SearchKeys(text, rest, elem.value.window[1],
                                  elem.value.window[2])
             IN  /\ elem' = [elem EXCEPT !.found = at]
                 /\ due' = IF at = None THEN due \ {p} ELSE due
          /\ Silent /\ pc' = pc
    BY DEF LookInside, Silent, request, callback, progress
  <2> DEFINE rest == SubSeq(paths[p], level + 1, Len(paths[p]))
             at == SearchKeys(text, rest, elem.value.window[1],
                              elem.value.window[2])
  <2>2. /\ AtPath(p) /\ elem' = [elem EXCEPT !.found = at]
        /\ due' = IF at = None THEN due \ {p} ELSE due
        /\ Silent /\ pc' = pc
    BY <2>1
  <2> HIDE DEF at
  <2>3. elem'.found = at
    BY <2>2 DEF AnswersInv, ElemInv
  <2> QED BY <2>2, <2>3
<1>2. pc = "element" /\ due # {} /\ elem.found = None
  BY <1>1 DEF AtPath
<1>3. elem' = [off |-> elem.off, index |-> elem.index, value |-> elem.value,
               wanted |-> elem.wanted, found |-> at]
  BY <1>1 DEF AnswersInv, ElemInv
<1>4. /\ elem'.off = elem.off /\ elem'.index = elem.index
      /\ elem'.value = elem.value /\ elem'.wanted = elem.wanted
  BY <1>3
<1>5. ElemInv'
  BY <1>1, <1>3, <1>4 DEF AnswersInv, ElemInv, Silent, Asked
<1>6. due' \subseteq due /\ (at # None => due' # {})
  BY <1>1
<1>7. LoopInv'
  BY <1>1, <1>2, <1>6 DEF LoopInv
<1>8. DueInv'
  BY <1>1, <1>2, <1>6 DEF AnswersInv, DueInv, Silent, Asked
<1>9. DeliveredInv' /\ StopInv'
  BY <1>1, <1>2, SilentKeeps DEF AnswersInv, StopInv, Stopped, Silent
<1> QED BY <1>5, <1>7, <1>8, <1>9 DEF AnswersInv

\* The callback hears of a path answered by the element.
LEMMA TellElementKeeps ==
  ASSUME AnswersInv, pc = "element", NEW p \in due, NEW v, TellElement(p, v)
  PROVE  AnswersInv'
<1>1. /\ Answer(p, v) /\ paths' = paths
      /\ elem' = [elem EXCEPT !.found = None]
  BY DEF TellElement, request
<1>2. /\ matched' = matched \cup {p} /\ due' = due \ {p}
      /\ p \in Asked \ matched
  BY <1>1 DEF AnswersInv, DueInv, Answer
<1>3. \/ pc' = "done" /\ reply'.err = ErrorOf(verdict')
      \/ pc' = "element" /\ ~Stopped'
  BY DEF TellElement, Return
<1>4. DeliveredInv' /\ matched' \subseteq Asked
  BY <1>1, <1>2, AnswerKeeps DEF AnswersInv
<1>5. elem' = [off |-> elem.off, index |-> elem.index, value |-> elem.value,
               wanted |-> elem.wanted, found |-> None]
  BY <1>1 DEF AnswersInv, ElemInv
<1>6. /\ elem'.off = elem.off /\ elem'.index = elem.index
      /\ elem'.value = elem.value /\ elem'.wanted = elem.wanted
      /\ elem'.found = None
  BY <1>5
<1>7. ElemInv'
  BY <1>1, <1>5, <1>6 DEF AnswersInv, ElemInv, Asked
<1>8. DueInv'
  BY <1>1, <1>2, <1>3, <1>4 DEF AnswersInv, DueInv, Asked
<1>9. LoopInv'
  BY <1>3, <1>6 DEF LoopInv
<1>10. StopInv'
  BY <1>3 DEF StopInv
<1> QED BY <1>4, <1>7, <1>8, <1>9, <1>10 DEF AnswersInv

\* The element answers a path.
LEMMA ReportElementKeeps == AnswersInv /\ ReportElement => AnswersInv'
<1> SUFFICES ASSUME AnswersInv, ReportElement PROVE AnswersInv'
  OBVIOUS
<1>1. CASE \E p \in due : /\ AtPath(p) /\ Len(paths[p]) = level
                          /\ TellElement(p, elem.value)
  <2>1. PICK p \in due : AtPath(p) /\ TellElement(p, elem.value)
    BY <1>1
  <2>2. pc = "element"
    BY <2>1 DEF AtPath
  <2> QED BY <2>1, <2>2, TellElementKeeps
<1>2. CASE /\ pc = "element" /\ elem.found # None
           /\ TellElement(First(due),
                          ClosestValue(text, elem.found, elem.value.window[2]))
  <2>1. First(due) \in due
    BY <1>2, FirstDue DEF AnswersInv, DueInv, LoopInv
  <2> QED BY <1>2, <2>1, TellElementKeeps
<1> QED BY <1>1, <1>2 DEF ReportElement

\* arrayEach is done with the element.
LEMMA AfterElementKeeps == AnswersInv /\ AfterElement => AnswersInv'
<1> SUFFICES ASSUME AnswersInv, AfterElement PROVE AnswersInv'
  OBVIOUS
<1> DEFINE v == elem.value
           next == NextToken(text, v.end, End)
<1>1. /\ Silent /\ pc = "element" /\ due = {} /\ due' = due
  BY DEF AfterElement, Silent, request, callback, progress
<1>2. \/ \E q \in {elem.off, v.end, next} : LeaveArray(q)
      \/ /\ elem' = [elem EXCEPT !.off = next + 1, !.index = @ + 1,
                                 !.value = Nowhere]
         /\ pc' = "array"
  BY DEF AfterElement
<1>3. ASSUME NEW q \in {elem.off, v.end, next}, LeaveArray(q)
      PROVE  AnswersInv'
  BY <1>1, <1>3, LeaveArrayKeeps
<1>4. CASE /\ elem' = [elem EXCEPT !.off = next + 1, !.index = @ + 1,
                                   !.value = Nowhere]
           /\ pc' = "array"
  <2> HIDE DEF next
  <2>1. elem' = [off |-> next + 1, index |-> elem.index + 1, value |-> Nowhere,
                 wanted |-> elem.wanted, found |-> elem.found]
    BY <1>4 DEF AnswersInv, ElemInv
  <2>2. /\ elem'.off = next + 1 /\ elem'.index = elem.index + 1
        /\ elem'.value = Nowhere
        /\ elem'.wanted = elem.wanted /\ elem'.found = elem.found
    BY <2>1
  <2>3. ElemInv'
    BY <1>1, <2>1, <2>2 DEF AnswersInv, ElemInv, Silent, Asked
  <2>4. LoopInv'
    BY <1>1, <1>4, <2>2 DEF AnswersInv, LoopInv
  <2>5. DueInv'
    BY <1>1, <1>4 DEF AnswersInv, DueInv, Silent, Asked
  <2>6. DeliveredInv' /\ StopInv'
    BY <1>1, <1>4, SilentKeeps DEF AnswersInv, StopInv, Stopped, Silent
  <2> QED BY <2>3, <2>4, <2>5, <2>6 DEF AnswersInv
<1> QED BY <1>2, <1>3, <1>4

---------------------------------------------------------------------------
\* No path is answered yet.
LEMMA AnswersInvInit == EachKeyInit => AnswersInv
<1> SUFFICES ASSUME EachKeyInit PROVE AnswersInv
  OBVIOUS
<1>1. /\ delivered = <<>> /\ verdict = "go on" /\ matched = {} /\ due = {}
      /\ elem = NoLoop /\ pc = "scan"
  BY DEF EachKeyInit, CallbackInit
<1>2. ElemInv
  BY <1>1 DEF ElemInv, NoLoop
<1>3. DeliveredInv
  <2>1. <<>> \in Seq({}) /\ Len(<<>>) = 0
    BY EmptySeq
  <2>2. IsSequence(delivered)
    BY <1>1, <2>1, Zenon DEF IsSequence
  <2>3. 1 .. Len(delivered) = {}
    <3>1. Len(delivered) = 0
      BY <1>1, <2>1
    <3> QED BY <3>1
  <2> QED BY <2>2, <2>3 DEF DeliveredInv, NoPathTwice
<1> QED BY <1>1, <1>2, <1>3 DEF AnswersInv, LoopInv, DueInv, StopInv, Stopped

\* Every step of the scan.
LEMMA AnswersInvStep ==
  AnswersInv /\ [EachKeyNext]_eachKeyVars => AnswersInv'
<1> SUFFICES ASSUME AnswersInv, [EachKeyNext]_eachKeyVars PROVE AnswersInv'
  OBVIOUS
<1>1. CASE \/ HopelessString \/ ValueString \/ OpenBrace \/ CloseBlock
           \/ SkipArray \/ OtherByte \/ Exhausted
  BY <1>1, PlainSteps
<1>2. CASE Misplaced
  BY <1>2, MisplacedKeeps
<1>3. CASE ReadKey
  BY <1>3, ReadKeyKeeps
<1>4. CASE ReportKey
  BY <1>4, ReportKeyKeeps
<1>5. CASE EnterArray
  BY <1>5, EnterArrayKeeps
<1>6. CASE NextElement
  BY <1>6, NextElementKeeps
<1>7. CASE LookInside
  BY <1>7, LookInsideKeeps
<1>8. CASE ReportElement
  BY <1>8, ReportElementKeeps
<1>9. CASE AfterElement
  BY <1>9, AfterElementKeeps
<1>10. CASE UNCHANGED eachKeyVars
  <2>1. Silent /\ UNCHANGED <<elem, due, pc, level, reply>>
    BY <1>10 DEF eachKeyVars, Silent
  <2>2. ElemInv' /\ DeliveredInv'
    BY <2>1, ElemKept, SilentKeeps DEF AnswersInv, Silent
  <2>3. LoopInv' /\ DueInv' /\ StopInv'
    BY <2>1 DEF AnswersInv, LoopInv, DueInv, StopInv, Stopped, Silent, Asked
  <2> QED BY <2>2, <2>3 DEF AnswersInv
<1> QED BY <1>1, <1>2, <1>3, <1>4, <1>5, <1>6, <1>7, <1>8, <1>9, <1>10
        DEF EachKeyNext

\* Each path of EachKey is reported at most once, whatever the data and the
\* paths are, and whatever the callback answers.
THEOREM NoPathTwiceAlways == EachKeySpec => []NoPathTwice
<1>1. EachKeyInit => AnswersInv
  BY AnswersInvInit
<1>2. AnswersInv /\ [EachKeyNext]_eachKeyVars => AnswersInv'
  BY AnswersInvStep
<1>3. AnswersInv => NoPathTwice
  BY DEF AnswersInv, DeliveredInv
<1> QED BY <1>1, <1>2, <1>3, PTL DEF EachKeySpec

\* No step is taken once the scan is over.
LEMMA NextRuns == EachKeyNext => pc # "done"
<1>1. AtKey \/ AtString \/ AtArray => pc = "scan"
  BY DEF AtKey, AtString, AtArray, Scanning
<1>2. \A p \in due : AtPath(p) => pc = "element"
  BY DEF AtPath
<1> QED BY <1>1, <1>2 DEF EachKeyNext, HopelessString, ValueString, Misplaced,
          ReadKey, ReportKey, OpenBrace, CloseBlock, SkipArray, EnterArray,
          NextElement, LookInside, ReportElement, AfterElement, OtherByte,
          Exhausted, Scanning

\* A callback that answered with an error is not called again, and EachKeyErr
\* returns that error unless it is io.EOF, on every text and at every report.
THEOREM StopsWhenToldAlways == EachKeySpec => StopsWhenTold
<1> DEFINE Told == /\ Stopped => UNCHANGED delivered
                   /\ pc' = "done" => reply'.err = ErrorOf(verdict')
<1>1. EachKeyInit => AnswersInv
  BY AnswersInvInit
<1>2. AnswersInv /\ [EachKeyNext]_eachKeyVars => AnswersInv'
  BY AnswersInvStep
<1>3. AnswersInv /\ AnswersInv' /\ [EachKeyNext]_eachKeyVars => [Told]_eachKeyVars
  <2> SUFFICES ASSUME AnswersInv, AnswersInv', EachKeyNext PROVE Told
    BY DEF eachKeyVars
  <2> QED BY NextRuns DEF AnswersInv, StopInv
<1> QED BY <1>1, <1>2, <1>3, PTL DEF EachKeySpec, StopsWhenTold
=============================================================================
