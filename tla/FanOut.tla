------------------------------- MODULE FanOut -------------------------------
(***************************************************************************)
(* Paths with [*] (wildcard.go).  EachKeyWildcard and SetWildcard walk the *)
(* arrays their path names in the same way, each array by ArrayEachErr     *)
(* with the walk of the rest of the path as its callback.  The one looks   *)
(* the rest of a path up in the text of the element and reports what it    *)
(* finds; the other spells the paths out with numbers, looking all of them *)
(* up from the root, and then applies Set to each.  An error anywhere ends *)
(* the whole walk.                                                         *)
(***************************************************************************)
EXTENDS Callback

VARIABLES job,          \* the call: [name, path, value]
          task,         \* what the walk does next, or "idle", or "done"
          here,         \* what is to be resolved: [window, concrete, rest,
                        \* found]
          arrays,       \* the arrays being iterated, the innermost last
          spelled,      \* the paths without wildcards (expandWildcardPaths)
          result,       \* the text SetWildcard is making
          outcome       \* the error returned, if any

walkVars == <<here, arrays, spelled>>
fanVars == <<job, task, walkVars, result, outcome>>

Edits == INSTANCE Edit WITH Paths <- {}, Values <- {},
                            document <- result, given <- text,
                            call <- job, edit <- outcome

Reporting == job.name = "EachKeyWildcard"

At(window, concrete, rest) ==
  [window |-> window, concrete |-> concrete, rest |-> rest, found |-> None]

FanInit == /\ here = At(<<1, End>>, <<>>, job.path)
           /\ arrays = <<>>
           /\ spelled = <<>>
           /\ result = text
           /\ outcome = "none"

Given == UNCHANGED <<text, job>>

\* The walk is over: there is nothing more to report, or something to set.
Leave(frames) == task' = IF frames # <<>> THEN "after"
                         ELSE IF Reporting THEN "done" ELSE "set"

\* Mutant of Abort: a missing path under one element is passed over.
AbortThisOne(err) == /\ IF err = "KeyPathNotFound" /\ arrays # <<>>
                        THEN task' = "after" /\ UNCHANGED outcome
                        ELSE task' = "done" /\ outcome' = err
                     /\ UNCHANGED <<walkVars, result>>

\* An error: every loop of ArrayEachErr hands it on to the one around it.
Abort(err) == /\ task' = "done"
              /\ outcome' = err
              /\ UNCHANGED <<walkVars, result>>

\* The callback hears of a value; it cannot stop the walk.
Hear(v) == /\ delivered' = Append(delivered, Report(Len(delivered), v))
           /\ UNCHANGED verdict

---------------------------------------------------------------------------
\* wildcardIndex, and the path in front of the first wildcard.
WildcardAt == First({k \in 1 .. Len(here.rest) : here.rest[k] = Wildcard})

Before == IF WildcardAt = None THEN here.rest
          ELSE SubSeq(here.rest, 1, WildcardAt - 1)

\* A path without wildcards needs no looking up to be set.
SpellPath ==
  /\ task = "locate" /\ ~Reporting /\ WildcardAt = None /\ Given
  /\ spelled' = Append(spelled, here.concrete \o here.rest)
  /\ Leave(arrays)
  /\ UNCHANGED <<callback, here, arrays, result, outcome>>

\* The first half of Get: in the text of the element, or from the root.
Locate ==
  /\ task = "locate" /\ (Reporting \/ WildcardAt # None) /\ Given
  /\ here' = [here EXCEPT !.found =
                IF Reporting
                THEN SearchKeys(text, Before, here.window[1], here.window[2])
                ELSE SearchKeys(text, here.concrete \o Before, 1, End)]
  /\ task' = "resolve"
  /\ UNCHANGED <<callback, arrays, spelled, result, outcome>>

\* And the second.
Value == ValueAt(text, here.found, IF Reporting THEN here.window[2] ELSE End)

\* What is left of the path has no wildcard: its value is reported, unless
\* there is none.
ResolveValue ==
  /\ task = "resolve" /\ WildcardAt = None /\ Given
  /\ LET v == Value
     IN  /\ IF v.err = "KeyPathNotFound" THEN UNCHANGED callback ELSE Hear(v)
         /\ IF v.err # "none" THEN Abort(v.err)
            ELSE Leave(arrays) /\ UNCHANGED <<walkVars, result, outcome>>

\* In front of a wildcard there has to be an array.
EnterArray ==
  /\ task = "resolve" /\ WildcardAt # None /\ Given
  /\ LET v == Value
         first == NextToken(text, v.window[1] + 1, v.window[2])
         frame == [off |-> first, end |-> v.window[2], index |-> 0,
                   concrete |-> here.concrete \o Before,
                   rest |-> SubSeq(here.rest, WildcardAt + 1, Len(here.rest))]
     IN  CASE v.err # "none" -> Abort(v.err)
           [] v.err = "none" /\ v.type # "Array" -> Abort("MalformedArray")
           [] OTHER ->
                /\ IF text[first] = "]"
                   THEN Leave(arrays) /\ UNCHANGED arrays
                   ELSE task' = "element" /\ arrays' = Append(arrays, frame)
                /\ UNCHANGED <<here, spelled, result, outcome>>
  /\ UNCHANGED callback

---------------------------------------------------------------------------
Array == arrays[Len(arrays)]
Outer == SubSeq(arrays, 1, Len(arrays) - 1)
Component(n) == <<"[", DigitNames[n + 1], "]">>

Terminal == Reporting /\ Array.rest = <<>>

\* Mutant of WalkElement: the index of the first element is used for all.
WalkFirst ==
  /\ task = "element" /\ Given
  /\ LET v == ClosestValue(text, Array.off, Array.end)
     IN  CASE v.err # "none" ->
                /\ Abort(v.err)
                /\ IF Reporting /\ v.end # Array.off THEN Hear(v)
                   ELSE UNCHANGED callback
           [] OTHER ->
                /\ arrays' = Append(Outer, [Array EXCEPT !.off = v.end,
                                                         !.index = @ + 1])
                /\ here' = At(v.window, Append(Array.concrete, Component(0)),
                              Array.rest)
                /\ task' = IF Terminal THEN "after" ELSE "locate"
                /\ IF Terminal THEN Hear(v) ELSE UNCHANGED callback
                /\ UNCHANGED <<spelled, result, outcome>>

\* One turn of ArrayEachErr: an element that does not parse is reported, when
\* there is any text to it, and ends the walk; the others are resolved.
WalkElement ==
  /\ task = "element" /\ Given
  /\ LET v == ClosestValue(text, Array.off, Array.end)
     IN  CASE v.err # "none" ->
                /\ Abort(v.err)
                /\ IF Reporting /\ v.end # Array.off THEN Hear(v)
                   ELSE UNCHANGED callback
           [] OTHER ->
                /\ arrays' = Append(Outer, [Array EXCEPT !.off = v.end,
                                                         !.index = @ + 1])
                /\ here' = At(v.window,
                              Append(Array.concrete, Component(Array.index)),
                              Array.rest)
                /\ task' = IF Terminal THEN "after" ELSE "locate"
                /\ IF Terminal THEN Hear(v) ELSE UNCHANGED callback
                /\ UNCHANGED <<spelled, result, outcome>>

WalkOn ==
  /\ task = "after" /\ Given
  /\ LET next == NextToken(text, Array.off, Array.end)
     IN  CASE next # None /\ text[next] = "]" ->
                /\ arrays' = Outer
                /\ Leave(Outer)
                /\ UNCHANGED <<here, spelled, result, outcome>>
           [] next # None /\ text[next] = "," ->
                /\ arrays' = Append(Outer, [Array EXCEPT !.off = next + 1])
                /\ task' = "element"
                /\ UNCHANGED <<here, spelled, result, outcome>>
           [] OTHER -> Abort("MalformedArray")
  /\ UNCHANGED callback

---------------------------------------------------------------------------
\* Set on the next of the paths; the first error throws everything away.
SetNext ==
  /\ task = "set" /\ spelled # <<>> /\ Given
  /\ \E e \in {Edits!Set(result, Head(spelled), job.value)} :
       IF e.err # "none" THEN Abort(e.err)
       ELSE /\ result' = Edits!Spliced(result, e)
            /\ spelled' = Tail(spelled)
            /\ UNCHANGED <<task, here, arrays, outcome>>
  /\ UNCHANGED callback

AllSet == /\ task = "set" /\ spelled = <<>> /\ Given
          /\ task' = "done"
          /\ UNCHANGED <<callback, walkVars, result, outcome>>

FanNext == \/ SpellPath \/ Locate \/ ResolveValue \/ EnterArray
           \/ WalkElement \/ WalkOn \/ SetNext \/ AllSet
=============================================================================
