------------------------------ MODULE Iterate ------------------------------
(***************************************************************************)
(* ArrayEach, ArrayEachErr, ArrayEachWildcard and ObjectEach: the parts of  *)
(* one container, in order, each reported to a callback.  The container is *)
(* found by searchKeys or is the first thing in the data; every part is    *)
(* read by Get from where the one before it ended, and nothing is read     *)
(* ahead, so that damage shows only when the loop gets there.              *)
(***************************************************************************)
EXTENDS Callback

VARIABLES each,         \* the call: [name, keys]
          off,          \* where the loop stands in the data
          count,        \* the parts reported
          pc,           \* "start", "open", "part", "after" or "done"
          reply         \* what is returned: [count, err]

iterateVars == <<text, delivered, verdict, each, off, count, pc, reply>>

IterateInit == /\ CallbackInit
               /\ off = 1
               /\ count = 0
               /\ pc = "start"
               /\ reply = [count |-> 0, err |-> "none"]

Return(err) == /\ pc' = "done"
               /\ reply' = [count |-> count', err |-> err]
               /\ UNCHANGED off

LoopAt(point, p) == pc' = point /\ off' = p /\ UNCHANGED reply

OverArray == each.name \in {"ArrayEach", "ArrayEachWildcard"}
OverObject == each.name = "ObjectEach"

---------------------------------------------------------------------------
\* ArrayEachWildcard drops a [*] at the end of its path.
Keys == IF each.name = "ArrayEachWildcard" /\ each.keys # <<>>
           /\ each.keys[Len(each.keys)] = Wildcard
        THEN SubSeq(each.keys, 1, Len(each.keys) - 1) ELSE each.keys

\* Where the container is looked for.
Located == IF Keys = <<>> THEN 1 ELSE SearchKeys(text, Keys, 1, End)

Search(error) ==
  /\ UNCHANGED <<text, each, callback, count>>
  /\ IF error # "none" THEN Return(error)
     ELSE /\ off' = Located
          /\ pc' = "open"
          /\ UNCHANGED reply

StartArrayEach ==
  /\ pc = "start" /\ OverArray
  /\ Search(CASE text = <<>> -> "MalformedObject"
              [] text # <<>> /\ NextToken(text, 1, End) = None -> "MalformedJson"
              [] OTHER -> "none")

StartObjectEach == pc = "start" /\ OverObject /\ Search("none")

Next == NextToken(text, off, End)

\* The loop starts behind the opening bracket, unless the closing one is there.
Enter(open, close, missing, other) ==
  LET first == NextToken(text, Next + 1, End)
  IN  /\ UNCHANGED <<text, each, callback, count>>
      /\ IF off = None THEN Return("KeyPathNotFound")
         ELSE CASE Next = None                      -> Return(missing)
                [] Next # None /\ text[Next] # open -> Return(other)
                [] Next # None /\ text[Next] = open /\ first = None ->
                     Return("MalformedJson")
                [] OTHER -> IF text[first] = close THEN Return("none")
                            ELSE LoopAt("part", first)

OpenArray == /\ pc = "open" /\ OverArray
             /\ Enter("[", "]", "MalformedJson", "MalformedArray")

OpenObject == /\ pc = "open" /\ OverObject
              /\ Enter("{", "}", "MalformedObject", "MalformedObject")

---------------------------------------------------------------------------
\* The callback hears of a part.  It ends the loop by an error (of the two
\* functions only ArrayEachErr takes io.EOF for a quiet end), and a value that
\* did not parse ends it too.
Deliver(idx, v) ==
  /\ count' = count + 1
  /\ Tell(Report(idx, v))
  /\ CASE Stopped' -> Return(IF OverArray THEN ErrorOf(verdict') ELSE verdict')
       [] ~Stopped' /\ v.err # "none" -> Return(v.err)
       [] OTHER -> LoopAt("after", v.end)
  /\ UNCHANGED <<text, each>>

\* Mutant of NextElement: an element that does not parse is not reported.
NextElementQuietly ==
  /\ pc = "part" /\ OverArray
  /\ LET v == ClosestValue(text, off, End)
     IN  IF v.err # "none"
         THEN UNCHANGED <<text, each, callback, count>> /\ Return("none")
         ELSE Deliver(count, v)

\* An element that is empty where the loop stands is not reported; one that
\* does not parse is, with its error.
NextElement ==
  /\ pc = "part" /\ OverArray
  /\ LET v == ClosestValue(text, off, End)
     IN  IF v.end = off
         THEN UNCHANGED <<text, each, callback, count>> /\ Return(v.err)
         ELSE Deliver(count, v)

\* The member whose key starts where the loop stands.
KeyEnd == StringEnd(text, off + 1, End, text[off])
Key == Unescape(Text(text, off + 1, KeyEnd))
Colon == NextToken(text, KeyEnd + 1, End)
MemberValue == ClosestValue(text, Colon + 1, End)

\* What is wrong with it, if anything.
MemberError ==
  CASE text[off] \notin Quotes                    -> "MalformedObject"
    [] text[off] \in Quotes /\ KeyEnd = None      -> "MalformedJson"
    [] OTHER -> CASE Key = BadText                -> "MalformedStringEscape"
                  [] Key # BadText /\ (Colon = None \/ text[Colon] # ":") ->
                       "MalformedJson"
                  [] OTHER                        -> MemberValue.err

\* A closing brace may stand behind a comma.
NextMember ==
  /\ pc = "part" /\ OverObject
  /\ IF text[off] = "}" \/ MemberError # "none"
     THEN /\ UNCHANGED <<text, each, callback, count>>
          /\ Return(IF text[off] = "}" THEN "none" ELSE MemberError)
     ELSE Deliver(Key, MemberValue)

AfterElement ==
  /\ pc = "after" /\ OverArray
  /\ UNCHANGED <<text, each, callback, count>>
  /\ CASE Next # None /\ text[Next] = "]" -> Return("none")
       [] Next # None /\ text[Next] = "," -> LoopAt("part", Next + 1)
       [] OTHER                           -> Return("MalformedArray")

AfterMember ==
  /\ pc = "after" /\ OverObject
  /\ UNCHANGED <<text, each, callback, count>>
  /\ LET key == NextToken(text, Next + 1, End)
     IN  CASE Next = None                    -> Return("MalformedArray")
           [] Next # None /\ text[Next] = "}" -> Return("none")
           [] Next # None /\ text[Next] = "," ->
                IF key = None THEN Return("MalformedArray")
                ELSE LoopAt("part", key)
           [] OTHER                          -> Return("MalformedObject")

IterateNext == \/ StartArrayEach \/ OpenArray \/ NextElement \/ AfterElement
               \/ StartObjectEach \/ OpenObject \/ NextMember \/ AfterMember
=============================================================================
