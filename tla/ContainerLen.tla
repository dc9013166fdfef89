---------------------------- MODULE ContainerLen ----------------------------
(***************************************************************************)
(* GetArrayLen and GetObjectLen: the parts of one container are counted by *)
(* a scan of its own, which calls no other parser and checks more than     *)
(* they do: every scalar of the container must be a JSON value, and the    *)
(* brackets of what is nested in it must match.  The code has the states   *)
(* twice, for arrays and for objects; here they share their names.         *)
(***************************************************************************)
EXTENDS Callback

\* Neither function is a method of Config: single quotes are not quotes here.
ASSUME StrictLengthAssumption == ~AllowSingleQuotes

VARIABLES asked,        \* the call: [open, keys]
          state,        \* what the scan expects, or "start", or "done"
          at,           \* where it stands
          stack,        \* the closing brackets it waits for
          parts,        \* the parts counted (count)
          scalar,       \* where the scalar being read began (primitiveStart)
          length        \* what is returned: [n, err]

lengthVars == <<asked, state, at, stack, parts, scalar, length>>

\* isContainerWhitespace: the same bytes as everywhere else.
Space == Blank

Close == IF asked.open = "{" THEN "}" ELSE "]"
Malformed == IF asked.open = "{" THEN "MalformedObject" ELSE "MalformedArray"

LengthInit == /\ state = "start"
              /\ at = 1
              /\ stack = <<>>
              /\ parts = 0
              /\ scalar = None
              /\ length = [n |-> 0, err |-> "none"]

Answer(n, err) == /\ state' = "done"
                  /\ length' = [n |-> n, err |-> err]
                  /\ UNCHANGED <<at, stack, parts, scalar>>

Refuse == Answer(0, Malformed)

\* On to position p, now expecting s.
Expect(s, p) == state' = s /\ at' = p /\ UNCHANGED length

Count(n) == UNCHANGED <<stack, scalar>> /\ parts' = n

Here == text[at]

Expecting(s) == state = s /\ at < End

Rest == UNCHANGED <<text, callback, asked>>

\* The position behind the string that opens here, None if it is open.
BehindString ==
  LET close == StringEnd(text, at + 1, End, Quote)
  IN  IF close = None THEN None ELSE close + 1

---------------------------------------------------------------------------
\* containerStart.  A value of another kind, and data with nothing in it, are
\* reported as a missing path.
Start ==
  /\ state = "start" /\ Rest
  /\ \E from \in {IF asked.keys = <<>> THEN 1
                 ELSE SearchKeys(text, asked.keys, 1, End)} :
       LET open == IF from = None THEN None ELSE NextToken(text, from, End)
       IN  IF open # None /\ text[open] = asked.open
           THEN /\ Expect(IF asked.open = "{" THEN "key" ELSE "value", open + 1)
                /\ stack' = <<Close>>
                /\ UNCHANGED <<parts, scalar>>
           ELSE Answer(0, "KeyPathNotFound")

Inside == Len(stack) > 1

\* Nothing but strings and brackets matters inside a nested container.
ScanNested ==
  /\ Inside /\ state # "done" /\ at < End /\ Rest
  /\ LET top == stack[Len(stack)]
         Go(s, p) == /\ stack' = s /\ at' = p
                     /\ UNCHANGED <<state, length, parts, scalar>>
     IN  CASE Here = Quote ->
                IF BehindString = None THEN Refuse ELSE Go(stack, BehindString)
           [] Here = "[" -> Go(Append(stack, "]"), at + 1)
           [] Here = "{" -> Go(Append(stack, "}"), at + 1)
           [] Here \in {"]", "}"} ->
                IF Here # top THEN Refuse
                ELSE Go(SubSeq(stack, 1, Len(stack) - 1), at + 1)
           [] OTHER -> Go(stack, at + 1)

SkipSpace == /\ ~Inside /\ Rest
             /\ \E s \in {"key", "colon", "value", "delimiter"} :
                  Expecting(s) /\ Here \in Space /\ Expect(s, at + 1)
             /\ Count(parts)

\* An empty container ends where its first part would be.
ScanKey ==
  /\ Expecting("key") /\ ~Inside /\ Here \notin Space /\ Rest
  /\ CASE Here = "}" /\ parts = 0 -> Answer(0, "none")
       [] Here = Quote /\ BehindString # None ->
            Expect("colon", BehindString) /\ Count(parts)
       [] OTHER -> Refuse

ScanColon == /\ Expecting("colon") /\ ~Inside /\ Here \notin Space /\ Rest
             /\ IF Here = ":" THEN Expect("value", at + 1) /\ Count(parts)
                ELSE Refuse

\* Mutant of ScanValue: a trailing comma before the closing bracket is let pass.
ScanValueTrailing ==
  /\ Expecting("value") /\ ~Inside /\ Here \notin Space /\ Rest
  /\ CASE Here = "]" /\ asked.open = "[" -> Answer(parts, "none")
       [] Here \in {"[", "{"} ->
            /\ Expect("delimiter", at + 1)
            /\ stack' = Append(stack, IF Here = "[" THEN "]" ELSE "}")
            /\ parts' = parts + 1 /\ UNCHANGED scalar
       [] Here = Quote /\ BehindString # None ->
            Expect("delimiter", BehindString) /\ Count(parts + 1)
       [] Here \notin {"[", "{", "]", "}", ",", ":", Quote} ->
            /\ Expect("primitive", at + 1)
            /\ scalar' = at /\ parts' = parts + 1 /\ UNCHANGED stack
       [] OTHER -> Refuse

ScanValue ==
  /\ Expecting("value") /\ ~Inside /\ Here \notin Space /\ Rest
  /\ CASE Here = "]" /\ asked.open = "[" /\ parts = 0 -> Answer(0, "none")
       [] Here \in {"[", "{"} ->
            /\ Expect("delimiter", at + 1)
            /\ stack' = Append(stack, IF Here = "[" THEN "]" ELSE "}")
            /\ parts' = parts + 1 /\ UNCHANGED scalar
       [] Here = Quote /\ BehindString # None ->
            Expect("delimiter", BehindString) /\ Count(parts + 1)
       [] Here \notin {"[", "{", "]", "}", ",", ":", Quote} ->
            /\ Expect("primitive", at + 1)
            /\ scalar' = at /\ parts' = parts + 1 /\ UNCHANGED stack
       [] OTHER -> Refuse

\* A part is over: the next one is announced, or the container ends here.
EndPart ==
  CASE Here = "," -> /\ Expect(IF asked.open = "{" THEN "key" ELSE "value", at + 1)
                     /\ Count(parts)
    [] Here = Close -> Answer(parts, "none")
    [] OTHER -> Refuse

AllDigits(b) == b # <<>> /\ \A k \in 1 .. Len(b) : b[k] \in Digits

\* validJSONNumber: an integer part without a leading zero, a fraction, an
\* exponent.
ValidNumber(b) ==
  LET u == IF b[1] = "-" THEN Tail(b) ELSE b
  IN  \E m \in 1 .. Len(u), n \in 1 .. Len(u) :
        LET whole == SubSeq(u, 1, m)
            fraction == SubSeq(u, m + 1, n)
            exponent == SubSeq(u, n + 1, Len(u))
        IN  /\ m =< n
            /\ AllDigits(whole) /\ (whole[1] = "0" => m = 1)
            /\ fraction = <<>> \/ (fraction[1] = "." /\ AllDigits(Tail(fraction)))
            /\ \/ exponent = <<>>
               \/ exponent[1] = "e" /\ AllDigits(Unsigned(Tail(exponent)))

\* validContainerPrimitive, on the bytes of [i, p).
ValidScalar(i, p) ==
  LET last == CHOOSE k \in i .. p - 1 :
                /\ text[k] \notin Space
                /\ \A r \in k + 1 .. p - 1 : text[r] \in Space
      b == Text(text, i, last + 1)
  IN  b \in {<<"t">>, <<"f">>, <<"n">>} \/ ValidNumber(b)

\* A scalar runs to the next comma or closing bracket, whatever it contains.
ScanPrimitive ==
  /\ Expecting("primitive") /\ ~Inside /\ Rest
  /\ CASE Here \in {",", Close} ->
            IF ValidScalar(scalar, at) THEN EndPart ELSE Refuse
       [] Here \in {"]", "}"} \ {Close} -> Refuse
       [] OTHER -> Expect("primitive", at + 1) /\ Count(parts)

ScanDelimiter == /\ Expecting("delimiter") /\ ~Inside /\ Here \notin Space /\ Rest
                 /\ EndPart

RunsOut == state \notin {"start", "done"} /\ at >= End /\ Rest /\ Refuse

LengthNext == \/ Start \/ ScanNested \/ SkipSpace
              \/ ScanKey \/ ScanColon \/ ScanValue
              \/ ScanPrimitive \/ ScanDelimiter \/ RunsOut
=============================================================================
