---------------------------- MODULE PathCompiler ----------------------------
(***************************************************************************)
(* ParsePath: a path expression, $.a."b c"[0][*].d, turned into the        *)
(* components that the lookups take.  It is read from left to right, one   *)
(* segment (a key with the brackets behind it) at a time.                  *)
(***************************************************************************)
EXTENDS JsonText

VARIABLES expression,   \* what is parsed, without its root once that is read
          place,        \* where the parser stands
          components,   \* the components read
          parsing,      \* "idle", "root", "key", "brackets" or "done"
          pathError     \* what is returned with them: "none", "EmptyPath",
                        \* "MalformedPath" or "UnterminatedKey"

pathVars == <<expression, place, components, parsing, pathError>>

PathInit == /\ place = 1
            /\ components = <<>>
            /\ pathError = "none"

---------------------------------------------------------------------------
ControlBytes == {"nl", "bs", "ff", "soh"}

Byte(p) == expression[p]
Beyond(p) == p > Len(expression)

Refuse(err) == /\ parsing' = "done"
               /\ pathError' = err
               /\ components' = <<>>
               /\ UNCHANGED <<expression, place>>

Complete == /\ parsing' = "done"
            /\ UNCHANGED <<expression, place, components, pathError>>

Move(state, p, parts) == /\ parsing' = state
                         /\ place' = p
                         /\ components' = components \o parts
                         /\ UNCHANGED <<expression, pathError>>

\* The $ at the front, with the dot behind it.
ReadRoot ==
  /\ parsing = "root"
  /\ CASE expression = <<>>      -> Refuse("EmptyPath")
       [] expression = <<"$">>   -> Complete
       [] Len(expression) > 1 /\ Byte(1) = "$" /\ Byte(2) = "." ->
            /\ expression' = SubSeq(expression, 3, Len(expression))
            /\ IF expression' = <<>>
               THEN parsing' = "done" /\ pathError' = "MalformedPath"
               ELSE parsing' = "key" /\ UNCHANGED pathError
            /\ UNCHANGED <<place, components>>
       [] Len(expression) > 1 /\ Byte(1) = "$" /\ Byte(2) = "[" ->
            /\ expression' = Tail(expression)
            /\ parsing' = "key"
            /\ UNCHANGED <<place, components, pathError>>
       [] Len(expression) > 1 /\ Byte(1) = "$" /\ Byte(2) \notin {".", "["} ->
            Refuse("MalformedPath")
       [] OTHER -> Move("key", 1, <<>>)

\* A plain key runs to the next dot or opening bracket.
Plain == LET stop == First({p \in place .. Len(expression) : Byte(p) \in {".", "["}})
         IN  IF stop = None THEN Len(expression) + 1 ELSE stop

PlainKey == Text(expression, place, Plain)

ReadPlainKey ==
  /\ parsing = "key" /\ Byte(place) \notin {".", "[", Quote}
  /\ IF \E k \in 1 .. Len(PlainKey) : PlainKey[k] \in {"]", Quote}
     THEN Refuse("MalformedPath")
     ELSE Move("brackets", Plain, <<PlainKey>>)

\* parseQuotedPathKey: the key ends at a quote that is not escaped, and may not
\* hold a control character (only the byte behind a backslash is not looked at).
KeyClose == StringEnd(expression, place + 1, Len(expression) + 1, Quote)
QuotedEnd == IF KeyClose = None THEN Len(expression) + 1 ELSE KeyClose
Illegal(p) == /\ Byte(p) \in ControlBytes
              /\ EvenRun(expression, place + 1, p)

\* Mutant of ReadQuotedKey: the key is taken as it is written.
ReadQuotedKeyRaw ==
  /\ parsing = "key" /\ Byte(place) = Quote
  /\ LET key == Text(expression, place + 1, KeyClose)
     IN  CASE \E p \in place + 1 .. QuotedEnd - 1 : Illegal(p) ->
                Refuse("MalformedPath")
           [] KeyClose = None -> Refuse("UnterminatedKey")
           [] OTHER -> Move("brackets", KeyClose + 1, <<key>>)

ReadQuotedKey ==
  /\ parsing = "key" /\ Byte(place) = Quote
  /\ LET illegal == \E p \in place + 1 .. QuotedEnd - 1 : Illegal(p)
         key == Unescape(Text(expression, place + 1, KeyClose))
     IN  CASE illegal                       -> Refuse("MalformedPath")
           [] ~illegal /\ KeyClose = None   -> Refuse("UnterminatedKey")
           [] OTHER -> IF key = BadText THEN Refuse("MalformedPath")
                       ELSE Move("brackets", KeyClose + 1, <<key>>)

\* A bracket at the start of a segment has no key in front of it.
NoKey == parsing = "key" /\ Byte(place) = "[" /\ Move("brackets", place, <<>>)

LeadingDot == parsing = "key" /\ Byte(place) = "." /\ Refuse("MalformedPath")

---------------------------------------------------------------------------
\* parseBracketPathComponent
BracketClose == First({p \in place + 1 .. Len(expression) : Byte(p) = "]"})

BracketBody == Text(expression, place + 1, BracketClose)

LegalBracket == /\ BracketClose # None
                /\ \/ BracketBody = <<"*">>
                   \/ /\ BracketBody # <<>>
                      /\ \A k \in 1 .. Len(BracketBody) : BracketBody[k] \in Digits

AtBracket == ~Beyond(place) /\ Byte(place) = "["

ReadBracket ==
  /\ parsing = "brackets" /\ AtBracket
  /\ IF LegalBracket
     THEN Move("brackets", BracketClose + 1,
               <<Text(expression, place, BracketClose + 1)>>)
     ELSE Refuse("MalformedPath")

\* A segment is followed by a dot and another one, or by nothing.
EndSegment ==
  /\ parsing = "brackets" /\ ~AtBracket
  /\ CASE Beyond(place) -> Complete
       [] ~Beyond(place) /\ Byte(place) = "." /\ ~Beyond(place + 1) ->
            Move("key", place + 1, <<>>)
       [] OTHER -> Refuse("MalformedPath")

PathNext == \/ ReadRoot \/ ReadPlainKey \/ ReadQuotedKey \/ NoKey \/ LeadingDot
            \/ ReadBracket \/ EndSegment
=============================================================================
