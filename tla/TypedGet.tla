------------------------------ MODULE TypedGet ------------------------------
(***************************************************************************)
(* The typed getters, called through a compiled path (CompilePath, then    *)
(* CompiledPath.GetInt and the like): the expression is parsed, Get finds  *)
(* the value, its type is checked, and the number or the string is         *)
(* converted.  The steps are those of PathCompiler, Lookup, Numbers and    *)
(* Escapes, each fed by the one before it.                                 *)
(***************************************************************************)
EXTENDS Numbers, Escapes, PathCompiler, Lookup

VARIABLES text,         \* the data
          stage,        \* "compile", "convert" or "done"; "alone" when only one
                        \* of the parts is run
          answer        \* what is returned: [value, err]; the value is in
                        \* number or decoded when it is one of those

typedVars == <<numberVars, escapeVars, pathVars, text, stage, answer>>

TypedInit == /\ NumbersInit /\ EscapesInit /\ PathInit
             /\ answer = [value |-> <<>>, err |-> "none"]

Given == UNCHANGED <<text, getter>>

Answer(value, err) == /\ stage' = "done"
                      /\ answer' = [value |-> value, err |-> err]

\* The type a getter asks for.
Wanted == CASE getter = "GetString"  -> "String"
            [] getter = "GetBoolean" -> "Boolean"
            [] OTHER                 -> "Number"

\* Mutant of Mismatch: null is a value of the wrong type like any other.
MismatchPlain(type) == "WrongType"

Mismatch(type) == IF type = "Null" THEN "NullValue" ELSE "WrongType"

Failing == \E err \in {"EmptyPath", "MalformedPath", "UnterminatedKey"} :
             /\ stage = "compile" /\ parsing = "done" /\ pathError = err
             /\ Answer(<<>>, err)
             /\ Given
             /\ UNCHANGED <<numberVars, escapeVars, pathVars>>

\* The value of the kind asked for is on its way to the conversion; a boolean
\* needs none, and GetUnsafeString takes any value as it is.
Found(v) ==
  LET value == Text(text, v.window[1], v.window[2])
  IN  CASE v.err # "none" ->
             Answer(<<>>, v.err) /\ UNCHANGED <<numberVars, escapeVars>>
        [] v.err = "none" /\ getter = "GetUnsafeString" ->
             Answer(value, "none") /\ UNCHANGED <<numberVars, escapeVars>>
        [] v.err = "none" /\ getter # "GetUnsafeString" /\ v.type # Wanted ->
             Answer(<<>>, Mismatch(v.type)) /\ UNCHANGED <<numberVars, escapeVars>>
        [] OTHER ->
             CASE getter = "GetBoolean" ->
                    /\ Answer(value, "none")
                    /\ UNCHANGED <<numberVars, escapeVars>>
               [] getter = "GetString" ->
                    /\ source' = value /\ room' = Len(value)
                    /\ decoding' = "copy" /\ stage' = "convert"
                    /\ UNCHANGED <<numberVars, next, decoded, point, answer>>
               [] OTHER ->
                    /\ literal' = value
                    /\ reading' = "sign" /\ stage' = "convert"
                    /\ UNCHANGED <<getter, neg, pos, n, exact, number, escapeVars,
                                   answer>>

Look == /\ stage = "compile" /\ parsing = "done" /\ pathError = "none"
        /\ Given
        /\ UNCHANGED pathVars
        /\ \E v \in {Get(text, components)} : Found(v)

\* ParseInt and ParseString say what went wrong in their own words.
Converted ==
  /\ stage = "convert" /\ Given
  /\ UNCHANGED <<numberVars, escapeVars, pathVars>>
  /\ \/ reading = "done" /\ Answer(<<>>, number.err)
     \/ decoding = "done" /\ Answer(<<>>, "none")
     \/ decoding = "failed" /\ Answer(<<>>, "MalformedValue")

Compile == PathNext /\ UNCHANGED <<numberVars, escapeVars, text, stage, answer>>
ParseNumber == NumbersNext /\ UNCHANGED <<escapeVars, pathVars, text, stage, answer>>
ParseText == EscapesNext /\ UNCHANGED <<numberVars, pathVars, text, stage, answer>>

TypedNext == \/ Compile \/ Failing \/ Look
             \/ ParseNumber \/ ParseText \/ Converted
=============================================================================
