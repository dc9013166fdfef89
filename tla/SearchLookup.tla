---------------------------- MODULE SearchLookup ----------------------------
(***************************************************************************)
(* Get step by step, and beside it Get in one step: the scan of SearchKeys *)
(* and the function of Lookup, on the same text and the same path, and on  *)
(* the text it may have been cut from.                                     *)
(***************************************************************************)
EXTENDS SearchKeys, Lookup

VARIABLES asked,           \* the path Get was asked for
          whole            \* the text that was cut, or the text itself

askedVars == <<vars, asked, whole>>

AskedInit == /\ whole \in Seq(STRING)
             /\ \E n \in 0 .. Len(whole) : data = SubSeq(whole, 1, n)
             /\ Init
             /\ asked = keys

AskedNext == Next /\ UNCHANGED <<asked, whole>>

AskedSpec == AskedInit /\ [][AskedNext]_askedVars

\* The scan taken step by step and Get as a function of the text, which the
\* editing functions are modelled with, give the same answer on every text:
\* value, window, end offset and error (internalGet).
AgreesWithLookup == pc = "done" => value = Get(data, asked)

\* Whether a value shows where it ends: by its own delimiter, or by the byte
\* behind it.
Delimits(v) == v.type \in {"String", "Array", "Object"} \/ v.end =< Len(data)

\* A text cut short anywhere, JSON or not: whatever Get still returns without
\* an error is what it returns of the whole text, a half-read string or
\* container or a value of another scope never, except that a number may have
\* lost its last digits to the cut.  (A literal at the cut shows nothing: it
\* may go on and be none.)  (SYS-REQ-017, SYS-REQ-026.)
TruncationNeverMisleads ==
  pc = "done" /\ value.err = "none" =>
    LET right == Get(whole, asked)
    IN  IF Delimits(value) THEN value = right
        ELSE value.type = "Number" =>
               /\ right.type = "Number"
               /\ right.window[1] = value.window[1]
=============================================================================
