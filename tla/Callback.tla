----------------------------- MODULE Callback -----------------------------
(***************************************************************************)
(* The caller's side of the functions that report to a callback: the data  *)
(* the call is given, what the callback has been told so far, and what it  *)
(* answered last.  A callback that returns no error always answers "go     *)
(* on"; one that does may also answer with io.EOF, which asks for a quiet  *)
(* end, or with an error of its own.                                       *)
(***************************************************************************)
EXTENDS Lookup

CONSTANT Verdicts          \* the answers this caller's callback may give

ASSUME VerdictsAssumption == Verdicts \subseteq {"go on", "EOF", "refused"}

VARIABLES text,            \* the data: any bytes at all
          delivered,       \* the reports made, in order
          verdict          \* the answer to the last of them

callback == <<delivered, verdict>>

End == Len(text) + 1

\* The component that stands for every element of an array.
Wildcard == <<"[", "*", "]">>

\* One report of a value: which path or element it answers, its window, its
\* type and the error that comes with it.
Report(idx, v) ==
  [idx |-> idx, window |-> v.window, type |-> v.type, err |-> v.err]

Tell(report) == /\ delivered' = Append(delivered, report)
                /\ verdict' \in Verdicts

Stopped == verdict # "go on"

\* What a function that was stopped returns: io.EOF is not an error.
ErrorOf(answer) == IF answer = "refused" THEN "refused" ELSE "none"

CallbackInit == delivered = <<>> /\ verdict = "go on"
=============================================================================
