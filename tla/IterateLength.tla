--------------------------- MODULE IterateLength ---------------------------
(***************************************************************************)
(* A container is iterated to its end and then measured: ArrayEach and     *)
(* GetArrayLen, or ObjectEach and GetObjectLen, on the same text with the  *)
(* same path.  The two read the text with different scanners.              *)
(***************************************************************************)
EXTENDS Iterate, ContainerLen

bothVars == <<iterateVars, lengthVars>>

\* The container measured is the one that was iterated.
SameContainer == asked = [open |-> IF OverArray THEN "[" ELSE "{", keys |-> Keys]

BothInit == /\ text \in Seq(STRING)
            /\ each \in [name : {"ArrayEach", "ArrayEachWildcard", "ObjectEach"},
                         keys : Seq(Seq(STRING))]
            /\ SameContainer
            /\ IterateInit /\ LengthInit

BothNext ==
  \/ IterateNext /\ UNCHANGED lengthVars
  \/ /\ pc = "done" /\ ~Stopped
     /\ LengthNext
     /\ UNCHANGED <<each, off, count, pc, reply>>

BothSpec == BothInit /\ [][BothNext]_bothVars

---------------------------------------------------------------------------
\* On any text at all, JSON or not, a container that has a length can be
\* iterated to its end, unless a key of it is malformed, and has that many
\* parts: the scan that counts never takes for one part what the iteration
\* takes for two, and never lets pass what the iteration trips over
\* (scanContainerLen, ArrayEachErr, ObjectEach).
LengthIsTrue ==
  state = "done" /\ length.err = "none" =>
    \/ reply.err = "none" /\ Len(delivered) = length.n
    \/ reply.err = "MalformedStringEscape"
=============================================================================
