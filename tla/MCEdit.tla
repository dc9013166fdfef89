------------------------------- MODULE MCEdit -------------------------------
(***************************************************************************)
(* Editing for TLC.  Sequences of a few calls on small documents, with and *)
(* without whitespace, against the same calls on trees; and one call on a  *)
(* document that was cut short, at every byte, beside the document it was  *)
(* cut from, and on any other text, JSON or not.                           *)
(***************************************************************************)
EXTENDS Edit, EditDocuments, TokenTexts

CONSTANTS Documents,    \* the trees of the whole texts
          Pads,         \* what is written between their tokens
          MaxCalls,     \* calls per sequence
          Damaged       \* whether texts are also cut or arbitrary

VARIABLES tree, reply,  \* the store the same calls are made to
          whole,        \* the text that was cut, if any was
          calls         \* calls made so far

mcVars == <<editVars, tree, reply, whole, calls>>

Store == INSTANCE TreeStore

RECURSIVE ThroughScalar(_, _)

\* An index follows a place that holds a scalar.  When the text has an array
\* further on, Get may answer from it (see IndexStaysInScope).
ThroughScalar(t, path) ==
  path # <<>> /\
    IF t.kind = "leaf" THEN IsIndexForm(Head(path))
    ELSE \E k \in 1 .. Size(t) :
           Names(Head(path), t, k) /\ ThroughScalar(Part(t, k), Tail(path))

Diverted(path) ==
  /\ ThroughScalar(tree, path)
  /\ \E i \in 1 .. Len(document) : document[i] = "["

IsCut == whole # <<>>

\* Where there is no tree, whole is the text cut, or the given text itself.
MCInit ==
  /\ \/ /\ tree \in Documents /\ whole = <<>>
        /\ \E pad \in Pads : document = Render(tree, pad)
     \/ /\ Damaged /\ tree = NotJson
        /\ \E t \in Documents, pad \in Pads : whole = Render(t, pad)
        /\ \E n \in 0 .. Len(whole) - 1 : document = SubSeq(whole, 1, n)
     \/ /\ Damaged /\ tree = NotJson /\ whole = <<>>
        /\ document \in Texts
  /\ calls = 0
  /\ EditInit
  /\ Store!StoreInit

MCNext ==
  /\ calls < (IF tree = NotJson THEN 1 ELSE MaxCalls)
  /\ calls' = calls + 1
  /\ EditNext
  /\ IF tree = NotJson THEN UNCHANGED <<tree, reply>>
     ELSE Store!StoreNext /\ ~Diverted(call'.path)
  /\ UNCHANGED whole

MCSpec == MCInit /\ [][MCNext]_mcVars

---------------------------------------------------------------------------
\* Edited as bytes, a document is at any time the text of the tree the same
\* calls make: nothing but the addressed place changes, missing containers
\* come into being, no comma is left over or lacking whatever the whitespace
\* and whichever part is deleted (Set, Delete, Append).
DocumentIsTree == tree # NotJson => Parsed(document) = tree

\* Every error, and every report that nothing was found to delete, is the one
\* the tree gives; in particular a path that leads somewhere is never refused
\* (DeleteFound, Set, Append).
RepliesAgree == tree # NotJson => edit.err = reply

\* What the same call does to the whole document.
EditOfWhole ==
  CASE call.name = "Set"    -> Set(whole, call.path, call.value)
    [] call.name = "Delete" -> Delete(whole, call.path)
    [] OTHER                -> AppendValue(whole, call.path, call.value)

\* Some of the path exists in what is left, and so does the token after the
\* place that is edited, its comma included.
ClearOfTheCut ==
  /\ Depth(given, call.path) > 0
  /\ \/ given[edit.to - 1] = ","
     \/ NextToken(given, edit.to, Len(given) + 1) # None

\* A cut does not mislead an edit: the two scans of a deletion still agree on
\* what comes first, and where Set, Delete and Append find their path and the
\* text after it, they make the very splice they make in the whole document,
\* never one from an offset a missing bracket or quote has spoilt (SYS-REQ-048,
\* 049 and 050).  This is a property of documents in which no key stands twice:
\* of {"a":{},"a":{"b":1}} the first eight bytes lack the path that the rest has.
EditOfCutIsEditOfWhole ==
  IsCut /\ call # NoCall /\ edit.err = "none"
  => /\ edit.from =< edit.to
     /\ ClearOfTheCut => edit = EditOfWhole

\* Documented, and not what the code does.  SYS-REQ-033: a deleted target that
\* exists is removed, and only that.  Delete unescapes the component, Get does
\* not: they do not mean the same member.
DeleteRemovesTarget == tree # NotJson /\ call.name = "Delete" => Parsed(document) = tree
=============================================================================
