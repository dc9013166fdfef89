----------------------------- MODULE TreeStore -----------------------------
(***************************************************************************)
(* What editing promises: the document is a tree, and a call changes it at *)
(* the place its path leads to.  Set replaces what is there or makes the   *)
(* containers that are missing; it puts one in the place of a container of *)
(* the other kind.  Delete takes the place out of its container.  Append   *)
(* adds to an array.  The module Edit implements this on the bytes.        *)
(***************************************************************************)
EXTENDS JsonTree

LOCAL Seqs == INSTANCE SequencesExt

CONSTANTS Paths, Values

VARIABLES tree,     \* the document, Nothing once the whole of it is deleted
          call,     \* the last call
          reply     \* and its error

storeVars == <<tree, call, reply>>

\* The place a component names in t, None if there is none.
PlaceOf(t, component) ==
  IF t.kind = "leaf" THEN None
  ELSE First({k \in 1 .. Size(t) : Names(component, t, k)})

WithPart(t, k, part) ==
  IF t.kind = "object" THEN [t EXCEPT !.members[k].val = part]
  ELSE [t EXCEPT !.items[k] = part]

WithoutPart(t, k) ==
  IF t.kind = "object" THEN ObjectOf(Seqs!RemoveAt(t.members, k))
  ELSE ArrayOf(Seqs!RemoveAt(t.items, k))

\* Whether t can have a part the component names.
Suits(t, component) ==
  t.kind = (IF IsIndexForm(component) THEN "array" ELSE "object")

WithNewPart(t, component, part) ==
  IF t.kind = "object" THEN ObjectOf(Append(t.members, Member(component, part)))
  ELSE ArrayOf(Append(t.items, part))

RECURSIVE Lookup(_, _), Fresh(_, _), Put(_, _, _), Removed(_, _)

\* The value the path leads to in t, Nothing if there is none.
Lookup(t, path) ==
  IF path = <<>> THEN t
  ELSE LET k == PlaceOf(t, Head(path))
       IN  IF k = None THEN Nothing ELSE Lookup(Part(t, k), Tail(path))

\* Containers for a whole path, with one part each.
Fresh(path, val) ==
  IF path = <<>> THEN val
  ELSE WithNewPart(IF IsIndexForm(Head(path)) THEN ArrayOf(<<>>)
                   ELSE ObjectOf(<<>>), Head(path), Fresh(Tail(path), val))

Put(t, path, val) ==
  IF path = <<>> THEN val
  ELSE LET k == PlaceOf(t, Head(path))
       IN  CASE k # None -> WithPart(t, k, Put(Part(t, k), Tail(path), val))
             [] k = None /\ Suits(t, Head(path)) ->
                  WithNewPart(t, Head(path), Fresh(Tail(path), val))
             [] OTHER -> Fresh(path, val)

Removed(t, path) ==
  LET k == PlaceOf(t, Head(path))
  IN  IF Len(path) = 1 THEN WithoutPart(t, k)
      ELSE WithPart(t, k, Removed(Part(t, k), Tail(path)))

Exists(path) == tree # Nothing /\ Lookup(tree, path) # Nothing

---------------------------------------------------------------------------
Refuses(err) == reply' = err /\ UNCHANGED tree

Becomes(t) == reply' = "none" /\ tree' = t

\* A root that is a scalar, or no document at all, is not made a container.
Settable(path) == path # <<>> /\ tree.kind # "leaf"

Sets(path, val) ==
  IF Settable(path) THEN Becomes(Put(tree, path, val))
  ELSE Refuses("KeyPathNotFound")

SetStep ==
  \E path \in Paths, value \in Values :
    /\ call' = [name |-> "Set", path |-> path, value |-> value]
    /\ Sets(path, Parsed(value))

DeleteStep ==
  \E path \in Paths :
    /\ call' = [name |-> "Delete", path |-> path, value |-> <<>>]
    /\ CASE path = <<>>                  -> Becomes(Nothing)
         [] path # <<>> /\ Exists(path)  -> Becomes(Removed(tree, path))
         [] OTHER                        -> Refuses("KeyPathNotFound")

AppendStep ==
  \E path \in Paths, value \in Values :
    /\ call' = [name |-> "Append", path |-> path, value |-> value]
    /\ LET target == Lookup(tree, path)
       IN  CASE ~Exists(path) /\ path = <<>> -> Refuses("MalformedJson")
             [] ~Exists(path) /\ path # <<>> ->
                  Sets(path, ArrayOf(<<Parsed(value)>>))
             [] Exists(path) /\ target.kind # "array" ->
                  Refuses("MalformedArray")
             [] OTHER ->
                  Becomes(Put(tree, path,
                              ArrayOf(Append(target.items, Parsed(value)))))

StoreInit == reply = "none"

StoreNext == SetStep \/ DeleteStep \/ AppendStep

StoreSpec == StoreInit /\ [][StoreNext]_storeVars
=============================================================================
