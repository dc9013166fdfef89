---------------------------- MODULE MCIteration ----------------------------
(***************************************************************************)
(* Iteration, container lengths and wildcards for TLC: documents whole and *)
(* cut short, and texts that are not JSON.  On every text the container is *)
(* first iterated and then measured, with the same path.                   *)
(***************************************************************************)
EXTENDS IterateLength, FanOut, EditDocuments, TokenTexts

CONSTANTS Documents,    \* the trees iterated
          Keys1,        \* the paths of their containers
          Scalars,      \* what the scalars of the texts that need not be JSON are
          FanDocuments, \* the trees walked
          FanPaths,     \* the paths with wildcards
          FanValues     \* what SetWildcard sets

VARIABLES tree, pad     \* text is Render(tree, pad), perhaps cut; NotJson
                        \* when it is any text

mcVars == <<bothVars, fanVars, tree, pad>>

Store == INSTANCE TreeStore WITH Paths <- {}, Values <- {}, call <- job,
                                 reply <- outcome

Star == Wildcard
L12 == Leaf(<<"1", "2">>)
LNull == Leaf(<<"n">>)
LQuoted == Leaf(<<Quote, Backslash, Quote, "]", Quote>>)

MCDocuments ==
  DocumentsEdge \cup
  {ObjectOf(<<>>), ArrayOf(<<>>), L1, ArrayOf(<<L12>>), Pair(A, L1, B, L12),
   ArrayOf(<<L12, LQuoted, LNull>>), ArrayOf(<<ArrayOf(<<L1>>), ObjectOf(<<>>), L12>>),
   Obj(A, ArrayOf(<<LQuoted, L12>>)), Pair(A, LQuoted, A, LNull),
   Obj(A, Pair(EscapedSlash, ArrayOf(<<L1, L1>>), B, Obj(A, L12)))}
MCKeys == {<<>>, <<A>>, <<One>>, <<A, B>>, <<A, Star>>}

\* Numbers that Get takes for numbers and JSON does not have, and some it has.
MCScalars == {<<"0", "1">>, <<"-">>, <<"1", ".">>, <<"-", "0", ".", "1", "e", "+", "1">>,
              <<"1", "e">>, <<"n", "n">>, <<"1", " ", "1">>, <<"t", "nl">>,
              <<Quote, "a", Quote, "1">>, <<"1", Quote, ",", Quote>>}

MCFanDocuments ==
  {ArrayOf(<<Obj(A, L1), Obj(B, L1), Obj(A, LStr)>>),
   ArrayOf(<<Obj(A, ArrayOf(<<L1, LStr>>)), Obj(A, ArrayOf(<<>>)),
             Obj(A, ArrayOf(<<L12>>))>>),
   ArrayOf(<<ArrayOf(<<L1, L1>>), ArrayOf(<<>>), ArrayOf(<<LStr, L12>>)>>),
   ArrayOf(<<ArrayOf(<<L1>>), Obj(A, L1), L1>>),
   Obj(A, ArrayOf(<<L1, LStr, L12>>)), Obj(A, ArrayOf(<<>>)), Obj(A, L1),
   Obj(A, ArrayOf(<<Obj(B, ArrayOf(<<L1, L1>>)), Pair(A, L1, B, ArrayOf(<<L12>>))>>)),
   ArrayOf(<<L1>>), L1}
MCFanPaths == {<<Star>>, <<Star, A>>, <<A, Star>>, <<Star, Star>>, <<A, Star, B>>,
               <<Star, A, Star>>, <<A, Star, B, Star>>, <<A>>, <<>>}
MCFanValues == {Str}

Full == Render(tree, pad)

Cuts == {SubSeq(Full, 1, n) : n \in 0 .. Len(Full)}

\* On text that is not JSON.
LoosePaths == {<<Star>>, <<Star, A>>, <<A, Star>>}

NoJob == [name |-> "none", path |-> <<>>, value |-> <<>>]
NoWalk == /\ job = NoJob /\ task = "idle"

\* Text that the stems, tails and scalars make.
LooseTexts == Texts \cup {stem \o s \o tail : stem \in Stems, s \in Scalars,
                                             tail \in Tokens \cup {<<>>}}

Iterations(names, keys) ==
  /\ each \in [name : names, keys : keys]
  /\ SameContainer
  /\ NoWalk

OneMachine(keys) == \/ Iterations({"ArrayEach", "ArrayEachWildcard"}, keys)
                    \/ Iterations({"ObjectEach"}, keys)

Walk(names, paths) ==
  /\ job \in [name : names, path : paths, value : FanValues]
  /\ task = "locate"
  /\ each = [name |-> "none", keys |-> <<>>]
  /\ asked = [open |-> "[", keys |-> <<>>]

MCInit ==
  /\ \/ /\ tree \in Documents /\ pad \in {<<>>, <<" ">>}
        /\ text \in Cuts
        /\ OneMachine(Keys1)
     \/ /\ tree = NotJson /\ pad = <<>>
        /\ text \in LooseTexts
        /\ OneMachine({<<>>, <<A>>})
     \/ /\ tree \in FanDocuments /\ pad \in {<<>>, <<" ">>}
        /\ text \in Cuts
        /\ Walk({"EachKeyWildcard", "SetWildcard"}, FanPaths)
     \/ /\ tree = NotJson /\ pad = <<>>
        /\ text \in LooseTexts
        /\ Walk({"EachKeyWildcard"}, LoosePaths)
  /\ IterateInit /\ LengthInit /\ FanInit

Walking == task # "idle"

MCNext ==
  /\ UNCHANGED <<tree, pad>>
  /\ \/ ~Walking /\ BothNext /\ UNCHANGED fanVars
     \/ FanNext /\ UNCHANGED <<each, off, count, pc, reply, lengthVars>>

MCSpec == MCInit /\ [][MCNext]_mcVars

---------------------------------------------------------------------------
Places(path) == Addressed(tree, path, pad, 1)

Expected(a) == UnquotedWindow(Text(Full, a.window[1], a.window[2]), a.window)

\* The container the iteration is about: what its path leads to in the
\* document, when that is a container of the right kind.
Kind == IF OverArray THEN "array" ELSE "object"
Container == IF Places(Keys) = {} THEN [val |-> NotJson, window |-> NoWindow]
             ELSE FirstPlace(Places(Keys))
Suitable == tree # NotJson /\ Container.val.kind = Kind

\* Where its parts are, and their names.
Items ==
  [k \in 1 .. Size(Container.val) |->
     LET part == Part(Container.val, k)
         start == Container.window[1] + Len(UpToPart(Container.val, k, pad))
     IN  [idx |-> IF OverArray THEN k - 1
                  ELSE Unescape(Container.val.members[k].key),
          window |-> Expected([val |-> part,
                               window |-> <<start, start + Len(Render(part, pad))>>])]]

Cut == Len(text) < Container.window[2] - 1

Sound == SelectSeq(delivered, LAMBDA r : r.err = "none")

\* The parts of a container are reported in order, each once and under its own
\* index or key, up to where the callback stops the loop or the text breaks
\* off; only a number can lack its last digits there.  The count is the number
\* of reports.  Without an error, and without a stop, all parts were reported
\* and the container was closed; with one, the callback refused or the text is
\* cut or holds no such container (ArrayEachErr, ObjectEach).  A container that
\* the document has whole has the length the tree says (scanContainerLen).
PartsInOrder ==
  ~Walking /\ tree # NotJson =>
    /\ delivered # <<>> => Suitable /\ Len(Sound) =< Len(Items)
    /\ \A k \in 1 .. Len(Sound) :
         /\ Sound[k].idx = Items[k].idx
         /\ \/ Sound[k].window = Items[k].window
            \/ /\ Cut /\ k = Len(Sound) /\ Sound[k].type = "Number"
               /\ Sound[k].window[1] = Items[k].window[1]
    /\ pc = "done" =>
         /\ reply.count = Len(delivered)
         /\ reply.err = "none" /\ ~Stopped => Suitable /\ Sound = delivered
              /\ Len(delivered) = Len(Items) /\ ~Cut
         /\ Suitable /\ ~Cut /\ ~Stopped => reply.err = "none"
         /\ Stopped => reply.err = CASE verdict = "refused" -> "refused"
                                     [] OverArray -> "none"
                                     [] OTHER -> "EOF"
    /\ state = "done" /\ Suitable /\ ~Cut =>
         length = [n |-> Size(Container.val), err |-> "none"]

---------------------------------------------------------------------------
WildIn(path) == {k \in 1 .. Len(path) : path[k] = Star}

RECURSIVE Reached(_, _), ReachedIn(_, _, _)

\* The places the path leads to from the place a, in document order, up to the
\* first element it leads nowhere from; and what is wrong there.
Reached(a, path) ==
  LET w == First(WildIn(path))
      Go(rest) == Addressed(a.val, rest, pad, a.window[1])
      prefix == SubSeq(path, 1, w - 1)
  IN  CASE w = None /\ Go(path) # {} -> [list |-> <<FirstPlace(Go(path))>>, err |-> "none"]
        [] w # None /\ Go(prefix) # {} ->
             IF FirstPlace(Go(prefix)).val.kind # "array"
             THEN [list |-> <<>>, err |-> "MalformedArray"]
             ELSE ReachedIn(FirstPlace(Go(prefix)), 1, SubSeq(path, w + 1, Len(path)))
        [] OTHER -> [list |-> <<>>, err |-> "KeyPathNotFound"]

\* From the k-th element of the array on.
ReachedIn(a, k, path) ==
  IF k > Size(a.val) THEN [list |-> <<>>, err |-> "none"]
  ELSE LET element == CHOOSE b \in Addressed(a.val, <<Component(k - 1)>>, pad, a.window[1]) : TRUE
           first == Reached(element, path)
           rest == ReachedIn(a, k + 1, path)
       IN  IF first.err # "none" THEN first
           ELSE [list |-> first.list \o rest.list, err |-> rest.err]

Root == [val |-> tree, window |-> <<1, Len(Full) + 1>>]
Right == Reached(Root, job.path)

\* Every combination the path matches is reported once, in document order, up
\* to the first element the rest of the path leads nowhere from, and that
\* error is returned (EachKeyWildcard).  Of a text that is cut no more is
\* reported than is right.  On any text only the last report can be of an
\* error, and it is the error returned.
ReportsEveryMatch ==
  Walking /\ Reporting =>
    /\ tree # NotJson =>
         /\ Len(Sound) =< Len(Right.list)
         /\ \A k \in 1 .. Len(Sound) :
              \/ Sound[k].window = Expected(Right.list[k])
              \/ /\ text # Full /\ k = Len(Sound) /\ Sound[k].type = "Number"
                 /\ Sound[k].window[1] = Expected(Right.list[k])[1]
         /\ task = "done" /\ text = Full =>
              outcome = Right.err /\ Len(Sound) = Len(Right.list)
    /\ \A k \in 1 .. Len(delivered) :
         delivered[k].err # "none" => k = Len(delivered) /\ outcome = delivered[k].err

RECURSIVE SetEverywhere(_, _, _)

\* The tree with the value at every place the path matches; NotJson when a
\* wildcard is not at an array.
SetEverywhere(t, path, val) ==
  LET k == Store!PlaceOf(t, Head(path))
      items == [n \in 1 .. Size(t) |-> SetEverywhere(t.items[n], Tail(path), val)]
  IN  CASE WildIn(path) = {} -> Store!Put(t, path, val)
        [] WildIn(path) # {} /\ Head(path) = Star ->
             IF t.kind # "array" \/ \E n \in 1 .. Size(t) : items[n] = NotJson
             THEN NotJson ELSE ArrayOf(items)
        [] OTHER ->
             IF k = None THEN NotJson
             ELSE LET part == SetEverywhere(Part(t, k), Tail(path), val)
                  IN  IF part = NotJson THEN NotJson ELSE Store!WithPart(t, k, part)

\* SetWildcard sets the value everywhere the path matches, although each Set
\* moves the text the next one looks up its path in, and changes nothing when
\* there is nothing to set; or it returns an error.
SetsEveryMatch ==
  task = "done" /\ ~Reporting /\ text = Full =>
    LET right == IF job.path = <<>> \/ tree.kind = "leaf" THEN NotJson
                 ELSE SetEverywhere(tree, job.path, Parsed(job.value))
    IN  IF right = NotJson THEN outcome # "none"
        ELSE outcome = "none" /\ Parsed(result) = right

\* Documented, and not what the code does.  SYS-REQ-113: the callback is
\* invoked once per matched combination, over every element of the array.  An
\* element without the rest of the path hides the elements behind it.
EveryMatchIsReported ==
  task = "done" /\ Reporting /\ text = Full
  /\ tree.kind = "array" /\ job.path = <<Star, A>> =>
    Len(Sound) = Cardinality(UNION {Places(<<Component(n - 1), A>>)
                                    : n \in 1 .. Size(tree)})
=============================================================================
