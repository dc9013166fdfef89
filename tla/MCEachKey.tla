----------------------------- MODULE MCEachKey -----------------------------
(***************************************************************************)
(* EachKey and EachKeyErr for TLC: documents whole and cut short, against  *)
(* pairs and triples of paths that share prefixes, arrays or all of their  *)
(* components; and texts that are not JSON.  The callback may stop the     *)
(* scan at any report.                                                     *)
(***************************************************************************)
EXTENDS EachKey, EditDocuments, TokenTexts

CONSTANTS Documents,    \* trees
          PathPool,     \* the paths of the pairs asked for
          PathLists,    \* longer lists
          TokenLists    \* the lists asked for on arbitrary text

VARIABLES tree, pad     \* text is Render(tree, pad), perhaps cut; NotJson
                        \* when it is any text

mcVars == <<eachKeyVars, tree, pad>>

\* Same names at several levels, names that return after an object has been
\* left, arrays of arrays, of objects and of strings, duplicate keys.
LA == Leaf(<<Quote, "a", Quote>>)
DocumentsShared ==
  {Pair(A, Obj(B, L1), B, Obj(A, LStr)), Pair(B, Obj(A, L1), A, Obj(A, L1)),
   Pair(A, Obj(A, Obj(B, L1)), B, L1),
   Pair(A, ObjectOf(<<>>), A, Pair(B, L1, A, LStr)),
   Pair(A, ArrayOf(<<L1>>), A, ArrayOf(<<L1, LA>>)),
   Pair(A, L1, B, ArrayOf(<<L1, LStr>>)),
   ArrayOf(<<Obj(A, L1), Pair(A, ArrayOf(<<L1, LA>>), B, L1), LA>>),
   Obj(A, ArrayOf(<<Obj(B, L1), Obj(A, LStr), ArrayOf(<<L1, L1>>)>>)),
   Pair(A, Obj(B, ArrayOf(<<L1, Obj(A, L1)>>)), B, ArrayOf(<<ArrayOf(<<LA>>)>>))}
L12 == Leaf(<<"1", "2">>)
MCDocuments == DocumentsShared \cup {Obj(A, L12), ArrayOf(<<L1, L12>>)}
                 \cup {ObjectOf(<<>>), L1, ArrayOf(<<>>), ArrayOf(<<LStr, L1>>),
                 Obj(EscapedSlash, L1), Obj(A, ArrayOf(<<>>))}

Pool == {<<A>>, <<B>>, <<A, A>>, <<A, B>>, <<B, A>>, <<A, Zero>>, <<A, One>>,
         <<Zero>>, <<One>>, <<One, A>>, <<A, Zero, B>>, <<A, B, One, A>>,
         <<Zero, Zero>>, <<Slash>>}
Triples == {<< <<A>>, <<A, B>>, <<A, B>> >>, << <<A, A>>, <<A, B>>, <<B>> >>,
            << <<Zero, A>>, <<One, A, One>>, <<One, A, Zero>> >>,
            << <<B, Zero, Zero>>, <<A, B, Zero>>, <<A, B, One, A>> >>,
            << <<A, One>>, <<A, One, A>>, <<A, One, One>> >>,
            << <<A, Zero>>, <<>>, <<A, <<"[", "-", "1", "]">> >> >>,
            << <<A, A, A, A, A>>, <<A, <<"[", "x", "]">> >> >>}

\* A string whose content reads like an array.
DocumentsQuoted == {ArrayOf(<<L1, Leaf(<<Quote, "[", "1", "]", Quote>>)>>)}
PathsQuoted == {<< <<One, Zero>> >>}
NoPaths == {}

OnTokens == {<< <<A>>, <<A, Zero>> >>, << <<Zero>>, <<One, Zero>>, <<One>> >>,
             << <<A, A>>, <<A, One>>, <<A, Zero, A>> >>}

Lists == {<<p, q>> : p, q \in PathPool} \cup PathLists

Full == Render(tree, pad)

Whole(t, s) == tree = t /\ pad = s /\ text = Render(t, s)

MCInit == /\ \/ /\ \E t \in Documents : \E s \in {<<>>, <<" ">>} : Whole(t, s)
                /\ paths \in Lists
             \/ /\ \E t \in Documents : tree = t
                /\ pad = <<>>
                /\ \E n \in 0 .. Len(Full) - 1 : text = SubSeq(Full, 1, n)
                /\ paths \in PathLists
             \/ /\ tree = NotJson /\ pad = <<>>
                /\ text \in Texts
                /\ paths \in TokenLists
          /\ EachKeyInit

MCNext == EachKeyNext /\ UNCHANGED <<tree, pad>>

\* The scan is run to its end.  Only of any text is it in question that there is
\* one.
AnyText == tree = NotJson

MCSpec == MCInit /\ [][MCNext]_mcVars /\ WF_mcVars(AnyText /\ MCNext)

---------------------------------------------------------------------------
Places(path) == Addressed(tree, path, pad, 1)

Prefix(path, n) == SubSeq(path, 1, n)

\* Whether a prefix of the path that passes through an array leads to a scalar
\* from which the lookup inside the element can be diverted: a string element
\* (see StringsHaveNoParts), or a member asked for an element (the lookup is
\* Get's, see IndexStaysInScope).
Diverted(path) ==
  \E n \in 1 .. Len(path) - 1 :
    /\ \E m \in 1 .. n : IsIndexForm(path[m])
    /\ \E a \in Places(Prefix(path, n)) : a.val.kind = "leaf"
    /\ IsIndexForm(path[n]) \/ IsIndexForm(path[n + 1])

\* The window the callback should get for a place.
Expected(a) == UnquotedWindow(Text(Full, a.window[1], a.window[2]), a.window)

Reports(p) == {n \in 1 .. Len(delivered) : delivered[n].idx = p}

\* On a well-formed document, every path that leads somewhere is answered, with
\* the first place it leads to, and no other path is (SYS-REQ-008): neither
\* the other paths nor the names and elements the scan has passed change what
\* a path gets.  An empty path is never answered.
EachPathAnswered ==
  pc = "done" /\ ~Stopped /\ tree # NotJson /\ text = Full =>
    \A p \in Asked : paths[p] # <<>> /\ ~Diverted(paths[p]) =>
      (Reports(p) = {}) = (Places(paths[p]) = {})

\* Every value reported without an error is the first one its path leads to in
\* the document, also when the document is cut short later and whenever the
\* callback stops; only a number may lack its last digits.
ReportsAreTrue ==
  tree # NotJson =>
    \A n \in 1 .. Len(delivered) :
      LET r == delivered[n] IN
      r.err = "none" /\ ~Diverted(paths[r.idx]) =>
        /\ Places(paths[r.idx]) # {}
        /\ LET right == Expected(FirstPlace(Places(paths[r.idx])))
           IN  \/ r.window = right
              \/ /\ r.type = "Number" /\ r.window[1] = right[1]
                 /\ r.window[2] = End /\ End < right[2]

\* The scan ends on every text (EachKey): neither i-- behind a string, nor the
\* step back behind a colon that nothing follows, nor the offset arrayEach
\* returns from a damaged array is taken for ever.
EachKeyReturns == AnyText => <>(pc = "done")

\* Documented, and not what the code does.  SYS-REQ-008: a path that leads
\* nowhere gets no callback.  A string element is searched as if its content
\* were the text of a value.
StringsHaveNoParts ==
  tree # NotJson =>
    \A n \in 1 .. Len(delivered) : Places(paths[delivered[n].idx]) # {}
=============================================================================
