--------------------------- MODULE MCSearchKeys ---------------------------
(***************************************************************************)
(* Get on well-formed documents: every text of a family of trees, with and *)
(* without whitespace, against every path of up to three components.  The  *)
(* tree is kept beside the run so that the answer can be compared with the *)
(* reference.                                                              *)
(***************************************************************************)
EXTENDS SearchLookup, JsonTree

CONSTANTS Keys,         \* key bodies that occur in documents
          Components,   \* path components
          Odd,          \* malformed ones, the last of at most two
          MaxPath,      \* components per path
          Pads,         \* what is written between tokens
          Truncate      \* whether some of them are also cut short

VARIABLES tree, pad     \* the whole document is Render(tree, pad)

mcVars == <<askedVars, tree, pad>>

BothPads == {<<>>, <<" ">>}

KeysAB == {<<"a">>, <<"b">>}
KeysEscaped == {<<"a">>, <<Backslash, Quote>>}
ComponentsAB == {<<"a">>, <<"b">>, <<"[", "0", "]">>, <<"[", "1", "]">>}
OddComponents == {<<"[", "-", "1", "]">>, <<"[", "]">>}
NoComponents == {}
ComponentsEscaped == {<<"a">>, <<Quote>>, <<"[", "0", "]">>, <<"[", "1", "]">>}

\* Leaves that could be taken for something else: a string equal to a key, a
\* string holding brackets, a string ending in an escaped quote.
One == Leaf(<<"1">>)
Twelve == Leaf(<<"1", "2">>)
Leaves == {One, Leaf(<<Quote, "a", Quote>>), Leaf(<<Quote, "}", "]", Quote>>),
           Leaf(<<Quote, Backslash, Quote, Quote>>)}

Objects(vs) == {ObjectOf(<<>>)}
                 \cup {ObjectOf(<<Member(k, v)>>) : k \in Keys, v \in vs}
Pairs(us, vs) == {ObjectOf(<<Member(k, u), Member(l, v)>>)
                  : k, l \in Keys, u \in us, v \in vs}
Distinct(us, vs) == {p \in Pairs(us, vs) : UniqueKeys(p)}
Arrays(vs) == {ArrayOf(<<>>)} \cup {ArrayOf(<<v>>) : v \in vs}
                \cup {ArrayOf(<<v, One>>) : v \in vs}
                \cup {ArrayOf(<<One, v>>) : v \in vs}

Flat == Leaves \cup {Twelve} \cup Objects({One}) \cup Arrays({One, Leaf(<<Quote, "a", Quote>>)})
          \cup Pairs({One}, {One})
Nested == {ObjectOf(<<>>), ObjectOf(<<Member(<<"a">>, One)>>),
           ArrayOf(<<>>), ArrayOf(<<One>>), ArrayOf(<<One, Leaf(<<Quote, "a", Quote>>)>>)}
Deep == Flat \cup Objects(Flat) \cup Arrays(Flat)
             \cup Pairs(Flat, {One}) \cup Pairs({One}, Flat)
             \cup Distinct(Nested, Nested)
Deeper == Objects(Distinct({One}, Nested) \cup Distinct(Nested, {One}))
            \cup {ArrayOf(<<One, v>>) : v \in Distinct({One}, Nested)}
Trees == Deep \cup Deeper

\* The ones also cut short: every flat one, and three levels in one order.
CutTrees == Flat \cup {ObjectOf(<<Member(<<"a">>, v)>>) : v \in Distinct({One}, Nested)}

MCPaths == UNION {[1 .. n -> Components] : n \in 0 .. MaxPath}
             \cup {<<o>> : o \in Odd}
             \cup {<<c, o>> : c \in Components, o \in Odd}

Full == Render(tree, pad)
Cuts == IF Truncate /\ pad # <<>> /\ tree \in CutTrees
        THEN 0 .. Len(Full) ELSE {Len(Full)}

MCInit == /\ tree \in Trees
          /\ pad \in Pads
          /\ whole = Full
          /\ \E n \in Cuts : data = SubSeq(Full, 1, n)
          /\ keys \in MCPaths
          /\ AskedInit

MCNext == AskedNext /\ UNCHANGED <<tree, pad>>

MCSpec == MCInit /\ [][MCNext]_mcVars /\ WF_mcVars(MCNext)

---------------------------------------------------------------------------
Places == Addressed(tree, asked, pad, 1)

\* Some prefix of the path leads to a scalar and the next component is an
\* index: the one shape of path on which a sibling can answer (see
\* IndexStaysInScope).
IndexesScalar ==
  \E n \in 0 .. Len(asked) - 1 :
    /\ IsIndexForm(asked[n + 1])
    /\ \E a \in Addressed(tree, SubSeq(asked, 1, n), pad, 1) :
         a.val.kind = "leaf"

NamesOnly == \A n \in 1 .. Len(asked) : ~IsIndexForm(asked[n])

Complete == data = Full

FoundWindow(a) == UnquotedWindow(Text(Full, a.window[1], a.window[2]), a.window)

\* Get on a well-formed document returns exactly the first place the path
\* leads to, and not-found exactly when there is none (SYS-REQ-001 and 016).
\* Nested names, siblings with the same names, brackets and keys inside
\* strings, duplicate keys: none of them may divert the counters.  With
\* duplicate keys this holds for paths of names.
AnswersThePath ==
  pc = "done" /\ Complete /\ ~IndexesScalar /\ (UniqueKeys(tree) \/ NamesOnly) =>
    IF Places = {} THEN value.err = "KeyPathNotFound"
    ELSE value.err = "none" /\ value.window = FoundWindow(FirstPlace(Places))

\* Documented, and not what the code does.  SYS-REQ-016: on a well-formed
\* document a path that does not exist gives KeyPathNotFound.  An index after
\* a name that leads to a scalar is answered by the next array of that object.
IndexStaysInScope ==
  pc = "done" /\ Complete /\ Places = {} => value.err = "KeyPathNotFound"
=============================================================================
