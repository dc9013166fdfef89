-------------------------- MODULE MCReaderParser --------------------------
(***************************************************************************)
(* ReaderParser on streams that are the text of a tree, whole or cut short *)
(* anywhere, served in every way a reader may serve them: any chunking up  *)
(* to ReadSize, empty reads, the error with or after the last bytes, a     *)
(* failure at any read.  The tree gives the reference answer.              *)
(***************************************************************************)
EXTENDS ReaderHistory, JsonTree

VARIABLES tree, pad     \* what the stream is the text of

mcVars == <<historyVars, tree, pad>>

GetOf(p) == [op |-> "Get", path |-> p]
StringOf(p) == [op |-> "GetString", path |-> p]

A == <<"a">>
B == <<"b">>
I(n) == <<"[", DigitNames[n + 1], "]">>

Each == [op |-> "ArrayEach", path |-> <<>>]
Queries == {GetOf(<<>>), GetOf(<<A>>), GetOf(<<B>>), GetOf(<<A, B>>),
            GetOf(<<A, I(1)>>), GetOf(<<I(1)>>), GetOf(<<I(0), A>>),
            GetOf(<<A, <<>> >>), GetOf(<< <<Quote>> >>),
            StringOf(<<>>), StringOf(<<A>>), StringOf(<<A, B>>), Each}
CutQueries == {GetOf(<<>>), GetOf(<<A, B>>), GetOf(<<A, I(1)>>),
               StringOf(<<A, B>>), Each}

One == Leaf(<<"1">>)
Twelve == Leaf(<<"1", "2">>)
Tricky == Leaf(<<Quote, "]", Backslash, Quote, Quote>>)
Unclear == Leaf(<<Quote, "b", Backslash, "g", Quote>>)
Literal == Leaf(<<"n">>)

Trees ==
  {One, Twelve, Tricky, Unclear, ObjectOf(<<>>), ArrayOf(<<>>),
   ArrayOf(<<Twelve, Tricky>>),
   ObjectOf(<<Member(A, Tricky), Member(B, One)>>),
   ObjectOf(<<Member(B, ArrayOf(<<One>>)), Member(A, Twelve)>>),
   ObjectOf(<<Member(A, ArrayOf(<<One>>)), Member(A, ArrayOf(<<One, Literal>>))>>),
   ObjectOf(<<Member(A, ObjectOf(<<Member(B, Tricky)>>))>>),
   ObjectOf(<<Member(A, One), Member(B, ArrayOf(<<One, One>>))>>),
   ObjectOf(<<Member(<<Backslash, Quote>>, One), Member(A, Literal)>>),
   ArrayOf(<<ObjectOf(<<Member(A, ArrayOf(<<>>))>>), One, Literal>>)}

Single == Leaf(<<"'", Quote, "]", "'">>)
CutTrees == {Twelve, ArrayOf(<<Twelve, Single, Tricky>>),
             ObjectOf(<<Member(A, One), Member(B, ArrayOf(<<One>>))>>),
             ObjectOf(<<Member(A, ObjectOf(<<Member(B, Tricky)>>))>>)}

Full == Render(tree, pad) \o pad

Asked(queries) == \E q \in queries : op = q.op /\ path = q.path

MCInit ==
  /\ \/ tree \in Trees /\ pad = <<>> /\ stream = Full /\ Asked(Queries)
     \/ /\ tree \in CutTrees /\ pad = <<" ">> /\ Asked(CutQueries)
        /\ \E n \in 0 .. Len(Full) : stream = SubSeq(Full, 1, n)
  /\ HistoryInit

MCNext == HistoryNext /\ UNCHANGED <<tree, pad>>

MCSpec == MCInit /\ [][MCNext]_mcVars /\ WF_mcVars(MCNext)

---------------------------------------------------------------------------
Places == Addressed(tree, path, pad, 1)
Whole(a) == Text(Full, a.window[1], a.window[2])
Complete == stream = Full

\* The text of the tree's value has been consumed to its last byte.
ReachedEnd == win.bufStart + win.pos >= Len(Render(tree, pad))

GetDone == pc = "done" /\ op # "ArrayEach"

\* What a getter should return of the value t with that text.
Wanted(t, text) ==
  CASE op = "Get" -> [err |-> "none", value |-> Unquoted(text)]
    [] op = "GetString" /\ IsStringText(text) ->
         IF Unescape(Unquoted(text)) = BadText
         THEN [err |-> "MalformedValue", value |-> <<>>]
         ELSE [err |-> "none", value |-> Unescape(Unquoted(text))]
    [] OTHER -> [err |-> IF t = Literal THEN "NullValue" ELSE "WrongType",
                 value |-> <<>>]

\* A value that Get or GetString returns is the first one the path leads to, byte for byte,
\* in every chunking, also when the stream ends or fails later.  Only a number
\* that the end of the stream cuts short may be shorter.
FoundIsAddressed ==
  GetDone /\ result.err = "none" =>
    /\ Places # {}
    /\ LET first == FirstPlace(Places)
           right == Wanted(first.val, Whole(first)).value
       IN  \/ result.value = right
           \/ /\ result.type = "Number" /\ readErr = "EOF" /\ ~Complete
              /\ result.value = SubSeq(right, 1, Len(result.value))

\* Absence is only reported of a document that has been read to its end and
\* does not have the path (or of an empty stream, or an empty component): a
\* stream that breaks off is never mistaken for a document without the value.
AbsenceIsReal ==
  GetDone /\ result.err = "KeyPathNotFound" =>
    \/ \A p \in 1 .. Len(stream) : stream[p] \in Blank
    \/ \E n \in 1 .. Len(path) : path[n] = <<>>
    \/ Places = {} /\ (ReachedEnd \/ tree.kind = "leaf")

\* A complete document is answered as the reference answers it, unless the
\* reader failed: no chunking makes it look malformed or hides the value.
CompleteIsAnswered ==
  GetDone /\ Complete /\ readErr \in {"none", "EOF"}
  /\ (\A n \in 1 .. Len(path) : path[n] # <<>>) =>
    result.err = IF Places = {} THEN "KeyPathNotFound"
                 ELSE LET first == FirstPlace(Places)
                      IN  Wanted(first.val, Whole(first)).err

\* A failing or stalling reader shows: on the text of a document, or the start
\* of one, a call either has its answer already or returns the reader's error.
FailureShows ==
  pc = "done" /\ readErr \in {"Fault", "NoProgress"} =>
    \/ result.err = readErr
    \/ result.err \in {"none", "NullValue", "WrongType", "MalformedValue"}
    \/ op # "ArrayEach" /\ result.err = "KeyPathNotFound"
    \/ op = "ArrayEach" /\ tree.kind # "array"

Elements == [k \in 1 .. Len(tree.items) |-> Unquoted(Render(tree.items[k], pad))]
Good == SelectSeq(delivered, LAMBDA d : d.err = "none")

\* ArrayEach hands over the elements in order, each once and whole, and
\* reports an error to the callback at most once, last.  Success means all of
\* them were handed over.
ElementsInOrder ==
  op = "ArrayEach" /\ tree.kind = "array" =>
    /\ Len(Good) =< Len(Elements)
    /\ \A k \in 1 .. Len(Good) :
         \/ Good[k].value = Elements[k]
         \/ ~Complete /\ k = Len(Good)
    /\ \A k \in 1 .. Len(delivered) - 1 : delivered[k].err = "none"
    /\ pc = "done" /\ result.err = "none" => Len(Good) = Len(Elements)

\* The longest token that has to be kept whole: a key, the value Get returns,
\* an element.
LongestRetained ==
  LET keyLengths == {Len(m) : m \in {<<>>, A, B, <<Backslash, Quote>>}}
      tokens == IF op = "ArrayEach"
                THEN IF tree.kind = "array"
                     THEN {Len(Render(tree.items[k], pad))
                           : k \in 1 .. Len(tree.items)}
                     ELSE {}
                ELSE {Len(Whole(a)) : a \in Places}
      all == {n + 2 : n \in keyLengths} \cup tokens
  IN  CHOOSE n \in all : \A m \in all : m =< n

\* No token is kept but the keys of the objects entered, the value returned
\* and the elements reported: a value that is skipped is not, however long it
\* is and however the reader chops it (SkipValue, captureValue).
OnlyTokensAreKept == longest =< LongestRetained

\* Every call returns, whatever the reader does: a reader that makes no
\* progress is given up.
Returns == <>(pc = "done")
=============================================================================
