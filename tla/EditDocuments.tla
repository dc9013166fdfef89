--------------------------- MODULE EditDocuments ---------------------------
(***************************************************************************)
(* The documents, paths and values of the runs of the editing functions:   *)
(* containers with a first, a middle and a last part to delete, empty      *)
(* ones, ones of the other kind than the path asks for, delimiters inside  *)
(* strings, escaped keys.                                                  *)
(***************************************************************************)
EXTENDS JsonTree

A == <<"a">>
B == <<"b">>
Slash == <<"/">>
EscapedSlash == <<Backslash, "/">>          \* a key body that stands for "/"
Zero == <<"[", "0", "]">>
One == <<"[", "1", "]">>

PathsBasic == {<<A>>, <<B>>, <<A, B>>, <<A, Zero>>, <<Zero>>, <<One>>,
               <<Zero, A>>, <<B, One>>}
PathsEdge == {<<>>, <<Slash>>, <<A, A, A>>, <<A, Zero, Zero>>,
              <<One, Zero>>, << <<"[", "-", "1", "]">> >>}
PathsAll == PathsBasic \cup PathsEdge

N1 == <<"1">>
Str == <<Quote, ",", "}", Quote>>           \* a string of delimiters
ValuesBasic == {N1, Str}
ValuesDelimited == {Str, <<"[", " ", "1", "]">>}

L1 == Leaf(N1)
LStr == Leaf(Str)
Obj(k, v) == ObjectOf(<<Member(k, v)>>)
Pair(k, v, l, w) == ObjectOf(<<Member(k, v), Member(l, w)>>)

DocumentsBasic ==
  {ObjectOf(<<>>), ArrayOf(<<>>), L1, Obj(A, L1), Obj(A, LStr), ArrayOf(<<L1>>),
   ArrayOf(<<L1, LStr>>), ArrayOf(<<LStr, L1, L1>>), Pair(A, L1, B, LStr),
   Obj(A, ObjectOf(<<>>)), Obj(A, ArrayOf(<<>>)),
   Pair(A, Pair(A, L1, B, L1), B, L1), Pair(B, ArrayOf(<<L1, L1>>), A, Obj(B, L1)),
   ArrayOf(<<Obj(A, L1), L1>>), Pair(A, ArrayOf(<<L1>>), B, ArrayOf(<<>>)),
   ObjectOf(<<Member(A, L1), Member(<<"c">>, L1), Member(B, LStr)>>)}
DocumentsEdge ==
  {Obj(EscapedSlash, L1), Pair(A, Obj(A, Obj(A, L1)), EscapedSlash, LStr),
   Obj(A, ArrayOf(<<ArrayOf(<<L1>>), L1>>)), ArrayOf(<<L1, ArrayOf(<<>>)>>),
   ArrayOf(<<ArrayOf(<<LStr, L1>>), ObjectOf(<<>>)>>)}
DocumentsAll == DocumentsBasic \cup DocumentsEdge

BothPads == {<<>>, <<" ", "nl">>}

\* A key of a backslash and a slash, and before it the key this component
\* would stand for if it were an escape.
PathsBackslash == {<< <<Backslash, "/">> >>}
DocumentsBackslash ==
  {Pair(Slash, LStr, <<Backslash, Backslash, "/">>, L1)}
=============================================================================
