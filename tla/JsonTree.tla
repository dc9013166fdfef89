----------------------------- MODULE JsonTree -----------------------------
(***************************************************************************)
(* The reference the parsers are compared with: JSON values as trees, the  *)
(* text of a tree, and the places of that text a key path addresses.  It   *)
(* is what encoding/json is to reference_oracle_test.go: nothing here is   *)
(* translated from the parser.                                             *)
(***************************************************************************)
EXTENDS JsonText, FiniteSets

Leaf(text) == [kind |-> "leaf", text |-> text]
ObjectOf(members) == [kind |-> "object", members |-> members]
ArrayOf(items) == [kind |-> "array", items |-> items]
Member(key, val) == [key |-> key, val |-> val]

\* The parts of a container, and what is written before each: an object's key
\* is given as the body of its string, escapes included.
Size(t) == IF t.kind = "object" THEN Len(t.members) ELSE Len(t.items)
Part(t, k) == IF t.kind = "object" THEN t.members[k].val ELSE t.items[k]
Label(t, k, pad) ==
  IF t.kind = "object"
  THEN <<Quote>> \o t.members[k].key \o <<Quote>> \o pad \o <<":">> \o pad
  ELSE <<>>
Brackets(t) == IF t.kind = "object" THEN <<"{", "}">> ELSE <<"[", "]">>

RECURSIVE Render(_, _), UpToPart(_, _, _)

\* The text of t with pad between any two tokens.
Render(t, pad) ==
  IF t.kind = "leaf" THEN t.text
  ELSE IF Size(t) = 0 THEN <<Brackets(t)[1]>> \o pad \o <<Brackets(t)[2]>>
  ELSE UpToPart(t, Size(t), pad) \o Render(Part(t, Size(t)), pad)
         \o pad \o <<Brackets(t)[2]>>

\* The text of t before its k-th part.
UpToPart(t, k, pad) ==
  (IF k = 1 THEN <<Brackets(t)[1]>>
   ELSE UpToPart(t, k - 1, pad) \o Render(Part(t, k - 1), pad)
          \o pad \o <<",">>)
    \o pad \o Label(t, k, pad)

\* The component names the k-th part of t.
Names(component, t, k) ==
  IF t.kind = "object"
  THEN Unescape(t.members[k].key) = component
  ELSE IsIndex(component) /\ Index(component) = k - 1

RECURSIVE Addressed(_, _, _, _)

\* Every place the path leads to in the text of t written from position at:
\* the window of the value there, and the value.  Duplicate keys make several.
Addressed(t, path, pad, at) ==
  IF path = <<>>
  THEN {[window |-> <<at, at + Len(Render(t, pad))>>, val |-> t]}
  ELSE IF t.kind = "leaf" THEN {}
  ELSE UNION {Addressed(Part(t, k), Tail(path), pad,
                        at + Len(UpToPart(t, k, pad)))
              : k \in {n \in 1 .. Size(t) : Names(Head(path), t, n)}}

RECURSIVE UniqueKeys(_)

UniqueKeys(t) ==
  t.kind # "leaf" =>
    /\ \A k \in 1 .. Size(t) : UniqueKeys(Part(t, k))
    /\ t.kind = "object" =>
         \A j, k \in 1 .. Size(t) :
           Unescape(t.members[j].key) = Unescape(t.members[k].key) => j = k

\* The place that comes first in the text.
FirstPlace(places) ==
  CHOOSE a \in places : \A b \in places : a.window[1] =< b.window[1]

\* A window of a value, as Get reports it: a string loses its quotes.
IsStringText(text) == text # <<>> /\ text[1] \in Quotes

Unquoted(text) == IF IsStringText(text) THEN SubSeq(text, 2, Len(text) - 1)
                  ELSE text

UnquotedWindow(text, w) ==
  IF IsStringText(text) THEN <<w[1] + 1, w[2] - 1>> ELSE w
RECURSIVE ParseValue(_, _), ParseParts(_, _, _, _)

\* The tree a text stands for, and the position after it; end is None when
\* the text is not JSON.
NoParse == [val |-> Leaf(BadText), end |-> None]

ParseLeaf(d, i, end) ==
  LET text == Text(d, i, end)
  IN  IF \/ text \in {<<"t">>, <<"f">>, <<"n">>}
         \/ text # <<>> /\ \A k \in 1 .. Len(text) : text[k] \in Digits
      THEN [val |-> Leaf(text), end |-> end]
      ELSE NoParse

ParseValue(d, i) ==
  LET p == NextToken(d, i, Len(d) + 1)
      close == StringEnd(d, p + 1, Len(d) + 1, Quote)
      first == NextToken(d, p + 1, Len(d) + 1)
      Container(closing, empty) ==
        IF first # None /\ d[first] = closing
        THEN [val |-> empty, end |-> first + 1]
        ELSE ParseParts(d, p + 1, closing, <<>>)
  IN  CASE p = None -> NoParse
        [] p # None /\ d[p] = Quote ->
             IF close = None THEN NoParse
             ELSE [val |-> Leaf(Text(d, p, close + 1)), end |-> close + 1]
        [] p # None /\ d[p] = "{" -> Container("}", ObjectOf(<<>>))
        [] p # None /\ d[p] = "[" -> Container("]", ArrayOf(<<>>))
        [] OTHER -> ParseLeaf(d, p, TokenEnd(d, p, Len(d) + 1))

\* The rest of a container whose parts so far are given.
ParseParts(d, i, closing, parts) ==
  LET p == NextToken(d, i, Len(d) + 1)
      close == StringEnd(d, p + 1, Len(d) + 1, Quote)
      colon == NextToken(d, close + 1, Len(d) + 1)
      labelled == closing = "}"
      legal == /\ p # None
               /\ labelled => /\ d[p] = Quote /\ close # None
                              /\ colon # None /\ d[colon] = ":"
      part == ParseValue(d, IF labelled THEN colon + 1 ELSE p)
      next == NextToken(d, part.end, Len(d) + 1)
      all == Append(parts, IF labelled THEN Member(Text(d, p + 1, close), part.val)
                           ELSE part.val)
  IN  CASE ~legal \/ part.end = None \/ next = None -> NoParse
        [] d[next] = "," -> ParseParts(d, next + 1, closing, all)
        [] d[next] = closing ->
             [val |-> IF labelled THEN ObjectOf(all) ELSE ArrayOf(all),
              end |-> next + 1]
        [] OTHER -> NoParse

\* The empty text stands for no document, which is not JSON but what Delete
\* makes of a document it is told to delete as a whole.
Nothing == Leaf(<<>>)
NotJson == Leaf(BadText)

Parsed(d) ==
  LET v == ParseValue(d, 1)
  IN  CASE d = <<>> -> Nothing
        [] d # <<>> /\ v.end # None /\ NextToken(d, v.end, Len(d) + 1) = None ->
             v.val
        [] OTHER -> NotJson
=============================================================================
