------------------------------- MODULE Edit -------------------------------
(***************************************************************************)
(* Set, Delete and Append: a document edited by a sequence of calls.  Each *)
(* call reads the text it is given, decides on one splice of it, and the   *)
(* result is the text of the next call.  All three are built on Get (the   *)
(* module Lookup); none of them ever parses the whole document.            *)
(***************************************************************************)
EXTENDS Lookup

CONSTANTS Paths,        \* the paths calls are made with
          Values        \* the texts that are set and appended

ASSUME CallsAssumption == /\ Paths \subseteq Seq(Seq(STRING))
                          /\ Values \subseteq Seq(STRING)

VARIABLES document,     \* the text, in its present state
          given,        \* the text the last call was given
          call,         \* the last call: its name, path and value
          edit          \* the last splice, or the error returned instead

editVars == <<document, given, call, edit>>

\* The splice that turns a document into the result of a call: the bytes of
\* [from, to) give way to text.
Splice(from, to, text) ==
  [err |-> "none", from |-> from, to |-> to, text |-> text]

\* A call that returns an error, or that reports it has found nothing.
Refused(err) == [err |-> err, from |-> 1, to |-> 1, text |-> <<>>]

Spliced(d, e) == SubSeq(d, 1, e.from - 1) \o e.text \o SubSeq(d, e.to, Len(d))

---------------------------------------------------------------------------
\* The greatest element of a set of positions.
Latest(S) == IF S = {} THEN None
             ELSE CHOOSE p \in S : \A r \in S : r =< p

\* lastToken: the last byte of [lo, hi) that is not whitespace.
LastToken(d, lo, hi) == Latest({p \in lo .. hi - 1 : d[p] \notin Blank})

\* Mutant of FindTokenStart: the search does not start at hi.
FindTokenStartAnywhere(d, hi, c) ==
  LET p == Latest({r \in 1 .. Len(d) : d[r] \in {c, "[", "{"}})
  IN  IF p # None /\ d[p] = c THEN p ELSE 1

\* findTokenStart: the last token c before hi, the start of the data when a
\* container opens after it.
FindTokenStart(d, hi, c) ==
  LET p == Latest({r \in 1 .. hi - 1 : d[r] \in {c, "[", "{"}})
  IN  IF p # None /\ d[p] = c THEN p ELSE 1

\* The strings of the object in [lo, hi) that findKeyStart stops at, by their
\* opening quotes: those that end, with a token behind them.  Blocks are passed.
StringsMet(d, lo, hi) ==
  LET first == NextToken(d, lo, hi)
      from[i \in Nat] ==
        LET close == StringEnd(d, i + 1, hi, d[i])
            after == IF close = None THEN None ELSE NextToken(d, close + 1, hi)
            end == BlockEnd(d, i, hi, d[i], IF d[i] = "{" THEN "}" ELSE "]")
            Step ==
              CASE d[i] \in Quotes ->
                     (CASE close = None -> from[i + 2]
                        [] close # None /\ after = None -> from[close + 2]
                        [] OTHER -> <<i>> \o from[after + 1])
                [] d[i] \in {"{", "["} ->
                     from[IF end = None THEN i + 1 ELSE end + 1]
                [] OTHER -> from[i + 1]
        IN  IF i >= hi THEN <<>> ELSE Step
  IN  IF first = None THEN <<>>
      ELSE from[IF d[first] \in {"{", "["} THEN first + 1 ELSE first]

UnescapeStackBufSize == 64

\* unescape is given stackbuf, and uses it for a text that needs it and fits.
InStackBuf(b) ==
  (\E k \in 1 .. Len(b) : b[k] = Backslash) /\ Len(b) =< UnescapeStackBufSize

\* What unescape has written when it returns: all of b, or what comes before a
\* malformed escape.
Written(b) ==
  Unescape(SubSeq(b, 1, Latest({n \in 0 .. Len(b) :
                                  Unescape(SubSeq(b, 1, n)) # BadText})))

\* The component as it reads once the bodies of some strings were unescaped.
\* Unescaped in stackbuf it is a string that shares its bytes
\* (bytesToString of bytes_unsafe.go), and each of these bodies was unescaped
\* to the same place, over whatever it held.
Wanted(component, bodies) ==
  LET key == Unescape(component)
      Writers(k) == {m \in 1 .. Len(bodies) : /\ InStackBuf(bodies[m])
                                              /\ k =< Len(Written(bodies[m]))}
  IN  CASE key = BadText          -> component
        [] ~InStackBuf(component) -> key
        [] OTHER -> [k \in 1 .. Len(key) |->
                       IF Writers(k) = {} THEN key[k]
                       ELSE Written(bodies[Latest(Writers(k))])[k]]

\* findKeyStart: the opening quote of the first of these strings that is a key
\* and reads like the component does by then.
FindKeyStart(d, lo, hi, component) ==
  LET met == StringsMet(d, lo, hi)
      Closing(n) == StringEnd(d, met[n] + 1, hi, d[met[n]])
      Body(n) == Text(d, met[n] + 1, Closing(n))
      Named(n) ==
        /\ d[NextToken(d, Closing(n) + 1, hi)] = ":"
        /\ Unescape(Body(n)) = Wanted(component, [m \in 1 .. n |-> Body(m)])
      n == First({m \in 1 .. Len(met) : Named(m)})
  IN  IF n = None THEN None ELSE met[n]

---------------------------------------------------------------------------
\* What Delete and Append say when there is nothing to edit.
NotFound == Refused("KeyPathNotFound")

\* Mutant of Trim: the comma left before a closing bracket stays.
TrimObjectsOnly(d, from, to, closing) ==
  LET end == Len(d) + 1
      stop == TokenEnd(d, to, end)
      next == NextToken(d, stop, end)
      comma == FindTokenStart(d, from, ",")
      commaFollows == next # None /\ d[next] = ","
      isLast == ~commaFollows /\ d[stop] = closing /\ d[comma] = ","
      dropTo == IF commaFollows THEN next + 1 ELSE to
      before == LastToken(d, 1, IF isLast THEN comma ELSE from)
      after == NextToken(d, dropTo, end)
      dangling == /\ before # None /\ d[before] = ","
                  /\ after # None /\ d[after] = "}"
  IN  IF stop >= end THEN NotFound
      ELSE Splice(IF dangling THEN before ELSE before + 1, dropTo, <<>>)

\* The two ends of a deletion, brought to the commas around it: the part in
\* [from, to) is dropped with the comma after it, else, when it is the last
\* one before the closing symbol, with the comma before it.
Trim(d, from, to, closing) ==
  LET end == Len(d) + 1
      stop == TokenEnd(d, to, end)
      next == NextToken(d, stop, end)
      comma == FindTokenStart(d, from, ",")
      commaFollows == next # None /\ d[next] = ","
      isLast == ~commaFollows /\ d[stop] = closing /\ d[comma] = ","
      dropTo == IF commaFollows THEN next + 1 ELSE to
      before == LastToken(d, 1, IF isLast THEN comma ELSE from)
      after == NextToken(d, dropTo, end)
      dangling == /\ before # None /\ d[before] = ","
                  /\ after # None /\ d[after] \in {"}", "]"}
  IN  IF stop >= end THEN NotFound
      ELSE Splice(IF dangling THEN before ELSE before + 1, dropTo, <<>>)

DeleteElement(d, element) ==
  IF element.err # "none" THEN NotFound
  ELSE Trim(d, StartOf(element), element.end, "]")

\* Where the member a path names is looked for: the value of the path before
\* it, found by Get.
WindowOf(v) ==
  IF v.err = "none" THEN <<StartOf(v), v.end>> ELSE NoWindow

Scope(d, keys) ==
  IF Len(keys) = 1 THEN <<1, Len(d) + 1>>
  ELSE WindowOf(Get(d, SubSeq(keys, 1, Len(keys) - 1)))

\* The value of the member is found by Get, its key once more by findKeyStart.
DeleteFound(d, key, member) ==
  IF key = None \/ member.err # "none" THEN NotFound
  ELSE Trim(d, key, member.end, "}")

DeleteMember(d, scope, name) ==
  IF scope = NoWindow THEN NotFound
  ELSE DeleteFound(d, FindKeyStart(d, scope[1], scope[2], name),
                   GetIn(d, <<name>>, scope[1], scope[2]))

Delete(d, keys) ==
  IF keys = <<>> THEN Splice(1, Len(d) + 1, <<>>)
  ELSE IF IsIndexForm(keys[Len(keys)]) THEN DeleteElement(d, Get(d, keys))
  ELSE DeleteMember(d, Scope(d, keys), keys[Len(keys)])

---------------------------------------------------------------------------
\* createInsertComponent: the value within fresh containers for what is left
\* of the path.
MemberName(key) == <<Quote>> \o key \o <<Quote, ":">>

Wrapped(key, text) ==
  IF IsIndexForm(key) THEN <<"[">> \o text \o <<"]">>
  ELSE <<"{">> \o MemberName(key) \o text \o <<"}">>

\* What stands at the first component of keys.
Inside(keys, value) ==
  LET inside[k \in 1 .. Len(keys)] ==
        IF k = Len(keys) THEN value
        ELSE Wrapped(keys[k + 1], inside[k + 1])
  IN  inside[1]

\* calcAllocateSpace: the size of the buffer the component is written to.
AllocatedSpace(keys, value, comma, object) ==
  LET isIndex == IsIndexForm(keys[1])
      size[k \in 1 .. Len(keys)] ==
        IF k = 1 THEN Len(value)
        ELSE size[k - 1] + (IF IsIndexForm(keys[k]) THEN 2 ELSE Len(keys[k]) + 5)
  IN  size[Len(keys)]
        + (IF comma THEN 1 ELSE 0)
        + (CASE isIndex /\ ~comma -> 2
             [] isIndex /\ comma  -> IF object THEN 1 ELSE 0
             [] OTHER             -> Len(keys[1]) + (IF object THEN 5 ELSE 3))

\* The text as the buffer holds it; what is not written stays a zero byte.
Buffered(text, size) ==
  [k \in 1 .. size |-> IF k =< Len(text) THEN text[k] ELSE "nul"]

\* The first component has no brackets of its own when it joins the parts of
\* an existing container.  (No caller asks for a comma and an object at once.)
InsertComponent(keys, value, comma, object) ==
  LET inside == Inside(keys, value)
      text == CASE IsIndexForm(keys[1]) /\ ~comma -> <<"[">> \o inside \o <<"]">>
                [] IsIndexForm(keys[1]) /\ comma  -> inside
                [] ~IsIndexForm(keys[1]) /\ object ->
                     Wrapped(keys[1], inside)
                [] OTHER -> MemberName(keys[1]) \o inside
  IN  Buffered((IF comma THEN <<",">> ELSE <<>>) \o text,
               AllocatedSpace(keys, value, comma, object))

---------------------------------------------------------------------------
\* How many components of the path lead somewhere.
Depth(d, keys) ==
  Latest({n \in 1 .. Len(keys) :
            \A k \in 1 .. n : Get(d, SubSeq(keys, 1, k)).err = "none"})

\* A missing index of the root array: the value goes before the bracket, in
\* the place of a comma that trails there; an empty array is written anew.
AppendToRoot(d, first, keys, value) ==
  LET end == BlockEnd(d, first, Len(d) + 1, "[", "]")
      close == end - 1
      last == LastToken(d, first + 1, close)
      trailing == last # None /\ d[last] = ","
      empty == \/ last = None
               \/ trailing /\ LastToken(d, first + 1, last) = None
  IN  CASE end = None -> Refused("MalformedArray")
        [] end # None /\ empty ->
             Splice(first, end, InsertComponent(keys, value, FALSE, FALSE))
        [] OTHER ->
             Splice(IF trailing THEN last ELSE close, close,
                    InsertComponent(keys, value, TRUE, FALSE))

\* Set when nothing of the path exists.
SetAtRoot(d, keys, value) ==
  LET first == NextToken(d, 1, Len(d) + 1)
      last == LastToken(d, 1, Len(d) + 1)
      second == NextToken(d, first + 1, Len(d) + 1)
      isIndex == IsIndexForm(keys[1])
      Coerced(object) ==
        Splice(first, last + 1, InsertComponent(keys, value, FALSE, object))
      comma == second = None \/ d[second] # "}"
  IN  CASE first = None -> NotFound
        [] first # None /\ d[first] = "{" /\ isIndex -> Coerced(FALSE)
        [] first # None /\ d[first] = "{" /\ ~isIndex ->
             Splice(last, last, InsertComponent(keys, value, comma, FALSE))
        [] first # None /\ d[first] = "[" /\ isIndex ->
             AppendToRoot(d, first, keys, value)
        [] first # None /\ d[first] = "[" /\ ~isIndex /\ keys[1] # <<>> ->
             Coerced(TRUE)
        [] OTHER -> NotFound

\* Set when the path exists down to the value found; rest is left of it.
SetBelow(d, found, rest, value) ==
  LET start == StartOf(found)
      isIndex == IsIndexForm(rest[1])
      next == NextToken(d, start + 1, Len(d) + 1)
      first == IF next = None THEN start ELSE next
      mismatch == \/ isIndex /\ d[start] = "{"
                  \/ ~isIndex /\ d[start] = "["
      joins == \/ d[start] = "{" /\ d[first] # "}"
               \/ d[start] = "[" /\ d[first] # "]" /\ isIndex
  IN  CASE mismatch ->
             Splice(start, found.end,
                    InsertComponent(rest, value, FALSE, ~isIndex))
        [] ~mismatch /\ joins ->
             Splice(found.end - 1, found.end - 1,
                    InsertComponent(rest, value, TRUE, FALSE))
        [] OTHER ->
             Splice(start, found.end,
                    InsertComponent(rest, value, FALSE, TRUE))

\* Set when only the first components of the path lead somewhere.
SetMissing(d, keys, value, depth) ==
  IF depth = 0 THEN SetAtRoot(d, keys, value)
  ELSE SetBelow(d, Get(d, SubSeq(keys, 1, depth)),
                SubSeq(keys, depth + 1, Len(keys)), value)

\* Mutant of SetAt: every error of the lookup is returned.
SetExistingOnly(d, keys, value, found) ==
  IF found.err # "none" THEN Refused(found.err)
  ELSE Splice(StartOf(found), found.end, value)

\* Set, given what Get finds at the path.
SetAt(d, keys, value, found) ==
  CASE found.err = "none"            -> Splice(StartOf(found), found.end, value)
    [] found.err = "KeyPathNotFound" -> SetMissing(d, keys, value, Depth(d, keys))
    [] OTHER                         -> Refused(found.err)

Set(d, keys, value) ==
  IF keys = <<>> THEN NotFound ELSE SetAt(d, keys, value, Get(d, keys))

---------------------------------------------------------------------------
\* Append of append.go: before the closing bracket, or a fresh array.
AppendTo(d, value, found) ==
  LET start == StartOf(found)
      close == found.end - 1
      first == NextToken(d, start + 1, close)
  IN  IF found.type # "Array" \/ close =< start \/ d[close] # "]"
      THEN Refused("MalformedArray")
      ELSE Splice(close, close,
                  (IF first = None THEN <<>> ELSE <<",">>) \o value)

AppendAt(d, keys, value, found) ==
  CASE found.err = "none" -> AppendTo(d, value, found)
    [] found.err = "KeyPathNotFound" /\ keys # <<>> ->
         Set(d, keys, <<"[">> \o value \o <<"]">>)
    [] OTHER -> Refused(found.err)

AppendValue(d, keys, value) == AppendAt(d, keys, value, Get(d, keys))

---------------------------------------------------------------------------
NoCall == [name |-> "none", path |-> <<>>, value |-> <<>>]

\* A call returns the spliced text; the caller of one that returns an error
\* keeps what it has.
Call(name, keys, value, e) ==
  /\ call' = [name |-> name, path |-> keys, value |-> value]
  /\ edit' = e
  /\ given' = document
  /\ document' = IF e.err = "none" THEN Spliced(document, e) ELSE document

SetCall == \E keys \in Paths, value \in Values :
             Call("Set", keys, value, Set(document, keys, value))

DeleteCall == \E keys \in Paths :
                Call("Delete", keys, <<>>, Delete(document, keys))

AppendCall == \E keys \in Paths, value \in Values :
                Call("Append", keys, value, AppendValue(document, keys, value))

EditInit == /\ document \in Seq(STRING)
            /\ given = document
            /\ call = NoCall
            /\ edit = Refused("none")

EditNext == SetCall \/ DeleteCall \/ AppendCall

EditSpec == EditInit /\ [][EditNext]_editVars

---------------------------------------------------------------------------
\* A member is deleted by two scans of the object: Get finds where its value
\* ends, findKeyStart where its key begins.
DeletesMember == /\ call.name = "Delete"
                 /\ call.path # <<>> /\ ~IsIndexForm(call.path[Len(call.path)])

\* Whatever the text, JSON or not, no slice a call takes is out of range, and
\* what it replaces is a window of the text (Set, Append, and Delete of an
\* element).  The two ends of a deleted member are in range but not always in
\* order: in {"x":{}"a":1 "z"a":2}, which is no JSON, findKeyStart loses its
\* way behind the block and finds the key "a" behind the value that Get finds.
SplicesInRange == /\ edit.from \in 1 .. Len(given) + 1
                  /\ edit.to \in 1 .. Len(given) + 1
                  /\ ~DeletesMember => edit.from =< edit.to

\* A text that is one value and ends it itself, with its own bracket or quote.
EndsItself(text) ==
  LET v == ClosestValue(text, 1, Len(text) + 1)
  IN  /\ text # <<>> /\ text[1] \in Quotes \cup {"[", "{"}
      /\ v.err = "none" /\ v.end = Len(text) + 1

Reads(v, text) == v.err = "none" /\ Text(document, StartOf(v), v.end) = text

\* Only the last component may be an index.
InNamedPlace(path) == \A k \in 1 .. Len(path) - 1 : ~IsIndexForm(path[k])

\* Whatever the text, JSON or not, what Set puts in the place of a value that
\* Get found is what Get finds there afterwards (internalGet, setConfig).  Below
\* an array element this holds of JSON only: a byte set within what tokenEnd
\* takes for a scalar, as in [1{"a":1, changes where the element ends.  And a
\* number would run on into what follows it.
SetIsRead ==
  /\ call.name = "Set" /\ call.path # <<>> /\ InNamedPlace(call.path)
  /\ EndsItself(call.value)
  /\ Get(given, call.path).err = "none"
  => Reads(Get(document, call.path), call.value)
=============================================================================
