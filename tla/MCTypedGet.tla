----------------------------- MODULE MCTypedGet -----------------------------
(***************************************************************************)
(* Conversions for TLC.  Each part runs alone on all its short inputs:     *)
(* literals around every boundary of an 8-bit integer, sequences of        *)
(* escapes, path expressions of a few bytes.  Then the typed getters run   *)
(* all of them, one after the other, on documents.                         *)
(***************************************************************************)
EXTENDS TypedGet, JsonTree

LOCAL Seqs == INSTANCE SequencesExt

CONSTANTS LiteralLength,   \* of the literals
          UnitCount,       \* escapes and letters in a row
          PathLength       \* bytes of an arbitrary path expression

VARIABLES meaning          \* what the input stands for, as far as it was made
                           \* to stand for something

mcVars == <<typedVars, meaning>>

MCTenTo == [k \in 0 .. 2 |-> <<1, 10, 100>>[k + 1]]

UpTo(S, length) == UNION {[1 .. k -> S] : k \in 0 .. length}

Flat(s) == Seqs!FlattenSeq(s)

---------------------------------------------------------------------------
LiteralBytes == {"0", "1", "2", "5", "6", "8", "-", "x"}
Literals == UpTo(LiteralBytes, LiteralLength)

\* The pieces of an encoded string, and the code points they are; -1 for one
\* that is malformed wherever it stands.
Hex(a, b, c, d) == <<Backslash, "u", a, b, c, d>>
Unit(bytes, code) == [bytes |-> bytes, code |-> code]
HighHalf == Hex("d", "8", "3", "d")
Units == {Unit(<<"a">>, 97), Unit(<<Backslash, "n">>, 10), Unit(<<"u">>, 117),
          Unit(<<Backslash, Backslash>>, 92), Unit(<<Backslash, Quote>>, 34),
          Unit(Hex("0", "0", "6", "1"), 97), Unit(Hex("0", "0", "e", "9"), 233),
          Unit(Hex("2", "0", "a", "c"), 8364), Unit(Hex("f", "f", "f", "f"), 65535),
          Unit(HighHalf, 55357), Unit(Hex("d", "e", "0", "0"), 56832),
          Unit(<<Backslash, "g">>, -1), Unit(<<Backslash, "u", "0", "g">>, -1)}
Whole == Unit(<<>>, 0)
Cut == {Whole, Unit(<<Backslash>>, -1), Unit(<<Backslash, "u", "0", "0", "6">>, -1)}

Bytes(units) == Flat([k \in 1 .. Len(units) |-> units[k].bytes])

\* What they stand for together: halves of a pair that do not meet are replaced,
\* and nothing else is lost.
Decoding(units) ==
  LET codes == [k \in 1 .. Len(units) |-> units[k].code]
      Pair(k) == /\ k \in 1 .. Len(units) - 1
                 /\ High(codes[k]) /\ Low(codes[k + 1])
      Each(k) == CASE Pair(k) -> <<Combined(codes[k], codes[k + 1])>>
                   [] k > 1 /\ Pair(k - 1) -> <<>>
                   [] OTHER -> IF High(codes[k]) \/ Low(codes[k])
                               THEN <<RuneError>> ELSE <<codes[k]>>
  IN  IF \E k \in 1 .. Len(units) : codes[k] = -1 THEN <<-1>>
      ELSE Flat([k \in 1 .. Len(units) |-> Each(k)])

PlainBytes == {"a", Quote, Backslash, "nl", "soh", "/"}

---------------------------------------------------------------------------
\* All path expressions up to a length, by grammar, with the components they mean.
KeyBytes == {"$", "0", "a", Backslash, "*", "nl"}
Spelling(bytes, parts) == [bytes |-> bytes, parts |-> parts]
Indices == {Spelling(<<"[">> \o i \o <<"]">>, << <<"[">> \o i \o <<"]">> >>) :
              i \in (UpTo({"0"}, PathLength - 2) \ {<<>>}) \cup {<<"*">>}}
QuotedPieces == {Unit(<<"a">>, "a"), Unit(<<".">>, "."), Unit(<<"[">>, "["),
                 Unit(<<"]">>, "]"), Unit(<<"$">>, "$"), Unit(<<"0">>, "0"),
                 Unit(<<"*">>, "*"), Unit(<<Backslash, Quote>>, Quote),
                 Unit(<<Backslash, Backslash>>, Backslash)}
Quoted(units) == Spelling(<<Quote>> \o Bytes(units) \o <<Quote>>,
                          << [k \in 1 .. Len(units) |-> units[k].code] >>)

Join(b, c, between) == Spelling(b.bytes \o between \o c.bytes, b.parts \o c.parts)
Short(S) == {b \in S : Len(b.bytes) =< PathLength}

Keys == Short({Spelling(k, <<k>>) : k \in UpTo(KeyBytes, PathLength) \ {<<>>}}
                \cup {Quoted(u) : u \in UpTo(QuotedPieces, 3)})
Segments == Short(Keys \cup Indices
                  \cup {Join(b, c, <<>>) : b \in Short(Keys), c \in Indices})
Dots(B, C) == Short({Join(b, c, <<".">>) :
                       b \in {d \in B : Len(d.bytes) < PathLength - 1},
                       c \in {d \in C : Len(d.bytes) < PathLength - 1}})
Bodies == Segments \cup Dots(Segments, Segments)
            \cup Dots(Dots(Segments, Segments), Segments)
Dotted == Spelling(<<"$", ".">>, <<>>)
Dollar == Spelling(<<"$">>, <<>>)
Legal == Short({Dollar} \cup {b \in Bodies : b.bytes[1] # "$"}
               \cup {Join(Dotted, b, <<>>) : b \in Bodies}
               \cup {Join(Dollar, b, <<>>) : b \in {c \in Bodies : c.bytes[1] = "["}})
Meant == [t \in {b.bytes : b \in Legal} |-> (CHOOSE b \in Legal : b.bytes = t).parts]

NoPath == << <<"no">>, <<"path">> >>

Expressions == UpTo(KeyBytes \cup {".", "[", "]", Quote}, PathLength)

---------------------------------------------------------------------------
A == <<"a">>
Dot == <<".">>
IndexOf0 == <<"[", "0", "]">>
DocLeaves == {<<"1", "2", "7">>, <<"1", "2", "8">>, <<"-", "1", "2", "8">>,
              <<"-", "1", "2", "9">>, <<"2", "5", "5">>, <<"2", "5", "6">>,
              <<"-", "1">>, <<"-">>, <<"0", "1">>, <<"t">>, <<"n">>,
              <<Quote, "a", Quote>>, <<Quote, Backslash, "n", Quote>>,
              <<Quote>> \o HighHalf \o <<Quote>>,
              <<Quote, Backslash, "g", Quote>>}

Placed(leaf) == {leaf, ObjectOf(<<Member(A, leaf)>>),
                 ObjectOf(<<Member(A, ObjectOf(<<Member(A, leaf)>>))>>),
                 ArrayOf(<<ArrayOf(<<leaf>>)>>),
                 ObjectOf(<<Member(Dot, ArrayOf(<<Leaf(<<"1">>), leaf>>))>>)}

\* Expressions and the paths they mean.
Calls == {Dollar, Spelling(<<"$", ".", "a">>, <<A>>),
          Spelling(<<"a", ".", Quote, "a", Quote>>, <<A, A>>),
          Spelling(<<"$", ".", Quote, ".", Quote, "[", "1", "]">>,
                   <<Dot, <<"[", "1", "]">> >>),
          Spelling(<<"[", "0", "]", "[", "0", "]">>, <<IndexOf0, IndexOf0>>),
          Spelling(<<"a", ".">>, NoPath)}

Getters == {"GetInt", "GetUint64", "GetString", "GetBoolean", "GetUnsafeString"}

\* The value the path means in the document; Nothing if there is none, NotJson
\* if the expression means no path.
Target(doc, path) ==
  LET places == Addressed(doc, path, <<>>, 1)
  IN  CASE path = NoPath -> NotJson
        [] path # NoPath /\ places = {} -> Nothing
        [] OTHER -> FirstPlace(places).val

---------------------------------------------------------------------------
Alone(lit, name, bytes, expr, stands) ==
  /\ literal = lit /\ getter = name /\ source = bytes /\ expression = expr
  /\ meaning = stands
  /\ text = <<>> /\ stage = "alone"

\* Which of the machines is started.
Running(number1, string, path) ==
  reading = number1 /\ decoding = string /\ parsing = path

NumberAlone == \E lit \in Literals, name \in {"GetInt", "GetUint64"} :
                 Alone(lit, name, <<>>, <<>>, <<>>) /\ Running("sign", "idle", "idle")

StringAlone ==
  /\ \/ \E u \in UpTo(Units, UnitCount), c \in Cut :
          LET all == IF c = Whole THEN u ELSE Append(u, c)
          IN  Alone(<<>>, "GetString", Bytes(all), <<>>, Decoding(all))
     \/ \E t \in UpTo(PlainBytes, 3) :
          Alone(<<>>, "GetString", Text(Escape(t), 2, Len(Escape(t))), <<>>, CodesOf(t))
  /\ Running("idle", "copy", "idle")

PathAlone == \E expr \in Expressions :
               /\ Alone(<<>>, "Get", <<>>, expr,
                        IF expr \in DOMAIN Meant THEN Meant[expr] ELSE NoPath)
               /\ Running("idle", "idle", "root")

Composed ==
  \E leaf \in DocLeaves, c \in Calls : \E doc \in Placed(Leaf(leaf)) :
    /\ text = Render(doc, <<>>) /\ meaning = Target(doc, c.parts)
    /\ expression = c.bytes /\ getter \in Getters
    /\ literal = <<>> /\ source = <<>> /\ stage = "compile"
    /\ Running("idle", "idle", "root")

MCInit == /\ NumberAlone \/ StringAlone \/ PathAlone \/ Composed
          /\ TypedInit

MCNext == TypedNext /\ UNCHANGED meaning

MCSpec == MCInit /\ [][MCNext]_mcVars

---------------------------------------------------------------------------
\* A string is decoded to the code points it encodes: escapes are found behind
\* escapes, a pair becomes one code point, half a pair U+FFFD and no more, and
\* a malformed escape anywhere fails the whole.  What Escape has written is
\* decoded to what it was given.
TextIsDecoded ==
  stage = "alone" /\ parsing = "idle" /\ reading = "idle" =>
    /\ decoding = "done" => decoded = meaning
    /\ decoding = "failed" => meaning = <<-1>>

\* The expressions that parse are those of the grammar, and each gives the
\* components it spells: keys in quotes unescaped and never taken for indices
\* or separators, brackets as they are (ParsePath, SYS-REQ-114).
PathIsParsed ==
  stage = "alone" /\ parsing = "done" =>
    IF meaning = NoPath THEN pathError # "none" /\ components = <<>>
    ELSE pathError = "none" /\ components = meaning

TypeOf(t) == CASE t.kind # "leaf"     -> "Container"
               [] IsStringText(t.text) -> "String"
               [] t.text = <<"n">>     -> "Null"
               [] t.text = <<"t">>     -> "Boolean"
               [] OTHER                -> "Number"

\* What a string's bytes stand for; {} if one escape is malformed.
Strings == UNION {[1 .. k -> Units] : k \in 0 .. 1}
Decodings(bytes) ==
  {Decoding(u) : u \in {s \in Strings : Bytes(s) = bytes}} \ {<<-1>>}

\* The answer there should be: [err, value] with the converted value.
Right(v) == [err |-> "none", value |-> v]
Wrong(err) == [err |-> err, value |-> <<>>]

RightNumber(bytes, least, most, tooLow) ==
  CASE ~IsInteger(bytes) -> Wrong("MalformedValue")
    [] IsInteger(bytes) /\ Atoi(bytes) < least -> Wrong(tooLow)
    [] IsInteger(bytes) /\ Atoi(bytes) > most -> Wrong("Overflow")
    [] OTHER -> Right(Atoi(bytes))

RightString(bytes) == IF Decodings(bytes) = {} THEN Wrong("MalformedValue")
                      ELSE Right(CHOOSE d \in Decodings(bytes) : TRUE)

RightAnswer(t) ==
  CASE t = NotJson -> Wrong("MalformedPath")
    [] t = Nothing -> Wrong("KeyPathNotFound")
    [] t \notin {NotJson, Nothing} /\ getter = "GetUnsafeString" ->
         Right(Unquoted(Render(t, <<>>)))
    [] OTHER ->
         CASE TypeOf(t) # Wanted ->
                Wrong(IF TypeOf(t) = "Null" THEN "NullValue" ELSE "WrongType")
           [] getter = "GetBoolean" -> Right(t.text)
           [] getter = "GetString" -> RightString(Unquoted(t.text))
           [] getter = "GetInt" -> RightNumber(t.text, - Half, MaxInt, "Overflow")
           [] getter = "GetUint64" -> RightNumber(t.text, 0, MaxUint, "MalformedValue")

\* A typed getter through a compiled path answers with the value of the tree at
\* the path the expression means, converted, or with the error that says what is
\* in the way: the path, the place, the type, the spelling or the range
\* (GetInt, GetUint64, GetString, GetBoolean, GetUnsafeString; SYS-REQ-002,
\* SYS-REQ-003, SYS-REQ-005, SYS-REQ-011, SYS-REQ-114).
TypedAnswer ==
  stage = "done" =>
    LET right == RightAnswer(meaning)
    IN  /\ answer.err = right.err
        /\ answer.err = "none" =>
             CASE getter \in {"GetInt", "GetUint64"} -> number.value = right.value
               [] getter = "GetString" -> decoded = right.value
               [] OTHER -> answer.value = right.value
=============================================================================
