----------------------------- MODULE JsonText -----------------------------
(***************************************************************************)
(* JSON text as the parser sees it: a sequence of bytes, and the scanners  *)
(* of parser.go that every operation is built from.  A byte is named by    *)
(* the character it is; "nl" stands for the whitespace bytes \n, \r and    *)
(* \t, and the literals true, false and null are the single bytes "t",     *)
(* "f" and "n".  Positions count from 1, a slice is the window [lo, hi)    *)
(* with hi exclusive, and None plays the part of the code's -1.            *)
(***************************************************************************)
EXTENDS Integers, Sequences, FiniteSets

CONSTANTS AllowSingleQuotes,    \* Config.AllowSingleQuotes
          AllowUnknownEscapes   \* Config.AllowUnknownEscapes

ASSUME ConfigAssumption == /\ AllowSingleQuotes \in BOOLEAN
                           /\ AllowUnknownEscapes \in BOOLEAN

None == 0

NoQuote == ""

Quote == "\""
Backslash == "\\"

DigitNames == <<"0", "1", "2", "3", "4", "5", "6", "7", "8", "9">>

Digits == {DigitNames[k] : k \in 1 .. 10}

\* isJSONWhitespace
Blank == {" ", "nl"}

\* The bytes that open and close a string under the configuration.
Quotes == {Quote} \cup (IF AllowSingleQuotes THEN {"'"} ELSE {})

\* The least element of a set of positions.
First(S) == IF S = {} THEN None
            ELSE CHOOSE p \in S : \A r \in S : p =< r

Text(d, lo, hi) == SubSeq(d, lo, hi - 1)

---------------------------------------------------------------------------
\* nextToken: the first byte of [i, hi) that is not whitespace.
NextToken(d, i, hi) == First({p \in i .. hi - 1 : d[p] \notin Blank})

\* tokenEnd: where a scalar that starts at i ends.
TokenEnd(d, i, hi) ==
  LET e == First({p \in i .. hi - 1 : d[p] \in Blank \cup {",", "}", "]"}})
  IN  IF e = None THEN hi ELSE e

\* The backslashes of [i, p) that end just before p are even in number.
EvenRun(d, i, p) ==
  \E k \in i .. p : /\ \A j \in k .. p - 1 : d[j] = Backslash
                    /\ k > i => d[k - 1] # Backslash
                    /\ (p - k) % 2 = 0

\* stringEnd: the position of the quote q that closes a string whose body
\* starts at i.  (The code returns the position after it.)
StringEnd(d, i, hi, q) ==
  First({p \in i .. hi - 1 : d[p] = q /\ EvenRun(d, i, p)})

\* Where a byte stands with respect to strings: outside, or inside one opened
\* by a quote, perhaps just after a backslash.
Outside == [quote |-> NoQuote, escaped |-> FALSE]
Modes == {Outside} \cup [quote : Quotes, escaped : BOOLEAN]

\* How a byte c changes that.
Reading(c) ==
  [m \in Modes |->
     CASE m = Outside  -> IF c \in Quotes
                          THEN [quote |-> c, escaped |-> FALSE] ELSE m
       [] m.escaped    -> [m EXCEPT !.escaped = FALSE]
       [] OTHER        -> IF c = m.quote THEN Outside
                          ELSE [m EXCEPT !.escaped = (c = Backslash)]]

\* blockEnd: the position after the symbol that closes the block opened at i.
\* Symbols inside strings do not count, and nothing follows an open string.
BlockEnd(d, i, hi, open, close) ==
  LET mode[p \in i .. hi] ==
        IF p = i THEN Outside ELSE Reading(d[p - 1])[mode[p - 1]]
      Count(symbol, p) ==
        Cardinality({r \in i .. p : d[r] = symbol /\ mode[r] = Outside})
      end == First({p \in i .. hi - 1 : /\ d[p] = close
                                        /\ mode[p] = Outside
                                        /\ Count(open, p) = Count(close, p)})
  IN  IF end = None THEN None ELSE end + 1

---------------------------------------------------------------------------
\* unescape, for every escape but \uXXXX: the text a key's bytes stand for, or
\* BadText when an escape is malformed.
BadText == <<"bad">>

Escapable == {Quote, Backslash, "/", "b", "f", "n", "r", "t"}
               \cup (IF AllowSingleQuotes THEN {"'"} ELSE {})

\* backslashCharEscapeTable, on the bytes of the model
EscapedByte(c) == CASE c \in {"n", "r", "t"} -> "nl"
                    [] c = "b" -> "bs"
                    [] c = "f" -> "ff"
                    [] OTHER   -> c

EscapeAt(b, k) == b[k] = Backslash /\ EvenRun(b, 1, k)

Unescape(b) ==
  LET text[k \in 0 .. Len(b)] ==
        CASE k = 0                             -> <<>>
          [] k > 0 /\ EscapeAt(b, k)           -> text[k - 1]
          [] k > 1 /\ EscapeAt(b, k - 1)       ->
               Append(text[k - 1], EscapedByte(b[k]))
          [] OTHER                             -> Append(text[k - 1], b[k])
      legal == \A k \in 1 .. Len(b) :
                 EscapeAt(b, k) => /\ k < Len(b)
                                   /\ \/ b[k + 1] \in Escapable
                                      \/ AllowUnknownEscapes /\ b[k + 1] # "u"
  IN  IF legal THEN text[Len(b)] ELSE BadText

---------------------------------------------------------------------------
\* A path component is a sequence of bytes; one that starts with a bracket
\* asks for an array element.
IsIndexForm(key) == Len(key) > 0 /\ key[1] = "["

DigitValue(c) == CHOOSE n \in 0 .. 9 : DigitNames[n + 1] = c

IndexBody(key) == SubSeq(key, 2, Len(key) - 1)

\* strconv.Atoi
Signed(c) == c # <<>> /\ c[1] \in {"+", "-"}

Unsigned(c) == IF Signed(c) THEN Tail(c) ELSE c

IsInteger(c) == /\ Unsigned(c) # <<>>
                /\ \A k \in 1 .. Len(Unsigned(c)) : Unsigned(c)[k] \in Digits

Atoi(c) ==
  LET digits == Unsigned(c)
      value[k \in 0 .. Len(digits)] ==
        IF k = 0 THEN 0 ELSE 10 * value[k - 1] + DigitValue(digits[k])
  IN  IF c[1] = "-" THEN - value[Len(digits)] ELSE value[Len(digits)]

\* "[n]" for an integer n
IsIndex(key) == /\ IsIndexForm(key)
                /\ Len(key) >= 3
                /\ key[Len(key)] = "]"
                /\ IsInteger(IndexBody(key))

Index(key) == Atoi(IndexBody(key))

---------------------------------------------------------------------------
\* The outcome of reading one value: the window of its text (a string without
\* its quotes; <<0, 0>> for nil), its type, the position after it, the error.
NoWindow == <<0, 0>>

Got(type, window, end) ==
  [type |-> type, window |-> window, end |-> end, err |-> "none"]

Failed(type, end, err) ==
  [type |-> type, window |-> NoWindow, end |-> end, err |-> err]

ScalarType(text) ==
  CASE text[1] \in {"t", "f"} /\ Len(text) = 1  -> "Boolean"
    [] text[1] = "n" /\ Len(text) = 1           -> "Null"
    [] text[1] \in Digits \cup {"-"}            -> "Number"
    [] OTHER                                    -> "Unknown"

\* Mutant of Delimited: what is not closed runs to the end of the data.
DelimitedOrRest(type, i, window, end, err) ==
  Got(type, IF end = None THEN <<i, i + 1>> ELSE window,
      IF end = None THEN i + 1 ELSE end)

\* A value delimited by its own brackets or quotes, or the error when the
\* delimiter that ends it is missing.
Delimited(type, i, window, end, err) ==
  IF end = None THEN Failed(type, i, err) ELSE Got(type, window, end)

GetString(i, end) ==
  Delimited("String", i, <<i + 1, end>>, IF end = None THEN None ELSE end + 1,
            "MalformedString")

GetBlock(type, i, end, err) == Delimited(type, i, <<i, end>>, end, err)

GetScalar(d, i, end) ==
  LET type == IF end = i THEN "Unknown" ELSE ScalarType(Text(d, i, end))
  IN  IF type = "Unknown" THEN Failed("Unknown", i, "UnknownValueType")
      ELSE Got(type, <<i, end>>, end)

\* getType: the value whose first byte is at i.
GetType(d, i, hi) ==
  CASE d[i] \in Quotes -> GetString(i, StringEnd(d, i + 1, hi, d[i]))
    [] d[i] = "["      -> GetBlock("Array", i, BlockEnd(d, i, hi, "[", "]"),
                                   "MalformedArray")
    [] d[i] = "{"      -> GetBlock("Object", i, BlockEnd(d, i, hi, "{", "}"),
                                   "MalformedObject")
    [] OTHER           -> GetScalar(d, i, TokenEnd(d, i, hi))

\* internalGet without a key path: the closest value at or after i.
ClosestValue(d, i, hi) ==
  LET p == NextToken(d, i, hi)
  IN  IF p = None THEN Failed("NotExist", None, "MalformedJson")
      ELSE GetType(d, p, hi)

\* What the callback of searchKeys keeps of the element arrayEach hands it; a
\* string is widened by its quotes, counted back from its end.
ElementWindow(v) ==
  LET length == v.window[2] - v.window[1]
  IN  CASE v.type = "String" -> <<v.end - length - 2, v.end>>
        [] v.type # "String" /\ v.err = "none" -> v.window
        [] OTHER -> NoWindow
=============================================================================
