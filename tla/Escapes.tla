------------------------------ MODULE Escapes ------------------------------
(***************************************************************************)
(* unescape and Escape of escape.go.  The text is decoded into a buffer no *)
(* longer than itself, one escape at a time; a \uXXXX may take the next    *)
(* one with it, and what is written is the UTF-8 of the code point.  The   *)
(* decoded text is a sequence of code points here, and `room` is what is   *)
(* left of the buffer, in bytes.                                           *)
(***************************************************************************)
EXTENDS JsonText

VARIABLES source,       \* the bytes to decode
          next,         \* where the decoder stands
          decoded,      \* the code points written
          room,         \* the bytes left in the buffer
          decoding,     \* "idle", "copy", "escape", "done" or "failed"
          point         \* what a \u escape stands for: [rune, size]

escapeVars == <<source, next, decoded, room, decoding, point>>

NoPoint == [rune |-> 0, size |-> 0]

EscapesInit == /\ next = 1
               /\ decoded = <<>>
               /\ room = Len(source)
               /\ point = NoPoint

---------------------------------------------------------------------------
Letters == <<"a", "b", "c", "d", "e", "f", "g", "h", "i", "j", "k", "l", "m",
             "n", "o", "p", "q", "r", "s", "t", "u">>

\* The code point a byte is by itself; "soh" stands for the control characters
\* that have no short escape.
CodeOf(c) ==
  CASE c = "soh"     -> 1
    [] c = "bs"      -> 8
    [] c = "nl"      -> 10
    [] c = "ff"      -> 12
    [] c = " "       -> 32
    [] c = Quote     -> 34
    [] c = "'"       -> 39
    [] c = "/"       -> 47
    [] c \in Digits  -> 48 + DigitValue(c)
    [] c = Backslash -> 92
    [] OTHER         -> 96 + CHOOSE k \in 1 .. Len(Letters) : Letters[k] = c

CodesOf(b) == [k \in 1 .. Len(b) |-> CodeOf(b[k])]

\* utf8.EncodeRune: the bytes a code point takes.
Utf8Length(rune) == CASE rune < 128                     -> 1
                      [] rune >= 128 /\ rune < 2048     -> 2
                      [] rune >= 2048 /\ rune < 65536   -> 3
                      [] OTHER                          -> 4

RuneError == 65533
Bad == [rune |-> RuneError, size |-> -1]

\* h2I; the alphabet has no capital letters.
HexDigits == DigitNames \o <<"a", "b", "c", "d", "e", "f">>
IsHex(c) == \E k \in 1 .. 16 : HexDigits[k] = c
HexValue(c) == (CHOOSE k \in 1 .. 16 : HexDigits[k] = c) - 1

\* decodeSingleUnicodeEscape at p, the prefix taken for granted; -1 for a bad one.
Single(p) ==
  IF p + 5 > Len(source) \/ \E k \in 2 .. 5 : ~IsHex(source[p + k]) THEN -1
  ELSE 4096 * HexValue(source[p + 2]) + 256 * HexValue(source[p + 3])
         + 16 * HexValue(source[p + 4]) + HexValue(source[p + 5])

High(r) == 55296 =< r /\ r < 56320
Low(r) == 56320 =< r /\ r =< 57343

Combined(high, low) == 65536 + (high - 55296) * 1024 + (low - 56320)

HasNext(p) == /\ p + 7 =< Len(source)
              /\ source[p + 6] = Backslash /\ source[p + 7] = "u"

\* Mutant of DecodeUnicode: half a pair takes the escape after it with it.
DecodeUnicodeGreedy(p) ==
  LET first == Single(p)
      second == Single(p + 6)
      Lone == [rune |-> RuneError, size |-> 6]
  IN  CASE first = -1 -> Bad
        [] first # -1 /\ ~High(first) /\ ~Low(first) -> [rune |-> first, size |-> 6]
        [] Low(first) \/ (High(first) /\ ~HasNext(p)) -> Lone
        [] High(first) /\ HasNext(p) /\ second = -1 -> Bad
        [] OTHER -> IF Low(second)
                    THEN [rune |-> Combined(first, second), size |-> 12]
                    ELSE [rune |-> RuneError, size |-> 12]

\* decodeUnicodeEscape: a code point of its own, half a pair that stands alone,
\* or a pair.
DecodeUnicode(p) ==
  LET first == Single(p)
      second == Single(p + 6)
      Lone == [rune |-> RuneError, size |-> 6]
  IN  CASE first = -1 -> Bad
        [] first # -1 /\ ~High(first) /\ ~Low(first) -> [rune |-> first, size |-> 6]
        [] Low(first) \/ (High(first) /\ ~HasNext(p)) -> Lone
        [] High(first) /\ HasNext(p) /\ second = -1 -> Bad
        [] OTHER -> IF Low(second)
                    THEN [rune |-> Combined(first, second), size |-> 12]
                    ELSE Lone

---------------------------------------------------------------------------
Write(codes, bytes, consumed) ==
  /\ decoded' = decoded \o codes
  /\ room' = room - bytes
  /\ next' = next + consumed
  /\ UNCHANGED source

\* The next backslash, None if there is none.
NextBackslash == First({p \in next .. Len(source) : source[p] = Backslash})

\* Everything up to the next backslash is copied; without one that is the end.
CopyRun ==
  /\ decoding = "copy"
  /\ LET stop == IF NextBackslash = None THEN Len(source) + 1 ELSE NextBackslash
     IN  Write(CodesOf(Text(source, next, stop)), stop - next, stop - next)
  /\ decoding' = IF NextBackslash = None THEN "done" ELSE "escape"
  /\ UNCHANGED point

Escaping == decoding = "escape" /\ next < Len(source)
Named == source[next + 1]

FailEscape == decoding' = "failed" /\ UNCHANGED <<source, next, decoded, room, point>>

\* Mutant of ShortEscape: what is malformed is replaced, as half a pair is.
ShortEscapeReplaced ==
  /\ Escaping /\ Named # "u"
  /\ IF Named \in Escapable
     THEN Write(<<CodeOf(EscapedByte(Named))>>, 1, 2)
     ELSE Write(<<RuneError>>, Utf8Length(RuneError), 2)
  /\ decoding' = "copy"
  /\ UNCHANGED point

\* unescapeToUTF8 of a two-byte escape; an unknown one stands for its letter
\* when the configuration says so.
ShortEscape ==
  /\ Escaping /\ Named # "u"
  /\ IF Named \in Escapable \/ AllowUnknownEscapes
     THEN /\ Write(<<CodeOf(IF Named \in Escapable THEN EscapedByte(Named)
                            ELSE Named)>>, 1, 2)
          /\ decoding' = "copy"
          /\ UNCHANGED point
     ELSE FailEscape

\* A \u escape is decoded, then its UTF-8 is written.
ReadUnicode ==
  /\ Escaping /\ Named = "u" /\ point = NoPoint
  /\ IF DecodeUnicode(next).size = -1 THEN FailEscape
     ELSE /\ point' = DecodeUnicode(next)
          /\ UNCHANGED <<source, next, decoded, room, decoding>>

WriteUnicode ==
  /\ decoding = "escape" /\ point # NoPoint
  /\ Write(<<point.rune>>, Utf8Length(point.rune), point.size)
  /\ decoding' = "copy"
  /\ point' = NoPoint

\* A backslash is the last byte.
CutEscape == decoding = "escape" /\ next >= Len(source) /\ FailEscape

EscapesNext == \/ CopyRun \/ ShortEscape \/ ReadUnicode \/ WriteUnicode
               \/ CutEscape

EscapesSpec == /\ source \in Seq(STRING)
               /\ EscapesInit
               /\ decoding = "copy"
               /\ [][EscapesNext]_escapeVars

---------------------------------------------------------------------------
\* Escape: the bytes between the quotes of the literal for a text.  The control
\* characters with a short escape stand for all of them.
EscapeOf(c) ==
  CASE c \in {Quote, Backslash} -> <<Backslash, c>>
    [] c = "bs"  -> <<Backslash, "b">>
    [] c = "ff"  -> <<Backslash, "f">>
    [] c = "nl"  -> <<Backslash, "n">>
    [] c = "soh" -> <<Backslash, "u", "0", "0", "0", "1">>
    [] OTHER     -> <<c>>

Escape(text) ==
  LET out[k \in 0 .. Len(text)] ==
        IF k = 0 THEN <<>> ELSE out[k - 1] \o EscapeOf(text[k])
  IN  <<Quote>> \o out[Len(text)] \o <<Quote>>

---------------------------------------------------------------------------
\* The decoder never writes past its buffer, which is as long as the source:
\* what is left of the buffer holds what is left of the source, also while a
\* code point is still to be written, of three bytes for six or four for
\* twelve (unescape allocates nothing more and does not look).
FitsTheBuffer ==
  /\ room >= Len(source) - next + 1
  /\ decoding = "escape" /\ point # NoPoint => Utf8Length(point.rune) =< room
=============================================================================
