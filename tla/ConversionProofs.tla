-------------------------- MODULE ConversionProofs --------------------------
(***************************************************************************)
(* For integers of any width and literals of any length: parseInt never    *)
(* loses a bit.  The unchecked loop cannot overflow because of the number  *)
(* of digits it is given; the checked one may wrap, but is found out.      *)
(*                                                                         *)
(* For every text, JSON or not: unescape never writes past its buffer,     *)
(* which is as long as the text, and never reads past the text.  A \u      *)
(* escape of six bytes writes at most three, a pair of twelve at most      *)
(* four.                                                                   *)
(***************************************************************************)
EXTENDS Numbers, Escapes, JsonTextProofs

\* Where the digits start, and how many of them have been read.
FirstDigit == IF neg THEN 2 ELSE 1
DigitsRead == pos - FirstDigit

\* In the unchecked loop the sum has no more digits than have been read; that
\* is what keeps it in range.
SumInv ==
  /\ reading = "fast" => /\ DigitsRead \in 0 .. FastDigits - 1
                         /\ Len(literal) - FirstDigit + 1 < FastDigits
                         /\ n < TenTo[DigitsRead]
  /\ reading = "slow" => n =< MaxUint
  /\ reading \in {"fast", "slow"} => n = exact

StateInv ==
  /\ literal \in Seq(STRING)
  /\ getter \in {"GetInt", "GetUint64"}
  /\ neg \in BOOLEAN
  /\ pos \in 1 .. Len(literal) + 1
  /\ n \in Nat /\ exact \in Nat
  /\ reading \in {"sign", "fast", "slow", "unsigned", "done"}
  /\ reading = "unsigned" => getter = "GetUint64"
  /\ reading = "sign" => n = 0 /\ exact = 0 /\ neg = FALSE

\* What SumIsExact says of the end of a call of parseInt.
ResultInv ==
  reading = "done" /\ getter = "GetInt" =>
    /\ number.err = "none" => /\ number.value = Value
                              /\ - Half =< number.value /\ number.value =< MaxInt
                              /\ pos = Len(literal) + 1
    /\ number.err = "Overflow" =>
         IF HasByte THEN IsDigit /\ MaxUint < 10 * exact + Digit
         ELSE Value < - Half \/ Value > MaxInt

NumbersInv == StateInv /\ SumInv /\ ResultInv

---------------------------------------------------------------------------
\* What % leaves of a number below its modulus, and below twice its modulus.
LEMMA ModBelow ==
  ASSUME NEW m \in Nat \ {0}, NEW a \in Nat, a < 2 * m
  PROVE  a % m = IF a < m THEN a ELSE a - m
OBVIOUS

\* An int64 holds every sum below 2^63.
LEMMA WrappedIntSmall ==
  ASSUME NEW x \in Nat, x < Half
  PROVE  WrappedInt(x) = x
<1>1. (x + Half) % (2 * Half) = x + Half
  <2>1. 2 * Half \in Nat \ {0} /\ x + Half \in Nat /\ x + Half < 2 * Half
    BY HalfAssumption
  <2> QED BY <2>1, ModBelow
<1> QED BY <1>1, HalfAssumption DEF WrappedInt

\* A uint64 that takes one digit more wraps at most once, and then the sum is
\* less than the product.
LEMMA WrappedUintSum ==
  ASSUME NEW x \in Nat, x =< MaxUint, NEW d \in 0 .. 9
  PROVE  /\ WrappedUint(x + d) < x => MaxUint < x + d
         /\ WrappedUint(x + d) >= x => WrappedUint(x + d) = x + d /\ x + d =< MaxUint
<1> DEFINE sum == x + d
           all == 2 * Half
<1>1. all \in Nat \ {0} /\ sum \in Nat /\ sum < 2 * all
  BY HalfAssumption DEF MaxUint
<1>2. sum % all = IF sum < all THEN sum ELSE sum - all
  <2> HIDE DEF sum, all
  <2> QED BY <1>1, ModBelow
<1> QED BY <1>1, <1>2, HalfAssumption DEF WrappedUint, MaxUint

\* Dividing the largest uint64 by ten tells which numbers have room for a
\* tenfold.
LEMMA DivTen ==
  ASSUME NEW x \in Nat
  PROVE  /\ x > MaxUint \div 10 => 10 * x > MaxUint
         /\ x =< MaxUint \div 10 => 10 * x =< MaxUint
BY HalfAssumption DEF MaxUint

\* A digit has a value below ten.
LEMMA DigitRange ==
  ASSUME NEW c \in Digits
  PROVE  DigitValue(c) \in 0 .. 9
<1>1. \E m \in 0 .. 9 : DigitNames[m + 1] = c
  <2>1. PICK k \in 1 .. 10 : DigitNames[k] = c
    BY DEF Digits
  <2>2. k - 1 \in 0 .. 9 /\ DigitNames[(k - 1) + 1] = c
    BY <2>1
  <2> QED BY <2>2
<1> QED BY <1>1 DEF DigitValue
---------------------------------------------------------------------------
\* parseInt starts with nothing read.
THEOREM NumbersInvInit ==
  ASSUME NumbersInit, literal \in Seq(STRING), reading = "sign",
         getter \in {"GetInt", "GetUint64"}
  PROVE  NumbersInv
<1>1. Len(literal) \in Nat
  BY LenProperties
<1>2. StateInv
  <2>1. neg = FALSE /\ neg \in BOOLEAN
    BY Zenon DEF NumbersInit
  <2>2. pos \in 1 .. Len(literal) + 1 /\ n = 0 /\ exact = 0
    BY <1>1 DEF NumbersInit
  <2> QED BY <2>1, <2>2 DEF StateInv
<1>3. SumInv /\ ResultInv
  BY DEF SumInv, ResultInv
<1> QED BY <1>2, <1>3 DEF NumbersInv

\* A step that ends the parsing, or passes the literal on to ParseUint, needs
\* only to have the right result.
LEMMA NoValueKeeps ==
  ASSUME NumbersInv, reading \in {"sign", "fast", "slow"},
         NEW err \in {"MalformedValue", "Overflow"}, NoValue(err),
         err = "Overflow" /\ getter = "GetInt" =>
           IF HasByte THEN IsDigit /\ MaxUint < 10 * exact + Digit
           ELSE Value < - Half \/ Value > MaxInt
  PROVE  NumbersInv'
<1> USE DEF Finish, Counted, HasByte, IsDigit, Digit, Value
<1>1. CASE getter = "GetInt"
  <2>1. /\ UNCHANGED <<literal, getter, neg, pos, n, exact>> /\ reading' = "done"
        /\ number' = [value |-> 0, err |-> err]
    BY <1>1 DEF NoValue
  <2>2. StateInv' /\ SumInv'
    BY <2>1 DEF NumbersInv, StateInv, SumInv
  <2>3. ResultInv'
    BY <2>1 DEF ResultInv
  <2> QED BY <2>2, <2>3 DEF NumbersInv
<1>2. CASE getter # "GetInt"
  <2>1. UNCHANGED <<literal, getter, neg, pos, n, exact>> /\ reading' = "unsigned"
    BY <1>2 DEF NoValue
  <2> QED BY <1>2, <2>1 DEF NumbersInv, StateInv, SumInv, ResultInv
<1> QED BY <1>1, <1>2

\* A literal read to its end with a sum in range gives the value it stands for.
LEMMA ParsingKeeps ==
  ASSUME NumbersInv, reading \in {"fast", "slow"}, ~HasByte,
         NEW value \in Int, Parsing(value),
         value = Value, - Half =< value, value =< MaxInt
  PROVE  NumbersInv'
<1> USE DEF Finish, Counted, HasByte
<1>1. UNCHANGED <<literal, getter, neg, pos, n, exact>> /\ reading' = "done"
  BY DEF Parsing
<1>2. pos = Len(literal) + 1
  BY LenProperties DEF NumbersInv, StateInv
<1>3. StateInv' /\ SumInv'
  BY <1>1 DEF NumbersInv, StateInv, SumInv
<1>4. getter = "GetInt" => number' = [value |-> value, err |-> "none"]
  BY DEF Parsing
<1>5. ResultInv'
  BY <1>1, <1>2, <1>4 DEF ResultInv, Value, IsDigit, Digit
<1> QED BY <1>3, <1>5 DEF NumbersInv

\* parseInt takes the sign off.
LEMMA ReadSignKeeps == NumbersInv /\ ReadSign => NumbersInv'
<1> SUFFICES ASSUME NumbersInv, ReadSign PROVE NumbersInv'
  OBVIOUS
<1> DEFINE first == IF literal # <<>> /\ IsNegative THEN 2 ELSE 1
<1>1. Len(literal) \in Nat /\ (Len(literal) > 0 <=> literal # <<>>)
  BY LenProperties, EmptySeq DEF NumbersInv, StateInv
<1>2. CASE first > Len(literal)
  <2>1. NoValue("MalformedValue")
    BY <1>2 DEF ReadSign
  <2> QED BY <2>1, NoValueKeeps DEF ReadSign
<1>3. CASE ~(first > Len(literal))
  <2>1. /\ neg' = IsNegative /\ pos' = first
        /\ reading' = IF Len(literal) - first + 1 < FastDigits THEN "fast" ELSE "slow"
        /\ UNCHANGED <<literal, getter, n, exact, number>>
    BY <1>3 DEF ReadSign
  <2>2. FirstDigit' = first /\ neg' \in BOOLEAN /\ DigitsRead' = 0
    <3>1. literal # <<>>
      BY <1>1, <1>3
    <3>2. neg' \in BOOLEAN /\ first = IF neg' THEN 2 ELSE 1
      BY <2>1, <3>1, Zenon DEF IsNegative
    <3> QED BY <2>1, <3>2 DEF FirstDigit, DigitsRead
  <2>3. n = 0 /\ exact = 0
    BY DEF NumbersInv, StateInv, ReadSign
  <2>4. StateInv'
    BY <1>1, <1>3, <2>1, <2>2, <2>3 DEF NumbersInv, StateInv
  <2>5. SumInv'
    BY <2>1, <2>2, <2>3, FastDigitsAssumption, HalfAssumption DEF SumInv, MaxUint
  <2> QED BY <2>1, <2>4, <2>5 DEF NumbersInv, ResultInv
<1> QED BY <1>2, <1>3

\* k digits are less than ten to the k; the loop has room for one more.
LEMMA FastDigitKeeps == NumbersInv /\ FastDigit => NumbersInv'
<1> SUFFICES ASSUME NumbersInv, FastDigit PROVE NumbersInv'
  OBVIOUS
<1>1. CASE ~IsDigit
  <2>1. NoValue("MalformedValue")
    BY <1>1 DEF FastDigit
  <2> QED BY <2>1, NoValueKeeps DEF FastDigit
<1>2. CASE IsDigit
  <2> DEFINE k == DigitsRead
             sum == 10 * n + Digit
  <2>1. Digit \in 0 .. 9 /\ n \in Nat /\ n = exact /\ n < TenTo[k]
    BY <1>2, DigitRange DEF IsDigit, Digit, FastDigit, NumbersInv, StateInv, SumInv
  <2>2. k \in 0 .. FastDigits - 2 /\ pos \in Nat /\ pos =< Len(literal)
        /\ Len(literal) \in Nat
    BY LenProperties, FastDigitsAssumption
    DEF FastDigit, HasByte, NumbersInv, StateInv, SumInv, DigitsRead, FirstDigit
  <2>3. TenTo[k + 1] = 10 * TenTo[k] /\ TenTo[k] \in Nat /\ TenTo[k + 1] =< Half
    BY <2>2, FastDigitsAssumption
  <2>4. sum \in Nat /\ sum < TenTo[k + 1] /\ sum < Half
    BY <2>1, <2>3, HalfAssumption
  <2>5. /\ n' = sum /\ exact' = 10 * exact + Digit /\ pos' = pos + 1
        /\ UNCHANGED <<literal, getter, neg, reading, number>>
    BY <1>2, <2>4, WrappedIntSmall DEF FastDigit, Add
  <2>6. DigitsRead' = k + 1 /\ FirstDigit' = FirstDigit
    BY <2>2, <2>5 DEF DigitsRead, FirstDigit
  <2>7. n' = exact' /\ n' \in Nat
    BY <2>1, <2>4, <2>5
  <2>8. StateInv'
    BY <2>2, <2>5, <2>7 DEF NumbersInv, StateInv, FastDigit
  <2>9. SumInv'
    <3>1. reading' = "fast" /\ DigitsRead' \in 0 .. FastDigits - 1
      BY <2>2, <2>5, <2>6, FastDigitsAssumption DEF FastDigit
    <3>2. Len(literal)' - FirstDigit' + 1 < FastDigits
      BY <2>5, <2>6 DEF FastDigit, NumbersInv, SumInv
    <3>3. n' < TenTo[DigitsRead']
      BY <2>4, <2>5, <2>6
    <3> QED BY <2>7, <3>1, <3>2, <3>3 DEF SumInv
  <2> QED BY <2>5, <2>8, <2>9 DEF NumbersInv, ResultInv, FastDigit
<1> QED BY <1>1, <1>2

\* The unchecked loop has read its last digit.
LEMMA FastEndKeeps == NumbersInv /\ FastEnd => NumbersInv'
<1> SUFFICES ASSUME NumbersInv, FastEnd PROVE NumbersInv'
  OBVIOUS
<1> DEFINE value == IF neg THEN - n ELSE n
<1>1. n \in Nat /\ n = exact /\ n < Half
  BY FastDigitsAssumption, HalfAssumption
  DEF FastEnd, NumbersInv, StateInv, SumInv
<1>2. value \in Int /\ value = Value /\ - Half =< value /\ value =< MaxInt
  BY <1>1, HalfAssumption DEF Value, MaxInt
<1>3. Parsing(value)
  BY DEF FastEnd
<1> HIDE DEF value
<1> QED BY <1>2, <1>3, ParsingKeeps DEF FastEnd

\* The checked loop reads a digit, or refuses the literal.
LEMMA SlowDigitKeeps == NumbersInv /\ SlowDigit => NumbersInv'
<1> SUFFICES ASSUME NumbersInv, SlowDigit PROVE NumbersInv'
  OBVIOUS
<1> DEFINE sum == WrappedUint(10 * n + Digit)
<1>1. CASE ~IsDigit
  <2>1. NoValue("MalformedValue")
    BY <1>1 DEF SlowDigit
  <2> QED BY <2>1, NoValueKeeps DEF SlowDigit
<1>2. CASE IsDigit
  <2>1. Digit \in 0 .. 9 /\ n \in Nat /\ n = exact /\ n =< MaxUint
    BY <1>2, DigitRange DEF IsDigit, Digit, SlowDigit, NumbersInv, StateInv, SumInv
  <2>2. MaxUint \div 10 \in Int
    BY HalfAssumption DEF MaxUint
  <2>3. CASE n > MaxUint \div 10
    <3>1. MaxUint < 10 * exact + Digit
      BY <2>1, <2>3, DivTen, HalfAssumption DEF MaxUint
    <3>2. NoValue("Overflow") /\ HasByte /\ reading = "slow"
      BY <1>2, <2>3 DEF SlowDigit
    <3> QED BY <1>2, <3>1, <3>2, NoValueKeeps
  <2>4. CASE n =< MaxUint \div 10
    <3> DEFINE ten == 10 * n
    <3>1. ten \in Nat /\ ten =< MaxUint
      BY <2>1, <2>4, DivTen
    <3>2. /\ sum < ten => MaxUint < ten + Digit
          /\ sum >= ten => sum = ten + Digit /\ ten + Digit =< MaxUint
      <4> HIDE DEF ten
      <4> SUFFICES /\ WrappedUint(ten + Digit) < ten => MaxUint < ten + Digit
                   /\ WrappedUint(ten + Digit) >= ten =>
                        /\ WrappedUint(ten + Digit) = ten + Digit
                        /\ ten + Digit =< MaxUint
        BY DEF ten
      <4> QED BY <2>1, <3>1, WrappedUintSum
    <3>3. CASE sum < ten
      <4>1. NoValue("Overflow") /\ HasByte /\ reading = "slow"
        BY <1>2, <2>1, <2>2, <2>4, <3>3 DEF SlowDigit
      <4>2. MaxUint < 10 * exact + Digit
        BY <2>1, <3>2, <3>3
      <4> QED BY <1>2, <4>1, <4>2, NoValueKeeps
    <3>4. CASE ~(sum < ten)
      <4>1. sum \in Int
        BY <2>1, HalfAssumption DEF WrappedUint
      <4>2. sum = ten + Digit /\ ten + Digit =< MaxUint
        BY <3>1, <3>2, <3>4, <4>1
      <4>3. Add(sum)
        BY <1>2, <2>1, <2>2, <2>4, <3>4 DEF SlowDigit
      <4>4. /\ n' = sum /\ exact' = 10 * exact + Digit /\ pos' = pos + 1
            /\ UNCHANGED <<literal, getter, neg, reading, number>>
        BY <4>3 DEF Add
      <4>5. pos \in Nat /\ pos =< Len(literal) /\ Len(literal) \in Nat
        BY LenProperties DEF SlowDigit, HasByte, NumbersInv, StateInv
      <4>6. n' = exact' /\ n' \in Nat /\ n' =< MaxUint
        BY <2>1, <4>2, <4>4
      <4>7. StateInv'
        BY <4>4, <4>5, <4>6 DEF NumbersInv, StateInv, SlowDigit
      <4> QED BY <4>4, <4>6, <4>7 DEF NumbersInv, SumInv, ResultInv, SlowDigit
    <3> QED BY <3>3, <3>4
  <2> QED BY <2>1, <2>2, <2>3, <2>4
<1> QED BY <1>1, <1>2

\* What does not fit an int64 although it fits a uint64, but for the least one.
LEMMA SlowEndKeeps == NumbersInv /\ SlowEnd => NumbersInv'
<1> SUFFICES ASSUME NumbersInv, SlowEnd PROVE NumbersInv'
  OBVIOUS
<1>1. n \in Nat /\ n = exact
  BY DEF SlowEnd, NumbersInv, StateInv, SumInv
<1>2. CASE n =< MaxInt
  <2> DEFINE value == IF neg THEN - n ELSE n
  <2>1. value \in Int /\ value = Value /\ - Half =< value /\ value =< MaxInt
    BY <1>1, <1>2, HalfAssumption DEF Value, MaxInt
  <2>2. Parsing(value)
    BY <1>2 DEF SlowEnd
  <2> HIDE DEF value
  <2> QED BY <2>1, <2>2, ParsingKeeps DEF SlowEnd
<1>3. CASE n > MaxInt /\ neg /\ n = Half
  <2>1. - Half \in Int /\ - Half = Value /\ - Half =< MaxInt
    BY <1>1, <1>3, HalfAssumption DEF Value, MaxInt
  <2>2. Parsing(- Half)
    BY <1>1, <1>3, HalfAssumption DEF SlowEnd, MaxInt
  <2> QED BY <2>1, <2>2, ParsingKeeps, HalfAssumption DEF SlowEnd
<1>4. CASE n > MaxInt /\ ~(neg /\ n = Half)
  <2>1. Value < - Half \/ Value > MaxInt
    BY <1>1, <1>4, HalfAssumption DEF Value, MaxInt
  <2>2. NoValue("Overflow") /\ ~HasByte
    BY <1>1, <1>4, HalfAssumption DEF SlowEnd, MaxInt
  <2> QED BY <2>1, <2>2, NoValueKeeps DEF SlowEnd
<1> QED BY <1>1, <1>2, <1>3, <1>4, HalfAssumption DEF MaxInt

\* GetUint64 reads the literal again.
LEMMA ReadUnsignedKeeps == NumbersInv /\ ReadUnsigned => NumbersInv'
BY DEF ReadUnsigned, Finish, Counted, NumbersInv, StateInv, SumInv, ResultInv

\* Every step of a conversion.
LEMMA NumbersInvStep ==
  NumbersInv /\ [NumbersNext]_numberVars => NumbersInv'
<1>1. NumbersInv /\ UNCHANGED numberVars => NumbersInv'
  BY DEF numberVars, NumbersInv, StateInv, SumInv, ResultInv, DigitsRead, FirstDigit,
         HasByte, IsDigit, Digit, Value
<1> QED BY <1>1, ReadSignKeeps, FastDigitKeeps, FastEndKeeps, SlowDigitKeeps,
           SlowEndKeeps, ReadUnsignedKeeps DEF NumbersNext

\* For any width and any literal, what parseInt has added up is the number the
\* digits spell, its value is that number and in range, and overflow is only
\* reported of what is out of range.
THEOREM SumIsExactAlways == NumbersSpec => []SumIsExact
<1>1. NumbersInit /\ literal \in Seq(STRING) /\ getter \in {"GetInt", "GetUint64"}
      /\ reading = "sign" => NumbersInv
  BY NumbersInvInit
<1>2. NumbersInv => SumIsExact
  BY DEF NumbersInv, SumInv, ResultInv, SumIsExact
<1> QED BY <1>1, <1>2, NumbersInvStep, PTL DEF NumbersSpec

---------------------------------------------------------------------------
\* A decoded \u escape that is still to be written lies in the source, and
\* what is written is shorter.
PointInv ==
  point # NoPoint =>
    /\ decoding = "escape" /\ next < Len(source) /\ Named = "u"
    /\ point.size \in {6, 12}
    /\ next + point.size - 1 =< Len(source)
    /\ Utf8Length(point.rune) \in 1 .. 4
    /\ point.size = 6 => Utf8Length(point.rune) =< 3

BufferInv ==
  /\ source \in Seq(STRING)
  /\ next \in 1 .. Len(source) + 1
  /\ room \in Int /\ room >= Len(source) - next + 1
  /\ PointInv

---------------------------------------------------------------------------
\* Four hexadecimal digits are 16 bits.
LEMMA HexValueRange ==
  ASSUME NEW c, IsHex(c)
  PROVE  HexValue(c) \in 0 .. 15
<1>1. \E k \in 1 .. 16 : HexDigits[k] = c
  BY DEF IsHex
<1>2. (CHOOSE k \in 1 .. 16 : HexDigits[k] = c) \in 1 .. 16
  BY <1>1
<1> QED BY <1>2 DEF HexValue

Plane(r) == r \in Nat /\ r < 65536

\* decodeSingleUnicodeEscape: a code point of the basic plane, inside the text.
LEMMA SingleRange ==
  ASSUME source \in Seq(STRING), NEW p \in Nat \ {0}
  PROVE  Single(p) = -1 \/ (Plane(Single(p)) /\ p + 5 =< Len(source))
<1>1. Len(source) \in Nat
  BY LenProperties
<1> DEFINE bad == p + 5 > Len(source) \/ \E k \in 2 .. 5 : ~IsHex(source[p + k])
           a == HexValue(source[p + 2])
           b == HexValue(source[p + 3])
           c == HexValue(source[p + 4])
           d == HexValue(source[p + 5])
           value == 4096 * a + 256 * b + 16 * c + d
<1>2. Single(p) = IF bad THEN -1 ELSE value
  BY Zenon DEF Single
<1>3. bad => Single(p) = -1
  <2> HIDE DEF bad, value
  <2> QED BY <1>2
<1>4. ~bad => Single(p) = value
  <2> HIDE DEF bad, value
  <2> QED BY <1>2
<1>5. CASE ~bad
  <2>1. \A k \in 2 .. 5 : IsHex(source[p + k])
    BY <1>5
  <2>2. a \in 0 .. 15 /\ b \in 0 .. 15 /\ c \in 0 .. 15 /\ d \in 0 .. 15
    <3>1. /\ IsHex(source[p + 2]) /\ IsHex(source[p + 3])
          /\ IsHex(source[p + 4]) /\ IsHex(source[p + 5])
      BY <2>1
    <3> QED BY <3>1, HexValueRange
  <2>3. p + 5 =< Len(source)
    BY <1>1, <1>5
  <2> HIDE DEF a, b, c, d
  <2>4. value \in Nat /\ value < 65536
    BY <2>2
  <2> HIDE DEF value, bad
  <2> QED BY <1>4, <1>5, <2>3, <2>4 DEF Plane
<1> HIDE DEF bad, value
<1> QED BY <1>3, <1>5

\* A character takes one to four bytes.
LEMMA Utf8Range ==
  ASSUME NEW r \in Int
  PROVE  /\ Utf8Length(r) \in 1 .. 4
         /\ r < 65536 => Utf8Length(r) =< 3
BY DEF Utf8Length

\* decodeUnicodeEscape: one escape, or a pair, inside the text.
LEMMA DecodeUnicodeRange ==
  ASSUME source \in Seq(STRING), NEW p \in Nat \ {0}, DecodeUnicode(p).size # -1
  PROVE  /\ DecodeUnicode(p).size \in {6, 12}
         /\ p + DecodeUnicode(p).size - 1 =< Len(source)
         /\ Utf8Length(DecodeUnicode(p).rune) \in 1 .. 4
         /\ DecodeUnicode(p).size = 6 => Utf8Length(DecodeUnicode(p).rune) =< 3
<1> DEFINE first == Single(p)
           second == Single(p + 6)
           Lone == [rune |-> RuneError, size |-> 6]
           answer == DecodeUnicode(p)
<1>1. /\ first = -1 \/ (Plane(first) /\ p + 5 =< Len(source))
      /\ second = -1 \/ (Plane(second) /\ p + 11 =< Len(source))
  <2>1. p + 6 \in Nat \ {0}
    OBVIOUS
  <2>2. Single(p + 6) = -1
        \/ (Plane(Single(p + 6)) /\ (p + 6) + 5 =< Len(source))
    BY <2>1, SingleRange
  <2>3. (p + 6) + 5 = p + 11
    OBVIOUS
  <2> QED BY <2>2, <2>3, SingleRange
<1>2. \/ answer = Bad
      \/ first # -1 /\ answer = [rune |-> first, size |-> 6]
      \/ first # -1 /\ answer = Lone
      \/ first # -1 /\ second # -1 /\ Low(second)
         /\ answer = [rune |-> Combined(first, second), size |-> 12]
  <2> HIDE DEF first, second
  <2>1. answer = CASE first = -1 -> Bad
        [] first # -1 /\ ~High(first) /\ ~Low(first) -> [rune |-> first, size |-> 6]
        [] Low(first) \/ (High(first) /\ ~HasNext(p)) -> Lone
        [] High(first) /\ HasNext(p) /\ second = -1 -> Bad
        [] OTHER -> IF Low(second)
                    THEN [rune |-> Combined(first, second), size |-> 12]
                    ELSE Lone
    BY DEF DecodeUnicode, first, second
  <2>2. ~Low(-1) /\ ~High(-1)
    BY DEF Low, High
  <2> QED BY <2>1, <2>2
<1> HIDE DEF first, second
<1>3. answer # Bad
  BY DEF Bad
<1>4. first # -1 /\ second # -1 => Combined(first, second) \in Int
  BY <1>1 DEF Combined, Plane
<1>5. /\ answer.size \in {6, 12}
      /\ p + answer.size - 1 =< Len(source)
      /\ answer.rune \in Int
      /\ answer.size = 6 => answer.rune < 65536
  <2>0. Len(source) \in Nat
    BY LenProperties
  <2>1. CASE first # -1 /\ answer = [rune |-> first, size |-> 6]
    BY <1>1, <2>0, <2>1 DEF Plane
  <2>2. CASE first # -1 /\ answer = Lone
    BY <1>1, <2>0, <2>2 DEF RuneError, Plane
  <2>3. CASE first # -1 /\ second # -1
             /\ answer = [rune |-> Combined(first, second), size |-> 12]
    BY <1>1, <1>4, <2>0, <2>3
  <2> QED BY <1>2, <1>3, <2>1, <2>2, <2>3
<1> QED BY <1>5, Utf8Range

---------------------------------------------------------------------------
\* unescape starts with an empty buffer.
LEMMA BufferInvInit ==
  source \in Seq(STRING) /\ EscapesInit => BufferInv
<1>1. source \in Seq(STRING) => Len(source) \in Nat
  BY LenProperties
<1> QED BY <1>1 DEF EscapesInit, BufferInv, PointInv

\* Bytes without an escape take the room they had.
LEMMA CopyRunKeeps == BufferInv /\ CopyRun => BufferInv'
<1> SUFFICES ASSUME BufferInv, CopyRun PROVE BufferInv'
  OBVIOUS
<1> DEFINE stop == IF NextBackslash = None THEN Len(source) + 1 ELSE NextBackslash
           S == {p \in next .. Len(source) : source[p] = Backslash}
           hi == Len(source) + 1
<1>1. Len(source) \in Nat /\ next \in Nat \ {0}
  BY LenProperties DEF BufferInv
<1>2. NextBackslash = None \/ NextBackslash \in next .. Len(source)
  <2>1. hi \in Nat /\ S \in SUBSET (next .. hi - 1)
    BY <1>1
  <2>2. First(S) = None \/ First(S) \in S
    <3> HIDE DEF S, hi
    <3> QED BY <1>1, <2>1, FirstInRange
  <2> QED BY <2>2 DEF NextBackslash
<1>3. stop \in next .. Len(source) + 1
  BY <1>1, <1>2 DEF BufferInv
<1>4. /\ room' = room - (stop - next) /\ next' = next + (stop - next)
      /\ source' = source /\ point' = point
  BY DEF CopyRun, Write
<1> HIDE DEF stop
<1>5. point = NoPoint
  BY DEF CopyRun, BufferInv, PointInv
<1> QED BY <1>1, <1>3, <1>4, <1>5 DEF BufferInv, PointInv

\* A step that fails keeps the buffer as it is.
LEMMA FailKeeps == BufferInv /\ point = NoPoint /\ FailEscape => BufferInv'
<1> SUFFICES ASSUME BufferInv, point = NoPoint, FailEscape PROVE BufferInv'
  OBVIOUS
<1>1. source' = source /\ next' = next /\ room' = room /\ point' = NoPoint
  BY DEF FailEscape
<1> QED BY <1>1 DEF BufferInv, PointInv

\* Two bytes become one.
LEMMA ShortEscapeKeeps == BufferInv /\ ShortEscape => BufferInv'
<1> SUFFICES ASSUME BufferInv, ShortEscape PROVE BufferInv'
  OBVIOUS
<1>1. Len(source) \in Nat
  BY LenProperties DEF BufferInv
<1>2. next + 1 =< Len(source) /\ point = NoPoint
  BY <1>1 DEF ShortEscape, Escaping, BufferInv, PointInv
<1>3. CASE /\ room' = room - 1 /\ next' = next + 2 /\ source' = source
           /\ point' = point
  BY <1>1, <1>2, <1>3 DEF BufferInv, PointInv
<1>4. CASE FailEscape
  BY <1>2, <1>4, FailKeeps
<1> QED BY <1>3, <1>4 DEF ShortEscape, Write

\* A \u escape, or a pair of them, is decoded.
LEMMA ReadUnicodeKeeps == BufferInv /\ ReadUnicode => BufferInv'
<1> SUFFICES ASSUME BufferInv, ReadUnicode PROVE BufferInv'
  OBVIOUS
<1>1. next \in Nat \ {0} /\ source \in Seq(STRING) /\ point = NoPoint
  BY LenProperties DEF BufferInv, ReadUnicode
<1> DEFINE decodes == DecodeUnicode(next)
<1>2. CASE decodes.size = -1
  BY <1>1, <1>2, FailKeeps DEF ReadUnicode
<1>3. CASE decodes.size # -1
  <2>1. /\ decodes.size \in {6, 12}
        /\ next + decodes.size - 1 =< Len(source)
        /\ Utf8Length(decodes.rune) \in 1 .. 4
        /\ decodes.size = 6 => Utf8Length(decodes.rune) =< 3
    BY <1>1, <1>3, DecodeUnicodeRange
  <2>2. /\ point' = decodes /\ decoding = "escape" /\ next < Len(source)
        /\ Named = "u"
        /\ source' = source /\ next' = next /\ room' = room
        /\ decoding' = decoding
    BY <1>3 DEF ReadUnicode, Escaping
  <2>3. Named' = Named
    BY <2>2 DEF Named
  <2> HIDE DEF decodes
  <2>4. PointInv'
    BY <2>1, <2>2, <2>3 DEF PointInv
  <2> QED BY <2>2, <2>4 DEF BufferInv
<1> QED BY <1>2, <1>3

\* The character is shorter than its escape.
LEMMA WriteUnicodeKeeps == BufferInv /\ WriteUnicode => BufferInv'
<1> SUFFICES ASSUME BufferInv, WriteUnicode PROVE BufferInv'
  OBVIOUS
<1> DEFINE bytes == Utf8Length(point.rune)
           size == point.size
<1>1. Len(source) \in Nat
  BY LenProperties DEF BufferInv
<1>2. /\ size \in {6, 12} /\ next + size - 1 =< Len(source)
      /\ bytes \in 1 .. 4
  BY DEF WriteUnicode, BufferInv, PointInv
<1>3. /\ room' = room - bytes /\ next' = next + size /\ source' = source
      /\ point' = NoPoint
  BY DEF WriteUnicode, Write
<1> HIDE DEF bytes, size
<1> QED BY <1>1, <1>2, <1>3 DEF BufferInv, PointInv

\* Every step keeps the invariant.
LEMMA BufferInvStep == BufferInv /\ [EscapesNext]_escapeVars => BufferInv'
<1> SUFFICES ASSUME BufferInv, [EscapesNext]_escapeVars PROVE BufferInv'
  OBVIOUS
<1>1. CASE CopyRun
  BY <1>1, CopyRunKeeps
<1>2. CASE ShortEscape
  BY <1>2, ShortEscapeKeeps
<1>3. CASE ReadUnicode
  BY <1>3, ReadUnicodeKeeps
<1>4. CASE WriteUnicode
  BY <1>4, WriteUnicodeKeeps
<1>5. CASE CutEscape
  <2>1. point = NoPoint
    <3>1. Len(source) \in Nat
      BY LenProperties DEF BufferInv
    <3> QED BY <1>5, <3>1 DEF CutEscape, BufferInv, PointInv
  <2> QED BY <1>5, <2>1, FailKeeps DEF CutEscape
<1>6. CASE UNCHANGED escapeVars
  <2>1. Named' = Named
    BY <1>6 DEF escapeVars, Named
  <2> QED BY <1>6, <2>1 DEF escapeVars, BufferInv, PointInv
<1> QED BY <1>1, <1>2, <1>3, <1>4, <1>5, <1>6 DEF EscapesNext

\* What is written fits.
LEMMA BufferInvFits == BufferInv => FitsTheBuffer
<1> SUFFICES ASSUME BufferInv PROVE FitsTheBuffer
  OBVIOUS
<1> DEFINE bytes == Utf8Length(point.rune)
           size == point.size
<1>1. Len(source) \in Nat
  BY LenProperties DEF BufferInv
<1>2. point # NoPoint => /\ size \in {6, 12} /\ next + size - 1 =< Len(source)
                         /\ bytes \in 1 .. 4
  BY DEF BufferInv, PointInv
<1>3. room >= Len(source) - next + 1 /\ room \in Int /\ next \in Int
  BY <1>1 DEF BufferInv
<1>4. point # NoPoint => bytes =< room
  <2> HIDE DEF bytes, size
  <2> QED BY <1>1, <1>2, <1>3
<1> QED BY <1>3, <1>4 DEF FitsTheBuffer

\* The decoder of escape.go writes no byte beyond the buffer it was given, for
\* any source whatever: unescape gives it one of len(in) bytes and never looks
\* at its length again.
THEOREM FitsTheBufferAlways == EscapesSpec => []FitsTheBuffer
<1>1. source \in Seq(STRING) /\ EscapesInit => BufferInv
  BY BufferInvInit
<1>2. BufferInv /\ [EscapesNext]_escapeVars => BufferInv'
  BY BufferInvStep
<1>3. BufferInv => FitsTheBuffer
  BY BufferInvFits
<1> QED BY <1>1, <1>2, <1>3, PTL DEF EscapesSpec
=============================================================================
