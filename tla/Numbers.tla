------------------------------ MODULE Numbers ------------------------------
(***************************************************************************)
(* parseInt of bytes.go, and GetUint64's use of it.  A short literal is    *)
(* added up in an int64 without any check, a long one in a uint64 that may *)
(* wrap; the widths are constants, so that every boundary is near.  What   *)
(* parseInt refuses GetUint64 gives to strconv.ParseUint, which is outside *)
(* of this code.                                                           *)
(***************************************************************************)
EXTENDS JsonText

CONSTANTS Half,         \* absMinInt64: 2^(w-1) for integers of w bits
          FastDigits,   \* the digits from which on overflow is looked for: 19
          TenTo         \* the powers of ten below that

MaxInt == Half - 1
MaxUint == 2 * Half - 1

ASSUME HalfAssumption == Half \in Nat /\ Half > 10

ASSUME FastDigitsAssumption ==
  /\ FastDigits \in Nat /\ FastDigits >= 2
  /\ TenTo[0] = 1
  /\ \A k \in 0 .. FastDigits - 1 : TenTo[k] \in Nat /\ TenTo[k] =< Half
  /\ \A k \in 0 .. FastDigits - 2 : TenTo[k + 1] = 10 * TenTo[k]

VARIABLES literal,      \* the bytes of the number
          getter,       \* "GetInt" or "GetUint64"
          neg, pos,     \* the sign, and the byte to be read next
          n,            \* what has been added up: v, or n of the slow path
          exact,        \* the true value of the digits read (not in the code)
          reading,      \* "idle", "sign", "fast", "slow", "unsigned" or "done"
          number        \* what is returned: [value, err]

numberVars == <<literal, getter, neg, pos, n, exact, reading, number>>

NumbersInit == /\ neg = FALSE
               /\ pos = 1
               /\ n = 0
               /\ exact = 0
               /\ number = [value |-> 0, err |-> "none"]

---------------------------------------------------------------------------
\* Values that do not fit in w bits lose the bits above.
WrappedInt(x) == ((x + Half) % (2 * Half)) - Half

WrappedUint(x) == x % (2 * Half)

Counted == UNCHANGED <<literal, getter, neg, pos, n, exact>>

Finish(value, err) == /\ Counted
                      /\ reading' = "done"
                      /\ number' = [value |-> value, err |-> err]

\* What parseInt has no value for, GetUint64 tries once more.
NoValue(err) == IF getter = "GetInt" THEN Finish(0, err)
                ELSE Counted /\ reading' = "unsigned" /\ UNCHANGED number

\* A value of parseInt; GetUint64 takes no negative one.
Parsing(value) ==
  IF getter = "GetUint64" /\ value < 0 THEN Finish(0, "MalformedValue")
  ELSE Finish(value, "none")

IsNegative == literal[1] = "-"

\* Whether there are few enough digits for the unchecked loop.
ReadSign ==
  /\ reading = "sign"
  /\ LET first == IF literal # <<>> /\ IsNegative THEN 2 ELSE 1
     IN  IF first > Len(literal) THEN NoValue("MalformedValue")
         ELSE /\ neg' = IsNegative
              /\ pos' = first
              /\ reading' = IF Len(literal) - first + 1 < FastDigits
                            THEN "fast" ELSE "slow"
              /\ UNCHANGED <<literal, getter, n, exact, number>>

HasByte == pos =< Len(literal)
IsDigit == literal[pos] \in Digits
Digit == DigitValue(literal[pos])

Add(sum) == /\ n' = sum
            /\ exact' = 10 * exact + Digit
            /\ pos' = pos + 1
            /\ UNCHANGED <<literal, getter, neg, reading, number>>

FastDigit == /\ reading = "fast" /\ HasByte
             /\ IF IsDigit THEN Add(WrappedInt(10 * n + Digit))
                ELSE NoValue("MalformedValue")

FastEnd == /\ reading = "fast" /\ ~HasByte
           /\ Parsing(IF neg THEN - n ELSE n)

\* Mutant of SlowDigit: only the multiplication is checked.
SlowDigitUnchecked ==
  /\ reading = "slow" /\ HasByte
  /\ LET sum == WrappedUint(10 * n + Digit)
     IN  CASE ~IsDigit -> NoValue("MalformedValue")
           [] IsDigit /\ n > MaxUint \div 10 -> NoValue("Overflow")
           [] OTHER -> Add(sum)

\* n > maxUint64/10 excludes that the product wraps; the sum may, and is then
\* less than the product.
SlowDigit ==
  /\ reading = "slow" /\ HasByte
  /\ LET sum == WrappedUint(10 * n + Digit)
     IN  CASE ~IsDigit -> NoValue("MalformedValue")
           [] IsDigit /\ n > MaxUint \div 10 -> NoValue("Overflow")
           [] IsDigit /\ n =< MaxUint \div 10 /\ sum < 10 * n ->
                NoValue("Overflow")
           [] OTHER -> Add(sum)

\* The least int64 has no positive counterpart.
SlowEnd ==
  /\ reading = "slow" /\ ~HasByte
  /\ CASE n =< MaxInt -> Parsing(IF neg THEN - n ELSE n)
       [] n > MaxInt /\ neg /\ n = Half -> Parsing(- Half)
       [] OTHER -> NoValue("Overflow")

---------------------------------------------------------------------------
\* strconv.ParseUint: digits only, read up to the first byte that is none or
\* that makes the value too large.
ParseUint ==
  LET value[k \in 0 .. Len(literal)] ==
        IF k = 0 THEN 0
        ELSE IF value[k - 1] > MaxUint \/ literal[k] \notin Digits
        THEN value[k - 1]
        ELSE 10 * value[k - 1] + DigitValue(literal[k])
      stops == {k \in 1 .. Len(literal) :
                  literal[k] \notin Digits \/ value[k] > MaxUint}
      stop == First(stops)
  IN  CASE literal = <<>> -> [value |-> 0, err |-> "MalformedValue"]
        [] stops # {} /\ literal[stop] \in Digits ->
             [value |-> 0, err |-> "Overflow"]
        [] stops # {} /\ literal[stop] \notin Digits ->
             [value |-> 0, err |-> "MalformedValue"]
        [] OTHER -> [value |-> value[Len(literal)], err |-> "none"]

ReadUnsigned == /\ reading = "unsigned"
                /\ Finish(ParseUint.value, ParseUint.err)

NumbersNext == \/ ReadSign \/ FastDigit \/ FastEnd \/ SlowDigit \/ SlowEnd
               \/ ReadUnsigned

NumbersSpec == /\ NumbersInit
               /\ literal \in Seq(STRING)
               /\ getter \in {"GetInt", "GetUint64"}
               /\ reading = "sign"
               /\ [][NumbersNext]_numberVars

---------------------------------------------------------------------------
\* What parseInt has added up is the true value of the digits read: neither the
\* unchecked loop nor the checked one ever loses a bit.  When it ends, the
\* value is that number, within the range of the type; a literal of digits is
\* refused only for a value that is out of range (GetInt, SYS-REQ-059).
Value == IF neg THEN - exact ELSE exact

SumIsExact ==
  /\ reading \in {"fast", "slow"} => n = exact
  /\ reading = "done" /\ getter = "GetInt" /\ number.err = "none" =>
       /\ number.value = Value
       /\ - Half =< number.value /\ number.value =< MaxInt
       /\ pos = Len(literal) + 1
  /\ reading = "done" /\ getter = "GetInt" /\ number.err = "Overflow" =>
       IF HasByte
       THEN IsDigit /\ MaxUint < 10 * exact + Digit
       ELSE Value < - Half \/ Value > MaxInt
=============================================================================
