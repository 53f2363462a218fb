---------------------------- MODULE OracleNumber ----------------------------
(***************************************************************************)
(* The codec of Oracle's NUMBER, src/pyora/converters/number.py: a value   *)
(* is encoded into a byte of sign and exponent and bytes of two decimal    *)
(* digits each, complemented for a negative value, and decoded again: into *)
(* an integer of Python if it is one of 64 bits, else into a float.        *)
(*                                                                         *)
(* A value is a sign, decimal digits and the weight of the last of them;   *)
(* what it stands for is told by DigitAt alone.  A float is a whole number *)
(* that has one, and the power of ten it is multiplied with or divided by. *)
(***************************************************************************)
EXTENDS Integers, Sequences

CONSTANTS
  Digit,           \* the digits values are made of
  MaxDigits,       \* digits of the longest value
  Scale,           \* weights the last digit may have
  MarkerDigits,    \* digits from which a negative value has no marker, 21
  ExponentLimit,   \* 64: exponents are kept in half of a byte's values
  FullMantissa     \* 2^52: from it to its double a float has no bit left

ASSUME DigitsAssumption ==
  /\ Digit \subseteq 0 .. 9
  /\ MaxDigits \in Nat /\ MarkerDigits \in Nat
  /\ Scale \subseteq Int

ASSUME LimitAssumption == ExponentLimit \in Nat \ {0}

ASSUME MantissaAssumption == FullMantissa \in Nat \ {0}

Value ==
  [digits : UNION {[1 .. n -> Digit] : n \in 1 .. MaxDigits},
   scale : Scale, negative : BOOLEAN]

-----------------------------------------------------------------------------
(* What values stand for.                                                  *)

\* The digit of weight w, that is the multiple of 10^w.
DigitAt(v, w) ==
  LET i == Len(v.digits) - (w - v.scale) IN
  IF i \in DOMAIN v.digits THEN v.digits[i] ELSE 0

\* The weights of the digits of two values.
Weights(v, u) ==
  {v.scale + i : i \in 0 .. Len(v.digits)}
    \cup {u.scale + i : i \in 0 .. Len(u.digits)}

SameMagnitude(v, u) == \A w \in Weights(v, u) : DigitAt(v, w) = DigitAt(u, w)

SmallerMagnitude(v, u) ==
  \E w \in Weights(v, u) :
    /\ DigitAt(v, w) < DigitAt(u, w)
    /\ \A x \in Weights(v, u) : x > w => DigitAt(v, x) = DigitAt(u, x)

IsZero(v) == \A i \in DOMAIN v.digits : v.digits[i] = 0

Same(v, u) ==
  /\ SameMagnitude(v, u)
  /\ IsZero(v) \/ (v.negative <=> u.negative)

Less(v, u) ==
  \/ v.negative /\ ~u.negative /\ ~(IsZero(v) /\ IsZero(u))
  \/ ~v.negative /\ ~u.negative /\ SmallerMagnitude(v, u)
  \/ v.negative /\ u.negative /\ SmallerMagnitude(u, v)

\* 9223372036854775808 = 2^63.
TwoTo63 ==
  [digits |-> <<9, 2, 2, 3, 3, 7, 2, 0, 3, 6, 8, 5, 4, 7, 7, 5, 8, 0, 8>>,
   scale |-> 0, negative |-> FALSE]

Integral(v) == \A i \in DOMAIN v.digits : v.scale + Len(v.digits) - i < 0 => v.digits[i] = 0

\* A whole number from -2^63 up to but not 2^63.
IsInt64(v) ==
  /\ Integral(v)
  /\ SmallerMagnitude(v, TwoTo63) \/ (v.negative /\ SameMagnitude(v, TwoTo63))

\* An infinity is no Value.
Infinity(negative) == [infinite |-> TRUE, negative |-> negative]
Infinities == {Infinity(negative) : negative \in BOOLEAN}

-----------------------------------------------------------------------------
(* Bytes.                                                                  *)

\* x & 0xFF, for the limit 64 of a byte.
LowByte(x) == x % (4 * ExponentLimit)

TopBit == 2 * ExponentLimit

\* Mutant: added instead of or-ed.
SetTopBit_Added(x) == x + TopBit

\* x | 0x80.
SetTopBit(x) == IF x < TopBit THEN x + TopBit ELSE x

\* x ^ 0x7F: the 7 low bits complemented.
FlipLowBits(x) ==
  IF x < TopBit THEN TopBit - 1 - x ELSE 3 * TopBit - 1 - x

Marker == 102

ZeroBytes == <<TopBit>>

-----------------------------------------------------------------------------
(* Encoding.                                                               *)

\* Mutant: zeros at the end are kept.
Significant_KeepsZeros(d) ==
  LET nonZero == {i \in DOMAIN d : d[i] # 0}
      first == CHOOSE i \in nonZero : \A j \in nonZero : i <= j
  IN  SubSeq(d, first, Len(d))

\* digits.lstrip("0") and rstrip("0") of a value that is not zero: the digits
\* from the first to the last that is not 0.
Significant(d) ==
  LET nonZero == {i \in DOMAIN d : d[i] # 0}
      first == CHOOSE i \in nonZero : \A j \in nonZero : i <= j
      last == CHOOSE i \in nonZero : \A j \in nonZero : j <= i
  IN  SubSeq(d, first, last)

\* The exponent of a value written as D.ddd.
Exponent(v) ==
  LET nonZero == {i \in DOMAIN v.digits : v.digits[i] # 0}
      first == CHOOSE i \in nonZero : \A j \in nonZero : i <= j
  IN  v.scale + Len(v.digits) - first

\* A leading zero aligns the pairs with the even exponents.
Paired(d, exp) == IF exp % 2 = 0 THEN <<0>> \o d ELSE d

\* Pair k of the digits; an odd last digit is followed by a 0.
Pair(d, k) == 10 * d[2 * k - 1] + (IF 2 * k \in DOMAIN d THEN d[2 * k] ELSE 0)

PairByte(b, negative) == (IF negative THEN 100 - b ELSE b) + 1

\* Mutant: never.
Marked_Never(d, negative) == FALSE

\* Is there a marker after the pairs of a negative value?
Marked(d, negative) == negative /\ Len(d) < MarkerDigits

\* int(x / 2), towards zero.
HalfTowardsZero(x) == IF x >= 0 THEN x \div 2 ELSE -((-x) \div 2)

\* The exponent of 100 for that of 10.
PairExponent(exp) == HalfTowardsZero(IF exp < 0 THEN exp - 1 ELSE exp) + 1

ExponentByte(e, negative) ==
  IF negative THEN FlipLowBits(LowByte(e + ExponentLimit))
  ELSE SetTopBit(LowByte(e + ExponentLimit))

\* _encode_mantissa.
EncodeMantissa(digits, exp, negative) ==
  LET d == Paired(digits, exp) IN
  <<ExponentByte(PairExponent(exp), negative)>>
    \o [k \in 1 .. (Len(d) + 1) \div 2 |-> PairByte(Pair(d, k), negative)]
    \o (IF Marked(d, negative) THEN <<Marker>> ELSE <<>>)

\* encode_number.
Encoded(v) ==
  IF IsZero(v) THEN ZeroBytes
  ELSE EncodeMantissa(Significant(v.digits), Exponent(v), v.negative)

-----------------------------------------------------------------------------
(* Decoding.                                                               *)

Negative(data) == data[1] < TopBit

DecodedExponent(data) ==
  (IF Negative(data) THEN FlipLowBits(data[1]) ELSE data[1] % TopBit)
    - ExponentLimit

\* The mantissa, without the marker of a negative value.
Mantissa(data) ==
  IF Negative(data) /\ data[Len(data)] = Marker
  THEN SubSeq(data, 2, Len(data) - 1)
  ELSE SubSeq(data, 2, Len(data))

DecodedPair(b, negative) == IF negative THEN 100 - (b - 1) ELSE b - 1

\* _decode_raw.
Decoded(data) ==
  LET pairs == Mantissa(data)
      pair(k) == DecodedPair(pairs[k], Negative(data))
      digits == [i \in 1 .. 2 * Len(pairs) |->
                   IF i % 2 = 1 THEN pair((i + 1) \div 2) \div 10
                   ELSE pair(i \div 2) % 10]
  IN  IF data = ZeroBytes
      THEN [digits |-> <<0>>, scale |-> 0, negative |-> FALSE]
      ELSE [digits |-> digits,
            scale |-> DecodedExponent(data) * 2 - Len(digits),
            negative |-> Negative(data)]

PositiveInfinity == <<4 * ExponentLimit - 1, 101>>
NegativeInfinity == <<0>>

\* int(digits).
WholeOf(digits) ==
  LET whole[n \in 0 .. Len(digits)] ==
        IF n = 0 THEN 0 ELSE 10 * whole[n - 1] + digits[n]
  IN  whole[Len(digits)]

\* The powers of two up to that of n.
Powers(n) ==
  LET power[k \in 0 .. n] == IF k = 0 THEN 1 ELSE 2 * power[k - 1]
  IN  {power[k] : k \in 0 .. n}

\* The multiple of step nearest to n, the even one of two.
Nearest(n, step) ==
  LET below == n \div step
      up == 2 * (n % step) > step \/ (2 * (n % step) = step /\ below % 2 = 1)
  IN  step * (IF up THEN below + 1 ELSE below)

\* float(int(digits)): from twice FullMantissa on, some whole numbers have none.
FloatOf(digits) ==
  LET n == WholeOf(digits) IN
  IF n < 2 * FullMantissa THEN n
  ELSE Nearest(n, CHOOSE step \in Powers(4 * Len(digits)) :
                    n \div step \in FullMantissa .. 2 * FullMantissa - 1)

\* _round_half_away of such a float: when it takes all bits, x + 0.5 lies
\* halfway between two floats and becomes the even one.
AddHalf(x) ==
  IF x \in FullMantissa .. 2 * FullMantissa - 1 /\ x % 2 = 1 THEN x + 1 ELSE x

\* decode_number: an int, or the float of mantissa * 10^scale, where the last
\* multiplication is not carried out, nor its overflow, which needs more digits
\* than a NUMBER of the server has.
DecodedNumber(data) ==
  LET raw == Decoded(data) IN
  IF data \in {PositiveInfinity, NegativeInfinity} THEN Infinity(data = NegativeInfinity)
  ELSE IF IsInt64(raw) THEN raw
  ELSE [mantissa |-> IF raw.scale < 0 THEN AddHalf(FloatOf(raw.digits))
                     ELSE FloatOf(raw.digits),
        scale |-> raw.scale, negative |-> raw.negative]

-----------------------------------------------------------------------------
(* What decoding keeps.                                                    *)

\* The float's whole number n differs from that of the digits, m, by at most
\* a part in FullMantissa, and not at all from one that leaves a bit.
CloseTo(n, m) ==
  /\ m < FullMantissa => n = m
  /\ (IF n < m THEN m - n ELSE n - m) * FullMantissa <= m

\* The float has the value's sign, and, of its digits, what a float keeps.
Rounded(float, v) ==
  /\ float.negative <=> v.negative
  /\ \E n \in 1 .. Len(v.digits) + 2 :
       /\ \A w \in Weights(v, v) :
            DigitAt(v, w) # 0 => w \in float.scale .. float.scale + n - 1
       /\ CloseTo(float.mantissa, WholeOf([i \in 1 .. n |-> DigitAt(v, float.scale + n - i)]))

\* What is decoded of a value's bytes.
SameNumber(u, v) ==
  CASE v \in Infinities -> u = v
    [] v \notin Infinities /\ IsInt64(v) -> Same(u, v)
    [] OTHER -> Rounded(u, v)

-----------------------------------------------------------------------------
\* The values whose exponent of 100 fits into the exponent byte: of those that
\* are not zero, 10^-130 up to but not 10^126.
InRange(v) ==
  IsZero(v) \/ Exponent(v) \in -2 * ExponentLimit - 2 .. 2 * ExponentLimit - 3

\* The bytes of one sequence come before those of the other.
Before(s, t) ==
  \E i \in 1 .. Len(s) + 1 :
    /\ \A j \in 1 .. i - 1 : j \in DOMAIN t /\ s[j] = t[j]
    /\ i \in DOMAIN t
    /\ i \in DOMAIN s => s[i] < t[i]
=============================================================================
