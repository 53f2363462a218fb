-------------------------- MODULE Messages_proofs --------------------------
(***************************************************************************)
(* Proofs about Messages.tla: what is got is what was put.                 *)
(*                                                                         *)
(* The first part is about the NUMBERs that are bound: for values of any   *)
(* digits, number of digits and weight, equal values have the same bytes,  *)
(* the bytes compare as the values do, and decode_number makes of them an  *)
(* integer of 64 bits exactly and of any other value a float close to it   *)
(* (to one part in FullMantissa).  Whatever digits a value is written      *)
(* with, its bytes depend on what it stands for alone, that is on DigitAt: *)
(* the weight of its first pair of digits (Top), how many pairs there are  *)
(* down to the last that is not zero (Pairs), and the pairs (PairAt).      *)
(* EncodedBytes says so, and the theorems follow from it.                  *)
(*                                                                         *)
(* The second part is about whole messages.  A field is Faithful when      *)
(* reading its bytes, whatever follows them, gives its value and leaves    *)
(* what follows, or raises exactly when it should.  The invariant Ordered  *)
(* says that a message of faithful fields has on the wire the bytes of the *)
(* fields that were put and not yet got, one field after the other, and    *)
(* that what was got is what was put; every step keeps it, so that it is   *)
(* enough to look at one field at a time.                                  *)
(*                                                                         *)
(* The third part does that, for integers, byte strings, keys with values, *)
(* and the values of binds and columns, from the lemmas about the codec of *)
(* WireCodec_proofs.                                                       *)
(*                                                                         *)
(* The fourth part is about a logon: the server reads the name and the     *)
(* keys with values that the client wrote, opens the boxes with its own    *)
(* keys, and lets in whom it should.                                       *)
(***************************************************************************)
EXTENDS Messages, WireCodec_proofs

-----------------------------------------------------------------------------
(* Digits.                                                                 *)

\* The parts of a value.
LEMMA Parts ==
  ASSUME NEW v \in Value
  PROVE  /\ Len(v.digits) \in Nat \ {0} /\ Len(v.digits) <= MaxDigits
         /\ DOMAIN v.digits = 1 .. Len(v.digits)
         /\ v.digits \in Seq(0 .. 9)
         /\ \A i \in 1 .. Len(v.digits) : v.digits[i] \in 0 .. 9
         /\ v.scale \in Int /\ v.negative \in BOOLEAN
<1>1. PICK n \in 1 .. MaxDigits : v.digits \in [1 .. n -> Digit]
  BY DEF Value
<1>2. n \in Nat \ {0} /\ n <= MaxDigits
  BY <1>1, DigitsAssumption
<1>3. v.digits \in [1 .. n -> 0 .. 9]
  BY <1>1, DigitsAssumption
<1>4. v.digits \in Seq(0 .. 9) /\ Len(v.digits) = n
  BY <1>2, <1>3
<1>5. v.scale \in Int /\ v.negative \in BOOLEAN
  BY DigitsAssumption DEF Value
<1> QED BY <1>2, <1>3, <1>4, <1>5

\* The digit of any weight is one.
LEMMA DigitsAreDigits ==
  ASSUME NEW v \in Value, NEW w \in Int
  PROVE  DigitAt(v, w) \in 0 .. 9
BY Parts DEF DigitAt

\* The weight of the last digit that is not zero.
Lowest(v) ==
  CHOOSE w \in Int : DigitAt(v, w) # 0 /\ \A x \in Int : x < w => DigitAt(v, x) = 0

\* The first and the last digit that is not zero.
LEMMA FirstAndLast ==
  ASSUME NEW v \in Value, ~IsZero(v)
  PROVE  \E f, l \in 1 .. Len(v.digits) :
           /\ f <= l /\ v.digits[f] # 0 /\ v.digits[l] # 0
           /\ \A i \in 1 .. Len(v.digits) : i < f \/ i > l => v.digits[i] = 0
           /\ Significant(v.digits) = SubSeq(v.digits, f, l)
           /\ Exponent(v) = v.scale + Len(v.digits) - f
<1> DEFINE nonZero == {i \in DOMAIN v.digits : v.digits[i] # 0}
           first == CHOOSE i \in nonZero : \A j \in nonZero : i <= j
           last == CHOOSE i \in nonZero : \A j \in nonZero : j <= i
           back == {Len(v.digits) - i : i \in nonZero}
<1>1. /\ Len(v.digits) \in Nat /\ DOMAIN v.digits = 1 .. Len(v.digits)
      /\ nonZero \subseteq 1 .. Len(v.digits) /\ nonZero # {}
  BY Parts DEF IsZero
<1>2. first \in nonZero /\ \A j \in nonZero : first <= j
  <2>1. nonZero \subseteq Nat
    BY <1>1
  <2> HIDE DEF nonZero
  <2>2. \E i \in nonZero : \A j \in nonZero : i <= j
    BY <1>1, <2>1, LeastElement
  <2> QED BY <2>2
<1>3. last \in nonZero /\ \A j \in nonZero : j <= last
  <2>1. back \subseteq Nat /\ back # {}
    <3>1. \A i \in nonZero : Len(v.digits) - i \in Nat
      BY <1>1
    <3> HIDE DEF nonZero
    <3> QED BY <1>1, <3>1
  <2>2. PICK m \in back : \A k \in back : m <= k
    <3> HIDE DEF back
    <3> QED BY <2>1, LeastElement
  <2>3. PICK i \in nonZero : m = Len(v.digits) - i
    BY <2>2
  <2>4. ASSUME NEW j \in nonZero PROVE j <= i
    <3>1. Len(v.digits) - i <= Len(v.digits) - j
      BY <2>2, <2>3
    <3>2. i \in Int /\ j \in Int
      BY <1>1, <2>3, <2>4
    <3> QED BY <1>1, <3>1, <3>2
  <2>5. \E x \in nonZero : \A j \in nonZero : j <= x
    BY <2>3, <2>4
  <2> HIDE DEF nonZero
  <2> QED BY <2>5
<1>4. Significant(v.digits) = SubSeq(v.digits, first, last)
  BY DEF Significant
<1>5. Exponent(v) = v.scale + Len(v.digits) - first
  BY DEF Exponent
<1> HIDE DEF first, last
<1>6. first \in 1 .. Len(v.digits) /\ last \in 1 .. Len(v.digits) /\ first <= last
      /\ v.digits[first] # 0 /\ v.digits[last] # 0
  BY <1>1, <1>2, <1>3
<1>7. ASSUME NEW i \in 1 .. Len(v.digits), i < first \/ i > last
      PROVE  v.digits[i] = 0
  BY <1>1, <1>2, <1>3, <1>6, <1>7
<1> QED BY <1>4, <1>5, <1>6, <1>7

\* Where a value that is not zero begins and ends, and its digits between.
LEMMA Weight ==
  ASSUME NEW v \in Value, ~IsZero(v)
  PROVE  /\ Exponent(v) \in Int /\ Lowest(v) \in Int /\ Lowest(v) <= Exponent(v)
         /\ DigitAt(v, Exponent(v)) # 0 /\ DigitAt(v, Lowest(v)) # 0
         /\ \A x \in Int : x > Exponent(v) \/ x < Lowest(v) => DigitAt(v, x) = 0
         /\ Significant(v.digits) \in Seq(0 .. 9)
         /\ Len(Significant(v.digits)) = Exponent(v) - Lowest(v) + 1
         /\ \A i \in 1 .. Exponent(v) - Lowest(v) + 1 :
              Significant(v.digits)[i] = DigitAt(v, Exponent(v) + 1 - i)
         /\ Exponent(v) - Lowest(v) + 1 <= Len(v.digits)
<1>1. PICK n \in Nat, c \in Int : n = Len(v.digits) /\ c = v.scale
  BY Parts
<1>2. PICK f \in 1 .. n, l \in 1 .. n :
        /\ f <= l /\ v.digits[f] # 0 /\ v.digits[l] # 0
        /\ \A i \in 1 .. n : i < f \/ i > l => v.digits[i] = 0
        /\ Significant(v.digits) = SubSeq(v.digits, f, l)
        /\ Exponent(v) = c + n - f
  BY <1>1, FirstAndLast
<1>3. DOMAIN v.digits = 1 .. n /\ v.digits \in Seq(0 .. 9)
  BY <1>1, Parts
<1>4. f \in Int /\ 1 <= f /\ l \in Int /\ l <= n /\ f <= l
  BY <1>2
<1>5. PICK low \in Int : low = c + n - l
  OBVIOUS
<1>6. \A w \in Int : DigitAt(v, w) =
        IF n - (w - c) \in 1 .. n THEN v.digits[n - (w - c)] ELSE 0
  BY <1>1, <1>3 DEF DigitAt
<1>7. DigitAt(v, c + n - f) # 0
  <2>1. n - ((c + n - f) - c) = f /\ c + n - f \in Int
    BY <1>4
  <2> QED BY <1>2, <1>6, <2>1
<1>8. DigitAt(v, low) # 0
  <2>1. n - (low - c) = l
    BY <1>4, <1>5
  <2> QED BY <1>2, <1>6, <2>1
<1>9. ASSUME NEW x \in Int, x > c + n - f \/ x < low PROVE DigitAt(v, x) = 0
  <2>1. PICK i \in Int : i = n - (x - c)
    OBVIOUS
  <2>2. i < f \/ i > l
    BY <1>4, <1>5, <1>9, <2>1
  <2> QED BY <1>2, <1>6, <2>1, <2>2
<1>10. Lowest(v) = low
  <2>1. \A x \in Int : x < low => DigitAt(v, x) = 0
    BY <1>9
  <2>2. ASSUME NEW w \in Int, DigitAt(v, w) # 0,
               \A x \in Int : x < w => DigitAt(v, x) = 0
        PROVE  w = low
    <3>1. ~(w < low) /\ ~(low < w)
      BY <1>8, <2>1, <2>2
    <3> QED BY <3>1
  <2> QED BY <1>8, <2>1, <2>2 DEF Lowest
<1>11. /\ c + n - f - low + 1 = l - f + 1 /\ l - f + 1 <= n /\ low <= c + n - f
       /\ c + n - f \in Int
  BY <1>4, <1>5
<1>12. /\ SubSeq(v.digits, f, l) \in Seq(0 .. 9)
       /\ Len(SubSeq(v.digits, f, l)) = l - f + 1
       /\ \A i \in 1 .. l - f + 1 : SubSeq(v.digits, f, l)[i] = v.digits[f + i - 1]
  <2>1. \A i \in f .. l : v.digits[i] \in 0 .. 9
    BY <1>1, <1>4, Parts
  <2> QED BY <1>4, <2>1, SubSeqProperties
<1>13. ASSUME NEW i \in 1 .. l - f + 1
       PROVE  v.digits[f + i - 1] = DigitAt(v, c + n - f + 1 - i)
  <2>1. PICK w \in Int : w = c + n - f + 1 - i
    OBVIOUS
  <2>2. n - (w - c) = f + i - 1 /\ f + i - 1 \in 1 .. n
    BY <1>4, <2>1
  <2> QED BY <1>6, <2>1, <2>2
<1>14. Exponent(v) = c + n - f /\ Lowest(v) = low
       /\ Exponent(v) - Lowest(v) + 1 = l - f + 1
  BY <1>2, <1>10, <1>11
<1>15. \A x \in Int : x > Exponent(v) \/ x < Lowest(v) => DigitAt(v, x) = 0
  BY <1>9, <1>14
<1>16. \A i \in 1 .. Exponent(v) - Lowest(v) + 1 :
         Significant(v.digits)[i] = DigitAt(v, Exponent(v) + 1 - i)
  BY <1>2, <1>12, <1>13, <1>14
<1>17. Len(Significant(v.digits)) = Exponent(v) - Lowest(v) + 1
       /\ Significant(v.digits) \in Seq(0 .. 9)
  BY <1>2, <1>12, <1>14
<1>18. DigitAt(v, Exponent(v)) # 0 /\ DigitAt(v, Lowest(v)) # 0
  BY <1>7, <1>8, <1>14
<1>19. /\ Exponent(v) \in Int /\ Lowest(v) \in Int /\ Lowest(v) <= Exponent(v)
       /\ Exponent(v) - Lowest(v) + 1 <= Len(v.digits)
  BY <1>1, <1>11, <1>14
<1> QED BY <1>15, <1>16, <1>17, <1>18, <1>19
-----------------------------------------------------------------------------
(* Bytes.                                                                  *)

\* The weight of the first digit of the first pair, which is odd.
Top(v) == IF Exponent(v) % 2 = 0 THEN Exponent(v) + 1 ELSE Exponent(v)

\* How many pairs there are, and pair k.
Pairs(v) == (Top(v) - Lowest(v) + 2) \div 2

PairAt(v, k) ==
  10 * DigitAt(v, Top(v) - 2 * k + 2) + DigitAt(v, Top(v) - 2 * k + 1)

\* Its exponent of 100.
TopPair(v) == (Top(v) + 1) \div 2

\* A marker follows the pairs.
WithMarker(v) == v.negative /\ Top(v) - Lowest(v) + 1 < MarkerDigits

\* Where the pairs are: from the odd weight Top down to that of the last digit.
LEMMA PairsSpan ==
  ASSUME NEW v \in Value, ~IsZero(v)
  PROVE  /\ Top(v) \in Int /\ Top(v) % 2 = 1 /\ Lowest(v) \in Int
         /\ Exponent(v) <= Top(v) /\ Top(v) <= Exponent(v) + 1
         /\ Top(v) = 2 * TopPair(v) - 1 /\ TopPair(v) \in Int
         /\ Pairs(v) \in Nat \ {0}
         /\ Top(v) - 2 * Pairs(v) + 1 <= Lowest(v)
         /\ Lowest(v) <= Top(v) - 2 * Pairs(v) + 2
         /\ Pairs(v) = (Top(v) - Lowest(v) + 1 + 1) \div 2
         /\ \A x \in Int : x > Top(v) \/ x < Lowest(v) => DigitAt(v, x) = 0
<1>1. PICK e \in Int, l \in Int : e = Exponent(v) /\ l = Lowest(v) /\ l <= e
  BY Weight
<1>2. PICK t \in Int : t = IF e % 2 = 0 THEN e + 1 ELSE e
  OBVIOUS
<1>3. t % 2 = 1 /\ e <= t /\ t <= e + 1
  BY <1>2
<1>4. Top(v) = t
  BY <1>1, <1>2 DEF Top
<1>5. t = 2 * ((t + 1) \div 2) - 1 /\ (t + 1) \div 2 \in Int
  BY <1>3
<1>6. PICK n \in Int : n = (t - l + 2) \div 2
  OBVIOUS
<1>7. n \in Nat \ {0} /\ t - 2 * n + 1 <= l /\ l <= t - 2 * n + 2
      /\ n = (t - l + 1 + 1) \div 2
  BY <1>1, <1>3, <1>6
<1>8. Pairs(v) = n
  BY <1>1, <1>4, <1>6 DEF Pairs
<1>9. TopPair(v) = (t + 1) \div 2
  BY <1>4 DEF TopPair
<1>10. ASSUME NEW x \in Int, x > t \/ x < l PROVE DigitAt(v, x) = 0
  <2>1. x > e \/ x < l
    BY <1>3, <1>10
  <2> QED BY <1>1, <2>1, Weight
<1> QED BY <1>1, <1>3, <1>4, <1>5, <1>7, <1>8, <1>9, <1>10

\* The digits that are paired go from Top to the last that is not zero.
LEMMA AlignedDigits ==
  ASSUME NEW v \in Value, ~IsZero(v), NEW d,
         d = Paired(Significant(v.digits), Exponent(v))
  PROVE  /\ d \in Seq(0 .. 9) /\ Len(d) = Top(v) - Lowest(v) + 1
         /\ \A i \in 1 .. Len(d) : d[i] = DigitAt(v, Top(v) + 1 - i)
<1>1. PICK e \in Int, l \in Int, s \in Seq(0 .. 9) :
        /\ e = Exponent(v) /\ l = Lowest(v) /\ s = Significant(v.digits)
        /\ l <= e /\ Len(s) = e - l + 1
        /\ \A i \in 1 .. e - l + 1 : s[i] = DigitAt(v, e + 1 - i)
        /\ \A x \in Int : x > e => DigitAt(v, x) = 0
  BY Weight
<1>2. CASE e % 2 = 0
  <2>1. d = << 0 >> \o s /\ Top(v) = e + 1
    BY <1>1, <1>2 DEF Paired, Top
  <2>2. /\ d \in Seq(0 .. 9) /\ Len(d) = e - l + 2 /\ d[1] = 0
        /\ \A i \in 2 .. e - l + 2 : d[i] = s[i - 1]
    <3>a. PICK z : z = << 0 >>
      OBVIOUS
    <3>1. z = << 0 >> /\ z \in Seq(0 .. 9)
      <4>1. 0 \in 0 .. 9
        OBVIOUS
      <4>2. << 0 >> \in Seq(0 .. 9)
        BY <4>1
      <4> QED BY <3>a, <4>2
    <3>2. Len(z) = 1 /\ z[1] = 0 /\ Len(s) = e - l + 1 /\ Len(s) \in Nat
      BY <1>1, <3>1
    <3>3. /\ z \o s \in Seq(0 .. 9) /\ Len(z \o s) = Len(z) + Len(s)
          /\ \A i \in 1 .. Len(z) + Len(s) :
               (z \o s)[i] = IF i <= Len(z) THEN z[i] ELSE s[i - Len(z)]
      BY <3>1, ConcatProperties
    <3>4. d = z \o s /\ Len(z) + Len(s) = e - l + 2
      BY <2>1, <3>1, <3>2
    <3>5. (z \o s)[1] = 0
      <4>1. 1 \in 1 .. Len(z) + Len(s)
        BY <3>2
      <4> QED BY <3>2, <3>3, <4>1
    <3>6. ASSUME NEW i \in 2 .. e - l + 2 PROVE (z \o s)[i] = s[i - 1]
      <4>1. i \in 1 .. Len(z) + Len(s) /\ ~(i <= Len(z)) /\ i - Len(z) = i - 1
        BY <3>2, <3>4
      <4> QED BY <3>3, <4>1
    <3> QED BY <3>3, <3>4, <3>5, <3>6
  <2>3. ASSUME NEW i \in 1 .. e - l + 2 PROVE d[i] = DigitAt(v, e + 1 + 1 - i)
    <3>1. CASE i = 1
      <4>1. e + 1 + 1 - i = e + 1 /\ e + 1 > e
        BY <3>1
      <4> QED BY <1>1, <2>2, <3>1, <4>1
    <3>2. CASE i # 1
      <4>1. i \in 2 .. e - l + 2 /\ i - 1 \in 1 .. e - l + 1
            /\ e + 1 - (i - 1) = e + 1 + 1 - i
        BY <1>1, <3>2
      <4> QED BY <1>1, <2>2, <4>1
    <3> QED BY <3>1, <3>2
  <2>4. e - l + 2 = (e + 1) - l + 1
    OBVIOUS
  <2> QED BY <1>1, <2>1, <2>2, <2>3, <2>4
<1>3. CASE e % 2 # 0
  <2>1. d = s /\ Top(v) = e
    BY <1>1, <1>3 DEF Paired, Top
  <2> QED BY <1>1, <2>1
<1> QED BY <1>2, <1>3

\* HalfTowardsZero makes the exponent of 100 of that of 10, for both signs.
LEMMA ExponentOfPairs ==
  ASSUME NEW e \in Int
  PROVE  PairExponent(e) = ((IF e % 2 = 0 THEN e + 1 ELSE e) + 1) \div 2
<1>1. CASE e >= 0
  BY <1>1 DEF PairExponent, HalfTowardsZero
<1>2. CASE e < 0
  <2>1. PairExponent(e) = -((1 - e) \div 2) + 1
    <3>1. ~(e - 1 >= 0) /\ -(e - 1) = 1 - e
      BY <1>2
    <3> QED BY <1>2, <3>1 DEF PairExponent, HalfTowardsZero
  <2> QED BY <1>2, <2>1
<1> QED BY <1>1, <1>2

\* What encode_number puts out for a value that is not zero.
LEMMA EncodedBytes ==
  ASSUME NEW v \in Value, ~IsZero(v)
  PROVE  /\ Encoded(v) \in Seq(Int)
         /\ Len(Encoded(v)) = Pairs(v) + (IF WithMarker(v) THEN 2 ELSE 1)
         /\ Encoded(v)[1] = ExponentByte(TopPair(v), v.negative)
         /\ \A k \in 1 .. Pairs(v) :
              Encoded(v)[k + 1] = PairByte(PairAt(v, k), v.negative)
         /\ WithMarker(v) => Encoded(v)[Pairs(v) + 2] = Marker
<1> DEFINE d == Paired(Significant(v.digits), Exponent(v))
<1>1. /\ d \in Seq(0 .. 9) /\ Len(d) = Top(v) - Lowest(v) + 1
      /\ \A i \in 1 .. Len(d) : d[i] = DigitAt(v, Top(v) + 1 - i)
  BY AlignedDigits
<1>a. PICK n \in Nat, t \in Int, l \in Int :
        n = Pairs(v) /\ t = Top(v) /\ l = Lowest(v)
  BY PairsSpan
<1>b. n = (t - l + 1 + 1) \div 2
  BY <1>a, PairsSpan
<1>2. /\ n = Pairs(v) /\ t = Top(v) /\ l = Lowest(v) /\ n > 0
      /\ t - 2 * n + 1 <= l /\ l <= t - 2 * n + 2
      /\ \A x \in Int : x < l => DigitAt(v, x) = 0
  BY <1>a, PairsSpan
<1>3. ASSUME NEW k \in 1 .. n PROVE Pair(d, k) = PairAt(v, k) /\ Pair(d, k) \in Int
  <2>1. PICK m \in Nat : m = Len(d) /\ m = t - l + 1 /\ DOMAIN d = 1 .. m
    <3> HIDE DEF d
    <3> QED BY <1>1, <1>2
  <2>2. 2 * k - 1 \in 1 .. m /\ t + 1 - (2 * k - 1) = t - 2 * k + 2
    <3>1. m = t - l + 1 /\ l <= t - 2 * n + 2 /\ 1 <= k /\ k <= n /\ k \in Int
      BY <1>2, <2>1
    <3>2. 2 * k - 1 <= m /\ 1 <= 2 * k - 1 /\ 2 * k - 1 \in Int
      BY <3>1
    <3>3. t + 1 - (2 * k - 1) = t - 2 * k + 2
      BY <3>1
    <3> QED BY <3>2, <3>3
  <2>3. d[2 * k - 1] = DigitAt(v, t - 2 * k + 2) /\ d[2 * k - 1] \in 0 .. 9
    <3>1. Top(v) + 1 - (2 * k - 1) = t - 2 * k + 2
      BY <1>2, <2>2
    <3> HIDE DEF d
    <3> QED BY <1>1, <2>1, <2>2, <3>1
  <2>4. (IF 2 * k \in DOMAIN d THEN d[2 * k] ELSE 0) = DigitAt(v, t - 2 * k + 1)
    <3>1. CASE 2 * k \in 1 .. m
      <4>1. t + 1 - 2 * k = t - 2 * k + 1
        OBVIOUS
      <4> QED BY <1>1, <1>2, <2>1, <3>1, <4>1
    <3>2. CASE 2 * k \notin 1 .. m
      <4>1. t - 2 * k + 1 < l /\ t - 2 * k + 1 \in Int
        BY <2>1, <3>2
      <4> QED BY <1>2, <2>1, <3>2, <4>1
    <3> QED BY <3>1, <3>2
  <2>5. DigitAt(v, t - 2 * k + 1) \in 0 .. 9
    BY DigitsAreDigits
  <2> HIDE DEF d
  <2> QED BY <1>2, <2>3, <2>4, <2>5 DEF Pair, PairAt
<1>4. PairExponent(Exponent(v)) = TopPair(v) /\ TopPair(v) \in Int
  BY Weight, ExponentOfPairs, PairsSpan DEF TopPair, Top
<1>5. Marked(d, v.negative) <=> WithMarker(v)
  BY <1>1 DEF Marked, WithMarker
<1> DEFINE head == ExponentByte(TopPair(v), v.negative)
           pairs == [k \in 1 .. n |-> PairByte(Pair(d, k), v.negative)]
           tail == IF WithMarker(v) THEN <<Marker>> ELSE <<>>
<1>6. Encoded(v) = (<<head>> \o pairs) \o tail
  BY <1>1, <1>a, <1>b, <1>4, <1>5 DEF Encoded, EncodeMantissa
<1>7. head \in Int
  BY <1>4, LimitAssumption DEF ExponentByte, FlipLowBits, SetTopBit, LowByte, TopBit
<1>8. pairs \in Seq(Int) /\ Len(pairs) = n
  <2>1. \A k \in 1 .. n : PairByte(Pair(d, k), v.negative) \in Int
    BY <1>3 DEF PairByte
  <2> HIDE DEF d
  <2> QED BY <2>1
<1>9. \A k \in 1 .. n : pairs[k] = PairByte(PairAt(v, k), v.negative)
  BY <1>3
<1>10. tail \in Seq(Int) /\ Len(tail) = (IF WithMarker(v) THEN 1 ELSE 0)
       /\ (WithMarker(v) => tail[1] = Marker)
  BY DEF Marker
<1> HIDE DEF d, head, pairs, tail
<1>11. PICK x : x = <<head>> \o pairs
  OBVIOUS
<1>12. x \in Seq(Int) /\ Len(x) = n + 1 /\ x[1] = head
       /\ \A k \in 1 .. n : x[k + 1] = pairs[k]
  BY <1>7, <1>8, <1>11
<1>13. /\ Encoded(v) = x \o tail /\ x \o tail \in Seq(Int)
       /\ Len(x \o tail) = n + 1 + Len(tail)
       /\ \A i \in 1 .. n + 1 : (x \o tail)[i] = x[i]
       /\ Len(tail) = 1 => (x \o tail)[n + 2] = tail[1]
  <2>1. Len(tail) \in Nat /\ tail \in Seq(Int) /\ x \in Seq(Int) /\ Len(x) = n + 1
    BY <1>10, <1>12
  <2>2. /\ x \o tail \in Seq(Int) /\ Len(x \o tail) = Len(x) + Len(tail)
        /\ \A i \in 1 .. Len(x) + Len(tail) :
             (x \o tail)[i] = IF i <= Len(x) THEN x[i] ELSE tail[i - Len(x)]
    BY <2>1, ConcatProperties
  <2>3. ASSUME Len(tail) = 1 PROVE (x \o tail)[n + 2] = tail[1]
    <3>1. n + 2 \in 1 .. Len(x) + Len(tail) /\ ~(n + 2 <= Len(x)) /\ n + 2 - Len(x) = 1
      BY <2>1, <2>3
    <3> QED BY <2>2, <3>1
  <2>4. ASSUME NEW i \in 1 .. n + 1 PROVE (x \o tail)[i] = x[i]
    BY <2>1, <2>2
  <2> QED BY <1>6, <1>11, <2>1, <2>2, <2>3, <2>4
<1>14. Encoded(v)[1] = head
  BY <1>12, <1>13
<1>15. \A k \in 1 .. n : Encoded(v)[k + 1] = PairByte(PairAt(v, k), v.negative)
  <2>1. \A k \in 1 .. n : k + 1 \in 1 .. n + 1
    OBVIOUS
  <2> QED BY <1>9, <1>12, <1>13, <2>1
<1>16. Encoded(v) \in Seq(Int)
       /\ Len(Encoded(v)) = n + (IF WithMarker(v) THEN 2 ELSE 1)
  BY <1>10, <1>13
<1>17. WithMarker(v) => Encoded(v)[n + 2] = Marker
  BY <1>10, <1>13
<1> QED BY <1>a, <1>14, <1>15, <1>16, <1>17 DEF head

-----------------------------------------------------------------------------
(* Equal values have the same bytes.                                       *)

\* A digit that is not zero is one of those written.
LEMMA WrittenDigits ==
  ASSUME NEW v \in Value, NEW w \in Int, DigitAt(v, w) # 0
  PROVE  w \in {v.scale + i : i \in 0 .. Len(v.digits)}
<1>1. PICK n \in Nat, c \in Int :
        n = Len(v.digits) /\ c = v.scale /\ DOMAIN v.digits = 1 .. n
  BY Parts
<1>2. n - (w - c) \in 1 .. n
  BY <1>1 DEF DigitAt
<1>3. w - c \in 0 .. n /\ w = c + (w - c)
  BY <1>2
<1> QED BY <1>1, <1>3

\* Values of the same magnitude have the same digits, of whatever weight.
LEMMA SameDigits ==
  ASSUME NEW v \in Value, NEW u \in Value, SameMagnitude(v, u), NEW w \in Int
  PROVE  DigitAt(v, w) = DigitAt(u, w)
BY WrittenDigits DEF SameMagnitude, Weights

\* A value is zero if all its digits are.
LEMMA ZeroDigits ==
  ASSUME NEW v \in Value
  PROVE  IsZero(v) <=> \A w \in Int : DigitAt(v, w) = 0
<1>1. PICK n \in Nat, c \in Int :
        n = Len(v.digits) /\ c = v.scale /\ DOMAIN v.digits = 1 .. n
  BY Parts
<1>2. ASSUME IsZero(v), NEW w \in Int PROVE DigitAt(v, w) = 0
  BY <1>2 DEF IsZero, DigitAt
<1>3. ASSUME ~IsZero(v) PROVE \E w \in Int : DigitAt(v, w) # 0
  BY <1>3, Weight
<1> QED BY <1>2, <1>3

\* What the same digits agree in.
LEMMA SameSpan ==
  ASSUME NEW v \in Value, NEW u \in Value, ~IsZero(v), ~IsZero(u),
         \A w \in Int : DigitAt(v, w) = DigitAt(u, w)
  PROVE  Exponent(v) = Exponent(u) /\ Lowest(v) = Lowest(u)
<1>1. /\ Exponent(v) \in Int /\ Exponent(u) \in Int
      /\ Lowest(v) \in Int /\ Lowest(u) \in Int
  BY Weight
<1>2. ~(Exponent(v) < Exponent(u)) /\ ~(Lowest(u) < Lowest(v))
  BY <1>1, Weight
<1>3. ~(Exponent(u) < Exponent(v)) /\ ~(Lowest(v) < Lowest(u))
  BY <1>1, Weight
<1> QED BY <1>1, <1>2, <1>3

\* encode_number puts out the same bytes for equal values, however many zeros
\* they are written with and whatever the weight of their last digit.
THEOREM EqualEncodings ==
  ASSUME NEW v \in Value, NEW u \in Value, Same(v, u)
  PROVE  Encoded(v) = Encoded(u)
<1>1. \A w \in Int : DigitAt(v, w) = DigitAt(u, w)
  BY SameDigits DEF Same
<1>2. IsZero(v) <=> IsZero(u)
  BY <1>1, ZeroDigits
<1>3. CASE IsZero(v)
  BY <1>2, <1>3 DEF Encoded
<1>4. CASE ~IsZero(v)
  <2>1. ~IsZero(u) /\ v.negative = u.negative
    BY <1>2, <1>4, Parts DEF Same
  <2>2. Exponent(v) = Exponent(u) /\ Lowest(v) = Lowest(u)
    BY <1>1, <1>4, <2>1, SameSpan
  <2>3. Top(v) = Top(u)
    BY <2>2 DEF Top
  <2>4. /\ Pairs(v) = Pairs(u) /\ TopPair(v) = TopPair(u)
        /\ WithMarker(v) <=> WithMarker(u)
    BY <2>1, <2>2, <2>3 DEF Pairs, TopPair, WithMarker
  <2>5. Pairs(v) \in Nat \ {0} /\ Top(v) \in Int
    BY <1>4, PairsSpan
  <2>6. ASSUME NEW k \in 1 .. Pairs(v) PROVE PairAt(v, k) = PairAt(u, k)
    <3>1. Top(v) - 2 * k + 2 \in Int /\ Top(v) - 2 * k + 1 \in Int
      BY <2>5
    <3> QED BY <1>1, <2>3, <3>1 DEF PairAt
  <2>7. PICK s \in Seq(Int), t \in Seq(Int), n \in Nat :
          s = Encoded(v) /\ t = Encoded(u) /\ n = Pairs(v)
    BY <1>4, <2>1, <2>5, EncodedBytes
  <2>8. Len(s) = Len(t) /\ Len(s) = n + (IF WithMarker(v) THEN 2 ELSE 1)
    BY <1>4, <2>1, <2>4, <2>7, EncodedBytes
  <2>9. \A k \in 1 .. n : s[k + 1] = t[k + 1]
    BY <1>4, <2>1, <2>4, <2>6, <2>7, EncodedBytes
  <2>10. ASSUME NEW i \in 1 .. Len(s) PROVE s[i] = t[i]
    <3>1. CASE i = 1
      BY <1>4, <2>1, <2>4, <2>7, <3>1, EncodedBytes
    <3>2. CASE i \in 2 .. n + 1
      <4>1. i - 1 \in 1 .. n /\ (i - 1) + 1 = i
        BY <3>2
      <4> QED BY <2>9, <4>1
    <3>3. CASE i \notin 1 .. n + 1
      <4>1. WithMarker(v) /\ i = n + 2
        BY <2>8, <3>3
      <4> QED BY <1>4, <2>1, <2>4, <2>7, <4>1, EncodedBytes
    <3>4. i = 1 \/ i \in 2 .. n + 1 \/ i \notin 1 .. n + 1
      BY <2>8
    <3> QED BY <3>1, <3>2, <3>3, <3>4
  <2> QED BY <2>7, <2>8, <2>10, SeqEqual
<1> QED BY <1>3, <1>4

-----------------------------------------------------------------------------
(* The bytes compare as the values do.                                     *)

\* A pair is a number of two digits.
LEMMA PairRange ==
  ASSUME NEW v \in Value, ~IsZero(v), NEW k \in Int
  PROVE  PairAt(v, k) \in 0 .. 99
<1>1. Top(v) - 2 * k + 2 \in Int /\ Top(v) - 2 * k + 1 \in Int
  BY PairsSpan
<1>2. DigitAt(v, Top(v) - 2 * k + 2) \in 0 .. 9 /\ DigitAt(v, Top(v) - 2 * k + 1) \in 0 .. 9
  BY <1>1, DigitsAreDigits
<1> QED BY <1>2 DEF PairAt

\* A number below the modulus is its remainder.
LEMMA SmallRemainder ==
  ASSUME NEW m \in Nat \ {0}, NEW x \in 0 .. m - 1
  PROVE  x % m = x
BY SMT

\* The first byte tells the sign and the exponent of 100.
LEMMA FirstByte ==
  ASSUME NEW v \in Value, ~IsZero(v), InRange(v)
  PROVE  /\ TopPair(v) \in -ExponentLimit .. ExponentLimit - 1
         /\ Encoded(v)[1] = IF v.negative THEN ExponentLimit - 1 - TopPair(v)
                            ELSE 3 * ExponentLimit + TopPair(v)
<1>1. PICK x \in Nat \ {0}, p \in Int, e \in Int :
        x = ExponentLimit /\ p = TopPair(v) /\ e = Exponent(v)
  BY LimitAssumption, PairsSpan, Weight
<1>2. e \in -2 * x - 2 .. 2 * x - 3
  BY <1>1 DEF InRange
<1>3. e <= 2 * p - 1 /\ 2 * p - 1 <= e + 1
  BY <1>1, PairsSpan
<1>4. p \in -x .. x - 1
  BY <1>2, <1>3
<1>5. p + x \in 0 .. 2 * x - 1 /\ p + x \in 0 .. 4 * x - 1 /\ 4 * x \in Nat \ {0}
  BY <1>4
<1>6. LowByte(p + x) = p + x
  BY <1>1, <1>5, SmallRemainder DEF LowByte
<1>7. ExponentByte(p, TRUE) = x - 1 - p
  BY <1>1, <1>5, <1>6 DEF ExponentByte, FlipLowBits, TopBit
<1>8. ExponentByte(p, FALSE) = 3 * x + p
  BY <1>1, <1>5, <1>6 DEF ExponentByte, SetTopBit, TopBit
<1>9. v.negative \in BOOLEAN
  BY Parts
<1> QED BY <1>1, <1>4, <1>7, <1>8, <1>9, EncodedBytes

\* Of two magnitudes the smaller one has the smaller exponent, or a smaller pair
\* where they first differ; the greater one is not over there.
LEMMA FirstDifference ==
  ASSUME NEW v \in Value, NEW u \in Value, ~IsZero(v), ~IsZero(u),
         SmallerMagnitude(v, u)
  PROVE  \/ TopPair(v) < TopPair(u)
         \/ /\ TopPair(v) = TopPair(u)
            /\ \E k \in 1 .. Pairs(u) :
                 /\ PairAt(v, k) < PairAt(u, k)
                 /\ \A j \in 1 .. k - 1 : PairAt(v, j) = PairAt(u, j)
<1>1. PICK w \in Weights(v, u) :
        /\ DigitAt(v, w) < DigitAt(u, w)
        /\ \A x \in Weights(v, u) : x > w => DigitAt(v, x) = DigitAt(u, x)
  BY DEF SmallerMagnitude
<1>2. w \in Int
  <2>1. Len(v.digits) \in Nat /\ Len(u.digits) \in Nat /\ v.scale \in Int /\ u.scale \in Int
    BY Parts
  <2> QED BY <2>1 DEF Weights
<1>3. ASSUME NEW x \in Int, x > w PROVE DigitAt(v, x) = DigitAt(u, x)
  BY <1>1, <1>3, WrittenDigits DEF Weights
<1>4. DigitAt(v, w) \in 0 .. 9 /\ DigitAt(u, w) \in 0 .. 9
  BY <1>2, DigitsAreDigits
<1>5. PICK p \in Int, q \in Int, n \in Nat, l \in Int :
        /\ p = TopPair(v) /\ q = TopPair(u) /\ n = Pairs(u) /\ l = Lowest(u)
  BY PairsSpan
<1>6. /\ Top(v) = 2 * p - 1 /\ Top(u) = 2 * q - 1
      /\ (2 * q - 1) - 2 * n + 1 <= l
  BY <1>5, PairsSpan
<1>7. DigitAt(u, w) # 0
  BY <1>1, <1>4
<1>8. w <= 2 * q - 1 /\ l <= w
  <2>1. ~(w > Top(u)) /\ ~(w < Lowest(u))
    BY <1>2, <1>7, PairsSpan
  <2> QED BY <1>2, <1>5, <1>6, <2>1
<1>9. p <= q
  <2>1. PICK e \in Int, f \in Int : e = Exponent(v) /\ f = Exponent(u)
    BY Weight
  <2>2. w <= f
    <3>1. ~(w > f)
      BY <1>2, <1>7, <2>1, Weight
    <3> QED BY <1>2, <3>1
  <2>3. ~(e > f)
    <3>1. ASSUME e > f PROVE FALSE
      <4>1. e > w
        BY <1>2, <2>2, <3>1
      <4>2. DigitAt(u, e) = 0 /\ DigitAt(v, e) # 0
        BY <2>1, <3>1, Weight
      <4> QED BY <1>3, <4>1, <4>2
    <3> QED BY <3>1
  <2>4. 2 * p - 1 <= e + 1 /\ f <= 2 * q - 1
    BY <1>6, <2>1, PairsSpan
  <2> QED BY <2>3, <2>4
<1>10. CASE p = q
  <2>1. PICK k \in Int : k = (2 * q - 1 - w + 2) \div 2
    BY <1>2
  <2>2. w = 2 * q - 1 - 2 * k + 2 \/ w = 2 * q - 1 - 2 * k + 1
    BY <1>2, <2>1
  <2>3. k \in 1 .. n
    BY <1>2, <1>6, <1>8, <2>2
  <2>4. \A j \in Int :
          /\ PairAt(v, j) = 10 * DigitAt(v, 2 * q - 1 - 2 * j + 2)
                              + DigitAt(v, 2 * q - 1 - 2 * j + 1)
          /\ PairAt(u, j) = 10 * DigitAt(u, 2 * q - 1 - 2 * j + 2)
                              + DigitAt(u, 2 * q - 1 - 2 * j + 1)
    BY <1>6, <1>10 DEF PairAt
  <2>5. ASSUME NEW j \in 1 .. k - 1 PROVE PairAt(v, j) = PairAt(u, j)
    <3>a. PICK a \in Int : a = 2 * q - 1 - 2 * j + 2
      OBVIOUS
    <3>b. PICK b \in Int : b = a - 1
      OBVIOUS
    <3>1. a = 2 * q - 1 - 2 * j + 2 /\ b = 2 * q - 1 - 2 * j + 1
      BY <3>a, <3>b
    <3>2. a > w /\ b > w
      BY <1>2, <2>2, <3>1
    <3>3. DigitAt(v, a) = DigitAt(u, a) /\ DigitAt(v, b) = DigitAt(u, b)
      BY <1>3, <3>2
    <3> QED BY <2>4, <3>1, <3>3
  <2>6. PairAt(v, k) < PairAt(u, k)
    <3>a. PICK a \in Int : a = 2 * q - 1 - 2 * k + 2
      OBVIOUS
    <3>b. PICK b \in Int : b = a - 1
      OBVIOUS
    <3>1. a = 2 * q - 1 - 2 * k + 2 /\ b = 2 * q - 1 - 2 * k + 1
      BY <3>a, <3>b
    <3>2. /\ PairAt(v, k) = 10 * DigitAt(v, a) + DigitAt(v, b)
          /\ PairAt(u, k) = 10 * DigitAt(u, a) + DigitAt(u, b)
      BY <2>4, <3>1
    <3>3. /\ DigitAt(v, a) \in 0 .. 9 /\ DigitAt(u, a) \in 0 .. 9
          /\ DigitAt(v, b) \in 0 .. 9 /\ DigitAt(u, b) \in 0 .. 9
      BY DigitsAreDigits
    <3>4. CASE w = a
      BY <1>1, <3>2, <3>3, <3>4
    <3>5. CASE w = b
      <4>1. a > w
        BY <3>1, <3>5
      <4>2. DigitAt(v, a) = DigitAt(u, a)
        BY <1>3, <4>1
      <4> QED BY <1>1, <3>2, <3>3, <3>5, <4>2
    <3> QED BY <2>2, <3>1, <3>4, <3>5
  <2> QED BY <1>5, <1>10, <2>3, <2>5, <2>6
<1> QED BY <1>5, <1>9, <1>10

\* Sequences compare as they do where they first differ, or where one ends.
LEMMA BeforeAt ==
  ASSUME NEW s \in Seq(Int), NEW t \in Seq(Int), NEW i \in Nat \ {0},
         i <= Len(s) + 1, i <= Len(t),
         \A j \in 1 .. i - 1 : s[j] = t[j],
         i <= Len(s) => s[i] < t[i]
  PROVE  Before(s, t)
<1>1. i \in 1 .. Len(s) + 1 /\ i \in DOMAIN t
  OBVIOUS
<1>2. \A j \in 1 .. i - 1 : j \in DOMAIN t /\ s[j] = t[j]
  BY <1>1
<1>3. i \in DOMAIN s => s[i] < t[i]
  OBVIOUS
<1> QED BY <1>1, <1>2, <1>3 DEF Before

\* The first bytes decide.
LEMMA BeforeByFirst ==
  ASSUME NEW s \in Seq(Int), NEW t \in Seq(Int), Len(s) > 0, Len(t) > 0, s[1] < t[1]
  PROVE  Before(s, t)
<1>1. /\ 1 \in Nat \ {0} /\ 1 <= Len(s) + 1 /\ 1 <= Len(t)
      /\ \A j \in 1 .. 1 - 1 : s[j] = t[j]
  OBVIOUS
<1> QED BY <1>1, BeforeAt

\* A value that is not zero has at least two bytes.
LEMMA TwoBytes ==
  ASSUME NEW v \in Value, ~IsZero(v)
  PROVE  Encoded(v) \in Seq(Int) /\ Len(Encoded(v)) \in Nat /\ Len(Encoded(v)) >= 2
<1>1. PICK n \in Nat \ {0} : n = Pairs(v)
  BY PairsSpan
<1>2. Len(Encoded(v)) = n + (IF WithMarker(v) THEN 2 ELSE 1)
  BY <1>1, EncodedBytes
<1> QED BY <1>2, EncodedBytes

\* A positive value comes behind zero,
LEMMA ZeroBeforePositive ==
  ASSUME NEW u \in Value, ~IsZero(u), InRange(u), ~u.negative
  PROVE  Before(ZeroBytes, Encoded(u))
<1>1. PICK t \in Seq(Int), n \in Nat \ {0}, x \in Nat \ {0}, p \in Int :
        /\ t = Encoded(u) /\ n = Pairs(u) /\ x = ExponentLimit /\ p = TopPair(u)
  BY EncodedBytes, PairsSpan, LimitAssumption
<1>2. Len(t) >= 2 /\ t[1] = 3 * x + p /\ p >= -x
  BY <1>1, EncodedBytes, FirstByte
<1>3. ZeroBytes \in Seq(Int) /\ Len(ZeroBytes) = 1 /\ ZeroBytes[1] = 2 * x
  BY <1>1 DEF ZeroBytes, TopBit
<1>4. CASE p = -x
  <2>1. ZeroBytes[1] = t[1]
    BY <1>2, <1>3, <1>4
  <2>2. /\ 2 \in Nat \ {0} /\ 2 <= Len(ZeroBytes) + 1 /\ 2 <= Len(t)
        /\ \A j \in 1 .. 2 - 1 : ZeroBytes[j] = t[j]
        /\ ~(2 <= Len(ZeroBytes))
    BY <1>2, <1>3, <2>1
  <2> QED BY <1>1, <1>3, <2>2, BeforeAt
<1>5. CASE p # -x
  <2>1. ZeroBytes[1] < t[1] /\ Len(t) > 0 /\ Len(ZeroBytes) > 0
    BY <1>2, <1>3, <1>5
  <2> QED BY <1>1, <1>3, <2>1, BeforeByFirst
<1> QED BY <1>4, <1>5

\* and a negative one before all that are not.
LEMMA NegativeBeforeOthers ==
  ASSUME NEW v \in Value, NEW u \in Value, ~IsZero(v), InRange(v), InRange(u),
         v.negative, IsZero(u) \/ ~u.negative
  PROVE  Before(Encoded(v), Encoded(u))
<1>1. PICK s \in Seq(Int), x \in Nat \ {0}, p \in Int :
        s = Encoded(v) /\ x = ExponentLimit /\ p = TopPair(v)
  BY EncodedBytes, PairsSpan, LimitAssumption
<1>2. Len(s) > 0
  BY <1>1, TwoBytes
<1>3. s[1] < 2 * x
  <2>1. s[1] = x - 1 - p /\ p >= -x
    BY <1>1, FirstByte
  <2> QED BY <2>1
<1>4. CASE IsZero(u)
  <2>1. Encoded(u) = <<2 * x>>
    BY <1>1, <1>4 DEF Encoded, ZeroBytes, TopBit
  <2>2. PICK t \in Seq(Int) : t = <<2 * x>>
    <3>1. PICK y \in Int : y = 2 * x
      OBVIOUS
    <3>2. <<y>> \in Seq(Int)
      OBVIOUS
    <3> QED BY <3>1, <3>2
  <2>3. Len(t) > 0 /\ t[1] = 2 * x
    BY <2>2
  <2> QED BY <1>1, <1>2, <1>3, <2>1, <2>2, <2>3, BeforeByFirst
<1>5. CASE ~IsZero(u)
  <2>1. PICK t \in Seq(Int), q \in Int : t = Encoded(u) /\ q = TopPair(u)
    BY <1>5, EncodedBytes, PairsSpan
  <2>2. Len(t) > 0
    BY <1>5, <2>1, TwoBytes
  <2>3. t[1] = 3 * x + q /\ q >= -x
    BY <1>1, <1>5, <2>1, FirstByte
  <2>4. s[1] < t[1]
    <3>1. s[1] \in Int
      BY <1>2
    <3> QED BY <1>3, <2>3, <3>1
  <2> QED BY <1>1, <1>2, <2>1, <2>2, <2>4, BeforeByFirst
<1> QED BY <1>4, <1>5

\* Of positive values the one of smaller magnitude comes first,
LEMMA PositiveOrder ==
  ASSUME NEW v \in Value, NEW u \in Value, ~IsZero(v), ~IsZero(u),
         InRange(v), InRange(u), ~v.negative, ~u.negative, SmallerMagnitude(v, u)
  PROVE  Before(Encoded(v), Encoded(u))
<1>1. PICK s \in Seq(Int), t \in Seq(Int) : s = Encoded(v) /\ t = Encoded(u)
  BY EncodedBytes
<1>2. PICK n \in Nat \ {0}, m \in Nat \ {0}, p \in Int, q \in Int, x \in Nat \ {0} :
        /\ n = Pairs(v) /\ m = Pairs(u) /\ p = TopPair(v) /\ q = TopPair(u)
        /\ x = ExponentLimit
  BY PairsSpan, LimitAssumption
<1>3. ~WithMarker(v) /\ ~WithMarker(u)
  BY DEF WithMarker
<1>4. Len(s) = n + 1 /\ Len(t) = m + 1
  BY <1>1, <1>2, <1>3, EncodedBytes
<1>5. s[1] = 3 * x + p /\ t[1] = 3 * x + q
  BY <1>1, <1>2, FirstByte
<1>6. CASE p < q
  BY <1>1, <1>4, <1>5, <1>6, BeforeByFirst
<1>7. CASE ~(p < q)
  <2>1. p = q
    BY <1>2, <1>7, FirstDifference
  <2>2. PICK k \in 1 .. m :
          /\ PairAt(v, k) < PairAt(u, k)
          /\ \A j \in 1 .. k - 1 : PairAt(v, j) = PairAt(u, j)
    BY <1>2, <1>7, FirstDifference
  <2>3. \A j \in 1 .. n : s[j + 1] = PairAt(v, j) + 1
    BY <1>1, <1>2, EncodedBytes DEF PairByte
  <2>4. \A j \in 1 .. m : t[j + 1] = PairAt(u, j) + 1
    BY <1>1, <1>2, EncodedBytes DEF PairByte
  <2>5. PICK i \in Nat \ {0} : i = IF k <= n THEN k + 1 ELSE n + 2
    OBVIOUS
  <2>6. i <= Len(s) + 1 /\ i <= Len(t) /\ i <= k + 1 /\ i <= n + 2
    BY <1>4, <2>5
  <2>7. ASSUME NEW j \in 1 .. i - 1 PROVE s[j] = t[j]
    <3>1. CASE j = 1
      BY <1>5, <2>1, <3>1
    <3>2. CASE j # 1
      <4>1. /\ j - 1 \in 1 .. k - 1 /\ j - 1 \in 1 .. n /\ j - 1 \in 1 .. m
            /\ (j - 1) + 1 = j
        BY <2>6, <3>2
      <4> QED BY <2>2, <2>3, <2>4, <4>1
    <3> QED BY <3>1, <3>2
  <2>8. ASSUME i <= Len(s) PROVE s[i] < t[i]
    <3>1. i = k + 1 /\ k \in 1 .. n
      BY <1>4, <2>5, <2>8
    <3>2. PairAt(v, k) \in 0 .. 99 /\ PairAt(u, k) \in 0 .. 99
      <4>1. k \in Int
        OBVIOUS
      <4> QED BY <4>1, PairRange
    <3>3. s[i] = PairAt(v, k) + 1 /\ t[i] = PairAt(u, k) + 1
      BY <2>3, <2>4, <3>1
    <3>a. PICK a \in 0 .. 99 : a = PairAt(v, k)
      BY <3>2
    <3>b. PICK b \in 0 .. 99 : b = PairAt(u, k)
      BY <3>2
    <3>4. a = PairAt(v, k) /\ b = PairAt(u, k)
      BY <3>a, <3>b
    <3>5. a < b
      BY <2>2, <3>4
    <3>6. s[i] = a + 1 /\ t[i] = b + 1
      BY <3>3, <3>4
    <3> QED BY <3>5, <3>6
  <2> QED BY <1>1, <2>6, <2>7, <2>8, BeforeAt
<1> QED BY <1>6, <1>7

\* and of negative ones the other, if both have a marker: a marker is greater
\* than every pair's byte.
LEMMA NegativeOrder ==
  ASSUME NEW v \in Value, NEW u \in Value, ~IsZero(v), ~IsZero(u),
         InRange(v), InRange(u), v.negative, u.negative,
         WithMarker(v), WithMarker(u), SmallerMagnitude(u, v)
  PROVE  Before(Encoded(v), Encoded(u))
<1>1. PICK s \in Seq(Int), t \in Seq(Int) : s = Encoded(v) /\ t = Encoded(u)
  BY EncodedBytes
<1>2. PICK n \in Nat \ {0}, m \in Nat \ {0}, p \in Int, q \in Int, x \in Nat \ {0} :
        /\ n = Pairs(v) /\ m = Pairs(u) /\ p = TopPair(v) /\ q = TopPair(u)
        /\ x = ExponentLimit
  BY PairsSpan, LimitAssumption
<1>3. Len(s) = n + 2 /\ Len(t) = m + 2 /\ t[m + 2] = 102
  BY <1>1, <1>2, EncodedBytes DEF Marker
<1>4. s[1] = x - 1 - p /\ t[1] = x - 1 - q
  BY <1>1, <1>2, FirstByte
<1>5. CASE q < p
  <2>1. s[1] < t[1] /\ Len(s) > 0 /\ Len(t) > 0
    BY <1>3, <1>4, <1>5
  <2> QED BY <1>1, <2>1, BeforeByFirst
<1>6. CASE ~(q < p)
  <2>1. p = q
    BY <1>2, <1>6, FirstDifference
  <2>2. PICK k \in 1 .. n :
          /\ PairAt(u, k) < PairAt(v, k)
          /\ \A j \in 1 .. k - 1 : PairAt(u, j) = PairAt(v, j)
    BY <1>2, <1>6, FirstDifference
  <2>3. \A j \in 1 .. n : s[j + 1] = 100 - PairAt(v, j) + 1
    BY <1>1, <1>2, EncodedBytes DEF PairByte
  <2>4. \A j \in 1 .. m : t[j + 1] = 100 - PairAt(u, j) + 1
    BY <1>1, <1>2, EncodedBytes DEF PairByte
  <2>5. PICK i \in Nat \ {0} : i = IF k <= m THEN k + 1 ELSE m + 2
    OBVIOUS
  <2>6. i <= Len(s) + 1 /\ i <= Len(t) /\ i <= k + 1 /\ i <= m + 2 /\ i - 1 \in 1 .. n
    BY <1>3, <2>5
  <2>7. ASSUME NEW j \in 1 .. i - 1 PROVE s[j] = t[j]
    <3>1. CASE j = 1
      BY <1>4, <2>1, <3>1
    <3>2. CASE j # 1
      <4>1. /\ j - 1 \in 1 .. k - 1 /\ j - 1 \in 1 .. n /\ j - 1 \in 1 .. m
            /\ (j - 1) + 1 = j
        BY <2>6, <3>2
      <4>2. PairAt(u, j - 1) = PairAt(v, j - 1)
        BY <2>2, <4>1
      <4>3. s[(j - 1) + 1] = t[(j - 1) + 1]
        BY <2>3, <2>4, <4>1, <4>2
      <4> QED BY <4>1, <4>3
    <3> QED BY <3>1, <3>2
  <2>8. s[i] < t[i]
    <3>1. CASE k <= m
      <4>1. i = k + 1 /\ k \in 1 .. n /\ k \in 1 .. m
        BY <2>5, <3>1
      <4>2. k \in Int
        OBVIOUS
      <4>3. PairAt(v, k) \in 0 .. 99 /\ PairAt(u, k) \in 0 .. 99
        BY <4>2, PairRange
      <4>4. s[i] = 100 - PairAt(v, k) + 1 /\ t[i] = 100 - PairAt(u, k) + 1
        BY <2>3, <2>4, <4>1
      <4>a. PICK a \in 0 .. 99 : a = PairAt(v, k)
        BY <4>3
      <4>b. PICK b \in 0 .. 99 : b = PairAt(u, k)
        BY <4>3
      <4>5. a = PairAt(v, k) /\ b = PairAt(u, k)
        BY <4>a, <4>b
      <4>6. b < a
        BY <2>2, <4>5
      <4>7. s[i] = 100 - a + 1 /\ t[i] = 100 - b + 1
        BY <4>4, <4>5
      <4> QED BY <4>6, <4>7
    <3>2. CASE ~(k <= m)
      <4>1. i = m + 2 /\ t[i] = 102
        BY <1>3, <2>5, <3>2
      <4>2. i - 1 \in 1 .. n /\ i - 1 \in Int /\ (i - 1) + 1 = i
        BY <2>6
      <4>3. s[i] = 100 - PairAt(v, i - 1) + 1
        BY <2>3, <4>2
      <4>4. PairAt(v, i - 1) \in 0 .. 99
        BY <4>2, PairRange
      <4>5. PICK a \in 0 .. 99 : a = PairAt(v, i - 1)
        BY <4>4
      <4>6. s[i] = 100 - a + 1
        BY <4>3, <4>5
      <4> QED BY <4>1, <4>6
    <3> QED BY <3>1, <3>2
  <2> QED BY <1>1, <2>6, <2>7, <2>8, BeforeAt
<1> QED BY <1>5, <1>6

\* The bytes of a NUMBER compare as the values do, for any values in range, the
\* negative ones short enough for a marker.
THEOREM OrderedEncodings ==
  ASSUME NEW v \in Value, NEW u \in Value, InRange(v), InRange(u), Less(v, u),
         v.negative => Len(v.digits) < MarkerDigits - 1,
         u.negative => Len(u.digits) < MarkerDigits - 1
  PROVE  Before(Encoded(v), Encoded(u))
<1>1. ASSUME NEW y \in Value, NEW z \in Value, SmallerMagnitude(y, z)
      PROVE  ~IsZero(z)
  <2>1. PICK w \in Weights(y, z) : DigitAt(y, w) < DigitAt(z, w)
    BY <1>1 DEF SmallerMagnitude
  <2>2. w \in Int
    <3>1. /\ Len(y.digits) \in Nat /\ Len(z.digits) \in Nat
          /\ y.scale \in Int /\ z.scale \in Int
      BY Parts
    <3> QED BY <3>1 DEF Weights
  <2>3. DigitAt(y, w) \in 0 .. 9 /\ DigitAt(z, w) \in 0 .. 9
    BY <2>2, DigitsAreDigits
  <2>4. DigitAt(z, w) # 0
    BY <2>1, <2>3
  <2> QED BY <2>2, <2>4, ZeroDigits
<1>2. ASSUME NEW y \in Value, ~IsZero(y), y.negative,
             Len(y.digits) < MarkerDigits - 1
      PROVE  WithMarker(y)
  <2>1. PICK e \in Int, l \in Int, t \in Int, n \in Nat :
          e = Exponent(y) /\ l = Lowest(y) /\ t = Top(y) /\ n = Len(y.digits)
    BY <1>2, Weight, PairsSpan, Parts
  <2>2. t <= e + 1 /\ e - l + 1 <= n /\ n < MarkerDigits - 1 /\ MarkerDigits \in Int
    BY <1>2, <2>1, Weight, PairsSpan, DigitsAssumption
  <2>3. t - l + 1 < MarkerDigits
    BY <2>2
  <2> QED BY <1>2, <2>1, <2>3 DEF WithMarker
<1>3. CASE v.negative /\ ~u.negative /\ ~(IsZero(v) /\ IsZero(u))
  <2>1. CASE IsZero(v)
    <3>1. ~IsZero(u) /\ Encoded(v) = ZeroBytes
      BY <1>3, <2>1 DEF Encoded
    <3> QED BY <1>3, <3>1, ZeroBeforePositive
  <2>2. CASE ~IsZero(v)
    BY <1>3, <2>2, NegativeBeforeOthers
  <2> QED BY <2>1, <2>2
<1>4. CASE ~v.negative /\ ~u.negative /\ SmallerMagnitude(v, u)
  <2>1. ~IsZero(u)
    BY <1>1, <1>4
  <2>2. CASE IsZero(v)
    BY <1>4, <2>1, <2>2, ZeroBeforePositive DEF Encoded
  <2>3. CASE ~IsZero(v)
    BY <1>4, <2>1, <2>3, PositiveOrder
  <2> QED BY <2>2, <2>3
<1>5. CASE v.negative /\ u.negative /\ SmallerMagnitude(u, v)
  <2>1. ~IsZero(v)
    BY <1>1, <1>5
  <2>2. CASE IsZero(u)
    BY <1>5, <2>1, <2>2, NegativeBeforeOthers
  <2>3. CASE ~IsZero(u)
    BY <1>2, <1>5, <2>1, <2>3, NegativeOrder
  <2> QED BY <2>2, <2>3
<1> QED BY <1>3, <1>4, <1>5 DEF Less

-----------------------------------------------------------------------------
(* Decoding the bytes gives the value again.                               *)

\* What is over a multiple is the remainder.
LEMMA Remainder ==
  ASSUME NEW m \in Nat \ {0}, NEW q \in Nat, NEW r \in 0 .. m - 1
  PROVE  (m * q + r) % m = r
BY SMT

\* The sign and the exponent come back from the first byte.
LEMMA FirstByteBack ==
  ASSUME NEW v \in Value, ~IsZero(v), InRange(v)
  PROVE  /\ Negative(Encoded(v)) = v.negative
         /\ DecodedExponent(Encoded(v)) = TopPair(v)
<1>1. PICK x \in Nat \ {0}, p \in Int : x = ExponentLimit /\ p = TopPair(v)
  BY LimitAssumption, PairsSpan
<1>2. p \in -x .. x - 1 /\ Encoded(v)[1] = IF v.negative THEN x - 1 - p ELSE 3 * x + p
  BY <1>1, FirstByte
<1>3. CASE v.negative
  <2>1. Encoded(v)[1] = x - 1 - p /\ x - 1 - p < 2 * x /\ x - 1 - p \in Int
    BY <1>2, <1>3
  <2>2. Negative(Encoded(v))
    BY <1>1, <2>1 DEF Negative, TopBit
  <2>3. FlipLowBits(Encoded(v)[1]) = x + p
    BY <1>1, <2>1 DEF FlipLowBits, TopBit
  <2>4. DecodedExponent(Encoded(v)) = p
    BY <1>1, <2>2, <2>3 DEF DecodedExponent
  <2>5. Negative(Encoded(v)) \in BOOLEAN /\ v.negative \in BOOLEAN
    BY Parts DEF Negative
  <2> QED BY <1>1, <1>3, <2>2, <2>4, <2>5
<1>4. CASE ~v.negative
  <2>1. Encoded(v)[1] = 3 * x + p /\ ~(3 * x + p < 2 * x) /\ 3 * x + p \in Int
    BY <1>2, <1>4
  <2>2. ~Negative(Encoded(v))
    BY <1>1, <2>1 DEF Negative, TopBit
  <2>3. Encoded(v)[1] % TopBit = x + p
    <3>1. PICK m \in Nat \ {0}, r \in Int : m = 2 * x /\ r = x + p
      OBVIOUS
    <3>2. r \in 0 .. m - 1 /\ 3 * x + p = m * 1 + r /\ 1 \in Nat
      BY <1>2, <3>1
    <3>3. (m * 1 + r) % m = r
      BY <3>2, Remainder
    <3>4. TopBit = m
      BY <1>1, <3>1 DEF TopBit
    <3> QED BY <2>1, <3>1, <3>2, <3>3, <3>4
  <2>4. DecodedExponent(Encoded(v)) = p
    BY <1>1, <1>2, <2>2, <2>3 DEF DecodedExponent
  <2>5. Negative(Encoded(v)) \in BOOLEAN /\ v.negative \in BOOLEAN
    BY Parts DEF Negative
  <2> QED BY <1>1, <1>4, <2>2, <2>4, <2>5
<1> QED BY <1>3, <1>4, Parts

\* No byte of a pair is taken for a marker.
LEMMA MantissaBack ==
  ASSUME NEW v \in Value, ~IsZero(v), InRange(v)
  PROVE  /\ Mantissa(Encoded(v)) \in Seq(Int)
         /\ Len(Mantissa(Encoded(v))) = Pairs(v)
         /\ \A k \in 1 .. Pairs(v) :
              DecodedPair(Mantissa(Encoded(v))[k], v.negative) = PairAt(v, k)
<1>1. PICK s \in Seq(Int), n \in Nat \ {0} : s = Encoded(v) /\ n = Pairs(v)
  BY EncodedBytes, PairsSpan
<1>2. /\ Len(s) = n + (IF WithMarker(v) THEN 2 ELSE 1)
      /\ \A k \in 1 .. n : s[k + 1] = PairByte(PairAt(v, k), v.negative)
      /\ WithMarker(v) => s[n + 2] = Marker
  BY <1>1, EncodedBytes
<1>3. Negative(s) = v.negative /\ v.negative \in BOOLEAN
  BY <1>1, FirstByteBack, Parts
<1>4. Mantissa(s) = SubSeq(s, 2, n + 1)
  <2>1. CASE WithMarker(v)
    <3>1. v.negative /\ Len(s) = n + 2 /\ s[n + 2] = Marker /\ (n + 2) - 1 = n + 1
      BY <1>2, <2>1 DEF WithMarker
    <3> QED BY <1>3, <3>1 DEF Mantissa
  <2>2. CASE ~WithMarker(v) /\ v.negative
    <3>1. Len(s) = n + 1 /\ n \in 1 .. n
      BY <1>2, <2>2
    <3>2. PICK b \in 0 .. 99 : b = PairAt(v, n)
      <4>1. n \in Int
        OBVIOUS
      <4> QED BY <4>1, PairRange
    <3>3. s[n + 1] = (100 - b) + 1
      BY <1>2, <2>2, <3>1, <3>2 DEF PairByte
    <3>4. s[Len(s)] # Marker
      BY <3>1, <3>3 DEF Marker
    <3> QED BY <3>1, <3>4 DEF Mantissa
  <2>3. CASE ~v.negative
    <3>1. Len(s) = n + 1
      BY <1>2, <2>3 DEF WithMarker
    <3> QED BY <1>3, <2>3, <3>1 DEF Mantissa
  <2> QED BY <2>1, <2>2, <2>3
<1>5. /\ SubSeq(s, 2, n + 1) \in Seq(Int) /\ Len(SubSeq(s, 2, n + 1)) = n
      /\ \A k \in 1 .. n : SubSeq(s, 2, n + 1)[k] = s[2 + k - 1]
  <2>1. n + 1 <= Len(s)
    BY <1>2
  <2>2. \A i \in 2 .. n + 1 : s[i] \in Int
    BY <2>1
  <2>3. (n + 1) - 2 + 1 = n /\ 2 <= n + 1 /\ 2 \in Int /\ n + 1 \in Int
    OBVIOUS
  <2> QED BY <2>2, <2>3, SubSeqProperties
<1>6. ASSUME NEW k \in 1 .. n
      PROVE  DecodedPair(SubSeq(s, 2, n + 1)[k], v.negative) = PairAt(v, k)
  <2>1. 2 + k - 1 = k + 1 /\ k \in Int
    OBVIOUS
  <2>2. PICK b \in 0 .. 99 : b = PairAt(v, k)
    BY <2>1, PairRange
  <2>3. SubSeq(s, 2, n + 1)[k] = (IF v.negative THEN 100 - b ELSE b) + 1
    BY <1>2, <1>5, <2>1, <2>2 DEF PairByte
  <2>4. CASE v.negative
    <3>1. SubSeq(s, 2, n + 1)[k] = (100 - b) + 1 /\ 100 - (((100 - b) + 1) - 1) = b
      BY <2>3, <2>4
    <3> QED BY <2>2, <2>4, <3>1 DEF DecodedPair
  <2>5. CASE ~v.negative
    <3>1. SubSeq(s, 2, n + 1)[k] = b + 1 /\ (b + 1) - 1 = b
      BY <2>3, <2>5
    <3> QED BY <2>2, <2>5, <3>1 DEF DecodedPair
  <2> QED BY <2>4, <2>5
<1> QED BY <1>1, <1>4, <1>5, <1>6

\* The digits that decoding puts together are those of the value.
LEMMA DigitsBack ==
  ASSUME NEW v \in Value, ~IsZero(v), NEW i \in 1 .. 2 * Pairs(v)
  PROVE  (IF i % 2 = 1 THEN PairAt(v, (i + 1) \div 2) \div 10
                       ELSE PairAt(v, i \div 2) % 10)
           = DigitAt(v, 2 * TopPair(v) - i)
<1>1. PICK p \in Int, n \in Nat : p = TopPair(v) /\ n = Pairs(v)
  BY PairsSpan
<1>2. PICK j \in Int : j = i
  BY <1>1
<1>3. \A k \in Int : PairAt(v, k) = 10 * DigitAt(v, 2 * p - 2 * k + 1)
                                      + DigitAt(v, 2 * p - 2 * k)
  <2>1. Top(v) = 2 * p - 1
    BY <1>1, PairsSpan
  <2>2. \A k \in Int : /\ Top(v) - 2 * k + 2 = 2 * p - 2 * k + 1
                       /\ Top(v) - 2 * k + 1 = 2 * p - 2 * k
    BY <2>1
  <2> QED BY <2>2 DEF PairAt
<1>4. ASSUME NEW w \in Int, NEW x \in Int
      PROVE  /\ (10 * DigitAt(v, w) + DigitAt(v, x)) \div 10 = DigitAt(v, w)
             /\ (10 * DigitAt(v, w) + DigitAt(v, x)) % 10 = DigitAt(v, x)
  <2>1. PICK a \in 0 .. 9 : a = DigitAt(v, w)
    BY DigitsAreDigits
  <2>2. PICK b \in 0 .. 9 : b = DigitAt(v, x)
    BY DigitsAreDigits
  <2>3. (10 * a + b) \div 10 = a /\ (10 * a + b) % 10 = b
    OBVIOUS
  <2> QED BY <2>1, <2>2, <2>3
<1>5. CASE j % 2 = 1
  <2>1. PICK k \in Int : k = (j + 1) \div 2
    OBVIOUS
  <2>2. 2 * p - 2 * k + 1 = 2 * p - j /\ 2 * p - 2 * k \in Int /\ 2 * p - j \in Int
    BY <1>5, <2>1
  <2>3. PICK x \in Int : x = 2 * p - 2 * k
    BY <2>2
  <2>4. PICK w \in Int : w = 2 * p - j
    BY <2>2
  <2>5. PairAt(v, k) = 10 * DigitAt(v, w) + DigitAt(v, x)
    BY <1>3, <2>2, <2>3, <2>4
  <2>6. PairAt(v, k) \div 10 = DigitAt(v, 2 * p - j)
    BY <1>4, <2>4, <2>5
  <2> QED BY <1>1, <1>2, <1>5, <2>1, <2>6
<1>6. CASE j % 2 # 1
  <2>1. PICK k \in Int : k = j \div 2
    OBVIOUS
  <2>2. 2 * p - 2 * k = 2 * p - j /\ 2 * p - 2 * k + 1 \in Int /\ 2 * p - j \in Int
    BY <1>6, <2>1
  <2>3. PICK w \in Int : w = 2 * p - 2 * k + 1
    BY <2>2
  <2>4. PICK x \in Int : x = 2 * p - j
    BY <2>2
  <2>5. PairAt(v, k) = 10 * DigitAt(v, w) + DigitAt(v, x)
    BY <1>3, <2>2, <2>3, <2>4
  <2>6. PairAt(v, k) % 10 = DigitAt(v, 2 * p - j)
    BY <1>4, <2>4, <2>5
  <2> QED BY <1>1, <1>2, <1>6, <2>1, <2>6
<1> QED BY <1>5, <1>6

-----------------------------------------------------------------------------
(* The floats that numbers are decoded to.                                 *)

\* Each is the double of the one before.
Doubling(power, n) ==
  /\ power \in [0 .. n -> Nat \ {0}] /\ power[0] = 1
  /\ \A k \in 1 .. n : power[k] = 2 * power[k - 1]

\* There are powers of two.
LEMMA DoublingExists ==
  ASSUME NEW n \in Nat
  PROVE  \E power : Doubling(power, n)
<1> DEFINE S == {k \in Nat : \E power : Doubling(power, k)}
<1>1. 0 \in S
  <2>1. Doubling([k \in 0 .. 0 |-> 1], 0)
    BY DEF Doubling
  <2> QED BY <2>1
<1>2. ASSUME NEW m \in Nat, m \in S PROVE m + 1 \in S
  <2>1. PICK f : Doubling(f, m)
    BY <1>2
  <2>2. /\ \A k \in 0 .. m : f[k] \in Nat \ {0}
        /\ f[0] = 1 /\ \A k \in 1 .. m : f[k] = 2 * f[k - 1]
    BY <2>1 DEF Doubling
  <2> DEFINE g == [k \in 0 .. m + 1 |-> IF k = m + 1 THEN 2 * f[m] ELSE f[k]]
  <2>3. ASSUME NEW k \in 0 .. m + 1 PROVE g[k] \in Nat \ {0}
    <3>1. m \in 0 .. m /\ (k # m + 1 => k \in 0 .. m)
      OBVIOUS
    <3>2. f[m] \in Nat \ {0} /\ (k # m + 1 => f[k] \in Nat \ {0})
      BY <2>2, <3>1
    <3>3. 2 * f[m] \in Nat \ {0}
      BY <3>2
    <3> QED BY <3>2, <3>3
  <2>4. ASSUME NEW k \in 1 .. m + 1 PROVE g[k] = 2 * g[k - 1]
    <3>1. k - 1 \in 0 .. m + 1 /\ k - 1 # m + 1 /\ (k # m + 1 => k \in 1 .. m)
          /\ k \in 0 .. m + 1
      OBVIOUS
    <3>2. g[k - 1] = f[k - 1] /\ g[k] = IF k = m + 1 THEN 2 * f[m] ELSE f[k]
      BY <3>1
    <3>3. CASE k = m + 1
      <4>1. k - 1 = m
        BY <3>3
      <4> QED BY <3>2, <3>3, <4>1
    <3>4. CASE k # m + 1
      BY <2>2, <3>1, <3>2, <3>4
    <3> QED BY <3>3, <3>4
  <2>5. g[0] = 1
    BY <2>2
  <2>6. g \in [0 .. m + 1 -> Nat \ {0}]
    <3>1. DOMAIN g = 0 .. m + 1 /\ g = [k \in 0 .. m + 1 |-> g[k]]
      OBVIOUS
    <3> HIDE DEF g
    <3> QED BY <2>3, <3>1
  <2>7. Doubling(g, m + 1)
    <3> HIDE DEF g
    <3> QED BY <2>4, <2>5, <2>6 DEF Doubling
  <2>8. m + 1 \in Nat
    OBVIOUS
  <2> QED BY <2>7, <2>8
<1>3. n \in S
  <2> HIDE DEF S
  <2> QED BY <1>1, <1>2, Induction
<1> QED BY <1>3

\* They are those of Powers.
LEMMA PowersDouble ==
  ASSUME NEW n \in Nat
  PROVE  \E power : Doubling(power, n) /\ Powers(n) = {power[k] : k \in 0 .. n}
<1> DEFINE Body(f) == [k \in 0 .. n |-> IF k = 0 THEN 1 ELSE 2 * f[k - 1]]
           power == CHOOSE f : f = Body(f)
<1>1. \E f : f = Body(f)
  <2>1. PICK f : Doubling(f, n)
    BY DoublingExists
  <2>2. f = [k \in 0 .. n |-> f[k]] /\ f[0] = 1
        /\ \A k \in 1 .. n : f[k] = 2 * f[k - 1]
    BY <2>1 DEF Doubling
  <2>3. \A k \in 0 .. n : k # 0 => k \in 1 .. n
    OBVIOUS
  <2>4. f = Body(f)
    BY <2>2, <2>3
  <2> QED BY <2>4
<1>2. power = Body(power)
  <2> HIDE DEF Body
  <2> QED BY <1>1
<1>3. Powers(n) = {power[k] : k \in 0 .. n}
  BY Zenon DEF Powers
<1>4. /\ DOMAIN power = 0 .. n /\ power = [k \in 0 .. n |-> power[k]]
      /\ \A k \in 0 .. n : power[k] = IF k = 0 THEN 1 ELSE 2 * power[k - 1]
  <2> HIDE DEF power
  <2> QED BY <1>2
<1> HIDE DEF power
<1>5. 0 \in 0 .. n /\ power[0] = 1
  <2>1. 0 \in 0 .. n
    OBVIOUS
  <2>2. power[0] = IF 0 = 0 THEN 1 ELSE 2 * power[0 - 1]
    BY <1>4, <2>1
  <2> QED BY <2>1, <2>2
<1>6. ASSUME NEW k \in 1 .. n PROVE power[k] = 2 * power[k - 1]
  <2>1. k \in 0 .. n /\ k # 0
    OBVIOUS
  <2> QED BY <1>4, <2>1
<1>7. \A k \in 0 .. n : power[k] \in Nat \ {0}
  <2> DEFINE S == {k \in Nat : k <= n => power[k] \in Nat \ {0}}
  <2>1. 0 \in S
    BY <1>5
  <2>2. ASSUME NEW k \in Nat, k \in S PROVE k + 1 \in S
    <3>1. SUFFICES ASSUME k + 1 <= n PROVE power[k + 1] \in Nat \ {0}
      OBVIOUS
    <3>2. k + 1 \in 1 .. n /\ (k + 1) - 1 = k /\ k <= n
      BY <3>1
    <3>3. power[k] \in Nat \ {0} /\ power[k + 1] = 2 * power[k]
      BY <1>6, <2>2, <3>2
    <3> QED BY <3>3
  <2>3. Nat \subseteq S
    <3> HIDE DEF S
    <3> QED BY <2>1, <2>2, Induction
  <2> QED BY <2>3
<1>8. Doubling(power, n)
  BY <1>4, <1>5, <1>6, <1>7 DEF Doubling
<1> QED BY <1>3, <1>8

\* The digits read so far make a whole number.
LEMMA WholeSteps ==
  ASSUME NEW d \in Seq(0 .. 9)
  PROVE  \E whole \in [0 .. Len(d) -> Nat] :
           /\ whole[0] = 0 /\ WholeOf(d) = whole[Len(d)]
           /\ \A n \in 1 .. Len(d) : whole[n] = 10 * whole[n - 1] + d[n]
<1> DEFINE Body(f) == [n \in 0 .. Len(d) |-> IF n = 0 THEN 0 ELSE 10 * f[n - 1] + d[n]]
           Wholes(f, m) == /\ f \in [0 .. m -> Nat] /\ f[0] = 0
                          /\ \A n \in 1 .. m : f[n] = 10 * f[n - 1] + d[n]
           whole == CHOOSE f : f = Body(f)
           S == {m \in Nat : m <= Len(d) => \E f : Wholes(f, m)}
<1>a. Len(d) \in Nat /\ \A n \in 1 .. Len(d) : d[n] \in 0 .. 9
  OBVIOUS
<1>1. 0 \in S
  <2>1. Wholes([n \in 0 .. 0 |-> 0], 0)
    OBVIOUS
  <2> QED BY <2>1
<1>2. ASSUME NEW m \in Nat, m \in S PROVE m + 1 \in S
  <2>1. ASSUME m + 1 <= Len(d) PROVE \E f : Wholes(f, m + 1)
    <3>2. PICK f : Wholes(f, m)
      <4>1. m <= Len(d)
        BY <1>a, <2>1
      <4> QED BY <1>2, <4>1
    <3> DEFINE g == [n \in 0 .. m + 1 |-> IF n = m + 1 THEN 10 * f[m] + d[n] ELSE f[n]]
    <3>3. /\ \A n \in 0 .. m : f[n] \in Nat
          /\ f[0] = 0 /\ \A n \in 1 .. m : f[n] = 10 * f[n - 1] + d[n]
      BY <3>2
    <3>4. m \in 0 .. m /\ m + 1 \in 1 .. Len(d) /\ d[m + 1] \in 0 .. 9
      BY <1>a, <2>1
    <3>5. ASSUME NEW n \in 0 .. m + 1 PROVE g[n] \in Nat
      <4>1. n # m + 1 => n \in 0 .. m
        OBVIOUS
      <4>2. f[m] \in Nat /\ (n # m + 1 => f[n] \in Nat)
        BY <3>3, <3>4, <4>1
      <4>3. 10 * f[m] + d[m + 1] \in Nat
        BY <3>4, <4>2
      <4> QED BY <4>2, <4>3
    <3>6. ASSUME NEW n \in 1 .. m + 1 PROVE g[n] = 10 * g[n - 1] + d[n]
      <4>1. n - 1 \in 0 .. m + 1 /\ n - 1 # m + 1 /\ (n # m + 1 => n \in 1 .. m)
            /\ n \in 0 .. m + 1
        OBVIOUS
      <4>2. g[n - 1] = f[n - 1] /\ g[n] = IF n = m + 1 THEN 10 * f[m] + d[n] ELSE f[n]
        BY <4>1
      <4>3. CASE n = m + 1
        <5>1. n - 1 = m
          BY <4>3
        <5> QED BY <4>2, <4>3, <5>1
      <4>4. CASE n # m + 1
        BY <3>3, <4>1, <4>2, <4>4
      <4> QED BY <4>3, <4>4
    <3>7. g[0] = 0
      BY <3>3
    <3>8. g \in [0 .. m + 1 -> Nat]
      <4>1. DOMAIN g = 0 .. m + 1 /\ g = [n \in 0 .. m + 1 |-> g[n]]
        OBVIOUS
      <4> HIDE DEF g
      <4> QED BY <3>5, <4>1
    <3>9. Wholes(g, m + 1)
      <4> HIDE DEF g
      <4> QED BY <3>6, <3>7, <3>8
    <3> QED BY <3>9
  <2> HIDE DEF Wholes
  <2> QED BY <2>1
<1>3. PICK f : Wholes(f, Len(d))
  <2>1. Len(d) \in S
    <3> HIDE DEF S
    <3> QED BY <1>1, <1>2, <1>a, Induction
  <2> HIDE DEF Wholes
  <2> QED BY <1>a, <2>1
<1>4. f = Body(f)
  <2>1. f = [n \in 0 .. Len(d) |-> f[n]] /\ f[0] = 0
        /\ \A n \in 1 .. Len(d) : f[n] = 10 * f[n - 1] + d[n]
    BY <1>3
  <2>2. \A n \in 0 .. Len(d) : n # 0 => n \in 1 .. Len(d)
    BY <1>a
  <2> QED BY <2>1, <2>2
<1>5. whole = Body(whole)
  <2> HIDE DEF Body
  <2> QED BY <1>4
<1>6. WholeOf(d) = whole[Len(d)]
  BY Zenon DEF WholeOf
<1>7. /\ DOMAIN whole = 0 .. Len(d) /\ whole = [n \in 0 .. Len(d) |-> whole[n]]
      /\ \A n \in 0 .. Len(d) : whole[n] = IF n = 0 THEN 0 ELSE 10 * whole[n - 1] + d[n]
  <2> HIDE DEF whole
  <2> QED BY <1>5
<1> HIDE DEF whole
<1>8. 0 \in 0 .. Len(d) /\ whole[0] = 0
  BY <1>7, <1>a
<1>9. ASSUME NEW n \in 1 .. Len(d) PROVE whole[n] = 10 * whole[n - 1] + d[n]
  <2>1. n \in 0 .. Len(d) /\ n # 0
    BY <1>a
  <2> QED BY <1>7, <2>1
<1>10. \A n \in 0 .. Len(d) : whole[n] \in Nat
  <2> DEFINE R == {n \in Nat : n <= Len(d) => whole[n] \in Nat}
  <2>1. 0 \in R
    BY <1>8
  <2>2. ASSUME NEW n \in Nat, n \in R PROVE n + 1 \in R
    <3>1. SUFFICES ASSUME n + 1 <= Len(d) PROVE whole[n + 1] \in Nat
      OBVIOUS
    <3>2. n + 1 \in 1 .. Len(d) /\ (n + 1) - 1 = n /\ n <= Len(d)
      BY <3>1, <1>a
    <3>3. PICK x \in Nat : x = whole[n]
      BY <2>2, <3>2
    <3>4. PICK b \in 0 .. 9 : b = d[n + 1]
      BY <1>a, <3>2
    <3>5. whole[n + 1] = 10 * x + b
      BY <1>9, <3>2, <3>3, <3>4
    <3> QED BY <3>5
  <2>3. Nat \subseteq R
    <3> HIDE DEF R
    <3> QED BY <2>1, <2>2, Induction
  <2> QED BY <2>3
<1>11. whole \in [0 .. Len(d) -> Nat]
  BY <1>7, <1>10
<1> QED BY <1>6, <1>8, <1>9, <1>11

\* A digit needs four bits: the number is below the power of two that Powers
\* ends with.
LEMMA WholeBelow ==
  ASSUME NEW d \in Seq(0 .. 9), NEW power, Doubling(power, 4 * Len(d))
  PROVE  WholeOf(d) \in Nat /\ WholeOf(d) < power[4 * Len(d)]
<1>1. PICK whole \in [0 .. Len(d) -> Nat] :
        /\ whole[0] = 0 /\ WholeOf(d) = whole[Len(d)]
        /\ \A n \in 1 .. Len(d) : whole[n] = 10 * whole[n - 1] + d[n]
  BY WholeSteps
<1>2. PICK m \in Nat : m = Len(d)
  OBVIOUS
<1>3. /\ \A n \in 0 .. m : whole[n] \in Nat
      /\ \A n \in 1 .. m : whole[n] = 10 * whole[n - 1] + d[n] /\ d[n] \in 0 .. 9
      /\ whole[0] = 0 /\ power[0] = 1
      /\ \A k \in 0 .. 4 * m : power[k] \in Nat \ {0}
      /\ \A k \in 1 .. 4 * m : power[k] = 2 * power[k - 1]
  <2>1. \A n \in 0 .. m : whole[n] \in Nat
    BY <1>1, <1>2
  <2>2. \A n \in 1 .. m : d[n] \in 0 .. 9
    BY <1>2
  <2>3. \A k \in 0 .. 4 * m : power[k] \in Nat \ {0}
    BY <1>2 DEF Doubling
  <2>4. power[0] = 1 /\ \A k \in 1 .. 4 * m : power[k] = 2 * power[k - 1]
    BY <1>2 DEF Doubling
  <2> QED BY <1>1, <1>2, <2>1, <2>2, <2>3, <2>4
<1> DEFINE S == {n \in Nat : n <= m => whole[n] < power[4 * n]}
<1>4. 0 \in S
  BY <1>3
<1>5. ASSUME NEW n \in Nat, n \in S PROVE n + 1 \in S
  <2>1. SUFFICES ASSUME n + 1 <= m PROVE whole[n + 1] < power[4 * (n + 1)]
    OBVIOUS
  <2>2. n + 1 \in 1 .. m /\ (n + 1) - 1 = n /\ n \in 0 .. m /\ n <= m
    BY <2>1
  <2>3. whole[n + 1] = 10 * whole[n] + d[n + 1] /\ d[n + 1] \in 0 .. 9
    BY <1>3, <2>2
  <2>4. power[4 * (n + 1)] = 16 * power[4 * n] /\ power[4 * n] \in Nat
    <3>1. PICK k \in Nat : k = 4 * n
      OBVIOUS
    <3>2. /\ k + 1 \in 1 .. 4 * m /\ k + 2 \in 1 .. 4 * m /\ k + 3 \in 1 .. 4 * m
          /\ k + 4 \in 1 .. 4 * m /\ k \in 0 .. 4 * m
          /\ (k + 1) - 1 = k /\ (k + 2) - 1 = k + 1 /\ (k + 3) - 1 = k + 2
          /\ (k + 4) - 1 = k + 3
          /\ k + 1 \in 0 .. 4 * m /\ k + 2 \in 0 .. 4 * m /\ k + 3 \in 0 .. 4 * m
      BY <2>1, <3>1
    <3>3. /\ power[k + 1] = 2 * power[k] /\ power[k + 2] = 2 * power[k + 1]
          /\ power[k + 3] = 2 * power[k + 2] /\ power[k + 4] = 2 * power[k + 3]
      BY <1>3, <3>2
    <3>4. power[k] \in Nat
      BY <1>3, <3>2
    <3>5. 4 * (n + 1) = k + 4
      BY <3>1
    <3>6. power[k + 4] = 16 * power[k]
      BY <3>3, <3>4
    <3> QED BY <3>1, <3>4, <3>5, <3>6
  <2>5. whole[n] \in Nat /\ whole[n] < power[4 * n]
    BY <1>3, <1>5, <2>2
  <2>6. PICK x \in Nat, y \in Nat, b \in 0 .. 9 :
          x = whole[n] /\ y = power[4 * n] /\ b = d[n + 1]
    BY <2>3, <2>4, <2>5
  <2>a. x < y
    BY <2>5, <2>6
  <2>7. 10 * x + b < 16 * y
    BY <2>a
  <2> QED BY <2>3, <2>4, <2>6, <2>7
<1>6. m \in S
  <2> HIDE DEF S
  <2> QED BY <1>4, <1>5, Induction
<1> QED BY <1>1, <1>2, <1>3, <1>6

\* A multiple is not below.
LEMMA Multiple ==
  ASSUME NEW y \in Nat \ {0}, NEW g \in Nat \ {0}
  PROVE  y <= y * g
BY SMT

\* Where the quotient is between its bounds.
LEMMA FullQuotient ==
  ASSUME NEW F \in Nat \ {0}, NEW m \in Nat, NEW s \in Nat \ {0},
         s * F <= m, m < s * (2 * F)
  PROVE  m \div s \in F .. 2 * F - 1
<1>1. PICK q \in Nat, r \in Nat : q = m \div s /\ r = m % s
  OBVIOUS
<1>2. m = s * q + r /\ r < s
  BY <1>1
<1>3. q < 2 * F
  <2>1. SUFFICES ASSUME q >= 2 * F PROVE FALSE
    OBVIOUS
  <2>2. s * q >= s * (2 * F)
    BY <2>1
  <2> QED BY <1>2, <2>2
<1>4. q >= F
  <2>1. SUFFICES ASSUME q + 1 <= F PROVE FALSE
    OBVIOUS
  <2>2. s * (q + 1) <= s * F
    BY <2>1
  <2>3. s * (q + 1) = s * q + s
    OBVIOUS
  <2> QED BY <1>2, <2>2, <2>3
<1> QED BY <1>1, <1>3, <1>4

\* One of them divides a number into all the bits of a float.
LEMMA StepExists ==
  ASSUME NEW F \in Nat \ {0}, NEW m \in Nat, NEW n \in Nat, NEW power, Doubling(power, n),
         2 * F <= m, m < power[n]
  PROVE  \E k \in 0 .. n : m \div power[k] \in F .. 2 * F - 1
<1>1. /\ \A k \in 0 .. n : power[k] \in Nat \ {0}
      /\ power[0] = 1 /\ \A k \in 1 .. n : power[k] = 2 * power[k - 1]
  BY DEF Doubling
<1> DEFINE T == {k \in 0 .. n : m < power[k] * (2 * F)}
<1>2. n \in T
  <2>1. n \in 0 .. n
    OBVIOUS
  <2>2. PICK y \in Nat \ {0} : y = power[n]
    BY <1>1, <2>1
  <2>3. PICK g \in Nat \ {0} : g = 2 * F
    OBVIOUS
  <2>4. y <= y * g
    BY Multiple
  <2>5. m < y * g
    BY <2>2, <2>4
  <2> QED BY <2>1, <2>2, <2>3, <2>5
<1>3. PICK k \in T : \A j \in T : k <= j
  <2>1. T \subseteq Nat
    OBVIOUS
  <2> HIDE DEF T
  <2> QED BY <1>2, <2>1, LeastElement
<1>4. k \in 0 .. n /\ m < power[k] * (2 * F)
  OBVIOUS
<1>5. k # 0
  BY <1>1, <1>4
<1>6. k \in 1 .. n /\ k - 1 \in 0 .. n
  BY <1>4, <1>5
<1>7. ~(m < power[k - 1] * (2 * F))
  <2>1. k - 1 \notin T
    BY <1>3, <1>6
  <2> QED BY <1>6, <2>1
<1>8. PICK y \in Nat \ {0} : y = power[k - 1]
  BY <1>1, <1>6
<1>9. PICK s \in Nat \ {0} : s = power[k] /\ s = 2 * y
  BY <1>1, <1>4, <1>6, <1>8
<1>10. s * F <= m /\ m < s * (2 * F)
  <2>1. y * (2 * F) <= m
    BY <1>7, <1>8
  <2>2. y * (2 * F) = (2 * y) * F
    OBVIOUS
  <2> QED BY <1>4, <1>9, <2>1, <2>2
<1>11. m \div s \in F .. 2 * F - 1
  BY <1>10, FullQuotient
<1> QED BY <1>4, <1>9, <1>11

\* The nearest multiple is the one below or the one above.
LEMMA NearestMultiple ==
  ASSUME NEW m \in Nat, NEW s \in Nat \ {0}
  PROVE  \E q \in Nat, c \in {0, 1} :
           /\ q = m \div s /\ Nearest(m, s) = s * (q + c)
           /\ s * q <= m /\ m < s * (q + 1)
<1>1. PICK q \in Nat, r \in Nat : q = m \div s /\ r = m % s
  OBVIOUS
<1>2. m = s * q + r /\ r < s
  BY <1>1
<1>3. s * q <= m /\ m < s * (q + 1)
  <2>1. s * (q + 1) = s * q + s
    OBVIOUS
  <2>2. s * q \in Nat
    OBVIOUS
  <2> QED BY <1>2, <2>1, <2>2
<1> DEFINE up == 2 * (m % s) > s \/ (2 * (m % s) = s /\ (m \div s) % 2 = 1)
<1>4. Nearest(m, s) = s * (IF up THEN m \div s + 1 ELSE m \div s)
  BY DEF Nearest
<1> HIDE DEF up
<1>5. CASE up
  <2>1. Nearest(m, s) = s * (q + 1)
    BY <1>1, <1>4, <1>5
  <2> QED BY <1>1, <1>3, <2>1
<1>6. CASE ~up
  <2>1. Nearest(m, s) = s * (q + 0)
    BY <1>1, <1>4, <1>6
  <2> QED BY <1>1, <1>3, <2>1
<1> QED BY <1>5, <1>6

\* A multiple of that many bits is close enough.
LEMMA MultipleClose ==
  ASSUME NEW F \in Nat \ {0}, NEW m \in Nat, NEW s \in Nat \ {0}, NEW q \in Nat,
         NEW c \in {0, 1}, s * q <= m, m < s * (q + 1), q >= F
  PROVE  /\ s * (q + c) \in Nat
         /\ (IF s * (q + c) < m THEN m - s * (q + c) ELSE s * (q + c) - m) * F <= m
<1>1. PICK a \in Nat, t \in Nat : a = s * q /\ t = s * F
  OBVIOUS
<1>2. t <= a /\ a <= m /\ m < a + s /\ s * (q + 1) = a + s
  BY <1>1
<1>3. PICK n \in Nat : n = s * (q + c) /\ (n = a \/ n = a + s)
  BY <1>1, <1>2
<1>4. PICK e \in Nat : e = (IF n < m THEN m - n ELSE n - m) /\ e <= s
  BY <1>2, <1>3
<1>5. e * F <= s * F
  BY <1>4
<1> QED BY <1>1, <1>2, <1>3, <1>4, <1>5

\* A whole number and the float that int(digits) becomes, also with a half added,
\* are close.
LEMMA FloatsClose ==
  ASSUME NEW d \in Seq(0 .. 9)
  PROVE  CloseTo(FloatOf(d), WholeOf(d)) /\ CloseTo(AddHalf(FloatOf(d)), WholeOf(d))
<1>1. PICK F \in Nat \ {0} : F = FullMantissa
  BY MantissaAssumption
<1>2. PICK power : Doubling(power, 4 * Len(d))
                    /\ Powers(4 * Len(d)) = {power[k] : k \in 0 .. 4 * Len(d)}
  BY PowersDouble
<1>3. PICK m \in Nat : m = WholeOf(d) /\ m < power[4 * Len(d)]
  BY <1>2, WholeBelow
<1>4. CASE m < 2 * F
  <2>1. FloatOf(d) = m
    BY <1>1, <1>3, <1>4 DEF FloatOf
  <2>2. PICK h \in {m, m + 1} : h = AddHalf(m) /\ (h # m => m >= F)
    BY <1>1 DEF AddHalf
  <2>3. (IF m < m THEN m - m ELSE m - m) * F <= m
    BY SMT
  <2>4. (IF h < m THEN m - h ELSE h - m) * F <= m
    <3>1. CASE h = m
      BY <3>1
    <3>2. CASE h # m
      <4>1. h = m + 1 /\ m >= F
        BY <2>2, <3>2
      <4>2. (IF h < m THEN m - h ELSE h - m) = 1
        BY <4>1
      <4> QED BY <4>1, <4>2
    <3> QED BY <3>1, <3>2
  <2>5. CloseTo(m, m)
    BY <1>1, <2>3 DEF CloseTo
  <2>6. CloseTo(h, m)
    BY <1>1, <2>2, <2>4 DEF CloseTo
  <2> QED BY <1>3, <2>1, <2>2, <2>5, <2>6
<1>5. CASE ~(m < 2 * F)
  <2> DEFINE Full(step) == m \div step \in F .. 2 * F - 1
             s == CHOOSE step \in Powers(4 * Len(d)) : Full(step)
  <2>1. FloatOf(d) = Nearest(m, s)
    BY <1>1, <1>3, <1>5 DEF FloatOf
  <2>2. \E step \in Powers(4 * Len(d)) : Full(step)
    <3>1. 4 * Len(d) \in Nat
      OBVIOUS
    <3>2. \E k \in 0 .. 4 * Len(d) : m \div power[k] \in F .. 2 * F - 1
      BY <1>2, <1>3, <1>5, <3>1, StepExists
    <3> QED BY <1>2, <3>2
  <2>3. s \in Powers(4 * Len(d)) /\ Full(s)
    <3> HIDE DEF Full
    <3> QED BY <2>2
  <2>4. s \in Nat \ {0}
    BY <1>2, <2>3 DEF Doubling
  <2>5. m \div s \in F .. 2 * F - 1
    BY <2>3
  <2> HIDE DEF s
  <2>6. PICK q \in Nat, c \in {0, 1} :
          /\ q = m \div s /\ Nearest(m, s) = s * (q + c)
          /\ s * q <= m /\ m < s * (q + 1)
    BY <2>4, NearestMultiple
  <2>7. q >= F /\ q < 2 * F
    BY <2>5, <2>6
  <2>8. PICK n \in Nat : n = s * (q + c) /\ (IF n < m THEN m - n ELSE n - m) * F <= m
    BY <2>4, <2>6, <2>7, MultipleClose
  <2>9. n >= 2 * F
    <3>1. s # 1
      <4>1. SUFFICES ASSUME s = 1 PROVE FALSE
        OBVIOUS
      <4>2. m < q + 1
        BY <2>6, <4>1
      <4> QED BY <1>5, <2>7, <4>2
    <3>2. s >= 2 /\ q + c >= F
      BY <2>4, <2>7, <3>1
    <3>3. s * (q + c) >= 2 * F
      <4>1. PICK x \in Nat : x = q + c
        OBVIOUS
      <4>2. s * x >= 2 * x
        BY <2>4, <3>2
      <4>3. 2 * x >= 2 * F
        BY <3>2, <4>1
      <4> QED BY <2>4, <4>1, <4>2, <4>3
    <3> QED BY <2>8, <3>3
  <2>10. AddHalf(n) = n
    BY <1>1, <2>9 DEF AddHalf
  <2>11. CloseTo(n, m)
    <3>1. ~(m < F)
      BY <1>5
    <3> QED BY <1>1, <2>8, <3>1 DEF CloseTo
  <2> QED BY <1>3, <2>1, <2>6, <2>8, <2>10, <2>11
<1> QED BY <1>4, <1>5

\* Digits, and the weight of the last of them.
Numeral(v) == v.digits \in Seq(0 .. 9) /\ v.scale \in Int

\* The digits that are not zero are among those written.
LEMMA NumeralDigits ==
  ASSUME NEW v, Numeral(v), NEW w \in Int
  PROVE  /\ DigitAt(v, w) \in 0 .. 9
         /\ DigitAt(v, w) # 0 => w \in {v.scale + i : i \in 0 .. Len(v.digits)}
<1>1. PICK d \in Seq(0 .. 9), c \in Int : d = v.digits /\ c = v.scale
  BY DEF Numeral
<1>2. PICK n \in Nat : n = Len(d) /\ DOMAIN d = 1 .. n /\ \A i \in 1 .. n : d[i] \in 0 .. 9
  OBVIOUS
<1>3. PICK i \in Int : i = n - (w - c)
  OBVIOUS
<1>4. DigitAt(v, w) = IF i \in 1 .. n THEN d[i] ELSE 0
  BY <1>1, <1>2, <1>3 DEF DigitAt
<1>5. i \in 1 .. n => w - c \in 0 .. n /\ w = c + (w - c)
  BY <1>3
<1>6. i \in 1 .. n => w \in {c + j : j \in 0 .. n}
  BY <1>5
<1> QED BY <1>1, <1>2, <1>4, <1>6

\* A digit, and its weight.
LEMMA NumeralWeight ==
  ASSUME NEW v, Numeral(v), NEW i \in DOMAIN v.digits
  PROVE  /\ v.scale + Len(v.digits) - i \in Int
         /\ DigitAt(v, v.scale + Len(v.digits) - i) = v.digits[i]
<1>1. PICK d \in Seq(0 .. 9), c \in Int : d = v.digits /\ c = v.scale
  BY DEF Numeral
<1>2. PICK n \in Nat : n = Len(d) /\ DOMAIN d = 1 .. n
  OBVIOUS
<1>3. PICK j \in Int : j = i /\ j \in 1 .. n
  BY <1>1, <1>2
<1>4. PICK w \in Int : w = c + n - j
  OBVIOUS
<1>5. n - (w - c) = j
  BY <1>4
<1>6. DigitAt(v, w) = d[j]
  BY <1>1, <1>2, <1>3, <1>5 DEF DigitAt
<1> QED BY <1>1, <1>2, <1>3, <1>4, <1>6

\* What a value is told by is its digits of all weights.
LEMMA IntegralIs ==
  ASSUME NEW v, Numeral(v)
  PROVE  Integral(v) <=> \A w \in Int : w < 0 => DigitAt(v, w) = 0
<1>1. PICK d \in Seq(0 .. 9), c \in Int : d = v.digits /\ c = v.scale
  BY DEF Numeral
<1>2. PICK n \in Nat : n = Len(d) /\ DOMAIN d = 1 .. n
  OBVIOUS
<1>3. ASSUME Integral(v), NEW w \in Int, w < 0 PROVE DigitAt(v, w) = 0
  <2>1. PICK i \in Int : i = n - (w - c)
    OBVIOUS
  <2>2. DigitAt(v, w) = IF i \in 1 .. n THEN d[i] ELSE 0
    BY <1>1, <1>2, <2>1 DEF DigitAt
  <2>3. c + n - i < 0
    BY <1>3, <2>1
  <2>4. i \in 1 .. n => d[i] = 0
    BY <1>1, <1>2, <1>3, <2>3 DEF Integral
  <2> QED BY <2>2, <2>4
<1>4. ASSUME \A w \in Int : w < 0 => DigitAt(v, w) = 0,
             NEW i \in DOMAIN v.digits, v.scale + Len(v.digits) - i < 0
      PROVE  v.digits[i] = 0
  <2>1. PICK w : w = v.scale + Len(v.digits) - i
    OBVIOUS
  <2>2. w \in Int /\ DigitAt(v, w) = v.digits[i]
    BY <2>1, NumeralWeight
  <2> QED BY <1>4, <2>1, <2>2
<1> QED BY <1>3, <1>4 DEF Integral

\* One value is smaller than another where they first differ.
FirstSmaller(v, u) ==
  \E w \in Int : /\ DigitAt(v, w) < DigitAt(u, w)
                 /\ \A x \in Int : x > w => DigitAt(v, x) = DigitAt(u, x)

\* The smaller magnitude has the smaller first differing digit.
LEMMA SmallerMagnitudeIs ==
  ASSUME NEW v, NEW u, Numeral(v), Numeral(u)
  PROVE  SmallerMagnitude(v, u) <=> FirstSmaller(v, u)
<1>1. Weights(v, u) \subseteq Int
  BY DEF Weights, Numeral
<1>2. ASSUME NEW w \in Int, DigitAt(v, w) # DigitAt(u, w) PROVE w \in Weights(v, u)
  <2>1. DigitAt(v, w) # 0 \/ DigitAt(u, w) # 0
    BY <1>2
  <2> QED BY <2>1, NumeralDigits DEF Weights
<1>3. \A w \in Int : DigitAt(v, w) \in 0 .. 9 /\ DigitAt(u, w) \in 0 .. 9
  BY NumeralDigits
<1>4. ASSUME SmallerMagnitude(v, u) PROVE FirstSmaller(v, u)
  <2>1. PICK w \in Weights(v, u) :
          /\ DigitAt(v, w) < DigitAt(u, w)
          /\ \A x \in Weights(v, u) : x > w => DigitAt(v, x) = DigitAt(u, x)
    BY <1>4 DEF SmallerMagnitude
  <2> QED BY <1>1, <1>2, <2>1 DEF FirstSmaller
<1>5. ASSUME NEW w \in Int, DigitAt(v, w) < DigitAt(u, w),
             \A x \in Int : x > w => DigitAt(v, x) = DigitAt(u, x)
      PROVE  SmallerMagnitude(v, u)
  <2>1. DigitAt(v, w) # DigitAt(u, w)
    BY <1>3, <1>5
  <2>2. w \in Weights(v, u)
    BY <1>2, <2>1
  <2> QED BY <1>1, <1>5, <2>2 DEF SmallerMagnitude
<1> QED BY <1>4, <1>5 DEF FirstSmaller

\* The same magnitude has the same digits.
LEMMA SameMagnitudeIs ==
  ASSUME NEW v, NEW u, Numeral(v), Numeral(u)
  PROVE  SameMagnitude(v, u) <=> \A w \in Int : DigitAt(v, w) = DigitAt(u, w)
<1>1. Weights(v, u) \subseteq Int
  BY DEF Weights, Numeral
<1>2. ASSUME SameMagnitude(v, u), NEW w \in Int PROVE DigitAt(v, w) = DigitAt(u, w)
  BY <1>2, NumeralDigits DEF SameMagnitude, Weights
<1>3. ASSUME \A w \in Int : DigitAt(v, w) = DigitAt(u, w) PROVE SameMagnitude(v, u)
  BY <1>1, <1>3 DEF SameMagnitude
<1> QED BY <1>2, <1>3

\* The bound of int64 is a numeral.
LEMMA TwoTo63Numeral == Numeral(TwoTo63)
<1>1. PICK d : d = <<9, 2, 2, 3, 3, 7, 2, 0, 3, 6, 8, 5, 4, 7, 7, 5, 8, 0, 8>>
  OBVIOUS
<1>2. d \in Seq(0 .. 9)
  BY <1>1
<1>3. TwoTo63.digits = d /\ TwoTo63.scale = 0
  BY <1>1 DEF TwoTo63
<1> QED BY <1>2, <1>3 DEF Numeral

\* Numbers of the same digits and sign are both integers of 64 bits or neither is.
LEMMA Int64Alike ==
  ASSUME NEW v, NEW u, Numeral(v), Numeral(u), v.negative = u.negative,
         \A w \in Int : DigitAt(v, w) = DigitAt(u, w)
  PROVE  IsInt64(v) <=> IsInt64(u)
<1>1. Integral(v) <=> Integral(u)
  BY IntegralIs
<1>2. SmallerMagnitude(v, TwoTo63) <=> SmallerMagnitude(u, TwoTo63)
  <2>1. FirstSmaller(v, TwoTo63) <=> FirstSmaller(u, TwoTo63)
    BY DEF FirstSmaller
  <2>2. SmallerMagnitude(v, TwoTo63) <=> FirstSmaller(v, TwoTo63)
    BY SmallerMagnitudeIs, TwoTo63Numeral
  <2>3. SmallerMagnitude(u, TwoTo63) <=> FirstSmaller(u, TwoTo63)
    BY SmallerMagnitudeIs, TwoTo63Numeral
  <2> QED BY <2>1, <2>2, <2>3
<1>3. SameMagnitude(v, TwoTo63) <=> SameMagnitude(u, TwoTo63)
  BY SameMagnitudeIs, TwoTo63Numeral
<1> QED BY <1>1, <1>2, <1>3 DEF IsInt64

\* Zero is one.
LEMMA ZeroInt64 ==
  ASSUME NEW v, Numeral(v), IsZero(v)
  PROVE  IsInt64(v)
<1>1. \A w \in Int : DigitAt(v, w) = 0
  BY DEF DigitAt, IsZero
<1>2. Integral(v)
  BY DEF IsZero, Integral
<1>3. PICK d : d = <<9, 2, 2, 3, 3, 7, 2, 0, 3, 6, 8, 5, 4, 7, 7, 5, 8, 0, 8>>
  OBVIOUS
<1>4. Len(d) = 19 /\ DOMAIN d = 1 .. 19 /\ d[1] = 9
  BY <1>3
<1>5. TwoTo63.digits = d /\ TwoTo63.scale = 0
  BY <1>3 DEF TwoTo63
<1>6. ASSUME NEW w \in Int PROVE DigitAt(TwoTo63, w) = IF 19 - w \in 1 .. 19 THEN d[19 - w] ELSE 0
  <2>1. 19 - (w - 0) = 19 - w
    OBVIOUS
  <2> QED BY <1>4, <1>5, <2>1 DEF DigitAt
<1>7. DigitAt(TwoTo63, 18) = 9
  <2>1. 19 - 18 = 1 /\ 1 \in 1 .. 19
    OBVIOUS
  <2> QED BY <1>4, <1>6, <2>1
<1>8. ASSUME NEW x \in Int, x > 18 PROVE DigitAt(TwoTo63, x) = 0
  <2>1. 19 - x \notin 1 .. 19
    BY <1>8
  <2> QED BY <1>6, <2>1
<1>9. SmallerMagnitude(v, TwoTo63)
  <2>1. DigitAt(v, 18) < DigitAt(TwoTo63, 18)
    BY <1>1, <1>7
  <2>2. FirstSmaller(v, TwoTo63)
    BY <1>1, <1>8, <2>1 DEF FirstSmaller
  <2> QED BY <2>2, SmallerMagnitudeIs, TwoTo63Numeral
<1> QED BY <1>2, <1>9 DEF IsInt64

\* A value is no infinity,
LEMMA NoInfinity ==
  ASSUME NEW v \in Value
  PROVE  v \notin Infinities
<1>1. "infinite" \notin DOMAIN v
  BY DEF Value
<1>2. \A u \in Infinities : "infinite" \in DOMAIN u
  BY DEF Infinities, Infinity
<1> QED BY <1>1, <1>2

\* and has not the bytes of one.
LEMMA NotInfinite ==
  ASSUME NEW v \in Value, InRange(v)
  PROVE  Encoded(v) # PositiveInfinity /\ Encoded(v) # NegativeInfinity /\ v \notin Infinities
<1>1. v \notin Infinities
  BY NoInfinity
<1>2. PICK x \in Nat \ {0} : x = ExponentLimit
  BY LimitAssumption
<1>3. CASE IsZero(v)
  <2>1. Encoded(v) = <<2 * x>>
    BY <1>2, <1>3 DEF Encoded, ZeroBytes, TopBit
  <2>2. <<2 * x>> # << 0 >>
    <3>1. <<2 * x>>[1] # << 0 >>[1]
      OBVIOUS
    <3> QED BY <3>1
  <2>3. <<2 * x>> # <<4 * x - 1, 101>>
    <3>1. Len(<<2 * x>>) # Len(<<4 * x - 1, 101>>)
      OBVIOUS
    <3> QED BY <3>1
  <2> QED BY <1>1, <1>2, <2>1, <2>2, <2>3 DEF PositiveInfinity, NegativeInfinity
<1>4. CASE ~IsZero(v)
  <2>1. Encoded(v) # NegativeInfinity
    <3>1. Len(Encoded(v)) >= 2
      BY <1>4, TwoBytes
    <3>2. SUFFICES ASSUME Encoded(v) = << 0 >> PROVE FALSE
      BY DEF NegativeInfinity
    <3>3. Len(Encoded(v)) = 1
      BY <3>2
    <3> QED BY <3>1, <3>3
  <2>2. SUFFICES ASSUME Encoded(v) = <<4 * x - 1, 101>> PROVE FALSE
    BY <1>1, <1>2, <2>1 DEF PositiveInfinity
  <2>3. Encoded(v)[1] = 4 * x - 1 /\ Encoded(v)[2] = 101
    BY <2>2
  <2>4. PICK p \in Int : p = TopPair(v)
    BY <1>4, PairsSpan
  <2>5. p \in -x .. x - 1 /\ Encoded(v)[1] = IF v.negative THEN x - 1 - p ELSE 3 * x + p
    BY <1>2, <1>4, <2>4, FirstByte
  <2>6. ~v.negative
    BY <2>3, <2>5
  <2>7. PICK b \in 0 .. 99 : b = PairAt(v, 1)
    BY <1>4, PairRange
  <2>8. Encoded(v)[1 + 1] = PairByte(b, v.negative)
    <3>1. 1 \in 1 .. Pairs(v)
      BY <1>4, PairsSpan
    <3> QED BY <1>4, <2>7, <3>1, EncodedBytes
  <2>9. Encoded(v)[2] = b + 1
    BY <2>6, <2>8 DEF PairByte
  <2> QED BY <2>3, <2>9
<1> QED BY <1>3, <1>4

\* The digits come back, two more at most.
LEMMA NumeralBack ==
  ASSUME NEW v \in Value, InRange(v)
  PROVE  \E r : /\ r = Decoded(Encoded(v)) /\ Numeral(r) /\ Same(r, v)
                /\ Len(r.digits) \in 1 .. Len(v.digits) + 2
                /\ \A w \in Int : DigitAt(r, w) = DigitAt(v, w)
                /\ ~IsZero(v) => r.negative = v.negative
                /\ IsZero(v) => IsZero(r)
<1>1. CASE IsZero(v)
  <2>1. PICK r : r = [digits |-> << 0 >>, scale |-> 0, negative |-> FALSE]
    OBVIOUS
  <2>2. r = Decoded(Encoded(v))
    BY <1>1, <2>1 DEF Encoded, Decoded
  <2>3. r.digits = << 0 >> /\ r.scale = 0
    BY <2>1
  <2>4. IsZero(r)
    BY <2>3 DEF IsZero
  <2>5. ASSUME NEW w \in Int PROVE DigitAt(r, w) = DigitAt(v, w)
    <3>1. DigitAt(r, w) = 0
      BY <2>3 DEF DigitAt
    <3> QED BY <1>1, <3>1, ZeroDigits
  <2>6. Numeral(r) /\ Len(r.digits) = 1
    BY <2>3 DEF Numeral
  <2>7. Weights(r, v) \subseteq Int
    BY <2>3, Parts DEF Weights
  <2>8. Same(r, v)
    BY <2>4, <2>5, <2>7 DEF Same, SameMagnitude
  <2>9. Len(r.digits) \in 1 .. Len(v.digits) + 2
    BY <2>6, Parts
  <2> QED BY <1>1, <2>2, <2>4, <2>5, <2>6, <2>8, <2>9
<1>2. CASE ~IsZero(v)
  <2>1. PICK s \in Seq(Int), n \in Nat \ {0}, p \in Int, l \in Int :
          s = Encoded(v) /\ n = Pairs(v) /\ p = TopPair(v) /\ l = Lowest(v)
    BY <1>2, EncodedBytes, PairsSpan
  <2>2. s # ZeroBytes
    <3>1. Len(s) >= 2
      BY <1>2, <2>1, TwoBytes
    <3> QED BY <3>1 DEF ZeroBytes
  <2>3. /\ Len(Mantissa(s)) = n
        /\ \A k \in 1 .. n : DecodedPair(Mantissa(s)[k], v.negative) = PairAt(v, k)
        /\ Negative(s) = v.negative /\ DecodedExponent(s) = p
    BY <1>2, <2>1, MantissaBack, FirstByteBack
  <2> DEFINE digits == [i \in 1 .. 2 * n |->
                   IF i % 2 = 1
                   THEN DecodedPair(Mantissa(s)[(i + 1) \div 2], Negative(s)) \div 10
                   ELSE DecodedPair(Mantissa(s)[i \div 2], Negative(s)) % 10]
  <2>4. Decoded(s) = [digits |-> digits, scale |-> p * 2 - Len(digits),
                      negative |-> v.negative]
    BY <2>2, <2>3 DEF Decoded
  <2>5. ASSUME NEW i \in 1 .. 2 * n PROVE digits[i] = DigitAt(v, 2 * p - i)
    <3>1. i % 2 = 1 => (i + 1) \div 2 \in 1 .. n
      OBVIOUS
    <3>2. i % 2 # 1 => i \div 2 \in 1 .. n
      OBVIOUS
    <3>3. digits[i] = IF i % 2 = 1 THEN PairAt(v, (i + 1) \div 2) \div 10
                                   ELSE PairAt(v, i \div 2) % 10
      BY <2>3, <3>1, <3>2
    <3> QED BY <1>2, <2>1, <3>3, DigitsBack
  <2>6. DOMAIN digits = 1 .. 2 * n
    OBVIOUS
  <2>a. digits \in [1 .. 2 * n -> 0 .. 9]
    <3>1. digits = [i \in 1 .. 2 * n |-> digits[i]]
      OBVIOUS
    <3>2. ASSUME NEW i \in 1 .. 2 * n PROVE digits[i] \in 0 .. 9
      <4>1. 2 * p - i \in Int
        OBVIOUS
      <4> HIDE DEF digits
      <4> QED BY <2>5, <4>1, DigitsAreDigits
    <3> HIDE DEF digits
    <3> QED BY <3>1, <3>2
  <2> HIDE DEF digits
  <2>7. Len(digits) = 2 * n
    BY <2>6
  <2>b. digits \in Seq(0 .. 9)
    BY <2>a
  <2>8. PICK r : r = Decoded(s)
    OBVIOUS
  <2>9. /\ r.digits = digits /\ r.scale = p * 2 - 2 * n /\ r.negative = v.negative
    BY <2>4, <2>7, <2>8
  <2>10. ASSUME NEW w \in Int PROVE DigitAt(r, w) = DigitAt(v, w)
    <3>a. PICK t \in Int : t = 2 * p
      OBVIOUS
    <3>b. PICK i \in Int : i = t - w
      OBVIOUS
    <3>1. i = 2 * p - w
      BY <3>a, <3>b
    <3>2. 2 * n - (w - (p * 2 - 2 * n)) = i /\ 2 * p - i = w
      BY <3>1
    <3>3. DigitAt(r, w) = IF i \in 1 .. 2 * n THEN digits[i] ELSE 0
      BY <2>6, <2>7, <2>9, <3>2 DEF DigitAt
    <3>4. CASE i \in 1 .. 2 * n
      BY <2>5, <3>2, <3>3, <3>4
    <3>5. CASE i \notin 1 .. 2 * n
      <4>1. /\ Top(v) = 2 * p - 1 /\ Top(v) - 2 * n + 1 <= l
            /\ \A x \in Int : x > Top(v) \/ x < l => DigitAt(v, x) = 0
        BY <1>2, <2>1, PairsSpan
      <4>2. w > 2 * p - 1 \/ w < l
        BY <3>1, <3>5, <4>1
      <4> QED BY <3>3, <3>5, <4>1, <4>2
    <3> QED BY <3>4, <3>5
  <2>11. Weights(r, v) \subseteq Int
    BY <2>7, <2>9, Parts DEF Weights
  <2>12. Same(r, v)
    BY <2>9, <2>10, <2>11 DEF Same, SameMagnitude
  <2>13. Numeral(r)
    BY <2>b, <2>9 DEF Numeral
  <2>14. 2 * n \in 1 .. Len(v.digits) + 2
    <3>1. PICK m \in Nat : m = Len(v.digits)
      BY Parts
    <3>2. PICK e \in Int, t \in Int : e = Exponent(v) /\ t = Top(v)
      BY <1>2, PairsSpan, Weight
    <3>3. Len(Significant(v.digits)) = e - l + 1 /\ l <= e
      BY <1>2, <2>1, <3>2, Weight
    <3>4. PICK f \in 1 .. m, g \in 1 .. m :
            f <= g /\ Significant(v.digits) = SubSeq(v.digits, f, g)
      BY <1>2, <3>1, FirstAndLast
    <3>5. Len(SubSeq(v.digits, f, g)) = g - f + 1
      <4>1. v.digits \in Seq(0 .. 9) /\ f \in 1 .. Len(v.digits) /\ g \in 1 .. Len(v.digits)
        BY <3>1, Parts
      <4> QED BY <3>4, <4>1
    <3>6. e - l + 1 <= m
      BY <3>3, <3>4, <3>5
    <3>7. t <= e + 1 /\ l <= t - 2 * n + 2
      BY <1>2, <2>1, <3>2, PairsSpan
    <3> QED BY <3>1, <3>6, <3>7
  <2>15. Len(r.digits) \in 1 .. Len(v.digits) + 2
    BY <2>7, <2>9, <2>14
  <2> QED BY <1>2, <2>1, <2>8, <2>9, <2>10, <2>12, <2>13, <2>15
<1> QED BY <1>1, <1>2

\* decode_number gives the value that encode_number was given, whatever digits it
\* is written with, if its exponent fits and it is a whole number of 64 bits; else
\* a float of the value's sign whose whole number is close to that of the digits.
THEOREM NumbersRoundTrip ==
  ASSUME NEW v \in Value, InRange(v)
  PROVE  SameNumber(DecodedNumber(Encoded(v)), v)
<1>1. PICK r :
        /\ r = Decoded(Encoded(v)) /\ Numeral(r) /\ Same(r, v)
        /\ Len(r.digits) \in 1 .. Len(v.digits) + 2
        /\ \A w \in Int : DigitAt(r, w) = DigitAt(v, w)
        /\ ~IsZero(v) => r.negative = v.negative
        /\ IsZero(v) => IsZero(r)
  BY NumeralBack
<1>2. Numeral(v)
  BY Parts DEF Numeral
<1>3. IsInt64(r) <=> IsInt64(v)
  <2>1. CASE IsZero(v)
    BY <1>1, <1>2, <2>1, ZeroInt64
  <2>2. CASE ~IsZero(v)
    BY <1>1, <1>2, <2>2, Int64Alike
  <2> QED BY <2>1, <2>2
<1>4. Encoded(v) \notin {PositiveInfinity, NegativeInfinity} /\ v \notin Infinities
  BY NotInfinite
<1>5. CASE IsInt64(v)
  <2>1. DecodedNumber(Encoded(v)) = r
    BY <1>1, <1>3, <1>4, <1>5 DEF DecodedNumber
  <2> QED BY <1>1, <1>4, <1>5, <2>1 DEF SameNumber
<1>6. CASE ~IsInt64(v)
  <2>1. ~IsZero(v) /\ r.negative = v.negative
    BY <1>1, <1>2, <1>6, ZeroInt64
  <2>2. PICK float :
          float = [mantissa |-> IF r.scale < 0 THEN AddHalf(FloatOf(r.digits))
                                ELSE FloatOf(r.digits),
                   scale |-> r.scale, negative |-> r.negative]
    OBVIOUS
  <2>3. DecodedNumber(Encoded(v)) = float
    BY <1>1, <1>3, <1>4, <1>6, <2>2 DEF DecodedNumber
  <2>4. PICK d \in Seq(0 .. 9), c \in Int, n \in 1 .. Len(v.digits) + 2 :
          d = r.digits /\ c = r.scale /\ n = Len(r.digits)
    BY <1>1 DEF Numeral
  <2>5. n \in Nat /\ DOMAIN d = 1 .. n
    <3>1. Len(v.digits) \in Nat
      BY Parts
    <3> QED BY <2>4, <3>1
  <2>6. float.scale = c /\ float.negative = v.negative
    BY <2>1, <2>2, <2>4
  <2>7. CloseTo(float.mantissa, WholeOf(d))
    <3>1. float.mantissa \in {AddHalf(FloatOf(d)), FloatOf(d)}
      BY <2>2, <2>4
    <3> QED BY <3>1, FloatsClose
  <2>8. d = [i \in 1 .. n |-> DigitAt(v, c + n - i)]
    <3>1. ASSUME NEW i \in 1 .. n PROVE d[i] = DigitAt(v, c + n - i)
      <4>1. PICK w \in Int : w = c + n - i
        BY <2>5
      <4>2. DigitAt(r, w) = d[i]
        BY <1>1, <2>4, <2>5, <4>1, NumeralWeight
      <4> QED BY <1>1, <4>1, <4>2
    <3>2. d = [i \in 1 .. n |-> d[i]]
      BY <2>5
    <3> QED BY <3>1, <3>2
  <2>9. ASSUME NEW w \in Weights(v, v), DigitAt(v, w) # 0 PROVE w \in c .. c + n - 1
    <3>1. w \in Int
      BY <1>2, <2>9 DEF Weights, Numeral
    <3>2. DigitAt(r, w) # 0
      BY <1>1, <2>9, <3>1
    <3>3. n - (w - c) \in 1 .. n
      BY <2>4, <2>5, <3>2 DEF DigitAt
    <3> QED BY <2>5, <3>1, <3>3
  <2>10. Rounded(float, v)
    BY <2>4, <2>6, <2>7, <2>8, <2>9 DEF Rounded
  <2> QED BY <1>4, <1>6, <2>3, <2>10 DEF SameNumber
<1> QED BY <1>5, <1>6

-----------------------------------------------------------------------------
(* The exchange of one number.                                             *)

\* The numbers of the theorems: their bytes fit into a CLR without chunks.
ShortNumbers == MaxDigits <= 499

\* The only field of an exchange is a number to be bound.
Bound(f) == /\ fields = <<f>> /\ f.kind = "bind" /\ f.form.bind \in BoundNumbers
            /\ f.value # Null

\* What put_clr puts into the buffer for a number.
Sent(value) == <<Len(Encoded(value))>> \o Encoded(value)

\* The number, and nothing else, goes through the buffer.
NumberOnWire ==
  /\ \E e \in Exchanges : fields = e.fields
  /\ \A f \in {fields[1]} : Bound(f) =>
       /\ pc = "putting" =>
            /\ put \in {0, 1} /\ got = <<>>
            /\ wire = IF put = 0 THEN <<>> ELSE Sent(f.value)
       /\ pc = "getting" => got = <<>> /\ wire = Sent(f.value)

\* A field that is bound to a number has one.
LEMMA BoundValue ==
  ASSUME NumberOnWire, NEW f, Bound(f)
  PROVE  f.value \in Value /\ fields[1] = f /\ Len(fields) = 1
<1>1. PICK e \in Exchanges : e.fields = <<f>>
  BY DEF NumberOnWire, Bound
<1>2. 1 \in DOMAIN e.fields /\ e.fields[1] = f
  BY <1>1
<1> QED BY <1>2, NumbersAssumption DEF Bound

\* A number takes up to 252 bytes.
LEMMA EncodedLength ==
  ASSUME ShortNumbers, NEW v \in Value
  PROVE  Encoded(v) \in Seq(Int) /\ Len(Encoded(v)) \in 1 .. MaxShort
<1>1. CASE IsZero(v)
  <2>1. PICK x \in Int : x = TopBit
    BY LimitAssumption DEF TopBit
  <2>2. Encoded(v) = <<x>>
    BY <1>1, <2>1 DEF Encoded, ZeroBytes
  <2> QED BY <2>2 DEF MaxShort
<1>2. CASE ~IsZero(v)
  <2>1. PICK n \in Nat \ {0}, t \in Int, e \in Int, l \in Int, m \in Nat :
          n = Pairs(v) /\ t = Top(v) /\ e = Exponent(v) /\ l = Lowest(v)
            /\ m = Len(v.digits)
    BY <1>2, PairsSpan, Weight, Parts
  <2>2. t <= e + 1 /\ l <= t - 2 * n + 2
    BY <1>2, <2>1, PairsSpan
  <2>3. e - l + 1 <= m /\ m <= 499
    <3>1. m <= MaxDigits /\ MaxDigits \in Nat
      BY <2>1, Parts, DigitsAssumption
    <3> QED BY <1>2, <2>1, <3>1, Weight DEF ShortNumbers
  <2>4. n <= 250
    BY <2>2, <2>3
  <2>5. Len(Encoded(v)) = n + (IF WithMarker(v) THEN 2 ELSE 1)
    BY <1>2, <2>1, EncodedBytes
  <2> QED BY <1>2, <2>4, <2>5, TwoBytes DEF MaxShort
<1> QED BY <1>1, <1>2

\* The bytes of a number are put as they are, under their size.
LEMMA BytesOfNumber ==
  ASSUME ShortNumbers, NEW f, Bound(f), f.value \in Value
  PROVE  /\ Bytes(f) = Sent(f.value) /\ Sent(f.value) \in Seq(Int)
         /\ Sent(f.value) # <<>> /\ Tail(Sent(f.value)) = Encoded(f.value)
         /\ Head(Sent(f.value)) = Len(Encoded(f.value))
<1>1. PICK s \in Seq(Int) : s = Encoded(f.value) /\ Len(s) \in 1 .. MaxShort
  BY EncodedLength
<1>2. Bytes(f) = PutClr(BoundBytes(f.value, f.form.bind, f.form.connCharset), session.big)
  BY DEF Bound, Bytes
<1>3. BoundBytes(f.value, f.form.bind, f.form.connCharset) = s
  <2>1. f.value # Null /\ f.form.bind \in {2, 4}
    BY DEF Bound, BoundNumbers
  <2>2. /\ f.form.bind \in BoundNumbers /\ f.form.bind \notin BoundTexts
        /\ f.form.bind \notin BoundRaws /\ f.form.bind \notin Booleans
        /\ f.form.bind \notin Dates /\ f.form.bind \notin Timestamps \cup ZonedTimestamps
    <3>1. \A t \in {2, 4} :
            /\ t \in BoundNumbers /\ t \notin BoundTexts /\ t \notin BoundRaws
            /\ t \notin Booleans /\ t \notin Dates
            /\ t \notin Timestamps \cup ZonedTimestamps
      BY DEF BoundNumbers, BoundTexts, BoundRaws, Booleans, Dates, Timestamps,
         ZonedTimestamps
    <3> QED BY <2>1, <3>1
  <2>3. BoundBytes(f.value, f.form.bind, f.form.connCharset) = Encoded(f.value)
    BY <2>1, <2>2 DEF BoundBytes
  <2> QED BY <1>1, <2>3
<1>4. PutClr(s, session.big) = <<Len(s)>> \o s
  BY <1>1 DEF PutClr
<1>5. /\ <<Len(s)>> \o s \in Seq(Int) /\ <<Len(s)>> \o s # <<>>
      /\ Tail(<<Len(s)>> \o s) = s /\ Head(<<Len(s)>> \o s) = Len(s)
  <2>1. PICK n \in Int : n = Len(s)
    BY <1>1
  <2>2. /\ <<n>> \o s \in Seq(Int) /\ Len(<<n>> \o s) = 1 + Len(s)
        /\ (<<n>> \o s)[1] = n
        /\ \A i \in 1 .. Len(s) : (<<n>> \o s)[i + 1] = s[i]
    OBVIOUS
  <2>3. Tail(<<n>> \o s) = s
    <3>1. PICK t \in Seq(Int) : t = <<n>> \o s
      BY <2>2
    <3>2. /\ Tail(t) \in Seq(Int) /\ Len(Tail(t)) = Len(s)
          /\ \A i \in 1 .. Len(s) : Tail(t)[i] = t[i + 1]
      BY <2>2, <3>1
    <3>3. \A i \in 1 .. Len(Tail(t)) : Tail(t)[i] = s[i]
      BY <2>2, <3>1, <3>2
    <3> QED BY <3>1, <3>2, <3>3, SeqEqual
  <2> QED BY <2>1, <2>2, <2>3
<1> QED BY <1>1, <1>2, <1>3, <1>4, <1>5 DEF Sent

\* It goes through the buffer alone.
LEMMA NumberOnWireAlways ==
  ASSUME ShortNumbers
  PROVE  Spec => []NumberOnWire
<1>1. Init => NumberOnWire
  BY DEF Init, NumberOnWire
<1>2. ASSUME NumberOnWire, [Next]_vars PROVE NumberOnWire'
  <2>1. fields' = fields
    BY <1>2 DEF Next, Put, PutFails, Send, Get, GetFails, vars
  <2>2. \E e \in Exchanges : fields' = e.fields
    BY <1>2, <2>1 DEF NumberOnWire
  <2>3. PICK f : f = fields[1]
    OBVIOUS
  <2>4. SUFFICES ASSUME Bound(f)
        PROVE  /\ pc' = "putting" =>
                    /\ put' \in {0, 1} /\ got' = <<>>
                    /\ wire' = IF put' = 0 THEN <<>> ELSE Sent(f.value)
               /\ pc' = "getting" => got' = <<>> /\ wire' = Sent(f.value)
    BY <2>1, <2>2, <2>3 DEF NumberOnWire, Bound
  <2>5. f.value \in Value /\ Len(fields) = 1
    BY <1>2, <2>4, BoundValue
  <2>6. Bytes(f) = Sent(f.value) /\ Sent(f.value) \in Seq(Int)
    BY <2>4, <2>5, BytesOfNumber
  <2>7. /\ pc = "putting" =>
             /\ put \in {0, 1} /\ got = <<>>
             /\ wire = IF put = 0 THEN <<>> ELSE Sent(f.value)
        /\ pc = "getting" => got = <<>> /\ wire = Sent(f.value)
    BY <1>2, <2>3, <2>4 DEF NumberOnWire
  <2>8. CASE Put
    <3>1. pc = "putting" /\ put = 0 /\ put' = 1 /\ pc' = pc /\ got' = got
          /\ wire' = wire \o Bytes(fields[put + 1])
      BY <2>5, <2>7, <2>8 DEF Put
    <3>2. wire = <<>> /\ fields[put + 1] = f
      BY <2>3, <2>7, <3>1
    <3>3. <<>> \o Sent(f.value) = Sent(f.value)
      BY <2>6
    <3> QED BY <2>6, <2>7, <3>1, <3>2, <3>3
  <2>9. CASE Send
    <3>1. pc = "putting" /\ put = 1 /\ pc' = "getting" /\ got' = got /\ wire' = wire
      BY <2>5, <2>9 DEF Send
    <3> QED BY <2>7, <3>1
  <2>10. CASE Get
    <3>1. got = <<>>
      BY <2>7, <2>10 DEF Get
    <3>2. PICK x : got' = Append(<<>>, x) /\ pc' = IF Len(got') = Len(fields)
                                                   THEN "done" ELSE "getting"
      BY <2>10, <3>1 DEF Get
    <3>3. got' = <<x>> /\ Len(got') = 1
      BY <3>2
    <3> QED BY <2>5, <3>2, <3>3
  <2>11. CASE PutFails \/ GetFails
    BY <2>11 DEF PutFails, GetFails
  <2>12. CASE UNCHANGED vars
    BY <2>7, <2>12 DEF vars
  <2> QED BY <1>2, <2>8, <2>9, <2>10, <2>11, <2>12 DEF Next
<1> QED BY <1>1, <1>2, PTL DEF Spec

\* CanonicalBytes: equal numbers are bound with the same bytes.
THEOREM EqualNumbersSent ==
  ASSUME ShortNumbers
  PROVE  Spec => []CanonicalBytes
<1>1. NumberOnWire => CanonicalBytes
  <2> SUFFICES ASSUME NumberOnWire, NEW f \in {fields[1]}, NumberSent(f),
                      NEW other \in Value, Same(f.value, other)
               PROVE  Tail(wire) = Encoded(other)
    BY DEF CanonicalBytes
  <2>1. Bound(f) /\ pc = "getting"
    BY DEF NumberSent, Bound
  <2>2. f.value \in Value
    BY <2>1, BoundValue
  <2>3. wire = Sent(f.value)
    BY <2>1 DEF NumberOnWire
  <2> QED BY <2>1, <2>2, <2>3, BytesOfNumber, EqualEncodings
<1> QED BY <1>1, NumberOnWireAlways, PTL

\* OrderPreserved: the bytes of a number that is bound compare with those of any
\* other as the values do.
THEOREM NumbersSentInOrder ==
  ASSUME ShortNumbers
  PROVE  Spec => []OrderPreserved
<1>1. NumberOnWire => OrderPreserved
  <2> SUFFICES ASSUME NumberOnWire, NEW f \in {fields[1]}, NumberSent(f),
                      InRange(f.value), NEW other \in Value, InRange(other),
                      Less(f.value, other),
                      \A v \in {f.value, other} :
                        v.negative => Len(v.digits) < MarkerDigits - 1
               PROVE  Before(Tail(wire), Encoded(other))
    BY DEF OrderPreserved
  <2>1. Bound(f) /\ pc = "getting"
    BY DEF NumberSent, Bound
  <2>2. f.value \in Value
    BY <2>1, BoundValue
  <2>3. wire = Sent(f.value)
    BY <2>1 DEF NumberOnWire
  <2> QED BY <2>1, <2>2, <2>3, BytesOfNumber, OrderedEncodings
<1> QED BY <1>1, NumberOnWireAlways, PTL

-----------------------------------------------------------------------------
(* A number is got as it was put.                                          *)

\* The column it is read from has numbers.
NumberColumn(f) == Bound(f) /\ f.form.type \in ReadNumbers

\* What get_clr and decode_value get from the bytes of a number: the value that
\* its bytes are decoded to, and no more bytes than were put.
LEMMA NumberRead ==
  ASSUME ShortNumbers, NEW f, NumberColumn(f), f.value \in Value
  PROVE  Read(f, Sent(f.value)) = Got(DecodedNumber(Encoded(f.value)), <<>>)
<1>1. PICK s \in Seq(Int) : s = Encoded(f.value) /\ Len(s) \in 1 .. MaxShort
  BY EncodedLength
<1>2. PICK t \in Seq(Int), n \in Nat : t = Sent(f.value) /\ n = Len(s)
  BY <1>1, BytesOfNumber DEF NumberColumn
<1>3. t # <<>> /\ Tail(t) = s /\ Head(t) = n /\ n \in 1 .. 252
  BY <1>1, <1>2, BytesOfNumber DEF NumberColumn, MaxShort
<1>4. Read(f, t) = ReadValue(t, f.form, session.big)
  BY DEF NumberColumn, Bound, Read
<1>5. GetClr(t, session.big) = Got(s, <<>>)
  <2>1. n \notin NullSizes /\ n # Chunked
    BY <1>3 DEF NullSizes, Chunked
  <2>2. GetClr(t, session.big) = GetBytes(s, n)
    BY <1>3, <2>1 DEF GetClr
  <2>3. SubSeq(s, 1, n) = s
    <3>1. \A i \in 1 .. n : s[i] \in Int
      BY <1>2
    <3>2. /\ SubSeq(s, 1, n) \in Seq(Int) /\ Len(SubSeq(s, 1, n)) = n
          /\ \A i \in 1 .. n : SubSeq(s, 1, n)[i] = s[i]
      <4>1. 1 <= n /\ n - 1 + 1 = n /\ 1 \in Int /\ n \in Int
        BY <1>3
      <4>2. /\ SubSeq(s, 1, n) \in Seq(Int) /\ Len(SubSeq(s, 1, n)) = n
            /\ \A i \in 1 .. n : SubSeq(s, 1, n)[i] = s[1 + i - 1]
        BY <3>1, <4>1, SubSeqProperties
      <4>3. \A i \in 1 .. n : 1 + i - 1 = i
        OBVIOUS
      <4> QED BY <4>2, <4>3
    <3> QED BY <1>2, <3>2, SeqEqual
  <2>4. SubSeq(s, n + 1, n) = <<>>
    <3>1. n < n + 1 /\ n \in Int /\ n + 1 \in Int
      OBVIOUS
    <3> QED BY <3>1, SubSeqEmpty
  <2>5. n \in 0 .. Len(s)
    BY <1>2
  <2> QED BY <1>2, <2>2, <2>3, <2>4, <2>5 DEF GetBytes
<1>6. PICK type : type = f.form.type /\ type \in {2, 3, 4}
  BY DEF NumberColumn, ReadNumbers
<1>7. ~Absent(f.form)
  BY <1>6 DEF Absent
<1>8. \A y \in {2, 3, 4} :
        /\ y \in ReadNumbers /\ y \notin ReadTexts /\ y \notin Booleans
        /\ y \notin ReadRaws \cup Locators /\ y \notin Moments
        /\ y \notin Doubles /\ y \notin Floats
  BY DEF ReadNumbers, ReadTexts, Booleans, ReadRaws, Locators, Moments, Dates,
     Timestamps, ZonedTimestamps, Doubles, Floats
<1>9. s # <<>> /\ Decodes(s, type)
  BY <1>1, <1>6, <1>8 DEF Decodes, Readable
<1>10. Decode(s, f.form) = DecodedNumber(s)
  <2>1. /\ f.form.type \in ReadNumbers /\ f.form.type \notin ReadTexts
        /\ f.form.type \notin Booleans /\ f.form.type \notin ReadRaws \cup Locators
        /\ f.form.type \notin Moments /\ f.form.type \notin Doubles
        /\ f.form.type \notin Floats
    BY <1>6, <1>8
  <2> QED BY <2>1 DEF Decode
<1>11. ReadValue(t, f.form, session.big)
         = IF s = <<>> THEN Got(Null, <<>>)
           ELSE IF ~Decodes(s, f.form.type) THEN Raised
           ELSE Got(Decode(s, f.form), <<>>)
  BY <1>5, <1>7 DEF ReadValue, Then, Got
<1> QED BY <1>1, <1>2, <1>4, <1>6, <1>9, <1>10, <1>11

\* A number is got, and all of its bytes are.
NumberArrives ==
  \A f \in {fields[1]} : NumberColumn(f) =>
    /\ pc \in {"putting", "getting", "done"}
    /\ pc = "done" => got = <<DecodedNumber(Encoded(f.value))>> /\ wire = <<>>

\* It arrives.
LEMMA NumberArrivesAlways ==
  ASSUME ShortNumbers
  PROVE  Spec => []NumberArrives
<1>1. Init => NumberArrives
  BY DEF Init, NumberArrives
<1>2. ASSUME NumberOnWire, NumberArrives, [Next]_vars PROVE NumberArrives'
  <2>1. fields' = fields /\ session' = session
    BY <1>2 DEF Next, Put, PutFails, Send, Get, GetFails, vars
  <2>2. PICK f : f = fields[1]
    OBVIOUS
  <2>3. SUFFICES ASSUME NumberColumn(f)
        PROVE  /\ pc' \in {"putting", "getting", "done"}
               /\ pc' = "done" => got' = <<DecodedNumber(Encoded(f.value))>> /\ wire' = <<>>
    BY <2>1, <2>2 DEF NumberArrives, NumberColumn, Bound
  <2>4. f.value \in Value /\ Len(fields) = 1 /\ Bound(f)
    BY <1>2, <2>3, BoundValue DEF NumberColumn
  <2>5. /\ pc \in {"putting", "getting", "done"}
        /\ pc = "done" => got = <<DecodedNumber(Encoded(f.value))>> /\ wire = <<>>
        /\ pc = "putting" => put \in {0, 1}
        /\ pc = "getting" => got = <<>> /\ wire = Sent(f.value)
    BY <1>2, <2>2, <2>3, <2>4 DEF NumberArrives, NumberOnWire
  <2>6. Read(f, Sent(f.value)) = Got(DecodedNumber(Encoded(f.value)), <<>>)
    BY <2>3, <2>4, NumberRead
  <2>7. CASE Put
    BY <2>5, <2>7 DEF Put
  <2>8. CASE Send
    BY <2>5, <2>8 DEF Send
  <2>9. CASE Get
    <3>1. got = <<>> /\ wire = Sent(f.value) /\ fields[Len(got) + 1] = f
      BY <2>2, <2>5, <2>9 DEF Get
    <3>2. PICK r : r = Got(DecodedNumber(Encoded(f.value)), <<>>)
      OBVIOUS
    <3>3. /\ got' = Append(<<>>, r.value) /\ wire' = r.rest
          /\ pc' = IF Len(got') = Len(fields) THEN "done" ELSE "getting"
      BY <2>6, <2>9, <3>1, <3>2 DEF Get
    <3>4. r.value = DecodedNumber(Encoded(f.value)) /\ r.rest = <<>>
      BY <3>2 DEF Got
    <3> QED BY <3>3, <3>4
  <2>10. ~PutFails
    <3>1. ASSUME PutFails PROVE FALSE
      <4>1. pc = "putting" /\ put < Len(fields) /\ PutRaises(fields[put + 1])
        BY <3>1 DEF PutFails
      <4>2. put = 0 /\ fields[put + 1] = f
        BY <2>2, <2>4, <2>5, <4>1
      <4>3. f.kind = "bind" /\ f.form.bind \in BoundNumbers
        BY <2>4 DEF Bound
      <4>4. ~PutRaises(f)
        BY <4>3 DEF PutRaises, Bindable
      <4> QED BY <4>1, <4>2, <4>4
    <3> QED BY <3>1
  <2>11. ~GetFails
    <3>1. ASSUME GetFails PROVE FALSE
      <4>1. pc = "getting" /\ ~Read(fields[Len(got) + 1], wire).ok
        BY <3>1 DEF GetFails
      <4>2. fields[Len(got) + 1] = f /\ wire = Sent(f.value)
        BY <2>2, <2>5, <4>1
      <4> QED BY <2>6, <4>1, <4>2 DEF Got
    <3> QED BY <3>1
  <2>12. CASE UNCHANGED vars
    BY <2>5, <2>12 DEF vars
  <2> QED BY <1>2, <2>7, <2>8, <2>9, <2>10, <2>11, <2>12 DEF Next
<1> QED BY <1>1, <1>2, NumberOnWireAlways, PTL DEF Spec

\* RoundTrips, for the exchanges of one number: what is got is the value that was
\* bound if that is a whole number of 64 bits, else a float close to it; neither
\* binding nor reading it raises.
THEOREM NumbersArrive ==
  ASSUME ShortNumbers
  PROVE  Spec => [](NumberColumn(fields[1]) => RoundTrips)
<1>1. ASSUME NumberOnWire, NumberArrives, NumberColumn(fields[1]) PROVE RoundTrips
  <2>1. PICK f : f = fields[1] /\ NumberColumn(f)
    BY <1>1
  <2>2. f.value \in Value /\ Bound(f) /\ f.kind = "bind" /\ f.value # Null
    BY <1>1, <2>1, BoundValue DEF NumberColumn, Bound
  <2>3. /\ pc \in {"putting", "getting", "done"}
        /\ pc = "done" => got = <<DecodedNumber(Encoded(f.value))>>
        /\ pc # "done" => got = <<>>
    BY <1>1, <2>1, <2>2 DEF NumberArrives, NumberOnWire
  <2>4. PICK type : type = f.form.type /\ type \in {2, 3, 4}
    BY <2>1 DEF NumberColumn, ReadNumbers
  <2>5. \A y \in {2, 3, 4} :
          /\ y \in ReadNumbers /\ y \notin Moments /\ y \notin ReadTexts
          /\ y \notin Floats \cup Doubles
    BY DEF ReadNumbers, Moments, Dates, Timestamps, ZonedTimestamps, ReadTexts, Floats,
       Doubles
  <2>6. ~Absent(f.form)
    BY <2>4 DEF Absent
  <2>7. Keeps(f, DecodedNumber(Encoded(f.value)))
    <3>1. f.value # Null /\ f.form.type \in ReadNumbers
          /\ f.form.type \notin ReadTexts /\ f.form.type \notin Moments
          /\ f.form.type \notin Floats \cup Doubles
      BY <2>2, <2>4, <2>5
    <3>2. PICK x : x = DecodedNumber(Encoded(f.value))
      OBVIOUS
    <3>3. InRange(f.value) => SameNumber(x, f.value)
      BY <2>2, <3>2, NumbersRoundTrip
    <3>a. f.value \notin Infinities
      BY <2>2, NoInfinity
    <3>4. SameValue(x, f.value, f.form) <=> (InRange(f.value) => SameNumber(x, f.value))
      BY <2>6, <3>1, <3>a DEF SameValue
    <3> QED BY <2>2, <3>2, <3>3, <3>4 DEF Keeps
  <2>8. ~GetRaises(f)
    BY <2>2, <2>4, <2>5 DEF GetRaises, Readable
  <2>9. ASSUME NEW i \in DOMAIN got PROVE Keeps(fields[i], got[i]) /\ ~GetRaises(fields[i])
    <3>1. i = 1 /\ got[1] = DecodedNumber(Encoded(f.value))
      BY <2>3
    <3> QED BY <2>1, <2>7, <2>8, <3>1
  <2> QED BY <2>3, <2>9 DEF RoundTrips
<1> QED BY <1>1, NumberOnWireAlways, NumberArrivesAlways, PTL

-----------------------------------------------------------------------------
(* Fields that go through the buffer one after the other.                  *)

\* What is got for a field when its bytes are in front of others: its value
\* with what is left, the bytes behind it when nothing of it was cut; or an
\* exception, for what the driver does not support.
GotBack(f, r) ==
  LET result == Read(f, Both(Bytes(f), r)) IN
  IF GetRaises(f) THEN result.ok = FALSE
  ELSE result.ok = TRUE /\ (Fitting(f) => result.rest = r /\ Keeps(f, result.value))

\* A field that is got as it was put.
Faithful(f) ==
  ~PutRaises(f) =>
    Bytes(f) \in Seq(Octets) /\ \A r \in Seq(Octets) : GotBack(f, r)

\* What the two ways of a field are depends on the session alone.
LEMMA SameBytes ==
  ASSUME NEW f, session' = session
  PROVE  Bytes(f)' = Bytes(f)
BY DEF Bytes

\* What a field keeps depends on the session alone,
LEMMA SameKeeps ==
  ASSUME NEW f, NEW v, session' = session
  PROVE  Keeps(f, v)' <=> Keeps(f, v)
BY DEF Keeps, SameSummary, SameReply

\* so does what is read,
LEMMA SameRead ==
  ASSUME NEW f, NEW s, session' = session
  PROVE  Read(f, s)' = Read(f, s)
BY DEF Read

\* and whether reading raises,
LEMMA SameGetRaises ==
  ASSUME NEW f, session' = session
  PROVE  GetRaises(f)' <=> GetRaises(f)
BY DEF GetRaises

\* and thus whether the field is faithful.
LEMMA SameFaithful ==
  ASSUME NEW f, session' = session
  PROVE  Faithful(f)' <=> Faithful(f)
<1>1. Bytes(f)' = Bytes(f) /\ (GetRaises(f)' <=> GetRaises(f))
  BY SameBytes, SameGetRaises
<1>2. ASSUME NEW r PROVE GotBack(f, r)' <=> GotBack(f, r)
  <2>1. PICK s : s = Both(Bytes(f), r)
    OBVIOUS
  <2>2. s = Both(Bytes(f)', r)
    BY <1>1, <2>1
  <2>3. PICK g : g = Read(f, s)
    OBVIOUS
  <2>4. g = Read(f, s)'
    BY <2>3, SameRead
  <2>5. Keeps(f, g.value)' <=> Keeps(f, g.value)
    BY SameKeeps
  <2> QED BY <1>1, <2>1, <2>2, <2>3, <2>4, <2>5 DEF GotBack
<1> QED BY <1>1, <1>2 DEF Faithful

\* All fields are; a message has one at least.
Faithfuls ==
  Len(fields) \in Nat \ {0} /\ \A i \in 1 .. Len(fields) : Faithful(fields[i])

\* The bytes of the fields, one after the other.
Strung == [i \in 1 .. Len(fields) |-> Bytes(fields[i])]

\* The bytes of the fields that follow the first n.
BytesBehind(n) == Stretch(Strung, n, Len(fields) - n)

\* Where putting and getting are.
Placed ==
  /\ put \in 0 .. Len(fields)
  /\ \A i \in 1 .. put : ~PutRaises(fields[i])
  /\ pc \in {"putting", "getting", "done", "raised"}
  /\ (\E S : got \in Seq(S)) /\ Len(got) <= put
  /\ pc = "putting" => got = <<>> /\ wire = Stretch(Strung, 0, put)
  /\ pc \in {"getting", "done"} =>
       /\ put = Len(fields)
       /\ FittingUpTo(Len(got)) => wire = BytesBehind(Len(got))
  /\ pc = "getting" => Len(got) < Len(fields)
  /\ FittingUpTo(Len(got)) => wire \in Seq(Octets)

\* The two parts of RoundTrips.
KeptSoFar ==
  \A i \in DOMAIN got :
    FittingUpTo(i) => Keeps(fields[i], got[i]) /\ ~GetRaises(fields[i])

\* The second part of RoundTrips.
RaisedFor ==
  IF put < Len(fields) THEN PutRaises(fields[put + 1])
  ELSE FittingUpTo(Len(got)) => GetRaises(fields[Len(got) + 1])

\* The invariant.
Ordered == Faithfuls => Placed /\ RoundTrips

\* With the same session and fields, all of it is about the same bytes.
LEMMA SameFields ==
  ASSUME session' = session, fields' = fields
  PROVE  /\ Strung' = Strung /\ (Faithfuls' <=> Faithfuls)
         /\ \A n : FittingUpTo(n)' <=> FittingUpTo(n)
<1>1. Strung' = Strung
  <2>1. ASSUME NEW i \in 1 .. Len(fields) PROVE Bytes(fields[i])' = Bytes(fields[i])
    BY SameBytes
  <2> QED BY <2>1 DEF Strung
<1>2. Faithfuls' <=> Faithfuls
  <2>1. ASSUME NEW i PROVE Faithful(fields[i])' <=> Faithful(fields[i])
    BY SameFaithful
  <2> QED BY <2>1 DEF Faithfuls
<1>3. ASSUME NEW n PROVE FittingUpTo(n)' <=> FittingUpTo(n)
  BY DEF FittingUpTo
<1> QED BY <1>1, <1>2, <1>3

\* The bytes of the fields that were put are strings of bytes.
LEMMA StrungStrings ==
  ASSUME Faithfuls, NEW a \in Nat, NEW n \in Nat, a + n <= Len(fields),
         \A i \in 1 .. a + n : ~PutRaises(fields[i])
  PROVE  Strings(Octets, Strung, a, n)
<1>1. ASSUME NEW i \in 1 .. n PROVE Strung[a + i] \in Seq(Octets)
  <2>1. PICK k \in 1 .. a + n : k = a + i
    OBVIOUS
  <2>2. k \in 1 .. Len(fields)
    BY DEF Faithfuls
  <2>3. Faithful(fields[k]) /\ ~PutRaises(fields[k])
    BY <2>2 DEF Faithfuls
  <2>4. Bytes(fields[k]) \in Seq(Octets)
    BY <2>3 DEF Faithful
  <2> QED BY <2>1, <2>2, <2>4 DEF Strung
<1> QED BY <1>1 DEF Strings

\* The next field is in front of the wire.
LEMMA NextInFront ==
  ASSUME Faithfuls, Placed, pc = "getting", FittingUpTo(Len(got))
  PROVE  \E r \in Seq(Octets) :
           /\ wire = Both(Bytes(fields[Len(got) + 1]), r)
           /\ r = BytesBehind(Len(got) + 1)
           /\ GotBack(fields[Len(got) + 1], r)
<1>1. PICK n \in Nat : n = Len(fields) /\ n = put
  BY DEF Faithfuls, Placed
<1>2. PICK g \in Nat : g = Len(got) /\ g < n
  <2>1. PICK S : got \in Seq(S)
    BY DEF Placed
  <2>2. Len(got) \in Nat
    BY <2>1
  <2> QED BY <1>1, <2>2 DEF Placed
<1>3. PICK m \in Nat : m = n - (g + 1) /\ n - g = m + 1 /\ g + (m + 1) = n
  <2>1. n - (g + 1) \in Nat
    BY <1>2
  <2> QED BY <2>1
<1>4. \A i \in 1 .. n : ~PutRaises(fields[i])
  BY <1>1 DEF Placed
<1>5. Strings(Octets, Strung, g, m + 1)
  <2>1. m + 1 \in Nat
    OBVIOUS
  <2> QED BY <1>1, <1>3, <1>4, <2>1, StrungStrings
<1>6. wire = Stretch(Strung, g, m + 1)
  BY <1>1, <1>2, <1>3 DEF Placed, BytesBehind
<1>7. wire = Both(Strung[g + 1], Stretch(Strung, g + 1, m))
  BY <1>5, <1>6, StretchFirst
<1>8. PICK r \in Seq(Octets) : r = Stretch(Strung, g + 1, m)
  <2>1. Strings(Octets, Strung, g + 1, m)
    BY <1>5, StringsFewer
  <2> QED BY <2>1, StretchBytes
<1>9. g + 1 \in 1 .. n
  BY <1>2
<1>10. Strung[g + 1] = Bytes(fields[g + 1])
  BY <1>1, <1>9 DEF Strung
<1>11. GotBack(fields[g + 1], r)
  <2>1. Faithful(fields[g + 1]) /\ ~PutRaises(fields[g + 1])
    BY <1>1, <1>4, <1>9 DEF Faithfuls
  <2> QED BY <2>1 DEF Faithful
<1>12. r = BytesBehind(g + 1)
  BY <1>1, <1>3, <1>8 DEF BytesBehind
<1> QED BY <1>2, <1>7, <1>8, <1>10, <1>11, <1>12

\* t is s with v behind it.
OneLonger(t, s, v) ==
  /\ \E T : t \in Seq(T)
  /\ Len(t) = Len(s) + 1 /\ t[Len(s) + 1] = v
  /\ \A i \in 1 .. Len(s) : t[i] = s[i]

\* Appending gives one more.
LEMMA GotOneMore ==
  ASSUME NEW S, NEW s \in Seq(S), NEW v
  PROVE  OneLonger(Append(s, v), s, v)
<1>1. PICK T : T = S \cup {v}
  OBVIOUS
<1>2. s \in Seq(T) /\ v \in T
  BY <1>1
<1>3. PICK t \in Seq(T) : t = Append(s, v)
  <2>1. Append(s, v) \in Seq(T)
    BY <1>2, AppendProperties
  <2> QED BY <2>1
<1>4. Len(t) = Len(s) + 1 /\ t[Len(s) + 1] = v /\ \A i \in 1 .. Len(s) : t[i] = s[i]
  BY <1>2, <1>3, AppendProperties
<1> QED BY <1>3, <1>4 DEF OneLonger

\* Getting a field.
LEMMA GetsInOrder ==
  ASSUME Faithfuls, Placed, RoundTrips, Get
  PROVE  Placed' /\ RoundTrips'
<1>1. session' = session /\ fields' = fields /\ put' = put /\ pc = "getting"
  BY DEF Get
<1>2. /\ Strung' = Strung /\ (Faithfuls' <=> Faithfuls)
      /\ \A n : FittingUpTo(n)' <=> FittingUpTo(n)
  BY <1>1, SameFields
<1>3. PICK n \in Nat : n = Len(fields) /\ n = put
  BY <1>1 DEF Faithfuls, Placed
<1>4. PICK S : got \in Seq(S)
  BY DEF Placed
<1>5. PICK g \in Nat : g = Len(got) /\ g < n /\ g + 1 <= n
  <2>1. Len(got) \in Nat
    BY <1>4
  <2> QED BY <1>1, <1>3, <2>1 DEF Placed
<1>6. PICK f : f = fields[g + 1]
  OBVIOUS
<1>7. PICK result : result = Read(f, wire)
  OBVIOUS
<1>8. /\ result.ok = TRUE \/ result.ok
      /\ got' = Append(got, result.value) /\ wire' = result.rest
      /\ pc' = IF Len(got') = Len(fields) THEN "done" ELSE "getting"
  BY <1>5, <1>6, <1>7 DEF Get
<1>9. /\ \E T : got' \in Seq(T)
      /\ Len(got') = g + 1 /\ got'[g + 1] = result.value
      /\ \A i \in 1 .. g : got'[i] = got[i]
  <2>1. PICK s, v : s = got /\ v = result.value /\ s \in Seq(S) /\ Len(s) = g
    BY <1>4, <1>5
  <2>2. PICK t : t = Append(s, v) /\ OneLonger(t, s, v)
    <3>1. s \in Seq(S)
      BY <2>1
    <3> QED BY <3>1, GotOneMore
  <2>4. got' = t
    BY <1>8, <2>1, <2>2
  <2> QED BY <2>1, <2>2, <2>4 DEF OneLonger
<1>10. FittingUpTo(g + 1) <=> FittingUpTo(g) /\ Fitting(f)
  <2>1. \A i \in 1 .. g + 1 : i \in 1 .. g \/ i = g + 1
    OBVIOUS
  <2>2. \A i \in 1 .. g : i \in 1 .. g + 1
    OBVIOUS
  <2>3. g + 1 \in 1 .. g + 1
    OBVIOUS
  <2> QED BY <1>6, <2>1, <2>2, <2>3 DEF FittingUpTo
<1>11. FittingUpTo(g) => ~GetRaises(f)
  <2>1. ASSUME FittingUpTo(g) PROVE ~GetRaises(f)
    <3>1. PICK r \in Seq(Octets) : wire = Both(Bytes(f), r) /\ GotBack(f, r)
      BY <1>1, <1>5, <1>6, <2>1, NextInFront
    <3> QED BY <1>7, <1>8, <3>1 DEF GotBack
  <2> QED BY <2>1
<1>12. FittingUpTo(g + 1) =>
         wire' = BytesBehind(g + 1) /\ wire' \in Seq(Octets) /\ Keeps(f, result.value)
  <2>1. ASSUME FittingUpTo(g + 1)
        PROVE  /\ wire' = BytesBehind(g + 1) /\ wire' \in Seq(Octets)
               /\ Keeps(f, result.value)
    <3>1. FittingUpTo(g) /\ Fitting(f)
      BY <1>10, <2>1
    <3>2. PICK r \in Seq(Octets) : wire = Both(Bytes(f), r) /\ GotBack(f, r)
                                   /\ r = BytesBehind(g + 1)
      BY <1>1, <1>5, <1>6, <3>1, NextInFront
    <3> QED BY <1>7, <1>8, <1>11, <3>1, <3>2 DEF GotBack
  <2> QED BY <2>1
<1>13. Placed'
  <2>1. put' \in 0 .. Len(fields') /\ \A i \in 1 .. put' : ~PutRaises(fields'[i])
    BY <1>1 DEF Placed
  <2>2. pc' \in {"getting", "done"} /\ (pc' = "getting" => Len(got') < Len(fields'))
    <3>1. pc' = IF g + 1 = n THEN "done" ELSE "getting"
      BY <1>1, <1>3, <1>8, <1>9
    <3>2. Len(fields') = n /\ (g + 1 # n => g + 1 < n)
      BY <1>1, <1>3, <1>5
    <3> QED BY <1>9, <3>1, <3>2
  <2>3. Len(got') <= put' /\ put' = Len(fields')
    BY <1>1, <1>3, <1>5, <1>9
  <2>4. (FittingUpTo(Len(got)) => wire = BytesBehind(Len(got)) /\ wire \in Seq(Octets))'
    <3>1. BytesBehind(g + 1)' = BytesBehind(g + 1)
      BY <1>1, <1>2 DEF BytesBehind
    <3>2. PICK k : k = Len(got') /\ k = g + 1
      BY <1>9
    <3>3. (FittingUpTo(k) => wire = BytesBehind(k) /\ wire \in Seq(Octets))'
      BY <1>2, <1>12, <3>1, <3>2
    <3> QED BY <3>2, <3>3
  <2> QED BY <1>9, <2>1, <2>2, <2>3, <2>4 DEF Placed
<1>14. RoundTrips'
  <2>1. DOMAIN got = 1 .. g /\ DOMAIN got' = 1 .. g + 1
    BY <1>4, <1>5, <1>9
  <2>2. ASSUME NEW i \in 1 .. g + 1, FittingUpTo(i)
        PROVE  Keeps(fields[i], got[i])' /\ ~GetRaises(fields[i])'
    <3>1. PICK h, v : h = fields[i] /\ v = got'[i]
      OBVIOUS
    <3>2. Keeps(h, v) /\ ~GetRaises(h)
      <4>1. CASE i = g + 1
        <5>1. FittingUpTo(g)
          BY <1>10, <2>2, <4>1
        <5> QED BY <1>6, <1>9, <1>11, <1>12, <2>2, <3>1, <4>1, <5>1
      <4>2. CASE i # g + 1
        <5>1. i \in 1 .. g
          BY <4>2
        <5>2. Keeps(fields[i], got[i]) /\ ~GetRaises(fields[i])
          BY <2>1, <2>2, <5>1 DEF RoundTrips
        <5> QED BY <1>9, <3>1, <5>1, <5>2
      <4> QED BY <4>1, <4>2
    <3>3. Keeps(h, v)' /\ ~GetRaises(h)'
      BY <1>1, <3>2, SameKeeps, SameGetRaises
    <3> QED BY <1>1, <3>1, <3>3
  <2>3. pc' # "raised"
    BY <1>8
  <2> QED BY <1>1, <1>2, <2>1, <2>2, <2>3 DEF RoundTrips
<1> QED BY <1>13, <1>14

\* Putting a field.
LEMMA PutsInOrder ==
  ASSUME Faithfuls, Placed, RoundTrips, Put
  PROVE  Placed' /\ RoundTrips'
<1>1. /\ session' = session /\ fields' = fields /\ got' = got /\ pc' = "putting"
      /\ pc = "putting" /\ put < Len(fields) /\ put' = put + 1
      /\ ~PutRaises(fields[put + 1]) /\ wire' = Both(wire, Bytes(fields[put + 1]))
  BY DEF Put, Both
<1>2. /\ Strung' = Strung /\ \A n : FittingUpTo(n)' <=> FittingUpTo(n)
  BY <1>1, SameFields
<1>3. PICK n \in Nat : n = Len(fields)
  BY DEF Faithfuls
<1>4. PICK k \in Nat : k = put /\ k + 1 <= n
  BY <1>1, <1>3 DEF Placed
<1>5. got = <<>> /\ wire = Stretch(Strung, 0, k)
  BY <1>1, <1>4 DEF Placed
<1>6. \A i \in 1 .. k + 1 : ~PutRaises(fields[i])
  <2>1. \A i \in 1 .. k + 1 : i \in 1 .. k \/ i = k + 1
    OBVIOUS
  <2> QED BY <1>1, <1>4, <2>1 DEF Placed
<1>7. Strings(Octets, Strung, 0, k + 1)
  <2>1. 0 \in Nat /\ k + 1 \in Nat /\ 0 + (k + 1) = k + 1
    OBVIOUS
  <2> QED BY <1>3, <1>4, <1>6, <2>1, StrungStrings
<1>8. wire' = Stretch(Strung, 0, k + 1) /\ wire' \in Seq(Octets)
  <2>1. /\ Stretch(Strung, 0, k + 1) = Both(Stretch(Strung, 0, k), Strung[0 + (k + 1)])
        /\ Stretch(Strung, 0, k + 1) \in Seq(Octets)
    BY <1>7, StretchMore
  <2>2. 0 + (k + 1) = k + 1 /\ k + 1 \in 1 .. n
    BY <1>4
  <2>3. Strung[k + 1] = Bytes(fields[k + 1])
    BY <1>3, <2>2 DEF Strung
  <2> QED BY <1>1, <1>4, <1>5, <2>1, <2>2, <2>3
<1>9. Placed'
  <2>1. put' \in 0 .. Len(fields') /\ \A i \in 1 .. put' : ~PutRaises(fields'[i])
    BY <1>1, <1>3, <1>4, <1>6
  <2>2. (\E S : got' \in Seq(S)) /\ Len(got') <= put'
    <3>1. Len(got) = 0 /\ 0 <= k + 1
      BY <1>5
    <3> QED BY <1>1, <1>4, <3>1 DEF Placed
  <2>3. wire' = Stretch(Strung', 0, put')
    BY <1>1, <1>2, <1>4, <1>8
  <2> QED BY <1>1, <1>5, <1>8, <2>1, <2>2, <2>3 DEF Placed
<1>10. RoundTrips'
  <2>1. DOMAIN got' = {}
    BY <1>1, <1>5
  <2> QED BY <1>1, <2>1 DEF RoundTrips
<1> QED BY <1>9, <1>10

\* The steps that leave the buffer as it is.
LEMMA OthersInOrder ==
  ASSUME Faithfuls, Placed, RoundTrips, Send \/ PutFails \/ GetFails \/ UNCHANGED vars
  PROVE  Placed' /\ RoundTrips'
<1>0. /\ RoundTrips <=> KeptSoFar /\ (pc = "raised" => RaisedFor)
      /\ (RoundTrips <=> KeptSoFar /\ (pc = "raised" => RaisedFor))'
  BY DEF RoundTrips, KeptSoFar, RaisedFor
<1>1. session' = session /\ fields' = fields /\ got' = got /\ wire' = wire /\ put' = put
  BY DEF Send, PutFails, GetFails, vars
<1>2. /\ Strung' = Strung /\ \A n : FittingUpTo(n)' <=> FittingUpTo(n)
  BY <1>1, SameFields
<1>3. \A n : BytesBehind(n)' = BytesBehind(n)
  BY <1>1, <1>2 DEF BytesBehind
<1>4. PICK n \in Nat : n = Len(fields) /\ n >= 1
  BY DEF Faithfuls
<1>5. KeptSoFar'
  <2>1. ASSUME NEW i \in DOMAIN got, FittingUpTo(i)
        PROVE  Keeps(fields[i], got[i])' /\ ~GetRaises(fields[i])'
    <3>1. PICK h, v : h = fields[i] /\ v = got[i]
      OBVIOUS
    <3>2. Keeps(h, v) /\ ~GetRaises(h)
      BY <2>1, <3>1 DEF RoundTrips
    <3>3. Keeps(h, v)' /\ ~GetRaises(h)'
      BY <1>1, <3>2, SameKeeps, SameGetRaises
    <3> QED BY <1>1, <3>1, <3>3
  <2> QED BY <1>1, <1>2, <2>1 DEF KeptSoFar
<1>6. /\ put' \in 0 .. Len(fields') /\ \A i \in 1 .. put' : ~PutRaises(fields'[i])
      /\ (\E S : got' \in Seq(S)) /\ Len(got') <= put'
      /\ (FittingUpTo(Len(got)) => wire \in Seq(Octets))'
  BY <1>1, <1>2 DEF Placed
<1>7. CASE Send
  <2>1. pc = "putting" /\ pc' = "getting" /\ put = Len(fields)
    BY <1>7 DEF Send
  <2>2. got = <<>> /\ wire = Stretch(Strung, 0, put)
    BY <2>1 DEF Placed
  <2>3. Len(got) = 0 /\ n - 0 = n
    BY <2>2
  <2>4. wire = BytesBehind(Len(got))
    BY <1>4, <2>1, <2>2, <2>3 DEF BytesBehind
  <2>5. (wire = BytesBehind(Len(got)))'
    BY <1>1, <1>3, <2>4
  <2>6. Len(got') < Len(fields')
    BY <1>1, <1>4, <2>3
  <2>7. Placed'
    BY <1>1, <1>6, <2>1, <2>5, <2>6 DEF Placed
  <2>8. RoundTrips'
    BY <1>5, <2>1, <1>0
  <2> QED BY <2>7, <2>8
<1>8. CASE PutFails
  <2>1. pc' = "raised" /\ put' < Len(fields') /\ PutRaises(fields'[put' + 1])
    BY <1>1, <1>8 DEF PutFails
  <2>2. Placed'
    BY <1>6, <2>1 DEF Placed
  <2>3. RoundTrips'
    <3>1. RaisedFor'
      BY <2>1 DEF RaisedFor
    <3> QED BY <1>5, <3>1, <1>0
  <2> QED BY <2>2, <2>3
<1>9. CASE GetFails
  <2>1. pc' = "raised" /\ pc = "getting" /\ put = n
    BY <1>4, <1>9 DEF GetFails, Placed
  <2>2. PICK f : f = fields[Len(got) + 1]
    OBVIOUS
  <2>3. FittingUpTo(Len(got)) => GetRaises(f)
    <3>1. ASSUME FittingUpTo(Len(got)) PROVE GetRaises(f)
      <4>1. PICK r \in Seq(Octets) : wire = Both(Bytes(f), r) /\ GotBack(f, r)
        BY <2>1, <2>2, <3>1, NextInFront
      <4>2. ~Read(f, wire).ok
        BY <1>9, <2>2 DEF GetFails
      <4> QED BY <4>1, <4>2 DEF GotBack
    <3> QED BY <3>1
  <2>4. (FittingUpTo(Len(got)) => GetRaises(fields[Len(got) + 1]))'
    <3>1. GetRaises(f)' <=> GetRaises(f)
      BY <1>1, SameGetRaises
    <3> QED BY <1>1, <1>2, <2>2, <2>3, <3>1
  <2>5. Placed'
    BY <1>6, <2>1 DEF Placed
  <2>6. RoundTrips'
    <3>1. ~(put' < Len(fields'))
      BY <1>1, <1>4, <2>1
    <3>2. RaisedFor'
      BY <2>4, <3>1 DEF RaisedFor
    <3> QED BY <1>5, <3>2, <1>0
  <2> QED BY <2>5, <2>6
<1>10. CASE UNCHANGED vars
  <2>1. pc' = pc
    BY <1>10 DEF vars
  <2>2. Placed'
    BY <1>1, <1>2, <1>3, <1>6, <2>1 DEF Placed
  <2>3. RoundTrips'
    <3>1. PICK f, m : m = Len(got) + 1 /\ f = fields[m]
      OBVIOUS
    <3>2. GetRaises(f)' <=> GetRaises(f)
      BY <1>1, SameGetRaises
    <3>3. RaisedFor' <=> RaisedFor
      BY <1>1, <1>2, <3>1, <3>2 DEF RaisedFor
    <3> QED BY <1>5, <2>1, <3>3, <1>0
  <2> QED BY <2>2, <2>3
<1> QED BY <1>7, <1>8, <1>9, <1>10

\* Every step keeps the order.
LEMMA AlwaysOrdered == Spec => []Ordered
<1>1. Init => Ordered
  <2> SUFFICES ASSUME Init, Faithfuls PROVE Placed /\ RoundTrips
    BY DEF Ordered
  <2>1. put = 0 /\ wire = <<>> /\ got = <<>> /\ pc = "putting"
    BY DEF Init
  <2>2. Stretch(Strung, 0, 0) = <<>>
    BY NoStrings
  <2>3. got \in Seq({}) /\ Len(got) = 0 /\ DOMAIN got = {}
    BY <2>1
  <2>4. 0 \in 0 .. Len(fields) /\ \A i \in 1 .. 0 : FALSE
    BY DEF Faithfuls
  <2>5. Placed
    BY <2>1, <2>2, <2>3, <2>4, NoBytes DEF Placed
  <2> QED BY <2>1, <2>3, <2>5 DEF RoundTrips
<1>2. ASSUME Ordered, [Next]_vars PROVE Ordered'
  <2>1. session' = session /\ fields' = fields
    BY <1>2 DEF Next, Put, PutFails, Send, Get, GetFails, vars
  <2>2. SUFFICES ASSUME Faithfuls PROVE Placed' /\ RoundTrips'
    BY <2>1, SameFields DEF Ordered
  <2>3. Placed /\ RoundTrips
    BY <1>2, <2>2 DEF Ordered
  <2> QED BY <1>2, <2>2, <2>3, GetsInOrder, PutsInOrder, OthersInOrder DEF Next
<1> QED BY <1>1, <1>2, PTL DEF Spec

-----------------------------------------------------------------------------
(* Integers, byte strings and keys with values.                            *)

\* A field that is got as it was put.
LEMMA GotAsPut ==
  ASSUME NEW f, NEW r, NEW v, Read(f, Both(Bytes(f), r)) = Got(v, r),
         ~GetRaises(f), Keeps(f, v)
  PROVE  GotBack(f, r)
<1>1. PICK g : g = Read(f, Both(Bytes(f), r)) /\ g = Got(v, r)
  OBVIOUS
<1>2. g.ok = TRUE /\ g.value = v /\ g.rest = r
  BY <1>1 DEF Got
<1> QED BY <1>1, <1>2 DEF GotBack

\* One that was cut is got as something.
LEMMA GotCut ==
  ASSUME NEW f, NEW r, NEW v, NEW t, Read(f, Both(Bytes(f), r)) = Got(v, t),
         ~GetRaises(f), ~Fitting(f)
  PROVE  GotBack(f, r)
<1>1. PICK g : g = Read(f, Both(Bytes(f), r)) /\ g = Got(v, t)
  OBVIOUS
<1>2. g.ok = TRUE
  BY <1>1 DEF Got
<1> QED BY <1>1, <1>2 DEF GotBack

\* The integers a field can have: of at most WordBytes bytes, and negative ones
\* in the compressed form only.
IntegerField(f) ==
  /\ f.kind \in {"int", "uint"}
  /\ f.form.size \in 1 .. WordBytes
  /\ f.form.bigEndian \in BOOLEAN /\ f.form.compress \in BOOLEAN
  /\ f.value \in Int
  /\ f.value >= 0 => f.value \in Wide(WordBytes)
  /\ f.value < 0 =>
       f.kind = "int" /\ f.form.compress = TRUE /\ -f.value \in Wide(WordBytes)

\* What is got for an integer.
LEMMA IntegerIs ==
  ASSUME NEW f, f.kind \in {"int", "uint"}
  PROVE  /\ ~GetRaises(f)
         /\ \A v : v = f.value => Keeps(f, v)
         /\ Fitting(f) <=> f.value < 0 \/ Fits(f.value, f.form.size)
<1>1. ~GetRaises(f)
  BY DEF GetRaises
<1>2. \A v : v = f.value => Keeps(f, v)
  BY DEF Keeps
<1>3. Fitting(f) <=> f.value < 0 \/ Fits(f.value, f.form.size)
  BY DEF Fitting
<1> QED BY <1>1, <1>2, <1>3

\* So integer fields are faithful: negative ones, those that fit, and in
\* CutFaithful those that are cut.
LEMMA NegativeFaithful ==
  ASSUME NEW f, IntegerField(f), f.value < 0
  PROVE  Faithful(f)
<1>1. PICK n \in Int : n = f.value /\ n < 0 /\ -n \in Wide(WordBytes)
  BY DEF IntegerField
<1>2. PICK size \in Nat, bigEndian \in BOOLEAN :
         size = f.form.size /\ bigEndian = f.form.bigEndian
  BY WidthAssumption DEF IntegerField
<1>3. f.kind = "int" /\ f.form.compress = TRUE
  BY DEF IntegerField
<1>4. Bytes(f) = PutNegative(n)
  <2>1. ~(f.value >= 0)
    BY <1>1
  <2> QED BY <1>1, <1>3, <2>1 DEF Bytes
<1>5. PICK b \in Seq(Octets) : b = PutNegative(n)
  <2>1. <<>> \in Seq(Octets) /\ TRUE \in BOOLEAN
    OBVIOUS
  <2> QED BY <1>1, <1>2, <2>1, PutNegativeBack
<1>6. ASSUME NEW r \in Seq(Octets) PROVE GotBack(f, r)
  <2>1. GetInt(Both(b, r), size, TRUE, bigEndian) = Got(n, r)
    BY <1>1, <1>2, <1>5, NegativeNumberRead
  <2>2. Read(f, Both(b, r)) = GetInt(Both(b, r), size, TRUE, bigEndian)
    BY <1>2, <1>3 DEF Read
  <2>3. ~GetRaises(f) /\ Keeps(f, n)
    BY <1>1, <1>3, IntegerIs
  <2>4. Read(f, Both(Bytes(f), r)) = Got(n, r)
    BY <1>4, <1>5, <2>1, <2>2
  <2> QED BY <2>3, <2>4, GotAsPut
<1> QED BY <1>4, <1>5, <1>6 DEF Faithful

\* A number that fits its width is read as it was written.
LEMMA FittingFaithful ==
  ASSUME NEW f, IntegerField(f), f.value >= 0, Fits(f.value, f.form.size)
  PROVE  Faithful(f)
<1>1. PICK n \in Nat : n = f.value /\ n \in Wide(WordBytes) /\ ~(f.value < 0)
  BY DEF IntegerField
<1>2. PICK size \in Nat, bigEndian \in BOOLEAN, compress \in BOOLEAN :
         /\ size = f.form.size /\ bigEndian = f.form.bigEndian
         /\ compress = f.form.compress /\ size <= WordBytes
  BY WidthAssumption DEF IntegerField
<1>3. Fits(n, size)
  BY <1>1, <1>2
<1>4. PICK b \in Seq(Octets) : b = PutInt(n, size, bigEndian, compress)
  <2>1. <<>> \in Seq(Octets)
    OBVIOUS
  <2> QED BY <1>2, <2>1, PutIntRead
<1>5. ASSUME NEW r \in Seq(Octets)
      PROVE  GetInt(Both(b, r), size, compress, bigEndian) = Got(n, r)
  <2>1. PICK v : /\ GetInt(PutInt(n, size, bigEndian, compress) \o r,
                           size, compress, bigEndian) = Got(v, r)
                 /\ n \in Wide(WordBytes) => v = n
    BY <1>2, <1>3, PutIntBack
  <2> QED BY <1>1, <1>4, <2>1 DEF Both
<1>6. CASE size = 1 /\ (compress = FALSE \/ f.kind = "uint")
  <2>1. PICK c \in Seq(Octets) : c = Fixed(n, 1, bigEndian)
    <3>1. 1 \in Nat
      OBVIOUS
    <3> QED BY <3>1, FixedBytes
  <2>2. Bytes(f) = c
    <3>1. f.kind = "int" => Bytes(f) = PutInt(n, 1, bigEndian, compress)
      BY <1>1, <1>2, <1>6 DEF Bytes
    <3>2. f.kind = "uint" => Bytes(f) = PutUint(n, 1, bigEndian, compress)
      BY <1>1, <1>2, <1>6 DEF Bytes
    <3>3. PutUint(n, 1, bigEndian, compress) = c
      BY <2>1 DEF PutUint
    <3>4. compress = FALSE => PutInt(n, 1, bigEndian, compress) = c
      BY <2>1 DEF PutInt
    <3>5. f.kind = "int" \/ f.kind = "uint"
      BY DEF IntegerField
    <3>6. f.kind = "int" => f.kind # "uint"
      OBVIOUS
    <3> QED BY <1>6, <3>1, <3>2, <3>3, <3>4, <3>5, <3>6
  <2>3. ASSUME NEW r \in Seq(Octets) PROVE GotBack(f, r)
    <3>1. Read(f, Both(c, r)) = GetByte(Both(c, r))
      <4>1. f.form.size = 1 /\ (~f.form.compress \/ f.kind = "uint")
        BY <1>2, <1>6
      <4>2. CASE ~f.form.compress
        <5>1. f.kind \in {"int", "uint"} /\ f.form.size = 1 /\ ~f.form.compress
          BY <4>1, <4>2 DEF IntegerField
        <5> QED BY <5>1 DEF Read
      <4>3. CASE f.kind = "uint"
        BY <4>1, <4>3 DEF Read
      <4> QED BY <4>1, <4>2, <4>3
    <3>2. GetByte(Both(c, r)) = Got(FromBigEndian(BigEndian(n, 1)), r)
      BY <2>1, OneByteBack
    <3>3. FromBigEndian(BigEndian(n, 1)) = n
      <4>1. 1 \in Nat /\ 1 <= WordBytes /\ Len(Magnitude(n)) <= 1
        BY <1>2, <1>3, <1>6 DEF Fits
      <4> QED BY <1>1, <4>1, FitsBack
    <3>4. f.kind \in {"int", "uint"}
      BY DEF IntegerField
    <3> QED BY <1>1, <2>2, <3>1, <3>2, <3>3, <3>4, IntegerIs, GotAsPut
  <2> QED BY <2>2, <2>3 DEF Faithful
<1>7. CASE ~(size = 1 /\ (compress = FALSE \/ f.kind = "uint"))
  <2>1. Bytes(f) = b
    <3>1. f.kind = "int" => Bytes(f) = PutInt(n, size, bigEndian, compress)
      BY <1>1, <1>2 DEF Bytes
    <3>2. f.kind = "uint" => Bytes(f) = PutUint(n, size, bigEndian, compress)
      BY <1>1, <1>2 DEF Bytes
    <3>3. f.kind = "uint" => PutUint(n, size, bigEndian, compress) = b
      <4>1. <<>> \in Seq(Octets)
        OBVIOUS
      <4> QED BY <1>2, <1>3, <1>4, <1>7, <4>1, PutUintBack
    <3>4. f.kind = "int" \/ f.kind = "uint"
      BY DEF IntegerField
    <3> QED BY <1>4, <3>1, <3>2, <3>3, <3>4
  <2>2. ASSUME NEW r \in Seq(Octets) PROVE GotBack(f, r)
    <3>1. Read(f, Both(b, r)) = GetInt(Both(b, r), size, compress, bigEndian)
      <4>1. f.kind = "int" => ~(f.form.size = 1 /\ ~f.form.compress)
        BY <1>2, <1>7
      <4>2. f.kind = "uint" => f.form.size # 1
        BY <1>2, <1>7
      <4> QED BY <1>2, <4>1, <4>2 DEF IntegerField, Read
    <3>4. f.kind \in {"int", "uint"}
      BY DEF IntegerField
    <3> QED BY <1>1, <1>5, <2>1, <3>1, <3>4, IntegerIs, GotAsPut
  <2> QED BY <1>4, <2>1, <2>2 DEF Faithful
<1> QED BY <1>6, <1>7

\* A number wider than its field: what is got is another one, and no
\* exception is raised.
LEMMA CutFaithful ==
  ASSUME NEW f, IntegerField(f), f.value >= 0, ~Fits(f.value, f.form.size)
  PROVE  Faithful(f)
<1>1. PICK n \in Nat : n = f.value /\ n \in Wide(WordBytes) /\ ~(f.value < 0)
  BY DEF IntegerField
<1>2. PICK size \in Nat, bigEndian \in BOOLEAN, compress \in BOOLEAN :
         /\ size = f.form.size /\ bigEndian = f.form.bigEndian
         /\ compress = f.form.compress /\ size <= WordBytes
  BY WidthAssumption DEF IntegerField
<1>3. ~GetRaises(f) /\ ~Fitting(f)
  <2>1. f.kind \in {"int", "uint"}
    BY DEF IntegerField
  <2> QED BY <1>1, <2>1, IntegerIs
<1>4. PICK b \in Seq(Octets) : b = PutInt(n, size, bigEndian, compress)
  BY <1>2, NoBytes, PutIntRead
<1>5. CASE size = 1 /\ (f.kind = "uint" \/ ~compress)
  <2>1. PICK c \in Seq(Octets) : c = Fixed(n, 1, bigEndian)
    <3>1. 1 \in Nat
      OBVIOUS
    <3> QED BY <3>1, FixedBytes
  <2>2. Bytes(f) = c
    <3>1. f.kind = "int" => Bytes(f) = PutInt(n, 1, bigEndian, compress)
      BY <1>1, <1>2, <1>5 DEF Bytes
    <3>2. f.kind = "uint" => Bytes(f) = PutUint(n, 1, bigEndian, compress)
      BY <1>1, <1>2, <1>5 DEF Bytes
    <3>3. PutUint(n, 1, bigEndian, compress) = c
      BY <2>1 DEF PutUint
    <3>4. ~compress => PutInt(n, 1, bigEndian, compress) = c
      BY <2>1 DEF PutInt
    <3>5. f.kind = "int" \/ f.kind = "uint"
      BY DEF IntegerField
    <3>6. f.kind = "int" => f.kind # "uint"
      OBVIOUS
    <3> QED BY <1>5, <3>1, <3>2, <3>3, <3>4, <3>5, <3>6
  <2>3. ASSUME NEW r \in Seq(Octets) PROVE GotBack(f, r)
    <3>1. f.kind \in {"int", "uint"} /\ f.form.size = 1 /\ (f.kind = "uint" \/ ~f.form.compress)
      BY <1>2, <1>5 DEF IntegerField
    <3>2. Read(f, Both(c, r)) = GetByte(Both(c, r))
      BY <3>1 DEF Read
    <3>3. GetByte(Both(c, r)) = Got(FromBigEndian(BigEndian(n, 1)), r)
      BY <2>1, OneByteBack
    <3> QED BY <1>3, <2>2, <3>2, <3>3, GotCut
  <2> QED BY <2>2, <2>3 DEF Faithful
<1>6. CASE ~(size = 1 /\ (f.kind = "uint" \/ ~compress))
  <2>0. f.kind \in {"int", "uint"}
        /\ ~(f.form.size = 1 /\ (f.kind = "uint" \/ ~f.form.compress))
    BY <1>2, <1>6 DEF IntegerField
  <2>1. ASSUME NEW s PROVE Read(f, s) = GetInt(s, size, compress, bigEndian)
    BY <1>2, <2>0 DEF Read
  <2>2. CASE f.kind = "int"
    <3>1. Bytes(f) = b
      BY <1>1, <1>2, <1>4, <2>2 DEF Bytes
    <3>2. ASSUME NEW r \in Seq(Octets) PROVE GotBack(f, r)
      <4>1. PICK v : GetInt(Both(b, r), size, compress, bigEndian) = Got(v, r)
        BY <1>2, <1>4, PutIntRead
      <4> QED BY <1>3, <2>1, <3>1, <4>1, GotCut
    <3> QED BY <1>4, <3>1, <3>2 DEF Faithful
  <2>3. CASE f.kind = "uint"
    <3>1. CASE ~compress
      <4>1. PutRaises(f)
        <5>1. ~f.form.compress /\ f.form.size # 1
          BY <1>2, <1>6, <2>3, <3>1
        <5> QED BY <2>3, <5>1 DEF PutRaises
      <4> QED BY <4>1 DEF Faithful
    <3>2. CASE compress = TRUE
      <4>1. PICK m \in Seq(Octets) : m = Magnitude(n) /\ Len(m) <= WordBytes
        <5>1. /\ Magnitude(n) \in Seq(Octets)
              /\ Len(Magnitude(n)) \in 0 .. WordBytes
          BY MagnitudeBytes
        <5>2. \A l \in 0 .. WordBytes : l <= WordBytes
          BY WidthAssumption
        <5> QED BY <5>1, <5>2
      <4>2. PICK k \in 0 .. Len(m) : k = Min({size, Len(m)})
        <5>1. PICK l \in Nat : l = Len(m)
          OBVIOUS
        <5>2. Min({size, l}) \in 0 .. l
          BY SmallerIs
        <5> QED BY <5>1, <5>2
      <4>3. Bytes(f) = Sized(k, m)
        <5>1. Bytes(f) = PutUint(n, size, bigEndian, compress)
          BY <1>1, <1>2, <2>3 DEF Bytes
        <5>2. ~(size = 1 \/ ~compress)
          BY <1>6, <2>3, <3>2
        <5> QED BY <4>1, <4>2, <5>1, <5>2 DEF PutUint, Both, Sized
      <4>4. Sized(k, m) \in Seq(Octets)
        BY <1>2, <4>1, NoBytes, LongerThanSaid
      <4>5. ASSUME NEW r \in Seq(Octets) PROVE GotBack(f, r)
        <5>1. PICK v, t : GetInt(Both(Sized(k, m), r), size, TRUE, bigEndian) = Got(v, t)
          <6>1. Len(m) <= WordBytes
            BY <4>1
          <6>2. \E v, t : GetInt(Both(Sized(k, m), r), size, TRUE, bigEndian) = Got(v, t)
            BY <6>1, LongerThanSaid
          <6> QED BY <6>2
        <5> QED BY <1>3, <2>1, <3>2, <4>3, <5>1, GotCut
      <4> QED BY <4>3, <4>4, <4>5 DEF Faithful
    <3> QED BY <3>1, <3>2
  <2> QED BY <2>0, <2>2, <2>3
<1> QED BY <1>5, <1>6

\* Integers of any size, order and form.
LEMMA IntegersFaithful ==
  ASSUME NEW f, IntegerField(f)
  PROVE  Faithful(f)
<1>1. f.value < 0 \/ f.value >= 0
  BY DEF IntegerField
<1> QED BY <1>1, NegativeFaithful, FittingFaithful, CutFaithful

\* Byte strings.
LEMMA ClrFaithful ==
  ASSUME NEW f, f.kind = "clr", f.value \in Seq(Octets), session.big \in BOOLEAN
  PROVE  Faithful(f)
<1>1. PICK data \in Seq(Octets), big \in BOOLEAN : data = f.value /\ big = session.big
  OBVIOUS
<1>2. PICK b \in Seq(Octets) :
         /\ b = PutClr(data, big)
         /\ \A r \in Seq(Octets) : GetClr(b \o r, big) = Got(data, r)
  BY ClrBack
<1>3. Bytes(f) = b
  BY <1>1, <1>2 DEF Bytes
<1>4. ~GetRaises(f) /\ Keeps(f, data)
  BY <1>1 DEF GetRaises, Keeps
<1>5. ASSUME NEW r \in Seq(Octets) PROVE GotBack(f, r)
  <2>1. Read(f, Both(b, r)) = GetClr(Both(b, r), big)
    BY <1>1 DEF Read
  <2>2. GetClr(Both(b, r), big) = Got(data, r)
    BY <1>2 DEF Both
  <2> QED BY <1>3, <1>4, <2>1, <2>2, GotAsPut
<1> QED BY <1>3, <1>5 DEF Faithful

\* The keys and values of put_key_val.
KeyValField(f) ==
  /\ f.kind = "keyval"
  /\ f.value = <<f.value[1], f.value[2], f.value[3]>>
  /\ DlcData(f.value[1]) /\ DlcData(f.value[2]) /\ f.value[3] \in Wide(4)

\* Keys with values.
LEMMA KeyValFaithful ==
  ASSUME NEW f, KeyValField(f), session.big \in BOOLEAN
  PROVE  Faithful(f)
<1>0. PICK big \in BOOLEAN : big = session.big
  OBVIOUS
<1>1. PICK key, val, num :
         key = f.value[1] /\ val = f.value[2] /\ num = f.value[3] /\ big = session.big
  BY <1>0
<1>2. DlcData(key) /\ DlcData(val) /\ num \in Wide(4) /\ f.value = <<key, val, num>>
  BY <1>1 DEF KeyValField
<1>3. PICK b \in Seq(Octets) : b = PutDlc(key, big) /\ FieldRead(Octets, b, "dlc", key, big)
  BY <1>2, DlcItem
<1>4. PICK c \in Seq(Octets) : c = PutDlc(val, big) /\ FieldRead(Octets, c, "dlc", val, big)
  BY <1>2, DlcItem
<1>5. PICK d \in Seq(Octets) :
         d = PutInt(num, 4, TRUE, TRUE) /\ FieldRead(Octets, d, "int", num, big)
  <2>1. 4 \in Nat /\ 4 <= WordBytes
    BY WidthAssumption
  <2>2. num \in Wide(WordBytes) /\ Fits(num, 4)
    BY <1>2, <2>1, Narrow
  <2> QED BY <2>1, <2>2, NumberItem
<1>6. PICK kinds : kinds = <<"dlc", "dlc", "int">>
  OBVIOUS
<1>7. kinds[0 + 1] = "dlc" /\ kinds[1 + 1] = "dlc" /\ kinds[2 + 1] = "int" /\ 3 = Len(kinds)
  BY <1>6
<1>8. FieldsRead(Octets, b, kinds, 1, <<key>>, big)
  <2>1. FieldsRead(Octets, <<>>, kinds, 0, <<>>, big)
    BY NoFields
  <2>2. FieldsRead(Octets, Both(<<>>, b), kinds, 0 + 1, Append(<<>>, key), big)
    BY <1>3, <1>7, <2>1, NoBytes, NextField
  <2> QED BY <2>2, EmptyFirst, FromNothing
<1>9. PICK bc \in Seq(Octets) : bc = Both(b, c)
  BY BothBytes
<1>10. FieldsRead(Octets, bc, kinds, 2, <<key, val>>, big)
  <2>1. FieldsRead(Octets, Both(b, c), kinds, 1 + 1, Append(<<key>>, val), big)
    BY <1>4, <1>7, <1>8, NextField
  <2>2. Append(<<key>>, val) = <<key, val>> /\ 1 + 1 = 2
    BY FromOne
  <2> QED BY <1>9, <2>1, <2>2
<1>11. PICK bytes \in Seq(Octets) : bytes = Both(bc, d)
  BY BothBytes
<1>12. FieldsRead(Octets, bytes, kinds, 3, f.value, big)
  <2>1. FieldsRead(Octets, Both(bc, d), kinds, 2 + 1, Append(<<key, val>>, num), big)
    BY <1>5, <1>7, <1>10, NextField
  <2>2. Append(<<key, val>>, num) = <<key, val, num>> /\ 2 + 1 = 3
    BY FromTwo
  <2> QED BY <1>2, <1>11, <2>1, <2>2
<1>13. Bytes(f) = bytes
  <2>1. Bytes(f) = PutKeyVal(key, val, num, big)
    BY <1>1 DEF KeyValField, Bytes
  <2>2. PutKeyVal(key, val, num, big)
          = Both(Both(PutDlc(key, big), PutDlc(val, big)), PutInt(num, 4, TRUE, TRUE))
    BY DEF PutKeyVal, Both
  <2> QED BY <1>3, <1>4, <1>5, <1>9, <1>11, <2>1, <2>2
<1>14. ~GetRaises(f) /\ Keeps(f, f.value)
  BY DEF KeyValField, GetRaises, Keeps
<1>15. ASSUME NEW r \in Seq(Octets) PROVE GotBack(f, r)
  <2>1. Read(f, Both(bytes, r)) = GetFields(Both(bytes, r), kinds, big)
    BY <1>1, <1>6 DEF KeyValField, Read, GetKeyVal
  <2>2. GetFields(Both(bytes, r), kinds, big) = Got(f.value, r)
    <3>1. PICK n \in Nat : n = Len(kinds)
      BY <1>7
    <3>2. FieldsRead(Octets, bytes, kinds, n, f.value, big)
      <4>1. n = 3
        BY <1>7, <3>1
      <4> QED BY <1>12, <4>1
    <3> QED BY <3>1, <3>2, FieldsReadIs
  <2> QED BY <1>13, <1>14, <2>1, <2>2, GotAsPut
<1> QED BY <1>13, <1>15 DEF Faithful

-----------------------------------------------------------------------------
(* Values of binds and columns.                                            *)

\* The bytes of a value, under the size that put_clr gives them.
ValueBytes(f) ==
  IF f.kind = "bind" THEN BoundBytes(f.value, f.form.bind, f.form.connCharset)
  ELSE ColumnBytes(f.value, f.form)

\* What the codec of a column's type makes of the bytes of a value: the value as
\* the type keeps it; or it raises, for what the driver does not support.
Decoding(f, data) ==
  /\ data # <<>> /\ f.value # Null
  /\ GetRaises(f) <=> ~Decodes(data, f.form.type)
  /\ Decodes(data, f.form.type) => SameValue(Decode(data, f.form), f.value, f.form)

\* The bytes of a value, which are none for None, or which its codec decodes.
Carried(f, data) ==
  data = ValueBytes(f) /\ ((data = <<>> /\ f.value = Null) \/ Decoding(f, data))

\* A column without bytes has no codec.
LEMMA AbsentFaithful ==
  ASSUME NEW f, f.kind = "value", Absent(f.form)
  PROVE  Faithful(f)
<1>1. Bytes(f) = <<>>
  BY DEF Bytes, PutColumnValue, Empty, Absent
<1>2. ~GetRaises(f)
  BY DEF GetRaises, Absent, Moments, Dates, Timestamps, ZonedTimestamps, Readable, ReadTexts, ReadRaws
<1>3. Keeps(f, Null)
  BY DEF Keeps, SameValue
<1>4. ASSUME NEW r \in Seq(Octets) PROVE GotBack(f, r)
  <2>1. Both(Bytes(f), r) = r
    BY <1>1, EmptyFirst
  <2>2. Read(f, r) = Got(Null, r)
    BY DEF Read, ReadValue
  <2> QED BY <1>2, <1>3, <2>1, <2>2, GotAsPut
<1> QED BY <1>1, <1>4, NoBytes DEF Faithful

\* Any other value whose bytes its codec decodes.
LEMMA ValueFaithful ==
  ASSUME NEW f, f.kind \in {"bind", "value"}, ~Absent(f.form), session.big \in BOOLEAN,
         NEW data \in Seq(Octets), Carried(f, data)
  PROVE  Faithful(f)
<1>0. data = ValueBytes(f) /\ ((data = <<>> /\ f.value = Null) \/ Decoding(f, data))
  BY DEF Carried
<1>1. PICK big \in BOOLEAN : big = session.big
  OBVIOUS
<1>2. PICK b \in Seq(Octets) :
         /\ b = PutClr(data, big)
         /\ \A r \in Seq(Octets) : GetClr(b \o r, big) = Got(data, r)
  BY ClrBack
<1>3. Bytes(f) = b
  BY <1>0, <1>1, <1>2 DEF Bytes, PutColumnValue, Empty, Absent, ValueBytes
<1>4. Fitting(f)
  BY DEF Fitting
<1>5. ASSUME NEW r \in Seq(Octets) PROVE GotBack(f, r)
  <2>1. Read(f, Both(b, r)) = ReadValue(Both(b, r), f.form, big)
    BY <1>1 DEF Read
  <2>2. GetClr(Both(b, r), big) = Got(data, r)
    BY <1>2 DEF Both
  <2>3. PICK s : s = Both(b, r)
    OBVIOUS
  <2>4. ReadValue(s, f.form, big) = IF data = <<>> THEN Got(Null, r)
                                    ELSE IF ~Decodes(data, f.form.type) THEN Raised
                                    ELSE Got(Decode(data, f.form), r)
    <3>1. PICK g : g = GetClr(s, big)
      OBVIOUS
    <3>2. g.ok /\ g.value = data /\ g.rest = r
      BY <2>2, <2>3, <3>1 DEF Got
    <3> QED BY <3>1, <3>2 DEF ReadValue, Then
  <2>5. CASE data = <<>> /\ f.value = Null
    <3>1. ~GetRaises(f) /\ Keeps(f, Null)
      BY <2>5 DEF GetRaises, Keeps, SameValue
    <3>2. Read(f, Both(Bytes(f), r)) = Got(Null, r)
      BY <1>3, <2>1, <2>3, <2>4, <2>5
    <3> QED BY <3>1, <3>2, GotAsPut
  <2>6. CASE Decoding(f, data) /\ ~Decodes(data, f.form.type)
    <3>1. Read(f, Both(Bytes(f), r)) = Raised
      BY <1>3, <2>1, <2>3, <2>4, <2>6 DEF Decoding
    <3>2. GetRaises(f)
      BY <2>6 DEF Decoding
    <3> QED BY <3>1, <3>2 DEF GotBack, Raised
  <2>7. CASE Decoding(f, data) /\ Decodes(data, f.form.type)
    <3>1. Read(f, Both(Bytes(f), r)) = Got(Decode(data, f.form), r)
      BY <1>3, <2>1, <2>3, <2>4, <2>7 DEF Decoding
    <3>2. ~GetRaises(f) /\ Keeps(f, Decode(data, f.form))
      BY <2>7 DEF Decoding, Keeps
    <3> QED BY <3>1, <3>2, GotAsPut
  <2> QED BY <1>0, <2>5, <2>6, <2>7
<1> QED BY <1>3, <1>5 DEF Faithful

\* None has no bytes, of whatever type.
LEMMA NullFaithful ==
  ASSUME NEW f, f.kind \in {"bind", "value"}, ~Absent(f.form), session.big \in BOOLEAN,
         f.value = Null
  PROVE  Faithful(f)
<1>1. ValueBytes(f) = <<>>
  BY DEF ValueBytes, BoundBytes, ColumnBytes
<1>2. PICK data \in Seq(Octets) : data = <<>>
  BY NoBytes
<1>3. Carried(f, data)
  BY <1>1, <1>2 DEF Carried
<1> QED BY <1>3, ValueFaithful

\* A value that is bytes: raws, locators, the bits of floats, and what is stored
\* in columns of types that the driver does not read.
BytesColumn(type, data) ==
  \/ type \in ReadRaws \cup Locators
  \/ type \in Floats /\ Len(data) <= 4
  \/ type \in Doubles /\ Len(data) <= 8
  \/ ~Readable(type)

\* Such a value of a column, or bound.
BytesValue(f) ==
  /\ f.kind = "bind" => f.form.bind \in BoundRaws
  /\ f.value \in Seq(Octets)
  /\ BytesColumn(f.form.type, f.value)

\* The bits of a float begin with the bytes there are.
LEMMA BitsKept ==
  ASSUME NEW data \in Seq(Octets), NEW size \in Nat, Len(data) <= size
  PROVE  \A i \in DOMAIN data : FloatBits(data, size)[i] = data[i]
<1>1. PICK n \in Nat : n = Len(data) /\ n <= size
  OBVIOUS
<1>2. PICK zero \in Octets : zero = 0
  <2>1. 0 \in 0 .. 255
    OBVIOUS
  <2> QED BY <2>1, NumbersOfOctets
<1>3. PICK s \in Seq(Octets) : /\ s = data \o [i \in 1 .. size |-> 0]
                               /\ Len(s) = n + size
                               /\ \A i \in 1 .. n : s[i] = data[i]
  <2>1. PICK z : z = [i \in 1 .. size |-> 0]
    OBVIOUS
  <2>2. z \in [1 .. size -> Octets]
    BY <1>2, <2>1
  <2>3. z \in Seq(Octets) /\ Len(z) = size
    BY <2>2
  <2>4. PICK s : s = data \o z
    OBVIOUS
  <2>5. /\ s \in Seq(Octets) /\ Len(s) = n + size
        /\ \A i \in 1 .. n : s[i] = data[i]
    BY <1>1, <2>3, <2>4, ConcatProperties
  <2> QED BY <2>1, <2>4, <2>5
<1>4. \A i \in 1 .. size : SubSeq(s, 1, size)[i] = s[i]
  BY <1>1, <1>3
<1> QED BY <1>1, <1>3, <1>4 DEF FloatBits

\* The kinds of types are apart.
LEMMA BytesTypes ==
  ASSUME NEW type, NEW data, BytesColumn(type, data)
  PROVE  /\ type \notin ReadNumbers /\ type \notin ReadTexts /\ type \notin Booleans
         /\ type \notin Moments /\ type \notin Dates
         /\ type \notin Timestamps \cup ZonedTimestamps
         /\ type \in Floats => type \notin Doubles \cup ReadRaws \cup Locators
         /\ type \in Doubles => type \notin Floats \cup ReadRaws \cup Locators
<1>1. CASE ~Readable(type)
  BY <1>1 DEF Readable, Moments
<1>2. CASE type \in {23, 24, 95} \cup {112, 113, 114, 127} \cup {100} \cup {101}
  BY <1>2 DEF ReadNumbers, ReadTexts, ReadRaws, Locators, Booleans, Moments,
              Dates, Timestamps, ZonedTimestamps, Floats, Doubles
<1>3. \/ ~Readable(type)
      \/ type \in {23, 24, 95} \cup {112, 113, 114, 127} \cup {100} \cup {101}
  BY DEF BytesColumn, ReadRaws, Locators, Floats, Doubles
<1> QED BY <1>1, <1>2, <1>3

\* Bytes are read as they are.
LEMMA BytesFaithful ==
  ASSUME NEW f, f.kind \in {"bind", "value"}, ~Absent(f.form), session.big \in BOOLEAN,
         BytesValue(f)
  PROVE  Faithful(f)
<1>1. CASE f.value = Null
  BY <1>1, NullFaithful
<1>2. CASE f.value # Null
  <2>1. PICK data \in Seq(Octets) : data = f.value /\ data # <<>>
    BY <1>2 DEF BytesValue, Null
  <2>2. PICK type : type = f.form.type /\ BytesColumn(type, data)
    BY <2>1 DEF BytesValue
  <2>3. ValueBytes(f) = data
    <3>1. CASE f.kind = "bind"
      BY <1>2, <2>1, <3>1 DEF BytesValue, ValueBytes, BoundBytes, BoundRaws, BoundNumbers, BoundTexts,
                  Booleans, Dates, Timestamps, ZonedTimestamps
    <3>2. CASE f.kind = "value"
      BY <1>2, <2>1, <2>2, <3>2, BytesTypes DEF ValueBytes, ColumnBytes
    <3> QED BY <3>1, <3>2
  <2>4. GetRaises(f) <=> ~Decodes(data, type)
    BY <1>2, <2>2, BytesTypes DEF GetRaises, Decodes
  <2>5. Decodes(data, type) => SameValue(Decode(data, f.form), f.value, f.form)
    <3>1. CASE type \in ReadRaws \cup Locators
      <4>1. Decode(data, f.form) = data
        BY <2>2, <3>1, BytesTypes DEF Decode
      <4> QED BY <1>2, <2>1, <2>2, <3>1, <4>1, BytesTypes DEF SameValue
    <3>2. CASE type \in Floats
      <4>1. Decode(data, f.form) = FloatBits(data, 4)
        BY <2>2, <3>2, BytesTypes DEF Decode
      <4>2. Len(data) <= 4
        BY <2>2, <3>2, BytesTypes DEF BytesColumn, Readable
      <4>3. \A i \in DOMAIN data : FloatBits(data, 4)[i] = data[i]
        BY <4>2, BitsKept
      <4> QED BY <1>2, <2>1, <2>2, <3>2, <4>1, <4>3, BytesTypes DEF SameValue
    <3>3. CASE type \in Doubles
      <4>1. Decode(data, f.form) = FloatBits(data, 8)
        BY <2>2, <3>3, BytesTypes DEF Decode
      <4>2. Len(data) <= 8
        BY <2>2, <3>3, BytesTypes DEF BytesColumn, Readable
      <4>3. \A i \in DOMAIN data : FloatBits(data, 8)[i] = data[i]
        BY <4>2, BitsKept
      <4> QED BY <1>2, <2>1, <2>2, <3>3, <4>1, <4>3, BytesTypes DEF SameValue
    <3>4. CASE ~Readable(type)
      BY <3>4 DEF Decodes
    <3> QED BY <2>2, <3>1, <3>2, <3>3, <3>4 DEF BytesColumn
  <2>6. Carried(f, data)
    BY <1>2, <2>1, <2>2, <2>3, <2>4, <2>5 DEF Carried, Decoding
  <2> QED BY <2>6, ValueFaithful
<1> QED BY <1>1, <1>2

\* Booleans.
TruthValue(f) ==
  /\ f.kind = "bind" => f.form.bind \in Booleans
  /\ f.form.type \in Booleans
  /\ f.value \in [truth : BOOLEAN]

\* One byte says what the other is: TRUE and FALSE are told apart.
LEMMA TruthFaithful ==
  ASSUME NEW f, f.kind \in {"bind", "value"}, session.big \in BOOLEAN, TruthValue(f)
  PROVE  Faithful(f)
<1>1. ~Absent(f.form)
  BY DEF TruthValue, Absent, Booleans
<1>2. CASE f.value = Null
  BY <1>1, <1>2, NullFaithful
<1>3. CASE f.value # Null
  <2>1. PICK t \in BOOLEAN : f.value = [truth |-> t]
    BY DEF TruthValue
  <2>2. PICK type : type = f.form.type /\ type = 252
    BY DEF TruthValue, Booleans
  <2>3. PICK data \in Seq(Octets) : data = (IF t THEN <<1, 1>> ELSE <<1, 0>>)
    <3>1. 1 \in Octets /\ 0 \in Octets
      <4>1. 1 \in 0 .. 255 /\ 0 \in 0 .. 255
        OBVIOUS
      <4> QED BY <4>1, NumbersOfOctets
    <3>2. <<1, 1>> \in Seq(Octets) /\ <<1, 0>> \in Seq(Octets)
      BY <3>1
    <3> QED BY <3>2
  <2>4. data # <<>> /\ (data = <<1, 1>> <=> t)
    BY <2>3
  <2>5. ValueBytes(f) = data
    BY <1>3, <2>1, <2>2, <2>3
       DEF TruthValue, ValueBytes, BoundBytes, ColumnBytes, BoundRaws, BoundNumbers, BoundTexts,
           Booleans, Dates, Timestamps, ZonedTimestamps, ReadNumbers, ReadTexts
  <2>6. Decode(data, f.form) = [truth |-> data = <<1, 1>>]
    BY <2>2 DEF Decode, Booleans, ReadNumbers, ReadTexts, ReadRaws, Locators, Moments,
                Dates, Timestamps, ZonedTimestamps, Floats, Doubles
  <2>7. Decode(data, f.form) = f.value
    BY <2>1, <2>4, <2>6
  <2>8. Decodes(data, type) /\ ~GetRaises(f)
    BY <2>2 DEF Decodes, GetRaises, Readable, Booleans, Moments, Dates, Timestamps, ZonedTimestamps
  <2>9. SameValue(f.value, f.value, f.form)
    BY <1>1, <1>3, <2>2 DEF SameValue, Booleans, ReadNumbers, ReadTexts, ReadRaws, Moments,
                Dates, Timestamps, ZonedTimestamps, Floats, Doubles
  <2>10. Carried(f, data)
    BY <1>3, <2>2, <2>4, <2>5, <2>7, <2>8, <2>9 DEF Carried, Decoding
  <2> QED BY <1>1, <2>10, ValueFaithful
<1> QED BY <1>2, <1>3

\* A value that cannot be bound is never put.
LEMMA UnboundFaithful ==
  ASSUME NEW f, f.kind = "bind", f.value # Null, ~Bindable(f.form.bind)
  PROVE  Faithful(f)
BY DEF Faithful, PutRaises

\* Exponents are kept in half of a byte's values, 64 or fewer.
ByteLimit == ExponentLimit <= 64

\* The bytes of a NUMBER are bytes.
LEMMA ExponentOctet ==
  ASSUME ByteLimit, NEW e \in Int, NEW negative \in BOOLEAN
  PROVE  ExponentByte(e, negative) \in Octets
<1>1. PICK l \in Nat : l = ExponentLimit /\ l <= 64 /\ l >= 1
  BY LimitAssumption DEF ByteLimit
<1>2. PICK x \in 0 .. 4 * l - 1 : x = LowByte(e + ExponentLimit)
  <2>1. (e + l) % (4 * l) \in 0 .. 4 * l - 1
    BY <1>1
  <2> QED BY <1>1, <2>1 DEF LowByte
<1>3. FlipLowBits(x) \in 0 .. 255 /\ SetTopBit(x) \in 0 .. 255
  <2>1. TopBit = 2 * l
    BY <1>1 DEF TopBit
  <2>2. FlipLowBits(x) = IF x < 2 * l THEN 2 * l - 1 - x ELSE 6 * l - 1 - x
    BY <1>1, <1>2, <2>1 DEF FlipLowBits
  <2>3. SetTopBit(x) = IF x < 2 * l THEN x + 2 * l ELSE x
    BY <1>1, <1>2, <2>1 DEF SetTopBit
  <2>4. CASE x < 2 * l
    BY <1>1, <1>2, <2>2, <2>3, <2>4
  <2>5. CASE x >= 2 * l
    <3>1. FlipLowBits(x) = 6 * l - 1 - x /\ SetTopBit(x) = x
      BY <1>1, <1>2, <2>2, <2>3, <2>5
    <3>2. x <= 4 * l - 1 /\ 4 * l - 1 <= 255
      BY <1>1, <1>2
    <3>3. x \in Nat /\ x <= 255
      BY <1>1, <1>2, <3>2
    <3>4. PICK y \in Int : y = 6 * l - 1 - x
      BY <1>1, <3>3
    <3>5. y >= 0 /\ y <= 255
      BY <1>1, <2>5, <3>2, <3>3, <3>4
    <3> QED BY <3>1, <3>3, <3>4, <3>5
  <2> QED BY <1>1, <1>2, <2>4, <2>5
<1> QED BY <1>2, <1>3, NumbersOfOctets DEF ExponentByte

\* A pair of digits takes a byte, and a number bytes.
LEMMA PairOctet ==
  ASSUME NEW p \in 0 .. 99, NEW negative \in BOOLEAN
  PROVE  PairByte(p, negative) \in 0 .. 255
BY DEF PairByte

\* An encoded number is bytes, and not none.
LEMMA NumberOctets ==
  ASSUME ByteLimit, NEW v \in Value
  PROVE  Encoded(v) \in Seq(Octets) /\ Encoded(v) # <<>>
<1>1. CASE IsZero(v)
  <2>1. 2 * ExponentLimit \in 0 .. 255
    BY LimitAssumption DEF ByteLimit
  <2>2. PICK x \in Octets : x = TopBit
    BY <2>1, NumbersOfOctets DEF TopBit
  <2> QED BY <1>1, <2>2 DEF Encoded, ZeroBytes
<1>2. CASE ~IsZero(v)
  <2>1. v.negative \in BOOLEAN
    BY Parts
  <2>2. TopPair(v) \in Int /\ Pairs(v) \in Nat \ {0}
    BY <1>2, PairsSpan
  <2>3. /\ Encoded(v) \in Seq(Int)
        /\ Len(Encoded(v)) = Pairs(v) + (IF WithMarker(v) THEN 2 ELSE 1)
        /\ Encoded(v)[1] = ExponentByte(TopPair(v), v.negative)
        /\ \A k \in 1 .. Pairs(v) :
             Encoded(v)[k + 1] = PairByte(PairAt(v, k), v.negative)
        /\ WithMarker(v) => Encoded(v)[Pairs(v) + 2] = Marker
    BY <1>2, EncodedBytes
  <2>4. PICK s \in Seq(Int), n \in Nat : s = Encoded(v) /\ n = Len(s) /\ n # 0
    BY <2>2, <2>3
  <2>5. ASSUME NEW i \in 1 .. n PROVE s[i] \in Octets
    <3>1. CASE i = 1
      BY <2>1, <2>2, <2>3, <2>4, <3>1, ExponentOctet
    <3>2. CASE i \in 2 .. Pairs(v) + 1
      <4>1. PICK k \in 1 .. Pairs(v) : i = k + 1
        <5>1. i - 1 \in 1 .. Pairs(v) /\ i = (i - 1) + 1
          BY <2>2, <3>2
        <5> QED BY <5>1
      <4>2. PICK p \in 0 .. 99 : p = PairAt(v, k)
        <5>1. k \in Int
          BY <2>2
        <5> QED BY <1>2, <5>1, PairRange
      <4>3. PairByte(p, v.negative) \in 0 .. 255
        BY <2>1, PairOctet
      <4>4. s[i] = PairByte(PairAt(v, k), v.negative)
        BY <2>3, <2>4, <4>1
      <4> QED BY <4>2, <4>3, <4>4, NumbersOfOctets
    <3>3. CASE WithMarker(v) /\ i = Pairs(v) + 2
      <4>1. s[i] = 102
        BY <2>3, <2>4, <3>3 DEF Marker
      <4> QED BY <4>1, NumbersOfOctets
    <3>4. i = 1 \/ i \in 2 .. Pairs(v) + 1 \/ (WithMarker(v) /\ i = Pairs(v) + 2)
      <4>1. PICK p \in Nat : p = Pairs(v) /\ p # 0
        BY <2>2
      <4>2. CASE WithMarker(v)
        <5>1. n = p + 2
          BY <2>3, <2>4, <4>1, <4>2
        <5>2. i = 1 \/ i \in 2 .. p + 1 \/ i = p + 2
          BY <4>1, <5>1
        <5> QED BY <4>1, <4>2, <5>2
      <4>3. CASE ~WithMarker(v)
        <5>1. n = p + 1
          BY <2>3, <2>4, <4>1, <4>3
        <5>2. i = 1 \/ i \in 2 .. p + 1
          BY <4>1, <5>1
        <5> QED BY <4>1, <5>2
      <4> QED BY <4>2, <4>3
    <3> QED BY <3>1, <3>2, <3>3, <3>4
  <2>6. s \in [1 .. n -> Octets]
    <3>1. s \in [1 .. n -> Int]
      BY <2>4, LenProperties
    <3> QED BY <2>5, <3>1
  <2>7. s \in Seq(Octets)
    BY <2>6
  <2>8. s # <<>>
    BY <2>4
  <2> QED BY <2>4, <2>7, <2>8
<1> QED BY <1>1, <1>2

\* A number, bound or of a column.
NumberValue(f) ==
  /\ f.kind = "bind" => f.form.bind \in BoundNumbers
  /\ f.form.type \in ReadNumbers
  /\ f.value \in Value

\* The types of numbers have no other codec.
LEMMA NumberTypes ==
  ASSUME NEW type \in ReadNumbers
  PROVE  /\ type \notin ReadTexts /\ type \notin Booleans /\ type \notin Moments
         /\ type \notin Dates /\ type \notin Timestamps \cup ZonedTimestamps
         /\ type \notin ReadRaws \cup Locators /\ type \notin Floats /\ type \notin Doubles
         /\ type \notin Floats \cup Doubles
BY DEF Booleans, ReadNumbers, ReadTexts, ReadRaws, Locators, Moments, Dates, Timestamps,
       ZonedTimestamps, Floats, Doubles

\* A bound number is of no other type.
LEMMA BoundNumberTypes ==
  ASSUME NEW bind \in BoundNumbers
  PROVE  /\ bind \notin BoundTexts /\ bind \notin BoundRaws /\ bind \notin Booleans
         /\ bind \notin Dates /\ bind \notin Timestamps \cup ZonedTimestamps
BY DEF BoundNumbers, BoundTexts, BoundRaws, Booleans, Dates, Timestamps, ZonedTimestamps

\* So numbers are faithful: DecodedBack says what is read of their bytes.
LEMMA NumberFaithful ==
  ASSUME ByteLimit, NEW f, f.kind \in {"bind", "value"}, session.big \in BOOLEAN, NumberValue(f)
  PROVE  Faithful(f)
<1>1. ~Absent(f.form)
  BY DEF NumberValue, Absent, ReadNumbers
<1>2. CASE f.value = Null
  BY <1>1, <1>2, NullFaithful
<1>3. CASE f.value # Null
  <2>1. PICK v \in Value : v = f.value
    BY DEF NumberValue
  <2>2. PICK data \in Seq(Octets) : data = Encoded(v) /\ data # <<>>
    BY NumberOctets
  <2>3. PICK type : type = f.form.type /\ type \in ReadNumbers
    BY DEF NumberValue
  <2>4. ValueBytes(f) = data
    <3>1. CASE f.kind = "bind"
      <4>1. PICK bind : bind = f.form.bind /\ bind \in BoundNumbers
        BY <3>1 DEF NumberValue
      <4>2. /\ bind \notin BoundTexts /\ bind \notin BoundRaws /\ bind \notin Booleans
            /\ bind \notin Dates /\ bind \notin Timestamps \cup ZonedTimestamps
        BY <4>1, BoundNumberTypes
      <4>3. BoundBytes(f.value, bind, f.form.connCharset) = Encoded(f.value)
        BY <1>3, <4>1, <4>2 DEF BoundBytes
      <4> QED BY <2>1, <2>2, <3>1, <4>1, <4>3 DEF ValueBytes
    <3>2. CASE f.kind = "value"
      <4>1. f.value \notin Infinities
        BY <2>1, NoInfinity
      <4>2. ColumnBytes(f.value, f.form) = Encoded(f.value)
        BY <1>3, <2>3, <4>1, NumberTypes DEF ColumnBytes
      <4> QED BY <2>1, <2>2, <3>2, <4>2 DEF ValueBytes
    <3> QED BY <3>1, <3>2
  <2>5. Decode(data, f.form) = DecodedNumber(data)
    BY <2>3, NumberTypes DEF Decode
  <2>6. Decodes(data, type) /\ ~GetRaises(f)
    BY <2>3, NumberTypes DEF Decodes, GetRaises, Readable
  <2>7. SameValue(DecodedNumber(data), v, f.form)
    <3>1. InRange(v) => SameNumber(DecodedNumber(data), v)
      BY <2>2, NumbersRoundTrip
    <3>2. v \notin Infinities
      BY NoInfinity
    <3> QED BY <1>1, <1>3, <2>1, <2>3, <3>1, <3>2, NumberTypes DEF SameValue
  <2>8. Carried(f, data)
    BY <1>3, <2>1, <2>2, <2>3, <2>4, <2>5, <2>6, <2>7 DEF Carried, Decoding
  <2> QED BY <1>1, <2>8, ValueFaithful
<1> QED BY <1>2, <1>3

-----------------------------------------------------------------------------
(* Moments.                                                                *)

\* Microseconds of a second.
Micros == {n \in Nat : n < 1000 * 1000}

\* Years of four digits, before and of the common era.
Years == {y \in Int : -9999 <= y /\ y <= 9999}

\* Offsets of zones of less than a day, not 20 hours or more to the west.
Offsets == {o \in Int : -1200 <= o /\ o <= 1439}

\* A date there is, of a year of four digits, in a zone not 20 hours or more west
\* of Greenwich, and less than a day east.
Moment ==
  {m \in [year : Years, month : 1 .. 12, day : 1 .. 31,
          hour : 0 .. 23, minute : 0 .. 59, second : 0 .. 59,
          micro : Micros, offset : {Naive} \cup Offsets] :
     m.day <= DaysInMonth(m.year, m.month)}

\* The bytes of a date, and the fields they stand for.
LEMMA Hundreds ==
  ASSUME NEW n \in Nat, n <= 9999
  PROVE  /\ n \div 100 \in 0 .. 99 /\ n % 100 \in 0 .. 99
         /\ n = 100 * (n \div 100) + (n % 100)
BY SMTT(60)

\* The parts of a year in its two bytes.
YearParts(y, c, a, b) ==
  /\ c = IF y >= 0 THEN y \div 100 ELSE -((-y) \div 100)
  /\ a = c + 100 /\ b = y - 100 * c + 100
  /\ a \in 0 .. 255 /\ b \in 0 .. 255
  /\ (a - 100) * 100 + (b - 100) = y

\* A year of its two bytes; years before 1 have bytes too.
LEMMA YearBack ==
  ASSUME NEW y \in Years
  PROVE  \E c, a, b \in Int : YearParts(y, c, a, b)
<1>1. y \in Int /\ -9999 <= y /\ y <= 9999
  BY DEF Years
<1>2. CASE y >= 0
  <2>1. y \in Nat
    BY <1>1, <1>2
  <2>21. PICK c, r : c = y \div 100 /\ r = y % 100
    OBVIOUS
  <2>2. c \in 0 .. 99 /\ r \in 0 .. 99 /\ y = 100 * c + r
    <3>1. y <= 9999
      BY <1>1
    <3> QED BY <2>1, <2>21, <3>1, Hundreds
  <2>3. PICK a, b \in Int : a = c + 100 /\ b = r + 100
    BY <2>2
  <2>4. b = y - 100 * c + 100 /\ a \in 0 .. 255 /\ b \in 0 .. 255
    BY <2>2, <2>3
  <2>5. (a - 100) * 100 + (b - 100) = y
    BY <2>2, <2>3
  <2>6. c \in Int
    BY <2>2
  <2>7. c = IF y >= 0 THEN y \div 100 ELSE -((-y) \div 100)
    BY <1>2, <2>21
  <2>8. YearParts(y, c, a, b)
    BY <2>3, <2>4, <2>5, <2>7 DEF YearParts
  <2> QED BY <2>3, <2>6, <2>8, Zenon
<1>3. CASE y < 0
  <2>1. PICK z \in Nat : z = -y /\ z <= 9999
    BY <1>1, <1>3
  <2>21. PICK d, r : d = z \div 100 /\ r = z % 100
    OBVIOUS
  <2>2. d \in 0 .. 99 /\ r \in 0 .. 99 /\ z = 100 * d + r
    <3>1. z <= 9999
      BY <2>1
    <3> QED BY <2>21, <3>1, Hundreds
  <2>3. PICK c, a, b \in Int : c = -d /\ a = 100 - d /\ b = 100 - r
    BY <2>2
  <2>4. a = c + 100 /\ b = y - 100 * c + 100 /\ a \in 0 .. 255 /\ b \in 0 .. 255
    BY <1>1, <2>1, <2>2, <2>3
  <2>5. (a - 100) * 100 + (b - 100) = y
    BY <1>1, <2>1, <2>2, <2>3
  <2>6. ~(y >= 0) /\ c = -((-y) \div 100)
    BY <1>1, <1>3, <2>1, <2>21, <2>3
  <2>7. c = IF y >= 0 THEN y \div 100 ELSE -((-y) \div 100)
    BY <2>6
  <2>8. YearParts(y, c, a, b)
    BY <2>3, <2>4, <2>5, <2>7 DEF YearParts
  <2> QED BY <2>3, <2>8, Zenon
<1> QED BY <1>1, <1>2, <1>3

\* The nanoseconds, byte by byte.
LEMMA NanosOf ==
  ASSUME NEW micro \in Micros
  PROVE  \E n, q1, q2, q3 \in Nat :
           /\ n = micro * 1000 /\ n \div 1000 = micro
           /\ q1 = n \div 256 /\ q2 = q1 \div 256 /\ q3 = q2 \div 256 /\ q3 <= 255
<1>1. micro \in Nat /\ micro * 1000 < 1000 * (1000 * 1000)
  BY SMT DEF Micros
<1>2. PICK n \in Nat : n = micro * 1000 /\ n < 1000 * (1000 * 1000)
  BY <1>1
<1>3. n \div 1000 = micro
  BY <1>1, <1>2
<1>4. ((n \div 256) \div 256) \div 256 <= 255
  BY <1>2
<1>5. PICK q1 \in Nat : q1 = n \div 256
  OBVIOUS
<1>6. PICK q2 \in Nat : q2 = q1 \div 256
  OBVIOUS
<1>7. PICK q3 \in Nat : q3 = q2 \div 256
  OBVIOUS
<1> QED BY <1>2, <1>3, <1>4, <1>5, <1>6, <1>7

\* A number's lowest byte, and the others.
LEMMA OctetRemainder ==
  ASSUME NEW n \in Nat
  PROVE  n % 256 \in 0 .. 255 /\ n = 256 * (n \div 256) + (n % 256)
OBVIOUS

\* Microseconds come back of the nanoseconds in four bytes.
LEMMA NanosBack ==
  ASSUME NEW micro \in Micros
  PROVE  \E a, b, c, d \in Octets :
           /\ NanoBytes(micro * 1000) = <<a, b, c, d>>
           /\ (((a * 256 + b) * 256 + c) * 256 + d) \div 1000 = micro
<1>1. PICK n, q1, q2, q3 \in Nat :
         /\ n = micro * 1000 /\ n \div 1000 = micro
         /\ q1 = n \div 256 /\ q2 = q1 \div 256 /\ q3 = q2 \div 256 /\ q3 <= 255
  BY NanosOf
<1>2. PICK b, c, d \in 0 .. 255 : b = q2 % 256 /\ c = q1 % 256 /\ d = n % 256
  BY OctetRemainder
<1>3. PICK a \in 0 .. 255 : a = q3 /\ a = q3 % 256
  <2>1. q3 <= 255
    BY <1>1
  <2>2. q3 \in 0 .. 255 /\ q3 % 256 = q3
    BY <2>1
  <2> QED BY <2>2
<1>4. n = 256 * q1 + d /\ q1 = 256 * q2 + c /\ q2 = 256 * a + b
  <2>1. n = 256 * (n \div 256) + (n % 256) /\ q1 = 256 * (q1 \div 256) + (q1 % 256)
        /\ q2 = 256 * (q2 \div 256) + (q2 % 256)
    BY OctetRemainder
  <2> QED BY <1>1, <1>2, <1>3, <2>1
<1>5. ((a * 256 + b) * 256 + c) * 256 + d = n
  BY <1>4
<1>6. NanoBytes(n) = <<a, b, c, d>>
  BY <1>1, <1>2, <1>3 DEF NanoBytes
<1>7. a \in Octets /\ b \in Octets /\ c \in Octets /\ d \in Octets
  BY NumbersOfOctets
<1> QED BY <1>1, <1>5, <1>6, <1>7

\* The offset that is kept of an offset.
KeptOffset(offset) == IF offset # 0 THEN offset ELSE Naive

\* Hours and minutes of an offset, of both signs.
LEMMA Sixties ==
  ASSUME NEW n \in Nat, n <= 1439
  PROVE  \E h \in 0 .. 23, m \in 0 .. 59 : h = n \div 60 /\ m = n % 60 /\ n = 60 * h + m
<1>1. n \div 60 \in 0 .. 23 /\ n % 60 \in 0 .. 59 /\ n = 60 * (n \div 60) + (n % 60)
  OBVIOUS
<1> QED BY <1>1

\* An offset to the west in whole hours, as div rounds it.
LEMMA MinusSixties ==
  ASSUME NEW h \in Nat, NEW m \in 0 .. 59
  PROVE  (-(60 * h + m)) \div 60 = IF m = 0 THEN -h ELSE -h - 1
OBVIOUS

\* The offset of two bytes, hours and minutes.
ReadOffset(a, b) ==
  LET o == ((a % 64) - 20) * 60 + (b - 60) IN
  IF o = 0 \/ o \notin -1439 .. 1439 THEN Naive ELSE o

\* The two bytes of an offset, and what is read of them.
LEMMA OffsetRead ==
  ASSUME NEW h \in -20 .. 23, NEW m \in 0 .. 59, 60 * h + m <= 1439
  PROVE  \E a, b \in Octets :
           a = h + 20 /\ b = m + 60 /\ ReadOffset(a, b) = KeptOffset(60 * h + m)
<1>1. PICK a, b \in Int : a = h + 20 /\ b = m + 60
  OBVIOUS
<1>2. a \in 0 .. 255 /\ b \in 0 .. 255 /\ a % 64 = a
  BY <1>1
<1>3. ((a % 64) - 20) * 60 + (b - 60) = 60 * h + m
  BY <1>1, <1>2
<1>4. 60 * h + m \in -1439 .. 1439
  OBVIOUS
<1>5. ReadOffset(a, b) = KeptOffset(60 * h + m)
  BY <1>3, <1>4 DEF ReadOffset, KeptOffset
<1> QED BY <1>1, <1>2, <1>5, NumbersOfOctets

\* An offset of its two bytes, if a zone of that offset is kept.
LEMMA ZoneBack ==
  ASSUME NEW offset \in {Naive} \cup Offsets
  PROVE  \E a, b \in Octets :
           /\ ZoneBytes(offset) = <<a, b>>
           /\ Kept(offset) => ReadOffset(a, b) = KeptOffset(offset)
<1>1. CASE offset = Naive
  <2>1. PICK a, b \in Octets : a = 0 + 20 /\ b = 0 + 60 /\ ReadOffset(a, b) = KeptOffset(60 * 0 + 0)
    BY OffsetRead
  <2>2. a = 20 /\ b = 60 /\ ReadOffset(a, b) = KeptOffset(0)
    BY <2>1
  <2>3. KeptOffset(0) = KeptOffset(Naive)
    BY DEF KeptOffset, Naive
  <2> QED BY <1>1, <2>2, <2>3 DEF ZoneBytes
<1>2. CASE offset \in Offsets /\ offset >= 0
  <2>1. offset \in Nat /\ offset <= 1439 /\ offset # Naive
    BY <1>2 DEF Offsets, Naive
  <2>2. PICK h \in 0 .. 23, m \in 0 .. 59 :
           h = offset \div 60 /\ m = offset % 60 /\ offset = 60 * h + m
    BY <2>1, Sixties
  <2>3. h \in -20 .. 23 /\ 60 * h + m <= 1439
    BY <2>1, <2>2
  <2>4. PICK a, b \in Octets :
           a = h + 20 /\ b = m + 60 /\ ReadOffset(a, b) = KeptOffset(60 * h + m)
    BY <2>3, OffsetRead
  <2>5. ZoneBytes(offset) = <<a, b>>
    BY <2>1, <2>2, <2>4 DEF ZoneBytes
  <2> QED BY <2>2, <2>4, <2>5
<1>3. CASE offset \in Offsets /\ offset < 0
  <2>1. PICK z \in Nat : z = -offset /\ z <= 1200 /\ offset = -z /\ z # 0
    BY <1>3 DEF Offsets
  <2>2. PICK k \in 0 .. 23, m \in 0 .. 59 :
           m = z % 60 /\ z = 60 * k + m /\ k <= 20
    <3>1. z <= 1439
      BY <2>1
    <3>2. PICK k \in 0 .. 23, m \in 0 .. 59 : m = z % 60 /\ z = 60 * k + m
      BY <3>1, Sixties
    <3>3. k <= 20
      BY <2>1, <3>2
    <3> QED BY <3>2, <3>3
  <2>3. PICK h \in -20 .. 0 : h = (-z) \div 60 /\ h = IF m = 0 THEN -k ELSE -k - 1
    <3>1. (-z) \div 60 = IF m = 0 THEN -k ELSE -k - 1
      BY <2>2, MinusSixties
    <3>2. (IF m = 0 THEN -k ELSE -k - 1) \in -20 .. 0
      <4>1. m = 0 \/ k <= 19
        BY <2>1, <2>2
      <4> QED BY <2>2, <4>1
    <3> QED BY <3>1, <3>2
  <2>4. h \in -20 .. 23 /\ 60 * h + m <= 1439
    OBVIOUS
  <2>5. PICK a, b \in Octets :
           a = h + 20 /\ b = m + 60 /\ ReadOffset(a, b) = KeptOffset(60 * h + m)
    BY <2>4, OffsetRead
  <2>6. ZoneBytes(offset) = <<a, b>>
    <3>1. offset # Naive /\ offset < 0
      BY <1>3, <2>1 DEF Naive
    <3>2. (offset \div 60) = h /\ -offset = z
      BY <2>1, <2>3
    <3> QED BY <2>2, <2>5, <3>1, <3>2 DEF ZoneBytes
  <2>7. Kept(offset) => offset = 60 * h + m
    <3>1. Kept(offset) => m = 0 \/ m = 30
      <4>1. offset # Naive /\ ~(offset >= 0) /\ -offset = z
        BY <1>3, <2>1 DEF Naive, Offsets
      <4> QED BY <2>2, <4>1 DEF Kept
    <3>2. m = 0 \/ m = 30 => -z = 60 * h + m
      BY <2>2, <2>3
    <3> QED BY <2>1, <3>1, <3>2
  <2> QED BY <2>5, <2>6, <2>7
<1> QED BY <1>1, <1>2, <1>3 DEF Offsets

\* The parts of a moment.
LEMMA MomentParts ==
  ASSUME NEW m \in Moment
  PROVE  /\ m.year \in Years /\ m.month \in 1 .. 12 /\ m.day \in 1 .. 31
         /\ m.hour \in 0 .. 23 /\ m.minute \in 0 .. 59 /\ m.second \in 0 .. 59
         /\ m.micro \in Micros /\ m.offset \in {Naive} \cup Offsets
         /\ m.day <= DaysInMonth(m.year, m.month)
BY DEF Moment

\* What the first seven bytes stand for.
Dated(data, m) ==
  /\ (data[1] - 100) * 100 + (data[2] - 100) = m.year
  /\ data[3] = m.month /\ data[4] = m.day
  /\ data[5] - 1 = m.hour /\ data[6] - 1 = m.minute /\ data[7] - 1 = m.second

\* Strings of two, four and seven bytes.
LEMMA TwoOctets ==
  ASSUME NEW a \in Octets, NEW b \in Octets
  PROVE  \E d \in Seq(Octets) : d = <<a, b>> /\ Len(d) = 2 /\ d[1] = a /\ d[2] = b
<1>1. <<a, b>> \in Seq(Octets) /\ Len(<<a, b>>) = 2 /\ <<a, b>>[1] = a /\ <<a, b>>[2] = b
  OBVIOUS
<1> QED BY <1>1, Zenon

\* Four bytes are a string of bytes.
LEMMA FourOctets ==
  ASSUME NEW a \in Octets, NEW b \in Octets, NEW c \in Octets, NEW e \in Octets
  PROVE  \E d \in Seq(Octets) :
           /\ d = <<a, b, c, e>> /\ Len(d) = 4
           /\ d[1] = a /\ d[2] = b /\ d[3] = c /\ d[4] = e
<1>1. <<a, b, c, e>> \in Seq(Octets) /\ Len(<<a, b, c, e>>) = 4
  OBVIOUS
<1>2. /\ <<a, b, c, e>>[1] = a /\ <<a, b, c, e>>[2] = b
      /\ <<a, b, c, e>>[3] = c /\ <<a, b, c, e>>[4] = e
  OBVIOUS
<1> QED BY <1>1, <1>2, Zenon

\* d are these seven bytes.
Seven(d, a1, a2, a3, a4, a5, a6, a7) ==
  /\ d \in Seq(Octets) /\ Len(d) = 7
  /\ d[1] = a1 /\ d[2] = a2 /\ d[3] = a3 /\ d[4] = a4
  /\ d[5] = a5 /\ d[6] = a6 /\ d[7] = a7

\* So are seven.
LEMMA SevenOctets ==
  ASSUME NEW a1 \in Octets, NEW a2 \in Octets, NEW a3 \in Octets, NEW a4 \in Octets,
         NEW a5 \in Octets, NEW a6 \in Octets, NEW a7 \in Octets
  PROVE  Seven(<<a1, a2, a3, a4, a5, a6, a7>>, a1, a2, a3, a4, a5, a6, a7)
BY DEF Seven

\* Bytes behind k others.
LEMMA AfterOthers ==
  ASSUME NEW d \in Seq(Octets), NEW e \in Seq(Octets), NEW k \in Nat, Len(d) = k
  PROVE  \E t \in Seq(Octets) :
           /\ t = Both(d, e) /\ Len(t) = k + Len(e)
           /\ \A i \in Int : i \in 1 .. k => t[i] = d[i]
           /\ \A i \in Int : i \in 1 .. Len(e) => t[k + i] = e[i]
<1>1. PICK t : t = d \o e
  OBVIOUS
<1>2. t \in Seq(Octets) /\ Len(t) = k + Len(e)
  BY <1>1, ConcatProperties
<1>3. \A i \in 1 .. k + Len(e) : t[i] = IF i <= k THEN d[i] ELSE e[i - k]
  BY <1>1, ConcatProperties
<1>4. \A i \in Int : i \in 1 .. k => t[i] = d[i]
  BY <1>3
<1>5. ASSUME NEW i \in Int, i \in 1 .. Len(e) PROVE t[k + i] = e[i]
  <2>1. k + i \in 1 .. k + Len(e) /\ ~(k + i <= k) /\ (k + i) - k = i
    BY <1>5
  <2> QED BY <1>3, <2>1
<1> QED BY <1>1, <1>2, <1>4, <1>5 DEF Both

\* Hours, minutes and seconds are one more on the wire.
LEMMA ByteAbove ==
  ASSUME NEW n \in 0 .. 59
  PROVE  \E a \in 0 .. 255 : a = n + 1 /\ a - 1 = n
<1>1. n + 1 \in 0 .. 255 /\ (n + 1) - 1 = n
  OBVIOUS
<1> QED BY <1>1

\* A byte by its number.
LEMMA ByteOctet ==
  ASSUME NEW n \in 0 .. 255
  PROVE  n \in Octets
BY NumbersOfOctets

\* The seven bytes of a date.
LEMMA DateShape ==
  ASSUME NEW m \in Moment
  PROVE  \E data \in Seq(Octets) : data = DateBytes(m) /\ Len(data) = 7 /\ Dated(data, m)
<1>11. PICK c, a1, a2 \in Int : YearParts(m.year, c, a1, a2)
  BY MomentParts, YearBack, Zenon
<1>1. /\ c = IF m.year >= 0 THEN m.year \div 100 ELSE -((-m.year) \div 100)
      /\ a1 = c + 100 /\ a2 = m.year - 100 * c + 100
      /\ a1 \in 0 .. 255 /\ a2 \in 0 .. 255
      /\ (a1 - 100) * 100 + (a2 - 100) = m.year
  BY <1>11, Zenon DEF YearParts
<1>2. PICK a3, a4 \in 0 .. 255 : a3 = m.month /\ a4 = m.day
  <2>1. m.month \in 0 .. 255 /\ m.day \in 0 .. 255
    BY MomentParts
  <2> QED BY <2>1
<1>3. m.hour \in 0 .. 59 /\ m.minute \in 0 .. 59 /\ m.second \in 0 .. 59
  BY MomentParts
<1>31. PICK a5 \in 0 .. 255 : a5 = m.hour + 1 /\ a5 - 1 = m.hour
  BY <1>3, ByteAbove
<1>32. PICK a6 \in 0 .. 255 : a6 = m.minute + 1 /\ a6 - 1 = m.minute
  BY <1>3, ByteAbove
<1>33. PICK a7 \in 0 .. 255 : a7 = m.second + 1 /\ a7 - 1 = m.second
  BY <1>3, ByteAbove
<1>4. /\ a1 \in Octets /\ a2 \in Octets /\ a3 \in Octets /\ a4 \in Octets
      /\ a5 \in Octets /\ a6 \in Octets /\ a7 \in Octets
  <2>1. a1 \in Octets /\ a2 \in Octets
    BY <1>1, ByteOctet, Zenon
  <2>2. a3 \in Octets /\ a4 \in Octets
    BY ByteOctet, Zenon
  <2>3. a5 \in Octets /\ a6 \in Octets /\ a7 \in Octets
    BY ByteOctet, Zenon
  <2> QED BY <2>1, <2>2, <2>3
<1>5. PICK data : data = <<a1, a2, a3, a4, a5, a6, a7>>
  OBVIOUS
<1>6. data = DateBytes(m)
  BY <1>1, <1>2, <1>31, <1>32, <1>33, <1>5 DEF DateBytes
<1>7. Seven(data, a1, a2, a3, a4, a5, a6, a7)
  BY <1>4, <1>5, SevenOctets, Zenon
<1>8. Dated(data, m)
  BY <1>1, <1>2, <1>31, <1>32, <1>33, <1>7 DEF Dated, Seven
<1> QED BY <1>6, <1>7, <1>8 DEF Seven

\* A longer string with the same first bytes stands for the same date.
LEMMA DatedAlike ==
  ASSUME NEW m, NEW d, NEW t, \A i \in Int : i \in 1 .. 7 => t[i] = d[i], Dated(d, m)
  PROVE  Dated(t, m)
BY DEF Dated

\* A timestamp's bytes: those of the date, of the nanoseconds and of the zone.
LEMMA DateAndTime ==
  ASSUME NEW m \in Moment
  PROVE  \E data \in Seq(Octets) :
           /\ data = Both(DateBytes(m), NanoBytes(m.micro * 1000))
           /\ Len(data) = 11
           /\ Dated(data, m)
           /\ (((data[8] * 256 + data[9]) * 256 + data[10]) * 256 + data[11]) \div 1000 = m.micro
<1>1. PICK d \in Seq(Octets) : d = DateBytes(m) /\ Len(d) = 7 /\ Dated(d, m)
  BY DateShape
<1>2. m.micro \in Micros
  BY MomentParts
<1>3. PICK n1, n2, n3, n4 \in Octets :
         /\ NanoBytes(m.micro * 1000) = <<n1, n2, n3, n4>>
         /\ (((n1 * 256 + n2) * 256 + n3) * 256 + n4) \div 1000 = m.micro
  BY <1>2, NanosBack
<1>4. PICK e \in Seq(Octets) : /\ e = <<n1, n2, n3, n4>> /\ Len(e) = 4
                               /\ e[1] = n1 /\ e[2] = n2 /\ e[3] = n3 /\ e[4] = n4
  BY FourOctets
<1>5. PICK k \in Nat : k = 7
  OBVIOUS
<1>6. PICK t \in Seq(Octets) :
         /\ t = Both(d, e) /\ Len(t) = k + Len(e)
         /\ \A i \in Int : i \in 1 .. k => t[i] = d[i]
         /\ \A i \in Int : i \in 1 .. Len(e) => t[k + i] = e[i]
  BY <1>1, <1>5, AfterOthers
<1>7. Len(t) = 11
  BY <1>4, <1>5, <1>6
<1>8. t[8] = n1 /\ t[9] = n2 /\ t[10] = n3 /\ t[11] = n4
  <2>1. k + 1 = 8 /\ k + 2 = 9 /\ k + 3 = 10 /\ k + 4 = 11
    BY <1>5
  <2>2. /\ 1 \in 1 .. Len(e) /\ 2 \in 1 .. Len(e)
        /\ 3 \in 1 .. Len(e) /\ 4 \in 1 .. Len(e)
    <3>1. Len(e) = 4
      BY <1>4
    <3> QED BY <3>1
  <2>3. t[k + 1] = e[1] /\ t[k + 2] = e[2] /\ t[k + 3] = e[3] /\ t[k + 4] = e[4]
    <3>1. \A i \in Int : i \in 1 .. Len(e) => t[k + i] = e[i]
      BY <1>6
    <3> QED BY <2>2, <3>1
  <2> QED BY <1>4, <2>1, <2>3
<1>9. Dated(t, m)
  BY <1>1, <1>5, <1>6, DatedAlike
<1>10. t = Both(DateBytes(m), NanoBytes(m.micro * 1000))
  BY <1>1, <1>3, <1>4, <1>6, Zenon
<1> QED BY <1>3, <1>7, <1>8, <1>9, <1>10

\* The eleven bytes of a timestamp and the thirteen of one with a zone.
LEMMA TimestampShape ==
  ASSUME NEW m \in Moment
  PROVE  \E data \in Seq(Octets) :
           /\ data = TimestampBytes(m, FALSE)
           /\ Len(data) >= 7 /\ Dated(data, m)
           /\ NanosIn(data) \div 1000 = m.micro /\ OffsetIn(data) = Naive
<1>1. PICK data \in Seq(Octets) :
         /\ data = Both(DateBytes(m), NanoBytes(m.micro * 1000))
         /\ Len(data) = 11
         /\ Dated(data, m)
         /\ (((data[8] * 256 + data[9]) * 256 + data[10]) * 256 + data[11]) \div 1000 = m.micro
  BY DateAndTime
<1>2. data = TimestampBytes(m, FALSE)
  <2>1. data \o <<>> = data
    BY ConcatEmptySeq
  <2> QED BY <1>1, <2>1 DEF TimestampBytes, Both
<1>3. NanosIn(data) \div 1000 = m.micro
  BY <1>1 DEF NanosIn
<1>4. OffsetIn(data) = Naive
  <2>1. Len(data) = 11
    BY <1>1
  <2>2. ~(Len(data) > 11) /\ ~(Len(data) > 12) /\ 0 * 60 + 0 = 0
    BY <2>1
  <2> QED BY <2>2 DEF OffsetIn
<1>5. Len(data) >= 7
  <2>1. Len(data) = 11
    BY <1>1
  <2> QED BY <2>1
<1>6. Dated(data, m)
  BY <1>1, Zenon
<1> QED BY <1>2, <1>3, <1>4, <1>5, <1>6, Zenon

\* The bytes of a timestamp with a time zone.
LEMMA ZonedShape ==
  ASSUME NEW m \in Moment
  PROVE  \E data \in Seq(Octets) :
           /\ data = TimestampBytes(m, TRUE)
           /\ Len(data) >= 7 /\ Dated(data, m)
           /\ NanosIn(data) \div 1000 = m.micro
           /\ Kept(m.offset) => OffsetIn(data) = KeptOffset(m.offset)
<1>1. PICK d \in Seq(Octets) :
         /\ d = Both(DateBytes(m), NanoBytes(m.micro * 1000))
         /\ Len(d) = 11
         /\ Dated(d, m)
         /\ (((d[8] * 256 + d[9]) * 256 + d[10]) * 256 + d[11]) \div 1000 = m.micro
  BY DateAndTime
<1>2. m.offset \in {Naive} \cup Offsets
  BY MomentParts
<1>3. PICK a, b \in Octets :
         /\ ZoneBytes(m.offset) = <<a, b>>
         /\ Kept(m.offset) => ReadOffset(a, b) = KeptOffset(m.offset)
  BY <1>2, ZoneBack
<1>4. PICK z \in Seq(Octets) : z = <<a, b>> /\ Len(z) = 2 /\ z[1] = a /\ z[2] = b
  BY TwoOctets
<1>5. PICK k \in Nat : k = 11
  OBVIOUS
<1>6. PICK data \in Seq(Octets) :
         /\ data = Both(d, z) /\ Len(data) = k + Len(z)
         /\ \A i \in Int : i \in 1 .. k => data[i] = d[i]
         /\ \A i \in Int : i \in 1 .. Len(z) => data[k + i] = z[i]
  <2>1. Len(d) = k
    BY <1>1, <1>5
  <2> QED BY <2>1, AfterOthers
<1>7. Len(data) = 13
  BY <1>4, <1>5, <1>6
<1>8. data[12] = a /\ data[13] = b
  <2>1. k + 1 = 12 /\ k + 2 = 13
    BY <1>5
  <2>2. 1 \in 1 .. Len(z) /\ 2 \in 1 .. Len(z)
    <3>1. Len(z) = 2
      BY <1>4
    <3> QED BY <3>1
  <2>3. data[k + 1] = z[1] /\ data[k + 2] = z[2]
    <3>1. \A i \in Int : i \in 1 .. Len(z) => data[k + i] = z[i]
      BY <1>6
    <3> QED BY <2>2, <3>1
  <2> QED BY <1>4, <2>1, <2>3
<1>9. data[8] = d[8] /\ data[9] = d[9] /\ data[10] = d[10] /\ data[11] = d[11]
  BY <1>5, <1>6
<1>10. \A i \in Int : i \in 1 .. 7 => data[i] = d[i]
  BY <1>5, <1>6
<1>11. Dated(data, m)
  BY <1>1, <1>10, DatedAlike
<1>12. NanosIn(data) = ((d[8] * 256 + d[9]) * 256 + d[10]) * 256 + d[11]
  BY <1>7, <1>9 DEF NanosIn
<1>13. NanosIn(data) \div 1000 = m.micro
  <2>1. (((d[8] * 256 + d[9]) * 256 + d[10]) * 256 + d[11]) \div 1000 = m.micro
    BY <1>1
  <2> QED BY <1>12, <2>1
<1>14. OffsetIn(data) = ReadOffset(a, b)
  BY <1>7, <1>8 DEF OffsetIn, ReadOffset
<1>15. data = TimestampBytes(m, TRUE)
  BY <1>1, <1>3, <1>4, <1>6 DEF TimestampBytes, Both
<1>16. Len(data) >= 7
  BY <1>7
<1>17. Kept(m.offset) => OffsetIn(data) = KeptOffset(m.offset)
  BY <1>3, <1>14, Zenon
<1> QED BY <1>11, <1>13, <1>15, <1>16, <1>17, Zenon

\* The three kinds of types of moments.
SameMoments(bind, type) ==
  \/ bind \in Dates /\ type \in Dates
  \/ bind \in Timestamps /\ type \in Timestamps
  \/ bind \in ZonedTimestamps /\ type \in ZonedTimestamps

\* A moment, bound as the type that it is read as.
MomentValue(f) ==
  /\ f.form.type \in Moments
  /\ f.kind = "bind" => SameMoments(f.form.bind, f.form.type)
  /\ f.value \in Moment

\* The types of moments have no other codec.
LEMMA MomentTypes ==
  ASSUME NEW type \in Moments
  PROVE  /\ type \notin ReadNumbers /\ type \notin BoundNumbers
         /\ type \notin ReadTexts /\ type \notin BoundTexts /\ type \notin Booleans
         /\ type \notin ReadRaws \cup Locators /\ type \notin BoundRaws
         /\ type \notin Floats /\ type \notin Doubles /\ type \notin Floats \cup Doubles
         /\ type \in Dates => type \notin Timestamps \cup ZonedTimestamps
         /\ type \in Timestamps => type \notin Dates \cup ZonedTimestamps
         /\ type \in ZonedTimestamps => type \notin Dates \cup Timestamps
         /\ type \in Dates \/ type \in Timestamps \/ type \in ZonedTimestamps
         /\ type \notin {1, 96} /\ type # 23
BY DEF Booleans, ReadNumbers, ReadTexts, ReadRaws, Locators, Moments, Dates, Timestamps,
       ZonedTimestamps, Floats, Doubles, BoundNumbers, BoundTexts, BoundRaws

\* The bytes of a moment, of each of the types.
MomentBytes(m, type) ==
  IF type \in Dates THEN DateBytes(m) ELSE TimestampBytes(m, type \in ZonedTimestamps)

\* The bytes of a bound moment.
LEMMA MomentValueBytes ==
  ASSUME NEW f, f.kind \in {"bind", "value"}, MomentValue(f), f.value # Null
  PROVE  ValueBytes(f) = MomentBytes(f.value, f.form.type)
<1>1. PICK m \in Moment : m = f.value
  BY DEF MomentValue
<1>2. PICK type \in Moments : type = f.form.type
  BY DEF MomentValue
<1>3. CASE f.kind = "bind"
  <2>1. PICK bind \in Moments : bind = f.form.bind /\ SameMoments(bind, type)
    BY <1>2, <1>3 DEF MomentValue, SameMoments, Moments
  <2>2. BoundBytes(f.value, bind, f.form.connCharset) = MomentBytes(f.value, bind)
    BY MomentTypes DEF BoundBytes, MomentBytes
  <2>3. MomentBytes(f.value, bind) = MomentBytes(f.value, type)
    <3>1. (bind \in Dates <=> type \in Dates) /\ (bind \in ZonedTimestamps <=> type \in ZonedTimestamps)
      BY <2>1, MomentTypes DEF SameMoments
    <3> QED BY <3>1 DEF MomentBytes
  <2> QED BY <1>2, <1>3, <2>1, <2>2, <2>3 DEF ValueBytes
<1>4. CASE f.kind = "value"
  <2>1. ColumnBytes(f.value, f.form) = MomentBytes(f.value, type)
    BY <1>2, MomentTypes DEF ColumnBytes, MomentBytes
  <2> QED BY <1>2, <1>4, <2>1 DEF ValueBytes
<1> QED BY <1>3, <1>4

\* What the types keep of a moment.
MicroOf(m, type) == IF type \in Dates THEN 0 ELSE m.micro
OffsetOf(m, type) == IF type \in ZonedTimestamps /\ m.offset # 0 THEN m.offset ELSE Naive

\* What is read of the bytes of a moment.
MomentRead(data, m, type) ==
  /\ Len(data) >= 7 /\ Dated(data, m)
  /\ NanosIn(data) \div 1000 = MicroOf(m, type)
  /\ Kept(m.offset) => OffsetIn(data) = OffsetOf(m, type)

\* Of each of the types, the bytes say what it keeps.
LEMMA MomentBack ==
  ASSUME NEW m \in Moment, NEW type \in Moments
  PROVE  \E data \in Seq(Octets) : data = MomentBytes(m, type) /\ MomentRead(data, m, type)
<1>1. CASE type \in Dates
  <2>1. PICK data \in Seq(Octets) : data = DateBytes(m) /\ Len(data) = 7 /\ Dated(data, m)
    BY DateShape
  <2>2. NanosIn(data) = 0
    <3>1. Len(data) <= 10
      BY <2>1
    <3> QED BY <3>1 DEF NanosIn
  <2>3. OffsetIn(data) = Naive
    <3>1. ~(Len(data) > 11) /\ ~(Len(data) > 12) /\ 0 * 60 + 0 = 0
      BY <2>1
    <3> QED BY <3>1 DEF OffsetIn
  <2>4. NanosIn(data) \div 1000 = MicroOf(m, type)
    BY <1>1, <2>2 DEF MicroOf
  <2>5. OffsetOf(m, type) = Naive
    BY <1>1, MomentTypes DEF OffsetOf
  <2>6. MomentRead(data, m, type)
    BY <2>1, <2>3, <2>4, <2>5 DEF MomentRead
  <2> QED BY <1>1, <2>1, <2>6 DEF MomentBytes
<1>2. CASE type \in Timestamps
  <2>1. type \notin Dates /\ type \notin ZonedTimestamps
    BY <1>2, MomentTypes
  <2>2. PICK data \in Seq(Octets) :
           /\ data = TimestampBytes(m, FALSE)
           /\ Len(data) >= 7 /\ Dated(data, m)
           /\ NanosIn(data) \div 1000 = m.micro /\ OffsetIn(data) = Naive
    BY TimestampShape
  <2>3. MicroOf(m, type) = m.micro /\ OffsetOf(m, type) = Naive
    BY <2>1 DEF MicroOf, OffsetOf
  <2>4. MomentRead(data, m, type)
    <3>1. Len(data) >= 7
      BY <2>2
    <3>2. Dated(data, m) /\ NanosIn(data) \div 1000 = MicroOf(m, type)
      BY <2>2, <2>3
    <3>3. Kept(m.offset) => OffsetIn(data) = OffsetOf(m, type)
      BY <2>2, <2>3
    <3> QED BY <3>1, <3>2, <3>3 DEF MomentRead
  <2>5. (type \in ZonedTimestamps) = FALSE
    BY <2>1
  <2>6. data = MomentBytes(m, type)
    BY <2>1, <2>2, <2>5 DEF MomentBytes
  <2> QED BY <2>4, <2>6
<1>3. CASE type \in ZonedTimestamps
  <2>1. type \notin Dates
    BY <1>3, MomentTypes
  <2>2. PICK data \in Seq(Octets) :
           /\ data = TimestampBytes(m, TRUE)
           /\ Len(data) >= 7 /\ Dated(data, m)
           /\ NanosIn(data) \div 1000 = m.micro
           /\ Kept(m.offset) => OffsetIn(data) = KeptOffset(m.offset)
    BY ZonedShape
  <2>3. MicroOf(m, type) = m.micro /\ OffsetOf(m, type) = KeptOffset(m.offset)
    BY <1>3, <2>1 DEF MicroOf, OffsetOf, KeptOffset
  <2>4. MomentRead(data, m, type)
    <3>1. Len(data) >= 7
      BY <2>2
    <3>2. Dated(data, m) /\ NanosIn(data) \div 1000 = MicroOf(m, type)
      BY <2>2, <2>3
    <3>3. Kept(m.offset) => OffsetIn(data) = OffsetOf(m, type)
      BY <2>2, <2>3
    <3> QED BY <3>1, <3>2, <3>3 DEF MomentRead
  <2>5. (type \in ZonedTimestamps) = TRUE
    BY <1>3
  <2>6. data = MomentBytes(m, type)
    BY <2>1, <2>2, <2>5 DEF MomentBytes
  <2> QED BY <2>4, <2>6
<1> QED BY <1>1, <1>2, <1>3 DEF Moments

\* A day of a month there is, and microseconds of a second.
LEMMA DayInMonth ==
  ASSUME NEW m \in Moment
  PROVE  m.day \in 1 .. DaysInMonth(m.year, m.month)
<1>1. PICK days : days = DaysInMonth(m.year, m.month)
  OBVIOUS
<1>2. days \in Nat
  BY <1>1 DEF DaysInMonth
<1>3. m.day \in 1 .. 31 /\ m.day <= days
  BY <1>1, MomentParts
<1>4. m.day \in 1 .. days
  BY <1>2, <1>3
<1> QED BY <1>1, <1>4

\* Microseconds are fewer than a million.
LEMMA MicroRange ==
  ASSUME NEW m \in Moment, NEW type
  PROVE  MicroOf(m, type) \in Nat /\ MicroOf(m, type) < 1000 * 1000
<1>1. m.micro \in Micros
  BY MomentParts
<1>2. m.micro \in Nat /\ m.micro < 1000 * 1000
  BY <1>1 DEF Micros
<1> QED BY <1>2 DEF MicroOf

\* The years that are read as they are.
LEMMA CommonEra ==
  ASSUME NEW y \in Years
  PROVE  y >= 1 /\ y <= 9999 <=> ~(y < 1)
BY DEF Years

\* decode_date raises for the years before 1, and for no other moment.
LEMMA MomentRaises ==
  ASSUME NEW m \in Moment, NEW type \in Moments,
         NEW data \in Seq(Octets), MomentRead(data, m, type)
  PROVE  Decodes(data, type) <=> ~(m.year < 1)
<1>1. PICK x : x = MomentIn(data)
  OBVIOUS
<1>2. /\ x.year = m.year /\ x.month = m.month /\ x.day = m.day /\ x.hour = m.hour
      /\ x.minute = m.minute /\ x.second = m.second /\ x.micro = MicroOf(m, type)
  BY <1>1 DEF MomentIn, MomentRead, Dated
<1>3. x.micro \in Nat /\ x.micro < 1000 * 1000
  BY <1>2, MicroRange
<1>4. x.day \in 1 .. DaysInMonth(x.year, x.month)
  BY <1>2, DayInMonth
<1>5. /\ x.month \in 1 .. 12 /\ x.hour \in 0 .. 23 /\ x.minute \in 0 .. 59
      /\ x.second \in 0 .. 59
  BY <1>2, MomentParts
<1>6. x.year >= 1 /\ x.year <= 9999 <=> ~(m.year < 1)
  <2>1. m.year \in Years
    BY MomentParts
  <2> QED BY <1>2, <2>1, CommonEra
<1>7. Representable(x) <=> ~(m.year < 1)
  BY <1>3, <1>4, <1>5, <1>6 DEF Representable
<1>8. Readable(type) /\ Len(data) >= 7
  BY DEF Readable, MomentRead
<1> QED BY <1>1, <1>7, <1>8 DEF Decodes

\* m with other microseconds and another offset.
Like(m, micro, offset) ==
  [year |-> m.year, month |-> m.month, day |-> m.day, hour |-> m.hour,
   minute |-> m.minute, second |-> m.second, micro |-> micro, offset |-> offset]

\* A moment with other microseconds and another offset.
LEMMA LikeMoment ==
  ASSUME NEW m \in Moment, NEW micro, NEW offset
  PROVE  [m EXCEPT !.micro = micro, !.offset = offset] = Like(m, micro, offset)
<1>1. [m EXCEPT !.micro = micro] = Like(m, micro, m.offset)
  BY DEF Moment, Like
<1>2. [Like(m, micro, m.offset) EXCEPT !.offset = offset] = Like(m, micro, offset)
  BY DEF Like
<1>3. [m EXCEPT !.micro = micro, !.offset = offset] =
        [[m EXCEPT !.micro = micro] EXCEPT !.offset = offset]
  OBVIOUS
<1>4. PICK x : x = [m EXCEPT !.micro = micro]
  OBVIOUS
<1>5. PICK y : y = Like(m, micro, m.offset)
  OBVIOUS
<1>6. x = y
  BY <1>1, <1>4, <1>5
<1>7. [x EXCEPT !.offset = offset] = [y EXCEPT !.offset = offset]
  BY <1>6
<1> QED BY <1>2, <1>3, <1>4, <1>5, <1>7

\* What is read is the moment, as far as its type keeps it.
LEMMA MomentKept ==
  ASSUME NEW m \in Moment, NEW type \in Moments,
         NEW data, MomentRead(data, m, type), Kept(m.offset)
  PROVE  MomentIn(data) = KeptMoment(m, type)
<1>1. MomentIn(data) = Like(m, MicroOf(m, type), OffsetOf(m, type))
  BY DEF MomentIn, MomentRead, Dated, Like
<1>2. KeptMoment(m, type) =
        [m EXCEPT !.micro = MicroOf(m, type), !.offset = OffsetOf(m, type)]
  BY DEF KeptMoment, MicroOf, OffsetOf
<1> QED BY <1>1, <1>2, LikeMoment

\* So moments are faithful.
LEMMA MomentFaithful ==
  ASSUME NEW f, f.kind \in {"bind", "value"}, session.big \in BOOLEAN, MomentValue(f)
  PROVE  Faithful(f)
<1>1. PICK type \in Moments : type = f.form.type
  BY DEF MomentValue
<1>2. ~Absent(f.form)
  BY <1>1, MomentTypes DEF Absent
<1>3. CASE f.value = Null
  BY <1>2, <1>3, NullFaithful
<1>4. CASE f.value # Null
  <2>1. PICK m \in Moment : m = f.value
    BY DEF MomentValue
  <2>2. PICK data \in Seq(Octets) : data = MomentBytes(m, type) /\ MomentRead(data, m, type)
    BY MomentBack
  <2>3. ValueBytes(f) = data
    BY <1>1, <1>4, <2>1, <2>2, MomentValueBytes
  <2>4. Decodes(data, type) <=> ~(m.year < 1)
    BY <2>2, MomentRaises
  <2>5. GetRaises(f) <=> ~Decodes(data, type)
    BY <1>1, <1>4, <2>1, <2>4 DEF GetRaises
  <2>6. Decode(data, f.form) = MomentIn(data)
    BY <1>1, MomentTypes DEF Decode
  <2>7. Kept(m.offset) => MomentIn(data) = KeptMoment(m, type)
    BY <2>2, MomentKept
  <2>8. SameValue(MomentIn(data), f.value, f.form)
    BY <1>1, <1>2, <1>4, <2>1, <2>7, MomentTypes DEF SameValue
  <2>9. data # <<>>
    BY <2>2 DEF MomentRead
  <2>10. Carried(f, data)
    BY <1>1, <1>4, <2>3, <2>5, <2>6, <2>8, <2>9 DEF Carried, Decoding
  <2> QED BY <1>2, <2>10, ValueFaithful
<1> QED BY <1>3, <1>4

-----------------------------------------------------------------------------
(* Messages of such fields.                                                *)

\* Values, bound or of a column: none, one that cannot be bound, and those of
\* every type but texts.
PlainValue(f) ==
  \/ f.kind = "value" /\ Absent(f.form)
  \/ f.kind = "bind" /\ f.value # Null /\ ~Bindable(f.form.bind)
  \/ /\ ~Absent(f.form)
     /\ f.value = Null \/ BytesValue(f) \/ TruthValue(f) \/ NumberValue(f) \/ MomentValue(f)

\* Fields whose round trip is proved.
PlainField(f) ==
  \/ IntegerField(f)
  \/ f.kind = "clr" /\ f.value \in Seq(Octets)
  \/ KeyValField(f)
  \/ f.kind \in {"bind", "value"} /\ PlainValue(f)

\* Messages of such fields, in whatever order.
PlainFields ==
  /\ session.big \in BOOLEAN
  /\ Len(fields) \in Nat \ {0} /\ DOMAIN fields = 1 .. Len(fields)
  /\ \A i \in 1 .. Len(fields) : PlainField(fields[i])

\* So all of them are faithful.
LEMMA PlainValuesFaithful ==
  ASSUME ByteLimit, NEW f, f.kind \in {"bind", "value"}, session.big \in BOOLEAN, PlainValue(f)
  PROVE  Faithful(f)
BY AbsentFaithful, UnboundFaithful, NullFaithful, BytesFaithful, TruthFaithful,
   NumberFaithful, MomentFaithful DEF PlainValue

\* Every plain field is faithful.
LEMMA PlainFaithfuls ==
  ASSUME ByteLimit, PlainFields
  PROVE  Faithfuls
<1>1. ASSUME NEW f, PlainField(f), session.big \in BOOLEAN PROVE Faithful(f)
  BY <1>1, IntegersFaithful, ClrFaithful, KeyValFaithful, PlainValuesFaithful DEF PlainField
<1> QED BY <1>1 DEF PlainFields, Faithfuls

\* Such fields are got as they were put, as far as their types keep them and
\* numbers that are no integers of 64 bits as floats, whatever the settings of
\* the session and however many fields there are; exceptions are raised for what
\* PutRaises and GetRaises name, and for nothing else.
THEOREM PlainFieldsRoundTrip ==
  ASSUME ByteLimit
  PROVE  Spec => [](PlainFields => RoundTrips)
<1>1. Ordered => (PlainFields => RoundTrips)
  BY PlainFaithfuls DEF Ordered
<1> QED BY <1>1, AlwaysOrdered, PTL

\* Fitting fields up to all of them are fitting up to each.
LEMMA FittingFewer ==
  ASSUME NEW n \in Nat, NEW k \in Nat, k <= n, FittingUpTo(n)
  PROVE  FittingUpTo(k)
BY DEF FittingUpTo

\* How far getting is.
LEMMA GotUpTo ==
  ASSUME Faithfuls, Placed
  PROVE  Len(got) \in Nat /\ Len(got) <= Len(fields) /\ Len(fields) \in Nat
<1>1. PICK S : got \in Seq(S)
  BY DEF Placed
<1>2. Len(got) \in Nat
  BY <1>1
<1>3. PICK n \in Nat : n = Len(fields)
  BY DEF Faithfuls
<1>4. put \in 0 .. n /\ Len(got) <= put
  BY <1>3 DEF Placed
<1> QED BY <1>2, <1>3, <1>4

\* Reading such fields stays in step with writing them.
THEOREM PlainFieldsInStep ==
  ASSUME ByteLimit
  PROVE  Spec => [](PlainFields => InStep)
<1>1. ASSUME Ordered, PlainFields, pc \in {"getting", "done"}, FittingUpTo(Len(fields))
      PROVE  wire = FlattenSeq([i \in 1 .. Len(fields) - Len(got) |-> Bytes(fields[Len(got) + i])])
  <2>1. Faithfuls /\ Placed
    BY <1>1, PlainFaithfuls DEF Ordered
  <2>2. PICK n, g \in Nat : n = Len(fields) /\ g = Len(got) /\ g <= n
    BY <2>1, GotUpTo
  <2>3. FittingUpTo(g)
    BY <1>1, <2>2, FittingFewer
  <2>4. wire = BytesBehind(g)
    BY <1>1, <2>1, <2>2, <2>3 DEF Placed
  <2>5. wire = FlattenSeq([i \in 1 .. n - g |-> Strung[g + i]])
    BY <2>2, <2>4 DEF BytesBehind, Stretch
  <2>6. ASSUME NEW i \in 1 .. n - g PROVE Strung[g + i] = Bytes(fields[g + i])
    <3>1. g + i \in 1 .. n
      BY <2>2
    <3> QED BY <2>2, <3>1 DEF Strung
  <2>7. [i \in 1 .. n - g |-> Strung[g + i]] = [i \in 1 .. n - g |-> Bytes(fields[g + i])]
    BY <2>6
  <2> QED BY <2>2, <2>5, <2>7
<1>2. Ordered => (PlainFields => InStep)
  BY <1>1 DEF InStep
<1> QED BY <1>2, AlwaysOrdered, PTL

\* What is on the wire are bytes, and no more is got than was put.
THEOREM PlainFieldsTypeOK ==
  ASSUME ByteLimit
  PROVE  Spec => [](PlainFields /\ FittingUpTo(Len(fields)) => TypeOK)
<1>1. ASSUME Ordered, PlainFields, FittingUpTo(Len(fields)) PROVE TypeOK
  <2>1. Faithfuls /\ Placed
    BY <1>1, PlainFaithfuls DEF Ordered
  <2>2. PICK n, g \in Nat : n = Len(fields) /\ g = Len(got) /\ g <= n
    BY <2>1, GotUpTo
  <2>3. FittingUpTo(g)
    BY <1>1, <2>2, FittingFewer
  <2>4. wire \in Seq(Octets)
    BY <2>1, <2>2, <2>3 DEF Placed
  <2>5. \A i \in DOMAIN wire : wire[i] \in Octets
    BY <2>4
  <2>6. Octets = 0 .. Byte - 1
    BY DEF Octets, Byte
  <2> QED BY <2>1, <2>5, <2>6 DEF TypeOK, Placed
<1>2. Ordered => (PlainFields /\ FittingUpTo(Len(fields)) => TypeOK)
  BY <1>1
<1> QED BY <1>2, AlwaysOrdered, PTL

-----------------------------------------------------------------------------
(* The logon: what the server reads of it.                                 *)

\* What the server reads of a logon, from each of its parts on.
FromPairs(s, n, user, big) ==
  Then(GotPairs(s, n, big), LAMBDA pairs, rest : Got([user |-> user, pairs |-> pairs], rest))

FromUser(s, named, n, big) ==
  Then(IF named = 1 THEN GetClr(s, big) ELSE Got(<<>>, s), LAMBDA user, rest :
    FromPairs(rest, n, user, big))

FromFields(s, named, big) ==
  Then(GetFields(s, <<"int", "byte", "int", "byte", "byte">>, big), LAMBDA f, rest :
    FromUser(rest, named, f[3], big))

FromLength(s, named, big) ==
  Then(GetField(s, "int", big), LAMBDA length, rest : FromFields(rest, named, big))

FromNamed(s, big) == Then(GetByte(s), LAMBDA named, rest : FromLength(rest, named, big))

\* Each part reads what it does, and leaves the rest to the next one: the code
\* of the message,
LEMMA TakeLogonFrom ==
  ASSUME NEW s, NEW big, NEW code, NEW t, GetBytes(s, 3) = Got(code, t)
  PROVE  TakeLogon(s, big) = FromNamed(t, big)
<1>1. TakeLogon(s, big) = Then(GetBytes(s, 3), LAMBDA c, rest : FromNamed(rest, big))
  BY DEF TakeLogon, GotPairs, FromNamed, FromLength, FromFields, FromUser, FromPairs, Then, Got
<1>2. GetBytes(s, 3).ok /\ GetBytes(s, 3).rest = t
  BY DEF Got
<1> QED BY <1>1, <1>2 DEF Then

\* whether there is a name,
LEMMA FromNamedIs ==
  ASSUME NEW s, NEW big, NEW named, NEW t, GetByte(s) = Got(named, t)
  PROVE  FromNamed(s, big) = FromLength(t, named, big)
<1>1. GetByte(s).ok /\ GetByte(s).value = named /\ GetByte(s).rest = t
  BY DEF Got
<1> QED BY <1>1 DEF FromNamed, Then

\* its length,
LEMMA FromLengthIs ==
  ASSUME NEW s, NEW big, NEW named, NEW v, NEW t, GetField(s, "int", big) = Got(v, t)
  PROVE  FromLength(s, named, big) = FromFields(t, named, big)
<1>1. GetField(s, "int", big).ok /\ GetField(s, "int", big).rest = t
  BY DEF Got
<1> QED BY <1>1 DEF FromLength, Then

\* the numbers in front of it,
LEMMA FromFieldsIs ==
  ASSUME NEW s, NEW big, NEW named, NEW f, NEW t,
         GetFields(s, <<"int", "byte", "int", "byte", "byte">>, big) = Got(f, t)
  PROVE  FromFields(s, named, big) = FromUser(t, named, f[3], big)
<1>1. PICK g : g = GetFields(s, <<"int", "byte", "int", "byte", "byte">>, big)
  OBVIOUS
<1>2. g.ok /\ g.value = f /\ g.rest = t
  BY <1>1 DEF Got
<1>3. FromFields(s, named, big)
        = IF g.ok THEN FromUser(g.rest, named, (g.value)[3], big) ELSE g
  BY <1>1 DEF FromFields, Then
<1> QED BY <1>2, <1>3

\* the name,
LEMMA FromUserIs ==
  ASSUME NEW s, NEW big, NEW named, NEW n, NEW user, NEW t,
         (IF named = 1 THEN GetClr(s, big) ELSE Got(<<>>, s)) = Got(user, t)
  PROVE  FromUser(s, named, n, big) = FromPairs(t, n, user, big)
<1>1. PICK g : g = IF named = 1 THEN GetClr(s, big) ELSE Got(<<>>, s)
  OBVIOUS
<1>2. g.ok /\ g.value = user /\ g.rest = t
  BY <1>1 DEF Got
<1>3. FromUser(s, named, n, big) = IF g.ok THEN FromPairs(g.rest, n, g.value, big) ELSE g
  BY <1>1 DEF FromUser, Then
<1> QED BY <1>2, <1>3

\* and the keys with values.
LEMMA FromPairsIs ==
  ASSUME NEW s, NEW big, NEW n, NEW user, NEW pairs, NEW t, GotPairs(s, n, big) = Got(pairs, t)
  PROVE  FromPairs(s, n, user, big) = Got([user |-> user, pairs |-> pairs], t)
<1>1. PICK g : g = GotPairs(s, n, big)
  OBVIOUS
<1>2. g.ok /\ g.value = pairs /\ g.rest = t
  BY <1>1 DEF Got
<1>3. FromPairs(s, n, user, big)
        = IF g.ok THEN Got([user |-> user, pairs |-> g.value], g.rest) ELSE g
  BY <1>1 DEF FromPairs, Then
<1> QED BY <1>2, <1>3

\* Sequences that are put together from their parts.
LEMMA TwoAsOne ==
  ASSUME NEW a, NEW b
  PROVE  <<a>> \o <<b>> = <<a, b>>
<1>1. Append(<<a>>, b) = <<a>> \o <<b>>
  BY AppendIsConcat, <<a>> \in Seq({a, b}), b \in {a, b}
<1> QED BY <1>1, FromOne

\* A fourth value,
LEMMA FromThree ==
  ASSUME NEW v, NEW w, NEW x, NEW y
  PROVE  Append(<<v, w, x>>, y) = <<v, w, x, y>>
<1>1. PICK S : S = {v, w, x, y}
  OBVIOUS
<1>2. PICK b, c : b = <<v, w, x>> /\ c = <<v, w, x, y>>
  OBVIOUS
<1>3. b \in Seq(S) /\ y \in S /\ c \in Seq(S) /\ Len(b) = 3 /\ Len(c) = 4
  BY <1>1, <1>2
<1>4. PICK a \in Seq(S) :
         /\ a = Append(b, y) /\ Len(a) = Len(b) + 1 /\ a[Len(b) + 1] = y
         /\ \A i \in 1 .. Len(b) : a[i] = b[i]
  <2>1. b \in Seq(S) /\ y \in S
    BY <1>3
  <2>2. /\ Append(b, y) \in Seq(S) /\ Len(Append(b, y)) = Len(b) + 1
        /\ \A i \in 1 .. Len(b) : Append(b, y)[i] = b[i]
        /\ Append(b, y)[Len(b) + 1] = y
    BY <2>1, AppendProperties
  <2> QED BY <2>2, Zenon
<1>5. /\ Len(a) = 4 /\ a[4] = y
      /\ a[1] = b[1] /\ a[2] = b[2] /\ a[3] = b[3]
  BY <1>3, <1>4
<1>6. b[1] = v /\ b[2] = w /\ b[3] = x
  BY <1>2
<1>7. c[1] = v /\ c[2] = w /\ c[3] = x /\ c[4] = y
  BY <1>2
<1>8. \A i \in 1 .. Len(a) : a[i] = c[i]
  <2>1. \A i \in 1 .. 4 : i = 1 \/ i = 2 \/ i = 3 \/ i = 4
    OBVIOUS
  <2> QED BY <1>5, <1>6, <1>7, <2>1
<1>9. Len(a) = Len(c)
  BY <1>3, <1>5
<1>10. a = c
  BY <1>3, <1>4, <1>8, <1>9, SeqEqual, Zenon
<1> QED BY <1>2, <1>4, <1>10, Zenon

\* and a fifth.
LEMMA FromFour ==
  ASSUME NEW v, NEW w, NEW x, NEW y, NEW z
  PROVE  Append(<<v, w, x, y>>, z) = <<v, w, x, y, z>>
<1>1. PICK S : S = {v, w, x, y, z}
  OBVIOUS
<1>2. PICK b, c : b = <<v, w, x, y>> /\ c = <<v, w, x, y, z>>
  OBVIOUS
<1>3. b \in Seq(S) /\ z \in S /\ c \in Seq(S) /\ Len(b) = 4 /\ Len(c) = 5
  BY <1>1, <1>2
<1>4. PICK a \in Seq(S) :
         /\ a = Append(b, z) /\ Len(a) = Len(b) + 1 /\ a[Len(b) + 1] = z
         /\ \A i \in 1 .. Len(b) : a[i] = b[i]
  <2>1. b \in Seq(S) /\ z \in S
    BY <1>3
  <2>2. /\ Append(b, z) \in Seq(S) /\ Len(Append(b, z)) = Len(b) + 1
        /\ \A i \in 1 .. Len(b) : Append(b, z)[i] = b[i]
        /\ Append(b, z)[Len(b) + 1] = z
    BY <2>1, AppendProperties
  <2> QED BY <2>2, Zenon
<1>5. /\ Len(a) = 5 /\ a[5] = z
      /\ a[1] = b[1] /\ a[2] = b[2] /\ a[3] = b[3] /\ a[4] = b[4]
  BY <1>3, <1>4
<1>6. b[1] = v /\ b[2] = w /\ b[3] = x /\ b[4] = y
  BY <1>2
<1>7. c[1] = v /\ c[2] = w /\ c[3] = x /\ c[4] = y /\ c[5] = z
  BY <1>2
<1>8. \A i \in 1 .. Len(a) : a[i] = c[i]
  <2>1. \A i \in 1 .. 5 : i = 1 \/ i = 2 \/ i = 3 \/ i = 4 \/ i = 5
    OBVIOUS
  <2> QED BY <1>5, <1>6, <1>7, <2>1
<1>9. Len(a) = Len(c)
  BY <1>3, <1>5
<1>10. a = c
  BY <1>3, <1>4, <1>8, <1>9, SeqEqual, Zenon
<1> QED BY <1>2, <1>4, <1>10, Zenon

\* The name's flag and length.
LEMMA LengthPart ==
  ASSUME NEW S, Octets \subseteq S, NEW big, NEW user, user = <<>> \/ Len(user) \in 1 .. MaxShort
  PROVE  \E x \in Octets, l \in Seq(S), v \in Nat :
           /\ (IF user # <<>> THEN <<1>> \o PutInt(Len(user), 4, TRUE, TRUE) ELSE <<0, 0>>)
                = Both(<<x>>, l)
           /\ x = 1 <=> user # <<>>
           /\ FieldRead(S, l, "int", v, big)
<1>1. CASE user = <<>>
  <2>1. PICK l \in Seq(Octets) :
          /\ l = <<Len(<<>>)>> \o <<>>
          /\ \A r \in Seq(S), size \in Nat :
               GetInt(Both(l, r), size, TRUE, TRUE) = Got(FromBigEndian(<<>>), r)
    <3>1. <<>> \in Seq(Octets) /\ Len(<<>>) <= WordBytes
      BY WidthAssumption
    <3> QED BY <3>1, SizedInFront
  <2>2. FieldRead(S, l, "int", 0, big)
    <3>1. ASSUME NEW r \in Seq(S) PROVE GetField(Both(l, r), "int", big) = Got(0, r)
      <4>1. GetInt(Both(l, r), 8, TRUE, TRUE) = Got(0, r)
        BY <2>1, NothingToSum
      <4> QED BY <4>1 DEF GetField
    <3> QED BY <3>1 DEF FieldRead
  <2>3. PICK x \in Octets : x = 0
    <3>1. 0 \in Octets
      BY NumbersOfOctets
    <3> QED BY <3>1
  <2>4. Both(<<x>>, l) = <<0, 0>>
    <3>1. l = << 0 >>
      BY <2>1
    <3>2. << 0 >> \o << 0 >> = <<0, 0>>
      BY TwoAsOne
    <3> QED BY <2>3, <3>1, <3>2 DEF Both
  <2>5. l \in Seq(S) /\ x # 1
    BY <2>3, BytesToo
  <2> QED BY <1>1, <2>2, <2>4, <2>5
<1>2. CASE user # <<>>
  <2>1. PICK n \in Nat : n = Len(user) /\ n \in 1 .. MaxShort
    BY <1>2
  <2>2. Short(n)
    <3>1. n \in 1 .. MaxShort
      BY <2>1
    <3>2. n <= 252
      BY <3>1 DEF MaxShort
    <3> QED BY <3>2, SMT DEF Short
  <2>3. PICK l \in Seq(S) : l = PutInt(n, 4, TRUE, TRUE) /\ FieldRead(S, l, "int", n, big)
    BY <2>2, SmallItem
  <2>4. PICK x \in Octets : x = 1
    <3>1. 1 \in Octets
      BY NumbersOfOctets
    <3> QED BY <3>1
  <2>5. <<1>> \o PutInt(Len(user), 4, TRUE, TRUE) = Both(<<x>>, l)
    BY <2>1, <2>3, <2>4 DEF Both
  <2> QED BY <1>2, <2>3, <2>4, <2>5
<1> QED BY <1>1, <1>2

\* The numbers in front of the name.
Numbered(i, j) == Both(Both(Both(Both(i, <<1>>), j), <<1>>), <<1>>)

NumbersRead(S, b, mode, count, big) ==
  \A r \in Seq(S) : GetFields(Both(b, r), <<"int", "byte", "int", "byte", "byte">>, big)
                       = Got(<<mode, 1, count, 1, 1>>, r)

\* They are read as they were written.
LEMMA NumbersPart ==
  ASSUME NEW S, Octets \subseteq S, NEW big,
         NEW mode \in Nat, Short(mode), NEW count \in Nat, Short(count)
  PROVE  \E i \in Seq(S), j \in Seq(S) :
           /\ i = PutUint(mode, 4, TRUE, TRUE) /\ j = PutUint(count, 4, TRUE, TRUE)
           /\ Numbered(i, j) \in Seq(S) /\ NumbersRead(S, Numbered(i, j), mode, count, big)
<1>1. PICK i \in Seq(S) : i = PutUint(mode, 4, TRUE, TRUE) /\ FieldRead(S, i, "int", mode, big)
  BY SmallItem
<1>2. PICK j \in Seq(S) : j = PutUint(count, 4, TRUE, TRUE) /\ FieldRead(S, j, "int", count, big)
  BY SmallItem
<1>3. PICK o \in Seq(S) : o = <<1>> /\ FieldRead(S, o, "byte", 1, big)
  <2>1. 1 \in Octets
    BY NumbersOfOctets
  <2>2. <<1>> \in Seq(S) /\ FieldRead(S, <<1>>, "byte", 1, big)
    BY <2>1, OctetItem
  <2> QED BY <2>2
<1>4. PICK kinds : kinds = <<"int", "byte", "int", "byte", "byte">>
  OBVIOUS
<1>5. /\ kinds[0 + 1] = "int" /\ kinds[1 + 1] = "byte" /\ kinds[2 + 1] = "int"
      /\ kinds[3 + 1] = "byte" /\ kinds[4 + 1] = "byte" /\ Len(kinds) = 5
  BY <1>4
<1>6. FieldsRead(S, i, kinds, 1, <<mode>>, big)
  <2>1. FieldsRead(S, <<>>, kinds, 0, <<>>, big)
    BY NoFields
  <2>2. FieldsRead(S, Both(<<>>, i), kinds, 0 + 1, Append(<<>>, mode), big)
    BY <1>1, <1>5, <2>1, EmptyString, NextField
  <2> QED BY <2>2, EmptyFirst, FromNothing
<1>7. PICK b2 \in Seq(S) : b2 = Both(i, o)
  BY JoinBytes
<1>8. FieldsRead(S, b2, kinds, 2, <<mode, 1>>, big)
  <2>1. FieldsRead(S, Both(i, o), kinds, 1 + 1, Append(<<mode>>, 1), big)
    BY <1>3, <1>5, <1>6, NextField
  <2>2. Append(<<mode>>, 1) = <<mode, 1>> /\ 1 + 1 = 2
    BY FromOne
  <2> QED BY <1>7, <2>1, <2>2
<1>9. PICK b3 \in Seq(S) : b3 = Both(b2, j)
  BY JoinBytes
<1>10. FieldsRead(S, b3, kinds, 3, <<mode, 1, count>>, big)
  <2>1. FieldsRead(S, Both(b2, j), kinds, 2 + 1, Append(<<mode, 1>>, count), big)
    BY <1>2, <1>5, <1>8, NextField
  <2>2. Append(<<mode, 1>>, count) = <<mode, 1, count>> /\ 2 + 1 = 3
    BY FromTwo
  <2> QED BY <1>9, <2>1, <2>2
<1>11. PICK b4 \in Seq(S) : b4 = Both(b3, o)
  BY JoinBytes
<1>12. FieldsRead(S, b4, kinds, 4, <<mode, 1, count, 1>>, big)
  <2>1. FieldsRead(S, Both(b3, o), kinds, 3 + 1, Append(<<mode, 1, count>>, 1), big)
    BY <1>3, <1>5, <1>10, NextField
  <2>2. Append(<<mode, 1, count>>, 1) = <<mode, 1, count, 1>> /\ 3 + 1 = 4
    BY FromThree
  <2> QED BY <1>11, <2>1, <2>2
<1>13. PICK b5 \in Seq(S) : b5 = Both(b4, o)
  BY JoinBytes
<1>14. FieldsRead(S, b5, kinds, 5, <<mode, 1, count, 1, 1>>, big)
  <2>1. FieldsRead(S, Both(b4, o), kinds, 4 + 1, Append(<<mode, 1, count, 1>>, 1), big)
    BY <1>3, <1>5, <1>12, NextField
  <2>2. Append(<<mode, 1, count, 1>>, 1) = <<mode, 1, count, 1, 1>> /\ 4 + 1 = 5
    BY FromFour
  <2> QED BY <1>13, <2>1, <2>2
<1>15. Numbered(i, j) = b5
  BY <1>3, <1>7, <1>9, <1>11, <1>13 DEF Numbered
<1>16. ASSUME NEW r \in Seq(S)
       PROVE  GetFields(Both(b5, r), kinds, big) = Got(<<mode, 1, count, 1, 1>>, r)
  <2>1. PICK n \in Nat : n = Len(kinds)
    BY <1>5
  <2>2. FieldsRead(S, b5, kinds, n, <<mode, 1, count, 1, 1>>, big)
    <3>1. n = 5
      BY <1>5, <2>1
    <3> QED BY <1>14, <3>1
  <2> QED BY <2>1, <2>2, FieldsReadIs
<1>17. NumbersRead(S, Numbered(i, j), mode, count, big)
  BY <1>4, <1>15, <1>16 DEF NumbersRead
<1>18. Numbered(i, j) \in Seq(S)
  BY <1>15
<1> QED BY <1>1, <1>2, <1>17, <1>18, Zenon

\* A logon that the server reads: a short name, and keys with values.
LogonParts(S, user, pairs) ==
  /\ user \in Seq(Octets) /\ (user = <<>> \/ Len(user) \in 1 .. MaxShort)
  /\ pairs \in Seq({pairs[i] : i \in DOMAIN pairs})
  /\ Short(Len(pairs)) /\ \A i \in DOMAIN pairs : TokenPair(S, pairs[i])

\* What the client joins from the left the server reads from the right.
LEMMA NumbersTogether ==
  ASSUME NEW S, NEW q \in Seq(S), NEW i \in Seq(S), NEW o \in Seq(S), NEW j \in Seq(S)
  PROVE  Both(Both(Both(Both(q, i), o), j), Both(o, o))
           = Both(q, Both(Both(Both(Both(i, o), j), o), o))
<1>1. PICK io \in Seq(S) : io = Both(i, o)
  BY JoinBytes
<1>2. PICK ioj \in Seq(S) : ioj = Both(io, j)
  BY JoinBytes
<1>3. PICK oo \in Seq(S) : oo = Both(o, o)
  BY JoinBytes
<1>4. Both(Both(q, i), o) = Both(q, Both(i, o))
  BY JoinTogether
<1>5. Both(Both(q, io), j) = Both(q, Both(io, j))
  BY JoinTogether
<1>6. Both(Both(q, ioj), oo) = Both(q, Both(ioj, oo))
  BY JoinTogether
<1>7. Both(Both(ioj, o), o) = Both(ioj, Both(o, o))
  BY JoinTogether
<1> QED BY <1>1, <1>2, <1>3, <1>4, <1>5, <1>6, <1>7, Zenon

\* The same of four parts.
LEMMA RestTogether ==
  ASSUME NEW S, NEW h \in Seq(S), NEW u \in Seq(S), NEW p \in Seq(S), NEW r \in Seq(S)
  PROVE  Both(Both(Both(h, u), p), r) = Both(h, Both(u, Both(p, r)))
<1>1. PICK hu \in Seq(S) : hu = Both(h, u)
  BY JoinBytes
<1>2. PICK pr \in Seq(S) : pr = Both(p, r)
  BY JoinBytes
<1>3. Both(Both(hu, p), r) = Both(hu, Both(p, r))
  BY JoinTogether
<1>4. Both(Both(h, u), pr) = Both(h, Both(u, pr))
  BY JoinTogether
<1> QED BY <1>1, <1>2, <1>3, <1>4, Zenon

\* What is in front of the user, as the client joins it.
LEMMA FrontBytes ==
  ASSUME NEW S, NEW c \in Seq(S), NEW x \in Seq(S), NEW l \in Seq(S), NEW i \in Seq(S),
         NEW o \in Seq(S), NEW j \in Seq(S)
  PROVE  Both(Both(Both(Both(Both(c, Both(x, l)), i), o), j), Both(o, o)) \in Seq(S)
<1>1. PICK d \in Seq(S) : d = Both(x, l)
  BY JoinBytes, Zenon
<1>2. PICK d1 \in Seq(S) : d1 = Both(c, d)
  BY JoinBytes, Zenon
<1>3. PICK d2 \in Seq(S) : d2 = Both(d1, i)
  BY JoinBytes, Zenon
<1>4. PICK d3 \in Seq(S) : d3 = Both(d2, o)
  BY JoinBytes, Zenon
<1>5. PICK d4 \in Seq(S) : d4 = Both(d3, j)
  BY JoinBytes, Zenon
<1>6. PICK e \in Seq(S) : e = Both(o, o)
  BY JoinBytes, Zenon
<1>7. Both(d4, e) \in Seq(S)
  BY JoinBytes, Zenon
<1> QED BY <1>1, <1>2, <1>3, <1>4, <1>5, <1>6, <1>7, Zenon

\* The server reads the logon that the client wrote, and nothing behind it.
LEMMA LogonBack ==
  ASSUME NEW S, Octets \subseteq S, NEW big, NEW user, NEW pairs, LogonParts(S, user, pairs)
  PROVE  \E b \in Seq(S) :
           /\ b = WriteLogon(user, pairs, big)
           /\ \A r \in Seq(S) :
                TakeLogon(Both(b, r), big) = Got([user |-> user, pairs |-> pairs], r)
<1>a. PICK P : pairs \in Seq(P)
  BY DEF LogonParts
<1>1. PICK n \in Nat : n = Len(pairs) /\ Short(n)
  BY <1>a DEF LogonParts
<1>2. \A i \in 1 .. n : TokenPair(S, pairs[i])
  BY <1>a, <1>1 DEF LogonParts
<1>3. user \in Seq(S) /\ (user = <<>> \/ Len(user) \in 1 .. MaxShort)
  BY BytesToo DEF LogonParts
<1>4. PICK y \in Octets, l \in Seq(S), v \in Nat :
        /\ (IF user # <<>> THEN <<1>> \o PutInt(Len(user), 4, TRUE, TRUE) ELSE <<0, 0>>)
             = Both(<<y>>, l)
        /\ y = 1 <=> user # <<>>
        /\ FieldRead(S, l, "int", v, big)
  BY <1>3, LengthPart
<1>5. PICK mode \in Nat :
        mode = NoNewPassword + (IF user # <<>> THEN UserAndPassword ELSE 0) /\ Short(mode)
  BY SMT DEF NoNewPassword, UserAndPassword, Short
<1>6. PICK i \in Seq(S), j \in Seq(S) :
        /\ i = PutUint(mode, 4, TRUE, TRUE) /\ j = PutUint(n, 4, TRUE, TRUE)
        /\ Numbered(i, j) \in Seq(S) /\ NumbersRead(S, Numbered(i, j), mode, n, big)
  <2>1. Short(mode) /\ Short(n)
    BY <1>1, <1>5
  <2> QED BY <2>1, NumbersPart, Zenon
<1>7. PICK p \in Seq(S) :
        p = PairsPut(pairs, big) /\ PairsRead(S, p, n, pairs, big)
  <2>1. PairsPut(pairs, big) \in Seq(S) /\ PairsRead(S, PairsPut(pairs, big), n, pairs, big)
    BY <1>a, <1>1, <1>2, PairsBack
  <2> QED BY <2>1, Zenon
<1>8. PICK u \in Seq(S) :
        /\ u = If(user # <<>>, PutClr(user, big))
        /\ \A r \in Seq(S) :
             (IF y = 1 THEN GetClr(Both(u, r), big) ELSE Got(<<>>, Both(u, r))) = Got(user, r)
  <2>1. CASE user = <<>>
    <3>1. \A r \in Seq(S) : Both(<<>>, r) = r
      BY EmptyFirst
    <3>2. <<>> \in Seq(S) /\ y # 1
      BY <1>4, <2>1
    <3> QED BY <2>1, <3>1, <3>2 DEF If
  <2>2. CASE user # <<>>
    <3>1. PICK b \in Seq(S) : /\ b = PutClr(user, big)
                              /\ \A r \in Seq(S) : GetClr(Both(b, r), big) = Got(user, r)
      BY <1>3, <2>2, ShortString
    <3> QED BY <1>4, <2>2, <3>1 DEF If
  <2> QED BY <2>1, <2>2
<1>9. PICK x \in Seq(S) : x = <<y>> /\ \A r \in Seq(S) : GetByte(Both(x, r)) = Got(y, r)
  <2>1. <<y>> \in Seq(S) /\ \A r \in Seq(S) : GetByte(Both(<<y>>, r)) = Got(y, r)
    BY OctetItem
  <2> QED BY <2>1
<1>10. PICK c \in Seq(S) :
         c = <<3, 115, 0>> /\ \A r \in Seq(S) : GetBytes(Both(c, r), 3) = Got(c, r)
  <2>1. 3 \in Octets /\ 115 \in Octets /\ 0 \in Octets
    BY NumbersOfOctets
  <2>2. PICK c \in Seq(Octets) : c = <<3, 115, 0>> /\ Len(c) = 3
    <3>1. <<3, 115, 0>> \in Seq(Octets) /\ Len(<<3, 115, 0>>) = 3
      BY <2>1
    <3> QED BY <3>1
  <2>3. c \in Seq(S)
    BY BytesToo
  <2>4. ASSUME NEW r \in Seq(S) PROVE GetBytes(Both(c, r), 3) = Got(c, r)
    <3>1. PICK t : t = Both(c, r)
      OBVIOUS
    <3>2. Len(t) = 3 + Len(r) /\ SubSeq(t, 1, 3) = c /\ SubSeq(t, 3 + 1, Len(t)) = r
      <4>1. /\ Len(c \o r) = Len(c) + Len(r) /\ SubSeq(c \o r, 1, Len(c)) = c
            /\ SubSeq(c \o r, Len(c) + 1, Len(c \o r)) = r
        BY <2>3, FrontAndOthers
      <4>2. Len(c) = 3
        BY <2>2
      <4> QED BY <3>1, <4>1, <4>2 DEF Both
    <3>3. 3 \in 0 .. Len(t)
      BY <3>2
    <3> QED BY <3>1, <3>2, <3>3 DEF GetBytes
  <2> QED BY <2>2, <2>3, <2>4
<1>11. PICK o \in Seq(S) : o = <<1>>
  <2>1. 1 \in Octets
    BY NumbersOfOctets
  <2>2. <<1>> \in Seq(S)
    BY <2>1, OctetItem, Zenon
  <2> QED BY <2>2
<1>12. PICK b : b = Both(Both(Both(Both(Both(Both(Both(c, Both(x, l)), i), o), j),
                                   Both(o, o)), u), p)
  OBVIOUS
<1>13. b \in Seq(S)
  <2>1. PICK h \in Seq(S) : h = Both(Both(Both(Both(Both(c, Both(x, l)), i), o), j), Both(o, o))
    BY FrontBytes, Zenon
  <2>2. PICK d \in Seq(S) : d = Both(h, u)
    BY JoinBytes, Zenon
  <2>3. Both(d, p) \in Seq(S)
    BY JoinBytes, Zenon
  <2> QED BY <1>12, <2>1, <2>2, <2>3, Zenon
<1>14. b = WriteLogon(user, pairs, big)
  <2>1. <<1, 1>> = Both(o, o)
    BY <1>11, TwoAsOne DEF Both
  <2>2. b = Both(Both(Both(Both(Both(Both(Both(<<3, 115, 0>>, Both(<<y>>, l)),
                 PutUint(mode, 4, TRUE, TRUE)), <<1>>), PutUint(n, 4, TRUE, TRUE)),
                 <<1, 1>>), u), p)
    BY <1>6, <1>9, <1>10, <1>11, <1>12, <2>1
  <2>3. p = FlattenSeq([k \in DOMAIN pairs |->
                 PutKeyVal(pairs[k][1], pairs[k][2], pairs[k][3], big)])
    BY <1>7 DEF PairsPut, PutPair
  <2> QED BY <1>1, <1>4, <1>5, <1>8, <2>2, <2>3, Zenon DEF WriteLogon, Both
<1>15. ASSUME NEW r \in Seq(S)
       PROVE  TakeLogon(Both(b, r), big) = Got([user |-> user, pairs |-> pairs], r)
  <2>1. PICK t1 \in Seq(S) : t1 = Both(p, r)
    BY JoinBytes, Zenon
  <2>2. PICK t2 \in Seq(S) : t2 = Both(u, t1)
    BY JoinBytes, Zenon
  <2>3. PICK t3 \in Seq(S) : t3 = Both(Numbered(i, j), t2)
    BY <1>6, JoinBytes
  <2>4. PICK t4 \in Seq(S) : t4 = Both(l, t3)
    BY JoinBytes, Zenon
  <2>5. PICK t5 \in Seq(S) : t5 = Both(x, t4)
    BY JoinBytes, Zenon
  <2>6. PICK t6 \in Seq(S) : t6 = Both(c, t5)
    BY JoinBytes, Zenon
  <2>7. Both(b, r) = t6
    <3>1. PICK f \in Seq(S) : f = Numbered(i, j)
      BY <1>6
    <3>2. PICK q \in Seq(S) : q = Both(c, Both(x, l))
      <4>1. PICK d \in Seq(S) : d = Both(x, l)
        BY JoinBytes, Zenon
      <4> QED BY <4>1, JoinBytes, Zenon
    <3>3. Both(Both(Both(Both(q, i), o), j), Both(o, o)) = Both(q, f)
      <4>1. f = Both(Both(Both(Both(i, o), j), o), o)
        BY <1>11, <3>1 DEF Numbered
      <4>2. Both(Both(Both(Both(q, i), o), j), Both(o, o))
              = Both(q, Both(Both(Both(Both(i, o), j), o), o))
        BY NumbersTogether, SMTT(30)
      <4> QED BY <4>1, <4>2, Zenon
    <3>4. PICK h \in Seq(S) : h = Both(q, f)
      BY JoinBytes, Zenon
    <3>5. Both(Both(Both(h, u), p), r) = Both(h, t2)
      <4>1. PICK hu \in Seq(S) : hu = Both(h, u)
        BY JoinBytes, Zenon
      <4>2. Both(Both(hu, p), r) = Both(hu, Both(p, r))
        BY JoinTogether, SMTT(30)
      <4>3. Both(Both(h, u), t1) = Both(h, Both(u, t1))
        BY JoinTogether, SMTT(30)
      <4> QED BY <2>1, <2>2, <4>1, <4>2, <4>3, Zenon
    <3>6. Both(Both(q, f), t2) = Both(q, Both(f, t2))
      BY JoinTogether, SMTT(30)
    <3>7. Both(q, t3) = Both(c, Both(x, Both(l, t3)))
      <4>1. PICK xl \in Seq(S) : xl = Both(x, l)
        BY JoinBytes, Zenon
      <4>2. Both(Both(c, xl), t3) = Both(c, Both(xl, t3))
        BY JoinTogether, SMTT(30)
      <4>3. Both(Both(x, l), t3) = Both(x, Both(l, t3))
        BY JoinTogether, SMTT(30)
      <4> QED BY <3>2, <4>1, <4>2, <4>3, Zenon
    <3>8. Both(b, r) = Both(h, t2)
      BY <1>12, <3>2, <3>3, <3>4, <3>5, Zenon
    <3>9. Both(h, t2) = Both(q, t3)
      BY <2>3, <3>1, <3>4, <3>6, Zenon
    <3>10. Both(c, Both(x, Both(l, t3))) = t6
      BY <2>4, <2>5, <2>6, Zenon
    <3> QED BY <3>7, <3>8, <3>9, <3>10, Zenon
  <2>8. TakeLogon(t6, big) = FromNamed(t5, big)
    BY <1>10, <2>6, TakeLogonFrom
  <2>9. FromNamed(t5, big) = FromLength(t4, y, big)
    <3>1. GetByte(t5) = Got(y, t4)
      BY <1>9, <2>5
    <3> QED BY <3>1, FromNamedIs
  <2>10. FromLength(t4, y, big) = FromFields(t3, y, big)
    <3>1. GetField(t4, "int", big) = Got(v, t3)
      BY <1>4, <2>4 DEF FieldRead
    <3> QED BY <3>1, FromLengthIs
  <2>11. FromFields(t3, y, big) = FromUser(t2, y, n, big)
    <3>1. PICK f : f = <<mode, 1, n, 1, 1>>
      OBVIOUS
    <3>2. GetFields(t3, <<"int", "byte", "int", "byte", "byte">>, big) = Got(f, t2)
      BY <1>6, <2>3, <3>1 DEF NumbersRead
    <3>3. f[3] = n
      BY <3>1
    <3>4. FromFields(t3, y, big) = FromUser(t2, y, f[3], big)
      BY <3>2, FromFieldsIs
    <3> QED BY <3>3, <3>4
  <2>12. FromUser(t2, y, n, big) = FromPairs(t1, n, user, big)
    BY <1>8, <2>2, FromUserIs
  <2>13. FromPairs(t1, n, user, big) = Got([user |-> user, pairs |-> pairs], r)
    <3>1. GotPairs(t1, n, big) = Got(pairs, r)
      BY <1>7, <2>1 DEF PairsRead
    <3> QED BY <3>1, FromPairsIs
  <2> QED BY <2>7, <2>8, <2>9, <2>10, <2>11, <2>12, <2>13
<1> QED BY <1>13, <1>14, <1>15

-----------------------------------------------------------------------------
(* The logon: its keys and values.                                         *)

\* The two pairs that every logon begins with.
SecretPairs(key, encKey, password) ==
  <<<<<<"AUTH_SESSKEY">>, <<Box(key, ClientKey)>>, 1>>,
    <<<<"AUTH_PASSWORD">>, <<Box(encKey, [text |-> password])>>, 0>>>>

SpeedyPairs(encKey, speedy) ==
  <<<<<<"AUTH_PBKDF2_SPEEDY_KEY">>, <<Box(encKey, [speedy |-> speedy])>>, 0>>>>

AboutPairs ==
  [i \in DOMAIN About |->
     <<<<About[i]>>, <<"text">>, IF About[i] = "AUTH_ALTER_SESSION" THEN 1 ELSE 0>>]

ProxyPairs == <<<<<<"PROXY_CLIENT_NAME">>, <<"text">>, 0>>>>

\* The keys of a client.
ClientsKey(user, password, c, customHash) ==
  PasswordEncKey(Open(PasswordKey(user, password, c), c.sessKey[1].box), ClientKey, c, customHash)

\* The pairs of a logon, in their order.
LEMMA LogonPairsAre ==
  ASSUME NEW user, NEW password, NEW c, NEW customHash, NEW proxy
  PROVE  LogonPairs(user, password, c, customHash, proxy)
           = Both(Both(Both(SecretPairs(PasswordKey(user, password, c),
                                        ClientsKey(user, password, c, customHash), password),
                            If(c.verifier = Verifier12c,
                               SpeedyPairs(ClientsKey(user, password, c, customHash),
                                           SpeedyKey(password, c)))),
                       AboutPairs), If(proxy, ProxyPairs))
BY DEF LogonPairs, SecretPairs, SpeedyPairs, AboutPairs, ProxyPairs, ClientsKey, SessionKeyBox, Both

\* The pairs of tokens of S.
PairSet(S) == {<<<<k>>, <<v>>, num>> : k \in S, v \in S, num \in {0, 1}}

\* What is one of them, and what one of them is.
LEMMA PairSetIs ==
  ASSUME NEW S, NEW k \in S, NEW v \in S, NEW num \in {0, 1}
  PROVE  <<<<k>>, <<v>>, num>> \in PairSet(S)
BY DEF PairSet

\* Members of the set are such pairs.
LEMMA PairSetPairs ==
  ASSUME NEW S, NEW p \in PairSet(S)
  PROVE  TokenPair(S, p)
BY DEF PairSet, TokenPair

\* Short strings of them.
ShortPairs(S, n, q) == q \in Seq(PairSet(S)) /\ Len(q) <= n

\* Each part of a logon has few of them: the secrets two,
LEMMA SecretsShort ==
  ASSUME NEW S, NEW key, NEW encKey, NEW password,
         "AUTH_SESSKEY" \in S, "AUTH_PASSWORD" \in S,
         Box(key, ClientKey) \in S, Box(encKey, [text |-> password]) \in S
  PROVE  ShortPairs(S, 2, SecretPairs(key, encKey, password))
<1>1. PICK x \in S, y \in S : x = Box(key, ClientKey) /\ y = Box(encKey, [text |-> password])
  OBVIOUS
<1>2. PICK p \in PairSet(S) : p = <<<<"AUTH_SESSKEY">>, <<x>>, 1>>
  BY PairSetIs
<1>3. PICK q \in PairSet(S) : q = <<<<"AUTH_PASSWORD">>, <<y>>, 0>>
  BY PairSetIs
<1>4. SecretPairs(key, encKey, password) = <<p, q>>
  BY <1>1, <1>2, <1>3 DEF SecretPairs
<1>5. <<p, q>> \in Seq(PairSet(S)) /\ Len(<<p, q>>) = 2
  OBVIOUS
<1> QED BY <1>4, <1>5 DEF ShortPairs

\* the key of a 12c verifier one,
LEMMA SpeedyShort ==
  ASSUME NEW S, NEW encKey, NEW speedy, "AUTH_PBKDF2_SPEEDY_KEY" \in S,
         Box(encKey, [speedy |-> speedy]) \in S
  PROVE  ShortPairs(S, 1, SpeedyPairs(encKey, speedy))
<1>1. PICK x \in S : x = Box(encKey, [speedy |-> speedy])
  OBVIOUS
<1>2. PICK p \in PairSet(S) : p = <<<<"AUTH_PBKDF2_SPEEDY_KEY">>, <<x>>, 0>>
  BY PairSetIs
<1>3. SpeedyPairs(encKey, speedy) = <<p>>
  BY <1>1, <1>2 DEF SpeedyPairs
<1>4. <<p>> \in Seq(PairSet(S)) /\ Len(<<p>>) = 1
  OBVIOUS
<1> QED BY <1>3, <1>4 DEF ShortPairs

\* the name of a proxy one,
LEMMA ProxyShort ==
  ASSUME NEW S, "PROXY_CLIENT_NAME" \in S, "text" \in S
  PROVE  ShortPairs(S, 1, ProxyPairs)
<1>1. PICK p \in PairSet(S) : p = <<<<"PROXY_CLIENT_NAME">>, <<"text">>, 0>>
  BY PairSetIs
<1>2. ProxyPairs = <<p>>
  BY <1>1 DEF ProxyPairs
<1>3. <<p>> \in Seq(PairSet(S)) /\ Len(<<p>>) = 1
  OBVIOUS
<1> QED BY <1>2, <1>3 DEF ShortPairs

\* and what the client tells of itself twelve.
LEMMA AboutShort ==
  ASSUME NEW S, \A i \in DOMAIN About : About[i] \in S, "text" \in S
  PROVE  ShortPairs(S, 12, AboutPairs)
<1>1. DOMAIN About = 1 .. 12
  BY DEF About
<1>2. ASSUME NEW i \in 1 .. 12 PROVE AboutPairs[i] \in PairSet(S)
  <2>1. PICK k \in S : k = About[i]
    BY <1>1
  <2>2. PICK num \in {0, 1} : num = IF k = "AUTH_ALTER_SESSION" THEN 1 ELSE 0
    OBVIOUS
  <2>3. AboutPairs[i] = <<<<k>>, <<"text">>, num>>
    BY <1>1, <2>1, <2>2 DEF AboutPairs
  <2> QED BY <2>3, PairSetIs
<1>3. AboutPairs = [i \in 1 .. 12 |-> AboutPairs[i]]
  BY <1>1 DEF AboutPairs
<1>4. PICK n \in Nat : n = 12
  OBVIOUS
<1>5. AboutPairs \in [1 .. n -> PairSet(S)]
  BY <1>2, <1>3, <1>4
<1>6. AboutPairs \in Seq(PairSet(S)) /\ Len(AboutPairs) = n
  BY <1>5
<1> QED BY <1>4, <1>6 DEF ShortPairs

\* Parts put together have as many as both,
LEMMA JoinedShort ==
  ASSUME NEW S, NEW n \in Nat, NEW m \in Nat, NEW q, NEW r, ShortPairs(S, n, q), ShortPairs(S, m, r)
  PROVE  ShortPairs(S, n + m, Both(q, r))
<1>1. q \in Seq(PairSet(S)) /\ r \in Seq(PairSet(S)) /\ Len(q) <= n /\ Len(r) <= m
  BY DEF ShortPairs
<1>2. q \o r \in Seq(PairSet(S)) /\ Len(q \o r) = Len(q) + Len(r)
  BY <1>1, FrontAndOthers
<1>3. Len(q) \in Nat /\ Len(r) \in Nat
  BY <1>1
<1> QED BY <1>1, <1>2, <1>3 DEF ShortPairs, Both

\* and a part that is left out has none.
LEMMA MaybeShort ==
  ASSUME NEW S, NEW n \in Nat, NEW b, NEW q, b => ShortPairs(S, n, q)
  PROVE  ShortPairs(S, n, If(b, q))
<1>1. ShortPairs(S, n, <<>>)
  <2>1. <<>> \in Seq(PairSet(S)) /\ Len(<<>>) = 0
    OBVIOUS
  <2> QED BY <2>1 DEF ShortPairs
<1>2. CASE b
  BY <1>2 DEF If
<1>3. CASE ~b
  BY <1>1, <1>3 DEF If
<1> QED BY <1>2, <1>3

\* So a logon has at most 16 pairs of tokens, the secrets first.
LEMMA PairsOfLogon ==
  ASSUME NEW user, NEW password, NEW c, NEW customHash, NEW proxy
  PROVE  \E S, r :
           /\ Octets \subseteq S /\ ShortPairs(S, 16, LogonPairs(user, password, c, customHash, proxy))
           /\ LogonPairs(user, password, c, customHash, proxy)
                = Both(SecretPairs(PasswordKey(user, password, c),
                                   ClientsKey(user, password, c, customHash), password), r)
           /\ r \in Seq(PairSet(S))
<1>1. PICK key, encKey, speedy :
        /\ key = PasswordKey(user, password, c)
        /\ encKey = ClientsKey(user, password, c, customHash)
        /\ speedy = SpeedyKey(password, c)
  OBVIOUS
<1>2. PICK S : S = Octets \cup {About[i] : i \in DOMAIN About}
                     \cup {"AUTH_SESSKEY", "AUTH_PASSWORD", "AUTH_PBKDF2_SPEEDY_KEY",
                           "PROXY_CLIENT_NAME", "text"}
                     \cup {Box(key, ClientKey), Box(encKey, [text |-> password]),
                           Box(encKey, [speedy |-> speedy])}
  OBVIOUS
<1>3. /\ "AUTH_SESSKEY" \in S /\ "AUTH_PASSWORD" \in S /\ "AUTH_PBKDF2_SPEEDY_KEY" \in S
      /\ "PROXY_CLIENT_NAME" \in S /\ "text" \in S /\ Octets \subseteq S
      /\ \A i \in DOMAIN About : About[i] \in S
      /\ Box(key, ClientKey) \in S /\ Box(encKey, [text |-> password]) \in S
      /\ Box(encKey, [speedy |-> speedy]) \in S
  BY <1>2
<1>4. PICK q1, q2, q3, q4 :
        /\ q1 = SecretPairs(key, encKey, password)
        /\ q2 = If(c.verifier = Verifier12c, SpeedyPairs(encKey, speedy))
        /\ q3 = AboutPairs /\ q4 = If(proxy, ProxyPairs)
  OBVIOUS
<1>5. LogonPairs(user, password, c, customHash, proxy) = Both(Both(Both(q1, q2), q3), q4)
  BY <1>1, <1>4, LogonPairsAre
<1>6. ShortPairs(S, 2, q1)
  BY <1>3, <1>4, SecretsShort
<1>7. ShortPairs(S, 1, q2)
  BY <1>3, <1>4, SpeedyShort, MaybeShort
<1>8. ShortPairs(S, 12, q3)
  BY <1>3, <1>4, AboutShort
<1>9. ShortPairs(S, 1, q4)
  BY <1>3, <1>4, ProxyShort, MaybeShort
<1>10. ShortPairs(S, 2 + 1, Both(q1, q2))
  BY <1>6, <1>7, JoinedShort
<1>11. ShortPairs(S, 2 + 1 + 12, Both(Both(q1, q2), q3))
  <2>1. 2 + 1 \in Nat
    OBVIOUS
  <2> QED BY <1>8, <1>10, <2>1, JoinedShort
<1>12. ShortPairs(S, 2 + 1 + 12 + 1, Both(Both(Both(q1, q2), q3), q4))
  <2>1. 2 + 1 + 12 \in Nat
    OBVIOUS
  <2> QED BY <1>9, <1>11, <2>1, JoinedShort
<1>13. 2 + 1 + 12 + 1 = 16
  OBVIOUS
<1>14. PICK r \in Seq(PairSet(S)) : Both(Both(Both(q1, q2), q3), q4) = Both(q1, r)
  <2>1. /\ q1 \in Seq(PairSet(S)) /\ q2 \in Seq(PairSet(S)) /\ q3 \in Seq(PairSet(S))
        /\ q4 \in Seq(PairSet(S))
    BY <1>6, <1>7, <1>8, <1>9 DEF ShortPairs
  <2>2. PICK r4 \in Seq(PairSet(S)) : r4 = Both(q3, q4)
    BY <2>1, JoinBytes
  <2>3. PICK r \in Seq(PairSet(S)) : r = Both(q2, r4)
    BY <2>1, JoinBytes
  <2>4. Both(Both(Both(q1, q2), q3), q4) = Both(q1, Both(q2, Both(q3, q4)))
    BY <2>1, RestTogether
  <2> QED BY <2>2, <2>3, <2>4
<1> QED BY <1>1, <1>3, <1>4, <1>5, <1>12, <1>13, <1>14

\* They are read as they were written.
LEMMA PartsOfPairs ==
  ASSUME NEW S, NEW pairs, ShortPairs(S, 16, pairs), NEW user, user \in Seq(Octets),
         user = <<>> \/ Len(user) \in 1 .. MaxShort
  PROVE  LogonParts(S, user, pairs)
<1>1. pairs \in Seq(PairSet(S)) /\ Len(pairs) <= 16
  BY DEF ShortPairs
<1>2. Short(Len(pairs))
  <2>1. PICK n \in Nat : n = Len(pairs)
    BY <1>1
  <2>2. n <= 16 => Short(n)
    BY SMT DEF Short
  <2> QED BY <1>1, <2>1, <2>2
<1>3. \A i \in DOMAIN pairs : TokenPair(S, pairs[i])
  BY <1>1, PairSetPairs
<1>4. pairs \in Seq({pairs[i] : i \in DOMAIN pairs})
  BY <1>1
<1> QED BY <1>2, <1>3, <1>4 DEF LogonParts

\* What the server opens is in the first two.
LEMMA FirstTwoPairs ==
  ASSUME NEW user, NEW password, NEW c, NEW customHash, NEW proxy
  PROVE  LET pairs == LogonPairs(user, password, c, customHash, proxy) IN
         /\ pairs[1][2][1] = Box(PasswordKey(user, password, c), ClientKey)
         /\ pairs[2][2][1] = Box(ClientsKey(user, password, c, customHash), [text |-> password])
<1>1. PICK key, encKey : /\ key = PasswordKey(user, password, c)
                         /\ encKey = ClientsKey(user, password, c, customHash)
  OBVIOUS
<1>2. PICK S, q1 : /\ q1 = SecretPairs(key, encKey, password) /\ q1 \in Seq(S) /\ Len(q1) = 2
                   /\ q1[1][2][1] = Box(key, ClientKey)
                   /\ q1[2][2][1] = Box(encKey, [text |-> password])
  <2>1. PICK x, y, S : /\ x = Box(key, ClientKey) /\ y = Box(encKey, [text |-> password])
                       /\ S = {<<<<"AUTH_SESSKEY">>, <<x>>, 1>>, <<<<"AUTH_PASSWORD">>, <<y>>, 0>>}
    OBVIOUS
  <2>2. PICK q : q = <<<<<<"AUTH_SESSKEY">>, <<x>>, 1>>, <<<<"AUTH_PASSWORD">>, <<y>>, 0>>>>
    OBVIOUS
  <2>3. q \in Seq(S) /\ Len(q) = 2 /\ q[1][2][1] = x /\ q[2][2][1] = y
    BY <2>1, <2>2
  <2>4. q = SecretPairs(key, encKey, password)
    BY <2>1, <2>2 DEF SecretPairs
  <2> QED BY <2>1, <2>3, <2>4
<1>3. PICK T, r : /\ r \in Seq(T)
                  /\ LogonPairs(user, password, c, customHash, proxy) = Both(q1, r)
  BY <1>1, <1>2, PairsOfLogon
<1>4. Both(q1, r)[1] = q1[1] /\ Both(q1, r)[2] = q1[2]
  <2>1. 1 <= Len(q1) /\ 2 <= Len(q1)
    BY <1>2
  <2>2. PICK U : q1 \in Seq(U) /\ r \in Seq(U)
    <3>1. q1 \in Seq(S \cup T) /\ r \in Seq(S \cup T)
      BY <1>2, <1>3
    <3> QED BY <3>1
  <2>3. \A i \in 1 .. Len(q1) + Len(r) : (q1 \o r)[i] = IF i <= Len(q1) THEN q1[i] ELSE r[i - Len(q1)]
    BY <2>2, ConcatProperties
  <2>4. Len(r) \in Nat
    BY <1>3
  <2>5. PICK m \in Nat, n \in Nat : m = Len(r) /\ n = 2 + m /\ n = Len(q1) + Len(r)
    BY <1>2, <2>4
  <2>6. 1 \in 1 .. n /\ 2 \in 1 .. n
    BY <2>5
  <2>7. (q1 \o r)[1] = q1[1]
    BY <2>1, <2>3, <2>5, <2>6
  <2>8. (q1 \o r)[2] = q1[2]
    BY <2>1, <2>3, <2>5, <2>6
  <2> QED BY <2>7, <2>8 DEF Both
<1> QED BY <1>1, <1>2, <1>3, <1>4

-----------------------------------------------------------------------------
(* The logon: who is let in.                                               *)

\* Names that the server takes for the same: case does not count for the oldest verifier.
SameNames(c, x, y) ==
  (IF c.verifier = Verifier5x THEN Upper(x) ELSE x) = (IF c.verifier = Verifier5x THEN Upper(y) ELSE y)

\* Strings that begin alike and are the same end alike.
LEMMA SameEnds ==
  ASSUME NEW S, NEW a \in Seq(S), NEW b \in Seq(S), NEW c \in Seq(S), a \o b = a \o c
  PROVE  b = c
<1>1. PICK k \in Nat, m \in Nat, n \in Nat : k = Len(a) /\ m = Len(b) /\ n = Len(c)
  OBVIOUS
<1>2. Len(a \o b) = k + m /\ \A i \in 1 .. k + m : (a \o b)[i] = IF i <= k THEN a[i] ELSE b[i - k]
  BY <1>1, ConcatProperties
<1>3. Len(a \o c) = k + n /\ \A i \in 1 .. k + n : (a \o c)[i] = IF i <= k THEN a[i] ELSE c[i - k]
  BY <1>1, ConcatProperties
<1>4. m = n
  <2>1. k + m = k + n
    BY <1>2, <1>3
  <2> QED BY <2>1
<1>5. ASSUME NEW i \in 1 .. m PROVE b[i] = c[i]
  <2>1. PICK j \in 1 .. k + m : j = k + i
    OBVIOUS
  <2>2. ~(j <= k) /\ j - k = i
    BY <2>1
  <2>3. (a \o b)[j] = b[i]
    BY <1>2, <2>1, <2>2
  <2>4. (a \o c)[j] = c[i]
    BY <1>3, <1>4, <2>1, <2>2
  <2> QED BY <2>3, <2>4
<1> QED BY <1>1, <1>4, <1>5, SeqEqual

\* A name in upper case is one.
LEMMA UpperString ==
  ASSUME NEW name \in Seq(Octets)
  PROVE  Upper(name) \in Seq(Int)
<1>1. PICK n \in Nat : name \in [1 .. n -> Octets]
  <2>1. Len(name) \in Nat /\ name \in [1 .. Len(name) -> Octets]
    OBVIOUS
  <2> QED BY <2>1
<1>2. ASSUME NEW i \in 1 .. n PROVE name[i] \in Int
  <2>1. PICK x \in Octets : x = name[i]
    BY <1>1
  <2>2. x \in Int
    BY DEF Octets
  <2> QED BY <2>1, <2>2
<1>3. Upper(name) \in [1 .. n -> Int]
  BY <1>1, <1>2 DEF Upper
<1> QED BY <1>3

\* The keys of two passwords are the same if and only if the passwords are.
LEMMA SameKeys ==
  ASSUME NEW c, c.verifier \in Verifiers, NEW user \in Seq(Octets),
         NEW x \in Seq(Octets), NEW y \in Seq(Octets)
  PROVE  PasswordKey(user, x, c) = PasswordKey(user, y, c) <=> SameNames(c, x, y)
<1>1. CASE c.verifier = Verifier5x
  <2>1. /\ PasswordKey(user, x, c) = <<"des", Upper(user) \o Upper(x)>>
        /\ PasswordKey(user, y, c) = <<"des", Upper(user) \o Upper(y)>>
    BY <1>1 DEF PasswordKey, Verifier5x, Verifier11g, Verifier12c
  <2>2. PICK a \in Seq(Int), b \in Seq(Int), d \in Seq(Int) :
          a = Upper(user) /\ b = Upper(x) /\ d = Upper(y)
    BY UpperString
  <2>3. a \o b = a \o d <=> b = d
    BY SameEnds
  <2>4. <<"des", a \o b>> = <<"des", a \o d>> <=> a \o b = a \o d
    <3>1. PICK v, w : v = a \o b /\ w = a \o d
      OBVIOUS
    <3> QED BY <3>1
  <2>5. SameNames(c, x, y) <=> b = d
    BY <1>1, <2>2 DEF SameNames
  <2> QED BY <2>1, <2>2, <2>3, <2>4, <2>5, Zenon
<1>2. CASE c.verifier = Verifier11g
  <2>1. /\ PasswordKey(user, x, c) = <<"sha1", x, c.salt>>
        /\ PasswordKey(user, y, c) = <<"sha1", y, c.salt>>
    BY <1>2 DEF PasswordKey, Verifier5x, Verifier11g, Verifier12c
  <2> QED BY <1>2, <2>1 DEF SameNames, Verifier5x, Verifier11g
<1>3. CASE c.verifier = Verifier12c
  <2>1. /\ PasswordKey(user, x, c) = <<"sha512", <<"speedy", x, c.salt, c.vgen>>, c.salt>>
        /\ PasswordKey(user, y, c) = <<"sha512", <<"speedy", y, c.salt, c.vgen>>, c.salt>>
    BY <1>3 DEF PasswordKey, SpeedyKey, Verifier5x, Verifier11g, Verifier12c
  <2> QED BY <1>3, <2>1 DEF SameNames, Verifier5x, Verifier12c
<1> QED BY <1>1, <1>2, <1>3 DEF Verifiers

\* What another key opens is none of the secrets, and holds no text.
LEMMA NoiseIs ==
  ASSUME NEW key, NEW other, key # other, NEW content
  PROVE  /\ Open(key, Box(other, content)) # ClientKey /\ Open(key, Box(other, content)) # ServerKey
         /\ "text" \notin DOMAIN Open(key, Box(other, content))
<1>1. PICK noise : noise = [noise |-> key, of |-> Box(other, content)]
  OBVIOUS
<1>2. Open(key, Box(other, content)) = noise
  BY <1>1 DEF Open, Box
<1>3. DOMAIN noise = {"noise", "of"}
  BY <1>1
<1>4. DOMAIN ClientKey = {"secret"} /\ DOMAIN ServerKey = {"secret"}
  BY DEF ClientKey, ServerKey
<1>5. "secret" \notin {"noise", "of"} /\ "text" \notin {"noise", "of"}
  OBVIOUS
<1> QED BY <1>2, <1>3, <1>4, <1>5

\* The key of a box opens it.
LEMMA OpenedIs ==
  ASSUME NEW key, NEW content
  PROVE  Open(key, Box(key, content)) = content
BY DEF Open, Box

\* Both sides have the same key only if both have the other's secret.
LEMMA DifferentEncKeys ==
  ASSUME NEW theirs, NEW ours, theirs # ServerKey, ours # ClientKey, NEW c, NEW customHash
  PROVE  PasswordEncKey(theirs, ClientKey, c, customHash)
           # PasswordEncKey(ServerKey, ours, c, customHash)
<1>1. ClientKey # ServerKey
  BY DEF ClientKey, ServerKey
<1>2. CASE customHash
  <2>1. PICK x, y : x = ClientKey /\ y = ServerKey
    OBVIOUS
  <2>2. <<"speedy", x, theirs, c.verifier, c.cskSalt, c.sder>>
          # <<"speedy", ours, y, c.verifier, c.cskSalt, c.sder>>
    BY <2>1
  <2> QED BY <1>2, <2>1, <2>2 DEF PasswordEncKey
<1>3. CASE ~customHash
  <2>1. PICK x, y : x = ClientKey /\ y = ServerKey
    OBVIOUS
  <2>2. {x, theirs} # {ours, y}
    <3>1. x \in {x, theirs} /\ x \notin {ours, y}
      BY <1>1, <2>1
    <3> QED BY <3>1
  <2>3. <<"md5", {x, theirs}, c.verifier>> # <<"md5", {ours, y}, c.verifier>>
    BY <2>2
  <2> QED BY <1>3, <2>1, <2>3 DEF PasswordEncKey
<1> QED BY <1>2, <1>3

\* The server that knows one password lets in a client that has another if and
\* only if it takes them for the same.
LEMMA SamePasswordAccepted ==
  ASSUME NEW c, c.verifier \in Verifiers, NEW user \in Seq(Octets),
         NEW password \in Seq(Octets), NEW known \in Seq(Octets),
         c.sessKey[1].box = Box(PasswordKey(user, known, c), ServerKey),
         NEW customHash, NEW proxy, NEW logon,
         logon.pairs = LogonPairs(user, password, c, customHash, proxy)
  PROVE  Accepts(logon, user, known, c, customHash) <=> SameNames(c, password, known)
<1>1. PICK mine, key : mine = PasswordKey(user, password, c) /\ key = PasswordKey(user, known, c)
  OBVIOUS
<1>2. PICK theirs, ours : /\ theirs = Open(mine, Box(key, ServerKey))
                          /\ ours = Open(key, Box(mine, ClientKey))
  OBVIOUS
<1>3. PICK sentKey, encKey : /\ sentKey = PasswordEncKey(theirs, ClientKey, c, customHash)
                             /\ encKey = PasswordEncKey(ServerKey, ours, c, customHash)
  OBVIOUS
<1>4. PICK sent : sent = Open(encKey, Box(sentKey, [text |-> password]))
  OBVIOUS
<1>5. mine = key <=> SameNames(c, password, known)
  BY <1>1, SameKeys
<1>6. Accepts(logon, user, known, c, customHash)
        <=> "text" \in DOMAIN sent /\ SameNames(c, sent.text, known)
  <2>1. sentKey = ClientsKey(user, password, c, customHash)
    BY <1>1, <1>2, <1>3 DEF ClientsKey
  <2>2. /\ logon.pairs[1][2][1] = Box(mine, ClientKey)
        /\ logon.pairs[2][2][1] = Box(sentKey, [text |-> password])
    BY <1>1, <2>1, FirstTwoPairs
  <2> QED BY <1>1, <1>2, <1>3, <1>4, <2>2 DEF Accepts, SameNames
<1>7. CASE mine = key
  <2>1. theirs = ServerKey /\ ours = ClientKey
    BY <1>2, <1>7, OpenedIs
  <2>2. sent = [text |-> password]
    BY <1>3, <1>4, <2>1, OpenedIs
  <2>3. "text" \in DOMAIN sent /\ sent.text = password
    BY <2>2
  <2> QED BY <1>5, <1>6, <1>7, <2>3
<1>8. CASE mine # key
  <2>1. theirs # ServerKey /\ ours # ClientKey
    BY <1>2, <1>8, NoiseIs
  <2>2. sentKey # encKey
    BY <1>3, <2>1, DifferentEncKeys
  <2>3. "text" \notin DOMAIN sent
    BY <1>4, <2>2, NoiseIs
  <2> QED BY <1>5, <1>6, <1>8, <2>3
<1> QED BY <1>7, <1>8

-----------------------------------------------------------------------------
(* The exchange of a logon.                                                *)

\* A logon with a short name; the server made its challenge of the password it
\* knows.
LogonField(f) ==
  LET c == f.form.challenge IN
  /\ f.kind = "logon"
  /\ f.value.user \in Seq(Octets) /\ (f.value.user = <<>> \/ Len(f.value.user) \in 1 .. MaxShort)
  /\ f.value.password \in Seq(Octets) /\ f.form.known \in Seq(Octets)
  /\ c.verifier \in Verifiers
  /\ c.sessKey[1].box = Box(PasswordKey(f.value.user, f.form.known, c), ServerKey)

\* An exchange of one logon and nothing else.
OneLogon == Len(fields) = 1 /\ DOMAIN fields = {1} /\ LogonField(fields[1])

PairsSent(f) ==
  LogonPairs(f.value.user, f.value.password, f.form.challenge, f.form.customHash, f.form.proxy)

LogonGot(f) == [user |-> f.value.user, pairs |-> PairsSent(f)]

\* How far the exchange is.
LogonSteps(f) ==
  \/ pc = "putting" /\ put = 0 /\ wire = <<>> /\ got = <<>>
  \/ pc \in {"putting", "getting"} /\ put = 1 /\ wire = Bytes(f) /\ got = <<>>
  \/ pc = "done" /\ put = 1 /\ wire = <<>> /\ got = <<LogonGot(f)>>
  \/ pc = "raised" /\ put = 0 /\ wire = <<>> /\ got = <<>> /\ PutRaises(f)

LogonKept == OneLogon => LogonSteps(fields[1])

\* How Messages writes, reads and compares it.
LEMMA LogonBytes ==
  ASSUME NEW f, f.kind = "logon"
  PROVE  /\ Bytes(f) = WriteLogon(f.value.user, PairsSent(f), session.big)
         /\ \A s : Read(f, s) = TakeLogon(s, session.big)
         /\ ~GetRaises(f) /\ \A v : Keeps(f, v) <=> v.user = f.value.user
<1>1. Bytes(f) = WriteLogon(f.value.user, PairsSent(f), session.big)
  BY DEF Bytes, PairsSent
<1>2. ASSUME NEW s PROVE Read(f, s) = TakeLogon(s, session.big)
  BY DEF Read
<1>3. ~GetRaises(f)
  BY DEF GetRaises
<1>4. ASSUME NEW v PROVE Keeps(f, v) <=> v.user = f.value.user
  BY DEF Keeps
<1> QED BY <1>1, <1>2, <1>3, <1>4

\* The server reads it as the client wrote it.
LEMMA LogonRead ==
  ASSUME NEW f, LogonField(f)
  PROVE  /\ Read(f, Bytes(f)) = Got(LogonGot(f), <<>>)
         /\ \E S : Bytes(f) \in Seq(S)
<1>1. PICK user, pairs : user = f.value.user /\ pairs = PairsSent(f)
  OBVIOUS
<1>2. user \in Seq(Octets) /\ (user = <<>> \/ Len(user) \in 1 .. MaxShort) /\ f.kind = "logon"
  BY <1>1 DEF LogonField
<1>3. PICK S : Octets \subseteq S /\ ShortPairs(S, 16, pairs)
  BY <1>1, PairsOfLogon DEF PairsSent
<1>4. LogonParts(S, user, pairs)
  BY <1>2, <1>3, PartsOfPairs
<1>5. PICK b \in Seq(S) :
        /\ b = WriteLogon(user, pairs, session.big)
        /\ \A r \in Seq(S) :
             TakeLogon(Both(b, r), session.big) = Got([user |-> user, pairs |-> pairs], r)
  BY <1>3, <1>4, LogonBack
<1>6. Both(b, <<>>) = b /\ <<>> \in Seq(S)
  BY EmptyFirst DEF Both
<1>7. TakeLogon(b, session.big) = Got([user |-> user, pairs |-> pairs], <<>>)
  BY <1>5, <1>6
<1>8. b = Bytes(f) /\ Read(f, b) = TakeLogon(b, session.big)
  BY <1>1, <1>2, <1>5, LogonBytes
<1>9. \E T : Bytes(f) \in Seq(T)
  BY <1>5, <1>8
<1> QED BY <1>1, <1>7, <1>8, <1>9 DEF LogonGot

\* The bytes of one value, and of none, put together.
LEMMA OneFlat ==
  ASSUME NEW f, NEW S, NEW g, g \in Seq(S), f[1] = g
  PROVE  FlattenSeq([i \in 1 .. 1 - 0 |-> f[0 + i]]) = g
<1>1. Strings(S, f, 0, 0 + 1)
  BY DEF Strings
<1>2. Stretch(f, 0, 0 + 1) = Both(Stretch(f, 0, 0), f[0 + (0 + 1)])
  BY <1>1, StretchMore
<1>3. Stretch(f, 0, 0) = <<>>
  BY NoStrings
<1>4. 0 + (0 + 1) = 1 /\ 0 + 1 = 1 /\ 1 - 0 = 1
  OBVIOUS
<1>5. Both(<<>>, g) = g
  BY EmptyFirst
<1>6. Stretch(f, 0, 1) = g
  BY <1>2, <1>3, <1>4, <1>5
<1> QED BY <1>4, <1>6 DEF Stretch

\* Nothing is left of one that was got.
LEMMA NoneFlat ==
  ASSUME NEW f
  PROVE  FlattenSeq([i \in 1 .. 1 - 1 |-> f[1 + i]]) = <<>>
<1>1. Stretch(f, 1, 0) = <<>> /\ 1 - 1 = 0
  BY NoStrings
<1> QED BY <1>1 DEF Stretch

\* Every step keeps how far it is.
LEMMA LogonAlways == Spec => []LogonKept
<1>1. Init => LogonKept
  BY DEF Init, LogonKept, LogonSteps
<1>2. ASSUME LogonKept, [Next]_vars PROVE LogonKept'
  <2>1. session' = session /\ fields' = fields
    BY <1>2 DEF Next, Put, PutFails, Send, Get, GetFails, vars
  <2>2. SUFFICES ASSUME OneLogon PROVE LogonSteps(fields[1])'
    BY <2>1 DEF OneLogon, LogonKept
  <2>3. PICK f : f = fields[1] /\ LogonField(f)
    BY <2>2 DEF OneLogon
  <2>4. /\ session' = session => Bytes(f)' = Bytes(f)
        /\ PutRaises(f)' <=> PutRaises(f) /\ LogonGot(f)' = LogonGot(f)
    BY DEF Bytes, PutRaises, LogonGot, PairsSent
  <2>5. LogonSteps(f)
    BY <1>2, <2>2, <2>3 DEF LogonKept
  <2>6. Len(fields) = 1 /\ fields'[1] = f
    BY <2>1, <2>2, <2>3 DEF OneLogon
  <2>7. SUFFICES LogonSteps(f)'
    BY <2>6
  <2>8. CASE Put
    <3>1. put = 0 /\ wire = <<>> /\ pc' = "putting" /\ got' = <<>>
      BY <2>5, <2>6, <2>8 DEF Put, LogonSteps
    <3>2. put' = 1 /\ wire' = wire \o Bytes(f)
      BY <2>3, <2>8, <3>1 DEF Put
    <3>3. wire' = Bytes(f)
      <4>1. PICK S : Bytes(f) \in Seq(S)
        BY <2>3, LogonRead
      <4>2. Both(<<>>, Bytes(f)) = Bytes(f)
        BY <4>1, EmptyFirst
      <4> QED BY <3>1, <3>2, <4>2 DEF Both
    <3> QED BY <2>1, <2>4, <3>1, <3>2, <3>3 DEF LogonSteps
  <2>9. CASE PutFails
    <3>1. put = 0 /\ wire = <<>> /\ got = <<>> /\ pc' = "raised"
      BY <2>5, <2>6, <2>9 DEF PutFails, LogonSteps
    <3>2. put' = 0 /\ wire' = <<>> /\ got' = <<>> /\ PutRaises(f)
      BY <2>3, <2>9, <3>1 DEF PutFails
    <3> QED BY <2>4, <3>1, <3>2 DEF LogonSteps
  <2>10. CASE Send
    <3>1. put = 1 /\ wire = Bytes(f) /\ got = <<>> /\ pc' = "getting"
      BY <2>5, <2>6, <2>10 DEF Send, LogonSteps
    <3>2. put' = 1 /\ wire' = wire /\ got' = <<>>
      BY <2>10, <3>1 DEF Send
    <3> QED BY <2>1, <2>4, <3>1, <3>2 DEF LogonSteps
  <2>11. CASE Get
    <3>1. put = 1 /\ wire = Bytes(f) /\ got = <<>>
      BY <2>5, <2>11 DEF Get, LogonSteps
    <3>2. PICK result : result = Read(f, wire) /\ result = Got(LogonGot(f), <<>>)
      BY <2>3, <3>1, LogonRead
    <3>3. result.value = LogonGot(f) /\ result.rest = <<>>
      BY <3>2 DEF Got
    <3>4. fields[Len(got) + 1] = f
      BY <2>3, <3>1
    <3>5. got' = Append(got, LogonGot(f)) /\ wire' = <<>> /\ put' = 1
      BY <2>11, <3>1, <3>2, <3>3, <3>4 DEF Get
    <3>6. got' = <<LogonGot(f)>> /\ Len(got') = 1
      BY <3>1, <3>5
    <3>7. pc' = "done"
      BY <2>6, <2>11, <3>6 DEF Get
    <3> QED BY <2>4, <3>5, <3>6, <3>7 DEF LogonSteps
  <2>12. CASE GetFails
    <3>1. wire = Bytes(f) /\ got = <<>>
      BY <2>5, <2>12 DEF GetFails, LogonSteps
    <3>2. fields[Len(got) + 1] = f
      BY <2>3, <3>1
    <3>3. ~Read(f, wire).ok
      BY <2>12, <3>2 DEF GetFails
    <3>4. PICK result : result = Read(f, wire) /\ result = Got(LogonGot(f), <<>>)
      BY <2>3, <3>1, LogonRead
    <3>5. result.ok
      BY <3>4 DEF Got
    <3> QED BY <3>3, <3>4, <3>5
  <2>13. CASE UNCHANGED vars
    BY <2>4, <2>5, <2>13 DEF vars, LogonSteps
  <2> QED BY <1>2, <2>8, <2>9, <2>10, <2>11, <2>12, <2>13 DEF Next
<1> QED BY <1>1, <1>2, PTL DEF Spec

\* LogonVerified: a server that derives its keys as the client does lets the
\* client in if and only if the passwords are the same, up to case where the
\* verifier is an old one.
THEOREM OneLogonVerified == Spec => [](OneLogon => LogonVerified)
<1>1. ASSUME OneLogon, LogonSteps(fields[1]) PROVE LogonVerified
  <2> SUFFICES ASSUME NEW i \in DOMAIN got
               PROVE  Accepts(got[i], fields[i].value.user, fields[i].form.known,
                              fields[i].form.challenge, fields[i].form.customHash)
                        <=> SameNames(fields[i].form.challenge, fields[i].value.password,
                                      fields[i].form.known)
    BY DEF LogonVerified, SameNames
  <2>1. PICK f : f = fields[1]
    OBVIOUS
  <2>2. LogonField(f)
    BY <1>1, <2>1 DEF OneLogon
  <2>3. got = <<LogonGot(f)>>
    BY <1>1, <2>1 DEF LogonSteps
  <2>4. i = 1 /\ got[i] = LogonGot(f)
    BY <2>3
  <2>5. PICK c, user, password, known, logon :
          /\ c = f.form.challenge /\ user = f.value.user /\ password = f.value.password
          /\ known = f.form.known /\ logon = LogonGot(f)
    OBVIOUS
  <2>6. logon.pairs = LogonPairs(user, password, c, f.form.customHash, f.form.proxy)
    BY <2>5 DEF LogonGot, PairsSent
  <2>7. /\ c.verifier \in Verifiers /\ user \in Seq(Octets) /\ password \in Seq(Octets)
        /\ known \in Seq(Octets) /\ c.sessKey[1].box = Box(PasswordKey(user, known, c), ServerKey)
    BY <2>2, <2>5 DEF LogonField
  <2>8. Accepts(logon, user, known, c, f.form.customHash) <=> SameNames(c, password, known)
    BY <2>6, <2>7, SamePasswordAccepted
  <2> QED BY <2>1, <2>4, <2>5, <2>8
<1>2. LogonKept => (OneLogon => LogonVerified)
  BY <1>1 DEF LogonKept
<1> QED BY <1>2, LogonAlways, PTL

\* The server gets the user's name as it was put, and nothing is left behind the
\* logon when it has read it.
THEOREM OneLogonKept == Spec => [](OneLogon => RoundTrips /\ InStep /\ TypeOK)
<1>1. ASSUME OneLogon, LogonSteps(fields[1]) PROVE RoundTrips
  <2>1. PICK f : f = fields[1]
    OBVIOUS
  <2>2. f.kind = "logon" /\ Len(fields) = 1
    BY <1>1, <2>1 DEF OneLogon, LogonField
  <2>3. ASSUME NEW i \in DOMAIN got PROVE Keeps(fields[i], got[i]) /\ ~GetRaises(fields[i])
    <3>1. got = <<LogonGot(f)>>
      BY <1>1, <2>1 DEF LogonSteps
    <3>2. i = 1 /\ got[i] = LogonGot(f) /\ fields[i] = f
      BY <2>1, <3>1
    <3>3. LogonGot(f).user = f.value.user
      BY DEF LogonGot
    <3> QED BY <2>2, <3>2, <3>3, LogonBytes
  <2>4. pc = "raised" => put = 0 /\ PutRaises(fields[1])
    BY <1>1 DEF LogonSteps
  <2> QED BY <2>2, <2>3, <2>4 DEF RoundTrips
<1>2. ASSUME OneLogon, LogonSteps(fields[1]), pc \in {"getting", "done"}
      PROVE  wire = FlattenSeq([i \in 1 .. Len(fields) - Len(got) |-> Bytes(fields[Len(got) + i])])
  <2>1. Len(fields) = 1
    BY <1>2 DEF OneLogon
  <2>2. PICK b : b = [i \in {1} |-> Bytes(fields[i])]
    OBVIOUS
  <2>3. b[1] = Bytes(fields[1])
    BY <2>2
  <2>4. PICK S : Bytes(fields[1]) \in Seq(S)
    BY <1>2, LogonRead DEF OneLogon
  <2>5. CASE got = <<>> /\ wire = Bytes(fields[1])
    <3>1. FlattenSeq([i \in 1 .. 1 - 0 |-> b[0 + i]]) = Bytes(fields[1])
      BY <2>3, <2>4, OneFlat
    <3>2. \A i \in 1 .. 1 - 0 : b[0 + i] = Bytes(fields[0 + i])
      BY <2>2
    <3>3. [i \in 1 .. 1 - 0 |-> b[0 + i]] = [i \in 1 .. 1 - 0 |-> Bytes(fields[0 + i])]
      BY <3>2
    <3>4. Len(got) = 0
      BY <2>5
    <3> QED BY <2>1, <2>5, <3>1, <3>3, <3>4
  <2>6. CASE got = <<LogonGot(fields[1])>> /\ wire = <<>>
    <3>1. FlattenSeq([i \in 1 .. 1 - 1 |-> b[1 + i]]) = <<>>
      BY NoneFlat
    <3>2. \A i \in 1 .. 1 - 1 : b[1 + i] = Bytes(fields[1 + i])
      OBVIOUS
    <3>3. [i \in 1 .. 1 - 1 |-> b[1 + i]] = [i \in 1 .. 1 - 1 |-> Bytes(fields[1 + i])]
      BY <3>2
    <3>4. Len(got) = 1
      BY <2>6
    <3> QED BY <2>1, <2>6, <3>1, <3>3, <3>4
  <2> QED BY <1>2, <2>5, <2>6 DEF LogonSteps
<1>3. ASSUME OneLogon, LogonSteps(fields[1]) PROVE TypeOK
  <2>1. 1 \in DOMAIN fields /\ fields[1].kind = "logon" /\ Len(fields) = 1
    BY <1>3 DEF OneLogon, LogonField
  <2>2. put \in 0 .. 1 /\ Len(got) <= put
    <3>1. CASE got = <<>>
      BY <1>3, <3>1 DEF LogonSteps
    <3>2. CASE got = <<LogonGot(fields[1])>>
      <4>1. Len(got) = 1
        BY <3>2
      <4>2. put = 1
        BY <1>3, <3>2 DEF LogonSteps
      <4> QED BY <4>1, <4>2
    <3> QED BY <1>3, <3>1, <3>2 DEF LogonSteps
  <2>3. pc \in {"putting", "getting", "done", "raised"}
    BY <1>3 DEF LogonSteps
  <2> QED BY <2>1, <2>2, <2>3 DEF TypeOK
<1>4. LogonKept => (OneLogon => RoundTrips /\ InStep /\ TypeOK)
  BY <1>1, <1>2, <1>3 DEF LogonKept, InStep
<1> QED BY <1>4, LogonAlways, PTL
=============================================================================
