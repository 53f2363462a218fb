-------------------------- MODULE WireCodec_proofs --------------------------
(***************************************************************************)
(* Proofs about WireCodec.tla: what the session puts into its buffer is    *)
(* got from it as it was put, whatever bytes follow, and nothing of those  *)
(* is taken.  For integers of every width, order and form, for strings of  *)
(* every length in chunks of every size, for strings under their length,   *)
(* and, of bytes and tokens, for the keys with values of a logon.          *)
(*                                                                         *)
(* The codec's loops are recursive functions.  What such a function is     *)
(* follows from any function that satisfies its equation up to a bound     *)
(* (Shifts, Sums, Steps, Flats, FieldSteps): one exists, by induction on   *)
(* the bound, and all agree.                                               *)
(***************************************************************************)
EXTENDS WireCodec, SequenceTheorems, WellFoundedInduction, TLAPS

-----------------------------------------------------------------------------
(* Induction.                                                              *)


\* A set of natural numbers has a least element.
LEMMA LeastElement ==
  ASSUME NEW T, T \subseteq Nat, T # {}
  PROVE  \E m \in T : \A k \in T : m <= k
<1> DEFINE Below == {p \in Nat \X Nat : p[1] < p[2]}
<1>1. IsWellFoundedOn(Below, Nat)
  BY NatLessThanWellFounded DEF OpToRel
<1>2. PICK m \in T : \A k \in T : ~ (<<k, m>> \in Below)
  <2> HIDE DEF Below
  <2> QED BY <1>1, WFMin
<1>3. ASSUME NEW k \in T PROVE m <= k
  <2>1. k \in Nat /\ m \in Nat
    OBVIOUS
  <2>2. ~(k < m)
    BY <1>2, <2>1
  <2> QED BY <2>1, <2>2
<1> QED BY <1>3

\* A set with 0 and with the successor of every number in it has them all.
LEMMA Induction ==
  ASSUME NEW T, 0 \in T, \A n \in Nat : n \in T => n + 1 \in T
  PROVE  Nat \subseteq T
<1> DEFINE U == Nat \ T
<1>1. SUFFICES ASSUME U # {} PROVE FALSE
  OBVIOUS
<1>2. PICK m \in U : \A k \in U : m <= k
  <2>1. U \subseteq Nat
    OBVIOUS
  <2> HIDE DEF U
  <2> QED BY <1>1, <2>1, LeastElement
<1>3. m \in Nat /\ m \notin T /\ m # 0
  OBVIOUS
<1>4. m - 1 \in Nat /\ m = (m - 1) + 1 /\ ~(m <= m - 1)
  BY <1>3
<1>5. m - 1 \in T
  BY <1>2, <1>4
<1> QED BY <1>3, <1>4, <1>5

-----------------------------------------------------------------------------
(* Integers.                                                               *)

\* The bytes.
Octets == 0 .. 255

\* Octets are numbers; the range itself is in no other lemma's way.
LEMMA OctetNumbers ==
  ASSUME NEW x \in Octets
  PROVE  x \in Nat /\ x \in 0 .. 255
BY DEF Octets

\* The numbers of a byte.
LEMMA NumbersOfOctets ==
  ASSUME NEW x \in 0 .. 255
  PROVE  x \in Octets
BY DEF Octets

\* A number and what is left of it when its low bytes are dropped, one after
\* the other.
Shifts(f, number, size) ==
  /\ f \in [0 .. size -> Nat]
  /\ f[0] = number
  /\ \A k \in 1 .. size : f[k] = f[k - 1] \div 256

\* Such shifts exist.
LEMMA ShiftsExist ==
  ASSUME NEW number \in Nat, NEW size \in Nat
  PROVE  \E f : Shifts(f, number, size)
<1> DEFINE T == {n \in Nat : \E f : Shifts(f, number, n)}
<1>1. 0 \in T
  <2>1. Shifts([k \in 0 .. 0 |-> number], number, 0)
    BY DEF Shifts
  <2> QED BY <2>1
<1>2. ASSUME NEW n \in Nat, n \in T PROVE n + 1 \in T
  <2>1. PICK f : Shifts(f, number, n)
    BY <1>2
  <2>2. PICK g : g = [k \in 0 .. n + 1 |-> IF k = n + 1 THEN f[n] \div 256 ELSE f[k]]
    OBVIOUS
  <2>3. f \in [0 .. n -> Nat] /\ f[n] \in Nat /\ f[n] \div 256 \in Nat
    BY <2>1 DEF Shifts
  <2>4. \A k \in 0 .. n + 1 : k = n + 1 \/ k \in 0 .. n
    OBVIOUS
  <2>5. g \in [0 .. n + 1 -> Nat]
    BY <2>2, <2>3, <2>4
  <2>6. g[0] = number
    BY <2>1, <2>2 DEF Shifts
  <2>7. ASSUME NEW k \in 1 .. n + 1 PROVE g[k] = g[k - 1] \div 256
    <3>1. k - 1 \in 0 .. n /\ k - 1 # n + 1 /\ k - 1 \in 0 .. n + 1 /\ k \in 0 .. n + 1
      OBVIOUS
    <3>2. g[k - 1] = f[k - 1]
      BY <2>2, <3>1
    <3>3. CASE k = n + 1
      BY <2>2, <3>1, <3>2, <3>3
    <3>4. CASE k # n + 1
      <4>1. k \in 1 .. n /\ g[k] = f[k]
        BY <2>2, <3>1, <3>4
      <4> QED BY <2>1, <3>2, <4>1 DEF Shifts
    <3> QED BY <3>3, <3>4
  <2>8. Shifts(g, number, n + 1)
    BY <2>5, <2>6, <2>7 DEF Shifts
  <2> QED BY <2>8
<1>3. size \in T
  <2> HIDE DEF T
  <2> QED BY <1>1, <1>2, Induction
<1> QED BY <1>3

\* What is left does not depend on how many bytes are dropped after it.
LEMMA ShiftsAgree ==
  ASSUME NEW number \in Nat, NEW m \in Nat, NEW n \in Nat,
         NEW f, Shifts(f, number, m), NEW g, Shifts(g, number, n),
         NEW k \in Nat, k <= m, k <= n
  PROVE  f[k] = g[k]
<1> DEFINE T == {i \in Nat : i <= m /\ i <= n => f[i] = g[i]}
<1>1. 0 \in T
  BY DEF Shifts
<1>2. ASSUME NEW i \in Nat, i \in T PROVE i + 1 \in T
  <2>1. ASSUME i + 1 <= m, i + 1 <= n PROVE f[i + 1] = g[i + 1]
    <3>1. i + 1 \in 1 .. m /\ i + 1 \in 1 .. n /\ (i + 1) - 1 = i /\ f[i] = g[i]
      BY <1>2, <2>1
    <3>2. f[i + 1] = f[(i + 1) - 1] \div 256
      BY <3>1 DEF Shifts
    <3>3. g[i + 1] = g[(i + 1) - 1] \div 256
      BY <3>1 DEF Shifts
    <3> QED BY <3>1, <3>2, <3>3
  <2> QED BY <2>1
<1>3. k \in T
  <2> HIDE DEF T
  <2> QED BY <1>1, <1>2, Induction
<1> QED BY <1>3

\* The bytes are the low bytes of what is left.
LEMMA BigEndianShifts ==
  ASSUME NEW number \in Nat, NEW size \in Nat, NEW f, Shifts(f, number, size)
  PROVE  BigEndian(number, size) = [i \in 1 .. size |-> f[size - i] % 256]
<1> DEFINE body(g) == [k \in 0 .. size |->
                         IF k = 0 THEN number ELSE g[k - 1] \div 256]
           h == CHOOSE g : g = body(g)
<1>1. f = body(f)
  <2>1. DOMAIN f = 0 .. size
    BY DEF Shifts
  <2>2. ASSUME NEW k \in 0 .. size PROVE f[k] = body(f)[k]
    <3>1. k = 0 \/ k \in 1 .. size
      OBVIOUS
    <3> QED BY <3>1 DEF Shifts
  <2> QED BY <2>1, <2>2 DEF Shifts
<1>2. h = body(h)
  <2> HIDE DEF body
  <2> QED BY <1>1
<1>3. ASSUME NEW k \in Nat, k <= size PROVE h[k] = f[k]
  <2> DEFINE T == {i \in Nat : i <= size => h[i] = f[i]}
  <2> HIDE DEF h
  <2>1. 0 \in T
    BY <1>2 DEF Shifts
  <2>2. ASSUME NEW i \in Nat, i \in T PROVE i + 1 \in T
    <3>1. ASSUME i + 1 <= size PROVE h[i + 1] = f[i + 1]
      <4>1. /\ i + 1 \in 1 .. size /\ i + 1 \in 0 .. size /\ (i + 1) - 1 = i
            /\ i + 1 # 0 /\ h[i] = f[i]
        BY <2>2, <3>1
      <4>2. h[i + 1] = h[(i + 1) - 1] \div 256
        BY <1>2, <4>1
      <4>3. f[i + 1] = f[(i + 1) - 1] \div 256
        BY <4>1 DEF Shifts
      <4> QED BY <4>1, <4>2, <4>3
    <3> QED BY <3>1
  <2>3. k \in T
    <3> HIDE DEF T
    <3> QED BY <2>1, <2>2, Induction
  <2> QED BY <1>3, <2>3
<1>4. BigEndian(number, size) = [i \in 1 .. size |-> h[size - i] % 256]
  BY DEF BigEndian, Byte
<1>5. \A i \in 1 .. size : h[size - i] = f[size - i]
  <2> HIDE DEF h
  <2>1. \A i \in 1 .. size : size - i \in Nat /\ size - i <= size
    OBVIOUS
  <2> QED BY <1>3, <2>1
<1> HIDE DEF h
<1> QED BY <1>4, <1>5

\* int.to_bytes puts out as many bytes as it is asked for.
LEMMA BigEndianBytes ==
  ASSUME NEW number \in Nat, NEW size \in Nat
  PROVE  /\ BigEndian(number, size) \in Seq(Octets)
         /\ Len(BigEndian(number, size)) = size
<1>1. PICK f : Shifts(f, number, size)
  BY ShiftsExist
<1>2. BigEndian(number, size) = [i \in 1 .. size |-> f[size - i] % 256]
  BY <1>1, BigEndianShifts
<1>3. ASSUME NEW i \in 1 .. size PROVE f[size - i] % 256 \in Octets
  <2>1. size - i \in 0 .. size /\ f[size - i] \in Nat
    BY <1>1 DEF Shifts
  <2>2. f[size - i] % 256 \in 0 .. 255
    BY <2>1
  <2> QED BY <2>2, NumbersOfOctets
<1>4. BigEndian(number, size) \in [1 .. size -> Octets]
  BY <1>2, <1>3
<1> QED BY <1>4

\* The sums that int.from_bytes arrives at, one byte after the other.
Sums(g, bytes) ==
  /\ g \in [0 .. Len(bytes) -> Nat]
  /\ g[0] = 0
  /\ \A k \in 1 .. Len(bytes) : g[k] = 256 * g[k - 1] + bytes[k]

\* Division by 256 with its remainder.
LEMMA Division ==
  ASSUME NEW n \in Nat
  PROVE  \E q \in Nat, m \in 0 .. 255 : n = 256 * q + m /\ q = n \div 256 /\ m = n % 256
<1>1. PICK q, m : q = n \div 256 /\ m = n % 256
  OBVIOUS
<1>2. n = 256 * q + m /\ q \in Nat /\ m \in 0 .. 255
  BY <1>1, SMT
<1> QED BY <1>1, <1>2

\* Quotient and remainder are the only ones.
LEMMA Quotient ==
  ASSUME NEW n, NEW q \in Nat, NEW m \in 0 .. 255, n = 256 * q + m
  PROVE  n \div 256 = q /\ n % 256 = m
BY SMT

\* Such sums exist.
LEMMA SumsExist ==
  ASSUME NEW bytes \in Seq(Octets)
  PROVE  \E g : Sums(g, bytes)
<1> DEFINE Made(n) == \E g \in [0 .. n -> Nat] :
                        /\ g[0] = 0
                        /\ \A k \in 1 .. n : g[k] = 256 * g[k - 1] + bytes[k]
           T == {n \in Nat : n <= Len(bytes) => Made(n)}
<1>1. 0 \in T
  <2>1. PICK g : g = [k \in 0 .. 0 |-> 0]
    OBVIOUS
  <2>2. g \in [0 .. 0 -> Nat] /\ g[0] = 0
    BY <2>1
  <2> QED BY <2>2
<1>2. ASSUME NEW n \in Nat, n \in T, n + 1 <= Len(bytes) PROVE Made(n + 1)
  <2>1. PICK f \in [0 .. n -> Nat] :
          /\ f[0] = 0
          /\ \A k \in 1 .. n : f[k] = 256 * f[k - 1] + bytes[k]
    <3>1. Made(n)
      <4> HIDE DEF Made
      <4>1. Len(bytes) \in Nat
        OBVIOUS
      <4> QED BY <1>2, <4>1
    <3> QED BY <3>1
  <2>2. PICK new \in Nat, last \in Nat, b \in 0 .. 255 :
          new = 256 * last + b /\ last = f[n] /\ b = bytes[n + 1]
    <3>1. PICK last \in Nat : last = f[n]
      OBVIOUS
    <3>2. n + 1 \in 1 .. Len(bytes)
      BY <1>2
    <3>3. PICK b \in 0 .. 255 : b = bytes[n + 1]
      <4>1. bytes[n + 1] \in Octets
        BY <3>2, ElementOfSeq
      <4> QED BY <4>1, OctetNumbers
    <3>4. 256 * last + b \in Nat
      OBVIOUS
    <3> QED BY <3>1, <3>3, <3>4
  <2>3. PICK g : g = [k \in 0 .. n + 1 |-> IF k = n + 1 THEN new ELSE f[k]]
    OBVIOUS
  <2>4. \A k \in 0 .. n + 1 : k = n + 1 \/ k \in 0 .. n
    OBVIOUS
  <2>5. g \in [0 .. n + 1 -> Nat] /\ g[0] = 0
    BY <2>1, <2>3, <2>4
  <2>6. ASSUME NEW k \in 1 .. n + 1 PROVE g[k] = 256 * g[k - 1] + bytes[k]
    <3>1. k - 1 \in 0 .. n /\ k - 1 # n + 1 /\ k - 1 \in 0 .. n + 1 /\ k \in 0 .. n + 1
      OBVIOUS
    <3>2. g[k - 1] = f[k - 1]
      BY <2>3, <3>1
    <3>3. CASE k = n + 1
      <4>1. g[k] = new /\ k - 1 = n
        BY <2>3, <3>1, <3>3
      <4> QED BY <2>2, <3>2, <3>3, <4>1
    <3>4. CASE k # n + 1
      <4>1. k \in 1 .. n /\ g[k] = f[k]
        BY <2>3, <3>1, <3>4
      <4> QED BY <2>1, <3>2, <4>1
    <3> QED BY <3>3, <3>4
  <2> QED BY <2>5, <2>6
<1>3. Len(bytes) \in T
  <2> HIDE DEF Made
  <2>1. \A n \in Nat : n \in T => n + 1 \in T
    BY <1>2
  <2>2. 0 \in T
    BY <1>1
  <2> HIDE DEF T
  <2> QED BY <2>1, <2>2, Induction
<1>4. PICK g \in [0 .. Len(bytes) -> Nat] :
        /\ g[0] = 0
        /\ \A k \in 1 .. Len(bytes) : g[k] = 256 * g[k - 1] + bytes[k]
  BY <1>3
<1> QED BY <1>4 DEF Sums

\* int.from_bytes is the last of the sums.
LEMMA FromBytesSums ==
  ASSUME NEW bytes \in Seq(Octets), NEW g, Sums(g, bytes)
  PROVE  FromBigEndian(bytes) = g[Len(bytes)]
<1> DEFINE body(f) == [n \in 0 .. Len(bytes) |->
                         IF n = 0 THEN 0 ELSE 256 * f[n - 1] + bytes[n]]
           h == CHOOSE f : f = body(f)
<1>1. g = body(g)
  <2>1. DOMAIN g = 0 .. Len(bytes)
    BY DEF Sums
  <2>2. ASSUME NEW k \in 0 .. Len(bytes) PROVE g[k] = body(g)[k]
    <3>1. k = 0 \/ k \in 1 .. Len(bytes)
      OBVIOUS
    <3> QED BY <3>1 DEF Sums
  <2> QED BY <2>1, <2>2 DEF Sums
<1>2. h = body(h)
  <2> HIDE DEF body
  <2> QED BY <1>1
<1>3. FromBigEndian(bytes) = h[Len(bytes)]
  BY DEF FromBigEndian, Byte
<1> DEFINE T == {i \in Nat : i <= Len(bytes) => h[i] = g[i]}
<1> HIDE DEF h
<1>4. 0 \in T
  BY <1>2 DEF Sums
<1>5. ASSUME NEW i \in Nat, i \in T PROVE i + 1 \in T
  <2>1. ASSUME i + 1 <= Len(bytes) PROVE h[i + 1] = g[i + 1]
    <3>1. /\ i + 1 \in 1 .. Len(bytes) /\ i + 1 \in 0 .. Len(bytes) /\ (i + 1) - 1 = i
          /\ i + 1 # 0 /\ h[i] = g[i]
      BY <1>5, <2>1
    <3>2. h[i + 1] = 256 * h[(i + 1) - 1] + bytes[i + 1]
      BY <1>2, <3>1
    <3>3. g[i + 1] = 256 * g[(i + 1) - 1] + bytes[i + 1]
      BY <3>1 DEF Sums
    <3> QED BY <3>1, <3>2, <3>3
  <2> QED BY <2>1
<1>6. Len(bytes) \in T
  <2> HIDE DEF T
  <2> QED BY <1>4, <1>5, Induction
<1> QED BY <1>3, <1>6

\* The number of bytes is a number.
LEMMA FromBytesNat ==
  ASSUME NEW bytes \in Seq(Octets)
  PROVE  FromBigEndian(bytes) \in Nat
<1>1. PICK g : Sums(g, bytes)
  BY SumsExist
<1>2. g[Len(bytes)] \in Nat
  BY <1>1 DEF Sums
<1> QED BY <1>1, <1>2, FromBytesSums

\* Numbers that need no more than n bytes: nothing is left of them without these.
LEMMA BackFromBytes ==
  ASSUME NEW number \in Nat, NEW size \in Nat, NEW f, Shifts(f, number, size),
         f[size] = 0
  PROVE  FromBigEndian(BigEndian(number, size)) = number
<1>1. PICK bytes \in Seq(Octets) :
        bytes = BigEndian(number, size) /\ Len(bytes) = size
  BY BigEndianBytes
<1>2. bytes = [i \in 1 .. size |-> f[size - i] % 256]
  BY <1>1, BigEndianShifts
<1>3. PICK g : g = [k \in 0 .. size |-> f[size - k]]
  OBVIOUS
<1>4. Sums(g, bytes)
  <2>1. \A k \in 0 .. size : size - k \in 0 .. size
    OBVIOUS
  <2>2. f \in [0 .. size -> Nat]
    BY DEF Shifts
  <2>3. g \in [0 .. size -> Nat]
    BY <1>3, <2>1, <2>2
  <2>4. g[0] = 0
    BY <1>3
  <2>5. ASSUME NEW k \in 1 .. size PROVE g[k] = 256 * g[k - 1] + bytes[k]
    <3>1. k - 1 \in 0 .. size /\ k \in 0 .. size /\ size - (k - 1) \in 1 .. size
          /\ (size - (k - 1)) - 1 = size - k /\ size - k \in 0 .. size
      OBVIOUS
    <3>2. PICK x \in Nat : x = f[size - k]
      BY <2>2, <3>1
    <3>3. PICK q \in Nat, m \in 0 .. 255 :
            x = 256 * q + m /\ q = x \div 256 /\ m = x % 256
      BY Division
    <3>4. g[k] = x /\ g[k - 1] = f[size - (k - 1)]
      BY <1>3, <3>1, <3>2
    <3>5. f[size - (k - 1)] = q
      <4>1. PICK i \in 1 .. size : i = size - (k - 1)
        BY <3>1
      <4>2. f[i] = f[i - 1] \div 256 /\ f[i - 1] = x
        BY <3>1, <3>2, <4>1 DEF Shifts
      <4> QED BY <3>3, <4>1, <4>2
    <3>6. bytes[k] = m
      BY <1>2, <3>2, <3>3
    <3> QED BY <3>3, <3>4, <3>5, <3>6
  <2> QED BY <1>1, <2>3, <2>4, <2>5 DEF Sums
<1>5. g[size] = number
  BY <1>3 DEF Shifts
<1> QED BY <1>1, <1>4, <1>5, FromBytesSums

\* The numbers of size bytes.
Wide(size) == {FromBigEndian(bytes) : bytes \in [1 .. size -> Octets]}

\* Nothing is left of a number when all its bytes are shifted out.
LEMMA WideShifts ==
  ASSUME NEW size \in Nat, NEW number \in Wide(size), NEW f, Shifts(f, number, size)
  PROVE  f[size] = 0
<1>1. PICK bytes \in [1 .. size -> Octets] : number = FromBigEndian(bytes)
  BY DEF Wide
<1>2. bytes \in Seq(Octets) /\ Len(bytes) = size
  OBVIOUS
<1>3. PICK g : Sums(g, bytes)
  BY <1>2, SumsExist
<1>4. number = g[size]
  BY <1>1, <1>2, <1>3, FromBytesSums
<1> DEFINE T == {i \in Nat : i <= size => f[i] = g[size - i]}
<1>5. 0 \in T
  <2>1. size - 0 = size
    OBVIOUS
  <2> QED BY <1>4, <2>1 DEF Shifts
<1>6. ASSUME NEW i \in Nat, i \in T PROVE i + 1 \in T
  <2>1. ASSUME i + 1 <= size PROVE f[i + 1] = g[size - (i + 1)]
    <3>1. i + 1 \in 1 .. size /\ (i + 1) - 1 = i /\ f[i] = g[size - i]
          /\ size - i \in 1 .. size /\ (size - i) - 1 = size - (i + 1)
          /\ size - (i + 1) \in 0 .. size
      BY <1>6, <2>1
    <3>2. PICK q \in Nat, m \in 0 .. 255 : q = g[size - (i + 1)] /\ m = bytes[size - i]
      <4>1. bytes[size - i] \in Octets
        BY <1>2, <3>1
      <4>2. g[size - (i + 1)] \in Nat
        BY <1>2, <1>3, <3>1 DEF Sums
      <4> QED BY <4>1, <4>2, OctetNumbers
    <3>3. g[size - i] = 256 * q + m
      BY <1>2, <1>3, <3>1, <3>2 DEF Sums
    <3>4. (256 * q + m) \div 256 = q
      BY Quotient
    <3>5. f[i + 1] = f[i] \div 256
      BY <3>1 DEF Shifts
    <3> QED BY <3>1, <3>2, <3>3, <3>4, <3>5
  <2> QED BY <2>1
<1>7. size \in T
  <2> HIDE DEF T
  <2> QED BY <1>5, <1>6, Induction
<1>8. g[0] = 0 /\ size - size = 0
  BY <1>3 DEF Sums
<1> QED BY <1>7, <1>8

\* They are natural numbers.
LEMMA WideNat ==
  ASSUME NEW size \in Nat, NEW number \in Wide(size)
  PROVE  number \in Nat
<1>1. PICK bytes \in [1 .. size -> Octets] : number = FromBigEndian(bytes)
  BY DEF Wide
<1>2. bytes \in Seq(Octets)
  OBVIOUS
<1> QED BY <1>1, <1>2, FromBytesNat

\* int.from_bytes of the bytes of a number that fits is the number.
LEMMA BigEndianBack ==
  ASSUME NEW size \in Nat, NEW number \in Wide(size)
  PROVE  FromBigEndian(BigEndian(number, size)) = number
<1>1. number \in Nat
  BY WideNat
<1>2. PICK f : Shifts(f, number, size)
  BY <1>1, ShiftsExist
<1> QED BY <1>1, <1>2, WideShifts, BackFromBytes

-----------------------------------------------------------------------------
(* What is got from the front of a stream.                                 *)

\* The front of two sequences, and what is behind it.
LEMMA FrontAndRest ==
  ASSUME NEW b \in Seq(Octets), NEW r \in Seq(Octets)
  PROVE  /\ b \o r \in Seq(Octets) /\ Len(b \o r) = Len(b) + Len(r)
         /\ SubSeq(b \o r, 1, Len(b)) = b
         /\ SubSeq(b \o r, Len(b) + 1, Len(b \o r)) = r
<1>1. PICK n \in Nat, m \in Nat : n = Len(b) /\ m = Len(r)
  OBVIOUS
<1>2. /\ b \o r \in Seq(Octets) /\ Len(b \o r) = n + m
      /\ \A i \in 1 .. n + m : (b \o r)[i] = IF i <= n THEN b[i] ELSE r[i - n]
  BY <1>1, ConcatProperties
<1>3. SubSeq(b \o r, 1, n) = b
  <2>1. CASE n = 0
    <3>1. SubSeq(b \o r, 1, 0) = <<>>
      BY SubSeqEmpty
    <3>2. b = <<>>
      BY <1>1, <2>1, EmptySeq
    <3> QED BY <2>1, <3>1, <3>2
  <2>2. CASE n # 0
    <3>1. 1 \in 1 .. Len(b) /\ n \in 1 .. Len(b)
      BY <1>1, <2>2
    <3>2. SubSeq(b \o r, 1, n) = SubSeq(b, 1, n)
      BY <3>1, SubSeqOfConcat1
    <3>3. SubSeq(b, 1, n) = b
      BY <1>1, SubSeqFull
    <3> QED BY <3>2, <3>3
  <2> QED BY <2>1, <2>2
<1>4. SubSeq(b \o r, n + 1, n + m) = r
  <2>1. CASE m = 0
    <3>1. n + 1 \in Int /\ n + 0 \in Int /\ n + 0 < n + 1
      OBVIOUS
    <3>2. SubSeq(b \o r, n + 1, n + 0) = <<>>
      BY <3>1, SubSeqEmpty
    <3>3. r = <<>>
      BY <1>1, <2>1, EmptySeq
    <3> QED BY <2>1, <3>2, <3>3
  <2>2. CASE m # 0
    <3>1. n + 1 \in Len(b) + 1 .. Len(b) + Len(r) /\ n + m \in Len(b) + 1 .. Len(b) + Len(r)
      BY <1>1, <2>2
    <3>2. SubSeq(b \o r, n + 1, n + m) = SubSeq(r, n + 1 - Len(b), n + m - Len(b))
      BY <3>1, SubSeqOfConcat2
    <3>3. n + 1 - Len(b) = 1 /\ n + m - Len(b) = m
      BY <1>1
    <3>4. SubSeq(r, 1, m) = r
      BY <1>1, SubSeqFull
    <3> QED BY <3>2, <3>3, <3>4
  <2> QED BY <2>1, <2>2
<1> QED BY <1>1, <1>2, <1>3, <1>4

\* One item and what is behind it.
LEMMA HeadAndTail ==
  ASSUME NEW x \in Octets, NEW r \in Seq(Octets)
  PROVE  /\ <<x>> \o r \in Seq(Octets) /\ <<x>> \o r # <<>>
         /\ Head(<<x>> \o r) = x /\ Tail(<<x>> \o r) = r
         /\ Len(<<x>> \o r) = Len(r) + 1 /\ (<<x>> \o r)[1] = x
<1>1. PICK s : s = <<x>> \o r
  OBVIOUS
<1>2. <<x>> \in Seq(Octets) /\ Len(<<x>>) = 1
  OBVIOUS
<1>3. /\ s \in Seq(Octets) /\ Len(s) = 1 + Len(r)
      /\ \A i \in 1 .. 1 + Len(r) : s[i] = IF i <= 1 THEN <<x>>[i] ELSE r[i - 1]
  BY <1>1, <1>2, ConcatProperties
<1>4. Len(r) \in Nat /\ 1 \in 1 .. 1 + Len(r) /\ s[1] = x
  BY <1>3
<1>5. s # <<>>
  BY <1>3, <1>4
<1>6. Head(s) = x
  BY <1>3, <1>4, <1>5
<1>7. /\ Tail(s) \in Seq(Octets) /\ Len(Tail(s)) = Len(s) - 1
      /\ \A i \in 1 .. Len(Tail(s)) : Tail(s)[i] = s[i + 1]
  BY <1>3, <1>5, HeadTailProperties
<1>8. Tail(s) = r
  <2>1. Len(Tail(s)) = Len(r)
    BY <1>3, <1>4, <1>7
  <2>2. \A i \in 1 .. Len(r) : i + 1 \in 1 .. 1 + Len(r) /\ ~(i + 1 <= 1) /\ (i + 1) - 1 = i
    BY <1>4
  <2>3. \A i \in 1 .. Len(r) : Tail(s)[i] = r[i]
    BY <1>3, <1>7, <2>1, <2>2
  <2> QED BY <1>7, <2>1, <2>3, SeqEqual
<1> QED BY <1>1, <1>3, <1>4, <1>5, <1>6, <1>8

\* One byte, bytes and the bytes of a number are got from in front of
\* others.
LEMMA GetByteBack ==
  ASSUME NEW x \in Octets, NEW r \in Seq(Octets)
  PROVE  GetByte(<<x>> \o r) = Got(x, r)
BY HeadAndTail DEF GetByte

\* read(n) gets the n bytes that were put.
LEMMA GetBytesBack ==
  ASSUME NEW b \in Seq(Octets), NEW r \in Seq(Octets)
  PROVE  GetBytes(b \o r, Len(b)) = Got(b, r)
<1>1. /\ Len(b \o r) = Len(b) + Len(r)
      /\ SubSeq(b \o r, 1, Len(b)) = b /\ SubSeq(b \o r, Len(b) + 1, Len(b \o r)) = r
  BY FrontAndRest
<1>2. Len(b) \in 0 .. Len(b \o r)
  <2>1. Len(b) \in Nat /\ Len(r) \in Nat
    OBVIOUS
  <2> QED BY <1>1, <2>1
<1>3. PICK s : s = b \o r
  OBVIOUS
<1> QED BY <1>1, <1>2, <1>3 DEF GetBytes

\* The bytes of a number are got as the number they stand for.
LEMMA GetFixedBack ==
  ASSUME NEW b \in Seq(Octets), NEW r \in Seq(Octets), Len(b) <= WordBytes
  PROVE  GetFixed(b \o r, Len(b), TRUE) = Got(FromBigEndian(b), r)
<1>2. /\ Len(b \o r) = Len(b) + Len(r)
      /\ SubSeq(b \o r, 1, Len(b)) = b /\ SubSeq(b \o r, Len(b) + 1, Len(b \o r)) = r
  BY FrontAndRest
<1>3. PICK s : s = b \o r
  OBVIOUS
<1>4. PICK n \in Nat : n = Len(b)
  OBVIOUS
<1>5. n \in 0 .. Len(s) /\ ~(n > WordBytes)
  <2>1. PICK m \in Nat : m = Len(r)
    OBVIOUS
  <2>2. Len(s) = n + m
    BY <1>2, <1>3, <1>4, <2>1
  <2> QED BY <1>4, <2>2, WidthAssumption
<1> QED BY <1>2, <1>3, <1>4, <1>5 DEF GetFixed

\* The same with the low byte first.
LEMMA ReverseTwice ==
  ASSUME NEW b \in Seq(Octets)
  PROVE  Reverse(b) \in Seq(Octets) /\ Len(Reverse(b)) = Len(b) /\ Reverse(Reverse(b)) = b
<1>1. PICK n \in Nat : n = Len(b)
  OBVIOUS
<1>2. PICK c : c = [i \in 1 .. n |-> b[n - i + 1]]
  OBVIOUS
<1>3. c = Reverse(b)
  BY <1>1, <1>2 DEF Reverse
<1>4. \A i \in 1 .. n : n - i + 1 \in 1 .. n /\ n - (n - i + 1) + 1 = i
  OBVIOUS
<1>5. \A i \in 1 .. n : c[i] \in Octets
  BY <1>1, <1>2, <1>4
<1>6. c \in Seq(Octets) /\ Len(c) = n
  BY <1>2, <1>5
<1>7. Reverse(c) = [i \in 1 .. n |-> c[n - i + 1]]
  BY <1>6 DEF Reverse
<1>8. PICK d : d = [i \in 1 .. n |-> c[n - i + 1]]
  OBVIOUS
<1>9. \A i \in 1 .. n : d[i] = b[i]
  <2>1. \A i \in 1 .. n : d[i] = c[n - i + 1]
    BY <1>8
  <2>2. \A i \in 1 .. n : c[n - i + 1] = b[n - (n - i + 1) + 1]
    BY <1>2, <1>4
  <2> QED BY <1>4, <2>1, <2>2
<1>10. d \in Seq(Octets) /\ Len(d) = n
  BY <1>1, <1>8, <1>9
<1>11. d = b
  BY <1>1, <1>9, <1>10, SeqEqual
<1> QED BY <1>1, <1>3, <1>6, <1>7, <1>8, <1>11

\* The same with the lowest byte first.
LEMMA GetFixedBackLow ==
  ASSUME NEW b \in Seq(Octets), NEW r \in Seq(Octets), Len(b) <= WordBytes
  PROVE  GetFixed(Reverse(b) \o r, Len(b), FALSE) = Got(FromBigEndian(b), r)
<1>1. PICK c \in Seq(Octets) : c = Reverse(b) /\ Len(c) = Len(b) /\ Reverse(c) = b
  BY ReverseTwice
<1>3. /\ Len(c \o r) = Len(c) + Len(r)
      /\ SubSeq(c \o r, 1, Len(c)) = c /\ SubSeq(c \o r, Len(c) + 1, Len(c \o r)) = r
  BY FrontAndRest
<1>4. PICK s : s = c \o r
  OBVIOUS
<1>5. PICK n \in Nat : n = Len(b)
  OBVIOUS
<1>6. n \in 0 .. Len(s) /\ ~(n > WordBytes)
  <2>1. PICK m \in Nat : m = Len(r)
    OBVIOUS
  <2>2. Len(s) = n + m
    BY <1>1, <1>3, <1>4, <1>5, <2>1
  <2> QED BY <1>5, <2>2, WidthAssumption
<1> QED BY <1>1, <1>3, <1>4, <1>5, <1>6 DEF GetFixed

\* lstrip takes zeros away, up to the first byte that is none.
LEMMA StripsZeros ==
  ASSUME NEW b \in Seq(Octets)
  PROVE  \/ StripZeros(b) = <<>> /\ \A i \in 1 .. Len(b) : b[i] = 0
         \/ \E m \in 1 .. Len(b) :
              /\ StripZeros(b) = SubSeq(b, m, Len(b)) /\ b[m] # 0
              /\ \A i \in 1 .. m - 1 : b[i] = 0
<1> DEFINE significant == {i \in DOMAIN b : b[i] # 0}
<1>1. PICK n \in Nat : n = Len(b) /\ DOMAIN b = 1 .. n
  OBVIOUS
<1>2. CASE significant = {}
  BY <1>1, <1>2 DEF StripZeros
<1>3. CASE significant # {}
  <2>1. PICK m \in significant : \A k \in significant : m <= k
    <3>1. significant \subseteq Nat
      BY <1>1
    <3> HIDE DEF significant
    <3> QED BY <1>3, <3>1, LeastElement
  <2>2. m \in 1 .. n /\ b[m] # 0
    BY <1>1
  <2>3. Min(significant) = m
    <3>1. \A x, y \in significant :
            (\A k \in significant : x <= k) /\ (\A k \in significant : y <= k) => x = y
      BY <1>1
    <3>2. Min(significant) \in significant /\ \A k \in significant : Min(significant) <= k
      <4> HIDE DEF significant
      <4> QED BY <2>1 DEF Min
    <3> HIDE DEF significant
    <3> QED BY <2>1, <3>1, <3>2
  <2>4. StripZeros(b) = SubSeq(b, m, n)
    BY <1>1, <1>3, <2>3 DEF StripZeros
  <2>5. ASSUME NEW i \in 1 .. m - 1 PROVE b[i] = 0
    <3>1. i \in 1 .. n /\ ~(m <= i)
      BY <2>2
    <3> QED BY <1>1, <2>1, <3>1
  <2> QED BY <1>1, <2>2, <2>4, <2>5
<1> QED BY <1>2, <1>3

\* What is left of the bytes.
LEMMA Left ==
  ASSUME NEW b \in Seq(Octets), NEW m \in 1 .. Len(b)
  PROVE  /\ SubSeq(b, m, Len(b)) \in Seq(Octets)
         /\ Len(SubSeq(b, m, Len(b))) = Len(b) - m + 1
         /\ \A i \in 1 .. Len(b) - m + 1 : SubSeq(b, m, Len(b))[i] = b[m + i - 1]
<1>1. PICK n \in Nat : n = Len(b) /\ DOMAIN b = 1 .. n
  OBVIOUS
<1>2. m \in 1 .. n
  BY <1>1
<1>3. \A i \in m .. n : b[i] \in Octets
  BY <1>1, <1>2, ElementOfSeq
<1>4. /\ SubSeq(b, m, n) \in Seq(Octets)
      /\ Len(SubSeq(b, m, n)) = IF m <= n THEN n - m + 1 ELSE 0
      /\ \A i \in 1 .. n - m + 1 : SubSeq(b, m, n)[i] = b[m + i - 1]
  BY <1>2, <1>3, SubSeqProperties
<1> QED BY <1>1, <1>2, <1>4

\* What is stripped, and what is left.
LEMMA Stripped ==
  ASSUME NEW b \in Seq(Octets)
  PROVE  \E l \in 0 .. Len(b) :
           /\ StripZeros(b) \in Seq(Octets) /\ Len(StripZeros(b)) = l
           /\ \A i \in 1 .. Len(b) - l : b[i] = 0
           /\ \A i \in 1 .. l : StripZeros(b)[i] = b[Len(b) - l + i]
<1>1. PICK n \in Nat : n = Len(b)
  OBVIOUS
<1>2. CASE StripZeros(b) = <<>> /\ \A i \in 1 .. n : b[i] = 0
  <2>1. 0 \in 0 .. n /\ <<>> \in Seq(Octets) /\ Len(<<>>) = 0 /\ n - 0 = n
    OBVIOUS
  <2> QED BY <1>1, <1>2, <2>1
<1>3. ASSUME NEW m \in 1 .. n, StripZeros(b) = SubSeq(b, m, n),
             \A i \in 1 .. m - 1 : b[i] = 0
      PROVE  \E l \in 0 .. n :
               /\ StripZeros(b) \in Seq(Octets) /\ Len(StripZeros(b)) = l
               /\ \A i \in 1 .. n - l : b[i] = 0
               /\ \A i \in 1 .. l : StripZeros(b)[i] = b[n - l + i]
  <2>1. PICK l \in 0 .. n : l = n - m + 1
    OBVIOUS
  <2>2. /\ SubSeq(b, m, n) \in Seq(Octets) /\ Len(SubSeq(b, m, n)) = l
        /\ \A i \in 1 .. l : SubSeq(b, m, n)[i] = b[m + i - 1]
    BY <1>1, <1>3, <2>1, Left
  <2>3. n - l = m - 1 /\ \A i \in 1 .. l : m + i - 1 = n - l + i
    BY <2>1
  <2> QED BY <1>3, <2>2, <2>3
<1> QED BY <1>1, <1>2, <1>3, StripsZeros

\* The first byte that is left is not zero.
LEMMA FirstKept ==
  ASSUME NEW b \in Seq(Octets)
  PROVE  \E l \in 0 .. Len(b) :
           Len(StripZeros(b)) = l /\ (l # 0 => b[Len(b) - l + 1] # 0)
<1>1. PICK n \in Nat : n = Len(b)
  OBVIOUS
<1>2. CASE StripZeros(b) = <<>>
  BY <1>1, <1>2
<1>3. ASSUME NEW m \in 1 .. n, StripZeros(b) = SubSeq(b, m, n), b[m] # 0
      PROVE  \E l \in 0 .. n : Len(StripZeros(b)) = l /\ (l # 0 => b[n - l + 1] # 0)
  <2>1. PICK l \in 0 .. n : l = n - m + 1 /\ n - l + 1 = m
    OBVIOUS
  <2>2. Len(SubSeq(b, m, n)) = l
    BY <1>1, <1>3, <2>1, Left
  <2> QED BY <1>3, <2>1, <2>2
<1> QED BY <1>1, <1>2, <1>3, StripsZeros

\* The bytes of the compressed form, which are up to WordBytes.
LEMMA MagnitudeBytes ==
  ASSUME NEW number \in Nat
  PROVE  /\ Magnitude(number) \in Seq(Octets)
         /\ Len(Magnitude(number)) \in 0 .. WordBytes
<1>1. PICK b \in Seq(Octets) : b = BigEndian(number, WordBytes) /\ Len(b) = WordBytes
  BY BigEndianBytes, WidthAssumption
<1> QED BY <1>1, Stripped DEF Magnitude

\* The compressed form of a number that fits into a word stands for it, and so
\* do as many bytes or more.
LEMMA FitsBack ==
  ASSUME NEW number \in Wide(WordBytes), NEW size \in Nat, size <= WordBytes,
         Len(Magnitude(number)) <= size
  PROVE  FromBigEndian(BigEndian(number, size)) = number
<1>1. number \in Nat /\ WordBytes \in Nat
  BY WideNat, WidthAssumption
<1>2. PICK f : Shifts(f, number, WordBytes)
  BY <1>1, ShiftsExist
<1>3. PICK w \in Nat : w = WordBytes /\ f[w] = 0
  BY <1>1, <1>2, WideShifts
<1>4. PICK b \in Seq(Octets) : b = BigEndian(number, w) /\ Len(b) = w
  BY <1>1, <1>3, BigEndianBytes
<1>5. b = [i \in 1 .. w |-> f[w - i] % 256]
  BY <1>1, <1>2, <1>3, <1>4, BigEndianShifts
<1>6. PICK l \in 0 .. w :
        l = Len(Magnitude(number)) /\ \A i \in 1 .. w - l : b[i] = 0
  <2>1. Magnitude(number) = StripZeros(b)
    BY <1>3, <1>4 DEF Magnitude
  <2> QED BY <1>4, <2>1, Stripped
<1> DEFINE T == {i \in Nat : i <= w - l => f[w - i] = 0}
<1>7. 0 \in T
  BY <1>3
<1>8. ASSUME NEW i \in Nat, i \in T PROVE i + 1 \in T
  <2>1. ASSUME i + 1 <= w - l PROVE f[w - (i + 1)] = 0
    <3>1. PICK k \in 1 .. w : k = w - i
      BY <2>1
    <3>2. f[k] = 0 /\ k - 1 = w - (i + 1) /\ i + 1 \in 1 .. w - l /\ i + 1 \in 1 .. w
      BY <1>8, <2>1, <3>1
    <3>3. PICK x \in Nat : x = f[k - 1]
      BY <1>2, <1>3, <3>1 DEF Shifts
    <3>4. f[k] = x \div 256
      BY <1>2, <1>3, <3>1, <3>3 DEF Shifts
    <3>5. x % 256 = 0
      <4>1. PICK j \in 1 .. w : j = i + 1 /\ w - j = k - 1 /\ b[j] = 0
        BY <1>6, <3>1, <3>2
      <4>2. b[j] = f[w - j] % 256
        BY <1>5, <4>1
      <4> QED BY <3>3, <4>1, <4>2
    <3>6. PICK q \in Nat, m \in 0 .. 255 :
            x = 256 * q + m /\ q = x \div 256 /\ m = x % 256
      BY Division
    <3>7. x = 0
      BY <3>2, <3>4, <3>5, <3>6
    <3> QED BY <3>2, <3>3, <3>7
  <2> QED BY <2>1
<1>9. ASSUME NEW k \in Nat, l <= k, k <= w PROVE f[k] = 0
  <2>1. PICK i \in Nat : i = w - k
    BY <1>9
  <2>2. i \in T
    <3> HIDE DEF T
    <3> QED BY <1>7, <1>8, Induction
  <2>3. i <= w - l /\ w - i = k
    BY <1>9, <2>1
  <2> QED BY <2>2, <2>3
<1>10. PICK g : Shifts(g, number, size)
  BY <1>1, ShiftsExist
<1>11. g[size] = f[size] /\ f[size] = 0
  <2>1. size <= w /\ l <= size
    BY <1>3, <1>6
  <2>2. f[size] = 0
    BY <1>9, <2>1
  <2>3. g[size] = f[size]
    BY <1>1, <1>2, <1>3, <1>10, <2>1, ShiftsAgree
  <2> QED BY <2>2, <2>3
<1> QED BY <1>1, <1>10, <1>11, BackFromBytes

\* The number that the bytes of a magnitude stand for.
LEMMA MagnitudeBack ==
  ASSUME NEW number \in Wide(WordBytes)
  PROVE  FromBigEndian(Magnitude(number)) = number
<1>1. number \in Nat /\ WordBytes \in Nat
  BY WideNat, WidthAssumption
<1>2. PICK f : Shifts(f, number, WordBytes)
  BY <1>1, ShiftsExist
<1>3. PICK w \in Nat : w = WordBytes
  BY <1>1
<1>4. PICK b \in Seq(Octets) : b = BigEndian(number, w) /\ Len(b) = w
  BY <1>1, <1>3, BigEndianBytes
<1>5. b = [i \in 1 .. w |-> f[w - i] % 256]
  BY <1>1, <1>2, <1>3, <1>4, BigEndianShifts
<1>6. PICK l \in 0 .. w :
        /\ Magnitude(number) \in Seq(Octets) /\ l = Len(Magnitude(number))
        /\ \A i \in 1 .. l : Magnitude(number)[i] = b[w - l + i]
  <2>1. PICK z : z = StripZeros(b) /\ z = Magnitude(number)
    BY <1>3, <1>4 DEF Magnitude
  <2>2. PICK l \in 0 .. Len(b) :
          /\ z \in Seq(Octets) /\ Len(z) = l
          /\ \A i \in 1 .. l : z[i] = b[Len(b) - l + i]
    BY <2>1, Stripped
  <2>3. \A i \in 1 .. l : z[i] = b[w - l + i]
    BY <1>4, <2>2
  <2> QED BY <1>4, <2>1, <2>2, <2>3
<1>7. PICK g : Shifts(g, number, l)
  BY <1>1, ShiftsExist
<1>8. PICK c \in Seq(Octets) : c = BigEndian(number, l) /\ Len(c) = l
  BY <1>1, BigEndianBytes
<1>9. c = [i \in 1 .. l |-> g[l - i] % 256]
  BY <1>1, <1>7, <1>8, BigEndianShifts
<1>10. ASSUME NEW i \in 1 .. l PROVE Magnitude(number)[i] = c[i]
  <2>1. /\ w - l + i \in 1 .. w /\ w - (w - l + i) = l - i
        /\ l - i \in Nat /\ l - i <= w /\ l - i <= l
    OBVIOUS
  <2>2. f[l - i] = g[l - i]
    BY <1>1, <1>2, <1>3, <1>7, <2>1, ShiftsAgree
  <2>3. b[w - l + i] = f[l - i] % 256
    BY <1>5, <2>1
  <2> QED BY <1>6, <1>9, <2>2, <2>3
<1>11. Magnitude(number) = c
  BY <1>6, <1>8, <1>10, SeqEqual
<1>12. FromBigEndian(BigEndian(number, l)) = number
  BY <1>3, <1>6, FitsBack
<1> QED BY <1>8, <1>11, <1>12

-----------------------------------------------------------------------------
(* Integers are got as they were put.                                      *)

\* A size and the bytes under it.
LEMMA SizedBytes ==
  ASSUME NEW x \in Octets, NEW b \in Seq(Octets), NEW r \in Seq(Octets)
  PROVE  /\ <<x>> \o b \in Seq(Octets)
         /\ (<<x>> \o b) \o r = <<x>> \o (b \o r)
         /\ b \o r \in Seq(Octets)
<1>1. <<x>> \in Seq(Octets) /\ b \o r \in Seq(Octets)
  BY ConcatProperties
<1>2. (<<x>> \o b) \o r = <<x>> \o (b \o r)
  BY <1>1, ConcatAssociative
<1>3. <<x>> \o b \in Seq(Octets)
  BY HeadAndTail
<1> QED BY <1>1, <1>2, <1>3

\* A size leaves the sign bit of its byte alone.
LEMMA SmallOctet ==
  ASSUME NEW n \in Nat, n <= WordBytes
  PROVE  /\ n \in Octets /\ n % 128 = n /\ ~(n >= 128)
         /\ 128 + n \in Octets /\ (128 + n) % 128 = n /\ 128 + n >= 128
<1>1. n < 128
  BY WidthAssumption
<1>2. (128 + n) % 128 = n /\ n % 128 = n
  BY <1>1
<1>3. n \in 0 .. 255 /\ 128 + n \in 0 .. 255
  BY <1>1
<1> QED BY <1>1, <1>2, <1>3, NumbersOfOctets

\* The compressed form of a number that is not negative.
LEMMA CompressedRead ==
  ASSUME NEW m \in Seq(Octets), Len(m) <= WordBytes,
         NEW r \in Seq(Octets), NEW size \in Nat, NEW bigEndian \in BOOLEAN
  PROVE  \E n \in Octets :
           /\ n = Len(m) /\ <<n>> \o m \in Seq(Octets)
           /\ GetInt((<<n>> \o m) \o r, size, TRUE, bigEndian) = Got(FromBigEndian(m), r)
<1>1. PICK n \in Nat : n = Len(m) /\ n <= WordBytes
  OBVIOUS
<1>2. GetInt((<<n>> \o m) \o r, size, TRUE, bigEndian) = Got(FromBigEndian(m), r)
  <2>2. n \in Octets /\ n % 128 = n /\ ~(n >= 128)
    BY <1>1, SmallOctet
  <2>3. PICK t \in Seq(Octets) : t = m \o r
    BY <2>2, SizedBytes
  <2>4. PICK s : s = <<n>> \o t /\ s = (<<n>> \o m) \o r
    BY <2>2, <2>3, SizedBytes
  <2>5. s # <<>> /\ Head(s) = n /\ Tail(s) = t
    BY <2>2, <2>3, <2>4, HeadAndTail
  <2>6. PICK got : got = Got(FromBigEndian(m), r) /\ GetFixed(m \o r, n, TRUE) = got
    BY <1>1, GetFixedBack
  <2> QED BY <2>2, <2>3, <2>4, <2>5, <2>6 DEF GetInt, Signed, SignBit
<1>3. n \in Octets
  BY <1>1, SmallOctet
<1>4. <<n>> \o m \in Seq(Octets)
  BY <1>3, SizedBytes
<1> QED BY <1>1, <1>2, <1>3, <1>4

\* And of one that is.
LEMMA NegativeRead ==
  ASSUME NEW m \in Seq(Octets), Len(m) <= WordBytes,
         NEW r \in Seq(Octets), NEW size \in Nat, NEW bigEndian \in BOOLEAN
  PROVE  \E h \in Octets :
           /\ h = 128 + Len(m) /\ <<h>> \o m \in Seq(Octets)
           /\ GetInt((<<h>> \o m) \o r, size, TRUE, bigEndian) = Got(-FromBigEndian(m), r)
<1>1. PICK n \in Nat : n = Len(m) /\ n <= WordBytes
  OBVIOUS
<1>2. PICK h \in Nat : h = 128 + n
  OBVIOUS
<1>3. h \in Octets
  BY <1>1, <1>2, SmallOctet
<1>4. GetInt((<<h>> \o m) \o r, size, TRUE, bigEndian) = Got(-FromBigEndian(m), r)
  <2>2. h \in Octets /\ h % 128 = n /\ h >= 128
    BY <1>1, <1>2, SmallOctet
  <2>3. PICK t \in Seq(Octets) : t = m \o r
    BY <2>2, SizedBytes
  <2>4. PICK s : s = <<h>> \o t /\ s = (<<h>> \o m) \o r
    BY <2>2, <2>3, SizedBytes
  <2>5. s # <<>> /\ Head(s) = h /\ Tail(s) = t
    BY <2>2, <2>3, <2>4, HeadAndTail
  <2>6. PICK x : x = FromBigEndian(m)
    OBVIOUS
  <2>7. PICK got : got = Got(x, r) /\ GetFixed(m \o r, n, TRUE) = got
    BY <1>1, <2>6, GetFixedBack
  <2>8. got.ok /\ got.value = x /\ got.rest = r
    BY <2>7 DEF Got
  <2>9. GetInt(s, size, TRUE, bigEndian) = Got(-x, r)
    <3>1. GetInt(s, size, TRUE, bigEndian) = Signed(GetFixed(t, n, TRUE), TRUE)
      BY <2>2, <2>5 DEF GetInt, SignBit
    <3>2. Signed(got, TRUE) = Got(-x, r)
      BY <2>8 DEF Signed
    <3> QED BY <2>3, <2>7, <3>1, <3>2
  <2> QED BY <2>3, <2>4, <2>6, <2>9
<1>5. <<h>> \o m \in Seq(Octets)
  BY <1>3, SizedBytes
<1> QED BY <1>1, <1>2, <1>3, <1>4, <1>5

\* The smaller of two numbers, as the length of a compressed one has it.
LEMMA SmallerIs ==
  ASSUME NEW a \in Nat, NEW b \in Nat
  PROVE  Min({a, b}) = IF a <= b THEN a ELSE b
<1>1. PICK x \in {a, b} : \A y \in {a, b} : x <= y
  OBVIOUS
<1>2. Min({a, b}) \in {a, b} /\ \A y \in {a, b} : Min({a, b}) <= y
  BY <1>1 DEF Min
<1>3. PICK c : c = Min({a, b})
  OBVIOUS
<1> QED BY <1>2, <1>3

\* The bytes of a number of fixed size, and the number they are read as.
LEMMA FixedBytes ==
  ASSUME NEW number \in Nat, NEW size \in Nat, NEW bigEndian \in BOOLEAN
  PROVE  /\ Fixed(number, size, bigEndian) \in Seq(Octets)
         /\ Len(Fixed(number, size, bigEndian)) = size
<1>1. PICK b \in Seq(Octets) : b = BigEndian(number, size) /\ Len(b) = size
  BY BigEndianBytes
<1>2. Reverse(b) \in Seq(Octets) /\ Len(Reverse(b)) = size
  BY <1>1, ReverseTwice
<1> QED BY <1>1, <1>2 DEF Fixed

\* Bytes of a fixed number.
LEMMA FixedBack ==
  ASSUME NEW number \in Nat, NEW size \in Nat, size <= WordBytes, NEW bigEndian \in BOOLEAN,
         NEW r \in Seq(Octets)
  PROVE  GetInt(Fixed(number, size, bigEndian) \o r, size, FALSE, bigEndian)
           = Got(FromBigEndian(BigEndian(number, size)), r)
<1>1. PICK b \in Seq(Octets) : b = BigEndian(number, size) /\ Len(b) = size
  BY BigEndianBytes
<1>2. CASE bigEndian = TRUE
  <2>1. GetFixed(b \o r, size, TRUE) = Got(FromBigEndian(b), r)
    BY <1>1, GetFixedBack
  <2> QED BY <1>1, <1>2, <2>1 DEF GetInt, Fixed
<1>3. CASE bigEndian = FALSE
  <2>1. GetFixed(Reverse(b) \o r, size, FALSE) = Got(FromBigEndian(b), r)
    BY <1>1, GetFixedBackLow
  <2> QED BY <1>1, <1>3, <2>1 DEF GetInt, Fixed
<1> QED BY <1>2, <1>3

\* The size of a number that fits is its own.
LEMMA FitsSize ==
  ASSUME NEW number \in Nat, NEW size \in Nat, Fits(number, size)
  PROVE  Min({size, Len(Magnitude(number))}) = Len(Magnitude(number))
<1>1. PICK l \in Nat : l = Len(Magnitude(number)) /\ l <= size
  BY MagnitudeBytes, WidthAssumption DEF Fits
<1> QED BY <1>1, SmallerIs

\* A fitting number's bytes and what is got from them.
LEMMA PutIntBack ==
  ASSUME NEW number \in Nat, NEW size \in Nat, size <= WordBytes, Fits(number, size),
         NEW bigEndian \in BOOLEAN, NEW compress \in BOOLEAN, NEW r \in Seq(Octets)
  PROVE  /\ PutInt(number, size, bigEndian, compress) \in Seq(Octets)
         /\ \E v : /\ GetInt(PutInt(number, size, bigEndian, compress) \o r,
                             size, compress, bigEndian) = Got(v, r)
                   /\ number \in Wide(WordBytes) => v = number
<1>1. CASE compress = FALSE
  <2>1. number \in Wide(WordBytes) => FromBigEndian(BigEndian(number, size)) = number
    BY FitsBack DEF Fits
  <2>2. GetInt(Fixed(number, size, bigEndian) \o r, size, FALSE, bigEndian)
           = Got(FromBigEndian(BigEndian(number, size)), r)
    BY FixedBack
  <2>3. PutInt(number, size, bigEndian, FALSE) = Fixed(number, size, bigEndian)
    BY DEF PutInt
  <2>4. Fixed(number, size, bigEndian) \in Seq(Octets)
    BY FixedBytes
  <2> QED BY <1>1, <2>1, <2>2, <2>3, <2>4
<1>2. CASE compress = TRUE
  <2>1. PICK m \in Seq(Octets) : m = Magnitude(number) /\ Len(m) <= WordBytes /\ Len(m) \in Nat
    BY MagnitudeBytes, WidthAssumption
  <2>2. SubSeq(m, 1, Len(m)) = m
    BY <2>1, SubSeqFull
  <2>3. PutInt(number, size, bigEndian, TRUE) = <<Len(m)>> \o m
    BY <2>1, <2>2, FitsSize DEF PutInt
  <2>4. PICK n \in Octets :
          /\ n = Len(m) /\ <<n>> \o m \in Seq(Octets)
          /\ GetInt((<<n>> \o m) \o r, size, TRUE, bigEndian) = Got(FromBigEndian(m), r)
    BY <2>1, CompressedRead
  <2>7. number \in Wide(WordBytes) => FromBigEndian(m) = number
    BY <2>1, MagnitudeBack
  <2> QED BY <1>2, <2>3, <2>4, <2>7
<1> QED BY <1>1, <1>2

\* put_uint puts the same bytes as put_int for what fits.
LEMMA PutUintBack ==
  ASSUME NEW number \in Nat, NEW size \in Nat, size <= WordBytes, size # 1,
         Fits(number, size),
         NEW bigEndian \in BOOLEAN, NEW compress \in BOOLEAN, NEW r \in Seq(Octets)
  PROVE  PutUint(number, size, bigEndian, compress) = PutInt(number, size, bigEndian, compress)
<1>1. PICK m \in Seq(Octets) : m = Magnitude(number) /\ Len(m) <= WordBytes /\ Len(m) \in Nat
  BY MagnitudeBytes, WidthAssumption
<1>2. SubSeq(m, 1, Len(m)) = m
  BY <1>1, SubSeqFull
<1>3. Min({size, Len(m)}) = Len(m)
  BY <1>1, FitsSize
<1> QED BY <1>1, <1>2, <1>3 DEF PutInt, PutUint

\* A negative number comes back with its sign.
LEMMA PutNegativeBack ==
  ASSUME NEW number \in Int, number < 0, NEW r \in Seq(Octets),
         NEW size \in Nat, NEW bigEndian \in BOOLEAN
  PROVE  /\ PutNegative(number) \in Seq(Octets)
         /\ \E v : /\ GetInt(PutNegative(number) \o r, size, TRUE, bigEndian) = Got(v, r)
                   /\ -number \in Wide(WordBytes) => v = number
<1>1. PICK n \in Nat : n = -number /\ number = -n
  OBVIOUS
<1>2. PICK m \in Seq(Octets) : m = Magnitude(n) /\ Len(m) <= WordBytes
  <2>1. Magnitude(n) \in Seq(Octets) /\ Len(Magnitude(n)) \in 0 .. WordBytes
    BY MagnitudeBytes
  <2>2. PICK l : l = Len(Magnitude(n))
    OBVIOUS
  <2>3. l <= WordBytes
    BY <2>1, <2>2, WidthAssumption
  <2> QED BY <2>1, <2>2, <2>3
<1>3. PICK h \in Octets :
        /\ h = 128 + Len(m) /\ <<h>> \o m \in Seq(Octets)
        /\ GetInt((<<h>> \o m) \o r, size, TRUE, bigEndian) = Got(-FromBigEndian(m), r)
  BY <1>2, NegativeRead
<1>4. PutNegative(number) = <<h>> \o m
  BY <1>1, <1>2, <1>3 DEF PutNegative, SignBit
<1>7. n \in Wide(WordBytes) => FromBigEndian(m) = n
  BY <1>2, MagnitudeBack
<1> QED BY <1>1, <1>3, <1>4, <1>7

-----------------------------------------------------------------------------
(* Numbers of few bytes.                                                   *)

\* Once nothing is left of a number, nothing is.
LEMMA ZerosStay ==
  ASSUME NEW number \in Nat, NEW w \in Nat, NEW f, Shifts(f, number, w),
         NEW size \in Nat, size <= w, f[size] = 0,
         NEW k \in Nat, size <= k, k <= w
  PROVE  f[k] = 0
<1> DEFINE T == {i \in Nat : size + i <= w => f[size + i] = 0}
<1>1. 0 \in T
  OBVIOUS
<1>2. ASSUME NEW i \in Nat, i \in T PROVE i + 1 \in T
  <2>1. ASSUME size + (i + 1) <= w PROVE f[size + (i + 1)] = 0
    <3>1. PICK j \in 1 .. w : j = size + (i + 1) /\ j - 1 = size + i
      BY <2>1
    <3>2. f[j - 1] = 0
      BY <1>2, <2>1, <3>1
    <3>3. f[j] = f[j - 1] \div 256
      BY <3>1 DEF Shifts
    <3> QED BY <3>1, <3>2, <3>3
  <2> QED BY <2>1
<1>3. PICK i \in Nat : k = size + i
  <2>1. k - size \in Nat /\ k = size + (k - size)
    OBVIOUS
  <2> QED BY <2>1
<1>4. i \in T
  <2> HIDE DEF T
  <2> QED BY <1>1, <1>2, Induction
<1> QED BY <1>3, <1>4

\* A number of few bytes is one of more bytes, and its compressed form is short.
LEMMA Narrow ==
  ASSUME NEW size \in Nat, size <= WordBytes, NEW number \in Wide(size)
  PROVE  number \in Wide(WordBytes) /\ Fits(number, size)
<1>1. number \in Nat /\ WordBytes \in Nat
  BY WideNat, WidthAssumption
<1>2. PICK w \in Nat : w = WordBytes /\ size <= w
  BY <1>1
<1>3. PICK f : Shifts(f, number, w)
  BY <1>1, ShiftsExist
<1>4. PICK g : Shifts(g, number, size)
  BY <1>1, ShiftsExist
<1>5. f[size] = 0
  <2>1. g[size] = 0
    BY <1>4, WideShifts
  <2>2. size \in Nat /\ size <= size /\ size <= w
    BY <1>2
  <2>3. f[size] = g[size]
    BY <1>1, <1>2, <1>3, <1>4, <2>2, ShiftsAgree
  <2> QED BY <2>1, <2>3
<1>6. \A k \in Nat : size <= k /\ k <= w => f[k] = 0
  BY <1>1, <1>2, <1>3, <1>5, ZerosStay
<1>7. PICK b \in Seq(Octets) : b = BigEndian(number, w) /\ Len(b) = w
  BY <1>1, BigEndianBytes
<1>8. b = [i \in 1 .. w |-> f[w - i] % 256]
  BY <1>1, <1>2, <1>3, <1>7, BigEndianShifts
<1>9. number \in Wide(w)
  <2>1. f[w] = 0
    BY <1>2, <1>6
  <2>2. FromBigEndian(b) = number
    BY <1>1, <1>3, <1>7, <2>1, BackFromBytes
  <2>3. b \in [1 .. w -> Octets]
    BY <1>7
  <2> QED BY <2>2, <2>3 DEF Wide
<1>10. Len(Magnitude(number)) <= size
  <2>1. PICK z : z = StripZeros(b) /\ z = Magnitude(number)
    BY <1>2, <1>7 DEF Magnitude
  <2>2. PICK l \in 0 .. w : Len(z) = l /\ (l # 0 => b[w - l + 1] # 0)
    BY <1>7, <2>1, FirstKept
  <2>3. ASSUME size < l PROVE FALSE
    <3>1. PICK i \in 1 .. w, k \in Nat :
            i = w - l + 1 /\ k = w - i /\ size <= k /\ k <= w /\ l # 0
      <4>1. w - l + 1 \in 1 .. w /\ w - (w - l + 1) = l - 1 /\ l - 1 \in Nat
            /\ size <= l - 1 /\ l - 1 <= w
        BY <2>3, <1>2
      <4> QED BY <2>3, <4>1
    <3>2. b[i] = f[k] % 256
      BY <1>8, <3>1
    <3>3. f[k] = 0
      BY <1>6, <3>1
    <3> QED BY <2>2, <3>1, <3>2, <3>3
  <2> QED BY <2>1, <2>2, <2>3
<1> QED BY <1>1, <1>2, <1>9, <1>10 DEF Fits

\* Numbers of two bytes.
LEMMA TwoBytesSum ==
  ASSUME NEW b \in Seq(Octets), Len(b) = 2
  PROVE  FromBigEndian(b) = 256 * b[1] + b[2]
<1>1. PICK g : Sums(g, b)
  BY SumsExist
<1>2. g[0] = 0 /\ g[1] = 256 * g[1 - 1] + b[1] /\ g[2] = 256 * g[2 - 1] + b[2]
  <2>1. 1 \in 1 .. Len(b) /\ 2 \in 1 .. Len(b)
    OBVIOUS
  <2> QED BY <1>1, <2>1 DEF Sums
<1>3. b[1] \in Nat /\ b[2] \in Nat
  <2>1. 1 \in 1 .. Len(b) /\ 2 \in 1 .. Len(b)
    OBVIOUS
  <2>2. b[1] \in Octets /\ b[2] \in Octets
    BY <2>1, ElementOfSeq
  <2> QED BY <2>2, OctetNumbers
<1>4. g[2] = 256 * b[1] + b[2]
  <2>1. PICK x \in Nat, y \in Nat : x = b[1] /\ y = b[2]
    BY <1>3
  <2>2. g[1] = x
    BY <1>2, <2>1
  <2> QED BY <1>2, <2>1, <2>2
<1> QED BY <1>1, <1>4, FromBytesSums

\* A number of two bytes.
LEMMA OfTwoBytes ==
  ASSUME NEW q \in Octets, NEW m \in Octets
  PROVE  256 * q + m \in Wide(2)
<1> DEFINE b == [i \in 1 .. 2 |-> IF i = 1 THEN q ELSE m]
<1>1. b \in [1 .. 2 -> Octets]
  OBVIOUS
<1>2. b[1] = q /\ b[2] = m
  OBVIOUS
<1>3. b \in Seq(Octets) /\ Len(b) = 2
  BY <1>1
<1> HIDE DEF b
<1>4. FromBigEndian(b) = 256 * b[1] + b[2]
  BY <1>3, TwoBytesSum
<1> QED BY <1>1, <1>2, <1>4 DEF Wide

\* Two bytes, as the sizes of chunks are.
LEMMA TwoByteNumber ==
  ASSUME NEW n \in Wide(2)
  PROVE  n \in Wide(WordBytes) /\ Fits(n, 4) /\ Fits(n, 2)
<1>1. 2 \in Nat /\ 2 <= WordBytes
  BY WidthAssumption
<1>2. n \in Wide(WordBytes) /\ Fits(n, 2)
  BY <1>1, Narrow
<1>3. Fits(n, 4)
  <2>1. n \in Nat
    BY WideNat
  <2>2. PICK l : l = Len(Magnitude(n))
    OBVIOUS
  <2>3. l \in 0 .. WordBytes /\ l <= 2
    BY <1>2, <2>1, <2>2, MagnitudeBytes DEF Fits
  <2>4. l <= 4
    BY <2>3, WidthAssumption
  <2> QED BY <2>1, <2>2, <2>4 DEF Fits
<1> QED BY <1>2, <1>3

\* Every number up to 65535 is one.
LEMMA UpToTwoBytes ==
  ASSUME NEW n \in Nat, n <= 65535
  PROVE  n \in Wide(2)
<1>1. PICK q \in Nat, m \in 0 .. 255 : n = 256 * q + m /\ q = n \div 256 /\ m = n % 256
  BY Division
<1>2. q \in Octets /\ m \in Octets
  <2>1. q \in 0 .. 255
    BY <1>1
  <2> QED BY <2>1, NumbersOfOctets
<1>3. 256 * q + m \in Wide(2)
  BY <1>2, OfTwoBytes
<1> QED BY <1>1, <1>3

-----------------------------------------------------------------------------
(* What is left of a stream.                                               *)

\* The last n bytes.
Ending(s, n) == SubSeq(s, Len(s) - n + 1, Len(s))

\* Its length and its bytes.
LEMMA EndingBytes ==
  ASSUME NEW s \in Seq(Octets), NEW n \in 0 .. Len(s)
  PROVE  /\ Ending(s, n) \in Seq(Octets) /\ Len(Ending(s, n)) = n
         /\ \A i \in 1 .. n : Ending(s, n)[i] = s[Len(s) - n + i]
<1>1. PICK l \in Nat : l = Len(s)
  OBVIOUS
<1>2. CASE n = 0
  <2>1. SubSeq(s, l - n + 1, l) = <<>>
    BY <1>1, <1>2, SubSeqEmpty
  <2>2. <<>> \in Seq(Octets) /\ Len(<<>>) = 0
    OBVIOUS
  <2> QED BY <1>1, <1>2, <2>1, <2>2 DEF Ending
<1>3. CASE n # 0
  <2>1. PICK m \in 1 .. l : m = l - n + 1 /\ l - m + 1 = n
    <3>1. n \in Nat /\ 1 <= n /\ n <= l
      BY <1>1, <1>3
    <3>2. /\ l - n + 1 \in 1 .. l
          /\ l - (l - n + 1) + 1 = n
      BY <3>1
    <3> QED BY <3>2
  <2>2. PICK t : t = SubSeq(s, m, l) /\ t = Ending(s, n)
    BY <1>1, <2>1 DEF Ending
  <2>3. t \in Seq(Octets) /\ Len(t) = n /\ \A i \in 1 .. n : t[i] = s[m + i - 1]
    BY <1>1, <2>1, <2>2, Left
  <2>4. \A i \in 1 .. n : m + i - 1 = l - n + i
    BY <2>1
  <2> QED BY <1>1, <2>2, <2>3, <2>4
<1> QED BY <1>2, <1>3

\* The end of an end, of two strings, and of all.
LEMMA EndingOfEnding ==
  ASSUME NEW s \in Seq(Octets), NEW k \in 0 .. Len(s), NEW n \in 0 .. k
  PROVE  Ending(Ending(s, k), n) = Ending(s, n)
<1>1. PICK l \in Nat : l = Len(s)
  OBVIOUS
<1>2. PICK t \in Seq(Octets) :
        t = Ending(s, k) /\ Len(t) = k /\ \A i \in 1 .. k : t[i] = s[l - k + i]
  BY <1>1, EndingBytes
<1>3. n \in 0 .. l /\ k \in 0 .. l
  BY <1>1
<1>4. PICK a \in Seq(Octets) :
        a = Ending(s, n) /\ Len(a) = n /\ \A i \in 1 .. n : a[i] = s[l - n + i]
  BY <1>1, <1>3, EndingBytes
<1>5. PICK c \in Seq(Octets) :
        c = Ending(t, n) /\ Len(c) = n /\ \A i \in 1 .. n : c[i] = t[k - n + i]
  <2>1. n \in 0 .. Len(t)
    BY <1>2
  <2>2. /\ Ending(t, n) \in Seq(Octets) /\ Len(Ending(t, n)) = n
        /\ \A i \in 1 .. n : Ending(t, n)[i] = t[Len(t) - n + i]
    BY <2>1, EndingBytes
  <2> QED BY <1>2, <2>2
<1>6. ASSUME NEW i \in 1 .. n PROVE a[i] = c[i]
  <2>1. PICK j \in 1 .. k : j = k - n + i /\ l - k + j = l - n + i
    BY <1>3
  <2> QED BY <1>2, <1>4, <1>5, <2>1
<1>7. a = c
  BY <1>4, <1>5, <1>6, SeqEqual
<1> QED BY <1>2, <1>4, <1>5, <1>7

\* What follows some bytes is the ending of both.
LEMMA EndingOfBoth ==
  ASSUME NEW b \in Seq(Octets), NEW r \in Seq(Octets)
  PROVE  Ending(b \o r, Len(r)) = r
<1>1. /\ Len(b \o r) = Len(b) + Len(r)
      /\ SubSeq(b \o r, Len(b) + 1, Len(b \o r)) = r
  BY FrontAndRest
<1>2. PICK n \in Nat, m \in Nat : n = Len(b) /\ m = Len(r)
  OBVIOUS
<1>4. PICK s : s = b \o r
  OBVIOUS
<1>3. Len(s) - m + 1 = n + 1
  BY <1>1, <1>2, <1>4
<1> QED BY <1>1, <1>2, <1>3, <1>4 DEF Ending

\* All bytes are an ending.
LEMMA EndingAll ==
  ASSUME NEW s \in Seq(Octets)
  PROVE  Ending(s, Len(s)) = s
<1>1. PICK l \in Nat : l = Len(s)
  OBVIOUS
<1>2. l - l + 1 = 1
  OBVIOUS
<1>3. SubSeq(s, 1, l) = s
  BY <1>1, SubSeqFull
<1> QED BY <1>1, <1>2, <1>3 DEF Ending

\* Behind n bytes.
LEMMA Behind ==
  ASSUME NEW s \in Seq(Octets), NEW n \in 0 .. Len(s)
  PROVE  /\ Len(s) - n \in 0 .. Len(s)
         /\ SubSeq(s, n + 1, Len(s)) = Ending(s, Len(s) - n)
<1>1. PICK l \in Nat : l = Len(s)
  OBVIOUS
<1>2. PICK k \in 0 .. l : k = l - n /\ l - k + 1 = n + 1
  <2>1. n \in 0 .. l
    BY <1>1
  <2>2. l - n \in 0 .. l /\ l - (l - n) + 1 = n + 1
    BY <2>1
  <2> QED BY <2>2
<1> QED BY <1>1, <1>2 DEF Ending

\* All but the first byte are one.
LEMMA TailIsEnding ==
  ASSUME NEW s \in Seq(Octets), s # <<>>
  PROVE  /\ Len(s) - 1 \in 0 .. Len(s) /\ Len(s) - 1 < Len(s)
         /\ Tail(s) = Ending(s, Len(s) - 1)
         /\ Head(s) \in Octets /\ Tail(s) \in Seq(Octets) /\ Len(Tail(s)) = Len(s) - 1
<1>1. PICK l \in Nat : l = Len(s)
  OBVIOUS
<1>2. l # 0
  BY <1>1, EmptySeq
<1>3. PICK t \in Seq(Octets) :
        t = Tail(s) /\ Len(t) = l - 1 /\ \A i \in 1 .. Len(t) : t[i] = s[i + 1]
  BY <1>1, HeadTailProperties
<1>4. PICK k \in 0 .. l : k = l - 1 /\ k < l
  BY <1>2
<1>5. PICK c \in Seq(Octets) :
        c = Ending(s, k) /\ Len(c) = k /\ \A i \in 1 .. k : c[i] = s[l - k + i]
  BY <1>1, EndingBytes
<1>6. \A i \in 1 .. k : l - k + i = i + 1
  BY <1>4
<1>7. t = c
  <2>1. Len(t) = Len(c) /\ \A i \in 1 .. Len(t) : t[i] = c[i]
    BY <1>3, <1>4, <1>5, <1>6
  <2> QED BY <2>1, SeqEqual
<1>8. Head(s) \in Octets
  BY HeadTailProperties
<1> QED BY <1>1, <1>3, <1>4, <1>5, <1>7, <1>8

\* The first n bytes.
Beginning(s, n) == SubSeq(s, 1, n)

\* Its length.
LEMMA BeginningBytes ==
  ASSUME NEW s \in Seq(Octets), NEW n \in 0 .. Len(s)
  PROVE  Beginning(s, n) \in Seq(Octets) /\ Len(Beginning(s, n)) = n
<1>1. PICK l \in Nat : l = Len(s) /\ n \in 0 .. l
  OBVIOUS
<1>2. \A i \in 1 .. n : s[i] \in Octets
  BY <1>1, ElementOfSeq
<1>3. /\ SubSeq(s, 1, n) \in Seq(Octets)
      /\ Len(SubSeq(s, 1, n)) = IF 1 <= n THEN n - 1 + 1 ELSE 0
  BY <1>1, <1>2, SubSeqProperties
<1> QED BY <1>1, <1>3 DEF Beginning

\* Getting the bytes of a number raises or leaves the end of the stream.
LEMMA GetFixedLeaves ==
  ASSUME NEW s \in Seq(Octets), NEW size \in Nat
  PROVE  \/ GetFixed(s, size, TRUE) = Raised
         \/ \E y \in Int, n \in 0 .. Len(s) : GetFixed(s, size, TRUE) = Got(y, Ending(s, n))
<1>1. CASE size \in 0 .. Len(s) /\ ~(size > WordBytes)
  <2>1. PICK y : y = FromBigEndian(Beginning(s, size))
    OBVIOUS
  <2>2. Beginning(s, size) \in Seq(Octets)
    BY <1>1, BeginningBytes
  <2>3. y \in Int
    BY <2>1, <2>2, FromBytesNat
  <2>4. PICK n \in 0 .. Len(s) : SubSeq(s, size + 1, Len(s)) = Ending(s, n)
    BY <1>1, Behind
  <2>5. GetFixed(s, size, TRUE) = Got(y, Ending(s, n))
    BY <1>1, <2>1, <2>4 DEF GetFixed, Beginning
  <2> QED BY <2>3, <2>5
<1>2. CASE ~(size \in 0 .. Len(s) /\ ~(size > WordBytes))
  BY <1>2 DEF GetFixed
<1> QED BY <1>1, <1>2

\* Getting a size leaves an end of the stream, and takes a byte at least.
LEMMA GetIntLeaves ==
  ASSUME NEW s \in Seq(Octets)
  PROVE  \/ GetInt(s, 4, TRUE, TRUE) = Raised
         \/ \E y \in Int, n \in 0 .. Len(s) :
              n < Len(s) /\ GetInt(s, 4, TRUE, TRUE) = Got(y, Ending(s, n))
<1>1. CASE s = <<>>
  BY <1>1 DEF GetInt
<1>2. CASE s # <<>>
  <2>2. PICK l \in 0 .. Len(s), t \in Seq(Octets), h \in Octets :
          /\ l = Len(s) - 1 /\ l < Len(s) /\ t = Tail(s) /\ t = Ending(s, l) /\ Len(t) = l
          /\ h = Head(s)
    <3>1. /\ Len(s) - 1 \in 0 .. Len(s) /\ Len(s) - 1 < Len(s)
          /\ Tail(s) = Ending(s, Len(s) - 1)
          /\ Head(s) \in Octets /\ Tail(s) \in Seq(Octets) /\ Len(Tail(s)) = Len(s) - 1
      BY <1>2, TailIsEnding
    <3> QED BY <3>1
  <2>3. PICK k \in Nat : k = h % 128
    <3>1. h \in Nat
      BY OctetNumbers
    <3> QED BY <3>1
  <2>5. GetInt(s, 4, TRUE, TRUE) = Signed(GetFixed(t, k, TRUE), h >= 128)
    BY <1>2, <2>2, <2>3 DEF GetInt, SignBit
  <2>6. CASE GetFixed(t, k, TRUE) = Raised
    <3>1. \A b \in BOOLEAN : Signed(Raised, b) = Raised
      BY DEF Signed, Raised
    <3>2. (h >= 128) \in BOOLEAN
      OBVIOUS
    <3> QED BY <2>5, <2>6, <3>1, <3>2
  <2>7. ASSUME NEW y \in Int, NEW n \in 0 .. Len(t), GetFixed(t, k, TRUE) = Got(y, Ending(t, n))
        PROVE  \E z \in Int, m \in 0 .. Len(s) :
                 m < Len(s) /\ GetInt(s, 4, TRUE, TRUE) = Got(z, Ending(s, m))
    <3>1. n \in 0 .. l /\ n \in 0 .. Len(s) /\ n < Len(s)
      <4>1. Len(s) \in Nat
        OBVIOUS
      <4>2. n \in 0 .. l
        BY <2>2
      <4> QED BY <2>2, <4>1, <4>2
    <3>2. PICK e : e = Ending(s, n) /\ e = Ending(t, n)
      BY <2>2, <3>1, EndingOfEnding
    <3>3. CASE h >= 128
      <4>1. PICK z \in Int : z = -y
        OBVIOUS
      <4>2. Signed(Got(y, e), TRUE) = Got(z, e)
        BY <4>1 DEF Signed, Got
      <4>3. (h >= 128) = TRUE
        BY <3>3
      <4>4. GetInt(s, 4, TRUE, TRUE) = Got(z, Ending(s, n))
        BY <2>5, <2>7, <3>2, <4>2, <4>3
      <4> QED BY <3>1, <4>4
    <3>4. CASE ~(h >= 128)
      <4>1. Signed(Got(y, e), FALSE) = Got(y, e)
        BY DEF Signed, Got
      <4>2. (h >= 128) = FALSE
        BY <3>4
      <4>3. GetInt(s, 4, TRUE, TRUE) = Got(y, Ending(s, n))
        BY <2>5, <2>7, <3>2, <4>1, <4>2
      <4> QED BY <3>1, <4>3
    <3> QED BY <3>3, <3>4
  <2> QED BY <2>3, <2>6, <2>7, GetFixedLeaves
<1> QED BY <1>1, <1>2

\* A chunk's size takes at least one byte, or raises.
LEMMA ChunkSizeLeaves ==
  ASSUME NEW s \in Seq(Octets), NEW big \in BOOLEAN
  PROVE  \/ GetChunkSize(s, big) = Raised
         \/ \E y \in Int, n \in 0 .. Len(s) :
              n < Len(s) /\ GetChunkSize(s, big) = Got(y, Ending(s, n))
<1>1. CASE big = TRUE
  <2>1. GetChunkSize(s, big) = GetInt(s, 4, TRUE, TRUE)
    BY <1>1 DEF GetChunkSize
  <2> QED BY <2>1, GetIntLeaves
<1>2. CASE big = FALSE
  <2>1. GetChunkSize(s, big) = GetByte(s)
    BY <1>2 DEF GetChunkSize
  <2>2. CASE s = <<>>
    BY <2>1, <2>2 DEF GetByte
  <2>3. CASE s # <<>>
    <3>1. GetByte(s) = Got(Head(s), Tail(s))
      BY <2>3 DEF GetByte
    <3>2. PICK y, n : y = Head(s) /\ n = Len(s) - 1
      OBVIOUS
    <3>3. n \in 0 .. Len(s) /\ n < Len(s) /\ Tail(s) = Ending(s, n) /\ y \in Octets
      BY <2>3, <3>2, TailIsEnding
    <3>4. y \in Int
      BY <3>3, OctetNumbers
    <3> QED BY <2>1, <3>1, <3>2, <3>3, <3>4
  <2> QED BY <2>2, <2>3
<1> QED BY <1>1, <1>2

-----------------------------------------------------------------------------
(* Chunks.                                                                 *)

\* What is got of the chunks of u, when g says what is got of fewer bytes.
ChunkStep(u, big, g) ==
  Then(GetChunkSize(u, big), LAMBDA size, t :
    IF size = 0 THEN Got(<<>>, t) ELSE Joined(GetBytes(t, size), g[Len(t) - size]))

\* g says what is got of the chunks of every end of s up to n bytes.
Steps(g, s, big, n) == g = [k \in 0 .. n |-> ChunkStep(Ending(s, k), big, g)]

\* They say the same of fewer than n bytes.
Alike(g, h, n) == \A m \in Nat : m < n => g[m] = h[m]

\* When no size can be got, nothing can.
LEMMA StepRaised ==
  ASSUME NEW u, NEW big, NEW g, GetChunkSize(u, big) = Raised
  PROVE  ChunkStep(u, big, g) = Raised
BY DEF ChunkStep, Then, Raised

\* Joining what was raised raises.
LEMMA JoinedRaised ==
  ASSUME NEW z
  PROVE  Joined(Raised, z) = Raised
BY DEF Joined, Raised

\* A chunk depends on what is said of fewer bytes alone.
LEMMA StepAgrees ==
  ASSUME NEW u \in Seq(Octets), NEW big \in BOOLEAN, NEW g, NEW h,
         Alike(g, h, Len(u))
  PROVE  ChunkStep(u, big, g) = ChunkStep(u, big, h)
<1>1. CASE GetChunkSize(u, big) = Raised
  BY <1>1, StepRaised
<1>2. ASSUME NEW y \in Int, NEW n \in 0 .. Len(u), n < Len(u),
             GetChunkSize(u, big) = Got(y, Ending(u, n))
      PROVE  ChunkStep(u, big, g) = ChunkStep(u, big, h)
  <2>1. PICK t \in Seq(Octets) : t = Ending(u, n) /\ Len(t) = n
    BY EndingBytes
  <2>2. ChunkStep(u, big, g) = IF y = 0 THEN Got(<<>>, t)
                               ELSE Joined(GetBytes(t, y), g[Len(t) - y])
    BY <1>2, <2>1 DEF ChunkStep, Then, Got
  <2>3. ChunkStep(u, big, h) = IF y = 0 THEN Got(<<>>, t)
                               ELSE Joined(GetBytes(t, y), h[Len(t) - y])
    BY <1>2, <2>1 DEF ChunkStep, Then, Got
  <2>4. CASE y = 0
    BY <2>2, <2>3, <2>4
  <2>5. CASE y # 0 /\ y \in 0 .. Len(t)
    <3>1. PICK m \in Nat : m = Len(t) - y /\ m < Len(u)
      <4>1. Len(u) \in Nat
        OBVIOUS
      <4> QED BY <1>2, <2>1, <2>5, <4>1
    <3>2. g[m] = h[m]
      BY <3>1 DEF Alike
    <3> QED BY <2>2, <2>3, <2>5, <3>1, <3>2
  <2>6. CASE y # 0 /\ y \notin 0 .. Len(t)
    <3>1. GetBytes(t, y) = Raised
      BY <2>6 DEF GetBytes
    <3> QED BY <2>2, <2>3, <2>6, <3>1, JoinedRaised
  <2> QED BY <2>4, <2>5, <2>6
<1> QED BY <1>1, <1>2, ChunkSizeLeaves

\* Such steps exist.
LEMMA StepsExist ==
  ASSUME NEW s \in Seq(Octets), NEW big \in BOOLEAN
  PROVE  \E g : Steps(g, s, big, Len(s))
<1> DEFINE T == {n \in Nat : n <= Len(s) => \E g : Steps(g, s, big, n)}
<1>1. 0 \in T
  <2>1. PICK u \in Seq(Octets) : u = Ending(s, 0) /\ Len(u) = 0
    <3>1. 0 \in 0 .. Len(s)
      OBVIOUS
    <3> QED BY <3>1, EndingBytes
  <2>9. PICK e : TRUE
    OBVIOUS
  <2>2. PICK f : f = [k \in 0 .. 0 |-> ChunkStep(u, big, e)]
    OBVIOUS
  <2>3. Alike(f, e, Len(u))
    BY <2>1 DEF Alike
  <2>4. ChunkStep(u, big, f) = ChunkStep(u, big, e)
    BY <2>3, StepAgrees
  <2>5. f = [k \in 0 .. 0 |-> ChunkStep(Ending(s, k), big, f)]
    <3>1. \A k \in 0 .. 0 : k = 0
      OBVIOUS
    <3> QED BY <2>1, <2>2, <2>4, <3>1
  <2> QED BY <2>5 DEF Steps
<1>2. ASSUME NEW n \in Nat, n \in T PROVE n + 1 \in T
  <2>1. ASSUME n + 1 <= Len(s) PROVE \E g : Steps(g, s, big, n + 1)
    <3>1. Len(s) \in Nat /\ n <= Len(s)
      BY <2>1
    <3>2. PICK g : Steps(g, s, big, n)
      BY <1>2, <3>1
    <3>3. PICK f : f = [k \in 0 .. n + 1 |->
                          IF k = n + 1 THEN ChunkStep(Ending(s, n + 1), big, g) ELSE g[k]]
      OBVIOUS
    <3>4. \A m \in Nat : m < n + 1 => g[m] = f[m]
      BY <3>3
    <3>5. ASSUME NEW k \in 0 .. n + 1 PROVE f[k] = ChunkStep(Ending(s, k), big, f)
      <4>1. PICK u \in Seq(Octets) : u = Ending(s, k) /\ Len(u) = k
        <5>1. k \in 0 .. Len(s)
          BY <2>1
        <5> QED BY <5>1, EndingBytes
      <4>2. Alike(g, f, Len(u))
        BY <3>4, <4>1 DEF Alike
      <4>3. ChunkStep(u, big, g) = ChunkStep(u, big, f)
        BY <4>2, StepAgrees
      <4>4. f[k] = ChunkStep(u, big, g)
        <5>1. CASE k = n + 1
          BY <3>3, <4>1, <5>1
        <5>2. CASE k # n + 1
          <6>1. k \in 0 .. n
            BY <5>2
          <6>2. f[k] = g[k]
            BY <3>3, <5>2
          <6>3. g[k] = ChunkStep(Ending(s, k), big, g)
            BY <3>2, <6>1 DEF Steps
          <6> QED BY <4>1, <6>2, <6>3
        <5> QED BY <5>1, <5>2
      <4> QED BY <4>1, <4>3, <4>4
    <3>6. PICK d : d = [k \in 0 .. n + 1 |-> ChunkStep(Ending(s, k), big, f)]
      OBVIOUS
    <3>7. f = d
      BY <3>3, <3>5, <3>6
    <3>8. Steps(f, s, big, n + 1)
      BY <3>6, <3>7 DEF Steps
    <3> QED BY <3>8
  <2> QED BY <2>1
<1>3. Len(s) \in T
  <2> HIDE DEF T
  <2> QED BY <1>1, <1>2, Induction
<1>4. Len(s) \in Nat
  OBVIOUS
<1> QED BY <1>3, <1>4

\* They have the same last n bytes.
SameEndings(s, t, n) == \A k \in Nat : k <= n => Ending(s, k) = Ending(t, k)

\* What is got of an end depends on nothing in front of it.
LEMMA StepsAgree ==
  ASSUME NEW s \in Seq(Octets), NEW t \in Seq(Octets), NEW big \in BOOLEAN,
         NEW m \in 0 .. Len(s), NEW n \in 0 .. Len(t), n <= m,
         NEW g, Steps(g, s, big, m), NEW h, Steps(h, t, big, n),
         SameEndings(s, t, n)
  PROVE  g[n] = h[n]
<1> DEFINE T == {i \in Nat : \A k \in Nat : k < i /\ k <= n => g[k] = h[k]}
<1>1. 0 \in T
  OBVIOUS
<1>2. ASSUME NEW i \in Nat, i \in T PROVE i + 1 \in T
  <2>1. ASSUME i <= n PROVE g[i] = h[i]
    <3>1. PICK u \in Seq(Octets) : u = Ending(s, i) /\ u = Ending(t, i) /\ Len(u) = i
      <4>1. i \in 0 .. Len(s)
        BY <2>1
      <4>2. Ending(s, i) = Ending(t, i)
        BY <2>1 DEF SameEndings
      <4> QED BY <4>1, <4>2, EndingBytes
    <3>2. Alike(g, h, Len(u))
      BY <1>2, <2>1, <3>1 DEF Alike
    <3>3. ChunkStep(u, big, g) = ChunkStep(u, big, h)
      BY <3>2, StepAgrees
    <3>4. i \in 0 .. m /\ i \in 0 .. n
      BY <2>1
    <3>5. g[i] = ChunkStep(u, big, g)
      BY <3>1, <3>4 DEF Steps
    <3>6. h[i] = ChunkStep(u, big, h)
      BY <3>1, <3>4 DEF Steps
    <3> QED BY <3>3, <3>5, <3>6
  <2>2. \A k \in Nat : k < i + 1 => k < i \/ k = i
    OBVIOUS
  <2> QED BY <1>2, <2>1, <2>2
<1>3. n + 1 \in T
  <2>1. n + 1 \in Nat
    OBVIOUS
  <2> HIDE DEF T
  <2> QED BY <1>1, <1>2, <2>1, Induction
<1> QED BY <1>3

\* GetChunks is what such a function says of the whole stream.
LEMMA GetChunksIs ==
  ASSUME NEW s \in Seq(Octets), NEW big \in BOOLEAN, NEW g, Steps(g, s, big, Len(s))
  PROVE  GetChunks(s, big) = g[Len(s)]
<1> DEFINE body(f) == [k \in 0 .. Len(s) |-> ChunkStep(Ending(s, k), big, f)]
           h == CHOOSE f : f = body(f)
<1>1. g = body(g)
  BY DEF Steps
<1>2. h = body(h)
  <2> HIDE DEF body
  <2> QED BY <1>1
<1>3. GetChunks(s, big) = h[Len(s)]
  BY DEF GetChunks, ChunkStep, Ending
<1> HIDE DEF h
<1>4. Steps(h, s, big, Len(s))
  BY <1>2 DEF Steps
<1>5. h[Len(s)] = g[Len(s)]
  <2>1. PICK l \in Nat : l = Len(s) /\ l <= l /\ l \in 0 .. Len(s)
    OBVIOUS
  <2>2. SameEndings(s, s, l)
    BY DEF SameEndings
  <2>3. Steps(h, s, big, l) /\ Steps(g, s, big, l)
    BY <1>4, <2>1
  <2>4. h[l] = g[l]
    BY <2>1, <2>2, <2>3, StepsAgree
  <2> QED BY <2>1, <2>4
<1> QED BY <1>3, <1>5

\* Chunks are got one after the other: the empty one is the last.
LEMMA LastChunk ==
  ASSUME NEW s \in Seq(Octets), NEW big \in BOOLEAN, NEW t,
         GetChunkSize(s, big) = Got(0, t)
  PROVE  GetChunks(s, big) = Got(<<>>, t)
<1>1. PICK l \in Nat : l = Len(s) /\ l \in 0 .. l
  OBVIOUS
<1>2. PICK g : Steps(g, s, big, l)
  BY <1>1, StepsExist
<1>3. g[l] = ChunkStep(Ending(s, l), big, g)
  BY <1>1, <1>2 DEF Steps
<1>4. Ending(s, l) = s
  BY <1>1, EndingAll
<1>5. ChunkStep(s, big, g) = Got(<<>>, t)
  BY DEF ChunkStep, Then, Got
<1>6. GetChunks(s, big) = g[l]
  BY <1>1, <1>2, GetChunksIs
<1> QED BY <1>3, <1>4, <1>5, <1>6

\* q is the end of s.
EndsWith(s, q) == \E m \in Nat : m = Len(q) /\ m \in 0 .. Len(s) /\ Ending(s, m) = q

\* What follows some bytes ends both.
LEMMA EndsWithIs ==
  ASSUME NEW b \in Seq(Octets), NEW q \in Seq(Octets)
  PROVE  EndsWith(b \o q, q)
<1>1. Len(b \o q) = Len(b) + Len(q) /\ Ending(b \o q, Len(q)) = q
  BY FrontAndRest, EndingOfBoth
<1>2. PICK l \in Nat, m \in Nat : l = Len(b) /\ m = Len(q)
  OBVIOUS
<1>3. m \in 0 .. Len(b \o q)
  BY <1>1, <1>2
<1> QED BY <1>1, <1>2, <1>3 DEF EndsWith

\* The same is got of the same bytes left.
LEMMA SameLeft ==
  ASSUME NEW s \in Seq(Octets), NEW q \in Seq(Octets), NEW big \in BOOLEAN,
         EndsWith(s, q), NEW g, Steps(g, s, big, Len(s))
  PROVE  GetChunks(q, big) = g[Len(q)]
<1>1. PICK m \in Nat : m = Len(q) /\ m \in 0 .. Len(s) /\ Ending(s, m) = q
  BY DEF EndsWith
<1>2. PICK h : Steps(h, q, big, m)
  BY <1>1, StepsExist
<1>3. GetChunks(q, big) = h[m]
  BY <1>1, <1>2, GetChunksIs
<1>4. SameEndings(s, q, m)
  <2>1. ASSUME NEW k \in Nat, k <= m PROVE Ending(s, k) = Ending(q, k)
    <3>1. k \in 0 .. m
      BY <2>1
    <3> QED BY <1>1, <3>1, EndingOfEnding
  <2> QED BY <2>1 DEF SameEndings
<1>5. PICK l \in 0 .. Len(s) : l = Len(s) /\ m <= l
  <2>1. Len(s) \in Nat
    OBVIOUS
  <2> QED BY <1>1, <2>1
<1>6. PICK j \in 0 .. Len(q) : j = m
  BY <1>1
<1>7. j <= l /\ Steps(g, s, big, l) /\ Steps(h, q, big, j) /\ SameEndings(s, q, j)
  BY <1>2, <1>4, <1>5, <1>6
<1>8. g[j] = h[j]
  BY <1>7, StepsAgree
<1> QED BY <1>1, <1>3, <1>6, <1>8

\* A chunk is in front of what is got of the others.
LEMMA NextChunk ==
  ASSUME NEW s \in Seq(Octets), NEW big \in BOOLEAN,
         NEW c \in Seq(Octets), NEW q \in Seq(Octets), EndsWith(s, q),
         GetChunkSize(s, big) = Got(Len(c), c \o q), Len(c) # 0
  PROVE  GetChunks(s, big) = Joined(Got(c, q), GetChunks(q, big))
<1>1. PICK l \in Nat : l = Len(s) /\ l \in 0 .. l
  OBVIOUS
<1>2. PICK g : Steps(g, s, big, l)
  BY <1>1, StepsExist
<1>3. g[l] = ChunkStep(Ending(s, l), big, g)
  BY <1>1, <1>2 DEF Steps
<1>4. Ending(s, l) = s
  BY <1>1, EndingAll
<1>15. PICK t \in Seq(Octets) : t = c \o q
  BY FrontAndRest
<1>16. PICK y \in Nat : y = Len(c) /\ y # 0
  OBVIOUS
<1>5. t = c \o q /\ y = Len(c) /\ y # 0
  BY <1>15, <1>16
<1>6. PICK m \in Nat : m = Len(q) /\ Len(t) - y = m
  <2>1. Len(c \o q) = Len(c) + Len(q)
    BY FrontAndRest
  <2> QED BY <1>5, <2>1
<1>7. ChunkStep(s, big, g) = Joined(GetBytes(t, y), g[m])
  <2>1. GetChunkSize(s, big) = Got(y, t)
    BY <1>5
  <2>2. ChunkStep(s, big, g) = Joined(GetBytes(t, y), g[Len(t) - y])
    BY <1>5, <2>1 DEF ChunkStep, Then, Got
  <2> QED BY <1>6, <2>2
<1>8. GetBytes(t, y) = Got(c, q)
  BY <1>5, GetBytesBack
<1>10. GetChunks(q, big) = g[m]
  BY <1>1, <1>2, <1>6, SameLeft
<1>11. GetChunks(s, big) = g[l]
  BY <1>1, <1>2, GetChunksIs
<1> QED BY <1>3, <1>4, <1>7, <1>8, <1>10, <1>11

-----------------------------------------------------------------------------
(* Byte strings one after the other.                                       *)

\* h has, for every i, the first i of the n strings as one.
Flats(S, h, f, n) ==
  /\ h \in [1 .. n -> Seq(S)]
  /\ n # 0 => h[1] = f[1]
  /\ \A i \in 2 .. n : h[i] = h[i - 1] \o f[i]

\* Such sequences exist.
LEMMA FlatsExist ==
  ASSUME NEW S, NEW n \in Nat, NEW f \in [1 .. n -> Seq(S)]
  PROVE  \E h : Flats(S, h, f, n)
<1> DEFINE T == {m \in Nat : m <= n => \E h : Flats(S, h, f, m)}
<1>1. 0 \in T
  <2>1. PICK h : h = [i \in 1 .. 0 |-> f[i]]
    OBVIOUS
  <2>2. Flats(S, h, f, 0)
    BY <2>1 DEF Flats
  <2> QED BY <2>2
<1>2. ASSUME NEW m \in Nat, m \in T PROVE m + 1 \in T
  <2>1. ASSUME m + 1 <= n PROVE \E h : Flats(S, h, f, m + 1)
    <3>1. PICK g : Flats(S, g, f, m)
      BY <1>2, <2>1
    <3>2. g \in [1 .. m -> Seq(S)]
      BY <3>1 DEF Flats
    <3>3. PICK c \in Seq(S) : c = f[m + 1]
      <4>1. m + 1 \in 1 .. n
        BY <2>1
      <4> QED BY <4>1
    <3>4. PICK x \in Seq(S) : x = IF m = 0 THEN c ELSE g[m] \o c
      <4>1. CASE m = 0
        BY <4>1
      <4>2. CASE m # 0
        <5>1. PICK b \in Seq(S) : b = g[m]
          <6>1. m \in 1 .. m
            BY <4>2
          <6> QED BY <3>2, <6>1
        <5>2. b \o c \in Seq(S)
          OBVIOUS
        <5> QED BY <4>2, <5>1, <5>2
      <4> QED BY <4>1, <4>2
    <3>5. PICK h : h = [i \in 1 .. m + 1 |-> IF i = m + 1 THEN x ELSE g[i]]
      OBVIOUS
    <3>6. h \in [1 .. m + 1 -> Seq(S)]
      <4>1. \A i \in 1 .. m + 1 : i = m + 1 \/ i \in 1 .. m
        OBVIOUS
      <4> QED BY <3>2, <3>5, <4>1
    <3>7. h[1] = f[1]
      <4>1. 1 \in 1 .. m + 1
        OBVIOUS
      <4>2. CASE m = 0
        BY <3>3, <3>4, <3>5, <4>1, <4>2
      <4>3. CASE m # 0
        BY <3>1, <3>5, <4>1, <4>3 DEF Flats
      <4> QED BY <4>2, <4>3
    <3>8. ASSUME NEW i \in 2 .. m + 1 PROVE h[i] = h[i - 1] \o f[i]
      <4>1. i \in 1 .. m + 1 /\ i - 1 \in 1 .. m + 1 /\ i - 1 # m + 1 /\ m # 0
        OBVIOUS
      <4>2. h[i - 1] = g[i - 1]
        BY <3>5, <4>1
      <4>3. CASE i = m + 1
        <5>1. h[i] = x /\ i - 1 = m
          BY <3>5, <4>1, <4>3
        <5> QED BY <3>3, <3>4, <4>1, <4>2, <4>3, <5>1
      <4>4. CASE i # m + 1
        <5>1. i \in 2 .. m /\ h[i] = g[i]
          BY <3>5, <4>1, <4>4
        <5> QED BY <3>1, <4>2, <5>1 DEF Flats
      <4> QED BY <4>3, <4>4
    <3>9. Flats(S, h, f, m + 1)
      BY <3>6, <3>7, <3>8 DEF Flats
    <3> QED BY <3>9
  <2> QED BY <2>1
<1>3. n \in T
  <2> HIDE DEF T
  <2> QED BY <1>1, <1>2, Induction
<1> QED BY <1>3

\* FlattenSeq is the last of them.
LEMMA FlattenIs ==
  ASSUME NEW S, NEW n \in Nat, n # 0, NEW f \in [1 .. n -> Seq(S)]
  PROVE  \E h : Flats(S, h, f, n) /\ FlattenSeq(f) = h[n]
<1>1. f \in Seq(Seq(S)) /\ Len(f) = n
  OBVIOUS
<1> DEFINE body(g) == [i \in 1 .. n |-> IF i = 1 THEN f[i] ELSE g[i - 1] \o f[i]]
           h == CHOOSE g : g = body(g)
<1>2. PICK g : Flats(S, g, f, n)
  BY FlatsExist
<1>3. g = body(g)
  <2>1. g \in [1 .. n -> Seq(S)]
    BY <1>2 DEF Flats
  <2>2. ASSUME NEW i \in 1 .. n PROVE g[i] = IF i = 1 THEN f[i] ELSE g[i - 1] \o f[i]
    <3>1. i = 1 \/ i \in 2 .. n
      OBVIOUS
    <3> QED BY <1>2, <3>1 DEF Flats
  <2>3. PICK d : d = body(g)
    OBVIOUS
  <2>4. \A i \in 1 .. n : d[i] = g[i]
    BY <2>2, <2>3
  <2>5. d = [i \in 1 .. n |-> d[i]]
    BY <2>3
  <2> QED BY <2>1, <2>3, <2>4, <2>5
<1>4. h = body(h)
  <2> HIDE DEF body
  <2> QED BY <1>3
<1>5. FlattenSeq(f) = h[n]
  BY <1>1 DEF FlattenSeq
<1> HIDE DEF h
<1> DEFINE T == {m \in Nat : m + 1 <= n => h[m + 1] = g[m + 1]}
<1>6. 0 \in T
  <2>1. 1 \in 1 .. n
    OBVIOUS
  <2> QED BY <1>2, <1>4, <2>1 DEF Flats
<1>7. ASSUME NEW m \in Nat, m \in T PROVE m + 1 \in T
  <2>1. ASSUME (m + 1) + 1 <= n PROVE h[(m + 1) + 1] = g[(m + 1) + 1]
    <3>1. PICK i \in 2 .. n : i = (m + 1) + 1 /\ i - 1 = m + 1 /\ i # 1 /\ i \in 1 .. n
      BY <2>1
    <3>2. h[i] = h[i - 1] \o f[i]
      BY <1>4, <3>1
    <3>3. g[i] = g[i - 1] \o f[i]
      BY <1>2 DEF Flats
    <3>4. h[i - 1] = g[i - 1]
      BY <1>7, <2>1, <3>1
    <3> QED BY <3>1, <3>2, <3>3, <3>4
  <2> QED BY <2>1
<1>8. n - 1 \in T
  <2>1. n - 1 \in Nat
    OBVIOUS
  <2> HIDE DEF T
  <2> QED BY <1>6, <1>7, <2>1, Induction
<1>9. h[n] = g[n]
  <2>1. n - 1 \in Nat /\ (n - 1) + 1 = n
    OBVIOUS
  <2> QED BY <1>8, <2>1
<1> QED BY <1>2, <1>5, <1>9

-----------------------------------------------------------------------------
(* Strings in chunks are got as they were put.                             *)

\* What fits into two bytes; the number itself is in no other lemma's way.
Short(n) == n <= 65535

\* The sizes of chunks, and what of them fits into how many bytes.
LEMMA ChunkNumbers ==
  /\ BigChunk \in Nat /\ BigChunk >= 1 /\ Short(BigChunk)
  /\ SmallChunk \in Nat /\ SmallChunk >= 1 /\ SmallChunk <= 255
<1>1. SmallChunk \in Nat /\ SmallChunk >= 1 /\ SmallChunk <= 255
  BY ChunkAssumption
<1>2. BigChunk \in Nat /\ BigChunk >= 1
  BY ChunkAssumption
<1>3. Short(BigChunk)
  BY ChunkAssumption DEF Short
<1> QED BY <1>1, <1>2, <1>3

\* Chunks are not empty.
LEMMA ChunkSizes ==
  ASSUME NEW big \in BOOLEAN
  PROVE  ChunkSize(big) \in Nat /\ ChunkSize(big) >= 1
<1>1. CASE big = TRUE
  BY <1>1, ChunkNumbers DEF ChunkSize
<1>2. CASE big = FALSE
  BY <1>2, ChunkNumbers DEF ChunkSize
<1> QED BY <1>1, <1>2

\* A number that the size of a chunk has room for.
SizeOfChunk(n, big) == n \in Nat /\ n <= ChunkSize(big)

\* A number up to a short one.
LEMMA ShortNumber ==
  ASSUME NEW n \in Nat, NEW c \in Nat, n <= c, Short(c)
  PROVE  n <= 65535
BY DEF Short

\* A chunk's size in the big form has two bytes,
LEMMA TwoByteSize ==
  ASSUME NEW n, SizeOfChunk(n, TRUE)
  PROVE  n \in Wide(2)
<1>1. n \in Nat /\ n <= BigChunk
  BY DEF SizeOfChunk, ChunkSize
<1>2. n <= 65535
  BY <1>1, ChunkNumbers, ShortNumber
<1> QED BY <1>1, <1>2, UpToTwoBytes

\* and in the other form one.
LEMMA OctetSize ==
  ASSUME NEW n, SizeOfChunk(n, FALSE)
  PROVE  n \in Octets
<1>1. n \in Nat /\ n <= SmallChunk
  BY DEF SizeOfChunk, ChunkSize
<1>2. n \in 0 .. 255
  BY <1>1, ChunkNumbers
<1> QED BY <1>2, NumbersOfOctets

\* The size of a chunk is got as it was put.
LEMMA ChunkSizeBack ==
  ASSUME NEW big \in BOOLEAN, NEW n, SizeOfChunk(n, big), NEW r \in Seq(Octets)
  PROVE  /\ PutChunkSize(n, big) \in Seq(Octets)
         /\ GetChunkSize(PutChunkSize(n, big) \o r, big) = Got(n, r)
<1>1. CASE big = TRUE
  <2>1. n \in Wide(2)
    BY <1>1, TwoByteSize
  <2>2. n \in Nat /\ n \in Wide(WordBytes) /\ Fits(n, 4)
    BY <2>1, WideNat, TwoByteNumber
  <2>3. 4 \in Nat /\ 4 <= WordBytes /\ TRUE \in BOOLEAN
    BY WidthAssumption
  <2>4. /\ PutInt(n, 4, TRUE, TRUE) \in Seq(Octets)
        /\ \E v : /\ GetInt(PutInt(n, 4, TRUE, TRUE) \o r, 4, TRUE, TRUE) = Got(v, r)
                  /\ n \in Wide(WordBytes) => v = n
    BY <2>2, <2>3, PutIntBack
  <2>5. PutInt(n, 4, TRUE, TRUE) = PutChunkSize(n, big)
    BY <1>1 DEF PutChunkSize
  <2>6. \A s : GetChunkSize(s, big) = GetInt(s, 4, TRUE, TRUE)
    BY <1>1 DEF GetChunkSize
  <2> QED BY <2>2, <2>4, <2>5, <2>6
<1>2. CASE big = FALSE
  <2>1. n \in Octets
    BY <1>2, OctetSize
  <2>2. PutChunkSize(n, big) = <<n>> /\ \A s : GetChunkSize(s, big) = GetByte(s)
    BY <1>2 DEF PutChunkSize, GetChunkSize
  <2>3. <<n>> \in Seq(Octets)
    BY <2>1
  <2>4. GetByte(<<n>> \o r) = Got(n, r)
    BY <2>1, GetByteBack
  <2> QED BY <2>2, <2>3, <2>4
<1> QED BY <1>1, <1>2

\* No bytes stand for 0.
LEMMA NothingToSum ==
  FromBigEndian(<<>>) = 0
<1>1. <<>> \in Seq(Octets) /\ Len(<<>>) = 0
  OBVIOUS
<1>2. PICK g : Sums(g, <<>>)
  BY <1>1, SumsExist
<1>3. FromBigEndian(<<>>) = g[Len(<<>>)]
  BY <1>1, <1>2, FromBytesSums
<1>4. g[0] = 0
  BY <1>2 DEF Sums
<1> QED BY <1>1, <1>3, <1>4

\* The empty chunk.
LEMMA EndOfChunks ==
  ASSUME NEW big \in BOOLEAN, NEW r \in Seq(Octets)
  PROVE  GetChunkSize(<<0>> \o r, big) = Got(0, r)
<1>0. 0 \in Octets
  <2>1. 0 \in 0 .. 255
    OBVIOUS
  <2> QED BY <2>1, NumbersOfOctets
<1>1. CASE big = TRUE
  <2>1. <<>> \in Seq(Octets) /\ Len(<<>>) = 0 /\ 0 <= WordBytes /\ 4 \in Nat
    BY WidthAssumption
  <2>2. PICK n \in Octets : /\ n = Len(<<>>)
                            /\ GetInt((<<n>> \o <<>>) \o r, 4, TRUE, TRUE)
                                 = Got(FromBigEndian(<<>>), r)
    BY <2>1, CompressedRead
  <2>3. <<0>> \o <<>> = <<0>>
    OBVIOUS
  <2>4. n = 0
    BY <2>1, <2>2
  <2> QED BY <1>1, <2>2, <2>3, <2>4, NothingToSum DEF GetChunkSize
<1>2. CASE big = FALSE
  BY <1>0, <1>2, GetByteBack DEF GetChunkSize
<1> QED BY <1>1, <1>2

\* m is as many chunks of c bytes as l bytes need.
Enough(m, l, c) == m = (l + c - 1) \div c /\ m >= 1 /\ (m - 1) * c < l /\ l <= m * c

\* There are as many chunks as needed, and each has its bounds.
LEMMA EnoughChunks ==
  ASSUME NEW c \in Nat, c >= 1, NEW l \in Nat, l >= 1
  PROVE  \E m \in Nat : Enough(m, l, c)
<1>1. PICK m : m = (l + c - 1) \div c
  OBVIOUS
<1>2. m \in Nat
  BY <1>1, SMTT(30)
<1>3. l + c - 1 < (m + 1) * c
  BY <1>1, <1>2, SMTT(30)
<1>4. m * c <= l + c - 1
  BY <1>1, <1>2, SMTT(30)
<1>5. m >= 1 /\ (m - 1) * c < l /\ l <= m * c
  BY <1>1, <1>2, <1>3, <1>4, SMTT(30)
<1> QED BY <1>1, <1>2, <1>5 DEF Enough

\* Chunk k of m is from a to b.
Bounds(a, b, k, m, l, c) ==
  /\ a = (k - 1) * c /\ b = Min({k * c, l})
  /\ a < b /\ b <= l /\ b - a <= c /\ (k < m => b = k * c)

\* A chunk's bounds exist.
LEMMA ChunkBounds ==
  ASSUME NEW c \in Nat, c >= 1, NEW l \in Nat, NEW m \in Nat, Enough(m, l, c),
         NEW k \in Nat, k >= 1, k <= m
  PROVE  \E a \in Nat, b \in Nat : Bounds(a, b, k, m, l, c)
<1>0. (m - 1) * c < l
  BY DEF Enough
<1>1. PICK a \in Nat : a = (k - 1) * c
  OBVIOUS
<1>2. PICK d \in Nat : d = k * c /\ d = a + c
  BY <1>1, SMTT(30)
<1>3. a < l
  <2>1. (k - 1) * c <= (m - 1) * c
    BY SMTT(30)
  <2> QED BY <1>0, <1>1, <2>1
<1>4. k < m => d <= l
  <2>1. ASSUME k < m PROVE k * c <= (m - 1) * c
    BY <2>1, SMTT(30)
  <2>2. (m - 1) * c \in Int
    OBVIOUS
  <2> QED BY <1>0, <1>2, <2>1, <2>2
<1>5. PICK b \in Nat : b = Min({d, l}) /\ b = IF d <= l THEN d ELSE l
  <2>1. PICK b \in Nat : b = IF d <= l THEN d ELSE l
    OBVIOUS
  <2> QED BY <2>1, SmallerIs
<1>6. a < b /\ b <= l /\ b - a <= c /\ (k < m => b = d)
  <2> HIDE <1>1
  <2>1. d = a + c
    BY <1>2
  <2> QED BY <1>3, <1>4, <1>5, <2>1
<1>7. b = Min({k * c, l}) /\ (k < m => b = k * c)
  <2>1. k * c = d
    BY <1>2
  <2> QED BY <1>5, <1>6, <2>1
<1> QED BY <1>1, <1>6, <1>7 DEF Bounds

\* A piece behind the beginning makes a longer beginning.
LEMMA Piece ==
  ASSUME NEW s \in Seq(Octets), NEW a \in Nat, NEW b \in Nat, a < b, b <= Len(s)
  PROVE  \E p \in Seq(Octets) :
           /\ p = SubSeq(s, a + 1, b) /\ Len(p) = b - a
           /\ Beginning(s, a) \o p = Beginning(s, b)
<1>1. PICK l \in Nat : l = Len(s) /\ b <= l
  OBVIOUS
<1>2. \A i \in a + 1 .. b : s[i] \in Octets
  <2>1. ASSUME NEW i \in a + 1 .. b PROVE s[i] \in Octets
    <3>1. i \in 1 .. l
      BY <1>1
    <3> QED BY <1>1, <3>1, ElementOfSeq
  <2> QED BY <2>1
<1>3. PICK p : p = SubSeq(s, a + 1, b)
  OBVIOUS
<1>4. p \in Seq(Octets) /\ Len(p) = b - a
  <2>1. a + 1 \in Int /\ b \in Int
    OBVIOUS
  <2>2. /\ SubSeq(s, a + 1, b) \in Seq(Octets)
        /\ Len(SubSeq(s, a + 1, b)) = IF a + 1 <= b THEN b - (a + 1) + 1 ELSE 0
    BY <1>2, <2>1, SubSeqProperties
  <2> QED BY <1>3, <2>2
<1>5. SubSeq(s, 1, a) \o SubSeq(s, a + 1, b) = SubSeq(s, 1, b)
  <2>1. 1 \in 1 .. Len(s) + 1 /\ a \in 1 - 1 .. Len(s) /\ b \in a .. Len(s)
    BY <1>1
  <2> QED BY <2>1, ConcatAdjacentSubSeq
<1>6. Beginning(s, a) \o p = Beginning(s, b)
  BY <1>3, <1>5 DEF Beginning
<1> QED BY <1>3, <1>4, <1>6

\* One string and another behind it.
Both(b, c) == b \o c

\* Both are bytes.
LEMMA BothBytes ==
  ASSUME NEW b \in Seq(Octets), NEW c \in Seq(Octets)
  PROVE  Both(b, c) \in Seq(Octets)
BY FrontAndRest DEF Both

\* Three are joined from either side.
LEMMA BothTogether ==
  ASSUME NEW b \in Seq(Octets), NEW c \in Seq(Octets), NEW d \in Seq(Octets)
  PROVE  Both(Both(b, c), d) = Both(b, Both(c, d))
BY ConcatAssociative DEF Both

\* The same of strings over any alphabet.
LEMMA JoinBytes ==
  ASSUME NEW S, NEW b \in Seq(S), NEW c \in Seq(S)
  PROVE  Both(b, c) \in Seq(S)
BY DEF Both

\* The same of bytes and tokens.
LEMMA JoinTogether ==
  ASSUME NEW S, NEW b \in Seq(S), NEW c \in Seq(S), NEW d \in Seq(S)
  PROVE  Both(Both(b, c), d) = Both(b, Both(c, d))
BY DEF Both

\* Read in front of chunks, the bytes b are the data v.
ReadsAs(b, v, big) ==
  \A w \in Seq(Octets), e \in Seq(Octets), r \in Seq(Octets) :
    GetChunks(w, big) = Got(e, r) => GetChunks(Both(b, w), big) = Got(Both(v, e), r)

\* Joining what was got.
LEMMA JoinedGot ==
  ASSUME NEW p, NEW e, NEW w, NEW r
  PROVE  Joined(Got(p, w), Got(e, r)) = Got(Both(p, e), r)
BY DEF Joined, Got, Both

\* One chunk reads as its piece, and two strings of chunks as both.
LEMMA OneChunk ==
  ASSUME NEW big \in BOOLEAN, NEW p \in Seq(Octets), Len(p) # 0, SizeOfChunk(Len(p), big)
  PROVE  \E x \in Seq(Octets) : /\ x = PutChunkSize(Len(p), big) \o p
                                /\ ReadsAs(x, p, big)
<1>2. PICK z \in Seq(Octets) : z = PutChunkSize(Len(p), big)
  BY ChunkSizeBack
<1>3. PICK x \in Seq(Octets) : x = Both(z, p)
  BY BothBytes
<1>4. ASSUME NEW w \in Seq(Octets), NEW e \in Seq(Octets), NEW r \in Seq(Octets),
             GetChunks(w, big) = Got(e, r)
      PROVE  GetChunks(Both(x, w), big) = Got(Both(p, e), r)
  <2>1. PICK t \in Seq(Octets) : t = Both(p, w)
    BY BothBytes
  <2>3. PICK s \in Seq(Octets) : s = Both(x, w)
    BY BothBytes
  <2>4. s = Both(z, t)
    BY <1>3, <2>1, <2>3, BothTogether
  <2>2. GetChunkSize(s, big) = Got(Len(p), t)
    <3>1. GetChunkSize(PutChunkSize(Len(p), big) \o t, big) = Got(Len(p), t)
      BY ChunkSizeBack
    <3> QED BY <1>2, <2>4, <3>1 DEF Both
  <2>5. EndsWith(s, w)
    BY <2>3, EndsWithIs DEF Both
  <2>6. GetChunkSize(s, big) = Got(Len(p), p \o w)
    BY <2>1, <2>2 DEF Both
  <2>7. GetChunks(s, big) = Joined(Got(p, w), GetChunks(w, big))
    BY <2>5, <2>6, NextChunk
  <2>8. Joined(Got(p, w), Got(e, r)) = Got(Both(p, e), r)
    BY JoinedGot
  <2> QED BY <1>4, <2>3, <2>7, <2>8
<1>5. ReadsAs(x, p, big)
  BY <1>4 DEF ReadsAs
<1>6. x = PutChunkSize(Len(p), big) \o p
  BY <1>2, <1>3 DEF Both
<1> QED BY <1>5, <1>6

\* What is read of two strings, one after the other.
LEMMA BothRead ==
  ASSUME NEW big \in BOOLEAN,
         NEW b \in Seq(Octets), NEW v \in Seq(Octets), ReadsAs(b, v, big),
         NEW c \in Seq(Octets), NEW u \in Seq(Octets), ReadsAs(c, u, big)
  PROVE  ReadsAs(Both(b, c), Both(v, u), big)
<1>3. ASSUME NEW w \in Seq(Octets), NEW e \in Seq(Octets), NEW r \in Seq(Octets),
             GetChunks(w, big) = Got(e, r)
      PROVE  GetChunks(Both(Both(b, c), w), big) = Got(Both(Both(v, u), e), r)
  <2>1. Both(c, w) \in Seq(Octets) /\ Both(u, e) \in Seq(Octets)
    BY BothBytes
  <2>3. GetChunks(Both(c, w), big) = Got(Both(u, e), r)
    BY <1>3 DEF ReadsAs
  <2>4. GetChunks(Both(b, Both(c, w)), big) = Got(Both(v, Both(u, e)), r)
    BY <2>1, <2>3 DEF ReadsAs
  <2>5. Both(Both(b, c), w) = Both(b, Both(c, w)) /\ Both(Both(v, u), e) = Both(v, Both(u, e))
    BY BothTogether
  <2> QED BY <2>4, <2>5
<1> QED BY <1>3 DEF ReadsAs

\* How many chunks a string has, and where chunk k ends.
ChunkCount(data, big) == (Len(data) + ChunkSize(big) - 1) \div ChunkSize(big)

\* Where chunk k ends, and its bytes.
ChunkEnd(data, k, big) == Min({k * ChunkSize(big), Len(data)})

ChunkBytes(data, k, big) ==
  PutChunkSize(Len(Chunk(data, k, big)), big) \o Chunk(data, k, big)

\* A chunk is the piece up to its end, and reads as that.
LEMMA ChunkIs ==
  ASSUME NEW big \in BOOLEAN, NEW data \in Seq(Octets), data # <<>>,
         NEW k \in Nat, k >= 1, k <= ChunkCount(data, big)
  PROVE  \E a \in 0 .. Len(data), b \in 0 .. Len(data) :
           /\ b = ChunkEnd(data, k, big)
           /\ k = 1 => a = 0
           /\ k # 1 => a = ChunkEnd(data, k - 1, big)
           /\ Chunk(data, k, big) \in Seq(Octets) /\ ChunkBytes(data, k, big) \in Seq(Octets)
           /\ Both(Beginning(data, a), Chunk(data, k, big)) = Beginning(data, b)
           /\ ReadsAs(ChunkBytes(data, k, big), Chunk(data, k, big), big)
<1>1. PICK l \in Nat : l = Len(data) /\ l >= 1
  <2>1. Len(data) # 0
    BY EmptySeq
  <2> QED BY <2>1
<1>2. PICK c \in Nat : c = ChunkSize(big) /\ c >= 1
  BY ChunkSizes
<1>3. PICK m \in Nat : Enough(m, l, c)
  BY <1>1, <1>2, EnoughChunks
<1>4. k <= m
  BY <1>1, <1>2, <1>3 DEF ChunkCount, Enough
<1>13. PICK a \in Nat, b \in Nat : Bounds(a, b, k, m, l, c)
  BY <1>2, <1>3, <1>4, ChunkBounds
<1>5. /\ a = (k - 1) * c /\ b = Min({k * c, l})
      /\ a < b /\ b <= l /\ b - a <= c /\ (k < m => b = k * c)
  BY <1>13 DEF Bounds
<1>6. b = ChunkEnd(data, k, big)
  BY <1>1, <1>2, <1>5 DEF ChunkEnd
<1>7. k = 1 => a = 0
  <2> HIDE <1>3
  <2> QED BY <1>5
<1>8. ASSUME k # 1 PROVE a = ChunkEnd(data, k - 1, big)
  <2>1. PICK j \in Nat : j = k - 1 /\ j >= 1 /\ j < m /\ j <= m
    BY <1>4, <1>8
  <2>6. PICK d \in Nat, e \in Nat : Bounds(d, e, j, m, l, c)
    BY <1>2, <1>3, <2>1, ChunkBounds
  <2>2. e = Min({j * c, l}) /\ (j < m => e = j * c)
    BY <2>6 DEF Bounds
  <2>3. e = j * c
    BY <2>1, <2>2
  <2>4. a = j * c
    BY <1>5, <2>1
  <2>5. e = ChunkEnd(data, j, big)
    BY <1>1, <1>2, <2>2 DEF ChunkEnd
  <2> QED BY <2>1, <2>3, <2>4, <2>5
<1>9. PICK p \in Seq(Octets) :
           /\ p = SubSeq(data, a + 1, b) /\ Len(p) = b - a
           /\ Beginning(data, a) \o p = Beginning(data, b)
  BY <1>1, <1>5, Piece
<1>10. p = Chunk(data, k, big)
  BY <1>1, <1>2, <1>5, <1>9 DEF Chunk
<1>11. ChunkBytes(data, k, big) \in Seq(Octets) /\ ReadsAs(ChunkBytes(data, k, big), p, big)
  <2>1. Len(p) # 0 /\ SizeOfChunk(Len(p), big)
    <3>1. PICK n \in Nat : n = b - a /\ n # 0 /\ n <= c
      BY <1>5
    <3> QED BY <1>2, <1>9, <3>1 DEF SizeOfChunk
  <2>2. PICK x \in Seq(Octets) : x = PutChunkSize(Len(p), big) \o p /\ ReadsAs(x, p, big)
    BY <2>1, OneChunk
  <2> QED BY <1>10, <2>2 DEF ChunkBytes
<1>12. a \in 0 .. Len(data) /\ b \in 0 .. Len(data)
  BY <1>1, <1>5
<1> QED BY <1>6, <1>7, <1>8, <1>9, <1>10, <1>11, <1>12 DEF Both

\* The last chunk ends with the string.
LEMMA LastEnd ==
  ASSUME NEW big \in BOOLEAN, NEW data \in Seq(Octets), data # <<>>
  PROVE  \E m \in Nat : /\ m = ChunkCount(data, big) /\ m >= 1
                        /\ ChunkEnd(data, m, big) = Len(data)
<1>1. PICK l \in Nat : l = Len(data) /\ l >= 1
  <2>1. Len(data) # 0
    BY EmptySeq
  <2> QED BY <2>1
<1>2. PICK c \in Nat : c = ChunkSize(big) /\ c >= 1
  BY ChunkSizes
<1>3. PICK m \in Nat : Enough(m, l, c)
  BY <1>1, <1>2, EnoughChunks
<1>8. m = (l + c - 1) \div c /\ m >= 1 /\ l <= m * c
  BY <1>3 DEF Enough
<1>4. PICK d \in Nat : d = m * c /\ l <= d
  BY <1>8
<1>5. Min({d, l}) = l
  <2>1. Min({d, l}) = IF d <= l THEN d ELSE l
    BY SmallerIs
  <2> QED BY <1>4, <2>1
<1>6. ChunkEnd(data, m, big) = l
  BY <1>1, <1>2, <1>4, <1>5 DEF ChunkEnd
<1>7. m = ChunkCount(data, big)
  BY <1>1, <1>2, <1>8 DEF ChunkCount
<1> QED BY <1>1, <1>8, <1>6, <1>7

\* Nothing before, and nothing behind.
LEMMA NothingBefore ==
  ASSUME NEW s \in Seq(Octets), NEW c \in Seq(Octets)
  PROVE  Both(Beginning(s, 0), c) = c /\ Both(c, <<>>) = c
<1>1. SubSeq(s, 1, 0) = <<>>
  BY SubSeqEmpty
<1>2. <<>> \o c = c /\ c \o <<>> = c
  BY ConcatEmptySeq
<1> QED BY <1>1, <1>2 DEF Both, Beginning

\* One string more.
LEMMA FlatsStep ==
  ASSUME NEW S, NEW m \in Nat, NEW f, NEW h, Flats(S, h, f, m), NEW i \in 1 .. m
  PROVE  /\ h[i] \in Seq(S)
         /\ i = 1 => h[i] = f[i]
         /\ i # 1 => h[i] = Both(h[i - 1], f[i])
<1>1. m # 0 /\ (i # 1 => i \in 2 .. m)
  OBVIOUS
<1> QED BY <1>1 DEF Flats, Both

\* The first i chunks.
LEMMA FirstChunks ==
  ASSUME NEW big \in BOOLEAN, NEW data \in Seq(Octets), data # <<>>,
         NEW f, \A k \in 1 .. ChunkCount(data, big) : f[k] = ChunkBytes(data, k, big),
         NEW h, Flats(Octets, h, f, ChunkCount(data, big)),
         NEW i \in Nat, i >= 1, i <= ChunkCount(data, big)
  PROVE  ReadsAs(h[i], Beginning(data, ChunkEnd(data, i, big)), big)
<1>1. PICK m \in Nat : m = ChunkCount(data, big)
  BY LastEnd
<1> DEFINE Reads(k) == ReadsAs(h[k], Beginning(data, ChunkEnd(data, k, big)), big)
           T == {n \in Nat : n + 1 <= m => Reads(n + 1)}
<1>2. ASSUME NEW k \in Nat, k >= 1, k <= m, k # 1 => Reads(k - 1) PROVE Reads(k)
  <2>1. PICK c \in Seq(Octets), x \in Seq(Octets), a \in 0 .. Len(data), b \in 0 .. Len(data) :
           /\ c = Chunk(data, k, big) /\ x = ChunkBytes(data, k, big)
           /\ b = ChunkEnd(data, k, big)
           /\ k = 1 => a = 0
           /\ k # 1 => a = ChunkEnd(data, k - 1, big)
           /\ Both(Beginning(data, a), c) = Beginning(data, b)
           /\ ReadsAs(x, c, big)
    BY <1>1, <1>2, ChunkIs
  <2>2. k \in 1 .. m
    BY <1>2
  <2>3. f[k] = x
    BY <1>1, <2>1, <2>2
  <2>4. /\ k = 1 => h[k] = x
        /\ k # 1 => h[k] = Both(h[k - 1], x)
    BY <1>1, <2>2, <2>3, FlatsStep
  <2>5. CASE k = 1
    <3>1. Both(Beginning(data, 0), c) = c
      BY NothingBefore
    <3> QED BY <2>1, <2>4, <2>5, <3>1
  <2>6. CASE k # 1
    <3>1. k - 1 \in 1 .. m
      BY <2>2, <2>6
    <3>2. h[k - 1] \in Seq(Octets)
      BY <1>1, <3>1, FlatsStep
    <3>3. Beginning(data, a) \in Seq(Octets)
      BY <2>1, BeginningBytes
    <3>4. ReadsAs(h[k - 1], Beginning(data, a), big)
      BY <1>2, <2>1, <2>6
    <3>5. ReadsAs(Both(h[k - 1], x), Both(Beginning(data, a), c), big)
      BY <2>1, <3>2, <3>3, <3>4, BothRead
    <3> QED BY <2>1, <2>4, <2>6, <3>5
  <2> QED BY <2>5, <2>6
<1> HIDE DEF Reads
<1>3. 0 \in T
  <2>1. 1 \in Nat /\ 0 + 1 = 1 /\ 0 \in Nat
    OBVIOUS
  <2>2. 1 <= m => Reads(1)
    BY <1>2, <2>1
  <2> QED BY <2>1, <2>2
<1>4. ASSUME NEW n \in Nat, n \in T PROVE n + 1 \in T
  <2>1. PICK k \in Nat : k = (n + 1) + 1 /\ k >= 1 /\ k - 1 = n + 1
    OBVIOUS
  <2>2. k <= m => Reads(k - 1)
    BY <1>4, <2>1
  <2>3. k <= m => Reads(k)
    BY <1>2, <2>1, <2>2
  <2> QED BY <2>1, <2>3
<1>5. i - 1 \in T
  <2>1. i - 1 \in Nat
    OBVIOUS
  <2> HIDE DEF T
  <2> QED BY <1>3, <1>4, <2>1, Induction
<1>6. Reads(i)
  <2>1. (i - 1) + 1 = i /\ i <= m
    BY <1>1
  <2> QED BY <1>5, <2>1
<1> QED BY <1>6 DEF Reads

\* In front of chunks, and behind them.
ChunkMark == <<254>>

ChunkEndMark == <<0>>

\* The marks of a chunked string are bytes.
LEMMA ChunkMarks ==
  ChunkMark \in Seq(Octets) /\ ChunkEndMark \in Seq(Octets)
<1>1. 0 \in 0 .. 255 /\ 254 \in 0 .. 255
  OBVIOUS
<1>2. 0 \in Octets /\ 254 \in Octets
  BY <1>1, NumbersOfOctets
<1> QED BY <1>2 DEF ChunkMark, ChunkEndMark

\* What the marks make get_clr do.
LEMMA ChunkMarkRead ==
  ASSUME NEW r \in Seq(Octets), NEW big \in BOOLEAN
  PROVE  /\ GetChunkSize(Both(ChunkEndMark, r), big) = Got(0, r)
         /\ GetClr(Both(ChunkMark, r), big) = GetChunks(r, big)
<1>1. GetChunkSize(Both(ChunkEndMark, r), big) = Got(0, r)
  BY EndOfChunks DEF Both, ChunkEndMark
<1>2. 254 \in Octets
  <2>1. 254 \in 0 .. 255
    OBVIOUS
  <2> QED BY <2>1, NumbersOfOctets
<1>3. PICK s : s = <<254>> \o r
  OBVIOUS
<1>4. s # <<>> /\ Head(s) = 254 /\ Tail(s) = r
  BY <1>2, <1>3, HeadAndTail
<1>5. 254 \notin NullSizes /\ 254 = Chunked
  BY DEF NullSizes, Chunked
<1>6. GetClr(s, big) = GetChunks(r, big)
  BY <1>4, <1>5 DEF GetClr
<1> QED BY <1>1, <1>3, <1>6 DEF Both, ChunkMark

\* The byte 0 is read as the empty string.
LEMMA NullRead ==
  ASSUME NEW s, NEW t, NEW big, s # <<>>, Head(s) = 0, Tail(s) = t
  PROVE  GetClr(s, big) = Got(<<>>, t)
<1>1. 0 \in NullSizes /\ ~(0 = Chunked)
  BY DEF NullSizes, Chunked
<1> QED BY <1>1 DEF GetClr

\* All chunks and the mark behind them are read as the data.
LEMMA ChunksBack ==
  ASSUME NEW big \in BOOLEAN, NEW data \in Seq(Octets), data # <<>>
  PROVE  \E b \in Seq(Octets) :
           /\ b = FlattenSeq(
                    [k \in 1 .. (Len(data) + ChunkSize(big) - 1) \div ChunkSize(big) |->
                       PutChunkSize(Len(Chunk(data, k, big)), big) \o Chunk(data, k, big)])
           /\ \A r \in Seq(Octets) :
                GetChunks(Both(b, Both(ChunkEndMark, r)), big) = Got(data, r)
<1>1. PICK m \in Nat : /\ m = ChunkCount(data, big) /\ m >= 1
                       /\ ChunkEnd(data, m, big) = Len(data)
  BY LastEnd
<1>2. PICK f : f = [k \in 1 .. m |-> ChunkBytes(data, k, big)]
  OBVIOUS
<1>3. f \in [1 .. m -> Seq(Octets)]
  <2>1. ASSUME NEW k \in 1 .. m PROVE ChunkBytes(data, k, big) \in Seq(Octets)
    <3>1. k \in Nat /\ k >= 1 /\ k <= m
      OBVIOUS
    <3> QED BY <1>1, <3>1, ChunkIs
  <2> QED BY <1>2, <2>1
<1>4. m # 0 /\ m \in 1 .. m
  BY <1>1
<1>5. PICK h : Flats(Octets, h, f, m) /\ FlattenSeq(f) = h[m]
  BY <1>3, <1>4, FlattenIs
<1>6. PICK b \in Seq(Octets) : b = h[m]
  BY <1>4, <1>5, FlatsStep
<1>7. ReadsAs(b, data, big)
  <2>1. \A k \in 1 .. m : f[k] = ChunkBytes(data, k, big)
    BY <1>2
  <2>2. ReadsAs(h[m], Beginning(data, ChunkEnd(data, m, big)), big)
    BY <1>1, <1>5, <2>1, FirstChunks
  <2>3. Beginning(data, Len(data)) = data
    BY SubSeqFull DEF Beginning
  <2> QED BY <1>1, <1>6, <2>2, <2>3
<1>8. ASSUME NEW r \in Seq(Octets)
      PROVE  GetChunks(Both(b, Both(ChunkEndMark, r)), big) = Got(data, r)
  <2>6. <<>> \in Seq(Octets)
    OBVIOUS
  <2>1. Both(ChunkEndMark, r) \in Seq(Octets)
    BY ChunkMarks, BothBytes
  <2>2. GetChunkSize(Both(ChunkEndMark, r), big) = Got(0, r)
    BY ChunkMarkRead
  <2>3. GetChunks(Both(ChunkEndMark, r), big) = Got(<<>>, r)
    BY <2>1, <2>2, LastChunk
  <2>4. GetChunks(Both(b, Both(ChunkEndMark, r)), big) = Got(Both(data, <<>>), r)
    BY <1>7, <2>1, <2>3, <2>6 DEF ReadsAs
  <2>5. Both(data, <<>>) = data
    BY NothingBefore
  <2> QED BY <2>4, <2>5
<1>9. f = [k \in 1 .. (Len(data) + ChunkSize(big) - 1) \div ChunkSize(big) |->
                       PutChunkSize(Len(Chunk(data, k, big)), big) \o Chunk(data, k, big)]
  BY <1>1, <1>2 DEF ChunkCount, ChunkBytes
<1> QED BY <1>5, <1>6, <1>8, <1>9

\* A byte string is got as it was put, whatever its length.
LEMMA ClrBack ==
  ASSUME NEW big \in BOOLEAN, NEW data \in Seq(Octets)
  PROVE  \E b \in Seq(Octets) :
           /\ b = PutClr(data, big)
           /\ \A r \in Seq(Octets) : GetClr(b \o r, big) = Got(data, r)
<1>1. CASE Len(data) <= 252
  <2>1. PICK n \in Octets : n = Len(data)
    <3>1. PICK n \in Nat : n = Len(data)
      OBVIOUS
    <3>2. n <= 252
      BY <1>1, <3>1
    <3>3. n \in 0 .. 255
      BY <3>2
    <3> QED BY <3>1, <3>3, NumbersOfOctets
  <2>2. n \in Nat /\ n <= 252
    BY <1>1, <2>1
  <2>3. PICK b \in Seq(Octets) : b = <<n>> \o data
    BY SizedBytes
  <2>4. b = PutClr(data, big)
    BY <2>1, <2>2, <2>3 DEF PutClr, MaxShort
  <2>5. ASSUME NEW r \in Seq(Octets) PROVE GetClr(b \o r, big) = Got(data, r)
    <3>1. b \o r = <<n>> \o (data \o r) /\ data \o r \in Seq(Octets)
      BY <2>3, SizedBytes
    <3>2. PICK t \in Seq(Octets) : t = data \o r
      BY <3>1
    <3>3. PICK s : s = b \o r /\ s # <<>> /\ Head(s) = n /\ Tail(s) = t
      <4>1. PICK s : s = <<n>> \o t
        OBVIOUS
      <4>2. s # <<>> /\ Head(s) = n /\ Tail(s) = t
        BY <4>1, HeadAndTail
      <4>3. s = b \o r
        BY <3>1, <3>2, <4>1
      <4> QED BY <4>2, <4>3
    <3>4. CASE n = 0
      <4>1. data = <<>>
        BY <2>1, <3>4, EmptySeq
      <4>2. t = r
        BY <3>2, <4>1, ConcatEmptySeq
      <4>3. GetClr(s, big) = Got(<<>>, t)
        BY <3>3, <3>4, NullRead
      <4> QED BY <3>3, <4>1, <4>2, <4>3
    <3>5. CASE n # 0
      <4>1. n \notin NullSizes /\ n # Chunked
        BY <2>2, <3>5 DEF NullSizes, Chunked
      <4>2. GetClr(s, big) = GetBytes(t, n)
        BY <3>3, <4>1 DEF GetClr
      <4>3. GetBytes(data \o r, Len(data)) = Got(data, r)
        BY GetBytesBack
      <4> QED BY <2>1, <3>2, <3>3, <4>2, <4>3
    <3> QED BY <3>4, <3>5
  <2> QED BY <2>4, <2>5
<1>2. CASE ~(Len(data) <= 252)
  <2>1. data # <<>>
    BY <1>2
  <2>2. PICK c \in Seq(Octets) :
           /\ c = FlattenSeq(
                    [k \in 1 .. (Len(data) + ChunkSize(big) - 1) \div ChunkSize(big) |->
                       PutChunkSize(Len(Chunk(data, k, big)), big) \o Chunk(data, k, big)])
           /\ \A r \in Seq(Octets) :
                GetChunks(Both(c, Both(ChunkEndMark, r)), big) = Got(data, r)
    BY <2>1, ChunksBack
  <2>3. PutClr(data, big) = Both(Both(ChunkMark, c), ChunkEndMark)
    BY <1>2, <2>2 DEF PutClr, MaxShort, Chunked, Both, ChunkMark, ChunkEndMark
  <2>4. PICK d \in Seq(Octets) : d = Both(ChunkMark, c)
    BY ChunkMarks, BothBytes
  <2>5. PICK b \in Seq(Octets) : b = Both(d, ChunkEndMark)
    BY ChunkMarks, BothBytes
  <2>6. ASSUME NEW r \in Seq(Octets) PROVE GetClr(b \o r, big) = Got(data, r)
    <3>1. PICK e \in Seq(Octets) : e = Both(ChunkEndMark, r)
      BY ChunkMarks, BothBytes
    <3>2. PICK t \in Seq(Octets) : t = Both(c, e)
      BY BothBytes
    <3>3. Both(b, r) = Both(ChunkMark, t)
      <4>1. Both(b, r) = Both(d, e)
        BY <2>5, <3>1, ChunkMarks, BothTogether
      <4>2. Both(d, e) = Both(ChunkMark, t)
        BY <2>4, <3>2, ChunkMarks, BothTogether
      <4> QED BY <4>1, <4>2
    <3>4. GetClr(Both(ChunkMark, t), big) = GetChunks(t, big)
      BY ChunkMarkRead
    <3>6. GetChunks(t, big) = Got(data, r)
      BY <2>2, <3>1, <3>2
    <3> QED BY <3>3, <3>4, <3>6 DEF Both
  <2> QED BY <2>3, <2>4, <2>5, <2>6
<1> QED BY <1>1, <1>2

-----------------------------------------------------------------------------
(* Strings under their length.                                             *)

\* A number in the compressed form, of any size.
Compressed(s) == GetInt(s, 4, TRUE, TRUE)

\* A string whose length a DLC has room for.
DlcData(data) == data \in Seq(Octets) /\ Len(data) \in Wide(4)

\* The length in front is got as it was put.
LEMMA DlcLength ==
  ASSUME NEW data \in Seq(Octets), Len(data) \in Wide(4), data # <<>>
  PROVE  \E b \in Seq(Octets), l \in Nat :
           /\ b = PutUint(Len(data), 4, TRUE, TRUE) /\ l = Len(data) /\ l >= 1
           /\ \A r \in Seq(Octets) : Compressed(Both(b, r)) = Got(l, r)
<1>1. PICK l \in Wide(4) : l = Len(data)
  OBVIOUS
<1>2. l \in Nat
  BY <1>1, WideNat
<1>3. 4 \in Nat /\ 4 <= WordBytes /\ 4 # 1 /\ TRUE \in BOOLEAN
  BY WidthAssumption
<1>4. l \in Wide(WordBytes) /\ Fits(l, 4)
  BY <1>3, Narrow
<1>5. PutUint(l, 4, TRUE, TRUE) = PutInt(l, 4, TRUE, TRUE)
  BY <1>2, <1>3, <1>4, PutUintBack
<1>7. PICK b \in Seq(Octets) : b = PutInt(l, 4, TRUE, TRUE)
  <2>1. <<>> \in Seq(Octets)
    OBVIOUS
  <2>2. PutInt(l, 4, TRUE, TRUE) \in Seq(Octets)
    BY <1>2, <1>3, <1>4, <2>1, PutIntBack
  <2> QED BY <2>2
<1>8. ASSUME NEW r \in Seq(Octets) PROVE Compressed(Both(b, r)) = Got(l, r)
  <2>1. PICK v : /\ GetInt(PutInt(l, 4, TRUE, TRUE) \o r, 4, TRUE, TRUE) = Got(v, r)
                 /\ l \in Wide(WordBytes) => v = l
    BY <1>2, <1>3, <1>4, PutIntBack
  <2>2. v = l
    BY <1>4, <2>1
  <2> QED BY <1>7, <2>1, <2>2 DEF Both, Compressed
<1>9. l # 0
  BY <1>1, EmptySeq
<1>10. l >= 1
  BY <1>2, <1>9
<1> QED BY <1>1, <1>2, <1>5, <1>7, <1>8, <1>10

\* Nothing of the data is cut.
LEMMA CutWhole ==
  ASSUME NEW data \in Seq(Octets), data # <<>>, NEW r
  PROVE  Cut(Got(data, r), Len(data)) = Got(data, r)
<1>1. PICK l \in Nat : l = Len(data)
  OBVIOUS
<1>2. Min({l, l}) = l
  BY SmallerIs
<1>3. SubSeq(data, 1, l) = data
  BY <1>1, SubSeqFull
<1> QED BY <1>1, <1>2, <1>3 DEF Cut, Got

\* get_dlc, by the length it gets.
LEMMA GetDlcIs ==
  ASSUME NEW s, NEW big, NEW l \in Nat, NEW t, Compressed(s) = Got(l, t)
  PROVE  /\ l = 0 => GetDlc(s, big) = Got(<<>>, t)
         /\ l >= 1 => GetDlc(s, big) = Cut(GetClr(t, big), l)
<1>1. PICK g : g = Compressed(s)
  OBVIOUS
<1>2. g.ok = TRUE /\ g.value = l /\ g.rest = t
  BY <1>1 DEF Got
<1>3. GetDlc(s, big) = IF l <= 0 THEN Got(<<>>, t) ELSE Cut(GetClr(t, big), l)
  BY <1>1, <1>2 DEF GetDlc, Then, Compressed
<1> QED BY <1>3

\* put_key_val and get_dlc: a string under its length is got as it was put.
LEMMA DlcBack ==
  ASSUME NEW big \in BOOLEAN, NEW data, DlcData(data)
  PROVE  \E b \in Seq(Octets) :
           /\ b = PutDlc(data, big)
           /\ \A r \in Seq(Octets) : GetDlc(Both(b, r), big) = Got(data, r)
<1>1. data \in Seq(Octets) /\ Len(data) \in Wide(4)
  BY DEF DlcData
<1>2. CASE data = <<>>
  <2>1. PutDlc(data, big) = ChunkEndMark
    BY <1>2 DEF PutDlc, ChunkEndMark
  <2>2. ASSUME NEW r \in Seq(Octets) PROVE GetDlc(Both(ChunkEndMark, r), big) = Got(data, r)
    <3>1. TRUE \in BOOLEAN
      OBVIOUS
    <3>2. GetChunkSize(Both(ChunkEndMark, r), TRUE) = Got(0, r)
      BY <3>1, ChunkMarkRead
    <3>3. Compressed(Both(ChunkEndMark, r)) = Got(0, r)
      BY <3>2 DEF GetChunkSize, Compressed
    <3>4. GetDlc(Both(ChunkEndMark, r), big) = Got(<<>>, r)
      BY <3>3, GetDlcIs
    <3> QED BY <1>2, <3>4
  <2> QED BY <2>1, <2>2, ChunkMarks
<1>3. CASE data # <<>>
  <2>1. PICK c \in Seq(Octets) :
           /\ c = PutClr(data, big)
           /\ \A r \in Seq(Octets) : GetClr(c \o r, big) = Got(data, r)
    BY <1>1, ClrBack
  <2>2. PICK p \in Seq(Octets), l \in Nat :
           /\ p = PutUint(Len(data), 4, TRUE, TRUE) /\ l = Len(data) /\ l >= 1
           /\ \A r \in Seq(Octets) : Compressed(Both(p, r)) = Got(l, r)
    BY <1>1, <1>3, DlcLength
  <2>3. PICK b \in Seq(Octets) : b = Both(p, c)
    BY BothBytes
  <2>4. b = PutDlc(data, big)
    BY <1>3, <2>1, <2>2, <2>3 DEF PutDlc, Both
  <2>5. ASSUME NEW r \in Seq(Octets) PROVE GetDlc(Both(b, r), big) = Got(data, r)
    <3>1. PICK t \in Seq(Octets) : t = Both(c, r)
      BY BothBytes
    <3>2. Both(b, r) = Both(p, t)
      BY <2>3, <3>1, BothTogether
    <3>3. Compressed(Both(b, r)) = Got(l, t)
      BY <2>2, <3>2
    <3>4. GetDlc(Both(b, r), big) = Cut(GetClr(t, big), l)
      BY <2>2, <3>3, GetDlcIs
    <3>5. GetClr(t, big) = Got(data, r)
      BY <2>1, <3>1 DEF Both
    <3>6. Cut(Got(data, r), Len(data)) = Got(data, r)
      BY <1>1, <1>3, CutWhole
    <3> QED BY <2>2, <3>4, <3>5, <3>6
  <2> QED BY <2>4, <2>5
<1> QED BY <1>2, <1>3

-----------------------------------------------------------------------------
(* Fields one after the other.                                             *)

\* One field after those that were got, and all up to the n-th.
FieldAfter(g, kind, big) == More(g, GetField(g.rest, kind, big))

\* h has what is got of the first k fields.
FieldSteps(h, s, kinds, big, n) ==
  h = [k \in 0 .. n |-> IF k = 0 THEN Got(<<>>, s) ELSE FieldAfter(h[k - 1], kinds[k], big)]

\* One more field.
LEMMA FieldStep ==
  ASSUME NEW n \in Nat, NEW s, NEW kinds, NEW big, NEW g, FieldSteps(g, s, kinds, big, n),
         NEW more, \A k \in 1 .. n : more[k] = kinds[k]
  PROVE  \E h : /\ FieldSteps(h, s, more, big, n + 1)
                /\ h[n + 1] = FieldAfter(g[n], more[n + 1], big)
<1>1. PICK x : x = FieldAfter(g[n], more[n + 1], big)
  OBVIOUS
<1>2. PICK h : h = [k \in 0 .. n + 1 |-> IF k = n + 1 THEN x ELSE g[k]]
  OBVIOUS
<1>3. h[n + 1] = x /\ \A k \in 0 .. n : h[k] = g[k]
  BY <1>2
<1>4. ASSUME NEW k \in 0 .. n + 1
      PROVE  h[k] = IF k = 0 THEN Got(<<>>, s) ELSE FieldAfter(h[k - 1], more[k], big)
  <2>1. CASE k = 0
    <3>1. 0 \in 0 .. n
      OBVIOUS
    <3>2. g[0] = Got(<<>>, s)
      BY <3>1 DEF FieldSteps
    <3> QED BY <1>3, <2>1, <3>1, <3>2
  <2>2. CASE k = n + 1
    <3>1. k - 1 = n /\ n \in 0 .. n /\ k # 0
      BY <2>2
    <3> QED BY <1>1, <1>3, <2>2, <3>1
  <2>3. CASE k # 0 /\ k # n + 1
    <3>1. k \in 1 .. n /\ k \in 0 .. n /\ k - 1 \in 0 .. n
      BY <2>3
    <3>2. g[k] = FieldAfter(g[k - 1], kinds[k], big)
      BY <2>3, <3>1 DEF FieldSteps
    <3> QED BY <1>3, <2>3, <3>1, <3>2
  <2> QED BY <2>1, <2>2, <2>3
<1>5. PICK d : d = [k \in 0 .. n + 1 |->
                 IF k = 0 THEN Got(<<>>, s) ELSE FieldAfter(h[k - 1], more[k], big)]
  OBVIOUS
<1>6. h = d
  BY <1>2, <1>4, <1>5
<1> QED BY <1>1, <1>3, <1>5, <1>6 DEF FieldSteps

\* Only one sequence of steps reads some fields.
LEMMA FieldStepsAgree ==
  ASSUME NEW n \in Nat, NEW s, NEW kinds, NEW big,
         NEW g, FieldSteps(g, s, kinds, big, n), NEW h, FieldSteps(h, s, kinds, big, n)
  PROVE  g[n] = h[n]
<1> DEFINE T == {k \in Nat : k <= n => g[k] = h[k]}
<1>1. 0 \in T
  <2>1. 0 \in 0 .. n
    OBVIOUS
  <2>2. g[0] = Got(<<>>, s) /\ h[0] = Got(<<>>, s)
    BY <2>1 DEF FieldSteps
  <2> QED BY <2>2
<1>2. ASSUME NEW k \in Nat, k \in T PROVE k + 1 \in T
  <2>1. ASSUME k + 1 <= n PROVE g[k + 1] = h[k + 1]
    <3>1. k + 1 \in 0 .. n /\ k + 1 # 0 /\ (k + 1) - 1 = k /\ g[k] = h[k]
      BY <1>2, <2>1
    <3>2. g[k + 1] = FieldAfter(g[k], kinds[k + 1], big)
      BY <3>1 DEF FieldSteps
    <3>3. h[k + 1] = FieldAfter(h[k], kinds[k + 1], big)
      BY <3>1 DEF FieldSteps
    <3> QED BY <3>1, <3>2, <3>3
  <2> QED BY <2>1
<1>3. n \in T
  <2> HIDE DEF T
  <2> QED BY <1>1, <1>2, Induction
<1> QED BY <1>3

\* get_fields is the last of such steps.
LEMMA GetFieldsIs ==
  ASSUME NEW s, NEW big, NEW kinds, NEW n \in Nat, n = Len(kinds),
         NEW g, FieldSteps(g, s, kinds, big, n)
  PROVE  GetFields(s, kinds, big) = g[n]
<1> DEFINE body(f) == [k \in 0 .. n |->
                         IF k = 0 THEN Got(<<>>, s) ELSE FieldAfter(f[k - 1], kinds[k], big)]
           h == CHOOSE f : f = body(f)
<1>1. g = body(g)
  BY DEF FieldSteps
<1>2. h = body(h)
  <2> HIDE DEF body
  <2> QED BY <1>1
<1>3. GetFields(s, kinds, big) = h[n]
  BY DEF GetFields, FieldAfter
<1> HIDE DEF h
<1>4. FieldSteps(h, s, kinds, big, n)
  BY <1>2 DEF FieldSteps
<1>5. h[n] = g[n]
  BY <1>4, FieldStepsAgree
<1> QED BY <1>3, <1>5

\* The bytes of a field, and of fields, and what they are read as.
FieldRead(S, b, kind, v, big) ==
  \A r \in Seq(S) : GetField(Both(b, r), kind, big) = Got(v, r)

FieldsRead(S, b, kinds, n, vals, big) ==
  \A r \in Seq(S) : \E g :
    FieldSteps(g, Both(b, r), kinds, big, n) /\ g[n] = Got(vals, r)

\* What is read of all fields.
LEMMA FieldsReadIs ==
  ASSUME NEW S, NEW b, NEW big, NEW kinds, NEW n \in Nat, n = Len(kinds),
         NEW vals, FieldsRead(S, b, kinds, n, vals, big), NEW r \in Seq(S)
  PROVE  GetFields(Both(b, r), kinds, big) = Got(vals, r)
<1>1. PICK g : FieldSteps(g, Both(b, r), kinds, big, n) /\ g[n] = Got(vals, r)
  BY DEF FieldsRead
<1> QED BY <1>1, GetFieldsIs

\* No field, and one field after others.
LEMMA NoFields ==
  ASSUME NEW S, NEW kinds, NEW big
  PROVE  FieldsRead(S, <<>>, kinds, 0, <<>>, big)
<1> SUFFICES ASSUME NEW r \in Seq(S)
             PROVE  \E g : FieldSteps(g, Both(<<>>, r), kinds, big, 0) /\ g[0] = Got(<<>>, r)
  BY DEF FieldsRead
<1>1. Both(<<>>, r) = r
  BY ConcatEmptySeq DEF Both
<1>2. PICK e : TRUE
  OBVIOUS
<1>3. PICK g : g = [k \in 0 .. 0 |-> Got(<<>>, r)]
  OBVIOUS
<1>4. g = [k \in 0 .. 0 |-> IF k = 0 THEN Got(<<>>, r) ELSE FieldAfter(g[k - 1], kinds[k], big)]
  <2>1. \A k \in 0 .. 0 : k = 0
    OBVIOUS
  <2> QED BY <1>3, <2>1
<1>5. FieldSteps(g, r, kinds, big, 0)
  BY <1>4 DEF FieldSteps
<1>6. g[0] = Got(<<>>, r)
  BY <1>3
<1> QED BY <1>1, <1>5, <1>6

\* One more value is got.
LEMMA OneMore ==
  ASSUME NEW vals, NEW v, NEW t, NEW r
  PROVE  More(Got(vals, t), Got(v, r)) = Got(Append(vals, v), r)
BY DEF More, Got

\* One more field is read.
LEMMA NextField ==
  ASSUME NEW S, NEW big, NEW kinds, NEW n \in Nat, NEW vals, NEW b \in Seq(S),
         FieldsRead(S, b, kinds, n, vals, big),
         NEW c \in Seq(S), NEW v, FieldRead(S, c, kinds[n + 1], v, big)
  PROVE  FieldsRead(S, Both(b, c), kinds, n + 1, Append(vals, v), big)
<1> SUFFICES ASSUME NEW r \in Seq(S)
             PROVE  \E h : /\ FieldSteps(h, Both(Both(b, c), r), kinds, big, n + 1)
                           /\ h[n + 1] = Got(Append(vals, v), r)
  BY DEF FieldsRead
<1>1. PICK t \in Seq(S) : t = Both(c, r)
  BY JoinBytes
<1>2. PICK s : s = Both(b, t)
  OBVIOUS
<1>3. s = Both(Both(b, c), r)
  BY <1>1, <1>2, JoinTogether
<1>4. PICK g : FieldSteps(g, s, kinds, big, n) /\ g[n] = Got(vals, t)
  BY <1>2 DEF FieldsRead
<1>5. PICK h : /\ FieldSteps(h, s, kinds, big, n + 1)
               /\ h[n + 1] = FieldAfter(g[n], kinds[n + 1], big)
  <2>1. \A k \in 1 .. n : kinds[k] = kinds[k]
    OBVIOUS
  <2> QED BY <1>4, <2>1, FieldStep
<1>6. GetField(t, kinds[n + 1], big) = Got(v, r)
  BY <1>1 DEF FieldRead
<1>7. g[n].rest = t
  BY <1>4 DEF Got
<1>8. FieldAfter(g[n], kinds[n + 1], big) = Got(Append(vals, v), r)
  BY <1>4, <1>6, <1>7, OneMore DEF FieldAfter
<1> QED BY <1>3, <1>5, <1>8

-----------------------------------------------------------------------------
(* Byte strings one after the other.                                       *)

\* Nothing in front, and nothing behind.
LEMMA EmptyFirst ==
  ASSUME NEW S, NEW c \in Seq(S)
  PROVE  Both(<<>>, c) = c /\ Both(c, <<>>) = c
BY ConcatEmptySeq DEF Both

\* No bytes and tokens.
LEMMA EmptyString ==
  ASSUME NEW S
  PROVE  <<>> \in Seq(S)
OBVIOUS

\* No bytes.
LEMMA NoBytes == <<>> \in Seq(Octets)
OBVIOUS

\* The first n of more strings.
LEMMA FlatsAgree ==
  ASSUME NEW S, NEW n \in Nat, NEW d, NEW e, \A i \in 1 .. n : d[i] = e[i],
         NEW g, Flats(S, g, d, n), NEW h, Flats(S, h, e, n + 1), NEW k \in 1 .. n
  PROVE  g[k] = h[k]
<1> DEFINE T == {m \in Nat : m + 1 <= n => g[m + 1] = h[m + 1]}
<1>1. n # 0 /\ n + 1 # 0
  OBVIOUS
<1>2. 0 \in T
  <2>1. 1 \in 1 .. n
    OBVIOUS
  <2> QED BY <1>1, <2>1 DEF Flats
<1>3. ASSUME NEW m \in Nat, m \in T PROVE m + 1 \in T
  <2>1. ASSUME (m + 1) + 1 <= n PROVE g[(m + 1) + 1] = h[(m + 1) + 1]
    <3>1. PICK i \in 2 .. n : /\ i = (m + 1) + 1 /\ i - 1 = m + 1 /\ i \in 1 .. n
                              /\ i \in 2 .. n + 1
      BY <2>1
    <3>2. g[i] = g[i - 1] \o d[i]
      BY <3>1 DEF Flats
    <3>3. h[i] = h[i - 1] \o e[i]
      BY <3>1 DEF Flats
    <3>4. g[i - 1] = h[i - 1] /\ d[i] = e[i]
      BY <1>3, <2>1, <3>1
    <3> QED BY <3>1, <3>2, <3>3, <3>4
  <2> QED BY <2>1
<1>4. k - 1 \in Nat /\ (k - 1) + 1 = k /\ k <= n
  OBVIOUS
<1>5. k - 1 \in T
  <2> HIDE DEF T
  <2> QED BY <1>2, <1>3, <1>4, Induction
<1> QED BY <1>4, <1>5

\* The n byte strings of f that follow the first a, as one.
Stretch(f, a, n) == FlattenSeq([i \in 1 .. n |-> f[a + i]])

\* Each of the n byte strings of f that follow the first a is one.
Strings(S, f, a, n) == a \in Nat /\ n \in Nat /\ \A i \in 1 .. n : f[a + i] \in Seq(S)

\* Strings without the last, and without the first.
LEMMA StringsFewer ==
  ASSUME NEW S, NEW f, NEW a, NEW n \in Nat, Strings(S, f, a, n + 1)
  PROVE  /\ Strings(S, f, a, n) /\ Strings(S, f, a + 1, n)
         /\ f[a + 1] \in Seq(S) /\ f[a + (n + 1)] \in Seq(S)
<1>1. a \in Nat /\ a + 1 \in Nat
  BY DEF Strings
<1>2. ASSUME NEW i \in 1 .. n + 1 PROVE f[a + i] \in Seq(S)
  BY DEF Strings
<1>3. 1 \in 1 .. n + 1 /\ n + 1 \in 1 .. n + 1
  OBVIOUS
<1>4. Strings(S, f, a, n)
  <2>1. \A i \in 1 .. n : i \in 1 .. n + 1
    OBVIOUS
  <2> QED BY <1>1, <1>2, <2>1 DEF Strings
<1>5. Strings(S, f, a + 1, n)
  <2>1. ASSUME NEW i \in 1 .. n PROVE f[(a + 1) + i] \in Seq(S)
    <3>1. PICK k \in 1 .. n + 1 : k = i + 1
      OBVIOUS
    <3>2. (a + 1) + i = a + k
      BY <1>1, <3>1
    <3> QED BY <1>2, <3>2
  <2> QED BY <1>1, <2>1 DEF Strings
<1> QED BY <1>2, <1>3, <1>4, <1>5

\* No string, and so many of them.
LEMMA NoStrings ==
  ASSUME NEW f, NEW a
  PROVE  Stretch(f, a, 0) = <<>>
<1>1. PICK e : e = [i \in 1 .. 0 |-> f[a + i]]
  OBVIOUS
<1>2. e = <<>> /\ Len(e) = 0
  BY <1>1
<1> QED BY <1>1, <1>2 DEF Stretch, FlattenSeq

\* One string more.
LEMMA StretchMore ==
  ASSUME NEW S, NEW f, NEW a, NEW n \in Nat, Strings(S, f, a, n + 1)
  PROVE  /\ Stretch(f, a, n + 1) = Both(Stretch(f, a, n), f[a + (n + 1)])
         /\ Stretch(f, a, n + 1) \in Seq(S)
<1>1. PICK d : d = [i \in 1 .. n |-> f[a + i]]
  OBVIOUS
<1>2. PICK e : e = [i \in 1 .. n + 1 |-> f[a + i]]
  OBVIOUS
<1>3. e \in [1 .. n + 1 -> Seq(S)]
  BY <1>2 DEF Strings
<1>4. n + 1 \in Nat /\ n + 1 # 0 /\ n + 1 \in 1 .. n + 1
  OBVIOUS
<1>5. PICK h : Flats(S, h, e, n + 1) /\ FlattenSeq(e) = h[n + 1]
  BY <1>3, <1>4, FlattenIs
<1>10. \A i \in 1 .. n + 1 : /\ h[i] \in Seq(S)
                             /\ i = 1 => h[i] = e[i]
                             /\ i # 1 => h[i] = Both(h[i - 1], e[i])
  <2>1. PICK k \in Nat : k = n + 1
    BY <1>4
  <2>2. Flats(S, h, e, k)
    BY <1>5, <2>1
  <2>3. ASSUME NEW i \in 1 .. k
        PROVE  /\ h[i] \in Seq(S)
               /\ i = 1 => h[i] = e[i]
               /\ i # 1 => h[i] = Both(h[i - 1], e[i])
    BY <2>2, FlatsStep
  <2> QED BY <2>1, <2>3
<1>6. h[n + 1] \in Seq(S)
  BY <1>4, <1>10
<1>7. e[n + 1] = f[a + (n + 1)]
  BY <1>2, <1>4
<1>8. CASE n = 0
  <2>1. h[1] = e[1]
    <3>1. 1 \in 1 .. n + 1
      OBVIOUS
    <3> QED BY <1>10, <3>1
  <2>2. Both(<<>>, h[1]) = h[1]
    BY <1>6, <1>8, EmptyFirst
  <2>3. Stretch(f, a, n) = <<>>
    BY <1>8, NoStrings
  <2>4. Stretch(f, a, n + 1) = h[1]
    BY <1>2, <1>5, <1>8 DEF Stretch
  <2>5. Stretch(f, a, n + 1) = Both(<<>>, f[a + (n + 1)])
    BY <1>7, <1>8, <2>1, <2>2, <2>4
  <2> QED BY <1>6, <1>8, <2>3, <2>4, <2>5
<1>9. CASE n # 0
  <2>1. d \in [1 .. n -> Seq(S)]
    <3>1. Strings(S, f, a, n)
      BY StringsFewer
    <3> QED BY <1>1, <3>1 DEF Strings
  <2>2. PICK g : Flats(S, g, d, n) /\ FlattenSeq(d) = g[n]
    BY <1>9, <2>1, FlattenIs
  <2>3. n \in 1 .. n /\ \A i \in 1 .. n : d[i] = e[i]
    BY <1>1, <1>2, <1>9
  <2>4. g[n] = h[n]
    BY <1>5, <2>2, <2>3, FlatsAgree
  <2>5. h[n + 1] = Both(h[n], e[n + 1])
    <3>1. PICK i \in 1 .. n + 1 : i = n + 1 /\ i # 1 /\ i - 1 = n
      BY <1>9
    <3>2. h[i] = Both(h[i - 1], e[i])
      BY <1>10, <3>1
    <3> QED BY <3>1, <3>2
  <2>6. Stretch(f, a, n) = g[n] /\ Stretch(f, a, n + 1) = h[n + 1]
    BY <1>1, <1>2, <1>5, <2>2 DEF Stretch
  <2> QED BY <1>6, <1>7, <2>4, <2>5, <2>6
<1> QED BY <1>8, <1>9

\* A stretch of strings of S is one.
LEMMA StretchBytes ==
  ASSUME NEW S, NEW f, NEW a, NEW n \in Nat, Strings(S, f, a, n)
  PROVE  Stretch(f, a, n) \in Seq(S)
<1>1. CASE n = 0
  BY <1>1, NoStrings, EmptyString
<1>2. CASE n # 0
  <2>1. PICK m \in Nat : n = m + 1
    <3>1. n - 1 \in Nat /\ n = (n - 1) + 1
      BY <1>2
    <3> QED BY <3>1
  <2> QED BY <2>1, StretchMore
<1> QED BY <1>1, <1>2

\* The first of the strings in front of the others.
LEMMA StretchFirst ==
  ASSUME NEW S, NEW f, NEW a, NEW n \in Nat, Strings(S, f, a, n + 1)
  PROVE  Stretch(f, a, n + 1) = Both(f[a + 1], Stretch(f, a + 1, n))
<1> DEFINE T == {m \in Nat : Strings(S, f, a, m + 1) =>
                     Stretch(f, a, m + 1) = Both(f[a + 1], Stretch(f, a + 1, m))}
<1>0. a \in Nat
  BY DEF Strings
<1>1. 0 \in T
  <2>1. ASSUME Strings(S, f, a, 0 + 1)
        PROVE  Stretch(f, a, 0 + 1) = Both(f[a + 1], Stretch(f, a + 1, 0))
    <3>0. 0 \in Nat /\ a + (0 + 1) = a + 1
      BY <1>0
    <3>1. Stretch(f, a, 0 + 1) = Both(Stretch(f, a, 0), f[a + (0 + 1)])
      BY <2>1, <3>0, StretchMore
    <3>2. f[a + 1] \in Seq(S)
      BY <2>1, <3>0, StringsFewer
    <3>3. Stretch(f, a, 0) = <<>> /\ Stretch(f, a + 1, 0) = <<>>
      BY NoStrings
    <3>4. Both(<<>>, f[a + 1]) = f[a + 1] /\ Both(f[a + 1], <<>>) = f[a + 1]
      BY <3>2, EmptyFirst
    <3> QED BY <3>0, <3>1, <3>3, <3>4
  <2> QED BY <2>1
<1>2. ASSUME NEW m \in Nat, m \in T PROVE m + 1 \in T
  <2>1. ASSUME Strings(S, f, a, (m + 1) + 1)
        PROVE  Stretch(f, a, (m + 1) + 1) = Both(f[a + 1], Stretch(f, a + 1, m + 1))
    <3>1. m + 1 \in Nat /\ a + ((m + 1) + 1) = (a + 1) + (m + 1)
      BY <1>0
    <3>2. /\ Strings(S, f, a, m + 1) /\ Strings(S, f, a + 1, m + 1)
          /\ f[a + 1] \in Seq(S) /\ f[a + ((m + 1) + 1)] \in Seq(S)
      BY <2>1, <3>1, StringsFewer
    <3>3. PICK z \in Seq(S) : z = f[(a + 1) + (m + 1)] /\ z = f[a + ((m + 1) + 1)]
      BY <3>1, <3>2
    <3>4. PICK x \in Seq(S) : x = f[a + 1]
      BY <3>2
    <3>5. Strings(S, f, a + 1, m)
      BY <3>2, StringsFewer
    <3>6. PICK y \in Seq(S) : y = Stretch(f, a + 1, m)
      BY <3>5, StretchBytes
    <3>7. Stretch(f, a, m + 1) = Both(x, y)
      BY <1>2, <3>2, <3>4, <3>6
    <3>8. Stretch(f, a, (m + 1) + 1) = Both(Stretch(f, a, m + 1), f[a + ((m + 1) + 1)])
      BY <2>1, <3>1, StretchMore
    <3>9. Stretch(f, a + 1, m + 1) = Both(y, z)
      <4>1. Stretch(f, a + 1, m + 1) = Both(Stretch(f, a + 1, m), f[(a + 1) + (m + 1)])
        BY <3>2, StretchMore
      <4> QED BY <3>3, <3>6, <4>1
    <3>10. Both(Both(x, y), z) = Both(x, Both(y, z))
      BY JoinTogether
    <3> QED BY <3>3, <3>4, <3>7, <3>8, <3>9, <3>10
  <2> QED BY <2>1
<1>3. n \in T
  <2> HIDE DEF T
  <2> QED BY <1>1, <1>2, Induction
<1> QED BY <1>3

-----------------------------------------------------------------------------
(* Integers of which something is cut.                                      *)

\* One byte is got as the byte it is.
LEMMA OneByteBack ==
  ASSUME NEW number \in Nat, NEW bigEndian \in BOOLEAN, NEW r \in Seq(Octets)
  PROVE  GetByte(Both(Fixed(number, 1, bigEndian), r))
           = Got(FromBigEndian(BigEndian(number, 1)), r)
<1>1. PICK b \in Seq(Octets) : b = BigEndian(number, 1) /\ Len(b) = 1
  BY BigEndianBytes
<1>2. PICK x \in Octets : x = b[1] /\ b = <<x>>
  <2>1. b[1] \in Octets /\ b = <<b[1]>>
    BY <1>1
  <2> QED BY <2>1
<1>3. Reverse(b) = b
  BY <1>2 DEF Reverse
<1>4. Fixed(number, 1, bigEndian) = <<x>>
  BY <1>1, <1>2, <1>3 DEF Fixed
<1>5. GetByte(Both(<<x>>, r)) = Got(x, r)
  BY GetByteBack DEF Both
<1>6. FromBigEndian(b) = x
  <2>1. PICK g : Sums(g, b)
    BY SumsExist
  <2>2. FromBigEndian(b) = g[Len(b)]
    BY <2>1, FromBytesSums
  <2>3. PICK l \in Nat : l = 1 /\ l = Len(b)
    BY <1>1
  <2>4. l \in 1 .. l /\ l - 1 = 0
    BY <2>3
  <2>5. g[0] = 0 /\ g[l] = 256 * g[l - 1] + b[l]
    BY <2>1, <2>3, <2>4 DEF Sums
  <2>6. x \in Nat
    BY OctetNumbers
  <2>7. g[l] = x
    BY <1>2, <2>3, <2>4, <2>5, <2>6
  <2> QED BY <2>2, <2>3, <2>7
<1> QED BY <1>1, <1>4, <1>5, <1>6

\* A number of any size is read as one: what of it is put, and no more.
LEMMA PutIntRead ==
  ASSUME NEW number \in Nat, NEW size \in Nat, size <= WordBytes,
         NEW bigEndian \in BOOLEAN, NEW compress \in BOOLEAN, NEW r \in Seq(Octets)
  PROVE  /\ PutInt(number, size, bigEndian, compress) \in Seq(Octets)
         /\ \E v : GetInt(Both(PutInt(number, size, bigEndian, compress), r),
                          size, compress, bigEndian) = Got(v, r)
<1>1. CASE compress = FALSE
  <2>1. PutInt(number, size, bigEndian, compress) = Fixed(number, size, bigEndian)
    BY <1>1 DEF PutInt
  <2>2. PICK b \in Seq(Octets) : b = Fixed(number, size, bigEndian)
    BY FixedBytes
  <2>3. GetInt(Both(b, r), size, FALSE, bigEndian)
          = Got(FromBigEndian(BigEndian(number, size)), r)
    BY <2>2, FixedBack DEF Both
  <2> QED BY <1>1, <2>1, <2>2, <2>3
<1>2. CASE compress = TRUE
  <2>1. PICK l \in Nat : l = Len(Magnitude(number)) /\ l <= WordBytes
    BY MagnitudeBytes
  <2>2. PICK k \in 0 .. l : k = Min({size, l})
    <3>1. Min({size, l}) \in 0 .. l
      BY SmallerIs
    <3> QED BY <3>1
  <2>3. PICK m \in Seq(Octets) : m = Beginning(Magnitude(number), k) /\ Len(m) = k
    BY <2>1, MagnitudeBytes, BeginningBytes
  <2>4. Len(m) <= WordBytes
    BY <2>1, <2>2, <2>3, WidthAssumption
  <2>5. PICK n \in Octets : /\ n = Len(m) /\ <<n>> \o m \in Seq(Octets)
                            /\ GetInt((<<n>> \o m) \o r, size, TRUE, bigEndian)
                                 = Got(FromBigEndian(m), r)
    BY <2>4, CompressedRead
  <2>6. PutInt(number, size, bigEndian, compress) = <<n>> \o m
    BY <1>2, <2>1, <2>2, <2>3, <2>5 DEF PutInt, Beginning
  <2> QED BY <1>2, <2>5, <2>6 DEF Both
<1> QED BY <1>1, <1>2

\* A negative number is got with its sign.
LEMMA NegativeNumberRead ==
  ASSUME NEW number \in Int, number < 0, -number \in Wide(WordBytes),
         NEW size \in Nat, NEW bigEndian \in BOOLEAN, NEW r \in Seq(Octets)
  PROVE  GetInt(Both(PutNegative(number), r), size, TRUE, bigEndian) = Got(number, r)
<1>1. \E v : /\ GetInt(PutNegative(number) \o r, size, TRUE, bigEndian) = Got(v, r)
             /\ -number \in Wide(WordBytes) => v = number
  BY PutNegativeBack
<1> QED BY <1>1 DEF Both

\* A size in front of bytes.
Sized(k, m) == Both(<<k>>, m)

\* A string is its beginning and a rest.
LEMMA PieceOfBoth ==
  ASSUME NEW s \in Seq(Octets), NEW a \in Nat, a < Len(s)
  PROVE  \E p \in Seq(Octets) : Both(Beginning(s, a), p) = s
<1>1. PICK n \in Nat : n = Len(s)
  OBVIOUS
<1>2. \E p \in Seq(Octets) :
        /\ p = SubSeq(s, a + 1, n) /\ Len(p) = n - a
        /\ Beginning(s, a) \o p = Beginning(s, n)
  <2>1. a < n /\ n <= Len(s)
    BY <1>1
  <2> QED BY <2>1, Piece
<1>3. Beginning(s, n) = s
  BY <1>1, SubSeqFull DEF Beginning
<1> QED BY <1>2, <1>3 DEF Both

\* Of a number wider than its size, put_uint puts all bytes under the size, and
\* get_int gets as many as the size says.
LEMMA LongerThanSaid ==
  ASSUME NEW m \in Seq(Octets), Len(m) <= WordBytes, NEW k \in 0 .. Len(m),
         NEW r \in Seq(Octets), NEW size \in Nat, NEW bigEndian \in BOOLEAN
  PROVE  /\ Sized(k, m) \in Seq(Octets)
         /\ \E v, t : GetInt(Both(Sized(k, m), r), size, TRUE, bigEndian) = Got(v, t)
<1>1. PICK b \in Seq(Octets), e \in Seq(Octets) : Len(b) = k /\ Both(b, e) = m
  <2>1. SubSeq(m, 1, k) \in Seq(Octets) /\ Len(SubSeq(m, 1, k)) = k
    BY BeginningBytes DEF Beginning
  <2>2. PICK n \in Nat : n = Len(m)
    OBVIOUS
  <2>3. CASE k = 0
    <3>1. Both(<<>>, m) = m /\ Len(<<>>) = 0
      BY EmptyFirst
    <3> QED BY <2>3, <3>1, NoBytes
  <2>4. CASE k # 0 /\ k = n
    <3>1. Both(m, <<>>) = m
      BY EmptyFirst
    <3> QED BY <2>2, <2>4, <3>1, NoBytes
  <2>5. CASE k # 0 /\ k < n
    <3>1. k \in Nat /\ k < Len(m)
      BY <2>2, <2>5
    <3>2. PICK p \in Seq(Octets) : Both(Beginning(m, k), p) = m
      BY <3>1, PieceOfBoth
    <3> QED BY <2>1, <3>2 DEF Beginning
  <2> QED BY <2>2, <2>3, <2>4, <2>5
<1>2. k \in Nat /\ k <= WordBytes /\ Len(b) <= WordBytes
  BY <1>1, WidthAssumption
<1>3. PICK t \in Seq(Octets) : t = Both(e, r)
  BY BothBytes
<1>4. PICK n \in Octets : /\ n = Len(b) /\ <<n>> \o b \in Seq(Octets)
                          /\ GetInt((<<n>> \o b) \o t, size, TRUE, bigEndian)
                               = Got(FromBigEndian(b), t)
  BY <1>2, CompressedRead
<1>5. PICK x \in Seq(Octets) : x = Both(<<k>>, b)
  BY <1>1, <1>4 DEF Both
<1>6. GetInt(Both(x, t), size, TRUE, bigEndian) = Got(FromBigEndian(b), t)
  BY <1>1, <1>4, <1>5 DEF Both
<1>7. PICK o \in Seq(Octets) : o = <<k>>
  <2>1. PICK y \in Octets : y = k
    BY <1>2, SmallOctet
  <2>2. <<y>> \in Seq(Octets)
    OBVIOUS
  <2> QED BY <2>1, <2>2
<1>8. Both(o, m) = Both(x, e) /\ Both(o, m) \in Seq(Octets)
  <2>1. x = Both(o, b)
    BY <1>5, <1>7
  <2>2. Both(Both(o, b), e) = Both(o, Both(b, e))
    BY BothTogether
  <2> QED BY <1>1, <2>1, <2>2, BothBytes
<1>9. Both(Both(o, m), r) = Both(x, t)
  BY <1>3, <1>8, BothTogether
<1> QED BY <1>6, <1>7, <1>8, <1>9 DEF Sized

-----------------------------------------------------------------------------
(* Items of a message.                                                      *)

\* The items of a message that get_fields reads.
LEMMA DlcItem ==
  ASSUME NEW big \in BOOLEAN, NEW data, DlcData(data)
  PROVE  \E b \in Seq(Octets) : b = PutDlc(data, big) /\ FieldRead(Octets, b, "dlc", data, big)
<1>1. PICK b \in Seq(Octets) :
         /\ b = PutDlc(data, big)
         /\ \A r \in Seq(Octets) : GetDlc(Both(b, r), big) = Got(data, r)
  BY DlcBack
<1>2. \A s : GetField(s, "dlc", big) = GetDlc(s, big)
  BY DEF GetField
<1> QED BY <1>1, <1>2 DEF FieldRead

\* A number as a field.
LEMMA NumberItem ==
  ASSUME NEW big, NEW number \in Wide(WordBytes), NEW size \in Nat, size <= WordBytes,
         Fits(number, size)
  PROVE  \E b \in Seq(Octets) :
           b = PutInt(number, size, TRUE, TRUE) /\ FieldRead(Octets, b, "int", number, big)
<1>1. number \in Nat /\ TRUE \in BOOLEAN
  BY WidthAssumption, WideNat
<1>2. PICK b \in Seq(Octets) : b = PutInt(number, size, TRUE, TRUE)
  BY <1>1, NoBytes, PutIntRead
<1>3. ASSUME NEW r \in Seq(Octets) PROVE GetField(Both(b, r), "int", big) = Got(number, r)
  <2>1. GetInt(Both(b, r), size, TRUE, TRUE) = Got(number, r)
    <3>1. \E v : /\ GetInt(PutInt(number, size, TRUE, TRUE) \o r, size, TRUE, TRUE) = Got(v, r)
                 /\ number \in Wide(WordBytes) => v = number
      BY <1>1, PutIntBack
    <3> QED BY <1>2, <3>1 DEF Both
  <2>2. \A s : GetField(s, "int", big) = GetInt(s, size, TRUE, TRUE)
    BY DEF GetField, GetInt
  <2> QED BY <2>1, <2>2
<1> QED BY <1>2, <1>3 DEF FieldRead

\* A byte as a field.
LEMMA ByteItem ==
  ASSUME NEW big, NEW x \in Octets
  PROVE  <<x>> \in Seq(Octets) /\ FieldRead(Octets, <<x>>, "byte", x, big)
<1>1. ASSUME NEW r \in Seq(Octets) PROVE GetField(Both(<<x>>, r), "byte", big) = Got(x, r)
  <2>1. \A s : GetField(s, "byte", big) = GetByte(s)
    BY DEF GetField
  <2> QED BY <2>1, GetByteBack DEF Both
<1> QED BY <1>1 DEF FieldRead

\* Sequences of one, two and three items.
LEMMA FromNothing ==
  ASSUME NEW v
  PROVE  Append(<<>>, v) = <<v>>
OBVIOUS

\* A second value,
LEMMA FromOne ==
  ASSUME NEW v, NEW w
  PROVE  Append(<<v>>, w) = <<v, w>>
<1>1. v \in {v, w} /\ w \in {v, w}
  OBVIOUS
<1>2. <<v>> \in Seq({v, w}) /\ <<v, w>> \in Seq({v, w})
  BY <1>1
<1>3. Append(<<v>>, w) \in Seq({v, w})
  BY <1>1, <1>2
<1>4. Len(<<v, w>>) = 2 /\ Len(Append(<<v>>, w)) = 2
  BY <1>2
<1>5. <<v, w>>[1] = v /\ <<v, w>>[2] = w
  OBVIOUS
<1>6. Append(<<v>>, w)[1] = v /\ Append(<<v>>, w)[2] = w
  BY <1>2
<1>7. \A i \in 1 .. Len(Append(<<v>>, w)) : Append(<<v>>, w)[i] = <<v, w>>[i]
  BY <1>4, <1>5, <1>6
<1> QED BY <1>2, <1>3, <1>4, <1>7, SeqEqual, Zenon

\* and a third.
LEMMA FromTwo ==
  ASSUME NEW v, NEW w, NEW x
  PROVE  Append(<<v, w>>, x) = <<v, w, x>>
<1>1. v \in {v, w, x} /\ w \in {v, w, x} /\ x \in {v, w, x}
  OBVIOUS
<1>2. <<v, w>> \in Seq({v, w, x}) /\ <<v, w, x>> \in Seq({v, w, x})
  BY <1>1
<1>3. Append(<<v, w>>, x) \in Seq({v, w, x})
  BY <1>1, <1>2
<1>4. Len(<<v, w, x>>) = 3 /\ Len(Append(<<v, w>>, x)) = 3
  BY <1>2
<1>5. <<v, w, x>>[1] = v /\ <<v, w, x>>[2] = w /\ <<v, w, x>>[3] = x
  OBVIOUS
<1>6. Append(<<v, w>>, x)[1] = v /\ Append(<<v, w>>, x)[2] = w /\ Append(<<v, w>>, x)[3] = x
  BY <1>2
<1>7. \A i \in 1 .. Len(Append(<<v, w>>, x)) : Append(<<v, w>>, x)[i] = <<v, w, x>>[i]
  BY <1>4, <1>5, <1>6
<1> QED BY <1>2, <1>3, <1>4, <1>7, SeqEqual, Zenon

-----------------------------------------------------------------------------
(* The codec.                                                              *)

\* An integer that is wide enough for its field comes back from get_int as
\* put_int has put it, in both orders and both forms, and so does what put_uint
\* has put.
THEOREM IntegersBack ==
  ASSUME NEW number \in Wide(WordBytes), NEW size \in 2 .. WordBytes, Fits(number, size),
         NEW bigEndian \in BOOLEAN, NEW compress \in BOOLEAN, NEW r \in Seq(Octets)
  PROVE  /\ GetInt(PutInt(number, size, bigEndian, compress) \o r,
                   size, compress, bigEndian) = Got(number, r)
         /\ GetInt(PutUint(number, size, bigEndian, compress) \o r,
                   size, compress, bigEndian) = Got(number, r)
<1>1. size \in Nat /\ size <= WordBytes /\ size # 1 /\ number \in Nat
  BY WidthAssumption, WideNat
<1>2. GetInt(PutInt(number, size, bigEndian, compress) \o r,
             size, compress, bigEndian) = Got(number, r)
  BY <1>1, PutIntBack
<1>3. PutUint(number, size, bigEndian, compress) = PutInt(number, size, bigEndian, compress)
  BY <1>1, PutUintBack
<1> QED BY <1>2, <1>3

\* get_clr gives back what put_clr has put, of any length, in one piece or in
\* chunks of either size, and leaves what follows alone.
THEOREM StringsBack ==
  ASSUME NEW data \in Seq(Octets), NEW big \in BOOLEAN, NEW r \in Seq(Octets)
  PROVE  /\ PutClr(data, big) \in Seq(Octets)
         /\ GetClr(PutClr(data, big) \o r, big) = Got(data, r)
BY ClrBack

\* A string under its length, as put_key_val writes it, is got by get_dlc.
THEOREM LengthedStringsBack ==
  ASSUME NEW data, DlcData(data), NEW big \in BOOLEAN, NEW r \in Seq(Octets)
  PROVE  /\ PutDlc(data, big) \in Seq(Octets)
         /\ GetDlc(PutDlc(data, big) \o r, big) = Got(data, r)
<1>1. GetDlc(Both(PutDlc(data, big), r), big) = Got(data, r) /\ PutDlc(data, big) \in Seq(Octets)
  BY DlcBack
<1> QED BY <1>1 DEF Both

-----------------------------------------------------------------------------
(* Bytes and tokens: keys with values of one token each, as those of the   *)
(* logon, in front of whatever follows.                                    *)

\* Two strings, and the parts of them put together.
LEMMA FrontAndOthers ==
  ASSUME NEW S, NEW b \in Seq(S), NEW r \in Seq(S)
  PROVE  /\ b \o r \in Seq(S) /\ Len(b \o r) = Len(b) + Len(r)
         /\ SubSeq(b \o r, 1, Len(b)) = b
         /\ SubSeq(b \o r, Len(b) + 1, Len(b \o r)) = r
<1>1. PICK n \in Nat, m \in Nat : n = Len(b) /\ m = Len(r)
  OBVIOUS
<1>2. /\ b \o r \in Seq(S) /\ Len(b \o r) = n + m
      /\ \A i \in 1 .. n + m : (b \o r)[i] = IF i <= n THEN b[i] ELSE r[i - n]
  BY <1>1, ConcatProperties
<1>3. SubSeq(b \o r, 1, n) = b
  <2>1. CASE n = 0
    <3>1. SubSeq(b \o r, 1, 0) = <<>>
      BY SubSeqEmpty
    <3>2. b = <<>>
      BY <1>1, <2>1, EmptySeq
    <3> QED BY <2>1, <3>1, <3>2
  <2>2. CASE n # 0
    <3>1. 1 \in 1 .. Len(b) /\ n \in 1 .. Len(b)
      BY <1>1, <2>2
    <3>2. SubSeq(b \o r, 1, n) = SubSeq(b, 1, n)
      BY <3>1, SubSeqOfConcat1
    <3>3. SubSeq(b, 1, n) = b
      BY <1>1, SubSeqFull
    <3> QED BY <3>2, <3>3
  <2> QED BY <2>1, <2>2
<1>4. SubSeq(b \o r, n + 1, n + m) = r
  <2>1. CASE m = 0
    <3>1. n + 1 \in Int /\ n + 0 \in Int /\ n + 0 < n + 1
      OBVIOUS
    <3>2. SubSeq(b \o r, n + 1, n + 0) = <<>>
      BY <3>1, SubSeqEmpty
    <3>3. r = <<>>
      BY <1>1, <2>1, EmptySeq
    <3> QED BY <2>1, <3>2, <3>3
  <2>2. CASE m # 0
    <3>1. n + 1 \in Len(b) + 1 .. Len(b) + Len(r) /\ n + m \in Len(b) + 1 .. Len(b) + Len(r)
      BY <1>1, <2>2
    <3>2. SubSeq(b \o r, n + 1, n + m) = SubSeq(r, n + 1 - Len(b), n + m - Len(b))
      BY <3>1, SubSeqOfConcat2
    <3>3. n + 1 - Len(b) = 1 /\ n + m - Len(b) = m
      BY <1>1
    <3>4. SubSeq(r, 1, m) = r
      BY <1>1, SubSeqFull
    <3> QED BY <3>2, <3>3, <3>4
  <2> QED BY <2>1, <2>2
<1> QED BY <1>1, <1>2, <1>3, <1>4

\* One element, and what is behind it.
LEMMA FirstAndOthers ==
  ASSUME NEW S, NEW x \in S, NEW r \in Seq(S)
  PROVE  /\ <<x>> \o r \in Seq(S) /\ <<x>> \o r # <<>>
         /\ Head(<<x>> \o r) = x /\ Tail(<<x>> \o r) = r
         /\ Len(<<x>> \o r) = Len(r) + 1 /\ (<<x>> \o r)[1] = x
<1>1. PICK s : s = <<x>> \o r
  OBVIOUS
<1>2. <<x>> \in Seq(S) /\ Len(<<x>>) = 1
  OBVIOUS
<1>3. /\ s \in Seq(S) /\ Len(s) = 1 + Len(r)
      /\ \A i \in 1 .. 1 + Len(r) : s[i] = IF i <= 1 THEN <<x>>[i] ELSE r[i - 1]
  BY <1>1, <1>2, ConcatProperties
<1>4. Len(r) \in Nat /\ 1 \in 1 .. 1 + Len(r) /\ s[1] = x
  BY <1>3
<1>5. s # <<>>
  BY <1>3, <1>4
<1>6. Head(s) = x
  BY <1>3, <1>4, <1>5
<1>7. /\ Tail(s) \in Seq(S) /\ Len(Tail(s)) = Len(s) - 1
      /\ \A i \in 1 .. Len(Tail(s)) : Tail(s)[i] = s[i + 1]
  BY <1>3, <1>5, HeadTailProperties
<1>8. Tail(s) = r
  <2>1. Len(Tail(s)) = Len(r)
    BY <1>3, <1>4, <1>7
  <2>2. \A i \in 1 .. Len(r) : i + 1 \in 1 .. 1 + Len(r) /\ ~(i + 1 <= 1) /\ (i + 1) - 1 = i
    BY <1>4
  <2>3. \A i \in 1 .. Len(r) : Tail(s)[i] = r[i]
    BY <1>3, <1>7, <2>1, <2>2
  <2> QED BY <1>7, <2>1, <2>3, SeqEqual
<1> QED BY <1>1, <1>3, <1>4, <1>5, <1>6, <1>8

\* A sequence of bytes is one of bytes and tokens.
LEMMA BytesToo ==
  ASSUME NEW S, Octets \subseteq S, NEW b \in Seq(Octets)
  PROVE  b \in Seq(S)
OBVIOUS

\* The bytes of a number in front of bytes and tokens.
LEMMA FixedInFront ==
  ASSUME NEW S, Octets \subseteq S, NEW b \in Seq(Octets), Len(b) <= WordBytes,
         NEW r \in Seq(S)
  PROVE  GetFixed(Both(b, r), Len(b), TRUE) = Got(FromBigEndian(b), r)
<1>1. b \in Seq(S)
  BY BytesToo
<1>3. PICK s : s = Both(b, r)
  OBVIOUS
<1>4. PICK n \in Nat : n = Len(b)
  OBVIOUS
<1>2. Len(s) = n + Len(r) /\ SubSeq(s, 1, n) = b /\ SubSeq(s, n + 1, Len(s)) = r
  BY <1>1, <1>3, <1>4, FrontAndOthers DEF Both
<1>5. n \in 0 .. Len(s) /\ ~(n > WordBytes)
  <2>1. PICK m \in Nat : m = Len(r)
    OBVIOUS
  <2>2. Len(s) = n + m
    BY <1>2, <2>1
  <2> QED BY <1>4, <2>2, WidthAssumption
<1> QED BY <1>2, <1>3, <1>4, <1>5 DEF GetFixed

\* A number under its size in front of bytes and tokens.
LEMMA SizedInFront ==
  ASSUME NEW S, Octets \subseteq S, NEW m \in Seq(Octets), Len(m) <= WordBytes
  PROVE  \E b \in Seq(Octets) :
           /\ b = <<Len(m)>> \o m
           /\ \A r \in Seq(S), size \in Nat :
                GetInt(Both(b, r), size, TRUE, TRUE) = Got(FromBigEndian(m), r)
<1>1. PICK n \in Nat : n = Len(m) /\ n <= WordBytes
  OBVIOUS
<1>2. n \in Octets /\ n % 128 = n /\ ~(n >= 128)
  BY <1>1, SmallOctet
<1>3. PICK b \in Seq(Octets) : b = <<n>> \o m
  BY <1>2, SizedBytes
<1>4. ASSUME NEW r \in Seq(S), NEW size \in Nat
      PROVE  GetInt(Both(b, r), size, TRUE, TRUE) = Got(FromBigEndian(m), r)
  <2>1. n \in S /\ <<n>> \in Seq(S) /\ m \in Seq(S)
    BY <1>2, BytesToo
  <2>2. PICK t \in Seq(S) : t = Both(m, r)
    BY <2>1, JoinBytes
  <2>3. PICK s : s = Both(<<n>>, t) /\ s = Both(b, r)
    <3>1. PICK w \in Seq(S) : w = <<n>>
      BY <2>1
    <3>2. Both(Both(w, m), r) = Both(w, Both(m, r))
      BY <2>1, JoinTogether
    <3>3. b = Both(w, m)
      BY <1>3, <3>1 DEF Both
    <3>4. PICK s : s = Both(<<n>>, t)
      OBVIOUS
    <3> QED BY <2>2, <3>1, <3>2, <3>3, <3>4
  <2>4. s # <<>> /\ Head(s) = n /\ Tail(s) = t
    BY <2>1, <2>2, <2>3, FirstAndOthers DEF Both
  <2>5. PICK g : g = Got(FromBigEndian(m), r) /\ GetFixed(t, n, TRUE) = g
    BY <1>1, <2>2, FixedInFront
  <2> QED BY <1>2, <2>3, <2>4, <2>5 DEF GetInt, Signed, SignBit
<1> QED BY <1>1, <1>3, <1>4

\* A short number has two bytes.
LEMMA ShortWide ==
  ASSUME NEW n \in Nat, Short(n)
  PROVE  n \in Wide(2)
BY SMT, UpToTwoBytes DEF Short

\* A small number.
LEMMA SmallInFront ==
  ASSUME NEW S, Octets \subseteq S, NEW number \in Nat, Short(number)
  PROVE  \E b \in Seq(Octets) :
           /\ b = PutInt(number, 4, TRUE, TRUE) /\ b = PutUint(number, 4, TRUE, TRUE)
           /\ \A r \in Seq(S), size \in Nat :
                GetInt(Both(b, r), size, TRUE, TRUE) = Got(number, r)
<1>1. number \in Wide(WordBytes) /\ Fits(number, 4)
  BY ShortWide, TwoByteNumber
<1>2. PICK m \in Seq(Octets) : m = Magnitude(number) /\ Len(m) \in 0 .. WordBytes
  BY MagnitudeBytes
<1>3. FromBigEndian(m) = number
  BY <1>1, <1>2, MagnitudeBack
<1>4. Len(m) <= WordBytes
  <2>1. WordBytes \in Nat
    BY WidthAssumption
  <2> QED BY <1>2, <2>1
<1>51. PICK b \in Seq(Octets) :
        /\ b = <<Len(m)>> \o m
        /\ \A r \in Seq(S), size \in Nat :
             GetInt(Both(b, r), size, TRUE, TRUE) = Got(FromBigEndian(m), r)
  BY <1>4, SizedInFront
<1>5. \A r \in Seq(S), size \in Nat : GetInt(Both(b, r), size, TRUE, TRUE) = Got(number, r)
  BY <1>3, <1>51
<1>52. b = <<Len(m)>> \o m
  BY <1>51, Zenon
<1>6. Min({4, Len(Magnitude(number))}) = Len(m)
  BY <1>1, <1>2, FitsSize
<1>7. SubSeq(m, 1, Len(m)) = m
  OBVIOUS
<1>8. PutInt(number, 4, TRUE, TRUE) = b
  BY <1>2, <1>52, <1>6, <1>7 DEF PutInt
<1>9. PutUint(number, 4, TRUE, TRUE) = b
  <2>1. PutUint(number, 4, TRUE, TRUE)
          = <<Min({4, Len(Magnitude(number))})>> \o Magnitude(number)
    BY SMT DEF PutUint
  <2>2. Magnitude(number) = m
    BY <1>2
  <2> QED BY <1>6, <1>52, <2>1, <2>2, Zenon
<1> QED BY <1>5, <1>8, <1>9, Zenon

\* A small number as a field.
LEMMA SmallItem ==
  ASSUME NEW S, Octets \subseteq S, NEW big, NEW number \in Nat, Short(number)
  PROVE  \E b \in Seq(S) :
           /\ b = PutInt(number, 4, TRUE, TRUE) /\ b = PutUint(number, 4, TRUE, TRUE)
           /\ FieldRead(S, b, "int", number, big)
           /\ \A r \in Seq(S) : Compressed(Both(b, r)) = Got(number, r)
<1>1. PICK b \in Seq(Octets) :
        /\ b = PutInt(number, 4, TRUE, TRUE) /\ b = PutUint(number, 4, TRUE, TRUE)
        /\ \A r \in Seq(S), size \in Nat :
             GetInt(Both(b, r), size, TRUE, TRUE) = Got(number, r)
  BY SmallInFront
<1>2. b \in Seq(S)
  BY BytesToo
<1>3. FieldRead(S, b, "int", number, big)
  <2>1. ASSUME NEW r \in Seq(S)
        PROVE  GetField(Both(b, r), "int", big) = Got(number, r)
    <3>1. GetInt(Both(b, r), 8, TRUE, TRUE) = Got(number, r)
      BY <1>1
    <3> QED BY <3>1 DEF GetField
  <2> QED BY <2>1 DEF FieldRead
<1>4. ASSUME NEW r \in Seq(S) PROVE Compressed(Both(b, r)) = Got(number, r)
  <2>1. GetInt(Both(b, r), 4, TRUE, TRUE) = Got(number, r)
    BY <1>1
  <2> QED BY <2>1 DEF Compressed
<1> QED BY <1>1, <1>2, <1>3, <1>4

\* One byte.
LEMMA OctetItem ==
  ASSUME NEW S, Octets \subseteq S, NEW big, NEW x \in Octets
  PROVE  /\ <<x>> \in Seq(S) /\ FieldRead(S, <<x>>, "byte", x, big)
         /\ \A r \in Seq(S) : GetByte(Both(<<x>>, r)) = Got(x, r)
<1>1. x \in S /\ <<x>> \in Seq(S)
  OBVIOUS
<1>2. ASSUME NEW r \in Seq(S) PROVE GetByte(Both(<<x>>, r)) = Got(x, r)
  <2>1. PICK s : s = Both(<<x>>, r)
    OBVIOUS
  <2>2. s # <<>> /\ Head(s) = x /\ Tail(s) = r
    BY <1>1, <2>1, FirstAndOthers DEF Both
  <2> QED BY <2>1, <2>2 DEF GetByte
<1>3. ASSUME NEW r \in Seq(S) PROVE GetField(Both(<<x>>, r), "byte", big) = Got(x, r)
  BY <1>2 DEF GetField
<1> QED BY <1>1, <1>2, <1>3 DEF FieldRead

\* A short string, of bytes or of tokens, under its size.
LEMMA ShortString ==
  ASSUME NEW S, Octets \subseteq S, NEW big, NEW data \in Seq(S),
         Len(data) \in 1 .. MaxShort
  PROVE  \E b \in Seq(S) :
           /\ b = PutClr(data, big)
           /\ \A r \in Seq(S) : GetClr(Both(b, r), big) = Got(data, r)
<1>1. PICK n \in Nat : n = Len(data)
  OBVIOUS
<1>2. /\ n \in 0 .. 255 /\ n # 0 /\ n # 253 /\ n # 254 /\ n # 255 /\ n <= 252
  <2>1. n \in 1 .. MaxShort
    BY <1>1
  <2> QED BY <2>1 DEF MaxShort
<1>3. n \in Octets /\ n \in S /\ <<n>> \in Seq(S)
  <2>1. n \in Octets
    BY <1>2, NumbersOfOctets
  <2> QED BY <2>1
<1>4. PICK b \in Seq(S) : b = Both(<<n>>, data)
  BY <1>3, JoinBytes
<1>5. b = PutClr(data, big)
  BY <1>1, <1>2, <1>4 DEF PutClr, MaxShort, Both
<1>6. ASSUME NEW r \in Seq(S) PROVE GetClr(Both(b, r), big) = Got(data, r)
  <2>1. PICK t \in Seq(S) : t = Both(data, r)
    BY JoinBytes
  <2>2. PICK s : s = Both(<<n>>, t)
    OBVIOUS
  <2>3. s = Both(b, r)
    <3>0. PICK w \in Seq(S) : w = <<n>>
      BY <1>3
    <3>1. Both(Both(w, data), r) = Both(w, Both(data, r))
      BY JoinTogether
    <3> QED BY <1>4, <2>1, <2>2, <3>0, <3>1
  <2>4. s # <<>> /\ Head(s) = n /\ Tail(s) = t
    BY <1>3, <2>1, <2>2, FirstAndOthers DEF Both
  <2>5. /\ Len(t) = n + Len(r) /\ SubSeq(t, 1, n) = data
        /\ SubSeq(t, n + 1, Len(t)) = r
    BY <1>1, <2>1, FrontAndOthers DEF Both
  <2>6. n \in 0 .. Len(t)
    BY <2>5
  <2>7. GetBytes(t, n) = Got(data, r)
    BY <2>5, <2>6 DEF GetBytes
  <2>8. n \notin NullSizes /\ n # Chunked
    BY <1>2 DEF NullSizes, Chunked
  <2> QED BY <2>3, <2>4, <2>7, <2>8 DEF GetClr
<1> QED BY <1>4, <1>5, <1>6

\* A token under its length.
LEMMA TokenItem ==
  ASSUME NEW S, Octets \subseteq S, NEW big, NEW token \in S
  PROVE  \E b \in Seq(S) :
           b = PutDlc(<<token>>, big) /\ FieldRead(S, b, "dlc", <<token>>, big)
<1>1. PICK data \in Seq(S) : data = <<token>> /\ Len(data) = 1 /\ data # <<>>
  <2>1. <<token>> \in Seq(S) /\ Len(<<token>>) = 1 /\ <<token>> # <<>>
    OBVIOUS
  <2> QED BY <2>1
<1>2. Short(1) /\ 1 \in 1 .. MaxShort
  BY SMT DEF Short, MaxShort
<1>3. PICK l \in Seq(S) : /\ l = PutUint(1, 4, TRUE, TRUE)
                          /\ \A r \in Seq(S) : Compressed(Both(l, r)) = Got(1, r)
  BY <1>2, SmallItem
<1>4. PICK c \in Seq(S) : /\ c = PutClr(data, big)
                          /\ \A r \in Seq(S) : GetClr(Both(c, r), big) = Got(data, r)
  <2>1. Len(data) \in 1 .. MaxShort
    BY <1>1, <1>2
  <2> QED BY <2>1, ShortString
<1>5. PICK b \in Seq(S) : b = Both(l, c)
  BY JoinBytes
<1>6. b = PutDlc(data, big)
  BY <1>1, <1>3, <1>4, <1>5 DEF PutDlc, Both
<1>7. ASSUME NEW r \in Seq(S) PROVE GetField(Both(b, r), "dlc", big) = Got(data, r)
  <2>1. PICK t \in Seq(S) : t = Both(c, r)
    BY JoinBytes
  <2>2. PICK s : s = Both(l, t)
    OBVIOUS
  <2>3. s = Both(b, r)
    BY <1>5, <2>1, <2>2, JoinTogether
  <2>4. Compressed(s) = Got(1, t) /\ GetClr(t, big) = Got(data, r)
    BY <1>3, <1>4, <2>1, <2>2
  <2>5. GetDlc(s, big) = Cut(GetClr(t, big), 1)
    <3>1. 1 \in Nat /\ 1 >= 1
      OBVIOUS
    <3> QED BY <2>4, <3>1, GetDlcIs
  <2>6. Cut(Got(data, r), 1) = Got(data, r)
    <3>1. Min({1, 1}) = 1
      BY SmallerIs
    <3>2. SubSeq(data, 1, 1) = data
      <4>1. SubSeq(data, 1, Len(data)) = data
        BY SubSeqFull
      <4> QED BY <1>1, <4>1
    <3> QED BY <1>1, <3>1, <3>2 DEF Cut, Got
  <2> QED BY <2>3, <2>4, <2>5, <2>6 DEF GetField
<1> QED BY <1>1, <1>6, <1>7 DEF FieldRead

\* A key with a value, both tokens, and a flag.
TokenPair(S, pair) ==
  \E key \in S, val \in S, num \in {0, 1} : pair = <<<<key>>, <<val>>, num>>

\* Its bytes and tokens, and that a pair is read off some of them.
PutPair(pair, big) == PutKeyVal(pair[1], pair[2], pair[3], big)

PairRead(S, b, pair, big) ==
  \A r \in Seq(S) : GetKeyVal(Both(b, r), big) = Got(pair, r)

\* It is got as it was put.
LEMMA PairItem ==
  ASSUME NEW S, Octets \subseteq S, NEW big, NEW pair, TokenPair(S, pair)
  PROVE  PutPair(pair, big) \in Seq(S) /\ PairRead(S, PutPair(pair, big), pair, big)
<1>1. PICK k \in S, v \in S, num \in {0, 1} : pair = <<<<k>>, <<v>>, num>>
  BY DEF TokenPair
<1>2. PICK key, val : key = <<k>> /\ val = <<v>>
  OBVIOUS
<1>3. PICK b \in Seq(S) : b = PutDlc(key, big) /\ FieldRead(S, b, "dlc", key, big)
  BY <1>2, TokenItem
<1>4. PICK c \in Seq(S) : c = PutDlc(val, big) /\ FieldRead(S, c, "dlc", val, big)
  BY <1>2, TokenItem
<1>5. PICK d \in Seq(S) : d = PutInt(num, 4, TRUE, TRUE) /\ FieldRead(S, d, "int", num, big)
  <2>1. num \in Nat /\ Short(num)
    BY SMT DEF Short
  <2> QED BY <2>1, SmallItem
<1>6. PICK kinds : kinds = <<"dlc", "dlc", "int">>
  OBVIOUS
<1>7. kinds[0 + 1] = "dlc" /\ kinds[1 + 1] = "dlc" /\ kinds[2 + 1] = "int" /\ 3 = Len(kinds)
  BY <1>6
<1>8. FieldsRead(S, b, kinds, 1, <<key>>, big)
  <2>1. FieldsRead(S, <<>>, kinds, 0, <<>>, big)
    BY NoFields
  <2>2. FieldsRead(S, Both(<<>>, b), kinds, 0 + 1, Append(<<>>, key), big)
    BY <1>3, <1>7, <2>1, EmptyString, NextField
  <2> QED BY <2>2, EmptyFirst, FromNothing
<1>9. PICK bc \in Seq(S) : bc = Both(b, c)
  BY JoinBytes
<1>10. FieldsRead(S, bc, kinds, 2, <<key, val>>, big)
  <2>1. FieldsRead(S, Both(b, c), kinds, 1 + 1, Append(<<key>>, val), big)
    BY <1>4, <1>7, <1>8, NextField
  <2>2. Append(<<key>>, val) = <<key, val>> /\ 1 + 1 = 2
    BY FromOne
  <2> QED BY <1>9, <2>1, <2>2
<1>11. PICK bytes \in Seq(S) : bytes = Both(bc, d)
  BY JoinBytes
<1>12. FieldsRead(S, bytes, kinds, 3, pair, big)
  <2>1. FieldsRead(S, Both(bc, d), kinds, 2 + 1, Append(<<key, val>>, num), big)
    BY <1>5, <1>7, <1>10, NextField
  <2>2. Append(<<key, val>>, num) = <<key, val, num>> /\ 2 + 1 = 3
    BY FromTwo
  <2> QED BY <1>1, <1>2, <1>11, <2>1, <2>2
<1>13. PutKeyVal(pair[1], pair[2], pair[3], big) = bytes
  <2>1. PutKeyVal(key, val, num, big)
          = Both(Both(PutDlc(key, big), PutDlc(val, big)), PutInt(num, 4, TRUE, TRUE))
    BY DEF PutKeyVal, Both
  <2>2. pair[1] = key /\ pair[2] = val /\ pair[3] = num
    BY <1>1, <1>2
  <2> QED BY <1>3, <1>4, <1>5, <1>9, <1>11, <2>1, <2>2
<1>14. ASSUME NEW r \in Seq(S) PROVE GetKeyVal(Both(bytes, r), big) = Got(pair, r)
  <2>1. PICK n \in Nat : n = Len(kinds)
    BY <1>7
  <2>2. FieldsRead(S, bytes, kinds, n, pair, big)
    <3>1. n = 3
      BY <1>7, <2>1
    <3> QED BY <1>12, <3>1
  <2>3. GetFields(Both(bytes, r), kinds, big) = Got(pair, r)
    BY <2>1, <2>2, FieldsReadIs
  <2> QED BY <1>6, <2>3 DEF GetKeyVal
<1>15. PairRead(S, bytes, pair, big)
  BY <1>14 DEF PairRead
<1>16. PutPair(pair, big) = bytes
  BY <1>13 DEF PutPair
<1> QED BY <1>11, <1>15, <1>16, Zenon

\* The keys with values of a logon, one after the other.
GotPairs(s, n, big) == GetMany(s, n, LAMBDA v : GetKeyVal(v, big))

PairAfter(g, big) == More(g, GetKeyVal(g.rest, big))

PairSteps(g, s, n, big) ==
  g = [k \in 0 .. n |-> IF k = 0 THEN Got(<<>>, s) ELSE PairAfter(g[k - 1], big)]

\* Only one sequence of steps reads them,
LEMMA PairStepsAgree ==
  ASSUME NEW n \in Nat, NEW s, NEW big,
         NEW g, PairSteps(g, s, n, big), NEW h, PairSteps(h, s, n, big)
  PROVE  g[n] = h[n]
<1> DEFINE T == {k \in Nat : k <= n => g[k] = h[k]}
<1>1. 0 \in T
  <2>1. 0 \in 0 .. n
    OBVIOUS
  <2>2. g[0] = Got(<<>>, s) /\ h[0] = Got(<<>>, s)
    BY <2>1 DEF PairSteps
  <2> QED BY <2>2
<1>2. ASSUME NEW k \in Nat, k \in T PROVE k + 1 \in T
  <2>1. ASSUME k + 1 <= n PROVE g[k + 1] = h[k + 1]
    <3>1. k + 1 \in 0 .. n /\ k + 1 # 0 /\ (k + 1) - 1 = k /\ g[k] = h[k]
      BY <1>2, <2>1
    <3>2. g[k + 1] = PairAfter(g[k], big)
      BY <3>1 DEF PairSteps
    <3>3. h[k + 1] = PairAfter(h[k], big)
      BY <3>1 DEF PairSteps
    <3> QED BY <3>1, <3>2, <3>3
  <2> QED BY <2>1
<1>3. n \in T
  <2> HIDE DEF T
  <2> QED BY <1>1, <1>2, Induction
<1> QED BY <1>3

\* and it reads what GetMany does.
LEMMA GotPairsIs ==
  ASSUME NEW s, NEW big, NEW n \in Nat, NEW g, PairSteps(g, s, n, big)
  PROVE  GotPairs(s, n, big) = g[n]
<1> DEFINE body(f) == [k \in 0 .. n |-> IF k = 0 THEN Got(<<>>, s) ELSE PairAfter(f[k - 1], big)]
           h == CHOOSE f : f = body(f)
<1>1. g = body(g)
  BY DEF PairSteps
<1>2. h = body(h)
  <2> HIDE DEF body
  <2> QED BY <1>1
<1>3. GotPairs(s, n, big) = h[n]
  BY DEF GotPairs, GetMany, PairAfter
<1> HIDE DEF h
<1>4. PairSteps(h, s, n, big)
  BY <1>2 DEF PairSteps
<1>5. h[n] = g[n]
  BY <1>4, PairStepsAgree
<1> QED BY <1>3, <1>5

\* The first of some pairs, and one more.
LEMMA FirstPairs ==
  ASSUME NEW P, NEW pairs \in Seq(P), NEW k \in 1 .. Len(pairs)
  PROVE  Append(SubSeq(pairs, 1, k - 1), pairs[k]) = SubSeq(pairs, 1, k)
<1>1. k \in 1 .. Len(pairs) /\ 1 \in 1 .. Len(pairs)
  OBVIOUS
<1> QED BY <1>1, SubSeqRecursiveSecond, 1 <= k

\* Their bytes and tokens, and that pairs are read off some of them.
PairsPut(pairs, big) == FlattenSeq([i \in DOMAIN pairs |-> PutPair(pairs[i], big)])

PairsRead(S, b, n, pairs, big) ==
  \A r \in Seq(S) : GotPairs(Both(b, r), n, big) = Got(pairs, r)

\* They are got as they were put.
LEMMA PairsBack ==
  ASSUME NEW S, Octets \subseteq S, NEW big, NEW P, NEW pairs \in Seq(P), NEW n \in Nat,
         n = Len(pairs), \A i \in 1 .. n : TokenPair(S, pairs[i])
  PROVE  PairsPut(pairs, big) \in Seq(S) /\ PairsRead(S, PairsPut(pairs, big), n, pairs, big)
<1>1. PICK f : f = [i \in 1 .. n |-> PutPair(pairs[i], big)]
  OBVIOUS
<1>2. ASSUME NEW i \in 1 .. n PROVE f[i] \in Seq(S) /\ PairRead(S, f[i], pairs[i], big)
  <2>1. PICK p : p = pairs[i]
    OBVIOUS
  <2>2. TokenPair(S, p)
    BY <2>1
  <2>3. PutPair(p, big) \in Seq(S) /\ PairRead(S, PutPair(p, big), p, big)
    BY <2>2, PairItem, Zenon
  <2>4. f[i] = PutPair(p, big)
    BY <1>1, <2>1
  <2> QED BY <2>1, <2>3, <2>4, Zenon
<1>3. ASSUME NEW k \in 0 .. n PROVE Strings(S, f, k, n - k)
  BY <1>2 DEF Strings
<1>4. PICK b : b = Stretch(f, 0, n)
  OBVIOUS
<1>5. b \in Seq(S)
  BY <1>3, <1>4, StretchBytes
<1>6. b = PairsPut(pairs, big)
  <2>1. DOMAIN pairs = 1 .. n /\ \A i \in 1 .. n : 0 + i = i
    OBVIOUS
  <2>2. PICK e : e = [i \in 1 .. n |-> f[0 + i]]
    OBVIOUS
  <2>3. e = f
    BY <1>1, <2>1, <2>2
  <2>4. b = FlattenSeq(f)
    BY <1>4, <2>2, <2>3 DEF Stretch
  <2> QED BY <1>1, <2>1, <2>4 DEF PairsPut
<1>7. ASSUME NEW r \in Seq(S) PROVE GotPairs(Both(b, r), n, big) = Got(pairs, r)
  <2>1. PICK g : g = [k \in 0 .. n |->
                        Got(SubSeq(pairs, 1, k), Both(Stretch(f, k, n - k), r))]
    OBVIOUS
  <2>2. g[0] = Got(<<>>, Both(b, r))
    <3>1. SubSeq(pairs, 1, 0) = <<>> /\ n - 0 = n /\ 0 \in 0 .. n
      BY SubSeqEmpty
    <3> QED BY <1>4, <2>1, <3>1
  <2>3. ASSUME NEW k \in 0 .. n, k # 0 PROVE g[k] = PairAfter(g[k - 1], big)
    <3>1. PICK j \in Nat, m \in Nat :
            /\ j = k - 1 /\ m = n - k /\ j \in 0 .. n /\ n - j = m + 1 /\ j + 1 = k
            /\ k \in 1 .. n
      <4>1. k \in 1 .. n /\ k - 1 \in 0 .. n /\ n - (k - 1) = (n - k) + 1 /\ (k - 1) + 1 = k
        BY <2>3
      <4>2. k - 1 \in Nat /\ n - k \in Nat
        BY <4>1
      <4> QED BY <4>1, <4>2
    <3>2. PICK c \in Seq(S) : c = f[k] /\ PairRead(S, c, pairs[k], big)
      BY <1>2, <3>1
    <3>3. PICK d \in Seq(S) : d = Stretch(f, k, m)
      BY <1>3, <3>1, StretchBytes
    <3>4. Stretch(f, j, m + 1) = Both(c, d)
      <4>1. Strings(S, f, j, m + 1)
        BY <1>3, <3>1
      <4>2. Stretch(f, j, m + 1) = Both(f[j + 1], Stretch(f, j + 1, m))
        BY <4>1, StretchFirst
      <4> QED BY <3>1, <3>2, <3>3, <4>2
    <3>5. PICK t \in Seq(S) : t = Both(d, r)
      BY JoinBytes
    <3>6. g[j] = Got(SubSeq(pairs, 1, j), Both(c, t))
      <4>1. Both(Both(c, d), r) = Both(c, Both(d, r))
        BY JoinTogether
      <4>2. g[j] = Got(SubSeq(pairs, 1, j), Both(Stretch(f, j, n - j), r))
        BY <2>1, <3>1
      <4> QED BY <3>1, <3>4, <3>5, <4>1, <4>2
    <3>7. GetKeyVal(g[j].rest, big) = Got(pairs[k], t)
      <4>1. GetKeyVal(Both(c, t), big) = Got(pairs[k], t)
        BY <3>2 DEF PairRead
      <4> QED BY <3>6, <4>1 DEF Got
    <3>8. PairAfter(g[j], big) = Got(Append(SubSeq(pairs, 1, j), pairs[k]), t)
      BY <3>6, <3>7, OneMore DEF PairAfter
    <3>9. Append(SubSeq(pairs, 1, j), pairs[k]) = SubSeq(pairs, 1, k)
      BY <3>1, FirstPairs
    <3>10. g[k] = Got(SubSeq(pairs, 1, k), t)
      BY <2>1, <3>1, <3>3, <3>5
    <3> QED BY <3>1, <3>8, <3>9, <3>10
  <2>4. PairSteps(g, Both(b, r), n, big)
    <3>1. PICK h : h = [k \in 0 .. n |-> IF k = 0 THEN Got(<<>>, Both(b, r))
                                       ELSE PairAfter(g[k - 1], big)]
      OBVIOUS
    <3>2. g = h
      BY <2>1, <2>2, <2>3, <3>1
    <3> QED BY <3>1, <3>2 DEF PairSteps
  <2>5. g[n] = Got(pairs, r)
    <3>1. SubSeq(pairs, 1, n) = pairs
      BY SubSeqFull
    <3>2. n - n = 0 /\ n \in 0 .. n
      OBVIOUS
    <3>3. Both(Stretch(f, n, 0), r) = r
      BY NoStrings, EmptyFirst
    <3> QED BY <2>1, <3>1, <3>2, <3>3
  <2> QED BY <2>4, <2>5, GotPairsIs
<1>8. PairsRead(S, b, n, pairs, big)
  BY <1>7 DEF PairsRead
<1> QED BY <1>5, <1>6, <1>8, Zenon
=============================================================================
