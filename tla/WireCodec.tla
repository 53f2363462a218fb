----------------------------- MODULE WireCodec -----------------------------
(***************************************************************************)
(* The primitives of the TTC protocol, src/pyora/network/session.py: how   *)
(* integers, byte strings (CLR, DLC) and keys with values are put into     *)
(* out_buffer and got from in_buffer.                                      *)
(*                                                                         *)
(* A Put operator is the bytes it appends.  A Get operator is what is got  *)
(* from the front of a stream, with the rest of the stream: see Got.       *)
(***************************************************************************)
EXTENDS Integers, SequencesExt

CONSTANTS
  WordBytes,     \* bytes of the widest integer, 8
  SmallChunk,    \* clr_chunk_size, 0x40, and
  BigChunk       \* 0x7FFF, when use_big_clr_chunks

ASSUME WidthAssumption == WordBytes \in 4 .. 127

ASSUME ChunkAssumption == SmallChunk \in 1 .. 255 /\ BigChunk \in 1 .. 65535

\* The bytes' values, the sign bit of a size, and the sizes that mean more.
Byte == 256
SignBit == 128
Chunked == 254
NullSizes == {0, 253, 255}
MaxShort == 252

-----------------------------------------------------------------------------
(* What is got from a stream: a value and the rest, or an exception.       *)

Got(value, rest) == [ok |-> TRUE, value |-> value, rest |-> rest]

Raised == [ok |-> FALSE]

\* What Continue gets from the rest, unless an exception was raised before.
Then(got, Continue(_, _)) ==
  IF got.ok THEN Continue(got.value, got.rest) ELSE got

\* One item more than those that were got before it.
More(items, item) ==
  IF items.ok /\ item.ok THEN Got(Append(items.value, item.value), item.rest)
  ELSE Raised

\* Two byte strings as one.
Joined(former, latter) ==
  IF former.ok /\ latter.ok THEN Got(former.value \o latter.value, latter.rest)
  ELSE Raised

\* n items from the front of the stream, one after the other.
GetMany(s, n, GetItem(_)) ==
  LET first[k \in 0 .. n] ==
        IF k = 0 THEN Got(<<>>, s)
        ELSE LET items == first[k - 1] IN More(items, GetItem(items.rest))
  IN  first[n]

-----------------------------------------------------------------------------
(* Integers.                                                               *)

\* int.to_bytes of the low bytes: a wider number loses its highest.
BigEndian(number, size) ==
  LET shifted[k \in 0 .. size] ==
        IF k = 0 THEN number ELSE shifted[k - 1] \div Byte
  IN  [i \in 1 .. size |-> shifted[size - i] % Byte]

\* int.from_bytes.
FromBigEndian(bytes) ==
  LET first[n \in 0 .. Len(bytes)] ==
        IF n = 0 THEN 0 ELSE Byte * first[n - 1] + bytes[n]
  IN  first[Len(bytes)]

Zeros(n) == [i \in 1 .. n |-> 0]

\* lstrip of zero bytes.
StripZeros(bytes) ==
  LET significant == {i \in DOMAIN bytes : bytes[i] # 0} IN
  IF significant = {} THEN <<>>
  ELSE SubSeq(bytes, Min(significant), Len(bytes))

\* The bytes of a number in the compressed form.
Magnitude(number) == StripZeros(BigEndian(number, WordBytes))

Fixed(number, size, bigEndian) ==
  IF bigEndian THEN BigEndian(number, size) ELSE Reverse(BigEndian(number, size))

\* put_int.  A number wider than size keeps its first bytes when compressed.
PutInt(number, size, bigEndian, compress) ==
  LET length == Min({size, Len(Magnitude(number))}) IN
  IF ~compress THEN Fixed(number, size, bigEndian)
  ELSE <<length>> \o SubSeq(Magnitude(number), 1, length)

\* put_uint.  Of a number wider than size the compressed form has all bytes,
\* under a smaller size; to_bytes raises for the others.
PutUint(number, size, bigEndian, compress) ==
  IF size = 1 \/ ~compress THEN Fixed(number, size, bigEndian)
  ELSE <<Min({size, Len(Magnitude(number))})>> \o Magnitude(number)

\* Two and four bytes as they are.
Ub2(n) == PutInt(n, 2, TRUE, FALSE)
Ub4(n) == PutInt(n, 4, TRUE, FALSE)

\* What fits into a field of that size.
Fits(number, size) == number >= 0 /\ Len(Magnitude(number)) <= size

\* read(n) of n >= 0: it is never short of bytes unless the two sides disagree,
\* and then waits for bytes that do not come.
GetBytes(s, n) ==
  IF n \notin 0 .. Len(s) THEN Raised ELSE Got(SubSeq(s, 1, n), SubSeq(s, n + 1, Len(s)))

\* get_byte.
GetByte(s) == IF s = <<>> THEN Raised ELSE Got(Head(s), Tail(s))

\* get_null_term_string: the bytes in front of a zero.
GetNullTerm(s) ==
  LET zeros == {i \in DOMAIN s : s[i] = 0} IN
  IF zeros = {} THEN Raised
  ELSE Got(SubSeq(s, 1, Min(zeros) - 1), SubSeq(s, Min(zeros) + 1, Len(s)))

\* The bytes of a number: a size that no integer has raises.
GetFixed(s, size, bigEndian) ==
  IF size > WordBytes \/ size \notin 0 .. Len(s) THEN Raised
  ELSE Got(FromBigEndian(IF bigEndian THEN SubSeq(s, 1, size)
                         ELSE Reverse(SubSeq(s, 1, size))),
           SubSeq(s, size + 1, Len(s)))

\* The number with its sign.
Signed(n, negative) ==
  IF n.ok /\ negative THEN Got(-n.value, n.rest) ELSE n

\* get_int64 and get_int: compressed, the stream has the size and the sign.
GetInt(s, size, compress, bigEndian) ==
  IF ~compress THEN GetFixed(s, size, bigEndian)
  ELSE IF s = <<>> THEN Raised
  ELSE Signed(GetFixed(Tail(s), Head(s) % SignBit, TRUE), Head(s) >= SignBit)

\* The server's compressed form of a negative number (external).
PutNegative(number) ==
  <<SignBit + Len(Magnitude(-number))>> \o Magnitude(-number)

-----------------------------------------------------------------------------
(* Byte strings.  None and the empty string are the same on the wire, and   *)
(* both are <<>> here.                                                     *)

\* The size of a chunk in front of it.
PutChunkSize(n, big) == IF big THEN PutInt(n, 4, TRUE, TRUE) ELSE <<n>>

GetChunkSize(s, big) == IF big THEN GetInt(s, 4, TRUE, TRUE) ELSE GetByte(s)

ChunkSize(big) == IF big THEN BigChunk ELSE SmallChunk

\* Chunk k of the data, without its size.
Chunk(data, k, big) ==
  SubSeq(data, (k - 1) * ChunkSize(big) + 1, Min({k * ChunkSize(big), Len(data)}))

\* put_clr: a size and the data, or chunks of it up to an empty one.
PutClr(data, big) ==
  IF Len(data) <= MaxShort THEN <<Len(data)>> \o data
  ELSE <<Chunked>>
         \o FlattenSeq(
              [k \in 1 .. (Len(data) + ChunkSize(big) - 1) \div ChunkSize(big) |->
                 PutChunkSize(Len(Chunk(data, k, big)), big) \o Chunk(data, k, big)])
         \o <<0>>

\* The chunks from the front of the stream to the empty one; after[n] reads
\* those that are left when n bytes of the stream are.
GetChunks(s, big) ==
  LET after[n \in 0 .. Len(s)] ==
        Then(GetChunkSize(SubSeq(s, Len(s) - n + 1, Len(s)), big), LAMBDA size, t :
          IF size = 0 THEN Got(<<>>, t)
          ELSE Joined(GetBytes(t, size), after[Len(t) - size]))
  IN  after[Len(s)]

\* get_clr.
GetClr(s, big) ==
  IF s = <<>> THEN Raised
  ELSE CASE Head(s) \in NullSizes -> Got(<<>>, Tail(s))
         [] Head(s) = Chunked      -> GetChunks(Tail(s), big)
         [] OTHER                  -> GetBytes(Tail(s), Head(s))

\* A string under its length, as put_key_val writes it and the server a DLC.
PutDlc(data, big) ==
  IF data = <<>> THEN <<0>>
  ELSE PutUint(Len(data), 4, TRUE, TRUE) \o PutClr(data, big)

\* At most length bytes of a string, which may not be empty.
Cut(data, length) ==
  IF ~data.ok \/ data.value = <<>> THEN Raised
  ELSE Got(SubSeq(data.value, 1, Min({length, Len(data.value)})), data.rest)

\* get_dlc: a length without data raises, data longer than it is cut.
GetDlc(s, big) ==
  Then(GetInt(s, 4, TRUE, TRUE), LAMBDA length, rest :
    IF length <= 0 THEN Got(<<>>, rest)
    ELSE Cut(GetClr(rest, big), length))

-----------------------------------------------------------------------------
(* Fields one after the other, each of a kind.                             *)

GetField(s, kind, big) ==
  CASE kind = "int" -> GetInt(s, 8, TRUE, TRUE)
    [] kind = "byte" -> GetByte(s)
    [] kind = "clr" -> GetClr(s, big)
    [] kind = "dlc" -> GetDlc(s, big)

GetFields(s, kinds, big) ==
  LET first[k \in 0 .. Len(kinds)] ==
        IF k = 0 THEN Got(<<>>, s)
        ELSE LET fields == first[k - 1] IN
             More(fields, GetField(fields.rest, kinds[k], big))
  IN  first[Len(kinds)]

\* put_key_val and get_key_val.
PutKeyVal(key, val, num, big) ==
  PutDlc(key, big) \o PutDlc(val, big) \o PutInt(num, 4, TRUE, TRUE)

GetKeyVal(s, big) == GetFields(s, <<"dlc", "dlc", "int">>, big)
=============================================================================
