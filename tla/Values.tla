------------------------------- MODULE Values -------------------------------
(***************************************************************************)
(* Column values and bind values: which codec a type has, and how a value  *)
(* becomes the bytes of a CLR and is read again.                           *)
(*   src/pyora/parameter_encode.py          encode_value_binary            *)
(*   src/pyora/converters/type_conversion.py  TypeConverter.read           *)
(*   src/pyora/converters/strings.py        StringConverter                *)
(*                                                                         *)
(* A text is a sequence of code points, bytes are a sequence of bytes, a   *)
(* number is a Value of OracleNumber, a float what DecodedNumber makes, a  *)
(* datetime a moment of DateCodec.  Null is None, and what a CLR cannot    *)
(* tell from it, the empty string.                                         *)
(***************************************************************************)
EXTENDS OracleNumber, DateCodec, WireCodec

Null == <<>>

-----------------------------------------------------------------------------
(* Text.                                                                   *)

\* The codec of a character set; the code pages of single languages, which
\* Python's codecs map, are left out.
Codec(charset) ==
  CASE charset = 1 -> "ascii"
    [] charset = 31 -> "latin-1"
    [] charset \in {1004, 2000} -> "utf-16-be"
    [] charset = 2002 -> "utf-16-le"
    [] OTHER -> "utf-8"

\* "?", which stands for what a codec has no bytes for.
Replacement == 63

Encodable(char, codec) ==
  CASE codec = "ascii" -> char < 128
    [] codec = "latin-1" -> char < 256
    [] OTHER -> TRUE

\* The bytes of one character of the basic plane.
CharBytes(char, codec) ==
  CASE ~Encodable(char, codec) -> <<Replacement>>
    [] codec = "utf-16-be" -> <<char \div 256, char % 256>>
    [] codec = "utf-16-le" -> <<char % 256, char \div 256>>
    [] codec = "utf-8" /\ char >= 2048 ->
         <<224 + char \div 4096, 128 + ((char \div 64) % 64), 128 + (char % 64)>>
    [] codec = "utf-8" /\ char \in 128 .. 2047 ->
         <<192 + char \div 64, 128 + (char % 64)>>
    [] OTHER -> <<char>>

\* StringConverter.encode.
EncodeText(text, charset) ==
  FlattenSeq([i \in DOMAIN text |-> CharBytes(text[i], Codec(charset))])

\* The code point whose UTF-8 form starts at byte i.
Utf8Char(bytes, i) ==
  CASE bytes[i] < 128 -> bytes[i]
    [] bytes[i] \in 192 .. 223 -> (bytes[i] % 32) * 64 + (bytes[i + 1] % 64)
    [] OTHER -> ((bytes[i] % 16) * 64 + (bytes[i + 1] % 64)) * 64 + (bytes[i + 2] % 64)

\* StringConverter.decode, of bytes the codec has encoded.
DecodeText(bytes, charset) ==
  LET codec == Codec(charset)
      starts == SelectSeq([i \in DOMAIN bytes |-> i],
                  LAMBDA i : CASE codec = "utf-8" -> bytes[i] \notin 128 .. 191
                               [] codec \in {"utf-16-be", "utf-16-le"} -> i % 2 = 1
                               [] OTHER -> TRUE)
      char(i) == CASE codec = "utf-8" -> Utf8Char(bytes, i)
                   [] codec = "utf-16-be" -> bytes[i] * 256 + bytes[i + 1]
                   [] codec = "utf-16-le" -> bytes[i] + bytes[i + 1] * 256
                   [] OTHER -> bytes[i]
  IN  [k \in DOMAIN starts |-> char(starts[k])]

-----------------------------------------------------------------------------
(* Binding: encode_value_binary.                                           *)

BoundNumbers == {2, 4}
BoundTexts == {1, 8, 9, 94, 96, 97}
BoundRaws == {15, 23, 24}
Booleans == {252}
Dates == {12}
Timestamps == {180, 187}
ZonedTimestamps == {181, 188, 231, 232}
Moments == Dates \cup Timestamps \cup ZonedTimestamps

\* For any other type encode_value_binary raises TypeError.
Bindable(type) ==
  type \in BoundNumbers \cup BoundTexts \cup BoundRaws \cup Booleans \cup Moments

\* encode_value_binary, with the character set of the connection.
BoundBytes(value, type, charset) ==
  IF value = Null THEN <<>>
  ELSE CASE type \in BoundNumbers -> Encoded(value)
       [] type \in BoundTexts -> EncodeText(value, charset)
       [] type \in BoundRaws -> value
       [] type \in Booleans -> IF value.truth THEN <<1, 1>> ELSE <<1, 0>>
       [] type \in Dates -> DateBytes(value)
       [] type \in Timestamps \cup ZonedTimestamps ->
            TimestampBytes(value, type \in ZonedTimestamps)

-----------------------------------------------------------------------------
(* Reading columns.                                                        *)

ReadNumbers == {2, 3, 4}
ReadTexts == {1, 8, 11, 94, 96, 208}
ReadRaws == {23, 24, 95}
Locators == {112, 113, 114, 127}
Floats == {100}
Doubles == {101}

\* For any other type decode_value raises NotImplementedError.
Readable(type) ==
  type \in ReadNumbers \cup ReadTexts \cup ReadRaws \cup Booleans \cup Moments
             \cup Locators \cup Floats \cup Doubles

\* The bits of a float of that many bytes: missing bytes are zero.
FloatBits(bytes, size) == SubSeq(bytes \o [i \in 1 .. size |-> 0], 1, size)

\* decode_value; for a datetime out of Python's range it raises.
Decode(bytes, column) ==
  LET type == column.type
      charset == IF column.charset # 0 THEN column.charset ELSE column.connCharset
  IN  CASE type \in ReadTexts -> DecodeText(bytes, charset)
        [] type \in Booleans -> [truth |-> bytes = <<1, 1>>]
        [] type \in ReadRaws \cup Locators -> bytes
        [] type \in ReadNumbers -> DecodedNumber(bytes)
        [] type \in Moments -> MomentIn(bytes)
        [] type \in Doubles -> FloatBits(bytes, 8)
        [] type \in Floats -> FloatBits(bytes, 4)

Decodes(bytes, type) ==
  /\ Readable(type)
  /\ type \in Moments => Len(bytes) >= 7 /\ Representable(MomentIn(bytes))

\* Mutant: a column that is absent from the row is read as a CLR.
Absent_Never(column) == FALSE

\* A column whose values are empty has no bytes in a row.
Absent(column) ==
  \/ column.type \in {1, 96} /\ column.maxCharLen = 0
  \/ column.type = 23 /\ column.maxLen = 0

\* TypeConverter.read.
ReadValue(s, column, big) ==
  IF Absent(column) THEN Got(Null, s)
  ELSE Then(GetClr(s, big), LAMBDA bytes, rest :
         IF bytes = <<>> THEN Got(Null, rest)
         ELSE IF ~Decodes(bytes, column.type) THEN Raised
         ELSE Got(Decode(bytes, column), rest))

-----------------------------------------------------------------------------
(* The server (external): what it stores of a value in a column, and the   *)
(* bytes of a row.                                                         *)

ColumnBytes(value, column) ==
  IF value = Null THEN <<>>
  ELSE CASE column.type \in ReadNumbers ->
            IF value \in Infinities
            THEN IF value.negative THEN NegativeInfinity ELSE PositiveInfinity
            ELSE Encoded(value)
       [] column.type \in ReadTexts ->
            EncodeText(value, IF column.charset # 0 THEN column.charset
                              ELSE column.connCharset)
       [] column.type \in Booleans -> IF value.truth THEN <<1, 1>> ELSE <<1, 0>>
       [] column.type \in Dates -> DateBytes(value)
       [] column.type \in Timestamps \cup ZonedTimestamps ->
            TimestampBytes(value, column.type \in ZonedTimestamps)
       [] OTHER -> value

\* It sends nothing for a column in which no value has bytes.
Empty(column) == IF column.type = 23 THEN column.maxLen = 0
                 ELSE column.type \in {1, 96} /\ column.maxCharLen = 0

PutColumnValue(value, column, big) ==
  IF Empty(column) THEN <<>> ELSE PutClr(ColumnBytes(value, column), big)
=============================================================================
