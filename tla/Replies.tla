------------------------------ MODULE Replies ------------------------------
(***************************************************************************)
(* Messages of the server whose form depends on what was negotiated: the   *)
(* definition of a column (TypeConverter.read_columns) and the summary of  *)
(* a call (src/pyora/network/summary_object.py).                           *)
(*                                                                         *)
(* What was negotiated is a record: ttc, the version of TTC; eos and fsap, *)
(* the capabilities that add fields to a summary; big, the form of chunks. *)
(***************************************************************************)
EXTENDS WireCodec

-----------------------------------------------------------------------------
(* Fields one after the other, each of a kind.                             *)

\* The server's integers (external).
PutCompressed(n) ==
  IF n < 0 THEN PutNegative(n) ELSE PutUint(n, WordBytes, TRUE, TRUE)

PutField(field, kind, big) ==
  CASE kind = "int" -> PutCompressed(field)
    [] kind = "byte" -> <<field>>
    [] kind = "clr" -> PutClr(field, big)
    [] kind = "dlc" -> PutDlc(field, big)

\* Pairs of a field and its kind.
PutFields(fields, big) ==
  FlattenSeq([i \in DOMAIN fields |-> PutField(fields[i][1], fields[i][2], big)])

If(condition, fields) == IF condition THEN fields ELSE <<>>

-----------------------------------------------------------------------------
(* Columns.                                                                *)

\* The types whose scale takes two bytes; INTERVAL types have the numbers 182 and
\* 183 here, for data_set.py binds the names of 189 and 190 to them as well.
ScaleTypes == {2, 180, 181, 183, 187, 188, 231, 232}

FixedLengths ==
  [type \in {11, 12, 100, 101, 181, 182, 183} |->
     CASE type = 11 -> 128 [] type = 12 -> 7 [] type = 100 -> 4
       [] type = 101 -> 8 [] OTHER -> 11]

FloatScale == -127
NoScale == 255

\* The fields of read_columns after the type.
ColumnKinds(type, ttc) ==
  <<"byte", "byte", IF type \in ScaleTypes THEN "int" ELSE "byte",
    "int", "int", "int", "dlc", "int", "int", "byte", "int">>
    \o If(ttc >= 8, <<"int">>)
    \o <<"byte", "byte", "dlc", "dlc", "dlc">>
    \o If(ttc >= 3, <<"int">>) \o If(ttc >= 6, <<"int">>)

\* ceil(precision * 0.30103): decimal digits of that many bits.
DecimalDigits(bits) == (bits * 30103 + 99999) \div 100000

\* Precision and scale as the driver keeps them: of a FLOAT the digits of its
\* bits, of a NUMBER without either the widest.
IsFloat(type, scale) == type \in ScaleTypes /\ scale = FloatScale

KeptScale(type, precision, scale) ==
  IF IsFloat(type, scale) \/ (type = 2 /\ precision = 0 /\ scale = 0)
  THEN NoScale ELSE scale

KeptPrecision(type, precision, scale) ==
  CASE type = 2 /\ precision = 0 /\ KeptScale(type, precision, scale) = NoScale -> 38
    [] IsFloat(type, scale) /\ ~(type = 2 /\ precision = 0) -> DecimalDigits(precision)
    [] OTHER -> precision

ColumnOf(type, f, ttc) ==
  LET n == IF ttc >= 8 THEN 1 ELSE 0 IN
  [type |-> type, subtype |-> f[1],
   precision |-> KeptPrecision(type, f[2], f[3]),
   scale |-> KeptScale(type, f[2], f[3]),
   maxLen |-> IF type \in DOMAIN FixedLengths THEN FixedLengths[type] ELSE f[4],
   contFlag |-> f[6], charset |-> f[9], maxCharLen |-> f[11],
   nullable |-> f[12 + n] > 0, name |-> f[14 + n], typeName |-> f[16 + n]]

\* read_columns.
ReadColumn(s, session) ==
  Then(GetByte(s), LAMBDA type, t :
    Then(GetFields(t, ColumnKinds(type, session.ttc), session.big), LAMBDA f, u :
      Got(ColumnOf(type, f, session.ttc), u)))

\* The server's definition of a column (external).
PutColumn(c, session) ==
  <<c.type>>
    \o PutFields(
         <<<<c.subtype, "byte">>, <<c.precision, "byte">>,
           <<c.scale, IF c.type \in ScaleTypes THEN "int" ELSE "byte">>,
           <<c.maxLen, "int">>, <<0, "int">>, <<c.contFlag, "int">>, <<<<>>, "dlc">>,
           <<0, "int">>, <<c.charset, "int">>, <<1, "byte">>, <<c.maxCharLen, "int">>>>
           \o If(session.ttc >= 8, <<<<0, "int">>>>)
           \o <<<<IF c.nullable THEN 1 ELSE 0, "byte">>, <<Len(c.name), "byte">>,
                <<c.name, "dlc">>, <<<<>>, "dlc">>, <<c.typeName, "dlc">>>>
           \o If(session.ttc >= 3, <<<<1, "int">>>>)
           \o If(session.ttc >= 6, <<<<0, "int">>>>),
         session.big)

-----------------------------------------------------------------------------
(* Summaries.                                                              *)

BindErrors == 24381

\* new_summary up to the arrays of errors.
SummaryKinds(session) ==
  If(session.eos, <<"int">>) \o If(session.ttc >= 3 /\ session.fsap, <<"int">>)
    \o <<"int", "int", "int", "int", "int", "int", "byte", "byte">>
    \o (IF session.ttc >= 4 THEN <<"int", "int">> ELSE <<"byte", "byte">>)
    \o <<"byte", "byte", "int", "int", "byte", "int", "int", "int", "byte", "byte",
         "int", "int", "dlc">>
    \o If(session.ttc < 7, <<"dlc", "dlc", "dlc">>)

\* Of fields that were got n of them, the first and then one of every stride.
Every(first, stride, n, fields) ==
  IF fields.ok
  THEN Got([i \in 1 .. n |-> fields.value[first + stride * (i - 1)]], fields.rest)
  ELSE Raised

\* An array of integers, each in a chunk of its own when the first byte says so.
ReadErrorArray(s, big) ==
  Then(GetField(s, "int", big), LAMBDA length, t :
    IF length <= 0 THEN Got(<<>>, t)
    ELSE IF t # <<>> /\ Head(t) = Chunked
    THEN Every(3, 2, length,
               GetFields(t, <<"byte">>
                            \o [i \in 1 .. 2 * length |->
                                  IF i % 2 = 1 /\ ~big THEN "byte" ELSE "int"]
                            \o <<"byte">>, big))
    ELSE Every(2, 1, length,
               GetFields(t, <<"byte">> \o [i \in 1 .. length |-> "int"], big)))

ReadErrorMessages(s, big) ==
  Then(GetField(s, "int", big), LAMBDA length, t :
    IF length <= 0 THEN Got(<<>>, t)
    ELSE Every(3, 4, length,
               GetFields(t, <<"byte">>
                            \o [i \in 1 .. 4 * length |->
                                  <<"int", "dlc", "byte", "byte">>[((i - 1) % 4) + 1]],
                         big)))

\* The bind errors: the first array that is not empty makes them, and a longer
\* one raises IndexError.
Errors(codes, offsets, messages) ==
  LET n == IF codes # <<>> THEN Len(codes)
           ELSE IF offsets # <<>> THEN Len(offsets) ELSE Len(messages)
      item(array, i, none) == IF i \in DOMAIN array THEN array[i] ELSE none
  IN  IF Max({Len(codes), Len(offsets), Len(messages)}) > n THEN Raised
      ELSE Got([i \in 1 .. n |-> [code |-> item(codes, i, 0),
                                  offset |-> item(offsets, i, 0),
                                  message |-> item(messages, i, <<>>)]], <<>>)

\* The arrays, and the code and rows that replace those of the head.
ReadErrors(s, big) ==
  Then(ReadErrorArray(s, big), LAMBDA codes, t :
    Then(ReadErrorArray(t, big), LAMBDA offsets, u :
      Then(ReadErrorMessages(u, big), LAMBDA messages, v :
        Then(Errors(codes, offsets, messages), LAMBDA errors, none :
          Then(GetFields(v, <<"int", "int">>, big), LAMBDA f, w :
            Got([errors |-> errors, code |-> f[1], rows |-> f[2]], w))))))

\* The message is there for a code, and those of bind errors are their first's.
WithMessage(summary, s, big) ==
  Then(IF summary.code # 0 THEN GetClr(s, big) ELSE Got(<<>>, s), LAMBDA message, t :
    Got(IF summary.code = BindErrors /\ summary.errors # <<>>
        THEN [summary EXCEPT !.code = summary.errors[1].code]
               @@ [message |-> summary.errors[1].message]
        ELSE summary @@ [message |-> message], t))

\* new_summary.
ReadSummary(s, session) ==
  LET n == (IF session.eos THEN 1 ELSE 0)
             + (IF session.ttc >= 3 /\ session.fsap THEN 1 ELSE 0)
  IN  Then(GetFields(s, SummaryKinds(session), session.big), LAMBDA f, t :
        LET head == [rows |-> f[n + 1], code |-> f[n + 2], cursor |-> f[n + 5],
                     position |-> f[n + 6], errors |-> <<>>]
        IN  IF session.ttc < 7 THEN WithMessage(head, t, session.big)
            ELSE Then(ReadErrors(t, session.big), LAMBDA tail, u :
                   WithMessage(tail @@ head, u, session.big)))

\* The server's summary (external); it may put an array into chunks.
PutErrorArray(array, chunked, big) ==
  PutCompressed(Len(array))
    \o If(array # <<>>,
          <<IF chunked THEN Chunked ELSE Len(array)>>
            \o FlattenSeq([i \in DOMAIN array |->
                 If(chunked, PutChunkSize(Len(PutCompressed(array[i])), big))
                   \o PutCompressed(array[i])])
            \o If(chunked, <<0>>))

PutErrors(errors, big) ==
  PutCompressed(Len(errors))
    \o If(errors # <<>>,
          <<Len(errors)>>
            \o FlattenSeq([i \in DOMAIN errors |->
                 PutFields(<<<<1, "int">>, <<errors[i].message, "dlc">>, <<0, "byte">>,
                             <<0, "byte">>>>, big)]))

PutSummary(x, session) ==
  LET small == IF session.ttc >= 4 THEN "int" ELSE "byte"
      codes == [i \in DOMAIN x.errors |-> x.errors[i].code]
      offsets == [i \in DOMAIN x.errors |-> x.errors[i].offset]
  IN  PutFields(
        If(session.eos, <<<<1, "int">>>>)
          \o If(session.ttc >= 3 /\ session.fsap, <<<<3, "int">>>>)
          \o <<<<x.rows, "int">>, <<x.code, "int">>, <<0, "int">>, <<0, "int">>,
               <<x.cursor, "int">>, <<x.position, "int">>, <<3, "byte">>, <<0, "byte">>,
               <<0, small>>, <<0, small>>, <<0, "byte">>, <<0, "byte">>, <<0, "int">>,
               <<0, "int">>, <<0, "byte">>, <<0, "int">>, <<0, "int">>, <<0, "int">>,
               <<0, "byte">>, <<0, "byte">>, <<0, "int">>, <<1, "int">>, <<<<>>, "dlc">>>>
          \o If(session.ttc < 7, <<<<<<>>, "dlc">>, <<<<>>, "dlc">>, <<<<>>, "dlc">>>>),
        session.big)
        \o If(session.ttc >= 7,
              PutErrorArray(codes, x.chunked, session.big)
                \o PutErrorArray(offsets, x.chunked, session.big)
                \o PutErrors(x.errors, session.big)
                \o PutFields(<<<<x.code, "int">>, <<x.rows, "int">>>>, session.big))
        \o If(x.code # 0, PutClr(x.message, session.big))
=============================================================================
