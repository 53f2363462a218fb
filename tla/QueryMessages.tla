--------------------------- MODULE QueryMessages ---------------------------
(***************************************************************************)
(* The messages of a call: the requests of src/pyora/command.py and        *)
(* src/pyora/db_version.py, and what read_response, Connection.read and    *)
(* the second step of the logon take from the answer.  A reply is a record *)
(* with the code of the message; what else it has depends on the code.     *)
(*                                                                         *)
(* A form is what the client knows when it reads a reply: which of the     *)
(* three reads it, the columns it has, which of them are marked as sent,   *)
(* and whether the call has a summary yet.                                 *)
(***************************************************************************)
EXTENDS Values, ProtocolNego, Replies

Repeat(n, item) == [i \in 1 .. n |-> item]

-----------------------------------------------------------------------------
(* Requests.                                                               *)

\* The bits of exe_op that a command can have, in the code's order.
Option ==
  [pl |-> 262144, commit |-> 256, parse |-> 1, execute |-> 32, plain |-> 32768]

\* _get_exe_option; c is a command that is parsed and executed, without binds.
ExeOption(c) ==
  LET into == c.type = "PLSQL" \/ c.returns IN
  (IF into THEN Option.pl ELSE 0)
    + (IF c.autoCommit /\ c.type \in {"DML", "PLSQL"} THEN Option.commit ELSE 0)
    + Option.parse + Option.execute
    + (IF ~into THEN Option.plain ELSE 0)

MaxLob == 1073741823   \* 0x3FFFFFFF

\* The array al8i4 of the request.
Longs(c) ==
  [i \in 1 .. 13 |->
     CASE i = 1 -> 1
       [] i = 2 -> (IF c.type = "SELECT" THEN 0 ELSE 1)
       [] i \in {6, 7} -> c.scn[i - 5]
       [] i = 8 -> (IF c.type = "SELECT" THEN 1 ELSE 0)
       [] i = 10 -> 32768
       [] OTHER -> 0]

\* The zeros and ones that versions added to the request.
Additions(ttc) ==
  If(ttc >= 4, <<0, 0, 1>>) \o If(ttc >= 5, Zeros(5)) \o If(ttc >= 7, Zeros(3))
    \o If(ttc >= 8, Zeros(5)) \o If(ttc >= 9, Zeros(2))

Put4(n) == PutUint(n, 4, TRUE, TRUE)
Put2(n) == PutUint(n, 2, TRUE, TRUE)

\* _basic_write.
WriteCommand(c, session) ==
  <<3, 94, 0>> \o Put4(ExeOption(c)) \o Put2(c.cursor)
    \o <<IF c.cursor = 0 THEN 1 ELSE 0>> \o Put4(Len(c.text)) \o <<1>> \o Put2(13)
    \o <<0, 0, 0>> \o (IF c.type = "SELECT" THEN Put4(c.rows) ELSE <<0>>)
    \o Put4(MaxLob) \o Zeros(9) \o Additions(session.ttc)
    \o PutClr(c.text, session.big)
    \o FlattenSeq([i \in 1 .. 13 |-> Put4(Longs(c)[i])])

\* The request of fetch_more.
WriteFetch(f) ==
  <<3, 5, 0>> \o PutInt(f.cursor, 2, TRUE, TRUE) \o PutInt(f.count, 2, TRUE, TRUE)

\* The request of get_db_version.
AskVersion(session) ==
  <<3, 59, 0, 1>> \o Put2(256) \o <<1, 1>> \o If(session.ttc >= 11, Put4(1))

\* How the server reads them (external): the zeros are fields of its own.
TakeCommand(s, session) ==
  LET kinds == <<"byte", "byte", "byte", "int", "int", "byte", "int", "byte", "int",
                 "byte", "byte", "byte", "int", "int">>
                 \o Repeat(9 + Len(Additions(session.ttc)), "byte")
                 \o <<"clr">> \o Repeat(13, "int")
  IN  Then(GetFields(s, kinds, session.big), LAMBDA f, rest :
        LET longs == SubSeq(f, Len(f) - 12, Len(f)) IN
        IF SubSeq(f, 1, 3) # <<3, 94, 0>> \/ f[9] # Len(longs) THEN Raised
        ELSE Got([options |-> f[4], cursor |-> f[5], new |-> f[6] = 1, length |-> f[7],
                  rows |-> f[13], text |-> f[Len(f) - 13], iterations |-> longs[2],
                  scn |-> <<longs[6], longs[7]>>, query |-> longs[8] = 1], rest))

TakeFetch(s) ==
  Then(GetFields(s, <<"byte", "byte", "byte", "int", "int">>, FALSE), LAMBDA f, rest :
    IF SubSeq(f, 1, 3) # <<3, 5, 0>> THEN Raised
    ELSE Got([cursor |-> f[4], count |-> f[5]], rest))

TakeVersion(s, session) ==
  Then(GetFields(s, Repeat(4, "byte") \o <<"int", "byte", "byte">>
                      \o If(session.ttc >= 11, <<"int">>), FALSE), LAMBDA f, rest :
    IF SubSeq(f, 1, 4) # <<3, 59, 0, 1>> THEN Raised ELSE Got([size |-> f[5]], rest))

-----------------------------------------------------------------------------
(* Replies that read_response handles itself.                              *)

\* _apply_bit_vector: columns behind the vector stay as they were.
Marks(bits, former, n) ==
  IF bits = <<>> THEN 1 .. n
  ELSE LET covered == 1 .. Min({n, 8 * Len(bits)}) IN
       (former \ covered)
         \cup {i \in covered : Bit(bits[(i - 1) \div 8 + 1], 2 ^ ((i - 1) % 8))}

\* _result_set_load, and the bytes that follow it in message 11.
ReadResultHeader(s, code, form, session) ==
  LET n == Len(form.columns) IN
  Then(GetFields(s, <<"byte", "int", "int", "int", "int", "dlc", "dlc">>, session.big),
    LAMBDA f, t :
      LET count == IF n = 0 THEN f[2] + 256 * f[3] ELSE n IN
      Then(GetBytes(t, IF code = 11 THEN count ELSE 0), LAMBDA skipped, rest :
        Got([code |-> code, count |-> count, rows |-> f[4],
             marked |-> Marks(f[6], form.marked, n)], rest)))

\* Message 21: a bit for each column.
ReadBits(s, form) ==
  LET n == Len(form.columns) IN
  Then(GetField(s, "int", FALSE), LAMBDA sent, t :
    Then(GetBytes(t, (n + 7) \div 8), LAMBDA bits, rest :
      Got([code |-> 21, marked |-> Marks(bits, form.marked, n)], rest)))

\* _read_one_row: a column that is not marked keeps its value (see Fetch).
ReadRow(s, form, session) ==
  LET marked == SelectSeq([i \in DOMAIN form.columns |-> i],
                          LAMBDA i : i \in form.marked)
      columns == [k \in DOMAIN marked |-> form.columns[marked[k]]]
  IN  Then(FoldLeft(LAMBDA got, column :
                      Then(got, LAMBDA values, t :
                        Then(ReadValue(t, column, session.big), LAMBDA value, u :
                          Got(Append(values, value), u))),
                    Got(<<>>, s), columns),
           LAMBDA values, rest : Got([code |-> 7, values |-> values], rest))

\* _read_column_definitions.
ReadDefinitions(s, session) ==
  Then(GetByte(s), LAMBDA size, s1 :
  Then(GetBytes(s1, size), LAMBDA name, s2 :
  Then(GetFields(s2, <<"int", "int">>, session.big), LAMBDA f, s3 :
  Then(GetBytes(s3, IF f[2] > 0 THEN 1 ELSE 0), LAMBDA skipped, s4 :
  Then(GetMany(s4, f[2], LAMBDA t : ReadColumn(t, session)), LAMBDA columns, s5 :
  Then(GetFields(s5, <<"dlc">> \o If(session.ttc >= 3, <<"int", "int">>)
                       \o If(session.ttc >= 4, <<"int", "int">>)
                       \o If(session.ttc >= 5, <<"dlc">>), session.big),
    LAMBDA tail, rest :
      Got([code |-> 16, maxRowSize |-> f[1], columns |-> columns], rest)))))))

\* Keys with values, as many as the number in front of them says.
ReadPairs(s, session) ==
  Then(GetField(s, "int", session.big), LAMBDA n, t :
    GetMany(t, n, LAMBDA u : GetKeyVal(u, session.big)))

ZoneKey == 163

\* The value of the last pair with the key of the time zone.
ResultZone(pairs) ==
  LET zones == SelectSeq(pairs, LAMBDA pair : pair[3] = ZoneKey) IN
  IF zones = <<>> THEN <<>> ELSE Last(zones)[2]

\* _read_oall8; the query id is the last eight bytes, the lowest first.
ReadResults(s, session) ==
  Then(GetFields(s, <<"int", "int", "int">>, session.big), LAMBDA f, s1 :
  Then(GetFields(s1, Repeat(f[1] - 2, "int") \o <<"int">>, session.big), LAMBDA more, s2 :
  Then(ReadPairs(s2, session), LAMBDA pairs, s3 :
  Then(GetField(IF session.ttc >= 4 THEN s3 ELSE <<0>> \o s3, "int", session.big),
    LAMBDA size, s4 :
      Then(GetBytes(s4, size), LAMBDA id, rest :
        Got([code |-> 8, scn |-> <<f[2], f[3]>>, zone |-> ResultZone(pairs),
             queryId |-> IF size < 8 THEN <<>>
                         ELSE Reverse(SubSeq(id, size - 7, size))], rest))))))

-----------------------------------------------------------------------------
(* Replies of process_ttc_response.                                        *)

\* Message 8, which has another form here.
ReadParameters(s, session) ==
  Then(GetField(s, "int", session.big), LAMBDA n, s1 :
  Then(GetFields(s1, Repeat(n + 1, "int"), session.big), LAMBDA f, s2 :
  Then(ReadPairs(s2, session), LAMBDA pairs, s3 :
  Then(GetField(IF session.ttc >= 7 THEN s3 ELSE <<0>> \o s3, "int", session.big),
    LAMBDA m, s4 :
      Then(GetFields(s4, Repeat(m, "int"), session.big), LAMBDA counts, rest :
        Got([code |-> 8, pairs |-> pairs], rest))))))

\* Message 8 of the logon's second step: session properties.
ReadProperties(s, session) ==
  Then(ReadPairs(s, session), LAMBDA pairs, rest :
    Got([code |-> 8, pairs |-> SelectSeq(pairs, LAMBDA pair : pair[1] # <<>>)], rest))

\* Message 9.  Without a summary the sequence number is kept in an _EmptySummary,
\* which has no ret_code: has_error raises after a call that has ended well.
ReadStatus(s, form, session) ==
  Then(GetFields(s, If(session.eos, <<"int">>) \o If(session.fsap, <<"int">>),
                 session.big), LAMBDA f, rest :
    IF session.fsap /\ ~form.summary /\ form.reader = "command" THEN Raised
    ELSE Got([code |-> 9, fields |-> f], rest))

\* _read_warning.
ReadWarning(s, session) ==
  Then(GetFields(s, <<"int", "int", "int">>, session.big), LAMBDA f, t :
    Then(IF f[1] = 0 \/ f[2] = 0 THEN Got(<<>>, t) ELSE GetClr(t, session.big),
      LAMBDA message, rest : Got([code |-> 15, warning |-> f[1]], rest)))

\* _get_server_network_information: other operations have nothing more.
ReadNetwork(s, session) ==
  Then(GetByte(s), LAMBDA operation, s1 :
    LET nothing == <<>> IN
    Then(CASE operation = 0 -> Then(GetByte(s1), LAMBDA b, t : Got(nothing, t))
           [] operation = 2 ->
                Then(GetFields(s1, <<"int", "byte">>, session.big), LAMBDA f, t :
                  Then(GetBytes(t, f[1]), LAMBDA bytes, u : Got(nothing, u)))
           [] operation = 4 ->
                Then(GetFields(s1, <<"int", "byte">>, session.big), LAMBDA f, t :
                  Then(ReadPairs(t, session), LAMBDA pairs, u :
                    Then(GetField(u, "int", session.big), LAMBDA last, v :
                      Got(pairs, v))))
           [] OTHER -> Got(nothing, s1),
         LAMBDA pairs, rest :
           Got([code |-> 23, operation |-> operation, nls |-> pairs], rest)))

\* One message, by its code, in the loop of that reader.
ReadReply(s, form, session) ==
  Then(GetByte(s), LAMBDA code, t :
    CASE form.reader = "command" /\ code \in {6, 11} -> ReadResultHeader(t, code, form, session)
      [] form.reader = "command" /\ code = 7 -> ReadRow(t, form, session)
      [] form.reader = "command" /\ code = 8 -> ReadResults(t, session)
      [] form.reader = "command" /\ code = 16 -> ReadDefinitions(t, session)
      [] form.reader = "command" /\ code = 21 -> ReadBits(t, form)
      [] form.reader = "connection" /\ code = 8 -> ReadParameters(t, session)
      [] form.reader = "logon" /\ code = 8 -> ReadProperties(t, session)
      [] code = 9 -> ReadStatus(t, form, session)
      [] code = 15 -> ReadWarning(t, session)
      [] code = 23 -> ReadNetwork(t, session)
      [] OTHER -> Raised)

\* get_db_version from the answer on; number has five parts of 8, 4, 8, 4 and 8
\* bits, of which the third and the last are cut to four.
ReadDbVersion(s, session) ==
  Then(GetByte(s), LAMBDA code, t :
    IF code # 8 THEN Raised
    ELSE Then(GetFields(t, <<"dlc", "int">>, session.big), LAMBDA f, rest :
      LET part(bits, size) == (f[2] \div 2 ^ bits) % size
          text == <<part(24, 256), part(20, 16), part(12, 16), part(8, 16), part(0, 16)>>
      IN  Got([info |-> f[1], text |-> text,
               number |-> 1000 * text[1] + 100 * text[2] + 10 * text[3] + text[4]],
              rest)))

-----------------------------------------------------------------------------
(* The server's replies (external).                                        *)

\* A bit for each of n columns.
BitVector(marked, n) ==
  [k \in 1 .. (n + 7) \div 8 |->
     FoldLeft(+, 0, [b \in 1 .. 8 |->
                       IF 8 * (k - 1) + b \in marked THEN 2 ^ (b - 1) ELSE 0])]

PutKeyVals(pairs, session) ==
  PutCompressed(Len(pairs))
    \o FlattenSeq([i \in DOMAIN pairs |->
         PutKeyVal(pairs[i][1], pairs[i][2], pairs[i][3], session.big)])

PutInts(numbers) == FlattenSeq([i \in DOMAIN numbers |-> PutCompressed(numbers[i])])

PutHeader(v, form, session) ==
  LET n == v.count IN
  <<0>> \o PutInts(<<n % 256, n \div 256, v.rows, 0>>)
    \o PutDlc(If(v.vector, BitVector(v.marked, n)), session.big)
    \o PutDlc(<<>>, session.big)
    \o If(v.code = 11, Zeros(n))

PutRow(v, form, session) ==
  LET marked == SelectSeq([i \in DOMAIN form.columns |-> i],
                          LAMBDA i : i \in form.marked) IN
  FlattenSeq([k \in DOMAIN marked |->
                PutColumnValue(v.values[k], form.columns[marked[k]], session.big)])

PutDefinitions(v, session) ==
  <<2, 65, 66>> \o PutInts(<<v.maxRowSize, Len(v.columns)>>)
    \o If(v.columns # <<>>, <<0>>)
    \o FlattenSeq([i \in DOMAIN v.columns |-> PutColumn(v.columns[i], session)])
    \o PutDlc(<<1, 2>>, session.big) \o If(session.ttc >= 3, PutInts(<<1, 300>>))
    \o If(session.ttc >= 4, PutInts(<<0, 1>>))
    \o If(session.ttc >= 5, PutDlc(<<7>>, session.big))

PutResults(v, session) ==
  PutInts(<<2 + Len(v.more)>> \o v.scn \o v.more \o <<0>>) \o PutKeyVals(v.pairs, session)
    \o If(session.ttc >= 4, PutInts(<<Len(v.id)>>) \o v.id)

PutParameters(v, session) ==
  PutInts(<<Len(v.more)>> \o v.more \o <<0>>) \o PutKeyVals(v.pairs, session)
    \o If(session.ttc >= 7, PutInts(<<Len(v.counts)>> \o v.counts))

PutNetwork(v, session) ==
  <<v.operation>>
    \o (CASE v.operation = 0 -> <<1>>
          [] v.operation = 2 -> PutInts(<<3>>) \o <<0, 1, 2, 3>>
          [] v.operation = 4 ->
               PutInts(<<1>>) \o <<0>> \o PutKeyVals(v.nls, session) \o PutInts(<<300>>)
          [] OTHER -> <<>>)

PutReply(v, form, session) ==
  <<v.code>>
    \o (CASE v.code \in {6, 11} -> PutHeader(v, form, session)
          [] v.code = 7 -> PutRow(v, form, session)
          [] v.code = 16 -> PutDefinitions(v, session)
          [] v.code = 21 -> PutInts(<<Cardinality(v.marked)>>)
                              \o BitVector(v.marked, Len(form.columns))
          [] v.code = 8 /\ form.reader = "command" -> PutResults(v, session)
          [] v.code = 8 /\ form.reader = "connection" -> PutParameters(v, session)
          [] v.code = 8 /\ form.reader = "logon" -> PutKeyVals(v.pairs, session)
          [] v.code = 9 -> If(session.eos, PutInts(<<1>>))
                             \o If(session.fsap, PutInts(<<300>>))
          [] v.code = 15 -> PutInts(<<v.warning, Len(v.message), 0>>)
                              \o If(v.warning # 0 /\ v.message # <<>>,
                                    PutClr(v.message, session.big))
          [] v.code = 23 -> PutNetwork(v, session))

PutVersion(v, session) ==
  <<8>> \o PutDlc(v.info, session.big)
    \o PutInts(<<v.parts[1] * 2 ^ 24 + v.parts[2] * 2 ^ 20 + v.parts[3] * 2 ^ 12
                + v.parts[4] * 2 ^ 8 + v.parts[5]>>)
=============================================================================
