------------------------------ MODULE Messages ------------------------------
(***************************************************************************)
(* Messages between the driver and the server: one side puts fields into a *)
(* buffer, the other gets them from it.  A field is what the code writes   *)
(* or reads with one call: an integer, a byte string, a value of a bind or *)
(* a column, a column's definition, a summary, a message of a call, of one *)
(* of the negotiations or of the logon; or it is a whole packet.  Each has a kind,*)
(* a form both sides know (a size, a type, capabilities, the context of a  *)
(* packet) and a value.                                                    *)
(*                                                                         *)
(* Of the two ways of a field one is the driver's and one is the server's, *)
(* except for those that the driver puts and gets with the same format.    *)
(***************************************************************************)
EXTENDS QueryMessages, Packets, NegoPackets, TypeNego, Logon

CONSTANT Exchanges     \* the fields exchanged, and the session's settings

ASSUME NumbersAssumption ==
  \A e \in Exchanges : \A i \in DOMAIN e.fields :
    LET f == e.fields[i] IN
    f.kind = "bind" /\ f.form.bind \in BoundNumbers /\ f.value # Null => f.value \in Value

VARIABLES
  session,    \* ttc_version, the capabilities and use_big_clr_chunks
  fields,     \* the fields to exchange
  put,        \* how many of them are in the buffer
  wire,       \* the bytes not yet got
  got,        \* the values got
  pc          \* "putting", "getting", "done" or "raised"

vars == <<session, fields, put, wire, got, pc>>

-----------------------------------------------------------------------------
(* The two ways of a field.                                                *)

\* The bytes put for a field.
Bytes(f) ==
  CASE f.kind = "int" /\ f.value >= 0 ->
         PutInt(f.value, f.form.size, f.form.bigEndian, f.form.compress)
    [] f.kind = "int" /\ f.value < 0 -> PutNegative(f.value)
    [] f.kind = "uint" -> PutUint(f.value, f.form.size, f.form.bigEndian, f.form.compress)
    [] f.kind = "clr" -> PutClr(f.value, session.big)
    [] f.kind = "keyval" -> PutKeyVal(f.value[1], f.value[2], f.value[3], session.big)
    [] f.kind = "bind" ->
         PutClr(BoundBytes(f.value, f.form.bind, f.form.connCharset), session.big)
    [] f.kind = "value" -> PutColumnValue(f.value, f.form, session.big)
    [] f.kind = "column" -> PutColumn(f.value, session)
    [] f.kind = "summary" -> PutSummary(f.value, session)
    [] f.kind = "command" -> WriteCommand(f.value, session)
    [] f.kind = "fetch" -> WriteFetch(f.value)
    [] f.kind = "askVersion" -> AskVersion(session)
    [] f.kind = "reply" -> PutReply(f.value, f.form, session)
    [] f.kind = "version" -> PutVersion(f.value, session)
    [] f.kind = "services" -> WriteRequest(f.value)
    [] f.kind = "answer" -> AnswerRequest(f.value)
    [] f.kind = "protocol" -> PutProtocol(f.value)
    [] f.kind = "types" -> WriteTypes(f.value, f.form)
    [] f.kind = "zone" -> AnswerTypes(f.value, f.form)
    [] f.kind = "challenge" -> Challenge(f.value, f.form, session)
    [] f.kind = "logon" ->
         WriteLogon(f.value.user,
           LogonPairs(f.value.user, f.value.password, f.form.challenge,
                      f.form.customHash, f.form.proxy),
           session.big)
    [] f.kind = "connect" -> ConnectPacket(f.value, f.form)
    [] f.kind = "accept" -> PutAccept(f.value, f.form)
    [] f.kind = "refuse" -> PutRefuse(f.value, f.form)
    [] f.kind = "redirect" -> PutRedirect(f.value, f.form)
    [] f.kind = "data" -> DataPacket(f.value, f.form)
    [] f.kind = "marker" -> MarkerPacket(f.value.type, f.value.data, f.form)

\* What is got for a field from the front of a stream.
Read(f, s) ==
  CASE f.kind \in {"int", "uint"} ->
         IF f.form.size = 1 /\ (f.kind = "uint" \/ ~f.form.compress) THEN GetByte(s)
         ELSE GetInt(s, f.form.size, f.form.compress, f.form.bigEndian)
    [] f.kind = "clr" -> GetClr(s, session.big)
    [] f.kind = "keyval" -> GetKeyVal(s, session.big)
    [] f.kind \in {"bind", "value"} -> ReadValue(s, f.form, session.big)
    [] f.kind = "column" -> ReadColumn(s, session)
    [] f.kind = "summary" -> ReadSummary(s, session)
    [] f.kind = "command" -> TakeCommand(s, session)
    [] f.kind = "fetch" -> TakeFetch(s)
    [] f.kind = "askVersion" -> TakeVersion(s, session)
    [] f.kind = "reply" -> ReadReply(s, f.form, session)
    [] f.kind = "version" -> ReadDbVersion(s, session)
    [] f.kind = "services" -> TakeRequest(s)
    [] f.kind = "answer" -> ReadResponse(s)
    [] f.kind = "protocol" -> ReadProtocol(s)
    [] f.kind = "types" -> TakeTypes(s, f.form)
    [] f.kind = "zone" -> ReadTypes(s, f.form)
    [] f.kind = "challenge" -> ReadChallenge(s, session)
    [] f.kind = "logon" -> TakeLogon(s, session.big)
    [] f.kind = "connect" -> TakeConnect(s, f.form)
    [] f.kind \in {"accept", "refuse", "redirect", "data", "marker"} ->
         ReadPacket(s, f.form)

\* Putting a field raises: for a number wider than the bytes it is to take, a
\* type that cannot be bound, a table of types that need two bytes, a verifier
\* without a key.
PutRaises(f) ==
  CASE f.kind = "uint" -> ~f.form.compress /\ f.form.size # 1 /\ ~Fits(f.value, f.form.size)
    [] f.kind = "bind" -> f.value # Null /\ ~Bindable(f.form.bind)
    [] f.kind = "types" -> ~Writable(f.form)
    [] f.kind = "logon" -> ~Derivable(f.form.challenge, f.form.customHash)
    [] OTHER -> FALSE

-----------------------------------------------------------------------------
Init ==
  /\ \E e \in Exchanges : session = e.session /\ fields = e.fields
  /\ put = 0 /\ wire = <<>> /\ got = <<>> /\ pc = "putting"

\* One field is put into the buffer.
Put ==
  /\ pc = "putting" /\ put < Len(fields)
  /\ ~PutRaises(fields[put + 1])
  /\ wire' = wire \o Bytes(fields[put + 1])
  /\ put' = put + 1
  /\ UNCHANGED <<session, fields, got, pc>>

PutFails ==
  /\ pc = "putting" /\ put < Len(fields)
  /\ PutRaises(fields[put + 1])
  /\ pc' = "raised"
  /\ UNCHANGED <<session, fields, put, wire, got>>

\* The buffer is sent; Session says how its packets arrive as one stream.
Send ==
  /\ pc = "putting" /\ put = Len(fields)
  /\ pc' = "getting"
  /\ UNCHANGED <<session, fields, put, wire, got>>

\* The next field is got, or getting it raises.
Get ==
  /\ pc = "getting"
  /\ LET result == Read(fields[Len(got) + 1], wire) IN
     /\ result.ok
     /\ got' = Append(got, result.value)
     /\ wire' = result.rest
     /\ pc' = IF Len(got') = Len(fields) THEN "done" ELSE "getting"
  /\ UNCHANGED <<session, fields, put>>

GetFails ==
  /\ pc = "getting"
  /\ ~Read(fields[Len(got) + 1], wire).ok
  /\ pc' = "raised"
  /\ UNCHANGED <<session, fields, put, wire, got>>

Next == Put \/ PutFails \/ Send \/ Get \/ GetFails

Spec == Init /\ [][Next]_vars

-----------------------------------------------------------------------------
(* What the code cannot keep.                                              *)

\* Numbers wider than their field are cut.
Fitting(f) ==
  /\ f.kind \in {"int", "uint"} => f.value < 0 \/ Fits(f.value, f.form.size)
  /\ f.kind \in {"command", "fetch"} => Fits(f.value.cursor, 2)

\* Types that cannot be read, moments out of datetime's range, a server that is
\* too old or has too few capabilities, a status without a summary (see
\* ReadStatus), a logon the server has refused, and an ACCEPT packet whose data
\* length leaves out the session id after the data: getting them raises.
GetRaises(f) ==
  CASE f.kind \in {"bind", "value"} ->
         /\ f.value # Null
         /\ f.form.type \in Moments \/ ~Readable(f.form.type)
         /\ f.form.type \in Moments => f.value.year < 1
    [] f.kind = "protocol" -> f.value.version \notin SupportedVersions \/ f.value.n < 8
    [] f.kind = "reply" ->
         f.value.code = 9 /\ f.form.reader = "command" /\ session.fsap /\ ~f.form.summary
    [] f.kind = "challenge" -> f.form.means = NoChallenge
    [] f.kind = "accept" -> f.value.sid # <<>> /\ ~f.value.counted
    [] OTHER -> FALSE

\* A moment as a column keeps it, and as datetime has it: without a fraction,
\* without a zone, and UTC as no zone.
KeptMoment(m, type) ==
  [m EXCEPT !.micro = IF type \in Dates THEN 0 ELSE @,
            !.offset = IF type \in ZonedTimestamps /\ @ # 0 THEN @ ELSE Naive]

\* A text whose characters without bytes are replaced.
KeptText(text, charset) ==
  [i \in DOMAIN text |->
     IF Encodable(text[i], Codec(charset)) THEN text[i] ELSE Replacement]

\* The value of a column that comes of a value.
SameValue(v, value, column) ==
  IF value = Null \/ Absent(column) THEN v = Null
  ELSE CASE column.type \in ReadNumbers ->
            value \in Infinities \/ InRange(value) => SameNumber(v, value)
       [] column.type \in ReadTexts ->
            v = KeptText(value, IF column.charset # 0 THEN column.charset
                                ELSE column.connCharset)
       [] column.type \in Moments ->
            Kept(value.offset) => v = KeptMoment(value, column.type)
       [] column.type \in Floats \cup Doubles -> \A i \in DOMAIN value : v[i] = value[i]
       [] OTHER -> v = value

\* The payloads of the services, as the server takes them.
Payloads(ids) ==
  <<<<NegoVersion, Ub2(57569), Ub2(AuthStatus)>>, <<NegoVersion, ids[2], <<1>>>>,
    <<NegoVersion, ids[3]>>,
    <<NegoVersion, Cid,
      Deadbeef \o Ub2(3) \o Ub4(4) \o FlattenSeq([i \in 1 .. 4 |-> Ub2(ServArray[i])])>>>>

SameColumn(v, c) ==
  /\ \A part \in {"type", "subtype", "contFlag", "charset", "maxCharLen", "nullable",
                  "name", "typeName"} : v[part] = c[part]
  /\ c.type \notin DOMAIN FixedLengths => v.maxLen = c.maxLen

\* A summary; the code and the message of bind errors are those of the first.
SameSummary(v, x) ==
  LET first == x.code = BindErrors /\ session.ttc >= 7 /\ x.errors # <<>> IN
  /\ v.rows = x.rows /\ v.cursor = x.cursor /\ v.position = x.position
  /\ v.code = IF first THEN x.errors[1].code ELSE x.code
  /\ v.message = IF first THEN x.errors[1].message ELSE x.message
  /\ session.ttc >= 7 => v.errors = x.errors

\* A command, as the server takes it: it is executed once unless it is a query,
\* commits by itself only if that was asked for, and a query says how many rows.
TakenCommand(c) ==
  LET query == c.type = "SELECT"
      into == c.type = "PLSQL" \/ c.returns IN
  [options |-> 33 + (IF into THEN 262144 ELSE 32768)
                 + (IF c.autoCommit /\ c.type \in {"DML", "PLSQL"} THEN 256 ELSE 0),
   cursor |-> c.cursor, new |-> c.cursor = 0, length |-> Len(c.text), text |-> c.text,
   rows |-> IF query THEN c.rows ELSE 0, iterations |-> IF query THEN 0 ELSE 1,
   scn |-> c.scn, query |-> query]

\* A reply: what of it the client keeps.  Values are those of the marked columns.
SameReply(v, form, x) ==
  LET has(parts) == \A part \in parts : v[part] = x[part] IN
  CASE x.code \in {6, 11} ->
         /\ has({"rows", "count"})
         /\ v.marked = IF x.vector THEN x.marked ELSE DOMAIN form.columns
    [] x.code = 21 -> has({"marked"})
    [] x.code = 7 ->
         LET marked == SelectSeq([i \in DOMAIN form.columns |-> i],
                                 LAMBDA i : i \in form.marked) IN
         /\ Len(v.values) = Len(marked)
         /\ \A k \in DOMAIN marked :
              SameValue(v.values[k], x.values[k], form.columns[marked[k]])
    [] x.code = 16 ->
         /\ has({"maxRowSize"}) /\ Len(v.columns) = Len(x.columns)
         /\ \A i \in DOMAIN x.columns : SameColumn(v.columns[i], x.columns[i])
    [] x.code = 8 /\ form.reader = "command" ->
         /\ has({"scn", "zone"})
         /\ v.queryId = IF session.ttc >= 4 /\ Len(x.id) = 8 THEN Reverse(x.id) ELSE <<>>
    [] x.code = 8 /\ form.reader # "command" -> has({"pairs"})
    [] x.code = 15 -> has({"warning"})
    [] x.code = 23 -> v.nls = IF x.operation = 4 THEN x.nls ELSE <<>>
    [] OTHER -> TRUE

\* What the server says of itself; capabilities for which its array has no room
\* it does not have.
SameProtocol(v, x) ==
  /\ \A part \in {"name", "charset", "flags", "nationalCharset", "runtime", "ttc"} :
       v[part] = x[part]
  /\ v.eos = (x.eos /\ x.n > 15) /\ v.fsap = (x.fsap /\ x.n > 16)
  /\ v.big = (x.big /\ x.n > 37)

\* Is the value got for a field the one that was put?
Keeps(f, v) ==
  CASE f.kind \in {"bind", "value"} -> SameValue(v, f.value, f.form)
    [] f.kind = "column" -> SameColumn(v, f.value)
    [] f.kind = "summary" -> SameSummary(v, f.value)
    [] f.kind = "command" -> v = TakenCommand(f.value)
    [] f.kind = "askVersion" -> v.size = 256
    [] f.kind = "reply" -> SameReply(v, f.form, f.value)
    [] f.kind = "version" -> v.info = f.value.info /\ v.text = f.value.parts
    [] f.kind = "services" -> v = Payloads(f.value)
    [] f.kind = "protocol" -> SameProtocol(v, f.value)
    [] f.kind = "types" ->
         v = [zone |-> IF f.form.zone THEN f.value ELSE 0, types |-> TypeTable]
    [] f.kind = "zone" -> v = IF f.form.zone THEN f.value ELSE 0
    [] f.kind = "challenge" -> v = f.form.means
    [] f.kind = "logon" -> v.user = f.value.user
    [] f.kind = "accept" ->
         v = [version |-> f.value.version, sdu |-> Min({f.value.sdu, f.value.tdu}),
              tdu |-> f.value.tdu, sid |-> f.value.sid, acfl |-> f.value.acfl]
    [] f.kind = "refuse" -> v = RefusalCode(f.value)
    [] f.kind = "redirect" ->
         v = [addr |-> f.value.addr,
              reconnect |-> IF f.value.reconnect = <<>> THEN <<>>
                            ELSE <<Nul>> \o f.value.reconnect]
    [] f.kind = "data" -> v = [dataFlag |-> 0, buffer |-> f.value]
    [] OTHER -> v = f.value

-----------------------------------------------------------------------------
(* Properties.                                                             *)

FittingUpTo(n) == \A i \in 1 .. n : Fitting(fields[i])

\* What is on the wire are bytes, unless it stands for keys and values of the
\* logon or pieces of a refusal, and no more is got than was put.
TypeOK ==
  /\ put \in 0 .. Len(fields) /\ Len(got) <= put
  /\ pc \in {"putting", "getting", "done", "raised"}
  /\ (\A i \in DOMAIN fields : fields[i].kind \notin {"challenge", "logon", "refuse"})
       => \A i \in DOMAIN wire : wire[i] \in 0 .. Byte - 1

\* Reading stays in step with writing: when fields have been got, exactly the
\* bytes of the others are left, whatever their kinds, versions and
\* capabilities.  A field that reads a byte too many or too few makes every
\* later one of the message wrong, which is how session.get_* fails.
InStep ==
  pc \in {"getting", "done"} /\ FittingUpTo(Len(fields)) =>
    wire = FlattenSeq([i \in 1 .. Len(fields) - Len(got) |-> Bytes(fields[Len(got) + i])])

\* A value is got as it was put, as far as its type keeps it, and an exception
\* is raised for what GetRaises and PutRaises name, and for nothing else.  Left
\* open is what the driver makes of values that it does not keep: of a NUMBER
\* that is not one of 64 bits only the digits of a float are asked for
\* (Rounded), of one whose exponent does not fit nothing (InRange), nor of a
\* timestamp whose zone lies to the west by other than whole and half hours
\* (Kept); that a status without a summary raises is among what GetRaises names.
RoundTrips ==
  /\ \A i \in DOMAIN got :
       FittingUpTo(i) => Keeps(fields[i], got[i]) /\ ~GetRaises(fields[i])
  /\ pc = "raised" =>
       IF put < Len(fields) THEN PutRaises(fields[put + 1])
       ELSE FittingUpTo(Len(got)) => GetRaises(fields[Len(got) + 1])

\* A number on the wire, under the size of a CLR.
NumberSent(f) == pc = "getting" /\ got = <<>> /\ fields = <<f>>
                   /\ f.kind = "bind" /\ f.form.bind \in BoundNumbers /\ f.value # Null

\* The bytes of a NUMBER compare as the values do, which is what the server's
\* indexes rely on; of negative values only those short enough for a marker.
OrderPreserved ==
  \A f \in {fields[1]} : NumberSent(f) /\ InRange(f.value) =>
    \A other \in Value :
      /\ InRange(other) /\ Less(f.value, other)
      /\ \A v \in {f.value, other} : v.negative => Len(v.digits) < MarkerDigits - 1
      => Before(Tail(wire), Encoded(other))

\* Equal values have the same bytes: 1.0 and 1, 0 and -0.
CanonicalBytes ==
  \A f \in {fields[1]} : NumberSent(f) =>
    \A other \in Value : Same(f.value, other) => Tail(wire) = Encoded(other)

\* The server, which derives its keys from the password it knows and from what
\* the client sent, lets the client in exactly if it has the same password:
\* both sides arrive at the same keys for every kind of verifier and hash.
LogonVerified ==
  \A i \in DOMAIN got : fields[i].kind = "logon" =>
    LET f == fields[i]
        same(name) == IF f.form.challenge.verifier = Verifier5x THEN Upper(name) ELSE name
    IN  Accepts(got[i], f.value.user, f.form.known, f.form.challenge, f.form.customHash)
          <=> same(f.value.password) = same(f.form.known)
=============================================================================
