------------------------------ MODULE TypeNego ------------------------------
(***************************************************************************)
(* The messages of the data type negotiation, src/pyora/data_type_nego.py: *)
(* what the client makes of the server's capabilities, the table of types  *)
(* it sends, and how it reads the server's answer, whose table it scans    *)
(* only to find its end.                                                   *)
(*                                                                         *)
(* The server's capabilities are a record: the version of TTC, the two     *)
(* character sets, whether types take two bytes (wide), whether a time     *)
(* zone is exchanged (zone) and with it a version of its files.            *)
(***************************************************************************)
EXTENDS WireCodec

\* The client's own version of TTC and of the zone files.
ClientTtc == 11
ZoneFiles == 32
Set(bit, value) == IF bit THEN value ELSE 0

\* build_type_nego: the capabilities the server does not have are cleared.  Of
\* the arrays, the elements the rest of the exchange depends on.
ClientCaps(caps) ==
  [compile |-> <<ClientTtc, Set(caps.wide, 1), Set(caps.zoneFiles, 58)>>,
   runtime |-> <<Set(caps.zone, 1)>>]

\* add_type_rep.
Entry(type, conversion, rep) ==
  IF conversion = 0 THEN <<type, 0>> ELSE <<type, conversion, rep, 0>>

\* One row of every kind that build_type_nego adds: representations universal,
\* Oracle's and native, types with another one for conversion, none, and more
\* than a byte holds.
TypeTable ==
  Entry(1, 1, 1) \o Entry(2, 2, 10) \o Entry(290, 290, 1) \o Entry(3, 2, 10)
    \o Entry(58, 0, 0) \o Entry(119, 119, 0) \o Entry(232, 231, 1) \o Entry(640, 640, 1)

\* tz_bytes, of a local offset in seconds: every part is rounded down.
ZoneBytesOf(seconds) ==
  <<128, 0, 0, 0, (seconds \div 3600) + 60, ((seconds \div 60) % 60) + 60,
    (seconds % 60) + 60, 128, 0, 0, 0>>

ZoneOf(bytes) ==
  3600 * (bytes[5] - 60) + 60 * (bytes[6] - 60) + (bytes[7] - 60)

PutType(type, caps) == IF caps.wide THEN PutInt(type, 2, TRUE, FALSE) ELSE <<type>>

PutTypes(types, caps) ==
  FlattenSeq([i \in DOMAIN types |-> PutType(types[i], caps)]) \o PutType(0, caps)

PutZone(seconds, caps) ==
  IF ~caps.zone THEN <<>>
  ELSE ZoneBytesOf(seconds)
         \o (IF caps.zoneFiles THEN PutInt(ZoneFiles, 4, TRUE, FALSE) ELSE <<>>)

\* A type of more than a byte raises when types take one byte: write() does.
Writable(caps) == caps.wide \/ \A i \in DOMAIN TypeTable : TypeTable[i] < Byte

\* DataTypeNego.write.
WriteTypes(zone, caps) ==
  LET client == ClientCaps(caps)
      charset == PutInt(caps.charset, 2, FALSE, FALSE)
  IN
  <<2>> \o charset \o charset
    \o <<0, Len(client.compile)>> \o client.compile
    \o <<Len(client.runtime)>> \o client.runtime
    \o PutZone(zone, caps) \o PutInt(caps.nationalCharset, 2, FALSE, FALSE)
    \o PutTypes(TypeTable, caps)

GetType(s, caps) == IF caps.wide THEN GetInt(s, 2, FALSE, TRUE) ELSE GetByte(s)

\* The level after an entry of the table; what is read at level 3 ends the row.
NextLevel(level, type) ==
  IF (type = 0 /\ level = 1) \/ level = 3 THEN 0 ELSE level + 1

\* The loop of DataTypeNego.read: the entries up to the 0 at level 0.
ScanTypes(s, caps) ==
  LET scan[n \in Nat, level \in 0 .. 3] ==
        Then(GetType(SubSeq(s, Len(s) - n + 1, Len(s)), caps), LAMBDA type, t :
          IF type = 0 /\ level = 0 THEN Got(<<>>, t)
          ELSE Then(scan[Len(t), NextLevel(level, type)], LAMBDA types, u :
                 Got(<<type>> \o types, u)))
  IN  scan[Len(s), 0]

GetZone(s, caps) ==
  IF ~caps.zone THEN Got(0, s)
  ELSE Then(GetBytes(s, 11), LAMBDA bytes, t :
         IF ~caps.zoneFiles THEN Got(ZoneOf(bytes), t)
         ELSE Then(GetInt(t, 4, FALSE, TRUE), LAMBDA version, u : Got(ZoneOf(bytes), u)))

\* DataTypeNego.read: the zone is all that is kept.
ReadTypes(s, caps) ==
  Then(GetByte(s), LAMBDA message, t :
    IF message # 2 THEN Raised
    ELSE Then(GetZone(t, caps), LAMBDA zone, u :
           Then(ScanTypes(u, caps), LAMBDA types, v : Got(zone, v))))

-----------------------------------------------------------------------------
(* The server (external).                                                  *)

\* Its answer has a table of its own, with the types it has numbers for.
AnswerTypes(zone, caps) ==
  <<2>> \o PutZone(zone, caps)
    \o PutTypes(IF caps.wide THEN TypeTable
                ELSE Entry(1, 1, 1) \o Entry(58, 0, 0) \o Entry(119, 119, 0), caps)

\* What it takes from the client's message: its zone and its table.
TakeTypes(s, caps) ==
  Then(GetBytes(s, 6), LAMBDA head, t :
    Then(GetByte(t), LAMBDA n, u :
      Then(GetBytes(u, n), LAMBDA compile, v :
        Then(GetByte(v), LAMBDA m, w :
          Then(GetBytes(w, m), LAMBDA runtime, x :
            Then(GetZone(x, caps), LAMBDA zone, y :
              Then(GetBytes(y, 2), LAMBDA charset, z :
                Then(ScanTypes(z, caps), LAMBDA types, rest :
                  Got([zone |-> zone, types |-> types], rest)))))))))
=============================================================================
