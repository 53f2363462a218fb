----------------------------- MODULE DateCodec -----------------------------
(***************************************************************************)
(* The bytes of DATE and TIMESTAMP values, encode_date, encode_timestamp   *)
(* and decode_date of src/pyora/converters/type_conversion.py.             *)
(*                                                                         *)
(* A moment is what the fields of a datetime say; its offset is that of    *)
(* its time zone in minutes, or Naive when it has none.                    *)
(***************************************************************************)
EXTENDS Integers, Sequences

\* Not the minutes of any offset.
Naive == 10000

DaysInMonth(year, month) ==
  CASE month = 2 -> IF (year % 4 = 0 /\ year % 100 # 0) \/ year % 400 = 0
                    THEN 29 ELSE 28
    [] month \in {4, 6, 9, 11} -> 30
    [] OTHER -> 31

\* What datetime.datetime takes; for anything else it raises.
Representable(m) ==
  /\ m.year >= 1 /\ m.year <= 9999
  /\ m.month \in 1 .. 12
  /\ m.day \in 1 .. DaysInMonth(m.year, m.month)
  /\ m.hour \in 0 .. 23 /\ m.minute \in 0 .. 59 /\ m.second \in 0 .. 59
  /\ m.micro \in Nat /\ m.micro < 1000 * 1000

\* encode_date.  Of a year before the common era (the server's: datetime has
\* none) the two bytes are negative multiples, below 100.
DateBytes(m) ==
  LET century == IF m.year >= 0 THEN m.year \div 100 ELSE -((-m.year) \div 100)
  IN  <<century + 100, m.year - 100 * century + 100, m.month, m.day,
        m.hour + 1, m.minute + 1, m.second + 1>>

\* The bytes 7 to 10: nanoseconds.
NanoBytes(nanos) ==
  LET high == (nanos \div 256) \div 256
  IN  <<(high \div 256) % 256, high % 256, (nanos \div 256) % 256, nanos % 256>>

\* The two bytes of the zone: hours rounded down, and the minutes of the
\* absolute offset.
ZoneBytes(offset) ==
  IF offset = Naive THEN <<20, 60>>
  ELSE <<(offset \div 60) + 20,
         ((IF offset < 0 THEN -offset ELSE offset) % 60) + 60>>

\* encode_timestamp, as local time.
TimestampBytes(m, withZone) ==
  DateBytes(m) \o NanoBytes(m.micro * 1000)
    \o (IF withZone THEN ZoneBytes(m.offset) ELSE <<>>)

\* Mutant: the hours of the zone are taken for unsigned.
OffsetIn_Unsigned(data) ==
  LET hours == IF Len(data) > 11 THEN data[12] % 64 ELSE 20
      minutes == IF Len(data) > 12 THEN data[13] - 60 ELSE 0
      offset == hours * 60 + minutes
  IN  IF offset = 0 THEN Naive ELSE offset

\* The zone of the data: none, and UTC, give a datetime without one, and so
\* does an offset of a day or more, which datetime.timezone does not take.
OffsetIn(data) ==
  LET hours == IF Len(data) > 11 THEN (data[12] % 64) - 20 ELSE 0
      minutes == IF Len(data) > 12 THEN data[13] - 60 ELSE 0
      offset == hours * 60 + minutes
  IN  IF offset = 0 \/ offset \notin -1439 .. 1439 THEN Naive ELSE offset

NanosIn(data) ==
  IF Len(data) <= 10 THEN 0
  ELSE ((data[8] * 256 + data[9]) * 256 + data[10]) * 256 + data[11]

\* decode_date, of at least seven bytes; it raises unless this is
\* Representable.
MomentIn(data) ==
  [year |-> (data[1] - 100) * 100 + (data[2] - 100),
   month |-> data[3], day |-> data[4],
   hour |-> data[5] - 1, minute |-> data[6] - 1, second |-> data[7] - 1,
   micro |-> NanosIn(data) \div 1000, offset |-> OffsetIn(data)]

\* Offsets that the two bytes of a zone keep: with the hours rounded down, those
\* west of Greenwich only if they end at a whole or half hour.
Kept(offset) == offset = Naive \/ offset >= 0 \/ (-offset) % 60 \in {0, 30}
=============================================================================
