------------------------------ MODULE Packets ------------------------------
(***************************************************************************)
(* The packets of src/pyora/network: their headers and what the driver     *)
(* puts into and gets from each.  A context says whether the listener has  *)
(* accepted (handshake_complete) and which version it speaks: headers are  *)
(* different from 315 on.  An offset in a packet counts from 0.            *)
(*                                                                         *)
(* The message of a refusal is a sequence of what the driver looks for in  *)
(* it: "ERR" and "CODE", each with a number, and "TEXT".                   *)
(***************************************************************************)
EXTENDS WireCodec

CONNECT == 1
ACCEPT == 2
REFUSE == 4
REDIRECT == 5
DATA == 6
MARKER == 12

MaxConnectData == 230      \* longer descriptors have a packet of their own
ConnectOffset == 70
SidLength == 16
RefusedWithoutCode == 12564
Nul == 0

Slice(p, from, to) == SubSeq(p, from + 1, Min({to, Len(p)}))
Number(p, offset, size) == FromBigEndian(Slice(p, offset, offset + size))

WideHeader(ctx) == ctx.complete /\ ctx.version >= 315

-----------------------------------------------------------------------------
(* Writing.                                                                *)

\* Packet.bytes.
Header(length, type, flag, ctx) ==
  (IF WideHeader(ctx) THEN Ub4(length) ELSE Ub2(length) \o Zeros(2))
    \o <<type, flag>> \o Zeros(2)

DataPacket(buffer, ctx) ==
  Header(Len(buffer) + 10, DATA, 0, ctx) \o Ub2(0) \o buffer

\* The driver's have type 1 and data 2, to acknowledge a reset.
MarkerPacket(type, data, ctx) ==
  Header(11, MARKER, 0, ctx) \o <<type, 0, data>>

Options(c) == 1 + 2048 + (IF c.oob THEN 1024 ELSE 0)

\* Session.connect: the packet and, for a long descriptor, a data packet.
ConnectPacket(c, ctx) ==
  LET long == Len(c.descriptor) > MaxConnectData IN
  Header(ConnectOffset + (IF long THEN 0 ELSE Len(c.descriptor)), CONNECT,
         IF c.isRedirect THEN 4 ELSE 0, ctx)
    \o Ub2(317) \o Ub2(300) \o Ub2(Options(c))
    \o Ub2(Min({c.sdu, 65535})) \o Ub2(Min({c.tdu, 65535}))
    \o <<79, 152>> \o Zeros(2) \o Ub2(1)
    \o Ub2(Len(c.descriptor)) \o Ub2(ConnectOffset) \o Zeros(4) \o <<1, 1>> \o Zeros(24)
    \o Ub4(c.sdu) \o Ub4(c.tdu) \o Ub4(0)
    \o (IF long THEN DataPacket(c.descriptor, ctx) ELSE c.descriptor)

-----------------------------------------------------------------------------
(* Reading.                                                                *)

\* read_packet_data.
GetPacket(s, ctx) ==
  Then(GetBytes(s, 8), LAMBDA head, rest :
    Then(GetBytes(rest, Number(head, 0, IF WideHeader(ctx) THEN 4 ELSE 2) - 8),
         LAMBDA body, rest2 : Got(head \o body, rest2)))

\* new_data_packet_from_data, without the advanced services, which are never
\* installed (see Handshake).
ReadData(p) ==
  IF Len(p) < 10 \/ p[5] # DATA THEN Raised
  ELSE Got([dataFlag |-> Number(p, 8, 2), buffer |-> Slice(p, 10, Len(p))], <<>>)

\* new_marker_packet_from_data.
ReadMarker(p) ==
  IF Len(p) # 11 \/ p[5] # MARKER THEN Raised
  ELSE Got([type |-> p[9], data |-> p[11]], <<>>)

\* new_accept_packet_from_data: what there is after the offset must have the
\* length the packet says.
ReadAccept(p) ==
  LET version == Number(p, 8, 2)
      sdu == IF version >= 315 THEN Number(p, 32, 4) ELSE Number(p, 12, 2)
      tdu == IF version >= 315 THEN Number(p, 36, 4) ELSE Number(p, 14, 2)
      buffer == Slice(p, Number(p, 20, 2), Len(p))
  IN  IF \/ Len(p) < 32
         \/ version >= 315 /\ Len(p) < 40
         \/ Number(p, 18, 2) # Len(buffer)
      THEN Raised
      ELSE Got([version |-> version, sdu |-> Min({sdu, tdu}), tdu |-> tdu,
                acfl |-> <<p[23], p[24]>>,
                sid |-> IF p[6] % 2 = 1
                        THEN Slice(p, Number(p, 0, 2) - SidLength, Len(p)) ELSE <<>>],
               <<>>)

\* extract_err_code: the first ERR, or else the first CODE of an ERROR.
RefusalCode(message) ==
  LET found(tag) == {i \in DOMAIN message : message[i].tag = tag} IN
  CASE found("ERR") # {} -> message[Min(found("ERR"))].code
    [] found("ERR") = {} /\ found("CODE") # {} -> message[Min(found("CODE"))].code
    [] OTHER -> RefusedWithoutCode

\* new_refuse_packet_from_data: a message cut short counts for nothing.
ReadRefuse(p) ==
  IF Len(p) < 12 THEN Raised
  ELSE LET length == Number(p, 10, 2) IN
       Got(RefusalCode(IF Len(p) >= 12 + length THEN Slice(p, 12, 12 + length) ELSE <<>>),
           <<>>)

\* The addresses and the reconnect data, which begins with their separator.
Redirection(text, flag) ==
  LET nuls == {i \in DOMAIN text : text[i] = Nul}
      at == Min(nuls)
  IN  IF (flag \div 2) % 2 = 1 /\ nuls # {} /\ at > 1
      THEN [addr |-> SubSeq(text, 1, at - 1), reconnect |-> SubSeq(text, at, Len(text))]
      ELSE [addr |-> text, reconnect |-> <<>>]

\* REDIRECT: its text, or that of the data packet after it.
ReadRedirect(p, rest, ctx) ==
  IF Len(p) < 10 THEN Raised
  ELSE IF Number(p, 0, 2) > 10
  THEN Got(Redirection(Slice(p, 10, 10 + Number(p, 8, 2)), p[6]), rest)
  ELSE Then(GetPacket(rest, ctx), LAMBDA q, rest2 :
         Then(ReadData(q), LAMBDA data, none :
           Got(Redirection(data.buffer, p[6]), rest2)))

\* read_packet; for RESEND see Session.
ReadPacket(s, ctx) ==
  Then(GetPacket(s, ctx), LAMBDA p, rest :
    LET from(got) == Then(got, LAMBDA value, none : Got(value, rest)) IN
    CASE p[5] = ACCEPT   -> from(ReadAccept(p))
      [] p[5] = REFUSE   -> from(ReadRefuse(p))
      [] p[5] = REDIRECT -> ReadRedirect(p, rest, ctx)
      [] p[5] = DATA     -> from(ReadData(p))
      [] p[5] = MARKER   -> from(ReadMarker(p))
      [] OTHER           -> Raised)

-----------------------------------------------------------------------------
(* The listener's side (external).                                         *)

\* A session id after the data, which data length may count or not.
PutAccept(a, ctx) ==
  LET offset == IF a.version >= 315 THEN 40 ELSE 32 IN
  Header(offset + Len(a.data) + Len(a.sid), ACCEPT, IF a.sid # <<>> THEN 1 ELSE 0, ctx)
    \o Ub2(a.version) \o Ub2(1) \o Ub2(Min({a.sdu, 65535})) \o Ub2(Min({a.tdu, 65535}))
    \o Ub2(1) \o Ub2(Len(a.data) + (IF a.counted THEN Len(a.sid) ELSE 0)) \o Ub2(offset)
    \o a.acfl \o Zeros(8)
    \o (IF a.version >= 315 THEN Ub4(a.sdu) \o Ub4(a.tdu) ELSE <<>>)
    \o a.data \o a.sid

PutRefuse(message, ctx) ==
  Header(12 + Len(message), REFUSE, 0, ctx) \o <<34, 0>> \o Ub2(Len(message)) \o message

PutRedirect(r, ctx) ==
  LET named == r.reconnect # <<>>
      text == r.addr \o (IF named THEN <<Nul>> \o r.reconnect ELSE <<>>)
  IN  Header(10 + (IF r.separate THEN 0 ELSE Len(text)), REDIRECT,
             IF named THEN 2 ELSE 0, ctx)
        \o Ub2(Len(text)) \o (IF r.separate THEN DataPacket(text, ctx) ELSE text)

\* What the listener makes of a CONNECT packet.
TakeConnect(s, ctx) ==
  Then(GetPacket(s, ctx), LAMBDA p, rest :
    LET taken(descriptor, t) ==
          Got([sdu |-> Number(p, 58, 4), tdu |-> Number(p, 62, 4),
               oob |-> (Number(p, 12, 2) \div 1024) % 2 = 1,
               isRedirect |-> p[6] = 4, descriptor |-> descriptor], t)
        length == Number(p, 24, 2)
        offset == Number(p, 26, 2)
    IN  IF Len(p) >= offset + length THEN taken(Slice(p, offset, offset + length), rest)
        ELSE Then(GetPacket(rest, ctx), LAMBDA q, rest2 :
               Then(ReadData(q), LAMBDA data, none :
                 IF Len(data.buffer) # length THEN Raised ELSE taken(data.buffer, rest2))))
=============================================================================
