------------------------------- MODULE Session -------------------------------
(***************************************************************************)
(* A logged-on connection: pyora's Session (src/pyora/network/session.py)  *)
(* under the request/response loop of Command (src/pyora/command.py), and  *)
(* the Oracle server at the other end of the socket (external).            *)
(*                                                                         *)
(* One call = reset the buffers, send the request cut into DATA packets,   *)
(* then read messages until the summary message.  A message is a code byte *)
(* and a body; the bytes of a response arrive in DATA packets cut anywhere.*)
(* The server may ask for the request again (RESEND), interrupt a response *)
(* with MARKER packets, announce its end (data flag 0x40), or vanish.      *)
(***************************************************************************)
EXTENDS Naturals, Sequences

CONSTANTS
  NumCalls,          \* calls of a behaviour
  MaxRequest,        \* bytes of the longest request
  SegmentLen,        \* session_data_unit - 64
  MessageLen,        \* bytes of a message, its code byte included
  MaxMessages,       \* messages of the longest response
  MaxResends,        \* RESEND packets of a behaviour
  MaxInterrupts,     \* interrupts of a behaviour
  MaxRounds,         \* interrupts of one response
  MaxBreaks,         \* break markers the server sends before its reset marker
  MidMessageBreak,   \* may the server interrupt inside a message?
  DecodeFailure,     \* may a converter raise on a value it cannot decode?
  ReadTimeout,       \* is connect_timeout set, so that a read may time out?
  LinkLoss           \* may the server or the network go away?

ASSUME BoundsAssumption ==
  /\ NumCalls \in Nat /\ MaxResends \in Nat /\ MaxInterrupts \in Nat
  /\ MaxRounds \in Nat /\ MaxBreaks \in Nat
  /\ MaxRequest \in Nat \ {0} /\ SegmentLen \in Nat \ {0}
  /\ MaxMessages \in Nat \ {0} /\ MessageLen \in Nat \ {0, 1}

ASSUME SwitchesAssumption ==
  {MidMessageBreak, DecodeFailure, ReadTimeout, LinkLoss} \subseteq BOOLEAN

VARIABLES
  \* the client
  pc,          \* where its one thread is: see Control
  call,        \* number of the latest call
  conn,        \* "open", "stalled" (a read timed out) or "closed"
  outBuffer,   \* bytes in out_buffer
  offset,      \* how many of them write() has sent
  sendPcks,    \* send_pcks: what a RESEND makes the client send again
  inBuffer,    \* in_buffer: bytes received and not yet read
  ret,         \* bytes the running read() has gathered
  need,        \* num_bytes it still has to gather
  field,       \* what that read() is for: "code" or "body" of a message
  trials,      \* trials of _process_marker
  outcome,     \* how the latest call ended
  got,         \* history: the bytes read() handed to the caller, this call
  \* the network: packets in flight, oldest first
  toServer, toClient,
  \* the server
  link,        \* "up", or "down" once the server or the network has gone
  phase,       \* "receiving", "answering", "breaking" or "interrupted"
  request,     \* segments received of the request being received
  executed,    \* history: calls executed, in order
  round,       \* how often the response to that call was begun anew
  length,      \* bytes of the response (of this round)
  sent,        \* how many of them have been sent
  breaks,      \* break markers sent of the running interrupt
  resends, interrupts    \* how much of the two bounds is used up

client == <<pc, call, conn, outBuffer, offset, sendPcks, inBuffer, ret, need,
            field, trials, outcome, got>>
answer == <<phase, request, executed, round, length, sent, breaks>>
server == <<link, answer, resends, interrupts>>
vars == <<client, toServer, toClient, server>>

Control == {"idle", "writing", "reading", "marker", "awaitData"}

\* Mutant: gives up one marker early.
TrialLimit_OffByOne == 2

\* Packets _process_marker reads while it looks for the reset marker.
TrialLimit == 3

MaxResponse == MaxMessages * MessageLen

-----------------------------------------------------------------------------
(* Packets and bytes.                                                      *)

\* Byte n of the response to call c, begun anew r times; `summary' marks the
\* bytes of its last message (TTC code 4).
Byte == [call : 1 .. NumCalls, round : 0 .. MaxRounds,
         n : 1 .. MaxResponse, summary : BOOLEAN]

\* A slice of the request of a call: `size' bytes from `offset' of `total'.
Segment == [type : {"DATA"}, call : 1 .. NumCalls,
            offset : 0 .. MaxRequest, size : 0 .. MaxRequest,
            total : 1 .. MaxRequest]

ResetMarker == [type |-> "MARKER", data |-> "reset"]
BreakMarker == [type |-> "MARKER", data |-> "break"]
Resend == [type |-> "RESEND"]
Data(bytes) == [type |-> "DATA", eof |-> FALSE, bytes |-> bytes]
Eof == [type |-> "DATA", eof |-> TRUE, bytes |-> <<>>]

ClientPacket == Segment \cup {ResetMarker}
ServerPacket ==
  [type : {"DATA"}, eof : BOOLEAN, bytes : Seq(Byte)]
    \cup {ResetMarker, BreakMarker, Resend}

\* n is the first byte of a message.
StartsMessage(b) == b.n % MessageLen = 1

Lesser(a, b) == IF a < b THEN a ELSE b

Init ==
  /\ pc = "idle" /\ call = 0 /\ conn = "open" /\ outcome = "none"
  /\ outBuffer = 0 /\ offset = 0 /\ sendPcks = <<>> /\ inBuffer = <<>>
  /\ ret = <<>> /\ need = 0 /\ field = "code" /\ trials = 0 /\ got = <<>>
  /\ toServer = <<>> /\ toClient = <<>>
  /\ link = "up" /\ phase = "receiving" /\ request = <<>> /\ executed = <<>>
  /\ round = 0 /\ length = 0 /\ sent = 0 /\ breaks = 0
  /\ resends = 0 /\ interrupts = 0

-----------------------------------------------------------------------------
(* The client: one thread, so at most one of these actions can be next.    *)

\* Mutant: reset_read alone.
ResetBuffer_KeepsSendPcks == inBuffer' = <<>> /\ UNCHANGED sendPcks

\* reset_buffer: reset_write and reset_read.
ResetBuffer ==
  /\ sendPcks' = <<>>
  /\ inBuffer' = <<>>

\* The call raises; the caller may go on to make another one.
Raise(c) ==
  /\ pc' = "idle"
  /\ conn' = c
  /\ outcome' = "raised"
  /\ ret' = <<>> /\ need' = 0 /\ field' = "code" /\ trials' = 0

\* What a packet becomes on the wire: nothing once the link is down.
Send(packets) ==
  toServer' = IF link = "up" THEN toServer \o packets ELSE toServer

\* Command.write: reset_buffer, put the request into out_buffer.
BeginCall ==
  /\ pc = "idle" /\ call < NumCalls
  /\ pc' = "writing" /\ call' = call + 1 /\ outcome' = "none" /\ got' = <<>>
  /\ ResetBuffer
  /\ outBuffer' \in 1 .. MaxRequest
  /\ offset' = 0
  /\ UNCHANGED <<conn, ret, need, field, trials, toServer, toClient, server>>

\* Mutant: the offset of the slice is not moved.
NextSegment_FromStart ==
  [type |-> "DATA", call |-> call, offset |-> 0,
   size |-> Lesser(outBuffer - offset, SegmentLen), total |-> outBuffer]

\* The packet write() sends next: a full segment while more than one is left.
NextSegment ==
  [type |-> "DATA", call |-> call, offset |-> offset,
   size |-> Lesser(outBuffer - offset, SegmentLen), total |-> outBuffer]

\* Session.write, one packet; the last one empties out_buffer.
WriteSegment ==
  /\ pc = "writing" /\ conn # "closed"
  /\ sendPcks' = Append(sendPcks, NextSegment)
  /\ Send(<<NextSegment>>)
  /\ IF outBuffer - offset > SegmentLen
     THEN /\ offset' = offset + SegmentLen
          /\ UNCHANGED <<pc, outBuffer, need, field>>
     ELSE /\ outBuffer' = 0 /\ offset' = 0
          /\ pc' = "reading" /\ need' = 1 /\ field' = "code"
  /\ UNCHANGED <<call, conn, inBuffer, ret, trials, outcome, got, toClient,
                 server>>

\* _sock_write raises: closed connection, or the kernel reports the loss.
WriteFails ==
  /\ pc = "writing"
  /\ conn = "closed" \/ link = "down"
  /\ sendPcks' = Append(sendPcks, NextSegment)
  /\ Raise(conn)
  /\ UNCHANGED <<call, outBuffer, offset, inBuffer, got, toServer, toClient,
                 server>>

\* Mutants: takes more than it needs; drops the rest.
TakeBytes_TakesAll ==
  /\ pc = "reading" /\ need > 0 /\ inBuffer # <<>>
  /\ ret' = ret \o inBuffer
  /\ inBuffer' = <<>>
  /\ need' = need - Len(inBuffer)
  /\ UNCHANGED <<pc, call, conn, outBuffer, offset, sendPcks, field, trials,
                 outcome, got, toServer, toClient, server>>

TakeBytes_DropsRest ==
  LET take == Lesser(Len(inBuffer), need)
  IN /\ pc = "reading" /\ take > 0
     /\ ret' = ret \o SubSeq(inBuffer, 1, take)
     /\ inBuffer' = <<>>
     /\ need' = need - take
     /\ UNCHANGED <<pc, call, conn, outBuffer, offset, sendPcks, field, trials,
                    outcome, got, toServer, toClient, server>>

\* read: take from in_buffer, as much as there is of what is missing.
TakeBytes ==
  LET take == Lesser(Len(inBuffer), need)
  IN /\ pc = "reading" /\ take > 0
     /\ ret' = ret \o SubSeq(inBuffer, 1, take)
     /\ inBuffer' = SubSeq(inBuffer, take + 1, Len(inBuffer))
     /\ need' = need - take
     /\ UNCHANGED <<pc, call, conn, outBuffer, offset, sendPcks, field, trials,
                    outcome, got, toServer, toClient, server>>

\* read_response: the code byte says how to read the body.
ReadCode ==
  /\ pc = "reading" /\ need = 0 /\ field = "code"
  /\ StartsMessage(ret[1])
  /\ got' = got \o ret
  /\ ret' = <<>> /\ need' = MessageLen - 1 /\ field' = "body"
  /\ UNCHANGED <<pc, call, conn, outBuffer, offset, sendPcks, inBuffer, trials,
                 outcome, toServer, toClient, server>>

\* process_ttc_response: "received code ... during response reading".
UnknownCode ==
  /\ pc = "reading" /\ need = 0 /\ field = "code"
  /\ ~StartsMessage(ret[1])
  /\ got' = got \o ret
  /\ Raise(conn)
  /\ UNCHANGED <<call, outBuffer, offset, sendPcks, inBuffer, toServer,
                 toClient, server>>

\* A message is complete: the loop of read_response ends after the summary,
\* which it recognised by the code byte, and else reads the next code.
ReadBody ==
  /\ pc = "reading" /\ need = 0 /\ field = "body"
  /\ got' = got \o ret
  /\ ret' = <<>>
  /\ field' = "code"
  /\ IF got[Len(got)].summary
     THEN pc' = "idle" /\ outcome' = "returned" /\ need' = 0
     ELSE need' = 1 /\ UNCHANGED <<pc, outcome>>
  /\ UNCHANGED <<call, conn, outBuffer, offset, sendPcks, inBuffer, trials,
                 toServer, toClient, server>>

\* TypeConverter.decode_value raises in the middle of a response.
DecodeFails ==
  /\ DecodeFailure
  /\ pc = "reading" /\ need = 0 /\ field = "body"
  /\ got' = got \o ret
  /\ Raise(conn)
  /\ UNCHANGED <<call, outBuffer, offset, sendPcks, inBuffer, toServer,
                 toClient, server>>

\* The thread is in read_packet_data, waiting for a packet.
Waiting ==
  \/ pc = "reading" /\ need > 0 /\ inBuffer = <<>>
  \/ pc = "marker" /\ trials <= TrialLimit
  \/ pc = "awaitData"

\* The packet that is next to be read.
Packet == Head(toClient)

\* read_packet_data delivers it.
Receive ==
  /\ conn = "open" /\ toClient # <<>>
  /\ toClient' = Tail(toClient)

\* read_packet, DATA: into in_buffer.
ReadData ==
  /\ pc = "reading" /\ Waiting
  /\ Receive /\ Packet.type = "DATA" /\ ~Packet.eof
  /\ inBuffer' = inBuffer \o Packet.bytes
  /\ UNCHANGED <<pc, call, conn, outBuffer, offset, sendPcks, ret, need, field,
                 trials, outcome, got, toServer, server>>

\* read_packet, DATA with data flag 0x40: disconnect, ErrConnReset.
ReadEof ==
  /\ pc = "reading" /\ Waiting
  /\ Receive /\ Packet = Eof
  /\ Raise("closed")
  /\ UNCHANGED <<call, outBuffer, offset, sendPcks, inBuffer, got, toServer,
                 server>>

\* read_packet, RESEND: every packet of send_pcks again, then read on.
ReadResend ==
  /\ pc = "reading" /\ Waiting
  /\ Receive /\ Packet = Resend
  /\ \/ Send(sendPcks) /\ UNCHANGED client
     \/ /\ link = "down" /\ Raise(conn)
        /\ UNCHANGED <<call, outBuffer, offset, sendPcks, inBuffer, got,
                       toServer>>
  /\ UNCHANGED server

\* Mutants: the reset marker is sent twice; it is not sent at all.
AcknowledgeReset_Twice ==
  /\ sendPcks' = <<ResetMarker, ResetMarker>>
  /\ inBuffer' = <<>>
  /\ outBuffer' = 0 /\ offset' = 0
  /\ Send(<<ResetMarker, ResetMarker>>)
  /\ pc' = "awaitData" /\ trials' = 0
  /\ UNCHANGED <<conn, ret, need, field, outcome, call, got, server>>

AcknowledgeReset_Silent ==
  /\ sendPcks' = <<ResetMarker>>
  /\ inBuffer' = <<>>
  /\ outBuffer' = 0 /\ offset' = 0
  /\ pc' = "awaitData" /\ trials' = 0
  /\ UNCHANGED <<conn, ret, need, field, outcome, call, got, toServer, server>>

\* _process_marker has seen the reset marker: forget both buffers, answer
\* with a reset marker, then wait for the data packet that must follow.  On a
\* lost link the answer may raise instead.
AcknowledgeReset ==
  /\ sendPcks' = <<ResetMarker>>
  /\ inBuffer' = <<>>
  /\ outBuffer' = 0 /\ offset' = 0
  /\ \/ /\ Send(<<ResetMarker>>)
        /\ pc' = "awaitData" /\ trials' = 0
        /\ UNCHANGED <<conn, ret, need, field, outcome>>
     \/ link = "down" /\ Raise(conn) /\ UNCHANGED toServer
  /\ UNCHANGED <<call, got, server>>

\* read_packet, MARKER: _process_marker on the first marker.
ReadMarker ==
  /\ pc = "reading" /\ Waiting
  /\ \/ Receive /\ Packet = ResetMarker /\ AcknowledgeReset
     \/ /\ Receive /\ Packet = BreakMarker
        /\ pc' = "marker" /\ trials' = 1
        /\ UNCHANGED <<call, conn, outBuffer, offset, sendPcks, inBuffer, ret,
                       need, field, outcome, got, toServer, server>>

\* The trials loop of _process_marker, on one more packet.
ReadNextMarker ==
  /\ pc = "marker" /\ Waiting
  /\ \/ Receive /\ Packet = ResetMarker /\ AcknowledgeReset
     \/ /\ Receive /\ Packet = BreakMarker
        /\ trials' = trials + 1
        /\ UNCHANGED <<pc, call, conn, outBuffer, offset, sendPcks, inBuffer,
                       ret, need, field, outcome, got, toServer, server>>

\* ErrConnReset: too many break markers.
TooManyTrials ==
  /\ pc = "marker" /\ trials > TrialLimit
  /\ Raise(conn)
  /\ UNCHANGED <<call, outBuffer, offset, sendPcks, inBuffer, got, toServer,
                 toClient, server>>

\* _process_marker got its data packet: it becomes in_buffer, whatever its
\* data flag, and read() goes on where it was.
AwaitData ==
  /\ pc = "awaitData"
  /\ Receive /\ Packet.type = "DATA"
  /\ inBuffer' = Packet.bytes
  /\ pc' = "reading"
  /\ UNCHANGED <<call, conn, outBuffer, offset, sendPcks, ret, need, field,
                 trials, outcome, got, toServer, server>>

\* ErrConnReset or ValueError: not the kind of packet _process_marker needs.
WrongPacket ==
  /\ Receive
  /\ \/ pc = "marker" /\ Waiting /\ Packet.type # "MARKER"
     \/ pc = "awaitData" /\ Packet.type # "DATA"
  /\ Raise(conn)
  /\ UNCHANGED <<call, outBuffer, offset, sendPcks, inBuffer, got, toServer,
                 server>>

\* The socket times out; its buffered reader then refuses every later read.
ReadTimesOut ==
  /\ ReadTimeout /\ Waiting
  /\ conn = "open" /\ toClient = <<>> /\ link = "up"
  /\ Raise("stalled")
  /\ UNCHANGED <<call, outBuffer, offset, sendPcks, inBuffer, got, toServer,
                 toClient, server>>

\* _sock_read raises: no reader, reader timed out before, or end of stream.
ReadFails ==
  /\ Waiting
  /\ conn # "open" \/ (toClient = <<>> /\ link = "down")
  /\ Raise(conn)
  /\ UNCHANGED <<call, outBuffer, offset, sendPcks, inBuffer, got, toServer,
                 toClient, server>>

-----------------------------------------------------------------------------
(* The server and the network (external).                                  *)

\* The request being received is complete.
RequestComplete ==
  /\ request # <<>>
  /\ LET s == request[Len(request)] IN s.offset + s.size = s.total

\* The latest call executed, 0 for none.
LastExecuted == IF executed = <<>> THEN 0 ELSE executed[Len(executed)]

ServerReceives ==
  /\ link = "up" /\ phase = "receiving" /\ ~RequestComplete
  /\ toServer # <<>> /\ Head(toServer).type = "DATA"
  /\ toServer' = Tail(toServer)
  /\ request' = Append(request, Head(toServer))
  /\ UNCHANGED <<client, toClient, link, phase, executed, round, length, sent,
                 breaks, resends, interrupts>>

\* It executes the request and settles how long the response is.
ServerExecutes ==
  /\ link = "up" /\ phase = "receiving" /\ RequestComplete
  /\ executed' = Append(executed, request[Len(request)].call)
  /\ request' = <<>>
  /\ phase' = "answering" /\ round' = 0 /\ sent' = 0
  /\ \E m \in 1 .. MaxMessages : length' = m * MessageLen
  /\ UNCHANGED <<client, toServer, toClient, link, breaks, resends, interrupts>>

\* It could not use the request: discard it and ask for all of it again.
ServerAsksResend ==
  /\ link = "up" /\ phase = "receiving" /\ RequestComplete
  /\ resends < MaxResends
  /\ resends' = resends + 1
  /\ request' = <<>>
  /\ toClient' = Append(toClient, Resend)
  /\ UNCHANGED <<client, toServer, link, phase, executed, round, length, sent,
                 breaks, interrupts>>

\* It sends some more of the response; after the summary it is receiving.
ServerSends ==
  /\ link = "up" /\ phase = "answering"
  /\ \E k \in 1 .. (length - sent) :
       /\ toClient' = Append(toClient, Data([i \in 1 .. k |->
            [call |-> LastExecuted, round |-> round, n |-> sent + i,
             summary |-> sent + i > length - MessageLen]]))
       /\ sent' = sent + k
       /\ phase' = IF sent + k = length THEN "receiving" ELSE phase
  /\ UNCHANGED <<client, toServer, link, request, executed, round, length,
                 breaks, resends, interrupts>>

\* It gives up the response ...
ServerInterrupts ==
  /\ link = "up" /\ phase = "answering"
  /\ interrupts < MaxInterrupts /\ round < MaxRounds
  /\ MidMessageBreak \/ sent % MessageLen = 0
  /\ interrupts' = interrupts + 1
  /\ phase' = "breaking" /\ breaks' = 0
  /\ UNCHANGED <<client, toServer, toClient, link, request, executed, round,
                 length, sent, resends>>

\* ... with some break markers ...
ServerBreaks ==
  /\ link = "up" /\ phase = "breaking" /\ breaks < MaxBreaks
  /\ breaks' = breaks + 1
  /\ toClient' = Append(toClient, BreakMarker)
  /\ UNCHANGED <<client, toServer, link, phase, request, executed, round,
                 length, sent, resends, interrupts>>

\* ... and a reset marker.
ServerAsksReset ==
  /\ link = "up" /\ phase = "breaking"
  /\ phase' = "interrupted"
  /\ toClient' = Append(toClient, ResetMarker)
  /\ UNCHANGED <<client, toServer, link, request, executed, round, length,
                 sent, breaks, resends, interrupts>>

\* Then it drops data packets until the client's reset marker, and answers
\* with a summary message that reports the error.
ServerResets ==
  /\ link = "up" /\ phase = "interrupted" /\ toServer # <<>>
  /\ toServer' = Tail(toServer)
  /\ IF Head(toServer) = ResetMarker
     THEN /\ phase' = "answering" /\ round' = round + 1
          /\ sent' = 0 /\ length' = MessageLen
     ELSE UNCHANGED <<phase, round, sent, length>>
  /\ UNCHANGED <<client, toClient, link, request, executed, breaks, resends,
                 interrupts>>

\* It announces the end of the connection and closes it, or is lost.
LinkGoesDown ==
  /\ LinkLoss /\ link = "up"
  /\ link' = "down"
  /\ toClient' \in {toClient, Append(toClient, Eof)}
  /\ UNCHANGED <<client, toServer, answer, resends, interrupts>>

-----------------------------------------------------------------------------
\* The client's thread, once a call has been made.
ClientStep ==
  \/ WriteSegment \/ WriteFails
  \/ TakeBytes \/ ReadCode \/ UnknownCode \/ ReadBody \/ DecodeFails
  \/ ReadData \/ ReadEof \/ ReadResend
  \/ ReadMarker \/ ReadNextMarker \/ TooManyTrials \/ AwaitData \/ WrongPacket
  \/ ReadTimesOut \/ ReadFails

\* What a live server does sooner or later.
ServerStep ==
  \/ ServerReceives \/ ServerExecutes \/ ServerSends
  \/ ServerAsksReset \/ ServerResets

\* The bound on calls is used up: the application makes no further call.
Finished ==
  /\ pc = "idle" /\ call = NumCalls
  /\ UNCHANGED vars

Next ==
  \/ BeginCall \/ ClientStep
  \/ ServerStep \/ ServerAsksResend \/ ServerInterrupts \/ ServerBreaks
  \/ LinkGoesDown
  \/ Finished

Spec == Init /\ [][Next]_vars

\* The interpreter runs the thread; a server that stays reachable works on
\* what it was sent.  Nothing forces resends, interrupts, timeouts or loss.
FairSpec == Spec /\ WF_vars(ClientStep) /\ WF_vars(ServerStep)

-----------------------------------------------------------------------------
(* Properties.                                                             *)

ClientTypeOK ==
  /\ pc \in Control
  /\ call \in 0 .. NumCalls
  /\ conn \in {"open", "stalled", "closed"}
  /\ outBuffer \in 0 .. MaxRequest /\ offset \in 0 .. MaxRequest
  /\ sendPcks \in Seq(ClientPacket)
  /\ inBuffer \in Seq(Byte) /\ ret \in Seq(Byte) /\ got \in Seq(Byte)
  /\ need \in 0 .. MessageLen
  /\ field \in {"code", "body"}
  /\ trials \in 0 .. TrialLimit + 1
  /\ outcome \in {"none", "returned", "raised"}

WireTypeOK ==
  /\ toServer \in Seq(ClientPacket)
  /\ toClient \in Seq(ServerPacket)

ServerTypeOK ==
  /\ link \in {"up", "down"}
  /\ phase \in {"receiving", "answering", "breaking", "interrupted"}
  /\ request \in Seq(Segment)
  /\ executed \in Seq(1 .. NumCalls)
  /\ round \in 0 .. MaxRounds
  /\ length \in 0 .. MaxResponse /\ sent \in 0 .. length
  /\ breaks \in 0 .. MaxBreaks
  /\ resends \in 0 .. MaxResends /\ interrupts \in 0 .. MaxInterrupts

\* The types of the variables.
TypeOK == ClientTypeOK /\ WireTypeOK /\ ServerTypeOK

\* What read() gathers and hands out belongs to the call that is waiting, and
\* no byte of an earlier response is left in in_buffer for it to find.
Paired ==
  /\ \A i \in DOMAIN ret : ret[i].call = call
  /\ \A i \in DOMAIN got : got[i].call = call
  /\ \A i \in DOMAIN inBuffer : pc # "idle" => inBuffer[i].call = call

\* b comes right after a: the next byte of the response, or the first byte of
\* the response begun anew, and then only where a message ended.
Follows(a, b) ==
  /\ b.call = a.call
  /\ \/ b.round = a.round /\ b.n = a.n + 1
     \/ b.round > a.round /\ b.n = 1 /\ a.n % MessageLen = 0

Contiguous(s) == \A i \in 1 .. Len(s) - 1 : Follows(s[i], s[i + 1])

\* No byte is lost, repeated or spliced in: what the caller got, what read()
\* has gathered, and in_buffer are one stretch of the response, whatever the
\* packets were and wherever an interrupt fell.  In particular each field
\* read() returns is one field the server wrote.
InSequence == Contiguous(got \o ret \o inBuffer)

\* One field at a time: the bytes read() has gathered for one body or code
\* byte come from one message of one response.
FieldIntact ==
  \A i, j \in DOMAIN ret : ret[i].round = ret[j].round

\* The server puts each request together from exactly its segments, in order:
\* neither a segment of an earlier call nor one twice, even when RESEND made
\* the client send them again.
RequestIntact ==
  \A i \in DOMAIN request :
    IF i = 1 THEN request[i].offset = 0
    ELSE /\ request[i].call = request[i - 1].call
         /\ request[i].total = request[i - 1].total
         /\ request[i].offset = request[i - 1].offset + request[i - 1].size

\* The client's reset marker is one the server is waiting for, and each
\* interrupt gets one: it is never taken for the start of a request.
ResetExpected ==
  \A i \in DOMAIN toServer :
    toServer[i] = ResetMarker =>
      /\ phase = "interrupted"
      /\ \A j \in DOMAIN toServer : toServer[j] = ResetMarker => j = i

\* A call that was made ends, by returning or by raising.
EveryCallEnds == (pc # "idle") ~> (pc = "idle")

-----------------------------------------------------------------------------
(* The session implements CallSpec.                                        *)

\* The caller got the whole response to its call.
WholeResponse ==
  /\ got # <<>> /\ got[1].n = 1 /\ Contiguous(got)
  /\ got[Len(got)].summary /\ got[Len(got)].n % MessageLen = 0
  /\ got[1].call = call

\* How the latest call ended, as its caller sees it.
Reply ==
  CASE outcome = "none" -> "none"
    [] outcome = "raised" -> "failed"
    [] OTHER -> IF WholeResponse THEN "answered" ELSE "garbled"

Calls == INSTANCE CallSpec WITH
  status <- IF pc = "idle" THEN "idle" ELSE "pending",
  reply <- Reply

\* Every behaviour is one CallSpec allows: the fair one, so that calls end.
ImplementsFairCalls == Calls!FairSpec
-----------------------------------------------------------------------------
(* Why RequestIntact holds.  What is on its way to the server is a chain   *)
(* of whole requests and markers; only the request write() is in the midst *)
(* of may lack its end.  send_pcks is such a chain too, so sending it      *)
(* again adds whole requests.  Session_proofs proves WireInv inductive.    *)

\* p ends a request, or is a marker; p may begin one.
Ends(p) == p.type = "MARKER" \/ p.offset + p.size = p.total
Begins(p) == p.type = "MARKER" \/ p.offset = 0

\* q may come right after p.
Adjoins(p, q) ==
  IF Ends(p) THEN Begins(q)
  ELSE /\ q.type = "DATA" /\ q.call = p.call /\ q.total = p.total
       /\ q.offset = p.offset + p.size

Chained(s) == \A i \in 1 .. Len(s) - 1 : Adjoins(s[i], s[i + 1])

\* p is the segment before the one write() sends next.
Precedes(p) ==
  /\ p.type = "DATA" /\ p.call = call /\ p.total = outBuffer
  /\ p.offset + p.size = offset

\* Where the call stands ...
CallPosition ==
  /\ offset <= outBuffer
  /\ pc # "idle" => call # 0
  /\ pc = "writing" => offset < outBuffer
  /\ pc = "writing" /\ conn = "closed" => offset = 0

\* ... and where the response does.
ResponsePosition ==
  /\ phase # "receiving" => executed # <<>> /\ request = <<>>
  /\ phase \in {"breaking", "interrupted"} => round < MaxRounds

Position == CallPosition /\ ResponsePosition

\* The request being received: one request from its start, complete only
\* with its last segment.
RequestChain ==
  /\ request # <<>> => Begins(request[1])
  /\ Chained(request)
  /\ \A i \in 1 .. Len(request) - 1 : ~Ends(request[i])

\* The packets to the server go on where that request stands, unless the
\* server is dropping them.
WireChain ==
  /\ Chained(toServer)
  /\ toServer # <<>> /\ phase # "interrupted" =>
       IF request = <<>> THEN Begins(toServer[1])
       ELSE Adjoins(request[Len(request)], toServer[1])

\* The last packet sent is a whole request's last, or write() goes on with it.
WireEnd ==
  LET last == IF toServer # <<>> THEN toServer[Len(toServer)]
              ELSE request[Len(request)]
      pending == toServer # <<>> \/ request # <<>>
      midRequest == pc = "writing" /\ offset > 0
  IN link = "up" =>
       /\ pending => IF midRequest THEN Precedes(last) ELSE Ends(last)
       /\ ~pending /\ midRequest => phase = "interrupted"

\* send_pcks is what has been written of the request, or the reset marker.
SentChain ==
  /\ Chained(sendPcks)
  /\ sendPcks # <<>> => Begins(sendPcks[1])
  /\ pc = "writing" =>
       IF offset = 0 THEN sendPcks = <<>>
       ELSE sendPcks # <<>> /\ Precedes(sendPcks[Len(sendPcks)])
  /\ pc \in {"reading", "marker", "awaitData"} =>
       sendPcks # <<>> /\ Ends(sendPcks[Len(sendPcks)])

WireInv == Position /\ RequestChain /\ WireChain /\ WireEnd /\ SentChain
=============================================================================
