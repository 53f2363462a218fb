--------------------------- MODULE Session_proofs ---------------------------
(***************************************************************************)
(* Proofs about Session.tla, for every value of its constants: the types,  *)
(* and that the server puts every request together from exactly its        *)
(* segments, however many of them there are, wherever the server           *)
(* interrupts or asks for a request again, and whatever call fails, and    *)
(* gets a reset marker for each of its interrupts, and no other.           *)
(*                                                                         *)
(* The second half is about the responses: where the connection stays in   *)
(* step (StaysInStep), every call reads its own, whole and in sequence,    *)
(* and Session implements CallSpec.                                        *)
(***************************************************************************)
EXTENDS Session, SequenceTheorems, WellFoundedInduction, TLAPS

-----------------------------------------------------------------------------
(* Lemmas.                                                                 *)

\* The lesser of two numbers, and what is left of the other.
LEMMA LesserType ==
  ASSUME NEW a \in Nat, NEW b \in Nat
  PROVE  /\ Lesser(a, b) \in Nat
         /\ Lesser(a, b) <= a /\ Lesser(a, b) <= b
         /\ b - Lesser(a, b) \in 0 .. b
BY DEF Lesser

\* The last element of a sequence.
LEMMA LastOfSeq ==
  ASSUME NEW S, NEW s \in Seq(S), s # <<>>
  PROVE  Len(s) \in 1 .. Len(s) /\ s[Len(s)] \in S
<1>1. Len(s) \in Nat /\ Len(s) # 0
  BY LenProperties, EmptySeq
<1> QED BY <1>1, ElementOfSeq

\* The length of a response is within its bound.
LEMMA ResponseLength ==
  /\ MaxResponse \in Nat
  /\ MessageLen \in 1 .. MaxResponse
  /\ \A m \in 1 .. MaxMessages : m * MessageLen \in 1 .. MaxResponse
<1>1. \A m \in Nat \ {0} : m * MessageLen \in Nat /\ m * MessageLen >= MessageLen
  BY BoundsAssumption, SMT
<1>2. \A m \in 1 .. MaxMessages : m * MessageLen <= MaxMessages * MessageLen
  <2>1. \A m, k \in Nat : m <= k => m * MessageLen <= k * MessageLen
    BY BoundsAssumption, SMT
  <2> QED BY <2>1, BoundsAssumption
<1> QED BY <1>1, <1>2, BoundsAssumption DEF MaxResponse

\* The packet write() sends next is a segment.
LEMMA NextSegmentType ==
  ASSUME ClientTypeOK, CallPosition, pc = "writing"
  PROVE  /\ NextSegment \in Segment
         /\ NextSegment \in ClientPacket
BY BoundsAssumption
DEF ClientTypeOK, CallPosition, NextSegment, Segment, ClientPacket, Lesser

\* Reading a packet takes it from the channel and types it.
LEMMA ReceiveType ==
  ASSUME WireTypeOK, Receive
  PROVE  /\ toClient' \in Seq(ServerPacket)
         /\ Packet.type = "DATA" => Packet.bytes \in Seq(Byte)
<1>1. Packet \in ServerPacket /\ toClient' \in Seq(ServerPacket)
  BY HeadTailProperties DEF WireTypeOK, Receive, Packet
<1> QED
  BY <1>1 DEF ServerPacket, ResetMarker, BreakMarker, Resend

\* What Send puts on the wire.
LEMMA SendType ==
  ASSUME WireTypeOK, NEW packets \in Seq(ClientPacket), Send(packets)
  PROVE  toServer' \in Seq(ClientPacket)
BY ConcatProperties DEF WireTypeOK, Send

-----------------------------------------------------------------------------
(* Types.                                                                  *)

LEMMA InitTypes == Init => TypeOK /\ Position
BY BoundsAssumption, ResponseLength
DEF Init, TypeOK, ClientTypeOK, WireTypeOK, ServerTypeOK, Position,
    CallPosition, ResponsePosition, Control, TrialLimit

\* A step of the client leaves the server alone.
LEMMA ClientLeavesServer ==
  ASSUME BeginCall \/ ClientStep
  PROVE  UNCHANGED server
BY DEF BeginCall, ClientStep, WriteSegment, WriteFails, TakeBytes, ReadCode,
       UnknownCode, ReadBody, DecodeFails, ReadData, ReadEof, ReadResend,
       ReadMarker, ReadNextMarker, AcknowledgeReset, TooManyTrials, AwaitData,
       WrongPacket, ReadTimesOut, ReadFails

\* Every step of the client keeps the types.
LEMMA ClientTypes ==
  ASSUME ClientTypeOK, WireTypeOK, CallPosition, BeginCall \/ ClientStep
  PROVE  ClientTypeOK' /\ WireTypeOK' /\ CallPosition'
<1> USE BoundsAssumption
    DEF ClientTypeOK, CallPosition, Control, TrialLimit, vars, client
<1>1. CASE BeginCall
  <2>1. /\ sendPcks' = <<>> /\ inBuffer' = <<>> /\ WireTypeOK'
        /\ call' = call + 1 /\ call < NumCalls
    BY <1>1 DEF BeginCall, ResetBuffer, WireTypeOK
  <2>2. sendPcks' \in Seq(ClientPacket) /\ inBuffer' \in Seq(Byte)
    BY <2>1, EmptySeq
  <2> QED BY <1>1, <2>1, <2>2 DEF BeginCall
<1>2. CASE WriteSegment
  <2>1. NextSegment \in ClientPacket /\ <<NextSegment>> \in Seq(ClientPacket)
    BY <1>2, NextSegmentType DEF WriteSegment
  <2>2. WireTypeOK'
    BY <1>2, <2>1, SendType DEF WriteSegment, WireTypeOK
  <2>3. sendPcks' \in Seq(ClientPacket)
    BY <1>2, <2>1, AppendProperties DEF WriteSegment
  <2>4. CASE outBuffer - offset > SegmentLen
    BY <1>2, <2>2, <2>3, <2>4 DEF WriteSegment
  <2>5. CASE ~(outBuffer - offset > SegmentLen)
    BY <1>2, <2>2, <2>3, <2>5 DEF WriteSegment
  <2> QED BY <2>4, <2>5
<1>3. CASE WriteFails
  BY <1>3, NextSegmentType DEF WriteFails, Raise, WireTypeOK
<1>4. CASE TakeBytes
  <2> DEFINE take == Lesser(Len(inBuffer), need)
  <2>a. MessageLen \in Nat
    OBVIOUS
  <2>b. need \in Nat /\ need <= MessageLen
    BY <2>a
  <2>c. Len(inBuffer) \in Nat
    OBVIOUS
  <2>d. /\ take \in Nat /\ take <= Len(inBuffer)
        /\ need - take \in 0 .. need
    BY <2>b, <2>c, LesserType
  <2>e. /\ take > 0
        /\ ret' = ret \o SubSeq(inBuffer, 1, take)
        /\ inBuffer' = SubSeq(inBuffer, take + 1, Len(inBuffer))
        /\ need' = need - take
    BY <1>4, Zenon DEF TakeBytes
  <2> HIDE DEF take
  <2>2. SubSeq(inBuffer, 1, take) \in Seq(Byte)
    BY <2>c, <2>d, SubSeqProperties, ElementOfSeq
  <2>3. SubSeq(inBuffer, take + 1, Len(inBuffer)) \in Seq(Byte)
    BY <2>c, <2>d, SubSeqProperties, ElementOfSeq
  <2>5. ret' \in Seq(Byte) /\ inBuffer' \in Seq(Byte)
    BY <2>2, <2>3, <2>e, ConcatProperties
  <2>6. need' \in 0 .. MessageLen
    BY <2>a, <2>b, <2>d, <2>e
  <2> QED
    BY <1>4, <2>5, <2>6 DEF TakeBytes, WireTypeOK
<1>5. CASE ReadCode
  BY <1>5 DEF ReadCode, WireTypeOK
<1>6. CASE UnknownCode
  BY <1>6 DEF UnknownCode, Raise, WireTypeOK
<1>7. CASE ReadBody
  <2>1. got' \in Seq(Byte) /\ ret' \in Seq(Byte)
    BY <1>7, ConcatProperties, EmptySeq DEF ReadBody
  <2>2. \/ pc' = "idle" /\ outcome' = "returned" /\ need' = 0
        \/ need' = 1 /\ UNCHANGED <<pc, outcome>>
    BY <1>7, Zenon DEF ReadBody
  <2>3. CASE pc' = "idle" /\ outcome' = "returned" /\ need' = 0
    BY <1>7, <2>1, <2>3 DEF ReadBody, WireTypeOK
  <2>4. CASE need' = 1 /\ UNCHANGED <<pc, outcome>>
    BY <1>7, <2>1, <2>4 DEF ReadBody, WireTypeOK
  <2> QED BY <2>2, <2>3, <2>4
<1>8. CASE DecodeFails
  BY <1>8 DEF DecodeFails, Raise, WireTypeOK
<1>9. CASE ReadData
  BY <1>9, ReceiveType, ConcatProperties DEF ReadData, WireTypeOK
<1>10. CASE ReadEof
  BY <1>10, ReceiveType DEF ReadEof, Raise, WireTypeOK
<1>11. CASE ReadResend
  <2>1. toClient' \in Seq(ServerPacket)
    BY <1>11, ReceiveType DEF ReadResend
  <2>2. CASE Send(sendPcks) /\ UNCHANGED client
    <3>1. toServer' \in Seq(ClientPacket)
      BY <2>2, SendType
    <3> QED BY <2>1, <2>2, <3>1 DEF WireTypeOK
  <2>3. CASE /\ Raise(conn)
             /\ UNCHANGED <<call, outBuffer, offset, sendPcks, inBuffer, got,
                            toServer>>
    BY <1>11, <2>1, <2>3, EmptySeq DEF Raise, WireTypeOK
  <2> QED BY <1>11, <2>2, <2>3 DEF ReadResend
<1>12. ASSUME Receive, AcknowledgeReset, pc # "idle"
       PROVE  ClientTypeOK' /\ WireTypeOK' /\ CallPosition'
  <2>1. <<ResetMarker>> \in Seq(ClientPacket)
    BY DEF ClientPacket
  <2>2. toClient' \in Seq(ServerPacket)
    BY <1>12, ReceiveType
  <2>3. sendPcks' \in Seq(ClientPacket) /\ inBuffer' \in Seq(Byte)
    BY <1>12, <2>1, EmptySeq DEF AcknowledgeReset
  <2>4. CASE /\ Send(<<ResetMarker>>)
             /\ pc' = "awaitData" /\ trials' = 0
             /\ UNCHANGED <<conn, ret, need, field, outcome>>
    <3>1. toServer' \in Seq(ClientPacket)
      BY <2>1, <2>4, SendType
    <3> QED
      BY <1>12, <2>2, <2>3, <2>4, <3>1 DEF AcknowledgeReset, WireTypeOK
  <2>5. CASE Raise(conn) /\ UNCHANGED toServer
    BY <1>12, <2>2, <2>3, <2>5, EmptySeq DEF AcknowledgeReset, Raise, WireTypeOK
  <2> QED BY <1>12, <2>4, <2>5 DEF AcknowledgeReset
<1>13. CASE ReadMarker
  <2>1. CASE Packet = ResetMarker /\ AcknowledgeReset
    BY <1>12, <1>13, <2>1 DEF ReadMarker
  <2>2. CASE pc' = "marker" /\ trials' = 1 /\ UNCHANGED <<call, conn, outBuffer,
               offset, sendPcks, inBuffer, ret, need, field, outcome, got,
               toServer, server>>
    BY <1>13, <2>2, ReceiveType DEF ReadMarker, WireTypeOK
  <2> QED BY <1>13, <2>1, <2>2 DEF ReadMarker
<1>14. CASE ReadNextMarker
  <2>1. CASE Packet = ResetMarker /\ AcknowledgeReset
    BY <1>12, <1>14, <2>1 DEF ReadNextMarker
  <2>2. CASE trials' = trials + 1 /\ UNCHANGED <<pc, call, conn, outBuffer,
               offset, sendPcks, inBuffer, ret, need, field, outcome, got,
               toServer, server>>
    BY <1>14, <2>2, ReceiveType DEF ReadNextMarker, Waiting, WireTypeOK
  <2> QED BY <1>14, <2>1, <2>2 DEF ReadNextMarker
<1>15. CASE TooManyTrials
  BY <1>15 DEF TooManyTrials, Raise, WireTypeOK
<1>16. CASE AwaitData
  BY <1>16, ReceiveType DEF AwaitData, WireTypeOK
<1>17. CASE WrongPacket
  BY <1>17, ReceiveType DEF WrongPacket, Raise, WireTypeOK
<1>18. CASE ReadTimesOut
  BY <1>18 DEF ReadTimesOut, Raise, WireTypeOK
<1>19. CASE ReadFails
  BY <1>19 DEF ReadFails, Raise, WireTypeOK
<1> QED
  BY <1>1, <1>2, <1>3, <1>4, <1>5, <1>6, <1>7, <1>8, <1>9, <1>10, <1>11,
     <1>13, <1>14, <1>15, <1>16, <1>17, <1>18, <1>19 DEF ClientStep

\* A step of the server or the network.
ServerNext ==
  ServerStep \/ ServerAsksResend \/ ServerInterrupts \/ ServerBreaks
    \/ LinkGoesDown

\* The bytes ServerSends puts into a packet.
LEMMA SentBytesType ==
  ASSUME ServerTypeOK, ResponsePosition, phase = "answering",
         NEW k \in 1 .. (length - sent)
  PROVE  [i \in 1 .. k |->
            [call |-> LastExecuted, round |-> round, n |-> sent + i,
             summary |-> sent + i > length - MessageLen]] \in Seq(Byte)
<1>1. LastExecuted \in 1 .. NumCalls
  BY LastOfSeq DEF ServerTypeOK, ResponsePosition, LastExecuted
<1>2. sent \in Nat /\ length \in Nat /\ length <= MaxResponse
      /\ MessageLen \in Nat
  BY ResponseLength, BoundsAssumption DEF ServerTypeOK
<1>3. \A i \in 1 .. k : sent + i \in 1 .. MaxResponse
  BY <1>2, ResponseLength
<1>4. \A i \in 1 .. k : (sent + i > length - MessageLen) \in BOOLEAN
  BY <1>2
<1>5. \A i \in 1 .. k :
        [call |-> LastExecuted, round |-> round, n |-> sent + i,
         summary |-> sent + i > length - MessageLen] \in Byte
  BY <1>1, <1>3, <1>4 DEF Byte, ServerTypeOK
<1> QED
  BY <1>2, <1>5

\* Every step of the server keeps the types.
LEMMA ServerTypes ==
  ASSUME ServerTypeOK, WireTypeOK, ResponsePosition, ServerNext
  PROVE  ServerTypeOK' /\ WireTypeOK' /\ ResponsePosition'
<1> USE BoundsAssumption, ResponseLength
    DEF ServerTypeOK, WireTypeOK, ResponsePosition
<1>1. CASE ServerReceives
  <2>1. Head(toServer) \in ClientPacket /\ toServer' \in Seq(ClientPacket)
    BY <1>1, HeadTailProperties DEF ServerReceives
  <2>2. Head(toServer) \in Segment
    <3>1. Head(toServer).type = "DATA"
      BY <1>1 DEF ServerReceives
    <3>2. Head(toServer) # ResetMarker
      BY <3>1 DEF ResetMarker
    <3> QED BY <2>1, <3>2 DEF ClientPacket
  <2>3. request' \in Seq(Segment)
    BY <1>1, <2>2, AppendProperties DEF ServerReceives
  <2> QED
    BY <1>1, <2>1, <2>3 DEF ServerReceives
<1>2. CASE ServerExecutes
  <2>1. request[Len(request)] \in Segment
    BY <1>2, LastOfSeq DEF ServerExecutes, RequestComplete
  <2>2. request[Len(request)].call \in 1 .. NumCalls
    BY <2>1 DEF Segment
  <2>3. executed' \in Seq(1 .. NumCalls) /\ executed' # <<>>
    <3>1. executed' = Append(executed, request[Len(request)].call)
      BY <1>2 DEF ServerExecutes
    <3> HIDE BoundsAssumption, ResponseLength
    <3> QED BY <2>2, <3>1, AppendProperties
  <2>4. length' \in 0 .. MaxResponse /\ sent' \in 0 .. length'
    BY <1>2 DEF ServerExecutes
  <2> QED
    BY <1>2, <2>3, <2>4, EmptySeq DEF ServerExecutes
<1>3. CASE ServerAsksResend
  <2>1. Resend \in ServerPacket
    BY DEF ServerPacket
  <2>2. toClient' \in Seq(ServerPacket)
    BY <1>3, <2>1, AppendProperties DEF ServerAsksResend
  <2> QED
    BY <1>3, <2>2, EmptySeq DEF ServerAsksResend
<1>4. CASE ServerSends
  <2>1. PICK k \in 1 .. (length - sent) :
          /\ toClient' = Append(toClient, Data([i \in 1 .. k |->
               [call |-> LastExecuted, round |-> round, n |-> sent + i,
                summary |-> sent + i > length - MessageLen]]))
          /\ sent' = sent + k
          /\ phase' = IF sent + k = length THEN "receiving" ELSE phase
    BY <1>4 DEF ServerSends
  <2>2. toClient' \in Seq(ServerPacket)
    <3>1. [i \in 1 .. k |->
             [call |-> LastExecuted, round |-> round, n |-> sent + i,
              summary |-> sent + i > length - MessageLen]] \in Seq(Byte)
      BY <1>4, SentBytesType DEF ServerSends
    <3>2. \A bytes \in Seq(Byte) : Data(bytes) \in ServerPacket
      BY DEF Data, ServerPacket
    <3> QED
      BY <2>1, <3>1, <3>2, AppendProperties
  <2>3. sent' \in 0 .. length
    BY <2>1
  <2> QED
    BY <1>4, <2>1, <2>2, <2>3 DEF ServerSends
<1>5. CASE ServerInterrupts
  BY <1>5 DEF ServerInterrupts
<1>6. CASE ServerBreaks
  <2>1. BreakMarker \in ServerPacket
    BY DEF ServerPacket
  <2> QED
    BY <1>6, <2>1, AppendProperties DEF ServerBreaks
<1>7. CASE ServerAsksReset
  <2>1. ResetMarker \in ServerPacket
    BY DEF ServerPacket
  <2> QED
    BY <1>7, <2>1, AppendProperties DEF ServerAsksReset
<1>8. CASE ServerResets
  <2>1. toServer' \in Seq(ClientPacket)
    BY <1>8, HeadTailProperties DEF ServerResets
  <2>2. CASE Head(toServer) = ResetMarker
    BY <1>8, <2>1, <2>2 DEF ServerResets
  <2>3. CASE Head(toServer) # ResetMarker
    BY <1>8, <2>1, <2>3 DEF ServerResets
  <2> QED BY <2>2, <2>3
<1>9. CASE LinkGoesDown
  <2>1. Eof \in ServerPacket
    BY EmptySeq DEF Eof, ServerPacket
  <2>2. toClient' \in Seq(ServerPacket)
    <3>1. Append(toClient, Eof) \in Seq(ServerPacket)
      BY <2>1, AppendProperties
    <3>2. toClient' \in {toClient, Append(toClient, Eof)}
      BY <1>9 DEF LinkGoesDown
    <3> QED BY <3>1, <3>2
  <2> QED
    BY <1>9, <2>2 DEF LinkGoesDown, answer
<1> QED
  BY <1>1, <1>2, <1>3, <1>4, <1>5, <1>6, <1>7, <1>8, <1>9
  DEF ServerNext, ServerStep

\* A step of the server leaves the client alone.
LEMMA ServerLeavesClient ==
  ASSUME ServerNext
  PROVE  UNCHANGED client
BY DEF ServerNext, ServerStep, ServerReceives, ServerExecutes,
       ServerAsksResend, ServerSends, ServerInterrupts, ServerBreaks,
       ServerAsksReset, ServerResets, LinkGoesDown

\* The types and the positions are inductive.
LEMMA TypesStep ==
  ASSUME TypeOK, Position, [Next]_vars
  PROVE  TypeOK' /\ Position'
<1> USE DEF TypeOK, Position
<1>1. CASE BeginCall \/ ClientStep
  <2>1. ClientTypeOK' /\ WireTypeOK' /\ CallPosition'
    BY <1>1, ClientTypes
  <2>2. ServerTypeOK' /\ ResponsePosition'
    BY <1>1, ClientLeavesServer DEF server, answer, ServerTypeOK, ResponsePosition
  <2> QED BY <2>1, <2>2
<1>2. CASE ServerNext
  <2>1. ServerTypeOK' /\ WireTypeOK' /\ ResponsePosition'
    BY <1>2, ServerTypes
  <2>2. ClientTypeOK' /\ CallPosition'
    BY <1>2, ServerLeavesClient DEF client, ClientTypeOK, CallPosition
  <2> QED BY <2>1, <2>2
<1>3. CASE UNCHANGED vars
  BY <1>3 DEF vars, client, server, answer, ClientTypeOK, WireTypeOK,
              ServerTypeOK, CallPosition, ResponsePosition
<1> QED
  BY <1>1, <1>2, <1>3 DEF Next, ServerNext, Finished

\* Type correctness of Session.
THEOREM SessionTypes == Spec => [](TypeOK /\ Position)
<1>1. Init => TypeOK /\ Position
  BY InitTypes
<1>2. TypeOK /\ Position /\ [Next]_vars => (TypeOK /\ Position)'
  BY TypesStep
<1> QED
  BY <1>1, <1>2, PTL DEF Spec

-----------------------------------------------------------------------------
(* Chains of packets.                                                      *)

LEMMA ChainAppend ==
  ASSUME NEW s \in Seq(ClientPacket), NEW p \in ClientPacket, Chained(s),
         s # <<>> => Adjoins(s[Len(s)], p)
  PROVE  Chained(Append(s, p))
<1>1. /\ Len(Append(s, p)) = Len(s) + 1 /\ Len(s) \in Nat
      /\ \A i \in 1 .. Len(s) : Append(s, p)[i] = s[i]
      /\ Append(s, p)[Len(s) + 1] = p
  BY AppendProperties
<1>2. SUFFICES ASSUME NEW i \in 1 .. Len(s)
               PROVE  Adjoins(Append(s, p)[i], Append(s, p)[i + 1])
  BY <1>1 DEF Chained
<1>3. CASE i = Len(s)
  BY <1>1, <1>3
<1>4. CASE i # Len(s)
  <2>1. i \in 1 .. Len(s) - 1 /\ i + 1 \in 1 .. Len(s)
    BY <1>1, <1>4
  <2> QED BY <1>1, <2>1 DEF Chained
<1> QED BY <1>3, <1>4

LEMMA ChainConcat ==
  ASSUME NEW s \in Seq(ClientPacket), NEW t \in Seq(ClientPacket),
         Chained(s), Chained(t),
         s # <<>> /\ t # <<>> => Adjoins(s[Len(s)], t[1])
  PROVE  Chained(s \o t)
<1>1. /\ Len(s \o t) = Len(s) + Len(t) /\ Len(s) \in Nat /\ Len(t) \in Nat
      /\ \A i \in 1 .. Len(s) + Len(t) :
           (s \o t)[i] = IF i <= Len(s) THEN s[i] ELSE t[i - Len(s)]
  BY ConcatProperties
<1>2. SUFFICES ASSUME NEW i \in 1 .. Len(s) + Len(t) - 1
               PROVE  Adjoins((s \o t)[i], (s \o t)[i + 1])
  BY <1>1 DEF Chained
<1>3. CASE i < Len(s)
  <2>1. i \in 1 .. Len(s) - 1
    BY <1>1, <1>3
  <2>2. (s \o t)[i] = s[i] /\ (s \o t)[i + 1] = s[i + 1]
    BY <1>1, <1>3
  <2> QED BY <2>1, <2>2 DEF Chained
<1>4. CASE i = Len(s)
  <2>1. (s \o t)[i] = s[Len(s)] /\ (s \o t)[i + 1] = t[1]
    BY <1>1, <1>4
  <2>2. s # <<>> /\ t # <<>>
    BY <1>1, <1>4
  <2> QED BY <2>1, <2>2
<1>5. CASE i > Len(s)
  <2>1. i - Len(s) \in 1 .. Len(t) - 1
    BY <1>1, <1>5
  <2>2. (s \o t)[i] = t[i - Len(s)] /\ (s \o t)[i + 1] = t[(i - Len(s)) + 1]
    BY <1>1, <1>5
  <2> QED BY <2>1, <2>2 DEF Chained
<1> QED BY <1>1, <1>3, <1>4, <1>5

LEMMA ChainTail ==
  ASSUME NEW s \in Seq(ClientPacket), s # <<>>, Chained(s)
  PROVE  /\ Chained(Tail(s))
         /\ Head(s) = s[1]
         /\ Tail(s) # <<>> => /\ Adjoins(s[1], Tail(s)[1])
                              /\ Tail(s)[Len(Tail(s))] = s[Len(s)]
         /\ Tail(s) = <<>> => s[Len(s)] = s[1]
<1>1. /\ Len(Tail(s)) = Len(s) - 1 /\ Len(s) \in Nat \ {0}
      /\ \A i \in 1 .. Len(Tail(s)) : Tail(s)[i] = s[i + 1]
      /\ Tail(s) \in Seq(ClientPacket)
  BY HeadTailProperties, EmptySeq
<1>2. Chained(Tail(s))
  <2>1. SUFFICES ASSUME NEW i \in 1 .. Len(Tail(s)) - 1
                 PROVE  Adjoins(Tail(s)[i], Tail(s)[i + 1])
    BY DEF Chained
  <2>2. i + 1 \in 1 .. Len(s) - 1
    BY <1>1
  <2>3. Tail(s)[i] = s[i + 1] /\ Tail(s)[i + 1] = s[(i + 1) + 1]
    BY <1>1
  <2> QED BY <2>2, <2>3 DEF Chained
<1>3. Head(s) = s[1]
  OBVIOUS
<1>4. ASSUME Tail(s) # <<>>
      PROVE  Adjoins(s[1], Tail(s)[1]) /\ Tail(s)[Len(Tail(s))] = s[Len(s)]
  <2>1. Len(Tail(s)) \in Nat \ {0}
    BY <1>1, <1>4, EmptySeq
  <2>2. 1 \in 1 .. Len(s) - 1 /\ Tail(s)[1] = s[1 + 1]
    BY <1>1, <2>1
  <2>3. Adjoins(s[1], s[1 + 1])
    BY <2>2 DEF Chained
  <2>4. Tail(s)[Len(Tail(s))] = s[Len(s)]
    BY <1>1, <2>1
  <2> QED BY <2>2, <2>3, <2>4
<1>5. Tail(s) = <<>> => Len(s) = 1
  BY <1>1
<1> QED BY <1>2, <1>3, <1>4, <1>5

\* What follows the end of a request begins one.
LEMMA EndThenBegin ==
  ASSUME NEW p, NEW q, Ends(p), Begins(q)
  PROVE  Adjoins(p, q)
BY DEF Adjoins

\* The packet write() sends next goes on where the last one ended.
LEMMA NextSegmentAdjoins ==
  ASSUME TypeOK, Position, pc = "writing"
  PROVE  /\ offset = 0 => Begins(NextSegment)
         /\ \A p \in ClientPacket :
              offset > 0 /\ Precedes(p) => Adjoins(p, NextSegment)
         /\ outBuffer - offset > SegmentLen =>
              /\ NextSegment.size = SegmentLen
              /\ NextSegment.offset = offset
         /\ ~(outBuffer - offset > SegmentLen) => Ends(NextSegment)
         /\ NextSegment.type = "DATA" /\ NextSegment.call = call
         /\ NextSegment.total = outBuffer /\ NextSegment.offset = offset
<1>1. /\ offset \in Nat /\ outBuffer \in Nat /\ offset < outBuffer
      /\ SegmentLen \in Nat
  BY BoundsAssumption DEF TypeOK, ClientTypeOK, Position, CallPosition
<1>2. /\ NextSegment.type = "DATA" /\ NextSegment.call = call
      /\ NextSegment.total = outBuffer /\ NextSegment.offset = offset
      /\ NextSegment.size = Lesser(outBuffer - offset, SegmentLen)
  BY DEF NextSegment
<1>3. ASSUME NEW p \in ClientPacket, Precedes(p)
      PROVE  Adjoins(p, NextSegment)
  <2>1. ~Ends(p)
    BY <1>1, <1>3 DEF Precedes, Ends
  <2> QED BY <1>2, <1>3, <2>1 DEF Adjoins, Precedes
<1> QED
  BY <1>1, <1>2, <1>3 DEF Begins, Ends, Lesser

-----------------------------------------------------------------------------
(* The requests on the wire.                                               *)

Chains == RequestChain /\ WireChain /\ WireEnd /\ SentChain

\* The thread is past write(), inside one of the reads of a call.
InRead(c) == c \in {"reading", "marker", "awaitData"}

\* A step that writes nothing, does not enter write() and enters a read only
\* from a read.
LEMMA QuietStep ==
  ASSUME Chains, UNCHANGED <<sendPcks, toServer, request, phase, link>>,
         pc # "writing", pc' # "writing", InRead(pc') => InRead(pc)
  PROVE  Chains'
BY DEF Chains, RequestChain, WireChain, WireEnd, SentChain, InRead, Chained

\* Putting whole requests or markers on the wire while none is being written.
LEMMA SendWhole ==
  ASSUME TypeOK, Chains, pc # "writing", UNCHANGED <<request, phase, link>>,
         NEW s \in Seq(ClientPacket), Chained(s), s # <<>>,
         Begins(s[1]), Ends(s[Len(s)]), Send(s), pc' # "writing"
  PROVE  RequestChain' /\ WireChain' /\ WireEnd'
<1> USE DEF Chains
<1>1. CASE link # "up"
  BY <1>1 DEF Send, RequestChain, WireChain, WireEnd, Chained
<1>2. CASE link = "up"
  <2>1. toServer' = toServer \o s
    BY <1>2 DEF Send
  <2>2. toServer \in Seq(ClientPacket)
    BY DEF TypeOK, WireTypeOK
  <2>3. /\ toServer # <<>> => Adjoins(toServer[Len(toServer)], s[1])
        /\ toServer = <<>> /\ request # <<>> =>
             Adjoins(request[Len(request)], s[1])
    BY <1>2, EndThenBegin DEF WireEnd
  <2>4. Chained(toServer')
    BY <2>1, <2>2, <2>3, ChainConcat DEF WireChain
  <2>5. /\ Len(toServer') = Len(toServer) + Len(s)
        /\ Len(toServer) \in Nat /\ Len(s) \in Nat \ {0}
        /\ \A i \in 1 .. Len(toServer) + Len(s) : toServer'[i] =
             IF i <= Len(toServer) THEN toServer[i] ELSE s[i - Len(toServer)]
    BY <2>1, <2>2, ConcatProperties, EmptySeq
  <2>6. toServer'[Len(toServer')] = s[Len(s)] /\ toServer' # <<>>
    BY <2>1, <2>2, <2>5, EmptySeq
  <2>7. toServer'[1] = IF toServer = <<>> THEN s[1] ELSE toServer[1]
    <3>1. CASE toServer = <<>>
      BY <2>1, <3>1
    <3>2. CASE toServer # <<>>
      <4>1. Len(toServer) \in Nat \ {0}
        BY <2>2, <3>2, EmptySeq
      <4> QED BY <2>5, <3>2, <4>1
    <3> QED BY <3>1, <3>2
  <2>8. WireChain'
    BY <2>3, <2>4, <2>7 DEF WireChain
  <2>9. WireEnd'
    BY <2>6 DEF WireEnd
  <2> QED
    BY <2>8, <2>9 DEF RequestChain, Chained
<1> QED BY <1>1, <1>2 DEF TypeOK, ServerTypeOK

\* The reset marker by itself.
LEMMA MarkerAlone ==
  /\ <<ResetMarker>> \in Seq(ClientPacket) /\ <<ResetMarker>> # <<>>
  /\ Chained(<<ResetMarker>>) /\ <<ResetMarker>>[Len(<<ResetMarker>>)] = ResetMarker
  /\ <<ResetMarker>>[1] = ResetMarker
  /\ Begins(ResetMarker) /\ Ends(ResetMarker)
BY DEF ClientPacket, Chained, Begins, Ends, ResetMarker

\* write() puts the next segment on the wire.
LEMMA WriteChains ==
  ASSUME TypeOK, Position, Chains, TypeOK', Position', WriteSegment
  PROVE  Chains'
<1>a. pc = "writing" /\ NextSegment \in ClientPacket
  BY NextSegmentType DEF WriteSegment, TypeOK, Position
<1>b. PICK seg \in ClientPacket : seg = NextSegment
  BY <1>a
<1>0. /\ sendPcks' = Append(sendPcks, seg)
      /\ Send(<<seg>>) /\ UNCHANGED <<call, request, phase, link>>
      /\ sendPcks \in Seq(ClientPacket) /\ toServer \in Seq(ClientPacket)
      /\ offset \in Nat /\ outBuffer \in Nat
  BY <1>a, <1>b
  DEF WriteSegment, TypeOK, server, answer, ClientTypeOK, WireTypeOK
<1>1. /\ offset = 0 => Begins(seg)
      /\ \A p \in ClientPacket : offset > 0 /\ Precedes(p) => Adjoins(p, seg)
  BY <1>a, <1>b, NextSegmentAdjoins
<1>2. \/ /\ pc' = "writing" /\ offset' = offset + SegmentLen
         /\ offset' > 0 /\ Precedes(seg)'
      \/ /\ pc' = "reading" /\ offset' = 0 /\ Ends(seg)
  <2>1. CASE outBuffer - offset > SegmentLen
    <3>1. /\ pc' = "writing" /\ offset' = offset + SegmentLen
          /\ outBuffer' = outBuffer
      BY <1>0, <2>1 DEF WriteSegment
    <3>2. /\ seg.type = "DATA" /\ seg.call = call /\ seg.total = outBuffer
          /\ seg.offset = offset /\ seg.size = SegmentLen
      BY <1>a, <1>b, <2>1, NextSegmentAdjoins
    <3>3. Precedes(seg)'
      BY <1>0, <3>1, <3>2 DEF Precedes
    <3>4. offset' > 0
      BY <1>0, <3>1, BoundsAssumption
    <3> QED BY <3>1, <3>3, <3>4
  <2>2. CASE ~(outBuffer - offset > SegmentLen)
    <3>1. Ends(seg)
      BY <1>a, <1>b, <2>2, NextSegmentAdjoins
    <3> QED BY <2>2, <3>1 DEF WriteSegment
  <2> QED BY <2>1, <2>2
<1>3. SentChain'
  <2>1. sendPcks # <<>> => Adjoins(sendPcks[Len(sendPcks)], seg)
    <3>1. ASSUME sendPcks # <<>>
          PROVE  offset > 0 /\ Precedes(sendPcks[Len(sendPcks)])
      BY <1>a, <1>0, <3>1 DEF Chains, SentChain
    <3>2. sendPcks # <<>> => sendPcks[Len(sendPcks)] \in ClientPacket
      BY <1>0
    <3> QED BY <1>1, <3>1, <3>2
  <2>2. Chained(sendPcks')
    BY <1>0, <2>1, ChainAppend DEF Chains, SentChain
  <2>3. /\ sendPcks' # <<>> /\ sendPcks'[Len(sendPcks')] = seg
        /\ sendPcks'[1] = IF sendPcks = <<>> THEN seg ELSE sendPcks[1]
    BY <1>0, AppendProperties
  <2>4. sendPcks = <<>> => Begins(seg)
    BY <1>a, <1>1 DEF Chains, SentChain
  <2>5. Begins(sendPcks'[1])
    BY <2>3, <2>4 DEF Chains, SentChain
  <2> QED BY <1>2, <2>2, <2>3, <2>5 DEF SentChain
<1>4. WireChain' /\ WireEnd'
  <2>1. CASE link # "up"
    BY <1>0, <2>1 DEF Send, Chains, WireChain, WireEnd, Chained
  <2>2. CASE link = "up"
    <3>1. toServer' = Append(toServer, seg)
      BY <1>0, <2>2, AppendIsConcat DEF Send
    <3>2. /\ toServer' # <<>> /\ toServer'[Len(toServer')] = seg
          /\ toServer'[1] = IF toServer = <<>> THEN seg ELSE toServer[1]
      BY <1>0, <3>1, AppendProperties
    <3>3. /\ toServer # <<>> => toServer[Len(toServer)] \in ClientPacket
          /\ request # <<>> => request[Len(request)] \in ClientPacket
      <4>1. request # <<>> => request[Len(request)] \in Segment
        BY LastOfSeq DEF TypeOK, ServerTypeOK
      <4> QED BY <1>0, <4>1 DEF ClientPacket
    <3>4. /\ toServer # <<>> => Adjoins(toServer[Len(toServer)], seg)
          /\ toServer = <<>> /\ request # <<>> =>
               Adjoins(request[Len(request)], seg)
          /\ toServer = <<>> /\ request = <<>> =>
               Begins(seg) \/ phase = "interrupted"
      <4>1. CASE offset > 0
        BY <1>a, <1>1, <2>2, <3>3, <4>1 DEF Chains, WireEnd
      <4>2. CASE offset = 0
        BY <1>a, <1>1, <2>2, <4>2, EndThenBegin DEF Chains, WireEnd
      <4> QED BY <1>0, <4>1, <4>2
    <3>5. Chained(toServer')
      BY <1>0, <3>1, <3>4, ChainAppend DEF Chains, WireChain
    <3>6. WireChain'
      BY <1>0, <3>2, <3>4, <3>5 DEF Chains, WireChain
    <3>7. WireEnd'
      BY <1>2, <3>2 DEF WireEnd
    <3> QED BY <3>6, <3>7
  <2> QED BY <1>0, <2>1, <2>2
<1> QED
  BY <1>0, <1>3, <1>4 DEF Chains, RequestChain, Chained

\* write() fails: the segment is in send_pcks, not on the wire.
LEMMA WriteFailsChains ==
  ASSUME TypeOK, Position, Chains, WriteFails
  PROVE  Chains'
<1>1. /\ pc = "writing" /\ NextSegment \in ClientPacket
      /\ sendPcks' = Append(sendPcks, NextSegment) /\ pc' = "idle"
      /\ UNCHANGED <<toServer, request, phase, link>>
      /\ sendPcks \in Seq(ClientPacket)
      /\ offset \in Nat
  BY NextSegmentType DEF WriteFails, Raise, TypeOK, Position, server, answer, ClientTypeOK
<1>2. /\ offset = 0 => Begins(NextSegment)
      /\ \A p \in ClientPacket : offset > 0 /\ Precedes(p) => Adjoins(p, NextSegment)
  BY <1>1, NextSegmentAdjoins
<1>3. sendPcks # <<>> => Adjoins(sendPcks[Len(sendPcks)], NextSegment)
  <2>1. ASSUME sendPcks # <<>>
        PROVE  offset > 0 /\ Precedes(sendPcks[Len(sendPcks)])
    BY <1>1, <2>1 DEF Chains, SentChain
  <2>2. sendPcks # <<>> => sendPcks[Len(sendPcks)] \in ClientPacket
    BY <1>1
  <2> QED BY <1>2, <2>1, <2>2
<1>4. Chained(sendPcks')
  BY <1>1, <1>3, ChainAppend DEF Chains, SentChain
<1>5. sendPcks'[1] = IF sendPcks = <<>> THEN NextSegment ELSE sendPcks[1]
  BY <1>1, AppendProperties
<1>6. sendPcks = <<>> => Begins(NextSegment)
  BY <1>1, <1>2 DEF Chains, SentChain
<1>7. SentChain'
  BY <1>1, <1>4, <1>5, <1>6 DEF Chains, SentChain
<1>8. link = "up" => offset = 0
  BY <1>1 DEF WriteFails, TypeOK, ServerTypeOK, Position, CallPosition
<1>9. RequestChain' /\ WireChain' /\ WireEnd'
  BY <1>1, <1>8 DEF Chains, RequestChain, WireChain, WireEnd, Chained
<1> QED BY <1>7, <1>9 DEF Chains

\* The answer to a reset marker.
LEMMA AcknowledgeChains ==
  ASSUME TypeOK, Position, Chains, AcknowledgeReset, pc # "writing"
  PROVE  Chains'
<1>1. /\ sendPcks' = <<ResetMarker>> /\ UNCHANGED <<request, phase, link>>
      /\ pc' \in {"awaitData", "idle"}
      /\ \/ Send(<<ResetMarker>>)
         \/ UNCHANGED toServer
  BY DEF AcknowledgeReset, Raise, server, answer
<1>2. SentChain'
  BY <1>1, MarkerAlone DEF SentChain
<1>3. CASE Send(<<ResetMarker>>)
  BY <1>1, <1>2, <1>3, MarkerAlone, SendWhole DEF Chains
<1>4. CASE UNCHANGED toServer
  BY <1>1, <1>2, <1>4 DEF Chains, RequestChain, WireChain, WireEnd, Chained
<1> QED BY <1>1, <1>3, <1>4

\* The client reads a RESEND packet.
LEMMA ResendChains ==
  ASSUME TypeOK, Position, Chains, ReadResend
  PROVE  Chains'
<1>1. pc = "reading" /\ UNCHANGED <<request, phase, link>>
  BY DEF ReadResend, server, answer
<1>2. CASE Send(sendPcks) /\ UNCHANGED client
  <2>1. UNCHANGED <<pc, offset, sendPcks, outBuffer, call>>
    BY <1>2 DEF client
  <2>2. SentChain'
    BY <2>1 DEF Chains, SentChain, Chained, Precedes
  <2>3. /\ sendPcks \in Seq(ClientPacket) /\ sendPcks # <<>> /\ Chained(sendPcks)
        /\ Begins(sendPcks[1]) /\ Ends(sendPcks[Len(sendPcks)])
    BY <1>1 DEF TypeOK, ClientTypeOK, Chains, SentChain
  <2>4. RequestChain' /\ WireChain' /\ WireEnd'
    BY <1>1, <1>2, <2>1, <2>3, SendWhole
  <2> QED BY <2>2, <2>4 DEF Chains
<1>3. CASE /\ Raise(conn)
           /\ UNCHANGED <<call, outBuffer, offset, sendPcks, inBuffer, got,
                          toServer>>
  BY <1>1, <1>3, QuietStep DEF Raise, InRead
<1> QED BY <1>2, <1>3 DEF ReadResend

\* Every step of the client keeps the chains.
LEMMA ClientChains ==
  ASSUME TypeOK, Position, Chains, TypeOK', Position', BeginCall \/ ClientStep
  PROVE  Chains'
<1>1. CASE BeginCall
  <2>1. /\ pc = "idle" /\ pc' = "writing" /\ offset' = 0 /\ sendPcks' = <<>>
        /\ UNCHANGED <<toServer, request, phase, link>>
    BY <1>1 DEF BeginCall, ResetBuffer, server, answer
  <2>2. SentChain'
    BY <2>1 DEF SentChain, Chained
  <2>3. RequestChain' /\ WireChain' /\ WireEnd'
    BY <2>1 DEF Chains, RequestChain, WireChain, WireEnd, Chained
  <2> QED BY <2>2, <2>3 DEF Chains
<1>2. CASE WriteSegment
  BY <1>2, WriteChains
<1>3. CASE WriteFails
  BY <1>3, WriteFailsChains
<1>4. CASE TakeBytes \/ ReadCode \/ UnknownCode \/ DecodeFails
  BY <1>4, QuietStep
  DEF TakeBytes, ReadCode, UnknownCode, DecodeFails, Raise, InRead, server,
      answer
<1>5. CASE ReadBody
  <2>1. pc = "reading" /\ pc' \in {"idle", "reading"}
        /\ UNCHANGED <<sendPcks, toServer, request, phase, link>>
    BY <1>5, Zenon DEF ReadBody, server, answer
  <2> QED BY <2>1, QuietStep DEF InRead
<1>6. CASE ReadData \/ ReadEof \/ AwaitData
  BY <1>6, QuietStep DEF ReadData, ReadEof, AwaitData, Raise, InRead, server, answer
<1>7. CASE ReadResend
  BY <1>7, ResendChains
<1>8. CASE ReadMarker
  <2>1. CASE AcknowledgeReset
    BY <1>8, <2>1, AcknowledgeChains DEF ReadMarker
  <2>2. CASE ~AcknowledgeReset
    BY <1>8, <2>2, QuietStep DEF ReadMarker, InRead, server, answer
  <2> QED BY <2>1, <2>2
<1>9. CASE ReadNextMarker
  <2>1. CASE AcknowledgeReset
    BY <1>9, <2>1, AcknowledgeChains DEF ReadNextMarker
  <2>2. CASE ~AcknowledgeReset
    BY <1>9, <2>2, QuietStep DEF ReadNextMarker, InRead, server, answer
  <2> QED BY <2>1, <2>2
<1>10. CASE TooManyTrials \/ WrongPacket \/ ReadTimesOut \/ ReadFails
  BY <1>10, QuietStep
  DEF TooManyTrials, WrongPacket, ReadTimesOut, ReadFails, Waiting, Raise, InRead,
      server, answer
<1> QED
  BY <1>1, <1>2, <1>3, <1>4, <1>5, <1>6, <1>7, <1>8, <1>9, <1>10 DEF ClientStep

\* The server takes a segment into the request.
LEMMA ReceivesChains ==
  ASSUME TypeOK, Position, Chains, ServerReceives
  PROVE  Chains'
<1>1. /\ toServer # <<>> /\ toServer \in Seq(ClientPacket) /\ phase = "receiving"
      /\ toServer' = Tail(toServer) /\ request' = Append(request, toServer[1])
      /\ request \in Seq(Segment) /\ toServer[1] \in Segment
      /\ UNCHANGED <<client, link, phase>>
  <2>1. toServer # <<>> /\ toServer \in Seq(ClientPacket)
    BY DEF ServerReceives, TypeOK, WireTypeOK
  <2>2. Head(toServer) = toServer[1] /\ toServer[1] \in ClientPacket
    BY <2>1, EmptySeq
  <2>3. toServer[1].type = "DATA" /\ ResetMarker.type = "MARKER"
    BY <2>2 DEF ServerReceives, ResetMarker
  <2>4. toServer[1] \in Segment
    BY <2>2, <2>3 DEF ClientPacket
  <2> QED
    BY <2>1, <2>2, <2>4 DEF ServerReceives, TypeOK, ServerTypeOK
<1>2. /\ Len(request') = Len(request) + 1 /\ Len(request) \in Nat
      /\ \A i \in 1 .. Len(request) : request'[i] = request[i]
      /\ request'[Len(request) + 1] = toServer[1]
      /\ request' # <<>>
  BY <1>1, AppendProperties
<1>3. request # <<>> => /\ ~Ends(request[Len(request)])
                        /\ Adjoins(request[Len(request)], toServer[1])
  <2>1. request # <<>> => request[Len(request)] \in Segment
    BY <1>1
  <2>2. request # <<>> => ~Ends(request[Len(request)])
    BY <2>1 DEF ServerReceives, RequestComplete, Ends, Segment
  <2> QED BY <1>1, <2>2 DEF Chains, WireChain
<1>4. RequestChain'
  <2>1. request # <<>> => Len(request) \in Nat \ {0}
    BY <1>1, EmptySeq
  <2>2. request' # <<>> => Begins(request'[1])
    <3>1. CASE request = <<>>
      BY <1>1, <1>2, <3>1 DEF Chains, WireChain
    <3>2. CASE request # <<>>
      BY <1>2, <2>1, <3>2 DEF Chains, RequestChain
    <3> QED BY <3>1, <3>2
  <2>3. ASSUME NEW i \in 1 .. Len(request') - 1
        PROVE  ~Ends(request'[i]) /\ Adjoins(request'[i], request'[i + 1])
    <3>1. CASE i = Len(request)
      <4>1. request # <<>>
        BY <1>1, <1>2, <2>3, <3>1
      <4> QED BY <1>2, <1>3, <2>3, <3>1, <4>1
    <3>2. CASE i # Len(request)
      <4>1. i \in 1 .. Len(request) - 1 /\ i + 1 \in 1 .. Len(request)
        BY <1>2, <2>3, <3>2
      <4> QED BY <1>2, <4>1 DEF Chains, RequestChain, Chained
    <3> QED BY <3>1, <3>2
  <2> QED BY <2>2, <2>3 DEF RequestChain, Chained
<1>5. WireChain'
  BY <1>1, <1>2, ChainTail DEF Chains, WireChain
<1>6. WireEnd'
  BY <1>1, <1>2, ChainTail DEF Chains, WireChain, WireEnd, client, Precedes
<1>7. SentChain'
  BY <1>1 DEF Chains, SentChain, client, Chained, Precedes
<1> QED BY <1>4, <1>5, <1>6, <1>7 DEF Chains

\* The server is done with a complete request, executing it or not.
LEMMA RequestDone ==
  ASSUME TypeOK, Position, Chains, RequestComplete, phase = "receiving",
         request' = <<>>, UNCHANGED <<client, toServer, link>>
  PROVE  Chains'
<1>1. /\ request # <<>> /\ request[Len(request)] \in Segment
      /\ Ends(request[Len(request)])
  BY DEF RequestComplete, Ends, TypeOK, ServerTypeOK
<1>2. toServer # <<>> => Begins(toServer[1])
  BY <1>1 DEF Chains, WireChain, Adjoins
<1>3. ~Precedes(request[Len(request)]) \/ pc # "writing"
  <2>1. pc = "writing" => offset < outBuffer /\ offset \in Nat /\ outBuffer \in Nat
    BY DEF Position, CallPosition, TypeOK, ClientTypeOK
  <2> QED BY <1>1, <2>1 DEF Precedes, Ends, Segment
<1>4. RequestChain'
  BY DEF RequestChain, Chained
<1>5. WireChain'
  BY <1>2 DEF Chains, WireChain, Chained
<1>6. WireEnd'
  BY <1>1, <1>3 DEF Chains, WireEnd, client, Precedes
<1>7. SentChain'
  BY DEF Chains, SentChain, client, Chained, Precedes
<1> QED BY <1>4, <1>5, <1>6, <1>7 DEF Chains

\* The server, interrupted, takes a packet off the wire.
LEMMA ResetsChains ==
  ASSUME TypeOK, Position, Chains, ServerResets
  PROVE  Chains'
<1>1. /\ toServer # <<>> /\ toServer \in Seq(ClientPacket)
      /\ toServer' = Tail(toServer) /\ phase = "interrupted" /\ request = <<>>
      /\ UNCHANGED <<client, link, request>>
      /\ toServer[1] # ResetMarker => phase' = phase
      /\ toServer[1] \in ClientPacket
  BY EmptySeq DEF ServerResets, TypeOK, WireTypeOK, Position, ResponsePosition
<1>2. /\ Chained(toServer')
      /\ toServer' # <<>> => /\ Adjoins(toServer[1], toServer'[1])
                             /\ toServer'[Len(toServer')] = toServer[Len(toServer)]
      /\ toServer' = <<>> => toServer[Len(toServer)] = toServer[1]
  BY <1>1, ChainTail DEF Chains, WireChain
<1>3. WireChain'
  <2>1. CASE toServer[1] = ResetMarker
    BY <1>1, <1>2, <2>1, MarkerAlone DEF WireChain, Adjoins
  <2>2. CASE toServer[1] # ResetMarker
    BY <1>1, <1>2, <2>2 DEF WireChain
  <2> QED BY <2>1, <2>2
<1>4. WireEnd'
  <2>1. CASE toServer' # <<>>
    BY <1>1, <1>2, <2>1 DEF Chains, WireEnd, client, Precedes
  <2>2. CASE toServer' = <<>>
    <3>1. ~Precedes(ResetMarker)
      BY DEF Precedes, ResetMarker
    <3> QED
      BY <1>1, <1>2, <2>2, <3>1 DEF Chains, WireEnd, client
  <2> QED BY <2>1, <2>2
<1>5. RequestChain' /\ SentChain'
  BY <1>1 DEF Chains, RequestChain, SentChain, client, Chained, Precedes
<1> QED BY <1>3, <1>4, <1>5 DEF Chains

\* Every step of the server keeps the chains.
LEMMA ServerChains ==
  ASSUME TypeOK, Position, Chains, ServerNext
  PROVE  Chains'
<1>1. CASE ServerReceives
  BY <1>1, ReceivesChains
<1>2. CASE ServerExecutes \/ ServerAsksResend
  BY <1>2, RequestDone DEF ServerExecutes, ServerAsksResend
<1>3. CASE ServerResets
  BY <1>3, ResetsChains
<1>4. CASE ServerSends \/ ServerInterrupts \/ ServerBreaks \/ ServerAsksReset
  <2>1. /\ UNCHANGED <<client, toServer, link, request>> /\ request = <<>>
        /\ phase # "interrupted"
    BY <1>4 DEF ServerSends, ServerInterrupts, ServerBreaks, ServerAsksReset,
                Position, ResponsePosition
  <2> QED
    BY <2>1 DEF Chains, RequestChain, WireChain, WireEnd, SentChain, client,
                Chained, Precedes
<1>5. CASE LinkGoesDown
  <2>1. UNCHANGED <<client, toServer, request, phase>> /\ link' = "down"
    BY <1>5 DEF LinkGoesDown, answer
  <2> QED
    BY <2>1 DEF Chains, RequestChain, WireChain, WireEnd, SentChain, client,
                Chained, Precedes
<1> QED
  BY <1>1, <1>2, <1>3, <1>4, <1>5 DEF ServerNext, ServerStep

\* WireInv, with the types, is inductive.
LEMMA WireStep ==
  ASSUME TypeOK, WireInv, [Next]_vars
  PROVE  TypeOK' /\ WireInv'
<1>1. Position /\ Chains
  BY DEF WireInv, Chains
<1>2. TypeOK' /\ Position'
  BY <1>1, TypesStep
<1>3. CASE BeginCall \/ ClientStep
  BY <1>1, <1>2, <1>3, ClientChains DEF WireInv, Chains
<1>4. CASE ServerNext
  BY <1>1, <1>2, <1>4, ServerChains DEF WireInv, Chains
<1>5. CASE UNCHANGED vars
  BY <1>2, <1>5
  DEF vars, client, server, answer, WireInv, RequestChain, WireChain, WireEnd,
      SentChain, Chained, Precedes
<1> QED
  BY <1>3, <1>4, <1>5 DEF Next, ServerNext, Finished

\* What WireInv says of the wire and of send_pcks holds of every behaviour.
THEOREM SessionWire == Spec => [](TypeOK /\ WireInv)
<1>1. Init => TypeOK /\ WireInv
  <2>1. Init => TypeOK /\ Position
    BY InitTypes
  <2>2. Init => RequestChain /\ WireChain /\ WireEnd /\ SentChain
    BY DEF Init, RequestChain, WireChain, WireEnd, SentChain, Chained
  <2> QED BY <2>1, <2>2 DEF WireInv
<1>2. TypeOK /\ WireInv /\ [Next]_vars => (TypeOK /\ WireInv)'
  BY WireStep
<1> QED
  BY <1>1, <1>2, PTL DEF Spec

\* The server puts every request together from exactly its segments: none of
\* an earlier call, none twice, none missing, whatever RESEND packets,
\* interrupts, failures of calls and losses of the link there are.
THEOREM RequestsIntact == Spec => []RequestIntact
<1>1. TypeOK /\ WireInv => RequestIntact
  <2>1. SUFFICES ASSUME TypeOK, WireInv, NEW i \in DOMAIN request
                 PROVE  IF i = 1 THEN request[i].offset = 0
                        ELSE /\ request[i].call = request[i - 1].call
                             /\ request[i].total = request[i - 1].total
                             /\ request[i].offset =
                                  request[i - 1].offset + request[i - 1].size
    BY DEF RequestIntact
  <2>2. /\ request \in Seq(Segment) /\ i \in 1 .. Len(request)
        /\ Len(request) \in Nat /\ request # <<>>
    BY <2>1 DEF TypeOK, ServerTypeOK
  <2>3. request[i] \in Segment
    BY <2>2
  <2>4. request[i].type = "DATA"
    BY <2>3 DEF Segment
  <2>5. CASE i = 1
    BY <2>1, <2>2, <2>4, <2>5 DEF WireInv, RequestChain, Begins
  <2>6. CASE i # 1
    <3>1. i - 1 \in 1 .. Len(request) - 1 /\ (i - 1) + 1 = i
      BY <2>2, <2>6
    <3>2. ~Ends(request[i - 1]) /\ Adjoins(request[i - 1], request[i])
      BY <2>1, <3>1 DEF WireInv, RequestChain, Chained
    <3> QED BY <2>6, <3>2 DEF Adjoins
  <2> QED BY <2>5, <2>6
<1> QED
  BY <1>1, SessionWire, PTL

-----------------------------------------------------------------------------
(* Sequences.                                                              *)

\* What Tail leaves.
LEMMA TailElements ==
  ASSUME NEW S, NEW s \in Seq(S), s # <<>>
  PROVE  /\ Tail(s) \in Seq(S) /\ Head(s) = s[1] /\ 1 \in DOMAIN s
         /\ Len(Tail(s)) = Len(s) - 1 /\ Len(s) \in Nat \ {0}
         /\ DOMAIN s = 1 .. Len(s) /\ DOMAIN Tail(s) = 1 .. Len(s) - 1
         /\ \A i \in DOMAIN Tail(s) : i + 1 \in DOMAIN s /\ Tail(s)[i] = s[i + 1]
BY HeadTailProperties, EmptySeq, LenProperties

\* What Append adds.
LEMMA AppendElements ==
  ASSUME NEW S, NEW s \in Seq(S), NEW e \in S
  PROVE  /\ Append(s, e) \in Seq(S) /\ Append(s, e) # <<>>
         /\ Len(s) \in Nat /\ Len(Append(s, e)) = Len(s) + 1
         /\ DOMAIN s = 1 .. Len(s)
         /\ DOMAIN Append(s, e) = 1 .. Len(s) + 1
         /\ \A i \in DOMAIN s : Append(s, e)[i] = s[i]
         /\ Append(s, e)[Len(s) + 1] = e
BY AppendProperties, LenProperties

\* An element of what Append makes is an old one or the new one.
LEMMA AppendedCases ==
  ASSUME NEW S, NEW s \in Seq(S), NEW e \in S
  PROVE  \A i \in DOMAIN Append(s, e) :
           \/ i \in DOMAIN s /\ Append(s, e)[i] = s[i]
           \/ i = Len(s) + 1 /\ Append(s, e)[i] = e
BY AppendElements

\* What \o joins.
LEMMA ConcatElements ==
  ASSUME NEW S, NEW s \in Seq(S), NEW t \in Seq(S)
  PROVE  /\ s \o t \in Seq(S)
         /\ Len(s) \in Nat /\ Len(t) \in Nat /\ Len(s \o t) = Len(s) + Len(t)
         /\ DOMAIN s = 1 .. Len(s) /\ DOMAIN t = 1 .. Len(t)
         /\ DOMAIN (s \o t) = 1 .. Len(s) + Len(t)
         /\ \A i \in DOMAIN s : (s \o t)[i] = s[i]
         /\ \A i \in DOMAIN t : (s \o t)[Len(s) + i] = t[i]
         /\ \A i \in Len(s) + 1 .. Len(s) + Len(t) :
              i - Len(s) \in DOMAIN t /\ (s \o t)[i] = t[i - Len(s)]
BY ConcatProperties, LenProperties

\* Four sequences, the middle ones taken together or not, come to the same.
Regrouped(a, b, c, d) == (a \o (b \o c)) \o d = (a \o b) \o (c \o d)

\* They always do.
LEMMA Regroup ==
  ASSUME NEW S, NEW a \in Seq(S), NEW b \in Seq(S), NEW c \in Seq(S),
         NEW d \in Seq(S)
  PROVE  Regrouped(a, b, c, d)
<1> DEFINE u == (a \o (b \o c)) \o d
           v == (a \o b) \o (c \o d)
<1>1. /\ u \in Seq(S) /\ v \in Seq(S) /\ Len(u) = Len(v)
      /\ \A i \in 1 .. Len(u) : u[i] = v[i]
  BY ConcatProperties
<1> HIDE DEF u, v
<1>2. u = v
  BY <1>1, SeqEqual
<1> QED BY <1>2 DEF u, v, Regrouped

\* A sequence without elements is empty.
LEMMA NoElement ==
  ASSUME NEW S, NEW s \in Seq(S), \A i \in DOMAIN s : FALSE
  PROVE  s = <<>>
<1>1. Len(s) \in Nat /\ DOMAIN s = 1 .. Len(s)
  BY LenProperties
<1>2. Len(s) = 0
  BY <1>1
<1> QED BY <1>2, EmptySeq

-----------------------------------------------------------------------------
(* Reset markers.                                                          *)

\* A reset marker of an interrupt is either the last packet on its way to the
\* client or on its way back; a client that would send one again gets nothing
\* that makes it send, until its next call.
MarkersExpected ==
  link = "up" =>
    /\ \A i \in DOMAIN toClient : toClient[i] = ResetMarker =>
         /\ phase = "interrupted" /\ i = Len(toClient)
         /\ \A j \in DOMAIN toServer : toServer[j] # ResetMarker
    /\ \A i \in DOMAIN sendPcks : sendPcks[i] = ResetMarker =>
         /\ pc # "writing" /\ request = <<>>
         /\ \A j \in DOMAIN toClient : toClient[j] # Resend
         /\ toServer # <<>> => toServer[Len(toServer)] = ResetMarker

ResetInv == ResetExpected /\ MarkersExpected

\* The kinds of packets differ.
LEMMA PacketsDiffer ==
  /\ Resend # ResetMarker /\ Resend # BreakMarker /\ ResetMarker # BreakMarker
  /\ \A b : /\ Data(b) # ResetMarker /\ Data(b) # BreakMarker
            /\ Data(b) # Resend /\ Data(b) # Eof
  /\ Eof # ResetMarker /\ Eof # BreakMarker /\ Eof # Resend
<1>1. /\ Resend.type = "RESEND" /\ ResetMarker.type = "MARKER"
      /\ BreakMarker.type = "MARKER" /\ Eof.type = "DATA"
      /\ ResetMarker.data = "reset" /\ BreakMarker.data = "break"
  BY DEF Resend, ResetMarker, BreakMarker, Eof
<1>2. \A b : Data(b).type = "DATA" /\ Data(b).eof = FALSE
  BY DEF Data
<1>3. Eof.eof = TRUE
  BY DEF Eof
<1>4. \A b : Data(b) # Eof
  BY <1>2, <1>3
<1> QED BY <1>1, <1>2, <1>4

\* A segment is no marker.
LEMMA SegmentNoMarker == \A p \in Segment : p # ResetMarker
BY DEF Segment, ResetMarker

\* A step that leaves alone what the markers depend on, or takes a packet
\* from the server.
LEMMA ReceiveResets ==
  ASSUME TypeOK, ResetInv, UNCHANGED <<sendPcks, toServer, server>>,
         toClient' = toClient \/ Receive, pc' # "writing"
  PROVE  ResetInv'
<1> USE DEF ResetInv, ResetExpected, MarkersExpected, server, answer
<1>1. CASE toClient' = toClient
  BY <1>1
<1>2. CASE Receive
  <2>1. /\ Len(toClient') = Len(toClient) - 1
        /\ \A i \in DOMAIN toClient' : /\ i \in Nat /\ i + 1 \in DOMAIN toClient
                                       /\ toClient'[i] = toClient[i + 1]
    BY <1>2, TailElements DEF Receive, TypeOK, WireTypeOK
  <2>2. ResetExpected'
    OBVIOUS
  <2>3. ASSUME link = "up", NEW i \in DOMAIN toClient', toClient'[i] = ResetMarker
        PROVE  /\ phase = "interrupted" /\ i = Len(toClient')
               /\ \A j \in DOMAIN toServer : toServer[j] # ResetMarker
    <3>1. /\ phase = "interrupted" /\ i + 1 = Len(toClient)
          /\ \A j \in DOMAIN toServer : toServer[j] # ResetMarker
      BY <2>1, <2>3
    <3> QED BY <2>1, <3>1
  <2> QED BY <2>1, <2>2, <2>3
<1> QED BY <1>1, <1>2

\* write() puts segments on the wire, and in send_pcks.
LEMMA WriteResets ==
  ASSUME TypeOK, Position, ResetInv, pc = "writing",
         sendPcks' = Append(sendPcks, NextSegment),
         toServer' = toServer \/ toServer' = Append(toServer, NextSegment),
         UNCHANGED <<toClient, server>>
  PROVE  ResetInv'
<1> USE DEF ResetInv, ResetExpected, MarkersExpected, server, answer
<1>1. NextSegment \in ClientPacket /\ NextSegment # ResetMarker
  BY NextSegmentType, SegmentNoMarker DEF TypeOK, Position
<1>2. /\ sendPcks \in Seq(ClientPacket) /\ toServer \in Seq(ClientPacket)
  BY DEF TypeOK, ClientTypeOK, WireTypeOK
<1>3. ASSUME link = "up", NEW i \in DOMAIN sendPcks'
      PROVE  sendPcks'[i] # ResetMarker
  <2>1. \/ i \in DOMAIN sendPcks /\ sendPcks'[i] = sendPcks[i]
        \/ sendPcks'[i] = NextSegment
    BY <1>1, <1>2, AppendElements
  <2> QED BY <1>1, <1>3, <2>1
<1>4. \A i \in DOMAIN toServer' : toServer'[i] = ResetMarker =>
         i \in DOMAIN toServer /\ toServer[i] = ResetMarker
  <2>1. CASE toServer' = toServer
    BY <2>1
  <2>2. CASE toServer' = Append(toServer, NextSegment)
    BY <1>1, <1>2, <2>2, AppendElements
  <2> QED BY <2>1, <2>2
<1>5. ResetExpected'
  BY <1>4
<1> QED BY <1>3, <1>4, <1>5

\* The client answers the reset marker with one of its own.
LEMMA AcknowledgeResets ==
  ASSUME TypeOK, Position, ResetInv, Receive, Packet = ResetMarker,
         AcknowledgeReset
  PROVE  ResetInv'
<1> USE DEF ResetInv, ResetExpected, MarkersExpected
<1>1. /\ toClient \in Seq(ServerPacket) /\ toClient # <<>>
      /\ toServer \in Seq(ClientPacket) /\ ResetMarker \in ClientPacket
  BY DEF TypeOK, WireTypeOK, Receive, ClientPacket
<1>2. 1 \in DOMAIN toClient /\ toClient[1] = ResetMarker
  BY <1>1, TailElements DEF Packet
<1>3. UNCHANGED server /\ sendPcks' = <<ResetMarker>> /\ pc' # "writing"
  BY DEF AcknowledgeReset, Raise
<1>4. CASE link = "up"
  <2>1. /\ phase = "interrupted" /\ Len(toClient) = 1
        /\ \A j \in DOMAIN toServer : toServer[j] # ResetMarker
    BY <1>2, <1>4
  <2>2. toClient' = <<>>
    BY <1>1, <2>1, TailElements, NoElement DEF Receive
  <2>3. request = <<>>
    BY <2>1 DEF Position, ResponsePosition
  <2>4. toServer' = Append(toServer, ResetMarker)
    <3>1. toServer' = toServer \o <<ResetMarker>>
      BY <1>4 DEF AcknowledgeReset, Send
    <3> QED BY <1>1, <3>1
  <2>5. /\ DOMAIN toServer' = 1 .. Len(toServer) + 1 /\ Len(toServer) \in Nat
        /\ Len(toServer') = Len(toServer) + 1
        /\ \A i \in 1 .. Len(toServer) :
             toServer'[i] = toServer[i] /\ i \in DOMAIN toServer
        /\ toServer'[Len(toServer) + 1] = ResetMarker
    BY <1>1, <2>4, AppendElements
  <2>6. \A i \in DOMAIN toServer' : toServer'[i] = ResetMarker => i = Len(toServer) + 1
    BY <2>1, <2>5
  <2>7. ResetExpected'
    BY <1>3, <2>1, <2>6 DEF server, answer
  <2>8. \A i \in DOMAIN toClient' : FALSE
    BY <2>2
  <2> QED
    BY <1>3, <1>4, <2>2, <2>3, <2>5, <2>7, <2>8 DEF server, answer
<1>5. CASE link # "up"
  <2>1. UNCHANGED <<toServer, server>>
    BY <1>5 DEF AcknowledgeReset, Send
  <2> QED BY <1>5, <2>1 DEF server, answer
<1> QED BY <1>4, <1>5

\* The requests a RESEND makes the client send again hold no marker.
LEMMA ResendResets ==
  ASSUME TypeOK, ResetInv, Receive, Packet = Resend, Send(sendPcks),
         UNCHANGED <<client, server>>
  PROVE  ResetInv'
<1> USE DEF ResetInv, ResetExpected, MarkersExpected
<1>1. /\ toClient \in Seq(ServerPacket) /\ toClient # <<>>
      /\ toServer \in Seq(ClientPacket) /\ sendPcks \in Seq(ClientPacket)
  BY DEF TypeOK, WireTypeOK, ClientTypeOK, Receive
<1>2. /\ 1 \in DOMAIN toClient /\ toClient[1] = Resend
      /\ Len(toClient') = Len(toClient) - 1
      /\ \A i \in DOMAIN toClient' : /\ i \in Nat /\ i + 1 \in DOMAIN toClient
                                     /\ toClient'[i] = toClient[i + 1]
  BY <1>1, TailElements DEF Packet, Receive
<1>3. CASE link = "up"
  <2>1. \A i \in DOMAIN sendPcks : sendPcks[i] # ResetMarker
    BY <1>2, <1>3
  <2>2. toServer' = toServer \o sendPcks
    BY <1>3 DEF Send
  <2>3. \A i \in DOMAIN toServer' : toServer'[i] = ResetMarker =>
           i \in DOMAIN toServer /\ toServer[i] = ResetMarker
    <3>1. SUFFICES ASSUME NEW i \in DOMAIN toServer', toServer'[i] = ResetMarker
                   PROVE  i \in DOMAIN toServer /\ toServer[i] = ResetMarker
      OBVIOUS
    <3>2. /\ DOMAIN toServer' = 1 .. Len(toServer) + Len(sendPcks)
          /\ Len(toServer) \in Nat /\ Len(sendPcks) \in Nat
          /\ DOMAIN toServer = 1 .. Len(toServer)
          /\ \A k \in DOMAIN toServer : toServer'[k] = toServer[k]
          /\ \A k \in Len(toServer) + 1 .. Len(toServer) + Len(sendPcks) :
               k - Len(toServer) \in DOMAIN sendPcks
               /\ toServer'[k] = sendPcks[k - Len(toServer)]
      BY <1>1, <2>2, ConcatElements
    <3>3. i \in DOMAIN toServer
      BY <2>1, <3>1, <3>2
    <3> QED BY <3>1, <3>2, <3>3
  <2>4. ResetExpected'
    BY <2>3 DEF server, answer
  <2>5. ASSUME NEW i \in DOMAIN toClient', toClient'[i] = ResetMarker
        PROVE  /\ phase = "interrupted" /\ i = Len(toClient')
               /\ \A j \in DOMAIN toServer' : toServer'[j] # ResetMarker
    <3>1. /\ phase = "interrupted" /\ i + 1 = Len(toClient)
          /\ \A j \in DOMAIN toServer : toServer[j] # ResetMarker
      BY <1>2, <1>3, <2>5
    <3> QED BY <1>2, <2>3, <3>1
  <2> QED
    BY <2>1, <2>4, <2>5 DEF server, answer, client
<1>4. CASE link # "up"
  BY <1>4 DEF Send, server, answer, client
<1> QED BY <1>3, <1>4

\* Every step of the client keeps the markers expected.
LEMMA ClientResets ==
  ASSUME TypeOK, Position, ResetInv, BeginCall \/ ClientStep
  PROVE  ResetInv'
<1> USE DEF client, vars
<1>a. UNCHANGED server
  BY ClientLeavesServer
<1>1. CASE BeginCall
  BY <1>1 DEF BeginCall, ResetBuffer, ResetInv, ResetExpected, MarkersExpected,
              server, answer
<1>2. CASE WriteSegment
  <2>1. <<NextSegment>> \in Seq(ClientPacket) /\ NextSegment \in ClientPacket
    BY <1>2, NextSegmentType DEF WriteSegment, TypeOK, Position
  <2>2. toServer' = toServer \/ toServer' = toServer \o <<NextSegment>>
    BY <1>2 DEF WriteSegment, Send
  <2>3. toServer \o <<NextSegment>> = Append(toServer, NextSegment)
    BY <2>1 DEF TypeOK, WireTypeOK
  <2> QED BY <1>a, <1>2, <2>2, <2>3, WriteResets DEF WriteSegment
<1>3. CASE WriteFails
  BY <1>a, <1>3, WriteResets DEF WriteFails
<1>4. CASE ReadResend
  <2>1. CASE Send(sendPcks) /\ UNCHANGED client
    BY <1>a, <1>4, <2>1, ResendResets DEF ReadResend
  <2>2. CASE Raise(conn) /\ UNCHANGED <<call, outBuffer, offset, sendPcks,
                                        inBuffer, got, toServer>>
    BY <1>a, <1>4, <2>2, ReceiveResets DEF ReadResend, Raise
  <2> QED BY <1>4, <2>1, <2>2 DEF ReadResend
<1>5. CASE ReadMarker
  BY <1>a, <1>5, AcknowledgeResets, ReceiveResets DEF ReadMarker
<1>6. CASE ReadNextMarker
  BY <1>a, <1>6, AcknowledgeResets, ReceiveResets DEF ReadNextMarker
<1>7. CASE TakeBytes \/ ReadCode \/ UnknownCode \/ ReadBody \/ DecodeFails
           \/ ReadData \/ ReadEof \/ TooManyTrials \/ AwaitData \/ WrongPacket
           \/ ReadTimesOut \/ ReadFails
  <2>1. /\ UNCHANGED <<sendPcks, toServer>> /\ pc' # "writing"
        /\ toClient' = toClient \/ Receive
    BY <1>7 DEF TakeBytes, ReadCode, UnknownCode, ReadBody, DecodeFails,
                ReadData, ReadEof, TooManyTrials, AwaitData, WrongPacket,
                ReadTimesOut, ReadFails, Raise
  <2> QED BY <1>a, <2>1, ReceiveResets
<1> QED
  BY <1>1, <1>2, <1>3, <1>4, <1>5, <1>6, <1>7 DEF ClientStep

\* Outside an interrupt no reset marker is on its way; inside one, the markers
\* of the client go when the server takes the first.
LEMMA ServerResetsMarkers ==
  ASSUME TypeOK, ResetInv, ServerResets
  PROVE  ResetInv'
<1> USE DEF ResetInv, ResetExpected, MarkersExpected
<1>1. toServer \in Seq(ClientPacket) /\ toServer # <<>> /\ toServer' = Tail(toServer)
      /\ link = "up" /\ UNCHANGED <<client, toClient, link, request>>
      /\ phase = "interrupted"
  BY DEF TypeOK, WireTypeOK, ServerResets
<1>2. /\ 1 \in DOMAIN toServer /\ Head(toServer) = toServer[1]
      /\ DOMAIN toServer = 1 .. Len(toServer) /\ Len(toServer) \in Nat \ {0}
      /\ Len(toServer') = Len(toServer) - 1 /\ toServer' \in Seq(ClientPacket)
      /\ \A i \in DOMAIN toServer' : /\ i \in Nat \ {0} /\ i + 1 \in DOMAIN toServer
                                     /\ toServer'[i] = toServer[i + 1]
  BY <1>1, TailElements
<1>3. UNCHANGED <<sendPcks, pc>>
  BY <1>1 DEF client
<1>4. CASE Head(toServer) = ResetMarker
  <2>1. \A i \in DOMAIN toServer : toServer[i] = ResetMarker => i = 1
    BY <1>2, <1>4
  <2>2. \A i \in DOMAIN toServer' : toServer'[i] # ResetMarker
    BY <1>2, <2>1
  <2>3. \A i \in DOMAIN toClient : toClient[i] # ResetMarker
    BY <1>1, <1>2, <1>4
  <2>4. ASSUME NEW i \in DOMAIN sendPcks, sendPcks[i] = ResetMarker
        PROVE  toServer' = <<>>
    <3>1. toServer[Len(toServer)] = ResetMarker
      BY <1>1, <2>4
    <3>2. Len(toServer) = 1
      BY <1>2, <2>1, <3>1
    <3> QED BY <1>2, <3>2, EmptySeq
  <2>5. ResetExpected'
    BY <2>2
  <2> QED BY <1>1, <1>3, <2>3, <2>4, <2>5
<1>5. CASE Head(toServer) # ResetMarker
  <2>1. UNCHANGED phase
    BY <1>5 DEF ServerResets
  <2>2. ResetExpected'
    <3>1. SUFFICES ASSUME NEW i \in DOMAIN toServer', toServer'[i] = ResetMarker
                   PROVE  /\ phase = "interrupted"
                          /\ \A j \in DOMAIN toServer' :
                               toServer'[j] = ResetMarker => j = i
      BY <2>1
    <3>2. \A j \in DOMAIN toServer' : toServer'[j] = ResetMarker => j + 1 = i + 1
      BY <1>2, <3>1
    <3> QED BY <1>1, <1>2, <3>2
  <2>3. \A i \in DOMAIN toClient : toClient[i] = ResetMarker =>
          \A j \in DOMAIN toServer' : toServer'[j] # ResetMarker
    BY <1>1, <1>2
  <2>4. toServer' # <<>> => toServer'[Len(toServer')] = toServer[Len(toServer)]
    BY <1>2, EmptySeq
  <2> QED BY <1>1, <1>3, <2>1, <2>2, <2>3, <2>4
<1> QED BY <1>4, <1>5

\* A packet of the server other than a reset marker, sent outside an interrupt.
LEMMA SentResets ==
  ASSUME TypeOK, ResetInv, NEW p \in ServerPacket, p # ResetMarker,
         toClient' = Append(toClient, p), UNCHANGED <<client, toServer, link>>,
         phase # "interrupted",
         p = Resend => request # <<>>,
         request' = request \/ request' = <<>>
  PROVE  ResetInv'
<1> USE DEF ResetInv, ResetExpected, MarkersExpected
<1>1. UNCHANGED <<sendPcks, pc>>
  BY DEF client
<1>2. /\ \A i \in DOMAIN toClient' :
           \/ i \in DOMAIN toClient /\ toClient'[i] = toClient[i]
           \/ toClient'[i] = p
  BY AppendElements DEF TypeOK, WireTypeOK
<1>3. ResetExpected'
  OBVIOUS
<1>4. link = "up" => \A i \in DOMAIN toClient' : toClient'[i] # ResetMarker
  BY <1>2
<1> QED BY <1>1, <1>2, <1>3, <1>4

\* Every step of the server keeps the markers expected.
LEMMA ServerKeepsResets ==
  ASSUME TypeOK, Position, ResetInv, ServerNext
  PROVE  ResetInv'
<1>a. toServer \in Seq(ClientPacket) /\ toClient \in Seq(ServerPacket)
  BY DEF TypeOK, WireTypeOK
<1>1. CASE ServerReceives
  <2> USE DEF ResetInv, ResetExpected, MarkersExpected
  <2>1. /\ link = "up" /\ phase = "receiving" /\ toServer # <<>>
        /\ toServer' = Tail(toServer)
        /\ UNCHANGED <<client, toClient, link, phase>>
    BY <1>1 DEF ServerReceives
  <2>2. \A j \in DOMAIN toServer : toServer[j] # ResetMarker
    BY <2>1
  <2>3. \A j \in DOMAIN toServer' : toServer'[j] # ResetMarker
    BY <1>a, <2>1, <2>2, TailElements
  <2>4. \A i \in DOMAIN sendPcks : sendPcks[i] # ResetMarker
    <3>1. Len(toServer) \in DOMAIN toServer
      BY <1>a, <2>1, TailElements
    <3> QED BY <2>1, <2>2, <3>1
  <2> QED BY <2>1, <2>3, <2>4 DEF client
<1>2. CASE ServerExecutes
  <2>1. request # <<>>
    BY <1>2 DEF ServerExecutes, RequestComplete
  <2> QED
    BY <1>2, <2>1 DEF ServerExecutes, ResetInv, ResetExpected, MarkersExpected, client
<1>3. CASE ServerAsksResend
  <2>1. Resend \in ServerPacket
    BY DEF ServerPacket
  <2>2. request # <<>>
    BY <1>3 DEF ServerAsksResend, RequestComplete
  <2> QED BY <1>3, <2>1, <2>2, SentResets, PacketsDiffer DEF ServerAsksResend
<1>4. CASE ServerSends
  <2>1. PICK k \in 1 .. (length - sent) :
          toClient' = Append(toClient, Data([i \in 1 .. k |->
               [call |-> LastExecuted, round |-> round, n |-> sent + i,
                summary |-> sent + i > length - MessageLen]]))
    BY <1>4 DEF ServerSends
  <2> DEFINE bytes == [i \in 1 .. k |->
               [call |-> LastExecuted, round |-> round, n |-> sent + i,
                summary |-> sent + i > length - MessageLen]]
  <2>2. bytes \in Seq(Byte)
    BY <1>4, SentBytesType DEF ServerSends, TypeOK, Position
  <2> HIDE DEF bytes
  <2>3. Data(bytes) \in ServerPacket
    BY <2>2 DEF Data, ServerPacket
  <2>4. toClient' = Append(toClient, Data(bytes))
    BY <2>1 DEF bytes
  <2> QED BY <1>4, <2>3, <2>4, SentResets, PacketsDiffer DEF ServerSends
<1>5. CASE ServerInterrupts
  BY <1>5 DEF ServerInterrupts, ResetInv, ResetExpected, MarkersExpected, client
<1>6. CASE ServerBreaks
  <2>1. BreakMarker \in ServerPacket
    BY DEF ServerPacket
  <2> QED BY <1>6, <2>1, SentResets, PacketsDiffer DEF ServerBreaks
<1>7. CASE ServerAsksReset
  <2> USE DEF ResetInv, ResetExpected, MarkersExpected
  <2>1. /\ link = "up" /\ phase = "breaking" /\ phase' = "interrupted"
        /\ toClient' = Append(toClient, ResetMarker)
        /\ UNCHANGED <<client, toServer, link, request>>
    BY <1>7 DEF ServerAsksReset
  <2>2. \A j \in DOMAIN toServer : toServer[j] # ResetMarker
    BY <2>1
  <2>3. \A j \in DOMAIN toClient : toClient[j] # ResetMarker
    BY <2>1
  <2>4. ResetMarker \in ServerPacket
    BY DEF ServerPacket
  <2>5. /\ Len(toClient') = Len(toClient) + 1
        /\ \A i \in DOMAIN toClient' :
             \/ i \in DOMAIN toClient /\ toClient'[i] = toClient[i]
             \/ toClient'[i] = ResetMarker /\ i = Len(toClient) + 1
    BY <1>a, <2>1, <2>4, AppendElements
  <2>6. UNCHANGED <<sendPcks, pc>>
    BY <2>1 DEF client
  <2>7. ResetExpected'
    BY <2>1, <2>2
  <2> QED BY <2>1, <2>2, <2>3, <2>5, <2>6, <2>7, PacketsDiffer
<1>8. CASE ServerResets
  BY <1>8, ServerResetsMarkers
<1>9. CASE LinkGoesDown
  BY <1>9 DEF LinkGoesDown, ResetInv, ResetExpected, MarkersExpected, client, answer
<1> QED
  BY <1>1, <1>2, <1>3, <1>4, <1>5, <1>6, <1>7, <1>8, <1>9
  DEF ServerNext, ServerStep

\* ResetExpected: the reset markers the server reads are the ones it asked
\* for, one for each interrupt, whatever else goes wrong.
THEOREM ResetsExpected == Spec => []ResetExpected
<1>1. Init => ResetInv
  BY DEF Init, ResetInv, ResetExpected, MarkersExpected
<1>2. ASSUME TypeOK, Position, ResetInv, [Next]_vars
      PROVE  ResetInv'
  <2>1. CASE BeginCall \/ ClientStep
    BY <1>2, <2>1, ClientResets
  <2>2. CASE ServerNext
    BY <1>2, <2>2, ServerKeepsResets
  <2>3. CASE UNCHANGED vars
    BY <1>2, <2>3 DEF vars, client, server, answer, ResetInv, ResetExpected,
                      MarkersExpected
  <2> QED
    BY <1>2, <2>1, <2>2, <2>3 DEF Next, ServerNext, Finished
<1>3. Spec => []ResetInv
  BY <1>1, <1>2, SessionTypes, PTL DEF Spec
<1>4. ResetInv => ResetExpected
  BY DEF ResetInv
<1> QED BY <1>3, <1>4, PTL

-----------------------------------------------------------------------------
(* Positions in a message.                                                 *)

\* A number is so many messages and a rest.
LEMMA Division ==
  ASSUME NEW m \in Nat \ {0}, NEW a \in Nat
  PROVE  /\ a \div m \in Nat /\ a % m \in 0 .. m - 1
         /\ a = m * (a \div m) + (a % m)
BY SMT

\* A smaller number added to so many of them is the rest.
LEMMA Rest ==
  ASSUME NEW m \in Nat \ {0}, NEW q \in Nat, NEW r \in 0 .. m - 1
  PROVE  (m * q + r) % m = r
BY SMT

\* Where byte n of a response stands in its message: the code byte at 1, the
\* last byte at 0.
Place(n) == n % MessageLen

\* A message has a code byte and a body.
LEMMA LengthOfMessage == MessageLen \in Nat /\ MessageLen > 1
BY BoundsAssumption

\* A place is less than the length of a message.
LEMMA PlaceType == \A n \in Nat : Place(n) \in 0 .. MessageLen - 1
BY LengthOfMessage, Division DEF Place

\* Bytes at one place are whole messages apart.
LEMMA PlaceOf ==
  \A n \in Nat : \E q \in Nat : n = MessageLen * q + Place(n)
<1> SUFFICES ASSUME NEW n \in Nat
             PROVE  \E q \in Nat : n = MessageLen * q + Place(n)
  OBVIOUS
<1>1. n \div MessageLen \in Nat
      /\ n = MessageLen * (n \div MessageLen) + (n % MessageLen)
  BY LengthOfMessage, Division
<1> QED BY <1>1 DEF Place

\* So many messages and a rest: the rest is the place.
LEMMA PlaceIs ==
  \A q \in Nat : \A r \in 0 .. MessageLen - 1 : Place(MessageLen * q + r) = r
BY LengthOfMessage, Rest DEF Place

\* The first places, and the last.
LEMMA PlaceSmall ==
  /\ \A r \in 0 .. MessageLen - 1 : Place(r) = r
  /\ Place(MessageLen) = 0
<1>1. MessageLen * 0 = 0 /\ MessageLen * 1 = MessageLen
  BY LengthOfMessage, SMT
<1>2. ASSUME NEW r \in 0 .. MessageLen - 1
      PROVE  Place(r) = r
  <2>1. MessageLen * 0 + r = r
    BY <1>1
  <2> QED BY <2>1, PlaceIs
<1>3. Place(MessageLen) = 0
  <2>1. MessageLen * 1 + 0 = MessageLen /\ 0 \in 0 .. MessageLen - 1
    BY <1>1, LengthOfMessage
  <2> QED BY <2>1, PlaceIs
<1> QED BY <1>2, <1>3

\* Places that agree go on agreeing.
LEMMA PlaceSum ==
  \A a, b, k \in Nat : Place(a) = Place(b) => Place(a + k) = Place(b + k)
<1> SUFFICES ASSUME NEW a \in Nat, NEW b \in Nat, NEW k \in Nat,
                    Place(a) = Place(b)
             PROVE  Place(a + k) = Place(b + k)
  OBVIOUS
<1>1. PICK p \in Nat : a = MessageLen * p + Place(a)
  BY PlaceOf
<1>2. PICK q \in Nat : b = MessageLen * q + Place(a)
  BY PlaceOf
<1>3. Place(a) \in Nat /\ Place(a) + k \in Nat
  BY PlaceType, LengthOfMessage
<1>4. PICK r \in Nat : Place(a) + k = MessageLen * r + Place(Place(a) + k)
  BY <1>3, PlaceOf
<1> DEFINE rest == Place(Place(a) + k)
<1>5. rest \in 0 .. MessageLen - 1
  BY <1>3, PlaceType
<1>6. \A x, y \in Nat : /\ MessageLen * (x + y) = MessageLen * x + MessageLen * y
                        /\ MessageLen * x \in Nat
  BY LengthOfMessage, SMT
<1> HIDE DEF rest
<1>7. /\ a + k = MessageLen * (p + r) + rest
      /\ b + k = MessageLen * (q + r) + rest
  <2>1. /\ MessageLen * p \in Nat /\ MessageLen * q \in Nat /\ MessageLen * r \in Nat
        /\ MessageLen * (p + r) = MessageLen * p + MessageLen * r
        /\ MessageLen * (q + r) = MessageLen * q + MessageLen * r
    BY <1>6
  <2>2. Place(a) + k = MessageLen * r + rest /\ rest \in Nat
    BY <1>4, <1>5, LengthOfMessage DEF rest
  <2> QED BY <1>1, <1>2, <1>3, <2>1, <2>2
<1> QED BY <1>5, <1>7, PlaceIs

\* A number of whole messages ends at the end of one.
LEMMA PlaceWhole == \A m \in Nat : Place(m * MessageLen) = 0
<1> SUFFICES ASSUME NEW m \in Nat PROVE Place(m * MessageLen) = 0
  OBVIOUS
<1>1. MessageLen * m + 0 = m * MessageLen /\ 0 \in 0 .. MessageLen - 1
  BY LengthOfMessage, SMT
<1> QED BY <1>1, PlaceIs

\* Before the end of a number of whole messages there is a whole one.
LEMMA WholeMessageLeft ==
  ASSUME NEW a \in Nat, NEW b \in Nat, Place(a) = 0, Place(b) = 0, a < b
  PROVE  a <= b - MessageLen
<1>1. PICK p \in Nat : a = MessageLen * p + 0
  BY PlaceOf
<1>2. PICK q \in Nat : b = MessageLen * q + 0
  BY PlaceOf
<1>3. /\ \A x, y \in Nat : x <= y => MessageLen * x <= MessageLen * y
      /\ \A x \in Nat : /\ MessageLen * (x + 1) = MessageLen * x + MessageLen
                        /\ MessageLen * x \in Nat
  BY LengthOfMessage, SMT
<1>4. a = MessageLen * p /\ b = MessageLen * q
  BY <1>1, <1>2, <1>3
<1>5. p + 1 <= q
  BY <1>3, <1>4
<1>6. MessageLen * (p + 1) <= MessageLen * q
  BY <1>3, <1>5
<1> QED BY <1>3, <1>4, <1>6, LengthOfMessage

\* The only byte of the last message that starts one is its first.
LEMMA LastMessageStarts ==
  ASSUME NEW n \in Nat, NEW b \in Nat, Place(n) = 1, Place(b) = 0,
         b - MessageLen < n, n <= b
  PROVE  n = b - MessageLen + 1
<1>1. PICK p \in Nat : n = MessageLen * p + 1
  BY PlaceOf
<1>2. \A x \in Nat : MessageLen * x \in Nat
  BY LengthOfMessage, SMT
<1>3. n - 1 = MessageLen * p + 0 /\ n - 1 \in Nat /\ 0 \in 0 .. MessageLen - 1
  BY <1>1, <1>2, LengthOfMessage
<1>4. Place(n - 1) = 0
  BY <1>3, PlaceIs
<1>5. n - 1 <= b - MessageLen
  BY <1>3, <1>4, WholeMessageLeft
<1> QED BY <1>3, <1>5, LengthOfMessage

-----------------------------------------------------------------------------
(* Stretches of a response.                                                *)

\* The bytes s are one stretch from the start of a response.  The rounds are
\* whole messages, so a byte stands in its message where it stands in s.
Stretch(s) ==
  /\ s # <<>> => s[1].n = 1
  /\ Contiguous(s)
  /\ \A i, j \in 1 .. Len(s) : i < j =>
       \/ s[i].round < s[j].round
       \/ s[i].round = s[j].round /\ s[j].n = s[i].n + (j - i)
  /\ \A i \in 1 .. Len(s) : Place(s[i].n) = Place(i)

\* The bytes of one packet.
OneRun(b) ==
  /\ b # <<>>
  /\ \A i \in 1 .. Len(b) : /\ b[i].call = b[1].call /\ b[i].round = b[1].round
                            /\ b[i].n = b[1].n + (i - 1)

\* Byte b goes on where s stops.
Fits(s, b) == IF s = <<>> THEN b.n = 1 ELSE Follows(s[Len(s)], b)

\* The response from which nothing has come.
LEMMA EmptyStretch == Stretch(<<>>)
BY DEF Stretch, Contiguous

\* The start of a stretch is one.
LEMMA StretchPrefix ==
  ASSUME NEW s \in Seq(Byte), NEW t \in Seq(Byte), Stretch(s \o t)
  PROVE  Stretch(s)
<1>1. /\ Len(s) \in Nat /\ Len(t) \in Nat /\ Len(s \o t) = Len(s) + Len(t)
      /\ \A i \in 1 .. Len(s) : (s \o t)[i] = s[i]
  BY ConcatElements
<1>2. s # <<>> => s[1].n = 1
  <2>1. SUFFICES ASSUME s # <<>> PROVE s[1].n = 1
    OBVIOUS
  <2>2. Len(s) # 0
    BY <2>1, EmptySeq
  <2>3. 1 \in 1 .. Len(s) /\ s \o t # <<>>
    BY <1>1, <2>2, EmptySeq
  <2> QED BY <1>1, <2>3 DEF Stretch
<1>3. Contiguous(s)
  <2>1. SUFFICES ASSUME NEW i \in 1 .. Len(s) - 1 PROVE Follows(s[i], s[i + 1])
    BY DEF Contiguous
  <2>2. i \in 1 .. Len(s \o t) - 1 /\ i \in 1 .. Len(s) /\ i + 1 \in 1 .. Len(s)
    BY <1>1
  <2>3. Follows((s \o t)[i], (s \o t)[i + 1])
    BY <2>2 DEF Stretch, Contiguous
  <2> QED BY <1>1, <2>2, <2>3
<1>4. \A i \in 1 .. Len(s) : i \in 1 .. Len(s \o t)
  BY <1>1
<1> QED BY <1>1, <1>2, <1>3, <1>4 DEF Stretch

\* A stretch and the packet that goes on where it stops.
LEMMA StretchGrows ==
  ASSUME NEW s \in Seq(Byte), NEW b \in Seq(Byte), Stretch(s), OneRun(b),
         Fits(s, b[1])
  PROVE  Stretch(s \o b)
<1> DEFINE u == s \o b
           first == b[1].n
<1>1. /\ Len(s) \in Nat /\ Len(b) \in Nat /\ Len(u) = Len(s) + Len(b)
      /\ u \in Seq(Byte)
      /\ \A i \in 1 .. Len(s) : u[i] = s[i]
      /\ \A i \in Len(s) + 1 .. Len(s) + Len(b) :
           i - Len(s) \in 1 .. Len(b) /\ u[i] = b[i - Len(s)]
  BY ConcatElements
<1>2. Len(b) # 0 /\ 1 \in 1 .. Len(b) /\ b[1] \in Byte
  <2>1. Len(b) # 0
    BY EmptySeq DEF OneRun
  <2> QED BY <1>1, <2>1, ElementOfSeq
<1>3. first \in Nat /\ b[1].round \in Nat
  BY <1>2 DEF Byte
<1>4. \A i \in Len(s) + 1 .. Len(s) + Len(b) :
        /\ u[i].call = b[1].call /\ u[i].round = b[1].round
        /\ u[i].n = first + (i - Len(s) - 1)
  BY <1>1, <1>3 DEF OneRun
<1>5. \A i \in 1 .. Len(s) : s[i] \in Byte /\ s[i].n \in Nat /\ s[i].round \in Nat
  <2>1. \A x \in Byte : x.n \in Nat /\ x.round \in Nat
    BY DEF Byte
  <2> QED BY <2>1, ElementOfSeq
<1>6. CASE s = <<>>
  <2>1. Len(s) = 0 /\ first = 1
    BY <1>6 DEF Fits
  <2>2. \A i \in 1 .. Len(u) :
          u[i].n = i /\ u[i].round = b[1].round /\ u[i].call = b[1].call
    BY <1>1, <1>4, <2>1
  <2> HIDE DEF u
  <2>3. Contiguous(u)
    <3>1. SUFFICES ASSUME NEW i \in 1 .. Len(u) - 1 PROVE Follows(u[i], u[i + 1])
      BY DEF Contiguous
    <3>2. i \in 1 .. Len(u) /\ i + 1 \in 1 .. Len(u)
      BY <1>1
    <3> QED BY <2>2, <3>2 DEF Follows
  <2>4. u[1].n = 1
    BY <1>1, <1>2, <2>1, <2>2
  <2>5. \A i, j \in 1 .. Len(u) : u[i].round = u[j].round /\ u[j].n = u[i].n + (j - i)
    BY <2>2
  <2>6. Stretch(u)
    BY <2>2, <2>3, <2>4, <2>5 DEF Stretch
  <2> QED BY <2>6 DEF u
<1>7. CASE s # <<>>
  <2>1. Len(s) \in 1 .. Len(s)
    BY <1>7, LastOfSeq
  <2> DEFINE l == s[Len(s)]
  <2>2. /\ l.n \in Nat /\ l.round \in Nat /\ Place(l.n) = Place(Len(s))
        /\ Follows(l, b[1])
    BY <1>5, <1>7, <2>1 DEF Stretch, Fits
  <2> HIDE DEF u, l
  <2>3. Contiguous(u)
    <3>1. SUFFICES ASSUME NEW i \in 1 .. Len(u) - 1 PROVE Follows(u[i], u[i + 1])
      BY DEF Contiguous
    <3>2. CASE i < Len(s)
      <4>1. i \in 1 .. Len(s) - 1 /\ u[i] = s[i] /\ u[i + 1] = s[i + 1]
        BY <1>1, <3>2
      <4> QED BY <4>1 DEF Stretch, Contiguous
    <3>3. CASE i = Len(s)
      <4>1. i \in 1 .. Len(s) /\ i + 1 \in Len(s) + 1 .. Len(s) + Len(b)
            /\ (i + 1) - Len(s) = 1
        BY <1>1, <1>2, <3>3
      <4>2. u[i] = l /\ u[i + 1] = b[1]
        BY <1>1, <3>3, <4>1 DEF l
      <4> QED BY <2>2, <4>2
    <3>4. CASE i > Len(s)
      <4>1. i \in Len(s) + 1 .. Len(s) + Len(b)
            /\ i + 1 \in Len(s) + 1 .. Len(s) + Len(b)
        BY <1>1, <3>4
      <4>2. /\ u[i].call = b[1].call /\ u[i + 1].call = b[1].call
            /\ u[i].round = b[1].round /\ u[i + 1].round = b[1].round
            /\ u[i].n = first + (i - Len(s) - 1)
            /\ u[i + 1].n = first + ((i + 1) - Len(s) - 1)
        BY <1>4, <4>1
      <4>3. u[i + 1].n = u[i].n + 1
        <5>1. i \in Nat /\ Len(s) \in Nat
          BY <1>1, <4>1
        <5> HIDE DEF first
        <5> QED BY <1>3, <4>2, <5>1
      <4> QED BY <4>2, <4>3 DEF Follows
    <3> QED BY <1>1, <3>2, <3>3, <3>4
  <2>4. u[1].n = 1 /\ u # <<>>
    <3>1. 1 \in 1 .. Len(s) /\ s[1].n = 1
      BY <1>1, <1>7, <2>1 DEF Stretch
    <3> QED BY <1>1, <3>1, EmptySeq
  <2>5. ASSUME NEW i \in 1 .. Len(u), NEW j \in 1 .. Len(u), i < j
        PROVE  \/ u[i].round < u[j].round
               \/ u[i].round = u[j].round /\ u[j].n = u[i].n + (j - i)
    <3>1. CASE j <= Len(s)
      <4>1. i \in 1 .. Len(s) /\ j \in 1 .. Len(s) /\ u[i] = s[i] /\ u[j] = s[j]
        BY <1>1, <2>5, <3>1
      <4> QED BY <2>5, <4>1 DEF Stretch
    <3>2. CASE i > Len(s)
      <4>1. i \in Len(s) + 1 .. Len(s) + Len(b) /\ j \in Len(s) + 1 .. Len(s) + Len(b)
        BY <1>1, <2>5, <3>2
      <4> QED BY <1>1, <1>3, <1>4, <4>1
    <3>3. CASE i <= Len(s) /\ j > Len(s)
      <4>1. i \in 1 .. Len(s) /\ u[i] = s[i] /\ j \in Len(s) + 1 .. Len(s) + Len(b)
        BY <1>1, <2>5, <3>3
      <4>2. u[j].round = b[1].round /\ u[j].n = first + (j - Len(s) - 1)
        BY <1>4, <4>1
      <4>3. /\ s[i].n \in Nat /\ s[i].round \in Nat
            /\ \/ s[i].round < l.round
               \/ s[i].round = l.round /\ l.n = s[i].n + (Len(s) - i)
        <5>1. CASE i = Len(s)
          <6>1. s[i] = l
            BY <5>1 DEF l
          <6> QED BY <1>1, <2>2, <5>1, <6>1
        <5>2. CASE i # Len(s)
          BY <1>1, <1>5, <2>1, <4>1, <5>2 DEF Stretch, l
        <5> QED BY <5>1, <5>2
      <4>4. \/ b[1].round = l.round /\ first = l.n + 1
            \/ b[1].round > l.round
        BY <2>2 DEF Follows
      <4>5. s[i].round <= l.round /\ l.round <= b[1].round
        BY <1>3, <2>2, <4>3, <4>4
      <4>6. CASE s[i].round < b[1].round
        BY <4>1, <4>2, <4>6
      <4>7. CASE ~(s[i].round < b[1].round)
        <5>1. s[i].round = l.round /\ l.round = b[1].round
          BY <1>3, <2>2, <4>3, <4>5, <4>7
        <5>2. l.n = s[i].n + (Len(s) - i) /\ first = l.n + 1
          BY <2>2, <4>3, <4>4, <5>1
        <5>3. u[j].n = s[i].n + (j - i)
          <6>1. /\ i \in Nat /\ j \in Nat /\ Len(s) \in Nat /\ s[i].n \in Nat
                /\ u[j].n = first + (j - Len(s) - 1)
            BY <1>1, <4>1, <4>2, <4>3
          <6> HIDE DEF first
          <6>2. first = s[i].n + (Len(s) - i) + 1
            BY <5>2
          <6>3. PICK a \in Nat, m \in Nat, f \in Nat :
                  a = s[i].n /\ m = Len(s) /\ f = first
            BY <1>3, <6>1
          <6>4. f = a + (m - i) + 1 /\ u[j].n = f + (j - m - 1)
            BY <6>1, <6>2, <6>3
          <6>5. f + (j - m - 1) = a + (j - i)
            <7>1. i \in Nat /\ j \in Nat
              BY <6>1
            <7> QED BY <6>4, <7>1
          <6>6. u[j].n = a + (j - i)
            BY <6>4, <6>5
          <6> QED BY <6>3, <6>6
        <5> QED BY <4>1, <4>2, <5>1, <5>3
      <4> QED BY <4>6, <4>7
    <3> QED BY <1>1, <3>1, <3>2, <3>3
  <2>6. Place(first) = Place(Len(s) + 1)
    <3>1. CASE first = l.n + 1
      BY <1>1, <2>2, <3>1, PlaceSum
    <3>2. CASE first = 1 /\ l.n % MessageLen = 0
      <4>1. Place(Len(s)) = Place(0)
        BY <2>2, <3>2, PlaceSmall, LengthOfMessage DEF Place
      <4>2. Place(Len(s) + 1) = Place(0 + 1)
        BY <1>1, <4>1, PlaceSum
      <4> QED BY <3>2, <4>2
    <3> QED BY <2>2, <3>1, <3>2 DEF Follows
  <2>7. ASSUME NEW i \in 1 .. Len(u)
        PROVE  Place(u[i].n) = Place(i)
    <3>1. CASE i <= Len(s)
      BY <1>1, <3>1 DEF Stretch
    <3>2. CASE i > Len(s)
      <4>1. /\ i \in Len(s) + 1 .. Len(s) + Len(b) /\ i - Len(s) - 1 \in Nat
            /\ (Len(s) + 1) + (i - Len(s) - 1) = i
        BY <1>1, <3>2
      <4>2. u[i].n = first + (i - Len(s) - 1)
        BY <1>4, <4>1
      <4>3. Place(first + (i - Len(s) - 1))
              = Place((Len(s) + 1) + (i - Len(s) - 1))
        <5>1. PICK k \in Nat : k = i - Len(s) - 1
          BY <4>1
        <5>2. first \in Nat /\ Len(s) + 1 \in Nat
          BY <1>1, <1>3
        <5>3. Place(first + k) = Place((Len(s) + 1) + k)
          BY <2>6, <5>2, PlaceSum
        <5> QED BY <5>1, <5>3
      <4> QED BY <4>1, <4>2, <4>3
    <3> QED BY <1>1, <3>1, <3>2
  <2>8. Stretch(u)
    BY <2>3, <2>4, <2>5, <2>7 DEF Stretch
  <2> QED BY <2>8 DEF u
<1> QED BY <1>6, <1>7

-----------------------------------------------------------------------------
(* Client and server stay in step.                                         *)

\* What keeps them in step: interrupts only between messages, one for a
\* response at most, with no more break markers than the client accepts, and
\* values that can be decoded.  Of resends, timeouts and losses there may be
\* any number.
StaysInStep ==
  /\ MidMessageBreak = FALSE /\ DecodeFailure = FALSE
  /\ MaxRounds <= 1 /\ MaxBreaks <= TrialLimit

\* How far the response is.
ServerPosition ==
  /\ Place(length) = 0
  /\ phase = "receiving" => sent = length
  /\ phase # "receiving" => sent < length
  /\ phase \in {"breaking", "interrupted"} => Place(sent) = 0

\* Segment p is of a call the server has not executed, the current one or an
\* earlier one.
Pending(p) ==
  /\ LastExecuted < p.call /\ p.call <= call
  /\ pc = "writing" /\ Ends(p) => p.call < call

\* What the server has of the requests and what is on its way: each call ends
\* once, and what comes after it is of a later call.
RequestOrder ==
  /\ LastExecuted <= call
  /\ pc = "writing" => LastExecuted < call
  /\ \A i \in DOMAIN toServer : toServer[i] # ResetMarker => Pending(toServer[i])
  /\ \A i \in DOMAIN request : Pending(request[i])
  /\ \A i, j \in DOMAIN toServer :
       /\ i < j /\ toServer[i] # ResetMarker /\ toServer[j] # ResetMarker
       /\ Ends(toServer[i])
       => toServer[i].call < toServer[j].call
  /\ RequestComplete =>
       \A j \in DOMAIN toServer : toServer[j] # ResetMarker =>
         request[Len(request)].call < toServer[j].call

\* send_pcks holds at most one whole request, the current one.
SentOrder ==
  \A i \in DOMAIN sendPcks :
    /\ sendPcks[i] # ResetMarker => sendPcks[i].call = call
    /\ Ends(sendPcks[i]) => i = Len(sendPcks) /\ pc # "writing"

\* The bytes the client has of the response to its call.
View == got \o ret \o inBuffer

\* read() is at a field of a message, and outside the plain reading of
\* messages it is before one.
ReadPosition ==
  /\ field = "code" => Place(Len(got)) = 0 /\ Len(ret) + need = 1
  /\ field = "body" => Place(Len(got)) = 1 /\ Len(ret) + need = MessageLen - 1
  /\ pc # "reading" => ret = <<>> /\ inBuffer = <<>> /\ field = "code"

\* They are one stretch of that response.
ClientView ==
  /\ Stretch(View)
  /\ \A i \in DOMAIN View : View[i].call = call
  /\ ~InRead(pc) => ret = <<>>
  /\ pc = "writing" => View = <<>>
  /\ pc # "idle" => outcome = "none"
  /\ InRead(pc) => ReadPosition
  /\ InRead(pc) /\ conn # "open" => pc = "reading" /\ View = <<>>

\* b is a byte of the response the server is at, or of the one it gave up.
Own(b) ==
  /\ b.call = call
  /\ IF b.round = round
     THEN b.n <= sent /\ b.summary = (b.n > length - MessageLen)
     ELSE b.round < round /\ b.summary = FALSE

IsData(p) == p.type = "DATA" /\ p.eof = FALSE

\* The bytes of a data packet on its way.
Piece(b) ==
  /\ OneRun(b)
  /\ \A i \in 1 .. Len(b) : Own(b[i]) /\ b[i].round = round

\* What may be on its way to the client, and in which order: RESEND alone, or
\* data, then breaks, then a reset; the end of the connection last.
ToClientShape ==
  \A i \in DOMAIN toClient :
    /\ IsData(toClient[i]) \/ toClient[i] \in {BreakMarker, ResetMarker, Resend, Eof}
    /\ toClient[i] = Eof => i = Len(toClient) /\ link = "down"
    /\ toClient[i] = Resend => i = 1
    /\ toClient[i] = BreakMarker => phase \in {"breaking", "interrupted"}
    /\ toClient[i] = ResetMarker => phase = "interrupted"
    /\ \A j \in DOMAIN toClient : i < j =>
         /\ IsData(toClient[j]) => IsData(toClient[i])
         /\ toClient[j] \in {BreakMarker, ResetMarker} =>
              IsData(toClient[i]) \/ toClient[i] = BreakMarker

\* The break markers read and on their way are no more than were sent.
BreakCount ==
  /\ pc # "marker" => trials = 0
  /\ pc = "marker" => trials <= breaks
  /\ \A i, j \in DOMAIN toClient :
       i <= j /\ toClient[i] = BreakMarker /\ toClient[j] = BreakMarker =>
         trials + (j - i) + 1 <= breaks

\* The last byte the client has is the last byte sent.
CaughtUp ==
  IF sent = 0
  THEN View # <<>> => /\ Place(View[Len(View)].n) = 0
                      /\ View[Len(View)].round < round
  ELSE /\ View # <<>>
       /\ View[Len(View)].round = round /\ View[Len(View)].n = sent

LastByte(b) == b[Len(b)].n

\* What the client has, what is in the packets on their way, and what the
\* server will send next follow one another.
Flow ==
  /\ \A i \in DOMAIN View : Own(View[i])
  /\ \A i \in DOMAIN toClient : IsData(toClient[i]) =>
       /\ Piece(toClient[i].bytes)
       /\ IF i + 1 \in DOMAIN toClient /\ IsData(toClient[i + 1])
          THEN toClient[i + 1].bytes[1].n = LastByte(toClient[i].bytes) + 1
          ELSE LastByte(toClient[i].bytes) = sent
  /\ IF toClient # <<>> /\ IsData(toClient[1])
     THEN Fits(View, toClient[1].bytes[1])
     ELSE CaughtUp

\* The call waits, and the server has not executed it ...
Unanswered ==
  /\ pc = "reading" /\ View = <<>>
  /\ \A i \in DOMAIN toClient : toClient[i] \in {Resend, Eof}

\* ... or has.
Answered ==
  /\ Flow
  /\ \A i \in DOMAIN toClient : toClient[i] # Resend
  /\ pc = "marker" =>
       /\ phase \in {"breaking", "interrupted"}
       /\ \A i \in DOMAIN toClient : ~IsData(toClient[i])
  /\ pc = "awaitData" =>
       /\ phase # "breaking"
       /\ phase # "interrupted" => round >= MaxRounds
       /\ \A i \in DOMAIN toClient : IsData(toClient[i]) \/ toClient[i] = Eof

\* While the client can read: what is on its way is for the call that waits.
ToClient ==
  conn = "open" =>
    /\ ToClientShape
    /\ BreakCount
    /\ ~InRead(pc) => \A i \in DOMAIN toClient : toClient[i] = Eof
    /\ InRead(pc) => IF LastExecuted = call THEN Answered ELSE Unanswered

\* While both can go on: the server is at the call the client waits for.
Lockstep ==
  conn = "open" /\ link = "up" =>
    /\ LastExecuted = call \/ LastExecuted + 1 = call
    /\ pc = "idle" => LastExecuted = call /\ phase = "receiving"
    /\ LastExecuted # call => phase = "receiving"
    /\ InRead(pc) /\ LastExecuted # call /\ toClient # <<>> =>
         toServer = <<>> /\ request = <<>>
    /\ LastExecuted = call =>
         IF pc = "awaitData" /\ phase = "interrupted"
         THEN toServer = <<ResetMarker>> /\ toClient = <<>>
         ELSE toServer = <<>>
    /\ InRead(pc) /\ pc # "awaitData" /\ phase = "interrupted" =>
         toClient # <<>> /\ toClient[Len(toClient)] = ResetMarker

StreamInv ==
  /\ ServerPosition /\ RequestOrder /\ SentOrder
  /\ ClientView /\ ToClient /\ Lockstep

\* The inductive invariant.
InStepInv == TypeOK /\ WireInv /\ ResetInv /\ StreamInv

-----------------------------------------------------------------------------
\* Types used again and again.
LEMMA Kinds ==
  ASSUME TypeOK
  PROVE  /\ toServer \in Seq(ClientPacket) /\ toClient \in Seq(ServerPacket)
         /\ sendPcks \in Seq(ClientPacket) /\ request \in Seq(Segment)
         /\ got \in Seq(Byte) /\ ret \in Seq(Byte) /\ inBuffer \in Seq(Byte)
         /\ got \o ret \in Seq(Byte) /\ View \in Seq(Byte)
         /\ call \in Nat /\ sent \in Nat /\ length \in Nat /\ round \in Nat
         /\ need \in Nat /\ breaks \in Nat /\ trials \in Nat
<1>1. /\ got \in Seq(Byte) /\ ret \in Seq(Byte) /\ inBuffer \in Seq(Byte)
      /\ toServer \in Seq(ClientPacket) /\ toClient \in Seq(ServerPacket)
      /\ sendPcks \in Seq(ClientPacket) /\ request \in Seq(Segment)
  BY DEF TypeOK, ClientTypeOK, WireTypeOK, ServerTypeOK
<1>2. got \o ret \in Seq(Byte) /\ View \in Seq(Byte)
  BY <1>1, ConcatProperties DEF View
<1>3. /\ call \in Nat /\ sent \in Nat /\ length \in Nat /\ round \in Nat
      /\ need \in Nat /\ breaks \in Nat /\ trials \in Nat
  BY BoundsAssumption, ResponseLength
  DEF TypeOK, ClientTypeOK, ServerTypeOK, TrialLimit
<1> QED BY <1>1, <1>2, <1>3

\* The latest call executed is a number.
LEMMA ExecutedType ==
  ASSUME TypeOK
  PROVE  LastExecuted \in Nat
<1>1. CASE executed = <<>>
  BY <1>1 DEF LastExecuted
<1>2. CASE executed # <<>>
  BY <1>2, LastOfSeq, BoundsAssumption DEF LastExecuted, TypeOK, ServerTypeOK
<1> QED BY <1>1, <1>2

\* It changes with `executed' alone.
LEMMA NextExecuted ==
  ASSUME TypeOK, UNCHANGED executed
  PROVE  LastExecuted' = LastExecuted
BY DEF LastExecuted

\* Packets to the server other than the marker are segments.
LEMMA ToServerKinds ==
  \A p \in ClientPacket : p # ResetMarker => p \in Segment
BY DEF ClientPacket

\* The numbers of a segment.
LEMMA SegmentTypes ==
  \A p \in Segment : /\ p.call \in Nat /\ p.offset \in Nat /\ p.size \in Nat
                     /\ p.total \in Nat /\ p.type = "DATA"
                     /\ Ends(p) <=> p.offset + p.size = p.total
BY BoundsAssumption DEF Segment, Ends

-----------------------------------------------------------------------------
(* The server's position.                                                  *)

\* A response is whole messages, and the server interrupts between them.
LEMMA ServerPositionStep ==
  ASSUME StaysInStep, TypeOK, Position, ServerPosition, [Next]_vars
  PROVE  ServerPosition'
<1> USE DEF ServerPosition
<1>a. /\ sent \in Nat /\ length \in Nat /\ sent <= length
      /\ MessageLen \in Nat /\ MessageLen > 1
  BY Kinds, LengthOfMessage DEF TypeOK, ServerTypeOK
<1>1. CASE BeginCall \/ ClientStep
  BY <1>1, ClientLeavesServer DEF server, answer
<1>2. CASE ServerExecutes
  <2>1. PICK m \in 1 .. MaxMessages : length' = m * MessageLen
    BY <1>2 DEF ServerExecutes
  <2>2. length' \in Nat /\ 0 < length'
    BY <2>1, ResponseLength
  <2>3. Place(length') = 0
    BY <2>1, PlaceWhole, BoundsAssumption
  <2> QED BY <1>2, <2>2, <2>3 DEF ServerExecutes
<1>3. CASE ServerSends
  BY <1>a, <1>3 DEF ServerSends
<1>4. CASE ServerInterrupts
  BY <1>4 DEF ServerInterrupts, StaysInStep, Place
<1>5. CASE ServerResets
  <2>1. CASE Head(toServer) = ResetMarker
    BY <1>a, <1>5, <2>1, PlaceSmall DEF ServerResets
  <2>2. CASE Head(toServer) # ResetMarker
    BY <1>5, <2>2 DEF ServerResets
  <2> QED BY <2>1, <2>2
<1>6. CASE ServerReceives \/ ServerAsksResend \/ ServerBreaks \/ ServerAsksReset
           \/ LinkGoesDown
  BY <1>6 DEF ServerReceives, ServerAsksResend, ServerBreaks, ServerAsksReset,
              LinkGoesDown, answer
<1>7. CASE UNCHANGED vars
  BY <1>7 DEF vars, server, answer
<1> QED
  BY <1>1, <1>2, <1>3, <1>4, <1>5, <1>6, <1>7 DEF Next, ServerStep, Finished

-----------------------------------------------------------------------------
(* The order of the requests.                                              *)

\* p is pending after the step.
PendingNext(p) ==
  /\ LastExecuted' < p.call /\ p.call <= call'
  /\ pc' = "writing" /\ Ends(p) => p.call < call'

\* RequestOrder after a step, in its parts.
LEMMA OrderNext ==
  ASSUME LastExecuted' <= call', pc' = "writing" => LastExecuted' < call',
         \A i \in DOMAIN toServer' :
           toServer'[i] # ResetMarker => PendingNext(toServer'[i]),
         \A i \in DOMAIN request' : PendingNext(request'[i]),
         \A i, j \in DOMAIN toServer' :
           /\ i < j /\ toServer'[i] # ResetMarker /\ toServer'[j] # ResetMarker
           /\ Ends(toServer'[i])
           => toServer'[i].call < toServer'[j].call,
         RequestComplete' =>
           \A j \in DOMAIN toServer' : toServer'[j] # ResetMarker =>
             request'[Len(request')].call < toServer'[j].call
  PROVE  RequestOrder'
BY DEF RequestOrder, Pending, PendingNext, Ends

\* A step that leaves the requests alone.
LEMMA SameRequests ==
  ASSUME RequestOrder, UNCHANGED <<toServer, request, executed, call>>,
         pc' # "writing" \/ UNCHANGED pc
  PROVE  RequestOrder'
BY DEF RequestOrder, Pending, LastExecuted, RequestComplete

\* A step that leaves send_pcks alone.
LEMMA SameSent ==
  ASSUME SentOrder, UNCHANGED <<sendPcks, call>>, pc' # "writing" \/ UNCHANGED pc
  PROVE  SentOrder'
BY DEF SentOrder

\* A RESEND that is read is all there is between client and server, and the
\* server has not executed the call.
LEMMA ResendAlone ==
  ASSUME InStepInv, pc = "reading", conn = "open", toClient # <<>>,
         Packet = Resend
  PROVE  /\ LastExecuted # call
         /\ View = <<>>
         /\ \A i \in DOMAIN toClient : i # 1 => toClient[i] = Eof
         /\ link = "up" => toServer = <<>> /\ request = <<>>
<1> USE DEF InStepInv, StreamInv
<1>1. 1 \in DOMAIN toClient /\ toClient[1] = Resend
  BY Kinds, TailElements DEF Packet
<1>2. /\ ToClientShape
      /\ IF LastExecuted = call THEN Answered ELSE Unanswered
  BY DEF ToClient, InRead
<1>3. LastExecuted # call
  BY <1>1, <1>2 DEF Answered
<1>4. Unanswered
  BY <1>2, <1>3
<1>5. \A i \in DOMAIN toClient : i # 1 => toClient[i] = Eof
  BY <1>2, <1>4 DEF Unanswered, ToClientShape
<1> QED BY <1>3, <1>4, <1>5 DEF Unanswered, Lockstep, InRead

\* write() appends a segment of the current call, and ends it once.
LEMMA WriteOrder ==
  ASSUME InStepInv, pc = "writing",
         UNCHANGED <<request, executed, call>>,
         sendPcks' = Append(sendPcks, NextSegment),
         toServer' = toServer \/ toServer' = Append(toServer, NextSegment),
         \/ pc' = "writing" /\ outBuffer - offset > SegmentLen
         \/ pc' # "writing"
  PROVE  RequestOrder' /\ SentOrder'
<1> USE DEF InStepInv, StreamInv
<1>1. /\ NextSegment \in ClientPacket /\ NextSegment \in Segment
      /\ NextSegment # ResetMarker /\ NextSegment.call = call
  BY NextSegmentType, SegmentNoMarker
  DEF TypeOK, WireInv, Position, NextSegment
<1>2. Ends(NextSegment) => pc' # "writing"
  <2>1. outBuffer - offset > SegmentLen => ~Ends(NextSegment)
    <3>1. /\ offset \in Nat /\ outBuffer \in Nat /\ SegmentLen \in Nat
      BY BoundsAssumption DEF TypeOK, ClientTypeOK
    <3>2. outBuffer - offset > SegmentLen =>
            /\ NextSegment.size = SegmentLen /\ NextSegment.offset = offset
            /\ NextSegment.total = outBuffer /\ NextSegment.type = "DATA"
      BY NextSegmentAdjoins DEF WireInv
    <3> QED BY <3>1, <3>2 DEF Ends
  <2> QED BY <2>1
<1>3. LastExecuted \in Nat /\ LastExecuted < call /\ call \in Nat
  BY ExecutedType, Kinds DEF RequestOrder
<1>4. PendingNext(NextSegment)
  BY <1>1, <1>2, <1>3 DEF PendingNext, LastExecuted
<1>5. \A p : Pending(p) => PendingNext(p)
  BY DEF Pending, PendingNext, LastExecuted
<1>6. /\ LastExecuted' <= call' /\ (pc' = "writing" => LastExecuted' < call')
  BY <1>3 DEF LastExecuted
<1>7. /\ Len(toServer) \in Nat /\ DOMAIN toServer = 1 .. Len(toServer)
      /\ \A i \in DOMAIN toServer' :
           \/ i \in DOMAIN toServer /\ toServer'[i] = toServer[i]
           \/ i = Len(toServer) + 1 /\ toServer'[i] = NextSegment
  <2>1. toServer \in Seq(ClientPacket)
    BY Kinds
  <2>2. Len(toServer) \in Nat /\ DOMAIN toServer = 1 .. Len(toServer)
    BY <2>1, LenProperties
  <2>3. CASE toServer' = toServer
    BY <2>2, <2>3
  <2>4. CASE toServer' = Append(toServer, NextSegment)
    BY <1>1, <2>1, <2>2, <2>4, AppendedCases
  <2> QED BY <2>2, <2>3, <2>4
<1>8. \A i \in DOMAIN toServer' : toServer'[i] # ResetMarker => PendingNext(toServer'[i])
  BY <1>4, <1>5, <1>7 DEF RequestOrder
<1>9. \A i \in DOMAIN request : PendingNext(request[i])
  BY <1>5 DEF RequestOrder
<1>10. ASSUME NEW i \in DOMAIN toServer', NEW j \in DOMAIN toServer', i < j,
              toServer'[i] # ResetMarker, toServer'[j] # ResetMarker,
              Ends(toServer'[i])
       PROVE  toServer'[i].call < toServer'[j].call
  <2>1. i \in DOMAIN toServer /\ toServer'[i] = toServer[i]
    BY <1>7, <1>10
  <2>2. CASE j \in DOMAIN toServer /\ toServer'[j] = toServer[j]
    BY <1>10, <2>1, <2>2 DEF RequestOrder
  <2>3. CASE toServer'[j] = NextSegment
    <3>1. Pending(toServer[i])
      BY <1>10, <2>1 DEF RequestOrder
    <3> QED BY <1>1, <1>10, <2>1, <2>3, <3>1 DEF Pending
  <2> QED BY <1>7, <2>2, <2>3
<1>11. ASSUME RequestComplete, NEW j \in DOMAIN toServer', toServer'[j] # ResetMarker
       PROVE  request[Len(request)].call < toServer'[j].call
  <2>1. CASE j \in DOMAIN toServer /\ toServer'[j] = toServer[j]
    BY <1>11, <2>1 DEF RequestOrder
  <2>2. CASE toServer'[j] = NextSegment
    <3>1. request # <<>> /\ Len(request) \in DOMAIN request
          /\ request[Len(request)] \in Segment
      BY <1>11, Kinds, LastOfSeq, LenProperties DEF RequestComplete
    <3>2. Pending(request[Len(request)]) /\ Ends(request[Len(request)])
      BY <1>11, <3>1, SegmentTypes DEF RequestOrder, RequestComplete
    <3> QED BY <1>1, <2>2, <3>2 DEF Pending
  <2> QED BY <1>7, <2>1, <2>2
<1>12. RequestComplete' = RequestComplete
  BY DEF RequestComplete
<1>13. RequestOrder'
  <2>1. \A i \in DOMAIN request' : PendingNext(request'[i])
    BY <1>9
  <2>2. \A i, j \in DOMAIN toServer' :
         /\ i < j /\ toServer'[i] # ResetMarker /\ toServer'[j] # ResetMarker
         /\ Ends(toServer'[i])
         => toServer'[i].call < toServer'[j].call
    BY <1>10
  <2>3. RequestComplete' =>
         \A j \in DOMAIN toServer' : toServer'[j] # ResetMarker =>
           request'[Len(request')].call < toServer'[j].call
    BY <1>11, <1>12
  <2> QED BY <1>6, <1>8, <2>1, <2>2, <2>3, OrderNext
<1>14. SentOrder'
  <2>1. /\ Len(sendPcks) \in Nat /\ DOMAIN sendPcks = 1 .. Len(sendPcks)
        /\ Len(sendPcks') = Len(sendPcks) + 1
        /\ \A i \in DOMAIN sendPcks' :
             \/ i \in DOMAIN sendPcks /\ sendPcks'[i] = sendPcks[i]
             \/ i = Len(sendPcks) + 1 /\ sendPcks'[i] = NextSegment
    BY <1>1, Kinds, AppendElements
  <2> QED BY <1>1, <1>2, <2>1 DEF SentOrder
<1> QED BY <1>13, <1>14

\* The reset marker is in no order with the requests.
LEMMA AcknowledgeOrder ==
  ASSUME InStepInv, AcknowledgeReset
  PROVE  RequestOrder' /\ SentOrder'
<1> USE DEF InStepInv, StreamInv
<1>1. UNCHANGED <<request, executed, call>> /\ pc' # "writing"
      /\ sendPcks' = <<ResetMarker>>
  BY DEF AcknowledgeReset, Raise, server, answer
<1>2. SentOrder'
  <2>1. \A i \in DOMAIN sendPcks' : i = 1 /\ sendPcks'[i] = ResetMarker
    BY <1>1
  <2>2. Len(sendPcks') = 1
    BY <1>1
  <2> QED BY <1>1, <2>1, <2>2 DEF SentOrder
<1>3. CASE toServer' = toServer
  BY <1>1, <1>2, <1>3, SameRequests
<1>4. CASE toServer' = toServer \o <<ResetMarker>>
  <2>1. toServer' = Append(toServer, ResetMarker)
    BY <1>4, Kinds
  <2>2. ResetMarker \in ClientPacket
    BY DEF ClientPacket
  <2>3. \A i \in DOMAIN toServer' :
          \/ i \in DOMAIN toServer /\ toServer'[i] = toServer[i]
          \/ toServer'[i] = ResetMarker
    <3>1. toServer \in Seq(ClientPacket)
      BY Kinds
    <3> QED BY <2>1, <2>2, <3>1, AppendedCases
  <2> QED
    BY <1>1, <1>2, <2>3 DEF RequestOrder, Pending, LastExecuted, RequestComplete
<1> QED
  BY <1>3, <1>4 DEF AcknowledgeReset, Send

\* RESEND: the whole request again, and nothing else.
LEMMA ResendOrder ==
  ASSUME InStepInv, ReadResend, Send(sendPcks), UNCHANGED client
  PROVE  RequestOrder' /\ SentOrder'
<1> USE DEF InStepInv, StreamInv
<1>1. /\ pc = "reading" /\ conn = "open" /\ toClient # <<>> /\ Packet = Resend
      /\ UNCHANGED server
  BY DEF ReadResend, Receive
<1>2. UNCHANGED <<pc, call, sendPcks, request, executed>>
  BY <1>1 DEF client, server, answer
<1>3. SentOrder'
  BY <1>2, SameSent
<1>4. CASE link # "up"
  BY <1>2, <1>3, <1>4, SameRequests DEF Send
<1>5. CASE link = "up"
  <2>1. LastExecuted # call /\ toServer = <<>> /\ request = <<>>
    BY <1>1, <1>5, ResendAlone
  <2>2. toServer' = sendPcks
    BY <1>5, <2>1, Kinds, ConcatEmptySeq DEF Send
  <2>3. LastExecuted < call
    BY <2>1, ExecutedType, Kinds DEF RequestOrder
  <2>4. \A i \in DOMAIN sendPcks : sendPcks[i] # ResetMarker =>
          sendPcks[i].call = call /\ PendingNext(sendPcks[i])
    BY <1>1, <1>2, <2>3, Kinds DEF SentOrder, PendingNext, LastExecuted
  <2>5. \A i, j \in DOMAIN sendPcks : i < j => ~Ends(sendPcks[i])
    <3>1. DOMAIN sendPcks = 1 .. Len(sendPcks) /\ Len(sendPcks) \in Nat
      BY Kinds, LenProperties
    <3> QED BY <3>1 DEF SentOrder
  <2>6. \A i \in DOMAIN request' : FALSE
    BY <1>2, <2>1
  <2>7. ~RequestComplete'
    BY <1>2, <2>1 DEF RequestComplete
  <2>8. LastExecuted' <= call' /\ pc' # "writing"
    BY <1>1, <1>2, <2>3 DEF LastExecuted, RequestOrder
  <2> QED
    BY <1>3, <2>2, <2>4, <2>5, <2>6, <2>7, <2>8, OrderNext
<1> QED BY <1>4, <1>5

\* Every step of the client keeps the requests in order ...
LEMMA ClientOrder ==
  ASSUME InStepInv, BeginCall \/ ClientStep
  PROVE  RequestOrder' /\ SentOrder'
<1> USE DEF InStepInv, StreamInv
<1>a. UNCHANGED <<request, executed>>
  BY ClientLeavesServer DEF server, answer
<1>1. CASE BeginCall
  <2>1. /\ call' = call + 1 /\ sendPcks' = <<>> /\ UNCHANGED toServer
        /\ call \in Nat /\ LastExecuted \in Nat /\ pc # "writing"
    BY <1>1, Kinds, ExecutedType DEF BeginCall, ResetBuffer
  <2>2. \A p \in Segment : Pending(p) => PendingNext(p)
    BY <1>a, <2>1, SegmentTypes DEF Pending, PendingNext, LastExecuted
  <2>3. /\ \A i \in DOMAIN toServer : toServer[i] # ResetMarker => toServer[i] \in Segment
        /\ \A i \in DOMAIN request : request[i] \in Segment
    BY Kinds, ToServerKinds, ElementOfSeq, LenProperties
  <2>4. SentOrder'
    BY <2>1 DEF SentOrder
  <2>5. LastExecuted' = LastExecuted /\ RequestComplete' = RequestComplete
    BY <1>a DEF LastExecuted, RequestComplete
  <2> QED
    <3>1. /\ \A i \in DOMAIN toServer' :
               toServer'[i] # ResetMarker => PendingNext(toServer'[i])
          /\ \A i \in DOMAIN request' : PendingNext(request'[i])
      BY <1>a, <2>1, <2>2, <2>3 DEF RequestOrder
    <3>2. LastExecuted' <= call' /\ LastExecuted' < call'
      BY <2>1, <2>5 DEF RequestOrder
    <3> QED
      BY <1>a, <2>1, <2>4, <2>5, <3>1, <3>2, OrderNext DEF RequestOrder
<1>2. CASE WriteSegment
  <2>1. <<NextSegment>> \in Seq(ClientPacket) /\ NextSegment \in ClientPacket
    BY <1>2, NextSegmentType DEF WriteSegment, TypeOK, WireInv, Position
  <2>2. toServer' = toServer \/ toServer' = toServer \o <<NextSegment>>
    BY <1>2 DEF WriteSegment, Send
  <2>3. toServer \o <<NextSegment>> = Append(toServer, NextSegment)
    BY <2>1, Kinds
  <2>4. /\ pc = "writing" /\ sendPcks' = Append(sendPcks, NextSegment)
        /\ UNCHANGED call
        /\ \/ pc' = "writing" /\ outBuffer - offset > SegmentLen
           \/ pc' # "writing"
    BY <1>2 DEF WriteSegment
  <2> QED BY <1>a, <2>2, <2>3, <2>4, WriteOrder
<1>3. CASE WriteFails
  <2>1. /\ pc = "writing" /\ sendPcks' = Append(sendPcks, NextSegment)
        /\ UNCHANGED <<call, toServer>> /\ pc' # "writing"
    BY <1>3 DEF WriteFails, Raise
  <2> QED BY <1>a, <2>1, WriteOrder
<1>4. CASE ReadResend
  <2>1. CASE Send(sendPcks) /\ UNCHANGED client
    BY <1>4, <2>1, ResendOrder
  <2>2. CASE Raise(conn) /\ UNCHANGED <<call, outBuffer, offset, sendPcks,
                                        inBuffer, got, toServer>>
    BY <1>a, <2>2, SameRequests, SameSent DEF Raise
  <2> QED BY <1>4, <2>1, <2>2 DEF ReadResend
<1>5. CASE ReadMarker
  <2>1. CASE AcknowledgeReset
    BY <2>1, AcknowledgeOrder
  <2>2. CASE pc' = "marker" /\ UNCHANGED <<call, sendPcks, toServer>>
    BY <1>a, <2>2, SameRequests, SameSent
  <2> QED BY <1>5, <2>1, <2>2 DEF ReadMarker
<1>6. CASE ReadNextMarker
  <2>1. CASE AcknowledgeReset
    BY <2>1, AcknowledgeOrder
  <2>2. CASE UNCHANGED <<pc, call, sendPcks, toServer>>
    BY <1>a, <2>2, SameRequests, SameSent
  <2> QED BY <1>6, <2>1, <2>2 DEF ReadNextMarker
<1>7. CASE TakeBytes \/ ReadCode \/ UnknownCode \/ ReadBody \/ DecodeFails
           \/ ReadData \/ ReadEof \/ TooManyTrials \/ AwaitData \/ WrongPacket
           \/ ReadTimesOut \/ ReadFails
  <2>1. UNCHANGED <<call, sendPcks, toServer>> /\ pc' # "writing"
    BY <1>7 DEF TakeBytes, ReadCode, UnknownCode, ReadBody, DecodeFails,
                ReadData, ReadEof, TooManyTrials, AwaitData, WrongPacket,
                ReadTimesOut, ReadFails, Raise
  <2> QED BY <1>a, <2>1, SameRequests, SameSent
<1> QED
  BY <1>1, <1>2, <1>3, <1>4, <1>5, <1>6, <1>7 DEF ClientStep

\* Taking the oldest packet keeps the order of the others.
LEMMA TailOrder ==
  ASSUME TypeOK, RequestOrder, toServer # <<>>, toServer' = Tail(toServer),
         UNCHANGED <<executed, call, pc>>
  PROVE  /\ \A i \in DOMAIN toServer' : /\ i \in Nat \ {0}
                                        /\ i + 1 \in DOMAIN toServer
                                        /\ toServer'[i] = toServer[i + 1]
         /\ 1 \in DOMAIN toServer /\ Head(toServer) = toServer[1]
         /\ \A i \in DOMAIN toServer' :
              toServer'[i] # ResetMarker => PendingNext(toServer'[i])
         /\ \A i, j \in DOMAIN toServer' :
              /\ i < j /\ toServer'[i] # ResetMarker /\ toServer'[j] # ResetMarker
              /\ Ends(toServer'[i])
              => toServer'[i].call < toServer'[j].call
<1>1. /\ \A i \in DOMAIN toServer' : /\ i \in Nat \ {0}
                                     /\ i + 1 \in DOMAIN toServer
                                     /\ toServer'[i] = toServer[i + 1]
      /\ 1 \in DOMAIN toServer /\ Head(toServer) = toServer[1]
  <2>1. toServer \in Seq(ClientPacket)
    BY Kinds
  <2> QED BY <2>1, TailElements
<1>2. ASSUME NEW i \in DOMAIN toServer', toServer'[i] # ResetMarker
      PROVE  PendingNext(toServer'[i])
  <2>1. Pending(toServer[i + 1])
    BY <1>1, <1>2 DEF RequestOrder
  <2> QED BY <1>1, <2>1 DEF Pending, PendingNext, LastExecuted
<1>3. ASSUME NEW i \in DOMAIN toServer', NEW j \in DOMAIN toServer', i < j,
             toServer'[i] # ResetMarker, toServer'[j] # ResetMarker,
             Ends(toServer'[i])
      PROVE  toServer'[i].call < toServer'[j].call
  <2>1. i + 1 < j + 1
    BY <1>1, <1>3
  <2> QED BY <1>1, <1>3, <2>1 DEF RequestOrder
<1> QED BY <1>1, <1>2, <1>3

\* ... and every step of the server.
LEMMA ServerOrder ==
  ASSUME InStepInv, ServerNext
  PROVE  RequestOrder' /\ SentOrder'
<1> USE DEF InStepInv, StreamInv
<1>a. UNCHANGED <<pc, call, sendPcks>>
  BY ServerLeavesClient DEF client
<1>b. SentOrder'
  BY <1>a, SameSent
<1>1. CASE ServerReceives
  <2>1. /\ toServer # <<>> /\ toServer' = Tail(toServer) /\ UNCHANGED executed
        /\ request' = Append(request, Head(toServer))
        /\ Head(toServer).type = "DATA"
    BY <1>1 DEF ServerReceives
  <2>2. /\ \A i \in DOMAIN toServer' : /\ i \in Nat \ {0}
                                       /\ i + 1 \in DOMAIN toServer
                                       /\ toServer'[i] = toServer[i + 1]
        /\ 1 \in DOMAIN toServer /\ Head(toServer) = toServer[1]
        /\ \A i \in DOMAIN toServer' :
              toServer'[i] # ResetMarker => PendingNext(toServer'[i])
        /\ \A i, j \in DOMAIN toServer' :
              /\ i < j /\ toServer'[i] # ResetMarker /\ toServer'[j] # ResetMarker
              /\ Ends(toServer'[i])
              => toServer'[i].call < toServer'[j].call
    BY <1>a, <2>1, TailOrder
  <2>3. Head(toServer) # ResetMarker /\ Head(toServer) \in Segment
    <3>1. Head(toServer) \in ClientPacket
      BY <2>1, Kinds, HeadTailProperties
    <3>2. Head(toServer) # ResetMarker
      BY <2>1 DEF ResetMarker
    <3> QED BY <3>1, <3>2, ToServerKinds
  <2>4. /\ \A i \in DOMAIN request' :
             \/ i \in DOMAIN request /\ request'[i] = request[i]
             \/ request'[i] = Head(toServer)
        /\ request'[Len(request')] = Head(toServer)
    <3>1. request \in Seq(Segment)
      BY Kinds
    <3>2. \A i \in DOMAIN request' :
             \/ i \in DOMAIN request /\ request'[i] = request[i]
             \/ request'[i] = Head(toServer)
      BY <2>1, <2>3, <3>1, AppendedCases
    <3>3. request'[Len(request')] = Head(toServer)
      BY <2>1, <2>3, <3>1, AppendElements
    <3> QED BY <3>2, <3>3
  <2>5. Pending(Head(toServer))
    BY <2>2, <2>3 DEF RequestOrder
  <2>6. \A p : Pending(p) => PendingNext(p)
    BY <1>a, <2>1 DEF Pending, PendingNext, LastExecuted
  <2>7. \A i \in DOMAIN request' : PendingNext(request'[i])
    BY <2>4, <2>5, <2>6 DEF RequestOrder
  <2>8. RequestComplete' =>
         \A j \in DOMAIN toServer' : toServer'[j] # ResetMarker =>
           request'[Len(request')].call < toServer'[j].call
    <3>1. SUFFICES ASSUME RequestComplete', NEW j \in DOMAIN toServer',
                          toServer'[j] # ResetMarker
                   PROVE  toServer[1].call < toServer[j + 1].call
      BY <2>2, <2>4
    <3>2. Ends(toServer[1])
      BY <2>2, <2>3, <2>4, <3>1, SegmentTypes DEF RequestComplete
    <3>3. 1 < j + 1
      BY <2>2
    <3> QED BY <2>2, <2>3, <3>1, <3>2, <3>3 DEF RequestOrder
  <2>9. LastExecuted' <= call' /\ (pc' = "writing" => LastExecuted' < call')
    BY <1>a, <2>1 DEF LastExecuted, RequestOrder
  <2> QED BY <1>b, <2>2, <2>7, <2>8, <2>9, OrderNext
<1>2. CASE ServerExecutes
  <2> DEFINE last == request[Len(request)]
  <2>1. /\ RequestComplete /\ request # <<>> /\ request' = <<>>
        /\ executed' = Append(executed, last.call) /\ UNCHANGED toServer
    BY <1>2 DEF ServerExecutes, RequestComplete
  <2>2. last \in Segment /\ Len(request) \in DOMAIN request
    BY <2>1, Kinds, LastOfSeq, LenProperties
  <2>3. Pending(last) /\ Ends(last)
    BY <2>1, <2>2, SegmentTypes DEF RequestOrder, RequestComplete
  <2>4. LastExecuted' = last.call
    <3>1. last.call \in 1 .. NumCalls
      BY <2>2 DEF Segment
    <3>2. executed \in Seq(1 .. NumCalls)
      BY DEF TypeOK, ServerTypeOK
    <3>3. /\ executed' # <<>> /\ Len(executed') = Len(executed) + 1
          /\ executed'[Len(executed) + 1] = last.call
      BY <2>1, <3>1, <3>2, AppendElements
    <3> QED BY <3>3 DEF LastExecuted
  <2>5. last.call \in Nat /\ call \in Nat
    BY <2>2, Kinds, SegmentTypes
  <2>6. LastExecuted' <= call' /\ (pc' = "writing" => LastExecuted' < call')
    BY <1>a, <2>3, <2>4, <2>5 DEF Pending
  <2>7. \A i \in DOMAIN toServer : toServer[i] # ResetMarker => PendingNext(toServer[i])
    BY <1>a, <2>1, <2>4 DEF RequestOrder, Pending, PendingNext
  <2>8. ~RequestComplete' /\ \A i \in DOMAIN request' : FALSE
    BY <2>1 DEF RequestComplete
  <2> QED BY <1>b, <2>1, <2>6, <2>7, <2>8, OrderNext DEF RequestOrder
<1>3. CASE ServerAsksResend
  <2>1. request' = <<>> /\ UNCHANGED <<toServer, executed>>
    BY <1>3 DEF ServerAsksResend
  <2>2. ~RequestComplete' /\ \A i \in DOMAIN request' : FALSE
    BY <2>1 DEF RequestComplete
  <2> QED
    BY <1>a, <1>b, <2>1, <2>2 DEF RequestOrder, Pending, LastExecuted
<1>4. CASE ServerResets
  <2>1. /\ toServer # <<>> /\ toServer' = Tail(toServer)
        /\ UNCHANGED <<executed, request>> /\ request = <<>>
    BY <1>4 DEF ServerResets, WireInv, Position, ResponsePosition
  <2>2. /\ \A i \in DOMAIN toServer' :
              toServer'[i] # ResetMarker => PendingNext(toServer'[i])
        /\ \A i, j \in DOMAIN toServer' :
              /\ i < j /\ toServer'[i] # ResetMarker /\ toServer'[j] # ResetMarker
              /\ Ends(toServer'[i])
              => toServer'[i].call < toServer'[j].call
    BY <1>a, <2>1, TailOrder
  <2>3. ~RequestComplete' /\ \A i \in DOMAIN request' : FALSE
    BY <2>1 DEF RequestComplete
  <2>4. LastExecuted' <= call' /\ (pc' = "writing" => LastExecuted' < call')
    BY <1>a, <2>1 DEF LastExecuted, RequestOrder
  <2> QED BY <1>b, <2>2, <2>3, <2>4, OrderNext
<1>5. CASE ServerSends \/ ServerInterrupts \/ ServerBreaks \/ ServerAsksReset
           \/ LinkGoesDown
  <2>1. UNCHANGED <<toServer, request, executed>>
    BY <1>5 DEF ServerSends, ServerInterrupts, ServerBreaks, ServerAsksReset,
                LinkGoesDown, answer
  <2> QED BY <1>a, <1>b, <2>1, SameRequests
<1> QED
  BY <1>1, <1>2, <1>3, <1>4, <1>5 DEF ServerNext, ServerStep

-----------------------------------------------------------------------------
(* What the client has.                                                    *)

\* The parts of View.
LEMMA ViewParts ==
  ASSUME TypeOK
  PROVE  /\ Len(got) \in Nat /\ Len(ret) \in Nat /\ Len(inBuffer) \in Nat
         /\ Len(View) = Len(got) + Len(ret) + Len(inBuffer)
         /\ DOMAIN View = 1 .. Len(View)
         /\ \A i \in 1 .. Len(got) : View[i] = got[i]
         /\ \A i \in 1 .. Len(ret) : View[Len(got) + i] = ret[i]
         /\ \A i \in 1 .. Len(inBuffer) : View[Len(got) + Len(ret) + i] = inBuffer[i]
         /\ ret = <<>> /\ inBuffer = <<>> => View = got
         /\ inBuffer = <<>> => View = got \o ret
         /\ got = <<>> /\ ret = <<>> /\ inBuffer = <<>> <=> View = <<>>
<1>1. /\ got \in Seq(Byte) /\ ret \in Seq(Byte) /\ inBuffer \in Seq(Byte)
      /\ got \o ret \in Seq(Byte) /\ View \in Seq(Byte)
  BY Kinds
<1>2. /\ Len(got \o ret) = Len(got) + Len(ret)
      /\ Len(got) \in Nat /\ Len(ret) \in Nat
      /\ \A i \in 1 .. Len(got) : (got \o ret)[i] = got[i]
      /\ \A i \in 1 .. Len(ret) : (got \o ret)[Len(got) + i] = ret[i]
  BY <1>1, ConcatElements
<1>3. /\ Len(View) = Len(got \o ret) + Len(inBuffer) /\ Len(inBuffer) \in Nat
      /\ DOMAIN View = 1 .. Len(View)
      /\ \A i \in 1 .. Len(got \o ret) : View[i] = (got \o ret)[i]
      /\ \A i \in 1 .. Len(inBuffer) : View[Len(got \o ret) + i] = inBuffer[i]
  BY <1>1, ConcatElements, LenProperties DEF View
<1>4. ASSUME NEW i \in 1 .. Len(ret)
      PROVE  View[Len(got) + i] = ret[i]
  <2>1. Len(got) + i \in 1 .. Len(got \o ret)
    BY <1>2
  <2>2. View[Len(got) + i] = (got \o ret)[Len(got) + i]
    BY <1>3, <2>1
  <2> QED BY <1>2, <2>2
<1>5. ASSUME NEW i \in 1 .. Len(got)
      PROVE  View[i] = got[i]
  <2>1. i \in 1 .. Len(got \o ret)
    BY <1>2
  <2>2. View[i] = (got \o ret)[i]
    BY <1>3, <2>1
  <2> QED BY <1>2, <2>2
<1>6. /\ inBuffer = <<>> => View = got \o ret
      /\ ret = <<>> => got \o ret = got
  BY <1>1, ConcatEmptySeq DEF View
<1>7. got = <<>> /\ ret = <<>> /\ inBuffer = <<>> <=> Len(View) = 0
  BY <1>1, <1>2, <1>3, EmptySeq
<1> QED BY <1>1, <1>2, <1>3, <1>4, <1>5, <1>6, <1>7, EmptySeq

\* A step that keeps the bytes, and reads on.
LEMMA SameView ==
  ASSUME ClientView, View' = View, UNCHANGED <<call, conn>>,
         pc = "reading", pc' = "reading", outcome' = outcome, ReadPosition'
  PROVE  ClientView'
BY DEF ClientView, InRead

\* A call that ends keeps what the caller got, and what is in in_buffer.
LEMMA EndedView ==
  ASSUME TypeOK, TypeOK', ClientView, pc' = "idle", ret' = <<>>,
         UNCHANGED <<call, inBuffer, got>>, inBuffer = <<>> \/ ret = <<>>
  PROVE  ClientView'
<1>1. CASE ret = <<>>
  BY <1>1 DEF ClientView, View, InRead
<1>2. CASE inBuffer = <<>>
  <2>1. View = got \o ret /\ View' = got
    BY <1>2, ViewParts, Kinds, ConcatEmptySeq DEF View
  <2>2. Stretch(got)
    BY <2>1, Kinds, StretchPrefix DEF ClientView
  <2>3. \A i \in DOMAIN got : got[i].call = call
    <3>1. \A i \in DOMAIN got : i \in DOMAIN View /\ View[i] = got[i]
      <4>1. Len(got) <= Len(View) /\ DOMAIN got = 1 .. Len(got)
        BY ViewParts, Kinds, LenProperties
      <4>2. \A i \in DOMAIN got : i \in DOMAIN View
        BY <4>1, ViewParts
      <4> QED BY <4>1, <4>2, ViewParts
    <3> QED BY <3>1 DEF ClientView
  <2>4. Stretch(View)' /\ \A i \in DOMAIN View' : View'[i].call = call'
    BY <2>1, <2>2, <2>3 DEF Stretch, Contiguous
  <2> QED BY <2>4 DEF ClientView, InRead
<1> QED BY <1>1, <1>2

\* write() leaves the buffers empty.
LEMMA WroteView ==
  ASSUME TypeOK, ClientView, pc = "writing",
         UNCHANGED <<call, conn, inBuffer, ret, got, outcome>>,
         \/ pc' = "writing"
         \/ pc' = "reading" /\ need' = 1 /\ field' = "code"
  PROVE  ClientView'
<1>1. View = <<>> /\ got = <<>> /\ ret = <<>> /\ inBuffer = <<>>
  BY ViewParts DEF ClientView
<1>2. View' = View
  BY DEF View
<1>3. ReadPosition' \/ pc' = "writing"
  BY <1>1, PlaceSmall, LengthOfMessage DEF ReadPosition
<1> QED BY <1>1, <1>2, <1>3 DEF ClientView, InRead

\* read() moves bytes from in_buffer to what it has gathered.
LEMMA TakeView ==
  ASSUME TypeOK, ClientView, TakeBytes
  PROVE  ClientView' /\ View' = View /\ Len(ret') + need' = Len(ret) + need
<1> DEFINE take == Lesser(Len(inBuffer), need)
           front == SubSeq(inBuffer, 1, take)
           rest == SubSeq(inBuffer, take + 1, Len(inBuffer))
<1>1. /\ pc = "reading" /\ take > 0 /\ ret' = ret \o front /\ inBuffer' = rest
      /\ need' = need - take
      /\ UNCHANGED <<pc, call, conn, field, outcome, got>>
  BY DEF TakeBytes
<1>2. /\ got \in Seq(Byte) /\ ret \in Seq(Byte) /\ inBuffer \in Seq(Byte)
      /\ need \in Nat /\ Len(inBuffer) \in Nat /\ Len(ret) \in Nat
  BY Kinds, LenProperties
<1>3. take \in Nat /\ take <= Len(inBuffer) /\ take <= need
  BY <1>2, LesserType
<1> HIDE DEF take
<1>4. \A i \in 1 .. Len(inBuffer) : inBuffer[i] \in Byte
  BY <1>2, ElementOfSeq
<1>5. /\ front \in Seq(Byte) /\ Len(front) = take
      /\ \A i \in 1 .. take : front[i] = inBuffer[i]
  BY <1>2, <1>3, <1>4, SubSeqProperties, EmptySeq
<1>6. /\ rest \in Seq(Byte) /\ Len(rest) = Len(inBuffer) - take
      /\ \A i \in 1 .. Len(inBuffer) - take : rest[i] = inBuffer[take + i]
  BY <1>2, <1>3, <1>4, SubSeqProperties, EmptySeq
<1> HIDE DEF front, rest
<1>7. front \o rest = inBuffer
  <2>1. /\ front \o rest \in Seq(Byte) /\ Len(front \o rest) = Len(inBuffer)
        /\ \A i \in 1 .. Len(inBuffer) :
             (front \o rest)[i] = IF i <= take THEN front[i] ELSE rest[i - take]
    <3>1. front \in Seq(Byte) /\ rest \in Seq(Byte)
      BY <1>5, <1>6
    <3>2. /\ front \o rest \in Seq(Byte)
          /\ Len(front \o rest) = Len(front) + Len(rest)
          /\ \A i \in 1 .. Len(front) + Len(rest) :
               (front \o rest)[i]
                 = IF i <= Len(front) THEN front[i] ELSE rest[i - Len(front)]
      BY <3>1, ConcatProperties
    <3>3. Len(front) = take /\ Len(front) + Len(rest) = Len(inBuffer)
      BY <1>2, <1>3, <1>5, <1>6
    <3> QED BY <3>2, <3>3
  <2>2. \A i \in 1 .. Len(inBuffer) : (front \o rest)[i] = inBuffer[i]
    <3>1. SUFFICES ASSUME NEW i \in 1 .. Len(inBuffer)
                   PROVE  (front \o rest)[i] = inBuffer[i]
      OBVIOUS
    <3>2. CASE i <= take
      <4>1. i \in 1 .. take
        BY <1>2, <1>3, <3>2
      <4>2. (front \o rest)[i] = front[i]
        BY <2>1, <3>2
      <4> QED BY <1>5, <4>1, <4>2
    <3>3. CASE i > take
      <4>1. i - take \in 1 .. Len(inBuffer) - take /\ take + (i - take) = i
        BY <1>2, <1>3, <3>3
      <4>2. (front \o rest)[i] = rest[i - take]
        BY <1>3, <2>1, <3>3
      <4>3. rest[i - take] = inBuffer[take + (i - take)]
        BY <1>6, <4>1
      <4> QED BY <4>1, <4>2, <4>3
    <3>4. i \in Nat /\ take \in Nat
      BY <1>2, <1>3
    <3>5. i <= take \/ i > take
      BY <3>4
    <3> QED BY <3>2, <3>3, <3>5
  <2> QED BY <1>2, <2>1, <2>2, SeqEqual
<1>8. View' = View
  <2>a. /\ got \in Seq(Byte) /\ ret \in Seq(Byte) /\ inBuffer \in Seq(Byte)
        /\ front \in Seq(Byte) /\ rest \in Seq(Byte)
    BY <1>2, <1>5, <1>6
  <2>b. Regrouped(got, ret, front, rest)
    BY <2>a, Regroup
  <2> QED BY <1>1, <1>7, <2>b DEF View, Regrouped
<1>9. Len(ret') + need' = Len(ret) + need
  <2>1. Len(ret') = Len(ret) + take
    BY <1>1, <1>2, <1>5, ConcatProperties
  <2> QED BY <1>1, <1>2, <1>3, <2>1
<1>10. ReadPosition'
  BY <1>1, <1>9 DEF ClientView, InRead, ReadPosition
<1> QED BY <1>1, <1>8, <1>9, <1>10, SameView

\* The code byte is in its place.
LEMMA CodePlace ==
  ASSUME TypeOK, ClientView, pc = "reading", need = 0, field = "code"
  PROVE  /\ StartsMessage(ret[1]) /\ Len(ret) = 1
         /\ Len(got \o ret) = Len(got) + 1 /\ Place(Len(got) + 1) = 1
<1>1. Place(Len(got)) = 0 /\ Len(ret) = 1
  BY ViewParts DEF ClientView, InRead, ReadPosition
<1>2. View[Len(got) + 1] = ret[1] /\ Len(got) + 1 \in 1 .. Len(View)
  BY <1>1, ViewParts
<1>3. Place(ret[1].n) = Place(Len(got) + 1)
  BY <1>2 DEF ClientView, Stretch
<1>4. Place(Len(got) + 1) = Place(0 + 1) /\ Place(1) = 1
  <2>1. Len(got) \in Nat /\ Place(0) = 0 /\ Place(1) = 1
    BY ViewParts, PlaceSmall, LengthOfMessage
  <2> QED BY <1>1, <2>1, PlaceSum
<1>5. Len(got \o ret) = Len(got) + 1
  <2>1. got \in Seq(Byte) /\ ret \in Seq(Byte)
    BY Kinds
  <2>2. Len(got \o ret) = Len(got) + Len(ret)
    BY <2>1, ConcatProperties
  <2> QED BY <1>1, <2>2
<1> QED BY <1>1, <1>3, <1>4, <1>5 DEF StartsMessage, Place

\* So the code byte is never unknown ...
LEMMA NoUnknownCode ==
  ASSUME TypeOK, ClientView
  PROVE  ~UnknownCode
BY CodePlace DEF UnknownCode

\* ... and the caller takes bytes out of what read() gathered.
LEMMA TakenView ==
  ASSUME TypeOK, got' = got \o ret, ret' = <<>>, UNCHANGED inBuffer
  PROVE  View' = View
<1>1. got \o ret \in Seq(Byte)
  BY Kinds
<1>2. (got \o ret) \o <<>> = got \o ret
  BY <1>1, ConcatEmptySeq
<1> QED BY <1>2 DEF View

\* It does so with the code byte ...
LEMMA CodeView ==
  ASSUME TypeOK, ClientView, ReadCode
  PROVE  ClientView' /\ View' = View
<1>1. /\ pc = "reading" /\ need = 0 /\ field = "code" /\ got' = got \o ret
      /\ ret' = <<>> /\ need' = MessageLen - 1 /\ field' = "body"
      /\ UNCHANGED <<pc, call, conn, inBuffer, outcome>>
  BY DEF ReadCode
<1>2. View' = View
  BY <1>1, TakenView
<1>3. ReadPosition'
  <2>1. Len(got') = Len(got) + 1 /\ Place(Len(got) + 1) = 1
    BY <1>1, CodePlace
  <2>2. Len(ret') + need' = MessageLen - 1
    BY <1>1, LengthOfMessage
  <2> QED BY <1>1, <2>1, <2>2 DEF ReadPosition
<1> QED BY <1>1, <1>2, <1>3, SameView

\* A body that is complete ends its message.
LEMMA BodyPlace ==
  ASSUME TypeOK, ClientView, pc = "reading", need = 0, field = "body"
  PROVE  /\ Len(ret) = MessageLen - 1 /\ Place(Len(got)) = 1
         /\ Len(got) \in 1 .. Len(View)
         /\ Len(got \o ret) = Len(got) + (MessageLen - 1)
         /\ Place(Len(got) + (MessageLen - 1)) = 0
<1>1. Place(Len(got)) = 1 /\ Len(ret) = MessageLen - 1
  BY ViewParts DEF ClientView, InRead, ReadPosition
<1>2. Len(got) # 0
  BY <1>1, PlaceSmall, LengthOfMessage
<1>3. Len(got \o ret) = Len(got) + (MessageLen - 1)
  <2>1. got \in Seq(Byte) /\ ret \in Seq(Byte)
    BY Kinds
  <2>2. Len(got \o ret) = Len(got) + Len(ret)
    BY <2>1, ConcatProperties
  <2> QED BY <1>1, <2>2
<1>4. /\ MessageLen - 1 \in Nat /\ 1 + (MessageLen - 1) = MessageLen
      /\ Place(1) = 1
  BY LengthOfMessage, PlaceSmall
<1>5. Place(Len(got) + (MessageLen - 1)) = Place(1 + (MessageLen - 1))
  BY <1>1, <1>4, ViewParts, PlaceSum
<1> QED BY <1>1, <1>2, <1>3, <1>4, <1>5, ViewParts, PlaceSmall

\* ... and with the body, after which the next message begins.
LEMMA BodyView ==
  ASSUME TypeOK, ClientView, ReadBody
  PROVE  ClientView' /\ View' = View
<1>1. /\ pc = "reading" /\ need = 0 /\ field = "body" /\ got' = got \o ret
      /\ ret' = <<>> /\ field' = "code"
      /\ UNCHANGED <<call, conn, inBuffer>>
      /\ \/ pc' = "idle"
         \/ need' = 1 /\ UNCHANGED <<pc, outcome>>
  BY DEF ReadBody
<1>2. View' = View
  BY <1>1, TakenView
<1>3. CASE pc' = "idle"
  BY <1>1, <1>2, <1>3 DEF ClientView, InRead
<1>4. CASE need' = 1 /\ UNCHANGED <<pc, outcome>>
  <2>1. Place(Len(got')) = 0
    BY <1>1, BodyPlace
  <2>2. Len(ret') + need' = 1
    BY <1>1, <1>4
  <2>3. ReadPosition'
    BY <1>1, <1>4, <2>1, <2>2 DEF ReadPosition
  <2> QED BY <1>1, <1>2, <1>4, <2>3, SameView
<1> QED BY <1>1, <1>3, <1>4

-----------------------------------------------------------------------------
\* What is next to be read while the client reads.
LEMMA NextPacket ==
  ASSUME InStepInv, conn = "open", InRead(pc), toClient # <<>>
  PROVE  /\ 1 \in DOMAIN toClient /\ Packet = toClient[1] /\ Packet \in ServerPacket
         /\ ToClientShape /\ BreakCount
         /\ LastExecuted = call => Answered
         /\ LastExecuted # call => Unanswered
         /\ IsData(Packet) \/ Packet \in {BreakMarker, ResetMarker, Resend, Eof}
<1>1. toClient \in Seq(ServerPacket)
  BY Kinds DEF InStepInv
<1>2. 1 \in DOMAIN toClient /\ Packet = toClient[1]
  BY <1>1, TailElements DEF Packet
<1>3. toClient[1] \in ServerPacket
  BY <1>1, <1>2, ElementOfSeq, LenProperties
<1>4. /\ ToClientShape /\ BreakCount
      /\ IF LastExecuted = call THEN Answered ELSE Unanswered
  BY DEF InStepInv, StreamInv, ToClient
<1> QED BY <1>2, <1>3, <1>4 DEF ToClientShape

\* Data is never a marker, a RESEND or the end of the connection.
LEMMA DataKind ==
  ASSUME NEW p, IsData(p)
  PROVE  p \notin {BreakMarker, ResetMarker, Resend, Eof}
BY DEF IsData, BreakMarker, ResetMarker, Resend, Eof

\* A data packet that is read goes on where the client is.
LEMMA NextData ==
  ASSUME InStepInv, conn = "open", InRead(pc), toClient # <<>>, IsData(Packet)
  PROVE  /\ LastExecuted = call /\ Answered /\ Packet.bytes \in Seq(Byte)
         /\ Piece(Packet.bytes) /\ Fits(View, Packet.bytes[1])
<1>1. LastExecuted = call /\ Answered
  BY NextPacket, DataKind DEF Unanswered
<1>2. Packet.bytes \in Seq(Byte)
  BY NextPacket DEF ServerPacket, IsData, ResetMarker, BreakMarker, Resend
<1>3. Piece(Packet.bytes) /\ Fits(View, Packet.bytes[1])
  BY <1>1, NextPacket DEF Answered, Flow
<1> QED BY <1>1, <1>2, <1>3

\* The client has the response up to that packet, and then with it.
LEMMA GrewView ==
  ASSUME InStepInv, conn = "open", InRead(pc), toClient # <<>>, IsData(Packet),
         inBuffer = <<>>, inBuffer' = Packet.bytes, pc' = "reading",
         UNCHANGED <<call, conn, ret, need, field, outcome, got>>
  PROVE  ClientView' /\ View' = View \o Packet.bytes
<1>a. TypeOK /\ ClientView
  BY DEF InStepInv, StreamInv
<1> DEFINE bytes == Packet.bytes
<1>1. /\ bytes \in Seq(Byte) /\ Piece(bytes) /\ Fits(View, bytes[1])
  BY NextData
<1>2. View \in Seq(Byte) /\ View = got \o ret /\ View' = (got \o ret) \o bytes
  BY <1>a, ViewParts, Kinds DEF View
<1> HIDE DEF bytes
<1>3. Stretch(View \o bytes)
  BY <1>a, <1>1, <1>2, StretchGrows DEF Piece, ClientView
<1>4. \A i \in DOMAIN (View \o bytes) : (View \o bytes)[i].call = call
  <2>1. /\ DOMAIN bytes = 1 .. Len(bytes)
        /\ \A i \in DOMAIN (View \o bytes) :
             \/ i \in DOMAIN View /\ (View \o bytes)[i] = View[i]
             \/ /\ i - Len(View) \in DOMAIN bytes
                /\ (View \o bytes)[i] = bytes[i - Len(View)]
    BY <1>1, <1>2, ConcatElements
  <2>2. \A i \in DOMAIN bytes : bytes[i].call = call
    BY <1>1, <2>1 DEF Piece, Own
  <2> QED BY <1>a, <2>1, <2>2 DEF ClientView
<1>5. View' = View \o bytes
  BY <1>2
<1>6. ReadPosition'
  BY <1>a DEF ClientView, ReadPosition
<1> QED
  BY <1>a, <1>3, <1>4, <1>5, <1>6 DEF ClientView, Stretch, Contiguous, InRead, bytes

\* A marker that is read comes after everything that was sent, and so where a
\* message ends.
LEMMA MarkerBoundary ==
  ASSUME InStepInv, conn = "open", InRead(pc), toClient # <<>>,
         Packet \in {BreakMarker, ResetMarker}
  PROVE  /\ LastExecuted = call /\ Answered /\ CaughtUp
         /\ phase \in {"breaking", "interrupted"}
         /\ Packet = ResetMarker => phase = "interrupted"
         /\ Place(Len(View)) = 0
<1>1. LastExecuted = call /\ Answered
  BY NextPacket, PacketsDiffer DEF Unanswered
<1>2. /\ phase \in {"breaking", "interrupted"}
      /\ Packet = ResetMarker => phase = "interrupted"
  BY NextPacket DEF ToClientShape
<1>3. CaughtUp
  BY <1>1, NextPacket, DataKind DEF Answered, Flow
<1>4. Place(sent) = 0
  BY <1>2 DEF InStepInv, StreamInv, ServerPosition
<1>5. CASE View = <<>>
  BY <1>1, <1>2, <1>3, <1>5, PlaceSmall, LengthOfMessage
<1>6. CASE View # <<>>
  <2>1. Len(View) \in 1 .. Len(View)
    BY <1>6, Kinds, LastOfSeq DEF InStepInv
  <2>2. Place(View[Len(View)].n) = 0
    BY <1>3, <1>4, <1>6 DEF CaughtUp
  <2>3. Place(Len(View)) = 0
    BY <2>1, <2>2 DEF InStepInv, StreamInv, ClientView, Stretch
  <2> QED BY <1>1, <1>2, <1>3, <2>3
<1> QED BY <1>5, <1>6

\* read() is then before a code byte.
LEMMA FieldBoundary ==
  ASSUME TypeOK, ClientView, pc = "reading", Waiting, Place(Len(View)) = 0
  PROVE  ret = <<>> /\ inBuffer = <<>> /\ field = "code" /\ need = 1
<1>1. /\ inBuffer = <<>> /\ need > 0 /\ ReadPosition
      /\ need \in Nat /\ Len(ret) \in Nat /\ Len(got) \in Nat
      /\ ret \in Seq(Byte)
  BY Kinds, ViewParts DEF Waiting, ClientView, InRead
<1>2. field # "body"
  <2>1. SUFFICES ASSUME field = "body" PROVE FALSE
    OBVIOUS
  <2>2. /\ Place(Len(got)) = 1 /\ 1 + Len(ret) \in 0 .. MessageLen - 1
        /\ Place(1) = 1
    BY <1>1, <2>1, LengthOfMessage, PlaceSmall DEF ReadPosition
  <2>3. Place(Len(got) + Len(ret)) = Place(1 + Len(ret))
    <3>1. PICK a, b, k \in Nat : a = Len(got) /\ b = 1 /\ k = Len(ret)
      BY <1>1
    <3>2. Place(a) = Place(b)
      BY <2>2, <3>1
    <3>3. Place(a + k) = Place(b + k)
      BY <3>2, PlaceSum
    <3> QED BY <3>1, <3>3
  <2>4. Len(View) = Len(got) + Len(ret)
    BY <1>1, ViewParts
  <2>5. Place(1 + Len(ret)) = 1 + Len(ret)
    BY <2>2, PlaceSmall
  <2> QED BY <1>1, <2>3, <2>4, <2>5
<1>3. field = "code"
  BY <1>2 DEF TypeOK, ClientTypeOK
<1>4. Len(ret) = 0 /\ need = 1
  BY <1>1, <1>3 DEF ReadPosition
<1> QED BY <1>1, <1>3, <1>4, EmptySeq

\* Reading a marker leaves what the client has alone.
LEMMA MarkedView ==
  ASSUME ClientView, conn = "open", InRead(pc), InRead(pc'),
         ret = <<>>, inBuffer = <<>>, inBuffer' = <<>>, field = "code",
         UNCHANGED <<call, conn, ret, need, field, outcome, got>>
  PROVE  ClientView' /\ View' = View
<1>1. View' = View
  BY DEF View
<1>2. ReadPosition'
  BY DEF ClientView, ReadPosition
<1> QED BY <1>1, <1>2 DEF ClientView, InRead

\* A reading call that raises.
LEMMA RaisedView ==
  ASSUME TypeOK, TypeOK', ClientView, Waiting \/ pc \in {"writing", "marker"},
         Raise(conn'),
         UNCHANGED <<call, inBuffer, got>>
  PROVE  ClientView'
<1>1. inBuffer = <<>> \/ ret = <<>>
  BY DEF ClientView, InRead, ReadPosition, Waiting
<1> QED BY <1>1, EndedView DEF Raise

\* Every step of the client leaves it with one stretch of the response.
LEMMA ClientViewStep ==
  ASSUME StaysInStep, InStepInv, TypeOK', BeginCall \/ ClientStep
  PROVE  ClientView'
<1>a. TypeOK /\ ClientView
  BY DEF InStepInv, StreamInv
<1>1. CASE BeginCall
  <2>1. /\ ret' = <<>> /\ inBuffer' = <<>> /\ got' = <<>>
        /\ pc' = "writing" /\ outcome' = "none"
    BY <1>a, <1>1 DEF BeginCall, ResetBuffer, ClientView, InRead
  <2>2. View' = <<>>
    BY <2>1, ConcatEmptySeq, EmptySeq DEF View
  <2> QED BY <2>1, <2>2, EmptyStretch DEF ClientView, InRead, Stretch, Contiguous
<1>2. CASE WriteSegment
  BY <1>a, <1>2, WroteView DEF WriteSegment
<1>3. CASE WriteFails \/ TooManyTrials \/ ReadTimesOut \/ ReadFails \/ ReadEof
           \/ WrongPacket
  <2>1. Waiting \/ pc \in {"writing", "marker"}
    BY <1>3 DEF WriteFails, TooManyTrials, ReadTimesOut, ReadFails, ReadEof,
                WrongPacket, Waiting
  <2>2. Raise(conn') /\ UNCHANGED <<call, inBuffer, got>>
    BY <1>3 DEF WriteFails, TooManyTrials, ReadTimesOut, ReadFails, ReadEof,
                WrongPacket, Raise
  <2> QED BY <1>a, <2>1, <2>2, RaisedView
<1>4. CASE TakeBytes
  BY <1>a, <1>4, TakeView
<1>5. CASE ReadCode
  BY <1>a, <1>5, CodeView
<1>6. CASE UnknownCode
  BY <1>a, <1>6, NoUnknownCode
<1>7. CASE ReadBody
  BY <1>a, <1>7, BodyView
<1>8. CASE DecodeFails
  BY <1>8 DEF DecodeFails, StaysInStep
<1>9. CASE ReadData
  <2>1. /\ conn = "open" /\ InRead(pc) /\ toClient # <<>> /\ IsData(Packet)
        /\ inBuffer = <<>> /\ pc' = "reading"
        /\ inBuffer' = inBuffer \o Packet.bytes
        /\ UNCHANGED <<call, conn, ret, need, field, outcome, got>>
    BY <1>9 DEF ReadData, Receive, Waiting, InRead, IsData, TypeOK
  <2>2. Packet.bytes \in Seq(Byte)
    BY <2>1, NextData
  <2>3. inBuffer' = Packet.bytes
    BY <2>1, <2>2, ConcatEmptySeq
  <2> QED BY <2>1, <2>3, GrewView
<1>10. CASE ReadResend
  <2>1. CASE UNCHANGED client
    BY <1>a, <2>1 DEF client, ClientView, ReadPosition, View, InRead
  <2>2. CASE Raise(conn) /\ UNCHANGED <<call, inBuffer, got>>
    BY <1>a, <1>10, <2>2, RaisedView DEF ReadResend, Raise
  <2> QED BY <1>10, <2>1, <2>2 DEF ReadResend
<1>11. CASE ReadMarker \/ ReadNextMarker
  <2>1. /\ conn = "open" /\ InRead(pc) /\ toClient # <<>> /\ Waiting
        /\ Packet \in {BreakMarker, ResetMarker} /\ pc \in {"reading", "marker"}
    BY <1>11 DEF ReadMarker, ReadNextMarker, Receive, Waiting, InRead
  <2>2. ret = <<>> /\ inBuffer = <<>> /\ field = "code"
    <3>1. CASE pc = "reading"
      BY <1>a, <2>1, <3>1, MarkerBoundary, FieldBoundary
    <3>2. CASE pc # "reading"
      BY <1>a, <2>1, <3>2 DEF ClientView, ReadPosition
    <3> QED BY <3>1, <3>2
  <2>3. CASE AcknowledgeReset
    <3>1. CASE pc' = "awaitData" /\ UNCHANGED <<conn, ret, need, field, outcome>>
      BY <1>a, <2>1, <2>2, <2>3, <3>1, MarkedView DEF AcknowledgeReset, InRead
    <3>2. CASE Raise(conn)
      BY <1>a, <2>1, <2>2, <2>3, <3>2, RaisedView DEF AcknowledgeReset, Raise
    <3> QED BY <2>3, <3>1, <3>2 DEF AcknowledgeReset
  <2>4. CASE ~AcknowledgeReset
    <3>1. /\ pc' = "marker" /\ inBuffer' = <<>>
          /\ UNCHANGED <<call, conn, ret, need, field, outcome, got>>
      BY <1>11, <2>2, <2>4 DEF ReadMarker, ReadNextMarker
    <3> QED BY <1>a, <2>1, <2>2, <3>1, MarkedView DEF InRead
  <2> QED BY <2>3, <2>4
<1>12. CASE AwaitData
  <2>1. /\ conn = "open" /\ InRead(pc) /\ toClient # <<>> /\ pc = "awaitData"
        /\ pc' = "reading" /\ inBuffer' = Packet.bytes /\ Packet.type = "DATA"
        /\ UNCHANGED <<call, conn, ret, need, field, outcome, got>>
    BY <1>12 DEF AwaitData, Receive, InRead
  <2>2. ret = <<>> /\ inBuffer = <<>> /\ field = "code"
    BY <1>a, <2>1 DEF ClientView, ReadPosition
  <2>3. CASE IsData(Packet)
    BY <2>1, <2>2, <2>3, GrewView
  <2>4. CASE ~IsData(Packet)
    <3>1. Packet = Eof
      BY <2>1, <2>4, NextPacket DEF BreakMarker, ResetMarker, Resend
    <3>2. inBuffer' = <<>>
      BY <2>1, <3>1 DEF Eof
    <3> QED BY <1>a, <2>1, <2>2, <3>2, MarkedView DEF InRead
  <2> QED BY <2>3, <2>4
<1> QED
  BY <1>1, <1>2, <1>3, <1>4, <1>5, <1>6, <1>7, <1>8, <1>9, <1>10, <1>11, <1>12
  DEF ClientStep

-----------------------------------------------------------------------------
(* What is on its way to the client.                                       *)

\* A packet less, and nothing else that its order depends on.
LEMMA TailShape ==
  ASSUME TypeOK, ToClientShape, Receive, UNCHANGED <<phase, link>>
  PROVE  /\ ToClientShape'
         /\ \A i \in DOMAIN toClient' : /\ i \in Nat \ {0} /\ i + 1 \in DOMAIN toClient
                                        /\ toClient'[i] = toClient[i + 1]
                                        /\ toClient'[i] # Resend
         /\ Len(toClient) \in Nat \ {0} /\ Len(toClient') = Len(toClient) - 1
         /\ DOMAIN toClient = 1 .. Len(toClient)
         /\ DOMAIN toClient' = 1 .. Len(toClient) - 1
         /\ 1 \in DOMAIN toClient /\ Packet = toClient[1]
<1>1. /\ toClient' = Tail(toClient) /\ toClient # <<>> /\ toClient \in Seq(ServerPacket)
  BY Kinds DEF Receive
<1>2. /\ 1 \in DOMAIN toClient /\ Packet = toClient[1]
      /\ Len(toClient) \in Nat \ {0} /\ Len(toClient') = Len(toClient) - 1
      /\ DOMAIN toClient = 1 .. Len(toClient)
      /\ DOMAIN toClient' = 1 .. Len(toClient) - 1
      /\ \A i \in DOMAIN toClient' : /\ i \in Nat \ {0} /\ i + 1 \in DOMAIN toClient
                                     /\ toClient'[i] = toClient[i + 1]
  BY <1>1, TailElements DEF Packet
<1>3. \A i \in DOMAIN toClient' : toClient'[i] # Resend
  BY <1>2 DEF ToClientShape
<1>4. ToClientShape'
  <2>1. SUFFICES ASSUME NEW i \in DOMAIN toClient'
        PROVE  /\ IsData(toClient'[i])
                    \/ toClient'[i] \in {BreakMarker, ResetMarker, Resend, Eof}
               /\ toClient'[i] = Eof => i = Len(toClient') /\ link = "down"
               /\ toClient'[i] = BreakMarker => phase \in {"breaking", "interrupted"}
               /\ toClient'[i] = ResetMarker => phase = "interrupted"
               /\ \A j \in DOMAIN toClient' : i < j =>
                    /\ IsData(toClient'[j]) => IsData(toClient'[i])
                    /\ toClient'[j] \in {BreakMarker, ResetMarker} =>
                         IsData(toClient'[i]) \/ toClient'[i] = BreakMarker
    BY <1>3 DEF ToClientShape, IsData
  <2>2. /\ IsData(toClient'[i])
             \/ toClient'[i] \in {BreakMarker, ResetMarker, Resend, Eof}
        /\ toClient'[i] = Eof => i = Len(toClient') /\ link = "down"
        /\ toClient'[i] = BreakMarker => phase \in {"breaking", "interrupted"}
        /\ toClient'[i] = ResetMarker => phase = "interrupted"
    BY <1>2 DEF ToClientShape
  <2>3. ASSUME NEW j \in DOMAIN toClient', i < j
        PROVE  /\ IsData(toClient'[j]) => IsData(toClient'[i])
               /\ toClient'[j] \in {BreakMarker, ResetMarker} =>
                    IsData(toClient'[i]) \/ toClient'[i] = BreakMarker
    <3>1. i + 1 < j + 1 /\ i + 1 \in DOMAIN toClient /\ j + 1 \in DOMAIN toClient
      BY <1>2, <2>3
    <3> QED BY <1>2, <3>1 DEF ToClientShape
  <2> QED BY <2>2, <2>3
<1> QED BY <1>2, <1>3, <1>4

\* After a packet that is neither data nor a break marker comes nothing but
\* the end of the connection.
LEMMA EndRemains ==
  ASSUME TypeOK, ToClientShape, Receive, UNCHANGED <<phase, link>>,
         Packet \in {ResetMarker, Resend, Eof}
  PROVE  \A i \in DOMAIN toClient' : toClient'[i] = Eof
<1> SUFFICES ASSUME NEW i \in DOMAIN toClient'
             PROVE  toClient'[i] = Eof
  OBVIOUS
<1>1. /\ i + 1 \in DOMAIN toClient /\ 1 \in DOMAIN toClient /\ 1 < i + 1
      /\ toClient'[i] = toClient[i + 1] /\ toClient'[i] # Resend
      /\ Packet = toClient[1]
  BY TailShape
<1>2. ~IsData(toClient[1]) /\ toClient[1] # BreakMarker
  BY <1>1, DataKind, PacketsDiffer
<1> QED BY <1>1, <1>2 DEF ToClientShape

\* On a link that is up, that is nothing.
LEMMA NothingRemains ==
  ASSUME TypeOK, ToClientShape, link = "up",
         \A i \in DOMAIN toClient : toClient[i] = Eof
  PROVE  toClient = <<>>
<1>1. \A i \in DOMAIN toClient : FALSE
  BY DEF ToClientShape
<1> QED BY <1>1, NoElement, Kinds

\* The break markers that remain.
LEMMA TailBreaks ==
  ASSUME TypeOK, ToClientShape, BreakCount, Receive, UNCHANGED <<phase, link, breaks>>,
         trials' \in Nat, trials' <= trials, pc' # "marker" => trials' = 0,
         pc' = "marker" => pc = "marker"
  PROVE  BreakCount'
<1>a. trials \in Nat /\ breaks \in Nat
  BY Kinds
<1>1. ASSUME NEW i \in DOMAIN toClient', NEW j \in DOMAIN toClient', i <= j,
             toClient'[i] = BreakMarker, toClient'[j] = BreakMarker
      PROVE  trials' + (j - i) + 1 <= breaks
  <2>1. /\ i \in Nat /\ j \in Nat
        /\ i + 1 \in DOMAIN toClient /\ j + 1 \in DOMAIN toClient
        /\ toClient'[i] = toClient[i + 1] /\ toClient'[j] = toClient[j + 1]
    BY TailShape
  <2>2. trials + ((j + 1) - (i + 1)) + 1 <= breaks
    BY <1>1, <2>1 DEF BreakCount
  <2> QED BY <1>a, <2>1, <2>2
<1> QED BY <1>a, <1>1 DEF BreakCount

\* One of them read.
LEMMA TakenBreak ==
  ASSUME TypeOK, ToClientShape, BreakCount, Receive, UNCHANGED <<phase, link, breaks>>,
         Packet = BreakMarker, trials' = trials + 1, pc' = "marker"
  PROVE  BreakCount' /\ trials < breaks
<1>a. trials \in Nat /\ breaks \in Nat
  BY Kinds
<1>b. 1 \in DOMAIN toClient /\ toClient[1] = BreakMarker
  BY TailShape
<1>1. trials + 1 <= breaks
  <2>1. trials + (1 - 1) + 1 <= breaks
    BY <1>b DEF BreakCount
  <2> QED BY <1>a, <2>1
<1>2. ASSUME NEW i \in DOMAIN toClient', NEW j \in DOMAIN toClient', i <= j,
             toClient'[i] = BreakMarker, toClient'[j] = BreakMarker
      PROVE  trials' + (j - i) + 1 <= breaks
  <2>1. /\ i \in Nat \ {0} /\ j \in Nat /\ j + 1 \in DOMAIN toClient
        /\ toClient'[j] = toClient[j + 1]
    BY TailShape
  <2>2. trials + ((j + 1) - 1) + 1 <= breaks
    BY <1>2, <1>b, <2>1 DEF BreakCount
  <2> QED BY <1>a, <2>1, <2>2
<1> QED BY <1>a, <1>1, <1>2 DEF BreakCount

-----------------------------------------------------------------------------
(* The flow of bytes.                                                      *)

\* b is the server's own byte after the step; so are the bytes of a packet.
OwnNext(b) ==
  /\ b.call = call'
  /\ IF b.round = round'
     THEN b.n <= sent' /\ b.summary = (b.n > length' - MessageLen)
     ELSE b.round < round' /\ b.summary = FALSE

PieceNext(b) ==
  /\ OneRun(b)
  /\ \A i \in 1 .. Len(b) : OwnNext(b[i]) /\ b[i].round = round'

\* What Flow says of the state after a step.
LEMMA FlowNext ==
  ASSUME \A i \in DOMAIN View' : OwnNext(View'[i]),
         \A i \in DOMAIN toClient' : IsData(toClient'[i]) =>
           /\ PieceNext(toClient'[i].bytes)
           /\ IF i + 1 \in DOMAIN toClient' /\ IsData(toClient'[i + 1])
              THEN toClient'[i + 1].bytes[1].n = LastByte(toClient'[i].bytes) + 1
              ELSE LastByte(toClient'[i].bytes) = sent',
         IF toClient' # <<>> /\ IsData(toClient'[1])
         THEN Fits(View', toClient'[1].bytes[1])
         ELSE CaughtUp'
  PROVE  Flow'
<1> USE DEF OwnNext, Own, PieceNext, Piece
<1>1. \A i \in DOMAIN View' :
        /\ View'[i].call = call'
        /\ IF View'[i].round = round'
           THEN /\ View'[i].n <= sent'
                /\ View'[i].summary = (View'[i].n > length' - MessageLen)
           ELSE View'[i].round < round' /\ View'[i].summary = FALSE
  OBVIOUS
<1> QED BY <1>1 DEF Flow, IsData, LastByte, Fits, Follows

\* The server's bytes stay its own while it sends nothing.
LEMMA SameOwn ==
  ASSUME UNCHANGED <<call, round, sent, length>>
  PROVE  /\ \A b : Own(b) => OwnNext(b)
         /\ \A b : Piece(b) => PieceNext(b)
BY DEF Own, OwnNext, Piece, PieceNext

\* The flow does not change with what the client does inside its buffers.
LEMMA SameFlow ==
  ASSUME Flow, View' = View, UNCHANGED <<call, round, sent, length, toClient>>
  PROVE  Flow'
<1>1. CaughtUp' <=> CaughtUp
  BY DEF CaughtUp
<1>2. /\ \A i \in DOMAIN View : OwnNext(View[i])
      /\ \A i \in DOMAIN toClient : IsData(toClient[i]) => PieceNext(toClient[i].bytes)
  BY SameOwn DEF Flow
<1> QED BY <1>1, <1>2, FlowNext DEF Flow

\* A packet that is no data, read ...
LEMMA TailFlow ==
  ASSUME TypeOK, ToClientShape, Flow, Receive, ~IsData(Packet),
         View' = View, UNCHANGED <<call, round, sent, length, phase, link>>
  PROVE  /\ Flow' /\ CaughtUp
         /\ \A i \in DOMAIN toClient' : ~IsData(toClient'[i])
<1>1. ~IsData(toClient[1]) /\ 1 \in DOMAIN toClient
  BY TailShape
<1>2. \A i \in DOMAIN toClient' : ~IsData(toClient'[i])
  <2>1. SUFFICES ASSUME NEW i \in DOMAIN toClient' PROVE ~IsData(toClient'[i])
    OBVIOUS
  <2>2. 1 < i + 1 /\ i + 1 \in DOMAIN toClient /\ toClient'[i] = toClient[i + 1]
    BY TailShape
  <2> QED BY <1>1, <2>2 DEF ToClientShape
<1>3. CaughtUp
  BY <1>1 DEF Flow
<1>4. CaughtUp'
  BY <1>3 DEF CaughtUp
<1>5. \A i \in DOMAIN View' : OwnNext(View'[i])
  BY SameOwn DEF Flow
<1>6. toClient' # <<>> => 1 \in DOMAIN toClient'
  BY TailShape, EmptySeq DEF Receive
<1>7. ~(toClient' # <<>> /\ IsData(toClient'[1]))
  BY <1>2, <1>6
<1> QED BY <1>2, <1>3, <1>4, <1>5, <1>7, FlowNext

\* ... or sent.
LEMMA AppendedFlow ==
  ASSUME TypeOK, Flow, NEW p \in ServerPacket, ~IsData(p),
         toClient' = Append(toClient, p),
         View' = View, UNCHANGED <<call, round, sent, length>>
  PROVE  Flow'
<1>1. /\ toClient \in Seq(ServerPacket)
  BY Kinds
<1>2. /\ DOMAIN toClient = 1 .. Len(toClient) /\ Len(toClient) \in Nat
      /\ DOMAIN toClient' = 1 .. Len(toClient) + 1 /\ toClient' # <<>>
      /\ \A i \in DOMAIN toClient : toClient'[i] = toClient[i]
      /\ toClient'[Len(toClient) + 1] = p
  BY <1>1, AppendElements
<1>3. \A i \in DOMAIN View' : OwnNext(View'[i])
  BY SameOwn DEF Flow
<1>4. CaughtUp => CaughtUp'
  BY DEF CaughtUp
<1>5. ASSUME NEW i \in DOMAIN toClient', IsData(toClient'[i])
      PROVE  /\ PieceNext(toClient'[i].bytes)
             /\ IF i + 1 \in DOMAIN toClient' /\ IsData(toClient'[i + 1])
                THEN toClient'[i + 1].bytes[1].n = LastByte(toClient'[i].bytes) + 1
                ELSE LastByte(toClient'[i].bytes) = sent
  <2>1. i \in DOMAIN toClient /\ toClient'[i] = toClient[i]
    BY <1>2, <1>5
  <2>2. PieceNext(toClient'[i].bytes)
    BY <1>5, <2>1, SameOwn DEF Flow
  <2>3. i + 1 \in DOMAIN toClient' /\ IsData(toClient'[i + 1]) <=>
          i + 1 \in DOMAIN toClient /\ IsData(toClient[i + 1])
    BY <1>2, <2>1
  <2>4. i + 1 \in DOMAIN toClient => toClient'[i + 1] = toClient[i + 1]
    BY <1>2
  <2> QED BY <1>5, <2>1, <2>2, <2>3, <2>4 DEF Flow
<1>6. toClient' # <<>> /\ IsData(toClient'[1]) <=> toClient # <<>> /\ IsData(toClient[1])
  BY <1>1, <1>2, EmptySeq
<1>7. toClient # <<>> => toClient'[1] = toClient[1]
  BY <1>1, <1>2, EmptySeq
<1>8. IF toClient' # <<>> /\ IsData(toClient'[1])
      THEN Fits(View', toClient'[1].bytes[1])
      ELSE CaughtUp'
  BY <1>4, <1>6, <1>7 DEF Flow
<1> QED BY <1>3, <1>5, <1>8, FlowNext

\* A data packet read.
LEMMA GrewFlow ==
  ASSUME TypeOK, ToClientShape, Flow, Receive, IsData(Packet),
         Packet.bytes \in Seq(Byte),
         View' = View \o Packet.bytes,
         UNCHANGED <<call, round, sent, length, phase, link>>
  PROVE  Flow'
<1> DEFINE b == Packet.bytes
<1>1. /\ 1 \in DOMAIN toClient /\ Packet = toClient[1]
      /\ DOMAIN toClient = 1 .. Len(toClient) /\ Len(toClient) \in Nat \ {0}
      /\ DOMAIN toClient' = 1 .. Len(toClient) - 1
      /\ \A i \in DOMAIN toClient' : toClient'[i] = toClient[i + 1]
  BY TailShape
<1>2. /\ Piece(b)
      /\ IF 2 \in DOMAIN toClient /\ IsData(toClient[2])
         THEN toClient[2].bytes[1].n = LastByte(b) + 1
         ELSE LastByte(b) = sent
  <2>1. 1 + 1 = 2
    OBVIOUS
  <2> QED BY <1>1, <2>1 DEF Flow
<1>3. View \in Seq(Byte) /\ b \in Seq(Byte) /\ View' = View \o b
  BY Kinds
<1> HIDE DEF b
<1>4. /\ \A i \in DOMAIN View' :
           \/ i \in DOMAIN View /\ View'[i] = View[i]
           \/ i - Len(View) \in DOMAIN b /\ View'[i] = b[i - Len(View)]
      /\ Len(View') = Len(View) + Len(b) /\ Len(View) \in Nat
      /\ DOMAIN b = 1 .. Len(b)
      /\ \A i \in DOMAIN b : View'[Len(View) + i] = b[i]
  BY <1>3, ConcatElements
<1>5. Len(b) \in 1 .. Len(b)
  BY <1>2, <1>3, LastOfSeq DEF Piece, OneRun
<1>6. /\ View'[Len(View')] = b[Len(b)] /\ Own(b[Len(b)]) /\ View' # <<>>
      /\ b[Len(b)].round = round /\ b[Len(b)].call = call
      /\ b[Len(b)] \in Byte
  <2>1. View' \in Seq(Byte) /\ Len(View') # 0
    BY <1>3, <1>4, <1>5, ConcatProperties
  <2> QED BY <1>2, <1>3, <1>4, <1>5, <2>1, EmptySeq, ElementOfSeq DEF Piece, Own
<1>7. \A i \in DOMAIN View' : OwnNext(View'[i])
  <2>1. \A i \in DOMAIN View' : Own(View'[i])
    BY <1>2, <1>4 DEF Flow, Piece
  <2> QED BY <2>1, SameOwn
<1>8. ASSUME NEW i \in DOMAIN toClient', IsData(toClient'[i])
      PROVE  /\ PieceNext(toClient'[i].bytes)
             /\ IF i + 1 \in DOMAIN toClient' /\ IsData(toClient'[i + 1])
                THEN toClient'[i + 1].bytes[1].n = LastByte(toClient'[i].bytes) + 1
                ELSE LastByte(toClient'[i].bytes) = sent
  <2>1. i + 1 \in DOMAIN toClient /\ toClient'[i] = toClient[i + 1] /\ i \in Nat
    BY <1>1
  <2>2. PieceNext(toClient'[i].bytes)
    BY <1>8, <2>1, SameOwn DEF Flow
  <2>3. /\ i + 1 \in DOMAIN toClient' <=> (i + 1) + 1 \in DOMAIN toClient
        /\ i + 1 \in DOMAIN toClient' => toClient'[i + 1] = toClient[(i + 1) + 1]
    BY <1>1, <2>1
  <2>4. IF (i + 1) + 1 \in DOMAIN toClient /\ IsData(toClient[(i + 1) + 1])
        THEN toClient[(i + 1) + 1].bytes[1].n = LastByte(toClient[i + 1].bytes) + 1
        ELSE LastByte(toClient[i + 1].bytes) = sent
    BY <1>8, <2>1 DEF Flow
  <2> QED BY <2>1, <2>2, <2>3, <2>4
<1>9. CASE toClient' # <<>> /\ IsData(toClient'[1])
  <2>1. 1 \in DOMAIN toClient'
    BY <1>9, TailShape, EmptySeq, Kinds, TailElements DEF Receive
  <2>2. 2 \in DOMAIN toClient /\ toClient'[1] = toClient[2] /\ IsData(toClient[2])
    BY <1>1, <1>9, <2>1
  <2>3. toClient[2].bytes[1].n = b[Len(b)].n + 1
    BY <1>2, <2>2 DEF LastByte
  <2>4. /\ Piece(toClient[2].bytes)
    BY <2>2 DEF Flow
  <2>5. toClient[2].bytes \in Seq(Byte)
    <3>1. toClient[2] \in ServerPacket
      BY <1>1, <2>2, Kinds, ElementOfSeq
    <3> QED BY <2>2, <3>1 DEF ServerPacket, IsData, ResetMarker, BreakMarker, Resend
  <2>6. 1 \in 1 .. Len(toClient[2].bytes)
    <3>1. toClient[2].bytes # <<>>
      BY <2>4 DEF Piece, OneRun
    <3> QED BY <2>5, <3>1, LastOfSeq
  <2>7. toClient[2].bytes[1].round = round /\ toClient[2].bytes[1].call = call
    BY <2>4, <2>6 DEF Piece, Own
  <2>8. Follows(b[Len(b)], toClient[2].bytes[1])
    BY <1>6, <2>3, <2>7 DEF Follows
  <2>9. Fits(View', toClient'[1].bytes[1])
    BY <1>6, <2>2, <2>8 DEF Fits
  <2> QED BY <1>7, <1>8, <1>9, <2>9, FlowNext
<1>10. CASE ~(toClient' # <<>> /\ IsData(toClient'[1]))
  <2>1. ~(2 \in DOMAIN toClient /\ IsData(toClient[2]))
    <3>1. SUFFICES ASSUME 2 \in DOMAIN toClient, IsData(toClient[2]) PROVE FALSE
      OBVIOUS
    <3>2. 1 \in DOMAIN toClient' /\ toClient'[1] = toClient[1 + 1]
      BY <1>1, <3>1
    <3>3. toClient' # <<>>
      BY <3>2
    <3> QED BY <1>10, <3>1, <3>2, <3>3
  <2>2. b[Len(b)].n = sent
    BY <1>2, <2>1 DEF LastByte
  <2>3. sent # 0
    BY <1>6, <2>2 DEF Byte
  <2>4. CaughtUp'
    BY <1>6, <2>2, <2>3 DEF CaughtUp
  <2> QED BY <1>7, <1>8, <1>10, <2>4, FlowNext
<1> QED BY <1>9, <1>10

-----------------------------------------------------------------------------
(* The client's steps keep both ends in step.                              *)

\* A step inside the client's buffers.
LEMMA SameStep ==
  ASSUME InStepInv, View' = View,
         UNCHANGED <<pc, call, conn, trials, toClient, toServer, server>>
  PROVE  ToClient' /\ Lockstep'
<1>1. Flow => Flow'
  BY SameFlow DEF server, answer
<1>2. LastExecuted' = LastExecuted
  BY NextExecuted DEF InStepInv, server, answer
<1>3. /\ Answered => Answered'
      /\ Unanswered => Unanswered'
      /\ ToClientShape => ToClientShape'
      /\ BreakCount => BreakCount'
  BY <1>1 DEF Answered, Unanswered, ToClientShape, BreakCount, server, answer, IsData
<1>4. ToClient'
  BY <1>2, <1>3 DEF InStepInv, StreamInv, ToClient, InRead, server, answer
<1> QED BY <1>2, <1>4 DEF InStepInv, StreamInv, Lockstep, InRead, server, answer

\* What holds while the client reads, and the link is there.
LEMMA WhileReading ==
  ASSUME InStepInv, conn = "open", InRead(pc)
  PROVE  /\ TypeOK /\ ToClientShape /\ BreakCount
         /\ LastExecuted = call => Answered
         /\ LastExecuted # call => Unanswered
BY DEF InStepInv, StreamInv, ToClient

\* A call that raised, with nothing on its way but the end of the connection.
LEMMA EndedInStep ==
  ASSUME InStepInv, pc' = "idle", trials' = 0, link = "down",
         conn' = "open" => ToClientShape', UNCHANGED server,
         \A i \in DOMAIN toClient' : toClient'[i] = Eof
  PROVE  ToClient' /\ Lockstep'
<1>1. BreakCount'
  BY PacketsDiffer DEF BreakCount
<1> QED BY <1>1 DEF ToClient, Lockstep, InRead, server

\* A call that begins: the one before is over on both sides.
LEMMA BeginInStep ==
  ASSUME InStepInv, BeginCall
  PROVE  ToClient' /\ Lockstep'
<1>1. SUFFICES ASSUME conn = "open" PROVE ToClient' /\ Lockstep'
  BY DEF BeginCall, ToClient, Lockstep
<1>2. /\ pc = "idle" /\ pc' = "writing" /\ call' = call + 1
      /\ UNCHANGED <<conn, trials, toClient, toServer, server>>
  BY DEF BeginCall
<1>3. LastExecuted' = LastExecuted /\ call \in Nat
  BY <1>2, NextExecuted, Kinds DEF InStepInv, server, answer
<1>4. ToClientShape /\ BreakCount /\ \A i \in DOMAIN toClient : toClient[i] = Eof
  BY <1>1, <1>2 DEF InStepInv, StreamInv, ToClient, InRead
<1>5. ToClientShape' /\ BreakCount'
  BY <1>2, <1>4 DEF ToClientShape, BreakCount, server, answer
<1>6. ToClient'
  BY <1>2, <1>4, <1>5 DEF ToClient, InRead
<1>7. link = "up" => LastExecuted = call /\ phase = "receiving"
  BY <1>1, <1>2 DEF InStepInv, StreamInv, Lockstep
<1> QED BY <1>2, <1>3, <1>6, <1>7 DEF Lockstep, InRead, server, answer

\* write() sends to a server that waits for the request.
LEMMA WriteInStep ==
  ASSUME InStepInv, WriteSegment
  PROVE  ToClient' /\ Lockstep'
<1>1. SUFFICES ASSUME conn = "open" PROVE ToClient' /\ Lockstep'
  BY DEF WriteSegment, ToClient, Lockstep
<1>2. /\ pc = "writing" /\ pc' \in {"writing", "reading"}
      /\ UNCHANGED <<call, conn, inBuffer, ret, got, trials, toClient, server>>
  BY DEF WriteSegment
<1>3. LastExecuted' = LastExecuted /\ LastExecuted < call
  BY <1>2, NextExecuted DEF InStepInv, StreamInv, RequestOrder, server, answer
<1>4. LastExecuted # call
  BY <1>3, ExecutedType, Kinds DEF InStepInv
<1>5. ToClientShape /\ BreakCount /\ \A i \in DOMAIN toClient : toClient[i] = Eof
  BY <1>1, <1>2 DEF InStepInv, StreamInv, ToClient, InRead
<1>6. ToClientShape' /\ BreakCount'
  BY <1>2, <1>5 DEF ToClientShape, BreakCount, server, answer
<1>7. View' = <<>>
  BY <1>2 DEF InStepInv, StreamInv, ClientView, View
<1>8. ToClient'
  BY <1>2, <1>3, <1>4, <1>5, <1>6, <1>7 DEF ToClient, Unanswered, InRead
<1>9. link = "up" => toClient = <<>>
  BY <1>5, NothingRemains DEF InStepInv
<1>10. link = "up" => LastExecuted + 1 = call /\ phase = "receiving"
  BY <1>1, <1>4 DEF InStepInv, StreamInv, Lockstep
<1> QED
  BY <1>2, <1>3, <1>4, <1>8, <1>9, <1>10 DEF Lockstep, InRead, server, answer

\* The summary message is the end of the response, and of what was sent.
LEMMA SummaryIsLast ==
  ASSUME InStepInv, conn = "open", pc = "reading", need = 0, field = "body",
         got[Len(got)].summary
  PROVE  /\ LastExecuted = call /\ phase = "receiving" /\ inBuffer = <<>>
         /\ \A i \in DOMAIN toClient : toClient[i] = Eof
         /\ LET last == View[Len(View)]
            IN last.summary /\ last.n = length /\ last.call = call
<1>a. TypeOK /\ ClientView /\ ServerPosition
  BY DEF InStepInv, StreamInv
<1>b. /\ Len(ret) = MessageLen - 1 /\ Place(Len(got)) = 1
      /\ Len(got) \in 1 .. Len(View)
  BY <1>a, BodyPlace
<1>c. /\ Len(got) \in Nat /\ Len(ret) \in Nat /\ Len(inBuffer) \in Nat
      /\ Len(View) = Len(got) + Len(ret) + Len(inBuffer)
      /\ DOMAIN View = 1 .. Len(View) /\ View[Len(got)] = got[Len(got)]
  BY <1>a, <1>b, ViewParts
<1>d. /\ sent \in Nat /\ length \in Nat /\ sent <= length /\ round \in Nat
      /\ MessageLen \in Nat /\ MessageLen > 1
  BY <1>a, Kinds, LengthOfMessage DEF TypeOK, ServerTypeOK
<1>e. \A i \in 1 .. Len(View) : /\ View[i].n \in Nat /\ View[i].round \in Nat
                                /\ View[i].call = call /\ View[i].summary \in BOOLEAN
  <2>1. View \in Seq(Byte)
    BY <1>a, Kinds
  <2>2. \A x \in Byte : x.n \in Nat /\ x.round \in Nat /\ x.summary \in BOOLEAN
    BY DEF Byte
  <2> QED BY <1>a, <1>c, <2>1, <2>2, ElementOfSeq DEF ClientView
<1>1. View # <<>>
  BY <1>a, <1>b, Kinds, EmptySeq
<1>2. LastExecuted = call /\ Answered /\ Flow
  BY <1>1, WhileReading DEF InRead, Unanswered, Answered
<1>3. \A i \in 1 .. Len(View) : Own(View[i])
  BY <1>2, <1>c DEF Flow
<1> DEFINE c == View[Len(got)]
           m == Len(got) + (MessageLen - 1)
<1>4. /\ c.summary = TRUE /\ c.round = round /\ c.n <= sent
      /\ c.n > length - MessageLen
  <2>1. Own(c)
    BY <1>b, <1>3
  <2>2. c.summary # FALSE
    BY <1>c
  <2>3. c.summary = TRUE
    BY <1>b, <1>e, <2>2
  <2>4. c.round = round /\ c.n <= sent /\ c.summary = (c.n > length - MessageLen)
    BY <2>1, <2>2 DEF Own
  <2> QED BY <2>3, <2>4
<1>5. c.n = length - MessageLen + 1
  <2>1. Place(c.n) = 1 /\ c.n \in Nat
    BY <1>a, <1>b, <1>e DEF ClientView, Stretch
  <2> HIDE DEF c
  <2>2. Place(length) = 0
    BY <1>a DEF ServerPosition
  <2>3. length - MessageLen < c.n /\ c.n <= length
    BY <1>d, <1>4, <2>1
  <2> QED BY <1>d, <2>1, <2>2, <2>3, LastMessageStarts
<1>6. ASSUME NEW i \in 1 .. Len(View), Len(got) < i
      PROVE  /\ View[i].round = round
             /\ View[i].n = c.n + (i - Len(got))
             /\ View[i].n <= sent
  <2>1. \/ c.round < View[i].round
        \/ c.round = View[i].round /\ View[i].n = c.n + (i - Len(got))
    BY <1>a, <1>b, <1>6 DEF ClientView, Stretch
  <2>2. Own(View[i])
    BY <1>3
  <2>3. View[i].round <= round
    BY <1>d, <1>e, <2>2 DEF Own
  <2>4. View[i].round = round
    BY <1>d, <1>e, <1>4, <2>1, <2>3
  <2> QED BY <1>4, <1>d, <2>1, <2>2, <2>4 DEF Own
<1>7. m \in 1 .. Len(View) /\ Len(got) < m
  BY <1>b, <1>c, <1>d
<1>8. c.n + (m - Len(got)) = length
  <2>1. c.n \in Nat /\ m - Len(got) = MessageLen - 1
    BY <1>b, <1>c, <1>d, <1>e
  <2> HIDE DEF c, m
  <2> QED BY <1>5, <1>d, <2>1
<1>9. View[m].n = length /\ sent = length
  <2>1. View[m].n = c.n + (m - Len(got)) /\ View[m].n <= sent
    BY <1>6, <1>7
  <2>2. View[m].n = length
    BY <1>8, <2>1
  <2> HIDE DEF m
  <2> QED BY <1>d, <2>1, <2>2
<1>10. phase = "receiving"
  BY <1>9, <1>a, <1>d DEF ServerPosition, TypeOK, ServerTypeOK
<1>11. inBuffer = <<>> /\ Len(View) = m
  <2>1. Len(inBuffer) = 0
    <3>1. SUFFICES ASSUME Len(inBuffer) > 0 PROVE FALSE
      BY <1>c
    <3>2. /\ m + 1 \in 1 .. Len(View) /\ Len(got) < m + 1
          /\ (m + 1) - Len(got) = (m - Len(got)) + 1
      <4>1. Len(View) = m + Len(inBuffer) /\ m \in Nat /\ Len(View) \in Nat
        BY <1>b, <1>c, <1>d
      <4> HIDE DEF m
      <4> QED BY <1>c, <1>7, <3>1, <4>1
    <3>3. View[m + 1].n = c.n + ((m + 1) - Len(got)) /\ View[m + 1].n <= sent
      BY <1>6, <3>2
    <3>4. c.n \in Nat /\ m - Len(got) \in Nat
      BY <1>b, <1>c, <1>d, <1>e
    <3> HIDE DEF c, m
    <3> QED BY <1>8, <1>9, <1>d, <3>2, <3>3, <3>4
  <2> QED BY <1>a, <1>b, <1>c, <2>1, Kinds, EmptySeq
<1>12. ~(toClient # <<>> /\ IsData(toClient[1]))
  <2>1. SUFFICES ASSUME toClient # <<>>, IsData(toClient[1]) PROVE FALSE
    OBVIOUS
  <2>2. /\ Packet = toClient[1] /\ IsData(Packet)
    BY <2>1, NextPacket DEF InRead
  <2> DEFINE b == Packet.bytes
  <2>3. Piece(b) /\ Fits(View, b[1]) /\ b \in Seq(Byte)
    BY <2>1, <2>2, NextData DEF InRead
  <2> HIDE DEF b
  <2>4. 1 \in 1 .. Len(b)
    BY <2>3, LastOfSeq DEF Piece, OneRun
  <2>5. b[1].round = round /\ Own(b[1]) /\ b[1].n <= sent
    BY <2>3, <2>4 DEF Piece, Own
  <2>6. Follows(View[m], b[1])
    BY <1>1, <1>11, <2>3 DEF Fits
  <2>7. b[1].n = length + 1
    BY <1>6, <1>7, <1>9, <1>d, <2>5, <2>6 DEF Follows
  <2> QED BY <1>9, <1>d, <2>5, <2>7
<1>13. ASSUME NEW i \in DOMAIN toClient
       PROVE  toClient[i] = Eof
  <2>1. /\ 1 \in DOMAIN toClient /\ toClient # <<>> /\ i \in Nat \ {0}
        /\ DOMAIN toClient = 1 .. Len(toClient)
    <3>1. toClient \in Seq(ServerPacket) /\ toClient # <<>>
      BY <1>a, <1>13, Kinds
    <3> QED BY <1>13, <3>1, TailElements
  <2>2. ~IsData(toClient[1]) /\ ToClientShape
    BY <1>12, <2>1, WhileReading DEF InRead
  <2>3. ~IsData(toClient[i])
    BY <2>1, <2>2 DEF ToClientShape
  <2> QED BY <1>2, <1>10, <2>2, <2>3 DEF ToClientShape, Answered
<1>14. View[Len(View)].summary
  <2>1. Own(View[m]) /\ View[m].round = round /\ View[m].n = length
    BY <1>3, <1>6, <1>7, <1>9
  <2>2. length > length - MessageLen
    BY <1>d
  <2>3. View[m].summary = TRUE
    BY <2>1, <2>2 DEF Own
  <2> QED BY <1>11, <2>3
<1> QED BY <1>2, <1>7, <1>9, <1>10, <1>11, <1>13, <1>14, <1>e

\* So a call that returns leaves nothing behind for the next one.
LEMMA BodyInStep ==
  ASSUME InStepInv, ReadBody
  PROVE  ToClient' /\ Lockstep'
<1>1. SUFFICES ASSUME conn = "open" PROVE ToClient' /\ Lockstep'
  BY DEF ReadBody, ToClient, Lockstep
<1>2. /\ pc = "reading" /\ need = 0 /\ field = "body"
      /\ UNCHANGED <<call, conn, trials, toClient, toServer, server>>
      /\ IF got[Len(got)].summary THEN pc' = "idle" ELSE pc' = pc
  BY DEF ReadBody
<1>3. CASE ~got[Len(got)].summary
  <2>1. View' = View
    BY BodyView DEF InStepInv, StreamInv
  <2> QED BY <1>2, <1>3, <2>1, SameStep
<1>4. CASE got[Len(got)].summary
  <2>1. /\ LastExecuted = call /\ phase = "receiving"
        /\ \A i \in DOMAIN toClient : toClient[i] = Eof
    BY <1>1, <1>2, <1>4, SummaryIsLast
  <2>2. ToClientShape /\ BreakCount /\ trials = 0
    BY <1>1, <1>2, WhileReading DEF InRead, BreakCount
  <2>3. ToClientShape' /\ BreakCount'
    BY <1>2, <1>4, <2>2 DEF ToClientShape, BreakCount, server, answer, IsData
  <2>4. LastExecuted' = LastExecuted
    BY <1>2, NextExecuted DEF InStepInv, server, answer
  <2>5. ToClient'
    BY <1>2, <1>4, <2>1, <2>3 DEF ToClient, InRead
  <2>6. link = "up" => toServer = <<>>
    BY <1>1, <1>2, <2>1 DEF InStepInv, StreamInv, Lockstep
  <2> QED
    BY <1>2, <1>4, <2>1, <2>4, <2>5, <2>6 DEF Lockstep, InRead, server, answer
<1> QED BY <1>3, <1>4

\* A data packet read: the flow goes on.
LEMMA GrewInStep ==
  ASSUME InStepInv, Receive, IsData(Packet), InRead(pc), inBuffer = <<>>,
         inBuffer' = Packet.bytes, pc' = "reading", pc # "marker",
         UNCHANGED <<call, conn, ret, need, field, trials, outcome, got,
                     toServer, server>>
  PROVE  ToClient' /\ Lockstep'
<1>1. conn = "open" /\ toClient # <<>>
  BY DEF Receive
<1>2. /\ LastExecuted = call /\ Answered /\ Packet.bytes \in Seq(Byte)
      /\ TypeOK /\ ToClientShape /\ BreakCount
  BY <1>1, NextData, WhileReading
<1>3. View' = View \o Packet.bytes
  BY <1>1, GrewView
<1>4. UNCHANGED <<call, round, sent, length, phase, link, breaks, executed>>
  BY DEF server, answer
<1>5. Flow'
  BY <1>2, <1>3, <1>4, GrewFlow DEF Answered
<1>6. ToClientShape' /\ \A i \in DOMAIN toClient' : toClient'[i] # Resend
  BY <1>2, <1>4, TailShape
<1>7. BreakCount'
  BY <1>2, <1>4, TailBreaks, Kinds DEF BreakCount
<1>8. Answered'
  BY <1>5, <1>6 DEF Answered
<1>9. LastExecuted' = LastExecuted
  BY <1>2, <1>4, NextExecuted
<1>10. ToClient'
  BY <1>2, <1>4, <1>6, <1>7, <1>8, <1>9 DEF ToClient, InRead
<1>11. ASSUME link = "up"
       PROVE  /\ toServer = <<>>
              /\ phase = "interrupted" =>
                   toClient' # <<>> /\ toClient'[Len(toClient')] = ResetMarker
  <2>1. /\ toServer = <<>> /\ (pc = "awaitData" => phase # "interrupted")
    BY <1>1, <1>2, <1>11 DEF InStepInv, StreamInv, Lockstep
  <2>2. ASSUME phase = "interrupted"
        PROVE  toClient' # <<>> /\ toClient'[Len(toClient')] = ResetMarker
    <3>1. toClient[Len(toClient)] = ResetMarker
      BY <1>1, <1>11, <2>1, <2>2 DEF InStepInv, StreamInv, Lockstep
    <3>2. toClient[1] # ResetMarker
      BY <1>2, TailShape, <1>4, DataKind
    <3>3. /\ Len(toClient) \in Nat \ {0} /\ Len(toClient') = Len(toClient) - 1
          /\ DOMAIN toClient' = 1 .. Len(toClient) - 1
          /\ \A i \in DOMAIN toClient' : toClient'[i] = toClient[i + 1]
      BY <1>2, <1>4, TailShape
    <3>4. Len(toClient) # 1
      BY <3>1, <3>2
    <3>5. Len(toClient') \in DOMAIN toClient' /\ Len(toClient') + 1 = Len(toClient)
      BY <3>3, <3>4
    <3>6. toClient'[Len(toClient')] = ResetMarker
      BY <3>1, <3>3, <3>5
    <3> QED BY <3>5, <3>6
  <2> QED BY <2>1, <2>2
<1>12. Lockstep'
  BY <1>1, <1>2, <1>4, <1>9, <1>11 DEF InStepInv, StreamInv, Lockstep, InRead
<1> QED BY <1>10, <1>12

\* _process_marker got the end of the connection for its data packet.
LEMMA AwaitedEof ==
  ASSUME InStepInv, AwaitData, Packet = Eof
  PROVE  ToClient' /\ Lockstep'
<1>1. /\ conn = "open" /\ toClient # <<>> /\ pc = "awaitData" /\ pc' = "reading"
      /\ Receive /\ inBuffer' = <<>>
      /\ UNCHANGED <<call, conn, ret, got, trials, server>>
  BY DEF AwaitData, Receive, Eof
<1>2. TypeOK /\ ToClientShape /\ BreakCount /\ LastExecuted = call /\ Answered
  BY <1>1, WhileReading DEF InRead, Unanswered
<1>3. UNCHANGED <<call, round, sent, length, phase, link, breaks, executed>>
  BY <1>1 DEF server, answer
<1>4. link = "down"
  BY <1>2, <1>3, <1>1, TailShape DEF ToClientShape
<1>5. View' = View
  BY <1>1 DEF InStepInv, StreamInv, ClientView, ReadPosition, InRead, View
<1>6. Flow'
  BY <1>1, <1>2, <1>3, <1>5, TailFlow, DataKind DEF Answered
<1>7. ToClientShape' /\ \A i \in DOMAIN toClient' : toClient'[i] # Resend
  BY <1>1, <1>2, <1>3, TailShape
<1>8. BreakCount'
  BY <1>1, <1>2, <1>3, TailBreaks, Kinds DEF BreakCount
<1>9. LastExecuted' = LastExecuted
  BY <1>2, <1>3, NextExecuted
<1>10. ToClient'
  BY <1>1, <1>2, <1>3, <1>6, <1>7, <1>8, <1>9 DEF ToClient, InRead, Answered
<1> QED BY <1>3, <1>4, <1>10 DEF Lockstep

\* RESEND: the request is sent again to a server that waits for it.
LEMMA ResendInStep ==
  ASSUME InStepInv, ReadResend
  PROVE  ToClient' /\ Lockstep'
<1>1. /\ conn = "open" /\ toClient # <<>> /\ pc = "reading" /\ Receive
      /\ Packet = Resend /\ UNCHANGED server
  BY DEF ReadResend, Receive
<1>2. TypeOK /\ ToClientShape /\ BreakCount
  BY <1>1, WhileReading DEF InRead
<1>3. UNCHANGED <<phase, link, breaks, executed>>
  BY <1>1 DEF server, answer
<1>4. /\ ToClientShape' /\ \A i \in DOMAIN toClient' : toClient'[i] = Eof
  BY <1>1, <1>2, <1>3, TailShape, EndRemains
<1>5. LastExecuted # call /\ View = <<>> /\ LastExecuted' = LastExecuted
  BY <1>1, <1>2, <1>3, ResendAlone, NextExecuted
<1>6. CASE Send(sendPcks) /\ UNCHANGED client
  <2>1. UNCHANGED <<pc, call, conn, trials>> /\ View' = View
    BY <1>6 DEF client, View
  <2>2. BreakCount'
    BY <1>1, <1>2, <1>3, <2>1, TailBreaks, Kinds DEF BreakCount
  <2>3. ToClient'
    BY <1>1, <1>4, <1>5, <2>1, <2>2 DEF ToClient, InRead, Unanswered
  <2>4. ASSUME link = "up" PROVE toClient' = <<>>
    <3>1. \A i \in DOMAIN toClient' : FALSE
      BY <1>3, <1>4, <2>4 DEF ToClientShape
    <3>2. toClient' \in Seq(ServerPacket)
      BY <1>1, <1>2, ReceiveType DEF TypeOK
    <3> QED BY <3>1, <3>2, NoElement
  <2>5. link = "up" => LastExecuted + 1 = call /\ phase = "receiving"
    BY <1>1, <1>5 DEF InStepInv, StreamInv, Lockstep
  <2> QED
    BY <1>1, <1>3, <1>5, <2>1, <2>3, <2>4, <2>5 DEF Lockstep, InRead
<1>7. CASE link = "down" /\ Raise(conn)
  BY <1>1, <1>4, <1>7, EndedInStep DEF Raise
<1> QED BY <1>6, <1>7 DEF ReadResend

\* A marker read: the data before it have all been read.
LEMMA MarkerInStep ==
  ASSUME InStepInv, ClientView', ReadMarker \/ ReadNextMarker
  PROVE  ToClient' /\ Lockstep'
<1>1. /\ conn = "open" /\ InRead(pc) /\ toClient # <<>> /\ Receive /\ Waiting
      /\ Packet \in {BreakMarker, ResetMarker} /\ pc \in {"reading", "marker"}
      /\ UNCHANGED <<call, got, server>>
  BY DEF ReadMarker, ReadNextMarker, Receive, InRead, AcknowledgeReset
<1>2. TypeOK /\ ToClientShape /\ BreakCount
  BY <1>1, WhileReading
<1>3. /\ LastExecuted = call /\ Answered /\ CaughtUp
      /\ phase \in {"breaking", "interrupted"}
      /\ Packet = ResetMarker => phase = "interrupted"
      /\ Place(Len(View)) = 0
  BY <1>1, MarkerBoundary
<1>4. UNCHANGED <<round, sent, length, phase, link, breaks, executed>>
  BY <1>1 DEF server, answer
<1>5. ~IsData(Packet)
  BY <1>1, DataKind
<1>6. ToClientShape' /\ \A i \in DOMAIN toClient' : toClient'[i] # Resend
  BY <1>1, <1>2, <1>4, TailShape
<1>7. LastExecuted' = LastExecuted
  BY <1>2, <1>4, NextExecuted
<1>8. inBuffer = <<>>
  BY <1>1 DEF InStepInv, StreamInv, ClientView, ReadPosition, Waiting, InRead
<1>9. link = "up" => toServer = <<>>
  BY <1>1, <1>3 DEF InStepInv, StreamInv, Lockstep
<1>10. CASE AcknowledgeReset /\ Packet = ResetMarker
  <2>1. \A i \in DOMAIN toClient' : toClient'[i] = Eof
    BY <1>1, <1>2, <1>4, <1>10, EndRemains
  <2>2. CASE /\ Send(<<ResetMarker>>) /\ pc' = "awaitData" /\ trials' = 0
             /\ UNCHANGED <<conn, ret, need, field, outcome>>
    <3>1. View' = View
      BY <1>1, <1>8, <1>10, <2>2 DEF AcknowledgeReset, View
    <3>2. Flow'
      BY <1>1, <1>2, <1>3, <1>4, <1>5, <3>1, TailFlow DEF Answered
    <3>3. BreakCount'
      BY <2>1, <2>2, PacketsDiffer DEF BreakCount
    <3>4. Answered'
      BY <1>3, <1>4, <1>6, <1>10, <2>1, <2>2, <3>2 DEF Answered
    <3>5. ToClient'
      BY <1>1, <1>3, <1>6, <1>7, <2>2, <3>3, <3>4 DEF ToClient, InRead
    <3>6. ASSUME link = "up" PROVE toClient' = <<>> /\ toServer' = <<ResetMarker>>
      <4>1. \A i \in DOMAIN toClient' : FALSE
        BY <1>4, <1>6, <2>1, <3>6 DEF ToClientShape
      <4>2. toClient' \in Seq(ServerPacket)
        BY <1>1, <1>2, ReceiveType DEF TypeOK
      <4>3. toServer' = <<>> \o <<ResetMarker>>
        BY <1>9, <2>2, <3>6 DEF Send
      <4>4. toServer' = <<ResetMarker>>
        BY <4>3, MarkerAlone, ConcatEmptySeq
      <4> QED BY <4>1, <4>2, <4>4, NoElement
    <3>7. phase = "interrupted"
      BY <1>3, <1>10
    <3> QED
      BY <1>1, <1>3, <1>4, <1>7, <2>2, <3>5, <3>6, <3>7 DEF Lockstep, InRead
  <2>3. CASE link = "down" /\ Raise(conn)
    BY <1>1, <1>6, <2>1, <2>3, EndedInStep DEF Raise
  <2> QED BY <1>10, <2>2, <2>3 DEF AcknowledgeReset
<1>11. CASE Packet = BreakMarker /\ ~(AcknowledgeReset /\ Packet = ResetMarker)
  <2>1. /\ pc' = "marker" /\ trials' = trials + 1
        /\ UNCHANGED <<conn, inBuffer, ret, got, toServer>>
    <3>1. trials = 0 \/ pc = "marker"
      BY <1>2 DEF BreakCount
    <3> QED BY <1>11, <3>1 DEF ReadMarker, ReadNextMarker
  <2>2. View' = View
    BY <2>1 DEF View
  <2>3. /\ Flow' /\ \A i \in DOMAIN toClient' : ~IsData(toClient'[i])
    BY <1>1, <1>2, <1>3, <1>4, <1>5, <2>2, TailFlow DEF Answered
  <2>4. BreakCount'
    BY <1>1, <1>2, <1>4, <1>11, <2>1, TakenBreak
  <2>5. Answered'
    BY <1>3, <1>4, <1>6, <2>1, <2>3 DEF Answered, IsData
  <2>6. ToClient'
    BY <1>1, <1>3, <1>6, <1>7, <2>1, <2>4, <2>5 DEF ToClient, InRead
  <2>7. ASSUME link = "up", phase = "interrupted"
        PROVE  toClient' # <<>> /\ toClient'[Len(toClient')] = ResetMarker
    <3>1. toClient[Len(toClient)] = ResetMarker
      BY <1>1, <2>7 DEF InStepInv, StreamInv, Lockstep
    <3>2. toClient[1] # ResetMarker
      BY <1>1, <1>2, <1>4, <1>11, TailShape, PacketsDiffer
    <3>3. /\ Len(toClient) \in Nat \ {0} /\ Len(toClient') = Len(toClient) - 1
          /\ DOMAIN toClient' = 1 .. Len(toClient) - 1
          /\ \A i \in DOMAIN toClient' : toClient'[i] = toClient[i + 1]
      BY <1>1, <1>2, <1>4, TailShape
    <3>4. Len(toClient) # 1
      BY <3>1, <3>2
    <3>5. Len(toClient') \in DOMAIN toClient' /\ Len(toClient') + 1 = Len(toClient)
      BY <3>3, <3>4
    <3>6. toClient'[Len(toClient')] = ResetMarker
      BY <3>1, <3>3, <3>5
    <3> QED BY <3>5, <3>6
  <2> QED
    BY <1>1, <1>3, <1>4, <1>7, <1>9, <2>1, <2>6, <2>7 DEF Lockstep, InRead
<1> QED BY <1>1, <1>10, <1>11 DEF ReadMarker, ReadNextMarker

\* The steps that end a call with an exception: the connection is closed or
\* stalled, or its link is down.
LEMMA RaiseInStep ==
  ASSUME StaysInStep, InStepInv,
         \/ WriteFails \/ TooManyTrials \/ ReadTimesOut \/ ReadFails \/ ReadEof
         \/ WrongPacket
  PROVE  ToClient' /\ Lockstep'
<1>a. UNCHANGED server
  BY ClientLeavesServer DEF ClientStep
<1>1. CASE conn' # "open"
  BY <1>1 DEF ToClient, Lockstep
<1>2. CASE conn' = "open"
  <2>1. ~ReadEof /\ ~ReadTimesOut /\ conn = "open"
    BY <1>2 DEF WriteFails, TooManyTrials, ReadTimesOut, ReadFails, ReadEof,
                WrongPacket, Raise
  <2>2. CASE WriteFails
    <3>1. /\ link = "down" /\ pc' = "idle" /\ trials' = 0 /\ UNCHANGED toClient
          /\ pc = "writing"
      BY <2>1, <2>2 DEF WriteFails, Raise
    <3>2. ToClientShape /\ \A i \in DOMAIN toClient : toClient[i] = Eof
      BY <2>1, <3>1 DEF InStepInv, StreamInv, ToClient, InRead
    <3>3. ToClientShape'
      BY <1>a, <3>1, <3>2 DEF ToClientShape, IsData, server, answer
    <3> QED BY <1>a, <3>1, <3>2, <3>3, EndedInStep
  <2>3. CASE TooManyTrials
    <3>1. /\ pc = "marker" /\ trials > TrialLimit
          /\ trials \in Nat /\ breaks \in 0 .. MaxBreaks
      BY <2>3, Kinds DEF TooManyTrials, InStepInv, TypeOK, ServerTypeOK
    <3>2. trials <= breaks
      BY <2>1, <3>1, WhileReading DEF InRead, BreakCount
    <3> QED BY <3>1, <3>2, BoundsAssumption DEF StaysInStep, TrialLimit
  <2>4. CASE ReadFails
    <3>1. /\ link = "down" /\ pc' = "idle" /\ trials' = 0 /\ UNCHANGED toClient
          /\ toClient = <<>>
      BY <2>1, <2>4 DEF ReadFails, Raise
    <3>2. ToClientShape' /\ \A i \in DOMAIN toClient' : toClient'[i] = Eof
      BY <3>1 DEF ToClientShape
    <3> QED BY <1>a, <3>1, <3>2, EndedInStep
  <2>5. CASE WrongPacket
    <3>1. /\ Receive /\ pc' = "idle" /\ trials' = 0 /\ toClient # <<>>
          /\ \/ pc = "marker" /\ Packet.type # "MARKER"
             \/ pc = "awaitData" /\ Packet.type # "DATA"
      BY <2>5 DEF WrongPacket, Raise, Receive
    <3>2. TypeOK /\ ToClientShape /\ Answered
      BY <2>1, <3>1, WhileReading DEF InRead, Unanswered
    <3>3. UNCHANGED <<phase, link>> /\ 1 \in DOMAIN toClient /\ Packet = toClient[1]
      BY <1>a, <2>1, <3>1, NextPacket DEF server, answer, InRead
    <3>4. Packet = Eof
      BY <3>1, <3>2, <3>3
      DEF Answered, ToClientShape, IsData, Eof, BreakMarker, ResetMarker
    <3>5. link = "down"
      BY <3>2, <3>3, <3>4 DEF ToClientShape
    <3>6. ToClientShape' /\ \A i \in DOMAIN toClient' : toClient'[i] = Eof
      BY <3>1, <3>2, <3>3, <3>4, TailShape, EndRemains
    <3> QED BY <1>a, <3>1, <3>5, <3>6, EndedInStep
  <2> QED BY <2>1, <2>2, <2>3, <2>4, <2>5
<1> QED BY <1>1, <1>2

\* Every step of the client.
LEMMA ClientInStep ==
  ASSUME StaysInStep, InStepInv, ClientView', BeginCall \/ ClientStep
  PROVE  ToClient' /\ Lockstep'
<1>a. TypeOK /\ ClientView /\ UNCHANGED server
  BY ClientLeavesServer DEF InStepInv, StreamInv
<1>1. CASE BeginCall
  BY <1>1, BeginInStep
<1>2. CASE WriteSegment
  BY <1>2, WriteInStep
<1>3. CASE WriteFails \/ TooManyTrials \/ ReadTimesOut \/ ReadFails \/ ReadEof
           \/ WrongPacket
  BY <1>3, RaiseInStep
<1>4. CASE TakeBytes
  <2>1. View' = View
    BY <1>a, <1>4, TakeView
  <2>2. UNCHANGED <<pc, call, conn, trials, toClient, toServer>>
    BY <1>4 DEF TakeBytes
  <2> QED BY <1>a, <2>1, <2>2, SameStep
<1>5. CASE ReadCode
  <2>1. View' = View
    BY <1>a, <1>5, CodeView
  <2>2. UNCHANGED <<pc, call, conn, trials, toClient, toServer>>
    BY <1>5 DEF ReadCode
  <2> QED BY <1>a, <2>1, <2>2, SameStep
<1>6. CASE UnknownCode
  BY <1>a, <1>6, NoUnknownCode
<1>7. CASE ReadBody
  BY <1>7, BodyInStep
<1>8. CASE DecodeFails
  BY <1>8 DEF DecodeFails, StaysInStep
<1>9. CASE ReadData
  <2>1. /\ Receive /\ InRead(pc) /\ toClient # <<>> /\ conn = "open"
        /\ IsData(Packet)
        /\ inBuffer = <<>> /\ pc' = "reading" /\ pc # "marker"
        /\ inBuffer' = inBuffer \o Packet.bytes
        /\ UNCHANGED <<call, conn, ret, need, field, trials, outcome, got, toServer>>
    BY <1>9 DEF ReadData, Receive, Waiting, InRead, IsData
  <2>2. Packet.bytes \in Seq(Byte)
    BY <2>1, NextData
  <2>3. inBuffer' = Packet.bytes
    BY <2>1, <2>2, ConcatEmptySeq
  <2> QED BY <1>a, <2>1, <2>3, GrewInStep
<1>10. CASE ReadResend
  BY <1>10, ResendInStep
<1>11. CASE ReadMarker \/ ReadNextMarker
  BY <1>11, MarkerInStep
<1>12. CASE AwaitData
  <2>1. /\ Receive /\ InRead(pc) /\ pc = "awaitData" /\ conn = "open" /\ toClient # <<>>
        /\ pc' = "reading" /\ inBuffer' = Packet.bytes /\ Packet.type = "DATA"
        /\ UNCHANGED <<call, conn, ret, need, field, trials, outcome, got, toServer>>
    BY <1>12 DEF AwaitData, Receive, InRead
  <2>2. inBuffer = <<>>
    BY <1>a, <2>1 DEF ClientView, ReadPosition
  <2>3. CASE IsData(Packet)
    BY <1>a, <2>1, <2>2, <2>3, GrewInStep
  <2>4. CASE ~IsData(Packet)
    <3>1. Packet = Eof
      BY <2>1, <2>4, NextPacket DEF BreakMarker, ResetMarker, Resend
    <3> QED BY <1>12, <3>1, AwaitedEof
  <2> QED BY <2>3, <2>4
<1> QED
  BY <1>1, <1>2, <1>3, <1>4, <1>5, <1>6, <1>7, <1>8, <1>9, <1>10, <1>11, <1>12
  DEF ClientStep

-----------------------------------------------------------------------------
(* The server's steps keep both ends in step.                              *)

\* What the client has does not change.
LEMMA ClientStays ==
  ASSUME ServerNext
  PROVE  /\ UNCHANGED <<pc, call, conn, need, field, trials, outcome>>
         /\ View' = View
BY ServerLeavesClient DEF client, View

\* So what it has stays one stretch.
LEMMA ServerViewStep ==
  ASSUME ClientView, ServerNext
  PROVE  ClientView'
<1>1. UNCHANGED client
  BY ServerLeavesClient
<1> QED BY <1>1 DEF client, ClientView, ReadPosition, View, InRead

\* A server that has a whole request has nothing else to come, and the client
\* waits for the response.
LEMMA RequestAlone ==
  ASSUME InStepInv, conn = "open", link = "up", phase = "receiving",
         RequestComplete
  PROVE  /\ pc = "reading" /\ View = <<>> /\ toClient = <<>> /\ toServer = <<>>
         /\ LastExecuted + 1 = call /\ request[Len(request)].call = call
<1> DEFINE last == request[Len(request)]
<1>1. /\ request \in Seq(Segment) /\ request # <<>> /\ TypeOK
      /\ LastExecuted \in Nat /\ call \in Nat
  BY Kinds, ExecutedType DEF RequestComplete, InStepInv
<1>2. last \in Segment /\ Len(request) \in DOMAIN request
  BY <1>1, LastOfSeq, LenProperties
<1>3. Pending(last) /\ Ends(last)
  BY <1>2 DEF InStepInv, StreamInv, RequestOrder, RequestComplete, Ends
<1>4. last.call \in Nat
  BY <1>2, SegmentTypes
<1> HIDE DEF last
<1>5. LastExecuted # call
  BY <1>1, <1>3, <1>4 DEF Pending
<1>6. LastExecuted + 1 = call /\ last.call = call
  BY <1>1, <1>3, <1>4, <1>5 DEF Pending, InStepInv, StreamInv, Lockstep
<1>7. pc # "writing" /\ pc # "idle"
  BY <1>1, <1>3, <1>5, <1>6 DEF Pending, InStepInv, StreamInv, Lockstep
<1>8. InRead(pc)
  BY <1>1, <1>7 DEF InRead, TypeOK, ClientTypeOK, Control
<1>9. Unanswered
  BY <1>5, <1>8, WhileReading
<1>10. toClient = <<>>
  BY <1>1, <1>5, <1>8 DEF InStepInv, StreamInv, Lockstep
<1>11. ASSUME NEW i \in DOMAIN toServer PROVE FALSE
  <2>1. toServer[i] # ResetMarker
    BY <1>11 DEF InStepInv, ResetInv, ResetExpected
  <2>2. Pending(toServer[i]) /\ last.call < toServer[i].call
    BY <1>11, <2>1 DEF InStepInv, StreamInv, RequestOrder, last
  <2>3. toServer[i] \in ClientPacket
    BY <1>1, <1>11, Kinds, ElementOfSeq, LenProperties
  <2>4. toServer[i].call \in Nat
    BY <2>1, <2>3, ToServerKinds, SegmentTypes
  <2> QED BY <1>1, <1>6, <2>2, <2>4 DEF Pending
<1>12. toServer = <<>>
  BY <1>1, <1>11, Kinds, NoElement
<1> QED BY <1>6, <1>9, <1>10, <1>12 DEF Unanswered, last

\* A segment received is of the call the client waits for.
LEMMA ReceivesInStep ==
  ASSUME InStepInv, ServerReceives
  PROVE  ToClient' /\ Lockstep'
<1>1. /\ link = "up" /\ phase = "receiving" /\ toServer # <<>>
      /\ UNCHANGED <<pc, call, conn, trials, toClient, link, phase, executed, round,
                     length, sent, breaks>> /\ View' = View
  BY ClientStays DEF ServerReceives, ServerNext, ServerStep
<1>2. LastExecuted' = LastExecuted /\ (Flow => Flow')
  BY <1>1, NextExecuted, SameFlow DEF InStepInv
<1>3. ToClient'
  BY <1>1, <1>2
  DEF InStepInv, StreamInv, ToClient, ToClientShape, BreakCount, Answered,
      Unanswered, IsData, InRead
<1> QED BY <1>1, <1>2, <1>3 DEF InStepInv, StreamInv, Lockstep, InRead

\* That call is the one executed ...
LEMMA ExecutesInStep ==
  ASSUME InStepInv, TypeOK', ServerExecutes
  PROVE  ToClient' /\ Lockstep'
<1>1. SUFFICES ASSUME conn = "open" PROVE ToClient' /\ Lockstep'
  BY ClientStays DEF ToClient, Lockstep, ServerNext, ServerStep
<1>2. /\ link = "up" /\ phase = "receiving" /\ RequestComplete
      /\ UNCHANGED <<pc, call, conn, trials, toServer, toClient, link, breaks>>
      /\ executed' = Append(executed, request[Len(request)].call)
      /\ phase' = "answering" /\ sent' = 0 /\ View' = View
  BY ClientStays DEF ServerExecutes, ServerNext, ServerStep
<1>3. /\ pc = "reading" /\ View = <<>> /\ toClient = <<>> /\ toServer = <<>>
      /\ request[Len(request)].call = call
  BY <1>1, <1>2, RequestAlone
<1>4. LastExecuted' = call
  <2>1. executed \in Seq(1 .. NumCalls) /\ call \in 1 .. NumCalls
    <3>1. call \in 0 .. NumCalls /\ call # 0
      BY <1>3 DEF InStepInv, TypeOK, ClientTypeOK, WireInv, Position, CallPosition
    <3> QED BY <3>1, BoundsAssumption DEF InStepInv, TypeOK, ServerTypeOK
  <2>2. executed' = Append(executed, call)
    BY <1>2, <1>3
  <2>3. /\ executed' # <<>> /\ Len(executed') = Len(executed) + 1
        /\ executed'[Len(executed) + 1] = call
    BY <2>1, <2>2, AppendElements
  <2> QED BY <2>3 DEF LastExecuted
<1>5. CaughtUp'
  BY <1>2, <1>3 DEF CaughtUp
<1>6. Flow'
  BY <1>2, <1>3, <1>5, FlowNext
<1>7. Answered'
  BY <1>2, <1>3, <1>6 DEF Answered
<1>8. ToClientShape' /\ BreakCount'
  BY <1>1, <1>2, <1>3, WhileReading DEF ToClientShape, BreakCount, InRead
<1>9. ToClient'
  BY <1>2, <1>3, <1>4, <1>7, <1>8 DEF ToClient, InRead
<1> QED BY <1>2, <1>3, <1>4, <1>9 DEF Lockstep, InRead

\* ... or asked for again.
LEMMA AsksResendInStep ==
  ASSUME InStepInv, ServerAsksResend
  PROVE  ToClient' /\ Lockstep'
<1>1. SUFFICES ASSUME conn = "open" PROVE ToClient' /\ Lockstep'
  BY ClientStays DEF ToClient, Lockstep, ServerNext, ServerStep
<1>2. /\ link = "up" /\ phase = "receiving" /\ RequestComplete
      /\ UNCHANGED <<pc, call, conn, trials, toServer, link, phase, executed, breaks>>
      /\ request' = <<>> /\ toClient' = Append(toClient, Resend) /\ View' = View
  BY ClientStays DEF ServerAsksResend, ServerNext
<1>3. /\ pc = "reading" /\ View = <<>> /\ toClient = <<>> /\ toServer = <<>>
      /\ LastExecuted + 1 = call
  BY <1>1, <1>2, RequestAlone
<1>4. LastExecuted' = LastExecuted /\ LastExecuted # call
  BY <1>2, <1>3, NextExecuted, ExecutedType DEF InStepInv
<1>5. toClient' = <<Resend>>
  BY <1>2, <1>3
<1>6. DOMAIN toClient' = {1} /\ toClient'[1] = Resend /\ Len(toClient') = 1
  BY <1>5
<1>7. ToClientShape'
  BY <1>6, PacketsDiffer DEF ToClientShape
<1>8. BreakCount'
  BY <1>1, <1>2, <1>3, <1>6, PacketsDiffer, WhileReading DEF BreakCount, InRead
<1>9. ToClient'
  BY <1>2, <1>3, <1>4, <1>6, <1>7, <1>8 DEF ToClient, Unanswered, InRead
<1> QED BY <1>2, <1>3, <1>4, <1>9 DEF Lockstep, InRead

\* A server that is not receiving answers the call the client waits for.
LEMMA Answering ==
  ASSUME InStepInv, conn = "open", link = "up", phase # "receiving"
  PROVE  /\ InRead(pc) /\ LastExecuted = call /\ Answered /\ ToClientShape
         /\ BreakCount /\ TypeOK
         /\ \A i \in DOMAIN toClient : toClient[i] # Eof
<1>1. LastExecuted = call /\ pc # "idle"
  BY DEF InStepInv, StreamInv, Lockstep
<1>2. call \in Nat /\ TypeOK
  BY Kinds DEF InStepInv
<1>3. pc # "writing"
  BY <1>1, <1>2 DEF InStepInv, StreamInv, RequestOrder
<1>4. InRead(pc)
  BY <1>1, <1>2, <1>3 DEF InRead, TypeOK, ClientTypeOK, Control
<1>5. Answered /\ ToClientShape /\ BreakCount
  BY <1>1, <1>4, WhileReading
<1> QED BY <1>1, <1>2, <1>4, <1>5 DEF ToClientShape

\* More of the response: the bytes right after those sent before.
LEMMA SendsInStep ==
  ASSUME InStepInv, ServerSends
  PROVE  ToClient' /\ Lockstep'
<1>1. SUFFICES ASSUME conn = "open" PROVE ToClient' /\ Lockstep'
  BY ClientStays DEF ToClient, Lockstep, ServerNext, ServerStep
<1>2. PICK k \in 1 .. (length - sent) :
        /\ toClient' = Append(toClient, Data([i \in 1 .. k |->
             [call |-> LastExecuted, round |-> round, n |-> sent + i,
              summary |-> sent + i > length - MessageLen]]))
        /\ sent' = sent + k
        /\ phase' = IF sent + k = length THEN "receiving" ELSE phase
  BY DEF ServerSends
<1>3. /\ link = "up" /\ phase = "answering"
      /\ UNCHANGED <<pc, call, conn, trials, toServer, link, request, executed,
                     round, length, breaks>>
      /\ View' = View
  BY ClientStays DEF ServerSends, ServerNext, ServerStep
<1>4. /\ InRead(pc) /\ LastExecuted = call /\ Answered /\ ToClientShape
      /\ BreakCount /\ TypeOK /\ \A i \in DOMAIN toClient : toClient[i] # Eof
  BY <1>1, <1>3, Answering
<1>5. /\ sent \in Nat /\ length \in Nat /\ round \in Nat /\ k \in Nat \ {0}
      /\ toClient \in Seq(ServerPacket) /\ MessageLen \in Nat
  BY <1>2, <1>4, Kinds, LengthOfMessage
<1> DEFINE b == [i \in 1 .. k |->
             [call |-> LastExecuted, round |-> round, n |-> sent + i,
              summary |-> sent + i > length - MessageLen]]
<1>6. /\ b \in Seq(Byte)
      /\ DOMAIN b = 1 .. k
      /\ \A i \in 1 .. k : /\ b[i].call = call /\ b[i].round = round
                           /\ b[i].n = sent + i
                           /\ b[i].summary = (sent + i > length - MessageLen)
  <2>1. b \in Seq(Byte)
    BY <1>3, SentBytesType DEF InStepInv, TypeOK, WireInv, Position
  <2> QED BY <1>4, <2>1
<1>7. toClient' = Append(toClient, Data(b))
  BY <1>2
<1> HIDE DEF b
<1>8. Len(b) = k /\ b # <<>>
  <2>1. Len(b) \in Nat /\ 1 .. Len(b) = 1 .. k
    BY <1>6, LenProperties
  <2>2. Len(b) = k
    BY <1>5, <2>1, <1>6
  <2> QED BY <1>5, <1>6, <2>2, EmptySeq
<1>9. OneRun(b)
  BY <1>5, <1>6, <1>8 DEF OneRun
<1>10. \A x : Own(x) /\ x.n \in Nat => OwnNext(x)
  BY <1>2, <1>3, <1>5 DEF Own, OwnNext
<1>11. PieceNext(b)
  <2>1. \A i \in 1 .. Len(b) : OwnNext(b[i]) /\ b[i].round = round'
    BY <1>2, <1>3, <1>5, <1>6, <1>8 DEF OwnNext
  <2> QED BY <1>9, <2>1 DEF PieceNext
<1>12. /\ Data(b) \in ServerPacket /\ IsData(Data(b)) /\ Data(b).bytes = b
  BY <1>6 DEF Data, ServerPacket, IsData
<1>13. /\ DOMAIN toClient = 1 .. Len(toClient) /\ Len(toClient) \in Nat
       /\ DOMAIN toClient' = 1 .. Len(toClient) + 1 /\ toClient' # <<>>
       /\ \A i \in DOMAIN toClient : toClient'[i] = toClient[i]
       /\ toClient'[Len(toClient) + 1] = Data(b)
       /\ Len(toClient') = Len(toClient) + 1
  BY <1>5, <1>7, <1>12, AppendElements
<1>14. \A i \in DOMAIN toClient : IsData(toClient[i])
  BY <1>3, <1>4 DEF ToClientShape, Answered
<1>15. \A i \in DOMAIN toClient' : IsData(toClient'[i])
  BY <1>12, <1>13, <1>14
<1>16. \A i \in DOMAIN View' : OwnNext(View'[i])
  <2>1. View \in Seq(Byte)
    BY <1>4, Kinds
  <2>2. \A i \in DOMAIN View : View[i].n \in Nat
    <3>1. \A x \in Byte : x.n \in Nat
      BY DEF Byte
    <3> QED BY <2>1, <3>1, ElementOfSeq, LenProperties
  <2> QED BY <1>3, <1>4, <1>10, <2>2 DEF Answered, Flow
<1>17. ASSUME NEW i \in DOMAIN toClient'
       PROVE  /\ PieceNext(toClient'[i].bytes)
              /\ IF i + 1 \in DOMAIN toClient' /\ IsData(toClient'[i + 1])
                 THEN toClient'[i + 1].bytes[1].n = LastByte(toClient'[i].bytes) + 1
                 ELSE LastByte(toClient'[i].bytes) = sent'
  <2>1. CASE i = Len(toClient) + 1
    <3>1. i + 1 \notin DOMAIN toClient' /\ toClient'[i].bytes = b
      BY <1>12, <1>13, <2>1
    <3>2. LastByte(b) = sent'
      BY <1>2, <1>5, <1>6, <1>8 DEF LastByte
    <3> QED BY <1>11, <3>1, <3>2
  <2>2. CASE i # Len(toClient) + 1
    <3>1. i \in DOMAIN toClient /\ toClient'[i] = toClient[i]
      BY <1>13, <2>2
    <3>2. /\ Piece(toClient[i].bytes)
          /\ IF i + 1 \in DOMAIN toClient /\ IsData(toClient[i + 1])
             THEN toClient[i + 1].bytes[1].n = LastByte(toClient[i].bytes) + 1
             ELSE LastByte(toClient[i].bytes) = sent
      BY <1>4, <1>14, <3>1 DEF Answered, Flow
    <3>3. PieceNext(toClient[i].bytes)
      <4> DEFINE d == toClient[i].bytes
      <4>1. d \in Seq(Byte)
        <5>1. toClient[i] \in ServerPacket
          BY <1>5, <3>1, ElementOfSeq, LenProperties
        <5> QED
          BY <1>14, <3>1, <5>1 DEF ServerPacket, IsData, ResetMarker, BreakMarker, Resend
      <4>2. Piece(d)
        BY <3>2
      <4> HIDE DEF d
      <4>3. \A j \in 1 .. Len(d) : d[j].n \in Nat
        <5>1. \A x \in Byte : x.n \in Nat
          BY DEF Byte
        <5> QED BY <4>1, <5>1, ElementOfSeq
      <4>4. PieceNext(d)
        BY <1>3, <1>10, <4>2, <4>3 DEF Piece, PieceNext
      <4> QED BY <4>4 DEF d
    <3>4. CASE i = Len(toClient)
      <4>1. /\ i + 1 \notin DOMAIN toClient /\ i + 1 \in DOMAIN toClient'
            /\ toClient'[i + 1] = Data(b)
        BY <1>13, <3>4
      <4>2. b[1].n = sent + 1
        BY <1>5, <1>6
      <4> QED BY <1>12, <3>1, <3>2, <3>3, <4>1, <4>2
    <3>5. CASE i # Len(toClient)
      <4>1. /\ i + 1 \in DOMAIN toClient /\ i + 1 \in DOMAIN toClient'
            /\ toClient'[i + 1] = toClient[i + 1]
        BY <1>13, <3>1, <3>5
      <4> QED BY <1>14, <3>1, <3>2, <3>3, <4>1
    <3> QED BY <3>4, <3>5
  <2> QED BY <2>1, <2>2
<1>18. Fits(View', toClient'[1].bytes[1])
  <2>1. CASE toClient # <<>>
    <3>1. 1 \in DOMAIN toClient
      BY <1>5, <2>1, TailElements
    <3>2. Fits(View, toClient[1].bytes[1])
      BY <1>4, <1>14, <2>1, <3>1 DEF Answered, Flow
    <3> QED BY <1>3, <1>13, <3>1, <3>2
  <2>2. CASE toClient = <<>>
    <3>1. CaughtUp
      BY <1>4, <2>2 DEF Answered, Flow
    <3>2. toClient'[1].bytes = b
      BY <1>12, <1>13, <2>2
    <3>3. b[1].n = sent + 1 /\ b[1].round = round /\ b[1].call = call
      BY <1>5, <1>6
    <3>4. View # <<>> => View[Len(View)].call = call
      <4>1. View # <<>> => Len(View) \in DOMAIN View
        BY <1>4, Kinds, LastOfSeq, LenProperties
      <4> QED BY <1>4, <4>1 DEF Answered, Flow, Own
    <3>5. Fits(View, b[1])
      <4>1. CASE View = <<>>
        BY <1>5, <3>1, <3>3, <4>1 DEF CaughtUp, Fits
      <4>2. CASE View # <<>> /\ sent = 0
        BY <3>1, <3>3, <3>4, <4>2 DEF CaughtUp, Fits, Follows, Place
      <4>3. CASE View # <<>> /\ sent # 0
        BY <3>1, <3>3, <3>4, <4>3 DEF CaughtUp, Fits, Follows
      <4> QED BY <4>1, <4>2, <4>3
    <3> QED BY <1>3, <3>2, <3>5
  <2> QED BY <2>1, <2>2
<1>19. Flow'
  <2>1. 1 \in DOMAIN toClient'
    BY <1>13
  <2> QED BY <1>13, <1>15, <1>16, <1>17, <1>18, <2>1, FlowNext
<1>20. \A i \in DOMAIN toClient' :
         toClient'[i] \notin {BreakMarker, ResetMarker, Resend, Eof}
  BY <1>15, DataKind
<1>21. ToClientShape'
  BY <1>20, <1>15 DEF ToClientShape, IsData
<1>22. BreakCount'
  BY <1>3, <1>4, <1>20 DEF BreakCount
<1>23. phase' # "breaking" /\ phase' # "interrupted"
  BY <1>2, <1>3
<1>24. Answered'
  BY <1>3, <1>4, <1>15, <1>19, <1>20, <1>23 DEF Answered, IsData
<1>25. LastExecuted' = LastExecuted
  BY <1>3, <1>4, NextExecuted
<1>26. ToClient'
  BY <1>3, <1>4, <1>21, <1>22, <1>24, <1>25 DEF ToClient, InRead
<1>27. toServer = <<>>
  BY <1>1, <1>3, <1>4 DEF InStepInv, StreamInv, Lockstep
<1> QED
  BY <1>3, <1>4, <1>23, <1>25, <1>26, <1>27 DEF Lockstep, InRead

\* The interrupt of a response; the client has not reset this one before.
LEMMA InterruptsInStep ==
  ASSUME InStepInv, ServerInterrupts
  PROVE  ToClient' /\ Lockstep'
<1>1. SUFFICES ASSUME conn = "open" PROVE ToClient' /\ Lockstep'
  BY ClientStays DEF ToClient, Lockstep, ServerNext
<1>2. /\ link = "up" /\ phase = "answering" /\ round < MaxRounds
      /\ phase' = "breaking" /\ breaks' = 0
      /\ UNCHANGED <<pc, call, conn, trials, toServer, toClient, link, request,
                     executed, round, length, sent>>
      /\ View' = View
  BY ClientStays DEF ServerInterrupts, ServerNext
<1>3. /\ InRead(pc) /\ LastExecuted = call /\ Answered /\ ToClientShape
      /\ BreakCount /\ TypeOK /\ \A i \in DOMAIN toClient : toClient[i] # Eof
  BY <1>1, <1>2, Answering
<1>4. pc = "reading"
  <2>1. round \in Nat /\ MaxRounds \in Nat
    BY <1>3, Kinds, BoundsAssumption
  <2>2. pc # "awaitData"
    BY <1>2, <1>3, <2>1 DEF Answered
  <2>3. pc # "marker"
    BY <1>2, <1>3 DEF Answered
  <2> QED BY <1>3, <2>2, <2>3 DEF InRead
<1>5. \A i \in DOMAIN toClient : IsData(toClient[i])
  BY <1>2, <1>3 DEF ToClientShape, Answered
<1>6. \A i \in DOMAIN toClient :
        toClient[i] \notin {BreakMarker, ResetMarker, Resend, Eof}
  BY <1>5, DataKind
<1>7. ToClientShape' /\ BreakCount'
  BY <1>2, <1>3, <1>4, <1>5, <1>6 DEF ToClientShape, BreakCount, IsData
<1>8. Flow'
  BY <1>2, <1>3, SameFlow DEF Answered
<1>9. Answered'
  BY <1>2, <1>4, <1>6, <1>8 DEF Answered
<1>10. LastExecuted' = LastExecuted
  BY <1>2, <1>3, NextExecuted
<1>11. ToClient'
  BY <1>2, <1>3, <1>7, <1>9, <1>10 DEF ToClient, InRead
<1>12. toServer = <<>>
  BY <1>1, <1>2, <1>3 DEF InStepInv, StreamInv, Lockstep
<1> QED BY <1>2, <1>3, <1>4, <1>10, <1>11, <1>12 DEF Lockstep, InRead

\* Break markers, and the reset marker, come after the data.
LEMMA BreaksInStep ==
  ASSUME InStepInv, ServerBreaks \/ ServerAsksReset
  PROVE  ToClient' /\ Lockstep'
<1>1. SUFFICES ASSUME conn = "open" PROVE ToClient' /\ Lockstep'
  BY ClientStays DEF ToClient, Lockstep, ServerNext, ServerStep
<1>2. /\ link = "up" /\ phase = "breaking"
      /\ UNCHANGED <<pc, call, conn, trials, toServer, link, request, executed,
                     round, length, sent>>
      /\ View' = View
  BY ClientStays
  DEF ServerBreaks, ServerAsksReset, ServerNext, ServerStep
<1>3. PICK p \in {BreakMarker, ResetMarker} :
        /\ toClient' = Append(toClient, p)
        /\ \/ p = BreakMarker /\ phase' = phase /\ breaks' = breaks + 1
           \/ p = ResetMarker /\ phase' = "interrupted" /\ breaks' = breaks
  BY DEF ServerBreaks, ServerAsksReset
<1>4. /\ InRead(pc) /\ LastExecuted = call /\ Answered /\ ToClientShape
      /\ BreakCount /\ TypeOK /\ \A i \in DOMAIN toClient : toClient[i] # Eof
  BY <1>1, <1>2, Answering
<1>5. /\ toClient \in Seq(ServerPacket) /\ p \in ServerPacket /\ ~IsData(p)
      /\ trials \in Nat /\ breaks \in Nat
  BY <1>4, Kinds, DataKind DEF ServerPacket
<1>6. /\ DOMAIN toClient = 1 .. Len(toClient) /\ Len(toClient) \in Nat
      /\ DOMAIN toClient' = 1 .. Len(toClient) + 1 /\ toClient' # <<>>
      /\ \A i \in DOMAIN toClient : toClient'[i] = toClient[i]
      /\ toClient'[Len(toClient) + 1] = p
      /\ Len(toClient') = Len(toClient) + 1
  BY <1>3, <1>5, AppendElements
<1>7. \A i \in DOMAIN toClient : IsData(toClient[i]) \/ toClient[i] = BreakMarker
  BY <1>2, <1>4 DEF ToClientShape, Answered
<1>8. pc \in {"reading", "marker"} /\ trials <= breaks
  BY <1>2, <1>4, <1>5 DEF Answered, InRead, BreakCount
<1>9. Flow'
  BY <1>2, <1>3, <1>4, <1>5, AppendedFlow DEF Answered
<1>10. ASSUME NEW i \in DOMAIN toClient'
       PROVE  \/ i \in DOMAIN toClient /\ toClient'[i] = toClient[i]
              \/ i = Len(toClient) + 1 /\ toClient'[i] = p
  BY <1>6
<1>11. /\ phase' \in {"breaking", "interrupted"}
       /\ p = ResetMarker => phase' = "interrupted"
  BY <1>2, <1>3, PacketsDiffer
<1>12. ToClientShape'
  <2>1. SUFFICES ASSUME NEW i \in DOMAIN toClient'
        PROVE  /\ IsData(toClient'[i]) \/ toClient'[i] \in {BreakMarker, ResetMarker}
               /\ toClient'[i] # Eof /\ toClient'[i] # Resend
               /\ toClient'[i] = ResetMarker => phase' = "interrupted"
               /\ \A j \in DOMAIN toClient' : i < j =>
                    /\ IsData(toClient'[j]) => IsData(toClient'[i])
                    /\ toClient'[j] \in {BreakMarker, ResetMarker} =>
                         IsData(toClient'[i]) \/ toClient'[i] = BreakMarker
    BY <1>11 DEF ToClientShape, IsData
  <2>2. CASE i = Len(toClient) + 1
    <3>1. toClient'[i] = p /\ \A j \in DOMAIN toClient' : ~(i < j)
      BY <1>6, <2>2
    <3> QED BY <1>11, <3>1, PacketsDiffer
  <2>3. CASE i \in DOMAIN toClient
    <3>1. toClient'[i] = toClient[i]
      BY <1>6, <2>3
    <3>2. /\ IsData(toClient'[i]) \/ toClient'[i] = BreakMarker
          /\ toClient'[i] \notin {ResetMarker, Eof, Resend}
      BY <1>7, <2>3, <3>1, DataKind, PacketsDiffer
    <3>3. ASSUME NEW j \in DOMAIN toClient', i < j, IsData(toClient'[j])
          PROVE  IsData(toClient'[i])
      <4>1. j \in DOMAIN toClient /\ toClient'[j] = toClient[j]
        BY <1>5, <1>10, <3>3
      <4> QED BY <1>4, <2>3, <3>1, <3>3, <4>1 DEF ToClientShape
    <3> QED BY <3>2, <3>3
  <2> QED BY <1>10, <2>2, <2>3
<1>13. BreakCount'
  <2>1. SUFFICES ASSUME NEW i \in DOMAIN toClient', NEW j \in DOMAIN toClient', i <= j,
                        toClient'[i] = BreakMarker, toClient'[j] = BreakMarker
                 PROVE  trials + (j - i) + 1 <= breaks'
    <3>1. breaks <= breaks' /\ breaks' \in Nat
      BY <1>3, <1>5
    <3>2. pc' = "marker" => trials' <= breaks'
      BY <1>2, <1>5, <1>8, <3>1
    <3>3. pc' # "marker" => trials' = 0
      BY <1>2, <1>4 DEF BreakCount
    <3> QED BY <1>2, <2>1, <3>2, <3>3 DEF BreakCount
  <2>2. CASE j \in DOMAIN toClient
    <3>1. i \in DOMAIN toClient /\ toClient[i] = BreakMarker /\ toClient[j] = BreakMarker
      BY <1>6, <2>1, <2>2
    <3>2. trials + (j - i) + 1 <= breaks
      BY <1>4, <2>1, <2>2, <3>1 DEF BreakCount
    <3> QED BY <1>3, <1>5, <1>6, <2>1, <3>2
  <2>3. CASE j = Len(toClient) + 1 /\ i = j
    <3>1. breaks' = breaks + 1
      BY <1>3, <1>6, <2>1, <2>3, PacketsDiffer
    <3> QED BY <1>5, <1>6, <1>8, <2>3, <3>1
  <2>4. CASE j = Len(toClient) + 1 /\ i # j
    <3>1. breaks' = breaks + 1
      BY <1>3, <1>6, <2>1, <2>4, PacketsDiffer
    <3>2. i \in DOMAIN toClient /\ toClient[i] = BreakMarker /\ i <= Len(toClient)
      BY <1>6, <1>10, <2>1, <2>4
    <3>3. toClient[Len(toClient)] = BreakMarker /\ Len(toClient) \in DOMAIN toClient
      <4>1. Len(toClient) \in DOMAIN toClient
        BY <1>6, <3>2
      <4>2. CASE i = Len(toClient)
        BY <3>2, <4>1, <4>2
      <4>3. CASE i # Len(toClient)
        <5>1. i < Len(toClient)
          BY <1>6, <3>2, <4>3
        <5>2. ~IsData(toClient[i])
          BY <3>2, DataKind
        <5>3. ~IsData(toClient[Len(toClient)])
          BY <1>4, <3>2, <4>1, <5>1, <5>2 DEF ToClientShape
        <5> QED BY <1>7, <4>1, <5>3
      <4> QED BY <4>2, <4>3
    <3>4. trials + (Len(toClient) - i) + 1 <= breaks
      BY <1>4, <3>2, <3>3 DEF BreakCount
    <3> QED BY <1>5, <1>6, <2>4, <3>1, <3>2, <3>4
  <2> QED BY <1>10, <2>1, <2>2, <2>3, <2>4
<1>14. Answered'
  <2>1. \A i \in DOMAIN toClient' : toClient'[i] # Resend
    BY <1>7, <1>10, DataKind, PacketsDiffer
  <2>2. ASSUME pc = "marker", NEW i \in DOMAIN toClient'
        PROVE  ~IsData(toClient'[i])
    BY <1>4, <1>5, <1>10, <2>2 DEF Answered
  <2> QED BY <1>2, <1>8, <1>9, <1>11, <2>1, <2>2 DEF Answered, IsData
<1>15. LastExecuted' = LastExecuted
  BY <1>2, <1>4, NextExecuted
<1>16. ToClient'
  BY <1>2, <1>4, <1>12, <1>13, <1>14, <1>15 DEF ToClient, InRead
<1>17. toServer = <<>>
  BY <1>1, <1>2, <1>4 DEF InStepInv, StreamInv, Lockstep
<1>18. phase' = "interrupted" =>
         toClient' # <<>> /\ toClient'[Len(toClient')] = ResetMarker
  BY <1>2, <1>3, <1>6
<1> QED
  BY <1>2, <1>4, <1>8, <1>11, <1>15, <1>16, <1>17, <1>18 DEF Lockstep, InRead

\* The server begins the response anew once the client has read all of what
\* it gave up.
LEMMA ResetsInStep ==
  ASSUME StaysInStep, InStepInv, ServerResets
  PROVE  ToClient' /\ Lockstep'
<1>1. SUFFICES ASSUME conn = "open" PROVE ToClient' /\ Lockstep'
  BY ClientStays DEF ToClient, Lockstep, ServerNext, ServerStep
<1>2. /\ link = "up" /\ phase = "interrupted" /\ toServer # <<>>
      /\ UNCHANGED <<pc, call, conn, trials, toClient, link, request, executed, breaks>>
      /\ View' = View /\ toServer' = Tail(toServer)
  BY ClientStays DEF ServerResets, ServerNext, ServerStep
<1>3. /\ InRead(pc) /\ LastExecuted = call /\ Answered /\ ToClientShape
      /\ BreakCount /\ TypeOK
  BY <1>1, <1>2, Answering
<1>4. pc = "awaitData" /\ toServer = <<ResetMarker>> /\ toClient = <<>>
  BY <1>1, <1>2, <1>3 DEF InStepInv, StreamInv, Lockstep
<1>5. Head(toServer) = ResetMarker /\ toServer' = <<>>
  BY <1>2, <1>4
<1>6. /\ phase' = "answering" /\ round' = round + 1 /\ sent' = 0
      /\ length' = MessageLen
  BY <1>5 DEF ServerResets
<1>7. /\ sent \in Nat /\ length \in Nat /\ round \in Nat /\ sent < length
      /\ Place(sent) = 0 /\ Place(length) = 0 /\ MessageLen \in Nat
  BY <1>2, <1>3, Kinds, LengthOfMessage DEF InStepInv, StreamInv, ServerPosition
<1>8. sent <= length - MessageLen
  BY <1>7, WholeMessageLeft
<1>9. /\ View \in Seq(Byte)
      /\ \A i \in DOMAIN View : /\ View[i].n \in Nat /\ View[i].round \in Nat
                                /\ View[i].summary \in BOOLEAN /\ Own(View[i])
  <2>1. \A x \in Byte : x.n \in Nat /\ x.round \in Nat /\ x.summary \in BOOLEAN
    BY DEF Byte
  <2> QED BY <1>3, <2>1, Kinds, ElementOfSeq, LenProperties DEF Answered, Flow
<1>10. \A i \in DOMAIN View' : OwnNext(View'[i])
  <2>1. SUFFICES ASSUME NEW i \in DOMAIN View PROVE OwnNext(View[i])
    BY <1>2
  <2>2. View[i].call = call /\ View[i].round <= round
    BY <1>7, <1>9 DEF Own
  <2>3. View[i].summary = FALSE
    <3>1. CASE View[i].round = round
      <4>1. View[i].n <= sent /\ (View[i].summary <=> View[i].n > length - MessageLen)
        BY <1>9, <3>1 DEF Own
      <4>2. ~(View[i].n > length - MessageLen)
        BY <1>7, <1>8, <1>9, <4>1
      <4> QED BY <1>9, <4>1, <4>2
    <3>2. CASE View[i].round # round
      BY <1>9, <3>2 DEF Own
    <3> QED BY <3>1, <3>2
  <2>4. View[i].round # round' /\ View[i].round < round'
    BY <1>6, <1>7, <1>9, <2>2
  <2> QED BY <1>2, <2>2, <2>3, <2>4 DEF OwnNext
<1>11. CaughtUp
  BY <1>3, <1>4 DEF Answered, Flow
<1>12. CaughtUp'
  <2>1. SUFFICES ASSUME View # <<>>
                 PROVE  Place(View[Len(View)].n) = 0 /\ View[Len(View)].round < round + 1
    BY <1>2, <1>6 DEF CaughtUp
  <2>2. Len(View) \in DOMAIN View
    BY <1>9, <2>1, LastOfSeq, LenProperties
  <2>3. Place(View[Len(View)].n) = 0 /\ View[Len(View)].round <= round
    BY <1>7, <1>9, <1>11, <2>1, <2>2 DEF CaughtUp
  <2> QED BY <1>7, <1>9, <2>2, <2>3
<1>13. Flow'
  BY <1>2, <1>4, <1>10, <1>12, FlowNext
<1>14. round' >= MaxRounds
  BY <1>6, <1>7, BoundsAssumption DEF StaysInStep
<1>15. Answered'
  BY <1>2, <1>4, <1>6, <1>13, <1>14 DEF Answered
<1>16. ToClientShape' /\ BreakCount'
  BY <1>2, <1>3, <1>4 DEF ToClientShape, BreakCount
<1>17. LastExecuted' = LastExecuted
  BY <1>2, <1>3, NextExecuted
<1>18. ToClient'
  BY <1>2, <1>3, <1>15, <1>16, <1>17 DEF ToClient, InRead
<1> QED BY <1>2, <1>3, <1>4, <1>5, <1>6, <1>17, <1>18 DEF Lockstep, InRead

\* The end of the connection is the last packet.
LEMMA LinkInStep ==
  ASSUME InStepInv, LinkGoesDown
  PROVE  ToClient' /\ Lockstep'
<1>1. SUFFICES ASSUME conn = "open" PROVE ToClient' /\ Lockstep'
  BY ClientStays DEF ToClient, Lockstep, ServerNext
<1>2. /\ link = "up" /\ link' = "down"
      /\ UNCHANGED <<pc, call, conn, trials, toServer, phase, executed, round,
                     length, sent, breaks>>
      /\ View' = View
      /\ toClient' = toClient \/ toClient' = Append(toClient, Eof)
  BY ClientStays DEF LinkGoesDown, ServerNext, answer
<1>3. TypeOK /\ ToClientShape /\ BreakCount
  BY <1>1 DEF InStepInv, StreamInv, ToClient
<1>4. toClient \in Seq(ServerPacket) /\ Eof \in ServerPacket /\ ~IsData(Eof)
  <2>1. Eof \in ServerPacket
    <3>1. <<>> \in Seq(Byte)
      BY EmptySeq
    <3> QED BY <3>1 DEF Eof, ServerPacket
  <2> QED BY <1>3, <2>1, Kinds, DataKind
<1>5. \A i \in DOMAIN toClient' :
        \/ i \in DOMAIN toClient /\ toClient'[i] = toClient[i]
        \/ i = Len(toClient') /\ toClient'[i] = Eof /\ i = Len(toClient) + 1
  <2>1. CASE toClient' = toClient
    BY <2>1
  <2>2. CASE toClient' = Append(toClient, Eof)
    BY <1>4, <2>2, AppendElements
  <2> QED BY <1>2, <2>1, <2>2
<1>6. \A i \in DOMAIN toClient : toClient[i] # Eof /\ i \in 1 .. Len(toClient)
  BY <1>2, <1>3, <1>4, LenProperties DEF ToClientShape
<1>7. Flow => Flow'
  BY <1>2, <1>3, <1>4, SameFlow, AppendedFlow
<1>8. Len(toClient) \in Nat
  BY <1>4, LenProperties
<1>9. ToClientShape'
  <2>1. SUFFICES ASSUME NEW i \in DOMAIN toClient'
        PROVE  /\ IsData(toClient'[i])
                    \/ toClient'[i] \in {BreakMarker, ResetMarker, Resend, Eof}
               /\ toClient'[i] = Eof => i = Len(toClient')
               /\ toClient'[i] = Resend => i = 1
               /\ toClient'[i] = BreakMarker => phase \in {"breaking", "interrupted"}
               /\ toClient'[i] = ResetMarker => phase = "interrupted"
               /\ \A j \in DOMAIN toClient' : i < j =>
                    /\ IsData(toClient'[j]) => IsData(toClient'[i])
                    /\ toClient'[j] \in {BreakMarker, ResetMarker} =>
                         IsData(toClient'[i]) \/ toClient'[i] = BreakMarker
    BY <1>2 DEF ToClientShape, IsData
  <2>2. CASE i \in DOMAIN toClient /\ toClient'[i] = toClient[i]
    <3>1. ASSUME NEW j \in DOMAIN toClient', i < j
          PROVE  /\ IsData(toClient'[j]) => IsData(toClient'[i])
                 /\ toClient'[j] \in {BreakMarker, ResetMarker} =>
                      IsData(toClient'[i]) \/ toClient'[i] = BreakMarker
      <4>1. CASE j \in DOMAIN toClient /\ toClient'[j] = toClient[j]
        BY <1>3, <2>2, <3>1, <4>1 DEF ToClientShape
      <4>2. CASE toClient'[j] = Eof
        BY <1>4, <4>2, PacketsDiffer
      <4> QED BY <1>5, <4>1, <4>2
    <3>2. toClient'[i] # Eof
      BY <1>6, <2>2
    <3> QED BY <1>3, <2>2, <3>1, <3>2 DEF ToClientShape
  <2>3. CASE i = Len(toClient') /\ toClient'[i] = Eof /\ i = Len(toClient) + 1
    <3>1. ASSUME NEW j \in DOMAIN toClient', i < j
          PROVE  FALSE
      BY <1>5, <1>6, <1>8, <2>3, <3>1
    <3> QED BY <2>3, <3>1, PacketsDiffer
  <2> QED BY <1>5, <2>2, <2>3
<1>10. BreakCount'
  <2>1. \A i \in DOMAIN toClient' : toClient'[i] = BreakMarker =>
          i \in DOMAIN toClient /\ toClient[i] = BreakMarker
    BY <1>5, PacketsDiffer
  <2> QED BY <1>2, <1>3, <2>1 DEF BreakCount
<1>11. Answered => Answered'
  <2>1. SUFFICES ASSUME Answered PROVE Answered'
    OBVIOUS
  <2>2. Flow'
    BY <1>7, <2>1 DEF Answered
  <2>3. \A i \in DOMAIN toClient' : toClient'[i] # Resend
    BY <1>5, <2>1, PacketsDiffer DEF Answered
  <2>4. ASSUME pc = "marker", NEW i \in DOMAIN toClient' PROVE ~IsData(toClient'[i])
    BY <1>4, <1>5, <2>1, <2>4 DEF Answered
  <2>5. ASSUME pc = "awaitData", NEW i \in DOMAIN toClient'
        PROVE  IsData(toClient'[i]) \/ toClient'[i] = Eof
    BY <1>5, <2>1, <2>5 DEF Answered
  <2> QED BY <1>2, <2>1, <2>2, <2>3, <2>4, <2>5 DEF Answered, IsData
<1>12. Unanswered => Unanswered'
  BY <1>2, <1>5 DEF Unanswered
<1>13. LastExecuted' = LastExecuted
  BY <1>2, <1>3, NextExecuted
<1>14. ~InRead(pc) => \A i \in DOMAIN toClient' : toClient'[i] = Eof
  BY <1>1, <1>5 DEF InStepInv, StreamInv, ToClient
<1>15. InRead(pc) => IF LastExecuted = call THEN Answered' ELSE Unanswered'
  BY <1>1, <1>11, <1>12, WhileReading
<1>16. ToClient'
  BY <1>2, <1>9, <1>10, <1>13, <1>14, <1>15 DEF ToClient, InRead
<1> QED BY <1>2, <1>16 DEF Lockstep

\* Every step of the server.
LEMMA ServerInStep ==
  ASSUME StaysInStep, InStepInv, TypeOK', ServerNext
  PROVE  ToClient' /\ Lockstep'
BY ReceivesInStep, ExecutesInStep, AsksResendInStep, SendsInStep,
   InterruptsInStep, BreaksInStep, ResetsInStep, LinkInStep
DEF ServerNext, ServerStep

-----------------------------------------------------------------------------
(* The results.                                                            *)

\* They begin in step.
LEMMA InitInStep == Init => InStepInv
<1> SUFFICES ASSUME Init PROVE InStepInv
  OBVIOUS
<1>1. TypeOK /\ WireInv
  BY InitTypes DEF Init, WireInv, RequestChain, WireChain, WireEnd, SentChain, Chained
<1>2. ResetInv
  BY DEF Init, ResetInv, ResetExpected, MarkersExpected
<1>3. View = <<>>
  BY ConcatEmptySeq, EmptySeq DEF Init, View
<1>4. ServerPosition
  BY PlaceSmall, LengthOfMessage DEF Init, ServerPosition
<1>5. RequestOrder /\ SentOrder
  BY DEF Init, RequestOrder, SentOrder, LastExecuted, RequestComplete
<1>6. ClientView
  BY <1>3, EmptyStretch DEF Init, ClientView, InRead
<1>7. ToClient /\ Lockstep
  BY DEF Init, ToClient, ToClientShape, BreakCount, Lockstep, InRead, LastExecuted
<1> QED BY <1>1, <1>2, <1>4, <1>5, <1>6, <1>7 DEF InStepInv, StreamInv

\* A step that changes nothing.
LEMMA StutterInStep ==
  ASSUME InStepInv, UNCHANGED vars
  PROVE  InStepInv'
<1> USE DEF vars, client, server, answer
<1>1. TypeOK' /\ WireInv' /\ ResetInv'
  BY WireStep DEF InStepInv, ResetInv, ResetExpected, MarkersExpected
<1>2. View' = View /\ LastExecuted' = LastExecuted
  BY DEF View, LastExecuted
<1>3. ServerPosition' /\ RequestOrder' /\ SentOrder'
  BY <1>2, SameRequests, SameSent DEF InStepInv, StreamInv, ServerPosition
<1>4. ClientView'
  BY <1>2 DEF InStepInv, StreamInv, ClientView, ReadPosition, InRead
<1>5. ToClient' /\ Lockstep'
  BY <1>2, SameStep
<1> QED BY <1>1, <1>3, <1>4, <1>5 DEF InStepInv, StreamInv

\* Every step keeps the inductive invariant.
LEMMA InStepStep ==
  ASSUME StaysInStep, InStepInv, [Next]_vars
  PROVE  InStepInv'
<1>1. TypeOK /\ WireInv /\ Position /\ ResetInv /\ ClientView /\ ServerPosition
  BY DEF InStepInv, StreamInv, WireInv
<1>2. TypeOK' /\ WireInv'
  BY <1>1, WireStep
<1>3. ServerPosition'
  BY <1>1, ServerPositionStep
<1>4. CASE BeginCall \/ ClientStep
  <2>1. ResetInv'
    BY <1>1, <1>4, ClientResets
  <2>2. RequestOrder' /\ SentOrder'
    BY <1>4, ClientOrder
  <2>3. ClientView'
    BY <1>2, <1>4, ClientViewStep
  <2>4. ToClient' /\ Lockstep'
    BY <1>4, <2>3, ClientInStep
  <2> QED BY <1>2, <1>3, <2>1, <2>2, <2>3, <2>4 DEF InStepInv, StreamInv
<1>5. CASE ServerNext
  <2>1. ResetInv'
    BY <1>1, <1>5, ServerKeepsResets
  <2>2. RequestOrder' /\ SentOrder'
    BY <1>5, ServerOrder
  <2>3. ClientView'
    BY <1>1, <1>5, ServerViewStep
  <2>4. ToClient' /\ Lockstep'
    BY <1>2, <1>5, ServerInStep
  <2> QED BY <1>2, <1>3, <2>1, <2>2, <2>3, <2>4 DEF InStepInv, StreamInv
<1>6. CASE UNCHANGED vars
  BY <1>6, StutterInStep
<1> QED BY <1>4, <1>5, <1>6 DEF Next, ServerNext, Finished

\* Client and server stay in step, whatever is resent, interrupted between
\* messages, timed out or lost.
THEOREM SessionInStep ==
  ASSUME StaysInStep
  PROVE  Spec => []InStepInv
<1>1. InStepInv /\ [Next]_vars => InStepInv'
  BY InStepStep
<1> QED BY <1>1, InitInStep, PTL DEF Spec

\* What the client has is of the call that waits.
LEMMA InStepPaired ==
  ASSUME TypeOK, ClientView
  PROVE  Paired
<1>1. /\ Len(got) \in Nat /\ Len(ret) \in Nat /\ Len(inBuffer) \in Nat
      /\ Len(View) = Len(got) + Len(ret) + Len(inBuffer)
      /\ DOMAIN View = 1 .. Len(View)
      /\ \A i \in 1 .. Len(got) : View[i] = got[i]
      /\ \A i \in 1 .. Len(ret) : View[Len(got) + i] = ret[i]
      /\ \A i \in 1 .. Len(inBuffer) : View[Len(got) + Len(ret) + i] = inBuffer[i]
      /\ DOMAIN got = 1 .. Len(got) /\ DOMAIN ret = 1 .. Len(ret)
      /\ DOMAIN inBuffer = 1 .. Len(inBuffer)
  BY ViewParts, Kinds, LenProperties
<1>2. \A i \in 1 .. Len(View) : View[i].call = call
  BY <1>1 DEF ClientView
<1>3. ASSUME NEW i \in DOMAIN got PROVE got[i].call = call
  <2>1. i \in 1 .. Len(View)
    BY <1>1
  <2> QED BY <1>1, <1>2, <2>1
<1>4. ASSUME NEW i \in DOMAIN ret PROVE ret[i].call = call
  <2>1. Len(got) + i \in 1 .. Len(View)
    BY <1>1
  <2> QED BY <1>1, <1>2, <2>1
<1>5. ASSUME NEW i \in DOMAIN inBuffer PROVE inBuffer[i].call = call
  <2>1. Len(got) + Len(ret) + i \in 1 .. Len(View)
    BY <1>1
  <2> QED BY <1>1, <1>2, <2>1
<1> QED BY <1>3, <1>4, <1>5 DEF Paired

\* Paired: no byte of one response is ever taken for a byte of another one.
THEOREM ResponsesPaired ==
  ASSUME StaysInStep
  PROVE  Spec => []Paired
<1>1. InStepInv => Paired
  BY InStepPaired DEF InStepInv, StreamInv
<1> QED BY <1>1, SessionInStep, PTL

\* InSequence: what read() gathers and hands out is one stretch of the
\* response, through any number of packets, and across an interrupt.
THEOREM ResponsesInSequence ==
  ASSUME StaysInStep
  PROVE  Spec => []InSequence
<1>1. InStepInv => InSequence
  BY DEF InStepInv, StreamInv, ClientView, Stretch, InSequence, View
<1> QED BY <1>1, SessionInStep, PTL

\* A set of natural numbers has a least element.
LEMMA LeastElement ==
  ASSUME NEW T, T \subseteq Nat, T # {}
  PROVE  \E m \in T : \A k \in T : m <= k
<1> DEFINE Less == {p \in Nat \X Nat : p[1] < p[2]}
<1>1. IsWellFoundedOn(Less, Nat)
  BY NatLessThanWellFounded DEF OpToRel
<1>2. PICK m \in T : \A k \in T : ~ (<<k, m>> \in Less)
  <2> HIDE DEF Less
  <2> QED BY <1>1, WFMin
<1>3. ASSUME NEW k \in T PROVE m <= k
  <2>1. k \in Nat /\ m \in Nat
    OBVIOUS
  <2>2. ~(k < m)
    BY <1>2, <2>1
  <2> QED BY <2>1, <2>2
<1> QED BY <1>3

\* Within a field no message ends, and a new round begins where one does.
LEMMA FieldOfOneRound ==
  ASSUME TypeOK, ClientView, NEW i \in 1 .. Len(ret), NEW j \in 1 .. Len(ret),
         i < j
  PROVE  ret[i].round = ret[j].round
<1>1. /\ Len(got) \in Nat /\ Len(ret) \in Nat /\ Len(inBuffer) \in Nat
      /\ Len(View) = Len(got) + Len(ret) + Len(inBuffer)
      /\ \A k \in 1 .. Len(ret) : View[Len(got) + k] = ret[k]
  BY ViewParts
<1>2. ret # <<>> /\ Len(ret) > 1
  BY <1>1, EmptySeq
<1>3. Place(Len(got)) = 1 /\ Len(ret) <= MessageLen - 1
  <2>1. pc = "reading" /\ ReadPosition /\ field \in {"code", "body"}
        /\ need \in Nat
    BY <1>2, Kinds DEF ClientView, ReadPosition, InRead, TypeOK, ClientTypeOK
  <2> QED BY <1>1, <1>2, <2>1, LengthOfMessage DEF ReadPosition
<1> DEFINE Other == {k \in i .. j : ret[k].round # ret[i].round}
<1>4. SUFFICES ASSUME Other # {} PROVE FALSE
  <2>1. j \in i .. j
    BY <1>1
  <2> QED BY <2>1
<1>5. PICK m \in Other : \A k \in Other : m <= k
  <2>1. Other \subseteq Nat
    BY <1>1
  <2> HIDE DEF Other
  <2> QED BY <1>4, <2>1, LeastElement
<1>6. /\ m \in i + 1 .. j /\ m \in Nat /\ m - 1 \in i .. j
      /\ m \in 1 .. Len(ret) /\ m - 1 \in 1 .. Len(ret)
      /\ ret[m].round # ret[i].round
  BY <1>1
<1>7. ret[m - 1].round = ret[i].round
  <2>1. ~(m <= m - 1)
    BY <1>6
  <2>2. m - 1 \notin Other
    BY <1>5, <2>1
  <2> QED BY <1>6, <2>2
<1> HIDE DEF Other
<1> DEFINE x == Len(got) + (m - 1)
<1>8. x \in 1 .. Len(View) - 1 /\ x \in 1 .. Len(View) /\ x + 1 = Len(got) + m
  BY <1>1, <1>6
<1>9. Follows(View[x], View[x + 1]) /\ Place(View[x].n) = Place(x)
  BY <1>8 DEF ClientView, Stretch, Contiguous
<1>10. View[x] = ret[m - 1] /\ View[x + 1] = ret[m]
  BY <1>1, <1>6, <1>8
<1>11. Place(x) = m
  <2>1. 1 \in Nat /\ Len(got) \in Nat /\ m - 1 \in Nat /\ Place(1) = 1
        /\ 1 + (m - 1) = m /\ m \in 0 .. MessageLen - 1
    BY <1>1, <1>3, <1>6, PlaceSmall, LengthOfMessage
  <2>2. Place(Len(got) + (m - 1)) = Place(1 + (m - 1))
    <3>1. PICK a \in Nat, k \in Nat : a = Len(got) /\ k = m - 1
      BY <2>1
    <3>2. Place(a) = Place(1)
      BY <1>3, <2>1, <3>1
    <3>3. Place(a + k) = Place(1 + k)
      BY <2>1, <3>1, <3>2, PlaceSum
    <3> QED BY <3>1, <3>3
  <2>3. Place(m) = m
    BY <2>1, PlaceSmall
  <2> QED BY <2>1, <2>2, <2>3
<1>12. Place(x) = 0
  <2>1. View[x].round # View[x + 1].round
    BY <1>6, <1>7, <1>10
  <2> QED BY <1>9, <2>1 DEF Follows, Place
<1> QED BY <1>6, <1>11, <1>12

\* FieldIntact: with interrupts between messages only, each field is put
\* together from one response.  (Finding 1 is what happens without.)
THEOREM FieldsIntact ==
  ASSUME StaysInStep
  PROVE  Spec => []FieldIntact
<1>1. InStepInv => FieldIntact
  <2> SUFFICES ASSUME InStepInv PROVE FieldIntact
    OBVIOUS
  <2>1. TypeOK /\ ClientView
    BY DEF InStepInv, StreamInv
  <2>2. DOMAIN ret = 1 .. Len(ret) /\ Len(ret) \in Nat
    BY <2>1, Kinds, LenProperties
  <2>3. ASSUME NEW i \in 1 .. Len(ret), NEW j \in 1 .. Len(ret)
        PROVE  ret[i].round = ret[j].round
    <3>1. i < j \/ j < i \/ i = j
      OBVIOUS
    <3> QED BY <2>1, <3>1, FieldOfOneRound
  <2> QED BY <2>2, <2>3 DEF FieldIntact
<1> QED BY <1>1, SessionInStep, PTL

-----------------------------------------------------------------------------
(* The session implements CallSpec.                                        *)

\* A step of a call: it goes on, raises, or may return.
LEMMA CallGoesOn ==
  ASSUME ClientStep
  PROVE  /\ pc # "idle" /\ UNCHANGED call
         /\ pc' # "idle" \/ outcome' = "raised" \/ ReadBody
<1>1. CASE WriteSegment \/ TakeBytes \/ ReadCode \/ ReadData \/ AwaitData
  BY <1>1 DEF WriteSegment, TakeBytes, ReadCode, ReadData, AwaitData
<1>2. CASE \/ WriteFails \/ UnknownCode \/ DecodeFails \/ ReadEof
           \/ TooManyTrials \/ WrongPacket \/ ReadTimesOut \/ ReadFails
  <2>1. pc # "idle" /\ UNCHANGED call
    BY <1>2 DEF WriteFails, UnknownCode, DecodeFails, ReadEof, TooManyTrials,
                WrongPacket, ReadTimesOut, ReadFails, Waiting
  <2>2. outcome' = "raised"
    BY <1>2 DEF WriteFails, UnknownCode, DecodeFails, ReadEof, TooManyTrials,
                WrongPacket, ReadTimesOut, ReadFails, Raise
  <2> QED BY <2>1, <2>2
<1>3. CASE ReadBody
  BY <1>3 DEF ReadBody
<1>4. CASE ReadResend
  BY <1>4 DEF ReadResend, Raise, client
<1>5. CASE ReadMarker \/ ReadNextMarker
  <2>1. pc # "idle" /\ UNCHANGED call
    BY <1>5 DEF ReadMarker, ReadNextMarker, AcknowledgeReset
  <2>2. pc' # "idle" \/ outcome' = "raised"
    BY <1>5 DEF ReadMarker, ReadNextMarker, AcknowledgeReset, Raise
  <2> QED BY <2>1, <2>2
<1> QED BY <1>1, <1>2, <1>3, <1>4, <1>5 DEF ClientStep

\* A call that returns has its whole response.
LEMMA ReturnsWhole ==
  ASSUME InStepInv, ReadBody, pc' = "idle"
  PROVE  /\ LastExecuted = call /\ outcome' = "returned" /\ WholeResponse'
<1>a. TypeOK /\ ClientView /\ ServerPosition
  BY DEF InStepInv, StreamInv
<1>1. /\ pc = "reading" /\ need = 0 /\ field = "body" /\ got' = got \o ret
      /\ got[Len(got)].summary /\ outcome' = "returned" /\ UNCHANGED call
  BY DEF ReadBody
<1>2. Len(got) \in 1 .. Len(View)
  BY <1>a, <1>1, BodyPlace
<1>3. View # <<>> /\ View \in Seq(Byte) /\ 1 \in 1 .. Len(View)
      /\ Len(View) \in 1 .. Len(View)
  <2>1. View \in Seq(Byte)
    BY <1>a, Kinds
  <2>2. Len(View) # 0
    BY <1>2, <2>1, LenProperties
  <2> QED BY <2>1, <2>2, LenProperties, EmptySeq
<1>4. conn = "open"
  BY <1>a, <1>1, <1>3 DEF ClientView, InRead
<1>5. /\ LastExecuted = call /\ inBuffer = <<>>
      /\ View[Len(View)].summary /\ View[Len(View)].n = length
  BY <1>1, <1>4, SummaryIsLast
<1>6. got' = View
  BY <1>1, <1>a, <1>5, ViewParts
<1>7. length % MessageLen = 0
  BY <1>a DEF ServerPosition, Place
<1>8. View[1].n = 1 /\ Contiguous(View) /\ View[1].call = call
  BY <1>a, <1>3, ViewParts DEF ClientView, Stretch
<1>9. WholeResponse'
  BY <1>1, <1>3, <1>5, <1>6, <1>7, <1>8 DEF WholeResponse, Contiguous
<1> QED BY <1>1, <1>5, <1>9

\* Every step is one CallSpec allows, or none it sees.
LEMMA CallStep ==
  ASSUME StaysInStep, InStepInv, InStepInv', [Next]_vars
  PROVE  [Calls!Next]_(Calls!vars)
<1>a. TypeOK /\ (pc # "idle" => outcome = "none") /\ (pc' # "idle" => outcome' = "none")
  BY DEF InStepInv, StreamInv, ClientView
<1>1. CASE BeginCall
  <2>1. /\ pc = "idle" /\ call < NumCalls /\ call' = call + 1
        /\ pc' = "writing" /\ outcome' = "none" /\ UNCHANGED executed
    BY <1>1 DEF BeginCall, server, answer
  <2>2. Reply' = "none"
    BY <2>1 DEF Reply
  <2> QED BY <2>1, <2>2 DEF Calls!Next, Calls!Begin
<1>2. CASE ClientStep
  <2>1. /\ pc # "idle" /\ UNCHANGED <<call, executed>>
        /\ pc' # "idle" \/ outcome' = "raised" \/ ReadBody
    BY <1>2, CallGoesOn, ClientLeavesServer DEF server, answer
  <2>2. CASE pc' # "idle"
    <3>1. Reply = "none" /\ Reply' = "none"
      BY <1>a, <2>1, <2>2 DEF Reply
    <3> QED BY <2>1, <2>2, <3>1 DEF Calls!vars
  <2>3. CASE pc' = "idle" /\ outcome' = "raised"
    <3>1. Reply' = "failed"
      BY <2>3 DEF Reply
    <3> QED BY <2>1, <2>3, <3>1 DEF Calls!Next, Calls!Fail
  <2>4. CASE pc' = "idle" /\ ReadBody
    <3>1. Calls!Latest = call /\ Reply' = "answered"
      BY <2>4, ReturnsWhole DEF Reply, Calls!Latest, LastExecuted
    <3> QED BY <2>1, <2>4, <3>1 DEF Calls!Next, Calls!Answer
  <2> QED BY <2>1, <2>2, <2>3, <2>4
<1>3. CASE ServerNext
  <2>1. UNCHANGED <<pc, call, outcome, got>>
    BY <1>3, ServerLeavesClient DEF client
  <2>2. Reply' = Reply
    BY <2>1 DEF Reply, WholeResponse
  <2>3. CASE ServerExecutes
    <3> DEFINE last == request[Len(request)]
    <3>1. /\ executed' = Append(executed, last.call) /\ request # <<>>
          /\ executed \in Seq(1 .. NumCalls) /\ request \in Seq(Segment)
      BY <1>a, <2>3 DEF ServerExecutes, RequestComplete, TypeOK, ServerTypeOK
    <3>2. last \in Segment /\ Len(request) \in DOMAIN request
      BY <3>1, LastOfSeq, LenProperties
    <3>3. last.call \in 1 .. NumCalls /\ last.call \in Nat
      BY <3>2, SegmentTypes DEF Segment
    <3>4. Pending(last)
      BY <3>2 DEF InStepInv, StreamInv, RequestOrder
    <3> HIDE DEF last
    <3>5. last.call \in (Calls!Latest + 1) .. call
      <4>1. Calls!Latest = LastExecuted
        BY DEF Calls!Latest, LastExecuted
      <4>2. /\ LastExecuted \in Nat /\ call \in Nat
            /\ LastExecuted < last.call /\ last.call <= call
        BY <1>a, <3>4, ExecutedType, Kinds DEF Pending
      <4> QED BY <3>3, <4>1, <4>2
    <3> QED BY <2>1, <2>2, <3>1, <3>5 DEF Calls!Next, Calls!Execute
  <2>4. CASE ~ServerExecutes
    <3>1. UNCHANGED executed
      BY <1>3, <2>4
      DEF ServerNext, ServerStep, ServerReceives, ServerSends, ServerAsksReset,
          ServerResets, ServerAsksResend, ServerInterrupts, ServerBreaks,
          LinkGoesDown, answer
    <3> QED BY <2>1, <2>2, <3>1 DEF Calls!vars
  <2> QED BY <2>3, <2>4
<1>4. CASE UNCHANGED vars
  BY <1>4
  DEF vars, client, server, answer, Calls!vars, Reply, WholeResponse
<1> QED BY <1>1, <1>2, <1>3, <1>4 DEF Next, ServerNext, Finished

\* The safety part of ImplementsFairCalls: each call is executed at most once
\* and in order, and ends with an exception or with the whole response to it.
THEOREM SessionImplementsCalls ==
  ASSUME StaysInStep
  PROVE  Spec => Calls!Spec
<1>1. Init => Calls!Init
  BY DEF Init, Calls!Init, Reply
<1>2. InStepInv /\ InStepInv' /\ [Next]_vars => [Calls!Next]_(Calls!vars)
  BY CallStep
<1> QED BY <1>1, <1>2, SessionInStep, PTL DEF Spec, Calls!Spec
=============================================================================
