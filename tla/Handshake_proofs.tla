-------------------------- MODULE Handshake_proofs --------------------------
(***************************************************************************)
(* What holds of Handshake for any server's capabilities and any number of *)
(* renegotiations.                                                         *)
(***************************************************************************)
EXTENDS Handshake, SequenceTheorems, TLAPS

-----------------------------------------------------------------------------
(* Sequences of messages and of packets.                                   *)

LEMMA HeadTail ==
  ASSUME NEW S, NEW s \in Seq(S), s # <<>>
  PROVE  /\ Head(s) \in S /\ Head(s) = s[1]
         /\ Tail(s) \in Seq(S) /\ Len(Tail(s)) = Len(s) - 1
         /\ \A i \in 1 .. Len(Tail(s)) : Tail(s)[i] = s[i + 1]
         /\ Len(s) \in Nat \ {0}
OBVIOUS

LEMMA NoElements ==
  ASSUME NEW S, NEW s \in Seq(S)
  PROVE  s = <<>> <=> Len(s) = 0
BY EmptySeq

LEMMA HeadTailOfAppended ==
  ASSUME NEW S, NEW s \in Seq(S), Len(s) = 1, NEW t \in Seq(S)
  PROVE  /\ s \o t # <<>> /\ Head(s \o t) = s[1] /\ Tail(s \o t) = t
<1> DEFINE u == s \o t
<1>1. /\ u \in Seq(S) /\ Len(u) = Len(t) + 1 /\ u[1] = s[1]
      /\ Len(t) \in Nat
  BY ConcatProperties
<1>2. SubSeq(u, 2, Len(u)) = SubSeq(t, 1, Len(t))
  BY <1>1, SubSeqOfConcat2
<1>3. SubSeq(t, 1, Len(t)) = t
  BY SubSeqFull
<1> HIDE DEF u
<1>4. u # <<>> /\ Head(u) = u[1]
  BY <1>1
<1>5. Tail(u) = SubSeq(u, 2, Len(u))
  BY <1>1, <1>4, TailIsSubSeq
<1> QED BY <1>1, <1>2, <1>3, <1>4, <1>5 DEF u

\* However a response is cut, its packets hold messages of it and nothing else.
LEMMA PartsType ==
  ASSUME NEW S, NEW response \in Seq(S), NEW n \in 0 .. Len(response) - 1
  PROVE  Parts(response, n) \in Seq(Seq(S))
<1>1. CASE n = 0
  BY <1>1 DEF Parts
<1>2. CASE n # 0
  <2>1. /\ SubSeq(response, 1, n) \in Seq(S)
        /\ SubSeq(response, n + 1, Len(response)) \in Seq(S)
    BY <1>2, SubSeqProperties
  <2> QED BY <1>2, <2>1 DEF Parts
<1> QED BY <1>1, <1>2

LEMMA SendsType ==
  ASSUME NEW S, NEW response \in Seq(S), packets \in Seq(Seq(S)),
         Sends(response)
  PROVE  packets' \in Seq(Seq(S))
<1>1. PICK n \in 0 .. Len(response) - 1 : packets' = packets \o Parts(response, n)
  BY DEF Sends
<1>2. Parts(response, n) \in Seq(Seq(S))
  BY PartsType
<1> QED BY <1>1, <1>2, ConcatProperties

-----------------------------------------------------------------------------
(* What the server sends.                                                  *)

LEMMA AgreedType == TypeOK => Agreed \in Caps
<1> SUFFICES ASSUME TypeOK PROVE Agreed \in Caps
  OBVIOUS
<1>1. serverCaps \in Caps /\ serverCaps.ttc \in Nat /\ ClientTtc \in Nat
  BY NumbersAssumption DEF TypeOK, Caps
<1>2. Lesser(ClientTtc, serverCaps.ttc) \in Nat
  BY <1>1 DEF Lesser
<1> QED BY <1>1, <1>2 DEF Agreed, Caps

LEMMA MessageType ==
  ASSUME TypeOK, NEW code \in Nat, NEW step \in Step, NEW ok \in BOOLEAN,
         layer \in Algorithm
  PROVE  /\ Message(code, step, ok) \in Messages
         /\ Message(code, step, ok).code = code
         /\ Message(code, step, ok).step = step
         /\ Message(code, step, ok).ok = ok
         /\ Message(code, step, ok).caps = Agreed
BY AgreedType DEF Message, Messages

LEMMA RightMessage ==
  ASSUME TypeOK, NEW code \in Nat, NEW step \in Step
  PROVE  /\ Message(code, step, TRUE) \in Messages
         /\ Message(code, step, TRUE).code = code
         /\ Message(code, step, TRUE).step = step
         /\ Message(code, step, TRUE).ok
         /\ Message(code, step, TRUE).caps = Agreed
<1>1. layer \in Algorithm /\ TRUE \in BOOLEAN
  BY DEF TypeOK
<1> QED BY <1>1, MessageType, Zenon

Asked == {"logon", "auth", "version", "call"}

\* The messages of the responses to the last four steps.
LEMMA ResponseForms ==
  ASSUME NEW step \in Asked, NEW response \in Responses(step)
  PROVE  LET m(code) == Message(code, step, TRUE)
             refused == Message(4, step, FALSE)
         IN  \/ response = <<m(15), m(8), m(4)>> /\ step = "logon"
             \/ response = <<m(8), m(9), m(4)>> /\ step = "logon"
             \/ response = <<Message(8, step, FALSE), m(4)>> /\ step = "logon"
             \/ response = <<refused>>
             \/ response = <<m(8), m(4)>> /\ step # "logon"
             \/ response = <<m(8), m(9)>> /\ step # "logon"
             \/ response = <<m(23), m(8), m(4)>> /\ step = "auth"
             \/ response = <<m(7), m(7), m(4)>> /\ step = "call"
<1>1. CASE step = "logon"
  BY <1>1, Zenon DEF Responses
<1>2. CASE step = "auth"
  BY <1>2, Zenon DEF Responses
<1>3. CASE step = "version"
  BY <1>3, Zenon DEF Responses
<1>4. CASE step = "call"
  BY <1>4, Zenon DEF Responses
<1> QED BY <1>1, <1>2, <1>3, <1>4 DEF Asked

Codes == {4, 7, 8, 9, 15, 23}

LEMMA ResponseType ==
  ASSUME TypeOK, NEW step \in Asked, NEW response \in Responses(step),
         layer \in Algorithm
  PROVE  /\ response \in Seq(Messages) /\ response # <<>>
         /\ \A i \in 1 .. Len(response) :
              /\ response[i].step = step /\ response[i].caps = Agreed
              /\ response[i].code \in Codes
<1> step \in Step
  BY DEF Asked, Step
<1>1. \A code \in Codes, ok \in BOOLEAN :
        /\ Message(code, step, ok) \in Messages
        /\ Message(code, step, ok).code = code
        /\ Message(code, step, ok).step = step
        /\ Message(code, step, ok).caps = Agreed
  BY MessageType DEF Codes
<1>2. PICK a \in Codes, b \in Codes,
           c \in Codes, ok \in BOOLEAN :
        \/ response = <<Message(a, step, ok), Message(b, step, TRUE),
                       Message(c, step, TRUE)>>
        \/ response = <<Message(a, step, ok), Message(b, step, TRUE)>>
        \/ response = <<Message(a, step, ok)>>
  BY ResponseForms DEF Codes
<1> DEFINE first == Message(a, step, ok)
           second == Message(b, step, TRUE)
           third == Message(c, step, TRUE)
           Right(m) == /\ m \in Messages /\ m.step = step /\ m.caps = Agreed
                       /\ m.code \in Codes
<1>3. TRUE \in BOOLEAN
  OBVIOUS
<1>4. Right(first) /\ Right(second) /\ Right(third)
  BY <1>1, <1>3, Zenon
<1>5. \/ response = <<first, second, third>>
      \/ response = <<first, second>>
      \/ response = <<first>>
  BY <1>2, Zenon
<1> HIDE DEF first, second, third
<1>6. CASE response = <<first, second, third>>
  BY <1>4, <1>6
<1>7. CASE response = <<first, second>>
  BY <1>4, <1>7
<1>8. CASE response = <<first>>
  BY <1>4, <1>8
<1> QED BY <1>5, <1>6, <1>7, <1>8

-----------------------------------------------------------------------------
(* Types.                                                                  *)

LEMMA RaiseTo ==
  ASSUME TypeOK, Raise, Reading
  PROVE  /\ pc' \in {"opened", "raised", "failed"}
         /\ pc' = "opened" <=> pc = "version"
         /\ pc' = "raised" <=> pc = "call"
         /\ inBuffer' \in Seq(Messages) /\ (inBuffer = <<>> => inBuffer' = <<>>)
         /\ inBuffer # <<>> => inBuffer' = Tail(inBuffer)
         /\ UNCHANGED <<resume, state, requests>>
<1>1. pc = "version" \/ pc = "call" \/ (pc # "version" /\ pc # "call")
  OBVIOUS
<1>2. CASE pc = "version"
  <2>1. pc' = "opened"
    BY <1>2, Zenon DEF Raise
  <2> QED BY <1>2, <2>1, HeadTail DEF Raise, TypeOK
<1>3. CASE pc = "call"
  <2>1. pc' = "raised"
    BY <1>3, Zenon DEF Raise
  <2> QED BY <1>3, <2>1, HeadTail DEF Raise, TypeOK
<1>4. CASE pc # "version" /\ pc # "call"
  <2>1. pc' = "failed"
    BY <1>4, Zenon DEF Raise
  <2> QED BY <1>4, <2>1, HeadTail DEF Raise, TypeOK
<1> QED BY <1>2, <1>3, <1>4

\* What a service offers first is no algorithm.
LEMMA Offers ==
  ASSUME NEW offered, offered = OfferedEncryption \/ offered = OfferedIntegrity
  PROVE  /\ offered \in Seq(Algorithm) /\ Len(offered) >= 2
         /\ offered[1] = Plain /\ offered[2] # Plain
<1>1. 0 # 1 /\ 0 # 2
  OBVIOUS
<1>2. \A names : ServiceList(names, 0) = <<Plain>> \o names
  BY <1>1, Zenon DEF ServiceList
<1>3. CASE offered = OfferedEncryption
  <2>1. offered = <<Plain>> \o <<"RC4", "DES", "AES">>
    BY <1>2, <1>3, Zenon DEF OfferedEncryption
  <2> QED BY <2>1 DEF Algorithm, Plain
<1>4. CASE offered = OfferedIntegrity
  <2>1. offered = <<Plain>> \o <<"MD5", "SHA">>
    BY <1>2, <1>4, Zenon DEF OfferedIntegrity
  <2> QED BY <2>1 DEF Algorithm, Plain
<1> QED BY <1>3, <1>4

\* A server that only accepts chooses what is offered first.
LEMMA Picks ==
  ASSUME policy \in {"rejected", "accepted", "requested"},
         NEW offered \in Seq(Algorithm), Len(offered) >= 2,
         offered[1] = Plain, offered[2] # Plain
  PROVE  /\ Pick(offered) \in Algorithm
         /\ policy # "requested" => Pick(offered) = Plain
<1>1. CASE policy = "rejected"
  <2>1. Pick(offered) = Plain
    BY <1>1, Zenon DEF Pick
  <2> QED BY <2>1 DEF Algorithm, Plain
<1>2. CASE policy = "accepted"
  <2>1. Pick(offered) = Head(offered)
    BY <1>2, Zenon DEF Pick
  <2> QED BY <2>1 DEF Algorithm, Plain
<1>3. CASE policy = "requested"
  <2> DEFINE First(i) == offered[i] # Plain /\ \A j \in 1 .. i - 1 : offered[j] = Plain
  <2>1. 2 \in DOMAIN offered /\ First(2)
    OBVIOUS
  <2>2. \A i \in DOMAIN offered : offered[i] \in Algorithm
    OBVIOUS
  <2>3. Pick(offered) = offered[CHOOSE i \in DOMAIN offered : First(i)]
    BY <1>3, Zenon DEF Pick
  <2> HIDE DEF First
  <2>4. (CHOOSE i \in DOMAIN offered : First(i)) \in DOMAIN offered
    BY <2>1, Zenon
  <2> QED BY <1>3, <2>2, <2>3, <2>4
<1> QED BY <1>1, <1>2, <1>3

LEMMA LesserType == \A a, b \in Nat : Lesser(a, b) \in Nat
BY DEF Lesser

LEMMA Capabilities ==
  ASSUME TypeOK
  PROVE  /\ [caps EXCEPT !.ttc = Lesser(ClientTtc, serverCaps.ttc)] \in Caps
         /\ [caps EXCEPT !.eos = @ \/ serverCaps.eos,
                         !.fsap = @ \/ serverCaps.fsap,
                         !.big = @ \/ serverCaps.big] \in Caps
<1>1. caps \in Caps /\ serverCaps \in Caps
  BY DEF TypeOK
<1>2. Lesser(ClientTtc, serverCaps.ttc) \in Nat
  BY <1>1, LesserType, NumbersAssumption DEF Caps
<1>3. [caps EXCEPT !.ttc = Lesser(ClientTtc, serverCaps.ttc)] \in Caps
  BY <1>1, <1>2 DEF Caps
<1>4. /\ (caps.eos \/ serverCaps.eos) \in BOOLEAN
      /\ (caps.fsap \/ serverCaps.fsap) \in BOOLEAN
      /\ (caps.big \/ serverCaps.big) \in BOOLEAN
  OBVIOUS
<1>5. ASSUME NEW a \in BOOLEAN, NEW b \in BOOLEAN, NEW c \in BOOLEAN
      PROVE  [caps EXCEPT !.eos = a, !.fsap = b, !.big = c] \in Caps
  BY <1>1 DEF Caps
<1> QED BY <1>3, <1>4, <1>5, Zenon

LEMMA RequestType ==
  ASSUME TypeOK, NEW step \in Step, Request(step)
  PROVE  /\ requests' \in Seq(Step) /\ pc' = step /\ summary' = "none"
         /\ inBuffer' = <<>> /\ inBuffer' \in Seq(Messages)
BY DEF Request, TypeOK

\* A message that is read is one of those received.
LEMMA ReadsType ==
  ASSUME TypeOK, NEW step \in Step, NEW codes, Reads(step, codes)
  PROVE  /\ pc = step /\ Reading /\ inBuffer # <<>>
         /\ Head(inBuffer) \in Messages /\ Head(inBuffer).ok \in BOOLEAN
         /\ Head(inBuffer) = inBuffer[1] /\ Head(inBuffer).code \in codes
         /\ Tail(inBuffer) \in Seq(Messages)
         /\ UNCHANGED <<stalled, packets, config, server>>
<1>1. inBuffer \in Seq(Messages) /\ inBuffer # <<>>
  BY DEF Reads, TypeOK
<1> QED BY <1>1, HeadTail DEF Reads, Messages, Reading

LEMMA InitTypes == Init => TypeOK
<1> SUFFICES ASSUME Init PROVE TypeOK
  OBVIOUS
<1>1. serverCaps \in Caps /\ caps \in Caps
  BY CapsAssumption DEF Init, Caps
<1>2. /\ inBuffer \in Seq(Messages) /\ packets \in Seq(Seq(Messages))
      /\ requests \in Seq(Step)
  BY DEF Init
<1>3. layer \in Algorithm /\ renegotiations \in 0 .. MaxRenegotiations
  BY NumbersAssumption DEF Init, Algorithm
<1>4. /\ pc = "accepted" /\ resume = "none" /\ state = "Closed"
      /\ sessionKey = FALSE /\ summary = "none" /\ stalled = FALSE
      /\ logon \in BOOLEAN /\ services \in BOOLEAN /\ owed = "none"
      /\ policy \in {"rejected", "accepted", "requested"}
      /\ authenticated = FALSE
  BY DEF Init
<1> QED
  BY <1>1, <1>2, <1>3, <1>4 DEF TypeOK, Control

LEMMA ClientTypes ==
  ASSUME TypeOK, ClientStep \/ BeginCall \/ ReadTimesOut
  PROVE  TypeOK'
<1> Step \subseteq Control /\ {"opened", "returned", "raised", "failed"} \subseteq Control
  BY DEF Control
<1> USE DEF TypeOK
<1>1. CASE Receive
  <2>1. Head(packets) \in Seq(Messages) /\ Tail(packets) \in Seq(Seq(Messages))
    BY <1>1, HeadTail DEF Receive
  <2> QED BY <1>1, <2>1 DEF Receive, config, server
<1>2. CASE ReadUnexpected
  BY <1>2, RaiseTo DEF ReadUnexpected, config, server
<1>3. CASE WriteServices \/ SkipServices \/ BeginCall
  BY <1>3, RequestType
     DEF WriteServices, SkipServices, BeginCall, config, server, Step
<1>4. CASE ReadServices
  BY <1>4, RequestType, ReadsType, RaiseTo DEF ReadServices, config, server, Step
<1>5. CASE ReadProtocol
  BY <1>5, RequestType, ReadsType, Capabilities
     DEF ReadProtocol, config, server, Step
<1>6. CASE RejectProtocol
  BY <1>6, ReadsType, RaiseTo DEF RejectProtocol, config, server, Step
<1>7. CASE ReadTypes
  BY <1>7, RequestType, ReadsType, Capabilities
     DEF ReadTypes, config, server, Step
<1>8. CASE ReadTypesNoLogon
  BY <1>8, ReadsType, Capabilities DEF ReadTypesNoLogon, config, server, Step
<1>9. CASE ReadTypesAgain
  BY <1>9, ReadsType DEF ReadTypesAgain, config, server, Step
<1>10. CASE ReadOther
  BY <1>10, ReadsType DEF ReadOther, Continues, config, server, Step
<1>11. CASE ReadLogonStatus
  BY <1>11, ReadsType
     DEF ReadLogonStatus, StatusSummary, Continues, config, server, Step
<1>12. CASE Renegotiate
  BY <1>12, RequestType, ReadsType DEF Renegotiate, config, server, Step
<1>13. CASE ReadSessionKey
  BY <1>13, ReadsType DEF ReadSessionKey, Continues, config, server, Step
<1>14. CASE ReadLogonSummary
  BY <1>14, RequestType, ReadsType, RaiseTo
     DEF ReadLogonSummary, config, server, Step
<1>15. CASE ReadAuthEnd
  BY <1>15, RequestType, ReadsType, RaiseTo DEF ReadAuthEnd, config, server, Step
<1>16. CASE ReadVersion
  BY <1>16, ReadsType DEF ReadVersion, config, server, Step
<1>17. CASE ReadCallSummary
  BY <1>17, ReadsType DEF ReadCallSummary, config, server, Step
<1>18. CASE ReadCallStatus
  BY <1>18, ReadsType DEF ReadCallStatus, StatusSummary, config, server, Step
<1>19. CASE ReadTimesOut
  BY <1>19, RaiseTo DEF ReadTimesOut, config, server
<1> QED
  BY <1>1, <1>2, <1>3, <1>4, <1>5, <1>6, <1>7, <1>8, <1>9, <1>10, <1>11,
     <1>12, <1>13, <1>14, <1>15, <1>16, <1>17, <1>18, <1>19 DEF ClientStep

LEMMA ServerTypes ==
  ASSUME TypeOK, ServerStep
  PROVE  TypeOK'
<1> USE DEF TypeOK
<1>1. ASSUME NEW step \in Step, Serves(step)
      PROVE  /\ requests' \in Seq(Step) /\ step = Head(requests)
             /\ UNCHANGED <<client, config>>
  BY <1>1, HeadTail DEF Serves
<1>2. CASE ServeServices
  <2> DEFINE encryption == Pick(OfferedEncryption)
             integrity == Pick(OfferedIntegrity)
  <2>1. encryption \in Algorithm /\ integrity \in Algorithm
    BY Picks, Offers
  <2>2. (integrity = Plain) \in BOOLEAN /\ Deadbeef \in Nat
    BY DEF Deadbeef
  <2>3. Message(Deadbeef, "services", integrity = Plain) \in Messages
    BY <2>2, MessageType, Zenon DEF Step
  <2> HIDE DEF encryption, integrity
  <2> DEFINE response == <<Message(Deadbeef, "services", integrity = Plain)>>
  <2>4. response \in Seq(Messages) /\ Sends(response)
    BY <1>2, <2>3 DEF ServeServices, integrity
  <2> HIDE DEF response
  <2>5. packets' \in Seq(Seq(Messages))
    BY <2>4, SendsType
  <2> QED
    BY <1>1, <1>2, <2>1, <2>5
       DEF ServeServices, encryption, integrity, client, config, Step
<1>3. CASE ServeProtocol
  <2>1. PICK ok \in BOOLEAN : Sends(<<Message(1, "protocol", ok)>>)
    BY <1>3 DEF ServeProtocol
  <2>2. <<Message(1, "protocol", ok)>> \in Seq(Messages)
    BY MessageType DEF Step
  <2>3. packets' \in Seq(Seq(Messages))
    BY <2>1, <2>2, SendsType
  <2> QED BY <1>1, <1>3, <2>3 DEF ServeProtocol, client, config, server, Step
<1>4. CASE ServeTypes
  <2>1. PICK response \in IF owed = "none" THEN {<<>>} ELSE Responses(owed) :
          /\ Sends(<<Message(2, "types", TRUE)>> \o response)
          /\ authenticated' = (authenticated \/ LetsIn(owed, response))
    BY <1>4 DEF ServeTypes
  <2>2. response \in Seq(Messages)
    <3>1. CASE owed = "none"
      BY <2>1, <3>1
    <3>2. CASE owed # "none"
      <4>1. owed \in Asked /\ response \in Responses(owed)
        BY <2>1, <3>2 DEF Asked
      <4> QED BY <4>1, ResponseType
    <3> QED BY <3>1, <3>2
  <2> DEFINE m == Message(2, "types", TRUE)
  <2>3. m \in Messages /\ Sends(<<m>> \o response)
    BY <2>1, MessageType, Zenon DEF Step
  <2> HIDE DEF m
  <2>4. <<m>> \o response \in Seq(Messages)
    BY <2>2, <2>3
  <2> packets' \in Seq(Seq(Messages))
    BY <2>3, <2>4, SendsType
  <2>5. authenticated' \in BOOLEAN
    BY <2>1, Zenon
  <2> QED BY <1>1, <1>4, <2>5 DEF ServeTypes, client, config, Step
<1>5. CASE ServeRenegotiation
  <2>1. PICK step \in {"logon", "auth"} :
          Serves(step) /\ owed' = step /\ Sends(<<Message(28, step, TRUE)>>)
    BY <1>5 DEF ServeRenegotiation
  <2> DEFINE m == Message(28, step, TRUE)
  <2>2. m \in Messages /\ Sends(<<m>>)
    BY <2>1, MessageType, Zenon DEF Step
  <2> HIDE DEF m
  <2>3. packets' \in Seq(Seq(Messages))
    <3>1. <<m>> \in Seq(Messages)
      BY <2>2
    <3> QED BY <2>2, <3>1, SendsType
  <2> QED
    BY <1>1, <1>5, <2>1, <2>3, NumbersAssumption
       DEF ServeRenegotiation, client, config, Step
<1>6. CASE ServeOther
  <2>1. PICK step \in Asked :
          /\ Serves(step)
          /\ \E response \in Responses(step) :
               /\ Sends(response)
               /\ authenticated' = (authenticated \/ LetsIn(step, response))
    BY <1>6 DEF ServeOther, Asked
  <2> PICK response \in Responses(step) :
         /\ Sends(response)
         /\ authenticated' = (authenticated \/ LetsIn(step, response))
    BY <2>1
  <2>2. packets' \in Seq(Seq(Messages))
    BY ResponseType, SendsType
  <2>3. authenticated' \in BOOLEAN
    BY Zenon
  <2> QED BY <1>1, <1>6, <2>1, <2>2, <2>3 DEF ServeOther, client, config, Step, Asked
<1> QED BY <1>2, <1>3, <1>4, <1>5, <1>6 DEF ServerStep

LEMMA NextTypes == TypeOK /\ [Next]_vars => TypeOK'
<1>1. ASSUME TypeOK, UNCHANGED vars PROVE TypeOK'
  BY <1>1 DEF TypeOK, vars, client, config, server
<1> QED BY <1>1, ClientTypes, ServerTypes DEF Next, Stopped

\* The variables of client, network and server keep their types.
THEOREM HandshakeTypes == Spec => []TypeOK
BY InitTypes, NextTypes, PTL DEF Spec

-----------------------------------------------------------------------------
(* Turns.  What is on its way to a client that reads is the rest of one     *)
(* response: every message is of the step, and the one that ends the step   *)
(* is the last.                                                             *)

\* The client goes on to another step, or stops, behind this message.
Ends(step, m) ==
  \/ step \in {"services", "protocol", "types"}
  \/ step = "logon" /\ m.code \in {4, 28}
  \/ step = "auth" /\ m.code \in {4, 9, 28}
  \/ step = "call" /\ m.code \in {4, 9}

Whole(step, s, more) ==
  \A i \in 1 .. Len(s) :
    s[i].step = step /\ (Ends(step, s[i]) <=> i = Len(s) /\ ~more)

Answering(step, buffer, queue) ==
  /\ buffer # <<>> \/ queue # <<>>
  /\ Whole(step, buffer, queue # <<>>)
  /\ \A p \in 1 .. Len(queue) :
       queue[p] # <<>> /\ Whole(step, queue[p], p < Len(queue))

LEMMA AnswerReceived ==
  ASSUME NEW step, NEW queue \in Seq(Seq(Messages)), queue # <<>>,
         Answering(step, <<>>, queue)
  PROVE  Answering(step, Head(queue), Tail(queue))
<1>1. /\ Head(queue) = queue[1] /\ Len(Tail(queue)) = Len(queue) - 1
      /\ \A p \in 1 .. Len(Tail(queue)) : Tail(queue)[p] = queue[p + 1]
      /\ Len(queue) \in Nat \ {0} /\ Tail(queue) \in Seq(Seq(Messages))
  BY HeadTail
<1>2. (Tail(queue) # <<>>) <=> 1 < Len(queue)
  <2>1. Tail(queue) = <<>> <=> Len(Tail(queue)) = 0
    BY <1>1, NoElements, Zenon
  <2>2. \A a \in Nat \ {0} : \A b : b = a - 1 => ((b = 0) <=> ~(1 < a))
    OBVIOUS
  <2> QED BY <1>1, <2>1, <2>2, Zenon
<1>3. queue[1] # <<>> /\ Whole(step, queue[1], Tail(queue) # <<>>)
  BY <1>1, <1>2 DEF Answering, Whole
<1>4. ASSUME NEW p \in 1 .. Len(Tail(queue))
      PROVE  Tail(queue)[p] # <<>>
             /\ Whole(step, Tail(queue)[p], p < Len(Tail(queue)))
  BY <1>1 DEF Answering, Whole
<1> QED BY <1>1, <1>3, <1>4 DEF Answering

LEMMA AnswerContinued ==
  ASSUME NEW step, NEW buffer \in Seq(Messages),
         NEW queue \in Seq(Seq(Messages)), buffer # <<>>,
         Answering(step, buffer, queue), ~Ends(step, Head(buffer))
  PROVE  Answering(step, Tail(buffer), queue)
<1>1. /\ Head(buffer) = buffer[1] /\ Len(Tail(buffer)) = Len(buffer) - 1
      /\ \A p \in 1 .. Len(Tail(buffer)) : Tail(buffer)[p] = buffer[p + 1]
      /\ Len(buffer) \in Nat \ {0} /\ Tail(buffer) \in Seq(Messages)
  BY HeadTail
<1> 1 \in 1 .. Len(buffer)
  BY <1>1
<1>2. queue # <<>> \/ Len(buffer) > 1
  <2>1. Ends(step, buffer[1]) <=> 1 = Len(buffer) /\ ~(queue # <<>>)
    BY DEF Answering, Whole
  <2> QED BY <1>1, <2>1
<1>3. Tail(buffer) # <<>> \/ queue # <<>>
  BY <1>1, <1>2
<1>4. ASSUME NEW i \in 1 .. Len(Tail(buffer))
      PROVE  /\ Tail(buffer)[i].step = step
             /\ Ends(step, Tail(buffer)[i])
                  <=> i = Len(Tail(buffer)) /\ ~(queue # <<>>)
  <2>1. i + 1 \in 1 .. Len(buffer) /\ Tail(buffer)[i] = buffer[i + 1]
    BY <1>1
  <2>2. /\ buffer[i + 1].step = step
        /\ Ends(step, buffer[i + 1]) <=> i + 1 = Len(buffer) /\ ~(queue # <<>>)
    BY <2>1 DEF Answering, Whole
  <2>3. i + 1 = Len(buffer) <=> i = Len(Tail(buffer))
    BY <1>1
  <2> QED BY <2>1, <2>2, <2>3
<1> QED BY <1>3, <1>4 DEF Answering, Whole

LEMMA AnswerEnded ==
  ASSUME NEW step, NEW buffer \in Seq(Messages),
         NEW queue \in Seq(Seq(Messages)), buffer # <<>>,
         Answering(step, buffer, queue), Ends(step, Head(buffer))
  PROVE  Tail(buffer) = <<>> /\ queue = <<>>
<1>1. /\ Head(buffer) = buffer[1] /\ Len(Tail(buffer)) = Len(buffer) - 1
      /\ Len(buffer) \in Nat \ {0} /\ Tail(buffer) \in Seq(Messages)
  BY HeadTail
<1>2. Len(buffer) = 1 /\ queue = <<>>
  <2>1. 1 \in 1 .. Len(buffer)
    BY <1>1
  <2>2. Ends(step, buffer[1]) <=> 1 = Len(buffer) /\ ~(queue # <<>>)
    BY <2>1 DEF Answering, Whole
  <2> QED BY <1>1, <2>2
<1>3. Len(Tail(buffer)) = 0
  BY <1>1, <1>2
<1>4. Tail(buffer) = <<>>
  BY <1>1, <1>3, NoElements, Zenon
<1> QED BY <1>2, <1>4

\* A response that ends with its last message still does when it is cut.
LEMMA AnswerCut ==
  ASSUME NEW step, NEW response \in Seq(Messages), response # <<>>,
         Whole(step, response, FALSE), NEW n \in 0 .. Len(response) - 1
  PROVE  Answering(step, <<>>, Parts(response, n))
<1>1. CASE n = 0
  BY <1>1 DEF Parts, Answering, Whole
<1>2. CASE n # 0
  <2> DEFINE a == SubSeq(response, 1, n)
             b == SubSeq(response, n + 1, Len(response))
  <2>1. /\ a \in Seq(Messages) /\ Len(a) = n
        /\ \A i \in 1 .. n : a[i] = response[i]
    BY <1>2, SubSeqProperties
  <2>2. /\ b \in Seq(Messages) /\ Len(b) = Len(response) - n
        /\ \A i \in 1 .. Len(response) - n : b[i] = response[i + n]
    BY <1>2, SubSeqProperties
  <2> HIDE DEF a, b
  <2>3. a # <<>> /\ b # <<>>
    BY <1>2, <2>1, <2>2
  <2>4. ASSUME NEW i \in 1 .. n
        PROVE  a[i].step = step /\ ~Ends(step, a[i])
    BY <2>1 DEF Whole
  <2>6. ASSUME NEW i \in 1 .. Len(response) - n
        PROVE  b[i].step = step /\ (Ends(step, b[i]) <=> i = Len(response) - n)
    <3>1. i + n \in 1 .. Len(response) /\ b[i] = response[i + n]
      BY <2>2
    <3>2. /\ response[i + n].step = step
          /\ Ends(step, response[i + n]) <=> i + n = Len(response) /\ ~FALSE
      BY <3>1 DEF Whole
    <3> QED BY <3>1, <3>2
  <2>5. Parts(response, n) = <<a, b>>
    BY <1>2 DEF Parts, a, b
  <2> QED BY <2>1, <2>2, <2>3, <2>4, <2>5, <2>6 DEF Answering, Whole
<1> QED BY <1>1, <1>2

LEMMA ResponseWhole ==
  ASSUME TypeOK, NEW step \in Asked, NEW response \in Responses(step)
  PROVE  /\ step # "version" => Whole(step, response, FALSE)
         /\ step = "version" =>
              /\ Len(response) \in {1, 2}
              /\ Len(response) = 2 => response[2].code \in {4, 9}
<1>1. \A code \in Codes, ok \in BOOLEAN : Message(code, step, ok).code = code
  BY DEF Message
<1>2. \A i \in 1 .. Len(response) : response[i].step = step
  BY ResponseType DEF TypeOK
<1> DEFINE m4 == Message(4, step, TRUE)
           m7 == Message(7, step, TRUE)
           m8 == Message(8, step, TRUE)
           m9 == Message(9, step, TRUE)
           m15 == Message(15, step, TRUE)
           m23 == Message(23, step, TRUE)
           refused == Message(4, step, FALSE)
           wanting == Message(8, step, FALSE)
<1>3. /\ m4.code = 4 /\ m7.code = 7 /\ m8.code = 8 /\ m9.code = 9
      /\ m15.code = 15 /\ m23.code = 23 /\ refused.code = 4 /\ wanting.code = 8
  BY DEF Message
<1>4. \/ response = <<m15, m8, m4>> /\ step = "logon"
      \/ response = <<m8, m9, m4>> /\ step = "logon"
      \/ response = <<wanting, m4>> /\ step = "logon"
      \/ response = <<refused>>
      \/ response = <<m8, m4>> /\ step # "logon"
      \/ response = <<m8, m9>> /\ step # "logon"
      \/ response = <<m23, m8, m4>> /\ step = "auth"
      \/ response = <<m7, m7, m4>> /\ step = "call"
  BY ResponseForms, Zenon
<1> HIDE DEF m4, m7, m8, m9, m15, m23, refused, wanting
<1>5. CASE response = <<m15, m8, m4>> /\ step = "logon"
  BY <1>2, <1>3, <1>5 DEF Whole, Ends
<1>6. CASE response = <<m8, m9, m4>> /\ step = "logon"
  BY <1>2, <1>3, <1>6 DEF Whole, Ends
<1>7. CASE response = <<wanting, m4>> /\ step = "logon"
  BY <1>2, <1>3, <1>7 DEF Whole, Ends
<1>8. CASE response = <<refused>>
  BY <1>2, <1>3, <1>8 DEF Whole, Ends, Asked
<1>9. CASE response \in {<<m8, m4>>, <<m8, m9>>} /\ step # "logon"
  BY <1>2, <1>3, <1>9 DEF Whole, Ends, Asked
<1>10. CASE response = <<m23, m8, m4>> /\ step = "auth"
  BY <1>2, <1>3, <1>10 DEF Whole, Ends
<1>11. CASE response = <<m7, m7, m4>> /\ step = "call"
  BY <1>2, <1>3, <1>11 DEF Whole, Ends
<1> QED BY <1>4, <1>5, <1>6, <1>7, <1>8, <1>9, <1>10, <1>11

\* What get_db_version leaves behind.
LeftBehind(s) ==
  s \in Seq(Messages) /\ Len(s) = 1 /\ s[1].step = "version" /\ s[1].code \in {4, 9}

Leftover(queue) == queue = <<>> \/ (Len(queue) = 1 /\ LeftBehind(queue[1]))

\* Nothing is on its way.
Empty == inBuffer = <<>> /\ packets = <<>>

\* The server has the request, or what is on its way answers it.
Turn(step) ==
  \/ requests = <<step>> /\ Empty
  \/ requests = <<>> /\ Answering(step, inBuffer, packets)

\* The answer to a renegotiation, and the response it interrupted.
Resuming(s, queue) ==
  s # <<>> /\ s[1].step = "types" /\ Answering(resume, Tail(s), queue)

TypesTurn ==
  IF resume = "none" THEN Turn("types")
  ELSE \/ requests = <<"types">> /\ Empty
       \/ /\ requests = <<>>
          /\ \/ Resuming(inBuffer, packets)
             \/ /\ inBuffer = <<>> /\ packets # <<>>
                /\ Resuming(Head(packets), Tail(packets))

VersionTurn ==
  \/ requests = <<"version">> /\ Empty
  \/ /\ requests = <<>>
     /\ \/ inBuffer # <<>> /\ inBuffer[1].step = "version" /\ Leftover(packets)
        \/ /\ inBuffer = <<>> /\ packets # <<>> /\ Head(packets) # <<>>
           /\ Head(packets)[1].step = "version" /\ Leftover(Tail(packets))

CallTurn ==
  \/ requests = <<"call">> /\ inBuffer = <<>> /\ Leftover(packets)
  \/ requests = <<"call">> /\ LeftBehind(inBuffer) /\ packets = <<>>
  \/ requests = <<>> /\ Answering("call", inBuffer, packets)
  \/ requests = <<>> /\ LeftBehind(inBuffer) /\ Answering("call", <<>>, packets)
  \/ /\ requests = <<>> /\ inBuffer = <<>> /\ packets # <<>>
     /\ LeftBehind(Head(packets)) /\ Answering("call", <<>>, Tail(packets))

Uninterrupting == {m \in Messages : m.code # 28}

NoInterrupt ==
  inBuffer \in Seq(Uninterrupting) /\ packets \in Seq(Seq(Uninterrupting))

\* What the server owes is what message 28 has interrupted.
Owing ==
  /\ pc = "accepted" => Empty /\ requests = <<>>
  /\ pc \in {"accepted", "services"} => owed = "none" /\ resume = "none"
  /\ pc = "protocol" => owed = resume
  /\ pc = "types" => NoInterrupt /\ (requests # <<>> => owed = resume)
  /\ pc \in {"logon", "auth"} => owed = pc \/ NoInterrupt

Turns ==
  /\ pc \in {"services", "protocol", "logon"} => Turn(pc)
  /\ pc = "types" => TypesTurn
  /\ pc = "auth" => Turn(pc) \/ (~logon /\ requests = <<>> /\ Empty)
  /\ pc = "version" => VersionTurn
  /\ pc = "opened" => requests = <<>> /\ Leftover(packets)
  /\ pc = "call" => CallTurn

\* After a timeout nothing is read any more, and the rest does not matter.
Dialogue == IF stalled THEN inBuffer = <<>> ELSE Owing /\ Turns

-----------------------------------------------------------------------------
(* The client keeps to the turns.                                          *)

LEMMA EmptyNext ==
  ASSUME inBuffer' = <<>>, packets' = <<>>
  PROVE  Empty' /\ NoInterrupt'
BY DEF Empty, NoInterrupt

LEMMA NoInterruptNext ==
  ASSUME TypeOK, NoInterrupt,
         \/ /\ inBuffer = <<>> /\ packets # <<>>
            /\ inBuffer' = Head(packets) /\ packets' = Tail(packets)
         \/ inBuffer # <<>> /\ inBuffer' = Tail(inBuffer) /\ packets' = packets
  PROVE  NoInterrupt'
<1>1. CASE packets # <<>> /\ inBuffer' = Head(packets) /\ packets' = Tail(packets)
  <2>1. /\ Head(packets) \in Seq(Uninterrupting)
        /\ Tail(packets) \in Seq(Seq(Uninterrupting))
    BY <1>1, HeadTail DEF NoInterrupt
  <2> QED BY <1>1, <2>1 DEF NoInterrupt
<1>2. CASE inBuffer # <<>> /\ inBuffer' = Tail(inBuffer) /\ packets' = packets
  <2>1. Tail(inBuffer) \in Seq(Uninterrupting)
    BY <1>2, HeadTail DEF NoInterrupt
  <2> QED BY <1>2, <2>1 DEF NoInterrupt
<1> QED BY <1>1, <1>2

\* The message that ends a step leaves nothing behind.
LEMMA TurnEnds ==
  ASSUME TypeOK, NEW step \in Step, Turn(step), inBuffer # <<>>,
         Ends(step, Head(inBuffer))
  PROVE  requests = <<>> /\ Tail(inBuffer) = <<>> /\ packets = <<>>
<1>1. requests = <<>> /\ Answering(step, inBuffer, packets)
  BY DEF Turn, Empty
<1> QED BY <1>1, AnswerEnded DEF TypeOK

LEMMA TurnContinues ==
  ASSUME TypeOK, NEW step \in Step, Turn(step), inBuffer # <<>>,
         ~Ends(step, Head(inBuffer)),
         inBuffer' = Tail(inBuffer), UNCHANGED <<requests, packets>>
  PROVE  Turn(step)'
<1>1. requests = <<>> /\ Answering(step, inBuffer, packets)
  BY DEF Turn, Empty
<1>2. Answering(step, Tail(inBuffer), packets)
  BY <1>1, AnswerContinued DEF TypeOK
<1> QED BY <1>1, <1>2 DEF Turn

LEMMA TurnReceives ==
  ASSUME TypeOK, NEW step \in Step, Turn(step), Receive
  PROVE  Turn(step)'
<1>1. /\ requests = <<>> /\ Answering(step, <<>>, packets) /\ packets # <<>>
      /\ requests' = requests
      /\ inBuffer' = Head(packets) /\ packets' = Tail(packets)
  BY DEF Turn, Empty, Receive
<1>2. Answering(step, Head(packets), Tail(packets))
  BY <1>1, AnswerReceived DEF TypeOK
<1> QED BY <1>1, <1>2 DEF Turn

LEMMA TurnBegins ==
  ASSUME NEW step \in Step, Request(step), requests = <<>>, packets = <<>>,
         packets' = packets
  PROVE  Turn(step)' /\ pc' = step /\ Empty' /\ NoInterrupt' /\ requests' # <<>>
<1>1. requests' = <<step>> /\ inBuffer' = <<>> /\ pc' = step
  BY DEF Request
<1> QED BY <1>1, EmptyNext DEF Turn, Empty

LEMMA LeftoverShrinks ==
  ASSUME NEW queue \in Seq(Seq(Messages)), queue # <<>>, Leftover(queue)
  PROVE  Tail(queue) = <<>> /\ LeftBehind(Head(queue))
<1>1. Len(queue) = 1 /\ LeftBehind(queue[1])
  BY DEF Leftover
<1>2. Len(Tail(queue)) = 0 /\ Tail(queue) \in Seq(Seq(Messages))
  BY <1>1
<1>3. Tail(queue) = <<>>
  BY <1>2, NoElements, Zenon
<1> QED BY <1>1, <1>3

LEMMA ReceiveDialogue ==
  ASSUME TypeOK, ~stalled, Dialogue, Receive
  PROVE  Dialogue'
<1>1. /\ inBuffer = <<>> /\ packets # <<>> /\ inBuffer' = Head(packets)
      /\ packets' = Tail(packets) /\ pc \in Step
      /\ UNCHANGED <<pc, resume, stalled, logon, requests, owed>>
  BY DEF Receive, Reading, config, server
<1>2. Owing /\ Turns
  BY DEF Dialogue
<1>3. NoInterrupt => NoInterrupt'
  BY <1>1, NoInterruptNext
<1>4. Owing'
  BY <1>1, <1>2, <1>3 DEF Owing, Step
<1>5. pc \in {"services", "protocol", "logon"} => Turn(pc)'
  BY <1>1, <1>2, TurnReceives DEF Turns
<1>6. pc = "auth" => Turn(pc)'
  BY <1>1, <1>2, TurnReceives DEF Turns, Empty
<1>7. pc = "types" => TypesTurn'
  <2> SUFFICES ASSUME pc = "types" PROVE TypesTurn'
    OBVIOUS
  <2>1. TypesTurn
    BY <1>2 DEF Turns
  <2>2. CASE resume = "none"
    BY <1>1, <2>1, <2>2, TurnReceives DEF TypesTurn, Step
  <2>3. CASE resume # "none"
    BY <1>1, <2>1, <2>3 DEF TypesTurn, Empty, Resuming
  <2> QED BY <2>2, <2>3
<1>8. pc = "version" => VersionTurn'
  BY <1>1, <1>2 DEF Turns, VersionTurn, Empty
<1>9. pc = "call" => CallTurn'
  <2> SUFFICES ASSUME pc = "call" PROVE CallTurn'
    OBVIOUS
  <2>1. CASE requests = <<"call">> /\ Leftover(packets)
    BY <1>1, <2>1, LeftoverShrinks DEF CallTurn, TypeOK
  <2>2. CASE requests = <<>> /\ Answering("call", inBuffer, packets)
    <3>1. Answering("call", Head(packets), Tail(packets))
      BY <1>1, <2>2, AnswerReceived DEF TypeOK
    <3> QED BY <1>1, <2>2, <3>1 DEF CallTurn
  <2>3. CASE /\ requests = <<>> /\ LeftBehind(Head(packets))
             /\ Answering("call", <<>>, Tail(packets))
    BY <1>1, <2>3 DEF CallTurn
  <2> QED BY <1>1, <1>2, <2>1, <2>2, <2>3 DEF Turns, CallTurn, LeftBehind
<1>10. Turns'
  BY <1>1, <1>5, <1>6, <1>7, <1>8, <1>9 DEF Turns, Step
<1> QED BY <1>1, <1>4, <1>10 DEF Dialogue

\* Where the client stops, nobody's turn matters.
LEMMA StoppedDialogue ==
  ASSUME ~stalled, UNCHANGED stalled, pc' \in {"failed", "returned", "raised"}
  PROVE  Dialogue'
BY DEF Dialogue, Owing, Turns

\* A failure of get_db_version leaves the connection open.
LEMMA RaiseDialogue ==
  ASSUME TypeOK, ~stalled, Dialogue, Reading, inBuffer # <<>>, Raise,
         UNCHANGED <<stalled, packets>>
  PROVE  Dialogue'
<1>1. CASE pc # "version"
  BY <1>1, RaiseTo, StoppedDialogue
<1>2. CASE pc = "version"
  <2>1. pc' = "opened" /\ UNCHANGED requests
    BY <1>2, RaiseTo
  <2>2. VersionTurn
    BY <1>2 DEF Dialogue, Turns
  <2>3. requests = <<>> /\ Leftover(packets)
    BY <2>2 DEF VersionTurn, Empty
  <2> QED BY <2>1, <2>3 DEF Dialogue, Owing, Turns
<1> QED BY <1>1, <1>2

\* A step that is over and begins the next one.
LEMMA NextStepDialogue ==
  ASSUME ~stalled, UNCHANGED <<stalled, packets, owed>>,
         NEW step \in Step, Request(step), requests = <<>>, packets = <<>>,
         step \in {"protocol", "types"} => owed = resume',
         step = "services" => owed = "none" /\ resume' = "none",
         step = "types" /\ resume' # "none" => owed = resume'
  PROVE  Dialogue'
<1>1. Turn(step)' /\ pc' = step /\ Empty' /\ NoInterrupt'
  BY TurnBegins
<1>2. requests' = <<step>>
  BY DEF Request
<1>3. Owing'
  BY <1>1, <1>2 DEF Owing, Step
<1>4. step = "types" => TypesTurn'
  BY <1>1, <1>2 DEF TypesTurn
<1>5. step = "version" => VersionTurn'
  BY <1>1, <1>2 DEF VersionTurn
<1>6. step = "call" => CallTurn'
  BY <1>1, <1>2 DEF CallTurn, Empty, Leftover
<1>7. Turns'
  BY <1>1, <1>4, <1>5, <1>6 DEF Turns, Step
<1> QED BY <1>3, <1>7 DEF Dialogue

\* A message behind which the step goes on.
LEMMA SameStepDialogue ==
  ASSUME TypeOK, ~stalled, Dialogue, NEW codes,
         \/ Reads("logon", codes) /\ codes \cap {4, 28} = {}
         \/ Reads("auth", codes) /\ codes \cap {4, 9, 28} = {}
         \/ Reads("call", codes) /\ codes \cap {4, 9} = {},
         Continues
  PROVE  Dialogue'
<1>1. /\ pc \in {"logon", "auth", "call"} /\ inBuffer # <<>>
      /\ Head(inBuffer) = inBuffer[1] /\ Head(inBuffer).code \in codes
      /\ inBuffer' = Tail(inBuffer)
      /\ UNCHANGED <<pc, resume, requests, packets, stalled, logon, owed>>
  BY ReadsType DEF Continues, config, server, Step
<1>2. /\ pc = "logon" => Head(inBuffer).code \notin {4, 28}
      /\ pc = "auth" => Head(inBuffer).code \notin {4, 9, 28}
      /\ pc = "call" => Head(inBuffer).code \notin {4, 9}
  BY <1>1 DEF Reads
<1>3. ~Ends(pc, Head(inBuffer))
  BY <1>1, <1>2 DEF Ends
<1>4. pc = "call" => ~LeftBehind(inBuffer)
  BY <1>1, <1>2 DEF LeftBehind
<1>5. Owing /\ Turns
  BY DEF Dialogue
<1>6. Owing'
  <2>1. NoInterrupt => NoInterrupt'
    BY <1>1, NoInterruptNext
  <2> QED BY <1>1, <1>5, <2>1 DEF Owing
<1>7. CASE pc \in {"logon", "auth"}
  <2>1. Turn(pc)
    BY <1>1, <1>5, <1>7 DEF Turns, Empty
  <2>2. Turn(pc)'
    BY <1>1, <1>3, <1>7, <2>1, TurnContinues DEF Step
  <2> QED BY <1>1, <1>6, <1>7, <2>2 DEF Dialogue, Turns
<1>8. CASE pc = "call"
  <2>1. requests = <<>> /\ Answering("call", inBuffer, packets)
    BY <1>1, <1>4, <1>5, <1>8 DEF Turns, CallTurn
  <2>2. Answering("call", Tail(inBuffer), packets)
    BY <1>1, <1>3, <1>8, <2>1, AnswerContinued DEF TypeOK
  <2> QED BY <1>1, <1>6, <1>8, <2>1, <2>2 DEF Dialogue, Turns, CallTurn
<1> QED BY <1>1, <1>7, <1>8

LEMMA ClientDialogue ==
  ASSUME TypeOK, ~stalled, Dialogue, ClientStep \/ BeginCall
  PROVE  Dialogue'
<1> Owing /\ Turns
  BY DEF Dialogue
<1> USE DEF server, config
<1>1. CASE ReadUnexpected
  BY <1>1, RaiseDialogue DEF ReadUnexpected
<1>2. CASE WriteServices
  BY <1>2, NextStepDialogue DEF WriteServices, Owing, Empty, Step
<1>3. CASE SkipServices
  BY <1>3, NextStepDialogue DEF SkipServices, Owing, Empty, Step
<1>4. CASE ReadServices
  <2>1. /\ pc = "services" /\ Reading /\ inBuffer # <<>>
        /\ UNCHANGED <<stalled, packets, owed>>
    BY <1>4, ReadsType DEF ReadServices, Step
  <2>2. CASE Raise
    BY <2>1, <2>2, RaiseDialogue
  <2>3. CASE Request("protocol") /\ UNCHANGED resume
    <3>1. requests = <<>> /\ packets = <<>>
      BY <2>1, TurnEnds DEF Turns, Ends, Step
    <3> QED BY <2>1, <2>3, <3>1, NextStepDialogue DEF Owing, Step
  <2> QED BY <1>4, <2>2, <2>3 DEF ReadServices
<1>5. CASE ReadProtocol
  <2>1. /\ pc = "protocol" /\ inBuffer # <<>> /\ Request("types")
        /\ UNCHANGED <<stalled, packets, owed, resume>>
    BY <1>5, ReadsType DEF ReadProtocol, Step
  <2>2. requests = <<>> /\ packets = <<>>
    BY <2>1, TurnEnds DEF Turns, Ends, Step
  <2> QED BY <2>1, <2>2, NextStepDialogue DEF Owing, Step
<1>6. CASE RejectProtocol
  BY <1>6, ReadsType, RaiseDialogue DEF RejectProtocol, Step
<1>7. CASE ReadTypes
  <2>1. /\ pc = "types" /\ inBuffer # <<>> /\ Request("logon") /\ resume = "none"
        /\ UNCHANGED <<stalled, packets, owed, resume>>
    BY <1>7, ReadsType DEF ReadTypes, Step
  <2>2. requests = <<>> /\ packets = <<>>
    BY <2>1, TurnEnds DEF Turns, TypesTurn, Ends, Step
  <2> QED BY <2>1, <2>2, NextStepDialogue DEF Step
<1>8. CASE ReadTypesNoLogon
  <2>1. /\ pc = "types" /\ inBuffer # <<>> /\ resume = "none" /\ ~logon
        /\ pc' = "auth" /\ inBuffer' = Tail(inBuffer)
        /\ UNCHANGED <<stalled, packets, owed, resume, requests, logon>>
    BY <1>8, ReadsType DEF ReadTypesNoLogon, Step
  <2>2. requests = <<>> /\ packets = <<>> /\ Tail(inBuffer) = <<>>
    BY <2>1, TurnEnds DEF Turns, TypesTurn, Ends, Step
  <2>3. Empty' /\ NoInterrupt'
    BY <2>1, <2>2, EmptyNext
  <2> QED BY <2>1, <2>2, <2>3 DEF Dialogue, Owing, Turns
<1>9. CASE ReadTypesAgain
  <2>1. /\ pc = "types" /\ inBuffer # <<>> /\ resume \in {"logon", "auth"}
        /\ pc' = resume /\ inBuffer' = Tail(inBuffer)
        /\ UNCHANGED <<stalled, packets, owed, requests, logon>>
    BY <1>9, ReadsType DEF ReadTypesAgain, Step, TypeOK
  <2>2. requests = <<>> /\ Answering(resume, Tail(inBuffer), packets)
    BY <2>1 DEF Turns, TypesTurn, Resuming, Empty
  <2>3. NoInterrupt'
    BY <2>1, NoInterruptNext DEF Owing
  <2> QED BY <2>1, <2>2, <2>3 DEF Dialogue, Owing, Turns, Turn
<1>10. CASE ReadOther
  <2>1. CASE Reads("logon", {15, 23})
    BY <1>10, <2>1, SameStepDialogue DEF ReadOther
  <2>2. CASE Reads("auth", {8, 15, 23})
    BY <1>10, <2>2, SameStepDialogue DEF ReadOther
  <2>3. CASE Reads("call", {7, 8})
    BY <1>10, <2>3, SameStepDialogue DEF ReadOther
  <2> QED BY <1>10, <2>1, <2>2, <2>3 DEF ReadOther
<1>11. CASE ReadLogonStatus
  BY <1>11, SameStepDialogue DEF ReadLogonStatus
<1>12. CASE Renegotiate
  <2>1. /\ pc \in {"logon", "auth"} /\ inBuffer # <<>> /\ resume' = pc
        /\ Head(inBuffer) = inBuffer[1] /\ Head(inBuffer).code = 28
        /\ Request("protocol") /\ UNCHANGED <<stalled, packets, owed>>
    BY <1>12, ReadsType DEF Renegotiate, Step
  <2>2. Turn(pc) /\ Ends(pc, Head(inBuffer))
    BY <2>1 DEF Turns, Empty, Ends
  <2>3. requests = <<>> /\ packets = <<>>
    BY <2>1, <2>2, TurnEnds DEF Step
  <2>4. ~NoInterrupt
    BY <2>1, HeadTail DEF NoInterrupt, Uninterrupting
  <2> QED BY <2>1, <2>3, <2>4, NextStepDialogue DEF Owing, Step
<1>13. CASE ReadSessionKey
  BY <1>13, SameStepDialogue DEF ReadSessionKey
<1>14. CASE ReadLogonSummary
  <2>1. /\ pc = "logon" /\ Reading /\ inBuffer # <<>> /\ Head(inBuffer).code = 4
        /\ UNCHANGED <<stalled, packets, owed>>
    BY <1>14, ReadsType DEF ReadLogonSummary, Step
  <2>2. CASE Raise
    BY <2>1, <2>2, RaiseDialogue
  <2>3. CASE Request("auth") /\ UNCHANGED resume
    <3>1. requests = <<>> /\ packets = <<>>
      BY <2>1, TurnEnds DEF Turns, Ends, Step
    <3> QED BY <2>1, <2>3, <3>1, NextStepDialogue DEF Step
  <2> QED BY <1>14, <2>2, <2>3 DEF ReadLogonSummary
<1>15. CASE ReadAuthEnd
  <2>1. /\ pc = "auth" /\ Reading /\ inBuffer # <<>>
        /\ Head(inBuffer).code \in {4, 9} /\ UNCHANGED <<stalled, packets, owed>>
    BY <1>15, ReadsType DEF ReadAuthEnd, Step
  <2>2. CASE Raise
    BY <2>1, <2>2, RaiseDialogue
  <2>3. CASE Request("version") /\ UNCHANGED resume
    <3>1. requests = <<>> /\ packets = <<>>
      BY <2>1, TurnEnds DEF Turns, Ends, Step, Empty
    <3> QED BY <2>1, <2>3, <3>1, NextStepDialogue DEF Step
  <2> QED BY <1>15, <2>2, <2>3 DEF ReadAuthEnd
<1>16. CASE ReadVersion
  <2>1. /\ pc = "version" /\ inBuffer # <<>> /\ pc' = "opened"
        /\ UNCHANGED <<stalled, packets, requests>>
    BY <1>16, ReadsType DEF ReadVersion, Step
  <2>2. requests = <<>> /\ Leftover(packets)
    BY <2>1 DEF Turns, VersionTurn, Empty
  <2> QED BY <2>1, <2>2 DEF Dialogue, Owing, Turns
<1>17. CASE ReadCallSummary
  BY <1>17, ReadsType, StoppedDialogue DEF ReadCallSummary, Step
<1>18. CASE ReadCallStatus
  BY <1>18, ReadsType, StoppedDialogue DEF ReadCallStatus, Step
<1>19. CASE BeginCall
  <2>1. /\ pc = "opened" /\ pc' = "call" /\ inBuffer' = <<>>
        /\ requests' = <<"call">> /\ UNCHANGED <<stalled, packets>>
    BY <1>19 DEF BeginCall, Request, Turns
  <2>2. Leftover(packets)
    BY <2>1 DEF Turns
  <2> QED BY <2>1, <2>2 DEF Dialogue, Owing, Turns, CallTurn
<1>20. CASE Receive
  BY <1>20, ReceiveDialogue
<1> QED
  BY <1>1, <1>2, <1>3, <1>4, <1>5, <1>6, <1>7, <1>8, <1>9, <1>10, <1>11,
     <1>12, <1>13, <1>14, <1>15, <1>16, <1>17, <1>18, <1>19, <1>20 DEF ClientStep

-----------------------------------------------------------------------------
(* So does the server.                                                     *)

\* A request that is served is the one of the client's step.
LEMMA Served ==
  ASSUME TypeOK, ~stalled, Dialogue, NEW step \in Step, Serves(step),
         pc \notin {"failed", "returned", "raised"}
  PROVE  /\ pc = step /\ requests = <<pc>> /\ requests' = <<>>
         /\ UNCHANGED <<pc, inBuffer, resume, stalled, logon>>
         /\ pc # "call" => Empty
         /\ pc = "call" => \/ inBuffer = <<>> /\ Leftover(packets)
                           \/ LeftBehind(inBuffer) /\ packets = <<>>
<1>1. /\ requests # <<>> /\ step = Head(requests) /\ requests' = Tail(requests)
      /\ UNCHANGED <<pc, inBuffer, resume, stalled, logon>>
  BY DEF Serves, client, config
<1>2. Owing /\ Turns
  BY DEF Dialogue
<1>3. pc \in Step
  BY <1>1, <1>2 DEF Owing, Turns, TypeOK, Control, Step
<1>4. pc \notin {"types", "version", "call"} => requests = <<pc>> /\ Empty
  BY <1>1, <1>2, <1>3 DEF Turns, Turn, Step
<1>5. pc = "types" => requests = <<pc>> /\ Empty
  BY <1>1, <1>2 DEF Turns, TypesTurn, Turn
<1>6. pc = "version" => requests = <<pc>> /\ Empty
  BY <1>1, <1>2 DEF Turns, VersionTurn
<1>7. pc = "call" => /\ requests = <<pc>>
                     /\ \/ inBuffer = <<>> /\ Leftover(packets)
                        \/ LeftBehind(inBuffer) /\ packets = <<>>
  BY <1>1, <1>2 DEF Turns, CallTurn
<1> QED BY <1>1, <1>4, <1>5, <1>6, <1>7

\* A whole response that is sent becomes what is on its way.
LEMMA SendsAnswer ==
  ASSUME NEW step, NEW response \in Seq(Messages), response # <<>>,
         Whole(step, response, FALSE), packets = <<>>, Sends(response)
  PROVE  Answering(step, <<>>, packets')
<1>1. PICK n \in 0 .. Len(response) - 1 : packets' = packets \o Parts(response, n)
  BY DEF Sends
<1>2. packets' = Parts(response, n)
  BY <1>1, PartsType
<1> QED BY <1>2, AnswerCut

LEMMA SendsUninterrupted ==
  ASSUME NEW response \in Seq(Messages), Empty, Sends(response),
         \A i \in 1 .. Len(response) : response[i].code # 28,
         UNCHANGED inBuffer
  PROVE  NoInterrupt'
<1>1. response \in Seq(Uninterrupting)
  BY DEF Uninterrupting
<1>2. packets \in Seq(Seq(Uninterrupting)) /\ inBuffer' \in Seq(Uninterrupting)
  BY DEF Empty
<1>3. packets' \in Seq(Seq(Uninterrupting))
  BY <1>1, <1>2, SendsType
<1> QED BY <1>2, <1>3 DEF NoInterrupt

\* A negotiation is answered with one message.
LEMMA OneMessage ==
  ASSUME NEW step \in {"services", "protocol", "types"},
         NEW m \in Messages, m.step = step
  PROVE  /\ <<m>> \in Seq(Messages) /\ <<m>> # <<>> /\ Whole(step, <<m>>, FALSE)
BY DEF Whole, Ends

LEMMA NegotiationDialogue ==
  ASSUME TypeOK, ~stalled, Dialogue, NEW step \in {"services", "protocol"},
         Serves(step), NEW m \in Messages, m.step = step, Sends(<<m>>),
         UNCHANGED owed
  PROVE  Dialogue'
<1>1. CASE pc \in {"failed", "returned", "raised"}
  BY <1>1, StoppedDialogue DEF Serves, client
<1>2. CASE pc \notin {"failed", "returned", "raised"}
  <2>1. /\ pc = step /\ requests' = <<>> /\ Empty
        /\ UNCHANGED <<pc, inBuffer, resume, stalled>>
    BY <1>2, Served DEF Step
  <2>2. Answering(step, <<>>, packets')
    BY <2>1, OneMessage, SendsAnswer DEF Empty
  <2> QED BY <2>1, <2>2 DEF Dialogue, Owing, Turns, Turn, Empty
<1> QED BY <1>1, <1>2

\* What a response that follows the answer to a renegotiation looks like when
\* it is cut.
LEMMA ResumingCut ==
  ASSUME NEW m \in Messages, m.step = "types", resume' \in {"logon", "auth"},
         NEW response \in Seq(Messages), response # <<>>,
         Whole(resume', response, FALSE),
         packets = <<>>, Sends(<<m>> \o response)
  PROVE  /\ packets' \in Seq(Seq(Messages)) /\ packets' # <<>>
         /\ Resuming(Head(packets), Tail(packets))'
<1> DEFINE all == <<m>> \o response
<1>1. /\ all \in Seq(Messages) /\ Len(all) = Len(response) + 1
      /\ all[1] = m /\ \A i \in 1 .. Len(response) : all[i + 1] = response[i]
      /\ Len(response) \in Nat \ {0}
  OBVIOUS
<1>2. Tail(all) \in Seq(Messages) /\ Len(Tail(all)) = Len(response)
      /\ \A i \in 1 .. Len(response) : Tail(all)[i] = response[i]
  BY <1>1
<1> HIDE DEF all
<1>3. PICK n \in 0 .. Len(all) - 1 : packets' = packets \o Parts(all, n)
  BY DEF Sends, all
<1>4. packets' = Parts(all, n) /\ Parts(all, n) \in Seq(Seq(Messages))
  BY <1>1, <1>3, PartsType
<1>5. CASE n = 0
  <2>1. packets' = <<all>>
    BY <1>4, <1>5 DEF Parts
  <2>2. Head(packets') = all /\ Tail(packets') = <<>>
    BY <1>1, <2>1
  <2>3. Answering(resume', Tail(all), <<>>)
    BY <1>1, <1>2 DEF Answering, Whole
  <2> QED BY <1>1, <1>4, <2>1, <2>2, <2>3 DEF Resuming
<1>6. CASE n # 0
  <2> DEFINE a == SubSeq(all, 1, n)
             b == SubSeq(all, n + 1, Len(all))
  <2>1. /\ a \in Seq(Messages) /\ Len(a) = n
        /\ \A i \in 1 .. n : a[i] = all[i]
    BY <1>1, <1>6, SubSeqProperties
  <2>2. /\ b \in Seq(Messages) /\ Len(b) = Len(all) - n
        /\ \A i \in 1 .. Len(all) - n : b[i] = all[i + n]
    BY <1>1, <1>6, SubSeqProperties
  <2>3. packets' = <<a, b>>
    BY <1>4, <1>6 DEF Parts
  <2> HIDE DEF a, b
  <2>4. Head(packets') = a /\ Tail(packets') = <<b>> /\ packets' # <<>>
    BY <2>1, <2>2, <2>3
  <2>5. /\ Tail(a) \in Seq(Messages) /\ Len(Tail(a)) = n - 1
        /\ \A i \in 1 .. n - 1 : Tail(a)[i] = response[i]
    <3>1. /\ Tail(a) \in Seq(Messages) /\ Len(Tail(a)) = n - 1
          /\ \A i \in 1 .. n - 1 : Tail(a)[i] = a[i + 1]
      BY <1>6, <2>1
    <3>2. ASSUME NEW i \in 1 .. n - 1 PROVE a[i + 1] = response[i]
      <4>1. i + 1 \in 1 .. n /\ i \in 1 .. Len(response)
        BY <1>1
      <4> QED BY <1>1, <2>1, <4>1
    <3> QED BY <3>1, <3>2
  <2>6. /\ b # <<>> /\ Len(b) = Len(response) - (n - 1)
        /\ \A i \in 1 .. Len(b) : b[i] = response[i + (n - 1)]
    BY <1>1, <1>6, <2>2
  <2>7. a # <<>> /\ a[1].step = "types"
    BY <1>1, <1>6, <2>1
  <2>8. Whole(resume', Tail(a), TRUE)
    <3> SUFFICES ASSUME NEW i \in 1 .. n - 1
                 PROVE  /\ Tail(a)[i].step = resume'
                        /\ ~Ends(resume', Tail(a)[i])
      BY <2>5 DEF Whole
    <3>1. i \in 1 .. Len(response) /\ i # Len(response)
      BY <1>1
    <3> QED BY <2>5, <3>1 DEF Whole
  <2>9. Whole(resume', b, FALSE)
    <3> SUFFICES ASSUME NEW i \in 1 .. Len(b)
                 PROVE  /\ b[i].step = resume'
                        /\ Ends(resume', b[i]) <=> i = Len(b) /\ ~FALSE
      BY DEF Whole
    <3>1. i + (n - 1) \in 1 .. Len(response) /\ b[i] = response[i + (n - 1)]
      BY <1>1, <1>6, <2>2, <2>6
    <3>2. i + (n - 1) = Len(response) <=> i = Len(b)
      BY <1>1, <1>6, <2>2, <2>6
    <3> QED BY <3>1, <3>2 DEF Whole
  <2> DEFINE rest == Tail(a)
  <2>10. Answering(resume', rest, <<b>>)
    <3> HIDE DEF rest
    <3> QED BY <2>6, <2>8, <2>9 DEF Answering, rest, Whole
  <2> QED BY <1>4, <2>4, <2>7, <2>10 DEF Resuming
<1> QED BY <1>5, <1>6

LEMMA ServeTypesDialogue ==
  ASSUME TypeOK, ~stalled, Dialogue, ServeTypes
  PROVE  Dialogue'
<1>1. CASE pc \in {"failed", "returned", "raised"}
  BY <1>1, StoppedDialogue DEF ServeTypes, Serves, client
<1>2. CASE pc \notin {"failed", "returned", "raised"}
  <2>1. /\ pc = "types" /\ requests # <<>> /\ requests' = <<>> /\ Empty
        /\ UNCHANGED <<pc, inBuffer, resume, stalled>>
    BY <1>2, Served DEF ServeTypes, Step
  <2>2. owed = resume /\ resume \in {"none", "logon", "auth"}
    BY <2>1 DEF Dialogue, Owing, TypeOK
  <2> DEFINE m == Message(2, "types", TRUE)
  <2>3. m \in Messages /\ m.step = "types" /\ m.code = 2
    <3>1. 2 \in Nat /\ "types" \in Step
      BY DEF Step
    <3> QED BY <3>1, RightMessage, Zenon
  <2>4. PICK response \in IF owed = "none" THEN {<<>>} ELSE Responses(owed) :
          Sends(<<m>> \o response)
    BY DEF ServeTypes
  <2> HIDE DEF m
  <2>5. CASE resume = "none"
    <3>1. response = <<>>
      BY <2>2, <2>4, <2>5
    <3>2. <<m>> \o response = <<m>>
      BY <2>3, <3>1, ConcatEmptySeq
    <3>3. /\ <<m>> \in Seq(Messages) /\ <<m>> # <<>> /\ Whole("types", <<m>>, FALSE)
      BY <2>3, OneMessage
    <3>4. Answering("types", <<>>, packets')
      BY <2>1, <2>4, <3>2, <3>3, SendsAnswer DEF Empty
    <3>5. NoInterrupt'
      <4>1. \A i \in 1 .. Len(<<m>>) : <<m>>[i].code # 28
        BY <2>3
      <4> QED BY <2>1, <2>4, <3>2, <3>3, <4>1, SendsUninterrupted
    <3> QED
      BY <2>1, <2>5, <3>4, <3>5 DEF Dialogue, Owing, Turns, TypesTurn, Turn, Empty
  <2>6. CASE resume # "none"
    <3>1. owed \in Asked /\ owed # "version" /\ response \in Responses(owed)
      BY <2>2, <2>4, <2>6 DEF Asked
    <3>2. /\ response \in Seq(Messages) /\ response # <<>>
          /\ \A i \in 1 .. Len(response) : response[i].code \in Codes
      BY <3>1, ResponseType DEF TypeOK
    <3>3. Whole(resume', response, FALSE)
      BY <2>1, <2>2, <3>1, ResponseWhole
    <3>4. /\ packets' \in Seq(Seq(Messages)) /\ packets' # <<>>
          /\ Resuming(Head(packets), Tail(packets))'
      BY <2>1, <2>2, <2>3, <2>4, <2>6, <3>2, <3>3, ResumingCut DEF Empty
    <3>5. NoInterrupt'
      <4> DEFINE all == <<m>> \o response
      <4>1. /\ all \in Seq(Messages)
            /\ \A i \in 1 .. Len(all) : all[i].code # 28
        BY <2>3, <3>2 DEF Codes
      <4> HIDE DEF all
      <4>2. Sends(all)
        BY <2>4 DEF all
      <4> QED BY <2>1, <4>1, <4>2, SendsUninterrupted
    <3> QED
      BY <2>1, <2>6, <3>4, <3>5 DEF Dialogue, Owing, Turns, TypesTurn, Empty
  <2> QED BY <2>5, <2>6
<1> QED BY <1>1, <1>2

LEMMA ServeRenegotiationDialogue ==
  ASSUME TypeOK, ~stalled, Dialogue, ServeRenegotiation
  PROVE  Dialogue'
<1> PICK step \in {"logon", "auth"} :
       Serves(step) /\ owed' = step /\ Sends(<<Message(28, step, TRUE)>>)
  BY DEF ServeRenegotiation
<1>1. CASE pc \in {"failed", "returned", "raised"}
  BY <1>1, StoppedDialogue DEF Serves, client
<1>2. CASE pc \notin {"failed", "returned", "raised"}
  <2>1. /\ pc = step /\ requests' = <<>> /\ Empty
        /\ UNCHANGED <<pc, inBuffer, resume, stalled>>
    BY <1>2, Served DEF Step
  <2> DEFINE m == Message(28, step, TRUE)
  <2>2. m \in Messages /\ m.step = step /\ m.code = 28 /\ Sends(<<m>>)
    <3>1. 28 \in Nat /\ step \in Step
      BY DEF Step
    <3> QED BY <3>1, RightMessage, Zenon
  <2> HIDE DEF m
  <2>3. /\ <<m>> \in Seq(Messages) /\ <<m>> # <<>> /\ Whole(step, <<m>>, FALSE)
    BY <2>2 DEF Whole, Ends
  <2>4. Answering(step, <<>>, packets')
    BY <2>1, <2>2, <2>3, SendsAnswer DEF Empty
  <2> QED BY <2>1, <2>4 DEF Dialogue, Owing, Turns, Turn, Empty
<1> QED BY <1>1, <1>2

LEMMA ServeOtherDialogue ==
  ASSUME TypeOK, ~stalled, Dialogue, ServeOther
  PROVE  Dialogue'
<1>1. PICK step \in Asked :
        Serves(step) /\ \E response \in Responses(step) : Sends(response)
  BY DEF ServeOther, Asked
<1>2. PICK response \in Responses(step) : Sends(response)
  BY <1>1
<1>3. /\ response \in Seq(Messages) /\ response # <<>>
      /\ \A i \in 1 .. Len(response) :
           response[i].step = step /\ response[i].code # 28
  <2>1. layer \in Algorithm
    BY DEF TypeOK
  <2>2. /\ response \in Seq(Messages) /\ response # <<>>
        /\ \A i \in 1 .. Len(response) :
             response[i].step = step /\ response[i].code \in Codes
    BY <2>1, ResponseType
  <2> QED BY <2>2 DEF Codes
<1>4. CASE pc \in {"failed", "returned", "raised"}
  BY <1>1, <1>4, StoppedDialogue DEF Serves, client
<1>5. CASE pc \notin {"failed", "returned", "raised"}
  <2>1. /\ pc = step /\ requests' = <<>>
        /\ UNCHANGED <<pc, inBuffer, resume, stalled, logon, owed>>
        /\ pc # "call" => Empty
        /\ pc = "call" => \/ inBuffer = <<>> /\ Leftover(packets)
                          \/ LeftBehind(inBuffer) /\ packets = <<>>
    BY <1>1, <1>5, Served DEF ServeOther, Step, Asked
  <2>2. CASE step \in {"logon", "auth"}
    <3>1. Answering(step, <<>>, packets')
      BY <1>2, <1>3, <2>1, <2>2, ResponseWhole, SendsAnswer DEF Empty
    <3>2. NoInterrupt'
      BY <1>2, <1>3, <2>1, <2>2, SendsUninterrupted
    <3> QED BY <2>1, <2>2, <3>1, <3>2 DEF Dialogue, Owing, Turns, Turn, Empty
  <2>3. CASE step = "version"
    <3>1. PICK n \in 0 .. Len(response) - 1 :
            packets' = packets \o Parts(response, n)
      BY <1>2 DEF Sends
    <3>2. packets' = Parts(response, n)
      BY <1>3, <2>1, <2>3, <3>1, PartsType DEF Empty
    <3>3. /\ Len(response) \in {1, 2}
          /\ Len(response) = 2 => response[2].code \in {4, 9}
      BY <2>3, ResponseWhole
    <3>4. packets' # <<>> /\ Head(packets') # <<>>
          /\ Head(packets')[1].step = "version" /\ Leftover(Tail(packets'))
      <4>1. CASE n = 0
        <5>1. packets' = <<response>>
          BY <3>2, <4>1 DEF Parts
        <5>2. Tail(packets') = <<>>
          BY <5>1
        <5> QED BY <1>3, <2>3, <3>3, <5>1, <5>2 DEF Leftover
      <4>2. CASE n # 0
        <5> DEFINE a == SubSeq(response, 1, n)
                   b == SubSeq(response, n + 1, Len(response))
        <5>1. n = 1 /\ Len(response) = 2
          <6>1. Len(response) = 1 \/ Len(response) = 2
            BY <3>3
          <6>2. CASE Len(response) = 1
            BY <4>2, <6>2
          <6>3. CASE Len(response) = 2
            BY <4>2, <6>3
          <6> QED BY <6>1, <6>2, <6>3
        <5>2. a \in Seq(Messages) /\ Len(a) = 1 /\ a[1] = response[1]
          BY <1>3, <5>1, SubSeqProperties
        <5>3. b \in Seq(Messages) /\ Len(b) = 1 /\ b[1] = response[2]
          <6>1. /\ b \in Seq(Messages) /\ Len(b) = Len(response) - n
                /\ \A i \in 1 .. Len(response) - n : b[i] = response[i + n]
            BY <1>3, <4>2, SubSeqProperties
          <6> HIDE DEF b
          <6> QED BY <5>1, <6>1
        <5>4. packets' = <<a, b>>
          BY <3>2, <4>2 DEF Parts
        <5> HIDE DEF a, b
        <5>5. Head(packets') = a /\ Tail(packets') = <<b>> /\ packets' # <<>>
          BY <5>2, <5>3, <5>4
        <5>6. response[1].step = "version" /\ response[2].step = "version"
          BY <1>3, <2>3, <5>1
        <5>7. LeftBehind(b)
          BY <3>3, <5>1, <5>3, <5>6 DEF LeftBehind
        <5>8. Leftover(<<b>>)
          BY <5>3, <5>7 DEF Leftover
        <5>9. a # <<>> /\ a[1].step = "version"
          <6>1. Len(a) # 0
            BY <5>2
          <6>2. a # <<>>
            BY <5>2, <6>1, NoElements, Zenon
          <6> QED BY <5>2, <5>6, <6>2, Zenon
        <5> QED BY <5>5, <5>8, <5>9, Zenon
      <4> QED BY <4>1, <4>2
    <3> QED
      BY <2>1, <2>3, <3>4 DEF Dialogue, Owing, Turns, VersionTurn, Empty
  <2>4. CASE step = "call"
    <3>1. Whole("call", response, FALSE)
      BY <2>4, ResponseWhole
    <3>2. CASE packets = <<>>
      <4>1. Answering("call", <<>>, packets')
        BY <1>2, <1>3, <3>1, <3>2, SendsAnswer
      <4> QED
        BY <2>1, <2>4, <3>2, <4>1 DEF Dialogue, Owing, Turns, CallTurn
    <3>3. CASE inBuffer = <<>> /\ packets # <<>> /\ Leftover(packets)
      <4>1. Len(packets) = 1 /\ LeftBehind(packets[1])
        BY <3>3 DEF Leftover
      <4>2. PICK n \in 0 .. Len(response) - 1 :
              packets' = packets \o Parts(response, n)
        BY <1>2 DEF Sends
      <4>3. /\ Parts(response, n) \in Seq(Seq(Messages))
            /\ Answering("call", <<>>, Parts(response, n))
        BY <1>3, <3>1, AnswerCut, PartsType
      <4>4. packets \in Seq(Seq(Messages))
        BY DEF TypeOK
      <4>5. /\ packets' # <<>> /\ Head(packets') = packets[1]
            /\ Tail(packets') = Parts(response, n)
        BY <4>1, <4>2, <4>3, <4>4, HeadTailOfAppended
      <4> QED
        BY <2>1, <2>4, <3>3, <4>1, <4>3, <4>5 DEF Dialogue, Owing, Turns, CallTurn
    <3> QED BY <2>1, <2>4, <3>2, <3>3
  <2> QED BY <2>1, <2>2, <2>3, <2>4 DEF Asked
<1> QED BY <1>4, <1>5

LEMMA ServerDialogue ==
  ASSUME TypeOK, ~stalled, Dialogue, ServerStep
  PROVE  Dialogue'
<1>1. CASE ServeServices
  <2> DEFINE m == Message(Deadbeef, "services", Pick(OfferedIntegrity) = Plain)
  <2>1. Sends(<<m>>) /\ Serves("services") /\ UNCHANGED owed
    BY <1>1 DEF ServeServices
  <2>2. m \in Messages /\ m.step = "services"
    <3>1. /\ Deadbeef \in Nat /\ "services" \in Step /\ layer \in Algorithm
          /\ (Pick(OfferedIntegrity) = Plain) \in BOOLEAN
      BY DEF Deadbeef, Step, TypeOK
    <3> QED BY <3>1, MessageType, Zenon
  <2> HIDE DEF m
  <2> QED BY <2>1, <2>2, NegotiationDialogue
<1>2. CASE ServeProtocol
  <2>1. PICK ok \in BOOLEAN : Sends(<<Message(1, "protocol", ok)>>)
    BY <1>2 DEF ServeProtocol
  <2> DEFINE m == Message(1, "protocol", ok)
  <2>2. m \in Messages /\ m.step = "protocol"
    <3>1. 1 \in Nat /\ "protocol" \in Step /\ layer \in Algorithm
      BY DEF Step, TypeOK
    <3> QED BY <3>1, MessageType, Zenon
  <2>3. Serves("protocol") /\ UNCHANGED owed
    BY <1>2 DEF ServeProtocol, server
  <2> HIDE DEF m
  <2>4. Sends(<<m>>)
    BY <2>1 DEF m
  <2> QED BY <2>2, <2>3, <2>4, NegotiationDialogue
<1> QED
  BY <1>1, <1>2, ServeTypesDialogue, ServeRenegotiationDialogue,
     ServeOtherDialogue DEF ServerStep

\* A timeout, and everything after one.
LEMMA StalledDialogue ==
  ASSUME TypeOK, Dialogue, [Next]_vars, stalled \/ ReadTimesOut
  PROVE  Dialogue'
<1> USE DEF config, server, client, vars
<1>1. inBuffer = <<>>
  BY DEF Dialogue, ReadTimesOut
<1>2. CASE ReadTimesOut
  <2>1. stalled' /\ inBuffer' = <<>>
    BY <1>1, <1>2, RaiseTo DEF ReadTimesOut
  <2> QED BY <2>1 DEF Dialogue
<1>3. CASE stalled /\ ~ReadTimesOut
  <2>1. CASE ServerStep \/ UNCHANGED vars
    BY <1>1, <1>3, <2>1
       DEF ServerStep, ServeServices, ServeProtocol, ServeTypes, ServeOther,
           ServeRenegotiation, Serves, Dialogue
  <2>2. CASE BeginCall \/ WriteServices \/ SkipServices
    BY <1>3, <2>2 DEF BeginCall, WriteServices, SkipServices, Request, Dialogue
  <2>3. CASE ClientStep
    BY <1>1, <1>3, <2>2, <2>3
       DEF ClientStep, Receive, ReadUnexpected, ReadServices, ReadProtocol,
           RejectProtocol, ReadTypes, ReadTypesNoLogon, ReadTypesAgain,
           ReadOther, ReadLogonStatus, Renegotiate, ReadSessionKey,
           ReadLogonSummary, ReadAuthEnd, ReadVersion, ReadCallSummary,
           ReadCallStatus, Reads
  <2> QED BY <1>3, <2>1, <2>2, <2>3 DEF Next, Stopped
<1> QED BY <1>2, <1>3

LEMMA DialogueKept ==
  ASSUME TypeOK, Dialogue, [Next]_vars
  PROVE  Dialogue'
<1>1. CASE stalled \/ ReadTimesOut
  BY <1>1, StalledDialogue
<1>2. CASE ~stalled /\ UNCHANGED vars
  <2>1. UNCHANGED <<pc, resume, inBuffer, stalled, logon, requests, packets, owed>>
    BY <1>2 DEF vars, client, config, server
  <2>2. Owing' /\ Turns'
    BY <1>2, <2>1
       DEF Dialogue, Owing, Turns, NoInterrupt, Empty, Turn, TypesTurn, Resuming,
           VersionTurn, CallTurn
  <2> QED BY <1>2, <2>1, <2>2 DEF Dialogue
<1> QED
  BY <1>1, <1>2, ClientDialogue, ServerDialogue DEF Next, Stopped

LEMMA DialogueInvariant == Spec => []Dialogue
<1>1. Init => Dialogue
  BY DEF Init, Dialogue, Owing, Turns, Empty
<1>2. TypeOK /\ Dialogue /\ [Next]_vars => Dialogue'
  BY DialogueKept
<1> QED BY <1>1, <1>2, HandshakeTypes, PTL DEF Spec

\* While a client with a user reads, something is on its way to it or the
\* server has its request, however often the server renegotiates.
THEOREM SidesTakeTurns == Spec => []TakesTurns
<1>1. TypeOK /\ Dialogue => TakesTurns
  <2> SUFFICES ASSUME TypeOK, Dialogue, Reading, logon, ~stalled
               PROVE  inBuffer # <<>> \/ packets # <<>> \/ requests # <<>>
    BY DEF TakesTurns
  <2>1. Turns
    BY DEF Dialogue
  <2>2. CASE pc \in {"services", "protocol", "logon", "auth"}
    BY <2>1, <2>2 DEF Turns, Turn, Answering
  <2>3. CASE pc = "types"
    BY <2>1, <2>3 DEF Turns, Turn, TypesTurn, Resuming, Answering
  <2>4. CASE pc = "version"
    BY <2>1, <2>4 DEF Turns, VersionTurn
  <2>5. CASE pc = "call"
    BY <2>1, <2>5 DEF Turns, CallTurn, Answering
  <2> QED BY <2>2, <2>3, <2>4, <2>5 DEF Reading, Step
<1> QED BY <1>1, HandshakeTypes, DialogueInvariant, PTL

\* Each step reads what answers it.
THEOREM StepsReadTheirOwn == Spec => []ReadsOwnResponse
<1>1. TypeOK /\ Dialogue => ReadsOwnResponse
  <2> SUFFICES ASSUME TypeOK, Dialogue, Reading, inBuffer # <<>>
               PROVE  \/ Head(inBuffer).step = pc
                      \/ /\ pc = "call" /\ Head(inBuffer).step = "version"
                         /\ Len(inBuffer) = 1
    BY DEF ReadsOwnResponse
  <2>1. Turns
    BY DEF Dialogue
  <2>2. Head(inBuffer) = inBuffer[1] /\ 1 \in 1 .. Len(inBuffer)
    BY HeadTail DEF TypeOK
  <2>3. CASE pc \in {"services", "protocol", "logon", "auth"}
    <3>1. Answering(pc, inBuffer, packets)
      BY <2>1, <2>3 DEF Turns, Turn, Empty
    <3> QED BY <2>2, <3>1 DEF Answering, Whole
  <2>4. CASE pc = "types"
    <3>1. Answering(pc, inBuffer, packets) \/ Resuming(inBuffer, packets)
      BY <2>1, <2>4 DEF Turns, TypesTurn, Turn, Empty
    <3> QED BY <2>2, <2>4, <3>1 DEF Answering, Whole, Resuming
  <2>5. CASE pc = "version"
    BY <2>1, <2>2, <2>5 DEF Turns, VersionTurn, Empty
  <2>6. CASE pc = "call"
    <3>1. Answering(pc, inBuffer, packets) \/ LeftBehind(inBuffer)
      BY <2>1, <2>6 DEF Turns, CallTurn
    <3> QED BY <2>2, <2>6, <3>1 DEF Answering, Whole, LeftBehind
  <2> QED BY <2>3, <2>4, <2>5, <2>6 DEF Reading, Step
<1> QED BY <1>1, HandshakeTypes, DialogueInvariant, PTL

-----------------------------------------------------------------------------
(* What messages carry.                                                    *)

\* Every message on its way is in the format agreed on, and one that ends the
\* logon well comes from a server that has let the user in.
Carried ==
  {m \in Messages :
     /\ m.caps = Agreed
     /\ m.step = "auth" /\ m.code \in {4, 9} /\ m.ok => authenticated}

Delivered == inBuffer \in Seq(Carried) /\ packets \in Seq(Seq(Carried))

LEMMA CarriedOn ==
  ASSUME TypeOK, Delivered, UNCHANGED config, authenticated => authenticated'
  PROVE  /\ inBuffer \in Seq(Carried') /\ packets \in Seq(Seq(Carried'))
         /\ Agreed' = Agreed
<1>1. Agreed' = Agreed
  BY DEF Agreed, config
<1>2. Carried \subseteq Carried'
  BY <1>1 DEF Carried
<1>3. Seq(Carried) \subseteq Seq(Carried')
  BY <1>2, SeqMonotonic, Zenon DEF Delivered
<1> QED BY <1>1, <1>2, <1>3, SeqMonotonic, Zenon DEF Delivered

\* The client adds nothing to what it receives.
LEMMA ClientDelivered ==
  ASSUME TypeOK, Delivered, ClientStep \/ BeginCall \/ ReadTimesOut
  PROVE  Delivered'
<1> USE DEF config, server
<1>1. UNCHANGED <<config, authenticated>>
  BY DEF ClientStep, BeginCall, ReadTimesOut, Receive, ReadUnexpected,
         WriteServices, SkipServices, ReadServices, ReadProtocol,
         RejectProtocol, ReadTypes, ReadTypesNoLogon, ReadTypesAgain,
         ReadOther, ReadLogonStatus, Renegotiate, ReadSessionKey,
         ReadLogonSummary, ReadAuthEnd, ReadVersion, ReadCallSummary,
         ReadCallStatus, Reads
<1>2. \/ UNCHANGED packets
      \/ /\ packets # <<>> /\ inBuffer' = Head(packets)
         /\ packets' = Tail(packets)
  BY DEF ClientStep, BeginCall, ReadTimesOut, Receive, ReadUnexpected,
         WriteServices, SkipServices, ReadServices, ReadProtocol,
         RejectProtocol, ReadTypes, ReadTypesNoLogon, ReadTypesAgain,
         ReadOther, ReadLogonStatus, Renegotiate, ReadSessionKey,
         ReadLogonSummary, ReadAuthEnd, ReadVersion, ReadCallSummary,
         ReadCallStatus, Reads
<1>3. UNCHANGED packets =>
        \/ inBuffer' = <<>>
        \/ inBuffer # <<>> /\ inBuffer' = Tail(inBuffer)
        \/ packets # <<>> /\ inBuffer' = Head(packets)
  BY DEF ClientStep, BeginCall, ReadTimesOut, Receive, ReadUnexpected,
         WriteServices, SkipServices, ReadServices, ReadProtocol,
         RejectProtocol, ReadTypes, ReadTypesNoLogon, ReadTypesAgain,
         ReadOther, ReadLogonStatus, Renegotiate, ReadSessionKey,
         ReadLogonSummary, ReadAuthEnd, ReadVersion, ReadCallSummary,
         ReadCallStatus, Reads, Request, Raise, Continues
<1>4. inBuffer \in Seq(Carried') /\ packets \in Seq(Seq(Carried'))
  BY <1>1, CarriedOn
<1>5. /\ inBuffer # <<>> => Tail(inBuffer) \in Seq(Carried')
      /\ packets # <<>> => /\ Head(packets) \in Seq(Carried')
                           /\ Tail(packets) \in Seq(Seq(Carried'))
  BY <1>4, HeadTail
<1>6. packets' \in Seq(Seq(Carried'))
  BY <1>2, <1>4, <1>5, Zenon
<1>7. inBuffer' \in Seq(Carried')
  <2>1. <<>> \in Seq(Carried')
    OBVIOUS
  <2> QED BY <1>2, <1>3, <1>4, <1>5, <2>1, Zenon
<1> QED BY <1>6, <1>7, Zenon DEF Delivered

\* The server lets the user in with the message that ends the logon.
LEMMA ResponseCarried ==
  ASSUME TypeOK, UNCHANGED config, NEW step \in Asked,
         NEW response \in Responses(step),
         authenticated' = (authenticated \/ LetsIn(step, response))
  PROVE  response \in Seq(Carried')
<1>1. Agreed' = Agreed
  BY DEF Agreed, config
<1>2. /\ response \in Seq(Messages) /\ response # <<>>
      /\ \A i \in 1 .. Len(response) :
           response[i].step = step /\ response[i].caps = Agreed
  BY ResponseType DEF TypeOK
<1>3. ASSUME NEW i \in 1 .. Len(response), step = "auth",
             response[i].code \in {4, 9}, response[i].ok
      PROVE  authenticated'
  <2>1. Whole("auth", response, FALSE)
    BY <1>3, ResponseWhole
  <2>2. i = Len(response)
    BY <1>3, <2>1 DEF Whole, Ends
  <2> QED BY <1>3, <2>2, Zenon DEF LetsIn
<1>4. ASSUME NEW i \in 1 .. Len(response) PROVE response[i] \in Carried'
  <2>1. response[i] \in Messages
    BY <1>2
  <2> QED BY <1>1, <1>2, <1>3, <2>1, Zenon DEF Carried
<1> QED BY <1>2, <1>4

LEMMA ServerDelivered ==
  ASSUME TypeOK, Delivered, ServerStep
  PROVE  Delivered'
<1>1. UNCHANGED <<config, inBuffer>>
  BY DEF ServerStep, ServeServices, ServeProtocol, ServeTypes, ServeOther,
         ServeRenegotiation, Serves, client
<1>2. authenticated => authenticated'
  BY DEF ServerStep, ServeServices, ServeProtocol, ServeTypes, ServeOther,
         ServeRenegotiation, server
<1>3. inBuffer' \in Seq(Carried') /\ packets \in Seq(Seq(Carried'))
  BY <1>1, <1>2, CarriedOn
<1>4. ASSUME NEW m \in Messages, m.caps = Agreed,
             m.step # "auth" \/ m.code \notin {4, 9}
      PROVE  m \in Carried'
  <2>1. Agreed' = Agreed
    BY <1>1 DEF Agreed, config
  <2> QED BY <1>4, <2>1, Zenon DEF Carried
<1>5. ASSUME NEW response \in Seq(Carried'), Sends(response) PROVE Delivered'
  <2>1. packets' \in Seq(Seq(Carried'))
    BY <1>3, <1>5, SendsType
  <2> QED BY <1>3, <2>1 DEF Delivered
<1>6. ASSUME NEW m \in Carried', Sends(<<m>>) PROVE Delivered'
  <2>1. <<m>> \in Seq(Carried')
    OBVIOUS
  <2> QED BY <1>5, <1>6, <2>1
<1>7. CASE ServeServices
  <2> DEFINE m == Message(Deadbeef, "services", Pick(OfferedIntegrity) = Plain)
  <2>1. Sends(<<m>>)
    BY <1>7 DEF ServeServices
  <2>2. m \in Messages /\ m.step = "services" /\ m.caps = Agreed
    <3>1. /\ Deadbeef \in Nat /\ "services" \in Step /\ layer \in Algorithm
          /\ (Pick(OfferedIntegrity) = Plain) \in BOOLEAN
      BY DEF Deadbeef, Step, TypeOK
    <3> QED BY <3>1, MessageType, Zenon
  <2> HIDE DEF m
  <2> QED BY <1>4, <1>6, <2>1, <2>2
<1>8. CASE ServeProtocol
  <2>1. PICK ok \in BOOLEAN : Sends(<<Message(1, "protocol", ok)>>)
    BY <1>8 DEF ServeProtocol
  <2> DEFINE m == Message(1, "protocol", ok)
  <2>2. m \in Messages /\ m.step = "protocol" /\ m.caps = Agreed
    <3>1. 1 \in Nat /\ "protocol" \in Step /\ layer \in Algorithm
      BY DEF Step, TypeOK
    <3> QED BY <2>1, <3>1, MessageType
  <2> HIDE DEF m
  <2>3. Sends(<<m>>)
    BY <2>1 DEF m
  <2> QED BY <1>4, <1>6, <2>2, <2>3
<1>9. CASE ServeTypes
  <2> DEFINE m == Message(2, "types", TRUE)
  <2>1. m \in Messages /\ m.step = "types" /\ m.caps = Agreed
    <3>1. 2 \in Nat /\ "types" \in Step
      BY DEF Step
    <3> QED BY <3>1, RightMessage, Zenon
  <2>2. PICK response \in IF owed = "none" THEN {<<>>} ELSE Responses(owed) :
          /\ Sends(<<m>> \o response)
          /\ authenticated' = (authenticated \/ LetsIn(owed, response))
    BY <1>9 DEF ServeTypes
  <2> HIDE DEF m
  <2>3. response \in Seq(Carried')
    <3>1. CASE owed = "none"
      BY <2>2, <3>1
    <3>2. CASE owed # "none"
      <4>1. owed \in Asked /\ response \in Responses(owed)
        BY <2>2, <3>2 DEF Asked, TypeOK
      <4> QED BY <1>1, <2>2, <4>1, ResponseCarried
    <3> QED BY <3>1, <3>2
  <2>4. m \in Carried'
    BY <1>4, <2>1
  <2>5. <<m>> \o response \in Seq(Carried')
    BY <2>3, <2>4
  <2> QED BY <1>5, <2>2, <2>5
<1>10. CASE ServeRenegotiation
  <2>1. PICK step \in {"logon", "auth"} : Sends(<<Message(28, step, TRUE)>>)
    BY <1>10 DEF ServeRenegotiation
  <2> DEFINE m == Message(28, step, TRUE)
  <2>2. m \in Messages /\ m.code = 28 /\ m.caps = Agreed
    <3>1. 28 \in Nat /\ step \in Step
      BY DEF Step
    <3> QED BY <3>1, RightMessage, Zenon
  <2> HIDE DEF m
  <2>3. Sends(<<m>>)
    BY <2>1 DEF m
  <2> QED BY <1>4, <1>6, <2>2, <2>3
<1>11. CASE ServeOther
  <2>1. PICK step \in Asked :
          \E response \in Responses(step) :
            /\ Sends(response)
            /\ authenticated' = (authenticated \/ LetsIn(step, response))
    BY <1>11 DEF ServeOther, Asked
  <2> PICK response \in Responses(step) :
         /\ Sends(response)
         /\ authenticated' = (authenticated \/ LetsIn(step, response))
    BY <2>1
  <2>2. response \in Seq(Carried')
    BY <1>1, ResponseCarried
  <2> QED BY <1>5, <2>2
<1> QED BY <1>7, <1>8, <1>9, <1>10, <1>11 DEF ServerStep

LEMMA DeliveredInvariant == Spec => []Delivered
<1>1. Init => Delivered
  BY DEF Init, Delivered
<1>2. TypeOK /\ Delivered /\ [Next]_vars => Delivered'
  <2>1. ASSUME TypeOK, Delivered, UNCHANGED vars PROVE Delivered'
    BY <2>1, CarriedOn DEF Delivered, vars, client, config, server
  <2> QED BY <2>1, ClientDelivered, ServerDelivered DEF Next, Stopped
<1> QED BY <1>1, <1>2, HandshakeTypes, PTL DEF Spec

\* What the client has taken of the server's capabilities at each step.
FormatsKept ==
  /\ caps.eos => serverCaps.eos
  /\ caps.fsap => serverCaps.fsap
  /\ caps.big => serverCaps.big
  /\ pc = "types" => /\ caps.eos = serverCaps.eos
                     /\ caps.fsap = serverCaps.fsap
                     /\ caps.big = serverCaps.big
  /\ pc \in Asked \cup {"opened"} \/ resume # "none" => caps = Agreed

LEMMA SameCaps ==
  ASSUME NEW a \in Caps, NEW b \in Caps, a.eos = b.eos, a.fsap = b.fsap,
         a.big = b.big, a.ttc = b.ttc
  PROVE  a = b
BY DEF Caps

LEMMA AgreedFields ==
  ASSUME TypeOK
  PROVE  /\ Agreed \in Caps /\ Agreed.eos = serverCaps.eos
         /\ Agreed.fsap = serverCaps.fsap /\ Agreed.big = serverCaps.big
         /\ Agreed.ttc = Lesser(ClientTtc, serverCaps.ttc)
BY AgreedType DEF Agreed, Caps, TypeOK

LEMMA TypesRead ==
  ASSUME TypeOK, FormatsKept, pc = "types",
         caps' = [caps EXCEPT !.ttc = Lesser(ClientTtc, serverCaps.ttc)]
  PROVE  caps' = Agreed
<1>1. caps \in Caps /\ caps' \in Caps
  BY Capabilities DEF TypeOK
<1>2. /\ caps'.eos = caps.eos /\ caps'.fsap = caps.fsap /\ caps'.big = caps.big
      /\ caps'.ttc = Lesser(ClientTtc, serverCaps.ttc)
  BY <1>1 DEF Caps
<1> QED BY <1>1, <1>2, AgreedFields, SameCaps, Zenon DEF FormatsKept

LEMMA ProtocolRead ==
  ASSUME TypeOK, FormatsKept,
         caps' = [caps EXCEPT !.eos = @ \/ serverCaps.eos,
                              !.fsap = @ \/ serverCaps.fsap,
                              !.big = @ \/ serverCaps.big]
  PROVE  /\ caps' \in Caps /\ caps'.ttc = caps.ttc
         /\ caps'.eos = serverCaps.eos /\ caps'.fsap = serverCaps.fsap
         /\ caps'.big = serverCaps.big
<1>1. caps \in Caps /\ serverCaps \in Caps /\ caps' \in Caps
  BY Capabilities DEF TypeOK
<1>2. /\ caps'.eos = (caps.eos \/ serverCaps.eos)
      /\ caps'.fsap = (caps.fsap \/ serverCaps.fsap)
      /\ caps'.big = (caps.big \/ serverCaps.big)
      /\ caps'.ttc = caps.ttc
  BY <1>1 DEF Caps
<1>3. /\ caps.eos \in BOOLEAN /\ serverCaps.eos \in BOOLEAN
      /\ caps.fsap \in BOOLEAN /\ serverCaps.fsap \in BOOLEAN
      /\ caps.big \in BOOLEAN /\ serverCaps.big \in BOOLEAN
  BY <1>1 DEF Caps
<1>4. /\ (caps.eos \/ serverCaps.eos) = serverCaps.eos
      /\ (caps.fsap \/ serverCaps.fsap) = serverCaps.fsap
      /\ (caps.big \/ serverCaps.big) = serverCaps.big
  BY <1>3, Zenon DEF FormatsKept
<1> QED BY <1>1, <1>2, <1>4, Zenon

LEMMA FormatsKeptNext ==
  ASSUME TypeOK, Dialogue, FormatsKept, [Next]_vars
  PROVE  FormatsKept'
<1> USE DEF config, server, client, vars
<1>1. serverCaps' = serverCaps /\ Agreed' = Agreed
  BY DEF Agreed, Next, Stopped, ServerStep, ServeServices, ServeProtocol,
         ServeTypes, ServeOther, ServeRenegotiation, Serves,
         ClientStep, BeginCall, ReadTimesOut, Receive, ReadUnexpected,
         WriteServices, SkipServices, ReadServices, ReadProtocol,
         RejectProtocol, ReadTypes, ReadTypesNoLogon, ReadTypesAgain,
         ReadOther, ReadLogonStatus, Renegotiate, ReadSessionKey,
         ReadLogonSummary, ReadAuthEnd, ReadVersion, ReadCallSummary,
         ReadCallStatus, Reads
<1>2. CASE ReadProtocol
  <2>1. /\ pc' = "types" /\ resume' = resume
    BY <1>2 DEF ReadProtocol, Request
  <2>2. /\ caps' \in Caps /\ caps'.ttc = caps.ttc
        /\ caps'.eos = serverCaps.eos /\ caps'.fsap = serverCaps.fsap
        /\ caps'.big = serverCaps.big
    BY <1>2, ProtocolRead DEF ReadProtocol
  <2>3. resume # "none" => caps' = Agreed
    BY <2>2, AgreedFields, SameCaps, Zenon DEF FormatsKept
  <2>4. pc' \notin Asked \cup {"opened"}
    BY <2>1 DEF Asked
  <2> QED BY <1>1, <2>1, <2>2, <2>3, <2>4, Zenon DEF FormatsKept
<1>3. CASE ReadTypes \/ ReadTypesNoLogon
  <2>1. /\ pc = "types" /\ pc' \in {"logon", "auth"}
        /\ caps' = [caps EXCEPT !.ttc = Lesser(ClientTtc, serverCaps.ttc)]
    BY <1>3 DEF ReadTypes, ReadTypesNoLogon, Reads, Request
  <2>2. caps' = Agreed
    BY <2>1, TypesRead
  <2>3. pc' # "types"
    BY <2>1
  <2> QED BY <1>1, <2>2, <2>3, AgreedFields, Zenon DEF FormatsKept
<1>4. CASE ~ReadProtocol /\ ~ReadTypes /\ ~ReadTypesNoLogon
  <2>1. caps' = caps
    BY <1>4 DEF Next, Stopped, ServerStep, ServeServices, ServeProtocol,
         ServeTypes, ServeOther, ServeRenegotiation, Serves,
         ClientStep, BeginCall, ReadTimesOut, Receive, ReadUnexpected,
         WriteServices, SkipServices, ReadServices,
         RejectProtocol, ReadTypesAgain,
         ReadOther, ReadLogonStatus, Renegotiate, ReadSessionKey,
         ReadLogonSummary, ReadAuthEnd, ReadVersion, ReadCallSummary,
         ReadCallStatus
  <2>2. pc' = "types" => pc = "types"
    BY <1>4, RaiseTo
       DEF Next, Stopped, ServerStep, ServeServices, ServeProtocol,
         ServeTypes, ServeOther, ServeRenegotiation, Serves,
         ClientStep, BeginCall, ReadTimesOut, Receive, ReadUnexpected,
         WriteServices, SkipServices, ReadServices,
         RejectProtocol, ReadTypesAgain,
         ReadOther, ReadLogonStatus, Renegotiate, ReadSessionKey,
         ReadLogonSummary, ReadAuthEnd, ReadVersion, ReadCallSummary,
         ReadCallStatus, Reads, Request, Continues, TypeOK, Reading, Step
  <2>3. pc' \in Asked \cup {"opened"} \/ resume' # "none"
          => pc \in Asked \cup {"opened"} \/ resume # "none"
    BY <1>4, RaiseTo
       DEF Next, Stopped, ServerStep, ServeServices, ServeProtocol,
         ServeTypes, ServeOther, ServeRenegotiation, Serves,
         ClientStep, BeginCall, ReadTimesOut, Receive, ReadUnexpected,
         WriteServices, SkipServices, ReadServices,
         RejectProtocol, ReadTypesAgain,
         ReadOther, ReadLogonStatus, Renegotiate, ReadSessionKey,
         ReadLogonSummary, ReadAuthEnd, ReadVersion, ReadCallSummary,
         ReadCallStatus, Reads, Request, Continues, Reading, Step, Asked
  <2> QED BY <1>1, <2>1, <2>2, <2>3, Zenon DEF FormatsKept
<1> QED BY <1>2, <1>3, <1>4

LEMMA FormatsInvariant == Spec => []FormatsKept
<1>1. Init => FormatsKept
  BY DEF Init, FormatsKept, Asked
<1>2. TypeOK /\ Dialogue /\ FormatsKept /\ [Next]_vars => FormatsKept'
  BY FormatsKeptNext
<1> QED BY <1>1, <1>2, HandshakeTypes, DialogueInvariant, PTL DEF Spec

LEMMA HeadDelivered ==
  ASSUME Delivered, inBuffer # <<>>
  PROVE  Head(inBuffer) \in Carried
BY HeadTail DEF Delivered

\* What the two sides do not agree on when they start to talk they agree on
\* before the first message whose format depends on it, and keep.
THEOREM FormatsStayAgreed == Spec => []FormatsAgree
<1>1. ReadsOwnResponse /\ Delivered /\ FormatsKept => FormatsAgree
  <2> SUFFICES ASSUME ReadsOwnResponse, Delivered, FormatsKept,
                      Reading, inBuffer # <<>>, Head(inBuffer).step \in Asked
               PROVE  Head(inBuffer).caps = caps
    BY DEF FormatsAgree, Asked
  <2>1. Head(inBuffer).caps = Agreed
    BY HeadDelivered DEF Carried
  <2>2. pc \in Asked
    BY DEF ReadsOwnResponse, Asked
  <2> QED BY <2>1, <2>2 DEF FormatsKept
<1> QED BY <1>1, StepsReadTheirOwn, DeliveredInvariant, FormatsInvariant, PTL

-----------------------------------------------------------------------------
(* Logged on.                                                              *)

LEMMA StaysAuthenticated ==
  ASSUME TypeOK, [Next]_vars
  PROVE  authenticated => authenticated'
BY Zenon DEF TypeOK, Next, Stopped, ServerStep, ServeServices, ServeProtocol,
     ServeTypes, ServeOther, ServeRenegotiation, vars, server,
     ClientStep, BeginCall, ReadTimesOut, Receive, ReadUnexpected,
     WriteServices, SkipServices, ReadServices, ReadProtocol,
     RejectProtocol, ReadTypes, ReadTypesNoLogon, ReadTypesAgain,
     ReadOther, ReadLogonStatus, Renegotiate, ReadSessionKey,
     ReadLogonSummary, ReadAuthEnd, ReadVersion, ReadCallSummary,
     ReadCallStatus, Reads

LEMMA Opens ==
  ASSUME [Next]_vars, state' = "Opened", state # "Opened"
  PROVE  ReadAuthEnd /\ Head(inBuffer).ok
BY DEF Next, Stopped, ServerStep, ServeServices, ServeProtocol,
     ServeTypes, ServeOther, ServeRenegotiation, Serves, vars, client,
     ClientStep, BeginCall, ReadTimesOut, Receive, ReadUnexpected,
     WriteServices, SkipServices, ReadServices, ReadProtocol,
     RejectProtocol, ReadTypes, ReadTypesNoLogon, ReadTypesAgain,
     ReadOther, ReadLogonStatus, Renegotiate, ReadSessionKey,
     ReadLogonSummary, ReadAuthEnd, ReadVersion, ReadCallSummary,
     ReadCallStatus, Raise, Continues

\* The connection is not Opened before the server has let the user in: the
\* summary that do_auth ends at is the one of its own last request.
THEOREM OpenedAfterLogon == Spec => []OpenedMeansAuthenticated
<1>1. Init => OpenedMeansAuthenticated
  BY DEF Init, OpenedMeansAuthenticated
<1>2. TypeOK /\ ReadsOwnResponse /\ Delivered /\ OpenedMeansAuthenticated
      /\ [Next]_vars => OpenedMeansAuthenticated'
  <2> SUFFICES ASSUME TypeOK, ReadsOwnResponse, Delivered,
                      OpenedMeansAuthenticated, [Next]_vars
               PROVE  OpenedMeansAuthenticated'
    OBVIOUS
  <2>1. CASE state = "Opened"
    BY <2>1, StaysAuthenticated, Zenon DEF OpenedMeansAuthenticated
  <2>2. CASE state # "Opened" /\ state' = "Opened"
    <3>1. ReadAuthEnd /\ Head(inBuffer).ok
      BY <2>2, Opens
    <3>2. /\ pc = "auth" /\ inBuffer # <<>> /\ Head(inBuffer).code \in {4, 9}
      BY <3>1 DEF ReadAuthEnd, Reads
    <3>3. Head(inBuffer).step = "auth"
      BY <3>2 DEF ReadsOwnResponse, Reading, Step
    <3>4. Head(inBuffer) \in Carried
      BY <3>2, HeadDelivered
    <3>5. authenticated
      BY <3>1, <3>2, <3>3, <3>4, Zenon DEF Carried
    <3> QED BY <3>5, StaysAuthenticated, Zenon DEF OpenedMeansAuthenticated
  <2>3. CASE state' # "Opened"
    BY <2>3, Zenon DEF OpenedMeansAuthenticated
  <2> QED BY <2>1, <2>2, <2>3
<1> QED
  BY <1>1, <1>2, HandshakeTypes, StepsReadTheirOwn, DeliveredInvariant, PTL
     DEF Spec

-----------------------------------------------------------------------------
(* Network services.                                                       *)

\* A server that accepts takes the first thing it is offered, and that is
\* nothing: no network service transforms what the two send each other.
THEOREM AcceptingStaysPlain == Spec => []AcceptedMeansPlain
<1>1. Init => AcceptedMeansPlain
  BY DEF Init, AcceptedMeansPlain, Installed
<1>2. TypeOK /\ AcceptedMeansPlain /\ [Next]_vars => AcceptedMeansPlain'
  <2> SUFFICES ASSUME TypeOK, AcceptedMeansPlain, [Next]_vars
               PROVE  AcceptedMeansPlain'
    OBVIOUS
  <2>1. policy' = policy
    BY DEF Next, Stopped, ServerStep, ServeServices, ServeProtocol,
         ServeTypes, ServeOther, ServeRenegotiation, Serves,
         vars, config, ClientStep, BeginCall, ReadTimesOut, Receive,
         ReadUnexpected, WriteServices, SkipServices, ReadServices,
         ReadProtocol, RejectProtocol, ReadTypes, ReadTypesNoLogon,
         ReadTypesAgain, ReadOther, ReadLogonStatus, Renegotiate,
         ReadSessionKey, ReadLogonSummary, ReadAuthEnd, ReadVersion,
         ReadCallSummary, ReadCallStatus, Reads
  <2>2. CASE ServeServices
    <3>1. policy # "requested" =>
            Pick(OfferedEncryption) = Plain /\ Pick(OfferedIntegrity) = Plain
      BY Offers, Picks DEF TypeOK
    <3> QED BY <2>1, <2>2, <3>1 DEF ServeServices, AcceptedMeansPlain, Installed
  <2>3. CASE ~ServeServices
    <3>1. layer' = layer
      BY <2>3
         DEF Next, Stopped, ServerStep, ServeProtocol,
         ServeTypes, ServeOther, ServeRenegotiation, Serves,
         vars, server, ClientStep, BeginCall, ReadTimesOut, Receive,
         ReadUnexpected, WriteServices, SkipServices, ReadServices,
         ReadProtocol, RejectProtocol, ReadTypes, ReadTypesNoLogon,
         ReadTypesAgain, ReadOther, ReadLogonStatus, Renegotiate,
         ReadSessionKey, ReadLogonSummary, ReadAuthEnd, ReadVersion,
         ReadCallSummary, ReadCallStatus, Reads
    <3> QED BY <2>1, <3>1 DEF AcceptedMeansPlain, Installed
  <2> QED BY <2>2, <2>3
<1> QED BY <1>1, <1>2, HandshakeTypes, PTL DEF Spec
=============================================================================
