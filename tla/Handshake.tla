------------------------------ MODULE Handshake ------------------------------
(***************************************************************************)
(* The dialogue of Connection.connect (src/pyora/connection.py) once the   *)
(* listener has accepted: advanced negotiation, protocol negotiation, data *)
(* type negotiation, the two steps of the logon, the version of the        *)
(* database, and the first call of the application.                        *)
(*                                                                         *)
(* Who speaks next, which capabilities the messages are read with, and     *)
(* whether every message is read by the step it answers.  Messages arrive  *)
(* in packets, in order; interrupts are in Session, servers that do not    *)
(* answer at all in Connect.                                               *)
(***************************************************************************)
EXTENDS Naturals, Sequences

CONSTANTS
  ServerCaps,      \* capabilities servers may have, see Caps
  ClientTtc,       \* compile_time_caps[7] of the client, 11
  MaxRenegotiations

ASSUME NumbersAssumption == ClientTtc \in Nat /\ MaxRenegotiations \in Nat

\* What the format of a message depends on: has_eos_capability,
\* has_fsap_capability, use_big_clr_chunks and ttc_version.
Caps == [eos : BOOLEAN, fsap : BOOLEAN, big : BOOLEAN, ttc : Nat]

ASSUME CapsAssumption == ServerCaps \subseteq Caps

VARIABLES
  pc,            \* see Control
  resume,        \* step that message 28 interrupted, or "none"
  inBuffer,      \* messages received
  caps,          \* the capabilities the session reads with
  state,         \* Connection.state
  sessionKey,    \* has AuthObject._create got what it derives keys from?
  summary,       \* session.summary: "none", "summary" or "empty"
  stalled,       \* has a read timed out?
  \* what is being connected
  logon,         \* has the configuration user and password?
  services,      \* does ACCEPT ask for the advanced negotiation?
  \* network
  requests, packets,
  \* server
  serverCaps,
  policy,        \* on its network services, see Pick
  layer,         \* algorithm it transforms messages with, or Plain
  owed,          \* step whose response it interrupted with message 28
  authenticated,
  renegotiations

client == <<pc, resume, inBuffer, caps, state, sessionKey, summary, stalled>>
config == <<logon, services, serverCaps, policy>>
server == <<layer, owed, authenticated, renegotiations>>
vars == <<client, config, requests, packets, server>>

\* The steps are named for the request they have written and whose response
\* they read.  accepted: before the first; opened: connect has returned;
\* returned, raised: so did the call; failed: connect raised.
Step == {"services", "protocol", "types", "logon", "auth", "version", "call"}
Control == Step \cup {"accepted", "opened", "returned", "raised", "failed"}

Reading == pc \in Step

\* What the response of the services begins with, where others have a code.
Deadbeef == 222

\* The empty name, which stands for no algorithm.
Plain == "plain"

Algorithm == {Plain, "RC4", "DES", "AES", "MD5", "SHA"}

Init ==
  /\ pc = "accepted" /\ resume = "none" /\ inBuffer = <<>>
  /\ caps = [eos |-> FALSE, fsap |-> FALSE, big |-> FALSE, ttc |-> 3]
  /\ state = "Closed" /\ sessionKey = FALSE /\ summary = "none"
  /\ stalled = FALSE
  /\ logon \in BOOLEAN /\ services \in BOOLEAN
  /\ requests = <<>> /\ packets = <<>>
  /\ serverCaps \in ServerCaps /\ policy \in {"rejected", "accepted", "requested"}
  /\ layer = Plain /\ owed = "none" /\ authenticated = FALSE
  /\ renegotiations = 0

-----------------------------------------------------------------------------
(* Advanced negotiation: what a service offers, in the order of preference. *)

\* Mutant: an accepting client names the algorithms first.
ServiceList_NoneLast(names, level) ==
  CASE level = 1 -> <<Plain>>
    [] level \in {0, 2} -> names \o <<Plain>>
    [] OTHER -> names

\* build_service_list for a level: 1 offers nothing, 0 prefers nothing, 2
\* prefers an algorithm, 3 wants one.
ServiceList(names, level) ==
  CASE level = 1 -> <<Plain>>
    [] level = 0 -> <<Plain>> \o names
    [] level = 2 -> names \o <<Plain>>
    [] OTHER -> names

\* EncryptService and DataIntegrityService are made with level 0 and all the
\* algorithms there are.
OfferedEncryption == ServiceList(<<"RC4", "DES", "AES">>, 0)
OfferedIntegrity == ServiceList(<<"MD5", "SHA">>, 0)

\* The server's choice among what it is offered (external).
Pick(offered) ==
  CASE policy = "rejected" -> Plain
    [] policy = "accepted" -> Head(offered)
    [] policy = "requested" ->
         offered[CHOOSE i \in DOMAIN offered :
                   /\ offered[i] # Plain
                   /\ \A j \in 1 .. i - 1 : offered[j] = Plain]

\* activate_algorithm: the services install nothing.
Installed == Plain

-----------------------------------------------------------------------------
(* Writing and reading.                                                    *)

\* Mutant: without reset_read.
Request_KeepsInBuffer(step) ==
  /\ requests' = Append(requests, step) /\ pc' = step
  /\ summary' = "none" /\ UNCHANGED inBuffer

\* reset_buffer, write the request of a step, go on to read.
Request(step) ==
  /\ requests' = Append(requests, step) /\ pc' = step
  /\ summary' = "none" /\ inBuffer' = <<>>

\* A read finds in_buffer empty and takes the next packet.
Receive ==
  /\ Reading /\ inBuffer = <<>> /\ packets # <<>> /\ ~stalled
  /\ inBuffer' = Head(packets) /\ packets' = Tail(packets)
  /\ UNCHANGED <<pc, resume, caps, state, sessionKey, summary, stalled,
                 config, requests, server>>

\* A step reads its next message, of one of these codes.
Reads(step, codes) ==
  /\ pc = step /\ inBuffer # <<>>
  /\ Head(inBuffer).code \in codes /\ Head(inBuffer).layer = Installed
  /\ UNCHANGED <<stalled, packets, config, server>>

\* The loop of the step goes on behind the message.
Continues ==
  /\ inBuffer' = Tail(inBuffer)
  /\ UNCHANGED <<pc, resume, state, requests>>

\* An exception leaves Connection.connect, or the call; one of get_db_version
\* is dropped.
Raise ==
  /\ pc' = CASE pc = "version" -> "opened"
             [] pc = "call" -> "raised"
             [] OTHER -> "failed"
  /\ inBuffer' = IF inBuffer = <<>> THEN <<>> ELSE Tail(inBuffer)
  /\ UNCHANGED <<resume, state, requests>>

\* A message that is not in plain text, or not the one to come.
Understands ==
  CASE pc = "services" -> {Deadbeef}
    [] pc = "protocol" -> {1}
    [] pc = "types" -> {2}
    [] pc = "version" -> {8}
    [] pc \in {"logon", "auth"} -> {4, 8, 9, 15, 23, 28}
    [] OTHER -> {4, 7, 8, 9}

ReadUnexpected ==
  /\ Reading /\ inBuffer # <<>>
  /\ \/ Head(inBuffer).code \notin Understands
     \/ Head(inBuffer).layer # Installed
  /\ Raise
  /\ UNCHANGED <<caps, sessionKey, summary, stalled, packets, config, server>>

-----------------------------------------------------------------------------
(* Negotiations.                                                           *)

WriteServices ==
  /\ pc = "accepted" /\ services
  /\ Request("services")
  /\ UNCHANGED <<resume, caps, state, sessionKey, stalled, packets, config,
                 server>>

SkipServices ==
  /\ pc = "accepted" /\ ~services
  /\ Request("protocol")
  /\ UNCHANGED <<resume, caps, state, sessionKey, stalled, packets, config,
                 server>>

\* read_full, start_services.  A service that was chosen an algorithm has
\* fields read_service_data does not read: what follows is not a header.
ReadServices ==
  /\ Reads("services", {Deadbeef})
  /\ IF Head(inBuffer).ok
     THEN Request("protocol") /\ UNCHANGED <<resume, state>>
     ELSE Raise /\ UNCHANGED summary
  /\ UNCHANGED <<caps, sessionKey>>

\* Mutant: the capability is not looked at.
ReadProtocol_NoFsap ==
  /\ Reads("protocol", {1}) /\ Head(inBuffer).ok
  /\ caps' = [caps EXCEPT !.eos = @ \/ serverCaps.eos,
                          !.big = @ \/ serverCaps.big]
  /\ Request("types")
  /\ UNCHANGED <<resume, state, sessionKey>>

\* new_tcp_nego from the answer on, and build_type_nego, DataTypeNego.write.
ReadProtocol ==
  /\ Reads("protocol", {1}) /\ Head(inBuffer).ok
  /\ caps' = [caps EXCEPT !.eos = @ \/ serverCaps.eos,
                          !.fsap = @ \/ serverCaps.fsap,
                          !.big = @ \/ serverCaps.big]
  /\ Request("types")
  /\ UNCHANGED <<resume, state, sessionKey>>

\* ... which raises for a server it does not support: protocol version, too
\* few capabilities, unknown character set.
RejectProtocol ==
  /\ Reads("protocol", {1}) /\ ~Head(inBuffer).ok
  /\ Raise
  /\ UNCHANGED <<caps, sessionKey, summary>>

Lesser(a, b) == IF a <= b THEN a ELSE b

\* Mutant: the request is not written.
ReadTypes_Silent ==
  /\ Reads("types", {2}) /\ resume = "none" /\ logon
  /\ caps' = [caps EXCEPT !.ttc = Lesser(ClientTtc, serverCaps.ttc)]
  /\ pc' = "logon" /\ inBuffer' = <<>>
  /\ UNCHANGED <<resume, state, sessionKey, summary, requests>>

\* DataTypeNego.read, the TTC version, and the first request of do_auth.
ReadTypes ==
  /\ Reads("types", {2}) /\ resume = "none" /\ logon
  /\ caps' = [caps EXCEPT !.ttc = Lesser(ClientTtc, serverCaps.ttc)]
  /\ Request("logon")
  /\ UNCHANGED <<resume, state, sessionKey>>

\* Without user or password: write() of _EmptyAuth does nothing.
ReadTypesNoLogon ==
  /\ Reads("types", {2}) /\ resume = "none" /\ ~logon
  /\ caps' = [caps EXCEPT !.ttc = Lesser(ClientTtc, serverCaps.ttc)]
  /\ pc' = "auth" /\ inBuffer' = Tail(inBuffer)
  /\ UNCHANGED <<resume, state, sessionKey, summary, requests>>

\* Mutant: the interrupted step is not forgotten.
ReadTypesAgain_KeepsResume ==
  /\ Reads("types", {2}) /\ resume # "none"
  /\ pc' = resume /\ inBuffer' = Tail(inBuffer)
  /\ UNCHANGED <<resume, caps, state, sessionKey, summary, requests>>

\* Message 28 has been answered: the loop that read it goes on.
ReadTypesAgain ==
  /\ Reads("types", {2}) /\ resume # "none"
  /\ pc' = resume /\ resume' = "none" /\ inBuffer' = Tail(inBuffer)
  /\ UNCHANGED <<caps, state, sessionKey, summary, requests>>

-----------------------------------------------------------------------------
(* Logon, version and the first call.                                      *)

\* process_ttc_response: messages 8, 15 and 23 are read and dropped.
ReadOther ==
  /\ \/ Reads("logon", {15, 23})
     \/ Reads("auth", {8, 15, 23})
     \/ Reads("call", {7, 8})
  /\ Continues
  /\ UNCHANGED <<caps, sessionKey, summary>>

\* process_ttc_response: message 9.
StatusSummary ==
  IF caps.fsap /\ summary = "none" THEN "empty" ELSE summary

\* AuthObject._create does not stop at message 9.
ReadLogonStatus ==
  /\ Reads("logon", {9})
  /\ Continues
  /\ summary' = StatusSummary
  /\ UNCHANGED <<caps, sessionKey>>

\* process_ttc_response: message 28 writes over what is being read.
Renegotiate ==
  /\ Reads("logon", {28}) \/ Reads("auth", {28})
  /\ resume' = pc
  /\ Request("protocol")
  /\ UNCHANGED <<caps, state, sessionKey>>

\* AuthObject._create takes AUTH_SESSKEY and AUTH_VFR_DATA.
ReadSessionKey ==
  /\ Reads("logon", {8})
  /\ sessionKey' = (sessionKey \/ Head(inBuffer).ok)
  /\ Continues
  /\ UNCHANGED <<caps, summary>>

\* The end of the first step: keys are derived, AuthObject.write.
ReadLogonSummary ==
  /\ Reads("logon", {4})
  /\ IF Head(inBuffer).ok /\ sessionKey
     THEN Request("auth") /\ UNCHANGED <<resume, state>>
     ELSE Raise /\ summary' = "summary"
  /\ UNCHANGED <<caps, sessionKey>>

\* Mutant: whatever the summary says.
ReadAuthEnd_AnySummary ==
  /\ Reads("auth", {4, 9})
  /\ state' = "Opened" /\ Request("version") /\ UNCHANGED resume
  /\ UNCHANGED <<caps, sessionKey>>

\* The end of do_auth, and the request of get_db_version.
ReadAuthEnd ==
  /\ Reads("auth", {4, 9})
  /\ IF Head(inBuffer).ok
     THEN state' = "Opened" /\ Request("version") /\ UNCHANGED resume
     ELSE Raise /\ summary' = "summary"
  /\ UNCHANGED <<caps, sessionKey>>

\* get_db_version reads message 8 and nothing behind it.
ReadVersion ==
  /\ Reads("version", {8})
  /\ pc' = "opened" /\ inBuffer' = Tail(inBuffer)
  /\ UNCHANGED <<resume, caps, state, sessionKey, summary, requests>>

\* Command.write of the application's first statement.
BeginCall ==
  /\ pc = "opened"
  /\ Request("call")
  /\ UNCHANGED <<resume, caps, state, sessionKey, stalled, packets, config,
                 server>>

\* read_response: the summary ends the call.
ReadCallSummary ==
  /\ Reads("call", {4})
  /\ pc' = IF Head(inBuffer).ok THEN "returned" ELSE "raised"
  /\ inBuffer' = Tail(inBuffer) /\ summary' = "summary"
  /\ UNCHANGED <<resume, caps, state, sessionKey, requests>>

\* read_response: so does message 9, after which has_error() asks for the
\* ret_code that _EmptySummary does not have.
ReadCallStatus ==
  /\ Reads("call", {9})
  /\ summary' = StatusSummary
  /\ pc' = IF summary' = "empty" THEN "raised" ELSE "returned"
  /\ inBuffer' = Tail(inBuffer)
  /\ UNCHANGED <<resume, caps, state, sessionKey, requests>>

\* Mutant: the timeout is taken off the socket.
ReadTimesOut_Never == FALSE /\ UNCHANGED vars

\* connect_timeout, after which the buffered reader refuses every read.
ReadTimesOut ==
  /\ Reading /\ inBuffer = <<>> /\ (packets = <<>> \/ stalled)
  /\ stalled' = TRUE
  /\ Raise
  /\ UNCHANGED <<caps, sessionKey, summary, packets, config, server>>

ClientStep ==
  \/ Receive \/ ReadUnexpected
  \/ WriteServices \/ SkipServices \/ ReadServices
  \/ ReadProtocol \/ RejectProtocol
  \/ ReadTypes \/ ReadTypesNoLogon \/ ReadTypesAgain
  \/ ReadOther \/ ReadLogonStatus \/ Renegotiate
  \/ ReadSessionKey \/ ReadLogonSummary \/ ReadAuthEnd \/ ReadVersion
  \/ ReadCallSummary \/ ReadCallStatus

-----------------------------------------------------------------------------
(* The server (external).                                                  *)

\* What both sides agreed on, as the server writes it.
Agreed == [serverCaps EXCEPT !.ttc = Lesser(ClientTtc, @)]

Message(code, step, ok) ==
  [code |-> code, step |-> step, ok |-> ok, caps |-> Agreed, layer |-> layer]

\* The responses it may send to a step after the negotiations.
Responses(step) ==
  LET m(code) == Message(code, step, TRUE)
      refused == <<Message(4, step, FALSE)>>
      ended == {<<m(8), m(4)>>, <<m(8), m(9)>>}
  IN  CASE step = "logon" ->
             {<<m(15), m(8), m(4)>>, <<m(8), m(9), m(4)>>, refused,
              <<Message(8, step, FALSE), m(4)>>}
        [] step = "auth" -> ended \cup {<<m(23), m(8), m(4)>>, refused}
        [] step = "version" -> ended \cup {refused}
        [] OTHER -> ended \cup {<<m(7), m(7), m(4)>>, refused}

\* A response leaves in one packet, or in two, cut behind n messages.
Parts(response, n) ==
  IF n = 0 THEN <<response>>
  ELSE <<SubSeq(response, 1, n), SubSeq(response, n + 1, Len(response))>>

Sends(response) ==
  \E n \in 0 .. Len(response) - 1 : packets' = packets \o Parts(response, n)

\* The response says that the user is logged on.
LetsIn(step, response) == step = "auth" /\ response[Len(response)].ok

Serves(step) ==
  /\ requests # <<>> /\ Head(requests) = step
  /\ requests' = Tail(requests)
  /\ UNCHANGED <<client, config>>

ServeServices ==
  LET encryption == Pick(OfferedEncryption)
      integrity == Pick(OfferedIntegrity)
  IN
  /\ Serves("services")
  /\ layer' = IF encryption # Plain THEN encryption ELSE integrity
  /\ Sends(<<Message(Deadbeef, "services", integrity = Plain)>>)
  /\ UNCHANGED <<owed, authenticated, renegotiations>>

ServeProtocol ==
  /\ Serves("protocol")
  /\ \E ok \in BOOLEAN : Sends(<<Message(1, "protocol", ok)>>)
  /\ UNCHANGED server

\* After message 28 the interrupted response follows.
ServeTypes ==
  /\ Serves("types")
  /\ \E response \in IF owed = "none" THEN {<<>>} ELSE Responses(owed) :
       /\ Sends(<<Message(2, "types", TRUE)>> \o response)
       /\ authenticated' = (authenticated \/ LetsIn(owed, response))
  /\ owed' = "none"
  /\ UNCHANGED <<layer, renegotiations>>

ServeRenegotiation ==
  /\ renegotiations < MaxRenegotiations
  /\ \E step \in {"logon", "auth"} :
       /\ Serves(step)
       /\ owed' = step
       /\ Sends(<<Message(28, step, TRUE)>>)
  /\ renegotiations' = renegotiations + 1
  /\ UNCHANGED <<layer, authenticated>>

ServeOther ==
  /\ \E step \in {"logon", "auth", "version", "call"} :
       /\ Serves(step)
       /\ \E response \in Responses(step) :
            /\ Sends(response)
            /\ authenticated' = (authenticated \/ LetsIn(step, response))
  /\ UNCHANGED <<layer, owed, renegotiations>>

ServerStep ==
  ServeServices \/ ServeProtocol \/ ServeTypes \/ ServeRenegotiation \/ ServeOther

-----------------------------------------------------------------------------
\* connect failed, or the call is over.
Stopped == pc \in {"failed", "returned", "raised"} /\ UNCHANGED vars

Next == ClientStep \/ BeginCall \/ ReadTimesOut \/ ServerStep \/ Stopped

Spec == Init /\ [][Next]_vars

\* The client's thread runs, the server works on what it has received, and a
\* read that gets nothing times out (connect_timeout, 60 seconds).
FairSpec ==
  Spec /\ WF_vars(ClientStep) /\ WF_vars(ServerStep) /\ WF_vars(ReadTimesOut)

-----------------------------------------------------------------------------
(* Properties.                                                             *)

Messages ==
  [code : Nat, step : Step, ok : BOOLEAN, caps : Caps,
   layer : Algorithm]

\* The types of the variables.
TypeOK ==
  /\ pc \in Control /\ resume \in {"none", "logon", "auth"}
  /\ resume # "none" => pc \in {"protocol", "types", "failed"}
  /\ inBuffer \in Seq(Messages) /\ packets \in Seq(Seq(Messages))
  /\ caps \in Caps /\ serverCaps \in Caps
  /\ state \in {"Closed", "Opened"} /\ sessionKey \in BOOLEAN
  /\ summary \in {"none", "summary", "empty"} /\ stalled \in BOOLEAN
  /\ logon \in BOOLEAN /\ services \in BOOLEAN
  /\ requests \in Seq(Step)
  /\ policy \in {"rejected", "accepted", "requested"}
  /\ layer \in Algorithm
  /\ owed \in {"none", "logon", "auth"} /\ authenticated \in BOOLEAN
  /\ renegotiations \in 0 .. MaxRenegotiations

\* A client that reads has something to read, or the server something to
\* answer: the two never wait for each other.  (Without a user they do: what
\* do_auth then reads was never asked for.)
TakesTurns ==
  Reading /\ logon =>
    inBuffer # <<>> \/ packets # <<>> \/ requests # <<>> \/ stalled

\* A step reads the messages that answer it, none that answers an earlier one,
\* after a renegotiation in the middle of a logon and after a timeout too.  The
\* first call may find what get_db_version leaves unread, and nothing else.
ReadsOwnResponse ==
  Reading /\ inBuffer # <<>> =>
    \/ Head(inBuffer).step = pc
    \/ pc = "call" /\ Head(inBuffer).step = "version" /\ Len(inBuffer) = 1

\* Messages are read in the format they were written in, before and after a
\* renegotiation.  (The negotiations themselves have one format only.)
FormatsAgree ==
  (/\ Reading /\ inBuffer # <<>>
   /\ Head(inBuffer).step \in {"logon", "auth", "version", "call"})
     => Head(inBuffer).caps = caps

\* A server that only accepts or rejects network services transforms messages
\* no other way than the client does: what is offered first is nothing.
AcceptedMeansPlain == policy # "requested" => layer = Installed

\* "Plain TCP to a server that does not require advanced services works", one
\* that requests them without requiring them too.
LayersAgree == layer = Installed

\* A connection is Opened only after the server has let the user in.
OpenedMeansAuthenticated == state = "Opened" => authenticated

\* Connecting and the first call end, one way or the other.
HandshakeEnds == Reading ~> ~Reading
=============================================================================
