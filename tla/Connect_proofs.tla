---------------------------- MODULE Connect_proofs ----------------------------
(***************************************************************************)
(* Proofs about Connect.tla, for any addresses, server list, redirections  *)
(* and bounds: however the listeners answer, one socket is open at a time, *)
(* its peer reads a CONNECT packet meant for it, "no server could be       *)
(* reached" is said only after trying them all, and what close says is     *)
(* closed is released.                                                     *)
(*                                                                         *)
(* And about ConfiguredConnect.tla, for any connection strings and         *)
(* redirects: it implements Connect, so that all this holds of it, and a   *)
(* listener is asked for the database named latest.                        *)
(***************************************************************************)
EXTENDS ConfiguredConnect, SequenceTheorems, TLAPS

-----------------------------------------------------------------------------
(* Lemmas.                                                                 *)

\* Every list of servers, configured or redirected to, is a list of addresses.
LEMMA ServersType == Servers \subseteq Seq(Address)
BY AddressesAssumption DEF Servers

\* One more of the servers has been dialled.
LEMMA OneMoreTried ==
  ASSUME NEW s \in Seq(Address), NEW i \in Nat, i < Len(s)
  PROVE  /\ s[i + 1] \in Address
         /\ Append(SubSeq(s, 1, i), s[i + 1]) = SubSeq(s, 1, i + 1)
<1>1. i + 1 \in 1 .. Len(s) /\ Len(s) \in Nat
  BY LenProperties
<1>2. s[i + 1] \in Address
  BY <1>1, ElementOfSeq
<1>3. Append(SubSeq(s, 1, i), s[i + 1]) = SubSeq(s, 1, i + 1)
  BY <1>1, SubSeqRecursiveSecond, 1 <= i + 1, (i + 1) - 1 = i
<1> QED BY <1>2, <1>3

\* After the last of them, all have been.
LEMMA AllTried ==
  ASSUME NEW s \in Seq(Address), NEW i \in Nat, i < Len(s), ~(i + 1 < Len(s))
  PROVE  SubSeq(s, 1, i + 1) = s
<1>1. i + 1 = Len(s)
  BY LenProperties
<1> QED BY <1>1, SubSeqFull

\* Before the first, none.
LEMMA NoneTried == ASSUME NEW s \in Seq(Address) PROVE SubSeq(s, 1, 0) = <<>>
BY SubSeqEmpty

\* A restart gives up the socket and leaves nothing to resend; without room on
\* the stack it gives up the opening.
LEMMA RestartResets ==
  ASSUME TypeOK, RestartOrOverflow
  PROVE  /\ restarts' \in 0 .. MaxRestarts
         /\ conn' \in Address \cup {NoSocket} /\ sockets' \subseteq Address
         /\ sendPcks' \in Seq(Address)
         /\ \/ /\ pc' = "dialing" /\ cause' = cause
               /\ Disconnect /\ sendPcks' = <<>>
            \/ /\ pc' = "failing" /\ cause' = "overflow"
               /\ UNCHANGED <<conn, sockets, sendPcks>>
<1>1. CASE restarts < MaxRestarts
  <2>1. /\ restarts' = restarts + 1 /\ pc' = "dialing" /\ cause' = cause
        /\ Disconnect /\ sendPcks' = <<>>
    BY <1>1 DEF RestartOrOverflow, Restart
  <2>2. <<>> \in Seq(Address)
    OBVIOUS
  <2>3. conn' = NoSocket /\ sockets' \subseteq Address
    BY <2>1 DEF TypeOK, Disconnect
  <2> QED BY <1>1, <2>1, <2>2, <2>3, BoundsAssumption DEF TypeOK
<1>2. CASE ~(restarts < MaxRestarts)
  BY <1>2 DEF TypeOK, RestartOrOverflow, Abort
<1> QED BY <1>1, <1>2

-----------------------------------------------------------------------------
(* Types.                                                                  *)

\* The initial state is well typed.
LEMMA InitTypes == Init => TypeOK
<1>1. <<>> \in Seq(Address) /\ Configured \subseteq Servers
  BY DEF Servers
<1> SUFFICES ASSUME Init PROVE TypeOK
  OBVIOUS
<1>2. /\ pc \in Control /\ state \in {"Opened", "Closed"}
      /\ session \in BOOLEAN /\ closed \in BOOLEAN
      /\ cause \in {"none", "exhausted", "unaddressed", "overflow", "broken",
                    "logon"}
  BY DEF Init, Control
<1>3. /\ conn \in Address \cup {NoSocket} /\ sockets \subseteq Address
      /\ described \in Address \cup {NoSocket}
      /\ servers \in Servers /\ sendPcks \in Seq(Address)
      /\ tried \in Seq(Address)
  BY <1>1 DEF Init
<1>4. /\ serverIndex \in Nat /\ restarts \in 0 .. MaxRestarts
      /\ resends \in 0 .. MaxResends /\ opens \in 0 .. MaxOpens
  BY BoundsAssumption DEF Init
<1> QED BY <1>2, <1>3, <1>4 DEF TypeOK

\* Every step keeps the types.
LEMMA NextTypes == ASSUME TypeOK, [Next]_vars PROVE TypeOK'
<1> USE BoundsAssumption DEF TypeOK, Control, config
<1>0. servers \in Seq(Address) /\ Len(servers) \in Nat
  BY ServersType, LenProperties
<1>1. CASE Open
  BY <1>1 DEF Open
<1>2. CASE NoServers \/ HandshakeBreaks \/ LogonFails
  BY <1>2 DEF NoServers, HandshakeBreaks, LogonFails, Abort
<1>2a. CASE Resent \/ Accepted
  BY <1>2a DEF Resent, Accepted
<1>2b. CASE LogonSucceeds
  BY <1>2b DEF LogonSucceeds
<1>3. CASE DialSucceeds
  <2>1. ActiveServer \in Address
    BY <1>0, <1>3, OneMoreTried DEF DialSucceeds, ActiveServer
  <2> QED BY <1>3, <2>1, AppendProperties DEF DialSucceeds
<1>4. CASE DialFails
  <2>1. ActiveServer \in Address
    BY <1>0, <1>4, OneMoreTried DEF DialFails, ActiveServer
  <2>2. tried' \in Seq(Address)
    BY <1>4, <2>1, AppendProperties DEF DialFails
  <2> QED BY <1>4, <2>2 DEF DialFails, Abort
<1>5. CASE Redirected
  <2>1. servers' \in Servers
    BY <1>5 DEF Redirected, Servers
  <2>2. CASE RestartOrOverflow /\ serverIndex' = 0 /\ tried' = <<>>
    BY <1>5, <2>1, <2>2, RestartResets DEF Redirected
  <2>3. CASE Abort("unaddressed")
             /\ UNCHANGED <<serverIndex, restarts, sendPcks, conn, sockets, tried>>
    BY <1>5, <2>1, <2>3 DEF Redirected, Abort
  <2> QED BY <1>5, <2>2, <2>3 DEF Redirected
<1>6. CASE Refused
  <2>1. CASE RestartOrOverflow
    BY <1>6, <2>1, RestartResets DEF Refused
  <2>2. CASE Disconnect /\ Abort("exhausted") /\ UNCHANGED <<restarts, sendPcks>>
    BY <1>6, <2>2 DEF Refused, Disconnect, Abort
  <2> QED BY <1>6, <2>1, <2>2 DEF Refused
<1>7. CASE CleanUp \/ Disconnected \/ Close \/ LogoffFails \/ ReadLogoff
  BY <1>7 DEF CleanUp, Disconnected, Close, LogoffFails, ReadLogoff,
              ReleaseSession, Disconnect
<1>8. CASE WriteLogoff
  <2>1. <<conn>> \in Seq(Address)
    BY <1>8 DEF WriteLogoff
  <2> QED BY <1>8, <2>1 DEF WriteLogoff
<1>9. CASE UNCHANGED vars
  BY <1>9 DEF vars
<1> QED
  BY <1>1, <1>2, <1>2a, <1>2b, <1>3, <1>4, <1>5, <1>6, <1>7, <1>8, <1>9
  DEF Next, Opening, OtherOpening, Closing, Finished

-----------------------------------------------------------------------------
(* The invariant.                                                          *)

\* It holds before the first connection.
LEMMA InitFacts == Init => Facts
BY DEF Init, Facts, OneSocket, DescribesPeer, ClosedMeansReleased, Stages,
       TriedInOrder

\* Opening a connection keeps it.
LEMMA OpeningFacts == ASSUME TypeOK, Facts, Open \/ Opening PROVE Facts'
<1> USE DEF TypeOK, Facts, OneSocket, DescribesPeer, ClosedMeansReleased,
            Stages, TriedInOrder, config
<1>0. servers \in Seq(Address) /\ Len(servers) \in Nat
  BY ServersType, LenProperties
<1>1. CASE Open
  <2>1. servers' \in Seq(Address) /\ SubSeq(servers', 1, 0) = <<>>
    BY <1>0, <1>1, NoneTried DEF Open
  <2> QED BY <1>1, <2>1 DEF Open
<1>2. CASE NoServers \/ Resent \/ Accepted \/ HandshakeBreaks
           \/ LogonSucceeds \/ LogonFails
  BY <1>2 DEF NoServers, Resent, Accepted, HandshakeBreaks, LogonSucceeds,
              LogonFails, Abort
<1>3. CASE DialSucceeds
  <2>1. tried' = SubSeq(servers, 1, serverIndex + 1)
    BY <1>0, <1>3, OneMoreTried DEF DialSucceeds, ActiveServer
  <2>2. sendPcks' = <<ActiveServer>>
    BY <1>3 DEF DialSucceeds
  <2>3. ActiveServer # NoSocket
    BY <1>0, <1>3, OneMoreTried, NoSocketAssumption DEF DialSucceeds, ActiveServer
  <2> QED BY <1>3, <2>1, <2>2, <2>3 DEF DialSucceeds
<1>4. CASE DialFails
  <2>1. tried' = SubSeq(servers, 1, serverIndex + 1)
    BY <1>0, <1>4, OneMoreTried DEF DialFails, ActiveServer
  <2>2. CASE AnotherServer
    BY <1>4, <2>1, <2>2 DEF DialFails
  <2>3. CASE ~AnotherServer
    <3>1. tried' = servers
      BY <1>0, <1>4, <2>1, <2>3, AllTried DEF DialFails, AnotherServer
    <3> QED BY <1>4, <2>3, <3>1 DEF DialFails, Abort
  <2> QED BY <2>2, <2>3
<1>5. CASE Redirected
  <2>1. pc = "handshake" /\ UNCHANGED <<state, session, described, closed>>
    BY <1>5 DEF Redirected
  <2>2. CASE RestartOrOverflow /\ serverIndex' = 0 /\ tried' = <<>>
    <3>1. servers' \in Seq(Address)
      BY <1>5, AddressesAssumption DEF Redirected
    <3>2. SubSeq(servers', 1, 0) = <<>>
      BY <3>1, NoneTried
    <3> QED BY <2>1, <2>2, <3>2, RestartResets DEF Disconnect
  <2>3. CASE Abort("unaddressed")
             /\ UNCHANGED <<serverIndex, restarts, sendPcks, conn, sockets, tried>>
    BY <2>1, <2>3 DEF Abort
  <2> QED BY <1>5, <2>2, <2>3 DEF Redirected
<1>6. CASE Refused
  <2>1. /\ pc = "handshake" /\ serverIndex' = serverIndex + 1
        /\ UNCHANGED <<state, session, servers, described, closed, tried>>
    BY <1>6 DEF Refused
  <2>2. CASE AnotherServer /\ RestartOrOverflow
    BY <2>1, <2>2, RestartResets DEF Disconnect
  <2>3. CASE ~AnotherServer /\ Disconnect /\ Abort("exhausted")
    <3>1. tried = servers
      BY <1>0, <2>1, <2>3, AllTried DEF AnotherServer
    <3> QED BY <2>1, <2>3, <3>1 DEF Disconnect, Abort
  <2> QED BY <1>6, <2>2, <2>3 DEF Refused
<1>7. CASE CleanUp
  BY <1>7 DEF CleanUp, ReleaseSession, Disconnect
<1> QED
  BY <1>1, <1>2, <1>3, <1>4, <1>5, <1>6, <1>7 DEF Opening, OtherOpening

\* So does closing one, by the application or by the server.
LEMMA ClosingFacts ==
  ASSUME TypeOK, Facts, Disconnected \/ Close \/ Closing
  PROVE  Facts'
<1> USE DEF TypeOK, Facts, OneSocket, DescribesPeer, ClosedMeansReleased,
            Stages, TriedInOrder, config
<1>1. CASE Disconnected
  BY <1>1 DEF Disconnected, Disconnect
<1>2. CASE Close
  BY <1>2 DEF Close
<1>3. CASE WriteLogoff
  BY <1>3 DEF WriteLogoff
<1>4. CASE LogoffFails
  BY <1>4 DEF LogoffFails
<1>5. CASE ReadLogoff
  BY <1>5 DEF ReadLogoff, ReleaseSession, Disconnect
<1> QED
  BY <1>1, <1>2, <1>3, <1>4, <1>5 DEF Closing

\* So the invariant holds always.
LEMMA Invariant == Spec => []Inv
<1>1. Init => Inv
  BY InitTypes, InitFacts DEF Inv
<1>2. ASSUME Inv, [Next]_vars PROVE Inv'
  <2>1. TypeOK'
    BY <1>2, NextTypes DEF Inv
  <2>2. CASE Open \/ Opening
    BY <1>2, <2>1, <2>2, OpeningFacts DEF Inv
  <2>3. CASE Disconnected \/ Close \/ Closing
    BY <1>2, <2>1, <2>3, ClosingFacts DEF Inv
  <2>4. CASE UNCHANGED vars
    <3>1. Facts'
      BY <1>2, <2>4
      DEF vars, config, Inv, Facts, OneSocket, DescribesPeer,
          ClosedMeansReleased, Stages, TriedInOrder
    <3> QED BY <2>1, <3>1 DEF Inv
  <2> QED BY <1>2, <2>2, <2>3, <2>4 DEF Next, Finished
<1> QED BY <1>1, <1>2, PTL DEF Spec

-----------------------------------------------------------------------------
(* Theorems.                                                               *)

\* The variables of connecting and closing have their types.
THEOREM ConnectTypes == Spec => []TypeOK
<1>1. Inv => TypeOK
  BY DEF Inv
<1> QED BY <1>1, Invariant, PTL

\* Failing over and following redirects never leave an earlier socket open.
THEOREM NoSocketLeak == Spec => []OneSocket
<1>1. Inv => OneSocket
  BY DEF Inv, Facts
<1> QED BY <1>1, Invariant, PTL

\* A listener only ever reads the CONNECT packet made for it, however
\* many servers refused or redirected before and however often it asks again.
THEOREM ConnectDescribesPeer == Spec => []DescribesPeer
<1>1. Inv => DescribesPeer
  BY DEF Inv, Facts
<1> QED BY <1>1, Invariant, PTL

\* No server of the list is skipped before the list counts as exhausted.
THEOREM FailoverTriesAll == Spec => []ExhaustedMeansTried
<1>1. Inv => ExhaustedMeansTried
  BY DEF Inv, Facts, TriedInOrder, ExhaustedMeansTried
<1> QED BY <1>1, Invariant, PTL

\* A closed connection holds neither a socket nor a session.
THEOREM CloseReleases == Spec => []ClosedMeansReleased
<1>1. Inv => ClosedMeansReleased
  BY DEF Inv, Facts
<1> QED BY <1>1, Invariant, PTL

-----------------------------------------------------------------------------
(* With a configuration.                                                   *)

\* Its initial states and its steps are Connect's.
LEMMA StepsOfConnect ==
  /\ ConfiguredInit => Init
  /\ [ConfiguredNext]_allVars => [Next]_vars
<1>1. ConfiguredInit => Init
  BY DEF ConfiguredInit
<1>2. ConfiguredNext => Next
  BY DEF ConfiguredNext, ConfiguredOpen, ConfiguredOpening, ConfiguredDial,
         ConfiguredRedirect, ConfiguredClosing, Next, Opening
<1>3. UNCHANGED allVars => UNCHANGED vars
  BY DEF allVars
<1> QED BY <1>1, <1>2, <1>3

\* With a configuration, its descriptors and what redirects make of them, the
\* opening and closing of connections is still what Connect says.
THEOREM ConfiguredImplementsConnect == ConfiguredSpec => Spec
BY StepsOfConnect, PTL DEF ConfiguredSpec, Spec

-----------------------------------------------------------------------------
(* Configurations.                                                         *)

Fields ==
  {"servers", "connStr", "service", "sid", "instance", "unix", "ssl", "protocol",
   "authType", "services", "raised"}

\* A connection string that is accepted names a database.
LEMMA AcceptedNames ==
  ASSUME NEW c \in Configurations
  PROVE  DOMAIN c = Fields /\ (c.sid # "" \/ c.service # "")
<1>1. PICK u \in Urls : c = ParseConfig(u) /\ ~c.raised
  BY DEF Configurations
<1>2. PICK d : c = (IF d.raised \/ d.servers = <<>> THEN Raised ELSE Validate(d, u))
  BY <1>1, Zenon DEF ParseConfig
<1>3. c = Validate(d, u)
  BY <1>1, <1>2 DEF Raised
<1>4. ~(d.sid = "" /\ d.service = "")
  <2> SUFFICES ASSUME d.sid = "" /\ d.service = "" PROVE FALSE
    OBVIOUS
  <2>1. c = Raised
    BY <1>3 DEF Validate
  <2>2. Raised.raised
    BY DEF Raised
  <2> QED BY <1>1, <2>1, <2>2, Zenon
<1>5. DOMAIN c = Fields /\ c.sid = d.sid /\ c.service = d.service
  BY <1>3, <1>4 DEF Validate, Fields
<1> QED BY <1>4, <1>5

\* What a redirect leaves and what it replaces.
LEMMA Redirecting ==
  ASSUME NEW c, NEW r, DOMAIN c = Fields
  PROVE  LET d == UpdateForRedirect(c, r) IN
         /\ DOMAIN d = Fields /\ d.servers = r.servers
         /\ r.servers = <<>> =>
              d.connStr = c.connStr /\ d.sid = c.sid /\ d.service = c.service
         /\ r.servers # <<>> =>
              /\ d.connStr = NoDescriptor
              /\ d.sid = Named(r.sid, c.sid) /\ d.service = Named(r.service, c.service)
<1>1. CASE r.servers = <<>>
  BY <1>1 DEF UpdateForRedirect, Fields
<1>2. CASE r.servers # <<>>
  <2> DEFINE e == [c EXCEPT !.servers = r.servers, !.connStr = NoDescriptor]
  <2>1. /\ DOMAIN e = Fields /\ e.servers = r.servers /\ e.connStr = NoDescriptor
        /\ e.sid = c.sid /\ e.service = c.service
    BY DEF Fields
  <2>2. UpdateForRedirect(c, r) = WithNames(e, r)
    BY <1>2 DEF UpdateForRedirect
  <2> HIDE DEF e
  <2>3. LET d == WithNames(e, r) IN
        /\ DOMAIN d = Fields /\ d.servers = e.servers /\ d.connStr = e.connStr
        /\ d.sid = Named(r.sid, e.sid) /\ d.service = Named(r.service, e.service)
    BY <2>1 DEF WithNames, Fields
  <2> QED BY <1>2, <2>1, <2>2, <2>3
<1> QED BY <1>1, <1>2

\* The parts of a descriptor.
LEMMA Parts ==
  ASSUME NEW c, NEW server
  PROVE  LET d == ConnectionData(c, server) IN
         d.text = c.connStr /\ d.server = server /\ d.database = Database(c)
<1>1. PICK p : ConnectionData(c, server) =
        [text |-> c.connStr, server |-> server, protocol |-> p,
         database |-> Database(c), instance |-> c.instance]
  BY Zenon DEF ConnectionData
<1> QED BY <1>1

-----------------------------------------------------------------------------
(* The invariant.                                                          *)

\* The configuration asks for what is wanted, or for an earlier SID.
Wanting ==
  /\ Database(info).name # ""
  /\ \/ Database(info) = wanted
     \/ Database(info).kind = "SID" /\ wanted.kind = "SERVICE_NAME"

\* A literal descriptor came with the servers, and no redirect since.
Literal ==
  info.connStr # NoDescriptor =>
    /\ ~isRedirect
    /\ \E c \in Configurations :
         info.connStr = c.connStr /\ (servers = c.servers \/ servers = <<>>)

\* What the listener has been sent is what the configuration says now.
SentNow ==
  pc = "handshake" =>
    /\ sent.data = ConnectionData(info, conn)
    /\ sent.flag = 0 \/ isRedirect
    /\ servers # <<>>

ConfigInv ==
  DOMAIN info = Fields /\ servers = info.servers /\ Wanting /\ Literal /\ SentNow

\* A connection string that is accepted establishes it.
LEMMA InitConfig == ConfiguredInit => ConfigInv
<1> SUFFICES ASSUME ConfiguredInit PROVE ConfigInv
  OBVIOUS
<1>1. info \in Configurations /\ servers = info.servers /\ ~isRedirect
      /\ wanted = Database(info)
  BY DEF ConfiguredInit
<1>2. DOMAIN info = Fields /\ (info.sid # "" \/ info.service # "")
  BY <1>1, AcceptedNames
<1>3. Wanting
  BY <1>1, <1>2 DEF Wanting, Database
<1>4. Literal
  BY <1>1 DEF Literal
<1>5. SentNow
  BY DEF ConfiguredInit, Init, SentNow
<1> QED BY <1>1, <1>2, <1>3, <1>4, <1>5 DEF ConfigInv

\* The steps that do not touch the configuration lead to no new handshake.
LEMMA OtherSteps ==
  ASSUME \/ Open \/ OtherOpening \/ Closing \/ Disconnected \/ Close \/ Finished
         \/ UNCHANGED vars
  PROVE  /\ servers' = servers
         /\ pc' = "handshake" => pc = "handshake" /\ conn' = conn
<1> USE DEF config
<1>1. CASE Open \/ Closing \/ Disconnected \/ Close
  BY <1>1 DEF Open, Closing, WriteLogoff, LogoffFails, ReadLogoff, Disconnected,
              Close
<1>2. CASE NoServers \/ DialFails \/ Resent \/ Accepted \/ HandshakeBreaks
           \/ LogonSucceeds \/ LogonFails \/ CleanUp
  BY <1>2 DEF NoServers, DialFails, Resent, Accepted, HandshakeBreaks,
              LogonSucceeds, LogonFails, CleanUp, Abort
<1>3. CASE Refused
  BY <1>3 DEF Refused, RestartOrOverflow, Restart, Abort
<1>4. CASE Finished \/ UNCHANGED vars
  BY <1>4 DEF Finished, vars
<1> QED BY <1>1, <1>2, <1>3, <1>4 DEF OtherOpening

\* Every step keeps it.
LEMMA NextConfig ==
  ASSUME TypeOK, ConfigInv, [ConfiguredNext]_allVars
  PROVE  ConfigInv'
<1> USE DEF ConfigInv
<1>1. CASE UNCHANGED configured /\ (\/ OtherOpening \/ Closing \/ Disconnected
                                    \/ Close \/ Finished \/ UNCHANGED vars)
  <2>1. /\ servers' = servers
        /\ pc' = "handshake" => pc = "handshake" /\ conn' = conn
    BY <1>1, OtherSteps
  <2>2. UNCHANGED <<info, isRedirect, sent, wanted>>
    BY <1>1 DEF configured
  <2> QED BY <2>1, <2>2 DEF Wanting, Literal, SentNow
<1>2. CASE ConfiguredOpen
  <2>1. servers' = servers /\ pc' # "handshake" /\ ~isRedirect'
        /\ UNCHANGED <<info, sent, wanted>>
    BY <1>2 DEF ConfiguredOpen, Open
  <2> QED BY <2>1 DEF Wanting, Literal, SentNow
<1>3. CASE ConfiguredDial
  <2>1. UNCHANGED <<servers, info, isRedirect, wanted>>
    BY <1>3 DEF ConfiguredDial, DialSucceeds, config
  <2>2. servers # <<>>
    BY <1>3 DEF ConfiguredDial, DialSucceeds, TypeOK
  <2>3. /\ sent'.data = ConnectionData(info, conn')
        /\ sent'.flag = 0 \/ isRedirect
    BY <1>3 DEF ConfiguredDial
  <2>4. ConnectionData(info, conn') = ConnectionData(info, conn)'
    BY <2>1 DEF ConnectionData, Database
  <2> QED BY <2>1, <2>2, <2>3, <2>4 DEF Wanting, Literal, SentNow
<1>4. CASE ConfiguredRedirect
  <2>1. PICK r \in Redirects :
          /\ r.servers = servers' /\ info' = UpdateForRedirect(info, r)
          /\ isRedirect' = (isRedirect \/ r.servers # <<>>)
          /\ wanted' = NamedBy(r)
    BY <1>4 DEF ConfiguredRedirect
  <2>2. pc' # "handshake"
    BY <1>4 DEF ConfiguredRedirect, Redirected, RestartOrOverflow, Restart, Abort
  <2>3. DOMAIN info' = Fields /\ servers' = info'.servers
    BY <2>1, Redirecting
  <2>4. CASE r.servers = <<>>
    <3>1. /\ info'.connStr = info.connStr /\ info'.sid = info.sid
          /\ info'.service = info.service /\ wanted' = wanted
          /\ ~isRedirect => ~isRedirect'
          /\ servers' = <<>>
      BY <2>1, <2>4, Redirecting DEF NamedBy
    <3> QED BY <2>2, <2>3, <3>1 DEF Wanting, Literal, SentNow, Database
  <2>5. CASE r.servers # <<>>
    <3>1. /\ info'.connStr = NoDescriptor /\ info'.sid = Named(r.sid, info.sid)
          /\ info'.service = Named(r.service, info.service)
      BY <2>1, <2>5, Redirecting
    <3>2. Wanting'
      <4>1. CASE r.sid # ""
        <5>1. wanted' = [kind |-> "SID", name |-> r.sid] /\ info'.sid = r.sid
          BY <2>1, <2>5, <3>1, <4>1 DEF NamedBy, Named, Database
        <5> QED BY <4>1, <5>1 DEF Wanting, Database
      <4>2. CASE r.sid = "" /\ r.service # ""
        <5>1. /\ wanted' = [kind |-> "SERVICE_NAME", name |-> r.service]
              /\ info'.sid = info.sid /\ info'.service = r.service
          BY <2>1, <2>5, <3>1, <4>2 DEF NamedBy, Named, Database
        <5> QED BY <4>2, <5>1 DEF Wanting, Database
      <4>3. CASE r.sid = "" /\ r.service = ""
        <5>1. /\ wanted' = wanted
              /\ info'.sid = info.sid /\ info'.service = info.service
          BY <2>1, <2>5, <3>1, <4>3 DEF NamedBy, Named
        <5> QED BY <5>1 DEF Wanting, Database
      <4> QED BY <4>1, <4>2, <4>3
    <3> QED BY <2>2, <2>3, <3>1, <3>2 DEF Literal, SentNow
  <2> QED BY <2>4, <2>5
<1>5. CASE UNCHANGED allVars
  BY <1>1, <1>5 DEF allVars
<1> QED
  BY <1>1, <1>2, <1>3, <1>4, <1>5
  DEF ConfiguredNext, ConfiguredOpening, ConfiguredClosing

-----------------------------------------------------------------------------
(* The theorem.                                                            *)

\* However listeners refuse and redirect, the descriptor a listener reads asks
\* for the database named latest, at its own address.
THEOREM AsksForWanted == ConfiguredSpec => []AsksForDatabase
<1>1. ConfiguredInit => ConfigInv
  BY InitConfig
<1>2. TypeOK /\ ConfigInv /\ [ConfiguredNext]_allVars => ConfigInv'
  BY NextConfig
<1>3. ConfigInv => AsksForDatabase
  <2> SUFFICES ASSUME ConfigInv, pc = "handshake" PROVE AsksForDatabase
    BY DEF AsksForDatabase
  <2>1. /\ sent.data = ConnectionData(info, conn)
        /\ sent.flag = 0 \/ (isRedirect /\ servers # <<>>)
    BY DEF ConfigInv, SentNow
  <2>2. /\ sent.data.text = info.connStr /\ sent.data.server = conn
        /\ sent.data.database = Database(info)
    BY <2>1, Parts
  <2>3. CASE info.connStr = NoDescriptor
    BY <2>2, <2>3 DEF AsksForDatabase, ConfigInv, Wanting
  <2>4. CASE info.connStr # NoDescriptor
    BY <2>2, <2>4 DEF AsksForDatabase, ConfigInv, Literal, SentNow
  <2> QED BY <2>3, <2>4
<1>4. ConfiguredSpec => []TypeOK
  BY ConfiguredImplementsConnect, ConnectTypes, PTL
<1> QED BY <1>1, <1>2, <1>3, <1>4, PTL DEF ConfiguredSpec
=============================================================================
