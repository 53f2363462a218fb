------------------------------- MODULE Connect -------------------------------
(***************************************************************************)
(* Opening and closing a connection: pyora.connect and ConnectionWrapper   *)
(* (src/pyora/__init__.py) over Connection.connect, logoff and close       *)
(* (connection.py), Session.connect (network/session.py) and the list of   *)
(* servers of ConnectionConfig (configurations.py).                        *)
(*                                                                         *)
(* Session.connect dials the servers of the list in turn, sends the one    *)
(* that answers a CONNECT packet, and starts again on another address when *)
(* it refuses or redirects.  The listeners at the other end are external.  *)
(***************************************************************************)
EXTENDS Naturals, Sequences

CONSTANTS
  Address,         \* the addresses there are
  Configured,      \* the lists of servers a connection string may name
  Redirections,    \* the lists of servers a listener may redirect to
  MaxRestarts,     \* nested Session.connect calls the interpreter allows
  MaxResends,      \* RESEND packets of a behaviour
  MaxOpens         \* connections a behaviour opens with this configuration

ASSUME AddressesAssumption ==
  /\ \A list \in Configured \cup Redirections : list \in Seq(Address)
  /\ <<>> \notin Configured

ASSUME BoundsAssumption ==
  MaxRestarts \in Nat /\ MaxResends \in Nat /\ MaxOpens \in Nat

NoSocket == "none"

ASSUME NoSocketAssumption == NoSocket \notin Address

VARIABLES
  pc,          \* where the opening or closing thread is: see Control
  state,       \* Connection.state: "Opened" or "Closed"
  session,     \* is Connection.session an object?
  conn,        \* Session.conn: the address its socket is connected to
  sockets,     \* the addresses the process holds an open socket to
  servers, serverIndex,    \* of ConnectionConfig
  described,   \* the server its CONNECT packet was made for
  sendPcks,    \* send_pcks: the addresses its CONNECT packets are meant for
  restarts,    \* depth of the recursion of Session.connect
  closed,      \* ConnectionWrapper.closed, TRUE before there is a wrapper
  \* history and bounds
  tried,       \* the addresses dialled since the list was installed
  cause,       \* why the latest opening failed
  resends, opens

config == <<servers, serverIndex>>
vars == <<pc, state, session, conn, sockets, config, described, sendPcks,
          restarts, closed, tried, cause, resends, opens>>

\* idle: the application runs; dialing, handshake, negotiating: inside
\* Connection.connect; failing: its exception reaches pyora.connect; closing:
\* inside Connection.close, of the application; readingLogoff: that close has
\* written its request.
Control == {"idle", "dialing", "handshake", "negotiating", "failing",
            "closing", "readingLogoff"}

Init ==
  /\ pc = "idle" /\ state = "Closed" /\ session = FALSE
  /\ conn = NoSocket /\ sockets = {}
  /\ servers \in Configured /\ serverIndex = 0
  /\ described = NoSocket /\ sendPcks = <<>> /\ restarts = 0 /\ closed = TRUE
  /\ tried = <<>> /\ cause = "none" /\ resends = 0 /\ opens = 0

-----------------------------------------------------------------------------
\* get_active_server(False), where there is one.
ActiveServer == servers[serverIndex + 1]

\* Mutant: gives up before the last server.
AnotherServer_OffByOne == serverIndex + 2 < Len(servers)

\* get_active_server(True) finds another server to try.
AnotherServer == serverIndex + 1 < Len(servers)

\* Session.disconnect.
Disconnect ==
  /\ sockets' = sockets \ {conn}
  /\ conn' = NoSocket

\* The opening raises: pyora.connect will close what there is and re-raise.
Abort(why) == pc' = "failing" /\ cause' = why

\* Mutants: without reset_buffer; without disconnect; a loop, no recursion.
Restart_KeepsSendPcks ==
  /\ restarts' = restarts + 1
  /\ Disconnect
  /\ pc' = "dialing" /\ UNCHANGED <<sendPcks, cause>>

Restart_KeepsSocket ==
  /\ restarts' = restarts + 1
  /\ sendPcks' = <<>>
  /\ pc' = "dialing" /\ UNCHANGED <<conn, sockets, cause>>

Restart_Loops ==
  /\ sendPcks' = <<>>
  /\ Disconnect
  /\ pc' = "dialing" /\ UNCHANGED <<restarts, cause>>

\* Session.connect calls itself: reset_buffer, disconnect, dial.
Restart ==
  /\ restarts' = restarts + 1
  /\ sendPcks' = <<>>
  /\ Disconnect
  /\ pc' = "dialing" /\ UNCHANGED cause

\* Mutant: one call too many.
RestartOrOverflow_OneMore ==
  IF restarts <= MaxRestarts THEN Restart
  ELSE /\ Abort("overflow")
       /\ UNCHANGED <<restarts, sendPcks, conn, sockets>>

\* ... unless the interpreter's stack is used up.
RestartOrOverflow ==
  IF restarts < MaxRestarts THEN Restart
  ELSE /\ Abort("overflow")
       /\ UNCHANGED <<restarts, sendPcks, conn, sockets>>

-----------------------------------------------------------------------------
(* Opening.                                                                *)

\* pyora.connect, Connection.connect: a new Session starts on the first server
\* of the list, which an earlier redirect may have replaced.  The session of an
\* opening that failed is garbage by now, and its socket closed with it.
Open ==
  /\ pc = "idle" /\ closed /\ opens < MaxOpens
  /\ opens' = opens + 1
  /\ pc' = "dialing" /\ session' = TRUE /\ cause' = "none"
  /\ serverIndex' = 0 /\ tried' = <<>> /\ restarts' = 0
  /\ conn' = NoSocket /\ sockets' = {} /\ sendPcks' = <<>>
  /\ UNCHANGED <<state, servers, described, closed, resends>>

\* "no available servers to connect to": a redirect has left the list empty.
NoServers ==
  /\ pc = "dialing" /\ serverIndex >= Len(servers)
  /\ Abort("unaddressed")
  /\ UNCHANGED <<state, session, conn, sockets, config, described, sendPcks,
                 restarts, closed, tried, resends, opens>>

\* The server is reached and sent a CONNECT packet made for it.
DialSucceeds ==
  /\ pc = "dialing" /\ serverIndex < Len(servers)
  /\ conn' = ActiveServer /\ sockets' = sockets \cup {ActiveServer}
  /\ described' = ActiveServer
  /\ sendPcks' = Append(sendPcks, described')
  /\ tried' = Append(tried, ActiveServer)
  /\ pc' = "handshake"
  /\ UNCHANGED <<state, session, config, restarts, closed, cause, resends,
                 opens>>

\* OSError of create_connection: jump to the next server, if there is one.
DialFails ==
  /\ pc = "dialing" /\ serverIndex < Len(servers)
  /\ tried' = Append(tried, ActiveServer)
  /\ serverIndex' = serverIndex + 1
  /\ IF AnotherServer THEN UNCHANGED <<pc, cause>> ELSE Abort("exhausted")
  /\ UNCHANGED <<state, session, conn, sockets, servers, described, sendPcks,
                 restarts, closed, resends, opens>>

\* RESEND: read_packet sends every packet of send_pcks again.
Resent ==
  /\ pc = "handshake" /\ resends < MaxResends
  /\ resends' = resends + 1
  /\ UNCHANGED <<pc, state, session, conn, sockets, config, described,
                 sendPcks, restarts, closed, tried, cause, opens>>

\* ACCEPT.
Accepted ==
  /\ pc = "handshake"
  /\ pc' = "negotiating"
  /\ UNCHANGED <<state, session, conn, sockets, config, described, sendPcks,
                 restarts, closed, tried, cause, resends, opens>>

\* REDIRECT: the list it names replaces the servers, and all begins anew.
Redirected ==
  /\ pc = "handshake"
  /\ \E list \in Redirections :
       IF list = <<>>
       THEN /\ servers' = list
            /\ Abort("unaddressed")
            /\ UNCHANGED <<serverIndex, restarts, sendPcks, conn, sockets, tried>>
       ELSE /\ servers' = list /\ serverIndex' = 0 /\ tried' = <<>>
            /\ RestartOrOverflow
  /\ UNCHANGED <<state, session, described, closed, resends, opens>>

\* REFUSE: on to the next server; after the last one disconnect and raise.
Refused ==
  /\ pc = "handshake"
  /\ serverIndex' = serverIndex + 1
  /\ IF AnotherServer
     THEN RestartOrOverflow
     ELSE Disconnect /\ Abort("exhausted") /\ UNCHANGED <<restarts, sendPcks>>
  /\ UNCHANGED <<state, session, servers, described, closed, tried, resends,
                 opens>>

\* Any other answer, or none: no server of the list is tried after it.
HandshakeBreaks ==
  /\ pc = "handshake"
  /\ Abort("broken")
  /\ UNCHANGED <<state, session, conn, sockets, config, described, sendPcks,
                 restarts, closed, tried, resends, opens>>

\* Negotiations, logon; an exception of get_db_version is swallowed.
LogonSucceeds ==
  /\ pc = "negotiating"
  /\ pc' = "idle" /\ state' = "Opened" /\ closed' = FALSE
  /\ UNCHANGED <<session, conn, sockets, config, described, sendPcks,
                 restarts, tried, cause, resends, opens>>

LogonFails ==
  /\ pc = "negotiating"
  /\ Abort("logon")
  /\ UNCHANGED <<state, session, conn, sockets, config, described, sendPcks,
                 restarts, closed, tried, resends, opens>>

-----------------------------------------------------------------------------
(* Closing.                                                                *)

\* Mutant: without disconnect.
ReleaseSession_KeepsSocket ==
  /\ session' = FALSE /\ state' = "Closed"
  /\ UNCHANGED <<conn, sockets>>

\* Connection.close after logoff: disconnect, drop the session.
ReleaseSession ==
  /\ Disconnect
  /\ session' = FALSE /\ state' = "Closed"

\* pyora.connect closes the connection it could not open.  If logoff cannot
\* write, close raises before it disconnects, and that is swallowed.
CleanUp ==
  /\ pc = "failing"
  /\ pc' = "idle"
  /\ \/ conn # NoSocket /\ ReleaseSession
     \/ state' = "Closed" /\ UNCHANGED <<session, conn, sockets>>
  /\ UNCHANGED <<config, described, sendPcks, restarts, closed, tried, cause,
                 resends, opens>>

\* A DATA packet with data flag 0x40 has made a call disconnect the session
\* (see Session); the connection still counts as opened.
Disconnected ==
  /\ pc = "idle" /\ ~closed /\ conn # NoSocket
  /\ Disconnect
  /\ UNCHANGED <<pc, state, session, config, described, sendPcks, restarts,
                 closed, tried, cause, resends, opens>>

\* ConnectionWrapper.close, unless it has closed the connection before.
Close ==
  /\ pc = "idle" /\ ~closed
  /\ IF session
     THEN pc' = "closing" /\ UNCHANGED <<state, closed>>
     ELSE state' = "Closed" /\ closed' = TRUE /\ UNCHANGED pc
  /\ UNCHANGED <<session, conn, sockets, config, described, sendPcks,
                 restarts, tried, cause, resends, opens>>

\* logoff: reset_buffer, then the request goes out.
WriteLogoff ==
  /\ pc = "closing" /\ conn # NoSocket
  /\ pc' = "readingLogoff" /\ sendPcks' = <<conn>>
  /\ UNCHANGED <<state, session, conn, sockets, config, described, restarts,
                 closed, tried, cause, resends, opens>>

\* ... or it raises: the connection counts as closed, the socket is not.
LogoffFails ==
  /\ pc = "closing"
  /\ pc' = "idle" /\ state' = "Closed"
  /\ UNCHANGED <<session, conn, sockets, config, described, sendPcks,
                 restarts, closed, tried, cause, resends, opens>>

\* Whatever becomes of the answer, close releases the session.
ReadLogoff ==
  /\ pc = "readingLogoff"
  /\ ReleaseSession
  /\ pc' = "idle" /\ closed' = TRUE
  /\ UNCHANGED <<config, described, sendPcks, restarts, tried, cause, resends,
                 opens>>

-----------------------------------------------------------------------------
\* The steps that neither send a CONNECT packet nor change the configuration's
\* names.
OtherOpening ==
  \/ NoServers \/ DialFails
  \/ Resent \/ Accepted \/ Refused \/ HandshakeBreaks
  \/ LogonSucceeds \/ LogonFails \/ CleanUp

Opening == DialSucceeds \/ Redirected \/ OtherOpening

Closing == WriteLogoff \/ LogoffFails \/ ReadLogoff

\* The bound on connections is used up and the last one is closed.
Finished == pc = "idle" /\ closed /\ opens = MaxOpens /\ UNCHANGED vars

Next == Open \/ Opening \/ Disconnected \/ Close \/ Closing \/ Finished

Spec == Init /\ [][Next]_vars

\* The interpreter runs the thread; a listener answers or the read times out.
FairSpec == Spec /\ WF_vars(Opening) /\ WF_vars(Closing)

-----------------------------------------------------------------------------
(* Properties.                                                             *)

Servers == Configured \cup Redirections

\* The types of the variables.
TypeOK ==
  /\ pc \in Control
  /\ state \in {"Opened", "Closed"}
  /\ session \in BOOLEAN /\ closed \in BOOLEAN
  /\ conn \in Address \cup {NoSocket} /\ sockets \subseteq Address
  /\ servers \in Servers /\ serverIndex \in Nat
  /\ described \in Address \cup {NoSocket}
  /\ sendPcks \in Seq(Address)
  /\ restarts \in 0 .. MaxRestarts
  /\ tried \in Seq(Address)
  /\ cause \in {"none", "exhausted", "unaddressed", "overflow", "broken", "logon"}
  /\ resends \in 0 .. MaxResends /\ opens \in 0 .. MaxOpens

\* Failover and redirects close the socket they give up before they open
\* another: the only open socket is the session's.
OneSocket == sockets = {conn} \ {NoSocket}

\* The CONNECT packet the listener reads, the first time or after a RESEND,
\* was made for that listener: it is never the one meant for an earlier server.
DescribesPeer ==
  pc = "handshake" => described = conn /\ sendPcks = <<conn>>

\* pyora.connect reports that no server of the list could be reached only if
\* it has dialled them all, in order and once each: those of the latest
\* redirect if there was one.
ExhaustedMeansTried == pc = "failing" /\ cause = "exhausted" => tried = servers

\* A connection that ConnectionWrapper.close says is closed is released: no
\* socket, no session.  (One that could not be opened has no wrapper.)
ClosedMeansReleased ==
  pc = "idle" /\ closed /\ cause = "none" =>
    conn = NoSocket /\ ~session /\ state = "Closed"

\* Opening and closing end, even when listeners redirect to each other forever.
OpenEnds == (pc # "idle") ~> (pc = "idle")
-----------------------------------------------------------------------------
(* Why they hold: what is so at each point of Opening and Closing.  Proved  *)
(* inductive in Connect_proofs.                                            *)

\* The session, its socket and its packets.
Stages ==
  /\ pc # "idle" => session
  /\ ~session => conn = NoSocket
  /\ pc = "dialing" => conn = NoSocket /\ sendPcks = <<>>
  /\ pc \in {"closing", "readingLogoff"} => ~closed
  /\ pc = "failing" => cause # "none"

\* The servers dialled so far are the list up to the active one, in order.
TriedInOrder ==
  /\ pc \in {"handshake", "negotiating"} => serverIndex < Len(servers)
  /\ pc = "dialing" => tried = SubSeq(servers, 1, serverIndex)
  /\ pc \in {"handshake", "negotiating"} =>
       tried = SubSeq(servers, 1, serverIndex + 1)
  /\ pc = "failing" /\ cause = "exhausted" => tried = servers

\* What holds beyond the types.
Facts ==
  OneSocket /\ DescribesPeer /\ ClosedMeansReleased /\ Stages /\ TriedInOrder

Inv == TypeOK /\ Facts
=============================================================================
