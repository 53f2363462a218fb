-------------------------- MODULE ConfiguredConnect --------------------------
(***************************************************************************)
(* Connect with the configuration it connects by: the servers are those of *)
(* a connection string (Config), every CONNECT packet carries the          *)
(* configuration's connect descriptor, and a redirect changes what the     *)
(* next descriptor asks for.  Only connections over TCP: with a UNIX       *)
(* socket no address is dialled.                                           *)
(***************************************************************************)
EXTENDS Connect, Config

CONSTANTS
  Urls,          \* the connection strings
  Redirects      \* what redirects say: addresses, and names if any

Configurations ==
  {ParseConfig(u) : u \in {v \in Urls : LET c == ParseConfig(v) IN ~c.raised /\ ~c.unix}}

ASSUME ConfigurationAssumption ==
  /\ Configured = {c.servers : c \in Configurations}
  /\ Redirections = {r.servers : r \in Redirects}

VARIABLES
  info,          \* the ConnectionConfig
  isRedirect,    \* SessionContext.is_redirect
  sent,          \* descriptor and flag of the latest CONNECT packet
  wanted         \* history: the database named latest

configured == <<info, isRedirect, sent, wanted>>
allVars == <<vars, configured>>

Nothing == [data |-> "nothing", flag |-> 0]

ConfiguredInit ==
  /\ Init
  /\ info \in Configurations /\ servers = info.servers
  /\ isRedirect = FALSE /\ sent = Nothing /\ wanted = Database(info)

-----------------------------------------------------------------------------
\* The context of a new Session knows of no redirect.
ConfiguredOpen ==
  /\ Open
  /\ isRedirect' = FALSE
  /\ UNCHANGED <<info, sent, wanted>>

\* new_connect_packet.
ConfiguredDial ==
  /\ DialSucceeds
  /\ sent' = [data |-> ConnectionData(info, conn'),
              flag |-> IF isRedirect THEN 4 ELSE 0]
  /\ UNCHANGED <<info, isRedirect, wanted>>

\* The database a redirect names, if it names one.
NamedBy(r) ==
  CASE r.servers # <<>> /\ r.sid # "" -> Database(r)
    [] r.servers # <<>> /\ r.sid = "" /\ r.service # "" -> Database(r)
    [] OTHER -> wanted

\* update_database_info_for_redirect; when it raises, is_redirect stays.
ConfiguredRedirect ==
  /\ Redirected
  /\ \E r \in Redirects :
       /\ r.servers = servers'
       /\ info' = UpdateForRedirect(info, r)
       /\ isRedirect' = (isRedirect \/ r.servers # <<>>)
       /\ wanted' = NamedBy(r)
  /\ UNCHANGED sent

ConfiguredOpening ==
  \/ ConfiguredDial
  \/ ConfiguredRedirect
  \/ OtherOpening /\ UNCHANGED configured

ConfiguredClosing == Closing /\ UNCHANGED configured

ConfiguredNext ==
  \/ ConfiguredOpen \/ ConfiguredOpening \/ ConfiguredClosing
  \/ (Disconnected \/ Close \/ Finished) /\ UNCHANGED configured

ConfiguredSpec == ConfiguredInit /\ [][ConfiguredNext]_allVars

\* As in Connect: the thread runs, a listener answers or the read times out.
ConfiguredFairSpec ==
  ConfiguredSpec /\ WF_allVars(ConfiguredOpening) /\ WF_allVars(ConfiguredClosing)

-----------------------------------------------------------------------------
(* Properties.                                                             *)

\* A listener is asked for the database named latest, by the connection string
\* or by a redirect on the way to it, at the listener's own address; but a SID
\* named earlier goes before a service that a redirect names.  The literal
\* descriptor of a connection string goes to its own servers only, never to
\* those of a redirect.
AsksForDatabase ==
  pc = "handshake" =>
    IF sent.data.text = NoDescriptor
    THEN /\ sent.data.server = conn
         /\ sent.data.database.name # ""
         /\ \/ sent.data.database = wanted
            \/ sent.data.database.kind = "SID" /\ wanted.kind = "SERVICE_NAME"
    ELSE /\ sent.flag = 0
         /\ \E c \in Configurations : sent.data.text = c.connStr /\ servers = c.servers
=============================================================================
