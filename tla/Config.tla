-------------------------------- MODULE Config --------------------------------
(***************************************************************************)
(* Connection strings, src/pyora/configurations.py: what parse_config      *)
(* makes of a URL and its options, what a redirect changes, and the        *)
(* descriptor that asks a listener for a database.                         *)
(*                                                                         *)
(* A URL is the record of its parts, an option a key with a value, a       *)
(* descriptor what the regular expressions find in one: its addresses and  *)
(* the names of a service, a SID and an instance, "" for none.  An address *)
(* is a host, a port and perhaps a protocol: ServerAddr.                   *)
(***************************************************************************)
EXTENDS Naturals, Sequences, TLC
LOCAL INSTANCE SequencesExt

CONSTANT ProtocolOf     \* of an address: the protocol it names, "" for none

NoDescriptor == [servers |-> <<>>, service |-> "", sid |-> "", instance |-> ""]

-----------------------------------------------------------------------------
(* Options.                                                                *)

\* What of ConnectionConfig decides where and as whom the driver connects.
Default ==
  [servers |-> <<>>, connStr |-> NoDescriptor, service |-> "", sid |-> "",
   instance |-> "", unix |-> FALSE, ssl |-> FALSE, protocol |-> "tcp",
   authType |-> "NORMAL", services |-> {}, raised |-> FALSE]

\* Parsing raises: there is no configuration.
Raised == [raised |-> TRUE]

\* A name that was found replaces the one before.
Named(found, name) == IF found # "" THEN found ELSE name

WithNames(c, d) ==
  [c EXCEPT !.service = Named(d.service, @), !.sid = Named(d.sid, @),
            !.instance = Named(d.instance, @)]

\* update_database_info: CONNSTR replaces the servers named before it.
UpdateDatabaseInfo(c, d) ==
  IF d.servers = <<>> THEN Raised
  ELSE WithNames([c EXCEPT !.servers = d.servers, !.connStr = d], d)

Levels == {"ACCEPTED", "REJECTED", "REQUESTED", "REQUIRED"}
Enabled == {"TRUE", "ENABLE", "ENABLED"}
AuthTypes == {"OS", "KERBEROS", "TCPS"}
Fetches == {"PRE", "INLINE", "POST", "STREAM"}

\* Options kept as they are, and not read by what is modelled here.
Texts ==
  {"CID", "OS USER", "OS PASS", "OS PASSWORD", "OS HASH", "DOMAIN", "SSL VERIFY",
   "DBA PRIVILEGE", "USE_OOB", "ENABLE_OOB", "ENABLE URGENT DATA TRANSPORT",
   "PREFETCH_ROWS", "PROXY CLIENT NAME", "LANGUAGE", "TERRITORY", "CHARSET",
   "CLIENT CHARSET", "PROGRAM", "SERVER LOCATION"}

\* Options whose value must be one of these; a number stands for all numbers.
Admitted ==
  [key \in {"ENCRYPTION", "DATA INTEGRITY"} |-> Levels]
    @@ [key \in {"TIMEOUT", "READ TIMEOUT", "SOCKET TIMEOUT", "CONNECT TIMEOUT",
                 "CONNECTION TIMEOUT"} |-> {"number"}]
    @@ [key \in {"LOB FETCH"} |-> Fetches]

\* The loop of parse_config over the options, of which one may raise.
Apply(c, option) ==
  LET key == option.key
      value == option.value
  IN  IF c.raised THEN c
      ELSE CASE key = "CONNSTR" -> UpdateDatabaseInfo(c, value)
           [] key = "SERVER" -> [c EXCEPT !.servers = @ \o value]
           [] key = "SERVICE NAME" -> [c EXCEPT !.service = value]
           [] key = "SID" -> [c EXCEPT !.sid = value]
           [] key = "INSTANCE NAME" -> [c EXCEPT !.instance = value]
           [] key = "UNIX SOCKET" -> [c EXCEPT !.unix = TRUE]
           [] key = "SSL" -> [c EXCEPT !.ssl = value \in Enabled]
           [] key = "AUTH TYPE" ->
                [c EXCEPT !.authType = IF value \in AuthTypes THEN value ELSE "NORMAL"]
           [] key = "AUTH SERV" -> [c EXCEPT !.services = @ \cup value]
           [] key \in DOMAIN Admitted -> IF value \in Admitted[key] THEN c ELSE Raised
           [] key \in Texts -> c
           [] OTHER -> Raised

-----------------------------------------------------------------------------
(* The whole URL.                                                          *)

\* validate.
Validate(c, url) ==
  IF c.sid = "" /\ c.service = "" THEN Raised
  ELSE [servers |-> c.servers, connStr |-> c.connStr, service |-> c.service,
        sid |-> c.sid, instance |-> c.instance, unix |-> c.unix, ssl |-> c.ssl,
        protocol |-> IF c.ssl THEN "tcps" ELSE c.protocol,
        authType |-> IF c.authType = "NORMAL" /\ ~url.login THEN "OS" ELSE c.authType,
        services |-> c.services \cup (CASE c.authType = "KERBEROS" -> {"KERBEROS5"}
                                        [] c.authType = "TCPS" -> {"TCPS"}
                                        [] OTHER -> {}),
        raised |-> FALSE]

\* parse_config.
ParseConfig(url) ==
  LET start == [Default EXCEPT !.servers = url.host, !.service = url.path]
      c == FoldLeft(Apply, start, url.options)
  IN  IF c.raised \/ c.servers = <<>> THEN Raised ELSE Validate(c, url)

-----------------------------------------------------------------------------
(* Connecting.                                                             *)

\* Mutant: the literal descriptor is kept.
UpdateForRedirect_KeepsConnStr(c, r) == WithNames([c EXCEPT !.servers = r.servers], r)

\* update_database_info_for_redirect: the names of the reconnect data, if it
\* has any; without an address it raises halfway.
UpdateForRedirect(c, r) ==
  IF r.servers = <<>> THEN [c EXCEPT !.servers = <<>>]
  ELSE WithNames([c EXCEPT !.servers = r.servers, !.connStr = NoDescriptor], r)

\* The database a descriptor asks for: a SID goes before a service.
Database(c) ==
  IF c.sid # "" THEN [kind |-> "SID", name |-> c.sid]
  ELSE [kind |-> "SERVICE_NAME", name |-> c.service]

\* connection_data: the literal descriptor, or one for the active server.
ConnectionData(c, server) ==
  [text |-> c.connStr, server |-> server,
   protocol |-> CASE c.unix -> "IPC"
                  [] ~c.unix /\ ProtocolOf[server] # "" -> ProtocolOf[server]
                  [] OTHER -> c.protocol,
   database |-> Database(c), instance |-> c.instance]
=============================================================================
