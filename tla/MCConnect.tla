----------------------------- MODULE MCConnect -----------------------------
(* Three addresses; a connection string names two of them, in its host and   *)
(* options or in a descriptor.  A listener may redirect to the one it does   *)
(* not name, back to the string's own list, or to a list without an address. *)
EXTENDS ConfiguredConnect

CONSTANTS a1, a2, a3

MCAddress == {a1, a2, a3}
MCProtocolOf == [a \in MCAddress |-> IF a = a2 THEN "tcps" ELSE ""]

Names(list, service, sid) ==
  [servers |-> list, service |-> service, sid |-> sid, instance |-> ""]
Option(key, value) == [key |-> key, value |-> value]
Url(host, path, options) ==
  [host |-> host, path |-> path, login |-> TRUE, options |-> options]

\* The last four are not accepted: no database, no address, an unknown option.
MCUrls ==
  {Url(<<a1>>, "svc", <<Option("SERVER", <<a2>>)>>),
   Url(<<a1>>, "", <<Option("SERVER", <<a2>>), Option("SID", "sid"), Option("SSL", "ENABLE")>>),
   Url(<<a3>>, "", <<Option("CONNSTR", Names(<<a1>>, "svc", "")), Option("SERVER", <<a2>>)>>),
   Url(<<a1>>, "", <<>>), Url(<<>>, "svc", <<>>),
   Url(<<a1>>, "svc", <<Option("CONNSTR", Names(<<>>, "svc", ""))>>),
   Url(<<a1>>, "svc", <<Option("COLOUR", "red")>>)}

MCConfigured == {<<a1, a2>>}
MCRedirects ==
  {Names(<<a3>>, "", ""), Names(<<a2, a3>>, "other", ""),
   Names(<<a1, a2>>, "", "sid2"), Names(<<>>, "other", "")}
MCRedirections == {r.servers : r \in MCRedirects}
=============================================================================
