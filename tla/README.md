# Verification of pyora

pyora (`src/pyora`) is a thin Oracle client written in Python, a port of
go-ora: it speaks TNS packets and the TTC protocol over one TCP socket, without
Oracle's libraries. This directory holds TLA+ models of its core, TLC
configurations that check them on small instances, and TLAPS proofs of the
results that do not depend on the size of the instance.

## 1. Inventory

| part | source | state | operations | hard about it |
| --- | --- | --- | --- | --- |
| TTC session | `network/session.py`, `network/*_packet.py` | socket, `in_buffer`, `out_buffer`, `send_pcks`, `summary`, `context` | `connect`, `disconnect`, `write`, `read`, `read_packet`, `_process_marker`, `reset_buffer` | the server interrupts, asks again or vanishes at any byte; the three buffers are reset together or a later call sees an earlier one |
| TTC primitives | `network/session.py` 374-544 | none | `put_int`/`get_int`, `put_clr`/`get_clr`, `get_dlc`, key/value | widths, sentinels, signs |
| opening and closing | `connection.py`, `__init__.py`, `configurations.py` | `ConnectionConfig.servers`, `server_index`, `Connection.state`, `session`, wrapper's `closed` | `connect`, `logoff`, `close` | failover, refusals and redirects recurse in one object; every failure must release the socket |
| negotiation and logon | `tcp_protocol_nego.py`, `data_type_nego.py`, `advanced_nego.py`, `auth_object.py`, `connection.py` 119-258 | capabilities, TTC version, charsets | `new_tcp_nego`, `build_type_nego`, `do_auth` | who speaks next; capabilities switch later message formats |
| commands | `command.py` 207-713 | `cursor_id`, `columns`, `_rows`, `_has_more_rows`, fetch size | `write`, `read_response`, `query`, `exec`, `fetch_more`, `fetch_all` | a column may be left out of a row; batches; reset in the middle of a fetch |
| SQL scanners | `command.py` 57-174 | none (a loop with four flags) | `split_sql`, `refine_sql_text` | comments and quotes that contain each other's delimiters |
| DB-API | `__init__.py` | rows, index, description, rowcount; `closed` | `execute`, `fetch*`, `commit`, `close` | state kept when a call raises |
| conversions | `converters/*.py`, `parameter_encode.py` | none | NUMBER, dates, strings | ranges, exponents, dates the target type cannot hold |
| configuration | `configurations.py` | servers, names, options; replaced by redirects | parsing of a URL, `update_database_info*`, `connection_data` | what a redirect replaces and what it leaves of earlier names |

How they interact: `pyora.connect` builds a `Connection`, whose `connect`
creates a `Session`, connects it (TNS handshake), negotiates and logs on. A
`Cursor` calls `Connection.query` or `exec`, which create a `Command`; `Command`
writes into and reads from the one `Session`, and hands message codes it does
not know to `Connection.process_ttc_response`. All of it runs on the caller's
thread: the concurrency is between that thread, the network and the server.

What makes each part correct:

* session: a call reads its own response, in order and complete, or raises; the
  server reads whole requests and only the reset markers it asked for; every
  call ends;
* opening: one socket at a time, the CONNECT packet fits its reader, every
  server is tried before the opening gives up, close releases everything;
* commands: the application gets the rows of the result, or an exception;
* scanners: a statement ends at its first separator outside quotes and comments;
* negotiation and logon: the two sides take turns, every step reads the response
  to its own request in the format it was written in, and a connection is
  Opened only after the server has let the user in;
* DB-API: every cursor delivers its own rows in order, a request holds one
  statement, a change whose call returned is durable;
* messages and conversions: what one side writes the other reads, to the last
  byte, in every version and under all capabilities; a value comes back as it was
  as far as its type keeps it; NUMBER bytes compare as the values do; client and
  server derive the same keys exactly from the same password;
* configuration: a listener is asked for the database that was named latest.

## 2. Modules

```
CallSpec     <--implements-- Session    <- MCSession     Session_proofs
Connect      <--implements-- ConfiguredConnect <- MCConnect
                                ^  Config              Connect_proofs
ResultStream <--implements-- Fetch      <- MCFetch       Fetch_proofs
                             SqlText    <- MCSqlText     SqlText_proofs
                             Handshake  <- MCHandshake   Handshake_proofs
                             DbApi      <- MCDbApi       DbApi_proofs

WireCodec <- Replies, Packets, NegoPackets, ProtocolNego, TypeNego
                                                       WireCodec_proofs
Replies   <- Logon
OracleNumber, DateCodec, WireCodec <- Values
Values, ProtocolNego, Replies      <- QueryMessages
all of these                       <- Messages <- MCMessages   Messages_proofs
```

From the bottom up: `Messages` is the bytes of single messages, `Session` how
bytes and packets travel under any call, `Connect` what happens until a listener
has accepted and when the connection ends, `ConfiguredConnect` the same with the
configuration it goes by, `Handshake` what follows the acceptance up to the first
call, `Fetch` the messages of a query, `DbApi` the calls an application makes.
Each takes what the one below promises as its steps: `Fetch` and `Handshake` take
it that a message is one step, which `Messages` shows for their bytes (reading
stays in step) and `Session` for their packets. `SqlText` is a function the
others do not look into.

### CallSpec and Session

`CallSpec` is what a caller of a `Session` is promised: calls are begun one at a
time, the server executes a request at most once, in order and only if it was made,
and a call returns its own complete answer or raises. `executed` is the sequence of
all executions, in `CallSpec` as in `Session`: a request executed once more, which
a RESEND could cause, is a step that `CallSpec` does not have.

`Session` is `session.py` under the loop of `Command.read_response`. One
thread; `pc` says where it is: `idle` (between calls), `writing` (in `write`),
`reading` (in `read`), `marker` and `awaitData` (in `_process_marker`, before and
after the client's own reset marker). Correspondence:

| model | code |
| --- | --- |
| `sendPcks`, `inBuffer`, `outBuffer` | `send_pcks`, `in_buffer`, length of `out_buffer` |
| `ret`, `need`, `field` | locals of `read()` and what it was called for |
| `trials` | `trials` of `_process_marker` |
| `BeginCall` | `Command.write` up to `session.write()`: `reset_buffer`, build the request |
| `WriteSegment` | one turn of the loop of `Session.write`, `write_packet` included |
| `TakeBytes`, `ReadCode`, `ReadBody` | `read()` and the two halves of a turn of `read_response` |
| `ReadData`, `ReadEof`, `ReadResend`, `ReadMarker` | the branches of `read_packet` |
| `ReadNextMarker`, `TooManyTrials`, `AcknowledgeReset`, `AwaitData`, `WrongPacket` | `_process_marker` |
| `DecodeFails`, `UnknownCode`, `ReadFails`, `ReadTimesOut`, `WriteFails` | the exceptions that leave the loop |

Bytes carry the call, the round of the response and their position, so that a
property can tell which response a byte belongs to; a message is `MessageLen`
bytes whose first is its code. Packets from the server cut the response
anywhere. The server (external) executes complete requests, may ask for them
again (RESEND), interrupt a response with break markers and a reset marker,
drop what it receives until the client's reset marker, and then answer with a
summary. `Init` is a connection that has been opened; see `Connect`.

### Connect

`Connect` is `pyora.connect`, `Connection.connect`, `Session.connect` with its
recursion, `ConnectionConfig`'s list of servers, `logoff` and `close`. Listeners
(external) may be unreachable, accept, refuse, redirect to a list of other
servers (or to nothing that can be parsed), ask for the CONNECT again, or break
the handshake. `restarts` is the depth of the recursion; `MaxRestarts` stands for
the interpreter's limit. Negotiation and logon are one step that succeeds or
raises. `sockets` are the sockets the process holds, `conn` the session's.

### ResultStream and Fetch

`ResultStream` is what `query()` promises: the rows of the table delivered in
order, all of them unless it raises. `Fetch` is `Command.query` with
`fetch_all`, `fetch_more` and `read_response` over messages (the layer below,
`Session`, delivers each message once and in order, or raises). The server
(external) describes the columns, sends rows in which columns that did not
change are left out under a bit vector, may pause with message 19, may change
the cursor id, and ends a batch with a summary: more rows, 1403, or an error.
After an `ErrConnReset` the connection is closed, or a whole answer or an error
follows (`Aftermaths`).

Reading a value while the row holds none for that column is modelled by
`Garbage`: the client would take the bytes of something else.

### SqlText

`SqlText` is `split_sql` and `refine_sql_text`: one action per branch of their
common loop, over every text up to a length. `Mode` is the reference: the
lexical mode at a position told from the text alone. `Misleading` names the
texts on which the code is known to differ from that reference, in four clauses:
two dashes inside quotes, `/*` inside a line comment, `*/*` in code, and `/*/`
inside a block comment. The properties hold on all others, and the run
`sql_quotes` shows the first clause as a finding. Two differences are in the
properties instead, because the flags do not lose track there: a blank line right
after a line comment ends no statement (`BlankLineAfter` in `Ends`), and the line
feed that ends a line comment is not put out (`RefinesToCode`, section 5).

### Handshake

`Handshake` is `Connection.connect` from the acceptance on: `AdvNego`,
`new_tcp_nego`, `build_type_nego`, `do_auth` with `AuthObject`, `get_db_version`
and the first call. `pc` is the step whose response the client reads, named for
the request it has written. Every message carries the step it answers, the
capabilities it was written with and the algorithm it was transformed with, so
that a property can tell when it is read by another step, in another format or
in another layer. Correspondence:

| model | code |
| --- | --- |
| `caps` | `has_eos_capability`, `has_fsap_capability`, `use_big_clr_chunks`, `ttc_version` of the session |
| `Request` | `reset_buffer` and `write` of each step |
| `Receive` | `read()` of a session whose `in_buffer` is empty |
| `Understands`, `ReadUnexpected` | the codes each loop takes, and the errors for all others |
| `ReadServices` ... `ReadTypes` | `read_full`, `new_tcp_nego`, `DataTypeNego.read`, each with the request that follows |
| `ReadTypesNoLogon` | `_EmptyAuth` |
| `Renegotiate`, `ReadTypesAgain` | message 28 in `process_ttc_response`; `resume` is the loop it returns to |
| `ReadSessionKey`, `ReadLogonSummary`, `ReadLogonStatus` | `AuthObject._create` |
| `ReadVersion`, `Raise` | `get_db_version`, and the `except` that drops what it raises |
| `ReadCallSummary`, `ReadCallStatus` | the end of `read_response` |

The server (external) answers a request at a time; it refuses any step, chooses
among the algorithms it is offered according to its policy, may interrupt a
logon with message 28 and may cut a response in two packets. The algorithms
are two or three names instead of eleven: only whether one is chosen matters.

### DbApi

`DbApi` is `Cursor` and `ConnectionWrapper` over the writing half of `Command`.
`cursor` holds `_rows`, `_row_index` and `rowcount`; `outBuffer` the statements
of which bytes are in `out_buffer`; the server (external) keeps what is pending
and what is durable. `result` and `delivered` are histories. A query returns
a whole result or raises, which is what `ResultStream` promises of it.

`ExecuteRaises` covers every `execute` that cannot be written: arguments bind
values, and whatever is not a query always has one (section 5).

A statement is its first word and what is in front of it: nothing, a parenthesis,
a comment, or a comment that `refine_sql_text` misreads, because it has `/*` in a
line comment or `/*/` in a block comment (clauses two and four of `Misleading`).
What follows such a comment is dropped, so that `_detect_stmt_type` answers
OTHERS and nothing is committed.

### Config and ConfiguredConnect

`Config` is `configurations.py`: `parse_config` with every option, `validate`,
what `update_database_info` and `update_database_info_for_redirect` replace, and
the descriptor of `connection_data`. A URL is the record of its parts and a
descriptor what the regular expressions find in it. `ConfiguredConnect` composes
it with `Connect`: every action of `Connect` with what it does to the
configuration, `sent` for the descriptor of the latest CONNECT packet and `wanted`
as a history of the database named latest. It implements `Connect`.

### Messages, and the codecs it is made of

`Messages` puts fields into a buffer and gets them from it. A field is what the
code writes or reads as one: an integer, a string, a value, a message, a packet;
each module below has its two ways, of which one is the driver's and the other
either the driver's as well or the server's (external).

| module | code |
| --- | --- |
| `WireCodec` | `session.py` 374-544: `put_int`, `put_uint`, `get_int`, CLR, DLC, keys with values |
| `OracleNumber` | `encode_number`, `_decode_raw`, `decode_number` of `converters/number.py`; what a value stands for is told by `DigitAt` alone, and a float is a whole number that has a double and a power of ten |
| `DateCodec` | `encode_date`, `encode_timestamp` and their decoders |
| `Values` | `encode_parameter_value`, `TypeConverter.read`: every type, with its character set |
| `Replies` | `TypeConverter.read_columns`, `new_summary` |
| `QueryMessages` | `_basic_write`, `fetch_more`, `get_db_version`; the messages `read_response` and `process_ttc_response` take |
| `ProtocolNego`, `TypeNego` | `new_tcp_nego`; both ways of `DataTypeNego` |
| `NegoPackets` | `AdvNego` and its four services |
| `Logon` | `AuthObject`: challenge, keys, answer |
| `Packets` | CONNECT, ACCEPT, REFUSE, REDIRECT, DATA and MARKER packets |

A `Get` returns a value and the rest of the stream, or `Raised`; `Then` is
Python's exceptions, which nothing here catches. What a version or capability
adds is a field under `If`. Hashes and ciphers of the logon are symbols (`Box`): a
key opens what was closed with the same key, and nothing else does.

`decode_number` returns an int or a float, and `RoundTrips` says of both what
`SameNumber` does: a whole number of 64 bits is got exactly; of any other value the
float has the sign, and its whole number (`int(digits)` rounded by `float()` and by
`x + 0.5`, `FloatOf` and `AddHalf`) is the one of the digits below 2^52 and differs from it by
at most a part in 2^52 from there on (`CloseTo`). The division by a power of ten
that ends it is not evaluated; it rounds once more.

## 3. Runs

| run | question | answer |
| --- | --- | --- |
| `session` | two calls, requests of up to two segments (the last one full or short), responses of up to two messages of three bytes, a RESEND, interrupts between messages with up to three breaks, a lost link, no read timeout: does every call read its own response, and end? | `Paired`, `InSequence`, `EveryCallEnds`, and the fair `Session` implements the fair `CallSpec` |
| `session_faults` | everything that can go wrong at once: what survives? | requests stay whole (`RequestIntact`, `WireInv`), reset markers stay matched (`ResetExpected`) |
| `session_splice` | an interrupt inside a message | violates `FieldIntact`: finding 1 |
| `session_leftover` | a converter raises before the summary | violates `Paired`: finding 2 |
| `connect` | two openings by one of three accepted connection strings, redirects in a cycle, to other names and to nothing | all safety properties with `AsksForDatabase`, and `OpenEnds` |
| `fetch` | four rows of two columns, a first batch of one row and then up to two, a pause, resets, two cursor ids | `InStep`, `CursorKnown`, `Fetch` implements `ResultStream`, `QueryEnds` |
| `sql_text` | every text of up to five of the ten characters that matter | both scanners agree with `Mode` |
| `sql_quotes` | the docstring as it stands | violates `QuotedSemicolonsIgnored`: finding 3 |
| `messages` | every kind of field alone, and pairs of those whose end depends on their value, in seven versions and under all capabilities: is what is got what was put? | `InStep`, `RoundTrips`, `OrderPreserved`, `CanonicalBytes`, `LogonVerified` |
| `handshake` | older, equal and newer servers with any policy, refusals, responses in two packets, one renegotiation, message 9, timeouts, with and without a user | `TakesTurns`, `ReadsOwnResponse`, `FormatsAgree`, `AcceptedMeansPlain`, `OpenedMeansAuthenticated`, `HandshakeEnds` |
| `handshake_services` | a server that requests encryption | violates `LayersAgree`: finding 4 |
| `db_api` | two cursors, a query, CALL, a change behind a comment and one behind a comment that is misread, all fetches mixed, `executemany`, calls that raise, commit, rollback, close | `DeliversOwnRows`, `SendsOwnStatement`, `ReturnedMeansDurable` |

Why the bounds are enough. Two calls are the fewest that can be confused, and
nothing but the socket and `reset_buffer` connects a call with the one after
the next. A request of up to three bytes in segments of two is one segment, short
or full, or a full and a short one; `Session_proofs` has any number. Two messages
of three bytes give a code and a body that a packet can cut anywhere, and a
message before the summary. `MaxBreaks` = 3 is one less than what
`_process_marker` gives up at; with 4 the answers are mispaired, which
`session_faults` includes and only claims less about. `MaxRounds` = 1 in
`session`: a second interrupt before the data packet that `_process_marker`
waits for makes it raise and leaves the server waiting for a reset marker
(included in `session_faults`). For `connect`, two openings show
what a first one leaves behind in the configuration, and `MaxRestarts` = 4
exceeds the length of any list. Its connection strings name two servers by host
and SERVER option, with a service and with a SID, and by a literal descriptor; its
redirects name nothing, a service, a SID, or no address. For `handshake`, one
renegotiation is enough:
message 28 leaves nothing behind that a second one would find; the three servers
have the capabilities apart from each other, so that a format taken from the
wrong one shows. For `db_api`, two cursors are the fewest that can be confused,
and three rows with sizes 0 and 2 give a `fetchmany` that is cut short; one
change is enough, since no property relates two.

In `messages` integers have four bytes instead of eight (`WordBytes`) and big
chunks 300 instead of 32767, so that strings of one, two and three chunks occur;
sizes lie on both sides of 64, 252, 254, 255, 65535 and of the 230 bytes of a
descriptor. Versions are on both sides of every comparison the code makes with
`ttc_version`. Nine columns need two bytes of a bit vector, eight exactly one. The
table of types has a row of every form instead of 320. Dates are the
ends of months, centuries and of datetime's range, and 29 February; zone offsets
are all minutes from -12 to +14 hours. For numbers, the digits 0, 1 and 9 give
pairs at both ends and with leading and trailing zeros; pairs do not influence
each other, so that three digits (two pairs, aligned either way) give a first and
a last one. Floats have 8 bits instead of 53 (`FullMantissa` = 128 for 2^52), so that
numbers of three digits are exact, are rounded by `float()` and are rounded by `x + 0.5`;
both ends of int64 and the infinities are columns of their own (`Extremes`). `MarkerDigits` is 4 instead of the 21 of the code, so that negative
values without a marker occur too. Of a message no two fields influence each
other except through what stands in `Sessions` and through the position in the
stream, which the pairs cover.

The proofs of section 4 remove
the bounds for the properties they cover.

Fairness is weak fairness of the client's steps and of the server's: the
interpreter runs the client's thread, and a live server works on what it has
received. In `session` no read times out (`ReadTimeout = FALSE`): that every call
ends is then owed to the two sides not waiting for each other, and to a link
that is lost being seen as an end of file. In `fetch` and `handshake` a read that
nothing answers does end, because `connect_timeout` (60 s by default,
`session.py:241-246`) stays set on the socket and so applies to all reads:
`ReadFails` of `Fetch` after a reset, and `ReadTimesOut` of `Handshake`, which has
its own fairness. With `connect_timeout` 0 neither `QueryEnds` nor `HandshakeEnds`
is claimed. Whether the application makes another call is never assumed.

`messages` alone turns the check for deadlock off: an exchange is over when
everything has been got or an exception was raised. Elsewhere the module has an
action for where a behaviour may stop (the bound on calls is used up, the
handshake has failed).

## 4. Proofs

`Session_proofs` (any number of calls, sizes, interrupts and faults):

* `SessionTypes`: `TypeOK` with `Position`, which ties `pc` to the buffers;
* `SessionWire`: `WireInv`. The segments the server has of the request it is
  receiving, those in flight and those the client will still send always form
  chains in which each segment follows its predecessor or begins a request.
  `RequestIntact` alone is not inductive: it speaks only of what has arrived.
  `WireInv` adds what is in flight (`WireChain`), what `send_pcks` holds
  (`SentChain`, needed for RESEND) and where the wire ends relative to
  `offset` (`WireEnd`, needed for `WriteSegment`);
* `RequestsIntact`: the server never executes a request put together wrongly;
* `ResetsExpected`: `ResetExpected`, by `ResetInv`. The property speaks of the
  markers in flight to the server; the invariant adds (`MarkersExpected`) that the
  server's own marker is the last packet on its way to the client, is there only
  while the server is interrupted, and excludes one to the server; and that a
  reset marker in `send_pcks`, which a RESEND would repeat, excludes a RESEND on its
  way and a request being written.

The second half of the module is about the way back, for any number of calls, bytes,
messages, resends, timeouts and losses. Its premise `StaysInStep` is that the
connection stays in step: interrupts fall between messages (`MidMessageBreak` is
FALSE), values can be decoded (`DecodeFailure` is FALSE), one interrupt per response
(`MaxRounds` <= 1), with at most as many break markers as `_process_marker` accepts
(`MaxBreaks` <= `TrialLimit`). The constants of the run `session` satisfy it.
It is needed: the runs `session_splice` and `session_leftover` drop one part each
and violate `FieldIntact` and `Paired`, and for the other two see the bounds in
section 3. Under it:

* `ResponsesPaired` and `ResponsesInSequence`: `Paired` and `InSequence`;
* `FieldsIntact`: `FieldIntact`, the property of `session_splice`, which finding 1
  violates when an interrupt may fall inside a message: the first byte of another
  round in a field would be the end of a message (`FieldOfOneRound`, by
  `LeastElement`);
* `SessionImplementsCalls`: `Spec => Calls!Spec`, the safety part of the
  refinement that the run `session` checks with its fairness. As the histories of
  executions are the same in both, it says that no request is executed twice. The
  proof needs that a segment of an earlier call is never the next the server takes
  once it has executed a later one, which `RequestOrder` and `SentOrder` say.

`Paired` is far from inductive: it says nothing of what is on its way. `InStepInv`
is `TypeOK`, `WireInv`, `ResetInv` and six parts about the stream. `ServerPosition`:
the server stops between messages. `RequestOrder`, `SentOrder`: a request not
executed yet is of the call that waits or an earlier one that gave up. `ClientView`:
what the client has (`got`, `ret`, `inBuffer`) is one `Stretch` of its response, and
`read()` is where the stretch says. `ToClient`: the packets on their way are data,
then breaks, then a reset. `Lockstep`: either the server has not executed the
waiting call yet and nothing is on its way, or `Flow` holds: the client's bytes, the
packets on their way and what the server sends next follow one another without a
gap, and break markers do not exceed the trials. A call returns only when its last
message was a summary, which is then the last byte of all (`SummaryIsLast`): this is
why the next call begins with nothing left over. `InStepInv` was checked by TLC on
two instances (523000 and 614000 states, with read timeouts) before it was proved.

`Connect_proofs` (any addresses, server lists, redirections and bounds): the
invariant `Inv` is `TypeOK` with the four properties themselves and
`Stages` (what is so at each `pc`) and `TriedInOrder` (`tried` is the prefix of
the list up to the active server), which makes `ExhaustedMeansTried` inductive:
`NoSocketLeak`, `ConnectDescribesPeer`, `FailoverTriesAll`, `CloseReleases`.

The same module about `ConfiguredConnect` (any connection strings and redirects):
`ConfiguredImplementsConnect` maps every step to one of `Connect` or to a stutter,
so that the theorems above hold with a configuration as well.
`AsksForWanted` proves `AsksForDatabase` by `ConfigInv`: the servers of `Connect`
are those of the configuration (which nothing but a redirect replaces), the
names it has are the ones wanted or an earlier SID (`Wanting`), a literal
descriptor lasts until a redirect (`Literal`), and what was sent came of the
configuration as it is now (`SentNow`).

`Handshake_proofs` (any servers, any number of renegotiations): `HandshakeTypes`;
`SidesTakeTurns` and `StepsReadTheirOwn` by `Dialogue`, which says at each `pc` what
is owed to whom (`Owing`) and what may be in the buffer, on the wire and in the
server's hands (`Turns`: a request, or a response or its rest, or an interrupt by
message 28 and the response after it), or that the client has stalled after a
timeout; `OpenedAfterLogon` by `Delivered` (every message on its way is written in
the agreed format, and the end of a logon that went well follows the server's
consent); `FormatsStayAgreed` by `FormatsKept` (the client has no capability its
server lacks, and all of them where messages are read); `AcceptingStaysPlain`.

`DbApi_proofs` (any number of cursors, any results and statements):
`DeliversOwnRows` is not
inductive, because a fetch reads the rows of the cursor and the property speaks of
those of the result. `CursorInv` adds `RowsAreResult` (the cursor has the rows of
its result, or none after `close`, and its index is within them) and `Shape`;
`CursorsDeliver` then needs one lemma for fetches, which joins two adjacent
stretches of the result, and one for executes. `RequestsAreOwn` proves
`SendsOwnStatement`, which is inductive. `ChangesAreDurable` proves
`ReturnedMeansDurable`, which excepts CALL and what stands behind a misread comment,
as the code does (section 5). `DbApiTypes` proves `TypeOK`; `rowcount` after
`executemany` is a recursive sum, for which see induction below.

`SqlText_proofs` (texts of any length): `SqlTextTypes`; `SplitsAlways` proves
`SplitsAtTheEnd` and `RefinesAlways` proves `RefinesToCode`. The invariant is `Agrees`
(on a text that is not misleading the four flags say what `Mode` says of the position
the loop is at, and no delimiter is cut in two), `HeadInv` (no statement ended
before that position) and `OutInv` (what was put out is what `RefinesToCode` lists, before it). Each
of the four clauses of `Misleading` is used for exactly one case of `PairsAgree`, so
that these are the only texts on which the flags lose track.

`Messages_proofs` (numbers of any digits, number of digits and weight). The bytes of
a value depend on what it stands for alone, `DigitAt`, and not on how it is written:
`EncodedBytes` gives every byte from the weight of the first pair (`Top`, which is
odd), the number of pairs down to the last digit that is not zero (`Pairs`) and the
pairs (`PairAt`). It rests on `Weight` (where a value begins and ends, by
`LeastElement`) and `ExponentOfPairs` (`int(x / 2)`, which rounds towards zero, gives
the right exponent of 100 for both signs). From it follow

* `EqualEncodings` (equal values have equal bytes) and with it `EqualNumbersSent`:
  `CanonicalBytes`;
* `OrderedEncodings`, by `FirstDifference`: of two magnitudes the smaller has the
  smaller exponent or the smaller pair where they first differ, and a marker is
  greater than every byte of a pair; with it `NumbersSentInOrder`: `OrderPreserved`;
* `NumbersRoundTrip`: `SameNumber(DecodedNumber(Encoded(v)), v)`, for `v` in range.
  `NumeralBack` gives the digits that `_decode_raw` finds: `MantissaBack` says that no
  byte of a pair is taken for a marker, which a negative value of `MarkerDigits`
  digits or more does not have. `Int64Alike`: whether they are a whole number of 64
  bits depends on what they stand for. `FloatsClose`: `float()` finds a power of two
  such that the quotient has all bits (`Doubling`, and `LeastElement`), and the
  multiple of it that is nearest is off by at most half of it; `AddHalf` by at most 1,
  where that is a part in 2^52 or less. `NoInfinity`: no value has the bytes of one;
* `NumbersArrive`: `RoundTrips`, for exchanges of one number, through `PutClr` and `GetClr`.
  Its premise, `ShortNumbers`, is that a value has at most 499 digits, so that its
  bytes fit into a CLR without chunks; a NUMBER has 40 digits at most.

`WireCodec_proofs` (numbers of every width, strings of any length, any bytes behind
them): what `get_int` reads of what `put_int` and `put_uint` wrote in either order and
form (`IntegersBack`); `get_clr` of `put_clr`, in chunks of either size and any number
(`StringsBack`); `get_dlc` (`LengthedStringsBack`); and keys with values, also of a
stream in which tokens stand between the bytes (`PairsBack`). The loops of the codec
are recursive functions, of which `Shifts`, `Sums`, `Steps`, `Flats`, `FieldSteps` and
`PairSteps` are the finite tables: one exists, and all agree.

`Messages_proofs` lifts that to messages. A field is `Faithful` if it is read as it was
put whatever follows, or raises exactly where `GetRaises` says. `Ordered` says that a
message of faithful fields has on the wire the bytes of those put and not got, in
order; every step keeps it. `IntegersFaithful`, `ClrFaithful`, `KeyValFaithful` and
`PlainValuesFaithful` show that `PlainFields` are faithful: integers, byte strings, keys
with values, and every value of a bind or column that is not a text (NULL, absent
columns, RAW, booleans, NUMBERs, and dates and timestamps with the arithmetic of their
bytes). From it `PlainFieldsRoundTrip`, `PlainFieldsInStep` and `PlainFieldsTypeOK`: the
three invariants of the run, for any number of such fields in any order. Their premise
`ByteLimit` says that the exponent's limit is at most the 64 of the code.

`OneLogonVerified` and `OneLogonKept` do it for an exchange of one logon, for every
name, password, verifier and dictionary (`LogonField` says that the challenge holds
the server's session key, closed with the key of the password it knows). `LogonBack`:
the server reads the name and the pairs that `WriteLogon` wrote and nothing behind
them; `SamePasswordAccepted`: it accepts exactly if the passwords are the same, because
a box opens with its own key only.

Induction. The library's induction theorems take an operator, which no prover here
can instantiate. `LeastElement` gets the same from `WFMin`, which takes sets: a set
of natural numbers that is not empty has a least element; and `Induction` is its
form `0 \in S`, `n \in S => n + 1 \in S`, so `Nat \subseteq S`. With it `SumExists`
and `RecursionExists` show that the recursive functions of `TotalOf` and `Mode`
exist, without which a `CHOOSE` says nothing, and that they follow their definitions
(`ModeSteps`).

`Fetch_proofs` (any table, sizes, cursors and resets): `InStep` speaks of moments
when nothing is on its way, and a row is right only if the bit vectors before it
were. `FetchInv` says what holds in between. `Ahead`: the messages on their way lead,
one after the other (`Trace`), from the client's view, which columns are marked and
how many rows it has, to the server's, and each row among them has the values the
view needs (`Fits`); `TraceTail` and `TraceAppend` say what taking and sending a
message does to a trace. `Ends`: a summary or a pause is the last message and the
server waits; `Asks`: a request meets a server that waits for it, and names its
cursor; `Places`: where the client's thread is and what it knows there; `Counts`: how
many rows there are after how many batches. `FetchTypes`, `ClientInStep` and
`CursorsKnown` follow from it. `StreamImplemented`, the refinement of `ResultStream`,
has a premise, `MaxBatches >= Len(Table)`: `fetch_all` gives up silently after
1000000 batches (`command.py:675`), each of which has at least one row.

The proofs assume what the ASSUMEs of the modules say of the constants, which TLC
evaluates in the runs, among them `WidthAssumption`, `ChunkAssumption` and
`MantissaAssumption`; and these premises, which the theorems name: `StaysInStep`,
`MaxBatches >= Len(Table)`, `ShortNumbers`, `ByteLimit`, and of a message `PlainFields` or
`OneLogon`.

Model-checked only: liveness (`EveryCallEnds`, `QueryEnds`, `OpenEnds`,
`HandshakeEnds`) and the fairness in the refinement of `CallSpec`, because liveness
under fairness and ENABLED are out of the prover's reach; and of `Messages` the fields
that are neither plain nor a logon: texts, summaries, column definitions, commands,
replies, packets, and the messages of the negotiations.

## 5. Findings

1. **A field spliced from two responses** (`session.py:221`, run
   `session_splice`). `read` holds the first bytes of a field when a marker
   arrives; `_process_marker` replaces `in_buffer`, and the field is completed
   from the new response. If the value is a length or a code, decoding goes on
   out of step.
2. **The rest of a response read by the next call** (`command.py:529`, run
   `session_leftover`). A value that cannot be decoded (`type_conversion.py:189`,
   for instance a DATE before the common era) raises out of `read_response`;
   packets already on the socket are then the next call's response. If that
   remainder holds a RESEND, a statement is executed twice.
3. **Dashes inside quotes** (`command.py:148`, run `sql_quotes`). `--` inside a
   literal starts a comment, so later quotes are inverted.
4. **Algorithms offered and not implemented** (`advanced_nego.py:276`, run
   `handshake_services`). With a server that requests encryption without
   requiring it, which the README counts among those that work, the server
   encrypts what the client reads in plain.

The models show more that no run is devoted to; a property that would be refused
is not stated, or is stated with the exception named:

* `fetch_all` stops after 1000000 batches and the result counts as complete
  (`command.py:675`); `fetch` has fewer batches than its guard;
* numbers from 10^126 on and below 10^-130 wrap: the exponent byte is cut and
  another number is encoded without an error (`converters/number.py:205`);
  `RoundTrips` speaks of `InRange`;
* without a user nothing is written and a response is awaited, which only the
  timeout ends (`connection.py:234`); `TakesTurns` speaks of `logon`;
* when message 9 ends a call, `has_error` asks `_EmptySummary` for a `ret_code` it
  does not have (`connection.py:293`); `ReadCallStatus` and `ReadStatus` raise;
* what ends the response with the version is left unread (`db_version.py:27`);
  when it is in a packet of its own the first call of the application takes it
  for its own end, the exception that `ReadsOwnResponse` names;
* a timeout of `get_db_version` is dropped (`connection.py:201`): the connection
  is Opened, and every read on it fails from then on;
* `Cursor.execute` of anything but a query raises `NotImplementedError`, with or
  without arguments (`__init__.py:55`, `command.py:404`): `Binds`;
* `auto_commit` is always on (`connection.py:90`, `command.py:273`), so that
  `rollback` undoes nothing: `ReturnedMeansDurable` is its other side;
* a statement behind a comment that `refine_sql_text` misreads (`-- /* note`, a line
  feed, `INSERT ...`; or `/* /*/ INSERT ...`) leaves nothing of its text, is classed as
  OTHERS (`command.py:76-80`, 92-99, 177-188) and is not committed: its change is lost
  when the connection is closed. `ReturnedMeansDurable` leaves it out by name
  (`lead = "misread"`);
* `refine_sql_text` drops the line feed that ends a line comment (`command.py:97-99`),
  although its docstring says that line feeds are preserved (60-62): the words on
  both sides of such a comment become one, which `has_return_clause` may miss (the
  type of a statement is told from how its text begins). `RefinesToCode` excepts it;
* `decode_number` returns floats that differ from the number: 0.4503599627370497 comes
  back as 0.4503599627370498, because `x + 0.5` is rounded to an even number above
  2^52 (`number.py:44-48`, 143-155), where the comment says that the value is rounded
  to `abs(exp)` decimal places. `SameNumber` allows a part in 2^52;
* CALL is taken for a query (`__init__.py:116-119`) and is neither DML nor PL/SQL
  (`command.py:177-188`): what the procedure changed is not committed, and lost
  when the connection is closed. `ReturnedMeansDurable` leaves CALL out;
* `_is_query` compares six characters, so that EXPLAIN never matches, and looks at
  the text before comments are removed: a query behind a comment or a
  parenthesis is sent by `exec` and raises;
* `README.md:145-148` says that `fetch_more` is a stub and only the first batch is
  returned, which `command.py` no longer does;
* message 8 has three forms: `read_response` takes a query id from version 4 on,
  `process_ttc_response` an array from version 7 on, `do_auth` a dictionary alone
  (`ReadResults`, `ReadParameters`, `ReadProperties`). A server that writes one form
  to all of them is out of step with two;
* `put_int` drops the low bytes of a number wider than its compressed field, as a
  fetch does for a cursor id above 65535; `put_uint` writes all of them under a
  size that is too small, and what follows is out of step (`Fitting`);
* zone offsets west of Greenwich whose minutes are not 0 or 30 decode to another
  offset, and a moment in UTC comes back without a zone (`Kept`, `KeptMoment`);
* years before 1 raise; VARCHAR (9), CHARZ (97) and VARRAW (15) can be bound and not
  read; BINARY_FLOAT and BINARY_DOUBLE are decoded as plain IEEE bits, which is not
  how the server writes them;
* a server without wide types (`caps[27]` = 0) makes the table of types raise: it
  has types above 255 (`Writable`);
* `data_set.py:60-61` binds the names of the INTERVAL types to 183 and 182 where the
  comments say 190 and 189 (`ScaleTypes`, `FixedLengths`);
* a logon declares the length of the user in characters and sends UTF-8 bytes
  (`auth_object.py:296-303`); a 12c verifier without the custom hash raises
  (`Derivable`);
* an ACCEPT packet whose data length leaves out the session id is refused with
  "unknown reason", and the data of a redirect keeps its NUL (`Packets`);
* a SID named by the connection string outlives a redirect that names a service,
  and is asked for at the new listener: the exception of `AsksForDatabase`;
* SSL changes the protocol in the descriptor and nothing else: the socket stays
  plain; a character set that is not known is taken for AL32UTF8.

## 6. Not modelled

* sending part of a segment (a timeout inside `sendall`): `Session` sends a segment
  in one step, and a byte-wise wire multiplies its states beyond what can be
  checked;
* dialling a UNIX socket: no address is dialled, so that nothing of `Connect`
  applies; with `UNIX SOCKET` every server of the list is dialled at one path;
* `session_data_unit` of 64 or less, for which `write` would not end;
* the primitives of cryptography, which are symbols in `Logon`;
* the regular expressions of `configurations.py`: `Config` begins with what they
  find;
* binds: `_write_par` raises `NotImplementedError`; `_write_define` and `read_data`,
  which nothing calls; `executemany` of CALL; `description`;
* `has_return_clause`, which is a free boolean in `QueryMessages` (an INSERT INTO
  with a column named RETURN... makes it true);
* in `Handshake`: a server that changes its capabilities in a renegotiation, or sends
  message 9 in front of a refusal;
* in `Fetch`: a server that sends something behind message 19 before it is asked;
* in `Messages` the server derives its keys and the additions of a version with the
  driver's own operators (`Accepts`, `TakeCommand`): what both sides had wrong alike
  would not show;
* in `Connect`, a wrapper whose `close` raised has no closed flag, and
  `ClosedMeansReleased` says nothing of it: logoff that raises leaves the state Closed
  and the socket open (`connection.py:337`);
* in `OracleNumber`: the reading of Python's values (`repr` of a float, `Decimal`);
  of a decoded float the multiplication with the power of ten that ends it, with its
  rounding, and the overflow of digits no NUMBER of the server has (309 and more);
  `OrderPreserved` leaves out negative values of 21 digits or more, which lose the
  marker in the code (`number.py:198`) and with it their place in the order;
* in `Values`: the tables of the character sets, which are Python's; a text is
  characters of one, two and three bytes in UTF-8;
* in `DbApi`: a commit that the server refuses;
* in `Fetch`, a fetch size above `MaxRowsPerFetch` only changes the batch size;
* records and tables of constants (`types_const.py`, `oracle_type.py`,
  `data_set.py`, `session_ctx.py`), which decide nothing by themselves.

## 7. What is left

1. A variant of `Session` in which `sendall` may send part of a segment, with
   messages of one byte to keep it small.
2. Proofs about the other fields of `Messages`: texts (the codecs of character sets),
   summaries and replies under their versions, and the packets, each by a lemma that
   says that it is `Faithful`.
3. The composition of `Session` with `Fetch`, so that a value that cannot be decoded
   in one batch is followed into the next.
4. In `Messages`, a server with tables and derivations of its own.
