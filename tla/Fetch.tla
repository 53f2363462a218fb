------------------------------- MODULE Fetch -------------------------------
(***************************************************************************)
(* One query and its fetches: Command.query, read_response, fetch_more and *)
(* fetch_all of src/pyora/command.py, against a server cursor (external).  *)
(*                                                                         *)
(* A row does not repeat the columns that did not change since the row     *)
(* before it, also across batches: a bit vector, which holds until another *)
(* one comes, says which columns are sent, and the client keeps the last   *)
(* value of each.  The layer below, Session, delivers each message once    *)
(* and in order, or raises.                                                *)
(***************************************************************************)
EXTENDS Naturals, Sequences

CONSTANTS
  Column,            \* the columns of the result
  Value,             \* their values
  None,              \* NULL, Python's None
  Table,             \* the rows of the result
  CursorId,          \* the ids the server may give the cursor
  PrefetchRows,      \* prefetch_rows of the connection string
  DefaultPrefetch,   \* its default, 25
  RowSize,           \* greatest wire length of a row
  BatchSize,         \* wire length a batch is meant to fit in, 0x20000
  MaxRowsPerFetch,   \* 0xFFFF
  MaxBatches,        \* the guard of fetch_all, 1000000
  MaxPauses,         \* messages 19 of a behaviour
  Aftermaths         \* what may follow an ErrConnReset: see ConnReset

ASSUME TableAssumption ==
  /\ None \in Value
  /\ Table \in Seq([Column -> Value])

ASSUME SizesAssumption ==
  /\ {PrefetchRows, DefaultPrefetch, RowSize, BatchSize, MaxRowsPerFetch}
       \subseteq Nat \ {0}
  /\ {MaxBatches, MaxPauses} \subseteq Nat

ASSUME CursorsAssumption == CursorId \subseteq Nat \ {0} /\ CursorId # {}

ASSUME AftermathsAssumption ==
  Aftermaths \subseteq {"closed", "rest", "ok", "error"}

VARIABLES
  \* the client: Command
  pc,            \* where its thread is: see Control
  cursorId,      \* cursor_id
  fetchSize,     \* _no_of_rows_to_fetch
  hasMore,       \* _has_more_rows
  marked,        \* columns with get_data_from_server
  prim,          \* prim_value of each column
  rows,          \* _rows
  before,        \* length of _rows when the running fetch_more began
  guard,         \* guard of fetch_all
  \* the connection
  request,       \* the request on its way, or NoRequest
  response,      \* messages on their way, oldest first
  \* the server
  phase,         \* "idle", "answering" or "paused"
  cursor,        \* id of the cursor, 0 before there is one
  pos,           \* rows it has sent
  quota,         \* rows it may still send in this response
  batch,         \* rows sent in this response
  vector,        \* columns of the bit vector in force
  pauses         \* how much of the bound is used up

client == <<pc, cursorId, fetchSize, hasMore, marked, prim, rows, before, guard>>
server == <<phase, cursor, pos, quota, batch, vector, pauses>>
vars == <<client, request, response, server>>

\* idle: query not yet called; first, batch, again: in read_response, of the
\* query, of fetch_more, and of fetch_more after a reset; drain: in
\* Connection.read after a reset; loop: in fetch_all; done: query returns.
Reading == {"first", "batch", "again"}
Control == Reading \cup {"idle", "drain", "loop", "done", "raised"}

NoRequest == [op |-> "none"]
Query(count) == [op |-> "query", count |-> count]
FetchRequest(id, count) == [op |-> "fetch", cursor |-> id, count |-> count]
Continue == [op |-> "continue"]

\* Messages, by the way read_response handles them.
Define == [code |-> "define"]                                    \* 16
Header(sent) == [code |-> "header", sent |-> sent]               \* 6, 11
Vector(sent) == [code |-> "vector", sent |-> sent]               \* 21
Row(values) == [code |-> "row", values |-> values]               \* 7
Pause == [code |-> "pause"]                                      \* 19
Summary(ret, id) == [code |-> "summary", ret |-> ret, cursor |-> id]   \* 4

\* What a column holds when read_response takes other bytes for its value.
Garbage == "garbage"

ASSUME GarbageAssumption == Garbage \notin Value

Lesser(a, b) == IF a < b THEN a ELSE b

Init ==
  /\ pc = "idle" /\ cursorId = 0 /\ fetchSize = PrefetchRows /\ hasMore = FALSE
  /\ marked = Column /\ prim = [c \in Column |-> None]
  /\ rows = <<>> /\ before = 0 /\ guard = 0
  /\ request = NoRequest /\ response = <<>>
  /\ phase = "idle" /\ cursor = 0 /\ pos = 0 /\ quota = 0 /\ batch = 0
  /\ vector = Column /\ pauses = 0

-----------------------------------------------------------------------------
(* The client.                                                             *)

\* Command.write: reset_buffer, then the request goes out.
Write(r) == request' = r /\ response' = <<>>

\* query: execute, and ask for the first rows.
StartQuery ==
  /\ pc = "idle"
  /\ hasMore' = TRUE
  /\ Write(Query(fetchSize))
  /\ pc' = "first"
  /\ UNCHANGED <<cursorId, fetchSize, marked, prim, rows, before, guard, server>>

\* _auto_fetch_size: the default is replaced by what fits in a batch.
AutoFetchSize ==
  IF fetchSize # DefaultPrefetch THEN fetchSize
  ELSE Lesser(BatchSize \div RowSize + 1, MaxRowsPerFetch)

\* fetch_all, once more round its loop: fetch_more ...
FetchMore ==
  /\ pc = "loop" /\ hasMore /\ guard < MaxBatches
  /\ guard' = guard + 1
  /\ fetchSize' = AutoFetchSize
  /\ before' = Len(rows)
  /\ Write(FetchRequest(cursorId, Lesser(fetchSize', MaxRowsPerFetch)))
  /\ pc' = "batch"
  /\ UNCHANGED <<cursorId, hasMore, marked, prim, rows, server>>

\* ... or not, and query returns.
FetchedAll ==
  /\ pc = "loop"
  /\ ~hasMore \/ guard = MaxBatches
  /\ guard' = IF hasMore THEN guard + 1 ELSE guard
  /\ pc' = "done"
  /\ UNCHANGED <<cursorId, fetchSize, hasMore, marked, prim, rows, before,
                 request, response, server>>

\* read_response takes the next message.
Take(code) ==
  /\ pc \in Reading
  /\ response # <<>> /\ Head(response).code = code
  /\ response' = Tail(response)

\* _read_column_definitions: new columns, without flag or value.
ReadDefine ==
  /\ Take("define")
  /\ marked' = Column /\ prim' = [c \in Column |-> None]
  /\ UNCHANGED <<pc, cursorId, fetchSize, hasMore, rows, before, guard, request,
                 server>>

\* Mutant: the bit vector of the header is read over.
ReadVector_HeaderIgnored ==
  /\ Take("header") \/ Take("vector")
  /\ marked' = IF Head(response).code = "header" THEN marked
               ELSE Head(response).sent
  /\ UNCHANGED <<pc, cursorId, fetchSize, hasMore, prim, rows, before, guard,
                 request, server>>

\* _result_set_load, and message 21: _apply_bit_vector.
ReadVector ==
  /\ Take("header") \/ Take("vector")
  /\ marked' = Head(response).sent
  /\ UNCHANGED <<pc, cursorId, fetchSize, hasMore, prim, rows, before, guard,
                 request, server>>

\* What _read_one_row reads for a column off the message at the head.
Read(c) ==
  LET values == Head(response).values
  IN IF c \in DOMAIN values THEN values[c] ELSE Garbage

\* Mutants: every column is read; a column that is not sent is NULL.
ReadRow_ReadsAll ==
  /\ Take("row")
  /\ prim' = [c \in Column |-> Read(c)]
  /\ rows' = Append(rows, prim')
  /\ UNCHANGED <<pc, cursorId, fetchSize, hasMore, marked, before, guard,
                 request, server>>

ReadRow_UnsentIsNull ==
  /\ Take("row")
  /\ prim' = [c \in Column |-> IF c \in marked THEN Read(c) ELSE None]
  /\ rows' = Append(rows, prim')
  /\ UNCHANGED <<pc, cursorId, fetchSize, hasMore, marked, before, guard,
                 request, server>>

\* _read_one_row: a marked column is read, another one keeps its value.
ReadRow ==
  /\ Take("row")
  /\ prim' = [c \in Column |-> IF c \in marked THEN Read(c) ELSE prim[c]]
  /\ rows' = Append(rows, prim')
  /\ UNCHANGED <<pc, cursorId, fetchSize, hasMore, marked, before, guard,
                 request, server>>

\* Message 19: reset_buffer, answer with it.
ReadPause ==
  /\ pc \in Reading
  /\ response # <<>> /\ Head(response) = Pause
  /\ Write(Continue)
  /\ UNCHANGED <<client, server>>

\* Where a response that ended without an error leads.
AfterResponse ==
  IF pc = "first" \/ Len(rows) > before THEN "loop" ELSE "done"

\* Mutant: the cursor id is taken from the first summary alone.
ReadSummary_KeepsCursor ==
  /\ Take("summary")
  /\ cursorId' = IF pc = "first" THEN Head(response).cursor ELSE cursorId
  /\ hasMore' = (hasMore /\ Head(response).ret # "end")
  /\ pc' = IF Head(response).ret = "error" THEN "raised" ELSE AfterResponse
  /\ UNCHANGED <<fetchSize, marked, prim, rows, before, guard, request, server>>

\* Message 4, the summary: cursor id, end of the data (1403), error.
ReadSummary ==
  /\ Take("summary")
  /\ cursorId' = Head(response).cursor
  /\ hasMore' = (hasMore /\ Head(response).ret # "end")
  /\ pc' = IF Head(response).ret = "error" THEN "raised" ELSE AfterResponse
  /\ UNCHANGED <<fetchSize, marked, prim, rows, before, guard, request, server>>

\* ErrConnReset out of read_packet: fetch_more alone catches it.  After it,
\* Session leaves a closed connection, or the rest of this response, or what
\* the server sends on a reset: a summary, without an error or with one.
ConnReset ==
  /\ pc \in Reading
  /\ \E aftermath \in Aftermaths :
       /\ response' = CASE aftermath \in {"ok", "error"} ->
                             <<Summary(aftermath, cursor)>>
                        [] aftermath = "closed" -> <<>>
                        [] OTHER -> response
       /\ IF aftermath = "rest" THEN UNCHANGED <<phase, request>>
          ELSE phase' = "idle" /\ request' = NoRequest
  /\ pc' = IF pc = "batch" THEN "drain" ELSE "raised"
  /\ UNCHANGED <<cursorId, fetchSize, hasMore, marked, prim, rows, before, guard,
                 cursor, pos, quota, batch, vector, pauses>>

\* Connection.read, on a summary: process_ttc_response raises its error;
\* without one fetch_more calls read_response again.
DrainSummary ==
  /\ pc = "drain" /\ response # <<>> /\ Head(response).code = "summary"
  /\ response' = Tail(response)
  /\ IF Head(response).ret = "error"
     THEN pc' = "raised" /\ UNCHANGED cursorId
     ELSE pc' = "again" /\ cursorId' = Head(response).cursor
  /\ UNCHANGED <<fetchSize, hasMore, marked, prim, rows, before, guard, request,
                 server>>

\* ... on another message: "received code ... during response reading".
DrainFails ==
  /\ pc = "drain" /\ response # <<>> /\ Head(response).code # "summary"
  /\ pc' = "raised"
  /\ UNCHANGED <<cursorId, fetchSize, hasMore, marked, prim, rows, before, guard,
                 request, response, server>>

\* Mutant: the timeout is for connecting alone.
ReadFails_NoTimeout ==
  /\ pc = "drain"
  /\ response = <<>> /\ request = NoRequest /\ phase = "idle"
  /\ pc' = "raised"
  /\ UNCHANGED <<cursorId, fetchSize, hasMore, marked, prim, rows, before, guard,
                 request, response, server>>

\* A read raises: closed connection, or connect_timeout (60 s by default) has
\* passed and no message can come any more.
ReadFails ==
  /\ pc \in Reading \cup {"drain"}
  /\ response = <<>> /\ request = NoRequest /\ phase = "idle"
  /\ pc' = "raised"
  /\ UNCHANGED <<cursorId, fetchSize, hasMore, marked, prim, rows, before, guard,
                 request, response, server>>

-----------------------------------------------------------------------------
(* The server (external).                                                  *)

\* A request for this operation has arrived.
Received(op) == request.op = op

Answer(messages) == response' = response \o messages

\* Columns the next row may leave out: those that did not change.
Unchanged ==
  IF pos = 0 THEN {} ELSE {c \in Column : Table[pos + 1][c] = Table[pos][c]}

\* A bit vector may come with the header, if there is a row it can be for.
Vectors ==
  IF pos < Len(Table) THEN {Column \ u : u \in SUBSET Unchanged} ELSE {Column}

\* It executes the query, describes the columns and starts to answer.
Executes ==
  /\ Received("query") /\ phase = "idle"
  /\ request' = NoRequest
  /\ cursor' \in CursorId
  /\ phase' = "answering" /\ quota' = request.count /\ batch' = 0
  /\ vector' = Column
  /\ Answer(<<Define, Header(Column)>>)
  /\ UNCHANGED <<client, pos, pauses>>

\* It knows the cursor and starts to answer a fetch.
Fetches ==
  /\ Received("fetch") /\ phase = "idle" /\ request.cursor = cursor
  /\ request' = NoRequest
  /\ phase' = "answering" /\ quota' = request.count /\ batch' = 0
  /\ vector' \in Vectors
  /\ Answer(<<Header(vector')>>)
  /\ UNCHANGED <<client, cursor, pos, pauses>>

\* The next row; a bit vector first, if another one is in force.
SendsRow ==
  /\ phase = "answering" /\ quota > 0 /\ pos < Len(Table)
  /\ vector' \in Vectors
  /\ Answer((IF vector' = vector THEN <<>> ELSE <<Vector(vector')>>)
              \o <<Row([c \in vector' |-> Table[pos + 1][c]])>>)
  /\ pos' = pos + 1 /\ quota' = quota - 1 /\ batch' = batch + 1
  /\ UNCHANGED <<client, request, phase, cursor, pauses>>

\* It has the client answer before it goes on.
Pauses ==
  /\ phase = "answering" /\ pauses < MaxPauses
  /\ phase' = "paused" /\ pauses' = pauses + 1
  /\ Answer(<<Pause>>)
  /\ UNCHANGED <<client, request, cursor, pos, quota, batch, vector>>

Resumes ==
  /\ Received("continue") /\ phase = "paused"
  /\ request' = NoRequest /\ phase' = "answering"
  /\ UNCHANGED <<client, response, cursor, pos, quota, batch, vector, pauses>>

\* The end of a response: 1403 if it ran out of rows; otherwise all it was
\* asked for or, as its buffers have it, less, but in a fetch at least one
\* row; or an error.  The cursor may have another id from here on.
Summarises ==
  /\ phase = "answering"
  /\ phase' = "idle"
  /\ cursor' \in CursorId
  /\ \E ret \in {"ok", "end", "error"} :
       /\ ret = "end" <=> pos = Len(Table) /\ quota > 0 /\ ret # "error"
       /\ ret = "ok" /\ guard > 0 => batch > 0
       /\ Answer(<<Summary(ret, cursor')>>)
  /\ UNCHANGED <<client, request, pos, quota, batch, vector, pauses>>

-----------------------------------------------------------------------------
ReadResponse ==
  \/ ReadDefine \/ ReadVector \/ ReadRow \/ ReadPause \/ ReadSummary

ClientStep ==
  \/ FetchMore \/ FetchedAll \/ ReadResponse
  \/ DrainSummary \/ DrainFails \/ ReadFails

ServerStep == Executes \/ Fetches \/ SendsRow \/ Resumes \/ Summarises

\* The query has returned or raised.
Finished == pc \in {"done", "raised"} /\ UNCHANGED vars

Next ==
  \/ StartQuery \/ ClientStep \/ ConnReset
  \/ ServerStep \/ Pauses
  \/ Finished

Spec == Init /\ [][Next]_vars

\* The interpreter runs the thread; the server works on what it was sent.
FairSpec == Spec /\ WF_vars(ClientStep) /\ WF_vars(ServerStep)
-----------------------------------------------------------------------------
(* Properties.                                                             *)

Message ==
  {Define, Pause} \cup {Header(s) : s \in SUBSET Column}
    \cup {Vector(s) : s \in SUBSET Column}
    \cup {Row(v) : v \in UNION {[s -> Value] : s \in SUBSET Column}}
    \cup [code : {"summary"}, ret : {"ok", "end", "error"},
          cursor : CursorId \cup {0}]

Request ==
  {NoRequest, Continue} \cup [op : {"query"}, count : Nat \ {0}]
    \cup [op : {"fetch"}, cursor : CursorId, count : 1 .. MaxRowsPerFetch]

\* The types of the variables.
TypeOK ==
  /\ pc \in Control
  /\ cursorId \in CursorId \cup {0}
  /\ fetchSize \in Nat \ {0} /\ hasMore \in BOOLEAN
  /\ marked \subseteq Column /\ prim \in [Column -> Value]
  /\ rows \in Seq([Column -> Value])
  /\ before \in 0 .. Len(rows) /\ guard \in 0 .. MaxBatches + 1
  /\ request \in Request /\ response \in Seq(Message)
  /\ phase \in {"idle", "answering", "paused"}
  /\ cursor \in CursorId \cup {0} /\ pos \in 0 .. Len(Table)
  /\ quota \in Nat /\ batch \in 0 .. pos
  /\ vector \subseteq Column /\ pauses \in 0 .. MaxPauses

\* Whenever the client has read all that was sent to it, it has the bit vector
\* the server uses, every row the server has sent, and for a column left out
\* of the next row the value the server means.  Otherwise a row further on,
\* perhaps in a later batch, would be read wrongly.
InStep ==
  pc \in {"first", "loop", "batch"} /\ response = <<>> =>
    /\ marked = vector
    /\ Len(rows) = pos
    /\ pos > 0 => prim = Table[pos]

\* A fetch names the cursor the way the server knows it since its latest
\* summary.
CursorKnown == request.op = "fetch" => request.cursor = cursor

\* The query ends, by returning or raising, also when a reset makes fetch_more
\* wait for a response that nobody will send.
QueryEnds == (pc # "idle") ~> (pc \in {"done", "raised"})

\* The rows are those of the result, in order and with their own values, and
\* all of them when query returns.
Stream == INSTANCE ResultStream WITH
  status <- CASE pc = "done" -> "complete"
              [] pc = "raised" -> "failed"
              [] OTHER -> "running"

ImplementsStream == Stream!Spec
=============================================================================
