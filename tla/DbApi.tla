-------------------------------- MODULE DbApi --------------------------------
(***************************************************************************)
(* The DB-API layer of src/pyora/__init__.py: Cursor and ConnectionWrapper *)
(* over Connection.query and exec (connection.py) and the writing half of  *)
(* Command (command.py).  Several cursors share a connection; what they    *)
(* execute may raise before it is sent or because the server says so.      *)
(*                                                                         *)
(* A query delivers all rows of its result (Fetch) or raises; the session  *)
(* carries one request and its response at a time (Session); close that    *)
(* cannot log off is in Connect.                                           *)
(***************************************************************************)
EXTENDS Integers, Sequences

CONSTANTS
  Cursor,          \* cursors the application opened
  Result,          \* results queries may have: sequences of rows
  Text,            \* statements the application makes, see Statement
  Size,            \* sizes fetchmany is called with
  MaxMany,         \* queries an executemany runs
  MaxChanges       \* statements that change data, of a behaviour

ASSUME ResultAssumption == \A r \in Result : r \in Seq(Nat)

ASSUME BoundsAssumption == Size \subseteq Nat /\ MaxMany \in Nat /\ MaxChanges \in Nat

VARIABLES
  cursor,        \* of each cursor: its rows (none is <<>>), index, rowcount
  session,       \* is Connection.session an object?
  closed,        \* ConnectionWrapper.closed
  outBuffer,     \* out_buffer: the statements put into it
  call,          \* the latest call: its statement, and was it sent?
  \* server and history
  received,      \* the statements in the latest request
  pending, durable,        \* changes not committed yet, and committed
  returned,      \* changes whose call returned, and their statements
  changes,       \* changes tried
  result,        \* of each cursor: rows of its latest successful execute
  delivered      \* of each cursor: the rows fetched since

data == <<pending, durable, returned, changes>>
cursors == <<cursor, result, delivered>>
link == <<session, outBuffer, call, received>>
vars == <<cursors, closed, link, data>>

\* Of the text of a statement: what is in front of its first word, and that
\* word.  Nothing but a query begins with a parenthesis.  A comment is misread
\* if refine_sql_text does not see where it ends, as in "-- /*" and a line feed
\* or in "/* /*/": it drops what follows (clauses two and four of SqlText's
\* Misleading).  Comments with a blank line behind them are left out: split_sql
\* cuts the text there, and the server gets no statement.
Queries == {"SELECT", "WITH"}
Changing == {"INSERT", "BEGIN", "CALL"}
Statement ==
  {s \in [lead : {"nothing", "comment", "misread", "parenthesis"},
          word : Queries \cup Changing \cup {"COMMIT", "ROLLBACK"}] :
     s.lead = "parenthesis" => s.word \in Queries}
ChangingStatement == {s \in Statement : s.word \in Changing}
Said(word) == [lead |-> "nothing", word |-> word]

ASSUME TextAssumption == Text \subseteq Statement

Init ==
  /\ cursor = [c \in Cursor |->
       [rows |-> <<>>, index |-> 0, rowcount |-> -1]]
  /\ session = TRUE /\ closed = FALSE /\ outBuffer = <<>>
  /\ call = [statement |-> Said("ROLLBACK"), sent |-> FALSE]
  /\ received = <<>>
  /\ pending = {} /\ durable = {} /\ returned = {}
  /\ changes = 0
  /\ result = [c \in Cursor |-> <<>>] /\ delivered = [c \in Cursor |-> <<>>]

-----------------------------------------------------------------------------
(* Command: prepare, bind, write.                                          *)

\* Mutant: without reset_buffer.
Write_KeepsOutBuffer(statement) ==
  /\ session
  /\ received' = Append(outBuffer, statement) /\ outBuffer' = <<>>
  /\ call' = [statement |-> statement, sent |-> TRUE]
  /\ UNCHANGED session

\* Command.write: reset_buffer, _basic_write, session.write.
Write(statement) ==
  /\ session
  /\ received' = <<statement>> /\ outBuffer' = <<>>
  /\ call' = [statement |-> statement, sent |-> TRUE]
  /\ UNCHANGED session

\* The same with something to bind: _write_par raises NotImplementedError, and
\* what has been put stays in out_buffer.  After close there is no session.
WriteRaises(statement, binds) ==
  /\ session => binds
  /\ outBuffer' = IF session THEN <<statement>> ELSE outBuffer
  /\ call' = [statement |-> statement, sent |-> FALSE]
  /\ UNCHANGED <<session, received>>

\* _is_query.  It compares six characters with EXPLAIN, and the text as it is.
IsQuery(statement) ==
  statement.lead = "nothing" /\ statement.word \in Queries \cup {"CALL"}

\* Does Cursor.execute bind something?  A query binds its arguments, anything
\* else the tuple of which the arguments are the one member: always.
Binds(statement, args) == ~IsQuery(statement) \/ args

\* Mutant: the text as it is, not what refine_sql_text makes of it.
StmtType_AsItIs(statement) ==
  CASE statement.lead \in {"comment", "misread"} -> "OTHERS"
    [] statement.word \in Queries -> "SELECT"
    [] statement.word = "INSERT" -> "DML"
    [] statement.word = "BEGIN" -> "PLSQL"
    [] OTHER -> "OTHERS"

\* parse, _detect_stmt_type: without comments and a parenthesis, and without the
\* word too if a comment is misread.
StmtType(statement) ==
  CASE statement.lead = "misread" -> "OTHERS"
    [] statement.word \in Queries -> "SELECT"
    [] statement.word = "INSERT" -> "DML"
    [] statement.word = "BEGIN" -> "PLSQL"
    [] OTHER -> "OTHERS"

\* _get_exe_option: 0x100 for auto_commit, which nothing sets to False.
AutoCommits(statement) == StmtType(statement) \in {"DML", "PLSQL"}

\* The server executes a statement that changes data (external).
Changes(statement) ==
  /\ changes < MaxChanges /\ changes' = changes + 1
  /\ IF AutoCommits(statement)
     THEN durable' = durable \cup pending \cup {changes'} /\ pending' = {}
     ELSE pending' = pending \cup {changes'} /\ UNCHANGED durable

\* The call that executed it returns.
Returns(statement) ==
  returned' = returned \cup {[change |-> changes', statement |-> statement]}

-----------------------------------------------------------------------------
(* Cursor.                                                                 *)

RowCount(rows) == IF rows = <<>> THEN -1 ELSE Len(rows)

\* Mutant: the index stays where it was.
Executed_KeepsIndex(c, rows, rowcount) ==
  /\ cursor' = [cursor EXCEPT ![c] = [rows |-> rows,
                  index |-> @.index, rowcount |-> rowcount]]
  /\ result' = [result EXCEPT ![c] = rows]
  /\ delivered' = [delivered EXCEPT ![c] = <<>>]

\* What execute of a query leaves in the cursor.
Executed(c, rows, rowcount) ==
  /\ cursor' = [cursor EXCEPT ![c] = [rows |-> rows,
                  index |-> 0, rowcount |-> rowcount]]
  /\ result' = [result EXCEPT ![c] = rows]
  /\ delivered' = [delivered EXCEPT ![c] = <<>>]

\* A statement that execute sends, without arguments: these words only.
Sends(words) ==
  \E statement \in Text :
    statement.word \in words /\ ~Binds(statement, FALSE) /\ Write(statement)

\* execute of a query.
ExecuteQuery(c) ==
  /\ Sends(Queries)
  /\ \E rows \in Result : Executed(c, rows, RowCount(rows))
  /\ UNCHANGED <<closed, data>>

\* execute of a query that the server answers with an error: the cursor keeps
\* what it had.
QueryFails ==
  /\ Sends(Queries \cup {"CALL"})
  /\ UNCHANGED <<cursors, closed, data>>

\* execute of CALL goes the way of a query: there are no rows, and the fetch
\* that follows ends it or raises.
ExecuteCall(c) ==
  /\ Sends({"CALL"})
  /\ Changes(Said("CALL"))
  /\ \/ Executed(c, <<>>, RowCount(<<>>)) /\ Returns(Said("CALL"))
     \/ UNCHANGED <<cursors, returned>>
  /\ UNCHANGED closed

\* execute of what cannot be written.
ExecuteRaises ==
  /\ \E statement \in Text, args \in BOOLEAN :
       WriteRaises(statement, Binds(statement, args))
  /\ UNCHANGED <<cursors, closed, data>>

\* executemany counts an execute that tells nothing as one row.
Counted(rows) == IF rows = <<>> THEN 1 ELSE Len(rows)

TotalOf(results) ==
  LET sum[n \in 0 .. Len(results)] ==
        IF n = 0 THEN 0 ELSE sum[n - 1] + Counted(results[n])
  IN  sum[Len(results)]

\* executemany of a query: the rows of the last one stay, with the number of
\* all rows, unless another one raises.
ExecuteMany(c) ==
  /\ Sends(Queries)
  /\ \E n \in 1 .. MaxMany : \E results \in [1 .. n -> Result] :
       \/ Executed(c, results[n], TotalOf(results))
       \/ Executed(c, results[n], RowCount(results[n]))
  /\ UNCHANGED <<closed, data>>

\* ... with no parameters at all.
ExecuteNone(c) ==
  /\ cursor' = [cursor EXCEPT ![c].rowcount = 0]
  /\ UNCHANGED <<result, delivered, closed, link, data>>

Lesser(a, b) == IF a <= b THEN a ELSE b

\* The rows there are still to fetch.
Left(c) ==
  IF cursor[c].index >= Len(cursor[c].rows) THEN 0
  ELSE Len(cursor[c].rows) - cursor[c].index

\* Mutant: the row that shows that there are enough is lost.
Take_LooksAhead(c, n) ==
  LET got == Lesser(n, Left(c)) IN
  /\ cursor' = [cursor EXCEPT ![c].index = @ + Lesser(n + 1, Left(c))]
  /\ delivered' = [delivered EXCEPT ![c] = @ \o
       SubSeq(cursor[c].rows, cursor[c].index + 1, cursor[c].index + got)]

\* fetchone, n times or until it returns None.
Take(c, n) ==
  LET got == Lesser(n, Left(c)) IN
  /\ cursor' = [cursor EXCEPT ![c].index = @ + got]
  /\ delivered' = [delivered EXCEPT ![c] = @ \o
       SubSeq(cursor[c].rows, cursor[c].index + 1, cursor[c].index + got)]

FetchOne(c) == Take(c, 1)
FetchMany(c) == \E n \in Size : Take(c, n)
FetchAll(c) == Take(c, Left(c))

Fetches(c) ==
  /\ FetchOne(c) \/ FetchMany(c) \/ FetchAll(c)
  /\ UNCHANGED <<closed, link, data, result>>

\* Cursor.close: the rows go, the index stays.
CloseCursor(c) ==
  /\ cursor' = [cursor EXCEPT ![c].rows = <<>>]
  /\ UNCHANGED <<result, delivered, closed, link, data>>

-----------------------------------------------------------------------------
(* Connection and ConnectionWrapper.                                       *)

\* Connection.exec, without arguments, of a statement that changes data.
Exec(statement) ==
  /\ Write(statement) /\ statement.word \in Changing
  /\ Changes(statement) /\ Returns(statement)
  /\ UNCHANGED <<cursors, closed>>

\* ... which the server answers with an error; or of a query, whose rows are
\* read and dropped.
ExecFails(statement) ==
  /\ Write(statement)
  /\ UNCHANGED <<cursors, closed, data>>

\* Connection.exec after close.
ExecRaises ==
  /\ \E statement \in Text \cup {Said("COMMIT"), Said("ROLLBACK")} :
       WriteRaises(statement, FALSE)
  /\ UNCHANGED <<cursors, closed, data>>

\* ConnectionWrapper.commit and rollback.
Commit ==
  /\ Write(Said("COMMIT"))
  /\ durable' = durable \cup pending /\ pending' = {}
  /\ UNCHANGED <<cursors, closed, returned, changes>>

Rollback ==
  /\ Write(Said("ROLLBACK"))
  /\ pending' = {}
  /\ UNCHANGED <<cursors, closed, durable, returned, changes>>

\* ConnectionWrapper.close.  What is pending is lost with the session.
Close ==
  /\ ~closed /\ closed' = TRUE
  /\ session' = FALSE /\ outBuffer' = <<>>
  /\ pending' = {}
  /\ UNCHANGED <<cursors, call, received, durable, returned, changes>>

Next ==
  \/ \E c \in Cursor :
       \/ ExecuteQuery(c) \/ ExecuteCall(c)
       \/ ExecuteMany(c) \/ ExecuteNone(c)
       \/ Fetches(c) \/ CloseCursor(c)
  \/ QueryFails \/ ExecuteRaises \/ ExecRaises
  \/ \E statement \in Text : Exec(statement) \/ ExecFails(statement)
  \/ Commit \/ Rollback \/ Close

Spec == Init /\ [][Next]_vars

-----------------------------------------------------------------------------
(* Properties.                                                             *)

\* The types of the variables; an index stays within the rows.
TypeOK ==
  /\ \A c \in Cursor :
       /\ cursor[c].rows \in Seq(Nat)
       /\ cursor[c].index \in 0 .. Len(result[c])
       /\ cursor[c].rowcount \in Nat \cup {-1}
       /\ result[c] \in Seq(Nat) /\ delivered[c] \in Seq(Nat)
  /\ session \in BOOLEAN /\ closed \in BOOLEAN
  /\ call \in [statement : Statement, sent : BOOLEAN]
  /\ received \in Seq(Statement) /\ outBuffer \in Seq(Statement)
  /\ pending \subseteq 1 .. changes /\ durable \subseteq 1 .. changes
  /\ returned \subseteq [change : 1 .. changes, statement : ChangingStatement]
  /\ changes \in 0 .. MaxChanges

\* Each cursor delivers the rows of its own latest query in order, none twice
\* and none left out, whatever the other cursors execute and however fetchone,
\* fetchmany and fetchall are mixed.
DeliversOwnRows ==
  \A c \in Cursor : delivered[c] = SubSeq(result[c], 1, cursor[c].index)

\* A request holds the statement of its call and nothing that an earlier call
\* had put before it raised.
SendsOwnStatement == call.sent => received = <<call.statement>>

\* A change that an INSERT or a block made is durable when its call has
\* returned, with comments in front of it too, whatever is rolled back or closed
\* next.  It is not if the driver did not recognise the statement: that of a
\* CALL, and one behind a comment that it misreads, are lost with the session
\* or at the next rollback.
ReturnedMeansDurable ==
  \A r \in returned :
    r.statement.word # "CALL" /\ r.statement.lead # "misread" => r.change \in durable
=============================================================================
