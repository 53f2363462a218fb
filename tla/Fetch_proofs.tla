---------------------------- MODULE Fetch_proofs ----------------------------
(***************************************************************************)
(* Proofs about Fetch, for any table, columns, cursors, sizes and resets:  *)
(* the client stays in step with the server, names the cursor it has, and  *)
(* delivers the rows of the result: Fetch implements ResultStream.         *)
(*                                                                         *)
(* InStep speaks of the moments when nothing is on its way.  Between them  *)
(* the messages on their way lead from the client's view (which columns    *)
(* are marked, how many rows there are) to the server's: see Trace.        *)
(***************************************************************************)
EXTENDS Fetch, SequenceTheorems, TLAPS

-----------------------------------------------------------------------------
(* The invariant.                                                          *)

View == [marked : SUBSET Column, rows : 0 .. Len(Table)]

Here == [marked |-> marked, rows |-> Len(rows)]
There == [marked |-> vector, rows |-> pos]

\* The values of a row of which a view has those marked; others do not change.
Fits(a, values) ==
  /\ a.rows < Len(Table)
  /\ values = [c \in a.marked |-> Table[a.rows + 1][c]]
  /\ \A c \in Column \ a.marked :
       a.rows > 0 /\ Table[a.rows + 1][c] = Table[a.rows][c]

\* Reading a message leads from one view to another.
Leads(a, m, b) ==
  /\ m.code = "define" => a.rows = 0 /\ b = [marked |-> Column, rows |-> 0]
  /\ m.code \in {"header", "vector"} => b = [marked |-> m.sent, rows |-> a.rows]
  /\ m.code = "row" =>
       Fits(a, m.values) /\ b = [marked |-> a.marked, rows |-> a.rows + 1]
  /\ m.code \in {"pause", "summary"} => b = a

\* Reading the messages of s, one after the other, leads from a to b.
Along(f, s, a, b) ==
  /\ f \in [0 .. Len(s) -> View]
  /\ f[0] = a /\ f[Len(s)] = b
  /\ \A i \in 1 .. Len(s) : Leads(f[i - 1], s[i], f[i])

Trace(s, a, b) == \E f : Along(f, s, a, b)

Quiet == request = NoRequest /\ response = <<>> /\ phase = "idle"

\* What has been delivered are rows of the result.
Delivered ==
  /\ Len(rows) <= Len(Table)
  /\ \A i \in 1 .. Len(rows) : rows[i] = Table[i]

\* Until something is lost, what is on its way leads to where the server is.
Ahead ==
  pc \in {"idle", "first", "batch", "loop"} =>
    /\ Trace(response, Here, There)
    /\ Len(rows) > 0 => prim = Table[Len(rows)]

\* A summary and a pause are the last message, and the server waits.
Ends ==
  \A i \in DOMAIN response :
    /\ response[i].code = "summary" =>
         i = Len(response) /\ request = NoRequest /\ phase = "idle"
           /\ response[i].cursor = cursor
    /\ response[i].code = "pause" =>
         i = Len(response) /\ request = NoRequest /\ phase = "paused"

\* A request meets a server that waits for it, with nothing left to read.
Asks ==
  /\ request.op \in {"query", "fetch"} => phase = "idle" /\ response = <<>>
  /\ request.op = "query" => pos = 0
  /\ request.op = "fetch" => request.cursor = cursor
  /\ request.op = "continue" => phase = "paused" /\ response = <<>>

\* Where the client is, and what it knows there.
Places ==
  /\ pc \in {"idle", "loop", "again"} => Quiet
  /\ pc = "idle" => pos = 0
  /\ pc \in {"batch", "loop"} => cursor \in CursorId
  /\ pc = "first" => (response # <<>> \/ phase # "idle" => cursor \in CursorId)
  /\ pc = "loop" => cursorId = cursor

\* How much has been read: once a fetch is over without an error there is at
\* least one more row, or there are all of them.
Counts ==
  /\ pc \in {"first", "batch"} => hasMore
  /\ pc \in {"idle", "first"} => guard = 0
  /\ pc = "batch" =>
       /\ guard > 0 /\ before >= guard - 1
       /\ pos = IF request.op = "fetch" THEN before ELSE before + batch
  /\ pc \in {"first", "batch"} =>
       \A i \in DOMAIN response : response[i].code = "summary" =>
         /\ response[i].ret = "end" => pos = Len(Table)
         /\ response[i].ret = "ok" /\ guard > 0 => batch > 0
  /\ pc = "loop" => Len(rows) >= guard /\ (~hasMore => Len(rows) = Len(Table))

FetchInv == TypeOK /\ Delivered /\ Ahead /\ Ends /\ Asks /\ Places /\ Counts

-----------------------------------------------------------------------------
(* Traces.                                                                 *)

LEMMA TraceEmpty ==
  ASSUME NEW a, NEW b
  PROVE  Trace(<<>>, a, b) <=> a \in View /\ a = b
<1>1. ASSUME NEW f, Along(f, <<>>, a, b) PROVE a \in View /\ a = b
  BY <1>1 DEF Along
<1>2. ASSUME a \in View, a = b PROVE Along([i \in 0 .. 0 |-> a], <<>>, a, b)
  BY <1>2 DEF Along
<1> QED BY <1>1, <1>2 DEF Trace

LEMMA TraceTail ==
  ASSUME NEW s \in Seq(Message), s # <<>>, NEW a, NEW b, Trace(s, a, b)
  PROVE  \E c \in View : Leads(a, Head(s), c) /\ Trace(Tail(s), c, b)
<1>1. PICK f : Along(f, s, a, b)
  BY DEF Trace
<1> DEFINE g == [i \in 0 .. Len(Tail(s)) |-> f[i + 1]]
<1>2. /\ Len(s) \in Nat \ {0} /\ Len(Tail(s)) = Len(s) - 1
      /\ \A i \in 1 .. Len(Tail(s)) : Tail(s)[i] = s[i + 1]
      /\ Head(s) = s[1]
  OBVIOUS
<1>3. f[1] \in View /\ Leads(a, Head(s), f[1])
  BY <1>1, <1>2 DEF Along
<1>4. Along(g, Tail(s), f[1], b)
  <2>1. g \in [0 .. Len(Tail(s)) -> View]
    BY <1>1, <1>2 DEF Along
  <2>2. g[0] = f[1] /\ g[Len(Tail(s))] = b
    BY <1>1, <1>2 DEF Along
  <2>3. ASSUME NEW i \in 1 .. Len(Tail(s))
        PROVE  Leads(g[i - 1], Tail(s)[i], g[i])
    <3>1. g[i - 1] = f[i] /\ g[i] = f[i + 1] /\ i + 1 \in 1 .. Len(s)
      BY <1>2
    <3>2. Leads(f[(i + 1) - 1], s[i + 1], f[i + 1])
      BY <1>1, <3>1 DEF Along
    <3> QED BY <1>2, <3>1, <3>2
  <2> QED BY <2>1, <2>2, <2>3 DEF Along
<1> QED BY <1>3, <1>4 DEF Trace

LEMMA TraceAppend ==
  ASSUME NEW s \in Seq(Message), NEW m \in Message, NEW a, NEW b, NEW c \in View,
         Trace(s, a, b), Leads(b, m, c)
  PROVE  Trace(s \o <<m>>, a, c)
<1>1. PICK f : Along(f, s, a, b)
  BY DEF Trace
<1> DEFINE t == s \o <<m>>
           g == [i \in 0 .. Len(t) |-> IF i = Len(t) THEN c ELSE f[i]]
<1>2. /\ Len(s) \in Nat /\ Len(t) = Len(s) + 1
      /\ \A i \in 1 .. Len(s) : t[i] = s[i]
      /\ t[Len(t)] = m
  OBVIOUS
<1>3. Along(g, t, a, c)
  <2>1. g \in [0 .. Len(t) -> View]
    BY <1>1, <1>2 DEF Along
  <2>2. g[0] = a /\ g[Len(t)] = c
    BY <1>1, <1>2 DEF Along
  <2>3. ASSUME NEW i \in 1 .. Len(t)
        PROVE  Leads(g[i - 1], t[i], g[i])
    <3>1. CASE i = Len(t)
      <4>1. g[i - 1] = b /\ t[i] = m /\ g[i] = c
        BY <1>1, <1>2, <3>1 DEF Along
      <4> QED BY <4>1
    <3>2. CASE i # Len(t)
      <4>1. i \in 1 .. Len(s) /\ g[i - 1] = f[i - 1] /\ t[i] = s[i] /\ g[i] = f[i]
        BY <1>2, <3>2
      <4>2. Leads(f[i - 1], s[i], f[i])
        BY <1>1, <4>1 DEF Along
      <4> QED BY <4>1, <4>2
    <3> QED BY <3>1, <3>2
  <2> HIDE DEF g, t
  <2> QED BY <2>1, <2>2, <2>3 DEF Along
<1> QED BY <1>3 DEF Trace

-----------------------------------------------------------------------------
(* Messages and requests.                                                  *)

LEMMA MessageParts ==
  ASSUME NEW m \in Message
  PROVE  /\ m.code \in {"header", "vector"} => m.sent \subseteq Column
         /\ m.code = "pause" => m = Pause
         /\ m.code = "summary" => /\ m.ret \in {"ok", "end", "error"}
                                  /\ m.cursor \in CursorId \cup {0}
  BY DEF Message, Define, Pause, Header, Vector, Row

LEMMA Messages ==
  /\ Define \in Message /\ Pause \in Message
  /\ \A sent \in SUBSET Column : Header(sent) \in Message /\ Vector(sent) \in Message
  /\ \A sent \in SUBSET Column : \A values \in [sent -> Value] :
       Row(values) \in Message
  /\ \A ret \in {"ok", "end", "error"}, id \in CursorId \cup {0} :
       Summary(ret, id) \in Message
  BY DEF Message, Define, Pause, Header, Vector, Row, Summary

LEMMA RequestParts ==
  ASSUME NEW r \in Request
  PROVE  /\ r.op \in {"none", "query", "fetch", "continue"}
         /\ r.op = "none" => r = NoRequest
         /\ r.op \in {"query", "fetch"} => r.count \in Nat
         /\ r.op = "fetch" => r.cursor \in CursorId
  BY SizesAssumption DEF Request, NoRequest, Continue, Query, FetchRequest

LEMMA Requests ==
  /\ NoRequest \in Request /\ NoRequest.op = "none"
  /\ Continue \in Request /\ Continue.op = "continue"
  /\ \A n \in Nat \ {0} : Query(n) \in Request /\ Query(n).op = "query"
  /\ \A id \in CursorId, n \in 1 .. MaxRowsPerFetch :
       LET r == FetchRequest(id, n)
       IN r \in Request /\ r.op = "fetch" /\ r.cursor = id
  BY DEF Request, NoRequest, Continue, Query, FetchRequest

LEMMA Sizes ==
  ASSUME fetchSize \in Nat \ {0}
  PROVE  /\ AutoFetchSize \in Nat \ {0}
         /\ \A n \in Nat \ {0} : Lesser(n, MaxRowsPerFetch) \in 1 .. MaxRowsPerFetch
<1>1. BatchSize \div RowSize \in Nat
  BY SizesAssumption
<1> QED BY <1>1, SizesAssumption DEF AutoFetchSize, Lesser

\* The columns of a row are those of the table.
LEMMA TableRows ==
  ASSUME NEW n \in 1 .. Len(Table)
  PROVE  Table[n] \in [Column -> Value]
  BY TableAssumption

-----------------------------------------------------------------------------
(* The client takes a message.                                             *)

LEMMA Taken ==
  ASSUME FetchInv, pc \in Reading, response # <<>>
  PROVE  /\ pc \in {"first", "batch"}
         /\ Head(response) \in Message /\ Head(response) = response[1]
         /\ Tail(response) \in Seq(Message)
         /\ request = NoRequest
         /\ cursor \in CursorId
         /\ Head(response).code \in {"summary", "pause"} => Tail(response) = <<>>
         /\ \E c \in View : /\ Leads(Here, Head(response), c)
                           /\ Trace(Tail(response), c, There)
<1>1. response \in Seq(Message) /\ request \in Request
  BY DEF FetchInv, TypeOK
<1>2. pc \in {"first", "batch"}
  BY DEF FetchInv, Places, Quiet, Reading
<1>3. /\ Head(response) \in Message /\ Head(response) = response[1]
      /\ Tail(response) \in Seq(Message)
      /\ 1 \in DOMAIN response /\ Len(Tail(response)) = Len(response) - 1
  BY <1>1, HeadTailProperties
<1>4. request = NoRequest
  BY <1>1, RequestParts DEF FetchInv, Asks
<1>5. cursor \in CursorId
  BY <1>2 DEF FetchInv, Places
<1>6. Head(response).code \in {"summary", "pause"} => Tail(response) = <<>>
  <2>1. Head(response).code \in {"summary", "pause"} => Len(Tail(response)) = 0
    BY <1>3 DEF FetchInv, Ends
  <2> QED BY <1>3, <2>1, EmptySeq
<1>7. \E c \in View : Leads(Here, Head(response), c) /\ Trace(Tail(response), c, There)
  BY <1>1, <1>2, TraceTail DEF FetchInv, Ahead
<1> QED BY <1>2, <1>3, <1>4, <1>5, <1>6, <1>7

\* What holds of all the messages on their way holds of those that are left.
LEMMA Left ==
  ASSUME FetchInv, response # <<>>, response' = Tail(response),
         UNCHANGED <<request, phase, cursor, pos, batch, before, guard, pc>>,
         request = NoRequest
  PROVE  /\ Ends' /\ Asks'
         /\ pc \in {"first", "batch"} =>
              \A i \in DOMAIN response' : response'[i].code = "summary" =>
                /\ response'[i].ret = "end" => pos = Len(Table)
                /\ response'[i].ret = "ok" /\ guard > 0 => batch > 0
<1>1. response \in Seq(Message)
  BY DEF FetchInv, TypeOK
<1>2. /\ Len(response) \in Nat \ {0} /\ Len(response') = Len(response) - 1
      /\ DOMAIN response' = 1 .. Len(response')
      /\ \A i \in DOMAIN response' : /\ response'[i] = response[i + 1]
                                     /\ i + 1 \in DOMAIN response
  BY <1>1
<1>3. Ends'
  BY <1>2 DEF FetchInv, Ends
<1>4. Asks'
  BY Requests DEF Asks, NoRequest
<1> QED BY <1>2, <1>3, <1>4 DEF FetchInv, Counts

-----------------------------------------------------------------------------
(* Each step keeps the invariant.                                          *)

LEMMA InitInv == Init => FetchInv
<1> SUFFICES ASSUME Init PROVE FetchInv
  OBVIOUS
<1>1. Here \in View /\ Here = There /\ Trace(response, Here, There)
  BY TraceEmpty, TableAssumption DEF Init, Here, There, View
<1>2. TypeOK
  <2>1. rows \in Seq([Column -> Value]) /\ response \in Seq(Message) /\ Len(rows) = 0
    BY EmptySeq DEF Init
  <2>2. Len(Table) \in Nat /\ prim \in [Column -> Value]
    BY TableAssumption DEF Init
  <2>3. /\ fetchSize \in Nat \ {0}
        /\ pauses \in 0 .. MaxPauses /\ guard \in 0 .. MaxBatches + 1
    BY SizesAssumption DEF Init
  <2>4. request \in Request
    BY Requests DEF Init
  <2>5. /\ pc \in Control /\ cursorId \in CursorId \cup {0} /\ hasMore \in BOOLEAN
        /\ cursor \in CursorId \cup {0} /\ quota \in Nat
        /\ marked \subseteq Column /\ vector \subseteq Column
        /\ phase \in {"idle", "answering", "paused"}
        /\ before = 0 /\ pos = 0 /\ batch = 0
    BY DEF Init, Control
  <2> QED BY <2>1, <2>2, <2>3, <2>4, <2>5 DEF TypeOK
<1>3. Delivered /\ Ahead /\ Ends /\ Asks /\ Places /\ Counts
  BY <1>1, TableAssumption
     DEF Init, Delivered, Ahead, Ends, Asks, Places, Counts, Quiet, NoRequest
<1> QED BY <1>2, <1>3 DEF FetchInv

LEMMA StartQueryStep == FetchInv /\ StartQuery => FetchInv'
<1> SUFFICES ASSUME FetchInv, StartQuery PROVE FetchInv'
  OBVIOUS
<1>1. Quiet /\ pos = 0 /\ guard = 0
  BY DEF FetchInv, Places, StartQuery, Counts
<1>2. request' \in Request /\ request'.op = "query"
  BY Requests DEF FetchInv, TypeOK, StartQuery, Write
<1>3. TypeOK'
  BY <1>2 DEF FetchInv, TypeOK, StartQuery, Write, client, server, Control, Reading
<1>4. Ahead'
  BY <1>1 DEF FetchInv, Ahead, StartQuery, Write, Quiet, Here, There, server
<1>5. Delivered' /\ Ends' /\ Asks' /\ Places' /\ Counts'
  BY <1>1, <1>2
     DEF FetchInv, Delivered, Ends, Asks, Places, Counts, StartQuery, Write, Quiet, server
<1> QED BY <1>3, <1>4, <1>5 DEF FetchInv

\* With nothing on its way the client has all the server has sent.
LEMMA Caught ==
  ASSUME FetchInv, pc \in {"idle", "first", "batch", "loop"}, response = <<>>
  PROVE  Here = There /\ Len(rows) = pos /\ marked = vector
  BY TraceEmpty DEF FetchInv, Ahead, Here, There

LEMMA FetchMoreStep == FetchInv /\ FetchMore => FetchInv'
<1> SUFFICES ASSUME FetchInv, FetchMore PROVE FetchInv'
  OBVIOUS
<1>1. /\ Quiet /\ pc = "loop" /\ cursorId = cursor /\ cursor \in CursorId
      /\ Len(rows) = pos
  BY Caught DEF FetchInv, Places, FetchMore, Quiet
<1>2. fetchSize' \in Nat \ {0}
  BY Sizes DEF FetchInv, TypeOK, FetchMore
<1>3. request' \in Request /\ request'.op = "fetch" /\ request'.cursor = cursor
  BY <1>1, <1>2, Sizes, Requests DEF FetchInv, TypeOK, FetchMore, Write
<1>4. TypeOK'
  <2>1. response' \in Seq(Message)
    BY EmptySeq DEF FetchMore, Write
  <2>2. before' \in 0 .. Len(rows') /\ guard' \in 0 .. MaxBatches + 1
    BY SizesAssumption DEF FetchInv, TypeOK, FetchMore
  <2> QED BY <1>2, <1>3, <2>1, <2>2
          DEF FetchInv, TypeOK, FetchMore, Write, server, Control, Reading
<1>5. Ahead'
  BY <1>1 DEF FetchInv, Ahead, FetchMore, Write, Quiet, Here, There, server
<1>6. Delivered' /\ Ends' /\ Asks' /\ Places'
  BY <1>1, <1>3 DEF FetchInv, Delivered, Ends, Asks, Places, FetchMore, Write, Quiet, server
<1>7. Counts'
  BY <1>1, <1>3 DEF FetchInv, TypeOK, Counts, FetchMore, Write, server
<1> QED BY <1>4, <1>5, <1>6, <1>7 DEF FetchInv

LEMMA FetchedAllStep == FetchInv /\ FetchedAll => FetchInv'
<1> SUFFICES ASSUME FetchInv, FetchedAll PROVE FetchInv'
  OBVIOUS
<1>1. TypeOK'
  BY SizesAssumption DEF FetchInv, TypeOK, FetchedAll, server, Control
<1>2. Delivered' /\ Ahead' /\ Ends' /\ Asks' /\ Places' /\ Counts'
  BY DEF FetchInv, Delivered, Ahead, Ends, Asks, Places, Counts, Quiet, FetchedAll, server
<1> QED BY <1>1, <1>2 DEF FetchInv

LEMMA ReadDefineStep == FetchInv /\ ReadDefine => FetchInv'
<1> SUFFICES ASSUME FetchInv, ReadDefine PROVE FetchInv'
  OBVIOUS
<1>1. /\ pc \in Reading /\ response # <<>> /\ Head(response).code = "define"
      /\ response' = Tail(response)
  BY DEF ReadDefine, Take
<1>2. PICK c \in View : Leads(Here, Head(response), c) /\ Trace(Tail(response), c, There)
  BY <1>1, Taken
<1>3. Len(rows) = 0 /\ c = [marked |-> Column, rows |-> 0]
  BY <1>1, <1>2 DEF Leads, Here
<1>4. TypeOK'
  <2>1. prim' \in [Column -> Value]
    BY TableAssumption DEF ReadDefine
  <2> QED BY <1>1, <2>1, Taken DEF FetchInv, TypeOK, ReadDefine, server
<1>5. Ahead'
  <2>1. Here' = c /\ There' = There
    BY <1>3 DEF ReadDefine, Here, There, server
  <2> QED BY <1>1, <1>2, <1>3, <2>1 DEF Ahead, ReadDefine
<1>6. Delivered' /\ Places' /\ Counts'
  BY <1>1, Taken, Left
     DEF FetchInv, Delivered, Places, Counts, Reading, ReadDefine, server
<1>7. Ends' /\ Asks'
  BY <1>1, Taken, Left DEF ReadDefine, server
<1> QED BY <1>4, <1>5, <1>6, <1>7 DEF FetchInv

LEMMA ReadVectorStep == FetchInv /\ ReadVector => FetchInv'
<1> SUFFICES ASSUME FetchInv, ReadVector PROVE FetchInv'
  OBVIOUS
<1>1. /\ pc \in Reading /\ response # <<>> /\ Head(response).code \in {"header", "vector"}
      /\ response' = Tail(response)
  BY DEF ReadVector, Take
<1>2. PICK c \in View : Leads(Here, Head(response), c) /\ Trace(Tail(response), c, There)
  BY <1>1, Taken
<1>3. c = [marked |-> marked', rows |-> Len(rows)]
  BY <1>1, <1>2 DEF Leads, Here, ReadVector
<1>4. TypeOK'
  BY <1>1, Taken, MessageParts DEF FetchInv, TypeOK, ReadVector, server
<1>5. Ahead'
  <2>1. Here' = c /\ There' = There
    BY <1>3 DEF ReadVector, Here, There, server
  <2> QED BY <1>1, <1>2, <2>1 DEF FetchInv, Ahead, ReadVector
<1>6. Delivered' /\ Places' /\ Counts'
  BY <1>1, Taken, Left
     DEF FetchInv, Delivered, Places, Counts, Reading, ReadVector, server
<1>7. Ends' /\ Asks'
  BY <1>1, Taken, Left DEF ReadVector, server
<1> QED BY <1>4, <1>5, <1>6, <1>7 DEF FetchInv

LEMMA ReadRowStep ==
  ASSUME FetchInv, ReadRow
  PROVE  /\ FetchInv'
         /\ Len(rows) < Len(Table) /\ rows' = Append(rows, Table[Len(rows) + 1])
<1>1. /\ pc \in Reading /\ response # <<>> /\ Head(response).code = "row"
      /\ response' = Tail(response) /\ pc \in {"first", "batch"}
  BY Taken DEF ReadRow, Take
<1>2. PICK c \in View : Leads(Here, Head(response), c) /\ Trace(Tail(response), c, There)
  BY <1>1, Taken
<1>3. /\ Fits(Here, Head(response).values)
      /\ c = [marked |-> marked, rows |-> Len(rows) + 1]
  BY <1>1, <1>2 DEF Leads, Here
<1>4. /\ rows \in Seq([Column -> Value]) /\ Len(rows) \in Nat /\ Len(rows) < Len(Table)
      /\ Len(rows) + 1 \in 1 .. Len(Table)
  BY <1>3, TableAssumption DEF Fits, Here, FetchInv, TypeOK
<1>5. prim' = Table[Len(rows) + 1]
  <2>1. Head(response).values = [c1 \in marked |-> Table[Len(rows) + 1][c1]]
    BY <1>3 DEF Fits, Here
  <2>2. ASSUME NEW c1 \in Column
        PROVE  (IF c1 \in marked THEN Read(c1) ELSE prim[c1]) = Table[Len(rows) + 1][c1]
    <3>1. CASE c1 \in marked
      BY <2>1, <3>1 DEF Read
    <3>2. CASE c1 \notin marked
      <4>1. Len(rows) > 0 /\ Table[Len(rows) + 1][c1] = Table[Len(rows)][c1]
        BY <1>3, <3>2 DEF Fits, Here
      <4>2. prim = Table[Len(rows)]
        BY <1>1, <4>1 DEF FetchInv, Ahead
      <4> QED BY <3>2, <4>1, <4>2
    <3> QED BY <3>1, <3>2
  <2>3. Table[Len(rows) + 1] \in [Column -> Value]
    BY <1>4, TableRows
  <2> QED BY <2>2, <2>3 DEF ReadRow
<1>6. /\ rows' \in Seq([Column -> Value]) /\ Len(rows') = Len(rows) + 1
      /\ \A i \in 1 .. Len(rows) : rows'[i] = rows[i]
      /\ rows'[Len(rows) + 1] = Table[Len(rows) + 1]
      /\ prim' \in [Column -> Value]
  BY <1>4, <1>5, TableRows DEF ReadRow
<1>7. TypeOK'
  <2>1. before' \in 0 .. Len(rows')
    BY <1>4, <1>6 DEF FetchInv, TypeOK, ReadRow
  <2> QED BY <1>1, <1>6, <2>1, Taken DEF FetchInv, TypeOK, ReadRow, server
<1>8. Delivered'
  BY <1>4, <1>6 DEF FetchInv, Delivered
<1>9. Ahead'
  <2>1. Here' = c /\ There' = There
    BY <1>3, <1>6 DEF ReadRow, Here, There, server
  <2> QED BY <1>1, <1>2, <1>5, <1>6, <2>1 DEF Ahead
<1>10. Places' /\ Counts'
  BY <1>1, Taken, Left DEF FetchInv, Places, Counts, ReadRow, server
<1>11. Ends' /\ Asks'
  BY <1>1, Taken, Left DEF ReadRow, server
<1>12. rows' = Append(rows, Table[Len(rows) + 1])
  BY <1>5 DEF ReadRow
<1> QED BY <1>4, <1>7, <1>8, <1>9, <1>10, <1>11, <1>12 DEF FetchInv

LEMMA ReadPauseStep == FetchInv /\ ReadPause => FetchInv'
<1> SUFFICES ASSUME FetchInv, ReadPause PROVE FetchInv'
  OBVIOUS
<1>1. /\ pc \in {"first", "batch"} /\ response # <<>> /\ Head(response).code = "pause"
      /\ Head(response) = response[1] /\ 1 \in DOMAIN response
      /\ Tail(response) = <<>>
  BY Taken DEF ReadPause, Pause, FetchInv, TypeOK
<1>2. PICK c \in View : Leads(Here, Head(response), c) /\ Trace(Tail(response), c, There)
  BY <1>1, Taken DEF Reading
<1>3. c = Here /\ Here' = Here /\ There' = There
  BY <1>1, <1>2 DEF Leads, Here, There, ReadPause, client, server
<1>4. phase = "paused" /\ request' = Continue /\ response' = <<>>
  BY <1>1 DEF FetchInv, Ends, ReadPause, Write
<1>5. TypeOK'
  BY <1>4, Requests, EmptySeq DEF FetchInv, TypeOK, ReadPause, client, server
<1>6. Ahead'
  BY <1>1, <1>2, <1>3, <1>4 DEF FetchInv, Ahead, ReadPause, client
<1>7. cursor \in CursorId
  BY <1>1 DEF FetchInv, Places
<1>8. Delivered' /\ Ends' /\ Asks' /\ Places'
  BY <1>1, <1>4, <1>7, Requests
     DEF FetchInv, Delivered, Ends, Asks, Places, ReadPause, client, server
<1>9. Counts'
  <2>1. request = NoRequest
    BY <1>1 DEF FetchInv, Ends
  <2> QED BY <1>1, <1>4, <2>1, Requests DEF FetchInv, Counts, ReadPause, client, server
<1> QED BY <1>5, <1>6, <1>8, <1>9 DEF FetchInv

LEMMA ReadSummaryStep ==
  ASSUME FetchInv, ReadSummary
  PROVE  FetchInv' /\ (pc' = "done" => rows = Table)
<1>1. /\ pc \in {"first", "batch"} /\ response # <<>> /\ Head(response).code = "summary"
      /\ Head(response) = response[1] /\ 1 \in DOMAIN response
      /\ response' = <<>> /\ Tail(response) = <<>> /\ Head(response) \in Message
      /\ cursor \in CursorId
  BY Taken DEF ReadSummary, Take, FetchInv, TypeOK
<1>2. PICK c \in View : Leads(Here, Head(response), c) /\ Trace(Tail(response), c, There)
  BY <1>1, Taken DEF Reading
<1>3. c = Here /\ Here' = Here /\ There' = There
  BY <1>1, <1>2 DEF Leads, Here, There, ReadSummary, server
<1>4. phase = "idle" /\ request = NoRequest /\ Head(response).cursor = cursor
  BY <1>1 DEF FetchInv, Ends
<1>5. Len(rows) = pos
  <2>1. c = There
    BY <1>1, <1>2, TraceEmpty
  <2> QED BY <1>3, <2>1 DEF Here, There
<1>6. /\ Head(response).ret \in {"ok", "end", "error"}
      /\ Head(response).ret = "end" => pos = Len(Table)
      /\ Head(response).ret = "ok" /\ guard > 0 => batch > 0
  BY <1>1, MessageParts DEF FetchInv, Counts
<1>7. pc' \in {"loop", "done", "raised"}
  BY DEF ReadSummary, AfterResponse
<1>8. TypeOK'
  BY <1>1, <1>4, <1>7, EmptySeq DEF FetchInv, TypeOK, ReadSummary, Control, server
<1>9. Ahead'
  BY <1>1, <1>2, <1>3 DEF FetchInv, Ahead, ReadSummary
<1>10. Delivered' /\ Ends' /\ Asks' /\ Places'
  BY <1>1, <1>4, <1>7, Requests
     DEF FetchInv, Delivered, Ends, Asks, Places, Quiet, ReadSummary, server
<1>11. pc = "batch" => guard > 0 /\ before >= guard - 1 /\ pos = before + batch
  BY <1>4, Requests DEF FetchInv, Counts
<1>12. Counts'
  <2>1. pc' = "loop" => Len(rows) >= guard
    <3>1. CASE pc = "first"
      BY <3>1, <1>5 DEF FetchInv, Counts, TypeOK
    <3>2. CASE pc = "batch"
      BY <3>2, <1>5, <1>11 DEF ReadSummary, AfterResponse, FetchInv, TypeOK
    <3> QED BY <1>1, <3>1, <3>2
  <2>2. hasMore /\ (~hasMore' => Len(rows) = Len(Table))
    BY <1>1, <1>5, <1>6 DEF FetchInv, Counts, ReadSummary
  <2> QED BY <1>1, <1>7, <2>1, <2>2 DEF Counts, ReadSummary, server
<1>13. ASSUME pc' = "done" PROVE rows = Table
  <2>1. pc = "batch" /\ ~(Len(rows) > before) /\ Head(response).ret # "error"
    BY <1>1, <1>13 DEF ReadSummary, AfterResponse
  <2>2. Len(rows) = Len(Table)
    BY <1>5, <1>6, <1>11, <2>1 DEF FetchInv, TypeOK
  <2> QED BY <2>2, TableAssumption, SeqEqual DEF FetchInv, TypeOK, Delivered
<1> QED BY <1>8, <1>9, <1>10, <1>12, <1>13 DEF FetchInv

LEMMA ReadFailsStep == FetchInv /\ ReadFails => FetchInv'
<1> SUFFICES ASSUME FetchInv, ReadFails PROVE FetchInv'
  OBVIOUS
<1>1. TypeOK'
  BY DEF FetchInv, TypeOK, ReadFails, server, Control
<1>2. Delivered' /\ Ahead' /\ Ends' /\ Asks' /\ Places' /\ Counts'
  BY DEF FetchInv, Delivered, Ahead, Ends, Asks, Places, Counts, ReadFails, server
<1> QED BY <1>1, <1>2 DEF FetchInv

LEMMA DrainFailsStep == FetchInv /\ DrainFails => FetchInv'
<1> SUFFICES ASSUME FetchInv, DrainFails PROVE FetchInv'
  OBVIOUS
<1>1. TypeOK'
  BY DEF FetchInv, TypeOK, DrainFails, server, Control
<1>2. Delivered' /\ Ahead' /\ Ends' /\ Asks' /\ Places' /\ Counts'
  BY DEF FetchInv, Delivered, Ahead, Ends, Asks, Places, Counts, DrainFails, server
<1> QED BY <1>1, <1>2 DEF FetchInv

LEMMA DrainSummaryStep == FetchInv /\ DrainSummary => FetchInv'
<1> SUFFICES ASSUME FetchInv, DrainSummary PROVE FetchInv'
  OBVIOUS
<1>1. /\ pc = "drain" /\ response # <<>> /\ Head(response).code = "summary"
      /\ response \in Seq(Message) /\ Head(response) \in Message
      /\ 1 \in DOMAIN response /\ Head(response) = response[1]
      /\ Tail(response) \in Seq(Message) /\ Len(Tail(response)) = Len(response) - 1
  BY HeadTailProperties DEF DrainSummary, FetchInv, TypeOK
<1>2. phase = "idle" /\ request = NoRequest /\ Len(response) = 1
  BY <1>1 DEF FetchInv, Ends
<1>3. response' = <<>> /\ pc' \in {"again", "raised"}
  BY <1>1, <1>2, EmptySeq DEF DrainSummary
<1>4. TypeOK'
  BY <1>1, <1>3, MessageParts, EmptySeq
     DEF FetchInv, TypeOK, DrainSummary, server, Control, Reading
<1>5. Delivered' /\ Ahead' /\ Ends' /\ Asks' /\ Places' /\ Counts'
  BY <1>2, <1>3, Requests
     DEF FetchInv, Delivered, Ahead, Ends, Asks, Places, Counts, Quiet, DrainSummary, server
<1> QED BY <1>4, <1>5 DEF FetchInv

LEMMA ConnResetStep == FetchInv /\ ConnReset => FetchInv'
<1> SUFFICES ASSUME FetchInv, ConnReset PROVE FetchInv'
  OBVIOUS
<1>1. pc' \in {"drain", "raised"}
  BY DEF ConnReset
<1> DEFINE Same == response' = response /\ phase' = phase /\ request' = request
           Over == phase' = "idle" /\ request' = NoRequest
           Nothing == response' = <<>>
           Ended(ret) == response' = <<Summary(ret, cursor)>>
<1>2. Same \/ (Over /\ Nothing) \/ \E ret \in {"ok", "error"} : Over /\ Ended(ret)
  BY AftermathsAssumption DEF ConnReset
<1>3. /\ response' \in Seq(Message) /\ request' \in Request
      /\ phase' \in {"idle", "answering", "paused"}
      /\ Ends' /\ Asks'
  <2>1. CASE Same
    BY <2>1 DEF FetchInv, TypeOK, Ends, Asks, ConnReset
  <2>2. CASE Over /\ Nothing
    BY <2>2, Requests, EmptySeq DEF Ends, Asks
  <2>3. ASSUME NEW ret \in {"ok", "error"}, Over, Ended(ret)
        PROVE  /\ response' \in Seq(Message) /\ request' \in Request
               /\ phase' \in {"idle", "answering", "paused"}
               /\ Ends' /\ Asks'
    <3>1. Summary(ret, cursor) \in Message
      BY Messages DEF FetchInv, TypeOK
    <3>2. response' \in Seq(Message)
      BY <2>3, <3>1
    <3>3. /\ Len(response') = 1 /\ DOMAIN response' = {1}
          /\ response'[1].code = "summary" /\ response'[1].cursor = cursor
          /\ cursor' = cursor
      BY <2>3 DEF Summary, ConnReset
    <3> QED BY <2>3, <3>2, <3>3, Requests DEF Ends, Asks
  <2> QED BY <1>2, <2>1, <2>2, <2>3
<1>4. TypeOK'
  BY <1>1, <1>3 DEF FetchInv, TypeOK, ConnReset, Control
<1>5. Delivered' /\ Ahead' /\ Places' /\ Counts'
  BY <1>1 DEF FetchInv, Delivered, Ahead, Places, Counts, ConnReset
<1> QED BY <1>3, <1>4, <1>5 DEF FetchInv

LEMMA Answering ==
  ASSUME FetchInv, phase = "answering"
  PROVE  /\ request = NoRequest /\ pc \notin {"idle", "loop", "again"}
         /\ \A i \in DOMAIN response : response[i].code \notin {"summary", "pause"}
<1>1. request \in Request
  BY DEF FetchInv, TypeOK
<1>2. request = NoRequest
  BY <1>1, RequestParts DEF FetchInv, Asks
<1> QED BY <1>2 DEF FetchInv, Ends, Places, Quiet

LEMMA VectorColumns == \A v \in Vectors : v \subseteq Column
  BY DEF Vectors

LEMMA ExecutesStep == FetchInv /\ Executes => FetchInv'
<1> SUFFICES ASSUME FetchInv, Executes PROVE FetchInv'
  OBVIOUS
<1>1. /\ response = <<>> /\ pos = 0 /\ batch = 0 /\ request' = NoRequest
      /\ pc \notin {"idle", "loop", "again"} /\ pc' = pc
  BY Requests
     DEF FetchInv, TypeOK, Asks, Places, Quiet, Executes, Received, client
<1>2. response' = (<<>> \o <<Define>>) \o <<Header(Column)>> /\ Header(Column) \in Message
      /\ Define \in Message
  BY <1>1, Messages DEF Executes, Answer
<1>3. /\ response' \in Seq(Message) /\ Len(response') = 2
      /\ response'[1] = Define /\ response'[2] = Header(Column)
      /\ <<>> \o <<Define>> \in Seq(Message)
  BY <1>2
<1>4. TypeOK'
  <2>1. quota' \in Nat
    BY RequestParts DEF FetchInv, TypeOK, Executes, Received
  <2> QED BY <1>1, <1>3, <2>1, Requests DEF FetchInv, TypeOK, Executes, client
<1>5. Ahead'
  <2> SUFFICES ASSUME pc \in {"first", "batch"}
               PROVE  /\ Trace(response', Here', There')
                      /\ Len(rows) > 0 => prim = Table[Len(rows)]
    BY <1>1 DEF Ahead, Executes, client
  <2> DEFINE start == [marked |-> Column, rows |-> 0]
  <2>1. Trace(<<>>, Here, There) /\ (Len(rows) > 0 => prim = Table[Len(rows)])
    BY <1>1 DEF FetchInv, Ahead
  <2>2. start \in View /\ Leads(There, Define, start) /\ Leads(start, Header(Column), start)
    BY <1>1, TableAssumption DEF View, Leads, There, Define, Header
  <2>3. Trace(<<>> \o <<Define>>, Here, start)
    <3>1. <<>> \in Seq(Message)
      BY EmptySeq
    <3> HIDE DEF start
    <3> QED BY <1>2, <2>1, <2>2, <3>1, TraceAppend
  <2>4. Trace(response', Here, start)
    <3> HIDE DEF start
    <3> QED BY <1>2, <1>3, <2>2, <2>3, TraceAppend
  <2>5. Here' = Here /\ There' = start
    BY <1>1 DEF Executes, Here, There, client
  <2> QED BY <2>1, <2>4, <2>5
<1>6. Ends' /\ Asks'
  BY <1>1, <1>3, Requests DEF Ends, Asks, Define, Header
<1>7. Delivered' /\ Places'
  BY <1>1 DEF FetchInv, Delivered, Places, Executes, client
<1>8. Counts'
  BY <1>1, <1>3, Requests
     DEF FetchInv, TypeOK, Counts, Asks, Executes, Received, client, Define, Header
<1> QED BY <1>4, <1>5, <1>6, <1>7, <1>8 DEF FetchInv

LEMMA FetchesStep == FetchInv /\ Fetches => FetchInv'
<1> SUFFICES ASSUME FetchInv, Fetches PROVE FetchInv'
  OBVIOUS
<1>1. /\ response = <<>> /\ request' = NoRequest
      /\ pc \notin {"idle", "loop", "again"} /\ pc' = pc
  BY Requests DEF FetchInv, Asks, Places, Quiet, Fetches, Received, client
<1>2. vector' \subseteq Column
  BY VectorColumns DEF Fetches
<1>3. response' = <<>> \o <<Header(vector')>> /\ Header(vector') \in Message
  BY <1>1, <1>2, Messages DEF Fetches, Answer
<1>4. /\ response' \in Seq(Message) /\ Len(response') = 1
      /\ response'[1] = Header(vector')
  BY <1>3
<1>5. TypeOK'
  <2>1. quota' \in Nat
    BY RequestParts DEF FetchInv, TypeOK, Fetches, Received
  <2> QED BY <1>1, <1>2, <1>4, <2>1, Requests DEF FetchInv, TypeOK, Fetches, client
<1>6. Ahead'
  <2> SUFFICES ASSUME pc \in {"first", "batch"}
               PROVE  /\ Trace(response', Here', There')
                      /\ Len(rows) > 0 => prim = Table[Len(rows)]
    BY <1>1 DEF Ahead, Fetches, client
  <2>1. Trace(<<>>, Here, There) /\ (Len(rows) > 0 => prim = Table[Len(rows)])
    BY <1>1 DEF FetchInv, Ahead
  <2>2. There' \in View /\ Leads(There, Header(vector'), There')
    BY <1>2 DEF View, Leads, There, Header, Fetches, FetchInv, TypeOK
  <2>3. Here' = Here /\ <<>> \in Seq(Message)
    BY EmptySeq DEF Fetches, Here, client
  <2> QED BY <1>3, <2>1, <2>2, <2>3, TraceAppend
<1>7. Ends' /\ Asks'
  BY <1>1, <1>4, Requests DEF Ends, Asks, Header
<1>8. Delivered' /\ Places'
  <2>1. cursor \in CursorId
    BY RequestParts DEF FetchInv, TypeOK, Fetches, Received
  <2> QED BY <1>1, <2>1 DEF FetchInv, Delivered, Places, Fetches, client
<1>9. Counts'
  <2>1. pc = "batch" => pos = before + batch'
    BY DEF FetchInv, TypeOK, Counts, Fetches, Received
  <2>2. UNCHANGED <<pc, hasMore, guard, before, rows, pos>>
    BY DEF Fetches, client
  <2> QED BY <1>1, <1>4, <2>1, <2>2, Requests DEF FetchInv, Counts, Header
<1> QED BY <1>5, <1>6, <1>7, <1>8, <1>9 DEF FetchInv

LEMMA ResumesStep == FetchInv /\ Resumes => FetchInv'
<1> SUFFICES ASSUME FetchInv, Resumes PROVE FetchInv'
  OBVIOUS
<1>1. /\ response = <<>> /\ request.op = "continue" /\ request' = NoRequest
      /\ pc \notin {"idle", "loop", "again"}
  BY Requests DEF FetchInv, Asks, Places, Quiet, Resumes, Received
<1>2. TypeOK'
  BY Requests DEF FetchInv, TypeOK, Resumes, client
<1>3. Delivered' /\ Ahead' /\ Ends' /\ Asks' /\ Places' /\ Counts'
  BY <1>1, Requests
     DEF FetchInv, Delivered, Ahead, Ends, Asks, Places, Counts, Here, There, Resumes,
         client
<1> QED BY <1>2, <1>3 DEF FetchInv

LEMMA PausesStep == FetchInv /\ Pauses => FetchInv'
<1> SUFFICES ASSUME FetchInv, Pauses PROVE FetchInv'
  OBVIOUS
<1>1. /\ request = NoRequest /\ pc \notin {"idle", "loop", "again"} /\ pc' = pc
      /\ \A i \in DOMAIN response : response[i].code \notin {"summary", "pause"}
  BY Answering DEF Pauses, client
<1>2. response \in Seq(Message) /\ Pause \in Message /\ response' = response \o <<Pause>>
  BY Messages DEF FetchInv, TypeOK, Pauses, Answer
<1>3. /\ response' \in Seq(Message) /\ Len(response') = Len(response) + 1
      /\ \A i \in DOMAIN response : response'[i] = response[i]
      /\ response'[Len(response) + 1] = Pause
      /\ DOMAIN response' = DOMAIN response \cup {Len(response) + 1}
  BY <1>2
<1>4. TypeOK'
  <2>1. pauses' \in 0 .. MaxPauses
    <3>1. pauses \in 0 .. MaxPauses /\ pauses < MaxPauses /\ pauses' = pauses + 1
      BY DEF FetchInv, TypeOK, Pauses
    <3> QED BY <3>1, SizesAssumption
  <2> QED BY <1>3, <2>1 DEF FetchInv, TypeOK, Pauses, client
<1>5. Ahead'
  <2> SUFFICES ASSUME pc \in {"first", "batch"}
               PROVE  /\ Trace(response', Here', There')
                      /\ Len(rows) > 0 => prim = Table[Len(rows)]
    BY <1>1 DEF Ahead, Pauses, client
  <2>1. Trace(response, Here, There) /\ (Len(rows) > 0 => prim = Table[Len(rows)])
    BY DEF FetchInv, Ahead
  <2>2. There \in View /\ Leads(There, Pause, There)
    BY DEF View, Leads, There, Pause, FetchInv, TypeOK
  <2>3. Here' = Here /\ There' = There
    BY DEF Pauses, Here, There, client
  <2> QED BY <1>2, <2>1, <2>2, <2>3, TraceAppend
<1>6. Ends' /\ Asks'
  BY <1>1, <1>3, Requests DEF Ends, Asks, Pause, Pauses
<1>7. cursor \in CursorId \/ pc \notin {"first", "batch"}
  BY DEF FetchInv, Places, Pauses
<1>8. Delivered' /\ Places' /\ Counts'
  BY <1>1, <1>3, <1>7 DEF FetchInv, Delivered, Places, Counts, Pauses, client, Pause
<1> QED BY <1>4, <1>5, <1>6, <1>8 DEF FetchInv

LEMMA SummarisesStep == FetchInv /\ Summarises => FetchInv'
<1> SUFFICES ASSUME FetchInv, Summarises PROVE FetchInv'
  OBVIOUS
<1>1. /\ request = NoRequest /\ pc \notin {"idle", "loop", "again"} /\ pc' = pc
      /\ \A i \in DOMAIN response : response[i].code \notin {"summary", "pause"}
  BY Answering DEF Summarises, client
<1>2. PICK ret \in {"ok", "end", "error"} :
        /\ ret = "end" => pos = Len(Table)
        /\ ret = "ok" /\ guard > 0 => batch > 0
        /\ response' = response \o <<Summary(ret, cursor')>>
  BY DEF Summarises, Answer
<1> DEFINE m == Summary(ret, cursor')
<1>3. response \in Seq(Message) /\ m \in Message
  BY Messages DEF FetchInv, TypeOK, Summarises
<1>4. /\ response' \in Seq(Message) /\ Len(response') = Len(response) + 1
      /\ \A i \in DOMAIN response : response'[i] = response[i]
      /\ response'[Len(response) + 1] = m
      /\ DOMAIN response' = DOMAIN response \cup {Len(response) + 1}
  BY <1>2, <1>3
<1>5. m.code = "summary" /\ m.ret = ret /\ m.cursor = cursor'
  BY DEF Summary
<1> HIDE DEF m
<1>6. TypeOK'
  BY <1>4 DEF FetchInv, TypeOK, Summarises, client
<1>7. Ahead'
  <2> SUFFICES ASSUME pc \in {"first", "batch"}
               PROVE  /\ Trace(response', Here', There')
                      /\ Len(rows) > 0 => prim = Table[Len(rows)]
    BY <1>1 DEF Ahead, Summarises, client
  <2>1. Trace(response, Here, There) /\ (Len(rows) > 0 => prim = Table[Len(rows)])
    BY DEF FetchInv, Ahead
  <2>2. There \in View /\ Leads(There, m, There)
    BY <1>5 DEF View, Leads, There, FetchInv, TypeOK
  <2>3. Here' = Here /\ There' = There
    BY DEF Summarises, Here, There, client
  <2>4. response' = response \o <<m>>
    BY <1>2 DEF m
  <2> QED BY <1>3, <2>1, <2>2, <2>3, <2>4, TraceAppend
<1>8. Ends' /\ Asks'
  BY <1>1, <1>4, <1>5, Requests DEF Ends, Asks, Summarises
<1>9. Delivered' /\ Places'
  BY <1>1 DEF FetchInv, Delivered, Places, Summarises, client
<1>10. Counts'
  BY <1>1, <1>2, <1>4, <1>5 DEF FetchInv, Counts, Summarises, client
<1> QED BY <1>6, <1>7, <1>8, <1>9, <1>10 DEF FetchInv

LEMMA SendsRowStep == FetchInv /\ SendsRow => FetchInv'
<1> SUFFICES ASSUME FetchInv, SendsRow PROVE FetchInv'
  OBVIOUS
<1> DEFINE values == [c \in vector' |-> Table[pos + 1][c]]
           between == IF vector' = vector THEN response ELSE response \o <<Vector(vector')>>
           chosen == [marked |-> vector', rows |-> pos]
<1>1. /\ request = NoRequest /\ pc \notin {"idle", "loop", "again"} /\ pc' = pc
      /\ \A i \in DOMAIN response : response[i].code \notin {"summary", "pause"}
  BY Answering DEF SendsRow, client
<1>2. /\ pos \in Nat /\ pos < Len(Table) /\ Len(Table) \in Nat
      /\ pos + 1 \in 1 .. Len(Table) /\ vector \subseteq Column
  BY TableAssumption DEF SendsRow, FetchInv, TypeOK
<1>3. /\ vector' \subseteq Column
      /\ \A c \in Column \ vector' : pos > 0 /\ Table[pos + 1][c] = Table[pos][c]
  BY <1>2 DEF SendsRow, Vectors, Unchanged
<1>4. values \in [vector' -> Value]
  BY <1>2, <1>3, TableRows
<1>5. /\ response \in Seq(Message)
      /\ Vector(vector') \in Message /\ Row(values) \in Message
  <2> HIDE DEF values
  <2> QED BY <1>3, <1>4, Messages DEF FetchInv, TypeOK
<1>6. between \in Seq(Message) /\ response' = between \o <<Row(values)>>
  <2>1. CASE vector' = vector
    BY <1>5, <2>1, ConcatEmptySeq DEF SendsRow, Answer
  <2>2. CASE vector' # vector
    <3>1. response' = response \o (<<Vector(vector')>> \o <<Row(values)>>)
      BY <2>2 DEF SendsRow, Answer
    <3>2. /\ <<Vector(vector')>> \in Seq(Message) /\ <<Row(values)>> \in Seq(Message)
      <4> HIDE DEF values
      <4> QED BY <1>5
    <3> HIDE DEF values
    <3>3. response' = (response \o <<Vector(vector')>>) \o <<Row(values)>>
      BY <1>5, <3>1, <3>2, ConcatAssociative
    <3> QED BY <1>5, <2>2, <3>2, <3>3
  <2> QED BY <2>1, <2>2
<1>7. /\ \A i \in DOMAIN between : between[i].code \notin {"summary", "pause"}
      /\ Row(values).code = "row"
  <2>1. Row(values).code = "row" /\ Vector(vector').code = "vector"
    BY DEF Row, Vector
  <2> QED BY <1>1, <1>5, <2>1
<1> HIDE DEF between, values
<1>8. /\ response' \in Seq(Message)
      /\ \A i \in DOMAIN response' : response'[i].code \notin {"summary", "pause"}
  <2>1. /\ response' \in Seq(Message) /\ Len(response') = Len(between) + 1
        /\ \A i \in 1 .. Len(between) : response'[i] = between[i]
        /\ response'[Len(between) + 1] = Row(values)
        /\ DOMAIN response' = DOMAIN between \cup {Len(between) + 1}
        /\ DOMAIN between = 1 .. Len(between)
    BY <1>5, <1>6
  <2> QED BY <1>7, <2>1
<1>9. TypeOK'
  BY <1>2, <1>3, <1>8 DEF FetchInv, TypeOK, SendsRow, client
<1>10. Ahead'
  <2> SUFFICES ASSUME pc \in {"first", "batch"}
               PROVE  /\ Trace(response', Here', There')
                      /\ Len(rows) > 0 => prim = Table[Len(rows)]
    BY <1>1 DEF Ahead, SendsRow, client
  <2>1. Trace(response, Here, There) /\ (Len(rows) > 0 => prim = Table[Len(rows)])
    BY DEF FetchInv, Ahead
  <2>2. chosen \in View /\ There' \in View
    <3>1. pos' = pos + 1 /\ pos \in 0 .. Len(Table) /\ pos' \in 0 .. Len(Table)
      BY <1>2 DEF SendsRow
    <3> QED BY <1>3, <3>1 DEF View, There
  <2>3. Trace(between, Here, chosen)
    <3>1. CASE vector' = vector
      BY <2>1, <3>1 DEF between, There
    <3>2. CASE vector' # vector
      <4>1. Leads(There, Vector(vector'), chosen)
        BY DEF Leads, There, Vector
      <4> HIDE DEF chosen
      <4> QED BY <1>5, <2>1, <2>2, <3>2, <4>1, TraceAppend DEF between
    <3> QED BY <3>1, <3>2
  <2>4. Leads(chosen, Row(values), There')
    <3>1. Fits(chosen, values)
      BY <1>2, <1>3 DEF Fits, values
    <3> QED BY <3>1 DEF Leads, Row, There, SendsRow
  <2>5. Here' = Here
    BY DEF SendsRow, Here, client
  <2> HIDE DEF chosen
  <2> QED BY <1>5, <1>6, <2>1, <2>2, <2>3, <2>4, <2>5, TraceAppend
<1>11. Ends' /\ Asks'
  BY <1>1, <1>8, Requests DEF Ends, Asks, SendsRow
<1>12. Delivered' /\ Places'
  BY <1>1 DEF FetchInv, Delivered, Places, SendsRow, client
<1>13. Counts'
  BY <1>1, <1>2, <1>8, Requests DEF FetchInv, TypeOK, Counts, SendsRow, client
<1> QED BY <1>9, <1>10, <1>11, <1>12, <1>13 DEF FetchInv

-----------------------------------------------------------------------------
(* The theorems.                                                           *)

LEMMA StepInv == FetchInv /\ [Next]_vars => FetchInv'
<1> SUFFICES ASSUME FetchInv, [Next]_vars PROVE FetchInv'
  OBVIOUS
<1>1. CASE UNCHANGED vars
  BY <1>1
     DEF FetchInv, TypeOK, Delivered, Ahead, Ends, Asks, Places, Counts, Quiet, Here,
         There, vars, client, server
<1>2. CASE StartQuery \/ ConnReset
  BY <1>2, StartQueryStep, ConnResetStep
<1>3. CASE ClientStep
  BY <1>3, FetchMoreStep, FetchedAllStep, ReadDefineStep, ReadVectorStep, ReadRowStep,
     ReadPauseStep, ReadSummaryStep, DrainSummaryStep, DrainFailsStep, ReadFailsStep
     DEF ClientStep, ReadResponse
<1>4. CASE ServerStep \/ Pauses
  BY <1>4, ExecutesStep, FetchesStep, SendsRowStep, ResumesStep, SummarisesStep, PausesStep
     DEF ServerStep
<1> QED BY <1>1, <1>2, <1>3, <1>4 DEF Next, Finished

LEMMA InvHolds == Spec => []FetchInv
  BY InitInv, StepInv, PTL DEF Spec

\* The variables of a query keep their types, whatever is read: in particular
\* a row never gets a value that no row of the result has.
THEOREM FetchTypes == Spec => []TypeOK
<1>1. FetchInv => TypeOK
  BY DEF FetchInv
<1> QED BY <1>1, InvHolds, PTL

\* Whenever the client has read all that was sent to it, it has the columns,
\* the rows and the values the server thinks it has: read_response.
THEOREM ClientInStep == Spec => []InStep
<1>1. FetchInv => InStep
  BY Caught DEF InStep, FetchInv, Ahead
<1> QED BY <1>1, InvHolds, PTL

\* A fetch names the cursor that the server has for the query: fetch_more.
THEOREM CursorsKnown == Spec => []CursorKnown
<1>1. FetchInv => CursorKnown
  BY DEF CursorKnown, FetchInv, Asks
<1> QED BY <1>1, InvHolds, PTL

\* What query returns are the rows of the result, all of them in their order,
\* each with its own values, and no row arrives later: unless fetch_all gives
\* up after MaxBatches batches, for which a result needs as many rows.
THEOREM StreamImplemented ==
  ASSUME MaxBatches >= Len(Table)
  PROVE  Spec => ImplementsStream
<1>1. Init => Stream!Init
  BY DEF Init, Stream!Init
<1>2. ASSUME FetchInv, [Next]_vars PROVE [Stream!Next]_(Stream!vars)
  <2>1. CASE UNCHANGED rows /\ UNCHANGED pc
    BY <2>1 DEF Stream!vars
  <2>2. CASE UNCHANGED rows /\ pc' \notin {"done", "raised"} /\ pc \notin {"done", "raised"}
    BY <2>2 DEF Stream!vars
  <2>3. CASE UNCHANGED rows /\ pc' = "raised" /\ pc \notin {"done", "raised"}
    BY <2>3 DEF Stream!Next, Stream!Fail
  <2>4. CASE UNCHANGED rows /\ pc' = "done" /\ pc \notin {"done", "raised"} /\ rows = Table
    BY <2>4 DEF Stream!Next, Stream!Complete
  <2>5. CASE StartQuery
    BY <2>2, <2>5 DEF StartQuery
  <2>6. CASE FetchMore
    BY <2>2, <2>6 DEF FetchMore
  <2>7. CASE FetchedAll
    <3>1. /\ ~hasMore => Len(rows) = Len(Table)
          /\ Len(rows) >= guard /\ Len(rows) <= Len(Table)
      BY <1>2, <2>7 DEF FetchInv, Counts, Delivered, FetchedAll
    <3>2. Len(rows) = Len(Table)
      BY <1>2, <2>7, <3>1, TableAssumption, SizesAssumption
         DEF FetchedAll, FetchInv, TypeOK
    <3>3. rows = Table
      BY <1>2, <3>2, TableAssumption, SeqEqual DEF FetchInv, TypeOK, Delivered
    <3> QED BY <2>4, <2>7, <3>3 DEF FetchedAll
  <2>8. CASE ReadDefine \/ ReadVector \/ ReadPause
    BY <2>1, <2>8 DEF ReadDefine, ReadVector, ReadPause, client
  <2>9. CASE ReadRow
    <3>1. Len(rows) < Len(Table) /\ rows' = Append(rows, Table[Len(rows) + 1])
      BY <1>2, <2>9, ReadRowStep
    <3>2. pc' = pc /\ pc \notin {"done", "raised"}
      BY <2>9 DEF ReadRow, Take, Reading
    <3> QED BY <3>1, <3>2 DEF Stream!Next, Stream!Deliver
  <2>10. CASE ReadSummary
    <3>1. /\ UNCHANGED rows /\ pc \notin {"done", "raised"}
          /\ pc' = "done" => rows = Table
      BY <1>2, <2>10, ReadSummaryStep DEF ReadSummary, Take, Reading
    <3> QED BY <2>2, <2>3, <2>4, <3>1
  <2>11. CASE DrainSummary \/ DrainFails \/ ReadFails \/ ConnReset
    <3>1. /\ UNCHANGED rows /\ pc \notin {"done", "raised"}
          /\ pc' \in {"drain", "again", "raised"}
      BY <2>11 DEF DrainSummary, DrainFails, ReadFails, ConnReset, Reading
    <3> QED BY <2>2, <2>3, <3>1
  <2>12. CASE ServerStep \/ Pauses
    BY <2>1, <2>12
       DEF ServerStep, Executes, Fetches, SendsRow, Resumes, Summarises, Pauses, client
  <2>13. CASE UNCHANGED vars
    BY <2>1, <2>13 DEF vars, client
  <2> QED BY <1>2, <2>5, <2>6, <2>7, <2>8, <2>9, <2>10, <2>11, <2>12, <2>13
          DEF Next, ClientStep, ReadResponse, Finished
<1> QED BY <1>1, <1>2, InvHolds, PTL DEF Spec, ImplementsStream, Stream!Spec
=============================================================================
