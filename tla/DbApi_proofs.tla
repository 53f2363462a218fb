---------------------------- MODULE DbApi_proofs ----------------------------
(***************************************************************************)
(* Proofs about DbApi.tla: whatever the cursors, the results and the order *)
(* of executes and fetches, each cursor delivers its own rows, a request   *)
(* holds its own statement, and a change whose call returned is durable.   *)
(* The types need what executemany adds up, a recursive function: its      *)
(* values are had by induction in the form Nat \subseteq S.                *)
(***************************************************************************)
EXTENDS DbApi, SequenceTheorems, WellFoundedInduction, TLAPS

-----------------------------------------------------------------------------
(* The invariant on the cursors.                                           *)

\* A cursor is a record, and the histories belong to cursors.
Shape ==
  /\ cursor = [c \in Cursor |-> [rows |-> cursor[c].rows,
                 index |-> cursor[c].index, rowcount |-> cursor[c].rowcount]]
  /\ result \in [Cursor -> Seq(Nat)]
  /\ delivered \in [Cursor -> Seq(Nat)]

\* A cursor has the rows of its latest execute, or has been closed, and its
\* index is one of them or the end.
RowsAreResult ==
  \A c \in Cursor :
    /\ cursor[c].rows \in {<<>>, result[c]}
    /\ cursor[c].index \in 0 .. Len(result[c])

CursorInv == Shape /\ RowsAreResult /\ DeliversOwnRows

\* Fetching n rows goes on where the cursor is.
LEMMA TakeKeepsInv ==
  ASSUME CursorInv, NEW c \in Cursor, NEW n \in Nat, Take(c, n),
         UNCHANGED result
  PROVE  CursorInv'
<1> DEFINE rows == cursor[c].rows
           index == cursor[c].index
           got == Lesser(n, Left(c))
<1>1. /\ cursor[c] = [rows |-> rows, index |-> index,
                      rowcount |-> cursor[c].rowcount]
      /\ result[c] \in Seq(Nat) /\ delivered[c] \in Seq(Nat)
      /\ rows \in {<<>>, result[c]} /\ index \in 0 .. Len(result[c])
      /\ delivered[c] = SubSeq(result[c], 1, index)
  BY DEF CursorInv, Shape, RowsAreResult, DeliversOwnRows
<1>2. Len(result[c]) \in Nat
  BY <1>1, LenProperties
<1>3. /\ got \in Nat /\ index + got \in 0 .. Len(result[c])
      /\ rows = <<>> => got = 0
  <2>1. CASE rows = <<>>
    <3>1. Left(c) = 0
      BY <2>1, <1>1, <1>2, EmptySeq DEF Left
    <3> QED BY <3>1, <2>1, <1>1, <1>2 DEF Lesser
  <2>2. CASE rows # <<>>
    <3>1. rows = result[c]
      BY <2>2, <1>1
    <3>2. Left(c) = Len(result[c]) - index
      BY <3>1, <1>1, <1>2 DEF Left
    <3> QED BY <3>2, <2>2, <1>1, <1>2 DEF Lesser
  <2> QED BY <2>1, <2>2
<1>4. SubSeq(rows, index + 1, index + got)
        = SubSeq(result[c], index + 1, index + got)
  <2>1. CASE rows = result[c]
    BY <2>1
  <2>2. CASE rows # result[c]
    <3>1. rows = <<>> /\ got = 0
      BY <2>2, <1>1, <1>3
    <3>2. index + got < index + 1 /\ index + 1 \in Int /\ index + got \in Int
      BY <3>1, <1>1, <1>2
    <3> QED BY <3>2, SubSeqEmpty
  <2> QED BY <2>1, <2>2
<1>5. delivered[c] \o SubSeq(rows, index + 1, index + got)
        = SubSeq(result[c], 1, index + got)
  <2>1. /\ 1 \in 1 .. Len(result[c]) + 1
        /\ index \in 1 - 1 .. Len(result[c])
        /\ index + got \in index .. Len(result[c])
    BY <1>1, <1>2, <1>3
  <2>2. SubSeq(result[c], 1, index) \o SubSeq(result[c], index + 1, index + got)
          = SubSeq(result[c], 1, index + got)
    BY <2>1, <1>1, ConcatAdjacentSubSeq
  <2> QED BY <2>2, <1>1, <1>4
<1>6. SubSeq(result[c], 1, index + got) \in Seq(Nat)
  <2>1. \A i \in 1 .. index + got : result[c][i] \in Nat
    BY <1>1, <1>2, <1>3, ElementOfSeq
  <2> QED BY <2>1, <1>1, <1>2, <1>3, SubSeqProperties
<1>7. /\ cursor' = [cursor EXCEPT ![c].index = index + got]
      /\ delivered' = [delivered EXCEPT ![c] = SubSeq(result[c], 1, index + got)]
      /\ result' = result
  BY <1>5 DEF Take
<1>8. \A d \in Cursor :
        cursor'[d] = IF d = c
          THEN [rows |-> rows, index |-> index + got,
                rowcount |-> cursor[c].rowcount]
          ELSE cursor[d]
  BY <1>1, <1>7 DEF CursorInv, Shape
<1>9. Shape'
  <2>1. cursor' = [d \in Cursor |-> cursor'[d]]
    BY <1>7 DEF CursorInv, Shape
  <2>2. \A d \in Cursor : cursor'[d] = [rows |-> cursor'[d].rows,
          index |-> cursor'[d].index, rowcount |-> cursor'[d].rowcount]
    BY <1>8 DEF CursorInv, Shape
  <2> QED BY <2>1, <2>2, <1>6, <1>7 DEF CursorInv, Shape
<1>10. RowsAreResult'
  BY <1>1, <1>3, <1>7, <1>8 DEF CursorInv, RowsAreResult
<1>11. DeliversOwnRows'
  BY <1>7, <1>8 DEF CursorInv, Shape, DeliversOwnRows
<1> QED BY <1>9, <1>10, <1>11 DEF CursorInv

\* execute puts a cursor before the first of its new rows.
LEMMA ExecutedKeepsInv ==
  ASSUME CursorInv, NEW c \in Cursor, NEW rows \in Seq(Nat), NEW rowcount,
         Executed(c, rows, rowcount)
  PROVE  CursorInv'
<1>1. \A d \in Cursor :
        cursor'[d] = IF d = c
          THEN [rows |-> rows, index |-> 0, rowcount |-> rowcount]
          ELSE cursor[d]
  BY DEF CursorInv, Shape, Executed
<1>2. /\ result' = [result EXCEPT ![c] = rows]
      /\ delivered' = [delivered EXCEPT ![c] = <<>>]
  BY DEF Executed
<1>3. <<>> \in Seq(Nat) /\ Len(rows) \in Nat /\ SubSeq(rows, 1, 0) = <<>>
  BY LenProperties, EmptySeq, SubSeqEmpty
<1>4. Shape'
  <2>1. cursor' = [d \in Cursor |-> cursor'[d]]
    BY DEF CursorInv, Shape, Executed
  <2>2. \A d \in Cursor : cursor'[d] = [rows |-> cursor'[d].rows,
          index |-> cursor'[d].index, rowcount |-> cursor'[d].rowcount]
    BY <1>1 DEF CursorInv, Shape
  <2> QED BY <2>1, <2>2, <1>2, <1>3 DEF CursorInv, Shape
<1>5. \A d \in Cursor :
        /\ result'[d] = IF d = c THEN rows ELSE result[d]
        /\ delivered'[d] = IF d = c THEN <<>> ELSE delivered[d]
  BY <1>2 DEF CursorInv, Shape
<1>6. ASSUME NEW d \in Cursor
      PROVE  /\ cursor'[d].rows \in {<<>>, result'[d]}
             /\ cursor'[d].index \in 0 .. Len(result'[d])
             /\ delivered'[d] = SubSeq(result'[d], 1, cursor'[d].index)
  <2>1. CASE d = c
    <3>1. cursor'[d].rows = rows /\ cursor'[d].index = 0
      BY <1>1, <2>1
    <3>2. result'[d] = rows /\ delivered'[d] = <<>>
      BY <1>5, <2>1
    <3>3. 0 \in 0 .. Len(rows)
      BY <1>3
    <3> QED BY <3>1, <3>2, <3>3, <1>3
  <2>2. CASE d # c
    <3>1. cursor'[d] = cursor[d] /\ result'[d] = result[d]
            /\ delivered'[d] = delivered[d]
      BY <1>1, <1>5, <2>2
    <3> QED BY <3>1 DEF CursorInv, RowsAreResult, DeliversOwnRows
  <2> QED BY <2>1, <2>2
<1>7. RowsAreResult' /\ DeliversOwnRows'
  BY <1>6 DEF RowsAreResult, DeliversOwnRows
<1> QED BY <1>4, <1>7 DEF CursorInv

\* What leaves index and histories alone, and the rows unless it takes them.
LEMMA OthersKeepInv ==
  ASSUME CursorInv, NEW c \in Cursor, CloseCursor(c) \/ ExecuteNone(c)
  PROVE  CursorInv'
<1>1. \A d \in Cursor : cursor[d] = [rows |-> cursor[d].rows,
        index |-> cursor[d].index, rowcount |-> cursor[d].rowcount]
  BY DEF CursorInv, Shape
<1>2. cursor = [d \in Cursor |-> cursor[d]]
  BY DEF CursorInv, Shape
<1>3. ASSUME NEW d \in Cursor
      PROVE  /\ cursor'[d] = [rows |-> cursor'[d].rows,
                   index |-> cursor[d].index, rowcount |-> cursor'[d].rowcount]
             /\ cursor'[d].rows \in {<<>>, cursor[d].rows}
             /\ cursor'[d].index = cursor[d].index
  <2>1. CASE CloseCursor(c)
    <3>1. cursor' = [cursor EXCEPT ![c].rows = <<>>]
      BY <2>1 DEF CloseCursor
    <3>2. cursor'[d] = IF d = c
            THEN [rows |-> <<>>, index |-> cursor[d].index,
                  rowcount |-> cursor[d].rowcount]
            ELSE cursor[d]
      BY <3>1, <1>1, <1>2
    <3> QED BY <3>2, <1>1
  <2>2. CASE ExecuteNone(c)
    <3>1. cursor' = [cursor EXCEPT ![c].rowcount = 0]
      BY <2>2 DEF ExecuteNone
    <3>2. cursor'[d] = IF d = c
            THEN [rows |-> cursor[d].rows, index |-> cursor[d].index,
                  rowcount |-> 0]
            ELSE cursor[d]
      BY <3>1, <1>1, <1>2
    <3> QED BY <3>2, <1>1
  <2> QED BY <2>1, <2>2
<1>4. cursor' = [d \in Cursor |-> cursor'[d]]
  BY <1>2 DEF CloseCursor, ExecuteNone
<1>5. result' = result /\ delivered' = delivered
  BY DEF CloseCursor, ExecuteNone
<1>6. Shape'
  BY <1>3, <1>4, <1>5 DEF CursorInv, Shape
<1>7. ASSUME NEW d \in Cursor
      PROVE  /\ cursor'[d].rows \in {<<>>, result'[d]}
             /\ cursor'[d].index \in 0 .. Len(result'[d])
             /\ delivered'[d] = SubSeq(result'[d], 1, cursor'[d].index)
  <2>1. /\ cursor[d].rows \in {<<>>, result[d]}
        /\ cursor[d].index \in 0 .. Len(result[d])
        /\ delivered[d] = SubSeq(result[d], 1, cursor[d].index)
    BY DEF CursorInv, RowsAreResult, DeliversOwnRows
  <2> QED BY <2>1, <1>3, <1>5
<1>8. RowsAreResult' /\ DeliversOwnRows'
  BY <1>7 DEF RowsAreResult, DeliversOwnRows
<1> QED BY <1>6, <1>8 DEF CursorInv

\* No cursor has a row or an index at first.
LEMMA CursorInvInit == Init => CursorInv
<1> SUFFICES ASSUME Init PROVE CursorInv
  OBVIOUS
<1>1. <<>> \in Seq(Nat) /\ Len(<<>>) = 0 /\ SubSeq(<<>>, 1, 0) = <<>>
  BY EmptySeq, SubSeqEmpty
<1> QED BY <1>1 DEF Init, CursorInv, Shape, RowsAreResult, DeliversOwnRows

\* Every call of every cursor keeps the invariant.
LEMMA CursorInvStep == CursorInv /\ [Next]_vars => CursorInv'
<1> SUFFICES ASSUME CursorInv, [Next]_vars PROVE CursorInv'
  OBVIOUS
<1>1. CASE UNCHANGED cursors
  BY <1>1 DEF cursors, CursorInv, Shape, RowsAreResult, DeliversOwnRows
<1>2. ASSUME NEW c \in Cursor, ExecuteQuery(c) PROVE CursorInv'
  BY <1>2, ExecutedKeepsInv, ResultAssumption DEF ExecuteQuery
<1>3. ASSUME NEW c \in Cursor, ExecuteMany(c) PROVE CursorInv'
  <2>1. PICK n \in 1 .. MaxMany : \E results \in [1 .. n -> Result] :
          \/ Executed(c, results[n], TotalOf(results))
          \/ Executed(c, results[n], RowCount(results[n]))
    BY <1>3 DEF ExecuteMany
  <2>2. PICK results \in [1 .. n -> Result] :
          \/ Executed(c, results[n], TotalOf(results))
          \/ Executed(c, results[n], RowCount(results[n]))
    BY <2>1
  <2>3. results[n] \in Seq(Nat)
    BY <2>2, ResultAssumption, BoundsAssumption
  <2> QED BY <2>2, <2>3, ExecutedKeepsInv
<1>4. ASSUME NEW c \in Cursor, ExecuteCall(c) PROVE CursorInv'
  <2>1. <<>> \in Seq(Nat)
    BY EmptySeq
  <2> QED BY <1>4, <1>1, <2>1, ExecutedKeepsInv DEF ExecuteCall
<1>5. ASSUME NEW c \in Cursor, Fetches(c) PROVE CursorInv'
  <2>1. PICK n \in Nat : Take(c, n)
    <3>1. Left(c) \in Nat
      <4>1. /\ cursor[c].index \in Nat /\ Len(cursor[c].rows) \in Nat
        BY EmptySeq, LenProperties DEF CursorInv, Shape, RowsAreResult
      <4> QED BY <4>1 DEF Left
    <3>2. CASE FetchOne(c)
      BY <3>2 DEF FetchOne
    <3>3. CASE FetchMany(c)
      BY <3>3, BoundsAssumption DEF FetchMany
    <3>4. CASE FetchAll(c)
      BY <3>4, <3>1 DEF FetchAll
    <3> QED BY <1>5, <3>2, <3>3, <3>4 DEF Fetches
  <2>2. UNCHANGED result
    BY <1>5 DEF Fetches
  <2> QED BY <2>1, <2>2, TakeKeepsInv
<1>6. ASSUME NEW c \in Cursor, CloseCursor(c) \/ ExecuteNone(c)
      PROVE  CursorInv'
  BY <1>6, OthersKeepInv
<1>7. CASE \/ QueryFails \/ ExecuteRaises \/ ExecRaises
           \/ \E statement \in Text : Exec(statement) \/ ExecFails(statement)
           \/ Commit \/ Rollback \/ Close \/ UNCHANGED vars
  BY <1>1, <1>7 DEF QueryFails, ExecuteRaises, ExecRaises, Exec, ExecFails,
                    Commit, Rollback, Close, vars
<1> QED BY <1>2, <1>3, <1>4, <1>5, <1>6, <1>7 DEF Next

\* Every cursor delivers the rows of its own latest query, in order, none twice
\* and none left out, for any number of cursors and any results.
THEOREM CursorsDeliver == Spec => []DeliversOwnRows
<1>1. CursorInv => DeliversOwnRows
  BY DEF CursorInv
<1> QED BY <1>1, CursorInvInit, CursorInvStep, PTL DEF Spec

-----------------------------------------------------------------------------
(* The requests and the changes.                                           *)

\* A request holds its own statement, also after calls that raised with
\* out_buffer filled.
THEOREM RequestsAreOwn == Spec => []SendsOwnStatement
<1>1. Init => SendsOwnStatement
  BY DEF Init, SendsOwnStatement
<1>2. SendsOwnStatement /\ [Next]_vars => SendsOwnStatement'
  <2> SUFFICES ASSUME SendsOwnStatement, [Next]_vars PROVE SendsOwnStatement'
    OBVIOUS
  <2>1. ASSUME NEW statement, Write(statement) PROVE SendsOwnStatement'
    BY <2>1 DEF Write, SendsOwnStatement
  <2>2. ASSUME NEW statement, NEW binds, WriteRaises(statement, binds)
        PROVE  SendsOwnStatement'
    BY <2>2 DEF WriteRaises, SendsOwnStatement
  <2>3. CASE UNCHANGED <<call, received>>
    BY <2>3 DEF SendsOwnStatement
  <2>4. ASSUME NEW c \in Cursor,
               Fetches(c) \/ CloseCursor(c) \/ ExecuteNone(c)
        PROVE  SendsOwnStatement'
    BY <2>3, <2>4 DEF Fetches, CloseCursor, ExecuteNone, link
  <2>5. ASSUME NEW c \in Cursor,
               ExecuteQuery(c) \/ ExecuteCall(c) \/ ExecuteMany(c)
        PROVE  SendsOwnStatement'
    BY <2>1, <2>5 DEF ExecuteQuery, ExecuteCall, ExecuteMany, Sends
  <2>6. CASE QueryFails \/ Commit \/ Rollback
    BY <2>1, <2>6 DEF QueryFails, Commit, Rollback, Sends
  <2>7. CASE ExecuteRaises \/ ExecRaises
    BY <2>2, <2>7 DEF ExecuteRaises, ExecRaises
  <2>8. ASSUME NEW statement \in Text,
               Exec(statement) \/ ExecFails(statement)
        PROVE  SendsOwnStatement'
    BY <2>1, <2>8 DEF Exec, ExecFails
  <2>9. CASE Close \/ UNCHANGED vars
    BY <2>3, <2>9 DEF Close, vars, link
  <2> QED BY <2>4, <2>5, <2>6, <2>7, <2>8, <2>9 DEF Next
<1> QED BY <1>1, <1>2, PTL DEF Spec

\* What is neither a query nor a CALL commits by itself, unless it is misread.
LEMMA ChangesCommit ==
  ASSUME NEW statement, statement.word \in Changing, statement.word # "CALL",
         statement.lead # "misread"
  PROVE  AutoCommits(statement)
<1>1. statement.word \in {"INSERT", "BEGIN"} /\ statement.word \notin Queries
  BY DEF Changing, Queries
<1>2. CASE statement.word = "INSERT"
  <2>1. StmtType(statement) = "DML"
    BY <1>1, <1>2, Zenon DEF StmtType
  <2> QED BY <2>1 DEF AutoCommits
<1>3. CASE statement.word = "BEGIN"
  <2>1. "BEGIN" # "INSERT"
    OBVIOUS
  <2>2. StmtType(statement) = "PLSQL"
    BY <1>1, <1>3, <2>1, Zenon DEF StmtType
  <2> QED BY <2>2 DEF AutoCommits
<1> QED BY <1>1, <1>2, <1>3

\* What is durable stays so, whatever else is changed.
LEMMA ChangesKeep ==
  ASSUME NEW statement, Changes(statement)
  PROVE  durable \subseteq durable'
BY Zenon DEF Changes

\* With auto_commit, which nothing turns off, a change of a statement that the
\* driver recognises is durable when its call returns: no rollback and no close
\* takes it away.
THEOREM ChangesAreDurable == Spec => []ReturnedMeansDurable
<1>1. Init => ReturnedMeansDurable
  BY DEF Init, ReturnedMeansDurable
<1>2. ReturnedMeansDurable /\ [Next]_vars => ReturnedMeansDurable'
  <2> SUFFICES ASSUME ReturnedMeansDurable, [Next]_vars
               PROVE  ReturnedMeansDurable'
    OBVIOUS
  <2>1. CASE returned' = returned /\ durable \subseteq durable'
    BY <2>1 DEF ReturnedMeansDurable
  <2>2. ASSUME NEW c \in Cursor,
               \/ ExecuteQuery(c) \/ ExecuteMany(c) \/ ExecuteNone(c)
               \/ Fetches(c) \/ CloseCursor(c)
        PROVE  ReturnedMeansDurable'
    BY <2>1, <2>2 DEF ExecuteQuery, ExecuteMany, ExecuteNone, Fetches,
                      CloseCursor, data
  <2>3. CASE QueryFails \/ ExecuteRaises \/ ExecRaises \/ Rollback \/ Close
    BY <2>1, <2>3 DEF QueryFails, ExecuteRaises, ExecRaises, Rollback, Close,
                      data
  <2>4. ASSUME NEW statement \in Text, Exec(statement)
        PROVE  ReturnedMeansDurable'
    <3>1. /\ returned' = returned \cup
               {[change |-> changes', statement |-> statement]}
          /\ durable \subseteq durable'
      BY <2>4, ChangesKeep DEF Exec, Returns
    <3>2. ASSUME statement.word # "CALL", statement.lead # "misread" PROVE changes' \in durable'
      <4>1. AutoCommits(statement)
        BY <2>4, <3>2, ChangesCommit DEF Exec
      <4> QED BY <4>1, <2>4, Zenon DEF Exec, Changes
    <3> QED BY <3>1, <3>2 DEF ReturnedMeansDurable
  <2>5. ASSUME NEW c \in Cursor, ExecuteCall(c) PROVE ReturnedMeansDurable'
    <3>1. durable \subseteq durable'
      BY <2>5, ChangesKeep DEF ExecuteCall
    <3>2. CASE returned' = returned
      BY <2>1, <3>1, <3>2
    <3>3. CASE Returns(Said("CALL"))
      BY <3>1, <3>3 DEF Returns, Said, ReturnedMeansDurable
    <3> QED BY <2>5, <3>2, <3>3 DEF ExecuteCall
  <2>6. ASSUME NEW statement, ExecFails(statement) PROVE ReturnedMeansDurable'
    BY <2>1, <2>6 DEF ExecFails, data
  <2>7. CASE Commit
    BY <2>1, <2>7 DEF Commit
  <2>8. CASE UNCHANGED vars
    BY <2>1, <2>8 DEF vars, data
  <2> QED BY <2>2, <2>3, <2>4, <2>5, <2>6, <2>7, <2>8 DEF Next
<1> QED BY <1>1, <1>2, PTL DEF Spec

-----------------------------------------------------------------------------
(* Induction.  The library states it for an operator; with a set, which an *)
(* SMT solver can be given, it follows from a least counterexample.        *)

\* A set of natural numbers has a least element.
LEMMA LeastElement ==
  ASSUME NEW T, T \subseteq Nat, T # {}
  PROVE  \E m \in T : \A k \in T : m <= k
<1> DEFINE Less == {p \in Nat \X Nat : p[1] < p[2]}
<1>1. IsWellFoundedOn(Less, Nat)
  BY NatLessThanWellFounded DEF OpToRel
<1>2. PICK m \in T : \A k \in T : ~ (<<k, m>> \in Less)
  <2> HIDE DEF Less
  <2> QED BY <1>1, WFMin
<1>3. ASSUME NEW k \in T PROVE m <= k
  <2>1. k \in Nat /\ m \in Nat
    OBVIOUS
  <2>2. ~(k < m)
    BY <1>2, <2>1
  <2> QED BY <2>1, <2>2
<1> QED BY <1>3

\* A set with 0 and with the successor of every number in it has them all.
LEMMA Induction ==
  ASSUME NEW S, 0 \in S, \A n \in Nat : n \in S => n + 1 \in S
  PROVE  Nat \subseteq S
<1> DEFINE T == Nat \ S
<1>1. SUFFICES ASSUME T # {} PROVE FALSE
  OBVIOUS
<1>2. PICK m \in T : \A k \in T : m <= k
  <2>1. T \subseteq Nat
    OBVIOUS
  <2> HIDE DEF T
  <2> QED BY <1>1, <2>1, LeastElement
<1>3. m \in Nat /\ m \notin S /\ m # 0
  OBVIOUS
<1>4. m - 1 \in Nat /\ m = (m - 1) + 1 /\ ~(m <= m - 1)
  BY <1>3
<1>5. m - 1 \in S
  BY <1>2, <1>4
<1> QED BY <1>3, <1>4, <1>5

-----------------------------------------------------------------------------
(* The types.                                                              *)

\* There is a function that adds up as TotalOf does.
LEMMA SumExists ==
  ASSUME NEW N \in Nat, NEW count \in [1 .. N -> Nat]
  PROVE  \E f \in [0 .. N -> Nat] :
           \A n \in 0 .. N : f[n] = IF n = 0 THEN 0 ELSE f[n - 1] + count[n]
<1> DEFINE Sums(k) ==
             \E f \in [0 .. k -> Nat] :
               \A n \in 0 .. k :
                 f[n] = IF n = 0 THEN 0 ELSE f[n - 1] + count[n]
           S == {k \in Nat : k <= N => Sums(k)}
<1>1. 0 \in S
  <2> DEFINE f == [n \in 0 .. 0 |-> 0]
  <2>1. /\ f \in [0 .. 0 -> Nat]
        /\ \A n \in 0 .. 0 : f[n] = IF n = 0 THEN 0 ELSE f[n - 1] + count[n]
    OBVIOUS
  <2> QED BY <2>1
<1>2. ASSUME NEW k \in Nat, k + 1 <= N, Sums(k) PROVE Sums(k + 1)
  <2>1. PICK f \in [0 .. k -> Nat] :
          \A n \in 0 .. k : f[n] = IF n = 0 THEN 0 ELSE f[n - 1] + count[n]
    BY <1>2
  <2> DEFINE g == [n \in 0 .. k + 1 |->
                     IF n = k + 1 THEN f[k] + count[k + 1] ELSE f[n]]
  <2>2. g \in [0 .. k + 1 -> Nat]
    <3>1. k + 1 \in 1 .. N /\ count[k + 1] \in Nat
      BY <1>2
    <3>2. \A n \in 0 .. k : f[n] \in Nat
      OBVIOUS
    <3>3. \A n \in 0 .. k + 1 : n = k + 1 \/ n \in 0 .. k
      OBVIOUS
    <3> QED BY <3>1, <3>2, <3>3
  <2>3. ASSUME NEW n \in 0 .. k + 1
        PROVE  g[n] = IF n = 0 THEN 0 ELSE g[n - 1] + count[n]
    <3>1. CASE n = k + 1
      <4>1. g[n] = f[k] + count[n] /\ g[n - 1] = f[k] /\ n # 0
        BY <3>1
      <4> QED BY <4>1
    <3>2. CASE n # k + 1 /\ n # 0
      <4>1. n \in 0 .. k /\ n - 1 \in 0 .. k
        BY <3>2
      <4>2. g[n] = f[n] /\ g[n - 1] = f[n - 1]
        BY <4>1
      <4> QED BY <2>1, <3>2, <4>1, <4>2
    <3>3. CASE n = 0
      BY <2>1, <3>3
    <3> QED BY <3>1, <3>2, <3>3
  <2> QED BY <2>2, <2>3
<1>3. \A k \in Nat : k \in S => k + 1 \in S
  <2> HIDE DEF Sums
  <2> QED BY <1>2
<1>4. Nat \subseteq S
  <2> HIDE DEF S
  <2> QED BY <1>1, <1>3, Induction
<1>5. Sums(N)
  <2> HIDE DEF Sums
  <2>1. N \in S
    <3> HIDE DEF S
    <3> QED BY <1>4
  <2> QED BY <2>1
<1> QED BY <1>5

\* What executemany adds up is a number of rows.
LEMMA TotalIsNat ==
  ASSUME NEW results, Len(results) \in Nat,
         \A n \in 1 .. Len(results) : results[n] \in Seq(Nat)
  PROVE  TotalOf(results) \in Nat
<1> DEFINE N == Len(results)
           count == [n \in 1 .. N |-> Counted(results[n])]
           Sum(f) == [n \in 0 .. N |->
                        IF n = 0 THEN 0 ELSE f[n - 1] + Counted(results[n])]
           sum == CHOOSE f : f = Sum(f)
<1>1. count \in [1 .. N -> Nat]
  BY LenProperties DEF Counted
<1>2. \E f : f = Sum(f)
  <2>1. PICK f \in [0 .. N -> Nat] :
          \A n \in 0 .. N : f[n] = IF n = 0 THEN 0 ELSE f[n - 1] + count[n]
    <3> HIDE DEF count
    <3> QED BY <1>1, SumExists
  <2>2. \A n \in 0 .. N : n # 0 => count[n] = Counted(results[n])
    OBVIOUS
  <2>3. f = [n \in 0 .. N |-> f[n]]
    OBVIOUS
  <2> HIDE DEF count
  <2>4. f = Sum(f)
    BY <2>1, <2>2, <2>3
  <2> QED BY <2>4
<1>3. sum = Sum(sum)
  <2> HIDE DEF Sum
  <2> QED BY <1>2
<1>4. TotalOf(results) = sum[N]
  BY Zenon DEF TotalOf
<1>5. sum[N] \in Nat
  <2> DEFINE S == {n \in Nat : n <= N => sum[n] \in Nat}
  <2>1. \A n \in 0 .. N :
          sum[n] = IF n = 0 THEN 0 ELSE sum[n - 1] + count[n]
    <3> HIDE DEF sum
    <3> QED BY <1>3
  <2> HIDE DEF sum, count
  <2>2. 0 \in S
    BY <2>1
  <2>3. ASSUME NEW n \in Nat, n \in S PROVE n + 1 \in S
    <3>1. SUFFICES ASSUME n + 1 <= N PROVE sum[n + 1] \in Nat
      OBVIOUS
    <3>2. n + 1 \in 0 .. N /\ n + 1 # 0 /\ n + 1 \in 1 .. N /\ (n + 1) - 1 = n
      BY <3>1
    <3>3. sum[n] \in Nat
      BY <2>3, <3>1
    <3>4. sum[n + 1] = sum[n] + count[n + 1]
      BY <2>1, <3>2
    <3>5. count[n + 1] \in Nat
      BY <1>1, <3>2
    <3> QED BY <3>3, <3>4, <3>5
  <2>4. Nat \subseteq S
    <3> HIDE DEF S
    <3> QED BY <2>2, <2>3, Induction
  <2> QED BY <2>4
<1> QED BY <1>4, <1>5

\* The row counts are numbers, or -1 for none.
CountsOK == \A c \in Cursor : cursor[c].rowcount \in Nat \cup {-1}

\* The part of TypeOK about the connection.
CallTypes ==
  /\ session \in BOOLEAN /\ closed \in BOOLEAN
  /\ call \in [statement : Statement, sent : BOOLEAN]
  /\ received \in Seq(Statement) /\ outBuffer \in Seq(Statement)

\* The part of TypeOK about what is changed.
ChangeTypes ==
  /\ pending \subseteq 1 .. changes /\ durable \subseteq 1 .. changes
  /\ returned \subseteq [change : 1 .. changes, statement : ChangingStatement]
  /\ changes \in 0 .. MaxChanges

\* An execute leaves the count it is given.
LEMMA ExecutedCounts ==
  ASSUME CursorInv, CountsOK, NEW c \in Cursor, NEW rows,
         NEW rowcount \in Nat \cup {-1}, Executed(c, rows, rowcount)
  PROVE  CountsOK'
<1>1. \A d \in Cursor :
        cursor'[d].rowcount = IF d = c THEN rowcount ELSE cursor[d].rowcount
  BY DEF CursorInv, Shape, Executed
<1> QED BY <1>1 DEF CountsOK

\* Every call leaves a count.
LEMMA CountsStep == CursorInv /\ CountsOK /\ [Next]_vars => CountsOK'
<1> SUFFICES ASSUME CursorInv, CountsOK, [Next]_vars PROVE CountsOK'
  OBVIOUS
<1>1. CASE UNCHANGED cursor
  BY <1>1 DEF CountsOK
<1>2. \A rows \in Seq(Nat) : RowCount(rows) \in Nat \cup {-1}
  BY LenProperties DEF RowCount
<1>3. ASSUME NEW c \in Cursor, ExecuteQuery(c) PROVE CountsOK'
  <2>1. PICK rows \in Result : Executed(c, rows, RowCount(rows))
    BY <1>3 DEF ExecuteQuery
  <2>2. RowCount(rows) \in Nat \cup {-1}
    BY <1>2, ResultAssumption
  <2> QED BY <2>1, <2>2, ExecutedCounts
<1>4. ASSUME NEW c \in Cursor, ExecuteMany(c) PROVE CountsOK'
  <2>1. PICK n \in 1 .. MaxMany : \E results \in [1 .. n -> Result] :
          \/ Executed(c, results[n], TotalOf(results))
          \/ Executed(c, results[n], RowCount(results[n]))
    BY <1>4 DEF ExecuteMany
  <2>2. PICK results \in [1 .. n -> Result] :
          \/ Executed(c, results[n], TotalOf(results))
          \/ Executed(c, results[n], RowCount(results[n]))
    BY <2>1
  <2>3. n \in Nat /\ n \in 1 .. n
    BY BoundsAssumption
  <2>4. \A i \in 1 .. n : results[i] \in Seq(Nat)
    BY ResultAssumption
  <2>5. Len(results) = n
    BY <2>3
  <2>6. TotalOf(results) \in Nat
    BY <2>3, <2>4, <2>5, TotalIsNat
  <2>7. RowCount(results[n]) \in Nat \cup {-1}
    BY <1>2, <2>3, <2>4
  <2> QED BY <2>2, <2>6, <2>7, ExecutedCounts
<1>5. ASSUME NEW c \in Cursor, ExecuteCall(c) PROVE CountsOK'
  <2>1. CASE Executed(c, <<>>, RowCount(<<>>))
    BY <1>2, <2>1, ExecutedCounts, EmptySeq
  <2> QED BY <1>1, <1>5, <2>1 DEF ExecuteCall, cursors
<1>6. ASSUME NEW c \in Cursor, NEW n, Take(c, n) PROVE CountsOK'
  <2>1. \A d \in Cursor : cursor'[d].rowcount = cursor[d].rowcount
    BY <1>6 DEF CursorInv, Shape, Take
  <2> QED BY <2>1 DEF CountsOK
<1>7. ASSUME NEW c \in Cursor, Fetches(c) PROVE CountsOK'
  BY <1>6, <1>7 DEF Fetches, FetchOne, FetchMany, FetchAll
<1>8. ASSUME NEW c \in Cursor, CloseCursor(c) PROVE CountsOK'
  <2>1. \A d \in Cursor : cursor'[d].rowcount = cursor[d].rowcount
    BY <1>8 DEF CursorInv, Shape, CloseCursor
  <2> QED BY <2>1 DEF CountsOK
<1>9. ASSUME NEW c \in Cursor, ExecuteNone(c) PROVE CountsOK'
  <2>1. \A d \in Cursor :
          cursor'[d].rowcount = IF d = c THEN 0 ELSE cursor[d].rowcount
    BY <1>9 DEF CursorInv, Shape, ExecuteNone
  <2> QED BY <2>1 DEF CountsOK
<1>10. CASE \/ QueryFails \/ ExecuteRaises \/ ExecRaises
            \/ \E statement \in Text : Exec(statement) \/ ExecFails(statement)
            \/ Commit \/ Rollback \/ Close \/ UNCHANGED vars
  BY <1>1, <1>10 DEF QueryFails, ExecuteRaises, ExecRaises, Exec, ExecFails,
                     Commit, Rollback, Close, vars, cursors
<1> QED BY <1>3, <1>4, <1>5, <1>7, <1>8, <1>9, <1>10 DEF Next

\* A call is written, or raises, with a statement there is.
LEMMA CallTypesStep == CallTypes /\ [Next]_vars => CallTypes'
<1> SUFFICES ASSUME CallTypes, [Next]_vars PROVE CallTypes'
  OBVIOUS
<1>1. ASSUME NEW s \in Statement, Write(s), UNCHANGED closed PROVE CallTypes'
  BY <1>1 DEF Write, CallTypes
<1>2. ASSUME NEW s \in Statement, NEW binds, WriteRaises(s, binds),
             UNCHANGED closed
      PROVE  CallTypes'
  BY <1>2 DEF WriteRaises, CallTypes
<1>3. \A s \in Text : s \in Statement
  BY TextAssumption
<1>4. Said("COMMIT") \in Statement /\ Said("ROLLBACK") \in Statement
  BY DEF Said, Statement, Queries
<1>5. CASE UNCHANGED <<session, closed, call, received, outBuffer>>
  BY <1>5 DEF CallTypes
<1>6. ASSUME NEW words, Sends(words), UNCHANGED closed PROVE CallTypes'
  BY <1>1, <1>3, <1>6 DEF Sends
<1>7. ASSUME NEW c \in Cursor,
             ExecuteQuery(c) \/ ExecuteCall(c) \/ ExecuteMany(c)
      PROVE  CallTypes'
  BY <1>6, <1>7 DEF ExecuteQuery, ExecuteCall, ExecuteMany
<1>8. ASSUME NEW c \in Cursor,
             ExecuteNone(c) \/ Fetches(c) \/ CloseCursor(c)
      PROVE  CallTypes'
  BY <1>5, <1>8 DEF ExecuteNone, Fetches, CloseCursor, link
<1>9. CASE QueryFails
  BY <1>6, <1>9 DEF QueryFails
<1>10. CASE ExecuteRaises \/ ExecRaises
  BY <1>2, <1>3, <1>4, <1>10 DEF ExecuteRaises, ExecRaises
<1>11. ASSUME NEW s \in Text, Exec(s) \/ ExecFails(s) PROVE CallTypes'
  BY <1>1, <1>3, <1>11 DEF Exec, ExecFails
<1>12. CASE Commit \/ Rollback
  BY <1>1, <1>4, <1>12 DEF Commit, Rollback
<1>13. CASE Close
  BY <1>13, EmptySeq DEF Close, CallTypes
<1>14. CASE UNCHANGED vars
  BY <1>5, <1>14 DEF vars, link
<1> QED BY <1>7, <1>8, <1>9, <1>10, <1>11, <1>12, <1>13, <1>14 DEF Next

\* A change has the next number, and is pending or durable.
LEMMA ChangesTypes ==
  ASSUME ChangeTypes, NEW statement \in ChangingStatement, Changes(statement),
         \/ UNCHANGED returned
         \/ returned' = returned \cup
              {[change |-> changes', statement |-> statement]}
  PROVE  ChangeTypes'
<1>1. changes' = changes + 1 /\ changes < MaxChanges /\ changes \in Nat
  BY BoundsAssumption DEF Changes, ChangeTypes
<1>2. changes' \in 0 .. MaxChanges /\ changes' \in 1 .. changes'
      /\ 1 .. changes \subseteq 1 .. changes'
  BY <1>1, BoundsAssumption
<1>3. /\ durable' \subseteq durable \cup pending \cup {changes'}
      /\ pending' \subseteq pending \cup {changes'}
  BY Zenon DEF Changes
<1>4. pending' \subseteq 1 .. changes' /\ durable' \subseteq 1 .. changes'
  BY <1>2, <1>3 DEF ChangeTypes
<1>5. returned' \subseteq [change : 1 .. changes', statement : ChangingStatement]
  <2>1. returned \subseteq [change : 1 .. changes', statement : ChangingStatement]
    BY <1>2 DEF ChangeTypes
  <2>2. [change |-> changes', statement |-> statement]
          \in [change : 1 .. changes', statement : ChangingStatement]
    BY <1>2
  <2> QED BY <2>1, <2>2
<1> QED BY <1>2, <1>4, <1>5 DEF ChangeTypes

\* Changes are counted up to their bound.
LEMMA ChangeTypesStep == ChangeTypes /\ [Next]_vars => ChangeTypes'
<1> SUFFICES ASSUME ChangeTypes, [Next]_vars PROVE ChangeTypes'
  OBVIOUS
<1>1. CASE UNCHANGED data
  BY <1>1 DEF data, ChangeTypes
<1>2. ASSUME NEW c \in Cursor,
             \/ ExecuteQuery(c) \/ ExecuteMany(c) \/ ExecuteNone(c)
             \/ Fetches(c) \/ CloseCursor(c)
      PROVE  ChangeTypes'
  BY <1>1, <1>2 DEF ExecuteQuery, ExecuteMany, ExecuteNone, Fetches,
                    CloseCursor
<1>3. CASE QueryFails \/ ExecuteRaises \/ ExecRaises \/ UNCHANGED vars
  BY <1>1, <1>3 DEF QueryFails, ExecuteRaises, ExecRaises, vars
<1>4. ASSUME NEW statement \in Text, ExecFails(statement) PROVE ChangeTypes'
  BY <1>1, <1>4 DEF ExecFails
<1>5. CASE Commit \/ Rollback \/ Close
  BY <1>5 DEF Commit, Rollback, Close, ChangeTypes
<1>6. ASSUME NEW statement \in Text, Exec(statement) PROVE ChangeTypes'
  BY <1>6, TextAssumption, ChangesTypes DEF Exec, Returns, ChangingStatement
<1>7. ASSUME NEW c \in Cursor, ExecuteCall(c) PROVE ChangeTypes'
  <2>1. Said("CALL") \in Statement
    BY DEF Said, Changing, Queries, Statement
  <2>2. Said("CALL").word \in Changing
    BY DEF Said, Changing
  <2>3. Said("CALL") \in ChangingStatement
    BY <2>1, <2>2 DEF ChangingStatement
  <2> QED BY <1>7, <2>3, ChangesTypes DEF ExecuteCall, Returns
<1> QED BY <1>2, <1>3, <1>4, <1>5, <1>6, <1>7 DEF Next

\* Cursors, connection and changes keep their types, for any number of cursors
\* and any results: an index stays within the rows, and every row count is -1
\* or a number, that of executemany too.
THEOREM DbApiTypes == Spec => []TypeOK
<1> DEFINE Inv == CursorInv /\ CountsOK /\ CallTypes /\ ChangeTypes
<1>1. Init => Inv
  <2> SUFFICES ASSUME Init PROVE Inv
    OBVIOUS
  <2>1. CursorInv
    BY CursorInvInit
  <2>2. CountsOK
    BY DEF Init, CountsOK
  <2>3. CallTypes
    BY EmptySeq DEF Init, CallTypes, Said, Statement, Queries
  <2>4. ChangeTypes
    BY BoundsAssumption DEF Init, ChangeTypes
  <2> QED BY <2>1, <2>2, <2>3, <2>4
<1>2. Inv /\ [Next]_vars => Inv'
  BY CursorInvStep, CountsStep, CallTypesStep, ChangeTypesStep
<1>3. Inv => TypeOK
  <2> SUFFICES ASSUME Inv PROVE TypeOK
    OBVIOUS
  <2>1. ASSUME NEW c \in Cursor
        PROVE  /\ cursor[c].rows \in Seq(Nat)
               /\ cursor[c].index \in 0 .. Len(result[c])
               /\ cursor[c].rowcount \in Nat \cup {-1}
               /\ result[c] \in Seq(Nat) /\ delivered[c] \in Seq(Nat)
    BY EmptySeq DEF CursorInv, Shape, RowsAreResult, CountsOK
  <2> QED BY <2>1 DEF TypeOK, CallTypes, ChangeTypes
<1> QED BY <1>1, <1>2, <1>3, PTL DEF Spec
=============================================================================
