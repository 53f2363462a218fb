--------------------------- MODULE SqlText_proofs ---------------------------
(***************************************************************************)
(* Proofs about SqlText.tla: on texts of any length, split_sql ends the    *)
(* first statement where it ends and refine_sql_text puts out the code,    *)
(* unless the text is misleading.                                          *)
(*                                                                         *)
(* Mode is a recursive function of the text.  That there is such a         *)
(* function, and so that Mode follows its own definition, is proved by     *)
(* induction, in the form 0 \in S and so on => Nat \subseteq S.            *)
(***************************************************************************)
EXTENDS SqlText, WellFoundedInduction, SequenceTheorems, TLAPS

-----------------------------------------------------------------------------
(* Induction.  The library states it for an operator; with a set, which an *)
(* SMT solver can be given, it follows from a least counterexample.        *)

\* A set of natural numbers has a least element.
LEMMA LeastElement ==
  ASSUME NEW T, T \subseteq Nat, T # {}
  PROVE  \E m \in T : \A k \in T : m <= k
<1> DEFINE Less == {p \in Nat \X Nat : p[1] < p[2]}
<1>1. IsWellFoundedOn(Less, Nat)
  BY NatLessThanWellFounded DEF OpToRel
<1>2. PICK m \in T : \A k \in T : ~ (<<k, m>> \in Less)
  <2> HIDE DEF Less
  <2> QED BY <1>1, WFMin
<1>3. ASSUME NEW k \in T PROVE m <= k
  <2>1. k \in Nat /\ m \in Nat
    OBVIOUS
  <2>2. ~(k < m)
    BY <1>2, <2>1
  <2> QED BY <2>1, <2>2
<1> QED BY <1>3

\* A set with 0 and with the successor of every number in it has them all.
LEMMA Induction ==
  ASSUME NEW S, 0 \in S, \A n \in Nat : n \in S => n + 1 \in S
  PROVE  Nat \subseteq S
<1> DEFINE T == Nat \ S
<1>1. SUFFICES ASSUME T # {} PROVE FALSE
  OBVIOUS
<1>2. PICK m \in T : \A k \in T : m <= k
  <2>1. T \subseteq Nat
    OBVIOUS
  <2> HIDE DEF T
  <2> QED BY <1>1, <2>1, LeastElement
<1>3. m \in Nat /\ m \notin S /\ m # 0
  OBVIOUS
<1>4. m - 1 \in Nat /\ m = (m - 1) + 1 /\ ~(m <= m - 1)
  BY <1>3
<1>5. m - 1 \in S
  BY <1>2, <1>4
<1> QED BY <1>3, <1>4, <1>5

\* A function on 1 .. N + 1 by recursion: its first value, and what follows
\* a value at an index.
Recursion(f, S, first, N, step) ==
  /\ f \in [1 .. N + 1 -> S]
  /\ f[1] = first
  /\ \A i \in 1 .. N : f[i + 1] = step[<<f[i], i>>]

\* There is such a function.
LEMMA RecursionExists ==
  ASSUME NEW S, NEW first \in S, NEW N \in Nat,
         NEW step \in [S \X (1 .. N) -> S]
  PROVE  \E f : Recursion(f, S, first, N, step)
<1> DEFINE Made(k) ==
             \E f \in [1 .. k + 1 -> S] :
               /\ f[1] = first
               /\ \A i \in 1 .. k : f[i + 1] = step[<<f[i], i>>]
           T == {k \in Nat : k <= N => Made(k)}
<1>1. 0 \in T
  <2> DEFINE f == [i \in 1 .. 0 + 1 |-> first]
  <2>1. /\ f \in [1 .. 0 + 1 -> S] /\ f[1] = first
        /\ \A i \in 1 .. 0 : f[i + 1] = step[<<f[i], i>>]
    OBVIOUS
  <2> QED BY <2>1
<1>2. ASSUME NEW k \in Nat, k + 1 <= N, Made(k) PROVE Made(k + 1)
  <2>1. PICK f \in [1 .. k + 1 -> S] :
          /\ f[1] = first
          /\ \A i \in 1 .. k : f[i + 1] = step[<<f[i], i>>]
    BY <1>2
  <2> DEFINE new == step[<<f[k + 1], k + 1>>]
             g == [i \in 1 .. (k + 1) + 1 |-> IF i = k + 2 THEN new ELSE f[i]]
  <2>2. f[k + 1] \in S /\ k + 1 \in 1 .. N
    BY <1>2
  <2>3. new \in S
    BY <2>2
  <2> HIDE DEF new
  <2>4. g \in [1 .. (k + 1) + 1 -> S]
    <3>1. \A i \in 1 .. (k + 1) + 1 : i = k + 2 \/ i \in 1 .. k + 1
      OBVIOUS
    <3>2. \A i \in 1 .. k + 1 : f[i] \in S
      OBVIOUS
    <3> QED BY <2>3, <3>1, <3>2
  <2>5. g[1] = first
    BY <2>1
  <2>6. ASSUME NEW i \in 1 .. k + 1
        PROVE  g[i + 1] = step[<<g[i], i>>]
    <3>1. g[i] = f[i]
      OBVIOUS
    <3>2. CASE i = k + 1
      <4>1. g[i + 1] = new
        BY <3>2
      <4> QED BY <3>1, <3>2, <4>1 DEF new
    <3>3. CASE i # k + 1
      <4>1. i \in 1 .. k /\ g[i + 1] = f[i + 1]
        BY <3>3
      <4> QED BY <2>1, <3>1, <4>1
    <3> QED BY <3>2, <3>3
  <2> HIDE DEF g
  <2> QED BY <2>4, <2>5, <2>6
<1>3. \A k \in Nat : k \in T => k + 1 \in T
  <2> HIDE DEF Made
  <2> QED BY <1>2
<1>4. N \in T
  <2> HIDE DEF T
  <2> QED BY <1>1, <1>3, Induction
<1>5. Made(N)
  <2> HIDE DEF Made
  <2> QED BY <1>4
<1> QED BY <1>5 DEF Recursion

-----------------------------------------------------------------------------
(* The structure of the text.                                              *)

\* What a position is in, told from what the one before it is in.
NextMode(mode, i) ==
  CASE mode = "code" /\ At(i, "/") /\ At(i + 1, "*") -> "opening"
    [] mode = "code" /\ At(i, "-") /\ At(i + 1, "-") -> "dashes"
    [] mode = "code" /\ At(i, "'") -> "single"
    [] mode = "code" /\ At(i, DoubleQuote) -> "double"
    [] mode = "opening" -> "block"
    [] mode = "dashes" -> "line"
    [] mode = "block" /\ At(i, "*") /\ At(i + 1, "/") -> "closing"
    [] mode = "closing" -> "code"
    [] mode = "line" /\ At(i, NewLine) -> "code"
    [] mode = "single" /\ At(i, "'") -> "code"
    [] mode = "double" /\ At(i, DoubleQuote) -> "code"
    [] OTHER -> mode

ModeKind ==
  {"code", "opening", "dashes", "single", "double", "block", "line", "closing"}

\* Mode begins with code and goes on by NextMode.
LEMMA ModeSteps ==
  ASSUME Len(text) \in Nat
  PROVE  /\ Mode[1] = "code"
         /\ \A i \in 1 .. Len(text) :
              Mode[i + 1] = NextMode(Mode[i], i)
<1> DEFINE N == Len(text)
           Rec(f) == [i \in 1 .. N + 1 |->
                        IF i = 1 THEN "code" ELSE NextMode(f[i - 1], i - 1)]
           m == CHOOSE f : f = Rec(f)
           step == [p \in ModeKind \X (1 .. N) |-> NextMode(p[1], p[2])]
<1>1. Mode = m
  BY Zenon DEF Mode, NextMode
<1>2. \A x \in ModeKind : \A i \in 1 .. N : NextMode(x, i) \in ModeKind
  BY DEF NextMode, ModeKind
<1>3. \E f : f = Rec(f)
  <2>1. step \in [ModeKind \X (1 .. N) -> ModeKind]
    <3> HIDE DEF N
    <3> QED BY <1>2
  <2>2. \A x \in ModeKind : \A i \in 1 .. N : step[<<x, i>>] = NextMode(x, i)
    <3> HIDE DEF N
    <3> QED OBVIOUS
  <2>3. "code" \in ModeKind
    BY DEF ModeKind
  <2>4. N \in Nat
    OBVIOUS
  <2> HIDE DEF step, N
  <2>5. PICK f : Recursion(f, ModeKind, "code", N, step)
    BY <2>1, <2>3, <2>4, RecursionExists
  <2>6. ASSUME NEW i \in 1 .. N + 1
        PROVE f[i] = IF i = 1 THEN "code" ELSE NextMode(f[i - 1], i - 1)
    <3>1. CASE i = 1
      BY <2>5, <3>1 DEF Recursion
    <3>2. CASE i # 1
      <4>1. i - 1 \in 1 .. N /\ (i - 1) + 1 = i /\ f[i - 1] \in ModeKind
        BY <2>4, <2>5, <3>2 DEF Recursion
      <4> QED BY <2>2, <2>5, <3>2, <4>1 DEF Recursion
    <3> QED BY <3>1, <3>2
  <2>7. f = [i \in 1 .. N + 1 |-> f[i]]
    BY <2>5 DEF Recursion
  <2> QED BY <2>6, <2>7
<1>4. m = Rec(m)
  <2> HIDE DEF Rec
  <2> QED BY <1>3
<1> HIDE DEF m
<1>5. m[1] = "code"
  BY <1>4
<1>6. ASSUME NEW i \in 1 .. N PROVE m[i + 1] = NextMode(m[i], i)
  <2>1. i + 1 \in 1 .. N + 1 /\ i + 1 # 1 /\ (i + 1) - 1 = i
    OBVIOUS
  <2> HIDE DEF N
  <2> QED BY <1>4, <2>1
<1> QED BY <1>1, <1>5, <1>6

-----------------------------------------------------------------------------
(* Types.                                                                  *)

\* The text is never changed, and its structure and what follows from it
\* stay as they are.
LEMMA TextFrame ==
  ASSUME text' = text
  PROVE  /\ Mode' = Mode
         /\ Misleading' <=> Misleading
         /\ \A i : Ends(i)' <=> Ends(i)
<1>1. Mode' = Mode
  BY DEF Mode, At
<1>2. Misleading' <=> Misleading
  BY <1>1 DEF Misleading, At
<1>3. ASSUME NEW i PROVE Ends(i)' <=> Ends(i)
  BY <1>1 DEF Ends, At, BlankLineAfter
<1> QED BY <1>1, <1>2, <1>3

\* No action changes the job or the text.
LEMMA NothingElse == [Next]_vars => UNCHANGED <<job, text>>
BY DEF Next, vars, OpensComment, ClosesComment, OpensLineComment, PassesOver,
       TogglesSingle, TogglesDouble, ClosesLineComment, PassesNewLine,
       PassesSemicolon, PassesOther, PutsOut, Finished, Passes, Splits

\* A pair is two characters of the text.
LEMMA Seen ==
  ASSUME TypeOK
  PROVE  /\ Len(text) \in Nat /\ DOMAIN text = 1 .. Len(text)
         /\ \A c : Sees(c) => index \in 1 .. Len(text) /\ headEnd = 0
         /\ \A c, d : SeesPair(c, d) =>
              index \in 1 .. Len(text) /\ index + 1 \in 1 .. Len(text)
         /\ ~Done <=> index \in 1 .. Len(text) /\ headEnd = 0
BY LenProperties DEF TypeOK, Sees, SeesPair, At, Done

\* The scanners' variables keep their types for texts of any length.
LEMMA TypeOKStep == TypeOK /\ [Next]_vars => TypeOK'
<1> SUFFICES ASSUME TypeOK, [Next]_vars PROVE TypeOK'
  OBVIOUS
<1>1. UNCHANGED <<job, text>>
  BY NothingElse
<1>2. /\ index \in 1 .. Len(text) + 1 /\ Len(text) \in Nat
      /\ headEnd \in {0} \cup DOMAIN text /\ out \subseteq DOMAIN text
      /\ inSingle \in BOOLEAN /\ inDouble \in BOOLEAN
      /\ skip \in BOOLEAN /\ lineComment \in BOOLEAN
      /\ DOMAIN text = 1 .. Len(text)
  BY Seen DEF TypeOK
<1>3. SUFFICES
        /\ index' \in 1 .. Len(text) + 1
        /\ headEnd' \in {0} \cup DOMAIN text /\ out' \subseteq DOMAIN text
        /\ inSingle' \in BOOLEAN /\ inDouble' \in BOOLEAN
        /\ skip' \in BOOLEAN /\ lineComment' \in BOOLEAN
  BY <1>1 DEF TypeOK
<1>4. CASE OpensComment \/ ClosesComment \/ OpensLineComment
  <2>1. index + 1 \in 1 .. Len(text)
    BY <1>4, Seen DEF OpensComment, ClosesComment, OpensLineComment
  <2>2. index' = index + 2 /\ UNCHANGED <<headEnd, out, inSingle, inDouble>>
    BY <1>4 DEF OpensComment, ClosesComment, OpensLineComment, Passes
  <2>3. skip' \in BOOLEAN /\ lineComment' \in BOOLEAN
    BY <1>2, <1>4, Zenon DEF OpensComment, ClosesComment, OpensLineComment
  <2>4. index' \in 1 .. Len(text) + 1
    BY <1>2, <2>1, <2>2
  <2> QED BY <1>2, <2>2, <2>3, <2>4
<1>5. CASE PassesOver \/ TogglesSingle \/ TogglesDouble \/ ClosesLineComment
  <2>1. index \in 1 .. Len(text)
    BY <1>5, Seen DEF PassesOver, TogglesSingle, TogglesDouble,
                      ClosesLineComment, SeesPair
  <2>2. index' = index + 1 /\ UNCHANGED <<headEnd, out, skip>>
    BY <1>5 DEF PassesOver, TogglesSingle, TogglesDouble, ClosesLineComment,
                Passes, flags
  <2>3. index' \in 1 .. Len(text) + 1
    BY <1>2, <2>1, <2>2
  <2>4. inSingle' \in BOOLEAN /\ inDouble' \in BOOLEAN
    <3>2. CASE TogglesSingle
      BY <1>2, <3>2, Zenon DEF TogglesSingle
    <3>3. CASE TogglesDouble
      BY <1>2, <3>3, Zenon DEF TogglesDouble
    <3>4. CASE PassesOver \/ ClosesLineComment
      BY <1>2, <3>4 DEF PassesOver, ClosesLineComment, flags
    <3> QED BY <1>5, <3>2, <3>3, <3>4
  <2>5. lineComment' \in BOOLEAN
    BY <1>2, <1>5, Zenon DEF PassesOver, TogglesSingle, TogglesDouble,
                             ClosesLineComment, flags
  <2> QED BY <1>2, <2>2, <2>3, <2>4, <2>5
<1>6. CASE PassesNewLine \/ PassesSemicolon \/ PassesOther
  <2>1. index \in 1 .. Len(text)
    BY <1>6, Seen DEF PassesNewLine, PassesSemicolon, PassesOther
  <2>2. Splits \/ (Passes(1) /\ UNCHANGED flags)
    BY <1>6, Zenon DEF PassesNewLine, PassesSemicolon, PassesOther
  <2> QED BY <1>2, <2>1, <2>2 DEF Splits, Passes, flags
<1>7. CASE PutsOut
  <2>1. index \in 1 .. Len(text)
    BY <1>7, Seen DEF PutsOut
  <2>2. out' \subseteq out \cup {index}
    BY <1>7 DEF PutsOut
  <2>3. index' = index + 1 /\ UNCHANGED <<headEnd, flags>>
    BY <1>7 DEF PutsOut
  <2> QED BY <1>2, <2>1, <2>2, <2>3 DEF flags
<1>8. CASE Finished \/ UNCHANGED vars
  BY <1>2, <1>8 DEF Finished, vars, flags
<1> QED BY <1>4, <1>5, <1>6, <1>7, <1>8 DEF Next

\* A text of characters and a loop at its beginning.
LEMMA TypeOKInit == Init => TypeOK
<1> SUFFICES ASSUME Init PROVE TypeOK
  OBVIOUS
<1>1. PICK n \in 0 .. MaxLength : text \in [1 .. n -> Alphabet]
  BY DEF Init
<1>2. n \in Nat /\ n <= MaxLength
  BY TextAssumption
<1>3. text \in [1 .. n -> Character]
  BY <1>1, TextAssumption
<1>4. text \in Seq(Character) /\ Len(text) = n
  BY <1>2, <1>3
<1>5. 1 \in 1 .. Len(text) + 1
  BY <1>2, <1>4
<1> QED BY <1>2, <1>4, <1>5 DEF Init, TypeOK

\* The loops of split_sql and refine_sql_text stay within the text: a branch
\* that takes two characters has seen both, for texts of any length.
THEOREM SqlTextTypes == Spec => []TypeOK
BY TypeOKInit, TypeOKStep, PTL DEF Spec

-----------------------------------------------------------------------------
(* The flags follow the structure.                                         *)

\* At position i the flags say what it is in, and no delimiter is cut.
FlagsAt(i, single, double, block, line) ==
  /\ Mode[i] \in {"code", "single", "double", "block", "line"}
  /\ single <=> Mode[i] = "single"
  /\ double <=> Mode[i] = "double"
  /\ block <=> Mode[i] = "block"
  /\ line <=> Mode[i] = "line"

\* The flags say what the loop is in; a text may mislead them.
Agrees == ~Misleading => FlagsAt(index, inSingle, inDouble, skip, lineComment)

\* The same of the next position, in the text as it is.
NextAgrees ==
  ~Misleading => FlagsAt(index', inSingle', inDouble', skip', lineComment')

\* What a text that is not misleading does not have.
LEMMA NotMisled ==
  ASSUME ~Misleading, NEW i \in DOMAIN text
  PROVE  /\ Mode[i] \in {"single", "double"} /\ At(i, "-") => ~At(i + 1, "-")
         /\ Mode[i] = "line" /\ At(i, "/") => ~At(i + 1, "*")
         /\ Mode[i] = "code" /\ At(i, "*") /\ At(i + 1, "/") => ~At(i + 2, "*")
         /\ Mode[i] = "block" /\ At(i, "/") /\ At(i + 1, "*") => ~At(i + 2, "/")
BY DEF Misleading

\* Where the loop stands the text has one character.
LEMMA OneCharacter ==
  ASSUME NEW i, NEW c, At(i, c)
  PROVE  \A d : At(i, d) <=> c = d
BY DEF At

\* A delimiter of two characters takes the flags where the text goes.  Each
\* of the four clauses of Misleading is needed for one of the cases.
LEMMA PairsAgree ==
  ASSUME TypeOK, Agrees, OpensComment \/ ClosesComment \/ OpensLineComment
  PROVE  NextAgrees
<1> SUFFICES ASSUME ~Misleading
             PROVE  FlagsAt(index', inSingle', inDouble', skip', lineComment')
  BY DEF NextAgrees
<1>1. FlagsAt(index, inSingle, inDouble, skip, lineComment)
  BY DEF Agrees
<1>2. /\ index \in 1 .. Len(text) /\ index + 1 \in 1 .. Len(text)
      /\ Len(text) \in Nat /\ index' = index + 2 /\ index \in DOMAIN text
  BY Seen DEF OpensComment, ClosesComment, OpensLineComment, Passes
<1> DEFINE here == Mode[index]
           next == Mode[index + 1]
           after == Mode[index + 2]
<1>3. next = NextMode(here, index) /\ after = NextMode(next, index + 1)
  <2>1. index + 2 = (index + 1) + 1
    BY <1>2
  <2> QED BY <1>2, <2>1, ModeSteps
<1>4. CASE OpensComment
  <2>1. /\ At(index, "/") /\ At(index + 1, "*") /\ ~InQuotes
        /\ skip' = TRUE /\ UNCHANGED <<inSingle, inDouble, lineComment>>
    BY <1>2, <1>4 DEF OpensComment, SeesPair, Sees, At
  <2>2. /\ \A d : At(index, d) <=> "/" = d
        /\ \A d : At(index + 1, d) <=> "*" = d
    BY <2>1, OneCharacter
  <2>3. here \in {"code", "block"}
    BY <1>1, <1>2, <2>1, NotMisled DEF FlagsAt, InQuotes
  <2>4. CASE here = "code"
    <3>1. next = "opening"
      BY <1>3, <2>1, <2>2, <2>4 DEF NextMode, DoubleQuote
    <3>2. after = "block"
      BY <1>3, <3>1 DEF NextMode
    <3> QED BY <1>1, <1>2, <2>1, <2>4, <3>2 DEF FlagsAt
  <2>5. CASE here = "block"
    <3>1. next = "block"
      BY <1>3, <2>2, <2>5 DEF NextMode
    <3>2. ~At((index + 1) + 1, "/")
      <4>1. index + 2 = (index + 1) + 1
        BY <1>2
      <4> QED BY <1>2, <2>1, <2>5, <4>1, NotMisled
    <3>3. after = "block"
      BY <1>3, <2>2, <3>1, <3>2 DEF NextMode
    <3> QED BY <1>1, <1>2, <2>1, <2>5, <3>3 DEF FlagsAt
  <2> QED BY <2>3, <2>4, <2>5
<1>5. CASE ClosesComment
  <2>1. /\ At(index, "*") /\ At(index + 1, "/") /\ ~InQuotes
        /\ skip' = FALSE /\ UNCHANGED <<inSingle, inDouble, lineComment>>
    BY <1>2, <1>5 DEF ClosesComment, SeesPair, Sees, At
  <2>2. /\ \A d : At(index, d) <=> "*" = d
        /\ \A d : At(index + 1, d) <=> "/" = d
    BY <2>1, OneCharacter
  <2>3. here \in {"code", "block", "line"}
    BY <1>1, <2>1 DEF FlagsAt, InQuotes
  <2>4. CASE here = "block"
    <3>1. next = "closing"
      BY <1>3, <2>1, <2>2, <2>4 DEF NextMode, DoubleQuote
    <3>2. after = "code"
      BY <1>3, <3>1 DEF NextMode
    <3> QED BY <1>1, <1>2, <2>1, <2>4, <3>2 DEF FlagsAt
  <2>5. CASE here = "code"
    <3>1. next = "code"
      BY <1>3, <2>2, <2>5 DEF NextMode, DoubleQuote
    <3>2. ~At((index + 1) + 1, "*")
      <4>1. index + 2 = (index + 1) + 1
        BY <1>2
      <4> QED BY <1>2, <2>1, <2>5, <4>1, NotMisled
    <3>3. after = "code"
      BY <1>3, <2>2, <3>1, <3>2 DEF NextMode, DoubleQuote
    <3> QED BY <1>1, <1>2, <2>1, <2>5, <3>3 DEF FlagsAt
  <2>6. CASE here = "line"
    <3>1. next = "line"
      BY <1>3, <2>2, <2>6 DEF NextMode, NewLine
    <3>2. after = "line"
      BY <1>3, <2>2, <3>1 DEF NextMode, NewLine
    <3> QED BY <1>1, <1>2, <2>1, <2>6, <3>2 DEF FlagsAt
  <2> QED BY <2>3, <2>4, <2>5, <2>6
<1>6. CASE OpensLineComment
  <2>1. /\ At(index, "-") /\ At(index + 1, "-") /\ ~skip
        /\ lineComment' = TRUE /\ UNCHANGED <<inSingle, inDouble, skip>>
    BY <1>2, <1>6 DEF OpensLineComment, SeesPair, Sees, At
  <2>2. /\ \A d : At(index, d) <=> "-" = d
        /\ \A d : At(index + 1, d) <=> "-" = d
    BY <2>1, OneCharacter
  <2>3. here \in {"code", "line"}
    BY <1>1, <1>2, <2>1, NotMisled DEF FlagsAt
  <2>4. CASE here = "code"
    <3>1. next = "dashes"
      BY <1>3, <2>1, <2>2, <2>4 DEF NextMode, DoubleQuote
    <3>2. after = "line"
      BY <1>3, <3>1 DEF NextMode
    <3> QED BY <1>1, <1>2, <2>1, <2>4, <3>2 DEF FlagsAt
  <2>5. CASE here = "line"
    <3>1. next = "line"
      BY <1>3, <2>2, <2>5 DEF NextMode, NewLine
    <3>2. after = "line"
      BY <1>3, <2>2, <3>1 DEF NextMode, NewLine
    <3> QED BY <1>1, <1>2, <2>1, <2>5, <3>2 DEF FlagsAt
  <2> QED BY <2>3, <2>4, <2>5
<1> QED BY <1>4, <1>5, <1>6

\* A branch that takes one character and leaves the flags, where the
\* structure goes on as it is.
LEMMA StaysInMode ==
  ASSUME TypeOK, Agrees, index \in 1 .. Len(text), index' = index + 1,
         UNCHANGED <<inSingle, inDouble, skip, lineComment>>,
         ~Misleading /\ FlagsAt(index, inSingle, inDouble, skip, lineComment)
           => NextMode(Mode[index], index) = Mode[index]
  PROVE  NextAgrees
<1> SUFFICES ASSUME ~Misleading
             PROVE  FlagsAt(index', inSingle', inDouble', skip', lineComment')
  BY DEF NextAgrees
<1>1. FlagsAt(index, inSingle, inDouble, skip, lineComment)
  BY DEF Agrees
<1>2. Mode[index'] = Mode[index]
  BY <1>1, Seen, ModeSteps
<1> QED BY <1>1, <1>2 DEF FlagsAt

\* A single character agrees with the structure.
LEMMA PassesOverAgrees ==
  ASSUME TypeOK, Agrees, PassesOver
  PROVE  NextAgrees
<1>1. index \in 1 .. Len(text) /\ index' = index + 1 /\ UNCHANGED flags
  BY Seen DEF PassesOver, SeesPair, Passes
<1>2. ASSUME ~Misleading, FlagsAt(index, inSingle, inDouble, skip, lineComment)
      PROVE  NextMode(Mode[index], index) = Mode[index]
  <2>1. /\ \A c : Sees(c) <=> At(index, c)
        /\ \A c, d : SeesPair(c, d) <=> At(index, c) /\ At(index + 1, d)
    BY <1>1, Seen DEF Sees, SeesPair, At, PassesOver
  <2>2. CASE Sees(Backslash)
    <3>1. \A d : At(index, d) <=> Backslash = d
      BY <2>1, <2>2, OneCharacter
    <3> QED BY <1>2, <3>1 DEF FlagsAt, NextMode, Backslash, DoubleQuote, NewLine
  <2>3. CASE Sees("/") /\ (InQuotes \/ ~SeesPair("/", "*"))
    <3>1. \A d : At(index, d) <=> "/" = d
      BY <2>1, <2>3, OneCharacter
    <3>2. Mode[index] = "code" => ~At(index + 1, "*")
      BY <1>2, <2>1, <2>3 DEF FlagsAt, InQuotes
    <3> QED BY <1>2, <3>1, <3>2 DEF FlagsAt, NextMode, DoubleQuote, NewLine
  <2>4. CASE Sees("*") /\ (InQuotes \/ ~SeesPair("*", "/"))
    <3>1. \A d : At(index, d) <=> "*" = d
      BY <2>1, <2>4, OneCharacter
    <3>2. Mode[index] = "block" => ~At(index + 1, "/")
      BY <1>2, <2>1, <2>4 DEF FlagsAt, InQuotes
    <3> QED BY <1>2, <3>1, <3>2 DEF FlagsAt, NextMode, DoubleQuote, NewLine
  <2>5. CASE Sees("-") /\ (skip \/ ~SeesPair("-", "-"))
    <3>1. \A d : At(index, d) <=> "-" = d
      BY <2>1, <2>5, OneCharacter
    <3>2. Mode[index] = "code" => ~At(index + 1, "-")
      BY <1>2, <2>1, <2>5 DEF FlagsAt
    <3> QED BY <1>2, <3>1, <3>2 DEF FlagsAt, NextMode, DoubleQuote, NewLine
  <2> QED BY <2>2, <2>3, <2>4, <2>5 DEF PassesOver
<1> QED BY <1>1, <1>2, StaysInMode DEF flags

\* A quote opens and closes what it should.
LEMMA TogglesAgree ==
  ASSUME TypeOK, Agrees, TogglesSingle \/ TogglesDouble
  PROVE  NextAgrees
<1> SUFFICES ASSUME ~Misleading
             PROVE  FlagsAt(index', inSingle', inDouble', skip', lineComment')
  BY DEF NextAgrees
<1>1. FlagsAt(index, inSingle, inDouble, skip, lineComment)
  BY DEF Agrees
<1>2. /\ index \in 1 .. Len(text) /\ index' = index + 1
      /\ UNCHANGED <<skip, lineComment>>
  BY Seen DEF TogglesSingle, TogglesDouble, Passes
<1> DEFINE here == Mode[index]
           next == Mode[index + 1]
<1>3. next = NextMode(here, index)
  BY <1>2, Seen, ModeSteps
<1>4. here \in {"code", "single", "double", "block", "line"}
  BY <1>1 DEF FlagsAt
<1>5. CASE TogglesSingle
  <2>1. /\ At(index, "'") /\ UNCHANGED inDouble
        /\ inSingle' = IF skip \/ lineComment \/ inDouble THEN inSingle
                       ELSE ~inSingle
    BY <1>2, <1>5, Seen DEF TogglesSingle, Sees, At
  <2>2. \A d : At(index, d) <=> "'" = d
    BY <2>1, OneCharacter
  <2>3. next = CASE here = "code" -> "single"
                 [] here = "single" -> "code"
                 [] OTHER -> here
    BY <1>3, <1>4, <2>2 DEF NextMode, DoubleQuote, NewLine
  <2>4. inSingle' <=> next = "single"
    BY <1>1, <1>4, <2>1, <2>3 DEF FlagsAt
  <2> QED BY <1>1, <1>2, <1>4, <2>1, <2>3, <2>4 DEF FlagsAt
<1>6. CASE TogglesDouble
  <2>1. /\ At(index, DoubleQuote) /\ UNCHANGED inSingle
        /\ inDouble' = IF skip \/ lineComment \/ inSingle THEN inDouble
                       ELSE ~inDouble
    BY <1>2, <1>6, Seen DEF TogglesDouble, Sees, At
  <2>2. \A d : At(index, d) <=> DoubleQuote = d
    BY <2>1, OneCharacter
  <2>3. next = CASE here = "code" -> "double"
                 [] here = "double" -> "code"
                 [] OTHER -> here
    BY <1>3, <1>4, <2>2 DEF NextMode, DoubleQuote, NewLine
  <2>4. inDouble' <=> next = "double"
    BY <1>1, <1>4, <2>1, <2>3 DEF FlagsAt
  <2> QED BY <1>1, <1>2, <1>4, <2>1, <2>3, <2>4 DEF FlagsAt
<1> QED BY <1>5, <1>6

\* A line feed ends a line comment; without one, it and the characters of
\* code leave the structure as it is.
LEMMA PlainAgrees ==
  ASSUME TypeOK, Agrees,
         \/ ClosesLineComment \/ PassesNewLine \/ PassesSemicolon
         \/ PassesOther \/ PutsOut
  PROVE  NextAgrees
<1>1. index \in 1 .. Len(text) /\ headEnd = 0 /\ Len(text) \in Nat
      /\ index \in DOMAIN text
  BY Seen DEF ClosesLineComment, PassesNewLine, PassesSemicolon, PassesOther,
              PutsOut
<1>2. CASE ClosesLineComment
  <2> SUFFICES ASSUME ~Misleading
               PROVE  FlagsAt(index', inSingle', inDouble', skip', lineComment')
    BY DEF NextAgrees
  <2>1. FlagsAt(index, inSingle, inDouble, skip, lineComment)
    BY DEF Agrees
  <2>2. /\ At(index, NewLine) /\ lineComment /\ lineComment' = FALSE
        /\ UNCHANGED <<inSingle, inDouble, skip>> /\ index' = index + 1
    BY <1>1, <1>2 DEF ClosesLineComment, Sees, At, Passes
  <2>3. \A d : At(index, d) <=> NewLine = d
    BY <2>2, OneCharacter
  <2>4. Mode[index] = "line"
    BY <2>1, <2>2 DEF FlagsAt
  <2>5. Mode[index + 1] = "code"
    BY <1>1, <2>3, <2>4, ModeSteps DEF NextMode, NewLine
  <2> QED BY <2>1, <2>2, <2>4, <2>5 DEF FlagsAt
<1>3. CASE Splits
  BY <1>3 DEF Splits, flags, Agrees, NextAgrees
<1>4. CASE /\ index' = index + 1 /\ UNCHANGED flags
           /\ text[index] \in {";", Blank, "a"} \cup {NewLine}
           /\ text[index] = NewLine => ~lineComment
  <2>1. \A d : At(index, d) <=> text[index] = d
    BY <1>1 DEF At
  <2>2. ASSUME FlagsAt(index, inSingle, inDouble, skip, lineComment)
        PROVE  NextMode(Mode[index], index) = Mode[index]
    <3>1. Mode[index] \in {"code", "single", "double", "block", "line"}
          /\ (text[index] = NewLine => Mode[index] # "line")
      BY <1>4, <2>2 DEF FlagsAt
    <3> QED BY <1>4, <2>1, <3>1 DEF NextMode, DoubleQuote, NewLine, Blank
  <2> QED BY <1>1, <1>4, <2>2, StaysInMode DEF flags
<1>5. \/ ClosesLineComment \/ Splits
      \/ /\ index' = index + 1 /\ UNCHANGED flags
         /\ text[index] \in {";", Blank, "a"} \cup {NewLine}
         /\ text[index] = NewLine => ~lineComment
  <2>1. CASE PassesNewLine
    BY <2>1 DEF PassesNewLine, Sees, Passes
  <2>2. CASE PassesSemicolon
    BY <2>2 DEF PassesSemicolon, Sees, Passes, NewLine
  <2>3. CASE PassesOther
    BY <2>3 DEF PassesOther, Passes, NewLine, Blank
  <2>4. CASE PutsOut
    BY <2>4 DEF PutsOut, NewLine, Blank
  <2> QED BY <2>1, <2>2, <2>3, <2>4
<1> QED BY <1>2, <1>3, <1>4, <1>5

\* On a text that is not misleading the flags always say what the text says.
LEMMA AgreesStep == TypeOK /\ Agrees /\ [Next]_vars => Agrees'
<1> SUFFICES ASSUME TypeOK, Agrees, [Next]_vars PROVE Agrees'
  OBVIOUS
<1>1. NextAgrees
  <2>1. CASE Finished \/ UNCHANGED vars
    BY <2>1 DEF Finished, vars, flags, Agrees, NextAgrees
  <2> QED BY <2>1, PairsAgree, PassesOverAgrees, TogglesAgree, PlainAgrees
          DEF Next
<1>2. Mode' = Mode /\ (Misleading' <=> Misleading)
  BY NothingElse, TextFrame
<1> QED BY <1>1, <1>2 DEF Agrees, NextAgrees, FlagsAt

-----------------------------------------------------------------------------
(* split_sql.                                                              *)

\* No statement ended before the position the loop is at, and where it
\* stopped one does.
HeadInv ==
  /\ job = "refine" => headEnd = 0
  /\ job = "split" /\ ~Misleading =>
       /\ \A i \in 1 .. index - 1 : ~Ends(i)
       /\ headEnd # 0 => headEnd = index /\ Ends(index)

\* Neither ends a statement nor is put out: a character the loop passes over.
Passed(i) == i \in DOMAIN text /\ text[i] \notin {";", Blank, "a", NewLine}

\* The characters every branch takes.
LEMMA Takes ==
  ASSUME TypeOK, [Next]_vars
  PROVE  \/ UNCHANGED <<index, headEnd, out>>
         \/ /\ index' = index + 2 /\ UNCHANGED <<headEnd, out>>
            /\ Passed(index) /\ Passed(index + 1)
         \/ /\ index' = index + 1 /\ UNCHANGED <<headEnd, out>>
            /\ Passed(index)
         \/ ClosesLineComment \/ PassesNewLine \/ PassesSemicolon
         \/ PassesOther \/ PutsOut
<1>1. /\ Len(text) \in Nat /\ DOMAIN text = 1 .. Len(text)
      /\ \A c : Sees(c) => index \in DOMAIN text /\ text[index] = c
      /\ \A c, d : SeesPair(c, d) =>
           /\ index \in DOMAIN text /\ text[index] = c
           /\ index + 1 \in DOMAIN text /\ text[index + 1] = d
  BY Seen DEF Sees, SeesPair, At
<1>2. CASE OpensComment \/ ClosesComment \/ OpensLineComment
  <2>1. index' = index + 2 /\ UNCHANGED <<headEnd, out>>
    BY <1>2 DEF OpensComment, ClosesComment, OpensLineComment, Passes
  <2>2. /\ index \in DOMAIN text /\ index + 1 \in DOMAIN text
        /\ text[index] \in {"/", "*", "-"}
        /\ text[index + 1] \in {"/", "*", "-"}
    BY <1>1, <1>2 DEF OpensComment, ClosesComment, OpensLineComment
  <2>3. \A c \in {"/", "*", "-"} : c \notin {";", Blank, "a", NewLine}
    BY DEF Blank, NewLine
  <2> QED BY <2>1, <2>2, <2>3 DEF Passed
<1>3. CASE PassesOver \/ TogglesSingle \/ TogglesDouble
  <2>1. index' = index + 1 /\ UNCHANGED <<headEnd, out>>
    BY <1>3 DEF PassesOver, TogglesSingle, TogglesDouble, Passes
  <2>2. /\ index \in DOMAIN text
        /\ text[index] \in {Backslash, "/", "*", "-", "'", DoubleQuote}
    BY <1>1, <1>3 DEF PassesOver, TogglesSingle, TogglesDouble
  <2>3. \A c \in {Backslash, "/", "*", "-", "'", DoubleQuote} :
          c \notin {";", Blank, "a", NewLine}
    BY DEF Blank, NewLine, Backslash, DoubleQuote
  <2> QED BY <2>1, <2>2, <2>3 DEF Passed
<1>4. CASE Finished \/ UNCHANGED vars
  BY <1>4 DEF Finished, vars
<1> QED BY <1>2, <1>3, <1>4 DEF Next

\* What the loop passes over does not end a statement.
LEMMA PassedEndsNot ==
  ASSUME NEW i, Passed(i)
  PROVE  ~Ends(i)
BY DEF Passed, Ends, At, NewLine

\* The loop stops at the first end there is.
LEMMA HeadStep == TypeOK /\ Agrees /\ HeadInv /\ [Next]_vars => HeadInv'
<1> SUFFICES ASSUME TypeOK, Agrees, HeadInv, [Next]_vars PROVE HeadInv'
  OBVIOUS
<1>1. /\ UNCHANGED <<job, text>> /\ (Misleading' <=> Misleading)
      /\ \A i : Ends(i)' <=> Ends(i)
  BY NothingElse, TextFrame
<1>2. index \in Nat /\ Len(text) \in Nat
  BY Seen DEF TypeOK
<1>3. ASSUME job = "refine" PROVE headEnd' = 0
  <2>1. headEnd = 0
    BY <1>3 DEF HeadInv
  <2>2. ~PassesNewLine /\ ~PassesSemicolon /\ ~PassesOther
    BY <1>3 DEF PassesNewLine, PassesSemicolon, PassesOther
  <2>3. UNCHANGED headEnd
    BY <2>2, Takes DEF ClosesLineComment, PutsOut, Passes
  <2> QED BY <2>1, <2>3
<1>4. ASSUME job = "split", ~Misleading
      PROVE  /\ \A i \in 1 .. index' - 1 : ~Ends(i)
             /\ headEnd' # 0 => headEnd' = index' /\ Ends(index')
  <2>1. /\ \A i \in 1 .. index - 1 : ~Ends(i)
        /\ headEnd # 0 => headEnd = index /\ Ends(index)
    BY <1>4 DEF HeadInv
  <2>2. FlagsAt(index, inSingle, inDouble, skip, lineComment)
    BY <1>4 DEF Agrees
  <2>3. CASE UNCHANGED <<index, headEnd>>
    BY <2>1, <2>3
  <2>4. CASE /\ index' = index + 2 /\ UNCHANGED headEnd /\ headEnd = 0
             /\ Passed(index) /\ Passed(index + 1)
    <3>1. \A i \in 1 .. index' - 1 :
            i \in 1 .. index - 1 \/ i = index \/ i = index + 1
      BY <1>2, <2>4
    <3> QED BY <2>1, <2>4, <3>1, PassedEndsNot
  <2>5. CASE index' = index + 1 /\ UNCHANGED headEnd /\ headEnd = 0
             /\ ~Ends(index)
    <3>1. \A i \in 1 .. index' - 1 : i \in 1 .. index - 1 \/ i = index
      BY <1>2, <2>5
    <3> QED BY <2>1, <2>5, <3>1
  <2>6. CASE Splits /\ Ends(index)
    BY <2>1, <2>6 DEF Splits
  <2>7. CASE ClosesLineComment
    <3>1. Mode[index] = "line"
      BY <2>2, <2>7 DEF FlagsAt, ClosesLineComment
    <3>2. ~Ends(index)
      BY <3>1 DEF Ends
    <3> QED BY <2>5, <2>7, <3>2, Seen DEF ClosesLineComment, Passes
  <2>8. CASE PassesNewLine
    <3>1. At(index, NewLine) /\ headEnd = 0
      BY <2>8, Seen DEF PassesNewLine, Sees, At
    <3>2. Ends(index) <=> ~skip /\ ~InQuotes /\ BlankLineAfter(index)
      <4>1. Mode[index] = "code" <=> ~skip /\ ~InQuotes
        BY <2>2, <2>8 DEF FlagsAt, PassesNewLine, InQuotes
      <4>2. ~At(index, ";")
        BY <3>1 DEF At, NewLine
      <4> QED BY <3>1, <4>1, <4>2 DEF Ends
    <3> QED BY <2>5, <2>6, <2>8, <3>1, <3>2 DEF PassesNewLine, Passes
  <2>9. CASE PassesSemicolon
    <3>1. At(index, ";") /\ headEnd = 0
      BY <2>9, Seen DEF PassesSemicolon, Sees, At
    <3>2. Ends(index) <=> ~skip /\ ~lineComment /\ ~InQuotes
      <4>1. Mode[index] = "code" <=> ~skip /\ ~lineComment /\ ~InQuotes
        BY <2>2 DEF FlagsAt, InQuotes
      <4> QED BY <3>1, <4>1 DEF Ends
    <3> QED BY <2>5, <2>6, <2>9, <3>1, <3>2 DEF PassesSemicolon, Passes
  <2>10. CASE PassesOther
    <3>1. ~Ends(index)
      BY <2>10 DEF PassesOther, Ends, At, NewLine, Blank
    <3> QED BY <2>5, <2>10, <3>1, Seen DEF PassesOther, Passes
  <2>11. ~PutsOut
    BY <1>4 DEF PutsOut
  <2>12. Passed(index) => ~Ends(index)
    BY PassedEndsNot
  <2>13. headEnd # 0 => UNCHANGED <<index, headEnd>>
    BY Seen DEF Next, vars, OpensComment, ClosesComment, OpensLineComment,
                PassesOver, TogglesSingle, TogglesDouble, ClosesLineComment,
                PassesNewLine, PassesSemicolon, PassesOther, PutsOut,
                Finished, SeesPair, Sees, Done
  <2> QED BY <2>3, <2>4, <2>5, <2>7, <2>8, <2>9, <2>10, <2>11, <2>12, <2>13,
             Takes
<1> QED BY <1>1, <1>3, <1>4 DEF HeadInv

-----------------------------------------------------------------------------
(* refine_sql_text.                                                        *)

\* What belongs into the refined text.
Code(i) ==
  \/ At(i, NewLine) /\ Mode[i] # "line"
  \/ text[i] \in {";", Blank, "a"} /\ Mode[i] = "code"

\* What was put out is the code in front of the loop.
OutInv ==
  job = "refine" /\ ~Misleading => out = {i \in 1 .. index - 1 : Code(i)}

\* What the loop passes over does not belong into the refined text.
LEMMA PassedIsNoCode ==
  ASSUME NEW i, Passed(i)
  PROVE  ~Code(i)
BY DEF Passed, Code, At

\* A character is put out when it is code, and then only.
LEMMA OutStep == TypeOK /\ Agrees /\ HeadInv /\ OutInv /\ [Next]_vars => OutInv'
<1> SUFFICES ASSUME TypeOK, Agrees, HeadInv, OutInv, [Next]_vars
             PROVE  OutInv'
  OBVIOUS
<1> SUFFICES ASSUME job = "refine", ~Misleading
             PROVE  out' = {i \in 1 .. index' - 1 : Code(i)}
  <2>1. UNCHANGED <<job, text>>
    BY NothingElse
  <2>2. Mode' = Mode /\ (Misleading' <=> Misleading)
    BY <2>1, TextFrame
  <2>3. ASSUME NEW i PROVE Code(i)' <=> Code(i)
    BY <2>1, <2>2 DEF Code, At
  <2> QED BY <2>1, <2>2, <2>3 DEF OutInv
<1>1. index \in 1 .. Len(text) + 1 /\ Len(text) \in Nat
  BY Seen DEF TypeOK
<1>2. out = {i \in 1 .. index - 1 : Code(i)}
  BY DEF OutInv
<1>3. FlagsAt(index, inSingle, inDouble, skip, lineComment)
  BY DEF Agrees
<1>4. CASE UNCHANGED <<index, out>>
  BY <1>2, <1>4
<1>5. CASE /\ index' = index + 2 /\ UNCHANGED out
           /\ Passed(index) /\ Passed(index + 1)
  <2>1. \A i : i \in 1 .. index' - 1 <=>
          i \in 1 .. index - 1 \/ i = index \/ i = index + 1
    BY <1>1, <1>5
  <2>2. ~Code(index) /\ ~Code(index + 1)
    BY <1>5, PassedIsNoCode
  <2> QED BY <1>2, <1>5, <2>1, <2>2
<1>6. CASE /\ index' = index + 1
           /\ out' = IF Code(index) THEN out \cup {index} ELSE out
  <2>1. \A i : i \in 1 .. index' - 1 <=> i \in 1 .. index - 1 \/ i = index
    BY <1>1, <1>6
  <2> QED BY <1>2, <1>6, <2>1
<1>7. CASE ClosesLineComment
  <2>1. Mode[index] = "line" /\ At(index, NewLine)
    BY <1>3, <1>7, Seen DEF FlagsAt, ClosesLineComment, Sees, At
  <2>2. ~Code(index)
    BY <2>1 DEF Code, At, NewLine, Blank
  <2> QED BY <1>6, <1>7, <2>2 DEF ClosesLineComment, Passes
<1>8. CASE PutsOut
  <2>1. index \in DOMAIN text
    BY <1>8, Seen DEF PutsOut
  <2>2. CASE text[index] = NewLine /\ ~lineComment /\ out' = out \cup {index}
    <3>1. Code(index)
      BY <1>3, <2>1, <2>2 DEF Code, At, FlagsAt
    <3> QED BY <1>6, <1>8, <2>2, <3>1 DEF PutsOut
  <2>3. CASE /\ text[index] \in {";", Blank, "a"}
             /\ out' = IF skip \/ lineComment \/ InQuotes THEN out
                       ELSE out \cup {index}
    <3>1. Code(index) <=> ~(skip \/ lineComment \/ InQuotes)
      <4>1. ~At(index, NewLine)
        BY <2>3 DEF At, NewLine, Blank
      <4> QED BY <1>3, <2>3, <4>1 DEF Code, FlagsAt, InQuotes
    <3> QED BY <1>6, <1>8, <2>3, <3>1 DEF PutsOut
  <2> QED BY <1>8, <2>2, <2>3 DEF PutsOut
<1>9. ~PassesNewLine /\ ~PassesSemicolon /\ ~PassesOther
  BY DEF PassesNewLine, PassesSemicolon, PassesOther
<1>10. Passed(index) => ~Code(index)
  BY PassedIsNoCode
<1> QED BY <1>4, <1>5, <1>6, <1>7, <1>8, <1>9, <1>10, Takes

-----------------------------------------------------------------------------
(* The theorems.                                                           *)

\* The inductive invariant.
SqlInv == TypeOK /\ Agrees /\ HeadInv /\ OutInv

\* The loop begins in code.
LEMMA SqlInvInit == Init => SqlInv
<1> SUFFICES ASSUME Init PROVE SqlInv
  OBVIOUS
<1>1. TypeOK
  BY TypeOKInit
<1>2. Mode[1] = "code"
  BY <1>1, Seen, ModeSteps
<1>3. Agrees
  BY <1>2 DEF Init, Agrees, FlagsAt
<1>4. HeadInv /\ OutInv
  BY DEF Init, HeadInv, OutInv
<1> QED BY <1>1, <1>3, <1>4 DEF SqlInv

\* The parts of the invariant together.
LEMMA SqlInvStep == SqlInv /\ [Next]_vars => SqlInv'
BY TypeOKStep, AgreesStep, HeadStep, OutStep DEF SqlInv

\* split_sql ends the first statement where it ends, no sooner and no later, in
\* every text of every length that is not misleading.
THEOREM SplitsAlways == Spec => []SplitsAtTheEnd
<1>1. SqlInv => SplitsAtTheEnd
  <2> SUFFICES ASSUME SqlInv, job = "split", Done, ~Misleading
               PROVE  IF headEnd # 0
                      THEN /\ Ends(headEnd)
                           /\ \A i \in 1 .. headEnd - 1 : ~Ends(i)
                      ELSE \A i \in DOMAIN text : ~Ends(i)
    BY DEF SplitsAtTheEnd
  <2>1. /\ \A i \in 1 .. index - 1 : ~Ends(i)
        /\ headEnd # 0 => headEnd = index /\ Ends(index)
    BY DEF SqlInv, HeadInv
  <2>2. headEnd = 0 => DOMAIN text = 1 .. index - 1
    BY Seen DEF SqlInv, TypeOK, Done
  <2> QED BY <2>1, <2>2
<1> QED BY <1>1, SqlInvInit, SqlInvStep, PTL DEF Spec

\* Of every text of every length that is not misleading, refine_sql_text puts out
\* the letters, blanks and semicolons that are code, the line feeds except those
\* that end a line comment, and nothing quoted or commented out.
THEOREM RefinesAlways == Spec => []RefinesToCode
<1>1. SqlInv => RefinesToCode
  <2> SUFFICES ASSUME SqlInv, job = "refine", Done, ~Misleading
               PROVE  out = {i \in DOMAIN text : Code(i)}
    BY DEF RefinesToCode, Code
  <2>1. headEnd = 0 /\ out = {i \in 1 .. index - 1 : Code(i)}
    BY DEF SqlInv, HeadInv, OutInv
  <2>2. DOMAIN text = 1 .. index - 1
    BY <2>1, Seen DEF SqlInv, TypeOK, Done
  <2> QED BY <2>1, <2>2
<1> QED BY <1>1, SqlInvInit, SqlInvStep, PTL DEF Spec
=============================================================================
