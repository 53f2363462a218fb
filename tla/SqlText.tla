------------------------------ MODULE SqlText ------------------------------
(***************************************************************************)
(* The two scanners of src/pyora/command.py that look for comments and     *)
(* quotes in a statement: split_sql, which finds where the first statement *)
(* of a text ends, and refine_sql_text, which takes comments and quoted    *)
(* text out.  Each is one loop over the text with four flags; Mode below   *)
(* is the same lexical structure told from the text alone.                 *)
(***************************************************************************)
EXTENDS Naturals, Sequences, FiniteSets

CONSTANTS
  Alphabet,      \* the characters texts are made of
  MaxLength      \* length of the longest text

NewLine == "nl"
Blank == " "
Backslash == "backslash"
DoubleQuote == "dq"
Character ==
  {"/", "*", "-", ";", "'", DoubleQuote, NewLine, Blank, Backslash, "a"}

ASSUME TextAssumption == Alphabet \subseteq Character /\ MaxLength \in Nat

VARIABLES
  job,           \* "split" for split_sql, "refine" for refine_sql_text
  text, index,   \* index counts from 1, and is past the end in the end
  inSingle, inDouble, skip, lineComment,
  headEnd,       \* split: where the first statement ends, 0 for nowhere
  out            \* refine: the positions of the characters put out

flags == <<inSingle, inDouble, skip, lineComment>>
vars == <<job, text, index, flags, headEnd, out>>

Init ==
  /\ job \in {"split", "refine"}
  /\ text \in UNION {[1 .. n -> Alphabet] : n \in 0 .. MaxLength}
  /\ index = 1
  /\ inSingle = FALSE /\ inDouble = FALSE /\ skip = FALSE /\ lineComment = FALSE
  /\ headEnd = 0 /\ out = {}

-----------------------------------------------------------------------------
(* The loop, one action per branch.                                        *)

Done == index > Len(text) \/ headEnd # 0

InQuotes == inSingle \/ inDouble

At(i, c) == i \in DOMAIN text /\ text[i] = c

\* The loop is at this character.
Sees(c) == ~Done /\ text[index] = c

\* Mutant: at the end of the text one character is enough.
SeesPair_Unbounded(c, d) == Sees(c) /\ (index = Len(text) \/ At(index + 1, d))

\* A two-character delimiter begins here.
SeesPair(c, d) == Sees(c) /\ At(index + 1, d)

\* The branch took that many characters and put none out.
Passes(n) == index' = index + n /\ UNCHANGED <<job, text, headEnd, out>>

OpensComment ==
  /\ SeesPair("/", "*") /\ ~InQuotes
  /\ skip' = TRUE
  /\ Passes(2) /\ UNCHANGED <<inSingle, inDouble, lineComment>>

ClosesComment ==
  /\ SeesPair("*", "/") /\ ~InQuotes
  /\ skip' = FALSE
  /\ Passes(2) /\ UNCHANGED <<inSingle, inDouble, lineComment>>

OpensLineComment ==
  /\ SeesPair("-", "-") /\ ~skip
  /\ lineComment' = TRUE
  /\ Passes(2) /\ UNCHANGED <<inSingle, inDouble, skip>>

\* One of these characters, but no delimiter: not put out either.
PassesOver ==
  /\ \/ Sees(Backslash)
     \/ Sees("/") /\ (InQuotes \/ ~SeesPair("/", "*"))
     \/ Sees("*") /\ (InQuotes \/ ~SeesPair("*", "/"))
     \/ Sees("-") /\ (skip \/ ~SeesPair("-", "-"))
  /\ Passes(1) /\ UNCHANGED flags

\* Mutant: also in a comment.
TogglesSingle_InComment ==
  /\ Sees("'")
  /\ inSingle' = IF inDouble THEN inSingle ELSE ~inSingle
  /\ Passes(1) /\ UNCHANGED <<inDouble, skip, lineComment>>

TogglesSingle ==
  /\ Sees("'")
  /\ inSingle' = IF skip \/ lineComment \/ inDouble THEN inSingle ELSE ~inSingle
  /\ Passes(1) /\ UNCHANGED <<inDouble, skip, lineComment>>

TogglesDouble ==
  /\ Sees(DoubleQuote)
  /\ inDouble' = IF skip \/ lineComment \/ inSingle THEN inDouble ELSE ~inDouble
  /\ Passes(1) /\ UNCHANGED <<inSingle, skip, lineComment>>

ClosesLineComment ==
  /\ Sees(NewLine) /\ lineComment
  /\ lineComment' = FALSE
  /\ Passes(1) /\ UNCHANGED <<inSingle, inDouble, skip>>

\* The line after the line feed at i has only blanks, up to its end, the end
\* of the text or a semicolon.
BlankLineAfter(i) ==
  \E j \in i + 1 .. Len(text) + 1 :
    /\ \A k \in i + 1 .. j - 1 : text[k] = Blank
    /\ j > Len(text) \/ At(j, NewLine) \/ At(j, ";")

\* split_sql: the first statement ends here.
Splits == headEnd' = index /\ UNCHANGED <<job, text, index, out, flags>>

PassesNewLine ==
  /\ job = "split" /\ Sees(NewLine) /\ ~lineComment
  /\ IF ~skip /\ ~InQuotes /\ BlankLineAfter(index)
     THEN Splits
     ELSE Passes(1) /\ UNCHANGED flags

\* Mutant: a semicolon in double quotes ends the statement.
PassesSemicolon_InDouble ==
  /\ job = "split" /\ Sees(";")
  /\ IF ~skip /\ ~lineComment /\ ~inSingle
     THEN Splits
     ELSE Passes(1) /\ UNCHANGED flags

PassesSemicolon ==
  /\ job = "split" /\ Sees(";")
  /\ IF ~skip /\ ~lineComment /\ ~InQuotes
     THEN Splits
     ELSE Passes(1) /\ UNCHANGED flags

PassesOther ==
  /\ job = "split" /\ ~Done /\ text[index] \in {Blank, "a"}
  /\ Passes(1) /\ UNCHANGED flags

\* refine_sql_text: put a line feed out, and another character unless it is
\* in a comment or in quotes.
PutsOut ==
  /\ job = "refine" /\ ~Done
  /\ \/ text[index] = NewLine /\ ~lineComment /\ out' = out \cup {index}
     \/ /\ text[index] \in {";", Blank, "a"}
        /\ out' = IF skip \/ lineComment \/ InQuotes THEN out
                  ELSE out \cup {index}
  /\ index' = index + 1
  /\ UNCHANGED <<job, text, headEnd, flags>>

Finished == Done /\ UNCHANGED vars

Next ==
  \/ OpensComment \/ ClosesComment \/ OpensLineComment \/ PassesOver
  \/ TogglesSingle \/ TogglesDouble \/ ClosesLineComment
  \/ PassesNewLine \/ PassesSemicolon \/ PassesOther \/ PutsOut
  \/ Finished

Spec == Init /\ [][Next]_vars
-----------------------------------------------------------------------------
(* The lexical structure of the text.                                      *)

\* What position i is in: code, quoted text, a comment, or the second
\* character of a delimiter.  Mode[i + 1] follows from Mode[i].
Mode ==
  LET next(mode, i) ==
        CASE mode = "code" /\ At(i, "/") /\ At(i + 1, "*") -> "opening"
          [] mode = "code" /\ At(i, "-") /\ At(i + 1, "-") -> "dashes"
          [] mode = "code" /\ At(i, "'") -> "single"
          [] mode = "code" /\ At(i, DoubleQuote) -> "double"
          [] mode = "opening" -> "block"
          [] mode = "dashes" -> "line"
          [] mode = "block" /\ At(i, "*") /\ At(i + 1, "/") -> "closing"
          [] mode = "closing" -> "code"
          [] mode = "line" /\ At(i, NewLine) -> "code"
          [] mode = "single" /\ At(i, "'") -> "code"
          [] mode = "double" /\ At(i, DoubleQuote) -> "code"
          [] OTHER -> mode
      m[i \in 1 .. Len(text) + 1] ==
        IF i = 1 THEN "code" ELSE next(m[i - 1], i - 1)
  IN m

\* The texts on which the flags lose track of the structure: two dashes in
\* quotes, a comment opened in a line comment, and delimiters that overlap.
Misleading ==
  LET mode == Mode
      pair(i, c, d) == At(i, c) /\ At(i + 1, d)
  IN \E i \in DOMAIN text :
       \/ mode[i] \in {"single", "double"} /\ pair(i, "-", "-")
       \/ mode[i] = "line" /\ pair(i, "/", "*")
       \/ mode[i] = "code" /\ pair(i, "*", "/") /\ At(i + 2, "*")
       \/ mode[i] = "block" /\ pair(i, "/", "*") /\ At(i + 2, "/")

\* The first statement ends at i: a semicolon, or a blank line that does not
\* follow a line comment, outside comments and quotes.
Ends(i) ==
  /\ Mode[i] = "code"
  /\ At(i, ";") \/ (At(i, NewLine) /\ BlankLineAfter(i))
-----------------------------------------------------------------------------
(* Properties.                                                             *)

\* The types of the variables.
TypeOK ==
  /\ job \in {"split", "refine"}
  /\ text \in Seq(Character) /\ Len(text) <= MaxLength
  /\ index \in 1 .. Len(text) + 1
  /\ {inSingle, inDouble, skip, lineComment} \subseteq BOOLEAN
  /\ headEnd \in {0} \cup DOMAIN text
  /\ out \subseteq DOMAIN text

\* split_sql ends the first statement where it ends, no sooner and no later,
\* in every text that is not misleading.
SplitsAtTheEnd ==
  job = "split" /\ Done /\ ~Misleading =>
    IF headEnd # 0
    THEN Ends(headEnd) /\ \A i \in 1 .. headEnd - 1 : ~Ends(i)
    ELSE \A i \in DOMAIN text : ~Ends(i)

\* refine_sql_text puts out the letters, blanks and semicolons that are code,
\* and every line feed but those that end a line comment: nothing quoted and
\* nothing commented out can pass for a keyword.  Its docstring says that line
\* feeds are preserved; as one is not, words in front of a line comment and on
\* the line after it become one, also those has_return_clause looks for.
RefinesToCode ==
  job = "refine" /\ Done /\ ~Misleading =>
    out = {i \in DOMAIN text :
             \/ At(i, NewLine) /\ Mode[i] # "line"
             \/ text[i] \in {";", Blank, "a"} /\ Mode[i] = "code"}

\* split_sql does not end a statement at a semicolon in quotes or a comment.
QuotedSemicolonsIgnored ==
  headEnd # 0 /\ At(headEnd, ";") => Mode[headEnd] = "code"
=============================================================================
