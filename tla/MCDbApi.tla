------------------------------- MODULE MCDbApi -------------------------------
EXTENDS DbApi, TLC

\* No row, and more than a fetchmany takes.
MCResult == {<<>>, <<1, 2, 3>>}

\* A query, what is taken for one, and a change in front of which there is a
\* comment, whose end the driver sees or does not.
MCText ==
  {Said("SELECT"), Said("CALL")}
    \cup [lead : {"comment", "misread"}, word : {"INSERT"}]

\* Nothing tells cursors apart.
MCSymmetry == Permutations(Cursor)
=============================================================================
