---------------------------- MODULE MCDiffParser ----------------------------
(* Updates of files of two lines by any change of a line, and of longer files *)
(* with blocks inside blocks, brackets, decorators, flows and bad dedents.    *)
EXTENDS DiffParser, BlockGrammar

Line(kind, col) == <<kind, col, TRUE>>
LinesAt(cols) == {Line(k, c) : k \in DOMAIN MCLexemes, c \in cols}

\* Before the i-th line, d lines go and at most one comes.
Edits(body, lines) ==
  {SubSeq(body, 1, i - 1) \o others \o SubSeq(body, i + d, Len(body)) :
     i \in 1 .. Len(body) + 1, d \in {0, 1}, others \in {<<>>} \cup {<<l>> : l \in lines}}

NoLine == <<"blank", 0, FALSE>>
Endings == {NoLine, <<"x", 0, FALSE>>, <<"close", 1, FALSE>>, <<"blank", 2, FALSE>>}

\* The text ends in a newline, or it does not.
SmallUpdates ==
  {<<Append(p[1], e[1]), Append(p[2], e[2])>> :
     p \in UNION {{<<b, c>> : c \in Edits(b, LinesAt({0, 1})) \cup {b}} :
                    b \in {<<>>} \cup {<<l>> : l \in LinesAt({0, 1})}},
     e \in Endings \X Endings}

Bodies ==
  {<<Line("class", 0), Line("x", 4), Line("class", 4), Line("x", 5), Line("x", 4), Line("x", 0)>>,
   <<Line("class", 0), Line("while", 1), Line("x", 4), Line("else", 1), Line("x", 4), Line("x", 1)>>,
   <<Line("class", 0), Line("open", 1), Line("x", 4), Line("close", 1), Line("deco", 1), Line("short", 1)>>,
   <<Line("class", 0), Line("class", 1), Line("class", 4), Line("x", 5), Line("x", 4), Line("x", 3)>>,
   <<Line("deco", 0), Line("class", 0), Line("short", 1), Line("blank", 0), Line("open", 1), Line("x", 1)>>,
   <<Line("while", 0), Line("x", 4), Line("x", 1), Line("class", 0), Line("x", 1), Line("else", 0)>>}

LargeUpdates ==
  UNION {{<<Append(b, NoLine), Append(c, NoLine)>> : c \in Edits(b, LinesAt({0, 1, 4}))} : b \in Bodies}

MCUpdates == {p \in SmallUpdates \cup LargeUpdates : p[1] # p[2]}
=============================================================================
