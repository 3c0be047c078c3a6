----------------------------- MODULE MCSclexer -----------------------------
(* Instances of Sclexer: every source up to a length over two alphabets,   *)
(* and every text of a few indented lines.                                 *)
EXTENDS Sclexer

Seqs == INSTANCE SequencesExt

CONSTANTS LayoutLen, LexemeLen, MaxLines

Texts(alphabet, max) == UNION {[1..n -> alphabet] : n \in 0..max}

\* Layout: tabs (indentation, or blanks after a letter), newlines, one letter.
LayoutChars == {TAB, NL, "s"}

\* Lexemes: prefixes of one another among the symbols (in the order of
\* lexer.c), a symbol made of letters, a keyword, the comment opener "--",
\* an integer, a string and a character no token starts with.
LexemeChars == {NL, "-", "=", "a", "s", "1", QUOTE, "?"}
LexemeSymbols == <<<<"=">>, <<"-", "=">>, <<"a", "s">>, <<"=", "=">>, <<"-">>>>
LexemeKeywords == {<<"s", "1">>}
CommentOpeners == {<<"-", "-">>}

\* Lines: a letter after up to three tabs, or nothing.
Indented == {[i \in 1..d |-> TAB] \o <<"s", NL>> : d \in 0..3}
Lines == {Seqs!FlattenSeq(t) : t \in Texts(Indented \cup {<<NL>>}, MaxLines)}

AllSources ==
  Texts(LayoutChars, LayoutLen) \cup Texts(LexemeChars, LexemeLen) \cup Lines
=============================================================================
