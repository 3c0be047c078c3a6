------------------------------ MODULE Sclexer ------------------------------
(***************************************************************************)
(* The indentation-sensitive lexer of czakoc (src/parser/sclexer.h): the   *)
(* loop of sclexer_get_tokens around sclexer_get_tok, one action per way a *)
(* call of sclexer_get_tok can end.  A source is a sequence of characters; *)
(* reading past it gives the terminating NUL.                              *)
(*                                                                         *)
(* Abstracted: the value of an integer literal, the file name in a         *)
(* location, the bytes of the token structure that a kind does not set.    *)
(***************************************************************************)
EXTENDS Integers, Sequences, FiniteSets

CONSTANTS
  Sources,     \* the sources lexed, each a sequence of characters
  Symbols,     \* lexer.c: symbols[], a sequence of character sequences
  Keywords,    \* lexer.c: keywords[], as a set
  Comments,    \* lexer.c: comments[], as a set of openers
  Letters,     \* characters for which isalpha holds or that are '_'
  Digits,      \* characters for which isdigit holds
  Chunk        \* _SCLEXER_DEFAULT_TOKENS_CAPACITY (64 in the code)

TAB == "tab"
NL == "nl"
QUOTE == "quote"
NUL == "nul"
Blanks == {"sp", TAB}
Spaces == Blanks \cup {NL}          \* isspace()

\* A source ends at its first NUL; isalpha and isdigit hold of no space; what
\* stands in symbols[] and comments[] is not empty, and has no space in it.
ASSUME SourcesAssumption ==
  \A s \in Sources : s \in Seq(STRING) /\ \A i \in DOMAIN s : s[i] # NUL
ASSUME LettersAssumption == (Letters \cup Digits) \cap (Spaces \cup {NUL}) = {}
ASSUME ChunkAssumption == Chunk \in Nat \ {0}
ASSUME SymbolsAssumption == Symbols \in Seq(Seq(STRING \ Spaces) \ {<<>>})
ASSUME CommentsAssumption == Comments \subseteq Seq(STRING \ Spaces) \ {<<>>}

VARIABLES
  src,              \* the source text
  cur,              \* _cur, as an index into src
  after_endl,       \* _after_endl
  last_indent,      \* _last_indent
  need_end_indent,  \* _need_end_indent
  line, column,     \* _loc
  tokens,           \* tokens[0 .. count) of sclexer_get_tokens
  capacity,         \* its capacity
  phase             \* "lexing", "done" (get_tok false) or "exit" (_sclexer_eprintf)

indentVars == <<after_endl, last_indent, need_end_indent>>
locVars == <<line, column>>
vars == <<src, cur, indentVars, locVars, tokens, capacity, phase>>

-----------------------------------------------------------------------------
(* Reading the source.                                                     *)

At(i) == IF i <= Len(src) THEN src[i] ELSE NUL

\* How many characters from i on belong to cs, and how many do not.
Span(i, cs) ==
  Cardinality({k \in i..Len(src) : \A m \in i..k : src[m] \in cs})
Until(i, cs) ==
  Cardinality({k \in i..Len(src) : \A m \in i..k : src[m] \notin cs})

\* _sclexer_cmp_src_with_cstr: stops at the end of either text, so what is
\* left of the source may be a proper prefix of s.
CmpSrc(i, s) ==
  LET left == Len(src) + 1 - i
      n == IF left < Len(s) THEN left ELSE Len(s)
  IN  IF \A k \in 1..n : src[i + k - 1] = s[k] THEN n ELSE 0

\* _sclexer_try_comment: the text up to and with the end of the line; 0, so
\* not a comment, when the source ends first.
CommentLen(i) ==
  IF /\ \E c \in Comments : CmpSrc(i, c) > 0
     /\ At(i + Until(i, {NL})) = NL
  THEN Until(i, {NL}) + 1 ELSE 0

EndlLen(i) == IF At(i) = NL THEN 1 ELSE CommentLen(i)

\* _sclexer_try_digit: the branch for '-' asks isdigit of the '-' itself, so
\* it always returns 0.
IntLen(i) == Span(i, Digits)

\* _sclexer_try_string
StringLen(i) ==
  LET body == Until(i + 1, {QUOTE, NL})
  IN  IF At(i) = QUOTE /\ At(i + 1 + body) = QUOTE THEN body + 2 ELSE 0

\* _sclexer_try_symbol: the longest match, the last one among equals.
SymbolsAt(i) == {s \in DOMAIN Symbols : CmpSrc(i, Symbols[s]) > 0}
FirstSymbolAt(i, s) == s \in SymbolsAt(i) /\ \A r \in SymbolsAt(i) : r >= s   \* mutant
IsSymbolAt(i, s) ==
  /\ s \in SymbolsAt(i)
  /\ \A r \in SymbolsAt(i) :
       \/ CmpSrc(i, Symbols[r]) < CmpSrc(i, Symbols[s])
       \/ CmpSrc(i, Symbols[r]) = CmpSrc(i, Symbols[s]) /\ r <= s

\* _sclexer_do_ident
OneCharIdentLen(i) == IF At(i) \in Letters THEN 1 ELSE 0   \* mutant
IdentLen(i) ==
  IF At(i) \in Letters THEN 1 + Span(i + 1, Letters \cup Digits) ELSE 0

\* _sclexer_drop_space: from a newline nothing, from a blank every space,
\* newlines and the blanks of later lines included.
Start == IF At(cur) = NL THEN cur ELSE cur + Span(cur, Spaces)

-----------------------------------------------------------------------------
(* Storing a token: the body of the loop of sclexer_get_tokens.            *)

Tok(kind, from, len, at, data) ==
  [kind |-> kind, from |-> from, len |-> len,
   line |-> line, column |-> at, data |-> data]

\* _sclexer_is_prev_eol, and a mutant: any repeated kind.
IsPrevSame(tok) == tokens # <<>> /\ tokens[Len(tokens)].kind = tok.kind
IsPrevEol(tok) ==
  /\ tok.kind = "EOL"
  /\ tokens # <<>>
  /\ tokens[Len(tokens)].kind = "EOL"

GrownLate == IF Len(tokens) > capacity THEN capacity + Chunk ELSE capacity   \* mutant
Grown == IF Len(tokens) = capacity THEN capacity + Chunk ELSE capacity

Store(tok) ==
  IF IsPrevEol(tok)
  THEN UNCHANGED <<tokens, capacity>>
  ELSE /\ tokens' = Append(tokens, tok)
       /\ capacity' = Grown

Init ==
  /\ src \in Sources
  /\ cur = 1
  /\ after_endl = FALSE
  /\ last_indent = 0
  /\ need_end_indent = 0
  /\ line = 1
  /\ column = 1
  /\ tokens = <<>>
  /\ capacity = Chunk
  /\ phase = "lexing"

-----------------------------------------------------------------------------
(* sclexer_get_tok.                                                        *)

Tabs == Span(cur, {TAB})
IndentDue == after_endl \/ need_end_indent > 0
BlockEndsAtLevel == IndentDue /\ (Tabs <= last_indent \/ need_end_indent > 0)   \* mutant
BlockEnds == IndentDue /\ (Tabs < last_indent \/ need_end_indent > 0)
BlockBegins == IndentDue /\ ~BlockEnds /\ Tabs > last_indent

\* Mutants: ends owed counted from the level before; one END for any number
\* of levels; the flag is left set.
IndentBlockEndEarly ==
  /\ phase = "lexing"
  /\ BlockEnds
  /\ last_indent' = last_indent - 1
  /\ need_end_indent' = last_indent - Tabs
  /\ after_endl' = FALSE
  /\ Store(Tok("END", cur, 0, column, 0))
  /\ UNCHANGED <<src, cur, locVars, phase>>
IndentBlockEndOnce ==
  /\ phase = "lexing"
  /\ BlockEnds
  /\ last_indent' = last_indent - 1
  /\ need_end_indent' = 0
  /\ after_endl' = FALSE
  /\ Store(Tok("END", cur, 0, column, 0))
  /\ UNCHANGED <<src, cur, locVars, phase>>
IndentBlockBeginAgain ==
  /\ phase = "lexing"
  /\ BlockBegins
  /\ last_indent' = last_indent + 1
  /\ Store(Tok("BEGIN", cur, 0, column, 0))
  /\ UNCHANGED <<src, cur, after_endl, need_end_indent, locVars, phase>>

\* _sclexer_try_indent; it looks at the tabs and leaves them unread.
IndentBlockEnd ==
  /\ phase = "lexing"
  /\ BlockEnds
  /\ last_indent' = last_indent - 1
  /\ need_end_indent' = last_indent' - Tabs
  /\ after_endl' = FALSE
  /\ Store(Tok("END", cur, 0, column, 0))
  /\ UNCHANGED <<src, cur, locVars, phase>>

IndentBlockBegin ==
  /\ phase = "lexing"
  /\ BlockBegins
  /\ last_indent' = last_indent + 1
  /\ after_endl' = FALSE
  /\ Store(Tok("BEGIN", cur, 0, column, 0))
  /\ UNCHANGED <<src, cur, need_end_indent, locVars, phase>>

PastIndent == phase = "lexing" /\ ~BlockEnds /\ ~BlockBegins

\* Mutants: the EOL without the flag, the flag without the EOL.
EolAtNulAgain ==
  /\ PastIndent
  /\ At(cur) = NUL
  /\ ~after_endl
  /\ Store(Tok("EOL", cur, 0, column, 0))
  /\ UNCHANGED <<src, cur, indentVars, locVars, phase>>
EolAtNulUntold ==
  /\ PastIndent
  /\ At(cur) = NUL
  /\ ~after_endl
  /\ after_endl' = TRUE
  /\ UNCHANGED <<src, cur, last_indent, need_end_indent, locVars, tokens,
                 capacity, phase>>

\* At the NUL: one more EOL unless a line has just ended, then the end.
EolAtNul ==
  /\ PastIndent
  /\ At(cur) = NUL
  /\ ~after_endl
  /\ after_endl' = TRUE
  /\ Store(Tok("EOL", cur, 0, column, 0))
  /\ UNCHANGED <<src, cur, last_indent, need_end_indent, locVars, phase>>

StopAtNul ==
  /\ PastIndent
  /\ At(cur) = NUL
  /\ after_endl
  /\ phase' = "done"
  /\ UNCHANGED <<src, cur, indentVars, locVars, tokens, capacity>>

\* Past the blanks: the rest of a call that still has characters to read.
Read(n) ==
  /\ cur' = Start + n
  /\ column' = column + (Start + n - cur)
  /\ after_endl' = FALSE
  /\ UNCHANGED <<src, need_end_indent, line>>

\* _sclexer_do_eof: blanks were all that was left.
EofBlockEnd ==
  /\ PastIndent
  /\ At(cur) # NUL /\ At(Start) = NUL
  /\ last_indent > 0
  /\ last_indent' = last_indent - 1
  /\ Read(0)
  /\ Store(Tok("END", cur, 0, column, 0))
  /\ UNCHANGED phase

EofStop ==
  /\ PastIndent
  /\ At(cur) # NUL /\ At(Start) = NUL
  /\ last_indent = 0
  /\ Read(0)
  /\ phase' = "done"
  /\ UNCHANGED <<last_indent, tokens, capacity>>

AtText == PastIndent /\ At(Start) # NUL

\* Mutant: the column runs on over the end of the line.
EndlSameColumn ==
  /\ AtText
  /\ EndlLen(Start) > 0
  /\ cur' = Start + EndlLen(Start)
  /\ after_endl' = TRUE
  /\ line' = line + 1
  /\ column' = column + (cur' - cur)
  /\ Store(Tok("EOL", Start, EndlLen(Start), column + (Start - cur), 0))
  /\ UNCHANGED <<src, last_indent, need_end_indent, phase>>

\* _sclexer_try_endl and _sclexer_next_line
Endl ==
  /\ AtText
  /\ EndlLen(Start) > 0
  /\ cur' = Start + EndlLen(Start)
  /\ after_endl' = TRUE
  /\ line' = line + 1
  /\ column' = 1
  /\ Store(Tok("EOL", Start, EndlLen(Start), column + (Start - cur), 0))
  /\ UNCHANGED <<src, last_indent, need_end_indent, phase>>

AtLexeme == AtText /\ EndlLen(Start) = 0

Lexeme(kind, len, data) ==
  /\ Read(len)
  /\ Store(Tok(kind, Start, len, column + (Start - cur), data))
  /\ UNCHANGED <<last_indent, phase>>

IntTok ==
  /\ AtLexeme
  /\ IntLen(Start) > 0
  /\ Lexeme("INT", IntLen(Start), 0)

StringTok ==
  /\ AtLexeme
  /\ StringLen(Start) > 0
  /\ Lexeme("STRING", StringLen(Start), 0)

NotLiteral == AtLexeme /\ IntLen(Start) = 0 /\ StringLen(Start) = 0

SymbolTok ==
  /\ NotLiteral
  /\ \E s \in SymbolsAt(Start) :
       /\ IsSymbolAt(Start, s)
       /\ Lexeme("SYMBOL", CmpSrc(Start, Symbols[s]), s)

\* _sclexer_do_ident, then _sclexer_try_keyword
IdentTok ==
  /\ NotLiteral
  /\ SymbolsAt(Start) = {}
  /\ IdentLen(Start) > 0
  /\ LET text == SubSeq(src, Start, Start + IdentLen(Start) - 1)
     IN  Lexeme(IF text \in Keywords THEN "KEYWORD" ELSE "IDENT",
                IdentLen(Start), 0)

\* "unknown token": the process exits.
UnknownTok ==
  /\ NotLiteral
  /\ SymbolsAt(Start) = {}
  /\ IdentLen(Start) = 0
  /\ Read(0)
  /\ phase' = "exit"
  /\ UNCHANGED <<last_indent, tokens, capacity>>

GetTok ==
  \/ IndentBlockEnd \/ IndentBlockBegin
  \/ EolAtNul \/ StopAtNul
  \/ EofBlockEnd \/ EofStop
  \/ Endl
  \/ IntTok \/ StringTok \/ SymbolTok \/ IdentTok \/ UnknownTok

Next == GetTok

Spec == Init /\ [][Next]_vars

\* A single thread runs the loop until get_tok returns false.
FairSpec == Spec /\ WF_vars(Next)

-----------------------------------------------------------------------------
(* Properties.                                                             *)

Kinds == {"EOL", "INT", "STRING", "SYMBOL", "IDENT", "KEYWORD", "BEGIN", "END"}
Lexemes == {"INT", "STRING", "SYMBOL", "IDENT", "KEYWORD"}

\* The type invariant.  last_indent and need_end_indent are size_t: that they
\* stay in Nat says that the subtractions of _sclexer_try_indent and
\* _sclexer_do_eof never wrap.
TypeOK ==
  /\ src \in Sources
  /\ cur \in 1..(Len(src) + 1)
  /\ after_endl \in BOOLEAN
  /\ last_indent \in Nat
  /\ need_end_indent \in Nat
  /\ line \in Nat \ {0}
  /\ column \in Nat \ {0}
  /\ tokens \in Seq([kind : Kinds, from : 1..(Len(src) + 1),
                     len : 0..Len(src), line : Nat, column : Nat,
                     data : 0..Len(Symbols)])
  /\ capacity \in Nat \ {0}
  /\ phase \in {"lexing", "done", "exit"}

Opened == {i \in DOMAIN tokens : tokens[i].kind = "BEGIN"}
Closed == {i \in DOMAIN tokens : tokens[i].kind = "END"}

\* last_indent, which only decides what the next line emits, always equals
\* the number of blocks the parser has been told of and not yet told the end
\* of; a lexer that reached the end of the source has closed every block.
BlocksBalanced ==
  /\ Cardinality(Opened) = Cardinality(Closed) + last_indent
  /\ phase = "done" => last_indent = 0

\* Ends still owed are exactly the levels between the block and the line,
\* although they are emitted by later calls that count the tabs again.
NeedEndExact ==
  need_end_indent > 0 => need_end_indent + Tabs = last_indent

NoAdjacentEol ==
  \A i \in 1..(Len(tokens) - 1) :
    ~(tokens[i].kind = "EOL" /\ tokens[i + 1].kind = "EOL")
WithinCapacity ==
  /\ Len(tokens) <= capacity
  /\ capacity > Chunk => Len(tokens) > capacity - Chunk

\* sclexer_get_tokens collapses runs of empty lines: the parser never sees
\* two EOL in a row, also where a comment line or the end of the source
\* supplies the second.  Although tokens are dropped for it inside the loop
\* that also grows the array, the array never holds more than was allocated,
\* and growth is by whole chunks, at most one of them unused.
TokensStored == NoAdjacentEol /\ WithinCapacity

\* What is left to do: every call of sclexer_get_tok that returns a token
\* makes it smaller, calls that read nothing included.
Measure ==
  4 * (Len(src) + 1 - cur) + 2 * last_indent
    + (IF cur <= Len(src) THEN (IF after_endl THEN 3 ELSE 0)
                          ELSE (IF after_endl THEN 0 ELSE 1))

\* No call leaves the lexer where it was: it reads, closes a block, or
\* opens one it has yet to read the tabs of.
EveryCallProgresses ==
  [][phase' = "lexing" => Measure' < Measure]_vars

\* The tokens of a source are linear in its length.
TokensBounded == Len(tokens) + Measure <= 4 * Len(src) + 1

\* The lexer returns, whatever the source.
Terminates == <>(phase # "lexing")

\* No line, the last one included, ends in a blank.
Clean ==
  \A i \in 1..Len(src) : src[i] \in Blanks => At(i + 1) \notin {NL, NUL}

NewlinesBefore(i) == {k \in 1..(i - 1) : src[k] = NL}
LineOf(i) == Cardinality(NewlinesBefore(i)) + 1
LineStart(i) ==
  CHOOSE b \in 1..i : /\ b = 1 \/ src[b - 1] = NL
                      /\ \A k \in b..(i - 1) : src[k] # NL

LineBegin(l) ==
  CHOOSE b \in 1..(Len(src) + 1) : LineOf(b) = l /\ LineStart(b) = b

\* The block depth of each line: one deeper than the line before at most,
\* and the first line is never indented.
LineDepth[l \in 1..LineOf(Len(src) + 1)] ==
  IF l = 1 THEN 0
  ELSE LET tabs == Span(LineBegin(l), {TAB})
       IN  IF tabs > LineDepth[l - 1] THEN LineDepth[l - 1] + 1 ELSE tabs

DepthAt(i) ==
  Cardinality({k \in Opened : k <= i}) - Cardinality({k \in Closed : k <= i})

\* In a clean source the BEGIN and END tokens put every lexeme at the depth
\* its line's tabs ask for.
IndentFollowsSource ==
  Clean => \A i \in DOMAIN tokens :
    tokens[i].kind \in Lexemes =>
      DepthAt(i) = LineDepth[LineOf(tokens[i].from)]

\* In a clean source every lexeme carries its own line and column.
LocExact ==
  Clean => \A i \in DOMAIN tokens :
    tokens[i].kind \in Lexemes =>
      /\ tokens[i].line = LineOf(tokens[i].from)
      /\ tokens[i].column = tokens[i].from - LineStart(tokens[i].from) + 1

\* The parser peeks one token past a statement without asking whether there
\* is one: a clean source that lexes to anything ends in EOL.
EndsWithEol ==
  phase = "done" /\ Clean /\ tokens # <<>>
    => tokens[Len(tokens)].kind = "EOL"

SpelledAt(i, s) ==
  /\ i + Len(s) <= Len(src) + 1
  /\ \A k \in DOMAIN s : src[i + k - 1] = s[k]
Spells(tok, s) == tok.len = Len(s) /\ SpelledAt(tok.from, s)

\* What the comment on _sclexer_cmp_src_with_cstr promises its callers: a
\* symbol token spells its symbol.
SymbolSpelled ==
  \A i \in DOMAIN tokens :
    tokens[i].kind = "SYMBOL" => Spells(tokens[i], Symbols[tokens[i].data])

EndsInNewline == src # <<>> /\ src[Len(src)] = NL

\* In a source that ends its last line every symbol token spells its symbol,
\* and no longer symbol of the table is spelled at that place.
LongestSymbol ==
  EndsInNewline => \A i \in DOMAIN tokens :
    tokens[i].kind = "SYMBOL" =>
      /\ Spells(tokens[i], Symbols[tokens[i].data])
      /\ \A s \in DOMAIN Symbols :
           SpelledAt(tokens[i].from, Symbols[s]) =>
             Len(Symbols[s]) <= tokens[i].len

InComment(i) ==
  \E b \in LineStart(i)..i, c \in Comments : SpelledAt(b, c)

Covers(tok, i) == tok.from <= i /\ i < tok.from + tok.len

\* Every character that is no space and in no comment lies in one token, and
\* an identifier ends where its characters end.
NothingLost ==
  /\ \A i \in 1..(cur - 1) :
       src[i] \notin Spaces /\ ~InComment(i) =>
         Cardinality({k \in DOMAIN tokens : Covers(tokens[k], i)}) = 1
  /\ \A k \in DOMAIN tokens :
       tokens[k].kind \in {"IDENT", "KEYWORD"} =>
         At(tokens[k].from + tokens[k].len) \notin Letters \cup Digits
=============================================================================
