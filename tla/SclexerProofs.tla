--------------------------- MODULE SclexerProofs ---------------------------
(***************************************************************************)
(* Theorems about Sclexer for every set of sources and every table of      *)
(* symbols, keywords and comments: its types (no size_t of the lexer       *)
(* wraps), the balance of the block tokens, the array they are stored in,  *)
(* and the measure that bounds the number of calls of sclexer_get_tok;     *)
(* then the tokens against the text of the source: which symbol, on which  *)
(* line, at which depth, with what end, and that nothing is left out.      *)
(***************************************************************************)
EXTENDS Sclexer, FiniteSetTheorems, TLAPS

-----------------------------------------------------------------------------
(* Reading the source.                                                     *)

(* A run of characters that starts inside the source ends inside it.       *)
LEMMA RunLength ==
  ASSUME NEW i \in Nat, NEW n \in Nat, i <= n + 1, NEW R, R \subseteq i..n
  PROVE  /\ IsFiniteSet(R)
         /\ Cardinality(R) \in 0..(n + 1 - i)
         /\ R # {} => Cardinality(R) > 0
<1>1. IsFiniteSet(i..n) /\ Cardinality(i..n) = IF i > n THEN 0 ELSE n - i + 1
  BY FS_Interval
<1>2. IsFiniteSet(R) /\ Cardinality(R) <= Cardinality(i..n)
  BY <1>1, FS_Subset
<1>3. Cardinality(R) \in Nat
  BY <1>2, FS_CardinalityType
<1>4. R # {} => Cardinality(R) # 0
  BY <1>2, FS_EmptySet
<1>5. Cardinality(i..n) = n + 1 - i
  BY <1>1
<1>6. Cardinality(R) <= n + 1 - i
  BY <1>2, <1>5
<1>7. Cardinality(R) \in 0..(n + 1 - i)
  BY <1>3, <1>6
<1>8. R # {} => Cardinality(R) > 0
  BY <1>3, <1>4
<1> QED BY <1>2, <1>7, <1>8

LEMMA SpanBound ==
  ASSUME TypeOK, NEW i \in 1..(Len(src) + 1), NEW cs
  PROVE  /\ Span(i, cs) \in 0..(Len(src) + 1 - i)
         /\ Until(i, cs) \in 0..(Len(src) + 1 - i)
         /\ i <= Len(src) /\ src[i] \in cs => Span(i, cs) > 0
<1>1. Len(src) \in Nat
  BY SourcesAssumption DEF TypeOK
<1> DEFINE R == {k \in i..Len(src) : \A m \in i..k : src[m] \in cs}
           U == {k \in i..Len(src) : \A m \in i..k : src[m] \notin cs}
<1>2. R \subseteq i..Len(src) /\ U \subseteq i..Len(src)
  OBVIOUS
<1>3. ASSUME i <= Len(src), src[i] \in cs PROVE R # {}
  <2>1. i \in R
    BY <1>1, <1>3
  <2> QED BY <2>1
<1>4. Span(i, cs) = Cardinality(R) /\ Until(i, cs) = Cardinality(U)
  BY DEF Span, Until
<1> HIDE DEF R, U
<1>0. i \in Nat /\ i <= Len(src) + 1
  BY <1>1
<1>5. /\ Cardinality(R) \in 0..(Len(src) + 1 - i)
      /\ R # {} => Cardinality(R) > 0
  BY <1>0, <1>1, <1>2, RunLength
<1>6. Cardinality(U) \in 0..(Len(src) + 1 - i)
  BY <1>0, <1>1, <1>2, RunLength
<1> QED BY <1>3, <1>4, <1>5, <1>6

(* At tells the end of the source from its characters.                     *)
LEMMA AtNul ==
  ASSUME TypeOK, NEW i \in Nat \ {0}
  PROVE  At(i) = NUL <=> i > Len(src)
BY SourcesAssumption DEF TypeOK, At

(* Where the blanks before a token end, and what that says of the token.   *)
LEMMA StartBound ==
  ASSUME TypeOK
  PROVE  /\ Start \in cur..(Len(src) + 1)
         /\ At(Start) # NUL => Start <= Len(src)
<1>1. cur \in Nat /\ Len(src) \in Nat /\ cur \in 1..(Len(src) + 1)
  BY SourcesAssumption DEF TypeOK
<1>2. Span(cur, Spaces) \in 0..(Len(src) + 1 - cur)
  BY <1>1, SpanBound
<1>3. Start \in cur..(Len(src) + 1)
  BY <1>1, <1>2 DEF Start
<1> QED BY <1>1, <1>3, AtNul

(* Every token that is read lies within the source.                        *)
LEMMA TokenBound ==
  ASSUME TypeOK, NEW i \in 1..Len(src)
  PROVE  /\ EndlLen(i) \in 0..(Len(src) + 1 - i)
         /\ IntLen(i) \in 0..(Len(src) + 1 - i)
         /\ StringLen(i) \in 0..(Len(src) + 1 - i)
         /\ IdentLen(i) \in 0..(Len(src) + 1 - i)
         /\ \A s \in DOMAIN Symbols :
              CmpSrc(i, Symbols[s]) \in 0..(Len(src) + 1 - i)
<1>0. Len(src) \in Nat
  BY SourcesAssumption DEF TypeOK
<1>1. Len(src) \in Nat /\ i \in 1..(Len(src) + 1) /\ i + 1 \in 1..(Len(src) + 1)
  BY <1>0
<1>2. EndlLen(i) \in 0..(Len(src) + 1 - i)
  <2>1. Until(i, {NL}) \in 0..(Len(src) + 1 - i)
    BY <1>1, SpanBound
  <2>2. At(i + Until(i, {NL})) = NL => i + Until(i, {NL}) <= Len(src)
    BY <1>1, <2>1, AtNul DEF NL, NUL
  <2> QED BY <1>1, <2>1, <2>2 DEF EndlLen, CommentLen
<1>3. IntLen(i) \in 0..(Len(src) + 1 - i)
  BY <1>1, SpanBound DEF IntLen
<1>4. StringLen(i) \in 0..(Len(src) + 1 - i)
  <2> DEFINE body == Until(i + 1, {QUOTE, NL})
  <2>1. body \in 0..(Len(src) - i)
    BY <1>1, SpanBound
  <2>2. At(i + 1 + body) = QUOTE => i + 1 + body <= Len(src)
    BY <1>1, <2>1, AtNul DEF QUOTE, NUL
  <2> QED BY <1>1, <2>1, <2>2 DEF StringLen
<1>5. IdentLen(i) \in 0..(Len(src) + 1 - i)
  <2>1. Span(i + 1, Letters \cup Digits) \in 0..(Len(src) - i)
    BY <1>1, SpanBound
  <2> QED BY <1>1, <2>1 DEF IdentLen
<1>6. ASSUME NEW s \in DOMAIN Symbols
      PROVE  CmpSrc(i, Symbols[s]) \in 0..(Len(src) + 1 - i)
  <2>1. Len(Symbols[s]) \in Nat
    BY SymbolsAssumption
  <2> QED BY <1>1, <2>1 DEF CmpSrc
<1> QED BY <1>2, <1>3, <1>4, <1>5, <1>6

-----------------------------------------------------------------------------
(* The types.                                                              *)

TokenType ==
  [kind : Kinds, from : 1..(Len(src) + 1), len : 0..Len(src),
   line : Nat, column : Nat, data : 0..Len(Symbols)]

(* Storing a token keeps the array well typed.                             *)
LEMMA StoreType ==
  ASSUME TypeOK, NEW tok \in TokenType, Store(tok), src' = src
  PROVE  tokens' \in Seq(TokenType) /\ capacity' \in Nat \ {0}
<1>1. tokens \in Seq(TokenType) /\ capacity \in Nat \ {0}
  BY DEF TypeOK, TokenType
<1>2. Grown \in Nat \ {0}
  BY <1>1, ChunkAssumption DEF Grown
<1> QED BY <1>1, <1>2 DEF Store

(* The tokens that the actions build.                                      *)
LEMMA TokType ==
  ASSUME TypeOK, NEW kind \in Kinds, NEW from \in 1..(Len(src) + 1),
         NEW len \in 0..Len(src), NEW at \in Nat, NEW data \in 0..Len(Symbols)
  PROVE  Tok(kind, from, len, at, data) \in TokenType
BY DEF TypeOK, Tok, TokenType

(* The part of the type invariant that no action of the lexer leaves to    *)
(* the token it stores.                                                    *)
LEMMA LexemeType ==
  ASSUME TypeOK, AtText, NEW kind \in Kinds, NEW len \in 0..(Len(src) + 1 - Start),
         NEW data \in 0..Len(Symbols), Lexeme(kind, len, data)
  PROVE  TypeOK'
<1>1. /\ Len(src) \in Nat /\ cur \in 1..(Len(src) + 1)
      /\ Start \in cur..(Len(src) + 1) /\ column \in Nat \ {0}
  BY StartBound, SourcesAssumption DEF TypeOK
<1>2. Tok(kind, Start, len, column + (Start - cur), data) \in TokenType
  BY <1>1, TokType
<1>3. tokens' \in Seq(TokenType) /\ capacity' \in Nat \ {0}
  BY <1>2, StoreType DEF Lexeme, Read
<1>4. cur' \in 1..(Len(src) + 1) /\ column' \in Nat \ {0}
  BY <1>1 DEF Lexeme, Read
<1> QED BY <1>3, <1>4 DEF TypeOK, TokenType, Lexeme, Read

(* Ends are owed only inside try_indent, with the source where it was.     *)
Typed == TypeOK /\ NeedEndExact

LEMMA InitTyped == Init => Typed
<1> SUFFICES ASSUME Init PROVE Typed
  OBVIOUS
<1>1. src \in Sources /\ src \in Seq(STRING) /\ Len(src) \in Nat
  BY SourcesAssumption DEF Init
<1>2. /\ tokens \in Seq(TokenType) /\ cur \in 1..(Len(src) + 1)
      /\ capacity \in Nat \ {0} /\ line \in Nat \ {0} /\ column \in Nat \ {0}
      /\ last_indent \in Nat /\ need_end_indent \in Nat
      /\ phase \in {"lexing", "done", "exit"}
  BY <1>1, ChunkAssumption DEF Init
<1>3. after_endl \in BOOLEAN
  BY DEF Init
<1>4. TypeOK
  BY <1>1, <1>2, <1>3 DEF TypeOK, TokenType
<1>5. NeedEndExact
  BY DEF Init, NeedEndExact
<1> QED BY <1>4, <1>5 DEF Typed

LEMMA EndStep ==
  ASSUME Typed, IndentBlockEnd
  PROVE  /\ Tabs \in Nat /\ Tabs' = Tabs
         /\ last_indent > 0 /\ last_indent' \in Nat
         /\ need_end_indent' = last_indent' - Tabs /\ need_end_indent' \in Nat
<1>1. Tabs \in Nat
  BY SpanBound, SourcesAssumption, SMTT(30) DEF Typed, TypeOK, Tabs
<1>2. Tabs' = Tabs
  BY DEF IndentBlockEnd, Tabs, Span
<1> QED BY <1>1, <1>2
        DEF IndentBlockEnd, BlockEnds, Typed, TypeOK, NeedEndExact

LEMMA NextTyped == Typed /\ [Next]_vars => Typed'
<1> SUFFICES ASSUME Typed, [Next]_vars PROVE Typed'
  OBVIOUS
<1> USE DEF Typed
<1>0. Len(src) \in Nat /\ Len(Symbols) \in Nat
  BY SourcesAssumption, SymbolsAssumption DEF TypeOK
<1>1. /\ Len(src) \in Nat /\ cur \in 1..(Len(src) + 1) /\ cur \in Nat
      /\ Start \in cur..(Len(src) + 1) /\ column \in Nat \ {0}
      /\ column + (Start - cur) \in Nat \ {0} /\ 0 \in 0..Len(src)
      /\ 0 \in 0..Len(Symbols)
  BY <1>0, StartBound DEF TypeOK
<1>2. \A kind \in Kinds, from \in 1..(Len(src) + 1), len \in 0..Len(src),
        at \in Nat, data \in 0..Len(Symbols) :
          Tok(kind, from, len, at, data) \in TokenType
  BY TokType
<1>3. AtText => /\ Start \in 1..Len(src)
                /\ need_end_indent = 0
  BY <1>1, StartBound DEF AtText, PastIndent, BlockEnds, IndentDue, TypeOK
<1>4. PastIndent => need_end_indent = 0
  BY DEF PastIndent, BlockEnds, IndentDue, TypeOK
<1>5. CASE IndentBlockEnd
  <2>1. tokens' \in Seq(TokenType) /\ capacity' \in Nat \ {0}
    BY <1>1, <1>2, <1>5, StoreType DEF IndentBlockEnd, Kinds
  <2>2. NeedEndExact'
    BY <1>5, EndStep DEF NeedEndExact
  <2> QED BY <1>5, <2>1, <2>2, EndStep DEF IndentBlockEnd, TypeOK, TokenType, locVars
<1>6. CASE IndentBlockBegin
  <2>1. tokens' \in Seq(TokenType) /\ capacity' \in Nat \ {0}
    BY <1>1, <1>2, <1>6, StoreType DEF IndentBlockBegin, Kinds
  <2>2. need_end_indent' = 0
    BY <1>6 DEF IndentBlockBegin, BlockBegins, BlockEnds, IndentDue, TypeOK
  <2>3. last_indent' \in Nat
    BY <1>6 DEF IndentBlockBegin, TypeOK
  <2>4. TypeOK'
    BY <1>6, <2>1, <2>2, <2>3 DEF IndentBlockBegin, TypeOK, TokenType, locVars
  <2> QED BY <2>2, <2>4 DEF NeedEndExact
<1>7. CASE EolAtNul
  <2>1. tokens' \in Seq(TokenType) /\ capacity' \in Nat \ {0}
    BY <1>1, <1>2, <1>7, StoreType DEF EolAtNul, Kinds
  <2>2. need_end_indent' = 0
    BY <1>4, <1>7 DEF EolAtNul
  <2>3. TypeOK'
    BY <1>7, <2>1 DEF EolAtNul, TypeOK, TokenType, locVars
  <2> QED BY <2>2, <2>3 DEF NeedEndExact
<1>8. CASE StopAtNul
  <2>1. need_end_indent' = 0
    BY <1>4, <1>8 DEF StopAtNul, indentVars
  <2>2. TypeOK'
    BY <1>8 DEF StopAtNul, TypeOK, indentVars, locVars
  <2> QED BY <2>1, <2>2 DEF NeedEndExact
<1>9. CASE EofBlockEnd
  <2>1. tokens' \in Seq(TokenType) /\ capacity' \in Nat \ {0}
    BY <1>1, <1>2, <1>9, StoreType DEF EofBlockEnd, Kinds, Read
  <2>2. need_end_indent' = 0 /\ cur' \in 1..(Len(src) + 1) /\ column' \in Nat \ {0}
        /\ last_indent' \in Nat
    BY <1>1, <1>4, <1>9 DEF EofBlockEnd, Read, TypeOK
  <2>3. TypeOK'
    BY <1>9, <2>1, <2>2 DEF EofBlockEnd, Read, TypeOK, TokenType
  <2> QED BY <2>2, <2>3 DEF NeedEndExact
<1>10. CASE EofStop
  <2>1. need_end_indent' = 0 /\ cur' \in 1..(Len(src) + 1) /\ column' \in Nat \ {0}
    BY <1>1, <1>4, <1>10 DEF EofStop, Read
  <2>2. TypeOK'
    BY <1>10, <2>1 DEF EofStop, Read, TypeOK
  <2> QED BY <2>1, <2>2 DEF NeedEndExact
<1>11. CASE Endl
  <2>1. EndlLen(Start) \in 0..(Len(src) + 1 - Start) /\ EndlLen(Start) \in 0..Len(src)
    BY <1>1, <1>3, <1>11, TokenBound DEF Endl
  <2>2. tokens' \in Seq(TokenType) /\ capacity' \in Nat \ {0}
    BY <1>1, <1>2, <1>11, <2>1, StoreType, SMTT(30) DEF Endl, Kinds
  <2>3. need_end_indent' = 0 /\ cur' \in 1..(Len(src) + 1)
    BY <1>1, <1>3, <1>11, <2>1 DEF Endl
  <2> QED BY <1>11, <2>2, <2>3 DEF Endl, TypeOK, TokenType, NeedEndExact
<1>12. ASSUME NEW kind \in Kinds, NEW len \in 0..(Len(src) + 1 - Start),
              NEW data \in 0..Len(Symbols), AtText, Lexeme(kind, len, data)
       PROVE  Typed'
  <2>1. need_end_indent' = 0
    BY <1>3, <1>12 DEF Lexeme, Read
  <2> QED BY <1>12, <2>1, LexemeType DEF NeedEndExact
<1>13. CASE IntTok
  BY <1>1, <1>3, <1>12, <1>13, TokenBound DEF IntTok, AtLexeme, Kinds
<1>14. CASE StringTok
  BY <1>1, <1>3, <1>12, <1>14, TokenBound DEF StringTok, AtLexeme, Kinds
<1>15. CASE SymbolTok
  <2>1. PICK s \in SymbolsAt(Start) : Lexeme("SYMBOL", CmpSrc(Start, Symbols[s]), s)
    BY <1>15 DEF SymbolTok
  <2>2. s \in DOMAIN Symbols /\ s \in 0..Len(Symbols)
    BY SymbolsAssumption DEF SymbolsAt
  <2>3. CmpSrc(Start, Symbols[s]) \in 0..(Len(src) + 1 - Start)
    BY <1>3, <1>15, <2>2, TokenBound DEF SymbolTok, NotLiteral, AtLexeme
  <2> QED BY <1>12, <1>15, <2>1, <2>2, <2>3 DEF SymbolTok, NotLiteral, AtLexeme, Kinds
<1>16. CASE IdentTok
  <2>1. PICK kind \in {"KEYWORD", "IDENT"} : Lexeme(kind, IdentLen(Start), 0)
    BY <1>16 DEF IdentTok
  <2>2. IdentLen(Start) \in 0..(Len(src) + 1 - Start)
    BY <1>3, <1>16, TokenBound DEF IdentTok, NotLiteral, AtLexeme
  <2> QED BY <1>1, <1>12, <1>16, <2>1, <2>2 DEF IdentTok, NotLiteral, AtLexeme, Kinds
<1>17. CASE UnknownTok
  <2>1. need_end_indent' = 0 /\ cur' \in 1..(Len(src) + 1) /\ column' \in Nat \ {0}
    BY <1>1, <1>3, <1>17 DEF UnknownTok, NotLiteral, AtLexeme, Read
  <2>2. TypeOK'
    BY <1>17, <2>1 DEF UnknownTok, Read, TypeOK
  <2> QED BY <2>1, <2>2 DEF NeedEndExact
<1>18. CASE UNCHANGED vars
  BY <1>18 DEF vars, indentVars, locVars, TypeOK, NeedEndExact, Tabs, Span
<1> QED BY <1>5, <1>6, <1>7, <1>8, <1>9, <1>10, <1>11, <1>13, <1>14, <1>15,
           <1>16, <1>17, <1>18 DEF Next, GetTok

(* The lexer keeps its types: in particular its two unsigned counters of   *)
(* levels never wrap.                                                      *)
THEOREM TypeCorrect == Spec => []TypeOK
BY InitTyped, NextTyped, PTL DEF Spec, Typed

(* The ends that are owed always match the tabs in view, which a later     *)
(* call counts again.                                                      *)
THEOREM NeedEndIsExact == Spec => []NeedEndExact
BY InitTyped, NextTyped, PTL DEF Spec, Typed

-----------------------------------------------------------------------------
(* Blocks.                                                                 *)

(* Storing a token adds it, or nothing if it is an EOL.                    *)
LEMMA StoreShape ==
  ASSUME TypeOK, NEW tok, Store(tok)
  PROVE  \/ tokens' = Append(tokens, tok)
         \/ tok.kind = "EOL" /\ tokens' = tokens
BY DEF Store, IsPrevEol

(* What one more token does to the number of tokens of a kind.             *)
LEMMA CountAppend ==
  ASSUME NEW T, NEW s \in Seq(T), NEW e, NEW P \in SUBSET DOMAIN s,
         NEW Q, Q = P \/ Q = P \cup {Len(s) + 1}
  PROVE  /\ IsFiniteSet(P) /\ Cardinality(P) \in Nat
         /\ Q = P \cup {Len(s) + 1} => Cardinality(Q) = Cardinality(P) + 1
<1>1. IsFiniteSet(1..Len(s)) /\ P \subseteq 1..Len(s) /\ Len(s) \in Nat
  BY FS_Interval
<1>2. IsFiniteSet(P) /\ Cardinality(P) \in Nat
  BY <1>1, FS_Subset, FS_CardinalityType
<1>3. Len(s) + 1 \notin P
  BY <1>1
<1>4. Cardinality(P \cup {Len(s) + 1}) = Cardinality(P) + 1
  BY <1>2, <1>3, FS_AddElement
<1> QED BY <1>2, <1>4

LEMMA StoreCounts ==
  ASSUME TypeOK, NEW tok \in TokenType, Store(tok)
  PROVE  /\ Cardinality(Opened) \in Nat /\ Cardinality(Closed) \in Nat
         /\ tok.kind = "BEGIN" => /\ Cardinality(Opened') = Cardinality(Opened) + 1
                                  /\ Cardinality(Closed') = Cardinality(Closed)
         /\ tok.kind = "END" => /\ Cardinality(Opened') = Cardinality(Opened)
                                /\ Cardinality(Closed') = Cardinality(Closed) + 1
         /\ tok.kind \notin {"BEGIN", "END"} =>
              /\ Cardinality(Opened') = Cardinality(Opened)
              /\ Cardinality(Closed') = Cardinality(Closed)
<1>1. tokens \in Seq(TokenType)
  BY DEF TypeOK, TokenType
<1>2. Opened \in SUBSET DOMAIN tokens /\ Closed \in SUBSET DOMAIN tokens
  BY DEF Opened, Closed
<1>3. ASSUME tokens' = Append(tokens, tok)
      PROVE  /\ Opened' = IF tok.kind = "BEGIN" THEN Opened \cup {Len(tokens) + 1}
                          ELSE Opened
             /\ Closed' = IF tok.kind = "END" THEN Closed \cup {Len(tokens) + 1}
                          ELSE Closed
  BY <1>1, <1>3 DEF Opened, Closed
<1>4. ASSUME tokens' = tokens PROVE Opened' = Opened /\ Closed' = Closed
  BY <1>4 DEF Opened, Closed
<1>5. /\ Cardinality(Opened) \in Nat /\ Cardinality(Closed) \in Nat
      /\ Cardinality(Opened \cup {Len(tokens) + 1}) = Cardinality(Opened) + 1
      /\ Cardinality(Closed \cup {Len(tokens) + 1}) = Cardinality(Closed) + 1
  BY <1>1, <1>2, CountAppend
<1>6. CASE tokens' = Append(tokens, tok)
  BY <1>3, <1>5, <1>6
<1>7. CASE tok.kind = "EOL" /\ tokens' = tokens
  BY <1>4, <1>5, <1>7
<1> QED BY <1>6, <1>7, StoreShape

Balanced == Typed /\ BlocksBalanced

LEMMA InitBalanced == Init => BlocksBalanced
<1> SUFFICES ASSUME Init PROVE BlocksBalanced
  OBVIOUS
<1>1. Opened = {} /\ Closed = {}
  BY DEF Init, Opened, Closed
<1> QED BY <1>1, FS_EmptySet DEF Init, BlocksBalanced

LEMMA NextBalanced == Balanced /\ [Next]_vars => BlocksBalanced'
<1> SUFFICES ASSUME Balanced, [Next]_vars PROVE BlocksBalanced'
  OBVIOUS
<1>1. TypeOK /\ NeedEndExact /\ BlocksBalanced
  BY DEF Balanced, Typed
<1>2. /\ Len(src) \in Nat /\ cur \in 1..(Len(src) + 1) /\ Len(Symbols) \in Nat
      /\ Start \in cur..(Len(src) + 1) /\ column \in Nat
      /\ column + (Start - cur) \in Nat /\ last_indent \in Nat
  <2>1. Len(src) \in Nat /\ Len(Symbols) \in Nat
    BY <1>1, SourcesAssumption, SymbolsAssumption DEF TypeOK
  <2> QED BY <1>1, <2>1, StartBound DEF TypeOK
<1>3. \A kind \in Kinds, from \in 1..(Len(src) + 1), len \in 0..Len(src),
        at \in Nat, data \in 0..Len(Symbols) :
          /\ Tok(kind, from, len, at, data) \in TokenType
          /\ Tok(kind, from, len, at, data).kind = kind
  BY <1>1, TokType DEF Tok
<1>4. ASSUME NEW kind \in Kinds, NEW from \in 1..(Len(src) + 1),
             NEW len \in 0..Len(src), NEW at \in Nat, NEW data \in 0..Len(Symbols),
             Store(Tok(kind, from, len, at, data)), phase' = phase,
             phase = "lexing",
             last_indent' = last_indent + (IF kind = "BEGIN" THEN 1 ELSE 0)
                                        - (IF kind = "END" THEN 1 ELSE 0)
      PROVE  BlocksBalanced'
  <2> DEFINE tok == Tok(kind, from, len, at, data)
  <2>1. tok \in TokenType /\ tok.kind = kind
    BY <1>3
  <2> HIDE DEF tok
  <2>2. TypeOK /\ Store(tok)
    BY <1>1, <1>4 DEF tok
  <2>3. CASE kind = "BEGIN"
    <3>1. last_indent' = last_indent + 1
      BY <1>2, <1>4, <2>3
    <3>2. /\ Cardinality(Opened') = Cardinality(Opened) + 1
          /\ Cardinality(Closed') = Cardinality(Closed)
          /\ Cardinality(Opened) \in Nat /\ Cardinality(Closed) \in Nat
      BY <2>1, <2>2, <2>3, StoreCounts
    <3> QED BY <1>1, <1>2, <1>4, <3>1, <3>2, SMTT(30) DEF BlocksBalanced
  <2>4. CASE kind = "END"
    <3>1. last_indent' = last_indent - 1
      BY <1>2, <1>4, <2>4
    <3>2. /\ Cardinality(Opened') = Cardinality(Opened)
          /\ Cardinality(Closed') = Cardinality(Closed) + 1
          /\ Cardinality(Opened) \in Nat /\ Cardinality(Closed) \in Nat
      BY <2>1, <2>2, <2>4, StoreCounts
    <3> QED BY <1>1, <1>2, <1>4, <3>1, <3>2, SMTT(30) DEF BlocksBalanced
  <2>5. CASE kind \notin {"BEGIN", "END"}
    BY <1>1, <1>2, <1>4, <2>1, <2>2, <2>5, StoreCounts DEF BlocksBalanced
  <2> QED BY <2>3, <2>4, <2>5
<1>5. ASSUME tokens' = tokens, last_indent' = last_indent,
             phase' = "done" => last_indent = 0
      PROVE  BlocksBalanced'
  BY <1>1, <1>5 DEF BlocksBalanced, Opened, Closed
<1>6. 0 \in 0..Len(src) /\ 0 \in 0..Len(Symbols)
  BY <1>2
<1>7. CASE IndentBlockEnd
  BY <1>2, <1>4, <1>6, <1>7 DEF IndentBlockEnd, Kinds
<1>8. CASE IndentBlockBegin
  BY <1>2, <1>4, <1>6, <1>8 DEF IndentBlockBegin, Kinds
<1>9. CASE EolAtNul
  <2>1. /\ Store(Tok("EOL", cur, 0, column, 0)) /\ phase' = phase
        /\ phase = "lexing" /\ last_indent' = last_indent + 0 - 0
    BY <1>2, <1>9 DEF EolAtNul, PastIndent
  <2> QED BY <1>2, <1>4, <1>6, <2>1 DEF Kinds
<1>10. CASE StopAtNul
  <2>1. cur > Len(src)
    BY <1>1, <1>2, <1>10, AtNul DEF StopAtNul
  <2>2. Tabs = 0
    <3>1. Tabs \in 0..(Len(src) + 1 - cur)
      BY <1>1, <1>2, SpanBound DEF Tabs
    <3> QED BY <1>2, <2>1, <3>1
  <2>3. last_indent = 0
    BY <1>1, <1>2, <1>10, <2>2
       DEF StopAtNul, PastIndent, BlockEnds, IndentDue
  <2> QED BY <1>5, <1>10, <2>3 DEF StopAtNul, indentVars
<1>11. CASE EofBlockEnd
  BY <1>2, <1>4, <1>6, <1>11 DEF EofBlockEnd, Read, PastIndent, Kinds
<1>12. CASE EofStop
  BY <1>5, <1>12 DEF EofStop, Read
<1>13. AtText => Start \in 1..Len(src)
  BY <1>1, <1>2, StartBound DEF AtText
<1>14. CASE Endl
  <2>1. EndlLen(Start) \in 0..Len(src)
    BY <1>1, <1>2, <1>13, <1>14, TokenBound DEF Endl
  <2> QED BY <1>2, <1>4, <1>6, <1>14, <2>1 DEF Endl, AtText, PastIndent, Kinds
<1>15. ASSUME NEW kind \in Lexemes, NEW len \in 0..(Len(src) + 1 - Start),
              NEW data \in 0..Len(Symbols), AtText, Lexeme(kind, len, data)
       PROVE  BlocksBalanced'
  <2>1. len \in 0..Len(src) /\ kind \in Kinds /\ kind \notin {"BEGIN", "END"}
    BY <1>2, <1>13, <1>15 DEF Lexemes, Kinds
  <2> QED BY <1>2, <1>4, <1>15, <2>1 DEF Lexeme, AtText, PastIndent
<1>16. CASE IntTok
  BY <1>1, <1>6, <1>13, <1>15, <1>16, TokenBound DEF IntTok, AtLexeme, Lexemes
<1>17. CASE StringTok
  BY <1>1, <1>6, <1>13, <1>15, <1>17, TokenBound DEF StringTok, AtLexeme, Lexemes
<1>18. CASE SymbolTok
  <2>1. PICK s \in SymbolsAt(Start) : Lexeme("SYMBOL", CmpSrc(Start, Symbols[s]), s)
    BY <1>18 DEF SymbolTok
  <2>2. s \in DOMAIN Symbols /\ s \in 0..Len(Symbols)
    BY SymbolsAssumption DEF SymbolsAt
  <2>3. CmpSrc(Start, Symbols[s]) \in 0..(Len(src) + 1 - Start)
    BY <1>1, <1>13, <1>18, <2>2, TokenBound DEF SymbolTok, NotLiteral, AtLexeme
  <2> QED BY <1>15, <1>18, <2>1, <2>2, <2>3
          DEF SymbolTok, NotLiteral, AtLexeme, Lexemes
<1>19. CASE IdentTok
  <2>1. PICK kind \in {"KEYWORD", "IDENT"} : Lexeme(kind, IdentLen(Start), 0)
    BY <1>19 DEF IdentTok
  <2>2. IdentLen(Start) \in 0..(Len(src) + 1 - Start)
    BY <1>1, <1>13, <1>19, TokenBound DEF IdentTok, NotLiteral, AtLexeme
  <2> QED BY <1>6, <1>15, <1>19, <2>1, <2>2
          DEF IdentTok, NotLiteral, AtLexeme, Lexemes
<1>20. CASE UnknownTok
  BY <1>5, <1>20 DEF UnknownTok
<1>21. CASE UNCHANGED vars
  BY <1>1, <1>5, <1>21 DEF vars, indentVars, BlocksBalanced
<1> QED BY <1>7, <1>8, <1>9, <1>10, <1>11, <1>12, <1>14, <1>16, <1>17, <1>18,
           <1>19, <1>20, <1>21 DEF Next, GetTok

(* At every moment the parser has been given last_indent more BEGIN than   *)
(* END tokens, and a source lexed to its end has as many of one as of the  *)
(* other.                                                                  *)
THEOREM BlocksAreBalanced == Spec => []BlocksBalanced
<1>1. Init => Balanced
  BY InitTyped, InitBalanced DEF Balanced
<1>2. Balanced /\ [Next]_vars => Balanced'
  BY NextTyped, NextBalanced DEF Balanced
<1>3. Balanced => BlocksBalanced
  BY DEF Balanced
<1> QED BY <1>1, <1>2, <1>3, PTL DEF Spec

-----------------------------------------------------------------------------
(* The array of tokens.                                                    *)

(* A call stores one token, or leaves the array as it is.                  *)
LEMMA NextStores ==
  ASSUME Next
  PROVE  (\E tok : Store(tok)) \/ (tokens' = tokens /\ capacity' = capacity)
<1>1. IndentBlockEnd \/ IndentBlockBegin \/ EolAtNul \/ EofBlockEnd \/ Endl
        => \E tok : Store(tok)
  BY DEF IndentBlockEnd, IndentBlockBegin, EolAtNul, EofBlockEnd, Endl
<1>2. StopAtNul \/ EofStop \/ UnknownTok => tokens' = tokens /\ capacity' = capacity
  BY DEF StopAtNul, EofStop, UnknownTok
<1>3. \A kind, len, data : Lexeme(kind, len, data) => \E tok : Store(tok)
  BY DEF Lexeme
<1>4. IntTok \/ StringTok \/ SymbolTok \/ IdentTok => \E tok : Store(tok)
  BY <1>3 DEF IntTok, StringTok, SymbolTok, IdentTok
<1> QED BY <1>1, <1>2, <1>4 DEF Next, GetTok

LEMMA StoreKeeps ==
  ASSUME TypeOK, TokensStored, NEW tok, Store(tok)
  PROVE  TokensStored'
<1>1. tokens \in Seq(TokenType) /\ Len(tokens) \in Nat
      /\ capacity \in Nat /\ Chunk \in Nat \ {0}
  BY ChunkAssumption DEF TypeOK, TokenType
<1>2. CASE IsPrevEol(tok)
  BY <1>2 DEF Store, TokensStored, NoAdjacentEol, WithinCapacity
<1>3. CASE ~IsPrevEol(tok)
  <2>1. tokens' = Append(tokens, tok) /\ capacity' = Grown
    BY <1>3 DEF Store
  <2>2. /\ Len(tokens') = Len(tokens) + 1 /\ tokens'[Len(tokens) + 1] = tok
        /\ \A i \in 1..Len(tokens) : tokens'[i] = tokens[i]
    BY <1>1, <2>1
  <2>3. NoAdjacentEol'
    <3> SUFFICES ASSUME NEW i \in 1..(Len(tokens') - 1)
                 PROVE  ~(tokens'[i].kind = "EOL" /\ tokens'[i + 1].kind = "EOL")
      BY DEF NoAdjacentEol
    <3>1. CASE i < Len(tokens)
      BY <1>1, <2>2, <3>1 DEF TokensStored, NoAdjacentEol
    <3>2. CASE i = Len(tokens)
      <4>1. i \in 1..Len(tokens) /\ tokens # <<>>
        BY <1>1, <2>2, <3>2
      <4> QED BY <1>3, <2>2, <3>2, <4>1 DEF IsPrevEol
    <3> QED BY <1>1, <2>2, <3>1, <3>2
  <2>4. WithinCapacity'
    BY <1>1, <2>1, <2>2 DEF TokensStored, WithinCapacity, Grown
  <2> QED BY <2>3, <2>4 DEF TokensStored
<1> QED BY <1>2, <1>3

(* Whatever the source, no two EOL are stored one after the other, and no  *)
(* token outside the array, which is never a chunk larger than it must be. *)
THEOREM TokensAreStored == Spec => []TokensStored
<1> DEFINE I == Typed /\ TokensStored
<1>1. Init => I
  <2> SUFFICES ASSUME Init PROVE TokensStored
    BY InitTyped
  <2>1. Len(tokens) = 0 /\ capacity = Chunk /\ Chunk \in Nat \ {0}
    BY ChunkAssumption DEF Init
  <2> QED BY <2>1 DEF TokensStored, NoAdjacentEol, WithinCapacity
<1>2. I /\ [Next]_vars => I'
  <2> SUFFICES ASSUME I, [Next]_vars PROVE TokensStored'
    BY NextTyped
  <2>1. CASE tokens' = tokens /\ capacity' = capacity
    BY <2>1 DEF TokensStored, NoAdjacentEol, WithinCapacity
  <2>2. CASE \E tok : Store(tok)
    BY <2>2, StoreKeeps DEF Typed
  <2>3. CASE UNCHANGED vars
    BY <2>1, <2>3 DEF vars
  <2> QED BY <2>1, <2>2, <2>3, NextStores
<1>3. I => TokensStored
  OBVIOUS
<1> QED BY <1>1, <1>2, <1>3, PTL DEF Spec

-----------------------------------------------------------------------------
(* Progress.                                                               *)

LEMMA StoreLength ==
  ASSUME TypeOK, NEW tok, Store(tok)
  PROVE  Len(tokens) \in Nat /\ Len(tokens') <= Len(tokens) + 1
<1>1. tokens \in Seq(TokenType)
  BY DEF TypeOK, TokenType
<1>2. CASE tokens' = Append(tokens, tok)
  BY <1>1, <1>2
<1>3. CASE tokens' = tokens
  BY <1>1, <1>3
<1> QED BY <1>2, <1>3, StoreShape

(* A step that reads needs no more than that it reads: the measure pays    *)
(* four for a character, and at most three for the flag.                   *)
LEMMA ReadingPays ==
  ASSUME TypeOK, src' = src, cur' \in 1..(Len(src) + 1), cur' > cur,
         after_endl' \in BOOLEAN, last_indent' \in Nat, last_indent' <= last_indent
  PROVE  Measure' < Measure
<1>0. Len(src) \in Nat /\ last_indent' \in Nat /\ last_indent \in Nat
  BY SourcesAssumption DEF TypeOK
<1>1. /\ Len(src) \in Nat /\ cur \in Nat /\ cur' \in Nat
      /\ last_indent \in Nat /\ last_indent' \in Nat
      /\ last_indent' <= last_indent
  BY <1>0 DEF TypeOK
<1> DEFINE M(c, f) == IF c <= Len(src) THEN (IF f THEN 3 ELSE 0)
                                       ELSE (IF f THEN 0 ELSE 1)
<1>2. /\ Measure = 4 * (Len(src) + 1 - cur) + 2 * last_indent + M(cur, after_endl)
      /\ Measure' = 4 * (Len(src) + 1 - cur') + 2 * last_indent' + M(cur', after_endl')
  BY DEF Measure
<1>3. M(cur, after_endl) \in 0..3 /\ M(cur', after_endl') \in 0..3
  OBVIOUS
<1> HIDE DEF M
<1>4. \A n, c, d, k, l \in Nat, x, y \in 0..3 :
        c < d /\ l <= k =>
          4 * (n + 1 - d) + 2 * l + y < 4 * (n + 1 - c) + 2 * k + x
  OBVIOUS
<1> QED BY <1>1, <1>2, <1>3, <1>4

LEMMA MeasureType ==
  /\ TypeOK => Measure \in Nat
  /\ TypeOK' => Measure' \in Nat
<1>1. TypeOK => Measure \in Nat
  BY SourcesAssumption DEF TypeOK, Measure
<1>2. ASSUME TypeOK' PROVE Measure' \in Nat
  <2>1. Len(src') \in Nat /\ cur' \in 1..(Len(src') + 1) /\ last_indent' \in Nat
    BY <1>2, SourcesAssumption DEF TypeOK
  <2> QED BY <2>1 DEF Measure
<1> QED BY <1>1, <1>2

(* A call that returns a token lowers the measure and stores one token at  *)
(* most; the other calls store none and do not raise it.                   *)
LEMMA StepMeasure ==
  ASSUME Typed, Next
  PROVE  /\ phase' = "lexing" => Measure' < Measure
         /\ Measure' <= Measure
         /\ Len(tokens') \in Nat
         /\ \/ Measure' < Measure /\ Len(tokens') <= Len(tokens) + 1
            \/ tokens' = tokens
         /\ src' = src
<1>1. TypeOK /\ NeedEndExact /\ TypeOK'
  BY NextTyped DEF Typed
<1>2. /\ Len(src) \in Nat /\ cur \in 1..(Len(src) + 1) /\ cur \in Nat
      /\ Start \in cur..(Len(src) + 1) /\ last_indent \in Nat
      /\ Measure \in Nat /\ Measure' \in Nat
      /\ Len(tokens) \in Nat /\ Len(tokens') \in Nat
      /\ cur' \in 1..(Len(src') + 1) /\ after_endl' \in BOOLEAN
      /\ last_indent' \in Nat
  <2>1. Len(src) \in Nat
    BY <1>1, SourcesAssumption DEF TypeOK
  <2>2. Measure \in Nat /\ Measure' \in Nat
    BY <1>1, MeasureType
  <2> QED BY <1>1, <2>1, <2>2, StartBound, SMTT(30) DEF TypeOK
<1>3. ASSUME NEW tok, Store(tok), src' = src, Measure' < Measure
      PROVE  /\ Measure' <= Measure
             /\ \/ Measure' < Measure /\ Len(tokens') <= Len(tokens) + 1
                \/ tokens' = tokens
  BY <1>1, <1>2, <1>3, StoreLength
<1>4. At(cur) = NUL <=> cur > Len(src)
  BY <1>1, <1>2, AtNul
<1>5. ASSUME src' = src, cur' > cur, last_indent' <= last_indent
      PROVE  Measure' < Measure
  BY <1>1, <1>2, <1>5, ReadingPays
<1>6. CASE IndentBlockEnd
  <2>1. /\ last_indent > 0 /\ last_indent' = last_indent - 1
        /\ src' = src /\ cur' = cur /\ after_endl' = FALSE
    BY <1>6, EndStep DEF IndentBlockEnd
  <2>2. Measure' < Measure
    BY <1>2, <2>1 DEF Measure
  <2> QED BY <1>2, <1>3, <1>6, <2>1, <2>2 DEF IndentBlockEnd
<1>7. CASE IndentBlockBegin
  <2>0. Tabs \in Nat /\ need_end_indent \in Nat /\ after_endl \in BOOLEAN
    <3>1. Tabs \in 0..(Len(src) + 1 - cur)
      BY <1>1, <1>2, SpanBound DEF Tabs
    <3> QED BY <1>1, <1>2, <3>1 DEF TypeOK
  <2>1. Tabs > 0 /\ after_endl = TRUE
    BY <1>2, <1>7, <2>0 DEF IndentBlockBegin, BlockBegins, BlockEnds, IndentDue
  <2>2. cur <= Len(src)
    <3>1. Tabs \in 0..(Len(src) + 1 - cur)
      BY <1>1, <1>2, SpanBound DEF Tabs
    <3> QED BY <1>2, <2>1, <3>1
  <2>3. last_indent' = last_indent + 1 /\ src' = src /\ cur' = cur /\ after_endl' = FALSE
    BY <1>7 DEF IndentBlockBegin
  <2>4. Measure' < Measure
    BY <1>2, <2>1, <2>2, <2>3 DEF Measure
  <2> QED BY <1>2, <1>3, <1>7, <2>3, <2>4 DEF IndentBlockBegin
<1>8. CASE EolAtNul
  <2>1. /\ cur > Len(src) /\ after_endl = FALSE /\ after_endl' = TRUE
        /\ src' = src /\ cur' = cur /\ last_indent' = last_indent
    BY <1>1, <1>4, <1>8 DEF EolAtNul, TypeOK
  <2>2. Measure' < Measure
    BY <1>2, <2>1 DEF Measure
  <2> QED BY <1>2, <1>3, <1>8, <2>1, <2>2 DEF EolAtNul
<1>9. CASE StopAtNul
  <2>1. Measure' = Measure
    BY <1>9 DEF StopAtNul, indentVars, Measure
  <2> QED BY <1>2, <1>9, <2>1 DEF StopAtNul
<1>10. CASE EofBlockEnd
  <2>1. src' = src /\ cur' > cur /\ last_indent' <= last_indent
    <3>1. cur <= Len(src) /\ Start > Len(src)
      BY <1>1, <1>2, <1>4, <1>10, AtNul DEF EofBlockEnd
    <3> QED BY <1>2, <1>10, <3>1 DEF EofBlockEnd, Read
  <2> QED BY <1>2, <1>3, <1>5, <1>10, <2>1 DEF EofBlockEnd
<1>11. CASE EofStop
  <2>1. src' = src /\ cur' > cur /\ last_indent' <= last_indent
    <3>1. cur <= Len(src) /\ Start > Len(src)
      BY <1>1, <1>2, <1>4, <1>11, AtNul DEF EofStop
    <3> QED BY <1>2, <1>11, <3>1 DEF EofStop, Read
  <2> QED BY <1>2, <1>5, <1>11, <2>1 DEF EofStop
<1>12. AtText => Start \in 1..Len(src)
  BY <1>1, <1>2, StartBound DEF AtText
<1>13. CASE Endl
  <2>1. src' = src /\ cur' > cur /\ last_indent' <= last_indent
    <3>1. EndlLen(Start) \in Nat /\ EndlLen(Start) > 0
      BY <1>1, <1>2, <1>12, <1>13, TokenBound DEF Endl
    <3> QED BY <1>2, <1>13, <3>1 DEF Endl
  <2> QED BY <1>2, <1>3, <1>5, <1>13, <2>1 DEF Endl
<1>14. ASSUME NEW kind, NEW len \in Nat, NEW data, len > 0, Lexeme(kind, len, data)
       PROVE  /\ Measure' < Measure
              /\ \/ Measure' < Measure /\ Len(tokens') <= Len(tokens) + 1
                 \/ tokens' = tokens
              /\ src' = src
  <2>1. src' = src /\ cur' > cur /\ last_indent' <= last_indent
    BY <1>2, <1>14 DEF Lexeme, Read
  <2> QED BY <1>3, <1>5, <1>14, <2>1 DEF Lexeme
<1>15. CASE IntTok
  <2>1. IntLen(Start) \in Nat /\ IntLen(Start) > 0
    BY <1>1, <1>2, <1>12, <1>15, TokenBound DEF IntTok, AtLexeme
  <2> QED BY <1>2, <1>14, <1>15, <2>1 DEF IntTok
<1>16. CASE StringTok
  <2>1. StringLen(Start) \in Nat /\ StringLen(Start) > 0
    BY <1>1, <1>2, <1>12, <1>16, TokenBound DEF StringTok, AtLexeme
  <2> QED BY <1>2, <1>14, <1>16, <2>1 DEF StringTok
<1>17. CASE SymbolTok
  <2>1. PICK s \in SymbolsAt(Start) : Lexeme("SYMBOL", CmpSrc(Start, Symbols[s]), s)
    BY <1>17 DEF SymbolTok
  <2>2. CmpSrc(Start, Symbols[s]) \in Nat /\ CmpSrc(Start, Symbols[s]) > 0
    BY <1>1, <1>2, <1>12, <1>17, <2>1, TokenBound
       DEF SymbolTok, NotLiteral, AtLexeme, SymbolsAt
  <2> QED BY <1>2, <1>14, <2>1, <2>2
<1>18. CASE IdentTok
  <2>1. IdentLen(Start) \in Nat /\ IdentLen(Start) > 0
    BY <1>1, <1>2, <1>12, <1>18, TokenBound DEF IdentTok, NotLiteral, AtLexeme
  <2>2. PICK kind : Lexeme(kind, IdentLen(Start), 0)
    BY <1>18 DEF IdentTok
  <2> QED BY <1>2, <1>14, <2>1, <2>2
<1>19. CASE UnknownTok
  <2>1. Measure' <= Measure
    <3>1. CASE cur' > cur
      BY <1>2, <1>5, <1>19, <3>1 DEF UnknownTok, Read
    <3>2. CASE cur' = cur
      <4>1. cur <= Len(src)
        BY <1>2, <1>12, <1>19, <3>2
           DEF UnknownTok, NotLiteral, AtLexeme, Read
      <4> QED BY <1>1, <1>2, <1>19, <3>2, <4>1 DEF UnknownTok, Read, Measure, TypeOK
    <3>3. cur' >= cur
      BY <1>2, <1>19 DEF UnknownTok, Read
    <3> QED BY <1>2, <3>1, <3>2, <3>3
  <2> QED BY <1>2, <1>19, <2>1 DEF UnknownTok, Read
<1> QED BY <1>2, <1>6, <1>7, <1>8, <1>9, <1>10, <1>11, <1>13, <1>15, <1>16,
           <1>17, <1>18, <1>19 DEF Next, GetTok

(* Whatever the source, every call of sclexer_get_tok that returns a token *)
(* lowers the measure, so the loop of sclexer_get_tokens ends.             *)
THEOREM CallsProgress == Spec => EveryCallProgresses
<1>1. Typed /\ [Next]_vars => [phase' = "lexing" => Measure' < Measure]_vars
  BY StepMeasure
<1> QED BY <1>1, InitTyped, NextTyped, PTL DEF Spec, EveryCallProgresses

(* A source of n characters lexes to at most 4n + 1 tokens.                *)
THEOREM TokensLinear == Spec => []TokensBounded
<1> DEFINE I == Typed /\ TokensBounded
<1>1. Init => I
  <2> SUFFICES ASSUME Init PROVE TokensBounded
    BY InitTyped
  <2>1. Len(src) \in Nat /\ Len(tokens) = 0
    BY SourcesAssumption DEF Init
  <2> QED BY <2>1 DEF Init, TokensBounded, Measure
<1>2. I /\ [Next]_vars => I'
  <2> SUFFICES ASSUME I, [Next]_vars PROVE TokensBounded'
    BY NextTyped
  <2>1. Len(src) \in Nat /\ Len(tokens) \in Nat /\ Measure \in Nat /\ Measure' \in Nat
    <3>1. TypeOK /\ TypeOK'
      BY NextTyped DEF Typed
    <3>2. Measure \in Nat /\ Measure' \in Nat
      BY <3>1, MeasureType
    <3> QED BY <3>1, <3>2, SourcesAssumption, SMTT(30) DEF TypeOK
  <2>2. CASE Next
    BY <2>1, <2>2, StepMeasure DEF TokensBounded
  <2>3. CASE UNCHANGED vars
    BY <2>3 DEF vars, indentVars, TokensBounded, Measure
  <2> QED BY <2>2, <2>3
<1> QED BY <1>1, <1>2, PTL DEF Spec

-----------------------------------------------------------------------------
(* Places in the source.                                                   *)

(* A set of numbers from i on that has all below any of it is an interval. *)
LEMMA RunIsInterval ==
  ASSUME NEW i \in Nat, NEW n \in Nat, i <= n + 1, NEW R \in SUBSET (i..n),
         \A k \in R : \A m \in i..k : m \in R
  PROVE  /\ Cardinality(R) \in 0..(n + 1 - i)
         /\ R = i..(i + Cardinality(R) - 1)
<1> DEFINE c == Cardinality(R)
           I == i..(i + c - 1)
<1>1. IsFiniteSet(R) /\ c \in 0..(n + 1 - i)
  BY RunLength
<1> HIDE DEF c
<1>2. IsFiniteSet(I) /\ Cardinality(I) = c
  <2>1. i + c - 1 \in Int /\ i \in Int
    BY <1>1
  <2>2. IsFiniteSet(I) /\ Cardinality(I) = IF i > i + c - 1 THEN 0 ELSE (i + c - 1) - i + 1
    BY <2>1, FS_Interval
  <2> QED BY <1>1, <2>2
<1>3. ASSUME NEW k \in R PROVE k \in I
  <2>1. k \in Nat /\ i <= k
    OBVIOUS
  <2>2. i..k \in SUBSET R
    OBVIOUS
  <2>3. Cardinality(i..k) <= c
    BY <1>1, <2>2, FS_Subset DEF c
  <2>4. Cardinality(i..k) = k - i + 1
    BY <2>1, FS_Interval
  <2> QED BY <1>1, <2>1, <2>3, <2>4
<1>4. R \in SUBSET I
  BY <1>3
<1>5. I = R
  BY <1>2, <1>4, FS_Subset DEF c
<1> QED BY <1>1, <1>5 DEF c

(* The greatest of some places, and the least of some numbers.             *)
LEMMA Greatest ==
  ASSUME NEW n \in Nat, NEW R \in SUBSET (1..n), R # {}
  PROVE  \E b \in R : \A k \in R : k <= b
<1> DEFINE D == {k \in 1..n : \E b \in R : k <= b}
           c == Cardinality(D)
<1>1. D \in SUBSET (1..n) /\ \A k \in D : \A m \in 1..k : m \in D
  <2> SUFFICES ASSUME NEW k \in D, NEW m \in 1..k PROVE m \in D
    OBVIOUS
  <2>1. PICK b \in R : k <= b
    OBVIOUS
  <2> QED BY <2>1
<1>2. \A b \in R : b \in D
  OBVIOUS
<1>3. \A k \in D : \E b \in R : k <= b
  OBVIOUS
<1> HIDE DEF D
<1>4. c \in 0..n /\ D = 1..c
  <2>1. 1 \in Nat /\ 1 <= n + 1
    OBVIOUS
  <2>2. Cardinality(D) \in 0..(n + 1 - 1) /\ D = 1..(1 + Cardinality(D) - 1)
    BY <1>1, <2>1, RunIsInterval
  <2> QED BY <2>2
<1> HIDE DEF c
<1>5. c \in D
  <2>1. PICK b \in R : TRUE
    OBVIOUS
  <2>2. b \in 1..c
    BY <1>2, <1>4
  <2> QED BY <1>4, <2>2
<1>6. PICK b \in R : c <= b
  BY <1>3, <1>5
<1>7. \A k \in R : k \in 1..c
  BY <1>2, <1>4
<1> QED BY <1>4, <1>6, <1>7

LEMMA Least ==
  ASSUME NEW R \in SUBSET Nat, R # {}
  PROVE  \E b \in R : \A k \in R : b <= k
<1>1. PICK n \in R : TRUE
  OBVIOUS
<1> DEFINE M == {n + 1 - k : k \in {m \in R : m <= n}}
<1>2. n + 1 \in Nat /\ M \in SUBSET (1..(n + 1)) /\ M # {}
  BY <1>1
<1>3. PICK b \in M : \A k \in M : k <= b
  BY <1>2, Greatest
<1>4. PICK a \in R : a <= n /\ b = n + 1 - a
  BY <1>3
<1> HIDE DEF M
<1>5. ASSUME NEW k \in R PROVE a <= k
  <2>0. n \in Nat /\ a \in Nat /\ k \in Nat
    OBVIOUS
  <2>1. CASE k <= n
    <3>1. n + 1 - k \in M
      BY <2>1 DEF M
    <3> QED BY <1>3, <1>4, <2>0, <3>1
  <2>2. CASE k > n
    BY <1>4, <2>0, <2>2
  <2> QED BY <2>0, <2>1, <2>2
<1> QED BY <1>5

(* What Span and Until count: the characters up to the first that is not,  *)
(* or is, among cs.                                                        *)
LEMMA SpanIs ==
  ASSUME TypeOK, NEW i \in 1..(Len(src) + 1), NEW cs
  PROVE  /\ Span(i, cs) \in 0..(Len(src) + 1 - i)
         /\ \A k \in i..(i + Span(i, cs) - 1) : src[k] \in cs
         /\ i + Span(i, cs) <= Len(src) => src[i + Span(i, cs)] \notin cs
<1>1. Len(src) \in Nat
  BY SourcesAssumption DEF TypeOK
<1> DEFINE R == {k \in i..Len(src) : \A m \in i..k : src[m] \in cs}
           n == Cardinality(R)
<1>2. R \in SUBSET (i..Len(src)) /\ \A k \in R : \A m \in i..k : m \in R
  OBVIOUS
<1>3. \A k \in R : src[k] \in cs
  <2> SUFFICES ASSUME NEW k \in R PROVE src[k] \in cs
    OBVIOUS
  <2>1. k \in i..k
    OBVIOUS
  <2> QED BY <2>1
<1>4. Span(i, cs) = n
  BY DEF Span
<1>5. n \in 0..(Len(src) + 1 - i) /\ R = i..(i + n - 1)
  <2>1. i \in Nat /\ i <= Len(src) + 1
    BY <1>1
  <2> HIDE DEF R
  <2> QED BY <1>1, <1>2, <2>1, RunIsInterval
<1>6. ASSUME i + n <= Len(src), src[i + n] \in cs PROVE FALSE
  <2>1. \A m \in i..(i + n) : src[m] \in cs
    <3> HIDE DEF R, n
    <3> QED BY <1>1, <1>3, <1>5, <1>6
  <2>2. i + n \in i..Len(src)
    <3> HIDE DEF R, n
    <3> QED BY <1>1, <1>5, <1>6
  <2>3. i + n \in R
    <3> HIDE DEF n
    <3> QED BY <2>1, <2>2
  <2> HIDE DEF R, n
  <2> QED BY <1>1, <1>5, <2>3
<1> HIDE DEF R, n
<1> QED BY <1>3, <1>4, <1>5, <1>6

LEMMA UntilIs ==
  ASSUME TypeOK, NEW i \in 1..(Len(src) + 1), NEW cs
  PROVE  /\ Until(i, cs) \in 0..(Len(src) + 1 - i)
         /\ \A k \in i..(i + Until(i, cs) - 1) : src[k] \notin cs
         /\ i + Until(i, cs) <= Len(src) => src[i + Until(i, cs)] \in cs
<1> DEFINE others == {src[k] : k \in 1..Len(src)} \ cs
<1>1. Len(src) \in Nat
  BY SourcesAssumption DEF TypeOK
<1>2. \A k \in 1..Len(src) : src[k] \in others <=> src[k] \notin cs
  OBVIOUS
<1>3. Until(i, cs) = Span(i, others)
  <2>1. \A k \in i..Len(src) : \A m \in i..k : m \in 1..Len(src)
    BY <1>1
  <2>2. {k \in i..Len(src) : \A m \in i..k : src[m] \notin cs}
          = {k \in i..Len(src) : \A m \in i..k : src[m] \in others}
    <3> HIDE DEF others
    <3> QED BY <1>2, <2>1
  <2> QED BY <2>2 DEF Until, Span
<1> HIDE DEF others
<1>4. /\ Span(i, others) \in 0..(Len(src) + 1 - i)
      /\ \A k \in i..(i + Span(i, others) - 1) : src[k] \in others
      /\ i + Span(i, others) <= Len(src) => src[i + Span(i, others)] \notin others
  BY SpanIs
<1>5. \A k \in i..(i + Span(i, others) - 1) : k \in 1..Len(src)
  BY <1>1, <1>4
<1> QED BY <1>1, <1>2, <1>3, <1>4, <1>5

LEMMA SpanUnique ==
  ASSUME TypeOK, NEW i \in 1..(Len(src) + 1), NEW cs, NEW n \in 0..(Len(src) + 1 - i),
         \A k \in i..(i + n - 1) : src[k] \in cs,
         i + n <= Len(src) => src[i + n] \notin cs
  PROVE  Span(i, cs) = n
<1>1. Len(src) \in Nat
  BY SourcesAssumption DEF TypeOK
<1> DEFINE m == Span(i, cs)
<1>2. /\ m \in 0..(Len(src) + 1 - i)
      /\ \A k \in i..(i + m - 1) : src[k] \in cs
      /\ i + m <= Len(src) => src[i + m] \notin cs
  BY SpanIs
<1> HIDE DEF m
<1>3. ~(m < n)
  BY <1>1, <1>2
<1>4. ~(n < m)
  BY <1>1, <1>2
<1>5. m = n
  BY <1>2, <1>3, <1>4
<1> QED BY <1>5 DEF m

-----------------------------------------------------------------------------
(* Lines.                                                                  *)

BeginsLine(b, i) == /\ b \in 1..i
                    /\ b = 1 \/ src[b - 1] = NL
                    /\ \A k \in b..(i - 1) : src[k] # NL

LEMMA LineStartIs ==
  ASSUME TypeOK, NEW i \in 1..(Len(src) + 1)
  PROVE  /\ BeginsLine(LineStart(i), i)
         /\ \A b : BeginsLine(b, i) => b = LineStart(i)
<1>1. Len(src) \in Nat /\ i \in Nat \ {0}
  BY SourcesAssumption DEF TypeOK
<1> DEFINE R == {b \in 1..i : b = 1 \/ src[b - 1] = NL}
<1>2. PICK b \in R : \A k \in R : k <= b
  <2>1. 1 \in R /\ R \in SUBSET (1..i)
    BY <1>1
  <2> HIDE DEF R
  <2> QED BY <1>1, <2>1, Greatest
<1>3. ASSUME NEW k \in b..(i - 1) PROVE src[k] # NL
  <2>1. SUFFICES ASSUME src[k] = NL PROVE FALSE
    OBVIOUS
  <2>2. k + 1 \in R
    BY <1>1, <2>1
  <2>3. b \in 1..i
    OBVIOUS
  <2> HIDE DEF R
  <2>4. k + 1 <= b
    BY <1>2, <2>2
  <2> QED BY <1>1, <2>3, <2>4
<1>4. BeginsLine(b, i)
  BY <1>2, <1>3 DEF BeginsLine
<1>5. BeginsLine(LineStart(i), i)
  <2>1. \E c \in 1..i : (c = 1 \/ src[c - 1] = NL) /\ \A k \in c..(i - 1) : src[k] # NL
    BY <1>4 DEF BeginsLine
  <2> QED BY <2>1, Zenon DEF BeginsLine, LineStart
<1>6. ASSUME NEW c, NEW d, BeginsLine(c, i), BeginsLine(d, i) PROVE ~(c < d)
  <2>1. SUFFICES ASSUME c < d PROVE FALSE
    OBVIOUS
  <2>2. c \in 1..i /\ d \in 1..i
    BY <1>6 DEF BeginsLine
  <2>3. d - 1 \in c..(i - 1) /\ d # 1
    BY <1>1, <2>1, <2>2
  <2> QED BY <1>6, <2>3 DEF BeginsLine
<1>7. ASSUME NEW c, BeginsLine(c, i) PROVE c = LineStart(i)
  <2>1. c \in 1..i /\ LineStart(i) \in 1..i
    BY <1>5, <1>7 DEF BeginsLine
  <2>2. ~(c < LineStart(i)) /\ ~(LineStart(i) < c)
    BY <1>5, <1>6, <1>7
  <2> QED BY <2>1, <2>2
<1> QED BY <1>5, <1>7

LEMMA LineOfType ==
  ASSUME TypeOK, NEW i \in 1..(Len(src) + 1)
  PROVE  /\ IsFiniteSet(NewlinesBefore(i)) /\ LineOf(i) \in Nat \ {0}
         /\ LineOf(1) = 1 /\ LineStart(1) = 1
<1>1. Len(src) \in Nat
  BY SourcesAssumption DEF TypeOK
<1>2. NewlinesBefore(i) \in SUBSET (1..(i - 1))
  BY DEF NewlinesBefore
<1>3. IsFiniteSet(1..(i - 1))
  BY <1>1, FS_Interval
<1>4. IsFiniteSet(NewlinesBefore(i)) /\ Cardinality(NewlinesBefore(i)) \in Nat
  BY <1>2, <1>3, FS_Subset, FS_CardinalityType
<1>5. NewlinesBefore(1) = {}
  BY DEF NewlinesBefore
<1>6. LineOf(1) = 1
  BY <1>5, FS_EmptySet DEF LineOf
<1>7. BeginsLine(1, 1) /\ 1 \in 1..(Len(src) + 1)
  BY <1>1 DEF BeginsLine
<1>8. LineStart(1) = 1
  BY <1>7, LineStartIs
<1> QED BY <1>4, <1>6, <1>8 DEF LineOf

(* Places with no newline between are on one line.                         *)
LEMMA SameLine ==
  ASSUME TypeOK, NEW i \in 1..(Len(src) + 1), NEW j \in i..(Len(src) + 1),
         \A k \in i..(j - 1) : src[k] # NL
  PROVE  LineOf(j) = LineOf(i) /\ LineStart(j) = LineStart(i)
<1>1. Len(src) \in Nat
  BY SourcesAssumption DEF TypeOK
<1>2. NewlinesBefore(j) = NewlinesBefore(i)
  BY <1>1 DEF NewlinesBefore
<1>3. BeginsLine(LineStart(i), i)
  BY LineStartIs
<1>4. BeginsLine(LineStart(i), j)
  <2> DEFINE b == LineStart(i)
  <2> HIDE DEF b
  <2>1. BeginsLine(b, i)
    BY <1>3 DEF b
  <2>2. BeginsLine(b, j)
    BY <1>1, <2>1 DEF BeginsLine
  <2> QED BY <2>2 DEF b
<1>5. j \in 1..(Len(src) + 1)
  BY <1>1
<1> QED BY <1>2, <1>4, <1>5, LineStartIs DEF LineOf

LEMMA NextLine ==
  ASSUME TypeOK, NEW i \in 1..Len(src), src[i] = NL
  PROVE  LineOf(i + 1) = LineOf(i) + 1 /\ LineStart(i + 1) = i + 1
<1>1. Len(src) \in Nat /\ i \in 1..(Len(src) + 1) /\ i + 1 \in 1..(Len(src) + 1)
  BY SourcesAssumption DEF TypeOK
<1>2. NewlinesBefore(i + 1) = NewlinesBefore(i) \cup {i} /\ i \notin NewlinesBefore(i)
  BY <1>1 DEF NewlinesBefore
<1>3. Cardinality(NewlinesBefore(i + 1)) = Cardinality(NewlinesBefore(i)) + 1
  BY <1>1, <1>2, LineOfType, FS_AddElement
<1>4. BeginsLine(i + 1, i + 1)
  BY <1>1 DEF BeginsLine
<1> QED BY <1>1, <1>3, <1>4, LineStartIs, LineOfType DEF LineOf

(* What a step that leaves the source alone leaves alone with it.          *)
LEMMA TextSame ==
  ASSUME src' = src
  PROVE  /\ Clean' = Clean /\ LineDepth' = LineDepth
         /\ \A i : LineOf(i)' = LineOf(i) /\ LineStart(i)' = LineStart(i)
         /\ \A i, cs : Span(i, cs)' = Span(i, cs)
<1>1. \A i : LineOf(i)' = LineOf(i)
  BY DEF LineOf, NewlinesBefore
<1>2. \A i : LineStart(i)' = LineStart(i)
  BY DEF LineStart
<1>3. \A i, cs : Span(i, cs)' = Span(i, cs)
  BY DEF Span
<1>4. Clean' = Clean
  BY DEF Clean, At
<1>5. LineDepth' = LineDepth
  BY DEF LineDepth, LineBegin, LineOf, NewlinesBefore, LineStart, Span
<1> QED BY <1>1, <1>2, <1>3, <1>4, <1>5

-----------------------------------------------------------------------------
(* What is read.                                                           *)

(* In a source without trailing blanks, dropping space stays in the line.  *)
LEMMA CleanStart ==
  ASSUME TypeOK, Clean, cur <= Len(src)
  PROVE  Start \in cur..Len(src) /\ \A k \in cur..(Start - 1) : src[k] # NL
<1>1. Len(src) \in Nat /\ cur \in 1..(Len(src) + 1) /\ cur \in 1..Len(src)
  BY SourcesAssumption DEF TypeOK
<1> DEFINE n == Span(cur, Blanks)
<1>2. /\ n \in 0..(Len(src) + 1 - cur)
      /\ \A k \in cur..(cur + n - 1) : src[k] \in Blanks
      /\ cur + n <= Len(src) => src[cur + n] \notin Blanks
  BY <1>1, SpanIs
<1> HIDE DEF n
<1>3. NL \notin Blanks /\ Spaces = Blanks \cup {NL} /\ At(cur) = src[cur]
  BY <1>1 DEF Blanks, Spaces, NL, TAB, At
<1>4. CASE n > 0
  <2>1. src[cur + n - 1] \in Blanks /\ cur + n - 1 \in 1..Len(src) /\ src[cur] \in Blanks
    BY <1>1, <1>2, <1>4
  <2>2. At((cur + n - 1) + 1) \notin {NL, NUL}
    BY <2>1 DEF Clean
  <2>3. cur + n <= Len(src) /\ src[cur + n] # NL
    BY <1>1, <1>2, <2>2 DEF At
  <2>4. \A k \in cur..(cur + n - 1) : src[k] \in Spaces
    BY <1>2, <1>3
  <2>5. Span(cur, Spaces) = n
    BY <1>1, <1>2, <1>3, <2>3, <2>4, SpanUnique
  <2>6. Start = cur + n
    BY <1>3, <2>1, <2>5 DEF Start
  <2> QED BY <1>1, <1>2, <1>3, <2>3, <2>6
<1>5. CASE n = 0 /\ src[cur] = NL
  BY <1>1, <1>3, <1>5 DEF Start
<1>6. CASE n = 0 /\ src[cur] # NL
  <2>1. 0 \in 0..(Len(src) + 1 - cur) /\ cur + 0 = cur /\ cur..(cur + 0 - 1) = {}
    BY <1>1
  <2>2. src[cur] \notin Spaces
    BY <1>1, <1>2, <1>3, <1>6
  <2>3. Span(cur, Spaces) = 0
    BY <1>1, <2>1, <2>2, SpanUnique
  <2>4. Start = cur
    BY <1>1, <1>3, <1>6, <2>3 DEF Start
  <2> QED BY <1>1, <2>4
<1> QED BY <1>2, <1>4, <1>5, <1>6

(* What is compared equal is the symbol as far as the source goes, and all *)
(* of it if the source still has the end of its line.                      *)
LEMMA CmpIs ==
  ASSUME TypeOK, NEW i \in 1..Len(src), NEW s \in Seq(STRING \ Spaces) \ {<<>>}
  PROVE  /\ Len(s) \in Nat /\ CmpSrc(i, s) \in 0..(Len(src) + 1 - i)
         /\ \A k \in i..(i + CmpSrc(i, s) - 1) : src[k] \notin Spaces
         /\ SpelledAt(i, s) => CmpSrc(i, s) = Len(s) /\ Len(s) > 0
         /\ CmpSrc(i, s) > 0 /\ (\E k \in i..Len(src) : src[k] = NL)
              => SpelledAt(i, s) /\ CmpSrc(i, s) = Len(s)
<1> DEFINE left == Len(src) + 1 - i
           l == Len(s)
           n == IF left < l THEN left ELSE l
<1>1. left \in Nat \ {0} /\ l \in Nat \ {0}
  <2>1. Len(src) \in Nat /\ Len(s) \in Nat /\ Len(s) # 0
    BY SourcesAssumption DEF TypeOK
  <2> QED BY <2>1
<1>2. \A k \in 1..l : s[k] \notin Spaces
  OBVIOUS
<1>3. CmpSrc(i, s) = IF \A k \in 1..n : src[i + k - 1] = s[k] THEN n ELSE 0
  BY DEF CmpSrc
<1>4. SpelledAt(i, s) <=> l <= left /\ \A k \in 1..l : src[i + k - 1] = s[k]
  <2>1. DOMAIN s = 1..l /\ Len(src) \in Nat
    BY SourcesAssumption DEF TypeOK
  <2>2. i + l <= Len(src) + 1 <=> l <= left
    <3> HIDE DEF l
    <3> QED BY <1>1, <2>1
  <2> QED BY <2>1, <2>2 DEF SpelledAt
<1>5. \A k : k \in i..Len(src) => k - i + 1 \in 1..left /\ i + (k - i + 1) - 1 = k
  <2>1. Len(src) \in Nat
    BY SourcesAssumption DEF TypeOK
  <2> QED BY <2>1
<1> HIDE DEF l, left
<1>6. n \in Nat \ {0} /\ n <= left /\ n <= l /\ (n = left \/ n = l)
  BY <1>1
<1>7. \A k \in i..(i + n - 1) : k - i + 1 \in 1..n /\ i + (k - i + 1) - 1 = k
  <2> HIDE DEF n
  <2> QED BY <1>6
<1> HIDE DEF n
<1>8. 1..n \subseteq 1..l
  BY <1>1, <1>6
<1>9. CASE \A k \in 1..n : src[i + k - 1] = s[k]
  <2>1. CmpSrc(i, s) = n
    BY <1>3, <1>9
  <2>2. ASSUME NEW k \in i..(i + n - 1) PROVE src[k] \notin Spaces
    <3>1. k - i + 1 \in 1..n /\ i + (k - i + 1) - 1 = k
      BY <1>7
    <3>2. src[k] = s[k - i + 1]
      BY <1>9, <3>1
    <3> QED BY <1>2, <1>8, <3>1, <3>2
  <2>3. SpelledAt(i, s) => n = l
    BY <1>1, <1>4, <1>6
  <2>4. ASSUME NEW k \in i..Len(src), src[k] = NL PROVE SpelledAt(i, s) /\ n = l
    <3>1. n # left
      <4> SUFFICES ASSUME n = left PROVE FALSE
        OBVIOUS
      <4>1. k - i + 1 \in 1..n /\ i + (k - i + 1) - 1 = k
        BY <1>5
      <4>2. src[k] = s[k - i + 1]
        BY <1>9, <4>1
      <4> QED BY <1>2, <1>8, <2>4, <4>1, <4>2 DEF Spaces
    <3>2. n = l /\ l <= left
      BY <1>6, <3>1
    <3> QED BY <1>4, <1>9, <3>2
  <2>5. n \in 0..left
    BY <1>1, <1>6
  <2>6. /\ l \in Nat /\ n \in 0..left
        /\ \A k \in i..(i + n - 1) : src[k] \notin Spaces
        /\ SpelledAt(i, s) => n = l /\ l > 0
        /\ n > 0 /\ (\E k \in i..Len(src) : src[k] = NL) => SpelledAt(i, s) /\ n = l
    BY <1>1, <2>2, <2>3, <2>4, <2>5
  <2> QED BY <2>1, <2>6 DEF l, left
<1>10. CASE ~\A k \in 1..n : src[i + k - 1] = s[k]
  <2>1. CmpSrc(i, s) = 0
    BY <1>3, <1>10
  <2>2. ~SpelledAt(i, s)
    BY <1>4, <1>8, <1>10
  <2>3. l \in Nat /\ 0 \in 0..left /\ i..(i + 0 - 1) = {}
    BY <1>1
  <2>4. ~(0 > 0)
    OBVIOUS
  <2> QED BY <2>1, <2>2, <2>3, <2>4 DEF l, left
<1> QED BY <1>9, <1>10

LEMMA SymbolType ==
  ASSUME NEW s \in DOMAIN Symbols
  PROVE  Symbols[s] \in Seq(STRING \ Spaces) \ {<<>>}
BY SymbolsAssumption

(* No token goes on beyond its line, and no identifier ends inside a word. *)
LEMMA TokenText ==
  ASSUME TypeOK, NEW i \in 1..Len(src)
  PROVE  /\ \A k \in i..(i + IntLen(i) - 1) : src[k] # NL
         /\ \A k \in i..(i + StringLen(i) - 1) : src[k] # NL
         /\ \A s \in DOMAIN Symbols :
              \A k \in i..(i + CmpSrc(i, Symbols[s]) - 1) : src[k] # NL
         /\ \A k \in i..(i + IdentLen(i) - 1) : src[k] # NL
         /\ IdentLen(i) > 0 => At(i + IdentLen(i)) \notin Letters \cup Digits
<1>0. Len(src) \in Nat
  BY SourcesAssumption DEF TypeOK
<1>1. Len(src) \in Nat /\ i \in 1..(Len(src) + 1) /\ i + 1 \in 1..(Len(src) + 1)
  BY <1>0
<1>2. NL \notin Letters /\ NL \notin Digits /\ NUL \notin Letters \cup Digits
  BY LettersAssumption DEF Spaces
<1>3. \A k \in i..(i + IntLen(i) - 1) : src[k] # NL
  <2>1. \A k \in i..(i + Span(i, Digits) - 1) : src[k] \in Digits
    BY <1>1, SpanIs
  <2> QED BY <1>2, <2>1 DEF IntLen
<1>4. ASSUME NEW k \in i..(i + StringLen(i) - 1) PROVE src[k] # NL
  <2> DEFINE body == Until(i + 1, {QUOTE, NL})
  <2>1. /\ body \in 0..(Len(src) + 1 - (i + 1))
        /\ \A m \in (i + 1)..(i + 1 + body - 1) : src[m] \notin {QUOTE, NL}
    BY <1>1, UntilIs
  <2> HIDE DEF body
  <2>2. StringLen(i) = IF At(i) = QUOTE /\ At(i + 1 + body) = QUOTE THEN body + 2 ELSE 0
    BY DEF StringLen, body
  <2>3. At(i) = QUOTE /\ At(i + 1 + body) = QUOTE /\ StringLen(i) = body + 2
    BY <1>1, <1>4, <2>2
  <2>4. i + 1 + body \in 1..Len(src)
    BY <1>1, <2>1, <2>3 DEF At, QUOTE, NUL
  <2>5. src[i] = QUOTE /\ src[i + 1 + body] = QUOTE /\ QUOTE # NL
    BY <1>1, <2>3, <2>4 DEF At, QUOTE, NL
  <2>6. k = i \/ k = i + 1 + body \/ k \in (i + 1)..(i + 1 + body - 1)
    BY <1>1, <1>4, <2>1, <2>3
  <2> QED BY <2>1, <2>5, <2>6
<1>5. ASSUME NEW s \in DOMAIN Symbols, NEW k \in i..(i + CmpSrc(i, Symbols[s]) - 1)
      PROVE  src[k] # NL
  <2>1. src[k] \notin Spaces
    BY SymbolType, CmpIs
  <2> QED BY <2>1 DEF Spaces
<1> DEFINE m == Span(i + 1, Letters \cup Digits)
<1>6. /\ m \in 0..(Len(src) + 1 - (i + 1))
      /\ \A k \in (i + 1)..(i + 1 + m - 1) : src[k] \in Letters \cup Digits
      /\ i + 1 + m <= Len(src) => src[i + 1 + m] \notin Letters \cup Digits
  BY <1>1, SpanIs
<1>7. IdentLen(i) = IF At(i) \in Letters THEN 1 + m ELSE 0
  BY DEF IdentLen
<1> HIDE DEF m
<1>8. ASSUME NEW k \in i..(i + IdentLen(i) - 1) PROVE src[k] # NL
  <2>1. At(i) \in Letters /\ IdentLen(i) = 1 + m /\ At(i) = src[i]
    BY <1>1, <1>7, <1>8 DEF At
  <2>2. k = i \/ k \in (i + 1)..(i + 1 + m - 1)
    BY <1>1, <1>6, <2>1
  <2> QED BY <1>2, <1>6, <2>1, <2>2
<1>9. IdentLen(i) > 0 => At(i + IdentLen(i)) \notin Letters \cup Digits
  <2> SUFFICES ASSUME IdentLen(i) > 0 PROVE At(i + 1 + m) \notin Letters \cup Digits
    BY <1>1, <1>6, <1>7
  <2> QED BY <1>1, <1>2, <1>6 DEF At
<1> QED BY <1>3, <1>4, <1>5, <1>8, <1>9

(* The end of a line, and the comment before it.                           *)
LEMMA EndlText ==
  ASSUME TypeOK, NEW i \in 1..Len(src), EndlLen(i) > 0
  PROVE  /\ i + EndlLen(i) - 1 \in i..Len(src) /\ src[i + EndlLen(i) - 1] = NL
         /\ \A k \in i..(i + EndlLen(i) - 2) : src[k] # NL /\ InComment(k)
<1>1. Len(src) \in Nat /\ i \in 1..(Len(src) + 1) /\ At(i) = src[i]
  BY SourcesAssumption DEF TypeOK, At
<1>2. CASE At(i) = NL
  <2>1. EndlLen(i) = 1
    BY <1>2 DEF EndlLen
  <2>2. i + EndlLen(i) - 1 = i /\ i..(i + EndlLen(i) - 2) = {}
    BY <1>1, <2>1
  <2>3. i \in i..Len(src) /\ src[i] = NL
    BY <1>1, <1>2
  <2> QED BY <2>2, <2>3
<1>3. CASE At(i) # NL
  <2> DEFINE u == Until(i, {NL})
  <2>1. EndlLen(i) = u + 1 /\ At(i + u) = NL /\ \E c \in Comments : CmpSrc(i, c) > 0
    BY <1>3 DEF EndlLen, CommentLen
  <2>2. /\ u \in 0..(Len(src) + 1 - i)
        /\ \A k \in i..(i + u - 1) : src[k] # NL
    BY <1>1, UntilIs
  <2> HIDE DEF u
  <2>3. i + u \in i..Len(src) /\ src[i + u] = NL
    BY <1>1, <2>1, <2>2 DEF At, NL, NUL
  <2>4. PICK c \in Comments : SpelledAt(i, c)
    BY <2>1, <2>3, CmpIs, CommentsAssumption
  <2>5. ASSUME NEW k \in i..(i + u - 1) PROVE InComment(k)
    <3>1. k \in i..(Len(src) + 1) /\ \A m \in i..(k - 1) : src[m] # NL
      BY <1>1, <2>2, <2>3
    <3>2. LineStart(k) = LineStart(i)
      BY <1>1, <3>1, SameLine
    <3>3. LineStart(i) \in 1..i
      BY <1>1, LineStartIs DEF BeginsLine
    <3>4. i \in LineStart(k)..k
      BY <1>1, <3>1, <3>2, <3>3
    <3> QED BY <2>4, <3>4 DEF InComment
  <2>6. i + EndlLen(i) - 1 = i + u /\ i + EndlLen(i) - 2 = i + u - 1
    BY <1>1, <2>1, <2>2
  <2> QED BY <2>2, <2>3, <2>5, <2>6
<1> QED BY <1>2, <1>3

-----------------------------------------------------------------------------
(* The steps, as far as the text is concerned.                             *)

(* A step that stores no token of the text.                                *)
NoLexeme ==
  \/ tokens' = tokens
  \/ \E tok \in TokenType : /\ tokens' = Append(tokens, tok)
                            /\ tok.kind \notin Lexemes /\ tok.from = cur /\ tok.len = 0

(* What a token of the text is made of.                                    *)
LexemeText(kind, len, data) ==
  /\ kind \in Lexemes
  /\ len \in 1..(Len(src) + 1 - Start)
  /\ data \in 0..Len(Symbols)
  /\ \A k \in Start..(Start + len - 1) : src[k] # NL
  /\ kind \in {"IDENT", "KEYWORD"} => At(Start + len) \notin Letters \cup Digits
  /\ kind = "SYMBOL" => /\ data \in SymbolsAt(Start) /\ IsSymbolAt(Start, data)
                        /\ len = CmpSrc(Start, Symbols[data])

LexemeRead(kind, len, data) ==
  LET tok == Tok(kind, Start, len, column + (Start - cur), data)
  IN  /\ AtText /\ Read(len) /\ LexemeText(kind, len, data)
      /\ tok \in TokenType /\ tokens' = Append(tokens, tok)
      /\ last_indent' = last_indent

Stays == cur' = cur /\ UNCHANGED locVars

LEMMA LexemeReads ==
  ASSUME TypeOK, AtText, NEW kind, NEW len, NEW data, LexemeText(kind, len, data),
         Lexeme(kind, len, data)
  PROVE  LexemeRead(kind, len, data)
<1>1. /\ Len(src) \in Nat /\ cur \in 1..(Len(src) + 1) /\ column \in Nat \ {0}
      /\ Start \in cur..(Len(src) + 1)
  BY StartBound, SourcesAssumption DEF TypeOK
<1>2. kind \in Kinds /\ len \in 1..(Len(src) + 1 - Start) /\ data \in 0..Len(Symbols)
      /\ kind # "EOL"
  BY DEF LexemeText, Lexemes, Kinds
<1>3. len \in 0..Len(src) /\ Start \in 1..(Len(src) + 1) /\ column + (Start - cur) \in Nat
  BY <1>1, <1>2
<1>4. Tok(kind, Start, len, column + (Start - cur), data) \in TokenType
  BY <1>2, <1>3, TokType
<1>5. Tok(kind, Start, len, column + (Start - cur), data).kind # "EOL"
  BY <1>2 DEF Tok
<1>6. tokens' = Append(tokens, Tok(kind, Start, len, column + (Start - cur), data))
  BY <1>5, StoreShape DEF Lexeme
<1> QED BY <1>4, <1>6 DEF LexemeRead, Lexeme

LEMMA MarkStored ==
  ASSUME TypeOK, NEW kind \in {"BEGIN", "END", "EOL"}, Store(Tok(kind, cur, 0, column, 0))
  PROVE  NoLexeme
<1>1. 0 \in 0..Len(src) /\ 0 \in 0..Len(Symbols) /\ kind \in Kinds /\ kind \notin Lexemes
  <2>1. Len(src) \in Nat /\ Len(Symbols) \in Nat
    BY SourcesAssumption, SymbolsAssumption DEF TypeOK
  <2> QED BY <2>1 DEF Kinds, Lexemes
<1>2. cur \in 1..(Len(src) + 1) /\ column \in Nat
  BY DEF TypeOK
<1>3. Tok(kind, cur, 0, column, 0) \in TokenType
  BY <1>1, <1>2, TokType
<1>4. LET tok == Tok(kind, cur, 0, column, 0)
      IN  tok.kind = kind /\ tok.from = cur /\ tok.len = 0
  BY DEF Tok
<1>5. tokens' = tokens \/ tokens' = Append(tokens, Tok(kind, cur, 0, column, 0))
  BY StoreShape
<1> QED BY <1>1, <1>3, <1>4, <1>5 DEF NoLexeme

LEMMA LexemeStep ==
  ASSUME TypeOK, IntTok \/ StringTok \/ SymbolTok \/ IdentTok
  PROVE  src' = src /\ \E kind, len, data : LexemeRead(kind, len, data)
<1>1. AtText => Start \in 1..Len(src)
  <2>1. Len(src) \in Nat /\ cur \in 1..(Len(src) + 1)
    BY SourcesAssumption DEF TypeOK
  <2>2. Start \in cur..(Len(src) + 1) /\ (AtText => Start <= Len(src))
    BY StartBound DEF AtText
  <2> QED BY <2>1, <2>2
<1>2. ASSUME NEW kind, NEW len, NEW data, AtText, LexemeText(kind, len, data),
              Lexeme(kind, len, data)
       PROVE  src' = src /\ \E k, l, d : LexemeRead(k, l, d)
  BY <1>2, LexemeReads DEF Lexeme, Read
<1>3. ASSUME NEW len \in 0..(Len(src) + 1 - Start), len > 0
       PROVE  len \in 1..(Len(src) + 1 - Start)
  BY <1>3
<1>4. 0 \in 0..Len(Symbols)
  <2>1. Len(Symbols) \in Nat
    BY SymbolsAssumption
  <2> QED BY <2>1
<1>5. CASE IntTok
  <2>1. LexemeText("INT", IntLen(Start), 0)
    BY <1>1, <1>3, <1>4, <1>5, TokenBound, TokenText
       DEF IntTok, AtLexeme, LexemeText, Lexemes
  <2> QED BY <1>2, <1>5, <2>1 DEF IntTok, AtLexeme
<1>6. CASE StringTok
  <2>1. LexemeText("STRING", StringLen(Start), 0)
    BY <1>1, <1>3, <1>4, <1>6, TokenBound, TokenText
       DEF StringTok, AtLexeme, LexemeText, Lexemes
  <2> QED BY <1>2, <1>6, <2>1 DEF StringTok, AtLexeme
<1>7. CASE SymbolTok
  <2>1. PICK s \in SymbolsAt(Start) :
          IsSymbolAt(Start, s) /\ Lexeme("SYMBOL", CmpSrc(Start, Symbols[s]), s)
    BY <1>7 DEF SymbolTok
  <2>2. s \in DOMAIN Symbols /\ s \in 0..Len(Symbols) /\ CmpSrc(Start, Symbols[s]) > 0
    BY SymbolsAssumption DEF SymbolsAt
  <2>3. AtText
    BY <1>7 DEF SymbolTok, NotLiteral, AtLexeme
  <2>4. CmpSrc(Start, Symbols[s]) \in 1..(Len(src) + 1 - Start)
    BY <1>1, <1>3, <2>2, <2>3, TokenBound
  <2>5. \A k \in Start..(Start + CmpSrc(Start, Symbols[s]) - 1) : src[k] # NL
    BY <1>1, <2>2, <2>3, TokenText
  <2>6. LexemeText("SYMBOL", CmpSrc(Start, Symbols[s]), s)
    BY <2>1, <2>2, <2>4, <2>5 DEF LexemeText, Lexemes
  <2> QED BY <1>2, <2>1, <2>3, <2>6
<1>8. CASE IdentTok
  <2>1. PICK kind \in {"KEYWORD", "IDENT"} : Lexeme(kind, IdentLen(Start), 0)
    BY <1>8 DEF IdentTok
  <2>2. AtText /\ IdentLen(Start) > 0
    BY <1>8 DEF IdentTok, NotLiteral, AtLexeme
  <2>3. IdentLen(Start) \in 1..(Len(src) + 1 - Start)
    BY <1>1, <1>3, <2>2, TokenBound
  <2>4. LexemeText(kind, IdentLen(Start), 0)
    BY <1>1, <1>4, <2>2, <2>3, TokenText DEF LexemeText, Lexemes
  <2> QED BY <1>2, <2>1, <2>2, <2>4
<1> QED BY <1>5, <1>6, <1>7, <1>8

LEMMA NextKinds ==
  ASSUME TypeOK, Next
  PROVE  /\ src' = src
         /\ \/ Stays /\ NoLexeme
            \/ cur <= Len(src) /\ Read(0) /\ NoLexeme
            \/ Endl
            \/ \E kind, len, data : LexemeRead(kind, len, data)
<1>1. /\ Len(src) \in Nat /\ cur \in 1..(Len(src) + 1) /\ cur \in Nat \ {0}
      /\ Start \in cur..(Len(src) + 1)
      /\ At(cur) # NUL => cur <= Len(src)
      /\ AtText => Start \in 1..Len(src) /\ cur <= Len(src)
  <2>1. Len(src) \in Nat
    BY SourcesAssumption DEF TypeOK
  <2>2. cur \in 1..(Len(src) + 1) /\ cur \in Nat \ {0}
    BY <2>1 DEF TypeOK
  <2>3. Start \in cur..(Len(src) + 1) /\ (AtText => Start <= Len(src))
    BY StartBound DEF AtText
  <2> QED BY <2>1, <2>2, <2>3, AtNul
<1>2. CASE IndentBlockEnd
  BY <1>2, MarkStored DEF IndentBlockEnd, Stays
<1>3. CASE IndentBlockBegin
  BY <1>3, MarkStored DEF IndentBlockBegin, Stays
<1>4. CASE EolAtNul
  BY <1>4, MarkStored DEF EolAtNul, Stays
<1>5. CASE StopAtNul
  BY <1>5 DEF StopAtNul, Stays, NoLexeme
<1>11. Read(0) => src' = src
  BY DEF Read
<1>6. CASE EofBlockEnd
  <2>1. Read(0) /\ Store(Tok("END", cur, 0, column, 0)) /\ At(cur) # NUL
    BY <1>6 DEF EofBlockEnd
  <2>2. NoLexeme
    BY <2>1, MarkStored
  <2>3. cur <= Len(src)
    BY <1>1, <2>1
  <2> QED BY <1>11, <2>1, <2>2, <2>3
<1>7. CASE EofStop
  <2>1. Read(0) /\ tokens' = tokens /\ At(cur) # NUL
    BY <1>7 DEF EofStop
  <2>2. cur <= Len(src) /\ NoLexeme
    BY <1>1, <2>1 DEF NoLexeme
  <2> QED BY <1>11, <2>1, <2>2
<1>8. CASE Endl
  BY <1>8 DEF Endl
<1>9. CASE UnknownTok
  BY <1>1, <1>9 DEF UnknownTok, NotLiteral, AtLexeme, Read, NoLexeme
<1>10. CASE IntTok \/ StringTok \/ SymbolTok \/ IdentTok
  BY <1>10, LexemeStep
<1> QED BY <1>2, <1>3, <1>4, <1>5, <1>6, <1>7, <1>8, <1>9, <1>10 DEF Next, GetTok

(* A newline or a comment adds an EOL, or nothing.                         *)
LEMMA EndlStep ==
  ASSUME TypeOK, Endl
  PROVE  /\ Start \in 1..Len(src) /\ cur <= Len(src) /\ cur' \in (Start + 1)..(Len(src) + 1)
         /\ src[cur' - 1] = NL
         /\ \A k \in Start..(cur' - 2) : src[k] # NL /\ InComment(k)
         /\ \/ tokens' = tokens
            \/ \E tok \in TokenType :
                 /\ tokens' = Append(tokens, tok)
                 /\ tok.kind = "EOL" /\ tok.from = Start /\ tok.from + tok.len = cur'
<1>1. /\ Len(src) \in Nat /\ cur \in 1..(Len(src) + 1) /\ column \in Nat
      /\ Start \in cur..(Len(src) + 1) /\ Start <= Len(src)
  BY StartBound, SourcesAssumption DEF TypeOK, Endl, AtText
<1>2. Start \in 1..Len(src) /\ cur <= Len(src) /\ cur' = Start + EndlLen(Start)
  BY <1>1 DEF Endl
<1>3. EndlLen(Start) \in 0..(Len(src) + 1 - Start) /\ EndlLen(Start) > 0
  BY <1>2, TokenBound DEF Endl
<1>4. /\ src[Start + EndlLen(Start) - 1] = NL
      /\ \A k \in Start..(Start + EndlLen(Start) - 2) : src[k] # NL /\ InComment(k)
  BY <1>2, <1>3, EndlText
<1>5. /\ EndlLen(Start) \in 0..Len(src) /\ Start \in 1..(Len(src) + 1)
      /\ column + (Start - cur) \in Nat /\ cur' \in (Start + 1)..(Len(src) + 1)
  BY <1>1, <1>2, <1>3
<1>6. 0 \in 0..Len(Symbols) /\ "EOL" \in Kinds
  <2>1. Len(Symbols) \in Nat
    BY SymbolsAssumption
  <2> QED BY <2>1 DEF Kinds
<1> DEFINE tok == Tok("EOL", Start, EndlLen(Start), column + (Start - cur), 0)
<1>7. tok \in TokenType
  BY <1>5, <1>6, TokType
<1>8. tok.kind = "EOL" /\ tok.from = Start /\ tok.from + tok.len = cur'
  BY <1>2 DEF Tok
<1>9. tokens' = tokens \/ tokens' = Append(tokens, tok)
  BY StoreShape DEF Endl
<1> HIDE DEF tok
<1>10. src[cur' - 1] = NL /\ \A k \in Start..(cur' - 2) : src[k] # NL /\ InComment(k)
  <2>1. cur' - 1 = Start + EndlLen(Start) - 1 /\ cur' - 2 = Start + EndlLen(Start) - 2
    BY <1>2, <1>3
  <2> QED BY <1>4, <2>1
<1> QED BY <1>2, <1>5, <1>7, <1>8, <1>9, <1>10

(* It goes on at the start of the next line.                               *)
LEMMA EndlLine ==
  ASSUME TypeOK, Clean, Endl
  PROVE  /\ cur' \in 1..(Len(src) + 1)
         /\ LineOf(cur') = LineOf(cur) + 1 /\ LineStart(cur') = cur'
<1>1. Len(src) \in Nat /\ cur \in 1..(Len(src) + 1)
  BY SourcesAssumption DEF TypeOK
<1>2. Start \in cur..Len(src) /\ \A k \in cur..(Start - 1) : src[k] # NL
  BY EndlStep, CleanStart
<1>3. /\ Start \in cur..Len(src) /\ \A k \in cur..(Start - 1) : src[k] # NL
      /\ cur' \in (Start + 1)..(Len(src) + 1) /\ src[cur' - 1] = NL
      /\ \A k \in Start..(cur' - 2) : src[k] # NL
  BY <1>1, <1>2, EndlStep
<1> DEFINE e == cur' - 1
<1>4. e \in Start..Len(src) /\ e + 1 = cur' /\ \A k \in cur..(e - 1) : src[k] # NL
  <2>1. \A n \in Nat : \A c \in 1..(n + 1) : \A s \in c..n : \A d \in (s + 1)..(n + 1) :
          /\ d - 1 \in s..n /\ (d - 1) + 1 = d
          /\ \A k \in c..((d - 1) - 1) : k \in c..(s - 1) \/ k \in s..(d - 2)
    OBVIOUS
  <2>2. /\ e \in Start..Len(src) /\ e + 1 = cur'
        /\ \A k \in cur..(e - 1) : k \in cur..(Start - 1) \/ k \in Start..(cur' - 2)
    BY <1>1, <1>3, <2>1
  <2> HIDE DEF e
  <2> QED BY <1>3, <2>2
<1>5. src[e] = NL
  BY <1>3
<1> HIDE DEF e
<1>6. e \in 1..Len(src) /\ e \in cur..(Len(src) + 1)
  BY <1>1, <1>3, <1>4
<1>7. LineOf(e) = LineOf(cur)
  BY <1>1, <1>4, <1>6, SameLine
<1>8. LineOf(cur') = LineOf(cur) + 1 /\ LineStart(cur') = cur'
  BY <1>1, <1>4, <1>5, <1>6, <1>7, NextLine
<1> QED BY <1>1, <1>4, <1>6, <1>8

-----------------------------------------------------------------------------
(* Symbols.                                                                *)

SymbolOK(tok) ==
  tok.kind = "SYMBOL" =>
    /\ Spells(tok, Symbols[tok.data])
    /\ \A s \in DOMAIN Symbols : SpelledAt(tok.from, Symbols[s]) => Len(Symbols[s]) <= tok.len

LEMMA NextSymbol == Typed /\ LongestSymbol /\ [Next]_vars => LongestSymbol'
<1> SUFFICES ASSUME Typed, LongestSymbol, [Next]_vars, EndsInNewline
             PROVE  \A i \in DOMAIN tokens' : SymbolOK(tokens'[i])
  <2>1. Typed /\ [Next]_vars => src' = src
    BY NextKinds DEF Typed, vars
  <2> QED BY <2>1 DEF LongestSymbol, SymbolOK, EndsInNewline, Spells, SpelledAt
<1>1. TypeOK
  BY DEF Typed
<1>2. \A i \in DOMAIN tokens : SymbolOK(tokens[i])
  BY DEF LongestSymbol, SymbolOK
<1>4. ASSUME NEW tok, tokens' = Append(tokens, tok), SymbolOK(tok)
      PROVE  \A i \in DOMAIN tokens' : SymbolOK(tokens'[i])
  <2>1. tokens \in Seq(TokenType)
    BY <1>1 DEF TypeOK, TokenType
  <2>2. /\ DOMAIN tokens' = 1..(Len(tokens) + 1) /\ Len(tokens) \in Nat
        /\ DOMAIN tokens = 1..Len(tokens) /\ tokens'[Len(tokens) + 1] = tok
        /\ \A i \in 1..Len(tokens) : tokens'[i] = tokens[i]
    BY <1>4, <2>1
  <2> QED BY <1>2, <1>4, <2>2
<1>5. ASSUME NoLexeme PROVE \A i \in DOMAIN tokens' : SymbolOK(tokens'[i])
  BY <1>2, <1>4, <1>5 DEF NoLexeme, SymbolOK, Lexemes
<1>6. ASSUME Endl PROVE \A i \in DOMAIN tokens' : SymbolOK(tokens'[i])
  <2>1. tokens' = tokens \/ \E tok : tokens' = Append(tokens, tok) /\ tok.kind = "EOL"
    BY <1>1, <1>6, EndlStep
  <2> QED BY <1>2, <1>4, <2>1 DEF SymbolOK
<1>7. ASSUME NEW kind, NEW len, NEW data, LexemeRead(kind, len, data)
      PROVE  \A i \in DOMAIN tokens' : SymbolOK(tokens'[i])
  <2> DEFINE tok == Tok(kind, Start, len, column + (Start - cur), data)
  <2>1. tokens' = Append(tokens, tok) /\ LexemeText(kind, len, data) /\ AtText
    BY <1>7 DEF LexemeRead
  <2>2. tok.kind = kind /\ tok.from = Start /\ tok.len = len /\ tok.data = data
    BY DEF Tok
  <2> HIDE DEF tok
  <2>3. ASSUME kind = "SYMBOL"
        PROVE  /\ len = Len(Symbols[data]) /\ SpelledAt(Start, Symbols[data])
               /\ \A s \in DOMAIN Symbols : SpelledAt(Start, Symbols[s]) => Len(Symbols[s]) <= len
    <3>1. /\ data \in DOMAIN Symbols /\ IsSymbolAt(Start, data)
          /\ len = CmpSrc(Start, Symbols[data]) /\ len > 0
      BY <2>1, <2>3 DEF LexemeText, SymbolsAt
    <3>2. /\ Start \in 1..Len(src) /\ \E k \in Start..Len(src) : src[k] = NL
      <4>1. Len(src) \in Nat /\ cur \in Nat \ {0} /\ Start \in cur..(Len(src) + 1)
            /\ Start <= Len(src)
        BY <1>1, <2>1, StartBound, SourcesAssumption DEF TypeOK, AtText
      <4>2. Len(src) \in Start..Len(src) /\ src[Len(src)] = NL
        BY <1>1, <4>1 DEF EndsInNewline
      <4> QED BY <4>1, <4>2
    <3>3. len = Len(Symbols[data]) /\ SpelledAt(Start, Symbols[data])
      BY <1>1, <3>1, <3>2, SymbolType, CmpIs
    <3>4. ASSUME NEW s \in DOMAIN Symbols, SpelledAt(Start, Symbols[s])
          PROVE  Len(Symbols[s]) <= len
      <4>1. CmpSrc(Start, Symbols[s]) = Len(Symbols[s]) /\ Len(Symbols[s]) \in Nat \ {0}
        BY <1>1, <3>2, <3>4, SymbolType, CmpIs
      <4>2. s \in SymbolsAt(Start)
        BY <4>1 DEF SymbolsAt
      <4>3. \/ CmpSrc(Start, Symbols[s]) < CmpSrc(Start, Symbols[data])
            \/ CmpSrc(Start, Symbols[s]) = CmpSrc(Start, Symbols[data])
        BY <3>1, <4>2 DEF IsSymbolAt
      <4>4. len \in Nat
        BY <1>1, <3>1, <3>3, SymbolType
      <4> QED BY <3>1, <4>1, <4>3, <4>4
    <3> QED BY <3>3, <3>4
  <2>4. SymbolOK(tok)
    BY <2>2, <2>3 DEF SymbolOK, Spells
  <2> QED BY <1>4, <2>1, <2>4
<1>8. CASE UNCHANGED vars
  BY <1>2, <1>8 DEF vars
<1>9. CASE Next
  BY <1>1, <1>5, <1>6, <1>7, <1>9, NextKinds
<1> QED BY <1>8, <1>9

(* In a source that ends its last line every symbol is the longest of the  *)
(* table that is spelled where it stands.                                  *)
THEOREM SymbolsAreLongest == Spec => []LongestSymbol
<1>1. Init => Typed /\ LongestSymbol
  BY InitTyped DEF Init, LongestSymbol
<1>2. Typed /\ LongestSymbol /\ [Next]_vars => Typed' /\ LongestSymbol'
  BY NextTyped, NextSymbol
<1> QED BY <1>1, <1>2, PTL DEF Spec

-----------------------------------------------------------------------------
(* Lines and columns.                                                      *)

(* The next token is stored with the line and the column it is at.         *)
Located == line = LineOf(cur) /\ column = cur - LineStart(cur) + 1

LocOK(tok) ==
  tok.kind \in Lexemes =>
    /\ tok.line = LineOf(tok.from)
    /\ tok.column = tok.from - LineStart(tok.from) + 1

LEMMA AppendAll ==
  ASSUME TypeOK, NEW tok, tokens' = Append(tokens, tok)
  PROVE  /\ DOMAIN tokens = 1..Len(tokens) /\ DOMAIN tokens' = 1..(Len(tokens) + 1)
         /\ Len(tokens) \in Nat /\ Len(tokens') = Len(tokens) + 1
         /\ tokens'[Len(tokens) + 1] = tok
         /\ \A i \in 1..Len(tokens) : tokens'[i] = tokens[i]
<1>1. tokens \in Seq(TokenType)
  BY DEF TypeOK, TokenType
<1> QED BY <1>1

(* Reading within a line goes on in it.                                    *)
LEMMA ReadLocated ==
  ASSUME TypeOK, Located, NEW n \in Nat, cur <= Len(src), Start + n <= Len(src) + 1,
         \A k \in cur..(Start + n - 1) : src[k] # NL, Read(n), Start \in cur..(Len(src) + 1)
  PROVE  /\ cur' \in 1..(Len(src) + 1)
         /\ LineOf(cur') = LineOf(cur) /\ LineStart(cur') = LineStart(cur)
         /\ LineOf(Start) = LineOf(cur) /\ LineStart(Start) = LineStart(cur)
         /\ line' = LineOf(cur') /\ column' = cur' - LineStart(cur') + 1
         /\ column + (Start - cur) = Start - LineStart(Start) + 1
<1>1. Len(src) \in Nat /\ cur \in 1..(Len(src) + 1) /\ cur \in Nat
  BY SourcesAssumption DEF TypeOK
<1>2. cur' = Start + n /\ column' = column + (Start + n - cur) /\ line' = line
  BY DEF Read
<1>3. cur' \in cur..(Len(src) + 1) /\ cur' \in 1..(Len(src) + 1)
      /\ \A k \in cur..(cur' - 1) : src[k] # NL
  BY <1>1, <1>2
<1>4. \A k \in cur..(Start - 1) : src[k] # NL
  BY <1>1, <1>2
<1>5. LineOf(cur') = LineOf(cur) /\ LineStart(cur') = LineStart(cur)
  BY <1>1, <1>3, SameLine
<1>6. LineOf(Start) = LineOf(cur) /\ LineStart(Start) = LineStart(cur)
  BY <1>1, <1>4, SameLine
<1>7. LineStart(cur) \in Nat
  <2>1. LineStart(cur) \in 1..cur
    BY <1>1, LineStartIs DEF BeginsLine
  <2> QED BY <1>1, <2>1
<1>8. line = LineOf(cur) /\ column = cur - LineStart(cur) + 1
  BY DEF Located
<1>9. column + (Start - cur) = Start - LineStart(cur) + 1
      /\ column + (Start + n - cur) = cur' - LineStart(cur) + 1
  BY <1>1, <1>2, <1>7, <1>8
<1> QED BY <1>2, <1>3, <1>5, <1>6, <1>8, <1>9

LEMMA NextLocated ==
  Typed /\ (Clean => Located) /\ LocExact /\ [Next]_vars => (Clean => Located)' /\ LocExact'
<1> SUFFICES ASSUME Typed, Clean, Located, \A i \in DOMAIN tokens : LocOK(tokens[i]),
                    [Next]_vars
             PROVE  /\ line' = LineOf(cur') /\ column' = cur' - LineStart(cur') + 1
                    /\ \A i \in DOMAIN tokens' : LocOK(tokens'[i])
  <2> SUFFICES ASSUME Typed, Clean => Located, LocExact, [Next]_vars
               PROVE  (Clean => Located)' /\ LocExact'
    OBVIOUS
  <2>1. src' = src
    BY NextKinds DEF Typed, vars
  <2>2. LineOf(cur)' = LineOf(cur') /\ LineStart(cur)' = LineStart(cur')
    BY <2>1 DEF LineOf, NewlinesBefore, LineStart
  <2>3. \A i \in DOMAIN tokens' : /\ LineOf(tokens[i].from)' = LineOf(tokens'[i].from)
                                 /\ LineStart(tokens[i].from)' = LineStart(tokens'[i].from)
    BY <2>1 DEF LineOf, NewlinesBefore, LineStart
  <2>4. Clean' = Clean
    BY <2>1, TextSame
  <2>5. ASSUME Clean PROVE \A i \in DOMAIN tokens : LocOK(tokens[i])
    BY <2>5 DEF LocExact, LocOK
  <2>6. CASE Clean
    <3>1. /\ line' = LineOf(cur') /\ column' = cur' - LineStart(cur') + 1
          /\ \A i \in DOMAIN tokens' : LocOK(tokens'[i])
      BY <2>5, <2>6
    <3> QED BY <2>2, <2>3, <3>1 DEF Located, LocExact, LocOK
  <2> QED BY <2>4, <2>6 DEF LocExact
<1>1. /\ TypeOK /\ Len(src) \in Nat /\ cur \in 1..(Len(src) + 1) /\ cur \in Nat
  BY SourcesAssumption DEF Typed, TypeOK
<1>2. ASSUME NEW tok, tokens' = Append(tokens, tok), LocOK(tok)
      PROVE  \A i \in DOMAIN tokens' : LocOK(tokens'[i])
  BY <1>1, <1>2, AppendAll
<1>3. ASSUME NoLexeme PROVE \A i \in DOMAIN tokens' : LocOK(tokens'[i])
  <2>1. \A tok : tok.kind \notin Lexemes => LocOK(tok)
    BY DEF LocOK
  <2> QED BY <1>2, <1>3, <2>1 DEF NoLexeme
<1>4. CASE Stays /\ NoLexeme
  BY <1>3, <1>4 DEF Stays, locVars, Located
<1>5. cur <= Len(src) => Start \in cur..Len(src) /\ \A k \in cur..(Start - 1) : src[k] # NL
  BY <1>1, CleanStart
<1>6. CASE cur <= Len(src) /\ Read(0) /\ NoLexeme
  <2>1. Start + 0 <= Len(src) + 1 /\ (\A k \in cur..(Start + 0 - 1) : src[k] # NL)
        /\ Start \in cur..(Len(src) + 1)
    BY <1>1, <1>5, <1>6
  <2>2. line' = LineOf(cur') /\ column' = cur' - LineStart(cur') + 1
    BY <1>1, <1>6, <2>1, ReadLocated
  <2> QED BY <1>3, <1>6, <2>2
<1>7. CASE Endl
  <2>1. /\ cur' \in 1..(Len(src) + 1)
        /\ LineOf(cur') = LineOf(cur) + 1 /\ LineStart(cur') = cur'
    BY <1>1, <1>7, EndlLine
  <2>2. line' = LineOf(cur') /\ column' = cur' - LineStart(cur') + 1
    <3>1. cur' \in Int /\ line' = line + 1 /\ column' = 1
      BY <1>1, <1>7, <2>1 DEF Endl
    <3>2. line' = LineOf(cur')
      BY <2>1, <3>1 DEF Located
    <3>3. \A c \in Int : c - c + 1 = 1
      OBVIOUS
    <3> QED BY <2>1, <3>1, <3>2, <3>3
  <2>3. \A i \in DOMAIN tokens' : LocOK(tokens'[i])
    <3>1. tokens' = tokens \/ \E tok : tokens' = Append(tokens, tok) /\ tok.kind = "EOL"
      BY <1>1, <1>7, EndlStep
    <3> QED BY <1>2, <3>1 DEF LocOK, Lexemes
  <2> QED BY <2>2, <2>3
<1>8. ASSUME NEW kind, NEW len, NEW data, LexemeRead(kind, len, data)
      PROVE  /\ line' = LineOf(cur') /\ column' = cur' - LineStart(cur') + 1
             /\ \A i \in DOMAIN tokens' : LocOK(tokens'[i])
  <2> DEFINE tok == Tok(kind, Start, len, column + (Start - cur), data)
  <2>1. /\ tokens' = Append(tokens, tok) /\ AtText /\ Read(len)
        /\ len \in 1..(Len(src) + 1 - Start)
        /\ \A k \in Start..(Start + len - 1) : src[k] # NL
    BY <1>8 DEF LexemeRead, LexemeText
  <2>2. /\ tok.kind = kind /\ tok.from = Start /\ tok.line = line
        /\ tok.column = column + (Start - cur)
    BY DEF Tok
  <2> HIDE DEF tok
  <2>3. cur <= Len(src) /\ Start \in cur..(Len(src) + 1)
    <3>1. Start \in cur..(Len(src) + 1) /\ Start <= Len(src)
      BY <1>1, <2>1, StartBound DEF AtText
    <3> QED BY <1>1, <3>1
  <2>4. len \in Nat /\ Start + len <= Len(src) + 1
        /\ \A k \in cur..(Start + len - 1) : src[k] # NL
    BY <1>1, <1>5, <2>1, <2>3
  <2>5. /\ line' = LineOf(cur') /\ column' = cur' - LineStart(cur') + 1
        /\ LineOf(Start) = LineOf(cur)
        /\ column + (Start - cur) = Start - LineStart(Start) + 1
    BY <1>1, <2>1, <2>3, <2>4, ReadLocated
  <2>6. LocOK(tok)
    BY <2>2, <2>5 DEF LocOK, Located
  <2> QED BY <1>2, <2>1, <2>5, <2>6
<1>9. CASE UNCHANGED vars
  BY <1>9 DEF vars, locVars, Located
<1> QED BY <1>1, <1>4, <1>6, <1>7, <1>8, <1>9, NextKinds

(* In a source without trailing blanks every token of the text carries the *)
(* line and the column at which it stands, tabs and comments before it     *)
(* included.                                                               *)
THEOREM LocationsAreExact == Spec => []LocExact
<1>1. Init => Typed /\ (Clean => Located) /\ LocExact
  <2> SUFFICES ASSUME Init PROVE Located /\ LocExact
    BY InitTyped
  <2>1. TypeOK /\ cur = 1 /\ line = 1 /\ column = 1 /\ tokens = <<>>
    BY InitTyped DEF Typed, Init
  <2>2. 1 \in 1..(Len(src) + 1)
    BY <2>1, SourcesAssumption DEF TypeOK
  <2>3. LineOf(1) = 1 /\ LineStart(1) = 1
    BY <2>1, <2>2, LineOfType
  <2> QED BY <2>1, <2>3 DEF Located, LocExact
<1>2. Typed /\ (Clean => Located) /\ LocExact /\ [Next]_vars
        => Typed' /\ (Clean => Located)' /\ LocExact'
  BY NextTyped, NextLocated
<1> QED BY <1>1, <1>2, PTL DEF Spec

-----------------------------------------------------------------------------
(* The end.                                                                *)

(* What ends a line was stored last, and a lexer done has ended its line.  *)
LineEnded ==
  /\ after_endl /\ tokens # <<>> => tokens[Len(tokens)].kind = "EOL"
  /\ phase = "done" /\ Clean => after_endl

LEMMA StoreEol ==
  ASSUME TypeOK, NEW tok, tok.kind = "EOL", Store(tok)
  PROVE  tokens' # <<>> /\ tokens'[Len(tokens')].kind = "EOL"
<1>1. CASE IsPrevEol(tok)
  BY <1>1 DEF Store, IsPrevEol
<1>2. CASE ~IsPrevEol(tok)
  <2>1. tokens' = Append(tokens, tok)
    BY <1>2 DEF Store
  <2>2. Len(tokens) \in Nat /\ Len(tokens') = Len(tokens) + 1 /\ tokens'[Len(tokens) + 1] = tok
    BY <2>1, AppendAll
  <2>3. Len(<<>>) = 0
    OBVIOUS
  <2> QED BY <2>2, <2>3
<1> QED BY <1>1, <1>2

LEMMA NextLineEnded == Typed /\ LineEnded /\ [Next]_vars => LineEnded'
<1> SUFFICES ASSUME Typed, LineEnded, [Next]_vars PROVE LineEnded'
  OBVIOUS
<1>1. TypeOK
  BY DEF Typed
<1>2. CASE UNCHANGED vars
  BY <1>2, TextSame DEF vars, indentVars, LineEnded
<1>3. ASSUME after_endl' = FALSE, phase' # "done" PROVE LineEnded'
  BY <1>3 DEF LineEnded
<1>4. ASSUME phase' # "done", NEW tok, Store(tok), tok.kind = "EOL" PROVE LineEnded'
  BY <1>1, <1>4, StoreEol DEF LineEnded
<1>5. \A from, len, at : Tok("EOL", from, len, at, 0).kind = "EOL"
  BY DEF Tok
<1>6. CASE IndentBlockEnd
  BY <1>3, <1>6 DEF IndentBlockEnd
<1>7. CASE IndentBlockBegin
  BY <1>3, <1>7 DEF IndentBlockBegin
<1>8. CASE EolAtNul
  BY <1>4, <1>5, <1>8 DEF EolAtNul, PastIndent
<1>9. CASE StopAtNul
  BY <1>9 DEF StopAtNul, indentVars, LineEnded
<1>10. CASE EofBlockEnd
  BY <1>3, <1>10 DEF EofBlockEnd, Read, PastIndent
<1>11. CASE EofStop
  <2>1. cur <= Len(src) /\ ~(Start <= Len(src)) /\ src' = src /\ after_endl' = FALSE
    <3>1. /\ Len(src) \in Nat /\ cur \in Nat \ {0}
          /\ Start \in cur..(Len(src) + 1)
      BY <1>1, StartBound, SourcesAssumption DEF TypeOK
    <3>2. At(cur) # NUL /\ At(Start) = NUL /\ src' = src /\ after_endl' = FALSE
      BY <1>11 DEF EofStop, Read
    <3>3. Start \in Nat \ {0}
      BY <3>1
    <3> QED BY <1>1, <3>1, <3>2, <3>3, AtNul
  <2>2. ~Clean
    <3>1. cur \in Nat /\ Len(src) \in Nat
      BY <1>1, SourcesAssumption DEF TypeOK
    <3>2. Clean => Start \in cur..Len(src)
      BY <1>1, <2>1, CleanStart
    <3> QED BY <2>1, <3>1, <3>2
  <2> QED BY <2>1, <2>2, TextSame DEF LineEnded
<1>12. CASE Endl
  BY <1>4, <1>5, <1>12 DEF Endl, AtText, PastIndent
<1>13. \A kind, len, data : AtText /\ Lexeme(kind, len, data) => after_endl' = FALSE /\ phase' # "done"
  BY DEF Lexeme, Read, AtText, PastIndent
<1>14. CASE IntTok \/ StringTok \/ SymbolTok \/ IdentTok
  BY <1>3, <1>13, <1>14 DEF IntTok, StringTok, SymbolTok, IdentTok, NotLiteral, AtLexeme
<1>15. CASE UnknownTok
  BY <1>3, <1>15 DEF UnknownTok, Read
<1> QED BY <1>2, <1>6, <1>7, <1>8, <1>9, <1>10, <1>11, <1>12, <1>14, <1>15
        DEF Next, GetTok

(* A source without trailing blanks that has tokens ends in EOL, so that   *)
(* the parser, which looks one token ahead unasked, finds one.             *)
THEOREM TokensEndInEol == Spec => []EndsWithEol
<1>1. Init => Typed /\ LineEnded
  BY InitTyped DEF Init, LineEnded
<1>2. Typed /\ LineEnded /\ [Next]_vars => Typed' /\ LineEnded'
  BY NextTyped, NextLineEnded
<1>3. LineEnded => EndsWithEol
  BY DEF LineEnded, EndsWithEol
<1> QED BY <1>1, <1>2, <1>3, PTL DEF Spec

-----------------------------------------------------------------------------
(* Nothing is lost.                                                        *)

Dull(i) == src[i] \in Spaces \/ InComment(i)
CoveredOnce(i) ==
  \E k \in DOMAIN tokens : /\ Covers(tokens[k], i)
                           /\ \A l \in DOMAIN tokens : Covers(tokens[l], i) => l = k

WordEnds(tok) ==
  tok.kind \in {"IDENT", "KEYWORD"} => At(tok.from + tok.len) \notin Letters \cup Digits

(* Tokens end where the lexer is at most, and have all that is before it.  *)
Kept ==
  /\ \A k \in DOMAIN tokens : tokens[k].from + tokens[k].len <= cur
  /\ \A i \in 1..(cur - 1) : Dull(i) \/ CoveredOnce(i)
  /\ \A k \in DOMAIN tokens : WordEnds(tokens[k])

LEMMA KeptLosesNothing == TypeOK /\ Kept => NothingLost
<1> SUFFICES ASSUME TypeOK, Kept PROVE NothingLost
  OBVIOUS
<1>1. tokens \in Seq(TokenType)
  BY DEF TypeOK, TokenType
<1>2. IsFiniteSet(DOMAIN tokens)
  <2>1. DOMAIN tokens = 1..Len(tokens) /\ Len(tokens) \in Nat
    BY <1>1
  <2> QED BY <2>1, FS_Interval
<1>3. ASSUME NEW i, CoveredOnce(i)
      PROVE  Cardinality({k \in DOMAIN tokens : Covers(tokens[k], i)}) = 1
  <2>1. PICK k \in DOMAIN tokens : {l \in DOMAIN tokens : Covers(tokens[l], i)} = {k}
    BY <1>3 DEF CoveredOnce
  <2> QED BY <2>1, FS_Singleton
<1>4. \A i \in 1..(cur - 1) :
        src[i] \notin Spaces /\ ~InComment(i) =>
          Cardinality({k \in DOMAIN tokens : Covers(tokens[k], i)}) = 1
  BY <1>3 DEF Kept, Dull
<1> QED BY <1>4 DEF Kept, WordEnds, NothingLost

LEMMA PlacesSplit ==
  ASSUME NEW a \in Nat, NEW b \in Nat, a <= b, NEW i \in 1..(b - 1)
  PROVE  i \in 1..(a - 1) \/ i \in a..(b - 1)
OBVIOUS

LEMMA DroppedSpaces ==
  ASSUME TypeOK
  PROVE  \A k \in cur..(Start - 1) : Dull(k)
<1>1. cur \in 1..(Len(src) + 1) /\ cur \in Nat
  BY SourcesAssumption DEF TypeOK
<1>2. CASE At(cur) = NL
  BY <1>1, <1>2 DEF Start
<1>3. CASE At(cur) # NL
  <2>1. Start = cur + Span(cur, Spaces)
    BY <1>3 DEF Start
  <2>2. \A k \in cur..(cur + Span(cur, Spaces) - 1) : src[k] \in Spaces
    BY <1>1, SpanIs
  <2>3. \A k \in cur..(Start - 1) : src[k] \in Spaces
    <3> DEFINE n == Span(cur, Spaces)
    <3> HIDE DEF n
    <3>1. Start = cur + n /\ \A k \in cur..(cur + n - 1) : src[k] \in Spaces
      BY <2>1, <2>2 DEF n
    <3>2. n \in Nat
      BY <1>1, SpanIs DEF n
    <3> QED BY <1>1, <3>1, <3>2
  <2> QED BY <2>3 DEF Dull
<1> QED BY <1>2, <1>3

(* Reading on with all that is read in the token that is stored, if any.   *)
LEMMA KeptGrows ==
  ASSUME TypeOK, Kept, src' = src, cur' \in cur..(Len(src) + 1),
         \/ tokens' = tokens /\ \A i \in cur..(cur' - 1) : Dull(i)
         \/ \E tok \in TokenType :
              /\ tokens' = Append(tokens, tok) /\ WordEnds(tok)
              /\ cur <= tok.from /\ tok.from + tok.len <= cur'
              /\ \A i \in cur..(cur' - 1) : Dull(i) \/ Covers(tok, i)
  PROVE  Kept'
<1>1. /\ Len(src) \in Nat /\ cur \in Nat \ {0} /\ cur' \in Nat \ {0} /\ cur <= cur'
      /\ tokens \in Seq(TokenType) /\ DOMAIN tokens = 1..Len(tokens) /\ Len(tokens) \in Nat
  <2>1. Len(src) \in Nat /\ tokens \in Seq(TokenType) /\ cur \in 1..(Len(src) + 1)
    BY SourcesAssumption DEF TypeOK, TokenType
  <2> QED BY <2>1
<1>2. \A k \in 1..Len(tokens) : /\ tokens[k].from \in Nat /\ tokens[k].len \in Nat
                                /\ tokens[k].from + tokens[k].len <= cur
  <2> SUFFICES ASSUME NEW k \in 1..Len(tokens)
               PROVE  /\ tokens[k].from \in Nat /\ tokens[k].len \in Nat
                      /\ tokens[k].from + tokens[k].len <= cur
    OBVIOUS
  <2>1. tokens[k] \in TokenType
    BY <1>1
  <2> QED BY <1>1, <2>1 DEF TokenType, Kept
<1>3. /\ \A i : Dull(i)' <=> Dull(i)
      /\ \A t : WordEnds(t)' <=> WordEnds(t)
      /\ \A t, i : Covers(t, i)' <=> Covers(t, i)
  <2>1. \A i : LineStart(i)' = LineStart(i)
    BY TextSame
  <2> QED BY <2>1 DEF Dull, InComment, SpelledAt, WordEnds, At, Covers
<1> DEFINE Once(i, s) == \E k \in DOMAIN s : /\ Covers(s[k], i)
                                             /\ \A l \in DOMAIN s : Covers(s[l], i) => l = k
<1>4. SUFFICES /\ \A k \in DOMAIN tokens' : tokens'[k].from + tokens'[k].len <= cur'
               /\ \A i \in 1..(cur' - 1) : Dull(i) \/ Once(i, tokens')
               /\ \A k \in DOMAIN tokens' : WordEnds(tokens'[k])
  <2>1. \A i : CoveredOnce(i)' <=> Once(i, tokens')
    BY DEF CoveredOnce, Covers
  <2>2. (\A k \in DOMAIN tokens : WordEnds(tokens[k]))' <=> \A k \in DOMAIN tokens' : WordEnds(tokens'[k])
    BY DEF WordEnds, At
  <2> HIDE DEF Once
  <2> QED BY <1>3, <2>1, <2>2 DEF Kept
<1>5. \A i \in 1..(cur - 1) : Dull(i) \/ Once(i, tokens)
  BY DEF Kept, CoveredOnce
<1>6. CASE tokens' = tokens /\ \A i \in cur..(cur' - 1) : Dull(i)
  <2> HIDE DEF Once
  <2>1. \A i \in 1..(cur' - 1) : i \in 1..(cur - 1) \/ i \in cur..(cur' - 1)
    BY <1>1, PlacesSplit
  <2>2. \A k \in DOMAIN tokens : tokens[k].from + tokens[k].len <= cur'
    BY <1>1, <1>2
  <2> QED BY <1>5, <1>6, <2>1, <2>2 DEF Kept
<1>7. ASSUME NEW tok \in TokenType, tokens' = Append(tokens, tok), WordEnds(tok),
             cur <= tok.from, tok.from + tok.len <= cur',
             \A i \in cur..(cur' - 1) : Dull(i) \/ Covers(tok, i)
      PROVE  /\ \A k \in DOMAIN tokens' : tokens'[k].from + tokens'[k].len <= cur'
             /\ \A i \in 1..(cur' - 1) : Dull(i) \/ Once(i, tokens')
             /\ \A k \in DOMAIN tokens' : WordEnds(tokens'[k])
  <2> DEFINE n == Len(tokens)
  <2>1. /\ DOMAIN tokens' = 1..(n + 1) /\ tokens'[n + 1] = tok /\ DOMAIN tokens = 1..n
        /\ n \in Nat /\ \A k \in 1..n : tokens'[k] = tokens[k]
    BY <1>7, AppendAll
  <2> HIDE DEF n
  <2>2. \A k \in 1..(n + 1) : k \in 1..n \/ k = n + 1
    BY <2>1
  <2>3. tok.from \in Nat /\ tok.len \in Nat
    BY DEF TokenType
  <2>4. \A k \in 1..n : /\ tokens[k].from \in Nat /\ tokens[k].len \in Nat
                        /\ tokens[k].from + tokens[k].len <= cur
    BY <1>2 DEF n
  <2>5. \A k \in DOMAIN tokens' : tokens'[k].from + tokens'[k].len <= cur'
    <3>1. \A k \in 1..n : tokens[k].from + tokens[k].len <= cur'
      BY <1>1, <2>4
    <3> QED BY <1>7, <2>1, <2>2, <3>1
  <2>6. \A k \in DOMAIN tokens' : WordEnds(tokens'[k])
    BY <1>7, <2>1, <2>2 DEF Kept
  <2>7. ASSUME NEW i \in 1..(cur - 1), Once(i, tokens) PROVE Once(i, tokens')
    <3>1. ~Covers(tok, i)
      <4>1. i \in Nat /\ i < cur
        BY <1>1
      <4>2. \A a, b, c \in Nat : a < b /\ b <= c => ~(c <= a)
        OBVIOUS
      <4>3. ~(tok.from <= i)
        BY <1>1, <1>7, <2>3, <4>1, <4>2
      <4> QED BY <4>3 DEF Covers
    <3>2. PICK k \in 1..n : /\ Covers(tokens[k], i)
                            /\ \A l \in 1..n : Covers(tokens[l], i) => l = k
      BY <2>1, <2>7
    <3>3. Covers(tokens'[k], i) /\ k \in DOMAIN tokens'
      BY <2>1, <3>2
    <3>4. \A l \in DOMAIN tokens' : Covers(tokens'[l], i) => l = k
      BY <2>1, <2>2, <3>1, <3>2
    <3> QED BY <3>3, <3>4
  <2>8. ASSUME NEW i \in cur..(cur' - 1), Covers(tok, i) PROVE Once(i, tokens')
    <3>1. \A k \in 1..n : ~Covers(tokens[k], i)
      BY <1>1, <2>4 DEF Covers
    <3>2. n + 1 \in DOMAIN tokens' /\ Covers(tokens'[n + 1], i)
      BY <2>1, <2>8
    <3>3. \A l \in DOMAIN tokens' : Covers(tokens'[l], i) => l = n + 1
      BY <2>1, <2>2, <3>1
    <3> QED BY <3>2, <3>3
  <2> HIDE DEF Once
  <2>9. \A i \in 1..(cur' - 1) : i \in 1..(cur - 1) \/ i \in cur..(cur' - 1)
    BY <1>1, PlacesSplit
  <2>10. \A i \in 1..(cur' - 1) : Dull(i) \/ Once(i, tokens')
    BY <1>5, <1>7, <2>7, <2>8, <2>9
  <2> QED BY <2>5, <2>6, <2>10
<1> QED BY <1>6, <1>7


LEMMA NextKept == Typed /\ Kept /\ [Next]_vars => Kept'
<1> SUFFICES ASSUME Typed, Kept, [Next]_vars PROVE Kept'
  OBVIOUS
<1>1. /\ TypeOK /\ Len(src) \in Nat /\ cur \in 1..(Len(src) + 1) /\ cur \in Nat
      /\ Start \in cur..(Len(src) + 1)
  BY StartBound, SourcesAssumption DEF Typed, TypeOK
<1>2. src' = src
  BY <1>1, NextKinds DEF vars
<1>3. ASSUME NoLexeme, cur' \in cur..(Len(src) + 1), \A i \in cur..(cur' - 1) : Dull(i)
      PROVE  Kept'
  <2>1. CASE tokens' = tokens
    BY <1>1, <1>2, <1>3, <2>1, KeptGrows
  <2>2. CASE tokens' # tokens
    <3>1. PICK tok \in TokenType : /\ tokens' = Append(tokens, tok)
                                  /\ tok.kind \notin Lexemes /\ tok.from = cur /\ tok.len = 0
      BY <1>3, <2>2 DEF NoLexeme
    <3>2. WordEnds(tok) /\ cur <= tok.from /\ tok.from + tok.len <= cur'
      BY <1>1, <1>3, <3>1 DEF WordEnds, Lexemes
    <3> QED BY <1>1, <1>2, <1>3, <3>1, <3>2, KeptGrows
  <2> QED BY <2>1, <2>2
<1>4. CASE Stays /\ NoLexeme
  <2>1. cur' \in cur..(Len(src) + 1) /\ cur..(cur' - 1) = {}
    BY <1>1, <1>4 DEF Stays
  <2> QED BY <1>3, <1>4, <2>1
<1>5. \A k \in cur..(Start - 1) : Dull(k)
  BY <1>1, DroppedSpaces
<1>6. CASE Read(0) /\ NoLexeme
  <2>1. cur' = Start
    BY <1>1, <1>6 DEF Read
  <2> QED BY <1>1, <1>3, <1>5, <1>6, <2>1
<1>7. CASE Endl
  <2>1. /\ cur' \in (Start + 1)..(Len(src) + 1) /\ src[cur' - 1] = NL
        /\ \A k \in Start..(cur' - 2) : InComment(k)
    BY <1>1, <1>7, EndlStep
  <2>2. cur' \in cur..(Len(src) + 1) /\ cur' \in Nat
    BY <1>1, <2>1
  <2>3. ASSUME NEW i \in cur..(cur' - 1) PROVE Dull(i)
    <3>1. \A c, s, d \in Nat : c <= s /\ s < d =>
             \A k \in c..(d - 1) : k \in c..(s - 1) \/ k \in s..(d - 2) \/ k = d - 1
      OBVIOUS
    <3>2. Start \in Nat /\ cur <= Start /\ Start < cur'
      BY <1>1, <2>1
    <3>3. i \in cur..(Start - 1) \/ i \in Start..(cur' - 2) \/ i = cur' - 1
      BY <1>1, <2>2, <3>1, <3>2
    <3> QED BY <1>5, <2>1, <3>3 DEF Dull, Spaces
  <2>4. CASE tokens' = tokens
    BY <1>1, <1>2, <2>2, <2>3, <2>4, KeptGrows
  <2>5. CASE tokens' # tokens
    <3>1. PICK tok \in TokenType : /\ tokens' = Append(tokens, tok)
                                  /\ tok.kind = "EOL" /\ tok.from = Start
                                  /\ tok.from + tok.len = cur'
      BY <1>1, <1>7, <2>5, EndlStep
    <3>2. WordEnds(tok) /\ cur <= tok.from /\ tok.from + tok.len <= cur'
      BY <1>1, <2>2, <3>1 DEF WordEnds
    <3> QED BY <1>1, <1>2, <2>2, <2>3, <3>1, <3>2, KeptGrows
  <2> QED BY <2>4, <2>5
<1>8. ASSUME NEW kind, NEW len, NEW data, LexemeRead(kind, len, data) PROVE Kept'
  <2> DEFINE tok == Tok(kind, Start, len, column + (Start - cur), data)
  <2>1. /\ tokens' = Append(tokens, tok) /\ tok \in TokenType /\ LexemeText(kind, len, data)
        /\ cur' = Start + len
    BY <1>8 DEF LexemeRead, Read
  <2>2. tok.kind = kind /\ tok.from = Start /\ tok.len = len
    BY DEF Tok
  <2> HIDE DEF tok
  <2>3. len \in 1..(Len(src) + 1 - Start) /\ WordEnds(tok)
    BY <2>1, <2>2 DEF LexemeText, WordEnds
  <2>4. cur' \in cur..(Len(src) + 1) /\ cur <= tok.from /\ tok.from + tok.len <= cur'
    BY <1>1, <2>1, <2>2, <2>3
  <2>5. ASSUME NEW i \in cur..(cur' - 1) PROVE Dull(i) \/ Covers(tok, i)
    <3>1. CASE i < Start
      <4>1. i \in cur..(Start - 1)
        BY <1>1, <2>4, <3>1
      <4> QED BY <1>5, <4>1
    <3>2. CASE ~(i < Start)
      <4>1. Start <= i /\ i < Start + len
        BY <1>1, <2>1, <2>3, <2>4, <3>2
      <4> QED BY <2>2, <4>1 DEF Covers
    <3> QED BY <3>1, <3>2
  <2> QED BY <1>1, <1>2, <2>1, <2>3, <2>4, <2>5, KeptGrows
<1>9. CASE UNCHANGED vars
  <2>1. tokens' = tokens /\ cur' = cur
    BY <1>9 DEF vars
  <2>2. cur' \in cur..(Len(src) + 1) /\ cur..(cur' - 1) = {}
    BY <1>1, <2>1
  <2> QED BY <1>1, <1>2, <2>1, <2>2, KeptGrows
<1> QED BY <1>1, <1>4, <1>6, <1>7, <1>8, <1>9, NextKinds

(* Every character that is read and is no space and in no comment is in    *)
(* one token, and no word is cut.                                          *)
THEOREM NothingIsLost == Spec => []NothingLost
<1>1. Init => Typed /\ Kept
  <2> SUFFICES ASSUME Init PROVE Kept
    BY InitTyped
  <2>1. tokens = <<>> /\ cur = 1
    BY DEF Init
  <2>2. DOMAIN tokens = {} /\ 1..(cur - 1) = {}
    BY <2>1
  <2> QED BY <2>2 DEF Kept
<1>2. Typed /\ Kept /\ [Next]_vars => Typed' /\ Kept'
  BY NextTyped, NextKept
<1>3. Typed /\ Kept => NothingLost
  BY KeptLosesNothing DEF Typed
<1> QED BY <1>1, <1>2, <1>3, PTL DEF Spec

-----------------------------------------------------------------------------
(* The depth of a line.                                                    *)

Lines == LineOf(Len(src) + 1)

(* The depth of line l, given the depths of the lines before.              *)
DepthStep(f, l) ==
  IF l = 1 THEN 0
  ELSE LET tabs == Span(LineBegin(l), {TAB})
       IN  IF tabs > f[l - 1] THEN f[l - 1] + 1 ELSE tabs

DepthTo(f, n) == f = [l \in 1..n |-> DepthStep(f, l)]

LEMMA DepthToGrows ==
  ASSUME NEW n \in Nat, NEW f, DepthTo(f, n)
  PROVE  \E g : DepthTo(g, n + 1)
<1> DEFINE g == [l \in 1..(n + 1) |-> IF l = n + 1 THEN DepthStep(f, n + 1) ELSE f[l]]
<1>1. ASSUME NEW l \in 1..(n + 1) PROVE g[l] = DepthStep(g, l)
  <2>1. DepthStep(g, l) = DepthStep(f, l)
    <3>1. CASE l = 1
      BY <3>1 DEF DepthStep
    <3>2. CASE l # 1
      <4>1. l - 1 \in 1..(n + 1) /\ l - 1 # n + 1
        BY <3>2
      <4>2. g[l - 1] = f[l - 1]
        BY <4>1
      <4> HIDE DEF g
      <4> QED BY <4>2 DEF DepthStep
    <3> QED BY <3>1, <3>2
  <2>2. l # n + 1 => l \in 1..n
    OBVIOUS
  <2>3. l \in 1..n => f[l] = DepthStep(f, l)
    <3> DEFINE h == [k \in 1..n |-> DepthStep(f, k)]
    <3>1. f = h
      BY DEF DepthTo
    <3>2. l \in 1..n => h[l] = DepthStep(f, l)
      OBVIOUS
    <3> HIDE DEF h
    <3> QED BY <3>1, <3>2
  <2>4. g[l] = IF l = n + 1 THEN DepthStep(f, n + 1) ELSE f[l]
    OBVIOUS
  <2> HIDE DEF g
  <2> QED BY <2>1, <2>2, <2>3, <2>4
<1>2. g = [l \in 1..(n + 1) |-> g[l]]
  OBVIOUS
<1> HIDE DEF g
<1>3. DepthTo(g, n + 1)
  BY <1>1, <1>2 DEF DepthTo
<1> QED BY <1>3

(* The recursion has a solution: there is no least length without one.     *)
LEMMA DepthExists ==
  ASSUME NEW n \in Nat PROVE \E f : DepthTo(f, n)
<1> DEFINE R == {k \in Nat : ~\E f : DepthTo(f, k)}
<1>1. SUFFICES ASSUME R # {} PROVE FALSE
  OBVIOUS
<1>2. R \in SUBSET Nat
  OBVIOUS
<1>3. \A k \in Nat : k \in R <=> ~\E f : DepthTo(f, k)
  OBVIOUS
<1> HIDE DEF R
<1>4. PICK b \in R : \A k \in R : b <= k
  BY <1>1, <1>2, Least
<1>5. b \in Nat
  BY <1>2
<1>6. b # 0
  <2>1. DepthTo(<<>>, 0)
    <3>1. 1..0 = {}
      OBVIOUS
    <3>2. <<>> = [l \in {} |-> DepthStep(<<>>, l)]
      OBVIOUS
    <3> QED BY <3>1, <3>2 DEF DepthTo
  <2>2. 0 \in R => FALSE
    BY <1>3, <2>1
  <2> QED BY <2>2
<1>7. b - 1 \in Nat /\ (b - 1) + 1 = b /\ b - 1 \notin R
  BY <1>4, <1>5, <1>6
<1>8. PICK f : DepthTo(f, b - 1)
  BY <1>3, <1>7
<1>9. \E g : DepthTo(g, b)
  BY <1>7, <1>8, DepthToGrows
<1> QED BY <1>3, <1>5, <1>9

LEMMA DepthIs ==
  ASSUME TypeOK
  PROVE  DepthTo(LineDepth, Lines)
<1>1. Lines \in Nat
  <2>1. Len(src) \in Nat
    BY SourcesAssumption DEF TypeOK
  <2> QED BY <2>1, LineOfType DEF Lines
<1>2. \E f : DepthTo(f, Lines)
  BY <1>1, DepthExists
<1>3. \E f : f = [l \in 1..LineOf(Len(src) + 1) |->
             IF l = 1 THEN 0
             ELSE LET tabs == Span(LineBegin(l), {TAB})
                  IN  IF tabs > f[l - 1] THEN f[l - 1] + 1 ELSE tabs]
  BY <1>2, Zenon DEF DepthTo, DepthStep, Lines
<1>4. LineDepth = [l \in 1..LineOf(Len(src) + 1) |->
             IF l = 1 THEN 0
             ELSE LET tabs == Span(LineBegin(l), {TAB})
                  IN  IF tabs > LineDepth[l - 1] THEN LineDepth[l - 1] + 1 ELSE tabs]
  BY <1>3, Zenon DEF LineDepth
<1> QED BY <1>4, Zenon DEF DepthTo, DepthStep, Lines

(* A later place is on no earlier line, and past a newline on a later one. *)
LEMMA LineUpTo ==
  ASSUME TypeOK, NEW i \in 1..(Len(src) + 1), NEW j \in i..(Len(src) + 1)
  PROVE  /\ LineOf(i) <= LineOf(j)
         /\ (\E k \in i..(j - 1) : src[k] = NL) => LineOf(i) # LineOf(j)
<1>1. Len(src) \in Nat /\ j \in 1..(Len(src) + 1)
  BY SourcesAssumption DEF TypeOK
<1> DEFINE A == NewlinesBefore(i)
           B == NewlinesBefore(j)
<1>2. A \in SUBSET B
  BY <1>1 DEF NewlinesBefore
<1>3. \A k \in i..(j - 1) : src[k] = NL => k \in B /\ k \notin A
  BY <1>1 DEF NewlinesBefore
<1>4. LineOf(i) = Cardinality(A) + 1 /\ LineOf(j) = Cardinality(B) + 1
  BY DEF LineOf
<1>5. IsFiniteSet(A) /\ IsFiniteSet(B)
  BY <1>1, LineOfType
<1> HIDE DEF A, B
<1>6. /\ Cardinality(A) <= Cardinality(B) /\ Cardinality(A) \in Nat /\ Cardinality(B) \in Nat
      /\ A # B => Cardinality(A) # Cardinality(B)
  BY <1>2, <1>5, FS_Subset, FS_CardinalityType
<1>7. (\E k \in i..(j - 1) : src[k] = NL) => A # B
  BY <1>3
<1> QED BY <1>4, <1>6, <1>7

LEMMA LineBeginIs ==
  ASSUME TypeOK, NEW b \in 1..(Len(src) + 1), LineStart(b) = b
  PROVE  LineBegin(LineOf(b)) = b
<1>1. Len(src) \in Nat
  BY SourcesAssumption DEF TypeOK
<1>2. ASSUME NEW c \in 1..(Len(src) + 1), NEW d \in 1..(Len(src) + 1), c < d,
             LineStart(d) = d
      PROVE  LineOf(c) # LineOf(d)
  <2>1. BeginsLine(d, d)
    BY <1>2, LineStartIs
  <2>2. d - 1 \in c..(d - 1) /\ d \in c..(Len(src) + 1) /\ d # 1
    BY <1>1, <1>2
  <2>3. src[d - 1] = NL
    BY <2>1, <2>2 DEF BeginsLine
  <2> QED BY <2>2, <2>3, LineUpTo
<1> DEFINE c == LineBegin(LineOf(b))
<1>3. c \in 1..(Len(src) + 1) /\ LineOf(c) = LineOf(b) /\ LineStart(c) = c
  <2>1. \E a \in 1..(Len(src) + 1) : LineOf(a) = LineOf(b) /\ LineStart(a) = a
    OBVIOUS
  <2> QED BY <2>1, Zenon DEF LineBegin
<1> HIDE DEF c
<1>4. ~(c < b) /\ ~(b < c)
  BY <1>2, <1>3
<1>5. c = b
  BY <1>1, <1>3, <1>4
<1> QED BY <1>5 DEF c

(* What the tabs at the start of a line say of its depth.                  *)
LEMMA DepthAtStart ==
  ASSUME TypeOK, NEW b \in 1..(Len(src) + 1), LineStart(b) = b
  PROVE  LET l == LineOf(b)
             tabs == Span(b, {TAB})
         IN  /\ l = 1 => LineDepth[l] = 0
             /\ l # 1 => LineDepth[l] = IF tabs > LineDepth[l - 1]
                                        THEN LineDepth[l - 1] + 1 ELSE tabs
<1>1. Len(src) \in Nat
  BY SourcesAssumption DEF TypeOK
<1>2. LineOf(b) \in 1..Lines
  <2>1. Len(src) + 1 \in b..(Len(src) + 1)
    BY <1>1
  <2>2. Len(src) + 1 \in 1..(Len(src) + 1)
    BY <1>1
  <2>3. LineOf(b) <= Lines
    BY <2>1, LineUpTo DEF Lines
  <2>4. LineOf(b) \in Nat \ {0} /\ Lines \in Nat
    BY <2>2, LineOfType DEF Lines
  <2> QED BY <2>3, <2>4
<1>3. LineDepth[LineOf(b)] = DepthStep(LineDepth, LineOf(b))
  <2> DEFINE h == [l \in 1..Lines |-> DepthStep(LineDepth, l)]
  <2>1. LineDepth = h
    BY DepthIs DEF DepthTo
  <2>2. h[LineOf(b)] = DepthStep(LineDepth, LineOf(b))
    BY <1>2
  <2> HIDE DEF h
  <2> QED BY <2>1, <2>2
<1> QED BY <1>3, LineBeginIs DEF DepthStep

-----------------------------------------------------------------------------
(* Depth.                                                                  *)

(* The block depth the lexer is at: that of its line, or on the way there  *)
(* from the line before.                                                   *)
AtDepth ==
  cur <= Len(src) =>
    /\ need_end_indent > 0 =>
         /\ LineStart(cur) = cur /\ LineOf(cur) # 1
         /\ LineDepth[LineOf(cur)] = Tabs
    /\ need_end_indent = 0 /\ after_endl =>
         /\ LineStart(cur) = cur /\ LineOf(cur) # 1
         /\ last_indent = LineDepth[LineOf(cur) - 1]
    /\ need_end_indent = 0 /\ ~after_endl => last_indent = LineDepth[LineOf(cur)]

(* Past try_indent the lexer is at the depth of its line.                  *)
LEMMA AtDepthPast ==
  ASSUME Typed, AtDepth, PastIndent, cur <= Len(src)
  PROVE  need_end_indent = 0 /\ last_indent = LineDepth[LineOf(cur)]
<1>1. /\ Len(src) \in Nat /\ cur \in 1..(Len(src) + 1) /\ last_indent \in Nat
      /\ need_end_indent \in Nat /\ TypeOK /\ after_endl \in BOOLEAN
  BY SourcesAssumption DEF Typed, TypeOK
<1>2. Tabs \in Nat
  <2>1. Span(cur, {TAB}) \in 0..(Len(src) + 1 - cur)
    BY <1>1, SpanIs
  <2> QED BY <1>1, <2>1 DEF Tabs
<1>3. need_end_indent = 0
  BY <1>1 DEF PastIndent, BlockEnds, IndentDue
<1>4. CASE ~after_endl
  BY <1>3, <1>4 DEF AtDepth
<1>5. CASE after_endl
  <2>1. ~(Tabs < last_indent) /\ ~(Tabs > last_indent)
    BY <1>5 DEF PastIndent, BlockEnds, BlockBegins, IndentDue
  <2>2. Tabs = last_indent
    BY <1>1, <1>2, <2>1
  <2>3. LineStart(cur) = cur /\ LineOf(cur) # 1 /\ last_indent = LineDepth[LineOf(cur) - 1]
    BY <1>3, <1>5 DEF AtDepth
  <2>4. LineDepth[LineOf(cur)] = Tabs
    BY <1>1, <2>1, <2>3, DepthAtStart DEF Tabs
  <2> QED BY <1>3, <2>2, <2>4
<1> QED BY <1>1, <1>4, <1>5

(* One line at a time, up or down as many levels as its tabs say.          *)
LEMMA NextAtDepth ==
  ASSUME Typed, Clean, AtDepth, [Next]_vars
  PROVE  AtDepth'
<1>1. /\ Len(src) \in Nat /\ cur \in 1..(Len(src) + 1) /\ last_indent \in Nat
      /\ need_end_indent \in Nat /\ TypeOK /\ after_endl \in BOOLEAN /\ cur \in Nat \ {0}
  <2>1. Len(src) \in Nat
    BY SourcesAssumption DEF Typed, TypeOK
  <2> QED BY <2>1 DEF Typed, TypeOK
<1>2. Tabs \in Nat
  <2>1. Span(cur, {TAB}) \in 0..(Len(src) + 1 - cur)
    BY <1>1, SpanIs
  <2> QED BY <1>1, <2>1 DEF Tabs
<1>3. src' = src
  BY <1>1, NextKinds DEF vars
<1>4. LineDepth' = LineDepth /\ Len(src') = Len(src)
  BY <1>3, TextSame
<1>5. LineOf(cur)' = LineOf(cur') /\ LineStart(cur)' = LineStart(cur') /\ Tabs' = Span(cur', {TAB})
  BY <1>3 DEF LineOf, NewlinesBefore, LineStart, Tabs, Span
<1> DEFINE l == LineOf(cur)
           d == LineDepth[l]
           before == LineDepth[l - 1]
<1>6. CASE cur' > Len(src)
  <2>1. ~(cur' <= Len(src'))
    <3>1. TypeOK'
      BY NextTyped DEF Typed
    <3>2. cur' \in 1..(Len(src') + 1)
      BY <3>1 DEF TypeOK
    <3> QED BY <1>1, <1>4, <1>6, <3>2
  <2> QED BY <2>1 DEF AtDepth
<1>7. ASSUME need_end_indent' = 0, after_endl' = FALSE,
             last_indent' = LineDepth[LineOf(cur')]
      PROVE  AtDepth'
  BY <1>4, <1>5, <1>7 DEF AtDepth
<1>8. CASE IndentBlockEnd
  <2>1. SUFFICES ASSUME cur <= Len(src) PROVE AtDepth'
    BY <1>3, <1>8 DEF IndentBlockEnd, AtDepth
  <2>2. LineStart(cur) = cur /\ l # 1 /\ d = Tabs
    <3>1. CASE need_end_indent > 0
      BY <2>1, <3>1 DEF AtDepth
    <3>2. CASE ~(need_end_indent > 0)
      <4>1. need_end_indent = 0 /\ after_endl /\ Tabs < last_indent
        BY <1>1, <1>8, <3>2 DEF IndentBlockEnd, BlockEnds, IndentDue
      <4>2. LineStart(cur) = cur /\ l # 1 /\ last_indent = before
        BY <2>1, <4>1 DEF AtDepth
      <4>3. ~(Tabs > before)
        BY <1>1, <1>2, <4>1, <4>2
      <4> QED BY <1>1, <4>2, <4>3, DepthAtStart DEF Tabs
    <3> QED BY <3>1, <3>2
  <2>3. /\ last_indent' \in Nat /\ need_end_indent' \in Nat
        /\ need_end_indent' = last_indent' - Tabs
    BY <1>8, EndStep
  <2>4. cur' = cur /\ after_endl' = FALSE
    BY <1>8 DEF IndentBlockEnd
  <2>5. need_end_indent' = 0 => last_indent' = Tabs
    <3>1. \A a, b, c \in Nat : c = a - b /\ c = 0 => a = b
      OBVIOUS
    <3> QED BY <1>2, <2>3, <3>1
  <2>6. LineStart(cur)' = cur' /\ LineOf(cur)' # 1 /\ LineDepth'[LineOf(cur)'] = Tabs'
    BY <1>4, <1>5, <2>2, <2>4 DEF Tabs
  <2>7. need_end_indent' = 0 => last_indent' = LineDepth'[LineOf(cur)']
    BY <1>4, <1>5, <2>2, <2>4, <2>5
  <2> HIDE DEF l, d, before
  <2> QED BY <2>4, <2>6, <2>7 DEF AtDepth
<1>9. CASE IndentBlockBegin
  <2>1. SUFFICES ASSUME cur <= Len(src) PROVE AtDepth'
    BY <1>3, <1>9 DEF IndentBlockBegin, AtDepth
  <2>2. need_end_indent = 0 /\ after_endl /\ Tabs > last_indent
    BY <1>1, <1>9 DEF IndentBlockBegin, BlockBegins, BlockEnds, IndentDue
  <2>3. LineStart(cur) = cur /\ l # 1 /\ last_indent = before
    BY <2>1, <2>2 DEF AtDepth
  <2>4. d = last_indent + 1
    BY <1>1, <2>2, <2>3, DepthAtStart DEF Tabs
  <2>5. /\ cur' = cur /\ after_endl' = FALSE /\ need_end_indent' = 0
        /\ last_indent' = last_indent + 1
    BY <1>9, <2>2 DEF IndentBlockBegin
  <2> QED BY <1>7, <2>4, <2>5
<1>10. CASE EolAtNul \/ StopAtNul
  <2>1. cur' = cur /\ cur > Len(src)
    BY <1>1, <1>10, AtNul DEF EolAtNul, StopAtNul
  <2> QED BY <1>6, <2>1
<1>11. CASE EofBlockEnd \/ EofStop
  <2>1. At(cur) # NUL /\ At(Start) = NUL
    BY <1>11 DEF EofBlockEnd, EofStop
  <2>2. cur <= Len(src)
    BY <1>1, <2>1, AtNul
  <2>3. Start \in Nat \ {0} /\ Start <= Len(src)
    BY <1>1, <2>2, CleanStart
  <2> QED BY <1>1, <2>1, <2>3, AtNul
<1>12. AtText => cur <= Len(src) /\ PastIndent
  <2>1. AtText => Start \in cur..(Len(src) + 1) /\ Start <= Len(src)
    BY <1>1, StartBound DEF AtText
  <2> QED BY <1>1, <2>1 DEF AtText
<1>13. CASE Endl
  <2>1. AtText /\ after_endl' = TRUE /\ last_indent' = last_indent
        /\ need_end_indent' = need_end_indent
    BY <1>13 DEF Endl
  <2>2. need_end_indent = 0 /\ last_indent = d
    BY <1>12, <2>1, AtDepthPast
  <2>3. LineOf(cur') = l + 1 /\ LineStart(cur') = cur' /\ l \in Nat \ {0}
    BY <1>1, <1>13, EndlLine, LineOfType
  <2>4. LineOf(cur') - 1 = l /\ LineOf(cur') # 1
    BY <2>3
  <2> QED BY <1>4, <1>5, <2>1, <2>2, <2>3, <2>4 DEF AtDepth
<1>14. ASSUME NEW n \in Nat, AtText, Read(n), last_indent' = last_indent,
              Start + n <= Len(src) + 1, \A k \in Start..(Start + n - 1) : src[k] # NL
       PROVE  AtDepth'
  <2>1. Start \in cur..Len(src) /\ \A k \in cur..(Start - 1) : src[k] # NL
    BY <1>1, <1>12, <1>14, CleanStart
  <2>2. cur' = Start + n /\ after_endl' = FALSE /\ need_end_indent' = need_end_indent
    BY <1>14 DEF Read
  <2>3. cur' \in cur..(Len(src) + 1) /\ \A k \in cur..(cur' - 1) : src[k] # NL
    BY <1>1, <1>14, <2>1, <2>2
  <2>4. LineOf(cur') = l
    BY <1>1, <2>3, SameLine
  <2>5. need_end_indent = 0 /\ last_indent = d
    BY <1>12, <1>14, AtDepthPast
  <2> QED BY <1>7, <1>14, <2>2, <2>4, <2>5
<1>15. CASE IntTok \/ StringTok \/ SymbolTok \/ IdentTok
  <2>1. PICK kind, len, data : LexemeRead(kind, len, data)
    BY <1>1, <1>15, LexemeStep
  <2>2. /\ AtText /\ Read(len) /\ last_indent' = last_indent
        /\ len \in 1..(Len(src) + 1 - Start)
        /\ \A k \in Start..(Start + len - 1) : src[k] # NL
    BY <2>1 DEF LexemeRead, LexemeText
  <2>3. len \in Nat /\ Start + len <= Len(src) + 1
    <3>1. Start \in cur..(Len(src) + 1)
      BY <1>1, StartBound
    <3> QED BY <1>1, <2>2, <3>1
  <2> QED BY <1>14, <2>2, <2>3
<1>16. CASE UnknownTok
  <2>1. AtText /\ Read(0) /\ last_indent' = last_indent
    BY <1>16 DEF UnknownTok, NotLiteral, AtLexeme
  <2>2. Start + 0 <= Len(src) + 1 /\ Start..(Start + 0 - 1) = {}
    <3>1. Start \in cur..(Len(src) + 1)
      BY <1>1, StartBound
    <3> QED BY <1>1, <3>1
  <2> QED BY <1>14, <2>1, <2>2
<1>17. CASE UNCHANGED vars
  <2>1. cur' = cur /\ UNCHANGED indentVars
    BY <1>17 DEF vars
  <2>2. LineOf(cur)' = l /\ LineStart(cur)' = LineStart(cur) /\ Tabs' = Tabs
    BY <1>5, <2>1 DEF Tabs
  <2> QED BY <1>3, <1>4, <2>1, <2>2 DEF AtDepth, indentVars
<1> QED BY <1>8, <1>9, <1>10, <1>11, <1>13, <1>15, <1>16, <1>17 DEF Next, GetTok

(* The depth of a token stays, and that of the next is the lexer's.        *)
LEMMA DepthKept ==
  ASSUME TypeOK, NEW tok, tokens' = Append(tokens, tok)
  PROVE  /\ \A i \in 1..Len(tokens) : DepthAt(i)' = DepthAt(i)
         /\ tok.kind \in Lexemes =>
              \A i : i = Len(tokens) + 1 =>
                DepthAt(i)' = Cardinality(Opened) - Cardinality(Closed)
<1>1. /\ DOMAIN tokens = 1..Len(tokens) /\ DOMAIN tokens' = 1..(Len(tokens) + 1)
      /\ Len(tokens) \in Nat /\ tokens'[Len(tokens) + 1] = tok
      /\ \A i \in 1..Len(tokens) : tokens'[i] = tokens[i]
  BY AppendAll
<1> DEFINE upto(P, i) == {k \in P : k <= i}
<1>2. ASSUME NEW i \in 1..Len(tokens)
      PROVE  upto(Opened', i) = upto(Opened, i) /\ upto(Closed', i) = upto(Closed, i)
  <2>1. ASSUME NEW k, k <= i PROVE k \in 1..(Len(tokens) + 1) => k \in 1..Len(tokens)
    BY <1>1, <2>1
  <2>2. 1..Len(tokens) \subseteq 1..(Len(tokens) + 1)
    BY <1>1
  <2> QED BY <1>1, <2>1, <2>2 DEF Opened, Closed
<1>3. ASSUME tok.kind \in Lexemes, NEW i, i = Len(tokens) + 1
      PROVE  upto(Opened', i) = Opened /\ upto(Closed', i) = Closed
  <2>1. \A k \in 1..Len(tokens) : k <= i /\ k \in 1..(Len(tokens) + 1) /\ k # i
    BY <1>1, <1>3
  <2>2. \A k \in 1..(Len(tokens) + 1) : k # i => k \in 1..Len(tokens)
    BY <1>1, <1>3
  <2>3. tokens'[i].kind # "BEGIN" /\ tokens'[i].kind # "END"
    BY <1>1, <1>3 DEF Lexemes
  <2> QED BY <1>1, <2>1, <2>2, <2>3 DEF Opened, Closed
<1>4. \A i : DepthAt(i)' = Cardinality(upto(Opened', i)) - Cardinality(upto(Closed', i))
  BY DEF DepthAt
<1>5. \A i : DepthAt(i) = Cardinality(upto(Opened, i)) - Cardinality(upto(Closed, i))
  BY DEF DepthAt
<1> HIDE DEF upto
<1> QED BY <1>2, <1>3, <1>4, <1>5

DepthOK(i) ==
  tokens[i].kind \in Lexemes => DepthAt(i) = LineDepth[LineOf(tokens[i].from)]

LEMMA NextDepths ==
  ASSUME Balanced, Clean, AtDepth, \A i \in DOMAIN tokens : DepthOK(i), [Next]_vars
  PROVE  \A i \in DOMAIN tokens' :
           tokens'[i].kind \in Lexemes =>
             DepthAt(i)' = LineDepth[LineOf(tokens'[i].from)]
<1>1. Typed /\ TypeOK /\ BlocksBalanced /\ Len(src) \in Nat /\ cur \in 1..(Len(src) + 1)
  BY SourcesAssumption DEF Balanced, Typed, TypeOK
<1>2. CASE tokens' = tokens
  <2>1. \A i : DepthAt(i)' = DepthAt(i)
    BY <1>2 DEF DepthAt, Opened, Closed
  <2> QED BY <1>2, <2>1 DEF DepthOK
<1>3. ASSUME NEW tok, tokens' = Append(tokens, tok),
             tok.kind \in Lexemes =>
               \A i : i = Len(tokens) + 1 => DepthAt(i)' = LineDepth[LineOf(tok.from)]
      PROVE  \A i \in DOMAIN tokens' :
               tokens'[i].kind \in Lexemes =>
                 DepthAt(i)' = LineDepth[LineOf(tokens'[i].from)]
  <2>1. /\ DOMAIN tokens = 1..Len(tokens) /\ DOMAIN tokens' = 1..(Len(tokens) + 1)
        /\ Len(tokens) \in Nat /\ tokens'[Len(tokens) + 1] = tok
        /\ \A i \in 1..Len(tokens) : tokens'[i] = tokens[i]
    BY <1>1, <1>3, AppendAll
  <2>2. \A i \in 1..Len(tokens) : DepthAt(i)' = DepthAt(i)
    BY <1>1, <1>3, DepthKept
  <2>3. ASSUME NEW i \in 1..(Len(tokens) + 1), i # Len(tokens) + 1
        PROVE  i \in 1..Len(tokens)
    BY <2>1, <2>3
  <2> QED BY <1>3, <2>1, <2>2, <2>3 DEF DepthOK
<1>4. ASSUME NoLexeme
      PROVE  \A i \in DOMAIN tokens' :
               tokens'[i].kind \in Lexemes =>
                 DepthAt(i)' = LineDepth[LineOf(tokens'[i].from)]
  BY <1>2, <1>3, <1>4 DEF NoLexeme
<1>5. CASE Endl
  <2>1. tokens' = tokens \/ \E tok : tokens' = Append(tokens, tok) /\ tok.kind = "EOL"
    BY <1>1, <1>5, EndlStep
  <2> QED BY <1>2, <1>3, <2>1 DEF Lexemes
<1>6. ASSUME NEW kind, NEW len, NEW data, LexemeRead(kind, len, data)
      PROVE  \A i \in DOMAIN tokens' :
               tokens'[i].kind \in Lexemes =>
                 DepthAt(i)' = LineDepth[LineOf(tokens'[i].from)]
  <2> DEFINE tok == Tok(kind, Start, len, column + (Start - cur), data)
  <2>1. tokens' = Append(tokens, tok) /\ AtText /\ kind \in Lexemes
    BY <1>6 DEF LexemeRead, LexemeText
  <2>2. tok.kind = kind /\ tok.from = Start
    BY DEF Tok
  <2> HIDE DEF tok
  <2>3. PastIndent /\ cur <= Len(src)
    <3>1. Start \in cur..(Len(src) + 1) /\ Start <= Len(src)
      BY <1>1, <2>1, StartBound DEF AtText
    <3> QED BY <1>1, <2>1, <3>1 DEF AtText
  <2>4. last_indent = LineDepth[LineOf(cur)]
    BY <1>1, <2>3, AtDepthPast
  <2>5. LineOf(Start) = LineOf(cur)
    <3>1. Start \in cur..(Len(src) + 1) /\ \A k \in cur..(Start - 1) : src[k] # NL
      BY <1>1, <2>3, CleanStart
    <3> QED BY <1>1, <3>1, SameLine
  <2>6. last_indent = Cardinality(Opened) - Cardinality(Closed)
    <3>1. /\ Cardinality(Opened) \in Nat /\ Cardinality(Closed) \in Nat
          /\ last_indent \in Nat
      <4>1. tokens \in Seq(TokenType) /\ last_indent \in Nat
        BY <1>1 DEF TypeOK, TokenType
      <4>2. Opened \in SUBSET DOMAIN tokens /\ Closed \in SUBSET DOMAIN tokens
        BY DEF Opened, Closed
      <4> QED BY <4>1, <4>2, CountAppend
    <3>2. Cardinality(Opened) = Cardinality(Closed) + last_indent
      BY <1>1 DEF BlocksBalanced
    <3>3. \A a, b, c \in Nat : a = b + c => c = a - b
      OBVIOUS
    <3> QED BY <3>1, <3>2, <3>3
  <2>7. \A i : i = Len(tokens) + 1 => DepthAt(i)' = LineDepth[LineOf(tok.from)]
    BY <1>1, <2>1, <2>2, <2>4, <2>5, <2>6, DepthKept
  <2> QED BY <1>3, <2>1, <2>7
<1>7. CASE UNCHANGED vars
  BY <1>2, <1>7 DEF vars
<1>8. CASE Next
  BY <1>1, <1>4, <1>5, <1>6, <1>8, NextKinds
<1> QED BY <1>7, <1>8

(* In a source without trailing blanks BEGIN and END put every token of    *)
(* the text at the depth that the tabs of its line ask for, given those of *)
(* the lines before.                                                       *)
THEOREM IndentIsFollowed == Spec => []IndentFollowsSource
<1> DEFINE Inv == (Clean => AtDepth) /\ IndentFollowsSource
<1>1. Init => Balanced /\ Inv
  <2> SUFFICES ASSUME Init PROVE AtDepth /\ IndentFollowsSource /\ Balanced
    OBVIOUS
  <2>1. /\ TypeOK /\ cur = 1 /\ need_end_indent = 0 /\ after_endl = FALSE
        /\ last_indent = 0 /\ tokens = <<>>
    BY InitTyped DEF Typed, Init
  <2>2. 1 \in 1..(Len(src) + 1)
    BY <2>1, SourcesAssumption DEF TypeOK
  <2>3. LineOf(1) = 1 /\ LineStart(1) = 1
    BY <2>1, <2>2, LineOfType
  <2>4. LineDepth[1] = 0
    BY <2>1, <2>2, <2>3, DepthAtStart
  <2>5. AtDepth
    BY <2>1, <2>3, <2>4 DEF AtDepth
  <2> QED BY <2>1, <2>5, InitTyped, InitBalanced DEF Balanced, IndentFollowsSource
<1>2. Balanced /\ Inv /\ [Next]_vars => Balanced' /\ Inv'
  <2> SUFFICES ASSUME Balanced, Inv, [Next]_vars PROVE Balanced' /\ Inv'
    OBVIOUS
  <2>1. Balanced'
    BY NextTyped, NextBalanced DEF Balanced
  <2>2. src' = src
    BY NextKinds DEF Balanced, Typed, vars
  <2>3. Clean' = Clean /\ LineDepth' = LineDepth
    BY <2>2, TextSame
  <2>4. Clean => AtDepth'
    BY NextAtDepth DEF Balanced
  <2>5. ASSUME Clean PROVE IndentFollowsSource'
    <3>1. \A i \in DOMAIN tokens : DepthOK(i)
      BY <2>5 DEF IndentFollowsSource, DepthOK
    <3>2. \A i \in DOMAIN tokens' : tokens'[i].kind \in Lexemes =>
            DepthAt(i)' = LineDepth[LineOf(tokens'[i].from)]
      BY <2>5, <3>1, NextDepths
    <3>3. \A i \in DOMAIN tokens' : LineOf(tokens[i].from)' = LineOf(tokens'[i].from)
      BY <2>2 DEF LineOf, NewlinesBefore
    <3> QED BY <2>3, <3>2, <3>3 DEF IndentFollowsSource
  <2>6. ~Clean => IndentFollowsSource'
    BY <2>3 DEF IndentFollowsSource
  <2> QED BY <2>1, <2>3, <2>4, <2>5, <2>6
<1>3. Inv => IndentFollowsSource
  OBVIOUS
<1> HIDE DEF Inv
<1> QED BY <1>1, <1>2, <1>3, PTL DEF Spec
=============================================================================
