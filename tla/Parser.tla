------------------------------- MODULE Parser -------------------------------
(***************************************************************************)
(* The parser of statements and declarations (src/parser/parser.c, stmt.c, *)
(* fn.c, if.c, while.c, let.c, return.c, module.c) with its scopes         *)
(* (scope.c) and who frees what it builds (free_* in src/).  A step is a   *)
(* parse_* function; those that parse a block of statements, which may     *)
(* hold more of them, are split where they call parse_stmt_block.          *)
(*                                                                         *)
(* Abstracted: the tokens inside a statement, so a step may find them well *)
(* formed or not; of its expressions, the name that is looked up.  Line    *)
(* ends between statements are skipped (skip_white_tok and its like).      *)
(***************************************************************************)
EXTENDS Bodies, FiniteSets

CONSTANTS
  Names,           \* identifiers
  Signatures,      \* the names of the arguments of a function, in order
  MaxStatements,   \* bound on the statements of a file
  MaxToplevel,     \* bound on the top-level statements of a file
  MaxDepth         \* bound on the levels of indentation

ASSUME SignaturesAssumption == Signatures \subseteq Seq(Names)

VARIABLES
  ahead,    \* the next token that is not EOL: one of Tokens
  depth,    \* blocks the lexer has opened and not closed
  tail,     \* whether the tokens end with an EOL (not after a trailing blank)
  pc,       \* where parse_file and its callees are
  calls,    \* the calls of parse_stmt_block in progress, outermost first
  body,     \* the statements of the function being parsed, as in Bodies
  level,    \* the depth that each was read at
  fn,       \* the function: what its declaration reaches, if it has a type
  scopes,   \* parser->cur_scope, the last, and its parents
  public,   \* what the identifiers of mod->scope reach
  stmts,    \* stmts of parse_file: what free_toplevel_stmt reaches from each
  live,     \* allocated and not freed
  again     \* freed, and freed again

lexVars == <<ahead, depth, tail>>
bodyVars == <<calls, body, level, fn>>
heapVars == <<live, again>>
vars == <<lexVars, pc, bodyVars, scopes, public, stmts, heapVars>>

\* "stmt" is any token but INDENT_BLOCK_BEGIN and INDENT_BLOCK_END; "none"
\* that there is no token left.
Tokens == {"stmt", "BEGIN", "END", "none"}

-----------------------------------------------------------------------------
(* What is allocated, each named for the top-level statement and the       *)
(* statement in its body that it was allocated for.                        *)

Object(role, name, top, i) == [role |-> role, name |-> name, top |-> top, stmt |-> i]
Toplevel(t) == Object("toplevel", "", t, 0)     \* with its declaration, definition
Function(name, t) == Object("function", name, t, 0)
Argument(name, t, k) == Object("argument", name, t, k)
Local(name, t, i) == Object("local", name, t, i)
Statement(t, i) == Object("statement", "", t, i)
Scope(t) == Object("scope", "", t, 0)
Module == Object("module", "", 0, 0)            \* create_module
ModScope == Object("modscope", "", 0, 0)        \* mod->scope and its list
ImportName(t) == Object("importname", "", t, 0)
Imported(t) == Object("imported", "", t, 0)     \* a module, with all that it reaches

\* A step allocates some objects and then frees some.
Heap(allocated, freed) ==
  /\ live' = (live \cup allocated) \ freed
  /\ again' = again \cup (freed \ (live \cup allocated))

Top == Len(stmts) + 1         \* the top-level statement being parsed
Here == Len(body) + 1         \* the statement about to be parsed

-----------------------------------------------------------------------------
(* Scopes (scope.c).                                                       *)

EnterScope(chain, idents) == Append(chain, idents)
ExitScope(chain) == SubSeq(chain, 1, Len(chain) - 1)

Bindings(name, scope) == {k \in DOMAIN scope : scope[k].name = name}
Scopes(name, chain) == {s \in DOMAIN chain : Bindings(name, chain[s]) # {}}
NotFound == Object("none", "", 0, 0)

\* Mutant: the last binding of a scope.
FindLast(name, chain) ==
  IF Scopes(name, chain) = {} THEN NotFound
  ELSE LET s == CHOOSE s \in Scopes(name, chain) :
                  \A r \in Scopes(name, chain) : r <= s
           k == CHOOSE k \in Bindings(name, chain[s]) :
                  \A l \in Bindings(name, chain[s]) : l <= k
       IN  chain[s][k]

\* find_ident_in_scope: the first binding of the innermost scope with one.
Find(name, chain) ==
  IF Scopes(name, chain) = {} THEN NotFound
  ELSE LET s == CHOOSE s \in Scopes(name, chain) :
                  \A r \in Scopes(name, chain) : r <= s
           k == CHOOSE k \in Bindings(name, chain[s]) :
                  \A l \in Bindings(name, chain[s]) : k <= l
       IN  chain[s][k]

-----------------------------------------------------------------------------
(* Tokens between statements, as sclexer.h emits them: every block that is *)
(* opened is closed before the end.                                        *)

Advance(d) ==
  /\ depth' = d
  /\ ahead' \in Tokens
  /\ ahead' = "BEGIN" => d < MaxDepth
  /\ ahead' = "END" => d > 0
  /\ ahead' = "none" => d = 0
  /\ UNCHANGED tail

\* peek_tok and peek_tok_skip_white find a token once a line is parsed.
EolAhead == ahead' = "none" => tail
TokenAhead == ahead' # "none"

Init ==
  /\ ahead \in {"stmt", "none"}
  /\ depth = 0
  /\ tail \in BOOLEAN
  /\ pc = "file"
  /\ calls = <<>> /\ body = <<>> /\ level = <<>>
  /\ fn = [owns |-> {}, typed |-> FALSE]
  /\ scopes = EnterScope(<<>>, <<>>)
  /\ public = {}
  /\ stmts = <<>>
  /\ live = {Scope(0), Module, ModScope} /\ again = {}

-----------------------------------------------------------------------------
(* Top-level statements.                                                   *)

AtToplevel == pc = "file" /\ ahead = "stmt" /\ Len(stmts) < MaxToplevel

\* parse_module_import.  The imported file has a parser of its own, which
\* returns its module or, unnoticed, none.
ModuleImport ==
  /\ AtToplevel
  /\ Advance(0) /\ TokenAhead
  /\ stmts' = Append(stmts, {Toplevel(Top)})
  /\ \E returned \in {{}, {Imported(Top)}} :
       Heap({Toplevel(Top), ImportName(Top)} \cup returned, {})
  /\ UNCHANGED <<pc, bodyVars, scopes, public>>

\* parse_module_import misses the '=' or the path.
ImportUnexpected ==
  /\ AtToplevel
  /\ Heap({Toplevel(Top), ImportName(Top)}, {Toplevel(Top)})
  /\ pc' = "failed"
  /\ UNCHANGED <<lexVars, bodyVars, scopes, public, stmts>>

\* parse_fn_declaration, and what is appended where.
ArgumentsOf(names, t) == [k \in DOMAIN names |-> Argument(names[k], t, k)]
Reached(name, names) ==
  {Function(name, Top)} \cup {Argument(names[k], Top, k) : k \in DOMAIN names}
Owned(name, names, pub) ==
  {Toplevel(Top)} \cup (IF pub THEN {} ELSE Reached(name, names))
Declared(name, pub) ==
  IF pub THEN scopes ELSE <<Append(scopes[1], Function(name, Top))>>
Publish(name, names, pub) ==
  public' = public \cup (IF pub THEN Reached(name, names) ELSE {})

\* parse_fn_definition without a body
FnDeclaration(name, names, pub) ==
  /\ AtToplevel
  /\ Advance(0) /\ EolAhead
  /\ scopes' = ExitScope(EnterScope(Declared(name, pub), ArgumentsOf(names, Top)))
  /\ Publish(name, names, pub)
  /\ stmts' = Append(stmts, Owned(name, names, pub))
  /\ Heap({Toplevel(Top), Scope(Top)} \cup Reached(name, names), {Scope(Top)})
  /\ UNCHANGED <<pc, bodyVars>>

\* parse_fn_definition up to the block of its body.  A type that does not
\* parse is not noticed after a keyword (parse_fn_sign): typed is FALSE.
FnDefinition(name, names, pub) ==
  /\ AtToplevel
  /\ Advance(0)
  /\ scopes' = EnterScope(Declared(name, pub), ArgumentsOf(names, Top))
  /\ Publish(name, names, pub)
  /\ \E typed \in BOOLEAN : fn' = [owns |-> Owned(name, names, pub), typed |-> typed]
  /\ calls' = <<[stmt |-> 0, owns |-> {}]>>
  /\ body' = <<>> /\ level' = <<>>
  /\ pc' = "open"
  /\ Heap({Toplevel(Top), Scope(Top)} \cup Reached(name, names), {})
  /\ UNCHANGED stmts

\* Mutant: parse_file goes on after an error.
FnUnexpectedGoesOn(name, names, pub) ==
  /\ AtToplevel
  /\ Advance(0)
  /\ scopes' = Declared(name, pub)
  /\ Publish(name, names, pub)
  /\ Heap({Toplevel(Top), Scope(Top)} \cup Reached(name, names),
          {Scope(Top)} \cup Owned(name, names, pub))
  /\ UNCHANGED <<pc, bodyVars, stmts>>

\* parse_fn_definition finds neither '=' nor the end of the line: all of it
\* is freed, and a private function stays in the scope of the file.
FnUnexpected(name, names, pub) ==
  /\ AtToplevel
  /\ scopes' = ExitScope(EnterScope(Declared(name, pub), ArgumentsOf(names, Top)))
  /\ Publish(name, names, pub)
  /\ Heap({Toplevel(Top), Scope(Top)} \cup Reached(name, names),
          {Scope(Top)} \cup Owned(name, names, pub))
  /\ pc' = "failed"
  /\ UNCHANGED <<lexVars, bodyVars, stmts>>

\* parse_fn_definition without a declaration: parse_ident_sign failed, and
\* parse_fn_sign may have lost the arguments that it had.
FnUndeclared(names) ==
  /\ AtToplevel
  /\ scopes' = EnterScope(scopes, <<>>)
  /\ Heap({Scope(Top)} \cup {Argument(names[k], Top, k) : k \in DOMAIN names}, {})
  /\ pc' = "failed"
  /\ UNCHANGED <<lexVars, bodyVars, public, stmts>>

\* Any other token or keyword, and an import without a name.
Unexpected ==
  /\ pc = "file"
  /\ ahead # "none"
  /\ pc' = "failed"
  /\ UNCHANGED <<lexVars, bodyVars, scopes, public, stmts, heapVars>>

-----------------------------------------------------------------------------
(* Blocks (parse_stmt_block) and the statements in them.                   *)

Frame == calls[Len(calls)]
Callers == SubSeq(calls, 1, Len(calls) - 1)
Keeps(frames, objects) ==
  [frames EXCEPT ![Len(frames)].owns = @ \cup objects]

BlockBegin ==
  /\ pc = "open"
  /\ ahead = "BEGIN"
  /\ Advance(depth + 1)
  /\ pc' = "block"
  /\ UNCHANGED <<bodyVars, scopes, public, stmts, heapVars>>

BlockNotBegun ==
  /\ pc = "open"
  /\ ahead \in {"stmt", "END"}
  /\ pc' = "unwind"
  /\ UNCHANGED <<lexVars, bodyVars, scopes, public, stmts, heapVars>>

StatementsLive == {o \in live : o.role = "statement"}
AtStatement ==
  pc = "block" /\ ahead = "stmt" /\ Cardinality(StatementsLive) < MaxStatements

Parsed(kind) ==
  /\ body' = Append(body, [kind |-> kind, last |-> Here])
  /\ level' = Append(level, depth)
  /\ UNCHANGED fn

\* parse_expr_stmt of an expression over name
ExprStmt(name) ==
  /\ AtStatement
  /\ Find(name, scopes) # NotFound
  /\ Advance(depth)
  /\ Parsed("simple")
  /\ calls' = Keeps(calls, {Statement(Top, Here)})
  /\ Heap({Statement(Top, Here)}, {})
  /\ UNCHANGED <<pc, scopes, public, stmts>>

\* parse_return_stmt
ReturnStmt ==
  /\ AtStatement
  /\ fn.typed
  /\ Advance(depth)
  /\ Parsed("return")
  /\ calls' = Keeps(calls, {Statement(Top, Here)})
  /\ Heap({Statement(Top, Here)}, {})
  /\ UNCHANGED <<pc, scopes, public, stmts>>

\* parse_let_stmt
LetStmt(name) ==
  LET local == Local(name, Top, Here)
  IN  /\ AtStatement
      /\ Advance(depth)
      /\ Parsed("simple")
      /\ scopes' = [scopes EXCEPT ![Len(scopes)] = Append(@, local)]
      /\ calls' = Keeps(calls, {Statement(Top, Here), local})
      /\ Heap({Statement(Top, Here), local}, {})
      /\ UNCHANGED <<pc, public, stmts>>

\* parse_if_stmt and parse_while_stmt, up to the block
Header(kind) ==
  /\ AtStatement
  /\ Advance(depth)
  /\ Parsed(kind)
  /\ calls' = Append(calls, [stmt |-> Here, owns |-> {}])
  /\ pc' = "open"
  /\ Heap({Statement(Top, Here)}, {})
  /\ UNCHANGED <<scopes, public, stmts>>

\* parse_stmt returns NULL, having freed what it built: an operand that is
\* not found, a token out of place, an error of the analysis; also in a line
\* that is indented where no block is due.
BadStmt ==
  /\ pc = "block"
  /\ ahead \in {"stmt", "BEGIN"}
  /\ pc' = "unwind"
  /\ UNCHANGED <<lexVars, bodyVars, scopes, public, stmts, heapVars>>

\* Mutant: the INDENT_BLOCK_END is peeked at and not eaten.
BlockEndUneaten ==
  /\ pc = "block"
  /\ ahead = "END"
  /\ Len(calls) > 1
  /\ body' = [body EXCEPT ![Frame.stmt].last = Len(body)]
  /\ calls' = Keeps(Callers, {Statement(Top, Frame.stmt)} \cup Frame.owns)
  /\ UNCHANGED <<lexVars, pc, level, fn, scopes, public, stmts, heapVars>>

\* The end of the block of an if or a while, which is then complete.
BlockEnd ==
  /\ pc = "block"
  /\ ahead = "END"
  /\ Len(calls) > 1
  /\ Advance(depth - 1)
  /\ body' = [body EXCEPT ![Frame.stmt].last = Len(body)]
  /\ calls' = Keeps(Callers, {Statement(Top, Frame.stmt)} \cup Frame.owns)
  /\ UNCHANGED <<pc, level, fn, scopes, public, stmts, heapVars>>

\* Mutant: the INDENT_BLOCK_END is eaten twice.
FnEndTwice ==
  /\ pc = "block"
  /\ ahead = "END"
  /\ Len(calls) = 1
  /\ Advance(depth - 2)
  /\ calls' = <<>> /\ body' = <<>> /\ level' = <<>>
  /\ scopes' = ExitScope(scopes)
  /\ stmts' = Append(stmts, fn.owns \cup Frame.owns)
  /\ pc' = "file"
  /\ Heap({}, {Scope(Top)})
  /\ UNCHANGED <<fn, public>>

\* The end of the body of the function, and of parse_fn_definition.
FnEnd ==
  /\ pc = "block"
  /\ ahead = "END"
  /\ Len(calls) = 1
  /\ Advance(depth - 1) /\ EolAhead
  /\ calls' = <<>> /\ body' = <<>> /\ level' = <<>>
  /\ scopes' = ExitScope(scopes)
  /\ stmts' = Append(stmts, fn.owns \cup Frame.owns)
  /\ pc' = "file"
  /\ Heap({}, {Scope(Top)})
  /\ UNCHANGED <<fn, public>>

\* An error goes up: parse_stmt_block loses the statements it had, the if or
\* while around it is freed without them.
Unwind ==
  /\ pc = "unwind"
  /\ Len(calls) > 1
  /\ calls' = Callers
  /\ Heap({}, {Statement(Top, Frame.stmt)})
  /\ UNCHANGED <<lexVars, pc, body, level, fn, scopes, public, stmts>>

\* Mutant: a function that is public is freed here, and again with its module.
FnUnwindPublic ==
  /\ pc = "unwind"
  /\ Len(calls) = 1
  /\ calls' = <<>>
  /\ scopes' = ExitScope(scopes)
  /\ pc' = "failed"
  /\ Heap({}, fn.owns \cup public \cup {Scope(Top)})
  /\ UNCHANGED <<lexVars, body, level, fn, public, stmts>>

\* parse_fn_body and parse_fn_definition on an error
FnUnwind ==
  /\ pc = "unwind"
  /\ Len(calls) = 1
  /\ calls' = <<>>
  /\ scopes' = ExitScope(scopes)
  /\ pc' = "failed"
  /\ Heap({}, fn.owns \cup {Scope(Top)})
  /\ UNCHANGED <<lexVars, body, level, fn, public, stmts>>

\* A token that is not there, a condition or a type that did not parse, is
\* read all the same, or an assert on a token fails.
Crash ==
  /\ \/ pc \in {"file", "block"} /\ ahead = "stmt"
     \/ pc = "open" /\ ahead = "none"
     \/ pc = "block" /\ ahead = "END" /\ Len(calls) = 1 /\ depth = 1 /\ ~tail
  /\ pc' = "crashed"
  /\ UNCHANGED <<lexVars, bodyVars, scopes, public, stmts, heapVars>>

-----------------------------------------------------------------------------
(* The end of parse_file, and of main.                                     *)

\* compile_file and cache_file read the statements; compile_file may fail.
FileParsed ==
  /\ pc = "file"
  /\ ahead = "none"
  /\ pc' \in {"compiled", "failed"}
  /\ UNCHANGED <<lexVars, bodyVars, scopes, public, stmts, heapVars>>

Current == IF Len(scopes) = 1 THEN Scope(0) ELSE Scope(Top)

\* What is freed at the end and in which order: parse_file leaves its scope
\* and frees every statement; then main, or err_free_all on an error, frees the
\* module with the public identifiers, and parse_module_import frees nothing.
Freed(module) == <<{Current}>> \o stmts \o <<module>>
Released(module) == UNION {Freed(module)[k] : k \in DOMAIN Freed(module)}
ReleasedTwice(module) ==
  {o \in Released(module) : \E k, l \in DOMAIN Freed(module) :
     k < l /\ o \in Freed(module)[k] /\ o \in Freed(module)[l]}
Release(module) ==
  /\ live' = live \ Released(module)
  /\ again' = again \cup (Released(module) \ live) \cup ReleasedTwice(module)

TheModule == public \cup {Module}

FileEnd ==
  /\ pc = "compiled"
  /\ pc' = "done"
  /\ scopes' = ExitScope(scopes)
  /\ Release(TheModule)
  /\ UNCHANGED <<lexVars, bodyVars, public, stmts>>

FileImported ==
  /\ pc = "compiled"
  /\ pc' = "imported"
  /\ scopes' = ExitScope(scopes)
  /\ Release({})
  /\ UNCHANGED <<lexVars, bodyVars, public, stmts>>

FileRejected ==
  /\ pc = "failed"
  /\ pc' = "rejected"
  /\ scopes' = ExitScope(scopes)
  /\ Release(TheModule)
  /\ UNCHANGED <<lexVars, bodyVars, public, stmts>>

ParseToplevel ==
  \/ ModuleImport
  \/ \E name \in Names, names \in Signatures, pub \in BOOLEAN :
       \/ FnDeclaration(name, names, pub)
       \/ FnDefinition(name, names, pub)
       \/ FnUnexpected(name, names, pub)
  \/ \E names \in Signatures : FnUndeclared(names)
  \/ ImportUnexpected \/ Unexpected

ParseBlock ==
  \/ BlockBegin \/ BlockNotBegun
  \/ \E name \in Names : ExprStmt(name) \/ LetStmt(name)
  \/ ReturnStmt
  \/ \E kind \in {"if", "while"} : Header(kind)
  \/ BadStmt
  \/ BlockEnd \/ FnEnd
  \/ Unwind \/ FnUnwind

Next ==
  \/ ParseToplevel \/ ParseBlock \/ Crash
  \/ FileParsed \/ FileEnd \/ FileImported \/ FileRejected

Spec == Init /\ [][Next]_vars

-----------------------------------------------------------------------------
(* Properties.                                                             *)

Places == {"file", "open", "block", "unwind", "failed", "compiled",
           "done", "imported", "rejected", "crashed"}
Roles == {"toplevel", "function", "argument", "local", "statement", "scope",
          "module", "modscope", "importname", "imported"}
Objects == [role : Roles, name : Names \cup {""}, top : Nat, stmt : Nat]

\* The variables have their types, and there is a function in progress
\* whenever there are calls.
TypeOK ==
  /\ ahead \in Tokens /\ depth \in Nat /\ tail \in BOOLEAN
  /\ pc \in Places
  /\ calls \in Seq([stmt : Nat, owns : SUBSET Objects])
  /\ body \in Seq([kind : Kinds, last : Nat])
  /\ level \in Seq(Nat)
  /\ fn \in [owns : SUBSET Objects, typed : BOOLEAN]
  /\ scopes \in Seq(Seq(Objects))
  /\ public \subseteq Objects
  /\ stmts \in Seq(SUBSET Objects)
  /\ live \subseteq Objects /\ again \subseteq Objects

Open == {calls[k].stmt : k \in DOMAIN calls}
LastSoFar(i) == IF i \in Open THEN Len(body) ELSE body[i].last
BodySoFar == [i \in DOMAIN body |-> [kind |-> body[i].kind, last |-> LastSoFar(i)]]

\* What parse_stmt_block, called by itself through parse_if_stmt and
\* parse_while_stmt, makes of the lexer's block tokens: a body that
\* the code generator can walk, in which the block of a statement is exactly
\* the run of lines below it that are indented deeper.
NestsAsIndented ==
  /\ pc \in {"open", "block"} =>
       /\ IsProgram(BodySoFar)
       /\ \A i, j \in DOMAIN body :
            i < j => (j <= LastSoFar(i) <=> \A k \in (i + 1)..j : level[k] > level[i])
  /\ pc = "file" => depth = 0

\* Whatever a name may be looked up as has not been freed, as long as
\* anything may still be parsed or compiled: every error path that frees an
\* identifier it has bound (parse_fn_definition) ends the file.
LookupSafe ==
  pc \in {"file", "open", "block", "compiled"} =>
    \A s \in DOMAIN scopes : \A k \in DOMAIN scopes[s] : scopes[s][k] \in live

\* What the code loses and nobody frees: free_module frees neither mod->scope
\* nor its list, free_module_import neither the name nor the module imported.
Lost == {"modscope", "importname", "imported"}

\* Nothing is freed twice, and of what is modelled nothing but this is left.
\* After main: what is Lost.  After parse_file for an import: that, and the
\* module that it returns, alive with its public identifiers (and never freed:
\* it is Imported of the importer).  After an error: what is Lost, with
\* statements of the function it was in (Unwind), or the arguments of one
\* without a type and then the scope of the file (FnUndeclared).
FreedOnce ==
  /\ again = {}
  /\ pc = "done" => \A o \in live : o.role \in Lost
  /\ pc = "imported" =>
       /\ TheModule \subseteq live
       /\ \A o \in live : o.role \in Lost \/ o \in TheModule
  /\ pc = "rejected" =>
       \A o \in live :
         \/ o.role \in Lost
         \/ o.role \in {"statement", "local"} /\ o.top = Top
         \/ o.role = "argument" /\ o.top = Top /\ body = <<>>
         \/ o = Scope(0) /\ body = <<>>

\* A name that means an argument or a local goes on meaning it to the end of
\* the function: a later let of that name, in whatever block, is bound and
\* never found (find_ident_in_scope; blocks have no scope).
Within(name) == Len(scopes) = 2 /\ Bindings(name, scopes[2]) # {}
BindingsStable ==
  [][\A name \in Names :
       Within(name) /\ Len(scopes') = 2 => Find(name, scopes') = Find(name, scopes)]_vars
=============================================================================
