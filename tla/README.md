# czakoc in TLA+

czakoc compiles *zako*, a small language with indented blocks, to assembly through the
backend library libmcb. It is a batch program of one thread: it is run on an entry file,
follows the file's imports, outputs assembly (or IR, an AST, tokens) for every file on the
way, and may leave in a cache directory a *stub* of each file, the signatures of its public
functions, that later runs parse in place of the file.

This directory holds models of it for TLC, and proofs about them for TLAPS. Paths below
are relative to `src/src/`.

## The system

| component | state it keeps | operations | called by |
|---|---|---|---|
| lexer (`parser/sclexer.h`, `lexer.c`) | position, line and column, `_after_endl`, `_last_indent`, `_need_end_indent`; the token array and its capacity | `sclexer_get_tok`, `sclexer_get_tokens` | `parse_file`, once per file, before parsing starts |
| statement and declaration parser (`parser/{stmt,fn,let,if,while,return,type,ident}.c`) | `cur_tok`, the statement lists of the open blocks | `parse_toplevel_stmt`, `parse_stmt`, `parse_stmt_block`, one function per statement | `parse_file` |
| expression parser (`parser/expr.c`, `parser/value.c`) | the tree built so far in each nested call | `parse_expr`, `parse_cmp_expr`, `merge_expr`, `parse_value` | the statement parser; itself, through parentheses |
| scopes (`parser/scope.c`, `scope.c`) | a chain of lists of identifiers per file, and one list per module | `enter_scope`, `exit_scope`, `find_ident_in_scope` | both parsers |
| semantic analysis (`semantics/`) | the `type` of each value and expression | `analyse_expr`, `analyse_cmp_expr`, `analyse_expr_stmt`, `compare_builtin_type` | the statement parser, on each expression |
| code generation (`compiler/`) | the mcb context of the file, the current function, the `value` of each identifier, `mcb_fn` of each function | `compile_file` and one function per statement, expression and value | `parse_file`, when the whole file is parsed |
| driver and cache (`main.c`, `parser/parser.c`, `parser/module.c`, `parser/cache.c`) | flags; the recursion of `parse_file`; the stubs on disk | `main`, `parse_file`, `parse_module_import`, `has_cache`, `cache_file` | the user; itself, for imports |
| ownership (`{stmt,expr,value,fn,type,...}.c`) | who frees which node | `free_*` | error paths, the end of `parse_file` |
| AST output (`jim2.c`, `print_*`) | a stack of JSON scopes | `jim_*` | `parse_file` with `--output-ast` |
| command line (`getarg.h`, `main.c`) | the remaining arguments | `getarg` | `main` |
| helpers (`str.h`, `darr.h`, `ealloc.h`, `err.h`, `die.c`, `mkdirp.c`) | none | strings, growing arrays, messages | everything |

What is hard in it is not concurrency within a run, for there is none. It is

- *state carried between calls* of the lexer: a line indented less than its block owes
  several block ends, which later calls emit one at a time, each counting the same tabs again;
- *trees rewired in place*: after each operator `merge_expr` moves pointers, looking at
  the root alone;
- *what runs leave to one another*: stubs are trusted by their modification time, in whole
  seconds, while a source may be edited, and a run may be killed, between any two steps;
- *recursion over imports*, with diamonds, cycles and failures of a file in the middle;
- *ends*: of a line, of the source, of the tokens, each of which some caller does not check.

`PROJECT.json` lists these hazards at their lines.

What makes the components correct, in short: the lexer closes what it opens and puts every
token where the source has it; an expression is parsed into the tree its operators mean, and
no node has two owners; a name resolves to the binding in force; what the analysis accepts
the generator compiles; labels and jumps of the generated code run the statements the source
nests; a stub that is trusted is the source's, and a run that reports success has output its
entry file after everything it refers to.

## Modules

`Sclexer` — the lexer. A source is a sequence of characters; `cur`, `after_endl`,
`last_indent`, `need_end_indent`, `line` and `column` are the fields of `struct sclexer`, and
`tokens` and `capacity` the locals of `sclexer_get_tokens`. One action is one way a call of
`sclexer_get_tok` can end, together with the storing of its token in the loop around it
(`Store`: the EOL dropped after an EOL, the array grown). `IndentBlockEnd` and
`IndentBlockBegin` are `_sclexer_try_indent`; `EolAtNul` and `StopAtNul` the handling of the
end of the source; `EofBlockEnd` and `EofStop` are `_sclexer_do_eof`; `Endl` is a newline or a
comment; then one action per kind of token, in the code's order of precedence, and
`UnknownTok` for the exit on a character that starts none. The table of symbols is a
constant, and the longest match among possibly cut-off symbols is modelled as the code does
it. Left out: the value of an integer literal, the file name in a location.

`MCSclexer` — the sources, symbols, keywords and comment openers of the runs.

`SclexerProofs` — its theorems.

`Expr` — the expression parser. A call of `parse_expr_with_mode` is a *group*: the operands
and operators it has read, and for each operator what its `lhs` and `rhs` point to; `root` is
the variable `expr`. `merge_expr` moves pointers within one group only, and so do
`MergeOver` and `MergeUnder`. `stack` holds the calls in progress, `pc` where
the innermost one is. A value that is made of values is a group too, of operands only
(`Composite`): the arguments of a call, the index of an array element, the elements of a list,
the name behind the dot of a module. The tokens are chosen one at a time as the parser peeks at
them, so a behaviour is a source together with its parse. The actions follow the code: `Operand`,
`OpenParen`, `OpenList`, `Call`, `Module`, `ArrName` and `NoOperand` are the ways into `parse_value`;
`Index` and `NoIndex` what follows the name of an array; `SkipWhite` and `Dot` a qualified name;
`SkipToComma`, `Comma` and `EndValue` are `peek_fn_call_end`; `ListElem` and `ListComma` the loop of
`parse_elem_init_value`; `Close` and `NotClosed` the closing token of a parenthesis, an index or a
list; `FailFirst` and `FailLater` what becomes of a NULL; `SkipEol`, `Operator` and `NoOperator` are
`peek_expr_op`; `NullToken` is the dereference of NULL at the end of the tokens. What a name is
bound to is in its token (`name`, `arr`, `fn`, `module`), and what `peek_tok_skip_white` finds beyond
the end of a line in the EOL's (`EOL`, `EOL_comma`, `EOL_end`). `crossed` is history: the operands of
the outermost group within which the end of a line was eaten outside parentheses. A type is one token.

`MCExpr` — the tokens of its runs: a source is written with the kinds of operators and parentheses or with those
that values are made of, for all together would be too many for TLC. `ExprProofs` — its theorems.

`Build` — the driver, the cache and the output, over several runs. `src` and `stub` are the
file system; `stack` the calls of `parse_file`, each with its program counter and its locals;
`flags` those of the run; `out` what it has written. `Check`, `Read`, `Import`, `Reject`,
`Compile`, `CacheOpen`, `CacheClose` and `Return` are the steps of `parse_file` in their order,
split where another process can come between: the `stat` of the stub and the reading of
the file, the `fopen` that truncates a stub and the `fclose` that fills it. `Edit`, `Tick` and
`Kill` surround them. A source is reduced to what the driver can tell of it: its imports,
which of them are used, whether the parser or the code generator finds an error in it (`error`: with
`--output-ast` no code is generated, and a file with an error of the second kind is accepted and
cached), and whether it has functions, public ones, or a public declaration that ends at its end of line. `StubContent(StubText(c))` is what a source
becomes through its stub, with the last character of each signature gone as in
`cache_fn_declaration`; a stub with nothing to write keeps the mtime of its `fopen`. `built` and
`shown` are history. One run is in progress at a time: two that overlap are not modelled.

`MCBuild` — a diamond of imports, a pair that can become a cycle, and a single file.
`BuildProofs` — the theorems.

`Bodies` — the body of a function as a constant: its statements in the order of the source,
each with the last statement of its block; what follows a statement, and where a block
begins.

`Structured` — the abstract specification: the statements of a body run in the nesting in
which they are written. One step is one statement, or one outcome of a condition.

`Codegen` — the control flow of generated code. The generator's actions are the functions
under `compiler/`: `SimpleStmt` (`compile_expr_stmt`, `compile_let_stmt`), `ReturnStmt`, and the two
halves of `compile_if_stmt` and of `compile_while_stmt`, before and after the loop over their
statements; `open` is the stack of those calls, `gen` the next statement, `code` the instructions
of `ctx->fn`. A label is its C variable and its statement. `Output` ends the generation and
`Run*` execute the instructions by the meaning their libmcb names give them (external: libmcb
is not in the repository). A condition has either outcome, a simple statement is one
instruction. `StatementAt` is the refinement mapping to `Structured`: a label that opens a block
stands at what the block begins with, one that closes a block at what follows the
statement, every other instruction at its own statement.

`MCCodegen` — all bodies up to a length. `CodegenProofs` — the theorems.

`Parser` — the parser of statements and declarations, its scopes, and who frees what it builds.
`ahead` is the next token that is not an EOL, chosen among those `Sclexer` may emit there: `depth`
blocks are open, and all are closed before the end (`BlocksBalanced`). The recursion
`parse_stmt_block` - `parse_stmt` - `parse_if_stmt` or `parse_while_stmt` is the stack `calls`, one
frame per call of `parse_stmt_block` with what its list reaches; `body` and `level` are the
statements of the function so far and the depth each was read at. `ModuleImport`,
`FnDeclaration`, `FnDefinition`, `FnUnexpected` and `FnUndeclared` are the ways through
`parse_toplevel_stmt`; `BlockBegin`, `BlockNotBegun`, `BlockEnd` and `FnEnd` the two ends of
`parse_stmt_block`; `ExprStmt`, `LetStmt`, `ReturnStmt` and `Header` the statements, `BadStmt` each of
them when it returns NULL, `Unwind` and `FnUnwind` the error on its way up; `ImportUnexpected` is
`parse_module_import` giving up. A file ends in one of three ways: `FileEnd` is the entry file, whose module
`main` frees; `FileImported` a file parsed for an import, whose module is returned to
`parse_module_import` and never freed; `FileRejected` is `err_free_all`. `Heap` is what a step
allocates and frees, `Freed` the lists that the end frees, in order. What the code allocates and loses is
there as well: `ModScope` (`create_module` allocates `mod->scope`, `free_module` does not free it),
`ImportName(t)` (`free_module_import` frees only the statement) and `Imported(t)`, the module that
an import returned, with all that it reaches.  `Crash` is a NULL token read, or an
assert on one. Inside a statement the tokens are abstracted: it is well formed or
not, and its expression looks one name up. Strings, the arrays of pointers, the path that is
built for an import and `parser.imported` are not among the objects.

`MCParser` — signatures without and with an argument. `ParserProofs` and `OwnershipProofs` — the
theorems.

`Types`, `Semantics`, `Emit`, `Trees`, `Jim`, `Ast` and `Printing` — what becomes of the tree of a statement
once it is parsed. A tree is a function from *places* to nodes, a place being the way from the root, child by
child; `struct zako_expr` and `struct zako_value` are nodes alike, and what the analysis writes into them
(`value->type`, `expr->type`) is a function of places too. `IsTree` says what the parser makes sure of:
names are declared, an identifier of a function is a call of it, arrays are indexed, a call has no more
arguments than its function, a comparison or an assignment is in no other expression. `Declarations`
are the types `parse_type` builds: numbers, functions, and arrays of these or of arrays, to any depth
(what a function type takes and returns is left out, for nothing compares it). `MaxDepth` bounds the depth of the trees considered, and can be any number.
`Types` has `compare_builtin_type` and the types of literals. `Semantics` has
`analyse_value`, `analyse_expr` and the functions between them, which call each other: each is one step at a node, given what is
made of the nodes below it (`AnalyseNode`), and `AnalyseTree` is the recursive function that takes that step at
every place for every type expected there. `analyse_cmp_expr` and `analyse_expr_stmt` go to the operands only. An analysis returns
the result and the types it has set, and a type knows whose it is: an
identifier's, a function's, or one allocated for a node. An `assert` that fails ends the program whatever the caller
does with results (`"ASSERT"`). `Emit` has `compile_expr`, `compile_value` and what they call, in the same way
(`CompileNode`, `CompileTree`): the instructions with the types of their operands, and
where the generator panics. `Trees` is the life of a statement: `Analyse`; then `PrintAst` or `Compile`; then `Free` (`free_expr`,
`free_value`), which also follows an analysis that rejects it; an assert, a panic, or the end of the output
leaves it where it is. `Jim` is the writer of JSON (`jim2.h`), call by call, with a recogniser
of JSON to compare it with; `Ast` the calls that the `print_*` functions make of it; `Printing` is `Trees`
with what its step `PrintAst` writes.

`MCTrees` — the variables, the function and the statements of the run. `TreesProofs` — the theorems.

`Getarg` — the command line. A step is a call of `getarg` and what the loop of `parse_cmdline_args`
does with its result: an option with a string, a flag, the help, what is no option, the
file, a second file, the end. `at` and `argc` are what `GETARG_SHIFT` moves. An option with text
attached (`-Dx`) is taken apart as the code does it, by overwriting the argument with the
text (`TakeApart`). `MCGetarg` — the arguments of its run. `GetargProofs` — the theorems.

## Runs

| run | instance | what it shows |
|---|---|---|
| `sclexer` | all sources of up to 7 tabs, newlines and letters; of up to 5 lines, each empty or a letter under 0 to 3 tabs; and of up to 4 characters that begin or continue every kind of token; chunks of 2 tokens | see below |
| `sclexer_prefix` | sources of up to 2 characters | finding: a prefix of a symbol at the end of the source is that symbol |
| `build_diamond` | `main` imports `a` and `b`, `a` imports `b`; two runs, one edit per file, kills | order and multiplicity of output, meaning of exit status 0 |
| `build_pair` | `main` imports `a`, an edit may make `a` import `main`; two runs, two seconds, `--output-ast` or not, kills | which stubs are trusted; that a run ends |
| `build_assert` | one file without public functions | finding: the second run aborts on the empty stub |
| `codegen` | all bodies of up to 4 statements, nested in every way, blocks empty or not; every outcome of every condition | the generated code does what the body says |
| `expr` | all sources of up to 8 tokens: operators of each power, a comparison, operands, parentheses, ends of lines; and of up to 6 tokens of the 15 kinds that values are made of, functions of up to 2 parameters | see below |
| `parser` | files of up to 2 top-level statements, 3 statements alive in bodies, 3 levels, one name, signatures of none or one argument; every error | see below |
| `trees` | almost 20,000 statements over variables of types u8, u64 and i32, an array of two u8, one of three i64, an array of arrays, a variable that is a function, and functions from u8 to u64 and from an array to a function: every kind of value, alone, in every other kind, and in part two levels deep | see below |
| `getarg` | all command lines of up to 3 of 33 arguments: every option of `main.c` with and without text attached, dashes, files, empty | see below |
| `expr_cast` | up to 6 tokens | finding: `x as u8 * y` aborts in the analysis |
| `expr_operand` | up to 4 tokens | finding: `x *` aborts in the analysis |

*Lexer.* `BlocksBalanced`: `_last_indent` is the number of blocks the parser has been told of
and not yet told the end of, and a lexer that is done has closed all. `NeedEndExact`: the ends
owed are exactly the levels between the block and the line. `TokensStored`:
the loop around `sclexer_get_tok`, which steps an unsigned count back to drop an EOL after an
EOL and grows an array, keeps no two in a row and writes within its allocation. `EveryCallProgresses`, `TokensBounded`, `Terminates`: three kinds of call read
nothing, but none can follow another for ever. `IndentFollowsSource` and `LocExact` compare with
a definition of depth, line and column that reads the source alone; they and `EndsWithEol`, on
which the parser's unchecked `peek_tok` rests, hold for sources without blanks at the end of a
line. With them they do not: from a trailing blank on, the newline and the next line's tabs
are dropped as space. `LongestSymbol` and `NothingLost`: symbols are the longest that are spelled, and
every character outside spaces and comments is in exactly one token.
Five lines are enough for three levels opened, left at once and partly reopened, with
empty lines between; seven characters for newlines and tabs at any other place; chunks of two for the array to grow several times. Four characters are enough for each
symbol with a longer one beside it, a string, and a comment followed by its newline.

*Build.* `StaleOnlyInWindow`: a stub taken for fresh is of the version on disk, unless that
version was written between the second in which the build read the source and the second in
which it wrote the stub; kills, forced runs and nested imports add nothing to that window. `OutputBeforeCache`:
whatever a crash leaves, a stub is of a version that was output, or accepted by a run asked
for the AST or the IR. `OutputOnce`: with a cache and no `-F`, a file imported twice is output
once. `UsesPrecede`: what is output refers only to modules output before it.
`SuccessOutputsEntry`: status 0 means that the entry file was output last. `RunsEnd`: a run ends; a
cycle ends with the stack, whose size is `MaxDepth`. Two runs are enough for one to use what the
other left; two seconds for an edit in the same second as, and in a later one than, each
step.

*Expr.* `PrecedenceRespected`: what `merge_expr` builds is the tree its binding powers mean, left to
right and tighter operators below, as long as a cast is followed by casts only (finding
`expr_cast` is what happens otherwise). `TreesShareNothing`: whatever the source, nothing in the trees is
reached twice, so `free_expr` frees nothing twice. `EndsWithItsLine`: outside
parentheses the end of a line is eaten only within an operand, either one that is missing, its
place taken by the EOL, or one made of values: a call looks for its comma beyond the end of a line
(`parser/fn.c:124`), a qualified name for its dot and its name (`parser/value.c:154`), and an index or a
list may hold those. An operator is never taken from a later line. `Returns`: it returns. Eight
tokens are enough for three operators in a row of any powers, two levels of parentheses,
and a line that ends at any place; six for a call with its arguments on two lines, a qualified
name over three lines as an argument, or one over two as an index.

*Codegen.* `LabelsOnce`: no label is defined twice, and when the function is generated every
label that is used is defined. `ImplementsStructured`: the code, run, is a behaviour of `Structured`.
`StatementsGoOn`: the code reaches statement after statement until a return or the end of the
body; it neither stops at a label that is missing nor goes round outside the statements.
(It is the fairness of `Structured` with its ENABLED spelled out, since TLC cannot evaluate
ENABLED under a refinement mapping.) Four statements are enough for a loop in a loop that end
together, in an if or beside another statement, and for three blocks around a leaf.

*Parser.* `NestsAsIndented`: each call of `parse_stmt_block` eats the end of its own block and of no
other, so that the body handed to the generator is a body of `Bodies` (the assumption of
`Codegen`), and the block of an `if` or `while` is exactly the run of deeper lines below it.
`LookupSafe`: no identifier that was freed can still be found, although
`parse_fn_definition` frees, on an error, what it has bound. `FreedOnce`: nothing is freed twice,
although a public function is reached from its module, a private one from its statement, and an
argument from its function and a scope; and what a file leaves allocated is named. `main` leaves what the
code always loses (`Lost`: `mod->scope`, and the names and the modules of imports); a file parsed for an import that, and
its module with its public identifiers, still alive for the importer; a rejected one what is `Lost`, with what
`Unwind` and `FnUndeclared` are seen to lose. `BindingsStable`: a second `let` of a name
never changes what the name means. Two top-level statements are enough for one function
to be complete while another fails, public or not; three statements for a block in a
block with a statement behind either, and three levels for leaving two at once.

*Trees.* `AcceptsWhatFits`: the analysis, which compares one value at a time while it descends,
accepts a statement exactly when every value in it fits where the declarations want it, what
is cast excepted: a number by width and sign, an array by its elements and size. `Mixed` names what it lets pass
all the same, since `compare_builtin_type` does not look into them: one array for another of other elements or another
size, and one function for another. Nor does it count the characters of a string or the elements of an initialiser. `GeneratesTyped`: what it accepts the generator compiles without a panic,
and no uncast operand is wider than its result; the exceptions are five named gaps of the analysis
(`UncheckedCast`, `UntypedOperand`, `TypeOperand`, `Misplaced`, `FunctionTyped`), each of which does break it: a value
that is a function is accepted, and the generator panics on its type (`compiler/type.c:25`). `FreesOwn`: a
tree frees its own types once and none that an identifier or a function will free,
except for an index that was rejected. `AstIsJson`: when the output is JSON, which needs every type known
and one statement to a block. Two levels of nesting show what a value passes on to a value in it;
deeper ones repeat that, which the proofs confirm.

*Getarg.* `Accounted`: although arguments are overwritten and parsed again, every text taken is the end of
an argument that no other took, what is left is as it was given, and an accepted command line has nothing
in it that was ignored. Deadlock is checked: the loop comes to its end. Three
arguments are enough for an option whose argument is missing, is an option, or is taken
apart in turn. (The usage text in `main.c` says `-f`; the table, and `Options`, have `-F`.)

Fairness is assumed of the program's own steps only (`FairSpec`): each model is one thread
that waits for nothing. `Edit`, `Tick`, `Kill` and the start of a run are never forced.
`CHECK_DEADLOCK FALSE` stands where the program really stops: at the end of a source, an
expression, or the last run.

## Proofs

`SclexerProofs`, for every source, symbol table, set of comment openers and chunk. The assumptions are
those of C and of the tables in `lexer.c`: a source ends at its first NUL, no letter or digit is a
space, and what stands in `symbols[]` and `comments[]` is not empty and has no space in it.

- `TypeCorrect` and `NeedEndIsExact`: `TypeOK` and `NeedEndExact` are inductive together and not
  apart: that `need_end_indent = last_indent - Tabs` does not wrap when an end is
  owed needs to know that the tabs are those counted when the first end was emitted, and
  that a step which moves `cur` finds nothing owed.
- `BlocksAreBalanced`: from it, by counting the BEGIN and END tokens of a sequence with one
  appended; storing never drops one of these, which is what `IsPrevEol` is asked about.
- `CallsProgress`: `Measure` counts the characters left four times, the levels open twice, and
  one to three for the EOL that may be owed. One step per action.
- `TokensLinear`: from the measure, since a call appends at most one token.
- `TokensAreStored`: an EOL is only ever dropped after one that is stored, so the count never
  steps below 1, and what is written lies within the chunks allocated.
- `SymbolsAreLongest`, `LocationsAreExact`, `TokensEndInEol`, `NothingIsLost`, `IndentIsFollowed`
  compare the tokens with the text. `Span` and `Until` count the characters that a loop of the lexer
  passes; `RunIsInterval` shows by counting, without induction, that what is counted is the
  interval up to the first character that ends the loop (`SpanIs`, `UntilIs`). `LineStartIs`, `SameLine` and
  `NextLine` are the same for lines. For the text a step is one of four (`NextKinds`): it stays where
  it is, drops blanks only, ends a line (`EndlStep`), or reads one token of the text (`LexemeRead`).
  `CmpIs` says what a comparison that stops at the end of the source still proves of a
  symbol: all of it, if the source has the end of its line to come. What each adds to the
  state is `Located`, `LineEnded`, `Kept` (tokens are disjoint and end before `cur`) and `AtDepth`:
  past `_sclexer_try_indent` the lexer is at the depth of its line, and before it at that of the line
  before, or owes exactly the ends between. `LineDepth` is defined by recursion along the lines; `DepthIs` shows
  that such a function exists, there being no least number of lines for which it does not.

`ExprProofs`, for every set of tokens and any length:

- `TypeCorrect`: `Spec => []TypeOK`, where `TypeOK` contains what makes it inductive: a group is
  *waiting* (one operand short) when a nested call returns to it and *full* when an operator is
  looked for, calls on the stack are in order, and a comparison has at most one operator.
- `MergeRespectsPrecedence`: `Spec => []PrecedenceRespected`. The invariant describes the tree by
  intervals of operands: operator `k` has the operands up to the nearest looser one on either
  side. The lemma on a merge shows that appending one operator at the end changes this only
  along the right edge, and that the edge has at most two operators when only powers 1 and 2
  can still follow; that is why looking at the root is enough, and why casts,
  of power 0, have to come last.
- `NothingShared` and `LinesEndExpressions`: the invariant `Shared` has three parts. The pointers of a group, its root
  included, lead to different things, those to the left backwards and those to the right
  forwards (`AllApart`): a merge moves one pointer and puts another in its place. A nested expression
  is an operand of one group, opened before it, and not while it is on the stack (`NestedOnce`). And what
  was crossed outside parentheses since the outermost expression began belongs to an operand it has, which is
  NULL or made of values, or to the next one, while that is still open or being refused (`Crossings`, `Breaking`,
  `Open`).

`CodegenProofs`, for every body, assuming only that blocks nest (`ProgramsAssumption`):

- `Refines`: `Spec => ImplementsStructured`. The invariant `IInv` says of the code that every
  instruction that falls through falls into one that stands at the right statement, and that
  the end of the code *owes* a statement: what is appended next must stand there. An if
  owes its first statement, or what follows it if its block is empty; a complete statement
  owes what follows it. `FollowsCompleted` is the heart: what follows a statement is defined by all
  loops that end with it, and the generator knows only the stack of calls; they agree because
  that stack holds every block around the statement (`StackInv`), and of those the innermost
  one decides. `LeafStep`, `PushStep` and `PopStep` keep the stack so; `EmitStep` carries the code over an
  append; then the step simulation is one case per instruction.
- `TypeCorrect`: `Spec => []TypeOK`, which contains that calls nest and never pass their block.
- `LabelsAreOnce`: the labels an instruction names are those of statements generated so far; those
  defined are the ones whose block has begun, or ended; and a call on the stack is what stands
  between the two (`AllLabels`). At the end the stack is empty, and all that are named are defined.

`ParserProofs`, for every set of names and signatures and every bound:

- `TypeCorrect`: with `Shape`, which says at which place of the code how many scopes and calls
  there are, so that none is left that was not entered.
- `LookupIsSafe`: what is bound is allocated, and the steps that free something leave the scope it
  was bound in, or end in a place where nothing is looked up.
- `BindingsAreStable`: the least place of a name in a list is not moved by an append.
- `Nests`: the invariant `Nest` says that there are as many levels as calls and that the body is a
  `Nesting`: open statements are ifs and whiles, each a level deeper than the last and around
  everything since (`CallsNest`); a complete statement can never be extended, being
  either as deep as the next line or followed by a line that is not deeper (`ClosedStay`).
  `NestingLonger` shows that a line more keeps this, `NestingShorter` that the end of a block does.
  The case that needs `ClosedStay` is a complete statement around an open one, which cannot be.

`OwnershipProofs`, likewise:

- `FreedAtMostOnce`: the invariant `Owns` says where each thing that is allocated hangs: in the statement of the
  file with its number (`ListsOwn`), in the scope of the module, in the function in progress
  (`FunctionOwns`), or, until an error drops it, in one of the calls of
  `parse_stmt_block` (`CallsOwn`), or nowhere, being one of what is `Lost`; and that the lists share nothing. The lists
  freed at the end are then exactly what else is left (`ReleasedIs`), and on an error what is left besides is
  of the function that failed (`Left`). Without the module in the last list, for an import, the module and its
  public identifiers are what is left.

`GetargProofs`, for every set of command lines, of any length:

- `TypeCorrect` and `AllAccounted`: the invariant adds to them what has been passed over: each argument
  before `at` is an option, the file, or taken by the option before it. An end of an end of an argument
  is an end of it (`EndOfEnd`), which is what taking apart needs.
- `Progress`: no call of `getarg` leaves as many arguments as there were with the first as long as it was. The
  loop therefore ends; this is proved and in no run.

`BuildProofs`, for every set of files, every contents that edits may give them, and any number of runs, edits,
seconds and nested imports:

- `GoodAlways`: the inductive invariant `Good`. The properties speak of the disk and the output; they hold
  because each call of `parse_file` carries what it will need when it writes (`FrameOK`): the version it read is
  current, or was edited in the second in which it was read or later (`ReadOf`); it reaches the cache only
  after its output; each import of it that returned something is in the output. `Calls` says that a call
  is for the next import of the one below it, and `Outs` that from its output to its return nothing
  else is output. A kill drops all of this and leaves `Disk`, which holds at every step.
- `StalenessBounded`, `CacheFollowsOutput`, `ModulesInOrder`, `SuccessMeansOutput` and `TypeCorrect` follow from `Good`.
- `NothingTwice` has a hypothesis: a rank of the files that every import lowers, whatever is edited. Without it
  the property is false, which TLC shows on two files (two edits, four calls deep): if an edit breaks a
  cycle while its files are being parsed, the inner and the outer call of `parse_file` output the same
  version. With it (`Descends`) no file is on the stack twice, and `Once` says that a version
  that was output has its stub, is about to get it, or has been edited since (`Remembered`), so that
  a call that found no stub outputs it for the first time (`ToOutput`).

`TreesProofs`, for every set of variables and functions, every set of statements and trees of any depth. The
assumptions say what the parser has built (`DeclarationsAssumption`, `StatementsAssumption`): a declared type is any that
`parse_type` builds, functions and arrays of arrays among them, and a statement is one that `IsStatement` allows. What is shown of a tree is
shown from its leaves up: of the places where something fails, one of least height has none below it
(`TreeInduction`). A recursive function is a `CHOOSE`, and equals its definition only if some function does: `AnalyseTreeIs`,
`DemandsIs` and `CompileTreeIs` unfold one level after extending a solution from each height to the next
(`AnalysedGrows`, and the like).

- `TypeCorrect`: the inductive invariant `TypeOK` rests on `TreeShaped`: the analysis of a place sets types under that place only.
- The other three need `Kept`, which is inductive beside it: the types in the tree are those the analysis
  has set, the code is that of the generator, and what is freed follows from the types. So each property of a state becomes a
  property of the tree of the statement.
- `AcceptsWhatFitsAlways`: `TreeAccepts` compares the analysis, which goes down with one expected type and stops at the first
  error, with the set of all demands at once, each met or `Mixed`. It holds of every result that is not an assert, also of one below a
  cast, whose result the code does not look at.
- `FreesOwnAlways`: `NodeIs` says where each type in a tree comes from; `TreeIndices`, that the only ones of its own are those of
  indices, each at its index; `CmpFrees`, the same of a comparison and its literals. `Proper` names the
  four calls of `free_type` that are right, no two of which are for one type.
- `GeneratesTypedAlways`: `TreeGenerates` shows that a value that was accepted compiles to code whose result fits
  the type expected. An index is expected to fit u64 and then gets the type of its literal; a cast fits its own type, and
  therefore (`TreeWidens`) whatever that fits. Elements dropped beyond the size of an array are shown
  not to matter (`ArrLetGenerates`). `Gaps` is used exactly where the statement of the property excludes it (`ClosedIs`).

Checked by TLC only: `AstIsJson` of `Printing`, because the writer and the recogniser of JSON are recursive
operators; and liveness (`Terminates`, `RunsEnd`, `Returns`, `StatementsGoOn`), which TLAPS does not reach.
`CallsProgress` and `TokensLinear` are the safety half of `Terminates`. What `LineDepth`, `Span` or `AnalyseTree` is for all
inputs is proved above without the induction theorems, from the least counterexample or by counting.

## Not modelled

- Strings, growing arrays and allocation (`str.h`, `darr.h`, `ealloc.h`): a few lines each around
  `realloc`; the models have sequences in their place. An allocation does not fail: the program exits if one does.
- Messages, `abort`, directories and the reading and writing of files: input and output only.
- libmcb is not in the repository. Its functions are taken to do what their names and uses say
  (`Run*` of `Codegen`), and its errors, such as a name declared twice, are left out; so is
  the use of an imported module's mcb functions after its context is freed (`compiler/fn.c:32`),
  of which only libmcb could say what it means.
- In code generation: the declaration of functions and arguments, and the value an identifier
  has got.
- Two runs of the program at once, on one cache directory.
- In `Parser`: strings, arrays of pointers and paths, some of which the code also loses.
- In `Expr`: the tokens of a type (`parse_type` skips no end of a line), and what a name is bound to.
- In `Trees`: what the analysis never looks at, the length of a string, the number of elements of an
  initialiser and what a function type takes and returns.
- The value of an integer literal in the lexer, which wraps beyond 64 bits.
