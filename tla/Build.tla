------------------------------- MODULE Build -------------------------------
(***************************************************************************)
(* A run of czakoc over a tree of modules, and the cache of module         *)
(* interfaces that runs leave for one another: main.c, parse_file and the  *)
(* loop over top-level statements (src/parser/parser.c), module imports    *)
(* (src/parser/module.c), the cache (src/parser/cache.c) and what          *)
(* compile_file (src/compiler/compiler.c) outputs.  Between any two steps  *)
(* of a run a source may be edited, a second may pass, or the run may be   *)
(* killed.                                                                 *)
(*                                                                         *)
(* Abstracted: a source is what the driver can tell of it - its imports,   *)
(* which of them its functions use, where it is in error, and what kind of *)
(* functions it has.  Modification times are whole seconds, as st_mtime.   *)
(***************************************************************************)
EXTENDS Integers, Sequences, FiniteSets

CONSTANTS
  Files,       \* the module files
  Contents,    \* for each file, the contents an edit can give it
  Entries,     \* the files czakoc is run on
  Modes,       \* the outputs asked for: "asm", "ir", "ast" (or lexer tokens)
  MaxDepth,    \* nested parse_file calls that the stack holds
  MayKill,     \* whether a run can be killed
  MaxEdits, MaxClock, MaxRuns    \* bounds of the model

\* What the functions of a file are: none, private ones only, a public
\* definition "... i32 =", or a public declaration, "... i32" up to the EOL.
Fns == {"none", "private", "pubdef", "pubdecl"}
\* Where its error is, if any: found by the parser or by the code generator.
Errors == {"none", "parse", "code"}
Content == [imports : Seq(Files), uses : SUBSET Nat, error : Errors, fns : Fns]

ASSUME ContentsAssumption ==
  \A f \in Files : Contents[f] # {} /\ \A c \in Contents[f] :
    c \in Content /\ c.uses \subseteq DOMAIN c.imports
ASSUME BoundsAssumption ==
  /\ Entries \subseteq Files /\ Entries # {}
  /\ {MaxEdits, MaxRuns} \subseteq Nat
  /\ {MaxDepth, MaxClock} \subseteq Nat \ {0}

NoStub == [text |-> "absent"]

VARIABLES
  src,      \* the sources: content, version, mtime
  stub,     \* the cache: NoStub, or text, mtime, and the version it is of
  clock,    \* the current second
  status,   \* "idle", "running", or how the last run ended
  flags,    \* of the run: entry, cache (-D given), force, mode
  stack,    \* the calls of parse_file in progress, the innermost last
  out,      \* what the run has written to stdout
  built,    \* history: the versions whose assembly was ever output
  shown,    \* history: the versions accepted for another output
  runs

fsVars == <<src, stub>>
history == <<built, shown>>
vars == <<src, stub, clock, status, flags, stack, out, built, shown, runs>>

Top == stack[Len(stack)]
SetTop(frame) == [stack EXCEPT ![Len(stack)] = frame]
Caller == SubSeq(stack, 1, Len(stack) - 1)

-----------------------------------------------------------------------------
(* The cache.                                                              *)

Exported == {"pubdef", "pubdecl"}

\* cache_fn_declaration copies a public signature without its last
\* character: a space before '=', but the end of the type of a declaration.
StubText(fns) == CASE fns = "pubdef" -> "sig"
                   [] fns = "pubdecl" -> "cut"
                   [] OTHER -> "empty"

\* What parsing a stub finds.
StubContent(text) ==
  [imports |-> <<>>, uses |-> {},
   error |-> IF text = "cut" THEN "parse" ELSE "none",
   fns |-> IF text = "empty" THEN "none" ELSE "pubdecl"]

\* Faulty: a stub must be strictly newer; a stub need only exist.
HasCacheNewer(f) == stub[f] # NoStub /\ stub[f].mtime > src[f].mtime
HasCacheAlways(f) == stub[f] # NoStub

\* has_cache, but for the flag
HasCache(f) == stub[f] # NoStub /\ stub[f].mtime >= src[f].mtime

UsesCache(f) == flags.cache /\ ~flags.force /\ HasCache(f)

\* A source without any statement leaves stmts NULL.
NoStmts(c) == c.imports = <<>> /\ c.fns = "none"

-----------------------------------------------------------------------------
(* main                                                                    *)

Frame(f) ==
  [pc |-> "check", file |-> f, cached |-> FALSE, got |-> <<>>,
   content |-> src[f].content, ver |-> src[f].ver, readAt |-> clock]

Init ==
  /\ \E c \in [Files -> UNION {Contents[f] : f \in Files}] :
       /\ \A f \in Files : c[f] \in Contents[f]
       /\ src = [f \in Files |-> [content |-> c[f], ver |-> 1, mtime |-> 0]]
  /\ stub = [f \in Files |-> NoStub]
  /\ clock = 1
  /\ status = "idle"
  /\ flags = [entry |-> CHOOSE f \in Entries : TRUE, cache |-> FALSE,
              force |-> FALSE, mode |-> "asm"]
  /\ stack = <<>>
  /\ out = <<>>
  /\ built = {}
  /\ shown = {}
  /\ runs = 0

Main ==
  /\ status # "running"
  /\ runs < MaxRuns
  /\ runs' = runs + 1
  /\ status' = "running"
  /\ \E f \in Entries, cache, force \in BOOLEAN, mode \in Modes :
       /\ flags' = [entry |-> f, cache |-> cache, force |-> force, mode |-> mode]
       /\ stack' = <<Frame(f)>>
  /\ out' = <<>>
  /\ UNCHANGED <<fsVars, clock, history>>

\* Faulty: the calls in progress survive the process.
DiesLoosely(how) ==
  /\ status' = how
  /\ UNCHANGED stack

\* The process ends: an exit status, a failed assert or a signal.
Dies(how) ==
  /\ status' = how
  /\ stack' = <<>>

\* Faulty: main ignores the result; an import is not remembered.
ReturnsUnchecked(result) ==
  IF Len(stack) = 1
  THEN Dies("exit0")
  ELSE LET caller == stack[Len(stack) - 1]
       IN  /\ stack' = [Caller EXCEPT ![Len(stack) - 1] =
                          [caller EXCEPT !.got = Append(@, result)]]
           /\ UNCHANGED status
ReturnsForgotten(result) ==
  IF Len(stack) = 1
  THEN Dies(IF result = "null" THEN "exit1" ELSE "exit0")
  ELSE /\ stack' = Caller
       /\ UNCHANGED status

\* parse_file returns to the import that called it, or to main.  result is
\* "null", or a module that exports something or nothing.
Returns(result) ==
  IF Len(stack) = 1
  THEN Dies(IF result = "null" THEN "exit1" ELSE "exit0")
  ELSE LET caller == stack[Len(stack) - 1]
       IN  /\ stack' = [Caller EXCEPT ![Len(stack) - 1] =
                          [caller EXCEPT !.got = Append(@, result)]]
           /\ UNCHANGED status

-----------------------------------------------------------------------------
(* parse_file                                                              *)

At(pc) == status = "running" /\ Top.pc = pc

\* parser.c:67-72
Check ==
  /\ At("check")
  /\ stack' = SetTop([Top EXCEPT !.pc = "read", !.cached = UsesCache(Top.file)])
  /\ UNCHANGED <<fsVars, clock, status, flags, out, history, runs>>

\* init_lexer reads the source, or the stub in its place.
Read ==
  /\ At("read")
  /\ LET f == Top.file
     IN  stack' = SetTop(
           [Top EXCEPT !.pc = "parse",
                       !.content = IF Top.cached THEN StubContent(stub[f].text)
                                   ELSE src[f].content,
                       !.ver = IF Top.cached THEN stub[f].ver ELSE src[f].ver,
                       !.readAt = clock])
  /\ UNCHANGED <<fsVars, clock, status, flags, out, history, runs>>

ImportsParsed == Len(Top.got) = Len(Top.content.imports)

\* parse_module_import: parse_file for the next import.
Import ==
  /\ At("parse")
  /\ ~ImportsParsed
  /\ Len(stack) < MaxDepth
  /\ stack' = Append(stack, Frame(Top.content.imports[Len(Top.got) + 1]))
  /\ UNCHANGED <<fsVars, clock, status, flags, out, history, runs>>

\* Imports in a cycle recurse until the stack is used up.
StackOverflow ==
  /\ At("parse")
  /\ ~ImportsParsed
  /\ Len(stack) = MaxDepth
  /\ Dies("overflow")
  /\ UNCHANGED <<fsVars, clock, flags, out, history, runs>>

\* Faulty: an import that failed may be used.
ResolvedAlways == TRUE

\* A use of an import needs the module and a public function in it.
Resolved == \A i \in Top.content.uses : Top.got[i] = "exports"

\* Faulty: a file in error is cached.
RejectCached ==
  /\ At("parse")
  /\ \/ Top.content.error = "parse"
     \/ ImportsParsed /\ ~Resolved
  /\ IF Top.cached
     THEN Returns("null")
     ELSE stack' = SetTop([Top EXCEPT !.pc = "cache"]) /\ UNCHANGED status
  /\ UNCHANGED <<fsVars, clock, flags, out, history, runs>>

Parsed ==
  At("parse") /\ Top.content.error # "parse" /\ ImportsParsed /\ Resolved

\* compile_file returns before it generates code if the AST is wanted.
CodeFails ==
  /\ Parsed /\ ~NoStmts(Top.content)
  /\ flags.mode # "ast"
  /\ Top.content.error = "code"

\* An error that the parser finds, wherever in the file, a use that is not
\* resolved, or code that cannot be generated: the caller gets NULL.
Reject ==
  /\ At("parse")
  /\ \/ Top.content.error = "parse"
     \/ ImportsParsed /\ ~Resolved
     \/ CodeFails
  /\ Returns("null")
  /\ UNCHANGED <<fsVars, clock, flags, out, history, runs>>

\* Some errors of code generation are a panic.
Panic ==
  /\ CodeFails
  /\ Dies("panic")
  /\ UNCHANGED <<fsVars, clock, flags, out, history, runs>>

\* assert(stmts && mod) in compile_file
AssertStmts ==
  /\ Parsed
  /\ NoStmts(Top.content)
  /\ Dies("abort")
  /\ UNCHANGED <<fsVars, clock, flags, out, history, runs>>

Version == <<Top.file, Top.ver>>
Output == [file |-> Top.file, ver |-> Top.ver, code |-> ~Top.cached,
           uses |-> {Top.content.imports[i] : i \in Top.content.uses}]

\* compile_file: the functions of a source, or the declarations of a stub.
Compile ==
  /\ Parsed
  /\ ~NoStmts(Top.content)
  /\ ~CodeFails
  /\ out' = IF flags.mode = "ast" THEN out ELSE Append(out, Output)
  /\ built' = IF flags.mode = "asm" /\ ~Top.cached THEN built \cup {Version} ELSE built
  /\ shown' = IF flags.mode # "asm" /\ ~Top.cached THEN shown \cup {Version} ELSE shown
  /\ stack' = SetTop([Top EXCEPT !.pc = IF Top.cached THEN "return" ELSE "cache"])
  /\ UNCHANGED <<fsVars, clock, status, flags, runs>>

\* cache_file: nothing to do without a cache directory or with a fresh stub.
CacheSkip ==
  /\ At("cache")
  /\ ~flags.cache \/ UsesCache(Top.file)
  /\ stack' = SetTop([Top EXCEPT !.pc = "return"])
  /\ UNCHANGED <<fsVars, clock, status, flags, out, history, runs>>

Stub(text) ==
  [text |-> text, mtime |-> clock, ver |-> Top.ver, readAt |-> Top.readAt]

\* fopen(path, "w") truncates; the signatures reach the file by fclose.
CacheOpen ==
  /\ At("cache")
  /\ flags.cache /\ ~UsesCache(Top.file)
  /\ stub' = [stub EXCEPT ![Top.file] = Stub("empty")]
  /\ stack' = SetTop([Top EXCEPT !.pc = "write"])
  /\ UNCHANGED <<src, clock, status, flags, out, history, runs>>

\* With nothing to write, the file keeps the mtime that fopen gave it.
CacheClose ==
  /\ At("write")
  /\ LET text == StubText(Top.content.fns)
     IN  IF text = "empty" THEN UNCHANGED stub
         ELSE stub' = [stub EXCEPT ![Top.file] = Stub(text)]
  /\ stack' = SetTop([Top EXCEPT !.pc = "return"])
  /\ UNCHANGED <<src, clock, status, flags, out, history, runs>>

Return ==
  /\ At("return")
  /\ Returns(IF Top.content.fns \in Exported THEN "exports" ELSE "bare")
  /\ UNCHANGED <<fsVars, clock, flags, out, history, runs>>

ParseFile ==
  \/ Check \/ Read \/ Import \/ StackOverflow \/ Reject \/ Panic
  \/ AssertStmts \/ Compile \/ CacheSkip \/ CacheOpen \/ CacheClose \/ Return

-----------------------------------------------------------------------------
(* Around the run.                                                         *)

Edit ==
  \E f \in Files : \E c \in Contents[f] :
    /\ src[f].ver <= MaxEdits
    /\ src' = [src EXCEPT ![f] = [content |-> c, ver |-> @.ver + 1, mtime |-> clock]]
    /\ UNCHANGED <<stub, clock, status, flags, stack, out, history, runs>>

Tick ==
  /\ clock < MaxClock
  /\ clock' = clock + 1
  /\ UNCHANGED <<fsVars, status, flags, stack, out, history, runs>>

Kill ==
  /\ MayKill
  /\ status = "running"
  /\ Dies("killed")
  /\ UNCHANGED <<fsVars, clock, flags, out, history, runs>>

Next == Main \/ ParseFile \/ Edit \/ Tick \/ Kill

Spec == Init /\ [][Next]_vars

\* A run is one thread that nothing in it waits for.
FairSpec == Spec /\ WF_vars(ParseFile)

-----------------------------------------------------------------------------
(* Properties.                                                             *)

TypeOK ==
  /\ \A f \in Files :
       /\ src[f].content \in Contents[f]
       /\ src[f].ver \in 1..(MaxEdits + 1)
       /\ src[f].mtime \in 0..clock
       /\ stub[f] # NoStub => /\ stub[f].mtime \in 1..clock
                              /\ stub[f].readAt \in 1..stub[f].mtime
                              /\ stub[f].ver \in 1..src[f].ver
  /\ clock \in 1..MaxClock
  /\ status = "running" <=> stack # <<>>
  /\ Len(stack) <= MaxDepth
  /\ \A i \in DOMAIN stack : Len(stack[i].got) <= Len(stack[i].content.imports)

\* A stub that a later run would take for fresh is of the version on disk,
\* unless that version was written between the second in which the build
\* read its source and the second in which it wrote the stub.  In particular
\* no sequence of runs one after another, forced or killed among them, and no
\* nesting of imports lets an edit outside that window go unnoticed.
StaleOnlyInWindow ==
  \A f \in Files :
    HasCache(f) /\ stub[f].ver # src[f].ver =>
      /\ stub[f].readAt <= src[f].mtime
      /\ src[f].mtime <= stub[f].mtime

\* Output comes before the cache: whatever a crash leaves, a stub - which
\* keeps later runs from output of its file - is of a version that was
\* output, or accepted by a run that was asked for something else: the AST,
\* for which no code is generated, or the IR.
OutputBeforeCache ==
  \A f \in Files :
    stub[f] # NoStub => <<f, stub[f].ver>> \in built \cup shown

\* A file imported along several paths is output once, if there is a cache
\* to tell the second import of the first, and no edit undoes a cycle of
\* imports that is being parsed.
OutputOnce ==
  flags.cache /\ ~flags.force =>
    \A i, j \in DOMAIN out :
      out[i].code /\ out[j].code /\ out[i].file = out[j].file
        /\ out[i].ver = out[j].ver => i = j

\* What is output refers only to modules output before it: each use of an
\* import is preceded by its code or, if it came from the cache, by its
\* declarations.
UsesPrecede ==
  \A i \in DOMAIN out : \A g \in out[i].uses :
    \E j \in 1..(i - 1) :
      /\ out[j].file = g
      /\ flags.force \/ ~flags.cache => out[j].code

\* An exit status of 0 means that the entry file was output last, as code
\* if the cache was not to be used.
SuccessOutputsEntry ==
  status = "exit0" /\ flags.mode # "ast" =>
    /\ out # <<>>
    /\ out[Len(out)].file = flags.entry
    /\ flags.force \/ ~flags.cache => out[Len(out)].code

\* A run ends: imports, also those in a cycle, are followed to an end.
RunsEnd == status = "running" ~> status # "running"

\* The assertion of compile_file holds for sources that have statements.
NoAssertFailure == status # "abort"
=============================================================================
