------------------------------- MODULE Getarg -------------------------------
(***************************************************************************)
(* The command line (src/getarg.h with the options of src/main.c).  A step *)
(* is a call of getarg and what parse_cmdline_args does with its result.   *)
(* An option with its argument attached, -Dx, is taken apart in place: the *)
(* argument is overwritten by the text after the option.                   *)
(*                                                                         *)
(* An argument is a sequence of symbols: a character, or a long name as a  *)
(* whole.                                                                  *)
(***************************************************************************)
EXTENDS Integers, Sequences

CONSTANTS
  Given     \* the command lines, without the name of the program

\* "(null)" stands in no argument.
Symbols == STRING \ {"(null)"}

ASSUME GivenAssumption == Given \subseteq Seq(Seq(Symbols))

VARIABLES
  given,    \* what the program was called with
  argv,     \* the arguments, as they are now
  at,       \* the place of *argv in them
  argc,     \* the count of those that are left
  values,   \* czakoc_cache_dir and czakoc_root_mod, by long name
  flags,    \* czakoc_flags, by long name
  entry,    \* entry_file
  status    \* "parsing", "parsed", or "failed" and exit status 1

vars == <<given, argv, at, argc, values, flags, entry, status>>

\* options; the usages say -f for --force-build.
Option(type, long, short) == [type |-> type, long |-> long, short |-> short]
Options == {
  Option("STRING", "cache-dir", "D"), Option("FLAG", "force-build", "F"),
  Option("STRING", "root-module", "M"), Option("FLAG", "output-ast", ""),
  Option("FLAG", "output-ir", ""), Option("FLAG", "output-lexer-tokens", ""),
  Option("HELP", "help", "h")}
Strings == {"cache-dir", "root-module"}
Flags == {"force-build", "output-ast", "output-ir", "output-lexer-tokens"}

\* The string that was never given, and the one behind the last argument
NULL == <<"(null)">>

IsOption(arg) == arg # <<>> /\ arg[1] = "-"
IsLong(arg) == Len(arg) > 1 /\ arg[2] = "-"
\* The text after a short option
Attached(arg) == IF IsLong(arg) THEN <<>> ELSE SubSeq(arg, 3, Len(arg))
\* _getarg_find_long_opt, _getarg_find_short_opt; none for "-" and "--"
Found(arg) ==
  {o \in Options : IF IsLong(arg) THEN arg = <<"-", "-", o.long>>
                   ELSE Len(arg) > 1 /\ o.short = arg[2]}

Init ==
  /\ given \in Given
  /\ argv = given
  /\ at = 1 /\ argc = Len(given)
  /\ values = [s \in Strings |-> NULL]
  /\ flags = {}
  /\ entry = NULL
  /\ status = "parsing"

-----------------------------------------------------------------------------

\* **argv, where getarg looks
Argv == argv[at]
AtArgument == status = "parsing" /\ argc > 0
AtOption(type, opt) ==
  AtArgument /\ IsOption(Argv) /\ opt \in Found(Argv) /\ opt.type = type

\* An option's argument: the text attached to it, which takes its place, or
\* the next, and behind the last NULL.
IsAttached == Attached(Argv) # <<>>
TakeApart ==
  IF IsAttached THEN [argv EXCEPT ![at] = Attached(Argv)] ELSE argv
Behind == IF IsAttached THEN at ELSE at + 1
Argument == IF Behind <= Len(argv) THEN TakeApart[Behind] ELSE NULL

\* Mutant: one place is counted, however many there were.
ShiftToOnce(place) ==
  /\ at' = place
  /\ argc' = argc - 1

\* GETARG_SHIFT, up to a place
ShiftTo(place) ==
  /\ at' = place
  /\ argc' = argc - (place - at)

\* Mutant: the argument of the option is left to be parsed again.
OptStringUnshifted(opt) ==
  /\ AtOption("STRING", opt)
  /\ values' = [values EXCEPT ![opt.long] = Argument]
  /\ argv' = TakeApart
  /\ ShiftTo(Behind)
  /\ UNCHANGED <<given, flags, entry, status>>

OptString(opt) ==
  /\ AtOption("STRING", opt)
  /\ values' = [values EXCEPT ![opt.long] = Argument]
  /\ argv' = TakeApart
  /\ ShiftTo(Behind + 1)
  /\ UNCHANGED <<given, flags, entry, status>>

\* What is attached to a flag is the next argument.
OptFlag(opt) ==
  /\ AtOption("FLAG", opt)
  /\ flags' = flags \cup {opt.long}
  /\ argv' = TakeApart
  /\ ShiftTo(Behind)
  /\ UNCHANGED <<given, values, entry, status>>

\* GETARG_RESULT_APPLIED_HELP_OPT
OptHelp(opt) ==
  /\ AtOption("HELP", opt)
  /\ argv' = TakeApart
  /\ ShiftTo(Behind)
  /\ status' = "failed"
  /\ UNCHANGED <<given, values, flags, entry>>

\* GETARG_RESULT_DASH, DOUBLE_DASH and OPT_NOT_FOUND
NotAnOption ==
  /\ AtArgument
  /\ IsOption(Argv)
  /\ Found(Argv) = {}
  /\ status' = "failed"
  /\ UNCHANGED <<given, argv, at, argc, values, flags, entry>>

\* GETARG_RESULT_UNKNOWN
File ==
  /\ AtArgument
  /\ ~IsOption(Argv)
  /\ entry = NULL
  /\ entry' = Argv
  /\ ShiftTo(at + 1)
  /\ UNCHANGED <<given, argv, values, flags, status>>

SecondFile ==
  /\ AtArgument
  /\ ~IsOption(Argv)
  /\ entry # NULL
  /\ status' = "failed"
  /\ UNCHANGED <<given, argv, at, argc, values, flags, entry>>

\* GETARG_RESULT_END; main wants a file.
End ==
  /\ status = "parsing"
  /\ argc <= 0
  /\ status' = IF entry = NULL THEN "failed" ELSE "parsed"
  /\ UNCHANGED <<given, argv, at, argc, values, flags, entry>>

\* Nothing more is done; the loop has to come to this.
Terminated == status # "parsing" /\ UNCHANGED vars

Next ==
  \/ \E opt \in Options : OptString(opt) \/ OptFlag(opt) \/ OptHelp(opt)
  \/ NotAnOption
  \/ File \/ SecondFile
  \/ End
  \/ Terminated

Spec == Init /\ [][Next]_vars

-----------------------------------------------------------------------------
(* Properties.                                                             *)

\* The variables have their types; argc counts the arguments from argv on,
\* which never goes further than one place behind the NULL that ends them.
TypeOK ==
  /\ argv \in Seq(Seq(Symbols)) /\ Len(argv) = Len(given)
  /\ at \in 1..(Len(given) + 2)
  /\ argc = Len(given) + 1 - at
  /\ values \in [Strings -> Seq(Symbols) \cup {NULL}]
  /\ flags \subseteq Flags
  /\ entry \in Seq(Symbols) \cup {NULL}
  /\ status \in {"parsing", "parsed", "failed"}

IsSuffix(text, arg) ==
  \E n \in 1..(Len(arg) + 1) : text = SubSeq(arg, n, Len(arg))
Texts == {<<"file", entry>>} \cup {<<s, values[s]>> : s \in Strings}
Taken == {t \in Texts : t[2] # NULL}

\* Each text that the options and the file took is an argument, or the end of
\* one, that no other took; what is left is as it was given, but for what
\* was taken from the front of the next argument (which getarg overwrites).
TakenOnce ==
  /\ \A p \in (at + 1)..Len(given) : argv[p] = given[p]
  /\ at <= Len(given) => IsSuffix(argv[at], given[at])
  /\ \E from \in [Taken -> 1..Len(given)] :
       /\ \A t \in Taken : from[t] < at /\ IsSuffix(t[2], given[from[t]])
       /\ \A t, u \in Taken : from[t] = from[u] => t = u

\* The options in an argument that is one, or several: -F-F.
Takes(arg, type) ==
  \E n \in DOMAIN arg : LET end == SubSeq(arg, n, Len(arg))
    IN  IsOption(end) /\ Attached(end) = <<>> /\ \E o \in Found(end) : o.type = type

\* A command line is accepted only if nothing in it was left out: an argument
\* that is no option is the file, or the argument of an option before it.
NothingIgnored ==
  status = "parsed" =>
    \A p \in DOMAIN given :
      \/ IsOption(given[p])
      \/ given[p] = entry
      \/ p > 1 /\ Takes(given[p - 1], "STRING")

\* What is on the command line is accounted for, once.
Accounted == TakenOnce /\ NothingIgnored

\* Every call of getarg gets on: it ends the loop, or there are fewer
\* arguments left, or as many and the first of them is shorter.
CallsProgress ==
  [][\/ status' # "parsing"
     \/ argc' < argc
     \/ argc' = argc /\ Len(argv'[at]) < Len(argv[at])]_vars
=============================================================================
