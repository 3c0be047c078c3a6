--------------------------------- MODULE Jim ---------------------------------
(***************************************************************************)
(* The JSON writer (src/jim2.h): a writer is the stack of the arrays and   *)
(* objects it is in, what it has written, and whether an assert failed.    *)
(* Texts and numbers are one token each; line ends and indentation, with   *)
(* pp, are left out.                                                       *)
(***************************************************************************)
EXTENDS Integers, Sequences

NewScope(kind) == [kind |-> kind, tail |-> FALSE, key |-> FALSE]
NewJim == [scopes |-> <<>>, sink |-> <<>>, failed |-> FALSE]

CurrentScope(jim) == jim.scopes[Len(jim.scopes)]
InScope(jim) == jim.scopes # <<>>
Write(jim, token) == [jim EXCEPT !.sink = Append(@, token)]
Push(jim, kind) == [jim EXCEPT !.scopes = Append(@, NewScope(kind))]
Pop(jim) ==
  IF InScope(jim) THEN [jim EXCEPT !.scopes = SubSeq(@, 1, Len(@) - 1)]
  ELSE [jim EXCEPT !.failed = TRUE]

ElementBegin(jim) ==
  IF InScope(jim) /\ CurrentScope(jim).tail /\ ~CurrentScope(jim).key
  THEN Write(jim, ",") ELSE jim

\* Mutant: key is left set.
ElementEndKey(jim) ==
  IF InScope(jim)
  THEN [jim EXCEPT !.scopes[Len(jim.scopes)].tail = TRUE]
  ELSE jim

ElementEnd(jim) ==
  IF InScope(jim)
  THEN [jim EXCEPT !.scopes[Len(jim.scopes)] = [@ EXCEPT !.tail = TRUE, !.key = FALSE]]
  ELSE jim

\* jim_null, jim_bool, jim_integer, jim_float, jim_string
Scalar(jim) == ElementEnd(Write(ElementBegin(jim), "scalar"))

ArrayBegin(jim) == Push(Write(ElementBegin(jim), "["), "array")
ArrayEnd(jim) == ElementEnd(Pop(Write(jim, "]")))
ObjectBegin(jim) == Push(Write(ElementBegin(jim), "{"), "object")
ObjectEnd(jim) == ElementEnd(Pop(Write(jim, "}")))

\* jim_member_key; the key and its colon are one token.
MemberKey(jim) ==
  LET begun == ElementBegin(jim)
  IN  IF /\ InScope(begun)
         /\ CurrentScope(begun).kind = "object"
         /\ ~CurrentScope(begun).key
      THEN [Write(begun, "key") EXCEPT !.scopes[Len(begun.scopes)].key = TRUE]
      ELSE [begun EXCEPT !.failed = TRUE]

\* One call of the writer; a failed assert ends the program.
Call(jim, call) ==
  IF jim.failed THEN jim
  ELSE CASE call = "scalar" -> Scalar(jim)
         [] call = "array" -> ArrayBegin(jim)
         [] call = "array end" -> ArrayEnd(jim)
         [] call = "object" -> ObjectBegin(jim)
         [] call = "object end" -> ObjectEnd(jim)
         [] call = "key" -> MemberKey(jim)

\* What the calls from first to last leave, one half of them after the other.
RECURSIVE After(_, _, _, _)
After(jim, calls, first, last) ==
  IF first = last THEN Call(jim, calls[first])
  ELSE LET middle == (first + last) \div 2
           half == After(jim, calls, first, middle)
       IN  IF half.failed THEN half ELSE After(half, calls, middle + 1, last)
Written(calls) == After(NewJim, calls, 1, Len(calls))

-----------------------------------------------------------------------------
(* JSON, by its grammar: where the value that starts at i ends, or 0.      *)

RECURSIVE ValueEnd(_, _), ElementsEnd(_, _, _)
ValueEnd(text, i) ==
  IF i > Len(text) THEN 0
  ELSE CASE text[i] = "scalar" -> i
         [] text[i] \in {"[", "{"} /\ i < Len(text) ->
              LET close == IF text[i] = "[" THEN "]" ELSE "}"
              IN  IF text[i + 1] = close THEN i + 1
                  ELSE ElementsEnd(text, i + 1, close)
         [] OTHER -> 0

\* One element or more, each in an object behind its key, then the close.
ElementsEnd(text, i, close) ==
  LET keyed == i <= Len(text) /\ text[i] = "key"
      end == IF keyed = (close = "}")
             THEN ValueEnd(text, IF keyed THEN i + 1 ELSE i) ELSE 0
  IN  IF end = 0 \/ end >= Len(text) THEN 0
      ELSE IF text[end + 1] = close THEN end + 1
      ELSE IF text[end + 1] = "," THEN ElementsEnd(text, end + 2, close)
      ELSE 0

IsJson(text) == text # <<>> /\ ValueEnd(text, 1) = Len(text)
=============================================================================
