-------------------------------- MODULE Types --------------------------------
(***************************************************************************)
(* Types of zako (src/type.h, type.c) and how one may stand for another    *)
(* (compare_builtin_type in src/semantics/semantics.c).  A type is known   *)
(* by whom it belongs to, because it is freed by its owner: role, name and *)
(* at say which of the identifiers, functions and values that is.          *)
(***************************************************************************)
EXTENDS Integers, Sequences

\* enum ZAKO_BUILTIN_TYPE, in its order
Builtins == <<"i8", "i16", "i32", "i64", "u8", "u16", "u32", "u64",
              "arr", "cmp", "fn">>
Rank(builtin) == CHOOSE k \in 1..Len(Builtins) : Builtins[k] = builtin

Signed == {"i8", "i16", "i32", "i64"}
Unsigned == {"u8", "u16", "u32", "u64"}
Numbers == Signed \cup Unsigned
BuiltinTypes == Numbers \cup {"arr", "cmp", "fn"}

\* elem and size are an array's; inner are the elem and size of the arrays in
\* it, from the outermost inwards.  What a function takes and returns is left
\* out: nothing compares it.
Type(builtin, elem, size, inner, role, name, at) ==
  [builtin |-> builtin, elem |-> elem, size |-> size, inner |-> inner,
   role |-> role, name |-> name, at |-> at]
PlainType(builtin, role, name, at) == Type(builtin, "none", 0, <<>>, role, name, at)
NULL == PlainType("none", "none", "", <<>>)

\* inner.arr.elem_type
ElemType(type) ==
  IF type.inner = <<>> THEN PlainType(type.elem, "elem", type.name, type.at)
  ELSE Type(type.elem, Head(type.inner).elem, Head(type.inner).size, Tail(type.inner),
            "elem", type.name, type.at)

\* The wider of two types stands for the other only among types of one sign.
\* Mutant: the order of the enum alone.
CompareByRank(src, expect) ==
  IF Rank(src) <= Rank(expect) THEN "SUCCESS" ELSE "IMPLICIT_CAST"

CompareSigned(src, expect, family, otherwise) ==
  IF src \notin family THEN otherwise
  ELSE IF Rank(src) <= Rank(expect) THEN "SUCCESS" ELSE "IMPLICIT_CAST"

\* compare_builtin_type
CompareBuiltin(src, expect) ==
  IF src = expect THEN "SUCCESS"
  ELSE IF expect \in Signed
  THEN CompareSigned(src, expect, Signed, "EXPECT_SIGNED")
  ELSE IF expect \in Unsigned
  THEN CompareSigned(src, expect, Unsigned, "EXPECT_UNSIGNED")
  ELSE "UNKOWN"

\* get_builtin_type_from_int_literal; an integer beyond 63 bits is negative.
IntLiteralType(i) ==
  IF i <= 127 THEN "i8" ELSE IF i <= 32767 THEN "i16"
  ELSE IF i <= 2147483647 THEN "i32" ELSE "i64"

\* get_builtin_type_from_uint_literal, of the same bits unsigned (4294967295
\* is 65535 * 65536 + 65535)
UintLiteralType(i) ==
  IF i < 0 THEN "u64"
  ELSE IF i <= 255 THEN "u8" ELSE IF i <= 65535 THEN "u16"
  ELSE IF i \div 65536 <= 65535 THEN "u32" ELSE "u64"
=============================================================================
