------------------------------ MODULE MCParser ------------------------------
(***************************************************************************)
(* Parser on every file of up to MaxToplevel top-level statements.         *)
(***************************************************************************)
EXTENDS Parser

MCSignatures == {<<>>, <<"x">>}
=============================================================================
