----------------------------- MODULE MCMCCodec -----------------------------
(* Binary digits, VarInts of up to three bytes, and an integer type of     *)
(* eight values: a body of three bytes has a length of two, an id of two   *)
(* has one too, and every length from four on is negative.                 *)
EXTENDS MCCodec

B(more, digit) == [more |-> more, digit |-> digit]
MCBody ==
  {<<B(FALSE, 0)>>, <<B(FALSE, 1), B(TRUE, 0)>>, <<B(TRUE, 0), B(FALSE, 1), B(FALSE, 0)>>}
=============================================================================
