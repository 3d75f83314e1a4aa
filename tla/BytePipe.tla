------------------------------ MODULE BytePipe ------------------------------
(***************************************************************************)
(* What a socket promises to the framer that writes to it: the bytes it is *)
(* offered reach the other end once each and in order, until the transport *)
(* fails.                                                                  *)
(***************************************************************************)
EXTENDS Naturals, SequencesExt

CONSTANT Byte

VARIABLES
  offered,     (* bytes handed to the socket's side, in order *)
  delivered,   (* bytes the other end has made out            *)
  broken       (* has the transport failed?                   *)

vars == <<offered, delivered, broken>>

Init == offered = <<>> /\ delivered = <<>> /\ broken = FALSE

Offer ==
  /\ offered' \in Seq(Byte) /\ IsStrictPrefix(offered, offered')
  /\ UNCHANGED <<delivered, broken>>

Deliver ==
  /\ ~broken
  /\ \E k \in Len(delivered) + 1 .. Len(offered) : delivered' = SubSeq(offered, 1, k)
  /\ UNCHANGED <<offered, broken>>

Break ==
  /\ ~broken /\ broken' = TRUE
  /\ UNCHANGED <<offered, delivered>>

Next == Offer \/ Deliver \/ Break

SafeSpec == Init /\ [][Next]_vars
(* What is offered gets through, unless the transport fails first. *)
Settle == Deliver \/ (delivered # offered /\ Break)
Spec == SafeSpec /\ WF_vars(Settle)
=============================================================================
