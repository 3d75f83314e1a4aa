----------------------------- MODULE MCDatabase -----------------------------
(* Three players, one of them under two spellings; four entity ids. *)
EXTENDS Database

CONSTANTS alice, bob, carol, none

MCProfile == {alice, bob, carol}
MCText == {"a", "A", "b", "c", "?"}
MCFromStr == [t \in MCText |-> CASE t \in {"a", "A"} -> alice
                                 [] t = "b" -> bob
                                 [] t = "c" -> carol
                                 [] t = "?" -> none]
=============================================================================
