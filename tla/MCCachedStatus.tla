--------------------------- MODULE MCCachedStatus ---------------------------
(* Four players, two configurations, a counter that is soon at its end. *)
EXTENDS CachedStatus

MCConfig == {[max_players |-> 20, motd |-> "first"], [max_players |-> 30, motd |-> "second"]}
=============================================================================
