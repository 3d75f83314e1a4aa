--------------------------- MODULE MCClientActors ---------------------------
(* Connections and the packet sequences their peers may send. *)
EXTENDS ClientActors

CONSTANTS c1, c2

One == {c1}
Two == {c1, c2}

(* Distinct from each other, from WrongToken and from every secret length, *)
(* so that no two answers can be mistaken for each other.                  *)
MCToken == [c \in Conn |-> IF c = c1 THEN 101 ELSE 102]

Logins == {<<"HandshakeLogin", "LoginStart", p, "LoginAcknowledged">> : p \in EncryptionResponse}
Astray ==
  {<<"HandshakeOther">>, <<"Junk">>, <<"HandshakeStatus", "LoginStart", "Junk">>,
   <<"HandshakeLogin", "StatusRequest">>,
   <<"HandshakeLogin", "LoginStart", "LoginAcknowledged">>}
Every == {GoodStatus} \cup Logins \cup Astray
Served ==
  {GoodStatus, GoodLogin} \cup
    {<<"HandshakeLogin", "LoginStart", p>> : p \in {"EncWrong", "EncShort", "EncNoSecret"}}
=============================================================================
