--------------------------- MODULE MCServerActor ---------------------------
(* One request of each kind against a channel of two slots, so that every  *)
(* order of asks, updates and Shutdown in a full channel occurs.           *)
EXTENDS ServerActor

CONSTANTS status1, der1, decrypt1

MCRequest == {status1, der1, decrypt1}
MCKind ==
  [r \in MCRequest |-> CASE r = status1  -> "GetStatus"
                         [] r = der1     -> "CertificatePublicDer"
                         [] r = decrypt1 -> "Decrypt"]
=============================================================================
