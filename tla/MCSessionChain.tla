--------------------------- MODULE MCSessionChain ---------------------------
(* SessionChain on small instances. *)
EXTENDS SessionChain
=============================================================================
