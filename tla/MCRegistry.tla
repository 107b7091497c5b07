----------------------------- MODULE MCRegistry ------------------------------
(* One agent whose requests may be lost and one whose requests arrive; an  *)
(* interval of three units, into which three timeouts of one unit fit, as  *)
(* three of 10 s fit into the code's 60 s.                                 *)
EXTENDS Registry
=============================================================================
