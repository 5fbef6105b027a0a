--------------------------- MODULE MCDoubleRatchet ---------------------------
(* The Double Ratchet on a short conversation. *)
EXTENDS DoubleRatchet
=============================================================================
