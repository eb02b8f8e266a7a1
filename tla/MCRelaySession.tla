--------------------------- MODULE MCRelaySession ---------------------------
(* RelaySession on a small instance: see MCRelaySession.cfg. *)
EXTENDS RelaySession, TLC

Symmetry == Permutations(Conn)
=============================================================================
