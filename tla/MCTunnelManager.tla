--------------------------- MODULE MCTunnelManager ---------------------------
(* Instances of TunnelManager for TLC.                                      *)
EXTENDS TunnelManager, TLC

(* Process identifiers are interchangeable: Init and Next treat them alike. *)
Symmetry == Permutations(Procs)
=============================================================================
