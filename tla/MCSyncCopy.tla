----------------------------- MODULE MCSyncCopy -----------------------------
(* Instances of SyncCopy for TLC.                                           *)
EXTENDS SyncCopy, TLC

(* The clients are interchangeable, and so are the contents of each kind.   *)
Symmetry == Permutations(Clients) \union Permutations(HostMade)
=============================================================================
