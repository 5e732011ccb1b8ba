---------------------------- MODULE MCVMLifecycle ----------------------------
(* Instances of VMLifecycle for TLC: the configurations choose the clients, *)
(* the commands they run and what the environment does.                     *)
EXTENDS VMLifecycle, TLC

(* Identities are interchangeable: Init and Next treat them all alike.      *)
Symmetry ==
    Permutations(Clients) \union Permutations(Procs) \union Permutations(Images)

(* Names that sort as the releases follow each other.                       *)
ByRelease == [r \in 1..MaxRelease |-> r]

=============================================================================
