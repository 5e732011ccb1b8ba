----------------------------- MODULE MCGitSetup -----------------------------
(* Instances of GitSetup for TLC.                                           *)
EXTENDS GitSetup, TLC

CONSTANTS b1, b2, away  \* two paths in the user's home, and one outside it

(* ssh://user@guest/~/ and the whole of the path outside: a path at home.   *)
UnderHome == [b \in Bares |-> IF b = away THEN b1 ELSE b]

(* Nothing tells a client, a host's repository or a path at home from      *)
(* another.  Not for instances with away, whose remote names b1.            *)
Symmetry == Permutations(Clients) \union Permutations(Hosts) \union Permutations({b1, b2})
=============================================================================
