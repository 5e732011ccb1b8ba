----------------------------- MODULE MCConfigFile -----------------------------
(* Instances of ConfigFile for TLC.                                         *)
EXTENDS ConfigFile, TLC

(* Items are interchangeable, and so are hooks: the module only compares    *)
(* them.                                                                    *)
Symmetry == Permutations(Items) \union Permutations(Hooks)
=============================================================================
