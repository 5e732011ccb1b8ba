---------------------------- MODULE MCBuildAssets ----------------------------
(* Instances of BuildAssets for TLC.                                        *)
EXTENDS BuildAssets, TLC
=============================================================================
