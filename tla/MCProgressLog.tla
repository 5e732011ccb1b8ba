---------------------------- MODULE MCProgressLog ----------------------------
(* Instances of ProgressLog for TLC.                                        *)
EXTENDS ProgressLog, TLC
=============================================================================
