---------------------------- MODULE MCCheckerJob ----------------------------
(* Small instances of CheckerJob for TLC.                                  *)
EXTENDS CheckerJob, TLC

Symmetry == Permutations(Proxy) \cup Permutations(Worker)
=============================================================================
