-------------------------- MODULE MCQueueSelection --------------------------
(* Small instances of QueueSelection for TLC.                              *)
EXTENDS QueueSelection, TLC

\* Two of the four tiers: the code treats all of them alike.
TwoTiers == <<"healthy", "new">>

Symmetry == Permutations(Source)
=============================================================================
