---------------------------- MODULE MCProvisioning ----------------------------
(* Sessions that share one entry of the launcher cache, for TLC.             *)
EXTENDS Provisioning, TLC

\* Two contents, of which one may be the published one, are interchangeable, as are sessions.
Symmetry == Permutations(Sessions) \cup Permutations(Contents)
===============================================================================
