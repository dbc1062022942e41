-------------------------- MODULE MCSystemTaskLease --------------------------
(* Instances of SystemTaskLease for TLC.                                   *)
EXTENDS SystemTaskLease, TLC

CONSTANTS r1, r2

TwoRunners == {r1, r2}

Symmetry == Permutations(Runners)
=============================================================================
