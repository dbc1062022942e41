--------------------------- MODULE MCTaskLifecycle ---------------------------
(* Instances of TaskLifecycle for TLC.                                     *)
EXTENDS TaskLifecycle, TLC

CONSTANTS p1, p2, f1

TwoPollers == {p1, p2}
OnePoller == {p1}
OneFetcher == {f1}

AllKinds == KindType
UsageKind == {[billing |-> "usage", legacy |-> FALSE]}

Symmetry == Permutations(Pollers)
=============================================================================
