-------------------------- MODULE MCLoginSessions --------------------------
(***************************************************************************)
(* LoginSessions with two tabs.                                            *)
(***************************************************************************)
EXTENDS LoginSessions, TLC

TabSymmetry == Permutations(Tabs)
=============================================================================
