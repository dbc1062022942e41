-------------------------- MODULE MCPlaygroundChat --------------------------
(* Instances of PlaygroundChat for TLC: two accounts, replies of two       *)
(* pieces.  The accounts are interchangeable, so the first page is always  *)
(* First's; they are not declared symmetric, since liveness is checked.    *)
EXTENDS PlaygroundChat

CONSTANT First

MCInit == Init /\ user = First

MCSpec == MCInit /\ [][Next]_vars /\ WF_vars(Progress)

\* The replies to requests 1 and 3 repeat their first piece, as '1', '1' does.
EchoingReplies == {<<Piece(g, 0, 1), Piece(g, 1, 2)>> : g \in {1, 3}}
=============================================================================
