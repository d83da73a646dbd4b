------------------------------- MODULE MCChange -------------------------------
(* The scenario of the brownfield change has its gates in a row and its       *)
(* release at the end, as GatesHold and CompletionIsWhole require.            *)
EXTENDS MCEngine

ASSUME ChangeInTurn == GatesInTurn /\ ReleaseIsLast
===============================================================================
