------------------------------ MODULE MCInstantX ------------------------------
(***************************************************************************)
(* Two transactions that spend the same output and two blanknodes, both    *)
(* needed for a lock; n2 is also ranked at the tip (height 0), where votes *)
(* for a transaction with too young inputs go.                             *)
(***************************************************************************)
EXTENDS InstantX

CONSTANTS tA, tB, oS, n1, n2

MCTx == {tA, tB}
MCOutPoint == {oS}
MCvin == [t \in MCTx |-> {oS}]
MCBlanknode == {n1, n2}
MCHeight == {0, 5}
MCTopRanked == [h \in MCHeight |->
    IF h = 0 THEN {n2} ELSE {n1, n2}]
MClockHeight == [t \in MCTx |-> 5]
=============================================================================
