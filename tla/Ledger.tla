-------------------------------- MODULE Ledger --------------------------------
(***************************************************************************)
(* What the block database promises: a chain and the set of outputs spent  *)
(* on it, which change together and only to a valid branch with more trust *)
(* or back to an ancestor.                                                 *)
(*                                                                         *)
(* The promise can be lost (ok becomes FALSE); after that nothing is       *)
(* promised.                                                               *)
(***************************************************************************)
EXTENDS TxIndex

VARIABLES
    tip,    \* the last block of the chain
    spent,  \* the outputs the chain has spent
    ok      \* the promise holds

LedgerVars == <<tip, spent, ok>>

LedgerInit ==
    /\ tip = Genesis
    /\ spent = {}
    /\ ok = TRUE

\* The chain becomes the branch ending in b.
SwitchTo(b) ==
    /\ ok /\ ok'
    /\ ValidBranch(b)
    /\ nChainTrust[b] > nChainTrust[tip] \/ b \in branch[tip] \ {tip}
    /\ tip' = b
    /\ spent' = BranchSpent(b)

Lose == ok /\ ~ok' /\ UNCHANGED <<tip, spent>>

Lost == ~ok /\ ~ok'

LedgerNext == (\E b \in Block : SwitchTo(b)) \/ Lose \/ Lost

LedgerSpec == LedgerInit /\ [][LedgerNext]_LedgerVars
=============================================================================
