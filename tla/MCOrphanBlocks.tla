---------------------------- MODULE MCOrphanBlocks ----------------------------
(***************************************************************************)
(* Two branches from Genesis, g - a1 - a2 and g - b1 - b2 - b3, where b1   *)
(* has the stake of a1 and b2 that of a2; x, on top of a2 and refused by   *)
(* AcceptBlock; z, refused by CheckBlock.  SetBestChain can fail for b2,   *)
(* and the node can refuse a1 at times.                                    *)
(***************************************************************************)
EXTENDS OrphanBlocks, TLC

CONSTANTS g, a1, a2, b1, b2, b3, x, z, s1, s2

MCBlock == {g, a1, a2, b1, b2, b3, x, z}
MCpprev ==
    g :> g @@ a1 :> g @@ a2 :> a1 @@ b1 :> g @@ b2 :> b1 @@ b3 :> b2 @@ x :> a2 @@ z :> b1
MCStake == {s1, s2}
MCstake ==
    a1 :> s1 @@ b1 :> s1 @@ a2 :> s2 @@ b2 :> s2 @@ [b \in {g, b3, x, z} |-> NoStake]
MCFailsCheck == {z}
MCFailsAccept == {x}
MCMayNotAttach == {b2}
MCMayFailNow == {a1}
=============================================================================
