-------------------------- MODULE MCBlanknodeList --------------------------
(* Instances of BlanknodeList for TLC. *)
EXTENDS BlanknodeList, TLC

CONSTANTS host, relay, far

(* The host reaches the far node only through the relay. *)
Line == host :> {relay} @@ relay :> {host, far} @@ far :> {relay}

(* The host and one other node. *)
Pair == host :> {relay} @@ relay :> {host}
=============================================================================
