-------------------------- MODULE MCSecureMessages --------------------------
(* Instances of SecureMessages for TLC. *)
EXTENDS SecureMessages

CONSTANTS alice, bob

MCMessages == {1, 2}
MCBuckets == {1}
MCBucketOf == [m \in MCMessages |-> 1]

(* alice starts with a message in her files; the other one is written by   *)
(* either node, so that a bunch is too long for one smsgMsg or that both   *)
(* nodes hold one message the other lacks.                                 *)
MCStored == [n \in Nodes |-> IF n = alice THEN {1} ELSE {}]
=============================================================================
