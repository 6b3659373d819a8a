--------------------------- MODULE MCZerosendPool ---------------------------
(***************************************************************************)
(* Two clients of one denomination and a test network pool of two.         *)
(***************************************************************************)
EXTENDS ZerosendPool

CONSTANTS c1, c2

MCClient == {c1, c2}
MCDenom == {1, 2}
MCdenom == [c \in Client |-> 1]
MCnInputs == [c \in Client |-> 1]
=============================================================================
