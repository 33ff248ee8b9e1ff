--------------------------- MODULE MCIdempotentTx ---------------------------
(* Three invocations of one key: two of one command, one of another.       *)
EXTENDS IdempotentTx

CONSTANTS c1, c2, c3

TwoCommands == [c \in Calls |-> IF c = c3 THEN "other" ELSE "same"]

=============================================================================
