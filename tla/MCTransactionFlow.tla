------------------------- MODULE MCTransactionFlow -------------------------
(* Small instances of TransactionFlow: the sizes are in the flow_*.cfg files.
   Transactions meet only in the connection and the process they share, so
   an instance needs one of each role: t1 ordinary, t2 an id the processor
   made up, t3 with a webhook URL that send refuses. *)
EXTENDS TransactionFlow

CONSTANTS t1, t2, t3

(* The answers without a status. *)
NoAnswer     == {}
SecondAnswer == {<<t1, 2>>}
=============================================================================
