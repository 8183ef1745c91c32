--------------------------- MODULE MCAmqpTopology ---------------------------
(* Small instances of AmqpTopology: a and b are codes as their applications
   spell them, odd is a spelling of a that sanitizeApplicationCode changes. *)
EXTENDS AmqpTopology

CONSTANTS a, b, odd

Spelling == [n \in Name |-> IF n = odd THEN a ELSE n]
=============================================================================
