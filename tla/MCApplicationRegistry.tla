----------------------- MODULE MCApplicationRegistry -----------------------
(* Small instances of ApplicationRegistry: two spellings of one code and a
   second code, two keys and a second spelling of the first that the database
   takes for the same, an address in two spellings and another one. *)
EXTENDS ApplicationRegistry

CONSTANTS k1, alt, k2, low, up, other, code, second, home, mapped, away

Codes     == [x \in Spelling |-> IF x = other THEN second ELSE code]
Collation == [k \in Key |-> IF k = alt THEN k1 ELSE k]
Addresses == [i \in Ip |-> IF i = mapped THEN home ELSE i]

(* With the seed the first two race for a code, the first and the last for a
   key. *)
Forms ==
    {[spelling |-> low, key |-> k1, ips |-> {home}, complete |-> TRUE],
     [spelling |-> up, key |-> k2, ips |-> {home}, complete |-> FALSE],
     [spelling |-> other, key |-> alt, ips |-> {home}, complete |-> TRUE]}

Seeds == {[code |-> code, key |-> k1, ips |-> {home}]}
=============================================================================
