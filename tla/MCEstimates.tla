----------------------------- MODULE MCEstimates ----------------------------
(***************************************************************************)
(* Two processes write and read the estimates of three data products, two  *)
(* of which are of one directory.                                          *)
(***************************************************************************)
EXTENDS Estimates

CONSTANTS p1, p2, p3, here, there, text

\* Some files that others may have made: of no table, of one or two.
Some_files ==
    LET table(type, value) == [type |-> type, value |-> value]
    IN  {Missing, Empty, Garbled, Holding({table("distribution", 12)}),
         Holding({table("point-estimate", 12), table(None, text)})}

\* 12 without its end is 1, and a text without its end is no TOML.
Beginnings == [v \in Values |-> IF v = 12 THEN {1} ELSE {}]

Parents == [p \in Products |-> IF p = p3 THEN there ELSE here]
=============================================================================
