----------------------------- MODULE MCLogging ------------------------------
(* A small instance of Logging.  top: a composite with a stream and with   *)
(* nested, a composite that has another stream.                            *)
EXTENDS Logging, TLC

CONSTANTS i1, i2, s1, s2, top, nested

Tree == [s \in Streams |-> IF s = s1 THEN {top} ELSE {top, nested}]

MessageSymmetry == Permutations(Messages)
=============================================================================
