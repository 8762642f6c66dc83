------------------------------ MODULE MCConfig ------------------------------
(***************************************************************************)
(* A configuration file of two data products, which are written and read.  *)
(***************************************************************************)
EXTENDS ConfigFile

CONSTANTS p1, p2, v1, v2, n1, n2, u1, u2, u3, u4

Entry(product, u) == [product |-> product, use |-> u, described |-> TRUE, typed |-> TRUE]

Sequence(items) == [isSequence |-> TRUE, items |-> items]

\* Every item has a map of its own, or two items have one: of one direction
\* or of both.  A product may be written under two items, an item may lack
\* its name, its description or its file type, and a block may be no sequence.
Some_blocks ==
    [write |-> {Sequence(<<Entry(p1, u1), Entry(p2, u2)>>),
                Sequence(<<Entry(p1, u1), Entry(p2, u1)>>),
                Sequence(<<Entry(p1, u1), Entry(p1, u2)>>),
                Sequence(<<Entry(None, u1), [Entry(p1, u2) EXCEPT !.described = FALSE]>>),
                [isSequence |-> FALSE, items |-> <<>>]},
     read |-> {Sequence(<<Entry(p1, u3), Entry(p2, u2)>>),
               Sequence(<<Entry(p2, u3), Entry(p2, u4)>>)}]

\* A map that is not there, one that names another product, and a full one.
Map(product, version, namespace) ==
    [product |-> product, version |-> version, namespace |-> namespace]

Given_uses == [Uses -> {Map(None, None, None), Map(p2, None, None), Map(p1, v2, n2)}]

\* Every key is there, or all but one.
Given_keys == {Keys} \cup {Keys \ {k} : k \in Keys}
=============================================================================
