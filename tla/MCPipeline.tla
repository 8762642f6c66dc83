----------------------------- MODULE MCPipeline -----------------------------
(* Small instances of Pipeline.  Each definition below is a configuration  *)
(* file, or a pair of them, that the .cfg files give to the runs.          *)
EXTENDS PipelineProperties, TLC

CONSTANTS r1, r2, v1, n1, d1, d2, p0, c0

TwoRuns == {r1, r2}

NoEntries == [p \in Products |-> None]

Entry(p, d) == [alias |-> p, version |-> v1, namespace |-> n1, description |-> d]

KeyOf(p) == [name |-> p, version |-> v1, namespace |-> n1]

\* Both runs may write product 1, under the same name, version and
\* namespace; r2's entry says "use: data_product:" 2.  r2 may read product 1
\* too, and write product 2.
ContendWrites ==
    [r \in Runs |-> [NoEntries EXCEPT
        ![1] = IF r = r1 THEN Entry(1, d1) ELSE [Entry(1, d2) EXCEPT !.alias = 2],
        ![2] = IF r = r1 THEN None ELSE Entry(2, d2)]]
ContendReads ==
    [r \in Runs |-> IF r = r1 THEN NoEntries ELSE [NoEntries EXCEPT ![1] = KeyOf(1)]]
NoReads == [r \in Runs |-> NoEntries]

\* Every run reads product 1, once it is there.
FirstReads == [r \in Runs |-> [NoEntries EXCEPT ![1] = KeyOf(1)]]

\* Every run writes every product.
AllWrites == [r \in Runs |-> [p \in Products |-> Entry(p, d1)]]

\* What initialise() registered: one configuration.
ConfigRow == {[path |-> p0, hash |-> c0, public |-> TRUE]}

SamePublic == [r \in Runs |-> TRUE]

\* No operation tells one content from another but by equality.
AnyContent == Permutations(Contents)
=============================================================================
