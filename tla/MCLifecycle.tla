---------------------------- MODULE MCLifecycle -----------------------------
(***************************************************************************)
(* Two runs of one data product, with a configuration each and one script. *)
(***************************************************************************)
EXTENDS Lifecycle

CONSTANTS r1, r2, f1, f2, f3, s1, v1, n1, d1

OwnConfig == [r \in Runs |-> IF r = r1 THEN f1 ELSE f2]
OneScript == [r \in Runs |-> f3]
OneCommit == [c \in SetupContents |-> CHOOSE m \in Commits : TRUE]
Lengths == [x \in Files \cup Stores |-> IF x \in Files THEN 35 ELSE 20]
ConfigsInside == [f \in Files |-> IF f = f3 THEN {} ELSE {s1}]

\* Both runs write the data product, and r2 may read it.
Writing ==
    [r \in Runs |-> [p \in Products |->
        [alias |-> p, version |-> v1, namespace |-> n1, description |-> d1]]]
Reading ==
    [r \in Runs |-> [p \in Products |->
        IF r = r1 THEN None ELSE [name |-> p, version |-> v1, namespace |-> n1]]]

\* The files of r2 are not public.
PublicRuns == [r \in Runs |-> r = r1]
=============================================================================
