------------------------------ MODULE MCSetup -------------------------------
(* Small instances of Setup: two runs with a configuration each, and one   *)
(* submission script.                                                      *)
EXTENDS SetupProperties

CONSTANTS r1, r2, f1, f2, f3, c1, c2, s1, s2, m1, m2, p1

OwnConfig == [r \in Runs |-> IF r = r1 THEN f1 ELSE f2]
OneScript == [r \in Runs |-> f3]

\* Configuration c1 names store s1 and commit m1, c2 the others.
StoreOf == [c \in Contents |-> IF c = c1 THEN s1 ELSE s2]
CommitOf == [c \in Contents |-> IF c = c1 THEN m1 ELSE m2]

\* Store s1 has a path of 20 characters.  The configurations are within it,
\* at paths of 35 characters.
Lengths == [x \in Files \cup Stores |-> IF x \in Files THEN 35 ELSE 20]
ConfigsInside == [f \in Files |-> IF f = f3 THEN {} ELSE {s1}]

\* A data product of store s1 may have the content of a configuration.
OneProduct == {[root |-> s1, path |-> p1, hash |-> c1, public |-> TRUE]}
=============================================================================
