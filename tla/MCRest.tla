------------------------------- MODULE MCRest -------------------------------
(***************************************************************************)
(* Two clients of a table with a unique key and one more field.            *)
(***************************************************************************)
EXTENDS RestProperties

CONSTANTS c1, c2, a, ref

Value(body, mark) == [body |-> body, mark |-> mark]

\* A text with a space, and a reference to a row of another table.
Legible_values == {Value(a, "space"), Value(ref, "url")}

\* Two texts, one of which goes on after a "#".
Hashed_values == {Value(a, "plain"), Value(a, "hash")}

\* Registries that anyone may read, and that none may without a token.
Open_and_shut == {{"WRITE"}, {"GET", "WRITE"}}

Key_field == {1}
Two_fields == {1, 2}
With_token == {TRUE}
=============================================================================
