------------------------------- MODULE Tables -------------------------------
(***************************************************************************)
(* How the two ways the client looks at the registry's storage_location    *)
(* table answer it: a GET with a query (API::get_by_json_query), and a     *)
(* POST (API::post), whose 409 is turned into a GET for a row that has     *)
(* every posted field.                                                     *)
(*                                                                         *)
(* The registry is a server outside this repository.  What is said of it   *)
(* here is what the client relies on: a table keeps its rows, a row is     *)
(* never changed, and a POST that would break a table's uniqueness rule is *)
(* refused with 409.                                                       *)
(***************************************************************************)

CONSTANTS
    None,            \* an empty ApiObject, a key no map holds, a missing file
    UniqueHash,      \* does one storage root hold one row per (hash, public),
                     \* or one row per (hash, public, path)?
    LocationRequired \* is an object with no storage location refused?

ASSUME FlagsAssumption == UniqueHash \in BOOLEAN /\ LocationRequired \in BOOLEAN

\* A registry that keeps one row per hash answers a lost race for that row
\* with no row at all; it must then refuse the object that names no location.
ASSUME LocationAssumption == UniqueHash => LocationRequired

\* Mutant of FoundLocation: the query does not name the hash.
AnyLocation(rows, hash, public) ==
    LET found == {l \in rows : l.public = public}
    IN  IF found = {} THEN {None} ELSE found

\* Answers of GET storage_location?hash=..&public=..&storage_root=.. : the
\* client takes [0] of the rows, null when there is none.
FoundLocation(rows, hash, public) ==
    LET found == {l \in rows : l.hash = hash /\ l.public = public}
    IN  IF found = {} THEN {None} ELSE found

\* Does the table already hold a row that POSTing l would duplicate?
LocationConflict(rows, l) ==
    \E k \in rows : /\ k.hash = l.hash /\ k.public = l.public
                    /\ UniqueHash \/ k.path = l.path

\* The table after POST storage_location.
LocationsAfterPost(rows, l) ==
    IF LocationConflict(rows, l) THEN rows ELSE rows \cup {l}

\* Mutant of PostedLocation: the client keeps what it sent.
SentLocation(rows, l) == l

\* What API::post returns: the new row, or after a 409 the first row that has
\* all of l's fields, null when the conflicting row differs in its path.
PostedLocation(rows, l) ==
    IF LocationConflict(rows, l) /\ l \notin rows THEN None ELSE l
=============================================================================
