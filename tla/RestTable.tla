----------------------------- MODULE RestTable ------------------------------
(***************************************************************************)
(* One table of the registry, as the REST client sees it: rows are         *)
(* numbered, their fields have values, and no two rows agree on the fields *)
(* of the table's unique key.                                              *)
(*                                                                         *)
(* A value is a text with at most one character that means something in a  *)
(* URL, or a reference to a row of another table, which the registry       *)
(* writes as that row's URL and takes as a URL or as an id.                *)
(***************************************************************************)
EXTENDS Naturals

CONSTANTS
    None,     \* no row, no request, no response
    Clients,  \* threads that call API's functions
    Fields,   \* the table's fields, numbered in the order of their names
    Unique,   \* the fields of its unique key; {} if it has none
    Values,   \* the values that are posted and asked for
    Tokens,   \* whether calls are given a token: a subset of BOOLEAN
    MaxRows   \* bound: rows of the table

Marks == {"plain", "space", "plus", "ampersand", "hash", "url", "id"}

ASSUME TableAssumption ==
    /\ Fields \subseteq Nat /\ Unique \subseteq Fields /\ MaxRows \in Nat
    /\ Tokens \subseteq BOOLEAN
    /\ \A x \in Values : x = [body |-> x.body, mark |-> x.mark] /\ x.mark \in Marks

\* How the registry keeps a value.
Stored(x) == IF x.mark = "id" THEN [x EXCEPT !.mark = "url"] ELSE x

Kept == {Stored(x) : x \in Values}

Ids == 1 .. MaxRows

Rows == [id : Ids, data : [Fields -> Kept]]

\* The fields and values of a GET's query, of a POST or of a PATCH.
Queries == UNION {[fs -> Values] : fs \in SUBSET Fields}

Posts == [Fields -> Values]

\* A PATCH leaves the unique key alone.
Patches == [Fields \ Unique -> Values]

Agrees(data, query) == \A f \in DOMAIN query : data[f] = Stored(query[f])

ASSUME NoneAssumption == None \notin Rows /\ None \notin [Fields -> Kept] /\ None \notin Ids

\* A call of get_by_json_query, get_by_id, post or patch.
Calls ==
    [op : {"query"}, query : Queries, token : Tokens]
        \cup [op : {"id"}, id : Ids \cup {None}, token : Tokens]
        \cup [op : {"post"}, query : Posts, token : Tokens]
        \cup [op : {"patch"}, id : Ids, query : Patches, token : Tokens]

ASSUME CallAssumption == None \notin Calls

\* How a call ends: with a row, with null, or with an exception.
Results == [end : {"none", "threw", "returned"}, row : Rows \cup {None}]

NoResult == [end |-> "none", row |-> None]

Threw == [end |-> "threw", row |-> None]

Returns(row) == [end |-> "returned", row |-> row]

-----------------------------------------------------------------------------
(* The table, a function from ids to what each row holds.                  *)

Tables == [Ids -> [Fields -> Kept] \cup {None}]

Row(table, i) == [id |-> i, data |-> table[i]]

\* What a GET with this query can have as its first row, or None.
Found(table, query) ==
    LET matching == {i \in Ids : table[i] # None /\ Agrees(table[i], query)}
    IN  IF matching = {} THEN {None} ELSE {Row(table, i) : i \in matching}

Conflict(table, data) ==
    /\ Unique # {}
    /\ \E i \in Ids : table[i] # None /\ \A f \in Unique : table[i][f] = Stored(data[f])

\* The next id, where ids are given in order.
Next_id(table, i) == table[i] = None /\ \A j \in 1 .. i - 1 : table[j] # None

Inserted(table, i, data) == [table EXCEPT ![i] = [f \in Fields |-> Stored(data[f])]]

Updated(table, i, query) ==
    [table EXCEPT ![i] = [f \in Fields |-> IF f \in DOMAIN query THEN Stored(query[f]) ELSE @[f]]]
=============================================================================
