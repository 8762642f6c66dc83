----------------------------- MODULE RestProofs -----------------------------
(***************************************************************************)
(* Proofs about the REST client.  IInv of RestProperties is inductive; what *)
(* it says of the request on its way and of the row that a 409 stands for   *)
(* gives the refinement of RestCalls where the values are Legible.          *)
(***************************************************************************)
EXTENDS RestProperties, TLAPS

-----------------------------------------------------------------------------
(* Values and queries.                                                     *)

\* Stored and Read give a value back with another mark.
LEMMA ValueFacts ==
    ASSUME NEW x \in Values
    PROVE  /\ Stored(x) \in Kept /\ Read(x) \in Carried
           /\ x.mark \in Escaped => Stored(Read(x)) = Stored(x)
  <1>1. x = [body |-> x.body, mark |-> x.mark] /\ x.mark \in Marks
    BY TableAssumption
  <1>2. Stored(x) \in Kept /\ Read(x) \in Carried
    BY DEF Kept, Carried
  <1>3. ASSUME x.mark \in Escaped PROVE Stored(Read(x)) = Stored(x)
    <2>1. CASE x.mark \in {"plain", "space"}
      <3>1. Read(x).mark = x.mark /\ Read(x) = x
        BY <1>1, <2>1 DEF Read
      <3>2. QED
        BY <3>1
    <2>2. CASE x.mark = "url"
      <3>1. Read(x) = [body |-> x.body, mark |-> "id"]
        BY <1>1, <2>2 DEF Read
      <3>2. QED
        BY <1>1, <2>2, <3>1 DEF Stored
    <2>3. CASE x.mark = "id"
      <3>1. Read(x) = x
        BY <1>1, <2>3 DEF Read
      <3>2. QED
        BY <3>1
    <2>4. QED
      BY <1>3, <2>1, <2>2, <2>3 DEF Escaped
  <1>4. QED
    BY <1>2, <1>3

\* A query of values that mean nothing else in a URL arrives whole.
LEMMA LegibleQuery ==
    ASSUME NEW query \in Queries, \A f \in DOMAIN query : query[f].mark \in Escaped
    PROVE  /\ DOMAIN Json_to_query_string(query) = DOMAIN query
           /\ ~ Excess(query)
           /\ \A data : Agrees(data, Json_to_query_string(query)) <=> Agrees(data, query)
  <1>1. PICK fs \in SUBSET Fields : query \in [fs -> Values]
    BY DEF Queries
  <1>2. \A f \in DOMAIN query : query[f] \in Values
    BY <1>1
  <1>3. \A f \in DOMAIN query : query[f].mark \notin {"hash", "ampersand"}
    BY DEF Escaped
  <1>4. Sent_fields(query) = DOMAIN query
    BY <1>3 DEF Sent_fields
  <1>5. \A f \in DOMAIN query : Stored(Read(query[f])) = Stored(query[f])
    BY <1>2, ValueFacts
  <1>6. QED
    BY <1>3, <1>4, <1>5 DEF Json_to_query_string, Excess, Agrees

\* What a query arrives as is a query of the values a request carries.
LEMMA QueryType ==
    ASSUME NEW query \in Queries
    PROVE  /\ Json_to_query_string(query) \in UNION {[fs -> Carried] : fs \in SUBSET Fields}
           /\ Excess(query) \in BOOLEAN
  <1>1. PICK fs \in SUBSET Fields : query \in [fs -> Values]
    BY DEF Queries
  <1>2. Sent_fields(query) \in SUBSET Fields /\ Sent_fields(query) \subseteq fs
    BY <1>1 DEF Sent_fields
  <1>3. \A f \in Sent_fields(query) : Read(query[f]) \in Carried
    BY <1>1, <1>2, ValueFacts
  <1>4. Json_to_query_string(query) \in [Sent_fields(query) -> Carried]
    BY <1>3 DEF Json_to_query_string
  <1>5. QED
    BY <1>2, <1>4 DEF Excess

LEMMA CallFacts ==
    ASSUME NEW k \in Calls
    PROVE  /\ k.op \in {"query", "id", "post", "patch"} /\ k.token \in BOOLEAN
           /\ k.op = "query" => k.query \in Queries
           /\ k.op = "id" => k.id \in Ids \cup {None}
           /\ k.op = "post" => k.query \in Posts
           /\ k.op = "patch" => k.id \in Ids /\ k.query \in Patches
  BY TableAssumption DEF Calls

LEMMA PostsAreQueries == Posts \subseteq Queries /\ Patches \subseteq Queries
  BY TableAssumption DEF Posts, Patches, Queries

\* Queries of values are queries of what requests carry.
LEMMA PlainCarried ==
    Queries \subseteq UNION {[fs -> Carried] : fs \in SUBSET Fields}
  BY DEF Queries, Carried

\* What a request is made of.
LEMMA RequestParts ==
    ASSUME NEW verb \in Verbs, NEW at \in {List} \cup Ids,
           NEW query \in UNION {[fs -> Carried] : fs \in SUBSET Fields},
           NEW token \in BOOLEAN, NEW excess \in BOOLEAN
    PROVE  [verb |-> verb, at |-> at, query |-> query, token |-> token, excess |-> excess]
               \in Requests
  BY DEF Requests

LEMMA RequestType ==
    ASSUME NEW k \in Calls, ~ No_id(k)
    PROVE  Request_of(k) \in Requests
  <1>1. CASE k.op = "query"
    <2>1. Json_to_query_string(k.query) \in UNION {[fs -> Carried] : fs \in SUBSET Fields}
          /\ Excess(k.query) \in BOOLEAN
      BY <1>1, CallFacts, QueryType
    <2>2. Request_of(k) = Get_list(k.query, k.token)
      BY <1>1 DEF Request_of
    <2>3. QED
      BY <2>1, <2>2, CallFacts, RequestParts DEF Get_list, Verbs
  <1>2. CASE k.op = "id"
    <2>1. [f \in {} |-> None] \in UNION {[fs -> Carried] : fs \in SUBSET Fields}
      <3>1. [f \in {} |-> None] \in [{} -> Carried]
        OBVIOUS
      <3>2. QED
        BY <3>1
    <2>2. k.id \in Ids
      BY <1>2, CallFacts DEF No_id
    <2>3. Request_of(k) = Get_by_id(k.id, k.token)
      BY <1>2 DEF Request_of
    <2>4. QED
      BY <2>1, <2>2, <2>3, RequestParts DEF Get_by_id, Verbs
  <1>3. CASE k.op = "post"
    <2>1. k.query \in UNION {[fs -> Carried] : fs \in SUBSET Fields}
      BY <1>3, CallFacts, PostsAreQueries, PlainCarried
    <2>2. Request_of(k) = Write(List, k.query, k.token)
      BY <1>3 DEF Request_of
    <2>3. QED
      BY <2>1, <2>2, CallFacts, RequestParts DEF Write, Verbs
  <1>4. CASE k.op = "patch"
    <2>1. k.query \in UNION {[fs -> Carried] : fs \in SUBSET Fields} /\ k.id \in Ids
      BY <1>4, CallFacts, PostsAreQueries, PlainCarried
    <2>2. Request_of(k) = Write(k.id, k.query, k.token)
      BY <1>4 DEF Request_of
    <2>3. QED
      BY <2>1, <2>2, CallFacts, RequestParts DEF Write, Verbs
  <1>5. QED
    BY <1>1, <1>2, <1>3, <1>4, CallFacts

-----------------------------------------------------------------------------
(* The table.                                                              *)

\* A row and its unique key stay.
Grows ==
    \A i \in Ids :
        table[i] # None =>
            table'[i] # None /\ \A f \in Unique : table'[i][f] = table[i][f]

LEMMA FoundRows ==
    ASSUME table \in Tables, NEW query, NEW row \in Found(table, query)
    PROVE  /\ row \in Rows \cup {None}
           /\ row # None => Agrees(row.data, query) /\ Kept_row(row)
  <1>1. CASE row = None
    BY <1>1
  <1>2. CASE row # None
    <2>1. PICK i \in Ids : table[i] # None /\ Agrees(table[i], query) /\ row = Row(table, i)
      BY <1>2 DEF Found
    <2>2. row.id = i /\ row.data = table[i] /\ row \in Rows
      BY <2>1 DEF Row, Rows, Tables
    <2>3. QED
      BY <2>1, <2>2 DEF Kept_row
  <1>3. QED
    BY <1>1, <1>2

LEMMA RowFacts ==
    ASSUME table \in Tables, NEW i \in Ids, table[i] # None
    PROVE  Row(table, i) \in Rows /\ Row(table, i).id = i /\ Row(table, i) # None
           /\ Kept_row(Row(table, i))
  <1>1. Row(table, i) \in Rows
    BY DEF Row, Rows, Tables
  <1>2. QED
    BY <1>1, NoneAssumption DEF Row, Kept_row

LEMMA PostFacts ==
    ASSUME table \in Tables, UniqueKeys, NEW data \in Posts, ~ Conflict(table, data),
           NEW i \in Ids, Next_id(table, i), table' = Inserted(table, i, data)
    PROVE  /\ table' \in Tables /\ UniqueKeys' /\ Grows
           /\ Row(table', i) \in Rows /\ Row(table', i) # None /\ Row(table', i).id = i
           /\ Agrees(Row(table', i).data, data) /\ Kept_row(Row(table, i))'
  <1> DEFINE new == [f \in Fields |-> Stored(data[f])]
  <1>1. new \in [Fields -> Kept]
    BY ValueFacts DEF Posts
  <1>2. /\ table'[i] = new /\ table' \in Tables
        /\ \A j \in Ids : j # i => table'[j] = table[j]
    BY <1>1 DEF Inserted, Tables
  <1>3. Grows
    BY <1>2 DEF Grows, Next_id
  <1>4. UniqueKeys'
    <2>1. \A f \in Unique : new[f] = Stored(data[f])
      BY TableAssumption
    <2>2. Unique # {} =>
            \A j \in Ids : table[j] # None => \E f \in Unique : table[j][f] # new[f]
      BY <2>1 DEF Conflict
    <2>3. QED
      BY <1>2, <2>2 DEF UniqueKeys
  <1>5. Row(table', i) = [id |-> i, data |-> new] /\ Row(table', i) \in Rows
    BY <1>1, <1>2 DEF Row, Rows
  <1>6. new # None
    BY <1>1, NoneAssumption
  <1>7. Agrees(new, data)
    BY DEF Agrees, Posts
  <1>8. Kept_row(Row(table, i))'
    BY <1>2, <1>5, <1>6 DEF Kept_row
  <1>9. QED
    BY <1>2, <1>8, <1>3, <1>4, <1>5, <1>6, <1>7, NoneAssumption

LEMMA PatchFacts ==
    ASSUME table \in Tables, UniqueKeys, NEW data \in Patches, NEW i \in Ids, table[i] # None,
           table' = Updated(table, i, data)
    PROVE  /\ table' \in Tables /\ UniqueKeys' /\ Grows
           /\ Row(table', i) \in Rows /\ Row(table', i) # None /\ Row(table', i).id = i
           /\ Agrees(Row(table', i).data, data) /\ Kept_row(Row(table, i))'
  <1> DEFINE new == [f \in Fields |-> IF f \in DOMAIN data THEN Stored(data[f]) ELSE table[i][f]]
  <1>0. table[i] \in [Fields -> Kept] /\ data \in [Fields \ Unique -> Values]
    BY DEF Tables, Patches
  <1>1. new \in [Fields -> Kept]
    BY <1>0, ValueFacts
  <1>2. /\ table'[i] = new /\ table' \in Tables
        /\ \A j \in Ids : j # i => table'[j] = table[j]
    BY <1>1 DEF Updated, Tables
  <1>3. \A f \in Unique : new[f] = table[i][f]
    BY <1>0, TableAssumption
  <1>4. new # None
    BY <1>1, NoneAssumption
  <1>5. Grows
    BY <1>2, <1>3, <1>4 DEF Grows
  <1>6. UniqueKeys'
    BY <1>2, <1>3 DEF UniqueKeys
  <1>7. Row(table', i) = [id |-> i, data |-> new] /\ Row(table', i) \in Rows
    BY <1>1, <1>2 DEF Row, Rows
  <1>8. Agrees(new, data)
    BY <1>0 DEF Agrees
  <1>9. Kept_row(Row(table, i))'
    BY <1>2, <1>4, <1>7 DEF Kept_row
  <1>10. QED
    BY <1>2, <1>9, <1>5, <1>6, <1>7, <1>8, NoneAssumption

\* What the growth of the table leaves true.
LEMMA GrowthKeeps ==
    ASSUME Grows
    PROVE  /\ \A row \in Rows : Kept_row(row) => Kept_row(row)'
           /\ \A data \in Posts : Conflict(table, data) => Conflict(table, data)'
  <1>1. \A row \in Rows : Kept_row(row) => Kept_row(row)'
    BY DEF Grows, Kept_row, Rows
  <1>2. \A data \in Posts : Conflict(table, data) => Conflict(table, data)'
    BY DEF Grows, Conflict
  <1>3. QED
    BY <1>1, <1>2

-----------------------------------------------------------------------------
(* What the registry serves and answers.                                   *)

LEMMA RequestCases ==
    ASSUME IInv, NEW c \in Clients, request[c] # None
    PROVE  /\ call[c] \in Calls /\ response[c] = None /\ result[c] = NoResult
           /\ request[c] \in Requests
           /\ LET k == call[c]
              IN  \/ k.op = "query" /\ request[c] = Get_list(k.query, k.token)
                  \/ k.op = "id" /\ k.id \in Ids /\ request[c] = Get_by_id(k.id, k.token)
                  \/ k.op = "post" /\ request[c] = Write(List, k.query, k.token)
                  \/ k.op = "patch" /\ k.id \in Ids /\ request[c] = Write(k.id, k.query, k.token)
                  \/ LooksUp(c)
  <1>1. call[c] \in Calls /\ response[c] = None /\ result[c] = NoResult /\ request[c] \in Requests
    BY DEF IInv, OneAtATime, Pending, Types
  <1>2. (request[c] = Request_of(call[c]) /\ ~ No_id(call[c])) \/ LooksUp(c)
    BY DEF IInv, RequestsOfCalls
  <1>3. ASSUME request[c] = Request_of(call[c]), ~ No_id(call[c]), ~ LooksUp(c)
        PROVE  LET k == call[c]
               IN  \/ k.op = "query" /\ request[c] = Get_list(k.query, k.token)
                   \/ k.op = "id" /\ k.id \in Ids /\ request[c] = Get_by_id(k.id, k.token)
                   \/ k.op = "post" /\ request[c] = Write(List, k.query, k.token)
                   \/ /\ k.op = "patch" /\ k.id \in Ids
                      /\ request[c] = Write(k.id, k.query, k.token)
    <2> DEFINE k == call[c]
    <2>1. CASE k.op = "query"
      BY <1>3, <2>1 DEF Request_of
    <2>2. CASE k.op = "id"
      <3>1. k.id \in Ids
        BY <1>1, <1>3, <2>2, CallFacts DEF No_id
      <3>2. request[c] = Get_by_id(k.id, k.token)
        BY <1>3, <2>2 DEF Request_of
      <3>3. QED
        BY <2>2, <3>1, <3>2
    <2>3. CASE k.op = "post"
      BY <1>3, <2>3 DEF Request_of
    <2>4. CASE k.op = "patch"
      <3>1. k.id \in Ids
        BY <1>1, <2>4, CallFacts
      <3>2. request[c] = Write(k.id, k.query, k.token)
        BY <1>3, <2>4 DEF Request_of
      <3>3. QED
        BY <2>4, <3>1, <3>2
    <2>5. QED
      BY <1>1, <2>1, <2>2, <2>3, <2>4, CallFacts
  <1>4. QED
    BY <1>1, <1>2, <1>3

\* The verb and the place of a request tell the call it is for.
LEMMA RequestKinds ==
    ASSUME IInv, NEW c \in Clients, request[c] # None
    PROVE  LET q == request[c]
               k == call[c]
           IN  /\ q.verb = "WRITE" /\ q.at = List =>
                     k.op = "post" /\ q.query = k.query /\ k.query \in Posts
               /\ q.verb = "WRITE" /\ q.at \in Ids =>
                     k.op = "patch" /\ k.id = q.at /\ q.query = k.query /\ k.query \in Patches
               /\ q.verb = "GET" /\ q.at \in Ids => k.op = "id" /\ k.id = q.at
               /\ q.verb = "GET" /\ q.at = List =>
                     /\ k.op = "query" \/ (k.op = "post" /\ Conflict(table, k.query))
                     /\ k.query \in Queries /\ q.query = Json_to_query_string(k.query)
  <1> DEFINE q == request[c]
             k == call[c]
  <1>1. k \in Calls /\ q \in Requests
    BY RequestCases
  <1>2. \/ k.op = "query" /\ q = Get_list(k.query, k.token)
        \/ k.op = "id" /\ k.id \in Ids /\ q = Get_by_id(k.id, k.token)
        \/ k.op = "post" /\ q = Write(List, k.query, k.token)
        \/ k.op = "patch" /\ k.id \in Ids /\ q = Write(k.id, k.query, k.token)
        \/ LooksUp(c)
    BY RequestCases
  <1>3. List \notin Ids
    BY DEF List, Ids
  <1>4. QED
    BY <1>1, <1>2, <1>3, CallFacts, PostsAreQueries DEF Get_list, Get_by_id, Write, LooksUp, Look_up

\* The answer that the registry gives fits the call, whatever becomes of it.
Fits(k, code, row) ==
    /\ code \in Codes /\ row \in Rows \cup {None}
    /\ code \in {200, 201} => code = Expected(k) \/ k.op = "post"
    /\ code \in {200, 201} /\ row # None /\ LegibleCall(k) => Matches(k, row)
    /\ code = 409 => k.op = "post"

LEMMA ServeFacts ==
    ASSUME IInv, NEW c \in Clients, NEW arrives \in BOOLEAN, Serve(c, arrives)
    PROVE  /\ table' \in Tables /\ UniqueKeys' /\ Grows
           /\ \E code, row :
                 /\ Reply(c, code, row, arrives) /\ Fits(call[c], code, row)
                 /\ ~ No_id(call[c])
                 /\ code \in {200, 201} /\ row # None => Kept_row(row)'
                 /\ code = 409 => Conflict(table, call[c].query)'
                 /\ code = 401 /\ call[c].token =>
                       \/ call[c].op = "id"
                       \/ /\ call[c].op = "post" /\ "GET" \in closed
                          /\ Conflict(table, call[c].query)'
  <1> DEFINE q == request[c]
             k == call[c]
  <1> USE DEF Serve
  <1>1. q # None /\ table \in Tables /\ UniqueKeys
    BY DEF IInv, Types
  <1>2. k \in Calls /\ q \in Requests
    BY <1>1, RequestCases
  <1>3. \/ k.op = "query" /\ q = Get_list(k.query, k.token)
        \/ k.op = "id" /\ k.id \in Ids /\ q = Get_by_id(k.id, k.token)
        \/ k.op = "post" /\ q = Write(List, k.query, k.token)
        \/ k.op = "patch" /\ k.id \in Ids /\ q = Write(k.id, k.query, k.token)
        \/ LooksUp(c)
    BY <1>1, RequestCases
  <1>0. ~ No_id(k)
    BY <1>2, <1>3, NoneAssumption DEF No_id, LooksUp
  <1>4. q.verb = "WRITE" /\ q.at = List =>
          k.op = "post" /\ q.query = k.query /\ k.query \in Posts
    BY <1>1, RequestKinds
  <1>5. q.verb = "WRITE" /\ q.at \in Ids =>
          k.op = "patch" /\ k.id = q.at /\ q.query = k.query /\ k.query \in Patches
    BY <1>1, RequestKinds
  <1>6. q.verb = "GET" /\ q.at \in Ids => k.op = "id" /\ k.id = q.at
    BY <1>1, RequestKinds
  <1>7. q.verb = "GET" /\ q.at = List =>
          /\ k.op \in {"query", "post"} /\ k.query \in Queries
          /\ q.query = Json_to_query_string(k.query)
    BY <1>1, RequestKinds
  <1>8. CASE Refuse(c, q, arrives)
    <2>1. table' = table /\ Grows
      BY <1>8 DEF Refuse, Grows
    <2>2. UniqueKeys'
      BY <1>1, <2>1 DEF UniqueKeys
    <2>3. \A data : Conflict(table, data)' <=> Conflict(table, data)
      BY <2>1 DEF Conflict
    <2>4. CASE Refused(q) /\ Reply(c, 401, None, arrives)
      <3>1. ASSUME k.token
            PROVE  \/ k.op = "id"
                   \/ k.op = "post" /\ "GET" \in closed /\ Conflict(table, k.query)
        BY <1>2, <1>3, <2>4, <3>1 DEF Refused, Get_list, Get_by_id, Write, LooksUp, Look_up
      <3>2. Fits(k, 401, None)
        BY DEF Fits, Codes
      <3>3. QED
        BY <1>0, <1>1, <2>1, <2>2, <2>3, <2>4, <3>1, <3>2
    <2>5. CASE Reply(c, 400, None, arrives) \/ Reply(c, 404, None, arrives)
      <3>1. Fits(k, 400, None) /\ Fits(k, 404, None)
        BY DEF Fits, Codes
      <3>2. QED
        BY <1>0, <1>1, <2>1, <2>2, <2>5, <3>1
    <2>6. CASE /\ q.verb = "WRITE" /\ q.at = List /\ Conflict(table, q.query)
               /\ Reply(c, 409, None, arrives)
      <3>1. Fits(k, 409, None) /\ Conflict(table, k.query)
        BY <1>4, <2>6 DEF Fits, Codes
      <3>2. QED
        BY <1>0, <1>1, <2>1, <2>2, <2>3, <2>6, <3>1
    <2>7. QED
      BY <1>8, <2>4, <2>5, <2>6 DEF Refuse
  <1>9. CASE Get(c, q, arrives)
    <2>1. table' = table /\ Grows
      BY <1>9 DEF Get, Grows
    <2>2. UniqueKeys' /\ \A row : Kept_row(row) => Kept_row(row)'
      BY <1>1, <2>1 DEF UniqueKeys, Kept_row
    <2>3. CASE q.verb = "GET" /\ q.at = List
               /\ \E row \in Found(table, q.query) : Reply(c, 200, row, arrives)
      <3>1. PICK row \in Found(table, q.query) : Reply(c, 200, row, arrives)
        BY <2>3
      <3>2. row \in Rows \cup {None}
            /\ (row # None => Agrees(row.data, q.query) /\ Kept_row(row))
        BY <1>1, FoundRows
      <3>3. row # None /\ LegibleCall(k) => Agrees(row.data, k.query)
        BY <1>7, <2>3, <3>2, LegibleQuery DEF LegibleCall
      <3>4. Fits(k, 200, row)
        BY <1>7, <2>3, <3>2, <3>3 DEF Fits, Codes, Matches, Expected
      <3>5. QED
        BY <1>0, <1>1, <2>1, <2>2, <3>1, <3>2, <3>4
    <2>4. CASE q.verb = "GET" /\ q.at \in Ids /\ table[q.at] # None
               /\ Reply(c, 200, Row(table, q.at), arrives)
      <3>1. /\ Row(table, q.at) \in Rows /\ Row(table, q.at).id = q.at
            /\ Kept_row(Row(table, q.at))
        BY <1>1, <2>4, RowFacts
      <3>2. Fits(k, 200, Row(table, q.at))
        BY <1>6, <2>4, <3>1 DEF Fits, Codes, Matches, Expected
      <3>3. QED
        BY <1>0, <1>1, <2>1, <2>2, <2>4, <3>1, <3>2
    <2>5. QED
      BY <1>9, <2>3, <2>4 DEF Get
  <1>10. CASE Post(c, q, arrives)
    <2>1. PICK i \in Ids : /\ Next_id(table, i) /\ table' = Inserted(table, i, k.query)
                           /\ Reply(c, 201, Row(table', i), arrives)
      BY <1>4, <1>10 DEF Post
    <2>2. k.query \in Posts /\ ~ Conflict(table, k.query) /\ k.op = "post"
      BY <1>4, <1>10 DEF Post
    <2>3. /\ table' \in Tables /\ UniqueKeys' /\ Grows
          /\ Row(table', i) \in Rows /\ Agrees(Row(table', i).data, k.query)
          /\ Kept_row(Row(table, i))'
      BY <1>1, <2>1, <2>2, PostFacts
    <2>4. Fits(k, 201, Row(table', i))
      BY <2>2, <2>3 DEF Fits, Codes, Matches, Expected
    <2>5. QED
      BY <1>0, <2>1, <2>3, <2>4
  <1>11. CASE Patch(c, q, arrives)
    <2>1. /\ table[k.id] # None /\ table' = Updated(table, k.id, k.query)
          /\ Reply(c, 200, Row(table', k.id), arrives)
          /\ k.op = "patch" /\ k.id \in Ids /\ k.query \in Patches
      BY <1>5, <1>11 DEF Patch
    <2>2. /\ table' \in Tables /\ UniqueKeys' /\ Grows
          /\ Row(table', k.id) \in Rows /\ Row(table', k.id).id = k.id
          /\ Agrees(Row(table', k.id).data, k.query) /\ Kept_row(Row(table, k.id))'
      BY <1>1, <2>1, PatchFacts
    <2>3. Fits(k, 200, Row(table', k.id))
      BY <2>1, <2>2 DEF Fits, Codes, Matches, Expected
    <2>4. call' = call
      OBVIOUS
    <2>5. PICK row : row = Row(table', k.id)
      OBVIOUS
    <2>6. Kept_row(row)'
      BY <2>2, <2>4, <2>5 DEF Kept_row, Row
    <2>7. QED
      BY <1>0, <2>1, <2>2, <2>3, <2>5, <2>6
  <1>12. QED
    BY <1>8, <1>9, <1>10, <1>11

-----------------------------------------------------------------------------
(* IInv is inductive.                                                      *)

LEMMA InitIInv == Init => IInv
  <1> SUFFICES ASSUME Init PROVE IInv
    OBVIOUS
  <1> USE DEF Init
  <1>1. Types
    <2>1. table \in Tables
      BY DEF Tables
    <2>2. NoResult \in Results
      BY DEF NoResult, Results
    <2>3. calls \in 0 .. MaxCalls /\ faults \in 0 .. MaxFaults
      BY BoundAssumption
    <2>4. QED
      BY <2>1, <2>2, <2>3, BoundAssumption DEF Types
  <1>2. \A c \in Clients : request[c] = None /\ response[c] = None /\ ~ Returned(c)
    BY DEF Returned, NoResult
  <1>3. OneAtATime /\ RequestsOfCalls /\ AnswersOfCalls /\ RowsReturned
    BY <1>2 DEF OneAtATime, RequestsOfCalls, AnswersOfCalls, RowsReturned
  <1>4. UniqueKeys /\ LegibleAnswersMatch /\ TokenReaches
    BY <1>2 DEF UniqueKeys, LegibleAnswersMatch, TokenReaches
  <1>5. QED
    BY <1>1, <1>3, <1>4 DEF IInv

\* A step that leaves the table alone leaves what is said of it.
LEMMA TableAlone ==
    ASSUME table' = table
    PROVE  /\ UniqueKeys => UniqueKeys'
           /\ \A row : Kept_row(row) => Kept_row(row)'
           /\ \A data : Conflict(table, data) => Conflict(table, data)'
  BY DEF UniqueKeys, Kept_row, Conflict

LEMMA BeginStep ==
    ASSUME IInv, NEW c \in Clients, NEW k \in Calls, Begin(c, k)
    PROVE  IInv'
  <1> USE DEF Begin
  <1>1. Types /\ request[c] = None /\ response[c] = None
    BY DEF IInv, OneAtATime
  <1>2. request'[c] = (IF No_id(k) THEN None ELSE Request_of(k))
        /\ call'[c] = k /\ result'[c] = NoResult /\ response' = response
    BY <1>1 DEF Types
  <1>3. Types'
    <2>1. request' \in [Clients -> Requests \cup {None}]
      BY <1>1, RequestType DEF Types
    <2>2. result' \in [Clients -> Results]
      BY <1>1 DEF Types, NoResult, Results
    <2>3. calls' \in 0 .. MaxCalls
      BY <1>1, BoundAssumption DEF Types
    <2>4. QED
      BY <1>1, <2>1, <2>2, <2>3 DEF Types
  <1>4. \A d \in Clients : d # c =>
          /\ request'[d] = request[d] /\ call'[d] = call[d] /\ result'[d] = result[d]
    BY <1>1 DEF Types
  <1>5. k # None /\ ~ Returned(c)'
    BY <1>2, CallAssumption DEF Returned, NoResult
  <1>6. OneAtATime'
    BY <1>1, <1>2, <1>4, <1>5 DEF OneAtATime, Pending, IInv
  <1>7. RequestsOfCalls'
    BY <1>1, <1>2, <1>4, TableAlone DEF RequestsOfCalls, LooksUp, IInv
  <1>8. AnswersOfCalls' /\ TokenReaches'
    BY <1>1, <1>2, <1>4, TableAlone DEF AnswersOfCalls, AnswerFits, TokenReaches, IInv
  <1>9. RowsReturned' /\ LegibleAnswersMatch'
    BY <1>2, <1>4, <1>5, TableAlone DEF RowsReturned, LegibleAnswersMatch, Returned, Got, IInv
  <1>10. QED
    BY <1>3, <1>6, <1>7, <1>8, <1>9, TableAlone DEF IInv

\* A call that throws leaves nothing on its way.
LEMMA ThrowStep ==
    ASSUME IInv, NEW c \in Clients, response[c] = None, calls' = calls,
           faults' \in 0 .. MaxFaults,
           request' = [request EXCEPT ![c] = None], result' = [result EXCEPT ![c] = Threw],
           UNCHANGED <<table, closed, call, response>>
    PROVE  IInv'
  <1>1. Types /\ request'[c] = None /\ response'[c] = None /\ result'[c] = Threw
    BY DEF IInv, Types
  <1>2. Types'
    BY <1>1 DEF Types, Threw, Results
  <1>3. \A d \in Clients : d # c => request'[d] = request[d] /\ result'[d] = result[d]
    BY <1>1 DEF Types
  <1>4. ~ Returned(c)'
    BY <1>1 DEF Returned, Threw
  <1>5. OneAtATime' /\ RequestsOfCalls'
    BY <1>1, <1>3, TableAlone DEF OneAtATime, Pending, RequestsOfCalls, LooksUp, IInv
  <1>6. AnswersOfCalls' /\ TokenReaches'
    BY <1>1, TableAlone DEF AnswersOfCalls, AnswerFits, TokenReaches, IInv
  <1>7. RowsReturned' /\ LegibleAnswersMatch'
    BY <1>3, <1>4, TableAlone DEF RowsReturned, LegibleAnswersMatch, Returned, Got, IInv
  <1>8. QED
    BY <1>2, <1>5, <1>6, <1>7, TableAlone DEF IInv

LEMMA ThrowNoIdStep ==
    ASSUME IInv, NEW c \in Clients, Throw_no_id(c)
    PROVE  IInv'
  <1>1. call[c] \in Calls /\ call[c].op = "id" /\ No_id(call[c]) /\ result[c] = NoResult
    BY DEF Throw_no_id, No_id, Pending, IInv, Types
  <1>2. UNCHANGED <<table, closed, call, response, request, calls, faults>>
        /\ result' = [result EXCEPT ![c] = Threw]
    BY DEF Throw_no_id
  <1>3. request[c] = None
    BY <1>1 DEF IInv, RequestsOfCalls, LooksUp
  <1>4. Types /\ result'[c] = Threw /\ ~ Returned(c)'
    BY <1>2 DEF IInv, Types, Returned, Threw
  <1>5. \A d \in Clients : d # c => result'[d] = result[d]
    BY <1>2, <1>4 DEF Types
  <1>6. response[c] = None
    BY <1>1 DEF IInv, AnswersOfCalls, AnswerFits
  <1>7. request' = [request EXCEPT ![c] = None] /\ faults' \in 0 .. MaxFaults
    BY <1>2, <1>3, <1>4 DEF Types
  <1>8. QED
    BY <1>2, <1>6, <1>7, ThrowStep

LEMMA LoseStep ==
    ASSUME IInv, NEW c \in Clients, Lose(c)
    PROVE  IInv'
  <1>1. response[c] = None
    BY DEF Lose, IInv, OneAtATime
  <1>2. faults' \in 0 .. MaxFaults
    BY BoundAssumption DEF Lose, IInv, Types
  <1>3. QED
    BY <1>1, <1>2, ThrowStep DEF Lose

\* What a client knows when it reads an answer.
LEMMA ReceiveFacts ==
    ASSUME IInv, NEW c \in Clients, Receive(c)
    PROVE  /\ request[c] = None /\ call[c] \in Calls /\ ~ No_id(call[c])
           /\ result[c] = NoResult /\ response[c] \in Responses
           /\ response' = [response EXCEPT ![c] = None]
           /\ \/ /\ response[c].code \in {200, 201} /\ request' = request
                 /\ result' = [result EXCEPT ![c] = Returns(response[c].row)]
              \/ /\ response[c].code = 409 /\ call[c].op = "post" /\ result' = result
                 /\ Conflict(table, call[c].query)
                 /\ request' = [request EXCEPT ![c] = Look_up(call[c])]
              \/ /\ request' = [request EXCEPT ![c] = None]
                 /\ result' = [result EXCEPT ![c] = Threw]
  <1>1. request[c] = None /\ result[c] = NoResult /\ call[c] # None /\ ~ No_id(call[c])
    BY DEF Receive, IInv, OneAtATime, Pending, AnswersOfCalls, AnswerFits
  <1>2. call[c] \in Calls /\ response[c] \in Responses
        /\ request \in [Clients -> Requests \cup {None}]
    BY <1>1 DEF Receive, IInv, Types
  <1>3. request = [request EXCEPT ![c] = None]
    BY <1>1, <1>2
  <1>4. response[c].code = 409 => call[c].op = "post" /\ Conflict(table, call[c].query)
    BY DEF Receive, IInv, AnswersOfCalls, AnswerFits
  <1>5. Answered(c) => response[c].code \in {200, 201}
    BY DEF Answered, Looks_up, Expected
  <1>6. QED
    BY <1>1, <1>2, <1>3, <1>4, <1>5 DEF Receive

LEMMA ReceiveStep ==
    ASSUME IInv, NEW c \in Clients, Receive(c)
    PROVE  IInv'
  <1>0. /\ request[c] = None /\ call[c] \in Calls /\ ~ No_id(call[c])
        /\ result[c] = NoResult /\ response[c] \in Responses
        /\ response' = [response EXCEPT ![c] = None]
        /\ \/ /\ response[c].code \in {200, 201} /\ request' = request
              /\ result' = [result EXCEPT ![c] = Returns(response[c].row)]
           \/ /\ response[c].code = 409 /\ call[c].op = "post" /\ result' = result
              /\ Conflict(table, call[c].query)
              /\ request' = [request EXCEPT ![c] = Look_up(call[c])]
           \/ /\ request' = [request EXCEPT ![c] = None]
              /\ result' = [result EXCEPT ![c] = Threw]
    BY ReceiveFacts
  <1>1. Types /\ UNCHANGED <<table, closed, call, calls, faults>>
    BY DEF Receive, IInv
  <1> DEFINE Back == response[c].code \in {200, 201} /\ request' = request
                     /\ result' = [result EXCEPT ![c] = Returns(response[c].row)]
             Again == response[c].code = 409 /\ call[c].op = "post" /\ result' = result
                      /\ Conflict(table, call[c].query)
                      /\ request' = [request EXCEPT ![c] = Look_up(call[c])]
             Thrown == request' = [request EXCEPT ![c] = None]
                       /\ result' = [result EXCEPT ![c] = Threw]
  <1>a. Back \/ Again \/ Thrown
    BY <1>0
  <1>b. /\ request \in [Clients -> Requests \cup {None}] /\ result \in [Clients -> Results]
        /\ response \in [Clients -> Responses \cup {None}]
    BY <1>1 DEF Types
  <1>c. Look_up(call[c]) \in Requests \/ ~ Again
    BY <1>0, CallFacts, PostsAreQueries, QueryType DEF Look_up, Get_list, Requests, Verbs
  <1>d. Threw \in Results /\ Returns(response[c].row) \in Results
    BY <1>0 DEF Threw, Returns, Results, Responses
  <1>2. \A d \in Clients : d # c =>
          response'[d] = response[d] /\ request'[d] = request[d] /\ result'[d] = result[d]
    <2>1. \A d \in Clients : d # c => response'[d] = response[d]
      BY <1>0, <1>b
    <2>2. CASE Back
      BY <1>b, <2>1, <2>2
    <2>3. CASE Again
      BY <1>b, <2>1, <2>3
    <2>4. CASE Thrown
      BY <1>b, <2>1, <2>4
    <2>5. QED
      BY <1>a, <2>2, <2>3, <2>4
  <1>3. response'[c] = None /\ response' \in [Clients -> Responses \cup {None}]
    BY <1>0, <1>1 DEF Types
  <1>4. Types'
    <2>1. request' \in [Clients -> Requests \cup {None}] /\ result' \in [Clients -> Results]
      <3>1. CASE Back
        BY <1>b, <1>d, <3>1
      <3>2. CASE Again
        BY <1>b, <1>c, <3>2
      <3>3. CASE Thrown
        BY <1>b, <1>d, <3>3
      <3>4. QED
        BY <1>a, <3>1, <3>2, <3>3
    <2>2. QED
      BY <1>0, <1>1, <1>3, <2>1 DEF Types
  <1>5. OneAtATime'
    <2>1. request'[c] # None => result'[c] = NoResult /\ call[c] # None
      BY <1>0, <1>1, CallAssumption DEF Types
    <2>2. QED
      BY <1>0, <1>1, <1>2, <1>3, <2>1 DEF OneAtATime, Pending, IInv
  <1>6. RequestsOfCalls'
    <2>1. request'[c] # None => LooksUp(c)'
      <3>1. request'[c] # None => Again
        BY <1>0, <1>a, <1>b
      <3>2. Again => LooksUp(c)'
        BY <1>1, <1>b DEF LooksUp, Conflict
      <3>3. QED
        BY <3>1, <3>2
    <2>2. ASSUME NEW d \in Clients, d # c, request[d] # None
          PROVE  (request'[d] = Request_of(call'[d]) /\ ~ No_id(call'[d])) \/ LooksUp(d)'
      <3>1. (request[d] = Request_of(call[d]) /\ ~ No_id(call[d])) \/ LooksUp(d)
        BY <2>2 DEF IInv, RequestsOfCalls
      <3>2. LooksUp(d) => LooksUp(d)'
        BY <1>1, <1>2, <2>2 DEF LooksUp, Conflict
      <3>3. QED
        BY <1>1, <1>2, <2>2, <3>1, <3>2
    <2>3. QED
      BY <1>2, <2>1, <2>2 DEF RequestsOfCalls
  <1>7. AnswersOfCalls'
    BY <1>0, <1>1, <1>2, <1>3, TableAlone DEF AnswersOfCalls, AnswerFits, IInv
  <1>8. TokenReaches'
    BY <1>0, <1>1, <1>2, <1>3, TableAlone DEF TokenReaches, IInv
  <1>9. Returned(c)' =>
          /\ call[c] # None /\ Got(c)' = response[c].row
          /\ Got(c)' # None =>
                (LegibleCall(call[c]) => Matches(call[c], Got(c)')) /\ Kept_row(Got(c))'
    <2> SUFFICES ASSUME Returned(c)'
                 PROVE  /\ call[c] # None /\ Got(c)' = response[c].row
                        /\ Got(c)' # None =>
                               /\ LegibleCall(call[c]) => Matches(call[c], Got(c)')
                               /\ Kept_row(Got(c))'
      OBVIOUS
    <2>1. response[c].code \in {200, 201} /\ result'[c] = Returns(response[c].row)
      <3>1. ~ Again
        <4>1. result[c] = NoResult
          BY <1>0
        <4>2. Again => ~ Returned(c)'
          BY <4>1 DEF Returned, NoResult
        <4>3. QED
          BY <4>2
      <3>2. ~ Thrown
        BY <1>b DEF Returned, Threw
      <3>3. Back => result'[c] = Returns(response[c].row)
        BY <1>b
      <3>4. QED
        BY <1>a, <3>1, <3>2, <3>3
    <2>2. Got(c)' = response[c].row
      BY <2>1 DEF Got, Returns
    <2>3. response[c] # None
      BY DEF Receive
    <2>4. response[c].row # None =>
            (LegibleCall(call[c]) => Matches(call[c], response[c].row)) /\ Kept_row(response[c].row)
      BY <2>1, <2>3 DEF IInv, AnswersOfCalls, AnswerFits
    <2>5. call[c] # None
      BY <1>0, CallAssumption
    <2>6. QED
      BY <1>0, <1>1, <2>2, <2>4, <2>5 DEF Kept_row
  <1>10. \A d \in Clients : d # c =>
           (Returned(d)' <=> Returned(d)) /\ Got(d)' = Got(d)
    BY <1>2 DEF Returned, Got
  <1>11. LegibleAnswersMatch'
    BY <1>0, <1>1, <1>9, <1>10 DEF LegibleAnswersMatch, IInv
  <1>12. RowsReturned'
    BY <1>0, <1>1, <1>9, <1>10 DEF RowsReturned, Kept_row, IInv
  <1>13. QED
    BY <1>0, <1>1, <1>4, <1>5, <1>6, <1>7, <1>8, <1>11, <1>12, TableAlone DEF IInv

LEMMA ServeStep ==
    ASSUME IInv, NEW c \in Clients, NEW arrives \in BOOLEAN, Serve(c, arrives)
    PROVE  IInv'
  <1>1. PICK code, row :
           /\ Reply(c, code, row, arrives) /\ Fits(call[c], code, row)
           /\ ~ No_id(call[c])
           /\ code \in {200, 201} /\ row # None => Kept_row(row)'
           /\ code = 409 => Conflict(table, call[c].query)'
           /\ code = 401 /\ call[c].token =>
                 \/ call[c].op = "id"
                 \/ call[c].op = "post" /\ "GET" \in closed /\ Conflict(table, call[c].query)'
    BY ServeFacts
  <1>2. table' \in Tables /\ UniqueKeys' /\ Grows
    BY ServeFacts
  <1>3. Types /\ UNCHANGED <<closed, call, result, calls>>
    BY DEF Serve, IInv
  <1>4. /\ request'[c] = None
        /\ response'[c] = [code |-> code, row |-> row, arrives |-> arrives]
        /\ \A d \in Clients : d # c => response'[d] = response[d] /\ request'[d] = request[d]
    BY <1>1, <1>3 DEF Reply, Types
  <1>5. Types'
    <2>1. faults' \in 0 .. MaxFaults
      BY <1>3, BoundAssumption DEF Serve, Types
    <2>2. response' \in [Clients -> Responses \cup {None}]
      BY <1>1, <1>3 DEF Reply, Types, Fits, Responses
    <2>3. request' \in [Clients -> Requests \cup {None}]
      BY <1>1, <1>3 DEF Reply, Types
    <2>4. QED
      BY <1>2, <1>3, <2>1, <2>2, <2>3 DEF Types
  <1>6. call[c] \in Calls /\ call[c] # None /\ result[c] = NoResult
    BY RequestCases, CallAssumption DEF Serve
  <1>7. OneAtATime'
    BY <1>3, <1>4, <1>6 DEF OneAtATime, Pending, IInv
  <1>8. \A d \in Clients : \A data \in Posts : Conflict(table, data) => Conflict(table, data)'
    BY <1>2, GrowthKeeps
  <1>9. \A d \in Clients : call[d] \in Calls /\ call[d].op = "post" => call[d].query \in Posts
    BY CallFacts
  <1>10. RequestsOfCalls'
    <2> SUFFICES ASSUME NEW d \in Clients, request'[d] # None
                 PROVE  (request'[d] = Request_of(call'[d]) /\ ~ No_id(call'[d])) \/ LooksUp(d)'
      BY DEF RequestsOfCalls
    <2>1. d # c /\ request'[d] = request[d] /\ call'[d] = call[d]
      BY <1>3, <1>4
    <2>2. call[d] \in Calls
      BY <2>1, RequestCases
    <2>3. (request[d] = Request_of(call[d]) /\ ~ No_id(call[d])) \/ LooksUp(d)
      BY <2>1 DEF IInv, RequestsOfCalls
    <2>4. LooksUp(d) => LooksUp(d)'
      BY <1>8, <1>9, <2>1, <2>2 DEF LooksUp, Conflict
    <2>5. QED
      BY <2>1, <2>3, <2>4
  <1>11. \A r \in Rows : Kept_row(r) => Kept_row(r)'
    BY <1>2, GrowthKeeps
  <1>12. \A d \in Clients : response[d] # None => call[d] \in Calls /\ response[d] \in Responses
    BY <1>3 DEF IInv, OneAtATime, Pending, Types
  <1>13. AnswersOfCalls'
    <2>1. AnswerFits(call[c], response[c])'
      BY <1>1, <1>3, <1>4 DEF AnswerFits, Fits, Kept_row, Conflict
    <2>2. ASSUME NEW d \in Clients, d # c, response[d] # None
          PROVE  AnswerFits(call[d], response[d])'
      <3>1. response'[d] = response[d] /\ call'[d] = call[d]
        BY <1>3, <1>4, <2>2
      <3>2. AnswerFits(call[d], response[d])
        BY <2>2 DEF IInv, AnswersOfCalls
      <3>3. response[d].row \in Rows \cup {None}
        BY <1>12, <2>2 DEF Responses
      <3>4. response[d].row # None /\ Kept_row(response[d].row) => Kept_row(response[d].row)'
        BY <1>11, <3>1, <3>3 DEF Kept_row
      <3>5. call[d].op = "post" /\ Conflict(table, call[d].query) => Conflict(table, call[d].query)'
        BY <1>3, <1>8, <1>9, <1>12, <2>2 DEF Conflict
      <3>6. QED
        BY <3>1, <3>2, <3>4, <3>5 DEF AnswerFits
    <2>3. QED
      BY <1>4, <2>1, <2>2 DEF AnswersOfCalls
  <1>14. TokenReaches'
    <2> SUFFICES ASSUME NEW d \in Clients, response'[d] # None, response'[d].code = 401,
                        call'[d].token
                 PROVE  \/ call'[d].op = "id"
                        \/ /\ call'[d].op = "post" /\ "GET" \in closed'
                           /\ Conflict(table, call[d].query)'
      BY <1>3 DEF TokenReaches, Conflict
    <2>1. CASE d = c
      BY <1>1, <1>3, <1>4, <2>1
    <2>2. CASE d # c
      <3>1. response[d] # None /\ response[d].code = 401 /\ call[d].token
        BY <1>3, <1>4, <2>2
      <3>2. \/ call[d].op = "id"
            \/ call[d].op = "post" /\ "GET" \in closed /\ Conflict(table, call[d].query)
        BY <3>1 DEF IInv, TokenReaches
      <3>3. call[d].op = "post" /\ Conflict(table, call[d].query) => Conflict(table, call[d].query)'
        BY <1>3, <1>8, <1>9, <1>12, <3>1 DEF Conflict
      <3>4. QED
        BY <1>3, <3>2, <3>3
    <2>3. QED
      BY <2>1, <2>2
  <1>15. LegibleAnswersMatch'
    BY <1>3 DEF LegibleAnswersMatch, Returned, Got, IInv
  <1>16. RowsReturned'
    <2>1. \A d \in Clients : Got(d) \in Rows \cup {None}
      BY <1>3 DEF Types, Got, Results
    <2>2. QED
      BY <1>3, <1>11, <2>1 DEF RowsReturned, Returned, Got, Kept_row, IInv
  <1>17. QED
    BY <1>2, <1>5, <1>7, <1>10, <1>13, <1>14, <1>15, <1>16 DEF IInv

LEMMA NextIInv == IInv /\ [Next]_vars => IInv'
  <1> SUFFICES ASSUME IInv, [Next]_vars PROVE IInv'
    OBVIOUS
  <1>1. CASE UNCHANGED vars
    <2> USE <1>1 DEF vars
    <2>1. Types' /\ OneAtATime'
      BY DEF IInv, Types, OneAtATime, Pending
    <2>2. RequestsOfCalls' /\ UniqueKeys'
      BY DEF IInv, RequestsOfCalls, LooksUp, Conflict, UniqueKeys
    <2>3. AnswersOfCalls' /\ TokenReaches'
      BY DEF IInv, AnswersOfCalls, AnswerFits, Kept_row, Conflict, TokenReaches
    <2>4. RowsReturned' /\ LegibleAnswersMatch'
      BY DEF IInv, RowsReturned, LegibleAnswersMatch, Returned, Got, Kept_row
    <2>5. QED
      BY <2>1, <2>2, <2>3, <2>4 DEF IInv
  <1>2. ASSUME NEW c \in Clients, NEW k \in Calls, Begin(c, k) PROVE IInv'
    BY <1>2, BeginStep
  <1>3. ASSUME NEW c \in Clients, Throw_no_id(c) PROVE IInv'
    BY <1>3, ThrowNoIdStep
  <1>4. ASSUME NEW c \in Clients, Receive(c) PROVE IInv'
    BY <1>4, ReceiveStep
  <1>5. ASSUME NEW c \in Clients, NEW arrives \in BOOLEAN, Serve(c, arrives) PROVE IInv'
    BY <1>5, ServeStep
  <1>6. ASSUME NEW c \in Clients, Lose(c) PROVE IInv'
    BY <1>6, LoseStep
  <1>7. QED
    BY <1>1, <1>2, <1>3, <1>4, <1>5, <1>6 DEF Next

\* Every behaviour of the client keeps IInv, whatever its calls ask for.
THEOREM Inductive == Spec => []IInv
BY InitIInv, NextIInv, PTL DEF Spec

-----------------------------------------------------------------------------
(* The theorems.                                                           *)

\* The state is well-typed, every request and every answer on its way too, and
\* a client waits for one of them at a time.
THEOREM TypeCorrect == Spec => []TypeOK
  <1>1. IInv => TypeOK
    BY DEF IInv, TypeOK
  <1>2. QED
    BY <1>1, Inductive, PTL

\* The token is left behind at get_by_id and at the look-up after 409 only
\* (api.cxx:98-102, 285), also where a query is cut short.
THEOREM TokensReach == Spec => []TokenReaches
  <1>1. IInv => TokenReaches
    BY DEF IInv
  <1>2. QED
    BY <1>1, Inductive, PTL

\* A call that returns a row returns one that has every field it posted,
\* patched or, if none needs an escape that json_to_query_string leaves out,
\* asked for: of any table, for any number of clients and calls, whatever is
\* lost and whatever the other calls ask for (api.cxx:167-206).
THEOREM LegibleAnswersAlwaysMatch == Spec => []LegibleAnswersMatch
  <1>1. IInv => LegibleAnswersMatch
    BY DEF IInv
  <1>2. QED
    BY <1>1, Inductive, PTL

\* Where the values are Legible, that is every call.
LEMMA LegibleCalls ==
    ASSUME Legible, NEW k \in Calls
    PROVE  LegibleCall(k)
  <1>1. k.op \in {"query", "post"} => k.query \in Queries
    BY CallFacts, PostsAreQueries
  <1>2. k.op \in {"query", "post"} => \A f \in DOMAIN k.query : k.query[f] \in Values
    BY <1>1 DEF Queries
  <1>3. QED
    BY <1>2 DEF LegibleCall, Legible

\* Where the values are Legible, every call that returns a row returns one
\* that has every field it asked for, posted or patched.
THEOREM AnswersAlwaysMatch == Legible => (Spec => []AnswersMatch)
  <1> SUFFICES ASSUME Legible PROVE Spec => []AnswersMatch
    OBVIOUS
  <1>1. IInv => AnswersMatch
    <2>1. IInv => \A c \in Clients : Returned(c) => call[c] \in Calls
      BY DEF IInv, RowsReturned, Types
    <2>2. QED
      BY <2>1, LegibleCalls DEF IInv, LegibleAnswersMatch, AnswersMatch
  <1>2. QED
    BY <1>1, Inductive, PTL

\* PostsAgree of the posts that, if they are looked up, are asked for whole.
LegiblePostsAgree ==
    \A c, d \in Clients :
        (/\ Unique # {} /\ Returned(c) /\ Returned(d)
         /\ call[c].op = "post" /\ call[d].op = "post"
         /\ LegibleCall(call[c]) /\ LegibleCall(call[d])
         /\ Got(c) # None /\ Got(d) # None
         /\ \A f \in Unique : Stored(call[c].query[f]) = Stored(call[d].query[f]))
        => Got(c).id = Got(d).id

\* Two rows that have been returned and agree on the unique key are one row.
LEMMA IInvPostsAgree == IInv => LegiblePostsAgree
  <1> SUFFICES ASSUME IInv, NEW c \in Clients, NEW d \in Clients,
                      Unique # {}, Returned(c), Returned(d),
                      call[c].op = "post", call[d].op = "post",
                      LegibleCall(call[c]), LegibleCall(call[d]),
                      Got(c) # None, Got(d) # None,
                      \A f \in Unique : Stored(call[c].query[f]) = Stored(call[d].query[f])
               PROVE  Got(c).id = Got(d).id
    BY DEF LegiblePostsAgree
  <1>1. Matches(call[c], Got(c)) /\ Matches(call[d], Got(d)) /\ Kept_row(Got(c)) /\ Kept_row(Got(d))
    BY DEF IInv, LegibleAnswersMatch, RowsReturned
  <1>2. call[c] \in Calls /\ call[d] \in Calls
    BY DEF IInv, RowsReturned, Types
  <1>3. Got(c) \in Rows /\ Got(d) \in Rows
    BY DEF IInv, Types, Got, Results
  <1>4. DOMAIN call[c].query = Fields /\ DOMAIN call[d].query = Fields
    BY <1>2, CallFacts DEF Posts
  <1>5. \A f \in Unique : Got(c).data[f] = Got(d).data[f]
    BY <1>1, <1>4, TableAssumption DEF Matches, Agrees
  <1>6. QED
    BY <1>1, <1>3, <1>5 DEF Kept_row, Rows, UniqueKeys, IInv

\* Two posts with one unique key that are asked for whole come back with one
\* row, whatever races or is lost and whatever other calls ask for.
THEOREM LegiblePostsAlwaysAgree == Spec => []LegiblePostsAgree
BY Inductive, IInvPostsAgree, PTL

\* Where the values are Legible, any two posts with one unique key come back
\* with one row.
THEOREM PostsAlwaysAgree == Legible => (Spec => []PostsAgree)
  <1> SUFFICES ASSUME Legible PROVE Spec => []PostsAgree
    OBVIOUS
  <1>1. IInv => PostsAgree
    <2>1. IInv => \A c \in Clients : Returned(c) => call[c] \in Calls
      BY DEF IInv, RowsReturned, Types
    <2>2. QED
      BY <2>1, LegibleCalls, IInvPostsAgree DEF LegiblePostsAgree, PostsAgree
  <1>2. QED
    BY <1>1, Inductive, PTL

-----------------------------------------------------------------------------
(* The refinement.                                                         *)

\* The table of RestCalls is the table.
LEMMA SameTable ==
    /\ Abstract!Ids = Ids /\ Abstract!Calls = Calls
    /\ Abstract!NoResult = NoResult /\ Abstract!Threw = Threw
    /\ \A row : Abstract!Returns(row) = Returns(row)
    /\ \A t, i : Abstract!Row(t, i) = Row(t, i)
    /\ \A t, query : Abstract!Found(t, query) = Found(t, query)
    /\ \A t, data : Abstract!Conflict(t, data) = Conflict(t, data)
    /\ \A t, i : Abstract!Next_id(t, i) <=> Next_id(t, i)
    /\ \A t, i, data : Abstract!Inserted(t, i, data) = Inserted(t, i, data)
    /\ \A t, i, data : Abstract!Updated(t, i, data) = Updated(t, i, data)
  <1>1. /\ Abstract!Ids = Ids
        /\ Abstract!NoResult = NoResult /\ Abstract!Threw = Threw
        /\ \A row : Abstract!Returns(row) = Returns(row)
        /\ \A t, i : Abstract!Row(t, i) = Row(t, i)
        /\ \A x : Abstract!Stored(x) = Stored(x)
    BY DEF Abstract!Ids, Ids, Abstract!NoResult, NoResult, Abstract!Threw, Threw,
           Abstract!Returns, Returns, Abstract!Row, Row, Abstract!Stored, Stored
  <1>2. Abstract!Queries = Queries /\ Abstract!Posts = Posts /\ Abstract!Patches = Patches
    BY DEF Abstract!Queries, Queries, Abstract!Posts, Posts, Abstract!Patches, Patches
  <1>3. Abstract!Calls = Calls
    BY <1>1, <1>2 DEF Abstract!Calls, Calls
  <1>4. \A data, query : Abstract!Agrees(data, query) <=> Agrees(data, query)
    BY <1>1 DEF Abstract!Agrees, Agrees
  <1>5. \A t, query : Abstract!Found(t, query) = Found(t, query)
    BY <1>1, <1>4 DEF Abstract!Found, Found
  <1>6. \A t, data : Abstract!Conflict(t, data) = Conflict(t, data)
    BY <1>1 DEF Abstract!Conflict, Conflict
  <1>7. \A t, i : Abstract!Next_id(t, i) <=> Next_id(t, i)
    BY DEF Abstract!Next_id, Next_id
  <1>8. /\ \A t, i, data : Abstract!Inserted(t, i, data) = Inserted(t, i, data)
        /\ \A t, i, data : Abstract!Updated(t, i, data) = Updated(t, i, data)
    BY <1>1 DEF Abstract!Inserted, Inserted, Abstract!Updated, Updated
  <1>9. QED
    BY <1>1, <1>3, <1>5, <1>6, <1>7, <1>8

LEMMA OutcomeAlone ==
    ASSUME response' = response
    PROVE  [c \in Clients |-> OutcomeOf(c)]' = [c \in Clients |-> OutcomeOf(c)]
  BY DEF OutcomeOf, Effective

LEMMA MapInit == Init => Abstract!AInit
  BY SameTable DEF Init, Abstract!AInit, OutcomeOf, Effective

LEMMA MapBegin ==
    ASSUME IInv, NEW c \in Clients, NEW k \in Calls, Begin(c, k)
    PROVE  Abstract!ABegin(c, k)
  BY SameTable, OutcomeAlone DEF Begin, Abstract!ABegin, Abstract!Pending, Pending

\* A call that throws: before a request, without one served, or on an answer.
LEMMA MapThrow ==
    ASSUME IInv, NEW c \in Clients, Pending(c), result' = [result EXCEPT ![c] = Threw],
           UNCHANGED <<table, call>>,
           response' = [response EXCEPT ![c] = None] \/ (response' = response /\ response[c] = None)
    PROVE  Abstract!AThrow(c)
  <1> DEFINE outcome == [d \in Clients |-> OutcomeOf(d)]
  <1>1. response \in [Clients -> Responses \cup {None}]
    BY DEF IInv, Types
  <1>2. response'[c] = None /\ \A d \in Clients : d # c => response'[d] = response[d]
    BY <1>1
  <1>3. OutcomeOf(c)' = <<>> /\ \A d \in Clients : d # c => OutcomeOf(d)' = OutcomeOf(d)
    BY <1>2 DEF OutcomeOf, Effective
  <1>4. outcome' = [outcome EXCEPT ![c] = <<>>]
    BY <1>3
  <1>5. QED
    BY <1>4, SameTable DEF Abstract!AThrow, Abstract!Pending, Pending

LEMMA MapReceive ==
    ASSUME IInv, NEW c \in Clients, Receive(c)
    PROVE  [Abstract!ANext]_(Abstract!avars)
  <1> DEFINE outcome == [d \in Clients |-> OutcomeOf(d)]
             Back == response[c].code \in {200, 201} /\ request' = request
                     /\ result' = [result EXCEPT ![c] = Returns(response[c].row)]
             Again == response[c].code = 409 /\ result' = result
             Thrown == result' = [result EXCEPT ![c] = Threw]
  <1>1. Back \/ Again \/ Thrown
    BY ReceiveFacts
  <1>2. response' = [response EXCEPT ![c] = None] /\ UNCHANGED <<table, call>> /\ response[c] # None
    BY DEF Receive
  <1>3. Pending(c)
    BY <1>2 DEF IInv, OneAtATime
  <1>4. response \in [Clients -> Responses \cup {None}]
    BY DEF IInv, Types
  <1>5. OutcomeOf(c)' = <<>> /\ \A d \in Clients : d # c => OutcomeOf(d)' = OutcomeOf(d)
    BY <1>2, <1>4 DEF OutcomeOf, Effective
  <1>6. CASE Back
    <2>1. OutcomeOf(c) = <<response[c].row>>
      BY <1>2, <1>6 DEF OutcomeOf, Effective
    <2>2. outcome[c] # <<>> /\ outcome[c][1] = response[c].row
      BY <2>1
    <2>3. outcome' = [outcome EXCEPT ![c] = <<>>]
      BY <1>5
    <2>4. Abstract!AReturn(c)
      BY <1>2, <1>3, <1>6, <2>2, <2>3, SameTable DEF Abstract!AReturn, Abstract!Pending, Pending
    <2>5. QED
      BY <2>4 DEF Abstract!ANext
  <1>7. CASE Again
    <2>1. OutcomeOf(c) = <<>>
      BY <1>7 DEF OutcomeOf, Effective
    <2>2. outcome' = outcome
      BY <1>5, <2>1
    <2>3. QED
      BY <1>2, <1>7, <2>2 DEF Abstract!avars
  <1>8. CASE Thrown
    <2>1. Abstract!AThrow(c)
      BY <1>2, <1>3, <1>8, MapThrow
    <2>2. QED
      BY <2>1 DEF Abstract!ANext
  <1>9. QED
    BY <1>1, <1>6, <1>7, <1>8

LEMMA MapServe ==
    ASSUME Legible, IInv, NEW c \in Clients, NEW arrives \in BOOLEAN, Serve(c, arrives)
    PROVE  [Abstract!ANext]_(Abstract!avars)
  <1> DEFINE outcome == [d \in Clients |-> OutcomeOf(d)]
             q == request[c]
             k == call[c]
  <1>1. q # None /\ UNCHANGED <<call, result>>
    BY DEF Serve
  <1>2. k \in Calls /\ Pending(c) /\ response[c] = None
    BY <1>1, RequestCases, CallAssumption DEF Pending
  <1>3. table \in Tables /\ response \in [Clients -> Responses \cup {None}]
    BY DEF IInv, Types
  <1>4. outcome[c] = <<>>
    BY <1>2 DEF OutcomeOf, Effective
  <1>5. ASSUME NEW code \in {200, 201}, NEW row, Reply(c, code, row, arrives)
        PROVE  outcome' = [outcome EXCEPT ![c] = <<row>>]
    <2>1. response'[c] = [code |-> code, row |-> row, arrives |-> arrives]
          /\ \A d \in Clients : d # c => response'[d] = response[d]
      BY <1>3, <1>5 DEF Reply
    <2>2. [code |-> code, row |-> row, arrives |-> arrives] # None
      <3>1. code \in Codes
        BY DEF Codes
      <3>2. PICK e, w : e \in Codes /\ Reply(c, e, w, arrives) /\ Fits(call[c], e, w)
        BY ServeFacts DEF Fits
      <3>3. e = code /\ w = row
        BY <1>3, <1>5, <3>2 DEF Reply
      <3>4. [code |-> code, row |-> row, arrives |-> arrives] \in Responses
        BY <3>1, <3>2, <3>3 DEF Fits, Responses
      <3>5. QED
        BY <3>4, ResponseAssumption
    <2>3. OutcomeOf(c)' = <<row>> /\ \A d \in Clients : d # c => OutcomeOf(d)' = OutcomeOf(d)
      BY <2>1, <2>2 DEF OutcomeOf, Effective
    <2>4. \A d \in Clients : outcome'[d] = IF d = c THEN <<row>> ELSE outcome[d]
      BY <2>3
    <2>5. QED
      BY <2>4
  <1>6. ASSUME NEW row, outcome' = [outcome EXCEPT ![c] = <<row>>],
               \/ k.op = "query" /\ row \in Found(table, k.query) /\ table' = table
               \/ /\ k.op = "id" /\ k.id # None /\ table[k.id] # None
                  /\ row = Row(table, k.id) /\ table' = table
               \/ /\ k.op = "post" /\ ~ Conflict(table, k.query)
                  /\ \E i \in Ids : /\ Next_id(table, i) /\ table' = Inserted(table, i, k.query)
                                     /\ row = Row(table', i)
               \/ /\ k.op = "post" /\ Conflict(table, k.query)
                  /\ row \in Found(table, k.query) /\ table' = table
               \/ /\ k.op = "patch" /\ table[k.id] # None
                  /\ table' = Updated(table, k.id, k.query) /\ row = Row(table', k.id)
        PROVE  Abstract!ANext
    <2>1. Abstract!Decide(c, row)
      BY <1>6 DEF Abstract!Decide
    <2>2. Abstract!Pending(c)
      BY <1>2, SameTable DEF Pending, Abstract!Pending
    <2>3. Abstract!AEffect(c)
      BY <1>1, <1>4, <1>6, <2>1, <2>2, SameTable DEF Abstract!AEffect
    <2>4. QED
      BY <2>3 DEF Abstract!ANext
  <1>7. CASE Refuse(c, q, arrives)
    <2>1. PICK code \in {400, 401, 404, 409} : Reply(c, code, None, arrives)
      BY <1>7 DEF Refuse
    <2>2. response'[c] = [code |-> code, row |-> None, arrives |-> arrives]
          /\ \A d \in Clients : d # c => response'[d] = response[d]
      BY <1>3, <2>1 DEF Reply
    <2>3. \A d \in Clients : OutcomeOf(d)' = OutcomeOf(d)
      BY <1>2, <2>1, <2>2 DEF OutcomeOf, Effective
    <2>4. outcome' = outcome
      BY <2>3
    <2>5. table' = table
      BY <1>7 DEF Refuse
    <2>6. QED
      BY <1>1, <2>4, <2>5 DEF Abstract!avars
  <1>8. CASE Get(c, q, arrives)
    <2>1. q.verb = "GET" /\ table' = table
      BY <1>8 DEF Get
    <2>2. CASE q.at = List /\ \E row \in Found(table, q.query) : Reply(c, 200, row, arrives)
      <3>1. PICK row \in Found(table, q.query) : Reply(c, 200, row, arrives)
        BY <2>2
      <3>2. /\ k.op = "query" \/ (k.op = "post" /\ Conflict(table, k.query))
            /\ k.query \in Queries /\ q.query = Json_to_query_string(k.query)
        BY <1>1, <2>1, <2>2, RequestKinds
      <3>3. Found(table, q.query) = Found(table, k.query)
        <4>1. \A i : Agrees(table[i], q.query) <=> Agrees(table[i], k.query)
          BY <1>2, <3>2, LegibleCalls, LegibleQuery DEF LegibleCall
        <4>2. QED
          BY <4>1 DEF Found
      <3>4. outcome' = [outcome EXCEPT ![c] = <<row>>]
        BY <1>5, <3>1
      <3>5. QED
        BY <1>6, <2>1, <3>1, <3>2, <3>3, <3>4
    <2>3. CASE q.at \in Ids /\ table[q.at] # None /\ Reply(c, 200, Row(table, q.at), arrives)
      <3>1. k.op = "id" /\ k.id = q.at
        BY <1>1, <2>1, <2>3, RequestKinds
      <3>2. k.id # None
        BY <2>3, <3>1, NoneAssumption
      <3>3. outcome' = [outcome EXCEPT ![c] = <<Row(table, q.at)>>]
        BY <1>5, <2>3
      <3>4. QED
        BY <1>6, <2>1, <2>3, <3>1, <3>2, <3>3
    <2>4. QED
      BY <1>8, <2>2, <2>3 DEF Get
  <1>9. CASE Post(c, q, arrives)
    <2>1. k.op = "post" /\ q.query = k.query
      BY <1>1, <1>9, RequestKinds DEF Post
    <2>2. PICK i \in Ids : /\ Next_id(table, i) /\ table' = Inserted(table, i, k.query)
                           /\ Reply(c, 201, Row(table', i), arrives)
      BY <1>9, <2>1 DEF Post
    <2>3. ~ Conflict(table, k.query)
      BY <1>9, <2>1 DEF Post
    <2>4. outcome' = [outcome EXCEPT ![c] = <<Row(table', i)>>]
      BY <1>5, <2>2
    <2>5. QED
      BY <1>6, <2>1, <2>2, <2>3, <2>4
  <1>10. CASE Patch(c, q, arrives)
    <2>1. k.op = "patch" /\ k.id = q.at /\ q.query = k.query
      BY <1>1, <1>10, RequestKinds DEF Patch
    <2>2. /\ table[k.id] # None /\ table' = Updated(table, k.id, k.query)
          /\ Reply(c, 200, Row(table', q.at), arrives)
      BY <1>10, <2>1 DEF Patch
    <2>3. outcome' = [outcome EXCEPT ![c] = <<Row(table', q.at)>>]
      BY <1>5, <2>2
    <2>4. QED
      BY <1>6, <2>1, <2>2, <2>3
  <1>11. QED
    BY <1>7, <1>8, <1>9, <1>10 DEF Serve

LEMMA MapNext == Legible /\ IInv /\ [Next]_vars => [Abstract!ANext]_(Abstract!avars)
  <1> SUFFICES ASSUME Legible, IInv, [Next]_vars PROVE [Abstract!ANext]_(Abstract!avars)
    OBVIOUS
  <1>1. CASE UNCHANGED vars
    BY <1>1, OutcomeAlone DEF vars, Abstract!avars
  <1>2. ASSUME NEW c \in Clients, NEW k \in Calls, Begin(c, k)
        PROVE  [Abstract!ANext]_(Abstract!avars)
    BY <1>2, MapBegin, SameTable DEF Abstract!ANext
  <1>3. ASSUME NEW c \in Clients, Throw_no_id(c) PROVE [Abstract!ANext]_(Abstract!avars)
    <2>1. response[c] = None
      BY <1>3 DEF Throw_no_id, IInv, AnswersOfCalls, AnswerFits
    <2>2. Abstract!AThrow(c)
      BY <1>3, <2>1, MapThrow DEF Throw_no_id
    <2>3. QED
      BY <2>2 DEF Abstract!ANext
  <1>4. ASSUME NEW c \in Clients, Receive(c) PROVE [Abstract!ANext]_(Abstract!avars)
    BY <1>4, MapReceive
  <1>5. ASSUME NEW c \in Clients, NEW arrives \in BOOLEAN, Serve(c, arrives)
        PROVE  [Abstract!ANext]_(Abstract!avars)
    BY <1>5, MapServe
  <1>6. ASSUME NEW c \in Clients, Lose(c) PROVE [Abstract!ANext]_(Abstract!avars)
    <2>1. Pending(c) /\ response[c] = None
      BY <1>6 DEF Lose, IInv, OneAtATime
    <2>2. Abstract!AThrow(c)
      BY <1>6, <2>1, MapThrow DEF Lose
    <2>3. QED
      BY <2>2 DEF Abstract!ANext
  <1>7. QED
    BY <1>1, <1>2, <1>3, <1>4, <1>5, <1>6 DEF Next

\* Where the values are Legible, the client implements RestCalls: a call
\* that returns has had its effect at one instant between its beginning
\* and its end, whatever was lost and whoever else was served.
THEOREM Implements == Legible => (Spec => ImplementsCalls)
  <1> SUFFICES ASSUME Legible PROVE Spec => ImplementsCalls
    OBVIOUS
  <1>1. IInv /\ [Next]_vars => [Abstract!ANext]_(Abstract!avars)
    BY MapNext
  <1>2. QED
    BY <1>1, Inductive, MapInit, PTL DEF Spec, ImplementsCalls, Abstract!ASpec

-----------------------------------------------------------------------------
(* A call counts down.                                                     *)

\* Only a POST is answered with 409, and the look-up after it is none.
LEMMA ServeSteps ==
    ASSUME IInv, NEW c \in Clients, NEW arrives \in BOOLEAN, Serve(c, arrives)
    PROVE  /\ request' = [request EXCEPT ![c] = None]
           /\ \E answer : /\ response' = [response EXCEPT ![c] = answer] /\ answer # None
                          /\ answer.code = 409 =>
                                request[c].verb = "WRITE" /\ call[c].op = "post"
  <1> DEFINE q == request[c]
             Answer(code, row) == [code |-> code, row |-> row, arrives |-> arrives]
  <1>1. q # None
    BY DEF Serve
  <1>2. \E code, row : /\ Reply(c, code, row, arrives)
                       /\ code = 409 => q.verb = "WRITE" /\ q.at = List
    BY DEF Serve, Refuse, Get, Post, Patch
  <1>3. PICK code, row : /\ Reply(c, code, row, arrives)
                         /\ code = 409 => q.verb = "WRITE" /\ q.at = List
    BY <1>2
  <1>4. code = 409 => call[c].op = "post"
    BY <1>1, <1>3, RequestKinds
  <1>5. Answer(code, row) # None
    <2>1. PICK other, found : /\ Reply(c, other, found, arrives)
                              /\ other \in Codes /\ found \in Rows \cup {None}
      BY ServeFacts DEF Fits
    <2>2. Answer(other, found) \in Responses
      BY <2>1 DEF Responses
    <2>3. Answer(code, row) = Answer(other, found)
      BY <1>3, <2>1 DEF Reply, IInv, Types
    <2>4. QED
      BY <2>2, <2>3, ResponseAssumption
  <1>6. response' = [response EXCEPT ![c] = Answer(code, row)]
    BY <1>3 DEF Reply
  <1>7. Answer(code, row).code = 409 => q.verb = "WRITE" /\ call[c].op = "post"
    BY <1>3, <1>4
  <1>8. request' = [request EXCEPT ![c] = None]
    BY <1>3 DEF Reply
  <1> HIDE DEF Answer
  <1>9. QED
    BY <1>5, <1>6, <1>7, <1>8

\* What is left of a call is a number, and of one that is not over, not 0.
LEMMA StepsLeftType ==
    ASSUME NEW c \in Clients
    PROVE  StepsLeft(c) \in 0 .. 4 /\ (Pending(c) => StepsLeft(c) > 0)
  BY DEF StepsLeft

\* A step for one client leaves the calls of the others alone.
LEMMA OthersAlone ==
    ASSUME IInv, NEW c \in Clients, NEW d \in Clients, c # d,
           \/ \E k \in Calls : Begin(c, k)
           \/ Throw_no_id(c) \/ Receive(c) \/ Lose(c)
           \/ \E arrives \in BOOLEAN : Serve(c, arrives)
    PROVE  State(d)' = State(d)
  <1> USE DEF State
  <1>0. Types
    BY DEF IInv
  <1>1. CASE \E k \in Calls : Begin(c, k)
    BY <1>0, <1>1 DEF Begin, Types
  <1>2. CASE Throw_no_id(c) \/ Lose(c)
    BY <1>0, <1>2 DEF Throw_no_id, Lose, Types
  <1>3. CASE Receive(c)
    <2>1. UNCHANGED call
      BY <1>3 DEF Receive
    <2>2. QED
      BY <1>0, <1>3, <2>1, ReceiveFacts DEF Types
  <1>4. CASE \E arrives \in BOOLEAN : Serve(c, arrives)
    <2>1. UNCHANGED <<call, result>>
      BY <1>4 DEF Serve
    <2>2. QED
      BY <1>0, <1>4, <2>1, ServeSteps DEF Types
  <1>5. QED
    BY <1>1, <1>2, <1>3, <1>4

\* A step for a client brings its call nearer its end.
LEMMA OwnCountdown ==
    ASSUME IInv, NEW c \in Clients, Pending(c),
           \/ Throw_no_id(c) \/ Receive(c) \/ Lose(c)
           \/ \E arrives \in BOOLEAN : Serve(c, arrives)
    PROVE  StepsLeft(c)' < StepsLeft(c)
  <1>0. Types
    BY DEF IInv
  <1>1. ASSUME ~ Pending(c)' PROVE StepsLeft(c)' < StepsLeft(c)
    BY <1>1, StepsLeftType DEF StepsLeft
  <1>2. CASE Throw_no_id(c) \/ Lose(c)
    <2>1. result'[c] = Threw
      BY <1>0, <1>2 DEF Throw_no_id, Lose, Types
    <2>2. QED
      BY <1>1, <2>1 DEF Pending, Threw, NoResult
  <1>3. CASE Receive(c)
    <2>5. response[c] # None /\ UNCHANGED call
      BY <1>3 DEF Receive
    <2>6. request[c] = None /\ response' = [response EXCEPT ![c] = None]
      BY <1>3, ReceiveFacts
    <2>1. /\ request[c] = None /\ response[c] # None /\ UNCHANGED call
          /\ response'[c] = None
      BY <1>0, <2>5, <2>6 DEF Types
    <2>2. CASE /\ response[c].code = 409 /\ call[c].op = "post" /\ result' = result
               /\ request' = [request EXCEPT ![c] = Look_up(call[c])]
      <3>1. request'[c] = Look_up(call[c])
        BY <1>0, <2>2 DEF Types
      <3>2. request'[c].verb = "GET"
        BY <3>1 DEF Look_up, Get_list
      <3>3. StepsLeft(c) = 3
        BY <2>1, <2>2 DEF StepsLeft
      <3>4. StepsLeft(c)' \in {0, 1, 2}
        BY <2>1, <3>2 DEF StepsLeft
      <3>5. QED
        BY <3>3, <3>4
    <2>3. CASE \/ result' = [result EXCEPT ![c] = Returns(response[c].row)]
               \/ result' = [result EXCEPT ![c] = Threw]
      <3>1. ~ Pending(c)'
        BY <1>0, <2>3 DEF Pending, Types, Returns, Threw, NoResult
      <3>2. QED
        BY <1>1, <3>1
    <2>4. QED
      BY <1>3, <2>2, <2>3, ReceiveFacts
  <1>4. ASSUME NEW arrives \in BOOLEAN, Serve(c, arrives) PROVE StepsLeft(c)' < StepsLeft(c)
    <2>1. request[c] # None /\ UNCHANGED <<call, result>>
      BY <1>4 DEF Serve
    <2>2. PICK answer : /\ response' = [response EXCEPT ![c] = answer] /\ answer # None
                        /\ answer.code = 409 =>
                              request[c].verb = "WRITE" /\ call[c].op = "post"
      BY <1>4, ServeSteps
    <2>3. request'[c] = None /\ response'[c] = answer /\ Pending(c)'
      BY <1>0, <1>4, <2>1, <2>2, ServeSteps DEF Types, Pending
    <2>4. StepsLeft(c)' = IF answer.code = 409 THEN 3 ELSE 1
      BY <2>2, <2>3 DEF StepsLeft
    <2>5. StepsLeft(c) = IF call[c].op = "post" /\ request[c].verb = "WRITE" THEN 4 ELSE 2
      BY <2>1 DEF StepsLeft
    <2>6. QED
      BY <2>2, <2>4, <2>5
  <1>5. QED
    BY <1>2, <1>3, <1>4

\* A call makes two requests at the most and comes nearer its end with each
\* thing that is done for it, for any number of clients, whatever is lost and
\* whatever its query becomes on its way (api.cxx:282-287): the part of
\* CallsEnd that does not depend on the registry's serving every request.
THEOREM Countdown == Spec => CountsDown
  <1>1. ASSUME IInv, [Next]_vars
        PROVE  [\A c \in Clients :
                   Pending(c) =>
                      \/ State(c)' = State(c)
                      \/ StepsLeft(c)' < StepsLeft(c)]_vars
    <2>1. SUFFICES ASSUME NEW c \in Clients, Pending(c), NEW d \in Clients,
                          \/ \E k \in Calls : Begin(d, k)
                          \/ Throw_no_id(d) \/ Receive(d) \/ Lose(d)
                          \/ \E arrives \in BOOLEAN : Serve(d, arrives)
                   PROVE  State(c)' = State(c) \/ StepsLeft(c)' < StepsLeft(c)
      BY <1>1 DEF Next
    <2>2. CASE c = d
      BY <1>1, <2>1, <2>2, OwnCountdown DEF Begin
    <2>3. CASE c # d
      BY <1>1, <2>1, <2>3, OthersAlone
    <2>4. QED
      BY <2>2, <2>3
  <1>2. QED
    BY <1>1, InitIInv, NextIInv, PTL DEF Spec, CountsDown
=============================================================================
