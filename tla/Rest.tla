-------------------------------- MODULE Rest --------------------------------
(***************************************************************************)
(* API, the REST client: get_by_json_query, get_by_id, post and patch,     *)
(* each a request that is encoded, sent, answered and read, where the      *)
(* registry serves other clients in between and a request or its answer    *)
(* may be lost.  A POST that the registry refuses with 409 is followed by  *)
(* a GET of the posted data, a second request.                             *)
(***************************************************************************)
EXTENDS RestTable

CONSTANTS
    Closings,  \* what a registry may serve to a token only: sets of verbs
    MaxCalls,  \* bound: calls that are made
    MaxFaults  \* bound: requests and answers that are lost

VARIABLES
    table,
    closed,    \* the kinds of request that the registry serves to a token only
    call, result,  \* as in RestCalls
    request,   \* request[c]: what client c sent and the registry has not served
    response,  \* response[c]: what the registry answered and c has not read
    calls, faults

vars == <<table, closed, call, result, request, response, calls, faults>>

Verbs == {"GET", "WRITE"}

ASSUME BoundAssumption == MaxCalls \in Nat /\ MaxFaults \in Nat /\ Closings \subseteq SUBSET Verbs

\* json_to_query_string: a row's URL becomes its id.  The registry reads
\* %20 and "+" as a space.  What follows "&" in a value is another key to
\* it; "#" starts the fragment of the URL, which is never sent.
Read(x) ==
    [x EXCEPT !.mark = CASE x.mark = "url" -> "id"
                         [] x.mark = "plus" -> "space"
                         [] x.mark \in {"ampersand", "hash"} -> "plain"
                         [] OTHER -> x.mark]

\* The values a request carries, as the registry reads them.
Carried == Values \cup {Read(x) : x \in Values}

\* The path without an id; a request is for it or for a row.
List == 0

Requests ==
    [verb : Verbs, at : {List} \cup Ids, query : UNION {[fs -> Carried] : fs \in SUBSET Fields},
     token : BOOLEAN, excess : BOOLEAN]

Codes == {200, 201, 400, 401, 404, 409}

\* An answer that does not arrive is lost, or cut short so that it does not parse.
Responses == [code : Codes, row : Rows \cup {None}, arrives : BOOLEAN]

ASSUME ResponseAssumption == None \notin Requests /\ None \notin Responses

Init ==
    /\ table = [i \in Ids |-> None]
    /\ closed \in Closings
    /\ call = [c \in Clients |-> None]
    /\ result = [c \in Clients |-> NoResult]
    /\ request = [c \in Clients |-> None]
    /\ response = [c \in Clients |-> None]
    /\ calls = 0 /\ faults = 0

-----------------------------------------------------------------------------
(* The query string.                                                       *)

\* Mutant of Sent_fields: the last key is left out.
All_but_last(query) == {f \in DOMAIN query : \E g \in DOMAIN query : f < g}

\* Mutant of Sent_fields: the first key is left out.
All_but_first(query) == {f \in DOMAIN query : \E g \in DOMAIN query : g < f}

\* Keys are written in the order of their names: those after "#" are lost.
Sent_fields(query) ==
    {f \in DOMAIN query : \A g \in DOMAIN query : query[g].mark = "hash" => f <= g}

Excess(query) == \E f \in Sent_fields(query) : query[f].mark = "ampersand"

Json_to_query_string(query) == [f \in Sent_fields(query) |-> Read(query[f])]

Get_list(query, token) ==
    [verb |-> "GET", at |-> List, query |-> Json_to_query_string(query), token |-> token,
     excess |-> Excess(query)]

\* The overload for paths leaves the token behind.
Get_by_id(i, token) ==
    [verb |-> "GET", at |-> i, query |-> [f \in {} |-> None], token |-> FALSE, excess |-> FALSE]

\* Mutant of Write: no header for the token.
Write_without_token(at, query, token) ==
    [verb |-> "WRITE", at |-> at, query |-> query, token |-> FALSE, excess |-> FALSE]

\* The body of a POST or a PATCH is JSON: its values arrive as they are.
Write(at, query, token) ==
    [verb |-> "WRITE", at |-> at, query |-> query, token |-> token, excess |-> FALSE]

-----------------------------------------------------------------------------
(* A client.                                                               *)

Pending(c) == call[c] # None /\ result[c] = NoResult

\* Mutant of No_id: an empty URL is not refused.
Any_id(k) == FALSE

No_id(k) == k.op = "id" /\ k.id = None

Request_of(k) ==
    CASE k.op = "query" -> Get_list(k.query, k.token)
      [] k.op = "id" -> Get_by_id(k.id, k.token)
      [] k.op = "post" -> Write(List, k.query, k.token)
      [] k.op = "patch" -> Write(k.id, k.query, k.token)

Begin(c, k) ==
    /\ ~ Pending(c) /\ calls < MaxCalls
    /\ calls' = calls + 1
    /\ call' = [call EXCEPT ![c] = k]
    /\ result' = [result EXCEPT ![c] = NoResult]
    /\ request' = [request EXCEPT ![c] = IF No_id(k) THEN None ELSE Request_of(k)]
    /\ UNCHANGED <<table, closed, response, faults>>

\* get_id_from_string throws on an empty URL, and no request is made.
Throw_no_id(c) ==
    /\ Pending(c) /\ No_id(call[c])
    /\ result' = [result EXCEPT ![c] = Threw]
    /\ UNCHANGED <<table, closed, call, request, response, calls, faults>>

\* Mutant of Look_up: the POST is made again.
Post_again(k) == Request_of(k)

\* After 409 the row is asked for by all that was posted, without a token.
Look_up(k) == Get_list(k.query, FALSE)

Expected(k) == IF k.op = "post" THEN 201 ELSE 200

\* The look-up that follows 409 is a get_request, and expects 200.
Looks_up(c) == response[c].code = 200 /\ call[c].op = "post"

\* Mutant of Answered: 409 is taken for an answer with a row.
Answered_by_conflict(c) ==
    response[c].code \in {Expected(call[c]), 409} \/ Looks_up(c)

Answered(c) == response[c].code = Expected(call[c]) \/ Looks_up(c)

Receive(c) ==
    /\ response[c] # None
    /\ response' = [response EXCEPT ![c] = None]
    /\ \/ /\ response[c].arrives /\ Answered(c)
          /\ result' = [result EXCEPT ![c] = Returns(response[c].row)]
          /\ UNCHANGED request
       \/ /\ response[c].arrives /\ response[c].code = 409
          /\ request' = [request EXCEPT ![c] = Look_up(call[c])]
          /\ UNCHANGED result
       \/ /\ ~ response[c].arrives \/ (~ Answered(c) /\ response[c].code # 409)
          /\ result' = [result EXCEPT ![c] = Threw]
          /\ UNCHANGED request
    /\ UNCHANGED <<table, closed, call, calls, faults>>

-----------------------------------------------------------------------------
(* The registry, and the connection to it.                                 *)

Refused(q) == q.verb \in closed /\ ~ q.token

Reply(c, code, row, arrives) ==
    /\ request' = [request EXCEPT ![c] = None]
    /\ response' = [response EXCEPT ![c] = [code |-> code, row |-> row, arrives |-> arrives]]

\* Requests that change nothing.
Refuse(c, q, arrives) ==
    /\ \/ Refused(q) /\ Reply(c, 401, None, arrives)
       \/ ~ Refused(q) /\ q.excess /\ Reply(c, 400, None, arrives)
       \/ ~ Refused(q) /\ q.at \in Ids /\ table[q.at] = None /\ Reply(c, 404, None, arrives)
       \/ /\ ~ Refused(q) /\ q.verb = "WRITE" /\ q.at = List /\ Conflict(table, q.query)
          /\ Reply(c, 409, None, arrives)
    /\ UNCHANGED table

Get(c, q, arrives) ==
    /\ ~ Refused(q) /\ q.verb = "GET"
    /\ \/ /\ q.at = List
          /\ \E row \in Found(table, q.query) : Reply(c, 200, row, arrives)
       \/ /\ q.at \in Ids /\ table[q.at] # None
          /\ Reply(c, 200, Row(table, q.at), arrives)
    /\ UNCHANGED table

Post(c, q, arrives) ==
    /\ ~ Refused(q) /\ q.verb = "WRITE" /\ q.at = List /\ ~ Conflict(table, q.query)
    /\ \E i \in Ids :
          /\ Next_id(table, i)
          /\ table' = Inserted(table, i, q.query)
          /\ Reply(c, 201, Row(table', i), arrives)

Patch(c, q, arrives) ==
    /\ ~ Refused(q) /\ q.verb = "WRITE" /\ q.at \in Ids /\ table[q.at] # None
    /\ table' = Updated(table, q.at, q.query)
    /\ Reply(c, 200, Row(table', q.at), arrives)

\* The registry serves a request; its answer reaches the client or is lost.
Serve(c, arrives) ==
    /\ request[c] # None
    /\ arrives \/ faults < MaxFaults
    /\ faults' = IF arrives THEN faults ELSE faults + 1
    /\ LET q == request[c]
       IN  \/ Refuse(c, q, arrives) \/ Get(c, q, arrives)
           \/ Post(c, q, arrives) \/ Patch(c, q, arrives)
    /\ UNCHANGED <<closed, call, result, calls>>

\* A request is lost on its way: curl_easy_perform fails, and the call throws.
Lose(c) ==
    /\ request[c] # None /\ faults < MaxFaults
    /\ faults' = faults + 1
    /\ request' = [request EXCEPT ![c] = None]
    /\ result' = [result EXCEPT ![c] = Threw]
    /\ UNCHANGED <<table, closed, call, response, calls>>

-----------------------------------------------------------------------------
Next ==
    \E c \in Clients :
        \/ \E k \in Calls : Begin(c, k)
        \/ Throw_no_id(c) \/ Receive(c)
        \/ \E arrives \in BOOLEAN : Serve(c, arrives)
        \/ Lose(c)

Spec == Init /\ [][Next]_vars

\* The registry serves every request in the end.  The client sets no
\* timeout: a call ends only because of that.
FairSpec ==
    /\ Spec
    /\ \A c \in Clients :
          WF_vars(Serve(c, TRUE)) /\ WF_vars(Receive(c)) /\ WF_vars(Throw_no_id(c))
=============================================================================
