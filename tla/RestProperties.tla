--------------------------- MODULE RestProperties ---------------------------
(***************************************************************************)
(* What makes the REST client correct.                                     *)
(***************************************************************************)
EXTENDS Rest

\* Every variable keeps its type.
Types ==
    /\ table \in Tables /\ closed \in SUBSET Verbs
    /\ call \in [Clients -> Calls \cup {None}]
    /\ request \in [Clients -> Requests \cup {None}]
    /\ response \in [Clients -> Responses \cup {None}]
    /\ result \in [Clients -> Results]
    /\ calls \in 0 .. MaxCalls /\ faults \in 0 .. MaxFaults

\* A client in a call waits for one thing, a client in none for nothing.
OneAtATime ==
    \A c \in Clients :
        request[c] # None \/ response[c] # None =>
            Pending(c) /\ (request[c] = None \/ response[c] = None)

\* Every variable keeps its type, and a client waits for at most one of a
\* request to be served and an answer to be read.
TypeOK == Types /\ OneAtATime

Returned(c) == result[c].end = "returned"

\* The row that c's last call returned; None where it returned null.
Got(c) == result[c].row

\* What row a call may return.
Matches(k, row) ==
    /\ k.op # "id" => Agrees(row.data, k.query)
    /\ k.op \in {"id", "patch"} => row.id = k.id

\* The row a call returns has every field as the call asked for it, posted
\* it or patched it, and the id it asked for: what json_to_query_string
\* leaves of the query (api.cxx:167-206) still finds that row alone, also
\* when it stands for a POST that was refused with 409 (api.cxx:282-287).
AnswersMatch ==
    \A c \in Clients :
        Returned(c) /\ Got(c) # None => Matches(call[c], Got(c))

\* json_to_query_string leaves other characters as they are, also where they
\* mean something else in a URL.
Escaped == {"plain", "space", "url", "id"}

\* What a call asks for arrives whole.  A PATCH has it in its body.
LegibleCall(k) ==
    k.op \in {"query", "post"} => \A f \in DOMAIN k.query : k.query[f].mark \in Escaped

\* AnswersMatch for the calls whose query arrives whole, whatever others ask.
LegibleAnswersMatch ==
    \A c \in Clients :
        Returned(c) /\ Got(c) # None /\ LegibleCall(call[c]) => Matches(call[c], Got(c))

\* Every call is so: what AnswersMatch rests on.
Legible == \A x \in Values : x.mark \in Escaped

\* Two calls of post with one unique key, of whichever clients and however
\* interleaved, return one row or null: a POST that lost the race, or is
\* made again because its answer was lost, comes back with the row the
\* other made, and no second one is made (api.cxx:282-287).
PostsAgree ==
    \A c, d \in Clients :
        (/\ Unique # {} /\ Returned(c) /\ Returned(d)
         /\ call[c].op = "post" /\ call[d].op = "post"
         /\ Got(c) # None /\ Got(d) # None
         /\ \A f \in Unique : Stored(call[c].query[f]) = Stored(call[d].query[f]))
        => Got(c).id = Got(d).id

\* A registry that serves tokens only refuses a call that has one just
\* where the client leaves it behind: at get_by_id, whose overload of
\* get_request does not pass it on (api.cxx:98-102), and at the look-up
\* that follows 409 (api.cxx:285).
TokenReaches ==
    \A c \in Clients :
        response[c] # None /\ response[c].code = 401 /\ call[c].token =>
            \/ call[c].op = "id"
            \/ /\ call[c].op = "post" /\ "GET" \in closed
               /\ Conflict(table, call[c].query)

-----------------------------------------------------------------------------
(* The client implements RestCalls: however its requests interleave with   *)
(* those of others and whatever is lost, a call that returns had its       *)
(* effect once and at one instant.                                         *)

Effective(c) == response[c] # None /\ response[c].code \in {200, 201}

OutcomeOf(c) == IF Effective(c) THEN <<response[c].row>> ELSE <<>>

Abstract == INSTANCE RestCalls WITH outcome <- [c \in Clients |-> OutcomeOf(c)]

\* Every step of the client and the registry is a step of RestCalls.
ImplementsCalls == Abstract!ASpec

\* Every call ends, given that the registry serves every request: neither
\* the second request of a POST nor a lost one leaves it waiting.
CallsEnd == \A c \in Clients : Pending(c) ~> ~ Pending(c)

\* The steps that are left of c's call: to serve and to read its request, and,
\* where that may be a POST answered with 409, the look-up.
StepsLeft(c) ==
    CASE ~ Pending(c) -> 0
      [] Pending(c) /\ request[c] # None ->
             IF call[c].op = "post" /\ request[c].verb = "WRITE" THEN 4 ELSE 2
      [] Pending(c) /\ request[c] = None ->
             IF response[c] # None /\ response[c].code = 409 THEN 3 ELSE 1

State(c) == <<call[c], request[c], response[c], result[c]>>

\* Whatever is done for a call brings it nearer its end, and nothing that is
\* done for another call sets it back: it makes two requests at the most, as
\* the look-up after 409 (api.cxx:282-287) is never refused like the POST.
CountsDown ==
    [][\A c \in Clients :
         Pending(c) =>
            \/ State(c)' = State(c)
            \/ StepsLeft(c)' < StepsLeft(c)]_vars

-----------------------------------------------------------------------------
(* The inductive invariant: what is true of a request on its way and of an *)
(* answer, and that a row is not taken away and keeps its unique key.      *)

LooksUp(c) ==
    /\ call[c].op = "post" /\ request[c] = Look_up(call[c])
    /\ Conflict(table, call[c].query)

\* A request is the one of the call, or the look-up of a row that is there.
RequestsOfCalls ==
    \A c \in Clients :
        request[c] # None =>
            (request[c] = Request_of(call[c]) /\ ~ No_id(call[c])) \/ LooksUp(c)

\* The row is in the table, with the same unique key.
Kept_row(row) ==
    table[row.id] # None /\ \A f \in Unique : table[row.id][f] = row.data[f]

AnswerFits(k, r) ==
    /\ ~ No_id(k)
    /\ r.code \in {200, 201} => r.code = Expected(k) \/ k.op = "post"
    /\ r.code \in {200, 201} /\ r.row # None =>
          (LegibleCall(k) => Matches(k, r.row)) /\ Kept_row(r.row)
    /\ r.code = 409 => k.op = "post" /\ Conflict(table, k.query)

AnswersOfCalls ==
    \A c \in Clients : response[c] # None => AnswerFits(call[c], response[c])

RowsReturned ==
    \A c \in Clients : Returned(c) => call[c] # None /\ (Got(c) # None => Kept_row(Got(c)))

UniqueKeys ==
    \A i, j \in Ids :
        /\ Unique # {} /\ table[i] # None /\ table[j] # None
        /\ \A f \in Unique : table[i][f] = table[j][f]
        => i = j

IInv ==
    /\ Types /\ OneAtATime /\ RequestsOfCalls /\ AnswersOfCalls /\ RowsReturned
    /\ UniqueKeys /\ LegibleAnswersMatch /\ TokenReaches
=============================================================================
