----------------------------- MODULE RestCalls ------------------------------
(***************************************************************************)
(* What API promises its callers: a call has its effect on the table at    *)
(* one instant, with the table as it then is, and returns what it found or *)
(* made; or it throws, with or without its effect.  A POST of a row that   *)
(* is there returns that row.                                              *)
(***************************************************************************)
EXTENDS RestTable

VARIABLES
    table,
    call,     \* call[c]: the call client c is in, or was last in
    outcome,  \* outcome[c]: <<>>, or <<row>> once the call has had its effect
    result    \* result[c]: how c's last call ended

avars == <<table, call, outcome, result>>

AInit ==
    /\ table = [i \in Ids |-> None]
    /\ call = [c \in Clients |-> None]
    /\ outcome = [c \in Clients |-> <<>>]
    /\ result = [c \in Clients |-> NoResult]

Pending(c) == call[c] # None /\ result[c] = NoResult

ABegin(c, k) ==
    /\ ~ Pending(c)
    /\ call' = [call EXCEPT ![c] = k]
    /\ result' = [result EXCEPT ![c] = NoResult]
    /\ UNCHANGED <<table, outcome>>

Decide(c, row) == outcome' = [outcome EXCEPT ![c] = <<row>>]

\* The instant at which the call looks at the table or changes it.
AEffect(c) ==
    /\ Pending(c) /\ outcome[c] = <<>>
    /\ LET k == call[c]
       IN  \/ /\ k.op = "query"
              /\ \E row \in Found(table, k.query) : Decide(c, row)
              /\ UNCHANGED table
           \/ /\ k.op = "id" /\ k.id # None /\ table[k.id] # None
              /\ Decide(c, Row(table, k.id))
              /\ UNCHANGED table
           \/ /\ k.op = "post" /\ ~ Conflict(table, k.query)
              /\ \E i \in Ids :
                    /\ Next_id(table, i)
                    /\ table' = Inserted(table, i, k.query)
                    /\ Decide(c, Row(table', i))
           \/ /\ k.op = "post" /\ Conflict(table, k.query)
              /\ \E row \in Found(table, k.query) : Decide(c, row)
              /\ UNCHANGED table
           \/ /\ k.op = "patch" /\ table[k.id] # None
              /\ table' = Updated(table, k.id, k.query)
              /\ Decide(c, Row(table', k.id))
    /\ UNCHANGED <<call, result>>

AReturn(c) ==
    /\ Pending(c) /\ outcome[c] # <<>>
    /\ result' = [result EXCEPT ![c] = Returns(outcome[c][1])]
    /\ outcome' = [outcome EXCEPT ![c] = <<>>]
    /\ UNCHANGED <<table, call>>

AThrow(c) ==
    /\ Pending(c)
    /\ result' = [result EXCEPT ![c] = Threw]
    /\ outcome' = [outcome EXCEPT ![c] = <<>>]
    /\ UNCHANGED <<table, call>>

ANext ==
    \E c \in Clients :
        \/ \E k \in Calls : ABegin(c, k)
        \/ AEffect(c) \/ AReturn(c) \/ AThrow(c)

ASpec == AInit /\ [][ANext]_avars
=============================================================================
