----------------------------- MODULE Catalogue ------------------------------
(***************************************************************************)
(* What the pipeline promises its users, without hashes' arithmetic, REST  *)
(* calls, temporary files or failures: a catalogue of data whose entries   *)
(* are written once.                                                       *)
(*                                                                         *)
(*   stored     the store paths that hold a file with the named hash;      *)
(*   published  the object each data product names, or None;               *)
(*   recorded   the inputs and the outputs of each code run.               *)
(*                                                                         *)
(* Data is stored before it is published, and published before a code run  *)
(* can name it as an input; nothing stored or published is ever taken back *)
(* or replaced, and a code run never forgets an input.                     *)
(***************************************************************************)
EXTENDS Registry

CONSTANT Runs

VARIABLES stored, published, recorded

cvars == <<stored, published, recorded>>

CInit ==
    /\ stored = {}
    /\ published = [k \in Keys |-> None]
    /\ recorded = [r \in Runs |-> [inputs |-> {}, outputs |-> {}]]

Available(o) == o.location # None /\ o.location.path \in stored

Deposit(q) ==
    /\ stored' = stored \cup {q}
    /\ UNCHANGED <<published, recorded>>

\* A data product's name is given its object once.
Publish(k) ==
    /\ published[k] = None /\ published'[k] # None /\ Available(published'[k])
    /\ published' = [published EXCEPT ![k] = published'[k]]
    /\ UNCHANGED <<stored, recorded>>

\* A code run lists its inputs and outputs anew.
Record(r) ==
    /\ recorded[r].inputs \subseteq recorded'[r].inputs
    /\ \A o \in recorded'[r].inputs : \E k \in Keys : published[k] = o
    /\ \A o \in recorded'[r].outputs : Available(o)
    /\ recorded' = [recorded EXCEPT ![r] = recorded'[r]]
    /\ UNCHANGED <<stored, published>>

CNext ==
    \/ \E q \in StorePaths : Deposit(q)
    \/ \E k \in Keys : Publish(k)
    \/ \E r \in Runs : Record(r)

CSpec == CInit /\ [][CNext]_cvars
=============================================================================
