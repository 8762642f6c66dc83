------------------------- MODULE PipelineProperties -------------------------
(***************************************************************************)
(* What Pipeline's runs may and may not do: its type invariant, safety and *)
(* liveness properties, the abstract specification it implements, and the  *)
(* inductive invariant from which PipelineProofs proves them.              *)
(***************************************************************************)
EXTENDS Pipeline, FiniteSets

-----------------------------------------------------------------------------
(* Properties.                                                             *)

Labels == {"idle", "loop", "move", "postLocation", "getNamespace", "postNamespace",
           "getDataProduct", "postObject", "postDataProduct", "getComponent", "patch"}

\* Every variable has its type.
TypeOK ==
    /\ storageLocations \in SUBSET StorageLocations
    /\ objects \in SUBSET Objects
    /\ dataProducts \in [Keys -> Objects \cup {None}]
    /\ namespaces \in SUBSET Namespaces
    /\ codeRuns \in [Runs -> [inputs : SUBSET Objects, outputs : SUBSET Objects]]
    /\ temp \in [TempPaths -> Contents \cup {None}]
    /\ store \in [Paths -> Hashes \cup {None}]
    /\ dirs \in SUBSET (Namespaces \X Products)
    /\ writes \in [Runs -> [Products -> Writes \cup {None}]]
    /\ reads \in [Runs -> [Products -> Reads \cup {None}]]
    /\ outputs \in [Runs -> [Products -> Outputs \cup {None}]]
    /\ inputs \in [Runs -> [Products -> Reads \cup {None}]]
    /\ pc \in [Runs -> Labels]
    /\ todo \in [Runs -> SUBSET Products]
    /\ item \in [Runs -> Products \cup {None}]
    /\ hash \in [Runs -> Contents \cup {None}]
    /\ location \in [Runs -> StorageLocations \cup {None}]
    /\ object \in [Runs -> Objects \cup {None}]
    /\ links \in [Runs -> 0 .. MaxLinks]
    /\ answers \in [Runs -> [Products -> Paths \cup {None}]]
    /\ result \in [Runs -> {"none", "returned", "threw"}]
    /\ faults \in 0 .. MaxFaults

\* An object leads to a registered storage location, and the data store has
\* at its path a file with the content the location's hash names.
Located(o) ==
    /\ o.location \in storageLocations
    /\ store[o.location.path] = o.location.hash

\* Provenance can be followed: whatever a code run lists as input or output,
\* and whatever a data product names, leads through the registry to a file
\* that still has the registered hash.  finalise() renames before it posts
\* (config.cxx:655-664), so this holds at every step of every interleaving
\* and after any failed call.
Traceable ==
    /\ \A k \in Keys : dataProducts[k] # None => Located(dataProducts[k])
    /\ \A r \in Runs : \A o \in codeRuns[r].inputs \cup codeRuns[r].outputs : Located(o)

\* What finalise() records as output p (config.cxx:683-730) is either the
\* content this run wrote, or the data product that held p's name, version
\* and namespace already: never a third run's object, nor one made for
\* another of this run's writes.
OutputProvenance ==
    \A r \in Runs, p \in Products :
        LET output == outputs[r][p]
        IN  output # None =>
                \/ output.object.location.hash = output.hash
                \/ output.object = dataProducts[output.write.key]

\* When finalise() has returned, no linked write is left pending: each was
\* renamed or was a duplicate of a file in the store, the registry has a
\* location with its hash, and the code run lists the outputs and the inputs
\* (config.hxx:240-244).
ReturnedMeansRecorded ==
    \A r \in Runs : result[r] = "returned" =>
        \A p \in Products :
            /\ writes[r][p] # None =>
                /\ temp[writes[r][p].path] = None
                /\ outputs[r][p] # None
                /\ outputs[r][p].write = writes[r][p]
                /\ outputs[r][p].object \in codeRuns[r].outputs
                /\ \E l \in storageLocations :
                       l.hash = outputs[r][p].hash /\ store[l.path] = l.hash
            /\ reads[r][p] # None => reads[r][p].object \in codeRuns[r].inputs

\* The path link_read(p) returned is the path of the data product the
\* configuration asks for (config.hxx:232, "Return the filepath to a given
\* data product"), and stays so whatever other runs finalise later.
AnswersServeTheProduct ==
    \A r \in Runs, p \in Products :
        answers[r][p] # None =>
            /\ ReadConfig[r][p] # None
            /\ dataProducts[ReadConfig[r][p]] # None
            /\ answers[r][p] = dataProducts[ReadConfig[r][p]].location.path
            /\ store[answers[r][p]] # None

\* finalise() takes a file away only when the store has its content: no
\* failed call and no other run can make a written file disappear.
NothingLost ==
    [][\A t \in TempPaths :
         temp[t] # None /\ temp'[t] = None =>
             \E q \in Paths : store'[q] = temp[t]]_vars

\* Every finalise() that is called returns or throws.
FinaliseEnds ==
    \A r \in Runs : pc[r] # "idle" ~> result[r] \in {"returned", "threw"}

\* Where finalise() is between two of its calls: each call leads to a smaller
\* one, except that the next write begins at 10 and is counted below.
Place == [idle |-> 0, patch |-> 1, loop |-> 2, getComponent |-> 3, postDataProduct |-> 4,
          postObject |-> 5, getDataProduct |-> 6, postNamespace |-> 7,
          getNamespace |-> 8, postLocation |-> 9, move |-> 10]

StepsLeft(r) == 9 * Cardinality(todo[r]) + Place[pc[r]]

\* finalise() (config.cxx:627-782) comes nearer its end with everything it
\* does: it looks at no write twice and asks for nothing twice, and neither a
\* failed call nor another run gives it more to do.
CountsDown ==
    [][\A r \in Runs :
         pc[r] # "idle" =>
            \/ StepsLeft(r)' < StepsLeft(r)
            \/ StepsLeft(r)' = StepsLeft(r) /\ ~ StepFinalise(r) /\ ~ LoseRequest(r)]_vars

\* A finalise() that finds every file it is to write, and whose calls are all
\* answered from then on, returns: whatever the other runs do meanwhile, and
\* whatever an earlier failure left behind in the registry or the store.
FinaliseSucceeds ==
    \A r \in Runs :
        /\ pc[r] = "loop" /\ faults = MaxFaults
        /\ \A p \in todo[r] : temp[writes[r][p].path] # None
        ~> result[r] = "returned"

-----------------------------------------------------------------------------
(* What the documentation or a name promises, and the code does not do.    *)

\* An output of a code run is a component of a data product: "Record all data
\* products and meta data to the registry" (fdp.cxx:84).
OutputsAreDataProducts ==
    \A r \in Runs : \A o \in codeRuns[r].outputs :
        \E k \in Keys : dataProducts[k] = o

-----------------------------------------------------------------------------
(* The abstract specification this one implements.                         *)

Cat == INSTANCE Catalogue WITH
           stored <- {q \in StorePaths : store[q] = q.hash},
           published <- dataProducts,
           recorded <- codeRuns

\* The pipeline is a write-once catalogue, whatever its runs do at once and
\* whatever call fails.
ImplementsCatalogue == Cat!CSpec

-----------------------------------------------------------------------------
(* The inductive invariant behind Traceable and ImplementsCatalogue.       *)

\* The store is content-addressed.
StoreSound == \A q \in StorePaths : store[q] \in {None, q.hash}

\* No run writes a file with the content of a configuration or a script.
SetupApart == SetupContents \cap Contents = {}

\* A row that initialise() posts for a configuration or a script.
SetupRows == [path : SetupPaths, hash : SetupContents, public : {TRUE}]

\* Any other row is posted only after its file is in place.
LocationsStored ==
    \A l \in storageLocations :
        \/ l \in SetupRows
        \/ l.path \in StorePaths /\ l.path.hash = l.hash /\ store[l.path] = l.hash

ObjectsLocated ==
    \A o \in objects : o.location \in storageLocations /\ o.location.hash \in Contents

ReferencesResolve ==
    /\ \A k \in Keys : dataProducts[k] \in objects \cup {None}
    /\ \A r \in Runs :
        /\ codeRuns[r].inputs \subseteq ObjectsIn(inputs[r])
        /\ codeRuns[r].outputs \subseteq objects

\* A run's temporary files are its own.
WritesOwned ==
    \A r \in Runs, p \in Products : writes[r][p] # None => writes[r][p].path.run = r

\* A product's read and input are what its configured key names.
ReadAsConfigured(r, p, read) ==
    /\ ReadConfig[r][p] # None
    /\ dataProducts[ReadConfig[r][p]] # None
    /\ read.object = dataProducts[ReadConfig[r][p]]
    /\ read.path = read.object.location.path

ReadsPublished ==
    \A r \in Runs, p \in Products :
        /\ reads[r][p] # None => ReadAsConfigured(r, p, reads[r][p])
        /\ inputs[r][p] # None => ReadAsConfigured(r, p, inputs[r][p])

OutputsRegistered ==
    \A r \in Runs, p \in Products : outputs[r][p] # None =>
        /\ outputs[r][p].object \in objects
        /\ \/ outputs[r][p].object.location.hash = outputs[r][p].hash
           \/ outputs[r][p].object = dataProducts[outputs[r][p].write.key]

\* finalise() has an item, which is a linked write, while it works on one.
ItemsWritten ==
    \A r \in Runs :
        /\ \A p \in todo[r] : writes[r][p] # None
        /\ pc[r] \notin {"idle", "loop", "patch"} =>
            item[r] \in Products /\ writes[r][item[r]] # None /\ hash[r] \in Contents
        /\ pc[r] \in {"postDataProduct", "getComponent"} => object[r] \in Objects

TypeInv == TypeOK /\ ItemsWritten

\* What finalise()'s locals hold at each of its steps.
Locals(r) ==
    /\ pc[r] = "move" =>
        /\ temp[Write(r).path] = hash[r]
        /\ location[r] # None =>
               location[r] \in storageLocations /\ location[r].hash = hash[r]
    /\ pc[r] = "postLocation" => store[NewPath(r)] = hash[r]
    /\ pc[r] \in {"getNamespace", "postNamespace", "getDataProduct", "postObject"} =>
        /\ location[r] = None => LocationRequired
        /\ location[r] # None =>
               location[r] \in storageLocations /\ location[r].hash = hash[r]
    /\ pc[r] = "postDataProduct" =>
        object[r] \in objects /\ object[r].location.hash = hash[r]
    /\ pc[r] = "getComponent" =>
        /\ object[r] \in objects
        /\ \/ object[r].location.hash = hash[r]
           \/ object[r] = dataProducts[Write(r).key]

IInv ==
    /\ TypeInv /\ StoreSound /\ LocationsStored /\ ObjectsLocated
    /\ ReferencesResolve /\ WritesOwned /\ ReadsPublished /\ OutputsRegistered
    /\ \A r \in Runs : Locals(r)

-----------------------------------------------------------------------------
(* What is left of Traceable and NothingLost when a run writes a file with *)
(* the content of a configuration or a script.                             *)

\* Traceable, or the object's location is one that initialise() posted for a
\* configuration or a script with the content that was written.
TraceableOrSetup ==
    /\ \A k \in Keys :
          dataProducts[k] # None =>
              Located(dataProducts[k]) \/ dataProducts[k].location \in SetupRows
    /\ \A r \in Runs : \A o \in codeRuns[r].inputs \cup codeRuns[r].outputs :
          Located(o) \/ o.location \in SetupRows

\* No file that a run wrote is taken away unless the store has its content or
\* initialise() registered a configuration or a script with it.
NothingLostButToSetup ==
    [][\A t \in TempPaths :
         temp[t] # None /\ temp'[t] = None =>
             \/ \E q \in Paths : store'[q] = temp[t]
             \/ \E l \in storageLocations \cap SetupRows : l.hash = temp[t]]_vars

-----------------------------------------------------------------------------
(* The inductive invariant behind ReturnedMeansRecorded.                   *)

Known(content) == \E l \in storageLocations : l.hash = content

\* The linked write of p is finished with.
Recorded(r, p) ==
    /\ temp[writes[r][p].path] = None
    /\ outputs[r][p] # None /\ outputs[r][p].write = writes[r][p]
    /\ Known(outputs[r][p].hash)

InHand(r) == pc[r] \notin {"idle", "loop", "patch"}

\* A write is to be looked at, in hand, or finished with.
Progress(r) ==
    /\ pc[r] # "idle" =>
        \A p \in Products : writes[r][p] # None =>
            p \in todo[r] \/ (InHand(r) /\ p = item[r]) \/ Recorded(r, p)
    /\ InHand(r) /\ pc[r] # "move" => temp[Write(r).path] = None
    /\ InHand(r) /\ pc[r] \notin {"move", "postLocation"} => Known(hash[r])
    /\ pc[r] = "patch" =>
        /\ todo[r] = {}
        /\ \A p \in Products : reads[r][p] # None => inputs[r][p] = reads[r][p]

\* After a return nothing is unfinished, and the code run lists it all.
Finished(r) ==
    result[r] = "returned" =>
        /\ pc[r] = "idle"
        /\ \A p \in Products :
            /\ writes[r][p] # None =>
                Recorded(r, p) /\ outputs[r][p].object \in codeRuns[r].outputs
            /\ reads[r][p] # None => reads[r][p].object \in codeRuns[r].inputs

RecordingInv == IInv /\ \A r \in Runs : Progress(r) /\ Finished(r)

\* ReturnedMeansRecorded, or the location with a write's hash is one that
\* initialise() posted for a configuration or a script with that content.
RecordedOrSetup ==
    \A r \in Runs : result[r] = "returned" =>
        \A p \in Products :
            /\ writes[r][p] # None =>
                /\ temp[writes[r][p].path] = None
                /\ outputs[r][p] # None
                /\ outputs[r][p].write = writes[r][p]
                /\ outputs[r][p].object \in codeRuns[r].outputs
                /\ \E l \in storageLocations :
                       l.hash = outputs[r][p].hash /\ (store[l.path] = l.hash \/ l \in SetupRows)
            /\ reads[r][p] # None => reads[r][p].object \in codeRuns[r].inputs
=============================================================================
