------------------------------ MODULE Pipeline ------------------------------
(***************************************************************************)
(* Several code runs, each a FairDataPipeline::DataPipeline constructed by *)
(* its own process, that share one registry and one write data store.      *)
(*                                                                         *)
(* A run links the files it will write (Config::link_write) and read       *)
(* (Config::link_read), its author writes the linked files, and            *)
(* Config::finalise renames each of them to its hash, registers it and     *)
(* patches the code run with what was read and written.  finalise is a     *)
(* sequence of REST calls; every call that another run can observe, or     *)
(* whose answer another run can change, is a step of its own here.  Any    *)
(* REST call may fail: the request is lost, or it is carried out and the   *)
(* answer is lost; both make finalise throw half way.  A process that      *)
(* dies is one that takes no further step.                                 *)
(*                                                                         *)
(* The behaviours begin where the runs have been constructed: the registry *)
(* has the storage locations and the code runs that Config::initialise     *)
(* posted, which module Setup describes.  Its object rows are left out:    *)
(* nothing here reads them.                                                *)
(***************************************************************************)
EXTENDS Registry

CONSTANTS
    Runs,               \* the code runs
    WriteConfig,        \* WriteConfig[r][p]: the "write:" entry of p, or None
    ReadConfig,         \* ReadConfig[r][p]: the "read:" entry of p, or None
    Public,             \* Public[r]: run_metadata's "public"
    DataProductLiteral, \* the product whose name is the text "data_product"
    MaxLinks,           \* bound: calls of link_write in a run
    MaxFaults           \* bound: failed REST calls

WriteEntries == [alias : Products, version : Versions, namespace : Namespaces,
                 description : Descriptions]
ReadEntries == Keys

ASSUME ConfigAssumption ==
    /\ WriteConfig \in [Runs -> [Products -> WriteEntries \cup {None}]]
    /\ ReadConfig \in [Runs -> [Products -> ReadEntries \cup {None}]]
    /\ Public \in [Runs -> BOOLEAN]
    /\ None \notin WriteEntries /\ None \notin ReadEntries

ASSUME BoundsAssumption == MaxLinks \in Nat /\ MaxFaults \in Nat

\* The n-th "dat-<random>" file of run r; random names never collide.
TempPaths == [run : Runs, n : 1 .. MaxLinks]

\* IOObjects, as far as they are used, in the maps that hold them.
Writes == [path : TempPaths, key : Keys, description : Descriptions]
Reads == [path : Paths, object : Objects]
Outputs == [write : Writes, object : Objects, hash : Contents]

ASSUME MapsAssumption ==
    None \notin Writes /\ None \notin Reads /\ None \notin Outputs

VARIABLES
    \* the registry
    storageLocations,   \* rows of storage_location
    objects,            \* rows of object
    dataProducts,       \* dataProducts[k]: the object of data product k, or None
    namespaces,         \* rows of namespace
    codeRuns,           \* codeRuns[r]: the input and output objects of the run
    \* the file system
    temp,               \* temp[t]: content of temporary file t, or None
    store,              \* store[q]: content of the file at path q, or None
    dirs,               \* directories <<namespace, name>> that exist
    \* members of each run's Config
    writes, reads, outputs, inputs,
    \* each run's control state and the locals of its finalise()
    pc, todo, item, hash, location, object,
    \* what a caller and a bound can see
    links,              \* links[r]: temporary paths issued so far
    answers,            \* answers[r][p]: path the last link_read(p) returned, or None
    result,             \* result[r]: how the last finalise() ended
    faults              \* failed REST calls so far

registry == <<storageLocations, objects, dataProducts, namespaces, codeRuns>>
files == <<temp, store, dirs>>
members == <<writes, reads, outputs, inputs>>
locals == <<todo, item, hash, location, object>>
vars == <<registry, files, members, pc, locals, links, answers, result, faults>>

Nothing == [p \in Products |-> None]

Init ==
    /\ storageLocations = SetupLocations
    /\ objects = {} /\ namespaces = {}
    /\ dataProducts = [k \in Keys |-> None]
    /\ codeRuns = [r \in Runs |-> [inputs |-> {}, outputs |-> {}]]
    /\ temp = [t \in TempPaths |-> None]
    /\ store \in [Paths -> SetupContents \cup {None}]
    /\ \A q \in StorePaths : store[q] = None
    /\ dirs = {}
    /\ writes = [r \in Runs |-> Nothing] /\ reads = [r \in Runs |-> Nothing]
    /\ outputs = [r \in Runs |-> Nothing] /\ inputs = [r \in Runs |-> Nothing]
    /\ pc = [r \in Runs |-> "idle"]
    /\ todo = [r \in Runs |-> {}]
    /\ item = [r \in Runs |-> None] /\ hash = [r \in Runs |-> None]
    /\ location = [r \in Runs |-> None] /\ object = [r \in Runs |-> None]
    /\ links = [r \in Runs |-> 0]
    /\ answers = [r \in Runs |-> Nothing]
    /\ result = [r \in Runs |-> "none"]
    /\ faults = 0

-----------------------------------------------------------------------------
(* The author's program between calls.                                     *)

\* link_write(p): a fresh temporary path, the directory it is in, and the
\* metadata finalise will need.  The directory is named by the entry's alias
\* (use: data_product); the metadata keeps the entry's own name.
NewWrite(r, p) ==
    LET entry == WriteConfig[r][p]
    IN  [path |-> [run |-> r, n |-> links[r] + 1],
         key |-> [name |-> p, version |-> entry.version, namespace |-> entry.namespace],
         description |-> entry.description]

LinkWrite(r, p) ==
    /\ pc[r] = "idle" /\ WriteConfig[r][p] # None /\ links[r] < MaxLinks
    /\ links' = [links EXCEPT ![r] = @ + 1]
    /\ dirs' = dirs \cup {<<WriteConfig[r][p].namespace, WriteConfig[r][p].alias>>}
    /\ writes' = [writes EXCEPT ![r][p] = NewWrite(r, p)]
    /\ result' = [result EXCEPT ![r] = "none"]
    /\ UNCHANGED <<registry, temp, store, reads, outputs, inputs, pc, locals,
                   answers, faults>>

\* The author's program creates, or overwrites, a file link_write named.
UserWrite(r, t, c) ==
    /\ pc[r] = "idle" /\ t.run = r /\ t.n <= links[r]
    /\ temp' = [temp EXCEPT ![t] = c]
    /\ result' = [result EXCEPT ![r] = "none"]
    /\ UNCHANGED <<registry, store, dirs, members, pc, locals, links, answers, faults>>

\* link_read(p) when inputs_ has an entry for the literal "data_product".
LinkReadCached(r, p) ==
    /\ pc[r] = "idle"
    /\ DataProductLiteral \in Products
    /\ inputs[r][DataProductLiteral] # None
    /\ answers' = [answers EXCEPT ![r][p] = inputs[r][DataProductLiteral].path]
    /\ result' = [result EXCEPT ![r] = "none"]
    /\ UNCHANGED <<registry, files, members, pc, locals, links, faults>>

\* link_read(p): the data product's object, its storage location, its path.
\* The GETs are one step: rows never change, so what the data_product row
\* leads to is settled when that row is read.
QueriedObject(r, p) == dataProducts[ReadConfig[r][p]]

LinkReadQueried(r, p) ==
    /\ pc[r] = "idle" /\ ReadConfig[r][p] # None
    /\ DataProductLiteral \in Products => inputs[r][DataProductLiteral] = None
    /\ ReadConfig[r][p].namespace \in namespaces
    /\ QueriedObject(r, p) # None /\ QueriedObject(r, p).location # None
    /\ reads' = [reads EXCEPT ![r][p] = [path |-> QueriedObject(r, p).location.path,
                                         object |-> QueriedObject(r, p)]]
    /\ answers' = [answers EXCEPT ![r][p] = QueriedObject(r, p).location.path]
    /\ result' = [result EXCEPT ![r] = "none"]
    /\ UNCHANGED <<registry, files, writes, outputs, inputs, pc, locals, links, faults>>

-----------------------------------------------------------------------------
(* finalise(): one step per REST call or file operation.                   *)

Goto(r, label) == pc' = [pc EXCEPT ![r] = label]

\* Leaving finalise() destroys its locals and keeps the Config's members.
Leave(r, how) ==
    /\ Goto(r, "idle")
    /\ result' = [result EXCEPT ![r] = how]
    /\ todo' = [todo EXCEPT ![r] = {}]
    /\ item' = [item EXCEPT ![r] = None]
    /\ hash' = [hash EXCEPT ![r] = None]
    /\ location' = [location EXCEPT ![r] = None]
    /\ object' = [object EXCEPT ![r] = None]

\* A REST call was carried out, and its answer never came.
LoseAnswer(r) == faults < MaxFaults /\ faults' = faults + 1 /\ Leave(r, "threw")

Write(r) == writes[r][item[r]]

\* Mutant of Finalise: a product that was recorded once is not looked at again.
FinaliseNewOnly(r) ==
    /\ pc[r] = "idle"
    /\ todo' = [todo EXCEPT ![r] =
                    {p \in Products : writes[r][p] # None /\ outputs[r][p] = None}]
    /\ result' = [result EXCEPT ![r] = "none"]
    /\ Goto(r, "loop")
    /\ UNCHANGED <<registry, files, members, item, hash, location, object,
                   links, answers, faults>>

\* The call of finalise(), and its loop's first iterator.
Finalise(r) ==
    /\ pc[r] = "idle"
    /\ todo' = [todo EXCEPT ![r] = {p \in Products : writes[r][p] # None}]
    /\ result' = [result EXCEPT ![r] = "none"]
    /\ Goto(r, "loop")
    /\ UNCHANGED <<registry, files, members, item, hash, location, object,
                   links, answers, faults>>

\* The next write in map order: is its file there, and does the registry
\* know a location with its hash?
FindLocation(r) ==
    /\ pc[r] = "loop"
    /\ \E p \in todo[r] :
        /\ \A other \in todo[r] : p <= other
        /\ LET content == temp[writes[r][p].path]
           IN  \/ content = None /\ Leave(r, "threw")
               \/ /\ content # None
                  /\ todo' = [todo EXCEPT ![r] = @ \ {p}]
                  /\ item' = [item EXCEPT ![r] = p]
                  /\ hash' = [hash EXCEPT ![r] = content]
                  /\ \E l \in FoundLocation(storageLocations, content, Public[r]) :
                        location' = [location EXCEPT ![r] = l]
                  /\ Goto(r, "move")
                  /\ UNCHANGED <<object, result>>
    /\ UNCHANGED <<registry, files, members, links, answers, faults>>

\* Path of the item under the name its hash gives it.
NewPath(r) ==
    [namespace |-> Write(r).key.namespace, name |-> Write(r).key.name, hash |-> hash[r]]

NewLocation(r) == [path |-> NewPath(r), hash |-> hash[r], public |-> Public[r]]

\* Mutant of RemoveDuplicate: removes the registered file, not the new one.
RemoveRegistered(r) ==
    /\ pc[r] = "move" /\ location[r] # None
    /\ store' = [store EXCEPT ![location[r].path] = None]
    /\ Goto(r, "getNamespace")
    /\ UNCHANGED <<registry, temp, dirs, members, locals, links, answers, result, faults>>

\* Remove the file if its content is registered, else rename it to its hash;
\* rename fails when the directory it renames into does not exist.
RemoveDuplicate(r) ==
    /\ pc[r] = "move" /\ location[r] # None
    /\ temp' = [temp EXCEPT ![Write(r).path] = None]
    /\ Goto(r, "getNamespace")
    /\ UNCHANGED <<registry, store, dirs, members, locals, links, answers, result, faults>>

\* Mutant of RenameToHash: a rename that fails is not noticed.
RenameUnchecked(r) ==
    /\ pc[r] = "move" /\ location[r] = None
    /\ temp' = [temp EXCEPT ![Write(r).path] = None]
    /\ Goto(r, "postLocation")
    /\ UNCHANGED <<registry, store, dirs, members, locals, links, answers, result, faults>>

RenameToHash(r) ==
    /\ pc[r] = "move" /\ location[r] = None
    /\ <<Write(r).key.namespace, Write(r).key.name>> \in dirs
    /\ store' = [store EXCEPT ![NewPath(r)] = temp[Write(r).path]]
    /\ temp' = [temp EXCEPT ![Write(r).path] = None]
    /\ Goto(r, "postLocation")
    /\ UNCHANGED <<registry, dirs, members, locals, links, answers, result, faults>>

RenameFails(r) ==
    /\ pc[r] = "move" /\ location[r] = None
    /\ <<Write(r).key.namespace, Write(r).key.name>> \notin dirs
    /\ Leave(r, "threw")
    /\ UNCHANGED <<registry, files, members, links, answers, faults>>

PostLocation(r) ==
    /\ pc[r] = "postLocation"
    /\ storageLocations' = LocationsAfterPost(storageLocations, NewLocation(r))
    /\ \/ /\ location' = [location EXCEPT ![r] =
                              PostedLocation(storageLocations, NewLocation(r))]
          /\ Goto(r, "getNamespace")
          /\ UNCHANGED <<todo, item, hash, object, result, faults>>
       \/ LoseAnswer(r)
    /\ UNCHANGED <<objects, dataProducts, namespaces, codeRuns, files, members,
                   links, answers>>

\* Mutant of GetNamespace: asks again until the namespace is there.
AwaitNamespace(r) ==
    /\ pc[r] = "getNamespace"
    /\ Goto(r, IF Write(r).key.namespace \in namespaces
                 THEN "getDataProduct" ELSE "getNamespace")
    /\ UNCHANGED <<registry, files, members, locals, links, answers, result, faults>>

\* POST file_type, whose table no other step looks at, and GET namespace.
GetNamespace(r) ==
    /\ pc[r] = "getNamespace"
    /\ Goto(r, IF Write(r).key.namespace \in namespaces
                 THEN "getDataProduct" ELSE "postNamespace")
    /\ UNCHANGED <<registry, files, members, locals, links, answers, result, faults>>

\* Mutant of PostNamespace: asks again when no answer comes.
PostNamespaceAndAsk(r) ==
    /\ pc[r] = "postNamespace"
    /\ namespaces' = namespaces \cup {Write(r).key.namespace}
    /\ \/ Goto(r, "getDataProduct") /\ UNCHANGED faults
       \/ faults < MaxFaults /\ faults' = faults + 1 /\ Goto(r, "getNamespace")
    /\ UNCHANGED <<storageLocations, objects, dataProducts, codeRuns, files,
                   members, locals, links, answers, result>>

PostNamespace(r) ==
    /\ pc[r] = "postNamespace"
    /\ namespaces' = namespaces \cup {Write(r).key.namespace}
    /\ \/ /\ Goto(r, "getDataProduct")
          /\ UNCHANGED <<locals, result, faults>>
       \/ LoseAnswer(r)
    /\ UNCHANGED <<storageLocations, objects, dataProducts, codeRuns, files,
                   members, links, answers>>

\* Mutant of GetDataProduct: a data product that exists is an error.
RefuseDataProduct(r) ==
    /\ pc[r] = "getDataProduct"
    /\ \/ dataProducts[Write(r).key] = None /\ Goto(r, "postObject")
          /\ UNCHANGED <<locals, result>>
       \/ dataProducts[Write(r).key] # None /\ Leave(r, "threw")
    /\ UNCHANGED <<registry, files, members, links, answers, faults>>

\* A data product of that name, version and namespace is used as it is.
GetDataProduct(r) ==
    /\ pc[r] = "getDataProduct"
    /\ object' = [object EXCEPT ![r] = dataProducts[Write(r).key]]
    /\ Goto(r, IF dataProducts[Write(r).key] = None THEN "postObject" ELSE "getComponent")
    /\ UNCHANGED <<registry, files, members, todo, item, hash, location, links,
                   answers, result, faults>>

\* Mutant of NewObject: the description is not posted.
BareObject(r) == [location |-> location[r]]

NewObject(r) == [location |-> location[r], description |-> Write(r).description]

PostObject(r) ==
    /\ pc[r] = "postObject"
    /\ \/ /\ LocationRequired /\ location[r] = None
          /\ Leave(r, "threw")
          /\ UNCHANGED <<objects, faults>>
       \/ /\ LocationRequired => location[r] # None
          /\ objects' = objects \cup {NewObject(r)}
          /\ \/ /\ object' = [object EXCEPT ![r] = NewObject(r)]
                /\ Goto(r, "postDataProduct")
                /\ UNCHANGED <<todo, item, hash, location, result, faults>>
             \/ LoseAnswer(r)
    /\ UNCHANGED <<storageLocations, dataProducts, namespaces, codeRuns, files,
                   members, links, answers>>

\* A 409 leaves the row another run posted; the answer is not looked at.
PostDataProduct(r) ==
    /\ pc[r] = "postDataProduct"
    /\ dataProducts' = [dataProducts EXCEPT ![Write(r).key] =
                            IF @ = None THEN object[r] ELSE @]
    /\ \/ /\ Goto(r, "getComponent")
          /\ UNCHANGED <<locals, result, faults>>
       \/ LoseAnswer(r)
    /\ UNCHANGED <<storageLocations, objects, namespaces, codeRuns, files,
                   members, links, answers>>

GetComponent(r) ==
    /\ pc[r] = "getComponent"
    /\ outputs' = [outputs EXCEPT ![r][item[r]] =
                        [write |-> Write(r), object |-> object[r], hash |-> hash[r]]]
    /\ item' = [item EXCEPT ![r] = None]
    /\ hash' = [hash EXCEPT ![r] = None]
    /\ location' = [location EXCEPT ![r] = None]
    /\ object' = [object EXCEPT ![r] = None]
    /\ Goto(r, "loop")
    /\ UNCHANGED <<registry, files, writes, reads, inputs, todo, links, answers,
                   result, faults>>

\* After the loop every read becomes an input.
CollectInputs(r) ==
    /\ pc[r] = "loop" /\ todo[r] = {}
    /\ inputs' = [inputs EXCEPT ![r] =
            [p \in Products |-> IF reads[r][p] # None THEN reads[r][p] ELSE @[p]]]
    /\ Goto(r, "patch")
    /\ UNCHANGED <<registry, files, writes, reads, outputs, locals, links,
                   answers, result, faults>>

ObjectsIn(map) == {map[p].object : p \in {q \in Products : map[q] # None}}

\* PATCH code_run: a list is sent only when its map is not empty.
PatchCodeRun(r) ==
    /\ pc[r] = "patch"
    /\ codeRuns' = [codeRuns EXCEPT ![r] =
            [inputs |-> IF ObjectsIn(inputs[r]) = {} THEN @.inputs
                                                     ELSE ObjectsIn(inputs[r]),
             outputs |-> IF ObjectsIn(outputs[r]) = {} THEN @.outputs
                                                       ELSE ObjectsIn(outputs[r])]]
    /\ \/ Leave(r, "returned") /\ UNCHANGED faults
       \/ LoseAnswer(r)
    /\ UNCHANGED <<storageLocations, objects, dataProducts, namespaces, files,
                   members, links, answers>>

\* The REST call about to be made gets no answer and was not carried out, or
\* is answered with an error.
LoseRequest(r) ==
    /\ pc[r] \notin {"idle", "move"}
    /\ pc[r] = "loop" => todo[r] # {}
    /\ LoseAnswer(r)
    /\ UNCHANGED <<registry, files, members, links, answers>>

-----------------------------------------------------------------------------
CallUser(r) ==
    \/ \E p \in Products : LinkWrite(r, p) \/ LinkReadCached(r, p) \/ LinkReadQueried(r, p)
    \/ \E t \in TempPaths, c \in Contents : UserWrite(r, t, c)
    \/ Finalise(r)

StepFinalise(r) ==
    \/ FindLocation(r) \/ RemoveDuplicate(r) \/ RenameToHash(r) \/ RenameFails(r)
    \/ PostLocation(r) \/ GetNamespace(r) \/ PostNamespace(r)
    \/ GetDataProduct(r) \/ PostObject(r) \/ PostDataProduct(r)
    \/ GetComponent(r) \/ CollectInputs(r) \/ PatchCodeRun(r)

Next == \E r \in Runs : CallUser(r) \/ StepFinalise(r) \/ LoseRequest(r)

Spec == Init /\ [][Next]_vars

\* finalise() is a loop of blocking calls in its caller's thread: it goes on
\* as long as the thread is scheduled and every call ends.  Nothing obliges
\* the author's program to call anything.
Fairness == \A r \in Runs : WF_vars(StepFinalise(r))

FairSpec == Spec /\ Fairness
=============================================================================
