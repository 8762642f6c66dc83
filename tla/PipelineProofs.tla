--------------------------- MODULE PipelineProofs ---------------------------
(***************************************************************************)
(* What Pipeline guarantees for any number of runs, products, contents,    *)
(* temporary paths and failed calls.                                       *)
(***************************************************************************)
EXTENDS PipelineProperties, FiniteSetTheorems, TLAPS

USE DEF Goto, Write, registry, files, members, locals

-----------------------------------------------------------------------------
(* Types.                                                                  *)

\* The write that finalise() is working on, and what is computed from it.
LEMMA ItemType ==
    ASSUME TypeInv, NEW r \in Runs, pc[r] \notin {"idle", "loop", "patch"}
    PROVE  /\ item[r] \in Products /\ hash[r] \in Contents
           /\ Write(r) \in Writes /\ Write(r) # None
           /\ Write(r).path \in TempPaths /\ Write(r).key \in Keys
           /\ Write(r).key.namespace \in Namespaces
           /\ NewPath(r) \in StorePaths
           /\ NewLocation(r) \in StorageLocations
<1>1. Write(r) \in Writes /\ Write(r) # None /\ item[r] \in Products /\ hash[r] \in Contents
  BY DEF TypeInv, ItemsWritten, TypeOK
<1>2. Write(r).path \in TempPaths /\ Write(r).key \in Keys
  BY <1>1 DEF Writes
<1>3. NewPath(r) \in StorePaths /\ Write(r).key.namespace \in Namespaces
  BY <1>1, <1>2 DEF NewPath, Keys, StorePaths
<1>4. NewLocation(r) \in StorageLocations
  BY <1>1, <1>3, ConfigAssumption DEF NewLocation, StorageLocations, Paths, Hashes, StorePaths
<1> QED
  BY <1>1, <1>2, <1>3, <1>4

\* The object finalise() posts has a description of its write.
LEMMA NewObjectType ==
    ASSUME TypeInv, NEW r \in Runs, pc[r] = "postObject"
    PROVE  NewObject(r) \in Objects
<1>1. Write(r).description \in Descriptions
  BY ItemType DEF Writes
<1> QED
  BY <1>1 DEF NewObject, Objects, TypeInv, TypeOK

\* link_write makes a write that has the types it should.
LEMMA NewWriteType ==
    ASSUME TypeOK, NEW r \in Runs, NEW p \in Products, LinkWrite(r, p)
    PROVE  /\ NewWrite(r, p) \in Writes /\ NewWrite(r, p).path.run = r
           /\ links[r] + 1 \in 0 .. MaxLinks
           /\ WriteConfig[r][p].namespace \in Namespaces
           /\ WriteConfig[r][p].alias \in Products
<1> DEFINE entry == WriteConfig[r][p]
           path == [run |-> r, n |-> links[r] + 1]
<1>1. path \in TempPaths /\ links[r] + 1 \in 0 .. MaxLinks
  BY BoundsAssumption DEF LinkWrite, TypeOK, TempPaths
<1>2. entry \in WriteEntries
  BY ConfigAssumption DEF LinkWrite
<1> QED
  BY <1>1, <1>2 DEF NewWrite, Writes, Keys, WriteEntries

\* link_read makes a read that has the types it should.
LEMMA NewReadType ==
    ASSUME TypeOK, NEW r \in Runs, NEW p \in Products, LinkReadQueried(r, p)
    PROVE  /\ ReadConfig[r][p] \in Keys
           /\ QueriedObject(r, p) \in Objects
           /\ QueriedObject(r, p).location.path \in Paths
           /\ [path |-> QueriedObject(r, p).location.path,
               object |-> QueriedObject(r, p)] \in Reads
<1>1. ReadConfig[r][p] \in Keys
  BY ConfigAssumption DEF LinkReadQueried, ReadEntries
<1>2. QueriedObject(r, p) \in Objects /\ QueriedObject(r, p).location \in StorageLocations
  BY <1>1 DEF LinkReadQueried, QueriedObject, TypeOK, Objects
<1>3. QueriedObject(r, p).location.path \in Paths
  BY <1>2 DEF StorageLocations
<1> QED
  BY <1>1, <1>2, <1>3 DEF Reads

\* The registry answers with rows it has or was sent.
LEMMA LocationAnswers ==
    ASSUME NEW rows \in SUBSET StorageLocations, NEW l \in StorageLocations
    PROVE  /\ LocationsAfterPost(rows, l) \in SUBSET StorageLocations
           /\ PostedLocation(rows, l) \in StorageLocations \cup {None}
           /\ \A h, pub : FoundLocation(rows, h, pub) \subseteq rows \cup {None}
  BY DEF LocationsAfterPost, PostedLocation, FoundLocation

\* Leaving finalise() leaves its locals and its result with their types.
LEMMA LeaveType ==
    ASSUME TypeOK, NEW r \in Runs, NEW how \in {"returned", "threw"}, Leave(r, how)
    PROVE  /\ pc' \in [Runs -> Labels]
           /\ todo' \in [Runs -> SUBSET Products]
           /\ item' \in [Runs -> Products \cup {None}]
           /\ hash' \in [Runs -> Contents \cup {None}]
           /\ location' \in [Runs -> StorageLocations \cup {None}]
           /\ object' \in [Runs -> Objects \cup {None}]
           /\ result' \in [Runs -> {"none", "returned", "threw"}]
  BY DEF TypeOK, Labels, Leave

\* A failed call leaves finalise(), and is counted.
LEMMA LoseAnswerType ==
    ASSUME TypeOK, NEW r \in Runs, LoseAnswer(r)
    PROVE  /\ pc' \in [Runs -> Labels]
           /\ todo' \in [Runs -> SUBSET Products]
           /\ item' \in [Runs -> Products \cup {None}]
           /\ hash' \in [Runs -> Contents \cup {None}]
           /\ location' \in [Runs -> StorageLocations \cup {None}]
           /\ object' \in [Runs -> Objects \cup {None}]
           /\ result' \in [Runs -> {"none", "returned", "threw"}]
           /\ faults' \in 0 .. MaxFaults
<1>1. Leave(r, "threw")
  BY DEF LoseAnswer
<1>2. faults' \in 0 .. MaxFaults
  BY BoundsAssumption DEF LoseAnswer, TypeOK
<1> QED
  BY <1>1, <1>2, LeaveType

\* Every step of Pipeline keeps the types.
LEMMA NextType ==
    TypeInv /\ [Next]_vars => TypeOK'
<1> SUFFICES ASSUME TypeInv, [Next]_vars PROVE TypeOK'
  OBVIOUS
<1> USE DEF TypeInv
<1>1. ASSUME NEW r \in Runs, NEW p \in Products, LinkWrite(r, p) PROVE TypeOK'
  <2>0. /\ NewWrite(r, p) \in Writes /\ links[r] + 1 \in 0 .. MaxLinks
        /\ WriteConfig[r][p].namespace \in Namespaces /\ WriteConfig[r][p].alias \in Products
    BY <1>1, NewWriteType
  <2>1. links' \in [Runs -> 0 .. MaxLinks] /\ dirs' \in SUBSET (Namespaces \X Products)
    BY <1>1, <2>0 DEF LinkWrite, TypeOK
  <2>2. writes' \in [Runs -> [Products -> Writes \cup {None}]]
    BY <1>1, <2>0 DEF LinkWrite, TypeOK
  <2> QED
    BY <1>1, <2>1, <2>2 DEF LinkWrite, TypeOK
<1>2. ASSUME NEW r \in Runs, NEW p \in Products, LinkReadCached(r, p) PROVE TypeOK'
  <2>1. inputs[r][DataProductLiteral].path \in Paths
    BY <1>2 DEF LinkReadCached, TypeOK, Reads
  <2> QED
    BY <1>2, <2>1 DEF LinkReadCached, TypeOK
<1>3. ASSUME NEW r \in Runs, NEW p \in Products, LinkReadQueried(r, p) PROVE TypeOK'
  BY <1>3, NewReadType DEF LinkReadQueried, TypeOK
<1>4. ASSUME NEW r \in Runs, NEW t \in TempPaths, NEW c \in Contents, UserWrite(r, t, c)
      PROVE TypeOK'
  BY <1>4 DEF UserWrite, TypeOK
<1>5. ASSUME NEW r \in Runs, Finalise(r) PROVE TypeOK'
  BY <1>5 DEF Finalise, TypeOK, Labels
<1>6. ASSUME NEW r \in Runs, FindLocation(r) PROVE TypeOK'
  <2> PICK p \in todo[r] :
        LET content == temp[writes[r][p].path]
        IN  \/ content = None /\ Leave(r, "threw")
            \/ /\ content # None
               /\ todo' = [todo EXCEPT ![r] = @ \ {p}]
               /\ item' = [item EXCEPT ![r] = p]
               /\ hash' = [hash EXCEPT ![r] = content]
               /\ \E l \in FoundLocation(storageLocations, content, Public[r]) :
                     location' = [location EXCEPT ![r] = l]
               /\ Goto(r, "move")
               /\ UNCHANGED <<object, result>>
    BY <1>6 DEF FindLocation
  <2> DEFINE content == temp[writes[r][p].path]
  <2>1. p \in Products
    BY DEF TypeOK
  <2>2. content \in Contents \cup {None}
    <3>1. writes[r][p] \in Writes
      BY <2>1 DEF TypeOK, ItemsWritten
    <3>2. writes[r][p].path \in TempPaths
      BY <3>1 DEF Writes
    <3> QED
      BY <3>2 DEF TypeOK
  <2>3. CASE content = None /\ Leave(r, "threw")
    BY <1>6, <2>3, LeaveType DEF FindLocation, TypeOK
  <2>4. CASE content # None
    <3>1. PICK l \in FoundLocation(storageLocations, content, Public[r]) :
            location' = [location EXCEPT ![r] = l]
      BY <2>4
    <3>2. l \in StorageLocations \cup {None}
      BY DEF FoundLocation, TypeOK
    <3>3. /\ todo' = [todo EXCEPT ![r] = @ \ {p}]
          /\ item' = [item EXCEPT ![r] = p]
          /\ hash' = [hash EXCEPT ![r] = content]
          /\ Goto(r, "move")
          /\ UNCHANGED <<object, result>>
      BY <2>4
    <3> HIDE DEF content
    <3> QED
      BY <1>6, <2>1, <2>2, <2>4, <3>1, <3>2, <3>3 DEF FindLocation, TypeOK, Labels
  <2> QED
    BY <2>3, <2>4
<1>7. ASSUME NEW r \in Runs, RemoveDuplicate(r) PROVE TypeOK'
  BY <1>7, ItemType DEF RemoveDuplicate, TypeOK, Labels
<1>8. ASSUME NEW r \in Runs, RenameToHash(r) PROVE TypeOK'
  <2>1. Write(r).path \in TempPaths /\ NewPath(r) \in StorePaths
    BY <1>8, ItemType DEF RenameToHash
  <2> QED
    BY <1>8, <2>1 DEF RenameToHash, TypeOK, Labels, Paths, Hashes
<1>9. ASSUME NEW r \in Runs, RenameFails(r) PROVE TypeOK'
  BY <1>9, LeaveType DEF RenameFails, TypeOK
<1>10. ASSUME NEW r \in Runs, PostLocation(r) PROVE TypeOK'
  <2>1. NewLocation(r) \in StorageLocations
    BY <1>10, ItemType DEF PostLocation
  <2>2. /\ LocationsAfterPost(storageLocations, NewLocation(r)) \in SUBSET StorageLocations
        /\ PostedLocation(storageLocations, NewLocation(r)) \in StorageLocations \cup {None}
    BY <2>1, LocationAnswers DEF TypeOK
  <2>3. CASE LoseAnswer(r)
    BY <1>10, <2>2, <2>3, LoseAnswerType DEF PostLocation, TypeOK
  <2>4. CASE UNCHANGED <<todo, item, hash, object, result, faults>>
             /\ Goto(r, "getNamespace")
             /\ location' = [location EXCEPT ![r] =
                               PostedLocation(storageLocations, NewLocation(r))]
    BY <1>10, <2>2, <2>4 DEF PostLocation, TypeOK, Labels
  <2> QED
    BY <1>10, <2>3, <2>4 DEF PostLocation
<1>11. ASSUME NEW r \in Runs, GetNamespace(r) PROVE TypeOK'
  BY <1>11 DEF GetNamespace, TypeOK, Labels
<1>12. ASSUME NEW r \in Runs, PostNamespace(r) PROVE TypeOK'
  <2>1. Write(r).key.namespace \in Namespaces
    BY <1>12, ItemType DEF PostNamespace
  <2>2. CASE LoseAnswer(r)
    BY <1>12, <2>1, <2>2, LoseAnswerType DEF PostNamespace, TypeOK
  <2>3. CASE Goto(r, "getDataProduct") /\ UNCHANGED <<locals, result, faults>>
    BY <1>12, <2>1, <2>3 DEF PostNamespace, TypeOK, Labels
  <2> QED
    BY <1>12, <2>2, <2>3 DEF PostNamespace
<1>13. ASSUME NEW r \in Runs, GetDataProduct(r) PROVE TypeOK'
  BY <1>13, ItemType DEF GetDataProduct, TypeOK, Labels
<1>14. ASSUME NEW r \in Runs, PostObject(r) PROVE TypeOK'
  <2>1. NewObject(r) \in Objects
    BY <1>14, NewObjectType DEF PostObject
  <2>2. CASE Leave(r, "threw") /\ UNCHANGED <<objects, faults>>
    BY <1>14, <2>2, LeaveType DEF PostObject, TypeOK
  <2>3. CASE LoseAnswer(r) /\ objects' = objects \cup {NewObject(r)}
    BY <1>14, <2>1, <2>3, LoseAnswerType DEF PostObject, TypeOK
  <2>4. CASE /\ objects' = objects \cup {NewObject(r)}
             /\ object' = [object EXCEPT ![r] = NewObject(r)]
             /\ Goto(r, "postDataProduct")
             /\ UNCHANGED <<todo, item, hash, location, result, faults>>
    BY <1>14, <2>1, <2>4 DEF PostObject, TypeOK, Labels
  <2> QED
    BY <1>14, <2>2, <2>3, <2>4 DEF PostObject
<1>15. ASSUME NEW r \in Runs, PostDataProduct(r) PROVE TypeOK'
  <2>1. Write(r).key \in Keys /\ object[r] \in Objects
    BY <1>15, ItemType DEF PostDataProduct, ItemsWritten
  <2>2. CASE LoseAnswer(r)
    BY <1>15, <2>1, <2>2, LoseAnswerType DEF PostDataProduct, TypeOK
  <2>3. CASE Goto(r, "getComponent") /\ UNCHANGED <<locals, result, faults>>
    BY <1>15, <2>1, <2>3 DEF PostDataProduct, TypeOK, Labels
  <2> QED
    BY <1>15, <2>2, <2>3 DEF PostDataProduct
<1>16. ASSUME NEW r \in Runs, GetComponent(r) PROVE TypeOK'
  <2>1. [write |-> Write(r), object |-> object[r], hash |-> hash[r]] \in Outputs
    BY <1>16, ItemType DEF GetComponent, ItemsWritten, Outputs
  <2> QED
    BY <1>16, <2>1 DEF GetComponent, TypeOK, Labels
<1>17. ASSUME NEW r \in Runs, CollectInputs(r) PROVE TypeOK'
  BY <1>17 DEF CollectInputs, TypeOK, Labels
<1>18. ASSUME NEW r \in Runs, PatchCodeRun(r) PROVE TypeOK'
  <2>1. ObjectsIn(inputs[r]) \in SUBSET Objects
    BY DEF ObjectsIn, TypeOK, Reads
  <2>2. ObjectsIn(outputs[r]) \in SUBSET Objects
    BY DEF ObjectsIn, TypeOK, Outputs
  <2>3. codeRuns' \in [Runs -> [inputs : SUBSET Objects, outputs : SUBSET Objects]]
    BY <1>18, <2>1, <2>2 DEF PatchCodeRun, TypeOK
  <2>4. CASE LoseAnswer(r)
    BY <1>18, <2>3, <2>4, LoseAnswerType DEF PatchCodeRun, TypeOK
  <2>5. CASE Leave(r, "returned") /\ UNCHANGED faults
    BY <1>18, <2>3, <2>5, LeaveType DEF PatchCodeRun, TypeOK
  <2> QED
    BY <1>18, <2>4, <2>5 DEF PatchCodeRun
<1>19. ASSUME NEW r \in Runs, LoseRequest(r) PROVE TypeOK'
  BY <1>19, LoseAnswerType DEF LoseRequest, TypeOK
<1>20. CASE UNCHANGED vars
  BY <1>20 DEF vars, TypeOK
<1> QED
  BY <1>1, <1>2, <1>3, <1>4, <1>5, <1>6, <1>7, <1>8, <1>9, <1>10, <1>11, <1>12,
     <1>13, <1>14, <1>15, <1>16, <1>17, <1>18, <1>19, <1>20
     DEF Next, CallUser, StepFinalise

-----------------------------------------------------------------------------
(* A step of one run leaves the others' state alone.                       *)

Acts(r) == CallUser(r) \/ StepFinalise(r) \/ LoseRequest(r)

\* Everything that is kept per run.
Own(r) == <<pc[r], todo[r], item[r], hash[r], location[r], object[r], writes[r],
            reads[r], outputs[r], inputs[r], codeRuns[r], answers[r], links[r], result[r]>>

\* Leaving finalise() resets the locals of the run that leaves, and no other.
LEMMA LeaveOwn ==
    ASSUME TypeOK, NEW r \in Runs, NEW how, Leave(r, how)
    PROVE  /\ pc'[r] = "idle" /\ todo'[r] = {} /\ result'[r] = how
           /\ \A s \in Runs \ {r} :
                /\ pc'[s] = pc[s] /\ todo'[s] = todo[s] /\ item'[s] = item[s]
                /\ hash'[s] = hash[s] /\ location'[s] = location[s]
                /\ object'[s] = object[s] /\ result'[s] = result[s]
  BY DEF TypeOK, Leave

\* A step of run r leaves the locals of the other runs alone.
LEMMA OthersKept ==
    ASSUME TypeOK, NEW r \in Runs, Acts(r), NEW s \in Runs \ {r}
    PROVE  Own(s)' = Own(s)
<1> USE DEF Own
<1>1. ASSUME NEW p \in Products, LinkWrite(r, p) \/ LinkReadCached(r, p) \/ LinkReadQueried(r, p)
      PROVE  Own(s)' = Own(s)
  BY <1>1 DEF LinkWrite, LinkReadCached, LinkReadQueried, TypeOK
<1>2. ASSUME NEW t \in TempPaths, NEW c \in Contents, UserWrite(r, t, c)
      PROVE  Own(s)' = Own(s)
  BY <1>2 DEF UserWrite, TypeOK
<1>3. CASE Finalise(r)
  BY <1>3 DEF Finalise, TypeOK
<1>4. CASE FindLocation(r)
  BY <1>4, LeaveOwn DEF FindLocation, TypeOK
<1>5. CASE RemoveDuplicate(r) \/ RenameToHash(r) \/ RenameFails(r)
  BY <1>5, LeaveOwn DEF RemoveDuplicate, RenameToHash, RenameFails, TypeOK
<1>6. CASE PostLocation(r)
  BY <1>6, LeaveOwn DEF PostLocation, LoseAnswer, TypeOK
<1>7. CASE GetNamespace(r) \/ PostNamespace(r)
  BY <1>7, LeaveOwn DEF GetNamespace, PostNamespace, LoseAnswer, TypeOK
<1>8. CASE GetDataProduct(r) \/ PostDataProduct(r)
  BY <1>8, LeaveOwn DEF GetDataProduct, PostDataProduct, LoseAnswer, TypeOK
<1>9. CASE PostObject(r)
  BY <1>9, LeaveOwn DEF PostObject, LoseAnswer, TypeOK
<1>10. CASE GetComponent(r) \/ CollectInputs(r)
  BY <1>10 DEF GetComponent, CollectInputs, TypeOK
<1>11. CASE PatchCodeRun(r)
  BY <1>11, LeaveOwn DEF PatchCodeRun, LoseAnswer, TypeOK
<1>12. CASE LoseRequest(r)
  BY <1>12, LeaveOwn DEF LoseRequest, LoseAnswer, TypeOK
<1> QED
  BY <1>1, <1>2, <1>3, <1>4, <1>5, <1>6, <1>7, <1>8, <1>9, <1>10, <1>11, <1>12
     DEF Acts, CallUser, StepFinalise

ItemWritten(r) ==
    /\ \A p \in todo[r] : writes[r][p] # None
    /\ pc[r] \notin {"idle", "loop", "patch"} =>
        item[r] \in Products /\ writes[r][item[r]] # None /\ hash[r] \in Contents
    /\ pc[r] \in {"postDataProduct", "getComponent"} => object[r] \in Objects

\* Every step keeps the write that finalise() works on a linked one.
LEMMA NextItems ==
    TypeInv /\ [Next]_vars => ItemsWritten'
<1> SUFFICES ASSUME TypeInv, [Next]_vars PROVE ItemsWritten'
  OBVIOUS
<1> SUFFICES ASSUME NEW r \in Runs, Acts(r) PROVE ItemWritten(r)'
  <2>1. CASE UNCHANGED vars
    BY <2>1 DEF TypeInv, ItemsWritten, vars
  <2>2. ASSUME NEW r \in Runs, Acts(r), ItemWritten(r)' PROVE ItemsWritten'
    <3>1. ASSUME NEW s \in Runs \ {r} PROVE ItemWritten(s)'
      <4>1. ItemWritten(s)
        BY DEF TypeInv, ItemsWritten, ItemWritten
      <4> QED
        BY <2>2, <4>1, OthersKept DEF ItemWritten, Own, TypeInv
    <3> QED
      BY <2>2, <3>1 DEF ItemsWritten, ItemWritten
  <2> QED
    BY <2>1, <2>2 DEF Next, Acts
<1>0. TypeOK /\ ItemWritten(r)
  BY DEF TypeInv, ItemsWritten, ItemWritten
<1> USE DEF ItemWritten
<1>1. ASSUME NEW p \in Products, LinkWrite(r, p) PROVE ItemWritten(r)'
  <2>1. NewWrite(r, p) # None
    BY <1>0, <1>1, NewWriteType, MapsAssumption
  <2>2. /\ pc'[r] = "idle" /\ todo' = todo
        /\ \A q \in Products : writes'[r][q] = IF q = p THEN NewWrite(r, p) ELSE writes[r][q]
    BY <1>0, <1>1 DEF LinkWrite, TypeOK
  <2> QED
    BY <1>0, <2>1, <2>2 DEF TypeOK
<1>2. ASSUME NEW p \in Products, LinkReadCached(r, p) \/ LinkReadQueried(r, p)
      PROVE  ItemWritten(r)'
  BY <1>0, <1>2 DEF LinkReadCached, LinkReadQueried
<1>3. ASSUME NEW t \in TempPaths, NEW c \in Contents, UserWrite(r, t, c)
      PROVE  ItemWritten(r)'
  BY <1>0, <1>3 DEF UserWrite
<1>4. CASE Finalise(r)
  BY <1>0, <1>4 DEF Finalise, TypeOK
<1>5. CASE FindLocation(r)
  <2>1. CASE pc'[r] = "idle" /\ todo'[r] = {}
    BY <2>1
  <2>2. CASE \E p \in todo[r] : 
               /\ temp[writes[r][p].path] # None
               /\ todo'[r] = todo[r] \ {p} /\ item'[r] = p
               /\ hash'[r] = temp[writes[r][p].path] /\ pc'[r] = "move"
    <3> PICK p \in todo[r] : 
               /\ temp[writes[r][p].path] # None
               /\ todo'[r] = todo[r] \ {p} /\ item'[r] = p
               /\ hash'[r] = temp[writes[r][p].path] /\ pc'[r] = "move"
      BY <2>2
    <3>1. writes[r][p] \in Writes /\ p \in Products
      BY <1>0 DEF TypeOK
    <3>2. temp[writes[r][p].path] \in Contents
      BY <1>0, <3>1 DEF TypeOK, Writes
    <3> QED
      BY <1>0, <1>5, <3>1, <3>2 DEF FindLocation
  <2> QED
    BY <1>0, <1>5, <2>1, <2>2, LeaveOwn DEF FindLocation, TypeOK
<1>6. CASE RemoveDuplicate(r) \/ RenameToHash(r) \/ GetNamespace(r)
  <2>1. pc'[r] \in {"postLocation", "getNamespace", "getDataProduct", "postNamespace"}
    BY <1>0, <1>6 DEF RemoveDuplicate, RenameToHash, GetNamespace, TypeOK
  <2> QED
    BY <1>0, <1>6, <2>1 DEF RemoveDuplicate, RenameToHash, GetNamespace
<1>7. CASE pc'[r] = "idle" /\ todo'[r] = {}
  BY <1>7
<1>8. CASE RenameFails(r) \/ LoseRequest(r) \/ PatchCodeRun(r)
  BY <1>0, <1>7, <1>8, LeaveOwn DEF RenameFails, LoseRequest, LoseAnswer, PatchCodeRun
<1>9. CASE PostLocation(r)
  <2>1. CASE LoseAnswer(r)
    BY <1>0, <1>7, <2>1, LeaveOwn DEF LoseAnswer
  <2>2. CASE Goto(r, "getNamespace") /\ UNCHANGED <<todo, item, hash>>
    <3>1. pc'[r] = "getNamespace"
      BY <1>0, <2>2 DEF TypeOK
    <3> QED
      BY <1>0, <1>9, <2>2, <3>1 DEF PostLocation
  <2> QED
    BY <1>9, <2>1, <2>2 DEF PostLocation
<1>10. CASE PostNamespace(r)
  <2>1. CASE LoseAnswer(r)
    BY <1>0, <1>7, <2>1, LeaveOwn DEF LoseAnswer
  <2>2. CASE Goto(r, "getDataProduct") /\ UNCHANGED locals
    <3>1. pc'[r] = "getDataProduct"
      BY <1>0, <2>2 DEF TypeOK
    <3> QED
      BY <1>0, <1>10, <2>2, <3>1 DEF PostNamespace
  <2> QED
    BY <1>10, <2>1, <2>2 DEF PostNamespace
<1>11. CASE GetDataProduct(r)
  <2>1. dataProducts[Write(r).key] \in Objects \cup {None}
    BY <1>0, <1>11, ItemType DEF GetDataProduct, TypeOK
  <2>2. /\ object'[r] = dataProducts[Write(r).key]
        /\ pc'[r] = IF dataProducts[Write(r).key] = None THEN "postObject" ELSE "getComponent"
    BY <1>0, <1>11 DEF GetDataProduct, TypeOK
  <2> QED
    BY <1>0, <1>11, <2>1, <2>2 DEF GetDataProduct
<1>12. CASE PostObject(r)
  <2>1. CASE LoseAnswer(r) \/ Leave(r, "threw")
    BY <1>0, <1>7, <2>1, LeaveOwn DEF LoseAnswer
  <2>2. CASE /\ object' = [object EXCEPT ![r] = NewObject(r)]
             /\ Goto(r, "postDataProduct")
             /\ UNCHANGED <<todo, item, hash>>
    <3>1. object'[r] = NewObject(r) /\ pc'[r] = "postDataProduct"
      BY <1>0, <2>2 DEF TypeOK
    <3> QED
      BY <1>0, <1>12, <2>2, <3>1, NewObjectType DEF PostObject
  <2> QED
    BY <1>12, <2>1, <2>2 DEF PostObject
<1>13. CASE PostDataProduct(r)
  <2>1. CASE LoseAnswer(r)
    BY <1>0, <1>7, <2>1, LeaveOwn DEF LoseAnswer
  <2>2. CASE Goto(r, "getComponent") /\ UNCHANGED locals
    <3>1. pc'[r] = "getComponent"
      BY <1>0, <2>2 DEF TypeOK
    <3> QED
      BY <1>0, <1>13, <2>2, <3>1 DEF PostDataProduct
  <2> QED
    BY <1>13, <2>1, <2>2 DEF PostDataProduct
<1>14. CASE GetComponent(r) \/ CollectInputs(r)
  <2>1. pc'[r] \in {"loop", "patch"} /\ UNCHANGED <<todo, writes>>
    BY <1>0, <1>14 DEF GetComponent, CollectInputs, TypeOK
  <2> QED
    BY <1>0, <2>1
<1> QED
  BY <1>1, <1>2, <1>3, <1>4, <1>5, <1>6, <1>8, <1>9, <1>10, <1>11, <1>12,
     <1>13, <1>14 DEF Acts, CallUser, StepFinalise

\* The runs start with what initialise() registered.
LEMMA InitType == Init => TypeInv
<1> SUFFICES ASSUME Init PROVE TypeInv
  OBVIOUS
<1>1. storageLocations \in SUBSET StorageLocations
  BY SetupAssumption DEF Init, StorageLocations, Paths, Hashes
<1>2. store \in [Paths -> Hashes \cup {None}]
  BY DEF Init, Hashes
<1> QED
  BY <1>1, <1>2, BoundsAssumption DEF Init, TypeInv, TypeOK, ItemsWritten, Nothing, Labels

\* Type correctness, for every value of the constants.
THEOREM TypeCorrect == Spec => []TypeOK
<1>1. Init => TypeInv
  BY InitType
<1>2. TypeInv /\ [Next]_vars => TypeInv'
  BY NextType, NextItems DEF TypeInv
<1>3. TypeInv => TypeOK
  BY DEF TypeInv
<1> QED
  BY <1>1, <1>2, <1>3, PTL DEF Spec

-----------------------------------------------------------------------------
(* What each step changes, and what no step takes back.                    *)

\* Each part of the store and of the registry is changed by one action only.
LEMMA Changes ==
    ASSUME NEW r \in Runs, Acts(r)
    PROVE  /\ UNCHANGED store \/ RenameToHash(r)
           /\ UNCHANGED storageLocations \/ PostLocation(r)
           /\ UNCHANGED objects \/ PostObject(r)
           /\ UNCHANGED dataProducts \/ PostDataProduct(r)
           /\ UNCHANGED codeRuns \/ PatchCodeRun(r)
           /\ UNCHANGED writes \/ \E p \in Products : LinkWrite(r, p)
           /\ UNCHANGED reads \/ \E p \in Products : LinkReadQueried(r, p)
           /\ UNCHANGED outputs \/ GetComponent(r)
           /\ UNCHANGED inputs \/ CollectInputs(r)
           /\ \/ UNCHANGED temp
              \/ RenameToHash(r) \/ RemoveDuplicate(r)
              \/ \E t \in TempPaths, c \in Contents : UserWrite(r, t, c)
<1>1. CASE CallUser(r)
  BY <1>1 DEF CallUser, LinkWrite, LinkReadCached, LinkReadQueried, UserWrite, Finalise
<1>2. CASE FindLocation(r) \/ RemoveDuplicate(r) \/ RenameToHash(r) \/ RenameFails(r)
           \/ PostLocation(r)
  BY <1>2 DEF FindLocation, RemoveDuplicate, RenameToHash, RenameFails, PostLocation
<1>3. CASE GetNamespace(r) \/ PostNamespace(r) \/ GetDataProduct(r) \/ PostObject(r)
           \/ PostDataProduct(r)
  BY <1>3 DEF GetNamespace, PostNamespace, GetDataProduct, PostObject, PostDataProduct
<1>4. CASE GetComponent(r) \/ CollectInputs(r) \/ PatchCodeRun(r) \/ LoseRequest(r)
  BY <1>4 DEF GetComponent, CollectInputs, PatchCodeRun, LoseRequest
<1> QED
  BY <1>1, <1>2, <1>3, <1>4 DEF Acts, StepFinalise

\* finalise() renames into the path its hash names.
LEMMA RenameEffect ==
    ASSUME IInv, NEW r \in Runs, RenameToHash(r)
    PROVE  /\ NewPath(r) \in StorePaths /\ NewPath(r).hash = hash[r]
           /\ \A q \in StorePaths :
                store'[q] = IF q = NewPath(r) THEN hash[r] ELSE store[q]
<1>1. pc[r] = "move"
  BY DEF RenameToHash
<1>2. NewPath(r) \in StorePaths /\ NewPath(r).hash = hash[r]
  BY <1>1, ItemType DEF IInv, NewPath
<1>3. temp[Write(r).path] = hash[r]
  BY <1>1 DEF IInv, Locals
<1> QED
  BY <1>2, <1>3 DEF RenameToHash, IInv, TypeInv, TypeOK, Paths

\* The registry loses no row, a file of the store that is right stays right, and
\* a run touches no temporary file but its own.
LEMMA Growth ==
    ASSUME IInv, NEW r \in Runs, Acts(r)
    PROVE  /\ storageLocations \subseteq storageLocations'
           /\ objects \subseteq objects'
           /\ \A k \in Keys : dataProducts[k] # None => dataProducts'[k] = dataProducts[k]
           /\ \A q \in StorePaths : store[q] = q.hash => store'[q] = q.hash
           /\ \A t \in TempPaths : t.run # r => temp'[t] = temp[t]
<1>1. storageLocations \subseteq storageLocations'
  BY Changes DEF PostLocation, LocationsAfterPost
<1>2. objects \subseteq objects'
  BY Changes DEF PostObject
<1>3. \A k \in Keys : dataProducts[k] # None => dataProducts'[k] = dataProducts[k]
  <2>1. CASE PostDataProduct(r)
    BY <2>1 DEF PostDataProduct, IInv, TypeInv, TypeOK
  <2> QED
    BY <2>1, Changes
<1>4. \A q \in StorePaths : store[q] = q.hash => store'[q] = q.hash
  BY Changes, RenameEffect
<1>5. \A t \in TempPaths : t.run # r => temp'[t] = temp[t]
  <2>1. CASE RenameToHash(r) \/ RemoveDuplicate(r)
    <3>1. pc[r] = "move" /\ temp' = [temp EXCEPT ![Write(r).path] = None]
      BY <2>1 DEF RenameToHash, RemoveDuplicate
    <3>2. Write(r).path.run = r
      BY <3>1, ItemType DEF IInv, WritesOwned
    <3> QED
      BY <3>1, <3>2 DEF IInv, TypeInv, TypeOK
  <2>2. ASSUME NEW t \in TempPaths, NEW c \in Contents, UserWrite(r, t, c)
        PROVE  \A u \in TempPaths : u.run # r => temp'[u] = temp[u]
    BY <2>2 DEF UserWrite, IInv, TypeInv, TypeOK
  <2> QED
    BY <2>1, <2>2, Changes
<1> QED
  BY <1>1, <1>2, <1>3, <1>4, <1>5

-----------------------------------------------------------------------------
(* The invariant, one conjunct at a time.                                  *)

\* Files of the store keep the content they are named for, and a location is
\* posted only when its file is there.
LEMMA NextStore ==
    ASSUME IInv, NEW r \in Runs, Acts(r)
    PROVE  StoreSound' /\ LocationsStored'
<1>1. StoreSound'
  BY Changes, RenameEffect DEF IInv, StoreSound
<1>2. ASSUME NEW l \in storageLocations, l \notin SetupRows
      PROVE  l.path \in StorePaths /\ l.path.hash = l.hash /\ store'[l.path] = l.hash
  <2>1. l.path \in StorePaths /\ l.path.hash = l.hash /\ store[l.path] = l.path.hash
    BY <1>2 DEF IInv, LocationsStored
  <2> QED
    BY <2>1, Growth
<1>3. ASSUME PostLocation(r)
      PROVE  /\ NewLocation(r).path \in StorePaths
             /\ NewLocation(r).path.hash = NewLocation(r).hash
             /\ store'[NewLocation(r).path] = NewLocation(r).hash
  <2>1. store[NewPath(r)] = hash[r] /\ pc[r] = "postLocation"
    BY <1>3 DEF PostLocation, IInv, Locals
  <2>2. NewPath(r) \in StorePaths
    BY <2>1, ItemType DEF IInv
  <2> QED
    BY <1>3, <2>1, <2>2 DEF PostLocation, NewLocation, NewPath, files
<1>4. LocationsStored'
  BY <1>2, <1>3, Changes DEF LocationsStored, PostLocation, LocationsAfterPost
<1> QED
  BY <1>1, <1>4

\* An object is posted only with a location that is registered.
LEMMA NextObjects ==
    ASSUME IInv, NEW r \in Runs, Acts(r)
    PROVE  ObjectsLocated'
<1>1. ASSUME PostObject(r), objects' # objects
      PROVE  /\ objects' = objects \cup {NewObject(r)}
             /\ location[r] \in storageLocations /\ location[r].hash \in Contents
  <2>1. hash[r] \in Contents /\ pc[r] = "postObject"
    BY <1>1 DEF PostObject, IInv, TypeInv, ItemsWritten
  <2> QED
    BY <1>1, <2>1 DEF PostObject, IInv, Locals
<1> QED
  BY <1>1, Changes, Growth DEF IInv, ObjectsLocated, NewObject

\* The path of a linked write is one of its run.
LEMMA NextWritesOwned ==
    ASSUME IInv, NEW r \in Runs, Acts(r)
    PROVE  WritesOwned'
<1>1. ASSUME NEW p \in Products, LinkWrite(r, p) PROVE WritesOwned'
  <2>1. NewWrite(r, p).path.run = r
    BY <1>1, NewWriteType DEF IInv, TypeInv
  <2> QED
    BY <1>1, <2>1 DEF LinkWrite, IInv, TypeInv, TypeOK, WritesOwned
<1> QED
  BY <1>1, Changes DEF IInv, WritesOwned

\* A read or input that is as configured stays so.
LEMMA ReadStays ==
    ASSUME IInv, NEW r \in Runs, Acts(r), NEW s \in Runs, NEW p \in Products, NEW read,
           ReadAsConfigured(s, p, read)
    PROVE  ReadAsConfigured(s, p, read)'
<1>1. ReadConfig[s][p] \in Keys
  BY ConfigAssumption DEF ReadAsConfigured, ReadEntries
<1> QED
  BY <1>1, Growth DEF ReadAsConfigured

\* What link_read records is what the registry holds for the configured key.
LEMMA NextReads ==
    ASSUME IInv, NEW r \in Runs, Acts(r)
    PROVE  ReadsPublished'
<1> USE DEF ReadsPublished
<1>1. ASSUME NEW p \in Products, LinkReadQueried(r, p) PROVE ReadsPublished'
  <2> DEFINE read == [path |-> QueriedObject(r, p).location.path,
                      object |-> QueriedObject(r, p)]
  <2>1. ReadAsConfigured(r, p, read)
    BY <1>1 DEF LinkReadQueried, QueriedObject, ReadAsConfigured
  <2>2. \A s \in Runs, q \in Products :
            reads'[s][q] = IF s = r /\ q = p THEN read ELSE reads[s][q]
    BY <1>1 DEF LinkReadQueried, IInv, TypeInv, TypeOK
  <2>3. inputs' = inputs /\ dataProducts' = dataProducts
    BY <1>1 DEF LinkReadQueried
  <2> HIDE DEF read
  <2> QED
    BY <2>1, <2>2, <2>3 DEF IInv, ReadAsConfigured
<1>2. CASE CollectInputs(r)
  <2>1. \A s \in Runs, q \in Products :
            inputs'[s][q] = IF s = r /\ reads[s][q] # None THEN reads[s][q] ELSE inputs[s][q]
    BY <1>2 DEF CollectInputs, IInv, TypeInv, TypeOK
  <2>2. reads' = reads /\ dataProducts' = dataProducts
    BY <1>2 DEF CollectInputs
  <2> QED
    BY <2>1, <2>2 DEF IInv, ReadAsConfigured
<1>3. CASE UNCHANGED <<reads, inputs>>
  BY <1>3, ReadStays DEF IInv
<1> QED
  BY <1>1, <1>2, <1>3, Changes DEF LinkReadQueried, CollectInputs

\* What a data product, a code run or an output names is registered.
LEMMA NextReferences ==
    ASSUME IInv, NEW r \in Runs, Acts(r)
    PROVE  ReferencesResolve'
<1>1. \A k \in Keys : dataProducts'[k] \in objects' \cup {None}
  <2>1. CASE PostDataProduct(r)
    <3>1. object[r] \in objects
      BY <2>1 DEF PostDataProduct, IInv, Locals
    <3> QED
      BY <2>1, <3>1 DEF PostDataProduct, IInv, TypeInv, TypeOK, ReferencesResolve
  <2>2. CASE UNCHANGED dataProducts
    BY <2>2, Growth DEF IInv, ReferencesResolve
  <2> QED
    BY <2>1, <2>2, Changes
<1>2. ASSUME NEW s \in Runs
      PROVE  /\ codeRuns'[s].inputs \subseteq ObjectsIn(inputs'[s])
             /\ codeRuns'[s].outputs \subseteq objects'
  <2>0. /\ codeRuns[s].inputs \subseteq ObjectsIn(inputs[s])
        /\ codeRuns[s].outputs \subseteq objects'
    BY Growth DEF IInv, ReferencesResolve
  <2>1. CASE s # r
    <3>1. codeRuns'[s] = codeRuns[s] /\ inputs'[s] = inputs[s]
      BY <2>1, OthersKept DEF IInv, TypeInv, Own
    <3> QED
      BY <2>0, <3>1 DEF ObjectsIn
  <2>2. CASE s = r /\ PatchCodeRun(r)
    <3>1. ObjectsIn(outputs[r]) \subseteq objects
      BY DEF ObjectsIn, IInv, OutputsRegistered
    <3>2. codeRuns'[r] = [inputs |-> IF ObjectsIn(inputs[r]) = {} THEN codeRuns[r].inputs
                                                     ELSE ObjectsIn(inputs[r]),
                          outputs |-> IF ObjectsIn(outputs[r]) = {} THEN codeRuns[r].outputs
                                                     ELSE ObjectsIn(outputs[r])]
      BY <2>2 DEF PatchCodeRun, IInv, TypeInv, TypeOK
    <3>3. inputs' = inputs /\ objects' = objects
      BY <2>2 DEF PatchCodeRun
    <3>4. ObjectsIn(inputs'[s]) = ObjectsIn(inputs[r])
      BY <2>2, <3>3
    <3> QED
      BY <2>0, <2>2, <3>1, <3>2, <3>3, <3>4
  <2>3. CASE s = r /\ CollectInputs(r)
    <3>1. \A q \in Products :
            inputs'[r][q] = IF reads[r][q] # None THEN reads[r][q] ELSE inputs[r][q]
      BY <2>3 DEF CollectInputs, IInv, TypeInv, TypeOK
    <3>2. \A q \in Products : inputs[r][q] # None =>
            inputs'[r][q] # None /\ inputs'[r][q].object = inputs[r][q].object
      BY <3>1 DEF IInv, ReadsPublished, ReadAsConfigured
    <3>3. ObjectsIn(inputs[r]) \subseteq ObjectsIn(inputs'[r])
      BY <3>2 DEF ObjectsIn
    <3>4. codeRuns' = codeRuns /\ objects' = objects
      BY <2>3 DEF CollectInputs
    <3> QED
      BY <2>0, <2>3, <3>3, <3>4
  <2>4. CASE UNCHANGED <<codeRuns, inputs>>
    BY <2>0, <2>4 DEF ObjectsIn
  <2> QED
    BY <2>1, <2>2, <2>3, <2>4, Changes DEF PatchCodeRun, CollectInputs
<1> QED
  BY <1>1, <1>2 DEF ReferencesResolve

\* An output is an object whose location has the hash of the file written.
LEMMA NextOutputs ==
    ASSUME IInv, NEW r \in Runs, Acts(r)
    PROVE  OutputsRegistered'
<1>1. CASE GetComponent(r)
  <2> DEFINE new == [write |-> Write(r), object |-> object[r], hash |-> hash[r]]
  <2>1. /\ object[r] \in objects
        /\ \/ object[r].location.hash = hash[r]
           \/ object[r] = dataProducts[Write(r).key]
    BY <1>1 DEF GetComponent, IInv, Locals
  <2>2. item[r] \in Products
    BY <1>1, ItemType DEF GetComponent, IInv
  <2>3. \A s \in Runs, p \in Products :
          outputs'[s][p] = IF s = r /\ p = item[r] THEN new ELSE outputs[s][p]
    BY <1>1, <2>2 DEF GetComponent, IInv, TypeInv, TypeOK
  <2>4. UNCHANGED <<objects, dataProducts>>
    BY <1>1 DEF GetComponent
  <2>5. /\ new.object = object[r] /\ new.hash = hash[r] /\ new.write = Write(r)
    OBVIOUS
  <2> HIDE DEF new
  <2> QED
    BY <2>1, <2>3, <2>4, <2>5 DEF IInv, OutputsRegistered
<1>2. CASE UNCHANGED outputs
  <2> SUFFICES ASSUME NEW s \in Runs, NEW p \in Products, outputs[s][p] # None
               PROVE  /\ outputs[s][p].object \in objects'
                      /\ \/ outputs[s][p].object.location.hash = outputs[s][p].hash
                         \/ outputs[s][p].object = dataProducts'[outputs[s][p].write.key]
    BY <1>2 DEF OutputsRegistered
  <2>1. outputs[s][p].object \in objects /\ outputs[s][p].object # None
    BY NoneAssumption DEF IInv, OutputsRegistered, TypeInv, TypeOK
  <2>2. outputs[s][p].write.key \in Keys
    BY DEF IInv, TypeInv, TypeOK, Outputs, Writes
  <2> QED
    BY <2>1, <2>2, Growth DEF IInv, OutputsRegistered
<1> QED
  BY <1>1, <1>2, Changes

\* Another run's step leaves what finalise()'s locals hold true.
LEMMA OtherLocals ==
    ASSUME IInv, NEW r \in Runs, Acts(r), NEW s \in Runs \ {r}
    PROVE  Locals(s)'
<1>0. Locals(s)
  BY DEF IInv
<1>1. /\ pc'[s] = pc[s] /\ item'[s] = item[s] /\ hash'[s] = hash[s]
      /\ location'[s] = location[s] /\ object'[s] = object[s] /\ writes'[s] = writes[s]
  BY OthersKept DEF Own, IInv, TypeInv
<1>2. Write(s)' = Write(s) /\ NewPath(s)' = NewPath(s)
  BY <1>1 DEF NewPath
<1>3. ASSUME pc[s] \notin {"idle", "loop", "patch"}
      PROVE  /\ Write(s).path \in TempPaths /\ Write(s).path.run = s
             /\ Write(s).key \in Keys /\ NewPath(s) \in StorePaths
             /\ NewPath(s).hash = hash[s]
  BY <1>3, ItemType DEF IInv, WritesOwned, NewPath
<1>4. ASSUME pc[s] = "move" PROVE temp'[Write(s).path] = hash[s]
  BY <1>0, <1>3, <1>4, Growth DEF Locals
<1>5. ASSUME pc[s] = "postLocation" PROVE store'[NewPath(s)] = hash[s]
  BY <1>0, <1>3, <1>5, Growth DEF Locals
<1>6. ASSUME pc[s] = "getComponent", object[s] = dataProducts[Write(s).key], object[s] \in objects
      PROVE  object[s] = dataProducts'[Write(s).key]
  <2>1. object[s] # None
    BY <1>6, NoneAssumption DEF IInv, TypeInv, TypeOK
  <2> QED
    BY <1>3, <1>6, <2>1, Growth
<1>7. storageLocations \subseteq storageLocations' /\ objects \subseteq objects'
  BY Growth
<1> QED
  BY <1>0, <1>1, <1>2, <1>4, <1>5, <1>6, <1>7 DEF Locals

\* A step of run r keeps what finalise() of run r relies on.
LEMMA OwnLocals ==
    ASSUME IInv, NEW r \in Runs, Acts(r)
    PROVE  Locals(r)'
<1>0. TypeInv /\ TypeOK /\ Locals(r)
  BY DEF IInv, TypeInv
<1>1. CASE pc'[r] \in {"idle", "loop", "patch"}
  BY <1>1 DEF Locals
<1>2. CASE CallUser(r)
  <2>1. pc'[r] \in {"idle", "loop"}
    BY <1>0, <1>2 DEF CallUser, LinkWrite, LinkReadCached, LinkReadQueried, UserWrite,
                      Finalise, TypeOK
  <2> QED
    BY <1>1, <2>1
<1>3. CASE Leave(r, "threw") \/ Leave(r, "returned")
  BY <1>0, <1>1, <1>3, LeaveOwn
<1>4. CASE FindLocation(r)
  <2> SUFFICES ASSUME NEW p \in todo[r],
                      item' = [item EXCEPT ![r] = p],
                      hash' = [hash EXCEPT ![r] = temp[writes[r][p].path]],
                      NEW l \in FoundLocation(storageLocations, temp[writes[r][p].path], Public[r]),
                      location' = [location EXCEPT ![r] = l],
                      Goto(r, "move")
               PROVE  Locals(r)'
    BY <1>3, <1>4 DEF FindLocation
  <2>1. /\ item'[r] = p /\ hash'[r] = temp[writes[r][p].path]
        /\ location'[r] = l /\ pc'[r] = "move"
    BY <1>0 DEF TypeOK
  <2>2. l # None => l \in storageLocations /\ l.hash = temp[writes[r][p].path]
    BY DEF FoundLocation
  <2>3. temp' = temp /\ writes' = writes /\ storageLocations' = storageLocations
    BY <1>4 DEF FindLocation
  <2> QED
    BY <2>1, <2>2, <2>3 DEF Locals
<1>5. CASE RemoveDuplicate(r)
  <2>1. pc'[r] = "getNamespace" /\ location'[r] = location[r] /\ hash'[r] = hash[r]
        /\ location[r] # None /\ pc[r] = "move" /\ storageLocations' = storageLocations
    BY <1>0, <1>5 DEF RemoveDuplicate, TypeOK
  <2> QED
    BY <1>0, <2>1 DEF Locals
<1>6. CASE RenameToHash(r)
  <2>1. pc'[r] = "postLocation" /\ NewPath(r)' = NewPath(r) /\ hash'[r] = hash[r]
    BY <1>0, <1>6 DEF RenameToHash, TypeOK, NewPath
  <2>2. store'[NewPath(r)] = hash[r]
    BY <1>6, RenameEffect
  <2> QED
    BY <2>1, <2>2 DEF Locals
<1>7. CASE PostLocation(r)
  <2> DEFINE new == NewLocation(r)
             row == PostedLocation(storageLocations, new)
  <2> SUFFICES ASSUME location' = [location EXCEPT ![r] = row], Goto(r, "getNamespace"),
                      UNCHANGED hash
               PROVE  Locals(r)'
    BY <1>3, <1>7 DEF PostLocation, LoseAnswer
  <2>1. location'[r] = row /\ pc'[r] = "getNamespace" /\ hash'[r] = hash[r]
    BY <1>0 DEF TypeOK
  <2>2. new \in StorageLocations /\ new.hash = hash[r]
    BY <1>0, <1>7, ItemType DEF PostLocation, NewLocation
  <2>3. row = None => LocationRequired
    <3>1. ASSUME ~ UniqueHash, NEW k \in storageLocations,
                 k.hash = new.hash, k.public = new.public, k.path = new.path
          PROVE  k = new
      <4>1. k \in StorageLocations
        BY <1>0 DEF TypeOK
      <4> HIDE DEF new
      <4> QED
        BY <2>2, <3>1, <4>1 DEF StorageLocations
    <3>2. LocationConflict(storageLocations, new) /\ new \notin storageLocations => UniqueHash
      BY <3>1, FlagsAssumption DEF LocationConflict
    <3> QED
      BY <2>2, <3>2, LocationAssumption, NoneAssumption DEF PostedLocation
  <2>4. row # None => row \in storageLocations' /\ row.hash = hash[r]
    BY <1>7, <2>2 DEF PostedLocation, PostLocation, LocationsAfterPost
  <2> HIDE DEF new, row
  <2> QED
    BY <2>1, <2>3, <2>4 DEF Locals
<1>8. CASE GetNamespace(r) \/ PostNamespace(r)
  <2> SUFFICES ASSUME pc'[r] \in {"postNamespace", "getDataProduct"}, UNCHANGED locals,
                      pc[r] \in {"getNamespace", "postNamespace"},
                      UNCHANGED storageLocations
               PROVE  Locals(r)'
    BY <1>0, <1>3, <1>8 DEF GetNamespace, PostNamespace, LoseAnswer, TypeOK
  <2> QED
    BY <1>0 DEF Locals
<1>9. CASE GetDataProduct(r)
  <2>1. Write(r).key \in Keys /\ dataProducts[Write(r).key] \in objects \cup {None}
    BY <1>0, <1>9, ItemType DEF GetDataProduct, IInv, ReferencesResolve
  <2>2. /\ pc[r] = "getDataProduct"
        /\ object'[r] = dataProducts[Write(r).key]
        /\ pc'[r] = IF dataProducts[Write(r).key] = None THEN "postObject" ELSE "getComponent"
        /\ UNCHANGED <<location, hash, item, writes, dataProducts, objects, storageLocations>>
    BY <1>0, <1>9 DEF GetDataProduct, TypeOK
  <2> QED
    BY <1>0, <2>1, <2>2 DEF Locals
<1>10. CASE PostObject(r)
  <2> SUFFICES ASSUME objects' = objects \cup {NewObject(r)},
                      LocationRequired => location[r] # None,
                      object' = [object EXCEPT ![r] = NewObject(r)],
                      Goto(r, "postDataProduct"),
                      UNCHANGED hash
               PROVE  Locals(r)'
    BY <1>3, <1>10 DEF PostObject, LoseAnswer
  <2>1. object'[r] = NewObject(r) /\ pc'[r] = "postDataProduct" /\ pc[r] = "postObject"
    BY <1>0, <1>10 DEF PostObject, TypeOK
  <2>2. NewObject(r).location.hash = hash[r]
    BY <1>0, <2>1 DEF Locals, NewObject
  <2> QED
    BY <2>1, <2>2 DEF Locals
<1>11. CASE PostDataProduct(r)
  <2> SUFFICES ASSUME Goto(r, "getComponent"), UNCHANGED locals
               PROVE  Locals(r)'
    BY <1>3, <1>11 DEF PostDataProduct, LoseAnswer
  <2>1. pc'[r] = "getComponent" /\ pc[r] = "postDataProduct" /\ objects' = objects
    BY <1>0, <1>11 DEF PostDataProduct, TypeOK
  <2> QED
    BY <1>0, <2>1 DEF Locals
<1>12. CASE GetComponent(r) \/ CollectInputs(r)
  BY <1>0, <1>1, <1>12 DEF GetComponent, CollectInputs, TypeOK
<1>13. CASE RenameFails(r) \/ PatchCodeRun(r) \/ LoseRequest(r)
  BY <1>3, <1>13 DEF RenameFails, PatchCodeRun, LoseRequest, LoseAnswer
<1> QED
  BY <1>2, <1>4, <1>5, <1>6, <1>7, <1>8, <1>9, <1>10, <1>11, <1>12, <1>13
     DEF Acts, StepFinalise

-----------------------------------------------------------------------------
(* The theorems.                                                           *)

\* The invariant holds at the start.
LEMMA InitInv == Init => IInv
<1> SUFFICES ASSUME Init PROVE IInv
  OBVIOUS
<1>1. TypeInv
  BY InitType
<1>2. StoreSound /\ ObjectsLocated /\ WritesOwned
  BY DEF Init, Nothing, StoreSound, ObjectsLocated, WritesOwned
<1>5. LocationsStored
  BY SetupAssumption DEF Init, LocationsStored, SetupRows
<1>3. ReferencesResolve /\ ReadsPublished /\ OutputsRegistered
  BY DEF Init, Nothing, ReferencesResolve, ReadsPublished, OutputsRegistered, ObjectsIn
<1>4. \A r \in Runs : Locals(r)
  BY DEF Init, Locals
<1> QED
  BY <1>1, <1>2, <1>3, <1>4, <1>5 DEF IInv

\* Every step keeps the invariant.
LEMMA NextInv == IInv /\ [Next]_vars => IInv'
<1> SUFFICES ASSUME IInv, [Next]_vars PROVE IInv'
  OBVIOUS
<1>1. TypeInv'
  BY NextType, NextItems DEF IInv, TypeInv
<1>2. ASSUME NEW r \in Runs, Acts(r) PROVE IInv'
  <2>1. \A s \in Runs : Locals(s)'
    BY <1>2, OwnLocals, OtherLocals
  <2> QED
    BY <1>1, <1>2, <2>1, NextStore, NextObjects, NextReferences, NextWritesOwned,
       NextReads, NextOutputs DEF IInv
<1>3. CASE UNCHANGED vars
  <2> USE <1>3 DEF vars
  <2>1. StoreSound' /\ LocationsStored' /\ ObjectsLocated' /\ WritesOwned'
    BY DEF IInv, StoreSound, LocationsStored, ObjectsLocated, WritesOwned
  <2>2. ReferencesResolve' /\ OutputsRegistered'
    BY DEF IInv, ReferencesResolve, OutputsRegistered, ObjectsIn
  <2>3. ReadsPublished'
    BY DEF IInv, ReadsPublished, ReadAsConfigured
  <2>4. ASSUME NEW r \in Runs PROVE Locals(r)'
    <3>1. Locals(r)
      BY DEF IInv
    <3> QED
      BY <3>1 DEF Locals, NewPath
  <2> QED
    BY <1>1, <2>1, <2>2, <2>3, <2>4 DEF IInv
<1> QED
  BY <1>2, <1>3 DEF Next, Acts

\* The inductive invariant: the store is content-addressed, a location is
\* registered after its file is in place, an object after its location, and
\* every reference the client or the registry holds is to what is registered.
THEOREM Invariance == Spec => []IInv
BY InitInv, NextInv, PTL DEF Spec

\* Where no written content is a configuration's or a script's, its location
\* leads to it.
LEMMA WrittenIsStored ==
    ASSUME SetupApart, IInv, NEW l \in storageLocations, l.hash \in Contents
    PROVE  l.path \in StorePaths /\ l.path.hash = l.hash /\ store[l.path] = l.hash
BY DEF IInv, LocationsStored, SetupRows, SetupApart

\* A registered object has a location, that of its file in the data store or
\* that of a configuration or a script with the content that was written.
LEMMA RegisteredHasLocation ==
    ASSUME IInv, NEW o \in objects
    PROVE  /\ o # None /\ o.location # None
           /\ o.location \in storageLocations /\ o.location.hash \in Contents
           /\ o.location \in StorageLocations
           /\ Located(o) \/ o.location \in SetupRows
<1>1. o.location \in storageLocations /\ o.location.hash \in Contents /\ o # None
  BY NoneAssumption DEF IInv, ObjectsLocated, TypeInv, TypeOK
<1>2. o.location \in StorageLocations /\ o.location # None
  BY <1>1, NoneAssumption DEF IInv, TypeInv, TypeOK
<1> QED
  BY <1>1, <1>2 DEF IInv, LocationsStored, Located

\* Where no file has both contents, it is backed by a file of the data store.
LEMMA RegisteredIsLocated ==
    ASSUME SetupApart, IInv, NEW o \in objects
    PROVE  /\ Located(o) /\ o # None /\ o.location # None
           /\ o.location \in StorageLocations /\ o.location.path \in StorePaths
           /\ o.location.path.hash = o.location.hash /\ o.location.hash \in Contents
BY RegisteredHasLocation, WrittenIsStored DEF Located

\* The data product a read or an input names is registered.
LEMMA ConfiguredIsRegistered ==
    ASSUME IInv, NEW r \in Runs, NEW p \in Products, NEW read, ReadAsConfigured(r, p, read)
    PROVE  /\ ReadConfig[r][p] \in Keys
           /\ read.object = dataProducts[ReadConfig[r][p]]
           /\ read.object \in objects
<1>1. ReadConfig[r][p] \in Keys
  BY ConfigAssumption DEF ReadAsConfigured, ReadEntries
<1> QED
  BY <1>1 DEF ReadAsConfigured, IInv, ReferencesResolve

\* A run's inputs are objects of registered data products.
LEMMA InputsRegistered ==
    ASSUME IInv, NEW r \in Runs
    PROVE  \A o \in ObjectsIn(inputs[r]) : o \in objects /\ \E k \in Keys : dataProducts[k] = o
BY ConfiguredIsRegistered DEF ObjectsIn, IInv, ReadsPublished

\* Whatever a data product or a code run names is registered.
LEMMA AllRegistered ==
    ASSUME IInv
    PROVE  /\ \A k \in Keys : dataProducts[k] # None => dataProducts[k] \in objects
           /\ \A r \in Runs : codeRuns[r].inputs \cup codeRuns[r].outputs \subseteq objects
BY InputsRegistered DEF IInv, ReferencesResolve

\* By the invariant, whatever a data product or a code run names is located.
LEMMA AllLocated ==
    SetupApart /\ IInv => Traceable
BY AllRegistered, RegisteredIsLocated DEF Traceable

\* Whatever the runs write, what a data product or a code run names leads to
\* its file, or its content is that of a configuration or a script, whose row
\* finalise() took for the file's (config.cxx:635-641).
THEOREM TraceabilityOrSetup ==
    Spec => []TraceableOrSetup
<1>1. IInv => TraceableOrSetup
  BY AllRegistered, RegisteredHasLocation DEF TraceableOrSetup
<1> QED
  BY <1>1, Invariance, PTL

\* Whatever a data product or a code run names leads to its file, whichever
\* runs interleave and whichever calls fail.
THEOREM Traceability ==
    ASSUME SetupApart
    PROVE  Spec => []Traceable
BY AllLocated, Invariance, PTL

\* An output is what its run wrote or the data product that was there before.
THEOREM Provenance ==
    Spec => []OutputProvenance
<1>1. IInv => OutputProvenance
  BY DEF IInv, OutputsRegistered, OutputProvenance
<1> QED
  BY <1>1, Invariance, PTL

\* A file goes when the store has its content, or a configuration or a script
\* is registered with it.
LEMMA FilesKeptOrSetup ==
    ASSUME IInv, NEW r \in Runs, Acts(r), NEW t \in TempPaths, temp[t] # None, temp'[t] = None
    PROVE  \/ \E q \in Paths : store'[q] = temp[t]
           \/ temp[t] \in Contents /\ \E l \in storageLocations \cap SetupRows : l.hash = temp[t]
<1>1. ASSUME NEW u \in TempPaths, NEW c \in Contents, UserWrite(r, u, c) PROVE FALSE
  BY <1>1, NoneAssumption DEF UserWrite, IInv, TypeInv, TypeOK, Hashes
<1>2. CASE RenameToHash(r) \/ RemoveDuplicate(r)
  <2>1. pc[r] = "move" /\ temp' = [temp EXCEPT ![Write(r).path] = None]
    BY <1>2 DEF RenameToHash, RemoveDuplicate
  <2>2. t = Write(r).path
    BY <2>1 DEF IInv, TypeInv, TypeOK
  <2>3. temp[t] = hash[r]
    BY <2>1, <2>2 DEF IInv, Locals
  <2>4. CASE RenameToHash(r)
    BY <2>3, <2>4, RenameEffect DEF Paths
  <2>5. CASE RemoveDuplicate(r)
    <3>1. location[r] \in storageLocations /\ location[r].hash = hash[r]
      BY <2>1, <2>5 DEF RemoveDuplicate, IInv, Locals
    <3>2. \/ location[r].path \in StorePaths /\ store[location[r].path] = hash[r]
          \/ location[r] \in SetupRows
      BY <3>1 DEF IInv, LocationsStored
    <3>3. store' = store
      BY <2>5 DEF RemoveDuplicate
    <3>4. hash[r] \in Contents
      BY <2>1, ItemType DEF IInv
    <3> QED
      BY <2>3, <3>1, <3>2, <3>3, <3>4 DEF Paths
  <2> QED
    BY <1>2, <2>4, <2>5
<1> QED
  BY <1>1, <1>2, Changes

\* Where no file has both contents, it goes when the store has its content.
LEMMA FilesKept ==
    ASSUME SetupApart, IInv, NEW r \in Runs, Acts(r),
           NEW t \in TempPaths, temp[t] # None, temp'[t] = None
    PROVE  \E q \in Paths : store'[q] = temp[t]
BY FilesKeptOrSetup DEF SetupApart, SetupRows

\* No step of finalise() takes away a file whose content the store lacks.
THEOREM Preservation ==
    ASSUME SetupApart
    PROVE  Spec => NothingLost
<1>1. ASSUME IInv, [Next]_vars
      PROVE  [\A t \in TempPaths : temp[t] # None /\ temp'[t] = None =>
                \E q \in Paths : store'[q] = temp[t]]_vars
  BY <1>1, FilesKept DEF Next, Acts
<1> QED
  BY <1>1, Invariance, PTL DEF Spec, NothingLost

\* Whatever the runs write: a file that disappears for good has the content
\* of a configuration or a script, which finalise() takes for a duplicate in
\* the store (config.cxx:641).
THEOREM PreservationButForSetup ==
    Spec => NothingLostButToSetup
<1>1. ASSUME IInv, [Next]_vars
      PROVE  [\A t \in TempPaths :
                temp[t] # None /\ temp'[t] = None =>
                    \/ \E q \in Paths : store'[q] = temp[t]
                    \/ \E l \in storageLocations \cap SetupRows : l.hash = temp[t]]_vars
  BY <1>1, FilesKeptOrSetup DEF Next, Acts
<1> QED
  BY <1>1, Invariance, PTL DEF Spec, NothingLostButToSetup

-----------------------------------------------------------------------------
(* Pipeline implements the write-once catalogue.                           *)

StoredPaths == {q \in StorePaths : store[q] = q.hash}

\* The file of a registered object is in the store.
LEMMA RegisteredIsAvailable ==
    ASSUME SetupApart, IInv, NEW o \in objects
    PROVE  o # None /\ o.location # None /\ o.location.path \in StoredPaths
BY RegisteredIsLocated DEF Located, StoredPaths

\* The catalogue and the pipeline speak of the same paths and keys.
LEMMA SameRegistry == Cat!StorePaths = StorePaths /\ Cat!Keys = Keys
BY DEF Cat!StorePaths, StorePaths, Cat!Keys, Keys

\* Only a rename, a POST of a data product and a PATCH are visible to the
\* catalogue, and they deposit, publish and record.
LEMMA CatalogueStep ==
    ASSUME SetupApart, IInv, NEW r \in Runs, Acts(r)
    PROVE  Cat!CNext \/ UNCHANGED Cat!cvars
<1> USE DEF StoredPaths
<1>1. CASE RenameToHash(r)
  <2>1. StoredPaths' = StoredPaths \cup {NewPath(r)} /\ NewPath(r) \in StorePaths
    BY <1>1, RenameEffect
  <2>2. UNCHANGED <<dataProducts, codeRuns>>
    BY <1>1 DEF RenameToHash
  <2> QED
    BY <2>1, <2>2, SameRegistry DEF Cat!CNext, Cat!Deposit
<1>2. CASE PostDataProduct(r)
  <2> DEFINE k == Write(r).key
  <2>1. k \in Keys /\ object[r] \in objects
    BY <1>2, ItemType DEF PostDataProduct, IInv, Locals
  <2>2. dataProducts' = [dataProducts EXCEPT ![k] = IF @ = None THEN object[r] ELSE @]
        /\ UNCHANGED <<store, codeRuns>>
    BY <1>2 DEF PostDataProduct
  <2>3. dataProducts \in [Keys -> Objects \cup {None}]
    BY DEF IInv, TypeInv, TypeOK
  <2> HIDE DEF k
  <2>4. CASE dataProducts[k] = None
    <3>1. dataProducts'[k] = object[r]
          /\ dataProducts' = [dataProducts EXCEPT ![k] = dataProducts'[k]]
      BY <2>1, <2>2, <2>3, <2>4
    <3> QED
      BY <2>1, <2>2, <2>4, <3>1, RegisteredIsAvailable, SameRegistry
         DEF Cat!CNext, Cat!Publish, Cat!Available
  <2>5. CASE dataProducts[k] # None
    <3>1. dataProducts' = dataProducts
      BY <2>1, <2>2, <2>3, <2>5
    <3> QED
      BY <2>2, <3>1 DEF Cat!cvars
  <2> QED
    BY <2>4, <2>5
<1>3. CASE PatchCodeRun(r)
  <2> DEFINE ins == ObjectsIn(inputs[r])
             outs == ObjectsIn(outputs[r])
  <2>1. codeRuns' = [codeRuns EXCEPT ![r] =
            [inputs |-> IF ins = {} THEN @.inputs ELSE ins,
             outputs |-> IF outs = {} THEN @.outputs ELSE outs]]
        /\ UNCHANGED <<store, dataProducts>>
    BY <1>3 DEF PatchCodeRun
  <2>2. codeRuns \in [Runs -> [inputs : SUBSET Objects, outputs : SUBSET Objects]]
    BY DEF IInv, TypeInv, TypeOK
  <2>3. codeRuns[r].inputs \subseteq ins /\ codeRuns[r].outputs \subseteq objects
    BY DEF IInv, ReferencesResolve
  <2>4. \A o \in ins : \E k \in Keys : dataProducts[k] = o
    BY InputsRegistered
  <2>5. outs \subseteq objects
    BY DEF ObjectsIn, IInv, OutputsRegistered
  <2> HIDE DEF ins, outs
  <2>6. /\ codeRuns'[r].inputs = IF ins = {} THEN codeRuns[r].inputs ELSE ins
        /\ codeRuns'[r].outputs = IF outs = {} THEN codeRuns[r].outputs ELSE outs
        /\ codeRuns' = [codeRuns EXCEPT ![r] = codeRuns'[r]]
    BY <2>1, <2>2
  <2>7. /\ codeRuns[r].inputs \subseteq codeRuns'[r].inputs
        /\ \A o \in codeRuns'[r].inputs : \E k \in Keys : dataProducts[k] = o
        /\ \A o \in codeRuns'[r].outputs : o \in objects
    BY <2>3, <2>4, <2>5, <2>6
  <2> QED
    BY <2>1, <2>6, <2>7, RegisteredIsAvailable, SameRegistry
       DEF Cat!CNext, Cat!Record, Cat!Available
<1>4. CASE UNCHANGED <<store, dataProducts, codeRuns>>
  BY <1>4 DEF Cat!cvars
<1> QED
  BY <1>1, <1>2, <1>3, <1>4, Changes DEF RenameToHash, PostDataProduct, PatchCodeRun

\* The catalogue is empty at the start.
LEMMA InitCatalogue ==
    Init => Cat!CInit
BY NoneAssumption, SameRegistry DEF Init, Cat!CInit, StorePaths, Hashes

\* The pipeline implements the write-once catalogue: every step of a run is a
\* step of Catalogue or changes nothing it shows, whatever is interleaved and
\* whatever fails (config.cxx:615-778).
THEOREM Refinement ==
    ASSUME SetupApart
    PROVE  Spec => ImplementsCatalogue
<1>1. Init => Cat!CInit
  BY InitCatalogue
<1>2. IInv /\ [Next]_vars => [Cat!CNext]_(Cat!cvars)
  <2> SUFFICES ASSUME IInv, [Next]_vars PROVE [Cat!CNext]_(Cat!cvars)
    OBVIOUS
  <2>1. CASE UNCHANGED vars
    BY <2>1 DEF vars, Cat!cvars
  <2> QED
    BY <2>1, CatalogueStep DEF Next, Acts
<1> QED
  BY <1>1, <1>2, Invariance, PTL DEF Spec, ImplementsCatalogue, Cat!CSpec

-----------------------------------------------------------------------------
(* What link_read answered.                                                *)

AnswersInv ==
    \A r \in Runs, p \in Products :
        answers[r][p] # None =>
            /\ ReadConfig[r][p] # None
            /\ dataProducts[ReadConfig[r][p]] # None
            /\ answers[r][p] = dataProducts[ReadConfig[r][p]].location.path

\* Unless a product is literally named "data_product", link_read answers
\* with the path of the product it is asked for.
THEOREM Answers ==
    ASSUME SetupApart, DataProductLiteral \notin Products
    PROVE  Spec => []AnswersServeTheProduct
<1>1. Init => AnswersInv
  BY DEF Init, Nothing, AnswersInv
<1>2. IInv /\ AnswersInv /\ [Next]_vars => AnswersInv'
  <2> SUFFICES ASSUME IInv, AnswersInv, [Next]_vars PROVE AnswersInv'
    OBVIOUS
  <2>1. CASE UNCHANGED vars
    BY <2>1 DEF vars, AnswersInv
  <2>2. ASSUME NEW r \in Runs, Acts(r) PROVE AnswersInv'
    <3>1. ASSUME NEW s \in Runs, NEW q \in Products, answers'[s][q] = answers[s][q],
                 answers[s][q] # None
          PROVE  /\ ReadConfig[s][q] # None
                 /\ dataProducts'[ReadConfig[s][q]] # None
                 /\ answers'[s][q] = dataProducts'[ReadConfig[s][q]].location.path
      <4>1. ReadConfig[s][q] \in Keys
        BY <3>1, ConfigAssumption DEF AnswersInv, ReadEntries
      <4> QED
        BY <2>2, <3>1, <4>1, Growth DEF AnswersInv
    <3>2. ASSUME NEW p \in Products, LinkReadQueried(r, p) PROVE AnswersInv'
      <4>1. \A s \in Runs, q \in Products : answers'[s][q] =
              IF s = r /\ q = p THEN QueriedObject(r, p).location.path ELSE answers[s][q]
        BY <3>2 DEF LinkReadQueried, IInv, TypeInv, TypeOK
      <4>2. dataProducts' = dataProducts /\ ReadConfig[r][p] # None
            /\ QueriedObject(r, p) # None
        BY <3>2 DEF LinkReadQueried
      <4> QED
        BY <3>1, <4>1, <4>2 DEF AnswersInv, QueriedObject
    <3>3. ASSUME NEW p \in Products, LinkReadCached(r, p) PROVE AnswersInv'
      BY <3>3 DEF LinkReadCached
    <3>4. UNCHANGED answers \/ (\E p \in Products : LinkReadQueried(r, p) \/ LinkReadCached(r, p))
      <4>1. CASE CallUser(r)
        BY <4>1 DEF CallUser, LinkWrite, UserWrite, Finalise
      <4>2. CASE FindLocation(r) \/ RemoveDuplicate(r) \/ RenameToHash(r) \/ RenameFails(r)
                 \/ PostLocation(r) \/ GetNamespace(r) \/ PostNamespace(r)
        BY <4>2 DEF FindLocation, RemoveDuplicate, RenameToHash, RenameFails, PostLocation,
                    GetNamespace, PostNamespace
      <4>3. CASE GetDataProduct(r) \/ PostObject(r) \/ PostDataProduct(r) \/ GetComponent(r)
                 \/ CollectInputs(r) \/ PatchCodeRun(r) \/ LoseRequest(r)
        BY <4>3 DEF GetDataProduct, PostObject, PostDataProduct, GetComponent, CollectInputs,
                    PatchCodeRun, LoseRequest
      <4> QED
        BY <2>2, <4>1, <4>2, <4>3 DEF Acts, StepFinalise
    <3>5. CASE UNCHANGED answers
      BY <3>1, <3>5 DEF AnswersInv
    <3> QED
      BY <3>2, <3>3, <3>4, <3>5
  <2> QED
    BY <2>1, <2>2 DEF Next, Acts
<1>3. IInv /\ AnswersInv => AnswersServeTheProduct
  <2> SUFFICES ASSUME IInv, AnswersInv, NEW r \in Runs, NEW p \in Products,
                      answers[r][p] # None
               PROVE  store[answers[r][p]] # None
    BY DEF AnswersInv, AnswersServeTheProduct
  <2> DEFINE o == dataProducts[ReadConfig[r][p]]
  <2>1. o \in objects
    BY ConfigAssumption DEF AnswersInv, ReadEntries, IInv, ReferencesResolve
  <2>2. store[o.location.path] = o.location.hash /\ o.location.hash \in Contents
    BY <2>1, RegisteredIsLocated DEF Located
  <2> QED
    BY <2>2, NoneAssumption DEF AnswersInv, Hashes
<1> QED
  BY <1>1, <1>2, <1>3, Invariance, PTL DEF Spec

-----------------------------------------------------------------------------
(* A finalise() that returned has recorded everything.                     *)

USE DEF InHand

\* A location of a content stays registered.
LEMMA KnownStays ==
    ASSUME IInv, NEW r \in Runs, Acts(r), NEW c, Known(c)
    PROVE  \E l \in storageLocations' : l.hash = c
BY Growth DEF Known

\* Only the author's program fills a temporary file, between calls.
LEMMA RemovedStays ==
    ASSUME IInv, NEW r \in Runs, Acts(r), NEW t \in TempPaths, temp[t] = None,
           pc[r] # "idle" \/ t.run # r
    PROVE  temp'[t] = None
<1>1. CASE t.run # r
  BY <1>1, Growth
<1>2. CASE pc[r] # "idle"
  <2>1. CASE RenameToHash(r) \/ RemoveDuplicate(r)
    BY <2>1 DEF RenameToHash, RemoveDuplicate, IInv, TypeInv, TypeOK
  <2>2. ~ \E u \in TempPaths, c \in Contents : UserWrite(r, u, c)
    BY <1>2 DEF UserWrite
  <2> QED
    BY <2>1, <2>2, Changes
<1> QED
  BY <1>1, <1>2

\* The temporary path of a linked write is one of its run's.
LEMMA WritePath ==
    ASSUME IInv, NEW r \in Runs, NEW p \in Products, writes[r][p] # None
    PROVE  writes[r][p].path \in TempPaths /\ writes[r][p].path.run = r
BY DEF IInv, TypeInv, TypeOK, Writes, WritesOwned

\* What is recorded of a write stays so while its map entries are kept.
LEMMA RecordedStays ==
    ASSUME IInv, NEW r \in Runs, Acts(r), NEW s \in Runs, NEW p \in Products,
           writes[s][p] # None, Recorded(s, p), pc[r] # "idle" \/ s # r,
           writes'[s][p] = writes[s][p], outputs'[s][p] = outputs[s][p]
    PROVE  Recorded(s, p)'
<1>1. temp'[writes[s][p].path] = None
  BY WritePath, RemovedStays DEF Recorded
<1>2. \E l \in storageLocations' : l.hash = outputs[s][p].hash
  BY KnownStays DEF Recorded
<1> QED
  BY <1>1, <1>2 DEF Recorded, Known

-----------------------------------------------------------------------------
(* A step of another run.                                                  *)

LEMMA OthersProgress ==
    ASSUME RecordingInv, NEW r \in Runs, Acts(r), NEW s \in Runs \ {r}
    PROVE  Progress(s)' /\ Finished(s)'
<1>0. IInv /\ Progress(s) /\ Finished(s) /\ TypeOK
  BY DEF RecordingInv, IInv, TypeInv
<1>1. /\ pc'[s] = pc[s] /\ todo'[s] = todo[s] /\ item'[s] = item[s] /\ hash'[s] = hash[s]
      /\ writes'[s] = writes[s] /\ reads'[s] = reads[s] /\ outputs'[s] = outputs[s]
      /\ inputs'[s] = inputs[s] /\ codeRuns'[s] = codeRuns[s] /\ result'[s] = result[s]
  BY <1>0, OthersKept DEF Own
<1>2. ASSUME NEW p \in Products, writes[s][p] # None, Recorded(s, p) PROVE Recorded(s, p)'
  BY <1>0, <1>1, <1>2, RecordedStays
<1>3. ASSUME InHand(s), pc[s] # "move" PROVE temp'[writes[s][item[s]].path] = None
  <2>1. item[s] \in Products /\ writes[s][item[s]] # None
    BY <1>0, <1>3, ItemType DEF IInv
  <2>2. temp[writes[s][item[s]].path] = None
    BY <1>0, <1>3 DEF Progress
  <2> QED
    BY <1>0, <2>1, <2>2, WritePath, RemovedStays
<1>4. ASSUME Known(hash[s]) PROVE \E l \in storageLocations' : l.hash = hash'[s]
  BY <1>0, <1>1, <1>4, KnownStays DEF Known
<1>5. Progress(s)'
  <2>1. \A p \in Products : writes'[s][p] # None /\ pc'[s] # "idle" =>
            p \in todo'[s] \/ (pc'[s] \notin {"idle", "loop", "patch"} /\ p = item'[s])
                \/ Recorded(s, p)'
    BY <1>0, <1>1, <1>2 DEF Progress
  <2> QED
    BY <1>0, <1>1, <1>3, <1>4, <2>1 DEF Progress, Known
<1>6. Finished(s)'
  BY <1>0, <1>1, <1>2 DEF Finished
<1> QED
  BY <1>5, <1>6

-----------------------------------------------------------------------------
(* A step of the run itself.                                               *)

\* A call that throws, and a call of the author's program, leave nothing in
\* progress and no return.
LEMMA IdleProgress ==
    ASSUME NEW r \in Runs, pc'[r] = "idle", result'[r] # "returned"
    PROVE  Progress(r)' /\ Finished(r)'
BY DEF Progress, Finished

\* The author's calls between one finalise() and the next.
LEMMA UserProgress ==
    ASSUME RecordingInv, NEW r \in Runs, CallUser(r)
    PROVE  Progress(r)' /\ Finished(r)'
<1>0. TypeOK
  BY DEF RecordingInv, IInv, TypeInv
<1>1. CASE Finalise(r)
  <2>1. /\ pc'[r] = "loop" /\ result'[r] = "none" /\ UNCHANGED writes
        /\ todo'[r] = {p \in Products : writes[r][p] # None}
    BY <1>0, <1>1 DEF Finalise, TypeOK
  <2> QED
    BY <2>1 DEF Progress, Finished
<1>2. CASE ~ Finalise(r)
  <2>1. pc'[r] = "idle" /\ result'[r] = "none"
    BY <1>0, <1>2 DEF CallUser, LinkWrite, LinkReadCached, LinkReadQueried, UserWrite, TypeOK
  <2> QED
    BY <2>1, IdleProgress
<1> QED
  BY <1>1, <1>2

\* A call of the registry that fails.
LEMMA ThrewProgress ==
    ASSUME RecordingInv, NEW r \in Runs, Leave(r, "threw") \/ LoseAnswer(r)
    PROVE  Progress(r)' /\ Finished(r)'
<1>1. pc'[r] = "idle" /\ result'[r] = "threw"
  BY LeaveOwn DEF LoseAnswer, RecordingInv, IInv, TypeInv
<1> QED
  BY <1>1, IdleProgress

\* A step in which finalise() goes on with a write in hand.
LEMMA SameItem ==
    ASSUME RecordingInv, NEW r \in Runs, Acts(r), InHand(r), InHand(r)',
           UNCHANGED <<todo, item, hash, writes, reads, outputs, result>>,
           pc'[r] # "move" => temp'[Write(r).path] = None,
           pc'[r] \notin {"move", "postLocation"} =>
               \E l \in storageLocations' : l.hash = hash[r]
    PROVE  Progress(r)' /\ Finished(r)'
<1>0. IInv /\ Progress(r) /\ Finished(r)
  BY DEF RecordingInv
<1>1. ASSUME NEW p \in Products, writes[r][p] # None, Recorded(r, p) PROVE Recorded(r, p)'
  BY <1>0, <1>1, RecordedStays
<1>2. result'[r] # "returned"
  BY <1>0 DEF Finished
<1>3. \A p \in Products : writes'[r][p] # None => p \in todo'[r] \/ p = item'[r] \/ Recorded(r, p)'
  BY <1>0, <1>1 DEF Progress
<1> QED
  BY <1>2, <1>3 DEF Progress, Finished, Known

\* What has been cleared, and what is registered, of the write in hand.
LEMMA ItemStays ==
    ASSUME RecordingInv, NEW r \in Runs, Acts(r), InHand(r)
    PROVE  /\ pc[r] # "move" => temp'[Write(r).path] = None
           /\ pc[r] \notin {"move", "postLocation"} =>
                  \E l \in storageLocations' : l.hash = hash[r]
<1>0. IInv /\ Progress(r)
  BY DEF RecordingInv
<1>1. Write(r).path \in TempPaths
  BY <1>0, ItemType DEF IInv
<1> QED
  BY <1>0, <1>1, RemovedStays, KnownStays DEF Progress

\* The next write is looked at.
LEMMA FindProgress ==
    ASSUME RecordingInv, NEW r \in Runs, FindLocation(r)
    PROVE  Progress(r)' /\ Finished(r)'
<1>0. IInv /\ TypeOK /\ Progress(r) /\ Finished(r) /\ pc[r] = "loop" /\ Acts(r)
  BY DEF RecordingInv, IInv, TypeInv, FindLocation, Acts, StepFinalise
<1> SUFFICES ASSUME NEW p \in todo[r],
                    todo' = [todo EXCEPT ![r] = @ \ {p}],
                    item' = [item EXCEPT ![r] = p],
                    Goto(r, "move"), UNCHANGED result
             PROVE  Progress(r)' /\ Finished(r)'
  BY ThrewProgress DEF FindLocation
<1>1. pc'[r] = "move" /\ todo'[r] = todo[r] \ {p} /\ item'[r] = p /\ UNCHANGED <<writes, outputs>>
  BY <1>0 DEF FindLocation, TypeOK
<1>2. ASSUME NEW q \in Products, writes[r][q] # None, Recorded(r, q) PROVE Recorded(r, q)'
  BY <1>0, <1>1, <1>2, RecordedStays
<1>3. \A q \in Products : writes'[r][q] # None => q \in todo'[r] \/ q = item'[r] \/ Recorded(r, q)'
  BY <1>0, <1>1, <1>2 DEF Progress
<1>4. result'[r] # "returned"
  BY <1>0 DEF Finished
<1> QED
  BY <1>1, <1>3, <1>4 DEF Progress, Finished

\* The file is taken away, and its content's location is registered.
LEMMA MoveProgress ==
    ASSUME RecordingInv, NEW r \in Runs, RemoveDuplicate(r) \/ RenameToHash(r)
    PROVE  Progress(r)' /\ Finished(r)'
<1>0. IInv /\ TypeOK /\ pc[r] = "move" /\ Acts(r)
  BY DEF RecordingInv, IInv, TypeInv, RemoveDuplicate, RenameToHash, Acts, StepFinalise
<1>1. temp'[Write(r).path] = None
  BY <1>0, ItemType DEF RemoveDuplicate, RenameToHash, TypeOK, IInv
<1>2. CASE RenameToHash(r)
  <2>1. pc'[r] = "postLocation"
    BY <1>0, <1>2 DEF RenameToHash, TypeOK
  <2> QED
    BY <1>0, <1>1, <1>2, <2>1, SameItem DEF RenameToHash
<1>3. CASE RemoveDuplicate(r)
  <2>1. pc'[r] = "getNamespace" /\ location[r] # None
    BY <1>0, <1>3 DEF RemoveDuplicate, TypeOK
  <2>2. location[r] \in storageLocations /\ location[r].hash = hash[r]
    BY <1>0, <2>1 DEF IInv, Locals
  <2>3. \E l \in storageLocations' : l.hash = hash[r]
    BY <1>0, <2>2, Growth
  <2> QED
    BY <1>0, <1>1, <1>3, <2>1, <2>3, SameItem DEF RemoveDuplicate
<1> QED
  BY <1>2, <1>3

\* Whatever it answers, a POST of a location leaves one with its hash.
LEMMA PostLocationProgress ==
    ASSUME RecordingInv, NEW r \in Runs, PostLocation(r)
    PROVE  Progress(r)' /\ Finished(r)'
<1>0. TypeOK /\ Acts(r) /\ pc[r] = "postLocation"
  BY DEF RecordingInv, IInv, TypeInv, PostLocation, Acts, StepFinalise
<1>1. CASE LoseAnswer(r)
  BY <1>1, ThrewProgress
<1>2. CASE Goto(r, "getNamespace") /\ UNCHANGED <<todo, item, hash, object, result, faults>>
  <2>1. pc'[r] = "getNamespace"
    BY <1>0, <1>2 DEF TypeOK
  <2>2. \E l \in storageLocations' : l.hash = hash[r]
    BY DEF PostLocation, LocationsAfterPost, LocationConflict, NewLocation
  <2> QED
    BY <1>0, <1>2, <2>1, <2>2, ItemStays, SameItem DEF PostLocation
<1> QED
  BY <1>1, <1>2 DEF PostLocation

\* The calls between the location and the component.
LEMMA PostProgress ==
    ASSUME RecordingInv, NEW r \in Runs,
           \/ GetNamespace(r) \/ PostNamespace(r) \/ GetDataProduct(r)
           \/ PostObject(r) \/ PostDataProduct(r)
    PROVE  Progress(r)' /\ Finished(r)'
<1>0. TypeOK /\ Acts(r)
  BY DEF RecordingInv, IInv, TypeInv, Acts, StepFinalise
<1> SUFFICES ASSUME UNCHANGED <<todo, item, hash, writes, reads, outputs, result>>,
                    pc'[r] \in {"getDataProduct", "postNamespace", "postObject",
                                "getComponent", "postDataProduct"},
                    pc[r] \in {"getNamespace", "getDataProduct", "postNamespace", "postObject",
                               "postDataProduct"}
             PROVE  Progress(r)' /\ Finished(r)'
  BY <1>0, ThrewProgress
     DEF GetNamespace, PostNamespace, GetDataProduct, PostObject, PostDataProduct, TypeOK
<1> QED
  BY <1>0, ItemStays, SameItem

\* The write in hand is recorded.
LEMMA ComponentProgress ==
    ASSUME RecordingInv, NEW r \in Runs, GetComponent(r)
    PROVE  Progress(r)' /\ Finished(r)'
<1>0. IInv /\ TypeOK /\ Progress(r) /\ Finished(r) /\ pc[r] = "getComponent" /\ Acts(r)
  BY DEF RecordingInv, IInv, TypeInv, GetComponent, Acts, StepFinalise
<1>1. item[r] \in Products /\ writes[r][item[r]] # None
  BY <1>0, ItemType DEF IInv
<1>2. /\ pc'[r] = "loop" /\ todo' = todo /\ result' = result /\ UNCHANGED <<writes, temp>>
      /\ storageLocations' = storageLocations
      /\ outputs'[r][item[r]] = [write |-> Write(r), object |-> object[r], hash |-> hash[r]]
      /\ \A p \in Products : p # item[r] => outputs'[r][p] = outputs[r][p]
  BY <1>0, <1>1 DEF GetComponent, TypeOK
<1>3. ASSUME NEW p \in Products, p = item[r] PROVE Recorded(r, p)'
  <2>1. temp[Write(r).path] = None /\ \E l \in storageLocations : l.hash = hash[r]
    BY <1>0 DEF Progress, Known
  <2>2. outputs'[r][p] # None
    <3>1. outputs'[r][p] \in Outputs
      <4>1. Write(r) \in Writes /\ hash[r] \in Contents
        BY <1>0, ItemType DEF IInv
      <4>2. object[r] \in Objects
        BY <1>0 DEF IInv, TypeInv, ItemsWritten
      <4> QED
        BY <1>2, <1>3, <4>1, <4>2 DEF Outputs
    <3> QED
      BY <3>1, MapsAssumption
  <2> QED
    BY <1>2, <1>3, <2>1, <2>2 DEF Recorded, Known
<1>4. ASSUME NEW q \in Products, writes[r][q] # None, q # item[r], Recorded(r, q)
      PROVE  Recorded(r, q)'
  BY <1>0, <1>2, <1>4, RecordedStays
<1>5. \A q \in Products : writes'[r][q] # None => q \in todo'[r] \/ Recorded(r, q)'
  <2> SUFFICES ASSUME NEW q \in Products, writes[r][q] # None
               PROVE  q \in todo[r] \/ Recorded(r, q)'
    BY <1>2
  <2>1. CASE q = item[r]
    BY <1>3, <2>1
  <2>2. CASE q # item[r]
    BY <1>0, <1>4, <2>2 DEF Progress
  <2> QED
    BY <2>1, <2>2
<1>6. result'[r] # "returned"
  BY <1>0, <1>2 DEF Finished
<1> QED
  BY <1>2, <1>5, <1>6 DEF Progress, Finished

\* Every read becomes an input.
LEMMA CollectProgress ==
    ASSUME RecordingInv, NEW r \in Runs, CollectInputs(r)
    PROVE  Progress(r)' /\ Finished(r)'
<1>0. IInv /\ TypeOK /\ Progress(r) /\ Finished(r) /\ pc[r] = "loop" /\ Acts(r)
  BY DEF RecordingInv, IInv, TypeInv, CollectInputs, Acts, StepFinalise
<1>1. /\ pc'[r] = "patch" /\ todo'[r] = {} /\ UNCHANGED <<writes, outputs, reads, result>>
      /\ todo[r] = {}
      /\ \A p \in Products : reads[r][p] # None => inputs'[r][p] = reads[r][p]
  BY <1>0 DEF CollectInputs, TypeOK
<1>2. ASSUME NEW q \in Products, writes[r][q] # None PROVE Recorded(r, q)'
  <2>1. Recorded(r, q)
    BY <1>0, <1>1, <1>2 DEF Progress
  <2> QED
    BY <1>0, <1>1, <1>2, <2>1, RecordedStays
<1>3. result'[r] # "returned"
  BY <1>0, <1>1 DEF Finished
<1> QED
  BY <1>1, <1>2, <1>3 DEF Progress, Finished

\* The code run is given all that was recorded.
LEMMA PatchProgress ==
    ASSUME RecordingInv, NEW r \in Runs, PatchCodeRun(r)
    PROVE  Progress(r)' /\ Finished(r)'
<1>0. IInv /\ TypeOK /\ Progress(r) /\ pc[r] = "patch" /\ Acts(r)
  BY DEF RecordingInv, IInv, TypeInv, PatchCodeRun, Acts, StepFinalise
<1>1. CASE LoseAnswer(r)
  BY <1>1, ThrewProgress
<1>2. CASE Leave(r, "returned")
  <2>1. pc'[r] = "idle" /\ UNCHANGED <<writes, outputs, reads, inputs>>
    BY <1>0, <1>2, LeaveOwn DEF PatchCodeRun
  <2>2. ASSUME NEW p \in Products, writes[r][p] # None
        PROVE  Recorded(r, p)' /\ outputs[r][p].object \in codeRuns'[r].outputs
    <3>1. Recorded(r, p)
      BY <1>0, <2>2 DEF Progress
    <3>2. outputs[r][p].object \in ObjectsIn(outputs[r])
      BY <3>1 DEF Recorded, ObjectsIn
    <3>3. codeRuns'[r].outputs = ObjectsIn(outputs[r])
      BY <1>0, <3>2 DEF PatchCodeRun, TypeOK
    <3> QED
      BY <1>0, <2>1, <2>2, <3>1, <3>2, <3>3, RecordedStays
  <2>3. ASSUME NEW p \in Products, reads[r][p] # None
        PROVE  reads[r][p].object \in codeRuns'[r].inputs
    <3>1. inputs[r][p] = reads[r][p]
      BY <1>0, <2>3 DEF Progress
    <3>2. reads[r][p].object \in ObjectsIn(inputs[r])
      BY <2>3, <3>1 DEF ObjectsIn
    <3>3. codeRuns'[r].inputs = ObjectsIn(inputs[r])
      BY <1>0, <3>2 DEF PatchCodeRun, TypeOK
    <3> QED
      BY <3>2, <3>3
  <2> QED
    BY <2>1, <2>2, <2>3 DEF Progress, Finished
<1> QED
  BY <1>1, <1>2 DEF PatchCodeRun

LEMMA OwnProgress ==
    ASSUME RecordingInv, NEW r \in Runs, Acts(r)
    PROVE  Progress(r)' /\ Finished(r)'
<1>1. CASE RenameFails(r) \/ LoseRequest(r)
  BY <1>1, ThrewProgress DEF RenameFails, LoseRequest
<1> QED
  BY <1>1, UserProgress, FindProgress, MoveProgress, PostLocationProgress, PostProgress,
     ComponentProgress, CollectProgress, PatchProgress DEF Acts, StepFinalise

-----------------------------------------------------------------------------
\* At the start nothing is in progress and nothing has returned.
LEMMA RecordingInit ==
    Init => RecordingInv
<1> SUFFICES ASSUME Init PROVE RecordingInv
  OBVIOUS
<1>1. \A r \in Runs : Progress(r) /\ Finished(r)
  BY DEF Init, Progress, Finished
<1> QED
  BY <1>1, InitInv DEF RecordingInv

\* Every step keeps track of the linked writes.
LEMMA RecordingNext ==
    RecordingInv /\ [Next]_vars => RecordingInv'
<1> SUFFICES ASSUME RecordingInv, [Next]_vars PROVE RecordingInv'
  OBVIOUS
<1>1. IInv'
  BY NextInv DEF RecordingInv
<1>2. ASSUME NEW r \in Runs, Acts(r), NEW s \in Runs PROVE Progress(s)' /\ Finished(s)'
  BY <1>2, OwnProgress, OthersProgress
<1>3. ASSUME UNCHANGED vars, NEW s \in Runs PROVE Progress(s)' /\ Finished(s)'
  <2>1. \A p \in Products : Recorded(s, p)' <=> Recorded(s, p)
    BY <1>3 DEF vars, Recorded, Known
  <2>2. Progress(s) /\ Finished(s)
    BY DEF RecordingInv
  <2> QED
    BY <1>3, <2>1, <2>2 DEF vars, Progress, Finished, Known
<1> QED
  BY <1>1, <1>2, <1>3 DEF RecordingInv, Next, Acts

\* What is recorded is in the store and in the registry.
LEMMA RecordingShows ==
    SetupApart /\ RecordingInv => ReturnedMeansRecorded
<1> SUFFICES ASSUME SetupApart, RecordingInv, NEW r \in Runs, result[r] = "returned",
                    NEW p \in Products, writes[r][p] # None
             PROVE  \E l \in storageLocations :
                        l.hash = outputs[r][p].hash /\ store[l.path] = l.hash
  BY DEF RecordingInv, Finished, Recorded, ReturnedMeansRecorded
<1>1. Recorded(r, p) /\ IInv
  BY DEF RecordingInv, Finished
<1>2. outputs[r][p].hash \in Contents
  BY <1>1 DEF Recorded, IInv, TypeInv, TypeOK, Outputs
<1>3. PICK l \in storageLocations : l.hash = outputs[r][p].hash
  BY <1>1 DEF Recorded, Known
<1> QED
  BY <1>1, <1>2, <1>3, WrittenIsStored

\* However the runs interleave and whatever fails, a finalise() that returned
\* left no linked write pending: each was renamed or was a duplicate of a
\* file in the store, the registry has a location with its hash, and the code
\* run lists the outputs and the inputs (config.cxx:615-779).
THEOREM ReturnedIsRecorded ==
    ASSUME SetupApart
    PROVE  Spec => []ReturnedMeansRecorded
BY RecordingInit, RecordingNext, RecordingShows, PTL DEF Spec

\* So much of it holds whatever is written: the file itself may be missing,
\* where a configuration or a script was taken for it (config.cxx:635-641).
LEMMA RecordingShowsOrSetup ==
    RecordingInv => RecordedOrSetup
<1> SUFFICES ASSUME RecordingInv, NEW r \in Runs, result[r] = "returned",
                    NEW p \in Products, writes[r][p] # None
             PROVE  \E l \in storageLocations :
                        l.hash = outputs[r][p].hash /\ (store[l.path] = l.hash \/ l \in SetupRows)
  BY DEF RecordingInv, Finished, Recorded, RecordedOrSetup
<1>1. Recorded(r, p) /\ IInv
  BY DEF RecordingInv, Finished
<1>2. PICK l \in storageLocations : l.hash = outputs[r][p].hash
  BY <1>1 DEF Recorded, Known
<1> QED
  BY <1>1, <1>2 DEF IInv, LocationsStored

\* A finalise() that returned has recorded every linked write and read,
\* whatever contents are written: of each write's content there is a file in
\* the store, or a constructor's row that stands for it (config.cxx:615-779).
THEOREM ReturnedIsRecordedOrSetup == Spec => []RecordedOrSetup
BY RecordingInit, RecordingNext, RecordingShowsOrSetup, PTL DEF Spec

-----------------------------------------------------------------------------
(* While other runs are being constructed.                                 *)

\* What a constructor changes of what finalise() sees: it adds locations of
\* configurations and scripts, and a call of its may fail.
ConstructorActs ==
    /\ storageLocations \subseteq storageLocations'
    /\ storageLocations' \ storageLocations \subseteq SetupRows
    /\ faults' \in 0 .. MaxFaults
    /\ UNCHANGED <<objects, dataProducts, namespaces, codeRuns, files, members, pc, locals,
                   links, answers, result>>

\* The invariant survives it.
LEMMA ConstructorKeeps ==
    ASSUME IInv, ConstructorActs
    PROVE  IInv'
<1> USE DEF ConstructorActs
<1>0. ASSUME NEW l \in storageLocations' \ storageLocations
      PROVE  l \in StorageLocations /\ l \in SetupRows
  BY <1>0 DEF SetupRows, StorageLocations, Paths, Hashes
<1>1. storageLocations' \in SUBSET StorageLocations
  BY <1>0 DEF IInv, TypeInv, TypeOK
<1>2. TypeInv'
  BY <1>1 DEF IInv, TypeInv, TypeOK, ItemsWritten
<1>3. StoreSound' /\ WritesOwned' /\ ObjectsLocated'
  BY DEF IInv, StoreSound, WritesOwned, ObjectsLocated
<1>4. LocationsStored'
  BY <1>0 DEF IInv, LocationsStored
<1>5. ReferencesResolve' /\ OutputsRegistered'
  BY DEF IInv, ReferencesResolve, OutputsRegistered, ObjectsIn
<1>6. ReadsPublished'
  BY DEF IInv, ReadsPublished, ReadAsConfigured
<1>7. ASSUME NEW r \in Runs PROVE Locals(r)'
  <2>1. Locals(r)
    BY DEF IInv
  <2> QED
    BY <2>1 DEF Locals, NewPath
<1> QED
  BY <1>2, <1>3, <1>4, <1>5, <1>6, <1>7 DEF IInv

\* So does what is known of a finalise() in progress.
LEMMA ConstructorKeepsRecords ==
    ASSUME RecordingInv, ConstructorActs
    PROVE  RecordingInv'
<1>1. IInv'
  BY ConstructorKeeps DEF RecordingInv
<1>2. ASSUME NEW r \in Runs PROVE Progress(r)' /\ Finished(r)'
  <2> USE DEF ConstructorActs
  <2>1. Progress(r) /\ Finished(r)
    BY DEF RecordingInv
  <2>2. \A c : Known(c) => Known(c)'
    BY DEF Known
  <2>3. \A p \in Products : Recorded(r, p) => Recorded(r, p)'
    BY <2>2 DEF Recorded
  <2> QED
    BY <2>1, <2>2, <2>3 DEF Progress, Finished
<1> QED
  BY <1>1, <1>2 DEF RecordingInv

\* A call of finalise() adds rows for written contents under their own paths.
LEMMA RowsOfWrites ==
    ASSUME IInv, NEW r \in Runs, Acts(r), NEW l \in storageLocations' \ storageLocations
    PROVE  l \in [path : StorePaths, hash : Contents, public : BOOLEAN]
<1>1. PostLocation(r) /\ l = NewLocation(r)
  BY Changes DEF PostLocation, LocationsAfterPost
<1> QED
  BY <1>1, ItemType, ConfigAssumption DEF PostLocation, IInv, NewLocation

\* Its failed calls are within the bound, and a code run is its own run's.
LEMMA OwnCodeRun ==
    ASSUME IInv, NEW r \in Runs, Acts(r)
    PROVE  /\ faults' \in 0 .. MaxFaults
           /\ \A s \in Runs \ {r} : codeRuns'[s] = codeRuns[s]
<1>1. TypeOK'
  BY NextType DEF IInv, Next, Acts
<1> QED
  BY <1>1, OthersKept DEF Own, TypeOK, IInv, TypeInv

-----------------------------------------------------------------------------
(* finalise() counts down.                                                 *)

\* The step leads from a place to one that is nearer the end of the loop.
Follows(r, from, to) ==
    pc[r] = from /\ pc'[r] \in to /\ todo'[r] = todo[r]

\* Where each step of finalise() leaves it, and what that leaves to do.
LEMMA OwnPlaces ==
    ASSUME TypeInv, NEW r \in Runs, StepFinalise(r) \/ LoseRequest(r)
    PROVE  \/ pc[r] # "idle" /\ pc'[r] = "idle" /\ todo'[r] = {}
           \/ /\ pc[r] = "loop" /\ pc'[r] = "move"
              /\ \E p \in todo[r] : todo'[r] = todo[r] \ {p}
           \/ Follows(r, "move", {"getNamespace", "postLocation"})
           \/ Follows(r, "postLocation", {"getNamespace"})
           \/ Follows(r, "getNamespace", {"getDataProduct", "postNamespace"})
           \/ Follows(r, "postNamespace", {"getDataProduct"})
           \/ Follows(r, "getDataProduct", {"postObject", "getComponent"})
           \/ Follows(r, "postObject", {"postDataProduct"})
           \/ Follows(r, "postDataProduct", {"getComponent"})
           \/ Follows(r, "getComponent", {"loop"})
           \/ Follows(r, "loop", {"patch"})
<1> USE DEF Follows
<1>0. TypeOK
  BY DEF TypeInv
<1>1. \A how : Leave(r, how) => pc'[r] = "idle" /\ todo'[r] = {}
  BY <1>0, LeaveOwn
<1>2. LoseAnswer(r) => pc'[r] = "idle" /\ todo'[r] = {}
  BY <1>1 DEF LoseAnswer
<1>3. CASE FindLocation(r)
  BY <1>0, <1>1, <1>3 DEF FindLocation, TypeOK
<1>4. CASE RemoveDuplicate(r) \/ RenameToHash(r)
  BY <1>0, <1>4 DEF RemoveDuplicate, RenameToHash, TypeOK
<1>5. CASE RenameFails(r)
  BY <1>1, <1>5 DEF RenameFails
<1>6. CASE PostLocation(r)
  BY <1>0, <1>2, <1>6 DEF PostLocation, TypeOK
<1>7. CASE GetNamespace(r)
  BY <1>0, <1>7 DEF GetNamespace, TypeOK
<1>8. CASE PostNamespace(r)
  BY <1>0, <1>2, <1>8 DEF PostNamespace, TypeOK
<1>9. CASE GetDataProduct(r)
  BY <1>0, <1>9 DEF GetDataProduct, TypeOK
<1>10. CASE PostObject(r)
  BY <1>0, <1>1, <1>2, <1>10 DEF PostObject, TypeOK
<1>11. CASE PostDataProduct(r)
  BY <1>0, <1>2, <1>11 DEF PostDataProduct, TypeOK
<1>12. CASE GetComponent(r)
  BY <1>0, <1>12 DEF GetComponent, TypeOK
<1>13. CASE CollectInputs(r)
  BY <1>0, <1>13 DEF CollectInputs, TypeOK
<1>14. CASE PatchCodeRun(r)
  BY <1>1, <1>2, <1>14 DEF PatchCodeRun
<1>15. CASE LoseRequest(r)
  BY <1>2, <1>15 DEF LoseRequest
<1> QED
  BY <1>3, <1>4, <1>5, <1>6, <1>7, <1>8, <1>9, <1>10, <1>11, <1>12, <1>13, <1>14,
     <1>15 DEF StepFinalise

\* The author calls link_write once at a time, so that whatever the products
\* are, a finalise() has finitely many writes to look at.
Linked(r) == {p \in Products : writes[r][p] # None}

FiniteWork == \A r \in Runs : IsFiniteSet(Linked(r)) /\ IsFiniteSet(todo[r])

CountingInv == TypeInv /\ FiniteWork

\* Only link_write adds to the linked writes, and it adds one.
LEMMA LinkedGrows ==
    ASSUME TypeInv, NEW r \in Runs, Acts(r)
    PROVE  \/ Linked(r)' = Linked(r)
           \/ \E p \in Products : Linked(r)' = Linked(r) \cup {p}
<1>1. ASSUME NEW p \in Products, LinkWrite(r, p) PROVE Linked(r)' = Linked(r) \cup {p}
  <2>1. NewWrite(r, p) # None
    BY <1>1, NewWriteType, MapsAssumption DEF TypeInv
  <2> QED
    BY <1>1, <2>1 DEF LinkWrite, Linked, TypeInv, TypeOK
<1>2. CASE UNCHANGED writes
  BY <1>2 DEF Linked
<1> QED
  BY <1>1, <1>2, Changes

\* A step of the run that acts keeps its work finite.
LEMMA OwnFinite ==
    ASSUME CountingInv, NEW r \in Runs, Acts(r)
    PROVE  IsFiniteSet(Linked(r)') /\ IsFiniteSet(todo'[r])
<1>0. TypeInv /\ IsFiniteSet(Linked(r)) /\ IsFiniteSet(todo[r])
  BY DEF CountingInv, FiniteWork
<1>1. IsFiniteSet(Linked(r)')
  BY <1>0, LinkedGrows, FS_AddElement
<1>2. CASE Finalise(r)
  BY <1>0, <1>2 DEF Finalise, Linked, TypeInv, TypeOK
<1>3. CASE CallUser(r) /\ ~ Finalise(r)
  <2>1. UNCHANGED todo
    BY <1>3 DEF CallUser, LinkWrite, LinkReadCached, LinkReadQueried, UserWrite
  <2> QED
    BY <1>0, <1>1, <2>1
<1>4. CASE StepFinalise(r) \/ LoseRequest(r)
  <2>1. \/ todo'[r] = {} \/ todo'[r] = todo[r]
        \/ \E p \in todo[r] : todo'[r] = todo[r] \ {p}
    BY <1>0, <1>4, OwnPlaces DEF Follows
  <2>2. IsFiniteSet({}) /\ \A p : IsFiniteSet(todo[r] \ {p})
    BY <1>0, FS_EmptySet, FS_RemoveElement
  <2> QED
    BY <1>0, <1>1, <2>1, <2>2
<1> QED
  BY <1>1, <1>2, <1>3, <1>4 DEF Acts

\* Every step keeps every run's work finite.
LEMMA CountingNext == CountingInv /\ [Next]_vars => CountingInv'
<1> SUFFICES ASSUME CountingInv, [Next]_vars PROVE CountingInv'
  OBVIOUS
<1>1. TypeInv'
  BY NextType, NextItems DEF CountingInv, TypeInv
<1>2. ASSUME NEW r \in Runs, Acts(r) PROVE FiniteWork'
  <2>1. ASSUME NEW s \in Runs \ {r} PROVE Linked(s)' = Linked(s) /\ todo'[s] = todo[s]
    BY <1>2, OthersKept DEF Own, Linked, CountingInv, TypeInv
  <2> QED
    BY <1>2, <2>1, OwnFinite DEF FiniteWork, CountingInv
<1>3. CASE UNCHANGED vars
  <2>1. \A r \in Runs : Linked(r)' = Linked(r) /\ todo'[r] = todo[r]
    BY <1>3 DEF vars, Linked
  <2> QED
    BY <1>1, <2>1 DEF CountingInv, FiniteWork
<1> QED
  BY <1>1, <1>2, <1>3 DEF Next, Acts, CountingInv

\* The runs start with nothing linked.
LEMMA CountingInit == Init => CountingInv
<1> SUFFICES ASSUME Init PROVE CountingInv
  OBVIOUS
<1>1. \A r \in Runs : Linked(r) = {} /\ todo[r] = {}
  BY DEF Init, Linked, Nothing
<1> QED
  BY <1>1, InitType, FS_EmptySet DEF CountingInv, FiniteWork

\* A step of finalise() takes it nearer its end.
LEMMA OwnCountdown ==
    ASSUME CountingInv, NEW r \in Runs, StepFinalise(r) \/ LoseRequest(r)
    PROVE  StepsLeft(r)' < StepsLeft(r)
<1>0. TypeInv /\ IsFiniteSet(todo[r])
  BY DEF CountingInv, FiniteWork
<1>1. Cardinality(todo[r]) \in Nat
  BY <1>0, FS_CardinalityType
<1>2. Place[pc[r]] \in Nat /\ (pc[r] # "idle" => Place[pc[r]] > 0)
  BY <1>0 DEF TypeInv, TypeOK, Labels, Place
<1>3. CASE pc[r] # "idle" /\ pc'[r] = "idle" /\ todo'[r] = {}
  <2>1. Cardinality(todo'[r]) = 0 /\ Place[pc'[r]] = 0
    BY <1>3, FS_EmptySet DEF Place
  <2> QED
    BY <1>1, <1>2, <1>3, <2>1 DEF StepsLeft
<1>4. CASE /\ pc[r] = "loop" /\ pc'[r] = "move"
           /\ \E p \in todo[r] : todo'[r] = todo[r] \ {p}
  <2>1. Cardinality(todo'[r]) = Cardinality(todo[r]) - 1
    BY <1>0, <1>4, FS_RemoveElement
  <2>2. Place[pc[r]] = 2 /\ Place[pc'[r]] = 10
    BY <1>4 DEF Place
  <2> QED
    BY <1>1, <2>1, <2>2 DEF StepsLeft
<1>5. CASE todo'[r] = todo[r] /\ Place[pc'[r]] \in Nat /\ Place[pc'[r]] < Place[pc[r]]
  BY <1>1, <1>2, <1>5 DEF StepsLeft
<1> QED
  BY <1>0, <1>3, <1>4, <1>5, OwnPlaces DEF Follows, Place

\* finalise() comes nearer its end with every step, whatever the other runs
\* do and whatever call fails (config.cxx:627-782): the part of FinaliseEnds
\* that does not depend on how threads are scheduled.
THEOREM Countdown == Spec => CountsDown
<1>1. ASSUME CountingInv, [Next]_vars
      PROVE  [\A r \in Runs :
                 pc[r] # "idle" =>
                    \/ StepsLeft(r)' < StepsLeft(r)
                    \/ StepsLeft(r)' = StepsLeft(r)
                       /\ ~ StepFinalise(r) /\ ~ LoseRequest(r)]_vars
  <2>1. SUFFICES ASSUME NEW s \in Runs, Acts(s), NEW r \in Runs, pc[r] # "idle"
                 PROVE  \/ StepsLeft(r)' < StepsLeft(r)
                        \/ StepsLeft(r)' = StepsLeft(r)
                           /\ ~ StepFinalise(r) /\ ~ LoseRequest(r)
    BY <1>1 DEF Next, Acts
  <2>2. StepFinalise(r) \/ LoseRequest(r) => StepsLeft(r)' < StepsLeft(r)
    BY <1>1, OwnCountdown
  <2>3. CASE r = s
    <3>1. ~ CallUser(r)
      BY <2>1 DEF CallUser, LinkWrite, LinkReadCached, LinkReadQueried, UserWrite, Finalise
    <3> QED
      BY <2>1, <2>2, <2>3, <3>1 DEF Acts
  <2>4. CASE r # s
    <3>1. pc'[r] = pc[r] /\ todo'[r] = todo[r]
      BY <1>1, <2>1, <2>4, OthersKept DEF Own, CountingInv, TypeInv
    <3>2. StepsLeft(r)' = StepsLeft(r)
      BY <3>1 DEF StepsLeft
    <3> QED
      BY <2>2, <3>2
  <2> QED
    BY <2>3, <2>4
<1> QED
  BY <1>1, CountingInit, CountingNext, PTL DEF Spec, CountsDown
=============================================================================
