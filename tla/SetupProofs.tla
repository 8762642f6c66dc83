---------------------------- MODULE SetupProofs -----------------------------
(***************************************************************************)
(* What the construction of runs guarantees for any number of runs, files, *)
(* stores, edits, tries and failed calls.                                  *)
(***************************************************************************)
EXTENDS SetupProperties, TLAPS

USE DEF Goto, registry, locals, history

-----------------------------------------------------------------------------
(* Types.                                                                  *)

\* A constructor has a configuration with every key, and so a root.
LEMMA RootType ==
    ASSUME TypeOK, Stages, NEW r \in Runs, pc[r] # "idle"
    PROVE  /\ config[r] \in Valid /\ config[r] \in Contents /\ config[r] # None
           /\ WriteStore[config[r]] \in Stores /\ LatestCommit[config[r]] \in Commits
           /\ RootOf(r) \in Stores \cup {GitHub}
  BY RunsAssumption DEF Stages, Stage, RootOf

\* What is posted for a file, or for the repository, is a location.
LEMMA LocationType ==
    ASSUME TypeOK, Stages, NEW r \in Runs, pc[r] # "idle", SetupLocation(r).hash # None
    PROVE  SetupLocation(r) \in Locations
<1>1. CASE kind[r] = "repo"
  <2>1. [of |-> GitHub, cut |-> 0] \in RegisteredPaths
    BY DEF RegisteredPaths
  <2> QED
    BY <1>1, <2>1, RootType DEF SetupLocation, Locations
<1>2. CASE kind[r] # "repo"
  <2>1. FileOf(r) \in Files
    BY RunsAssumption DEF FileOf
  <2>2. content[FileOf(r)] \in Contents
    BY <1>2, <2>1 DEF TypeOK, SetupLocation
  <2>3. PathUnder(RootOf(r), FileOf(r)) \in RegisteredPaths
    BY <2>1, PathsAssumption DEF PathUnder, RegisteredPaths
  <2> QED
    BY <1>2, <2>2, <2>3, RootType DEF SetupLocation, Locations
<1> QED
  BY <1>1, <1>2

\* The registry answers with rows it has or was sent.
LEMMA LocationAnswers ==
    ASSUME NEW l
    PROVE  /\ LocationsAfterPost(SameRoot(l), l) \subseteq storageLocations \cup {l}
           /\ PostedLocation(SameRoot(l), l) \in {l, None}
  BY DEF LocationsAfterPost, PostedLocation, SameRoot

\* A constructor that ends leaves pc and result with their types.
LEMMA LeaveType ==
    ASSUME TypeOK, NEW r \in Runs, NEW how \in {"constructed", "threw", "userNotFound"},
           Leave(r, how)
    PROVE  /\ pc' \in [Runs -> {"idle", "user", "author", "root", "location", "object", "codeRun"}]
           /\ result' \in [Runs -> {"none", "constructed", "threw", "userNotFound"}]
  BY DEF TypeOK, Leave

\* A failed call leaves the constructor, and is counted.
LEMMA LoseAnswerType ==
    ASSUME TypeOK, NEW r \in Runs, LoseAnswer(r)
    PROVE  /\ pc' \in [Runs -> {"idle", "user", "author", "root", "location", "object", "codeRun"}]
           /\ result' \in [Runs -> {"none", "constructed", "threw", "userNotFound"}]
           /\ faults' \in 0 .. MaxFaults
<1>1. Leave(r, "threw")
  BY DEF LoseAnswer
<1>2. faults' \in 0 .. MaxFaults
  BY SetupBounds DEF LoseAnswer, TypeOK
<1> QED
  BY <1>1, <1>2, LeaveType

\* Every step of Setup keeps the types.
LEMMA NextType ==
    TypeOK /\ Stages /\ [Next]_vars => TypeOK'
<1> SUFFICES ASSUME TypeOK, Stages, [Next]_vars PROVE TypeOK'
  OBVIOUS
<1>1. ASSUME NEW f \in Files, NEW c \in Contents \cup {None}, EditFile(f, c) PROVE TypeOK'
  <2>1. edits' \in 0 .. MaxEdits
    BY <1>1, SetupBounds DEF EditFile, TypeOK
  <2>2. touched' \in [Runs -> BOOLEAN]
    BY <1>1 DEF EditFile, TypeOK
  <2> QED
    BY <1>1, <2>1, <2>2 DEF EditFile, TypeOK
<1>2. ASSUME NEW r \in Runs, Construct(r) PROVE TypeOK'
  <2>1. tries' \in [Runs -> 0 .. MaxTries]
    BY <1>2, SetupBounds DEF Construct, TypeOK
  <2>2. config' \in [Runs -> Contents \cup {None}]
    BY <1>2, RunsAssumption DEF Construct, TypeOK
  <2>3. posted' \in [Runs -> [Kinds -> SetupObjects \cup {None}]]
    BY <1>2 DEF Construct, TypeOK, NoObjects
  <2>4. kind' \in [Runs -> Kinds] /\ location' \in [Runs -> Locations \cup {None}]
    BY <1>2 DEF Construct, TypeOK, Kinds
  <2>5. /\ pc' \in [Runs -> {"idle", "user", "author", "root", "location", "object", "codeRun"}]
        /\ result' \in [Runs -> {"none", "constructed", "threw", "userNotFound"}]
    BY <1>2 DEF Construct, TypeOK, Leave
  <2> QED
    BY <1>2, <2>1, <2>2, <2>3, <2>4, <2>5 DEF Construct, TypeOK
<1>3. ASSUME NEW r \in Runs, GetUser(r) PROVE TypeOK'
  BY <1>3 DEF GetUser, TypeOK, Leave
<1>4. ASSUME NEW r \in Runs, GetAuthor(r) PROVE TypeOK'
  BY <1>4 DEF GetAuthor, TypeOK, Leave
<1>5. ASSUME NEW r \in Runs, PostStorageRoot(r) PROVE TypeOK'
  <2>1. RootOf(r) \in Stores \cup {GitHub}
    BY <1>5, RootType DEF PostStorageRoot
  <2> DEFINE row == [root |-> RootOf(r), local |-> kind[r] # "repo"]
  <2>5. row \in [root : Stores \cup {GitHub}, local : BOOLEAN]
    BY <2>1
  <2>6. storageRoots' = storageRoots \cup {row}
    BY <1>5 DEF PostStorageRoot
  <2>2. storageRoots' \in SUBSET [root : Stores \cup {GitHub}, local : BOOLEAN]
    BY <2>5, <2>6 DEF TypeOK
  <2>3. CASE Goto(r, "location") /\ UNCHANGED <<result, faults>>
    BY <1>5, <2>2, <2>3 DEF PostStorageRoot, TypeOK
  <2>4. CASE LoseAnswer(r)
    BY <1>5, <2>2, <2>4, LoseAnswerType DEF PostStorageRoot, TypeOK
  <2> QED
    BY <1>5, <2>3, <2>4 DEF PostStorageRoot
<1>6. ASSUME NEW r \in Runs, PostSetupLocation(r) PROVE TypeOK'
  <2> DEFINE l == SetupLocation(r)
  <2>1. CASE l.hash = None
    <3>1. Leave(r, "threw") /\ UNCHANGED <<storageLocations, location, faults>>
      BY <1>6, <2>1 DEF PostSetupLocation
    <3> QED
      BY <1>6, <3>1, LeaveType DEF PostSetupLocation, TypeOK
  <2>2. CASE l.hash # None
    <3>1. l \in Locations
      BY <1>6, <2>2, LocationType DEF PostSetupLocation
    <3>2. storageLocations' \in SUBSET (Locations \cup OtherLocations)
      BY <1>6, <2>2, <3>1, LocationAnswers DEF PostSetupLocation, TypeOK
    <3>3. CASE /\ location' = [location EXCEPT ![r] = PostedLocation(SameRoot(l), l)]
               /\ Goto(r, "object") /\ UNCHANGED <<result, faults>>
      <4>1. PostedLocation(SameRoot(l), l) \in Locations \cup {None}
        BY <3>1, LocationAnswers
      <4>2. location' \in [Runs -> Locations \cup {None}]
        BY <3>3, <4>1 DEF TypeOK
      <4> QED
        BY <1>6, <3>2, <3>3, <4>2 DEF PostSetupLocation, TypeOK
    <3>4. CASE LoseAnswer(r) /\ UNCHANGED location
      BY <1>6, <3>2, <3>4, LoseAnswerType DEF PostSetupLocation, TypeOK
    <3> QED
      BY <1>6, <2>2, <3>3, <3>4 DEF PostSetupLocation
  <2> QED
    BY <2>1, <2>2
<1>7. ASSUME NEW r \in Runs, PostSetupObject(r) PROVE TypeOK'
  <2> DEFINE o == [run |-> r, kind |-> kind[r], location |-> location[r]]
  <2>0. o \in SetupObjects
    BY DEF TypeOK, SetupObjects
  <2>1. CASE Leave(r, "threw") /\ UNCHANGED <<objects, kind, posted, faults>>
    BY <1>7, <2>1, LeaveType DEF PostSetupObject, TypeOK
  <2>2. CASE /\ objects' = objects \cup {o}
             /\ posted' = [posted EXCEPT ![r][kind[r]] = o]
             /\ kind' = [kind EXCEPT ![r] = After(@)[1]]
             /\ Goto(r, After(kind[r])[2])
             /\ UNCHANGED <<result, faults>>
    <3>1. kind[r] \in Kinds
      BY DEF TypeOK
    <3>2. After(kind[r])[1] \in Kinds /\ After(kind[r])[2] \in {"location", "root", "codeRun"}
      BY <3>1 DEF After, Kinds
    <3>3. posted' \in [Runs -> [Kinds -> SetupObjects \cup {None}]]
      BY <2>0, <2>2 DEF TypeOK
    <3>4. objects' \in SUBSET SetupObjects /\ kind' \in [Runs -> Kinds]
      BY <2>0, <2>2, <3>2 DEF TypeOK
    <3>5. pc' \in [Runs -> {"idle", "user", "author", "root", "location", "object", "codeRun"}]
      BY <2>2, <3>2 DEF TypeOK
    <3> QED
      BY <1>7, <2>2, <3>3, <3>4, <3>5 DEF PostSetupObject, TypeOK
  <2>3. CASE objects' = objects \cup {o} /\ LoseAnswer(r) /\ UNCHANGED <<kind, posted>>
    BY <1>7, <2>0, <2>3, LoseAnswerType DEF PostSetupObject, TypeOK
  <2> QED
    BY <1>7, <2>1, <2>2, <2>3 DEF PostSetupObject
<1>8. ASSUME NEW r \in Runs, PostCodeRun(r) PROVE TypeOK'
  <2>1. posted[r] \in [Kinds -> SetupObjects]
    <3>1. \A k \in Kinds : posted[r][k] \in objects
      BY <1>8 DEF PostCodeRun, Stages, Stage, IsPosted, Done, Kinds
    <3> QED
      BY <3>1 DEF TypeOK
  <2>2. codeRuns' \in SUBSET [Kinds -> SetupObjects]
    BY <1>8, <2>1 DEF PostCodeRun, TypeOK
  <2>3. CASE Leave(r, "constructed") /\ UNCHANGED faults
    BY <1>8, <2>2, <2>3, LeaveType DEF PostCodeRun, TypeOK
  <2>4. CASE LoseAnswer(r)
    BY <1>8, <2>2, <2>4, LoseAnswerType DEF PostCodeRun, TypeOK
  <2> QED
    BY <1>8, <2>3, <2>4 DEF PostCodeRun
<1>9. ASSUME NEW r \in Runs, LoseRequest(r) PROVE TypeOK'
  BY <1>9, LoseAnswerType DEF LoseRequest, TypeOK
<1>10. CASE UNCHANGED vars
  BY <1>10 DEF vars, TypeOK
<1> QED
  BY <1>1, <1>2, <1>3, <1>4, <1>5, <1>6, <1>7, <1>8, <1>9, <1>10 DEF Next, Initialise

-----------------------------------------------------------------------------
(* What is registered stays registered.                                    *)

\* The registry loses no row.
LEMMA Growth ==
    ASSUME [Next]_vars
    PROVE  /\ storageRoots \subseteq storageRoots' /\ objects \subseteq objects'
           /\ storageLocations \subseteq storageLocations'
<1>1. ASSUME NEW r \in Runs, PostSetupLocation(r) PROVE storageLocations \subseteq storageLocations'
  BY <1>1 DEF PostSetupLocation, LocationsAfterPost, SameRoot
<1> QED
  BY <1>1 DEF Next, Initialise, vars, EditFile, Construct, GetUser, GetAuthor, PostStorageRoot,
     PostSetupLocation, PostSetupObject, PostCodeRun, LoseRequest

\* A step of another run, or of the files, leaves run r's locals alone.
LEMMA Apart ==
    ASSUME TypeOK, [Next]_vars, NEW r \in Runs,
           ~ (\/ Construct(r) \/ Initialise(r) \/ LoseRequest(r))
    PROVE  /\ pc'[r] = pc[r] /\ kind'[r] = kind[r] /\ config'[r] = config[r]
           /\ location'[r] = location[r] /\ posted'[r] = posted[r] /\ result'[r] = result[r]
           /\ (pc[r] = "idle" \/ ~ touched'[r]) => touched'[r] = touched[r]
           /\ pc[r] # "idle" /\ ~ touched'[r] => content'[ConfigFile[r]] = content[ConfigFile[r]]
<1>1. ASSUME NEW f \in Files, NEW c \in Contents \cup {None}, EditFile(f, c)
      PROVE  /\ UNCHANGED <<pc, locals, result>>
             /\ (pc[r] = "idle" \/ ~ touched'[r]) => touched'[r] = touched[r]
             /\ pc[r] # "idle" /\ ~ touched'[r] => content'[ConfigFile[r]] = content[ConfigFile[r]]
  BY <1>1, RunsAssumption DEF EditFile, TypeOK
<1>2. ASSUME NEW q \in Runs, q # r, Construct(q) \/ Initialise(q) \/ LoseRequest(q)
      PROVE  /\ pc'[r] = pc[r] /\ kind'[r] = kind[r] /\ config'[r] = config[r]
             /\ location'[r] = location[r] /\ posted'[r] = posted[r] /\ result'[r] = result[r]
             /\ touched'[r] = touched[r] /\ content' = content
  <2>1. CASE Construct(q)
    BY <1>2, <2>1 DEF Construct, Leave, TypeOK
  <2>2. CASE GetUser(q) \/ GetAuthor(q) \/ PostCodeRun(q) \/ LoseRequest(q) \/ PostStorageRoot(q)
    BY <1>2, <2>2 DEF GetUser, GetAuthor, PostCodeRun, LoseRequest, PostStorageRoot, LoseAnswer,
       Leave, TypeOK
  <2>3. CASE PostSetupLocation(q)
    BY <1>2, <2>3 DEF PostSetupLocation, LoseAnswer, Leave, TypeOK
  <2>4. CASE PostSetupObject(q)
    BY <1>2, <2>4 DEF PostSetupObject, LoseAnswer, Leave, TypeOK
  <2> QED
    BY <1>2, <2>1, <2>2, <2>3, <2>4 DEF Initialise
<1>3. CASE UNCHANGED vars
  BY <1>3 DEF vars
<1> QED
  BY <1>1, <1>2, <1>3 DEF Next

\* A located row stays located.
LEMMA StaysLocated ==
    ASSUME [Next]_vars
    PROVE  /\ \A r, k, l : Located(r, k, l) => Located(r, k, l)'
           /\ \A root : Rooted(root) => Rooted(root)'
  BY Growth DEF Located, Rooted, PathOf

-----------------------------------------------------------------------------
(* The inductive invariant.                                                *)

\* The invariant holds at the start.
LEMMA InitInv ==
    Init => IInv
  BY SetupBounds, RunsAssumption
     DEF Init, IInv, TypeOK, Stages, Stage, ObjectsLocated, CodeRunsComplete, Unedited, LeftAlone,
         ConfigAsUsed, AsUsed, NoObjects, Kinds

\* What PostSetupLocation computes for run r names what r registers.
LEMMA PostedLocated ==
    ASSUME IInv, NEW r \in Runs, PostSetupLocation(r), pc'[r] = "object"
    PROVE  /\ kind'[r] = kind[r] /\ config'[r] = config[r] /\ result'[r] = result[r]
           /\ posted' = posted
           /\ location'[r] = None => LocationRequired
           /\ location'[r] # None => Located(r, kind[r], location[r])'
           /\ location'[r] # None => location'[r] = SetupLocation(r)
<1> DEFINE l == SetupLocation(r)
<1>1. pc[r] = "location" /\ TypeOK /\ Stages
  BY DEF PostSetupLocation, IInv
<1>2. /\ location'[r] = PostedLocation(SameRoot(l), l) /\ l.hash # None
      /\ storageLocations' = storageLocations \cup LocationsAfterPost(SameRoot(l), l)
      /\ UNCHANGED <<result, kind, config, posted, storageRoots>>
  BY <1>1 DEF PostSetupLocation, Leave, LoseAnswer, TypeOK
<1>3. l.path.of = PathOf(r, kind[r]) /\ l.root = RootOf(r)
  BY <1>1 DEF SetupLocation, FileOf, PathOf, RootOf, PathUnder, TypeOK, Kinds
<1>4. \E row \in storageRoots' : row.root = l.root
  BY <1>1, <1>2, <1>3 DEF Stages, Stage, Rooted
<1>5. location'[r] = None => LocationRequired
  <2>1. SUFFICES ASSUME location'[r] = None PROVE LocationRequired
    OBVIOUS
  <2>2. l \in Locations
    BY <1>1, <1>2, LocationType
  <2>3. CASE UniqueHash
    BY <2>3, FlagsAssumption, LocationAssumption
  <2>4. CASE ~ UniqueHash
    <3>1. ~ (LocationConflict(SameRoot(l), l) /\ l \notin SameRoot(l))
      <4>1. \A k \in Locations :
               k.root = l.root /\ k.hash = l.hash /\ k.public = l.public /\ k.path = l.path => k = l
        BY <2>2 DEF Locations
      <4>2. \A k \in SameRoot(l) : k \in Locations \cup OtherLocations /\ k.root = l.root
        BY <1>1 DEF SameRoot, TypeOK
      <4>3. l.path \in RegisteredPaths
        BY <2>2 DEF Locations
      <4> QED
        BY <2>4, <4>1, <4>2, <4>3, OthersAssumption DEF LocationConflict
    <3>2. l = None
      BY <1>2, <2>1, <3>1 DEF PostedLocation
    <3> QED
      BY <2>2, <3>2, NoneAssumption
  <2> QED
    BY <2>3, <2>4
<1>6. location'[r] # None => location'[r] = l /\ l \in storageLocations'
  BY <1>2 DEF PostedLocation, LocationsAfterPost, SameRoot
<1>7. location'[r] # None => Located(r, kind[r], location[r])'
  <2>1. location'[r] # None => Located(r, kind[r], location[r])'
    BY <1>2, <1>3, <1>4, <1>6 DEF Located, PathOf, Rooted
  <2> QED
    BY <2>1
<1> QED
  BY <1>2, <1>5, <1>6, <1>7

\* The parts of the invariant that are about run r survive a step that is
\* not r's.
LEMMA OthersStep ==
    ASSUME IInv, [Next]_vars, NEW r \in Runs,
           ~ (\/ Construct(r) \/ Initialise(r) \/ LoseRequest(r))
    PROVE  Stage(r)' /\ LeftAlone(r)' /\ AsUsed(r)'
<1>1. /\ pc'[r] = pc[r] /\ kind'[r] = kind[r] /\ config'[r] = config[r]
      /\ location'[r] = location[r] /\ posted'[r] = posted[r] /\ result'[r] = result[r]
      /\ (pc[r] = "idle" \/ ~ touched'[r]) => touched'[r] = touched[r]
      /\ pc[r] # "idle" /\ ~ touched'[r] => content'[ConfigFile[r]] = content[ConfigFile[r]]
  BY Apart DEF IInv
<1>2. Stage(r) /\ LeftAlone(r) /\ AsUsed(r)
  BY DEF IInv, Stages, Unedited, ConfigAsUsed
<1>3. Stage(r)'
  <2>1. RootOf(r)' = RootOf(r)
    BY <1>1 DEF RootOf
  <2>2. Rooted(RootOf(r)) => Rooted(RootOf(r))'
    BY <2>1, Growth DEF Rooted
  <2>3. Located(r, kind[r], location[r]) => Located(r, kind[r], location[r])'
    BY <1>1, Growth DEF Located, Rooted, PathOf
  <2>4. \A k \in Kinds : IsPosted(r, k) => IsPosted(r, k)'
    BY <1>1, Growth DEF IsPosted
  <2>5. Done(kind[r])' = Done(kind[r]) /\ Done(kind[r]) \subseteq Kinds /\ "repo" \in Kinds
    BY <1>1 DEF Done, Kinds, IInv, TypeOK
  <2> QED
    BY <1>1, <1>2, <2>2, <2>3, <2>4, <2>5 DEF Stage
<1>4. LeftAlone(r)'
  BY <1>1, <1>2 DEF LeftAlone, UsedConfig, UsedRepo
<1>5. AsUsed(r)'
  <2>1. codeRuns \subseteq codeRuns'
    BY DEF Next, Initialise, vars, EditFile, Construct, GetUser, GetAuthor, PostStorageRoot,
       PostSetupLocation, PostSetupObject, PostCodeRun, LoseRequest
  <2>2. AsConfigured(posted[r])' = AsConfigured(posted[r])
    BY <1>1 DEF AsConfigured
  <2>3. result[r] = "constructed" => pc[r] = "idle"
    BY <1>2 DEF Stage
  <2> QED
    BY <1>1, <1>2, <2>1, <2>2, <2>3 DEF AsUsed
<1> QED
  BY <1>3, <1>4, <1>5

\* They also survive the constructor's own steps.
LEMMA OwnStep ==
    ASSUME IInv, NEW r \in Runs, [Next]_vars, Construct(r) \/ Initialise(r) \/ LoseRequest(r)
    PROVE  Stage(r)' /\ LeftAlone(r)' /\ AsUsed(r)'
<1>0. TypeOK /\ Stage(r) /\ LeftAlone(r) /\ AsUsed(r)
  BY DEF IInv, Stages, Unedited, ConfigAsUsed
<1>1. ASSUME pc'[r] = "idle", result'[r] # "constructed"
      PROVE  Stage(r)' /\ LeftAlone(r)' /\ AsUsed(r)'
  BY <1>1 DEF Stage, LeftAlone, AsUsed
<1>2. ASSUME NEW how \in {"threw", "userNotFound"}, Leave(r, how)
      PROVE  Stage(r)' /\ LeftAlone(r)' /\ AsUsed(r)'
  BY <1>0, <1>1, <1>2 DEF Leave, TypeOK
<1>3. ASSUME LoseAnswer(r) PROVE Stage(r)' /\ LeftAlone(r)' /\ AsUsed(r)'
  BY <1>2, <1>3 DEF LoseAnswer
<1>4. CASE Construct(r)
  <2>1. CASE content[ConfigFile[r]] \in Valid /\ content[ScriptFile[r]] # None
    <3>1. /\ pc'[r] = "user" /\ result'[r] = "none" /\ kind'[r] = "config"
          /\ config'[r] = content[ConfigFile[r]] /\ content' = content
      BY <1>0, <1>4, <2>1 DEF Construct, TypeOK
    <3>2. Done(kind[r])' = {}
      BY <3>1 DEF Done
    <3> QED
      BY <2>1, <3>1, <3>2 DEF Stage, LeftAlone, AsUsed
  <2>2. CASE ~ (content[ConfigFile[r]] \in Valid /\ content[ScriptFile[r]] # None)
    BY <1>2, <1>4, <2>2 DEF Construct
  <2> QED
    BY <2>1, <2>2
<1>5. CASE GetUser(r)
  <2>1. CASE Goto(r, "author") /\ UNCHANGED result
    BY <1>0, <1>5, <2>1 DEF GetUser, Stage, LeftAlone, AsUsed, TypeOK, Done
  <2> QED
    BY <1>2, <1>5, <2>1 DEF GetUser
<1>6. CASE GetAuthor(r)
  <2>1. CASE Goto(r, "root") /\ UNCHANGED result
    BY <1>0, <1>6, <2>1 DEF GetAuthor, Stage, LeftAlone, AsUsed, TypeOK, Done
  <2> QED
    BY <1>2, <1>6, <2>1 DEF GetAuthor
<1>7. CASE PostStorageRoot(r)
  <2>1. CASE Goto(r, "location") /\ UNCHANGED <<result, faults>>
    <3>1. /\ pc[r] = "root" /\ pc'[r] = "location"
          /\ UNCHANGED <<locals, objects, touched, content>>
          /\ result' = result
      BY <1>0, <1>7, <2>1 DEF PostStorageRoot, TypeOK
    <3>2. Rooted(RootOf(r))'
      <4>1. RootOf(r)' = RootOf(r)
        BY <3>1 DEF RootOf
      <4>2. [root |-> RootOf(r), local |-> kind[r] # "repo"] \in storageRoots'
        BY <1>7 DEF PostStorageRoot
      <4> QED
        BY <4>1, <4>2 DEF Rooted
    <3>3. \A k \in Done(kind[r]) : IsPosted(r, k)'
      BY <1>0, <3>1 DEF Stage, IsPosted
    <3>4. Done(kind[r])' = Done(kind[r])
      BY <3>1 DEF Done
    <3>5. Stage(r)'
      BY <1>0, <3>1, <3>2, <3>3, <3>4 DEF Stage
    <3>6. LeftAlone(r)' /\ AsUsed(r)'
      BY <1>0, <3>1 DEF Stage, LeftAlone, AsUsed, UsedConfig
    <3> QED
      BY <3>5, <3>6
  <2> QED
    BY <1>3, <1>7, <2>1 DEF PostStorageRoot
<1>8. CASE PostSetupLocation(r)
  <2> DEFINE l == SetupLocation(r)
  <2>1. CASE pc'[r] = "object"
    <3>1. /\ kind'[r] = kind[r] /\ config'[r] = config[r] /\ result'[r] = result[r]
          /\ posted' = posted
          /\ location'[r] = None => LocationRequired
          /\ location'[r] # None => Located(r, kind[r], location[r])'
          /\ location'[r] # None => location'[r] = l
      BY <1>8, <2>1, PostedLocated
    <3>2. /\ pc[r] = "location"
          /\ UNCHANGED <<objects, storageRoots, touched, content>>
      BY <1>8 DEF PostSetupLocation
    <3>3. Rooted(RootOf(r))'
      BY <1>0, <3>1, <3>2 DEF Stage, Rooted, RootOf
    <3>4. \A k \in Done(kind[r]) : IsPosted(r, k)'
      BY <1>0, <3>1, <3>2 DEF Stage, IsPosted
    <3>5. Done(kind[r])' = Done(kind[r])
      BY <3>1 DEF Done
    <3>6. Stage(r)'
      BY <1>0, <2>1, <3>1, <3>2, <3>3, <3>4, <3>5 DEF Stage
    <3>7. ~ touched[r] /\ kind[r] = "config" => UsedConfig(r, l)
      BY <1>0, <3>2 DEF LeftAlone, UsedConfig, SetupLocation, FileOf, RootOf
    <3>8. kind[r] = "repo" => UsedRepo(r, l)
      BY DEF UsedRepo, SetupLocation
    <3>9. location'[r] # None /\ ~ touched'[r] =>
             /\ kind'[r] = "config" => UsedConfig(r, location[r])'
             /\ kind'[r] = "repo" => UsedRepo(r, location[r])'
      BY <3>1, <3>2, <3>7, <3>8 DEF UsedConfig, UsedRepo
    <3>10. LeftAlone(r)'
      BY <1>0, <2>1, <3>1, <3>2, <3>9 DEF LeftAlone, UsedConfig
    <3>11. AsUsed(r)'
      BY <1>0, <3>1, <3>2 DEF Stage, AsUsed
    <3> QED
      BY <3>6, <3>10, <3>11
  <2>2. CASE pc'[r] # "object"
    <3>1. Leave(r, "threw")
      BY <1>0, <1>8, <2>2 DEF PostSetupLocation, LoseAnswer, TypeOK
    <3> QED
      BY <1>2, <3>1
  <2> QED
    BY <2>1, <2>2
<1>9. CASE PostSetupObject(r)
  <2> DEFINE o == [run |-> r, kind |-> kind[r], location |-> location[r]]
  <2>1. CASE /\ LocationRequired => o.location # None
             /\ objects' = objects \cup {o}
             /\ posted' = [posted EXCEPT ![r][kind[r]] = o]
             /\ kind' = [kind EXCEPT ![r] = After(@)[1]]
             /\ Goto(r, After(kind[r])[2])
             /\ UNCHANGED <<result, faults>>
    <3>1. /\ pc[r] = "object" /\ location[r] # None
          /\ UNCHANGED <<config, content, touched, storageRoots, storageLocations>>
      BY <1>0, <1>9, <2>1 DEF PostSetupObject, Stage
    <3>2. /\ kind'[r] = After(kind[r])[1] /\ pc'[r] = After(kind[r])[2]
          /\ posted'[r] = [posted[r] EXCEPT ![kind[r]] = o] /\ result' = result
          /\ posted[r] \in [Kinds -> SetupObjects \cup {None}] /\ kind[r] \in Kinds
      BY <1>0, <2>1 DEF TypeOK
    <3>3. IsPosted(r, kind[r])'  <=>  posted'[r][kind'[r]] \in objects'
                                     /\ posted'[r][kind'[r]].kind = kind'[r]
                                     /\ posted'[r][kind'[r]].run = r
      BY DEF IsPosted
    <3>4. \A k \in Done(kind[r]) \cup {kind[r]} :
              posted'[r][k] \in objects' /\ posted'[r][k].kind = k /\ posted'[r][k].run = r
      BY <1>0, <2>1, <3>1, <3>2 DEF Stage, IsPosted, Done, Kinds
    <3>5. Done(kind[r])' \subseteq Done(kind[r]) \cup {kind[r]}
      BY <3>2 DEF Done, After, Kinds
    <3>6. Stage(r)'
      <4>1. CASE kind[r] = "config"
        <5>1. kind'[r] = "script" /\ pc'[r] = "location"
          BY <3>2, <4>1 DEF After
        <5>2. Rooted(RootOf(r))'
          BY <1>0, <3>1, <4>1, <5>1 DEF Stage, Rooted, RootOf
        <5> QED
          BY <1>0, <3>1, <3>2, <3>4, <3>5, <5>1, <5>2 DEF Stage, IsPosted
      <4>2. CASE kind[r] = "script"
        <5>1. kind'[r] = "repo" /\ pc'[r] = "root"
          BY <3>2, <4>2 DEF After
        <5> QED
          BY <1>0, <3>1, <3>2, <3>4, <3>5, <5>1 DEF Stage, IsPosted
      <4>3. CASE kind[r] = "repo"
        <5>1. kind'[r] = "repo" /\ pc'[r] = "codeRun"
          BY <3>2, <4>3 DEF After
        <5> QED
          BY <1>0, <3>1, <3>2, <3>4, <3>5, <4>3, <5>1 DEF Stage, IsPosted
      <4> QED
        BY <3>2, <4>1, <4>2, <4>3 DEF Kinds
    <3>7. LeftAlone(r)'
      <4>1. CASE kind[r] = "config"
        <5>1. /\ kind'[r] = "script" /\ pc'[r] = "location"
              /\ posted'[r]["config"].location = location[r]
          BY <3>2, <4>1 DEF After
        <5> QED
          BY <1>0, <3>1, <4>1, <5>1 DEF LeftAlone, UsedConfig
      <4>2. CASE kind[r] = "script"
        <5>1. /\ kind'[r] = "repo" /\ pc'[r] = "root"
              /\ posted'[r]["config"].location = posted[r]["config"].location
          BY <3>2, <4>2 DEF After
        <5> QED
          BY <1>0, <3>1, <4>2, <5>1 DEF LeftAlone, UsedConfig
      <4>3. CASE kind[r] = "repo"
        <5>1. /\ kind'[r] = "repo" /\ pc'[r] = "codeRun"
              /\ posted'[r]["config"].location = posted[r]["config"].location
              /\ posted'[r]["repo"].location = location[r]
          BY <3>2, <4>3 DEF After
        <5> QED
          BY <1>0, <3>1, <4>3, <5>1 DEF LeftAlone, UsedConfig, UsedRepo
      <4> QED
        BY <3>2, <4>1, <4>2, <4>3 DEF Kinds
    <3>8. AsUsed(r)'
      BY <1>0, <3>1, <3>2 DEF Stage, AsUsed
    <3> QED
      BY <3>6, <3>7, <3>8
  <2> QED
    BY <1>2, <1>3, <1>9, <2>1 DEF PostSetupObject
<1>10. CASE PostCodeRun(r)
  <2>1. CASE Leave(r, "constructed")
    <3>1. /\ pc'[r] = "idle" /\ pc[r] = "codeRun"
          /\ UNCHANGED <<posted, config, touched>> /\ codeRuns' = codeRuns \cup {posted[r]}
      BY <1>0, <1>10, <2>1 DEF PostCodeRun, Leave, TypeOK
    <3>2. ~ touched[r] => AsConfigured(posted[r])
      BY <1>0, <3>1 DEF Stage, LeftAlone, UsedConfig, UsedRepo, AsConfigured
    <3> QED
      BY <3>1, <3>2 DEF Stage, LeftAlone, AsUsed, AsConfigured
  <2> QED
    BY <1>3, <1>10, <2>1 DEF PostCodeRun
<1>11. CASE LoseRequest(r)
  BY <1>3, <1>11 DEF LoseRequest
<1> QED
  BY <1>4, <1>5, <1>6, <1>7, <1>8, <1>9, <1>10, <1>11 DEF Initialise

\* Every object that is posted has a registered location.
LEMMA NextObjects ==
    ASSUME IInv, [Next]_vars
    PROVE  ObjectsLocated'
<1>1. ASSUME NEW o \in objects PROVE Located(o.run, o.kind, o.location)'
  BY <1>1, StaysLocated DEF IInv, ObjectsLocated
<1>2. ASSUME NEW r \in Runs, PostSetupObject(r), NEW o \in objects' \ objects
      PROVE  Located(o.run, o.kind, o.location)'
  <2>1. /\ o = [run |-> r, kind |-> kind[r], location |-> location[r]]
        /\ LocationRequired => o.location # None /\ pc[r] = "object"
    BY <1>2 DEF PostSetupObject
  <2>2. Located(o.run, o.kind, o.location)
    BY <1>2, <2>1 DEF IInv, Stages, Stage, PostSetupObject
  <2> QED
    BY <2>2, StaysLocated
<1>3. (\E r \in Runs : PostSetupObject(r)) \/ objects' = objects
  BY DEF Next, Initialise, vars, EditFile, Construct, GetUser, GetAuthor, PostStorageRoot,
     PostSetupLocation, PostCodeRun, LoseRequest
<1> QED
  BY <1>1, <1>2, <1>3 DEF ObjectsLocated

\* Every code run that is posted is complete.
LEMMA NextCodeRuns ==
    ASSUME IInv, [Next]_vars
    PROVE  CodeRunsComplete'
<1>1. ASSUME NEW c \in codeRuns, NEW k \in Kinds
      PROVE  /\ c[k] \in objects' /\ c[k].kind = k
             /\ \A j \in Kinds : c[j] \in objects' /\ c[j].run = c[k].run
             /\ Located(c[k].run, k, c[k].location)'
  BY <1>1, Growth, StaysLocated DEF IInv, CodeRunsComplete
<1>2. ASSUME NEW r \in Runs, PostCodeRun(r), NEW c, c = posted[r], NEW k \in Kinds
      PROVE  /\ c[k] \in objects' /\ c[k].kind = k
             /\ \A j \in Kinds : c[j] \in objects' /\ c[j].run = c[k].run
             /\ Located(c[k].run, k, c[k].location)'
  <2>1. \A j \in Kinds : c[j] \in objects /\ c[j].kind = j /\ c[j].run = r
    BY <1>2 DEF IInv, Stages, Stage, PostCodeRun, Done, Kinds, IsPosted
  <2>2. Located(c[k].run, k, c[k].location)
    BY <2>1 DEF IInv, ObjectsLocated
  <2>3. Located(c[k].run, k, c[k].location)'
    BY <2>2, StaysLocated
  <2> QED
    BY <2>1, <2>3, Growth
<1>3. (\E r \in Runs : PostCodeRun(r)) \/ codeRuns' = codeRuns
  BY DEF Next, Initialise, vars, EditFile, Construct, GetUser, GetAuthor, PostStorageRoot,
     PostSetupLocation, PostSetupObject, LoseRequest
<1>4. \A r \in Runs : PostCodeRun(r) => codeRuns' = codeRuns \cup {posted[r]}
  BY DEF PostCodeRun
<1>5. \A c \in codeRuns' : \A k \in Kinds :
         /\ c[k] \in objects' /\ c[k].kind = k
         /\ \A j \in Kinds : c[j] \in objects' /\ c[j].run = c[k].run
         /\ Located(c[k].run, k, c[k].location)'
  BY <1>1, <1>2, <1>3, <1>4
<1> QED
  BY <1>5 DEF CodeRunsComplete

\* Every step keeps the invariant.
LEMMA NextInv ==
    IInv /\ [Next]_vars => IInv'
<1> SUFFICES ASSUME IInv, [Next]_vars PROVE IInv'
  OBVIOUS
<1>1. TypeOK'
  BY NextType DEF IInv
<1>2. \A r \in Runs : Stage(r)' /\ LeftAlone(r)' /\ AsUsed(r)'
  BY OwnStep, OthersStep
<1>3. ObjectsLocated' /\ CodeRunsComplete'
  BY NextObjects, NextCodeRuns
<1> QED
  BY <1>1, <1>2, <1>3 DEF IInv, Stages, Unedited, ConfigAsUsed

-----------------------------------------------------------------------------
(* The theorems.                                                           *)

\* In every behaviour, however many runs are constructed and whatever fails,
\* the types hold and what is registered is registered after what it names
\* (config.cxx:190-368).
THEOREM Invariance ==
    Spec => []IInv
<1>1. Init => IInv
  BY InitInv
<1>2. IInv /\ [Next]_vars => IInv'
  BY NextInv
<1> QED
  BY <1>1, <1>2, PTL DEF Spec

\* Every variable of the runs and the registry has its type, whatever fails
\* (config.cxx:190-368).
THEOREM TypeCorrect ==
    Spec => []TypeOK
<1>1. IInv => TypeOK
  BY DEF IInv
<1> QED
  BY <1>1, Invariance, PTL

\* A code run in the registry has a configuration, a script and a repository
\* object of its run, each with a registered location under a registered
\* root: no failure, retry or other run leaves a code run that cannot be
\* traced to what was run (config.cxx:350-361).
THEOREM Complete ==
    Spec => []CodeRunsComplete
<1>1. IInv => CodeRunsComplete
  BY DEF IInv
<1> QED
  BY <1>1, Invariance, PTL

\* A constructor that returns, and whose configuration file was not edited
\* while it ran, has registered the configuration it parsed, with the store
\* and the commit that configuration names (config.cxx:96-361).
THEOREM Used ==
    Spec => []ConfigAsUsed
<1>1. IInv => ConfigAsUsed
  BY DEF IInv
<1> QED
  BY <1>1, Invariance, PTL

-----------------------------------------------------------------------------
(* While other runs finalise.                                              *)

\* What a finalise() changes of what initialise() sees: it adds locations of
\* its own, and a call of its may fail.
FinaliserActs ==
    /\ storageLocations \subseteq storageLocations'
    /\ storageLocations' \ storageLocations \subseteq OtherLocations
    /\ faults' \in 0 .. MaxFaults
    /\ UNCHANGED <<fairInit, storageRoots, objects, codeRuns, content, pc, locals, history,
                   result>>

\* The invariant survives it.
LEMMA FinaliserKeeps ==
    ASSUME IInv, FinaliserActs
    PROVE  IInv'
<1> USE DEF FinaliserActs
<1>1. TypeOK'
  BY DEF IInv, TypeOK
<1>2. /\ \A r, k, l : Located(r, k, l) => Located(r, k, l)'
      /\ \A root : Rooted(root) => Rooted(root)'
  BY DEF Located, Rooted, PathOf
<1>3. ASSUME NEW r \in Runs PROVE Stage(r)' /\ LeftAlone(r)' /\ AsUsed(r)'
  <2>1. Stage(r) /\ LeftAlone(r) /\ AsUsed(r)
    BY DEF IInv, Stages, Unedited, ConfigAsUsed
  <2>2. RootOf(r)' = RootOf(r)
    BY DEF RootOf
  <2>3. Stage(r)'
    BY <1>2, <2>1, <2>2 DEF Stage, IsPosted
  <2>4. LeftAlone(r)' /\ AsUsed(r)'
    BY <2>1 DEF LeftAlone, AsUsed, UsedConfig, UsedRepo, AsConfigured
  <2> QED
    BY <2>3, <2>4
<1>4. ObjectsLocated'
  BY <1>2 DEF IInv, ObjectsLocated
<1>5. CodeRunsComplete'
  BY <1>2 DEF IInv, CodeRunsComplete
<1> QED
  BY <1>1, <1>3, <1>4, <1>5 DEF IInv, Stages, Unedited, ConfigAsUsed

\* A constructor that has returned is not called again, and what it posted
\* stays what it was.
LEMMA StaysConstructed ==
    ASSUME IInv, [Next]_vars, NEW r \in Runs, result[r] = "constructed"
    PROVE  result'[r] = "constructed" /\ posted'[r] = posted[r]
<1>1. pc[r] = "idle"
  BY DEF IInv, Stages, Stage
<1>2. ~ (Construct(r) \/ Initialise(r) \/ LoseRequest(r))
  BY <1>1 DEF Construct, Initialise, GetUser, GetAuthor, PostStorageRoot, PostSetupLocation,
              PostSetupObject, PostCodeRun, LoseRequest
<1> QED
  BY <1>2, Apart DEF IInv

\* initialise() posts locations of the run's own files under its data store,
\* by their hash, and of the repository.
LEMMA RowsOfFiles ==
    ASSUME IInv, NEW r \in Runs, Initialise(r), NEW l \in storageLocations' \ storageLocations
    PROVE  \/ l.root = GitHub
           \/ \E f \in Files, c \in Contents :
                 /\ l.root = WriteStore[c]
                 /\ l.path = PathUnder(l.root, f) /\ l.hash \in Contents /\ l.public = TRUE
<1>1. PostSetupLocation(r)
  BY DEF Initialise, GetUser, GetAuthor, PostStorageRoot, PostSetupObject, PostCodeRun
<1>2. l = SetupLocation(r) /\ l.hash # None
  BY <1>1 DEF PostSetupLocation, LocationsAfterPost, SameRoot
<1>3. CASE kind[r] = "repo"
  BY <1>2, <1>3 DEF SetupLocation
<1>4. CASE kind[r] # "repo"
  <2>1. FileOf(r) \in Files /\ config[r] \in Contents
    BY <1>1, RunsAssumption, RootType DEF FileOf, PostSetupLocation, IInv
  <2>2. /\ l.root = WriteStore[config[r]] /\ l.path = PathUnder(l.root, FileOf(r))
        /\ l.hash = content[FileOf(r)] /\ l.public = TRUE
    BY <1>2, <1>4 DEF SetupLocation, RootOf
  <2>3. l.hash \in Contents
    BY <1>2, <2>1, <2>2 DEF IInv, TypeOK
  <2> QED
    BY <2>1, <2>2, <2>3
<1> QED
  BY <1>3, <1>4
=============================================================================
