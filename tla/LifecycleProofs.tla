-------------------------- MODULE LifecycleProofs ---------------------------
(***************************************************************************)
(* What whole runs guarantee, for any number of runs, files, products and  *)
(* failed calls: what Setup and Pipeline guarantee each by itself, over    *)
(* the one registry that they share.                                       *)
(*                                                                         *)
(* C and F are the two modules with their proofs, as Lifecycle puts them   *)
(* together.  A step of a constructor is a step of C, and to F it is one   *)
(* of the steps that its invariant survives (ConstructorActs); a step of a *)
(* finalise() is one of F, and to C one of FinaliserActs.                  *)
(***************************************************************************)
EXTENDS Lifecycle, TLAPS

C == INSTANCE SetupProofs WITH
         OtherLocations <- FinalisedLocations, Contents <- SetupContents,
         MaxEdits <- 0, WriteStore <- [c \in SetupContents |-> Store],
         storageLocations <- rootedLocations, objects <- setupObjects, codeRuns <- codeRunRows,
         pc <- setupPc, location <- setupLocation, result <- setupResult

F == INSTANCE PipelineProofs WITH SetupLocations <- {}

\* No run writes a file with the content of a configuration or a script.
SetupApart == SetupContents \cap Contents = {}

-----------------------------------------------------------------------------
(* The components, and the same with their proofs.                         *)

\* The assumptions of the constructor hold of what it is given.
LEMMA ForConstructor ==
    /\ C!FlagsAssumption /\ C!LocationAssumption /\ C!RunsAssumption /\ C!PathsAssumption
    /\ C!SetupBounds /\ C!NoneAssumption /\ C!OthersAssumption
BY ConstructorAssumption
   DEF Constructor!FlagsAssumption, C!FlagsAssumption, Constructor!LocationAssumption,
   C!LocationAssumption, Constructor!RunsAssumption, C!RunsAssumption,
   Constructor!PathsAssumption, C!PathsAssumption, Constructor!SetupBounds, C!SetupBounds,
   Constructor!NoneAssumption, C!NoneAssumption, Constructor!OthersAssumption,
   C!OthersAssumption, Constructor!RegisteredPaths, C!RegisteredPaths, Constructor!Locations,
   C!Locations

\* So do those of the finaliser.
LEMMA ForFinaliser ==
    /\ F!FlagsAssumption /\ F!LocationAssumption /\ F!ProductsAssumption /\ F!SetupAssumption
    /\ F!NoneAssumption /\ F!ConfigAssumption /\ F!BoundsAssumption /\ F!MapsAssumption
BY ConstructorAssumption, FinaliserAssumption
   DEF Constructor!FlagsAssumption, F!FlagsAssumption, Constructor!LocationAssumption,
   F!LocationAssumption, Finaliser!ProductsAssumption, F!ProductsAssumption,
   Finaliser!SetupAssumption, F!SetupAssumption, Finaliser!NoneAssumption, F!NoneAssumption,
   Finaliser!ConfigAssumption, F!ConfigAssumption, Finaliser!BoundsAssumption,
   F!BoundsAssumption, Finaliser!MapsAssumption, F!MapsAssumption, Finaliser!StorePaths,
   F!StorePaths, Finaliser!Paths, F!Paths, Finaliser!Hashes, F!Hashes,
   Finaliser!StorageLocations, F!StorageLocations, Finaliser!Objects, F!Objects, Finaliser!Keys,
   F!Keys, Finaliser!WriteEntries, F!WriteEntries, Finaliser!ReadEntries, F!ReadEntries,
   Finaliser!TempPaths, F!TempPaths, Finaliser!Writes, F!Writes, Finaliser!Reads, F!Reads,
   Finaliser!Outputs, F!Outputs

\* The initial states are theirs.
LEMMA SameInit ==
    Init => C!Init /\ F!Init
<1>1. Init => C!Init
  BY DEF Init, Constructor!Init, C!Init, Constructor!NoObjects, C!NoObjects, Constructor!Kinds,
  C!Kinds
<1>2. Init => F!Init
  BY DEF Init, Finaliser!Init, F!Init, Finaliser!Nothing, F!Nothing, Finaliser!StorePaths,
  F!StorePaths, Finaliser!Paths, F!Paths, Finaliser!Keys, F!Keys, Finaliser!TempPaths,
  F!TempPaths
<1> QED
  BY <1>1, <1>2

\* The steps of a constructor are C's.
LEMMA SameConstructor ==
    ASSUME NEW r \in Runs
    PROVE  /\ Constructor!Construct(r) => C!Construct(r)
           /\ Constructor!LoseRequest(r) => C!LoseRequest(r)
           /\ Constructor!Initialise(r) => C!Initialise(r)
<1>1. Constructor!Construct(r) => C!Construct(r)
  BY DEF Constructor!Construct, C!Construct, Constructor!Leave, C!Leave, Constructor!NoObjects,
  C!NoObjects, Constructor!Kinds, C!Kinds, Constructor!Goto, C!Goto, Constructor!registry,
  C!registry, Constructor!locals, C!locals, Constructor!history, C!history
<1>2. Constructor!LoseRequest(r) => C!LoseRequest(r)
  BY DEF Constructor!LoseRequest, C!LoseRequest, Constructor!LoseAnswer, C!LoseAnswer,
  Constructor!Leave, C!Leave, Constructor!Goto, C!Goto, Constructor!registry, C!registry,
  Constructor!locals, C!locals, Constructor!history, C!history
<1>3. Constructor!Initialise(r) => C!Initialise(r)
  BY DEF Constructor!Initialise, C!Initialise, Constructor!GetUser, C!GetUser,
  Constructor!GetAuthor, C!GetAuthor, Constructor!PostStorageRoot, C!PostStorageRoot,
  Constructor!PostSetupLocation, C!PostSetupLocation, Constructor!PostSetupObject,
  C!PostSetupObject, Constructor!PostCodeRun, C!PostCodeRun, Constructor!LoseAnswer,
  C!LoseAnswer, Constructor!Leave, C!Leave, Constructor!RootOf, C!RootOf, Constructor!FileOf,
  C!FileOf, Constructor!PathUnder, C!PathUnder, Constructor!SetupLocation, C!SetupLocation,
  Constructor!SameRoot, C!SameRoot, Constructor!LocationsAfterPost, C!LocationsAfterPost,
  Constructor!PostedLocation, C!PostedLocation, Constructor!LocationConflict,
  C!LocationConflict, Constructor!After, C!After, Constructor!Goto, C!Goto,
  Constructor!registry, C!registry, Constructor!locals, C!locals, Constructor!history, C!history
<1> QED
  BY <1>1, <1>2, <1>3

\* The steps of a finalise() are F's.
LEMMA SameFinaliser ==
    ASSUME NEW r \in Runs
    PROVE  Finaliser!CallUser(r) \/ Finaliser!StepFinalise(r) \/ Finaliser!LoseRequest(r)
               => F!Acts(r)
<1>1. Finaliser!CallUser(r) => F!CallUser(r)
  BY DEF Finaliser!CallUser, F!CallUser, Finaliser!LinkWrite, F!LinkWrite,
  Finaliser!LinkReadCached, F!LinkReadCached, Finaliser!LinkReadQueried, F!LinkReadQueried,
  Finaliser!UserWrite, F!UserWrite, Finaliser!Finalise, F!Finalise, Finaliser!NewWrite,
  F!NewWrite, Finaliser!QueriedObject, F!QueriedObject, Finaliser!TempPaths, F!TempPaths,
  Finaliser!Goto, F!Goto, Finaliser!registry, F!registry, Finaliser!files, F!files,
  Finaliser!members, F!members, Finaliser!locals, F!locals
<1>2. Finaliser!LoseRequest(r) => F!LoseRequest(r)
  BY DEF Finaliser!LoseRequest, F!LoseRequest, Finaliser!LoseAnswer, F!LoseAnswer,
  Finaliser!Leave, F!Leave, Finaliser!Goto, F!Goto, Finaliser!registry, F!registry,
  Finaliser!files, F!files, Finaliser!members, F!members, Finaliser!locals, F!locals
<1>3. Finaliser!StepFinalise(r) => F!StepFinalise(r)
  BY DEF Finaliser!StepFinalise, F!StepFinalise, Finaliser!FindLocation, F!FindLocation,
  Finaliser!RemoveDuplicate, F!RemoveDuplicate, Finaliser!RenameToHash, F!RenameToHash,
  Finaliser!RenameFails, F!RenameFails, Finaliser!PostLocation, F!PostLocation,
  Finaliser!GetNamespace, F!GetNamespace, Finaliser!PostNamespace, F!PostNamespace,
  Finaliser!GetDataProduct, F!GetDataProduct, Finaliser!PostObject, F!PostObject,
  Finaliser!PostDataProduct, F!PostDataProduct, Finaliser!GetComponent, F!GetComponent,
  Finaliser!CollectInputs, F!CollectInputs, Finaliser!PatchCodeRun, F!PatchCodeRun,
  Finaliser!LoseAnswer, F!LoseAnswer, Finaliser!Leave, F!Leave, Finaliser!Write, F!Write,
  Finaliser!NewPath, F!NewPath, Finaliser!NewLocation, F!NewLocation, Finaliser!NewObject,
  F!NewObject, Finaliser!ObjectsIn, F!ObjectsIn, Finaliser!FoundLocation, F!FoundLocation,
  Finaliser!LocationsAfterPost, F!LocationsAfterPost, Finaliser!PostedLocation,
  F!PostedLocation, Finaliser!LocationConflict, F!LocationConflict, Finaliser!Goto, F!Goto,
  Finaliser!registry, F!registry, Finaliser!files, F!files, Finaliser!members, F!members,
  Finaliser!locals, F!locals
<1> QED
  BY <1>1, <1>2, <1>3 DEF F!Acts

\* Their invariants and properties are the same.
LEMMA SameConstructorInv ==
    /\ C!IInv <=> Constructor!IInv
    /\ C!CodeRunsComplete <=> Constructor!CodeRunsComplete
<1>1. C!IInv <=> Constructor!IInv
  BY DEF Constructor!IInv, C!IInv, Constructor!TypeOK, C!TypeOK, Constructor!Stages, C!Stages,
  Constructor!Stage, C!Stage, Constructor!ObjectsLocated, C!ObjectsLocated,
  Constructor!CodeRunsComplete, C!CodeRunsComplete, Constructor!Unedited, C!Unedited,
  Constructor!LeftAlone, C!LeftAlone, Constructor!ConfigAsUsed, C!ConfigAsUsed,
  Constructor!AsUsed, C!AsUsed, Constructor!AsConfigured, C!AsConfigured, Constructor!Located,
  C!Located, Constructor!Rooted, C!Rooted, Constructor!PathOf, C!PathOf, Constructor!IsPosted,
  C!IsPosted, Constructor!Done, C!Done, Constructor!UsedConfig, C!UsedConfig,
  Constructor!UsedRepo, C!UsedRepo, Constructor!RootOf, C!RootOf, Constructor!Locations,
  C!Locations, Constructor!RegisteredPaths, C!RegisteredPaths, Constructor!SetupObjects,
  C!SetupObjects, Constructor!Kinds, C!Kinds
<1>2. C!CodeRunsComplete <=> Constructor!CodeRunsComplete
  BY DEF Constructor!CodeRunsComplete, C!CodeRunsComplete, Constructor!Located, C!Located,
  Constructor!Rooted, C!Rooted, Constructor!PathOf, C!PathOf, Constructor!Kinds, C!Kinds
<1> QED
  BY <1>1, <1>2

LEMMA SameFinaliserInv ==
    /\ F!RecordingInv <=> Finaliser!RecordingInv
    /\ F!Traceable <=> Finaliser!Traceable
<1>1. F!RecordingInv <=> Finaliser!RecordingInv
  BY DEF Finaliser!RecordingInv, F!RecordingInv, Finaliser!IInv, F!IInv, Finaliser!TypeInv,
  F!TypeInv, Finaliser!TypeOK, F!TypeOK, Finaliser!ItemsWritten, F!ItemsWritten,
  Finaliser!StoreSound, F!StoreSound, Finaliser!LocationsStored, F!LocationsStored,
  Finaliser!SetupRows, F!SetupRows,
  Finaliser!ObjectsLocated, F!ObjectsLocated, Finaliser!ReferencesResolve, F!ReferencesResolve,
  Finaliser!WritesOwned, F!WritesOwned, Finaliser!ReadsPublished, F!ReadsPublished,
  Finaliser!ReadAsConfigured, F!ReadAsConfigured, Finaliser!OutputsRegistered,
  F!OutputsRegistered, Finaliser!Locals, F!Locals, Finaliser!Progress, F!Progress,
  Finaliser!Finished, F!Finished, Finaliser!Recorded, F!Recorded, Finaliser!Known, F!Known,
  Finaliser!InHand, F!InHand, Finaliser!Write, F!Write, Finaliser!NewPath, F!NewPath,
  Finaliser!ObjectsIn, F!ObjectsIn, Finaliser!StorePaths, F!StorePaths, Finaliser!Paths,
  F!Paths, Finaliser!Hashes, F!Hashes, Finaliser!StorageLocations, F!StorageLocations,
  Finaliser!Objects, F!Objects, Finaliser!Keys, F!Keys, Finaliser!TempPaths, F!TempPaths,
  Finaliser!Writes, F!Writes, Finaliser!Reads, F!Reads, Finaliser!Outputs, F!Outputs,
  Finaliser!Labels, F!Labels
<1>2. F!Traceable <=> Finaliser!Traceable
  BY DEF Finaliser!Traceable, F!Traceable, Finaliser!Located, F!Located, Finaliser!Keys, F!Keys
<1> QED
  BY <1>1, <1>2

-----------------------------------------------------------------------------
(* Each side's steps, as the other sees them.                              *)

\* The invariant, of the components with their proofs.
LifeInv == C!IInv /\ F!RecordingInv /\ ConstructedFirst

\* There is one data store, and it is not the repository's.
LEMMA OneStore ==
    /\ \A c \in SetupContents : [d \in SetupContents |-> Store][c] = Store
    /\ Store # GitHub
BY ConstructorAssumption, ForConstructor DEF C!RunsAssumption

\* A constructor adds locations of configurations and scripts to what
\* finalise() looks through.
LEMMA ConstructorSeen ==
    ASSUME C!IInv, C!IInv', F!IInv, NEW r \in Runs, Construct(r) \/ Initialise(r)
    PROVE  F!ConstructorActs
<1>1. faults' \in 0 .. MaxFaults
  BY DEF C!IInv, C!TypeOK
<1>2. CASE Construct(r)
  BY <1>1, <1>2 DEF Construct, pipeline, F!ConstructorActs, F!files, F!members, F!locals
<1>3. CASE Initialise(r)
  <2> DEFINE new ==
        {Unrooted(l) : l \in {k \in rootedLocations' \ rootedLocations : k.root = Store}}
  <2>1. storageLocations' = storageLocations \cup new
    BY <1>3 DEF Initialise
  <2>2. ASSUME NEW l \in rootedLocations' \ rootedLocations, l.root = Store
        PROVE  Unrooted(l) \in F!SetupRows
    <3>1. C!Initialise(r)
      BY <1>3, SameConstructor DEF Initialise
    <3>2. \/ l.root = GitHub
          \/ \E f \in Files, c \in SetupContents :
                /\ l.root = [d \in SetupContents |-> Store][c]
                /\ l.path = C!PathUnder(l.root, f) /\ l.hash \in SetupContents
                /\ l.public = TRUE
      BY <3>1, ForConstructor, C!RowsOfFiles
    <3>3. l.root # GitHub
      BY <2>2, <3>2, OneStore
    <3>4. PICK f \in Files : l.path = C!PathUnder(Store, f)
      BY <2>2, <3>2, <3>3
    <3>5. l.path \in SetupPaths
      BY <3>4 DEF SetupPaths, C!PathUnder, Constructor!PathUnder
    <3> QED
      BY <3>2, <3>3, <3>5 DEF Unrooted, F!SetupRows
  <2>3. new \subseteq F!SetupRows
    BY <2>2
  <2> HIDE DEF new
  <2> QED
    BY <1>1, <1>3, <2>1, <2>3
       DEF Initialise, pipeline, F!ConstructorActs, F!files, F!members, F!locals
<1> QED
  BY <1>2, <1>3

\* A finalise() adds locations of written contents to what initialise()
\* looks through.
LEMMA FinaliserSeen ==
    ASSUME F!IInv, NEW r \in Runs, F!Acts(r), Call(r) \/ Finalise(r)
    PROVE  C!FinaliserActs
<1>1. faults' \in 0 .. MaxFaults
  BY ForFinaliser, F!OwnCodeRun
<1>2. CASE Call(r)
  BY <1>1, <1>2 DEF Call, setup, C!FinaliserActs, C!locals, C!history
<1>3. CASE Finalise(r)
  <2> DEFINE new == {Rooted(l) : l \in storageLocations' \ storageLocations}
  <2>1. rootedLocations' = rootedLocations \cup new
    BY <1>3 DEF Finalise
  <2>2. ASSUME NEW l \in storageLocations' \ storageLocations
        PROVE  Rooted(l) \in FinalisedLocations
    <3>1. l \in [path : F!StorePaths, hash : Contents, public : BOOLEAN]
      BY ForFinaliser, F!RowsOfWrites
    <3> QED
      BY <3>1 DEF Rooted, FinalisedLocations, F!StorePaths
  <2>3. new \subseteq FinalisedLocations
    BY <2>2
  <2> HIDE DEF new
  <2> QED
    BY <1>1, <1>3, <2>1, <2>3 DEF Finalise, setup, C!FinaliserActs, C!locals, C!history
<1> QED
  BY <1>2, <1>3

-----------------------------------------------------------------------------
(* The inductive invariant.                                                *)

\* A constructor's step keeps both invariants.
LEMMA ConstructorStep ==
    ASSUME LifeInv, NEW r \in Runs, Construct(r) \/ Initialise(r)
    PROVE  LifeInv'
<1>1. C!Next
  BY SameConstructor DEF Construct, Initialise, C!Next
<1>2. C!IInv'
  BY <1>1, ForConstructor, C!NextInv DEF LifeInv
<1>3. F!ConstructorActs
  BY <1>2, ConstructorSeen DEF LifeInv, F!RecordingInv
<1>4. F!RecordingInv'
  BY <1>3, ForFinaliser, F!ConstructorKeepsRecords DEF LifeInv
<1>5. ConstructedFirst'
  <2>1. \A s \in Runs : setupResult[s] = "constructed" => setupResult'[s] = "constructed"
    BY <1>1, ForConstructor, C!StaysConstructed DEF LifeInv
  <2>2. codeRuns' = codeRuns
    BY <1>3 DEF F!ConstructorActs
  <2> QED
    BY <2>1, <2>2 DEF LifeInv, ConstructedFirst
<1> QED
  BY <1>2, <1>4, <1>5 DEF LifeInv

\* So does a step of a finalise(), which is of a run that is constructed.
LEMMA FinaliserStep ==
    ASSUME LifeInv, NEW r \in Runs, Call(r) \/ Finalise(r)
    PROVE  LifeInv' /\ F!Acts(r)
<1>1. F!Acts(r)
  BY SameFinaliser DEF Call, Finalise
<1>2. F!RecordingInv'
  BY <1>1, ForFinaliser, F!RecordingNext DEF LifeInv, F!Next, F!Acts
<1>3. C!FinaliserActs
  BY <1>1, FinaliserSeen DEF LifeInv, F!RecordingInv
<1>4. C!IInv'
  BY <1>3, ForConstructor, C!FinaliserKeeps DEF LifeInv
<1>5. ConstructedFirst'
  <2>1. \A s \in Runs \ {r} : codeRuns'[s] = codeRuns[s]
    BY <1>1, ForFinaliser, F!OwnCodeRun DEF LifeInv, F!RecordingInv
  <2>2. setupResult[r] = "constructed" /\ setupResult' = setupResult
    BY DEF Call, Finalise, Constructed, setup
  <2> QED
    BY <2>1, <2>2 DEF LifeInv, ConstructedFirst
<1> QED
  BY <1>1, <1>2, <1>4, <1>5 DEF LifeInv

\* A step that changes nothing keeps them too.
LEMMA StutterStep ==
    ASSUME LifeInv, UNCHANGED vars
    PROVE  LifeInv'
<1>1. UNCHANGED C!vars /\ UNCHANGED F!vars
  BY DEF vars, setup, pipeline, C!vars, C!registry, C!locals, C!history,
         F!vars, F!registry, F!files, F!members, F!locals
<1>2. C!IInv'
  BY <1>1, ForConstructor, C!NextInv DEF LifeInv
<1>3. F!RecordingInv'
  BY <1>1, ForFinaliser, F!RecordingNext DEF LifeInv
<1> QED
  BY <1>2, <1>3 DEF LifeInv, ConstructedFirst, vars, setup, pipeline

LEMMA InitInv ==
    Init => LifeInv
<1> SUFFICES ASSUME Init PROVE LifeInv
  OBVIOUS
<1>1. C!Init /\ F!Init
  BY SameInit
<1>2. C!IInv
  BY <1>1, ForConstructor, C!InitInv
<1>3. F!RecordingInv
  BY <1>1, ForFinaliser, F!RecordingInit
<1>4. ConstructedFirst
  BY <1>1 DEF F!Init, ConstructedFirst
<1> QED
  BY <1>2, <1>3, <1>4 DEF LifeInv

LEMMA NextInv ==
    LifeInv /\ [Next]_vars => LifeInv'
BY ConstructorStep, FinaliserStep, StutterStep DEF Next

\* LifeInv always holds.
LEMMA LifeInvariance ==
    Init /\ [][Next]_vars => []LifeInv
BY InitInv, NextInv, PTL

-----------------------------------------------------------------------------
(* The theorems.                                                           *)

\* Each side's invariant holds beside the other side's steps.
THEOREM Invariance ==
    Spec => []IInv
<1>1. LifeInv => IInv
  BY SameConstructorInv, SameFinaliserInv DEF LifeInv, IInv
<1> QED
  BY <1>1, LifeInvariance, PTL DEF Spec

\* A code run that lists anything has been posted, by a constructor that found
\* what it names registered.
LEMMA ListedIsPosted ==
    ASSUME LifeInv
    PROVE  /\ Constructor!CodeRunsComplete
           /\ \A r \in Runs :
                 codeRuns[r].inputs \cup codeRuns[r].outputs # {} => posted[r] \in codeRunRows
<1>1. C!CodeRunsComplete
  BY DEF LifeInv, C!IInv
<1>2. ASSUME NEW r \in Runs, codeRuns[r].inputs \cup codeRuns[r].outputs # {}
      PROVE  posted[r] \in codeRunRows
  BY <1>2 DEF LifeInv, ConstructedFirst, C!IInv, C!ConfigAsUsed, C!AsUsed
<1> QED
  BY <1>1, <1>2, SameConstructorInv

\* Whatever a code run lists leads to a file in the store, and the code run
\* itself to its configuration, script and repository, however constructors
\* and finalise() calls of any number of runs interleave and whatever fails.
THEOREM ProvenanceAlways ==
    ASSUME SetupApart
    PROVE  Spec => []Provenance
<1>1. LifeInv => Provenance
  <2> SUFFICES ASSUME LifeInv PROVE Provenance
    OBVIOUS
  <2>1. F!Traceable
    BY ForFinaliser, F!AllLocated DEF LifeInv, F!RecordingInv, SetupApart, F!SetupApart
  <2> QED
    BY <2>1, ListedIsPosted, SameFinaliserInv DEF Provenance
<1> QED
  BY <1>1, LifeInvariance, PTL DEF Spec

\* Provenance, save that an object may lead to the location of a configuration
\* or a script that has its content.
ProvenanceOrSetup ==
    /\ F!TraceableOrSetup /\ Constructor!CodeRunsComplete
    /\ \A r \in Runs :
          codeRuns[r].inputs \cup codeRuns[r].outputs # {} => posted[r] \in codeRunRows

\* So much of it holds whatever the runs write (config.cxx:635-641).
THEOREM ProvenanceOrSetupAlways ==
    Spec => []ProvenanceOrSetup
<1>1. LifeInv => F!TraceableOrSetup
  BY ForFinaliser, F!AllRegistered, F!RegisteredHasLocation
     DEF LifeInv, F!RecordingInv, F!TraceableOrSetup
<1>2. LifeInv => ProvenanceOrSetup
  BY <1>1, ListedIsPosted DEF ProvenanceOrSetup
<1> QED
  BY <1>2, LifeInvariance, PTL DEF Spec

\* finalise() takes a file away only when the store has its content, and no
\* constructor takes one away.
THEOREM NothingIsLost ==
    ASSUME SetupApart
    PROVE  Spec => NothingLost
<1>1. ASSUME LifeInv, [Next]_vars
      PROVE  [\A t \in Finaliser!TempPaths : temp[t] # None /\ temp'[t] = None =>
                \E q \in Finaliser!Paths : store'[q] = temp[t]]_(Finaliser!vars)
  <2> SUFFICES ASSUME NEW t \in F!TempPaths, temp[t] # None, temp'[t] = None
               PROVE  \E q \in F!Paths : store'[q] = temp[t]
    BY DEF Finaliser!TempPaths, F!TempPaths, Finaliser!Paths, F!Paths, Finaliser!StorePaths,
           F!StorePaths
  <2>1. ~ UNCHANGED temp
    OBVIOUS
  <2>2. PICK r \in Runs : Call(r) \/ Finalise(r)
    BY <1>1, <2>1 DEF Next, Construct, Initialise, vars, pipeline
  <2> QED
    BY <1>1, <2>2, FinaliserStep, ForFinaliser, F!FilesKept
       DEF LifeInv, F!RecordingInv, SetupApart, F!SetupApart
<1> QED
  BY <1>1, LifeInvariance, PTL DEF Spec, NothingLost, Finaliser!NothingLost

\* When a finalise() has returned, no linked write of its run is left pending,
\* whatever is constructed beside it (config.cxx:615-779).
THEOREM ReturnedIsRecorded ==
    ASSUME SetupApart
    PROVE  Spec => []ReturnedMeansRecorded
<1>1. LifeInv => F!ReturnedMeansRecorded
  BY ForFinaliser, F!RecordingShows DEF LifeInv, SetupApart, F!SetupApart
<1>2. F!ReturnedMeansRecorded => ReturnedMeansRecorded
  BY DEF ReturnedMeansRecorded, F!ReturnedMeansRecorded, Finaliser!ReturnedMeansRecorded
<1> QED
  BY <1>1, <1>2, LifeInvariance, PTL DEF Spec

\* The whole program implements the write-once catalogue: a step of a
\* constructor changes nothing that the catalogue shows, and a step of a
\* finalise() is one of the catalogue's or changes nothing either.
THEOREM Refinement ==
    ASSUME SetupApart
    PROVE  Spec => ImplementsCatalogue
<1>1. Init => F!Cat!CInit
  BY SameInit, ForFinaliser, F!InitCatalogue
<1>2. LifeInv /\ [Next]_vars => [F!Cat!CNext]_(F!Cat!cvars)
  <2> SUFFICES ASSUME LifeInv, Next PROVE F!Cat!CNext \/ UNCHANGED F!Cat!cvars
    BY DEF vars, pipeline, F!Cat!cvars
  <2>1. ASSUME NEW r \in Runs, Call(r) \/ Finalise(r)
        PROVE  F!Cat!CNext \/ UNCHANGED F!Cat!cvars
    BY <2>1, FinaliserStep, ForFinaliser, F!CatalogueStep
       DEF LifeInv, F!RecordingInv, SetupApart, F!SetupApart
  <2>2. ASSUME NEW r \in Runs, Construct(r) \/ Initialise(r)
        PROVE  UNCHANGED F!Cat!cvars
    BY <2>2 DEF Construct, Initialise, pipeline, F!Cat!cvars
  <2> QED
    BY <2>1, <2>2 DEF Next
<1>3. F!Cat!CInit <=> Finaliser!Cat!CInit
  BY DEF F!Cat!CInit, Finaliser!Cat!CInit, F!Cat!Keys, Finaliser!Cat!Keys, F!StorePaths,
     Finaliser!StorePaths
<1>4. [F!Cat!CNext]_(F!Cat!cvars) <=> [Finaliser!Cat!CNext]_(Finaliser!Cat!cvars)
  BY DEF F!Cat!CNext, Finaliser!Cat!CNext, F!Cat!cvars, Finaliser!Cat!cvars, F!Cat!Deposit,
     Finaliser!Cat!Deposit, F!Cat!Publish, Finaliser!Cat!Publish, F!Cat!Record,
     Finaliser!Cat!Record, F!Cat!Available, Finaliser!Cat!Available, F!Cat!Keys,
     Finaliser!Cat!Keys, F!Cat!StorePaths, Finaliser!Cat!StorePaths, F!StorePaths,
     Finaliser!StorePaths
<1> QED
  BY <1>1, <1>2, <1>3, <1>4, LifeInvariance, PTL
     DEF Spec, ImplementsCatalogue, Finaliser!ImplementsCatalogue, Finaliser!Cat!CSpec
=============================================================================
