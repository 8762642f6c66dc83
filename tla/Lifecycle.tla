----------------------------- MODULE Lifecycle ------------------------------
(***************************************************************************)
(* Whole lives of DataPipelines: each run is constructed, as module Setup  *)
(* describes, and then links, writes and finalises its files, as module    *)
(* Pipeline describes, while others are at any other point of theirs.      *)
(*                                                                         *)
(* The runs have one write data store.  The two modules look at one table  *)
(* storage_location in two ways: Setup by storage root, and Pipeline only  *)
(* at the rows under the data store.  Configurations and scripts are left  *)
(* alone here: editing them is module Setup's.                             *)
(***************************************************************************)
EXTENDS Naturals

CONSTANTS
    None, UniqueHash, LocationRequired, Runs,
    Files, SetupContents, Valid, Stores, Store, Commits, GitHub, ConfigFile, ScriptFile,
    LatestCommit, Length, Inside, SizeofString, MaxTries,
    Products, Versions, Namespaces, Contents, Descriptions, WriteConfig, ReadConfig, Public,
    DataProductLiteral, MaxLinks, MaxFaults

VARIABLES
    \* the table, as Setup and as Pipeline see it
    rootedLocations, storageLocations,
    \* other variables of Setup
    fairInit, storageRoots, setupObjects, codeRunRows, content, setupPc, kind, config,
    setupLocation, posted, tries, touched, setupResult, edits,
    \* other variables of Pipeline
    objects, dataProducts, namespaces, codeRuns, temp, store, dirs, writes, reads, outputs,
    inputs, pc, todo, item, hash, location, object, links, answers, result,
    faults

setup == <<fairInit, storageRoots, setupObjects, codeRunRows, content, setupPc, kind, config,
           setupLocation, posted, tries, touched, setupResult, edits>>
pipeline == <<objects, dataProducts, namespaces, codeRuns, temp, store, dirs, writes, reads,
              outputs, inputs, pc, todo, item, hash, location, object, links, answers, result>>
vars == <<rootedLocations, storageLocations, setup, pipeline, faults>>

\* What finalise() posts, as Setup sees it.
FinalisedLocations ==
    [root : {Store}, path : [namespace : Namespaces, name : Products, hash : Contents],
     hash : Contents, public : BOOLEAN]

Constructor ==
    INSTANCE SetupProperties WITH
        OtherLocations <- FinalisedLocations, Contents <- SetupContents, MaxEdits <- 0,
        WriteStore <- [c \in SetupContents |-> Store],
        storageLocations <- rootedLocations, objects <- setupObjects, codeRuns <- codeRunRows,
        pc <- setupPc, location <- setupLocation, result <- setupResult

\* The paths under which initialise() registers files.
SetupPaths == {Constructor!PathUnder(Store, f) : f \in Files}

Finaliser == INSTANCE PipelineProperties WITH SetupLocations <- {}

\* What the two modules assume of their constants.
ASSUME ConstructorAssumption ==
    /\ Store \in Stores
    /\ Constructor!FlagsAssumption /\ Constructor!LocationAssumption
    /\ Constructor!RunsAssumption /\ Constructor!PathsAssumption /\ Constructor!SetupBounds
    /\ Constructor!NoneAssumption /\ Constructor!OthersAssumption

ASSUME FinaliserAssumption ==
    /\ Finaliser!ProductsAssumption /\ Finaliser!SetupAssumption /\ Finaliser!NoneAssumption
    /\ Finaliser!ConfigAssumption /\ Finaliser!BoundsAssumption /\ Finaliser!MapsAssumption

Init ==
    /\ Constructor!Init
    /\ Finaliser!Init
    /\ rootedLocations = {}
    /\ \A q \in SetupPaths : store[q] = None

\* A row of the table under the data store, seen the other way.
Unrooted(l) == [path |-> l.path, hash |-> l.hash, public |-> l.public]
Rooted(l) == [root |-> Store, path |-> l.path, hash |-> l.hash, public |-> l.public]

\* The constructor is called; a call of it fails.
Construct(r) ==
    /\ Constructor!Construct(r) \/ Constructor!LoseRequest(r)
    /\ UNCHANGED <<storageLocations, pipeline>>

Initialise(r) ==
    /\ Constructor!Initialise(r)
    /\ storageLocations' = storageLocations \cup
           {Unrooted(l) : l \in {k \in rootedLocations' \ rootedLocations : k.root = Store}}
    /\ UNCHANGED pipeline

\* Mutant of Constructed: the constructor has thrown.
Constructed_or_not(r) == setupPc[r] = "idle" /\ setupResult[r] # "none"

\* The public class has no member function to call before this.
Constructed(r) == setupPc[r] = "idle" /\ setupResult[r] = "constructed"

\* A member function is called; a call of finalise() fails.
Call(r) ==
    /\ Constructed(r)
    /\ Finaliser!CallUser(r) \/ Finaliser!LoseRequest(r)
    /\ UNCHANGED <<rootedLocations, setup>>

Finalise(r) ==
    /\ Constructed(r)
    /\ Finaliser!StepFinalise(r)
    /\ rootedLocations' = rootedLocations \cup
           {Rooted(l) : l \in storageLocations' \ storageLocations}
    /\ UNCHANGED setup

Next == \E r \in Runs : Construct(r) \/ Initialise(r) \/ Call(r) \/ Finalise(r)

\* As in the two modules: what blocks is a call, and each call ends.
Spec ==
    /\ Init /\ [][Next]_vars
    /\ \A r \in Runs : WF_vars(Initialise(r)) /\ WF_vars(Finalise(r))

-----------------------------------------------------------------------------
(* What makes a run correct, from its construction to its end.             *)

\* Whatever a code run lists as its input or output leads to a file in the
\* store, and the code run itself to its configuration, its script and its
\* repository, while other runs register theirs in the same table and any
\* call fails (config.cxx:190-368, 619-760).
Provenance ==
    /\ Finaliser!Traceable /\ Constructor!CodeRunsComplete
    /\ \A r \in Runs :
          codeRuns[r].inputs \cup codeRuns[r].outputs # {} => posted[r] \in codeRunRows

\* The files of the runs that go on are there, or taken away for a copy in
\* the store, while others are constructed.
NothingLost == Finaliser!NothingLost

\* A finalise() that returned has recorded all, and the registry and the
\* store are a write-once catalogue, while others are constructed.
ReturnedMeansRecorded == Finaliser!ReturnedMeansRecorded
ImplementsCatalogue == Finaliser!ImplementsCatalogue

-----------------------------------------------------------------------------
(* Why: an inductive invariant.                                            *)

\* What a run records, it records after its construction.
ConstructedFirst ==
    \A r \in Runs :
        codeRuns[r].inputs \cup codeRuns[r].outputs # {} => setupResult[r] = "constructed"

\* Each side keeps what it has put in order, although the other adds rows to
\* the table that both of them ask, and neither does so for a run before the
\* other is done with it (config.cxx:190-368, 615-779).
IInv == Constructor!IInv /\ Finaliser!RecordingInv /\ ConstructedFirst

-----------------------------------------------------------------------------
(* Runs come to an end.                                                    *)

\* Every constructor that is called returns or throws, and one whose files
\* are there and whose calls are answered returns, beside runs that link and
\* finalise theirs.
ConstructionEnds == Constructor!ConstructionEnds
ConstructionSucceeds == Constructor!ConstructionSucceeds

\* Every finalise() that is called returns or throws, and one that finds its
\* files and whose calls are answered returns, beside runs that are being
\* constructed.
FinaliseEnds == Finaliser!FinaliseEnds
FinaliseSucceeds == Finaliser!FinaliseSucceeds
=============================================================================
