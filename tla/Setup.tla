------------------------------- MODULE Setup --------------------------------
(***************************************************************************)
(* The construction of a DataPipeline, which is that of its Config: the    *)
(* configuration is read and validated (Config::validate_config), and the  *)
(* run is registered (Config::initialise): a storage root, then a storage  *)
(* location and an object for the configuration, for the submission script *)
(* and for the code repository, and last the code run that names the three *)
(* objects.                                                                *)
(*                                                                         *)
(* Several runs are constructed at once.  Their files may be edited or     *)
(* removed at any time.  Any REST call may fail, which makes the           *)
(* constructor throw; the program may then be started again.               *)
(***************************************************************************)
EXTENDS Naturals, Tables

CONSTANTS
    Runs,          \* the code runs
    Files,         \* names of configurations and scripts
    Contents,      \* contents of files; a content stands for its SHA1 hash too
    Valid,         \* the contents that are configurations with every key
    Stores,        \* write data stores
    Commits,       \* commits of the code repository
    GitHub,        \* the storage root of the code repositories
    OtherLocations,\* rows of storage_location that finalise() posts
    ConfigFile,    \* ConfigFile[r]: the configuration run r is given
    ScriptFile,    \* ScriptFile[r]: its submission script
    WriteStore,    \* WriteStore[c]: "write_data_store" of configuration c
    LatestCommit,  \* LatestCommit[c]: "latest_commit" of configuration c
    Length,        \* Length[x]: characters in the path of a file or a store
    Inside,        \* Inside[f]: the stores whose path begins the path of f
    SizeofString,  \* sizeof(std::string)
    MaxEdits,      \* bound: changes to files
    MaxTries,      \* bound: constructions of a run
    MaxFaults      \* bound: failed REST calls

ASSUME RunsAssumption ==
    /\ Valid \subseteq Contents /\ None \notin Contents
    /\ ConfigFile \in [Runs -> Files] /\ ScriptFile \in [Runs -> Files]
    /\ WriteStore \in [Contents -> Stores] /\ LatestCommit \in [Contents -> Commits]
    /\ GitHub \notin Stores

ASSUME PathsAssumption ==
    /\ Length \in [Files \cup Stores -> Nat] /\ SizeofString \in Nat \ {0}
    /\ Inside \in [Files -> SUBSET Stores]
    /\ \A f \in Files : \A s \in Inside[f] : Length[s] <= Length[f]

ASSUME SetupBounds == MaxEdits \in Nat /\ MaxTries \in Nat /\ MaxFaults \in Nat

Kinds == {"config", "script", "repo"}

\* A registered path: the path of a file without its first characters, or
\* the path of the repository within GitHub.
RegisteredPaths == [of : Files \cup {GitHub}, cut : Nat]

Locations == [root : Stores \cup {GitHub}, path : RegisteredPaths,
              hash : Contents \cup Commits, public : {TRUE}]

ASSUME NoneAssumption == None \notin Locations

\* finalise() names a file by its hash, in a directory of its data product.
ASSUME OthersAssumption == \A l \in OtherLocations : l.path \notin RegisteredPaths

SetupObjects == [run : Runs, kind : Kinds, location : Locations \cup {None}]

VARIABLES
    \* the registry; fairInit: what "fair init" has registered
    fairInit, storageRoots, storageLocations, objects, codeRuns,
    content,   \* content[f]: content of file f, or None
    pc, kind,  \* where initialise() is, and what it is registering
    config,    \* config[r]: the configuration that was parsed, or None
    location,  \* location[r]: the storage location of the object to be posted
    posted,    \* posted[r][k]: the object of kind k, or None
    tries,     \* tries[r]: constructions of the run
    touched,   \* touched[r]: was its configuration changed while it was built?
    result,    \* result[r]: how the last construction ended
    edits, faults

registry == <<fairInit, storageRoots, storageLocations, objects, codeRuns>>
locals == <<kind, config, location, posted>>
history == <<tries, touched, edits>>
vars == <<registry, content, pc, locals, history, result, faults>>

NoObjects == [k \in Kinds |-> None]

Init ==
    /\ fairInit \in SUBSET {"user", "author"} /\ ("author" \in fairInit => "user" \in fairInit)
    /\ storageLocations \in SUBSET OtherLocations
    /\ storageRoots = {} /\ objects = {} /\ codeRuns = {}
    /\ content \in [Files -> Contents]
    /\ pc = [r \in Runs |-> "idle"] /\ kind = [r \in Runs |-> "config"]
    /\ config = [r \in Runs |-> None] /\ location = [r \in Runs |-> None]
    /\ posted = [r \in Runs |-> NoObjects]
    /\ tries = [r \in Runs |-> 0] /\ touched = [r \in Runs |-> FALSE]
    /\ result = [r \in Runs |-> "none"]
    /\ edits = 0 /\ faults = 0

-----------------------------------------------------------------------------
(* The user edits, replaces or removes a file.                             *)

EditFile(f, c) ==
    /\ edits < MaxEdits /\ edits' = edits + 1
    /\ content' = [content EXCEPT ![f] = c]
    /\ touched' = [r \in Runs |-> touched[r] \/ (pc[r] # "idle" /\ ConfigFile[r] = f)]
    /\ UNCHANGED <<registry, pc, locals, tries, result, faults>>

-----------------------------------------------------------------------------
(* The constructor.                                                        *)

Goto(r, label) == pc' = [pc EXCEPT ![r] = label]

\* The constructor returns or throws.
Leave(r, how) == Goto(r, "idle") /\ result' = [result EXCEPT ![r] = how]

LoseAnswer(r) == faults < MaxFaults /\ faults' = faults + 1 /\ Leave(r, "threw")

\* validate_config: the file is parsed, and its keys and the script are there.
Construct(r) ==
    /\ pc[r] = "idle" /\ result[r] # "constructed" /\ tries[r] < MaxTries
    /\ tries' = [tries EXCEPT ![r] = @ + 1]
    /\ touched' = [touched EXCEPT ![r] = FALSE]
    /\ kind' = [kind EXCEPT ![r] = "config"]
    /\ posted' = [posted EXCEPT ![r] = NoObjects]
    /\ location' = [location EXCEPT ![r] = None]
    /\ config' = [config EXCEPT ![r] = content[ConfigFile[r]]]
    /\ IF content[ConfigFile[r]] \in Valid /\ content[ScriptFile[r]] # None
         THEN Goto(r, "user") /\ result' = [result EXCEPT ![r] = "none"]
         ELSE Leave(r, "threw")
    /\ UNCHANGED <<registry, content, edits, faults>>

\* Mutant of GetUser: waits for the user to be registered.
AwaitUser(r) ==
    /\ pc[r] = "user"
    /\ Goto(r, IF "user" \in fairInit THEN "author" ELSE "user")
    /\ UNCHANGED <<registry, content, locals, history, result, faults>>

GetUser(r) ==
    /\ pc[r] = "user"
    /\ IF "user" \in fairInit THEN Goto(r, "author") /\ UNCHANGED result
                              ELSE Leave(r, "userNotFound")
    /\ UNCHANGED <<registry, content, locals, history, faults>>

\* GET user_author and GET author.  With no row the author's id is read from
\* an empty string, and std::stoi throws before the author is looked at.
GetAuthor(r) ==
    /\ pc[r] = "author"
    /\ IF "author" \in fairInit THEN Goto(r, "root") /\ UNCHANGED result
                                ELSE Leave(r, "threw")
    /\ UNCHANGED <<registry, content, locals, history, faults>>

\* The root of what is being registered: the write data store or GitHub.
RootOf(r) == IF kind[r] = "repo" THEN GitHub ELSE WriteStore[config[r]]

PostStorageRoot(r) ==
    /\ pc[r] = "root"
    /\ storageRoots' = storageRoots \cup
           {[root |-> RootOf(r), local |-> kind[r] # "repo"]}
    /\ \/ Goto(r, "location") /\ UNCHANGED <<result, faults>>
       \/ LoseAnswer(r)
    /\ UNCHANGED <<fairInit, storageLocations, objects, codeRuns, content, locals, history>>

FileOf(r) == IF kind[r] = "config" THEN ConfigFile[r] ELSE ScriptFile[r]

\* The path of f, from which the path of store s is to be removed: as many
\* characters go as a std::string object has bytes, less one.
PathUnder(s, f) ==
    LET cut == IF SizeofString - 1 < Length[f] THEN SizeofString - 1 ELSE Length[f]
    IN  [of |-> f, cut |-> IF s \in Inside[f] THEN cut ELSE 0]

\* Mutant of SetupLocation: the script is hashed for the configuration.
ScriptLocation(r) ==
    IF kind[r] = "repo"
      THEN [root |-> GitHub, path |-> [of |-> GitHub, cut |-> 0],
            hash |-> LatestCommit[config[r]], public |-> TRUE]
      ELSE [root |-> RootOf(r), path |-> PathUnder(RootOf(r), FileOf(r)),
            hash |-> content[ScriptFile[r]], public |-> TRUE]

\* What is posted: the repository by its commit, a file by its hash.
SetupLocation(r) ==
    IF kind[r] = "repo"
      THEN [root |-> GitHub, path |-> [of |-> GitHub, cut |-> 0],
            hash |-> LatestCommit[config[r]], public |-> TRUE]
      ELSE [root |-> RootOf(r), path |-> PathUnder(RootOf(r), FileOf(r)),
            hash |-> content[FileOf(r)], public |-> TRUE]

SameRoot(l) == {k \in storageLocations : k.root = l.root}

\* Mutant of PostSetupLocation: a missing file is hashed.
HashUnchecked(r) ==
    /\ pc[r] = "location"
    /\ storageLocations' = storageLocations \cup {SetupLocation(r)}
    /\ location' = [location EXCEPT ![r] = SetupLocation(r)]
    /\ Goto(r, "object")
    /\ UNCHANGED <<fairInit, storageRoots, objects, codeRuns, content, kind, config,
                   posted, history, result, faults>>

\* Mutant of PostSetupLocation: a 409 is an error.
RefuseConflict(r) ==
    /\ pc[r] = "location"
    /\ IF LocationConflict(SameRoot(SetupLocation(r)), SetupLocation(r))
         THEN Leave(r, "threw") /\ UNCHANGED <<storageLocations, location>>
         ELSE /\ storageLocations' = storageLocations \cup {SetupLocation(r)}
              /\ location' = [location EXCEPT ![r] = SetupLocation(r)]
              /\ Goto(r, "object") /\ UNCHANGED result
    /\ UNCHANGED <<fairInit, storageRoots, objects, codeRuns, content, kind, config,
                   posted, history, faults>>

\* Hash the file, and POST its storage location.
PostSetupLocation(r) ==
    /\ pc[r] = "location"
    /\ LET l == SetupLocation(r)
       IN  \/ /\ l.hash = None
              /\ Leave(r, "threw")
              /\ UNCHANGED <<storageLocations, location, faults>>
           \/ /\ l.hash # None
              /\ storageLocations' = storageLocations \cup LocationsAfterPost(SameRoot(l), l)
              /\ \/ /\ location' = [location EXCEPT ![r] = PostedLocation(SameRoot(l), l)]
                    /\ Goto(r, "object")
                    /\ UNCHANGED <<result, faults>>
                 \/ LoseAnswer(r) /\ UNCHANGED location
    /\ UNCHANGED <<fairInit, storageRoots, objects, codeRuns, content, kind, config,
                   posted, history>>

\* What is registered after kind k, and where initialise() goes on.
After(k) == CASE k = "config" -> <<"script", "location">>
              [] k = "script" -> <<"repo", "root">>
              [] k = "repo" -> <<"repo", "codeRun">>

\* POST file_type, whose rows nothing looks at, and POST object.
PostSetupObject(r) ==
    /\ pc[r] = "object"
    /\ LET o == [run |-> r, kind |-> kind[r], location |-> location[r]]
       IN  \/ /\ LocationRequired /\ o.location = None
              /\ Leave(r, "threw")
              /\ UNCHANGED <<objects, kind, posted, faults>>
           \/ /\ LocationRequired => o.location # None
              /\ objects' = objects \cup {o}
              /\ \/ /\ posted' = [posted EXCEPT ![r][kind[r]] = o]
                    /\ kind' = [kind EXCEPT ![r] = After(@)[1]]
                    /\ Goto(r, After(kind[r])[2])
                    /\ UNCHANGED <<result, faults>>
                 \/ LoseAnswer(r) /\ UNCHANGED <<kind, posted>>
    /\ UNCHANGED <<fairInit, storageRoots, storageLocations, codeRuns, content, config,
                   location, history>>

\* Mutant of PostCodeRun: the code run is posted before it is complete.
PostCodeRunEarly(r) ==
    /\ pc[r] \in {"root", "codeRun"} /\ kind[r] = "repo"
    /\ codeRuns' = codeRuns \cup {posted[r]}
    /\ \/ Leave(r, "constructed") /\ UNCHANGED faults
       \/ LoseAnswer(r)
    /\ UNCHANGED <<fairInit, storageRoots, storageLocations, objects, content, locals,
                   history>>

PostCodeRun(r) ==
    /\ pc[r] = "codeRun"
    /\ codeRuns' = codeRuns \cup {posted[r]}
    /\ \/ Leave(r, "constructed") /\ UNCHANGED faults
       \/ LoseAnswer(r)
    /\ UNCHANGED <<fairInit, storageRoots, storageLocations, objects, content, locals,
                   history>>

\* A request is lost, or answered with an error.
LoseRequest(r) ==
    /\ pc[r] # "idle"
    /\ LoseAnswer(r)
    /\ UNCHANGED <<registry, content, locals, history>>

Initialise(r) ==
    \/ GetUser(r) \/ GetAuthor(r) \/ PostStorageRoot(r) \/ PostSetupLocation(r)
    \/ PostSetupObject(r) \/ PostCodeRun(r)

Next ==
    \/ \E f \in Files, c \in Contents \cup {None} : EditFile(f, c)
    \/ \E r \in Runs : Construct(r) \/ Initialise(r) \/ LoseRequest(r)

Spec == Init /\ [][Next]_vars

\* initialise() is straight-line code with blocking calls.
FairSpec == Spec /\ \A r \in Runs : WF_vars(Initialise(r))
=============================================================================
