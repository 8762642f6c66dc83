-------------------------- MODULE SetupProperties ---------------------------
(* What the construction of runs may and may not leave in the registry.    *)
EXTENDS Setup

\* Every variable has its type.
TypeOK ==
    /\ fairInit \in SUBSET {"user", "author"}
    /\ storageRoots \in SUBSET [root : Stores \cup {GitHub}, local : BOOLEAN]
    /\ storageLocations \in SUBSET (Locations \cup OtherLocations)
    /\ objects \in SUBSET SetupObjects
    /\ codeRuns \in SUBSET [Kinds -> SetupObjects]
    /\ content \in [Files -> Contents \cup {None}]
    /\ pc \in [Runs -> {"idle", "user", "author", "root", "location", "object", "codeRun"}]
    /\ kind \in [Runs -> Kinds]
    /\ config \in [Runs -> Contents \cup {None}]
    /\ location \in [Runs -> Locations \cup {None}]
    /\ posted \in [Runs -> [Kinds -> SetupObjects \cup {None}]]
    /\ tries \in [Runs -> 0 .. MaxTries]
    /\ touched \in [Runs -> BOOLEAN]
    /\ result \in [Runs -> {"none", "constructed", "threw", "userNotFound"}]
    /\ edits \in 0 .. MaxEdits /\ faults \in 0 .. MaxFaults

\* What a run registers: its own files, and the repository.
PathOf(r, k) ==
    CASE k = "config" -> ConfigFile[r] [] k = "script" -> ScriptFile[r] [] k = "repo" -> GitHub

Rooted(root) == \E row \in storageRoots : row.root = root

\* l is a registered location, under a registered root, of what run r
\* registers as k.
Located(r, k, l) == l \in storageLocations /\ l.path.of = PathOf(r, k) /\ Rooted(l.root)

\* A code run is registered after everything it names (config.cxx:234-361):
\* its configuration, script and repository are objects of that run with a
\* registered location, the run's own file or GitHub, under a registered
\* root.  No failed call, retry or other run leaves a code run that cannot
\* be traced to what was run.
CodeRunsComplete ==
    \A codeRun \in codeRuns : \A k \in Kinds :
        LET o == codeRun[k]
        IN  /\ o \in objects /\ o.kind = k
            /\ \A j \in Kinds : codeRun[j] \in objects /\ codeRun[j].run = o.run
            /\ Located(o.run, k, o.location)

\* Does the registered configuration name the store and the commit that the
\* code run was registered under?
AsConfigured(codeRun) ==
    LET used == codeRun["config"].location.hash
    IN  /\ codeRun["repo"].location.hash = LatestCommit[used]
        /\ codeRun["config"].location.root = WriteStore[used]

\* A constructor that returned has registered its code run, and the
\* configuration registered for that, by its hash, is the one the run was set
\* up from, if its file was left alone meanwhile.
AsUsed(r) ==
    result[r] = "constructed" =>
        posted[r] \in codeRuns /\ (~ touched[r] => AsConfigured(posted[r]))

ConfigAsUsed == \A r \in Runs : AsUsed(r)

-----------------------------------------------------------------------------
(* Why: an inductive invariant.                                            *)

\* The kinds that initialise() has posted when it is at kind k.
Done(k) ==
    CASE k = "config" -> {} [] k = "script" -> {"config"} [] k = "repo" -> {"config", "script"}

IsPosted(r, k) ==
    LET o == posted[r][k]
    IN  o \in objects /\ o.kind = k /\ o.run = r

\* Where each constructor is, and what it has registered by then.
Stage(r) ==
    pc[r] # "idle" =>
        /\ config[r] \in Valid /\ result[r] = "none"
        /\ pc[r] \in {"user", "author"} => kind[r] = "config"
        /\ pc[r] = "root" => kind[r] \in {"config", "repo"}
        /\ pc[r] \in {"location", "object"} => Rooted(RootOf(r))
        /\ pc[r] = "object" /\ location[r] = None => LocationRequired
        /\ pc[r] = "object" /\ location[r] # None => Located(r, kind[r], location[r])
        /\ pc[r] = "codeRun" => kind[r] = "repo" /\ IsPosted(r, "repo")
        /\ \A k \in Done(kind[r]) : IsPosted(r, k)

Stages == \A r \in Runs : Stage(r)

\* Every object has a registered location of what it is an object of.
ObjectsLocated == \A o \in objects : Located(o.run, o.kind, o.location)

\* Objects of run r that agree with the configuration it parsed.
UsedConfig(r, l) == l.hash = config[r] /\ l.root = WriteStore[config[r]]
UsedRepo(r, l) == l.hash = LatestCommit[config[r]]

\* A configuration that was left alone is the file that is hashed, and the
\* objects of its run say so.
LeftAlone(r) ==
    ~ touched[r] =>
        /\ pc[r] # "idle" => content[ConfigFile[r]] = config[r]
        /\ pc[r] = "object" /\ location[r] # None =>
              /\ kind[r] = "config" => UsedConfig(r, location[r])
              /\ kind[r] = "repo" => UsedRepo(r, location[r])
        /\ pc[r] # "idle" /\ kind[r] \in {"script", "repo"}
              => UsedConfig(r, posted[r]["config"].location)
        /\ pc[r] = "codeRun" => UsedRepo(r, posted[r]["repo"].location)

Unedited == \A r \in Runs : LeftAlone(r)

\* Everything that is registered is registered after what it names, and what
\* was posted is what the run was set up from (config.cxx:190-368).
IInv == TypeOK /\ Stages /\ ObjectsLocated /\ CodeRunsComplete /\ Unedited /\ ConfigAsUsed

-----------------------------------------------------------------------------
(* Construction comes to an end.                                           *)

\* Every constructor that is called returns or throws.
ConstructionEnds ==
    \A r \in Runs : pc[r] # "idle" ~> pc[r] = "idle"

\* Once its calls are all answered, a constructor that finds its files there,
\* and the registry initialised, returns: whatever an earlier failure or
\* another run registered.
ConstructionSucceeds ==
    \A r \in Runs :
        /\ pc[r] = "user" /\ faults = MaxFaults /\ edits = MaxEdits
        /\ fairInit = {"user", "author"}
        /\ \A f \in Files : content[f] # None
        ~> result[r] = "constructed"
=============================================================================
