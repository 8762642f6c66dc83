------------------------------ MODULE Estimates -----------------------------
(***************************************************************************)
(* Point estimates: create_estimate writes a TOML file that is named by a  *)
(* version, in the directory of the data product's parent, and             *)
(* read_point_estimate_from_toml reads the value in a file's first table.  *)
(* Several processes work on one store, where there may be files that      *)
(* others made by hand.                                                    *)
(***************************************************************************)
EXTENDS Naturals

CONSTANTS
    None,
    Clients,            \* processes, which have one store and one namespace
    Products, Parent,   \* Parent[p]: what the name p has before its last "/"
    Versions,
    Values, Numbers,    \* what is written, and which of it is a number
    Left,               \* Left[v]: numbers that v may be read as when its end is cut off
    GivenFiles,         \* what may be there at the start
    MaxCalls            \* bound: estimates that are created or read

Paths == {Parent[p] : p \in Products} \X Versions

Path(job) == <<Parent[job.product], job.version>>

\* What create_estimate is called with.
Jobs == [product : Products, version : Versions, value : Values]

\* A file has any number of tables, either key may be missing, and one that
\* was written in part, or over another of a different length, may be no TOML.
Tables == [type : {None, "point-estimate", "distribution"}, value : Values \cup {None}]

Files == [state : {"missing", "garbled", "parsable"}, tables : SUBSET Tables]

Missing == [state |-> "missing", tables |-> {}]

Garbled == [state |-> "garbled", tables |-> {}]

Holding(tables) == [state |-> "parsable", tables |-> tables]

Empty == Holding({})

\* The calls that had a file open at once, and whether one of them failed to write.
Origins == [by : SUBSET (Clients \X Jobs), cut : BOOLEAN]

ASSUME EstimatesAssumption ==
    /\ DOMAIN Parent = Products /\ Numbers \subseteq Values /\ MaxCalls \in Nat
    /\ Left \in [Values -> SUBSET Numbers]
    /\ GivenFiles \subseteq Files
    /\ None \notin Origins \cup Jobs \cup Values

VARIABLES
    toml,    \* toml[x]: the file at x
    job,     \* job[c]: the create_estimate that client c is in, or None
    opened,  \* has c opened its file?
    origin,  \* origin[x]: what is in it since it was opened last; None: others made it
    read,    \* read[c]: how c's last read ended, and the file's origin then
    calls

evars == <<toml, job, opened, origin, read, calls>>

NotRead == [end |-> "none", value |-> None, origin |-> None, open |-> FALSE]

Init ==
    /\ toml \in [Paths -> GivenFiles]
    /\ job = [c \in Clients |-> None]
    /\ opened = [c \in Clients |-> FALSE]
    /\ origin = [x \in Paths |-> None]
    /\ read = [c \in Clients |-> NotRead]
    /\ calls = 0

-----------------------------------------------------------------------------
(* create_estimate.                                                        *)

Begin(c, j) ==
    /\ job[c] = None /\ calls < MaxCalls
    /\ calls' = calls + 1
    /\ job' = [job EXCEPT ![c] = j]
    /\ opened' = [opened EXCEPT ![c] = FALSE]
    /\ UNCHANGED <<toml, origin, read>>

\* The clients that have the file x open.
Openers(x) == {d \in Clients : opened[d] /\ Path(job[d]) = x}

\* Mutant of Opened: the file is not emptied.
Kept_on_opening(file) == IF file = Missing THEN Empty ELSE file

\* What is in a file that has been opened for writing.
Opened(file) == Empty

\* The directory is made if it is not there, and the file is emptied.
Open(c) ==
    /\ job[c] # None /\ ~ opened[c]
    /\ toml' = [toml EXCEPT ![Path(job[c])] = Opened(@)]
    /\ opened' = [opened EXCEPT ![c] = TRUE]
    /\ origin' = [origin EXCEPT ![Path(job[c])] =
                     [by |-> {<<d, job[d]>> : d \in Openers(Path(job[c])) \cup {c}},
                      cut |-> FALSE]]
    /\ UNCHANGED <<job, read, calls>>

\* The directory or the file cannot be made.
Fail_to_open(c) ==
    /\ job[c] # None /\ ~ opened[c]
    /\ job' = [job EXCEPT ![c] = None]
    /\ UNCHANGED <<toml, opened, origin, read, calls>>

Estimate(j) == [type |-> "point-estimate", value |-> j.value]

\* What is written goes to the start of the file, over what others wrote
\* there since it was opened.
Overwritten(file, j) ==
    {Holding({Estimate(j)})} \cup (IF file = Empty THEN {} ELSE {Garbled})

\* The beginning of what is to be written.
Begun(j) ==
    {Empty, Garbled} \cup
    {Holding({table}) : table \in [type : {None, "point-estimate"},
                                   value : {None, j.value} \cup Left[j.value]]}

\* What a write that fails leaves; over another's text, a mixture.
Cut_short(file, j) ==
    IF file = Empty THEN Begun(j) ELSE {Garbled} \cup {Holding({table}) : table \in Tables}

\* Mutant of Write: the file is not closed.
Write_without_closing(c) ==
    /\ job[c] # None /\ opened[c]
    /\ \E file \in Overwritten(toml[Path(job[c])], job[c]) :
          toml' = [toml EXCEPT ![Path(job[c])] = file]
    /\ job' = [job EXCEPT ![c] = None]
    /\ UNCHANGED <<opened, origin, read, calls>>

\* The text is written and the file closed.  Neither is looked at: a write
\* that fails, on a full disk for example, returns like any other.
Write(c) ==
    /\ job[c] # None /\ opened[c]
    /\ LET x == Path(job[c])
       IN  \/ /\ \E file \in Overwritten(toml[x], job[c]) : toml' = [toml EXCEPT ![x] = file]
              /\ UNCHANGED origin
           \/ /\ \E file \in Cut_short(toml[x], job[c]) : toml' = [toml EXCEPT ![x] = file]
              /\ origin' = [origin EXCEPT ![x].cut = TRUE]
    /\ job' = [job EXCEPT ![c] = None]
    /\ opened' = [opened EXCEPT ![c] = FALSE]
    /\ UNCHANGED <<read, calls>>

-----------------------------------------------------------------------------
(* read_point_estimate_from_toml.                                          *)

\* Mutant of Told: the value's type is not looked at.
Told_as_it_is(table) ==
    IF table.type = "point-estimate" THEN [end |-> "returned", value |-> table.value]
                                     ELSE [end |-> "threw", value |-> None]

\* What a table's value is read as.
Told(table) ==
    IF table.type = "point-estimate" /\ table.value \in Numbers
      THEN [end |-> "returned", value |-> table.value]
      ELSE [end |-> "threw", value |-> None]

\* No file, or none that can be parsed, is an error; the first of a file's
\* tables is any of them.  The first of none is undefined behaviour.
Readings(file) ==
    IF file.state # "parsable" THEN {[end |-> "threw", value |-> None]}
    ELSE IF file = Empty THEN {[end |-> end, value |-> None] : end \in {"threw", "crashed"}}
    ELSE {Told(t) : t \in file.tables}

Read(c, x) ==
    /\ job[c] = None /\ calls < MaxCalls
    /\ calls' = calls + 1
    /\ \E reading \in Readings(toml[x]) :
          read' = [read EXCEPT ![c] =
                      [end |-> reading.end, value |-> reading.value,
                       origin |-> origin[x], open |-> Openers(x) # {}]]
    /\ UNCHANGED <<toml, job, opened, origin>>

Next ==
    \E c \in Clients :
        \/ \E j \in Jobs : Begin(c, j)
        \/ Open(c) \/ Fail_to_open(c) \/ Write(c)
        \/ \E x \in Paths : Read(c, x)

Spec == Init /\ [][Next]_evars

-----------------------------------------------------------------------------
(* What makes the estimates correct.                                       *)

\* Every variable keeps its type, and a file is open only in a call.
TypeOK ==
    /\ toml \in [Paths -> Files]
    /\ job \in [Clients -> Jobs \cup {None}]
    /\ opened \in [Clients -> BOOLEAN]
    /\ origin \in [Paths -> Origins \cup {None}]
    /\ read \in [Clients -> [end : {"none", "threw", "crashed", "returned"},
                            value : Values \cup {None}, origin : Origins \cup {None},
                            open : BOOLEAN]]
    /\ calls \in 0 .. MaxCalls
    /\ \A c \in Clients : opened[c] => job[c] # None

\* What a file may hold, given its origin and whether it is still open.
Accounted(file, from, open) ==
    /\ ~ from.cut =>
        /\ file \in {Empty, Garbled} \cup {Holding({Estimate(w[2])}) : w \in from.by}
        /\ file = Empty => open
    /\ \A w \in from.by :
          from.by = {w} /\ ~ open =>
              \/ file = Holding({Estimate(w[2])})
              \/ from.cut /\ file \in Begun(w[2])

\* What a file holds that create_estimate has opened, for whichever product of
\* the directory (data_io.hxx:71-88).  Nothing is left of what was there
\* before.  While no write of it has failed it holds a whole estimate of one
\* of the calls that had it open at once, or is no TOML, or is still empty
\* because one of them has not written; and if one call had it to itself, it
\* holds that call's from its return on, or, if its write failed, which
\* nothing looks at, the beginning of it.
EstimateStands ==
    \A x \in Paths :
        origin[x] # None => Accounted(toml[x], origin[x], Openers(x) # {})

\* What a read may tell of a file, given its origin and whether it was open.
Telling(end, value, from, open) ==
    /\ end = "returned" =>
        /\ value \in Numbers
        /\ ~ from.cut => \E w \in from.by : value = w[2].value
        /\ \A w \in from.by : from.by = {w} => value \in {w[2].value} \cup Left[w[2].value]
    /\ ~ from.cut /\ ~ open =>
        /\ end # "crashed"
        /\ \A w \in from.by : from.by = {w} /\ w[2].value \in Numbers => end = "returned"

\* What a read tells of a file that create_estimate has opened, also while it
\* is open (data_io.cxx:13-42).  A value is a number, of one of the calls that
\* had the file open at once if none failed to write, and of one call that had
\* it to itself, as far as that was written; it is not what was there before.
\* Where none failed, a read crashes only while the file is open, and what one
\* call wrote that had it to itself, if it is a number, is always told.
ReadsTell ==
    \A c \in Clients :
        read[c].origin # None =>
            Telling(read[c].end, read[c].value, read[c].origin, read[c].open)

-----------------------------------------------------------------------------
(* The inductive invariant.                                                *)

\* A client that has its file open is one of those that its text is of, and
\* while it is the only one nothing has been written.
OpenersKnown ==
    \A c \in Clients :
        opened[c] =>
            LET x == Path(job[c])
            IN  /\ origin[x] # None /\ <<c, job[c]>> \in origin[x].by
                /\ origin[x].by = {<<c, job[c]>>} => toml[x] = Empty /\ ~ origin[x].cut

IInv == TypeOK /\ EstimateStands /\ ReadsTell /\ OpenersKnown
=============================================================================
