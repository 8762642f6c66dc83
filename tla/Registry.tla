------------------------------ MODULE Registry ------------------------------
(***************************************************************************)
(* The rows finalise() and link_read() read and write in the registry.     *)
(* Rows carry no numeric id: a row is its fields, and an object and its    *)
(* single component are one value.                                         *)
(***************************************************************************)
EXTENDS Naturals, Tables

CONSTANTS
    Products,        \* names of data products, numbered in std::map order
    Versions,        \* semantic versions
    Namespaces,      \* names of namespaces
    Contents,        \* file contents; a content stands for its SHA1 hash too
    Descriptions,    \* descriptions of data products
    SetupPaths,      \* the paths under which initialise() registered the
                     \* configurations and scripts of the runs
    SetupContents,   \* the contents it registered them with
    SetupLocations   \* the rows it posted

\* storage root / namespace / data product / <hash>.<extension>
StorePaths == [namespace : Namespaces, name : Products, hash : Contents]

Paths == StorePaths \cup SetupPaths

Hashes == Contents \cup SetupContents

StorageLocations == [path : Paths, hash : Hashes, public : BOOLEAN]

Objects == [location : StorageLocations \cup {None}, description : Descriptions]

\* The unique key of the data_product table.
Keys == [name : Products, version : Versions, namespace : Namespaces]

ASSUME ProductsAssumption == Products \subseteq Nat

\* initialise() posts its rows with "public" true.
ASSUME SetupAssumption ==
    /\ SetupLocations \in SUBSET [path : SetupPaths, hash : SetupContents, public : {TRUE}]
    /\ SetupPaths \cap StorePaths = {}

ASSUME NoneAssumption ==
    /\ None \notin Products
    /\ None \notin Hashes
    /\ None \notin StorageLocations
    /\ None \notin Objects
=============================================================================
