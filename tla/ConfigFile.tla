----------------------------- MODULE ConfigFile -----------------------------
(***************************************************************************)
(* The configuration as Config keeps it: the YAML tree that validate_config*)
(* reads and completes, and that link_write and link_read go on to fill in *)
(* with the defaults of what "use:" leaves out.  The tree is shared: what  *)
(* one call fills in is there for every later one, and "use:" maps given   *)
(* by an anchor and its aliases are one node of the tree.                  *)
(***************************************************************************)
EXTENDS Naturals, Sequences

CONSTANTS
    None,             \* a key that is left out
    Products,         \* names of data products
    Versions, FirstVersion,  \* FirstVersion: 0.0.1
    Namespaces, InputNamespace, OutputNamespace,  \* the defaults
    Uses,             \* the "use:" maps of the file
    Blocks,           \* Blocks[how]: what may be under "write:" and "read:"
    GivenUses,        \* what the maps may be in the file
    GivenKeys         \* which keys may be in its "run_metadata:"

ASSUME NamesAssumption ==
    /\ FirstVersion \in Versions /\ InputNamespace \in Namespaces /\ OutputNamespace \in Namespaces
    /\ None \notin Products \cup Versions \cup Namespaces /\ None \notin {"write", "read"} \X Nat

\* An item of "write:" or "read:".
Entries == [product : Products \cup {None}, use : Uses, described : BOOLEAN, typed : BOOLEAN]

\* A block is a sequence of items, or something else, or not there.
ASSUME BlocksAssumption ==
    \A how \in {"write", "read"} : \A b \in Blocks[how] :
        b = [isSequence |-> b.isSequence, items |-> b.items] /\ b.items \in Seq(Entries)

UseMaps == [product : Products \cup {None}, version : Versions \cup {None},
            namespace : Namespaces \cup {None}]

\* The keys of "run_metadata:" but for "public".
Keys == {"local_data_registry_url", "remote_data_registry_url", "write_data_store",
         "default_input_namespace", "default_output_namespace", "latest_commit",
         "remote_repo", "description"}

ASSUME FileAssumption == GivenUses \subseteq [Uses -> UseMaps] /\ GivenKeys \subseteq SUBSET Keys

VARIABLES
    api_location,  \* RESTAPI::LOCAL or REMOTE
    meta_data,     \* the keys there are
    public,        \* what is under "public": None, "bool" or "text"
    script,        \* is the submission script there?
    block,         \* block["write"] and block["read"]
    use,           \* use[u]: the map u as it is now
    given,         \* given[u]: as the file gives it
    stage,         \* how far the constructor has come
    first,         \* first[u]: the item that was linked first of those with map u
    needed,        \* the keys that were read for their value
    answer         \* the last link that was made, or None

file == <<api_location, meta_data, script, block, given>>
cvars == <<file, public, use, stage, first, needed, answer>>

Init ==
    /\ api_location \in {"LOCAL", "REMOTE"}
    /\ meta_data \in GivenKeys /\ public \in {None, "bool", "text"}
    /\ script \in BOOLEAN
    /\ block \in [write : Blocks["write"], read : Blocks["read"]]
    /\ given \in GivenUses /\ use = given
    /\ stage = "start" /\ first = [u \in Uses |-> None] /\ needed = {} /\ answer = None

-----------------------------------------------------------------------------
(* The constructor.                                                        *)

RegistryUrl == IF api_location = "LOCAL" THEN "local_data_registry_url"
                                         ELSE "remote_data_registry_url"

\* Mutant of Required: the local registry's URL, whichever is used.
Required_local == (Keys \ {"remote_data_registry_url"}) \cup {"local_data_registry_url"}

\* The keys that must be there.
Required ==
    {RegistryUrl, "write_data_store", "default_input_namespace", "default_output_namespace",
     "latest_commit", "remote_repo", "description"}

\* A "public" that is missing or not a Boolean becomes true.
Validate_config ==
    /\ stage = "start"
    /\ IF Required \subseteq meta_data /\ script
         THEN stage' = "valid" /\ public' = "bool"
         ELSE stage' = "threw" /\ UNCHANGED public
    /\ UNCHANGED <<file, use, first, needed, answer>>

Initialise ==
    /\ stage = "valid"
    /\ stage' = "ready"
    /\ needed' = needed \cup {RegistryUrl, "write_data_store", "remote_repo", "latest_commit",
                              "description"}
    /\ UNCHANGED <<file, public, use, first, answer>>

-----------------------------------------------------------------------------
(* The links.                                                              *)

Item(how, i) == block[how].items[i]

Named(how, p) == {i \in 1 .. Len(block[how].items) : Item(how, i).product = p}

\* Mutant of Current: the first item with the name.
First_named(how, p) == {i \in Named(how, p) : \A j \in Named(how, p) : i <= j}

\* The last item with the name, if there is one.
Current(how, p) == {i \in Named(how, p) : \A j \in Named(how, p) : j <= i}

Default_namespace(how) == IF how = "write" THEN OutputNamespace ELSE InputNamespace

\* Mutant of Filled: a namespace that is left out stays so.
Filled_in_part(map, entry, how) ==
    [product |-> IF map.product = None THEN entry.product ELSE map.product,
     version |-> IF map.version = None THEN FirstVersion ELSE map.version,
     namespace |-> map.namespace]

Filled(map, entry, how) ==
    [product |-> IF map.product = None THEN entry.product ELSE map.product,
     version |-> IF map.version = None THEN FirstVersion ELSE map.version,
     namespace |-> IF map.namespace = None THEN Default_namespace(how) ELSE map.namespace]

\* A write needs a description and a file type.
Linkable(how, i) ==
    /\ block[how].isSequence
    /\ how = "write" => Item(how, i).described /\ Item(how, i).typed

NeededFor(how, map) ==
    (IF how = "write" THEN {"write_data_store", "public"} ELSE {})
        \cup (IF map.namespace # None THEN {}
              ELSE {IF how = "write" THEN "default_output_namespace"
                                     ELSE "default_input_namespace"})

\* The data product that finalise() registers for a write, or that the
\* registry is asked for.  A write is of the item's own name: what its map
\* says instead names the temporary file's directory, and nothing else.
Asked(how, entry, map) == IF how = "write" THEN entry.product ELSE map.product

\* link_write or link_read: the map is filled in, in the tree, and says
\* what is to be written, or what the registry is asked for.
Link(how, p) ==
    /\ stage = "ready"
    /\ \/ \E i \in Current(how, p) :
             /\ Linkable(how, i)
             /\ LET entry == Item(how, i)
                    map == Filled(use[entry.use], entry, how)
                IN  /\ use' = [use EXCEPT ![entry.use] = map]
                    /\ first' = [first EXCEPT ![entry.use] = IF @ = None THEN <<how, i>> ELSE @]
                    /\ needed' = needed \cup NeededFor(how, use[entry.use])
                    /\ answer' = [how |-> how, link |-> p, product |-> Asked(how, entry, map),
                                  use |-> map]
       \/ /\ \A i \in Current(how, p) : ~ Linkable(how, i)
          /\ answer' = None
          /\ UNCHANGED <<use, first, needed>>
    /\ UNCHANGED <<file, public, stage>>

\* get_data_store, get_default_input_namespace and get_default_output_namespace,
\* which create_estimate asks for.
Get(key) ==
    /\ stage = "ready"
    /\ needed' = needed \cup {key}
    /\ UNCHANGED <<file, public, use, stage, first, answer>>

ConfigNext ==
    \/ Validate_config \/ Initialise
    \/ \E how \in {"write", "read"}, p \in Products : Link(how, p)
    \/ \E key \in {"write_data_store", "default_input_namespace", "default_output_namespace"} :
          Get(key)

ConfigSpec == Init /\ [][ConfigNext]_cvars

-----------------------------------------------------------------------------
(* What makes the configuration correct.                                   *)

\* Every variable keeps its type, and a link is to a product, a version and
\* a namespace, none of which is left out.
TypeOK ==
    /\ api_location \in {"LOCAL", "REMOTE"} /\ meta_data \in SUBSET Keys
    /\ public \in {None, "bool", "text"} /\ script \in BOOLEAN
    /\ block \in [write : Blocks["write"], read : Blocks["read"]]
    /\ given \in [Uses -> UseMaps] /\ use \in [Uses -> UseMaps]
    /\ stage \in {"start", "valid", "ready", "threw"}
    /\ first \in [Uses -> ({"write", "read"} \X Nat) \cup {None}]
    /\ needed \in SUBSET (Keys \cup {"public"})
    /\ answer \in [how : {"write", "read"}, link : Products, product : Products,
                  use : [product : Products, version : Versions, namespace : Namespaces]]
               \cup {None}

\* What a map of the file says, under an item named p.
Said(map, how, p) ==
    [product |-> IF map.product = None THEN p ELSE map.product,
     version |-> IF map.version = None THEN FirstVersion ELSE map.version,
     namespace |-> IF map.namespace # None THEN map.namespace
                   ELSE IF how = "write" THEN OutputNamespace ELSE InputNamespace]

\* What the map u says under the item that was linked first of those that
\* have it.
Settled(u) ==
    LET how == first[u][1]
        i == first[u][2]
    IN  /\ how \in {"write", "read"} /\ i \in 1 .. Len(block[how].items)
        /\ Item(how, i).use = u /\ Item(how, i).product \in Products
        /\ use[u] = Said(given[u], how, Item(how, i).product)

\* Whatever was linked before, and in whatever order, a link is by the last
\* item of its name, and to the version and namespace that the file's map
\* gives, with the defaults of that item's direction; where other items have
\* the same map, by an anchor and its aliases, with the defaults of the one
\* that was linked first (config.cxx:436-450, 506-520).  So is the name that
\* a read asks for; a write is of the item's own name, whatever its map says
\* (config.cxx:460-461).
AsTheFileSays ==
    answer # None =>
        \E i \in Named(answer.how, answer.link) :
            /\ \A j \in Named(answer.how, answer.link) : j <= i
            /\ LET u == Item(answer.how, i).use
               IN  first[u] # None /\ Settled(u) /\ answer.use = use[u]
            /\ answer.product = IF answer.how = "write" THEN answer.link ELSE answer.use.product

\* Every key that is read for its value, in the constructor, in a link or
\* later, is one that validate_config has seen to (config.cxx:96-188), for
\* the registry's location that is used; "public" is a Boolean by then.
KeysThere ==
    /\ needed \subseteq meta_data \cup {"public"}
    /\ "public" \in needed => public = "bool"

-----------------------------------------------------------------------------
(* The inductive invariant.                                                *)

\* A map is as the file gives it until an item that has it is linked, and
\* as that item has it from then on.
FilledOnce ==
    \A u \in Uses : IF first[u] = None THEN use[u] = given[u] ELSE Settled(u)

\* Past validate_config, what must be there is there.
Validated ==
    stage \in {"valid", "ready"} => Required \subseteq meta_data /\ public = "bool"

\* Nothing is asked of a configuration that was not validated.
NothingBefore == stage \in {"start", "valid", "threw"} => needed = {} /\ answer = None

IInv ==
    /\ TypeOK /\ Validated /\ NothingBefore /\ KeysThere
    /\ FilledOnce /\ AsTheFileSays
=============================================================================
