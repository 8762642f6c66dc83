# cppDataPipeline in TLA+

A verification development for the C++ implementation of the FAIR Data
Pipeline API. A program links files that it will write and data products that
it will read, runs, and calls `finalise()`, which names each file by its hash
and records everything in a data registry, a REST server. Several programs
share the registry and the data store, nothing is locked, and every step is a
REST call or a file operation that may fail.

The specifications say what that shared state may look like whatever happens,
TLC checks it on small instances, and TLAPS proves the most important parts
for instances of any size.

## 1. The system

| Component | Source | State | Operations |
|---|---|---|---|
| DataPipeline, impl | `src/src/fdp.cxx`, `include/fdp/fdp.hxx` | one `Config` | construct, `link_write`, `link_read`, `finalise`: each forwards to `Config` |
| Config | `src/src/objects/config.cxx` | `config_data_`, the YAML tree; `writes_`, `reads_`, `outputs_`, `inputs_`; the rows registered at construction | `validate_config`, `initialise`, `link_write`, `link_read`, `finalise` |
| IOObject | `include/fdp/objects/io_object.hxx` | one linked read or write | accessors |
| API | `src/src/registry/api.cxx` | none but the URL | GET by query, GET by id, POST (a 409 becomes a GET), PATCH |
| Data registry | external | tables of storage roots, storage locations, objects, data products, namespaces, code runs | as above |
| Data store | file system | files, named by hash once finalised | rename, remove, create directories |
| version | `utilities/semver.hxx`, `semver.cxx` | five numbers and a text | bumps, tags, comparison, conversion |
| Logging | `utilities/logging.hxx`, `logging.cxx` | levels of the logger and of its sinks, a text per message | `info()` ... `critical()`, `<<`, destructor, `log_level`, `set_level` |
| ApiObject, JSON | `api_object.cxx`, `json.cxx` | a JSON value | accessors, the id at the end of a URL |
| Metadata utilities | `metadata.cxx` | none | hashing, random names, time stamps, paths |
| Point estimates | `data_io.hxx`, `data_io.cxx` | none | read and write one TOML file |

How they interact: a `DataPipeline` makes a `Config`, whose construction makes
an `API` and posts a storage root, three storage locations, three objects and
a code run. `link_write` and `link_read` fill the maps `writes_` and `reads_`;
`link_read` asks the registry. `finalise` walks `writes_`: it hashes the file,
asks for a storage location with that hash, removes the file as a duplicate
or renames it and posts a location, asks for the data product, and takes its
object or posts an object and a data product. At the end it patches the code
run with inputs and outputs. Everything logs through one logger.

What is hard:

- two runs interleave between any two REST calls, and most of `finalise` asks
  first and posts later;
- a call can fail anywhere, after which the store and the registry keep what
  was done, and the caller may call again;
- a 409 is answered with a row that matches *every* posted field, so with null
  when the conflicting row differs in another field;
- the temporary file is gone after the rename, so a retry cannot see it;
- files are hashed long after they were read or written;
- the configuration's tree is read and written by every link;
- a POST that is refused is two requests, and either may be lost;
- an estimate's file is empty between two steps of the process that writes it,
  and a write that fails is not noticed.

What makes each component correct:

- Config: what the registry names exists in the store, with the hash it is
  registered by; no written file is lost; a returned `finalise` has recorded
  everything; a returned `link_read` path stays the path of that product;
- construction: a code run is posted after what it names, and names what was
  used;
- the configuration: a link is to what the file says, whatever was linked
  before, but for items that share a map, where the first one linked counts;
  and no key is read that was not seen to be there;
- the REST client: a call that returns had its effect once, and returns the
  row that was asked for;
- estimates: a file holds what the calls that had it open wrote and nothing
  older, and a read tells no more;
- version: an order of all that differ in more than metadata, in which each bump or tag moves up; parse inverts print;
- Logging: a message is written whole, once, where its level lets it through.

## 2. Modules

| Module | Models | Extends or uses |
|---|---|---|
| `Tables` | how GET and POST of `storage_location` answer, the 409 path included | |
| `Registry` | the rows and paths that pipelines share | `Tables` |
| `Pipeline` | `link_write`, `link_read`, `finalise`, the author's writes, failed calls | `Registry` |
| `PipelineProperties` | invariants, action and liveness properties, a variant, two inductive invariants, the refinement | `Pipeline`, `Catalogue` (INSTANCE) |
| `Catalogue` | the abstract specification: a write-once catalogue | `Registry` |
| `PipelineProofs` | its theorems | `PipelineProperties`, TLAPS |
| `Setup` | the constructor: `validate_config` and `initialise` | `Tables` |
| `SetupProperties`, `SetupProofs` | its properties, inductive invariant and theorems | `Setup` |
| `Lifecycle` | whole runs: a constructor, then links and `finalise`, beside others | `SetupProperties`, `PipelineProperties` (INSTANCE) |
| `LifecycleProofs` | its theorems, from those of the two sides | `Lifecycle`, `PipelineProofs`, `SetupProofs` (INSTANCE) |
| `ConfigFile`, `ConfigProofs` | the configuration's tree: `validate_config` key by key, what links find and fill in; theorems | |
| `RestTable` | a table of the registry, calls of `API` and how they end | |
| `RestCalls` | the abstract specification of `API`: calls that happen at one instant | `RestTable` |
| `Rest` | `API` and the requests and answers it is made of | `RestTable` |
| `RestProperties`, `RestProofs` | its properties, inductive invariant, refinement and theorems | `Rest`, `RestCalls` (INSTANCE) |
| `Estimates`, `EstimatesProofs` | `create_estimate` and its reader beside other processes; theorems | |
| `SemVer`, `SemVerProofs` | `Versioning::version` and its theorems | |
| `Logging`, `LoggingProofs` | logger, message builders, sinks; theorems | |
| `MCPipeline`, `MCSetup`, `MCLifecycle`, `MCConfig`, `MCRest`, `MCEstimates`, `MCLogging` | the instances that TLC checks | the above |

### Pipeline

One value of `pc[r]` per REST call or file operation of `finalise`:

| `pc` | action | code (`config.cxx`) |
|---|---|---|
| `idle` | `LinkWrite`, `LinkReadCached`, `LinkReadQueried`, `UserWrite`, `Finalise` | 379-613, the author's program, 615 |
| `loop` | `FindLocation` or, with nothing left to write, `CollectInputs` | 619-640, 735-741 |
| `move` | `RemoveDuplicate`, `RenameToHash`, `RenameFails` | 641-655 |
| `postLocation` | `PostLocation` | 657-664 |
| `getNamespace`, `postNamespace` | `GetNamespace`, `PostNamespace` | 673-679 |
| `getDataProduct` | `GetDataProduct` | 681-697 |
| `postObject`, `postDataProduct` | `PostObject`, `PostDataProduct` | 698-722 |
| `getComponent` | `GetComponent` | 724-730 |
| `patch` | `PatchCodeRun` | 743-778 |

A POST action takes effect in the registry and is then answered or not: when
the answer is lost (`LoseAnswer`) `finalise` throws, and the row stays.
`LoseRequest` is a call that fails without effect. `writes`, `reads`,
`outputs` and `inputs` are the maps of the same names. The order in which
`std::map` is walked is a choice, so nothing rests on names.

Abstractions: a content stands for its SHA1 hash, since two files have one
hash when they have one content; the path of a stored file is its namespace, name and
hash; the extension and the file type, the author and the URL of a row are left out; an object
stands for its only component; `post_storage_root` and `file_type` rows are
not read by anything; the GETs by id of a row just found are part of the
action that found it, since rows do not change. `LinkRead` is one action: its
GETs read rows that never change once they are there. `result` returns to
"none" as soon as the author calls something else.

Two questions about the registry are constants, because the client does not
answer them: is a location unique by hash or by hash and path (`UniqueHash`),
and is an object without a location refused (`LocationRequired`).
`LocationAssumption` says that the first implies the second: with a registry
that is unique by hash and takes objects without a location, the runs below
would find objects that lead nowhere.

### Setup

`pc[r]` and `kind[r]` say which call of `initialise` is next and for which of
the three things it registers. The path arithmetic keeps its numbers: a file
has a length, a store has a length, and the code cuts `sizeof(std::string) - 1`
characters. `EditFile` is the user's editor. `touched[r]` and `tries[r]` are
history for the properties and bounds. The keys that `validate_config` looks
for are one question here, is the content valid; `ConfigFile` has them one by one.
`OtherLocations` are rows that `finalise` posts in the same table: some of them are
there from the start, and a file whose hash one of them has is a conflict.

### Lifecycle

Each run has a `pc` of `Setup` and one of `Pipeline`, and the second may move
once the constructor has returned (`Constructed`). The two modules see one
table `storage_location` in two ways, `Setup` with storage roots and
`Pipeline` only the rows under the data store. A step of either that adds a
row adds it to both views (`Rooted`, `Unrooted`), so that a run finds what
others registered at any point of theirs; to `Setup` the rows of `finalise` are
its `OtherLocations`. Failures are counted together;
editing the files is left to `Setup`.

### ConfigFile

The tree's nodes that a link changes are the `use:` maps, and `use[u]` is the
map `u` as it now is, beside `given[u]`, the file's. `Link` is `link_write` or
`link_read` as far as the tree is concerned: the walk over the items, the last
one of the name counting, the missing description or file type, and the three
defaults, which are written back. What is registered or asked for is `Asked`:
a write is of the item's own name, and its map's `data_product` only names the
temporary directory; a read is of the map's. Two histories: `needed`, the keys
whose value was read, by `initialise`, by links and by the getters; and
`first[u]`, the item that was linked first of those with the map `u`.

### Rest

A call is a request, the registry's step, and the reading of the answer, and
any client's steps fall in between. A value has one mark, which says what it
has in it that a URL gives a meaning to; `Read` and `Sent_fields` are what the
registry makes of `json_to_query_string`'s text. `Lose` is a request, and
`Serve` with `arrives` FALSE an answer, that never comes. After 409 the client
sends `Look_up`. `closed` says which verbs the registry serves to a token
only. `Pipeline` and `Setup` take a call for one step, or two where it fails
after its effect: `ImplementsCalls` is why they may.

### Estimates

A file is missing, not TOML, or a set of tables; `begin()` of an unordered
table is any of them, and of an empty one undefined: the call throws or
crashes. `Open` empties the file and `Write` writes it and closes it. What two
processes write at once is the last one's text or a mixture. Nothing looks at
whether the write or the close failed (`data_io.hxx:86-88`), so `Write` has a
second disjunct that returns like the first and leaves the beginning of the
text (`Begun`), or a mixture (`Cut_short`): `Left` says which numbers a value may
be read as when its end is missing. `origin[x]` is history: which calls had
the file open at once since it was emptied last, and whether a write of one
of them failed.

### SemVer

The state is one version, the actions its calls. Integers have the width
`Wrap` (2^32 in the program). `ToText` and `FromText` keep a string's
parts, separators and digits, which is what the parser looks at.

### Logging

`Above[s]` is the chain of composites that lead to a stream, so that no
recursion is needed. A message is built in steps (`Raise`, `Piece`, `EndLine`,
`Execute`), several at a time. The header's text is left out, its level is
not.

## 3. What the runs check

Instances of `MCPipeline` and `MCLifecycle` have two runs of the program, at
most one failed call, and one link per run and product, unless said otherwise.
Two runs are the fewest that can race. One failure can fall on any call, and
the calls after it work on what it left; a second one would leave rows and
files of the same kinds. Deadlock is checked except where programs do stop:
`setup`, `lifecycle`, `rest`, `config`, `estimates` and `logging`.

Runs that pass:

| Run | Instance | Shows |
|---|---|---|
| `contend` | both write one product, two contents; one of them may read it first, and write another; a registry unique by hash; the contents are symmetric, for nothing tells one from another but by equality | `IInv`, of which `TypeOK` is a part, `Traceable`, `OutputProvenance`, `AnswersServeTheProduct`, `NothingLost`, and that the pipeline implements `Catalogue` |
| `relink` | one run, two products, three links, two contents, reads its own product, which has the literal's name | `TypeOK`; whenever `finalise` returns, all is recorded (`ReturnedMeansRecorded`), after any number of calls; every step of `finalise` leaves less to do (`CountsDown`) |
| `setup` | two configurations, one script, equal or different contents, one edit, two tries, a registry unique by hash, with a data product that has a configuration's content or without | `CodeRunsComplete`, `ConfigAsUsed`, `IInv` |
| `lifecycle` | two runs with a configuration each and one script and content, which write one product, one publicly and one not, and of which one reads it; two tries of a constructor; a registry unique by hash and path | `Provenance` over construction and finalising at once, `NothingLost`, that the whole implements `Catalogue`, the inductive invariants of both sides (`IInv`, from which `ReturnedMeansRecorded` follows), that each ends, and that each succeeds once its calls are answered and its files are there |
| `rest` | two clients, three calls, a table of two rows with a unique key and another field, texts and references as values, a registry closed to readers or not, one loss | `AnswersMatch`, `PostsAgree`, `TokenReaches`, that a call makes two requests at the most (`CountsDown`), that `Rest` implements `RestCalls`, `CallsEnd` |
| `config` | two products, four `use:` maps of three kinds, shared by two writes, by a write and a read, or by none, an item without a name or a description, a product with two items, no sequence; every key there or all but one, both locations | `AsTheFileSays`, `KeysThere` |
| `estimates` | two processes, three products of which two share a file, three calls, two numbers, one the beginning of the other, and a text; no file at the start, an empty one, one that is no TOML, or one of one or two tables; any write may fail | `EstimateStands`, `ReadsTell` |
| `semver` | versions with parts up to 2; `Wrap` 12 and `Unnumbered` 4, so that wrapping, the default tag number and numbers of two digits are reached | `Ranked`, `MovesUp`, `ReadsBack` |
| `logging` | a stream beside a nested composite, two messages, two pieces each, one change of level | `WrittenOnceWhole` |

Bounds of the last five: two clients race, and a third call is one more than a
race needs, a PATCH between a POST and its look-up or a GET after both; in
`config` nothing is bounded but the file, links may follow one another for
ever; three calls of `estimates` are two writers and a reader; two
messages are one more than the levels that decide on each.

Runs that find a promise broken, each with one property that quotes it:

| Run | What the code does |
|---|---|
| `lost_race` | the loser of a race for a data product records an output that no data product names |
| `collision` | a file with the content of a registered configuration is removed as a duplicate of a file that is not in the store |
| `wrong_row` | a `#` in a value ends the query, and what is found is a row of another value |

The models also reproduce, or rest on an assumption that names, without a run
of their own:

- `link_read` looks up the literal `"data_product"` and not its argument
  (`config.cxx:475`; `LinkReadCached`): `AnswersServeTheProduct` holds as long
  as no product has that name;
- a configuration edited between its parsing and its hashing is registered in
  place of the one used (`config.cxx:98` and `255`; `ConfigAsUsed` is about
  files that are left alone);
- two items with one `use:` map, by a YAML anchor and its alias, share what
  is filled in: a read gets the namespace of writes, or another item's name
  (`config.cxx:436-450`, `506-520`; `AsTheFileSays` takes the defaults of the item
  that was linked first);
- a write is registered by its item's own name, whatever `use: data_product:`
  says (`config.cxx:460-461`; `Asked`);
- a write that fails is not noticed, and `create_estimate` returns the path of
  an empty or shortened file, of which a shorter number may be read
  (`data_io.hxx:86-88`; `Cut_short`);
- `get_by_id` and the look-up after 409 leave the token behind (`api.cxx:98`,
  `285`; `TokenReaches` says: only these);
- a look-up after 409 that finds nothing returns null, which no caller looks
  at (`api.cxx:285`; `Found` has `None`);
- two products of one directory and one version are one estimate file
  (`data_io.hxx:71-73`; `EstimateStands` says whose estimate it holds);
- an estimate's file is empty while it is being written, and the reader takes
  `begin()` of what it parsed (`data_io.cxx:41`; `Readings`);
- a name, version and namespace that exist are recorded as the output, whatever
  was written (`config.cxx:692`; the second case of `OutputProvenance`);
- a second `finalise` looks for the files that the first one renamed, and
  throws (`config.cxx:622`; `Leave` in `FindLocation`);
- `use: data_product:` makes one directory and renames into another
  (`config.cxx:453` and `461`; `RenameFails`);
- the registered path of a configuration is cut by `sizeof` of a string object
  (`config.cxx:247`; `PathUnder`);
- without an author `stoi` throws before the message about `fair init`
  (`config.cxx:223`; `GetAuthor`, `Throw_no_id`);
- `to_string` writes `alpha0`, and the parser expects a character before the
  number (`semver.cxx:34`; `ReadsBack` says which versions are read back);
- `critical()` makes a WARN message (`logging.cxx:113`; `BuilderLevel`);
- `set_level` sets a member that nothing reads (`logging.hxx:177`; `SetLevel`).

Two more that the models leave out: `get_type` of a URL that ends in a slash
is the id and not the table (`api_object.cxx:81-87`), and `!currentWrite` is
false of a node that was never assigned, so that an unknown name leaves
`link_write` and `link_read` a few lines later, with another exception
(`config.cxx:408`, `497`; in `Link` it leaves).

Fairness. `Setup`, `Pipeline` and `Lifecycle` state weak fairness of each
run's own steps: `finalise` and the constructor are straight-line code with
blocking calls in their caller's thread. Nothing obliges a program to call
anything, and neither `LoseRequest` nor `Lose` has fairness. What this assumes is that
each REST call ends, and `Rest` takes that apart: `FairSpec` there is weak
fairness of the registry's serving each request and of the client's reading
the answer, and `CallsEnd` follows from these two. The first is the server's to
keep: no timeout is set on the curl handle, and a server that keeps a connection
open and says nothing holds a call for good.

`AwaitUser`, `RenameUnchecked`, `SentLocation` and the like, commented
"Mutant of", are the errors that each property was tried on; no specification uses them.

## 4. What is proved

For any number of runs, products, versions, contents, files, clients, rows,
edits, failed calls, messages and sinks:

| Module | Theorem | Says |
|---|---|---|
| `PipelineProofs` | `TypeCorrect`, `Invariance` | `Spec => []TypeOK`, `Spec => []IInv` |
| | `Provenance` | `Spec => []OutputProvenance` |
| | `Traceability` | `Spec => []Traceable`, if `SetupApart` |
| | `TraceabilityOrSetup` | `Spec => []TraceableOrSetup`: what has no file leads to a row of a constructor |
| | `Preservation` | `Spec => NothingLost`, if `SetupApart` |
| | `PreservationButForSetup` | `Spec => NothingLostButToSetup`: what is lost had the content of such a row |
| | `Refinement` | `Spec => ImplementsCatalogue`, if `SetupApart` |
| | `Answers` | `Spec => []AnswersServeTheProduct`, if `SetupApart` and no product is named by the literal |
| | `ReturnedIsRecorded` | `Spec => []ReturnedMeansRecorded`, if `SetupApart` |
| | `ReturnedIsRecordedOrSetup` | `Spec => []RecordedOrSetup`: a write's location is one of its file or of a constructor |
| | `Countdown` | `Spec => CountsDown` |
| `LifecycleProofs` | `Invariance` | `Spec => []IInv` |
| | `ProvenanceAlways`, `ReturnedIsRecorded` | `Spec => []Provenance`, `[]ReturnedMeansRecorded`, if `SetupApart` |
| | `ProvenanceOrSetupAlways` | `Spec => []ProvenanceOrSetup` |
| | `NothingIsLost`, `Refinement` | `Spec => NothingLost`, `Spec => ImplementsCatalogue`, if `SetupApart` |
| `SetupProofs` | `TypeCorrect`, `Invariance` | `Spec => []TypeOK`, `Spec => []IInv` |
| | `Complete` | `Spec => []CodeRunsComplete` |
| | `Used` | `Spec => []ConfigAsUsed` |
| `RestProofs` | `TypeCorrect`, `Inductive` | `Spec => []TypeOK`, `Spec => []IInv` |
| | `TokensReach`, `Countdown` | `Spec => []TokenReaches`, `Spec => CountsDown` |
| | `LegibleAnswersAlwaysMatch`, `LegiblePostsAlwaysAgree` | `Spec => []LegibleAnswersMatch`, `[]LegiblePostsAgree` |
| | `AnswersAlwaysMatch`, `PostsAlwaysAgree`, `Implements` | `Spec => []AnswersMatch`, `[]PostsAgree`, `ImplementsCalls`, if `Legible` |
| `ConfigProofs` | `TypeCorrect`, `Inductive`, `KeysAreThere`, `LinksAsTheFileSays` | `ConfigSpec => []TypeOK`, `[]IInv`, `[]KeysThere`, `[]AsTheFileSays` |
| `EstimatesProofs` | `TypeCorrect`, `Inductive`, `Stands`, `Tells` | `Spec => []TypeOK`, `[]IInv`, `[]EstimateStands`, `[]ReadsTell` |
| `LoggingProofs` | `TypeCorrect`, `Inductive`, `WrittenOnce` | `Spec => []TypeOK`, `[]IInv`, `[]WrittenOnceWhole` |
| `SemVerProofs` | `Transitive`, `Total`, `Antisymmetric` | `operator<` is transitive and puts any two versions that differ in more than metadata in one order; `<=` is antisymmetric, and not total: of two that differ in metadata alone neither is `<=` the other |
| | `TypeCorrect`, `RankedAlways`, `OnlyUp` | `Spec => []TypeOK`, `Spec => []Ranked`, `Spec => MovesUp` |
| | `ReadsBackExactly` | `Spec => []ReadsBack`, for any width of at most ten digits |

Assumptions are those named in the modules and two hypotheses of theorems, each
of which a run shows to be needed: `SetupApart`, no file
that is written has the content of a configuration or script of some run
(`collision`); `Legible`, no value has a character that means something else in
a URL (`wrong_row`). Neither inductive
invariant needs them, so that what the code still keeps without
them is a theorem too. Without `SetupApart`, a location may be a constructor's
(`SetupRows`), and every loss and every reference without a file comes from
one. Without `Legible`, a call whose own query arrives whole still returns the row
it asked for, whatever the queries of others become.

`Traceable` is not inductive. `finalise` goes on, many calls later, with a
location and an object it was answered with, so the invariant must say what
its locals hold at each `pc` (`Locals`): at `postLocation` the file is at its
new path, after it the location is registered with the hash, and so on. Those
facts are about rows and files that others might touch; they survive because
the registry loses no row and a stored file keeps the content of its name
(`Growth`), which in turn rests on a rename being the one action that changes
the store, with the hash as the file's name (`StoreSound`). `ReadsPublished`
and `OutputsRegistered` carry the facts into the maps that `PatchCodeRun`
sends. With the invariant, each step is a step of `Catalogue` or stutters:
`RenameToHash` deposits, `PostDataProduct` publishes, `PatchCodeRun` records.

`ReturnedMeansRecorded` speaks of a state that a whole call has led to.
`RecordingInv` adds to `IInv` where each linked write is in that call
(`Progress`): still to be looked at, in hand, or `Recorded`, which means that its
temporary file is gone, its output is this write's and a location has its
hash. The case that a test would miss is a call that threw and is made again: what was
`Recorded` before may not be, if the product was linked anew, and then it is in `todo`
again. `Finished` turns "all are recorded" into the property when `PatchCodeRun`
is answered, and holds until the author does something else.

`Countdown` is the part of `FinaliseEnds` that does not depend on scheduling. Every
step of `finalise`, a failed call included, makes `StepsLeft` smaller: nine for each
write still to be looked at, which is what one round of the loop may take, and the
place in the round. It is a number because the writes are finitely many at any time
(`FiniteWork`), which needs no bound on products: `link_write` adds one at a
time. TLC checks it in `relink`, which has one run and comes back to `finalise` with
more to do; that another run's steps change nothing of it is in the theorem alone. In
`RestProofs` the same is counted for a call: a POST has four steps, two of
which are a look-up's, and a look-up is never answered with 409 (`RequestKinds`).

`LifecycleProofs` takes the two sides' invariants over whole and asks of each only
that it survives the other's steps. What a constructor does to `Pipeline`'s state
is `ConstructorActs`: it adds rows of `SetupRows` and may count a failure. What
`finalise` does to `Setup`'s is `FinaliserActs`: it adds rows of `OtherLocations`.
`ConstructorKeeps` and `FinaliserKeeps` are about these two; the rest is that
each step of `Lifecycle` is a step of one side and such a step of the other.
`ConstructedFirst` says that what a run records it records after its constructor
returned, which joins the halves of `Provenance`.

In `SetupProofs`, `Stages` says for each constructor what it has registered by
its `pc` and `kind`; `Unedited` says, for one whose file was left
alone, that the hash posted is that of the configuration parsed. A conflict that is answered
with null is possible with `UniqueHash` only, and then the object is refused.

In `RestProofs`, an answer on its way must fit the call that waits for it
(`AnswersOfCalls`), although the row may have been patched since. What makes
this inductive is that the part that matters, the unique key, is never
patched: `Kept_row` says that the row is still there with that key, and
`UniqueKeys` that no other row has it. `PostsAgree` follows from the two. A request is
the call's own or its look-up (`RequestsOfCalls`), and the refinement takes
the effect to be the step in which the registry answers 200 or 201.

In `ConfigProofs`, a map is as the file has it until an item with it is linked,
and as that item has it from then on (`FilledOnce`): a map that was filled in is
full, so that no later link changes it (`SettledFull`). In `EstimatesProofs`, a
client that has a file open is one of those its text is of, and if it is the
only one nothing has been written yet (`OpenersKnown`), which is why a whole
write of a file that one call had to itself is that call's estimate and no
mixture, and a failed one its beginning. In `LoggingProofs`, `OnItsWay` says of a message
that no level was changed under that its text is all its pieces or none, as
the top sink's level was when it was raised, and that it is in no stream before its end.

In `SemVerProofs`, `ReadsBack` rests on `Leading`: the power of ten that starts a
number of up to ten digits is found among explicit powers, and what follows the
first digit is a smaller number (`Shortened`), so that a tag with a number
never comes back as it was.

Only model-checked: the liveness properties (`FinaliseEnds`,
`FinaliseSucceeds`, `ConstructionEnds`, `ConstructionSucceeds`, `CallsEnd`),
which need fairness and ENABLED; the countdowns above are what of them is proved.

## 5. Not modelled

- JSON, exceptions, the Windows time shim, the build: no state or decision of their own, or platform glue.
- `append_with_forward_slash` and `remove_leading_forward_slash`, and the
  `file://` that `post_storage_root` puts before a local root: text that the
  same client writes and reads back. `download_file` and `setup_download_session_`: nothing calls them.
- The state inside curl: `curl_global_cleanup` after every request is not
  thread-safe, and nothing in the repository starts a thread.
- `get_type` of `ApiObject`: only a test calls it.
- Time stamps, `read_token` and the regular expressions on paths of `metadata.cxx`.
- The singleton's creation in `get_logger`: the model's logger exists from the start.
- Faults of undefined behaviour in `generate_random_hash`: a temporary name is taken for fresh.

## 6. Plan

Done: the core (`Tables`, `Registry`, `Pipeline`, `Catalogue`, `Setup`),
`SemVer`, `Logging`, `Lifecycle`, `ConfigFile`, `Rest` with `RestCalls`,
`Estimates`, and the proofs above.

Left, in this order:

1. The links of `ConfigFile` as the entries that `Pipeline` takes for constants.
2. A `Pipeline` over `RestCalls`, with the registry's other tables as
   instances of `RestTable`, in place of the one step per call.
