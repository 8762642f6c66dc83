----------------------------- MODULE ConfigProofs ---------------------------
(***************************************************************************)
(* What a configuration guarantees for any file, of any length, whichever  *)
(* items have one "use:" map, and for any sequence of links.               *)
(***************************************************************************)
EXTENDS ConfigFile, TLAPS

USE DEF file, Item

\* An item of a block is one of Entries.
LEMMA ItemType ==
    ASSUME TypeOK, NEW how \in {"write", "read"}, NEW i \in 1 .. Len(block[how].items)
    PROVE  Item(how, i) \in Entries
<1>1. block[how] \in Blocks[how]
  BY DEF TypeOK
<1>2. block[how].items \in Seq(Entries)
  BY <1>1, BlocksAssumption
<1> QED
  BY <1>2

\* A map that is filled in is complete, and says what the file says.
LEMMA FilledType ==
    ASSUME NEW map \in UseMaps, NEW how \in {"write", "read"}, NEW p \in Products,
           NEW entry \in Entries, entry.product = p
    PROVE  /\ Filled(map, entry, how) \in
                  [product : Products, version : Versions, namespace : Namespaces]
           /\ Filled(map, entry, how) = Said(map, how, p)
  BY NamesAssumption DEF Filled, Said, Default_namespace, UseMaps, Entries

\* A map that was filled in for one item is not filled in again for another.
LEMMA SettledFull ==
    ASSUME TypeOK, NEW u \in Uses, Settled(u), first[u] # None, use[u] \in UseMaps,
           NEW how \in {"write", "read"}, NEW entry \in Entries, entry.product # None
    PROVE  Filled(use[u], entry, how) = use[u]
  BY NamesAssumption DEF Filled, Settled, Said, UseMaps, Entries

LEMMA InitInductive == Init => IInv
<1> SUFFICES ASSUME Init PROVE IInv
  OBVIOUS
<1>1. TypeOK
  BY FileAssumption DEF Init, TypeOK
<1>2. FilledOnce
  BY DEF Init, FilledOnce
<1> QED
  BY <1>1, <1>2 DEF Init, IInv, Validated, NothingBefore, AsTheFileSays, KeysThere

\* What concerns the file and its maps is kept where they are.
LEMMA SameFile ==
    ASSUME UNCHANGED <<file, use, first>>
    PROVE  /\ FilledOnce' <=> FilledOnce
           /\ \A u \in Uses : Settled(u)' <=> Settled(u)
<1>1. block' = block /\ given' = given /\ use' = use /\ first' = first
  OBVIOUS
<1>2. \A u \in Uses : Settled(u)' <=> Settled(u)
  BY <1>1 DEF Settled, Said
<1> QED
  BY <1>1, <1>2 DEF FilledOnce

\* So is what concerns one map.
LEMMA SettledKept ==
    ASSUME NEW u, first'[u] = first[u], use'[u] = use[u], block' = block, given' = given
    PROVE  Settled(u)' <=> Settled(u)
  BY DEF Settled, Said

\* The item that is linked first settles its map.
LEMMA SettlesNow ==
    ASSUME NEW u, NEW how \in {"write", "read"}, NEW i \in 1 .. Len(block[how].items),
           block[how].items[i].use = u, block[how].items[i].product \in Products,
           first'[u] = <<how, i>>, block' = block, given' = given,
           use'[u] = Said(given[u], how, block[how].items[i].product)
    PROVE  Settled(u)'
<1>1. <<how, i>>[1] = how /\ <<how, i>>[2] = i
  OBVIOUS
<1>2. first'[u][1] = how /\ first'[u][2] = i
  BY <1>1
<1> QED
  BY <1>2 DEF Settled, Said

LEMMA ValidateInductive == ASSUME IInv, Validate_config PROVE IInv'
<1>1. TypeOK'
  BY DEF IInv, Validate_config, TypeOK
<1>2. Validated' /\ NothingBefore'
  BY DEF IInv, Validate_config, Validated, NothingBefore, Required, RegistryUrl
<1>3. AsTheFileSays' /\ KeysThere'
  BY DEF IInv, Validate_config, AsTheFileSays, NothingBefore, KeysThere
<1>4. FilledOnce'
  BY SameFile DEF IInv, Validate_config
<1> QED
  BY <1>1, <1>2, <1>3, <1>4 DEF IInv

\* What initialise reads is there.
LEMMA InitialiseInductive == ASSUME IInv, Initialise PROVE IInv'
<1>1. TypeOK'
  BY DEF IInv, Initialise, TypeOK, RegistryUrl, Keys
<1>2. Validated' /\ NothingBefore' /\ AsTheFileSays'
  BY DEF IInv, Initialise, Validated, NothingBefore, AsTheFileSays, Required, RegistryUrl
<1>3. KeysThere'
  BY DEF IInv, Initialise, Validated, NothingBefore, KeysThere, Required, RegistryUrl
<1>4. FilledOnce'
  BY SameFile DEF IInv, Initialise
<1> QED
  BY <1>1, <1>2, <1>3, <1>4 DEF IInv

\* The map by which the link that was made last was made.
LEMMA LinkedMap ==
    ASSUME TypeOK, answer # None, NEW i \in Named(answer.how, answer.link)
    PROVE  Item(answer.how, i).use \in Uses
<1>1. answer.how \in {"write", "read"}
  BY DEF TypeOK
<1>2. i \in 1 .. Len(block[answer.how].items)
  BY DEF Named
<1> QED
  BY <1>1, <1>2, ItemType DEF Entries

\* The link that was made last is what it was.
LEMMA SameAnswer ==
    ASSUME TypeOK, AsTheFileSays, UNCHANGED <<file, use, first, answer>>
    PROVE  AsTheFileSays'
<1> SUFFICES ASSUME answer' # None PROVE AsTheFileSays'
  BY DEF AsTheFileSays
<1>1. block' = block /\ given' = given /\ use' = use /\ first' = first /\ answer' = answer
  OBVIOUS
<1>2. PICK i \in Named(answer.how, answer.link) :
          /\ \A j \in Named(answer.how, answer.link) : j <= i
          /\ first[Item(answer.how, i).use] # None /\ Settled(Item(answer.how, i).use)
          /\ answer.use = use[Item(answer.how, i).use]
          /\ answer.product = IF answer.how = "write" THEN answer.link ELSE answer.use.product
  BY <1>1 DEF AsTheFileSays
<1>3. Item(answer.how, i).use \in Uses
  BY <1>1, LinkedMap
<1>4. Settled(Item(answer.how, i).use)'
  BY <1>1 , <1>2, <1>3 DEF Settled, Said
<1>5. Named(answer.how, answer.link)' = Named(answer.how, answer.link)
  BY <1>1 DEF Named
<1> QED
  BY <1>1, <1>2, <1>4, <1>5 DEF AsTheFileSays

LEMMA GetInductive ==
    ASSUME IInv,
           NEW key \in {"write_data_store", "default_input_namespace", "default_output_namespace"},
           Get(key)
    PROVE  IInv'
<1>1. TypeOK'
  BY DEF IInv, Get, TypeOK, Keys
<1>2. Validated' /\ NothingBefore'
  BY DEF IInv, Get, Validated, NothingBefore, Required, RegistryUrl
<1>3. KeysThere'
  BY DEF IInv, Get, Validated, KeysThere, Required
<1>4. FilledOnce' /\ AsTheFileSays'
  BY SameFile, SameAnswer DEF IInv, Get
<1> QED
  BY <1>1, <1>2, <1>3, <1>4 DEF IInv

\* A link to item i, which is linkable.
LEMMA LinkedInductive ==
    ASSUME IInv, NEW how \in {"write", "read"}, NEW p \in Products, stage = "ready",
           NEW i \in Current(how, p),
           NEW map, map = Filled(use[Item(how, i).use], Item(how, i), how),
           use' = [use EXCEPT ![Item(how, i).use] = map],
           first' = [first EXCEPT ![Item(how, i).use] = IF @ = None THEN <<how, i>> ELSE @],
           needed' = needed \cup NeededFor(how, use[Item(how, i).use]),
           answer' = [how |-> how, link |-> p, product |-> Asked(how, Item(how, i), map),
                      use |-> map],
           UNCHANGED <<file, public, stage>>
    PROVE  IInv'
<1> DEFINE entry == Item(how, i)  u == entry.use
<1>1. i \in Named(how, p) /\ i \in 1 .. Len(block[how].items) /\ entry.product = p
  BY DEF Current, Named
<1>2. entry \in Entries /\ u \in Uses
  BY <1>1, ItemType DEF IInv, Entries
<1>3. /\ given[u] \in UseMaps /\ use[u] \in UseMaps /\ use \in [Uses -> UseMaps]
      /\ first \in [Uses -> ({"write", "read"} \X Nat) \cup {None}]
  BY <1>2 DEF IInv, TypeOK
<1>4. /\ use'[u] = map /\ first'[u] = IF first[u] = None THEN <<how, i>> ELSE first[u]
      /\ \A v \in Uses \ {u} : use'[v] = use[v] /\ first'[v] = first[v]
      /\ block' = block /\ given' = given
  BY <1>2, <1>3
<1>5. map \in [product : Products, version : Versions, namespace : Namespaces]
  BY <1>1, <1>2, <1>3, FilledType
<1>6. TypeOK'
  <2>1. use' \in [Uses -> UseMaps]
    <3>1. map \in UseMaps
      BY <1>5 DEF UseMaps
    <3> QED
      BY <1>2, <1>3, <3>1
  <2>2. needed' \in SUBSET (Keys \cup {"public"})
    BY DEF IInv, TypeOK, NeededFor, Keys
  <2>3. answer' \in [how : {"write", "read"}, link : Products, product : Products,
                     use : [product : Products, version : Versions, namespace : Namespaces]]
    BY <1>1, <1>5 DEF Asked
  <2>4. first' \in [Uses -> ({"write", "read"} \X Nat) \cup {None}]
    BY <1>1, <1>2, <1>3
  <2> QED
    BY <2>1, <2>2, <2>3, <2>4 DEF IInv, TypeOK
<1>7. Validated' /\ NothingBefore'
  BY DEF IInv, Validated, NothingBefore, Required, RegistryUrl
<1>8. first'[u] # None /\ Settled(u)'
  <2>1. CASE first[u] = None
    <3>1. use[u] = given[u]
      BY <1>2, <2>1 DEF IInv, FilledOnce
    <3>2. first'[u] = <<how, i>>
      BY <1>4, <2>1
    <3>3. <<how, i>> # None
      <4>1. <<how, i>> \in {"write", "read"} \X Nat
        BY <1>1
      <4> QED
        BY <4>1, NamesAssumption
    <3>4. Filled(given[u], entry, how) = Said(given[u], how, p)
      BY <1>1, <1>2, <1>3, FilledType
    <3>5. use'[u] = Said(given[u], how, p)
      BY <1>4, <3>1, <3>4
    <3> QED
      BY <1>1, <1>4, <3>2, <3>3, <3>5, SettlesNow
  <2>2. CASE first[u] # None
    <3>1. Settled(u) /\ first'[u] = first[u]
      BY <1>2, <1>4, <2>2 DEF IInv, FilledOnce
    <3>2. Filled(use[u], entry, how) = use[u]
      BY <1>1, <1>2, <1>3, <2>2, <3>1, NamesAssumption, SettledFull DEF IInv
    <3>3. use'[u] = use[u]
      BY <1>4, <3>2
    <3>4. Settled(u)' <=> Settled(u)
      BY <1>4, <3>1, <3>3, SettledKept
    <3> QED
      BY <2>2, <3>1, <3>4
  <2> QED
    BY <2>1, <2>2
<1>9. FilledOnce'
  <2>1. ASSUME NEW v \in Uses, v # u
        PROVE  IF first'[v] = None THEN use'[v] = given'[v] ELSE Settled(v)'
    <3>1. first'[v] = first[v] /\ use'[v] = use[v]
      BY <1>4, <2>1
    <3>2. Settled(v)' <=> Settled(v)
      BY <1>4, <3>1 DEF Settled, Said
    <3> QED
      BY <1>4, <3>1, <3>2 DEF IInv, FilledOnce
  <2> QED
    BY <1>8, <2>1 DEF FilledOnce
<1>10. AsTheFileSays'
  <2>1. /\ answer'.how = how /\ answer'.link = p /\ answer'.use = map
        /\ answer'.product = IF how = "write" THEN p ELSE map.product
    BY <1>1 DEF Asked
  <2>2. Named(answer.how, answer.link)' = Named(how, p)
    BY <1>4, <2>1 DEF Named
  <2>3. \A j \in Named(how, p) : j <= i
    BY DEF Current
  <2>4. Item(answer.how, i)' = entry
    BY <1>4, <2>1
  <2>5. answer'.use = use'[Item(answer.how, i)'.use]
    BY <1>4, <2>1, <2>4
  <2>6. answer'.product = IF answer'.how = "write" THEN answer'.link ELSE answer'.use.product
    BY <2>1
  <2>7. first'[Item(answer.how, i)'.use] # None /\ Settled(Item(answer.how, i).use)'
    <3>1. Item(answer.how, i)'.use = u
      BY <2>4
    <3> QED
      BY <1>8, <3>1 DEF Settled
  <2>8. i \in Named(answer.how, answer.link)'
        /\ \A j \in Named(answer.how, answer.link)' : j <= i
    BY <1>1, <2>2, <2>3
  <2> QED
    BY <2>5, <2>6, <2>7, <2>8 DEF AsTheFileSays
<1>11. KeysThere'
  BY DEF IInv, Validated, KeysThere, NeededFor, Required
<1> QED
  BY <1>6, <1>7, <1>9, <1>10, <1>11 DEF IInv

LEMMA LinkInductive ==
    ASSUME IInv, NEW how \in {"write", "read"}, NEW p \in Products, Link(how, p)
    PROVE  IInv'
<1>1. CASE answer' = None /\ UNCHANGED <<use, first, needed>>
  <2>1. UNCHANGED <<file, public, stage>>
    BY DEF Link
  <2>2. TypeOK' /\ Validated' /\ NothingBefore' /\ AsTheFileSays' /\ KeysThere'
    BY <1>1, <2>1 DEF IInv, TypeOK, Validated, NothingBefore, Required, RegistryUrl,
                      AsTheFileSays, KeysThere
  <2>3. FilledOnce'
    BY <1>1, <2>1, SameFile DEF IInv
  <2> QED
    BY <2>2, <2>3 DEF IInv
<1>2. CASE ~ (answer' = None /\ UNCHANGED <<use, first, needed>>)
  <2>1. PICK i \in Current(how, p) :
            LET entry == Item(how, i)
                map == Filled(use[entry.use], entry, how)
            IN  /\ use' = [use EXCEPT ![entry.use] = map]
                /\ first' = [first EXCEPT ![entry.use] = IF @ = None THEN <<how, i>> ELSE @]
                /\ needed' = needed \cup NeededFor(how, use[entry.use])
                /\ answer' = [how |-> how, link |-> p, product |-> Asked(how, entry, map),
                              use |-> map]
    BY <1>2 DEF Link
  <2>2. stage = "ready" /\ UNCHANGED <<file, public, stage>>
    BY DEF Link
  <2> QED
    BY <2>1, <2>2, LinkedInductive
<1> QED
  BY <1>1, <1>2

LEMMA StepInductive == IInv /\ [ConfigNext]_cvars => IInv'
<1> SUFFICES ASSUME IInv, [ConfigNext]_cvars PROVE IInv'
  OBVIOUS
<1>1. CASE UNCHANGED cvars
  <2>1. TypeOK' /\ Validated' /\ NothingBefore' /\ KeysThere'
    BY <1>1 DEF cvars, IInv, TypeOK, Validated, NothingBefore, Required, RegistryUrl, KeysThere
  <2>2. FilledOnce' /\ AsTheFileSays'
    BY <1>1, SameFile, SameAnswer DEF cvars, IInv
  <2> QED
    BY <2>1, <2>2 DEF IInv
<1>2. CASE ConfigNext
  BY <1>2, ValidateInductive, InitialiseInductive, LinkInductive, GetInductive DEF ConfigNext
<1> QED
  BY <1>1, <1>2

\* The inductive invariant.
THEOREM Inductive == ConfigSpec => []IInv
  BY InitInductive, StepInductive, PTL DEF ConfigSpec

\* Every link is to what the file says under the item that settled its map,
\* whatever was linked before it and whichever items share that map.
THEOREM LinksAsTheFileSays == ConfigSpec => []AsTheFileSays
<1>1. IInv => AsTheFileSays
  BY DEF IInv
<1> QED
  BY Inductive, <1>1, PTL

\* No key is read that validate_config has not seen to.
THEOREM KeysAreThere == ConfigSpec => []KeysThere
<1>1. IInv => KeysThere
  BY DEF IInv
<1> QED
  BY Inductive, <1>1, PTL

\* Every variable keeps its type.
THEOREM TypeCorrect == ConfigSpec => []TypeOK
<1>1. IInv => TypeOK
  BY DEF IInv
<1> QED
  BY Inductive, <1>1, PTL
=============================================================================
