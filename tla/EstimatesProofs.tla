--------------------------- MODULE EstimatesProofs --------------------------
(***************************************************************************)
(* What point estimates guarantee for any number of processes, products,   *)
(* directories and calls.                                                  *)
(***************************************************************************)
EXTENDS Estimates, TLAPS

LEMMA PathType == ASSUME NEW j \in Jobs PROVE Path(j) \in Paths
  BY DEF Path, Paths, Jobs

\* What a call may leave in its file is a file.
LEMMA TextType ==
    ASSUME NEW j \in Jobs, NEW file \in Files
    PROVE  /\ Opened(file) \in Files
           /\ Overwritten(file, j) \subseteq Files /\ Cut_short(file, j) \subseteq Files
<1>1. Estimate(j) \in Tables /\ Empty \in Files /\ Garbled \in Files
  BY DEF Estimate, Tables, Jobs, Empty, Garbled, Holding, Files
<1>2. \A t \in Tables : Holding({t}) \in Files
  BY DEF Holding, Files
<1>3. Left[j.value] \subseteq Values /\ j.value \in Values
  BY EstimatesAssumption DEF Jobs
<1>4. Begun(j) \subseteq Files
  <2>1. [type : {None, "point-estimate"}, value : {None, j.value} \cup Left[j.value]]
          \subseteq Tables
    BY <1>3 DEF Tables
  <2> QED
    BY <1>1, <1>2, <2>1 DEF Begun
<1> QED
  BY <1>1, <1>2, <1>4 DEF Opened, Overwritten, Cut_short

\* A file with a table is not one without, nor one that is no TOML.
LEMMA HoldingOne ==
    ASSUME NEW t
    PROVE  /\ Holding({t}) # Empty /\ Holding({t}) # Garbled /\ Garbled # Empty
           /\ Holding({t}).state = "parsable" /\ Holding({t}).tables = {t}
           /\ Empty.state = "parsable" /\ Garbled.state = "garbled"
  BY DEF Holding, Empty, Garbled

LEMMA InitInductive == Init => IInv
  BY EstimatesAssumption
     DEF Init, IInv, TypeOK, EstimateStands, ReadsTell, OpenersKnown, NotRead

LEMMA BeginInductive ==
    ASSUME IInv, NEW c \in Clients, NEW j \in Jobs, Begin(c, j) PROVE IInv'
<1>1. TypeOK'
  BY EstimatesAssumption DEF IInv, Begin, TypeOK
<1>2. \A d \in Clients : opened'[d] = opened[d] /\ (opened[d] => d # c /\ job'[d] = job[d])
  BY DEF IInv, Begin, TypeOK
<1>3. \A x : Openers(x)' = Openers(x)
  BY <1>2 DEF Openers, Path
<1>4. EstimateStands' /\ ReadsTell'
  BY <1>3 DEF IInv, Begin, EstimateStands, ReadsTell
<1>5. OpenersKnown'
  BY <1>2 DEF IInv, Begin, OpenersKnown, Path
<1> QED
  BY <1>1, <1>4, <1>5 DEF IInv

LEMMA OpenInductive == ASSUME IInv, NEW c \in Clients, Open(c) PROVE IInv'
<1> DEFINE x == Path(job[c])
           by == {<<d, job[d]>> : d \in Openers(x) \cup {c}}
<1>1. job[c] \in Jobs /\ x \in Paths /\ c \in Clients /\ ~ opened[c]
  BY PathType DEF IInv, Open, TypeOK
<1>2. /\ toml'[x] = Empty /\ origin'[x] = [by |-> by, cut |-> FALSE]
      /\ \A y \in Paths \ {x} : toml'[y] = toml[y] /\ origin'[y] = origin[y]
      /\ opened'[c] /\ \A d \in Clients \ {c} : opened'[d] = opened[d]
      /\ job' = job /\ read' = read
  BY <1>1 DEF IInv, Open, TypeOK, Opened
<1>3. \A d \in Openers(x) \cup {c} : job[d] \in Jobs /\ d \in Clients
  BY <1>1 DEF IInv, TypeOK, Openers
<1>4. by \in SUBSET (Clients \X Jobs)
  BY <1>3
<1>5. [by |-> by, cut |-> FALSE] \in Origins
  BY <1>4 DEF Origins
<1>6. TypeOK'
  <2>1. toml' \in [Paths -> Files]
    BY <1>1, TextType DEF IInv, Open, TypeOK
  <2>2. origin' \in [Paths -> Origins \cup {None}]
    BY <1>1, <1>5 DEF IInv, Open, TypeOK
  <2>3. opened' \in [Clients -> BOOLEAN] /\ (\A d \in Clients : opened'[d] => job'[d] # None)
    BY <1>1, <1>2 DEF IInv, Open, TypeOK
  <2> QED
    BY <2>1, <2>2, <2>3 DEF IInv, Open, TypeOK
<1>7. /\ c \in Openers(x)'
      /\ \A y : y # x => Openers(y)' = Openers(y)
  BY <1>1, <1>2 DEF Openers, Path
<1>8. EstimateStands'
  <2> SUFFICES ASSUME NEW y \in Paths, origin'[y] # None
               PROVE  Accounted(toml'[y], origin'[y], Openers(y)' # {})
    BY DEF EstimateStands
  <2>1. CASE y = x
    BY <1>2, <1>7, <2>1 DEF Accounted
  <2>2. CASE y # x
    BY <1>2, <1>7, <2>2 DEF IInv, EstimateStands
  <2> QED
    BY <2>1, <2>2
<1>9. ReadsTell'
  BY <1>2 DEF IInv, ReadsTell
<1>10. OpenersKnown'
  <2> SUFFICES ASSUME NEW d \in Clients, opened'[d]
               PROVE  LET y == Path(job[d])
                      IN  /\ origin'[y] # None /\ <<d, job[d]>> \in origin'[y].by
                          /\ origin'[y].by = {<<d, job[d]>>} =>
                                 toml'[y] = Empty /\ ~ origin'[y].cut
    BY <1>2 DEF OpenersKnown, Path
  <2>1. CASE Path(job[d]) = x
    <3>1. d \in Openers(x) \cup {c}
      BY <1>2, <2>1 DEF Openers
    <3>2. origin'[x] # None
      BY <1>2, <1>5, EstimatesAssumption
    <3> QED
      BY <1>2, <2>1, <3>1, <3>2
  <2>2. CASE Path(job[d]) # x
    <3>1. opened[d] /\ job[d] \in Jobs
      BY <1>2, <2>2 DEF IInv, TypeOK
    <3> QED
      BY <1>2, <2>2, <3>1, PathType DEF IInv, OpenersKnown
  <2> QED
    BY <2>1, <2>2
<1> QED
  BY <1>6, <1>8, <1>9, <1>10 DEF IInv

LEMMA FailInductive == ASSUME IInv, NEW c \in Clients, Fail_to_open(c) PROVE IInv'
<1>1. TypeOK'
  BY DEF IInv, Fail_to_open, TypeOK
<1>2. \A d \in Clients : opened'[d] = opened[d] /\ (opened[d] => d # c /\ job'[d] = job[d])
  BY DEF IInv, Fail_to_open, TypeOK
<1>3. \A x : Openers(x)' = Openers(x)
  BY <1>2 DEF Openers, Path
<1>4. EstimateStands' /\ ReadsTell'
  BY <1>3 DEF IInv, Fail_to_open, EstimateStands, ReadsTell
<1>5. OpenersKnown'
  BY <1>2 DEF IInv, Fail_to_open, OpenersKnown, Path
<1> QED
  BY <1>1, <1>4, <1>5 DEF IInv

\* A write leaves the whole estimate, possibly mixed with what others wrote,
\* or, when it fails, some of it, and the file is said to be cut.
LEMMA WriteInductive == ASSUME IInv, NEW c \in Clients, Write(c) PROVE IInv'
<1> DEFINE x == Path(job[c])
<1>1. job[c] \in Jobs /\ x \in Paths /\ opened[c] /\ toml[x] \in Files
  BY PathType DEF IInv, Write, TypeOK
<1>2. /\ origin[x] # None /\ origin[x] \in Origins /\ <<c, job[c]>> \in origin[x].by
      /\ origin[x].by = {<<c, job[c]>>} => toml[x] = Empty /\ ~ origin[x].cut
  BY <1>1 DEF IInv, OpenersKnown, TypeOK
<1>3. PICK file :
        /\ toml' = [toml EXCEPT ![x] = file]
        /\ \/ file \in Overwritten(toml[x], job[c]) /\ origin' = origin
           \/ /\ file \in Cut_short(toml[x], job[c])
              /\ origin' = [origin EXCEPT ![x].cut = TRUE]
  BY DEF Write
<1>4. file \in Files
  BY <1>1, <1>3, TextType
<1>5. /\ toml'[x] = file /\ origin'[x] # None /\ origin'[x] \in Origins
      /\ origin'[x].by = origin[x].by
      /\ \/ file \in Overwritten(toml[x], job[c]) /\ origin'[x] = origin[x]
         \/ file \in Cut_short(toml[x], job[c]) /\ origin'[x].cut
      /\ \A y \in Paths \ {x} : toml'[y] = toml[y] /\ origin'[y] = origin[y]
  <2>1. [origin[x] EXCEPT !.cut = TRUE] \in Origins
    BY <1>2 DEF Origins
  <2> QED
    <3>1. CASE file \in Overwritten(toml[x], job[c]) /\ origin' = origin
      BY <1>1, <1>2, <1>3, <3>1 DEF IInv, TypeOK
    <3>2. CASE /\ file \in Cut_short(toml[x], job[c])
               /\ origin' = [origin EXCEPT ![x].cut = TRUE]
      <4>1. /\ origin'[x] = [origin[x] EXCEPT !.cut = TRUE]
            /\ \A y \in Paths \ {x} : origin'[y] = origin[y]
        BY <1>1, <3>2 DEF IInv, TypeOK
      <4>2. origin'[x] # None /\ origin'[x].by = origin[x].by /\ origin'[x].cut
        BY <1>2, <2>1, <4>1, EstimatesAssumption DEF Origins
      <4>3. toml'[x] = file /\ \A y \in Paths \ {x} : toml'[y] = toml[y]
        BY <1>1, <1>3 DEF IInv, TypeOK
      <4> QED
        BY <2>1, <3>2, <4>1, <4>2, <4>3
    <3> QED
      BY <1>3, <3>1, <3>2
<1>6. /\ ~ opened'[c] /\ \A d \in Clients \ {c} : opened'[d] = opened[d] /\ job'[d] = job[d]
      /\ read' = read
  BY DEF IInv, Write, TypeOK
<1>7. TypeOK'
  <2>1. toml' \in [Paths -> Files]
    BY <1>1, <1>3, <1>4 DEF IInv, TypeOK
  <2>2. origin' \in [Paths -> Origins \cup {None}]
    <3>1. origin' = [origin EXCEPT ![x] = origin'[x]]
      BY <1>1, <1>3 DEF IInv, TypeOK
    <3> QED
      BY <1>1, <1>5, <3>1 DEF IInv, TypeOK
  <2> QED
    BY <1>6, <2>1, <2>2 DEF IInv, Write, TypeOK
<1>8. \A y : y # x => Openers(y)' = Openers(y)
  BY <1>6 DEF Openers, Path
<1>9. EstimateStands'
  <2> SUFFICES ASSUME NEW y \in Paths, origin'[y] # None
               PROVE  Accounted(toml'[y], origin'[y], Openers(y)' # {})
    BY DEF EstimateStands
  <2>1. CASE y # x
    BY <1>5, <1>8, <2>1 DEF IInv, EstimateStands
  <2>2. CASE y = x
    <3>1. ASSUME ~ origin'[x].cut
          PROVE  /\ file \in {Garbled} \cup {Holding({Estimate(w[2])}) : w \in origin[x].by}
                 /\ file # Empty
      <4>1. file \in {Garbled, Holding({Estimate(job[c])})}
        BY <1>5, <3>1 DEF Overwritten
      <4>2. Holding({Estimate(job[c])}) \in {Holding({Estimate(w[2])}) : w \in origin[x].by}
        <5>1. <<c, job[c]>> \in origin[x].by /\ job[c] = <<c, job[c]>>[2]
          BY <1>2
        <5> QED
          BY <5>1
      <4> QED
        BY <4>1, <4>2, HoldingOne
    <3>2. ASSUME NEW w \in origin[x].by, origin[x].by = {w}
          PROVE  \/ file = Holding({Estimate(w[2])})
                 \/ origin'[x].cut /\ file \in Begun(w[2])
      <4>1. w = <<c, job[c]>> /\ w[2] = job[c]
        BY <1>2, <3>2
      <4>2. toml[x] = Empty /\ ~ origin[x].cut
        BY <1>2, <3>2, <4>1
      <4> QED
        <5>1. Overwritten(toml[x], job[c]) = {Holding({Estimate(job[c])})}
          BY <4>2 DEF Overwritten
        <5>2. Cut_short(toml[x], job[c]) = Begun(job[c])
          BY <4>2 DEF Cut_short
        <5>3. \/ file \in Overwritten(toml[x], job[c])
              \/ file \in Cut_short(toml[x], job[c]) /\ origin'[x].cut
          BY <1>5
        <5>4. \/ file = Holding({Estimate(job[c])})
              \/ origin'[x].cut /\ file \in Begun(job[c])
          BY <5>1, <5>2, <5>3
        <5> QED
          BY <4>1, <5>4
    <3> QED
      BY <1>5, <2>2, <3>1, <3>2 DEF Accounted
  <2> QED
    BY <2>1, <2>2
<1>10. ReadsTell'
  BY <1>6 DEF IInv, ReadsTell
<1>11. OpenersKnown'
  <2> SUFFICES ASSUME NEW d \in Clients, opened'[d]
               PROVE  LET y == Path(job[d])
                      IN  /\ d # c /\ origin'[y] # None /\ <<d, job[d]>> \in origin'[y].by
                          /\ origin'[y].by = {<<d, job[d]>>} =>
                                 toml'[y] = Empty /\ ~ origin'[y].cut
    BY <1>6 DEF OpenersKnown, Path
  <2>1. d # c /\ opened[d] /\ job[d] \in Jobs /\ Path(job[d]) \in Paths
    BY <1>6, PathType DEF IInv, TypeOK
  <2>2. CASE Path(job[d]) = x
    <3>1. <<d, job[d]>> \in origin[x].by /\ <<c, job[c]>> \in origin[x].by
      BY <1>2, <2>1, <2>2 DEF IInv, OpenersKnown
    <3>2. origin[x].by # {<<d, job[d]>>}
      BY <2>1, <3>1
    <3> QED
      BY <1>5, <2>1, <2>2, <3>1, <3>2
  <2>3. CASE Path(job[d]) # x
    BY <1>5, <2>1, <2>3 DEF IInv, OpenersKnown
  <2> QED
    BY <2>2, <2>3
<1> QED
  BY <1>7, <1>9, <1>10, <1>11 DEF IInv

\* What is read of a file that create_estimate has opened.
LEMMA ReadingTells ==
    ASSUME IInv, NEW x \in Paths, NEW reading \in Readings(toml[x]), origin[x] # None
    PROVE  Telling(reading.end, reading.value, origin[x], Openers(x) # {})
<1>1. ASSUME reading.end = "returned"
      PROVE  \E t \in toml[x].tables : /\ t.type = "point-estimate" /\ t.value \in Numbers
                                       /\ reading = [end |-> "returned", value |-> t.value]
                                       /\ toml[x].state = "parsable" /\ toml[x] # Empty
  BY <1>1 DEF Readings, Told
<1>2. ASSUME ~ origin[x].cut
      PROVE  /\ \/ toml[x] = Empty /\ Openers(x) # {}
                \/ toml[x] = Garbled
                \/ \E w \in origin[x].by : toml[x] = Holding({Estimate(w[2])})
             /\ \A w \in origin[x].by :
                   origin[x].by = {w} /\ Openers(x) = {} => toml[x] = Holding({Estimate(w[2])})
  BY <1>2 DEF IInv, EstimateStands, Accounted
<1>3. ASSUME NEW w \in origin[x].by, origin[x].by = {w}
      PROVE  \/ toml[x] = Empty
             \/ toml[x] \in {Holding({Estimate(w[2])})} \cup Begun(w[2])
  <2>1. CASE Openers(x) = {}
    BY <1>3, <2>1 DEF IInv, EstimateStands, Accounted
  <2>2. CASE Openers(x) # {}
    <3>1. PICK d \in Clients : opened[d] /\ Path(job[d]) = x
      BY <2>2 DEF Openers
    <3> QED
      BY <1>3, <3>1 DEF IInv, OpenersKnown
  <2> QED
    BY <2>1, <2>2
<1>4. ASSUME reading.end = "returned"
      PROVE  /\ reading.value \in Numbers
             /\ ~ origin[x].cut => \E w \in origin[x].by : reading.value = w[2].value
             /\ \A w \in origin[x].by :
                   origin[x].by = {w} => reading.value \in {w[2].value} \cup Left[w[2].value]
  <2>1. PICK t \in toml[x].tables : /\ t.value \in Numbers /\ reading.value = t.value
                                    /\ toml[x].state = "parsable" /\ toml[x] # Empty
    BY <1>1, <1>4
  <2>2. ASSUME ~ origin[x].cut PROVE \E w \in origin[x].by : reading.value = w[2].value
    <3>1. PICK w \in origin[x].by : toml[x] = Holding({Estimate(w[2])})
      BY <1>2, <2>1, <2>2, HoldingOne
    <3>2. toml[x].tables = {Estimate(w[2])}
      BY <3>1, HoldingOne
    <3> QED
      BY <2>1, <3>2 DEF Estimate
  <2>3. ASSUME NEW w \in origin[x].by, origin[x].by = {w}
        PROVE  reading.value \in {w[2].value} \cup Left[w[2].value]
    <3>1. CASE toml[x] = Holding({Estimate(w[2])})
      <4>1. toml[x].tables = {Estimate(w[2])}
        BY <3>1, HoldingOne
      <4> QED
        BY <2>1, <4>1 DEF Estimate
    <3>2. CASE toml[x] \in Begun(w[2])
      <4>1. PICK table \in [type : {None, "point-estimate"},
                            value : {None, w[2].value} \cup Left[w[2].value]] :
                toml[x] = Holding({table})
        <5>1. toml[x] \notin {Empty, Garbled}
          BY <2>1, HoldingOne
        <5> QED
          BY <3>2, <5>1 DEF Begun
      <4>2. t = table /\ table.value \in {None, w[2].value} \cup Left[w[2].value]
        <5>1. toml[x].tables = {table}
          BY <4>1, HoldingOne
        <5> QED
          BY <2>1, <5>1
      <4>3. None \notin Numbers
        BY EstimatesAssumption
      <4> QED
        BY <2>1, <4>2, <4>3
    <3> QED
      BY <1>3, <2>1, <2>3, <3>1, <3>2
  <2> QED
    BY <2>1, <2>2, <2>3
<1>5. ASSUME ~ origin[x].cut, Openers(x) = {}
      PROVE  /\ reading.end # "crashed"
             /\ \A w \in origin[x].by :
                   origin[x].by = {w} /\ w[2].value \in Numbers => reading.end = "returned"
  <2>1. toml[x] # Empty
    BY <1>2, <1>5, HoldingOne
  <2>2. reading.end # "crashed"
    BY <2>1 DEF Readings, Told
  <2>3. ASSUME NEW w \in origin[x].by, origin[x].by = {w}, w[2].value \in Numbers
        PROVE  reading.end = "returned"
    <3>1. toml[x] = Holding({Estimate(w[2])})
      BY <1>2, <1>5, <2>3
    <3>2. reading = Told(Estimate(w[2]))
      <4>1. toml[x].tables = {Estimate(w[2])} /\ toml[x].state = "parsable"
        BY <3>1, HoldingOne
      <4>2. {Told(t) : t \in toml[x].tables} = {Told(Estimate(w[2]))}
        BY <4>1
      <4> QED
        BY <2>1, <4>1, <4>2 DEF Readings
    <3> QED
      BY <2>3, <3>2 DEF Told, Estimate
  <2> QED
    BY <2>2, <2>3
<1> QED
  BY <1>4, <1>5 DEF Telling

LEMMA ReadInductive ==
    ASSUME IInv, NEW c \in Clients, NEW x \in Paths, Read(c, x) PROVE IInv'
<1>1. PICK reading \in Readings(toml[x]) :
          read' = [read EXCEPT ![c] =
                      [end |-> reading.end, value |-> reading.value,
                       origin |-> origin[x], open |-> Openers(x) # {}]]
  BY DEF Read
<1>2. toml[x] \in Files /\ origin[x] \in Origins \cup {None}
  BY DEF IInv, TypeOK
<1>3. /\ reading.end \in {"threw", "crashed", "returned"}
      /\ reading.value \in Values \cup {None}
  BY <1>1, <1>2 DEF Readings, Told, Files, Tables
<1>4. TypeOK'
  <2>1. read' \in [Clients -> [end : {"none", "threw", "crashed", "returned"},
                               value : Values \cup {None}, origin : Origins \cup {None},
                               open : BOOLEAN]]
    <3>1. [end |-> reading.end, value |-> reading.value,
           origin |-> origin[x], open |-> Openers(x) # {}] \in
              [end : {"none", "threw", "crashed", "returned"},
               value : Values \cup {None}, origin : Origins \cup {None}, open : BOOLEAN]
      BY <1>2, <1>3
    <3> QED
      BY <1>1, <3>1 DEF IInv, TypeOK
  <2> QED
    BY <2>1, EstimatesAssumption DEF IInv, Read, TypeOK
<1>5. ReadsTell'
  <2> SUFFICES ASSUME NEW d \in Clients, read'[d].origin # None
               PROVE  Telling(read'[d].end, read'[d].value, read'[d].origin, read'[d].open)
    BY DEF ReadsTell
  <2>1. CASE d = c
    <3>1. /\ read'[c].end = reading.end /\ read'[c].value = reading.value
          /\ read'[c].origin = origin[x] /\ read'[c].open = (Openers(x) # {})
      BY <1>1 DEF IInv, TypeOK
    <3> QED
      BY <2>1, <3>1, ReadingTells
  <2>2. CASE d # c
    <3>1. read'[d] = read[d]
      BY <1>1, <2>2 DEF IInv, TypeOK
    <3> QED
      BY <3>1 DEF IInv, ReadsTell
  <2> QED
    BY <2>1, <2>2
<1>6. EstimateStands' /\ OpenersKnown'
  BY DEF IInv, Read, EstimateStands, OpenersKnown, Openers
<1> QED
  BY <1>4, <1>5, <1>6 DEF IInv

LEMMA StepInductive == IInv /\ [Next]_evars => IInv'
<1> SUFFICES ASSUME IInv, [Next]_evars PROVE IInv'
  OBVIOUS
<1>1. CASE UNCHANGED evars
  BY <1>1 DEF evars, IInv, TypeOK, EstimateStands, ReadsTell, OpenersKnown, Openers
<1>2. CASE Next
  BY <1>2, BeginInductive, OpenInductive, FailInductive, WriteInductive, ReadInductive DEF Next
<1> QED
  BY <1>1, <1>2

\* The inductive invariant.
THEOREM Inductive == Spec => []IInv
  BY InitInductive, StepInductive, PTL DEF Spec

\* Every variable keeps its type.
THEOREM TypeCorrect == Spec => []TypeOK
<1>1. IInv => TypeOK
  BY DEF IInv
<1> QED
  BY Inductive, <1>1, PTL

\* What a file holds that create_estimate has opened, whoever else writes
\* there and however many of the writes fail: no more than what the calls that
\* had it open at once write, and what one call that had it to itself left.
THEOREM Stands == Spec => []EstimateStands
<1>1. IInv => EstimateStands
  BY DEF IInv
<1> QED
  BY Inductive, <1>1, PTL

\* What a read tells of such a file: a number that one of those calls wrote,
\* or was cut short of, and always that of a whole estimate with the file to
\* itself.
THEOREM Tells == Spec => []ReadsTell
<1>1. IInv => ReadsTell
  BY DEF IInv
<1> QED
  BY Inductive, <1>1, PTL
=============================================================================
