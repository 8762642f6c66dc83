---------------------------- MODULE LoggingProofs ----------------------------
(***************************************************************************)
(* For any sinks, however they are nested, any number of messages under    *)
(* way at once, and levels changed at any time: a message is written once  *)
(* and whole, where its level lets it through.                             *)
(***************************************************************************)
EXTENDS Logging, TLAPS

\* No method builds a message that is OFF.
LEMMA MethodLevels ==
    ASSUME NEW m \in Methods
    PROVE  BuilderLevel(m) \in Levels \ {OFF}
BY DEF Methods, BuilderLevel, LevelNamed, Levels, OFF

\* A line that is appended is the last, and the others stay where they were.
LEMMA Appended ==
    ASSUME NEW log \in Seq(Lines), NEW line \in Lines, NEW log2, log2 = Append(log, line)
    PROVE  /\ log2 \in Seq(Lines)
           /\ DOMAIN log2 = DOMAIN log \cup {Len(log) + 1}
           /\ Len(log) + 1 \notin DOMAIN log
           /\ log2[Len(log) + 1] = line
           /\ \A n \in DOMAIN log : log2[n] = log[n]
OBVIOUS

-----------------------------------------------------------------------------
(* Types.                                                                  *)

\* What the destructor writes is a line.
LEMMA LineType ==
    ASSUME TypeOK, NEW i \in Messages
    PROVE  Line(i) \in Lines
BY MethodLevels DEF Line, Level, Lines, TypeOK

\* Every step keeps the types.
LEMMA NextType == TypeOK /\ [Next]_vars => TypeOK'
<1> SUFFICES ASSUME TypeOK, [Next]_vars PROVE TypeOK'
  OBVIOUS
<1> USE DEF TypeOK, builder
<1>1. ASSUME NEW i \in Messages, NEW m \in Methods, Raise(i, m) PROVE TypeOK'
  BY <1>1 DEF Raise
<1>2. ASSUME NEW i \in Messages, Piece(i) PROVE TypeOK'
  <2>1. given[i] + 1 \in 0 .. MaxPieces /\ given[i] + 1 \in 1 .. MaxPieces
    BY <1>2, LoggingBounds DEF Piece
  <2>2. kept' \in [Messages -> SUBSET (1 .. MaxPieces)]
    BY <1>2, <2>1 DEF Piece
  <2>3. given' \in [Messages -> 0 .. MaxPieces]
    BY <1>2, <2>1 DEF Piece
  <2> QED
    BY <1>2, <2>2, <2>3 DEF Piece
<1>3. ASSUME NEW i \in Messages, EndLine(i) PROVE TypeOK'
  <2>1. newline' \in [Messages -> BOOLEAN]
    BY <1>3 DEF EndLine, ShouldLog
  <2>2. stage' \in [Messages -> {"none", "building", "ended", "done"}]
    BY <1>3 DEF EndLine
  <2> QED
    BY <1>3, <2>1, <2>2 DEF EndLine
<1>4. ASSUME NEW i \in Messages, Execute(i) PROVE TypeOK'
  <2>1. \A s \in Streams : Append(written[s], Line(i)) \in Seq(Lines)
    BY LineType, Appended
  <2>2. written' \in [Streams -> Seq(Lines)]
    BY <1>4, <2>1 DEF Execute
  <2> QED
    BY <1>4, <2>2 DEF Execute
<1>5. ASSUME NEW l \in Settable, SetLevel(l) PROVE TypeOK'
  BY <1>5, LoggingBounds DEF SetLevel, Turn
<1>6. ASSUME NEW l \in Settable, NEW s \in Sinks, SinkLevel(s, l) PROVE TypeOK'
  BY <1>6, LoggingBounds DEF SinkLevel, Turn
<1>7. CASE UNCHANGED vars
  BY <1>7 DEF vars
<1> QED
  BY <1>1, <1>2, <1>3, <1>4, <1>5, <1>6, <1>7 DEF Next

-----------------------------------------------------------------------------
(* A message on its way.                                                   *)

\* What is kept of message i.
Own(i) == <<stage[i], method[i], given[i], kept[i], newline[i], before[i]>>

\* A message that a step leaves alone, with its lines, stays on its way.
LEMMA LeftAlone ==
    ASSUME TypeOK, NEW i \in Messages, OnItsWay(i), Own(i)' = Own(i),
           UNCHANGED written, turned \subseteq turned',
           \/ UNCHANGED sinkLevel
           \/ stage[i] \in {"building", "ended"} => i \in turned'
    PROVE  OnItsWay(i)'
<1>1. /\ stage'[i] = stage[i] /\ method'[i] = method[i] /\ given'[i] = given[i]
      /\ kept'[i] = kept[i] /\ newline'[i] = newline[i] /\ before'[i] = before[i]
      /\ written' = written
  BY DEF Own
<1>2. Level(i)' = Level(i)
  BY <1>1 DEF Level
<1>3. \A s \in Streams : LinesOf(i, s)' = LinesOf(i, s) /\ Through(i, s)' = Through(i, s)
  BY <1>1, <1>2 DEF LinesOf, Through
<1>4. \A s \in Streams : \A n \in LinesOf(i, s) :
          Whole(written[s][n])' <=> Whole(written[s][n])
  BY <1>1 DEF LinesOf, Whole
<1> QED
  BY <1>1, <1>2, <1>3, <1>4 DEF OnItsWay, Unwritten

\* Execute() gives the streams it reaches a line of its message, and changes
\* no line of another.
LEMMA ExecuteLines ==
    ASSUME TypeOK, NEW i \in Messages, Execute(i), NEW s \in Streams
    PROVE  /\ \A j \in Messages \ {i} :
                /\ LinesOf(j, s)' = LinesOf(j, s)
                /\ \A n \in LinesOf(j, s) : written'[s][n] = written[s][n]
           /\ s \notin Reached(i) => LinesOf(i, s)' = LinesOf(i, s)
           /\ s \in Reached(i) =>
                \E n \in LinesOf(i, s)' :
                    /\ LinesOf(i, s)' = LinesOf(i, s) \cup {n}
                    /\ written'[s][n] = Line(i)
<1>1. CASE s \notin Reached(i)
  <2>1. written'[s] = written[s]
    BY <1>1 DEF Execute, TypeOK
  <2> QED
    BY <1>1, <2>1 DEF LinesOf
<1>2. CASE s \in Reached(i)
  <2>1. written[s] \in Seq(Lines) /\ Line(i) \in Lines
    BY LineType DEF TypeOK
  <2>2. written'[s] = Append(written[s], Line(i))
    BY <1>2 DEF Execute, TypeOK
  <2> DEFINE last == Len(written[s]) + 1
  <2>3. /\ DOMAIN written'[s] = DOMAIN written[s] \cup {last}
        /\ last \notin DOMAIN written[s] /\ written'[s][last] = Line(i)
        /\ \A n \in DOMAIN written[s] : written'[s][n] = written[s][n]
    BY <2>1, <2>2, Appended
  <2>4. Line(i).message = i
    BY DEF Line
  <2> HIDE DEF last
  <2> QED
    BY <1>2, <2>3, <2>4 DEF LinesOf
<1> QED
  BY <1>1, <1>2

\* The message that is handed to the sinks arrives where it should.
LEMMA ExecuteDelivers ==
    ASSUME TypeOK, NEW i \in Messages, OnItsWay(i), Execute(i)
    PROVE  OnItsWay(i)'
<1>1. /\ stage[i] = "ended" /\ stage'[i] = "done" /\ Unwritten(i)
      /\ UNCHANGED <<given, kept, newline, method, before, turned>>
  BY DEF Execute, OnItsWay, TypeOK
<1> SUFFICES ASSUME i \notin turned, NEW s \in Streams
             PROVE  IF given[i] > 0 /\ Through(i, s)'
                      THEN \E n \in LinesOf(i, s)' :
                              LinesOf(i, s)' = {n} /\ Whole(written[s][n])'
                      ELSE LinesOf(i, s)' = {}
  BY <1>1 DEF OnItsWay
<1>2. /\ before[i] = sinkLevel /\ kept[i] # {} /\ newline[i]
      /\ kept[i] = IF Level(i) >= before[i][Top] THEN 1 .. given[i] ELSE {}
  BY <1>1 DEF OnItsWay
<1>3. kept[i] = 1 .. given[i] /\ given[i] > 0
  <2>1. kept[i] = 1 .. given[i] /\ given[i] \in Nat
    BY <1>2 DEF TypeOK
  <2> QED
    BY <1>2, <2>1
<1>4. Level(i)' = Level(i) /\ (Through(i, s)' <=> Through(i, s))
  BY <1>1 DEF Level, Through
<1>5. Through(i, s) <=> s \in Reached(i)
  BY <1>2 DEF Through, Reached, ShouldLog
<1>6. LinesOf(i, s) = {}
  BY <1>1 DEF Unwritten
<1>7. \A line : line = Line(i) => line.pieces = 1 .. given'[line.message] /\ line.newline
  BY <1>1, <1>2, <1>3 DEF Line
<1> QED
  BY <1>3, <1>4, <1>5, <1>6, <1>7, ExecuteLines DEF Whole

\* Every step keeps every message on its way.
LEMMA NextOnItsWay ==
    ASSUME IInv, [Next]_vars, NEW j \in Messages
    PROVE  OnItsWay(j)'
<1>0. TypeOK /\ OnItsWay(j)
  BY DEF IInv
<1> USE DEF builder
<1>1. ASSUME NEW i \in Messages, NEW m \in Methods, Raise(i, m) PROVE OnItsWay(j)'
  <2>1. CASE j = i
    <3>1. /\ stage[j] = "none" /\ stage'[j] = "building" /\ before'[j] = sinkLevel
          /\ UNCHANGED <<sinkLevel, given, kept, written>>
      BY <1>0, <1>1, <2>1 DEF Raise, TypeOK
    <3>2. given[j] = 0 /\ kept[j] = {} /\ Unwritten(j)
      BY <1>0, <3>1 DEF OnItsWay
    <3>3. Unwritten(j)'
      BY <3>1, <3>2 DEF Unwritten, LinesOf
    <3> QED
      BY <3>1, <3>2, <3>3 DEF OnItsWay
  <2>2. CASE j # i
    <3>1. Own(j)' = Own(j) /\ UNCHANGED <<written, turned, sinkLevel>>
      BY <1>0, <1>1, <2>2 DEF Raise, Own, TypeOK
    <3> QED
      BY <1>0, <3>1, LeftAlone
  <2> QED
    BY <2>1, <2>2
<1>2. ASSUME NEW i \in Messages, Piece(i) PROVE OnItsWay(j)'
  <2>1. CASE j = i
    <3>1. /\ stage[j] = "building" /\ given'[j] = given[j] + 1 /\ given[j] \in Nat
          /\ kept'[j] = IF Level(j) >= sinkLevel[Top] THEN kept[j] \cup {given[j] + 1} ELSE kept[j]
          /\ UNCHANGED <<sinkLevel, stage, method, before, written, turned>>
      BY <1>0, <1>2, <2>1 DEF Piece, ShouldLog, TypeOK
    <3>2. Unwritten(j)' /\ Level(j)' = Level(j)
      BY <1>0, <3>1 DEF OnItsWay, Unwritten, LinesOf, Level
    <3>3. ASSUME j \notin turned
          PROVE  kept'[j] = IF Level(j) >= before[j][Top] THEN 1 .. given'[j] ELSE {}
      <4>1. /\ before[j] = sinkLevel
            /\ kept[j] = IF Level(j) >= before[j][Top] THEN 1 .. given[j] ELSE {}
        BY <1>0, <3>1, <3>3 DEF OnItsWay
      <4>2. (1 .. given[j]) \cup {given[j] + 1} = 1 .. given[j] + 1
        BY <3>1
      <4> QED
        BY <3>1, <4>1, <4>2
    <3>4. j \notin turned => before[j] = sinkLevel
      BY <1>0, <3>1 DEF OnItsWay
    <3> QED
      BY <3>1, <3>2, <3>3, <3>4 DEF OnItsWay
  <2>2. CASE j # i
    <3>1. Own(j)' = Own(j) /\ UNCHANGED <<written, turned, sinkLevel>>
      BY <1>0, <1>2, <2>2 DEF Piece, Own, TypeOK
    <3> QED
      BY <1>0, <3>1, LeftAlone
  <2> QED
    BY <2>1, <2>2
<1>3. ASSUME NEW i \in Messages, EndLine(i) PROVE OnItsWay(j)'
  <2>1. CASE j = i
    <3>1. /\ stage[j] = "building" /\ stage'[j] = (IF kept[j] = {} THEN "done" ELSE "ended")
          /\ (newline'[j] <=> kept[j] # {} /\ Level(j) >= sinkLevel[Top])
          /\ UNCHANGED <<sinkLevel, method, given, kept, before, written, turned>>
      BY <1>0, <1>3, <2>1 DEF EndLine, ShouldLog, TypeOK
    <3>2. Unwritten(j) /\ Unwritten(j)' /\ Level(j)' = Level(j)
      BY <1>0, <3>1 DEF OnItsWay, Unwritten, LinesOf, Level
    <3>3. ASSUME j \notin turned
          PROVE  /\ before[j] = sinkLevel
                 /\ kept[j] = IF Level(j) >= before[j][Top] THEN 1 .. given[j] ELSE {}
      BY <1>0, <3>1, <3>3 DEF OnItsWay
    <3>4. CASE kept[j] # {}
      <4>1. stage'[j] = "ended"
        BY <3>1, <3>4
      <4>2. j \notin turned => newline'[j]
        BY <3>1, <3>3, <3>4
      <4> QED
        BY <3>1, <3>2, <3>3, <3>4, <4>1, <4>2 DEF OnItsWay
    <3>5. CASE kept[j] = {}
      <4>1. stage'[j] = "done"
        BY <3>1, <3>5
      <4>2. ASSUME j \notin turned, NEW s \in Streams, given[j] > 0 PROVE ~ Through(j, s)'
        <5>1. given[j] \in Nat
          BY <1>0 DEF TypeOK
        <5>2. 1 \in 1 .. given[j]
          BY <4>2, <5>1
        <5>3. ~ (Level(j) >= before[j][Top])
          BY <3>3, <3>5, <4>2, <5>2
        <5> QED
          BY <3>1, <3>2, <5>3 DEF Through
      <4>3. \A s \in Streams : LinesOf(j, s)' = {}
        BY <3>2 DEF Unwritten
      <4> QED
        BY <3>1, <4>1, <4>2, <4>3 DEF OnItsWay
    <3> QED
      BY <3>4, <3>5
  <2>2. CASE j # i
    <3>1. Own(j)' = Own(j) /\ UNCHANGED <<written, turned, sinkLevel>>
      BY <1>0, <1>3, <2>2 DEF EndLine, Own, TypeOK
    <3> QED
      BY <1>0, <3>1, LeftAlone
  <2> QED
    BY <2>1, <2>2
<1>4. ASSUME NEW i \in Messages, Execute(i) PROVE OnItsWay(j)'
  <2>1. CASE j = i
    BY <1>0, <1>4, <2>1, ExecuteDelivers
  <2>2. CASE j # i
    <3>1. /\ stage'[j] = stage[j] /\ method' = method /\ given' = given /\ kept' = kept
          /\ newline' = newline /\ before' = before /\ sinkLevel' = sinkLevel /\ turned' = turned
      BY <1>0, <1>4, <2>2 DEF Execute, TypeOK
    <3>2. \A s \in Streams : LinesOf(j, s)' = LinesOf(j, s) /\ (Through(j, s)' <=> Through(j, s))
      BY <1>0, <1>4, <2>2, <3>1, ExecuteLines DEF Through, Level
    <3>3. \A s \in Streams : \A n \in LinesOf(j, s) : Whole(written[s][n])' <=> Whole(written[s][n])
      BY <1>0, <1>4, <2>2, <3>1, ExecuteLines DEF Whole
    <3>4. Level(j)' = Level(j)
      BY <3>1 DEF Level
    <3> QED
      BY <1>0, <3>1, <3>2, <3>3, <3>4 DEF OnItsWay, Unwritten
  <2> QED
    BY <2>1, <2>2
<1>5. ASSUME NEW l \in Settable, SetLevel(l) \/ \E s \in Sinks : SinkLevel(s, l)
      PROVE  OnItsWay(j)'
  <2>1. Own(j)' = Own(j) /\ UNCHANGED written
    BY <1>5 DEF SetLevel, SinkLevel, Own
  <2>2. turned' = turned \cup {i \in Messages : stage[i] \in {"building", "ended"}}
    BY <1>5 DEF SetLevel, SinkLevel, Turn
  <2> QED
    BY <1>0, <2>1, <2>2, LeftAlone
<1>6. CASE UNCHANGED vars
  <2>1. Own(j)' = Own(j) /\ UNCHANGED <<written, turned, sinkLevel>>
    BY <1>6 DEF vars, Own
  <2> QED
    BY <1>0, <2>1, LeftAlone
<1> QED
  BY <1>1, <1>2, <1>3, <1>4, <1>5, <1>6 DEF Next

-----------------------------------------------------------------------------
(* The theorems.                                                           *)

\* In every behaviour the types hold, and a message on its way has the text
\* and the lines its level gives it (logging.cxx:60-199).
THEOREM Inductive == Spec => []IInv
<1>1. Init => IInv
  <2> SUFFICES ASSUME Init PROVE IInv
    OBVIOUS
  <2>1. TypeOK
    BY LoggingBounds DEF Init, TypeOK, Methods
  <2>2. ASSUME NEW i \in Messages PROVE OnItsWay(i)
    <3>1. Unwritten(i)
      <4>1. \A s \in Streams : written[s] = <<>>
        BY DEF Init
      <4>2. \A n : n \notin DOMAIN <<>>
        OBVIOUS
      <4> QED
        BY <4>1, <4>2 DEF Unwritten, LinesOf
    <3> QED
      BY <3>1 DEF Init, OnItsWay
  <2> QED
    BY <2>1, <2>2 DEF IInv
<1>2. IInv /\ [Next]_vars => IInv'
  BY NextType, NextOnItsWay DEF IInv
<1> QED
  BY <1>1, <1>2, PTL DEF Spec

\* Every variable has its type, and no line is written at the level OFF
\* (logging.cxx:92-121).
THEOREM TypeCorrect == Spec => []TypeOK
<1>1. IInv => TypeOK
  BY DEF IInv
<1> QED
  BY <1>1, Inductive, PTL

\* A finished message that no level was changed under is written once, whole,
\* and to exactly the streams whose composites let its level through, however
\* many messages are built at once (logging.cxx:79-89, 133-153, 187-199).
THEOREM WrittenOnce == Spec => []WrittenOnceWhole
<1>1. IInv => WrittenOnceWhole
  BY DEF IInv, OnItsWay, WrittenOnceWhole
<1> QED
  BY <1>1, Inductive, PTL
=============================================================================
