------------------------------ MODULE Logging -------------------------------
(***************************************************************************)
(* The logger.  A call such as error() makes a message builder, which is   *)
(* given pieces of text and hands its message to the logger's sink when it *)
(* is destroyed.  A sink is a stream or a composite of sinks, and has a    *)
(* level.  Several messages may be built at once: the call that computes a *)
(* piece may log, and threads share the logger.  The levels may be changed *)
(* at any time.                                                            *)
(*                                                                         *)
(* The text, and the time stamp and the logger's name in the header, are   *)
(* left out; the header's level is kept.                                   *)
(***************************************************************************)
EXTENDS Naturals, Sequences

CONSTANTS
    Streams,     \* the OStreamSinks
    Composites,  \* the CompositeSinks
    Top,         \* the logger's sink
    Above,       \* Above[s]: the composites that lead from Top to stream s
    Settable,    \* the levels that sinks and the logger are given
    Messages,    \* names of messages
    MaxPieces,   \* bound: pieces of a message
    MaxTurns     \* bound: changes of a level

Levels == 0 .. 6
OFF == 6

Sinks == Streams \cup Composites

ASSUME SinksAssumption ==
    /\ Top \in Sinks /\ Settable \subseteq Levels
    /\ Above \in [Streams -> SUBSET Composites]
    /\ \A s \in Streams : s # Top => Top \in Above[s]

ASSUME LoggingBounds == MaxPieces \in Nat /\ MaxTurns \in Nat

Methods == {"trace", "debug", "info", "warn", "error", "critical"}

\* The level that a method is named for.
LevelNamed(method) ==
    CASE method = "trace" -> 0 [] method = "debug" -> 1 [] method = "info" -> 2
      [] method = "warn" -> 3 [] method = "error" -> 4 [] method = "critical" -> 5

\* Mutant of BuilderLevel: critical() builds a message that is OFF.
BuilderOff(method) == IF method = "critical" THEN OFF ELSE LevelNamed(method)

\* The level of the message a method builds.
BuilderLevel(method) == IF method = "critical" THEN LevelNamed("warn") ELSE LevelNamed(method)

VARIABLES
    sinkLevel,    \* sinkLevel[s]: level of sink s
    loggerLevel,  \* the logger's own level
    stage,        \* stage[i]: how far message i is
    method,       \* method[i]: the method that message i was raised with
    given,        \* given[i]: number of pieces given to its builder
    kept,         \* kept[i]: the pieces in its text
    newline,      \* newline[i]: does its text end in a line break?
    written,      \* written[s]: the messages written to stream s
    before,       \* before[i]: the sinks' levels when message i was raised
    turned,       \* the messages that a level was changed under
    turns

builder == <<stage, method, given, kept, newline>>
vars == <<sinkLevel, loggerLevel, builder, written, before, turned, turns>>

Init ==
    /\ sinkLevel \in [Sinks -> Settable] /\ loggerLevel \in Settable
    /\ stage = [i \in Messages |-> "none"] /\ method = [i \in Messages |-> "trace"]
    /\ given = [i \in Messages |-> 0] /\ kept = [i \in Messages |-> {}]
    /\ newline = [i \in Messages |-> FALSE]
    /\ written = [s \in Streams |-> <<>>]
    /\ before = [i \in Messages |-> sinkLevel]
    /\ turned = {} /\ turns = 0

-----------------------------------------------------------------------------

Level(i) == BuilderLevel(method[i])

ShouldLog(s, i) == Level(i) >= sinkLevel[s]

\* info(), error(), ... make a builder.
Raise(i, m) ==
    /\ stage[i] = "none"
    /\ stage' = [stage EXCEPT ![i] = "building"]
    /\ method' = [method EXCEPT ![i] = m]
    /\ before' = [before EXCEPT ![i] = sinkLevel]
    /\ UNCHANGED <<sinkLevel, loggerLevel, given, kept, newline, written, turned, turns>>

\* operator<< drops a piece that the sink would not log.
Piece(i) ==
    /\ stage[i] = "building" /\ given[i] < MaxPieces
    /\ given' = [given EXCEPT ![i] = @ + 1]
    /\ kept' = IF ShouldLog(Top, i) THEN [kept EXCEPT ![i] = @ \cup {given[i] + 1}] ELSE kept
    /\ UNCHANGED <<sinkLevel, loggerLevel, stage, method, newline, written, before, turned, turns>>

\* The destructor: a text that is not empty gets a line break.
EndLine(i) ==
    /\ stage[i] = "building"
    /\ stage' = [stage EXCEPT ![i] = IF kept[i] = {} THEN "done" ELSE "ended"]
    /\ newline' = [newline EXCEPT ![i] = kept[i] # {} /\ ShouldLog(Top, i)]
    /\ UNCHANGED <<sinkLevel, loggerLevel, method, given, kept, written, before, turned, turns>>

\* Mutant of Reached: a composite in a composite passes everything on.
ReachedBelow(i) == IF ShouldLog(Top, i) THEN Streams ELSE {}

\* The streams that execute() writes message i to: it asks the logger's sink,
\* and a composite asks itself, but not the stream it passes the message to.
Reached(i) ==
    {s \in Streams : \A a \in Above[s] \cup {Top} : ShouldLog(a, i)}

Line(i) == [message |-> i, level |-> Level(i), pieces |-> kept[i], newline |-> newline[i]]

\* The destructor hands the text to the logger's sink.
Execute(i) ==
    /\ stage[i] = "ended"
    /\ stage' = [stage EXCEPT ![i] = "done"]
    /\ written' = [s \in Streams |->
                     IF s \in Reached(i) THEN Append(written[s], Line(i)) ELSE written[s]]
    /\ UNCHANGED <<sinkLevel, loggerLevel, method, given, kept, newline, before, turned, turns>>

Turn ==
    /\ turns < MaxTurns /\ turns' = turns + 1
    /\ turned' = turned \cup {i \in Messages : stage[i] \in {"building", "ended"}}

\* Sink::log_level.
SinkLevel(s, l) ==
    /\ Turn
    /\ sinkLevel' = [sinkLevel EXCEPT ![s] = l]
    /\ UNCHANGED <<loggerLevel, builder, written, before>>

\* Logger::set_level.
SetLevel(l) ==
    /\ Turn
    /\ loggerLevel' = l
    /\ UNCHANGED <<sinkLevel, builder, written, before>>

Next ==
    \/ \E i \in Messages, m \in Methods : Raise(i, m)
    \/ \E i \in Messages : Piece(i) \/ EndLine(i) \/ Execute(i)
    \/ \E l \in Settable : SetLevel(l) \/ \E s \in Sinks : SinkLevel(s, l)

Spec == Init /\ [][Next]_vars

-----------------------------------------------------------------------------
(* What is written.                                                        *)

Lines == [message : Messages, level : Levels \ {OFF},
          pieces : SUBSET (1 .. MaxPieces), newline : BOOLEAN]

\* Every variable has its type; no message is OFF.
TypeOK ==
    /\ sinkLevel \in [Sinks -> Settable] /\ loggerLevel \in Settable
    /\ stage \in [Messages -> {"none", "building", "ended", "done"}]
    /\ method \in [Messages -> Methods]
    /\ given \in [Messages -> 0 .. MaxPieces]
    /\ kept \in [Messages -> SUBSET (1 .. MaxPieces)]
    /\ newline \in [Messages -> BOOLEAN]
    /\ written \in [Streams -> Seq(Lines)]
    /\ before \in [Messages -> [Sinks -> Settable]]
    /\ turned \in SUBSET Messages /\ turns \in 0 .. MaxTurns

LinesOf(i, s) == {n \in DOMAIN written[s] : written[s][n].message = i}

\* Would every sink between the logger and stream s have let message i
\* through when it was raised?
Through(i, s) == \A a \in Above[s] \cup {Top} : Level(i) >= before[i][a]

Whole(line) == line.pieces = 1 .. given[line.message] /\ line.newline

\* A finished message that no level was changed under is written, once and
\* whole, to the streams whose composites all let its level through, and to
\* no other (logging.cxx:79-89, 133-153, 187-199): the pieces that were
\* dropped one by one, the empty text and the two questions the sinks ask
\* agree, however many messages are built at the same time.  The logger's
\* own level decides nothing.
WrittenOnceWhole ==
    \A i \in Messages : stage[i] = "done" /\ i \notin turned =>
        \A s \in Streams :
            IF given[i] > 0 /\ Through(i, s)
              THEN \E n \in LinesOf(i, s) : LinesOf(i, s) = {n} /\ Whole(written[s][n])
              ELSE LinesOf(i, s) = {}

-----------------------------------------------------------------------------
(* The inductive invariant behind WrittenOnceWhole.                        *)

Unwritten(i) == \A s \in Streams : LinesOf(i, s) = {}

\* A message under way has the text and the lines that the levels it was
\* raised under give it.
OnItsWay(i) ==
    /\ stage[i] = "none" => given[i] = 0 /\ kept[i] = {}
    /\ stage[i] # "done" => Unwritten(i)
    /\ stage[i] \in {"building", "ended"} /\ i \notin turned =>
        /\ before[i] = sinkLevel
        /\ kept[i] = IF Level(i) >= before[i][Top] THEN 1 .. given[i] ELSE {}
    /\ stage[i] = "ended" /\ i \notin turned => kept[i] # {} /\ newline[i]
    /\ stage[i] = "done" /\ i \notin turned =>
        \A s \in Streams :
            IF given[i] > 0 /\ Through(i, s)
              THEN \E n \in LinesOf(i, s) : LinesOf(i, s) = {n} /\ Whole(written[s][n])
              ELSE LinesOf(i, s) = {}

IInv == TypeOK /\ \A i \in Messages : OnItsWay(i)
=============================================================================
