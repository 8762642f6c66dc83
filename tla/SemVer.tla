------------------------------- MODULE SemVer -------------------------------
(***************************************************************************)
(* Versioning::version: an object whose parts are bumped and whose tag is  *)
(* moved through alpha, beta, rc and release, its six comparison           *)
(* operators, and its two conversions.                                     *)
(*                                                                         *)
(* A text is what the parser sees of a string: its parts, the separator    *)
(* between a tag and its number, and the number as written.  Numbers have  *)
(* the width of unsigned int.                                              *)
(***************************************************************************)
EXTENDS Naturals

CONSTANTS
    Wrap,        \* 2^32: an unsigned int is a number below it
    Unnumbered,  \* 1E9, the tag_v of a full release and of a tag with no number
    MetaData,    \* build metadata; "" is among them
    MaxPart      \* bound on the parts of the versions TLC starts from

K == 1000

ASSUME WrapAssumption ==
    /\ Wrap \in Nat /\ Unnumbered \in Nat /\ MaxPart \in Nat
    /\ MaxPart < Wrap /\ Unnumbered < Wrap
    /\ Wrap \div (K * K * K) < 10   \* such a number has ten digits at most
    /\ "" \in MetaData

ALPHA == 0
BETA == 1
RELEASE_CANDIDATE == 2
RELEASE == 3

Unsigned == 0 .. Wrap - 1

SemVers == [major : Unsigned, minor : Unsigned, patch : Unsigned,
            meta_tag : ALPHA .. RELEASE, tag_v : Unsigned, meta_data : MetaData]

VARIABLE v

\* Mutant of Plus1: a count that does not wrap.
WiderPlus1(n) == n + 1

\* += 1 on an unsigned int
Plus1(n) == (n + 1) % Wrap

-----------------------------------------------------------------------------
(* Comparison.                                                             *)

\* Mutant of Less: the tag's number is compared before the tag.
LessNumberFirst(v1, v2) ==
    \/ v1.major < v2.major
    \/ /\ v1.major = v2.major
       /\ \/ v1.minor < v2.minor
          \/ /\ v1.minor = v2.minor
             /\ \/ v1.patch < v2.patch
                \/ /\ v1.patch = v2.patch
                   /\ \/ v1.tag_v < v2.tag_v
                      \/ v1.tag_v = v2.tag_v /\ v1.meta_tag < v2.meta_tag

\* operator<
Less(v1, v2) ==
    \/ v1.major < v2.major
    \/ /\ v1.major = v2.major
       /\ \/ v1.minor < v2.minor
          \/ /\ v1.minor = v2.minor
             /\ \/ v1.patch < v2.patch
                \/ /\ v1.patch = v2.patch
                   /\ \/ v1.meta_tag < v2.meta_tag
                      \/ v1.meta_tag = v2.meta_tag /\ v1.tag_v < v2.tag_v

\* operator<=, whose equality looks at the metadata too
LessOrEqual(v1, v2) == v1 = v2 \/ Less(v1, v2)

-----------------------------------------------------------------------------
(* Conversion.                                                             *)

\* The largest power of ten that is at most n, for n > 0.
LeadingUnit(n) ==
    CHOOSE unit \in {1, 10, 100, K, 10 * K, 100 * K, K * K, 10 * K * K, 100 * K * K, K * K * K} :
        unit <= n /\ n \div unit < 10

\* to_string: the number follows the tag with nothing between.
ToText(ver) ==
    [major |-> ver.major, minor |-> ver.minor, patch |-> ver.patch,
     tag |-> ver.meta_tag, separator |-> "",
     numbered |-> ver.meta_tag # RELEASE /\ ver.tag_v # Unnumbered,
     number |-> ver.tag_v, meta_data |-> ver.meta_data]

\* What std::stoi makes of a tag's number: the parser skips one character
\* after the tag, whether it is a separator or the first digit.
ParsedNumber(text) ==
    CASE ~ text.numbered -> Unnumbered
      [] text.numbered /\ text.separator # "" -> text.number
      [] text.numbered /\ text.separator = "" -> text.number % LeadingUnit(text.number)

\* Does every std::stoi find digits, and a number an int can hold?
Parses(text) ==
    /\ text.numbered /\ text.separator = "" => text.number >= 10
    /\ text.numbered => ParsedNumber(text) < Wrap \div 2
    /\ \A n \in {text.major, text.minor, text.patch} : n < Wrap \div 2

\* Mutant of FromText: the metadata is cut off and not kept.
FromTextBare(text) ==
    [major |-> text.major, minor |-> text.minor, patch |-> text.patch,
     meta_tag |-> text.tag, tag_v |-> ParsedNumber(text), meta_data |-> ""]

FromText(text) ==
    [major |-> text.major, minor |-> text.minor, patch |-> text.patch,
     meta_tag |-> text.tag, tag_v |-> ParsedNumber(text), meta_data |-> text.meta_data]

-----------------------------------------------------------------------------
(* The object.                                                             *)

Small == 0 .. MaxPart

\* A default, an explicit or a parsed version.  A full release is one whose
\* tag_v is the default, as the constructor's comment says it is.
Init ==
    v \in [major : Small, minor : Small, patch : Small, meta_tag : ALPHA .. RELEASE,
           tag_v : Small \cup {Unnumbered}, meta_data : MetaData]
    /\ (v.meta_tag = RELEASE => v.tag_v = Unnumbered)

BumpMajor == v' = [v EXCEPT !.major = Plus1(@)]
BumpMinor == v' = [v EXCEPT !.minor = Plus1(@)]
BumpPatch == v' = [v EXCEPT !.patch = Plus1(@)]

\* Mutant of Tag: the tag's number starts again on every call.
TagAnew(tag) == v' = [v EXCEPT !.meta_tag = tag, !.tag_v = 0]

\* alpha(), beta() and prerelease(): the same tag again counts up, another
\* starts from 0.
Tag(tag) ==
    v' = [v EXCEPT !.meta_tag = tag,
                   !.tag_v = IF v.meta_tag = tag THEN Plus1(@) ELSE 0]

Release == v' = [v EXCEPT !.meta_tag = RELEASE, !.tag_v = Unnumbered]

Next ==
    \/ BumpMajor \/ BumpMinor \/ BumpPatch
    \/ Tag(ALPHA) \/ Tag(BETA) \/ Tag(RELEASE_CANDIDATE)
    \/ Release

Spec == Init /\ [][Next]_v

-----------------------------------------------------------------------------
(* Properties.                                                             *)

\* A version's parts are unsigned ints, and its tag is one of the four.
TypeOK == v \in SemVers

Precedence(ver) == <<ver.major, ver.minor, ver.patch, ver.meta_tag, ver.tag_v>>

\* operator< is the lexicographic order of the five parts a version is
\* ranked by (semver.hxx:142-164), and every pair is ranked one way.
RankedOneWay(v1, v2) ==
    LET p1 == Precedence(v1)
        p2 == Precedence(v2)
    IN  /\ Less(v1, v2) <=>
               \E i \in 1 .. 5 : p1[i] < p2[i] /\ \A j \in 1 .. i - 1 : p1[j] = p2[j]
        /\ Less(v1, v2) \/ Less(v2, v1) \/ p1 = p2
        /\ ~ (Less(v1, v2) /\ Less(v2, v1))
        /\ LessOrEqual(v1, v2) /\ LessOrEqual(v2, v1) => v1 = v2

\* It ranks the version against every version near it, after any calls.
Ranked ==
    \A minor \in Small, tag \in ALPHA .. RELEASE, number \in Small \cup {Unnumbered} :
        RankedOneWay(v, [v EXCEPT !.minor = minor, !.meta_tag = tag, !.tag_v = number])

\* A version only moves up as it is bumped or moved on towards release:
\* however often a stage is repeated, the next stage is above it, and a full
\* release, kept by its tag_v of 1E9, is above all (semver.hxx:96-114).
\* Wrapping round an unsigned int is the exception.
MovesUp ==
    [][\/ Less(v, v')
       \/ v'.meta_tag < v.meta_tag
       \/ \E n \in {v.major, v.minor, v.patch, v.tag_v} : n = Wrap - 1]_v

\* The constructor reads back what to_string wrote of exactly the versions
\* whose tag has no number and whose parts an int can hold: the number of
\* `alpha0` is not found, and that of `alpha12` is read as 2, as the parser
\* expects the separator of `<tag>.<tag-version>` (semver.hxx:65), which
\* to_string does not write (semver.hxx:124-128, semver.cxx:31-50).
ReadsBack ==
    Parses(ToText(v)) /\ FromText(ToText(v)) = v
        <=> /\ v.meta_tag = RELEASE \/ v.tag_v = Unnumbered
            /\ \A n \in {v.major, v.minor, v.patch} : n < Wrap \div 2
=============================================================================
