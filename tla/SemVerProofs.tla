---------------------------- MODULE SemVerProofs ----------------------------
(***************************************************************************)
(* For numbers of any width: operator< orders the versions, and a version  *)
(* only moves up as it is bumped or moved on towards release.              *)
(***************************************************************************)
EXTENDS SemVer, TLAPS

\* The constants are numbers below Wrap.
LEMMA Numbers ==
    /\ Wrap \in Nat /\ Unnumbered \in Nat /\ MaxPart \in Nat
    /\ MaxPart < Wrap /\ Unnumbered < Wrap
    /\ Wrap \div (K * K * K) < 10
BY WrapAssumption

\* No version is below itself.
LEMMA Irreflexive ==
    ASSUME NEW a \in SemVers
    PROVE  ~ Less(a, a)
BY DEF Less, SemVers, Unsigned, ALPHA, RELEASE

\* operator< (semver.hxx:142-164) is transitive.
THEOREM Transitive ==
    ASSUME NEW a \in SemVers, NEW b \in SemVers, NEW c \in SemVers,
           Less(a, b), Less(b, c)
    PROVE  Less(a, c)
BY DEF Less, SemVers, Unsigned, ALPHA, RELEASE

\* Two versions that differ in more than their metadata are ordered one way
\* by operator<, and only one.
THEOREM Total ==
    ASSUME NEW a \in SemVers, NEW b \in SemVers
    PROVE  /\ Less(a, b) \/ Less(b, a) \/ Precedence(a) = Precedence(b)
           /\ ~ (Less(a, b) /\ Less(b, a))
BY DEF Less, Precedence, SemVers, Unsigned, ALPHA, RELEASE

\* operator<= (semver.hxx:184-186) is antisymmetric.
THEOREM Antisymmetric ==
    ASSUME NEW a \in SemVers, NEW b \in SemVers,
           LessOrEqual(a, b), LessOrEqual(b, a)
    PROVE  a = b
BY Total DEF LessOrEqual

-----------------------------------------------------------------------------

\* What the calls keep: a full release has tag_v 1E9.
ReleaseUnnumbered == v.meta_tag = RELEASE => v.tag_v = Unnumbered

SInv == TypeOK /\ ReleaseUnnumbered

\* The versions a program starts from have their type.
LEMMA InitInv == Init => SInv
<1> SUFFICES ASSUME Init PROVE SInv
    OBVIOUS
<1>1. Small \subseteq Unsigned /\ Unnumbered \in Unsigned
    BY Numbers DEF Small, Unsigned
<1> QED
    BY <1>1 DEF Init, SInv, TypeOK, ReleaseUnnumbered, SemVers

\* Every call keeps the type of a version, and the number of a full release.
LEMMA NextInv == SInv /\ [Next]_v => SInv'
<1> SUFFICES ASSUME SInv, [Next]_v PROVE SInv'
    OBVIOUS
<1>1. \A n \in Unsigned : Plus1(n) \in Unsigned
    BY Numbers DEF Plus1, Unsigned
<1>2. Unnumbered \in Unsigned /\ 0 \in Unsigned
    BY Numbers DEF Unsigned
<1>3. CASE BumpMajor
    BY <1>1, <1>3 DEF BumpMajor, SInv, TypeOK, ReleaseUnnumbered, SemVers
<1>4. CASE BumpMinor
    BY <1>1, <1>4 DEF BumpMinor, SInv, TypeOK, ReleaseUnnumbered, SemVers
<1>5. CASE BumpPatch
    BY <1>1, <1>5 DEF BumpPatch, SInv, TypeOK, ReleaseUnnumbered, SemVers
<1>6. ASSUME NEW tag \in {ALPHA, BETA, RELEASE_CANDIDATE}, Tag(tag)
      PROVE  SInv'
    <2>1. tag \in ALPHA .. RELEASE /\ tag # RELEASE
        BY DEF ALPHA, BETA, RELEASE_CANDIDATE, RELEASE
    <2> QED
        BY <1>1, <1>2, <1>6, <2>1 DEF Tag, SInv, TypeOK, ReleaseUnnumbered, SemVers
<1>7. CASE Release
    <2>1. RELEASE \in ALPHA .. RELEASE
        BY DEF ALPHA, RELEASE
    <2> QED
        BY <1>2, <1>7, <2>1 DEF Release, SInv, TypeOK, ReleaseUnnumbered, SemVers
<1>8. CASE UNCHANGED v
    BY <1>8 DEF SInv, TypeOK, ReleaseUnnumbered
<1> QED
    BY <1>3, <1>4, <1>5, <1>6, <1>7, <1>8 DEF Next

\* Every version is made of unsigned ints, and a full release has tag_v 1E9.
THEOREM VersionTypeCorrect == Spec => []SInv
BY InitInv, NextInv, PTL DEF Spec

\* A version's parts are unsigned ints and its tag is one of the four
\* (semver.hxx:43-51), however it is bumped and moved.
THEOREM TypeCorrect == Spec => []TypeOK
<1>1. SInv => TypeOK
    BY DEF SInv
<1> QED
    BY <1>1, VersionTypeCorrect, PTL

\* operator< (semver.hxx:142-164) is the lexicographic order of the five
\* parts a version is ranked by.
LEMMA Lexicographic ==
    ASSUME NEW a \in SemVers, NEW b \in SemVers
    PROVE  LET p1 == Precedence(a)
               p2 == Precedence(b)
           IN  Less(a, b) <=>
                  \E i \in 1 .. 5 : p1[i] < p2[i] /\ \A j \in 1 .. i - 1 : p1[j] = p2[j]
<1> DEFINE p1 == Precedence(a)
           p2 == Precedence(b)
           First(i) == p1[i] < p2[i] /\ \A j \in 1 .. i - 1 : p1[j] = p2[j]
<1>1. /\ p1[1] = a.major /\ p1[2] = a.minor /\ p1[3] = a.patch
      /\ p1[4] = a.meta_tag /\ p1[5] = a.tag_v
      /\ p2[1] = b.major /\ p2[2] = b.minor /\ p2[3] = b.patch
      /\ p2[4] = b.meta_tag /\ p2[5] = b.tag_v
    BY DEF Precedence
<1>2. First(1) <=> a.major < b.major
    BY <1>1
<1>3. First(2) <=> a.minor < b.minor /\ a.major = b.major
    <2>1. 1 .. 2 - 1 = {1}
        OBVIOUS
    <2> QED
        BY <1>1, <2>1
<1>4. First(3) <=> a.patch < b.patch /\ a.major = b.major /\ a.minor = b.minor
    <2>1. 1 .. 3 - 1 = {1, 2}
        OBVIOUS
    <2> QED
        BY <1>1, <2>1
<1>5. First(4) <=> /\ a.meta_tag < b.meta_tag
                   /\ a.major = b.major /\ a.minor = b.minor /\ a.patch = b.patch
    <2>1. 1 .. 4 - 1 = {1, 2, 3}
        OBVIOUS
    <2> QED
        BY <1>1, <2>1
<1>6. First(5) <=> /\ a.tag_v < b.tag_v
                   /\ a.major = b.major /\ a.minor = b.minor /\ a.patch = b.patch
                   /\ a.meta_tag = b.meta_tag
    <2>1. 1 .. 5 - 1 = {1, 2, 3, 4}
        OBVIOUS
    <2> QED
        BY <1>1, <2>1
<1>7. (\E i \in 1 .. 5 : First(i)) <=>
          First(1) \/ First(2) \/ First(3) \/ First(4) \/ First(5)
    <2>1. 1 .. 5 = {1, 2, 3, 4, 5}
        OBVIOUS
    <2> HIDE DEF First
    <2> QED
        BY <2>1
<1>8. Less(a, b) <=> First(1) \/ First(2) \/ First(3) \/ First(4) \/ First(5)
    <2> HIDE DEF First
    <2> QED
        BY <1>2, <1>3, <1>4, <1>5, <1>6 DEF Less, SemVers, Unsigned, ALPHA, RELEASE
<1> QED
    BY <1>7, <1>8

\* Whatever the calls, the six comparisons rank the version one way against
\* every version near it (semver.hxx:142-186).
THEOREM RankedAlways == Spec => []Ranked
<1>1. SInv => Ranked
    <2> SUFFICES ASSUME SInv,
                        NEW minor \in Small, NEW tag \in ALPHA .. RELEASE,
                        NEW number \in Small \cup {Unnumbered}
                 PROVE  RankedOneWay(v, [v EXCEPT !.minor = minor, !.meta_tag = tag,
                                                  !.tag_v = number])
        BY DEF Ranked
    <2> DEFINE near == [v EXCEPT !.minor = minor, !.meta_tag = tag, !.tag_v = number]
    <2>1. v \in SemVers
        BY DEF SInv, TypeOK
    <2>2. near \in SemVers
        <3>1. Small \subseteq Unsigned /\ Unnumbered \in Unsigned
            BY Numbers DEF Small, Unsigned
        <3> QED
            BY <2>1, <3>1 DEF SemVers
    <2> HIDE DEF near
    <2>3. RankedOneWay(v, near)
        BY <2>1, <2>2, Lexicographic, Total, Antisymmetric DEF RankedOneWay
    <2> QED
        BY <2>3 DEF near
<1> QED
    BY <1>1, VersionTypeCorrect, PTL

\* What one call does to a version that keeps SInv.
Up ==
    \/ Less(v, v')
    \/ v'.meta_tag < v.meta_tag
    \/ \E n \in {v.major, v.minor, v.patch, v.tag_v} : n = Wrap - 1

\* A call that changes a version moves it up, unless it restarts an earlier
\* stage or a number wraps round.
LEMMA NextUp == SInv /\ [Next]_v => [Up]_v
<1> SUFFICES ASSUME SInv, Next PROVE Up \/ UNCHANGED v
    OBVIOUS
<1>1. \A n \in Unsigned : n # Wrap - 1 => Plus1(n) = n + 1
    BY Numbers DEF Plus1, Unsigned
<1>2. v \in SemVers
    BY DEF SInv, TypeOK
<1>3. CASE BumpMajor
    BY <1>1, <1>2, <1>3 DEF BumpMajor, Up, Less, SemVers, Unsigned
<1>4. CASE BumpMinor
    BY <1>1, <1>2, <1>4 DEF BumpMinor, Up, Less, SemVers, Unsigned
<1>5. CASE BumpPatch
    BY <1>1, <1>2, <1>5 DEF BumpPatch, Up, Less, SemVers, Unsigned
<1>6. ASSUME NEW tag \in {ALPHA, BETA, RELEASE_CANDIDATE}, Tag(tag)
      PROVE  Up
    BY <1>1, <1>2, <1>6
       DEF Tag, Up, Less, SemVers, Unsigned, ALPHA, BETA, RELEASE_CANDIDATE, RELEASE
<1>7. CASE Release
    <2>1. CASE v.meta_tag = RELEASE
        BY <1>2, <1>7, <2>1 DEF Release, SInv, ReleaseUnnumbered, SemVers
    <2>2. CASE v.meta_tag # RELEASE
        BY <1>2, <1>7, <2>2 DEF Release, Up, Less, SemVers, Unsigned, ALPHA, RELEASE
    <2> QED
        BY <2>1, <2>2
<1> QED
    BY <1>3, <1>4, <1>5, <1>6, <1>7 DEF Next

\* However often a stage is repeated, the next stage is above it, and a full
\* release is above all (semver.hxx:96-114).
THEOREM OnlyUp == Spec => MovesUp
<1>1. SInv /\ [Next]_v => [Up]_v
    BY NextUp
<1>2. Spec => [][Up]_v
    BY <1>1, VersionTypeCorrect, PTL DEF Spec
<1> QED
    BY <1>2 DEF MovesUp, Up

-----------------------------------------------------------------------------
(* What to_string writes and the constructor reads.                        *)

\* A number has a leading digit, and its unit is among those of LeadingUnit.
LEMMA Leading ==
    ASSUME NEW n \in Unsigned, n > 0
    PROVE  LeadingUnit(n) \in Nat /\ 0 < LeadingUnit(n) /\ LeadingUnit(n) <= n
<1> DEFINE units ==
        {1, 10, 100, K, 10 * K, 100 * K, K * K, 10 * K * K, 100 * K * K, K * K * K}
<1> USE DEF K
<1>1. n \in Nat /\ n \div (K * K * K) < 10
    <2>1. Wrap \in Nat /\ Wrap \div (K * K * K) < 10
        BY Numbers
    <2> QED
        BY <2>1 DEF Unsigned
<1>2. \E unit \in units : unit <= n /\ n \div unit < 10
    <2>1. CASE n < K
        BY <1>1, <2>1
    <2>2. CASE K <= n /\ n < K * K
        BY <1>1, <2>2
    <2>3. CASE K * K <= n
        BY <1>1, <2>3
    <2> QED
        BY <1>1, <2>1, <2>2, <2>3
<1>3. LeadingUnit(n) \in units /\ LeadingUnit(n) <= n
    BY <1>2 DEF LeadingUnit
<1> QED
    BY <1>3

\* A number that loses its first digit is another number.
LEMMA Shortened ==
    ASSUME NEW n \in Unsigned, n > 0
    PROVE  n % LeadingUnit(n) < n
<1>1. n \in Nat
    BY Numbers DEF Unsigned
<1>2. \A m \in Nat : 0 < m => n % m < m
    BY <1>1
<1> QED
    BY <1>1, <1>2, Leading

\* A version whose tag has a number is not read back: `alpha0` has no digits
\* where the parser looks, and `alpha12` is read as 2.
LEMMA NumberedIsLost ==
    ASSUME SInv, v.meta_tag # RELEASE, v.tag_v # Unnumbered
    PROVE  ~ (Parses(ToText(v)) /\ FromText(ToText(v)) = v)
<1> SUFFICES ASSUME Parses(ToText(v)), FromText(ToText(v)) = v PROVE FALSE
    OBVIOUS
<1>1. v.tag_v \in Unsigned
    BY DEF SInv, TypeOK, SemVers
<1>2. v.tag_v >= 10
    BY DEF Parses, ToText
<1>3. v.tag_v = v.tag_v % LeadingUnit(v.tag_v)
    <2>1. FromText(ToText(v)).tag_v = v.tag_v % LeadingUnit(v.tag_v)
        BY DEF FromText, ToText, ParsedNumber
    <2> QED
        BY <2>1
<1> QED
    BY <1>1, <1>2, <1>3, Shortened DEF Unsigned

\* The versions that have no number to lose are read back, where their parts
\* are numbers for std::stoi.
LEMMA UnnumberedIsKept ==
    ASSUME SInv, v.meta_tag = RELEASE \/ v.tag_v = Unnumbered
    PROVE  /\ FromText(ToText(v)) = v
           /\ Parses(ToText(v)) <=> \A n \in {v.major, v.minor, v.patch} : n < Wrap \div 2
<1>1. v.tag_v = Unnumbered /\ v \in SemVers
    BY DEF SInv, TypeOK, ReleaseUnnumbered
<1>2. FromText(ToText(v)) =
        [major |-> v.major, minor |-> v.minor, patch |-> v.patch,
         meta_tag |-> v.meta_tag, tag_v |-> v.tag_v, meta_data |-> v.meta_data]
    BY <1>1 DEF FromText, ToText, ParsedNumber
<1>3. FromText(ToText(v)) = v
    BY <1>1, <1>2 DEF SemVers
<1>4. Parses(ToText(v)) <=> \A n \in {v.major, v.minor, v.patch} : n < Wrap \div 2
    BY <1>1 DEF Parses, ToText
<1> QED
    BY <1>3, <1>4

\* The constructor reads back what to_string wrote of exactly the versions
\* whose tag has no number and whose parts an int can hold, of any width up to
\* ten digits (semver.hxx:124-128, semver.cxx:31-50).
THEOREM ReadsBackExactly == Spec => []ReadsBack
<1>1. SInv => ReadsBack
    BY NumberedIsLost, UnnumberedIsKept DEF ReadsBack
<1> QED
    BY <1>1, VersionTypeCorrect, PTL
=============================================================================
