------------------------------- MODULE Semver --------------------------------
(***************************************************************************)
(* Which of two versions is newer, as hsh update sees it                   *)
(* (src/update/version.ts), and as semver section 11 orders them.  A       *)
(* version has its three numbers and its pre-release tag, the sequence of  *)
(* its characters as numbers; a release has none.  Build metadata and a    *)
(* leading "v" are cut off before anything is compared.                    *)
(***************************************************************************)
EXTENDS Integers, SequencesExt

\* A number that is missing or not a number counts as 0; a "-" with nothing behind
\* it, which the code takes for an empty tag, is left out.
Versions == [numbers : [1..3 -> Nat], pre : Seq(Nat)]

Dot == 46
IsDigit(ch) == ch \in 48..57

\* -1, 0 or 1 as sequences of numbers compare, a prefix being smaller: how
\* JavaScript compares strings.
Lexicographic(a, b) ==
  LET differ == {k \in DOMAIN a \cap DOMAIN b : a[k] # b[k]}
  IN  IF differ # {}
        THEN LET k == Min(differ)
             IN  IF a[k] < b[k] THEN -1 ELSE 1
        ELSE IF Len(a) < Len(b) THEN -1 ELSE IF Len(a) > Len(b) THEN 1 ELSE 0

\* Mutant: the tag is cut off with the build metadata.
WithoutTags(a, b) == Lexicographic(a.numbers, b.numbers)

\* Mutant: a pre-release is newer than its release.
ReleaseFirst(a, b) ==
  LET numbers == Lexicographic(a.numbers, b.numbers)
  IN  IF numbers # 0 THEN numbers ELSE Lexicographic(a.pre, b.pre)

CompareSemver(a, b) ==
  LET numbers == Lexicographic(a.numbers, b.numbers)
  IN  IF numbers # 0 THEN numbers
      ELSE IF a.pre = <<>> /\ b.pre = <<>> THEN 0
      ELSE IF a.pre = <<>> THEN 1
      ELSE IF b.pre = <<>> THEN -1
      ELSE Lexicographic(a.pre, b.pre)

---------------------------------------------------------------------------
(* Section 11: the tags compare identifier by identifier.                  *)

\* An identifier begins at 1 and behind each dot, and ends before the next.
Dots(pre) == {k \in DOMAIN pre : pre[k] = Dot}
Begins(pre) == {1} \cup {k + 1 : k \in Dots(pre)}
IdentifierEnd(pre, s) == Min({k \in Dots(pre) : k >= s} \cup {Len(pre) + 1})
IdentifierAt(pre, s) == SubSeq(pre, s, IdentifierEnd(pre, s) - 1)

Numeric(id) == \A k \in DOMAIN id : IsDigit(id[k])

WellFormed(pre) ==
  pre = <<>> \/ \A s \in Begins(pre) :
    LET id == IdentifierAt(pre, s)
    IN  id # <<>> /\ (Numeric(id) /\ Len(id) > 1 => id[1] # 48)

\* Numbers compare by value (the longer is larger, none having a leading 0),
\* and come before words.
CompareIdentifiers(a, b) ==
  IF Numeric(a) /\ Numeric(b)
    THEN IF Len(a) < Len(b) THEN -1 ELSE IF Len(a) > Len(b) THEN 1 ELSE Lexicographic(a, b)
    ELSE IF Numeric(a) THEN -1 ELSE IF Numeric(b) THEN 1 ELSE Lexicographic(a, b)

\* Where an identifier of both begins behind the same ones.
Together(a, b) == {s \in Begins(a) \cap Begins(b) : \A l \in 1..(s - 1) : a[l] = b[l]}

\* The first identifiers that differ decide; without any, one tag is the first
\* identifiers of the other, and the smaller.
ComparePre(a, b) ==
  LET differ == {s \in Together(a, b) : IdentifierAt(a, s) # IdentifierAt(b, s)}
  IN  IF differ # {}
        THEN LET s == Min(differ) IN CompareIdentifiers(IdentifierAt(a, s), IdentifierAt(b, s))
        ELSE IF Len(a) < Len(b) THEN -1 ELSE IF Len(a) > Len(b) THEN 1 ELSE 0

\* Words begin with no digit, numbers at the same place have as many digits, and
\* nothing sorts before the dot or between it and the digits: a hyphen does.
NoHyphen(pre) == \A k \in DOMAIN pre : pre[k] = Dot \/ pre[k] >= 48
Alike(a, b) ==
  /\ NoHyphen(a) /\ NoHyphen(b)
  /\ \A s \in Together(a, b) :
       LET ia == IdentifierAt(a, s)
           ib == IdentifierAt(b, s)
       IN  /\ \A id \in {ia, ib} : Numeric(id) \/ ~IsDigit(id[1])
           /\ Numeric(ia) /\ Numeric(ib) => Len(ia) = Len(ib)

=============================================================================
