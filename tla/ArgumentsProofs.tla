--------------------------- MODULE ArgumentsProofs ---------------------------
(***************************************************************************)
(* The answers of module Arguments, for anything that is asked.  hsh       *)
(* update: what compareSemver (src/update/version.ts) returns is a strict  *)
(* order of all versions, and semver's where the tags are alike.  hsh ssh  *)
(* and hsh kubectl: matchConnection (src/plugins/match.ts) finds the       *)
(* connections that outrank all others.  hsh kubectl: the context found    *)
(* (src/plugins/kubectl-context.ts) is the one kubectl uses, and the file  *)
(* of hsh is read first and once, before those of KUBECONFIG.  (hsh ssh:   *)
(* SshArgsProofs.)                                                         *)
(*                                                                         *)
(* All but the last look for the first place of something, so that the     *)
(* argument is each time that there is one, and that the other way of      *)
(* saying it means the same place.  For the files it is what FlattenSeq    *)
(* makes of one more piece.                                                *)
(***************************************************************************)
EXTENDS Arguments, FiniteSetTheorems, SequenceTheorems, WellFoundedInduction, TLAPS

---------------------------------------------------------------------------
(* The first and the last place.                                           *)

\* The first place of a nonempty set of places is one of them and before the others.
LEMMA MinIsFirst ==
  ASSUME NEW S \in SUBSET Nat, S # {}
  PROVE  Min(S) \in S /\ \A l \in S : Min(S) <= l
<1>1. PICK k \in S : \A l \in S : <<l, k>> \notin OpToRel(<, Nat)
  BY NatLessThanWellFounded, WFMin, Zenon
<1>2. ASSUME NEW l \in S
      PROVE  k <= l
  <2>1. ~(l < k)
    BY <1>1, Zenon DEF OpToRel
  <2> QED  BY <2>1
<1> QED  BY <1>2 DEF Min

\* A place before all others is the first, one behind all others the last.
LEMMA MinIs ==
  ASSUME NEW S \in SUBSET Nat, NEW m \in S, \A l \in S : m <= l
  PROVE  Min(S) = m
<1>1. Min(S) \in S /\ Min(S) <= m
  BY MinIsFirst
<1>2. Min(S) \in Nat /\ m \in Nat /\ m <= Min(S)
  BY <1>1
<1> QED  BY <1>1, <1>2

LEMMA MaxIs ==
  ASSUME NEW S \in SUBSET Nat, NEW m \in S, \A l \in S : l <= m
  PROVE  Max(S) = m
<1>1. Max(S) \in S /\ Max(S) >= m
  BY DEF Max
<1>2. Max(S) \in Nat /\ m \in Nat /\ Max(S) <= m
  BY <1>1
<1> QED  BY <1>1, <1>2

---------------------------------------------------------------------------
(* FlattenSeq: what it adds for one more sequence.                         *)

\* What the first k sequences of s flatten to, for k up to n, is one function g.
IsFlattening(g, s, n) ==
  /\ g = [k \in 1..n |-> g[k]]
  /\ \A k \in 1..n : g[k] = IF k = 1 THEN s[k] ELSE g[k - 1] \o s[k]

\* A set of naturals that has 0, and k + 1 with every k below n, has all up to n.
\* (The library's induction theorems take an operator; this one takes a set.)
LEMMA UpTo ==
  ASSUME NEW n \in Nat, NEW T, 0 \in T, \A k \in 0..(n - 1) : k \in T => k + 1 \in T
  PROVE  \A k \in 0..n : k \in T
<1> DEFINE out == {k \in 0..n : k \notin T}
<1>1. SUFFICES ASSUME out # {}
               PROVE  FALSE
  OBVIOUS
<1>2. out \in SUBSET Nat
  OBVIOUS
<1>3. PICK m \in 0..n : m \notin T /\ \A k \in out : m <= k
  <2>1. Min(out) \in out /\ \A k \in out : Min(out) <= k
    <3> HIDE DEF out
    <3> QED  BY <1>1, <1>2, MinIsFirst
  <2> QED  BY <2>1
<1>4. m - 1 \in 0..(n - 1) /\ m - 1 \notin out
  BY <1>3
<1>5. m - 1 \in T
  BY <1>4
<1> QED  BY <1>3, <1>4, <1>5

\* There is such a function.
LEMMA FlatteningExists ==
  ASSUME NEW s, NEW n \in Nat
  PROVE  \E g : IsFlattening(g, s, n)
<1> DEFINE T == {k \in 0..n : \E g : IsFlattening(g, s, k)}
<1>1. 0 \in T
  <2> DEFINE g == [k \in 1..0 |-> s]
  <2>1. g = [k \in 1..0 |-> g[k]]
    OBVIOUS
  <2>2. IsFlattening(g, s, 0)
    BY <2>1 DEF IsFlattening
  <2> QED  BY <2>2
<1>2. ASSUME NEW k \in 0..(n - 1), k \in T
      PROVE  k + 1 \in T
  <2>1. PICK g : IsFlattening(g, s, k)
    BY <1>2
  <2> DEFINE last == IF k + 1 = 1 THEN s[k + 1] ELSE g[k] \o s[k + 1]
             h == [j \in 1..(k + 1) |-> IF j = k + 1 THEN last ELSE g[j]]
  <2>2. h = [j \in 1..(k + 1) |-> h[j]]
    <3> HIDE DEF last
    <3> QED  OBVIOUS
  <2>3. ASSUME NEW j \in 1..(k + 1)
        PROVE  h[j] = IF j = 1 THEN s[j] ELSE h[j - 1] \o s[j]
    <3>1. CASE j = k + 1
      <4>1. h[j] = last
        BY <3>1
      <4>2. j # 1 => h[j - 1] = g[k]
        BY <3>1
      <4> HIDE DEF h
      <4> QED  BY <3>1, <4>1, <4>2
    <3>2. CASE j # k + 1
      <4>1. j \in 1..k /\ h[j] = g[j]
        BY <3>2
      <4>2. j # 1 => h[j - 1] = g[j - 1]
        BY <3>2
      <4>3. g[j] = IF j = 1 THEN s[j] ELSE g[j - 1] \o s[j]
        BY <2>1, <4>1 DEF IsFlattening
      <4> HIDE DEF h
      <4> QED  BY <4>1, <4>2, <4>3
    <3> QED  BY <3>1, <3>2
  <2>4. IsFlattening(h, s, k + 1)
    <3> HIDE DEF h
    <3> QED  BY <2>2, <2>3 DEF IsFlattening
  <2>5. k + 1 \in 0..n
    OBVIOUS
  <2> QED  BY <2>4, <2>5
<1>3. n \in T
  <2> HIDE DEF T
  <2> QED  BY <1>1, <1>2, UpTo
<1> QED  BY <1>3

\* The flattening of s is what the function that flattens its beginnings is at its end.
LEMMA FlattenIs ==
  ASSUME NEW s, Len(s) \in Nat, Len(s) # 0
  PROVE  \E g : IsFlattening(g, s, Len(s)) /\ FlattenSeq(s) = g[Len(s)]
<1> DEFINE Is(g) == g = [k \in 1..Len(s) |-> IF k = 1 THEN s[k] ELSE g[k - 1] \o s[k]]
           f == CHOOSE g : Is(g)
<1>1. FlattenSeq(s) = f[Len(s)]
  BY Zenon DEF FlattenSeq
<1>2. PICK g : IsFlattening(g, s, Len(s))
  BY FlatteningExists
<1>3. Is(g)
  BY <1>2 DEF IsFlattening
<1>4. Is(f)
  <2> HIDE DEF Is
  <2> QED  BY <1>3, Zenon
<1>5. IsFlattening(f, s, Len(s))
  <2> HIDE DEF f
  <2> QED  BY <1>4 DEF IsFlattening
<1> QED  BY <1>1, <1>5

\* What is put behind a sequence does not change how its beginnings flatten.
LEMMA FlatteningsAgree ==
  ASSUME NEW s, NEW t, NEW g, NEW h, NEW n \in Nat,
         IsFlattening(g, s, n), IsFlattening(h, t, n + 1), \A k \in 1..n : t[k] = s[k]
  PROVE  \A k \in 1..n : g[k] = h[k]
<1> DEFINE T == {k \in 0..n : k = 0 \/ g[k] = h[k]}
<1>1. 0 \in T
  OBVIOUS
<1>2. ASSUME NEW k \in 0..(n - 1), k \in T
      PROVE  k + 1 \in T
  <2>1. k + 1 \in 1..n /\ k + 1 \in 1..(n + 1) /\ (k + 1) - 1 = k
    OBVIOUS
  <2>2. /\ g[k + 1] = IF k + 1 = 1 THEN s[k + 1] ELSE g[k] \o s[k + 1]
        /\ h[k + 1] = IF k + 1 = 1 THEN t[k + 1] ELSE h[k] \o t[k + 1]
    BY <2>1 DEF IsFlattening
  <2>3. s[k + 1] = t[k + 1]
    BY <2>1
  <2>4. k = 0 \/ g[k] = h[k]
    BY <1>2
  <2>5. k = 0 => k + 1 = 1
    OBVIOUS
  <2>6. g[k + 1] = h[k + 1]
    BY <2>2, <2>3, <2>4, <2>5
  <2> QED  BY <2>1, <2>6
<1>3. \A k \in 0..n : k \in T
  <2> HIDE DEF T
  <2> QED  BY <1>1, <1>2, UpTo
<1> QED  BY <1>3

\* Nothing flattens to nothing, and the sequence behind all others comes last.
LEMMA FlattenAppend ==
  /\ FlattenSeq(<<>>) = <<>>
  /\ \A S : \A s \in Seq(Seq(S)) : \A x \in Seq(S) :
       FlattenSeq(Append(s, x)) = FlattenSeq(s) \o x
<1>1. FlattenSeq(<<>>) = <<>>
  BY DEF FlattenSeq
<1>2. ASSUME NEW S, NEW s \in Seq(Seq(S)), NEW x \in Seq(S)
      PROVE  FlattenSeq(Append(s, x)) = FlattenSeq(s) \o x
  <2> DEFINE t == Append(s, x)
             n == Len(s)
  <2>1. /\ n \in Nat /\ Len(t) = n + 1 /\ t[n + 1] = x
        /\ \A k \in 1..n : t[k] = s[k]
    OBVIOUS
  <2> HIDE DEF t
  <2>2. PICK h : IsFlattening(h, t, n + 1) /\ FlattenSeq(t) = h[n + 1]
    BY <2>1, FlattenIs
  <2>3. h[n + 1] = IF n + 1 = 1 THEN x ELSE h[n] \o x
    <3>1. n + 1 \in 1..(n + 1) /\ (n + 1) - 1 = n
      BY <2>1
    <3> QED  BY <2>1, <2>2, <3>1 DEF IsFlattening
  <2>4. CASE n = 0
    <3>1. s = <<>>
      BY <2>4
    <3>2. <<>> \o x = x
      OBVIOUS
    <3> QED  BY <1>1, <2>2, <2>3, <2>4, <3>1, <3>2 DEF t
  <2>5. CASE n # 0
    <3>1. PICK g : IsFlattening(g, s, n) /\ FlattenSeq(s) = g[n]
      BY <2>1, <2>5, FlattenIs
    <3>2. \A k \in 1..n : g[k] = h[k]
      <4> HIDE DEF n
      <4> QED  BY <2>1, <2>2, <3>1, FlatteningsAgree
    <3>3. g[n] = h[n]
      BY <2>1, <2>5, <3>2
    <3> QED  BY <2>1, <2>2, <2>3, <2>5, <3>1, <3>3 DEF t
  <2> QED  BY <2>4, <2>5
<1> QED  BY <1>1, <1>2

\* What sequences over S flatten to is one over S.
LEMMA FlattenTyped ==
  ASSUME NEW S, NEW s \in Seq(Seq(S))
  PROVE  FlattenSeq(s) \in Seq(S)
<1>1. CASE Len(s) = 0
  <2>1. s = <<>>
    BY <1>1
  <2>2. FlattenSeq(s) = <<>>
    BY <2>1, FlattenAppend, Zenon
  <2> QED  BY <2>2
<1>2. CASE Len(s) # 0
  <2> DEFINE n == Len(s)
  <2>1. n \in Nat /\ \A k \in 1..n : s[k] \in Seq(S)
    OBVIOUS
  <2>2. PICK g : IsFlattening(g, s, n) /\ FlattenSeq(s) = g[n]
    BY <1>2, <2>1, FlattenIs
  <2> DEFINE T == {k \in 0..n : k = 0 \/ g[k] \in Seq(S)}
  <2>3. 0 \in T
    BY <2>1
  <2>4. ASSUME NEW k \in 0..(n - 1), k \in T
        PROVE  k + 1 \in T
    <3>1. k + 1 \in 1..n /\ (k + 1) - 1 = k
      BY <2>1
    <3>2. g[k + 1] = IF k + 1 = 1 THEN s[k + 1] ELSE g[k] \o s[k + 1]
      BY <2>2, <3>1 DEF IsFlattening
    <3>3. s[k + 1] \in Seq(S)
      BY <2>1, <3>1
    <3>4. CASE k = 0
      <4>1. g[k + 1] = s[k + 1]
        BY <3>2, <3>4
      <4> QED  BY <3>1, <3>3, <4>1
    <3>5. CASE k # 0
      <4>1. g[k + 1] = g[k] \o s[k + 1]
        <5>1. k + 1 # 1
          BY <3>5
        <5> QED  BY <3>2, <5>1
      <4>2. g[k] \in Seq(S)
        BY <2>4, <3>5
      <4>3. g[k + 1] \in Seq(S)
        BY <3>3, <4>1, <4>2
      <4> QED  BY <3>1, <4>3
    <3> QED  BY <3>4, <3>5
  <2>5. \A k \in 0..n : k \in T
    <3> HIDE DEF T, n
    <3> QED  BY <2>1, <2>3, <2>4, UpTo
  <2> QED  BY <1>2, <2>1, <2>2, <2>5
<1> QED  BY <1>1, <1>2

\* One or two elements are a sequence.
LEMMA Sequences ==
  ASSUME NEW S, NEW x \in S, NEW y \in S
  PROVE  <<x>> \in Seq(S) /\ <<x, y>> \in Seq(S)
  OBVIOUS

\* The first k + 1 pieces are the first k and one more.
LEMMA FlattenPrefix ==
  ASSUME NEW S, NEW f \in Seq(Seq(S)), NEW k \in 0..(Len(f) - 1)
  PROVE  /\ SubSeq(f, 1, k) \in Seq(Seq(S)) /\ f[k + 1] \in Seq(S)
         /\ FlattenSeq(SubSeq(f, 1, k + 1)) = FlattenSeq(SubSeq(f, 1, k)) \o f[k + 1]
<1>1. k + 1 \in 1..Len(f) /\ (k + 1) - 1 = k /\ 1 \in 1..Len(f) /\ Len(f) \in Nat
  OBVIOUS
<1>2. SubSeq(f, 1, k) \in Seq(Seq(S)) /\ f[k + 1] \in Seq(S)
  BY <1>1
<1>3. SubSeq(f, 1, k + 1) = SubSeq(f, 1, k) \o <<f[k + 1]>>
  <2>1. k + 1 \in 1..Len(f)
    BY <1>1
  <2>2. SubSeq(f, 1, k + 1) = SubSeq(f, 1, (k + 1) - 1) \o <<f[k + 1]>>
    BY <1>1, SubSeqRecursiveSecond
  <2> QED  BY <1>1, <2>2
<1>4. SubSeq(f, 1, k) \o <<f[k + 1]>> = Append(SubSeq(f, 1, k), f[k + 1])
  BY <1>2, AppendIsConcat
<1> QED  BY <1>2, <1>3, <1>4, FlattenAppend, Zenon

\* It has the elements of its pieces.
LEMMA FlattenElements ==
  ASSUME NEW S, NEW f \in Seq(Seq(S))
  PROVE  \A x : x \in Range(FlattenSeq(f)) <=> \E k \in DOMAIN f : x \in Range(f[k])
<1> DEFINE Has(k) == \A x : x \in Range(FlattenSeq(SubSeq(f, 1, k))) <=>
                              \E j \in 1..k : x \in Range(f[j])
           T == {k \in 0..Len(f) : Has(k)}
<1>1. 0 \in T
  <2>1. SubSeq(f, 1, 0) = <<>>
    BY SubSeqEmpty
  <2>2. Range(FlattenSeq(SubSeq(f, 1, 0))) = {}
    <3>1. FlattenSeq(SubSeq(f, 1, 0)) = <<>>
      BY <2>1, FlattenAppend, Zenon
    <3> QED  BY <3>1 DEF Range
  <2>3. 1..0 = {}
    OBVIOUS
  <2> QED  BY <2>2, <2>3
<1>2. ASSUME NEW k \in 0..(Len(f) - 1), k \in T
      PROVE  k + 1 \in T
  <2>1. Has(k)
    BY <1>2
  <2> DEFINE g == FlattenSeq(SubSeq(f, 1, k))
  <2>2. g \in Seq(S) /\ f[k + 1] \in Seq(S) /\ FlattenSeq(SubSeq(f, 1, k + 1)) = g \o f[k + 1]
    BY FlattenPrefix, FlattenTyped
  <2>3. Range(g \o f[k + 1]) = Range(g) \cup Range(f[k + 1])
    <3> HIDE DEF g
    <3> QED  BY <2>2, RangeConcatenation
  <2>4. 1..(k + 1) = (1..k) \cup {k + 1}
    OBVIOUS
  <2>5. Has(k + 1)
    <3> HIDE DEF g
    <3> SUFFICES ASSUME NEW x
                 PROVE  x \in Range(FlattenSeq(SubSeq(f, 1, k + 1))) <=>
                          \E j \in 1..(k + 1) : x \in Range(f[j])
      BY Zenon
    <3>1. x \in Range(g) <=> \E j \in 1..k : x \in Range(f[j])
      BY <2>1, Zenon DEF g
    <3>2. x \in Range(FlattenSeq(SubSeq(f, 1, k + 1))) <=> x \in Range(g) \/ x \in Range(f[k + 1])
      BY <2>2, <2>3
    <3> QED  BY <2>4, <3>1, <3>2
  <2> HIDE DEF Has
  <2> QED  BY <2>5
<1>3. Len(f) \in Nat /\ DOMAIN f = 1..Len(f) /\ SubSeq(f, 1, Len(f)) = f
  BY SubSeqFull
<1>4. Len(f) \in T
  <2> HIDE DEF T
  <2>1. \A k \in 0..Len(f) : k \in T
    BY <1>1, <1>2, <1>3, UpTo
  <2> QED  BY <1>3, <2>1
<1>5. Has(Len(f))
  BY <1>4
<1> QED  BY <1>3, <1>5, Zenon

\* Pieces of one element each spell the sequence.
LEMMA FlattenSingles ==
  ASSUME NEW S, NEW s \in Seq(S), NEW f, f = [k \in DOMAIN s |-> <<s[k]>>]
  PROVE  FlattenSeq(f) = s
<1> DEFINE T == {k \in 0..Len(s) : FlattenSeq(SubSeq(f, 1, k)) = SubSeq(s, 1, k)}
<1>1. Len(s) \in Nat /\ DOMAIN s = 1..Len(s) /\ \A k \in 1..Len(s) : s[k] \in S
  OBVIOUS
<1>2. f \in Seq(Seq(S)) /\ Len(f) = Len(s) /\ \A k \in 1..Len(s) : f[k] = <<s[k]>>
  <2>1. \A k \in 1..Len(s) : <<s[k]>> \in Seq(S)
    BY <1>1, Sequences
  <2>2. DOMAIN f = 1..Len(s) /\ \A k \in 1..Len(s) : f[k] = <<s[k]>>
    BY <1>1
  <2>3. f \in Seq(Seq(S))
    <3>1. f = [k \in 1..Len(s) |-> f[k]]
      BY <1>1
    <3>2. \A k \in 1..Len(s) : f[k] \in Seq(S)
      BY <2>1, <2>2
    <3> QED  BY <1>1, <3>1, <3>2
  <2> QED  BY <1>1, <2>2, <2>3
<1>3. 0 \in T
  <2>1. SubSeq(f, 1, 0) = <<>> /\ SubSeq(s, 1, 0) = <<>>
    BY SubSeqEmpty
  <2>2. FlattenSeq(<<>>) = <<>>
    BY FlattenAppend, Zenon
  <2>3. FlattenSeq(SubSeq(f, 1, 0)) = SubSeq(s, 1, 0)
    BY <2>1, <2>2, Zenon
  <2>4. 0 \in 0..Len(s)
    BY <1>1
  <2> QED  BY <2>3, <2>4, Zenon
<1>4. ASSUME NEW k \in 0..(Len(s) - 1), k \in T
      PROVE  k + 1 \in T
  <2>1. k + 1 \in 1..Len(s) /\ (k + 1) - 1 = k /\ k + 1 \in 0..Len(s)
    BY <1>1
  <2>2. FlattenSeq(SubSeq(f, 1, k + 1)) = FlattenSeq(SubSeq(f, 1, k)) \o f[k + 1]
    BY <1>2, FlattenPrefix
  <2>3. SubSeq(s, 1, k + 1) = SubSeq(s, 1, k) \o <<s[k + 1]>>
    <3>1. 1 \in 1..Len(s) /\ k + 1 \in 1..Len(s)
      BY <2>1
    <3>2. SubSeq(s, 1, k + 1) = SubSeq(s, 1, (k + 1) - 1) \o <<s[k + 1]>>
      BY <3>1, SubSeqRecursiveSecond
    <3> QED  BY <2>1, <3>2
  <2>4. FlattenSeq(SubSeq(f, 1, k + 1)) = SubSeq(s, 1, k + 1)
    BY <1>2, <1>4, <2>1, <2>2, <2>3
  <2> QED  BY <2>1, <2>4
<1>5. Len(s) \in T
  <2> HIDE DEF T
  <2>1. \A k \in 0..Len(s) : k \in T
    BY <1>1, <1>3, <1>4, UpTo
  <2> QED  BY <1>1, <2>1
<1>6. SubSeq(f, 1, Len(f)) = f /\ SubSeq(s, 1, Len(s)) = s
  BY <1>2, SubSeqFull
<1> QED  BY <1>2, <1>5, <1>6

---------------------------------------------------------------------------
(* Sequences of numbers: smaller, said without a CHOOSE.                   *)

\* a is smaller than b at the place k.
SmallerAt(a, b, k) ==
  /\ k \in 1..Len(b)
  /\ k <= Len(a) + 1
  /\ \A l \in 1..(k - 1) : a[l] = b[l]
  /\ k <= Len(a) => a[k] < b[k]

Smaller(a, b) == \E k \in Nat : SmallerAt(a, b, k)

\* The places at which both have something, and not the same.
Differences(a, b) == {k \in DOMAIN a \cap DOMAIN b : a[k] # b[k]}

\* Two sequences that differ somewhere are compared at their first difference.
LEMMA FirstDifference ==
  ASSUME NEW a \in Seq(Nat), NEW b \in Seq(Nat), Differences(a, b) # {}
  PROVE  \E k \in Differences(a, b) :
           /\ \A l \in 1..(k - 1) : a[l] = b[l]
           /\ Lexicographic(a, b) = IF a[k] < b[k] THEN -1 ELSE 1
<1> DEFINE D == Differences(a, b)
           k == Min(D)
<1>1. D \in SUBSET Nat
  BY DEF Differences
<1>2. k \in D /\ \A l \in D : k <= l
  BY <1>1, MinIsFirst
<1>3. ASSUME NEW l \in 1..(k - 1)
      PROVE  a[l] = b[l]
  <2>1. k \in 1..Len(a) /\ k \in 1..Len(b)
    <3>1. k \in DOMAIN a /\ k \in DOMAIN b
      BY <1>2, Zenon DEF Differences
    <3> HIDE DEF D, k
    <3> QED  BY <3>1
  <2>2. l \notin D
    <3> HIDE DEF D
    <3> QED  BY <1>1, <1>2, <2>1
  <2>3. l \in DOMAIN a \cap DOMAIN b
    BY <2>1
  <2> QED  BY <2>2, <2>3 DEF Differences
<1>4. Lexicographic(a, b) = IF a[k] < b[k] THEN -1 ELSE 1
  BY Zenon DEF Lexicographic, Differences
<1> QED  BY <1>2, <1>3, <1>4

\* What Lexicographic answers of the first of two sequences: smaller, larger, or
\* the same.
LEMMA LexicographicIsSmaller ==
  ASSUME NEW a \in Seq(Nat), NEW b \in Seq(Nat)
  PROVE  \/ Lexicographic(a, b) = -1 /\ Smaller(a, b)
         \/ Lexicographic(a, b) = 1 /\ Smaller(b, a)
         \/ Lexicographic(a, b) = 0 /\ a = b
<1>1. CASE Differences(a, b) # {}
  <2>1. PICK k \in Differences(a, b) :
           /\ \A l \in 1..(k - 1) : a[l] = b[l]
           /\ Lexicographic(a, b) = IF a[k] < b[k] THEN -1 ELSE 1
    BY <1>1, FirstDifference
  <2>2. k \in 1..Len(a) /\ k \in 1..Len(b) /\ a[k] # b[k] /\ a[k] \in Nat /\ b[k] \in Nat
    BY DEF Differences
  <2>3. CASE a[k] < b[k]
    <3>1. SmallerAt(a, b, k)
      BY <2>1, <2>2, <2>3 DEF SmallerAt
    <3> QED  BY <2>1, <2>2, <2>3, <3>1 DEF Smaller
  <2>4. CASE b[k] < a[k]
    <3>1. SmallerAt(b, a, k)
      BY <2>1, <2>2, <2>4 DEF SmallerAt
    <3>2. ~(a[k] < b[k])
      BY <2>2, <2>4
    <3> QED  BY <2>1, <2>2, <3>1, <3>2 DEF Smaller
  <2> QED  BY <2>2, <2>3, <2>4
<1>2. CASE Differences(a, b) = {}
  <2>1. \A k \in DOMAIN a \cap DOMAIN b : a[k] = b[k]
    BY <1>2 DEF Differences
  <2>2. Lexicographic(a, b) = IF Len(a) < Len(b) THEN -1 ELSE IF Len(a) > Len(b) THEN 1 ELSE 0
    BY <1>2, Zenon DEF Lexicographic, Differences
  <2>3. CASE Len(a) < Len(b)
    <3>1. SmallerAt(a, b, Len(a) + 1)
      BY <2>1, <2>3 DEF SmallerAt
    <3> QED  BY <2>2, <2>3, <3>1 DEF Smaller
  <2>4. CASE Len(b) < Len(a)
    <3>1. SmallerAt(b, a, Len(b) + 1)
      BY <2>1, <2>4 DEF SmallerAt
    <3> QED  BY <2>2, <2>4, <3>1 DEF Smaller
  <2>5. CASE Len(a) = Len(b)
    <3>1. a = b
      BY <2>1, <2>5
    <3> QED  BY <2>2, <2>5, <3>1
  <2> QED  BY <2>3, <2>4, <2>5
<1> QED  BY <1>1, <1>2

\* Nothing is smaller than itself, nor both smaller and larger than another.
LEMMA SmallerIsAsymmetric ==
  ASSUME NEW a \in Seq(Nat), NEW b \in Seq(Nat), Smaller(a, b)
  PROVE  ~Smaller(b, a) /\ a # b
<1>1. PICK k \in Nat : SmallerAt(a, b, k)
  BY DEF Smaller
<1>2. a # b
  BY <1>1 DEF SmallerAt
<1>3. ASSUME NEW j \in Nat, SmallerAt(b, a, j)
      PROVE  FALSE
  <2>1. CASE j < k
    BY <1>1, <1>3, <2>1 DEF SmallerAt
  <2>2. CASE k < j
    BY <1>1, <1>3, <2>2 DEF SmallerAt
  <2>3. CASE j = k
    BY <1>1, <1>3, <2>3 DEF SmallerAt
  <2> QED  BY <2>1, <2>2, <2>3
<1> QED  BY <1>2, <1>3 DEF Smaller

\* What is smaller than a smaller one is smaller: the first of the two places
\* decides.
LEMMA SmallerIsTransitive ==
  ASSUME NEW a \in Seq(Nat), NEW b \in Seq(Nat), NEW c \in Seq(Nat),
         Smaller(a, b), Smaller(b, c)
  PROVE  Smaller(a, c)
<1>1. PICK k \in Nat : SmallerAt(a, b, k)
  BY DEF Smaller
<1>2. PICK j \in Nat : SmallerAt(b, c, j)
  BY DEF Smaller
<1>3. CASE k < j
  <2>1. SmallerAt(a, c, k)
    BY <1>1, <1>2, <1>3 DEF SmallerAt
  <2> QED  BY <2>1 DEF Smaller
<1>4. CASE j < k
  <2>1. SmallerAt(a, c, j)
    <3>1. k \in 1..Len(b) /\ k <= Len(a) + 1 /\ j \in 1..Len(c) /\ j \in 1..(k - 1)
      BY <1>1, <1>2, <1>4 DEF SmallerAt
    <3>2. \A l \in 1..(j - 1) : a[l] = c[l]
      BY <1>1, <1>2, <1>4, <3>1 DEF SmallerAt
    <3>3. a[j] = b[j] /\ b[j] < c[j]
      BY <1>1, <1>2, <3>1 DEF SmallerAt
    <3> QED  BY <3>1, <3>2, <3>3 DEF SmallerAt
  <2> QED  BY <2>1 DEF Smaller
<1>5. CASE j = k
  <2>1. SmallerAt(a, c, k)
    BY <1>1, <1>2, <1>5 DEF SmallerAt
  <2> QED  BY <2>1 DEF Smaller
<1> QED  BY <1>3, <1>4, <1>5

---------------------------------------------------------------------------
(* Versions: the three numbers first, then the tags, no tag coming last.   *)

Earlier(p, q) == p # <<>> /\ (q = <<>> \/ Smaller(p, q))

Older(a, b) ==
  \/ Smaller(a.numbers, b.numbers)
  \/ a.numbers = b.numbers /\ Earlier(a.pre, b.pre)

\* The three numbers of a version are a sequence.
LEMMA NumbersAreASequence ==
  ASSUME NEW v \in Versions
  PROVE  v.numbers \in Seq(Nat) /\ Len(v.numbers) = 3 /\ v.pre \in Seq(Nat)
<1>1. v.numbers \in [1..3 -> Nat] /\ v.pre \in Seq(Nat)
  BY DEF Versions
<1>2. \A f \in [1..3 -> Nat] : f \in Seq(Nat) /\ Len(f) = 3
  <2> TAKE f \in [1..3 -> Nat]
  <2>1. f \in UNION {[1..n -> Nat] : n \in Nat}
    OBVIOUS
  <2>2. f \in Seq(Nat)
    BY <2>1, SeqDef, Zenon
  <2> QED  BY <2>2
<1> QED  BY <1>1, <1>2

\* Two tags: one is earlier, or they are the same.
LEMMA TagsAreOrdered ==
  ASSUME NEW a \in Versions, NEW b \in Versions, a.numbers = b.numbers
  PROVE  \/ CompareSemver(a, b) = -1 /\ Earlier(a.pre, b.pre)
         \/ CompareSemver(a, b) = 1 /\ Earlier(b.pre, a.pre)
         \/ CompareSemver(a, b) = 0 /\ a.pre = b.pre
<1> DEFINE tags == Lexicographic(a.pre, b.pre)
<1>1. a.numbers \in Seq(Nat) /\ a.pre \in Seq(Nat) /\ b.pre \in Seq(Nat)
  BY NumbersAreASequence
<1>2. ~Smaller(a.numbers, a.numbers)
  BY <1>1, SmallerIsAsymmetric
<1>3. Lexicographic(a.numbers, b.numbers) = 0
  BY <1>1, <1>2, LexicographicIsSmaller
<1>4. CompareSemver(a, b) = IF a.pre = <<>> /\ b.pre = <<>> THEN 0
                            ELSE IF a.pre = <<>> THEN 1
                            ELSE IF b.pre = <<>> THEN -1 ELSE tags
  BY <1>3 DEF CompareSemver
<1>5. \/ tags = -1 /\ Smaller(a.pre, b.pre)
      \/ tags = 1 /\ Smaller(b.pre, a.pre)
      \/ tags = 0 /\ a.pre = b.pre
  BY <1>1, LexicographicIsSmaller
<1> HIDE DEF tags
<1> QED  BY <1>4, <1>5 DEF Earlier

\* What compareSemver answers of two versions is which of them is the older:
\* exactly one is, or they are the same version.
LEMMA CompareSemverIsOlder ==
  ASSUME NEW a \in Versions, NEW b \in Versions
  PROVE  \/ CompareSemver(a, b) = -1 /\ Older(a, b)
         \/ CompareSemver(a, b) = 1 /\ Older(b, a)
         \/ CompareSemver(a, b) = 0 /\ a = b
<1> DEFINE numbers == Lexicographic(a.numbers, b.numbers)
<1>1. a.numbers \in Seq(Nat) /\ b.numbers \in Seq(Nat)
  BY NumbersAreASequence
<1>2. \/ numbers = -1 /\ Smaller(a.numbers, b.numbers)
      \/ numbers = 1 /\ Smaller(b.numbers, a.numbers)
      \/ numbers = 0 /\ a.numbers = b.numbers
  BY <1>1, LexicographicIsSmaller
<1>3. numbers # 0 => CompareSemver(a, b) = numbers
  BY DEF CompareSemver
<1>4. CASE a.numbers = b.numbers
  <2>1. a.pre = b.pre => a = b
    BY <1>4 DEF Versions
  <2> QED  BY <1>4, <2>1, TagsAreOrdered DEF Older
<1>5. CASE a.numbers # b.numbers
  <2> HIDE DEF numbers
  <2> QED  BY <1>2, <1>3, <1>5 DEF Older
<1> QED  BY <1>4, <1>5

\* Of two tags one at most is the earlier.
LEMMA EarlierIsAsymmetric ==
  ASSUME NEW p \in Seq(Nat), NEW q \in Seq(Nat), Earlier(p, q)
  PROVE  ~Earlier(q, p) /\ p # q
<1>1. CASE q = <<>>
  BY <1>1 DEF Earlier
<1>2. CASE Smaller(p, q)
  <2>1. p # <<>> /\ ~Smaller(q, p) /\ p # q
    BY <1>2, SmallerIsAsymmetric DEF Earlier
  <2> QED  BY <2>1 DEF Earlier
<1> QED  BY <1>1, <1>2 DEF Earlier

\* A tag earlier than an earlier one is earlier.
LEMMA EarlierIsTransitive ==
  ASSUME NEW p \in Seq(Nat), NEW q \in Seq(Nat), NEW r \in Seq(Nat),
         Earlier(p, q), Earlier(q, r)
  PROVE  Earlier(p, r)
<1>1. p # <<>> /\ q # <<>>
  BY DEF Earlier
<1>2. CASE r = <<>>
  BY <1>1, <1>2 DEF Earlier
<1>3. CASE r # <<>>
  <2>1. Smaller(p, q) /\ Smaller(q, r)
    BY <1>1, <1>3 DEF Earlier
  <2>2. Smaller(p, r)
    BY <2>1, SmallerIsTransitive
  <2> QED  BY <1>1, <2>2 DEF Earlier
<1> QED  BY <1>2, <1>3

\* No two versions are each older than the other, and none than itself.
LEMMA OlderIsAsymmetric ==
  ASSUME NEW a \in Versions, NEW b \in Versions, Older(a, b)
  PROVE  ~Older(b, a) /\ a # b
<1>1. /\ a.numbers \in Seq(Nat) /\ b.numbers \in Seq(Nat)
      /\ a.pre \in Seq(Nat) /\ b.pre \in Seq(Nat)
  BY NumbersAreASequence
<1>2. CASE Smaller(a.numbers, b.numbers)
  <2>1. ~Smaller(b.numbers, a.numbers) /\ a.numbers # b.numbers
    BY <1>1, <1>2, SmallerIsAsymmetric
  <2> QED  BY <2>1 DEF Older
<1>3. CASE a.numbers = b.numbers /\ Earlier(a.pre, b.pre)
  <2>1. ~Earlier(b.pre, a.pre) /\ a.pre # b.pre
    BY <1>1, <1>3, EarlierIsAsymmetric
  <2>2. ~Smaller(b.numbers, a.numbers)
    BY <1>1, <1>3, SmallerIsAsymmetric
  <2> QED  BY <2>1, <2>2 DEF Older
<1> QED  BY <1>2, <1>3 DEF Older

\* A version older than an older one is older.
LEMMA OlderIsTransitive ==
  ASSUME NEW a \in Versions, NEW b \in Versions, NEW c \in Versions,
         Older(a, b), Older(b, c)
  PROVE  Older(a, c)
<1>1. /\ a.numbers \in Seq(Nat) /\ b.numbers \in Seq(Nat) /\ c.numbers \in Seq(Nat)
      /\ a.pre \in Seq(Nat) /\ b.pre \in Seq(Nat) /\ c.pre \in Seq(Nat)
  BY NumbersAreASequence
<1>2. Smaller(a.numbers, b.numbers) /\ Smaller(b.numbers, c.numbers)
        => Smaller(a.numbers, c.numbers)
  BY <1>1, SmallerIsTransitive
<1>3. Earlier(a.pre, b.pre) /\ Earlier(b.pre, c.pre) => Earlier(a.pre, c.pre)
  BY <1>1, EarlierIsTransitive
<1> QED  BY <1>2, <1>3 DEF Older

\* compareSemver orders all versions: swapping them swaps the answer, only equal
\* versions compare as equal, and what is newer than a newer version is newer. A
\* sequence of updates, each to a version hsh update finds newer, can never come
\* back to a version it has left.
THEOREM CompareSemverOrders ==
  /\ \A a, b \in Versions :
       /\ CompareSemver(a, b) \in {-1, 0, 1}
       /\ CompareSemver(b, a) = -CompareSemver(a, b)
       /\ CompareSemver(a, b) = 0 <=> a = b
  /\ \A a, b, c \in Versions :
       CompareSemver(a, b) = 1 /\ CompareSemver(b, c) = 1 => CompareSemver(a, c) = 1
<1>1. ASSUME NEW a \in Versions, NEW b \in Versions
      PROVE  /\ CompareSemver(a, b) \in {-1, 0, 1}
             /\ CompareSemver(b, a) = -CompareSemver(a, b)
             /\ CompareSemver(a, b) = 0 <=> a = b
  <2>1. Older(a, b) => ~Older(b, a) /\ a # b
    BY OlderIsAsymmetric
  <2>2. Older(b, a) => ~Older(a, b) /\ a # b
    BY OlderIsAsymmetric
  <2>3. \/ CompareSemver(a, b) = -1 /\ Older(a, b)
        \/ CompareSemver(a, b) = 1 /\ Older(b, a)
        \/ CompareSemver(a, b) = 0 /\ a = b
    BY CompareSemverIsOlder
  <2>4. \/ CompareSemver(b, a) = -1 /\ Older(b, a)
        \/ CompareSemver(b, a) = 1 /\ Older(a, b)
        \/ CompareSemver(b, a) = 0 /\ b = a
    BY CompareSemverIsOlder
  <2> QED  BY <2>1, <2>2, <2>3, <2>4
<1>2. ASSUME NEW a \in Versions, NEW b \in Versions, NEW c \in Versions,
             CompareSemver(a, b) = 1, CompareSemver(b, c) = 1
      PROVE  CompareSemver(a, c) = 1
  <2>1. Older(b, a) /\ Older(c, b)
    BY <1>2, CompareSemverIsOlder
  <2>2. Older(c, a)
    BY <2>1, OlderIsTransitive
  <2>3. ~Older(a, c) /\ c # a
    BY <2>2, OlderIsAsymmetric
  <2> QED  BY <2>3, CompareSemverIsOlder
<1> QED  BY <1>1, <1>2

---------------------------------------------------------------------------
(* The answers of module Arguments.                                        *)

\* 1 for a release, 0 for a pre-release.
Final(v) == IF v.pre = <<>> THEN 1 ELSE 0

\* Of two sequences as long as each other, a number behind each changes nothing.
LEMMA SmallerAppend ==
  ASSUME NEW a \in Seq(Nat), NEW b \in Seq(Nat), Len(a) = Len(b),
         NEW x \in Nat, NEW y \in Nat, Smaller(a, b)
  PROVE  Smaller(Append(a, x), Append(b, y))
<1>1. PICK k \in Nat : SmallerAt(a, b, k)
  BY DEF Smaller
<1>2. SmallerAt(Append(a, x), Append(b, y), k)
  BY <1>1 DEF SmallerAt
<1> QED  BY <1>2 DEF Smaller

\* Behind the same sequence, the smaller number is the smaller sequence.
LEMMA AppendSmaller ==
  ASSUME NEW a \in Seq(Nat), NEW x \in Nat, NEW y \in Nat, x < y
  PROVE  Smaller(Append(a, x), Append(a, y))
<1>1. SmallerAt(Append(a, x), Append(a, y), Len(a) + 1)
  BY DEF SmallerAt
<1> QED  BY <1>1 DEF Smaller

\* Unless numbers and release are the same, they decide: the tags do not count.
LEMMA NumbersDecide ==
  ASSUME NEW a \in Versions, NEW b \in Versions,
         a.numbers # b.numbers \/ Final(a) # Final(b)
  PROVE  CompareSemver(a, b) =
           Lexicographic(Append(a.numbers, Final(a)), Append(b.numbers, Final(b)))
<1> DEFINE x == Append(a.numbers, Final(a))
           y == Append(b.numbers, Final(b))
<1>1. /\ a.numbers \in Seq(Nat) /\ b.numbers \in Seq(Nat)
      /\ Len(a.numbers) = 3 /\ Len(b.numbers) = 3
  BY NumbersAreASequence
<1>2. Final(a) \in Nat /\ Final(b) \in Nat
  BY DEF Final
<1>3. x \in Seq(Nat) /\ y \in Seq(Nat)
  BY <1>1, <1>2
<1>4. ASSUME Older(a, b)
      PROVE  Smaller(x, y)
  <2>1. CASE Smaller(a.numbers, b.numbers)
    <3>1. Len(a.numbers) = Len(b.numbers)
      BY <1>1
    <3> QED  BY <1>1, <1>2, <2>1, <3>1, SmallerAppend, Zenon
  <2>2. CASE a.numbers = b.numbers /\ Earlier(a.pre, b.pre)
    <3>1. Final(a) # Final(b) /\ a.pre # <<>>
      BY <2>2, Zenon DEF Earlier
    <3>2. Final(a) < Final(b)
      BY <3>1 DEF Final
    <3> QED  BY <1>1, <1>2, <2>2, <3>2, AppendSmaller
  <2> QED  BY <1>4, <2>1, <2>2, Zenon DEF Older
<1>5. ASSUME Older(b, a)
      PROVE  Smaller(y, x)
  <2>1. CASE Smaller(b.numbers, a.numbers)
    <3>1. Len(b.numbers) = Len(a.numbers)
      BY <1>1
    <3> QED  BY <1>1, <1>2, <2>1, <3>1, SmallerAppend, Zenon
  <2>2. CASE b.numbers = a.numbers /\ Earlier(b.pre, a.pre)
    <3>1. Final(b) # Final(a) /\ b.pre # <<>>
      BY <2>2, Zenon DEF Earlier
    <3>2. Final(b) < Final(a)
      BY <3>1 DEF Final
    <3> QED  BY <1>1, <1>2, <2>2, <3>2, AppendSmaller
  <2> QED  BY <1>5, <2>1, <2>2, Zenon DEF Older
<1>6. \/ CompareSemver(a, b) = -1 /\ Smaller(x, y)
      \/ CompareSemver(a, b) = 1 /\ Smaller(y, x)
  <2>1. a # b
    BY DEF Final
  <2> HIDE DEF x, y
  <2> QED  BY <1>4, <1>5, <2>1, CompareSemverIsOlder
<1> HIDE DEF x, y
<1>7. \/ Lexicographic(x, y) = -1 /\ Smaller(x, y)
      \/ Lexicographic(x, y) = 1 /\ Smaller(y, x)
      \/ Lexicographic(x, y) = 0 /\ x = y
  BY <1>3, LexicographicIsSmaller
<1>8. Smaller(x, y) => ~Smaller(y, x) /\ x # y
  BY <1>3, SmallerIsAsymmetric
<1>9. Smaller(y, x) => ~Smaller(x, y) /\ x # y
  BY <1>3, SmallerIsAsymmetric
<1>10. CompareSemver(a, b) = Lexicographic(x, y)
  BY <1>6, <1>7, <1>8, <1>9
<1> QED  BY <1>10 DEF x, y

\* A question is one of those given, and its answer is that of the code.
MatchAnswered ==
  question.what = "match" =>
    /\ question.of \in Lookups
    /\ answer # none =>
         answer = MatchConnection(question.of.kind, question.of.target, question.of.connections)

KubectlAnswered ==
  question.what = "kubectl" =>
    /\ question.of \in KubectlCalls
    /\ answer # none =>
         LET c == question.of
         IN  /\ answer.context = DetectContext(c.args, c.env, c.files)
             /\ answer.env = IF Routed(c.args, c.env, c.files)
                               THEN BuildKubeconfigEnv(EphemeralFile, c.env) ELSE c.env

VersionsAnswered ==
  question.what = "version" =>
    /\ question.of \in VersionPairs
    /\ answer # none =>
         answer = [order |-> CompareSemver(question.of[1], question.of[2]),
                   reverse |-> CompareSemver(question.of[2], question.of[1])]

Answers == MatchAnswered /\ KubectlAnswered /\ VersionsAnswered

\* The first question is one of those given, and is not answered yet.
LEMMA AnswersInit == Init => Answers
<1> SUFFICES ASSUME Init
             PROVE  Answers
  OBVIOUS
<1>1. answer = none
  BY DEF Init
<1>2. question.what = "match" => question.of \in Lookups
  BY DEF Init
<1>3. question.what = "kubectl" => question.of \in KubectlCalls
  BY DEF Init
<1>4. question.what = "version" => question.of \in VersionPairs
  BY DEF Init
<1> QED  BY <1>1, <1>2, <1>3, <1>4 DEF Answers, MatchAnswered, KubectlAnswered, VersionsAnswered

\* Each kind of question is answered by its own code, and the question stays.
LEMMA AnswersNext == Answers /\ [Next]_argumentVars => Answers'
<1> SUFFICES ASSUME Answers, [Next]_argumentVars
             PROVE  Answers'
  OBVIOUS
<1> USE DEF Answers, MatchAnswered, KubectlAnswered, VersionsAnswered
<1>1. CASE UNCHANGED <<question, answer>>
  BY <1>1
<1>2. CASE AnswerMatch /\ UNCHANGED question
  BY <1>2 DEF AnswerMatch
<1>3. CASE AnswerKubectl /\ UNCHANGED question
  BY <1>3 DEF AnswerKubectl
<1>4. CASE AnswerVersion /\ UNCHANGED question
  BY <1>4 DEF AnswerVersion
<1> QED  BY <1>1, <1>2, <1>3, <1>4 DEF Next, Answer, argumentVars

\* In every reachable state.
LEMMA AnswersInvariant == Spec => []Answers
  BY AnswersInit, AnswersNext, PTL DEF Spec

\* Whatever pairs of versions are asked about, the answer of a comparison is an
\* order of their numbers, a release coming after its pre-releases.
THEOREM VersionsAreOrdered == Spec => []NewerIsAnOrder
<1>1. VersionsAnswered => NewerIsAnOrder
  <2> SUFFICES ASSUME VersionsAnswered, Answered("version")
               PROVE  NewerIsAnOrder
    BY DEF NewerIsAnOrder
  <2> DEFINE a == question.of[1]
             b == question.of[2]
  <2>1. a \in Versions /\ b \in Versions
    BY ArgumentsAssumption DEF VersionsAnswered, Answered
  <2>2. answer.order = CompareSemver(a, b) /\ answer.reverse = CompareSemver(b, a)
    BY DEF VersionsAnswered, Answered
  <2>3. answer.reverse = -answer.order
    BY <2>1, <2>2, CompareSemverOrders
  <2>4. a.numbers # b.numbers \/ Final(a) # Final(b) =>
          answer.order = Lexicographic(Append(a.numbers, Final(a)), Append(b.numbers, Final(b)))
    BY <2>1, <2>2, NumbersDecide
  <2> QED  BY <2>3, <2>4 DEF NewerIsAnOrder, Final
<1>2. Answers => VersionsAnswered
  BY DEF Answers
<1> QED  BY <1>1, <1>2, AnswersInvariant, PTL

---------------------------------------------------------------------------
(* Tags: where the strings first differ, the identifiers first differ.     *)

\* An identifier ends at the first dot from its beginning on, or with the tag.
EndsAt(pre, s, e) ==
  /\ e \in s..(Len(pre) + 1)
  /\ e <= Len(pre) => pre[e] = Dot
  /\ \A l \in s..(e - 1) : pre[l] # Dot

\* There is such an end, and only one.
LEMMA IdentifierEnds ==
  ASSUME NEW pre \in Seq(Nat), NEW s \in 1..(Len(pre) + 1)
  PROVE  /\ EndsAt(pre, s, IdentifierEnd(pre, s))
         /\ \A e : EndsAt(pre, s, e) => e = IdentifierEnd(pre, s)
<1> DEFINE n == Len(pre)
           ends == {k \in Dots(pre) : k >= s} \cup {n + 1}
           m == Min(ends)
<1>1. n \in Nat /\ s \in Nat /\ s <= n + 1 /\ ends \in SUBSET Nat /\ n + 1 \in ends
  BY DEF Dots
<1>2. \A k \in ends : k = n + 1 \/ (k \in 1..n /\ k >= s /\ pre[k] = Dot)
  BY DEF Dots
<1>3. \A k \in 1..n : k >= s /\ pre[k] = Dot => k \in ends
  BY DEF Dots
<1>4. m = IdentifierEnd(pre, s)
  BY Zenon DEF IdentifierEnd
<1> HIDE DEF ends
<1>5. m \in ends /\ \A k \in ends : m <= k
  BY <1>1, MinIsFirst
<1>6. EndsAt(pre, s, m)
  <2> HIDE DEF m
  <2>1. m \in Nat /\ s <= m /\ m <= n + 1
    BY <1>1, <1>2, <1>5
  <2>2. ASSUME NEW l \in s..(m - 1)
        PROVE  pre[l] # Dot
    BY <1>1, <1>3, <1>5, <2>1
  <2>3. m <= n => pre[m] = Dot
    BY <1>1, <1>2, <1>5, <2>1
  <2> QED  BY <1>1, <2>1, <2>2, <2>3 DEF EndsAt
<1>7. ASSUME NEW e, EndsAt(pre, s, e)
      PROVE  e = m
  <2>1. /\ e \in s..(n + 1)
        /\ e <= n => pre[e] = Dot
        /\ \A l \in s..(e - 1) : pre[l] # Dot
    BY <1>7 DEF EndsAt
  <2>2. e \in ends
    BY <1>1, <1>3, <2>1
  <2>3. \A k \in ends : e <= k
    BY <1>1, <1>2, <2>1
  <2> QED  BY <1>1, <2>2, <2>3, MinIs
<1> QED  BY <1>4, <1>6, <1>7, Zenon

\* What an identifier is made of.
LEMMA IdentifierIs ==
  ASSUME NEW pre \in Seq(Nat), NEW s \in 1..(Len(pre) + 1), NEW e, EndsAt(pre, s, e)
  PROVE  /\ IdentifierAt(pre, s) \in Seq(Nat) /\ Len(IdentifierAt(pre, s)) = e - s
         /\ \A j \in 1..(e - s) : IdentifierAt(pre, s)[j] = pre[s + j - 1]
<1>1. e = IdentifierEnd(pre, s)
  BY IdentifierEnds, Zenon
<1>2. IdentifierAt(pre, s) = SubSeq(pre, s, e - 1)
  BY <1>1, Zenon DEF IdentifierAt
<1>3. e \in s..(Len(pre) + 1) /\ Len(pre) \in Nat /\ s \in 1..(Len(pre) + 1)
  BY DEF EndsAt
<1>4. /\ SubSeq(pre, s, e - 1) \in Seq(Nat) /\ Len(SubSeq(pre, s, e - 1)) = e - s
      /\ \A j \in 1..(e - s) : SubSeq(pre, s, e - 1)[j] = pre[s + j - 1]
  BY <1>3
<1> QED  BY <1>2, <1>4

\* Two identifiers that end at the same place, with the same behind it, are one.
LEMMA SameIdentifier ==
  ASSUME NEW x \in Seq(Nat), NEW y \in Seq(Nat), NEW s \in 1..(Len(x) + 1), s <= Len(y) + 1,
         NEW e, EndsAt(x, s, e), EndsAt(y, s, e), \A l \in s..(e - 1) : x[l] = y[l]
  PROVE  IdentifierAt(x, s) = IdentifierAt(y, s)
<1> DEFINE a == IdentifierAt(x, s)
           b == IdentifierAt(y, s)
<1>1. s \in 1..(Len(y) + 1) /\ e \in Nat /\ s \in Nat /\ s <= e
  BY DEF EndsAt
<1>2. a \in Seq(Nat) /\ Len(a) = e - s /\ \A j \in 1..(e - s) : a[j] = x[s + j - 1]
  BY IdentifierIs
<1>3. b \in Seq(Nat) /\ Len(b) = e - s /\ \A j \in 1..(e - s) : b[j] = y[s + j - 1]
  BY <1>1, IdentifierIs
<1> HIDE DEF a, b
<1>4. \A j \in 1..(e - s) : a[j] = b[j]
  <2> TAKE j \in 1..(e - s)
  <2>1. s + j - 1 \in s..(e - 1)
    BY <1>1
  <2> QED  BY <1>2, <1>3, <2>1
<1>5. a = b
  BY <1>1, <1>2, <1>3, <1>4
<1> QED  BY <1>5 DEF a, b

\* The identifier that a place is in begins at or before it.
LEMMA BeginsBefore ==
  ASSUME NEW pre \in Seq(Nat), NEW k \in 1..(Len(pre) + 1)
  PROVE  \E s \in Begins(pre) : s \in 1..k /\ \A l \in s..(k - 1) : pre[l] # Dot
<1> DEFINE n == Len(pre)
           T == {j \in 0..n : \E s \in Begins(pre) : s \in 1..(j + 1) /\ \A l \in s..j : pre[l] # Dot}
<1>1. n \in Nat
  OBVIOUS
<1>2. 0 \in T
  <2>1. 1 \in Begins(pre) /\ 1 \in 1..(0 + 1) /\ \A l \in 1..0 : pre[l] # Dot
    BY DEF Begins
  <2> QED  BY <1>1, <2>1
<1>3. ASSUME NEW j \in 0..(n - 1), j \in T
      PROVE  j + 1 \in T
  <2>1. PICK s \in Begins(pre) : s \in 1..(j + 1) /\ \A l \in s..j : pre[l] # Dot
    BY <1>3
  <2>2. j + 1 \in 0..n /\ j + 1 \in 1..n
    BY <1>1
  <2>3. CASE pre[j + 1] = Dot
    <3>1. j + 2 \in Begins(pre)
      <4>1. j + 1 \in Dots(pre)
        BY <2>2, <2>3 DEF Dots
      <4>2. j + 2 = (j + 1) + 1
        BY <2>2
      <4> QED  BY <4>1, <4>2 DEF Begins
    <3>2. j + 2 \in 1..((j + 1) + 1) /\ \A l \in (j + 2)..(j + 1) : pre[l] # Dot
      BY <2>2
    <3> QED  BY <2>2, <3>1, <3>2
  <2>4. CASE pre[j + 1] # Dot
    <3>1. s \in 1..((j + 1) + 1) /\ \A l \in s..(j + 1) : pre[l] # Dot
      BY <2>1, <2>2, <2>4
    <3> QED  BY <2>2, <3>1
  <2> QED  BY <2>3, <2>4
<1>4. \A j \in 0..n : j \in T
  <2> HIDE DEF T
  <2> QED  BY <1>1, <1>2, <1>3, UpTo
<1>5. k - 1 \in 0..n /\ (k - 1) + 1 = k
  BY <1>1
<1>6. k - 1 \in T
  BY <1>4, <1>5
<1> QED  BY <1>5, <1>6

\* The smaller of two identifiers, as strings, is the smaller to semver, if they
\* are numbers of the same length or begin as words do.
LEMMA SmallerIdentifier ==
  ASSUME NEW a \in Seq(Nat), NEW b \in Seq(Nat), NEW m \in Nat, SmallerAt(a, b, m),
         \A j \in 1..Len(a) : a[j] >= 48,
         Numeric(a) \/ ~IsDigit(a[1]), Numeric(b) \/ ~IsDigit(b[1]),
         Numeric(a) /\ Numeric(b) => Len(a) = Len(b)
  PROVE  CompareIdentifiers(a, b) = -1 /\ CompareIdentifiers(b, a) = 1
<1>1. Lexicographic(a, b) = -1 /\ Lexicographic(b, a) = 1
  <2>1. Smaller(a, b)
    BY DEF Smaller
  <2>2. ~Smaller(b, a) /\ a # b
    BY <2>1, SmallerIsAsymmetric
  <2> QED  BY <2>1, <2>2, LexicographicIsSmaller
<1>2. Numeric(b) => Numeric(a)
  <2> SUFFICES ASSUME Numeric(b), ~Numeric(a)
               PROVE  FALSE
    OBVIOUS
  <2>1. Len(a) >= 1 /\ ~IsDigit(a[1])
    BY DEF Numeric
  <2>2. a[1] > 57 /\ a[1] \in Nat
    <3>1. 1 \in 1..Len(a) /\ a[1] \in Nat
      BY <2>1
    <3>2. a[1] >= 48 /\ a[1] \notin 48..57
      BY <2>1, <3>1 DEF IsDigit
    <3> DEFINE c == a[1]
    <3>3. c \in Nat /\ c >= 48 /\ c \notin 48..57
      BY <3>1, <3>2
    <3> HIDE DEF c
    <3>4. c > 57
      BY ONLY <3>3
    <3> QED  BY <3>1, <3>4 DEF c
  <2>3. Len(b) >= 1 /\ b[1] \in Nat
    BY DEF SmallerAt
  <2>4. b[1] <= 57
    <3>1. 1 \in DOMAIN b
      BY <2>3
    <3> DEFINE c == b[1]
    <3>2. c \in 48..57
      BY <3>1, Zenon DEF Numeric, IsDigit
    <3> HIDE DEF c
    <3>3. c <= 57
      BY ONLY <3>2
    <3> QED  BY <3>3 DEF c
  <2>5. a[1] = b[1] \/ a[1] < b[1]
    BY <2>1 DEF SmallerAt
  <2> QED  BY <2>2, <2>3, <2>4, <2>5
<1>3. CASE Numeric(a) /\ Numeric(b)
  <2>1. Len(a) = Len(b) /\ Len(a) \in Nat
    BY <1>3
  <2> QED  BY <1>1, <1>3, <2>1 DEF CompareIdentifiers
<1>4. CASE Numeric(a) /\ ~Numeric(b)
  BY <1>4, Zenon DEF CompareIdentifiers
<1>5. CASE ~Numeric(a) /\ ~Numeric(b)
  BY <1>1, <1>5, Zenon DEF CompareIdentifiers
<1> QED  BY <1>2, <1>3, <1>4, <1>5


\* A tag that is smaller as a string is smaller to semver, where both are alike.
LEMMA SmallerTag ==
  ASSUME NEW x \in Seq(Nat), NEW y \in Seq(Nat), Smaller(x, y), Alike(x, y) \/ Alike(y, x)
  PROVE  ComparePre(x, y) = -1 /\ ComparePre(y, x) = 1
<1> DEFINE A(s) == IdentifierAt(x, s)
           B(s) == IdentifierAt(y, s)
           D == {s \in Together(x, y) : A(s) # B(s)}
<1>1. PICK k \in Nat : SmallerAt(x, y, k)
  BY DEF Smaller
<1>2. /\ Len(x) \in Nat /\ Len(y) \in Nat /\ k \in 1..Len(y) /\ k \in 1..(Len(x) + 1)
      /\ \A l \in 1..(k - 1) : x[l] = y[l]
      /\ k <= Len(x) => x[k] < y[k]
  BY <1>1 DEF SmallerAt
<1>3. PICK s \in Begins(x) : s \in 1..k /\ \A l \in s..(k - 1) : x[l] # Dot
  BY <1>2, BeginsBefore
<1>4. /\ \A l \in 1..Len(x) : x[l] \in Nat /\ (x[l] = Dot \/ x[l] >= 48)
      /\ \A l \in 1..Len(y) : y[l] \in Nat /\ (y[l] = Dot \/ y[l] >= 48)
  BY DEF Alike, NoHyphen
<1>5. Together(y, x) = Together(x, y)
  BY DEF Together
<1>6. /\ ComparePre(x, y) = IF D # {} THEN CompareIdentifiers(A(Min(D)), B(Min(D)))
                            ELSE IF Len(x) < Len(y) THEN -1 ELSE IF Len(x) > Len(y) THEN 1 ELSE 0
      /\ ComparePre(y, x) = IF D # {} THEN CompareIdentifiers(B(Min(D)), A(Min(D)))
                            ELSE IF Len(y) < Len(x) THEN -1 ELSE IF Len(y) > Len(x) THEN 1 ELSE 0
  <2>1. D = {r \in Together(y, x) : B(r) # A(r)}
    BY <1>5
  <2> QED  BY <2>1, Zenon DEF ComparePre
<1>7. s \in Together(x, y)
  <2>1. s \in Begins(y)
    <3>1. CASE s = 1
      BY <3>1 DEF Begins
    <3>2. CASE s # 1
      <4>1. s - 1 \in Dots(x)
        BY <1>3, <3>2 DEF Begins, Dots
      <4>2. s - 1 \in 1..Len(y) /\ y[s - 1] = Dot
        BY <1>2, <1>3, <4>1 DEF Dots
      <4>3. s - 1 \in Dots(y) /\ s = (s - 1) + 1
        BY <1>3, <4>2 DEF Dots
      <4> QED  BY <4>3 DEF Begins
    <3> QED  BY <3>1, <3>2
  <2>2. \A l \in 1..(s - 1) : x[l] = y[l]
    BY <1>2, <1>3
  <2> QED  BY <1>3, <2>1, <2>2 DEF Together
\* No other identifiers differ: those before s end before k, and none both have
\* begins behind k.
<1>8. ASSUME NEW r \in Together(x, y), r # s
      PROVE  A(r) = B(r)
  <2>1. /\ r = 1 \/ (r - 1 \in 1..Len(x) /\ x[r - 1] = Dot)
        /\ r = 1 \/ (r - 1 \in 1..Len(y) /\ y[r - 1] = Dot)
        /\ r \in Nat /\ r >= 1
        /\ \A l \in 1..(r - 1) : x[l] = y[l]
    BY DEF Together, Begins, Dots
  <2>2. r <= s
    <3> SUFFICES ASSUME r > s
                 PROVE  FALSE
      BY <1>3, <2>1
    <3>1. r - 1 \in 1..Len(x) /\ x[r - 1] = Dot /\ r - 1 >= s
      BY <1>3, <2>1
    <3>2. r - 1 >= k
      BY <1>2, <1>3, <3>1
    <3>3. k \in 1..(r - 1) /\ k <= Len(x)
      BY <1>2, <3>1, <3>2
    <3>4. x[k] = y[k] /\ x[k] < y[k] /\ x[k] \in Nat
      BY <1>2, <1>4, <2>1, <3>3
    <3> QED  BY <3>4
  <2>3. s - 1 \in 1..Len(x) /\ x[s - 1] = Dot /\ r <= s - 1
    <3>1. s # 1 /\ r <= s - 1
      BY <1>3, <2>1, <2>2, <1>8
    <3>2. s = 1 \/ (s - 1 \in 1..Len(x) /\ x[s - 1] = Dot)
      BY <1>3 DEF Begins, Dots
    <3> QED  BY <3>1, <3>2
  <2>4. r \in 1..(Len(x) + 1) /\ r \in 1..(Len(y) + 1) /\ r <= Len(y) + 1
    BY <1>2, <2>1
  <2> DEFINE e == IdentifierEnd(x, r)
  <2>5. EndsAt(x, r, e)
    BY <2>4, IdentifierEnds
  <2> HIDE DEF e
  <2>6. e \in Nat /\ r <= e /\ e <= s - 1 /\ e <= Len(x) /\ e < k
    <3>1. e \in r..(Len(x) + 1) /\ \A l \in r..(e - 1) : x[l] # Dot
      BY <2>5, Zenon DEF EndsAt
    <3>2. ~(s - 1 \in r..(e - 1))
      BY <2>3, <3>1
    <3>3. e <= s - 1
      BY <1>2, <1>3, <2>1, <2>3, <3>1, <3>2
    <3> QED  BY <1>2, <1>3, <2>1, <2>3, <3>1, <3>3
  <2>7. \A l \in r..e : x[l] = y[l]
    BY <1>2, <2>1, <2>6
  <2>8. EndsAt(y, r, e)
    <3>1. e <= Len(x) => x[e] = Dot
      BY <2>5, Zenon DEF EndsAt
    <3>2. \A l \in r..(e - 1) : x[l] # Dot
      BY <2>5, Zenon DEF EndsAt
    <3>3. e \in r..(Len(y) + 1)
      BY <1>2, <2>1, <2>6
    <3>4. y[e] = Dot
      BY <2>1, <2>6, <2>7, <3>1
    <3>5. \A l \in r..(e - 1) : y[l] # Dot
      <4> TAKE l \in r..(e - 1)
      <4>1. l \in r..e
        BY <2>1, <2>6
      <4> QED  BY <2>7, <3>2, <4>1
    <3> QED  BY <3>3, <3>4, <3>5, Zenon DEF EndsAt
  <2>9. \A l \in r..(e - 1) : x[l] = y[l]
    BY <2>1, <2>6, <2>7
  <2> QED  BY <2>4, <2>5, <2>8, <2>9, SameIdentifier, Zenon
<1> DEFINE ex == IdentifierEnd(x, s)
           ey == IdentifierEnd(y, s)
<1>9. s \in 1..(Len(x) + 1) /\ s \in 1..(Len(y) + 1) /\ s <= Len(y) + 1
  BY <1>2, <1>3
<1>10. EndsAt(x, s, ex) /\ EndsAt(y, s, ey)
  BY <1>9, IdentifierEnds
<1> HIDE DEF ex, ey
<1>11. ex \in Nat /\ ey \in Nat /\ k <= ex /\ k <= ey /\ ex <= Len(x) + 1 /\ ey <= Len(y) + 1
  <2>1. ex \in s..(Len(x) + 1) /\ (ex <= Len(x) => x[ex] = Dot)
    BY <1>10, Zenon DEF EndsAt
  <2>2. ey \in s..(Len(y) + 1) /\ (ey <= Len(y) => y[ey] = Dot)
    BY <1>10, Zenon DEF EndsAt
  <2>3. k <= ex
    <3> SUFFICES ASSUME ex < k
                 PROVE  FALSE
      BY <1>2, <2>1
    <3>1. ex \in s..(k - 1) /\ ex <= Len(x)
      BY <1>2, <1>3, <2>1
    <3> QED  BY <1>3, <2>1, <3>1
  <2>4. k <= ey
    <3> SUFFICES ASSUME ey < k
                 PROVE  FALSE
      BY <1>2, <2>2
    <3>1. ey \in s..(k - 1) /\ ey \in 1..(k - 1) /\ ey <= Len(y)
      BY <1>2, <1>3, <2>2
    <3>2. x[ey] = y[ey]
      BY <1>2, <3>1
    <3> QED  BY <1>3, <2>2, <3>1, <3>2
  <2> QED  BY <1>2, <1>3, <2>1, <2>2, <2>3, <2>4
\* The longer tag goes on with a dot: it has more identifiers.
<1>12. CASE y[k] = Dot
  <2>1. k = Len(x) + 1
    <3> SUFFICES ASSUME k <= Len(x)
                 PROVE  FALSE
      BY <1>2
    <3>1. x[k] < y[k] /\ y[k] = 46
      BY <1>2, <1>12 DEF Dot
    <3>2. k \in 1..Len(x)
      BY <1>2
    <3>3. x[k] \in Nat /\ (x[k] = 46 \/ x[k] >= 48)
      BY <1>4, <3>2 DEF Dot
    <3> QED  BY <3>1, <3>3
  <2>2. ex = k
    BY <1>2, <1>11, <2>1
  <2>3. EndsAt(y, s, k)
    <3>1. \A l \in s..(k - 1) : y[l] # Dot
      <4> TAKE l \in s..(k - 1)
      <4>1. l \in 1..(k - 1)
        BY <1>2, <1>3
      <4> QED  BY <1>2, <1>3, <4>1
    <3>2. k \in s..(Len(y) + 1)
      BY <1>2, <1>3
    <3> QED  BY <1>12, <3>1, <3>2, Zenon DEF EndsAt
  <2>4. \A l \in s..(k - 1) : x[l] = y[l]
    BY <1>2, <1>3
  <2>5. A(s) = B(s)
    BY <1>9, <1>10, <2>2, <2>3, <2>4, SameIdentifier, Zenon
  <2>6. D = {}
    BY <1>8, <2>5
  <2>7. Len(x) < Len(y)
    BY <1>2, <2>1
  <2> QED  BY <1>2, <1>6, <2>6, <2>7
\* Otherwise the identifiers that begin at s differ, at the same place.
<1>13. CASE y[k] # Dot
  <2> DEFINE a == A(s)
             b == B(s)
             m == k - s + 1
  <2>1. a \in Seq(Nat) /\ Len(a) = ex - s /\ \A j \in 1..(ex - s) : a[j] = x[s + j - 1]
    BY <1>9, <1>10, IdentifierIs
  <2>2. b \in Seq(Nat) /\ Len(b) = ey - s /\ \A j \in 1..(ey - s) : b[j] = y[s + j - 1]
    BY <1>9, <1>10, IdentifierIs
  <2>3. ey > k
    BY <1>2, <1>10, <1>11, <1>13 DEF EndsAt
  <2>4. /\ Alike(x, y) => /\ Numeric(a) \/ ~IsDigit(a[1])
                          /\ Numeric(b) \/ ~IsDigit(b[1])
                          /\ Numeric(a) /\ Numeric(b) => Len(a) = Len(b)
        /\ Alike(y, x) => /\ Numeric(a) \/ ~IsDigit(a[1])
                          /\ Numeric(b) \/ ~IsDigit(b[1])
                          /\ Numeric(a) /\ Numeric(b) => Len(b) = Len(a)
    BY <1>5, <1>7, Zenon DEF Alike
  <2>5. s \in Begins(x) /\ s = s
    BY <1>3
  <2> HIDE DEF a, b
  <2>6. m \in Nat /\ s + m - 1 = k /\ m \in 1..(ey - s) /\ m <= (ex - s) + 1
    BY <1>2, <1>3, <1>11, <2>3
  <2>7. SmallerAt(a, b, m)
    <3>1. \A l \in 1..(m - 1) : a[l] = b[l]
      <4> TAKE l \in 1..(m - 1)
      <4>1. l \in 1..(ex - s) /\ l \in 1..(ey - s) /\ s + l - 1 \in 1..(k - 1)
        BY <1>3, <1>11, <2>6
      <4> QED  BY <1>2, <2>1, <2>2, <4>1
    <3>2. ASSUME m <= Len(a)
          PROVE  a[m] < b[m]
      <4>1. m \in 1..(ex - s) /\ k <= Len(x)
        BY <1>2, <1>11, <2>1, <2>6, <3>2, <1>3
      <4>2. a[m] = x[k] /\ b[m] = y[k]
        BY <2>1, <2>2, <2>6, <4>1
      <4> QED  BY <1>2, <4>1, <4>2
    <3>3. m \in 1..Len(b) /\ m <= Len(a) + 1
      BY <2>1, <2>2, <2>6
    <3> QED  BY <3>1, <3>2, <3>3 DEF SmallerAt
  <2>8. \A j \in 1..Len(a) : a[j] >= 48
    <3> TAKE j \in 1..Len(a)
    <3>1. s + j - 1 \in s..(ex - 1) /\ s + j - 1 \in 1..Len(x) /\ a[j] = x[s + j - 1]
      <4>1. j \in 1..(ex - s)
        BY <2>1
      <4>2. s \in Nat /\ s >= 1 /\ j \in Nat /\ j >= 1 /\ j <= ex - s
        BY <1>3, <1>11, <4>1
      <4>3. s + j - 1 \in s..(ex - 1) /\ s + j - 1 \in 1..Len(x)
        BY ONLY <1>2, <1>11, <4>2
      <4> QED  BY <2>1, <4>1, <4>3
    <3>2. x[s + j - 1] # Dot
      BY <1>10, <3>1 DEF EndsAt
    <3> QED  BY <1>4, <3>1, <3>2
  <2>9. /\ Numeric(a) \/ ~IsDigit(a[1])
        /\ Numeric(b) \/ ~IsDigit(b[1])
        /\ Numeric(a) /\ Numeric(b) => Len(a) = Len(b)
    BY <2>4
  <2>10. CompareIdentifiers(a, b) = -1 /\ CompareIdentifiers(b, a) = 1
    <3> HIDE DEF m
    <3> QED  BY <2>1, <2>2, <2>6, <2>7, <2>8, <2>9, SmallerIdentifier
  <2>11. a # b
    <3>1. Smaller(a, b)
      BY <2>6, <2>7, Zenon DEF Smaller
    <3> QED  BY <2>1, <2>2, <3>1, SmallerIsAsymmetric
  <2>12. D = {s}
    BY <1>7, <1>8, <2>11 DEF a, b
  <2>13. Min(D) = s
    <3>1. D \in SUBSET Nat /\ s \in D /\ \A l \in D : s <= l
      BY <1>3, <2>12
    <3> HIDE DEF D
    <3> QED  BY <3>1, MinIs
  <2> QED  BY <1>6, <2>10, <2>12, <2>13 DEF a, b
<1> QED  BY <1>12, <1>13

\* The same tag is the same to semver.
LEMMA SameTag ==
  ASSUME NEW x \in Seq(Nat)
  PROVE  ComparePre(x, x) = 0
<1>1. {s \in Together(x, x) : IdentifierAt(x, s) # IdentifierAt(x, s)} = {}
  OBVIOUS
<1>2. ComparePre(x, x) = IF Len(x) < Len(x) THEN -1 ELSE IF Len(x) > Len(x) THEN 1 ELSE 0
  BY <1>1, Zenon DEF ComparePre
<1>3. Len(x) \in Nat
  OBVIOUS
<1> QED  BY <1>2, <1>3

\* For any two versions with the same numbers whose tags have no hyphen, words that
\* begin with a letter and numbers of the same length: comparing the tags as strings
\* (compareSemver) is comparing them identifier by identifier, as semver does.
THEOREM TagsCompareAsInSemver == Spec => []SemverOrder
<1>1. VersionsAnswered => SemverOrder
  <2> SUFFICES ASSUME VersionsAnswered, Answered("version"),
                      question.of[1].numbers = question.of[2].numbers,
                      <<>> \notin {question.of[1].pre, question.of[2].pre},
                      Alike(question.of[1].pre, question.of[2].pre)
               PROVE  answer.order = ComparePre(question.of[1].pre, question.of[2].pre)
    BY DEF SemverOrder
  <2> DEFINE a == question.of[1]
             b == question.of[2]
  <2>1. a \in Versions /\ b \in Versions
    BY ArgumentsAssumption DEF VersionsAnswered, Answered
  <2>2. answer.order = CompareSemver(a, b)
    BY DEF VersionsAnswered, Answered
  <2>3. /\ a.numbers = b.numbers /\ a.pre # <<>> /\ b.pre # <<>> /\ Alike(a.pre, b.pre)
        /\ a.pre \in Seq(Nat) /\ b.pre \in Seq(Nat)
    BY <2>1, NumbersAreASequence
  <2> HIDE DEF a, b
  <2>4. \/ CompareSemver(a, b) = -1 /\ Smaller(a.pre, b.pre)
        \/ CompareSemver(a, b) = 1 /\ Smaller(b.pre, a.pre)
        \/ CompareSemver(a, b) = 0 /\ a.pre = b.pre
    BY <2>1, <2>3, TagsAreOrdered DEF Earlier
  <2>5. CompareSemver(a, b) = ComparePre(a.pre, b.pre)
    BY <2>3, <2>4, SmallerTag, SameTag
  <2> QED  BY <2>2, <2>5 DEF a, b
<1>2. Answers => VersionsAnswered
  BY DEF Answers
<1> QED  BY <1>1, <1>2, AnswersInvariant, PTL

---------------------------------------------------------------------------
(* The connection a name means.                                            *)

\* The levels at which a connection answers to the target.
LevelsOf(kind, target, c) == {l \in 1..4 : Layers(kind, target, c)[l]}

\* The rank of a connection is the first level at which it answers, 5 if at none.
LEMMA RankIsFirstFit ==
  ASSUME NEW kind, NEW target \in Seq(STRING), NEW c
  PROVE  Rank(kind, target, c) = IF LevelsOf(kind, target, c) = {} THEN 5
                                 ELSE Min(LevelsOf(kind, target, c))
<1> DEFINE fits == {r \in 1..4 :
        \/ r = 1 /\ c.name = target
        \/ r = 2 /\ kind = "ssh" /\ Len(target) > 1 /\ c.name = SubSeq(target, 1, 1)
        \/ r = 3 /\ c.schema = target
        \/ r = 4 /\ target \in c.tags}
<1>1. ASSUME Len(target) > 1
      PROVE  SubSeq(target, 1, 1) = <<target[1]>>
  <2>1. SubSeq(target, 1, 1) \in Seq(STRING) /\ Len(SubSeq(target, 1, 1)) = 1
    BY <1>1
  <2>2. SubSeq(target, 1, 1)[1] = target[1] /\ target[1] \in STRING
    BY <1>1
  <2>3. <<target[1]>> \in Seq(STRING) /\ Len(<<target[1]>>) = 1 /\ <<target[1]>>[1] = target[1]
    BY <2>2
  <2> DEFINE s == SubSeq(target, 1, 1)
             u == <<target[1]>>
  <2>4. s \in Seq(STRING) /\ u \in Seq(STRING) /\ Len(s) = 1 /\ Len(u) = 1 /\ s[1] = u[1]
    BY <2>1, <2>2, <2>3
  <2>5. s = u
    <3> HIDE DEF s, u
    <3> QED  BY <2>4
  <2> QED  BY <2>5
<1>2. ASSUME NEW r \in 1..4
      PROVE  r \in fits <=> r \in LevelsOf(kind, target, c)
  <2>1. CASE r = 1
    <3>1. Layers(kind, target, c)[1] <=> c.name = target
      BY DEF Layers, ByName
    <3> QED  BY <2>1, <3>1 DEF LevelsOf
  <2>2. CASE r = 2
    <3>1. Layers(kind, target, c)[2] <=> kind = "ssh" /\ Len(target) > 1 /\ c.name = <<target[1]>>
      BY Zenon DEF Layers, ByShortName
    <3> QED  BY <1>1, <2>2, <3>1 DEF LevelsOf
  <2>3. CASE r = 3
    <3>1. Layers(kind, target, c)[3] <=> c.schema = target
      BY DEF Layers, BySchema
    <3> QED  BY <2>3, <3>1 DEF LevelsOf
  <2>4. CASE r = 4
    <3>1. Layers(kind, target, c)[4] <=> target \in c.tags
      BY DEF Layers, ByTag
    <3> QED  BY <2>4, <3>1 DEF LevelsOf
  <2> QED  BY <2>1, <2>2, <2>3, <2>4
<1>3. fits = LevelsOf(kind, target, c)
  <2>1. fits \subseteq 1..4 /\ LevelsOf(kind, target, c) \subseteq 1..4
    BY DEF LevelsOf
  <2> HIDE DEF fits
  <2> QED  BY <1>2, <2>1
<1>4. Rank(kind, target, c) = IF fits = {} THEN 5 ELSE Min(fits)
  BY Zenon DEF Rank
<1> QED  BY <1>3, <1>4, Zenon

\* However many connections there are and whatever their names: the match is the
\* first of those that no other outranks, the candidates are all of them, and
\* nothing is found only if none answers at all (matchConnection).
THEOREM BestIsMatched == Spec => []BestMatch
<1>1. MatchAnswered => BestMatch
  <2> SUFFICES ASSUME MatchAnswered, Answered("match")
               PROVE  BestMatch
    BY DEF BestMatch
  <2> DEFINE q == question.of
             all == DOMAIN q.connections
             fits(k) == LevelsOf(q.kind, q.target, q.connections[k])
             rank(k) == Rank(q.kind, q.target, q.connections[k])
             ranks == {rank(k) : k \in all} \cup {5}
             at(l) == {k \in all : Layers(q.kind, q.target, q.connections[k])[l]}
             hit == {l \in 1..4 : at(l) # {}}
  <2>1. q.target \in Seq(STRING) /\ all \subseteq Nat
    BY ArgumentsAssumption DEF MatchAnswered, Answered
  <2>2. answer = IF hit = {} THEN [level |-> 0, match |-> 0, candidates |-> {}]
                 ELSE [level |-> Min(hit), match |-> Min(at(Min(hit))),
                       candidates |-> at(Min(hit))]
    BY Zenon DEF MatchAnswered, Answered, MatchConnection
  <2>3. \A k \in all : \A l \in 1..4 : k \in at(l) <=> l \in fits(k)
    BY DEF LevelsOf
  <2>4. \A k \in all : fits(k) \subseteq hit
    BY <2>3 DEF LevelsOf
  <2>5. \A k \in all : rank(k) = IF fits(k) = {} THEN 5 ELSE Min(fits(k))
    BY <2>1, RankIsFirstFit
  <2>6. \A k \in all : fits(k) # {} => rank(k) \in fits(k) /\ \A l \in fits(k) : rank(k) <= l
    <3>1. ASSUME NEW k \in all, fits(k) # {}
          PROVE  Min(fits(k)) \in fits(k) /\ \A l \in fits(k) : Min(fits(k)) <= l
      <4>1. fits(k) \in SUBSET Nat
        BY DEF LevelsOf
      <4> HIDE DEF fits
      <4> QED  BY <3>1, <4>1, MinIsFirst
    <3> HIDE DEF fits, rank
    <3> QED  BY <2>5, <3>1
  <2>7. /\ answer.level = Min(ranks) % 5
        /\ answer.candidates = {k \in all : rank(k) = Min(ranks) /\ Min(ranks) # 5}
        /\ answer.match = IF Min(ranks) = 5 THEN 0 ELSE Min(answer.candidates)
    <3>1. CASE hit = {}
      <4>1. \A k \in all : rank(k) = 5
        BY <2>4, <2>5, <3>1
      <4>2. ranks = {5}
        <5> HIDE DEF rank
        <5> QED  BY <4>1
      <4>3. Min({5}) = 5
        BY MinIs
      <4>4. Min(ranks) = 5
        BY <4>2, <4>3
      <4> HIDE DEF ranks, rank
      <4> QED  BY <2>2, <3>1, <4>4
    <3>2. CASE hit # {}
      <4>1. hit \in SUBSET Nat
        OBVIOUS
      <4>2. Min(hit) \in hit /\ \A l \in hit : Min(hit) <= l
        <5> HIDE DEF hit
        <5> QED  BY <3>2, <4>1, MinIsFirst
      <4>3. PICK l \in 1..4 : l = Min(hit)
        BY <4>2
      <4>4. \A k \in all : rank(k) \in Nat /\ l <= rank(k) /\ rank(k) <= 5
        <5>1. \A k \in all : fits(k) \subseteq 1..4
          BY DEF LevelsOf
        <5> HIDE DEF hit, fits, rank
        <5> QED  BY <2>4, <2>5, <2>6, <4>2, <4>3, <5>1
      <4>5. \A k \in all : k \in at(l) <=> rank(k) = l
        <5> HIDE DEF hit, fits, rank, at
        <5>1. ASSUME NEW k \in all, k \in at(l)
              PROVE  rank(k) = l
          <6>1. l \in fits(k)
            BY <2>3, <5>1
          <6>2. rank(k) <= l
            BY <2>6, <6>1
          <6> QED  BY <4>4, <6>2
        <5>2. ASSUME NEW k \in all, rank(k) = l
              PROVE  k \in at(l)
          <6>1. fits(k) # {}
            BY <2>5, <5>2
          <6> QED  BY <2>3, <2>6, <5>2, <6>1
        <5> QED  BY <5>1, <5>2
      <4>6. \E k \in all : rank(k) = l
        <5>1. PICK k \in at(l) : TRUE
          BY <4>2, <4>3
        <5> QED  BY <4>5, <5>1
      <4>7. Min(ranks) = l
        <5>1. ranks \in SUBSET Nat /\ l \in ranks /\ \A r \in ranks : l <= r
          <6> HIDE DEF rank
          <6> QED  BY <4>4, <4>6
        <5> HIDE DEF ranks
        <5> QED  BY <5>1, MinIs
      <4>8. at(l) = {k \in all : rank(k) = l}
        <5>1. at(l) \subseteq all
          OBVIOUS
        <5> HIDE DEF at, rank
        <5> QED  BY <4>5, <5>1
      <4>9. answer.level = l /\ answer.match = Min(at(l)) /\ answer.candidates = at(l)
        <5> HIDE DEF hit, at
        <5> QED  BY <2>2, <3>2, <4>3
      <4> HIDE DEF ranks, rank, at
      <4> QED  BY <4>7, <4>8, <4>9
    <3> QED  BY <3>1, <3>2
  <2> QED  BY <2>7, Zenon DEF BestMatch
<1>2. Answers => MatchAnswered
  BY DEF Answers
<1> QED  BY <1>1, <1>2, AnswersInvariant, PTL

---------------------------------------------------------------------------
(* The context of a kubectl call.                                          *)

\* An argument that both read as the flag, with its value in the next one or its own.
IsFlag(args, k, flag, flagEq) ==
  args[k] = <<flag>> \/ (args[k] # <<>> /\ args[k][1] = flagEq)

\* What PlainCall says of one flag: it is there once at most; and of every flag
\* without "=" that its value follows and is neither a flag nor "--".
Once(args, flag, flagEq) ==
  \A j, k \in DOMAIN args : IsFlag(args, j, flag, flagEq) /\ IsFlag(args, k, flag, flagEq) => j = k
Followed(args) ==
  \A k \in DOMAIN args : args[k] \in {<<"--context">>, <<"--kubeconfig">>} =>
    /\ k < Len(args)
    /\ args[k + 1] # <<"--">>
    /\ ~IsFlag(args, k + 1, "--context", "--context=")
    /\ ~IsFlag(args, k + 1, "--kubeconfig", "--kubeconfig=")

\* A plain call has these, for both flags.
LEMMA PlainIs ==
  ASSUME NEW args \in Seq(KubectlWords), PlainCall(args)
  PROVE  /\ Once(args, "--context", "--context=")
         /\ Once(args, "--kubeconfig", "--kubeconfig=")
         /\ Followed(args)
<1> DEFINE is(k, f) == args[k] # <<>> /\ args[k][1] \in f
           Context == {"--context", "--context="}
           Kubeconfig == {"--kubeconfig", "--kubeconfig="}
<1>1. /\ \A j, k \in DOMAIN args : is(j, Context) /\ is(k, Context) => j = k
      /\ \A j, k \in DOMAIN args : is(j, Kubeconfig) /\ is(k, Kubeconfig) => j = k
      /\ \A k \in DOMAIN args : args[k] = <<"--context">> =>
           k < Len(args) /\ ~is(k + 1, Context \cup Kubeconfig \cup {"--"})
      /\ \A k \in DOMAIN args : args[k] = <<"--kubeconfig">> =>
           k < Len(args) /\ ~is(k + 1, Context \cup Kubeconfig \cup {"--"})
  BY Zenon DEF PlainCall
<1>2. \A x : x = <<"--context">> => x # <<>> /\ x[1] = "--context"
  OBVIOUS
<1>3. \A x : x = <<"--kubeconfig">> => x # <<>> /\ x[1] = "--kubeconfig"
  OBVIOUS
<1>4. \A x : x = <<"--">> => x # <<>> /\ x[1] = "--"
  OBVIOUS
<1>5. \A k : /\ IsFlag(args, k, "--context", "--context=") => is(k, Context)
             /\ IsFlag(args, k, "--kubeconfig", "--kubeconfig=") => is(k, Kubeconfig)
  BY <1>2, <1>3 DEF IsFlag
<1>6. Once(args, "--context", "--context=") /\ Once(args, "--kubeconfig", "--kubeconfig=")
  <2> HIDE DEF is, Context, Kubeconfig
  <2> QED  BY <1>1, <1>5, Zenon DEF Once
<1>7. ASSUME NEW k \in DOMAIN args, args[k] \in {<<"--context">>, <<"--kubeconfig">>}
      PROVE  /\ k < Len(args)
             /\ args[k + 1] # <<"--">>
             /\ ~IsFlag(args, k + 1, "--context", "--context=")
             /\ ~IsFlag(args, k + 1, "--kubeconfig", "--kubeconfig=")
  <2>1. k < Len(args) /\ ~is(k + 1, Context \cup Kubeconfig \cup {"--"})
    <3> HIDE DEF is, Context, Kubeconfig
    <3> QED  BY <1>1, <1>7
  <2>2. ~is(k + 1, Context) /\ ~is(k + 1, Kubeconfig) /\ ~is(k + 1, {"--"})
    BY <2>1
  <2>3. args[k + 1] # <<"--">>
    BY <1>4, <2>2
  <2>4. /\ ~IsFlag(args, k + 1, "--context", "--context=")
        /\ ~IsFlag(args, k + 1, "--kubeconfig", "--kubeconfig=")
    <3> HIDE DEF is, Context, Kubeconfig
    <3> QED  BY <1>5, <2>2, Zenon
  <2> QED  BY <2>1, <2>3, <2>4
<1> QED  BY <1>6, <1>7, Zenon DEF Followed

\* In such a call no flag and no "--" is the value of another.
LEMMA FlagsAreFlags ==
  ASSUME NEW args \in Seq(KubectlWords), Followed(args), NEW k \in DOMAIN args,
         \/ args[k] = <<"--">>
         \/ IsFlag(args, k, "--context", "--context=")
         \/ IsFlag(args, k, "--kubeconfig", "--kubeconfig=")
  PROVE  FlagAt(args, k)
<1> DEFINE others == {j \in 0..(k - 1) : j > 0 => args[j] \notin {<<f>> : f \in KubeFlags}}
<1>1. k \in 1..Len(args)
  OBVIOUS
<1>2. others \in SUBSET Nat /\ \A j \in others : j <= k - 1
  BY <1>1
<1>3. k - 1 \in others
  <2>1. ASSUME k - 1 > 0
        PROVE  args[k - 1] \notin {<<f>> : f \in KubeFlags}
    <3>1. k - 1 \in DOMAIN args /\ (k - 1) + 1 = k
      BY <1>1, <2>1
    <3>2. args[k - 1] \notin {<<"--context">>, <<"--kubeconfig">>}
      BY <3>1, Zenon DEF Followed
    <3> QED  BY <3>2 DEF KubeFlags
  <2> QED  BY <1>1, <2>1
<1>4. Max(others) = k - 1
  <2> HIDE DEF others
  <2> QED  BY <1>2, <1>3, MaxIs
<1>5. (k - 1 - Max(others)) % 2 = 0
  <2>1. k - 1 - Max(others) = 0
    BY <1>1, <1>4
  <2>2. 0 % 2 = 0
    OBVIOUS
  <2> QED  BY <2>1, <2>2
<1> QED  BY <1>5, Zenon DEF FlagAt

\* No word, and no word without its first part, stands for there being none.
LEMMA WordsArePresent ==
  ASSUME NEW w \in KubectlWords
  PROVE  /\ w \in Seq(STRING) /\ w # absent
         /\ w # <<>> => Tail(w) # absent /\ (Tail(w) = <<>> => w = <<w[1]>>)
<1>1. w \in Seq(STRING) /\ \A k \in 1..Len(w) : w[k] # "absent"
  BY DEF KubectlWords, Range
<1>2. w # absent
  BY <1>1 DEF absent
<1>3. ASSUME w # <<>>
      PROVE  /\ Len(w) \in Nat /\ Len(Tail(w)) = Len(w) - 1
             /\ Len(Tail(w)) >= 1 => Tail(w)[1] = w[2]
  BY <1>1, <1>3
<1>4. ASSUME w # <<>>, Tail(w) = absent
      PROVE  FALSE
  <2>1. Len(Tail(w)) = 1 /\ Tail(w)[1] = "absent"
    <3>1. \A t : t = absent => Len(t) = 1 /\ t[1] = "absent"
      BY DEF absent
    <3> QED  BY <1>4, <3>1, Zenon
  <2>2. w[2] = "absent" /\ 2 \in 1..Len(w)
    BY <1>3, <1>4, <2>1
  <2> QED  BY <1>1, <2>2
<1>5. ASSUME w # <<>>, Tail(w) = <<>>
      PROVE  w = <<w[1]>>
  <2>1. Len(w) = 1
    <3>1. \A t : t = <<>> => Len(t) = 0
      OBVIOUS
    <3>2. Len(Tail(w)) = 0
      BY <1>5, <3>1, Zenon
    <3> QED  BY <1>3, <1>5, <3>2
  <2>2. w[1] \in STRING
    BY <1>1, <2>1
  <2> DEFINE u == <<w[1]>>
  <2>3. u \in Seq(STRING) /\ Len(u) = 1 /\ u[1] = w[1]
    BY <2>2
  <2> HIDE DEF u
  <2>4. w = u
    BY <1>1, <2>1, <2>3
  <2> QED  BY <2>4 DEF u
<1> QED  BY <1>1, <1>2, <1>4, <1>5

\* hsh, which takes the first occurrence of a flag before "--", and kubectl, which
\* takes the last, read the same value or both none; and an empty one is written so.
LEMMA ReadAlike ==
  ASSUME NEW args \in Seq(KubectlWords), Followed(args), NEW flag, NEW flagEq,
         \/ flag = "--context" /\ flagEq = "--context="
         \/ flag = "--kubeconfig" /\ flagEq = "--kubeconfig=",
         Once(args, flag, flagEq)
  PROVE  LET read == ReadFlagValue(args, flag, flagEq)
         IN  /\ KubectlFlag(args, flag, flagEq) = IF read = absent THEN <<>> ELSE read
             /\ read = <<>> => \E k \in DOMAIN args : args[k] \in {<<>>, <<flagEq>>}
<1> DEFINE read == ReadFlagValue(args, flag, flagEq)
           kubectls == KubectlFlag(args, flag, flagEq)
           is(k) == IsFlag(args, k, flag, flagEq)
           dash(k) == args[k] = <<"--">>
           here == {k \in DOMAIN args :
                      \/ args[k] = <<"--">>
                      \/ args[k] = <<flag>> /\ k < Len(args)
                      \/ args[k] # <<>> /\ args[k][1] = flagEq}
           ends == {k \in DOMAIN args : FlagAt(args, k) /\ args[k] = <<"--">>}
           hits == {k \in DOMAIN args :
                      /\ FlagAt(args, k) /\ \A e \in ends : k < e
                      /\ (args[k] = <<flag>> \/ (args[k] # <<>> /\ args[k][1] = flagEq))}
           value(k) == IF args[k] = <<flag>> THEN args[k + 1] ELSE Tail(args[k])
<1>1. DOMAIN args = 1..Len(args) /\ Len(args) \in Nat
  OBVIOUS
<1>2. \A k \in DOMAIN args : dash(k) \/ is(k) => FlagAt(args, k)
  BY FlagsAreFlags
<1>3. \A k \in DOMAIN args : args[k] = <<flag>> => k < Len(args)
  BY DEF Followed
<1>4. \A k \in DOMAIN args : is(k) => ~dash(k)
  BY DEF IsFlag
<1>5. \A k \in DOMAIN args : k \in here <=> dash(k) \/ is(k)
  BY <1>3 DEF IsFlag
<1>6. \A k \in DOMAIN args : k \in ends <=> dash(k)
  BY <1>2
<1>7. \A k \in DOMAIN args : k \in hits <=> is(k) /\ \A e \in ends : k < e
  BY <1>2 DEF IsFlag
<1>8. /\ here \in SUBSET Nat /\ hits \in SUBSET Nat /\ ends \in SUBSET Nat
      /\ here \subseteq DOMAIN args /\ hits \subseteq DOMAIN args /\ ends \subseteq DOMAIN args
  BY <1>1
<1>9. read = IF here = {} THEN absent
             ELSE IF dash(Min(here)) THEN absent ELSE value(Min(here))
  BY Zenon DEF ReadFlagValue
<1>10. kubectls = IF hits = {} THEN <<>>
                  ELSE IF args[Max(hits)] # <<flag>> THEN Tail(args[Max(hits)])
                  ELSE IF Max(hits) < Len(args) THEN args[Max(hits) + 1] ELSE absent
  BY Zenon DEF KubectlFlag
<1>11. CASE hits = {}
  <2>1. kubectls = <<>>
    BY <1>10, <1>11
  <2>2. ASSUME here # {}
        PROVE  dash(Min(here))
    <3> HIDE DEF here, ends, hits, is, dash
    <3>1. Min(here) \in here /\ \A l \in here : Min(here) <= l
      BY <1>8, <2>2, MinIsFirst
    <3>2. ASSUME is(Min(here))
          PROVE  FALSE
      <4>1. \A e \in ends : Min(here) <= e /\ e # Min(here)
        BY <1>4, <1>5, <1>6, <1>8, <3>1, <3>2
      <4>2. \A e \in ends : Min(here) < e
        <5>1. Min(here) \in Nat /\ \A e \in ends : e \in Nat
          BY <1>8, <3>1
        <5> QED  BY <4>1, <5>1
      <4>3. Min(here) \in hits
        BY <1>7, <1>8, <3>1, <3>2, <4>2
      <4> QED  BY <1>11, <4>3
    <3> QED  BY <1>5, <1>8, <3>1, <3>2
  <2>3. read = absent
    <3> HIDE DEF here, dash, value, read
    <3> QED  BY <1>9, <2>2
  <2> QED  BY <2>1, <2>3 DEF absent
<1>12. ASSUME NEW k \in hits
       PROVE  /\ read = value(k) /\ kubectls = value(k) /\ value(k) # absent
              /\ value(k) = <<>> => \E j \in DOMAIN args : args[j] \in {<<>>, <<flagEq>>}
  <2> HIDE DEF here, ends, hits, is, dash
  <2>1. k \in DOMAIN args /\ is(k) /\ ~dash(k) /\ \A e \in ends : k < e
    BY <1>4, <1>7, <1>8
  <2>2. ASSUME NEW j \in DOMAIN args, is(j)
        PROVE  j = k
    BY <2>1, <2>2 DEF Once, is
  <2>3. Max(hits) = k
    <3>1. \A j \in hits : j = k
      BY <1>7, <1>8, <2>2
    <3> QED  BY <1>8, <3>1, MaxIs
  <2>4. Min(here) = k
    <3>1. k \in here
      BY <1>5, <2>1
    <3>2. ASSUME NEW j \in here
          PROVE  k <= j
      <4>1. j \in DOMAIN args /\ (dash(j) \/ is(j))
        BY <1>5, <1>8
      <4>2. CASE is(j)
        BY <1>1, <2>2, <4>1, <4>2
      <4>3. CASE dash(j)
        BY <1>1, <1>6, <2>1, <4>1, <4>3
      <4> QED  BY <4>1, <4>2, <4>3
    <3> QED  BY <1>8, <3>1, <3>2, MinIs
  <2>5. read = value(k)
    <3> HIDE DEF value, read
    <3> QED  BY <1>9, <2>1, <2>4, <1>5
  <2>6. kubectls = value(k)
    <3>1. args[k] = <<flag>> => k < Len(args)
      BY <1>3, <2>1
    <3> HIDE DEF kubectls
    <3> QED  BY <1>10, <2>3, <3>1
  <2>7. /\ value(k) # absent
        /\ value(k) = <<>> => \E j \in DOMAIN args : args[j] \in {<<>>, <<flagEq>>}
    <3>1. CASE args[k] = <<flag>>
      <4>1. k + 1 \in DOMAIN args
        BY <1>1, <1>3, <2>1, <3>1
      <4>2. args[k + 1] \in KubectlWords
        BY <4>1
      <4> QED  BY <3>1, <4>1, <4>2, WordsArePresent
    <3>2. CASE args[k] # <<flag>>
      <4>1. args[k] \in KubectlWords /\ args[k] # <<>> /\ args[k][1] = flagEq
        BY <2>1, <3>2 DEF is, IsFlag
      <4>2. Tail(args[k]) # absent /\ (Tail(args[k]) = <<>> => args[k] = <<flagEq>>)
        BY <4>1, WordsArePresent
      <4> QED  BY <2>1, <3>2, <4>2
    <3> QED  BY <3>1, <3>2
  <2> QED  BY <2>5, <2>6, <2>7
<1>13. CASE hits # {}
  <2>1. PICK k \in hits : TRUE
    BY <1>13
  <2>2. /\ read = value(k) /\ kubectls = value(k) /\ value(k) # absent
        /\ value(k) = <<>> => \E j \in DOMAIN args : args[j] \in {<<>>, <<flagEq>>}
    BY <1>12, <2>1
  <2>3. /\ kubectls = IF read = absent THEN <<>> ELSE read
        /\ read = <<>> => \E j \in DOMAIN args : args[j] \in {<<>>, <<flagEq>>}
    <3> HIDE DEF read, kubectls, value
    <3> QED  BY <2>2
  <2> QED  BY <2>3
<1> QED  BY <1>11, <1>13

\* A file has a context or none, never an empty one; of one file it is that one's.
LEMMA ContextOfFile ==
  ASSUME NEW files, NEW f
  PROVE  /\ ReadCurrentContext(files, f) # <<>>
         /\ f \notin DOMAIN files => ReadCurrentContext(files, f) = absent
         /\ FirstContext(files, <<f>>) = ReadCurrentContext(files, f)
<1>1. absent # <<>>
  BY DEF absent
<1>2. ReadCurrentContext(files, f) # <<>>
  <2>1. \A lines : ExtractCurrentContext(lines) # <<>>
    <3> TAKE lines
    <3> DEFINE top == SelectSeq(lines, TopLine)
    <3>1. ExtractCurrentContext(lines) =
            IF top = <<>> \/ top[1].value = <<>> THEN absent ELSE top[1].value
      BY Zenon DEF ExtractCurrentContext
    <3> HIDE DEF top
    <3> QED  BY <1>1, <3>1
  <2> QED  BY <1>1, <2>1 DEF ReadCurrentContext
<1>3. f \notin DOMAIN files => ReadCurrentContext(files, f) = absent
  BY DEF ReadCurrentContext
<1>4. FirstContext(files, <<f>>) = ReadCurrentContext(files, f)
  <2> DEFINE paths == <<f>>
             with == {k \in DOMAIN paths : ReadCurrentContext(files, paths[k]) # absent}
  <2>1. FirstContext(files, paths) =
          IF with = {} THEN absent ELSE ReadCurrentContext(files, paths[Min(with)])
    BY Zenon DEF FirstContext
  <2>2. DOMAIN paths = {1} /\ paths[1] = f
    OBVIOUS
  <2>3. CASE ReadCurrentContext(files, f) = absent
    <3>1. with = {}
      BY <2>2, <2>3
    <3> HIDE DEF with
    <3> QED  BY <2>1, <2>3, <3>1
  <2>4. CASE ReadCurrentContext(files, f) # absent
    <3>1. with = {1}
      BY <2>2, <2>4
    <3>2. Min({1}) = 1
      BY MinIs
    <3> HIDE DEF with, paths
    <3> QED  BY <2>1, <2>2, <3>1, <3>2 DEF paths
  <2> QED  BY <2>3, <2>4
<1> QED  BY <1>2, <1>3, <1>4

\* Where no flag is ambiguous, whatever KUBECONFIG and the files say: the context
\* hsh asks the gateway for is the one kubectl would have used, and it asks for
\* none only if kubectl has none or a flag is empty (detectContext).
THEOREM ContextIsTheSame == Spec => []ContextIsKubectls
<1>1. KubectlAnswered => ContextIsKubectls
  <2> SUFFICES ASSUME KubectlAnswered, Answered("kubectl"), PlainCall(question.of.args)
               PROVE  ContextIsKubectls
    BY DEF ContextIsKubectls
  <2> DEFINE c == question.of
             context == ReadFlagValue(c.args, "--context", "--context=")
             kubeconfig == ReadFlagValue(c.args, "--kubeconfig", "--kubeconfig=")
             detected == DetectContext(c.args, c.env, c.files)
             used == KubectlContextOf(c.args, c.env, c.files)
             atHome == ReadCurrentContext(c.files, HomeConfig)
             listed == FirstContext(c.files, Entries(c.env))
             named == ReadCurrentContext(c.files, kubeconfig)
             anEmpty == \E k \in DOMAIN c.args :
                          c.args[k] \in {<<>>, <<"--context=">>, <<"--kubeconfig=">>}
             paths == KubectlFiles(c.args, c.env)
  <2>1. c.args \in Seq(KubectlWords) /\ <<>> \notin DOMAIN c.files
    BY ArgumentsAssumption DEF KubectlAnswered, Answered
  <2>2. answer.context = detected
    BY DEF KubectlAnswered, Answered
  <2>3. /\ KubectlFlag(c.args, "--context", "--context=") =
             IF context = absent THEN <<>> ELSE context
        /\ KubectlFlag(c.args, "--kubeconfig", "--kubeconfig=") =
             IF kubeconfig = absent THEN <<>> ELSE kubeconfig
        /\ context = <<>> => anEmpty
        /\ kubeconfig = <<>> => anEmpty
    BY <2>1, PlainIs, ReadAlike
  <2>4. detected = IF context # absent THEN context
                   ELSE IF kubeconfig # absent THEN named
                   ELSE IF ~Blank(c.env) THEN listed ELSE atHome
    BY Zenon DEF DetectContext
  <2>5. used = IF KubectlFlag(c.args, "--context", "--context=") # <<>>
                 THEN KubectlFlag(c.args, "--context", "--context=")
               ELSE IF FirstContext(c.files, paths) = absent THEN <<>>
               ELSE FirstContext(c.files, paths)
    BY Zenon DEF KubectlContextOf
  <2>6. paths = IF KubectlFlag(c.args, "--kubeconfig", "--kubeconfig=") # <<>>
                  THEN <<KubectlFlag(c.args, "--kubeconfig", "--kubeconfig=")>>
                ELSE IF ~Blank(c.env) THEN Entries(c.env) ELSE <<HomeConfig>>
    BY Zenon DEF KubectlFiles
  <2>7. /\ kubeconfig = <<>> => named = absent
        /\ FirstContext(c.files, <<kubeconfig>>) = named
        /\ FirstContext(c.files, <<HomeConfig>>) = atHome
    BY <2>1, ContextOfFile
  <2>8. IF detected \notin {absent, <<>>} THEN detected = used ELSE used = <<>> \/ anEmpty
    <3> HIDE DEF context, kubeconfig, detected, used, atHome, listed, named, anEmpty, paths
    <3>1. absent # <<>>
      BY DEF absent
    <3>2. CASE context # absent
      BY <2>3, <2>4, <2>5, <3>1, <3>2
    <3>3. CASE context = absent /\ kubeconfig # absent
      <4>1. detected = named
        BY <2>4, <3>3
      <4>2. CASE kubeconfig = <<>>
        BY <2>3, <2>7, <4>1, <4>2
      <4>3. CASE kubeconfig # <<>>
        <5>1. paths = <<kubeconfig>>
          BY <2>3, <2>6, <3>3, <4>3
        <5>2. used = IF named = absent THEN <<>> ELSE named
          BY <2>3, <2>5, <2>7, <3>3, <5>1
        <5> QED  BY <4>1, <5>2
      <4> QED  BY <4>2, <4>3
    <3>4. CASE context = absent /\ kubeconfig = absent
      <4>1. detected = IF ~Blank(c.env) THEN listed ELSE atHome
        BY <2>4, <3>4
      <4>2. FirstContext(c.files, paths) = detected
        <5>1. CASE Blank(c.env)
          BY <2>3, <2>6, <2>7, <3>4, <4>1, <5>1
        <5>2. CASE ~Blank(c.env)
          BY <2>3, <2>6, <3>4, <4>1, <5>2 DEF listed
        <5> QED  BY <5>1, <5>2
      <4>3. used = IF detected = absent THEN <<>> ELSE detected
        BY <2>3, <2>5, <3>4, <4>2
      <4> QED  BY <4>3
    <3> QED  BY <3>2, <3>3, <3>4
  <2>9. Routed(c.args, c.env, c.files) <=> detected \notin {absent, <<>>}
    BY Zenon DEF Routed
  <2>10. IF Routed(c.args, c.env, c.files) THEN answer.context = used ELSE used = <<>> \/ anEmpty
    <3> HIDE DEF detected, used, anEmpty
    <3> QED  BY <2>2, <2>8, <2>9
  <2> QED  BY <2>10, Zenon DEF ContextIsKubectls
<1>2. Answers => KubectlAnswered
  BY DEF Answers
<1> QED  BY <1>1, <1>2, AnswersInvariant, PTL

---------------------------------------------------------------------------
(* The files kubectl reads                                                *)

\* What Without leaves, and that it leaves all where there is nothing to leave out.
LEMMA WithoutIs ==
  ASSUME NEW S, NEW s \in Seq(S), NEW D
  PROVE  /\ Without(s, D) \in Seq(S)
         /\ Range(Without(s, D)) = Range(s) \ D
         /\ Range(s) \cap D = {} => Without(s, D) = s
<1> DEFINE f == [k \in DOMAIN s |-> IF s[k] \in D THEN <<>> ELSE <<s[k]>>]
<1>1. Len(s) \in Nat /\ DOMAIN s = 1..Len(s) /\ \A k \in 1..Len(s) : s[k] \in S
  OBVIOUS
<1>2. Without(s, D) = FlattenSeq(f)
  BY Zenon DEF Without
<1>3. f \in Seq(Seq(S)) /\ DOMAIN f = DOMAIN s
  <2>1. \A k \in 1..Len(s) : <<s[k]>> \in Seq(S)
    BY <1>1, Sequences
  <2>2. <<>> \in Seq(S)
    OBVIOUS
  <2> QED  BY <1>1, <2>1, <2>2
<1>4. ASSUME NEW k \in DOMAIN s
      PROVE  Range(f[k]) = IF s[k] \in D THEN {} ELSE {s[k]}
  <2>1. f[k] = IF s[k] \in D THEN <<>> ELSE <<s[k]>>
    BY Zenon
  <2>2. Range(<<>>) = {} /\ Range(<<s[k]>>) = {s[k]}
    BY DEF Range
  <2> QED  BY <2>1, <2>2, Zenon
<1>5. Without(s, D) \in Seq(S)
  <2> HIDE DEF f
  <2> QED  BY <1>2, <1>3, FlattenTyped
<1>6. Range(Without(s, D)) = Range(s) \ D
  <2> HIDE DEF f
  <2>1. \A x : x \in Range(FlattenSeq(f)) <=> \E k \in DOMAIN s : x \in Range(f[k])
    BY <1>3, FlattenElements
  <2>2. \A x : x \in Range(s) <=> \E k \in DOMAIN s : x = s[k]
    BY DEF Range
  <2>3. \A x : x \in Range(FlattenSeq(f)) <=> x \in Range(s) /\ x \notin D
    <3> TAKE x
    <3>1. CASE x \in Range(s) /\ x \notin D
      <4>1. PICK k \in DOMAIN s : x = s[k]
        BY <2>2, <3>1
      <4>2. x \in Range(f[k])
        BY <1>4, <3>1, <4>1
      <4> QED  BY <2>1, <3>1, <4>2
    <3>2. CASE x \in Range(FlattenSeq(f))
      <4>1. PICK k \in DOMAIN s : x \in Range(f[k])
        BY <2>1, <3>2
      <4>2. s[k] \notin D /\ x = s[k]
        BY <1>4, <4>1
      <4> QED  BY <2>2, <3>2, <4>2
    <3> QED  BY <3>1, <3>2
  <2> QED  BY <1>2, <2>3
<1>7. ASSUME Range(s) \cap D = {}
      PROVE  Without(s, D) = s
  <2>1. \A k \in DOMAIN s : s[k] \notin D
    BY <1>7 DEF Range
  <2>2. f = [k \in DOMAIN s |-> <<s[k]>>]
    BY <2>1
  <2> HIDE DEF f
  <2> QED  BY <1>2, <2>2, FlattenSingles
<1> QED  BY <1>5, <1>6, <1>7

\* Whatever the call, KUBECONFIG and the files: a routed kubectl reads the file of
\* hsh first, once, and then every file KUBECONFIG names, or none where it is not
\* set; any other reads what it would have read (buildKubeconfigEnv).
THEOREM HoopIsFirst == Spec => []HoopFileFirst
<1>1. KubectlAnswered => HoopFileFirst
  <2> SUFFICES ASSUME KubectlAnswered, Answered("kubectl")
               PROVE  HoopFileFirst
    BY DEF HoopFileFirst
  <2> DEFINE c == question.of
             reads == KubectlFiles(c.args, answer.env)
             before == KubectlFiles(c.args, c.env)
             named == KubectlFlag(c.args, "--kubeconfig", "--kubeconfig=")
             hsh == EphemeralFile
             others == Without(Entries(c.env), {hsh})
             routed == Routed(c.args, c.env, c.files)
             Files == Seq(STRING) \cup {hsh, HomeConfig}
  <2>1. c.env \in Seq(Seq(STRING))
    BY ArgumentsAssumption DEF KubectlAnswered, Answered
  <2>2. answer.env = IF routed THEN BuildKubeconfigEnv(hsh, c.env) ELSE c.env
    BY DEF KubectlAnswered, Answered
  <2>3. /\ reads = IF named # <<>> THEN <<named>>
                   ELSE IF ~Blank(answer.env) THEN Entries(answer.env) ELSE <<HomeConfig>>
        /\ before = IF named # <<>> THEN <<named>>
                    ELSE IF ~Blank(c.env) THEN Entries(c.env) ELSE <<HomeConfig>>
    BY Zenon DEF KubectlFiles
  <2>4. hsh # <<>> /\ hsh \in Files
    BY DEF EphemeralFile
  <2>5. /\ Entries(c.env) \in Seq(Files) /\ <<>> \notin Range(Entries(c.env))
    <3>1. c.env \in Seq(Files)
      <4>1. Seq(STRING) \subseteq Files
        OBVIOUS
      <4> HIDE DEF Files
      <4> QED  BY <2>1, <4>1, SeqMonotonic
    <3> HIDE DEF Files, hsh, c
    <3>2. Without(c.env, {<<>>}) \in Seq(Files) /\ Range(Without(c.env, {<<>>})) = Range(c.env) \ {<<>>}
      BY <3>1, WithoutIs
    <3> QED  BY <3>2 DEF Entries
  <2>6. /\ others \in Seq(Files) /\ Range(others) = Range(Entries(c.env)) \ {hsh}
    <3> HIDE DEF Files, hsh, c
    <3> QED  BY <2>5, WithoutIs
  <2>7. ASSUME routed, named = <<>>
        PROVE  /\ reads[1] = hsh
               /\ Blank(c.env) => reads = <<hsh>>
               /\ ~Blank(c.env) => \A k \in DOMAIN before : before[k] \in Range(reads)
               /\ Cardinality({k \in DOMAIN reads : reads[k] = hsh}) = 1
    <3> DEFINE rest == IF Blank(c.env) THEN <<>> ELSE others
    <3>1. rest \in Seq(Files) /\ hsh \notin Range(rest) /\ <<>> \notin Range(rest)
      <4>1. <<>> \in Seq(Files) /\ Range(<<>>) = {}
        BY DEF Range
      <4> HIDE DEF others, Files, hsh, c
      <4> QED  BY <2>5, <2>6, <4>1
    <3>2. <<hsh>> \in Seq(Files) /\ Range(<<hsh>>) = {hsh} /\ Len(<<hsh>>) = 1 /\ <<hsh>>[1] = hsh
      <4> HIDE DEF hsh, Files
      <4> QED  BY <2>4 DEF Range
    <3>3. answer.env = <<hsh>> \o rest
      <4>1. BuildKubeconfigEnv(hsh, c.env) = IF Blank(c.env) THEN <<hsh>> ELSE <<hsh>> \o others
        BY Zenon DEF BuildKubeconfigEnv
      <4>2. <<hsh>> \o <<>> = <<hsh>>
        <5> HIDE DEF hsh, Files
        <5> QED  BY <3>2, ConcatEmptySeq
      <4> HIDE DEF hsh, others, routed, c
      <4> QED  BY <2>2, <2>7, <4>1, <4>2
    <3> DEFINE env == <<hsh>> \o rest
    <3>0. Blank(c.env) => env = <<hsh>>
      <4>1. <<hsh>> \o <<>> = <<hsh>>
        <5> HIDE DEF hsh, Files
        <5> QED  BY <3>2, ConcatEmptySeq
      <4> HIDE DEF hsh, others, c
      <4> QED  BY <4>1
    <3> HIDE DEF rest, others, hsh, c, Files, reads, before, named, routed
    <3>4. /\ env \in Seq(Files) /\ Range(env) = {hsh} \cup Range(rest)
          /\ Len(env) = 1 + Len(rest) /\ Len(rest) \in Nat /\ env[1] = hsh
          /\ \A k \in 2..Len(env) : env[k] = rest[k - 1]
      <4>1. Range(env) = {hsh} \cup Range(rest)
        <5>1. Range(<<hsh>> \o rest) = Range(<<hsh>>) \cup Range(rest)
          <6> DEFINE one == <<hsh>>
          <6>1. one \in Seq(Files) /\ rest \in Seq(Files)
            BY <3>1, <3>2
          <6> HIDE DEF one
          <6>2. Range(one \o rest) = Range(one) \cup Range(rest)
            BY <6>1, RangeConcatenation
          <6> QED  BY <6>2 DEF one
        <5> QED  BY <3>2, <5>1
      <4>2. /\ env \in Seq(Files) /\ Len(env) = Len(<<hsh>>) + Len(rest)
            /\ \A k \in 1..Len(<<hsh>>) + Len(rest) : env[k] =
                  IF k <= Len(<<hsh>>) THEN <<hsh>>[k] ELSE rest[k - Len(<<hsh>>)]
        BY <3>1, <3>2, ConcatProperties
      <4> HIDE DEF env
      <4>3. Len(rest) \in Nat
        BY <3>1
      <4> QED  BY <3>2, <4>1, <4>2, <4>3
    <3> HIDE DEF env
    <3>5. Entries(env) = env
      <4>1. Range(env) \cap {<<>>} = {}
        BY <2>4, <3>1, <3>4
      <4>2. Without(env, {<<>>}) = env
        BY <3>4, <4>1, WithoutIs
      <4> QED  BY <4>2 DEF Entries
    <3>6. ~Blank(env)
      <4>1. env # <<>> /\ env # <<<<>>>>
        BY <2>4, <3>4
      <4> QED  BY <4>1 DEF Blank
    <3>7. reads = env
      BY <2>3, <2>7, <3>3, <3>5, <3>6 DEF env
    <3>8. ASSUME ~Blank(c.env), NEW k \in DOMAIN before
          PROVE  before[k] \in Range(env)
      <4>1. before = Entries(c.env) /\ rest = others
        BY <2>3, <2>7, <3>8 DEF rest
      <4>2. before[k] \in Range(Entries(c.env))
        BY <3>8, <4>1 DEF Range
      <4> QED  BY <2>6, <3>4, <4>1, <4>2
    <3>9. {k \in DOMAIN env : env[k] = hsh} = {1}
      <4>1. DOMAIN env = 1..Len(env)
        BY <3>4
      <4>2. ASSUME NEW k \in 2..Len(env)
            PROVE  env[k] # hsh
        <5>1. k - 1 \in DOMAIN rest
          BY <3>1, <3>4
        <5>2. rest[k - 1] \in Range(rest)
          BY <5>1 DEF Range
        <5> QED  BY <3>1, <3>4, <5>2
      <4> QED  BY <3>4, <4>1, <4>2
    <3>10. Cardinality({1}) = 1
      BY FS_Singleton
    <3> QED  BY <3>0, <3>4, <3>7, <3>8, <3>9, <3>10
  <2>8. CASE ~routed \/ named # <<>>
    <3>1. reads = before
      <4> HIDE DEF routed, named, c, hsh
      <4> QED  BY <2>2, <2>3, <2>8
    <3> QED  BY <2>8, <3>1, Zenon DEF HoopFileFirst
  <2>9. CASE routed /\ named = <<>>
    BY <2>7, <2>9, Zenon DEF HoopFileFirst
  <2> QED  BY <2>8, <2>9
<1>2. Answers => KubectlAnswered
  BY DEF Answers
<1> QED  BY <1>1, <1>2, AnswersInvariant, PTL

=============================================================================
