-------------------------- MODULE WorkspaceProofs --------------------------
(***************************************************************************)
(* What the resolver's search answers, what the commands of a workspace     *)
(* leave on disk and on the server, and what a lock and a diff say, for     *)
(* every cookbook, constraint and Policyfile there may be.                  *)
(***************************************************************************)
EXTENDS Workspace, FiniteSetTheorems, SequenceTheorems, TLAPS

\* A nonempty set of finite sets has a smallest one in it: none of the others is a part of it.
LEMMA LeastSet ==
    ASSUME NEW F, F # {}, \A s \in F : IsFiniteSet(s)
    PROVE  \E s \in F : \A r \in F : r \subseteq s => r = s
<1> DEFINE U == UNION F
<1>1. F \subseteq FiniteSubsetsOf(U)
  BY DEF FiniteSubsetsOf
<1>2. \E x \in F : \A y \in F : <<y, x>> \notin StrictSubsetOrdering(U)
  BY <1>1, FS_StrictSubsetOrderingWellFounded, WFMin
<1> QED
  BY <1>1, <1>2 DEF StrictSubsetOrdering, FiniteSubsetsOf

\* A nonempty set of numbers has a least one.
LEMMA LeastNat ==
    ASSUME NEW T, T \subseteq Nat, T # {}
    PROVE  \E x \in T : \A y \in T : x <= y
<1> DEFINE F == {0..n : n \in T}
<1>1. F # {} /\ \A s \in F : IsFiniteSet(s)
  <2>1. \A n \in T : IsFiniteSet(0..n)
    BY FS_Interval
  <2> QED
    BY <2>1
<1>2. PICK s \in F : \A r \in F : r \subseteq s => r = s
  <2> HIDE DEF F
  <2> QED
    BY <1>1, LeastSet
<1>3. PICK x \in T : s = 0..x
  OBVIOUS
<1>4. \A y \in T : y < x => 0..y \subseteq s /\ 0..y # s
  BY <1>3
<1>5. \A y \in T : ~(y < x)
  BY <1>2, <1>4
<1> QED
  BY <1>5

\* Min is what its name says on a nonempty set of numbers.
LEMMA MinIsLeast ==
    ASSUME NEW T, T \subseteq Nat, T # {}
    PROVE  Min(T) \in T /\ \A y \in T : Min(T) <= y
BY LeastNat DEF Min

-----------------------------------------------------------------------------
(* The order of versions (version.go)                                      *)

\* Where two sequences of comparisons first differ from 0 decides.
LEMMA FirstNonZeroIs ==
    ASSUME NEW cmps, DOMAIN cmps \subseteq Nat, NEW otherwise
    PROVE  \/ (\A i \in DOMAIN cmps : cmps[i] = 0) /\ FirstNonZero(cmps, otherwise) = otherwise
           \/ \E i \in DOMAIN cmps : /\ cmps[i] # 0 /\ FirstNonZero(cmps, otherwise) = cmps[i]
                                     /\ \A j \in DOMAIN cmps : j < i => cmps[j] = 0
<1> DEFINE D == {i \in DOMAIN cmps : cmps[i] # 0}
<1>1. CASE D = {}
  BY <1>1 DEF FirstNonZero
<1>2. CASE D # {}
  <2>1. Min(D) \in D /\ \A j \in D : Min(D) <= j
    BY <1>2, MinIsLeast
  <2>2. FirstNonZero(cmps, otherwise) = cmps[Min(D)]
    BY <1>2 DEF FirstNonZero
  <2>3. PICK m : m = Min(D)
    OBVIOUS
  <2>4. m \in DOMAIN cmps /\ cmps[m] # 0 /\ m \in Nat
    BY <2>1, <2>3
  <2>5. \A j \in D : m <= j
    BY <2>1, <2>3
  <2>6. ASSUME NEW j \in DOMAIN cmps, j < m PROVE cmps[j] = 0
    BY <2>4, <2>5, <2>6
  <2> QED
    BY <2>2, <2>3, <2>4, <2>6
<1> QED
  BY <1>1, <1>2

\* What comparePreRelease says: the empty text last, else the first identifiers that
\* differ, else the length.
PreHigher(a, b) ==
    \/ a = <<>> /\ b # <<>>
    \/ /\ a # <<>> /\ b # <<>>
       /\ \/ \E i \in DOMAIN a \cap DOMAIN b : CmpIdentifier(a[i], b[i]) = 1 /\ \A j \in 1..(i - 1) : a[j] = b[j]
          \/ Len(a) > Len(b) /\ \A j \in DOMAIN b : a[j] = b[j]

\* Identifiers are linearly ordered.
LEMMA IdentifierOrder ==
    ASSUME NEW x \in Identifiers, NEW y \in Identifiers
    PROVE  /\ CmpIdentifier(x, y) \in {-1, 0, 1}
           /\ CmpIdentifier(x, y) = 0 <=> x = y
           /\ CmpIdentifier(y, x) = - CmpIdentifier(x, y)
           /\ \A z \in Identifiers : CmpIdentifier(x, y) = 1 /\ CmpIdentifier(y, z) = 1 => CmpIdentifier(x, z) = 1
<1> USE DEF Identifiers, CmpIdentifier, CmpInt
<1>1. CmpIdentifier(x, y) \in {-1, 0, 1} /\ CmpIdentifier(y, x) = - CmpIdentifier(x, y)
  OBVIOUS
<1>2. CmpIdentifier(x, y) = 0 <=> x = y
  OBVIOUS
<1>3. \A z \in Identifiers : CmpIdentifier(x, y) = 1 /\ CmpIdentifier(y, z) = 1 => CmpIdentifier(x, z) = 1
  OBVIOUS
<1> QED
  BY <1>1, <1>2, <1>3

\* comparePreRelease compares by PreHigher.
LEMMA PreReleaseIs ==
    ASSUME NEW a \in Seq(Identifiers), NEW b \in Seq(Identifiers)
    PROVE  /\ ComparePreRelease(a, b) \in {-1, 0, 1}
           /\ ComparePreRelease(a, b) = 0 <=> a = b
           /\ ComparePreRelease(a, b) = 1 <=> PreHigher(a, b)
           /\ ComparePreRelease(a, b) = -1 <=> PreHigher(b, a)
<1> DEFINE both == DOMAIN a \cap DOMAIN b
           cmps == [i \in both |-> CmpIdentifier(a[i], b[i])]
<1>0. /\ \A i \in DOMAIN a : a[i] \in Identifiers
      /\ \A i \in DOMAIN b : b[i] \in Identifiers
      /\ DOMAIN a = 1..Len(a) /\ DOMAIN b = 1..Len(b) /\ Len(a) \in Nat /\ Len(b) \in Nat
  OBVIOUS
<1>1. CASE a = b
  <2>1. ~PreHigher(a, b)
    BY <1>0, <1>1, IdentifierOrder DEF PreHigher
  <2> QED
    BY <1>1, <2>1 DEF ComparePreRelease
<1>2. CASE a # b /\ (a = <<>> \/ b = <<>>)
  BY <1>2 DEF ComparePreRelease, PreHigher
<1>3. CASE a # b /\ a # <<>> /\ b # <<>>
  <2>1. ComparePreRelease(a, b) = FirstNonZero(cmps, CmpInt(Len(a), Len(b)))
    BY <1>3 DEF ComparePreRelease
  <2>2. DOMAIN cmps = both /\ both \subseteq Nat
    BY <1>0
  <2>3. CASE \E i \in both : /\ cmps[i] # 0 /\ FirstNonZero(cmps, CmpInt(Len(a), Len(b))) = cmps[i]
                             /\ \A j \in both : j < i => cmps[j] = 0
    <3>1. PICK i \in both : /\ cmps[i] # 0 /\ FirstNonZero(cmps, CmpInt(Len(a), Len(b))) = cmps[i]
                            /\ \A j \in both : j < i => cmps[j] = 0
      BY <2>3
    <3>2. \A j \in 1..(i - 1) : j \in both /\ a[j] = b[j]
      BY <1>0, <3>1, IdentifierOrder
    <3>3. /\ cmps[i] = CmpIdentifier(a[i], b[i]) /\ CmpIdentifier(b[i], a[i]) = - cmps[i]
          /\ cmps[i] \in {-1, 1} /\ a[i] # b[i] /\ i \in 1..Len(a) /\ i \in 1..Len(b)
      BY <1>0, <3>1, IdentifierOrder
    <3> HIDE DEF cmps
    <3>4. \A k \in both : CmpIdentifier(a[k], b[k]) # 0 /\ (\A j \in 1..(k - 1) : a[j] = b[j]) => k = i
      BY <1>0, <3>1, <3>2, <3>3, IdentifierOrder
    <3>5. ~(\A j \in DOMAIN b : a[j] = b[j]) /\ ~(\A j \in DOMAIN a : a[j] = b[j])
      BY <1>0, <3>3
    <3>6. \A k \in both : CmpIdentifier(b[k], a[k]) = - CmpIdentifier(a[k], b[k])
      BY <1>0, IdentifierOrder
    <3>7. \A k \in both : CmpIdentifier(b[k], a[k]) = 1 /\ (\A j \in 1..(k - 1) : b[j] = a[j]) => k = i
      <4> SUFFICES ASSUME NEW k \in both, CmpIdentifier(b[k], a[k]) = 1, \A j \in 1..(k - 1) : b[j] = a[j]
                   PROVE  k = i
        OBVIOUS
      <4>1. CmpIdentifier(a[k], b[k]) # 0 /\ \A j \in 1..(k - 1) : a[j] = b[j]
        BY <3>6
      <4> QED
        BY <3>4, <4>1
    <3>8. PreHigher(a, b) <=> cmps[i] = 1
      <4>1. ASSUME cmps[i] = 1 PROVE PreHigher(a, b)
        BY <1>3, <3>2, <3>3, <4>1 DEF PreHigher
      <4>2. ASSUME PreHigher(a, b) PROVE cmps[i] = 1
        BY <1>3, <3>3, <3>4, <3>5, <4>2 DEF PreHigher
      <4> QED
        BY <4>1, <4>2
    <3>9. PreHigher(b, a) <=> cmps[i] = -1
      <4>1. ASSUME cmps[i] = -1 PROVE PreHigher(b, a)
        BY <1>3, <3>2, <3>3, <4>1 DEF PreHigher
      <4>2. ASSUME PreHigher(b, a) PROVE cmps[i] = -1
        <5>1. PICK k \in both : CmpIdentifier(b[k], a[k]) = 1 /\ \A j \in 1..(k - 1) : b[j] = a[j]
          BY <1>3, <3>5, <4>2 DEF PreHigher
        <5> QED
          BY <3>3, <3>7, <5>1
      <4> QED
        BY <4>1, <4>2
    <3> QED
      BY <1>3, <2>1, <3>1, <3>3, <3>8, <3>9
  <2>4. CASE (\A i \in both : cmps[i] = 0) /\ FirstNonZero(cmps, CmpInt(Len(a), Len(b))) = CmpInt(Len(a), Len(b))
    <3>1. \A i \in both : a[i] = b[i]
      BY <1>0, <2>4, IdentifierOrder
    <3>2. Len(a) # Len(b)
      BY <1>0, <1>3, <3>1, SeqEqual
    <3>3. \A k \in both : CmpIdentifier(a[k], b[k]) = 0 /\ CmpIdentifier(b[k], a[k]) = 0
      BY <1>0, <3>1, IdentifierOrder
    <3>4. PreHigher(a, b) <=> Len(a) > Len(b)
      BY <1>0, <1>3, <3>1, <3>3 DEF PreHigher
    <3>5. PreHigher(b, a) <=> Len(b) > Len(a)
      BY <1>0, <1>3, <3>1, <3>3 DEF PreHigher
    <3>6. ComparePreRelease(a, b) = CmpInt(Len(a), Len(b))
      BY <2>1, <2>4
    <3> HIDE DEF cmps, both
    <3> QED
      <4>1. CASE Len(a) > Len(b)
        <5>1. ComparePreRelease(a, b) = 1 /\ PreHigher(a, b) /\ ~PreHigher(b, a)
          BY <1>0, <3>4, <3>5, <3>6, <4>1 DEF CmpInt
        <5> QED
          BY <1>3, <5>1
      <4>2. CASE Len(a) < Len(b)
        <5>1. ComparePreRelease(a, b) = -1 /\ PreHigher(b, a) /\ ~PreHigher(a, b)
          BY <1>0, <3>4, <3>5, <3>6, <4>2 DEF CmpInt
        <5> QED
          BY <1>3, <5>1
      <4>3. Len(a) > Len(b) \/ Len(a) < Len(b)
        <5>1. Len(a) \in Nat /\ Len(b) \in Nat
          BY LenProperties
        <5> QED
          BY <3>2, <5>1
      <4> QED
        BY <4>1, <4>2, <4>3
  <2> QED
    <3> HIDE DEF cmps, both
    <3> QED
      BY <2>2, <2>3, <2>4, FirstNonZeroIs
<1> QED
  BY <1>1, <1>2, <1>3

\* PreHigher is transitive.
LEMMA PreHigherOrder ==
    ASSUME NEW a \in Seq(Identifiers), NEW b \in Seq(Identifiers), NEW c \in Seq(Identifiers),
           PreHigher(a, b), PreHigher(b, c)
    PROVE  PreHigher(a, c)
<1>0. /\ \A i \in DOMAIN a : a[i] \in Identifiers
      /\ \A i \in DOMAIN b : b[i] \in Identifiers
      /\ \A i \in DOMAIN c : c[i] \in Identifiers
      /\ DOMAIN a = 1..Len(a) /\ DOMAIN b = 1..Len(b) /\ DOMAIN c = 1..Len(c)
      /\ Len(a) \in Nat /\ Len(b) \in Nat /\ Len(c) \in Nat
  OBVIOUS
<1>1. b # <<>> /\ c # <<>>
  BY DEF PreHigher
<1>2. CASE a = <<>>
  BY <1>1, <1>2 DEF PreHigher
<1>3. CASE a # <<>>
  <2>1. CASE \E i \in DOMAIN a \cap DOMAIN b : CmpIdentifier(a[i], b[i]) = 1 /\ \A j \in 1..(i - 1) : a[j] = b[j]
    <3>1. PICK i \in DOMAIN a \cap DOMAIN b : CmpIdentifier(a[i], b[i]) = 1 /\ \A j \in 1..(i - 1) : a[j] = b[j]
      BY <2>1
    <3>2. CASE \E k \in DOMAIN b \cap DOMAIN c : CmpIdentifier(b[k], c[k]) = 1 /\ \A j \in 1..(k - 1) : b[j] = c[j]
      <4>1. PICK k \in DOMAIN b \cap DOMAIN c : CmpIdentifier(b[k], c[k]) = 1 /\ \A j \in 1..(k - 1) : b[j] = c[j]
        BY <3>2
      <4>2. CASE i < k
        <5>1. i \in DOMAIN c /\ CmpIdentifier(a[i], c[i]) = 1 /\ \A j \in 1..(i - 1) : a[j] = c[j]
          BY <1>0, <3>1, <4>1, <4>2
        <5> QED
          BY <1>1, <1>3, <3>1, <5>1 DEF PreHigher
      <4>3. CASE i = k
        <5>1. i \in DOMAIN c /\ CmpIdentifier(a[i], c[i]) = 1 /\ \A j \in 1..(i - 1) : a[j] = c[j]
          BY <1>0, <3>1, <4>1, <4>3, IdentifierOrder
        <5> QED
          BY <1>1, <1>3, <3>1, <5>1 DEF PreHigher
      <4>4. CASE i > k
        <5>1. k \in DOMAIN a /\ CmpIdentifier(a[k], c[k]) = 1 /\ \A j \in 1..(k - 1) : a[j] = c[j]
          BY <1>0, <3>1, <4>1, <4>4
        <5> QED
          BY <1>1, <1>3, <4>1, <5>1 DEF PreHigher
      <4> QED
        BY <1>0, <4>2, <4>3, <4>4
    <3>3. CASE Len(b) > Len(c) /\ \A j \in DOMAIN c : b[j] = c[j]
      <4>1. CASE i <= Len(c)
        <5>1. i \in DOMAIN c /\ CmpIdentifier(a[i], c[i]) = 1 /\ \A j \in 1..(i - 1) : a[j] = c[j]
          BY <1>0, <3>1, <3>3, <4>1
        <5> QED
          BY <1>1, <1>3, <3>1, <5>1 DEF PreHigher
      <4>2. CASE i > Len(c)
        <5>1. Len(a) > Len(c) /\ \A j \in DOMAIN c : a[j] = c[j]
          BY <1>0, <3>1, <3>3, <4>2
        <5> QED
          BY <1>1, <1>3, <5>1 DEF PreHigher
      <4> QED
        BY <1>0, <4>1, <4>2
    <3> QED
      BY <1>1, <3>2, <3>3 DEF PreHigher
  <2>2. CASE Len(a) > Len(b) /\ \A j \in DOMAIN b : a[j] = b[j]
    <3>2. CASE \E k \in DOMAIN b \cap DOMAIN c : CmpIdentifier(b[k], c[k]) = 1 /\ \A j \in 1..(k - 1) : b[j] = c[j]
      <4>1. PICK k \in DOMAIN b \cap DOMAIN c : CmpIdentifier(b[k], c[k]) = 1 /\ \A j \in 1..(k - 1) : b[j] = c[j]
        BY <3>2
      <4>2. k \in DOMAIN a /\ CmpIdentifier(a[k], c[k]) = 1 /\ \A j \in 1..(k - 1) : a[j] = c[j]
        BY <1>0, <2>2, <4>1
      <4> QED
        BY <1>1, <1>3, <4>1, <4>2 DEF PreHigher
    <3>3. CASE Len(b) > Len(c) /\ \A j \in DOMAIN c : b[j] = c[j]
      <4>1. Len(a) > Len(c) /\ \A j \in DOMAIN c : a[j] = c[j]
        BY <1>0, <2>2, <3>3
      <4> QED
        BY <1>1, <1>3, <4>1 DEF PreHigher
    <3> QED
      BY <1>1, <3>2, <3>3 DEF PreHigher
  <2> QED
    BY <1>1, <1>3, <2>1, <2>2 DEF PreHigher
<1> QED
  BY <1>2, <1>3

\* What Compare says: the first number that differs, else the pre-release.
Alike(v, w, i) == Padded(v.nums)[i] = Padded(w.nums)[i]
Higher(v, w) ==
    \/ \E i \in 1..3 : Padded(v.nums)[i] > Padded(w.nums)[i] /\ \A j \in 1..(i - 1) : Alike(v, w, j)
    \/ (\A j \in 1..3 : Alike(v, w, j)) /\ PreHigher(v.pre, w.pre)

LEMMA PaddedType ==
    ASSUME NEW nums \in Seq(Nat)
    PROVE  Padded(nums) \in [1..3 -> Nat] /\ Padded(nums) \in Seq(Nat) /\ Len(Padded(nums)) = 3
<1>1. \A i \in 1..3 : (IF i <= Len(nums) THEN nums[i] ELSE 0) \in Nat
  OBVIOUS
<1>2. Padded(nums) \in [1..3 -> Nat]
  BY <1>1 DEF Padded
<1>3. Padded(nums) \in Seq(Nat)
  <2>1. \A n \in Nat : [1..n -> Nat] \subseteq Seq(Nat)
    BY SeqDef
  <2>2. [1..3 -> Nat] \subseteq Seq(Nat)
    BY <2>1
  <2> QED
    BY <1>2, <2>2
<1>4. DOMAIN Padded(nums) = 1..Len(Padded(nums)) /\ Len(Padded(nums)) \in Nat
  BY <1>3, LenProperties
<1>5. Len(Padded(nums)) = 3
  BY <1>2, <1>4
<1> QED
  BY <1>2, <1>3, <1>5

\* Compare compares by Higher.
LEMMA CompareIs ==
    ASSUME NEW v, NEW w, IsVersion(v), IsVersion(w)
    PROVE  \/ Compare(v, w) = 0 /\ (\A j \in 1..3 : Alike(v, w, j)) /\ v.pre = w.pre
           \/ Compare(v, w) = 1 /\ Higher(v, w)
           \/ Compare(v, w) = -1 /\ Higher(w, v)
<1> DEFINE p == Padded(v.nums)
           q == Padded(w.nums)
           cmps == [i \in 1..3 |-> CmpInt(p[i], q[i])]
<1>1. p \in [1..3 -> Nat] /\ q \in [1..3 -> Nat]
  BY PaddedType DEF IsVersion
<1>2. Compare(v, w) = FirstNonZero(cmps, ComparePreRelease(v.pre, w.pre))
  BY DEF Compare
<1>3. \A i \in 1..3 : /\ cmps[i] = 0 <=> p[i] = q[i]
                      /\ cmps[i] = 1 <=> p[i] > q[i]
                      /\ cmps[i] = -1 <=> q[i] > p[i]
                      /\ cmps[i] \in {-1, 0, 1}
  BY <1>1 DEF CmpInt
<1>4. DOMAIN cmps = 1..3
  OBVIOUS
<1> HIDE DEF cmps
<1>5. CASE (\A i \in 1..3 : cmps[i] = 0) /\ Compare(v, w) = ComparePreRelease(v.pre, w.pre)
  <2>1. \A j \in 1..3 : Alike(v, w, j) /\ Alike(w, v, j)
    BY <1>3, <1>5 DEF Alike
  <2> QED
    BY <1>5, <2>1, PreReleaseIs DEF IsVersion, Higher
<1>6. CASE \E i \in 1..3 : cmps[i] # 0 /\ Compare(v, w) = cmps[i] /\ \A j \in 1..3 : j < i => cmps[j] = 0
  <2>1. PICK i \in 1..3 : cmps[i] # 0 /\ Compare(v, w) = cmps[i] /\ \A j \in 1..3 : j < i => cmps[j] = 0
    BY <1>6
  <2>2. \A j \in 1..(i - 1) : Alike(v, w, j) /\ Alike(w, v, j)
    BY <1>3, <2>1 DEF Alike
  <2>3. CASE cmps[i] = 1
    BY <1>3, <2>1, <2>2, <2>3 DEF Higher
  <2>4. CASE cmps[i] = -1
    BY <1>3, <2>1, <2>2, <2>4 DEF Higher
  <2> QED
    BY <1>3, <2>1, <2>3, <2>4
<1>7. DOMAIN cmps \subseteq Nat
  BY <1>4
<1> QED
  BY <1>2, <1>4, <1>5, <1>6, <1>7, FirstNonZeroIs

\* Nothing is higher than itself, and what is higher than a higher one is higher.
LEMMA HigherOrder ==
    ASSUME NEW u, NEW v, NEW w, IsVersion(u), IsVersion(v), IsVersion(w)
    PROVE  /\ ~Higher(u, u)
           /\ Higher(u, v) /\ Higher(v, w) => Higher(u, w)
<1> DEFINE p == Padded(u.nums)
           q == Padded(v.nums)
           r == Padded(w.nums)
<1>1. p \in [1..3 -> Nat] /\ q \in [1..3 -> Nat] /\ r \in [1..3 -> Nat]
  BY PaddedType DEF IsVersion
<1>2. ~PreHigher(u.pre, u.pre)
  <2>1. ComparePreRelease(u.pre, u.pre) = 0
    BY DEF ComparePreRelease
  <2> QED
    BY <2>1, PreReleaseIs DEF IsVersion
<1>3. ~Higher(u, u)
  BY <1>1, <1>2 DEF Higher
<1>4. ASSUME Higher(u, v), Higher(v, w) PROVE Higher(u, w)
  <2>1. CASE \E i \in 1..3 : p[i] > q[i] /\ \A j \in 1..(i - 1) : Alike(u, v, j)
    <3>1. PICK i \in 1..3 : p[i] > q[i] /\ \A j \in 1..(i - 1) : Alike(u, v, j)
      BY <2>1
    <3>2. CASE \E k \in 1..3 : q[k] > r[k] /\ \A j \in 1..(k - 1) : Alike(v, w, j)
      <4>1. PICK k \in 1..3 : q[k] > r[k] /\ \A j \in 1..(k - 1) : Alike(v, w, j)
        BY <3>2
      <4>2. CASE i <= k
        <5>1. p[i] > r[i] /\ \A j \in 1..(i - 1) : Alike(u, w, j)
          BY <1>1, <3>1, <4>1, <4>2 DEF Alike
        <5> QED
          BY <3>1, <5>1 DEF Higher
      <4>3. CASE k < i
        <5>1. p[k] > r[k] /\ \A j \in 1..(k - 1) : Alike(u, w, j)
          BY <1>1, <3>1, <4>1, <4>3 DEF Alike
        <5> QED
          BY <4>1, <5>1 DEF Higher
      <4> QED
        BY <3>1, <4>1, <4>2, <4>3
    <3>3. CASE \A j \in 1..3 : Alike(v, w, j)
      <4>1. p[i] > r[i] /\ \A j \in 1..(i - 1) : Alike(u, w, j)
        BY <1>1, <3>1, <3>3 DEF Alike
      <4> QED
        BY <3>1, <4>1 DEF Higher
    <3> QED
      BY <1>4, <3>2, <3>3 DEF Higher
  <2>2. CASE (\A j \in 1..3 : Alike(u, v, j)) /\ PreHigher(u.pre, v.pre)
    <3>1. CASE \E k \in 1..3 : q[k] > r[k] /\ \A j \in 1..(k - 1) : Alike(v, w, j)
      <4>1. PICK k \in 1..3 : q[k] > r[k] /\ \A j \in 1..(k - 1) : Alike(v, w, j)
        BY <3>1
      <4>2. p[k] > r[k] /\ \A j \in 1..(k - 1) : Alike(u, w, j)
        BY <1>1, <2>2, <4>1 DEF Alike
      <4> QED
        BY <4>1, <4>2 DEF Higher
    <3>2. CASE (\A j \in 1..3 : Alike(v, w, j)) /\ PreHigher(v.pre, w.pre)
      <4>1. \A j \in 1..3 : Alike(u, w, j)
        BY <2>2, <3>2 DEF Alike
      <4>2. PreHigher(u.pre, w.pre)
        BY <2>2, <3>2, PreHigherOrder DEF IsVersion
      <4> QED
        BY <4>1, <4>2 DEF Higher
    <3> QED
      BY <1>4, <3>1, <3>2 DEF Higher
  <2> QED
    BY <1>4, <2>1, <2>2 DEF Higher
<1> QED
  BY <1>3, <1>4

\* Compare orders versions: it is antisymmetric and transitive, and 0 between equals.
LEMMA VersionOrder ==
    ASSUME NEW u, NEW v, IsVersion(u), IsVersion(v)
    PROVE  /\ Compare(u, v) \in {-1, 0, 1}
           /\ Compare(u, u) = 0
           /\ Compare(v, u) = - Compare(u, v)
           /\ \A w : IsVersion(w) /\ Compare(u, v) > 0 /\ Compare(v, w) > 0 => Compare(u, w) > 0
<1>1. Compare(u, u) = 0
  BY CompareIs, HigherOrder
<1>2. Higher(u, v) => ~Higher(v, u)
  BY HigherOrder
<1>3. (\A j \in 1..3 : Alike(u, v, j)) /\ u.pre = v.pre => ~Higher(u, v) /\ ~Higher(v, u)
  <2> SUFFICES ASSUME \A j \in 1..3 : Alike(u, v, j), u.pre = v.pre
               PROVE  ~Higher(u, v) /\ ~Higher(v, u)
    OBVIOUS
  <2>1. Padded(u.nums) \in [1..3 -> Nat] /\ Padded(v.nums) \in [1..3 -> Nat]
    BY PaddedType DEF IsVersion
  <2>2. ~PreHigher(u.pre, v.pre) /\ ~PreHigher(v.pre, u.pre)
    BY HigherOrder DEF Higher, Alike
  <2> QED
    BY <2>1, <2>2 DEF Higher, Alike
<1>4. Compare(u, v) \in {-1, 0, 1} /\ Compare(v, u) = - Compare(u, v)
  <2>1. Alike(u, v, 1) = Alike(v, u, 1) /\ \A j \in 1..3 : Alike(u, v, j) <=> Alike(v, u, j)
    BY DEF Alike
  <2> QED
    BY <1>2, <1>3, <2>1, CompareIs
<1>5. ASSUME NEW w, IsVersion(w), Compare(u, v) > 0, Compare(v, w) > 0 PROVE Compare(u, w) > 0
  <2>1. Higher(u, v) /\ Higher(v, w)
    BY <1>5, CompareIs
  <2>2. Higher(u, w) /\ ~Higher(w, u)
    BY <1>5, <2>1, HigherOrder
  <2>3. ~((\A j \in 1..3 : Alike(u, w, j)) /\ u.pre = w.pre)
    <3>1. SUFFICES ASSUME \A j \in 1..3 : Alike(u, w, j), u.pre = w.pre PROVE FALSE
      OBVIOUS
    <3>2. \A j \in 1..3 : Padded(u.nums)[j] = Padded(w.nums)[j] /\ Padded(u.nums)[j] \in Nat
      BY <3>1, PaddedType DEF Alike, IsVersion
    <3>3. PreHigher(u.pre, w.pre)
      BY <2>2, <3>2 DEF Higher
    <3>4. ~PreHigher(u.pre, u.pre)
      BY HigherOrder DEF Higher, Alike
    <3> QED
      BY <3>1, <3>3, <3>4
  <2> QED
    BY <1>5, <2>2, <2>3, CompareIs
<1> QED
  BY <1>1, <1>4, <1>5

(***************************************************************************)
(* The search (solver.go)                                                  *)
(***************************************************************************)

\* A call of backtrack: what is asked is what the demands and the assigned candidates ask,
\* all of it that is assigned is satisfied, and nothing is assigned that nothing needs.
Made(p, asked, assigned) ==
    /\ assigned \in Picks(p)
    /\ asked = p.demands \cup UNION {Range(Chosen(p, assigned, n).deps) : n \in DOMAIN assigned}
    /\ \A a \in asked : a.name \in DOMAIN assigned => Satisfies(a.con, assigned[a.name])
    /\ \A n \in DOMAIN assigned :
          \/ n \in {d.name : d \in p.demands}
          \/ \E m \in DOMAIN assigned \ {n} : \E i \in DOMAIN Chosen(p, assigned, m).deps :
                 Chosen(p, assigned, m).deps[i].name = n

\* No solution has these versions among its own.
Continues(f, assigned) == \A n \in DOMAIN assigned : n \in DOMAIN f /\ f[n] = assigned[n]
Dead(p, assigned) ==
    WellFormed(p) => \A f \in Picks(p) : Continues(f, assigned) => ~IsSolution(p, f)

Grown(f, c) == Put(f.assigned, f.name, c.version)

Frames(p) ==
    [name : Names(p), asked : SUBSET Asks(p), assigned : Picks(p),
     todo : SUBSET UNION {p.universe[n] : n \in Names(p)}]
\* A frame has given up only candidates that lead nowhere.
FrameOK(p, f) ==
    /\ Made(p, f.asked, f.assigned)
    /\ f.name \notin DOMAIN f.assigned /\ \E a \in f.asked : a.name = f.name
    /\ f.todo \subseteq p.universe[f.name]
    /\ \A c \in p.universe[f.name] \ f.todo : Dead(p, Grown(f, c))

\* What the first k frames have assigned: to each cookbook the highest version left.
Trail(stack, k, assigned) ==
    /\ DOMAIN assigned = {stack[j].name : j \in 1..k}
    /\ \A j \in 1..k : stack[j].todo # {} /\ assigned[stack[j].name] = Highest(stack[j].todo).version

StackOK(p, stack) ==
    \A i \in 1..Len(stack) : FrameOK(p, stack[i]) /\ Trail(stack, i - 1, stack[i].assigned)

Searches(p) ==
    [problem : {p}, stack : Seq(Frames(p)), answer : Picks(p),
     out : {"none", "solving", "solved", "failed"}]

\* The inductive invariant of the search.
SearchOK(s) ==
    LET p == s.problem IN
    /\ IsProblem(p) /\ s \in Searches(p)
    /\ s.out \in {"solving", "solved"} => StackOK(p, s.stack)
    /\ s.out = "solving" => s.stack # <<>>
    /\ s.out = "solved" =>
          /\ Trail(s.stack, Len(s.stack), s.answer)
          /\ \E asked : Made(p, asked, s.answer) /\ \A a \in asked : a.name \in DOMAIN s.answer
    /\ s.out = "failed" => Dead(p, <<>>)

-----------------------------------------------------------------------------
\* A finite set of candidates has a highest one, and only one.
LEMMA HighestIs ==
    ASSUME NEW C, C # {}, IsFiniteSet(C), \A c \in C : IsVersion(c.version)
    PROVE  Highest(C) \in C /\ \A d \in C : Compare(Highest(C).version, d.version) >= 0
<1> DEFINE above(c) == {d \in C : Compare(d.version, c.version) > 0}
           F == {above(c) : c \in C}
<1>1. F # {} /\ \A s \in F : IsFiniteSet(s)
  <2>1. \A c \in C : IsFiniteSet(above(c))
    BY FS_Subset
  <2> QED
    BY <2>1
<1>2. PICK s \in F : \A r \in F : r \subseteq s => r = s
  <2> HIDE DEF F
  <2> QED
    BY <1>1, LeastSet
<1>3. PICK c \in C : s = above(c)
  OBVIOUS
<1>4. ASSUME NEW d \in C, Compare(d.version, c.version) > 0 PROVE FALSE
  <2>1. above(d) \subseteq above(c)
    <3> SUFFICES ASSUME NEW e \in C, Compare(e.version, d.version) > 0
                 PROVE  Compare(e.version, c.version) > 0
      OBVIOUS
    <3> QED
      BY <1>4, VersionOrder
  <2>2. d \in above(c) /\ d \notin above(d)
    BY <1>4, VersionOrder
  <2>3. above(d) \in F
    OBVIOUS
  <2> QED
    BY <1>2, <1>3, <2>1, <2>2, <2>3
<1>5. ASSUME NEW d \in C PROVE Compare(c.version, d.version) >= 0
  <2>1. /\ Compare(d.version, c.version) \in {-1, 0, 1}
        /\ Compare(c.version, d.version) = - Compare(d.version, c.version)
    BY VersionOrder
  <2>2. ~(Compare(d.version, c.version) > 0)
    BY <1>4
  <2> QED
    BY <2>1, <2>2
<1> QED
  BY <1>5 DEF Highest

\* A choice of versions: where it is defined, and the candidate it chooses.
LEMMA PicksAre ==
    ASSUME NEW p, IsProblem(p), NEW f \in Picks(p)
    PROVE  /\ DOMAIN f \subseteq Names(p)
           /\ \A n \in DOMAIN f : /\ Chosen(p, f, n) \in p.universe[n]
                                  /\ Chosen(p, f, n).version = f[n]
                                  /\ \A c \in p.universe[n] : c.version = f[n] => c = Chosen(p, f, n)
<1>1. DOMAIN f \subseteq Names(p) /\ \A n \in DOMAIN f : f[n] \in {c.version : c \in p.universe[n]}
  BY DEF Picks
<1>2. ASSUME NEW n \in DOMAIN f
      PROVE  /\ Chosen(p, f, n) \in p.universe[n] /\ Chosen(p, f, n).version = f[n]
             /\ \A c \in p.universe[n] : c.version = f[n] => c = Chosen(p, f, n)
  <2>1. \E c \in p.universe[n] : c.version = f[n]
    BY <1>1
  <2>2. Chosen(p, f, n) \in p.universe[n] /\ Chosen(p, f, n).version = f[n]
    BY <2>1 DEF Chosen
  <2>3. ASSUME NEW c \in p.universe[n], c.version = f[n] PROVE c = Chosen(p, f, n)
    <3>1. n \in Names(p) /\ IsVersion(c.version)
      BY <1>1 DEF IsProblem
    <3>2. Compare(c.version, Chosen(p, f, n).version) = 0
      BY <2>2, <2>3, <3>1, VersionOrder
    <3> QED
      BY <2>2, <3>1, <3>2 DEF IsProblem
  <2> QED
    BY <2>2, <2>3
<1> QED
  BY <1>1, <1>2

\* What is a choice of versions.
LEMMA IsPick ==
    ASSUME NEW p, NEW S \in SUBSET Names(p), NEW g, DOMAIN g = S, g = [n \in S |-> g[n]],
           \A n \in S : g[n] \in {c.version : c \in p.universe[n]}
    PROVE  g \in Picks(p)
<1> DEFINE V == UNION {{c.version : c \in p.universe[n]} : n \in S}
           P(T) == {f \in [T -> UNION {{c.version : c \in p.universe[n]} : n \in T}] :
                      \A n \in T : f[n] \in {c.version : c \in p.universe[n]}}
<1>1. g \in [S -> V]
  OBVIOUS
<1>2. g \in P(S)
  BY <1>1
<1>3. Picks(p) = UNION {P(T) : T \in SUBSET Names(p)}
  BY DEF Picks
<1> HIDE DEF P
<1> QED
  BY <1>2, <1>3

\* Nothing is chosen yet.
LEMMA EmptyPick == ASSUME NEW p PROVE <<>> \in Picks(p) /\ DOMAIN <<>> = {}
<1>1. <<>> \in [{} -> UNION {{c.version : c \in p.universe[n]} : n \in {}}] /\ DOMAIN <<>> = {}
  OBVIOUS
<1> QED
  BY <1>1 DEF Picks

\* h is the choice g and the candidate c for cookbook n.
Extended(p, g, n, c, h) ==
    /\ h \in Picks(p) /\ DOMAIN h = DOMAIN g \cup {n} /\ h[n] = c.version
    /\ \A m \in DOMAIN g : h[m] = g[m]
    /\ Chosen(p, h, n) = c
    /\ \A m \in DOMAIN g : Chosen(p, h, m) = Chosen(p, g, m)

\* One more candidate is assigned.
LEMMA PutIs ==
    ASSUME NEW p, IsProblem(p), NEW g, g \in Picks(p), NEW n, n \in Names(p), n \notin DOMAIN g,
           NEW c, c \in p.universe[n], NEW h, h = Put(g, n, c.version)
    PROVE  Extended(p, g, n, c, h)
<1> DEFINE S == DOMAIN g \cup {n}
<1>1. DOMAIN g \subseteq Names(p)
  BY PicksAre
<1>2. h = [m \in S |-> IF m = n THEN c.version ELSE g[m]]
  BY DEF Put
<1>3. \A m \in DOMAIN g : g[m] \in {d.version : d \in p.universe[m]}
  BY DEF Picks
<1>4. DOMAIN h = S /\ h[n] = c.version /\ \A m \in DOMAIN g : h[m] = g[m]
  BY <1>2
<1>5. \A m \in S : h[m] \in {d.version : d \in p.universe[m]}
  BY <1>3, <1>4
<1>6. S \in SUBSET Names(p) /\ h = [m \in S |-> h[m]]
  BY <1>1, <1>2
<1>7. h \in Picks(p)
  <2> HIDE DEF S
  <2> QED
    BY <1>4, <1>5, <1>6, IsPick
<1>8. Chosen(p, h, n) = c
  BY <1>4, <1>7, PicksAre
<1>9. \A m \in DOMAIN g : Chosen(p, h, m) = Chosen(p, g, m)
  BY <1>4 DEF Chosen
<1> QED
  BY <1>4, <1>7, <1>8, <1>9 DEF Extended

\* The candidate of a frame is assigned.
LEMMA GrownIs ==
    ASSUME NEW p, IsProblem(p), NEW f, f.assigned \in Picks(p),
           f.name \in Names(p), f.name \notin DOMAIN f.assigned, NEW c, c \in p.universe[f.name]
    PROVE  Extended(p, f.assigned, f.name, c, Grown(f, c))
BY PutIs DEF Grown

\* A solution that continues a call's versions meets all that the call is asked.
LEMMA AskedIsMet ==
    ASSUME NEW p, IsProblem(p), NEW asked, NEW g, Made(p, asked, g),
           NEW f \in Picks(p), Continues(f, g), IsSolution(p, f), NEW a \in asked
    PROVE  a.name \in DOMAIN f /\ Satisfies(a.con, f[a.name])
<1>1. CASE a \in p.demands
  BY <1>1 DEF IsSolution
<1>2. CASE \E n \in DOMAIN g : a \in Range(Chosen(p, g, n).deps)
  <2>1. PICK n \in DOMAIN g : a \in Range(Chosen(p, g, n).deps)
    BY <1>2
  <2>2. n \in DOMAIN f /\ Chosen(p, f, n) = Chosen(p, g, n)
    BY DEF Continues, Chosen
  <2>3. PICK i \in DOMAIN Chosen(p, f, n).deps : a = Chosen(p, f, n).deps[i]
    BY <2>1, <2>2 DEF Range
  <2> QED
    BY <2>2, <2>3 DEF IsSolution
<1> QED
  BY <1>1, <1>2 DEF Made

\* The top of a stack, and what is below it.
LEMMA TopIs ==
    ASSUME NEW S, NEW st \in Seq(S), st # <<>>
    PROVE  /\ Len(st) \in Nat /\ Len(st) > 0 /\ Last(st) = st[Len(st)] /\ Last(st) \in S
           /\ Front(st) \in Seq(S) /\ Len(Front(st)) = Len(st) - 1
           /\ \A i \in 1..(Len(st) - 1) : Front(st)[i] = st[i]
<1>1. Len(st) \in Nat /\ Len(st) > 0 /\ \A i \in 1..Len(st) : st[i] \in S
  BY EmptySeq, LenProperties, ElementOfSeq
<1>2. Last(st) = st[Len(st)] /\ Last(st) \in S
  BY <1>1 DEF Last
<1>3. Front(st) = SubSeq(st, 1, Len(st) - 1)
  BY DEF Front
<1>4. 1 \in Int /\ Len(st) - 1 \in Int /\ \A i \in 1..(Len(st) - 1) : st[i] \in S
  BY <1>1
<1>5. /\ Front(st) \in Seq(S) /\ Len(Front(st)) = Len(st) - 1
      /\ \A i \in 1..(Len(st) - 1) : Front(st)[i] = st[i]
  <2> DEFINE m == Len(st) - 1
  <2>1. /\ SubSeq(st, 1, m) \in Seq(S)
        /\ Len(SubSeq(st, 1, m)) = IF 1 <= m THEN m - 1 + 1 ELSE 0
        /\ \A i \in 1..(m - 1 + 1) : SubSeq(st, 1, m)[i] = st[1 + i - 1]
    BY <1>4, SubSeqProperties
  <2>2. \A i \in 1..m : 1 + i - 1 = i
    BY <1>1
  <2>3. m - 1 + 1 = m /\ (m < 1 => m = 0)
    <3>1. \A n \in Nat : n > 0 => n - 1 - 1 + 1 = n - 1 /\ (n - 1 < 1 => n - 1 = 0)
      OBVIOUS
    <3> QED
      BY <1>1, <3>1
  <2> QED
    BY <1>3, <2>1, <2>2, <2>3
<1> QED
  BY <1>1, <1>2, <1>5

\* What k frames have assigned does not depend on the others.
LEMMA SameTrail ==
    ASSUME NEW st, NEW t, NEW k, NEW g, \A j \in 1..k : t[j] = st[j], Trail(st, k, g)
    PROVE  Trail(t, k, g)
<1>1. {t[j].name : j \in 1..k} = {st[j].name : j \in 1..k}
  OBVIOUS
<1> QED
  BY <1>1 DEF Trail

\* A frame whose candidates all lead nowhere leads nowhere.
LEMMA AllDead ==
    ASSUME NEW p, IsProblem(p), NEW f \in Frames(p), FrameOK(p, f),
           \A c \in p.universe[f.name] : Dead(p, Grown(f, c))
    PROVE  Dead(p, f.assigned)
<1> SUFFICES ASSUME WellFormed(p), NEW h \in Picks(p), Continues(h, f.assigned), IsSolution(p, h)
             PROVE  FALSE
  BY DEF Dead
<1>1. f.name \in Names(p) /\ f.name \notin DOMAIN f.assigned /\ f.assigned \in Picks(p) /\ Made(p, f.asked, f.assigned)
  BY DEF Frames, FrameOK
<1>2. f.name \in DOMAIN h
  <2>1. PICK a \in f.asked : a.name = f.name
    BY DEF FrameOK
  <2> QED
    BY <1>1, <2>1, AskedIsMet
<1>3. PICK c \in p.universe[f.name] : c = Chosen(p, h, f.name) /\ c.version = h[f.name]
  BY <1>2, PicksAre
<1>4. Continues(h, Grown(f, c))
  <2>1. Extended(p, f.assigned, f.name, c, Grown(f, c))
    BY <1>1, GrownIs
  <2> QED
    BY <1>2, <1>3, <2>1 DEF Continues, Extended
<1> QED
  BY <1>3, <1>4 DEF Dead

\* A state of the search between its steps, and a call it is about to make or has lost.
Searching(s) ==
    /\ IsProblem(s.problem) /\ s \in Searches(s.problem)
    /\ s.out = "solving" /\ StackOK(s.problem, s.stack)

\* When the versions of the call fail, the next candidate of the call below is as good.
LEMMA RejectedOK ==
    ASSUME NEW s, Searching(s), NEW g, Trail(s.stack, Len(s.stack), g), Dead(s.problem, g)
    PROVE  SearchOK(Rejected(s))
<1> DEFINE p == s.problem
           st == s.stack
           n == Len(st)
<1>1. IsProblem(p) /\ s \in Searches(p) /\ st \in Seq(Frames(p)) /\ s.out = "solving" /\ StackOK(p, st)
  BY DEF Searching, Searches
<1>2. CASE st = <<>>
  <2>1. DOMAIN g = {}
    BY <1>2 DEF Trail
  <2>2. Dead(p, <<>>)
    BY <2>1 DEF Dead, Continues
  <2>3. Rejected(s) = [s EXCEPT !.out = "failed"]
    BY <1>2 DEF Rejected
  <2> QED
    BY <1>1, <2>2, <2>3 DEF SearchOK, Searches
<1>3. CASE st # <<>>
  <2> DEFINE f == st[n]
             c == Highest(f.todo)
             e == [f EXCEPT !.todo = @ \ {c}]
             t == [st EXCEPT ![n] = e]
  <2>1. n \in Nat /\ n > 0 /\ f \in Frames(p)
    BY <1>1, <1>3, TopIs
  <2>2. Rejected(s) = [s EXCEPT !.stack = t]
    BY <1>1, <1>3, <2>1 DEF Rejected, Searches, Frames
  <2>3. FrameOK(p, f) /\ Trail(st, n - 1, f.assigned)
    BY <1>1, <2>1 DEF StackOK
  <2>4. f.todo # {} /\ g[f.name] = c.version
    BY <2>1 DEF Trail
  <2>5. /\ f.name \in Names(p) /\ f.name \notin DOMAIN f.assigned /\ f.assigned \in Picks(p)
        /\ f.todo \subseteq p.universe[f.name]
    BY <2>1, <2>3 DEF Frames, FrameOK
  <2>6. c \in f.todo
    BY <1>1, <2>4, <2>5, HighestIs, FS_Subset DEF IsProblem
  <2>7. Dead(p, Grown(f, c))
    <3>1. DOMAIN g = DOMAIN f.assigned \cup {f.name}
      <4>1. 1..n = 1..(n - 1) \cup {n}
        BY <2>1
      <4> QED
        BY <2>3, <4>1 DEF Trail
    <3>2. \A m \in DOMAIN f.assigned : g[m] = f.assigned[m]
      <4> SUFFICES ASSUME NEW m \in DOMAIN f.assigned PROVE g[m] = f.assigned[m]
        OBVIOUS
      <4>1. PICK j \in 1..(n - 1) : m = st[j].name
        BY <2>3 DEF Trail
      <4>2. j \in 1..n
        BY <2>1
      <4> QED
        BY <2>3, <4>1, <4>2 DEF Trail
    <3>3. c \in p.universe[f.name]
      BY <2>5, <2>6
    <3>4. \A h : Continues(h, Grown(f, c)) => Continues(h, g)
      <4> HIDE DEF c, f, p
      <4>1. Extended(p, f.assigned, f.name, c, Grown(f, c))
        BY <1>1, <2>5, <3>3, GrownIs
      <4> QED
        BY <2>4, <3>1, <3>2, <4>1 DEF Continues, Extended
    <3> QED
      BY <3>4 DEF Dead
  <2>8. e \in Frames(p) /\ e.name = f.name /\ e.asked = f.asked /\ e.assigned = f.assigned /\ e.todo = f.todo \ {c}
    BY <2>1 DEF Frames
  <2>9. FrameOK(p, e)
    <3>1. \A d : Grown(e, d) = Grown(f, d)
      BY <2>8 DEF Grown
    <3>2. \A d \in p.universe[f.name] \ e.todo : Dead(p, Grown(f, d))
      BY <2>3, <2>7, <2>8 DEF FrameOK
    <3> QED
      BY <2>3, <2>8, <3>1, <3>2 DEF FrameOK
  <2>10. /\ t \in Seq(Frames(p)) /\ Len(t) = n /\ t # <<>>
         /\ \A i \in 1..n : t[i] = IF i = n THEN e ELSE st[i]
    <3>1. n \in 1..Len(st)
      BY <2>1
    <3>2. t \in Seq(Frames(p)) /\ Len(t) = n /\ \A i \in 1..n : t[i] = IF i = n THEN e ELSE st[i]
      BY <1>1, <2>8, <3>1, ExceptSeq
    <3> QED
      BY <2>1, <3>2, EmptySeq
  <2> HIDE DEF t, e
  <2>11. StackOK(p, t)
    <3> SUFFICES ASSUME NEW i \in 1..n PROVE FrameOK(p, t[i]) /\ Trail(t, i - 1, t[i].assigned)
      BY <2>10 DEF StackOK
    <3>1. FrameOK(p, st[i]) /\ Trail(st, i - 1, st[i].assigned)
      BY <1>1 DEF StackOK
    <3>2. \A j \in 1..(i - 1) : t[j] = st[j]
      BY <2>1, <2>10
    <3>3. t[i].assigned = st[i].assigned
      BY <2>8, <2>10
    <3> QED
      BY <2>9, <2>10, <3>1, <3>2, <3>3 DEF Trail
  <2> QED
    BY <1>1, <2>2, <2>10, <2>11 DEF SearchOK, Searches
<1> QED
  BY <1>2, <1>3

\* When a whole call fails, so does the candidate it was made for.
LEMMA GiveUpOK ==
    ASSUME NEW s, Searching(s), s.stack # <<>>, Dead(s.problem, Last(s.stack).assigned)
    PROVE  SearchOK(GiveUp(s))
<1> DEFINE p == s.problem
           n == Len(s.stack)
           r == [s EXCEPT !.stack = Front(@)]
           g == Last(s.stack).assigned
<1>1. IsProblem(p) /\ s \in Searches(p) /\ s.stack \in Seq(Frames(p)) /\ s.out = "solving" /\ StackOK(p, s.stack)
  BY DEF Searching, Searches
<1>2. /\ n \in Nat /\ n > 0 /\ Last(s.stack) = s.stack[n]
      /\ Front(s.stack) \in Seq(Frames(p)) /\ Len(Front(s.stack)) = n - 1
      /\ \A i \in 1..(n - 1) : Front(s.stack)[i] = s.stack[i]
  BY <1>1, TopIs
<1>3. r \in Searches(p) /\ r.problem = p /\ r.stack = Front(s.stack) /\ r.out = "solving"
  BY <1>1, <1>2 DEF Searches
<1>4. \A i \in 1..(n - 1) : /\ FrameOK(p, s.stack[i]) /\ Trail(s.stack, i - 1, s.stack[i].assigned)
                            /\ \A j \in 1..(i - 1) : j \in 1..(n - 1)
  BY <1>1, <1>2 DEF StackOK
<1>5. StackOK(p, Front(s.stack))
  <2> SUFFICES ASSUME NEW i \in 1..(n - 1)
               PROVE  FrameOK(p, Front(s.stack)[i]) /\ Trail(Front(s.stack), i - 1, Front(s.stack)[i].assigned)
    BY <1>2 DEF StackOK
  <2>1. \A j \in 1..(i - 1) : Front(s.stack)[j] = s.stack[j]
    BY <1>2, <1>4
  <2> QED
    BY <1>2, <1>4, <2>1, SameTrail
<1>6. Trail(s.stack, n - 1, g)
  BY <1>1, <1>2 DEF StackOK
<1>7. Trail(Front(s.stack), n - 1, g)
  BY <1>2, <1>6, SameTrail
<1>8. Searching(r) /\ Trail(r.stack, Len(r.stack), g) /\ Dead(r.problem, g)
  BY <1>1, <1>2, <1>3, <1>5, <1>7 DEF Searching
<1>9. GiveUp(s) = Rejected(r)
  BY DEF GiveUp
<1> HIDE DEF r, g
<1> QED
  BY <1>8, <1>9, RejectedOK

\* A call of backtrack.
LEMMA BacktrackOK ==
    ASSUME NEW s, Searching(s), NEW asked, NEW g, Made(s.problem, asked, g), asked \subseteq Asks(s.problem),
           Trail(s.stack, Len(s.stack), g)
    PROVE  SearchOK(Backtrack(s, asked, g))
<1> DEFINE p == s.problem
           st == s.stack
           n == Len(st)
           open == {a.name : a \in asked} \ DOMAIN g
           name == Min(open)
<1>1. IsProblem(p) /\ s \in Searches(p) /\ st \in Seq(Frames(p)) /\ s.out = "solving" /\ StackOK(p, st)
  BY DEF Searching, Searches
<1>2. CASE open = {}
  <2>1. Backtrack(s, asked, g) = [s EXCEPT !.out = "solved", !.answer = g]
    BY <1>2 DEF Backtrack
  <2>2. g \in Picks(p) /\ \A a \in asked : a.name \in DOMAIN g
    BY <1>2 DEF Made
  <2> QED
    BY <1>1, <2>1, <2>2 DEF SearchOK, Searches
<1>3. CASE open # {}
  <2>1. open \subseteq Nat
    BY <1>1 DEF IsProblem
  <2>2. name \in open
    <3> HIDE DEF open
    <3> QED
      BY <1>3, <2>1, MinIsLeast
  <2>3. PICK a \in asked : a.name = name /\ name \notin DOMAIN g
    BY <2>2
  <2> HIDE DEF name
  <2>4. CASE name \notin Names(p)
    <3>1. Dead(p, g)
      <4> SUFFICES ASSUME NEW h \in Picks(p), Continues(h, g), IsSolution(p, h) PROVE FALSE
        BY DEF Dead
      <4>1. name \in DOMAIN h
        BY <1>1, <2>3, AskedIsMet
      <4> QED
        BY <1>1, <2>4, <4>1, PicksAre
    <3>2. Backtrack(s, asked, g) = Rejected(s)
      BY <1>3, <2>4 DEF Backtrack, Names, name
    <3> QED
      BY <3>1, <3>2, RejectedOK
  <2>5. CASE name \in Names(p)
    <3> DEFINE f == [name |-> name, asked |-> asked, assigned |-> g, todo |-> p.universe[name]]
               t == Append(st, f)
    <3>1. Backtrack(s, asked, g) = [s EXCEPT !.stack = t]
      BY <1>1, <1>3, <2>5 DEF Backtrack, Names, name, Searches
    <3>2. f \in Frames(p)
      BY <2>5 DEF Frames, Made
    <3>3. FrameOK(p, f)
      BY <2>3 DEF FrameOK
    <3> HIDE DEF f
    <3>4. /\ t \in Seq(Frames(p)) /\ t # <<>> /\ Len(t) = n + 1 /\ n \in Nat
          /\ t[n + 1] = f /\ \A i \in 1..n : t[i] = st[i]
      BY <1>1, <3>2, AppendProperties, LenProperties
    <3>5. f.assigned = g
      BY DEF f
    <3> HIDE DEF t
    <3>6. StackOK(p, t)
      <4> SUFFICES ASSUME NEW i \in 1..(n + 1) PROVE FrameOK(p, t[i]) /\ Trail(t, i - 1, t[i].assigned)
        BY <3>4 DEF StackOK
      <4>1. CASE i = n + 1
        <5>1. Trail(t, n, g)
          BY <3>4, SameTrail
        <5>2. i - 1 = n
          BY <3>4, <4>1
        <5> QED
          BY <3>3, <3>4, <3>5, <4>1, <5>1, <5>2
      <4>2. CASE i # n + 1
        <5>1. i \in 1..n /\ \A j \in 1..(i - 1) : j \in 1..n
          BY <3>4, <4>2
        <5>2. FrameOK(p, st[i]) /\ Trail(st, i - 1, st[i].assigned)
          BY <1>1, <5>1 DEF StackOK
        <5> QED
          BY <3>4, <5>1, <5>2, SameTrail
      <4> QED
        BY <4>1, <4>2
    <3> QED
      BY <1>1, <3>1, <3>4, <3>6 DEF SearchOK, Searches
  <2> QED
    BY <2>4, <2>5
<1> QED
  BY <1>2, <1>3

\* The first call is made with the demands and nothing assigned.
LEMMA SolveOK == ASSUME NEW p, IsProblem(p) PROVE SearchOK(Solve(p)) /\ Solve(p).problem = p
<1> DEFINE s == [NotSolving EXCEPT !.problem = p, !.out = "solving"]
<1>1. s = [problem |-> p, stack |-> <<>>, answer |-> <<>>, out |-> "solving"]
  <2>1. NotSolving = [problem |-> NoProblem, stack |-> <<>>, answer |-> <<>>, out |-> "none"]
    BY DEF NotSolving
  <2>2. [NotSolving EXCEPT !.problem = p] = [problem |-> p, stack |-> <<>>, answer |-> <<>>, out |-> "none"]
    BY <2>1
  <2>3. s = [[NotSolving EXCEPT !.problem = p] EXCEPT !.out = "solving"]
    OBVIOUS
  <2> HIDE DEF s
  <2> QED
    BY <2>2, <2>3
<1>2. <<>> \in Picks(p) /\ DOMAIN <<>> = {}
  BY EmptyPick
<1>3. <<>> \in Seq(Frames(p)) /\ Len(<<>>) = 0
  BY EmptySeq
<1>4. s \in Searches(p)
  BY <1>1, <1>2, <1>3 DEF Searches
<1>5. StackOK(p, <<>>) /\ Trail(<<>>, 0, <<>>)
  BY <1>2, <1>3 DEF StackOK, Trail
<1>6. Made(p, p.demands, <<>>) /\ p.demands \subseteq Asks(p)
  BY <1>2 DEF Made, Asks
<1>7. Searching(s) /\ s.problem = p /\ Trail(s.stack, Len(s.stack), <<>>)
  BY <1>1, <1>3, <1>4, <1>5 DEF Searching
<1>8. Solve(p) = Backtrack(s, p.demands, <<>>)
  BY DEF Solve
<1> HIDE DEF s
<1>9. SearchOK(Solve(p))
  BY <1>6, <1>7, <1>8, BacktrackOK
<1>10. Solve(p).problem = p
  <2>1. s = [problem |-> p, stack |-> <<>>, answer |-> <<>>, out |-> "solving"]
    BY <1>1
  <2> QED
    BY <1>8, <2>1 DEF Backtrack, Rejected
<1> QED
  BY <1>9, <1>10

\* A candidate without a conflict makes the next call.
LEMMA NextCall ==
    ASSUME NEW p, IsProblem(p), NEW f \in Frames(p), FrameOK(p, f), NEW c, c \in p.universe[f.name],
           NEW g, Extended(p, f.assigned, f.name, c, g),
           SatisfiesAll(c.version, f.name, f.asked), Conflicts(c.deps, g) = {}
    PROVE  Made(p, f.asked \cup Range(c.deps), g) /\ f.asked \cup Range(c.deps) \subseteq Asks(p)
<1> DEFINE asked == f.asked \cup Range(c.deps)
<1>1. /\ Made(p, f.asked, f.assigned) /\ f.name \notin DOMAIN f.assigned
      /\ f.name \in Names(p) /\ f.asked \subseteq Asks(p)
  BY DEF FrameOK, Frames
<1>2. /\ g \in Picks(p) /\ DOMAIN g = DOMAIN f.assigned \cup {f.name} /\ g[f.name] = c.version
      /\ \A m \in DOMAIN f.assigned : g[m] = f.assigned[m]
      /\ Chosen(p, g, f.name) = c
      /\ \A m \in DOMAIN f.assigned : Chosen(p, g, m) = Chosen(p, f.assigned, m)
  BY DEF Extended
<1>3. asked \subseteq Asks(p)
  BY <1>1 DEF Asks
<1>4. asked = p.demands \cup UNION {Range(Chosen(p, g, n).deps) : n \in DOMAIN g}
  <2>1. f.asked = p.demands \cup UNION {Range(Chosen(p, f.assigned, n).deps) : n \in DOMAIN f.assigned}
    BY <1>1 DEF Made
  <2>2. UNION {Range(Chosen(p, g, n).deps) : n \in DOMAIN g}
        = (UNION {Range(Chosen(p, g, n).deps) : n \in DOMAIN f.assigned}) \cup Range(Chosen(p, g, f.name).deps)
    BY <1>2
  <2>3. {Range(Chosen(p, g, n).deps) : n \in DOMAIN f.assigned}
        = {Range(Chosen(p, f.assigned, n).deps) : n \in DOMAIN f.assigned}
    BY <1>2
  <2> QED
    BY <1>2, <2>1, <2>2, <2>3
<1>5. ASSUME NEW a \in asked, a.name \in DOMAIN g PROVE Satisfies(a.con, g[a.name])
  <2>1. CASE a \in f.asked /\ a.name = f.name
    BY <1>2, <2>1 DEF SatisfiesAll
  <2>2. CASE a \in f.asked /\ a.name \in DOMAIN f.assigned
    <3>1. Satisfies(a.con, f.assigned[a.name])
      BY <1>1, <2>2 DEF Made
    <3> QED
      BY <1>2, <2>2, <3>1
  <2>3. CASE a \in Range(c.deps)
    <3>1. PICK i \in DOMAIN c.deps : a = c.deps[i]
      BY <2>3 DEF Range
    <3> QED
      BY <1>5, <3>1 DEF Conflicts
  <2> QED
    BY <1>2, <1>5, <2>1, <2>2, <2>3
<1>6. ASSUME NEW n \in DOMAIN g
      PROVE  \/ n \in {d.name : d \in p.demands}
             \/ \E m \in DOMAIN g \ {n} : \E i \in DOMAIN Chosen(p, g, m).deps : Chosen(p, g, m).deps[i].name = n
  <2>1. CASE n \in DOMAIN f.assigned
    <3>1. \/ n \in {d.name : d \in p.demands}
          \/ \E m \in DOMAIN f.assigned \ {n} : \E i \in DOMAIN Chosen(p, f.assigned, m).deps :
                 Chosen(p, f.assigned, m).deps[i].name = n
      BY <1>1, <2>1 DEF Made
    <3>2. CASE \E m \in DOMAIN f.assigned \ {n} : \E i \in DOMAIN Chosen(p, f.assigned, m).deps :
                 Chosen(p, f.assigned, m).deps[i].name = n
      <4>1. PICK m \in DOMAIN f.assigned \ {n} : \E i \in DOMAIN Chosen(p, f.assigned, m).deps :
                 Chosen(p, f.assigned, m).deps[i].name = n
        BY <3>2
      <4>2. m \in DOMAIN g \ {n} /\ Chosen(p, g, m) = Chosen(p, f.assigned, m)
        BY <1>2, <4>1
      <4> QED
        BY <4>1, <4>2
    <3> QED
      BY <3>1, <3>2
  <2>2. CASE n = f.name
    <3>1. PICK a \in f.asked : a.name = n
      BY <2>2 DEF FrameOK
    <3>2. CASE a \in p.demands
      BY <3>1, <3>2
    <3>3. CASE \E m \in DOMAIN f.assigned : a \in Range(Chosen(p, f.assigned, m).deps)
      <4>1. PICK m \in DOMAIN f.assigned : a \in Range(Chosen(p, f.assigned, m).deps)
        BY <3>3
      <4>2. m \in DOMAIN g \ {n} /\ Chosen(p, g, m) = Chosen(p, f.assigned, m)
        BY <1>1, <1>2, <2>2, <4>1
      <4>3. \E i \in DOMAIN Chosen(p, g, m).deps : Chosen(p, g, m).deps[i].name = n
        BY <3>1, <4>1, <4>2 DEF Range
      <4> QED
        BY <4>2, <4>3
    <3> QED
      BY <1>1, <3>1, <3>2, <3>3 DEF Made
  <2> QED
    BY <1>2, <2>1, <2>2
<1> QED
  BY <1>2, <1>3, <1>4, <1>5, <1>6 DEF Made

\* One candidate is tried.
LEMMA TriedOK ==
    ASSUME NEW s, SearchOK(s), s.out = "solving"
    PROVE  SearchOK(Tried(s)) /\ Tried(s).problem = s.problem
<1> DEFINE p == s.problem
           st == s.stack
           n == Len(st)
           f == Last(st)
           c == Highest(f.todo)
           g == Put(f.assigned, f.name, c.version)
           bad == Conflicts(c.deps, g)
<1>1. /\ IsProblem(p) /\ s \in Searches(p) /\ st \in Seq(Frames(p)) /\ StackOK(p, st) /\ st # <<>>
      /\ Searching(s)
  BY DEF SearchOK, Searching, Searches
<1>2. n \in Nat /\ n > 0 /\ f = st[n] /\ f \in Frames(p)
  BY <1>1, TopIs
<1>3. FrameOK(p, f) /\ Trail(st, n - 1, f.assigned)
  BY <1>1, <1>2 DEF StackOK
<1>4. /\ f.assigned \in Picks(p) /\ f.name \in Names(p) /\ f.name \notin DOMAIN f.assigned
      /\ f.todo \subseteq p.universe[f.name] /\ Made(p, f.asked, f.assigned)
  BY <1>2, <1>3 DEF Frames, FrameOK
<1>5. Tried(s).problem = p
  BY <1>1 DEF Tried, GiveUp, Rejected, Backtrack, Searches
<1>6. CASE f.todo = {}
  <2>1. Tried(s) = GiveUp(s)
    BY <1>6 DEF Tried
  <2>2. \A d \in p.universe[f.name] : Dead(p, Grown(f, d))
    BY <1>3, <1>6 DEF FrameOK
  <2>3. Dead(p, f.assigned)
    BY <1>1, <1>2, <1>3, <2>2, AllDead
  <2> QED
    BY <1>1, <1>5, <2>1, <2>3, GiveUpOK
<1>7. CASE f.todo # {}
  <2> HIDE DEF f
  <2>1. c \in f.todo /\ c \in p.universe[f.name]
    BY <1>1, <1>4, <1>7, HighestIs, FS_Subset DEF IsProblem
  <2>2. g = Grown(f, c)
    BY DEF Grown
  <2> HIDE DEF g
  <2>3. Extended(p, f.assigned, f.name, c, g)
    <3> HIDE DEF c, p
    <3> QED
      BY <1>1, <1>4, <2>1, <2>2, GrownIs
  <2>4. /\ g \in Picks(p) /\ DOMAIN g = DOMAIN f.assigned \cup {f.name} /\ g[f.name] = c.version
        /\ \A m \in DOMAIN f.assigned : g[m] = f.assigned[m]
        /\ Chosen(p, g, f.name) = c
    BY <2>3 DEF Extended
  <2>5. Trail(st, n, g)
    <3>1. 1..n = 1..(n - 1) \cup {n}
      BY <1>2
    <3>2. DOMAIN g = {st[j].name : j \in 1..n}
      BY <1>2, <1>3, <2>4, <3>1 DEF Trail
    <3>3. ASSUME NEW j \in 1..n PROVE st[j].todo # {} /\ g[st[j].name] = Highest(st[j].todo).version
      <4>1. CASE j = n
        BY <1>2, <1>7, <2>4, <4>1
      <4>2. CASE j # n
        <5>1. j \in 1..(n - 1)
          BY <1>2, <4>2
        <5>2. st[j].name \in DOMAIN f.assigned
          BY <1>3, <5>1 DEF Trail
        <5> QED
          BY <1>3, <2>4, <5>1, <5>2 DEF Trail
      <4> QED
        BY <4>1, <4>2
    <3> QED
      BY <3>2, <3>3 DEF Trail
  <2>6. \A h : Continues(h, g) => Continues(h, f.assigned) /\ f.name \in DOMAIN h /\ h[f.name] = c.version
    BY <2>4 DEF Continues
  <2>7. CASE ~SatisfiesAll(c.version, f.name, f.asked)
    <3>1. Tried(s) = Rejected(s)
      BY <1>7, <2>7 DEF Tried, f, g
    <3>2. PICK a \in f.asked : a.name = f.name /\ ~Satisfies(a.con, c.version)
      BY <2>7 DEF SatisfiesAll
    <3>3. Dead(p, g)
      <4> SUFFICES ASSUME NEW h \in Picks(p), Continues(h, g), IsSolution(p, h) PROVE FALSE
        BY DEF Dead
      <4>1. Continues(h, f.assigned) /\ h[f.name] = c.version
        BY <2>6
      <4>2. Satisfies(a.con, h[a.name])
        <5> HIDE DEF p, c
        <5> QED
          BY <1>1, <1>4, <4>1, AskedIsMet
      <4> QED
        BY <3>2, <4>1, <4>2
    <3> QED
      BY <1>1, <1>5, <2>5, <3>1, <3>3, RejectedOK
  <2>8. CASE SatisfiesAll(c.version, f.name, f.asked) /\ bad = {}
    <3>1. Tried(s) = Backtrack(s, f.asked \cup Range(c.deps), g)
      BY <1>7, <2>8 DEF Tried, f, g
    <3>2. Made(p, f.asked \cup Range(c.deps), g) /\ f.asked \cup Range(c.deps) \subseteq Asks(p)
      BY <1>1, <1>2, <1>3, <2>1, <2>3, <2>8, NextCall
    <3> QED
      BY <1>1, <1>5, <2>5, <3>1, <3>2, BacktrackOK
  <2>9. CASE SatisfiesAll(c.version, f.name, f.asked) /\ bad # {}
    <3> DEFINE i == Min(bad)
    <3>1. i \in bad /\ bad \subseteq DOMAIN c.deps
      <4>1. bad \subseteq DOMAIN c.deps /\ DOMAIN c.deps \subseteq Nat
        BY <1>1, <1>4, <2>1 DEF Conflicts, IsProblem
      <4> HIDE DEF bad
      <4> QED
        BY <2>9, <4>1, MinIsLeast
    <3>2. CASE c.deps[i].con = Malformed
      <4>1. Tried(s) = GiveUp(s)
        BY <1>7, <2>9, <3>2 DEF Tried, f, g
      <4>2. ~WellFormed(p)
        <5> HIDE DEF i, bad
        <5> QED
          BY <1>4, <2>1, <3>1, <3>2 DEF WellFormed
      <4>3. Dead(p, f.assigned)
        BY <4>2 DEF Dead
      <4> QED
        BY <1>1, <1>5, <4>1, <4>3, GiveUpOK DEF f
    <3>3. CASE c.deps[i].con # Malformed
      <4>1. Tried(s) = Rejected(s)
        BY <1>7, <2>9, <3>3 DEF Tried, f, g
      <4>2. c.deps[i].name \in DOMAIN g /\ ~Satisfies(c.deps[i].con, g[c.deps[i].name])
        <5>1. \A j \in bad : c.deps[j].con = Malformed \/ (c.deps[j].name \in DOMAIN g /\ ~Satisfies(c.deps[j].con, g[c.deps[j].name]))
          BY DEF Conflicts
        <5> HIDE DEF bad, i
        <5> QED
          BY <3>1, <3>3, <5>1
      <4>3. Dead(p, g)
        <5> SUFFICES ASSUME NEW h \in Picks(p), Continues(h, g), IsSolution(p, h) PROVE FALSE
          BY DEF Dead
        <5> HIDE DEF i, bad, c
        <5>1. f.name \in DOMAIN h /\ Chosen(p, h, f.name) = c
          BY <2>4, <2>6 DEF Chosen
        <5>2. i \in DOMAIN c.deps
          BY <3>1
        <5>3. Satisfies(c.deps[i].con, h[c.deps[i].name])
          BY <5>1, <5>2 DEF IsSolution
        <5>4. h[c.deps[i].name] = g[c.deps[i].name]
          BY <4>2 DEF Continues
        <5> QED
          BY <4>2, <5>3, <5>4
      <4> QED
        BY <1>1, <1>5, <2>5, <4>1, <4>3, RejectedOK
    <3> QED
      BY <3>2, <3>3
  <2> QED
    BY <2>7, <2>8, <2>9
<1> QED
  BY <1>6, <1>7

-----------------------------------------------------------------------------
\* What is solved satisfies everything, and has nothing needless in it.
LEMMA SolvedIsSound == ASSUME NEW s, SearchOK(s) PROVE Sound(s) /\ Needed(s)
<1> SUFFICES ASSUME s.out = "solved" PROVE Sound(s) /\ Needed(s)
  BY DEF Sound, Needed
<1> DEFINE p == s.problem
           g == s.answer
<1>1. PICK asked : Made(p, asked, g) /\ \A a \in asked : a.name \in DOMAIN g
  BY DEF SearchOK
<1>2. \A a \in asked : a.name \in DOMAIN g /\ Satisfies(a.con, g[a.name])
  BY <1>1 DEF Made
<1>3. \A n \in DOMAIN g : \A i \in DOMAIN Chosen(p, g, n).deps : Chosen(p, g, n).deps[i] \in asked
  BY <1>1 DEF Made, Range
<1>4. p.demands \subseteq asked
  BY <1>1 DEF Made
<1>5. IsSolution(p, g)
  BY <1>2, <1>3, <1>4 DEF IsSolution
<1> QED
  BY <1>1, <1>5 DEF Sound, Needed, Made

\* When nothing is found there is nothing.
LEMMA FailedIsComplete == ASSUME NEW s, SearchOK(s) PROVE Complete(s)
<1> SUFFICES ASSUME s.out = "failed", WellFormed(s.problem), NEW f \in Picks(s.problem)
             PROVE  ~IsSolution(s.problem, f)
  BY DEF Complete
<1>1. Continues(f, <<>>)
  BY EmptyPick DEF Continues
<1> QED
  BY <1>1 DEF SearchOK, Dead

\* No other solution is better where it first differs.
LEMMA SolvedIsHighest == ASSUME NEW s, SearchOK(s) PROVE HighestFirst(s)
<1> DEFINE p == s.problem
           st == s.stack
           name(i) == Decided(s)[i]
           D(h) == {i \in DOMAIN st : name(i) \in DOMAIN h => h[name(i)] # s.answer[name(i)]}
<1> SUFFICES ASSUME s.out = "solved", WellFormed(p), NEW h \in Picks(p), IsSolution(p, h), D(h) # {}
             PROVE  /\ name(Min(D(h))) \in DOMAIN h
                    /\ Compare(h[name(Min(D(h)))], s.answer[name(Min(D(h)))]) < 0
  BY DEF HighestFirst
<1>1. IsProblem(p) /\ st \in Seq(Frames(p)) /\ StackOK(p, st) /\ Trail(st, Len(st), s.answer)
  BY DEF SearchOK, Searches
<1>2. DOMAIN st = 1..Len(st) /\ Len(st) \in Nat /\ \A i \in 1..Len(st) : name(i) = st[i].name /\ st[i] \in Frames(p)
  BY <1>1, LenProperties, ElementOfSeq DEF Decided
<1> DEFINE k == Min(D(h))
           f == st[k]
<1>3. k \in D(h) /\ \A j \in D(h) : k <= j
  <2>1. D(h) \subseteq Nat
    BY <1>2
  <2> HIDE DEF D
  <2> QED
    BY <2>1, MinIsLeast
<1>4. k \in 1..Len(st)
  BY <1>2, <1>3
<1> HIDE DEF k
<1>5. \A j \in 1..(k - 1) : st[j].name \in DOMAIN h /\ h[st[j].name] = s.answer[st[j].name]
  <2> SUFFICES ASSUME NEW j \in 1..(k - 1)
               PROVE  st[j].name \in DOMAIN h /\ h[st[j].name] = s.answer[st[j].name]
    OBVIOUS
  <2>1. j \in 1..Len(st) /\ ~(k <= j)
    BY <1>2, <1>4
  <2>2. j \notin D(h)
    BY <1>3, <2>1
  <2> QED
    BY <1>2, <2>1, <2>2
<1>6. FrameOK(p, f) /\ Trail(st, k - 1, f.assigned) /\ f \in Frames(p)
  BY <1>1, <1>2, <1>4 DEF StackOK
<1>7. /\ f.assigned \in Picks(p) /\ f.name \in Names(p) /\ f.name \notin DOMAIN f.assigned
      /\ f.todo \subseteq p.universe[f.name] /\ Made(p, f.asked, f.assigned)
  BY <1>6 DEF Frames, FrameOK
<1>8. Continues(h, f.assigned)
  <2> SUFFICES ASSUME NEW m \in DOMAIN f.assigned PROVE m \in DOMAIN h /\ h[m] = f.assigned[m]
    BY DEF Continues
  <2>1. PICK j \in 1..(k - 1) : m = st[j].name
    BY <1>6 DEF Trail
  <2>2. j \in 1..Len(st)
    BY <1>2, <1>4
  <2>3. f.assigned[m] = Highest(st[j].todo).version /\ s.answer[m] = Highest(st[j].todo).version
    BY <1>1, <1>6, <2>1, <2>2 DEF Trail
  <2> QED
    BY <1>5, <2>1, <2>3
<1>9. f.name \in DOMAIN h
  <2>1. PICK a \in f.asked : a.name = f.name
    BY <1>6 DEF FrameOK
  <2> HIDE DEF p, f
  <2> QED
    BY <1>1, <1>7, <1>8, <2>1, AskedIsMet
<1>10. PICK c : c \in p.universe[f.name] /\ c.version = h[f.name]
  BY <1>1, <1>9, PicksAre
<1>11. c \in f.todo
  <2>1. Extended(p, f.assigned, f.name, c, Grown(f, c))
    <3> HIDE DEF p, f
    <3> QED
      BY <1>1, <1>7, <1>10, GrownIs
  <2>2. Continues(h, Grown(f, c))
    <3> HIDE DEF p, f
    <3> QED
      BY <1>8, <1>9, <1>10, <2>1 DEF Extended, Continues
  <2>3. ~Dead(p, Grown(f, c))
    BY <2>2 DEF Dead
  <2> QED
    BY <1>6, <1>10, <2>3 DEF FrameOK
<1>12. /\ Highest(f.todo) \in f.todo /\ Compare(Highest(f.todo).version, c.version) >= 0
       /\ IsVersion(c.version) /\ IsVersion(Highest(f.todo).version)
  <2>1. IsFiniteSet(f.todo) /\ \A d \in f.todo : IsVersion(d.version)
    BY <1>1, <1>7, FS_Subset DEF IsProblem
  <2> HIDE DEF f
  <2> QED
    BY <1>11, <2>1, HighestIs
<1>13. s.answer[f.name] = Highest(f.todo).version
  BY <1>1, <1>4 DEF Trail
<1>14. Highest(f.todo) # c
  BY <1>2, <1>3, <1>4, <1>9, <1>10, <1>13
<1>15. Compare(Highest(f.todo).version, c.version) # 0
  BY <1>1, <1>7, <1>11, <1>12, <1>14 DEF IsProblem
<1>16. Compare(c.version, Highest(f.todo).version) < 0
  <2>1. /\ Compare(c.version, Highest(f.todo).version) \in {-1, 0, 1}
        /\ Compare(Highest(f.todo).version, c.version) = - Compare(c.version, Highest(f.todo).version)
    BY <1>12, VersionOrder
  <2> QED
    BY <1>12, <1>15, <2>1
<1>17. name(k) = f.name
  BY <1>2, <1>4
<1> HIDE DEF f, name
<1> QED
  BY <1>9, <1>10, <1>13, <1>16, <1>17 DEF k

(***************************************************************************)
(* The commands                                                            *)
(***************************************************************************)

Known == Policyfiles \cup {Scaffold, NoPolicyfile, CutPolicyfile}
IsLoaded(loaded) ==
    DOMAIN loaded \subseteq Cookbooks /\ \A n \in DOMAIN loaded : \E i \in DOMAIN Content : loaded[n] = Loaded(i)
Asked(r, loaded) ==
    Problem([n \in DOMAIN loaded |-> {Candidate(loaded[n].version, loaded[n].deps)}], Demands(r, loaded))

\* The locals of a command, whatever it is.
Locals == {"at", "what", "rb", "left", "loaded", "lock", "files", "from", "sends", "dirty", "calm", "sides", "diff"}
IsCommand(c) == c = [x \in Locals |-> c[x]]
CommandOK(c) ==
    /\ IsCommand(c)
    /\ c.rb \in Known /\ c.left \subseteq Cookbooks /\ IsLoaded(c.loaded)
    /\ IsRevision(c.lock) /\ c.files \subseteq Files
    /\ c.at \in {"cookbook", "copy"} => c.left \subseteq DOMAIN c.lock.locks
    /\ c.at = "copy" => c.from \in DOMAIN c.lock.locks
    /\ \/ c.diff = {}
       \/ IsRevision(c.sides[1]) /\ IsRevision(c.sides[2]) /\ c.diff = {Diff(c.sides[1], c.sides[2])}

\* What is put to the solver is a problem.
LEMMA AskedIsProblem ==
    ASSUME NEW r \in Known, NEW loaded, IsLoaded(loaded)
    PROVE  IsProblem(Asked(r, loaded)) /\ Names(Asked(r, loaded)) = DOMAIN loaded
<1> DEFINE p == Asked(r, loaded)
<1>1. /\ p.universe = [n \in DOMAIN loaded |-> {Candidate(loaded[n].version, loaded[n].deps)}]
      /\ p.demands = Demands(r, loaded) /\ Names(p) = DOMAIN loaded
  BY DEF Asked, Problem, Names
<1>2. Cookbooks \subseteq Nat /\ \A i \in DOMAIN Content : IsContent(Content[i])
  BY WorkspaceAssumption
<1>3. ASSUME NEW n \in DOMAIN loaded
      PROVE  /\ p.universe[n] = {Candidate(loaded[n].version, loaded[n].deps)}
             /\ IsVersion(loaded[n].version) /\ DOMAIN loaded[n].deps \subseteq Nat
             /\ \A j \in DOMAIN loaded[n].deps : loaded[n].deps[j].name \in Nat
  <2>1. PICK i \in DOMAIN Content : loaded[n] = Loaded(i)
    BY DEF IsLoaded
  <2>2. IsContent(Content[i])
    BY <1>2
  <2>3. /\ loaded[n].version = Content[i].version /\ DOMAIN loaded[n].deps = DOMAIN Content[i].deps
        /\ \A j \in DOMAIN Content[i].deps :
              loaded[n].deps[j] = [Content[i].deps[j] EXCEPT !.con = IF @ = Malformed THEN @ ELSE Normalized(@)]
    BY <2>1 DEF Loaded
  <2>4. \A j \in DOMAIN Content[i].deps :
            /\ Content[i].deps[j] = [name |-> Content[i].deps[j].name, con |-> Content[i].deps[j].con]
            /\ Content[i].deps[j].name \in Nat
    BY <2>2 DEF IsContent, Range, Needs
  <2>5. \A j \in DOMAIN Content[i].deps : loaded[n].deps[j].name = Content[i].deps[j].name
    BY <2>3, <2>4
  <2>6. DOMAIN Content[i].deps \subseteq Nat
    <3>1. DOMAIN Content[i].deps = 1..Len(Content[i].deps) /\ Len(Content[i].deps) \in Nat
      BY <2>2, LenProperties DEF IsContent
    <3> QED
      BY <3>1
  <2> QED
    BY <1>1, <2>2, <2>3, <2>4, <2>5, <2>6 DEF IsContent
<1>4. ASSUME NEW a \in Demands(r, loaded) PROVE a.name \in Nat
  <2>1. DOMAIN r.specs \subseteq Cookbooks /\ \A i \in DOMAIN r.runlist : r.runlist[i].cookbook \in Nat
    <3>1. CASE r \in Policyfiles \cup {Scaffold}
      BY <3>1, WorkspaceAssumption DEF IsPolicyfile
    <3>2. CASE r \in {NoPolicyfile, CutPolicyfile}
      <4>1. r.specs = <<>> /\ r.runlist = <<>>
        BY <3>2 DEF NoPolicyfile, CutPolicyfile, Policyfile
      <4> QED
        BY <4>1, EmptySeq
    <3> QED
      BY <3>1, <3>2 DEF Known
  <2>2. a.name \in {r.runlist[i].cookbook : i \in DOMAIN r.runlist} \cup DOMAIN r.specs
    BY DEF Demands, Needs
  <2>3. CASE a.name \in DOMAIN r.specs
    BY <1>2, <2>1, <2>3
  <2>4. CASE a.name \in {r.runlist[i].cookbook : i \in DOMAIN r.runlist}
    BY <2>1, <2>4
  <2> QED
    BY <2>2, <2>3, <2>4
<1> HIDE DEF p
<1>5. ASSUME NEW a \in Asks(p) PROVE a.name \in Nat
  <2>1. CASE a \in p.demands
    BY <1>1, <1>4, <2>1
  <2>2. CASE \E n \in Names(p) : \E c \in p.universe[n] : a \in Range(c.deps)
    <3>1. PICK n \in DOMAIN loaded : \E c \in p.universe[n] : a \in Range(c.deps)
      BY <1>1, <2>2
    <3>2. a \in Range(loaded[n].deps)
      BY <1>3, <3>1 DEF Candidate
    <3> QED
      BY <1>3, <3>2 DEF Range
  <2> QED
    BY <2>1, <2>2 DEF Asks
<1>6. ASSUME NEW n \in Names(p)
      PROVE  /\ IsFiniteSet(p.universe[n])
             /\ \A c \in p.universe[n] : IsVersion(c.version) /\ DOMAIN c.deps \subseteq Nat
             /\ \A c, d \in p.universe[n] : Compare(c.version, d.version) = 0 => c = d
  <2>1. n \in DOMAIN loaded
    BY <1>1
  <2>2. p.universe[n] = {Candidate(loaded[n].version, loaded[n].deps)}
    BY <1>3, <2>1
  <2>3. IsFiniteSet(p.universe[n])
    BY <2>2, FS_Singleton
  <2>4. /\ Candidate(loaded[n].version, loaded[n].deps).version = loaded[n].version
        /\ Candidate(loaded[n].version, loaded[n].deps).deps = loaded[n].deps
    BY DEF Candidate
  <2> QED
    BY <1>3, <2>1, <2>2, <2>3, <2>4
<1>7. Names(p) \subseteq Nat
  BY <1>1, <1>2 DEF IsLoaded
<1> QED
  BY <1>1, <1>5, <1>6, <1>7 DEF IsProblem, p

\* A bundle and the server, but for what is in their files.
BundleTyped(b) ==
    /\ b = [x \in {"tree", "policies", "lock", "client", "half"} |-> b[x]]
    /\ IsRevision(b.lock) /\ \A l \in b.policies : IsRevision(l)
    /\ \A p \in DOMAIN b.tree : p[2] \in Of[p[1]] /\ b.tree[p] \in [Files -> {NoFile, CutFile} \cup Of[p[1]]]
ServerTyped(s) ==
    /\ s = [x \in {"artifacts", "revisions", "active"} |-> s[x]]
    /\ \A a \in DOMAIN s.artifacts : a[2] \in Of[a[1]]
    /\ \A a \in DOMAIN s.active :
          s.active[a] \in s.revisions /\ s.active[a].name = a[2] /\ IsRevision(s.active[a])
PastTyped(p) == p = [x \in {"edited", "fresh", "doubt", "killed", "commands", "edits", "cuts"} |-> p[x]]
TarballTyped(t) == t = [x \in {"target", "partial"} |-> t[x]]

\* What the export is copying is in the tree.
CopyInTree == cmd.at = "copy" => Pair(cmd.from) \in DOMAIN bundle.tree

\* The inductive type invariant.
TypeIInv ==
    /\ rb \in Known
    /\ DOMAIN disk = Cookbooks /\ \A n \in Cookbooks : disk[n] \in Of[n] \cup {0}
    /\ IsRevision(lockfile) /\ BundleTyped(bundle) /\ BundleTyped(archive)
    /\ TarballTyped(tarball) /\ ServerTyped(server) /\ PastTyped(past)
    /\ CommandOK(cmd) /\ CopyInTree
    /\ SearchOK(solver)
    /\ cmd.at = "solve" => solver.problem = Asked(cmd.rb, cmd.loaded)

LEMMA NotSolvingOK == SearchOK(NotSolving)
<1>1. NotSolving = [problem |-> NoProblem, stack |-> <<>>, answer |-> <<>>, out |-> "none"]
  BY DEF NotSolving
<1>2. NoProblem = [universe |-> <<>>, demands |-> {}]
  BY DEF NoProblem, Problem
<1>3. Names(NoProblem) = {} /\ Asks(NoProblem) = {}
  BY <1>2, EmptySeq DEF Names, Asks
<1>4. IsProblem(NoProblem)
  BY <1>3 DEF IsProblem
<1>5. <<>> \in Picks(NoProblem)
  BY EmptyPick
<1>6. <<>> \in Seq(Frames(NoProblem))
  BY EmptySeq
<1>7. NotSolving \in Searches(NoProblem)
  BY <1>1, <1>5, <1>6 DEF Searches
<1> QED
  BY <1>1, <1>4, <1>7 DEF SearchOK

LEMMA NoLockIs ==
    /\ IsRevision(NoLock) /\ IsRevision(CutLock) /\ NoLock.locks = <<>> /\ CutLock.locks = <<>>
    /\ Pairs(NoLock) = {} /\ Pairs(CutLock) = {}
<1>1. NoLock = [name |-> "absent", runlist |-> <<>>, locks |-> <<>>, attrs |-> <<>>]
  BY DEF NoLock, Lock
<1>2. CutLock = [name |-> "cut", runlist |-> <<>>, locks |-> <<>>, attrs |-> <<>>]
  BY DEF CutLock, Lock
<1>3. DOMAIN <<>> = {}
  BY EmptySeq
<1>4. NoLock.locks = <<>> /\ CutLock.locks = <<>>
  BY <1>1, <1>2
<1> QED
  BY <1>1, <1>2, <1>3, <1>4 DEF IsRevision, Lock, Pairs

LEMMA NoBundleIs ==
    /\ BundleTyped(NoBundle) /\ BundleTyped(CutBundle)
    /\ NoBundle.lock = NoLock /\ CutBundle.lock = NoLock /\ NoBundle.tree = <<>> /\ CutBundle.tree = <<>>
    /\ NoBundle.half = {} /\ CutBundle.half = {}
<1>1. NoBundle = [tree |-> <<>>, policies |-> {}, lock |-> NoLock, client |-> "absent", half |-> {}]
  BY DEF NoBundle
<1>2. CutBundle = [tree |-> <<>>, policies |-> {}, lock |-> NoLock, client |-> "cut", half |-> {}]
  <2>1. \A b : b = [tree |-> b.tree, policies |-> b.policies, lock |-> b.lock, client |-> b.client, half |-> b.half]
               => [b EXCEPT !.client = "cut"] = [tree |-> b.tree, policies |-> b.policies, lock |-> b.lock,
                                                 client |-> "cut", half |-> b.half]
    OBVIOUS
  <2> DEFINE n == NoBundle
  <2>2. /\ n.tree = <<>> /\ n.policies = {} /\ n.lock = NoLock /\ n.half = {}
        /\ n = [tree |-> n.tree, policies |-> n.policies, lock |-> n.lock, client |-> n.client, half |-> n.half]
    BY <1>1
  <2>3. CutBundle = [n EXCEPT !.client = "cut"]
    BY DEF CutBundle
  <2> HIDE DEF n
  <2> QED
    BY <2>1, <2>2, <2>3
<1>3. DOMAIN <<>> = {}
  BY EmptySeq
<1> QED
  BY <1>1, <1>2, <1>3, NoLockIs DEF BundleTyped

LEMMA RestingIs ==
    /\ CommandOK(Resting) /\ Resting.at = "end" /\ Resting.diff = {} /\ Resting.lock = NoLock
    /\ \A w : CommandOK([Resting EXCEPT !.at = "begin", !.what = w])
<1>1. Resting = [at |-> "end", what |-> Command("none", {}, "", <<>>), rb |-> NoPolicyfile, left |-> {},
            loaded |-> <<>>, lock |-> NoLock, files |-> {}, from |-> 0, sends |-> <<>>, dirty |-> {}, calm |-> TRUE,
            sides |-> <<>>, diff |-> {}]
  BY DEF Resting
<1>2. NoPolicyfile \in Known
  BY DEF Known
<1>3. IsLoaded(<<>>)
  BY EmptySeq DEF IsLoaded
<1>4. CommandOK(Resting)
  BY <1>1, <1>2, <1>3, NoLockIs DEF CommandOK, IsCommand, Locals
<1>5. ASSUME NEW w PROVE CommandOK([Resting EXCEPT !.at = "begin", !.what = w])
  <2> DEFINE c == [Resting EXCEPT !.at = "begin", !.what = w]
  <2>1. IsCommand(c) /\ \A x \in Locals \ {"at", "what"} : c[x] = Resting[x]
    BY <1>4 DEF CommandOK, IsCommand, Locals
  <2>2. c.at = "begin"
    BY <1>4 DEF CommandOK, IsCommand, Locals
  <2> HIDE DEF c
  <2>3. c.rb = Resting.rb /\ c.left = Resting.left /\ c.loaded = Resting.loaded /\ c.lock = Resting.lock
        /\ c.files = Resting.files /\ c.diff = Resting.diff /\ Resting.diff = {}
    BY <1>1, <2>1 DEF Locals
  <2>4. CommandOK(c)
    BY <1>4, <2>1, <2>2, <2>3 DEF CommandOK
  <2> QED
    BY <2>4 DEF c
<1> QED
  BY <1>1, <1>4, <1>5

\* A command that only goes on.
LEMMA GoingOn == ASSUME NEW c, CommandOK(c), NEW x, x \notin {"copy", "cookbook"} PROVE CommandOK([c EXCEPT !.at = x])
<1> DEFINE d == [c EXCEPT !.at = x]
<1>1. IsCommand(d) /\ d.at = x /\ \A y \in Locals \ {"at"} : d[y] = c[y]
  BY DEF CommandOK, IsCommand, Locals
<1> HIDE DEF d
<1>2. d.rb = c.rb /\ d.left = c.left /\ d.loaded = c.loaded /\ d.lock = c.lock /\ d.files = c.files
      /\ d.diff = c.diff /\ d.sides = c.sides
  BY <1>1 DEF Locals
<1>3. CommandOK(d)
  BY <1>1, <1>2 DEF CommandOK
<1> QED
  BY <1>3 DEF d

\* What each variable is written by.
LEMMA Writers ==
    ASSUME [Next]_vars
    PROVE  /\ rb' = rb \/ Create \/ EditPolicyfile
           /\ disk' = disk \/ EditCookbook
           /\ lockfile' = lockfile \/ DeleteLock \/ InstallWrite
           /\ bundle' = bundle \/ ExportCookbook \/ CopyFile \/ Copies \/ ExportPolicy \/ ExportLock \/ ExportClient
           /\ archive' = archive \/ ExportTar
           /\ tarball' = tarball \/ DownloadBegin \/ DownloadStream \/ DownloadRename
           /\ server' = server \/ Send
           /\ solver' = solver \/ Start \/ InstallSolve \/ SolverStep \/ InstallSolved
<1> USE DEF vars, files, Same, Refuse
<1>1. CASE UNCHANGED vars
  BY <1>1
<1>2. CASE Create \/ InstallRead \/ PrepareEngine \/ CopySiblings \/ Evaluate
  BY <1>2 DEF Create, InstallRead, PrepareEngine, CopySiblings, Evaluate
<1>3. CASE InstallLoad
  BY <1>3 DEF InstallLoad
<1>4. CASE InstallSolve \/ SolverStep \/ InstallSolved
  BY <1>4 DEF InstallSolve, SolverStep, InstallSolved
<1>5. CASE InstallIdentify \/ InstallWrite
  BY <1>5 DEF InstallIdentify, InstallWrite
<1>6. CASE Export \/ ExportCookbook
  BY <1>6 DEF Export, ExportCookbook
<1>7. CASE CopyFile \/ Copies
  BY <1>7 DEF CopyFile, Copies
<1>8. CASE ExportPolicy \/ ExportLock \/ ExportClient
  BY <1>8 DEF ExportPolicy, ExportLock, ExportClient, ExportWrite
<1>9. CASE ExportTar
  BY <1>9 DEF ExportTar
<1>10. CASE Push
  BY <1>10 DEF Push
<1>11. CASE PushArchive
  BY <1>11 DEF PushArchive
<1>12. CASE Send
  BY <1>12 DEF Send
<1>13. CASE PolicyDiffCommand
  BY <1>13 DEF PolicyDiffCommand
<1>14. CASE DownloadBegin \/ DownloadStream \/ DownloadRename
  BY <1>14 DEF DownloadBegin, DownloadStream, DownloadRename, Tarballs
<1>15. CASE Start \/ EditCookbook \/ EditPolicyfile \/ DeleteLock \/ Kill
  BY <1>15 DEF Start, EditCookbook, EditPolicyfile, DeleteLock, Kill
<1> QED
  BY <1>1, <1>2, <1>3, <1>4, <1>5, <1>6, <1>7, <1>8, <1>9, <1>10, <1>11, <1>12, <1>13, <1>14, <1>15
  DEF Next, Step, User

\* A command with some of its locals set.
Sets(d, c, X) == IsCommand(d) /\ \A x \in Locals \ X : d[x] = c[x]
LEMMA OthersKept ==
    ASSUME NEW c, NEW d, NEW X, Sets(d, c, X)
    PROVE  /\ "at" \notin X => d.at = c.at
           /\ "what" \notin X => d.what = c.what
           /\ "rb" \notin X => d.rb = c.rb
           /\ "left" \notin X => d.left = c.left
           /\ "loaded" \notin X => d.loaded = c.loaded
           /\ "lock" \notin X => d.lock = c.lock
           /\ "files" \notin X => d.files = c.files
           /\ "from" \notin X => d.from = c.from
           /\ "sends" \notin X => d.sends = c.sends
           /\ "dirty" \notin X => d.dirty = c.dirty
           /\ "calm" \notin X => d.calm = c.calm
           /\ "sides" \notin X => d.sides = c.sides
           /\ "diff" \notin X => d.diff = c.diff
BY DEF Sets, Locals

\* One local set, or a local of the lock.
\* Min of what is left is one of it.
LEMMA NextLeft ==
    ASSUME NEW c, CommandOK(c), c.left # {}
    PROVE  Min(c.left) \in c.left /\ Min(c.left) \in Cookbooks
<1>1. c.left \subseteq Cookbooks /\ Cookbooks \subseteq Nat
  BY WorkspaceAssumption DEF CommandOK
<1> QED
  BY <1>1, MinIsLeast

\* The cookbooks on disk are known.
LEMMA OnDisk ==
    ASSUME TypeIInv, NEW n \in Cookbooks, disk[n] # 0
    PROVE  disk[n] \in Of[n] /\ disk[n] \in DOMAIN Content /\ Content[disk[n]].files \subseteq Files
<1>1. disk[n] \in Of[n]
  BY DEF TypeIInv
<1>2. disk[n] \in DOMAIN Content
  BY <1>1, WorkspaceAssumption
<1> QED
  BY <1>1, <1>2 DEF Files

LEMMA InstallLoadOK ==
    ASSUME TypeIInv, InstallLoad PROVE CommandOK(cmd')
<1> DEFINE n == Min(cmd.left)
<1>0. CommandOK(cmd)
  BY DEF TypeIInv
<1>1. CASE cmd' = Resting
  BY <1>1, RestingIs
<1>2. CASE cmd' # Resting
  <2>1. /\ cmd.left # {} /\ disk[n] # 0
        /\ cmd' = [cmd EXCEPT !.left = @ \ {n}, !.loaded = Put(@, n, Loaded(disk[n]))]
    BY <1>2 DEF InstallLoad, Refuse, Ends, Goes
  <2>2. n \in Cookbooks
    BY <1>0, <2>1, NextLeft
  <2> HIDE DEF n
  <2>3. /\ Sets(cmd', cmd, {"left", "loaded"}) /\ cmd'.left = cmd.left \ {n}
        /\ cmd'.loaded = Put(cmd.loaded, n, Loaded(disk[n]))
    BY <1>0, <2>1 DEF CommandOK, IsCommand, Locals, Sets
  <2>4. IsLoaded(cmd'.loaded)
    <3>1. disk[n] \in DOMAIN Content
      BY <2>1, <2>2, OnDisk
    <3>2. IsLoaded(cmd.loaded)
      BY <1>0 DEF CommandOK
    <3>3. DOMAIN cmd'.loaded = DOMAIN cmd.loaded \cup {n} /\ cmd'.loaded[n] = Loaded(disk[n])
          /\ \A x \in DOMAIN cmd.loaded : x # n => cmd'.loaded[x] = cmd.loaded[x]
      BY <2>3 DEF Put
    <3> QED
      BY <2>2, <3>1, <3>2, <3>3 DEF IsLoaded
  <2> QED
    BY <1>0, <2>3, <2>4, OthersKept DEF CommandOK, Sets
<1> QED
  BY <1>1, <1>2

LEMMA InstallSolvedOK ==
    ASSUME TypeIInv, InstallSolved PROVE CommandOK(cmd')
<1>0. CommandOK(cmd) /\ SearchOK(solver) /\ solver.problem = Asked(cmd.rb, cmd.loaded)
  BY DEF TypeIInv, InstallSolved, At
<1>1. CASE cmd' = Resting
  BY <1>1, RestingIs
<1>2. CASE cmd' # Resting
  <2> DEFINE l == Lock(cmd.rb.name, [i \in DOMAIN cmd.rb.runlist |-> Normal(cmd.rb.runlist[i])], <<>>, cmd.rb.attrs)
  <2>1. cmd' = [cmd EXCEPT !.at = "identify", !.left = DOMAIN solver.answer, !.lock = l]
    BY <1>2 DEF InstallSolved, Ends, Goes
  <2>2. DOMAIN solver.answer \subseteq Cookbooks
    <3>1. IsProblem(solver.problem) /\ solver.answer \in Picks(solver.problem)
      BY <1>0 DEF SearchOK, Searches
    <3>2. DOMAIN solver.answer \subseteq Names(solver.problem)
      BY <3>1, PicksAre
    <3> QED
      BY <1>0, <3>2, AskedIsProblem DEF CommandOK, IsLoaded
  <2>3. IsRevision(l)
    BY EmptySeq DEF IsRevision, Lock
  <2> HIDE DEF l
  <2>4. /\ Sets(cmd', cmd, {"at", "left", "lock"}) /\ cmd'.at = "identify" /\ cmd'.left = DOMAIN solver.answer
        /\ cmd'.lock = l
    BY <1>0, <2>1 DEF CommandOK, IsCommand, Locals, Sets
  <2> QED
    BY <1>0, <2>2, <2>3, <2>4, OthersKept DEF CommandOK, Sets
<1> QED
  BY <1>1, <1>2

LEMMA InstallIdentifyOK ==
    ASSUME TypeIInv, InstallIdentify PROVE CommandOK(cmd')
<1> DEFINE n == Min(cmd.left)
           entry == [version |-> Verbatim(cmd.loaded[n].version), id |-> disk[n]]
<1>0. CommandOK(cmd)
  BY DEF TypeIInv
<1>1. CASE cmd' = Resting
  BY <1>1, RestingIs
<1>2. CASE cmd' # Resting
  <2>1. /\ cmd.left # {} /\ disk[n] # 0 /\ cmd.at = "identify"
        /\ cmd' = [cmd EXCEPT !.left = @ \ {n}, !.dirty = @ \ {n}, !.lock.locks = Put(@, n, entry)]
    BY <1>2 DEF InstallIdentify, Refuse, Ends, Goes, At
  <2>2. n \in Cookbooks
    BY <1>0, <2>1, NextLeft
  <2>3. disk[n] \in Of[n]
    BY <2>1, <2>2, OnDisk
  <2>4. entry = [version |-> entry.version, id |-> entry.id] /\ entry.id \in Of[n]
    BY <2>3
  <2> HIDE DEF n, entry
  <2>5. /\ Sets(cmd', cmd, {"left", "dirty", "lock"}) /\ cmd'.left = cmd.left \ {n}
        /\ cmd'.lock = [cmd.lock EXCEPT !.locks = Put(@, n, entry)]
    BY <1>0, <2>1 DEF CommandOK, IsCommand, Locals, Sets
  <2>6. IsRevision(cmd'.lock)
    <3>1. IsRevision(cmd.lock)
      BY <1>0 DEF CommandOK
    <3>2. DOMAIN Put(cmd.lock.locks, n, entry) = DOMAIN cmd.lock.locks \cup {n} /\ Put(cmd.lock.locks, n, entry)[n] = entry
          /\ \A x \in DOMAIN cmd.lock.locks : x # n => Put(cmd.lock.locks, n, entry)[x] = cmd.lock.locks[x]
      BY DEF Put
    <3>3. /\ cmd'.lock.locks = Put(cmd.lock.locks, n, entry)
          /\ cmd'.lock = Lock(cmd'.lock.name, cmd'.lock.runlist, cmd'.lock.locks, cmd'.lock.attrs)
      BY <2>5, <3>1 DEF IsRevision, Lock
    <3> QED
      BY <2>2, <2>4, <3>1, <3>2, <3>3 DEF IsRevision
  <2> QED
    BY <1>0, <2>1, <2>5, <2>6, OthersKept DEF CommandOK, Sets
<1> QED
  BY <1>1, <1>2

LEMMA InstallReadOK ==
    ASSUME TypeIInv, InstallRead PROVE CommandOK(cmd')
<1>0. CommandOK(cmd) /\ rb \in Known
  BY DEF TypeIInv
<1>1. CASE cmd' = Resting
  BY <1>1, RestingIs
<1>2. CASE cmd' # Resting
  <2>1. cmd' = [cmd EXCEPT !.at = "prepare", !.rb = rb]
    BY <1>2 DEF InstallRead, Refuse, Ends, Goes
  <2>2. Sets(cmd', cmd, {"at", "rb"}) /\ cmd'.rb = rb /\ cmd'.at = "prepare"
    BY <1>0, <2>1 DEF CommandOK, IsCommand, Locals, Sets
  <2> QED
    BY <1>0, <2>2, OthersKept DEF CommandOK, Sets
<1> QED
  BY <1>1, <1>2

LEMMA KnownDeclares == ASSUME NEW r \in Known PROVE DOMAIN r.specs \subseteq Cookbooks
<1>1. CASE r \in Policyfiles \cup {Scaffold}
  BY <1>1, WorkspaceAssumption DEF IsPolicyfile
<1>2. CASE r \in {NoPolicyfile, CutPolicyfile}
  <2>1. r.specs = <<>>
    BY <1>2 DEF NoPolicyfile, CutPolicyfile, Policyfile
  <2> QED
    BY <2>1, EmptySeq
<1> QED
  BY <1>1, <1>2 DEF Known

LEMMA EvaluateOK ==
    ASSUME TypeIInv, Evaluate PROVE CommandOK(cmd')
<1>0. CommandOK(cmd)
  BY DEF TypeIInv
<1>1. CASE cmd' = Resting
  BY <1>1, RestingIs
<1>2. CASE cmd' # Resting
  <2>1. cmd' = [cmd EXCEPT !.at = "load", !.left = DOMAIN cmd.rb.specs]
    BY <1>2 DEF Evaluate, Refuse, Ends, Goes
  <2>2. Sets(cmd', cmd, {"at", "left"}) /\ cmd'.left = DOMAIN cmd.rb.specs /\ cmd'.at = "load"
    BY <1>0, <2>1 DEF CommandOK, IsCommand, Locals, Sets
  <2>3. DOMAIN cmd.rb.specs \subseteq Cookbooks
    BY <1>0, KnownDeclares DEF CommandOK
  <2> QED
    BY <1>0, <2>2, <2>3, OthersKept DEF CommandOK, Sets
<1> QED
  BY <1>1, <1>2

LEMMA EditCookbookOK ==
    ASSUME TypeIInv, EditCookbook PROVE CommandOK(cmd')
<1>0. CommandOK(cmd)
  BY DEF TypeIInv
<1>1. CASE cmd' = cmd
  BY <1>0, <1>1
<1>2. CASE cmd' # cmd
  <2>1. PICK n : cmd' = [cmd EXCEPT !.dirty = @ \cup {n}, !.calm = FALSE]
    BY <1>2 DEF EditCookbook
  <2>2. Sets(cmd', cmd, {"dirty", "calm"})
    BY <1>0, <2>1 DEF CommandOK, IsCommand, Locals, Sets
  <2> QED
    BY <1>0, <2>2, OthersKept DEF CommandOK, Sets
<1> QED
  BY <1>1, <1>2

LEMMA ExportOK ==
    ASSUME TypeIInv, Export PROVE CommandOK(cmd')
<1>0. CommandOK(cmd) /\ IsRevision(lockfile)
  BY DEF TypeIInv
<1>1. CASE cmd' = Resting
  BY <1>1, RestingIs
<1>2. CASE cmd' # Resting
  <2>1. cmd' = [cmd EXCEPT !.at = "cookbook", !.lock = lockfile, !.left = DOMAIN lockfile.locks]
    BY <1>2 DEF Export, Refuse, Ends, Goes
  <2>2. /\ Sets(cmd', cmd, {"at", "left", "lock"}) /\ cmd'.at = "cookbook" /\ cmd'.left = DOMAIN lockfile.locks
        /\ cmd'.lock = lockfile
    BY <1>0, <2>1 DEF CommandOK, IsCommand, Locals, Sets
  <2>3. DOMAIN lockfile.locks \subseteq Cookbooks
    BY <1>0 DEF IsRevision
  <2> QED
    BY <1>0, <2>2, <2>3, OthersKept DEF CommandOK, Sets
<1> QED
  BY <1>1, <1>2

LEMMA ExportCookbookOK ==
    ASSUME TypeIInv, ExportCookbook PROVE CommandOK(cmd')
<1> DEFINE n == Min(cmd.left)
<1>0. CommandOK(cmd)
  BY DEF TypeIInv
<1>1. CASE cmd' = Resting
  BY <1>1, RestingIs
<1>2. CASE cmd' # Resting
  <2>1. /\ cmd.left # {} /\ disk[n] # 0 /\ cmd.at = "cookbook"
        /\ cmd' = [cmd EXCEPT !.at = "copy", !.from = n, !.files = Content[disk[n]].files]
    BY <1>2 DEF ExportCookbook, Refuse, Ends, Goes, At
  <2>2. n \in Cookbooks /\ n \in cmd.left
    BY <1>0, <2>1, NextLeft
  <2>3. n \in DOMAIN cmd.lock.locks
    BY <1>0, <2>1, <2>2 DEF CommandOK
  <2> HIDE DEF n
  <2>4. /\ Sets(cmd', cmd, {"at", "from", "files"}) /\ cmd'.at = "copy" /\ cmd'.from = n
        /\ cmd'.files = Content[disk[n]].files
    BY <1>0, <2>1 DEF CommandOK, IsCommand, Locals, Sets
  <2>5. Content[disk[n]].files \subseteq Files
    BY <2>1, <2>2, OnDisk
  <2> QED
    BY <1>0, <2>1, <2>3, <2>4, <2>5, OthersKept DEF CommandOK, Sets
<1> QED
  BY <1>1, <1>2

LEMMA CopyFileOK ==
    ASSUME TypeIInv, CopyFile PROVE CommandOK(cmd')
<1>0. CommandOK(cmd)
  BY DEF TypeIInv
<1>1. CASE cmd' = Resting
  BY <1>1, RestingIs
<1>2. CASE cmd' # Resting
  <2>1. PICK f \in cmd.files : cmd' = [cmd EXCEPT !.files = @ \ {f}]
    BY <1>2 DEF CopyFile, Ends, Goes, Cut
  <2>2. Sets(cmd', cmd, {"files"}) /\ cmd'.files = cmd.files \ {f}
    BY <1>0, <2>1 DEF CommandOK, IsCommand, Locals, Sets
  <2> QED
    BY <1>0, <2>2, OthersKept DEF CommandOK, Sets
<1> QED
  BY <1>1, <1>2

LEMMA CopiesOK ==
    ASSUME TypeIInv, Copies PROVE CommandOK(cmd')
<1>0. CommandOK(cmd)
  BY DEF TypeIInv
<1>1. cmd' = [cmd EXCEPT !.at = "cookbook", !.left = @ \ {cmd.from}] /\ cmd.at = "copy"
  BY DEF Copies, At
<1>2. Sets(cmd', cmd, {"at", "left"}) /\ cmd'.left = cmd.left \ {cmd.from} /\ cmd'.at = "cookbook"
  BY <1>0, <1>1 DEF CommandOK, IsCommand, Locals, Sets
<1> QED
  BY <1>0, <1>1, <1>2, OthersKept DEF CommandOK, Sets

LEMMA SendingOK ==
    ASSUME NEW c, CommandOK(c), NEW l, IsRevision(l), NEW sends
    PROVE  CommandOK([c EXCEPT !.at = "send", !.lock = l, !.sends = sends])
<1> DEFINE d == [c EXCEPT !.at = "send", !.lock = l, !.sends = sends]
<1>1. Sets(d, c, {"at", "lock", "sends"}) /\ d.at = "send" /\ d.lock = l
  BY DEF CommandOK, IsCommand, Locals, Sets
<1> HIDE DEF d
<1>2. CommandOK(d)
  BY <1>1, OthersKept DEF CommandOK, Sets
<1> QED
  BY <1>2 DEF d

LEMMA OpenedOK ==
    ASSUME TypeIInv, NEW from
    PROVE  BundleTyped(Opened(from)) \/ Opened(from) = [NoBundle EXCEPT !.lock = lockfile]
BY NoBundleIs DEF Opened, TypeIInv

LEMMA OpenedLock == ASSUME TypeIInv, NEW from PROVE IsRevision(Opened(from).lock)
<1>1. CASE BundleTyped(Opened(from))
  BY <1>1 DEF BundleTyped
<1>2. CASE Opened(from) = [NoBundle EXCEPT !.lock = lockfile]
  <2>1. Opened(from).lock = lockfile
    BY <1>2, NoBundleIs DEF BundleTyped
  <2> QED
    BY <2>1 DEF TypeIInv
<1> QED
  BY <1>1, <1>2, OpenedOK

LEMMA PushesOK ==
    ASSUME TypeIInv, Push \/ PushArchive PROVE CommandOK(cmd')
<1>0. CommandOK(cmd) /\ IsRevision(lockfile)
  BY DEF TypeIInv
<1>1. CASE cmd' = Resting
  BY <1>1, RestingIs
<1>2. CASE cmd' # Resting /\ Push
  <2>1. PICK sends : cmd' = [cmd EXCEPT !.at = "send", !.lock = lockfile, !.sends = sends]
    BY <1>2 DEF Push, Refuse, Ends, Goes, Sending
  <2> QED
    BY <1>0, <2>1, SendingOK
<1>3. CASE cmd' # Resting /\ PushArchive
  <2> DEFINE l == Opened(Chosen1(cmd.what.arg)).lock
  <2>1. PICK sends : cmd' = [cmd EXCEPT !.at = "send", !.lock = l, !.sends = sends]
    BY <1>3 DEF PushArchive, Refuse, Ends, Goes, Sending
  <2>2. IsRevision(l)
    BY OpenedLock
  <2> HIDE DEF l
  <2> QED
    BY <1>0, <2>1, <2>2, SendingOK
<1> QED
  BY <1>1, <1>2, <1>3

LEMMA PolicyDiffOK ==
    ASSUME TypeIInv, PolicyDiffCommand PROVE CommandOK(cmd')
<1> DEFINE a == <<cmd.what.groups[1], cmd.what.arg>>
           b == <<cmd.what.groups[2], cmd.what.arg>>
           sides == <<server.active[a], server.active[b]>>
<1>1. CASE cmd' = Resting
  BY <1>1, RestingIs
<1>2. CASE cmd' # Resting
  <2>1. /\ a \in DOMAIN server.active /\ b \in DOMAIN server.active
        /\ cmd' = [Resting EXCEPT !.sides = sides, !.diff = {Diff(server.active[a], server.active[b])}]
    BY <1>2 DEF PolicyDiffCommand, Refuse, Ends, Goes
  <2>2. IsRevision(server.active[a]) /\ IsRevision(server.active[b])
    BY <2>1 DEF TypeIInv, ServerTyped
  <2>3. sides[1] = server.active[a] /\ sides[2] = server.active[b]
    OBVIOUS
  <2> HIDE DEF a, b, sides
  <2>4. /\ Sets(cmd', Resting, {"sides", "diff"}) /\ cmd'.sides = sides
        /\ cmd'.diff = {Diff(server.active[a], server.active[b])}
    BY <2>1, RestingIs DEF CommandOK, IsCommand, Locals, Sets
  <2>5. IsRevision(cmd'.sides[1]) /\ IsRevision(cmd'.sides[2]) /\ cmd'.diff = {Diff(cmd'.sides[1], cmd'.sides[2])}
    BY <2>2, <2>3, <2>4
  <2> QED
    <3>1. CommandOK(Resting) /\ Resting.at = "end"
      BY RestingIs
    <3>2. /\ cmd'.at = "end" /\ cmd'.rb = Resting.rb /\ cmd'.left = Resting.left /\ cmd'.loaded = Resting.loaded
          /\ cmd'.lock = Resting.lock /\ cmd'.files = Resting.files
      BY <2>4, <3>1, OthersKept
    <3> QED
      BY <2>4, <2>5, <3>1, <3>2 DEF CommandOK, Sets
<1> QED
  BY <1>1, <1>2

\* Every step leaves a command as one should be.
LEMMA CommandStep ==
    ASSUME TypeIInv, [Next]_vars PROVE CommandOK(cmd')
<1>0. CommandOK(cmd) /\ \A x : x \notin {"copy", "cookbook"} => CommandOK([cmd EXCEPT !.at = x])
  BY GoingOn DEF TypeIInv
<1> USE RestingIs
<1>1. CASE cmd' = cmd
  BY <1>0, <1>1
<1>2. CASE Create
  BY <1>2 DEF Create, Refuse, Ends, Goes, Cut
<1>4. CASE PrepareEngine \/ CopySiblings
  BY <1>0, <1>4 DEF PrepareEngine, CopySiblings, Goes, Ends
<1>6. CASE InstallSolve
  BY <1>0, <1>6 DEF InstallSolve, Goes
<1>7. CASE SolverStep
  BY <1>0, <1>7 DEF SolverStep
<1>8. CASE InstallWrite
  BY <1>0, <1>8 DEF InstallWrite, Cut, Ends, Goes
<1>9. CASE ExportPolicy \/ ExportLock
  BY <1>0, <1>9 DEF ExportPolicy, ExportLock, ExportWrite, Cut, Ends, Goes
<1>10. CASE ExportClient
  BY <1>0, <1>10 DEF ExportClient, ExportWrite, Cut, Ends, Goes
<1>11. CASE ExportTar \/ Send
  BY <1>11 DEF ExportTar, Send, Cut, Ends, Goes
<1>12. CASE DownloadBegin \/ DownloadStream \/ DownloadRename
  BY <1>0, <1>12 DEF DownloadBegin, DownloadStream, DownloadRename, Refuse, Ends, Goes
<1>13. CASE Start
  BY <1>13 DEF Start
<1>14. CASE Kill
  BY <1>14 DEF Kill, Cut, Ends, Goes
<1>15. CASE EditPolicyfile \/ DeleteLock
  BY <1>0, <1>15 DEF EditPolicyfile, DeleteLock
<1> QED
  BY <1>1, <1>2, <1>4, <1>6, <1>7, <1>8, <1>9, <1>10, <1>11, <1>12, <1>13, <1>14, <1>15,
     InstallReadOK, EvaluateOK, EditCookbookOK, InstallLoadOK, InstallSolvedOK, InstallIdentifyOK, ExportOK, ExportCookbookOK, CopyFileOK, CopiesOK, PushesOK,
     PolicyDiffOK DEF Next, Step, User, vars

\* A bundle whose tree, policies, lock or client is written.
\* A file of the cookbook that is copied.
Filled(b, p, f, v) == [b EXCEPT !.tree[p][f] = v]
LEMMA FilledIs ==
    ASSUME NEW b, BundleTyped(b), NEW p, NEW f \in Files, NEW v, p \in DOMAIN b.tree,
           v \in {NoFile, CutFile} \cup Of[p[1]]
    PROVE  /\ BundleTyped(Filled(b, p, f, v))
           /\ Filled(b, p, f, v).tree = [b.tree EXCEPT ![p] = [b.tree[p] EXCEPT ![f] = v]]
           /\ Filled(b, p, f, v).policies = b.policies /\ Filled(b, p, f, v).lock = b.lock
           /\ Filled(b, p, f, v).client = b.client /\ Filled(b, p, f, v).half = b.half
<1> DEFINE d == Filled(b, p, f, v)
<1>1. /\ d = [x \in {"tree", "policies", "lock", "client", "half"} |-> d[x]]
      /\ d.tree = [b.tree EXCEPT ![p] = [b.tree[p] EXCEPT ![f] = v]]
      /\ d.policies = b.policies /\ d.lock = b.lock /\ d.client = b.client /\ d.half = b.half
  BY DEF BundleTyped, Filled
<1>2. /\ DOMAIN d.tree = DOMAIN b.tree /\ \A q \in DOMAIN b.tree : q # p => d.tree[q] = b.tree[q]
      /\ d.tree[p] = [b.tree[p] EXCEPT ![f] = v]
  BY <1>1
<1>3. b.tree[p] \in [Files -> {NoFile, CutFile} \cup Of[p[1]]]
  BY DEF BundleTyped
<1>4. d.tree[p] \in [Files -> {NoFile, CutFile} \cup Of[p[1]]]
  BY <1>2, <1>3
<1> HIDE DEF d
<1>5. \A q \in DOMAIN d.tree : q[2] \in Of[q[1]] /\ d.tree[q] \in [Files -> {NoFile, CutFile} \cup Of[q[1]]]
  <2> SUFFICES ASSUME NEW q \in DOMAIN d.tree
               PROVE  q[2] \in Of[q[1]] /\ d.tree[q] \in [Files -> {NoFile, CutFile} \cup Of[q[1]]]
    OBVIOUS
  <2>1. CASE q = p
    BY <1>2, <1>4, <2>1 DEF BundleTyped
  <2>2. CASE q # p
    BY <1>2, <2>2 DEF BundleTyped
  <2> QED
    BY <2>1, <2>2
<1>6. BundleTyped(d)
  BY <1>1, <1>5 DEF BundleTyped
<1> QED
  BY <1>1, <1>6 DEF d

LEMMA ExportCookbookBundle ==
    ASSUME TypeIInv, ExportCookbook, disk[Min(cmd.left)] # 0
    PROVE  /\ BundleTyped(bundle')
           /\ LET p == Pair(Min(cmd.left)) IN
              /\ bundle'.tree = IF p \in DOMAIN bundle.tree THEN bundle.tree ELSE Put(bundle.tree, p, NoFiles)
              /\ bundle'.half = IF p \in DOMAIN bundle.tree THEN bundle.half \cup {p} ELSE bundle.half
              /\ Min(cmd.left) \in cmd.left /\ Min(cmd.left) \in DOMAIN cmd.lock.locks
              /\ bundle'.lock = bundle.lock /\ bundle'.policies = bundle.policies /\ bundle'.client = bundle.client
<1> DEFINE n == Min(cmd.left)
           p == Pair(n)
<1>0. CommandOK(cmd) /\ BundleTyped(bundle)
  BY DEF TypeIInv
<1>1. cmd.left # {} /\ cmd.at = "cookbook"
      /\ bundle' = [bundle EXCEPT !.tree = IF p \in DOMAIN @ THEN @ ELSE Put(@, p, NoFiles),
                                  !.half = IF p \in DOMAIN bundle.tree THEN @ \cup {p} ELSE @]
  BY DEF ExportCookbook, At
<1>2. n \in cmd.left /\ n \in Cookbooks
  BY <1>0, <1>1, NextLeft
<1>3. n \in DOMAIN cmd.lock.locks /\ cmd.lock.locks[n].id \in Of[n]
  BY <1>0, <1>1, <1>2 DEF CommandOK, IsRevision
<1>4. p[1] = n /\ p[2] \in Of[p[1]]
  BY <1>3 DEF Pair
<1> HIDE DEF n, p
<1>5. /\ bundle' = [x \in {"tree", "policies", "lock", "client", "half"} |-> bundle'[x]]
      /\ bundle'.tree = IF p \in DOMAIN bundle.tree THEN bundle.tree ELSE Put(bundle.tree, p, NoFiles)
      /\ bundle'.half = IF p \in DOMAIN bundle.tree THEN bundle.half \cup {p} ELSE bundle.half
      /\ bundle'.lock = bundle.lock /\ bundle'.policies = bundle.policies /\ bundle'.client = bundle.client
  BY <1>0, <1>1 DEF BundleTyped
<1>6. NoFiles \in [Files -> {NoFile, CutFile} \cup Of[p[1]]]
  BY DEF NoFiles
<1>7. \A q \in DOMAIN bundle'.tree :
         q[2] \in Of[q[1]] /\ bundle'.tree[q] \in [Files -> {NoFile, CutFile} \cup Of[q[1]]]
  <2>1. CASE p \in DOMAIN bundle.tree
    BY <1>0, <1>5, <2>1 DEF BundleTyped
  <2>2. CASE p \notin DOMAIN bundle.tree
    <3>1. DOMAIN bundle'.tree = DOMAIN bundle.tree \cup {p} /\ bundle'.tree[p] = NoFiles
          /\ \A q \in DOMAIN bundle.tree : bundle'.tree[q] = bundle.tree[q]
      BY <1>5, <2>2 DEF Put
    <3> QED
      BY <1>0, <1>4, <1>6, <3>1 DEF BundleTyped
  <2> QED
    BY <2>1, <2>2
<1>8. BundleTyped(bundle')
  BY <1>0, <1>5, <1>7 DEF BundleTyped
<1> QED
  BY <1>2, <1>3, <1>5, <1>8 DEF n, p

LEMMA CopyFileCommand ==
    ASSUME CommandOK(cmd), CopyFile
    PROVE  cmd' = Resting \/ (cmd'.from = cmd.from /\ cmd'.lock = cmd.lock)
<1>1. CASE cmd' # Resting
  <2>1. PICK f \in cmd.files : cmd' = [cmd EXCEPT !.files = @ \ {f}]
    BY <1>1 DEF CopyFile, Ends, Goes, Cut
  <2> QED
    BY <2>1 DEF CommandOK, IsCommand, Locals
<1> QED
  BY <1>1

LEMMA CopyFileBundle ==
    ASSUME TypeIInv, CopyFile
    PROVE  \/ bundle' = bundle
           \/ \E f \in cmd.files, v \in {CutFile, disk[cmd.from]} :
                 /\ v \in {NoFile, CutFile} \cup Of[cmd.from]
                 /\ bundle' = Filled(bundle, Pair(cmd.from), f, v)
<1>0. CommandOK(cmd)
  BY DEF TypeIInv
<1>1. cmd.from \in Cookbooks
  BY <1>0 DEF CommandOK, CopyFile, At, IsRevision
<1>2. disk[cmd.from] \in Of[cmd.from] \cup {0}
  BY <1>1 DEF TypeIInv
<1> QED
  BY <1>2 DEF CopyFile, Copied, Filled, NoFile

\* Where a command goes: only an export copies, and it copies what it has begun to copy.
LEMMA Copying ==
    ASSUME TypeIInv, [Next]_vars, ~ExportCookbook, ~CopyFile, cmd'.at = "copy"
    PROVE  cmd.at = "copy" /\ cmd'.from = cmd.from /\ cmd'.lock = cmd.lock /\ cmd'.files = cmd.files
<1>0. IsCommand(cmd) /\ IsCommand(Resting) /\ Resting.at = "end"
  BY RestingIs DEF TypeIInv, CommandOK
<1> USE DEF At, Refuse, Ends, Goes, Cut, IsCommand, Locals
<1>1. CASE cmd' = cmd
  BY <1>1
<1>2. CASE Create
  BY <1>0, <1>2 DEF Create
<1>3. CASE InstallRead
  BY <1>0, <1>3 DEF InstallRead
<1>4. CASE PrepareEngine \/ CopySiblings
  BY <1>0, <1>4 DEF PrepareEngine, CopySiblings
<1>5. CASE Evaluate
  BY <1>0, <1>5 DEF Evaluate
<1>6. CASE InstallLoad
  BY <1>0, <1>6 DEF InstallLoad
<1>7. CASE InstallSolve \/ InstallSolved
  BY <1>0, <1>7 DEF InstallSolve, InstallSolved
<1>8. CASE InstallIdentify
  BY <1>0, <1>8 DEF InstallIdentify
<1>9. CASE InstallWrite
  BY <1>0, <1>9 DEF InstallWrite
<1>10. CASE Export
  BY <1>0, <1>10 DEF Export
<1>11. CASE Copies
  BY <1>0, <1>11 DEF Copies
<1>12. CASE ExportPolicy \/ ExportLock
  BY <1>0, <1>12 DEF ExportPolicy, ExportLock, ExportWrite
<1>13. CASE ExportClient
  BY <1>0, <1>13 DEF ExportClient, ExportWrite
<1>14. CASE ExportTar \/ Send
  BY <1>0, <1>14 DEF ExportTar, Send
<1>15. CASE Push
  BY <1>0, <1>15 DEF Push, Sending
<1>16. CASE PushArchive
  BY <1>0, <1>16 DEF PushArchive, Sending
<1>17. CASE PolicyDiffCommand
  BY <1>0, <1>17 DEF PolicyDiffCommand
<1>18. CASE DownloadBegin \/ DownloadStream \/ DownloadRename
  BY <1>0, <1>18 DEF DownloadBegin, DownloadStream, DownloadRename
<1>19. CASE Start
  BY <1>0, <1>19 DEF Start
<1>20. CASE Kill
  BY <1>0, <1>20 DEF Kill
<1>21. CASE SolverStep \/ EditPolicyfile \/ DeleteLock
  BY <1>0, <1>21 DEF SolverStep, EditPolicyfile, DeleteLock
<1>22. CASE EditCookbook
  BY <1>0, <1>22 DEF EditCookbook
<1> QED
  BY <1>1, <1>2, <1>3, <1>4, <1>5, <1>6, <1>7, <1>8, <1>9, <1>10, <1>11, <1>12, <1>13, <1>14, <1>15, <1>16, <1>17,
     <1>18, <1>19, <1>20, <1>21, <1>22 DEF Next, Step, User, vars

\* Every step leaves a bundle as one should be.
LEMMA BundleStep ==
    ASSUME TypeIInv, [Next]_vars
    PROVE  BundleTyped(bundle') /\ CopyInTree'
<1>0. /\ CommandOK(cmd) /\ BundleTyped(bundle) /\ CopyInTree /\ IsRevision(cmd.lock)
  BY DEF TypeIInv, CommandOK
<1>1. CASE ExportCookbook
  <2> DEFINE n == Min(cmd.left)
             p == Pair(n)
  <2>1. CASE disk[n] = 0
    <3>1. bundle' = bundle /\ cmd' = Resting
      BY <1>1, <2>1 DEF ExportCookbook, Refuse, Same, files, Ends, Goes
    <3> QED
      BY <1>0, <3>1, RestingIs DEF CopyInTree
  <2>2. CASE disk[n] # 0
    <3>1. /\ BundleTyped(bundle')
          /\ bundle'.tree = IF p \in DOMAIN bundle.tree THEN bundle.tree ELSE Put(bundle.tree, p, NoFiles)
      BY <1>1, <2>2, ExportCookbookBundle
    <3>2. p \in DOMAIN bundle'.tree
      BY <3>1 DEF Put
    <3>3. cmd'.from = n /\ cmd'.lock = cmd.lock
      BY <1>0, <1>1, <2>2 DEF ExportCookbook, CommandOK, IsCommand, Locals
    <3> QED
      BY <3>1, <3>2, <3>3 DEF CopyInTree, Pair
  <2> QED
    BY <2>1, <2>2
<1>2. CASE CopyFile
  <2>1. CASE bundle' = bundle
    <3>1. CopyInTree'
      <4>1. cmd' = Resting \/ (cmd'.from = cmd.from /\ cmd'.lock = cmd.lock)
        BY <1>0, <1>2, CopyFileCommand
      <4>2. cmd.at = "copy"
        BY <1>2 DEF CopyFile, At
      <4> QED
        BY <1>0, <2>1, <4>1, <4>2, RestingIs DEF CopyInTree, Pair
    <3> QED
      BY <1>0, <2>1, <3>1
  <2>2. CASE bundle' # bundle
    <3>1. PICK f \in cmd.files, v \in {CutFile, disk[cmd.from]} :
             /\ v \in {NoFile, CutFile} \cup Of[cmd.from]
             /\ bundle' = Filled(bundle, Pair(cmd.from), f, v)
      BY <1>2, <2>2, CopyFileBundle
    <3>2. f \in Files /\ Pair(cmd.from) \in DOMAIN bundle.tree /\ Pair(cmd.from)[1] = cmd.from
      BY <1>0, <1>2, <3>1 DEF CommandOK, CopyInTree, CopyFile, At, Pair
    <3>3. BundleTyped(bundle') /\ bundle'.tree = [bundle.tree EXCEPT ![Pair(cmd.from)] = [bundle.tree[Pair(cmd.from)] EXCEPT ![f] = v]]
      <4> DEFINE p == Pair(cmd.from)
      <4>1. p \in DOMAIN bundle.tree /\ v \in {NoFile, CutFile} \cup Of[p[1]] /\ bundle' = Filled(bundle, p, f, v)
        BY <3>1, <3>2
      <4> HIDE DEF p
      <4>2. BundleTyped(bundle') /\ bundle'.tree = [bundle.tree EXCEPT ![p] = [bundle.tree[p] EXCEPT ![f] = v]]
        BY <1>0, <3>2, <4>1, FilledIs
      <4> QED
        BY <4>2 DEF p
    <3>4. DOMAIN bundle'.tree = DOMAIN bundle.tree
      BY <3>3
    <3>5. CopyInTree'
      <4>1. cmd' = Resting \/ (cmd'.from = cmd.from /\ cmd'.lock = cmd.lock)
        BY <1>0, <1>2, CopyFileCommand
      <4> QED
        BY <3>2, <3>4, <4>1, RestingIs DEF CopyInTree, Pair
    <3> QED
      BY <3>3, <3>5
  <2> QED
    BY <2>1, <2>2
<1>3. CASE Copies \/ ExportPolicy \/ ExportLock \/ ExportClient
  <2>1. /\ bundle'.tree = bundle.tree
        /\ bundle' = [x \in {"tree", "policies", "lock", "client", "half"} |-> bundle'[x]]
        /\ bundle'.lock \in {bundle.lock, cmd.lock, CutLock}
        /\ bundle'.policies \subseteq bundle.policies \cup {cmd.lock}
    <3>1. CASE Copies
      BY <1>0, <3>1 DEF Copies, BundleTyped
    <3>2. CASE ExportPolicy
      BY <1>0, <3>2 DEF ExportPolicy, ExportWrite, BundleTyped
    <3>3. CASE ExportLock
      BY <1>0, <3>3 DEF ExportLock, ExportWrite, BundleTyped
    <3>4. CASE ExportClient
      BY <1>0, <3>4 DEF ExportClient, ExportWrite, BundleTyped
    <3> QED
      BY <1>3, <3>1, <3>2, <3>3, <3>4
  <2>2. BundleTyped(bundle')
    BY <1>0, <2>1, NoLockIs DEF BundleTyped
  <2>3. cmd'.at # "copy"
    <3>1. CASE Copies
      BY <1>0, <3>1 DEF Copies, CommandOK, IsCommand, Locals
    <3>2. CASE ExportPolicy
      BY <1>0, <3>2, RestingIs DEF ExportPolicy, ExportWrite, Goes, Cut, Ends, CommandOK, IsCommand, Locals
    <3>3. CASE ExportLock
      BY <1>0, <3>3, RestingIs DEF ExportLock, ExportWrite, Goes, Cut, Ends, CommandOK, IsCommand, Locals
    <3>4. CASE ExportClient
      BY <1>0, <3>4, RestingIs DEF ExportClient, ExportWrite, Goes, Cut, Ends, CommandOK, IsCommand, Locals
    <3> QED
      BY <1>3, <3>1, <3>2, <3>3, <3>4
  <2> QED
    BY <2>2, <2>3 DEF CopyInTree
<1>4. CASE bundle' = bundle /\ ~ExportCookbook /\ ~CopyFile
  <2>1. cmd'.at = "copy" => cmd.at = "copy" /\ cmd'.from = cmd.from /\ cmd'.lock = cmd.lock
    BY <1>4, Copying
  <2> QED
    BY <1>0, <1>4, <2>1 DEF CopyInTree, Pair
<1> QED
  BY <1>1, <1>2, <1>3, <1>4, Writers

\* Only an install solves, and what it has read does not change while it does.
LEMMA Solving ==
    ASSUME TypeIInv, [Next]_vars, ~InstallSolve, cmd'.at = "solve"
    PROVE  /\ cmd.at = "solve" /\ cmd'.rb = cmd.rb /\ cmd'.loaded = cmd.loaded
           /\ solver' = solver \/ SolverStep
<1>0. IsCommand(cmd) /\ IsCommand(Resting) /\ Resting.at = "end"
  BY RestingIs DEF TypeIInv, CommandOK
<1> USE DEF At, Refuse, Ends, Goes, Cut, Same, IsCommand, Locals
<1>1. CASE UNCHANGED vars
  BY <1>1 DEF vars
<1>2. CASE Create
  BY <1>0, <1>2 DEF Create
<1>3. CASE InstallRead
  BY <1>0, <1>3 DEF InstallRead
<1>4. CASE PrepareEngine \/ CopySiblings
  BY <1>0, <1>4 DEF PrepareEngine, CopySiblings
<1>5. CASE Evaluate
  BY <1>0, <1>5 DEF Evaluate
<1>6. CASE InstallLoad
  BY <1>0, <1>6 DEF InstallLoad
<1>7. CASE InstallSolved
  BY <1>0, <1>7 DEF InstallSolved
<1>8. CASE InstallIdentify
  BY <1>0, <1>8 DEF InstallIdentify
<1>9. CASE InstallWrite
  BY <1>0, <1>9 DEF InstallWrite
<1>10. CASE Export
  BY <1>0, <1>10 DEF Export
<1>11. CASE Copies
  BY <1>0, <1>11 DEF Copies
<1>12. CASE ExportPolicy \/ ExportLock
  BY <1>0, <1>12 DEF ExportPolicy, ExportLock, ExportWrite
<1>13. CASE ExportClient
  BY <1>0, <1>13 DEF ExportClient, ExportWrite
<1>14. CASE ExportTar \/ Send
  BY <1>0, <1>14 DEF ExportTar, Send
<1>15. CASE Push
  BY <1>0, <1>15 DEF Push, Sending
<1>16. CASE PushArchive
  BY <1>0, <1>16 DEF PushArchive, Sending
<1>17. CASE PolicyDiffCommand
  BY <1>0, <1>17 DEF PolicyDiffCommand
<1>18. CASE DownloadBegin \/ DownloadStream \/ DownloadRename
  BY <1>0, <1>18 DEF DownloadBegin, DownloadStream, DownloadRename
<1>19. CASE Start
  BY <1>0, <1>19 DEF Start
<1>20. CASE Kill
  BY <1>0, <1>20 DEF Kill
<1>21. CASE SolverStep \/ EditPolicyfile \/ DeleteLock
  BY <1>0, <1>21 DEF SolverStep, EditPolicyfile, DeleteLock
<1>22. CASE EditCookbook
  BY <1>0, <1>22 DEF EditCookbook
<1>23. CASE ExportCookbook
  BY <1>0, <1>23 DEF ExportCookbook
<1>24. CASE CopyFile
  <2>1. cmd' = Resting \/ \E f \in cmd.files : cmd' = [cmd EXCEPT !.files = @ \ {f}]
    BY <1>24 DEF CopyFile
  <2>2. cmd.at = "copy"
    BY <1>24 DEF CopyFile
  <2> QED
    BY <1>0, <2>1, <2>2
<1> QED
  BY <1>1, <1>2, <1>3, <1>4, <1>5, <1>6, <1>7, <1>8, <1>9, <1>10, <1>11, <1>12, <1>13, <1>14, <1>15, <1>16, <1>17,
     <1>18, <1>19, <1>20, <1>21, <1>22, <1>23, <1>24 DEF Next, Step, User

LEMMA SolverKept ==
    ASSUME TypeIInv, [Next]_vars
    PROVE  SearchOK(solver') /\ (cmd'.at = "solve" => solver'.problem = Asked(cmd'.rb, cmd'.loaded))
<1>0. /\ CommandOK(cmd) /\ SearchOK(solver)
      /\ cmd.at = "solve" => solver.problem = Asked(cmd.rb, cmd.loaded)
  BY DEF TypeIInv
<1>1. CASE InstallSolve
  <2>1. solver' = Solve(Asked(cmd.rb, cmd.loaded))
    BY <1>1 DEF InstallSolve, Asked
  <2>2. IsProblem(Asked(cmd.rb, cmd.loaded))
    BY <1>0, AskedIsProblem DEF CommandOK
  <2>3. SearchOK(solver') /\ solver'.problem = Asked(cmd.rb, cmd.loaded)
    BY <2>1, <2>2, SolveOK
  <2>4. cmd'.rb = cmd.rb /\ cmd'.loaded = cmd.loaded
    BY <1>0, <1>1 DEF InstallSolve, Goes, CommandOK, IsCommand, Locals
  <2> QED
    BY <2>3, <2>4
<1>2. CASE ~InstallSolve
  <2>1. SearchOK(solver')
    <3>1. CASE SolverStep
      BY <1>0, <3>1, TriedOK DEF SolverStep
    <3>2. CASE Start \/ InstallSolved
      BY <3>2, NotSolvingOK DEF Start, InstallSolved
    <3> QED
      BY <1>0, <1>2, <3>1, <3>2, Writers
  <2>2. ASSUME cmd'.at = "solve" PROVE solver'.problem = Asked(cmd'.rb, cmd'.loaded)
    <3>1. /\ cmd.at = "solve" /\ cmd'.rb = cmd.rb /\ cmd'.loaded = cmd.loaded
          /\ solver' = solver \/ SolverStep
      BY <1>2, <2>2, Solving
    <3>2. CASE SolverStep
      <4>1. solver'.problem = solver.problem
        BY <1>0, <3>2, TriedOK DEF SolverStep
      <4> QED
        BY <1>0, <3>1, <4>1
    <3> QED
      BY <1>0, <3>1, <3>2
  <2> QED
    BY <2>1, <2>2
<1> QED
  BY <1>1, <1>2

\* A lock's cookbooks with their identifiers.
LEMMA PairsAre ==
    ASSUME NEW l, IsRevision(l), NEW p \in Pairs(l)
    PROVE  p[1] \in DOMAIN l.locks /\ p = <<p[1], l.locks[p[1]].id>> /\ p[2] = l.locks[p[1]].id /\ p[2] \in Of[p[1]]
<1>1. PICK n \in DOMAIN l.locks : p = <<n, l.locks[n].id>>
  BY DEF Pairs
<1>2. p[1] = n /\ p[2] = l.locks[n].id
  BY <1>1
<1> QED
  BY <1>1, <1>2 DEF IsRevision

LEMMA ServerStep == ASSUME TypeIInv, [Next]_vars PROVE ServerTyped(server')
<1>0. ServerTyped(server) /\ IsRevision(cmd.lock)
  BY DEF TypeIInv, CommandOK
<1>1. ASSUME NEW names PROVE \A a \in DOMAIN Uploaded(names) : a[2] \in Of[a[1]]
  <2>1. DOMAIN Uploaded(names) \subseteq DOMAIN server.artifacts \cup Pairs(cmd.lock)
    BY DEF Uploaded
  <2>2. \A a \in Pairs(cmd.lock) : a[2] \in Of[a[1]]
    BY <1>0, PairsAre
  <2> QED
    BY <1>0, <2>1, <2>2 DEF ServerTyped
<1>2. CASE server' = server
  BY <1>0, <1>2
<1>3. CASE Send
  <2>1. CASE \E some \in SUBSET DOMAIN cmd.sends : server' = [server EXCEPT !.artifacts = Uploaded(some)]
    <3>1. PICK some : server' = [server EXCEPT !.artifacts = Uploaded(some)]
      BY <2>1
    <3> DEFINE u == Uploaded(some)
    <3>2. \A a \in DOMAIN u : a[2] \in Of[a[1]]
      BY <1>1
    <3>3. server' = [server EXCEPT !.artifacts = u]
      BY <3>1
    <3> HIDE DEF u
    <3> QED
      BY <1>0, <3>2, <3>3 DEF ServerTyped
  <2>2. CASE server' = [artifacts |-> Uploaded(DOMAIN cmd.sends), revisions |-> server.revisions \cup {cmd.lock},
                        active |-> Put(server.active, <<cmd.what.groups[1], cmd.lock.name>>, cmd.lock)]
    <3> DEFINE u == Uploaded(DOMAIN cmd.sends)
               k == <<cmd.what.groups[1], cmd.lock.name>>
               v == Put(server.active, k, cmd.lock)
    <3>1. \A a \in DOMAIN u : a[2] \in Of[a[1]]
      BY <1>1
    <3>2. /\ DOMAIN v = DOMAIN server.active \cup {k} /\ v[k] = cmd.lock
          /\ \A a \in DOMAIN server.active : a # k => v[a] = server.active[a]
      BY DEF Put
    <3>3. k[2] = cmd.lock.name
      OBVIOUS
    <3>4. server' = [artifacts |-> u, revisions |-> server.revisions \cup {cmd.lock}, active |-> v]
      BY <2>2
    <3> HIDE DEF u, k, v
    <3>5. \A a \in DOMAIN v : v[a] \in server.revisions \cup {cmd.lock} /\ v[a].name = a[2] /\ IsRevision(v[a])
      BY <1>0, <3>2, <3>3 DEF ServerTyped
    <3> QED
      BY <3>1, <3>4, <3>5 DEF ServerTyped
  <2> QED
    BY <1>3, <2>1, <2>2 DEF Send
<1> QED
  BY <1>2, <1>3, Writers

LEMMA PastStep == ASSUME TypeIInv, [Next]_vars PROVE PastTyped(past')
<1>0. PastTyped(past)
  BY DEF TypeIInv
<1> USE DEF PastTyped, Same, Refuse, Cut
<1>1. CASE past' = past
  BY <1>0, <1>1
<1>2. CASE Create \/ InstallWrite
  BY <1>0, <1>2 DEF Create, InstallWrite
<1>3. CASE ExportCookbook
  BY <1>0, <1>3 DEF ExportCookbook
<1>4. CASE CopyFile
  BY <1>0, <1>4 DEF CopyFile
<1>5. CASE ExportPolicy \/ ExportLock \/ ExportClient
  BY <1>0, <1>5 DEF ExportPolicy, ExportLock, ExportClient, ExportWrite
<1>6. CASE ExportTar
  BY <1>0, <1>6 DEF ExportTar
<1>7. CASE Push
  BY <1>0, <1>7 DEF Push
<1>8. CASE PushArchive
  BY <1>0, <1>8 DEF PushArchive
<1>9. CASE Send
  BY <1>0, <1>9 DEF Send
<1>10. CASE Start
  BY <1>0, <1>10 DEF Start
<1>11. CASE EditCookbook
  BY <1>0, <1>11 DEF EditCookbook
<1>12. CASE EditPolicyfile \/ DeleteLock \/ Kill
  BY <1>0, <1>12 DEF EditPolicyfile, DeleteLock, Kill
<1>13. CASE InstallRead \/ PrepareEngine \/ CopySiblings \/ Evaluate
  BY <1>0, <1>13 DEF InstallRead, PrepareEngine, CopySiblings, Evaluate
<1>14. CASE InstallLoad \/ InstallSolve \/ SolverStep \/ InstallSolved \/ InstallIdentify
  BY <1>0, <1>14 DEF InstallLoad, InstallSolve, SolverStep, InstallSolved, InstallIdentify
<1>15. CASE Export \/ Copies \/ PolicyDiffCommand
  BY <1>0, <1>15 DEF Export, Copies, PolicyDiffCommand
<1>16. CASE DownloadBegin \/ DownloadStream \/ DownloadRename
  BY <1>0, <1>16 DEF DownloadBegin, DownloadStream, DownloadRename
<1> QED
  BY <1>1, <1>2, <1>3, <1>4, <1>5, <1>6, <1>7, <1>8, <1>9, <1>10, <1>11, <1>12, <1>13, <1>14, <1>15, <1>16
  DEF Next, Step, User, vars

LEMMA FilesStep ==
    ASSUME TypeIInv, [Next]_vars
    PROVE  /\ rb' \in Known
           /\ DOMAIN disk' = Cookbooks /\ \A n \in Cookbooks : disk'[n] \in Of[n] \cup {0}
           /\ IsRevision(lockfile') /\ BundleTyped(archive') /\ TarballTyped(tarball')
<1>0. /\ rb \in Known /\ DOMAIN disk = Cookbooks /\ \A n \in Cookbooks : disk[n] \in Of[n] \cup {0}
      /\ IsRevision(lockfile) /\ BundleTyped(bundle) /\ BundleTyped(archive) /\ TarballTyped(tarball)
      /\ IsRevision(cmd.lock)
  BY DEF TypeIInv, CommandOK
<1>1. rb' \in Known
  BY <1>0, Writers DEF Create, EditPolicyfile, Known, Refuse, Same, files
<1>2. DOMAIN disk' = Cookbooks /\ \A n \in Cookbooks : disk'[n] \in Of[n] \cup {0}
  <2>1. CASE EditCookbook
    BY <1>0, <2>1 DEF EditCookbook
  <2> QED
    BY <1>0, <2>1, Writers
<1>3. IsRevision(lockfile')
  BY <1>0, NoLockIs, Writers DEF DeleteLock, InstallWrite
<1>4. BundleTyped(archive')
  BY <1>0, NoBundleIs, Writers DEF ExportTar
<1>5. TarballTyped(tarball')
  BY <1>0, Writers DEF DownloadBegin, DownloadStream, DownloadRename, Tarballs, TarballTyped, Refuse, Same, files
<1> QED
  BY <1>1, <1>2, <1>3, <1>4, <1>5

LEMMA TypeStep == ASSUME TypeIInv, [Next]_vars PROVE TypeIInv'
BY CommandStep, BundleStep, SolverKept, ServerStep, PastStep, FilesStep DEF TypeIInv

LEMMA TypeInit == ASSUME Init PROVE TypeIInv
<1>1. rb \in Known
  BY WorkspaceAssumption DEF Init, Known
<1>2. DOMAIN disk = Cookbooks /\ \A n \in Cookbooks : disk[n] \in Of[n] \cup {0}
  <2> SUFFICES ASSUME NEW n \in Cookbooks PROVE Min(Of[n]) \in Of[n]
    BY DEF Init
  <2> QED
    BY WorkspaceAssumption, MinIsLeast
<1>3. IsRevision(lockfile) /\ BundleTyped(bundle) /\ BundleTyped(archive)
  BY NoLockIs, NoBundleIs DEF Init
<1>4. TarballTyped(tarball) /\ PastTyped(past)
  BY DEF Init, TarballTyped, PastTyped
<1>5. ServerTyped(server)
  <2>1. IsServer(server)
    BY WorkspaceAssumption DEF Init
  <2>2. server = [x \in {"artifacts", "revisions", "active"} |-> server[x]]
    BY <2>1 DEF IsServer
  <2> QED
    BY <2>1, <2>2 DEF IsServer, ServerTyped
<1>6. CommandOK(cmd) /\ CopyInTree /\ cmd.at # "solve"
  BY RestingIs DEF Init, CopyInTree
<1>7. SearchOK(solver)
  BY NotSolvingOK, SolveOK, WorkspaceAssumption DEF Init
<1> QED
  BY <1>1, <1>2, <1>3, <1>4, <1>5, <1>6, <1>7 DEF TypeIInv

LEMMA TypeInvariant == Spec => []TypeIInv
<1>1. TypeIInv /\ [Next]_vars => TypeIInv'
  BY TypeStep
<1> QED
  BY TypeInit, <1>1, PTL DEF Spec

LEMMA TypesAre == ASSUME TypeIInv PROVE TypeOK
<1>1. \A l : IsRevision(l) => IsLock(l)
  BY DEF IsRevision, IsLock
<1>2. \A b : BundleTyped(b) => IsBundle(b)
  BY <1>1 DEF BundleTyped, IsBundle
<1> QED
  BY <1>1, <1>2 DEF TypeIInv, TypeOK, Known, ServerTyped

\* solver.go: whatever the problem, an install's or one put directly, the answer of the search
\* is a solution with nothing needless in it and no other is better where it first differs,
\* and a failure means that there is none.
THEOREM SolverIsRightAlways == Spec => []SolverIsRight
<1>1. TypeIInv => SolverIsRight
  BY SolvedIsSound, FailedIsComplete, SolvedIsHighest
  DEF TypeIInv, SolverIsRight, SolverIsSound, SolverIsComplete, HighestIsChosen
<1> QED
  BY <1>1, TypeInvariant, PTL

-----------------------------------------------------------------------------
\* One entry of a diff at most is about a cookbook or an attribute.
LEMMA ToldOnce ==
    ASSUME NEW D, NEW of, NEW from, NEW to, NEW was, \A d \in D : d.of = of => d = Delta(of, from, to),
           \E d \in D : d.of = of
    PROVE  Believed(D, of, was) = to
<1> DEFINE d == CHOOSE d \in D : d.of = of
<1>1. d \in D /\ d.of = of
  OBVIOUS
<1>2. d = Delta(of, from, to)
  BY <1>1
<1> QED
  BY <1>2 DEF Believed, Delta

LEMMA NotTold ==
    ASSUME NEW D, NEW of, NEW was, ~\E d \in D : d.of = of
    PROVE  Believed(D, of, was) = was
BY DEF Believed

LEMMA CookbooksTold ==
    ASSUME NEW a, NEW b, IsRevision(a), IsRevision(b), NEW n \in DOMAIN a.locks \cup DOMAIN b.locks
    PROVE  LET D == CookbookDeltas(a.locks, b.locks)
               version(l) == IF n \in DOMAIN l.locks THEN l.locks[n].version ELSE None
           IN  /\ (\E x \in D : x.of = n) <=> (n \notin DOMAIN a.locks \cap DOMAIN b.locks \/ a.locks[n] # b.locks[n])
               /\ version(a) # version(b) => Believed(D, n, version(a)) = version(b)
<1> DEFINE D == CookbookDeltas(a.locks, b.locks)
           E(m) == CookbookDelta(m, a.locks, b.locks)
           version(l) == IF n \in DOMAIN l.locks THEN l.locks[n].version ELSE None
<1>1. \A m : \A x \in E(m) : x.of = m
  BY DEF CookbookDelta, Delta
<1>2. \A x : x \in D /\ x.of = n <=> x \in E(n)
  <2>1. \A x : x \in D <=> \E m \in DOMAIN a.locks \cup DOMAIN b.locks : x \in E(m)
    BY DEF CookbookDeltas
  <2> HIDE DEF D, E
  <2> QED
    BY <1>1, <2>1
<1>3. n \in DOMAIN a.locks \cap DOMAIN b.locks =>
         (a.locks[n] = b.locks[n] <=> a.locks[n].version = b.locks[n].version /\ a.locks[n].id = b.locks[n].id)
  BY DEF IsRevision
<1>4. E(n) # {} <=> (n \notin DOMAIN a.locks \cap DOMAIN b.locks \/ a.locks[n] # b.locks[n])
  BY <1>3 DEF CookbookDelta
<1>5. ASSUME version(a) # version(b) PROVE Believed(D, n, version(a)) = version(b)
  <2>1. E(n) = {Delta(n, version(a), version(b))}
    BY <1>5 DEF CookbookDelta
  <2>2. /\ \A x \in D : x.of = n => x = Delta(n, version(a), version(b))
        /\ \E x \in D : x.of = n
    <3> HIDE DEF D, E, version
    <3> QED
      BY <1>2, <2>1
  <2> HIDE DEF D, E, version
  <2> QED
    BY <2>2, ToldOnce
<1>6. (\E x \in D : x.of = n) <=> E(n) # {}
  <2> HIDE DEF D, E
  <2> QED
    BY <1>2
<1> HIDE DEF E
<1> QED
  BY <1>4, <1>5, <1>6

LEMMA AttributesTold ==
    ASSUME NEW a, NEW b, NEW p
    PROVE  Believed(AttrDeltas(a, b), p, Leaf(a, p)) = Leaf(b, p)
<1> DEFINE D == AttrDeltas(a, b)
           Q == {q \in Flat(a) \cup Flat(b) : ~(q \in Flat(a) \cap Flat(b) /\ a[q] = b[q])}
<1>1. D = {Delta(q, Leaf(a, q), Leaf(b, q)) : q \in Q}
  BY DEF AttrDeltas
<1>2. ASSUME p \in Q PROVE Believed(D, p, Leaf(a, p)) = Leaf(b, p)
  <2> DEFINE x == Delta(p, Leaf(a, p), Leaf(b, p))
  <2>1. \A d \in D : d.of = p => d = x
    BY <1>1 DEF Delta
  <2>2. x \in D /\ x.of = p
    BY <1>1, <1>2 DEF Delta
  <2> HIDE DEF D, Q
  <2> QED
    BY <2>1, <2>2, ToldOnce
<1>3. ASSUME p \notin Q PROVE Believed(D, p, Leaf(a, p)) = Leaf(b, p)
  <2>1. ~\E d \in D : d.of = p
    BY <1>1, <1>3 DEF Delta
  <2>2. Leaf(a, p) = Leaf(b, p)
    BY <1>3 DEF Leaf
  <2> HIDE DEF D, Q
  <2> QED
    BY <2>1, <2>2, NotTold
<1> QED
  BY <1>2, <1>3

\* The other revision follows from one of them and the diff.
LEMMA DiffTells ==
    ASSUME NEW a, NEW b, IsRevision(a), IsRevision(b)
    PROVE  TellsAll(Diff(a, b), a, b)
<1> DEFINE d == Diff(a, b)
<1>1. /\ d.cookbooks = CookbookDeltas(a.locks, b.locks)
      /\ d.added = Range(b.runlist) \ Range(a.runlist) /\ d.removed = Range(a.runlist) \ Range(b.runlist)
      /\ d.attributes = AttrDeltas(a.attrs, b.attrs)
  BY DEF Diff, Added
<1> HIDE DEF d
<1>2. (Range(a.runlist) \ d.removed) \cup d.added = Range(b.runlist)
  BY <1>1
<1>3. \A p \in DOMAIN a.attrs \cup DOMAIN b.attrs :
         Believed(d.attributes, p, Leaf(a.attrs, p)) = Leaf(b.attrs, p)
  BY <1>1, AttributesTold
<1>4. ASSUME NEW n \in DOMAIN a.locks \cup DOMAIN b.locks
      PROVE  LET version(l) == IF n \in DOMAIN l.locks THEN l.locks[n].version ELSE None
             IN  /\ (\E x \in d.cookbooks : x.of = n)
                      <=> (n \notin DOMAIN a.locks \cap DOMAIN b.locks \/ a.locks[n] # b.locks[n])
                 /\ version(a) # version(b) => Believed(d.cookbooks, n, version(a)) = version(b)
  BY <1>1, CookbooksTold
<1>5. TellsAll(d, a, b)
  BY <1>2, <1>3, <1>4 DEF TellsAll
<1> QED
  BY <1>5 DEF d

\* policylifecycle.go: from one revision and the diff to another, the other follows, whatever
\* the revisions are.
THEOREM DiffTellsAllAlways == Spec => []DiffTellsAll
<1>1. TypeIInv => DiffTellsAll
  BY DiffTells DEF TypeIInv, CommandOK, DiffTellsAll
<1> QED
  BY <1>1, TypeInvariant, PTL

(***************************************************************************)
(* The files                                                               *)
(***************************************************************************)

\* Of a lock whose cookbooks have not been edited since, the identifiers are those on disk.
EditsAreKnown ==
    /\ \A n \in DOMAIN lockfile.locks \ past.edited : disk[n] = lockfile.locks[n].id
    /\ cmd.at = "identify" => \A n \in DOMAIN cmd.lock.locks \ cmd.dirty : disk[n] = cmd.lock.locks[n].id

\* A bundle has the cookbooks of its lock, but for what is in doubt.
Kept(b, p) == Faithful(b, p) \/ p \in past.doubt \cup b.half
BundleKept(b) == \A p \in Pairs(b.lock) : Kept(b, p)

\* What is not in doubt has files of its own in it, though perhaps not all of them.
TreeIsOwn ==
    \A p \in DOMAIN bundle.tree \ past.doubt : \A f \in Files :
        /\ bundle.tree[p][f] \in {NoFile, CutFile, p[2]}
        /\ f \notin Content[p[2]].files => bundle.tree[p][f] = NoFile

Places == {"cookbook", "copy", "lock", "client", "tar"}
\* An export is of the lock as it is, and has kept what it is done with.
ExportKeeps ==
    /\ cmd.at \in Places => cmd.lock = lockfile
    /\ cmd.at \in {"cookbook", "copy"} => \A n \in DOMAIN cmd.lock.locks \ cmd.left : Kept(bundle, Pair(n))
    /\ cmd.at \in {"lock", "client", "tar"} =>
          cmd.lock \in bundle.policies /\ \A n \in DOMAIN cmd.lock.locks : Kept(bundle, Pair(n))
    /\ cmd.at \in {"client", "tar"} => bundle.lock = cmd.lock
    /\ cmd.at = "tar" => bundle.client = cmd.lock.name
CopyFills ==
    cmd.at = "copy" =>
        LET p == Pair(cmd.from) IN
        /\ cmd.from \in cmd.left
        /\ p \notin past.doubt => /\ cmd.files \subseteq Content[p[2]].files
                                  /\ \A f \in Content[p[2]].files \ cmd.files : bundle.tree[p][f] = p[2]
        /\ p \in bundle.half \cup past.doubt \/ p \notin Pairs(bundle.lock)

\* What is sent is what its identifier says.
SendsWhole ==
    cmd.at = "send" =>
        /\ DOMAIN cmd.sends = DOMAIN cmd.lock.locks
        /\ \A n \in DOMAIN cmd.sends : cmd.sends[n] = Whole(cmd.lock.locks[n].id) \/ Pair(n) \in past.doubt

ArchiveNamesItself ==
    archive \notin {NoBundle, CutBundle} => archive.client = archive.lock.name /\ archive.lock \in archive.policies

DownloadGoes ==
    /\ tarball.target # "cut"
    /\ cmd.at = "rename" => tarball.partial = "whole"
    /\ past.killed \/ cmd.at \in {"stream", "rename"} \/ tarball.partial = "absent"

FilesIInv ==
    /\ EditsAreKnown /\ TreeIsOwn /\ ExportKeeps /\ CopyFills /\ SendsWhole
    /\ BundleKept(bundle) /\ BundleKept(archive) /\ ArchiveNamesItself /\ PushedIsWhole
    /\ DownloadGoes

-----------------------------------------------------------------------------
\* Where a command goes.
LEMMA Moves ==
    ASSUME TypeIInv, [Next]_vars
    PROVE  /\ cmd'.at \in Places =>
                 \/ Export \/ ExportCookbook \/ CopyFile \/ Copies \/ ExportPolicy \/ ExportLock \/ ExportClient
                 \/ /\ cmd'.at = cmd.at /\ cmd'.lock = cmd.lock /\ cmd'.left = cmd.left
                    /\ cmd'.files = cmd.files /\ cmd'.from = cmd.from
                    /\ bundle' = bundle /\ lockfile' = lockfile /\ past'.doubt = past.doubt
           /\ cmd'.at = "identify" =>
                 \/ InstallSolved \/ InstallIdentify
                 \/ /\ cmd.at = "identify" /\ cmd'.lock = cmd.lock /\ cmd.dirty \subseteq cmd'.dirty
                    /\ \A n \in Cookbooks \ cmd'.dirty : disk'[n] = disk[n]
           /\ cmd'.at = "send" =>
                 \/ Push \/ PushArchive
                 \/ cmd.at = "send" /\ cmd'.lock = cmd.lock /\ cmd'.sends = cmd.sends /\ past'.doubt = past.doubt
           /\ cmd'.at \in {"stream", "rename"} =>
                 DownloadBegin \/ DownloadStream \/ (cmd'.at = cmd.at /\ tarball' = tarball)
<1>0. /\ IsCommand(cmd) /\ IsCommand(Resting) /\ Resting.at = "end"
      /\ past = [x \in {"edited", "fresh", "doubt", "killed", "commands", "edits", "cuts"} |-> past[x]]
      /\ DOMAIN disk = Cookbooks
  BY RestingIs DEF TypeIInv, CommandOK, PastTyped
<1> USE DEF At, Refuse, Ends, Goes, Cut, Same, IsCommand, Locals, Places, files
<1>1. CASE UNCHANGED vars
  BY <1>1 DEF vars
<1>2. CASE Create
  BY <1>0, <1>2 DEF Create
<1>3. CASE InstallRead
  BY <1>0, <1>3 DEF InstallRead
<1>4. CASE PrepareEngine \/ CopySiblings
  BY <1>0, <1>4 DEF PrepareEngine, CopySiblings
<1>5. CASE Evaluate
  BY <1>0, <1>5 DEF Evaluate
<1>6. CASE InstallLoad
  BY <1>0, <1>6 DEF InstallLoad
<1>7. CASE InstallSolved
  BY <1>0, <1>7 DEF InstallSolved
<1>8. CASE InstallIdentify
  BY <1>0, <1>8 DEF InstallIdentify
<1>9. CASE InstallWrite
  BY <1>0, <1>9 DEF InstallWrite
<1>10. CASE Export \/ ExportCookbook \/ Copies \/ ExportPolicy \/ ExportLock \/ ExportClient
  <2>1. cmd'.at \in Places \cup {"end"}
    BY <1>0, <1>10 DEF Export, ExportCookbook, Copies, ExportPolicy, ExportLock, ExportClient, ExportWrite
  <2> QED
    BY <1>10, <2>1
<1>11. CASE CopyFile
  <2>1. cmd' = Resting \/ \E f \in cmd.files : cmd' = [cmd EXCEPT !.files = @ \ {f}]
    BY <1>11 DEF CopyFile
  <2>2. cmd.at = "copy"
    BY <1>11 DEF CopyFile
  <2>3. cmd'.at \in Places \cup {"end"}
    BY <1>0, <2>1, <2>2
  <2> QED
    BY <1>11, <2>3
<1>12. CASE ExportTar \/ Send
  BY <1>0, <1>12 DEF ExportTar, Send
<1>13. CASE Push \/ PushArchive
  <2>1. cmd'.at \in {"send", "end"}
    BY <1>0, <1>13 DEF Push, PushArchive, Sending
  <2> QED
    BY <1>13, <2>1
<1>14. CASE PolicyDiffCommand
  BY <1>0, <1>14 DEF PolicyDiffCommand
<1>15. CASE DownloadBegin \/ DownloadStream \/ DownloadRename
  <2>1. cmd'.at \in {"stream", "rename", "end"} /\ (DownloadRename => cmd'.at = "end")
    BY <1>0, <1>15 DEF DownloadBegin, DownloadStream, DownloadRename
  <2> QED
    BY <1>15, <2>1
<1>16. CASE Start
  BY <1>0, <1>16 DEF Start
<1>17. CASE Kill
  BY <1>0, <1>17 DEF Kill
<1>18. CASE InstallSolve
  BY <1>0, <1>18 DEF InstallSolve
<1>19. CASE SolverStep
  BY <1>0, <1>19 DEF SolverStep
<1>20. CASE EditPolicyfile
  BY <1>0, <1>20 DEF EditPolicyfile
<1>21. CASE DeleteLock
  BY <1>0, <1>21 DEF DeleteLock, Running
<1>22. CASE EditCookbook
  <2>1. PICK n \in Cookbooks :
           /\ \E id : disk' = [disk EXCEPT ![n] = id]
           /\ past' = [past EXCEPT !.edits = @ + 1, !.edited = @ \cup {n}]
           /\ cmd' = IF Running THEN [cmd EXCEPT !.dirty = @ \cup {n}, !.calm = FALSE] ELSE cmd
    BY <1>22 DEF EditCookbook
  <2>2. /\ \A m \in Cookbooks \ {n} : disk'[m] = disk[m]
        /\ past'.doubt = past.doubt
    BY <1>0, <2>1
  <2>3. /\ cmd'.at = cmd.at /\ cmd'.lock = cmd.lock /\ cmd'.left = cmd.left /\ cmd'.files = cmd.files
        /\ cmd'.from = cmd.from /\ cmd'.sends = cmd.sends
        /\ cmd.at = "identify" => cmd'.dirty = cmd.dirty \cup {n}
    BY <1>0, <2>1 DEF Running
  <2>4. UNCHANGED <<bundle, lockfile, tarball>>
    BY <1>22 DEF EditCookbook
  <2> QED
    BY <2>2, <2>3, <2>4
<1> QED
  BY <1>1, <1>2, <1>3, <1>4, <1>5, <1>6, <1>7, <1>8, <1>9, <1>10, <1>11, <1>12, <1>13, <1>14, <1>15, <1>16, <1>17,
     <1>18, <1>19, <1>20, <1>21, <1>22 DEF Next, Step, User

\* What is remembered is not forgotten.
LEMMA Remembered ==
    ASSUME TypeIInv, [Next]_vars
    PROVE  /\ past.doubt \subseteq past'.doubt /\ (past.killed => past'.killed)
           /\ past'.edited = past.edited \/ EditCookbook \/ InstallWrite
           /\ past'.fresh = past.fresh \/ InstallWrite
<1>0. past = [x \in {"edited", "fresh", "doubt", "killed", "commands", "edits", "cuts"} |-> past[x]]
  BY DEF TypeIInv, PastTyped
<1> USE DEF Same, Refuse, Cut
<1>1. CASE past' = past
  BY <1>1
<1>2. CASE Create \/ InstallWrite
  BY <1>0, <1>2 DEF Create, InstallWrite
<1>3. CASE ExportCookbook
  BY <1>0, <1>3 DEF ExportCookbook
<1>4. CASE CopyFile
  BY <1>0, <1>4 DEF CopyFile
<1>5. CASE ExportPolicy \/ ExportLock \/ ExportClient
  BY <1>0, <1>5 DEF ExportPolicy, ExportLock, ExportClient, ExportWrite
<1>6. CASE ExportTar
  BY <1>0, <1>6 DEF ExportTar
<1>7. CASE Push
  BY <1>0, <1>7 DEF Push
<1>8. CASE PushArchive
  BY <1>0, <1>8 DEF PushArchive
<1>9. CASE Send
  BY <1>0, <1>9 DEF Send
<1>10. CASE Start
  BY <1>0, <1>10 DEF Start
<1>11. CASE EditCookbook
  BY <1>0, <1>11 DEF EditCookbook
<1>12. CASE EditPolicyfile \/ DeleteLock \/ Kill
  BY <1>0, <1>12 DEF EditPolicyfile, DeleteLock, Kill
<1>13. CASE InstallRead \/ PrepareEngine \/ CopySiblings \/ Evaluate
  BY <1>0, <1>13 DEF InstallRead, PrepareEngine, CopySiblings, Evaluate
<1>14. CASE InstallLoad \/ InstallSolve \/ SolverStep \/ InstallSolved \/ InstallIdentify
  BY <1>0, <1>14 DEF InstallLoad, InstallSolve, SolverStep, InstallSolved, InstallIdentify
<1>15. CASE Export \/ Copies \/ PolicyDiffCommand
  BY <1>0, <1>15 DEF Export, Copies, PolicyDiffCommand
<1>16. CASE DownloadBegin \/ DownloadStream \/ DownloadRename
  BY <1>0, <1>16 DEF DownloadBegin, DownloadStream, DownloadRename
<1> QED
  BY <1>1, <1>2, <1>3, <1>4, <1>5, <1>6, <1>7, <1>8, <1>9, <1>10, <1>11, <1>12, <1>13, <1>14, <1>15, <1>16
  DEF Next, Step, User, vars

LEMMA EditsStep ==
    ASSUME TypeIInv, EditsAreKnown, [Next]_vars PROVE EditsAreKnown'
<1>0. /\ CommandOK(cmd) /\ IsRevision(lockfile) /\ IsRevision(cmd.lock) /\ DOMAIN disk = Cookbooks
      /\ past = [x \in {"edited", "fresh", "doubt", "killed", "commands", "edits", "cuts"} |-> past[x]]
  BY DEF TypeIInv, CommandOK, PastTyped
<1>1. \A n \in DOMAIN lockfile'.locks \ past'.edited : disk'[n] = lockfile'.locks[n].id
  <2>1. CASE EditCookbook
    <3>1. PICK n \in Cookbooks :
             /\ \E id : disk' = [disk EXCEPT ![n] = id]
             /\ past' = [past EXCEPT !.edits = @ + 1, !.edited = @ \cup {n}]
      BY <2>1 DEF EditCookbook
    <3>2. past'.edited = past.edited \cup {n} /\ \A m \in Cookbooks \ {n} : disk'[m] = disk[m]
      BY <1>0, <3>1
    <3>3. lockfile' = lockfile
      BY <2>1 DEF EditCookbook
    <3>4. DOMAIN lockfile.locks \subseteq Cookbooks
      BY <1>0 DEF IsRevision
    <3> QED
      BY <3>2, <3>3, <3>4 DEF EditsAreKnown
  <2>2. CASE InstallWrite
    <3>1. CASE lockfile' = CutLock
      BY <3>1, NoLockIs, EmptySeq
    <3>2. CASE lockfile' = cmd.lock /\ past' = [past EXCEPT !.edited = cmd.dirty, !.fresh = cmd.calm]
      <4>1. past'.edited = cmd.dirty
        BY <1>0, <3>2
      <4>2. disk' = disk /\ cmd.at = "identify"
        BY <2>2 DEF InstallWrite, At
      <4> QED
        BY <3>2, <4>1, <4>2 DEF EditsAreKnown
    <3> QED
      BY <2>2, <3>1, <3>2 DEF InstallWrite
  <2>3. CASE ~EditCookbook /\ ~InstallWrite
    <3>1. disk' = disk /\ past'.edited = past.edited /\ (lockfile' = lockfile \/ lockfile' = NoLock)
      BY <2>3, Writers, Remembered DEF DeleteLock
    <3> QED
      BY <3>1, NoLockIs, EmptySeq DEF EditsAreKnown
  <2> QED
    BY <2>1, <2>2, <2>3
<1>2. ASSUME cmd'.at = "identify" PROVE \A n \in DOMAIN cmd'.lock.locks \ cmd'.dirty : disk'[n] = cmd'.lock.locks[n].id
  <2>1. CASE InstallSolved
    <3>1. cmd'.lock.locks = <<>>
      <4> DEFINE l == Lock(cmd.rb.name, [i \in DOMAIN cmd.rb.runlist |-> Normal(cmd.rb.runlist[i])], <<>>, cmd.rb.attrs)
      <4>1. l.locks = <<>>
        BY DEF Lock
      <4>2. cmd' = Resting \/ cmd' = [cmd EXCEPT !.at = "identify", !.left = DOMAIN solver.answer, !.lock = l]
        BY <2>1 DEF InstallSolved, Ends, Goes
      <4> HIDE DEF l
      <4>3. cmd' = [cmd EXCEPT !.at = "identify", !.left = DOMAIN solver.answer, !.lock = l]
        BY <1>2, <4>2, RestingIs
      <4>4. cmd'.lock = l
        BY <1>0, <4>3 DEF CommandOK, IsCommand, Locals
      <4> QED
        BY <4>1, <4>4
    <3> QED
      BY <3>1, EmptySeq
  <2>2. CASE InstallIdentify
    <3> DEFINE n == Min(cmd.left)
               entry == [version |-> Verbatim(cmd.loaded[n].version), id |-> disk[n]]
    <3>1. /\ cmd.at = "identify" /\ disk' = disk
          /\ cmd' = [cmd EXCEPT !.left = @ \ {n}, !.dirty = @ \ {n}, !.lock.locks = Put(@, n, entry)]
      BY <1>2, <2>2, RestingIs DEF InstallIdentify, Refuse, Ends, Goes, At, Same, files
    <3>2. entry.id = disk[n]
      OBVIOUS
    <3> HIDE DEF n, entry
    <3>3. cmd'.dirty = cmd.dirty \ {n} /\ cmd'.lock = [cmd.lock EXCEPT !.locks = Put(@, n, entry)]
      BY <1>0, <3>1 DEF CommandOK, IsCommand, Locals
    <3>4. cmd'.lock.locks = Put(cmd.lock.locks, n, entry)
      BY <1>0, <3>3 DEF IsRevision, Lock
    <3>5. /\ DOMAIN cmd'.lock.locks = DOMAIN cmd.lock.locks \cup {n} /\ cmd'.lock.locks[n] = entry
          /\ \A x \in DOMAIN cmd.lock.locks : x # n => cmd'.lock.locks[x] = cmd.lock.locks[x]
      BY <3>4 DEF Put
    <3> QED
      BY <3>1, <3>2, <3>3, <3>5 DEF EditsAreKnown
  <2>3. CASE /\ cmd.at = "identify" /\ cmd'.lock = cmd.lock /\ cmd.dirty \subseteq cmd'.dirty
             /\ \A n \in Cookbooks \ cmd'.dirty : disk'[n] = disk[n]
    <3>1. DOMAIN cmd.lock.locks \subseteq Cookbooks
      BY <1>0 DEF IsRevision
    <3> QED
      BY <2>3, <3>1 DEF EditsAreKnown
  <2> QED
    BY <1>2, <2>1, <2>2, <2>3, Moves
<1> QED
  BY <1>1, <1>2 DEF EditsAreKnown

-----------------------------------------------------------------------------
\* What a bundle keeps.
BundleIInv == TreeIsOwn /\ BundleKept(bundle) /\ ExportKeeps /\ CopyFills

LEMMA StillKept ==
    ASSUME NEW q, Kept(bundle, q),
           q \in DOMAIN bundle.tree => q \in DOMAIN bundle'.tree /\ bundle'.tree[q] = bundle.tree[q],
           past.doubt \subseteq past'.doubt, q \in bundle.half => q \in bundle'.half \cup past'.doubt
    PROVE  Kept(bundle, q)'
BY DEF Kept, Faithful

\* A step that leaves the tree alone, as most do.
LEMMA ExportBegins ==
    ASSUME TypeIInv, BundleIInv, Export, [Next]_vars PROVE BundleIInv'
<1>0. CommandOK(cmd) /\ IsRevision(lockfile)
  BY DEF TypeIInv
<1>1. bundle' = bundle /\ past' = past /\ lockfile' = lockfile
  BY DEF Export, Refuse, Same, files
<1>2. CASE cmd' = Resting
  BY <1>1, <1>2, RestingIs DEF BundleIInv, TreeIsOwn, BundleKept, Kept, Faithful, ExportKeeps, CopyFills, Places
<1>3. CASE cmd' # Resting
  <2>1. cmd'.at = "cookbook" /\ cmd'.lock = lockfile /\ cmd'.left = DOMAIN lockfile.locks
    BY <1>0, <1>3 DEF Export, Refuse, Ends, Goes, CommandOK, IsCommand, Locals
  <2> QED
    BY <1>1, <2>1 DEF BundleIInv, TreeIsOwn, BundleKept, Kept, Faithful, ExportKeeps, CopyFills, Places
<1> QED
  BY <1>2, <1>3

LEMMA CookbookBegins ==
    ASSUME TypeIInv, EditsAreKnown, BundleIInv, ExportCookbook, [Next]_vars PROVE BundleIInv'
<1> DEFINE n == Min(cmd.left)
           p == Pair(n)
<1>0. /\ CommandOK(cmd) /\ IsRevision(cmd.lock)
      /\ past = [x \in {"edited", "fresh", "doubt", "killed", "commands", "edits", "cuts"} |-> past[x]]
  BY DEF TypeIInv, CommandOK, PastTyped
<1>1. CASE disk[n] = 0
  <2>1. bundle' = bundle /\ past' = past /\ cmd' = Resting
    BY <1>1 DEF ExportCookbook, Refuse, Same, files, Ends, Goes
  <2> HIDE DEF n, p
  <2> QED
    BY <2>1, RestingIs DEF BundleIInv, TreeIsOwn, BundleKept, Kept, Faithful, ExportKeeps, CopyFills, Places
<1>2. CASE disk[n] # 0
  <2>1. /\ bundle'.tree = IF p \in DOMAIN bundle.tree THEN bundle.tree ELSE Put(bundle.tree, p, NoFiles)
        /\ bundle'.half = IF p \in DOMAIN bundle.tree THEN bundle.half \cup {p} ELSE bundle.half
        /\ bundle'.lock = bundle.lock /\ bundle'.policies = bundle.policies
        /\ n \in cmd.left /\ n \in DOMAIN cmd.lock.locks
    BY <1>2, ExportCookbookBundle
  <2>2. /\ cmd.at = "cookbook" /\ lockfile' = lockfile /\ disk' = disk
        /\ cmd' = [cmd EXCEPT !.at = "copy", !.from = n, !.files = Content[disk[n]].files]
        /\ past' = [past EXCEPT !.doubt = IF n \in past.edited THEN @ \cup {p} ELSE @]
    BY <1>2 DEF ExportCookbook, At
  <2>3. p = <<n, cmd.lock.locks[n].id>> /\ p[2] = cmd.lock.locks[n].id
    BY DEF Pair
  <2> HIDE DEF n, p
  <2>4. /\ cmd'.at = "copy" /\ cmd'.from = n /\ cmd'.files = Content[disk[n]].files
        /\ cmd'.lock = cmd.lock /\ cmd'.left = cmd.left
    BY <1>0, <2>2 DEF CommandOK, IsCommand, Locals
  <2>5. past'.doubt = IF n \in past.edited THEN past.doubt \cup {p} ELSE past.doubt
    BY <1>0, <2>2
  <2>6. /\ p \in DOMAIN bundle'.tree /\ DOMAIN bundle'.tree = DOMAIN bundle.tree \cup {p}
        /\ \A q \in DOMAIN bundle.tree : bundle'.tree[q] = bundle.tree[q]
        /\ p \notin DOMAIN bundle.tree => bundle'.tree[p] = NoFiles
    BY <2>1 DEF Put
  <2>7. TreeIsOwn'
    <3> SUFFICES ASSUME NEW q \in DOMAIN bundle'.tree \ past'.doubt, NEW f \in Files
                 PROVE  /\ bundle'.tree[q][f] \in {NoFile, CutFile, q[2]}
                        /\ f \notin Content[q[2]].files => bundle'.tree[q][f] = NoFile
      BY DEF TreeIsOwn
    <3>1. CASE q \in DOMAIN bundle.tree
      BY <2>5, <2>6, <3>1 DEF BundleIInv, TreeIsOwn
    <3>2. CASE q \notin DOMAIN bundle.tree
      BY <2>6, <3>2 DEF NoFiles
    <3> QED
      BY <3>1, <3>2
  <2>8. \A q : Kept(bundle, q) => Kept(bundle, q)'
    <3> SUFFICES ASSUME NEW q, Kept(bundle, q) PROVE Kept(bundle, q)'
      OBVIOUS
    <3>1. past.doubt \subseteq past'.doubt /\ bundle.half \subseteq bundle'.half
      BY <2>1, <2>5
    <3>2. q \in DOMAIN bundle.tree => q \in DOMAIN bundle'.tree /\ bundle'.tree[q] = bundle.tree[q]
      BY <2>6
    <3> QED
      BY <3>1, <3>2, StillKept
  <2>9. BundleKept(bundle)'
    BY <2>1, <2>8 DEF BundleIInv, BundleKept
  <2>10. ExportKeeps'
    <3>1. cmd.lock = lockfile /\ \A m \in DOMAIN cmd.lock.locks \ cmd.left : Kept(bundle, Pair(m))
      BY <2>2 DEF BundleIInv, ExportKeeps, Places
    <3>2. \A m : Pair(m)' = Pair(m)
      BY <2>4 DEF Pair
    <3>3. (\A m \in DOMAIN cmd.lock.locks \ cmd.left : Kept(bundle, Pair(m)))'
      BY <2>4, <2>8, <3>1, <3>2
    <3> QED
      BY <2>2, <2>4, <3>1, <3>3 DEF ExportKeeps, Places
  <2>11. CopyFills'
    <3>1. Pair(cmd.from)' = p
      BY <2>3, <2>4 DEF Pair
    <3>2. p \notin past'.doubt => cmd'.files = Content[p[2]].files
      <4> SUFFICES ASSUME p \notin past'.doubt PROVE disk[n] = p[2]
        BY <2>4
      <4>1. n \notin past.edited
        BY <2>5
      <4>2. cmd.lock = lockfile
        BY <2>2 DEF BundleIInv, ExportKeeps, Places
      <4> QED
        BY <2>1, <2>3, <4>1, <4>2 DEF EditsAreKnown
    <3>3. p \in bundle'.half \cup past'.doubt \/ p \notin Pairs(bundle'.lock)
      <4>1. CASE p \in DOMAIN bundle.tree
        BY <2>1, <4>1
      <4>2. CASE p \notin DOMAIN bundle.tree /\ p \in Pairs(bundle.lock)
        <5>1. Kept(bundle, p)
          BY <4>2 DEF BundleIInv, BundleKept
        <5> QED
          BY <2>1, <2>5, <4>2, <5>1 DEF Kept, Faithful
      <4> QED
        BY <2>1, <4>1, <4>2
    <3> QED
      BY <2>1, <2>4, <3>1, <3>2, <3>3 DEF CopyFills
  <2> QED
    BY <2>7, <2>9, <2>10, <2>11 DEF BundleIInv
<1> QED
  BY <1>1, <1>2

\* A command that ends has nothing to keep.
LEMMA EndKeeps == ASSUME cmd' = Resting, TreeIsOwn', BundleKept(bundle)' PROVE BundleIInv'
<1>1. cmd'.at = "end"
  BY RestingIs
<1> QED
  BY <1>1 DEF BundleIInv, ExportKeeps, CopyFills, Places

\* A file that is written, whole or cut short.
LEMMA FileWritten ==
    ASSUME TypeIInv, NEW f \in cmd.files, NEW v, cmd.at = "copy", v \in {NoFile, CutFile} \cup Of[cmd.from],
           bundle' = Filled(bundle, Pair(cmd.from), f, v)
    PROVE  LET p == Pair(cmd.from) IN
           /\ f \in Files /\ p \in DOMAIN bundle.tree /\ DOMAIN bundle'.tree = DOMAIN bundle.tree
           /\ \A q \in DOMAIN bundle.tree : q # p => bundle'.tree[q] = bundle.tree[q]
           /\ bundle'.tree[p][f] = v /\ \A g \in Files : g # f => bundle'.tree[p][g] = bundle.tree[p][g]
           /\ bundle'.lock = bundle.lock /\ bundle'.policies = bundle.policies
           /\ bundle'.client = bundle.client /\ bundle'.half = bundle.half
<1> DEFINE p == Pair(cmd.from)
<1>1. /\ BundleTyped(bundle) /\ f \in Files /\ p \in DOMAIN bundle.tree /\ p[1] = cmd.from
      /\ bundle' = Filled(bundle, p, f, v)
  BY DEF TypeIInv, CommandOK, CopyInTree, Pair
<1> HIDE DEF p
<1>2. /\ bundle'.tree = [bundle.tree EXCEPT ![p] = [bundle.tree[p] EXCEPT ![f] = v]]
      /\ bundle'.lock = bundle.lock /\ bundle'.policies = bundle.policies
      /\ bundle'.client = bundle.client /\ bundle'.half = bundle.half
  BY <1>1, FilledIs
<1>3. /\ DOMAIN bundle'.tree = DOMAIN bundle.tree /\ bundle'.tree[p] = [bundle.tree[p] EXCEPT ![f] = v]
      /\ \A q \in DOMAIN bundle.tree : q # p => bundle'.tree[q] = bundle.tree[q]
  BY <1>1, <1>2
<1>4. DOMAIN bundle.tree[p] = Files
  BY <1>1 DEF BundleTyped
<1>5. bundle'.tree[p][f] = v /\ \A g \in Files : g # f => bundle'.tree[p][g] = bundle.tree[p][g]
  BY <1>1, <1>3, <1>4
<1> QED
  BY <1>1, <1>2, <1>3, <1>5 DEF p

\* It is one the cookbook has, if it is the cookbook's own.
LEMMA TreeFilled ==
    ASSUME TypeIInv, TreeIsOwn, CopyFills, NEW f \in cmd.files, NEW v, cmd.at = "copy",
           v \in {NoFile, CutFile} \cup Of[cmd.from],
           bundle' = Filled(bundle, Pair(cmd.from), f, v), past.doubt \subseteq past'.doubt,
           v \in {CutFile, Pair(cmd.from)[2]} \/ Pair(cmd.from) \in past'.doubt
    PROVE  TreeIsOwn'
<1> DEFINE p == Pair(cmd.from)
<1>1. /\ f \in Files /\ p \in DOMAIN bundle.tree /\ DOMAIN bundle'.tree = DOMAIN bundle.tree
      /\ \A q \in DOMAIN bundle.tree : q # p => bundle'.tree[q] = bundle.tree[q]
      /\ bundle'.tree[p][f] = v /\ \A g \in Files : g # f => bundle'.tree[p][g] = bundle.tree[p][g]
  BY FileWritten
<1>2. p \notin past.doubt => cmd.files \subseteq Content[p[2]].files
  BY DEF CopyFills
<1>3. v \in {CutFile, p[2]} \/ p \in past'.doubt
  OBVIOUS
<1> HIDE DEF p
<1> SUFFICES ASSUME NEW q \in DOMAIN bundle'.tree \ past'.doubt, NEW g \in Files
             PROVE  /\ bundle'.tree[q][g] \in {NoFile, CutFile, q[2]}
                    /\ g \notin Content[q[2]].files => bundle'.tree[q][g] = NoFile
  BY DEF TreeIsOwn
<1>4. /\ bundle.tree[q][g] \in {NoFile, CutFile, q[2]}
      /\ g \notin Content[q[2]].files => bundle.tree[q][g] = NoFile
  BY <1>1 DEF TreeIsOwn
<1>5. CASE q = p /\ g = f
  BY <1>1, <1>2, <1>3, <1>5
<1>6. CASE ~(q = p /\ g = f)
  <2>1. bundle'.tree[q][g] = bundle.tree[q][g]
    BY <1>1, <1>6
  <2> QED
    BY <1>4, <2>1
<1> QED
  BY <1>5, <1>6

LEMMA FileCopied ==
    ASSUME TypeIInv, EditsAreKnown, BundleIInv, CopyFile, [Next]_vars PROVE BundleIInv'
<1> DEFINE n == cmd.from
           p == Pair(n)
<1>0. /\ CommandOK(cmd) /\ cmd.at = "copy" /\ lockfile' = lockfile /\ disk' = disk
      /\ past = [x \in {"edited", "fresh", "doubt", "killed", "commands", "edits", "cuts"} |-> past[x]]
      /\ past.doubt \subseteq past'.doubt
  BY Remembered DEF TypeIInv, PastTyped, CopyFile, At
<1>1. PICK f \in cmd.files :
         \/ /\ disk[n] # 0 /\ cmd' = [cmd EXCEPT !.files = @ \ {f}]
            /\ bundle' = Filled(bundle, p, f, disk[n])
            /\ past' = [past EXCEPT !.doubt = IF n \in past.edited THEN @ \cup {p} ELSE @]
         \/ cmd' = Resting /\ bundle' = bundle /\ past' = past
         \/ cmd' = Resting /\ bundle' = Filled(bundle, p, f, CutFile)
  BY DEF CopyFile, Copied, Filled, Holds, Ends, Goes, Cut
<1>2. n \in DOMAIN cmd.lock.locks /\ n \in Cookbooks /\ n \in cmd.left /\ cmd.lock = lockfile
  BY <1>0 DEF CommandOK, BundleIInv, CopyFills, ExportKeeps, Places, IsRevision
<1>3. p \in bundle.half \cup past.doubt \/ p \notin Pairs(bundle.lock)
  BY <1>0 DEF BundleIInv, CopyFills
<1>4. ASSUME NEW v, v \in {NoFile, CutFile} \cup Of[n], bundle' = Filled(bundle, p, f, v)
      PROVE  BundleKept(bundle)' /\ \A q : q # p /\ Kept(bundle, q) => Kept(bundle, q)'
  <2>1. /\ p \in DOMAIN bundle.tree /\ DOMAIN bundle'.tree = DOMAIN bundle.tree
        /\ \A q \in DOMAIN bundle.tree : q # p => bundle'.tree[q] = bundle.tree[q]
        /\ bundle'.lock = bundle.lock /\ bundle'.half = bundle.half
    BY <1>0, <1>4, FileWritten
  <2> HIDE DEF n, p
  <2>2. ASSUME NEW q, q # p, Kept(bundle, q) PROVE Kept(bundle, q)'
    <3>1. q \in DOMAIN bundle.tree => q \in DOMAIN bundle'.tree /\ bundle'.tree[q] = bundle.tree[q]
      BY <2>1, <2>2
    <3> QED
      BY <1>0, <2>1, <2>2, <3>1, StillKept
  <2>3. ASSUME NEW q \in Pairs(bundle.lock) PROVE Kept(bundle, q)'
    <3>1. CASE q = p
      BY <1>0, <1>3, <2>1, <3>1 DEF Kept
    <3>2. CASE q # p
      BY <2>2, <3>2 DEF BundleIInv, BundleKept
    <3> QED
      BY <3>1, <3>2
  <2>4. BundleKept(bundle)'
    BY <2>1, <2>3 DEF BundleKept
  <2> QED
    BY <2>2, <2>4
<1>5. CASE /\ disk[n] # 0 /\ cmd' = [cmd EXCEPT !.files = @ \ {f}]
           /\ bundle' = Filled(bundle, p, f, disk[n])
           /\ past' = [past EXCEPT !.doubt = IF n \in past.edited THEN @ \cup {p} ELSE @]
  <2>1. disk[n] \in {NoFile, CutFile} \cup Of[n]
    BY <1>2, <1>5, OnDisk
  <2>2. /\ f \in Files /\ p \in DOMAIN bundle.tree /\ DOMAIN bundle'.tree = DOMAIN bundle.tree
        /\ bundle'.tree[p][f] = disk[n] /\ \A g \in Files : g # f => bundle'.tree[p][g] = bundle.tree[p][g]
        /\ bundle'.lock = bundle.lock /\ bundle'.half = bundle.half
    BY <1>0, <1>5, <2>1, FileWritten
  <2>3. p = <<n, cmd.lock.locks[n].id>> /\ p[2] = cmd.lock.locks[n].id
    BY DEF Pair
  <2>4. disk[n] = p[2] \/ p \in past'.doubt
    <3>1. CASE n \in past.edited
      BY <1>0, <1>5, <3>1
    <3>2. CASE n \notin past.edited
      BY <1>2, <2>3, <3>2 DEF EditsAreKnown
    <3> QED
      BY <3>1, <3>2
  <2>5. TreeIsOwn'
    BY <1>0, <1>5, <2>1, <2>4, TreeFilled DEF BundleIInv
  <2>6. BundleKept(bundle)' /\ \A q : q # p /\ Kept(bundle, q) => Kept(bundle, q)'
    BY <1>4, <1>5, <2>1
  <2>7. /\ cmd'.at = cmd.at /\ cmd'.lock = cmd.lock /\ cmd'.left = cmd.left /\ cmd'.from = n
        /\ cmd'.files = cmd.files \ {f}
    BY <1>0, <1>5 DEF CommandOK, IsCommand, Locals
  <2>8. ExportKeeps'
    <3>1. \A m \in DOMAIN cmd.lock.locks \ cmd.left : Kept(bundle, Pair(m))
      BY <1>0 DEF BundleIInv, ExportKeeps
    <3>2. ASSUME NEW m \in DOMAIN cmd.lock.locks \ cmd.left PROVE Kept(bundle, <<m, cmd.lock.locks[m].id>>)'
      <4>1. PICK q : q = <<m, cmd.lock.locks[m].id>>
        OBVIOUS
      <4>2. Kept(bundle, q) /\ q # p
        BY <1>2, <2>3, <3>1, <4>1 DEF Pair
      <4>3. Kept(bundle, q)'
        BY <2>6, <4>2
      <4>4. <<m, cmd'.lock.locks[m].id>> = q
        BY <2>7, <4>1
      <4> QED
        BY <4>3, <4>4 DEF Kept, Faithful
    <3>3. (\A m \in DOMAIN cmd.lock.locks \ cmd.left : Kept(bundle, Pair(m)))'
      BY <2>7, <3>2 DEF Pair
    <3> QED
      BY <1>0, <1>2, <2>7, <3>3 DEF ExportKeeps, Places
  <2>9. CopyFills'
    <3>1. Pair(cmd.from)' = p
      BY <2>3, <2>7 DEF Pair
    <3>2. /\ p \notin past.doubt => /\ cmd.files \subseteq Content[p[2]].files
                                    /\ \A g \in Content[p[2]].files \ cmd.files : bundle.tree[p][g] = p[2]
      BY <1>0 DEF BundleIInv, CopyFills
    <3>3. p \in DOMAIN bundle.tree => p[2] \in Of[p[1]]
      BY DEF TypeIInv, BundleTyped
    <3>4. Content[p[2]].files \subseteq Files
      <4>1. p[1] = n /\ p[2] \in Of[n]
        BY <2>2, <3>3 DEF Pair
      <4>2. p[2] \in DOMAIN Content
        BY <1>2, <4>1, WorkspaceAssumption
      <4> QED
        BY <4>2 DEF Files
    <3> HIDE DEF p
    <3>5. ASSUME p \notin past'.doubt
          PROVE  /\ cmd'.files \subseteq Content[p[2]].files
                 /\ \A g \in Content[p[2]].files \ cmd'.files : bundle'.tree[p][g] = p[2]
      <4>1. p \notin past.doubt
        BY <1>0, <3>5
      <4> QED
        BY <2>2, <2>4, <2>7, <3>2, <3>4, <3>5, <4>1
    <3>6. cmd'.from \in cmd'.left
      BY <1>2, <2>7
    <3>7. p \in bundle'.half \cup past'.doubt \/ p \notin Pairs(bundle'.lock)
      BY <1>0, <1>3, <2>2 DEF p
    <3> QED
      BY <3>1, <3>5, <3>6, <3>7 DEF CopyFills
  <2> QED
    BY <2>5, <2>6, <2>8, <2>9 DEF BundleIInv
<1>6. CASE cmd' = Resting /\ bundle' = bundle /\ past' = past
  <2>1. TreeIsOwn' /\ BundleKept(bundle)'
    BY <1>6 DEF BundleIInv, TreeIsOwn, BundleKept, Kept, Faithful
  <2> QED
    BY <1>6, <2>1, EndKeeps
<1>7. CASE cmd' = Resting /\ bundle' = Filled(bundle, p, f, CutFile)
  <2>1. TreeIsOwn'
    BY <1>0, <1>7, TreeFilled DEF BundleIInv
  <2>2. BundleKept(bundle)'
    BY <1>4, <1>7
  <2> QED
    BY <1>7, <2>1, <2>2, EndKeeps
<1> QED
  BY <1>1, <1>5, <1>6, <1>7

\* A cookbook of which every file was copied is whole.
LEMMA CopiesAreWhole ==
    ASSUME TypeIInv, BundleIInv, cmd.at = "copy", cmd.files = {}, NEW p, p = Pair(cmd.from)
    PROVE  Faithful(bundle, p) \/ p \in past.doubt
<1> SUFFICES ASSUME p \notin past.doubt PROVE Faithful(bundle, p)
  OBVIOUS
<1>1. p \in DOMAIN bundle.tree /\ p[2] \in Of[p[1]] /\ p[1] = cmd.from
      /\ bundle.tree[p] \in [Files -> {NoFile, CutFile} \cup Of[p[1]]]
  BY DEF TypeIInv, CopyInTree, BundleTyped, Pair
<1>2. cmd.from \in Cookbooks
  BY DEF TypeIInv, CommandOK, IsRevision
<1>3. p[2] # 0
  BY <1>1, <1>2, WorkspaceAssumption
<1>4. \A f \in Content[p[2]].files : bundle.tree[p][f] = p[2]
  BY DEF BundleIInv, CopyFills
<1>5. \A f \in Files : f \notin Content[p[2]].files => bundle.tree[p][f] = NoFile
  BY <1>1 DEF BundleIInv, TreeIsOwn
<1>6. \A f \in Files : bundle.tree[p][f] = Whole(p[2])[f]
  BY <1>3, <1>4, <1>5 DEF Whole
<1>7. Whole(p[2]) = [f \in Files |-> Whole(p[2])[f]]
  BY DEF Whole
<1>8. bundle.tree[p] = [f \in Files |-> bundle.tree[p][f]]
  BY <1>1
<1> QED
  BY <1>1, <1>6, <1>7, <1>8 DEF Faithful

LEMMA CopyEnds ==
    ASSUME TypeIInv, BundleIInv, Copies, [Next]_vars PROVE BundleIInv'
<1> DEFINE n == cmd.from
<1>0. PICK p : p = Pair(n)
  OBVIOUS
<1>1. /\ CommandOK(cmd) /\ BundleTyped(bundle) /\ cmd.at = "copy" /\ cmd.files = {}
      /\ cmd' = [cmd EXCEPT !.at = "cookbook", !.left = @ \ {n}]
      /\ bundle' = [bundle EXCEPT !.half = @ \ {p}]
      /\ past' = past /\ lockfile' = lockfile
  BY <1>0 DEF TypeIInv, Copies, At
<1>2. /\ cmd'.at = "cookbook" /\ cmd'.lock = cmd.lock /\ cmd'.left = cmd.left \ {n}
      /\ bundle'.tree = bundle.tree /\ bundle'.lock = bundle.lock /\ bundle'.half = bundle.half \ {p}
  BY <1>1 DEF CommandOK, IsCommand, Locals, BundleTyped
<1>3. Faithful(bundle, p) \/ p \in past.doubt
  BY <1>0, <1>1, CopiesAreWhole
<1>4. \A q : q = p \/ Kept(bundle, q) => Kept(bundle, q)'
  BY <1>1, <1>2, <1>3 DEF Kept, Faithful
<1>5. TreeIsOwn'
  BY <1>1, <1>2 DEF BundleIInv, TreeIsOwn
<1>6. BundleKept(bundle)'
  BY <1>2, <1>4 DEF BundleIInv, BundleKept
<1>7. ExportKeeps'
  <2>1. /\ cmd.lock = lockfile
        /\ \A m \in DOMAIN cmd.lock.locks \ cmd.left : Kept(bundle, Pair(m))
    BY <1>1 DEF BundleIInv, ExportKeeps, Places
  <2>2. ASSUME NEW m \in DOMAIN cmd.lock.locks \ (cmd.left \ {n}) PROVE Kept(bundle, <<m, cmd.lock.locks[m].id>>)'
    <3>1. PICK q : q = <<m, cmd.lock.locks[m].id>>
      OBVIOUS
    <3>2. q = p \/ Kept(bundle, q)
      BY <1>0, <2>1, <3>1 DEF Pair
    <3>3. Kept(bundle, q)'
      BY <1>4, <3>2
    <3>4. <<m, cmd'.lock.locks[m].id>> = q
      BY <1>2, <3>1
    <3> QED
      BY <3>3, <3>4 DEF Kept, Faithful
  <2>3. (\A m \in DOMAIN cmd.lock.locks \ cmd.left : Kept(bundle, Pair(m)))'
    BY <1>2, <2>2 DEF Pair
  <2> QED
    BY <1>1, <1>2, <2>1, <2>3 DEF ExportKeeps, Places
<1> QED
  BY <1>2, <1>5, <1>6, <1>7 DEF BundleIInv, CopyFills

\* What the export writes besides: the policies, the lock, the client.
LEMMA WritesKeep ==
    ASSUME BundleIInv, bundle'.tree = bundle.tree, bundle'.half = bundle.half, past.doubt \subseteq past'.doubt
    PROVE  TreeIsOwn' /\ (bundle'.lock = bundle.lock => BundleKept(bundle)') /\ \A q : Kept(bundle, q) => Kept(bundle, q)'
<1>1. \A q : Kept(bundle, q) => Kept(bundle, q)'
  BY DEF Kept, Faithful
<1>2. TreeIsOwn'
  BY DEF BundleIInv, TreeIsOwn
<1>3. bundle'.lock = bundle.lock => BundleKept(bundle)'
  BY <1>1 DEF BundleIInv, BundleKept
<1> QED
  BY <1>1, <1>2, <1>3

\* Every cookbook is kept from there on.
LEMMA AllKept ==
    ASSUME cmd'.lock = cmd.lock, \A q : Kept(bundle, q) => Kept(bundle, q)',
           \A m \in DOMAIN cmd.lock.locks : Kept(bundle, Pair(m))
    PROVE  (\A m \in DOMAIN cmd.lock.locks : Kept(bundle, Pair(m)))'
<1>1. ASSUME NEW m \in DOMAIN cmd.lock.locks PROVE Kept(bundle, <<m, cmd.lock.locks[m].id>>)'
  <2>1. PICK q : q = <<m, cmd.lock.locks[m].id>>
    OBVIOUS
  <2>2. Kept(bundle, q)'
    BY <2>1 DEF Pair
  <2>3. <<m, cmd'.lock.locks[m].id>> = q
    BY <2>1
  <2> QED
    BY <2>2, <2>3 DEF Kept, Faithful
<1> QED
  BY <1>1 DEF Pair

LEMMA PolicyWritten ==
    ASSUME TypeIInv, BundleIInv, ExportPolicy, [Next]_vars PROVE BundleIInv'
<1>0. /\ CommandOK(cmd) /\ BundleTyped(bundle) /\ cmd.at = "cookbook" /\ cmd.left = {} /\ lockfile' = lockfile
      /\ past.doubt \subseteq past'.doubt
  BY Remembered DEF TypeIInv, ExportPolicy, ExportWrite, At
<1>1. /\ cmd.lock = lockfile /\ \A m \in DOMAIN cmd.lock.locks : Kept(bundle, Pair(m))
  BY <1>0 DEF BundleIInv, ExportKeeps, Places
<1>2. CASE bundle' = [bundle EXCEPT !.policies = @ \cup {cmd.lock}] /\ cmd' = [cmd EXCEPT !.at = "lock"]
  <2>1. /\ bundle'.tree = bundle.tree /\ bundle'.half = bundle.half /\ bundle'.lock = bundle.lock
        /\ cmd.lock \in bundle'.policies
    BY <1>0, <1>2 DEF BundleTyped
  <2>2. cmd'.at = "lock" /\ cmd'.lock = cmd.lock
    BY <1>0, <1>2 DEF CommandOK, IsCommand, Locals
  <2>3. TreeIsOwn' /\ BundleKept(bundle)' /\ \A q : Kept(bundle, q) => Kept(bundle, q)'
    BY <1>0, <2>1, WritesKeep
  <2>4. (\A m \in DOMAIN cmd.lock.locks : Kept(bundle, Pair(m)))'
    BY <1>1, <2>2, <2>3, AllKept
  <2> QED
    BY <1>0, <1>1, <2>1, <2>2, <2>3, <2>4 DEF BundleIInv, ExportKeeps, CopyFills, Places
<1>3. CASE bundle' = [bundle EXCEPT !.policies = @ \ {cmd.lock}] /\ cmd' = Resting
  <2>1. bundle'.tree = bundle.tree /\ bundle'.half = bundle.half /\ bundle'.lock = bundle.lock
    BY <1>0, <1>3 DEF BundleTyped
  <2> QED
    BY <1>0, <1>3, <2>1, WritesKeep, EndKeeps
<1> QED
  BY <1>2, <1>3 DEF ExportPolicy, ExportWrite, Goes, Ends, Cut

LEMMA LockWritten ==
    ASSUME TypeIInv, BundleIInv, ExportLock, [Next]_vars PROVE BundleIInv'
<1>0. /\ CommandOK(cmd) /\ BundleTyped(bundle) /\ cmd.at = "lock" /\ lockfile' = lockfile
      /\ past.doubt \subseteq past'.doubt
  BY Remembered DEF TypeIInv, ExportLock, ExportWrite, At
<1>1. /\ cmd.lock = lockfile /\ \A m \in DOMAIN cmd.lock.locks : Kept(bundle, Pair(m))
      /\ cmd.lock \in bundle.policies
  BY <1>0 DEF BundleIInv, ExportKeeps, Places
<1>2. CASE bundle' = [bundle EXCEPT !.lock = cmd.lock] /\ cmd' = [cmd EXCEPT !.at = "client"]
  <2>1. /\ bundle'.tree = bundle.tree /\ bundle'.half = bundle.half /\ bundle'.lock = cmd.lock
        /\ bundle'.policies = bundle.policies
    BY <1>0, <1>2 DEF BundleTyped
  <2>2. cmd'.at = "client" /\ cmd'.lock = cmd.lock
    BY <1>0, <1>2 DEF CommandOK, IsCommand, Locals
  <2>3. TreeIsOwn' /\ \A q : Kept(bundle, q) => Kept(bundle, q)'
    BY <1>0, <2>1, WritesKeep
  <2>4. (\A m \in DOMAIN cmd.lock.locks : Kept(bundle, Pair(m)))'
    BY <1>1, <2>2, <2>3, AllKept
  <2>5. BundleKept(bundle)'
    <3>1. Pairs(bundle'.lock) = {Pair(m) : m \in DOMAIN cmd.lock.locks}
      BY <2>1 DEF Pairs, Pair
    <3>2. \A q \in Pairs(bundle'.lock) : Kept(bundle, q)
      BY <1>1, <3>1
    <3> QED
      BY <2>3, <3>2 DEF BundleKept
  <2> QED
    BY <1>0, <1>1, <2>1, <2>2, <2>3, <2>4, <2>5 DEF BundleIInv, ExportKeeps, CopyFills, Places
<1>3. CASE bundle' = [bundle EXCEPT !.lock = CutLock] /\ cmd' = Resting
  <2>1. bundle'.tree = bundle.tree /\ bundle'.half = bundle.half /\ bundle'.lock = CutLock
    BY <1>0, <1>3 DEF BundleTyped
  <2>2. BundleKept(bundle)'
    BY <2>1, NoLockIs DEF BundleKept
  <2> QED
    BY <1>0, <1>3, <2>1, <2>2, WritesKeep, EndKeeps
<1> QED
  BY <1>2, <1>3 DEF ExportLock, ExportWrite, Goes, Ends, Cut

LEMMA ClientWritten ==
    ASSUME TypeIInv, BundleIInv, ExportClient, [Next]_vars PROVE BundleIInv'
<1>0. /\ CommandOK(cmd) /\ BundleTyped(bundle) /\ cmd.at = "client" /\ lockfile' = lockfile
      /\ past.doubt \subseteq past'.doubt
  BY Remembered DEF TypeIInv, ExportClient, ExportWrite, At
<1>1. /\ cmd.lock = lockfile /\ \A m \in DOMAIN cmd.lock.locks : Kept(bundle, Pair(m))
      /\ cmd.lock \in bundle.policies /\ bundle.lock = cmd.lock
  BY <1>0 DEF BundleIInv, ExportKeeps, Places
<1>2. PICK v : bundle' = [bundle EXCEPT !.client = v] /\ (cmd' # Resting => v = cmd.lock.name)
               /\ (cmd' = Resting \/ cmd' = [cmd EXCEPT !.at = "tar"])
  BY DEF ExportClient, ExportWrite, Goes, Ends, Cut
<1>3. /\ bundle'.tree = bundle.tree /\ bundle'.half = bundle.half /\ bundle'.lock = bundle.lock
      /\ bundle'.policies = bundle.policies /\ bundle'.client = v
  BY <1>0, <1>2 DEF BundleTyped
<1>4. TreeIsOwn' /\ BundleKept(bundle)' /\ \A q : Kept(bundle, q) => Kept(bundle, q)'
  BY <1>0, <1>3, WritesKeep
<1>5. CASE cmd' = Resting
  BY <1>4, <1>5, EndKeeps
<1>6. CASE cmd' # Resting
  <2>1. cmd'.at = "tar" /\ cmd'.lock = cmd.lock
    BY <1>0, <1>2, <1>6 DEF CommandOK, IsCommand, Locals
  <2>2. (\A m \in DOMAIN cmd.lock.locks : Kept(bundle, Pair(m)))'
    BY <1>1, <1>4, <2>1, AllKept
  <2> QED
    BY <1>0, <1>1, <1>2, <1>3, <1>4, <1>6, <2>1, <2>2 DEF BundleIInv, ExportKeeps, CopyFills, Places
<1> QED
  BY <1>5, <1>6

\* Every step keeps what a bundle keeps.
LEMMA BundleKeepStep ==
    ASSUME TypeIInv, EditsAreKnown, BundleIInv, [Next]_vars PROVE BundleIInv'
<1>1. CASE Export
  BY <1>1, ExportBegins
<1>2. CASE ExportCookbook
  BY <1>2, CookbookBegins
<1>3. CASE CopyFile
  BY <1>3, FileCopied
<1>4. CASE Copies
  BY <1>4, CopyEnds
<1>5. CASE ExportPolicy
  BY <1>5, PolicyWritten
<1>6. CASE ExportLock
  BY <1>6, LockWritten
<1>7. CASE ExportClient
  BY <1>7, ClientWritten
<1>8. CASE ~(Export \/ ExportCookbook \/ CopyFile \/ Copies \/ ExportPolicy \/ ExportLock \/ ExportClient)
  <2>1. bundle' = bundle
    BY <1>8, Writers
  <2>2. past.doubt \subseteq past'.doubt
    BY Remembered
  <2>3. TreeIsOwn' /\ BundleKept(bundle)' /\ \A q : Kept(bundle, q) => Kept(bundle, q)'
    BY <2>1, <2>2, WritesKeep
  <2>4. cmd'.at \in Places =>
            /\ cmd'.at = cmd.at /\ cmd'.lock = cmd.lock /\ cmd'.left = cmd.left /\ cmd'.files = cmd.files
            /\ cmd'.from = cmd.from /\ lockfile' = lockfile /\ past'.doubt = past.doubt
    BY <1>8, Moves
  <2>5. CASE cmd'.at \notin Places
    BY <2>3, <2>5 DEF BundleIInv, ExportKeeps, CopyFills, Places
  <2>6. CASE cmd'.at \in Places
    <3>1. ExportKeeps'
      BY <2>1, <2>4, <2>6 DEF BundleIInv, ExportKeeps, Kept, Faithful, Pair
    <3>2. CopyFills'
      BY <2>1, <2>4, <2>6 DEF BundleIInv, CopyFills, Pair, Pairs
    <3> QED
      BY <2>3, <3>1, <3>2 DEF BundleIInv
  <2> QED
    BY <2>5, <2>6
<1> QED
  BY <1>1, <1>2, <1>3, <1>4, <1>5, <1>6, <1>7, <1>8

LEMMA ArchiveStep ==
    ASSUME TypeIInv, BundleIInv, BundleKept(archive), ArchiveNamesItself, [Next]_vars
    PROVE  BundleKept(archive)' /\ ArchiveNamesItself'
<1>0. past.doubt \subseteq past'.doubt
  BY Remembered
<1>1. CASE archive' = archive
  BY <1>0, <1>1 DEF BundleKept, Kept, Faithful, ArchiveNamesItself
<1>2. CASE ExportTar /\ archive' = bundle /\ past' = past
  <2>1. cmd.at = "tar"
    BY <1>2 DEF ExportTar, At
  <2>2. bundle.client = bundle.lock.name /\ bundle.lock \in bundle.policies
    BY <2>1 DEF BundleIInv, ExportKeeps, Places
  <2> QED
    BY <1>2, <2>2 DEF BundleIInv, BundleKept, Kept, Faithful, ArchiveNamesItself
<1>3. CASE archive' = CutBundle
  BY <1>3, NoBundleIs, NoLockIs DEF BundleKept, ArchiveNamesItself
<1> QED
  BY <1>1, <1>2, <1>3, Writers DEF ExportTar

\* What push-archive opens keeps what it has cookbooks for.
LEMMA OpenedKeeps ==
    ASSUME TypeIInv, BundleKept(bundle), BundleKept(archive), NEW from, Present(Opened(from))
    PROVE  BundleKept(Opened(from))
<1> DEFINE b == Opened(from)
<1>1. CASE b \in {bundle, archive}
  BY <1>1
<1>2. CASE b = NoBundle
  BY <1>2, NoBundleIs, NoLockIs DEF BundleKept
<1>3. CASE b = [NoBundle EXCEPT !.lock = lockfile]
  <2>1. b.tree = <<>>
    BY <1>3, NoBundleIs DEF BundleTyped
  <2>2. Pairs(b.lock) = {}
    BY <2>1, EmptySeq DEF Present
  <2> QED
    BY <2>2 DEF BundleKept
<1> QED
  BY <1>1, <1>2, <1>3 DEF Opened

LEMMA SendsStep ==
    ASSUME TypeIInv, EditsAreKnown, BundleKept(bundle), BundleKept(archive), SendsWhole, [Next]_vars
    PROVE  SendsWhole'
<1>0. /\ CommandOK(cmd) /\ IsRevision(lockfile)
      /\ past = [x \in {"edited", "fresh", "doubt", "killed", "commands", "edits", "cuts"} |-> past[x]]
  BY DEF TypeIInv, PastTyped
<1> SUFFICES ASSUME cmd'.at = "send" PROVE SendsWhole'
  BY DEF SendsWhole
<1>1. CASE Push
  <2>1. /\ cmd' = [cmd EXCEPT !.at = "send", !.lock = lockfile, !.sends = [n \in DOMAIN lockfile.locks |-> Whole(disk[n])]]
        /\ past' = [past EXCEPT !.doubt = @ \cup {p \in Pairs(lockfile) : p[1] \in past.edited}]
    BY <1>1, RestingIs DEF Push, Refuse, Ends, Goes, Sending
  <2>2. cmd'.lock = lockfile /\ cmd'.sends = [n \in DOMAIN lockfile.locks |-> Whole(disk[n])]
    BY <1>0, <2>1 DEF CommandOK, IsCommand, Locals
  <2>3. past'.doubt = past.doubt \cup {p \in Pairs(lockfile) : p[1] \in past.edited}
    BY <1>0, <2>1
  <2>4. ASSUME NEW n \in DOMAIN lockfile.locks
        PROVE  Whole(disk[n]) = Whole(lockfile.locks[n].id) \/ <<n, lockfile.locks[n].id>> \in past'.doubt
    <3>1. CASE n \in past.edited
      BY <2>3, <3>1 DEF Pairs
    <3>2. CASE n \notin past.edited
      BY <3>2 DEF EditsAreKnown
    <3> QED
      BY <3>1, <3>2
  <2> QED
    BY <2>2, <2>4 DEF SendsWhole, Pair
<1>2. CASE PushArchive
  <2>1. PICK b : /\ b = Opened(Chosen1(cmd.what.arg)) /\ Present(b)
                 /\ cmd' = [cmd EXCEPT !.at = "send", !.lock = b.lock,
                                       !.sends = [n \in DOMAIN b.lock.locks |-> Contents(b, <<n, b.lock.locks[n].id>>)]]
                 /\ past' = [past EXCEPT !.doubt = @ \cup (b.half \cap Pairs(b.lock))]
    BY <1>2, RestingIs DEF PushArchive, Refuse, Ends, Goes, Sending
  <2>2. BundleKept(b)
    BY <2>1, OpenedKeeps
  <2>3. cmd'.lock = b.lock /\ cmd'.sends = [n \in DOMAIN b.lock.locks |-> Contents(b, <<n, b.lock.locks[n].id>>)]
    BY <1>0, <2>1 DEF CommandOK, IsCommand, Locals
  <2>4. past'.doubt = past.doubt \cup (b.half \cap Pairs(b.lock))
    BY <1>0, <2>1
  <2>5. ASSUME NEW n \in DOMAIN b.lock.locks
        PROVE  LET p == <<n, b.lock.locks[n].id>> IN Contents(b, p) = Whole(p[2]) \/ p \in past'.doubt
    <3> DEFINE p == <<n, b.lock.locks[n].id>>
    <3>1. p \in Pairs(b.lock)
      BY DEF Pairs
    <3> HIDE DEF p
    <3>2. Kept(b, p)
      BY <2>2, <3>1 DEF BundleKept
    <3>3. p \in DOMAIN b.tree
      BY <2>1, <3>1 DEF Present
    <3>4. Contents(b, p) = Whole(p[2]) \/ p \in past'.doubt
      BY <2>4, <3>1, <3>2, <3>3 DEF Kept, Faithful, Contents
    <3> QED
      BY <3>4 DEF p
  <2> QED
    BY <2>3, <2>5 DEF SendsWhole, Pair
<1>3. CASE cmd.at = "send" /\ cmd'.lock = cmd.lock /\ cmd'.sends = cmd.sends /\ past'.doubt = past.doubt
  BY <1>3 DEF SendsWhole, Pair
<1> QED
  BY <1>1, <1>2, <1>3, Moves

LEMMA PushedStep ==
    ASSUME TypeIInv, SendsWhole, PushedIsWhole, [Next]_vars PROVE PushedIsWhole'
<1>0. ServerTyped(server) /\ past.doubt \subseteq past'.doubt
  BY Remembered DEF TypeIInv
<1>1. CASE Send
  <2>1. cmd.at = "send"
    BY <1>1 DEF Send
  <2>2. PICK names : names \subseteq DOMAIN cmd.sends /\ server'.artifacts = Uploaded(names)
    BY <1>0, <1>1 DEF Send, ServerTyped
  <2> SUFFICES ASSUME NEW a \in DOMAIN Uploaded(names)
               PROVE  Uploaded(names)[a] = Whole(a[2]) \/ a \in past'.doubt
    BY <2>2 DEF PushedIsWhole
  <2>3. CASE a \in DOMAIN server.artifacts
    <3>1. Uploaded(names)[a] = server.artifacts[a]
      BY <2>3 DEF Uploaded
    <3> QED
      BY <1>0, <2>3, <3>1 DEF PushedIsWhole
  <2>4. CASE a \notin DOMAIN server.artifacts
    <3>1. a \in Pairs(cmd.lock) /\ a[1] \in names /\ Uploaded(names)[a] = cmd.sends[a[1]]
      BY <2>4 DEF Uploaded
    <3>2. PICK n \in DOMAIN cmd.lock.locks : a = <<n, cmd.lock.locks[n].id>>
      BY <3>1 DEF Pairs
    <3>3. cmd.sends[n] = Whole(cmd.lock.locks[n].id) \/ Pair(n) \in past.doubt
      BY <2>1, <2>2, <3>1, <3>2 DEF SendsWhole
    <3> QED
      BY <1>0, <3>1, <3>2, <3>3 DEF Pair
  <2> QED
    BY <2>3, <2>4
<1>2. CASE server' = server
  BY <1>0, <1>2 DEF PushedIsWhole
<1> QED
  BY <1>1, <1>2, Writers

\* Nothing but a kill keeps a download from its end.
LEMMA Streaming ==
    ASSUME TypeIInv, [Next]_vars, cmd.at \in {"stream", "rename"}, ~(DownloadBegin \/ DownloadStream \/ DownloadRename)
    PROVE  cmd'.at = cmd.at \/ past'.killed
<1>0. IsCommand(cmd) /\ PastTyped(past)
  BY DEF TypeIInv, CommandOK
<1>1. CASE cmd' = cmd
  BY <1>1
<1>2. CASE EditCookbook
  <2>1. cmd' = cmd \/ \E n : cmd' = [cmd EXCEPT !.dirty = @ \cup {n}, !.calm = FALSE]
    BY <1>2 DEF EditCookbook
  <2> QED
    BY <1>0, <2>1 DEF IsCommand, Locals
<1>3. CASE Kill
  BY <1>0, <1>3 DEF Kill, Cut, PastTyped
<1>4. ~Start
  BY DEF Start, Running
<1>5. ~(Create \/ InstallRead \/ PrepareEngine \/ CopySiblings \/ Evaluate \/ InstallLoad \/ InstallSolve)
  BY DEF Create, InstallRead, PrepareEngine, CopySiblings, Evaluate, InstallLoad, InstallSolve, At
<1>6. ~(InstallSolved \/ InstallIdentify \/ InstallWrite \/ Export \/ ExportCookbook \/ CopyFile \/ Copies)
  BY DEF InstallSolved, InstallIdentify, InstallWrite, Export, ExportCookbook, CopyFile, Copies, At
<1>7. ~(ExportPolicy \/ ExportLock \/ ExportClient \/ ExportTar \/ Push \/ PushArchive \/ Send \/ PolicyDiffCommand)
  BY DEF ExportPolicy, ExportLock, ExportClient, ExportTar, Push, PushArchive, Send, PolicyDiffCommand, At
<1>8. CASE SolverStep \/ EditPolicyfile \/ DeleteLock
  BY <1>8 DEF SolverStep, EditPolicyfile, DeleteLock
<1> QED
  BY <1>1, <1>2, <1>3, <1>4, <1>5, <1>6, <1>7, <1>8 DEF Next, Step, User, vars

LEMMA DownloadStep ==
    ASSUME TypeIInv, DownloadGoes, [Next]_vars PROVE DownloadGoes'
<1>0. TarballTyped(tarball) /\ CommandOK(cmd) /\ (past.killed => past'.killed)
  BY Remembered DEF TypeIInv
<1>1. CASE DownloadBegin
  <2>1. CASE cmd' = Resting /\ tarball' = tarball
    <3>1. cmd.at = "begin"
      BY <1>1 DEF DownloadBegin, At
    <3> QED
      BY <1>0, <2>1, <3>1, RestingIs DEF DownloadGoes
  <2>2. CASE tarball' = [tarball EXCEPT !.partial = "cut"] /\ cmd' = [cmd EXCEPT !.at = "stream"]
    <3>1. cmd'.at = "stream" /\ tarball'.target = tarball.target
      BY <1>0, <2>2 DEF CommandOK, IsCommand, Locals, TarballTyped
    <3> QED
      BY <3>1 DEF DownloadGoes
  <2> QED
    BY <1>1, <2>1, <2>2 DEF DownloadBegin, Refuse, Ends, Goes, Same, files, Tarballs
<1>2. CASE DownloadStream
  <2>1. CASE tarball' = [tarball EXCEPT !.partial = "whole"] /\ cmd' = [cmd EXCEPT !.at = "rename"]
    <3>1. cmd'.at = "rename" /\ tarball'.target = tarball.target /\ tarball'.partial = "whole"
      BY <1>0, <2>1 DEF CommandOK, IsCommand, Locals, TarballTyped
    <3> QED
      BY <3>1 DEF DownloadGoes
  <2>2. CASE tarball' = [tarball EXCEPT !.partial = "absent"] /\ cmd' = Resting
    <3>1. tarball'.target = tarball.target /\ tarball'.partial = "absent"
      BY <1>0, <2>2 DEF TarballTyped
    <3> QED
      BY <2>2, <3>1, RestingIs DEF DownloadGoes
  <2> QED
    BY <1>2, <2>1, <2>2 DEF DownloadStream, Ends, Goes, Tarballs
<1>3. CASE DownloadRename
  <2>1. cmd' = Resting /\ cmd.at = "rename"
    BY <1>3 DEF DownloadRename, Ends, Goes, At
  <2>2. tarball'.partial = "absent" /\ tarball'.target \in {tarball.target, tarball.partial}
    BY <1>0, <1>3 DEF DownloadRename, Tarballs, TarballTyped
  <2> QED
    BY <2>1, <2>2, RestingIs DEF DownloadGoes
<1>4. CASE tarball' = tarball /\ ~(DownloadBegin \/ DownloadStream \/ DownloadRename)
  <2>1. cmd'.at \in {"stream", "rename"} => cmd'.at = cmd.at
    BY <1>4, Moves
  <2>2. cmd.at \in {"stream", "rename"} => cmd'.at = cmd.at \/ past'.killed
    BY <1>4, Streaming
  <2> QED
    BY <1>0, <1>4, <2>1, <2>2 DEF DownloadGoes
<1> QED
  BY <1>1, <1>2, <1>3, <1>4, Writers

LEMMA FilesInit == Init => FilesIInv
<1> SUFFICES ASSUME Init PROVE FilesIInv
  OBVIOUS
<1>1. /\ lockfile = NoLock /\ bundle = NoBundle /\ archive = NoBundle /\ cmd = Resting /\ past.edited = {}
      /\ tarball.target = "absent" /\ tarball.partial = "absent"
  BY DEF Init
<1>2. cmd.at = "end" /\ DOMAIN bundle.tree = {} /\ Pairs(bundle.lock) = {} /\ DOMAIN lockfile.locks = {}
  <2>1. cmd.at = "end"
    BY <1>1, RestingIs
  <2>2. bundle.tree = <<>> /\ bundle.lock = NoLock /\ lockfile.locks = <<>>
    BY <1>1, NoBundleIs, NoLockIs
  <2>3. Pairs(bundle.lock) = {}
    BY <2>2, NoLockIs
  <2> QED
    BY <2>1, <2>2, <2>3, EmptySeq
<1>3. PushedIsWhole
  <2>1. IsServer(server)
    BY WorkspaceAssumption DEF Init
  <2> QED
    BY <2>1 DEF IsServer, PushedIsWhole
<1>4. EditsAreKnown /\ TreeIsOwn /\ ExportKeeps /\ CopyFills /\ SendsWhole
  BY <1>2 DEF EditsAreKnown, TreeIsOwn, ExportKeeps, CopyFills, SendsWhole, Places
<1>5. BundleKept(bundle) /\ BundleKept(archive) /\ ArchiveNamesItself
  BY <1>1, <1>2 DEF BundleKept, ArchiveNamesItself
<1>6. DownloadGoes
  BY <1>1, <1>2 DEF DownloadGoes
<1> QED
  BY <1>3, <1>4, <1>5, <1>6 DEF FilesIInv

LEMMA FilesKeepStep == TypeIInv /\ FilesIInv /\ [Next]_vars => FilesIInv'
<1> SUFFICES ASSUME TypeIInv, FilesIInv, [Next]_vars PROVE FilesIInv'
  OBVIOUS
<1>1. EditsAreKnown'
  BY EditsStep DEF FilesIInv
<1>2. BundleIInv /\ BundleIInv'
  <2>1. BundleIInv
    BY DEF FilesIInv, BundleIInv
  <2> QED
    BY <2>1, BundleKeepStep DEF FilesIInv
<1>3. BundleKept(archive)' /\ ArchiveNamesItself'
  BY <1>2, ArchiveStep DEF FilesIInv
<1>4. SendsWhole' /\ PushedIsWhole'
  BY SendsStep, PushedStep DEF FilesIInv
<1>5. DownloadGoes'
  BY DownloadStep DEF FilesIInv
<1> QED
  BY <1>1, <1>2, <1>3, <1>4, <1>5 DEF FilesIInv, BundleIInv

\* Locks, bundles, archives, the server and downloads hold what they are named for, wherever
\* a command was cut short, unless a cookbook was edited in between (export.go, archive.go,
\* policy_deploy.go, download.go).
THEOREM FilesAreWholeAlways == Spec => []FilesAreWhole
<1>1. Init => TypeIInv /\ FilesIInv
  BY TypeInit, FilesInit
<1>2. TypeIInv /\ FilesIInv /\ [Next]_vars => (TypeIInv /\ FilesIInv)'
  BY TypeStep, FilesKeepStep
<1>3. TypeIInv /\ FilesIInv => FilesAreWhole
  <2> SUFFICES ASSUME TypeIInv, FilesIInv PROVE FilesAreWhole
    OBVIOUS
  <2>1. TypeOK
    BY TypesAre
  <2>2. BundleIsWhole
    BY DEF FilesIInv, BundleKept, Kept, ArchiveNamesItself, BundleIsWhole
  <2>3. TarballIsWhole
    BY DEF FilesIInv, DownloadGoes, TarballIsWhole, Running
  <2> QED
    BY <2>1, <2>2, <2>3 DEF FilesIInv, FilesAreWhole
<1> QED
  BY <1>1, <1>2, <1>3, PTL DEF Spec

(***************************************************************************)
(* The lock                                                                *)
(***************************************************************************)

\* A cookbook whose constraints can all be read.
Clean(id) == Malformed \notin {d.con : d \in Range(Content[id].deps)}
Doing == {"load", "solve", "identify"}

\* What has been loaded: what the Policyfile declares, and, when nothing was edited, as it is on disk.
LoadsAreNow ==
    /\ cmd.at \notin Doing => DOMAIN cmd.loaded = {}
    /\ cmd.at = "load" => DOMAIN cmd.loaded \cup cmd.left = DOMAIN cmd.rb.specs
    /\ cmd.at = "solve" => DOMAIN cmd.loaded = DOMAIN cmd.rb.specs
    /\ \A n \in DOMAIN cmd.loaded : \E i \in DOMAIN Content : cmd.loaded[n] = Loaded(i) /\ Clean(i)
    /\ cmd.calm => \A n \in DOMAIN cmd.loaded : disk[n] # 0 /\ cmd.loaded[n] = Loaded(disk[n]) /\ Clean(disk[n])

\* Of the cookbooks chosen, those still to be identified and those that are.
Choice == cmd.left \cup DOMAIN cmd.lock.locks
ChoiceIsClosed ==
    cmd.at = "identify" /\ cmd.calm =>
        /\ RunListed(cmd.lock) \subseteq Choice /\ Choice \subseteq DOMAIN cmd.loaded
        /\ \A n \in Choice : \A i \in DOMAIN cmd.loaded[n].deps :
              LET d == cmd.loaded[n].deps[i] IN d.name \in Choice /\ Satisfies(d.con, cmd.loaded[d.name].version)
        /\ \A n \in DOMAIN cmd.lock.locks :
              cmd.lock.locks[n] = [version |-> Verbatim(cmd.loaded[n].version), id |-> disk[n]]

LockSolves ==
    Readable(lockfile) /\ past.fresh =>
        LET locks == lockfile.locks
            read(text) == Version(text[1], text[2])
        IN  Resolves(RunListed(lockfile), [n \in DOMAIN locks |-> locks[n].id],
                     [n \in DOMAIN locks |-> read(locks[n].version)])
LockIInv == LoadsAreNow /\ ChoiceIsClosed /\ LockSolves

-----------------------------------------------------------------------------
\* Padding numbers that are padded does nothing.
LEMMA PaddedTwice == ASSUME NEW nums \in Seq(Nat) PROVE Padded(Padded(nums)) = Padded(nums)
<1> DEFINE q == Padded(nums)
<1>1. q \in [1..3 -> Nat] /\ q \in Seq(Nat) /\ Len(q) = 3
  BY PaddedType
<1> HIDE DEF q
<1>2. Padded(q) = [i \in 1..3 |-> q[i]]
  BY <1>1 DEF Padded
<1>3. Padded(q) = q
  BY <1>1, <1>2
<1> QED
  BY <1>3 DEF q

IsConstraint(c) == c = Constraint(c.op, c.nums, c.pre) /\ c.nums \in Seq(Nat)

\* A constraint means what it did before it was normalized (normalizeConstraint).
LEMMA NormalizedMeans ==
    ASSUME NEW c, IsConstraint(c), NEW v
    PROVE  Satisfies(Normalized(c), v) <=> Satisfies(c, v)
<1>1. CASE Approximate(c)
  BY <1>1 DEF Normalized
<1>2. CASE ~Approximate(c)
  <2> DEFINE n == Normalized(c)
  <2>1. n.op = c.op /\ n.nums = Padded(c.nums) /\ n.pre = c.pre
    BY <1>2 DEF Normalized, IsConstraint, Constraint
  <2>2. Padded(n.nums) = Padded(c.nums)
    BY <2>1, PaddedTwice DEF IsConstraint
  <2> HIDE DEF n
  <2>3. IsZero(n) <=> IsZero(c)
    BY <2>1, <2>2 DEF IsZero
  <2>4. GreedyMatch(n, v) <=> GreedyMatch(c, v)
    BY <2>1 DEF GreedyMatch
  <2>5. Compare(v, Version(n.nums, n.pre)) = Compare(v, Version(c.nums, c.pre))
    BY <2>1, <2>2 DEF Compare, Version
  <2>6. ~Approximate(n)
    BY <1>2, <2>1 DEF Approximate
  <2>7. Satisfies(n, v) <=> Satisfies(c, v)
    BY <1>2, <2>1, <2>3, <2>4, <2>5, <2>6 DEF Satisfies
  <2> QED
    BY <2>7 DEF n
<1> QED
  BY <1>1, <1>2

\* And stays one that can be read.
LEMMA NormalizedReads ==
    ASSUME NEW c, IsConstraint(c), c # Malformed PROVE Normalized(c) # Malformed
<1>1. Len(<<0>>) = 1 /\ Malformed.nums = <<0>>
  BY DEF Malformed, Constraint
<1>2. CASE Approximate(c)
  BY <1>2 DEF Normalized
<1>3. CASE ~Approximate(c)
  <2>1. Normalized(c).nums = Padded(c.nums)
    BY <1>3 DEF Normalized, IsConstraint, Constraint
  <2>2. Len(Padded(c.nums)) = 3
    BY PaddedType DEF IsConstraint
  <2> QED
    BY <1>1, <2>1, <2>2
<1> QED
  BY <1>2, <1>3

\* What is loaded of a cookbook.
LEMMA LoadedIs ==
    ASSUME NEW i \in DOMAIN Content, Clean(i)
    PROVE  LET deps == Content[i].deps IN
           /\ Loaded(i).version = Content[i].version /\ IsVersion(Content[i].version)
           /\ DOMAIN Loaded(i).deps = DOMAIN deps
           /\ \A j \in DOMAIN deps : /\ Loaded(i).deps[j].name = deps[j].name
                                     /\ Loaded(i).deps[j].con # Malformed
                                     /\ \A v : Satisfies(Loaded(i).deps[j].con, v) <=> Satisfies(deps[j].con, v)
<1> DEFINE deps == Content[i].deps
<1>1. IsContent(Content[i])
  BY WorkspaceAssumption
<1>2. ASSUME NEW j \in DOMAIN deps
      PROVE  deps[j] = Needs(deps[j].name, deps[j].con) /\ IsConstraint(deps[j].con) /\ deps[j].con # Malformed
  BY <1>1, <1>2 DEF IsContent, IsConstraint, Range, Clean
<1>3. /\ Loaded(i).version = Content[i].version /\ DOMAIN Loaded(i).deps = DOMAIN deps
      /\ \A j \in DOMAIN deps : Loaded(i).deps[j] = [deps[j] EXCEPT !.con = IF @ = Malformed THEN @ ELSE Normalized(@)]
  BY DEF Loaded
<1> HIDE DEF deps
<1>4. ASSUME NEW j \in DOMAIN deps
      PROVE  Loaded(i).deps[j].name = deps[j].name /\ Loaded(i).deps[j].con = Normalized(deps[j].con)
  BY <1>2, <1>3, <1>4 DEF Needs
<1>5. ASSUME NEW j \in DOMAIN deps
      PROVE  Loaded(i).deps[j].con # Malformed /\ \A v : Satisfies(Loaded(i).deps[j].con, v) <=> Satisfies(deps[j].con, v)
  BY <1>2, <1>4, <1>5, NormalizedMeans, NormalizedReads
<1> QED
  BY <1>1, <1>3, <1>4, <1>5 DEF IsContent, deps

\* A version satisfies the demand for exactly it.
LEMMA ExactlyMet == ASSUME NEW v, IsVersion(v) PROVE Satisfies(Constraint("=", v.nums, v.pre), v)
<1> DEFINE c == Constraint("=", v.nums, v.pre)
<1>1. c.op = "=" /\ c.nums = v.nums /\ c.pre = v.pre
  BY DEF Constraint
<1>2. Version(c.nums, c.pre) = v
  BY <1>1 DEF IsVersion
<1> HIDE DEF c
<1>3. Compare(v, Version(c.nums, c.pre)) = 0
  BY <1>2, VersionOrder
<1>4. ~GreedyMatch(c, v)
  BY <1>1 DEF GreedyMatch
<1>5. Satisfies(c, v)
  BY <1>1, <1>3, <1>4 DEF Satisfies, Approximate
<1> QED
  BY <1>5 DEF c

LEMMA RestingHasNone == Resting.at \notin Doing /\ DOMAIN Resting.loaded = {}
<1>1. Resting.loaded = <<>> /\ Resting.at = "end"
  BY DEF Resting
<1> QED
  BY <1>1, EmptySeq DEF Doing

\* Where an install gets on with what it loads, and where nothing is loaded.
LEMMA Loading ==
    ASSUME TypeIInv, LoadsAreNow, [Next]_vars
    PROVE  \/ cmd' = cmd /\ disk' = disk
           \/ cmd'.at \notin Doing /\ DOMAIN cmd'.loaded = {}
           \/ Evaluate \/ InstallLoad \/ InstallSolve \/ InstallSolved \/ InstallIdentify \/ EditCookbook
<1>0. /\ IsCommand(cmd) /\ IsCommand(Resting) /\ Resting.at = "end" /\ DOMAIN Resting.loaded = {}
      /\ cmd.at \notin Doing => DOMAIN cmd.loaded = {}
  <2>1. IsCommand(cmd) /\ IsCommand(Resting)
    BY RestingIs DEF TypeIInv, CommandOK
  <2>2. Resting.at = "end"
    BY RestingIs
  <2> QED
    BY <2>1, <2>2, RestingHasNone DEF LoadsAreNow
<1> USE DEF At, Refuse, Ends, Goes, Cut, Same, IsCommand, Locals, Doing, files
<1>1. CASE UNCHANGED vars
  BY <1>1 DEF vars
<1>2. CASE Create
  BY <1>0, <1>2 DEF Create
<1>3. CASE InstallRead
  BY <1>0, <1>3 DEF InstallRead
<1>4. CASE PrepareEngine \/ CopySiblings
  BY <1>0, <1>4 DEF PrepareEngine, CopySiblings
<1>5. CASE InstallWrite
  BY <1>0, <1>5 DEF InstallWrite
<1>6. CASE Export
  BY <1>0, <1>6 DEF Export
<1>7. CASE ExportCookbook
  BY <1>0, <1>7 DEF ExportCookbook
<1>8. CASE CopyFile
  <2>1. cmd' = Resting \/ \E f \in cmd.files : cmd' = [cmd EXCEPT !.files = @ \ {f}]
    BY <1>8 DEF CopyFile
  <2>2. cmd.at = "copy"
    BY <1>8 DEF CopyFile
  <2> QED
    BY <1>0, <2>1, <2>2
<1>9. CASE Copies
  BY <1>0, <1>9 DEF Copies
<1>10. CASE ExportPolicy \/ ExportLock
  BY <1>0, <1>10 DEF ExportPolicy, ExportLock, ExportWrite
<1>11. CASE ExportClient
  BY <1>0, <1>11 DEF ExportClient, ExportWrite
<1>12. CASE ExportTar \/ Send
  BY <1>0, <1>12 DEF ExportTar, Send
<1>13. CASE Push
  BY <1>0, <1>13 DEF Push, Sending
<1>14. CASE PushArchive
  BY <1>0, <1>14 DEF PushArchive, Sending
<1>15. CASE PolicyDiffCommand
  BY <1>0, <1>15 DEF PolicyDiffCommand
<1>16. CASE DownloadBegin \/ DownloadStream \/ DownloadRename
  BY <1>0, <1>16 DEF DownloadBegin, DownloadStream, DownloadRename
<1>17. CASE Start
  BY <1>0, <1>17 DEF Start
<1>18. CASE Kill
  BY <1>0, <1>18 DEF Kill
<1>19. CASE SolverStep \/ EditPolicyfile \/ DeleteLock
  BY <1>0, <1>19 DEF SolverStep, EditPolicyfile, DeleteLock
<1> QED
  BY <1>1, <1>2, <1>3, <1>4, <1>5, <1>6, <1>7, <1>8, <1>9, <1>10, <1>11, <1>12, <1>13, <1>14, <1>15, <1>16, <1>17,
     <1>18, <1>19 DEF Next, Step, User

\* Nothing loaded, nothing to keep.
LEMMA NothingLoaded ==
    ASSUME cmd'.at \notin Doing, DOMAIN cmd'.loaded = {} PROVE LoadsAreNow' /\ ChoiceIsClosed'
BY DEF LoadsAreNow, ChoiceIsClosed, Doing

LEMMA LoadsEvaluate ==
    ASSUME TypeIInv, LoadsAreNow, Evaluate PROVE LoadsAreNow' /\ ChoiceIsClosed'
<1>0. CommandOK(cmd)
  BY DEF TypeIInv
<1>1. CASE cmd' = Resting
  BY <1>1, RestingHasNone, NothingLoaded
<1>2. CASE cmd' # Resting
  <2>1. cmd' = [cmd EXCEPT !.at = "load", !.left = DOMAIN cmd.rb.specs] /\ cmd.at = "evaluate"
    BY <1>2 DEF Evaluate, Refuse, Ends, Goes, At
  <2>2. cmd'.at = "load" /\ cmd'.left = DOMAIN cmd.rb.specs /\ cmd'.rb = cmd.rb /\ cmd'.loaded = cmd.loaded
    BY <2>1 DEF TypeIInv, CommandOK, IsCommand, Locals
  <2>3. DOMAIN cmd.loaded = {}
    BY <2>1 DEF LoadsAreNow, Doing
  <2> QED
    BY <2>2, <2>3 DEF LoadsAreNow, ChoiceIsClosed, Doing
<1> QED
  BY <1>1, <1>2

LEMMA LoadsLoad ==
    ASSUME TypeIInv, LoadsAreNow, InstallLoad PROVE LoadsAreNow' /\ ChoiceIsClosed'
<1> DEFINE n == Min(cmd.left)
<1>0. CommandOK(cmd)
  BY DEF TypeIInv
<1>1. CASE cmd' = Resting
  BY <1>1, RestingHasNone, NothingLoaded
<1>2. CASE cmd' # Resting
  <2>1. /\ cmd.left # {} /\ disk[n] # 0 /\ Clean(disk[n]) /\ disk' = disk /\ cmd.at = "load"
        /\ cmd' = [cmd EXCEPT !.left = @ \ {n}, !.loaded = Put(@, n, Loaded(disk[n]))]
    BY <1>2 DEF InstallLoad, Refuse, Ends, Goes, Clean, Same, files, At
  <2>2. n \in Cookbooks /\ n \in cmd.left
    BY <1>0, <2>1, NextLeft
  <2>3. disk[n] \in DOMAIN Content
    BY <2>1, <2>2, OnDisk
  <2> HIDE DEF n
  <2>4. /\ cmd'.left = cmd.left \ {n} /\ cmd'.loaded = Put(cmd.loaded, n, Loaded(disk[n])) /\ cmd'.at = "load"
        /\ cmd'.rb = cmd.rb /\ cmd'.calm = cmd.calm
    BY <1>0, <2>1 DEF CommandOK, IsCommand, Locals
  <2>5. /\ DOMAIN cmd'.loaded = DOMAIN cmd.loaded \cup {n} /\ cmd'.loaded[n] = Loaded(disk[n])
        /\ \A x \in DOMAIN cmd.loaded : x # n => cmd'.loaded[x] = cmd.loaded[x]
    BY <2>4 DEF Put
  <2>6. DOMAIN cmd'.loaded \cup cmd'.left = DOMAIN cmd'.rb.specs
    BY <2>1, <2>2, <2>4, <2>5 DEF LoadsAreNow
  <2>7. \A m \in DOMAIN cmd'.loaded : \E i \in DOMAIN Content : cmd'.loaded[m] = Loaded(i) /\ Clean(i)
    BY <2>1, <2>3, <2>5 DEF LoadsAreNow
  <2>8. cmd'.calm => \A m \in DOMAIN cmd'.loaded : disk'[m] # 0 /\ cmd'.loaded[m] = Loaded(disk'[m]) /\ Clean(disk'[m])
    BY <2>1, <2>4, <2>5 DEF LoadsAreNow
  <2> QED
    BY <2>4, <2>6, <2>7, <2>8 DEF LoadsAreNow, ChoiceIsClosed, Doing
<1> QED
  BY <1>1, <1>2

LEMMA LoadsSolve ==
    ASSUME TypeIInv, LoadsAreNow, InstallSolve PROVE LoadsAreNow' /\ ChoiceIsClosed'
<1>1. cmd' = [cmd EXCEPT !.at = "solve"] /\ disk' = disk /\ cmd.at = "load" /\ cmd.left = {}
  BY DEF InstallSolve, Goes, files, At
<1>2. cmd'.at = "solve" /\ cmd'.loaded = cmd.loaded /\ cmd'.rb = cmd.rb /\ cmd'.calm = cmd.calm
  BY <1>1 DEF TypeIInv, CommandOK, IsCommand, Locals
<1> QED
  BY <1>1, <1>2 DEF LoadsAreNow, ChoiceIsClosed, Doing

LEMMA LoadsEdit ==
    ASSUME TypeIInv, LoadsAreNow, ChoiceIsClosed, EditCookbook PROVE LoadsAreNow' /\ ChoiceIsClosed'
<1>0. CommandOK(cmd)
  BY DEF TypeIInv
<1>1. CASE cmd.at = "end"
  <2>1. cmd' = cmd
    BY <1>1 DEF EditCookbook, Running
  <2>2. DOMAIN cmd.loaded = {}
    BY <1>1 DEF LoadsAreNow, Doing
  <2> QED
    BY <1>1, <2>1, <2>2, NothingLoaded DEF Doing
<1>2. CASE cmd.at # "end"
  <2>1. PICK n : cmd' = [cmd EXCEPT !.dirty = @ \cup {n}, !.calm = FALSE]
    BY <1>2 DEF EditCookbook, Running
  <2>2. cmd'.at = cmd.at /\ cmd'.loaded = cmd.loaded /\ cmd'.left = cmd.left /\ cmd'.rb = cmd.rb /\ cmd'.calm = FALSE
    BY <1>0, <2>1 DEF CommandOK, IsCommand, Locals
  <2> QED
    BY <2>2 DEF LoadsAreNow, ChoiceIsClosed
<1> QED
  BY <1>1, <1>2

\* The problem of an install has one candidate for each cookbook loaded.
LEMMA AskedHas ==
    ASSUME NEW r, NEW loaded
    PROVE  LET p == Asked(r, loaded) IN
           /\ Names(p) = DOMAIN loaded /\ p.demands = Demands(r, loaded)
           /\ \A n \in DOMAIN loaded : p.universe[n] = {Candidate(loaded[n].version, loaded[n].deps)}
BY DEF Asked, Problem, Names

\* A choice of them is the versions loaded.
LEMMA AskedPick ==
    ASSUME NEW r \in Known, NEW loaded, IsLoaded(loaded), NEW f, f \in Picks(Asked(r, loaded))
    PROVE  /\ DOMAIN f \subseteq DOMAIN loaded
           /\ \A n \in DOMAIN f : /\ f[n] = loaded[n].version
                                  /\ Chosen(Asked(r, loaded), f, n).deps = loaded[n].deps
<1> DEFINE p == Asked(r, loaded)
<1>1. IsProblem(p) /\ Names(p) = DOMAIN loaded
  BY AskedIsProblem
<1>2. \A n \in DOMAIN loaded : p.universe[n] = {Candidate(loaded[n].version, loaded[n].deps)}
  BY AskedHas
<1>3. f \in Picks(p)
  OBVIOUS
<1> HIDE DEF p
<1>4. /\ DOMAIN f \subseteq Names(p)
      /\ \A n \in DOMAIN f : Chosen(p, f, n) \in p.universe[n] /\ Chosen(p, f, n).version = f[n]
  BY <1>1, <1>3, PicksAre
<1>5. \A n \in DOMAIN f : f[n] = loaded[n].version /\ Chosen(p, f, n).deps = loaded[n].deps
  BY <1>1, <1>2, <1>4 DEF Candidate
<1> QED
  BY <1>1, <1>4, <1>5 DEF p

\* What is demanded: a cookbook loaded in its version.
LEMMA DemandsAre ==
    ASSUME NEW r, NEW loaded
    PROVE  LET names == RunListed(r) \cup DOMAIN r.specs IN
           /\ \A n \in names : \E d \in Demands(r, loaded) : d.name = n
           /\ \A d \in Demands(r, loaded) :
                 /\ d.name \in names
                 /\ d.name \in DOMAIN loaded =>
                       d.con = Constraint("=", loaded[d.name].version.nums, loaded[d.name].version.pre)
<1> DEFINE names == RunListed(r) \cup DOMAIN r.specs
           con(n) == IF n \in DOMAIN loaded THEN Constraint("=", loaded[n].version.nums, loaded[n].version.pre)
                     ELSE IF n \in DOMAIN r.specs THEN r.specs[n].con ELSE AnyVersion
<1>1. Demands(r, loaded) = {Needs(n, con(n)) : n \in names}
  BY DEF Demands, RunListed
<1>2. \A n \in DOMAIN loaded : con(n) = Constraint("=", loaded[n].version.nums, loaded[n].version.pre)
  OBVIOUS
<1>3. \A n : Needs(n, con(n)).name = n /\ Needs(n, con(n)).con = con(n)
  BY DEF Needs
<1> HIDE DEF con, names
<1>4. \A n \in names : Needs(n, con(n)) \in Demands(r, loaded)
  BY <1>1
<1>5. \A d \in Demands(r, loaded) : d.name \in names /\ d.con = con(d.name)
  BY <1>1, <1>3
<1>6. \A n \in names : \E d \in Demands(r, loaded) : d.name = n
  BY <1>3, <1>4
<1> QED
  BY <1>2, <1>5, <1>6 DEF names

LEMMA LoadsSolved ==
    ASSUME TypeIInv, LoadsAreNow, InstallSolved PROVE LoadsAreNow' /\ ChoiceIsClosed'
<1> DEFINE l == Lock(cmd.rb.name, [i \in DOMAIN cmd.rb.runlist |-> Normal(cmd.rb.runlist[i])], <<>>, cmd.rb.attrs)
           g == solver.answer
           p == solver.problem
<1>0. /\ CommandOK(cmd) /\ SearchOK(solver) /\ cmd.at = "solve" /\ disk' = disk
      /\ cmd.rb \in Known /\ IsLoaded(cmd.loaded)
  BY DEF TypeIInv, CommandOK, InstallSolved, At, files
<1>1. CASE cmd' = Resting
  BY <1>1, RestingHasNone, NothingLoaded
<1>2. CASE cmd' # Resting
  <2>1. solver.out = "solved" /\ cmd' = [cmd EXCEPT !.at = "identify", !.left = DOMAIN g, !.lock = l]
    BY <1>2 DEF InstallSolved, Ends, Goes
  <2>2. p = Asked(cmd.rb, cmd.loaded)
    BY <1>0 DEF TypeIInv
  <2>3. IsSolution(p, g) /\ g \in Picks(p)
    <3>1. Sound(solver)
      BY <1>0, SolvedIsSound
    <3> QED
      BY <1>0, <2>1, <3>1 DEF Sound, SearchOK, Searches
  <2>4. l.locks = <<>> /\ RunListed(l) = RunListed(cmd.rb)
    <3>1. l.runlist = [i \in DOMAIN cmd.rb.runlist |-> Normal(cmd.rb.runlist[i])] /\ l.locks = <<>>
      BY DEF Lock
    <3>2. ASSUME NEW i \in DOMAIN cmd.rb.runlist PROVE Normal(cmd.rb.runlist[i]).cookbook = cmd.rb.runlist[i].cookbook
      <4>1. CASE cmd.rb \in Policyfiles \cup {Scaffold}
        <5>1. cmd.rb.runlist[i] = Item(cmd.rb.runlist[i].cookbook, cmd.rb.runlist[i].recipe)
          BY <4>1, WorkspaceAssumption DEF IsPolicyfile
        <5> QED
          BY <5>1 DEF Normal, Item
      <4>2. CASE cmd.rb \in {NoPolicyfile, CutPolicyfile}
        <5>1. cmd.rb.runlist = <<>>
          BY <4>2 DEF NoPolicyfile, CutPolicyfile, Policyfile
        <5> QED
          BY <5>1, EmptySeq
      <4> QED
        BY <1>0, <4>1, <4>2 DEF Known
    <3> HIDE DEF l
    <3> QED
      BY <3>1, <3>2 DEF RunListed
  <2>5. /\ cmd'.at = "identify" /\ cmd'.left = DOMAIN g /\ cmd'.lock = l /\ cmd'.loaded = cmd.loaded /\ cmd'.calm = cmd.calm
    <3> HIDE DEF l
    <3> QED
      BY <1>0, <2>1 DEF CommandOK, IsCommand, Locals
  <2>6. DOMAIN g \subseteq DOMAIN cmd.loaded
        /\ \A n \in DOMAIN g : g[n] = cmd.loaded[n].version /\ Chosen(p, g, n).deps = cmd.loaded[n].deps
    BY <1>0, <2>2, <2>3, AskedPick
  <2>7. RunListed(cmd.rb) \subseteq DOMAIN g
    <3> SUFFICES ASSUME NEW i \in DOMAIN cmd.rb.runlist PROVE cmd.rb.runlist[i].cookbook \in DOMAIN g
      BY DEF RunListed
    <3>1. cmd.rb.runlist[i].cookbook \in RunListed(cmd.rb)
      BY DEF RunListed
    <3>2. p.demands = Demands(cmd.rb, cmd.loaded)
      BY <2>2, AskedHas
    <3> HIDE DEF p
    <3>3. \E d \in p.demands : d.name = cmd.rb.runlist[i].cookbook
      BY <3>1, <3>2, DemandsAre
    <3> QED
      BY <2>3, <3>3 DEF IsSolution
  <2> HIDE DEF l, g, p
  <2>8. DOMAIN cmd'.lock.locks = {} /\ Choice' = DOMAIN g
    <3>1. cmd'.lock.locks = <<>>
      BY <2>4, <2>5
    <3>2. DOMAIN cmd'.lock.locks = {}
      BY <3>1, EmptySeq
    <3> QED
      BY <2>5, <3>2 DEF Choice
  <2>9. \A n \in DOMAIN g : \A i \in DOMAIN cmd.loaded[n].deps :
           LET d == cmd.loaded[n].deps[i] IN d.name \in DOMAIN g /\ Satisfies(d.con, cmd.loaded[d.name].version)
    BY <2>3, <2>6 DEF IsSolution
  <2>10. ChoiceIsClosed'
    BY <2>4, <2>5, <2>6, <2>7, <2>8, <2>9 DEF ChoiceIsClosed
  <2>11. LoadsAreNow'
    BY <1>0, <2>5 DEF LoadsAreNow, Doing
  <2> QED
    BY <2>10, <2>11
<1> QED
  BY <1>1, <1>2

LEMMA LoadsIdentify ==
    ASSUME TypeIInv, LoadsAreNow, ChoiceIsClosed, InstallIdentify PROVE LoadsAreNow' /\ ChoiceIsClosed'
<1> DEFINE n == Min(cmd.left)
           entry == [version |-> Verbatim(cmd.loaded[n].version), id |-> disk[n]]
<1>0. CommandOK(cmd)
  BY DEF TypeIInv
<1>1. CASE cmd' = Resting
  BY <1>1, RestingHasNone, NothingLoaded
<1>2. CASE cmd' # Resting
  <2>1. /\ cmd.left # {} /\ cmd.at = "identify" /\ disk' = disk
        /\ cmd' = [cmd EXCEPT !.left = @ \ {n}, !.dirty = @ \ {n}, !.lock.locks = Put(@, n, entry)]
    BY <1>2 DEF InstallIdentify, Refuse, Ends, Goes, At, Same, files
  <2>2. n \in cmd.left
    BY <1>0, <2>1, NextLeft
  <2>3. entry = [version |-> Verbatim(cmd.loaded[n].version), id |-> disk[n]]
    OBVIOUS
  <2> HIDE DEF n, entry
  <2>4. /\ cmd'.at = "identify" /\ cmd'.left = cmd.left \ {n} /\ cmd'.loaded = cmd.loaded /\ cmd'.calm = cmd.calm
        /\ cmd'.lock = [cmd.lock EXCEPT !.locks = Put(@, n, entry)] /\ cmd'.rb = cmd.rb
    BY <1>0, <2>1 DEF CommandOK, IsCommand, Locals
  <2>5. cmd'.lock.locks = Put(cmd.lock.locks, n, entry) /\ cmd'.lock.runlist = cmd.lock.runlist
    BY <1>0, <2>4 DEF CommandOK, IsRevision, Lock
  <2>6. /\ DOMAIN cmd'.lock.locks = DOMAIN cmd.lock.locks \cup {n} /\ cmd'.lock.locks[n] = entry
        /\ \A x \in DOMAIN cmd.lock.locks : x # n => cmd'.lock.locks[x] = cmd.lock.locks[x]
    BY <2>5 DEF Put
  <2>7. Choice' = Choice /\ RunListed(cmd'.lock) = RunListed(cmd.lock)
    BY <2>2, <2>4, <2>5, <2>6 DEF Choice, RunListed
  <2>8. LoadsAreNow'
    BY <2>1, <2>4 DEF LoadsAreNow, Doing
  <2>9. ChoiceIsClosed'
    BY <2>1, <2>3, <2>4, <2>6, <2>7 DEF ChoiceIsClosed
  <2> QED
    BY <2>8, <2>9
<1> QED
  BY <1>1, <1>2

LEMMA LoadsStep ==
    ASSUME TypeIInv, LoadsAreNow, ChoiceIsClosed, [Next]_vars PROVE LoadsAreNow' /\ ChoiceIsClosed'
<1>1. CASE cmd' = cmd /\ disk' = disk
  BY <1>1 DEF LoadsAreNow, ChoiceIsClosed, Choice
<1>2. CASE cmd'.at \notin Doing /\ DOMAIN cmd'.loaded = {}
  BY <1>2, NothingLoaded
<1> QED
  BY <1>1, <1>2, Loading, LoadsEvaluate, LoadsLoad, LoadsSolve, LoadsSolved, LoadsIdentify, LoadsEdit

\* A choice of the cookbooks as they are written: each has one version.
LEMMA RawPick ==
    ASSUME NEW ids, NEW f, NEW n \in DOMAIN ids, f[n] = Content[ids[n]].version
    PROVE  Chosen(Raw(ids), f, n).deps = Content[ids[n]].deps
<1> DEFINE p == Raw(ids)
           c == Candidate(Content[ids[n]].version, Content[ids[n]].deps)
<1>1. p.universe[n] = {c} /\ c.version = f[n] /\ c.deps = Content[ids[n]].deps
  BY DEF Raw, Problem, Candidate
<1> HIDE DEF p, c
<1>2. Chosen(p, f, n) = c
  BY <1>1 DEF Chosen
<1> QED
  BY <1>1, <1>2 DEF p

LEMMA RawPicks ==
    ASSUME NEW ids, NEW f \in Picks(Raw(ids))
    PROVE  /\ DOMAIN f \subseteq DOMAIN ids /\ f = [n \in DOMAIN f |-> f[n]]
           /\ \A n \in DOMAIN f : f[n] = Content[ids[n]].version
<1> DEFINE p == Raw(ids)
           V(S) == UNION {{c.version : c \in p.universe[n]} : n \in S}
<1>1. Names(p) = DOMAIN ids
      /\ \A n \in DOMAIN ids : {c.version : c \in p.universe[n]} = {Content[ids[n]].version}
  BY DEF Raw, Problem, Candidate, Names
<1>2. PICK S \in SUBSET Names(p) : f \in [S -> V(S)] /\ \A n \in S : f[n] \in {c.version : c \in p.universe[n]}
  BY DEF Picks
<1> HIDE DEF p, V
<1>3. DOMAIN f = S /\ f = [n \in S |-> f[n]]
  BY <1>2
<1>4. \A n \in S : f[n] = Content[ids[n]].version
  BY <1>1, <1>2
<1> QED
  BY <1>1, <1>2, <1>3, <1>4

\* What an install that no edit interfered with has loaded is what is on disk.
LEMMA LoadedNow ==
    ASSUME TypeIInv, LoadsAreNow, cmd.calm, NEW n \in DOMAIN cmd.loaded
    PROVE  LET mine == cmd.loaded[n]
               now == Content[disk[n]]
           IN  /\ mine.version = now.version /\ IsVersion(mine.version)
               /\ DOMAIN mine.deps = DOMAIN now.deps
               /\ \A i \in DOMAIN mine.deps :
                     /\ mine.deps[i].name = now.deps[i].name /\ mine.deps[i].con # Malformed
                     /\ \A v : Satisfies(mine.deps[i].con, v) <=> Satisfies(now.deps[i].con, v)
<1>1. disk[n] # 0 /\ cmd.loaded[n] = Loaded(disk[n]) /\ Clean(disk[n])
  BY DEF LoadsAreNow
<1>2. n \in Cookbooks
  BY DEF TypeIInv, CommandOK, IsLoaded
<1>3. disk[n] \in DOMAIN Content
  BY <1>1, <1>2, OnDisk
<1> QED
  BY <1>1, <1>3, LoadedIs

\* The lock of an install that no edit interfered with resolves what it lists.
LEMMA LockSolved ==
    ASSUME TypeIInv, LoadsAreNow, ChoiceIsClosed, cmd.at = "identify", cmd.left = {}, cmd.calm
    PROVE  LET locks == cmd.lock.locks
               read(text) == Version(text[1], text[2])
           IN  Resolves(RunListed(cmd.lock), [n \in DOMAIN locks |-> locks[n].id],
                        [n \in DOMAIN locks |-> read(locks[n].version)])
<1> DEFINE L == DOMAIN cmd.lock.locks
           read(text) == Version(text[1], text[2])
           ids == [n \in L |-> cmd.lock.locks[n].id]
           f == [n \in L |-> read(cmd.lock.locks[n].version)]
<1>1. /\ RunListed(cmd.lock) \subseteq L /\ L \subseteq DOMAIN cmd.loaded
      /\ \A n \in L : \A i \in DOMAIN cmd.loaded[n].deps :
            LET d == cmd.loaded[n].deps[i] IN d.name \in L /\ Satisfies(d.con, cmd.loaded[d.name].version)
      /\ \A n \in L : cmd.lock.locks[n] = [version |-> Verbatim(cmd.loaded[n].version), id |-> disk[n]]
  BY DEF ChoiceIsClosed, Choice
<1>2. \A n \in DOMAIN cmd.loaded : cmd.loaded[n].version = Content[disk[n]].version /\ IsVersion(cmd.loaded[n].version)
  BY LoadedNow
<1>3. ASSUME NEW n \in L
      PROVE  ids[n] = disk[n] /\ f[n] = cmd.loaded[n].version /\ f[n] = Content[disk[n]].version
  <2>1. n \in DOMAIN cmd.loaded /\ cmd.lock.locks[n] = [version |-> Verbatim(cmd.loaded[n].version), id |-> disk[n]]
    BY <1>1
  <2>2. Version(Verbatim(cmd.loaded[n].version)[1], Verbatim(cmd.loaded[n].version)[2]) = cmd.loaded[n].version
    BY <1>2, <2>1 DEF Verbatim, IsVersion
  <2>3. ids[n] = cmd.lock.locks[n].id
    BY <1>3
  <2>4. f[n] = Version(cmd.lock.locks[n].version[1], cmd.lock.locks[n].version[2])
    BY <1>3
  <2> HIDE DEF ids, f, L
  <2> QED
    BY <1>2, <2>1, <2>2, <2>3, <2>4
<1>4. DOMAIN f = L /\ DOMAIN ids = L /\ Raw(ids).demands = {}
  BY DEF Raw, Problem
<1> HIDE DEF L, ids, f
<1>5. ASSUME NEW n \in L, NEW i \in DOMAIN Chosen(Raw(ids), f, n).deps
      PROVE  LET d == Chosen(Raw(ids), f, n).deps[i] IN d.name \in L /\ Satisfies(d.con, f[d.name])
  <2>1. Chosen(Raw(ids), f, n).deps = Content[disk[n]].deps
    BY <1>3, <1>4, RawPick
  <2>2. /\ i \in DOMAIN cmd.loaded[n].deps
        /\ cmd.loaded[n].deps[i].name = Content[disk[n]].deps[i].name
        /\ \A v : Satisfies(cmd.loaded[n].deps[i].con, v) <=> Satisfies(Content[disk[n]].deps[i].con, v)
    <3>1. n \in DOMAIN cmd.loaded /\ i \in DOMAIN Content[disk[n]].deps
      BY <1>1, <2>1
    <3> QED
      BY <3>1, LoadedNow
  <2>3. cmd.loaded[n].deps[i].name \in L
        /\ Satisfies(cmd.loaded[n].deps[i].con, cmd.loaded[cmd.loaded[n].deps[i].name].version)
    BY <1>1, <2>2
  <2>4. f[cmd.loaded[n].deps[i].name] = cmd.loaded[cmd.loaded[n].deps[i].name].version
    BY <1>3, <2>3
  <2>5. Satisfies(Content[disk[n]].deps[i].con, f[cmd.loaded[n].deps[i].name])
    BY <2>2, <2>3, <2>4
  <2> QED
    BY <2>1, <2>2, <2>3, <2>5
<1>6. Resolves(RunListed(cmd.lock), ids, f)
  BY <1>1, <1>4, <1>5 DEF Resolves, IsSolution
<1> QED
  BY <1>6 DEF L, ids, f

LEMMA LockStep ==
    ASSUME TypeIInv, LoadsAreNow, ChoiceIsClosed, LockSolves, [Next]_vars PROVE LockSolves'
<1>1. CASE InstallWrite
  <2>1. cmd.at = "identify" /\ cmd.left = {}
    BY <1>1 DEF InstallWrite, At
  <2>2. CASE lockfile' = cmd.lock /\ past' = [past EXCEPT !.edited = cmd.dirty, !.fresh = cmd.calm]
    <3>1. past'.fresh = cmd.calm
      BY <2>2 DEF TypeIInv, PastTyped
    <3>2. lockfile' = cmd.lock
      BY <2>2
    <3> SUFFICES ASSUME past'.fresh
                 PROVE  LET locks == lockfile'.locks
                            read(text) == Version(text[1], text[2])
                        IN  Resolves(RunListed(lockfile'), [n \in DOMAIN locks |-> locks[n].id],
                                     [n \in DOMAIN locks |-> read(locks[n].version)])
      BY DEF LockSolves, RunListed, Resolves, IsSolution, Raw
    <3> QED
      BY <2>1, <3>1, <3>2, LockSolved
  <2>3. CASE lockfile' = CutLock
    BY <2>3 DEF LockSolves, Readable
  <2> QED
    BY <1>1, <2>2, <2>3 DEF InstallWrite
<1>2. CASE DeleteLock
  BY <1>2 DEF DeleteLock, LockSolves, Readable
<1>3. CASE ~InstallWrite /\ ~DeleteLock
  <2>1. lockfile' = lockfile /\ past'.fresh = past.fresh
    BY <1>3, Writers, Remembered
  <2> QED
    BY <2>1 DEF LockSolves
<1> QED
  BY <1>1, <1>2, <1>3

\* An install that no edit interfered with gives up when there is nothing to be found.
LEMMA FailsRight ==
    ASSUME TypeIInv, LoadsAreNow, At("install", "solve"), cmd.calm, solver.out = "failed"
    PROVE  LET ids == [n \in DOMAIN cmd.rb.specs |-> disk[n]] IN
           \A f \in Picks(Raw(ids)) : ~Resolves(RunListed(cmd.rb) \cup DOMAIN cmd.rb.specs, ids, f)
<1> DEFINE ids == [n \in DOMAIN cmd.rb.specs |-> disk[n]]
           p == Asked(cmd.rb, cmd.loaded)
           names == RunListed(cmd.rb) \cup DOMAIN cmd.rb.specs
<1> SUFFICES ASSUME NEW f \in Picks(Raw(ids)), Resolves(names, ids, f) PROVE FALSE
  OBVIOUS
<1>0. /\ cmd.rb \in Known /\ IsLoaded(cmd.loaded) /\ SearchOK(solver) /\ solver.problem = p
      /\ cmd.at = "solve" /\ DOMAIN cmd.loaded \subseteq Cookbooks
  BY DEF TypeIInv, CommandOK, At, IsLoaded
<1>1. DOMAIN ids = DOMAIN cmd.loaded /\ DOMAIN cmd.rb.specs = DOMAIN cmd.loaded
  BY <1>0 DEF LoadsAreNow
<1>2. DOMAIN f = DOMAIN cmd.loaded /\ f = [n \in DOMAIN f |-> f[n]] /\ names \subseteq DOMAIN f
      /\ \A n \in DOMAIN f : f[n] = Content[ids[n]].version
  <2>1. names \subseteq DOMAIN f /\ DOMAIN cmd.rb.specs \subseteq names
    BY DEF Resolves
  <2> HIDE DEF names, ids
  <2> QED
    BY <1>1, <2>1, RawPicks
<1>3. ASSUME NEW n \in DOMAIN cmd.loaded
      PROVE  ids[n] = disk[n] /\ f[n] = cmd.loaded[n].version /\ IsVersion(f[n])
  <2>1. cmd.loaded[n].version = Content[disk[n]].version /\ IsVersion(cmd.loaded[n].version)
    BY LoadedNow
  <2>2. ids[n] = disk[n] /\ f[n] = Content[ids[n]].version
    BY <1>1, <1>2
  <2> QED
    BY <2>1, <2>2
<1>4. \A n \in DOMAIN f : \A i \in DOMAIN Chosen(Raw(ids), f, n).deps :
         LET d == Chosen(Raw(ids), f, n).deps[i] IN d.name \in DOMAIN f /\ Satisfies(d.con, f[d.name])
  BY DEF Resolves, IsSolution
<1>5. /\ Names(p) = DOMAIN cmd.loaded /\ p.demands = Demands(cmd.rb, cmd.loaded) /\ IsProblem(p)
      /\ \A n \in DOMAIN cmd.loaded : p.universe[n] = {Candidate(cmd.loaded[n].version, cmd.loaded[n].deps)}
  BY <1>0, AskedHas, AskedIsProblem
<1>6. \A d \in p.demands :
         /\ d.name \in names
         /\ d.name \in DOMAIN cmd.loaded =>
               d.con = Constraint("=", cmd.loaded[d.name].version.nums, cmd.loaded[d.name].version.pre)
  BY <1>5, DemandsAre
<1>7. ASSUME NEW n \in DOMAIN cmd.loaded, NEW i \in DOMAIN cmd.loaded[n].deps
      PROVE  LET d == cmd.loaded[n].deps[i] IN d.con # Malformed /\ d.name \in DOMAIN f /\ Satisfies(d.con, f[d.name])
  <2>0. ids[n] = disk[n] /\ f[n] = Content[ids[n]].version /\ n \in DOMAIN f /\ n \in DOMAIN ids
    BY <1>1, <1>2, <1>3
  <2> HIDE DEF ids
  <2>1. Chosen(Raw(ids), f, n).deps = Content[disk[n]].deps
    BY <2>0, RawPick
  <2>2. /\ i \in DOMAIN Content[disk[n]].deps
        /\ cmd.loaded[n].deps[i].name = Content[disk[n]].deps[i].name /\ cmd.loaded[n].deps[i].con # Malformed
        /\ \A v : Satisfies(cmd.loaded[n].deps[i].con, v) <=> Satisfies(Content[disk[n]].deps[i].con, v)
    BY <1>7, LoadedNow
  <2>3. Content[disk[n]].deps[i].name \in DOMAIN f
        /\ Satisfies(Content[disk[n]].deps[i].con, f[Content[disk[n]].deps[i].name])
    BY <1>4, <2>0, <2>1, <2>2
  <2> QED
    BY <2>2, <2>3
<1> HIDE DEF p, ids, names
<1>8. f \in Picks(p)
  <2>1. \A n \in DOMAIN f : f[n] \in {c.version : c \in p.universe[n]}
    <3> SUFFICES ASSUME NEW n \in DOMAIN f PROVE f[n] \in {c.version : c \in p.universe[n]}
      OBVIOUS
    <3>1. f[n] = cmd.loaded[n].version
      BY <1>2, <1>3
    <3>2. p.universe[n] = {Candidate(cmd.loaded[n].version, cmd.loaded[n].deps)}
      BY <1>2, <1>5
    <3>3. Candidate(f[n], cmd.loaded[n].deps) \in p.universe[n] /\ Candidate(f[n], cmd.loaded[n].deps).version = f[n]
      BY <3>1, <3>2 DEF Candidate
    <3> QED
      BY <3>3
  <2> QED
    BY <1>2, <1>5, <2>1, IsPick
<1>9. \A n \in DOMAIN f : Chosen(p, f, n).deps = cmd.loaded[n].deps
  BY <1>0, <1>8, AskedPick DEF p
<1>10. \A d \in p.demands : d.name \in DOMAIN f /\ Satisfies(d.con, f[d.name])
  <2> SUFFICES ASSUME NEW d \in p.demands PROVE d.name \in DOMAIN f /\ Satisfies(d.con, f[d.name])
    OBVIOUS
  <2>1. d.name \in DOMAIN f /\ d.con = Constraint("=", f[d.name].nums, f[d.name].pre) /\ IsVersion(f[d.name])
    BY <1>2, <1>3, <1>6
  <2> QED
    BY <2>1, ExactlyMet
<1>11. IsSolution(p, f)
  BY <1>2, <1>7, <1>9, <1>10 DEF IsSolution
<1>12. WellFormed(p)
  <2>1. ASSUME NEW d \in p.demands PROVE d.con # Malformed
    <3>1. d.con = Constraint("=", f[d.name].nums, f[d.name].pre)
      BY <1>2, <1>3, <1>6
    <3> QED
      BY <3>1 DEF Constraint, Malformed
  <2>2. ASSUME NEW n \in Names(p), NEW c \in p.universe[n], NEW i \in DOMAIN c.deps PROVE c.deps[i].con # Malformed
    <3>1. c.deps = cmd.loaded[n].deps
      BY <1>5, <2>2 DEF Candidate
    <3> QED
      BY <1>5, <1>7, <2>2, <3>1
  <2> QED
    BY <2>1, <2>2 DEF WellFormed
<1>13. Complete(solver)
  BY <1>0, FailedIsComplete
<1> QED
  BY <1>0, <1>8, <1>11, <1>12, <1>13 DEF Complete, p

LEMMA LockInit == Init => LockIInv
<1> SUFFICES ASSUME Init PROVE LockIInv
  OBVIOUS
<1>1. cmd = Resting /\ lockfile = NoLock
  BY DEF Init
<1> QED
  BY <1>1, RestingHasNone DEF LockIInv, LoadsAreNow, ChoiceIsClosed, LockSolves, Readable, Doing

\* resolve.go: a lock that no edit interfered with has what its run list names and meets the
\* constraints of the cookbooks it names, as they are written, and an install gives up only
\* when nothing would; whatever the cookbooks, their constraints and the Policyfiles are.
THEOREM LockIsSolvedAlways == Spec => []LockIsSolved
<1>1. Init => TypeIInv /\ LockIInv
  BY TypeInit, LockInit
<1>2. TypeIInv /\ LockIInv /\ [Next]_vars => (TypeIInv /\ LockIInv)'
  BY TypeStep, LoadsStep, LockStep DEF LockIInv
<1>3. TypeIInv /\ LockIInv => LockIsSolved
  <2> SUFFICES ASSUME TypeIInv, LockIInv PROVE LockIsSolved
    OBVIOUS
  <2>1. LoadsAreNow /\ LockSolves
    BY DEF LockIInv
  <2> QED
    BY <2>1, FailsRight DEF LockSolves, LockIsSolved
<1> QED
  BY <1>1, <1>2, <1>3, PTL DEF Spec
=============================================================================
