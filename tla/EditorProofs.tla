---------------------------- MODULE EditorProofs ----------------------------
(***************************************************************************)
(* What a mutation makes of a document, where the cursor is after it, and   *)
(* what the editor and the node form show, confirm and save, for every      *)
(* document, text, key and run list there may be.                           *)
(***************************************************************************)
EXTENDS NodeForm, FiniteSetTheorems, SequenceTheorems, TLAPS

(***************************************************************************)
(* Paths                                                                   *)
(***************************************************************************)

Paths == Seq(Nat)

\* A path has a number at each position, and the root alone has none.
LEMMA PathIs ==
    ASSUME NEW p \in Paths
    PROVE  /\ Len(p) \in Nat /\ DOMAIN p = 1..Len(p) /\ \A i \in 1..Len(p) : p[i] \in Nat
           /\ p # <<>> <=> Len(p) > 0
BY LenProperties, EmptySeq, ElementOfSeq DEF Paths

\* Two paths are the same when they have the same positions.
LEMMA SamePath ==
    ASSUME NEW p \in Paths, NEW q \in Paths, Len(p) = Len(q), \A i \in 1..Len(p) : p[i] = q[i]
    PROVE  p = q
BY SeqEqual DEF Paths

\* The path of the node that has p below it.
LEMMA FrontIs ==
    ASSUME NEW p \in Paths, p # <<>>
    PROVE  /\ Front(p) \in Paths /\ Len(Front(p)) = Len(p) - 1 /\ \A i \in 1..Len(p) - 1 : Front(p)[i] = p[i]
           /\ Last(p) = p[Len(p)] /\ Last(p) \in Nat
<1>1. Len(p) \in Nat /\ Len(p) > 0 /\ \A i \in 1..Len(p) - 1 : p[i] \in Nat
  BY PathIs
<1> DEFINE f == SubSeq(p, 1, Len(p) - 1)
           n == Len(p) - 1
<1>2. /\ f \in Seq(Nat) /\ Len(f) = IF 1 <= n THEN n - 1 + 1 ELSE 0
      /\ \A i \in 1..n - 1 + 1 : f[i] = p[1 + i - 1]
  BY <1>1, SubSeqProperties
<1>3. Front(p) = f
  BY DEF Front
<1> HIDE DEF f
<1>4. f \in Paths
  BY <1>2 DEF Paths
<1>6. Len(f) = Len(p) - 1
  <2>1. n \in Nat /\ n = Len(p) - 1
    BY <1>1
  <2> HIDE DEF n
  <2>2. Len(f) = n
    BY <1>2, <2>1
  <2> QED
    BY <2>1, <2>2
<1>7. \A i \in 1..Len(p) - 1 : f[i] = p[i]
  <2>1. n \in Int /\ n - 1 + 1 = n
    BY <1>1
  <2> HIDE DEF n
  <2>2. \A i \in 1..n : f[i] = p[i]
    BY <1>2, <2>1
  <2> QED
    BY <2>2 DEF n
<1>5. Last(p) = p[Len(p)] /\ Last(p) \in Nat
  BY <1>1, PathIs DEF Last
<1> QED
  BY <1>3, <1>4, <1>5, <1>6, <1>7

\* A path is at or below another when it begins with its positions.
LEMMA PrefixIs ==
    ASSUME NEW p \in Paths, NEW q \in Paths
    PROVE  IsPrefix(p, q) <=> Len(p) <= Len(q) /\ \A i \in 1..Len(p) : p[i] = q[i]
<1>1. Len(p) \in Nat /\ Len(q) \in Nat /\ \A i \in 1..Len(p) : p[i] \in Nat
  BY PathIs
<1>2. ASSUME Len(p) <= Len(q)
      PROVE  SubSeq(p, 1, Len(p)) = SubSeq(q, 1, Len(p)) <=> \A i \in 1..Len(p) : p[i] = q[i]
  <2> DEFINE a == SubSeq(p, 1, Len(p))
             b == SubSeq(q, 1, Len(p))
  <2>1. \A i \in 1..Len(p) : q[i] \in Nat
    BY <1>1, <1>2, PathIs
  <2>2. /\ a \in Seq(Nat) /\ Len(a) = IF 1 <= Len(p) THEN Len(p) - 1 + 1 ELSE 0
        /\ \A i \in 1..Len(p) - 1 + 1 : a[i] = p[1 + i - 1]
    BY <1>1, SubSeqProperties
  <2>3. /\ b \in Seq(Nat) /\ Len(b) = IF 1 <= Len(p) THEN Len(p) - 1 + 1 ELSE 0
        /\ \A i \in 1..Len(p) - 1 + 1 : b[i] = q[1 + i - 1]
    BY <1>1, <2>1, SubSeqProperties
  <2>4. /\ a \in Paths /\ b \in Paths /\ Len(a) = Len(p) /\ Len(b) = Len(p)
        /\ \A i \in 1..Len(p) : a[i] = p[i] /\ b[i] = q[i]
    BY <1>1, <2>2, <2>3 DEF Paths
  <2> HIDE DEF a, b
  <2>5. a = b <=> \A i \in 1..Len(p) : p[i] = q[i]
    BY <2>4, SamePath
  <2> QED
    BY <2>5 DEF a, b
<1> QED
  BY <1>2 DEF IsPrefix

\* The path of a child.
LEMMA ChildIs ==
    ASSUME NEW p \in Paths, NEW k \in Nat
    PROVE  /\ Append(p, k) \in Paths /\ Append(p, k) # <<>> /\ Len(Append(p, k)) = Len(p) + 1
           /\ \A i \in 1..Len(p) : Append(p, k)[i] = p[i]
           /\ Append(p, k)[Len(p) + 1] = k /\ Last(Append(p, k)) = k /\ Front(Append(p, k)) = p
<1> DEFINE q == Append(p, k)
<1>1. /\ q \in Paths /\ q # <<>> /\ Len(q) = Len(p) + 1
      /\ \A i \in 1..Len(p) : q[i] = p[i]
      /\ q[Len(p) + 1] = k
  BY AppendProperties DEF Paths
<1> HIDE DEF q
<1>2. Len(p) \in Nat
  BY PathIs
<1>3. /\ Front(q) \in Paths /\ Len(Front(q)) = Len(q) - 1 /\ Last(q) = q[Len(q)]
      /\ \A i \in 1..Len(q) - 1 : Front(q)[i] = q[i]
  BY <1>1, FrontIs
<1>4. Front(q) = p
  BY <1>1, <1>2, <1>3, SamePath
<1>5. Last(q) = k
  BY <1>1, <1>2, <1>3
<1> QED
  BY <1>1, <1>4, <1>5 DEF q

\* A path but the root is the child of its front.
LEMMA ChildOfFront == ASSUME NEW q \in Paths, q # <<>> PROVE q = Append(Front(q), Last(q))
<1>1. Len(q) \in Nat /\ Len(q) > 0
  BY PathIs
<1>2. Front(q) \in Paths /\ Len(Front(q)) = Len(q) - 1 /\ Last(q) = q[Len(q)] /\ Last(q) \in Nat
      /\ \A i \in 1..Len(q) - 1 : Front(q)[i] = q[i]
  BY FrontIs
<1> DEFINE r == Append(Front(q), Last(q))
<1>3. r \in Paths /\ Len(r) = Len(q) /\ (\A i \in 1..Len(q) - 1 : r[i] = q[i]) /\ r[Len(q)] = q[Len(q)]
  BY <1>1, <1>2, ChildIs
<1> HIDE DEF r
<1>4. \A i \in 1..Len(q) : r[i] = q[i]
  BY <1>1, <1>3
<1> QED
  BY <1>3, <1>4, SamePath DEF r

\* The sibling before.
Elder(p) == Append(Front(p), Last(p) - 1)
\* The sibling before.
LEMMA ElderIs ==
    ASSUME NEW p \in Paths, p # <<>>, Last(p) > 0
    PROVE  /\ Elder(p) \in Paths /\ Elder(p) # <<>> /\ Len(Elder(p)) = Len(p)
           /\ \A i \in 1..Len(p) - 1 : Elder(p)[i] = p[i]
           /\ Elder(p)[Len(p)] = p[Len(p)] - 1 /\ Last(Elder(p)) = Last(p) - 1 /\ Front(Elder(p)) = Front(p)
<1>1. Len(p) \in Nat /\ Len(p) > 0
  BY PathIs
<1>2. Front(p) \in Paths /\ Len(Front(p)) = Len(p) - 1 /\ Last(p) = p[Len(p)] /\ Last(p) \in Nat
      /\ \A i \in 1..Len(p) - 1 : Front(p)[i] = p[i]
  BY FrontIs
<1>3. Last(p) - 1 \in Nat
  BY <1>2
<1> DEFINE f == Front(p)
           k == Last(p) - 1
           q == Append(f, k)
<1>4. /\ q \in Paths /\ q # <<>> /\ Len(q) = Len(f) + 1 /\ \A i \in 1..Len(f) : q[i] = f[i]
      /\ q[Len(f) + 1] = k /\ Last(q) = k /\ Front(q) = f
  <2> HIDE DEF f, k
  <2> QED
    BY <1>2, <1>3, ChildIs DEF f, k
<1>5. q = Elder(p)
  BY DEF Elder
<1> HIDE DEF q
<1>6. Len(q) = Len(p) /\ q[Len(p)] = p[Len(p)] - 1 /\ \A i \in 1..Len(p) - 1 : q[i] = p[i]
  BY <1>1, <1>2, <1>4
<1> QED
  BY <1>4, <1>5, <1>6

\* A nonempty set of numbers has a least one in it.
LEMMA LeastNat ==
    ASSUME NEW T, T \subseteq Nat, T # {}
    PROVE  \E x \in T : \A y \in T : x <= y
<1> DEFINE F == {0..n : n \in T}
           U == UNION F
<1>1. F # {} /\ F \subseteq FiniteSubsetsOf(U)
  <2>1. \A n \in T : IsFiniteSet(0..n)
    BY FS_Interval
  <2> QED
    BY <2>1 DEF FiniteSubsetsOf
<1>2. PICK s \in F : \A r \in F : <<r, s>> \notin StrictSubsetOrdering(U)
  <2> HIDE DEF F
  <2> QED
    BY <1>1, FS_StrictSubsetOrderingWellFounded, WFMin
<1>3. PICK x \in T : s = 0..x
  OBVIOUS
<1>4. \A y \in T : y < x => 0..y \in F /\ 0..y \subseteq s /\ 0..y # s
  BY <1>3
<1>5. \A y \in T : ~(y < x)
  BY <1>1, <1>2, <1>4 DEF StrictSubsetOrdering, FiniteSubsetsOf
<1> QED
  BY <1>5

-----------------------------------------------------------------------------
(* A tree without gaps                                                     *)

\* What IsTree says with a sibling before every child but the first, for its count.
Gapless(t) ==
    /\ IsFiniteSet(DOMAIN t) /\ DOMAIN t \subseteq Paths /\ <<>> \in DOMAIN t
    /\ t = [p \in DOMAIN t |-> Node(t[p].kind, t[p].key)]
    /\ \A p \in DOMAIN t \ {<<>>} :
           /\ Front(p) \in DOMAIN t /\ IsBlock(t, Front(p)) /\ Last(p) > 0
           /\ Last(p) > 1 => Elder(p) \in DOMAIN t
    /\ \A p \in DOMAIN t : HasKey(t, p) <=> t[p].key # NoKey

\* The children of p are the paths that go one position further.
LEMMA KidIs ==
    ASSUME NEW t, DOMAIN t \subseteq Paths, NEW p \in Paths, NEW q
    PROVE  q \in Kids(t, p) <=> q \in DOMAIN t /\ q # <<>> /\ Front(q) = p
<1>1. ASSUME q \in DOMAIN t
      PROVE  Len(q) = Len(p) + 1 /\ IsPrefix(p, q) <=> q # <<>> /\ Front(q) = p
  <2>1. q \in Paths /\ Len(p) \in Nat /\ Len(q) \in Nat /\ (q # <<>> <=> Len(q) > 0)
    BY <1>1, PathIs
  <2>2. IsPrefix(p, q) <=> Len(p) <= Len(q) /\ \A i \in 1..Len(p) : p[i] = q[i]
    BY <2>1, PrefixIs
  <2>3. ASSUME Len(q) = Len(p) + 1, IsPrefix(p, q)
        PROVE  q # <<>> /\ Front(q) = p
    <3>1. q # <<>>
      BY <2>1, <2>3
    <3>2. Front(q) \in Paths /\ Len(Front(q)) = Len(q) - 1 /\ \A i \in 1..Len(q) - 1 : Front(q)[i] = q[i]
      BY <2>1, <3>1, FrontIs
    <3>3. Len(Front(q)) = Len(p) /\ \A i \in 1..Len(p) : Front(q)[i] = p[i]
      BY <2>1, <2>2, <2>3, <3>2
    <3> QED
      BY <3>1, <3>2, <3>3, SamePath
  <2>4. ASSUME q # <<>>, Front(q) = p
        PROVE  Len(q) = Len(p) + 1 /\ IsPrefix(p, q)
    <3>1. Len(p) = Len(q) - 1 /\ \A i \in 1..Len(q) - 1 : p[i] = q[i]
      BY <2>1, <2>4, FrontIs
    <3> QED
      BY <2>1, <2>2, <3>1
  <2> QED
    BY <2>3, <2>4
<1> QED
  BY <1>1 DEF Kids

\* The last positions of the children, and the children again from them.
LEMMA KidByLast ==
    ASSUME NEW t, DOMAIN t \subseteq Paths, NEW p \in Paths
    PROVE  /\ \A q \in Kids(t, p) : Last(q) \in Nat /\ q = Append(p, Last(q))
           /\ \A k \in Nat : Append(p, k) \in DOMAIN t => Append(p, k) \in Kids(t, p)
<1>1. ASSUME NEW q \in Kids(t, p)
      PROVE  Last(q) \in Nat /\ q = Append(p, Last(q))
  <2>1. q \in Paths /\ q # <<>> /\ Front(q) = p
    BY KidIs
  <2>2. Last(q) \in Nat
    BY <2>1, FrontIs
  <2>3. q = Append(Front(q), Last(q))
    BY <2>1, ChildOfFront
  <2> QED
    BY <2>1, <2>2, <2>3
<1>2. ASSUME NEW k \in Nat, Append(p, k) \in DOMAIN t
      PROVE  Append(p, k) \in Kids(t, p)
  <2>1. Append(p, k) # <<>> /\ Front(Append(p, k)) = p
    BY ChildIs
  <2> QED
    BY <1>2, <2>1, KidIs
<1> QED
  BY <1>1, <1>2

\* A tree has the children 1 to n of each node, n their number.
LEMMA KidsAre ==
    ASSUME NEW t, IsTree(t), NEW p \in DOMAIN t
    PROVE  /\ IsFiniteSet(Kids(t, p)) /\ Cardinality(Kids(t, p)) \in Nat
           /\ \A k \in Nat : Append(p, k) \in DOMAIN t <=> k \in 1..Cardinality(Kids(t, p))
<1> DEFINE K == Kids(t, p)
           n == Cardinality(K)
           f == [q \in K |-> Last(q)]
<1>1. DOMAIN t \subseteq Paths /\ p \in Paths /\ IsFiniteSet(DOMAIN t)
  BY DEF IsTree, Paths
<1>2. K \subseteq DOMAIN t
  BY DEF Kids
<1>3. IsFiniteSet(K) /\ n \in Nat
  <2> HIDE DEF K
  <2> QED
    BY <1>1, <1>2, FS_Subset, FS_CardinalityType
<1>4. \A q \in K : Last(q) \in 1..n
  <2> SUFFICES ASSUME NEW q \in K PROVE Last(q) \in 1..n
    OBVIOUS
  <2>1. q \in DOMAIN t \ {<<>>} /\ Front(q) = p
    BY <1>1, KidIs
  <2> QED
    BY <2>1 DEF IsTree
<1>5. f \in Injection(K, 1..n)
  <2>1. \A q \in K : q = Append(p, Last(q))
    BY <1>1, KidByLast
  <2> HIDE DEF K, n
  <2>2. f \in [K -> 1..n]
    BY <1>4
  <2>3. \A q, r \in K : f[q] = f[r] => q = r
    BY <2>1
  <2> HIDE DEF f
  <2> QED
    BY <2>2, <2>3 DEF Injection, IsInjective
<1>6. f \in Surjection(K, 1..n)
  <2> HIDE DEF f
  <2>1. IsFiniteSet(1..n) /\ Cardinality(1..n) = n
    <3> HIDE DEF n
    <3> QED
      BY <1>3, FS_Interval
  <2> HIDE DEF K
  <2> QED
    BY <1>5, <2>1, FS_Injection
<1>7. \A k \in 1..n : \E q \in K : Last(q) = k
  BY <1>6 DEF Surjection
<1>8. \A k \in 1..n : Append(p, k) \in DOMAIN t
  BY <1>1, <1>2, <1>7, KidByLast
<1>9. \A k \in Nat : Append(p, k) \in DOMAIN t => k \in 1..n
  <2> SUFFICES ASSUME NEW k \in Nat, Append(p, k) \in DOMAIN t PROVE k \in 1..n
    OBVIOUS
  <2>1. Append(p, k) \in K
    BY <1>1, KidByLast
  <2>2. Last(Append(p, k)) = k
    BY <1>1, ChildIs
  <2> QED
    BY <1>4, <2>1, <2>2
<1> QED
  BY <1>3, <1>8, <1>9

\* What parseTree returns has no gaps.
LEMMA TreeIsGapless == ASSUME NEW t, IsTree(t) PROVE Gapless(t)
<1>1. DOMAIN t \subseteq Paths
  BY DEF IsTree, Paths
<1>2. ASSUME NEW p \in DOMAIN t \ {<<>>}
      PROVE  Last(p) > 0 /\ (Last(p) > 1 => Elder(p) \in DOMAIN t)
  <2>1. Front(p) \in DOMAIN t /\ Last(p) \in 1..Cardinality(Kids(t, Front(p)))
    BY DEF IsTree
  <2>2. Cardinality(Kids(t, Front(p))) \in Nat
        /\ \A k \in Nat : Append(Front(p), k) \in DOMAIN t <=> k \in 1..Cardinality(Kids(t, Front(p)))
    BY <2>1, KidsAre
  <2>3. Last(p) > 1 => Last(p) - 1 \in Nat /\ Last(p) - 1 \in 1..Cardinality(Kids(t, Front(p)))
    BY <2>1, <2>2
  <2>4. Last(p) > 1 => Append(Front(p), Last(p) - 1) \in DOMAIN t
    BY <2>2, <2>3
  <2> QED
    BY <2>1, <2>2, <2>4 DEF Elder
<1> QED
  BY <1>1, <1>2 DEF IsTree, Gapless

\* Without gaps, a child has all the children of a smaller position beside it.
LEMMA Downward ==
    ASSUME NEW t, Gapless(t), NEW p \in Paths, NEW k \in Nat, Append(p, k) \in DOMAIN t
    PROVE  \A i \in 1..k : Append(p, i) \in DOMAIN t
<1> SUFFICES ASSUME NEW i \in 1..k, Append(p, i) \notin DOMAIN t PROVE FALSE
  OBVIOUS
<1> DEFINE T == {j \in Nat : j > i /\ Append(p, j) \in DOMAIN t}
<1>1. T \subseteq Nat /\ k \in T
  BY DEF Gapless
<1>2. PICK j \in T : \A y \in T : j <= y
  <2> HIDE DEF T
  <2> QED
    BY <1>1, LeastNat
<1>3. j \in Nat /\ j > i /\ i > 0 /\ Append(p, j) \in DOMAIN t \ {<<>>} /\ Last(Append(p, j)) = j
      /\ Front(Append(p, j)) = p
  <2>1. j \in Nat /\ j > i /\ i > 0 /\ Append(p, j) \in DOMAIN t
    OBVIOUS
  <2>2. Append(p, j) # <<>> /\ Last(Append(p, j)) = j /\ Front(Append(p, j)) = p
    BY <2>1, ChildIs
  <2> QED
    BY <2>1, <2>2
<1>4. Append(p, j - 1) \in DOMAIN t
  <2> DEFINE q == Append(p, j)
  <2>1. q \in DOMAIN t \ {<<>>} /\ Last(q) > 1 /\ Elder(q) = Append(p, j - 1)
    BY <1>3 DEF Elder
  <2> HIDE DEF q
  <2> QED
    BY <2>1 DEF Gapless
<1>5. j - 1 = i \/ j - 1 \in T
  BY <1>3, <1>4
<1> QED
  BY <1>2, <1>3, <1>4, <1>5

\* A document without gaps counts its children, as parseTree does.
LEMMA GaplessIsTree == ASSUME NEW t, Gapless(t) PROVE IsTree(t)
<1>1. ASSUME NEW p \in DOMAIN t \ {<<>>}
      PROVE  Last(p) \in 1..Cardinality(Kids(t, Front(p)))
  <2> DEFINE f == Front(p)
             k == Last(p)
             K == Kids(t, f)
             g == [i \in 1..k |-> Append(f, i)]
  <2>1. /\ DOMAIN t \subseteq Paths /\ p \in Paths /\ f \in Paths /\ IsFiniteSet(DOMAIN t)
        /\ k \in Nat /\ k > 0 /\ p = Append(f, k)
    BY FrontIs, ChildOfFront DEF Gapless
  <2> HIDE DEF f, k
  <2>2. \A i \in 1..k : Append(f, i) \in DOMAIN t
    BY <2>1, Downward
  <2>3. \A i \in 1..k : Append(f, i) \in K
    BY <2>1, <2>2, KidByLast
  <2>4. g \in Injection(1..k, K)
    <3> HIDE DEF K
    <3>1. g \in [1..k -> K]
      BY <2>3
    <3>2. \A i, j \in 1..k : g[i] = g[j] => i = j
      <4>1. \A i \in 1..k : Last(Append(f, i)) = i
        BY <2>1, ChildIs
      <4> QED
        BY <4>1
    <3> HIDE DEF g
    <3> QED
      BY <3>1, <3>2 DEF Injection, IsInjective
  <2>5. IsFiniteSet(K) /\ Cardinality(K) \in Nat
    <3>1. K \subseteq DOMAIN t
      BY DEF Kids
    <3> HIDE DEF K
    <3> QED
      BY <2>1, <3>1, FS_Subset, FS_CardinalityType
  <2>6. Cardinality(1..k) = k
    BY <2>1, FS_Interval
  <2>7. Cardinality(1..k) <= Cardinality(K)
    <3> HIDE DEF K, g
    <3> QED
      BY <2>4, <2>5, FS_Injection
  <2>8. k \in 1..Cardinality(K)
    BY <2>1, <2>5, <2>6, <2>7
  <2> QED
    BY <2>8 DEF f, k
<1> QED
  BY <1>1 DEF IsTree, Gapless, Paths

-----------------------------------------------------------------------------
(* What moves when a sibling comes or goes                                 *)

\* q is in the family of p: at a sibling of p or below one.
Family(p, q) == Len(p) <= Len(q) /\ \A i \in 1..Len(p) - 1 : p[i] = q[i]
\* At p or below, or at or below a sibling after p.
Later(p, q) == Family(p, q) /\ q[Len(p)] >= p[Len(p)]

\* Only what is at or below a later sibling moves.
LEMMA MovesIfLater ==
    ASSUME NEW p \in Paths, p # <<>>, NEW q \in Paths, NEW d
    PROVE  Moved(p, d, q) = IF Later(p, q) THEN [q EXCEPT ![Len(p)] = q[Len(p)] + d] ELSE q
<1>1. Len(p) \in Nat /\ Len(q) \in Nat /\ Len(p) > 0
  BY PathIs
<1>2. /\ Front(p) \in Paths /\ Len(Front(p)) = Len(p) - 1 /\ Last(p) = p[Len(p)]
      /\ \A i \in 1..Len(p) - 1 : Front(p)[i] = p[i]
  BY FrontIs
<1>3. IsPrefix(Front(p), q) <=> Len(p) - 1 <= Len(q) /\ \A i \in 1..Len(p) - 1 : Front(p)[i] = q[i]
  BY <1>2, PrefixIs
<1>4. Later(p, q) <=> Len(q) >= Len(p) /\ IsPrefix(Front(p), q) /\ q[Len(p)] >= Last(p)
  BY <1>1, <1>2, <1>3 DEF Later, Family
<1> QED
  BY <1>4 DEF Moved

\* q moves by one position at the length of p, if at all.
LEMMA MovedIs ==
    ASSUME NEW p \in Paths, p # <<>>, NEW q \in Paths, NEW d \in {-1, 1}, Later(p, q) => q[Len(p)] + d \in Nat
    PROVE  /\ Moved(p, d, q) \in Paths /\ Len(Moved(p, d, q)) = Len(q)
           /\ \A i \in 1..Len(q) : i # Len(p) => Moved(p, d, q)[i] = q[i]
           /\ Later(p, q) => Len(p) \in 1..Len(q) /\ Moved(p, d, q)[Len(p)] = q[Len(p)] + d
           /\ ~Later(p, q) => Moved(p, d, q) = q
<1>1. Len(p) \in Nat /\ Len(q) \in Nat /\ Len(p) > 0
  BY PathIs
<1>2. CASE Later(p, q)
  <2> DEFINE e == q[Len(p)] + d
             m == [q EXCEPT ![Len(p)] = e]
  <2>1. Moved(p, d, q) = m
    BY <1>2, MovesIfLater
  <2>2. Len(p) \in 1..Len(q)
    BY <1>1, <1>2 DEF Later, Family
  <2>3. e \in Nat
    BY <1>2
  <2> HIDE DEF e
  <2>4. m \in Paths /\ Len(m) = Len(q) /\ \A j \in 1..Len(q) : m[j] = IF j = Len(p) THEN e ELSE q[j]
    BY <2>2, <2>3, ExceptSeq DEF Paths
  <2> HIDE DEF m
  <2> QED
    BY <1>2, <2>1, <2>2, <2>4 DEF e
<1>3. CASE ~Later(p, q)
  BY <1>3, MovesIfLater
<1> QED
  BY <1>2, <1>3

\* The rest of the family of a path depends on its first positions only.
LEMMA FamilyIs ==
    ASSUME NEW p \in Paths, p # <<>>, NEW q \in Paths, NEW r \in Paths, Len(r) = Len(q),
           \A i \in 1..Len(q) : i # Len(p) => r[i] = q[i]
    PROVE  /\ Family(p, r) <=> Family(p, q)
           /\ r[Len(p)] = q[Len(p)] => r = q
<1>1. Len(p) \in Nat /\ Len(q) \in Nat /\ Len(p) > 0
  BY PathIs
<1>2. Family(p, r) <=> Family(p, q)
  BY <1>1 DEF Family
<1>3. ASSUME r[Len(p)] = q[Len(p)] PROVE r = q
  <2>1. \A i \in 1..Len(r) : r[i] = q[i]
    BY <1>3
  <2> QED
    BY <2>1, SamePath
<1> QED
  BY <1>2, <1>3

\* Below p is in the family, with p's own position.
LEMMA BelowIs ==
    ASSUME NEW p \in Paths, p # <<>>, NEW q \in Paths
    PROVE  IsPrefix(p, q) <=> Family(p, q) /\ q[Len(p)] = p[Len(p)]
<1>1. Len(p) \in Nat /\ Len(q) \in Nat /\ Len(p) > 0
  BY PathIs
<1>2. IsPrefix(p, q) <=> Len(p) <= Len(q) /\ \A i \in 1..Len(p) : p[i] = q[i]
  BY PrefixIs
<1> QED
  BY <1>1, <1>2 DEF Family

\* One position more or less: what is moved stays in the family, beyond p's own position.
LEMMA MovedLater ==
    ASSUME NEW p \in Paths, p # <<>>, NEW q \in Paths, NEW d \in {-1, 1}, d = -1 => ~IsPrefix(p, q)
    PROVE  /\ Later(p, q) => q[Len(p)] + d \in Nat
           /\ Family(p, Moved(p, d, q)) <=> Family(p, q)
           /\ Later(p, q) => Moved(p, d, q)[Len(p)] = q[Len(p)] + d
           /\ d = -1 => (Later(p, q) <=> Later(p, Moved(p, d, q)))
           /\ d = 1 => (Later(p, q) <=> Later(p, Moved(p, d, q))) /\ ~IsPrefix(p, Moved(p, d, q))
<1>1. Len(p) \in Nat /\ Len(q) \in Nat /\ Len(p) > 0
  BY PathIs
<1>2. p[Len(p)] \in Nat
  BY <1>1, PathIs
<1>3. Family(p, q) => q[Len(p)] \in Nat
  <2>1. Family(p, q) => Len(p) \in 1..Len(q)
    BY <1>1 DEF Family
  <2> QED
    BY <2>1, PathIs
<1>4. Later(p, q) /\ d = -1 => q[Len(p)] > p[Len(p)]
  BY <1>2, <1>3, BelowIs DEF Later
<1>5. Later(p, q) => q[Len(p)] + d \in Nat
  BY <1>2, <1>3, <1>4 DEF Later
<1> DEFINE m == Moved(p, d, q)
<1>6. /\ m \in Paths /\ Len(m) = Len(q) /\ \A i \in 1..Len(q) : i # Len(p) => m[i] = q[i]
      /\ Later(p, q) => m[Len(p)] = q[Len(p)] + d
      /\ ~Later(p, q) => m = q
  BY <1>5, MovedIs
<1> HIDE DEF m
<1>7. Family(p, m) <=> Family(p, q)
  BY <1>6, FamilyIs
<1>8. d = -1 => (Later(p, q) <=> Later(p, m))
  BY <1>2, <1>3, <1>4, <1>6, <1>7 DEF Later
<1>9. d = 1 => (Later(p, q) <=> Later(p, m))
  BY <1>2, <1>3, <1>6, <1>7 DEF Later
<1>10. d = 1 => ~IsPrefix(p, m)
  <2>1. IsPrefix(p, m) => Later(p, m) /\ m[Len(p)] = p[Len(p)]
    BY <1>2, <1>6, BelowIs DEF Later
  <2> QED
    BY <1>2, <1>3, <1>6, <1>9, <2>1 DEF Later
<1> QED
  BY <1>5, <1>6, <1>7, <1>8, <1>9, <1>10 DEF m

\* No two nodes come to the same place.
LEMMA MovedApart ==
    ASSUME NEW p \in Paths, p # <<>>, NEW q \in Paths, NEW r \in Paths, NEW d \in {-1, 1},
           d = -1 => ~IsPrefix(p, q) /\ ~IsPrefix(p, r),
           Moved(p, d, q) = Moved(p, d, r)
    PROVE  q = r
<1>1. Later(p, q) <=> Later(p, r)
  BY MovedLater
<1>2. (Later(p, q) => q[Len(p)] + d \in Nat) /\ (Later(p, r) => r[Len(p)] + d \in Nat)
  BY MovedLater
<1>3. /\ Len(Moved(p, d, q)) = Len(q)
      /\ \A i \in 1..Len(q) : i # Len(p) => Moved(p, d, q)[i] = q[i]
      /\ Later(p, q) => Len(p) \in 1..Len(q) /\ Moved(p, d, q)[Len(p)] = q[Len(p)] + d
      /\ ~Later(p, q) => Moved(p, d, q) = q
  BY <1>2, MovedIs
<1>4. /\ Len(Moved(p, d, r)) = Len(r)
      /\ \A i \in 1..Len(r) : i # Len(p) => Moved(p, d, r)[i] = r[i]
      /\ Later(p, r) => Len(p) \in 1..Len(r) /\ Moved(p, d, r)[Len(p)] = r[Len(p)] + d
      /\ ~Later(p, r) => Moved(p, d, r) = r
  BY <1>2, MovedIs
<1>5. CASE ~Later(p, q)
  BY <1>1, <1>3, <1>4, <1>5
<1>6. CASE Later(p, q)
  <2>1. Len(q) = Len(r) /\ \A i \in 1..Len(q) : i # Len(p) => r[i] = q[i]
    BY <1>3, <1>4
  <2>2. q[Len(p)] \in Nat /\ r[Len(p)] \in Nat
    BY <1>1, <1>3, <1>4, <1>6, PathIs
  <2>3. r[Len(p)] = q[Len(p)]
    BY <1>1, <1>3, <1>4, <1>6, <2>2
  <2> QED
    BY <2>1, <2>3, FamilyIs
<1> QED
  BY <1>5, <1>6

\* Making room for p and closing the gap again changes nothing.
LEMMA MovedBack ==
    ASSUME NEW p \in Paths, p # <<>>, NEW q \in Paths
    PROVE  Moved(p, -1, Moved(p, 1, q)) = q
<1> DEFINE m == Moved(p, 1, q)
           b == Moved(p, -1, m)
<1>1. /\ Later(p, q) => q[Len(p)] + 1 \in Nat
      /\ Later(p, q) <=> Later(p, m)
      /\ ~IsPrefix(p, m)
  BY MovedLater
<1>2. /\ m \in Paths /\ Len(m) = Len(q) /\ \A i \in 1..Len(q) : i # Len(p) => m[i] = q[i]
      /\ Later(p, q) => Len(p) \in 1..Len(q) /\ m[Len(p)] = q[Len(p)] + 1
      /\ ~Later(p, q) => m = q
  BY <1>1, MovedIs
<1> HIDE DEF m
<1>3. Later(p, m) => m[Len(p)] + (-1) \in Nat
  BY <1>1, <1>2, MovedLater
<1>4. /\ b \in Paths /\ Len(b) = Len(m) /\ \A i \in 1..Len(m) : i # Len(p) => b[i] = m[i]
      /\ Later(p, m) => b[Len(p)] = m[Len(p)] + (-1)
      /\ ~Later(p, m) => b = m
  BY <1>2, <1>3, MovedIs
<1> HIDE DEF b
<1>5. CASE ~Later(p, q)
  BY <1>1, <1>2, <1>4, <1>5 DEF b, m
<1>6. CASE Later(p, q)
  <2>1. q[Len(p)] \in Nat
    BY <1>2, <1>6, PathIs
  <2>2. b[Len(p)] = q[Len(p)]
    BY <1>1, <1>2, <1>4, <1>6, <2>1
  <2>3. b = q
    BY <1>2, <1>4, <2>2, FamilyIs
  <2> QED
    BY <2>3 DEF b, m
<1> QED
  BY <1>5, <1>6

\* What is below a path is below it again one position further up.
LEMMA FrontBelow ==
    ASSUME NEW p \in Paths, p # <<>>, NEW q \in Paths, q # <<>>, Len(p) < Len(q)
    PROVE  /\ Family(p, Front(q)) /\ Front(q)[Len(p)] = q[Len(p)] <=> Family(p, q)
           /\ Later(p, Front(q)) <=> Later(p, q)
           /\ IsPrefix(p, Front(q)) <=> IsPrefix(p, q)
<1>1. Len(p) \in Nat /\ Len(q) \in Nat /\ Len(p) > 0
  BY PathIs
<1>2. Front(q) \in Paths /\ Len(Front(q)) = Len(q) - 1 /\ \A i \in 1..Len(q) - 1 : Front(q)[i] = q[i]
  BY FrontIs
<1>3. Front(q)[Len(p)] = q[Len(p)]
  BY <1>1, <1>2
<1>4. Family(p, Front(q)) <=> Family(p, q)
  BY <1>1, <1>2 DEF Family
<1> QED
  BY <1>2, <1>3, <1>4, BelowIs DEF Later

\* A node moves with the node it is in.
WithFront(p, d, q) ==
    /\ Moved(p, d, q) \in Paths /\ Moved(p, d, q) # <<>>
    /\ Front(Moved(p, d, q)) = Moved(p, d, Front(q))
    /\ d = -1 => ~IsPrefix(p, Front(q))
    /\ IF Later(p, q) /\ Len(q) = Len(p)
       THEN Last(Moved(p, d, q)) = Last(q) + d /\ Front(Moved(p, d, q)) = Front(q) /\ Front(q) = Front(p)
       ELSE Last(Moved(p, d, q)) = Last(q)
\* What moves takes what is above it along.
LEMMA MovedFront ==
    ASSUME NEW p \in Paths, p # <<>>, NEW q \in Paths, q # <<>>, NEW d \in {-1, 1}, d = -1 => ~IsPrefix(p, q)
    PROVE  WithFront(p, d, q)
<1> DEFINE m == Moved(p, d, q)
           f == Front(q)
           g == Moved(p, d, f)
<1>1. Len(p) \in Nat /\ Len(q) \in Nat /\ Len(p) > 0 /\ Len(q) > 0
  BY PathIs
<1>2. f \in Paths /\ Len(f) = Len(q) - 1 /\ (\A i \in 1..Len(q) - 1 : f[i] = q[i]) /\ Last(q) = q[Len(q)]
  BY FrontIs
<1>3. Later(p, q) => q[Len(p)] + d \in Nat
  BY MovedLater
<1>4. /\ m \in Paths /\ Len(m) = Len(q) /\ \A i \in 1..Len(q) : i # Len(p) => m[i] = q[i]
      /\ Later(p, q) => Len(p) \in 1..Len(q) /\ m[Len(p)] = q[Len(p)] + d
      /\ ~Later(p, q) => m = q
  BY <1>3, MovedIs
<1> HIDE DEF m
<1>5. m # <<>>
  BY <1>1, <1>4, PathIs
<1>6. Front(m) \in Paths /\ Len(Front(m)) = Len(q) - 1 /\ (\A i \in 1..Len(q) - 1 : Front(m)[i] = m[i])
      /\ Last(m) = m[Len(q)]
  BY <1>4, <1>5, FrontIs
<1>7. IsPrefix(p, f) => Len(p) <= Len(f)
  BY <1>2, PrefixIs
<1>8. d = -1 => ~IsPrefix(p, f)
  <2>1. Len(p) < Len(q) => (IsPrefix(p, f) <=> IsPrefix(p, q))
    BY FrontBelow
  <2> QED
    BY <1>1, <1>2, <1>7, <2>1
<1> HIDE DEF f
<1>9. CASE Len(p) < Len(q)
  <2>1. (Later(p, f) <=> Later(p, q)) /\ f[Len(p)] = q[Len(p)]
    BY <1>1, <1>2, <1>9, FrontBelow DEF f
  <2>2. /\ g \in Paths /\ Len(g) = Len(f) /\ \A i \in 1..Len(f) : i # Len(p) => g[i] = f[i]
        /\ Later(p, f) => g[Len(p)] = f[Len(p)] + d
        /\ ~Later(p, f) => g = f
    <3>1. Later(p, f) => f[Len(p)] + d \in Nat
      BY <1>3, <2>1
    <3> QED
      BY <1>2, <3>1, MovedIs
  <2> HIDE DEF g
  <2>3. \A i \in 1..Len(q) - 1 : i # Len(p) => Front(m)[i] = g[i]
    BY <1>1, <1>2, <1>4, <1>6, <2>2
  <2>4. Front(m)[Len(p)] = g[Len(p)]
    BY <1>1, <1>2, <1>4, <1>6, <1>9, <2>1, <2>2
  <2>5. Front(m) = g
    <3>1. Len(Front(m)) = Len(g) /\ \A i \in 1..Len(Front(m)) : Front(m)[i] = g[i]
      BY <1>2, <1>6, <2>2, <2>3, <2>4
    <3> QED
      BY <1>6, <2>2, <3>1, SamePath
  <2>6. Last(m) = Last(q)
    BY <1>1, <1>2, <1>4, <1>6, <1>9
  <2> QED
    BY <1>4, <1>5, <1>8, <1>9, <2>5, <2>6 DEF m, f, g, WithFront
<1>10. CASE ~(Len(p) < Len(q))
  <2>1. Len(f) < Len(p)
    BY <1>1, <1>2, <1>10
  <2>2. ~Later(p, f)
    BY <1>1, <1>2, <2>1 DEF Later, Family
  <2>3. g = f
    BY <1>2, <2>2, MovesIfLater
  <2>4. \A i \in 1..Len(q) - 1 : Front(m)[i] = f[i]
    BY <1>1, <1>2, <1>4, <1>6, <1>10
  <2>5. Front(m) = f
    BY <1>2, <1>6, <2>4, SamePath
  <2>6. CASE Later(p, q) /\ Len(q) = Len(p)
    <3>1. Last(m) = Last(q) + d
      BY <1>2, <1>4, <1>6, <2>6
    <3>2. Front(p) \in Paths /\ Len(Front(p)) = Len(p) - 1 /\ \A i \in 1..Len(p) - 1 : Front(p)[i] = p[i]
      BY FrontIs
    <3>3. \A i \in 1..Len(p) - 1 : p[i] = q[i]
      BY <2>6 DEF Later, Family
    <3>4. f = Front(p)
      <4>1. Len(f) = Len(Front(p)) /\ \A i \in 1..Len(f) : f[i] = Front(p)[i]
        BY <1>1, <1>2, <2>6, <3>2, <3>3
      <4> QED
        BY <1>2, <3>2, <4>1, SamePath
    <3> QED
      BY <1>4, <1>5, <1>8, <2>3, <2>5, <2>6, <3>1, <3>4 DEF m, f, g, WithFront
  <2>7. CASE ~(Later(p, q) /\ Len(q) = Len(p))
    <3>1. Last(m) = Last(q)
      BY <1>1, <1>2, <1>4, <1>6, <2>7
    <3> QED
      BY <1>4, <1>5, <1>8, <2>3, <2>5, <2>7, <3>1 DEF m, f, g, WithFront
  <2> QED
    BY <2>6, <2>7
<1> QED
  BY <1>9, <1>10

\* A node that keeps its number keeps its elder sibling.
LEMMA MovedElder ==
    ASSUME NEW p \in Paths, p # <<>>, NEW q \in Paths, q # <<>>, Last(q) > 0, NEW d \in {-1, 1},
           d = -1 => ~IsPrefix(p, q), ~(Later(p, q) /\ Len(q) = Len(p))
    PROVE  /\ Elder(Moved(p, d, q)) = Moved(p, d, Elder(q))
           /\ d = -1 => ~IsPrefix(p, Elder(q))
<1> DEFINE m == Moved(p, d, q)
           e == Elder(q)
           g == Moved(p, d, e)
<1>1. Len(p) \in Nat /\ Len(q) \in Nat /\ Len(p) > 0 /\ Len(q) > 0
  BY PathIs
<1>2. /\ e \in Paths /\ e # <<>> /\ Len(e) = Len(q) /\ \A i \in 1..Len(q) - 1 : e[i] = q[i]
      /\ e[Len(q)] = q[Len(q)] - 1 /\ Last(e) = Last(q) - 1 /\ Front(e) = Front(q)
  BY ElderIs
<1>3. m \in Paths /\ m # <<>> /\ Front(m) = Moved(p, d, Front(q)) /\ Last(m) = Last(q)
  BY MovedFront DEF WithFront
<1> HIDE DEF e, m
<1>4. q[Len(q)] \in Nat
  BY <1>1, PathIs
<1>5. p[Len(p)] \in Nat
  BY <1>1, PathIs
<1>6. ~(Later(p, e) /\ Len(e) = Len(p)) /\ (IsPrefix(p, e) => IsPrefix(p, q))
  <2>1. IsPrefix(p, e) => Later(p, e) /\ e[Len(p)] = p[Len(p)]
    BY <1>2, <1>5, BelowIs DEF Later
  <2>2. CASE Len(p) < Len(q)
    <3>1. Family(p, e) <=> Family(p, q)
      BY <1>1, <1>2, <2>2 DEF Family
    <3>2. e[Len(p)] = q[Len(p)]
      BY <1>1, <1>2, <2>2
    <3> QED
      BY <1>1, <1>2, <2>2, <3>1, <3>2, BelowIs
  <2>3. CASE Len(p) = Len(q)
    <3>1. Family(p, e) <=> Family(p, q)
      BY <1>1, <1>2, <2>3 DEF Family
    <3>2. ~Later(p, e)
      BY <1>2, <1>4, <1>5, <2>3, <3>1 DEF Later
    <3> QED
      BY <2>1, <3>2
  <2>4. CASE Len(p) > Len(q)
    <3>1. ~Later(p, e)
      BY <1>1, <1>2, <2>4 DEF Later, Family
    <3> QED
      BY <2>1, <3>1
  <2> QED
    BY <1>1, <2>2, <2>3, <2>4
<1>7. g \in Paths /\ g # <<>> /\ Front(g) = Moved(p, d, Front(e)) /\ Last(g) = Last(e)
  <2>1. d = -1 => ~IsPrefix(p, e)
    BY <1>6
  <2>2. ~(Later(p, e) /\ Len(e) = Len(p))
    BY <1>6
  <2>3. e \in Paths /\ e # <<>>
    BY <1>2
  <2>4. WithFront(p, d, e)
    BY <2>1, <2>3, MovedFront
  <2> QED
    BY <2>2, <2>4 DEF WithFront
<1>8. g = Append(Front(g), Last(g))
  <2> HIDE DEF g
  <2> QED
    BY <1>7, ChildOfFront
<1>9. Elder(m) = g
  <2> HIDE DEF g
  <2> QED
    BY <1>2, <1>3, <1>7, <1>8 DEF Elder
<1> QED
  BY <1>6, <1>9 DEF m, e, g

-----------------------------------------------------------------------------
(* Renumbering                                                             *)

\* A renumbered tree has each of the nodes that are kept at the place it has moved to.
IsRenumbered(s, t, rest, p, d) ==
    DOMAIN s = {Moved(p, d, q) : q \in rest} /\ \A q \in rest : s[Moved(p, d, q)] = t[q]
\* Nothing is lost by renumbering: no two paths come to be at one.
LEMMA RenumberIs ==
    ASSUME NEW t, DOMAIN t \subseteq Paths, NEW rest, rest \subseteq DOMAIN t, NEW p \in Paths, p # <<>>,
           NEW d \in {-1, 1}, d = -1 => \A q \in rest : ~IsPrefix(p, q)
    PROVE  IsRenumbered(Renumber(t, rest, p, d), t, rest, p, d)
<1>1. ASSUME NEW q \in rest
      PROVE  Renumber(t, rest, p, d)[Moved(p, d, q)] = t[q]
  <2> DEFINE r == CHOOSE r \in rest : Moved(p, d, r) = Moved(p, d, q)
  <2>1. r \in rest /\ Moved(p, d, r) = Moved(p, d, q)
    BY <1>1
  <2> HIDE DEF r
  <2>2. r = q
    BY <1>1, <2>1, MovedApart
  <2>3. Renumber(t, rest, p, d)[Moved(p, d, q)] = t[r]
    BY <1>1 DEF Renumber, r
  <2> QED
    BY <2>2, <2>3
<1>2. DOMAIN Renumber(t, rest, p, d) = {Moved(p, d, q) : q \in rest}
  BY DEF Renumber
<1> QED
  BY <1>1, <1>2 DEF IsRenumbered

\* No more is there than was.
LEMMA RenumberFinite ==
    ASSUME NEW rest, IsFiniteSet(rest), NEW p, NEW d
    PROVE  IsFiniteSet({Moved(p, d, q) : q \in rest})
<1> DEFINE f == [q \in rest |-> Moved(p, d, q)]
           T == {Moved(p, d, q) : q \in rest}
<1>1. f \in Surjection(rest, T)
  BY DEF Surjection
<1> HIDE DEF f, T
<1>2. IsFiniteSet(T)
  BY <1>1, FS_Surjection
<1> QED
  BY <1>2 DEF T

\* The node that has q in it is not below p when q is not.
LEMMA FrontNotBelow ==
    ASSUME NEW p \in Paths, NEW q \in Paths, q # <<>>, ~IsPrefix(p, q)
    PROVE  ~IsPrefix(p, Front(q))
<1>1. Len(p) \in Nat /\ Len(q) \in Nat /\ Len(q) > 0
  BY PathIs
<1>2. Front(q) \in Paths /\ Len(Front(q)) = Len(q) - 1 /\ \A i \in 1..Len(q) - 1 : Front(q)[i] = q[i]
  BY FrontIs
<1>3. IsPrefix(p, q) <=> Len(p) <= Len(q) /\ \A i \in 1..Len(p) : p[i] = q[i]
  BY PrefixIs
<1>4. IsPrefix(p, Front(q)) <=> Len(p) <= Len(Front(q)) /\ \A i \in 1..Len(p) : p[i] = Front(q)[i]
  BY <1>2, PrefixIs
<1> QED
  BY <1>1, <1>2, <1>3, <1>4

\* Without the node at p and what is below it, and the siblings after it renumbered,
\* there is a document again.
LEMMA DeleteKeepsGapless ==
    ASSUME NEW t, Gapless(t), NEW p \in DOMAIN t, p # <<>>
    PROVE  Gapless(DeleteAt(t, p))
<1> DEFINE rest == {q \in DOMAIN t : ~IsPrefix(p, q)}
           s == DeleteAt(t, p)
<1>1. DOMAIN t \subseteq Paths /\ p \in Paths /\ IsFiniteSet(DOMAIN t) /\ Len(p) \in Nat /\ Len(p) > 0
  <2>1. DOMAIN t \subseteq Paths /\ p \in Paths /\ IsFiniteSet(DOMAIN t)
    BY DEF Gapless
  <2> QED
    BY <2>1, PathIs
<1>2. /\ DOMAIN s = {Moved(p, -1, q) : q \in rest}
      /\ \A q \in rest : s[Moved(p, -1, q)] = t[q]
  <2>1. rest \subseteq DOMAIN t /\ \A q \in rest : ~IsPrefix(p, q)
    OBVIOUS
  <2>2. s = Renumber(t, rest, p, -1)
    BY DEF DeleteAt
  <2> HIDE DEF rest, s
  <2>3. IsRenumbered(Renumber(t, rest, p, -1), t, rest, p, -1)
    <3> SUFFICES ASSUME NEW d \in {-1, 1}, d = -1 PROVE IsRenumbered(Renumber(t, rest, p, d), t, rest, p, d)
      OBVIOUS
    <3> QED
      BY <1>1, <2>1, RenumberIs
  <2> QED
    BY <2>2, <2>3 DEF IsRenumbered
<1>3. s = [m \in DOMAIN s |-> s[m]]
  BY DEF DeleteAt, Renumber
<1> HIDE DEF s
<1>4. IsFiniteSet(DOMAIN s)
  <2>1. IsFiniteSet(rest)
    BY <1>1, FS_Subset
  <2> QED
    BY <1>2, <2>1, RenumberFinite
<1>5. \A q \in rest : Moved(p, -1, q) \in Paths
  <2> SUFFICES ASSUME NEW q \in rest PROVE Moved(p, -1, q) \in Paths
    OBVIOUS
  <2>1. q \in Paths /\ ~IsPrefix(p, q)
    BY <1>1
  <2>2. Later(p, q) => q[Len(p)] + (-1) \in Nat
    BY <1>1, <2>1, MovedLater
  <2> QED
    BY <1>1, <2>1, <2>2, MovedIs
<1>6. <<>> \in rest /\ Moved(p, -1, <<>>) = <<>>
  <2>1. <<>> \in Paths /\ Len(<<>>) = 0
    BY EmptySeq DEF Paths
  <2>2. ~IsPrefix(p, <<>>) /\ ~Later(p, <<>>)
    BY <1>1, <2>1 DEF IsPrefix, Later, Family
  <2> QED
    BY <1>1, <2>1, <2>2, MovesIfLater DEF Gapless
<1>7. s = [m \in DOMAIN s |-> Node(s[m].kind, s[m].key)]
  <2>1. \A q \in DOMAIN t : t[q] = Node(t[q].kind, t[q].key)
    BY DEF Gapless
  <2>2. \A m \in DOMAIN s : s[m] = Node(s[m].kind, s[m].key)
    BY <1>2, <2>1
  <2> QED
    BY <1>3, <2>2
\* what becomes of a node but the root
<1>8. ASSUME NEW q \in rest, q # <<>>
      PROVE  /\ WithFront(p, -1, q) /\ Front(q) \in rest /\ s[Front(Moved(p, -1, q))] = t[Front(q)]
             /\ Front(Moved(p, -1, q)) \in DOMAIN s /\ q \in Paths /\ q \in DOMAIN t /\ Last(q) \in Nat /\ Last(q) > 0
             /\ t[Front(q)].kind \in Blocks /\ (Last(q) > 1 => Elder(q) \in DOMAIN t)
  <2>1. q \in Paths /\ q \in DOMAIN t /\ ~IsPrefix(p, q)
    BY <1>1
  <2>2. Front(q) \in DOMAIN t /\ t[Front(q)].kind \in Blocks /\ Last(q) > 0 /\ (Last(q) > 1 => Elder(q) \in DOMAIN t)
    BY <1>8, <2>1 DEF Gapless, IsBlock
  <2>3. WithFront(p, -1, q)
    BY <1>1, <1>8, <2>1, MovedFront
  <2>4. Front(q) \in rest
    BY <1>1, <1>8, <2>1, <2>2, FrontNotBelow
  <2>5. s[Moved(p, -1, Front(q))] = t[Front(q)] /\ Moved(p, -1, Front(q)) \in DOMAIN s
    BY <1>2, <2>4
  <2>6. Last(q) \in Nat
    BY <1>8, <2>1, FrontIs
  <2> QED
    BY <2>1, <2>2, <2>3, <2>4, <2>5, <2>6 DEF WithFront
<1>9. ASSUME NEW m \in DOMAIN s, m # <<>>
      PROVE  /\ Front(m) \in DOMAIN s /\ IsBlock(s, Front(m)) /\ Last(m) > 0
             /\ Last(m) > 1 => Elder(m) \in DOMAIN s
             /\ s[Front(m)].kind = "object" <=> s[m].key # NoKey
  <2>1. PICK q \in rest : m = Moved(p, -1, q)
    BY <1>2
  <2>2. q # <<>>
    BY <1>6, <1>9, <2>1
  <2>3. /\ WithFront(p, -1, q) /\ s[Front(m)] = t[Front(q)] /\ Front(m) \in DOMAIN s /\ q \in Paths
        /\ q \in DOMAIN t /\ Last(q) \in Nat /\ Last(q) > 0
        /\ t[Front(q)].kind \in Blocks /\ (Last(q) > 1 => Elder(q) \in DOMAIN t)
    BY <1>8, <2>1, <2>2
  <2>4. s[m] = t[q]
    BY <1>2, <2>1
  <2>5. t[Front(q)].kind = "object" <=> t[q].key # NoKey
    BY <2>2, <2>3 DEF Gapless, HasKey
  <2>6. ~IsPrefix(p, q)
    OBVIOUS
  <2>7. CASE ~(Later(p, q) /\ Len(q) = Len(p))
    <3>1. Last(m) = Last(q)
      BY <2>1, <2>3, <2>7 DEF WithFront
    <3>2. Elder(m) = Moved(p, -1, Elder(q)) /\ ~IsPrefix(p, Elder(q))
      <4> SUFFICES ASSUME NEW d \in {-1, 1}, d = -1 PROVE Elder(m) = Moved(p, d, Elder(q)) /\ ~IsPrefix(p, Elder(q))
        OBVIOUS
      <4> QED
        BY <1>1, <2>1, <2>2, <2>3, <2>6, <2>7, MovedElder
    <3>3. Last(m) > 1 => Elder(m) \in DOMAIN s
      BY <1>2, <2>3, <3>1, <3>2
    <3> QED
      BY <2>3, <2>4, <2>5, <3>1, <3>3 DEF IsBlock
  <2>8. CASE Later(p, q) /\ Len(q) = Len(p)
    <3>1. Last(m) = Last(q) + (-1) /\ Front(m) = Front(q) /\ Front(q) = Front(p)
      BY <2>1, <2>3, <2>8 DEF WithFront
    <3>2. Last(q) > Last(p) /\ Last(p) \in Nat /\ Last(p) > 0 /\ (Last(p) > 1 => Elder(p) \in DOMAIN t)
      <4>1. Last(q) >= Last(p) /\ Last(p) \in Nat
        BY <1>1, <2>2, <2>3, <2>8, FrontIs DEF Later
      <4>2. Last(q) # Last(p)
        <5> SUFFICES ASSUME Last(q) = Last(p) PROVE FALSE
          OBVIOUS
        <5>1. q = p
          <6>1. q = Append(Front(q), Last(q)) /\ p = Append(Front(p), Last(p))
            BY <1>1, <2>2, <2>3, ChildOfFront
          <6> QED
            BY <3>1, <6>1
        <5>2. IsPrefix(q, q)
          BY <2>3, PrefixIs, PathIs
        <5> QED
          BY <2>6, <5>1, <5>2
      <4>3. Last(p) > 0 /\ (Last(p) > 1 => Elder(p) \in DOMAIN t)
        BY DEF Gapless
      <4> QED
        BY <2>3, <4>1, <4>2, <4>3
    <3>3. Last(m) > 1 => Elder(m) \in DOMAIN s
      <4> SUFFICES ASSUME Last(m) > 1 PROVE Elder(m) \in DOMAIN s
        OBVIOUS
      <4>1. CASE Last(q) - 1 = Last(p)
        <5>1. Last(p) > 1 /\ Elder(p) \in DOMAIN t
          BY <2>3, <3>1, <3>2, <4>1
        <5>2. Elder(m) = Elder(p)
          BY <2>3, <3>1, <3>2, <4>1 DEF Elder
        <5>3. /\ Elder(p) \in Paths /\ Len(Elder(p)) = Len(p) /\ Elder(p)[Len(p)] = p[Len(p)] - 1
          BY <1>1, <3>2, ElderIs
        <5>4. ~Later(p, Elder(p)) /\ ~IsPrefix(p, Elder(p))
          <6>1. p[Len(p)] \in Nat
            BY <1>1, PathIs
          <6> QED
            BY <1>1, <5>3, <6>1, BelowIs DEF Later
        <5>5. Moved(p, -1, Elder(p)) = Elder(p)
          BY <1>1, <5>3, <5>4, MovesIfLater
        <5> QED
          BY <1>2, <5>1, <5>2, <5>4, <5>5
      <4>2. CASE Last(q) - 1 > Last(p)
        <5> DEFINE e == Elder(q)
        <5>1. /\ e \in Paths /\ e # <<>> /\ Len(e) = Len(q) /\ (\A i \in 1..Len(q) - 1 : e[i] = q[i])
              /\ e[Len(q)] = q[Len(q)] - 1 /\ Last(e) = Last(q) - 1 /\ Front(e) = Front(q)
          BY <2>2, <2>3, ElderIs
        <5>2. e \in DOMAIN t
          BY <2>3, <3>2, <4>2
        <5> HIDE DEF e
        <5>3. Later(p, e) /\ ~IsPrefix(p, e)
          <6>1. q[Len(p)] = Last(q) /\ p[Len(p)] = Last(p)
            BY <1>1, <2>2, <2>3, <2>8, FrontIs
          <6>2. Family(p, e)
            BY <1>1, <2>8, <5>1 DEF Later, Family
          <6>3. e[Len(p)] > p[Len(p)]
            BY <2>3, <2>8, <3>2, <4>2, <5>1, <6>1
          <6>4. e[Len(p)] >= p[Len(p)] /\ e[Len(p)] # p[Len(p)]
            <7>1. q[Len(q)] \in Nat /\ p[Len(p)] \in Nat
              BY <2>3, <2>8, <3>2, <6>1
            <7>2. e[Len(p)] = q[Len(q)] - 1
              BY <2>8, <5>1
            <7> QED
              BY <6>3, <7>1, <7>2
          <6> QED
            BY <1>1, <5>1, <6>2, <6>4, BelowIs DEF Later
        <5>4. WithFront(p, -1, e)
          BY <1>1, <5>1, <5>3, MovedFront
        <5>5. Moved(p, -1, e) \in Paths /\ Moved(p, -1, e) # <<>>
              /\ Last(Moved(p, -1, e)) = Last(e) + (-1) /\ Front(Moved(p, -1, e)) = Front(e)
          BY <2>8, <5>1, <5>3, <5>4 DEF WithFront
        <5>6. Moved(p, -1, e) = Append(Front(e), Last(e) + (-1))
          BY <5>5, ChildOfFront
        <5>7. Elder(m) = Moved(p, -1, e)
          <6>1. Last(m) - 1 = Last(e) + (-1)
            BY <2>3, <3>1, <5>1
          <6> QED
            BY <3>1, <5>1, <5>6, <6>1 DEF Elder
        <5>8. e \in rest
          BY <5>2, <5>3
        <5> QED
          BY <1>2, <5>7, <5>8
      <4> QED
        BY <2>3, <3>2, <4>1, <4>2
    <3>4. Last(m) > 0
      BY <2>3, <3>1, <3>2
    <3> QED
      BY <2>3, <2>4, <2>5, <3>3, <3>4 DEF IsBlock
  <2> QED
    BY <2>7, <2>8
<1>10. s[<<>>].key = NoKey
  <2>1. s[<<>>] = t[<<>>]
    BY <1>2, <1>6
  <2> QED
    BY <2>1 DEF Gapless, HasKey
<1>11. \A m \in DOMAIN s : HasKey(s, m) <=> s[m].key # NoKey
  BY <1>9, <1>10 DEF HasKey
<1>12. DOMAIN s \subseteq Paths /\ <<>> \in DOMAIN s
  BY <1>2, <1>5, <1>6
<1>13. \A m \in DOMAIN s \ {<<>>} :
           Front(m) \in DOMAIN s /\ IsBlock(s, Front(m)) /\ Last(m) > 0 /\ (Last(m) > 1 => Elder(m) \in DOMAIN s)
  BY <1>9
<1>14. Gapless(s)
  BY <1>4, <1>7, <1>11, <1>12, <1>13 DEF Gapless
<1> QED
  BY <1>14 DEF s

\* Where a node may be added: as a child of a block, after the child before it.
Room(t, at) ==
    /\ at \in Paths /\ at # <<>> /\ Front(at) \in DOMAIN t /\ IsBlock(t, Front(at))
    /\ Last(at) > 0 /\ (Last(at) > 1 => Elder(at) \in DOMAIN t)

\* What is where after a leaf came to be at p: the others are where they have moved to,
\* and none of them is at p or below.
IsInserted(s, t, p, node) ==
    /\ DOMAIN s = {p} \cup {Moved(p, 1, q) : q \in DOMAIN t}
    /\ s[p] = node
    /\ \A q \in DOMAIN t : s[Moved(p, 1, q)] = t[q] /\ ~IsPrefix(p, Moved(p, 1, q))
\* A leaf is added and the others have moved.
LEMMA InsertIs ==
    ASSUME NEW t, DOMAIN t \subseteq Paths, NEW p \in Paths, p # <<>>, NEW node
    PROVE  IsInserted(InsertLeaf(t, p, node), t, p, node)
<1> DEFINE r == Renumber(t, DOMAIN t, p, 1)
           s == InsertLeaf(t, p, node)
<1>1. DOMAIN r = {Moved(p, 1, q) : q \in DOMAIN t} /\ \A q \in DOMAIN t : r[Moved(p, 1, q)] = t[q]
  <2>1. IsRenumbered(r, t, DOMAIN t, p, 1)
    <3> SUFFICES ASSUME NEW d \in {-1, 1}, d = 1 PROVE IsRenumbered(Renumber(t, DOMAIN t, p, d), t, DOMAIN t, p, d)
      OBVIOUS
    <3> QED
      BY RenumberIs
  <2> QED
    BY <2>1 DEF IsRenumbered
<1>2. s = [q \in {p} \cup DOMAIN r |-> IF q = p THEN node ELSE r[q]]
  BY DEF InsertLeaf
<1>3. \A q \in DOMAIN t : ~IsPrefix(p, Moved(p, 1, q))
  BY MovedLater
<1>4. IsPrefix(p, p)
  BY PrefixIs, PathIs
<1> HIDE DEF r, s
<1>5. \A q \in DOMAIN t : Moved(p, 1, q) # p
  BY <1>3, <1>4
<1>6. \A q \in DOMAIN t : s[Moved(p, 1, q)] = t[q]
  <2> SUFFICES ASSUME NEW q \in DOMAIN t PROVE s[Moved(p, 1, q)] = t[q]
    OBVIOUS
  <2> DEFINE m == Moved(p, 1, q)
  <2>1. m \in DOMAIN r /\ r[m] = t[q] /\ m # p
    BY <1>1, <1>5
  <2> HIDE DEF m
  <2>2. s[m] = t[q]
    BY <1>2, <2>1
  <2> QED
    BY <2>2 DEF m
<1>7. DOMAIN s = {p} \cup DOMAIN r /\ s[p] = node
  BY <1>2
<1> QED
  BY <1>1, <1>3, <1>6, <1>7 DEF IsInserted, s

\* With a leaf in a place there is room, and the siblings after it renumbered, there is
\* a document again.
LEMMA InsertKeepsGapless ==
    ASSUME NEW t, Gapless(t), NEW p, Room(t, p), NEW kind, NEW key, t[Front(p)].kind = "object" <=> key # NoKey
    PROVE  Gapless(InsertLeaf(t, p, Node(kind, key)))
<1> DEFINE node == Node(kind, key)
           s == InsertLeaf(t, p, node)
<1>1. DOMAIN t \subseteq Paths /\ p \in Paths /\ p # <<>> /\ IsFiniteSet(DOMAIN t) /\ Len(p) \in Nat /\ Len(p) > 0
  <2>1. DOMAIN t \subseteq Paths /\ p \in Paths /\ p # <<>> /\ IsFiniteSet(DOMAIN t)
    BY DEF Gapless, Room
  <2> QED
    BY <2>1, PathIs
<1>2. IsInserted(s, t, p, node)
  BY <1>1, InsertIs
<1>3. s = [m \in DOMAIN s |-> s[m]]
  BY DEF InsertLeaf
<1>4. node = Node(node.kind, node.key) /\ node.key = key
  BY DEF Node
<1> HIDE DEF s, node
<1>5. /\ DOMAIN s = {p} \cup {Moved(p, 1, q) : q \in DOMAIN t}
      /\ s[p] = node
      /\ \A q \in DOMAIN t : s[Moved(p, 1, q)] = t[q]
  BY <1>2 DEF IsInserted
<1>6. IsFiniteSet(DOMAIN s)
  <2>1. IsFiniteSet({Moved(p, 1, q) : q \in DOMAIN t})
    BY <1>1, RenumberFinite
  <2>2. IsFiniteSet({Moved(p, 1, q) : q \in DOMAIN t} \cup {p})
    <3> DEFINE M == {Moved(p, 1, q) : q \in DOMAIN t}
    <3> HIDE DEF M
    <3>1. IsFiniteSet(M \cup {p})
      BY <2>1, FS_AddElement DEF M
    <3> QED
      BY <3>1 DEF M
  <2>3. DOMAIN s = {Moved(p, 1, q) : q \in DOMAIN t} \cup {p}
    BY <1>5
  <2> QED
    BY <2>2, <2>3
<1>7. DOMAIN s \subseteq Paths
  <2> SUFFICES ASSUME NEW q \in DOMAIN t PROVE Moved(p, 1, q) \in Paths
    BY <1>1, <1>5
  <2>1. q \in Paths
    BY <1>1
  <2>2. Later(p, q) => q[Len(p)] + 1 \in Nat
    BY <1>1, <2>1, MovedLater
  <2> QED
    BY <1>1, <2>1, <2>2, MovedIs
<1>8. <<>> \in DOMAIN t /\ Moved(p, 1, <<>>) = <<>>
  <2>1. <<>> \in Paths /\ Len(<<>>) = 0
    BY EmptySeq DEF Paths
  <2>2. ~Later(p, <<>>)
    BY <1>1, <2>1 DEF Later, Family
  <2> QED
    BY <1>1, <2>1, <2>2, MovesIfLater DEF Gapless
<1>9. s = [m \in DOMAIN s |-> Node(s[m].kind, s[m].key)]
  <2>1. \A q \in DOMAIN t : t[q] = Node(t[q].kind, t[q].key)
    BY DEF Gapless
  <2>2. \A m \in DOMAIN s : s[m] = Node(s[m].kind, s[m].key)
    BY <1>4, <1>5, <2>1
  <2> QED
    BY <1>3, <2>2
\* the ancestors and elder siblings of p are where they were
<1>10. Front(p) \in DOMAIN s /\ s[Front(p)] = t[Front(p)] /\ (Last(p) > 1 => Elder(p) \in DOMAIN s) /\ Last(p) > 0
  <2>1. Front(p) \in Paths /\ Len(Front(p)) = Len(p) - 1 /\ Last(p) = p[Len(p)] /\ Last(p) \in Nat
    BY <1>1, FrontIs
  <2>2. ~Later(p, Front(p))
    BY <1>1, <2>1 DEF Later, Family
  <2>3. Moved(p, 1, Front(p)) = Front(p)
    BY <1>1, <2>1, <2>2, MovesIfLater
  <2>4. Front(p) \in DOMAIN t /\ Last(p) > 0 /\ (Last(p) > 1 => Elder(p) \in DOMAIN t)
    BY DEF Room
  <2>5. Moved(p, 1, Elder(p)) = Elder(p)
    <3>1. Elder(p) \in Paths /\ Elder(p)[Len(p)] = p[Len(p)] - 1
      BY <1>1, <2>4, ElderIs
    <3>2. ~Later(p, Elder(p))
      BY <2>1, <3>1 DEF Later
    <3> QED
      BY <1>1, <3>1, <3>2, MovesIfLater
  <2> QED
    BY <1>5, <2>3, <2>4, <2>5
<1>11. ASSUME NEW m \in DOMAIN s, m # <<>>, m # p
       PROVE  /\ Front(m) \in DOMAIN s /\ IsBlock(s, Front(m)) /\ Last(m) > 0
              /\ Last(m) > 1 => Elder(m) \in DOMAIN s
              /\ s[Front(m)].kind = "object" <=> s[m].key # NoKey
  <2>1. PICK q \in DOMAIN t : m = Moved(p, 1, q)
    BY <1>5, <1>11
  <2>2. q # <<>>
    BY <1>8, <1>11, <2>1
  <2>3. q \in Paths /\ Last(q) \in Nat
    BY <1>1, <2>2, FrontIs
  <2>4. WithFront(p, 1, q)
    <3> SUFFICES ASSUME NEW d \in {-1, 1}, d = 1 PROVE WithFront(p, d, q)
      OBVIOUS
    <3> QED
      BY <1>1, <2>2, <2>3, MovedFront
  <2>5. /\ Front(q) \in DOMAIN t /\ t[Front(q)].kind \in Blocks /\ Last(q) > 0 /\ (Last(q) > 1 => Elder(q) \in DOMAIN t)
        /\ t[Front(q)].kind = "object" <=> t[q].key # NoKey
    BY <2>2 DEF Gapless, IsBlock, HasKey
  <2>6. Front(m) \in DOMAIN s /\ s[Front(m)] = t[Front(q)] /\ s[m] = t[q]
    BY <1>5, <2>1, <2>4, <2>5 DEF WithFront
  <2>7. CASE ~(Later(p, q) /\ Len(q) = Len(p))
    <3>1. Last(m) = Last(q)
      BY <2>1, <2>4, <2>7 DEF WithFront
    <3>2. Elder(m) = Moved(p, 1, Elder(q))
      <4> SUFFICES ASSUME NEW d \in {-1, 1}, d = 1 PROVE Elder(m) = Moved(p, d, Elder(q))
        OBVIOUS
      <4> QED
        BY <1>1, <2>1, <2>2, <2>3, <2>5, <2>7, MovedElder
    <3>3. Last(m) > 1 => Elder(m) \in DOMAIN s
      BY <1>5, <2>5, <3>1, <3>2
    <3> QED
      BY <2>5, <2>6, <3>1, <3>3 DEF IsBlock
  <2>8. CASE Later(p, q) /\ Len(q) = Len(p)
    <3>1. Last(m) = Last(q) + 1 /\ Front(m) = Front(q) /\ Front(q) = Front(p)
      BY <2>1, <2>4, <2>8 DEF WithFront
    <3>2. q = Append(Front(q), Last(q)) /\ p = Append(Front(p), Last(p))
      BY <1>1, <2>2, <2>3, ChildOfFront
    <3>3. Elder(m) = q
      <4>1. Last(m) - 1 = Last(q)
        BY <2>3, <3>1
      <4> QED
        BY <3>1, <3>2, <4>1 DEF Elder
    <3>4. Last(q) >= Last(p) /\ Last(p) \in Nat /\ Last(p) > 0
      <4>1. Last(p) = p[Len(p)] /\ Last(q) = q[Len(q)] /\ Last(p) \in Nat
        BY <1>1, <2>2, <2>3, FrontIs
      <4> QED
        BY <1>10, <2>8, <4>1 DEF Later
    <3>5. q \in DOMAIN s
      <4>1. CASE Last(q) = Last(p)
        <5>1. q = p
          BY <3>1, <3>2, <4>1
        <5> QED
          BY <1>5, <5>1
      <4>2. CASE Last(q) > Last(p)
        <5> DEFINE e == Elder(q)
        <5>1. /\ e \in Paths /\ e # <<>> /\ Len(e) = Len(q) /\ (\A i \in 1..Len(q) - 1 : e[i] = q[i])
              /\ e[Len(q)] = q[Len(q)] - 1 /\ Last(e) = Last(q) - 1 /\ Front(e) = Front(q)
          BY <2>2, <2>3, <2>5, ElderIs
        <5>2. e \in DOMAIN t
          BY <2>3, <2>5, <3>4, <4>2
        <5> HIDE DEF e
        <5>3. Later(p, e)
          <6>1. q[Len(p)] = Last(q) /\ p[Len(p)] = Last(p)
            BY <1>1, <2>2, <2>3, <2>8, FrontIs
          <6>2. Family(p, e)
            BY <1>1, <2>8, <5>1 DEF Later, Family
          <6>3. e[Len(p)] >= p[Len(p)]
            BY <2>3, <2>8, <3>4, <4>2, <5>1, <6>1
          <6> QED
            BY <6>2, <6>3 DEF Later
        <5>4. WithFront(p, 1, e)
          <6> SUFFICES ASSUME NEW d \in {-1, 1}, d = 1 PROVE WithFront(p, d, e)
            OBVIOUS
          <6> QED
            BY <1>1, <5>1, MovedFront
        <5>5. Moved(p, 1, e) \in Paths /\ Moved(p, 1, e) # <<>>
              /\ Last(Moved(p, 1, e)) = Last(e) + 1 /\ Front(Moved(p, 1, e)) = Front(e)
          BY <2>8, <5>1, <5>3, <5>4 DEF WithFront
        <5>6. Moved(p, 1, e) = Append(Front(e), Last(e) + 1)
          BY <5>5, ChildOfFront
        <5>7. Moved(p, 1, e) = q
          <6>1. Last(e) + 1 = Last(q)
            BY <2>3, <5>1
          <6> QED
            BY <3>2, <5>1, <5>6, <6>1
        <5> QED
          BY <1>5, <5>2, <5>7
      <4> QED
        BY <2>3, <3>4, <4>1, <4>2
    <3>6. Last(m) > 0
      BY <2>3, <3>1
    <3> QED
      BY <2>5, <2>6, <3>3, <3>5, <3>6 DEF IsBlock
  <2> QED
    BY <2>7, <2>8
<1>12. IsBlock(s, Front(p)) /\ (s[Front(p)].kind = "object" <=> s[p].key # NoKey)
  BY <1>4, <1>5, <1>10 DEF Room, IsBlock
<1>13. <<>> \in DOMAIN s /\ s[<<>>].key = NoKey
  <2>1. <<>> \in DOMAIN s /\ s[<<>>] = t[<<>>]
    BY <1>5, <1>8
  <2> QED
    BY <2>1 DEF Gapless, HasKey
<1>14. \A m \in DOMAIN s : HasKey(s, m) <=> s[m].key # NoKey
  BY <1>1, <1>11, <1>12, <1>13 DEF HasKey
<1>15. \A m \in DOMAIN s \ {<<>>} :
           Front(m) \in DOMAIN s /\ IsBlock(s, Front(m)) /\ Last(m) > 0 /\ (Last(m) > 1 => Elder(m) \in DOMAIN s)
  BY <1>10, <1>11, <1>12
<1>16. Gapless(s)
  BY <1>6, <1>7, <1>9, <1>13, <1>14, <1>15 DEF Gapless
<1> QED
  BY <1>16 DEF s, node

\* Taking the leaf away again gives the document there was.
LEMMA DeleteInserted ==
    ASSUME NEW t, Gapless(t), NEW p \in Paths, p # <<>>, NEW node
    PROVE  DeleteAt(InsertLeaf(t, p, node), p) = t
<1> DEFINE s == InsertLeaf(t, p, node)
           rest == {q \in DOMAIN s : ~IsPrefix(p, q)}
           b == DeleteAt(s, p)
<1>1. DOMAIN t \subseteq Paths /\ t = [q \in DOMAIN t |-> t[q]]
  BY DEF Gapless
<1>2. IsInserted(s, t, p, node)
  BY <1>1, InsertIs
<1>3. b = Renumber(s, rest, p, -1)
  BY DEF DeleteAt
<1>4. b = [m \in DOMAIN b |-> b[m]]
  BY DEF DeleteAt, Renumber
<1> HIDE DEF s, b
<1>5. /\ DOMAIN s = {p} \cup {Moved(p, 1, q) : q \in DOMAIN t}
      /\ \A q \in DOMAIN t : s[Moved(p, 1, q)] = t[q] /\ ~IsPrefix(p, Moved(p, 1, q))
  BY <1>2 DEF IsInserted
<1>6. IsPrefix(p, p)
  BY PrefixIs, PathIs
<1>7. rest = {Moved(p, 1, q) : q \in DOMAIN t}
  BY <1>5, <1>6
<1>8. DOMAIN s \subseteq Paths
  <2> SUFFICES ASSUME NEW q \in DOMAIN t PROVE Moved(p, 1, q) \in Paths
    BY <1>5
  <2>1. q \in Paths
    BY <1>1
  <2>2. Later(p, q) => q[Len(p)] + 1 \in Nat
    BY <2>1, MovedLater
  <2> QED
    BY <2>1, <2>2, MovedIs
<1>9. IsRenumbered(b, s, rest, p, -1)
  <2>1. rest \subseteq DOMAIN s /\ \A q \in rest : ~IsPrefix(p, q)
    OBVIOUS
  <2> HIDE DEF rest
  <2>2. IsRenumbered(Renumber(s, rest, p, -1), s, rest, p, -1)
    <3> SUFFICES ASSUME NEW d \in {-1, 1}, d = -1 PROVE IsRenumbered(Renumber(s, rest, p, d), s, rest, p, d)
      OBVIOUS
    <3> QED
      BY <1>8, <2>1, RenumberIs
  <2> QED
    BY <1>3, <2>2
<1> HIDE DEF rest
<1>10. DOMAIN b = {Moved(p, -1, m) : m \in rest} /\ \A m \in rest : b[Moved(p, -1, m)] = s[m]
  BY <1>9 DEF IsRenumbered
<1>11. \A q \in DOMAIN t : Moved(p, -1, Moved(p, 1, q)) = q
  BY <1>1, MovedBack
<1>12. DOMAIN b = DOMAIN t
  <2>1. ASSUME NEW q \in DOMAIN t PROVE q \in DOMAIN b
    <3>1. Moved(p, 1, q) \in rest
      BY <1>7
    <3> QED
      BY <1>10, <1>11, <3>1
  <2>2. ASSUME NEW r \in DOMAIN b PROVE r \in DOMAIN t
    <3>1. PICK m \in rest : r = Moved(p, -1, m)
      BY <1>10
    <3>2. PICK q \in DOMAIN t : m = Moved(p, 1, q)
      BY <1>7
    <3> QED
      BY <1>11, <3>1, <3>2
  <2> QED
    BY <2>1, <2>2
<1>13. \A q \in DOMAIN t : b[q] = t[q]
  <2> SUFFICES ASSUME NEW q \in DOMAIN t PROVE b[q] = t[q]
    OBVIOUS
  <2>1. Moved(p, 1, q) \in rest
    BY <1>7
  <2>2. b[Moved(p, -1, Moved(p, 1, q))] = s[Moved(p, 1, q)]
    BY <1>10, <2>1
  <2> QED
    BY <1>5, <1>11, <2>2
<1> QED
  BY <1>1, <1>4, <1>12, <1>13 DEF b, s

-----------------------------------------------------------------------------
(* Below a path                                                            *)

\* A path below another.
LEMMA JoinIs ==
    ASSUME NEW p \in Paths, NEW r \in Paths
    PROVE  /\ p \o r \in Paths /\ Len(p \o r) = Len(p) + Len(r)
           /\ \A i \in 1..Len(p) : (p \o r)[i] = p[i]
           /\ \A i \in 1..Len(r) : (p \o r)[Len(p) + i] = r[i]
           /\ IsPrefix(p, p \o r)
           /\ p \o r = p <=> r = <<>>
<1> DEFINE q == p \o r
<1>1. Len(p) \in Nat /\ Len(r) \in Nat /\ (r # <<>> <=> Len(r) > 0)
  BY PathIs
<1>2. /\ q \in Paths /\ Len(q) = Len(p) + Len(r)
      /\ \A i \in 1..Len(p) + Len(r) : q[i] = IF i <= Len(p) THEN p[i] ELSE r[i - Len(p)]
  BY ConcatProperties DEF Paths
<1>3. q = p <=> r = <<>>
  BY ConcatEqualIffEmpty DEF Paths
<1> HIDE DEF q
<1>4. \A i \in 1..Len(p) : q[i] = p[i]
  BY <1>1, <1>2
<1>5. \A i \in 1..Len(r) : q[Len(p) + i] = r[i]
  <2> SUFFICES ASSUME NEW i \in 1..Len(r) PROVE q[Len(p) + i] = r[i]
    OBVIOUS
  <2> DEFINE j == Len(p) + i
  <2>1. j \in 1..Len(p) + Len(r) /\ ~(j <= Len(p)) /\ j - Len(p) = i
    BY <1>1
  <2> HIDE DEF j
  <2>2. q[j] = r[i]
    BY <1>2, <2>1
  <2> QED
    BY <2>2 DEF j
<1>6. IsPrefix(p, q)
  BY <1>1, <1>2, <1>4, PrefixIs
<1> QED
  BY <1>2, <1>3, <1>4, <1>5, <1>6 DEF q

\* A path below another is that one and its suffix.
LEMMA SuffixIs ==
    ASSUME NEW p \in Paths, NEW q \in Paths, IsPrefix(p, q)
    PROVE  Suffix(p, q) \in Paths /\ q = p \o Suffix(p, q)
<1> DEFINE r == Suffix(p, q)
           l == Len(p)
           n == Len(q)
<1>1. l \in Nat /\ n \in Nat /\ l <= n /\ (\A i \in 1..l : p[i] = q[i]) /\ \A i \in 1..n : q[i] \in Nat
  BY PathIs, PrefixIs
<1>2. r = SubSeq(q, l + 1, n)
  BY DEF Suffix
<1> HIDE DEF r
<1>3. r \in Paths /\ Len(r) = n - l /\ \A i \in 1..n - l : r[i] = q[l + i]
  <2> HIDE DEF l, n
  <2>1. \A i \in l + 1..n : q[i] \in Nat
    BY <1>1
  <2>2. /\ SubSeq(q, l + 1, n) \in Seq(Nat)
        /\ Len(SubSeq(q, l + 1, n)) = IF l + 1 <= n THEN n - (l + 1) + 1 ELSE 0
        /\ \A i \in 1..n - (l + 1) + 1 : SubSeq(q, l + 1, n)[i] = q[l + 1 + i - 1]
    BY <1>1, <2>1, SubSeqProperties
  <2>3. r \in Paths /\ Len(r) = (IF l + 1 <= n THEN n - (l + 1) + 1 ELSE 0)
        /\ \A i \in 1..n - (l + 1) + 1 : r[i] = q[l + 1 + i - 1]
    BY <1>2, <2>2 DEF Paths
  <2>4. Len(r) = n - l
    BY <1>1, <2>3
  <2>5. n - (l + 1) + 1 = n - l /\ \A i \in 1..n - l : l + 1 + i - 1 = l + i
    BY <1>1
  <2> QED
    BY <2>3, <2>4, <2>5
<1> DEFINE j == p \o r
<1>4. /\ j \in Paths /\ Len(j) = l + Len(r) /\ (\A i \in 1..l : j[i] = p[i])
      /\ \A i \in 1..Len(r) : j[l + i] = r[i]
  BY <1>3, JoinIs
<1> HIDE DEF j
<1>5. \A i \in 1..n : j[i] = q[i]
  <2> SUFFICES ASSUME NEW i \in 1..n PROVE j[i] = q[i]
    OBVIOUS
  <2> HIDE DEF l, n
  <2>1. CASE i <= l
    BY <1>1, <1>4, <2>1
  <2>2. CASE i > l
    <3> DEFINE k == i - l
    <3>1. k \in 1..n - l /\ l + k = i
      BY <1>1, <2>2
    <3> HIDE DEF k
    <3>2. j[l + k] = r[k] /\ r[k] = q[l + k]
      BY <1>3, <1>4, <3>1
    <3> QED
      BY <3>1, <3>2
  <2> QED
    BY <1>1, <2>1, <2>2
<1>6. Len(j) = n
  <2> HIDE DEF l, n
  <2> QED
    BY <1>1, <1>3, <1>4
<1>7. j = q
  BY <1>4, <1>5, <1>6, SamePath
<1> QED
  BY <1>3, <1>7 DEF r, j

\* The suffix of a path that was put together.
LEMMA SuffixOfJoin == ASSUME NEW p \in Paths, NEW r \in Paths PROVE Suffix(p, p \o r) = r
<1> DEFINE q == p \o r
           s == Suffix(p, q)
<1>1. q \in Paths /\ IsPrefix(p, q)
  BY JoinIs
<1>2. s \in Paths /\ q = p \o s
  <2> HIDE DEF q
  <2> QED
    BY <1>1, SuffixIs
<1> HIDE DEF s
<1>3. p \o s = p \o r
  BY <1>2
<1>4. Len(s) = Len(r)
  <2>1. Len(p) \in Nat /\ Len(s) \in Nat /\ Len(r) \in Nat
    BY <1>2, PathIs
  <2>2. Len(p \o s) = Len(p) + Len(s) /\ Len(p \o r) = Len(p) + Len(r)
    BY <1>2, JoinIs
  <2> QED
    BY <1>3, <2>1, <2>2
<1>5. \A i \in 1..Len(r) : s[i] = r[i]
  <2>1. \A i \in 1..Len(r) : (p \o r)[Len(p) + i] = r[i]
    BY JoinIs
  <2>2. \A i \in 1..Len(s) : (p \o s)[Len(p) + i] = s[i]
    BY <1>2, JoinIs
  <2> QED
    BY <1>3, <1>4, <2>1, <2>2
<1>6. s = r
  BY <1>2, <1>4, <1>5, SamePath
<1> QED
  BY <1>6 DEF s

\* Below p as at the root: what has r in it, and its elder sibling.
SameBelow(p, r) ==
    /\ p \o r # <<>> /\ Front(p \o r) = p \o Front(r) /\ Last(p \o r) = Last(r)
    /\ Last(r) > 0 => Elder(p \o r) = p \o Elder(r)
\* The fronts and elders of a path are the same wherever it is put.
LEMMA BelowAsAbove == ASSUME NEW p \in Paths, NEW r \in Paths, r # <<>> PROVE SameBelow(p, r)
<1>1. Front(r) \in Paths /\ Last(r) \in Nat /\ r = Append(Front(r), Last(r))
  BY FrontIs, ChildOfFront
<1>2. \A f \in Paths, k \in Nat : p \o Append(f, k) = Append(p \o f, k)
  <2> SUFFICES ASSUME NEW f \in Paths, NEW k \in Nat PROVE p \o Append(f, k) = Append(p \o f, k)
    OBVIOUS
  <2> DEFINE a == Append(f, k)
             q == p \o a
             g == p \o f
             w == Append(g, k)
  <2>1. Len(p) \in Nat /\ Len(f) \in Nat
    BY PathIs
  <2>2. a \in Paths /\ Len(a) = Len(f) + 1 /\ (\A i \in 1..Len(f) : a[i] = f[i]) /\ a[Len(f) + 1] = k
    BY ChildIs
  <2> HIDE DEF a
  <2>3. /\ q \in Paths /\ Len(q) = Len(p) + Len(a)
        /\ \A i \in 1..Len(p) : q[i] = p[i]
        /\ \A i \in 1..Len(a) : q[Len(p) + i] = a[i]
    BY <2>2, JoinIs
  <2>4. /\ g \in Paths /\ Len(g) = Len(p) + Len(f)
        /\ \A i \in 1..Len(p) : g[i] = p[i]
        /\ \A i \in 1..Len(f) : g[Len(p) + i] = f[i]
    BY JoinIs
  <2> HIDE DEF g
  <2>5. /\ w \in Paths /\ Len(w) = Len(g) + 1 /\ \A i \in 1..Len(g) : w[i] = g[i]
        /\ w[Len(g) + 1] = k
    BY <2>4, ChildIs
  <2> HIDE DEF q, w
  <2>6. \A i \in 1..Len(q) : q[i] = w[i]
    <3> SUFFICES ASSUME NEW i \in 1..Len(q) PROVE q[i] = w[i]
      OBVIOUS
    <3>1. CASE i <= Len(p)
      BY <2>1, <2>3, <2>4, <2>5, <3>1
    <3>2. CASE i > Len(p)
      <4> DEFINE j == i - Len(p)
      <4>1. j \in 1..Len(f) + 1 /\ Len(p) + j = i
        BY <2>1, <2>2, <2>3, <3>2
      <4> HIDE DEF j
      <4>2. q[Len(p) + j] = a[j]
        BY <2>2, <2>3, <4>1
      <4>3. CASE j = Len(f) + 1
        <5>1. Len(p) + j = Len(g) + 1
          BY <2>1, <2>4, <4>3
        <5> QED
          BY <2>2, <2>5, <4>1, <4>2, <4>3, <5>1
      <4>4. CASE j # Len(f) + 1
        <5>1. j \in 1..Len(f) /\ Len(p) + j \in 1..Len(g)
          BY <2>1, <2>4, <4>1, <4>4
        <5> QED
          BY <2>2, <2>4, <2>5, <4>1, <4>2, <5>1
      <4> QED
        BY <4>3, <4>4
    <3> QED
      BY <2>1, <2>3, <2>2, <3>1, <3>2
  <2>7. Len(q) = Len(w)
    BY <2>1, <2>2, <2>3, <2>4, <2>5
  <2>8. q = w
    BY <2>3, <2>5, <2>6, <2>7, SamePath
  <2> QED
    BY <2>8 DEF q, w, a, g
<1>3. p \o r = Append(p \o Front(r), Last(r))
  BY <1>1, <1>2
<1>4. p \o Front(r) \in Paths
  BY <1>1, JoinIs
<1>5. Append(p \o Front(r), Last(r)) # <<>> /\ Last(Append(p \o Front(r), Last(r))) = Last(r)
      /\ Front(Append(p \o Front(r), Last(r))) = p \o Front(r)
  BY <1>1, <1>4, ChildIs
<1>6. p \o r # <<>> /\ Front(p \o r) = p \o Front(r) /\ Last(p \o r) = Last(r)
  BY <1>3, <1>5
<1>7. ASSUME Last(r) > 0 PROVE Elder(p \o r) = p \o Elder(r)
  <2>1. Last(r) - 1 \in Nat
    BY <1>1, <1>7
  <2>2. p \o Append(Front(r), Last(r) - 1) = Append(p \o Front(r), Last(r) - 1)
    BY <1>1, <1>2, <2>1
  <2> QED
    BY <1>6, <2>2 DEF Elder
<1> QED
  BY <1>6, <1>7 DEF SameBelow

\* The root is above every path, and every path above itself.
LEMMA RootPath == <<>> \in Paths /\ Len(<<>>) = 0 /\ \A p \in Paths : p \o <<>> = p /\ IsPrefix(<<>>, p) /\ IsPrefix(p, p)
<1>1. <<>> \in Paths /\ Len(<<>>) = 0
  BY EmptySeq DEF Paths
<1>2. \A p \in Paths : p \o <<>> = p
  BY ConcatEmptySeq DEF Paths
<1>3. \A p \in Paths : IsPrefix(<<>>, p) /\ IsPrefix(p, p)
  BY <1>1, PathIs, PrefixIs
<1> QED
  BY <1>1, <1>2, <1>3

\* What is at p and below, as a document of its own.
IsSubtree(s, t, p) ==
    /\ DOMAIN s \subseteq Paths
    /\ \A r \in Paths : r \in DOMAIN s <=> p \o r \in DOMAIN t
    /\ s[<<>>] = Node(t[p].kind, NoKey)
    /\ \A r \in DOMAIN s : r # <<>> => s[r] = t[p \o r]
\* The part of a document at a path (subtreeAt).
LEMMA SubtreeIs ==
    ASSUME NEW t, Gapless(t), NEW p \in DOMAIN t
    PROVE  IsSubtree(SubtreeAt(t, p), t, p)
<1> DEFINE below == {q \in DOMAIN t : IsPrefix(p, q)}
           s == SubtreeAt(t, p)
<1>1. DOMAIN t \subseteq Paths /\ p \in Paths /\ t[p] = Node(t[p].kind, t[p].key)
  BY DEF Gapless
<1>2. s = [r \in {Suffix(p, q) : q \in below} |-> IF r = <<>> THEN [t[p] EXCEPT !.key = NoKey] ELSE t[p \o r]]
  BY DEF SubtreeAt
<1>3. \A q \in below : Suffix(p, q) \in Paths /\ q = p \o Suffix(p, q)
  BY <1>1, SuffixIs
<1> HIDE DEF s
<1>4. DOMAIN s = {Suffix(p, q) : q \in below}
  BY <1>2
<1>5. DOMAIN s \subseteq Paths
  BY <1>3, <1>4
<1>6. ASSUME NEW r \in Paths PROVE r \in DOMAIN s <=> p \o r \in DOMAIN t
  <2>1. ASSUME r \in DOMAIN s PROVE p \o r \in DOMAIN t
    <3>1. PICK q \in below : r = Suffix(p, q)
      BY <1>4, <2>1
    <3> QED
      BY <1>3, <3>1
  <2>2. ASSUME p \o r \in DOMAIN t PROVE r \in DOMAIN s
    <3>1. IsPrefix(p, p \o r)
      BY <1>1, JoinIs
    <3>2. Suffix(p, p \o r) = r
      BY <1>1, SuffixOfJoin
    <3> QED
      BY <1>4, <2>2, <3>1, <3>2
  <2> QED
    BY <2>1, <2>2
<1>7. <<>> \in DOMAIN s
  BY <1>1, <1>6, RootPath
<1>8. s[<<>>] = Node(t[p].kind, NoKey)
  <2>1. s[<<>>] = [t[p] EXCEPT !.key = NoKey]
    BY <1>2, <1>4, <1>7
  <2> DEFINE k == t[p].kind
             y == t[p].key
  <2>2. t[p] = Node(k, y)
    BY <1>1
  <2> HIDE DEF k, y
  <2>3. [Node(k, y) EXCEPT !.key = NoKey] = Node(k, NoKey)
    BY DEF Node
  <2> QED
    BY <2>1, <2>2, <2>3 DEF k
<1>9. \A r \in DOMAIN s : r # <<>> => s[r] = t[p \o r]
  BY <1>2, <1>4
<1>10. IsSubtree(s, t, p)
  BY <1>5, <1>6, <1>8, <1>9 DEF IsSubtree
<1> QED
  BY <1>10 DEF s

\* A part of a document is a document.
LEMMA SubtreeKeepsGapless ==
    ASSUME NEW t, Gapless(t), NEW p \in DOMAIN t
    PROVE  Gapless(SubtreeAt(t, p))
<1> DEFINE s == SubtreeAt(t, p)
<1>1. DOMAIN t \subseteq Paths /\ p \in Paths /\ IsFiniteSet(DOMAIN t)
  BY DEF Gapless
<1>2. /\ DOMAIN s \subseteq Paths
      /\ \A r \in Paths : r \in DOMAIN s <=> p \o r \in DOMAIN t
      /\ s[<<>>] = Node(t[p].kind, NoKey)
      /\ \A r \in DOMAIN s : r # <<>> => s[r] = t[p \o r]
  BY SubtreeIs DEF IsSubtree
<1>3. s = [r \in DOMAIN s |-> s[r]]
  BY DEF SubtreeAt
<1> HIDE DEF s
<1>4. IsFiniteSet(DOMAIN s)
  <2> DEFINE f == [r \in DOMAIN s |-> p \o r]
  <2>1. f \in Injection(DOMAIN s, DOMAIN t)
    <3>1. f \in [DOMAIN s -> DOMAIN t]
      BY <1>2
    <3>2. \A q, r \in DOMAIN s : p \o q = p \o r => q = r
      <4>1. \A r \in DOMAIN s : Suffix(p, p \o r) = r
        BY <1>1, <1>2, SuffixOfJoin
      <4> QED
        BY <4>1
    <3>3. \A q, r \in DOMAIN s : f[q] = f[r] => q = r
      BY <3>2
    <3> HIDE DEF f
    <3> QED
      BY <3>1, <3>3 DEF Injection, IsInjective
  <2> HIDE DEF f
  <2> QED
    BY <1>1, <2>1, FS_Injection
<1>5. <<>> \in DOMAIN s
  BY <1>1, <1>2, RootPath
<1>6. \A r \in DOMAIN s : s[r] = Node(s[r].kind, s[r].key) /\ s[r].kind = t[p \o r].kind
  <2> SUFFICES ASSUME NEW r \in DOMAIN s PROVE s[r] = Node(s[r].kind, s[r].key) /\ s[r].kind = t[p \o r].kind
    OBVIOUS
  <2>1. CASE r = <<>>
    <3>1. p \o r = p
      BY <1>1, <2>1, RootPath
    <3> QED
      BY <1>2, <2>1, <3>1 DEF Node
  <2>2. CASE r # <<>>
    <3>1. p \o r \in DOMAIN t /\ s[r] = t[p \o r]
      BY <1>2, <2>2
    <3>2. t[p \o r] = Node(t[p \o r].kind, t[p \o r].key)
      BY <3>1 DEF Gapless
    <3> QED
      BY <3>1, <3>2
  <2> QED
    BY <2>1, <2>2
<1>7. s = [r \in DOMAIN s |-> Node(s[r].kind, s[r].key)]
  BY <1>3, <1>6
<1>8. ASSUME NEW r \in DOMAIN s, r # <<>>
      PROVE  /\ Front(r) \in DOMAIN s /\ IsBlock(s, Front(r)) /\ Last(r) > 0
             /\ (Last(r) > 1 => Elder(r) \in DOMAIN s)
             /\ (s[Front(r)].kind = "object" <=> s[r].key # NoKey)
  <2>1. r \in Paths /\ p \o r \in DOMAIN t /\ s[r] = t[p \o r]
    BY <1>2, <1>8
  <2>2. SameBelow(p, r)
    BY <1>1, <1>8, <2>1, BelowAsAbove
  <2>3. p \o r # <<>> /\ Front(p \o r) = p \o Front(r) /\ Last(p \o r) = Last(r)
        /\ (Last(r) > 0 => Elder(p \o r) = p \o Elder(r))
    BY <2>2 DEF SameBelow
  <2>4. /\ Front(p \o r) \in DOMAIN t /\ IsBlock(t, Front(p \o r)) /\ Last(p \o r) > 0
        /\ (Last(p \o r) > 1 => Elder(p \o r) \in DOMAIN t)
        /\ (t[Front(p \o r)].kind = "object" <=> t[p \o r].key # NoKey)
    BY <2>1, <2>3 DEF Gapless, HasKey
  <2>5. Front(r) \in Paths /\ Elder(r) \in Paths /\ Last(r) > 0
    BY <1>8, <2>1, <2>3, <2>4, FrontIs, ElderIs
  <2>6. Front(r) \in DOMAIN s
    BY <1>2, <2>3, <2>4, <2>5
  <2>7. s[Front(r)].kind = t[Front(p \o r)].kind
    BY <1>6, <2>3, <2>6
  <2>8. Last(r) > 1 => Elder(r) \in DOMAIN s
    BY <1>2, <2>3, <2>4, <2>5
  <2> QED
    BY <2>1, <2>4, <2>5, <2>6, <2>7, <2>8 DEF IsBlock
<1>9. s[<<>>].key = NoKey
  BY <1>2 DEF Node
<1>10. \A r \in DOMAIN s : HasKey(s, r) <=> s[r].key # NoKey
  BY <1>8, <1>9 DEF HasKey
<1>11. \A r \in DOMAIN s \ {<<>>} :
           Front(r) \in DOMAIN s /\ IsBlock(s, Front(r)) /\ Last(r) > 0 /\ (Last(r) > 1 => Elder(r) \in DOMAIN s)
  BY <1>8
<1>12. Gapless(s)
  BY <1>2, <1>4, <1>5, <1>7, <1>10, <1>11 DEF Gapless
<1> QED
  BY <1>12 DEF s

\* What is where after the value at p was replaced.
IsReplaced(u, t, p, s) ==
    /\ DOMAIN u = {q \in DOMAIN t : ~IsPrefix(p, q)} \cup {p \o r : r \in DOMAIN s}
    /\ \A q \in DOMAIN t : ~IsPrefix(p, q) => u[q] = t[q]
    /\ u[p] = Node(s[<<>>].kind, t[p].key)
    /\ \A r \in DOMAIN s : r # <<>> => u[p \o r] = s[r]
\* What is not below a replaced value stays, and the new value is there (replaceValueAt).
LEMMA ReplacedIs ==
    ASSUME NEW t, DOMAIN t \subseteq Paths, NEW p \in Paths, NEW s, DOMAIN s \subseteq Paths, <<>> \in DOMAIN s
    PROVE  IsReplaced(ReplaceValueAt(t, p, s), t, p, s)
<1> DEFINE u == ReplaceValueAt(t, p, s)
           rest == {q \in DOMAIN t : ~IsPrefix(p, q)}
           new == {p \o r : r \in DOMAIN s}
<1>1. u = [q \in rest \cup new |->
              IF ~IsPrefix(p, q) THEN t[q] ELSE IF q = p THEN Node(s[<<>>].kind, t[p].key) ELSE s[Suffix(p, q)]]
  BY DEF ReplaceValueAt
<1> HIDE DEF u
<1>2. DOMAIN u = rest \cup new
  BY <1>1
<1>3. \A q \in DOMAIN t : ~IsPrefix(p, q) => u[q] = t[q]
  BY <1>1
<1>4. p \in new /\ IsPrefix(p, p)
  BY RootPath
<1>5. u[p] = Node(s[<<>>].kind, t[p].key)
  BY <1>1, <1>4
<1>6. ASSUME NEW r \in DOMAIN s, r # <<>> PROVE u[p \o r] = s[r]
  <2>1. IsPrefix(p, p \o r) /\ p \o r # p /\ Suffix(p, p \o r) = r
    BY <1>6, JoinIs, SuffixOfJoin
  <2>2. p \o r \in new
    OBVIOUS
  <2> DEFINE q == p \o r
  <2> HIDE DEF q, new, rest
  <2>3. u[q] = s[Suffix(p, q)]
    BY <1>1, <2>1, <2>2 DEF q
  <2> QED
    BY <2>1, <2>3 DEF q
<1>7. IsReplaced(u, t, p, s)
  BY <1>2, <1>3, <1>5, <1>6 DEF IsReplaced
<1> QED
  BY <1>7 DEF u

\* With a document in the place of a value there is a document again.
LEMMA ReplaceKeepsGapless ==
    ASSUME NEW t, Gapless(t), NEW p \in DOMAIN t, NEW s, Gapless(s)
    PROVE  Gapless(ReplaceValueAt(t, p, s))
<1> DEFINE u == ReplaceValueAt(t, p, s)
<1>1. /\ DOMAIN t \subseteq Paths /\ p \in Paths /\ IsFiniteSet(DOMAIN t)
      /\ DOMAIN s \subseteq Paths /\ IsFiniteSet(DOMAIN s) /\ <<>> \in DOMAIN s
  BY DEF Gapless
<1>2. IsReplaced(u, t, p, s)
  BY <1>1, ReplacedIs
<1>3. u = [q \in DOMAIN u |-> u[q]]
  BY DEF ReplaceValueAt
<1> HIDE DEF u
<1> DEFINE rest == {q \in DOMAIN t : ~IsPrefix(p, q)}
           new == {p \o r : r \in DOMAIN s}
<1>4. /\ DOMAIN u = rest \cup new
      /\ \A q \in rest : u[q] = t[q]
      /\ u[p] = Node(s[<<>>].kind, t[p].key)
      /\ \A r \in DOMAIN s : r # <<>> => u[p \o r] = s[r]
  BY <1>2 DEF IsReplaced
<1>5. p \in new /\ p \o <<>> = p /\ IsPrefix(p, p)
  BY <1>1, RootPath
<1>6. IsFiniteSet(DOMAIN u)
  <2>1. IsFiniteSet(rest)
    BY <1>1, FS_Subset
  <2>2. IsFiniteSet(new)
    <3> DEFINE f == [r \in DOMAIN s |-> p \o r]
    <3>1. f \in Surjection(DOMAIN s, new)
      BY DEF Surjection
    <3> HIDE DEF f, new
    <3> QED
      BY <1>1, <3>1, FS_Surjection
  <2> HIDE DEF rest, new
  <2> QED
    BY <1>4, <2>1, <2>2, FS_Union
<1>7. DOMAIN u \subseteq Paths
  <2>1. \A r \in DOMAIN s : p \o r \in Paths
    BY <1>1, JoinIs
  <2> QED
    BY <1>1, <1>4, <2>1
<1>8. <<>> \in DOMAIN u /\ u[<<>>].key = NoKey
  <2>1. <<>> \in DOMAIN t /\ t[<<>>].key = NoKey
    BY DEF Gapless, HasKey
  <2>2. CASE p = <<>>
    BY <1>4, <1>5, <2>1, <2>2 DEF Node
  <2>3. CASE p # <<>>
    <3>1. ~IsPrefix(p, <<>>)
      <4>1. Len(p) \in Nat /\ Len(p) > 0
        BY <1>1, <2>3, PathIs
      <4>2. IsPrefix(p, <<>>) => Len(p) <= Len(<<>>)
        BY DEF IsPrefix
      <4> QED
        BY <4>1, <4>2, RootPath
    <3> QED
      BY <1>4, <2>1, <3>1
  <2> QED
    BY <2>2, <2>3
<1>9. \A q \in DOMAIN u : u[q] = Node(u[q].kind, u[q].key)
  <2>1. \A q \in rest : u[q] = Node(u[q].kind, u[q].key)
    BY <1>4 DEF Gapless
  <2>2. \A r \in DOMAIN s : r # <<>> => u[p \o r] = Node(u[p \o r].kind, u[p \o r].key)
    <3>1. \A r \in DOMAIN s : s[r] = Node(s[r].kind, s[r].key)
      BY DEF Gapless
    <3> QED
      BY <1>4, <3>1
  <2>3. u[p] = Node(u[p].kind, u[p].key)
    BY <1>4 DEF Node
  <2> QED
    BY <1>4, <1>5, <2>1, <2>2, <2>3
<1>10. u = [q \in DOMAIN u |-> Node(u[q].kind, u[q].key)]
  BY <1>3, <1>9
<1>11. \A r \in DOMAIN s : p \o r \in DOMAIN u /\ u[p \o r].kind = s[r].kind
  <2> SUFFICES ASSUME NEW r \in DOMAIN s PROVE p \o r \in DOMAIN u /\ u[p \o r].kind = s[r].kind
    OBVIOUS
  <2>1. p \o r \in DOMAIN u
    BY <1>4
  <2>2. CASE r = <<>>
    BY <1>4, <1>5, <2>1, <2>2 DEF Node
  <2>3. CASE r # <<>>
    BY <1>4, <2>1, <2>3
  <2> QED
    BY <2>2, <2>3
\* the node that has q in it, for q beside or above p
<1>12. ASSUME NEW q \in DOMAIN t, q # <<>>, ~IsPrefix(p, q)
       PROVE  Front(q) \in DOMAIN u /\ u[Front(q)] = t[Front(q)]
  <2>1. Front(q) \in DOMAIN t
    BY <1>12 DEF Gapless
  <2>2. ~IsPrefix(p, Front(q))
    BY <1>1, <1>12, FrontNotBelow
  <2> QED
    BY <1>4, <2>1, <2>2
<1>13. p # <<>> => Front(p) \in rest /\ ~IsPrefix(p, Front(p))
  <2> SUFFICES ASSUME p # <<>> PROVE Front(p) \in rest /\ ~IsPrefix(p, Front(p))
    OBVIOUS
  <2>1. Front(p) \in DOMAIN t
    BY DEF Gapless
  <2>2. Len(Front(p)) = Len(p) - 1 /\ Len(p) \in Nat
    BY <1>1, FrontIs, PathIs
  <2>3. ~IsPrefix(p, Front(p))
    BY <2>2 DEF IsPrefix
  <2> QED
    BY <2>1, <2>3
<1>14. ASSUME NEW q \in rest, q # <<>>
       PROVE  /\ Front(q) \in DOMAIN u /\ IsBlock(u, Front(q)) /\ Last(q) > 0
              /\ (Last(q) > 1 => Elder(q) \in DOMAIN u)
              /\ (u[Front(q)].kind = "object" <=> u[q].key # NoKey)
  <2>1. Front(q) \in DOMAIN u /\ u[Front(q)] = t[Front(q)] /\ u[q] = t[q]
    BY <1>4, <1>12, <1>14
  <2>2. /\ IsBlock(t, Front(q)) /\ Last(q) > 0 /\ (Last(q) > 1 => Elder(q) \in DOMAIN t)
        /\ (t[Front(q)].kind = "object" <=> t[q].key # NoKey)
    BY <1>14 DEF Gapless, HasKey
  <2>3. ASSUME Last(q) > 1 PROVE Elder(q) \in DOMAIN u
    <3> DEFINE e == Elder(q)
    <3>1. /\ q \in Paths /\ e \in Paths /\ Len(e) = Len(q) /\ (\A i \in 1..Len(q) - 1 : e[i] = q[i])
          /\ Len(q) \in Nat /\ Len(p) \in Nat
      BY <1>1, <1>14, <2>2, ElderIs, PathIs
    <3>2. e \in DOMAIN t
      BY <2>2, <2>3
    <3> HIDE DEF e
    <3>3. CASE ~IsPrefix(p, e)
      BY <1>4, <3>2, <3>3 DEF e
    <3>4. CASE IsPrefix(p, e)
      <4>1. Len(p) <= Len(e) /\ \A i \in 1..Len(p) : p[i] = e[i]
        BY <1>1, <3>1, <3>4, PrefixIs
      <4>2. Len(p) = Len(e)
        <5> SUFFICES ASSUME Len(p) # Len(e) PROVE FALSE
          OBVIOUS
        <5>1. Len(p) <= Len(q) - 1
          BY <3>1, <4>1
        <5>2. \A i \in 1..Len(p) : p[i] = q[i]
          BY <3>1, <4>1, <5>1
        <5>3. IsPrefix(p, q)
          BY <1>1, <3>1, <5>1, <5>2, PrefixIs
        <5> QED
          BY <5>3
      <4>3. e = p
        BY <1>1, <3>1, <4>1, <4>2, SamePath
      <4> QED
        BY <1>4, <1>5, <4>3 DEF e
    <3> QED
      BY <3>3, <3>4
  <2> QED
    BY <2>1, <2>2, <2>3 DEF IsBlock
<1>15. ASSUME p # <<>>
       PROVE  /\ Front(p) \in DOMAIN u /\ IsBlock(u, Front(p)) /\ Last(p) > 0
              /\ (Last(p) > 1 => Elder(p) \in DOMAIN u)
              /\ (u[Front(p)].kind = "object" <=> u[p].key # NoKey)
  <2>1. Front(p) \in DOMAIN u /\ u[Front(p)] = t[Front(p)]
    BY <1>4, <1>13, <1>15
  <2>2. /\ IsBlock(t, Front(p)) /\ Last(p) > 0 /\ (Last(p) > 1 => Elder(p) \in DOMAIN t)
        /\ (t[Front(p)].kind = "object" <=> t[p].key # NoKey)
    BY <1>15 DEF Gapless, HasKey
  <2>3. u[p].key = t[p].key
    BY <1>4 DEF Node
  <2>4. ~IsPrefix(p, Elder(p))
    <3>1. Elder(p) \in Paths /\ Elder(p)[Len(p)] = p[Len(p)] - 1 /\ Len(p) \in Nat /\ Len(p) > 0 /\ p[Len(p)] \in Nat
      BY <1>1, <1>15, <2>2, ElderIs, PathIs
    <3>2. p[Len(p)] # Elder(p)[Len(p)]
      BY <3>1
    <3> QED
      BY <1>1, <3>1, <3>2, PrefixIs
  <2> QED
    BY <1>4, <2>1, <2>2, <2>3, <2>4 DEF IsBlock
<1>16. ASSUME NEW r \in DOMAIN s, r # <<>>
       PROVE  /\ Front(p \o r) \in DOMAIN u /\ IsBlock(u, Front(p \o r)) /\ Last(p \o r) > 0
              /\ (Last(p \o r) > 1 => Elder(p \o r) \in DOMAIN u)
              /\ (u[Front(p \o r)].kind = "object" <=> u[p \o r].key # NoKey)
  <2>1. SameBelow(p, r)
    BY <1>1, <1>16, BelowAsAbove
  <2>2. p \o r # <<>> /\ Front(p \o r) = p \o Front(r) /\ Last(p \o r) = Last(r)
        /\ (Last(r) > 0 => Elder(p \o r) = p \o Elder(r))
    BY <2>1 DEF SameBelow
  <2>3. /\ Front(r) \in DOMAIN s /\ IsBlock(s, Front(r)) /\ Last(r) > 0 /\ (Last(r) > 1 => Elder(r) \in DOMAIN s)
        /\ (s[Front(r)].kind = "object" <=> s[r].key # NoKey)
    BY <1>16 DEF Gapless, HasKey
  <2>4. p \o Front(r) \in DOMAIN u /\ u[p \o Front(r)].kind = s[Front(r)].kind
    BY <1>11, <2>3
  <2>5. u[p \o r] = s[r]
    BY <1>4, <1>16
  <2>6. Last(r) > 1 => p \o Elder(r) \in DOMAIN u
    BY <1>11, <2>3
  <2> QED
    BY <2>2, <2>3, <2>4, <2>5, <2>6 DEF IsBlock
<1>17. ASSUME NEW q \in DOMAIN u, q # <<>>
       PROVE  /\ Front(q) \in DOMAIN u /\ IsBlock(u, Front(q)) /\ Last(q) > 0
              /\ (Last(q) > 1 => Elder(q) \in DOMAIN u)
              /\ (u[Front(q)].kind = "object" <=> u[q].key # NoKey)
  <2>1. q \in rest \/ q = p \/ \E r \in DOMAIN s : r # <<>> /\ q = p \o r
    BY <1>4, <1>5
  <2>2. CASE q \in rest
    BY <1>14, <1>17, <2>2
  <2>3. CASE q = p
    BY <1>15, <1>17, <2>3
  <2>4. ASSUME NEW r \in DOMAIN s, r # <<>>, q = p \o r
        PROVE  /\ Front(q) \in DOMAIN u /\ IsBlock(u, Front(q)) /\ Last(q) > 0
               /\ (Last(q) > 1 => Elder(q) \in DOMAIN u)
               /\ (u[Front(q)].kind = "object" <=> u[q].key # NoKey)
    BY <1>16, <2>4
  <2> QED
    BY <2>1, <2>2, <2>3, <2>4
<1>18. \A q \in DOMAIN u : HasKey(u, q) <=> u[q].key # NoKey
  BY <1>8, <1>17 DEF HasKey
<1>19. \A q \in DOMAIN u \ {<<>>} :
           Front(q) \in DOMAIN u /\ IsBlock(u, Front(q)) /\ Last(q) > 0 /\ (Last(q) > 1 => Elder(q) \in DOMAIN u)
  BY <1>17
<1>20. Gapless(u)
  BY <1>6, <1>7, <1>8, <1>10, <1>18, <1>19 DEF Gapless
<1> QED
  BY <1>20 DEF u

\* A member may get another key.
LEMMA SetKeyKeepsGapless ==
    ASSUME NEW t, Gapless(t), NEW p \in DOMAIN t, HasKey(t, p), NEW key, key # NoKey
    PROVE  Gapless(SetKeyAt(t, p, key)) /\ DOMAIN SetKeyAt(t, p, key) = DOMAIN t
           /\ \A q \in DOMAIN t : SetKeyAt(t, p, key)[q].kind = t[q].kind
<1> DEFINE u == SetKeyAt(t, p, key)
<1>1. u = [t EXCEPT ![p].key = key]
  BY DEF SetKeyAt
<1>2. t = [q \in DOMAIN t |-> t[q]] /\ \A q \in DOMAIN t : t[q] = Node(t[q].kind, t[q].key)
  BY DEF Gapless
<1>3. DOMAIN u = DOMAIN t /\ u = [q \in DOMAIN t |-> u[q]]
  BY <1>2, <1>1
<1>4. \A q \in DOMAIN t : q # p => u[q] = t[q]
  BY <1>1, <1>2
<1>5. u[p] = Node(t[p].kind, key)
  <2>1. u[p] = [t[p] EXCEPT !.key = key]
    BY <1>1, <1>2
  <2> DEFINE k == t[p].kind
             y == t[p].key
  <2>2. t[p] = Node(k, y)
    BY <1>2
  <2> HIDE DEF k, y
  <2>3. [Node(k, y) EXCEPT !.key = key] = Node(k, key)
    BY DEF Node
  <2> QED
    BY <2>1, <2>2, <2>3 DEF k
<1> HIDE DEF u
<1>6. \A q \in DOMAIN t : u[q].kind = t[q].kind /\ u[q] = Node(u[q].kind, u[q].key)
  <2>1. u[p].kind = t[p].kind /\ u[p] = Node(u[p].kind, u[p].key)
    BY <1>5 DEF Node
  <2> QED
    BY <1>2, <1>4, <2>1
<1>7. u[p].key = key /\ \A q \in DOMAIN t : q # p => u[q].key = t[q].key
  BY <1>4, <1>5 DEF Node
<1>8. \A q \in DOMAIN t : HasKey(u, q) <=> HasKey(t, q)
  BY <1>6 DEF HasKey, Gapless
<1>9. \A q \in DOMAIN u : HasKey(u, q) <=> u[q].key # NoKey
  BY <1>3, <1>7, <1>8 DEF Gapless
<1>10. u = [q \in DOMAIN u |-> Node(u[q].kind, u[q].key)]
  BY <1>3, <1>6
<1>11. \A q \in DOMAIN u \ {<<>>} :
           Front(q) \in DOMAIN u /\ IsBlock(u, Front(q)) /\ Last(q) > 0 /\ (Last(q) > 1 => Elder(q) \in DOMAIN u)
  BY <1>3, <1>6 DEF Gapless, IsBlock
<1>12. IsFiniteSet(DOMAIN u) /\ DOMAIN u \subseteq Paths /\ <<>> \in DOMAIN u
  BY <1>3 DEF Gapless
<1>13. Gapless(u)
  BY <1>9, <1>10, <1>11, <1>12 DEF Gapless
<1> QED
  BY <1>3, <1>6, <1>13 DEF u

-----------------------------------------------------------------------------
(* Document order                                                          *)

\* p and q agree before position k, where p ends or has the smaller number.
SmallerAt(p, q, k) ==
    /\ k \in 1..Len(q) /\ k <= Len(p) + 1 /\ \A i \in 1..k - 1 : p[i] = q[i]
    /\ k = Len(p) + 1 \/ p[k] < q[k]

\* Two paths start alike when they have the same first positions.
LEMMA StartIs ==
    ASSUME NEW p \in Paths, NEW q \in Paths, NEW n \in Nat, n <= Len(p), n <= Len(q)
    PROVE  SubSeq(p, 1, n) = SubSeq(q, 1, n) <=> \A i \in 1..n : p[i] = q[i]
<1> DEFINE a == SubSeq(p, 1, n)
           b == SubSeq(q, 1, n)
<1>1. (\A i \in 1..n : p[i] \in Nat) /\ (\A i \in 1..n : q[i] \in Nat)
  BY PathIs
<1>2. /\ a \in Seq(Nat) /\ Len(a) = IF 1 <= n THEN n - 1 + 1 ELSE 0
      /\ \A i \in 1..n - 1 + 1 : a[i] = p[1 + i - 1]
  BY <1>1, SubSeqProperties
<1>3. /\ b \in Seq(Nat) /\ Len(b) = IF 1 <= n THEN n - 1 + 1 ELSE 0
      /\ \A i \in 1..n - 1 + 1 : b[i] = q[1 + i - 1]
  BY <1>1, SubSeqProperties
<1>4. a \in Paths /\ b \in Paths /\ Len(a) = n /\ Len(b) = n /\ \A i \in 1..n : a[i] = p[i] /\ b[i] = q[i]
  BY <1>2, <1>3 DEF Paths
<1> HIDE DEF a, b
<1>5. a = b <=> \A i \in 1..n : p[i] = q[i]
  BY <1>4, SamePath
<1> QED
  BY <1>5 DEF a, b

\* Document order looks at the first position where two paths differ.
LEMMA PrecedesIs ==
    ASSUME NEW p \in Paths, NEW q \in Paths
    PROVE  Precedes(p, q) <=> \E k \in Nat : SmallerAt(p, q, k)
<1>1. Len(p) \in Nat /\ Len(q) \in Nat /\ DOMAIN p = 1..Len(p) /\ DOMAIN q = 1..Len(q)
  BY PathIs
<1>2. IsPrefix(p, q) <=> Len(p) <= Len(q) /\ \A i \in 1..Len(p) : p[i] = q[i]
  BY PrefixIs
<1>3. ASSUME IsStrictPrefix(p, q) PROVE \E k \in Nat : SmallerAt(p, q, k)
  <2>1. Len(p) # Len(q)
    BY <1>2, <1>3, SamePath DEF IsStrictPrefix
  <2>2. SmallerAt(p, q, Len(p) + 1)
    <3> DEFINE l == Len(p)
               k == Len(p) + 1
    <3>1. l <= Len(q) /\ l # Len(q) /\ l \in Nat /\ (\A i \in 1..l : p[i] = q[i])
      BY <1>1, <1>2, <1>3, <2>1 DEF IsStrictPrefix
    <3>2. k \in 1..Len(q) /\ k <= Len(p) + 1 /\ k - 1 = l
      <4>1. Len(p) \in Nat /\ Len(q) \in Nat /\ Len(p) <= Len(q) /\ Len(p) # Len(q)
        BY <1>1, <3>1
      <4>2. Len(p) + 1 \in 1..Len(q)
        BY <4>1
      <4>3. (Len(p) + 1) - 1 = Len(p)
        BY <4>1
      <4> QED
        BY <4>1, <4>2, <4>3
    <3> HIDE DEF l
    <3>3. \A i \in 1..k - 1 : p[i] = q[i]
      BY <3>1, <3>2
    <3> QED
      BY <3>2, <3>3 DEF SmallerAt
  <2> QED
    BY <1>1, <2>2
<1>4. ASSUME NEW i \in (DOMAIN p) \cap (DOMAIN q)
      PROVE  SubSeq(p, 1, i - 1) = SubSeq(q, 1, i - 1) <=> \A j \in 1..i - 1 : p[j] = q[j]
  <2> DEFINE n == i - 1
  <2>1. n \in Nat /\ n <= Len(p) /\ n <= Len(q)
    BY <1>1
  <2> HIDE DEF n
  <2>2. SubSeq(p, 1, n) = SubSeq(q, 1, n) <=> \A j \in 1..n : p[j] = q[j]
    BY <2>1, StartIs
  <2> QED
    BY <2>2 DEF n
<1>5. ASSUME NEW i \in (DOMAIN p) \cap (DOMAIN q), SubSeq(p, 1, i - 1) = SubSeq(q, 1, i - 1), p[i] < q[i]
      PROVE  \E k \in Nat : SmallerAt(p, q, k)
  <2>1. \A j \in 1..i - 1 : p[j] = q[j]
    BY <1>4, <1>5
  <2>2. SmallerAt(p, q, i) /\ i \in Nat
    BY <1>1, <1>5, <2>1 DEF SmallerAt
  <2> QED
    BY <2>2
<1>6. ASSUME NEW k \in Nat, SmallerAt(p, q, k) PROVE Precedes(p, q)
  <2>1. CASE k = Len(p) + 1
    <3>1. Len(p) < Len(q) /\ \A i \in 1..Len(p) : p[i] = q[i]
      BY <1>1, <1>6, <2>1 DEF SmallerAt
    <3>2. IsPrefix(p, q) /\ p # q
      BY <1>1, <1>2, <3>1
    <3> QED
      BY <3>2 DEF Precedes, IsStrictPrefix
  <2>2. CASE k # Len(p) + 1
    <3>1. k \in (DOMAIN p) \cap (DOMAIN q) /\ p[k] < q[k] /\ \A j \in 1..k - 1 : p[j] = q[j]
      BY <1>1, <1>6, <2>2 DEF SmallerAt
    <3>2. SubSeq(p, 1, k - 1) = SubSeq(q, 1, k - 1)
      BY <1>4, <3>1
    <3> QED
      BY <3>1, <3>2 DEF Precedes
  <2> QED
    BY <2>1, <2>2
<1> QED
  BY <1>3, <1>5, <1>6 DEF Precedes

\* Document order is strict.
LEMMA PrecedesNotItself == ASSUME NEW p \in Paths PROVE ~Precedes(p, p)
<1>1. \A k \in Nat : ~SmallerAt(p, p, k)
  <2>1. Len(p) \in Nat /\ \A i \in 1..Len(p) : p[i] \in Nat
    BY PathIs
  <2> QED
    BY <2>1 DEF SmallerAt
<1> QED
  BY <1>1, PrecedesIs

\* It is transitive.
LEMMA PrecedesOn ==
    ASSUME NEW p \in Paths, NEW q \in Paths, NEW r \in Paths, Precedes(p, q), Precedes(q, r)
    PROVE  Precedes(p, r)
<1>1. PICK k \in Nat : SmallerAt(p, q, k)
  BY PrecedesIs
<1>2. PICK l \in Nat : SmallerAt(q, r, l)
  BY PrecedesIs
<1>3. /\ Len(p) \in Nat /\ Len(q) \in Nat /\ Len(r) \in Nat
      /\ \A i \in 1..Len(p) : p[i] \in Nat
      /\ \A i \in 1..Len(q) : q[i] \in Nat
      /\ \A i \in 1..Len(r) : r[i] \in Nat
  BY PathIs
<1>4. /\ k \in 1..Len(q) /\ k <= Len(p) + 1 /\ (\A i \in 1..k - 1 : p[i] = q[i])
      /\ k = Len(p) + 1 \/ p[k] < q[k]
  BY <1>1 DEF SmallerAt
<1>5. /\ l \in 1..Len(r) /\ l <= Len(q) + 1 /\ (\A i \in 1..l - 1 : q[i] = r[i])
      /\ l = Len(q) + 1 \/ q[l] < r[l]
  BY <1>2 DEF SmallerAt
<1>6. CASE k < l
  <2>1. k \in 1..Len(r) /\ \A i \in 1..k - 1 : p[i] = r[i]
    BY <1>3, <1>4, <1>5, <1>6
  <2>2. q[k] = r[k]
    BY <1>3, <1>4, <1>5, <1>6
  <2>3. SmallerAt(p, r, k)
    BY <1>4, <2>1, <2>2 DEF SmallerAt
  <2> QED
    BY <2>3, PrecedesIs
<1>7. CASE l < k
  <2>1. l <= Len(p) /\ l <= Len(q) /\ \A i \in 1..l - 1 : p[i] = r[i]
    BY <1>3, <1>4, <1>5, <1>7
  <2>2. p[l] = q[l] /\ q[l] < r[l]
    BY <1>3, <1>4, <1>5, <1>7, <2>1
  <2>3. SmallerAt(p, r, l)
    BY <1>3, <1>5, <2>1, <2>2 DEF SmallerAt
  <2> QED
    BY <2>3, PrecedesIs
<1>8. CASE k = l
  <2>1. k \in 1..Len(r) /\ \A i \in 1..k - 1 : p[i] = r[i]
    BY <1>3, <1>4, <1>5, <1>8
  <2>2. q[k] < r[k]
    BY <1>3, <1>4, <1>5, <1>8
  <2>3. k = Len(p) + 1 \/ p[k] < r[k]
    <3> SUFFICES ASSUME k # Len(p) + 1 PROVE p[k] < r[k]
      OBVIOUS
    <3>1. p[k] < q[k] /\ p[k] \in Nat /\ q[k] \in Nat /\ r[k] \in Nat
      BY <1>3, <1>4, <2>1
    <3> QED
      BY <2>2, <3>1
  <2>4. SmallerAt(p, r, k)
    BY <1>4, <2>1, <2>3 DEF SmallerAt
  <2> QED
    BY <2>4, PrecedesIs
<1> QED
  BY <1>6, <1>7, <1>8

\* It is total.
LEMMA PrecedesTotal == ASSUME NEW p \in Paths, NEW q \in Paths, p # q PROVE Precedes(p, q) \/ Precedes(q, p)
<1>1. /\ Len(p) \in Nat /\ Len(q) \in Nat
      /\ \A i \in 1..Len(p) : p[i] \in Nat
      /\ \A i \in 1..Len(q) : q[i] \in Nat
  BY PathIs
<1> DEFINE D == {i \in Nat : i \in 1..Len(p) /\ i \in 1..Len(q) /\ p[i] # q[i]}
<1>2. CASE D # {}
  <2>1. D \subseteq Nat
    OBVIOUS
  <2>2. PICK k \in D : \A j \in D : k <= j
    <3> HIDE DEF D
    <3> QED
      BY <1>2, <2>1, LeastNat
  <2>3. k \in 1..Len(p) /\ k \in 1..Len(q) /\ p[k] # q[k] /\ k \in Nat
    OBVIOUS
  <2>4. \A i \in 1..k - 1 : p[i] = q[i]
    <3> SUFFICES ASSUME NEW i \in 1..k - 1, p[i] # q[i] PROVE FALSE
      OBVIOUS
    <3>1. i \in D
      BY <1>1, <2>3
    <3> QED
      BY <2>2, <2>3, <3>1
  <2>5. p[k] < q[k] \/ q[k] < p[k]
    BY <1>1, <2>3
  <2>6. SmallerAt(p, q, k) \/ SmallerAt(q, p, k)
    BY <1>1, <2>3, <2>4, <2>5 DEF SmallerAt
  <2> QED
    BY <2>3, <2>6, PrecedesIs
<1>3. CASE D = {}
  <2>1. \A i \in 1..Len(p) : i \in 1..Len(q) => p[i] = q[i]
    BY <1>1, <1>3
  <2>2. Len(p) # Len(q)
    <3> SUFFICES ASSUME Len(p) = Len(q) PROVE FALSE
      OBVIOUS
    <3> QED
      BY <2>1, SamePath
  <2>3. CASE Len(p) < Len(q)
    <3>1. SmallerAt(p, q, Len(p) + 1)
      BY <1>1, <2>1, <2>3 DEF SmallerAt
    <3> QED
      BY <1>1, <3>1, PrecedesIs
  <2>4. CASE Len(q) < Len(p)
    <3>1. SmallerAt(q, p, Len(q) + 1)
      BY <1>1, <2>1, <2>4 DEF SmallerAt
    <3> QED
      BY <1>1, <3>1, PrecedesIs
  <2> QED
    BY <1>1, <2>2, <2>3, <2>4
<1> QED
  BY <1>2, <1>3

\* What comes before p is not below it.
LEMMA BeforeIsNotBelow == ASSUME NEW p \in Paths, NEW q \in Paths, Precedes(q, p) PROVE ~IsPrefix(p, q)
<1> SUFFICES ASSUME IsPrefix(p, q) PROVE FALSE
  OBVIOUS
<1>1. CASE p = q
  BY <1>1, PrecedesNotItself
<1>2. CASE p # q
  <2>1. Precedes(p, q)
    BY <1>2 DEF Precedes, IsStrictPrefix
  <2> QED
    BY <2>1, PrecedesOn, PrecedesNotItself
<1> QED
  BY <1>1, <1>2

-----------------------------------------------------------------------------
(* The units of a document                                                 *)

\* A unit is its path and its type.
LEMMA UnitIs ==
    /\ \A p, typ : Unit(p, typ).path = p /\ Unit(p, typ).typ = typ
    /\ \A p, q, a, b : Unit(p, a) = Unit(q, b) => p = q /\ a = b
BY DEF Unit

\* The units are the keys and the values below the root, or the root alone.
LEMMA UnitsAre ==
    ASSUME NEW t, Gapless(t)
    PROVE  /\ \A u \in CollectUnits(t) :
                 /\ u.path \in DOMAIN t /\ u = Unit(u.path, u.typ)
                 /\ \/ u.typ = "key" /\ u.path # <<>> /\ HasKey(t, u.path)
                    \/ u = ValueUnit(t, u.path) /\ (u.path = <<>> => DOMAIN t = {<<>>})
           /\ \A p \in DOMAIN t \ {<<>>} : ValueUnit(t, p) \in CollectUnits(t)
           /\ \A p \in DOMAIN t \ {<<>>} : HasKey(t, p) => Unit(p, "key") \in CollectUnits(t)
           /\ DOMAIN t = {<<>>} => ValueUnit(t, <<>>) \in CollectUnits(t)
<1> DEFINE below == DOMAIN t \ {<<>>}
           keys == {Unit(p, "key") : p \in {q \in below : HasKey(t, q)}}
           values == {ValueUnit(t, p) : p \in IF below = {} THEN {<<>>} ELSE below}
<1>1. CollectUnits(t) = keys \cup values
  BY DEF CollectUnits
<1>2. <<>> \in DOMAIN t
  BY DEF Gapless
<1>3. ASSUME NEW u \in keys
      PROVE  u.path \in DOMAIN t /\ u = Unit(u.path, u.typ) /\ u.typ = "key" /\ u.path # <<>> /\ HasKey(t, u.path)
  BY <1>3, UnitIs
<1>4. ASSUME NEW u \in values
      PROVE  u.path \in DOMAIN t /\ u = Unit(u.path, u.typ) /\ u = ValueUnit(t, u.path)
             /\ (u.path = <<>> => DOMAIN t = {<<>>})
  <2>1. PICK p \in IF below = {} THEN {<<>>} ELSE below : u = ValueUnit(t, p)
    OBVIOUS
  <2>2. u.path = p /\ u = Unit(u.path, u.typ)
    BY <2>1, UnitIs DEF ValueUnit
  <2> QED
    BY <1>2, <2>1, <2>2
<1>5. \A p \in DOMAIN t \ {<<>>} : ValueUnit(t, p) \in values /\ (HasKey(t, p) => Unit(p, "key") \in keys)
  OBVIOUS
<1>6. DOMAIN t = {<<>>} => ValueUnit(t, <<>>) \in values
  OBVIOUS
<1> HIDE DEF keys, values
<1> QED
  BY <1>1, <1>3, <1>4, <1>5, <1>6

\* A document has a unit, and finitely many.
LEMMA UnitsFinite == ASSUME NEW t, Gapless(t) PROVE IsFiniteSet(CollectUnits(t)) /\ CollectUnits(t) # {}
<1> DEFINE f == [p \in DOMAIN t |-> Unit(p, "key")]
           g == [p \in DOMAIN t |-> ValueUnit(t, p)]
           F == {Unit(p, "key") : p \in DOMAIN t}
           G == {ValueUnit(t, p) : p \in DOMAIN t}
<1>1. IsFiniteSet(DOMAIN t) /\ <<>> \in DOMAIN t
  BY DEF Gapless
<1>2. f \in Surjection(DOMAIN t, F) /\ g \in Surjection(DOMAIN t, G)
  BY DEF Surjection
<1>3. \A u \in CollectUnits(t) : u \in F \/ u \in G
  <2>1. \A u \in CollectUnits(t) : /\ u.path \in DOMAIN t
                                   /\ u = Unit(u.path, u.typ)
                                   /\ u.typ = "key" \/ u = ValueUnit(t, u.path)
    BY UnitsAre
  <2> QED
    BY <2>1
<1>4. CollectUnits(t) # {}
  <2>1. CASE DOMAIN t = {<<>>}
    BY <2>1, UnitsAre
  <2>2. CASE DOMAIN t # {<<>>}
    <3>1. PICK p \in DOMAIN t \ {<<>>} : TRUE
      BY <1>1, <2>2
    <3> QED
      BY <3>1, UnitsAre
  <2> QED
    BY <2>1, <2>2
<1> HIDE DEF f, g, F, G
<1>5. IsFiniteSet(F) /\ IsFiniteSet(G)
  BY <1>1, <1>2, FS_Surjection
<1>6. IsFiniteSet(F \cup G)
  BY <1>5, FS_Union
<1>7. CollectUnits(t) \subseteq F \cup G
  BY <1>3
<1> QED
  BY <1>4, <1>6, <1>7, FS_Subset

\* Document order puts the units in a row.
InARow(units) ==
    /\ \A u \in units : ~UnitBefore(u, u)
    /\ \A u, v, w \in units : UnitBefore(u, v) /\ UnitBefore(v, w) => UnitBefore(u, w)
    /\ \A u, v \in units : u # v => UnitBefore(u, v) \/ UnitBefore(v, u)

\* Of two units one is before the other, and before is transitive.
LEMMA UnitsInARow == ASSUME NEW t, Gapless(t) PROVE InARow(CollectUnits(t))
<1> DEFINE U == CollectUnits(t)
<1>1. \A u \in U : u.path \in Paths
  <2>1. \A u \in U : u.path \in DOMAIN t
    BY UnitsAre
  <2> QED
    BY <2>1 DEF Gapless
<1>2. \A p : ValueUnit(t, p).typ # "key"
  BY UnitIs DEF ValueUnit
<1>3. \A u \in U : /\ u.typ = "key" => u = Unit(u.path, "key")
                   /\ u.typ # "key" => u = ValueUnit(t, u.path)
  <2>1. \A u \in CollectUnits(t) : u = Unit(u.path, u.typ) /\ (u.typ = "key" \/ u = ValueUnit(t, u.path))
    BY UnitsAre
  <2> QED
    BY <2>1
<1> HIDE DEF U
<1>4. \A u \in U : ~UnitBefore(u, u)
  BY <1>1, PrecedesNotItself DEF UnitBefore
<1>5. ASSUME NEW u \in U, NEW v \in U, NEW w \in U, UnitBefore(u, v), UnitBefore(v, w)
      PROVE  UnitBefore(u, w)
  <2>1. u.path \in Paths /\ v.path \in Paths /\ w.path \in Paths
    BY <1>1
  <2>2. Precedes(u.path, v.path) /\ Precedes(v.path, w.path) => Precedes(u.path, w.path)
    BY <2>1, PrecedesOn
  <2> QED
    BY <1>5, <2>2 DEF UnitBefore
<1>6. ASSUME NEW u \in U, NEW v \in U, u # v PROVE UnitBefore(u, v) \/ UnitBefore(v, u)
  <2>1. CASE u.path # v.path
    <3>1. u.path \in Paths /\ v.path \in Paths
      BY <1>1
    <3>2. Precedes(u.path, v.path) \/ Precedes(v.path, u.path)
      BY <2>1, <3>1, PrecedesTotal
    <3> QED
      BY <3>2 DEF UnitBefore
  <2>2. CASE u.path = v.path
    <3>1. (u.typ = "key" /\ v.typ # "key") \/ (v.typ = "key" /\ u.typ # "key")
      BY <1>3, <1>6, <2>2
    <3> QED
      BY <2>2, <3>1 DEF UnitBefore
  <2> QED
    BY <2>1, <2>2
<1>7. InARow(U)
  BY <1>4, <1>5, <1>6 DEF InARow
<1> QED
  BY <1>7 DEF U

\* Units in a row have the positions from 0 to one less than their number, one each.
LEMMA PositionsAre ==
    ASSUME NEW units, IsFiniteSet(units), InARow(units)
    PROVE  /\ Cardinality(units) \in Nat
           /\ \A u \in units : Position(units, u) \in 0..Cardinality(units) - 1
           /\ \A u, v \in units : Position(units, u) = Position(units, v) => u = v
           /\ \A c \in 0..Cardinality(units) - 1 : \E u \in units : Position(units, u) = c
<1> DEFINE before(u) == {v \in units : UnitBefore(v, u)}
           n == Cardinality(units)
           pos == [u \in units |-> Cardinality(before(u))]
<1>1. n \in Nat
  BY FS_CardinalityType
<1>2. \A u \in units : IsFiniteSet(before(u)) /\ Cardinality(before(u)) \in Nat /\ Cardinality(before(u)) < n
  <2> SUFFICES ASSUME NEW u \in units
               PROVE  IsFiniteSet(before(u)) /\ Cardinality(before(u)) \in Nat /\ Cardinality(before(u)) < n
    OBVIOUS
  <2> DEFINE B == before(u)
  <2>1. B \in SUBSET units /\ B # units
    BY DEF InARow
  <2> HIDE DEF B
  <2>2. IsFiniteSet(B) /\ Cardinality(B) <= n /\ Cardinality(B) # n
    BY <2>1, FS_Subset
  <2>3. Cardinality(B) \in Nat
    BY <2>2, FS_CardinalityType
  <2>4. IsFiniteSet(B) /\ Cardinality(B) \in Nat /\ Cardinality(B) < n
    <3> HIDE DEF n
    <3> QED
      BY <1>1, <2>2, <2>3
  <2> QED
    BY <2>4 DEF B
<1>3. ASSUME NEW u \in units, NEW v \in units, UnitBefore(u, v)
      PROVE  Cardinality(before(u)) < Cardinality(before(v))
  <2> DEFINE A == before(u)
             B == before(v)
  <2>1. A \in SUBSET B /\ A # B
    BY <1>3 DEF InARow
  <2>2. IsFiniteSet(B) /\ Cardinality(A) \in Nat /\ Cardinality(B) \in Nat
    BY <1>2
  <2> HIDE DEF A, B
  <2>3. Cardinality(A) <= Cardinality(B) /\ Cardinality(A) # Cardinality(B)
    BY <2>1, <2>2, FS_Subset
  <2>4. Cardinality(A) < Cardinality(B)
    BY <2>2, <2>3
  <2> QED
    BY <2>4 DEF A, B
<1>4. \A u \in units : Position(units, u) = pos[u]
  BY DEF Position
<1>5. \A u, v \in units : pos[u] = pos[v] => u = v
  <2> SUFFICES ASSUME NEW u \in units, NEW v \in units, u # v PROVE pos[u] # pos[v]
    OBVIOUS
  <2>1. UnitBefore(u, v) \/ UnitBefore(v, u)
    BY DEF InARow
  <2>2. pos[u] = Cardinality(before(u)) /\ pos[v] = Cardinality(before(v))
    OBVIOUS
  <2>3. Cardinality(before(u)) \in Nat /\ Cardinality(before(v)) \in Nat
    BY <1>2
  <2>4. Cardinality(before(u)) < Cardinality(before(v)) \/ Cardinality(before(v)) < Cardinality(before(u))
    BY <1>3, <2>1
  <2> HIDE DEF before, pos
  <2> QED
    BY <2>2, <2>3, <2>4
<1>6. \A u \in units : pos[u] \in 0..n - 1
  <2> SUFFICES ASSUME NEW u \in units PROVE pos[u] \in 0..n - 1
    OBVIOUS
  <2>1. pos[u] = Cardinality(before(u)) /\ Cardinality(before(u)) \in Nat /\ Cardinality(before(u)) < n
    BY <1>2
  <2> HIDE DEF pos, before, n
  <2> QED
    BY <1>1, <2>1
<1>7. pos \in Injection(units, 0..n - 1)
  <2>1. pos \in [units -> 0..n - 1]
    BY <1>6
  <2> HIDE DEF pos, n
  <2> QED
    BY <1>5, <2>1 DEF Injection, IsInjective
<1>8. IsFiniteSet(0..n - 1) /\ Cardinality(0..n - 1) = n
  <2> HIDE DEF n
  <2>1. 0 \in Int /\ n - 1 \in Int /\ n - 1 - 0 + 1 = n /\ (0 > n - 1 => n = 0)
    BY <1>1
  <2> QED
    BY <2>1, FS_Interval
<1>9. pos \in Surjection(units, 0..n - 1)
  <2> HIDE DEF pos
  <2>1. Cardinality(units) = Cardinality(0..n - 1)
    BY <1>8
  <2> HIDE DEF n
  <2> QED
    BY <1>7, <1>8, <2>1, FS_Injection
<1>10. \A c \in 0..n - 1 : \E u \in units : pos[u] = c
  BY <1>9 DEF Surjection
<1> HIDE DEF pos, n
<1> QED
  BY <1>1, <1>4, <1>5, <1>6, <1>10 DEF n

\* What the units of a document are like, for the positions of the cursor.
Numbered(units) ==
    /\ IsFiniteSet(units) /\ units # {} /\ Cardinality(units) \in Nat /\ Cardinality(units) > 0
    /\ \A u \in units : Position(units, u) \in 0..Cardinality(units) - 1
    /\ \A u, v \in units : Position(units, u) = Position(units, v) => u = v
    /\ \A c \in 0..Cardinality(units) - 1 : \E u \in units : Position(units, u) = c
\* The units of a document have the positions from 0, one each.
LEMMA UnitsNumbered == ASSUME NEW t, Gapless(t) PROVE Numbered(CollectUnits(t))
<1> DEFINE U == CollectUnits(t)
<1>1. IsFiniteSet(U) /\ U # {} /\ InARow(U)
  BY UnitsFinite, UnitsInARow
<1> HIDE DEF U
<1>2. Cardinality(U) \in Nat /\ Cardinality(U) > 0
  <2>1. Cardinality(U) \in Nat /\ Cardinality(U) # 0
    BY <1>1, FS_CardinalityType, FS_EmptySet
  <2> QED
    BY <2>1
<1>3. Numbered(U)
  BY <1>1, <1>2, PositionsAre DEF Numbered
<1> QED
  BY <1>3 DEF U

\* The cursor stays on a unit when the value of the one it is on is replaced: the units
\* before it remain, and the value is still a unit.
LEMMA CursorStays ==
    ASSUME NEW t, Gapless(t), NEW u \in CollectUnits(t), u.typ # "key", NEW s, Gapless(s)
    PROVE  Position(CollectUnits(t), u) < Cardinality(CollectUnits(ReplaceValueAt(t, u.path, s)))
<1> DEFINE p == u.path
           b == ReplaceValueAt(t, p, s)
           U == CollectUnits(t)
           V == CollectUnits(b)
           B == {v \in U : UnitBefore(v, u)}
<1>1. u.path \in DOMAIN t /\ u = Unit(p, u.typ) /\ u = ValueUnit(t, p) /\ (p = <<>> => DOMAIN t = {<<>>})
  BY UnitsAre
<1>2. DOMAIN t \subseteq Paths /\ DOMAIN s \subseteq Paths /\ <<>> \in DOMAIN s /\ p \in Paths
  BY <1>1 DEF Gapless
<1>3. Gapless(b) /\ IsReplaced(b, t, p, s)
  BY <1>1, <1>2, ReplaceKeepsGapless, ReplacedIs
<1>4. Numbered(U) /\ Numbered(V)
  BY <1>3, UnitsNumbered
<1>5. Position(U, u) = Cardinality(B)
  BY DEF Position
<1>6. B \in SUBSET U /\ IsFiniteSet(B) /\ Cardinality(B) \in Nat
  <2>1. B \in SUBSET U
    OBVIOUS
  <2> HIDE DEF B, U
  <2> QED
    BY <1>4, <2>1, FS_Subset, FS_CardinalityType DEF Numbered
<1>7. CASE p = <<>>
  <2>1. B = {}
    <3> SUFFICES ASSUME NEW v \in B PROVE FALSE
      OBVIOUS
    <3>1. v.path = <<>> /\ (v.typ = "key" => v.path # <<>>)
      BY <1>1, <1>7, UnitsAre
    <3>2. v.typ # "key"
      BY <3>1
    <3>3. ~Precedes(<<>>, <<>>)
      BY RootPath, PrecedesNotItself
    <3> QED
      BY <1>7, <3>1, <3>2, <3>3 DEF UnitBefore
  <2>2. Cardinality(B) = 0
    BY <2>1, FS_EmptySet
  <2> HIDE DEF B, U, V, b
  <2> QED
    BY <1>4, <1>5, <2>2 DEF Numbered, U, V, b
<1>8. CASE p # <<>>
  <2> DEFINE w == ValueUnit(b, p)
  <2>1. p \in DOMAIN b
    <3>1. p \o <<>> = p
      BY <1>2, RootPath
    <3> QED
      BY <1>2, <1>3, <3>1 DEF IsReplaced
  <2>2. w \in V /\ w.path = p /\ w.typ # "key"
    <3>1. w \in V
      BY <1>3, <1>8, <2>1, UnitsAre
    <3> QED
      BY <3>1, UnitIs DEF ValueUnit
  <2>3. w \notin B
    <3> SUFFICES ASSUME UnitBefore(w, u) PROVE FALSE
      OBVIOUS
    <3> QED
      BY <1>2, <2>2, PrecedesNotItself DEF UnitBefore
  <2>4. B \subseteq V
    <3> SUFFICES ASSUME NEW v \in U, UnitBefore(v, u) PROVE v \in V
      OBVIOUS
    <3> DEFINE q == v.path
    <3>1. /\ q \in DOMAIN t /\ v = Unit(q, v.typ)
          /\ \/ v.typ = "key" /\ q # <<>> /\ HasKey(t, q)
             \/ v = ValueUnit(t, q) /\ (q = <<>> => DOMAIN t = {<<>>})
      BY UnitsAre
    <3>2. q \in Paths /\ q # <<>>
      BY <1>1, <1>2, <1>8, <3>1
    <3>3. Front(q) \in DOMAIN t
      BY <3>1, <3>2 DEF Gapless
    <3>4. CASE Precedes(q, p)
      <4>1. ~IsPrefix(p, q)
        BY <1>2, <3>2, <3>4, BeforeIsNotBelow
      <4>2. ~IsPrefix(p, Front(q))
        BY <1>2, <3>2, <4>1, FrontNotBelow
      <4>3. b[q] = t[q] /\ b[Front(q)] = t[Front(q)] /\ q \in DOMAIN b
        BY <1>3, <3>1, <3>3, <4>1, <4>2 DEF IsReplaced
      <4>4. (HasKey(b, q) <=> HasKey(t, q)) /\ ValueUnit(b, q) = ValueUnit(t, q)
        BY <4>3 DEF HasKey, ValueUnit, IsBlock
      <4>5. ValueUnit(b, q) \in V /\ (HasKey(b, q) => Unit(q, "key") \in V)
        BY <1>3, <3>2, <4>3, UnitsAre
      <4> QED
        BY <3>1, <3>2, <4>4, <4>5
    <3>5. CASE ~Precedes(q, p)
      <4>1. q = p /\ v.typ = "key"
        BY <3>5 DEF UnitBefore
      <4>2. HasKey(t, p)
        <5>1. \A r : ValueUnit(t, r).typ # "key"
          BY UnitIs DEF ValueUnit
        <5> QED
          BY <3>1, <4>1, <5>1
      <4>3. b[p].key = t[p].key
        BY <1>3 DEF IsReplaced, Node
      <4>4. HasKey(b, p)
        BY <1>1, <1>3, <2>1, <4>2, <4>3 DEF Gapless
      <4>5. Unit(p, "key") \in V
        BY <1>3, <1>8, <2>1, <4>4, UnitsAre
      <4> QED
        BY <3>1, <4>1, <4>5
    <3> QED
      BY <3>4, <3>5
  <2>5. Cardinality(B \cup {w}) = Cardinality(B) + 1 /\ IsFiniteSet(B \cup {w})
    <3> HIDE DEF B, w
    <3> QED
      BY <1>6, <2>3, FS_AddElement
  <2>6. B \cup {w} \in SUBSET V
    BY <2>2, <2>4
  <2> HIDE DEF B, w, V, U
  <2>7. Cardinality(B \cup {w}) <= Cardinality(V)
    BY <1>4, <2>6, FS_Subset DEF Numbered
  <2>8. Cardinality(B) < Cardinality(V)
    BY <1>4, <1>6, <2>5, <2>7 DEF Numbered
  <2> QED
    BY <1>5, <2>8 DEF U, V
<1> QED
  BY <1>7, <1>8

-----------------------------------------------------------------------------
(* The editor                                                              *)

Passes(h, t) == h = "command" => Known(t)
ShownIn(m) == IF m.mode = "raw" THEN m.buffer.tree ELSE m.root

EdFields == {"mode", "state", "root", "units", "cursor", "editing", "buffer", "pending", "committed", "outcome"}
Shaped(m) ==
    /\ m = [x \in EdFields |-> m[x]]
    /\ m.mode \in {"structural", "raw"} /\ m.state \in {"navigating", "inline", "block", "preview"}
    /\ m.outcome \in {"open", "committed", "aborted"} /\ m.cursor \in Nat
    /\ m.root = NoTree \/ Gapless(m.root)
BufferIsText(m) ==
    /\ m.buffer = Text(m.buffer.ok, m.buffer.tree) /\ m.buffer.ok \in BOOLEAN
    /\ m.buffer.tree = NoTree \/ Gapless(m.buffer.tree)
    /\ m.buffer.ok => Gapless(m.buffer.tree)
CursorOn(m) ==
    m.mode = "structural" => Gapless(m.root) /\ m.units = CollectUnits(m.root) /\ m.cursor < Cardinality(m.units)
EditIsOfUnit(m) ==
    m.state \in {"inline", "block"} =>
        /\ m.mode = "structural" /\ m.editing \in m.units /\ Position(m.units, m.editing) = m.cursor
        /\ m.state = "inline" => m.editing.typ # "block"
        /\ m.state = "block" => m.editing.typ = "block"
PreviewIsText(m, h) ==
    m.state = "preview" => m.mode = "raw" /\ m.pending = m.buffer.tree /\ Passes(h, m.pending)
CommitIsShown(m, h) == m.outcome = "committed" => m.committed = ShownIn(m) /\ Passes(h, m.committed)

\* What holds of the editor between two keys, whoever runs it.
Sound(m, h) ==
    /\ Shaped(m) /\ BufferIsText(m) /\ CursorOn(m) /\ EditIsOfUnit(m)
    /\ PreviewIsText(m, h) /\ CommitIsShown(m, h)

\* A form in which nothing was changed.
Looked ==
    host = "form" /\ ~creating =>
        /\ orig.bags = FormSeed /\ orig.runList \in RunLists
        /\ touches = 0 =>
               /\ ed.root = orig.bags /\ (ed.mode = "raw" => ed.buffer = Text(TRUE, ed.root))
               /\ text = "old"
               /\ lines = orig.runList \/ (orig.runList = <<>> /\ lines = <<Bullet>>)
               /\ formOutcome = "saved" => ~changed

FormIInv ==
    /\ host \in Hosts /\ creating \in BOOLEAN /\ dived \in BOOLEAN /\ changed \in BOOLEAN
    /\ touches \in 0..MaxTouches /\ focus \in FocusText..FocusAttrs /\ formOutcome \in {"open", "saved", "aborted"}
    /\ Sound(ed, host)
    /\ EmbeddedNeverFinishes
    /\ Looked

\* The two say the same of a document.
LEMMA TreeOrGapless == ASSUME NEW t PROVE IsTree(t) <=> Gapless(t)
BY TreeIsGapless, GaplessIsTree

\* The empty tree is no document.
LEMMA NoTreeIsNone == ~Gapless(NoTree)
BY DEF Gapless, NoTree

\* A text is whether it parses, and its tree.
LEMMA TextIs == \A ok, t : Text(ok, t).ok = ok /\ Text(ok, t).tree = t
BY DEF Text

\* A text is what the buffer may hold.
TextHolds(x) == x = Text(x.ok, x.tree) /\ x.ok \in BOOLEAN /\ (x.tree = NoTree \/ Gapless(x.tree)) /\ (x.ok => Gapless(x.tree))
\* What a document is opened with, what is typed and what the editor writes are texts.
LEMMA TextsHold ==
    /\ \A x \in Seeds : TextHolds(x)
    /\ \A h \in Hosts : \A x \in Typed[h] : TextHolds(x)
    /\ \A t : Gapless(t) => TextHolds(Text(TRUE, t))
    /\ TextHolds(NoText)
<1>1. \A x : IsText(x) => TextHolds(x)
  BY TreeOrGapless DEF IsText, TextHolds
<1>2. ASSUME NEW t, Gapless(t) PROVE TextHolds(Text(TRUE, t))
  <2>1. Text(TRUE, t).ok = TRUE /\ Text(TRUE, t).tree = t
    BY TextIs
  <2> QED
    BY <1>2, <2>1 DEF TextHolds
<1>3. TextHolds(NoText)
  <2>1. NoText.ok = FALSE /\ NoText.tree = NoTree
    BY TextIs DEF NoText
  <2> QED
    BY <2>1 DEF TextHolds, NoText
<1> QED
  <2>1. \A x \in Seeds : TextHolds(x)
    BY <1>1, EditorAssumption
  <2>2. \A h \in Hosts : \A x \in Typed[h] : TextHolds(x)
    BY <1>1, EditorAssumption
  <2> QED
    BY <1>2, <1>3, <2>1, <2>2

\* The unit under the cursor.
LEMMA SelectedIs ==
    ASSUME Shaped(ed), CursorOn(ed), ed.mode = "structural"
    PROVE  /\ Selected \in ed.units /\ Position(ed.units, Selected) = ed.cursor
           /\ Gapless(ed.root) /\ ed.units = CollectUnits(ed.root) /\ Numbered(ed.units)
<1>1. Gapless(ed.root) /\ ed.units = CollectUnits(ed.root) /\ ed.cursor < Cardinality(ed.units) /\ ed.cursor \in Nat
  BY DEF CursorOn, Shaped
<1>2. Numbered(ed.units)
  BY <1>1, UnitsNumbered
<1>3. ed.cursor \in 0..Cardinality(ed.units) - 1
  BY <1>1, <1>2 DEF Numbered
<1>4. \E u \in ed.units : Position(ed.units, u) = ed.cursor
  BY <1>2, <1>3 DEF Numbered
<1>5. Selected = CHOOSE u \in ed.units : Position(ed.units, u) = ed.cursor
  BY <1>1 DEF Selected
<1> QED
  BY <1>1, <1>2, <1>4, <1>5

\* Where a unit is in the document: a key's node is a member.
LEMMA UnitAt ==
    ASSUME NEW t, Gapless(t), NEW u \in CollectUnits(t)
    PROVE  /\ u.path \in DOMAIN t /\ u.path \in Paths
           /\ u.typ = "key" => u.path # <<>> /\ HasKey(t, u.path)
           /\ u.typ # "key" => u = ValueUnit(t, u.path)
           /\ u.typ = "block" <=> u.typ # "key" /\ IsBlock(t, u.path)
<1>1. /\ u.path \in DOMAIN t /\ u = Unit(u.path, u.typ)
      /\ \/ u.typ = "key" /\ u.path # <<>> /\ HasKey(t, u.path)
         \/ u = ValueUnit(t, u.path)
  BY UnitsAre
<1>2. ValueUnit(t, u.path).typ = IF IsBlock(t, u.path) THEN "block" ELSE "scalar"
  BY UnitIs DEF ValueUnit
<1>3. u.path \in Paths
  BY <1>1 DEF Gapless
<1> QED
  BY <1>1, <1>2, <1>3

-----------------------------------------------------------------------------
(* Steps of the record                                                     *)

\* A mutation replaces the document, the units and the cursor.
LEMMA RebuiltIs ==
    ASSUME Shaped(ed), NEW t, NEW c
    PROVE  /\ Rebuilt(t, c) = [x \in EdFields |-> Rebuilt(t, c)[x]]
           /\ Rebuilt(t, c).root = t /\ Rebuilt(t, c).units = CollectUnits(t) /\ Rebuilt(t, c).cursor = c
           /\ Rebuilt(t, c).mode = ed.mode /\ Rebuilt(t, c).state = ed.state /\ Rebuilt(t, c).outcome = ed.outcome
           /\ Rebuilt(t, c).buffer = ed.buffer /\ Rebuilt(t, c).editing = ed.editing
<1> DEFINE U == CollectUnits(t)
           m == [ed EXCEPT !.root = t, !.units = U, !.cursor = c]
<1>1. ed = [x \in EdFields |-> ed[x]]
  BY DEF Shaped
<1> HIDE DEF U
<1>2. /\ m = [x \in EdFields |-> m[x]]
      /\ m.root = t /\ m.units = U /\ m.cursor = c
      /\ m.mode = ed.mode /\ m.state = ed.state /\ m.outcome = ed.outcome
      /\ m.buffer = ed.buffer /\ m.editing = ed.editing
  BY <1>1 DEF EdFields
<1>3. Rebuilt(t, c) = m
  BY DEF Rebuilt, U
<1> HIDE DEF m
<1> QED
  BY <1>2, <1>3 DEF U

\* An edit that is closed leaves the document alone.
LEMMA ClosedIs ==
    ASSUME NEW m, m = [x \in EdFields |-> m[x]]
    PROVE  /\ Closed(m) = [x \in EdFields |-> Closed(m)[x]]
           /\ Closed(m).root = m.root /\ Closed(m).units = m.units /\ Closed(m).cursor = m.cursor
           /\ Closed(m).mode = m.mode /\ Closed(m).state = "navigating" /\ Closed(m).outcome = m.outcome
           /\ Closed(m).buffer = NoText
<1> DEFINE n == [m EXCEPT !.state = "navigating", !.editing = NoUnit, !.buffer = NoText]
<1>1. /\ n = [x \in EdFields |-> n[x]]
      /\ n.root = m.root /\ n.units = m.units /\ n.cursor = m.cursor
      /\ n.mode = m.mode /\ n.state = "navigating" /\ n.outcome = m.outcome
      /\ n.buffer = NoText
  BY DEF EdFields
<1>2. Closed(m) = n
  BY DEF Closed
<1> HIDE DEF n
<1> QED
  BY <1>1, <1>2

\* Between edits in structural mode, the document and the cursor are all that counts.
LEMMA SoundBetween ==
    ASSUME NEW n, NEW h, n = [x \in EdFields |-> n[x]], n.mode = "structural", n.state = "navigating", n.outcome = "open",
           Gapless(n.root), n.units = CollectUnits(n.root), n.cursor \in Nat, n.cursor < Cardinality(n.units),
           BufferIsText(n)
    PROVE  Sound(n, h)
<1>1. Shaped(n)
  BY DEF Shaped
<1>2. CursorOn(n)
  BY DEF CursorOn
<1>3. EditIsOfUnit(n) /\ PreviewIsText(n, h) /\ CommitIsShown(n, h)
  BY DEF EditIsOfUnit, PreviewIsText, CommitIsShown
<1> QED
  BY <1>1, <1>2, <1>3 DEF Sound

\* A clamped cursor is on a unit.
LEMMA ClampedIs ==
    ASSUME NEW c \in Nat, NEW units, Numbered(units)
    PROVE  Clamped(c, units) \in Nat /\ Clamped(c, units) < Cardinality(units)
BY DEF Clamped, Numbered

\* The cursor put on a unit, or on the first for want of it, is on a unit.
LEMMA PositionIsSmall ==
    ASSUME NEW units, Numbered(units), NEW u
    PROVE  Position(units, u) \in Nat /\ Position(units, u) < Cardinality(units)
<1>1. Cardinality(units) \in Nat /\ Cardinality(units) > 0
  BY DEF Numbered
<1>2. CASE u \in units
  BY <1>1, <1>2 DEF Numbered
<1>3. CASE u \notin units
  <2>1. Position(units, u) = 0
    BY <1>3 DEF Position
  <2> QED
    BY <1>1, <2>1
<1> QED
  BY <1>2, <1>3

-----------------------------------------------------------------------------
(* Keys of structural mode                                                 *)

\* Between edits the selected unit is one of the document.
LEMMA StructuralIs ==
    ASSUME Sound(ed, host), Structural
    PROVE  /\ ed = [x \in EdFields |-> ed[x]] /\ ed.cursor \in Nat /\ BufferIsText(ed)
           /\ ed.mode = "structural" /\ ed.state = "navigating" /\ ed.outcome = "open"
           /\ Gapless(ed.root) /\ ed.units = CollectUnits(ed.root) /\ Numbered(ed.units)
           /\ Selected \in CollectUnits(ed.root) /\ Position(ed.units, Selected) = ed.cursor
           /\ ed.cursor < Cardinality(ed.units) /\ Shaped(ed)
<1>1. Shaped(ed) /\ CursorOn(ed) /\ BufferIsText(ed) /\ ed.mode = "structural" /\ ed.state = "navigating" /\ ed.outcome = "open"
  BY DEF Sound, Structural, Open
<1>2. /\ Selected \in ed.units /\ Position(ed.units, Selected) = ed.cursor
      /\ Gapless(ed.root) /\ ed.units = CollectUnits(ed.root) /\ Numbered(ed.units)
  BY <1>1, SelectedIs
<1>3. ed = [x \in EdFields |-> ed[x]] /\ ed.cursor \in Nat
  BY <1>1 DEF Shaped
<1>4. ed.cursor < Cardinality(ed.units)
  BY <1>1 DEF CursorOn
<1> QED
  BY <1>1, <1>2, <1>3, <1>4

\* The document or the cursor changes and nothing else does.
LEMMA SoundRebuilt ==
    ASSUME Sound(ed, host), Structural, NEW t, Gapless(t), NEW c \in Nat, c < Cardinality(CollectUnits(t)), ed' = Rebuilt(t, c)
    PROVE  Sound(ed', host)
<1>1. Shaped(ed) /\ BufferIsText(ed) /\ ed.mode = "structural" /\ ed.state = "navigating" /\ ed.outcome = "open"
  BY StructuralIs
<1> DEFINE n == Rebuilt(t, c)
<1>2. /\ n = [x \in EdFields |-> n[x]]
      /\ n.root = t /\ n.units = CollectUnits(t) /\ n.cursor = c
      /\ n.mode = ed.mode /\ n.state = ed.state /\ n.outcome = ed.outcome
      /\ n.buffer = ed.buffer
  BY <1>1, RebuiltIs
<1> HIDE DEF n
<1>3. BufferIsText(n)
  BY <1>1, <1>2 DEF BufferIsText
<1>4. Sound(n, host)
  BY <1>1, <1>2, <1>3, SoundBetween
<1> QED
  BY <1>4 DEF n

\* Moving the cursor keeps it on a unit.
LEMMA UpSound == ASSUME Sound(ed, host), Up \/ Down PROVE Sound(ed', host)
<1>1. Structural
  BY DEF Up, Down
<1>2. /\ ed = [x \in EdFields |-> ed[x]] /\ ed.cursor \in Nat /\ BufferIsText(ed)
      /\ ed.mode = "structural" /\ ed.state = "navigating" /\ ed.outcome = "open"
      /\ Gapless(ed.root) /\ ed.units = CollectUnits(ed.root) /\ Numbered(ed.units)
      /\ ed.cursor < Cardinality(ed.units)
  BY <1>1, StructuralIs
<1>3. PICK c : c \in Nat /\ c < Cardinality(ed.units) /\ ed' = [ed EXCEPT !.cursor = c]
  <2>1. Cardinality(ed.units) \in Nat
    BY <1>2 DEF Numbered
  <2>2. CASE Up
    <3>1. ed.cursor - 1 \in Nat /\ ed.cursor - 1 < Cardinality(ed.units)
      BY <1>2, <2>1, <2>2 DEF Up
    <3>2. ed' = [ed EXCEPT !.cursor = ed.cursor - 1]
      BY <2>2 DEF Up
    <3> QED
      BY <3>1, <3>2
  <2>3. CASE Down
    <3>1. ed.cursor + 1 \in Nat /\ ed.cursor + 1 < Cardinality(ed.units)
      BY <1>2, <2>1, <2>3 DEF Down
    <3>2. ed' = [ed EXCEPT !.cursor = ed.cursor + 1]
      BY <2>3 DEF Down
    <3> QED
      BY <3>1, <3>2
  <2> QED
    BY <2>2, <2>3
<1> DEFINE n == [ed EXCEPT !.cursor = c]
<1>4. /\ n = [x \in EdFields |-> n[x]]
      /\ n.root = ed.root /\ n.units = ed.units /\ n.cursor = c
      /\ n.mode = ed.mode /\ n.state = ed.state /\ n.outcome = ed.outcome
      /\ n.buffer = ed.buffer
  BY <1>2 DEF EdFields
<1>5. ed' = n
  BY <1>3
<1> HIDE DEF n
<1>6. BufferIsText(n)
  BY <1>2, <1>4 DEF BufferIsText
<1>7. Sound(n, host)
  BY <1>2, <1>3, <1>4, <1>6, SoundBetween
<1> QED
  BY <1>5, <1>7

\* An edit is opened of the unit under the cursor.
LEMMA EditUnitSound == ASSUME Sound(ed, host), EditUnit PROVE Sound(ed', host)
<1>1. Structural
  BY DEF EditUnit
<1>2. /\ ed = [x \in EdFields |-> ed[x]] /\ ed.cursor \in Nat /\ BufferIsText(ed)
      /\ ed.mode = "structural" /\ ed.state = "navigating" /\ ed.outcome = "open"
      /\ Gapless(ed.root) /\ ed.units = CollectUnits(ed.root)
      /\ Selected \in CollectUnits(ed.root) /\ Position(ed.units, Selected) = ed.cursor
      /\ ed.cursor < Cardinality(ed.units)
  BY <1>1, StructuralIs
<1>3. PICK u : u = Selected
  OBVIOUS
<1> DEFINE inline == u.typ # "block"
           st == IF inline THEN "inline" ELSE "block"
           bu == IF inline THEN ed.buffer ELSE Text(TRUE, SubtreeAt(ed.root, u.path))
           n == [ed EXCEPT !.editing = u, !.state = st, !.buffer = bu]
<1>4. ed' = n
  BY <1>3 DEF EditUnit
<1>5. TextHolds(bu)
  <2>1. u.path \in DOMAIN ed.root
    BY <1>2, <1>3, UnitAt
  <2>2. Gapless(SubtreeAt(ed.root, u.path))
    BY <1>2, <2>1, SubtreeKeepsGapless
  <2>3. TextHolds(ed.buffer)
    BY <1>2 DEF BufferIsText, TextHolds
  <2> QED
    BY <2>2, <2>3, TextsHold
<1>6. st \in {"inline", "block"} /\ (st = "inline" => u.typ # "block") /\ (st = "block" => u.typ = "block")
  OBVIOUS
<1> HIDE DEF st, bu
<1>7. /\ n = [x \in EdFields |-> n[x]]
      /\ n.root = ed.root /\ n.units = ed.units /\ n.cursor = ed.cursor /\ n.editing = u
      /\ n.mode = ed.mode /\ n.state = st /\ n.outcome = ed.outcome /\ n.buffer = bu
  BY <1>2 DEF EdFields
<1> HIDE DEF n
<1>8. Shaped(n)
  BY <1>2, <1>6, <1>7 DEF Shaped
<1>9. BufferIsText(n)
  BY <1>5, <1>7 DEF BufferIsText, TextHolds
<1>10. CursorOn(n)
  BY <1>2, <1>7 DEF CursorOn
<1>11. EditIsOfUnit(n)
  BY <1>2, <1>3, <1>6, <1>7 DEF EditIsOfUnit
<1>12. PreviewIsText(n, host) /\ CommitIsShown(n, host)
  BY <1>2, <1>6, <1>7 DEF PreviewIsText, CommitIsShown
<1> QED
  BY <1>4, <1>8, <1>9, <1>10, <1>11, <1>12 DEF Sound

\* The first entry of an array there is or is to be.
LEMMA FirstEntry ==
    ASSUME NEW t, Gapless(t), NEW p \in DOMAIN t, t[p].kind = "array"
    PROVE  /\ Room(t, Append(p, 1)) /\ t[Front(Append(p, 1))].kind # "object"
           /\ Append(p, 1) # <<>>
<1>1. p \in Paths
  BY DEF Gapless
<1> DEFINE at == Append(p, 1)
<1>2. at \in Paths /\ at # <<>> /\ Front(at) = p /\ Last(at) = 1
  BY <1>1, ChildIs
<1> HIDE DEF at
<1>3. Room(t, at)
  BY <1>2 DEF Room, IsBlock, Blocks
<1> QED
  BY <1>2, <1>3 DEF at

\* Entering an array leaves the cursor on a unit.
LEMMA EnterArraySound == ASSUME Sound(ed, host), EnterArray PROVE Sound(ed', host)
<1>1. Structural
  BY DEF EnterArray
<1>2. Gapless(ed.root) /\ Selected \in CollectUnits(ed.root)
  BY <1>1, StructuralIs
<1> DEFINE p == Selected.path
           first == Append(p, 1)
           t == IF Kids(ed.root, p) = {} THEN InsertLeaf(ed.root, first, NullNode(NoKey)) ELSE ed.root
           c == Position(CollectUnits(t), ValueUnit(t, first))
<1>3. ed' = Rebuilt(t, c) /\ ed.root[p].kind = "array"
  BY DEF EnterArray
<1>4. p \in DOMAIN ed.root
  BY <1>2, UnitAt
<1>5. Gapless(InsertLeaf(ed.root, first, Node("null", NoKey)))
  <2>1. Room(ed.root, first) /\ ed.root[Front(first)].kind # "object"
    BY <1>2, <1>3, <1>4, FirstEntry
  <2> HIDE DEF first
  <2> QED
    BY <1>2, <2>1, InsertKeepsGapless
<1>6. Gapless(t)
  BY <1>2, <1>5 DEF NullNode
<1> HIDE DEF t
<1>7. c \in Nat /\ c < Cardinality(CollectUnits(t))
  <2>1. Numbered(CollectUnits(t))
    BY <1>6, UnitsNumbered
  <2> QED
    BY <2>1, PositionIsSmall
<1> HIDE DEF c
<1> QED
  BY <1>1, <1>3, <1>6, <1>7, SoundRebuilt

\* Where Add puts a node there is room.
NewPlace(t, u) == IF u.typ = "block" THEN EndOf(t, u.path) ELSE NextSibling(u.path)
NewKey(t, at) == IF t[Front(at)].kind = "object" THEN "newKey" ELSE NoKey
\* Where addNode puts a node there is room.
LEMMA RoomToAdd ==
    ASSUME NEW t, Gapless(t), NEW u \in CollectUnits(t), u.typ = "block" \/ u.path # <<>>
    PROVE  Room(t, NewPlace(t, u))
<1> DEFINE p == u.path
<1>1. p \in DOMAIN t /\ p \in Paths
  BY UnitAt
<1>2. CASE u.typ = "block"
  <2> DEFINE n == Cardinality(Kids(t, p))
             at == Append(p, n + 1)
  <2>1. n \in Nat /\ \A k \in Nat : Append(p, k) \in DOMAIN t <=> k \in 1..n
    BY <1>1, GaplessIsTree, KidsAre
  <2> HIDE DEF n
  <2>2. n + 1 \in Nat
    BY <2>1
  <2>3. at \in Paths /\ at # <<>> /\ Front(at) = p /\ Last(at) = n + 1
    BY <1>1, <2>2, ChildIs
  <2>4. IsBlock(t, p)
    BY <1>2, UnitAt
  <2>5. Last(at) > 1 => Elder(at) \in DOMAIN t
    <3> SUFFICES ASSUME Last(at) > 1 PROVE Elder(at) \in DOMAIN t
      OBVIOUS
    <3>1. Last(at) - 1 = n /\ n \in 1..n
      BY <2>1, <2>3
    <3>2. Elder(at) = Append(p, n)
      BY <2>3, <3>1 DEF Elder
    <3> QED
      BY <2>1, <3>1, <3>2
  <2>6. NewPlace(t, u) = at
    BY <1>2 DEF NewPlace, EndOf, n
  <2> HIDE DEF at
  <2>7. Last(at) > 0
    <3>1. n \in Nat /\ Last(at) = n + 1
      BY <2>1, <2>3
    <3> QED
      BY <3>1
  <2>8. Room(t, at)
    BY <1>1, <2>3, <2>4, <2>5, <2>7 DEF Room
  <2> QED
    BY <2>6, <2>8
<1>3. CASE u.typ # "block"
  <2>1. p # <<>>
    BY <1>3
  <2> DEFINE f == Front(p)
             k == Last(p)
             at == Append(f, k + 1)
  <2>2. f \in DOMAIN t /\ IsBlock(t, f) /\ f \in Paths /\ k \in Nat /\ p = Append(f, k)
    BY <1>1, <2>1, FrontIs, ChildOfFront DEF Gapless
  <2> HIDE DEF f, k
  <2>3. k + 1 \in Nat
    BY <2>2
  <2>4. at \in Paths /\ at # <<>> /\ Front(at) = f /\ Last(at) = k + 1
    BY <2>2, <2>3, ChildIs
  <2>5. Elder(at) = p
    <3>1. Last(at) - 1 = k
      BY <2>2, <2>4
    <3> QED
      BY <2>2, <2>4, <3>1 DEF Elder
  <2>6. NewPlace(t, u) = at
    BY <1>3 DEF NewPlace, NextSibling, f, k
  <2> HIDE DEF at
  <2>7. Last(at) > 0
    <3>1. k \in Nat /\ Last(at) = k + 1
      BY <2>2, <2>4
    <3> QED
      BY <3>1
  <2>8. Room(t, at)
    BY <1>1, <2>2, <2>4, <2>5, <2>7 DEF Room
  <2> QED
    BY <2>6, <2>8
<1> QED
  BY <1>2, <1>3

\* What addNode makes of a document.
LEMMA AddIs ==
    ASSUME Sound(ed, host), Add
    PROVE  /\ Room(ed.root, NewPlace(ed.root, Selected))
           /\ Gapless(InsertLeaf(ed.root, NewPlace(ed.root, Selected),
                                 Node("null", NewKey(ed.root, NewPlace(ed.root, Selected)))))
           /\ ed' = LET at == NewPlace(ed.root, Selected)
                        t == InsertLeaf(ed.root, at, Node("null", NewKey(ed.root, at)))
                    IN  Rebuilt(t, Position(CollectUnits(t),
                                   Unit(at, IF ed.root[Front(at)].kind = "object" THEN "key" ELSE "scalar")))
<1>1. Structural
  BY DEF Add
<1>2. Gapless(ed.root) /\ Selected \in CollectUnits(ed.root)
  BY <1>1, StructuralIs
<1> DEFINE at == NewPlace(ed.root, Selected)
<1>3. Room(ed.root, at)
  <2>1. Selected.typ = "block" \/ Selected.path # <<>>
    BY DEF Add
  <2> QED
    BY <1>2, <2>1, RoomToAdd
<1>4. Gapless(InsertLeaf(ed.root, at, Node("null", NewKey(ed.root, at))))
  <2>1. ed.root[Front(at)].kind = "object" <=> NewKey(ed.root, at) # NoKey
    BY DEF NewKey, NoKey
  <2> HIDE DEF at
  <2> QED
    BY <1>2, <1>3, <2>1, InsertKeepsGapless
<1>5. ed' = LET t == InsertLeaf(ed.root, at, Node("null", NewKey(ed.root, at)))
            IN  Rebuilt(t, Position(CollectUnits(t), Unit(at, IF ed.root[Front(at)].kind = "object" THEN "key" ELSE "scalar")))
  BY DEF Add, NewPlace, NewKey, NullNode
<1> QED
  BY <1>3, <1>4, <1>5

\* Adding leaves a document and the cursor on a unit.
LEMMA AddSound == ASSUME Sound(ed, host), Add PROVE Sound(ed', host)
<1> DEFINE at == NewPlace(ed.root, Selected)
           t == InsertLeaf(ed.root, at, Node("null", NewKey(ed.root, at)))
           c == Position(CollectUnits(t), Unit(at, IF ed.root[Front(at)].kind = "object" THEN "key" ELSE "scalar"))
<1>1. Gapless(t) /\ ed' = Rebuilt(t, c)
  BY AddIs
<1>2. Structural
  BY DEF Add
<1> HIDE DEF t
<1>3. c \in Nat /\ c < Cardinality(CollectUnits(t))
  <2>1. Numbered(CollectUnits(t))
    BY <1>1, UnitsNumbered
  <2> QED
    BY <2>1, PositionIsSmall
<1> HIDE DEF c
<1> QED
  BY <1>1, <1>2, <1>3, SoundRebuilt

\* So does deleting.
LEMMA DeleteSound == ASSUME Sound(ed, host), Delete PROVE Sound(ed', host)
<1>1. Structural /\ Selected.path # <<>>
  BY DEF Delete
<1>2. Gapless(ed.root) /\ Selected \in CollectUnits(ed.root) /\ ed.cursor \in Nat
  BY <1>1, StructuralIs
<1> DEFINE t == DeleteAt(ed.root, Selected.path)
           c == Clamped(ed.cursor, CollectUnits(t))
<1>3. ed' = Rebuilt(t, c)
  BY DEF Delete
<1>4. Gapless(t)
  BY <1>1, <1>2, UnitAt, DeleteKeepsGapless
<1> HIDE DEF t
<1>5. c \in Nat /\ c < Cardinality(CollectUnits(t))
  <2>1. Numbered(CollectUnits(t))
    BY <1>4, UnitsNumbered
  <2> QED
    BY <1>2, <2>1, ClampedIs
<1> HIDE DEF c
<1> QED
  BY <1>1, <1>3, <1>4, <1>5, SoundRebuilt

\* What is saved from structural mode is the document there is.
LEMMA SaveStructuralSound == ASSUME Sound(ed, host), SaveStructural PROVE Sound(ed', host)
<1>1. Structural
  BY DEF SaveStructural
<1>2. /\ ed = [x \in EdFields |-> ed[x]] /\ ed.cursor \in Nat /\ BufferIsText(ed)
      /\ ed.mode = "structural" /\ ed.state = "navigating" /\ ed.outcome = "open"
      /\ Gapless(ed.root) /\ ed.units = CollectUnits(ed.root) /\ ed.cursor < Cardinality(ed.units)
  BY <1>1, StructuralIs
<1> DEFINE n == [ed EXCEPT !.committed = ed.root, !.outcome = "committed"]
<1>3. ed' = n /\ Passes(host, ed.root)
  BY DEF SaveStructural, Validates, Passes
<1>4. /\ n = [x \in EdFields |-> n[x]]
      /\ n.root = ed.root /\ n.units = ed.units /\ n.cursor = ed.cursor
      /\ n.mode = ed.mode /\ n.state = ed.state /\ n.outcome = "committed" /\ n.buffer = ed.buffer
      /\ n.committed = ed.root
  BY <1>2 DEF EdFields
<1> HIDE DEF n
<1>5. Shaped(n)
  BY <1>2, <1>4 DEF Shaped
<1>6. BufferIsText(n) /\ CursorOn(n)
  BY <1>2, <1>4 DEF BufferIsText, CursorOn
<1>7. EditIsOfUnit(n) /\ PreviewIsText(n, host)
  BY <1>2, <1>4 DEF EditIsOfUnit, PreviewIsText
<1>8. CommitIsShown(n, host)
  BY <1>2, <1>3, <1>4 DEF CommitIsShown, ShownIn
<1> QED
  BY <1>3, <1>5, <1>6, <1>7, <1>8 DEF Sound

-----------------------------------------------------------------------------
(* Keys of an edit                                                         *)

\* An edit that is closed leaves a document and a cursor on one of its units.
LEMMA SoundClosed ==
    ASSUME Shaped(ed), ed.mode = "structural", ed.outcome = "open",
           NEW t, Gapless(t), NEW c \in Nat, c < Cardinality(CollectUnits(t)), NEW n, n = Closed(Rebuilt(t, c))
    PROVE  Sound(n, host)
<1> DEFINE m == Rebuilt(t, c)
<1>1. /\ m = [x \in EdFields |-> m[x]]
      /\ m.root = t /\ m.units = CollectUnits(t) /\ m.cursor = c
      /\ m.mode = "structural" /\ m.outcome = "open"
  BY RebuiltIs
<1> HIDE DEF m
<1>2. /\ Closed(m) = [x \in EdFields |-> Closed(m)[x]]
      /\ Closed(m).root = t /\ Closed(m).units = CollectUnits(t) /\ Closed(m).cursor = c
      /\ Closed(m).mode = "structural" /\ Closed(m).state = "navigating" /\ Closed(m).outcome = "open"
      /\ Closed(m).buffer = NoText
  BY <1>1, ClosedIs
<1>3. n = Closed(m)
  BY DEF m
<1>4. BufferIsText(n)
  BY <1>2, <1>3, TextsHold DEF TextHolds, BufferIsText
<1> QED
  BY <1>2, <1>3, <1>4, SoundBetween

\* An open edit is of a unit of the document, and the cursor is where that is.
LEMMA EditedIs ==
    ASSUME Sound(ed, host), Open, Editing
    PROVE  /\ Shaped(ed) /\ BufferIsText(ed) /\ ed.mode = "structural" /\ ed.outcome = "open"
           /\ ed = [x \in EdFields |-> ed[x]] /\ ed.cursor \in Nat
           /\ Gapless(ed.root) /\ ed.units = CollectUnits(ed.root)
           /\ ed.cursor < Cardinality(CollectUnits(ed.root))
           /\ ed.editing \in CollectUnits(ed.root) /\ Position(CollectUnits(ed.root), ed.editing) = ed.cursor
           /\ ed.state = "inline" => ed.editing.typ # "block"
           /\ ed.state = "block" => ed.editing.typ = "block"
<1>1. Shaped(ed) /\ BufferIsText(ed) /\ CursorOn(ed) /\ EditIsOfUnit(ed) /\ ed.outcome = "open"
  BY DEF Sound, Open
<1>2. /\ ed.mode = "structural" /\ ed.editing \in ed.units /\ Position(ed.units, ed.editing) = ed.cursor
      /\ ed.state = "inline" => ed.editing.typ # "block"
      /\ ed.state = "block" => ed.editing.typ = "block"
  BY <1>1 DEF EditIsOfUnit, Editing
<1>3. Gapless(ed.root) /\ ed.units = CollectUnits(ed.root) /\ ed.cursor < Cardinality(ed.units)
  BY <1>1, <1>2 DEF CursorOn
<1>4. ed = [x \in EdFields |-> ed[x]] /\ ed.cursor \in Nat
  BY <1>1 DEF Shaped
<1> QED
  BY <1>1, <1>2, <1>3, <1>4

\* Another key does not change what the cursor selects.
LEMMA KeyKeepsUnits ==
    ASSUME NEW t, Gapless(t), NEW p \in DOMAIN t, HasKey(t, p), NEW key, key # NoKey
    PROVE  CollectUnits(SetKeyAt(t, p, key)) = CollectUnits(t)
<1> DEFINE s == SetKeyAt(t, p, key)
<1>1. DOMAIN s = DOMAIN t /\ \A q \in DOMAIN t : s[q].kind = t[q].kind
  BY SetKeyKeepsGapless
<1>2. <<>> \in DOMAIN t /\ \A q \in DOMAIN t : q # <<>> => Front(q) \in DOMAIN t
  BY DEF Gapless
<1> HIDE DEF s
<1>3. \A q \in DOMAIN t : HasKey(s, q) <=> HasKey(t, q)
  BY <1>1, <1>2 DEF HasKey
<1>4. \A q \in DOMAIN t : ValueUnit(s, q) = ValueUnit(t, q)
  BY <1>1 DEF ValueUnit, IsBlock
<1> DEFINE below == DOMAIN t \ {<<>>}
           values == IF below = {} THEN {<<>>} ELSE below
<1>5. {Unit(q, "key") : q \in {r \in below : HasKey(s, r)}} = {Unit(q, "key") : q \in {r \in below : HasKey(t, r)}}
  BY <1>3
<1>6. values \subseteq DOMAIN t
  BY <1>2
<1>7. {ValueUnit(s, q) : q \in values} = {ValueUnit(t, q) : q \in values}
  BY <1>4, <1>6
<1>8. CollectUnits(s) = {Unit(q, "key") : q \in {r \in below : HasKey(s, r)}} \cup {ValueUnit(s, q) : q \in values}
  BY <1>1 DEF CollectUnits
<1>9. CollectUnits(t) = {Unit(q, "key") : q \in {r \in below : HasKey(t, r)}} \cup {ValueUnit(t, q) : q \in values}
  BY DEF CollectUnits
<1> QED
  BY <1>5, <1>7, <1>8, <1>9 DEF s

\* A value applied where the edit was opened.
LEMMA ValueApplied ==
    ASSUME Sound(ed, host), Open, Editing, ed.editing.typ # "key", NEW s, Gapless(s), NEW n,
           n = Closed(Rebuilt(ReplaceValueAt(ed.root, ed.editing.path, s), ed.cursor))
    PROVE  Sound(n, host)
<1>1. /\ Shaped(ed) /\ ed.mode = "structural" /\ ed.outcome = "open" /\ ed.cursor \in Nat
      /\ Gapless(ed.root) /\ ed.editing \in CollectUnits(ed.root)
      /\ Position(CollectUnits(ed.root), ed.editing) = ed.cursor
  BY EditedIs
<1>2. PICK u : u = ed.editing
  OBVIOUS
<1>3. u.path \in DOMAIN ed.root
  BY <1>1, <1>2, UnitAt
<1> DEFINE t == ReplaceValueAt(ed.root, u.path, s)
<1>4. Gapless(t)
  BY <1>1, <1>3, ReplaceKeepsGapless
<1>5. ed.cursor < Cardinality(CollectUnits(t))
  <2>1. Position(CollectUnits(ed.root), u) < Cardinality(CollectUnits(t))
    BY <1>1, <1>2, CursorStays
  <2> QED
    BY <1>1, <1>2, <2>1
<1>6. n = Closed(Rebuilt(t, ed.cursor))
  BY <1>2
<1> HIDE DEF t
<1> QED
  BY <1>1, <1>4, <1>5, <1>6, SoundClosed

\* A key or a scalar applied leaves the cursor on its unit.
LEMMA InlineApplySound == ASSUME Sound(ed, host), host \in Hosts, InlineApply PROVE Sound(ed', host)
<1>1. Open /\ Editing
  BY DEF InlineApply, Inline, Editing
<1>2. /\ Shaped(ed) /\ ed.mode = "structural" /\ ed.outcome = "open" /\ ed.cursor \in Nat
      /\ Gapless(ed.root) /\ ed.editing \in CollectUnits(ed.root)
      /\ ed.cursor < Cardinality(CollectUnits(ed.root))
  BY <1>1, EditedIs
<1>3. PICK u : u = ed.editing
  OBVIOUS
<1>4. u.path \in DOMAIN ed.root
  BY <1>2, <1>3, UnitAt
<1>5. CASE u.typ = "key" /\ \E key \in TypedKeys : ed' = Closed(Rebuilt(SetKeyAt(ed.root, u.path, key), ed.cursor))
  <2>1. PICK key \in TypedKeys : ed' = Closed(Rebuilt(SetKeyAt(ed.root, u.path, key), ed.cursor))
    BY <1>5
  <2>2. key # NoKey
    BY EditorAssumption
  <2>3. HasKey(ed.root, u.path)
    BY <1>2, <1>3, <1>5, UnitAt
  <2> DEFINE t == SetKeyAt(ed.root, u.path, key)
  <2>4. Gapless(t) /\ CollectUnits(t) = CollectUnits(ed.root)
    BY <1>2, <1>4, <2>2, <2>3, SetKeyKeepsGapless, KeyKeepsUnits
  <2> HIDE DEF t
  <2>5. ed.cursor < Cardinality(CollectUnits(t))
    BY <1>2, <2>4
  <2>6. ed' = Closed(Rebuilt(t, ed.cursor))
    BY <2>1 DEF t
  <2> QED
    BY <1>2, <2>4, <2>5, <2>6, SoundClosed
<1>6. CASE /\ u.typ = "scalar"
           /\ \E x \in Typed[host] \cup {Text(TRUE, SubtreeAt(ed.root, u.path))} :
                 x.ok /\ ed' = Closed(Rebuilt(ReplaceValueAt(ed.root, u.path, x.tree), ed.cursor))
  <2>1. PICK x \in Typed[host] \cup {Text(TRUE, SubtreeAt(ed.root, u.path))} :
            x.ok /\ ed' = Closed(Rebuilt(ReplaceValueAt(ed.root, u.path, x.tree), ed.cursor))
    BY <1>6
  <2>2. Gapless(SubtreeAt(ed.root, u.path))
    BY <1>2, <1>4, SubtreeKeepsGapless
  <2>3. TextHolds(x)
    BY <2>1, <2>2, TextsHold
  <2>4. Gapless(x.tree)
    BY <2>1, <2>3 DEF TextHolds
  <2>5. ed.editing.typ # "key"
    BY <1>3, <1>6
  <2>6. ed' = Closed(Rebuilt(ReplaceValueAt(ed.root, ed.editing.path, x.tree), ed.cursor))
    BY <1>3, <2>1
  <2> QED
    BY <1>1, <2>4, <2>5, <2>6, ValueApplied
<1> QED
  BY <1>3, <1>5, <1>6 DEF InlineApply

\* A text applied to a block leaves the cursor on a unit.
LEMMA BlockApplySound == ASSUME Sound(ed, host), BlockApply PROVE Sound(ed', host)
<1>1. Open /\ Editing /\ ed.state = "block"
  BY DEF BlockApply, Block, Editing
<1>2. BufferIsText(ed) /\ ed.editing.typ = "block"
  BY <1>1, EditedIs
<1>3. Gapless(ed.buffer.tree)
  BY <1>2 DEF BufferIsText, BlockApply
<1>4. ed' = Closed(Rebuilt(ReplaceValueAt(ed.root, ed.editing.path, ed.buffer.tree), ed.cursor))
  BY DEF BlockApply
<1>5. ed.editing.typ # "key"
  BY <1>2
<1> QED
  BY <1>1, <1>3, <1>4, <1>5, ValueApplied

\* An edit that is cancelled changes nothing.
LEMMA EditEscSound == ASSUME Sound(ed, host), EditEsc PROVE Sound(ed', host)
<1>1. Open /\ Editing /\ ed' = Closed(ed)
  BY DEF EditEsc
<1>2. /\ ed = [x \in EdFields |-> ed[x]] /\ ed.mode = "structural" /\ ed.outcome = "open" /\ ed.cursor \in Nat
      /\ Gapless(ed.root) /\ ed.units = CollectUnits(ed.root)
      /\ ed.cursor < Cardinality(CollectUnits(ed.root))
  BY <1>1, EditedIs
<1> DEFINE n == Closed(ed)
<1>3. /\ n = [x \in EdFields |-> n[x]]
      /\ n.root = ed.root /\ n.units = ed.units /\ n.cursor = ed.cursor
      /\ n.mode = ed.mode /\ n.state = "navigating" /\ n.outcome = ed.outcome
      /\ n.buffer = NoText
  BY <1>2, ClosedIs
<1> HIDE DEF n
<1>4. BufferIsText(n)
  BY <1>3, TextsHold DEF TextHolds, BufferIsText
<1>5. Sound(n, host)
  BY <1>2, <1>3, <1>4, SoundBetween
<1> QED
  BY <1>1, <1>5 DEF n

-----------------------------------------------------------------------------
(* Raw mode and preview                                                    *)

\* Raw mode opens on the document.
LEMMA ToRawSound == ASSUME Sound(ed, host), ToRaw PROVE Sound(ed', host)
<1>1. Structural
  BY DEF ToRaw
<1>2. /\ ed = [x \in EdFields |-> ed[x]] /\ ed.cursor \in Nat
      /\ ed.state = "navigating" /\ ed.outcome = "open" /\ Gapless(ed.root)
  BY <1>1, StructuralIs
<1> DEFINE x == Text(TRUE, ed.root)
           n == [ed EXCEPT !.mode = "raw", !.buffer = x]
<1>3. ed' = n
  BY DEF ToRaw
<1>4. TextHolds(x)
  BY <1>2, TextsHold
<1> HIDE DEF x
<1>5. /\ n = [y \in EdFields |-> n[y]] /\ n.mode = "raw" /\ n.state = "navigating" /\ n.outcome = "open"
      /\ n.root = ed.root /\ n.cursor = ed.cursor /\ n.buffer = x
  BY <1>2 DEF EdFields
<1> HIDE DEF n
<1>6. Shaped(n) /\ BufferIsText(n)
  BY <1>2, <1>4, <1>5 DEF Shaped, BufferIsText, TextHolds
<1>7. CursorOn(n) /\ EditIsOfUnit(n) /\ PreviewIsText(n, host) /\ CommitIsShown(n, host)
  BY <1>5 DEF CursorOn, EditIsOfUnit, PreviewIsText, CommitIsShown
<1> QED
  BY <1>3, <1>6, <1>7 DEF Sound

\* What is typed is a text.
LEMMA TypeSound == ASSUME Sound(ed, host), host \in Hosts, Type PROVE Sound(ed', host)
<1>1. PICK x \in Typed[host] : ed' = [ed EXCEPT !.buffer = x]
  BY DEF Type
<1>2. Shaped(ed) /\ CursorOn(ed) /\ EditIsOfUnit(ed) /\ ed.outcome = "open" /\ ed.state # "preview"
  BY DEF Sound, Type, Raw, Block, Open
<1>3. ed = [y \in EdFields |-> ed[y]]
  BY <1>2 DEF Shaped
<1>4. TextHolds(x)
  BY TextsHold
<1> DEFINE n == [ed EXCEPT !.buffer = x]
<1>5. /\ n = [y \in EdFields |-> n[y]] /\ n.mode = ed.mode /\ n.state = ed.state /\ n.outcome = ed.outcome
      /\ n.root = ed.root /\ n.units = ed.units /\ n.cursor = ed.cursor /\ n.editing = ed.editing /\ n.buffer = x
  BY <1>3 DEF EdFields
<1>6. ed' = n
  BY <1>1
<1> HIDE DEF n
<1>7. Shaped(n)
  BY <1>2, <1>5 DEF Shaped
<1>8. BufferIsText(n)
  BY <1>4, <1>5 DEF BufferIsText, TextHolds
<1>9. CursorOn(n) /\ EditIsOfUnit(n)
  BY <1>2, <1>5 DEF CursorOn, EditIsOfUnit
<1>10. PreviewIsText(n, host) /\ CommitIsShown(n, host)
  BY <1>2, <1>5 DEF PreviewIsText, CommitIsShown
<1> QED
  BY <1>6, <1>7, <1>8, <1>9, <1>10 DEF Sound

\* Back in structural mode the document is what was typed.
LEMMA RawTabSound == ASSUME Sound(ed, host), RawTab PROVE Sound(ed', host)
<1>1. Shaped(ed) /\ BufferIsText(ed) /\ ed.outcome = "open" /\ ed.buffer.ok
  BY DEF Sound, RawTab, Raw, Open
<1> DEFINE t == ed.buffer.tree
           c == Clamped(ed.cursor, CollectUnits(t))
           m == Rebuilt(t, c)
           k == Closed(m)
           n == [k EXCEPT !.mode = "structural"]
<1>2. ed' = n
  BY DEF RawTab
<1>3. Gapless(t)
  BY <1>1 DEF BufferIsText
<1>4. c \in Nat /\ c < Cardinality(CollectUnits(t))
  <2>1. Numbered(CollectUnits(t))
    BY <1>3, UnitsNumbered
  <2>2. ed.cursor \in Nat
    BY <1>1 DEF Shaped
  <2> HIDE DEF t
  <2> QED
    BY <2>1, <2>2, ClampedIs
<1> HIDE DEF t, c
<1>5. /\ m = [x \in EdFields |-> m[x]]
      /\ m.root = t /\ m.units = CollectUnits(t) /\ m.cursor = c /\ m.outcome = "open"
  BY <1>1, RebuiltIs
<1> HIDE DEF m
<1>6. /\ k = [x \in EdFields |-> k[x]]
      /\ k.root = t /\ k.units = CollectUnits(t) /\ k.cursor = c
      /\ k.state = "navigating" /\ k.outcome = "open" /\ k.buffer = NoText
  BY <1>5, ClosedIs
<1> HIDE DEF k
<1>7. /\ n = [x \in EdFields |-> n[x]]
      /\ n.root = t /\ n.units = CollectUnits(t) /\ n.cursor = c /\ n.mode = "structural"
      /\ n.state = "navigating" /\ n.outcome = "open" /\ n.buffer = NoText
  BY <1>6 DEF EdFields
<1> HIDE DEF n
<1>8. BufferIsText(n)
  BY <1>7, TextsHold DEF TextHolds, BufferIsText
<1>9. Sound(n, host)
  BY <1>3, <1>4, <1>7, <1>8, SoundBetween
<1> QED
  BY <1>2, <1>9

\* The preview shows what was typed and passed the check.
LEMMA RawSaveSound == ASSUME Sound(ed, host), RawSave PROVE Sound(ed', host)
<1>1. /\ Shaped(ed) /\ BufferIsText(ed) /\ ed.outcome = "open" /\ ed.mode = "raw"
      /\ Passes(host, ed.buffer.tree)
  BY DEF Sound, RawSave, Raw, Open, Validates, Passes
<1>2. ed = [y \in EdFields |-> ed[y]]
  BY <1>1 DEF Shaped
<1> DEFINE n == [ed EXCEPT !.pending = ed.buffer.tree, !.state = "preview"]
<1>3. ed' = n
  BY DEF RawSave
<1>4. /\ n = [y \in EdFields |-> n[y]] /\ n.mode = "raw" /\ n.state = "preview" /\ n.outcome = "open"
      /\ n.root = ed.root /\ n.cursor = ed.cursor /\ n.buffer = ed.buffer /\ n.pending = ed.buffer.tree
  BY <1>1, <1>2 DEF EdFields
<1> HIDE DEF n
<1>5. Shaped(n) /\ BufferIsText(n)
  BY <1>1, <1>4 DEF Shaped, BufferIsText
<1>6. CursorOn(n) /\ EditIsOfUnit(n) /\ CommitIsShown(n, host)
  BY <1>4 DEF CursorOn, EditIsOfUnit, CommitIsShown
<1>7. PreviewIsText(n, host)
  BY <1>1, <1>4 DEF PreviewIsText
<1> QED
  BY <1>3, <1>5, <1>6, <1>7 DEF Sound

\* What is confirmed is what was previewed.
LEMMA PreviewYesSound == ASSUME Sound(ed, host), PreviewYes PROVE Sound(ed', host)
<1>1. Shaped(ed) /\ BufferIsText(ed) /\ PreviewIsText(ed, host) /\ ed.state = "preview"
  BY DEF Sound, PreviewYes, Preview
<1>2. ed = [y \in EdFields |-> ed[y]] /\ ed.mode = "raw" /\ ed.pending = ed.buffer.tree /\ Passes(host, ed.pending)
  BY <1>1 DEF Shaped, PreviewIsText
<1> DEFINE n == [ed EXCEPT !.committed = ed.pending, !.outcome = "committed"]
<1>3. ed' = n
  BY DEF PreviewYes
<1>4. /\ n = [y \in EdFields |-> n[y]] /\ n.mode = "raw" /\ n.state = "preview" /\ n.outcome = "committed"
      /\ n.root = ed.root /\ n.cursor = ed.cursor /\ n.buffer = ed.buffer /\ n.pending = ed.pending
      /\ n.committed = ed.pending
  BY <1>1, <1>2 DEF EdFields
<1> HIDE DEF n
<1>5. Shaped(n) /\ BufferIsText(n)
  BY <1>1, <1>4 DEF Shaped, BufferIsText
<1>6. CursorOn(n) /\ EditIsOfUnit(n)
  BY <1>4 DEF CursorOn, EditIsOfUnit
<1>7. PreviewIsText(n, host) /\ CommitIsShown(n, host)
  BY <1>2, <1>4 DEF PreviewIsText, CommitIsShown, ShownIn
<1> QED
  BY <1>3, <1>5, <1>6, <1>7 DEF Sound

\* A preview that is left leaves the text.
LEMMA PreviewEscSound == ASSUME Sound(ed, host), PreviewEsc PROVE Sound(ed', host)
<1>1. Shaped(ed) /\ BufferIsText(ed) /\ PreviewIsText(ed, host) /\ ed.state = "preview" /\ ed.outcome = "open"
  BY DEF Sound, PreviewEsc, Preview, Open
<1>2. ed = [y \in EdFields |-> ed[y]] /\ ed.mode = "raw"
  BY <1>1 DEF Shaped, PreviewIsText
<1> DEFINE n == [ed EXCEPT !.pending = NoTree, !.state = "navigating"]
<1>3. ed' = n
  BY DEF PreviewEsc
<1>4. /\ n = [y \in EdFields |-> n[y]] /\ n.mode = "raw" /\ n.state = "navigating" /\ n.outcome = "open"
      /\ n.root = ed.root /\ n.cursor = ed.cursor /\ n.buffer = ed.buffer
  BY <1>1, <1>2 DEF EdFields
<1> HIDE DEF n
<1>5. Shaped(n) /\ BufferIsText(n)
  BY <1>1, <1>4 DEF Shaped, BufferIsText
<1>6. CursorOn(n) /\ EditIsOfUnit(n) /\ PreviewIsText(n, host) /\ CommitIsShown(n, host)
  BY <1>4 DEF CursorOn, EditIsOfUnit, PreviewIsText, CommitIsShown
<1> QED
  BY <1>3, <1>5, <1>6 DEF Sound

\* Leaving the editor changes nothing.
LEMMA AbortSound == ASSUME Sound(ed, host), Abort PROVE Sound(ed', host)
<1>1. Shaped(ed) /\ BufferIsText(ed) /\ CursorOn(ed) /\ EditIsOfUnit(ed) /\ PreviewIsText(ed, host)
  BY DEF Sound
<1>2. ed = [y \in EdFields |-> ed[y]]
  BY <1>1 DEF Shaped
<1> DEFINE n == [ed EXCEPT !.outcome = "aborted"]
<1>3. ed' = n
  BY DEF Abort
<1>4. /\ n = [y \in EdFields |-> n[y]] /\ n.mode = ed.mode /\ n.state = ed.state /\ n.outcome = "aborted"
      /\ n.root = ed.root /\ n.units = ed.units /\ n.cursor = ed.cursor /\ n.editing = ed.editing
      /\ n.buffer = ed.buffer /\ n.pending = ed.pending
  BY <1>2 DEF EdFields
<1> HIDE DEF n
<1>5. Shaped(n) /\ BufferIsText(n)
  BY <1>1, <1>4 DEF Shaped, BufferIsText
<1>6. CursorOn(n) /\ EditIsOfUnit(n)
  BY <1>1, <1>4 DEF CursorOn, EditIsOfUnit
<1>7. PreviewIsText(n, host) /\ CommitIsShown(n, host)
  BY <1>1, <1>4 DEF PreviewIsText, CommitIsShown
<1> QED
  BY <1>3, <1>5, <1>6, <1>7 DEF Sound

\* Every key the form hands on keeps the editor sound.
LEMMA StepsSound == ASSUME Sound(ed, host), host \in Hosts, Steps PROVE Sound(ed', host)
BY UpSound, EditUnitSound, EnterArraySound, AddSound, DeleteSound, InlineApplySound, EditEscSound,
   ToRawSound, TypeSound, RawTabSound DEF Steps

\* Every key does.
LEMMA EditorNextSound == ASSUME Sound(ed, host), host \in Hosts, EditorNext PROVE Sound(ed', host)
BY StepsSound, SaveStructuralSound, BlockApplySound, RawSaveSound, PreviewYesSound, PreviewEscSound, AbortSound
   DEF EditorNext, CtrlD

-----------------------------------------------------------------------------
(* The form                                                                *)

\* A document that is opened is shown as it is, with the cursor on its first unit.
LEMMA OpenedIsSound ==
    ASSUME NEW x, TextHolds(x), NEW h
    PROVE  /\ Sound(Opened(x), h) /\ Opened(x).outcome = "open" /\ Opened(x).state = "navigating"
           /\ x.ok => Opened(x).mode = "structural" /\ Opened(x).root = x.tree
<1> DEFINE n == Opened(x)
           units == CollectUnits(x.tree)
<1>1. x.ok \in BOOLEAN /\ (x.ok => Gapless(x.tree))
  BY DEF TextHolds
<1>2. CASE x.ok
  <2>1. n = [mode |-> "structural", state |-> "navigating", root |-> x.tree, units |-> units,
             cursor |-> 0, editing |-> NoUnit, buffer |-> NoText,
             pending |-> NoTree, committed |-> NoTree, outcome |-> "open"]
    BY <1>2 DEF Opened
  <2>2. Gapless(x.tree) /\ Numbered(units)
    BY <1>1, <1>2, UnitsNumbered
  <2> HIDE DEF n, units
  <2>3. /\ n = [y \in EdFields |-> n[y]] /\ n.mode = "structural" /\ n.state = "navigating" /\ n.outcome = "open"
        /\ n.root = x.tree /\ n.units = units /\ n.cursor = 0 /\ n.buffer = NoText
    BY <2>1 DEF EdFields
  <2>4. 0 < Cardinality(units)
    BY <2>2 DEF Numbered
  <2>5. BufferIsText(n)
    BY <2>3, TextsHold DEF TextHolds, BufferIsText
  <2>6. Sound(n, h)
    BY <2>2, <2>3, <2>4, <2>5, SoundBetween DEF units
  <2> QED
    BY <2>3, <2>6 DEF n
<1>3. CASE ~x.ok
  <2>1. n = [mode |-> "raw", state |-> "navigating", root |-> NoTree, units |-> {},
             cursor |-> 0, editing |-> NoUnit, buffer |-> x,
             pending |-> NoTree, committed |-> NoTree, outcome |-> "open"]
    BY <1>3 DEF Opened
  <2> HIDE DEF n
  <2>2. /\ n = [y \in EdFields |-> n[y]] /\ n.mode = "raw" /\ n.state = "navigating" /\ n.outcome = "open"
        /\ n.root = NoTree /\ n.cursor = 0 /\ n.buffer = x
    BY <2>1 DEF EdFields
  <2>3. Shaped(n) /\ BufferIsText(n)
    BY <2>2 DEF Shaped, BufferIsText, TextHolds
  <2>4. CursorOn(n) /\ EditIsOfUnit(n) /\ PreviewIsText(n, h) /\ CommitIsShown(n, h)
    BY <2>2 DEF CursorOn, EditIsOfUnit, PreviewIsText, CommitIsShown
  <2>5. Sound(n, h)
    BY <2>3, <2>4 DEF Sound
  <2> QED
    BY <1>3, <2>2, <2>5 DEF n
<1> QED
  BY <1>1, <1>2, <1>3

\* The editor and the form are sound when they are opened.
LEMMA InitHolds == Init => FormIInv
<1> SUFFICES ASSUME Init PROVE FormIInv
  OBVIOUS
<1>1. /\ touches = 0 /\ dived = FALSE /\ text = IF creating THEN NoName ELSE "old"
      /\ formOutcome = "open" /\ changed = FALSE /\ focus = FocusText /\ lines = orig.runList
      /\ host \in Hosts /\ creating \in BOOLEAN
  BY DEF Init, FormInit, RunListText
<1>2. touches \in 0..MaxTouches /\ focus \in FocusText..FocusAttrs
  BY <1>1, FormAssumption DEF FocusText, FocusAttrs
<1>3. CASE host = "form"
  <2>1. /\ orig \in [bags : {IF creating THEN BlankSeed ELSE FormSeed},
                     runList : IF creating THEN {<<>>} ELSE RunLists]
        /\ ed = Opened(Text(TRUE, orig.bags))
    BY <1>3 DEF Init
  <2>2. orig.bags = (IF creating THEN BlankSeed ELSE FormSeed) /\ (~creating => orig.runList \in RunLists)
    BY <1>1, <2>1
  <2>3. Gapless(orig.bags)
    BY <2>2, FormAssumption, TreeOrGapless
  <2>4. TextHolds(Text(TRUE, orig.bags)) /\ Text(TRUE, orig.bags).ok /\ Text(TRUE, orig.bags).tree = orig.bags
    BY <2>3, TextsHold, TextIs
  <2>5. /\ Sound(ed, host) /\ ed.outcome = "open" /\ ed.state = "navigating"
        /\ ed.mode = "structural" /\ ed.root = orig.bags
    BY <2>1, <2>4, OpenedIsSound
  <2>6. Looked
    BY <1>1, <2>2, <2>5 DEF Looked
  <2> QED
    BY <1>1, <1>2, <2>5, <2>6 DEF FormIInv, EmbeddedNeverFinishes
<1>4. CASE host # "form"
  <2>1. PICK seed \in Seeds : ed = Opened(seed)
    BY <1>4 DEF Init
  <2>2. Sound(ed, host)
    BY <2>1, TextsHold, OpenedIsSound
  <2> QED
    BY <1>1, <1>2, <1>4, <2>2 DEF FormIInv, EmbeddedNeverFinishes, Looked
<1> QED
  BY <1>3, <1>4

\* A key that the form hands to the editor ends nothing and opens no preview, and the
\* text comes up by the key for it, or was up.
LEMMA StepsStay ==
    ASSUME Sound(ed, host), Steps
    PROVE  /\ ed'.outcome = "open" /\ (ed.state # "preview" => ed'.state # "preview")
           /\ ed'.mode = "raw" => ToRaw \/ (Type /\ ed.mode = "raw")
<1>1. Shaped(ed) /\ EditIsOfUnit(ed) /\ ed = [x \in EdFields |-> ed[x]] /\ ed.outcome = "open"
  <2>1. Open
    BY DEF Steps, Up, Down, EditUnit, EnterArray, Add, Delete, InlineApply, Inline, EditEsc, ToRaw, Type, Raw, Block,
           RawTab, Structural
  <2> QED
    BY <2>1 DEF Sound, Shaped, Open
<1>2. CASE Up \/ Down \/ EditUnit
  <2>1. ed.mode = "structural"
    BY <1>2 DEF Up, Down, EditUnit, Structural
  <2>2. CASE Up \/ Down
    <3>1. \E c : ed' = [ed EXCEPT !.cursor = c]
      BY <2>2 DEF Up, Down
    <3> QED
      BY <1>1, <2>1, <3>1 DEF EdFields
  <2>3. CASE EditUnit
    <3> DEFINE st == IF Selected.typ # "block" THEN "inline" ELSE "block"
               bu == IF Selected.typ # "block" THEN ed.buffer ELSE Text(TRUE, SubtreeAt(ed.root, Selected.path))
    <3>1. ed' = [ed EXCEPT !.editing = Selected, !.state = st, !.buffer = bu] /\ st # "preview"
      BY <2>3 DEF EditUnit
    <3> HIDE DEF st, bu
    <3> QED
      BY <1>1, <2>1, <3>1 DEF EdFields
  <2> QED
    BY <1>2, <2>2, <2>3
<1>3. CASE EnterArray \/ Add \/ Delete
  <2>1. ed.mode = "structural"
    BY <1>3 DEF EnterArray, Add, Delete, Structural
  <2>2. \E t, c : ed' = Rebuilt(t, c)
    BY <1>3 DEF EnterArray, Add, Delete
  <2>3. ed'.mode = ed.mode /\ ed'.state = ed.state /\ ed'.outcome = ed.outcome
    BY <1>1, <2>2, RebuiltIs
  <2> QED
    BY <1>1, <2>1, <2>3
<1>4. CASE InlineApply \/ EditEsc
  <2>1. ed.mode = "structural"
    BY <1>1, <1>4 DEF InlineApply, Inline, EditEsc, Editing, EditIsOfUnit
  <2>2. \/ \E t, c : ed' = Closed(Rebuilt(t, c))
        \/ ed' = Closed(ed)
    BY <1>4 DEF InlineApply, EditEsc
  <2>3. ed'.mode = ed.mode /\ ed'.state = "navigating" /\ ed'.outcome = ed.outcome
    BY <1>1, <2>2, RebuiltIs, ClosedIs
  <2> QED
    BY <1>1, <2>1, <2>3
<1>5. CASE ToRaw
  BY <1>1, <1>5 DEF ToRaw, EdFields
<1>6. CASE Type
  <2>1. \E x : ed' = [ed EXCEPT !.buffer = x]
    BY <1>6 DEF Type
  <2>2. ed'.mode = ed.mode /\ ed'.state = ed.state /\ ed'.outcome = ed.outcome
    BY <1>1, <2>1 DEF EdFields
  <2> QED
    BY <1>1, <1>6, <2>2
<1>7. CASE RawTab
  <2> DEFINE k == Closed(Rebuilt(ed.buffer.tree, Clamped(ed.cursor, CollectUnits(ed.buffer.tree))))
  <2>1. ed' = [k EXCEPT !.mode = "structural"]
    BY <1>7 DEF RawTab
  <2>2. k = [x \in EdFields |-> k[x]] /\ k.state = "navigating" /\ k.outcome = ed.outcome
    BY <1>1, RebuiltIs, ClosedIs
  <2> HIDE DEF k
  <2> QED
    BY <1>1, <2>1, <2>2 DEF EdFields
<1> QED
  BY <1>2, <1>3, <1>4, <1>5, <1>6, <1>7 DEF Steps

\* A key handed to the editor that counts as no change leaves document and text alone.
LEMMA ForwardLooks ==
    ASSUME FormIInv, Forward, touches' = 0, ~creating
    PROVE  /\ touches = 0 /\ ed'.root = ed.root
           /\ ed'.mode = "raw" => ed'.buffer = Text(TRUE, ed'.root)
<1>1. Sound(ed, host) /\ host = "form" /\ Steps /\ touches \in 0..MaxTouches
  BY DEF FormIInv, Forward, Form
<1>2. touches' # touches + 1
  <2>1. MaxTouches \in Nat
    BY FormAssumption
  <2> QED
    BY <1>1, <2>1
<1>3. /\ touches = 0 /\ ed'.root = ed.root
      /\ ~(ed'.buffer # ed.buffer /\ Editing' = Editing /\ ed'.mode = ed.mode)
  BY <1>2 DEF Forward, Touch
<1>4. ed = [x \in EdFields |-> ed[x]] /\ EditIsOfUnit(ed)
  BY <1>1 DEF Sound, Shaped
<1>5. CASE ToRaw
  <2>1. ed'.buffer = Text(TRUE, ed.root)
    BY <1>4, <1>5 DEF ToRaw, EdFields
  <2> QED
    BY <1>3, <2>1
<1>6. CASE Type /\ ed.mode = "raw"
  <2>1. \E x : ed' = [ed EXCEPT !.buffer = x]
    BY <1>6 DEF Type
  <2>2. ed'.mode = ed.mode /\ ed'.state = ed.state
    BY <1>4, <2>1 DEF EdFields
  <2>3. Editing' = Editing
    BY <2>2 DEF Editing
  <2>4. ed'.buffer = ed.buffer
    BY <1>3, <2>2, <2>3
  <2>5. ed.buffer = Text(TRUE, ed.root)
    BY <1>1, <1>3, <1>6 DEF FormIInv, Looked
  <2> QED
    BY <1>3, <2>4, <2>5
<1> QED
  BY <1>1, <1>3, <1>5, <1>6, StepsStay

Nth(S, k) == CHOOSE i \in S : Cardinality({j \in S : j <= i}) = k

\* A run list that is typed is read as it is, and a bullet alone as nothing.
LEMMA ParsedIs ==
    /\ \A ls \in RunLists : ParseRunList(ls) = ls
    /\ ParseRunList(<<Bullet>>) = <<>>
<1>1. ASSUME NEW ls \in RunLists PROVE ParseRunList(ls) = ls
  <2> DEFINE S == {ls[i] : i \in DOMAIN ls} \ {Bullet}
             n == Len(ls)
             entries == {i \in DOMAIN ls : ls[i] # Bullet}
  <2>1. ls \in Seq(S)
    BY FormAssumption
  <2> HIDE DEF S
  <2>2. n \in Nat /\ DOMAIN ls = 1..n /\ \A i \in 1..n : ls[i] \in S
    BY <2>1, LenProperties, ElementOfSeq
  <2>3. entries = 1..n
    BY <2>2 DEF S
  <2>4. Cardinality(1..n) = n
    <3>1. 1 \in Int /\ n \in Int /\ (1 > n => n = 0) /\ n - 1 + 1 = n
      BY <2>2
    <3> HIDE DEF n
    <3> QED
      BY <3>1, FS_Interval
  <2>5. ParseRunList(ls) = [k \in 1..Cardinality(entries) |-> ls[Nth(entries, k)]]
    BY DEF ParseRunList, Nth
  <2> HIDE DEF entries, n
  <2>6. ASSUME NEW k \in 1..n PROVE Nth(1..n, k) = k
    <3>1. ASSUME NEW i \in 1..n PROVE Cardinality({j \in 1..n : j <= i}) = i
      <4>1. {j \in 1..n : j <= i} = 1..i
        BY <2>2
      <4>2. 1 \in Int /\ i \in Int /\ ~(1 > i) /\ i - 1 + 1 = i
        BY <2>2
      <4>3. Cardinality(1..i) = i
        BY <4>2, FS_Interval
      <4> QED
        BY <4>1, <4>3
    <3>2. \A i \in 1..n : Cardinality({j \in 1..n : j <= i}) = k <=> i = k
      BY <3>1
    <3>3. (CHOOSE i \in 1..n : Cardinality({j \in 1..n : j <= i}) = k) = (CHOOSE i \in 1..n : i = k)
      BY <3>2
    <3> QED
      BY <3>3 DEF Nth
  <2>7. ParseRunList(ls) = [k \in 1..n |-> ls[Nth(1..n, k)]]
    BY <2>3, <2>4, <2>5
  <2>8. ParseRunList(ls) = [k \in 1..n |-> ls[k]]
    BY <2>6, <2>7
  <2>9. ls = [k \in DOMAIN ls |-> ls[k]]
    BY <2>1
  <2> QED
    BY <2>2, <2>8, <2>9
<1>2. ParseRunList(<<Bullet>>) = <<>>
  <2>1. {i \in DOMAIN <<Bullet>> : <<Bullet>>[i] # Bullet} = {}
    OBVIOUS
  <2>2. Cardinality({}) = 0
    BY FS_EmptySet
  <2>3. 1..0 = {}
    OBVIOUS
  <2> DEFINE e == {i \in DOMAIN <<Bullet>> : <<Bullet>>[i] # Bullet}
             f == [k \in 1..Cardinality(e) |-> <<Bullet>>[Nth(e, k)]]
  <2>4. ParseRunList(<<Bullet>>) = f
    BY DEF ParseRunList, Nth
  <2>5. 1..Cardinality(e) = {}
    BY <2>1, <2>2, <2>3
  <2> HIDE DEF e
  <2>6. f = [k \in {} |-> <<Bullet>>[Nth(e, k)]]
    BY <2>5
  <2>7. f = <<>>
    BY <2>6
  <2> QED
    BY <2>4, <2>7
<1> QED
  BY <1>1, <1>2

\* A form in which nothing was changed holds the node it was opened on.
LEMMA LookedValue ==
    ASSUME FormIInv, host = "form", ~creating, touches = 0
    PROVE  Value = orig.bags /\ orig.bags = FormSeed /\ NodeUnchanged(Value)
<1>1. /\ orig.bags = FormSeed /\ orig.runList \in RunLists
      /\ ed.root = orig.bags /\ (ed.mode = "raw" => ed.buffer = Text(TRUE, ed.root))
      /\ text = "old" /\ (lines = orig.runList \/ (orig.runList = <<>> /\ lines = <<Bullet>>))
  BY DEF FormIInv, Looked
<1>2. Value = orig.bags
  <2>1. ed.mode = "raw" => ed.buffer.tree = ed.root
    <3>1. Text(TRUE, ed.root).tree = ed.root
      BY TextIs
    <3> QED
      BY <1>1, <3>1
  <2> QED
    BY <1>1, <2>1 DEF Value
<1>3. ParseRunList(lines) = orig.runList
  BY <1>1, ParsedIs
<1> HIDE DEF Value
<1> QED
  BY <1>1, <1>2, <1>3 DEF NodeUnchanged

\* No key disturbs it.
LEMMA StepHolds == FormIInv /\ [Next]_vars => FormIInv'
<1> SUFFICES ASSUME FormIInv, [Next]_vars PROVE FormIInv'
  OBVIOUS
<1> DEFINE Plain ==
        /\ creating \in BOOLEAN /\ dived \in BOOLEAN /\ changed \in BOOLEAN
        /\ touches \in 0..MaxTouches /\ focus \in FocusText..FocusAttrs /\ formOutcome \in {"open", "saved", "aborted"}
<1>1. /\ host \in Hosts /\ Plain /\ Sound(ed, host) /\ EmbeddedNeverFinishes /\ Looked
  BY DEF FormIInv
<1>2. MaxTouches \in Nat
  BY FormAssumption
<1>3. host' = host /\ creating' = creating /\ orig' = orig
  BY DEF Next, FormNext, Move, TypeText, Dive, TypeRunList, Undive, Forward, Save, SaveRefused, Cancel, Alone,
         formVars, vars
<1>4. Plain'
  <2>1. CASE UNCHANGED vars
    BY <1>1, <2>1 DEF vars, formVars
  <2>2. CASE \E d \in {-1, 1} : Move(d)
    <3>1. PICK d \in {-1, 1} : Move(d)
      BY <2>2
    <3>2. focus' = (IF focus + d < 1 THEN 1 ELSE IF focus + d > 3 THEN 3 ELSE focus + d)
      BY <3>1 DEF Move, FocusOn, FocusText, FocusAttrs
    <3>3. focus \in 1..3
      BY <1>1 DEF FocusText, FocusAttrs
    <3>4. focus' \in 1..3
      BY <3>2, <3>3
    <3> QED
      BY <1>1, <3>1, <3>4 DEF Move, FocusOn, FocusText, FocusAttrs
  <2>3. CASE TypeText
    BY <1>1, <1>2, <2>3 DEF TypeText, Touch
  <2>4. CASE Dive
    BY <1>1, <2>4 DEF Dive
  <2>5. CASE TypeRunList
    BY <1>1, <1>2, <2>5 DEF TypeRunList, Touch
  <2>6. CASE Undive
    BY <1>1, <2>6 DEF Undive
  <2>7. CASE Forward
    <3>1. touches' = touches \/ (touches < MaxTouches /\ touches' = touches + 1)
      BY <2>7 DEF Forward, Touch
    <3>2. touches' \in 0..MaxTouches
      BY <1>1, <1>2, <3>1
    <3> QED
      BY <1>1, <2>7, <3>2 DEF Forward
  <2>8. CASE Save
    <3>1. changed' \in BOOLEAN
      BY <1>1, <2>8 DEF Save
    <3> QED
      BY <1>1, <2>8, <3>1 DEF Save
  <2>9. CASE SaveRefused
    <3>1. focus' \in FocusText..FocusAttrs /\ dived' = FALSE
      BY <1>1, <2>9 DEF SaveRefused, FocusOn, FocusText, FocusAttrs
    <3> QED
      BY <1>1, <2>9, <3>1 DEF SaveRefused
  <2>10. CASE Cancel
    BY <1>1, <2>10 DEF Cancel
  <2>11. CASE Alone
    BY <1>1, <2>11 DEF Alone, formVars
  <2> QED
    BY <2>1, <2>2, <2>3, <2>4, <2>5, <2>6, <2>7, <2>8, <2>9, <2>10, <2>11 DEF Next, FormNext
<1>5. Sound(ed', host) /\ (host = "form" => ed'.outcome = "open" /\ ed'.state # "preview")
  <2>1. CASE ed' = ed
    BY <1>1, <2>1 DEF EmbeddedNeverFinishes
  <2>2. CASE Forward
    <3>1. Steps /\ host = "form"
      BY <2>2 DEF Forward, Form
    <3>2. Sound(ed', host)
      BY <1>1, <3>1, StepsSound
    <3> QED
      BY <1>1, <3>1, <3>2, StepsStay DEF EmbeddedNeverFinishes
  <2>3. CASE Alone
    BY <1>1, <2>3, EditorNextSound DEF Alone
  <2>4. ed' = ed \/ Forward \/ Alone
    BY DEF Next, FormNext, Move, TypeText, Dive, TypeRunList, Undive, Save, SaveRefused, Cancel, vars
  <2> QED
    BY <2>1, <2>2, <2>3, <2>4
<1>6. Looked'
  <2> SUFFICES ASSUME host = "form", ~creating
               PROVE  /\ orig.bags = FormSeed /\ orig.runList \in RunLists
                      /\ touches' = 0 =>
                             /\ ed'.root = orig.bags /\ (ed'.mode = "raw" => ed'.buffer = Text(TRUE, ed'.root))
                             /\ text' = "old"
                             /\ lines' = orig.runList \/ (orig.runList = <<>> /\ lines' = <<Bullet>>)
                             /\ formOutcome' = "saved" => ~changed'
    BY <1>3 DEF Looked
  <2>1. orig.bags = FormSeed /\ orig.runList \in RunLists
    BY <1>1 DEF Looked
  <2> SUFFICES ASSUME touches' = 0
               PROVE  /\ ed'.root = orig.bags /\ (ed'.mode = "raw" => ed'.buffer = Text(TRUE, ed'.root))
                      /\ text' = "old"
                      /\ lines' = orig.runList \/ (orig.runList = <<>> /\ lines' = <<Bullet>>)
                      /\ formOutcome' = "saved" => ~changed'
    BY <2>1
  <2>2. touches' # touches + 1
    BY <1>1, <1>2
  <2>3. touches' = touches /\ touches = 0
    BY <2>2 DEF Next, FormNext, Move, TypeText, Dive, TypeRunList, Undive, Forward, Save, SaveRefused, Cancel, Alone,
         formVars, vars, Touch
  <2>4. /\ ed.root = orig.bags /\ (ed.mode = "raw" => ed.buffer = Text(TRUE, ed.root))
        /\ text = "old"
        /\ lines = orig.runList \/ (orig.runList = <<>> /\ lines = <<Bullet>>)
        /\ formOutcome = "saved" => ~changed
    BY <1>1, <2>3 DEF Looked
  <2>5. ~TypeText /\ ~TypeRunList /\ ~Alone
    BY <2>2 DEF TypeText, TypeRunList, Touch, Alone
  <2>6. CASE UNCHANGED vars \/ (\E d \in {-1, 1} : Move(d)) \/ Undive \/ SaveRefused
    <3>1. ed' = ed /\ text' = text /\ lines' = lines /\ formOutcome' = formOutcome /\ changed' = changed
      BY <2>6 DEF Move, Undive, SaveRefused, vars, formVars
    <3> QED
      BY <2>4, <3>1
  <2>7. CASE Cancel
    <3>1. ed' = ed /\ text' = text /\ lines' = lines /\ formOutcome' = "aborted"
      BY <2>7 DEF Cancel
    <3> QED
      BY <2>4, <3>1
  <2>8. CASE Dive
    <3>1. /\ ed' = ed /\ text' = text /\ formOutcome' = formOutcome /\ changed' = changed
          /\ lines' = IF focus = FocusRunList /\ lines = <<>> THEN <<Bullet>> ELSE lines
      BY <2>8 DEF Dive
    <3>2. <<Bullet>> # <<>>
      OBVIOUS
    <3> QED
      BY <2>4, <3>1, <3>2
  <2>9. CASE Save
    <3>1. ed' = ed /\ text' = text /\ lines' = lines /\ changed' = (creating \/ ~NodeUnchanged(Value))
      BY <2>9 DEF Save
    <3>2. NodeUnchanged(Value)
      BY <2>3, LookedValue
    <3> QED
      BY <2>4, <3>1, <3>2
  <2>10. CASE Forward
    <3>1. text' = text /\ lines' = lines /\ formOutcome' = formOutcome /\ changed' = changed
      BY <2>10 DEF Forward
    <3>2. /\ ed'.root = ed.root /\ (ed'.mode = "raw" => ed'.buffer = Text(TRUE, ed'.root))
      BY <2>10, ForwardLooks
    <3> QED
      BY <2>4, <3>1, <3>2
  <2> QED
    BY <2>5, <2>6, <2>7, <2>8, <2>9, <2>10 DEF Next, FormNext
<1>7. Sound(ed, host)' /\ EmbeddedNeverFinishes' /\ host' \in Hosts
  BY <1>1, <1>3, <1>5 DEF EmbeddedNeverFinishes
<1> QED
  BY <1>4, <1>6, <1>7 DEF FormIInv

-----------------------------------------------------------------------------
(* Theorems                                                                *)

\* Whoever runs the editor and whatever keys come, it shows a document with the cursor on
\* one of its units, edits what is under the cursor, and previews and commits what it
\* shows; a form in which nothing was changed still holds what was opened (jsoneditor,
\* nodeedit).
THEOREM EditorInvariant == Spec => []FormIInv
<1>1. FormIInv /\ [Next]_vars => FormIInv'
  BY StepHolds
<1> QED
  BY <1>1, InitHolds, PTL DEF Spec

\* Whoever runs the editor, every key finds a well-formed document, the cursor on one of
\* its units and, inside the form, an editor that is still open (rebuild, selected,
\* editPath, blockPath, forward).
THEOREM EditorIsSoundAlways == Spec => []EditorIsSound
<1>1. FormIInv => EditorIsSound
  <2> SUFFICES ASSUME FormIInv PROVE EditorIsSound
    OBVIOUS
  <2>1. Shaped(ed) /\ BufferIsText(ed) /\ CursorOn(ed) /\ EditIsOfUnit(ed)
    BY DEF FormIInv, Sound
  <2>2. TypeOK
    <3>1. ed.root = NoTree \/ IsTree(ed.root)
      BY <2>1, TreeOrGapless DEF Shaped
    <3>2. ed.buffer.tree = NoTree \/ IsTree(ed.buffer.tree)
      BY <2>1, TreeOrGapless DEF BufferIsText
    <3> QED
      BY <2>1, <3>1, <3>2 DEF FormIInv, TypeOK, EditorTypeOK, Shaped
  <2>3. CursorOnUnit
    <3> SUFFICES ASSUME ed.mode = "structural"
                 PROVE  /\ ed.root # NoTree /\ ed.units = CollectUnits(ed.root)
                        /\ ed.cursor < Cardinality(ed.units)
                        /\ Editing => ed.editing = Selected
      BY DEF CursorOnUnit
    <3>1. Gapless(ed.root) /\ ed.units = CollectUnits(ed.root) /\ ed.cursor < Cardinality(ed.units)
      BY <2>1 DEF CursorOn
    <3>2. Selected \in ed.units /\ Position(ed.units, Selected) = ed.cursor /\ Numbered(ed.units)
      BY <2>1, SelectedIs
    <3>3. Editing => ed.editing \in ed.units /\ Position(ed.units, ed.editing) = ed.cursor
      BY <2>1 DEF EditIsOfUnit, Editing
    <3>4. \A u, v \in ed.units : Position(ed.units, u) = Position(ed.units, v) => u = v
      BY <3>2 DEF Numbered
    <3>5. Editing => ed.editing = Selected
      BY <3>2, <3>3, <3>4
    <3> QED
      BY <3>1, <3>5, NoTreeIsNone
  <2> QED
    BY <2>2, <2>3 DEF FormIInv, EditorIsSound
<1> QED
  BY <1>1, EditorInvariant, PTL

\* What the user confirms is the document on the screen, and it passed the check of
\* whoever opened the editor (saveStructural, save, updatePreview).
THEOREM CommittedIsShownAlways == Spec => []CommittedIsShown
<1>1. FormIInv => CommittedIsShown
  BY DEF FormIInv, Sound, CommitIsShown, ShownIn, Passes, CommittedIsShown, Value, Validates
<1> QED
  BY <1>1, EditorInvariant, PTL

\* A node that was only looked at is saved and reported unchanged (nodeUnchanged,
\* runListText, parseRunList, attributesSeed).
THEOREM LookingIsNotEditingAlways == Spec => []LookingIsNotEditing
<1>1. FormIInv => LookingIsNotEditing
  <2> SUFFICES ASSUME FormIInv, host = "form", ~creating, touches = 0
               PROVE  (formOutcome = "saved" => ~changed) /\ Decodable(Value)
    BY DEF LookingIsNotEditing
  <2>1. Value = FormSeed
    BY LookedValue
  <2>2. Decodable(Value)
    BY <2>1, FormAssumption
  <2> QED
    BY <2>2 DEF FormIInv, Looked
<1> QED
  BY <1>1, EditorInvariant, PTL

\* The cursor put on the unit of a leaf that was added is what it selects, and without the
\* leaf there is the document of before.
LEMMA NewIsSelected ==
    ASSUME Shaped(ed), Gapless(ed.root), NEW at, Room(ed.root, at), NEW node,
           Gapless(InsertLeaf(ed.root, at, node)),
           NEW w \in CollectUnits(InsertLeaf(ed.root, at, node)), w.path = at,
           ed' = Rebuilt(InsertLeaf(ed.root, at, node), Position(CollectUnits(InsertLeaf(ed.root, at, node)), w))
    PROVE  LET u == CHOOSE u \in ed'.units : Position(ed'.units, u) = ed'.cursor
           IN  u.path \in DOMAIN ed'.root \ {<<>>} /\ DeleteAt(ed'.root, u.path) = ed.root
<1> DEFINE t == InsertLeaf(ed.root, at, node)
           units == CollectUnits(t)
           c == Position(units, w)
<1>1. at \in Paths /\ at # <<>>
  BY DEF Room
<1>2. DeleteAt(t, at) = ed.root
  BY <1>1, DeleteInserted
<1>3. Numbered(units) /\ w \in units
  BY UnitsNumbered
<1>4. at \in DOMAIN t
  BY UnitAt
<1> HIDE DEF t
<1>5. Rebuilt(t, c).root = t /\ Rebuilt(t, c).units = units /\ Rebuilt(t, c).cursor = c
  BY RebuiltIs
<1>6. ed' = Rebuilt(t, c)
  BY DEF t
<1>7. ed'.root = t /\ ed'.units = units /\ ed'.cursor = c
  BY <1>5, <1>6
<1> HIDE DEF units
<1>8. \A u \in units : Position(units, u) = c <=> u = w
  BY <1>3 DEF Numbered
<1> HIDE DEF c
<1>9. (CHOOSE u \in units : Position(units, u) = c) = w
  <2>1. (CHOOSE u \in units : Position(units, u) = c) = (CHOOSE u \in units : u = w)
    BY <1>8
  <2> QED
    BY <1>3, <2>1
<1> QED
  BY <1>1, <1>2, <1>4, <1>7, <1>9

\* A leaf has a unit, its key if it has one.
LEMMA LeafUnits ==
    ASSUME NEW t, Gapless(t), NEW at \in DOMAIN t, at # <<>>, NEW key, t[at] = Node("null", key)
    PROVE  /\ ValueUnit(t, at) = Unit(at, "scalar") /\ ValueUnit(t, at) \in CollectUnits(t)
           /\ key # NoKey => Unit(at, "key") \in CollectUnits(t)
<1>1. ValueUnit(t, at) \in CollectUnits(t)
  BY DEF CollectUnits
<1>2. t[at].kind = "null" /\ t[at].key = key
  BY DEF Node
<1>3. ValueUnit(t, at) = Unit(at, "scalar")
  BY <1>2 DEF ValueUnit, IsBlock, Blocks
<1>4. key # NoKey => HasKey(t, at)
  BY <1>2 DEF Gapless
<1>5. key # NoKey => Unit(at, "key") \in CollectUnits(t)
  BY <1>4 DEF CollectUnits
<1> QED
  BY <1>1, <1>3, <1>5

\* A node added, by the key or by opening an empty array, is the one selected next, and
\* taking it away again gives the document there was (addNode, enterArray).
THEOREM AddSelectsNewAlways == Spec => AddSelectsNew
<1> DEFINE Taken ==
        LET u == CHOOSE u \in ed'.units : Position(ed'.units, u) = ed'.cursor
        IN  u.path \in DOMAIN ed'.root \ {<<>>} /\ DeleteAt(ed'.root, u.path) = ed.root
<1>1. ASSUME Sound(ed, host), Add PROVE Taken
  <2> DEFINE at == NewPlace(ed.root, Selected)
             key == NewKey(ed.root, at)
             t == InsertLeaf(ed.root, at, Node("null", key))
             w == Unit(at, IF ed.root[Front(at)].kind = "object" THEN "key" ELSE "scalar")
  <2>1. Shaped(ed) /\ Gapless(ed.root)
    <3>1. Structural
      BY <1>1 DEF Add
    <3> QED
      BY <1>1, <3>1, StructuralIs
  <2>2. Room(ed.root, at) /\ Gapless(t) /\ ed' = Rebuilt(t, Position(CollectUnits(t), w))
    BY <1>1, AddIs
  <2>3. key # NoKey <=> ed.root[Front(at)].kind = "object"
    BY DEF NewKey, NoKey
  <2> HIDE DEF at, key
  <2>4. at \in DOMAIN t /\ at # <<>> /\ t[at] = Node("null", key)
    <3>1. IsInserted(t, ed.root, at, Node("null", key))
      BY <2>1, <2>2, InsertIs DEF Room, Gapless
    <3> QED
      BY <2>2, <3>1 DEF IsInserted, Room
  <2>5. w.path = at
    BY UnitIs
  <2> HIDE DEF t
  <2>6. w \in CollectUnits(t)
    BY <2>2, <2>3, <2>4, LeafUnits
  <2> HIDE DEF w, Taken
  <2> QED
    BY <2>1, <2>2, <2>5, <2>6, NewIsSelected DEF t, Taken
<1>2. ASSUME Sound(ed, host), EnterArray, Cardinality(DOMAIN ed'.root) = Cardinality(DOMAIN ed.root) + 1 PROVE Taken
  <2> DEFINE p == Selected.path
             first == Append(p, 1)
             t == InsertLeaf(ed.root, first, Node("null", NoKey))
             n == IF Kids(ed.root, p) = {} THEN t ELSE ed.root
             w == ValueUnit(n, first)
  <2>1. Shaped(ed) /\ Gapless(ed.root) /\ Selected \in CollectUnits(ed.root)
    <3>1. Structural
      BY <1>2 DEF EnterArray
    <3> QED
      BY <1>2, <3>1, StructuralIs
  <2>2. ed' = Rebuilt(n, Position(CollectUnits(n), w)) /\ ed.root[p].kind = "array"
    BY <1>2 DEF EnterArray, NullNode
  <2>3. n = t
    <3>1. ed'.root = n
      BY <2>1, <2>2, RebuiltIs
    <3>2. Cardinality(DOMAIN ed.root) \in Nat
      BY <2>1, FS_CardinalityType DEF Gapless
    <3>3. n # ed.root
      BY <1>2, <3>1, <3>2
    <3> QED
      BY <3>3
  <2>4. p \in DOMAIN ed.root
    BY <2>1, UnitAt
  <2>5. Room(ed.root, first) /\ ed.root[Front(first)].kind # "object"
    BY <2>1, <2>2, <2>4, FirstEntry
  <2> HIDE DEF n, first
  <2>6. Gapless(t)
    BY <2>1, <2>5, InsertKeepsGapless
  <2>7. first \in DOMAIN t /\ first # <<>> /\ t[first] = Node("null", NoKey)
    <3>1. IsInserted(t, ed.root, first, Node("null", NoKey))
      BY <2>1, <2>5, InsertIs DEF Room, Gapless
    <3> QED
      BY <2>5, <3>1 DEF IsInserted, Room
  <2> HIDE DEF t
  <2>8. w \in CollectUnits(t) /\ w.path = first
    BY <2>3, <2>6, <2>7, LeafUnits, UnitIs
  <2>9. ed' = Rebuilt(t, Position(CollectUnits(t), w))
    BY <2>2, <2>3
  <2> HIDE DEF w, Taken
  <2> QED
    BY <2>1, <2>5, <2>6, <2>8, <2>9, NewIsSelected DEF t, Taken
<1>3. FormIInv => [Cardinality(DOMAIN ed'.root) = Cardinality(DOMAIN ed.root) + 1 /\ (Add \/ EnterArray) => Taken]_<<host, ed>>
  BY <1>1, <1>2 DEF FormIInv
<1> QED
  BY <1>3, EditorInvariant, PTL DEF AddSelectsNew
=============================================================================
