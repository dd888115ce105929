--------------------------- MODULE ListingProofs ----------------------------
(***************************************************************************)
(* Proofs about Listing, for any keys, folders, renames and page sizes,    *)
(* any number of changes by other requests and any folding of case.        *)
(***************************************************************************)
EXTENDS Listing, FiniteSetTheorems, WellFoundedInduction, TLAPS

-----------------------------------------------------------------------------
(***************************************************************************)
(* The order of the keys                                                   *)
(***************************************************************************)

Path == Seq(Nat)

LEMMA KeysArePaths == Key \subseteq Path \ {<<>>} /\ Folder \subseteq Path
  BY ListingAssumption DEF Path

LEMMA SmallestNumber ==
    ASSUME NEW S \in SUBSET Nat, S # {}
    PROVE  \E m \in S : \A n \in S : m <= n
<1> DEFINE R == OpToRel(<, Nat)
<1>1. IsWellFoundedOn(R, Nat)
  BY NatLessThanWellFounded
<1>2. R = {ss \in Nat \X Nat : ss[1] < ss[2]}
  BY DEF OpToRel
<1> HIDE DEF R
<1>3. PICK m \in S : \A n \in S : ~(<<n, m>> \in R)
  BY <1>1, WFMin
<1>4. ASSUME NEW n \in S PROVE m <= n
  <2>1. <<n, m>> \in Nat \X Nat
    OBVIOUS
  <2>2. ~(n < m)
    BY <1>2, <1>3, <2>1
  <2> QED
    BY <2>2
<1> QED
  BY <1>4

LEMMA BeforeIrreflexive == \A k \in Path : ~Before(k, k)
  BY DEF Before, Path

LEMMA BeforeTransitive ==
    ASSUME NEW k \in Path, NEW l \in Path, NEW m \in Path,
           Before(k, l), Before(l, m)
    PROVE  Before(k, m)
<1>1. PICK a \in DOMAIN l : /\ \A j \in 1..(a-1) : j <= Len(k) /\ k[j] = l[j]
                            /\ a <= Len(k) => k[a] < l[a]
  BY DEF Before
<1>2. PICK b \in DOMAIN m : /\ \A j \in 1..(b-1) : j <= Len(l) /\ l[j] = m[j]
                            /\ b <= Len(l) => l[b] < m[b]
  BY DEF Before
<1>3. /\ a \in Nat /\ 1 <= a /\ a <= Len(l) /\ Len(l) \in Nat
      /\ b \in Nat /\ 1 <= b /\ b <= Len(m) /\ Len(m) \in Nat
      /\ Len(k) \in Nat
  BY DEF Path
<1>4. /\ \A j \in Nat : 1 <= j /\ j <= Len(k) => k[j] \in Nat
      /\ \A j \in Nat : 1 <= j /\ j <= Len(l) => l[j] \in Nat
      /\ \A j \in Nat : 1 <= j /\ j <= Len(m) => m[j] \in Nat
  <2>1. \A p \in Path : \A j \in Nat : 1 <= j /\ j <= Len(p) => p[j] \in Nat
    BY DEF Path
  <2> QED
    BY <2>1
<1>5. CASE a < b
  <2>1. a \in DOMAIN m
    BY <1>3, <1>5 DEF Path
  <2>2. l[a] = m[a] /\ \A j \in 1..(a-1) : l[j] = m[j]
    BY <1>2, <1>3, <1>5
  <2> QED
    BY <1>1, <2>1, <2>2 DEF Before
<1>6. CASE b <= a
  <2>1. \A j \in 1..(b-1) : j <= Len(k) /\ k[j] = m[j]
    BY <1>1, <1>2, <1>3, <1>6
  <2>2. b <= Len(k) => k[b] < m[b]
    <3>1. CASE a = b
      BY <1>1, <1>2, <1>3, <1>4, <3>1
    <3>2. CASE b < a
      BY <1>1, <1>2, <1>3, <1>4, <3>2
    <3> QED
      BY <1>3, <1>6, <3>1, <3>2
  <2> QED
    BY <2>1, <2>2 DEF Before
<1> QED
  BY <1>3, <1>5, <1>6

LEMMA BeforeTotal ==
    ASSUME NEW k \in Path, NEW l \in Path, k # l
    PROVE  Before(k, l) \/ Before(l, k)
<1> DEFINE D == {i \in Nat : 1 <= i /\ (i <= Len(k) /\ i <= Len(l) => k[i] # l[i])}
<1>1. Len(k) \in Nat /\ Len(l) \in Nat
  BY DEF Path
<1>2. Len(k) + 1 \in D
  BY <1>1
<1>3. PICK i \in D : \A j \in D : i <= j
  BY <1>2, SmallestNumber
<1>4. \A j \in 1..(i-1) : j <= Len(k) /\ j <= Len(l) /\ k[j] = l[j]
  BY <1>1, <1>3
<1>5. CASE i <= Len(k) /\ i <= Len(l)
  <2>1. k[i] \in Nat /\ l[i] \in Nat /\ k[i] # l[i]
    BY <1>1, <1>3, <1>5 DEF Path
  <2>2. i \in DOMAIN k /\ i \in DOMAIN l
    BY <1>1, <1>3, <1>5 DEF Path
  <2> QED
    BY <1>4, <2>1, <2>2 DEF Before
<1>6. CASE i <= Len(k) /\ i > Len(l)
  <2>1. i \in DOMAIN k
    BY <1>1, <1>3, <1>6 DEF Path
  <2> QED
    BY <1>1, <1>4, <1>6, <2>1 DEF Before
<1>7. CASE i > Len(k) /\ i <= Len(l)
  <2>1. i \in DOMAIN l
    BY <1>1, <1>3, <1>7 DEF Path
  <2> QED
    BY <1>1, <1>4, <1>7, <2>1 DEF Before
<1>8. CASE i > Len(k) /\ i > Len(l)
  <2>1. Len(k) = i - 1 /\ Len(l) = i - 1
    <3>1. Len(k) + 1 \in D /\ Len(l) + 1 \in D
      BY <1>1
    <3> QED
      BY <1>1, <1>3, <1>8, <3>1
  <2>2. \A j \in 1..Len(k) : k[j] = l[j]
    BY <1>4, <2>1
  <2> QED
    BY <1>1, <2>1, <2>2 DEF Path
<1> QED
  BY <1>1, <1>3, <1>5, <1>6, <1>7, <1>8

LEMMA EmptyIsFirst == \A k \in Path \ {<<>>} : Before(<<>>, k) /\ ~Before(k, <<>>)
<1> SUFFICES ASSUME NEW k \in Path \ {<<>>}
             PROVE  Before(<<>>, k) /\ ~Before(k, <<>>)
  OBVIOUS
<1>1. 1 \in DOMAIN k
  BY DEF Path
<1>2. Len(<<>>) = 0 /\ DOMAIN <<>> = {}
  OBVIOUS
<1>3. \A j \in 1..(1 - 1) : FALSE
  OBVIOUS
<1> QED
  BY <1>1, <1>2, <1>3 DEF Before

\* Two keys of a folder and the path between them.
LEMMA FolderOrder ==
    ASSUME NEW o \in Path, NEW f \in Path, NEW r \in Path, Len(o) = Len(f),
           IsPrefix(f, r), Before(o, r), o # f
    PROVE  Before(o, f)
<1>1. PICK a \in DOMAIN r : /\ \A j \in 1..(a-1) : j <= Len(o) /\ o[j] = r[j]
                            /\ a <= Len(o) => o[a] < r[a]
  BY DEF Before
<1>2. \A j \in 1..Len(f) : f[j] = r[j]
  <2> SUFFICES ASSUME NEW j \in 1..Len(f) PROVE f[j] = r[j]
    OBVIOUS
  <2>1. Len(f) <= Len(r) /\ SubSeq(f, 1, Len(f)) = SubSeq(r, 1, Len(f))
    BY DEF IsPrefix
  <2>2. SubSeq(f, 1, Len(f))[j] = f[j] /\ SubSeq(r, 1, Len(f))[j] = r[j]
    BY <2>1 DEF Path
  <2> QED
    BY <2>1, <2>2
<1>3. Len(o) \in Nat /\ a \in Nat /\ 1 <= a
  BY DEF Path
<1>4. CASE a <= Len(o)
  <2>1. a \in DOMAIN f
    BY <1>3, <1>4 DEF Path
  <2>2. \A j \in 1..(a-1) : o[j] = f[j]
    BY <1>1, <1>2, <1>3, <1>4
  <2> QED
    BY <1>1, <1>2, <1>3, <1>4, <2>1, <2>2 DEF Before
<1>5. CASE a > Len(o)
  <2>1. \A j \in 1..Len(o) : o[j] = f[j]
    BY <1>1, <1>2, <1>3, <1>5
  <2>2. /\ o = [j \in 1..Len(o) |-> o[j]]
        /\ f = [j \in 1..Len(o) |-> f[j]]
    BY DEF Path
  <2> QED
    BY <2>1, <2>2
<1> QED
  BY <1>3, <1>4, <1>5

LEMMA LongerIsLater ==
    ASSUME NEW f \in Path, NEW r \in Path, IsPrefix(f, r), Len(f) < Len(r)
    PROVE  Before(f, r)
<1>1. Len(f) \in Nat /\ Len(f) + 1 \in DOMAIN r
  BY DEF Path
<1>2. \A j \in 1..Len(f) : f[j] = r[j]
  <2> SUFFICES ASSUME NEW j \in 1..Len(f) PROVE f[j] = r[j]
    OBVIOUS
  <2>1. SubSeq(f, 1, Len(f)) = SubSeq(r, 1, Len(f))
    BY DEF IsPrefix
  <2>2. SubSeq(f, 1, Len(f))[j] = f[j] /\ SubSeq(r, 1, Len(f))[j] = r[j]
    BY DEF Path
  <2> QED
    BY <2>1, <2>2
<1> QED
  BY <1>1, <1>2 DEF Before

\* The path of a folder comes before what is in it.
LEMMA MarkerOrder ==
    ASSUME NEW f \in Path
    PROVE  /\ Marker(f) \in Path /\ Len(Marker(f)) = Len(f) + 1
           /\ Marker(f) # <<>> /\ Before(f, Marker(f))
           /\ \A r \in Path : IsPrefix(f, r) /\ Len(f) < Len(r) =>
                 Marker(f) = r \/ Before(Marker(f), r)
<1>1. PICK t : t = Marker(f)
  OBVIOUS
<1>2. /\ t \in Path /\ Len(t) = Len(f) + 1 /\ Len(f) \in Nat
      /\ t[Len(f) + 1] = 0 /\ \A j \in 1..Len(f) : t[j] = f[j]
  BY <1>1 DEF Marker, Path
<1>3. t # <<>>
  BY <1>2
<1>4. Before(f, t)
  <2>1. Len(f) + 1 \in DOMAIN t
    BY <1>2 DEF Path
  <2> QED
    BY <1>2, <2>1 DEF Before
<1>5. ASSUME NEW r \in Path, IsPrefix(f, r), Len(f) < Len(r), t # r
      PROVE  Before(t, r)
  <2>1. \A j \in 1..Len(f) : f[j] = r[j]
    <3> SUFFICES ASSUME NEW j \in 1..Len(f) PROVE f[j] = r[j]
      OBVIOUS
    <3>1. SubSeq(f, 1, Len(f)) = SubSeq(r, 1, Len(f))
      BY <1>5 DEF IsPrefix
    <3>2. SubSeq(f, 1, Len(f))[j] = f[j] /\ SubSeq(r, 1, Len(f))[j] = r[j]
      BY <1>5 DEF Path
    <3> QED
      BY <3>1, <3>2
  <2>2. Len(r) \in Nat /\ DOMAIN r = 1..Len(r) /\ Len(f) + 1 \in DOMAIN r
        /\ r[Len(f) + 1] \in Nat
    BY <1>2, <1>5 DEF Path
  <2>3. CASE r[Len(f) + 1] # 0
    BY <1>2, <2>1, <2>2, <2>3 DEF Before
  <2>4. CASE r[Len(f) + 1] = 0
    <3>1. \A j \in 1..Len(t) : t[j] = r[j]
      BY <1>2, <2>1, <2>4
    <3>2. CASE Len(r) = Len(t)
      <4>1. r = [j \in 1..Len(t) |-> r[j]] /\ t = [j \in 1..Len(t) |-> t[j]]
        BY <1>2, <3>2 DEF Path
      <4> QED
        BY <1>5, <3>1, <4>1
    <3>3. CASE Len(r) # Len(t)
      <4>1. Len(t) \in Nat /\ Len(t) + 1 <= Len(r)
        <5>1. PICK n \in Nat : n = Len(f)
          BY <1>2
        <5>2. PICK m \in Nat : m = Len(r)
          BY <2>2
        <5>3. Len(t) = n + 1 /\ n < m /\ m # n + 1
          BY <1>2, <1>5, <3>3, <5>1, <5>2
        <5> QED
          BY <5>2, <5>3
      <4>2. Len(t) + 1 \in DOMAIN r
        BY <2>2, <4>1
      <4> QED
        BY <3>1, <4>1, <4>2 DEF Before
    <3> QED
      BY <3>2, <3>3
  <2> QED
    BY <2>3, <2>4
<1> QED
  BY <1>1, <1>2, <1>3, <1>4, <1>5

LEMMA MarkersInOrder ==
    ASSUME NEW g \in Path, NEW f \in Path, Len(g) = Len(f), Before(g, f)
    PROVE  Before(Marker(g), Marker(f))
<1>1. PICK a \in DOMAIN f : /\ \A j \in 1..(a-1) : j <= Len(g) /\ g[j] = f[j]
                            /\ a <= Len(g) => g[a] < f[a]
  BY DEF Before
<1>2. a \in 1..Len(f) /\ Len(f) \in Nat
  BY DEF Path
<1>3. PICK s : s = Append(g, 0)
  OBVIOUS
<1>4. PICK t : t = Append(f, 0)
  OBVIOUS
<1>5. /\ Len(s) = Len(f) + 1 /\ \A j \in 1..Len(f) : s[j] = g[j]
      /\ Len(t) = Len(f) + 1 /\ \A j \in 1..Len(f) : t[j] = f[j]
      /\ DOMAIN t = 1..(Len(f) + 1)
  <2>1. \A p \in Seq(Nat) :
           /\ DOMAIN Append(p, 0) = 1..(Len(p) + 1)
           /\ Len(Append(p, 0)) = Len(p) + 1
           /\ \A j \in 1..Len(p) : Append(p, 0)[j] = p[j]
    OBVIOUS
  <2>2. g \in Seq(Nat) /\ f \in Seq(Nat)
    BY DEF Path
  <2> QED
    BY <1>3, <1>4, <2>1, <2>2
<1>6. a \in DOMAIN t /\ s[a] < t[a]
  BY <1>1, <1>2, <1>5
<1>7. \A j \in 1..(a-1) : j <= Len(s) /\ s[j] = t[j]
  BY <1>1, <1>2, <1>5
<1> QED
  BY <1>3, <1>4, <1>6, <1>7 DEF Before, Marker

-----------------------------------------------------------------------------
(***************************************************************************)
(* First and last of a set                                                 *)
(***************************************************************************)

LEMMA FirstIsFirst ==
    ASSUME NEW S \in SUBSET Path, IsFiniteSet(S), S # {}
    PROVE  First(S) \in S /\ \A j \in S : ~Before(j, First(S))
<1> DEFINE Below(k) == {j \in S : Before(j, k)}
           N == {Cardinality(Below(k)) : k \in S}
<1>1. \A k \in S : IsFiniteSet(Below(k)) /\ Cardinality(Below(k)) \in Nat
  <2> SUFFICES ASSUME NEW k \in S
               PROVE  IsFiniteSet(Below(k)) /\ Cardinality(Below(k)) \in Nat
    OBVIOUS
  <2>1. Below(k) \in SUBSET S
    OBVIOUS
  <2> HIDE DEF Below
  <2> QED
    BY <2>1, FS_Subset, FS_CardinalityType
<1>2. PICK m \in N : \A n \in N : m <= n
  <2>1. N \in SUBSET Nat /\ N # {}
    BY <1>1
  <2> HIDE DEF N
  <2> QED
    BY <2>1, SmallestNumber
<1>3. PICK k \in S : m = Cardinality(Below(k))
  BY <1>2
<1>4. ASSUME NEW j \in S, Before(j, k) PROVE FALSE
  <2>1. Below(j) \in SUBSET Below(k)
    BY <1>4, BeforeTransitive
  <2>2. j \in Below(k) /\ j \notin Below(j)
    BY <1>4, BeforeIrreflexive
  <2>3. m <= Cardinality(Below(j))
    BY <1>2
  <2> HIDE DEF Below
  <2>4. Cardinality(Below(j)) < Cardinality(Below(k))
    BY <1>1, <2>1, <2>2, FS_Subset
  <2> QED
    BY <1>1, <1>3, <2>3, <2>4
<1> QED
  BY <1>4 DEF First

LEMMA HighestIsLast ==
    ASSUME NEW S \in SUBSET Path, IsFiniteSet(S), S # {}
    PROVE  Highest(S) \in S /\ \A j \in S : ~Before(Highest(S), j)
<1> DEFINE Above(k) == {j \in S : Before(k, j)}
           N == {Cardinality(Above(k)) : k \in S}
<1>1. \A k \in S : IsFiniteSet(Above(k)) /\ Cardinality(Above(k)) \in Nat
  <2> SUFFICES ASSUME NEW k \in S
               PROVE  IsFiniteSet(Above(k)) /\ Cardinality(Above(k)) \in Nat
    OBVIOUS
  <2>1. Above(k) \in SUBSET S
    OBVIOUS
  <2> HIDE DEF Above
  <2> QED
    BY <2>1, FS_Subset, FS_CardinalityType
<1>2. PICK m \in N : \A n \in N : m <= n
  <2>1. N \in SUBSET Nat /\ N # {}
    BY <1>1
  <2> HIDE DEF N
  <2> QED
    BY <2>1, SmallestNumber
<1>3. PICK k \in S : m = Cardinality(Above(k))
  BY <1>2
<1>4. ASSUME NEW j \in S, Before(k, j) PROVE FALSE
  <2>1. Above(j) \in SUBSET Above(k)
    BY <1>4, BeforeTransitive
  <2>2. j \in Above(k) /\ j \notin Above(j)
    BY <1>4, BeforeIrreflexive
  <2>3. m <= Cardinality(Above(j))
    BY <1>2
  <2> HIDE DEF Above
  <2>4. Cardinality(Above(j)) < Cardinality(Above(k))
    BY <1>1, <2>1, <2>2, FS_Subset
  <2> QED
    BY <1>1, <1>3, <2>3, <2>4
<1> QED
  BY <1>4 DEF Highest

\* What the n first of a set are.
LEMMA LowestAreFirst ==
    ASSUME NEW S \in SUBSET Path, IsFiniteSet(S), NEW n \in Nat
    PROVE  /\ Lowest(S, n) \subseteq S
           /\ \A k \in Lowest(S, n), j \in S : Before(j, k) => j \in Lowest(S, n)
           /\ Cardinality(S) <= n => Lowest(S, n) = S
           /\ Cardinality(Lowest(S, n)) < n => Lowest(S, n) = S
           /\ n > 0 /\ S # {} => Lowest(S, n) # {}
<1> DEFINE Below(k) == {j \in S : Before(j, k)}
<1>1. Lowest(S, n) = {k \in S : Cardinality(Below(k)) < n}
  BY DEF Lowest
<1>2. ASSUME NEW k \in S
      PROVE  /\ Below(k) \in SUBSET S /\ IsFiniteSet(Below(k))
             /\ Cardinality(Below(k)) \in Nat
             /\ Cardinality(Below(k)) < Cardinality(S)
  <2>1. Below(k) \in SUBSET S /\ k \notin Below(k)
    BY BeforeIrreflexive
  <2> HIDE DEF Below
  <2> QED
    BY <2>1, FS_Subset, FS_CardinalityType
<1>3. ASSUME NEW k \in Lowest(S, n), NEW j \in S, Before(j, k)
      PROVE  j \in Lowest(S, n)
  <2>1. Below(j) \in SUBSET Below(k) /\ k \in S
    BY <1>1, <1>3, BeforeTransitive
  <2> HIDE DEF Below
  <2>2. Cardinality(Below(j)) <= Cardinality(Below(k))
    BY <1>2, <2>1, FS_Subset
  <2> QED
    BY <1>1, <1>2, <1>3, <2>1, <2>2
<1>4. Cardinality(S) \in Nat
  BY FS_CardinalityType
<1>5. Cardinality(S) <= n => Lowest(S, n) = S
  <2> HIDE DEF Below
  <2> QED
    BY <1>1, <1>2, <1>4
<1>6. ASSUME Cardinality(Lowest(S, n)) < n, Lowest(S, n) # S PROVE FALSE
  <2>1. PICK R \in SUBSET S : R = S \ Lowest(S, n)
    OBVIOUS
  <2>2. IsFiniteSet(R) /\ R # {} /\ R \in SUBSET Path
    BY <1>1, <1>6, <2>1, FS_Subset
  <2>3. PICK k \in R : \A j \in R : ~Before(j, k)
    BY <2>2, FirstIsFirst
  <2>4. Below(k) \in SUBSET Lowest(S, n) /\ k \in S
    BY <2>1, <2>3
  <2>5. IsFiniteSet(Lowest(S, n))
    BY <1>1, FS_Subset
  <2> HIDE DEF Below
  <2>6. ~(Cardinality(Below(k)) < n)
    BY <1>1, <2>1, <2>4
  <2>7. Cardinality(Below(k)) <= Cardinality(Lowest(S, n))
        /\ Cardinality(Lowest(S, n)) \in Nat
    BY <2>4, <2>5, FS_Subset, FS_CardinalityType
  <2> QED
    BY <1>2, <1>6, <2>4, <2>6, <2>7
<1>7. ASSUME n > 0, S # {} PROVE Lowest(S, n) # {}
  <2>1. PICK k \in S : \A j \in S : ~Before(j, k)
    BY <1>7, FirstIsFirst
  <2>2. Below(k) = {}
    BY <2>1
  <2>3. Cardinality(Below(k)) = 0
    BY <2>2, FS_EmptySet
  <2> HIDE DEF Below
  <2> QED
    BY <1>1, <1>7, <2>3
<1> QED
  BY <1>1, <1>3, <1>5, <1>6, <1>7

LEMMA LowestAreFinite ==
    ASSUME NEW S \in SUBSET Path, IsFiniteSet(S), NEW n \in Nat
    PROVE  IsFiniteSet(Lowest(S, n))
  BY LowestAreFirst, FS_Subset

\* What is left out comes after what is taken.
LEMMA RestIsLater ==
    ASSUME NEW S \in SUBSET Path, IsFiniteSet(S), NEW n \in Nat,
           NEW k \in S \ Lowest(S, n), NEW j \in Lowest(S, n)
    PROVE  Before(j, k)
<1>1. j \in S /\ j # k
  BY LowestAreFirst
<1>2. ~Before(k, j)
  BY LowestAreFirst
<1> QED
  BY <1>1, <1>2, BeforeTotal

-----------------------------------------------------------------------------
(***************************************************************************)
(* Entries and pages                                                       *)
(***************************************************************************)

LEMMA JobParts ==
    ASSUME job \in Job
    PROVE  /\ job.prefix \in Path /\ job.delim \in BOOLEAN /\ job.whole \in BOOLEAN
           /\ job.size \in Nat /\ job.size > 0
           /\ job.token \in Path /\ job.cursor \in Path
           /\ job.rows \in SUBSET Key /\ job.todo \in SUBSET Key
<1>1. /\ job.prefix \in Folder \cup Key /\ job.delim \in BOOLEAN
      /\ job.whole \in BOOLEAN /\ job.size \in PageSizes
      /\ job.token \in Seq(Nat) /\ job.cursor \in Seq(Nat)
      /\ job.rows \in SUBSET Key /\ job.todo \in SUBSET Key
  BY DEF Job
<1>2. job.prefix \in Path /\ job.token \in Path /\ job.cursor \in Path
  BY <1>1, KeysArePaths DEF Path
<1>3. job.size \in Nat /\ job.size > 0
  <2>1. PICK n \in PageSizes : n = job.size
    BY <1>1
  <2>2. n \in Nat /\ n # 0
    BY ListingAssumption
  <2> QED
    BY <2>1, <2>2
<1> QED
  BY <1>1, <1>2, <1>3

\* The rows of a page in the making.
Listed(rows) ==
    /\ rows \in SUBSET Key /\ IsFiniteSet(rows)
    /\ \A k \in rows : Len(job.prefix) < Len(k)

LEMMA FoldersArePaths ==
    ASSUME job \in Job, NEW k \in Key, Len(job.prefix) < Len(k)
    PROVE  FolderOf(k) \in Path /\ Len(FolderOf(k)) = Len(job.prefix) + 1
<1>1. k \in Path /\ job.prefix \in Path
  BY JobParts, KeysArePaths
<1>2. PICK p \in Seq(Nat) : p = job.prefix
  BY <1>1 DEF Path
<1>3. k[Len(p) + 1] \in Nat
  BY <1>1, <1>2 DEF Path
<1>4. PICK x \in Nat : x = k[Len(p) + 1]
  BY <1>3
<1>5. Append(p, x) \in Seq(Nat) /\ Len(Append(p, x)) = Len(p) + 1
  OBVIOUS
<1> QED
  BY <1>2, <1>4, <1>5 DEF FolderOf, Path

LEMMA EntriesAreFinite ==
    ASSUME job \in Job, NEW rows, Listed(rows)
    PROVE  /\ Objects(rows) \in SUBSET rows /\ IsFiniteSet(Objects(rows))
           /\ IsFiniteSet(Folders(rows)) /\ Folders(rows) \in SUBSET Path
           /\ Cardinality(Objects(rows)) \in Nat /\ Cardinality(Folders(rows)) \in Nat
           /\ Entries(rows) = Cardinality(Objects(rows)) + Cardinality(Folders(rows))
<1>1. Objects(rows) \in SUBSET rows /\ IsFiniteSet(Objects(rows))
  BY FS_Subset DEF Objects, Listed
<1>2. PICK deep : deep = rows \ Objects(rows)
  OBVIOUS
<1>3. deep \in SUBSET rows /\ IsFiniteSet(deep)
  BY <1>2, FS_Subset DEF Listed
<1>4. PICK f : f = [k \in deep |-> FolderOf(k)]
  OBVIOUS
<1>5. f \in Surjection(deep, Folders(rows))
  BY <1>2, <1>4 DEF Surjection, Folders
<1>6. IsFiniteSet(Folders(rows))
  BY <1>3, <1>5, FS_Surjection
<1>7. Folders(rows) \in SUBSET Path
  BY FoldersArePaths DEF Folders, Listed
<1> QED
  BY <1>1, <1>6, <1>7, FS_CardinalityType DEF Entries

LEMMA MoreRowsMoreEntries ==
    ASSUME job \in Job, NEW rows, NEW less, Listed(rows), less \subseteq rows
    PROVE  /\ Listed(less)
           /\ Entries(less) \in Nat /\ Entries(rows) \in Nat
           /\ Entries(less) <= Entries(rows)
<1>1. Listed(less)
  BY FS_Subset DEF Listed
<1>2. Objects(less) \in SUBSET Objects(rows) /\ Folders(less) \in SUBSET Folders(rows)
  BY DEF Objects, Folders
<1>3. /\ Cardinality(Objects(less)) <= Cardinality(Objects(rows))
      /\ Cardinality(Folders(less)) <= Cardinality(Folders(rows))
  BY <1>2, EntriesAreFinite, FS_Subset
<1> QED
  BY <1>1, <1>3, EntriesAreFinite

LEMMA PlainEntries ==
    ASSUME job \in Job, NEW rows, Listed(rows), ~job.delim
    PROVE  Objects(rows) = rows /\ Entries(rows) = Cardinality(rows)
<1>1. Objects(rows) = rows
  BY DEF Objects, Direct
<1>2. Folders(rows) = {}
  BY <1>1 DEF Folders
<1>3. Cardinality(rows) \in Nat
  BY FS_CardinalityType DEF Listed
<1> QED
  BY <1>1, <1>2, <1>3, FS_EmptySet DEF Entries

LEMMA RowOfIsRow ==
    ASSUME job \in Job, NEW rows, Listed(rows), NEW f \in Folders(rows)
    PROVE  /\ RowOf(rows, f) \in rows \ Objects(rows)
           /\ FolderOf(RowOf(rows, f)) = f
<1>1. PICK S : S = {k \in rows \ Objects(rows) : FolderOf(k) = f}
  OBVIOUS
<1>2. S \in SUBSET rows /\ S # {} /\ IsFiniteSet(S)
  BY <1>1, FS_Subset DEF Folders, Listed
<1>3. S \in SUBSET Path
  BY <1>2, KeysArePaths DEF Listed
<1>4. First(S) \in S
  BY <1>2, <1>3, FirstIsFirst
<1> QED
  BY <1>1, <1>4 DEF RowOf

LEMMA FirstFoldersAreSome ==
    ASSUME job \in Job, NEW rows, Listed(rows), NEW n \in Nat
    PROVE  /\ FirstFolders(rows, n) \subseteq Folders(rows)
           /\ n > 0 /\ Folders(rows) # {} => FirstFolders(rows, n) # {}
<1>1. FirstFolders(rows, n) \subseteq Folders(rows)
  BY DEF FirstFolders
<1>2. ASSUME n > 0, Folders(rows) # {} PROVE FirstFolders(rows, n) # {}
  <2>1. PICK R : R = {RowOf(rows, f) : f \in Folders(rows)}
    OBVIOUS
  <2>2. R \in SUBSET rows /\ R # {}
    BY <1>2, <2>1, RowOfIsRow
  <2>3. IsFiniteSet(R) /\ R \in SUBSET Path
    BY <2>2, FS_Subset, KeysArePaths DEF Listed
  <2>4. PICK r \in R : \A j \in R : ~Before(j, r)
    BY <2>2, <2>3, FirstIsFirst
  <2>5. PICK f \in Folders(rows) : r = RowOf(rows, f)
    BY <2>1
  <2>6. {g \in Folders(rows) : Before(RowOf(rows, g), RowOf(rows, f))} = {}
    BY <2>1, <2>4, <2>5
  <2>7. f \in FirstFolders(rows, n)
    BY <1>2, <2>6, FS_EmptySet DEF FirstFolders
  <2> QED
    BY <2>7
<1> QED
  BY <1>1, <1>2

LEMMA LastFolderIsOne ==
    ASSUME job \in Job, NEW rows, Listed(rows),
           NEW folders \in SUBSET Folders(rows), folders # {}
    PROVE  LastFolder(rows, folders) \in folders
<1>1. PICK R : R = {RowOf(rows, f) : f \in folders}
  OBVIOUS
<1>2. R \in SUBSET rows /\ R # {}
  BY <1>1, RowOfIsRow
<1>3. IsFiniteSet(R) /\ R \in SUBSET Path
  BY <1>2, FS_Subset, KeysArePaths DEF Listed
<1>4. PICK r \in R : \A j \in R : ~Before(r, j)
  BY <1>2, <1>3, HighestIsLast
<1>5. PICK f \in folders : r = RowOf(rows, f)
  BY <1>1
<1>6. \A g \in folders : ~Before(RowOf(rows, f), RowOf(rows, g))
  BY <1>1, <1>4, <1>5
<1> QED
  BY <1>6 DEF LastFolder

\* What a page holds and where the next one starts: there is none, or it starts
\* after the last object, or, if no object is in the rows, behind the path of a
\* folder.
Answer(rows) ==
    /\ Page(rows).objects \in SUBSET Objects(rows)
    /\ Page(rows).folders \in SUBSET Folders(rows)
    /\ \/ /\ Page(rows).token = <<>>
          /\ Entries(rows) <= job.size
          /\ Page(rows).objects = Objects(rows)
       \/ /\ Page(rows).token \in Page(rows).objects
          /\ Entries(rows) > job.size
          /\ \A k \in Page(rows).objects : ~Before(Page(rows).token, k)
          /\ \A k \in Objects(rows) :
                k \in Page(rows).objects \/ Before(Page(rows).token, k)
       \/ /\ \E f \in Folders(rows) : Page(rows).token = Marker(f)
          /\ Entries(rows) > job.size
          /\ Objects(rows) = {}

LEMMA PageAnswers ==
    ASSUME job \in Job, NEW rows, Listed(rows) PROVE Answer(rows)
<1>1. job.size \in Nat /\ job.size > 0
  BY JobParts
<1>2. /\ Objects(rows) \in SUBSET Path /\ IsFiniteSet(Objects(rows))
      /\ Cardinality(Objects(rows)) \in Nat /\ Cardinality(Folders(rows)) \in Nat
      /\ IsFiniteSet(Folders(rows))
      /\ Entries(rows) = Cardinality(Objects(rows)) + Cardinality(Folders(rows))
  BY EntriesAreFinite, KeysArePaths DEF Listed
<1>3. PICK objects : objects = Lowest(Objects(rows), job.size)
  OBVIOUS
<1>4. PICK folders : folders = FirstFolders(rows, job.size - Cardinality(objects))
  OBVIOUS
<1>5. /\ Page(rows).objects = objects
      /\ Page(rows).folders = folders
      /\ Page(rows).token = IF Entries(rows) <= job.size THEN <<>>
                            ELSE IF objects # {} THEN Highest(objects)
                            ELSE Marker(LastFolder(rows, folders))
  BY <1>3, <1>4 DEF Page
<1>6. objects \in SUBSET Objects(rows) /\ IsFiniteSet(objects) /\ objects \in SUBSET Path
  BY <1>1, <1>2, <1>3, LowestAreFirst, LowestAreFinite
<1>7. folders \in SUBSET Folders(rows)
  BY <1>4 DEF FirstFolders
<1>8. CASE Entries(rows) <= job.size
  <2>1. Cardinality(Objects(rows)) <= job.size
    BY <1>1, <1>2, <1>8
  <2>2. objects = Objects(rows)
    BY <1>1, <1>2, <1>3, <2>1, LowestAreFirst
  <2> QED
    BY <1>5, <1>6, <1>7, <1>8, <2>2 DEF Answer
<1>9. CASE Entries(rows) > job.size /\ objects # {}
  <2>1. Page(rows).token = Highest(objects)
    BY <1>1, <1>2, <1>5, <1>9
  <2>2. Highest(objects) \in objects /\ \A k \in objects : ~Before(Highest(objects), k)
    BY <1>6, <1>9, HighestIsLast
  <2>3. \A k \in Objects(rows) : k \in objects \/ Before(Highest(objects), k)
    BY <1>1, <1>2, <1>3, <2>2, RestIsLater
  <2> QED
    BY <1>5, <1>6, <1>7, <1>9, <2>1, <2>2, <2>3 DEF Answer
<1>10. CASE Entries(rows) > job.size /\ objects = {}
  <2>1. Objects(rows) = {}
    BY <1>1, <1>2, <1>3, <1>10, LowestAreFirst
  <2>2. Cardinality(objects) = 0 /\ Cardinality(Objects(rows)) = 0
    BY <1>10, <2>1, FS_EmptySet
  <2>3. Folders(rows) # {}
    BY <1>1, <1>2, <1>10, <2>2, FS_EmptySet
  <2>4. folders # {}
    <3>1. job.size - Cardinality(objects) = job.size
      BY <1>1, <2>2
    <3> QED
      BY <1>1, <1>4, <2>3, <3>1, FirstFoldersAreSome
  <2>5. Page(rows).token = Marker(LastFolder(rows, folders))
    BY <1>1, <1>2, <1>5, <1>10
  <2>6. \E f \in Folders(rows) : Page(rows).token = Marker(f)
    BY <1>7, <2>4, <2>5, LastFolderIsOne
  <2> QED
    BY <1>5, <1>6, <1>7, <1>10, <2>1, <2>6 DEF Answer
<1> QED
  BY <1>1, <1>2, <1>8, <1>9, <1>10

-----------------------------------------------------------------------------
(***************************************************************************)
(* Types, and what a job is like at each point                             *)
(***************************************************************************)

Asked ==
    /\ job.kind # "rename" => job.whole
    /\ job.kind # "list" => ~job.delim
    /\ job.whole => job.prefix \in Folder
    /\ job.kind = "rename" =>
          \E m \in Moves : /\ m.whole = job.whole
                           /\ m.from = job.prefix /\ m.to = job.to
                           /\ m.whole => m.from # m.to

Reading ==
    /\ job.whole /\ IsFiniteSet(job.rows)
    /\ \A k \in job.rows : Like(job.prefix, k) /\ Before(job.token, k)
    /\ job.pc = "scan" =>
          /\ ~Before(job.cursor, job.token)
          /\ \A k \in job.rows : ~Before(job.cursor, k)
          /\ ~job.delim => job.rows = {} /\ job.cursor = job.token

Working ==
    /\ job.todo # {} /\ IsFiniteSet(job.todo)
    /\ job.whole => \A k \in job.todo : Like(job.prefix, k)
    /\ ~job.whole => job.todo = {job.prefix} /\ job.token = <<>>
    /\ job.kind = IF job.pc = "delete" THEN "delete" ELSE "rename"
    /\ job.pc = "cleanup" => job.key \in job.todo

JobSound ==
    job # Idle =>
       /\ Asked
       /\ job.pc \in {"scan", "page"} => Reading
       /\ job.pc \in {"delete", "copy", "cleanup"} => Working

TypeInv == TypeOK /\ IsFiniteSet(DOMAIN store) /\ JobSound

LEMMA LikeIsLonger ==
    ASSUME NEW p, NEW k, Like(p, k) PROVE Len(p) < Len(k)
  BY DEF Like

LEMMA IdleHasNoWork ==
    ASSUME TypeOK, job.pc # "idle" PROVE job # Idle /\ job \in Job
  BY DEF TypeOK, Idle

LEMMA JobIsBusy ==
    ASSUME job \in Job PROVE job.pc # "idle" /\ job # Idle
<1>1. job.pc # "idle"
  BY DEF Job
<1> QED
  BY <1>1 DEF Idle

\* A batch of rows, and the part of it that is taken.
Ahead == {k \in DOMAIN store : Like(job.prefix, k) /\ Before(job.cursor, k)}

Batch == Rows(job.prefix, job.cursor, job.size + 1)

Taken == {k \in Batch :
            Entries(job.rows \cup {j \in Batch : Before(j, k)}) <= job.size}

LEMMA ScanReads ==
    ASSUME TypeInv, job.pc = "scan"
    PROVE  /\ Ahead \in SUBSET Key /\ IsFiniteSet(Ahead)
           /\ Batch \in SUBSET Ahead /\ IsFiniteSet(Batch)
           /\ Taken \in SUBSET Batch /\ Listed(job.rows \cup Taken)
           /\ \A k \in Taken, j \in Ahead : Before(j, k) => j \in Taken
           /\ \A k \in Ahead \ Batch, j \in Batch : Before(j, k)
           /\ Taken # Batch => Entries(job.rows \cup Taken) > job.size
           /\ Batch = {} => Ahead = {}
           /\ \/ job.delim \/ Taken = Ahead
              \/ Entries(job.rows \cup Taken) > job.size
<1>1. job \in Job /\ Reading
  BY IdleHasNoWork DEF TypeInv, JobSound
<1>2. job.size \in Nat /\ job.size > 0 /\ job.size + 1 \in Nat /\ job.rows \in SUBSET Key
  BY <1>1, JobParts
<1>3. Ahead \in SUBSET Key /\ IsFiniteSet(Ahead) /\ Ahead \in SUBSET Path
  <2>1. DOMAIN store \in SUBSET Key /\ IsFiniteSet(DOMAIN store)
    BY DEF TypeInv, TypeOK
  <2>2. Ahead \in SUBSET DOMAIN store
    BY DEF Ahead
  <2> QED
    BY <2>1, <2>2, FS_Subset, KeysArePaths
<1>4. Batch = Lowest(Ahead, job.size + 1)
  BY DEF Batch, Ahead, Rows
<1>5. /\ Batch \in SUBSET Ahead /\ IsFiniteSet(Batch)
      /\ \A k \in Batch, j \in Ahead : Before(j, k) => j \in Batch
      /\ Batch = {} => Ahead = {}
      /\ Cardinality(Batch) < job.size + 1 => Batch = Ahead
      /\ Cardinality(Batch) \in Nat
  <2>1. /\ Batch \in SUBSET Ahead
        /\ \A k \in Batch, j \in Ahead : Before(j, k) => j \in Batch
        /\ Batch = {} => Ahead = {}
        /\ Cardinality(Batch) < job.size + 1 => Batch = Ahead
    BY <1>2, <1>3, <1>4, LowestAreFirst
  <2>2. IsFiniteSet(Batch)
    BY <1>3, <2>1, FS_Subset
  <2> QED
    BY <2>1, <2>2, FS_CardinalityType
<1>6. \A k \in Ahead \ Batch, j \in Batch : Before(j, k)
  BY <1>2, <1>3, <1>4, RestIsLater
<1>7. Taken \in SUBSET Batch
  BY DEF Taken
<1>8. Listed(job.rows \cup Batch)
  <2>1. IsFiniteSet(job.rows \cup Batch)
    BY <1>1, <1>5, FS_Union DEF Reading
  <2>2. \A k \in job.rows \cup Batch : Like(job.prefix, k)
    BY <1>1, <1>5 DEF Reading, Ahead
  <2> QED
    BY <1>2, <1>3, <1>5, <2>1, <2>2, LikeIsLonger DEF Listed
<1>9. Listed(job.rows \cup Taken)
  <2>1. job.rows \cup Taken \subseteq job.rows \cup Batch
    BY <1>7
  <2> QED
    BY <1>1, <1>8, <2>1, MoreRowsMoreEntries
<1>10. ASSUME NEW k \in Taken, NEW j \in Ahead, Before(j, k) PROVE j \in Taken
  <2>1. j \in Batch /\ k \in Batch
    BY <1>5, <1>7, <1>10
  <2>2. PICK less : less = job.rows \cup {i \in Batch : Before(i, j)}
    OBVIOUS
  <2>3. PICK more : more = job.rows \cup {i \in Batch : Before(i, k)}
    OBVIOUS
  <2>4. less \subseteq more
    <3>1. ASSUME NEW i \in Batch, Before(i, j) PROVE Before(i, k)
      BY <1>3, <1>5, <1>10, <2>1, <3>1, BeforeTransitive
    <3> QED
      BY <2>2, <2>3, <3>1
  <2>5. Listed(more)
    <3>1. more \subseteq job.rows \cup Batch
      BY <2>3
    <3> QED
      BY <1>1, <1>8, <3>1, MoreRowsMoreEntries
  <2>6. Entries(less) <= Entries(more) /\ Entries(less) \in Nat /\ Entries(more) \in Nat
    BY <1>1, <2>4, <2>5, MoreRowsMoreEntries
  <2>7. Entries(more) <= job.size
    BY <1>10, <2>3 DEF Taken
  <2> QED
    BY <1>2, <2>1, <2>2, <2>6, <2>7 DEF Taken
<1>11. ASSUME Taken # Batch PROVE Entries(job.rows \cup Taken) > job.size
  <2>1. PICK rest : rest = Batch \ Taken
    OBVIOUS
  <2>2. rest \in SUBSET Path /\ IsFiniteSet(rest) /\ rest # {}
    BY <1>3, <1>5, <1>7, <1>11, <2>1, FS_Subset
  <2>3. PICK k \in rest : \A j \in rest : ~Before(j, k)
    BY <2>2, FirstIsFirst
  <2>4. PICK less : less = job.rows \cup {j \in Batch : Before(j, k)}
    OBVIOUS
  <2>5. less \subseteq job.rows \cup Taken
    BY <2>1, <2>3, <2>4
  <2>6. /\ Entries(less) <= Entries(job.rows \cup Taken)
        /\ Entries(less) \in Nat /\ Entries(job.rows \cup Taken) \in Nat
    BY <1>1, <1>9, <2>5, MoreRowsMoreEntries
  <2>7. ~(Entries(less) <= job.size)
    BY <2>1, <2>3, <2>4 DEF Taken
  <2> QED
    BY <1>2, <2>6, <2>7
<1>12. \/ job.delim \/ Taken = Ahead
       \/ Entries(job.rows \cup Taken) > job.size
  <2>1. SUFFICES ASSUME ~job.delim, Taken = Batch, Batch # Ahead
                 PROVE  Entries(job.rows \cup Taken) > job.size
    BY <1>11
  <2>2. job.rows \cup Taken = Batch
    BY <1>1, <2>1 DEF Reading
  <2>3. Entries(job.rows \cup Taken) = Cardinality(Batch)
    BY <1>1, <1>9, <2>1, <2>2, PlainEntries
  <2> QED
    BY <1>2, <1>5, <2>1, <2>3
<1> QED
  BY <1>3, <1>5, <1>6, <1>7, <1>9, <1>10, <1>11, <1>12

-----------------------------------------------------------------------------
(***************************************************************************)
(* What the steps of a job do                                              *)
(***************************************************************************)

\* The request stays the one that was made.
SameRequest ==
    /\ job' \in Job /\ job'.kind = job.kind /\ job'.prefix = job.prefix
    /\ job'.whole = job.whole /\ job'.to = job.to /\ job'.delim = job.delim
    /\ job'.size = job.size

LEMMA ScanMoves ==
    ASSUME TypeInv, Scan
    PROVE  /\ SameRequest /\ UNCHANGED store
           /\ job'.rows = job.rows \cup Taken /\ job'.token = job.token
           /\ job'.todo = job.todo /\ job'.seen = job.seen /\ job'.dup = job.dup
           /\ job'.pc \in {"scan", "page"}
           /\ job'.pc = "scan" =>
                 /\ job.delim /\ Taken = Batch
                 /\ job'.cursor \in Batch /\ \A j \in Batch : ~Before(job'.cursor, j)
           /\ job'.pc = "page" =>
                 \/ ~job.delim \/ Batch = {}
                 \/ Entries(job.rows \cup Taken) > job.size
<1>1. job.pc = "scan" /\ job \in Job
  BY IdleHasNoWork DEF Scan, TypeInv
<1>2. PICK cursor : cursor = IF Batch = {} THEN job.cursor ELSE Highest(Batch)
  OBVIOUS
<1>3. PICK pc : pc = IF \/ ~job.delim \/ Batch = {}
                        \/ Entries(job.rows \cup Taken) > job.size
                     THEN "page" ELSE "scan"
  OBVIOUS
<1>4. job' = [job EXCEPT !.rows = job.rows \cup Taken, !.cursor = cursor, !.pc = pc]
      /\ UNCHANGED store
  BY <1>2, <1>3 DEF Scan, Batch, Taken
<1>5. /\ Batch \in SUBSET Path /\ IsFiniteSet(Batch)
      /\ job.rows \cup Taken \in SUBSET Key
  BY <1>1, ScanReads, KeysArePaths DEF Listed
<1>6. Batch # {} => cursor \in Batch /\ \A j \in Batch : ~Before(cursor, j)
  BY <1>2, <1>5, HighestIsLast
<1>7. cursor \in Seq(Nat)
  BY <1>1, <1>2, <1>5, <1>6, JobParts DEF Path
<1>8. /\ job'.rows = job.rows \cup Taken /\ job'.cursor = cursor /\ job'.pc = pc
      /\ job'.token = job.token /\ job'.kind = job.kind /\ job'.prefix = job.prefix
      /\ job'.whole = job.whole /\ job'.to = job.to /\ job'.delim = job.delim
      /\ job'.size = job.size /\ job'.todo = job.todo /\ job'.seen = job.seen
      /\ job'.dup = job.dup
  BY <1>1, <1>4 DEF Job
<1>9. job' \in Job
  <2>1. pc \in {"page", "scan"}
    BY <1>3
  <2>2. job.rows \cup Taken \in SUBSET Key
    BY <1>5
  <2> QED
    BY <1>1, <1>4, <1>7, <2>1, <2>2 DEF Job
<1>10. Taken # Batch => Entries(job.rows \cup Taken) > job.size
  BY <1>1, ScanReads
<1> QED
  BY <1>3, <1>4, <1>6, <1>8, <1>9, <1>10 DEF SameRequest

\* The work on a page ends the job or leads on to the next page.
LEMMA TurnMoves ==
    ASSUME NEW token \in Path, NEW others \in Job, Turn(token, others)
    PROVE  /\ job' \in Job /\ job'.kind = others.kind /\ job'.prefix = others.prefix
           /\ job'.whole = others.whole /\ job'.to = others.to
           /\ job'.delim = others.delim /\ job'.size = others.size
           /\ job'.seen = others.seen /\ job'.dup = others.dup
           /\ job'.token = token
           /\ job'.pc = IF token = <<>> THEN "done" ELSE "scan"
           /\ job'.pc = "scan" => job'.cursor = token /\ job'.rows = {}
<1>1. CASE token = <<>>
  <2>1. job' = [others EXCEPT !.pc = "done", !.token = <<>>]
    BY <1>1 DEF Turn
  <2> QED
    BY <1>1, <2>1 DEF Job, Path
<1>2. CASE token # <<>>
  <2>1. job' = [others EXCEPT !.pc = "scan", !.token = token,
                              !.cursor = token, !.rows = {}]
    BY <1>2 DEF Turn
  <2> QED
    BY <1>2, <2>1 DEF Job, Path
<1> QED
  BY <1>1, <1>2

LEMMA PageMoves ==
    ASSUME TypeInv, TakePage
    PROVE  /\ SameRequest /\ UNCHANGED store /\ job.pc = "page" /\ Reading
           /\ Answer(job.rows) /\ Listed(job.rows)
           /\ job'.token = Page(job.rows).token
           /\ job'.seen = job.seen \cup Page(job.rows).objects
           /\ job'.dup = job.dup \cup (job.seen \cap Page(job.rows).objects)
           /\ \/ /\ job.kind = "list" \/ Page(job.rows).objects = {}
                 /\ job'.pc = IF job'.token = <<>> THEN "done" ELSE "scan"
                 /\ job'.pc = "scan" => job'.cursor = job'.token /\ job'.rows = {}
              \/ /\ job.kind # "list" /\ Page(job.rows).objects # {}
                 /\ job'.pc = IF job.kind = "delete" THEN "delete" ELSE "copy"
                 /\ job'.todo = Page(job.rows).objects
<1>1. job.pc = "page" /\ job \in Job /\ Reading
  BY IdleHasNoWork DEF TakePage, TypeInv, JobSound
<1>2. Listed(job.rows)
  BY <1>1, JobParts, LikeIsLonger DEF Reading, Listed
<1>3. Answer(job.rows)
  BY <1>1, <1>2, PageAnswers
<1>4. PICK page : page = Page(job.rows)
  OBVIOUS
<1>5. page.objects \in SUBSET job.rows /\ page.folders \in SUBSET Path
  BY <1>1, <1>2, <1>3, <1>4, EntriesAreFinite DEF Answer
<1>6. page.token \in Path
  <2>1. <<>> \in Path
    BY DEF Path
  <2>2. \A f \in Folders(job.rows) : Marker(f) \in Path
    BY <1>1, <1>2, EntriesAreFinite, MarkerOrder
  <2> QED
    BY <1>1, <1>2, <1>3, <1>4, <1>5, <2>1, <2>2, KeysArePaths
    DEF Answer, Listed
<1>7. PICK taken : taken = [job EXCEPT
                              !.seen = job.seen \cup page.objects,
                              !.dup = job.dup \cup (job.seen \cap page.objects),
                              !.folders = job.folders \cup page.folders]
  OBVIOUS
<1>8. page.objects \in SUBSET Key
  BY <1>2, <1>5 DEF Listed
<1>9. /\ taken \in Job
      /\ taken.seen = job.seen \cup page.objects
      /\ taken.dup = job.dup \cup (job.seen \cap page.objects)
      /\ taken.kind = job.kind /\ taken.prefix = job.prefix
      /\ taken.whole = job.whole /\ taken.to = job.to /\ taken.delim = job.delim
      /\ taken.size = job.size
  BY <1>1, <1>5, <1>7, <1>8 DEF Job, Path
<1>10. UNCHANGED store
  BY DEF TakePage
<1>11. CASE job.kind = "list" \/ page.objects = {}
  <2>1. Turn(page.token, taken)
    BY <1>4, <1>7, <1>11 DEF TakePage
  <2> QED
    BY <1>1, <1>2, <1>3, <1>4, <1>6, <1>9, <1>10, <1>11, <2>1, TurnMoves DEF SameRequest
<1>12. CASE job.kind # "list" /\ page.objects # {}
  <2>1. PICK pc : pc = IF job.kind = "delete" THEN "delete" ELSE "copy"
    OBVIOUS
  <2>2. job' = [taken EXCEPT !.pc = pc, !.token = page.token, !.todo = page.objects]
    BY <1>4, <1>7, <1>12, <2>1 DEF TakePage
  <2>3. /\ pc \in {"delete", "copy"} /\ page.token \in Seq(Nat)
        /\ taken \in Job
    BY <1>6, <1>9, <2>1 DEF Path
  <2>4. job' \in Job
    BY <1>8, <2>2, <2>3 DEF Job
  <2>5. /\ job'.pc = pc /\ job'.token = page.token /\ job'.todo = page.objects
        /\ job'.seen = taken.seen /\ job'.dup = taken.dup
        /\ job'.kind = taken.kind /\ job'.prefix = taken.prefix
        /\ job'.whole = taken.whole /\ job'.to = taken.to /\ job'.delim = taken.delim
        /\ job'.size = taken.size
    BY <2>2, <2>3 DEF Job
  <2> QED
    BY <1>1, <1>2, <1>3, <1>4, <1>9, <1>10, <1>12, <2>1, <2>4, <2>5 DEF SameRequest
<1> QED
  BY <1>11, <1>12

LEMMA WithAndWithout ==
    /\ \A f, k, v : /\ DOMAIN With(f, k, v) = DOMAIN f \cup {k}
                    /\ With(f, k, v)[k] = v
                    /\ \A l \in DOMAIN f : l # k => With(f, k, v)[l] = f[l]
    /\ \A f, k : /\ DOMAIN Without(f, k) = DOMAIN f \ {k}
                 /\ \A l \in DOMAIN f : l # k => Without(f, k)[l] = f[l]
  BY DEF With, Without

LEMMA NextKeyMoves ==
    ASSUME job \in Job, NEW k \in job.todo, NEW pc \in {"delete", "copy"},
           NextKey(k, pc)
    PROVE  /\ SameRequest /\ job'.token = job.token
           /\ job'.seen = job.seen /\ job'.dup = job.dup
           /\ \/ /\ job.todo = {k}
                 /\ job'.pc = IF job.token = <<>> THEN "done" ELSE "scan"
                 /\ job'.pc = "scan" => job'.cursor = job.token /\ job'.rows = {}
              \/ /\ job.todo # {k}
                 /\ job'.pc = pc /\ job'.todo = job.todo \ {k}
<1>1. CASE job.todo = {k}
  <2>1. PICK others : others = [job EXCEPT !.todo = {}]
    OBVIOUS
  <2>2. /\ others \in Job /\ others.seen = job.seen /\ others.dup = job.dup
        /\ others.kind = job.kind /\ others.prefix = job.prefix
        /\ others.whole = job.whole /\ others.to = job.to
        /\ others.delim = job.delim /\ others.size = job.size
    BY <2>1 DEF Job
  <2>3. Turn(job.token, others) /\ job.token \in Path
    BY <1>1, <2>1, JobParts DEF NextKey
  <2> QED
    BY <1>1, <2>2, <2>3, TurnMoves DEF SameRequest
<1>2. CASE job.todo # {k}
  <2>1. job' = [job EXCEPT !.todo = job.todo \ {k}, !.pc = pc]
    BY <1>2 DEF NextKey
  <2>2. /\ job' \in Job
        /\ job'.pc = pc /\ job'.todo = job.todo \ {k} /\ job'.token = job.token
        /\ job'.seen = job.seen /\ job'.dup = job.dup
        /\ job'.kind = job.kind /\ job'.prefix = job.prefix
        /\ job'.whole = job.whole /\ job'.to = job.to /\ job'.delim = job.delim
        /\ job'.size = job.size
    BY <2>1 DEF Job
  <2> QED
    BY <1>2, <2>2 DEF SameRequest
<1> QED
  BY <1>1, <1>2

LEMMA AtWork ==
    ASSUME TypeInv, job.pc \in {"delete", "copy", "cleanup"}
    PROVE  /\ job \in Job /\ Asked /\ Working
           /\ job.todo \in SUBSET Key /\ First(job.todo) \in job.todo
<1>1. job \in Job /\ Asked /\ Working
  BY IdleHasNoWork DEF TypeInv, JobSound
<1>2. job.todo \in SUBSET Key
  BY <1>1, JobParts
<1>3. First(job.todo) \in job.todo
  BY <1>1, <1>2, KeysArePaths, FirstIsFirst DEF Working
<1> QED
  BY <1>1, <1>2, <1>3

LEMMA DeleteMoves ==
    ASSUME TypeInv, DeleteNext
    PROVE  /\ job.pc = "delete" /\ job \in Job
           /\ \E k \in job.todo :
                 store' = Without(store, k) /\ NextKey(k, "delete")
  BY AtWork DEF DeleteNext

LEMMA CopyMoves ==
    ASSUME TypeInv, CopyNext
    PROVE  /\ job.pc = "copy" /\ SameRequest
           /\ \E k \in job.todo :
                 /\ k \in DOMAIN store
                 /\ store' = With(store, NewName(k), store[k])
                 /\ job'.key = k
           /\ job'.pc = "cleanup" /\ job'.todo = job.todo /\ job'.token = job.token
           /\ job'.seen = job.seen /\ job'.dup = job.dup
<1>1. job.pc = "copy"
  BY DEF CopyNext
<1>2. job \in Job /\ job.todo \in SUBSET Key /\ First(job.todo) \in job.todo
  BY <1>1, AtWork
<1>3. PICK k \in job.todo : k = First(job.todo)
  BY <1>2
<1>4. /\ k \in DOMAIN store /\ store' = With(store, NewName(k), store[k])
      /\ job' = [job EXCEPT !.pc = "cleanup", !.key = k]
  BY <1>3 DEF CopyNext
<1>5. /\ job' \in Job
      /\ job'.key = k /\ job'.pc = "cleanup" /\ job'.todo = job.todo
      /\ job'.token = job.token /\ job'.seen = job.seen /\ job'.dup = job.dup
      /\ job'.kind = job.kind /\ job'.prefix = job.prefix
      /\ job'.whole = job.whole /\ job'.to = job.to /\ job'.delim = job.delim
      /\ job'.size = job.size
  BY <1>2, <1>4 DEF Job
<1> QED
  BY <1>1, <1>4, <1>5 DEF SameRequest

LEMMA CleanupMoves ==
    ASSUME TypeInv, Cleanup
    PROVE  /\ job.pc = "cleanup" /\ job \in Job /\ job.key \in job.todo
           /\ UNCHANGED store \/ store' = Without(store, job.key)
           /\ NextKey(job.key, "copy")
  BY AtWork DEF Cleanup, Working

LEMMA FailMoves ==
    ASSUME TypeInv, Fail
    PROVE  /\ job.pc \in {"scan", "delete", "copy"} /\ SameRequest /\ UNCHANGED store
           /\ job'.pc = "failed" /\ job'.seen = job.seen /\ job'.dup = job.dup
<1>1. job.pc \in {"scan", "delete", "copy"} /\ job \in Job
  BY IdleHasNoWork DEF Fail, TypeInv
<1> QED
  BY <1>1 DEF Fail, SameRequest, Job

LEMMA StartMoves ==
    ASSUME StartList \/ StartDelete \/ StartRename
    PROVE  /\ job = Idle /\ job' \in Job /\ Asked'
           /\ UNCHANGED <<store, writes>> /\ start' = store /\ touched' = {}
           /\ job'.token = <<>> /\ job'.seen = {} /\ job'.dup = {}
           /\ \/ job'.whole /\ job'.pc = "scan" /\ job'.cursor = <<>> /\ job'.rows = {}
              \/ /\ ~job'.whole /\ job'.pc = "copy" /\ job'.todo = {job'.prefix}
                 /\ job'.kind = "rename"
<1>1. ASSUME NEW kind \in {"list", "delete", "rename"}, NEW whole \in BOOLEAN,
             NEW prefix, NEW to, {prefix, to} \subseteq IF whole THEN Folder ELSE Key,
             NEW delim \in BOOLEAN, NEW size \in PageSizes,
             Start(kind, prefix, whole, to, delim, size)
      PROVE  /\ job = Idle /\ job' \in Job
             /\ job'.kind = kind /\ job'.prefix = prefix /\ job'.whole = whole
             /\ job'.to = to /\ job'.delim = delim
             /\ UNCHANGED <<store, writes>> /\ start' = store /\ touched' = {}
             /\ job'.token = <<>> /\ job'.seen = {} /\ job'.dup = {}
             /\ \/ whole /\ job'.pc = "scan" /\ job'.cursor = <<>> /\ job'.rows = {}
                \/ ~whole /\ job'.pc = "copy" /\ job'.todo = {prefix}
  <2>1. PICK pc \in {"scan", "copy"} : pc = IF whole THEN "scan" ELSE "copy"
    OBVIOUS
  <2>2. PICK todo \in SUBSET Key : todo = IF whole THEN {} ELSE {prefix}
    BY <1>1
  <2>3. job' = [pc |-> pc, kind |-> kind,
               prefix |-> prefix, whole |-> whole, to |-> to, delim |-> delim,
               size |-> size, token |-> <<>>, cursor |-> <<>>, rows |-> {},
               todo |-> todo, key |-> <<>>,
               seen |-> {}, dup |-> {}, folders |-> {}]
    BY <1>1, <2>1, <2>2 DEF Start
  <2>4. {prefix, to} \subseteq Folder \cup Key /\ <<>> \in Seq(Nat)
    BY <1>1
  <2>5. job' \in Job
    BY <2>1, <2>2, <2>3, <2>4 DEF Job
  <2> QED
    BY <1>1, <2>1, <2>2, <2>3, <2>5 DEF Start
<1>2. CASE StartList
  <2>1. PICK prefix \in Folder, delim \in BOOLEAN, size \in PageSizes :
            Start("list", prefix, TRUE, prefix, delim, size)
    BY <1>2 DEF StartList
  <2>2. PICK whole \in BOOLEAN : whole = TRUE
    OBVIOUS
  <2>3. {prefix, prefix} \subseteq IF whole THEN Folder ELSE Key
    BY <2>2
  <2>4. Start("list", prefix, whole, prefix, delim, size)
    BY <2>1, <2>2
  <2>5. /\ job = Idle /\ job' \in Job
        /\ job'.kind = "list" /\ job'.prefix = prefix /\ job'.whole = whole
        /\ UNCHANGED <<store, writes>> /\ start' = store /\ touched' = {}
        /\ job'.token = <<>> /\ job'.seen = {} /\ job'.dup = {}
        /\ job'.pc = "scan" /\ job'.cursor = <<>> /\ job'.rows = {}
    <3>1. CASE delim = TRUE
      <4>1. Start("list", prefix, whole, prefix, TRUE, size)
        BY <2>4, <3>1
      <4> QED
        BY <1>1, <2>2, <2>3, <4>1
    <3>2. CASE delim = FALSE
      <4>1. Start("list", prefix, whole, prefix, FALSE, size)
        BY <2>4, <3>2
      <4> QED
        BY <1>1, <2>2, <2>3, <4>1
    <3> QED
      BY <3>1, <3>2
  <2> QED
    BY <2>2, <2>5 DEF Asked
<1>3. CASE StartDelete
  <2>1. PICK prefix \in Folder, size \in PageSizes :
            Start("delete", prefix, TRUE, prefix, FALSE, size)
    BY <1>3 DEF StartDelete
  <2>2. PICK whole \in BOOLEAN : whole = TRUE
    OBVIOUS
  <2>3. {prefix, prefix} \subseteq IF whole THEN Folder ELSE Key
    BY <2>2
  <2>4. Start("delete", prefix, whole, prefix, FALSE, size)
    BY <2>1, <2>2
  <2>5. /\ job = Idle /\ job' \in Job
        /\ job'.kind = "delete" /\ job'.prefix = prefix /\ job'.whole = whole
        /\ job'.delim = FALSE
        /\ UNCHANGED <<store, writes>> /\ start' = store /\ touched' = {}
        /\ job'.token = <<>> /\ job'.seen = {} /\ job'.dup = {}
        /\ job'.pc = "scan" /\ job'.cursor = <<>> /\ job'.rows = {}
    BY <1>1, <2>2, <2>3, <2>4
  <2> QED
    BY <2>2, <2>5 DEF Asked
<1>4. CASE StartRename
  <2>1. PICK m \in Moves, size \in PageSizes :
            /\ m.whole => m.from # m.to
            /\ Start("rename", m.from, m.whole, m.to, FALSE, size)
    BY <1>4 DEF StartRename
  <2>2. /\ m.whole \in BOOLEAN
        /\ {m.from, m.to} \subseteq IF m.whole THEN Folder ELSE Key
    BY MovesAssumption
  <2>3. /\ job = Idle /\ job' \in Job
        /\ job'.kind = "rename" /\ job'.prefix = m.from /\ job'.whole = m.whole
        /\ job'.to = m.to /\ job'.delim = FALSE
        /\ UNCHANGED <<store, writes>> /\ start' = store /\ touched' = {}
        /\ job'.token = <<>> /\ job'.seen = {} /\ job'.dup = {}
        /\ \/ m.whole /\ job'.pc = "scan" /\ job'.cursor = <<>> /\ job'.rows = {}
           \/ ~m.whole /\ job'.pc = "copy" /\ job'.todo = {m.from}
    BY <1>1, <2>1, <2>2
  <2>4. Asked'
    BY <2>1, <2>2, <2>3 DEF Asked
  <2> QED
    BY <2>3, <2>4
<1> QED
  BY <1>2, <1>3, <1>4

-----------------------------------------------------------------------------
(***************************************************************************)
(* The types are kept                                                      *)
(***************************************************************************)

StoreTyped ==
    /\ DOMAIN store \subseteq Key /\ IsFiniteSet(DOMAIN store)
    /\ \A k \in DOMAIN store : store[k] \in Key \cup {Other}

LEMMA StoreMoves ==
    ASSUME StoreTyped, NEW k \in Key, NEW v \in Key \cup {Other},
           \/ UNCHANGED store
           \/ store' = With(store, k, v)
           \/ store' = Without(store, k)
    PROVE  StoreTyped'
<1>1. CASE UNCHANGED store
  BY <1>1 DEF StoreTyped
<1>2. CASE store' = With(store, k, v)
  <2>1. DOMAIN store' = DOMAIN store \cup {k}
    BY <1>2, WithAndWithout
  <2>2. IsFiniteSet(DOMAIN store')
    BY <2>1, FS_AddElement DEF StoreTyped
  <2>3. \A l \in DOMAIN store' : store'[l] \in Key \cup {Other}
    BY <1>2, <2>1, WithAndWithout DEF StoreTyped
  <2> QED
    BY <2>1, <2>2, <2>3 DEF StoreTyped
<1>3. CASE store' = Without(store, k)
  <2>1. DOMAIN store' = DOMAIN store \ {k}
    BY <1>3, WithAndWithout
  <2>2. IsFiniteSet(DOMAIN store')
    BY <2>1, FS_RemoveElement DEF StoreTyped
  <2>3. \A l \in DOMAIN store' : store'[l] \in Key \cup {Other}
    BY <1>3, <2>1, WithAndWithout DEF StoreTyped
  <2> QED
    BY <2>1, <2>2, <2>3 DEF StoreTyped
<1> QED
  BY <1>1, <1>2, <1>3

LEMMA TypeParts ==
    TypeInv <=> /\ StoreTyped /\ (job = Idle \/ job \in Job)
                /\ writes \in 0..MaxWrites
                /\ DOMAIN start \subseteq Key /\ touched \subseteq Key
                /\ JobSound
  BY DEF TypeInv, TypeOK, StoreTyped

LEMMA ListingTypeInit == Init => TypeInv
<1> SUFFICES ASSUME Init PROVE TypeInv
  OBVIOUS
<1>1. PICK keys \in SUBSET Key : IsFiniteSet(keys) /\ store = [k \in keys |-> k]
  BY DEF Init
<1>2. StoreTyped
  BY <1>1 DEF StoreTyped
<1>3. job = Idle /\ writes = 0 /\ start = store /\ touched = {}
  BY DEF Init
<1>4. writes \in 0..MaxWrites
  BY <1>3, ListingAssumption
<1> QED
  BY <1>2, <1>3, <1>4, TypeParts DEF JobSound, StoreTyped

LEMMA NewNameIsKey ==
    ASSUME TypeInv, job.pc = "copy", NEW k \in job.todo
    PROVE  NewName(k) \in Key
<1>1. job \in Job /\ Asked /\ Working /\ k \in Key
  BY AtWork
<1>2. PICK m \in Moves : m.whole = job.whole /\ m.from = job.prefix /\ m.to = job.to
  BY <1>1 DEF Asked, Working
<1>3. NewName(k) = NameAfter(m, k)
  BY <1>2 DEF NewName, NameAfter
<1>4. CASE job.whole
  BY <1>1, <1>2, <1>3, <1>4, MovesAssumption DEF Working
<1>5. CASE ~job.whole
  BY <1>2, <1>3, <1>5, MovesAssumption DEF NameAfter
<1> QED
  BY <1>4, <1>5

\* A job that begins a page begins it with no rows.
LEMMA NewPageIsSound ==
    ASSUME Asked', job' \in Job, job'.whole, job'.pc = "scan",
           job'.cursor = job'.token, job'.rows = {}
    PROVE  JobSound'
<1>1. job'.token \in Path
  BY JobParts DEF Job, Path
<1>2. Reading'
  BY <1>1, BeforeIrreflexive, FS_EmptySet DEF Reading
<1> QED
  BY <1>2 DEF JobSound

LEMMA EndIsSound ==
    ASSUME Asked', job'.pc \in {"done", "failed"} PROVE JobSound'
  BY DEF JobSound

LEMMA AskedStays ==
    ASSUME SameRequest, Asked PROVE Asked'
  BY DEF SameRequest, Asked

LEMMA NextKeyIsSound ==
    ASSUME TypeInv, job.pc \in {"delete", "cleanup"}, NEW k \in job.todo,
           NEW pc, pc = (IF job.pc = "delete" THEN "delete" ELSE "copy"), NextKey(k, pc)
    PROVE  JobSound' /\ job' \in Job
<1>1. job \in Job /\ Asked /\ Working
  BY AtWork
<1>2. /\ SameRequest /\ job'.token = job.token
      /\ \/ /\ job.todo = {k}
            /\ job'.pc = IF job.token = <<>> THEN "done" ELSE "scan"
            /\ job'.pc = "scan" => job'.cursor = job.token /\ job'.rows = {}
         \/ /\ job.todo # {k}
            /\ job'.pc = pc /\ job'.todo = job.todo \ {k}
  <2>1. pc \in {"delete", "copy"}
    OBVIOUS
  <2> QED
    BY <1>1, <2>1, NextKeyMoves
<1>3. Asked' /\ job' \in Job
  BY <1>1, <1>2, AskedStays DEF SameRequest
<1>4. CASE job.todo = {k}
  <2>1. CASE job.token = <<>>
    BY <1>2, <1>3, <1>4, <2>1, EndIsSound
  <2>2. CASE job.token # <<>>
    BY <1>1, <1>2, <1>3, <1>4, <2>2, NewPageIsSound DEF Working, SameRequest
  <2> QED
    BY <2>1, <2>2
<1>5. CASE job.todo # {k}
  <2>1. IsFiniteSet(job.todo \ {k})
    BY <1>1, FS_RemoveElement DEF Working
  <2>2. Working'
    BY <1>1, <1>2, <1>5, <2>1 DEF Working, SameRequest
  <2>3. job'.pc \notin {"scan", "page"}
    BY <1>2, <1>5
  <2> QED
    BY <1>3, <2>2, <2>3 DEF JobSound
<1> QED
  BY <1>3, <1>4, <1>5

LEMMA ListingTypeNext == TypeInv /\ [Next]_vars => TypeInv'
<1> SUFFICES ASSUME TypeInv, [Next]_vars PROVE TypeInv'
  OBVIOUS
<1>1. StoreTyped /\ writes \in 0..MaxWrites /\ DOMAIN start \subseteq Key
      /\ touched \subseteq Key /\ JobSound
  BY TypeParts
<1>2. ASSUME StartList \/ StartDelete \/ StartRename PROVE TypeInv'
  <2>1. /\ job' \in Job /\ Asked'
        /\ UNCHANGED <<store, writes>> /\ start' = store /\ touched' = {}
        /\ \/ /\ job'.whole /\ job'.pc = "scan" /\ job'.rows = {}
              /\ job'.cursor = job'.token
           \/ /\ ~job'.whole /\ job'.pc = "copy" /\ job'.todo = {job'.prefix}
              /\ job'.kind = "rename" /\ job'.token = <<>>
    BY <1>2, StartMoves
  <2>2. StoreTyped'
    BY <1>1, <2>1 DEF StoreTyped
  <2>3. JobSound'
    <3>1. CASE job'.whole
      BY <2>1, <3>1, NewPageIsSound
    <3>2. CASE ~job'.whole
      <4>1. IsFiniteSet({job'.prefix})
        BY FS_Singleton
      <4>2. Working'
        BY <2>1, <3>2, <4>1 DEF Working
      <4> QED
        BY <2>1, <3>2, <4>2 DEF JobSound
    <3> QED
      BY <3>1, <3>2
  <2>4. start' = store
    BY <2>1
  <2> QED
    BY <1>1, <2>1, <2>2, <2>3, <2>4 DEF TypeInv, TypeOK, StoreTyped
<1>3. ASSUME Scan PROVE JobSound' /\ job' \in Job
  <2>1. /\ SameRequest /\ UNCHANGED store
        /\ job'.rows = job.rows \cup Taken /\ job'.token = job.token
        /\ job'.pc \in {"scan", "page"}
        /\ job'.pc = "scan" =>
              /\ job.delim /\ Taken = Batch
              /\ job'.cursor \in Batch /\ \A j \in Batch : ~Before(job'.cursor, j)
    BY <1>3, ScanMoves
  <2>2. job.pc = "scan" /\ job \in Job /\ Reading /\ Asked
    BY <1>3, IdleHasNoWork DEF Scan, TypeInv, JobSound
  <2>3. /\ Taken \in SUBSET Ahead /\ Batch \in SUBSET Ahead
        /\ Ahead \in SUBSET Key /\ Listed(job.rows \cup Taken)
    BY <2>2, ScanReads
  <2>4. job.token \in Path /\ job.cursor \in Path /\ job.rows \in SUBSET Path
    BY <2>2, JobParts, KeysArePaths
  <2>5. Ahead \in SUBSET Path /\ \A k \in Ahead : Before(job.cursor, k)
    BY <2>3, KeysArePaths DEF Ahead
  <2>6. \A k \in Ahead : Like(job.prefix, k) /\ Before(job.token, k)
                         /\ ~Before(k, job.token)
    <3> SUFFICES ASSUME NEW k \in Ahead
                 PROVE  Before(job.token, k) /\ ~Before(k, job.token)
      BY DEF Ahead
    <3>1. Before(job.token, k)
      <4>1. job.token = job.cursor \/ Before(job.token, job.cursor)
        BY <2>2, <2>4, BeforeTotal DEF Reading
      <4> QED
        BY <2>4, <2>5, <4>1, BeforeTransitive
    <3>2. ~Before(k, job.token)
      BY <2>4, <2>5, <3>1, BeforeTransitive, BeforeIrreflexive
    <3> QED
      BY <3>1, <3>2
  <2>7. Asked'
    BY <2>1, <2>2, AskedStays
  <2>8. ASSUME job'.pc = "scan"
        PROVE  /\ ~Before(job'.cursor, job'.token) /\ job'.delim
               /\ \A k \in job'.rows : ~Before(job'.cursor, k)
    <3>1. PICK c \in Ahead : c = job'.cursor
      BY <2>1, <2>3, <2>8
    <3>2. ~Before(c, job.token)
      BY <2>6
    <3>3. ASSUME NEW k \in job.rows, Before(c, k) PROVE FALSE
      <4>1. Before(job.cursor, k)
        BY <2>4, <2>5, <3>3, BeforeTransitive
      <4> QED
        BY <2>2, <4>1 DEF Reading
    <3>4. \A k \in Taken : ~Before(c, k)
      BY <2>1, <2>8, <3>1
    <3> QED
      BY <2>1, <2>8, <3>1, <3>2, <3>3, <3>4 DEF SameRequest
  <2>9. Reading'
    BY <2>1, <2>2, <2>3, <2>6, <2>8 DEF Reading, SameRequest, Listed
  <2> QED
    BY <2>1, <2>7, <2>9 DEF JobSound, SameRequest
<1>4. ASSUME TakePage PROVE JobSound' /\ job' \in Job
  <2>1. /\ SameRequest /\ job.pc = "page" /\ Reading
        /\ Answer(job.rows) /\ Listed(job.rows)
        /\ \/ /\ job'.pc = IF job'.token = <<>> THEN "done" ELSE "scan"
              /\ job'.pc = "scan" => job'.cursor = job'.token /\ job'.rows = {}
           \/ /\ job.kind # "list" /\ Page(job.rows).objects # {}
              /\ job'.pc = IF job.kind = "delete" THEN "delete" ELSE "copy"
              /\ job'.todo = Page(job.rows).objects
    BY <1>4, PageMoves
  <2>2. job \in Job /\ Asked /\ Asked' /\ job' \in Job /\ job'.whole
    <3>1. job \in Job /\ Asked
      BY <1>1, <2>1, IdleHasNoWork DEF TypeInv, JobSound
    <3> QED
      BY <2>1, <3>1, AskedStays DEF SameRequest, Reading
  <2>3. CASE job'.pc = "done"
    BY <2>2, <2>3, EndIsSound
  <2>4. CASE job'.pc = "scan"
    BY <2>1, <2>2, <2>4, NewPageIsSound
  <2>5. CASE job'.pc \in {"delete", "copy"}
    <3>1. Page(job.rows).objects \in SUBSET job.rows
      BY <2>1, <2>2, EntriesAreFinite DEF Answer
    <3>2. IsFiniteSet(Page(job.rows).objects)
      BY <2>1, <3>1, FS_Subset DEF Reading
    <3>3. job.kind \in {"delete", "rename"}
      BY <2>1, <2>2, <2>5 DEF Job
    <3>4. Working'
      BY <2>1, <2>2, <2>5, <3>1, <3>2, <3>3 DEF Working, Reading, SameRequest
    <3> QED
      BY <2>2, <2>5, <3>4 DEF JobSound
  <2> QED
    BY <2>1, <2>2, <2>3, <2>4, <2>5
<1>5. ASSUME DeleteNext PROVE JobSound' /\ job' \in Job /\ StoreTyped'
  <2>1. PICK k \in job.todo : store' = Without(store, k) /\ NextKey(k, "delete")
    BY <1>5, DeleteMoves
  <2>2. job.pc = "delete" /\ k \in Key
    BY <1>5, DeleteMoves, AtWork
  <2> QED
    BY <1>1, <2>1, <2>2, StoreMoves, NextKeyIsSound
<1>6. ASSUME CopyNext PROVE JobSound' /\ job' \in Job /\ StoreTyped'
  <2>1. /\ job.pc = "copy" /\ SameRequest
        /\ job'.pc = "cleanup" /\ job'.todo = job.todo /\ job'.token = job.token
    BY <1>6, CopyMoves
  <2>2. PICK k \in job.todo : /\ k \in DOMAIN store
                              /\ store' = With(store, NewName(k), store[k])
                              /\ job'.key = k
    BY <1>6, CopyMoves
  <2>3. job \in Job /\ Asked /\ Working
    BY <2>1, AtWork
  <2>4. StoreTyped'
    <3>1. NewName(k) \in Key /\ store[k] \in Key \cup {Other}
      BY <1>1, <2>1, <2>2, NewNameIsKey DEF StoreTyped
    <3> QED
      BY <1>1, <2>2, <3>1, StoreMoves
  <2>5. Working'
    BY <2>1, <2>2, <2>3 DEF Working, SameRequest
  <2> QED
    BY <2>1, <2>3, <2>4, <2>5, AskedStays DEF JobSound, SameRequest
<1>7. ASSUME Cleanup PROVE JobSound' /\ job' \in Job /\ StoreTyped'
  <2>1. /\ job.pc = "cleanup" /\ job.key \in job.todo
        /\ UNCHANGED store \/ store' = Without(store, job.key)
        /\ NextKey(job.key, "copy")
    BY <1>7, CleanupMoves
  <2>2. job.key \in Key
    BY <2>1, AtWork
  <2> QED
    BY <1>1, <2>1, <2>2, StoreMoves, NextKeyIsSound
<1>8. ASSUME Fail PROVE JobSound' /\ job' \in Job
  <2>1. SameRequest /\ job'.pc = "failed" /\ Asked
    BY <1>1, <1>8, FailMoves, IdleHasNoWork DEF TypeInv, JobSound
  <2> QED
    BY <2>1, AskedStays, EndIsSound DEF SameRequest
<1>9. ASSUME NEW k \in Key, Write(k) PROVE TypeInv'
  <2>1. /\ store' = With(store, k, Other) \/ store' = Without(store, k)
        /\ writes' = writes + 1 /\ writes < MaxWrites
        /\ touched' = touched \cup {k} /\ UNCHANGED <<job, start>>
    BY <1>9 DEF Write
  <2>2. StoreTyped'
    BY <1>1, <2>1, StoreMoves
  <2>3. JobSound'
    BY <1>1, <2>1 DEF JobSound, Asked, Reading, Working
  <2>4. writes' \in 0..MaxWrites
    BY <1>1, <2>1, ListingAssumption
  <2> QED
    BY <1>1, <2>1, <2>2, <2>3, <2>4 DEF TypeInv, TypeOK, StoreTyped
<1>10. ASSUME JobStep PROVE TypeInv'
  <2>1. UNCHANGED <<writes, start, touched>>
    BY <1>10 DEF JobStep, Scan, TakePage, DeleteNext, CopyNext, Cleanup, Fail
  <2>2. Scan \/ TakePage \/ Fail => UNCHANGED store
    BY DEF Scan, TakePage, Fail
  <2>3. StoreTyped' /\ JobSound' /\ job' \in Job
    <3>1. UNCHANGED store => StoreTyped'
      BY <1>1 DEF StoreTyped
    <3> QED
      BY <1>3, <1>4, <1>5, <1>6, <1>7, <1>8, <1>10, <2>2, <3>1 DEF JobStep
  <2> QED
    BY <1>1, <2>1, <2>3 DEF TypeInv, TypeOK, StoreTyped
<1>11. ASSUME UNCHANGED vars PROVE TypeInv'
  BY <1>11 DEF vars, TypeInv, TypeOK, JobSound, Asked, Reading, Working
<1> QED
  BY <1>2, <1>9, <1>10, <1>11 DEF Next

LEMMA TypeInvariant == Spec => []TypeInv
  BY ListingTypeInit, ListingTypeNext, PTL DEF Spec

\* Every variable keeps its type; a batch of rows, a page and a job's work list
\* are finite, and the first of them and the token are always there to take.
THEOREM ListingTypes == Spec => []TypeOK
<1>1. TypeInv => TypeOK
  BY DEF TypeInv
<1> QED
  BY <1>1, TypeInvariant, PTL

-----------------------------------------------------------------------------
(***************************************************************************)
(* No key is passed over                                                   *)
(***************************************************************************)

\* The keys that were in the bucket all the time and still are.
Staying == Untouched \cap DOMAIN store

\* What a page still to be answered has read: a key after the token is in the
\* rows, or what is read next comes before it.
Covers ==
    \A k \in Staying :
        Like(job.prefix, k) /\ Before(job.token, k) =>
            /\ job.pc = "scan" => k \in job.rows \/ Before(job.cursor, k)
            /\ job.pc = "page" =>
                  \/ k \in job.rows
                  \/ Entries(job.rows) > job.size /\ \A j \in job.rows : Before(j, k)

LEMMA EntriesStay ==
    ASSUME SameRequest, NEW rows PROVE Entries(rows)' = Entries(rows)
<1>1. \A k : Direct(k)' = Direct(k) /\ FolderOf(k)' = FolderOf(k)
  BY DEF SameRequest, Direct, FolderOf
<1>2. Objects(rows)' = Objects(rows)
  BY <1>1 DEF Objects
<1>3. Folders(rows)' = Folders(rows)
  BY <1>1, <1>2 DEF Folders
<1> QED
  BY <1>2, <1>3 DEF Entries

\* What a step of the job on the rows that it has leaves of the history.
LEMMA JobStepHistory ==
    ASSUME JobStep PROVE UNCHANGED <<start, touched, writes>> /\ Untouched' = Untouched
  BY DEF JobStep, Scan, TakePage, DeleteNext, CopyNext, Cleanup, Fail, Untouched

LEMMA WriteMoves ==
    ASSUME NEW w \in Key, Write(w)
    PROVE  /\ UNCHANGED <<job, start>> /\ touched' = touched \cup {w}
           /\ job # Idle
           /\ DOMAIN store \ {w} = DOMAIN store' \ {w}
           /\ \A k \in DOMAIN store \ {w} : store'[k] = store[k]
           /\ Untouched' = Untouched \ {w}
<1>1. /\ store' = With(store, w, Other) \/ store' = Without(store, w)
      /\ touched' = touched \cup {w} /\ UNCHANGED <<job, start>> /\ job # Idle
  BY DEF Write
<1>2. /\ DOMAIN store' = DOMAIN store \cup {w} \/ DOMAIN store' = DOMAIN store \ {w}
      /\ \A k \in DOMAIN store : k # w => store'[k] = store[k]
  <2>1. CASE store' = With(store, w, Other)
    BY <2>1 DEF With
  <2>2. CASE store' = Without(store, w)
    BY <2>2 DEF Without
  <2> QED
    BY <1>1, <2>1, <2>2
<1> QED
  BY <1>1, <1>2 DEF Untouched

LEMMA NewPageCovers ==
    ASSUME job'.pc = "scan" => job'.cursor = job'.token, job'.pc # "page"
    PROVE  Covers'
  BY DEF Covers

LEMMA CoversNext == TypeInv /\ Covers /\ [Next]_vars => Covers'
<1> SUFFICES ASSUME TypeInv, Covers, [Next]_vars PROVE Covers'
  OBVIOUS
<1>1. ASSUME StartList \/ StartDelete \/ StartRename PROVE Covers'
  BY <1>1, StartMoves, NewPageCovers
<1>2. ASSUME Scan PROVE Covers'
  <2>1. /\ SameRequest /\ UNCHANGED store
        /\ job'.rows = job.rows \cup Taken /\ job'.token = job.token
        /\ job'.pc \in {"scan", "page"}
        /\ job'.pc = "scan" =>
              /\ job.delim /\ Taken = Batch
              /\ job'.cursor \in Batch /\ \A j \in Batch : ~Before(job'.cursor, j)
        /\ job'.pc = "page" =>
              \/ ~job.delim \/ Batch = {}
              \/ Entries(job.rows \cup Taken) > job.size
    BY <1>2, ScanMoves
  <2>2. job.pc = "scan" /\ job \in Job /\ Reading
    BY <1>2, IdleHasNoWork DEF Scan, TypeInv, JobSound
  <2>3. /\ Ahead \in SUBSET Key /\ Batch \in SUBSET Ahead /\ Taken \in SUBSET Batch
        /\ Listed(job.rows \cup Taken)
        /\ \A k \in Taken, j \in Ahead : Before(j, k) => j \in Taken
        /\ \A k \in Ahead \ Batch, j \in Batch : Before(j, k)
        /\ Batch = {} => Ahead = {}
        /\ \/ job.delim \/ Taken = Ahead
           \/ Entries(job.rows \cup Taken) > job.size
    BY <2>2, ScanReads
  <2>4. Staying' = Staying /\ Staying \in SUBSET DOMAIN store
    BY <1>2, <2>1, JobStepHistory DEF JobStep, Staying
  <2>5. PICK all : all = job.rows \cup Taken
    OBVIOUS
  <2>6. Entries(all)' = Entries(all)
    BY <2>1, EntriesStay
  <2>7. job.cursor \in Path /\ job.rows \in SUBSET Path /\ Ahead \in SUBSET Path
    BY <2>2, <2>3, JobParts, KeysArePaths
  <2>8. ASSUME NEW k \in Staying, Like(job.prefix, k), Before(job.token, k),
               k \notin all
        PROVE  /\ job'.pc = "scan" => Before(job'.cursor, k)
               /\ job'.pc = "page" => Entries(all) > job.size
                                      /\ \A j \in all : Before(j, k)
    <3>1. Before(job.cursor, k)
      BY <2>2, <2>5, <2>8 DEF Covers
    <3>2. k \in Ahead
      BY <2>4, <2>8, <3>1 DEF Ahead
    <3>3. job'.pc = "scan" => Before(job'.cursor, k)
      BY <2>1, <2>3, <2>5, <2>8, <3>2
    <3>4. \A j \in job.rows : Before(j, k)
      <4> SUFFICES ASSUME NEW j \in job.rows PROVE Before(j, k)
        OBVIOUS
      <4>1. j = job.cursor \/ Before(j, job.cursor)
        BY <2>2, <2>7, BeforeTotal DEF Reading
      <4> QED
        BY <2>7, <3>1, <3>2, <4>1, BeforeTransitive
    <3>5. \A j \in Taken : Before(j, k)
      <4> SUFFICES ASSUME NEW j \in Taken PROVE Before(j, k)
        OBVIOUS
      <4>1. j \in Ahead /\ j # k /\ ~Before(k, j)
        BY <2>3, <2>5, <2>8, <3>2
      <4> QED
        BY <2>7, <3>2, <4>1, BeforeTotal
    <3>6. job'.pc = "page" => Entries(all) > job.size
      BY <2>1, <2>3, <2>5, <2>8, <3>2
    <3> QED
      BY <2>5, <3>3, <3>4, <3>5, <3>6
  <2> QED
    BY <2>1, <2>4, <2>5, <2>6, <2>8 DEF Covers, SameRequest
<1>3. ASSUME TakePage PROVE Covers'
  <2>1. job'.pc = "scan" => job'.cursor = job'.token
    BY <1>3, PageMoves
  <2>2. job'.pc # "page"
    BY <1>3, PageMoves
  <2> QED
    BY <2>1, <2>2, NewPageCovers
<1>4. ASSUME DeleteNext PROVE Covers'
  <2>1. job \in Job /\ \E k \in job.todo : NextKey(k, "delete")
    BY <1>4, DeleteMoves
  <2>2. /\ job'.pc = "scan" => job'.cursor = job'.token
        /\ job'.pc # "page"
    BY <2>1, NextKeyMoves
  <2> QED
    BY <2>2, NewPageCovers
<1>5. ASSUME CopyNext PROVE Covers'
  BY <1>5, CopyMoves, NewPageCovers
<1>6. ASSUME Cleanup PROVE Covers'
  <2>1. job \in Job /\ \E k \in job.todo : NextKey(k, "copy")
    BY <1>6, CleanupMoves
  <2>2. /\ job'.pc = "scan" => job'.cursor = job'.token
        /\ job'.pc # "page"
    BY <2>1, NextKeyMoves
  <2> QED
    BY <2>2, NewPageCovers
<1>7. ASSUME Fail PROVE Covers'
  BY <1>7, FailMoves, NewPageCovers
<1>8. ASSUME NEW w \in Key, Write(w) PROVE Covers'
  <2>1. /\ UNCHANGED job /\ Untouched' = Untouched \ {w}
        /\ DOMAIN store \ {w} = DOMAIN store' \ {w}
    BY <1>8, WriteMoves
  <2>2. Staying' \subseteq Staying
    BY <2>1 DEF Staying
  <2>3. Entries(job.rows)' = Entries(job.rows)
    BY <2>1 DEF Entries, Objects, Folders, Direct, FolderOf
  <2> QED
    BY <2>1, <2>2, <2>3 DEF Covers
<1>9. ASSUME UNCHANGED vars PROVE Covers'
  <2>1. Entries(job.rows)' = Entries(job.rows)
    BY <1>9 DEF vars, Entries, Objects, Folders, Direct, FolderOf
  <2> QED
    BY <1>9, <2>1 DEF vars, Covers, Staying, Untouched
<1> QED
  BY <1>1, <1>2, <1>3, <1>4, <1>5, <1>6, <1>7, <1>8, <1>9 DEF Next, JobStep

\* The folders with a name of their own: what lies below another folder is not
\* taken for theirs.
FoldersApart ==
    \A p \in Folder, k \in Key :
        Like(p, k) /\ Len(k) > Len(p) + 1 => Within(p, k)

LEMMA FolderLeadsToKey ==
    ASSUME job \in Job, NEW k \in Key, Within(job.prefix, k),
           Len(k) > Len(job.prefix) + 1
    PROVE  IsPrefix(FolderOf(k), k) /\ Before(FolderOf(k), k)
<1>1. PICK p \in Seq(Nat) : p = job.prefix
  BY JobParts DEF Path
<1>2. PICK l \in Seq(Nat) : l = k
  BY KeysArePaths DEF Path
<1>3. Len(p) \in Nat /\ Len(l) \in Nat /\ Len(p) + 1 < Len(l)
  BY <1>1, <1>2
<1>4. PICK f : f = Append(p, l[Len(p) + 1])
  OBVIOUS
<1>5. f \in Seq(Nat) /\ Len(f) = Len(p) + 1 /\ f = FolderOf(k)
  <2>1. Len(job.prefix) < Len(k)
    BY <1>1, <1>2, <1>3
  <2> QED
    BY <1>1, <1>2, <1>4, <2>1, FoldersArePaths DEF FolderOf, Path
<1>6. \A j \in 1..Len(p) : p[j] = l[j]
  <2> SUFFICES ASSUME NEW j \in 1..Len(p) PROVE p[j] = l[j]
    OBVIOUS
  <2>1. SubSeq(p, 1, Len(p)) = SubSeq(l, 1, Len(p))
    BY <1>1, <1>2 DEF Within, IsPrefix
  <2>2. SubSeq(p, 1, Len(p))[j] = p[j] /\ SubSeq(l, 1, Len(p))[j] = l[j]
    BY <1>3
  <2> QED
    BY <2>1, <2>2
<1>7. \A j \in 1..Len(f) : f[j] = l[j]
  <2> SUFFICES ASSUME NEW j \in 1..Len(f) PROVE f[j] = l[j]
    OBVIOUS
  <2>1. CASE j = Len(p) + 1
    BY <1>4, <2>1
  <2>2. CASE j # Len(p) + 1
    <3>1. j \in 1..Len(p)
      BY <1>3, <1>5, <2>2
    <3>2. f[j] = p[j]
      BY <1>4, <3>1
    <3> QED
      BY <1>6, <3>1, <3>2
  <2> QED
    BY <2>1, <2>2
<1>8. SubSeq(f, 1, Len(f)) = SubSeq(l, 1, Len(f))
  BY <1>3, <1>5, <1>7
<1>9. IsPrefix(f, l)
  BY <1>3, <1>5, <1>8 DEF IsPrefix
<1> QED
  BY <1>2, <1>3, <1>5, <1>9, LongerIsLater DEF Path

\* The answer has a key of the page, or the next page will have it.
LEMMA PageCovers ==
    ASSUME TypeInv, Covers, TakePage, ~job.delim \/ FoldersApart,
           NEW k \in Staying, Like(job.prefix, k), Direct(k), Before(job.token, k)
    PROVE  \/ k \in Page(job.rows).objects
           \/ Page(job.rows).token # <<>> /\ Before(Page(job.rows).token, k)
<1>1. job.pc = "page" /\ job \in Job /\ Reading /\ Asked
      /\ Answer(job.rows) /\ Listed(job.rows)
  <2>1. job.pc = "page" /\ Reading /\ Answer(job.rows) /\ Listed(job.rows)
    BY PageMoves
  <2> QED
    BY <2>1, IdleHasNoWork DEF TypeInv, JobSound
<1>2. \/ k \in job.rows
      \/ Entries(job.rows) > job.size /\ \A j \in job.rows : Before(j, k)
  BY <1>1 DEF Covers
<1>3. k \in job.rows => k \in Objects(job.rows)
  BY DEF Objects
<1>4. /\ Entries(job.rows) \in Nat /\ job.size \in Nat
      /\ Objects(job.rows) \in SUBSET job.rows /\ job.rows \in SUBSET Key
      /\ job.prefix \in Path
  BY <1>1, EntriesAreFinite, JobParts
<1>5. k \in Path
  BY KeysArePaths DEF Staying, TypeInv, TypeOK
<1>6. PICK page : page = Page(job.rows)
  OBVIOUS
<1>7. CASE Entries(job.rows) <= job.size
  BY <1>1, <1>2, <1>3, <1>4, <1>7 DEF Answer
<1>8. CASE page.token \in page.objects /\ Entries(job.rows) > job.size
  <2>1. page.token \in job.rows /\ page.token # <<>>
    BY <1>1, <1>4, <1>6, <1>8, KeysArePaths DEF Answer
  <2>2. k \in Objects(job.rows) => k \in page.objects \/ Before(page.token, k)
    BY <1>1, <1>4, <1>6, <1>8, <2>1, KeysArePaths DEF Answer
  <2> QED
    BY <1>2, <1>3, <1>6, <2>1, <2>2
<1>9. CASE /\ \E f \in Folders(job.rows) : page.token = Marker(f)
           /\ Objects(job.rows) = {}
  <2>1. PICK r \in job.rows : page.token = Marker(FolderOf(r))
    BY <1>9 DEF Folders
  <2>2. ~Direct(r) /\ r \in Key /\ r \in Path /\ Like(job.prefix, r)
    BY <1>1, <1>4, <1>9, KeysArePaths DEF Objects, Reading
  <2>3. job.delim /\ Len(r) # Len(job.prefix) + 1
    BY <2>2 DEF Direct
  <2>4. Len(r) > Len(job.prefix) + 1 /\ Len(job.prefix) < Len(r)
    BY <1>4, <2>2, <2>3, LikeIsLonger DEF Path
  <2>5. Within(job.prefix, r)
    BY <1>1, <2>2, <2>3, <2>4 DEF FoldersApart, Asked, Reading
  <2>6. IsPrefix(FolderOf(r), r) /\ FolderOf(r) \in Path
        /\ Len(FolderOf(r)) < Len(r)
    BY <1>1, <2>2, <2>4, <2>5, FolderLeadsToKey, FoldersArePaths
  <2>7. Before(r, k)
    BY <1>2, <1>3, <1>9
  <2>8. /\ page.token \in Path /\ page.token # <<>>
        /\ page.token = r \/ Before(page.token, r)
    BY <2>1, <2>2, <2>6, MarkerOrder
  <2> QED
    BY <1>5, <1>6, <2>2, <2>7, <2>8, BeforeTransitive
<1> QED
  BY <1>1, <1>4, <1>6, <1>7, <1>8, <1>9 DEF Answer

-----------------------------------------------------------------------------
(***************************************************************************)
(* Deleting a folder                                                       *)
(***************************************************************************)

LEMMA WithinIsLike ==
    ASSUME NEW p \in Path, NEW k \in Path, Within(p, k) PROVE Like(p, k)
<1>1. Len(p) \in Nat /\ Len(k) \in Nat /\ Len(p) < Len(k)
  BY DEF Within, Path
<1>2. \A i \in DOMAIN p : p[i] = k[i]
  <2> SUFFICES ASSUME NEW i \in DOMAIN p PROVE p[i] = k[i]
    OBVIOUS
  <2>1. i \in 1..Len(p)
    BY DEF Path
  <2>2. SubSeq(p, 1, Len(p)) = SubSeq(k, 1, Len(p))
    BY DEF Within, IsPrefix
  <2>3. SubSeq(p, 1, Len(p))[i] = p[i] /\ SubSeq(k, 1, Len(p))[i] = k[i]
    BY <1>1, <2>1 DEF Path
  <2> QED
    BY <2>2, <2>3
<1> QED
  BY <1>1, <1>2 DEF Like

\* What is left to delete is in the work list or after the token.
DeleteGood ==
    job # Idle /\ job.kind = "delete" =>
        /\ \A k \in Untouched : ~Like(job.prefix, k) => k \in DOMAIN store
        /\ \A k \in Staying : Like(job.prefix, k) =>
              /\ job.pc \in {"scan", "page"} => Before(job.token, k)
              /\ job.pc = "delete" =>
                    k \in job.todo \/ (job.token # <<>> /\ Before(job.token, k))
              /\ job.pc # "done"

LEMMA UntouchedAtStart ==
    ASSUME TypeInv, StartList \/ StartDelete \/ StartRename
    PROVE  /\ job' \in Job /\ Untouched' = DOMAIN store' /\ Staying' = DOMAIN store'
           /\ \A k \in DOMAIN store' : k \in Key /\ k \in Path /\ Before(job'.token, k)
<1>1. /\ job' \in Job /\ UNCHANGED store /\ start' = store /\ touched' = {}
      /\ job'.token = <<>>
  BY StartMoves
<1>2. DOMAIN store \subseteq Key
  BY DEF TypeInv, TypeOK
<1> QED
  BY <1>1, <1>2, KeysArePaths, EmptyIsFirst DEF Untouched, Staying

LEMMA DeleteGoodNext ==
    TypeInv /\ Covers /\ DeleteGood /\ [Next]_vars => DeleteGood'
<1> SUFFICES ASSUME TypeInv, Covers, DeleteGood, [Next]_vars PROVE DeleteGood'
  OBVIOUS
<1>1. ASSUME StartList \/ StartDelete \/ StartRename PROVE DeleteGood'
  <2>1. job'.pc \in {"scan", "copy"}
    BY <1>1, StartMoves
  <2> QED
    BY <1>1, <2>1, UntouchedAtStart DEF DeleteGood
<1>2. ASSUME SameRequest, Untouched' = Untouched, UNCHANGED store, job # Idle,
             job'.pc = "failed" \/ (job.pc = "scan" /\ job'.pc \in {"scan", "page"}
                                    /\ job'.token = job.token)
      PROVE  DeleteGood'
  <2>1. Staying' = Staying
    BY <1>2 DEF Staying
  <2> QED
    BY <1>2, <2>1 DEF DeleteGood, SameRequest
<1>3. ASSUME Scan PROVE DeleteGood'
  <2>1. job.pc = "scan" /\ job # Idle
    BY <1>3, IdleHasNoWork DEF Scan, TypeInv
  <2> QED
    BY <1>2, <1>3, <2>1, ScanMoves, JobStepHistory DEF JobStep
<1>4. ASSUME Fail PROVE DeleteGood'
  <2>1. job # Idle
    BY <1>4, FailMoves, IdleHasNoWork DEF TypeInv
  <2> QED
    BY <1>2, <1>4, <2>1, FailMoves, JobStepHistory DEF JobStep
<1>5. ASSUME TakePage PROVE DeleteGood'
  <2>1. SUFFICES ASSUME job'.kind = "delete" PROVE DeleteGood'
    BY DEF DeleteGood
  <2>2. /\ SameRequest /\ UNCHANGED store /\ job.pc = "page"
        /\ job'.token = Page(job.rows).token
        /\ \/ /\ Page(job.rows).objects = {}
              /\ job'.pc = IF job'.token = <<>> THEN "done" ELSE "scan"
           \/ /\ job'.pc = "delete"
              /\ job'.todo = Page(job.rows).objects
    BY <1>5, <2>1, PageMoves DEF SameRequest
  <2>3. job # Idle /\ Asked /\ job.kind = "delete"
    BY <2>1, <2>2, IdleHasNoWork DEF TypeInv, JobSound, SameRequest
  <2>4. Untouched' = Untouched /\ Staying' = Staying
    BY <1>5, <2>2, JobStepHistory DEF JobStep, Staying
  <2>5. ~job.delim
    BY <2>3 DEF Asked
  <2>6. ASSUME NEW k \in Staying, Like(job.prefix, k)
        PROVE  \/ k \in Page(job.rows).objects
               \/ Page(job.rows).token # <<>> /\ Before(Page(job.rows).token, k)
    <3>1. Before(job.token, k)
      BY <2>2, <2>3, <2>6 DEF DeleteGood
    <3> QED
      BY <1>5, <2>5, <2>6, <3>1, PageCovers DEF Direct
  <2>7. \A k \in Staying : Like(job'.prefix, k) =>
              /\ job'.pc \in {"scan", "page"} => Before(job'.token, k)
              /\ job'.pc = "delete" =>
                    k \in job'.todo \/ (job'.token # <<>> /\ Before(job'.token, k))
              /\ job'.pc # "done"
    BY <2>2, <2>6 DEF SameRequest
  <2> QED
    BY <2>2, <2>3, <2>4, <2>7 DEF DeleteGood, SameRequest
<1>6. ASSUME DeleteNext PROVE DeleteGood'
  <2>1. PICK k \in job.todo : store' = Without(store, k) /\ NextKey(k, "delete")
    BY <1>6, DeleteMoves
  <2>2. job.pc = "delete" /\ job \in Job /\ job # Idle /\ Working /\ Asked
    BY <1>6, DeleteMoves, AtWork, JobIsBusy
  <2>3. /\ SameRequest /\ job'.token = job.token
        /\ \/ /\ job.todo = {k}
              /\ job'.pc = IF job.token = <<>> THEN "done" ELSE "scan"
           \/ /\ job.todo # {k}
              /\ job'.pc = "delete" /\ job'.todo = job.todo \ {k}
    BY <2>1, <2>2, NextKeyMoves
  <2>4. job.kind = "delete" /\ job.whole /\ Like(job.prefix, k)
    BY <2>2 DEF Working, Asked
  <2>5. DOMAIN store' = DOMAIN store \ {k}
    BY <2>1 DEF Without
  <2>6. Untouched' = Untouched /\ Staying' = Staying \ {k}
    <3>1. Untouched' = Untouched
      BY <1>6, JobStepHistory DEF JobStep
    <3> QED
      BY <2>5, <3>1 DEF Staying
  <2>7. \A l \in Untouched : ~Like(job.prefix, l) => l \in DOMAIN store'
    BY <2>2, <2>4, <2>5 DEF DeleteGood
  <2>8. \A l \in Staying \ {k} : Like(job.prefix, l) =>
            /\ job'.pc \in {"scan", "page"} => Before(job'.token, l)
            /\ job'.pc = "delete" =>
                  l \in job'.todo \/ (job'.token # <<>> /\ Before(job'.token, l))
            /\ job'.pc # "done"
    BY <2>2, <2>3, <2>4 DEF DeleteGood
  <2> QED
    BY <2>3, <2>6, <2>7, <2>8 DEF DeleteGood, SameRequest
<1>7. ASSUME CopyNext \/ Cleanup PROVE DeleteGood'
  <2>1. job.pc \in {"copy", "cleanup"}
    BY <1>7 DEF CopyNext, Cleanup
  <2>2. job.kind = "rename" /\ job \in Job
    BY <2>1, AtWork DEF Working
  <2>3. SameRequest
    <3>1. CASE CopyNext
      BY <3>1, CopyMoves
    <3>2. CASE Cleanup
      BY <2>2, <3>2, CleanupMoves, NextKeyMoves
    <3> QED
      BY <1>7, <3>1, <3>2
  <2> QED
    BY <2>2, <2>3 DEF DeleteGood, SameRequest
<1>8. ASSUME NEW w \in Key, Write(w) PROVE DeleteGood'
  <2>1. /\ UNCHANGED job /\ Untouched' = Untouched \ {w}
        /\ DOMAIN store \ {w} = DOMAIN store' \ {w}
    BY <1>8, WriteMoves
  <2>2. Staying' \subseteq Staying
    BY <2>1 DEF Staying
  <2> QED
    BY <2>1, <2>2 DEF DeleteGood
<1>9. ASSUME UNCHANGED vars PROVE DeleteGood'
  BY <1>9 DEF vars, DeleteGood, Staying, Untouched
<1> QED
  BY <1>1, <1>3, <1>4, <1>5, <1>6, <1>7, <1>8, <1>9 DEF Next, JobStep

LEMMA IdleAtFirst == Init => job = Idle
  BY DEF Init

LEMMA CoversInit == Init => Covers
<1>1. Idle.pc = "idle"
  BY DEF Idle
<1> QED
  BY <1>1, IdleAtFirst DEF Covers

LEMMA CoversInvariant == Spec => [](TypeInv /\ Covers)
<1>1. Init => Covers
  BY CoversInit
<1> QED
  BY <1>1, CoversNext, TypeInvariant, PTL DEF Spec

\* Deleting a folder takes all that was in it from the start and nothing that
\* is not like it, page by page, whatever others put and delete meanwhile.
THEOREM FolderGoes == Spec => []FolderIsDeleted
<1>1. Init => DeleteGood
  BY IdleAtFirst DEF DeleteGood
<1>2. TypeInv /\ DeleteGood => FolderIsDeleted
  <2> SUFFICES ASSUME TypeInv, DeleteGood, job.pc # "idle", job.kind = "delete",
                      NEW k \in Untouched
               PROVE  /\ job.pc = "done" /\ Within(job.prefix, k) => k \notin DOMAIN store
                      /\ ~Like(job.prefix, k) => k \in DOMAIN store
    BY DEF FolderIsDeleted
  <2>1. job # Idle /\ job \in Job
    BY IdleHasNoWork DEF TypeInv
  <2>2. k \in Path /\ job.prefix \in Path
    BY <2>1, JobParts, KeysArePaths DEF TypeInv, TypeOK, Untouched
  <2>3. Within(job.prefix, k) => Like(job.prefix, k)
    BY <2>2, WithinIsLike
  <2> QED
    BY <2>1, <2>3 DEF DeleteGood, Staying
<1> QED
  BY <1>1, <1>2, DeleteGoodNext, CoversInvariant, PTL DEF Spec

-----------------------------------------------------------------------------
(***************************************************************************)
(* Listing a folder                                                        *)
(***************************************************************************)

Ever == DOMAIN start \cup touched

\* A token is a key of the folder itself, or the path of a folder in it.
TokenForm ==
    \/ Len(job.token) = Len(job.prefix) + 1
    \/ \E g \in Path : Len(g) = Len(job.prefix) + 1 /\ job.token = Marker(g)

\* The client has got what is not after the token, and each key once.
ListGood ==
    job # Idle /\ job.kind = "list" /\ (~job.delim \/ FoldersApart) =>
        /\ Untouched \subseteq DOMAIN store /\ DOMAIN store \subseteq Ever
        /\ job.pc \in {"scan", "page"} => job.rows \subseteq Ever
        /\ job.seen \subseteq Ever
        /\ job.dup = {}
        /\ job.delim /\ job.token # <<>> => TokenForm
        /\ job.pc \in {"scan", "page"} =>
              \A k \in job.seen : job.token # <<>> /\ ~Before(job.token, k)
        /\ \A k \in Untouched : Within(job.prefix, k) /\ Direct(k) =>
              /\ job.pc \in {"scan", "page"} => k \in job.seen \/ Before(job.token, k)
              /\ job.pc = "done" => k \in job.seen

\* No page goes back behind the last one.
LEMMA TokenMovesOn ==
    ASSUME TypeInv, TakePage, job.kind = "list", ~job.delim \/ FoldersApart,
           job.delim /\ job.token # <<>> => TokenForm,
           job.token # <<>>, job'.token # <<>>, NEW k \in Path, Before(job'.token, k)
    PROVE  Before(job.token, k)
<1>1. /\ Reading /\ Answer(job.rows) /\ Listed(job.rows) /\ job.pc = "page"
      /\ job'.token = Page(job.rows).token
  BY PageMoves
<1>2. job \in Job /\ Asked
  BY <1>1, IdleHasNoWork DEF TypeInv, JobSound
<1>3. job.token \in Path /\ job.prefix \in Path /\ job.rows \in SUBSET Key
      /\ Objects(job.rows) \in SUBSET job.rows
  BY <1>1, <1>2, JobParts, EntriesAreFinite
<1>4. CASE job'.token \in Page(job.rows).objects
  <2>1. job'.token \in job.rows /\ job'.token \in Path
    BY <1>1, <1>3, <1>4, KeysArePaths DEF Answer
  <2> QED
    BY <1>1, <1>3, <2>1, BeforeTransitive DEF Reading
<1>5. CASE \E f \in Folders(job.rows) : job'.token = Marker(f)
  <2>1. PICK r \in job.rows : job'.token = Marker(FolderOf(r)) /\ ~Direct(r)
    BY <1>5 DEF Folders, Objects
  <2>2. r \in Key /\ r \in Path /\ Like(job.prefix, r) /\ Before(job.token, r)
    BY <1>1, <1>3, KeysArePaths DEF Reading
  <2>3. job.delim /\ Len(r) > Len(job.prefix) + 1 /\ Len(job.prefix) < Len(r)
    BY <1>3, <2>1, <2>2, LikeIsLonger DEF Direct, Path
  <2>4. Within(job.prefix, r)
    BY <1>1, <1>2, <2>2, <2>3 DEF FoldersApart, Asked, Reading
  <2>5. PICK f \in Path : /\ f = FolderOf(r) /\ IsPrefix(f, r)
                          /\ Len(f) = Len(job.prefix) + 1
    BY <1>2, <2>2, <2>3, <2>4, FolderLeadsToKey, FoldersArePaths
  <2>6. /\ job'.token = Marker(f) /\ job'.token \in Path
        /\ Before(f, job'.token)
    BY <2>1, <2>5, MarkerOrder
  <2>7. job.token = job'.token \/ Before(job.token, job'.token)
    <3>1. CASE Len(job.token) = Len(job.prefix) + 1
      <4>1. job.token = f \/ Before(job.token, f)
        BY <1>3, <2>2, <2>5, <3>1, FolderOrder
      <4> QED
        BY <1>3, <2>5, <2>6, <4>1, BeforeTransitive
    <3>2. CASE \E g \in Path : Len(g) = Len(job.prefix) + 1 /\ job.token = Marker(g)
      <4>1. PICK g \in Path : Len(g) = Len(job.prefix) + 1 /\ job.token = Marker(g)
        BY <3>2
      <4>2. Before(g, r)
        BY <1>3, <2>2, <4>1, MarkerOrder, BeforeTransitive
      <4>3. g = f \/ Before(g, f)
        BY <2>2, <2>5, <4>1, <4>2, FolderOrder
      <4> QED
        BY <2>5, <2>6, <4>1, <4>3, MarkersInOrder
    <3> QED
      BY <2>3, <3>1, <3>2 DEF TokenForm
  <2> QED
    BY <1>3, <2>6, <2>7, BeforeTransitive
<1> QED
  BY <1>1, <1>4, <1>5 DEF Answer

LEMMA ListGoodNext == TypeInv /\ Covers /\ ListGood /\ [Next]_vars => ListGood'
<1> SUFFICES ASSUME TypeInv, Covers, ListGood, [Next]_vars PROVE ListGood'
  OBVIOUS
<1>1. ASSUME StartList \/ StartDelete \/ StartRename PROVE ListGood'
  <2>1. /\ job' \in Job /\ UNCHANGED store /\ start' = store /\ touched' = {}
        /\ job'.token = <<>> /\ job'.seen = {} /\ job'.dup = {}
        /\ \/ job'.pc = "scan" /\ job'.rows = {}
           \/ job'.pc = "copy" /\ job'.kind = "rename"
    BY <1>1, StartMoves
  <2>2. Untouched' = DOMAIN store' /\ \A k \in DOMAIN store' : Before(job'.token, k)
    BY <1>1, UntouchedAtStart
  <2> QED
    BY <2>1, <2>2 DEF ListGood, Ever
<1>2. ASSUME Scan PROVE ListGood'
  <2>1. /\ SameRequest /\ UNCHANGED store /\ job.pc = "scan" /\ job # Idle
        /\ job'.rows = job.rows \cup Taken /\ job'.token = job.token
        /\ job'.seen = job.seen /\ job'.dup = job.dup
        /\ job'.pc \in {"scan", "page"}
    <3>1. job.pc = "scan" /\ job # Idle
      BY <1>2, IdleHasNoWork DEF Scan, TypeInv
    <3> QED
      BY <1>2, <3>1, ScanMoves
  <2>2. UNCHANGED <<start, touched>> /\ Untouched' = Untouched /\ Ever' = Ever
    BY <1>2, JobStepHistory DEF JobStep, Ever
  <2>3. Taken \subseteq DOMAIN store
    BY <2>1, ScanReads DEF Ahead
  <2>4. \A k : Direct(k)' = Direct(k)
    BY <2>1 DEF Direct, SameRequest
  <2> QED
    BY <2>1, <2>2, <2>3, <2>4 DEF ListGood, SameRequest, TokenForm
<1>3. ASSUME Fail PROVE ListGood'
  <2>1. /\ SameRequest /\ UNCHANGED store /\ job # Idle
        /\ job'.pc = "failed" /\ job'.seen = job.seen /\ job'.dup = job.dup
        /\ job'.token = job.token
    <3>1. job # Idle /\ job \in Job
      BY <1>3, FailMoves, IdleHasNoWork DEF TypeInv
    <3>2. job'.token = job.token
      BY <1>3, <3>1 DEF Fail, Job
    <3> QED
      BY <1>3, <3>1, <3>2, FailMoves
  <2>2. UNCHANGED <<start, touched>> /\ Untouched' = Untouched /\ Ever' = Ever
    BY <1>3, JobStepHistory DEF JobStep, Ever
  <2> QED
    BY <2>1, <2>2 DEF ListGood, SameRequest, TokenForm
<1>4. ASSUME TakePage PROVE ListGood'
  <2>1. SUFFICES ASSUME job'.kind = "list", ~job'.delim \/ FoldersApart PROVE ListGood'
    BY DEF ListGood
  <2>2. PICK page : page = Page(job.rows)
    OBVIOUS
  <2>3. /\ SameRequest /\ UNCHANGED store /\ job.pc = "page" /\ Reading
        /\ Answer(job.rows) /\ Listed(job.rows)
        /\ job'.token = page.token
        /\ job'.seen = job.seen \cup page.objects
        /\ job'.dup = job.dup \cup (job.seen \cap page.objects)
        /\ job'.pc = IF job'.token = <<>> THEN "done" ELSE "scan"
        /\ job'.pc = "scan" => job'.rows = {}
    BY <1>4, <2>1, <2>2, PageMoves DEF SameRequest
  <2>4. job # Idle /\ job \in Job /\ job.kind = "list" /\ (~job.delim \/ FoldersApart)
    BY <2>1, <2>3, IdleHasNoWork DEF TypeInv, SameRequest
  <2>5. UNCHANGED <<start, touched>> /\ Untouched' = Untouched /\ Ever' = Ever
    BY <1>4, JobStepHistory DEF JobStep, Ever
  <2>6. /\ page.objects \in SUBSET Objects(job.rows)
        /\ Objects(job.rows) \in SUBSET job.rows /\ job.rows \in SUBSET Key
        /\ job.token \in Path /\ job.prefix \in Path
    BY <2>2, <2>3, <2>4, EntriesAreFinite, JobParts DEF Answer
  <2>7. \A k : Direct(k)' = Direct(k)
    BY <2>3 DEF Direct, SameRequest
  <2>8. job'.dup = {}
    <3>1. \A k \in page.objects : Before(job.token, k)
      BY <2>3, <2>6 DEF Reading
    <3>2. \A k \in job.seen : ~Before(job.token, k)
      BY <2>3, <2>4 DEF ListGood
    <3> QED
      BY <2>3, <2>4, <3>1, <3>2 DEF ListGood
  <2>9. ASSUME NEW k \in job'.seen, job'.token # <<>> PROVE ~Before(job'.token, k)
    <3>1. CASE k \in job.seen
      <4>1. job.token # <<>> /\ ~Before(job.token, k)
        BY <2>3, <2>4, <3>1 DEF ListGood
      <4>2. k \in Path
        BY <2>4, <3>1, KeysArePaths DEF Job
      <4>3. job.delim /\ job.token # <<>> => TokenForm
        BY <2>4 DEF ListGood
      <4> QED
        BY <1>4, <2>4, <2>9, <4>1, <4>2, <4>3, TokenMovesOn
    <3>2. CASE k \in page.objects
      <4>1. page.token \in page.objects
        BY <2>2, <2>3, <2>6, <2>9, <3>2 DEF Answer
      <4>2. page.token \in Key /\ page.token # <<>>
        BY <2>6, <4>1, KeysArePaths
      <4> QED
        BY <2>2, <2>3, <2>6, <3>2, <4>1, <4>2 DEF Answer
    <3> QED
      BY <2>3, <2>9, <3>1, <3>2
  <2>10. job'.delim /\ job'.token # <<>> => TokenForm'
    <3>1. CASE page.token \in page.objects
      BY <2>3, <2>6, <3>1 DEF Objects, Direct, SameRequest, TokenForm
    <3>2. CASE \E f \in Folders(job.rows) : page.token = Marker(f)
      <4>1. PICK r \in job.rows : page.token = Marker(FolderOf(r))
        BY <3>2 DEF Folders
      <4>2. r \in Key /\ Len(job.prefix) < Len(r)
        BY <2>3 DEF Listed
      <4>3. PICK g \in Path : g = FolderOf(r) /\ Len(g) = Len(job.prefix) + 1
        BY <2>4, <4>2, FoldersArePaths
      <4>4. job'.token = Marker(g) /\ job'.prefix = job.prefix
        BY <2>3, <4>1, <4>3 DEF SameRequest
      <4> QED
        BY <4>3, <4>4 DEF TokenForm
    <3> QED
      BY <2>2, <2>3, <3>1, <3>2 DEF Answer
  <2>11. ASSUME NEW k \in Untouched, Within(job.prefix, k), Direct(k)
         PROVE  \/ k \in job'.seen
                \/ job'.token # <<>> /\ Before(job'.token, k)
    <3>1. k \in job.seen \/ Before(job.token, k)
      BY <2>3, <2>4, <2>11 DEF ListGood
    <3>2. k \in Staying
      BY <2>4, <2>11 DEF ListGood, Staying
    <3>3. Like(job.prefix, k)
      <4>1. k \in Path
        BY <3>2, KeysArePaths DEF Staying, TypeInv, TypeOK
      <4> QED
        BY <2>6, <2>11, <4>1, WithinIsLike
    <3> QED
      BY <1>4, <2>2, <2>3, <2>4, <2>11, <3>1, <3>2, <3>3, PageCovers
  <2>12. job'.seen \subseteq Ever
    BY <2>3, <2>4, <2>6 DEF ListGood
  <2>13. Untouched \subseteq DOMAIN store /\ DOMAIN store \subseteq Ever
    BY <2>4 DEF ListGood
  <2> QED
    BY <2>3, <2>4, <2>5, <2>7, <2>8, <2>9, <2>10, <2>11, <2>12, <2>13
    DEF ListGood, SameRequest
<1>5. ASSUME DeleteNext \/ CopyNext \/ Cleanup PROVE ListGood'
  <2>1. job.pc \in {"delete", "copy", "cleanup"}
    BY <1>5 DEF DeleteNext, CopyNext, Cleanup
  <2>2. job.kind # "list" /\ job \in Job
    BY <2>1, AtWork DEF Working
  <2>3. SameRequest
    <3>1. CASE DeleteNext
      BY <2>2, <3>1, DeleteMoves, NextKeyMoves
    <3>2. CASE CopyNext
      BY <3>2, CopyMoves
    <3>3. CASE Cleanup
      BY <2>2, <3>3, CleanupMoves, NextKeyMoves
    <3> QED
      BY <1>5, <3>1, <3>2, <3>3
  <2> QED
    BY <2>2, <2>3 DEF ListGood, SameRequest
<1>6. ASSUME NEW w \in Key, Write(w) PROVE ListGood'
  <2>1. /\ UNCHANGED <<job, start>> /\ touched' = touched \cup {w}
        /\ Untouched' = Untouched \ {w}
        /\ DOMAIN store \ {w} = DOMAIN store' \ {w}
    BY <1>6, WriteMoves
  <2>2. Ever' = Ever \cup {w}
    BY <2>1 DEF Ever
  <2>3. \A k : Direct(k)' = Direct(k)
    BY <2>1 DEF Direct
  <2> QED
    BY <2>1, <2>2, <2>3 DEF ListGood, TokenForm
<1>7. ASSUME UNCHANGED vars PROVE ListGood'
  BY <1>7 DEF vars, ListGood, TokenForm, Untouched, Ever, Direct
<1> QED
  BY <1>1, <1>2, <1>3, <1>4, <1>5, <1>6, <1>7 DEF Next, JobStep

LEMMA ListGoodInvariant == Spec => []ListGood
<1>1. Init => ListGood
  BY IdleAtFirst DEF ListGood
<1> QED
  BY <1>1, ListGoodNext, CoversInvariant, PTL DEF Spec

LEMMA ListGoodIsEnough ==
    ASSUME TypeInv, ListGood, ~job.delim \/ FoldersApart PROVE ObjectsAreListedOnce
<1> SUFFICES ASSUME job.pc = "done", job.kind = "list" PROVE ObjectsAreListedOnce
  BY DEF ObjectsAreListedOnce
<1>1. job # Idle
  BY DEF Idle
<1> QED
  BY <1>1 DEF ListGood, ObjectsAreListedOnce, Ever

\* A listing without a delimiter has every object that was there all the time,
\* and none twice, whatever is put or deleted between its pages.
THEOREM PlainListings == Spec => [](~job.delim => ObjectsAreListedOnce)
<1>1. TypeInv /\ ListGood => (~job.delim => ObjectsAreListedOnce)
  BY ListGoodIsEnough
<1> QED
  BY <1>1, ListGoodInvariant, TypeInvariant, PTL

\* So has one with a delimiter, if no key below a folder is like a folder of
\* another case: the token of a page of folders starts with the name of the
\* folder listed, and the keys of the other case are not where it leads to.
THEOREM ListedOnce ==
    ASSUME FoldersApart PROVE Spec => []ObjectsAreListedOnce
<1>1. TypeInv /\ ListGood => ObjectsAreListedOnce
  BY ListGoodIsEnough
<1> QED
  BY <1>1, ListGoodInvariant, TypeInvariant, PTL

-----------------------------------------------------------------------------
(***************************************************************************)
(* Renaming                                                                *)
(***************************************************************************)

\* The new folder is not in the old one nor the old one in it, the case of
\* letters aside.
Apart(m) ==
    \E i \in DOMAIN m.from \cap DOMAIN m.to : Fold[m.from[i]] # Fold[m.to[i]]

\* No two keys that are taken for keys of the folder get the same name.
NamesDiffer(m) ==
    \A k, l \in Key :
        /\ Like(m.from, k) /\ Like(m.from, l)
        /\ NameAfter(m, k) = NameAfter(m, l)
        => k = l

MovesAreSafe == \A m \in Moves : m.whole => Apart(m) /\ NamesDiffer(m)

\* The keys that a rename works on.
Source(k) == IF job.whole THEN Like(job.prefix, k) ELSE k = job.prefix

\* A name begins with the new folder.
LEMMA NewNameIsElsewhere ==
    ASSUME NEW m \in Moves, m.whole, Apart(m), NEW k \in Key
    PROVE  ~Like(m.from, NameAfter(m, k))
<1>1. m.from \in Seq(Nat) /\ m.to \in Seq(Nat) /\ k \in Seq(Nat)
  <2>1. m.from \in Folder /\ m.to \in Folder
    BY MovesAssumption
  <2> QED
    BY <2>1, KeysArePaths DEF Path
<1>2. PICK x \in Seq(Nat) : NameAfter(m, k) = m.to \o x
  <2>1. PICK from \in Seq(Nat) : from = m.from
    BY <1>1
  <2>2. CASE Within(from, k)
    <3>1. Len(from) \in Nat /\ Len(k) \in Nat
      BY <1>1
    <3>2. SubSeq(k, Len(from) + 1, Len(k)) \in Seq(Nat)
      BY <1>1, <3>1
    <3> QED
      BY <2>1, <2>2, <3>2 DEF NameAfter
  <2>3. CASE ~Within(from, k)
    BY <1>1, <2>1, <2>3 DEF NameAfter
  <2> QED
    BY <2>2, <2>3
<1>3. PICK i \in DOMAIN m.from \cap DOMAIN m.to : Fold[m.from[i]] # Fold[m.to[i]]
  BY DEF Apart
<1>4. (m.to \o x)[i] = m.to[i]
  BY <1>1, <1>3
<1> QED
  BY <1>2, <1>3, <1>4 DEF Like

LEMMA NewNames ==
    ASSUME MovesAreSafe, job \in Job, Asked, job.kind = "rename", job.prefix # job.to
    PROVE  /\ \A k \in Key : Source(k) => ~Source(NewName(k))
           /\ \A k, l \in Key : Source(k) /\ Source(l) /\ NewName(k) = NewName(l)
                                   => k = l
<1>1. PICK m \in Moves : m.whole = job.whole /\ m.from = job.prefix /\ m.to = job.to
  BY DEF Asked
<1>2. \A k : NewName(k) = NameAfter(m, k)
  BY <1>1 DEF NewName, NameAfter
<1>3. CASE job.whole
  <2>1. Apart(m) /\ NamesDiffer(m) /\ m.whole
    BY <1>1, <1>3 DEF MovesAreSafe
  <2>2. \A k \in Key : ~Like(m.from, NameAfter(m, k))
    BY <2>1, NewNameIsElsewhere
  <2> QED
    BY <1>1, <1>2, <1>3, <2>1, <2>2 DEF Source, NamesDiffer
<1>4. CASE ~job.whole
  BY <1>1, <1>2, <1>4 DEF Source, NameAfter
<1> QED
  BY <1>3, <1>4

\* An object is under its old name until it is under its new one, and one that
\* is not yet is in the work list or after the token.
RenameGood ==
    job # Idle /\ job.kind = "rename" /\ job.prefix # job.to =>
        \A k \in Untouched : Source(k) =>
            /\ k \in DOMAIN store => store[k] = start[k]
            /\ Renamed(k) /\ NewName(k) \notin touched =>
                  \/ Kept(k, NewName(k))
                  \/ /\ k \in DOMAIN store
                     /\ job.pc \in {"scan", "page"} => Before(job.token, k)
                     /\ job.pc \in {"copy", "cleanup"} =>
                           k \in job.todo \/ (job.token # <<>> /\ Before(job.token, k))
                     /\ job.pc = "cleanup" => k # job.key
                     /\ job.pc # "done"

LEMMA SameNames ==
    ASSUME SameRequest
    PROVE  \A k : /\ NewName(k)' = NewName(k) /\ Renamed(k)' = Renamed(k)
                  /\ Source(k)' = Source(k)
  BY DEF SameRequest, NewName, NameAfter, Renamed, Source

LEMMA RenamedIsSource ==
    ASSUME job \in Job, NEW k \in Key, Renamed(k) PROVE Source(k)
<1>1. job.prefix \in Path /\ k \in Path
  BY JobParts, KeysArePaths
<1> QED
  BY <1>1, WithinIsLike DEF Renamed, Source

LEMMA RenameGoodNext ==
    ASSUME MovesAreSafe
    PROVE  TypeInv /\ Covers /\ RenameGood /\ [Next]_vars => RenameGood'
<1> SUFFICES ASSUME TypeInv, Covers, RenameGood, [Next]_vars PROVE RenameGood'
  OBVIOUS
<1>1. ASSUME StartList \/ StartDelete \/ StartRename PROVE RenameGood'
  <2>1. /\ job' \in Job /\ UNCHANGED store /\ start' = store /\ touched' = {}
        /\ \/ job'.whole /\ job'.pc = "scan"
           \/ ~job'.whole /\ job'.pc = "copy" /\ job'.todo = {job'.prefix}
    BY <1>1, StartMoves
  <2>2. Untouched' = DOMAIN store' /\ \A k \in DOMAIN store' : Before(job'.token, k)
    BY <1>1, UntouchedAtStart
  <2>3. ASSUME NEW k \in Untouched', Source(k)'
        PROVE  /\ store'[k] = start'[k] /\ k \in DOMAIN store'
               /\ job'.pc \in {"scan", "page"} => Before(job'.token, k)
               /\ job'.pc \in {"copy", "cleanup"} => k \in job'.todo
               /\ job'.pc \in {"scan", "copy"}
    BY <2>1, <2>2, <2>3 DEF Source
  <2> QED
    BY <2>3 DEF RenameGood
<1>2. ASSUME SameRequest, UNCHANGED <<store, start, touched>>, job # Idle,
             job'.pc = "failed" \/ (job.pc = "scan" /\ job'.pc \in {"scan", "page"}
                                    /\ job'.token = job.token)
      PROVE  RenameGood'
  <2>1. Untouched' = Untouched /\ \A k, n : Kept(k, n)' = Kept(k, n)
    BY <1>2 DEF Untouched, Kept
  <2> QED
    BY <1>2, <2>1, SameNames DEF RenameGood, SameRequest
<1>3. ASSUME Scan PROVE RenameGood'
  <2>1. job.pc = "scan" /\ job # Idle
    BY <1>3, IdleHasNoWork DEF Scan, TypeInv
  <2> QED
    BY <1>2, <1>3, <2>1, ScanMoves, JobStepHistory DEF JobStep
<1>4. ASSUME Fail PROVE RenameGood'
  <2>1. job # Idle
    BY <1>4, FailMoves, IdleHasNoWork DEF TypeInv
  <2> QED
    BY <1>2, <1>4, <2>1, FailMoves, JobStepHistory DEF JobStep
<1>5. ASSUME TakePage PROVE RenameGood'
  <2>1. SUFFICES ASSUME job'.kind = "rename", job'.prefix # job'.to PROVE RenameGood'
    BY DEF RenameGood
  <2>2. /\ SameRequest /\ UNCHANGED store /\ job.pc = "page" /\ Reading
        /\ job'.token = Page(job.rows).token
        /\ \/ /\ Page(job.rows).objects = {}
              /\ job'.pc = IF job'.token = <<>> THEN "done" ELSE "scan"
           \/ /\ job'.pc = "copy"
              /\ job'.todo = Page(job.rows).objects
    BY <1>5, <2>1, PageMoves DEF SameRequest
  <2>3. job # Idle /\ Asked /\ job.kind = "rename" /\ job.prefix # job.to
    BY <2>1, <2>2, IdleHasNoWork DEF TypeInv, JobSound, SameRequest
  <2>4. /\ UNCHANGED <<start, touched>> /\ Untouched' = Untouched
        /\ \A k, n : Kept(k, n)' = Kept(k, n)
    BY <1>5, <2>2, JobStepHistory DEF JobStep, Kept
  <2>5. ~job.delim /\ job.whole
    BY <2>2, <2>3 DEF Asked, Reading
  <2>6. ASSUME NEW k \in Untouched, Source(k), k \in DOMAIN store, Before(job.token, k)
        PROVE  \/ k \in Page(job.rows).objects
               \/ Page(job.rows).token # <<>> /\ Before(Page(job.rows).token, k)
    <3>1. Like(job.prefix, k) /\ k \in Staying /\ Direct(k)
      BY <2>5, <2>6 DEF Source, Staying, Direct
    <3> QED
      BY <1>5, <2>5, <2>6, <3>1, PageCovers
  <2>7. ASSUME NEW k \in Untouched, Source(k)
        PROVE  /\ k \in DOMAIN store => store[k] = start[k]
               /\ Renamed(k) /\ NewName(k) \notin touched =>
                     \/ Kept(k, NewName(k))
                     \/ k \in DOMAIN store /\ Before(job.token, k)
    BY <2>2, <2>3, <2>7 DEF RenameGood
  <2>8. ASSUME NEW k \in Untouched, Source(k), Renamed(k), NewName(k) \notin touched
        PROVE  \/ Kept(k, NewName(k))
               \/ /\ k \in DOMAIN store
                  /\ job'.pc \in {"scan", "page"} => Before(job'.token, k)
                  /\ job'.pc \in {"copy", "cleanup"} =>
                       k \in job'.todo \/ (job'.token # <<>> /\ Before(job'.token, k))
                  /\ job'.pc # "cleanup" /\ job'.pc # "done"
    BY <2>2, <2>6, <2>7, <2>8
  <2> QED
    BY <2>2, <2>4, <2>7, <2>8, SameNames DEF RenameGood
<1>6. ASSUME DeleteNext PROVE RenameGood'
  <2>1. job.pc = "delete" /\ job \in Job /\ Working
    BY <1>6, DeleteMoves, AtWork
  <2>2. SameRequest /\ job.kind = "delete"
    BY <1>6, <2>1, DeleteMoves, NextKeyMoves DEF Working
  <2> QED
    BY <2>2 DEF RenameGood, SameRequest
<1>7. ASSUME CopyNext PROVE RenameGood'
  <2>1. SUFFICES ASSUME job'.prefix # job'.to PROVE RenameGood'
    BY DEF RenameGood
  <2>2. /\ job.pc = "copy" /\ SameRequest
        /\ job'.pc = "cleanup" /\ job'.todo = job.todo /\ job'.token = job.token
    BY <1>7, CopyMoves
  <2>3. PICK c \in job.todo : /\ c \in DOMAIN store
                              /\ store' = With(store, NewName(c), store[c])
                              /\ job'.key = c
    BY <1>7, CopyMoves
  <2>4. /\ job \in Job /\ Asked /\ Working /\ c \in Key /\ job # Idle
        /\ job.kind = "rename" /\ job.prefix # job.to
    BY <2>1, <2>2, AtWork, JobIsBusy DEF Working, SameRequest
  <2>5. Source(c)
    BY <2>4 DEF Source, Working
  <2>6. UNCHANGED <<start, touched>> /\ Untouched' = Untouched
    BY <1>7, JobStepHistory DEF JobStep
  <2>7. PICK n : n = NewName(c)
    OBVIOUS
  <2>8. /\ DOMAIN store' = DOMAIN store \cup {n} /\ store'[n] = store[c]
        /\ \A l \in DOMAIN store : l # n => store'[l] = store[l]
    BY <2>3, <2>7 DEF With
  <2>9. /\ \A k \in Key : Source(k) => k # n
        /\ \A k \in Key : Source(k) /\ NewName(k) = n => k = c
    BY <2>4, <2>5, <2>7, NewNames
  <2>10. ASSUME NEW k \in Untouched, Source(k)
         PROVE  /\ k \in DOMAIN store' => store'[k] = start'[k]
                /\ Renamed(k) /\ NewName(k) \notin touched =>
                      \/ Kept(k, NewName(k))'
                      \/ /\ k \in DOMAIN store' /\ k # c
                         /\ k \in job.todo \/ (job.token # <<>> /\ Before(job.token, k))
    <3>1. k \in Key /\ k # n
      BY <2>9, <2>10 DEF TypeInv, TypeOK, Untouched
    <3>2. /\ k \in DOMAIN store => store[k] = start[k]
          /\ Renamed(k) /\ NewName(k) \notin touched =>
                \/ Kept(k, NewName(k))
                \/ /\ k \in DOMAIN store
                   /\ k \in job.todo \/ (job.token # <<>> /\ Before(job.token, k))
      BY <2>2, <2>4, <2>10 DEF RenameGood
    <3>3. k \in DOMAIN store' => k \in DOMAIN store /\ store'[k] = start'[k]
      BY <2>6, <2>8, <3>1, <3>2
    <3>4. (k = c) => Kept(k, NewName(k))'
      <4>1. NewName(k)' = NewName(k)
        BY <2>2, SameNames
      <4> QED
        BY <2>3, <2>6, <2>7, <2>8, <3>2, <4>1 DEF Kept
    <3>5. ASSUME Kept(k, NewName(k)) PROVE Kept(k, NewName(k))'
      <4>1. NewName(k)' = NewName(k)
        BY <2>2, SameNames
      <4>2. CASE NewName(k) = n
        BY <2>9, <2>10, <3>1, <3>4, <4>2
      <4>3. CASE NewName(k) # n
        BY <2>6, <2>8, <3>5, <4>1, <4>3 DEF Kept
      <4> QED
        BY <4>2, <4>3
    <3> QED
      BY <2>8, <3>2, <3>3, <3>4, <3>5
  <2> QED
    BY <2>2, <2>3, <2>6, <2>10, SameNames DEF RenameGood
<1>8. ASSUME Cleanup PROVE RenameGood'
  <2>1. /\ job.pc = "cleanup" /\ job \in Job /\ job.key \in job.todo
        /\ UNCHANGED store \/ store' = Without(store, job.key)
        /\ NextKey(job.key, "copy")
    BY <1>8, CleanupMoves
  <2>2. PICK c \in job.todo : c = job.key
    BY <2>1
  <2>3. /\ SameRequest /\ job'.token = job.token
        /\ \/ /\ job.todo = {c}
              /\ job'.pc = IF job.token = <<>> THEN "done" ELSE "scan"
           \/ /\ job.todo # {c}
              /\ job'.pc = "copy" /\ job'.todo = job.todo \ {c}
    BY <2>1, <2>2, NextKeyMoves
  <2>4. SUFFICES ASSUME job.prefix # job.to PROVE RenameGood'
    BY <2>3 DEF RenameGood, SameRequest
  <2>5. /\ Asked /\ Working /\ c \in Key /\ job # Idle /\ job.kind = "rename"
    BY <2>1, <2>2, AtWork, JobIsBusy DEF Working
  <2>6. Source(c)
    BY <2>5 DEF Source, Working
  <2>7. UNCHANGED <<start, touched>> /\ Untouched' = Untouched
    BY <1>8, JobStepHistory DEF JobStep
  <2>8. /\ DOMAIN store' \subseteq DOMAIN store
        /\ \A l \in DOMAIN store : l # c => l \in DOMAIN store' /\ store'[l] = store[l]
        /\ \A l \in DOMAIN store' : store'[l] = store[l]
    <3>1. CASE UNCHANGED store
      BY <3>1
    <3>2. CASE store' = Without(store, job.key)
      BY <2>2, <3>2 DEF Without
    <3> QED
      BY <2>1, <3>1, <3>2
  <2>9. \A k \in Key : Source(k) => NewName(k) # c
    BY <2>1, <2>4, <2>5, <2>6, NewNames
  <2>10. ASSUME NEW k \in Untouched, Source(k)
         PROVE  /\ k \in DOMAIN store' => store'[k] = start'[k]
                /\ Renamed(k) /\ NewName(k) \notin touched =>
                      \/ Kept(k, NewName(k))'
                      \/ /\ k \in DOMAIN store' /\ k # c
                         /\ k \in job.todo \/ (job.token # <<>> /\ Before(job.token, k))
    <3>1. k \in Key
      BY <2>10 DEF TypeInv, TypeOK, Untouched
    <3>2. /\ k \in DOMAIN store => store[k] = start[k]
          /\ Renamed(k) /\ NewName(k) \notin touched =>
                \/ Kept(k, NewName(k))
                \/ /\ k \in DOMAIN store /\ k # c
                   /\ k \in job.todo \/ (job.token # <<>> /\ Before(job.token, k))
      BY <2>1, <2>2, <2>4, <2>5, <2>10 DEF RenameGood
    <3>3. ASSUME Kept(k, NewName(k)) PROVE Kept(k, NewName(k))'
      <4>1. NewName(k)' = NewName(k) /\ NewName(k) # c
        BY <2>3, <2>9, <2>10, <3>1, SameNames
      <4> QED
        BY <2>7, <2>8, <3>3, <4>1 DEF Kept
    <3> QED
      BY <2>7, <2>8, <3>2, <3>3
  <2>11. ASSUME NEW k, k # c, k \in job.todo \/ (job.token # <<>> /\ Before(job.token, k))
         PROVE  /\ job'.pc \in {"scan", "page"} => Before(job'.token, k)
                /\ job'.pc \in {"copy", "cleanup"} =>
                      k \in job'.todo \/ (job'.token # <<>> /\ Before(job'.token, k))
                /\ job'.pc # "cleanup" /\ job'.pc # "done"
    BY <2>3, <2>11
  <2> QED
    BY <2>3, <2>7, <2>10, <2>11, SameNames DEF RenameGood
<1>9. ASSUME NEW w \in Key, Write(w) PROVE RenameGood'
  <2>1. /\ UNCHANGED <<job, start>> /\ touched' = touched \cup {w}
        /\ Untouched' = Untouched \ {w}
        /\ DOMAIN store \ {w} = DOMAIN store' \ {w}
        /\ \A k \in DOMAIN store \ {w} : store'[k] = store[k]
    BY <1>9, WriteMoves
  <2>2. \A k : NewName(k)' = NewName(k) /\ Renamed(k)' = Renamed(k)
               /\ Source(k)' = Source(k)
    BY <2>1 DEF NewName, NameAfter, Renamed, Source
  <2>3. \A k, n : n # w => Kept(k, n)' = Kept(k, n)
    BY <2>1 DEF Kept
  <2> QED
    BY <2>1, <2>2, <2>3 DEF RenameGood
<1>10. ASSUME UNCHANGED vars PROVE RenameGood'
  BY <1>10 DEF vars, RenameGood, Untouched, Kept, NewName, NameAfter, Renamed, Source
<1> QED
  BY <1>1, <1>3, <1>4, <1>5, <1>6, <1>7, <1>8, <1>9, <1>10 DEF Next, JobStep

\* A rename loses nothing that nobody else touches, wherever it ends, whichever
\* of its deletions fail and whatever others put and delete, as long as neither
\* folder is in the other and no two of its keys get one name.
THEOREM RenamesLoseNothing ==
    ASSUME MovesAreSafe PROVE Spec => []RenameKeepsObjects
<1>1. Init => RenameGood
  BY IdleAtFirst DEF RenameGood
<1>2. TypeInv /\ RenameGood => RenameKeepsObjects
  <2> SUFFICES ASSUME TypeInv, RenameGood, job.pc # "idle", job.kind = "rename",
                      job.prefix # job.to, NEW k \in Untouched, Renamed(k),
                      NewName(k) \notin touched
               PROVE  /\ Kept(k, k) \/ Kept(k, NewName(k))
                      /\ job.pc = "done" => Kept(k, NewName(k))
    BY DEF RenameKeepsObjects
  <2>1. job # Idle /\ job \in Job /\ k \in Key
    BY IdleHasNoWork DEF TypeInv, TypeOK, Untouched
  <2>2. Source(k)
    BY <2>1, RenamedIsSource
  <2> QED
    BY <2>1, <2>2 DEF RenameGood, Kept
<1> QED
  BY <1>1, <1>2, RenameGoodNext, CoversInvariant, PTL DEF Spec

=============================================================================
