----------------------- MODULE GAZLFrozenMemoryProofs -----------------------
(***************************************************************************)
(* The assembler's data, and freezing and thawing it: for every program,   *)
(* every size of memory, every later version of the program and every      *)
(* buffer that is thawed.                                                  *)
(***************************************************************************)
EXTENDS GAZLFrozenMemory, FiniteSetTheorems, WellFoundedInduction, TLAPS

-----------------------------------------------------------------------------
(***************************************************************************)
(* Numbers and orders.                                                     *)
(***************************************************************************)

\* A set of numbers that is not empty has a least one.
LEMMA LeastNumber ==
  ASSUME NEW S \in SUBSET Nat, S # {}
  PROVE  \E n \in S : \A m \in S : n <= m
<1> DEFINE R == OpToRel(<, Nat)
<1>1. IsWellFoundedOn(R, Nat) BY NatLessThanWellFounded
<1>2. \A x, y \in Nat : y < x => <<y, x>> \in R BY DEF OpToRel
<1> HIDE DEF R
<1>3. PICK n \in S : \A m \in S : ~ (<<m, n>> \in R) BY <1>1, WFMin
<1>4. ASSUME NEW m \in S PROVE n <= m
  <2>1. m \in Nat /\ n \in Nat OBVIOUS
  <2>2. ~(m < n) BY <1>2, <1>3, <2>1
  <2> QED BY <2>1, <2>2
<1> QED BY <1>4

\* R orders S strictly and totally.
Orders(R, S) ==
  /\ \A x \in S : <<x, x>> \notin R
  /\ \A x, y, z \in S : <<x, y>> \in R /\ <<y, z>> \in R => <<x, z>> \in R
  /\ \A x, y \in S : x # y => <<x, y>> \in R \/ <<y, x>> \in R

\* In a finite set that is ordered, every place is taken.
LEMMA EveryRank ==
  ASSUME NEW S, IsFiniteSet(S), NEW R, Orders(R, S), NEW k \in 1 .. Cardinality(S)
  PROVE  \E x \in S : Cardinality({y \in S : <<y, x>> \in R}) = k - 1
<1> DEFINE Below(x) == {y \in S : <<y, x>> \in R}
           n == Cardinality(S)
           f == [x \in S |-> Cardinality(Below(x))]
<1>1. n \in Nat BY FS_CardinalityType
<1>2. ASSUME NEW x \in S PROVE IsFiniteSet(Below(x)) /\ Cardinality(Below(x)) \in 0 .. n - 1
  <2>1. Below(x) \in SUBSET S OBVIOUS
  <2>2. x \notin Below(x) BY DEF Orders
  <2>3. IsFiniteSet(Below(x)) /\ Cardinality(Below(x)) <= n BY <2>1, FS_Subset
  <2>4. Cardinality(Below(x)) \in Nat BY <2>3, FS_CardinalityType
  <2>5. Cardinality(Below(x)) # n BY <2>1, <2>2, FS_Subset
  <2> QED BY <1>1, <2>3, <2>4, <2>5
<1>3. ASSUME NEW x \in S, NEW y \in S, <<x, y>> \in R
      PROVE  Cardinality(Below(x)) # Cardinality(Below(y))
  <2>1. Below(x) \in SUBSET Below(y) BY <1>3 DEF Orders
  <2>2. x \in Below(y) /\ x \notin Below(x) BY <1>3 DEF Orders
  <2>3. IsFiniteSet(Below(y)) BY <1>2
  <2> QED BY <2>1, <2>2, <2>3, FS_Subset
<1>4. f \in Injection(S, 0 .. n - 1)
  <2>1. f \in [S -> 0 .. n - 1] BY <1>2
  <2>2. ASSUME NEW x \in S, NEW y \in S, f[x] = f[y] PROVE x = y
    <3>1. Cardinality(Below(x)) = Cardinality(Below(y)) BY <2>2
    <3> QED BY <1>3, <3>1, ZenonT(30) DEF Orders
  <2> QED BY <2>1, <2>2 DEF Injection, IsInjective
<1>5. IsFiniteSet(0 .. n - 1) /\ Cardinality(0 .. n - 1) = n
  <2>1. 0 \in Int /\ n - 1 \in Int BY <1>1
  <2>2. IsFiniteSet(0 .. n - 1) /\ Cardinality(0 .. n - 1) = IF 0 > n - 1 THEN 0 ELSE (n - 1) - 0 + 1
    BY <2>1, FS_Interval
  <2> QED BY <1>1, <2>2
<1>6. f \in Surjection(S, 0 .. n - 1) BY <1>4, <1>5, FS_Injection
<1>7. k - 1 \in 0 .. n - 1 BY <1>1
<1>8. PICK x \in S : f[x] = k - 1 BY <1>6, <1>7 DEF Surjection
<1> QED BY <1>8

-----------------------------------------------------------------------------
(***************************************************************************)
(* The order of names, by their bytes.                                     *)
(***************************************************************************)
Name == Seq(Byte)

\* A name is a sequence of bytes.
LEMMA NameParts ==
  ASSUME NEW a \in Name
  PROVE  Len(a) \in Nat /\ \A i \in 1 .. Len(a) : a[i] \in Int
<1>1. Len(a) \in Nat /\ \A i \in 1 .. Len(a) : a[i] \in Byte BY DEF Name
<1>2. Byte \subseteq Int BY DEF Byte
<1> QED BY <1>1, <1>2

\* Two names begin alike when they have the same bytes there.
LEMMA SameStart ==
  ASSUME NEW a \in Name, NEW b \in Name, NEW n \in Nat, n <= Len(a), n <= Len(b)
  PROVE  SubSeq(a, 1, n) = SubSeq(b, 1, n) <=> \A i \in 1 .. n : a[i] = b[i]
<1>1. SubSeq(a, 1, n) = [i \in 1 .. n |-> a[i]] BY DEF Name
<1>2. SubSeq(b, 1, n) = [i \in 1 .. n |-> b[i]] BY DEF Name
<1> QED BY <1>1, <1>2

\* The first place where one name is before the other.
BeforeAt(a, b, n) ==
  /\ n \in 0 .. Len(a) /\ n < Len(b)
  /\ \A i \in 1 .. n : a[i] = b[i]
  /\ n = Len(a) \/ a[n + 1] < b[n + 1]

\* Precedes, by the place.
LEMMA PrecedesAt ==
  ASSUME NEW a \in Name, NEW b \in Name
  PROVE  Precedes(a, b) <=> \E n \in Nat : BeforeAt(a, b, n)
<1>1. Len(a) \in Nat /\ Len(b) \in Nat BY NameParts
<1>2. ASSUME NEW n \in 0 .. Len(a), n < Len(b)
      PROVE  SubSeq(a, 1, n) = SubSeq(b, 1, n) <=> \A i \in 1 .. n : a[i] = b[i]
  BY <1>1, <1>2, SameStart
<1>3. ASSUME Precedes(a, b) PROVE \E n \in Nat : BeforeAt(a, b, n)
  BY <1>1, <1>2, <1>3 DEF Precedes, BeforeAt
<1>4. ASSUME NEW n \in Nat, BeforeAt(a, b, n) PROVE Precedes(a, b)
  BY <1>1, <1>2, <1>4 DEF Precedes, BeforeAt
<1> QED BY <1>3, <1>4

\* No name is before itself.
LEMMA PrecedesIrreflexive ==
  ASSUME NEW a \in Name
  PROVE  ~Precedes(a, a)
<1>1. ASSUME NEW n \in Nat, BeforeAt(a, a, n) PROVE FALSE
  BY <1>1, NameParts DEF BeforeAt
<1> QED BY <1>1, PrecedesAt

\* What is before one that is before a third is before it too.
LEMMA PrecedesTransitive ==
  ASSUME NEW a \in Name, NEW b \in Name, NEW c \in Name, Precedes(a, b), Precedes(b, c)
  PROVE  Precedes(a, c)
<1>1. PICK m \in Nat : BeforeAt(a, b, m) BY PrecedesAt
<1>2. PICK n \in Nat : BeforeAt(b, c, n) BY PrecedesAt
<1>3. /\ Len(a) \in Nat /\ Len(b) \in Nat /\ Len(c) \in Nat
      /\ \A i \in 1 .. Len(a) : a[i] \in Int
      /\ \A i \in 1 .. Len(b) : b[i] \in Int
      /\ \A i \in 1 .. Len(c) : c[i] \in Int
  BY NameParts
<1>4. CASE m <= n
  <2>1. \A i \in 1 .. m : a[i] = c[i] BY <1>1, <1>2, <1>3, <1>4 DEF BeforeAt
  <2>2. m \in 0 .. Len(a) /\ m < Len(c) BY <1>1, <1>2, <1>3, <1>4 DEF BeforeAt
  <2>3. m # Len(a) => a[m + 1] < c[m + 1]
    <3>1. SUFFICES ASSUME m # Len(a) PROVE a[m + 1] < c[m + 1] OBVIOUS
    <3>2. a[m + 1] < b[m + 1] BY <1>1, <3>1 DEF BeforeAt
    <3>3. m + 1 \in 1 .. Len(a) /\ m + 1 \in 1 .. Len(b) /\ m + 1 \in 1 .. Len(c)
      BY <1>1, <1>3, <2>2, <3>1 DEF BeforeAt
    <3>4. CASE m < n
      <4>1. b[m + 1] = c[m + 1] BY <1>2, <3>4 DEF BeforeAt
      <4> QED BY <3>2, <4>1
    <3>5. CASE m = n
      <4>1. b[m + 1] < c[m + 1] BY <1>1, <1>2, <1>3, <3>5 DEF BeforeAt
      <4> QED BY <1>3, <3>2, <3>3, <4>1
    <3> QED BY <1>4, <3>4, <3>5
  <2> QED BY <2>1, <2>2, <2>3, PrecedesAt DEF BeforeAt
<1>5. CASE n < m
  <2>1. \A i \in 1 .. n : a[i] = c[i] BY <1>1, <1>2, <1>3, <1>5 DEF BeforeAt
  <2>2. n \in 0 .. Len(a) /\ n < Len(c) /\ n # Len(b) BY <1>1, <1>2, <1>3, <1>5 DEF BeforeAt
  <2>3. b[n + 1] < c[n + 1] BY <1>2, <2>2 DEF BeforeAt
  <2>4. a[n + 1] = b[n + 1] BY <1>1, <1>5 DEF BeforeAt
  <2> QED BY <2>1, <2>2, <2>3, <2>4, PrecedesAt DEF BeforeAt
<1> QED BY <1>4, <1>5

\* Of two names one is before the other.
LEMMA PrecedesTotal ==
  ASSUME NEW a \in Name, NEW b \in Name, a # b
  PROVE  Precedes(a, b) \/ Precedes(b, a)
<1> DEFINE Differ == {i \in Nat \ {0} : i <= Len(a) /\ i <= Len(b) /\ a[i] # b[i]}
<1>1. /\ Len(a) \in Nat /\ Len(b) \in Nat
      /\ \A i \in 1 .. Len(a) : a[i] \in Int
      /\ \A i \in 1 .. Len(b) : b[i] \in Int
  BY NameParts
<1>2. CASE Differ # {}
  <2>1. PICK d \in Differ : \A i \in Differ : d <= i
    <3>1. Differ \in SUBSET Nat OBVIOUS
    <3> QED BY <1>2, <3>1, LeastNumber
  <2>2. d \in Nat /\ d - 1 \in Nat /\ d <= Len(a) /\ d <= Len(b) /\ a[d] # b[d] OBVIOUS
  <2>3. \A i \in 1 .. d - 1 : a[i] = b[i]
    <3>1. SUFFICES ASSUME NEW i \in 1 .. d - 1, a[i] # b[i] PROVE FALSE OBVIOUS
    <3>2. i \in Nat \ {0} /\ i <= Len(a) /\ i <= Len(b) /\ i < d BY <1>1, <2>2
    <3>3. i \in Differ BY <3>1, <3>2
    <3>4. d <= i BY <2>1, <3>3
    <3> QED BY <2>2, <3>2, <3>4
  <2>4. a[d] < b[d] \/ b[d] < a[d] BY <1>1, <2>2
  <2>5. (d - 1) + 1 = d BY <2>2
  <2>6. d - 1 \in 0 .. Len(a) /\ d - 1 \in 0 .. Len(b) /\ d - 1 < Len(a) /\ d - 1 < Len(b) BY <1>1, <2>2
  <2>7. BeforeAt(a, b, d - 1) \/ BeforeAt(b, a, d - 1) BY <2>3, <2>4, <2>5, <2>6 DEF BeforeAt
  <2> QED BY <2>2, <2>7, PrecedesAt
<1>3. CASE Differ = {}
  <2>1. \A i \in 1 .. Len(a) : i <= Len(b) => a[i] = b[i]
    <3>1. SUFFICES ASSUME NEW i \in 1 .. Len(a), i <= Len(b), a[i] # b[i] PROVE FALSE OBVIOUS
    <3>2. i \in Differ BY <1>1, <3>1
    <3> QED BY <1>3, <3>2
  <2>2. Len(a) # Len(b)
    <3>1. SUFFICES ASSUME Len(a) = Len(b) PROVE FALSE OBVIOUS
    <3>2. \A i \in 1 .. Len(a) : a[i] = b[i] BY <1>1, <2>1, <3>1
    <3>3. a = [i \in 1 .. Len(a) |-> a[i]] /\ b = [i \in 1 .. Len(b) |-> b[i]] BY DEF Name
    <3> QED BY <3>1, <3>2, <3>3
  <2>3. CASE Len(a) < Len(b)
    <3>1. BeforeAt(a, b, Len(a)) BY <1>1, <2>1, <2>3 DEF BeforeAt
    <3> QED BY <1>1, <3>1, PrecedesAt
  <2>4. CASE Len(b) < Len(a)
    <3>1. BeforeAt(b, a, Len(b)) BY <1>1, <2>1, <2>4 DEF BeforeAt
    <3> QED BY <1>1, <3>1, PrecedesAt
  <2> QED BY <1>1, <2>2, <2>3, <2>4
<1> QED BY <1>2, <1>3

-----------------------------------------------------------------------------
(***************************************************************************)
(* findMemoryOwners: whatever the names are, every place of the list has   *)
(* an owner of its own.                                                    *)
(***************************************************************************)
Found == {Owner(n) : n \in GlobNames}
RankOf(owner) == Cardinality({other \in Found : Precedes(other.name, owner.name)})

\* An owner is known by its name.
LEMMA FoundNamed ==
  ASSUME IsFiniteSet(defined), DataNames \subseteq Labels
  PROVE  /\ IsFiniteSet(Found)
         /\ \A n \in GlobNames : n \in Labels
         /\ \A owner \in Found : owner.name \in Name
         /\ \A x, y \in Found : x # y => Precedes(x.name, y.name) \/ Precedes(y.name, x.name)
<1>1. IsFiniteSet(Found)
  <2> DEFINE f == [n \in GlobNames |-> Owner(n)]
  <2>1. GlobNames \in SUBSET defined BY DEF GlobNames
  <2>2. IsFiniteSet(GlobNames) BY <2>1, FS_Subset
  <2>3. f \in Surjection(GlobNames, Found) BY DEF Found, Surjection
  <2> QED BY <2>2, <2>3, FS_Surjection
<1>2. \A n \in GlobNames : n \in Labels BY DEF GlobNames, DataNames, InGlob
<1>3. \A n \in GlobNames : NameBytes[n] \in Name BY <1>2, FrozenAssumption DEF Name
<1>4. \A owner \in Found : owner.name \in Name BY <1>3 DEF Found, Owner
<1>5. ASSUME NEW x \in Found, NEW y \in Found, x # y PROVE x.name # y.name
  <2>1. PICK m \in GlobNames : x = Owner(m) BY DEF Found
  <2>2. PICK n \in GlobNames : y = Owner(n) BY DEF Found
  <2>3. m # n BY <1>5, <2>1, <2>2
  <2>4. NameBytes[m] # NameBytes[n] BY <1>2, <2>3, FrozenAssumption
  <2> QED BY <2>1, <2>2, <2>4 DEF Owner
<1> QED BY <1>1, <1>2, <1>4, <1>5, PrecedesTotal

\* The rank of an owner is the number of those before it.
LEMMA RanksOrdered ==
  ASSUME IsFiniteSet(defined), DataNames \subseteq Labels
  PROVE  /\ \A x \in Found : RankOf(x) \in 0 .. Cardinality(Found) - 1
         /\ \A x, y \in Found : Precedes(x.name, y.name) => RankOf(x) < RankOf(y)
<1> DEFINE Below(x) == {other \in Found : Precedes(other.name, x.name)}
<1>1. IsFiniteSet(Found) /\ Cardinality(Found) \in Nat BY FoundNamed, FS_CardinalityType
<1>2. ASSUME NEW x \in Found
      PROVE  IsFiniteSet(Below(x)) /\ x \notin Below(x) /\ Cardinality(Below(x)) \in 0 .. Cardinality(Found) - 1
  <2>1. x \notin Below(x) BY FoundNamed, PrecedesIrreflexive
  <2>2. Below(x) \in SUBSET Found OBVIOUS
  <2> HIDE DEF Below
  <2>3. IsFiniteSet(Below(x)) /\ Cardinality(Below(x)) <= Cardinality(Found) BY <1>1, <2>2, FS_Subset
  <2>4. Cardinality(Below(x)) # Cardinality(Found) BY <1>1, <2>1, <2>2, FS_Subset
  <2>5. Cardinality(Below(x)) \in Nat BY <2>3, FS_CardinalityType
  <2> QED BY <1>1, <2>1, <2>3, <2>4, <2>5
<1>3. ASSUME NEW x \in Found, NEW y \in Found, Precedes(x.name, y.name)
      PROVE  Cardinality(Below(x)) < Cardinality(Below(y))
  <2>1. Below(x) \in SUBSET Below(y) BY <1>3, FoundNamed, PrecedesTransitive
  <2>2. x \in Below(y) BY <1>3
  <2>3. IsFiniteSet(Below(y)) /\ x \notin Below(x) BY <1>2
  <2> HIDE DEF Below
  <2>4. Cardinality(Below(x)) \in Nat /\ Cardinality(Below(y)) \in Nat
    <3>1. PICK k \in Nat : k = Cardinality(Found) BY <1>1
    <3>2. Cardinality(Below(x)) \in 0 .. k - 1 /\ Cardinality(Below(y)) \in 0 .. k - 1 BY <1>2, <3>1
    <3> QED BY <3>2
  <2>5. Cardinality(Below(x)) <= Cardinality(Below(y)) BY <2>1, <2>3, FS_Subset
  <2>6. Cardinality(Below(x)) # Cardinality(Below(y)) BY <2>1, <2>2, <2>3, FS_Subset
  <2> QED BY <2>4, <2>5, <2>6
<1> QED BY <1>2, <1>3 DEF RankOf

\* findMemoryOwners: the owner at each place has its rank.
LEMMA OwnersRanked ==
  ASSUME IsFiniteSet(defined), DataNames \subseteq Labels
  PROVE  /\ Len(findMemoryOwners) = Cardinality(Found)
         /\ Cardinality(Found) \in Nat
         /\ DOMAIN findMemoryOwners = 1 .. Cardinality(Found)
         /\ \A o \in 1 .. Cardinality(Found) : findMemoryOwners[o] \in Found /\ RankOf(findMemoryOwners[o]) = o - 1
<1> DEFINE R == {pair \in Found \X Found : Precedes(pair[1].name, pair[2].name)}
<1>1. IsFiniteSet(Found) /\ Cardinality(Found) \in Nat BY FoundNamed, FS_CardinalityType
<1>2. \A x, y \in Found : <<x, y>> \in R <=> Precedes(x.name, y.name) OBVIOUS
<1>3. Orders(R, Found)
  <2>1. \A x \in Found : <<x, x>> \notin R BY <1>2, FoundNamed, PrecedesIrreflexive
  <2>2. \A x, y, z \in Found : <<x, y>> \in R /\ <<y, z>> \in R => <<x, z>> \in R
    BY <1>2, FoundNamed, PrecedesTransitive
  <2>3. \A x, y \in Found : x # y => <<x, y>> \in R \/ <<y, x>> \in R BY <1>2, FoundNamed
  <2> QED BY <2>1, <2>2, <2>3 DEF Orders
<1>4. findMemoryOwners = [i \in 1 .. Cardinality(Found) |-> CHOOSE owner \in Found : RankOf(owner) = i - 1]
  BY DEF findMemoryOwners, Found, RankOf
<1>5. ASSUME NEW o \in 1 .. Cardinality(Found)
      PROVE  findMemoryOwners[o] \in Found /\ RankOf(findMemoryOwners[o]) = o - 1
  <2> HIDE DEF R
  <2>1. PICK x \in Found : Cardinality({y \in Found : <<y, x>> \in R}) = o - 1 BY <1>1, <1>3, EveryRank, SMTT(30)
  <2>2. {y \in Found : <<y, x>> \in R} = {y \in Found : Precedes(y.name, x.name)} BY <1>2
  <2>3. RankOf(x) = o - 1 BY <2>1, <2>2 DEF RankOf
  <2> QED BY <1>4, <2>3
<1> QED BY <1>1, <1>4, <1>5

\* findMemoryOwners: every place has an owner of words in a GLOB section, every owner a place, and
\* they are in the order of their names.
LEMMA OwnersFound ==
  ASSUME IsFiniteSet(defined), DataNames \subseteq Labels
  PROVE  /\ Len(findMemoryOwners) \in Nat
         /\ \A o \in 1 .. Len(findMemoryOwners) : \E n \in GlobNames : findMemoryOwners[o] = Owner(n)
         /\ \A n \in GlobNames : \E o \in 1 .. Len(findMemoryOwners) : findMemoryOwners[o] = Owner(n)
         /\ \A i, j \in 1 .. Len(findMemoryOwners) :
              i < j => Precedes(findMemoryOwners[i].name, findMemoryOwners[j].name)
<1> DEFINE owners == findMemoryOwners
           k == Cardinality(Found)
<1>1. Len(owners) = k /\ k \in Nat /\ \A o \in 1 .. k : owners[o] \in Found /\ RankOf(owners[o]) = o - 1
  BY OwnersRanked
<1>2. \A o \in 1 .. k : \E n \in GlobNames : owners[o] = Owner(n) BY <1>1 DEF Found
<1>3. ASSUME NEW n \in GlobNames PROVE \E o \in 1 .. k : owners[o] = Owner(n)
  <2>1. Owner(n) \in Found BY DEF Found
  <2>2. PICK o \in 1 .. k : o - 1 = RankOf(Owner(n))
    <3>1. RankOf(Owner(n)) \in 0 .. k - 1 BY <2>1, RanksOrdered
    <3>2. RankOf(Owner(n)) + 1 \in 1 .. k /\ (RankOf(Owner(n)) + 1) - 1 = RankOf(Owner(n)) BY <1>1, <3>1
    <3> QED BY <3>2
  <2>3. owners[o] \in Found /\ RankOf(owners[o]) = RankOf(Owner(n)) /\ RankOf(Owner(n)) \in Int
    BY <1>1, <2>1, <2>2, RanksOrdered
  <2>4. ~Precedes(owners[o].name, Owner(n).name) /\ ~Precedes(Owner(n).name, owners[o].name)
    <3> HIDE DEF owners
    <3>1. Precedes(owners[o].name, Owner(n).name) => RankOf(owners[o]) < RankOf(Owner(n)) BY <2>1, <2>3, RanksOrdered
    <3>2. Precedes(Owner(n).name, owners[o].name) => RankOf(Owner(n)) < RankOf(owners[o]) BY <2>1, <2>3, RanksOrdered
    <3> QED BY <2>3, <3>1, <3>2
  <2>5. owners[o] = Owner(n) BY <2>1, <2>3, <2>4, FoundNamed
  <2> QED BY <2>5
<1>4. ASSUME NEW i \in 1 .. k, NEW j \in 1 .. k, i < j PROVE Precedes(owners[i].name, owners[j].name)
  <2> HIDE DEF owners
  <2>1. owners[i] \in Found /\ owners[j] \in Found /\ RankOf(owners[i]) = i - 1 /\ RankOf(owners[j]) = j - 1
    BY <1>1
  <2>2. i \in Nat /\ j \in Nat BY <1>1
  <2>3. owners[i] # owners[j] BY <1>4, <2>1, <2>2
  <2>4. ~Precedes(owners[j].name, owners[i].name)
    <3>1. Precedes(owners[j].name, owners[i].name) => j - 1 < i - 1 BY <2>1, RanksOrdered
    <3> QED BY <1>4, <2>2, <3>1
  <2> QED BY <2>1, <2>3, <2>4, FoundNamed
<1> QED BY <1>1, <1>2, <1>3, <1>4

-----------------------------------------------------------------------------
(***************************************************************************)
(* The invariant of assembly.  An address is known before the sizes of the *)
(* regions are, so it is not said to be in them but in what is readable or *)
(* writable so far, which only grows.                                      *)
(***************************************************************************)
TypeName == FREE_ADDRESS \cup {"NULL_PTR", "FUNC", "CONST_INT", "TEMPORARY", "POINTER_CONSTANT"}
SymbolType ==
  [types : SUBSET TypeName, value : Int, declaredWords : Int, ownedWords : Int, minOffset : Int, maxOffset : Int]
ReferenceType ==
  [operand : [k : {"label"}, name : STRING, given : BOOLEAN, offset : Word], accepts : SUBSET (TypeName \cup {"FORWARD"}),
   storage : [place : {"memory", "code"}, index : Int]]
OperandType == [use : Uses \cup {"SWCH"}, address : Int, cases : Nat]
DataType ==
  [open : BOOLEAN, kind : {"GLOB", "TEMP", "CNST"}, pointer : Int, begin : Int, end : Int, owner : Labels \cup {NoName}]

Pointers ==
  /\ globalsPointer \in Nat
  /\ constantsPointer \in Int
  /\ globalsPointer <= constantsPointer
  /\ constantsPointer <= maxMemorySize - 1

SectionsType ==
  /\ program \in Seq(SUBSET AnyLine)
  /\ lines \in Seq(AnyLine)
  /\ Pointers
  /\ IsFiniteSet(defined)
  /\ \A n \in defined : globals[n] \in SymbolType
  /\ forwardRefs \in Seq(ReferenceType)
  /\ data \in DataType
  /\ code.operands \in Seq(OperandType)
  /\ variable \in SUBSET Int
  /\ status = "done" => forwardRefs = <<>>

\* With globals up to cell g and constants from cell c.
LowestConstant(c) == MEMORY_OFFSET - (maxMemorySize - 1 - c)
Readable(g, c) == LowestConstant(c) .. MEMORY_OFFSET + g - 1
Writable(g) == MEMORY_OFFSET .. MEMORY_OFFSET + g - 1

\* What a name lets an instruction reach.
NameInside(symbol, g, c) ==
  /\ "ADDRESS_W" \in symbol.types => "ADDRESS_R" \in symbol.types /\ SectionOf(symbol) \subseteq Writable(g)
  /\ "ADDRESS_R" \in symbol.types => SectionOf(symbol) \subseteq Readable(g, c)

SymbolsInside == \A n \in defined : NameInside(globals[n], globalsPointer, constantsPointer)

\* What an instruction reaches, unless it waits for a name.
OperandInside(operand, g, c) ==
  /\ operand.use = "PEEK" => operand.address \in Readable(g, c)
  /\ operand.use = "POKE" => operand.address \in Writable(g)
  /\ operand.use = "SWCH" => LowestConstant(c) <= operand.address /\ operand.address + operand.cases < MEMORY_OFFSET

Waits(n) == \E i \in DOMAIN forwardRefs : forwardRefs[i].storage = InCode(n)
OperandsInside == \A n \in DOMAIN code.operands : Waits(n) \/ OperandInside(code.operands[n], globalsPointer, constantsPointer)

\* An operand that waits is given no more than its instruction accepts.
AsAccepted(ref, operands) ==
  ref.storage.place = "code" =>
    LET n == ref.storage.index
    IN  /\ n \in DOMAIN operands
        /\ operands[n].use \in Uses
        /\ ref.accepts = Accepts(operands[n].use)

RefsAccepted == \A i \in DOMAIN forwardRefs : AsAccepted(forwardRefs[i], code.operands)

\* The open section is in its region; its last label owns the rest of it.
First(section) == makeGAZLPointer(section.begin, section.kind)
Here(section) == makeGAZLPointer(section.pointer, section.kind)
Past(section) == makeGAZLPointer(section.end, section.kind)

InRegion(section, g, c) ==
  /\ section.begin <= section.pointer /\ section.pointer <= section.end
  /\ section.kind = "CNST" => c <= section.begin /\ section.end <= maxMemorySize - 1
  /\ section.kind # "CNST" => 0 <= section.begin /\ section.end <= g

Has(symbol, address) == symbol.value <= address /\ address < symbol.value + symbol.ownedWords

Unclaimed(section) ==
  /\ section.kind = "GLOB" => section.pointer = section.begin
  /\ \A n \in DataNames : \A address \in First(section) .. Past(section) - 1 : ~Has(globals[n], address)

OwnedHere(symbol, section) ==
  /\ symbol.types = DeclareTypes(section.kind)
  /\ symbol.value <= Here(section)
  /\ symbol.value + symbol.minOffset = First(section)
  /\ symbol.value + symbol.maxOffset = Past(section) - 1
  /\ symbol.value + symbol.ownedWords = Past(section)

SectionOwned ==
  data.open =>
    /\ InRegion(data, globalsPointer, constantsPointer)
    /\ data.owner = NoName => Unclaimed(data)
    /\ data.owner # NoName => data.owner \in DataNames /\ OwnedHere(globals[data.owner], data)

\* A label owns words of its section, no other owns them, and those of GLOB sections are all owned.
WithinSection(symbol) ==
  symbol.minOffset <= 0 /\ 0 <= symbol.ownedWords /\ symbol.ownedWords <= symbol.maxOffset + 1

Apart ==
  \A m, n \in DataNames : m # n => \A address \in Int : ~(Has(globals[m], address) /\ Has(globals[n], address))

AllOwned ==
  \A n \in DataNames : InGlob(globals[n].types) =>
    \A address \in SectionOf(globals[n]) : \E m \in DataNames : Has(globals[m], address)

WordsOwned ==
  /\ DataNames \subseteq Labels
  /\ \A n \in DataNames : WithinSection(globals[n])
  /\ Apart
  /\ AllOwned

SInv ==
  /\ SectionsType
  /\ SymbolsInside
  /\ OperandsInside
  /\ RefsAccepted
  /\ SectionOwned
  /\ WordsOwned

-----------------------------------------------------------------------------
(***************************************************************************)
(* What the lines need.                                                    *)
(***************************************************************************)

\* The buffer's size and place.
LEMMA Sizes == maxMemorySize \in Nat \ {0} /\ MEMORY_OFFSET \in Nat /\ maxMemorySize <= MEMORY_OFFSET
BY SectionsAssumption

\* A sum that is a word does not wrap, and a sum of words is one.
LEMMA PlusFacts ==
  ASSUME NEW a \in Int, NEW b \in Int
  PROVE  /\ Plus(a, b) \in Int
         /\ a + b \in Word => Plus(a, b) = a + b
         /\ a \in Word /\ b \in Word => Plus(a, b) \in Word
<1>1. CASE b > 0 /\ a > LargestWord - b
  <2>1. Plus(a, b) = (a - LargestWord - 1) + (b - LargestWord - 1) BY <1>1 DEF Plus
  <2> QED BY <1>1, <2>1, SMT DEF Word, LargestWord
<1>2. CASE b < 0 /\ a < -LargestWord - 1 - b
  <2>1. Plus(a, b) = (a + LargestWord + 1) + (b + LargestWord + 1) BY <1>2 DEF Plus, LargestWord
  <2> QED BY <1>2, <2>1, SMT DEF Word, LargestWord
<1>3. CASE ~(b > 0 /\ a > LargestWord - b) /\ ~(b < 0 /\ a < -LargestWord - 1 - b)
  <2>1. Plus(a, b) = a + b BY <1>3 DEF Plus
  <2> QED BY <1>3, <2>1, SMT DEF Word, LargestWord
<1> QED BY <1>1, <1>2, <1>3

\* A sum is a number.
LEMMA PlusInt ==
  ASSUME NEW a \in Int, NEW b \in Int
  PROVE  Plus(a, b) \in Int
BY PlusFacts

\* A sum that is a word is just the sum.
LEMMA PlusExact ==
  ASSUME NEW a \in Int, NEW b \in Int, a + b \in Word
  PROVE  Plus(a, b) = a + b
BY PlusFacts

\* Addresses of the program are words.
LEMMA AddressesAreWords ==
  ASSUME NEW g \in Int, NEW c \in Int, 0 <= g, g <= c, c <= maxMemorySize - 1, NEW address \in Readable(g, c) \cup Writable(g)
  PROVE  address \in Word
<1>1. MEMORY_OFFSET <= LargestOffset BY WordsAssumption
<1>2. PICK m \in Int, n \in Int : m = MEMORY_OFFSET /\ n = maxMemorySize BY Sizes
<1>3. 0 <= m /\ n <= m /\ m <= 1073741823 BY <1>1, <1>2, Sizes DEF LargestOffset
<1>4. address \in Int /\ m - (n - 1 - c) <= address /\ address <= m + g - 1
  BY <1>2, <1>3, Sizes DEF Readable, Writable, LowestConstant
<1> QED BY <1>2, <1>3, <1>4, SMT DEF Word, LargestWord

\* The regions only grow, and what was inside stays inside.
LEMMA InsideStays ==
  ASSUME NEW g \in Int, NEW c \in Int, NEW h \in Int, NEW d \in Int, g <= h, d <= c
  PROVE  /\ \A symbol \in SymbolType : NameInside(symbol, g, c) => NameInside(symbol, h, d)
         /\ \A operand \in OperandType : OperandInside(operand, g, c) => OperandInside(operand, h, d)
<1> USE Sizes
<1>1. Readable(g, c) \subseteq Readable(h, d) BY DEF Readable, LowestConstant
<1>2. Writable(g) \subseteq Writable(h) BY DEF Writable
<1>3. \A symbol \in SymbolType : NameInside(symbol, g, c) => NameInside(symbol, h, d)
  BY <1>1, <1>2 DEF NameInside
<1>4. ASSUME NEW operand \in OperandType, OperandInside(operand, g, c) PROVE OperandInside(operand, h, d)
  <2>1. operand.address \in Int BY DEF OperandType
  <2>2. LowestConstant(c) <= operand.address => LowestConstant(d) <= operand.address
    BY <2>1 DEF LowestConstant
  <2> QED BY <1>1, <1>2, <1>4, <2>2 DEF OperandInside
<1> QED BY <1>3, <1>4

\* A line is one of those its place allows.
LEMMA LineTyped ==
  ASSUME SectionsType, Len(lines) < Len(program), NEW line \in program[Len(lines) + 1]
  PROVE  /\ line \in AnyLine
         /\ Append(lines, line) \in Seq(AnyLine)
<1>1. Len(lines) \in Nat /\ Len(program) \in Nat BY DEF SectionsType
<1>2. Len(lines) + 1 \in 1 .. Len(program) BY <1>1
<1>3. program[Len(lines) + 1] \in SUBSET AnyLine BY <1>2 DEF SectionsType
<1>4. line \in AnyLine BY <1>3
<1> QED BY <1>4 DEF SectionsType

\* Data's types are those of its section.
LEMMA DeclaredTypes ==
  ASSUME NEW kind \in {"GLOB", "TEMP", "CNST"}
  PROVE  /\ DeclareTypes(kind) \in SUBSET TypeName
         /\ "ADDRESS_R" \in DeclareTypes(kind)
         /\ "ADDRESS_W" \in DeclareTypes(kind) => kind # "CNST"
         /\ isData(DeclareTypes(kind))
         /\ InGlob(DeclareTypes(kind)) <=> kind = "GLOB"
BY DEF DeclareTypes, TypeName, FREE_ADDRESS, ADDRESS, isData, InGlob

\* Addresses of cells of one region are as far apart as the cells.
LEMMA PointerFacts ==
  ASSUME NEW kind, NEW a \in Int, NEW b \in Int
  PROVE  /\ makeGAZLPointer(a, kind) \in Int
         /\ makeGAZLPointer(b, kind) = makeGAZLPointer(a, kind) + (b - a)
BY Sizes DEF makeGAZLPointer

\* What the lines are made of.
LEMMA LineParts ==
  ASSUME NEW line \in AnyLine
  PROVE  /\ line.k = "section" => line.kind \in {"GLOB", "TEMP", "CNST"} /\ line.label \in Labels \cup {NoName} /\ line.size \in Nat
         /\ line.k = "data" => line.label \in Labels \cup {NoName} /\ line.words \in Seq(AnyOperand)
         /\ line.k = "DEFp" => line.operand \in AnyOperand
         /\ line.k = "ADDp" => line.operand \in AnyOperand /\ line.add \in Int /\ line.add \in Word
         /\ line.k = "use" => line.use \in Uses /\ line.operand \in AnyOperand
         /\ line.k = "switch" => line.cases \in Nat
<1> HIDE DEF AnyOperand
<1>1. line.k = "ADDp" => line.add \in Word BY DEF AnyLine
<1>2. \A w \in Word : w \in Int BY DEF Word
<1> QED BY <1>1, <1>2 DEF AnyLine

\* What operands are made of.
LEMMA OperandParts ==
  ASSUME NEW operand \in AnyOperand
  PROVE  /\ operand.k \in {"word", "label", "variable"}
         /\ operand.k = "word" => operand.word \in Int /\ operand.word \in Word
         /\ operand.k = "label" => operand.offset \in Int /\ operand.offset \in Word
         /\ operand.k = "label" => operand \in [k : {"label"}, name : STRING, given : BOOLEAN, offset : Word]
<1>1. Word \subseteq Int BY DEF Word
<1> QED BY <1>1 DEF AnyOperand

-----------------------------------------------------------------------------
(***************************************************************************)
(* resolve: an operand that is accepted reaches what its name lets it.     *)
(***************************************************************************)
\* An instruction given an address that resolve accepted for it.
LEMMA ResolvedInside ==
  ASSUME NEW g \in Int, NEW c \in Int, 0 <= g, g <= c, c <= maxMemorySize - 1,
         NEW symbol \in SymbolType, NameInside(symbol, g, c),
         NEW operand, operand.offset \in Int, NEW use \in Uses,
         ResolveError(operand, Accepts(use), symbol) = "none"
  PROVE  /\ Operand(use, Plus(symbol.value, operand.offset), 0) \in OperandType
         /\ OperandInside(Operand(use, Plus(symbol.value, operand.offset), 0), g, c)
<1> DEFINE address == Plus(symbol.value, operand.offset)
<1>1. symbol.value \in Int /\ symbol.minOffset \in Int /\ symbol.maxOffset \in Int BY DEF SymbolType
<1>2. address \in Int BY <1>1, PlusInt
<1>3. symbol.types \cap Accepts(use) # {} BY DEF ResolveError
<1>4. "UNCHECKED_ADDRESS" \notin Accepts(use) => InReach(symbol, operand.offset) BY <1>3 DEF ResolveError
<1>5. InReach(symbol, operand.offset) => symbol.value + operand.offset \in SectionOf(symbol) BY <1>1 DEF InReach, SectionOf
<1>6. "FORWARD" \notin symbol.types BY DEF SymbolType, TypeName, FREE_ADDRESS, ADDRESS
<1>7. ASSUME use = "PEEK" PROVE address \in Readable(g, c)
  <2>1. Accepts(use) = {"ADDRESS_R", "FORWARD"} BY <1>7 DEF Accepts
  <2>2. "ADDRESS_R" \in symbol.types BY <1>3, <1>6, <2>1
  <2>3. symbol.value + operand.offset \in Readable(g, c) BY <1>4, <1>5, <2>1, <2>2 DEF NameInside
  <2>4. symbol.value + operand.offset \in Word BY <2>3, AddressesAreWords
  <2>5. address = symbol.value + operand.offset BY <1>1, <2>4, PlusExact
  <2> QED BY <2>3, <2>5
<1>8. ASSUME use = "POKE" PROVE address \in Writable(g)
  <2>1. Accepts(use) = {"ADDRESS_W", "FORWARD"} BY <1>8 DEF Accepts
  <2>2. "ADDRESS_W" \in symbol.types BY <1>3, <1>6, <2>1
  <2>3. symbol.value + operand.offset \in Writable(g) BY <1>4, <1>5, <2>1, <2>2 DEF NameInside
  <2>4. symbol.value + operand.offset \in Word BY <2>3, AddressesAreWords
  <2>5. address = symbol.value + operand.offset BY <1>1, <2>4, PlusExact
  <2> QED BY <2>3, <2>5
<1> HIDE DEF address
<1>9. Operand(use, address, 0) \in OperandType BY <1>2 DEF Operand, OperandType
<1>10. use # "SWCH" BY DEF Uses
<1>11. OperandInside(Operand(use, address, 0), g, c) BY <1>7, <1>8, <1>10 DEF Operand, OperandInside
<1> QED BY <1>9, <1>11 DEF address

\* An operand that is read and names nothing later.
LEMMA ReadResolved ==
  ASSUME SectionsType, NEW operand \in AnyOperand, NEW accepts, ReadError(operand, accepts) = "none", ~Forward(operand)
  PROVE  /\ Read(operand) \in Int
         /\ operand.k = "word" => "CONST_INT" \in accepts
         /\ operand.k = "variable" => "UNCHECKED_ADDRESS" \in accepts /\ FREE_ADDRESS \cap accepts # {}
         /\ operand.k = "label" =>
              /\ operand.name \in defined
              /\ ResolveError(operand, accepts, globals[operand.name]) = "none"
              /\ Read(operand) = Plus(globals[operand.name].value, operand.offset)
<1>1. operand.k \in {"word", "label", "variable"} BY OperandParts
<1>2. CASE operand.k = "word"
  <2>1. "CONST_INT" \in accepts BY <1>2 DEF ReadError
  <2>2. Read(operand) = operand.word BY <1>2 DEF Read
  <2> QED BY <1>2, <2>1, <2>2, OperandParts
<1>3. CASE operand.k = "variable"
  <2>1. variable # {} /\ "UNCHECKED_ADDRESS" \in accepts /\ FREE_ADDRESS \cap accepts # {} BY <1>3 DEF ReadError
  <2>2. Read(operand) = CHOOSE v \in variable : TRUE BY <1>3 DEF Read
  <2>3. variable \in SUBSET Int BY DEF SectionsType
  <2>4. (CHOOSE v \in variable : TRUE) \in variable BY <2>1
  <2> QED BY <1>3, <2>1, <2>2, <2>3, <2>4
<1>4. CASE operand.k = "label"
  <2>1. operand.name \in defined BY <1>4 DEF Forward
  <2>2. ResolveError(operand, accepts, globals[operand.name]) = "none" BY <1>4, <2>1 DEF ReadError
  <2>3. Read(operand) = Plus(globals[operand.name].value, operand.offset) BY <1>4 DEF Read
  <2>4. globals[operand.name].value \in Int BY <2>1 DEF SectionsType, SymbolType
  <2>5. operand.offset \in Int BY <1>4, OperandParts
  <2>6. Read(operand) \in Int BY <2>3, <2>4, <2>5, PlusInt
  <2> QED BY <1>4, <2>1, <2>2, <2>3, <2>6
<1> QED BY <1>1, <1>2, <1>3, <1>4

\* An instruction given an operand that was read.
LEMMA UseInside ==
  ASSUME SectionsType, SymbolsInside, NEW operand \in AnyOperand, NEW use \in Uses,
         ReadError(operand, Accepts(use)) = "none", ~Forward(operand)
  PROVE  /\ Operand(use, Read(operand), 0) \in OperandType
         /\ OperandInside(Operand(use, Read(operand), 0), globalsPointer, constantsPointer)
<1>1. Read(operand) \in Int BY ReadResolved
<1>2. use # "SWCH" BY DEF Uses
<1>3. CASE operand.k = "label"
  <2>1. /\ operand.name \in defined
        /\ ResolveError(operand, Accepts(use), globals[operand.name]) = "none"
        /\ Read(operand) = Plus(globals[operand.name].value, operand.offset)
    BY <1>3, ReadResolved
  <2>2. globals[operand.name] \in SymbolType BY <2>1 DEF SectionsType
  <2>3. NameInside(globals[operand.name], globalsPointer, constantsPointer) BY <2>1 DEF SymbolsInside
  <2>4. /\ globalsPointer \in Int /\ constantsPointer \in Int
        /\ 0 <= globalsPointer /\ globalsPointer <= constantsPointer /\ constantsPointer <= maxMemorySize - 1
    BY DEF SectionsType, Pointers
  <2>5. operand.offset \in Int BY <1>3, OperandParts
  <2> QED BY <2>1, <2>2, <2>3, <2>4, <2>5, ResolvedInside
<1>4. CASE operand.k # "label"
  <2>1. operand.k = "word" => "CONST_INT" \in Accepts(use) BY ReadResolved
  <2>2. operand.k = "variable" => "UNCHECKED_ADDRESS" \in Accepts(use) BY ReadResolved
  <2>3. operand.k \in {"word", "variable"} BY <1>4, OperandParts
  <2>4. use \notin {"PEEK", "POKE"} BY <2>1, <2>2, <2>3 DEF Accepts
  <2>5. Operand(use, Read(operand), 0) \in OperandType BY <1>1 DEF Operand, OperandType
  <2>6. OperandInside(Operand(use, Read(operand), 0), globalsPointer, constantsPointer)
    BY <1>2, <2>4 DEF Operand, OperandInside
  <2> QED BY <2>5, <2>6
<1> QED BY <1>3, <1>4

-----------------------------------------------------------------------------
(***************************************************************************)
(* Steps that add no data.                                                 *)
(***************************************************************************)
LinesTyped == program' \in Seq(SUBSET AnyLine) /\ lines' \in Seq(AnyLine)

\* Nothing is defined, declared or waited for.
LEMMA NothingAdded ==
  ASSUME SInv, LinesTyped, UNCHANGED <<globalsPointer, constantsPointer, globals, forwardRefs, data>>,
         code'.operands = code.operands, variable' \in SUBSET Int, status' = "done" => status = "done"
  PROVE  SInv'
<1>1. SectionsType' BY DEF SInv, SectionsType, LinesTyped, Pointers, defined
<1>2. SymbolsInside' BY DEF SInv, SymbolsInside, defined
<1>3. OperandsInside' BY DEF SInv, OperandsInside, Waits
<1>4. RefsAccepted' BY DEF SInv, RefsAccepted, AsAccepted
<1>5. DataNames' = DataNames BY DEF DataNames, defined
<1>6. SectionOwned' BY <1>5 DEF SInv, SectionOwned, Unclaimed
<1>7. WordsOwned' BY <1>5 DEF SInv, WordsOwned, Apart, AllOwned
<1> QED BY <1>1, <1>2, <1>3, <1>4, <1>6, <1>7 DEF SInv

\* A name is defined that is not a label of data.
LEMMA NameAdded ==
  ASSUME SInv, LinesTyped, NEW name, name \notin defined,
         NEW symbol \in SymbolType, ~isData(symbol.types), NameInside(symbol, globalsPointer, constantsPointer),
         globals' = With(globals, name, symbol),
         UNCHANGED <<globalsPointer, constantsPointer, forwardRefs, data, variable, status>>,
         code'.operands = code.operands
  PROVE  SInv'
<1>1. /\ defined' = IF name = NoName THEN defined ELSE defined \cup {name}
      /\ \A n \in defined : globals'[n] = globals[n]
      /\ name # NoName => globals'[name] = symbol
  <2>1. name \notin DOMAIN globals BY DEF defined
  <2>2. /\ DOMAIN With(globals, name, symbol) =
             IF name = NoName THEN DOMAIN globals ELSE DOMAIN globals \cup {name}
        /\ \A n \in DOMAIN globals : With(globals, name, symbol)[n] = globals[n]
        /\ name # NoName => With(globals, name, symbol)[name] = symbol
    BY <2>1 DEF With
  <2> QED BY <2>2 DEF defined
<1>2. \A n \in defined' : n \in defined \/ globals'[n] = symbol BY <1>1
<1>3. DataNames' = DataNames BY <1>1 DEF DataNames
<1>4. \A n \in DataNames : globals'[n] = globals[n] BY <1>1 DEF DataNames
<1>5. SectionsType'
  <2>1. IsFiniteSet(defined') BY <1>1, FS_AddElement DEF SInv, SectionsType
  <2>2. \A n \in defined' : globals'[n] \in SymbolType BY <1>1, <1>2 DEF SInv, SectionsType
  <2> QED BY <2>1, <2>2 DEF SInv, SectionsType, LinesTyped, Pointers
<1>6. SymbolsInside' BY <1>1, <1>2 DEF SInv, SymbolsInside
<1>7. OperandsInside' BY DEF SInv, OperandsInside, Waits
<1>8. RefsAccepted' BY DEF SInv, RefsAccepted, AsAccepted
<1>9. SectionOwned' BY <1>3, <1>4 DEF SInv, SectionOwned, Unclaimed
<1>10. WordsOwned' BY <1>3, <1>4 DEF SInv, WordsOwned, Apart, AllOwned
<1> QED BY <1>5, <1>6, <1>7, <1>8, <1>9, <1>10 DEF SInv

\* DEFp.
LEMMA DefpStep ==
  ASSUME SInv, LinesTyped, NEW line \in AnyLine, line.k = "DEFp", DefpError(line) = "none",
         globals' = With(globals, line.label, PointerConstant(line.operand)),
         UNCHANGED <<memory, globalsPointer, constantsPointer, forwardRefs, data, code, variable, status>>
  PROVE  SInv'
<1> DEFINE operand == line.operand
           symbol == PointerConstant(operand)
           types == IF operand.k = "variable" THEN FREE_ADDRESS ELSE globals[operand.name].types \cap ANY_FREE
<1>1. operand \in AnyOperand BY LineParts
<1>2. ReadError(operand, ANY_FREE) = "none" /\ line.label \notin defined BY DEF DefpError
<1>3. "FORWARD" \notin ANY_FREE /\ "CONST_INT" \notin ANY_FREE BY DEF ANY_FREE, FREE_ADDRESS, ADDRESS
<1>4. ~Forward(operand)
  <2>1. SUFFICES ASSUME Forward(operand) PROVE FALSE OBVIOUS
  <2>2. ReadError(operand, ANY_FREE) = "NON_FORWARD_SYMBOL_NOT_FOUND" BY <1>3, <2>1 DEF Forward, ReadError
  <2> QED BY <1>2, <2>2
<1>5. SectionsType BY DEF SInv
<1>6. Read(operand) \in Int BY <1>1, <1>2, <1>4, <1>5, ReadResolved
<1>7. operand.k \in {"variable", "label"} BY <1>1, <1>2, <1>3, <1>4, <1>5, ReadResolved, OperandParts
<1>8. operand.k = "label" => operand.name \in defined /\ Read(operand) = Plus(globals[operand.name].value, operand.offset)
  BY <1>1, <1>2, <1>4, <1>5, ReadResolved
<1>9. types \in SUBSET TypeName
  BY <1>7, <1>8 DEF SInv, SectionsType, SymbolType, TypeName, FREE_ADDRESS, ADDRESS
<1>10. symbol = [types |-> types \cup {"POINTER_CONSTANT"}, value |-> Read(operand), declaredWords |-> 1, ownedWords |-> 1,
                 minOffset |-> 0, maxOffset |-> IF IsOutside(operand) THEN -1 ELSE 0]
  BY DEF PointerConstant, Symbol
<1>11. symbol \in SymbolType
  <2>1. types \cup {"POINTER_CONSTANT"} \in SUBSET TypeName BY <1>9 DEF TypeName
  <2>2. (IF IsOutside(operand) THEN -1 ELSE 0) \in Int OBVIOUS
  <2> HIDE DEF types, symbol
  <2> QED BY <1>6, <1>10, <2>1, <2>2 DEF SymbolType
<1>12. ~isData(symbol.types) BY <1>10 DEF isData
<1>13. NameInside(symbol, globalsPointer, constantsPointer)
  <2>1. CASE IsOutside(operand)
    <3>1. symbol.minOffset = 0 /\ symbol.maxOffset = -1 /\ symbol.value \in Int BY <1>6, <1>10, <2>1
    <3>2. SectionOf(symbol) = {} BY <3>1 DEF SectionOf
    <3>3. "ADDRESS_W" \in types => "ADDRESS_R" \in types
      <4>1. CASE operand.k = "variable" BY <4>1 DEF FREE_ADDRESS, ADDRESS
      <4>2. CASE operand.k = "label"
        <5>1. "ADDRESS_W" \in globals[operand.name].types => "ADDRESS_R" \in globals[operand.name].types
          BY <1>8, <4>2 DEF SInv, SymbolsInside, NameInside
        <5> QED BY <4>2, <5>1 DEF ANY_FREE, FREE_ADDRESS, ADDRESS
      <4> QED BY <1>7, <4>1, <4>2
    <3>4. "ADDRESS_W" \in symbol.types => "ADDRESS_R" \in symbol.types BY <1>10, <3>3
    <3> QED BY <3>2, <3>4 DEF NameInside
  <2>2. CASE ~IsOutside(operand)
    <3>1. operand.k = "label" /\ InReach(globals[operand.name], operand.offset) BY <1>7, <2>2 DEF IsOutside
    <3> DEFINE named == globals[operand.name]
    <3>2. named \in SymbolType /\ NameInside(named, globalsPointer, constantsPointer)
      BY <1>8, <3>1 DEF SInv, SectionsType, SymbolsInside
    <3>3. operand.offset \in Int BY <1>1, <3>1, OperandParts
    <3>4. symbol.value = Plus(named.value, operand.offset) /\ symbol.minOffset = 0 /\ symbol.maxOffset = 0
      BY <1>8, <1>10, <2>2, <3>1
    <3>5. "ADDRESS_R" \in symbol.types => "ADDRESS_R" \in named.types BY <1>10, <3>1
    <3>6. "ADDRESS_W" \in symbol.types => "ADDRESS_W" \in named.types BY <1>10, <3>1
    <3>7. "ADDRESS_W" \in symbol.types => "ADDRESS_R" \in symbol.types
      BY <1>10, <3>1, <3>2 DEF NameInside, ANY_FREE, FREE_ADDRESS, ADDRESS
    <3> HIDE DEF symbol, named
    <3>8. named.value \in Int /\ named.minOffset \in Int /\ named.maxOffset \in Int BY <3>2 DEF SymbolType
    <3>9. ASSUME "ADDRESS_R" \in named.types PROVE SectionOf(symbol) \subseteq SectionOf(named)
      <4>1. named.value + operand.offset \in SectionOf(named) BY <3>1, <3>3, <3>8 DEF SectionOf, InReach, named
      <4>2. named.value + operand.offset \in Readable(globalsPointer, constantsPointer) BY <3>2, <3>9, <4>1 DEF NameInside
      <4>3. named.value + operand.offset \in Word BY <4>2, AddressesAreWords DEF SInv, SectionsType, Pointers
      <4>4. symbol.value = named.value + operand.offset BY <3>3, <3>4, <3>8, <4>3, PlusExact
      <4>5. SectionOf(symbol) = {named.value + operand.offset} BY <3>3, <3>4, <3>8, <4>4 DEF SectionOf
      <4> QED BY <4>1, <4>5
    <3> QED BY <3>2, <3>5, <3>6, <3>7, <3>9 DEF NameInside
  <2> QED BY <2>1, <2>2
<1> HIDE DEF symbol
<1>14. globals' = With(globals, line.label, symbol) BY DEF symbol
<1> QED BY <1>2, <1>11, <1>12, <1>13, <1>14, NameAdded

\* ADDp.
LEMMA AddpStep ==
  ASSUME SInv, LinesTyped, NEW line \in AnyLine, line.k = "ADDp", ReadError(line.operand, FREE_ADDRESS) = "none",
         variable' = {Plus(Read(line.operand), line.add)},
         UNCHANGED <<memory, globalsPointer, constantsPointer, globals, forwardRefs, data, code, status>>
  PROVE  SInv'
<1> DEFINE operand == line.operand
<1>1. operand \in AnyOperand /\ line.add \in Int BY LineParts
<1>2. "FORWARD" \notin FREE_ADDRESS BY DEF FREE_ADDRESS, ADDRESS
<1>3. ~Forward(operand)
  <2>1. SUFFICES ASSUME Forward(operand) PROVE FALSE OBVIOUS
  <2>2. ReadError(operand, FREE_ADDRESS) = "NON_FORWARD_SYMBOL_NOT_FOUND" BY <1>2, <2>1 DEF Forward, ReadError
  <2> QED BY <2>2
<1>4. Read(operand) \in Int BY <1>1, <1>3, ReadResolved DEF SInv
<1>5. variable' \in SUBSET Int BY <1>1, <1>4, PlusInt
<1>6. code'.operands = code.operands OBVIOUS
<1> QED BY <1>5, <1>6, NothingAdded

\* FUNC.
LEMMA FuncStep ==
  ASSUME SInv, LinesTyped, NEW line, line.label \notin defined, code.functions \in Nat,
         globals' = With(globals, line.label, Symbol({"FUNC"}, Plus(FUNCTION_OFFSET, code.functions), 1)),
         code'.operands = code.operands,
         UNCHANGED <<globalsPointer, constantsPointer, forwardRefs, data, variable, status>>
  PROVE  SInv'
<1> DEFINE symbol == Symbol({"FUNC"}, Plus(FUNCTION_OFFSET, code.functions), 1)
<1>1. Plus(FUNCTION_OFFSET, code.functions) \in Int
  <2>1. FUNCTION_OFFSET \in Int BY WordsAssumption DEF Word
  <2>2. code.functions \in Int OBVIOUS
  <2> QED BY <2>1, <2>2, PlusInt
<1>2. {"FUNC"} \in SUBSET TypeName BY DEF TypeName
<1>3. symbol \in SymbolType BY <1>1, <1>2 DEF Symbol, SymbolType
<1>4. symbol.types = {"FUNC"} BY DEF Symbol
<1>5. ~isData(symbol.types) BY <1>4 DEF isData, ADDRESS
<1>6. NameInside(symbol, globalsPointer, constantsPointer) BY <1>4 DEF NameInside
<1> HIDE DEF symbol
<1>7. globals' = With(globals, line.label, symbol) BY DEF symbol
<1> QED BY <1>3, <1>5, <1>6, <1>7, NameAdded

-----------------------------------------------------------------------------
(***************************************************************************)
(* Code.                                                                   *)
(***************************************************************************)
\* An instruction that names a global, of now or of later.
LEMMA UseStep ==
  ASSUME SInv, LinesTyped, NEW line \in AnyLine, line.k = "use", UseError(line) = "none",
         code'.operands = Append(code.operands,
                                 Operand(line.use, IF Forward(line.operand) THEN 0 ELSE Read(line.operand), 0)),
         forwardRefs' = IF Forward(line.operand)
                        THEN Append(forwardRefs, Reference(line.operand, Accepts(line.use), InCode(Len(code.operands) + 1)))
                        ELSE forwardRefs,
         UNCHANGED <<globalsPointer, constantsPointer, globals, data, variable, status>>, status # "done"
  PROVE  SInv'
<1> DEFINE operand == line.operand
           late == Forward(operand)
           new == Operand(line.use, IF late THEN 0 ELSE Read(operand), 0)
           n == Len(code.operands) + 1
           ref == Reference(operand, Accepts(line.use), InCode(n))
<1>1. operand \in AnyOperand /\ line.use \in Uses BY LineParts
<1>2. ReadError(operand, Accepts(line.use)) = "none" BY DEF UseError
<1>3. /\ code.operands \in Seq(OperandType) /\ forwardRefs \in Seq(ReferenceType)
      /\ Len(code.operands) \in Nat /\ Len(forwardRefs) \in Nat
  BY DEF SInv, SectionsType
<1>4. new \in OperandType /\ (~late => OperandInside(new, globalsPointer, constantsPointer))
  <2>1. CASE late BY <1>1, <2>1 DEF Operand, OperandType
  <2>2. CASE ~late
    <3>1. new = Operand(line.use, Read(operand), 0) BY <2>2
    <3> QED BY <1>1, <1>2, <2>2, <3>1, UseInside DEF SInv
  <2> QED BY <2>1, <2>2
<1>5. late => ref \in ReferenceType
  <2>1. SUFFICES ASSUME late PROVE ref \in ReferenceType OBVIOUS
  <2>2. operand \in [k : {"label"}, name : STRING, given : BOOLEAN, offset : Word] BY <1>1, <2>1, OperandParts DEF Forward
  <2>3. Accepts(line.use) \in SUBSET (TypeName \cup {"FORWARD"})
    BY <1>1 DEF Accepts, Uses, ANY_FWD_FREE, ANY_FREE, FREE_ADDRESS, ADDRESS, TypeName
  <2>4. InCode(n) \in [place : {"memory", "code"}, index : Int] BY <1>3 DEF InCode
  <2> QED BY <2>2, <2>3, <2>4 DEF Reference, ReferenceType
<1>6. new.use = line.use BY DEF Operand
<1> HIDE DEF new, ref, late
<1>7. /\ code'.operands \in Seq(OperandType)
      /\ Len(code'.operands) = n
      /\ \A i \in 1 .. Len(code.operands) : code'.operands[i] = code.operands[i]
      /\ code'.operands[n] = new
  <2>1. code'.operands = Append(code.operands, new) BY DEF new, late
  <2> QED BY <1>3, <1>4, <2>1
<1>8. late => /\ forwardRefs' \in Seq(ReferenceType)
              /\ Len(forwardRefs') = Len(forwardRefs) + 1
              /\ \A i \in 1 .. Len(forwardRefs) : forwardRefs'[i] = forwardRefs[i]
              /\ forwardRefs'[Len(forwardRefs) + 1] = ref
  <2>1. late => forwardRefs' = Append(forwardRefs, ref) BY DEF ref, late
  <2> QED BY <1>3, <1>5, <2>1
<1>9. ~late => forwardRefs' = forwardRefs BY DEF late
<1>10. SectionsType'
  <2>1. forwardRefs' \in Seq(ReferenceType) BY <1>3, <1>8, <1>9
  <2> QED BY <1>7, <2>1 DEF SInv, SectionsType, LinesTyped, Pointers, defined
<1>11. SymbolsInside' BY DEF SInv, SymbolsInside, defined
<1>12. OperandsInside'
  <2>1. SUFFICES ASSUME NEW i \in 1 .. n
                 PROVE  Waits(i)' \/ OperandInside(code'.operands[i], globalsPointer, constantsPointer)
    BY <1>7 DEF OperandsInside
  <2>2. CASE i \in 1 .. Len(code.operands)
    <3>1. Waits(i) \/ OperandInside(code.operands[i], globalsPointer, constantsPointer)
      BY <1>3, <2>2 DEF SInv, OperandsInside
    <3>2. Waits(i) => Waits(i)'
      <4>1. SUFFICES ASSUME NEW r \in 1 .. Len(forwardRefs), forwardRefs[r].storage = InCode(i) PROVE Waits(i)'
        BY <1>3 DEF Waits
      <4>2. CASE late
        <5>1. r \in DOMAIN forwardRefs' /\ forwardRefs'[r] = forwardRefs[r] BY <1>3, <1>8, <4>2
        <5> QED BY <4>1, <5>1 DEF Waits
      <4>3. CASE ~late BY <1>3, <1>9, <4>1, <4>3 DEF Waits
      <4> QED BY <4>2, <4>3
    <3> QED BY <1>7, <2>2, <3>1, <3>2
  <2>3. CASE i = n
    <3>1. CASE late
      <4>1. Len(forwardRefs) + 1 \in DOMAIN forwardRefs' BY <1>3, <1>8, <3>1
      <4>2. forwardRefs'[Len(forwardRefs) + 1].storage = InCode(n) BY <1>8, <3>1 DEF ref, Reference
      <4> QED BY <2>3, <4>1, <4>2 DEF Waits
    <3>2. CASE ~late BY <1>4, <1>7, <2>3, <3>2
    <3> QED BY <3>1, <3>2
  <2> QED BY <1>3, <2>2, <2>3
<1>13. RefsAccepted'
  <2>1. ASSUME NEW r \in 1 .. Len(forwardRefs) PROVE AsAccepted(forwardRefs[r], code'.operands)
    <3>1. SUFFICES ASSUME forwardRefs[r].storage.place = "code" PROVE AsAccepted(forwardRefs[r], code'.operands)
      BY DEF AsAccepted
    <3> DEFINE i == forwardRefs[r].storage.index
    <3>2. /\ i \in 1 .. Len(code.operands)
          /\ code.operands[i].use \in Uses
          /\ forwardRefs[r].accepts = Accepts(code.operands[i].use)
      BY <1>3, <3>1 DEF SInv, RefsAccepted, AsAccepted
    <3>3. code'.operands[i] = code.operands[i] /\ i \in 1 .. n BY <1>3, <1>7, <3>2
    <3>4. i \in DOMAIN code'.operands BY <1>7, <3>3
    <3> QED BY <3>2, <3>3, <3>4 DEF AsAccepted
  <2>2. AsAccepted(ref, code'.operands)
    <3>1. ref.storage.index = n /\ ref.accepts = Accepts(line.use) BY DEF ref, Reference, InCode
    <3>2. n \in DOMAIN code'.operands BY <1>3, <1>7
    <3>3. code'.operands[n].use = line.use BY <1>6, <1>7
    <3> HIDE DEF n
    <3> QED BY <1>1, <3>1, <3>2, <3>3 DEF AsAccepted
  <2>3. CASE late
    <3>1. SUFFICES ASSUME NEW r \in 1 .. Len(forwardRefs) + 1 PROVE AsAccepted(forwardRefs'[r], code'.operands)
      BY <1>3, <1>8, <2>3 DEF RefsAccepted
    <3>2. CASE r \in 1 .. Len(forwardRefs) BY <1>8, <2>1, <2>3, <3>2
    <3>3. CASE r = Len(forwardRefs) + 1 BY <1>8, <2>2, <2>3, <3>3
    <3> QED BY <1>3, <3>2, <3>3
  <2>4. CASE ~late BY <1>3, <1>9, <2>1, <2>4 DEF RefsAccepted
  <2> QED BY <2>3, <2>4
<1>14. DataNames' = DataNames BY DEF DataNames, defined
<1>15. SectionOwned' BY <1>14 DEF SInv, SectionOwned, Unclaimed
<1>16. WordsOwned' BY <1>14 DEF SInv, WordsOwned, Apart, AllOwned
<1> QED BY <1>10, <1>11, <1>12, <1>13, <1>15, <1>16 DEF SInv

\* An instruction is added that waits for nothing.
LEMMA OperandAdded ==
  ASSUME SInv, LinesTyped, NEW new \in OperandType, NEW d \in Int, globalsPointer <= d, d <= constantsPointer,
         OperandInside(new, globalsPointer, d),
         code'.operands = Append(code.operands, new), constantsPointer' = d,
         UNCHANGED <<globalsPointer, globals, forwardRefs, data, variable, status>>
  PROVE  SInv'
<1> DEFINE g == globalsPointer
           c == constantsPointer
           n == Len(code.operands) + 1
<1>1. code.operands \in Seq(OperandType) /\ Len(code.operands) \in Nat BY DEF SInv, SectionsType
<1>2. g \in Nat /\ c \in Int /\ c <= maxMemorySize - 1 BY DEF SInv, SectionsType, Pointers
<1>3. /\ \A symbol \in SymbolType : NameInside(symbol, g, c) => NameInside(symbol, g, d)
      /\ \A operand \in OperandType : OperandInside(operand, g, c) => OperandInside(operand, g, d)
  <2>1. g \in Int /\ g <= g BY <1>2
  <2> HIDE DEF g, c
  <2> QED BY <1>2, <2>1, InsideStays DEF c
<1>4. /\ code'.operands \in Seq(OperandType)
      /\ Len(code'.operands) = n
      /\ \A i \in 1 .. Len(code.operands) : code'.operands[i] = code.operands[i]
      /\ code'.operands[n] = new
  BY <1>1
<1>5. Pointers'
  <2>1. d <= maxMemorySize - 1
    <3> HIDE DEF c
    <3>1. c \in Int /\ d <= c BY <1>2 DEF c
    <3> QED BY <1>2, <3>1, Sizes
  <2> QED BY <1>2, <2>1 DEF Pointers
<1>6. SectionsType' BY <1>4, <1>5 DEF SInv, SectionsType, LinesTyped, defined
<1>7. SymbolsInside'
  <2>1. \A i \in defined : globals[i] \in SymbolType BY DEF SInv, SectionsType
  <2> QED BY <1>3, <2>1 DEF SInv, SymbolsInside, defined
<1>8. OperandsInside'
  <2>1. SUFFICES ASSUME NEW i \in 1 .. n PROVE Waits(i)' \/ OperandInside(code'.operands[i], g, d)
    BY <1>4 DEF OperandsInside
  <2>2. CASE i \in 1 .. Len(code.operands)
    <3>1. code.operands[i] \in OperandType BY <1>1, <2>2
    <3>2. Waits(i) \/ OperandInside(code.operands[i], g, c) BY <1>1, <2>2 DEF SInv, OperandsInside
    <3>3. Waits(i)' = Waits(i) BY DEF Waits
    <3> QED BY <1>3, <1>4, <2>2, <3>1, <3>2, <3>3
  <2>3. CASE i = n BY <1>4, <2>3
  <2> QED BY <1>1, <2>2, <2>3
<1>9. RefsAccepted'
  <2>1. SUFFICES ASSUME NEW r \in DOMAIN forwardRefs PROVE AsAccepted(forwardRefs[r], code'.operands)
    BY DEF RefsAccepted
  <2>2. AsAccepted(forwardRefs[r], code.operands) BY DEF SInv, RefsAccepted
  <2>3. \A i \in DOMAIN code.operands : i \in DOMAIN code'.operands /\ code'.operands[i] = code.operands[i]
    BY <1>1, <1>4
  <2> QED BY <2>2, <2>3 DEF AsAccepted
<1>10. DataNames' = DataNames BY DEF DataNames, defined
<1>11. SectionOwned'
  <2>1. data.open => InRegion(data, g, d)
    <3> HIDE DEF g, c
    <3>1. data.open => InRegion(data, g, c) BY DEF SInv, SectionOwned, g, c
    <3>2. data.begin \in Int BY DEF SInv, SectionsType, DataType
    <3>3. d <= c BY DEF c
    <3> QED BY <1>2, <3>1, <3>2, <3>3 DEF InRegion
  <2> QED BY <1>10, <2>1 DEF SInv, SectionOwned, Unclaimed
<1>12. WordsOwned' BY <1>10 DEF SInv, WordsOwned, Apart, AllOwned
<1> QED BY <1>6, <1>7, <1>8, <1>9, <1>11, <1>12 DEF SInv

\* The table of a switch.
LEMMA SwitchStep ==
  ASSUME SInv, LinesTyped, NEW line \in AnyLine, line.k = "switch", SwitchError(line) = "none",
         constantsPointer' = constantsPointer - line.cases - 1,
         code'.operands = Append(code.operands,
                                 Operand("SWCH", makeGAZLPointer(constantsPointer - line.cases - 1, "CNST"), line.cases)),
         UNCHANGED <<globalsPointer, globals, forwardRefs, data, variable, status>>
  PROVE  SInv'
<1> DEFINE d == constantsPointer - line.cases - 1
           new == Operand("SWCH", makeGAZLPointer(d, "CNST"), line.cases)
<1>1. line.cases \in Nat BY LineParts
<1>2. globalsPointer \in Nat /\ constantsPointer \in Int /\ constantsPointer <= maxMemorySize - 1
  BY DEF SInv, SectionsType, Pointers
<1>3. line.cases + 1 <= constantsPointer - globalsPointer
  <2>1. ~(line.cases + 1 > constantsPointer - globalsPointer) BY DEF SwitchError
  <2> QED BY <1>1, <1>2, <2>1
<1>4. d \in Int /\ globalsPointer <= d /\ d <= constantsPointer /\ d + line.cases < constantsPointer BY <1>1, <1>2, <1>3, SMTT(30)
<1>5. makeGAZLPointer(d, "CNST") = MEMORY_OFFSET - (maxMemorySize - 1 - d) BY DEF makeGAZLPointer
<1>6. new \in OperandType
  <2>1. makeGAZLPointer(d, "CNST") \in Int BY <1>4, <1>5, Sizes
  <2> HIDE DEF d
  <2> QED BY <1>1, <2>1 DEF Operand, OperandType
<1>7. OperandInside(new, globalsPointer, d)
  <2>1. LowestConstant(d) <= makeGAZLPointer(d, "CNST") /\ makeGAZLPointer(d, "CNST") + line.cases < MEMORY_OFFSET
    <3> HIDE DEF d
    <3> QED BY <1>1, <1>2, <1>4, <1>5, Sizes, SMTT(30) DEF LowestConstant
  <2> HIDE DEF d
  <2> QED BY <2>1 DEF Operand, OperandInside
<1>8. code'.operands = Append(code.operands, new) OBVIOUS
<1>9. constantsPointer' = d OBVIOUS
<1> HIDE DEF new, d
<1> QED BY <1>4, <1>6, <1>7, <1>8, <1>9, OperandAdded

-----------------------------------------------------------------------------
(***************************************************************************)
(* Data.                                                                   *)
(***************************************************************************)

\* What a label owns is readable.
LEMMA OwnedReadable ==
  ASSUME SInv, NEW n \in DataNames, NEW address \in Int, Has(globals[n], address)
  PROVE  address \in Readable(globalsPointer, constantsPointer) /\ address \in SectionOf(globals[n])
<1> DEFINE s == globals[n]
<1>1. n \in defined /\ isData(s.types) BY DEF DataNames
<1>2. s \in SymbolType BY <1>1 DEF SInv, SectionsType
<1>3. s.value \in Int /\ s.minOffset \in Int /\ s.maxOffset \in Int /\ s.ownedWords \in Int BY <1>2 DEF SymbolType
<1>4. WithinSection(s) BY DEF SInv, WordsOwned
<1>5. NameInside(s, globalsPointer, constantsPointer) BY <1>1 DEF SInv, SymbolsInside
<1>6. Has(s, address) OBVIOUS
<1> HIDE DEF s
<1>7. address \in SectionOf(s) BY <1>3, <1>4, <1>6 DEF SectionOf, WithinSection, Has
<1>8. "ADDRESS_R" \in s.types BY <1>1, <1>5 DEF isData, ADDRESS, NameInside
<1>9. address \in Readable(globalsPointer, constantsPointer) BY <1>5, <1>7, <1>8 DEF NameInside
<1> QED BY <1>7, <1>9 DEF s

\* A section's words are a part of its region that was free.
LEMMA SectionOpened ==
  ASSUME SInv, LinesTyped, NEW kind \in {"GLOB", "TEMP", "CNST"}, NEW label \in Labels \cup {NoName}, label \notin defined,
         NEW size \in Nat, size <= constantsPointer - globalsPointer,
         NEW begin \in Int, NEW h \in Int, NEW d \in Int,
         kind = "CNST" => begin = constantsPointer - size /\ h = globalsPointer /\ d = begin,
         kind # "CNST" => begin = globalsPointer /\ h = globalsPointer + size /\ d = constantsPointer,
         globalsPointer' = h, constantsPointer' = d,
         data' = [open |-> TRUE, kind |-> kind, pointer |-> begin, begin |-> begin, end |-> begin + size, owner |-> label],
         globals' = With(globals, label, DataSymbol(begin, size, kind, begin, begin + size)),
         UNCHANGED <<forwardRefs, code, variable, status>>
  PROVE  SInv'
<1> DEFINE g == globalsPointer
           c == constantsPointer
           V == makeGAZLPointer(begin, kind)
           symbol == DataSymbol(begin, size, kind, begin, begin + size)
<1>1. g \in Nat /\ c \in Int /\ g <= c /\ c <= maxMemorySize - 1 BY DEF SInv, SectionsType, Pointers
<1>2. V \in Int /\ makeGAZLPointer(begin + size, kind) = V + size
  <2>1. begin + size \in Int /\ (begin + size) - begin = size OBVIOUS
  <2> QED BY <2>1, PointerFacts
<1>3. /\ h \in Nat /\ h <= d /\ d <= maxMemorySize - 1 /\ g <= h /\ d <= c
      /\ \A address \in V .. V + size - 1 :
           /\ address \notin Readable(g, c)
           /\ address \in Readable(h, d)
           /\ kind # "CNST" => address \in Writable(h)
  <2> HIDE DEF g, c
  <2>1. kind = "CNST" => begin = c - size /\ h = g /\ d = begin BY DEF g, c
  <2>2. kind # "CNST" => begin = g /\ h = g + size /\ d = c BY DEF g, c
  <2>3. size <= c - g BY DEF g, c
  <2>4. CASE kind = "CNST" BY <1>1, <2>1, <2>3, <2>4, Sizes DEF makeGAZLPointer, Readable, Writable, LowestConstant
  <2>5. CASE kind # "CNST" BY <1>1, <2>2, <2>3, <2>5, Sizes DEF makeGAZLPointer, Readable, Writable, LowestConstant
  <2> QED BY <2>4, <2>5
<1>4. /\ symbol \in SymbolType
      /\ symbol.types = DeclareTypes(kind)
      /\ symbol.value = V
      /\ symbol.ownedWords = size
      /\ symbol.minOffset = 0
      /\ symbol.maxOffset = size - 1
  <2>1. (begin + size) - begin = size /\ begin - begin = 0 /\ size \in Int OBVIOUS
  <2>2. symbol = [types |-> DeclareTypes(kind), value |-> V, declaredWords |-> size, ownedWords |-> size,
                  minOffset |-> 0, maxOffset |-> size - 1]
    BY <2>1 DEF DataSymbol
  <2>3. DeclareTypes(kind) \in SUBSET TypeName BY DeclaredTypes
  <2> HIDE DEF symbol, V
  <2> QED BY <1>2, <2>1, <2>2, <2>3 DEF SymbolType
<1>5. isData(symbol.types) /\ (InGlob(symbol.types) <=> kind = "GLOB") BY <1>4, DeclaredTypes
<1> HIDE DEF symbol
<1>6. /\ defined' = IF label = NoName THEN defined ELSE defined \cup {label}
      /\ \A n \in defined : globals'[n] = globals[n]
      /\ label # NoName => globals'[label] = symbol
  <2>1. label \notin DOMAIN globals BY DEF defined
  <2>2. globals' = With(globals, label, symbol) BY DEF symbol
  <2> QED BY <2>1, <2>2 DEF defined, With
<1>7. \A n \in defined' : n \in defined \/ (n = label /\ label # NoName) BY <1>6
<1>8. DataNames' = IF label = NoName THEN DataNames ELSE DataNames \cup {label} BY <1>5, <1>6 DEF DataNames
<1>9. \A n \in DataNames : globals'[n] = globals[n] /\ n # label BY <1>6 DEF DataNames
<1>10. SectionOf(symbol) = V .. V + size - 1
  <2>1. V + (size - 1) = V + size - 1 /\ V + 0 = V BY <1>2
  <2> HIDE DEF V
  <2> QED BY <1>4, <2>1 DEF SectionOf
<1>11. \A address \in Int : Has(symbol, address) <=> address \in V .. V + size - 1
  <2> HIDE DEF V
  <2> QED BY <1>2, <1>4 DEF Has
<1>12. \A n \in DataNames : \A address \in V .. V + size - 1 : ~Has(globals[n], address)
  <2>1. \A address \in V .. V + size - 1 : address \in Int BY <1>2
  <2> QED BY <1>3, <2>1, OwnedReadable
<1>13. /\ \A s \in SymbolType : NameInside(s, g, c) => NameInside(s, h, d)
       /\ \A operand \in OperandType : OperandInside(operand, g, c) => OperandInside(operand, h, d)
  <2> HIDE DEF g, c
  <2>1. g \in Int BY <1>1
  <2> QED BY <1>1, <1>3, <2>1, InsideStays
<1>14. NameInside(symbol, h, d)
  <2>1. "ADDRESS_R" \in symbol.types /\ ("ADDRESS_W" \in symbol.types => kind # "CNST") BY <1>4, DeclaredTypes
  <2> QED BY <1>3, <1>10, <2>1 DEF NameInside
<1>15. SectionsType'
  <2>1. Pointers' BY <1>3 DEF Pointers
  <2>2. IsFiniteSet(defined') BY <1>6, FS_AddElement DEF SInv, SectionsType
  <2>3. \A n \in defined' : globals'[n] \in SymbolType BY <1>4, <1>6, <1>7 DEF SInv, SectionsType
  <2>4. data' \in DataType
    <3>1. begin + size \in Int OBVIOUS
    <3> QED BY <3>1 DEF DataType
  <2> QED BY <2>1, <2>2, <2>3, <2>4 DEF SInv, SectionsType, LinesTyped
<1>16. SymbolsInside'
  <2>1. SUFFICES ASSUME NEW n \in defined' PROVE NameInside(globals'[n], h, d) BY DEF SymbolsInside
  <2>2. CASE n \in defined
    <3>1. globals[n] \in SymbolType /\ NameInside(globals[n], g, c) BY <2>2 DEF SInv, SectionsType, SymbolsInside
    <3> QED BY <1>6, <1>13, <2>2, <3>1
  <2>3. CASE n = label /\ label # NoName BY <1>6, <1>14, <2>3
  <2> QED BY <1>7, <2>2, <2>3
<1>17. OperandsInside'
  <2>1. \A i \in DOMAIN code.operands : code.operands[i] \in OperandType BY DEF SInv, SectionsType
  <2>2. \A i : Waits(i)' = Waits(i) BY DEF Waits
  <2> QED BY <1>13, <2>1, <2>2 DEF SInv, OperandsInside
<1>18. RefsAccepted' BY DEF SInv, RefsAccepted
<1>19. SectionOwned'
  <2> DEFINE new == [open |-> TRUE, kind |-> kind, pointer |-> begin, begin |-> begin, end |-> begin + size, owner |-> label]
  <2>1. InRegion(new, h, d)
    <3>1. begin <= begin /\ begin <= begin + size OBVIOUS
    <3>2. kind = "CNST" => d <= begin /\ begin + size <= maxMemorySize - 1
      <4> HIDE DEF c
      <4>1. kind = "CNST" => begin = c - size /\ d = begin BY DEF c
      <4> QED BY <1>1, <4>1, Sizes
    <3>3. kind # "CNST" => 0 <= begin /\ begin + size <= h
      <4> HIDE DEF g
      <4>1. kind # "CNST" => begin = g /\ h = g + size BY DEF g
      <4> QED BY <1>1, <4>1
    <3> QED BY <3>1, <3>2, <3>3 DEF InRegion
  <2>2. First(new) = V /\ Here(new) = V /\ Past(new) = V + size BY <1>2 DEF First, Here, Past
  <2>3. new.kind = kind /\ new.pointer = new.begin /\ new.owner = label OBVIOUS
  <2> HIDE DEF new, V
  <2>4. \A n \in DataNames : \A address \in First(new) .. Past(new) - 1 : ~Has(globals'[n], address)
    <3>1. SUFFICES ASSUME NEW n \in DataNames, NEW address \in First(new) .. Past(new) - 1
                   PROVE  ~Has(globals'[n], address)
      OBVIOUS
    <3>2. address \in V .. V + size - 1 BY <1>2, <2>2
    <3> QED BY <1>9, <1>12, <3>2
  <2>5. OwnedHere(symbol, new) BY <1>2, <1>4, <2>2, <2>3 DEF OwnedHere
  <2>6. data' = new BY DEF new
  <2>7. label = NoName => Unclaimed(new)'
    <3>1. label = NoName => DataNames' = DataNames BY <1>8
    <3>2. new' = new BY DEF new
    <3> QED BY <2>3, <2>4, <3>1, <3>2 DEF Unclaimed
  <2>8. label = NoName => Unclaimed(data)' BY <2>6, <2>7 DEF Unclaimed, new
  <2>9. label # NoName => label \in DataNames' /\ OwnedHere(globals'[label], new) BY <1>6, <1>8, <2>5
  <2> QED BY <2>1, <2>3, <2>6, <2>8, <2>9 DEF SectionOwned
<1>20. WordsOwned'
  <2>1. DataNames' \subseteq Labels BY <1>8 DEF SInv, WordsOwned
  <2>2. \A n \in DataNames' : WithinSection(globals'[n])
    <3>1. WithinSection(symbol)
      <4>1. size <= (size - 1) + 1 OBVIOUS
      <4> QED BY <1>4, <4>1 DEF WithinSection
    <3> QED BY <1>6, <1>8, <1>9, <3>1 DEF SInv, WordsOwned
  <2>3. \A m, n \in DataNames' : m # n =>
          \A address \in Int : ~(Has(globals'[m], address) /\ Has(globals'[n], address))
    <3>1. \A m, n \in DataNames : m # n =>
            \A address \in Int : ~(Has(globals[m], address) /\ Has(globals[n], address))
      BY DEF SInv, WordsOwned, Apart
    <3>2. \A n \in DataNames : \A address \in Int : ~(Has(globals[n], address) /\ Has(symbol, address)) BY <1>11, <1>12
    <3> QED BY <1>6, <1>8, <1>9, <3>1, <3>2
  <2>4. \A n \in DataNames' : InGlob(globals'[n].types) =>
          \A address \in SectionOf(globals'[n]) : \E m \in DataNames' : Has(globals'[m], address)
    <3>1. SUFFICES ASSUME NEW n \in DataNames', InGlob(globals'[n].types), NEW address \in SectionOf(globals'[n])
                   PROVE  \E m \in DataNames' : Has(globals'[m], address)
      OBVIOUS
    <3>2. CASE n \in DataNames
      <4>1. InGlob(globals[n].types) /\ address \in SectionOf(globals[n]) BY <1>9, <3>1, <3>2
      <4>2. PICK m \in DataNames : Has(globals[m], address) BY <3>2, <4>1 DEF SInv, WordsOwned, AllOwned
      <4> QED BY <1>8, <1>9, <4>2
    <3>3. CASE n = label /\ label # NoName
      <4>1. address \in V .. V + size - 1 BY <1>6, <1>10, <3>1, <3>3
      <4>2. address \in Int BY <1>2, <4>1
      <4>3. Has(symbol, address) BY <1>11, <4>1, <4>2
      <4> QED BY <1>6, <1>8, <3>3, <4>3
    <3> QED BY <1>8, <3>2, <3>3
  <2> QED BY <2>1, <2>2, <2>3, <2>4 DEF WordsOwned, Apart, AllOwned
<1> QED BY <1>15, <1>16, <1>17, <1>18, <1>19, <1>20 DEF SInv

\* The words that wait for later names.
LEMMA ReferencesTyped ==
  ASSUME SInv, NEW words \in Seq(AnyOperand)
  PROVE  /\ References(words) \in Seq(ReferenceType)
         /\ \A k \in DOMAIN References(words) : References(words)[k].storage.place = "memory"
<1> DEFINE late == {i \in DOMAIN words : Forward(words[i])}
           R == {pair \in Nat \X Nat : pair[1] < pair[2]}
           N == Cardinality(late)
<1>1. late \in SUBSET (1 .. Len(words)) /\ Len(words) \in Nat OBVIOUS
<1>2. IsFiniteSet(late)
  <2>1. IsFiniteSet(1 .. Len(words)) BY <1>1, FS_Interval
  <2> QED BY <1>1, <2>1, FS_Subset
<1>3. N \in Nat BY <1>2, FS_CardinalityType
<1>4. \A i, j \in Nat : <<i, j>> \in R <=> i < j OBVIOUS
<1>5. late \subseteq Nat BY <1>1
<1> HIDE DEF R
<1>6. Orders(R, late)
  <2> HIDE DEF late
  <2> QED BY <1>4, <1>5 DEF Orders
<1>7. LateWords(words) = [k \in 1 .. N |-> CHOOSE i \in late : Cardinality({j \in late : j < i}) = k - 1]
  BY DEF LateWords
<1>8. ASSUME NEW k \in 1 .. N PROVE LateWords(words)[k] \in late
  <2>1. PICK i \in late : Cardinality({j \in late : <<j, i>> \in R}) = k - 1
    <3> HIDE DEF late
    <3> QED BY <1>2, <1>6, EveryRank, SMTT(30)
  <2>2. {j \in late : <<j, i>> \in R} = {j \in late : j < i} BY <1>4, <1>5
  <2>3. Cardinality({j \in late : j < i}) = k - 1 BY <2>1, <2>2
  <2> HIDE DEF late, N
  <2>4. (CHOOSE i_1 \in late : Cardinality({j \in late : j < i_1}) = k - 1) \in late BY <2>3
  <2> QED BY <1>7, <2>4
<1>9. DOMAIN LateWords(words) = 1 .. N BY <1>7
<1>10. References(words) = [k \in 1 .. N |-> Reference(words[LateWords(words)[k]], KONST,
                                                        InMemory(data.pointer + LateWords(words)[k] - 1))]
  BY <1>9 DEF References
<1>11. ASSUME NEW k \in 1 .. N
       PROVE  /\ References(words)[k] \in ReferenceType
              /\ References(words)[k].storage.place = "memory"
  <2> DEFINE i == LateWords(words)[k]
             operand == words[i]
             cell == data.pointer + i - 1
  <2>1. References(words)[k] = Reference(operand, KONST, InMemory(cell)) BY <1>10
  <2>2. i \in late BY <1>8
  <2>3. i \in 1 .. Len(words) /\ i \in Nat /\ Forward(operand) BY <1>1, <1>5, <2>2
  <2>4. operand \in AnyOperand BY <2>3
  <2>5. data.pointer \in Int BY DEF SInv, SectionsType, DataType
  <2>6. cell \in Int BY <2>3, <2>5
  <2> HIDE DEF i, operand, cell
  <2>7. operand \in [k : {"label"}, name : STRING, given : BOOLEAN, offset : Word]
    BY <2>3, <2>4, OperandParts DEF Forward, operand
  <2>8. KONST \in SUBSET (TypeName \cup {"FORWARD"})
    BY DEF KONST, ANY_FWD_FREE, ANY_FREE, FREE_ADDRESS, ADDRESS, TypeName
  <2>9. InMemory(cell) \in [place : {"memory", "code"}, index : Int] BY <2>6 DEF InMemory
  <2>10. References(words)[k] \in ReferenceType BY <2>1, <2>7, <2>8, <2>9 DEF Reference, ReferenceType
  <2> QED BY <2>1, <2>10 DEF Reference, InMemory
<1> HIDE DEF N
<1> QED BY <1>3, <1>10, <1>11

\* References of words are not those of instructions.
LEMMA ReferencesAdded ==
  ASSUME SInv, NEW words \in Seq(AnyOperand), forwardRefs' = forwardRefs \o References(words), code' = code,
         globalsPointer' = globalsPointer, constantsPointer' = constantsPointer
  PROVE  forwardRefs' \in Seq(ReferenceType) /\ OperandsInside' /\ RefsAccepted'
<1> DEFINE refs == References(words)
           n == Len(forwardRefs)
<1>1. refs \in Seq(ReferenceType) /\ \A k \in 1 .. Len(refs) : refs[k].storage.place = "memory" BY ReferencesTyped
<1>2. forwardRefs \in Seq(ReferenceType) /\ n \in Nat /\ Len(refs) \in Nat BY <1>1 DEF SInv, SectionsType
<1> HIDE DEF refs
<1>3. /\ forwardRefs' \in Seq(ReferenceType)
      /\ Len(forwardRefs') = n + Len(refs)
      /\ \A i \in 1 .. n : forwardRefs'[i] = forwardRefs[i]
      /\ \A i \in n + 1 .. n + Len(refs) : forwardRefs'[i] = refs[i - n]
  <2>1. forwardRefs' = forwardRefs \o refs BY DEF refs
  <2> QED BY <1>1, <1>2, <2>1
<1>4. OperandsInside'
  <2>1. ASSUME NEW i, Waits(i) PROVE Waits(i)'
    <3>1. PICK r \in 1 .. n : forwardRefs[r].storage = InCode(i) BY <1>2, <2>1 DEF Waits
    <3>2. r \in DOMAIN forwardRefs' /\ forwardRefs'[r].storage = InCode(i) BY <1>2, <1>3, <3>1
    <3> QED BY <3>2 DEF Waits
  <2> QED BY <2>1 DEF SInv, OperandsInside
<1>5. RefsAccepted'
  <2>1. SUFFICES ASSUME NEW r \in 1 .. n + Len(refs) PROVE AsAccepted(forwardRefs'[r], code.operands)
    BY <1>3 DEF RefsAccepted
  <2>2. CASE r \in 1 .. n BY <1>2, <1>3, <2>2 DEF SInv, RefsAccepted
  <2>3. CASE r \in n + 1 .. n + Len(refs)
    <3>1. r - n \in 1 .. Len(refs) BY <1>2, <2>3
    <3>2. forwardRefs'[r].storage.place = "memory" BY <1>1, <1>3, <2>3, <3>1
    <3> QED BY <3>2 DEF AsAccepted
  <2>4. r \in 1 .. n \/ r \in n + 1 .. n + Len(refs)
    <3> HIDE DEF n
    <3> QED BY <1>2
  <2> QED BY <2>2, <2>3, <2>4
<1> QED BY <1>3, <1>4, <1>5

\* A line of data that is accepted has room, and its label is new.
LEMMA DataAccepted ==
  ASSUME SInv, NEW line \in AnyLine, line.k = "data", DataError(line) = "none"
  PROVE  /\ data.open
         /\ data.pointer + Len(line.words) <= data.end
         /\ line.label = NoName /\ data.owner = NoName => data.kind # "GLOB"
         /\ line.label \notin defined
<1> DEFINE errors == WordErrors(line.words)
           failing == {i \in DOMAIN errors : errors[i] # "none"}
<1>1. line.words \in Seq(AnyOperand) /\ Len(line.words) \in Nat BY LineParts
<1>2. data.open BY DEF DataError
<1>3. DOMAIN errors = 1 .. Len(line.words) BY <1>1 DEF WordErrors
<1>4. DataError(line) = IF failing # {} THEN errors[CHOOSE i \in failing : \A j \in failing : i <= j]
                        ELSE DataLabelError(line.label)
  BY <1>2 DEF DataError
<1>5. failing \in SUBSET Nat BY <1>3
<1> HIDE DEF errors
<1>6. failing = {}
  <2>1. SUFFICES ASSUME failing # {} PROVE FALSE OBVIOUS
  <2>2. \E i \in failing : \A j \in failing : i <= j
    <3> HIDE DEF failing
    <3> QED BY <1>5, <2>1, LeastNumber
  <2>3. (CHOOSE i \in failing : \A j \in failing : i <= j) \in failing BY <2>2
  <2>4. errors[CHOOSE i \in failing : \A j \in failing : i <= j] # "none" BY <2>3
  <2> QED BY <1>4, <2>1, <2>4
<1>7. DataLabelError(line.label) = "none" BY <1>4, <1>6
<1>8. Len(line.words) <= Room
  <2>1. SUFFICES ASSUME ~(Len(line.words) <= Room) PROVE FALSE OBVIOUS
  <2>2. Room \in Nat
    <3>1. data.pointer \in Int /\ data.end \in Int BY DEF SInv, SectionsType, DataType
    <3>2. data.pointer <= data.end BY <1>2 DEF SInv, SectionOwned, InRegion
    <3> QED BY <3>1, <3>2 DEF Room
  <2>3. Len(line.words) \in 1 .. Len(line.words) /\ Len(line.words) > Room BY <1>1, <2>1, <2>2
  <2>4. errors[Len(line.words)] = "DATA_SECTION_FULL" BY <1>1, <2>3 DEF errors, WordErrors
  <2>5. Len(line.words) \in failing BY <1>3, <2>3, <2>4
  <2> QED BY <1>6, <2>5
<1>9. data.pointer + Len(line.words) <= data.end
  <2>1. data.pointer \in Int /\ data.end \in Int BY DEF SInv, SectionsType, DataType
  <2> QED BY <1>1, <1>8, <2>1 DEF Room
<1>10. line.label = NoName /\ data.owner = NoName => data.kind # "GLOB" BY <1>7 DEF DataLabelError, unownedRefused
<1>11. line.label \notin defined BY <1>7 DEF DataLabelError
<1> QED BY <1>2, <1>9, <1>10, <1>11

\* Data without a label.
LEMMA UnlabelledStep ==
  ASSUME SInv, LinesTyped, NEW line \in AnyLine, line.k = "data", DataError(line) = "none", line.label = NoName,
         status # "done", forwardRefs' = forwardRefs \o References(line.words),
         data' = [data EXCEPT !.pointer = data.pointer + Len(line.words)],
         UNCHANGED <<globals, globalsPointer, constantsPointer, code, variable, status>>
  PROVE  SInv'
<1> DEFINE last == data.pointer + Len(line.words)
           new == [data EXCEPT !.pointer = last]
<1>1. /\ data.open
      /\ last <= data.end
      /\ data.owner = NoName => data.kind # "GLOB"
  BY DataAccepted
<1>2. line.words \in Seq(AnyOperand) /\ Len(line.words) \in Nat BY LineParts
<1>3. forwardRefs' \in Seq(ReferenceType) /\ OperandsInside' /\ RefsAccepted' BY <1>2, ReferencesAdded
<1>4. data \in DataType /\ data.pointer \in Int /\ data.begin \in Int /\ data.end \in Int BY DEF SInv, SectionsType, DataType
<1>5. last \in Int /\ data.pointer <= last BY <1>2, <1>4
<1>6. InRegion(data, globalsPointer, constantsPointer) BY <1>1 DEF SInv, SectionOwned
<1>7. data.begin <= last
  <2> HIDE DEF last
  <2> QED BY <1>4, <1>5, <1>6 DEF InRegion
<1> HIDE DEF last
<1>8. /\ new \in DataType
      /\ new.open /\ new.kind = data.kind /\ new.begin = data.begin /\ new.end = data.end /\ new.owner = data.owner
      /\ new.pointer = last
  BY <1>1, <1>4, <1>5 DEF DataType
<1>9. data' = new BY DEF last
<1> HIDE DEF new
<1>10. SectionsType' BY <1>3, <1>8, <1>9 DEF SInv, SectionsType, LinesTyped, Pointers, defined
<1>11. SymbolsInside' BY DEF SInv, SymbolsInside, defined
<1>12. DataNames' = DataNames BY DEF DataNames, defined
<1>13. SectionOwned'
  <2>1. InRegion(new, globalsPointer, constantsPointer) BY <1>1, <1>6, <1>7, <1>8 DEF InRegion
  <2>2. First(new) = First(data) /\ Past(new) = Past(data) BY <1>8 DEF First, Past
  <2>3. new.owner = NoName => Unclaimed(data)'
    <3>1. new.owner = NoName => Unclaimed(data) BY <1>1, <1>8 DEF SInv, SectionOwned
    <3> QED BY <1>1, <1>8, <1>9, <1>12, <2>2, <3>1 DEF Unclaimed
  <2>4. new.owner # NoName => new.owner \in DataNames /\ OwnedHere(globals[new.owner], new)
    <3>1. SUFFICES ASSUME new.owner # NoName PROVE new.owner \in DataNames /\ OwnedHere(globals[new.owner], new) OBVIOUS
    <3> DEFINE s == globals[new.owner]
    <3>2. new.owner \in DataNames /\ OwnedHere(s, data) BY <1>1, <1>8, <3>1 DEF SInv, SectionOwned
    <3>3. s.value \in Int BY <3>2 DEF SInv, SectionsType, SymbolType, DataNames
    <3>4. Here(new) = Here(data) + (last - data.pointer) /\ Here(data) \in Int
      BY <1>4, <1>5, <1>8, PointerFacts DEF Here
    <3> HIDE DEF s
    <3>5. s.value <= Here(new) BY <1>4, <1>5, <3>2, <3>3, <3>4 DEF OwnedHere
    <3>6. OwnedHere(s, new) BY <1>8, <2>2, <3>2, <3>5 DEF OwnedHere
    <3> QED BY <3>2, <3>6 DEF s
  <2> QED BY <1>9, <1>12, <2>1, <2>3, <2>4, <1>8 DEF SectionOwned
<1>14. WordsOwned' BY <1>12 DEF SInv, WordsOwned, Apart, AllOwned
<1> QED BY <1>3, <1>10, <1>11, <1>13, <1>14 DEF SInv

\* The words of a section are in its region.
LEMMA SectionReadable ==
  ASSUME NEW g \in Nat, NEW c \in Int, g <= c, c <= maxMemorySize - 1, NEW section \in DataType,
         InRegion(section, g, c), NEW address \in First(section) .. Past(section) - 1
  PROVE  address \in Readable(g, c) /\ (section.kind # "CNST" => address \in Writable(g))
<1>1. section.begin \in Int /\ section.pointer \in Int /\ section.end \in Int BY DEF DataType
<1> USE Sizes DEF makeGAZLPointer, Readable, Writable, LowestConstant, First, Past, InRegion
<1>2. CASE section.kind = "CNST" BY <1>1, <1>2
<1>3. CASE section.kind # "CNST" BY <1>1, <1>3
<1> QED BY <1>2, <1>3

\* What the next label leaves to the one before it.
Cut(symbol, address) == [symbol EXCEPT !.ownedWords = address - symbol.value]

\* A label cut back keeps its section and owns what is before the cut.
LEMMA CutFacts ==
  ASSUME NEW symbol \in SymbolType, NEW address \in Int
  PROVE  /\ Cut(symbol, address) \in SymbolType
         /\ Cut(symbol, address).types = symbol.types
         /\ Cut(symbol, address).value = symbol.value
         /\ Cut(symbol, address).minOffset = symbol.minOffset
         /\ Cut(symbol, address).maxOffset = symbol.maxOffset
         /\ Cut(symbol, address).ownedWords = address - symbol.value
         /\ \A a \in Int : Has(Cut(symbol, address), a) <=> symbol.value <= a /\ a < address
<1>1. symbol.value \in Int /\ address - symbol.value \in Int BY DEF SymbolType
<1>2. /\ Cut(symbol, address) \in SymbolType
      /\ Cut(symbol, address).types = symbol.types
      /\ Cut(symbol, address).value = symbol.value
      /\ Cut(symbol, address).minOffset = symbol.minOffset
      /\ Cut(symbol, address).maxOffset = symbol.maxOffset
      /\ Cut(symbol, address).ownedWords = address - symbol.value
  BY <1>1 DEF Cut, SymbolType
<1> HIDE DEF Cut
<1>3. \A a \in Int : Has(Cut(symbol, address), a) <=> symbol.value <= a /\ a < address BY <1>1, <1>2 DEF Has
<1> QED BY <1>2, <1>3

\* The names after a label in the open section: it, and what it leaves to the last.
LEMMA LabelDeclared ==
  ASSUME SInv, data.open, NEW label \in Labels, label \notin defined, NEW symbol,
         symbol.minOffset = data.begin - data.pointer,
         globals' = OwnedUpTo(With(globals, label, symbol), label, data.pointer)
  PROVE  /\ defined' = defined \cup {label}
         /\ globals'[label] = symbol
         /\ \A n \in defined : (n = data.owner /\ data.owner # NoName) \/ globals'[n] = globals[n]
         /\ data.owner # NoName => globals'[data.owner] = Cut(globals[data.owner], Here(data))
<1>0. PICK symbols : symbols = globals' OBVIOUS
<1> SUFFICES /\ DOMAIN symbols = defined \cup {label}
             /\ symbols[label] = symbol
             /\ \A n \in defined : (n = data.owner /\ data.owner # NoName) \/ symbols[n] = globals[n]
             /\ data.owner # NoName => symbols[data.owner] = Cut(globals[data.owner], Here(data))
  BY <1>0 DEF defined
<1> DEFINE W == With(globals, label, symbol)
           o == data.owner
<1>1. label # NoName BY SectionsAssumption
<1>2. DOMAIN W = defined \cup {label} /\ W[label] = symbol /\ \A n \in defined : W[n] = globals[n]
  BY <1>1 DEF With, defined
<1> HIDE DEF W
<1>3. CASE o = NoName
  <2>1. symbols = W BY <1>0, <1>3 DEF OwnedUpTo, W
  <2> QED BY <1>2, <1>3, <2>1
<1>4. CASE o # NoName
  <2>1. o \in DataNames /\ OwnedHere(globals[o], data) BY <1>4 DEF SInv, SectionOwned
  <2>2. o \in defined /\ o # label BY <2>1 DEF DataNames
  <2>3. symbols = [W EXCEPT ![o].ownedWords = W[o].minOffset - W[label].minOffset] BY <1>0, <1>4 DEF OwnedUpTo, W
  <2>4. /\ DOMAIN symbols = DOMAIN W
        /\ \A n \in DOMAIN W : n # o => symbols[n] = W[n]
        /\ symbols[o] = [W[o] EXCEPT !.ownedWords = W[o].minOffset - W[label].minOffset]
    BY <1>2, <2>2, <2>3
  <2>5. globals[o].minOffset - symbol.minOffset = Here(data) - globals[o].value
    <3> DEFINE s == globals[o]
    <3>1. s.value \in Int /\ s.minOffset \in Int BY <2>2 DEF SInv, SectionsType, SymbolType
    <3>2. data.begin \in Int /\ data.pointer \in Int BY DEF SInv, SectionsType, DataType
    <3>3. First(data) \in Int /\ Here(data) = First(data) + (data.pointer - data.begin)
      BY <3>2, PointerFacts DEF First, Here
    <3>4. s.value + s.minOffset = First(data) BY <2>1 DEF OwnedHere
    <3> HIDE DEF s
    <3>5. s.minOffset - (data.begin - data.pointer) = Here(data) - s.value BY <3>1, <3>2, <3>3, <3>4
    <3> QED BY <3>5 DEF s
  <2>6. symbols[o] = Cut(globals[o], Here(data)) BY <1>2, <2>2, <2>4, <2>5 DEF Cut
  <2>7. \A n \in defined : n # o => symbols[n] = globals[n] BY <1>2, <2>4
  <2> QED BY <1>2, <1>4, <2>2, <2>4, <2>6, <2>7
<1> QED BY <1>3, <1>4

\* Data with a label: it owns the rest of the section, which was the last label's or no one's.
LEMMA LabelledStep ==
  ASSUME SInv, LinesTyped, NEW line \in AnyLine, line.k = "data", DataError(line) = "none", line.label # NoName,
         status # "done", forwardRefs' = forwardRefs \o References(line.words),
         globals' = OwnedUpTo(With(globals, line.label,
                                   DataSymbol(data.pointer, Len(line.words), data.kind, data.begin, data.end)),
                              line.label, data.pointer),
         data' = [data EXCEPT !.pointer = data.pointer + Len(line.words), !.owner = line.label],
         UNCHANGED <<globalsPointer, constantsPointer, code, variable, status>>
  PROVE  SInv'
<1> DEFINE g == globalsPointer
           c == constantsPointer
           last == data.pointer + Len(line.words)
           new == [data EXCEPT !.pointer = last, !.owner = line.label]
           label == line.label
           symbol == DataSymbol(data.pointer, Len(line.words), data.kind, data.begin, data.end)
           owner == data.owner
           F == First(data)
           P == Here(data)
           E == Past(data)
           cut == Cut(globals[owner], P)
<1>1. data.open /\ last <= data.end /\ label \notin defined BY DataAccepted
<1>2. line.words \in Seq(AnyOperand) /\ Len(line.words) \in Nat /\ label \in Labels BY LineParts
<1>3. forwardRefs' \in Seq(ReferenceType) /\ OperandsInside' /\ RefsAccepted' BY <1>2, ReferencesAdded
<1>4. /\ data \in DataType /\ data.pointer \in Int /\ data.begin \in Int /\ data.end \in Int
      /\ data.kind \in {"GLOB", "TEMP", "CNST"}
  BY DEF SInv, SectionsType, DataType
<1>5. last \in Int /\ data.pointer <= last BY <1>2, <1>4
<1>6. InRegion(data, g, c) BY <1>1 DEF SInv, SectionOwned
<1>7. g \in Nat /\ c \in Int /\ g <= c /\ c <= maxMemorySize - 1 BY DEF SInv, SectionsType, Pointers
<1>8. /\ new \in DataType
      /\ new.open /\ new.kind = data.kind /\ new.begin = data.begin /\ new.end = data.end
      /\ new.owner = label /\ new.pointer = last
  <2> HIDE DEF last
  <2> QED BY <1>1, <1>2, <1>4, <1>5 DEF DataType
<1>9. /\ F \in Int /\ P \in Int /\ E \in Int /\ Here(new) \in Int
      /\ P = F + (data.pointer - data.begin) /\ E = P + (data.end - data.pointer) /\ Here(new) = P + (last - data.pointer)
  <2> HIDE DEF last, new
  <2>1. F \in Int /\ P \in Int /\ E \in Int BY <1>4, PointerFacts DEF First, Here, Past
  <2>2. P = F + (data.pointer - data.begin) BY <1>4, PointerFacts DEF First, Here
  <2>3. E = P + (data.end - data.pointer) BY <1>4, PointerFacts DEF Past, Here
  <2>4. Here(new) = makeGAZLPointer(last, data.kind) BY <1>8 DEF Here
  <2>5. makeGAZLPointer(last, data.kind) \in Int /\ makeGAZLPointer(last, data.kind) = P + (last - data.pointer)
    BY <1>4, <1>5, PointerFacts DEF Here
  <2> QED BY <2>1, <2>2, <2>3, <2>4, <2>5
<1>10. F <= P /\ P <= E /\ P <= Here(new)
  <2> HIDE DEF F, P, E, last, new
  <2>1. PICK b \in Int, p \in Int, e \in Int, l \in Int :
          b = data.begin /\ p = data.pointer /\ e = data.end /\ l = last
    BY <1>4, <1>5
  <2>2. b \in Int /\ p \in Int /\ e \in Int /\ l \in Int /\ b <= p /\ p <= e BY <1>6, <2>1 DEF InRegion
  <2>3. p <= l BY <1>5, <2>1
  <2>4. PICK f \in Int, h \in Int, x \in Int, y \in Int : f = F /\ h = P /\ x = E /\ y = Here(new) BY <1>9
  <2>5. h = f + (p - b) /\ x = h + (e - p) /\ y = h + (l - p) BY <1>9, <2>1, <2>4
  <2>6. f <= h /\ h <= x /\ h <= y
    <3>1. f \in Int /\ h \in Int /\ x \in Int /\ y \in Int BY <2>4
    <3>2. f <= h BY <2>2, <2>5, <3>1, SMTT(30)
    <3>3. h <= x BY <2>2, <2>5, <3>1, SMTT(30)
    <3>4. h <= y BY <2>2, <2>3, <2>5, <3>1, SMTT(30)
    <3> QED BY <3>2, <3>3, <3>4
  <2> QED BY <2>4, <2>6
<1>11. /\ symbol \in SymbolType
       /\ symbol.types = DeclareTypes(data.kind)
       /\ symbol.value = P
       /\ symbol.ownedWords = data.end - data.pointer
       /\ symbol.minOffset = data.begin - data.pointer
       /\ symbol.maxOffset = data.end - data.pointer - 1
  <2>1. symbol = [types |-> DeclareTypes(data.kind), value |-> P, declaredWords |-> Len(line.words),
                  ownedWords |-> data.end - data.pointer, minOffset |-> data.begin - data.pointer,
                  maxOffset |-> data.end - data.pointer - 1]
    BY DEF DataSymbol, Here
  <2>2. DeclareTypes(data.kind) \in SUBSET TypeName BY <1>4, DeclaredTypes
  <2>3. /\ data.end - data.pointer \in Int
        /\ data.begin - data.pointer \in Int
        /\ data.end - data.pointer - 1 \in Int
    BY <1>4
  <2> HIDE DEF symbol, P
  <2> QED BY <1>2, <1>9, <2>1, <2>2, <2>3 DEF SymbolType
<1>12. isData(symbol.types) /\ (InGlob(symbol.types) <=> data.kind = "GLOB") BY <1>4, <1>11, DeclaredTypes
<1>13. /\ defined' = defined \cup {label}
       /\ globals'[label] = symbol
       /\ \A n \in defined : (n = owner /\ owner # NoName) \/ globals'[n] = globals[n]
       /\ owner # NoName => globals'[owner] = cut
  <2>1. globals' = OwnedUpTo(With(globals, label, symbol), label, data.pointer) OBVIOUS
  <2> HIDE DEF symbol, label
  <2>2. symbol.minOffset = data.begin - data.pointer BY <1>11
  <2>3. label \in Labels /\ label \notin defined BY <1>1, <1>2
  <2> QED BY <1>1, <2>1, <2>2, <2>3, LabelDeclared
<1> HIDE DEF last, new, symbol
<1>14. /\ P + symbol.minOffset = F
       /\ P + symbol.maxOffset = E - 1
       /\ P + symbol.ownedWords = E
       /\ symbol.minOffset <= 0 /\ 0 <= symbol.ownedWords /\ symbol.ownedWords = symbol.maxOffset + 1
  <2> HIDE DEF F, P, E
  <2>1. PICK b \in Int, p \in Int, e \in Int : b = data.begin /\ p = data.pointer /\ e = data.end BY <1>4
  <2>2. P = F + (p - b) /\ E = P + (e - p) BY <1>9, <2>1
  <2>3. symbol.ownedWords = e - p /\ symbol.minOffset = b - p /\ symbol.maxOffset = e - p - 1 BY <1>11, <2>1
  <2>4. F <= P /\ P <= E BY <1>10
  <2>5. b <= p /\ p <= e BY <1>6, <2>1 DEF InRegion
  <2>6. F \in Int /\ P \in Int /\ E \in Int BY <1>9
  <2>7. P + symbol.minOffset = F /\ P + symbol.maxOffset = E - 1 /\ P + symbol.ownedWords = E BY <2>2, <2>3, <2>6, SMTT(30)
  <2> QED BY <2>3, <2>5, <2>7
<1>15. SectionOf(symbol) = F .. E - 1
  <2> HIDE DEF F, P, E
  <2> QED BY <1>9, <1>11, <1>14 DEF SectionOf
<1>16. \A address \in Int : Has(symbol, address) <=> P <= address /\ address < E
  <2> HIDE DEF F, P, E
  <2> QED BY <1>9, <1>11, <1>14 DEF Has
<1>17. owner # NoName =>
         /\ owner \in DataNames /\ owner \in defined /\ owner # label
         /\ globals[owner] \in SymbolType
         /\ OwnedHere(globals[owner], data)
  BY <1>1 DEF SInv, SectionOwned, SectionsType, DataNames
<1>18. owner # NoName =>
         /\ cut \in SymbolType /\ cut.types = globals[owner].types /\ cut.value = globals[owner].value
         /\ cut.minOffset = globals[owner].minOffset /\ cut.maxOffset = globals[owner].maxOffset
         /\ cut.ownedWords = P - globals[owner].value
         /\ \A a \in Int : Has(cut, a) <=> globals[owner].value <= a /\ a < P
  <2> HIDE DEF P
  <2> QED BY <1>9, <1>17, CutFacts DEF P
<1> HIDE DEF cut, owner, F, P, E, g, c
<1>19. \A n \in defined' : \/ n = label
                           \/ n \in defined /\ n = owner /\ owner # NoName
                           \/ n \in defined /\ globals'[n] = globals[n]
  BY <1>13
<1>20. DataNames' = DataNames \cup {label}
  <2>1. owner # NoName => isData(cut.types) BY <1>17, <1>18 DEF DataNames
  <2>2. \A n \in defined : isData(globals'[n].types) <=> isData(globals[n].types)
    BY <1>13, <1>17, <1>18
  <2> QED BY <1>12, <1>13, <2>2 DEF DataNames
<1>21. \A n \in DataNames : n # label /\ ((n = owner /\ owner # NoName) \/ globals'[n] = globals[n])
  BY <1>1, <1>13 DEF DataNames
<1>22. SectionsType'
  <2>1. IsFiniteSet(defined') BY <1>13, FS_AddElement DEF SInv, SectionsType
  <2>2. \A n \in defined' : globals'[n] \in SymbolType BY <1>11, <1>13, <1>18, <1>19, ZenonT(30) DEF SInv, SectionsType
  <2>3. data' \in DataType BY <1>8 DEF new, last
  <2> QED BY <1>3, <2>1, <2>2, <2>3 DEF SInv, SectionsType, LinesTyped, Pointers
<1>23. SymbolsInside'
  <2>1. SUFFICES ASSUME NEW n \in defined' PROVE NameInside(globals'[n], g, c) BY DEF SymbolsInside, g, c
  <2>2. CASE n = label
    <3>1. \A address \in F .. E - 1 :
            address \in Readable(g, c) /\ (data.kind # "CNST" => address \in Writable(g))
      <4>1. F = First(data) /\ E = Past(data) BY DEF F, E
      <4> HIDE DEF F, E
      <4> QED BY <1>4, <1>6, <1>7, <4>1, SectionReadable
    <3>2. "ADDRESS_R" \in symbol.types /\ ("ADDRESS_W" \in symbol.types => data.kind # "CNST")
      BY <1>4, <1>11, DeclaredTypes
    <3> QED BY <1>13, <1>15, <2>2, <3>1, <3>2 DEF NameInside
  <2>3. CASE n \in defined /\ n = owner /\ owner # NoName
    <3>1. NameInside(globals[owner], g, c) BY <2>3 DEF SInv, SymbolsInside, g, c
    <3>2. SectionOf(cut) = SectionOf(globals[owner]) BY <1>18, <2>3 DEF SectionOf
    <3>3. NameInside(cut, g, c) BY <1>18, <2>3, <3>1, <3>2 DEF NameInside
    <3> QED BY <1>13, <2>3, <3>3
  <2>4. CASE n \in defined /\ globals'[n] = globals[n] BY <2>4 DEF SInv, SymbolsInside, g, c
  <2> QED BY <1>19, <2>2, <2>3, <2>4
<1>24. SectionOwned'
  <2>1. InRegion(new, g, c)
    <3>1. data.begin <= data.pointer BY <1>6 DEF InRegion
    <3>2. data.begin <= last BY <1>4, <1>5, <3>1
    <3> QED BY <1>1, <1>6, <1>8, <3>2 DEF InRegion
  <2>2. First(new) = F /\ Past(new) = E BY <1>8 DEF First, Past, F, E
  <2>3. OwnedHere(symbol, new) BY <1>8, <1>9, <1>10, <1>11, <1>14, <2>2 DEF OwnedHere
  <2>4. data' = new BY DEF new, last
  <2>5. label # NoName BY <1>2, SectionsAssumption
  <2> QED BY <1>8, <1>13, <1>20, <2>1, <2>3, <2>4, <2>5 DEF SectionOwned, g, c
<1>25. owner # NoName =>
         /\ globals[owner].value \in Int /\ globals[owner].value <= P
         /\ SectionOf(globals[owner]) = F .. E - 1
         /\ globals[owner].value + globals[owner].maxOffset = E - 1
         /\ globals[owner].types = DeclareTypes(data.kind)
         /\ \A a \in Int : Has(globals[owner], a) <=> globals[owner].value <= a /\ a < E
  <2>1. SUFFICES ASSUME owner # NoName
                 PROVE  /\ globals[owner].value \in Int /\ globals[owner].value <= P
                        /\ SectionOf(globals[owner]) = F .. E - 1
                        /\ globals[owner].value + globals[owner].maxOffset = E - 1
                        /\ globals[owner].types = DeclareTypes(data.kind)
                        /\ \A a \in Int : Has(globals[owner], a) <=> globals[owner].value <= a /\ a < E
    OBVIOUS
  <2> DEFINE s == globals[owner]
  <2>2. s \in SymbolType /\ OwnedHere(s, data) BY <1>17, <2>1
  <2> HIDE DEF s
  <2>3. s.value \in Int /\ s.minOffset \in Int /\ s.maxOffset \in Int /\ s.ownedWords \in Int BY <2>2 DEF SymbolType
  <2>4. /\ s.types = DeclareTypes(data.kind)
        /\ s.value <= P /\ s.value + s.minOffset = F /\ s.value + s.maxOffset = E - 1 /\ s.value + s.ownedWords = E
    BY <2>2 DEF OwnedHere, F, P, E
  <2>5. SectionOf(s) = F .. E - 1 BY <2>4 DEF SectionOf
  <2>6. \A a \in Int : Has(s, a) <=> s.value <= a /\ a < E BY <2>4 DEF Has
  <2> QED BY <2>3, <2>4, <2>5, <2>6 DEF s
<1>26. owner = NoName =>
         /\ data.kind = "GLOB" => P = F
         /\ \A n \in DataNames : \A address \in F .. E - 1 : ~Has(globals[n], address)
  <2>1. owner = NoName => Unclaimed(data) BY <1>1 DEF SInv, SectionOwned, owner
  <2>2. owner = NoName /\ data.kind = "GLOB" => P = F BY <2>1 DEF Unclaimed, P, F, Here, First
  <2> QED BY <2>1, <2>2 DEF Unclaimed, F, E
<1>27. \A m, n \in DataNames : m # n => \A a \in Int : ~(Has(globals[m], a) /\ Has(globals[n], a))
  BY DEF SInv, WordsOwned, Apart
<1>28. ASSUME NEW n \in DataNames, NEW a \in Int, Has(globals'[n], a)
       PROVE  Has(globals[n], a) /\ ~Has(symbol, a)
  <2>1. CASE n = owner /\ owner # NoName
    <3>1. globals[owner].value <= a /\ a < P BY <1>13, <1>18, <1>28, <2>1
    <3>2. a < E /\ ~(P <= a) BY <1>9, <1>10, <3>1
    <3> QED BY <1>16, <1>25, <2>1, <3>1, <3>2
  <2>2. CASE globals'[n] = globals[n] /\ ~(n = owner /\ owner # NoName)
    <3>1. Has(globals[n], a) BY <1>28, <2>2
    <3>2. SUFFICES ASSUME Has(symbol, a) PROVE FALSE BY <3>1
    <3>3. P <= a /\ a < E BY <1>16, <3>2
    <3>4. CASE owner # NoName
      <4>1. globals[owner].value <= a BY <1>9, <1>25, <3>3, <3>4
      <4>2. Has(globals[owner], a) BY <1>25, <3>3, <3>4, <4>1
      <4> QED BY <1>17, <1>27, <2>2, <3>1, <3>4, <4>2
    <3>5. CASE owner = NoName
      <4>1. a \in F .. E - 1 BY <1>9, <1>10, <3>3
      <4> QED BY <1>26, <3>1, <3>5, <4>1
    <3> QED BY <3>4, <3>5
  <2> QED BY <1>21, <2>1, <2>2
<1>29. ASSUME NEW n \in DataNames, NEW a \in Int, Has(globals[n], a)
       PROVE  Has(globals'[n], a) \/ Has(symbol, a)
  <2>1. CASE n = owner /\ owner # NoName
    <3>1. globals[owner].value <= a /\ a < E BY <1>25, <1>29, <2>1
    <3>2. a < P \/ P <= a BY <1>9
    <3> QED BY <1>13, <1>16, <1>18, <2>1, <3>1, <3>2
  <2>2. CASE globals'[n] = globals[n] BY <1>29, <2>2
  <2> QED BY <1>21, <2>1, <2>2
<1>30. WordsOwned'
  <2>1. DataNames' \subseteq Labels BY <1>2, <1>20 DEF SInv, WordsOwned
  <2>2. \A n \in DataNames' : WithinSection(globals'[n])
    <3>1. WithinSection(symbol)
      <4>1. symbol.ownedWords <= symbol.maxOffset + 1
        <5>1. symbol.ownedWords \in Int BY <1>11 DEF SymbolType
        <5> QED BY <1>14, <5>1
      <4> QED BY <1>14, <4>1 DEF WithinSection
    <3>2. owner # NoName => WithinSection(cut)
      <4>1. SUFFICES ASSUME owner # NoName PROVE WithinSection(cut) OBVIOUS
      <4> DEFINE s == globals[owner]
      <4>2. s.minOffset <= 0 BY <1>17, <4>1 DEF SInv, WordsOwned, WithinSection
      <4>3. s.value \in Int /\ s.maxOffset \in Int BY <1>17, <4>1 DEF SymbolType
      <4>4. s.value <= P /\ s.value + s.maxOffset = E - 1 BY <1>25, <4>1
      <4>5. cut.minOffset = s.minOffset /\ cut.maxOffset = s.maxOffset /\ cut.ownedWords = P - s.value
        BY <1>18, <4>1
      <4> HIDE DEF s
      <4>6. 0 <= P - s.value /\ P - s.value <= s.maxOffset + 1 BY <1>9, <1>10, <4>3, <4>4
      <4> QED BY <4>2, <4>5, <4>6 DEF WithinSection
    <3>3. \A n \in DataNames : WithinSection(globals[n]) BY DEF SInv, WordsOwned
    <3>4. \A n \in DataNames : WithinSection(globals'[n]) BY <1>13, <1>21, <3>2, <3>3
    <3> QED BY <1>13, <1>20, <3>1, <3>4
  <2>3. \A m, n \in DataNames' : m # n =>
          \A address \in Int : ~(Has(globals'[m], address) /\ Has(globals'[n], address))
    <3>1. \A m, n \in DataNames : m # n =>
            \A address \in Int : ~(Has(globals'[m], address) /\ Has(globals'[n], address))
      BY <1>27, <1>28
    <3>2. \A n \in DataNames : \A address \in Int : ~(Has(globals'[n], address) /\ Has(globals'[label], address))
      BY <1>13, <1>28
    <3> QED BY <1>20, <3>1, <3>2, ZenonT(30)
  <2>4. ASSUME NEW n \in DataNames', InGlob(globals'[n].types), NEW address \in SectionOf(globals'[n])
        PROVE  \E m \in DataNames' : Has(globals'[m], address)
    <3>1. \A m \in DataNames : globals'[m].types = globals[m].types /\ SectionOf(globals'[m]) = SectionOf(globals[m])
      BY <1>13, <1>18, <1>21 DEF SectionOf
    <3>2. ASSUME NEW m \in DataNames, InGlob(globals[m].types), NEW a \in Int, a \in SectionOf(globals[m])
          PROVE  \E k \in DataNames' : Has(globals'[k], a)
      <4>1. PICK k \in DataNames : Has(globals[k], a) BY <3>2 DEF SInv, WordsOwned, AllOwned
      <4>2. Has(globals'[k], a) \/ Has(symbol, a) BY <1>29, <4>1
      <4> QED BY <1>13, <1>20, <4>2
    <3>3. CASE n \in DataNames
      <4>1. address \in SectionOf(globals[n]) /\ InGlob(globals[n].types) BY <2>4, <3>1, <3>3
      <4>2. address \in Int
        <5>1. globals[n] \in SymbolType BY <3>3 DEF SInv, SectionsType, DataNames
        <5> QED BY <4>1, <5>1 DEF SectionOf, SymbolType
      <4> QED BY <3>2, <3>3, <4>1, <4>2
    <3>4. CASE n = label
      <4>1. data.kind = "GLOB" /\ address \in F .. E - 1 BY <1>12, <1>13, <1>15, <2>4, <3>4
      <4>2. address \in Int /\ F <= address /\ address < E BY <1>9, <4>1
      <4>3. CASE P <= address
        <5>1. Has(symbol, address) BY <1>16, <4>2, <4>3
        <5> QED BY <1>13, <1>20, <5>1
      <4>4. CASE address < P
        <5>1. owner # NoName BY <1>9, <1>26, <4>1, <4>2, <4>4
        <5>2. owner \in DataNames /\ address \in SectionOf(globals[owner]) BY <1>17, <1>25, <4>1, <5>1
        <5>3. InGlob(globals[owner].types) BY <1>4, <1>25, <4>1, <5>1, DeclaredTypes
        <5> QED BY <3>2, <4>2, <5>2, <5>3
      <4> QED BY <1>9, <4>2, <4>3, <4>4
    <3> QED BY <1>20, <3>3, <3>4
  <2> QED BY <2>1, <2>2, <2>3, <2>4 DEF WordsOwned, Apart, AllOwned
<1> QED BY <1>3, <1>22, <1>23, <1>24, <1>30 DEF SInv

-----------------------------------------------------------------------------
(***************************************************************************)
(* Errors.  None is called "done" or "feeding", so a line that is refused  *)
(* ends assembly unfinished.                                               *)
(***************************************************************************)
\* Reading an operand ends in an error by another name.
LEMMA OperandErrors ==
  ASSUME NEW operand, NEW accepts
  PROVE  ReadError(operand, accepts) \notin {"done", "feeding"}
<1>1. \A symbol : ResolveError(operand, accepts, symbol) \notin {"done", "feeding"} BY DEF ResolveError
<1> QED BY <1>1 DEF ReadError

\* So does each line.
LEMMA LineErrors ==
  ASSUME SInv, NEW line \in AnyLine
  PROVE  /\ SectionError(line) \notin {"done", "feeding"}
         /\ line.k = "data" => DataError(line) \notin {"done", "feeding"}
         /\ DefpError(line) \notin {"done", "feeding"}
         /\ UseError(line) \notin {"done", "feeding"}
         /\ FuncError(line) \notin {"done", "feeding"}
         /\ SwitchError(line) \notin {"done", "feeding"}
<1>1. SectionError(line) \notin {"done", "feeding"} BY DEF SectionError
<1>2. DataLabelError(line.label) \notin {"done", "feeding"} BY DEF DataLabelError
<1>3. ASSUME line.k = "data" PROVE DataError(line) \notin {"done", "feeding"}
  <2> DEFINE errors == WordErrors(line.words)
             failing == {i \in DOMAIN errors : errors[i] # "none"}
  <2>1. DOMAIN errors = DOMAIN line.words /\ \A i \in DOMAIN line.words : errors[i] \notin {"done", "feeding"}
    <3>1. \A i \in DOMAIN line.words : ReadError(line.words[i], KONST) \notin {"done", "feeding"} BY OperandErrors
    <3> QED BY <3>1 DEF WordErrors
  <2>2. DOMAIN line.words \subseteq Nat BY <1>3, LineParts
  <2>3. failing # {} => (CHOOSE i \in failing : \A j \in failing : i <= j) \in failing
    <3>1. failing \in SUBSET Nat BY <2>1, <2>2
    <3> HIDE DEF failing
    <3>2. failing # {} => \E i \in failing : \A j \in failing : i <= j BY <3>1, LeastNumber
    <3> QED BY <3>2
  <2>4. DataError(line) = IF ~data.open THEN "DATA_SECTION_MISSING"
                          ELSE IF failing # {} THEN errors[CHOOSE i \in failing : \A j \in failing : i <= j]
                          ELSE DataLabelError(line.label)
    BY DEF DataError
  <2>5. failing # {} => errors[CHOOSE i \in failing : \A j \in failing : i <= j] \notin {"done", "feeding"}
    BY <2>1, <2>3
  <2> HIDE DEF errors, failing
  <2> QED BY <1>2, <2>4, <2>5
<1>4. DefpError(line) \notin {"done", "feeding"} BY OperandErrors DEF DefpError
<1>5. UseError(line) \notin {"done", "feeding"} BY OperandErrors DEF UseError
<1>6. SwitchError(line) \notin {"done", "feeding"} BY DEF SwitchError
<1>7. FuncError(line) \notin {"done", "feeding"} BY DEF FuncError
<1> QED BY <1>1, <1>3, <1>4, <1>5, <1>6, <1>7

\* The references, when finalize is content.
LEMMA ForwardsResolved ==
  ASSUME SInv
  PROVE  /\ FinalizeError \notin {"done", "feeding"}
         /\ FinalizeError = "none" => \A i \in DOMAIN forwardRefs : ForwardError(forwardRefs[i]) = "none"
<1> DEFINE failing == {i \in DOMAIN forwardRefs : ForwardError(forwardRefs[i]) # "none"}
           first == CHOOSE i \in failing : \A j \in failing : i <= j
<1>1. failing \in SUBSET Nat BY DEF SInv, SectionsType
<1>2. failing # {} => first \in failing
  <2> HIDE DEF failing
  <2>1. failing # {} => \E i \in failing : \A j \in failing : i <= j BY <1>1, LeastNumber
  <2> QED BY <2>1
<1>3. FinalizeError = IF data.open /\ unownedRefused THEN "UNNAMED_DATA_SECTION"
                      ELSE IF failing # {} THEN ForwardError(forwardRefs[first]) ELSE "none"
  BY DEF FinalizeError
<1>4. \A i \in DOMAIN forwardRefs : ForwardError(forwardRefs[i]) \notin {"done", "feeding"}
  <2>1. \A ref : ForwardError(ref) \notin {"done", "feeding"} BY DEF ForwardError, ResolveError
  <2> QED BY <2>1
<1>5. failing # {} => ForwardError(forwardRefs[first]) \notin {"done", "feeding", "none"} BY <1>2, <1>4
<1>6. failing = {} => \A i \in DOMAIN forwardRefs : ForwardError(forwardRefs[i]) = "none" OBVIOUS
<1> HIDE DEF failing, first
<1> QED BY <1>3, <1>5, <1>6

\* A line that is refused.
LEMMA RefusedStep ==
  ASSUME SInv, LinesTyped, NEW error, error # "done", Refuses(error)
  PROVE  SInv'
BY NothingAdded DEF Refuses, SInv, SectionsType

-----------------------------------------------------------------------------
(***************************************************************************)
(* Before the first line, and at the end.                                  *)
(***************************************************************************)
Start ==
  /\ program \in Seq(SUBSET AnyLine)
  /\ lines = <<>>
  /\ globalsPointer = 0
  /\ constantsPointer = maxMemorySize - 1
  /\ globals = Predefined
  /\ forwardRefs = <<>>
  /\ data = NoSection
  /\ code = [operands |-> <<>>, switches |-> {}, open |-> FALSE, functions |-> 0]
  /\ variable = {}
  /\ status = "feeding"

CodeType == [operands : Seq(OperandType), switches : SUBSET Int, open : BOOLEAN, functions : Nat]
Assembled == SInv /\ code \in CodeType

\* The invariant holds before the first line.
LEMMA StartHolds == Start => Assembled
<1> SUFFICES ASSUME Start PROVE Assembled OBVIOUS
<1>1. defined = {"NULL", "GAZL_VERSION"} BY DEF Start, Predefined, defined
<1>2. /\ globals["NULL"] = Symbol({"NULL_PTR"}, 0, 1)
      /\ globals["GAZL_VERSION"] = Symbol({"CONST_INT"}, 1, 1)
  BY DEF Start, Predefined
<1>3. \A n \in defined : globals[n] \in SymbolType /\ globals[n].types \in {{"NULL_PTR"}, {"CONST_INT"}}
  <2>1. /\ Symbol({"NULL_PTR"}, 0, 1) \in SymbolType
        /\ Symbol({"CONST_INT"}, 1, 1) \in SymbolType
    BY DEF Symbol, SymbolType, TypeName
  <2>2. Symbol({"NULL_PTR"}, 0, 1).types = {"NULL_PTR"} /\ Symbol({"CONST_INT"}, 1, 1).types = {"CONST_INT"}
    BY DEF Symbol
  <2> QED BY <1>1, <1>2, <2>1, <2>2
<1>4. IsFiniteSet(defined)
  <2>1. IsFiniteSet({"NULL"}) BY FS_Singleton
  <2>2. IsFiniteSet({"NULL"} \cup {"GAZL_VERSION"}) BY <2>1, FS_AddElement
  <2>3. defined = {"NULL"} \cup {"GAZL_VERSION"} BY <1>1
  <2> QED BY <2>2, <2>3
<1>5. Pointers BY Sizes DEF Start, Pointers
<1>6. SectionsType
  <2>1. lines \in Seq(AnyLine) /\ forwardRefs \in Seq(ReferenceType) /\ code.operands \in Seq(OperandType)
    BY DEF Start
  <2>2. data \in DataType BY DEF Start, NoSection, DataType
  <2>3. program \in Seq(SUBSET AnyLine) /\ variable \in SUBSET Int /\ forwardRefs = <<>> BY DEF Start
  <2> QED BY <1>3, <1>4, <1>5, <2>1, <2>2, <2>3 DEF SectionsType
<1>7. SymbolsInside BY <1>3 DEF SymbolsInside, NameInside
<1>8. OperandsInside
  <2>1. DOMAIN code.operands = {} BY DEF Start
  <2> QED BY <2>1 DEF OperandsInside
<1>9. RefsAccepted
  <2>1. DOMAIN forwardRefs = {} BY DEF Start
  <2> QED BY <2>1 DEF RefsAccepted
<1>10. ~data.open BY DEF Start, NoSection
<1>11. SectionOwned BY <1>10 DEF SectionOwned
<1>12. DataNames = {} BY <1>3 DEF DataNames, isData, ADDRESS
<1>13. WordsOwned BY <1>12 DEF WordsOwned, Apart, AllOwned
<1>14. code \in CodeType BY DEF Start, CodeType
<1> QED BY <1>6, <1>7, <1>8, <1>9, <1>11, <1>13, <1>14 DEF SInv, Assembled

\* An operand that waited, when its name is known.
LEMMA WaitedInside ==
  ASSUME SInv, FinalizeError = "none", NEW n \in DOMAIN code.operands,
         NEW i \in DOMAIN forwardRefs, forwardRefs[i].storage = InCode(n)
  PROVE  /\ Read(forwardRefs[i].operand) \in Int
         /\ OperandInside([code.operands[n] EXCEPT !.address = Read(forwardRefs[i].operand)], globalsPointer, constantsPointer)
<1> DEFINE ref == forwardRefs[i]
           operand == ref.operand
           use == code.operands[n].use
           symbol == globals[operand.name]
           address == Plus(symbol.value, operand.offset)
<1>1. ref \in ReferenceType /\ code.operands[n] \in OperandType BY DEF SInv, SectionsType
<1>2. operand.k = "label" /\ operand.offset \in Int BY <1>1 DEF ReferenceType, Word
<1>3. AsAccepted(ref, code.operands) BY DEF SInv, RefsAccepted
<1>4. use \in Uses /\ ref.accepts = Accepts(use) BY <1>3 DEF AsAccepted, InCode
<1>5. ForwardError(ref) = "none" BY ForwardsResolved
<1>6. operand.name \in defined /\ ResolveError(operand, Accepts(use), symbol) = "none"
  BY <1>4, <1>5 DEF ForwardError
<1>7. symbol \in SymbolType /\ NameInside(symbol, globalsPointer, constantsPointer)
  BY <1>6 DEF SInv, SectionsType, SymbolsInside
<1>8. /\ globalsPointer \in Int /\ constantsPointer \in Int
      /\ 0 <= globalsPointer /\ globalsPointer <= constantsPointer /\ constantsPointer <= maxMemorySize - 1
  BY DEF SInv, SectionsType, Pointers
<1>9. Read(operand) = address BY <1>2 DEF Read
<1> HIDE DEF operand, use, symbol
<1>10. /\ Operand(use, address, 0) \in OperandType
       /\ OperandInside(Operand(use, address, 0), globalsPointer, constantsPointer)
  BY <1>2, <1>4, <1>6, <1>7, <1>8, ResolvedInside
<1> HIDE DEF address
<1>11. address \in Int BY <1>10 DEF Operand, OperandType
<1> DEFINE patched == [code.operands[n] EXCEPT !.address = address]
<1>12. patched.use = use /\ patched.address = address BY <1>1 DEF OperandType, use
<1>13. use # "SWCH" BY <1>4 DEF Uses
<1> HIDE DEF patched
<1>14. OperandInside(patched, globalsPointer, constantsPointer) BY <1>10, <1>12, <1>13 DEF OperandInside, Operand
<1> QED BY <1>9, <1>11, <1>14 DEF patched, operand

\* finalize, when every name is known.
LEMMA FinalizeStep ==
  ASSUME SInv, LinesTyped, FinalizeError = "none", code'.operands = PatchedCode(code.operands),
         forwardRefs' = <<>>, variable' = {},
         UNCHANGED <<globalsPointer, constantsPointer, globals, data>>
  PROVE  SInv'
<1> DEFINE operands == PatchedCode(code.operands)
<1>1. code.operands \in Seq(OperandType) BY DEF SInv, SectionsType
<1>2. DOMAIN operands = DOMAIN code.operands BY DEF PatchedCode
<1>3. ASSUME NEW n \in DOMAIN code.operands
      PROVE  operands[n] \in OperandType /\ OperandInside(operands[n], globalsPointer, constantsPointer)
  <2> DEFINE refs == {i \in DOMAIN forwardRefs : forwardRefs[i].storage = InCode(n)}
             chosen == CHOOSE i \in refs : TRUE
  <2>1. operands[n] = [code.operands[n] EXCEPT !.address = Patched(code.operands[n].address, InCode(n))]
    BY DEF PatchedCode
  <2>2. code.operands[n] \in OperandType BY <1>1
  <2>3. CASE refs = {}
    <3>1. Patched(code.operands[n].address, InCode(n)) = code.operands[n].address BY <2>3 DEF Patched
    <3>2. operands[n] = code.operands[n] BY <2>1, <2>2, <3>1 DEF OperandType
    <3>3. ~Waits(n) BY <2>3 DEF Waits
    <3>4. OperandInside(code.operands[n], globalsPointer, constantsPointer) BY <3>3 DEF SInv, OperandsInside
    <3> QED BY <2>2, <3>2, <3>4
  <2>4. CASE refs # {}
    <3>1. chosen \in refs BY <2>4
    <3>2. Patched(code.operands[n].address, InCode(n)) = Read(forwardRefs[chosen].operand) BY <2>4 DEF Patched
    <3> HIDE DEF chosen
    <3>3. chosen \in DOMAIN forwardRefs /\ forwardRefs[chosen].storage = InCode(n) BY <3>1
    <3>4. /\ Read(forwardRefs[chosen].operand) \in Int
          /\ OperandInside([code.operands[n] EXCEPT !.address = Read(forwardRefs[chosen].operand)],
                           globalsPointer, constantsPointer)
      BY <3>3, WaitedInside
    <3>5. [code.operands[n] EXCEPT !.address = Read(forwardRefs[chosen].operand)] \in OperandType
      BY <2>2, <3>4 DEF OperandType
    <3> QED BY <2>1, <3>2, <3>4, <3>5
  <2> QED BY <2>3, <2>4
<1>4. operands \in Seq(OperandType)
  <2>1. Len(code.operands) \in Nat /\ DOMAIN code.operands = 1 .. Len(code.operands) BY <1>1
  <2>2. operands = [n \in 1 .. Len(code.operands) |-> operands[n]] BY <2>1 DEF PatchedCode
  <2> HIDE DEF operands
  <2> QED BY <1>2, <1>3, <2>1, <2>2
<1> HIDE DEF operands
<1>5. code'.operands = operands BY DEF operands
<1>6. SectionsType' BY <1>4, <1>5 DEF SInv, SectionsType, LinesTyped, Pointers, defined
<1>7. SymbolsInside' BY DEF SInv, SymbolsInside, defined
<1>8. OperandsInside' BY <1>2, <1>3, <1>5 DEF OperandsInside
<1>9. RefsAccepted'
  <2>1. DOMAIN forwardRefs' = {} OBVIOUS
  <2> QED BY <2>1 DEF RefsAccepted
<1>10. DataNames' = DataNames BY DEF DataNames, defined
<1>11. SectionOwned' BY <1>10 DEF SInv, SectionOwned, Unclaimed
<1>12. WordsOwned' BY <1>10 DEF SInv, WordsOwned, Apart, AllOwned
<1> QED BY <1>6, <1>7, <1>8, <1>9, <1>11, <1>12 DEF SInv

-----------------------------------------------------------------------------
(***************************************************************************)
(* The invariant of assembly is one.                                       *)
(***************************************************************************)
\* What a record of code becomes.
LEMMA CodeParts ==
  ASSUME NEW record \in CodeType
  PROVE  /\ \A operands, cells :
              /\ [record EXCEPT !.operands = operands, !.switches = cells].operands = operands
              /\ operands \in Seq(OperandType) /\ cells \in SUBSET Int =>
                   [record EXCEPT !.operands = operands, !.switches = cells] \in CodeType
         /\ [record EXCEPT !.switches = {}, !.open = FALSE] \in CodeType
         /\ [record EXCEPT !.switches = {}, !.open = FALSE].operands = record.operands
         /\ [record EXCEPT !.switches = {}, !.open = FALSE].functions = record.functions
<1>1. ASSUME NEW operands, NEW cells
      PROVE  [record EXCEPT !.operands = operands, !.switches = cells].operands = operands
  BY DEF CodeType
<1>2. ASSUME NEW operands \in Seq(OperandType), NEW cells \in SUBSET Int
      PROVE  [record EXCEPT !.operands = operands, !.switches = cells] \in CodeType
  BY DEF CodeType
<1>3. [record EXCEPT !.switches = {}, !.open = FALSE] \in CodeType BY DEF CodeType
<1>4. [record EXCEPT !.switches = {}, !.open = FALSE].operands = record.operands BY DEF CodeType
<1>5. [record EXCEPT !.switches = {}, !.open = FALSE].functions = record.functions BY DEF CodeType
<1> QED BY <1>1, <1>2, <1>3, <1>4, <1>5

\* And when the next function starts.
LEMMA CodeOpened ==
  ASSUME NEW record \in CodeType
  PROVE  /\ [record EXCEPT !.open = TRUE, !.functions = record.functions + 1] \in CodeType
         /\ [record EXCEPT !.open = TRUE, !.functions = record.functions + 1].operands = record.operands
<1>1. PICK count \in Nat : count = record.functions + 1 BY DEF CodeType
<1>2. [record EXCEPT !.open = TRUE, !.functions = count] \in CodeType BY DEF CodeType
<1>3. [record EXCEPT !.open = TRUE, !.functions = count].operands = record.operands BY DEF CodeType
<1> QED BY <1>1, <1>2, <1>3

\* One line, accepted or refused.
LEMMA LineStep ==
  ASSUME Assembled, Len(lines) < Len(program), NEW line \in program[Len(lines) + 1], Line(line)
  PROVE  Assembled'
<1>1. SInv /\ SectionsType BY DEF Assembled, SInv
<1>2. line \in AnyLine /\ Append(lines, line) \in Seq(AnyLine) BY <1>1, LineTyped
<1>3. LinesTyped /\ status = "feeding"
  <2>1. lines' = Append(lines, line) /\ program' = program /\ status = "feeding"
    BY DEF Line, SectionLine, DataLine, DefpLine, AddpLine, UseLine, SwitchLine, FuncLine, NewUnit, Feeding
  <2> QED BY <1>1, <1>2, <2>1 DEF LinesTyped, SectionsType
<1>4. status # "done" BY <1>3
<1>5. ASSUME NEW error, error # "done", Refuses(error) PROVE Assembled'
  BY <1>1, <1>3, <1>5, RefusedStep DEF Refuses, Assembled
<1>6. code \in CodeType BY SMTT(30) DEF Assembled
<1>7. EndedCode \in CodeType /\ EndedCode.operands = code.operands /\ EndedCode.functions = code.functions
  BY <1>6, CodeParts DEF EndedCode
<1>8. CASE SectionLine(line)
  <2>1. CASE Refuses(SectionError(line)) BY <1>1, <1>2, <1>5, <2>1, LineErrors
  <2>2. CASE SectionError(line) = "none" /\ ~Refuses(SectionError(line))
    <3> DEFINE begin == IF line.kind = "CNST" THEN constantsPointer - line.size ELSE globalsPointer
               h == IF line.kind = "CNST" THEN globalsPointer ELSE begin + line.size
               d == IF line.kind = "CNST" THEN begin ELSE constantsPointer
    <3>1. line.kind \in {"GLOB", "TEMP", "CNST"} /\ line.label \in Labels \cup {NoName} /\ line.size \in Nat
      BY <1>2, <1>8, LineParts DEF SectionLine
    <3>2. /\ globalsPointer' = h /\ constantsPointer' = d
          /\ data' = [open |-> TRUE, kind |-> line.kind, pointer |-> begin, begin |-> begin,
                      end |-> begin + line.size, owner |-> line.label]
          /\ globals' = With(globals, line.label, DataSymbol(begin, line.size, line.kind, begin, begin + line.size))
          /\ UNCHANGED <<forwardRefs, code, variable, status>>
      BY <1>8, <2>2 DEF SectionLine
    <3>3. globalsPointer \in Nat /\ constantsPointer \in Int BY <1>1 DEF SectionsType, Pointers
    <3>4. line.label \notin defined /\ line.size <= constantsPointer - globalsPointer
      <4>1. ~(data.open /\ unownedRefused) /\ ~(constantsPointer - globalsPointer < line.size) /\ line.label \notin defined
        BY <2>2, <3>1, <3>3 DEF SectionError
      <4> QED BY <3>1, <3>3, <4>1
    <3>5. begin \in Int /\ h \in Int /\ d \in Int BY <3>1, <3>3
    <3>6. line.kind = "CNST" => begin = constantsPointer - line.size /\ h = globalsPointer /\ d = begin OBVIOUS
    <3>7. line.kind # "CNST" => begin = globalsPointer /\ h = globalsPointer + line.size /\ d = constantsPointer OBVIOUS
    <3> HIDE DEF begin, h, d
    <3>8. SInv' BY <1>1, <1>3, <3>1, <3>2, <3>4, <3>5, <3>6, <3>7, SectionOpened
    <3> QED BY <3>2, <3>8 DEF Assembled
  <2> QED BY <1>8, <2>1, <2>2 DEF SectionLine
<1>9. CASE DataLine(line)
  <2>1. line.k = "data" BY <1>9 DEF DataLine
  <2>2. CASE Refuses(DataError(line)) BY <1>1, <1>2, <1>5, <2>1, <2>2, LineErrors
  <2>3. CASE DataError(line) = "none" /\ ~Refuses(DataError(line))
    <3>1. /\ forwardRefs' = forwardRefs \o References(line.words)
          /\ UNCHANGED <<globalsPointer, constantsPointer, code, variable, status>>
      BY <1>9, <2>3 DEF DataLine
    <3>2. CASE line.label = NoName
      <4>1. globals' = globals /\ data' = [data EXCEPT !.pointer = data.pointer + Len(line.words)]
        BY <1>9, <2>3, <3>2 DEF DataLine
      <4>2. SInv' BY <1>1, <1>2, <1>3, <1>4, <2>1, <2>3, <3>1, <3>2, <4>1, UnlabelledStep
      <4> QED BY <3>1, <4>2 DEF Assembled
    <3>3. CASE line.label # NoName
      <4>1. /\ globals' = OwnedUpTo(With(globals, line.label,
                                         DataSymbol(data.pointer, Len(line.words), data.kind, data.begin, data.end)),
                                    line.label, data.pointer)
            /\ data' = [data EXCEPT !.pointer = data.pointer + Len(line.words), !.owner = line.label]
        BY <1>9, <2>3, <3>3 DEF DataLine
      <4>2. SInv' BY <1>1, <1>2, <1>3, <1>4, <2>1, <2>3, <3>1, <3>3, <4>1, LabelledStep
      <4> QED BY <3>1, <4>2 DEF Assembled
    <3> QED BY <3>2, <3>3
  <2> QED BY <1>9, <2>2, <2>3 DEF DataLine
<1>10. CASE DefpLine(line)
  <2>1. CASE Refuses(DefpError(line)) BY <1>1, <1>2, <1>5, <2>1, LineErrors
  <2>2. CASE ~Refuses(DefpError(line))
    <3>1. SInv' BY <1>1, <1>2, <1>3, <1>10, <2>2, DefpStep DEF DefpLine
    <3> QED BY <1>10, <2>2, <3>1 DEF DefpLine, Assembled
  <2> QED BY <2>1, <2>2
<1>11. CASE AddpLine(line)
  <2>1. CASE Refuses(ReadError(line.operand, FREE_ADDRESS)) BY <1>5, <2>1, OperandErrors
  <2>2. CASE ~Refuses(ReadError(line.operand, FREE_ADDRESS))
    <3>1. SInv' BY <1>1, <1>2, <1>3, <1>11, <2>2, AddpStep DEF AddpLine
    <3> QED BY <1>11, <2>2, <3>1 DEF AddpLine, Assembled
  <2> QED BY <2>1, <2>2
<1>12. CASE UseLine(line)
  <2>1. CASE Refuses(UseError(line)) BY <1>1, <1>2, <1>5, <2>1, LineErrors
  <2>2. CASE ~Refuses(UseError(line))
    <3>1. /\ line.k = "use" /\ UseError(line) = "none"
          /\ code' = [code EXCEPT !.operands =
               Append(@, Operand(line.use, IF Forward(line.operand) THEN 0 ELSE Read(line.operand), 0))]
          /\ forwardRefs' = IF Forward(line.operand)
                            THEN Append(forwardRefs, Reference(line.operand, Accepts(line.use), InCode(Len(code.operands) + 1)))
                            ELSE forwardRefs
          /\ UNCHANGED <<globalsPointer, constantsPointer, globals, data, variable, status>>
      BY <1>12, <2>2 DEF UseLine
    <3>2. code'.operands = Append(code.operands,
                                  Operand(line.use, IF Forward(line.operand) THEN 0 ELSE Read(line.operand), 0))
      BY <1>6, <3>1 DEF CodeType
    <3>3. SInv' BY <1>1, <1>2, <1>3, <1>4, <3>1, <3>2, UseStep
    <3>4. code'.operands \in Seq(OperandType) BY <3>3 DEF SInv, SectionsType
    <3>5. code' \in CodeType BY <1>6, <3>1, <3>4 DEF CodeType
    <3> QED BY <3>3, <3>5 DEF Assembled
  <2> QED BY <2>1, <2>2
<1>13. CASE SwitchLine(line)
  <2>1. CASE Refuses(SwitchError(line)) BY <1>1, <1>2, <1>5, <2>1, LineErrors
  <2>2. CASE ~Refuses(SwitchError(line))
    <3> DEFINE table == constantsPointer - line.cases - 1
               new == Append(code.operands, Operand("SWCH", makeGAZLPointer(table, "CNST"), line.cases))
               cells == code.switches \cup (table .. table + line.cases)
    <3>1. /\ line.k = "switch" /\ SwitchError(line) = "none" /\ constantsPointer' = table
          /\ code' = [code EXCEPT !.operands = new, !.switches = cells]
          /\ UNCHANGED <<globalsPointer, globals, forwardRefs, data, variable, status>>
      BY <1>13, <2>2 DEF SwitchLine
    <3>2. line.cases \in Nat /\ constantsPointer \in Int BY <1>1, <1>2, <3>1, LineParts DEF SectionsType, Pointers
    <3>3. cells \in SUBSET Int BY <1>6, <3>2 DEF CodeType
    <3> HIDE DEF new, cells
    <3>4. code'.operands = new BY <1>6, <3>1, CodeParts, ZenonT(30)
    <3>5. SInv' BY <1>1, <1>2, <1>3, <3>1, <3>4, SwitchStep DEF new
    <3>6. new \in Seq(OperandType) BY <3>4, <3>5 DEF SInv, SectionsType
    <3>7. code' \in CodeType BY <1>6, <3>1, <3>3, <3>6, CodeParts
    <3> QED BY <3>5, <3>7 DEF Assembled
  <2> QED BY <2>1, <2>2
<1>14. CASE FuncLine(line)
  <2>1. CASE Refuses(FuncError(line)) BY <1>1, <1>2, <1>5, <2>1, LineErrors
  <2>2. CASE ~Refuses(FuncError(line))
    <3>1. /\ FuncError(line) = "none"
          /\ globals' = With(globals, line.label, Symbol({"FUNC"}, Plus(FUNCTION_OFFSET, code.functions), 1))
          /\ code' = [EndedCode EXCEPT !.open = TRUE, !.functions = EndedCode.functions + 1]
          /\ UNCHANGED <<globalsPointer, constantsPointer, forwardRefs, data, variable, status>>
      BY <1>14, <2>2 DEF FuncLine
    <3>2. code' \in CodeType /\ code'.operands = code.operands
      <4> HIDE DEF CodeType
      <4> QED BY <1>7, <3>1, CodeOpened
    <3>3. code.functions \in Nat BY <1>6 DEF CodeType
    <3>4. line.label \notin defined BY <3>1 DEF FuncError
    <3>5. SInv' BY <1>1, <1>3, <3>1, <3>2, <3>3, <3>4, FuncStep
    <3> QED BY <3>2, <3>5 DEF Assembled
  <2> QED BY <2>1, <2>2
<1>15. CASE NewUnit(line)
  <2>1. /\ code' = EndedCode /\ variable' = {}
        /\ UNCHANGED <<globalsPointer, constantsPointer, globals, forwardRefs, data, status>>
    BY <1>15 DEF NewUnit
  <2>2. SInv' BY <1>1, <1>3, <1>7, <2>1, NothingAdded
  <2> QED BY <1>7, <2>1, <2>2 DEF Assembled
<1> QED BY <1>8, <1>9, <1>10, <1>11, <1>12, <1>13, <1>14, <1>15 DEF Line

\* One step of assembly.
LEMMA AssemblyStep == Assembled /\ [Next]_vars => Assembled'
<1> SUFFICES ASSUME Assembled, [Next]_vars PROVE Assembled' OBVIOUS
<1>1. SInv /\ SectionsType BY DEF Assembled, SInv
<1>2. CASE \E line \in program[Len(lines) + 1] : Len(lines) < Len(program) /\ Line(line) BY <1>2, LineStep
<1>3. CASE Finalize
  <2>1. LinesTyped BY <1>1, <1>3 DEF Finalize, LinesTyped, SectionsType
  <2>2. CASE Refuses(FinalizeError)
    <3>1. FinalizeError # "done" BY <1>1, ForwardsResolved
    <3>2. SInv' BY <1>1, <2>1, <2>2, <3>1, RefusedStep
    <3> QED BY <2>2, <3>2 DEF Refuses, Assembled
  <2>3. CASE ~Refuses(FinalizeError)
    <3>1. /\ FinalizeError = "none" /\ forwardRefs' = <<>> /\ variable' = {}
          /\ code' = [EndedCode EXCEPT !.operands = PatchedCode(EndedCode.operands)]
          /\ UNCHANGED <<globalsPointer, constantsPointer, globals, data>>
      BY <1>3, <2>3 DEF Finalize
    <3>2. code \in CodeType BY DEF Assembled
    <3>3. EndedCode \in CodeType /\ EndedCode.operands = code.operands BY <3>2, CodeParts DEF EndedCode
    <3>4. code'.operands = PatchedCode(code.operands) BY <3>1, <3>3 DEF CodeType
    <3>5. SInv' BY <1>1, <2>1, <3>1, <3>4, FinalizeStep
    <3>6. code'.operands \in Seq(OperandType) BY <3>5 DEF SInv, SectionsType
    <3>7. code' \in CodeType BY <3>1, <3>3, <3>4, <3>6 DEF CodeType
    <3> QED BY <3>5, <3>7 DEF Assembled
  <2> QED BY <2>2, <2>3
<1>4. CASE UNCHANGED vars
  <2>1. LinesTyped BY <1>1, <1>4 DEF LinesTyped, SectionsType, vars
  <2>2. SInv' BY <1>1, <1>4, <2>1, NothingAdded, SMTT(30) DEF vars, SectionsType
  <2> QED BY <1>4, <2>2 DEF vars, Assembled
<1> QED BY <1>2, <1>3, <1>4 DEF Next

\* Assembly keeps the program it was given, and is at work until it is done.
LEMMA AssemblyKeeps == Next => program' = program /\ status = "feeding"
BY ZenonT(30) DEF Next, Finalize, Line, SectionLine, DataLine, DefpLine, AddpLine, UseLine, SwitchLine, FuncLine, NewUnit, Feeding

-----------------------------------------------------------------------------
(***************************************************************************)
(* What the invariant of assembly gives.                                   *)
(***************************************************************************)
\* The regions at the end are those that addresses were inside of.
LEMMA InvariantInside == SInv => AddressesInside
<1> SUFFICES ASSUME SInv, status = "done", NEW n \in DOMAIN code.operands
             PROVE  LET operand == code.operands[n]
                        cell == CellAt(operand.address)
                    IN  CASE operand.use = "PEEK" -> cell \in 0 .. constantsSize + globalsSize - 1
                          [] operand.use = "POKE" -> cell \in constantsSize .. constantsSize + globalsSize - 1
                          [] operand.use = "SWCH" -> 0 <= cell /\ cell + operand.cases < constantsSize
                          [] OTHER -> TRUE
  BY DEF AddressesInside
<1> DEFINE operand == code.operands[n]
<1>1. operand \in OperandType BY DEF SInv, SectionsType
<1>2. operand.address \in Int /\ operand.cases \in Nat BY <1>1 DEF OperandType
<1>3. OperandInside(operand, globalsPointer, constantsPointer)
  <2>1. forwardRefs = <<>> BY DEF SInv, SectionsType
  <2>2. ~Waits(n) BY <2>1 DEF Waits
  <2> QED BY <2>2 DEF SInv, OperandsInside
<1> HIDE DEF operand
<1>4. PICK g \in Nat, c \in Int, M \in Nat, offset \in Nat :
        g = globalsPointer /\ c = constantsPointer /\ M = maxMemorySize /\ offset = MEMORY_OFFSET
  BY Sizes DEF SInv, SectionsType, Pointers
<1>5. PICK address \in Int, cases \in Nat : address = operand.address /\ cases = operand.cases BY <1>2
<1>6. CellAt(operand.address) = address - offset + (M - 1 - c) /\ constantsSize = M - 1 - c /\ globalsSize = g
  BY <1>4, <1>5 DEF CellAt, constantsSize, globalsSize
<1>7. operand.use = "PEEK" => CellAt(operand.address) \in 0 .. constantsSize + globalsSize - 1
  <2>1. operand.use = "PEEK" => offset - (M - 1 - c) <= address /\ address <= offset + g - 1
    BY <1>3, <1>4, <1>5 DEF OperandInside, Readable, LowestConstant
  <2> QED BY <1>6, <2>1
<1>8. operand.use = "POKE" => CellAt(operand.address) \in constantsSize .. constantsSize + globalsSize - 1
  <2>1. operand.use = "POKE" => offset <= address /\ address <= offset + g - 1
    BY <1>3, <1>4, <1>5 DEF OperandInside, Writable
  <2> QED BY <1>6, <2>1
<1>9. operand.use = "SWCH" =>
        0 <= CellAt(operand.address) /\ CellAt(operand.address) + operand.cases < constantsSize
  <2>1. operand.use = "SWCH" => offset - (M - 1 - c) <= address /\ address + cases < offset
    BY <1>3, <1>4, <1>5 DEF OperandInside, LowestConstant
  <2> QED BY <1>5, <1>6, <2>1
<1> QED BY <1>7, <1>8, <1>9 DEF operand

\* Owned words, as OneOwner has them.
LEMMA InvariantOwns == SInv => OneOwner
<1> SUFFICES ASSUME SInv PROVE OneOwner OBVIOUS
<1>1. \A n \in DataNames : globals[n] \in SymbolType BY DEF SInv, SectionsType, DataNames
<1>2. \A n \in DataNames : /\ Owned(globals[n]) \subseteq Int
                           /\ \A address \in Int : address \in Owned(globals[n]) <=> Has(globals[n], address)
  <2> SUFFICES ASSUME NEW symbol \in SymbolType
               PROVE  /\ Owned(symbol) \subseteq Int
                      /\ \A address \in Int : address \in Owned(symbol) <=> Has(symbol, address)
    BY <1>1
  <2>1. symbol.value \in Int /\ symbol.ownedWords \in Int BY DEF SymbolType
  <2> QED BY <2>1 DEF Owned, Has
<1>3. \A m, n \in DataNames : m # n => Owned(globals[m]) \cap Owned(globals[n]) = {}
  <2> SUFFICES ASSUME NEW m \in DataNames, NEW n \in DataNames, m # n, NEW address \in Owned(globals[m]),
                      address \in Owned(globals[n])
               PROVE  FALSE
    OBVIOUS
  <2>1. address \in Int /\ Has(globals[m], address) /\ Has(globals[n], address) BY <1>2
  <2> QED BY <2>1 DEF SInv, WordsOwned, Apart
<1>4. ASSUME NEW n \in DataNames PROVE Owned(globals[n]) \subseteq SectionOf(globals[n])
  BY <1>2, OwnedReadable
<1>5. ASSUME NEW n \in DataNames, InGlob(globals[n].types), NEW address \in SectionOf(globals[n])
      PROVE  \E m \in DataNames : address \in Owned(globals[m])
  <2>1. address \in Int BY <1>1, <1>5 DEF SectionOf, SymbolType
  <2>2. \E m \in DataNames : Has(globals[m], address) BY <1>5 DEF SInv, WordsOwned, AllOwned
  <2> QED BY <1>2, <2>1, <2>2
<1> QED BY <1>3, <1>4, <1>5 DEF OneOwner

-----------------------------------------------------------------------------
(***************************************************************************)
(* thawMemory reads what it has found to be in the buffer.                 *)
(***************************************************************************)
EntryType == [name : Name, padding : Name, wordCount : Nat, words : Nat, next : Nat]

\* Where the entry after the first count ones starts.
NextAfter(entries, count) == IF count = 0 THEN MEMORY_HEADER_SIZE ELSE entries[count].next

\* Entries follow each other from the header to p.
Chained(entries, p, size) ==
  /\ p \in MEMORY_HEADER_SIZE .. size
  /\ p = NextAfter(entries, Len(entries))
  /\ \A i \in 1 .. Len(entries) :
       /\ NextAfter(entries, i - 1) + 8 + Len(entries[i].name) + Len(entries[i].padding) = entries[i].words
       /\ entries[i].next = entries[i].words + entries[i].wordCount * 4
       /\ entries[i].next <= p

\* A word of the buffer.
LEMMA WordRead ==
  ASSUME NEW buffer \in Name, NEW p \in Nat, p + 4 <= Len(buffer)
  PROVE  getMemoryWord(buffer, p) \in Int
<1>1. Len(buffer) \in Nat BY NameParts
<1>2. /\ buffer[p + 1] \in Int /\ buffer[p + 2] \in Int /\ buffer[p + 3] \in Int /\ buffer[p + 4] \in Int
  <2>1. p + 1 \in 1 .. Len(buffer) /\ p + 2 \in 1 .. Len(buffer) /\ p + 3 \in 1 .. Len(buffer) /\ p + 4 \in 1 .. Len(buffer)
    BY <1>1
  <2> QED BY <2>1, NameParts
<1>3. PICK a \in Int, b \in Int, c \in Int, d \in Int :
        a = buffer[p + 1] /\ b = buffer[p + 2] /\ c = buffer[p + 3] /\ d = buffer[p + 4]
  BY <1>2
<1>4. getMemoryWord(buffer, p) = a + b * 256 + c * 65536 + (IF d < 128 THEN d ELSE d - 256) * 16777216
  BY <1>3 DEF getMemoryWord
<1> QED BY <1>4

\* Padding is to a multiple of four.
LEMMA PaddingSize == \A n \in Nat : memoryPadding(n) \in 0 .. 3
BY DEF memoryPadding

\* A part of the buffer.
LEMMA BytesRead ==
  ASSUME NEW buffer \in Name, NEW p \in Nat, NEW count \in Nat, p + count <= Len(buffer)
  PROVE  Bytes(buffer, p, count) \in Name /\ Len(Bytes(buffer, p, count)) = count
<1>1. Len(buffer) \in Nat BY NameParts
<1>2. Bytes(buffer, p, count) = [i \in 1 .. count |-> buffer[p + i]]
  BY <1>1 DEF Bytes, Name
<1>3. \A i \in 1 .. count : buffer[p + i] \in Byte BY <1>1 DEF Name
<1> QED BY <1>2, <1>3 DEF Name

\* The entry at p, when its lengths fit.
LEMMA EntryRead ==
  ASSUME thaw.buffer \in Name, NEW p \in Nat, EntryFits(p)
  PROVE  /\ getMemoryEntry(p) \in EntryType
         /\ p + 8 + Len(getMemoryEntry(p).name) + Len(getMemoryEntry(p).padding) = getMemoryEntry(p).words
         /\ getMemoryEntry(p).next = getMemoryEntry(p).words + getMemoryEntry(p).wordCount * 4
         /\ p <= getMemoryEntry(p).next /\ getMemoryEntry(p).next <= Len(thaw.buffer)
<1>1. PICK size \in Nat : size = Len(thaw.buffer) BY NameParts
<1>2. p + 4 <= size /\ NameFits(p) BY <1>1 DEF EntryFits, NameFits, BytesAfter
<1>3. PICK length \in Int : length = NameLengthAt(p) BY <1>1, <1>2, WordRead DEF NameLengthAt
<1>4. 0 <= length /\ length <= size - p - 4 BY <1>1, <1>2, <1>3 DEF NameFits, Above, BytesAfter
<1>5. PICK padding \in 0 .. 3 : padding = memoryPadding(length) BY <1>4, PaddingSize
<1>6. size - p - 4 - length >= padding + 4
  <2>1. BytesAfter(p) - 4 - NameLengthAt(p) >= memoryPadding(NameLengthAt(p)) + 4 BY <1>2 DEF NameFits
  <2> QED BY <1>1, <1>3, <1>5, <2>1 DEF BytesAfter
<1>7. PICK words \in Nat : words = WordsAt(p) /\ words = p + 4 + length + padding + 4
  BY <1>3, <1>4, <1>5 DEF WordsAt
<1>8. words <= size /\ words - 4 \in Nat /\ (words - 4) + 4 <= size BY <1>4, <1>6, <1>7
<1>9. PICK count \in Int : count = WordCountAt(p)
  <2>1. getMemoryWord(thaw.buffer, words - 4) \in Int BY <1>1, <1>8, WordRead
  <2> QED BY <1>7, <2>1 DEF WordCountAt
<1>10. 0 <= count /\ words + count * 4 <= size
  <2>1. ~(count < 0 \/ count > (size - words) \div 4)
    BY <1>1, <1>7, <1>9 DEF EntryFits, Above, BytesAfter
  <2>2. size - words \in Nat BY <1>8
  <2>3. ((size - words) \div 4) * 4 <= size - words /\ (size - words) \div 4 \in Nat BY <2>2
  <2> QED BY <2>1, <2>2, <2>3
<1>11. Bytes(thaw.buffer, p + 4, length) \in Name /\ Len(Bytes(thaw.buffer, p + 4, length)) = length
  <2>1. p + 4 \in Nat /\ length \in Nat /\ p + 4 + length <= Len(thaw.buffer) BY <1>1, <1>4
  <2> QED BY <2>1, BytesRead
<1>12. /\ Bytes(thaw.buffer, p + 4 + length, padding) \in Name
       /\ Len(Bytes(thaw.buffer, p + 4 + length, padding)) = padding
  <2>1. p + 4 + length \in Nat /\ padding \in Nat /\ p + 4 + length + padding <= Len(thaw.buffer) BY <1>1, <1>4, <1>6
  <2> QED BY <2>1, BytesRead
<1>13. getMemoryEntry(p) = [name |-> Bytes(thaw.buffer, p + 4, length),
                            padding |-> Bytes(thaw.buffer, p + 4 + length, padding),
                            wordCount |-> count, words |-> words, next |-> words + count * 4]
  BY <1>3, <1>5, <1>7, <1>9 DEF getMemoryEntry
<1>14. count \in Nat /\ words + count * 4 \in Nat BY <1>10
<1>15. getMemoryEntry(p) \in EntryType BY <1>11, <1>12, <1>13, <1>14 DEF EntryType
<1>16. p + 8 + length + padding = words /\ p <= words + count * 4 BY <1>4, <1>7, <1>14
<1> QED BY <1>1, <1>10, <1>11, <1>12, <1>13, <1>15, <1>16

\* One more entry.
LEMMA ChainGrows ==
  ASSUME NEW size \in Nat, NEW entries \in Seq(EntryType), NEW p \in Nat, Chained(entries, p, size),
         NEW entry \in EntryType, p <= entry.next, entry.next <= size,
         p + 8 + Len(entry.name) + Len(entry.padding) = entry.words,
         entry.next = entry.words + entry.wordCount * 4
  PROVE  /\ Append(entries, entry) \in Seq(EntryType)
         /\ Chained(Append(entries, entry), entry.next, size)
<1> DEFINE n == Len(entries)
           longer == Append(entries, entry)
<1>1. n \in Nat /\ entry.next \in Nat BY DEF EntryType
<1>2. /\ longer \in Seq(EntryType)
      /\ Len(longer) = n + 1
      /\ \A i \in 1 .. n : longer[i] = entries[i]
      /\ longer[n + 1] = entry
  OBVIOUS
<1> HIDE DEF longer, n
<1>3. \A i \in 0 .. n : NextAfter(longer, i) = NextAfter(entries, i) BY <1>1, <1>2 DEF NextAfter
<1>4. NextAfter(entries, n) = p /\ MEMORY_HEADER_SIZE <= p BY DEF Chained, n
<1>5. ASSUME NEW i \in 1 .. n + 1
      PROVE  /\ NextAfter(longer, i - 1) + 8 + Len(longer[i].name) + Len(longer[i].padding) = longer[i].words
             /\ longer[i].next = longer[i].words + longer[i].wordCount * 4
             /\ longer[i].next <= entry.next
  <2>1. CASE i \in 1 .. n
    <3>1. longer[i] = entries[i] /\ NextAfter(longer, i - 1) = NextAfter(entries, i - 1)
      <4>1. longer[i] = entries[i] BY <1>2, <2>1
      <4>2. i - 1 \in 0 .. n BY <1>1, <2>1
      <4> QED BY <1>3, <4>1, <4>2
    <3>2. /\ NextAfter(entries, i - 1) + 8 + Len(entries[i].name) + Len(entries[i].padding) = entries[i].words
          /\ entries[i].next = entries[i].words + entries[i].wordCount * 4
          /\ entries[i].next <= p
      BY <2>1 DEF Chained, n
    <3>3. entries[i].next \in Nat
      <4>1. entries[i] \in EntryType BY <2>1 DEF n
      <4> QED BY <4>1 DEF EntryType
    <3>4. entries[i].next <= entry.next BY <1>1, <3>2, <3>3
    <3> QED BY <3>1, <3>2, <3>4
  <2>2. CASE i = n + 1
    <3>1. longer[i] = entry /\ NextAfter(longer, i - 1) = p BY <1>1, <1>2, <1>3, <1>4, <2>2
    <3>2. entry.next <= entry.next BY <1>1
    <3> QED BY <3>1, <3>2
  <2> QED BY <1>1, <2>1, <2>2
<1>6. NextAfter(longer, n + 1) = entry.next BY <1>1, <1>2 DEF NextAfter
<1>7. entry.next \in MEMORY_HEADER_SIZE .. size BY <1>1, <1>4 DEF MEMORY_HEADER_SIZE
<1> QED BY <1>2, <1>5, <1>6, <1>7 DEF Chained, longer

-----------------------------------------------------------------------------
(***************************************************************************)
(* The invariant of freezing and thawing.                                  *)
(***************************************************************************)
ThawFields ==
  {"at", "buffer", "prefix", "p", "left", "entries", "e", "o", "exact", "status", "before"}

ThawTyped(t) ==
  /\ DOMAIN t = ThawFields
  /\ t.buffer \in Name
  /\ t.p \in Nat
  /\ t.entries \in Seq(EntryType)
  /\ t.e \in Nat \ {0}
  /\ t.o \in Nat \ {0}

\* Thawing has not begun, and then reads a program that is complete.
Staged(t) ==
  /\ t.at \in {"none", "assemble", "entries", "validate", "walk", "done"}
  /\ t.at \in {"none", "assemble"} => t = Thaw(t.at)

EntriesRead(t) == t.at \in {"entries", "validate", "walk"} => Chained(t.entries, t.p, Len(t.buffer))

GlobalCells == UNION {OwnedCells(globals[n]) : n \in {n \in DataNames : InGlob(globals[n].types)}}

RestoredOnly(t, words, cells) ==
  /\ t.at \in {"entries", "validate"} => words = t.before
  /\ t.at = "done" /\ t.status \notin {"OK", "MISMATCH"} => words = t.before
  /\ t.at \in {"walk", "done"} => \A cell \in DOMAIN words : words[cell] = t.before[cell] \/ cell \in cells

FInv ==
  /\ Assembled
  /\ ThawTyped(thaw)
  /\ Staged(thaw)
  /\ thaw.at = "none" => program \in Programs
  /\ thaw.at \notin {"none", "assemble"} => status = "done"
  /\ EntriesRead(thaw)
  /\ RestoredOnly(thaw, memory, GlobalCells)

\* Before thawing nothing has been read.
LEMMA ThawStart ==
  ASSUME NEW step \in {"none", "assemble"}
  PROVE  /\ ThawTyped(Thaw(step))
         /\ Staged(Thaw(step))
         /\ EntriesRead(Thaw(step))
         /\ \A words, cells : RestoredOnly(Thaw(step), words, cells)
         /\ Thaw(step).at = step
<1>1. /\ DOMAIN Thaw(step) = ThawFields
      /\ Thaw(step).at = step /\ Thaw(step).buffer = <<>> /\ Thaw(step).p = 0 /\ Thaw(step).entries = <<>>
      /\ Thaw(step).e = 1 /\ Thaw(step).o = 1
  BY DEF Thaw, ThawFields
<1>2. <<>> \in Name /\ <<>> \in Seq(EntryType) BY DEF Name
<1>3. ThawTyped(Thaw(step)) BY <1>1, <1>2 DEF ThawTyped
<1> QED BY <1>1, <1>3 DEF Staged, EntriesRead, RestoredOnly

\* The invariant holds at first.
LEMMA FrozenStart == FrozenInit => FInv
<1> SUFFICES ASSUME FrozenInit PROVE FInv OBVIOUS
<1>1. Init /\ thaw = Thaw("none") BY DEF FrozenInit
<1>2. program \in Programs BY <1>1 DEF Init
<1>3. Start BY <1>1, <1>2, SectionsAssumption DEF Init, Start
<1>4. Assembled BY <1>3, StartHolds
<1> QED BY <1>1, <1>2, <1>4, ThawStart DEF FInv

\* A step that leaves the program as it was assembled.
LEMMA ProgramStays ==
  ASSUME Assembled,
         UNCHANGED <<program, lines, globalsPointer, constantsPointer, globals, forwardRefs, data, code, variable, status>>
  PROVE  Assembled' /\ GlobalCells' = GlobalCells
<1>1. SInv /\ SectionsType BY DEF Assembled, SInv
<1>2. LinesTyped BY <1>1 DEF LinesTyped, SectionsType
<1>3. SInv' BY <1>1, <1>2, NothingAdded DEF SectionsType
<1>4. GlobalCells' = GlobalCells
  BY DEF GlobalCells, DataNames, defined, OwnedCells, CellAt, constantsSize
<1> QED BY <1>3, <1>4 DEF Assembled

\* Steps that leave thawing as it was.
LEMMA NotThawing ==
  ASSUME FInv, Assemble \/ freezeMemorySize \/ freezeMemory \/ UNCHANGED thawVars
  PROVE  FInv'
<1>1. thaw' = thaw BY DEF Assemble, freezeMemorySize, freezeMemory, thawVars
<1>2. CASE Assemble
  <2>1. Next /\ program' = program /\ status = "feeding" BY <1>2, AssemblyKeeps DEF Assemble
  <2>2. Assembled' BY <2>1, AssemblyStep DEF FInv
  <2>3. thaw.at \in {"none", "assemble"} BY <2>1 DEF FInv
  <2>4. thaw = Thaw(thaw.at) BY <2>3 DEF FInv, Staged
  <2>5. RestoredOnly(thaw, memory', GlobalCells') BY <2>3, <2>4, ThawStart
  <2> QED BY <1>1, <2>1, <2>2, <2>3, <2>5 DEF FInv
<1>3. CASE UNCHANGED vars
  <2>1. Assembled' /\ GlobalCells' = GlobalCells BY <1>3, ProgramStays DEF FInv, vars
  <2> QED BY <1>1, <1>3, <2>1 DEF FInv, vars
<1> QED BY <1>2, <1>3 DEF freezeMemorySize, freezeMemory, thawVars

\* A run, before anything is thawed: whatever words it leaves, the program is as it was.
LEMMA RunStep ==
  ASSUME FInv, RunProgram
  PROVE  FInv' /\ thaw' = thaw /\ thaw.at \in {"none", "assemble"}
<1>1. thaw' = thaw /\ program' = program /\ status' = status /\ thaw.at \in {"none", "assemble"}
  BY DEF RunProgram
<1>2. Assembled' BY ProgramStays DEF FInv, RunProgram
<1>3. thaw = Thaw(thaw.at) BY <1>1 DEF FInv, Staged
<1>4. RestoredOnly(thaw, memory', GlobalCells') BY <1>1, <1>3, ThawStart
<1> QED BY <1>1, <1>2, <1>4 DEF FInv

\* Another program is assembled from nothing.
LEMMA RestartStep ==
  ASSUME FInv, Restart
  PROVE  FInv'
<1>1. program' \in Seq(SUBSET AnyLine)
  <2>1. program \in Programs BY DEF FInv, Restart
  <2> QED BY <2>1, FrozenAssumption DEF Restart
<1>2. Start' BY <1>1 DEF Restart, Start
<1>3. Assembled' BY <1>2, StartHolds, PTL
<1>4. thaw' = Thaw("assemble") BY DEF Restart
<1> QED BY <1>3, <1>4, ThawStart DEF FInv

\* The header.
LEMMA ThawHeaderStep ==
  ASSUME FInv, ThawHeader
  PROVE  FInv'
<1>1. /\ thaw = Thaw("assemble") /\ status = "done" /\ ThawTyped(thaw)
      /\ DOMAIN thaw = ThawFields /\ thaw.entries = <<>>
  BY DEF ThawHeader, FInv, Staged, ThawTyped, Thaw
<1>2. Assembled' /\ GlobalCells' = GlobalCells /\ memory' = memory /\ status' = status
  BY ProgramStays DEF FInv, ThawHeader, vars
<1>3. PICK buffer \in Name, prefix \in BOOLEAN :
        thaw' = IF HeaderError(buffer) # "none"
                THEN [thaw EXCEPT !.at = "done", !.status = HeaderError(buffer), !.buffer = buffer,
                                  !.prefix = prefix, !.before = memory]
                ELSE [thaw EXCEPT !.at = "entries", !.buffer = buffer, !.prefix = prefix, !.before = memory,
                                  !.p = MEMORY_HEADER_SIZE, !.left = getMemoryWord(buffer, 16)]
  BY DEF ThawHeader, Name
<1>4. CASE HeaderError(buffer) # "none"
  <2>1. /\ thaw'.at = "done" /\ thaw'.buffer = buffer /\ thaw'.before = memory /\ DOMAIN thaw' = ThawFields
        /\ thaw'.p = thaw.p /\ thaw'.entries = thaw.entries /\ thaw'.e = thaw.e /\ thaw'.o = thaw.o
    BY <1>1, <1>3, <1>4 DEF ThawFields
  <2>2. ThawTyped(thaw') BY <1>1, <2>1 DEF ThawTyped
  <2>3. RestoredOnly(thaw', memory, GlobalCells) BY <2>1 DEF RestoredOnly
  <2> QED BY <1>1, <1>2, <2>1, <2>2, <2>3 DEF FInv, Staged, EntriesRead
<1>5. CASE HeaderError(buffer) = "none"
  <2>1. /\ thaw'.at = "entries" /\ thaw'.buffer = buffer /\ thaw'.before = memory /\ DOMAIN thaw' = ThawFields
        /\ thaw'.p = MEMORY_HEADER_SIZE /\ thaw'.entries = <<>> /\ thaw'.e = thaw.e /\ thaw'.o = thaw.o
    BY <1>1, <1>3, <1>5 DEF ThawFields
  <2>2. ThawTyped(thaw') BY <1>1, <2>1 DEF ThawTyped, MEMORY_HEADER_SIZE
  <2>3. Len(buffer) \in Nat /\ MEMORY_HEADER_SIZE <= Len(buffer)
    <3>1. Len(buffer) \in Nat BY NameParts
    <3>2. ~(Len(buffer) < MEMORY_HEADER_SIZE) BY <1>5 DEF HeaderError
    <3> QED BY <3>1, <3>2 DEF MEMORY_HEADER_SIZE
  <2>4. Chained(<<>>, MEMORY_HEADER_SIZE, Len(buffer)) BY <2>3 DEF Chained, NextAfter, MEMORY_HEADER_SIZE
  <2>5. EntriesRead(thaw') BY <2>1, <2>4 DEF EntriesRead
  <2>6. RestoredOnly(thaw', memory, GlobalCells) BY <2>1 DEF RestoredOnly
  <2> QED BY <1>1, <1>2, <2>1, <2>2, <2>5, <2>6 DEF FInv, Staged
<1> QED BY <1>4, <1>5

\* A buffer that is refused.
LEMMA ThawRefused ==
  ASSUME FInv, NEW error, thaw.at \in {"entries", "validate"}, Refused(error),
         UNCHANGED <<program, lines, memory, globalsPointer, constantsPointer, globals, forwardRefs, data, code, variable, status>>
  PROVE  FInv'
<1>1. Assembled' /\ GlobalCells' = GlobalCells /\ status = "done" BY ProgramStays DEF FInv
<1>2. DOMAIN thaw = ThawFields /\ memory = thaw.before BY DEF FInv, ThawTyped, RestoredOnly
<1>3. /\ thaw'.at = "done" /\ thaw'.before = thaw.before /\ DOMAIN thaw' = ThawFields
      /\ thaw'.buffer = thaw.buffer /\ thaw'.p = thaw.p /\ thaw'.entries = thaw.entries
      /\ thaw'.e = thaw.e /\ thaw'.o = thaw.o
  BY <1>2 DEF Refused, ThawFields
<1>4. ThawTyped(thaw') BY <1>3 DEF FInv, ThawTyped
<1>5. RestoredOnly(thaw', memory, GlobalCells) BY <1>2, <1>3 DEF RestoredOnly
<1> QED BY <1>1, <1>3, <1>4, <1>5 DEF FInv, Staged, EntriesRead

\* An entry.
LEMMA ThawEntryStep ==
  ASSUME FInv, ThawEntry
  PROVE  FInv'
<1>1. thaw.at = "entries" /\ Thawing("entries") /\ memory' = memory BY DEF ThawEntry, Thawing
<1>2. Assembled' /\ GlobalCells' = GlobalCells /\ status' = status /\ status = "done"
  BY <1>1, ProgramStays DEF FInv, Thawing
<1>3. /\ ThawTyped(thaw) /\ DOMAIN thaw = ThawFields /\ Chained(thaw.entries, thaw.p, Len(thaw.buffer))
      /\ memory = thaw.before
  BY <1>1 DEF FInv, ThawTyped, EntriesRead, RestoredOnly
<1>4. CASE thaw' = [thaw EXCEPT !.at = "validate"]
  <2>1. /\ thaw'.at = "validate" /\ thaw'.before = thaw.before /\ DOMAIN thaw' = ThawFields
        /\ thaw'.buffer = thaw.buffer /\ thaw'.p = thaw.p /\ thaw'.entries = thaw.entries
        /\ thaw'.e = thaw.e /\ thaw'.o = thaw.o
    BY <1>3, <1>4 DEF ThawFields
  <2>2. ThawTyped(thaw') BY <1>3, <2>1 DEF ThawTyped
  <2>3. RestoredOnly(thaw', memory, GlobalCells) BY <1>3, <2>1 DEF RestoredOnly
  <2> QED BY <1>1, <1>2, <1>3, <2>1, <2>2, <2>3 DEF FInv, Staged, EntriesRead
<1>5. CASE Refused("TRUNCATED")
  <2>1. UNCHANGED <<program, lines, memory, globalsPointer, constantsPointer, globals, forwardRefs, data, code, variable, status>>
    BY <1>1 DEF Thawing
  <2> QED BY <1>1, <1>5, <2>1, ThawRefused
<1>6. CASE /\ EntryFits(thaw.p)
           /\ thaw' = [thaw EXCEPT !.left = thaw.left - 1, !.entries = Append(thaw.entries, getMemoryEntry(thaw.p)),
                                   !.p = getMemoryEntry(thaw.p).next]
  <2> DEFINE entry == getMemoryEntry(thaw.p)
             longer == Append(thaw.entries, entry)
  <2>1. thaw.buffer \in Name /\ thaw.p \in Nat /\ thaw.entries \in Seq(EntryType) /\ Len(thaw.buffer) \in Nat
    <3>1. thaw.buffer \in Name BY <1>3 DEF ThawTyped
    <3> QED BY <1>3, <3>1, NameParts DEF ThawTyped
  <2>2. /\ entry \in EntryType
        /\ thaw.p + 8 + Len(entry.name) + Len(entry.padding) = entry.words
        /\ entry.next = entry.words + entry.wordCount * 4
        /\ thaw.p <= entry.next /\ entry.next <= Len(thaw.buffer)
    BY <1>6, <2>1, EntryRead
  <2> HIDE DEF entry
  <2>3. longer \in Seq(EntryType) /\ Chained(longer, entry.next, Len(thaw.buffer))
    BY <1>3, <2>1, <2>2, ChainGrows
  <2>4. entry.next \in Nat BY <2>2 DEF EntryType
  <2>5. thaw' = [thaw EXCEPT !.left = thaw.left - 1, !.entries = longer, !.p = entry.next] BY <1>6 DEF entry
  <2> HIDE DEF longer
  <2>6. /\ thaw'.at = "entries" /\ thaw'.before = thaw.before /\ DOMAIN thaw' = ThawFields
        /\ thaw'.buffer = thaw.buffer /\ thaw'.p = entry.next /\ thaw'.entries = longer
        /\ thaw'.e = thaw.e /\ thaw'.o = thaw.o
    <3> PICK left : left = thaw.left - 1 OBVIOUS
    <3> QED BY <1>1, <1>3, <2>5 DEF ThawFields
  <2>7. ThawTyped(thaw') BY <1>3, <2>3, <2>4, <2>6 DEF ThawTyped
  <2>8. EntriesRead(thaw') BY <2>3, <2>6 DEF EntriesRead
  <2>9. RestoredOnly(thaw', memory, GlobalCells) BY <1>3, <2>6 DEF RestoredOnly
  <2> QED BY <1>1, <1>2, <2>6, <2>7, <2>8, <2>9 DEF FInv, Staged
<1> QED BY <1>4, <1>5, <1>6 DEF ThawEntry

\* The validation of them all.
LEMMA ThawValidateStep ==
  ASSUME FInv, ThawValidate
  PROVE  FInv'
<1>1. thaw.at = "validate" /\ Thawing("validate") /\ memory' = memory BY DEF ThawValidate, Thawing
<1>2. Assembled' /\ GlobalCells' = GlobalCells /\ status' = status /\ status = "done"
  BY <1>1, ProgramStays DEF FInv, Thawing
<1>3. CASE \E error : Refused(error)
  <2>1. UNCHANGED <<program, lines, memory, globalsPointer, constantsPointer, globals, forwardRefs, data, code, variable, status>>
    BY <1>1 DEF Thawing
  <2> QED BY <1>1, <1>3, <2>1, ThawRefused
<1>4. CASE thaw' = [thaw EXCEPT !.at = "walk", !.e = 2]
  <2>1. /\ ThawTyped(thaw) /\ DOMAIN thaw = ThawFields /\ Chained(thaw.entries, thaw.p, Len(thaw.buffer))
        /\ memory = thaw.before
    BY <1>1 DEF FInv, ThawTyped, EntriesRead, RestoredOnly
  <2>2. /\ thaw'.at = "walk" /\ thaw'.before = thaw.before /\ DOMAIN thaw' = ThawFields
        /\ thaw'.buffer = thaw.buffer /\ thaw'.p = thaw.p /\ thaw'.entries = thaw.entries
        /\ thaw'.e = 2 /\ thaw'.o = thaw.o
    BY <1>4, <2>1 DEF ThawFields
  <2>3. ThawTyped(thaw') BY <2>1, <2>2 DEF ThawTyped
  <2>4. RestoredOnly(thaw', memory, GlobalCells) BY <2>1, <2>2 DEF RestoredOnly
  <2> QED BY <1>1, <1>2, <2>1, <2>2, <2>3, <2>4 DEF FInv, Staged, EntriesRead
<1> QED BY <1>3, <1>4 DEF ThawValidate

\* What is restored to an owner, it owns.
LEMMA RestoredCells ==
  ASSUME FInv, thaw.at = "walk", ~NoEntry, ~NoOwner,
         NEW cell, cell \in OwnerNow.first .. OwnerNow.first + Restored - 1
  PROVE  cell \in GlobalCells
<1>1. SInv /\ SectionsType BY DEF FInv, Assembled, SInv
<1>2. IsFiniteSet(defined) /\ DataNames \subseteq Labels BY <1>1 DEF SInv, SectionsType, WordsOwned
<1>3. thaw.o \in Nat \ {0} /\ thaw.e \in Nat \ {0} /\ thaw.entries \in Seq(EntryType) BY DEF FInv, ThawTyped
<1>4. Len(findMemoryOwners) \in Nat BY <1>2, OwnersFound
<1>5. thaw.o \in 1 .. Len(findMemoryOwners) BY <1>3, <1>4 DEF NoOwner, OwnersNow
<1>6. PICK n \in GlobNames : OwnerNow = Owner(n)
  <2>1. \A o \in 1 .. Len(findMemoryOwners) : \E n \in GlobNames : findMemoryOwners[o] = Owner(n)
    BY <1>2, OwnersFound
  <2>2. \E n \in GlobNames : findMemoryOwners[thaw.o] = Owner(n) BY <1>5, <2>1
  <2> QED BY <2>2 DEF OwnerNow, OwnersNow
<1>7. n \in DataNames /\ InGlob(globals[n].types) BY <1>6 DEF GlobNames, DataNames, InGlob, defined
<1>8. globals[n] \in SymbolType BY <1>1, <1>7 DEF SectionsType, DataNames
<1>9. PICK value \in Int, owned \in Int : value = globals[n].value /\ owned = globals[n].ownedWords
  BY <1>8 DEF SymbolType
<1>10. PICK offset \in Int, size \in Int : offset = MEMORY_OFFSET /\ size = constantsSize
  BY <1>1, Sizes DEF SectionsType, Pointers, constantsSize
<1>11. OwnerNow.first = value - offset + size /\ OwnerNow.ownedWords = owned
  BY <1>6, <1>9, <1>10 DEF Owner, CellAt
<1>12. EntryNow.wordCount \in Nat
  <2>1. Len(thaw.entries) \in Nat BY <1>3
  <2>2. thaw.e \in 1 .. Len(thaw.entries) BY <1>3, <2>1 DEF NoEntry
  <2>3. EntryNow \in EntryType BY <1>3, <2>2 DEF EntryNow
  <2> QED BY <2>3 DEF EntryType
<1>13. PICK count \in Nat : count = EntryNow.wordCount BY <1>12
<1>14. Restored = 0 \/ (Restored \in Int /\ Restored <= owned)
  BY <1>11, <1>13 DEF Restored, minimum
<1>15. PICK restored \in Int : restored = Restored BY <1>14
<1>16. /\ cell \in Int
       /\ value - offset + size <= cell /\ cell <= value - offset + size + restored - 1
  BY <1>11, <1>15
<1>17. cell <= value - offset + size + owned - 1 BY <1>14, <1>15, <1>16
<1> DEFINE address == cell - size + offset
<1>18. address \in value .. value + owned - 1 BY <1>16, <1>17
<1>19. address \in Owned(globals[n]) BY <1>9, <1>18 DEF Owned
<1>20. CellAt(address) = cell
  <2>1. address - offset + size = cell BY <1>16
  <2> QED BY <1>10, <2>1 DEF CellAt
<1> HIDE DEF address
<1>21. cell \in OwnedCells(globals[n]) BY <1>19, <1>20 DEF OwnedCells
<1> QED BY <1>7, <1>21 DEF GlobalCells

\* A step of the walk over entries and owners.
LEMMA ThawWalkStep ==
  ASSUME FInv, ThawWalk
  PROVE  FInv'
<1>1. thaw.at = "walk" /\ Thawing("walk") BY DEF ThawWalk, Thawing
<1>2. Assembled' /\ GlobalCells' = GlobalCells /\ status' = status /\ status = "done"
  BY <1>1, ProgramStays DEF FInv, Thawing
<1>3. /\ ThawTyped(thaw) /\ DOMAIN thaw = ThawFields /\ Chained(thaw.entries, thaw.p, Len(thaw.buffer))
      /\ \A cell \in DOMAIN memory : memory[cell] = thaw.before[cell] \/ cell \in GlobalCells
  BY <1>1 DEF FInv, ThawTyped, EntriesRead, RestoredOnly
<1>4. thaw.e \in Nat \ {0} /\ thaw.o \in Nat \ {0} BY <1>3 DEF ThawTyped
\* A place further in the walk, or its end: what it has written is the program's globals.
<1>5. ASSUME thaw'.at = "walk" \/ (thaw'.at = "done" /\ thaw'.status \in {"OK", "MISMATCH"}),
             DOMAIN thaw' = ThawFields, thaw'.before = thaw.before, thaw'.buffer = thaw.buffer, thaw'.p = thaw.p,
             thaw'.entries = thaw.entries, thaw'.e \in Nat \ {0}, thaw'.o \in Nat \ {0},
             \A cell \in DOMAIN memory' : memory'[cell] = thaw.before[cell] \/ cell \in GlobalCells
      PROVE  FInv'
  <2>1. ThawTyped(thaw') BY <1>3, <1>5 DEF ThawTyped
  <2>2. RestoredOnly(thaw', memory', GlobalCells) BY <1>5 DEF RestoredOnly
  <2>3. EntriesRead(thaw') BY <1>3, <1>5 DEF EntriesRead
  <2> QED BY <1>2, <1>5, <2>1, <2>2, <2>3 DEF FInv, Staged
<1>6. CASE thaw' = [thaw EXCEPT !.e = thaw.e + 1, !.exact = FALSE] /\ memory' = memory
  <2>1. thaw.e + 1 \in Nat \ {0} BY <1>4
  <2>2. PICK e \in Nat \ {0} : e = thaw.e + 1 BY <2>1
  <2>3. /\ thaw'.at = "walk" /\ DOMAIN thaw' = ThawFields /\ thaw'.before = thaw.before /\ thaw'.buffer = thaw.buffer
        /\ thaw'.p = thaw.p /\ thaw'.entries = thaw.entries /\ thaw'.e = e /\ thaw'.o = thaw.o
    BY <1>1, <1>3, <1>6, <2>2 DEF ThawFields
  <2> QED BY <1>3, <1>4, <1>5, <1>6, <2>3
<1>7. CASE thaw' = [thaw EXCEPT !.o = thaw.o + 1, !.exact = FALSE] /\ memory' = memory
  <2>1. thaw.o + 1 \in Nat \ {0} BY <1>4
  <2>2. PICK o \in Nat \ {0} : o = thaw.o + 1 BY <2>1
  <2>3. /\ thaw'.at = "walk" /\ DOMAIN thaw' = ThawFields /\ thaw'.before = thaw.before /\ thaw'.buffer = thaw.buffer
        /\ thaw'.p = thaw.p /\ thaw'.entries = thaw.entries /\ thaw'.e = thaw.e /\ thaw'.o = o
    BY <1>1, <1>3, <1>7, <2>2 DEF ThawFields
  <2> QED BY <1>3, <1>4, <1>5, <1>7, <2>3
<1>8. ASSUME NEW exact, ~NoEntry, ~NoOwner,
             thaw' = [thaw EXCEPT !.e = thaw.e + 1, !.o = thaw.o + 1, !.exact = exact],
             memory' = [cell \in DOMAIN memory |->
                          IF cell \in OwnerNow.first .. OwnerNow.first + Restored - 1
                          THEN getMemoryWord(thaw.buffer, EntryNow.words + (cell - OwnerNow.first) * 4) ELSE memory[cell]]
      PROVE  FInv'
  <2>1. thaw.e + 1 \in Nat \ {0} /\ thaw.o + 1 \in Nat \ {0} BY <1>4
  <2>2. PICK e \in Nat \ {0}, o \in Nat \ {0} : e = thaw.e + 1 /\ o = thaw.o + 1 BY <2>1
  <2>3. /\ thaw'.at = "walk" /\ DOMAIN thaw' = ThawFields /\ thaw'.before = thaw.before /\ thaw'.buffer = thaw.buffer
        /\ thaw'.p = thaw.p /\ thaw'.entries = thaw.entries /\ thaw'.e = e /\ thaw'.o = o
    BY <1>1, <1>3, <1>8, <2>2 DEF ThawFields
  <2>4. \A cell \in DOMAIN memory' : memory'[cell] = thaw.before[cell] \/ cell \in GlobalCells
    <3>1. SUFFICES ASSUME NEW cell \in DOMAIN memory PROVE memory'[cell] = thaw.before[cell] \/ cell \in GlobalCells
      BY <1>8
    <3>2. CASE cell \in OwnerNow.first .. OwnerNow.first + Restored - 1 BY <1>1, <1>8, <3>2, RestoredCells
    <3>3. CASE cell \notin OwnerNow.first .. OwnerNow.first + Restored - 1
      <4>1. memory'[cell] = memory[cell] BY <1>8, <3>3
      <4> QED BY <1>3, <4>1
    <3> QED BY <3>2, <3>3
  <2> QED BY <1>3, <1>5, <2>3, <2>4
<1>9. CASE thaw' = [thaw EXCEPT !.at = "done", !.status = IF thaw.exact THEN "OK" ELSE "MISMATCH"] /\ memory' = memory
  <2>1. /\ thaw'.at = "done" /\ thaw'.status \in {"OK", "MISMATCH"} /\ DOMAIN thaw' = ThawFields
        /\ thaw'.before = thaw.before /\ thaw'.buffer = thaw.buffer
        /\ thaw'.p = thaw.p /\ thaw'.entries = thaw.entries /\ thaw'.e = thaw.e /\ thaw'.o = thaw.o
    BY <1>1, <1>3, <1>9 DEF ThawFields
  <2> QED BY <1>3, <1>4, <1>5, <1>9, <2>1
<1> QED BY <1>6, <1>7, <1>8, <1>9 DEF ThawWalk

-----------------------------------------------------------------------------
(***************************************************************************)
(* The merged walk, apart from the rest: two lists in the order of their   *)
(* names, e and o of which come next.                                      *)
(***************************************************************************)
OwnerType == [name : Name, first : Int, ownedWords : Nat]
WordsIn(owner) == owner.first .. owner.first + owner.ownedWords - 1
Cells == 0 .. maxMemorySize - 1

OwnersOrdered(owners) ==
  /\ owners \in Seq(OwnerType)
  /\ \A i, j \in 1 .. Len(owners) : i < j => Precedes(owners[i].name, owners[j].name)
  /\ \A i, j \in 1 .. Len(owners) : i # j => WordsIn(owners[i]) \cap WordsIn(owners[j]) = {}
  /\ \A i \in 1 .. Len(owners) : WordsIn(owners[i]) \subseteq Cells

EntriesOrdered(entries) ==
  /\ entries \in Seq(EntryType)
  /\ \A i, j \in 2 .. Len(entries) : i < j => Precedes(entries[i].name, entries[j].name)

Ordered(t, owners) == OwnersOrdered(owners) /\ EntriesOrdered(t.entries)

\* What has been passed is before what is to come.
Parted(t, owners, e, o) ==
  /\ e \in 2 .. Len(t.entries) + 1
  /\ o \in 1 .. Len(owners) + 1
  /\ \A i \in 2 .. e - 1, j \in o .. Len(owners) : Precedes(t.entries[i].name, owners[j].name)
  /\ \A i \in e .. Len(t.entries), j \in 1 .. o - 1 : Precedes(owners[j].name, t.entries[i].name)

Same(entry, owner) == entry.name = owner.name /\ entry.wordCount = owner.ownedWords
Matched(t, owners, e, o) ==
  /\ \A i \in 2 .. e - 1 : \E j \in 1 .. o - 1 : Same(t.entries[i], owners[j])
  /\ \A j \in 1 .. o - 1 : \E i \in 2 .. e - 1 : Same(t.entries[i], owners[j])

\* The words that an entry gives an owner of its name.
Given(t, entry, owner) ==
  IF entry.wordCount = owner.ownedWords \/ t.prefix THEN minimum(entry.wordCount, owner.ownedWords) ELSE 0

Gives(t, i, owner, cell) ==
  /\ t.entries[i].name = owner.name
  /\ cell \in owner.first .. owner.first + Given(t, t.entries[i], owner) - 1

WordFor(t, i, owner, cell) == getMemoryWord(t.buffer, t.entries[i].words + (cell - owner.first) * 4)

Restoring(t, owners, e, words) ==
  \A j \in 1 .. Len(owners) : \A cell \in WordsIn(owners[j]) :
    /\ \A i \in 2 .. e - 1 : Gives(t, i, owners[j], cell) => words[cell] = WordFor(t, i, owners[j], cell)
    /\ (\A i \in 2 .. e - 1 : ~Gives(t, i, owners[j], cell)) => words[cell] = t.before[cell]

\* What the walk has done when entry e and owner o come next.
Walked(t, owners, e, o, exact, words) ==
  /\ Parted(t, owners, e, o)
  /\ exact \in BOOLEAN
  /\ exact = TRUE <=> Matched(t, owners, e, o)
  /\ Restoring(t, owners, e, words)

\* What lists in order hold.
LEMMA OrderedParts ==
  ASSUME NEW t, NEW owners, Ordered(t, owners)
  PROVE  /\ Len(owners) \in Nat /\ Len(t.entries) \in Nat
         /\ \A i \in 1 .. Len(t.entries) : t.entries[i].name \in Name /\ t.entries[i].wordCount \in Nat
         /\ \A j \in 1 .. Len(owners) : owners[j].name \in Name /\ owners[j].first \in Int /\ owners[j].ownedWords \in Nat
<1>1. owners \in Seq(OwnerType) /\ t.entries \in Seq(EntryType) BY DEF Ordered, OwnersOrdered, EntriesOrdered
<1>2. \A i \in 1 .. Len(t.entries) : t.entries[i] \in EntryType BY <1>1
<1>3. \A j \in 1 .. Len(owners) : owners[j] \in OwnerType BY <1>1
<1>4. Len(owners) \in Nat /\ Len(t.entries) \in Nat BY <1>1
<1>5. \A i \in 1 .. Len(t.entries) : t.entries[i].name \in Name /\ t.entries[i].wordCount \in Nat BY <1>2 DEF EntryType
<1>6. \A j \in 1 .. Len(owners) :
        owners[j].name \in Name /\ owners[j].first \in Int /\ owners[j].ownedWords \in Nat
  BY <1>3 DEF OwnerType
<1> QED BY <1>4, <1>5, <1>6

\* An entry gives an owner no more than its words.
LEMMA GivenInside ==
  ASSUME NEW t, NEW entry, NEW owner, entry.wordCount \in Nat, owner.ownedWords \in Nat
  PROVE  Given(t, entry, owner) \in 0 .. owner.ownedWords
<1>1. PICK count \in Nat, owned \in Nat : count = entry.wordCount /\ owned = owner.ownedWords OBVIOUS
<1>2. minimum(count, owned) \in 0 .. owned BY DEF minimum
<1> QED BY <1>1, <1>2 DEF Given

\* At first nothing has been passed.
LEMMA WalkStarts ==
  ASSUME NEW t, NEW owners, NEW words, Ordered(t, owners), Len(t.entries) # 0, words = t.before
  PROVE  Walked(t, owners, 2, 1, TRUE, words)
<1>1. Len(owners) \in Nat /\ Len(t.entries) \in Nat BY OrderedParts
<1>2. 2 .. 2 - 1 = {} /\ 1 .. 1 - 1 = {} OBVIOUS
<1>3. Parted(t, owners, 2, 1) BY <1>1, <1>2 DEF Parted
<1>4. Matched(t, owners, 2, 1) BY <1>2 DEF Matched
<1>5. Restoring(t, owners, 2, words) BY <1>2 DEF Restoring
<1> QED BY <1>3, <1>4, <1>5 DEF Walked

\* An entry that no owner has the name of is passed.
LEMMA EntryPassed ==
  ASSUME NEW t, NEW owners, NEW e, NEW o, NEW exact, NEW words, Ordered(t, owners),
         Walked(t, owners, e, o, exact, words), e <= Len(t.entries),
         o <= Len(owners) => Precedes(t.entries[e].name, owners[o].name)
  PROVE  Walked(t, owners, e + 1, o, FALSE, words)
<1> DEFINE n == Len(t.entries)
           k == Len(owners)
<1>1. /\ n \in Nat /\ k \in Nat
      /\ \A i \in 1 .. n : t.entries[i].name \in Name
      /\ \A j \in 1 .. k : owners[j].name \in Name
  BY OrderedParts
<1>2. /\ e \in 2 .. n /\ o \in 1 .. k + 1
      /\ \A i \in 2 .. e - 1, j \in o .. k : Precedes(t.entries[i].name, owners[j].name)
      /\ \A i \in e .. n, j \in 1 .. o - 1 : Precedes(owners[j].name, t.entries[i].name)
      /\ Restoring(t, owners, e, words)
  BY <1>1 DEF Walked, Parted
<1> HIDE DEF n, k
<1>3. ASSUME NEW j \in o .. k PROVE Precedes(t.entries[e].name, owners[j].name)
  <2>1. o \in 1 .. k /\ j \in 1 .. k /\ e \in 1 .. n BY <1>1, <1>2
  <2>2. Precedes(t.entries[e].name, owners[o].name) BY <2>1 DEF k
  <2>3. o < j => Precedes(owners[o].name, owners[j].name) BY <2>1 DEF Ordered, OwnersOrdered, k
  <2>4. o < j => Precedes(t.entries[e].name, owners[j].name) BY <1>1, <2>1, <2>2, <2>3, PrecedesTransitive
  <2> QED BY <1>1, <2>1, <2>2, <2>4
<1>4. ASSUME NEW j \in 1 .. k PROVE t.entries[e].name # owners[j].name
  <2>1. e \in 1 .. n /\ (j \in o .. k \/ j \in 1 .. o - 1) BY <1>1, <1>2
  <2>2. ~Precedes(owners[j].name, owners[j].name) BY <1>1, PrecedesIrreflexive
  <2>3. e \in e .. n BY <1>1, <1>2
  <2> QED BY <1>2, <1>3, <2>1, <2>2, <2>3
<1>5. 2 .. (e + 1) - 1 = (2 .. e - 1) \cup {e} BY <1>1, <1>2
<1>6. Parted(t, owners, e + 1, o)
  <2>1. e + 1 \in 2 .. n + 1 BY <1>1, <1>2
  <2>2. \A i \in 2 .. (e + 1) - 1, j \in o .. k : Precedes(t.entries[i].name, owners[j].name) BY <1>2, <1>3, <1>5
  <2>3. \A i \in (e + 1) .. n : i \in e .. n BY <1>1, <1>2
  <2> QED BY <1>2, <2>1, <2>2, <2>3 DEF Parted, n, k
<1>7. ~Matched(t, owners, e + 1, o)
  <2>1. \A j \in 1 .. o - 1 : j \in 1 .. k BY <1>1, <1>2
  <2>2. e \in 2 .. (e + 1) - 1 BY <1>5
  <2> QED BY <1>4, <2>1, <2>2 DEF Matched, Same
<1>8. Restoring(t, owners, e + 1, words)
  <2>1. \A j \in 1 .. k : \A cell : ~Gives(t, e, owners[j], cell) BY <1>4 DEF Gives
  <2> QED BY <1>2, <1>5, <2>1 DEF Restoring, k
<1> QED BY <1>6, <1>7, <1>8 DEF Walked

\* An owner that no entry has the name of is passed.
LEMMA OwnerPassed ==
  ASSUME NEW t, NEW owners, NEW e, NEW o, NEW exact, NEW words, Ordered(t, owners),
         Walked(t, owners, e, o, exact, words), o <= Len(owners),
         e <= Len(t.entries) => Precedes(owners[o].name, t.entries[e].name)
  PROVE  Walked(t, owners, e, o + 1, FALSE, words)
<1> DEFINE n == Len(t.entries)
           k == Len(owners)
<1>1. /\ n \in Nat /\ k \in Nat
      /\ \A i \in 1 .. n : t.entries[i].name \in Name
      /\ \A j \in 1 .. k : owners[j].name \in Name
  BY OrderedParts
<1>2. /\ e \in 2 .. n + 1 /\ o \in 1 .. k
      /\ \A i \in 2 .. e - 1, j \in o .. k : Precedes(t.entries[i].name, owners[j].name)
      /\ \A i \in e .. n, j \in 1 .. o - 1 : Precedes(owners[j].name, t.entries[i].name)
      /\ Restoring(t, owners, e, words)
  BY <1>1 DEF Walked, Parted
<1> HIDE DEF n, k
<1>3. ASSUME NEW i \in e .. n PROVE Precedes(owners[o].name, t.entries[i].name)
  <2>1. e \in 2 .. n /\ i \in 2 .. n /\ e \in 1 .. n /\ i \in 1 .. n BY <1>1, <1>2
  <2>2. Precedes(owners[o].name, t.entries[e].name) BY <2>1 DEF n
  <2>3. e < i => Precedes(t.entries[e].name, t.entries[i].name) BY <2>1 DEF Ordered, EntriesOrdered, n
  <2>4. e < i => Precedes(owners[o].name, t.entries[i].name) BY <1>1, <1>2, <2>1, <2>2, <2>3, PrecedesTransitive
  <2> QED BY <1>1, <2>1, <2>2, <2>4
<1>4. ASSUME NEW i \in 2 .. n PROVE t.entries[i].name # owners[o].name
  <2>1. i \in 2 .. e - 1 \/ i \in e .. n BY <1>1, <1>2
  <2>2. ~Precedes(owners[o].name, owners[o].name) BY <1>1, <1>2, PrecedesIrreflexive
  <2>3. o \in o .. k BY <1>1, <1>2
  <2> QED BY <1>2, <1>3, <2>1, <2>2, <2>3
<1>5. 1 .. (o + 1) - 1 = (1 .. o - 1) \cup {o} BY <1>1, <1>2
<1>6. Parted(t, owners, e, o + 1)
  <2>1. o + 1 \in 1 .. k + 1 BY <1>1, <1>2
  <2>2. \A i \in e .. n, j \in 1 .. (o + 1) - 1 : Precedes(owners[j].name, t.entries[i].name) BY <1>2, <1>3, <1>5
  <2>3. \A j \in (o + 1) .. k : j \in o .. k BY <1>1, <1>2
  <2> QED BY <1>2, <2>1, <2>2, <2>3 DEF Parted, n, k
<1>7. ~Matched(t, owners, e, o + 1)
  <2>1. \A i \in 2 .. e - 1 : i \in 2 .. n BY <1>1, <1>2
  <2>2. o \in 1 .. (o + 1) - 1 BY <1>5
  <2> QED BY <1>4, <2>1, <2>2 DEF Matched, Same
<1> QED BY <1>2, <1>6, <1>7 DEF Walked

\* An entry gives the owner of its name its words; exact as long as they are as many.
LEMMA EntryGiven ==
  ASSUME NEW t, NEW owners, NEW e, NEW o, NEW exact, NEW words, NEW restored, Ordered(t, owners),
         Walked(t, owners, e, o, exact, words), e <= Len(t.entries), o <= Len(owners),
         t.entries[e].name = owners[o].name, DOMAIN words = Cells,
         restored = [cell \in DOMAIN words |->
                       IF cell \in owners[o].first .. owners[o].first + Given(t, t.entries[e], owners[o]) - 1
                       THEN WordFor(t, e, owners[o], cell) ELSE words[cell]]
  PROVE  Walked(t, owners, e + 1, o + 1, exact /\ t.entries[e].wordCount = owners[o].ownedWords, restored)
<1> DEFINE n == Len(t.entries)
           k == Len(owners)
<1>1. /\ n \in Nat /\ k \in Nat
      /\ \A i \in 1 .. n : t.entries[i].name \in Name /\ t.entries[i].wordCount \in Nat
      /\ \A j \in 1 .. k : owners[j].name \in Name /\ owners[j].first \in Int /\ owners[j].ownedWords \in Nat
  BY OrderedParts
<1>2. /\ e \in 2 .. n /\ o \in 1 .. k
      /\ \A i \in 2 .. e - 1, j \in o .. k : Precedes(t.entries[i].name, owners[j].name)
      /\ \A i \in e .. n, j \in 1 .. o - 1 : Precedes(owners[j].name, t.entries[i].name)
      /\ exact \in BOOLEAN /\ (exact = TRUE <=> Matched(t, owners, e, o))
      /\ Restoring(t, owners, e, words)
  BY <1>1 DEF Walked, Parted
<1>3. /\ \A i, j \in 1 .. k : i < j => Precedes(owners[i].name, owners[j].name)
      /\ \A i, j \in 1 .. k : i # j => WordsIn(owners[i]) \cap WordsIn(owners[j]) = {}
      /\ \A i \in 1 .. k : WordsIn(owners[i]) \subseteq Cells
      /\ \A i, j \in 2 .. n : i < j => Precedes(t.entries[i].name, t.entries[j].name)
  BY DEF Ordered, OwnersOrdered, EntriesOrdered
<1>4. t.entries[e].name = owners[o].name OBVIOUS
<1> HIDE DEF n, k
<1>5. 2 .. (e + 1) - 1 = (2 .. e - 1) \cup {e} /\ 1 .. (o + 1) - 1 = (1 .. o - 1) \cup {o} BY <1>1, <1>2
<1>6. e \in e .. n /\ o \in o .. k /\ e \in 1 .. n BY <1>1, <1>2
\* Only this entry has this owner's name, and only this owner the entry's.
<1>7. ASSUME NEW i \in 2 .. e - 1 PROVE t.entries[i].name # owners[o].name
  <2>1. ~Precedes(owners[o].name, owners[o].name) BY <1>1, <1>2, PrecedesIrreflexive
  <2> QED BY <1>2, <1>6, <2>1
<1>8. ASSUME NEW j \in 1 .. k, j # o PROVE owners[j].name # owners[o].name
  <2>1. ~Precedes(owners[o].name, owners[o].name) BY <1>1, <1>2, PrecedesIrreflexive
  <2>2. j < o \/ o < j BY <1>1, <1>2, <1>8
  <2> QED BY <1>2, <1>3, <2>1, <2>2
<1>9. Parted(t, owners, e + 1, o + 1)
  <2>1. e + 1 \in 2 .. n + 1 /\ o + 1 \in 1 .. k + 1 BY <1>1, <1>2
  <2>2. ASSUME NEW i \in 2 .. (e + 1) - 1, NEW j \in (o + 1) .. k PROVE Precedes(t.entries[i].name, owners[j].name)
    <3>1. j \in o .. k /\ j \in 1 .. k /\ o < j BY <1>1, <1>2
    <3>2. Precedes(owners[o].name, owners[j].name) BY <1>2, <1>3, <3>1
    <3> QED BY <1>2, <1>4, <1>5, <3>1, <3>2
  <2>3. ASSUME NEW i \in (e + 1) .. n, NEW j \in 1 .. (o + 1) - 1 PROVE Precedes(owners[j].name, t.entries[i].name)
    <3>1. i \in e .. n /\ i \in 2 .. n /\ e < i BY <1>1, <1>2, SMTT(30)
    <3>2. Precedes(t.entries[e].name, t.entries[i].name) BY <1>2, <1>3, <3>1
    <3> QED BY <1>2, <1>4, <1>5, <3>1, <3>2
  <2> QED BY <2>1, <2>2, <2>3 DEF Parted, n, k
<1>10. Matched(t, owners, e + 1, o + 1) <=> Matched(t, owners, e, o) /\ t.entries[e].wordCount = owners[o].ownedWords
  <2>1. \A j \in 1 .. o - 1 : j \in 1 .. k /\ j # o BY <1>1, <1>2
  <2>2. \A j \in 1 .. o - 1 : ~Same(t.entries[e], owners[j]) BY <1>4, <1>8, <2>1 DEF Same
  <2>3. \A i \in 2 .. e - 1 : ~Same(t.entries[i], owners[o]) BY <1>7 DEF Same
  <2>4. Same(t.entries[e], owners[o]) <=> t.entries[e].wordCount = owners[o].ownedWords BY <1>4 DEF Same
  <2> QED BY <1>5, <2>2, <2>3, <2>4 DEF Matched
<1>11. Given(t, t.entries[e], owners[o]) \in 0 .. owners[o].ownedWords BY <1>1, <1>2, <1>6, GivenInside
<1>12. \A cell : Gives(t, e, owners[o], cell) => cell \in WordsIn(owners[o])
  <2>1. PICK given \in Int, first \in Int, owned \in Nat :
          given = Given(t, t.entries[e], owners[o]) /\ first = owners[o].first /\ owned = owners[o].ownedWords
    BY <1>1, <1>2, <1>11
  <2>2. given <= owned BY <1>11, <2>1
  <2>3. first .. first + given - 1 \subseteq first .. first + owned - 1 BY <2>2
  <2>4. WordsIn(owners[o]) = first .. first + owned - 1 BY <2>1 DEF WordsIn
  <2>5. \A cell : Gives(t, e, owners[o], cell) => cell \in first .. first + given - 1 BY <2>1 DEF Gives
  <2> QED BY <2>3, <2>4, <2>5
<1>13. \A cell \in Cells : restored[cell] = IF Gives(t, e, owners[o], cell) THEN WordFor(t, e, owners[o], cell) ELSE words[cell]
  BY <1>4 DEF Gives
<1>14. Restoring(t, owners, e + 1, restored)
  <2> SUFFICES ASSUME NEW j \in 1 .. k, NEW cell \in WordsIn(owners[j])
               PROVE  /\ \A i \in 2 .. (e + 1) - 1 :
                           Gives(t, i, owners[j], cell) => restored[cell] = WordFor(t, i, owners[j], cell)
                      /\ (\A i \in 2 .. (e + 1) - 1 : ~Gives(t, i, owners[j], cell)) => restored[cell] = t.before[cell]
    BY DEF Restoring, k
  <2>1. cell \in Cells BY <1>3
  <2>2. /\ \A i \in 2 .. e - 1 : Gives(t, i, owners[j], cell) => words[cell] = WordFor(t, i, owners[j], cell)
        /\ (\A i \in 2 .. e - 1 : ~Gives(t, i, owners[j], cell)) => words[cell] = t.before[cell]
    BY <1>2 DEF Restoring, k
  <2>3. CASE j # o
    <3>1. ~Gives(t, e, owners[j], cell) BY <1>4, <1>8, <2>3 DEF Gives
    <3>2. cell \notin WordsIn(owners[o]) BY <1>2, <1>3, <2>3
    <3>3. restored[cell] = words[cell] BY <1>12, <1>13, <2>1, <3>2
    <3> QED BY <1>5, <2>2, <3>1, <3>3
  <2>4. CASE j = o
    <3>1. \A i \in 2 .. e - 1 : ~Gives(t, i, owners[o], cell) BY <1>7 DEF Gives
    <3>2. words[cell] = t.before[cell] BY <2>2, <2>4, <3>1
    <3> QED BY <1>5, <1>13, <2>1, <2>4, <3>1, <3>2
  <2> QED BY <2>3, <2>4
<1>15. (exact /\ t.entries[e].wordCount = owners[o].ownedWords) \in BOOLEAN OBVIOUS
<1>16. (exact /\ t.entries[e].wordCount = owners[o].ownedWords) = TRUE <=> Matched(t, owners, e + 1, o + 1)
  BY <1>2, <1>10
<1> QED BY <1>9, <1>14, <1>15, <1>16 DEF Walked

-----------------------------------------------------------------------------
(***************************************************************************)
(* What thawMemory walks over is such lists: the owners of the program     *)
(* that was assembled, and the entries that it has validated.              *)
(***************************************************************************)
\* Assembly writes memory in place.
LEMMA MemoryStays == Next => DOMAIN memory' = DOMAIN memory
<1> SUFFICES ASSUME Next PROVE DOMAIN memory' = DOMAIN memory OBVIOUS
<1>1. \A words : DOMAIN Closed(words) = DOMAIN words /\ DOMAIN Resolved(words) = DOMAIN words
  BY DEF Closed, Resolved
<1>2. \A words : DOMAIN Moved(words) = DOMAIN words /\ DOMAIN PatchedMemory(words) = DOMAIN words
  BY DEF Moved, PatchedMemory
<1>3. \A error : Refuses(error) => memory' = memory BY DEF Refuses
<1>4. CASE Finalize BY <1>1, <1>2, <1>3, <1>4 DEF Finalize, Finalized
<1>5. CASE \E line \in program[Len(lines) + 1] : Line(line)
  <2>1. PICK line : Line(line) BY <1>5
  <2>2. CASE SectionLine(line) BY <1>1, <1>3, <2>2 DEF SectionLine
  <2>3. CASE DataLine(line) BY <1>3, <2>3 DEF DataLine
  <2>4. CASE DefpLine(line) \/ AddpLine(line) BY <1>3, <2>4 DEF DefpLine, AddpLine
  <2>5. CASE UseLine(line) \/ SwitchLine(line) BY <1>3, <2>5 DEF UseLine, SwitchLine
  <2>6. CASE FuncLine(line) \/ NewUnit(line) BY <1>1, <1>3, <2>6 DEF FuncLine, NewUnit
  <2> QED BY <2>1, <2>2, <2>3, <2>4, <2>5, <2>6 DEF Line
<1> QED BY <1>4, <1>5 DEF Next

\* The words of an owner are those that its label has, where the globals are.
LEMMA GlobalWords ==
  ASSUME SInv, NEW n \in GlobNames
  PROVE  /\ n \in DataNames
         /\ Owner(n) \in OwnerType
         /\ WordsIn(Owner(n)) \subseteq Cells
         /\ \A cell \in WordsIn(Owner(n)) : Has(globals[n], cell - constantsSize + MEMORY_OFFSET)
         /\ Owner(n).ownedWords = globals[n].ownedWords
         /\ Owner(n).first = CellAt(globals[n].value)
         /\ Owner(n).name = NameBytes[n]
<1>1. n \in defined /\ n \in DataNames /\ "ADDRESS_W" \in globals[n].types
  BY DEF GlobNames, DataNames, InGlob
<1>2. globals[n] \in SymbolType /\ Pointers BY <1>1 DEF SInv, SectionsType
<1>3. NameBytes[n] \in Name
  <2>1. n \in Labels BY <1>1 DEF SInv, WordsOwned
  <2> QED BY <2>1, FrozenAssumption DEF Name
<1>4. WithinSection(globals[n]) /\ SectionOf(globals[n]) \subseteq Writable(globalsPointer)
  BY <1>1 DEF SInv, WordsOwned, SymbolsInside, NameInside
<1>5. PICK value \in Int, owned \in Int, least \in Int, most \in Int :
        /\ value = globals[n].value /\ owned = globals[n].ownedWords
        /\ least = globals[n].minOffset /\ most = globals[n].maxOffset
  BY <1>2 DEF SymbolType
<1>6. PICK offset \in Int, size \in Int, g \in Int, top \in Int :
        /\ offset = MEMORY_OFFSET /\ size = constantsSize /\ g = globalsPointer /\ top = maxMemorySize
        /\ 0 <= size /\ g + size <= top
  <2>1. PICK c \in Int, h \in Int, m \in Int, o \in Int :
          c = constantsPointer /\ h = globalsPointer /\ m = maxMemorySize /\ o = MEMORY_OFFSET
    BY <1>2, Sizes DEF Pointers
  <2>2. h <= c /\ c <= m - 1 BY <1>2, <2>1 DEF Pointers
  <2>3. constantsSize = m - 1 - c BY <2>1 DEF constantsSize
  <2> QED BY <2>1, <2>2, <2>3
<1>7. least <= 0 /\ 0 <= owned /\ owned <= most + 1 BY <1>4, <1>5 DEF WithinSection
<1>8. value + least .. value + most \subseteq offset .. offset + g - 1
  BY <1>4, <1>5, <1>6 DEF SectionOf, Writable
<1>9. /\ Owner(n).first = value - offset + size /\ Owner(n).ownedWords = owned
      /\ Owner(n).name = NameBytes[n] /\ Owner(n).first = CellAt(globals[n].value)
  BY <1>5, <1>6 DEF Owner, CellAt
<1>10. Owner(n) \in OwnerType
  <2>1. CellAt(globals[n].value) \in Int /\ globals[n].ownedWords \in Nat BY <1>5, <1>6, <1>7 DEF CellAt
  <2> QED BY <1>3, <2>1 DEF Owner, OwnerType
<1>11. ASSUME NEW cell \in WordsIn(Owner(n))
       PROVE  cell \in Cells /\ Has(globals[n], cell - constantsSize + MEMORY_OFFSET)
  <2>1. cell \in Int /\ value - offset + size <= cell /\ cell <= value - offset + size + owned - 1
    BY <1>9 DEF WordsIn
  <2>2. PICK address \in Int : address = cell - size + offset BY <2>1
  <2>3. value <= address /\ address <= value + owned - 1 BY <2>1, <2>2
  <2>4. address \in value + least .. value + most BY <1>7, <2>3
  <2>5. offset <= address /\ address <= offset + g - 1 BY <1>8, <2>4
  <2>6. cell \in 0 .. top - 1 BY <1>6, <2>1, <2>2, <2>5
  <2>7. Has(globals[n], address) BY <1>5, <2>3 DEF Has
  <2> QED BY <1>6, <2>2, <2>6, <2>7 DEF Cells
<1> QED BY <1>1, <1>5, <1>9, <1>10, <1>11

\* The owners are in order, each in its own words of memory.
LEMMA OwnersApart == SInv => OwnersOrdered(findMemoryOwners)
<1> SUFFICES ASSUME SInv PROVE OwnersOrdered(findMemoryOwners) OBVIOUS
<1> DEFINE owners == findMemoryOwners
           k == Len(owners)
<1>1. IsFiniteSet(defined) /\ DataNames \subseteq Labels BY DEF SInv, SectionsType, WordsOwned
<1>2. /\ k \in Nat /\ DOMAIN owners = 1 .. k
      /\ owners = [i \in 1 .. k |-> owners[i]]
  <2>1. k = Cardinality(Found) /\ k \in Nat /\ DOMAIN owners = 1 .. k BY <1>1, OwnersRanked
  <2>2. owners = [i \in 1 .. Cardinality(Found) |-> CHOOSE owner \in Found : RankOf(owner) = i - 1]
    BY DEF findMemoryOwners, Found, RankOf
  <2> HIDE DEF owners
  <2> QED BY <2>1, <2>2
<1>3. /\ \A o \in 1 .. k : \E n \in GlobNames : owners[o] = Owner(n)
      /\ \A i, j \in 1 .. k : i < j => Precedes(owners[i].name, owners[j].name)
  BY <1>1, OwnersFound
<1> HIDE DEF owners, k
<1>4. \A o \in 1 .. k : owners[o] \in OwnerType /\ WordsIn(owners[o]) \subseteq Cells BY <1>3, GlobalWords
<1>5. owners \in Seq(OwnerType) BY <1>2, <1>4
<1>6. ASSUME NEW i \in 1 .. k, NEW j \in 1 .. k, i # j PROVE WordsIn(owners[i]) \cap WordsIn(owners[j]) = {}
  <2>1. PICK m \in GlobNames : owners[i] = Owner(m) BY <1>3
  <2>2. PICK n \in GlobNames : owners[j] = Owner(n) BY <1>3
  <2>3. owners[i].name \in Name /\ ~Precedes(owners[i].name, owners[i].name)
    <3>1. owners[i].name \in Name BY <1>4 DEF OwnerType
    <3> QED BY <3>1, PrecedesIrreflexive
  <2>4. i < j \/ j < i BY <1>2, <1>6
  <2>5. owners[i].name # owners[j].name BY <1>3, <2>3, <2>4
  <2>6. m # n BY <2>1, <2>2, <2>5
  <2>7. m \in DataNames /\ n \in DataNames BY GlobalWords
  <2>8. \A address \in Int : ~(Has(globals[m], address) /\ Has(globals[n], address))
    BY <2>6, <2>7 DEF SInv, WordsOwned, Apart
  <2>9. ASSUME NEW cell \in WordsIn(owners[i]), cell \in WordsIn(owners[j]) PROVE FALSE
    <3>1. Has(globals[m], cell - constantsSize + MEMORY_OFFSET) BY <2>1, GlobalWords
    <3>2. Has(globals[n], cell - constantsSize + MEMORY_OFFSET) BY <2>2, <2>9, GlobalWords
    <3>3. cell \in Int BY <2>1, GlobalWords DEF Cells
    <3>4. constantsSize \in Int /\ MEMORY_OFFSET \in Int
      <4>1. constantsPointer \in Int /\ maxMemorySize \in Int BY Sizes DEF SInv, SectionsType, Pointers
      <4> QED BY <4>1, Sizes DEF constantsSize
    <3> QED BY <2>8, <3>1, <3>2, <3>3, <3>4
  <2> QED BY <2>9
<1> QED BY <1>2, <1>3, <1>4, <1>5, <1>6 DEF OwnersOrdered, owners, k

\* Entries each of which is before the next are in order.
LEMMA EntriesApart ==
  ASSUME NEW entries \in Seq(EntryType),
         \A e \in 2 .. Len(entries) : e > 2 => Precedes(entries[e - 1].name, entries[e].name)
  PROVE  EntriesOrdered(entries)
<1> DEFINE n == Len(entries)
           Before(i, j) == Precedes(entries[i].name, entries[j].name)
<1>1. n \in Nat OBVIOUS
<1>2. \A i \in 1 .. n : entries[i].name \in Name
  <2>1. \A i \in 1 .. n : entries[i] \in EntryType OBVIOUS
  <2> QED BY <2>1 DEF EntryType
<1>3. \A e \in 2 .. n : e > 2 => Before(e - 1, e) OBVIOUS
<1>4. \A i, j, l \in 1 .. n : Before(i, j) /\ Before(j, l) => Before(i, l) BY <1>2, PrecedesTransitive
<1> HIDE DEF n, Before
<1>5. ASSUME NEW i \in 2 .. n, NEW j \in 2 .. n, i < j PROVE Before(i, j)
  <2> DEFINE Late == {l \in 2 .. n : i < l /\ ~Before(i, l)}
  <2>1. Late \in SUBSET Nat BY <1>1
  <2>2. ASSUME Late # {} PROVE FALSE
    <3>1. PICK l \in Late : \A m \in Late : l <= m
      <4> HIDE DEF Late
      <4> QED BY <2>1, <2>2, LeastNumber
    <3>2. l \in 2 .. n /\ i < l /\ ~Before(i, l) OBVIOUS
    <3>3. Before(l - 1, l) BY <1>1, <1>3, <3>2
    <3>4. l - 1 # i BY <3>2, <3>3
    <3>5. l - 1 \in 2 .. n /\ i < l - 1 /\ ~(l <= l - 1) BY <1>1, <3>2, <3>4
    <3>6. Before(i, l - 1) BY <3>1, <3>5
    <3>7. i \in 1 .. n /\ l - 1 \in 1 .. n /\ l \in 1 .. n BY <1>1, <3>2, <3>5
    <3> QED BY <1>4, <3>2, <3>3, <3>6, <3>7
  <2> QED BY <1>5, <2>2
<1> QED BY <1>5 DEF EntriesOrdered, Before, n

-----------------------------------------------------------------------------
(***************************************************************************)
(* The invariant of the walk.                                              *)
(***************************************************************************)
WalkedSoFar(t, owners, words) ==
  t.at = "walk" =>
    /\ Ordered(t, owners)
    /\ Walked(t, owners, t.e, t.o, t.exact, words)

WalkedThrough(t, owners, words) ==
  t.at = "done" /\ t.status \in {"OK", "MISMATCH"} =>
    /\ Ordered(t, owners)
    /\ Walked(t, owners, Len(t.entries) + 1, Len(owners) + 1, t.exact, words)
    /\ t.status = "OK" <=> t.exact = TRUE

WInv ==
  /\ FInv
  /\ DOMAIN memory = Cells
  /\ thaw.at \in {"entries", "validate"} => thaw.o = 1 /\ thaw.exact = TRUE
  /\ WalkedSoFar(thaw, findMemoryOwners, memory)
  /\ WalkedThrough(thaw, findMemoryOwners, memory)

\* What the walk has done is told by the entries and the buffer, the policy and the words before.
LEMMA WalkedSame ==
  ASSUME NEW s, NEW t, s.entries = t.entries, s.buffer = t.buffer, s.prefix = t.prefix, s.before = t.before
  PROVE  /\ \A owners : Ordered(s, owners) <=> Ordered(t, owners)
         /\ \A owners, e, o, exact, words : Walked(s, owners, e, o, exact, words) <=> Walked(t, owners, e, o, exact, words)
<1>1. \A owners : Ordered(s, owners) <=> Ordered(t, owners) BY DEF Ordered
<1>2. ASSUME NEW owners, NEW e, NEW o PROVE Parted(s, owners, e, o) <=> Parted(t, owners, e, o) BY DEF Parted
<1>3. ASSUME NEW owners, NEW e, NEW o PROVE Matched(s, owners, e, o) <=> Matched(t, owners, e, o) BY DEF Matched
<1>4. ASSUME NEW i, NEW owner, NEW cell
      PROVE  (Gives(s, i, owner, cell) <=> Gives(t, i, owner, cell)) /\ WordFor(s, i, owner, cell) = WordFor(t, i, owner, cell)
  <2>1. Given(s, s.entries[i], owner) = Given(t, t.entries[i], owner) BY DEF Given
  <2> QED BY <2>1 DEF Gives, WordFor
<1>5. ASSUME NEW owners, NEW e, NEW words PROVE Restoring(s, owners, e, words) <=> Restoring(t, owners, e, words)
  BY <1>4 DEF Restoring
<1> QED BY <1>1, <1>2, <1>3, <1>5 DEF Walked

\* The owners are those of the program.
LEMMA OwnersStay ==
  ASSUME globals' = globals, constantsPointer' = constantsPointer
  PROVE  findMemoryOwners' = findMemoryOwners
BY DEF findMemoryOwners, GlobNames, Owner, CellAt, constantsSize, defined

\* No header is refused with one of the results of the walk.
LEMMA HeaderErrors == \A buffer : HeaderError(buffer) \notin {"OK", "MISMATCH"}
BY DEF HeaderError

\* Before the walk, and after a refusal, nothing has been walked.
LEMMA NotWalked ==
  ASSUME NEW t, t.at \in {"none", "assemble", "entries", "validate"}
           \/ (t.at = "done" /\ t.status \notin {"OK", "MISMATCH"})
  PROVE  \A owners, words : WalkedSoFar(t, owners, words) /\ WalkedThrough(t, owners, words)
BY DEF WalkedSoFar, WalkedThrough

\* The invariant holds at first.
LEMMA WalkInit == FrozenInit => WInv
<1> SUFFICES ASSUME FrozenInit PROVE WInv OBVIOUS
<1>1. FInv BY FrozenStart
<1>2. DOMAIN memory = Cells BY DEF FrozenInit, Init, Cells
<1>3. thaw.at = "none" BY ThawStart DEF FrozenInit
<1> QED BY <1>1, <1>2, <1>3, NotWalked DEF WInv

\* Steps that leave thawing as it was.
LEMMA WalkWaits ==
  ASSUME WInv, Assemble \/ freezeMemorySize \/ freezeMemory \/ UNCHANGED thawVars
  PROVE  WInv'
<1>1. FInv /\ FInv' BY NotThawing DEF WInv
<1>2. thaw' = thaw BY DEF Assemble, freezeMemorySize, freezeMemory, thawVars
<1>3. CASE Assemble
  <2>1. DOMAIN memory' = DOMAIN memory /\ status = "feeding" BY <1>3, MemoryStays, AssemblyKeeps DEF Assemble
  <2>2. thaw.at \in {"none", "assemble"} BY <1>1, <2>1 DEF FInv, Staged
  <2>3. DOMAIN memory' = Cells BY <2>1 DEF WInv
  <2>4. WalkedSoFar(thaw', findMemoryOwners', memory') /\ WalkedThrough(thaw', findMemoryOwners', memory')
    BY <1>2, <2>2, NotWalked
  <2>5. Cells' = Cells BY DEF Cells
  <2> QED BY <1>1, <1>2, <2>2, <2>3, <2>4, <2>5 DEF WInv
<1>4. CASE UNCHANGED vars
  <2>1. findMemoryOwners' = findMemoryOwners /\ memory' = memory /\ Cells' = Cells BY <1>4, OwnersStay DEF vars, Cells
  <2> QED BY <1>1, <1>2, <2>1 DEF WInv
<1> QED BY <1>3, <1>4 DEF freezeMemorySize, freezeMemory, thawVars

\* A run writes memory in place.
LEMMA WalkRan ==
  ASSUME WInv, RunProgram
  PROVE  WInv'
<1>1. FInv' /\ thaw' = thaw /\ thaw.at \in {"none", "assemble"} BY RunStep DEF WInv
<1>2. DOMAIN memory' = Cells BY DEF RunProgram, WInv
<1>3. WalkedSoFar(thaw', findMemoryOwners', memory') /\ WalkedThrough(thaw', findMemoryOwners', memory')
  BY <1>1, NotWalked
<1>4. Cells' = Cells BY DEF Cells
<1> QED BY <1>1, <1>2, <1>3, <1>4 DEF WInv

\* Another program, and the header.
LEMMA WalkBegins ==
  ASSUME WInv, Restart \/ ThawHeader
  PROVE  WInv'
<1>1. FInv /\ FInv' BY RestartStep, ThawHeaderStep DEF WInv
<1>2. CASE Restart
  <2>1. DOMAIN memory' = Cells BY <1>2 DEF Restart, Cells
  <2>2. thaw'.at = "assemble" BY <1>2, ThawStart DEF Restart
  <2>3. WalkedSoFar(thaw', findMemoryOwners', memory') /\ WalkedThrough(thaw', findMemoryOwners', memory')
    BY <2>2, NotWalked
  <2> QED BY <1>1, <2>1, <2>2, <2>3 DEF WInv, Cells
<1>3. CASE ThawHeader
  <2>1. thaw = Thaw("assemble") /\ DOMAIN thaw = ThawFields BY <1>1, <1>3 DEF ThawHeader, FInv, Staged, ThawTyped, Thaw
  <2>2. memory' = memory BY <1>3 DEF ThawHeader, vars
  <2>3. PICK buffer \in Name, prefix \in BOOLEAN :
          thaw' = IF HeaderError(buffer) # "none"
                  THEN [thaw EXCEPT !.at = "done", !.status = HeaderError(buffer), !.buffer = buffer,
                                    !.prefix = prefix, !.before = memory]
                  ELSE [thaw EXCEPT !.at = "entries", !.buffer = buffer, !.prefix = prefix, !.before = memory,
                                    !.p = MEMORY_HEADER_SIZE, !.left = getMemoryWord(buffer, 16)]
    BY <1>3 DEF ThawHeader, Name
  <2>4. CASE HeaderError(buffer) # "none"
    <3>1. thaw'.at = "done" /\ thaw'.status = HeaderError(buffer) BY <2>1, <2>3, <2>4 DEF ThawFields
    <3>2. thaw'.status \notin {"OK", "MISMATCH"} BY <3>1, HeaderErrors
    <3>3. WalkedSoFar(thaw', findMemoryOwners', memory') /\ WalkedThrough(thaw', findMemoryOwners', memory')
      BY <3>1, <3>2, NotWalked
    <3> QED BY <1>1, <2>2, <3>1, <3>3 DEF WInv, Cells
  <2>5. CASE HeaderError(buffer) = "none"
    <3>1. thaw'.at = "entries" /\ thaw'.o = thaw.o /\ thaw'.exact = thaw.exact BY <2>1, <2>3, <2>5 DEF ThawFields
    <3>2. thaw.o = 1 /\ thaw.exact = TRUE BY <2>1 DEF Thaw
    <3>3. WalkedSoFar(thaw', findMemoryOwners', memory') /\ WalkedThrough(thaw', findMemoryOwners', memory')
      BY <3>1, NotWalked
    <3> QED BY <1>1, <2>2, <3>1, <3>2, <3>3 DEF WInv, Cells
  <2> QED BY <2>4, <2>5
<1> QED BY <1>2, <1>3

\* A refusal, or an entry.
LEMMA WalkPrepared ==
  ASSUME WInv, ThawEntry \/ (ThawValidate /\ \E error : error \notin {"OK", "MISMATCH"} /\ Refused(error))
  PROVE  WInv'
<1>1. FInv /\ FInv' /\ DOMAIN thaw = ThawFields BY ThawEntryStep, ThawValidateStep DEF WInv, FInv, ThawTyped
<1>2. thaw.at \in {"entries", "validate"} /\ memory' = memory BY DEF ThawEntry, ThawValidate, Thawing
<1>3. thaw.o = 1 /\ thaw.exact = TRUE /\ DOMAIN memory = Cells BY <1>2 DEF WInv
<1>4. CASE \E error : error \notin {"OK", "MISMATCH"} /\ Refused(error)
  <2>1. thaw'.at = "done" /\ thaw'.status \notin {"OK", "MISMATCH"} BY <1>1, <1>4 DEF Refused, ThawFields
  <2>2. WalkedSoFar(thaw', findMemoryOwners', memory') /\ WalkedThrough(thaw', findMemoryOwners', memory')
    BY <2>1, NotWalked
  <2> QED BY <1>1, <1>2, <1>3, <2>1, <2>2 DEF WInv, Cells
<1>5. CASE thaw' = [thaw EXCEPT !.at = "validate"]
  <2>1. thaw'.at = "validate" /\ thaw'.o = thaw.o /\ thaw'.exact = thaw.exact BY <1>1, <1>5 DEF ThawFields
  <2>2. WalkedSoFar(thaw', findMemoryOwners', memory') /\ WalkedThrough(thaw', findMemoryOwners', memory')
    BY <2>1, NotWalked
  <2> QED BY <1>1, <1>2, <1>3, <2>1, <2>2 DEF WInv, Cells
<1>6. CASE /\ thaw.at = "entries"
           /\ \E left, entries, p : thaw' = [thaw EXCEPT !.left = left, !.entries = entries, !.p = p]
  <2>1. thaw'.at = "entries" /\ thaw'.o = thaw.o /\ thaw'.exact = thaw.exact BY <1>1, <1>6 DEF ThawFields
  <2>2. WalkedSoFar(thaw', findMemoryOwners', memory') /\ WalkedThrough(thaw', findMemoryOwners', memory')
    BY <2>1, NotWalked
  <2> QED BY <1>1, <1>2, <1>3, <2>1, <2>2 DEF WInv, Cells
<1>7. ASSUME ThawEntry
      PROVE  \/ Refused("TRUNCATED")
             \/ thaw' = [thaw EXCEPT !.at = "validate"]
             \/ /\ thaw.at = "entries"
                /\ \E left, entries, p : thaw' = [thaw EXCEPT !.left = left, !.entries = entries, !.p = p]
  <2>1. CASE thaw' = [thaw EXCEPT !.left = thaw.left - 1, !.entries = Append(thaw.entries, getMemoryEntry(thaw.p)),
                                  !.p = getMemoryEntry(thaw.p).next]
    <3>1. thaw.at = "entries" BY <1>7 DEF ThawEntry, Thawing
    <3>2. PICK left, entries, p : /\ left = thaw.left - 1
                                  /\ entries = Append(thaw.entries, getMemoryEntry(thaw.p))
                                  /\ p = getMemoryEntry(thaw.p).next
      OBVIOUS
    <3>3. thaw' = [thaw EXCEPT !.left = left, !.entries = entries, !.p = p] BY <2>1, <3>2
    <3> QED BY <3>1, <3>3
  <2> QED BY <1>7, <2>1 DEF ThawEntry
<1> QED BY <1>4, <1>5, <1>6, <1>7

\* The walk starts when all entries are well formed, before any owner or entry but the canary.
LEMMA WalkEntered ==
  ASSUME WInv, ThawValidate
  PROVE  WInv'
<1>1. FInv /\ FInv' /\ DOMAIN thaw = ThawFields BY ThawValidateStep DEF WInv, FInv, ThawTyped
<1>2. thaw.at = "validate" /\ memory' = memory /\ globals' = globals /\ constantsPointer' = constantsPointer
  BY DEF ThawValidate, Thawing
<1>3. thaw.o = 1 /\ thaw.exact = TRUE /\ DOMAIN memory = Cells BY <1>2 DEF WInv
<1>4. CASE Refused("BAD_CANARY") \/ Refused("MALFORMED") BY <1>4, WalkPrepared
<1>5. CASE CanaryKept /\ WellFormed /\ thaw' = [thaw EXCEPT !.at = "walk", !.e = 2]
  <2>1. thaw.entries \in Seq(EntryType) /\ memory = thaw.before /\ SInv
    BY <1>1, <1>2 DEF FInv, ThawTyped, RestoredOnly, Assembled
  <2>2. Len(thaw.entries) # 0 BY <1>5, <2>1 DEF CanaryKept
  <2>3. EntriesOrdered(thaw.entries) BY <1>5, <2>1, EntriesApart DEF WellFormed
  <2>4. OwnersOrdered(findMemoryOwners) BY <2>1, OwnersApart
  <2>5. Ordered(thaw, findMemoryOwners) BY <2>3, <2>4 DEF Ordered
  <2>6. Walked(thaw, findMemoryOwners, 2, 1, TRUE, memory) BY <2>1, <2>2, <2>5, WalkStarts
  <2>7. /\ thaw'.at = "walk" /\ thaw'.e = 2 /\ thaw'.o = 1 /\ thaw'.exact = TRUE
        /\ thaw'.entries = thaw.entries /\ thaw'.buffer = thaw.buffer
        /\ thaw'.prefix = thaw.prefix /\ thaw'.before = thaw.before
    BY <1>1, <1>3, <1>5 DEF ThawFields
  <2>8. Ordered(thaw', findMemoryOwners) /\ Walked(thaw', findMemoryOwners, 2, 1, TRUE, memory)
    <3>1. /\ thaw'.entries = thaw.entries /\ thaw'.buffer = thaw.buffer
          /\ thaw'.prefix = thaw.prefix /\ thaw'.before = thaw.before
      BY <2>7
    <3>2. PICK exact : exact = TRUE OBVIOUS
    <3>3. Walked(thaw', findMemoryOwners, 2, 1, exact, memory) BY <2>6, <3>1, <3>2, WalkedSame
    <3> QED BY <2>5, <3>1, <3>2, <3>3, WalkedSame
  <2>9. findMemoryOwners' = findMemoryOwners BY <1>2, OwnersStay
  <2>10. WalkedSoFar(thaw', findMemoryOwners', memory') BY <1>2, <2>7, <2>8, <2>9 DEF WalkedSoFar
  <2>11. WalkedThrough(thaw', findMemoryOwners', memory') BY <2>7 DEF WalkedThrough
  <2> QED BY <1>1, <1>2, <1>3, <2>7, <2>10, <2>11 DEF WInv, Cells
<1> QED BY <1>4, <1>5 DEF ThawValidate

\* A step of the walk.
LEMMA WalkStep ==
  ASSUME WInv, ThawWalk
  PROVE  WInv'
<1> DEFINE owners == findMemoryOwners
           n == Len(thaw.entries)
           k == Len(owners)
<1>1. FInv /\ FInv' /\ DOMAIN thaw = ThawFields BY ThawWalkStep DEF WInv, FInv, ThawTyped
<1>2. thaw.at = "walk" /\ globals' = globals /\ constantsPointer' = constantsPointer BY DEF ThawWalk, Thawing
<1>3. Ordered(thaw, owners) /\ Walked(thaw, owners, thaw.e, thaw.o, thaw.exact, memory) /\ DOMAIN memory = Cells
  BY <1>2 DEF WInv, WalkedSoFar
<1>4. findMemoryOwners' = owners BY <1>2, OwnersStay
<1>5. /\ NoEntry <=> thaw.e > n
      /\ NoOwner <=> thaw.o > k
      /\ OwnerNow = owners[thaw.o]
  BY DEF NoEntry, NoOwner, OwnersNow, OwnerNow
<1> HIDE DEF owners
<1>6. n \in Nat /\ k \in Nat BY <1>3, OrderedParts
<1>7. thaw.e \in 2 .. n + 1 /\ thaw.o \in 1 .. k + 1 BY <1>3 DEF Walked, Parted
<1>8. (NoEntry <=> ~(thaw.e <= n)) /\ (NoOwner <=> ~(thaw.o <= k)) BY <1>5, <1>6, <1>7
\* A place further in the walk.
<1>9. ASSUME thaw'.at = "walk", thaw'.entries = thaw.entries, thaw'.buffer = thaw.buffer,
             thaw'.prefix = thaw.prefix, thaw'.before = thaw.before, DOMAIN memory' = Cells,
             Walked(thaw, owners, thaw'.e, thaw'.o, thaw'.exact, memory')
      PROVE  WInv'
  <2>1. Ordered(thaw', owners) /\ Walked(thaw', owners, thaw'.e, thaw'.o, thaw'.exact, memory')
    BY <1>3, <1>9, WalkedSame
  <2>2. WalkedSoFar(thaw', findMemoryOwners', memory') BY <1>4, <2>1 DEF WalkedSoFar
  <2>3. WalkedThrough(thaw', findMemoryOwners', memory') BY <1>9 DEF WalkedThrough
  <2> QED BY <1>1, <1>9, <2>2, <2>3 DEF WInv, Cells
<1>10. CASE EntryFirst /\ thaw' = [thaw EXCEPT !.e = thaw.e + 1, !.exact = FALSE] /\ memory' = memory
  <2>1. thaw.e <= n /\ (thaw.o <= k => Precedes(thaw.entries[thaw.e].name, owners[thaw.o].name))
    BY <1>5, <1>8, <1>10 DEF EntryFirst, EntryNow
  <2>2. Walked(thaw, owners, thaw.e + 1, thaw.o, FALSE, memory) BY <1>3, <2>1, EntryPassed
  <2>3. PICK e : e = thaw.e + 1 OBVIOUS
  <2>4. /\ thaw'.at = "walk" /\ thaw'.entries = thaw.entries /\ thaw'.buffer = thaw.buffer
        /\ thaw'.prefix = thaw.prefix /\ thaw'.before = thaw.before
        /\ thaw'.e = e /\ thaw'.o = thaw.o /\ thaw'.exact = FALSE
    BY <1>1, <1>2, <1>10, <2>3 DEF ThawFields
  <2> QED BY <1>3, <1>9, <1>10, <2>2, <2>3, <2>4
<1>11. CASE OwnerFirst /\ thaw' = [thaw EXCEPT !.o = thaw.o + 1, !.exact = FALSE] /\ memory' = memory
  <2>1. thaw.o <= k /\ (thaw.e <= n => Precedes(owners[thaw.o].name, thaw.entries[thaw.e].name))
    BY <1>5, <1>8, <1>11 DEF OwnerFirst, EntryNow
  <2>2. Walked(thaw, owners, thaw.e, thaw.o + 1, FALSE, memory) BY <1>3, <2>1, OwnerPassed
  <2>3. PICK o : o = thaw.o + 1 OBVIOUS
  <2>4. /\ thaw'.at = "walk" /\ thaw'.entries = thaw.entries /\ thaw'.buffer = thaw.buffer
        /\ thaw'.prefix = thaw.prefix /\ thaw'.before = thaw.before
        /\ thaw'.e = thaw.e /\ thaw'.o = o /\ thaw'.exact = FALSE
    BY <1>1, <1>2, <1>11, <2>3 DEF ThawFields
  <2> QED BY <1>3, <1>9, <1>11, <2>2, <2>3, <2>4
<1>12. ASSUME NEW exact, exact = (thaw.exact /\ EntryNow.wordCount = OwnerNow.ownedWords),
              ~NoEntry, ~NoOwner, EntryNow.name = OwnerNow.name,
              thaw' = [thaw EXCEPT !.e = thaw.e + 1, !.o = thaw.o + 1, !.exact = exact],
              memory' = [cell \in DOMAIN memory |->
                           IF cell \in OwnerNow.first .. OwnerNow.first + Restored - 1
                           THEN getMemoryWord(thaw.buffer, EntryNow.words + (cell - OwnerNow.first) * 4) ELSE memory[cell]]
       PROVE  WInv'
  <2>1. thaw.e <= n /\ thaw.o <= k /\ EntryNow = thaw.entries[thaw.e] /\ OwnerNow = owners[thaw.o]
    BY <1>5, <1>8, <1>12 DEF EntryNow
  <2>2. thaw.entries[thaw.e].name = owners[thaw.o].name BY <1>12, <2>1
  <2>3. Restored = Given(thaw, thaw.entries[thaw.e], owners[thaw.o]) BY <2>1 DEF Restored, Given
  <2>4. memory' = [cell \in DOMAIN memory |->
                     IF cell \in owners[thaw.o].first
                                   .. owners[thaw.o].first + Given(thaw, thaw.entries[thaw.e], owners[thaw.o]) - 1
                     THEN WordFor(thaw, thaw.e, owners[thaw.o], cell) ELSE memory[cell]]
    BY <1>12, <2>1, <2>3 DEF WordFor
  <2>5. exact = (thaw.exact /\ thaw.entries[thaw.e].wordCount = owners[thaw.o].ownedWords) BY <1>12, <2>1
  <2>6. Walked(thaw, owners, thaw.e + 1, thaw.o + 1,
               thaw.exact /\ thaw.entries[thaw.e].wordCount = owners[thaw.o].ownedWords, memory')
    BY <1>3, <2>1, <2>2, <2>4, EntryGiven
  <2>7. PICK e, o : e = thaw.e + 1 /\ o = thaw.o + 1 OBVIOUS
  <2>8. Walked(thaw, owners, e, o, exact, memory') BY <2>5, <2>6, <2>7
  <2>9. /\ thaw'.at = "walk" /\ thaw'.entries = thaw.entries /\ thaw'.buffer = thaw.buffer
        /\ thaw'.prefix = thaw.prefix /\ thaw'.before = thaw.before
        /\ thaw'.e = e /\ thaw'.o = o /\ thaw'.exact = exact
    BY <1>1, <1>2, <1>12, <2>7 DEF ThawFields
  <2>10. DOMAIN memory' = Cells BY <1>3, <2>4
  <2> QED BY <1>9, <2>8, <2>9, <2>10
<1>13. CASE /\ NoEntry /\ NoOwner /\ memory' = memory
            /\ thaw' = [thaw EXCEPT !.at = "done", !.status = IF thaw.exact THEN "OK" ELSE "MISMATCH"]
  <2>1. thaw.e = n + 1 /\ thaw.o = k + 1 BY <1>6, <1>7, <1>8, <1>13
  <2>2. /\ thaw'.at = "done" /\ thaw'.status = (IF thaw.exact THEN "OK" ELSE "MISMATCH")
        /\ thaw'.entries = thaw.entries /\ thaw'.buffer = thaw.buffer /\ thaw'.prefix = thaw.prefix
        /\ thaw'.before = thaw.before /\ thaw'.exact = thaw.exact
    BY <1>1, <1>2, <1>13 DEF ThawFields
  <2>3. Ordered(thaw', owners) /\ Walked(thaw', owners, n + 1, k + 1, thaw.exact, memory')
    <3>1. /\ thaw'.entries = thaw.entries /\ thaw'.buffer = thaw.buffer
          /\ thaw'.prefix = thaw.prefix /\ thaw'.before = thaw.before
      BY <2>2
    <3>2. Walked(thaw, owners, n + 1, k + 1, thaw.exact, memory') BY <1>3, <1>13, <2>1
    <3> HIDE DEF n, k
    <3> QED BY <1>3, <3>1, <3>2, WalkedSame
  <2>4. thaw.exact \in BOOLEAN BY <1>3 DEF Walked
  <2>5. thaw'.status = "OK" <=> thaw'.exact = TRUE BY <2>2, <2>4
  <2>6. WalkedThrough(thaw', findMemoryOwners', memory') BY <1>4, <2>2, <2>3, <2>5 DEF WalkedThrough
  <2>7. WalkedSoFar(thaw', findMemoryOwners', memory') BY <2>2 DEF WalkedSoFar
  <2> QED BY <1>1, <1>3, <1>13, <2>2, <2>6, <2>7 DEF WInv, Cells
<1> QED BY <1>10, <1>11, <1>12, <1>13 DEF ThawWalk

\* Where the walk has ended, a label has what RestoredByName says.
LEMMA WalkRestores ==
  ASSUME SInv, NEW exact, NEW n \in GlobNames, NEW word \in 0 .. globals[n].ownedWords - 1,
         Ordered(thaw, findMemoryOwners),
         Walked(thaw, findMemoryOwners, Len(thaw.entries) + 1, Len(findMemoryOwners) + 1, exact, memory)
  PROVE  LET cell == CellAt(globals[n].value) + word
         IN  IF RestoringTo(n, word) = {} THEN memory[cell] = thaw.before[cell]
             ELSE \A e \in RestoringTo(n, word) :
                    memory[cell] = getMemoryWord(thaw.buffer, thaw.entries[e].words + word * 4)
<1> DEFINE owners == findMemoryOwners
           size == Len(thaw.entries)
           cell == CellAt(globals[n].value) + word
<1>1. IsFiniteSet(defined) /\ DataNames \subseteq Labels BY DEF SInv, SectionsType, WordsOwned
<1>2. PICK j \in 1 .. Len(owners) : owners[j] = Owner(n) BY <1>1, OwnersFound
<1>3. /\ Owner(n) \in OwnerType /\ Owner(n).ownedWords = globals[n].ownedWords
      /\ Owner(n).first = CellAt(globals[n].value) /\ Owner(n).name = NameBytes[n]
  BY GlobalWords
<1>4. PICK first \in Int, owned \in Nat : first = Owner(n).first /\ owned = Owner(n).ownedWords BY <1>3 DEF OwnerType
<1>5. word \in 0 .. owned - 1 /\ cell = first + word BY <1>3, <1>4
<1>6. cell \in WordsIn(owners[j]) BY <1>2, <1>4, <1>5, SMTT(30) DEF WordsIn
<1>7. size \in Nat /\ \A i \in 1 .. size : thaw.entries[i].wordCount \in Nat BY OrderedParts
<1>8. (size + 1) - 1 = size BY <1>7
<1>9. Restoring(thaw, owners, size + 1, memory) BY DEF Walked
<1>10. /\ \A i \in 2 .. size : Gives(thaw, i, owners[j], cell) => memory[cell] = WordFor(thaw, i, owners[j], cell)
       /\ (\A i \in 2 .. size : ~Gives(thaw, i, owners[j], cell)) => memory[cell] = thaw.before[cell]
  <2> HIDE DEF owners, cell, size
  <2> QED BY <1>2, <1>6, <1>8, <1>9 DEF Restoring
<1>11. ASSUME NEW i \in 2 .. size
       PROVE  /\ Gives(thaw, i, owners[j], cell) <=> i \in RestoringTo(n, word)
              /\ WordFor(thaw, i, owners[j], cell) = getMemoryWord(thaw.buffer, thaw.entries[i].words + word * 4)
  <2>1. i \in 1 .. size BY <1>7
  <2>2. PICK count \in Nat : count = thaw.entries[i].wordCount BY <1>7, <2>1
  <2>3. minimum(count, owned) = minimum(owned, count) /\ minimum(owned, count) \in Nat BY DEF minimum
  <2>4. /\ Given(thaw, thaw.entries[i], owners[j]) = RestoredOf(owned, count)
        /\ RestoredOf(owned, count) \in Nat
    BY <1>2, <1>4, <2>2, <2>3 DEF Given, RestoredOf
  <2>5. PICK given \in Nat : given = RestoredOf(owned, count) BY <2>4
  <2>6. cell \in first .. first + given - 1 <=> word < given BY <1>4, <1>5, <2>5, SMTT(30)
  <2>7. Gives(thaw, i, owners[j], cell) <=> thaw.entries[i].name = NameBytes[n] /\ word < given
    BY <1>2, <1>3, <1>4, <2>4, <2>5, <2>6 DEF Gives
  <2>8. i \in RestoringTo(n, word) <=> thaw.entries[i].name = NameBytes[n] /\ word < given
    BY <1>3, <1>4, <2>2, <2>5 DEF RestoringTo, SavedEntries
  <2>9. cell - owners[j].first = word BY <1>2, <1>4, <1>5
  <2> QED BY <2>7, <2>8, <2>9 DEF WordFor
<1>12. RestoringTo(n, word) \subseteq 2 .. size BY DEF RestoringTo, SavedEntries
<1> HIDE DEF owners, size, cell
<1>13. RestoringTo(n, word) = {} => memory[cell] = thaw.before[cell] BY <1>10, <1>11
<1>14. \A e \in RestoringTo(n, word) :
         memory[cell] = getMemoryWord(thaw.buffer, thaw.entries[e].words + word * 4)
  BY <1>10, <1>11, <1>12
<1> QED BY <1>13, <1>14 DEF cell

\* And the names and numbers are the same when the walk has matched all.
LEMMA WalkMatches ==
  ASSUME SInv, Ordered(thaw, findMemoryOwners)
  PROVE  Matched(thaw, findMemoryOwners, Len(thaw.entries) + 1, Len(findMemoryOwners) + 1) <=>
           {<<NameBytes[n], globals[n].ownedWords>> : n \in GlobNames}
             = {<<thaw.entries[e].name, thaw.entries[e].wordCount>> : e \in SavedEntries}
<1> DEFINE owners == findMemoryOwners
           size == Len(thaw.entries)
           k == Len(owners)
           Entry(i) == <<thaw.entries[i].name, thaw.entries[i].wordCount>>
           Of(j) == <<owners[j].name, owners[j].ownedWords>>
           named == {<<NameBytes[n], globals[n].ownedWords>> : n \in GlobNames}
           entered == {Entry(e) : e \in SavedEntries}
<1>1. size \in Nat /\ k \in Nat BY OrderedParts
<1>2. (size + 1) - 1 = size /\ (k + 1) - 1 = k /\ SavedEntries = 2 .. size BY <1>1 DEF SavedEntries
<1>3. IsFiniteSet(defined) /\ DataNames \subseteq Labels BY DEF SInv, SectionsType, WordsOwned
<1>4. \A n \in GlobNames : Owner(n).name = NameBytes[n] /\ Owner(n).ownedWords = globals[n].ownedWords BY GlobalWords
<1>5. named = {Of(j) : j \in 1 .. k}
  <2>1. \A j \in 1 .. k : \E n \in GlobNames : owners[j] = Owner(n) BY <1>3, OwnersFound
  <2>2. \A n \in GlobNames : \E j \in 1 .. k : owners[j] = Owner(n) BY <1>3, OwnersFound
  <2> HIDE DEF owners, k
  <2>3. ASSUME NEW n \in GlobNames PROVE <<NameBytes[n], globals[n].ownedWords>> \in {Of(j) : j \in 1 .. k}
    <3>1. PICK j \in 1 .. k : owners[j] = Owner(n) BY <2>2
    <3> QED BY <1>4, <3>1
  <2>4. ASSUME NEW j \in 1 .. k PROVE Of(j) \in named
    <3>1. PICK n \in GlobNames : owners[j] = Owner(n) BY <2>1
    <3> QED BY <1>4, <3>1
  <2> QED BY <2>3, <2>4
<1>6. \A i, j : Same(thaw.entries[i], owners[j]) <=> Entry(i) = Of(j) BY DEF Same
<1>7. Matched(thaw, owners, size + 1, k + 1) <=>
        /\ \A i \in 2 .. size : \E j \in 1 .. k : Entry(i) = Of(j)
        /\ \A j \in 1 .. k : \E i \in 2 .. size : Entry(i) = Of(j)
  <2> HIDE DEF Entry, Of, owners, k, size
  <2> QED BY <1>2, <1>6 DEF Matched
<1> HIDE DEF Entry, Of, owners, k, size, named
<1>8. Matched(thaw, owners, size + 1, k + 1) <=> named = entered BY <1>2, <1>5, <1>7
<1> QED BY <1>8 DEF owners, k, size, named, Entry

\* What thawing leaves is what RestoredByName says.
LEMMA InvariantNames == WInv => RestoredByName
<1> SUFFICES ASSUME WInv, Thawed, Accepted
             PROVE  /\ \A n \in GlobNames : \A word \in 0 .. globals[n].ownedWords - 1 :
                         LET cell == CellAt(globals[n].value) + word
                         IN  IF RestoringTo(n, word) = {} THEN memory[cell] = thaw.before[cell]
                             ELSE \A e \in RestoringTo(n, word) :
                                    memory[cell] = getMemoryWord(thaw.buffer, thaw.entries[e].words + word * 4)
                    /\ thaw.status = "OK" <=>
                         {<<NameBytes[n], globals[n].ownedWords>> : n \in GlobNames}
                           = {<<thaw.entries[e].name, thaw.entries[e].wordCount>> : e \in SavedEntries}
  BY DEF RestoredByName
<1>1. SInv BY DEF WInv, FInv, Assembled
<1>2. /\ Ordered(thaw, findMemoryOwners)
      /\ Walked(thaw, findMemoryOwners, Len(thaw.entries) + 1, Len(findMemoryOwners) + 1, thaw.exact, memory)
      /\ thaw.status = "OK" <=> thaw.exact = TRUE
  BY DEF WInv, WalkedThrough, Thawed, Accepted
<1>3. thaw.exact = TRUE <=> Matched(thaw, findMemoryOwners, Len(thaw.entries) + 1, Len(findMemoryOwners) + 1)
  BY <1>2 DEF Walked
<1>4. thaw.status = "OK" <=>
        {<<NameBytes[n], globals[n].ownedWords>> : n \in GlobNames}
          = {<<thaw.entries[e].name, thaw.entries[e].wordCount>> : e \in SavedEntries}
  BY <1>1, <1>2, <1>3, WalkMatches
<1> QED BY <1>1, <1>2, <1>4, WalkRestores

-----------------------------------------------------------------------------
(***************************************************************************)
(* What the invariant of thawing gives, and the theorems.                  *)
(***************************************************************************)
\* Entries that follow each other are where EntriesInBuffer says.
LEMMA InvariantReads == FInv => EntriesInBuffer
<1> SUFFICES ASSUME FInv, thaw.at \in {"entries", "validate", "walk"}
             PROVE  /\ 0 <= thaw.p /\ thaw.p <= Len(thaw.buffer)
                    /\ \A i \in DOMAIN thaw.entries :
                         LET entry == thaw.entries[i]
                             start == IF i = 1 THEN MEMORY_HEADER_SIZE ELSE thaw.entries[i - 1].next
                         IN  /\ start + 8 + Len(entry.name) + Len(entry.padding) = entry.words
                             /\ 0 <= entry.wordCount
                             /\ entry.next = entry.words + entry.wordCount * 4
                             /\ entry.next <= thaw.p
  BY DEF EntriesInBuffer
<1>1. Chained(thaw.entries, thaw.p, Len(thaw.buffer)) /\ thaw.entries \in Seq(EntryType) /\ thaw.buffer \in Name
  BY DEF FInv, EntriesRead, ThawTyped
<1>2. Len(thaw.buffer) \in Nat BY <1>1, NameParts
<1>3. 0 <= thaw.p /\ thaw.p <= Len(thaw.buffer) BY <1>1, <1>2 DEF Chained, MEMORY_HEADER_SIZE
<1>4. ASSUME NEW i \in DOMAIN thaw.entries
      PROVE  /\ NextAfter(thaw.entries, i - 1) = IF i = 1 THEN MEMORY_HEADER_SIZE ELSE thaw.entries[i - 1].next
             /\ 0 <= thaw.entries[i].wordCount
             /\ i \in 1 .. Len(thaw.entries)
  <2>1. i \in 1 .. Len(thaw.entries) /\ i \in Nat BY <1>1
  <2>2. i - 1 = 0 <=> i = 1 BY <2>1
  <2>3. thaw.entries[i] \in EntryType BY <1>1
  <2>4. thaw.entries[i].wordCount \in Nat BY <2>3 DEF EntryType
  <2>5. 0 <= thaw.entries[i].wordCount BY <2>4
  <2> QED BY <2>1, <2>2, <2>5 DEF NextAfter
<1> QED BY <1>1, <1>3, <1>4 DEF Chained

\* And what has been restored is what OnlyGlobalsRestored says.
LEMMA InvariantRestores == FInv => OnlyGlobalsRestored
<1> SUFFICES ASSUME FInv PROVE OnlyGlobalsRestored OBVIOUS
<1>1. RestoredOnly(thaw, memory, GlobalCells) BY DEF FInv
<1>2. \A cell : cell \in GlobalCells =>
        \E n \in DataNames : InGlob(globals[n].types) /\ cell \in OwnedCells(globals[n])
  BY DEF GlobalCells
<1> QED BY <1>1, <1>2 DEF RestoredOnly, OnlyGlobalsRestored, Thawed, Accepted

\* Assembling, freezing and thawing keep the invariant, in whatever order a host asks for them.
THEOREM FrozenInvariant == FrozenSpec => []FInv
<1>1. ASSUME FInv, [FrozenNext]_thawVars PROVE FInv'
  <2>1. CASE Assemble \/ freezeMemorySize \/ freezeMemory \/ UNCHANGED thawVars BY <1>1, <2>1, NotThawing
  <2>2. CASE Restart BY <1>1, <2>2, RestartStep
  <2>3. CASE ThawHeader BY <1>1, <2>3, ThawHeaderStep
  <2>4. CASE ThawEntry BY <1>1, <2>4, ThawEntryStep
  <2>5. CASE ThawValidate BY <1>1, <2>5, ThawValidateStep
  <2>6. CASE ThawWalk BY <1>1, <2>6, ThawWalkStep
  <2>7. CASE RunProgram BY <1>1, <2>7, RunStep
  <2> QED BY <1>1, <2>1, <2>2, <2>3, <2>4, <2>5, <2>6, <2>7 DEF FrozenNext
<1> QED BY <1>1, FrozenStart, PTL DEF FrozenSpec

\* resolve, ! DEFp, SWCH, finalize: PEEK and POKE of a label and the tables of SWCH are where run(),
\* which does not check them, takes them to be.
THEOREM AddressesStayInside == FrozenSpec => []AddressesInside
<1>1. FInv => AddressesInside BY InvariantInside DEF FInv, Assembled
<1> QED BY <1>1, FrozenInvariant, PTL

\* declareData: a word has one owner at most, and one in a GLOB section with a label has one.
THEOREM WordsHaveOneOwner == FrozenSpec => []OneOwner
<1>1. FInv => OneOwner BY InvariantOwns DEF FInv, Assembled
<1> QED BY <1>1, FrozenInvariant, PTL

\* getMemoryEntry: whatever is thawed, no entry that is taken reaches past the end of the buffer.
THEOREM EntriesStayInBuffer == FrozenSpec => []EntriesInBuffer
<1> QED BY InvariantReads, FrozenInvariant, PTL

\* thawMemory: whatever is thawed, only words of GLOB labels change, and none when it is refused.
THEOREM GlobalsOnlyRestored == FrozenSpec => []OnlyGlobalsRestored
<1> QED BY InvariantRestores, FrozenInvariant, PTL
\* The walk over entries and owners keeps its invariant, whatever buffer the host has put in.
THEOREM WalkInvariant == FrozenSpec => []WInv
<1>1. ASSUME WInv, [FrozenNext]_thawVars PROVE WInv'
  <2>1. CASE Assemble \/ freezeMemorySize \/ freezeMemory \/ UNCHANGED thawVars BY <1>1, <2>1, WalkWaits
  <2>2. CASE Restart \/ ThawHeader BY <1>1, <2>2, WalkBegins
  <2>3. CASE ThawEntry BY <1>1, <2>3, WalkPrepared
  <2>4. CASE ThawValidate BY <1>1, <2>4, WalkEntered
  <2>5. CASE ThawWalk BY <1>1, <2>5, WalkStep
  <2>6. CASE RunProgram BY <1>1, <2>6, WalkRan
  <2> QED BY <1>1, <2>1, <2>2, <2>3, <2>4, <2>5, <2>6 DEF FrozenNext
<1> QED BY <1>1, WalkInit, PTL DEF FrozenSpec

\* thawMemory: whatever is thawed, a label gets the words saved under its name and no others, and the
\* result tells whether both programs save the same.
THEOREM NamesRestored == FrozenSpec => []RestoredByName
<1> QED BY InvariantNames, WalkInvariant, PTL
=============================================================================
