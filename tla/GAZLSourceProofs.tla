-------------------------- MODULE GAZLSourceProofs --------------------------
(***************************************************************************)
(* The assembler's data is what the source says, and thawing a buffer      *)
(* restores all of it or none: proofs for any sequence of lines and any    *)
(* bytes.  What GAZLSource says of the lines fed is here said of any       *)
(* sequence of lines, so that it can be compared for one and the next;     *)
(* what GAZLFrozenMemory reads from a buffer is said of the bytes that     *)
(* stand in it, so that it can be compared with what was frozen.           *)
(***************************************************************************)
EXTENDS GAZLFrozenMemoryProofs

-----------------------------------------------------------------------------
(***************************************************************************)
(* Sums.                                                                   *)
(***************************************************************************)
\* A function that adds the first m of the sizes.
Adds(f, sizes, m) ==
  /\ f \in [0 .. m -> Nat]
  /\ f[0] = 0
  /\ \A i \in 1 .. m : f[i] = f[i - 1] + sizes[i]

\* There is one for every length.
LEMMA SumsExist ==
  ASSUME NEW sizes \in Seq(Nat), NEW m \in 0 .. Len(sizes)
  PROVE  \E f : Adds(f, sizes, m)
<1> DEFINE Bad == {k \in 0 .. Len(sizes) : ~\E f : Adds(f, sizes, k)}
<1>1. SUFFICES ASSUME Bad # {} PROVE FALSE
  OBVIOUS
<1>2. Bad \in SUBSET Nat
  OBVIOUS
<1> HIDE DEF Bad
<1>3. PICK k \in Bad : \A j \in Bad : k <= j BY <1>1, <1>2, LeastNumber
<1>4. k \in 0 .. Len(sizes) /\ ~\E f : Adds(f, sizes, k) BY <1>3 DEF Bad
<1>5. k # 0
  <2>1. Adds([i \in 0 .. 0 |-> 0], sizes, 0) BY DEF Adds
  <2> QED BY <1>4, <2>1
<1>6. k - 1 \in 0 .. Len(sizes) /\ k - 1 \notin Bad
  <2>1. ~(k <= k - 1) BY <1>4
  <2> QED BY <1>3, <1>4, <1>5, <2>1
<1>7. PICK f : Adds(f, sizes, k - 1) BY <1>6 DEF Bad
<1> DEFINE g == [i \in 0 .. k |-> IF i = k THEN f[k - 1] + sizes[k] ELSE f[i]]
<1>8. Adds(g, sizes, k)
  <2>1. /\ f \in [0 .. k - 1 -> Nat] /\ f[0] = 0
        /\ \A i \in 1 .. k - 1 : f[i] = f[i - 1] + sizes[i]
    BY <1>7 DEF Adds
  <2>2. sizes[k] \in Nat /\ f[k - 1] \in Nat BY <1>4, <1>5, <2>1
  <2>3. g \in [0 .. k -> Nat] BY <1>4, <2>1, <2>2
  <2>4. g[0] = 0 BY <1>4, <1>5, <2>1
  <2>5. ASSUME NEW i \in 1 .. k PROVE g[i] = g[i - 1] + sizes[i]
    <3>1. CASE i = k BY <1>4, <1>5, <3>1
    <3>2. CASE i # k
      <4>1. i \in 1 .. k - 1 /\ i - 1 # k /\ i - 1 \in 0 .. k /\ i \in 0 .. k BY <1>4, <3>2
      <4>2. g[i] = f[i] /\ g[i - 1] = f[i - 1] BY <3>2, <4>1
      <4> QED BY <2>1, <4>1, <4>2
    <3> QED BY <3>1, <3>2
  <2> QED BY <2>3, <2>4, <2>5 DEF Adds
<1> QED BY <1>4, <1>8

\* Sums is that function.
LEMMA SumsAdd ==
  ASSUME NEW sizes \in Seq(Nat)
  PROVE  Adds(Sums(sizes), sizes, Len(sizes))
<1> DEFINE n == Len(sizes)
<1>1. n \in Nat
  OBVIOUS
<1>2. PICK f : Adds(f, sizes, n) BY <1>1, SumsExist
<1>3. f = [i \in 0 .. n |-> IF i = 0 THEN 0 ELSE f[i - 1] + sizes[i]]
  <2>1. /\ f \in [0 .. n -> Nat] /\ f[0] = 0
        /\ \A i \in 1 .. n : f[i] = f[i - 1] + sizes[i]
    BY <1>2 DEF Adds
  <2>2. \A i \in 0 .. n : f[i] = IF i = 0 THEN 0 ELSE f[i - 1] + sizes[i]
    <3> TAKE i \in 0 .. n
    <3>1. i = 0 \/ i \in 1 .. n BY <1>1
    <3> QED BY <2>1, <3>1
  <2> QED BY <2>1, <2>2
<1>4. PICK g : g = Sums(sizes)
  OBVIOUS
<1>5. g = [i \in 0 .. n |-> IF i = 0 THEN 0 ELSE g[i - 1] + sizes[i]]
  BY <1>3, <1>4 DEF Sums
<1> HIDE DEF n
<1>6. \A i \in 0 .. n : g[i] = IF i = 0 THEN 0 ELSE g[i - 1] + sizes[i]
  <2> TAKE i \in 0 .. n
  <2> DEFINE e(j) == IF j = 0 THEN 0 ELSE g[j - 1] + sizes[j]
  <2>1. g = [j \in 0 .. n |-> e(j)] BY <1>5
  <2> HIDE DEF e
  <2>2. g[i] = e(i) BY <2>1
  <2> QED BY <2>2 DEF e
<1>7. DOMAIN g = 0 .. n
  <2> DEFINE e(j) == IF j = 0 THEN 0 ELSE g[j - 1] + sizes[j]
  <2>1. g = [j \in 0 .. n |-> e(j)] BY <1>5
  <2> HIDE DEF e
  <2> QED BY <2>1
<1>8. g[0] = 0 BY <1>1, <1>6
<1>9. \A i \in 1 .. n : g[i] = g[i - 1] + sizes[i] BY <1>1, <1>6
<1>10. \A i \in 0 .. n : g[i] \in Nat
  <2> DEFINE Bad == {i \in 0 .. n : g[i] \notin Nat}
  <2>1. SUFFICES ASSUME Bad # {} PROVE FALSE
    OBVIOUS
  <2>2. Bad \in SUBSET Nat BY <1>1
  <2> HIDE DEF Bad
  <2>3. PICK k \in Bad : \A j \in Bad : k <= j BY <2>1, <2>2, LeastNumber
  <2>4. k \in 0 .. n /\ g[k] \notin Nat BY <2>3 DEF Bad
  <2>5. k # 0 BY <1>8, <2>4
  <2>6. k - 1 \in 0 .. n /\ k \in 1 .. n BY <1>1, <2>4, <2>5
  <2>7. k - 1 \notin Bad
    <3>1. ~(k <= k - 1) BY <2>4
    <3> QED BY <2>3, <3>1
  <2>8. g[k - 1] \in Nat BY <2>6, <2>7 DEF Bad
  <2>9. sizes[k] \in Nat BY <2>6 DEF n
  <2> QED BY <1>9, <2>4, <2>6, <2>8, <2>9
<1>11. g \in [0 .. n -> Nat]
  <2>1. g = [i \in 0 .. n |-> g[i]]
    <3> DEFINE e(j) == IF j = 0 THEN 0 ELSE g[j - 1] + sizes[j]
    <3>1. g = [j \in 0 .. n |-> e(j)] BY <1>5
    <3> HIDE DEF e
    <3> QED BY <3>1
  <2> QED BY <1>10, <2>1
<1> QED BY <1>4, <1>8, <1>9, <1>11 DEF Adds, n

\* Sequences that start alike have the same first sums.
LEMMA SumsAlike ==
  ASSUME NEW sizes \in Seq(Nat), NEW others \in Seq(Nat), NEW m \in Nat,
         m <= Len(sizes), m <= Len(others), \A i \in 1 .. m : sizes[i] = others[i]
  PROVE  \A i \in 0 .. m : Sums(others)[i] = Sums(sizes)[i]
<1>1. PICK f : f = Sums(sizes)
  OBVIOUS
<1>2. PICK g : g = Sums(others)
  OBVIOUS
<1>3. Adds(f, sizes, Len(sizes)) /\ Adds(g, others, Len(others)) BY <1>1, <1>2, SumsAdd
<1> DEFINE Bad == {i \in 0 .. m : g[i] # f[i]}
<1>4. SUFFICES ASSUME Bad # {} PROVE FALSE BY <1>1, <1>2
<1>5. Bad \in SUBSET Nat
  OBVIOUS
<1> HIDE DEF Bad
<1>6. PICK k \in Bad : \A j \in Bad : k <= j BY <1>4, <1>5, LeastNumber
<1>7. k \in 0 .. m /\ g[k] # f[k] BY <1>6 DEF Bad
<1>8. k # 0 BY <1>3, <1>7 DEF Adds
<1>9. k \in 1 .. m /\ k - 1 \in 0 .. m /\ k \in 1 .. Len(sizes) /\ k \in 1 .. Len(others) BY <1>7, <1>8
<1>10. k - 1 \notin Bad
  <2>1. ~(k <= k - 1) BY <1>7
  <2> QED BY <1>6, <2>1
<1>11. g[k - 1] = f[k - 1] BY <1>9, <1>10 DEF Bad
<1>12. f[k] = f[k - 1] + sizes[k] /\ g[k] = g[k - 1] + others[k] BY <1>3, <1>9 DEF Adds
<1> QED BY <1>7, <1>9, <1>11, <1>12

\* Sums only grow.
LEMMA SumsGrow ==
  ASSUME NEW sizes \in Seq(Nat), NEW i \in 0 .. Len(sizes), NEW j \in 0 .. Len(sizes), i <= j
  PROVE  Sums(sizes)[i] <= Sums(sizes)[j]
<1>1. PICK f : f = Sums(sizes)
  OBVIOUS
<1>2. Adds(f, sizes, Len(sizes)) BY <1>1, SumsAdd
<1> DEFINE Bad == {k \in 0 .. Len(sizes) : i <= k /\ ~(f[i] <= f[k])}
<1>3. SUFFICES ASSUME Bad # {} PROVE FALSE BY <1>1
<1>4. Bad \in SUBSET Nat
  OBVIOUS
<1> HIDE DEF Bad
<1>5. PICK k \in Bad : \A l \in Bad : k <= l BY <1>3, <1>4, LeastNumber
<1>6. k \in 0 .. Len(sizes) /\ i <= k /\ ~(f[i] <= f[k]) BY <1>5 DEF Bad
<1>7. f[i] \in Nat BY <1>2 DEF Adds
<1>8. k # i BY <1>6, <1>7
<1>9. k - 1 \in 0 .. Len(sizes) /\ i <= k - 1 /\ k \in 1 .. Len(sizes) BY <1>6, <1>8
<1>10. k - 1 \notin Bad
  <2>1. ~(k <= k - 1) BY <1>6
  <2> QED BY <1>5, <2>1
<1>11. f[i] <= f[k - 1] BY <1>9, <1>10 DEF Bad
<1>12. f[k] = f[k - 1] + sizes[k] /\ sizes[k] \in Nat /\ f[k - 1] \in Nat
  <2>1. sizes[k] \in Nat BY <1>9
  <2>2. f \in [0 .. Len(sizes) -> Nat] /\ \A l \in 1 .. Len(sizes) : f[l] = f[l - 1] + sizes[l] BY <1>2 DEF Adds
  <2> QED BY <1>9, <2>1, <2>2
<1> QED BY <1>6, <1>7, <1>11, <1>12

-----------------------------------------------------------------------------
(***************************************************************************)
(* Lines, and one more line.                                               *)
(***************************************************************************)
SectionsOf(ls) == {i \in DOMAIN ls : ls[i].k = "section"}
DataOf(ls) == {i \in DOMAIN ls : ls[i].k = "data"}

ConstantSizesOf(ls) ==
  [i \in DOMAIN ls |-> CASE ls[i].k = "section" /\ ls[i].kind = "CNST" -> ls[i].size
                         [] ls[i].k = "switch" -> ls[i].cases + 1
                         [] OTHER -> 0]
GlobalSizesOf(ls) == [i \in DOMAIN ls |-> IF ls[i].k = "section" /\ ~(ls[i].kind = "CNST") THEN ls[i].size ELSE 0]
DataSizesOf(ls) == [i \in DOMAIN ls |-> IF ls[i].k = "data" THEN Len(ls[i].words) ELSE 0]

AddressOf(ls, s) ==
  IF ls[s].kind = "CNST" THEN MEMORY_OFFSET - Sums(ConstantSizesOf(ls))[s]
                         ELSE MEMORY_OFFSET + Sums(GlobalSizesOf(ls))[s - 1]

Holds(ls, s, i) == s \in SectionsOf(ls) /\ s <= i /\ \A t \in SectionsOf(ls) : t <= i => t <= s
HolderOf(ls, i) == CHOOSE s \in SectionsOf(ls) : s <= i /\ \A t \in SectionsOf(ls) : t <= i => t <= s
PlaceIn(ls, i) ==
  IF i \in SectionsOf(ls) THEN 0 ELSE Sums(DataSizesOf(ls))[i - 1] - Sums(DataSizesOf(ls))[HolderOf(ls, i)]

\* The sizes are numbers, one for each line.
LEMMA SizesTyped ==
  ASSUME NEW ls \in Seq(AnyLine)
  PROVE  /\ ConstantSizesOf(ls) \in Seq(Nat) /\ Len(ConstantSizesOf(ls)) = Len(ls)
         /\ GlobalSizesOf(ls) \in Seq(Nat) /\ Len(GlobalSizesOf(ls)) = Len(ls)
         /\ DataSizesOf(ls) \in Seq(Nat) /\ Len(DataSizesOf(ls)) = Len(ls)
<1>1. PICK n \in Nat : n = Len(ls)
  OBVIOUS
<1>2. DOMAIN ls = 1 .. n BY <1>1
<1>3. \A i \in 1 .. n : ls[i] \in AnyLine BY <1>1
<1>4. \A i \in 1 .. n : /\ ls[i].k = "section" => ls[i].size \in Nat
                        /\ ls[i].k = "switch" => ls[i].cases + 1 \in Nat
                        /\ ls[i].k = "data" => Len(ls[i].words) \in Nat
  <2> TAKE i \in 1 .. n
  <2>1. ls[i] \in AnyLine BY <1>3
  <2> HIDE DEF AnyLine, AnyOperand
  <2>2. ls[i].k = "section" => ls[i].size \in Nat BY <2>1, LineParts
  <2>3. ls[i].k = "switch" => ls[i].cases \in Nat BY <2>1, LineParts
  <2>4. ls[i].k = "data" => ls[i].words \in Seq(AnyOperand) BY <2>1, LineParts
  <2> QED BY <2>2, <2>3, <2>4
<1> HIDE DEF AnyLine
<1>5. ConstantSizesOf(ls) \in Seq(Nat) /\ Len(ConstantSizesOf(ls)) = n
  <2>1. ConstantSizesOf(ls) \in [1 .. n -> Nat] BY <1>2, <1>4 DEF ConstantSizesOf
  <2> QED BY <2>1
<1>6. GlobalSizesOf(ls) \in Seq(Nat) /\ Len(GlobalSizesOf(ls)) = n
  <2>1. GlobalSizesOf(ls) \in [1 .. n -> Nat] BY <1>2, <1>4 DEF GlobalSizesOf
  <2> QED BY <2>1
<1>7. DataSizesOf(ls) \in Seq(Nat) /\ Len(DataSizesOf(ls)) = n
  <2>1. DataSizesOf(ls) \in [1 .. n -> Nat] BY <1>2, <1>4 DEF DataSizesOf
  <2> QED BY <2>1
<1> QED BY <1>1, <1>5, <1>6, <1>7

\* The lines once one more is fed.
Fed(ls, line, ms) == ms = Append(ls, line)

\* What is fed is kept.
LEMMA Appended ==
  ASSUME NEW ls \in Seq(AnyLine), NEW line \in AnyLine, NEW ms, Fed(ls, line, ms)
  PROVE  /\ ms \in Seq(AnyLine) /\ Len(ls) \in Nat /\ Len(ms) = Len(ls) + 1
         /\ DOMAIN ls = 1 .. Len(ls) /\ DOMAIN ms = 1 .. Len(ls) + 1
         /\ ms[Len(ls) + 1] = line
         /\ \A i \in 1 .. Len(ls) : ms[i] = ls[i]
<1> HIDE DEF AnyLine
<1> QED BY DEF Fed

\* What is fed changes no earlier sum.
LEMMA SumsKept ==
  ASSUME NEW ls \in Seq(AnyLine), NEW line \in AnyLine, NEW ms, Fed(ls, line, ms), NEW i \in 0 .. Len(ls)
  PROVE  /\ Sums(ConstantSizesOf(ms))[i] = Sums(ConstantSizesOf(ls))[i]
         /\ Sums(GlobalSizesOf(ms))[i] = Sums(GlobalSizesOf(ls))[i]
         /\ Sums(DataSizesOf(ms))[i] = Sums(DataSizesOf(ls))[i]
<1>0. PICK n : n = Len(ls)
  OBVIOUS
<1>1. /\ ms \in Seq(AnyLine) /\ n \in Nat /\ Len(ms) = n + 1 /\ DOMAIN ls = 1 .. n /\ DOMAIN ms = 1 .. n + 1
      /\ ms[n + 1] = line /\ \A j \in 1 .. n : ms[j] = ls[j]
  BY <1>0, Appended
<1>2. /\ ConstantSizesOf(ls) \in Seq(Nat) /\ Len(ConstantSizesOf(ls)) = n
      /\ GlobalSizesOf(ls) \in Seq(Nat) /\ Len(GlobalSizesOf(ls)) = n
      /\ DataSizesOf(ls) \in Seq(Nat) /\ Len(DataSizesOf(ls)) = n
  BY <1>0, SizesTyped
<1>3. /\ ConstantSizesOf(ms) \in Seq(Nat) /\ Len(ConstantSizesOf(ms)) = n + 1
      /\ GlobalSizesOf(ms) \in Seq(Nat) /\ Len(GlobalSizesOf(ms)) = n + 1
      /\ DataSizesOf(ms) \in Seq(Nat) /\ Len(DataSizesOf(ms)) = n + 1
  BY <1>1, SizesTyped
<1> HIDE DEF AnyLine
<1>4. \A j \in 1 .. n : /\ ConstantSizesOf(ls)[j] = ConstantSizesOf(ms)[j]
                        /\ GlobalSizesOf(ls)[j] = GlobalSizesOf(ms)[j]
                        /\ DataSizesOf(ls)[j] = DataSizesOf(ms)[j]
  <2> TAKE j \in 1 .. n
  <2>1. j \in DOMAIN ls /\ j \in DOMAIN ms /\ ms[j] = ls[j] BY <1>1
  <2> QED BY <2>1 DEF ConstantSizesOf, GlobalSizesOf, DataSizesOf
<1>5. Sums(ConstantSizesOf(ms))[i] = Sums(ConstantSizesOf(ls))[i]
  <2> DEFINE a == ConstantSizesOf(ls)
             b == ConstantSizesOf(ms)
  <2>1. a \in Seq(Nat) /\ b \in Seq(Nat) /\ n <= Len(a) /\ n <= Len(b) BY <1>1, <1>2, <1>3
  <2>2. \A j \in 1 .. n : a[j] = b[j] BY <1>4
  <2> HIDE DEF a, b
  <2>3. \A j \in 0 .. n : Sums(b)[j] = Sums(a)[j] BY <1>1, <2>1, <2>2, SumsAlike
  <2>4. i \in 0 .. n BY <1>0
  <2>5. Sums(b)[i] = Sums(a)[i] BY <2>3, <2>4
  <2> QED BY <2>5 DEF a, b
<1>6. Sums(GlobalSizesOf(ms))[i] = Sums(GlobalSizesOf(ls))[i]
  <2> DEFINE a == GlobalSizesOf(ls)
             b == GlobalSizesOf(ms)
  <2>1. a \in Seq(Nat) /\ b \in Seq(Nat) /\ n <= Len(a) /\ n <= Len(b) BY <1>1, <1>2, <1>3
  <2>2. \A j \in 1 .. n : a[j] = b[j] BY <1>4
  <2> HIDE DEF a, b
  <2>3. \A j \in 0 .. n : Sums(b)[j] = Sums(a)[j] BY <1>1, <2>1, <2>2, SumsAlike
  <2>4. i \in 0 .. n BY <1>0
  <2>5. Sums(b)[i] = Sums(a)[i] BY <2>3, <2>4
  <2> QED BY <2>5 DEF a, b
<1>7. Sums(DataSizesOf(ms))[i] = Sums(DataSizesOf(ls))[i]
  <2> DEFINE a == DataSizesOf(ls)
             b == DataSizesOf(ms)
  <2>1. a \in Seq(Nat) /\ b \in Seq(Nat) /\ n <= Len(a) /\ n <= Len(b) BY <1>1, <1>2, <1>3
  <2>2. \A j \in 1 .. n : a[j] = b[j] BY <1>4
  <2> HIDE DEF a, b
  <2>3. \A j \in 0 .. n : Sums(b)[j] = Sums(a)[j] BY <1>1, <2>1, <2>2, SumsAlike
  <2>4. i \in 0 .. n BY <1>0
  <2>5. Sums(b)[i] = Sums(a)[i] BY <2>3, <2>4
  <2> QED BY <2>5 DEF a, b
<1> QED BY <1>5, <1>6, <1>7

\* It adds its own size to them.
LEMMA SumsAppended ==
  ASSUME NEW ls \in Seq(AnyLine), NEW line \in AnyLine, NEW ms, Fed(ls, line, ms), NEW n \in Nat, n = Len(ls)
  PROVE  /\ Sums(ConstantSizesOf(ms))[n + 1] = Sums(ConstantSizesOf(ls))[n] + ConstantSizesOf(ms)[n + 1]
         /\ Sums(GlobalSizesOf(ms))[n + 1] = Sums(GlobalSizesOf(ls))[n] + GlobalSizesOf(ms)[n + 1]
         /\ Sums(DataSizesOf(ms))[n + 1] = Sums(DataSizesOf(ls))[n] + DataSizesOf(ms)[n + 1]
<1>1. ms \in Seq(AnyLine) /\ n \in Nat /\ Len(ms) = n + 1 BY Appended
<1>2. n \in 0 .. Len(ls) /\ n + 1 \in 1 .. n + 1 /\ (n + 1) - 1 = n BY <1>1
<1> HIDE DEF AnyLine
<1>3. ASSUME NEW b \in Seq(Nat), Len(b) = n + 1 PROVE Sums(b)[n + 1] = Sums(b)[n] + b[n + 1]
  <2>1. \A i \in 1 .. n + 1 : Sums(b)[i] = Sums(b)[i - 1] + b[i] BY <1>3, SumsAdd DEF Adds
  <2> QED BY <1>2, <2>1
<1>4. Sums(ConstantSizesOf(ms))[n + 1] = Sums(ConstantSizesOf(ls))[n] + ConstantSizesOf(ms)[n + 1]
  <2>1. ConstantSizesOf(ms) \in Seq(Nat) /\ Len(ConstantSizesOf(ms)) = n + 1 BY <1>1, SizesTyped
  <2>2. Sums(ConstantSizesOf(ms))[n + 1] = Sums(ConstantSizesOf(ms))[n] + ConstantSizesOf(ms)[n + 1] BY <1>3, <2>1
  <2>3. Sums(ConstantSizesOf(ms))[n] = Sums(ConstantSizesOf(ls))[n] BY <1>2, SumsKept
  <2> QED BY <2>2, <2>3
<1>5. Sums(GlobalSizesOf(ms))[n + 1] = Sums(GlobalSizesOf(ls))[n] + GlobalSizesOf(ms)[n + 1]
  <2>1. GlobalSizesOf(ms) \in Seq(Nat) /\ Len(GlobalSizesOf(ms)) = n + 1 BY <1>1, SizesTyped
  <2>2. Sums(GlobalSizesOf(ms))[n + 1] = Sums(GlobalSizesOf(ms))[n] + GlobalSizesOf(ms)[n + 1] BY <1>3, <2>1
  <2>3. Sums(GlobalSizesOf(ms))[n] = Sums(GlobalSizesOf(ls))[n] BY <1>2, SumsKept
  <2> QED BY <2>2, <2>3
<1>6. Sums(DataSizesOf(ms))[n + 1] = Sums(DataSizesOf(ls))[n] + DataSizesOf(ms)[n + 1]
  <2>1. DataSizesOf(ms) \in Seq(Nat) /\ Len(DataSizesOf(ms)) = n + 1 BY <1>1, SizesTyped
  <2>2. Sums(DataSizesOf(ms))[n + 1] = Sums(DataSizesOf(ms))[n] + DataSizesOf(ms)[n + 1] BY <1>3, <2>1
  <2>3. Sums(DataSizesOf(ms))[n] = Sums(DataSizesOf(ls))[n] BY <1>2, SumsKept
  <2> QED BY <2>2, <2>3
<1> QED BY <1>4, <1>5, <1>6

\* What a line adds.
LEMMA SizesAppended ==
  ASSUME NEW ls \in Seq(AnyLine), NEW line \in AnyLine, NEW ms, Fed(ls, line, ms), NEW n, n = Len(ls)
  PROVE  /\ line.k = "section" /\ line.kind = "CNST" => ConstantSizesOf(ms)[n + 1] = line.size
         /\ line.k = "switch" => ConstantSizesOf(ms)[n + 1] = line.cases + 1
         /\ line.k # "switch" /\ ~(line.k = "section" /\ line.kind = "CNST") => ConstantSizesOf(ms)[n + 1] = 0
         /\ line.k = "section" /\ line.kind # "CNST" => GlobalSizesOf(ms)[n + 1] = line.size
         /\ ~(line.k = "section" /\ line.kind # "CNST") => GlobalSizesOf(ms)[n + 1] = 0
         /\ line.k = "data" => DataSizesOf(ms)[n + 1] = Len(line.words)
         /\ line.k # "data" => DataSizesOf(ms)[n + 1] = 0
<1>1. n \in Nat /\ DOMAIN ms = 1 .. n + 1 /\ ms[n + 1] = line
  BY Appended
<1> HIDE DEF AnyLine
<1>2. n + 1 \in DOMAIN ms BY <1>1
<1> QED BY <1>1, <1>2 DEF ConstantSizesOf, GlobalSizesOf, DataSizesOf

\* The section a line is in is the only one that holds it.
LEMMA HolderIs ==
  ASSUME NEW ls \in Seq(AnyLine), NEW s, NEW i, Holds(ls, s, i)
  PROVE  HolderOf(ls, i) = s
<1>1. SectionsOf(ls) \subseteq Int BY DEF SectionsOf
<1>2. ASSUME NEW t \in SectionsOf(ls), t <= i, \A u \in SectionsOf(ls) : u <= i => u <= t PROVE t = s
  <2>1. s \in SectionsOf(ls) /\ s <= i /\ t <= s /\ s <= t BY <1>2 DEF Holds
  <2> QED BY <1>1, <2>1
<1> DEFINE P(t) == t <= i /\ \A u \in SectionsOf(ls) : u <= i => u <= t
<1>3. s \in SectionsOf(ls) /\ P(s) BY DEF Holds
<1>4. HolderOf(ls, i) = CHOOSE t \in SectionsOf(ls) : P(t) BY DEF HolderOf
<1>5. \A t \in SectionsOf(ls) : P(t) => t = s BY <1>2
<1> HIDE DEF P
<1> QED BY <1>3, <1>4, <1>5

\* A section holds its own line.
LEMMA HoldsItself ==
  ASSUME NEW ls \in Seq(AnyLine), NEW s \in SectionsOf(ls)
  PROVE  Holds(ls, s, s) /\ HolderOf(ls, s) = s /\ PlaceIn(ls, s) = 0
<1>1. s \in Int BY DEF SectionsOf
<1>2. Holds(ls, s, s) BY <1>1 DEF Holds
<1> QED BY <1>2, HolderIs DEF PlaceIn

\* The sections and the data among lines, with one more.
LEMMA KindsAppended ==
  ASSUME NEW ls \in Seq(AnyLine), NEW line \in AnyLine, NEW ms, Fed(ls, line, ms), NEW n, n = Len(ls)
  PROVE  /\ SectionsOf(ls) \subseteq 1 .. n /\ DataOf(ls) \subseteq 1 .. n
         /\ SectionsOf(ms) = SectionsOf(ls) \cup IF line.k = "section" THEN {n + 1} ELSE {}
         /\ DataOf(ms) = DataOf(ls) \cup IF line.k = "data" THEN {n + 1} ELSE {}
<1>1. /\ n \in Nat /\ DOMAIN ls = 1 .. n /\ DOMAIN ms = 1 .. n + 1
      /\ ms[n + 1] = line /\ \A i \in 1 .. n : ms[i] = ls[i]
  BY Appended
<1>2. 1 .. n + 1 = (1 .. n) \cup {n + 1} BY <1>1
<1> HIDE DEF AnyLine
<1>3. \A i : i \in SectionsOf(ms) <=> i \in SectionsOf(ls) \/ (line.k = "section" /\ i = n + 1)
  <2> TAKE i
  <2>1. n + 1 \notin 1 .. n BY <1>1
  <2> QED BY <1>1, <1>2, <2>1 DEF SectionsOf
<1>4. \A i : i \in DataOf(ms) <=> i \in DataOf(ls) \/ (line.k = "data" /\ i = n + 1)
  <2> TAKE i
  <2>1. n + 1 \notin 1 .. n BY <1>1
  <2> QED BY <1>1, <1>2, <2>1 DEF DataOf
<1> QED BY <1>1, <1>3, <1>4 DEF SectionsOf, DataOf

\* A line stays in its section and at its place.
LEMMA PlacesStay ==
  ASSUME NEW ls \in Seq(AnyLine), NEW line \in AnyLine, NEW ms, Fed(ls, line, ms),
         NEW i \in 1 .. Len(ls), NEW s, Holds(ls, s, i)
  PROVE  /\ Holds(ms, s, i) /\ HolderOf(ms, i) = s /\ HolderOf(ls, i) = s
         /\ PlaceIn(ms, i) = PlaceIn(ls, i)
<1>1. PICK n \in Nat : n = Len(ls)
  OBVIOUS
<1>2. ms \in Seq(AnyLine) BY Appended
<1>3. /\ SectionsOf(ls) \subseteq 1 .. n
      /\ SectionsOf(ms) = SectionsOf(ls) \cup IF line.k = "section" THEN {n + 1} ELSE {}
  BY <1>1, KindsAppended
<1>4. i \in 1 .. n /\ ~(n + 1 <= i) BY <1>1
<1>5. s \in SectionsOf(ls) /\ s <= i /\ \A t \in SectionsOf(ls) : t <= i => t <= s BY DEF Holds
<1>6. Holds(ms, s, i)
  <2>1. s \in SectionsOf(ms) BY <1>3, <1>5
  <2>2. \A t \in SectionsOf(ms) : t <= i => t \in SectionsOf(ls) BY <1>3, <1>4
  <2> QED BY <1>5, <2>1, <2>2 DEF Holds
<1>7. HolderOf(ms, i) = s /\ HolderOf(ls, i) = s BY <1>2, <1>6, HolderIs
<1>8. i \in SectionsOf(ms) <=> i \in SectionsOf(ls) BY <1>3, <1>4
<1>9. s \in 0 .. n /\ i - 1 \in 0 .. n BY <1>3, <1>4, <1>5
<1>10. /\ Sums(DataSizesOf(ms))[i - 1] = Sums(DataSizesOf(ls))[i - 1]
       /\ Sums(DataSizesOf(ms))[s] = Sums(DataSizesOf(ls))[s]
  BY <1>1, <1>9, SumsKept
<1>11. PlaceIn(ms, i) = PlaceIn(ls, i) BY <1>7, <1>8, <1>10 DEF PlaceIn
<1> QED BY <1>6, <1>7, <1>11

\* A section stays at its address.
LEMMA AddressesStay ==
  ASSUME NEW ls \in Seq(AnyLine), NEW line \in AnyLine, NEW ms, Fed(ls, line, ms), NEW s \in SectionsOf(ls)
  PROVE  AddressOf(ms, s) = AddressOf(ls, s) /\ s \in 1 .. Len(ls) /\ ms[s] = ls[s]
<1>1. PICK n \in Nat : n = Len(ls)
  OBVIOUS
<1>2. s \in 1 .. n BY <1>1, KindsAppended
<1>3. ms[s] = ls[s] BY <1>1, <1>2, Appended
<1>4. s \in 0 .. n /\ s - 1 \in 0 .. n BY <1>2
<1>5. /\ Sums(ConstantSizesOf(ms))[s] = Sums(ConstantSizesOf(ls))[s]
      /\ Sums(GlobalSizesOf(ms))[s - 1] = Sums(GlobalSizesOf(ls))[s - 1]
  BY <1>1, <1>4, SumsKept
<1> QED BY <1>1, <1>2, <1>3, <1>5 DEF AddressOf

\* Places count from the start of a section, and addresses are numbers.
LEMMA PlacesTyped ==
  ASSUME NEW ls \in Seq(AnyLine), NEW i \in 1 .. Len(ls), NEW s, Holds(ls, s, i), i \in SectionsOf(ls) \cup DataOf(ls)
  PROVE  /\ s \in 1 .. Len(ls) /\ s <= i /\ HolderOf(ls, i) = s
         /\ PlaceIn(ls, i) \in Nat
         /\ AddressOf(ls, s) \in Int
         /\ ls[s].k = "section" /\ ls[s].size \in Nat /\ ls[s].kind \in {"GLOB", "TEMP", "CNST"}
<1>1. PICK n \in Nat : n = Len(ls)
  OBVIOUS
<1>2. s \in SectionsOf(ls) /\ s <= i /\ s \in 1 .. n /\ ls[s] \in AnyLine BY <1>1 DEF Holds, SectionsOf
<1>3. ls[s].k = "section" BY <1>2 DEF SectionsOf
<1>4. ls[s].size \in Nat /\ ls[s].kind \in {"GLOB", "TEMP", "CNST"} BY <1>2, <1>3, LineParts
<1>5. /\ ConstantSizesOf(ls) \in Seq(Nat) /\ Len(ConstantSizesOf(ls)) = n
      /\ GlobalSizesOf(ls) \in Seq(Nat) /\ Len(GlobalSizesOf(ls)) = n
      /\ DataSizesOf(ls) \in Seq(Nat) /\ Len(DataSizesOf(ls)) = n
  BY <1>1, SizesTyped
<1>6. /\ Sums(ConstantSizesOf(ls)) \in [0 .. n -> Nat]
      /\ Sums(GlobalSizesOf(ls)) \in [0 .. n -> Nat]
      /\ Sums(DataSizesOf(ls)) \in [0 .. n -> Nat]
  BY <1>5, SumsAdd DEF Adds
<1>7. AddressOf(ls, s) \in Int
  <2>1. s \in 0 .. n /\ s - 1 \in 0 .. n BY <1>2
  <2>2. Sums(ConstantSizesOf(ls))[s] \in Nat /\ Sums(GlobalSizesOf(ls))[s - 1] \in Nat BY <1>6, <2>1
  <2>3. MEMORY_OFFSET \in Nat BY Sizes
  <2> QED BY <2>2, <2>3 DEF AddressOf
<1>8. HolderOf(ls, i) = s BY HolderIs
<1>9. PlaceIn(ls, i) \in Nat
  <2>1. CASE i \in SectionsOf(ls) BY <2>1 DEF PlaceIn
  <2>2. CASE i \notin SectionsOf(ls)
    <3>1. s # i BY <1>2, <2>2
    <3>2. s \in 0 .. n /\ i - 1 \in 0 .. n /\ s <= i - 1 BY <1>1, <1>2, <3>1
    <3>3. Sums(DataSizesOf(ls))[s] <= Sums(DataSizesOf(ls))[i - 1] BY <1>5, <3>2, SumsGrow
    <3>4. Sums(DataSizesOf(ls))[s] \in Nat /\ Sums(DataSizesOf(ls))[i - 1] \in Nat BY <1>6, <3>2
    <3> QED BY <1>8, <2>2, <3>3, <3>4 DEF PlaceIn
  <2> QED BY <2>1, <2>2
<1> QED BY <1>1, <1>2, <1>3, <1>4, <1>7, <1>8, <1>9

-----------------------------------------------------------------------------
(***************************************************************************)
(* What the lines say of the labels.                                       *)
(***************************************************************************)
LabelsOf(ls, s) == {i \in {j \in DataOf(ls) : HolderOf(ls, j) = s} \cup {s} : ls[i].label # NoName}
Labelled(ls) == {i \in SectionsOf(ls) \cup DataOf(ls) : ls[i].label # NoName}

\* The words from its place on are this label's, until a later label's place.
LastAt(ls, i, place) ==
  PlaceIn(ls, i) <= place /\ \A j \in LabelsOf(ls, HolderOf(ls, i)) : PlaceIn(ls, j) <= place => j <= i

HasAt(ls, i, symbol, place) == PlaceIn(ls, i) <= place /\ place < PlaceIn(ls, i) + symbol.ownedWords

AsDeclared(ls, i, symbol) ==
  LET s == HolderOf(ls, i)
  IN  /\ symbol.types = DeclareTypes(ls[s].kind)
      /\ symbol.value = AddressOf(ls, s) + PlaceIn(ls, i)
      /\ symbol.ownedWords \in 0 .. ls[s].size - PlaceIn(ls, i)
      /\ \A place \in 0 .. ls[s].size - 1 : HasAt(ls, i, symbol, place) <=> LastAt(ls, i, place)

\* Each line of data is in a section, which has room for it.
Placed(ls) ==
  \A i \in DataOf(ls) :
    \E s \in SectionsOf(ls) : Holds(ls, s, i) /\ PlaceIn(ls, i) + Len(ls[i].words) <= ls[s].size

\* The labels are the names of data, each of one line.
Describes(ls, symbols) ==
  /\ \A i \in Labelled(ls) : ls[i].label \in DOMAIN symbols /\ AsDeclared(ls, i, symbols[ls[i].label])
  /\ \A i, j \in Labelled(ls) : ls[i].label = ls[j].label => i = j
  /\ \A n \in DOMAIN symbols : isData(symbols[n].types) => \E i \in Labelled(ls) : ls[i].label = n

\* The open section is the last one.
OpenAt(ls, s, section) ==
  /\ Holds(ls, s, Len(ls))
  /\ section.kind = ls[s].kind
  /\ section.end - section.begin = ls[s].size
  /\ First(section) = AddressOf(ls, s)
  /\ section.pointer - section.begin = Sums(DataSizesOf(ls))[Len(ls)] - Sums(DataSizesOf(ls))[s]
  /\ section.owner = NoName => LabelsOf(ls, s) = {}
  /\ section.owner # NoName =>
       \E i \in LabelsOf(ls, s) : section.owner = ls[i].label /\ \A j \in LabelsOf(ls, s) : j <= i

\* The regions are as large as the sections and tables in them.
Counted(ls, g, c) ==
  /\ g = Sums(GlobalSizesOf(ls))[Len(ls)]
  /\ c = maxMemorySize - 1 - Sums(ConstantSizesOf(ls))[Len(ls)]

\* The words of a GLOB section have a label from the first on: the open one's, when it has one.
FirstLabelled(ls, s) == \E i \in LabelsOf(ls, s) : PlaceIn(ls, i) = 0
Waiting(ls, s, section) == Holds(ls, s, Len(ls)) /\ section.owner = NoName /\ section.kind = "GLOB"

Follows(ls, symbols, section, g, c) ==
  /\ Placed(ls)
  /\ Counted(ls, g, c)
  /\ Describes(ls, symbols)
  /\ section.open <=> SectionsOf(ls) # {}
  /\ section.open => \E s \in SectionsOf(ls) : OpenAt(ls, s, section)
  /\ \A s \in SectionsOf(ls) : ls[s].kind = "GLOB" => FirstLabelled(ls, s) \/ Waiting(ls, s, section)

\* Every line of data has its section.
LEMMA PlacedHolds ==
  ASSUME NEW ls \in Seq(AnyLine), Placed(ls), NEW i \in SectionsOf(ls) \cup DataOf(ls)
  PROVE  Holds(ls, HolderOf(ls, i), i) /\ i \in 1 .. Len(ls)
<1>1. i \in 1 .. Len(ls) BY DEF SectionsOf, DataOf
<1>2. CASE i \in SectionsOf(ls) BY <1>1, <1>2, HoldsItself
<1>3. CASE i \in DataOf(ls)
  <2>1. PICK s \in SectionsOf(ls) : Holds(ls, s, i) BY <1>3 DEF Placed
  <2>2. HolderOf(ls, i) = s BY <2>1, HolderIs
  <2> QED BY <1>1, <2>1, <2>2
<1> QED BY <1>2, <1>3

\* A label is in its section, and so are its words.
LEMMA LabelsPlaced ==
  ASSUME NEW ls \in Seq(AnyLine), Placed(ls), NEW s \in SectionsOf(ls), NEW i \in LabelsOf(ls, s)
  PROVE  i \in Labelled(ls) /\ Holds(ls, s, i) /\ HolderOf(ls, i) = s /\ i \in 1 .. Len(ls) /\ s <= i
<1>1. i = s \/ (i \in DataOf(ls) /\ HolderOf(ls, i) = s) BY DEF LabelsOf
<1>2. HolderOf(ls, i) = s BY <1>1, HoldsItself
<1>3. i \in SectionsOf(ls) \cup DataOf(ls) BY <1>1
<1>4. Holds(ls, s, i) /\ i \in 1 .. Len(ls) BY <1>2, <1>3, PlacedHolds
<1>5. i \in Labelled(ls) BY <1>3 DEF Labelled, LabelsOf
<1> QED BY <1>2, <1>4, <1>5 DEF Holds

\* A labelled line is among the labels of its section.
LEMMA LabelledThere ==
  ASSUME NEW ls \in Seq(AnyLine), Placed(ls), NEW i \in Labelled(ls)
  PROVE  /\ HolderOf(ls, i) \in SectionsOf(ls) /\ Holds(ls, HolderOf(ls, i), i)
         /\ i \in LabelsOf(ls, HolderOf(ls, i)) /\ i \in 1 .. Len(ls)
<1>1. i \in SectionsOf(ls) \cup DataOf(ls) /\ ls[i].label # NoName BY DEF Labelled
<1>2. Holds(ls, HolderOf(ls, i), i) /\ i \in 1 .. Len(ls) BY <1>1, PlacedHolds
<1>3. HolderOf(ls, i) \in SectionsOf(ls) BY <1>2 DEF Holds
<1>4. i \in SectionsOf(ls) => HolderOf(ls, i) = i BY HoldsItself
<1> QED BY <1>1, <1>2, <1>3, <1>4 DEF LabelsOf

\* The labels among lines, with one more.
LEMMA LabelledAppended ==
  ASSUME NEW ls \in Seq(AnyLine), NEW line \in AnyLine, NEW ms, Fed(ls, line, ms), NEW n, n = Len(ls)
  PROVE  Labelled(ms) = Labelled(ls) \cup IF line.k \in {"section", "data"} /\ line.label # NoName THEN {n + 1} ELSE {}
<1>1. /\ SectionsOf(ls) \subseteq 1 .. n /\ DataOf(ls) \subseteq 1 .. n
      /\ SectionsOf(ms) = SectionsOf(ls) \cup IF line.k = "section" THEN {n + 1} ELSE {}
      /\ DataOf(ms) = DataOf(ls) \cup IF line.k = "data" THEN {n + 1} ELSE {}
  BY KindsAppended
<1>2. ms[n + 1] = line /\ \A i \in 1 .. n : ms[i] = ls[i] BY Appended
<1>3. \A i : i \in SectionsOf(ms) \cup DataOf(ms) <=>
             i \in SectionsOf(ls) \cup DataOf(ls) \/ (line.k \in {"section", "data"} /\ i = n + 1)
  BY <1>1
<1>4. \A i \in SectionsOf(ls) \cup DataOf(ls) : ms[i] = ls[i] BY <1>1, <1>2
<1> HIDE DEF AnyLine
<1> QED BY <1>2, <1>3, <1>4 DEF Labelled

\* A labelled line keeps its section, its place and the section's address.
LEMMA LabelledStays ==
  ASSUME NEW ls \in Seq(AnyLine), NEW line \in AnyLine, NEW ms, Fed(ls, line, ms), Placed(ls), NEW i \in SectionsOf(ls) \cup DataOf(ls)
  PROVE  /\ HolderOf(ms, i) = HolderOf(ls, i) /\ PlaceIn(ms, i) = PlaceIn(ls, i) /\ ms[i] = ls[i]
         /\ Holds(ms, HolderOf(ls, i), i)
         /\ AddressOf(ms, HolderOf(ls, i)) = AddressOf(ls, HolderOf(ls, i))
         /\ ms[HolderOf(ls, i)] = ls[HolderOf(ls, i)]
<1>1. Holds(ls, HolderOf(ls, i), i) /\ i \in 1 .. Len(ls) BY PlacedHolds
<1>2. HolderOf(ls, i) \in SectionsOf(ls) BY <1>1 DEF Holds
<1>3. PICK s \in SectionsOf(ls) : s = HolderOf(ls, i) BY <1>2
<1>4. Holds(ms, s, i) /\ HolderOf(ms, i) = s /\ PlaceIn(ms, i) = PlaceIn(ls, i) BY <1>1, <1>3, PlacesStay
<1>5. AddressOf(ms, s) = AddressOf(ls, s) /\ ms[s] = ls[s] BY AddressesStay
<1>6. ms[i] = ls[i] BY <1>1, Appended
<1> QED BY <1>3, <1>4, <1>5, <1>6

\* A section that a line is not labelled in keeps its labels.
LEMMA LabelsStay ==
  ASSUME NEW ls \in Seq(AnyLine), NEW line \in AnyLine, NEW ms, Fed(ls, line, ms), Placed(ls), NEW s \in SectionsOf(ls)
  PROVE  /\ LabelsOf(ls, s) \subseteq LabelsOf(ms, s)
         /\ LabelsOf(ms, s) =
              LabelsOf(ls, s) \cup IF line.k = "data" /\ line.label # NoName /\ HolderOf(ms, Len(ls) + 1) = s
                                  THEN {Len(ls) + 1} ELSE {}
<1>1. PICK n : n = Len(ls)
  OBVIOUS
<1>2. n \in Nat /\ ms[n + 1] = line BY <1>1, Appended
<1>3. /\ SectionsOf(ls) \subseteq 1 .. n /\ DataOf(ls) \subseteq 1 .. n
      /\ DataOf(ms) = DataOf(ls) \cup IF line.k = "data" THEN {n + 1} ELSE {}
  BY <1>1, KindsAppended
<1>4. \A i \in SectionsOf(ls) \cup DataOf(ls) : HolderOf(ms, i) = HolderOf(ls, i) /\ ms[i] = ls[i] BY LabelledStays
<1>5. n + 1 \notin DataOf(ls) /\ s # n + 1 BY <1>2, <1>3
<1> HIDE DEF AnyLine
<1>6. ASSUME NEW i PROVE i \in LabelsOf(ms, s) <=>
          i \in LabelsOf(ls, s) \/ (i = n + 1 /\ line.k = "data" /\ line.label # NoName /\ HolderOf(ms, n + 1) = s)
  <2>1. CASE i = s BY <1>4, <1>5, <2>1 DEF LabelsOf
  <2>2. CASE i \in DataOf(ls) /\ i # s BY <1>3, <1>4, <1>5, <2>2 DEF LabelsOf
  <2>3. CASE i = n + 1 BY <1>2, <1>3, <1>5, <2>3 DEF LabelsOf
  <2>4. CASE i # s /\ i \notin DataOf(ls) /\ i # n + 1 BY <1>3, <2>4 DEF LabelsOf
  <2> QED BY <2>1, <2>2, <2>3, <2>4
<1> QED BY <1>1, <1>6

\* A line that is not data, or has no label, adds none to an earlier section.
LEMMA NoLabelFed ==
  ASSUME NEW ls \in Seq(AnyLine), NEW line \in AnyLine, NEW ms, Fed(ls, line, ms), Placed(ls), NEW s \in SectionsOf(ls),
         line.k = "data" => line.label = NoName
  PROVE  LabelsOf(ms, s) = LabelsOf(ls, s)
<1>1. LabelsOf(ms, s) =
        LabelsOf(ls, s) \cup IF line.k = "data" /\ line.label # NoName /\ HolderOf(ms, Len(ls) + 1) = s
                            THEN {Len(ls) + 1} ELSE {}
  BY LabelsStay
<1> QED BY <1>1

-----------------------------------------------------------------------------
(***************************************************************************)
(* One more line.                                                          *)
(***************************************************************************)
\* The last section holds every line up to the next section.
LEMMA HoldsOn ==
  ASSUME NEW ls \in Seq(AnyLine), NEW line \in AnyLine, NEW ms, Fed(ls, line, ms), NEW n, n = Len(ls), NEW s,
         Holds(ls, s, n), line.k # "section"
  PROVE  Holds(ms, s, n + 1) /\ HolderOf(ms, n + 1) = s /\ s \in 1 .. n
<1>1. n \in Nat /\ ms \in Seq(AnyLine) BY Appended
<1>2. SectionsOf(ms) = SectionsOf(ls) /\ SectionsOf(ls) \subseteq 1 .. n BY KindsAppended
<1>3. s \in SectionsOf(ls) /\ \A t \in SectionsOf(ls) : t <= n => t <= s BY DEF Holds
<1>4. \A t \in SectionsOf(ls) : t <= n BY <1>1, <1>2
<1>5. s <= n + 1 BY <1>1, <1>2, <1>3
<1>6. Holds(ms, s, n + 1) BY <1>2, <1>3, <1>4, <1>5 DEF Holds
<1> QED BY <1>1, <1>2, <1>3, <1>6, HolderIs

\* Data follows the data before it.
LEMMA DataPlace ==
  ASSUME NEW ls \in Seq(AnyLine), NEW line \in AnyLine, NEW ms, Fed(ls, line, ms), NEW n \in Nat, n = Len(ls), NEW s,
         Holds(ls, s, n), line.k = "data"
  PROVE  PlaceIn(ms, n + 1) = Sums(DataSizesOf(ls))[n] - Sums(DataSizesOf(ls))[s]
<1>1. n \in Nat /\ (n + 1) - 1 = n BY Appended
<1>2. HolderOf(ms, n + 1) = s /\ s \in 1 .. n BY HoldsOn
<1>3. SectionsOf(ms) = SectionsOf(ls) /\ SectionsOf(ls) \subseteq 1 .. n BY KindsAppended
<1>4. n + 1 \notin SectionsOf(ms) BY <1>1, <1>3
<1>5. n \in 0 .. Len(ls) /\ s \in 0 .. Len(ls) BY <1>1, <1>2
<1>6. Sums(DataSizesOf(ms))[n] = Sums(DataSizesOf(ls))[n] BY <1>5, SumsKept
<1>7. Sums(DataSizesOf(ms))[s] = Sums(DataSizesOf(ls))[s] BY <1>5, SumsKept
<1> QED BY <1>1, <1>2, <1>4, <1>6, <1>7 DEF PlaceIn

\* It is placed where its section has room for it.
LEMMA PlacedAppended ==
  ASSUME NEW ls \in Seq(AnyLine), NEW line \in AnyLine, NEW ms, Fed(ls, line, ms), NEW n, n = Len(ls), Placed(ls),
         line.k = "data" => \E s \in SectionsOf(ls) :
           Holds(ls, s, n) /\ Sums(DataSizesOf(ls))[n] - Sums(DataSizesOf(ls))[s] + Len(line.words) <= ls[s].size
  PROVE  Placed(ms)
<1>1. n \in Nat /\ ms[n + 1] = line BY Appended
<1>2. /\ DataOf(ms) = DataOf(ls) \cup IF line.k = "data" THEN {n + 1} ELSE {}
      /\ SectionsOf(ms) = SectionsOf(ls) \cup IF line.k = "section" THEN {n + 1} ELSE {}
  BY KindsAppended
<1>5. SectionsOf(ls) \subseteq SectionsOf(ms) BY <1>2
<1> SUFFICES ASSUME NEW i \in DataOf(ms)
             PROVE  \E s \in SectionsOf(ms) : Holds(ms, s, i) /\ PlaceIn(ms, i) + Len(ms[i].words) <= ms[s].size
  BY DEF Placed
<1>3. CASE i \in DataOf(ls)
  <2>1. PICK s \in SectionsOf(ls) : Holds(ls, s, i) /\ PlaceIn(ls, i) + Len(ls[i].words) <= ls[s].size BY <1>3 DEF Placed
  <2>2. i \in SectionsOf(ls) \cup DataOf(ls) /\ HolderOf(ls, i) = s BY <1>3, <2>1, HolderIs
  <2>3. Holds(ms, s, i) /\ PlaceIn(ms, i) = PlaceIn(ls, i) /\ ms[i] = ls[i] /\ ms[s] = ls[s] BY <2>2, LabelledStays
  <2> QED BY <1>5, <2>1, <2>3
<1>4. CASE i \notin DataOf(ls)
  <2>1. i = n + 1 /\ line.k = "data" BY <1>2, <1>4
  <2>2. PICK s \in SectionsOf(ls) :
          Holds(ls, s, n) /\ Sums(DataSizesOf(ls))[n] - Sums(DataSizesOf(ls))[s] + Len(line.words) <= ls[s].size
    BY <2>1
  <2>3. Holds(ms, s, n + 1) BY <2>1, <2>2, HoldsOn
  <2>4. Holds(ls, s, n) BY <2>2
  <2>5. line.k = "data" BY <2>1
  <2>6. PlaceIn(ms, n + 1) = Sums(DataSizesOf(ls))[n] - Sums(DataSizesOf(ls))[s] BY <1>1, <2>4, <2>5, DataPlace
  <2>7. ms[s] = ls[s] BY AddressesStay
  <2> QED BY <1>1, <1>5, <2>1, <2>2, <2>3, <2>6, <2>7
<1> QED BY <1>3, <1>4

\* The regions grow by what the line takes of them.
LEMMA CountedAppended ==
  ASSUME NEW ls \in Seq(AnyLine), NEW line \in AnyLine, NEW ms, Fed(ls, line, ms), NEW g, NEW c, Counted(ls, g, c)
  PROVE  /\ g \in Nat /\ c \in Int
         /\ Counted(ms, g + GlobalSizesOf(ms)[Len(ls) + 1], c - ConstantSizesOf(ms)[Len(ls) + 1])
<1>1. PICK n : n = Len(ls)
  OBVIOUS
<1>2. n \in Nat /\ ms \in Seq(AnyLine) /\ Len(ms) = n + 1 BY <1>1, Appended
<1>3. PICK p : p = GlobalSizesOf(ls)
  OBVIOUS
<1>4. PICK q : q = ConstantSizesOf(ls)
  OBVIOUS
<1>5. p \in Seq(Nat) /\ Len(p) = n /\ q \in Seq(Nat) /\ Len(q) = n BY <1>1, <1>3, <1>4, SizesTyped
<1>6. Sums(p)[n] \in Nat /\ Sums(q)[n] \in Nat
  <2>1. Sums(p) \in [0 .. n -> Nat] BY <1>5, SumsAdd DEF Adds
  <2>2. Sums(q) \in [0 .. n -> Nat] BY <1>5, SumsAdd DEF Adds
  <2>3. n \in 0 .. n BY <1>2
  <2> QED BY <2>1, <2>2, <2>3
<1>7. g = Sums(p)[n] /\ c = maxMemorySize - 1 - Sums(q)[n] BY <1>1, <1>3, <1>4 DEF Counted
<1>8. maxMemorySize \in Nat BY Sizes
<1>9. /\ Sums(GlobalSizesOf(ms))[n + 1] = Sums(p)[n] + GlobalSizesOf(ms)[n + 1]
      /\ Sums(ConstantSizesOf(ms))[n + 1] = Sums(q)[n] + ConstantSizesOf(ms)[n + 1]
  <2>1. /\ Sums(GlobalSizesOf(ms))[n + 1] = Sums(GlobalSizesOf(ls))[n] + GlobalSizesOf(ms)[n + 1]
        /\ Sums(ConstantSizesOf(ms))[n + 1] = Sums(ConstantSizesOf(ls))[n] + ConstantSizesOf(ms)[n + 1]
    BY <1>1, <1>2, SumsAppended
  <2> QED BY <1>3, <1>4, <2>1
<1>10. PICK v \in Nat : v = ConstantSizesOf(ms)[n + 1]
  <2>1. ConstantSizesOf(ms) \in Seq(Nat) /\ Len(ConstantSizesOf(ms)) = n + 1 BY <1>2, SizesTyped
  <2>2. n + 1 \in 1 .. n + 1 BY <1>2
  <2> QED BY <2>1, <2>2
<1>11. g \in Nat /\ c \in Int BY <1>6, <1>7, <1>8
<1>12. c - v = maxMemorySize - 1 - (Sums(q)[n] + v) BY <1>6, <1>7, <1>8
<1> QED BY <1>1, <1>2, <1>7, <1>9, <1>10, <1>11, <1>12 DEF Counted

\* A label stays as declared when no label comes after it in its section.
LEMMA DeclaredStays ==
  ASSUME NEW ls \in Seq(AnyLine), NEW line \in AnyLine, NEW ms, Fed(ls, line, ms), Placed(ls),
         NEW i \in Labelled(ls), NEW symbol, AsDeclared(ls, i, symbol),
         LabelsOf(ms, HolderOf(ls, i)) = LabelsOf(ls, HolderOf(ls, i))
  PROVE  AsDeclared(ms, i, symbol)
<1>1. PICK s : s = HolderOf(ls, i)
  OBVIOUS
<1>2. s \in SectionsOf(ls) /\ i \in SectionsOf(ls) \cup DataOf(ls) BY <1>1, LabelledThere DEF Labelled
<1>3. /\ HolderOf(ms, i) = s /\ PlaceIn(ms, i) = PlaceIn(ls, i) /\ AddressOf(ms, s) = AddressOf(ls, s)
      /\ ms[s] = ls[s]
  BY <1>1, <1>2, LabelledStays
<1>4. ASSUME NEW j \in LabelsOf(ls, s) PROVE PlaceIn(ms, j) = PlaceIn(ls, j)
  <2>1. j \in Labelled(ls) BY <1>2, LabelsPlaced
  <2>2. j \in SectionsOf(ls) \cup DataOf(ls) BY <2>1 DEF Labelled
  <2> QED BY <2>2, LabelledStays
<1>5. ASSUME NEW place PROVE LastAt(ms, i, place) <=> LastAt(ls, i, place)
  BY <1>1, <1>3, <1>4 DEF LastAt
<1>6. ASSUME NEW place PROVE HasAt(ms, i, symbol, place) <=> HasAt(ls, i, symbol, place)
  BY <1>3 DEF HasAt
<1>7. /\ symbol.types = DeclareTypes(ls[s].kind)
      /\ symbol.value = AddressOf(ls, s) + PlaceIn(ls, i)
      /\ symbol.ownedWords \in 0 .. ls[s].size - PlaceIn(ls, i)
      /\ \A place \in 0 .. ls[s].size - 1 : HasAt(ls, i, symbol, place) <=> LastAt(ls, i, place)
  BY <1>1 DEF AsDeclared
<1>8. \A place \in 0 .. ms[s].size - 1 : HasAt(ms, i, symbol, place) <=> LastAt(ms, i, place)
  BY <1>3, <1>5, <1>6, <1>7
<1> QED BY <1>3, <1>7, <1>8 DEF AsDeclared

\* A section's first place stays labelled.
LEMMA FirstStays ==
  ASSUME NEW ls \in Seq(AnyLine), NEW line \in AnyLine, NEW ms, Fed(ls, line, ms), Placed(ls),
         NEW s \in SectionsOf(ls), FirstLabelled(ls, s)
  PROVE  FirstLabelled(ms, s)
<1>1. PICK i \in LabelsOf(ls, s) : PlaceIn(ls, i) = 0 BY DEF FirstLabelled
<1>2. i \in SectionsOf(ls) \cup DataOf(ls) BY LabelsPlaced DEF Labelled
<1>3. PlaceIn(ms, i) = 0 BY <1>1, <1>2, LabelledStays
<1>4. LabelsOf(ls, s) \subseteq LabelsOf(ms, s) BY LabelsStay
<1>5. i \in LabelsOf(ms, s) BY <1>4
<1> QED BY <1>3, <1>5 DEF FirstLabelled

\* A number of words, and the sum up to a line.
LEMMA SumsTyped ==
  ASSUME NEW ls \in Seq(AnyLine), NEW i \in 0 .. Len(ls)
  PROVE  Sums(DataSizesOf(ls))[i] \in Nat /\ Sums(GlobalSizesOf(ls))[i] \in Nat /\ Sums(ConstantSizesOf(ls))[i] \in Nat
<1>1. /\ ConstantSizesOf(ls) \in Seq(Nat) /\ Len(ConstantSizesOf(ls)) = Len(ls)
      /\ GlobalSizesOf(ls) \in Seq(Nat) /\ Len(GlobalSizesOf(ls)) = Len(ls)
      /\ DataSizesOf(ls) \in Seq(Nat) /\ Len(DataSizesOf(ls)) = Len(ls)
  BY SizesTyped
<1>2. ASSUME NEW a \in Seq(Nat), Len(a) = Len(ls) PROVE Sums(a)[i] \in Nat
  <2>1. Sums(a) \in [0 .. Len(ls) -> Nat] BY <1>2, SumsAdd DEF Adds
  <2> QED BY <2>1
<1> QED BY <1>1, <1>2

\* The open section, after a line that opens no other.
LEMMA OpenFed ==
  ASSUME NEW ls \in Seq(AnyLine), NEW line \in AnyLine, NEW ms, Fed(ls, line, ms), Placed(ls), line.k # "section",
         NEW s \in SectionsOf(ls), NEW section \in DataType, OpenAt(ls, s, section),
         NEW new, new.kind = section.kind, new.begin = section.begin, new.end = section.end,
         new.pointer = section.pointer + DataSizesOf(ms)[Len(ls) + 1],
         new.owner = IF line.k = "data" /\ line.label # NoName THEN line.label ELSE section.owner
  PROVE  OpenAt(ms, s, new)
<1>1. PICK n \in Nat : n = Len(ls) /\ Len(ms) = n + 1 /\ ms[n + 1] = line /\ ms \in Seq(AnyLine)
  BY Appended
<1>2. Holds(ls, s, n) BY <1>1 DEF OpenAt
<1>3. Holds(ms, s, n + 1) /\ HolderOf(ms, n + 1) = s /\ s \in 1 .. n BY <1>1, <1>2, HoldsOn
<1>4. AddressOf(ms, s) = AddressOf(ls, s) /\ ms[s] = ls[s] BY AddressesStay
<1>5. First(new) = First(section) BY DEF First
<1>6. new.pointer - new.begin = Sums(DataSizesOf(ms))[n + 1] - Sums(DataSizesOf(ms))[s]
  <2>1. section.pointer \in Int /\ section.begin \in Int BY DEF DataType
  <2>2. PICK v \in Nat : v = DataSizesOf(ms)[n + 1]
    <3>1. DataSizesOf(ms) \in Seq(Nat) /\ Len(DataSizesOf(ms)) = n + 1 BY <1>1, SizesTyped
    <3> QED BY <3>1
  <2>3. PICK a \in Nat : a = Sums(DataSizesOf(ls))[n] BY <1>1, SumsTyped
  <2>4. PICK b \in Nat : b = Sums(DataSizesOf(ls))[s]
    <3>1. s \in 0 .. Len(ls) BY <1>1, <1>3
    <3> QED BY <3>1, SumsTyped
  <2>5. Sums(DataSizesOf(ms))[n + 1] = a + v BY <1>1, <2>2, <2>3, SumsAppended
  <2>6. Sums(DataSizesOf(ms))[s] = b
    <3>1. s \in 0 .. Len(ls) BY <1>1, <1>3
    <3> QED BY <2>4, <3>1, SumsKept
  <2>7. section.pointer - section.begin = a - b BY <1>1, <2>3, <2>4 DEF OpenAt
  <2>8. new.pointer = section.pointer + v BY <1>1, <2>2
  <2>9. new.pointer - new.begin = (a + v) - b BY <2>1, <2>7, <2>8
  <2> QED BY <2>5, <2>6, <2>9
<1>7. LabelsOf(ms, s) = LabelsOf(ls, s) \cup IF line.k = "data" /\ line.label # NoName THEN {n + 1} ELSE {}
  BY <1>1, <1>3, LabelsStay
<1>8. \A i \in LabelsOf(ls, s) : i \in 1 .. n /\ ms[i] = ls[i]
  <2> TAKE i \in LabelsOf(ls, s)
  <2>1. i \in 1 .. n BY <1>1, LabelsPlaced
  <2> QED BY <1>1, <2>1, Appended
<1>9. new.owner = NoName => LabelsOf(ms, s) = {} BY <1>7 DEF OpenAt
<1>10. ASSUME new.owner # NoName
       PROVE  \E i \in LabelsOf(ms, s) : new.owner = ms[i].label /\ \A j \in LabelsOf(ms, s) : j <= i
  <2>1. CASE line.k = "data" /\ line.label # NoName
    <3>1. n + 1 \in LabelsOf(ms, s) /\ new.owner = ms[n + 1].label BY <1>1, <1>7, <2>1
    <3>2. \A j \in LabelsOf(ms, s) : j \in LabelsOf(ls, s) \/ j = n + 1 BY <1>7
    <3>3. \A j \in LabelsOf(ms, s) : j <= n + 1 BY <1>1, <1>8, <3>2
    <3> QED BY <3>1, <3>3
  <2>2. CASE ~(line.k = "data" /\ line.label # NoName)
    <3>1. LabelsOf(ms, s) = LabelsOf(ls, s) BY <1>7, <2>2
    <3>2. new.owner = section.owner BY <2>2
    <3>3. PICK i \in LabelsOf(ls, s) : section.owner = ls[i].label /\ \A j \in LabelsOf(ls, s) : j <= i
      BY <1>10, <3>2 DEF OpenAt
    <3> QED BY <1>8, <3>1, <3>2, <3>3
  <2> QED BY <2>1, <2>2
<1>11. new.kind = ms[s].kind /\ new.end - new.begin = ms[s].size /\ First(new) = AddressOf(ms, s)
  BY <1>4, <1>5 DEF OpenAt
<1> QED BY <1>1, <1>3, <1>6, <1>9, <1>10, <1>11 DEF OpenAt

\* A GLOB section waits for its first label until a line gives it one.
LEMMA WaitingFed ==
  ASSUME NEW ls \in Seq(AnyLine), NEW line \in AnyLine, NEW ms, Fed(ls, line, ms), Placed(ls), line.k # "section",
         NEW s \in SectionsOf(ls), NEW section, Waiting(ls, s, section), NEW new, new.kind = section.kind, new.owner = section.owner
  PROVE  Waiting(ms, s, new)
<1>1. PICK n \in Nat : n = Len(ls) /\ Len(ms) = n + 1
  BY Appended
<1>2. Holds(ls, s, n) BY <1>1 DEF Waiting
<1>3. Holds(ms, s, n + 1) BY <1>1, <1>2, HoldsOn
<1> QED BY <1>1, <1>3 DEF Waiting

\* The names of data, when others are added.
LEMMA NamesStay ==
  ASSUME NEW ls \in Seq(AnyLine), NEW line \in AnyLine, NEW ms, Fed(ls, line, ms), Placed(ls), line.k \in {"section", "data"} => line.label = NoName,
         NEW symbols, Describes(ls, symbols), NEW others, DOMAIN symbols \subseteq DOMAIN others,
         \A n \in DOMAIN symbols : others[n] = symbols[n],
         \A n \in DOMAIN others : n \in DOMAIN symbols \/ ~isData(others[n].types)
  PROVE  Describes(ms, others)
<1>1. Labelled(ms) = Labelled(ls)
  <2>1. PICK n : n = Len(ls)
    OBVIOUS
  <2> QED BY <2>1, LabelledAppended
<1>2. \A i \in Labelled(ls) : ms[i] = ls[i] BY LabelledStays DEF Labelled
<1>3. ASSUME NEW i \in Labelled(ls)
      PROVE  ms[i].label \in DOMAIN others /\ AsDeclared(ms, i, others[ms[i].label])
  <2>1. ms[i] = ls[i] BY <1>2
  <2>2. ls[i].label \in DOMAIN symbols /\ AsDeclared(ls, i, symbols[ls[i].label]) BY DEF Describes
  <2>3. PICK s \in SectionsOf(ls) : s = HolderOf(ls, i) BY LabelledThere
  <2>4. LabelsOf(ms, s) = LabelsOf(ls, s) BY NoLabelFed
  <2>5. PICK symbol : symbol = symbols[ls[i].label]
    OBVIOUS
  <2>6. AsDeclared(ms, i, symbol) BY <2>2, <2>3, <2>4, <2>5, DeclaredStays
  <2> QED BY <2>1, <2>2, <2>5, <2>6
<1>4. \A i, j \in Labelled(ls) : ms[i].label = ms[j].label => i = j BY <1>2 DEF Describes
<1>5. ASSUME NEW n \in DOMAIN others, isData(others[n].types) PROVE \E i \in Labelled(ls) : ms[i].label = n
  <2>1. n \in DOMAIN symbols /\ isData(symbols[n].types) BY <1>5
  <2>2. PICK i \in Labelled(ls) : ls[i].label = n BY <2>1 DEF Describes
  <2> QED BY <1>2, <2>2
<1> QED BY <1>1, <1>3, <1>4, <1>5 DEF Describes

\* A line that is not data's changes nothing of it.
LEMMA OtherFed ==
  ASSUME NEW ls \in Seq(AnyLine), NEW line \in AnyLine, NEW ms, Fed(ls, line, ms), line.k \notin {"section", "data"},
         NEW symbols, NEW section \in DataType, NEW g, NEW c, Follows(ls, symbols, section, g, c),
         NEW others, DOMAIN symbols \subseteq DOMAIN others, \A n \in DOMAIN symbols : others[n] = symbols[n],
         \A n \in DOMAIN others : n \in DOMAIN symbols \/ ~isData(others[n].types),
         NEW d, line.k = "switch" => d = c - (line.cases + 1), line.k # "switch" => d = c
  PROVE  Follows(ms, others, section, g, d)
<1>1. PICK n \in Nat : n = Len(ls) BY Appended
<1>2. Placed(ls) /\ Counted(ls, g, c) BY DEF Follows
<1>3. Placed(ms) BY <1>1, <1>2, PlacedAppended
<1>4. SectionsOf(ms) = SectionsOf(ls) BY <1>1, KindsAppended
<1>5. Counted(ms, g, d)
  <2>1. g \in Nat /\ c \in Int /\ Counted(ms, g + GlobalSizesOf(ms)[n + 1], c - ConstantSizesOf(ms)[n + 1])
    BY <1>1, <1>2, CountedAppended
  <2>2. GlobalSizesOf(ms)[n + 1] = 0 BY <1>1, SizesAppended
  <2>3. line.k = "switch" => ConstantSizesOf(ms)[n + 1] = line.cases + 1 BY <1>1, SizesAppended
  <2>4. line.k # "switch" => ConstantSizesOf(ms)[n + 1] = 0 BY <1>1, SizesAppended
  <2>5. c - ConstantSizesOf(ms)[n + 1] = d BY <2>1, <2>3, <2>4
  <2>6. g + GlobalSizesOf(ms)[n + 1] = g BY <2>1, <2>2
  <2> QED BY <2>1, <2>5, <2>6
<1>6. Describes(ms, others) BY <1>2, NamesStay DEF Follows
<1>7. section.open <=> SectionsOf(ms) # {} BY <1>4 DEF Follows
<1>8. ASSUME section.open PROVE \E s \in SectionsOf(ms) : OpenAt(ms, s, section)
  <2>1. PICK s \in SectionsOf(ls) : OpenAt(ls, s, section) BY <1>8 DEF Follows
  <2>2. section.pointer = section.pointer + DataSizesOf(ms)[n + 1]
    <3>1. DataSizesOf(ms)[n + 1] = 0 BY <1>1, SizesAppended
    <3>2. section.pointer \in Int BY DEF DataType
    <3> QED BY <3>1, <3>2
  <2>3. OpenAt(ms, s, section) BY <1>1, <1>2, <2>1, <2>2, OpenFed
  <2> QED BY <1>4, <2>3
<1>9. ASSUME NEW s \in SectionsOf(ms), ms[s].kind = "GLOB" PROVE FirstLabelled(ms, s) \/ Waiting(ms, s, section)
  <2>1. s \in SectionsOf(ls) BY <1>4
  <2>2. ls[s].kind = "GLOB" BY <1>9, <2>1, AddressesStay
  <2>3. CASE FirstLabelled(ls, s) BY <1>2, <2>1, <2>3, FirstStays
  <2>4. CASE Waiting(ls, s, section) BY <1>2, <2>1, <2>4, WaitingFed
  <2> QED BY <2>1, <2>2, <2>3, <2>4 DEF Follows
<1> QED BY <1>3, <1>5, <1>6, <1>7, <1>8, <1>9 DEF Follows

\* A section's labels are none but its own.
LEMMA SectionLabels ==
  ASSUME NEW ls \in Seq(AnyLine), NEW line \in AnyLine, NEW ms, Fed(ls, line, ms), Placed(ls), line.k = "section",
         NEW n \in Nat, n = Len(ls)
  PROVE  /\ Holds(ms, n + 1, n + 1) /\ HolderOf(ms, n + 1) = n + 1 /\ PlaceIn(ms, n + 1) = 0
         /\ line.label = NoName => LabelsOf(ms, n + 1) = {}
         /\ line.label # NoName => LabelsOf(ms, n + 1) = {n + 1}
<1>1. ms \in Seq(AnyLine) /\ ms[n + 1] = line /\ Len(ms) = n + 1 BY Appended
<1>2. n + 1 \in SectionsOf(ms) /\ DataOf(ms) = DataOf(ls) /\ DataOf(ls) \subseteq 1 .. n
  <2>1. /\ SectionsOf(ms) = SectionsOf(ls) \cup IF line.k = "section" THEN {n + 1} ELSE {}
        /\ DataOf(ms) = DataOf(ls) \cup IF line.k = "data" THEN {n + 1} ELSE {}
        /\ DataOf(ls) \subseteq 1 .. n
    BY KindsAppended
  <2>2. line.k = "section" /\ line.k # "data"
    OBVIOUS
  <2> QED BY <2>1, <2>2
<1>3. Holds(ms, n + 1, n + 1) /\ HolderOf(ms, n + 1) = n + 1 /\ PlaceIn(ms, n + 1) = 0 BY <1>1, <1>2, HoldsItself
<1>4. ASSUME NEW i \in DataOf(ms) PROVE HolderOf(ms, i) # n + 1
  <2>1. i \in SectionsOf(ls) \cup DataOf(ls) /\ i \in 1 .. n BY <1>2
  <2>2. Holds(ls, HolderOf(ls, i), i) /\ HolderOf(ms, i) = HolderOf(ls, i) BY <2>1, PlacedHolds, LabelledStays
  <2>3. HolderOf(ls, i) <= i /\ HolderOf(ls, i) \in 1 .. n
    <3>1. HolderOf(ls, i) \in SectionsOf(ls) /\ HolderOf(ls, i) <= i BY <2>2 DEF Holds
    <3>2. SectionsOf(ls) \subseteq 1 .. n BY KindsAppended
    <3> QED BY <3>1, <3>2
  <2> QED BY <2>2, <2>3
<1>5. \A i : i \in LabelsOf(ms, n + 1) <=> i = n + 1 /\ line.label # NoName BY <1>1, <1>4 DEF LabelsOf
<1> QED BY <1>3, <1>5

\* The names of data, when one is added.
LEMMA NameJoins ==
  ASSUME NEW ls \in Seq(AnyLine), NEW line \in AnyLine, NEW ms, Fed(ls, line, ms), Placed(ls),
         line.k \in {"section", "data"}, line.label # NoName, NEW n \in Nat, n = Len(ls),
         NEW symbols, Describes(ls, symbols), line.label \notin DOMAIN symbols,
         NEW others, DOMAIN others = DOMAIN symbols \cup {line.label},
         \A m \in DOMAIN symbols : others[m].types = symbols[m].types,
         \A i \in Labelled(ls) : AsDeclared(ms, i, others[ls[i].label]),
         AsDeclared(ms, n + 1, others[line.label])
  PROVE  Describes(ms, others)
<1>1. ms[n + 1] = line BY Appended
<1>2. Labelled(ms) = Labelled(ls) \cup {n + 1}
  <2>1. Labelled(ms) = Labelled(ls) \cup IF line.k \in {"section", "data"} /\ line.label # NoName THEN {n + 1} ELSE {}
    BY LabelledAppended
  <2>2. line.k \in {"section", "data"} /\ line.label # NoName
    OBVIOUS
  <2> QED BY <2>1, <2>2
<1>3. \A i \in Labelled(ls) : ms[i] = ls[i] /\ ls[i].label \in DOMAIN symbols BY LabelledStays DEF Labelled, Describes
<1>4. ASSUME NEW i \in Labelled(ms) PROVE ms[i].label \in DOMAIN others /\ AsDeclared(ms, i, others[ms[i].label])
  BY <1>1, <1>2, <1>3
<1>5. ASSUME NEW i \in Labelled(ms), NEW j \in Labelled(ms), ms[i].label = ms[j].label PROVE i = j
  <2>1. CASE i \in Labelled(ls) /\ j \in Labelled(ls) BY <1>3, <1>5, <2>1 DEF Describes
  <2>2. CASE i = n + 1 /\ j # n + 1 BY <1>1, <1>2, <1>3, <1>5, <2>2
  <2>3. CASE j = n + 1 /\ i # n + 1 BY <1>1, <1>2, <1>3, <1>5, <2>3
  <2> QED BY <1>2, <2>1, <2>2, <2>3
<1>6. ASSUME NEW m \in DOMAIN others, isData(others[m].types) PROVE \E i \in Labelled(ms) : ms[i].label = m
  <2>1. CASE m = line.label BY <1>1, <1>2, <2>1
  <2>2. CASE m \in DOMAIN symbols
    <3>1. isData(symbols[m].types) BY <1>6, <2>2
    <3>2. PICK i \in Labelled(ls) : ls[i].label = m BY <2>2, <3>1 DEF Describes
    <3> QED BY <1>2, <1>3, <3>2
  <2> QED BY <2>1, <2>2
<1> QED BY <1>4, <1>5, <1>6 DEF Describes

\* A section's words, and the ends of the regions without them.
Taken(line, g, c, begin, h, d) ==
  /\ line.kind = "CNST" => begin = c - line.size /\ h = g /\ d = begin
  /\ line.kind # "CNST" => begin = g /\ h = g + line.size /\ d = c

\* A section is where the region it is taken from ends.
LEMMA SectionAddressed ==
  ASSUME NEW ls \in Seq(AnyLine), NEW line \in AnyLine, NEW ms, Fed(ls, line, ms), line.k = "section", NEW n \in Nat, n = Len(ls),
         NEW g, NEW c, Counted(ls, g, c), NEW begin, NEW h, NEW d,
         Taken(line, g, c, begin, h, d)
  PROVE  Counted(ms, h, d) /\ AddressOf(ms, n + 1) = makeGAZLPointer(begin, line.kind) /\ begin \in Int
<1>1. /\ ms \in Seq(AnyLine) /\ ms[n + 1] = line /\ Len(ms) = n + 1 BY Appended
<1>2. PICK v : v = ConstantSizesOf(ms)[n + 1]
  OBVIOUS
<1>3. PICK w : w = GlobalSizesOf(ms)[n + 1]
  OBVIOUS
<1>4. g \in Nat /\ c \in Int /\ Counted(ms, g + w, c - v) BY <1>2, <1>3, CountedAppended
<1>5. line.size \in Nat BY LineParts
<1>6. line.kind = "CNST" => v = line.size /\ w = 0 BY <1>2, <1>3, SizesAppended
<1>7. line.kind # "CNST" => v = 0 /\ w = line.size BY <1>2, <1>3, SizesAppended
<1>8. h = g + w /\ d = c - v /\ begin \in Int BY <1>4, <1>5, <1>6, <1>7 DEF Taken
<1>9. Counted(ms, h, d) BY <1>4, <1>8
<1>10. AddressOf(ms, n + 1) = makeGAZLPointer(begin, line.kind)
  <2>1. maxMemorySize \in Nat /\ MEMORY_OFFSET \in Nat BY Sizes
  <2>2. CASE line.kind = "CNST"
    <3>1. PICK a \in Nat : a = Sums(ConstantSizesOf(ms))[n + 1]
      <4>1. n + 1 \in 0 .. Len(ms) BY <1>1
      <4> QED BY <1>1, <4>1, SumsTyped
    <3>2. d = maxMemorySize - 1 - a BY <1>1, <1>9, <3>1 DEF Counted
    <3>3. AddressOf(ms, n + 1) = MEMORY_OFFSET - a BY <1>1, <2>2, <3>1 DEF AddressOf
    <3>4. begin = d BY <2>2 DEF Taken
    <3> QED BY <1>8, <2>1, <2>2, <3>1, <3>2, <3>3, <3>4 DEF makeGAZLPointer
  <2>3. CASE line.kind # "CNST"
    <3>1. (n + 1) - 1 = n /\ n \in 0 .. Len(ls)
      OBVIOUS
    <3>2. Sums(GlobalSizesOf(ms))[n] = Sums(GlobalSizesOf(ls))[n] BY <3>1, SumsKept
    <3>3. g = Sums(GlobalSizesOf(ls))[n] BY DEF Counted
    <3>4. AddressOf(ms, n + 1) = MEMORY_OFFSET + g BY <1>1, <2>3, <3>1, <3>2, <3>3 DEF AddressOf
    <3> QED BY <2>3, <3>4 DEF makeGAZLPointer, Taken
  <2> QED BY <2>2, <2>3
<1> QED BY <1>8, <1>9, <1>10

\* A new section is open, at its start.
LEMMA SectionOpen ==
  ASSUME NEW ls \in Seq(AnyLine), NEW line \in AnyLine, NEW ms, Fed(ls, line, ms), Placed(ls), line.k = "section",
         NEW n \in Nat, n = Len(ls),
         NEW begin \in Int, AddressOf(ms, n + 1) = makeGAZLPointer(begin, line.kind),
         NEW new, new.kind = line.kind, new.pointer = begin, new.begin = begin, new.end = begin + line.size, new.owner = line.label
  PROVE  OpenAt(ms, n + 1, new)
<1>1. ms \in Seq(AnyLine) /\ ms[n + 1] = line /\ Len(ms) = n + 1 BY Appended
<1>2. /\ Holds(ms, n + 1, n + 1)
      /\ line.label = NoName => LabelsOf(ms, n + 1) = {}
      /\ line.label # NoName => LabelsOf(ms, n + 1) = {n + 1}
  BY SectionLabels
<1>3. line.size \in Nat BY LineParts
<1>4. new.kind = ms[n + 1].kind /\ new.end - new.begin = ms[n + 1].size BY <1>1, <1>3
<1>5. First(new) = AddressOf(ms, n + 1) BY DEF First
<1>6. new.pointer - new.begin = Sums(DataSizesOf(ms))[n + 1] - Sums(DataSizesOf(ms))[n + 1]
  <2>1. n + 1 \in 0 .. Len(ms) BY <1>1
  <2>2. PICK a \in Nat : a = Sums(DataSizesOf(ms))[n + 1] BY <1>1, <2>1, SumsTyped
  <2>3. new.pointer - new.begin = 0 /\ a - a = 0
    OBVIOUS
  <2> QED BY <2>2, <2>3
<1>7. new.owner = NoName => LabelsOf(ms, n + 1) = {} BY <1>2
<1>8. new.owner # NoName =>
        \E i \in LabelsOf(ms, n + 1) : new.owner = ms[i].label /\ \A j \in LabelsOf(ms, n + 1) : j <= i
  <2>1. SUFFICES ASSUME new.owner # NoName PROVE LabelsOf(ms, n + 1) = {n + 1} /\ new.owner = ms[n + 1].label
    OBVIOUS
  <2> QED BY <1>1, <1>2, <2>1
<1> QED BY <1>1, <1>2, <1>4, <1>5, <1>6, <1>7, <1>8 DEF OpenAt

\* Its label owns all of it.
LEMMA SectionDeclared ==
  ASSUME NEW ls \in Seq(AnyLine), NEW line \in AnyLine, NEW ms, Fed(ls, line, ms), Placed(ls), line.k = "section", line.label # NoName,
         NEW n \in Nat, n = Len(ls), AddressOf(ms, n + 1) \in Int,
         NEW symbol, symbol.types = DeclareTypes(line.kind), symbol.value = AddressOf(ms, n + 1), symbol.ownedWords = line.size
  PROVE  AsDeclared(ms, n + 1, symbol)
<1>1. ms[n + 1] = line BY Appended
<1>2. HolderOf(ms, n + 1) = n + 1 /\ PlaceIn(ms, n + 1) = 0 BY SectionLabels
<1>3. LabelsOf(ms, n + 1) = {n + 1} BY SectionLabels
<1>4. line.size \in Nat BY LineParts
<1>5. symbol.value = AddressOf(ms, n + 1) + PlaceIn(ms, n + 1) BY <1>2
<1>6. symbol.ownedWords \in 0 .. line.size - PlaceIn(ms, n + 1) BY <1>2, <1>4
<1>7. ASSUME NEW place \in 0 .. line.size - 1 PROVE HasAt(ms, n + 1, symbol, place) /\ LastAt(ms, n + 1, place)
  <2>1. HasAt(ms, n + 1, symbol, place) BY <1>2, <1>4 DEF HasAt
  <2>2. LastAt(ms, n + 1, place) BY <1>2, <1>3 DEF LastAt
  <2> QED BY <2>1, <2>2
<1> QED BY <1>1, <1>2, <1>5, <1>6, <1>7 DEF AsDeclared

\* A section's line opens it, and closes the one before it.
LEMMA SectionFed ==
  ASSUME NEW ls \in Seq(AnyLine), NEW line \in AnyLine, NEW ms, Fed(ls, line, ms), line.k = "section",
         NEW symbols, NEW section, NEW g, NEW c, Follows(ls, symbols, section, g, c),
         ~(section.open /\ section.owner = NoName /\ section.kind = "GLOB"), line.label \notin DOMAIN symbols,
         NEW begin, NEW h, NEW d,
         Taken(line, g, c, begin, h, d),
         NEW symbol, symbol.types = DeclareTypes(line.kind), symbol.value = makeGAZLPointer(begin, line.kind),
         symbol.ownedWords = line.size,
         NEW others, line.label = NoName => others = symbols,
         line.label # NoName => /\ DOMAIN others = DOMAIN symbols \cup {line.label} /\ others[line.label] = symbol
                                /\ \A m \in DOMAIN symbols : others[m] = symbols[m],
         NEW new, new.open, new.kind = line.kind, new.pointer = begin, new.begin = begin, new.end = begin + line.size,
         new.owner = line.label
  PROVE  Follows(ms, others, new, h, d)
<1>1. PICK n \in Nat : n = Len(ls) /\ ms[n + 1] = line /\ Len(ms) = n + 1 BY Appended
<1>2. Placed(ls) /\ Counted(ls, g, c) /\ Describes(ls, symbols) BY DEF Follows
<1>3. Placed(ms) BY <1>1, <1>2, PlacedAppended
<1>4. SectionsOf(ms) = SectionsOf(ls) \cup {n + 1}
  <2>1. SectionsOf(ms) = SectionsOf(ls) \cup IF line.k = "section" THEN {n + 1} ELSE {} BY <1>1, KindsAppended
  <2>2. line.k = "section"
    OBVIOUS
  <2> QED BY <2>1, <2>2
<1>5. Counted(ms, h, d) /\ AddressOf(ms, n + 1) = makeGAZLPointer(begin, line.kind) /\ begin \in Int
  BY <1>1, <1>2, SectionAddressed
<1>6. OpenAt(ms, n + 1, new) BY <1>1, <1>2, <1>5, SectionOpen
<1>7. \A s \in SectionsOf(ls) : LabelsOf(ms, s) = LabelsOf(ls, s)
  BY <1>2, NoLabelFed
<1>8. Describes(ms, others)
  <2>1. ASSUME NEW i \in Labelled(ls) PROVE AsDeclared(ms, i, symbols[ls[i].label]) /\ ls[i].label \in DOMAIN symbols
    <3>1. ls[i].label \in DOMAIN symbols /\ AsDeclared(ls, i, symbols[ls[i].label]) BY <1>2 DEF Describes
    <3>2. PICK s \in SectionsOf(ls) : s = HolderOf(ls, i) BY <1>2, LabelledThere
    <3>3. LabelsOf(ms, s) = LabelsOf(ls, s) BY <1>7
    <3>4. PICK named : named = symbols[ls[i].label]
      OBVIOUS
    <3>5. AsDeclared(ms, i, named) BY <1>2, <3>1, <3>2, <3>3, <3>4, DeclaredStays
    <3> QED BY <3>1, <3>4, <3>5
  <2>2. CASE line.label = NoName
    <3>1. Labelled(ms) = Labelled(ls)
      <4>1. Labelled(ms) = Labelled(ls) \cup IF line.k \in {"section", "data"} /\ line.label # NoName THEN {n + 1} ELSE {}
        BY <1>1, LabelledAppended
      <4> QED BY <2>2, <4>1
    <3>2. \A i \in Labelled(ls) : ms[i] = ls[i] BY <1>2, LabelledStays DEF Labelled
    <3>3. others = symbols BY <2>2
    <3> QED BY <1>2, <2>1, <3>1, <3>2, <3>3 DEF Describes
  <2>3. CASE line.label # NoName
    <3>1. /\ DOMAIN others = DOMAIN symbols \cup {line.label} /\ others[line.label] = symbol
          /\ \A m \in DOMAIN symbols : others[m] = symbols[m]
      BY <2>3
    <3>2. AddressOf(ms, n + 1) \in Int BY <1>5, PointerFacts
    <3>3. AsDeclared(ms, n + 1, symbol) BY <1>1, <1>2, <1>5, <2>3, <3>2, SectionDeclared
    <3>4. \A i \in Labelled(ls) : AsDeclared(ms, i, others[ls[i].label]) BY <2>1, <3>1
    <3>5. \A m \in DOMAIN symbols : others[m].types = symbols[m].types BY <3>1
    <3> QED BY <1>1, <1>2, <2>3, <3>1, <3>3, <3>4, <3>5, NameJoins
  <2> QED BY <2>2, <2>3
<1>9. ASSUME NEW s \in SectionsOf(ms), ms[s].kind = "GLOB" PROVE FirstLabelled(ms, s) \/ Waiting(ms, s, new)
  <2>1. CASE s \in SectionsOf(ls)
    <3>1. ls[s].kind = "GLOB" BY <1>9, <2>1, AddressesStay
    <3>2. FirstLabelled(ls, s) BY <2>1, <3>1 DEF Follows, Waiting
    <3> QED BY <1>2, <2>1, <3>2, FirstStays
  <2>2. CASE s = n + 1
    <3>1. CASE line.label = NoName
      <4>1. Holds(ms, n + 1, n + 1) /\ new.owner = NoName /\ new.kind = "GLOB" BY <1>1, <1>6, <1>9, <2>2, <3>1 DEF OpenAt
      <4> QED BY <1>1, <2>2, <4>1 DEF Waiting
    <3>2. CASE line.label # NoName
      <4>1. n + 1 \in LabelsOf(ms, n + 1) /\ PlaceIn(ms, n + 1) = 0
        <5>1. LabelsOf(ms, n + 1) = {n + 1} /\ PlaceIn(ms, n + 1) = 0 BY <1>1, <1>2, <3>2, SectionLabels
        <5> QED BY <5>1
      <4> QED BY <2>2, <4>1 DEF FirstLabelled
    <3> QED BY <3>1, <3>2
  <2> QED BY <1>4, <2>1, <2>2
<1>10. (new.open <=> SectionsOf(ms) # {}) /\ \E s \in SectionsOf(ms) : OpenAt(ms, s, new) BY <1>4, <1>6
<1> QED BY <1>3, <1>5, <1>8, <1>9, <1>10 DEF Follows

\* The open section has room for data that was stored.
LEMMA DataRoom ==
  ASSUME NEW ls \in Seq(AnyLine), NEW section \in DataType, NEW s \in SectionsOf(ls), OpenAt(ls, s, section),
         NEW k \in Nat, section.pointer + k <= section.end, NEW n \in Nat, n = Len(ls)
  PROVE  /\ Holds(ls, s, n) /\ s \in 1 .. n
         /\ Sums(DataSizesOf(ls))[n] - Sums(DataSizesOf(ls))[s] \in Nat
         /\ section.pointer = section.begin + (Sums(DataSizesOf(ls))[n] - Sums(DataSizesOf(ls))[s])
         /\ Sums(DataSizesOf(ls))[n] - Sums(DataSizesOf(ls))[s] + k <= ls[s].size
         /\ section.end - section.pointer = ls[s].size - (Sums(DataSizesOf(ls))[n] - Sums(DataSizesOf(ls))[s])
<1>1. Holds(ls, s, n) /\ section.end - section.begin = ls[s].size
      /\ section.pointer - section.begin = Sums(DataSizesOf(ls))[n] - Sums(DataSizesOf(ls))[s]
  BY DEF OpenAt
<1>2. s \in 1 .. n BY DEF SectionsOf
<1>3. n \in 0 .. Len(ls) /\ s \in 0 .. Len(ls) /\ s <= n BY <1>2
<1>4. PICK a \in Nat : a = Sums(DataSizesOf(ls))[n] BY <1>3, SumsTyped
<1>5. PICK b \in Nat : b = Sums(DataSizesOf(ls))[s] BY <1>3, SumsTyped
<1>6. b <= a
  <2>1. DataSizesOf(ls) \in Seq(Nat) /\ Len(DataSizesOf(ls)) = Len(ls) BY SizesTyped
  <2>2. Sums(DataSizesOf(ls))[s] <= Sums(DataSizesOf(ls))[n] BY <1>3, <2>1, SumsGrow
  <2> QED BY <1>4, <1>5, <2>2
<1>7. section.pointer \in Int /\ section.begin \in Int /\ section.end \in Int BY DEF DataType
<1>8. section.pointer - section.begin = a - b BY <1>1, <1>4, <1>5
<1>9. /\ a - b \in Nat /\ section.pointer = section.begin + (a - b) /\ a - b + k <= ls[s].size
      /\ section.end - section.pointer = ls[s].size - (a - b)
  <2>1. PICK size : size = ls[s].size /\ section.end - section.begin = size BY <1>1
  <2> QED BY <1>6, <1>7, <1>8, <2>1
<1> QED BY <1>1, <1>2, <1>4, <1>5, <1>9

\* A line of a section is not placed after the data so far.
LEMMA PlacedBefore ==
  ASSUME NEW ls \in Seq(AnyLine), Placed(ls), NEW n \in Nat, n = Len(ls),
         NEW i \in SectionsOf(ls) \cup DataOf(ls), NEW s, Holds(ls, s, i)
  PROVE  PlaceIn(ls, i) \in Nat /\ PlaceIn(ls, i) <= Sums(DataSizesOf(ls))[n] - Sums(DataSizesOf(ls))[s]
<1>1. i \in 1 .. n BY PlacedHolds
<1>2. HolderOf(ls, i) = s /\ s \in 1 .. n /\ s <= i /\ PlaceIn(ls, i) \in Nat BY <1>1, PlacesTyped
<1>3. DataSizesOf(ls) \in Seq(Nat) /\ Len(DataSizesOf(ls)) = n BY SizesTyped
<1>4. n \in 0 .. Len(ls) /\ s \in 0 .. Len(ls) /\ i - 1 \in 0 .. Len(ls) /\ i - 1 <= n /\ s <= n BY <1>1, <1>2
<1>5. PICK a \in Nat : a = Sums(DataSizesOf(ls))[n] BY <1>4, SumsTyped
<1>6. PICK b \in Nat : b = Sums(DataSizesOf(ls))[s] BY <1>4, SumsTyped
<1>7. PICK e \in Nat : e = Sums(DataSizesOf(ls))[i - 1] BY <1>4, SumsTyped
<1>8. e <= a
  <2>1. Sums(DataSizesOf(ls))[i - 1] <= Sums(DataSizesOf(ls))[n] BY <1>3, <1>4, SumsGrow
  <2> QED BY <1>5, <1>7, <2>1
<1>9. b <= a
  <2>1. Sums(DataSizesOf(ls))[s] <= Sums(DataSizesOf(ls))[n] BY <1>3, <1>4, SumsGrow
  <2> QED BY <1>5, <1>6, <2>1
<1>10. PlaceIn(ls, i) = 0 \/ PlaceIn(ls, i) = e - b BY <1>2, <1>6, <1>7 DEF PlaceIn
<1>11. PlaceIn(ls, i) <= a - b BY <1>8, <1>9, <1>10
<1> QED BY <1>2, <1>5, <1>6, <1>11

\* A new label in a section takes the words from its place on.
LEMMA LastCut ==
  ASSUME NEW ls \in Seq(AnyLine), NEW line \in AnyLine, NEW ms, Fed(ls, line, ms), Placed(ls), NEW n \in Nat, n = Len(ls),
         NEW s \in SectionsOf(ls), LabelsOf(ms, s) = LabelsOf(ls, s) \cup {n + 1},
         NEW i \in LabelsOf(ls, s), NEW place
  PROVE  LastAt(ms, i, place) <=> LastAt(ls, i, place) /\ ~(PlaceIn(ms, n + 1) <= place)
<1>1. HolderOf(ls, i) = s /\ i \in Labelled(ls) /\ i \in 1 .. Len(ls) BY LabelsPlaced
<1>2. ~(n + 1 <= i) BY <1>1
<1>3. HolderOf(ms, i) = s /\ PlaceIn(ms, i) = PlaceIn(ls, i) BY <1>1, LabelledStays DEF Labelled
<1>4. \A j \in LabelsOf(ls, s) : PlaceIn(ms, j) = PlaceIn(ls, j)
  <2> TAKE j \in LabelsOf(ls, s)
  <2>1. j \in Labelled(ls) BY LabelsPlaced
  <2> QED BY <2>1, LabelledStays DEF Labelled
<1> QED BY <1>1, <1>2, <1>3, <1>4 DEF LastAt

\* The last label is cut back to the new one's place.
LEMMA DeclaredCut ==
  ASSUME NEW ls \in Seq(AnyLine), NEW line \in AnyLine, NEW ms, Fed(ls, line, ms), Placed(ls), NEW n \in Nat, n = Len(ls),
         NEW s \in SectionsOf(ls), LabelsOf(ms, s) = LabelsOf(ls, s) \cup {n + 1},
         NEW i \in LabelsOf(ls, s), \A j \in LabelsOf(ls, s) : j <= i,
         NEW p \in Nat, PlaceIn(ms, n + 1) = p, PlaceIn(ls, i) <= p, p <= ls[s].size,
         NEW symbol \in SymbolType, AsDeclared(ls, i, symbol)
  PROVE  AsDeclared(ms, i, Cut(symbol, AddressOf(ls, s) + p))
<1>1. HolderOf(ls, i) = s /\ i \in Labelled(ls) /\ i \in 1 .. Len(ls) /\ Holds(ls, s, i) BY LabelsPlaced
<1>2. i \in SectionsOf(ls) \cup DataOf(ls) BY <1>1 DEF Labelled
<1>3. /\ HolderOf(ms, i) = s /\ PlaceIn(ms, i) = PlaceIn(ls, i) /\ AddressOf(ms, s) = AddressOf(ls, s)
      /\ ms[s] = ls[s]
  BY <1>1, <1>2, LabelledStays
<1>4. PICK q \in Nat : q = PlaceIn(ls, i) BY <1>1, <1>2, PlacesTyped
<1>5. PICK a \in Int : a = AddressOf(ls, s) BY <1>1, <1>2, PlacesTyped
<1>6. PICK size \in Nat : size = ls[s].size BY <1>1, <1>2, PlacesTyped
<1>7. symbol.types = DeclareTypes(ls[s].kind) /\ symbol.value = a + q BY <1>1, <1>4, <1>5 DEF AsDeclared
<1>8. PICK cut : cut = Cut(symbol, a + p)
  OBVIOUS
<1>9. cut.types = symbol.types /\ cut.value = symbol.value /\ cut.ownedWords = (a + p) - symbol.value
  <2>1. PICK address \in Int : address = a + p
    OBVIOUS
  <2>2. /\ Cut(symbol, address).types = symbol.types /\ Cut(symbol, address).value = symbol.value
        /\ Cut(symbol, address).ownedWords = address - symbol.value
    BY CutFacts
  <2> QED BY <1>8, <2>1, <2>2
<1>10. cut.ownedWords = p - q /\ cut.ownedWords \in 0 .. size - q BY <1>4, <1>6, <1>7, <1>9
<1>11. ASSUME NEW place \in 0 .. size - 1 PROVE HasAt(ms, i, cut, place) <=> LastAt(ms, i, place)
  <2>1. HasAt(ms, i, cut, place) <=> q <= place /\ place < p BY <1>3, <1>4, <1>10 DEF HasAt
  <2>2. LastAt(ls, i, place) <=> q <= place BY <1>1, <1>4 DEF LastAt
  <2>3. LastAt(ms, i, place) <=> LastAt(ls, i, place) /\ ~(p <= place) BY LastCut
  <2> QED BY <2>1, <2>2, <2>3
<1>12. AsDeclared(ms, i, cut) BY <1>3, <1>4, <1>5, <1>6, <1>7, <1>9, <1>10, <1>11 DEF AsDeclared
<1> QED BY <1>5, <1>8, <1>12

\* The labels before it had been cut back already.
LEMMA DeclaredBefore ==
  ASSUME NEW ls \in Seq(AnyLine), NEW line \in AnyLine, NEW ms, Fed(ls, line, ms), Placed(ls), NEW n \in Nat, n = Len(ls),
         NEW s \in SectionsOf(ls), LabelsOf(ms, s) = LabelsOf(ls, s) \cup {n + 1},
         NEW o \in LabelsOf(ls, s), \A j \in LabelsOf(ls, s) : j <= o,
         NEW p \in Nat, PlaceIn(ms, n + 1) = p, PlaceIn(ls, o) <= p,
         NEW i \in LabelsOf(ls, s), i # o, NEW symbol, AsDeclared(ls, i, symbol)
  PROVE  AsDeclared(ms, i, symbol)
<1>1. HolderOf(ls, i) = s /\ i \in Labelled(ls) /\ i \in 1 .. Len(ls) /\ Holds(ls, s, i) BY LabelsPlaced
<1>2. i \in SectionsOf(ls) \cup DataOf(ls) BY <1>1 DEF Labelled
<1>3. /\ HolderOf(ms, i) = s /\ PlaceIn(ms, i) = PlaceIn(ls, i) /\ AddressOf(ms, s) = AddressOf(ls, s)
      /\ ms[s] = ls[s]
  BY <1>1, <1>2, LabelledStays
<1>4. o \in 1 .. Len(ls) /\ o \in Labelled(ls) /\ Holds(ls, s, o) BY LabelsPlaced
<1>5. ~(o <= i) BY <1>1, <1>4
<1>6. PICK q \in Nat : q = PlaceIn(ls, o) BY <1>4, PlacesTyped DEF Labelled
<1>7. PICK size \in Nat : size = ls[s].size BY <1>1, <1>2, PlacesTyped
<1>8. ASSUME NEW place \in 0 .. size - 1 PROVE HasAt(ms, i, symbol, place) <=> LastAt(ms, i, place)
  <2>1. HasAt(ms, i, symbol, place) <=> HasAt(ls, i, symbol, place) BY <1>3 DEF HasAt
  <2>2. HasAt(ls, i, symbol, place) <=> LastAt(ls, i, place) BY <1>1, <1>7 DEF AsDeclared
  <2>3. LastAt(ms, i, place) <=> LastAt(ls, i, place) /\ ~(p <= place) BY LastCut
  <2>4. p <= place => ~LastAt(ls, i, place)
    <3>1. SUFFICES ASSUME p <= place, LastAt(ls, i, place) PROVE FALSE
      OBVIOUS
    <3>2. PlaceIn(ls, o) <= place BY <1>6, <3>1
    <3> QED BY <1>1, <1>5, <3>1, <3>2 DEF LastAt
  <2> QED BY <2>1, <2>2, <2>3, <2>4
<1>9. /\ symbol.types = DeclareTypes(ls[s].kind)
      /\ symbol.value = AddressOf(ls, s) + PlaceIn(ls, i)
      /\ symbol.ownedWords \in 0 .. ls[s].size - PlaceIn(ls, i)
  BY <1>1 DEF AsDeclared
<1> QED BY <1>3, <1>7, <1>8, <1>9 DEF AsDeclared

\* The new label owns the rest of the section.
LEMMA DataDeclared ==
  ASSUME NEW ls \in Seq(AnyLine), NEW line \in AnyLine, NEW ms, Fed(ls, line, ms), Placed(ls), line.k = "data",
         NEW n \in Nat, n = Len(ls), NEW s \in SectionsOf(ls), Holds(ls, s, n), LabelsOf(ms, s) = LabelsOf(ls, s) \cup {n + 1},
         NEW p \in Nat, PlaceIn(ms, n + 1) = p, NEW size \in Nat, size = ls[s].size, p <= size, AddressOf(ls, s) \in Int,
         NEW symbol, symbol.types = DeclareTypes(ls[s].kind), symbol.value = AddressOf(ls, s) + p, symbol.ownedWords = size - p
  PROVE  AsDeclared(ms, n + 1, symbol)
<1>1. HolderOf(ms, n + 1) = s BY HoldsOn
<1>2. AddressOf(ms, s) = AddressOf(ls, s) /\ ms[s] = ls[s] BY AddressesStay
<1>3. \A j \in LabelsOf(ms, s) : j <= n + 1
  <2>1. \A j \in LabelsOf(ls, s) : j \in 1 .. n BY LabelsPlaced
  <2>2. \A j \in LabelsOf(ms, s) : j \in LabelsOf(ls, s) \/ j = n + 1
    OBVIOUS
  <2> QED BY <2>1, <2>2
<1>4. ASSUME NEW place \in 0 .. size - 1 PROVE HasAt(ms, n + 1, symbol, place) <=> LastAt(ms, n + 1, place)
  <2>1. HasAt(ms, n + 1, symbol, place) <=> p <= place BY DEF HasAt
  <2>2. LastAt(ms, n + 1, place) <=> p <= place BY <1>1, <1>3 DEF LastAt
  <2> QED BY <2>1, <2>2
<1> QED BY <1>1, <1>2, <1>4 DEF AsDeclared

\* Data without a label goes to the last label, or to none.
LEMMA UnlabelledFed ==
  ASSUME NEW ls \in Seq(AnyLine), NEW line \in AnyLine, NEW ms, Fed(ls, line, ms), line.k = "data", line.label = NoName,
         NEW symbols, NEW section \in DataType, NEW g, NEW c, Follows(ls, symbols, section, g, c),
         section.open, section.owner = NoName => section.kind # "GLOB",
         section.pointer + Len(line.words) <= section.end,
         NEW new, new.open = section.open, new.kind = section.kind, new.begin = section.begin, new.end = section.end,
         new.pointer = section.pointer + Len(line.words), new.owner = section.owner
  PROVE  Follows(ms, symbols, new, g, c)
<1>1. PICK n \in Nat : n = Len(ls) BY Appended
<1>2. Placed(ls) /\ Counted(ls, g, c) /\ Describes(ls, symbols) BY DEF Follows
<1>3. PICK k \in Nat : k = Len(line.words) BY LineParts
<1>4. PICK s \in SectionsOf(ls) : OpenAt(ls, s, section) BY DEF Follows
<1>5. /\ Holds(ls, s, n)
      /\ Sums(DataSizesOf(ls))[n] - Sums(DataSizesOf(ls))[s] + k <= ls[s].size
  BY <1>1, <1>3, <1>4, DataRoom
<1>6. Placed(ms) BY <1>1, <1>2, <1>3, <1>5, PlacedAppended
<1>7. SectionsOf(ms) = SectionsOf(ls)
  <2>1. SectionsOf(ms) = SectionsOf(ls) \cup IF line.k = "section" THEN {n + 1} ELSE {} BY <1>1, KindsAppended
  <2>2. line.k # "section"
    OBVIOUS
  <2> QED BY <2>1, <2>2
<1>8. Counted(ms, g, c)
  <2>1. g \in Nat /\ c \in Int /\ Counted(ms, g + GlobalSizesOf(ms)[n + 1], c - ConstantSizesOf(ms)[n + 1])
    BY <1>1, <1>2, CountedAppended
  <2>2. GlobalSizesOf(ms)[n + 1] = 0 /\ ConstantSizesOf(ms)[n + 1] = 0 BY <1>1, SizesAppended
  <2>3. g + 0 = g /\ c - 0 = c BY <2>1
  <2> QED BY <2>1, <2>2, <2>3
<1>9. Describes(ms, symbols)
  <2>1. \A m \in DOMAIN symbols : symbols[m] = symbols[m] /\ (m \in DOMAIN symbols \/ ~isData(symbols[m].types))
    OBVIOUS
  <2> QED BY <1>2, <2>1, NamesStay
<1>10. OpenAt(ms, s, new)
  <2>1. DataSizesOf(ms)[n + 1] = Len(line.words) BY <1>1, SizesAppended
  <2>2. new.pointer = section.pointer + DataSizesOf(ms)[n + 1] BY <2>1
  <2>3. new.owner = IF line.k = "data" /\ line.label # NoName THEN line.label ELSE section.owner
    OBVIOUS
  <2> QED BY <1>1, <1>2, <1>4, <2>2, <2>3, OpenFed
<1>11. ASSUME NEW t \in SectionsOf(ms), ms[t].kind = "GLOB" PROVE FirstLabelled(ms, t)
  <2>1. t \in SectionsOf(ls) BY <1>7
  <2>2. ls[t].kind = "GLOB" BY <1>11, <2>1, AddressesStay
  <2>3. FirstLabelled(ls, t) BY <2>1, <2>2 DEF Follows, Waiting
  <2> QED BY <1>2, <2>1, <2>3, FirstStays
<1> QED BY <1>4, <1>6, <1>7, <1>8, <1>9, <1>10, <1>11 DEF Follows

\* The last label is cut back to an address, and no other changes.
Recut(symbols, others, section, address) ==
  /\ \A m \in DOMAIN symbols : (m = section.owner /\ section.owner # NoName) \/ others[m] = symbols[m]
  /\ section.owner # NoName => /\ symbols[section.owner] \in SymbolType
                               /\ others[section.owner] = Cut(symbols[section.owner], address)

\* Data with a label takes the rest of the section from the last.
LEMMA LabelsDeclared ==
  ASSUME NEW ls \in Seq(AnyLine), NEW line \in AnyLine, NEW ms, Fed(ls, line, ms), Placed(ls), line.k = "data", line.label # NoName,
         NEW n \in Nat, n = Len(ls), NEW symbols, Describes(ls, symbols), line.label \notin DOMAIN symbols,
         NEW section \in DataType, NEW s \in SectionsOf(ls), OpenAt(ls, s, section), Holds(ls, s, n),
         LabelsOf(ms, s) = LabelsOf(ls, s) \cup {n + 1},
         NEW p \in Nat, PlaceIn(ms, n + 1) = p, p <= ls[s].size, p = Sums(DataSizesOf(ls))[n] - Sums(DataSizesOf(ls))[s],
         NEW others, Recut(symbols, others, section, AddressOf(ls, s) + p), NEW i \in Labelled(ls)
  PROVE  AsDeclared(ms, i, others[ls[i].label])
<1>1. ls[i].label \in DOMAIN symbols /\ AsDeclared(ls, i, symbols[ls[i].label]) /\ ls[i].label # NoName
  BY DEF Describes, Labelled
<1>2. PICK t \in SectionsOf(ls) : t = HolderOf(ls, i) /\ i \in LabelsOf(ls, t) BY LabelledThere
<1>3. CASE t # s
  <2>1. ls[i].label # section.owner
    <3>1. SUFFICES ASSUME ls[i].label = section.owner PROVE FALSE
      OBVIOUS
    <3>2. PICK o \in LabelsOf(ls, s) : section.owner = ls[o].label BY <1>1, <3>1 DEF OpenAt
    <3>3. o \in Labelled(ls) /\ HolderOf(ls, o) = s BY LabelsPlaced
    <3>4. o = i BY <3>1, <3>2, <3>3 DEF Describes
    <3> QED BY <1>2, <1>3, <3>3, <3>4
  <2>2. others[ls[i].label] = symbols[ls[i].label] BY <1>1, <2>1 DEF Recut
  <2>3. LabelsOf(ms, t) = LabelsOf(ls, t)
    <3>1. HolderOf(ms, n + 1) = s BY HoldsOn
    <3>2. LabelsOf(ms, t) =
            LabelsOf(ls, t) \cup IF line.k = "data" /\ line.label # NoName /\ HolderOf(ms, Len(ls) + 1) = t
                                THEN {Len(ls) + 1} ELSE {}
      BY LabelsStay
    <3>3. HolderOf(ms, Len(ls) + 1) # t BY <1>3, <3>1
    <3> QED BY <3>2, <3>3
  <2>4. PICK symbol : symbol = symbols[ls[i].label]
    OBVIOUS
  <2>5. AsDeclared(ms, i, symbol) BY <1>1, <1>2, <2>3, <2>4, DeclaredStays
  <2> QED BY <2>2, <2>4, <2>5
<1>4. CASE t = s
  <2>1. section.owner # NoName BY <1>2, <1>4 DEF OpenAt
  <2>2. PICK o \in LabelsOf(ls, s) : section.owner = ls[o].label /\ \A j \in LabelsOf(ls, s) : j <= o BY <2>1 DEF OpenAt
  <2>3. o \in Labelled(ls) /\ Holds(ls, s, o) BY LabelsPlaced
  <2>4. PlaceIn(ls, o) <= p BY <2>3, PlacedBefore DEF Labelled
  <2>5. CASE i = o
    <3>1. PICK symbol \in SymbolType : symbol = symbols[section.owner] BY <2>1 DEF Recut
    <3>2. AsDeclared(ls, o, symbol) BY <1>1, <2>2, <2>5, <3>1
    <3>3. AsDeclared(ms, o, Cut(symbol, AddressOf(ls, s) + p)) BY <2>2, <2>4, <3>2, DeclaredCut
    <3>4. others[ls[i].label] = Cut(symbol, AddressOf(ls, s) + p) BY <2>1, <2>2, <2>5, <3>1 DEF Recut
    <3> QED BY <2>5, <3>3, <3>4
  <2>6. CASE i # o
    <3>1. ls[i].label # section.owner BY <2>2, <2>3, <2>6 DEF Describes
    <3>2. others[ls[i].label] = symbols[ls[i].label] BY <1>1, <3>1 DEF Recut
    <3>3. PICK symbol : symbol = symbols[ls[i].label]
      OBVIOUS
    <3>4. i \in LabelsOf(ls, s) /\ AsDeclared(ls, i, symbol) BY <1>1, <1>2, <1>4, <3>3
    <3>5. AsDeclared(ms, i, symbol) BY <2>2, <2>4, <2>6, <3>4, DeclaredBefore
    <3> QED BY <3>2, <3>3, <3>5
  <2> QED BY <2>5, <2>6
<1> QED BY <1>3, <1>4

\* Data with a label.
LEMMA LabelledFed ==
  ASSUME NEW ls \in Seq(AnyLine), NEW line \in AnyLine, NEW ms, Fed(ls, line, ms), line.k = "data", line.label # NoName,
         NEW symbols, NEW section \in DataType, NEW g, NEW c, Follows(ls, symbols, section, g, c),
         section.open, section.owner = NoName /\ section.kind = "GLOB" => section.pointer = section.begin,
         section.pointer + Len(line.words) <= section.end, line.label \notin DOMAIN symbols,
         NEW symbol, symbol.types = DeclareTypes(section.kind), symbol.value = Here(section),
         symbol.ownedWords = section.end - section.pointer,
         NEW others, DOMAIN others = DOMAIN symbols \cup {line.label}, others[line.label] = symbol,
         Recut(symbols, others, section, Here(section)),
         NEW new, new.open = section.open, new.kind = section.kind, new.begin = section.begin, new.end = section.end,
         new.pointer = section.pointer + Len(line.words), new.owner = line.label
  PROVE  Follows(ms, others, new, g, c)
<1>1. PICK n \in Nat : n = Len(ls) BY Appended
<1>2. Placed(ls) /\ Counted(ls, g, c) /\ Describes(ls, symbols) BY DEF Follows
<1>3. PICK k \in Nat : k = Len(line.words) BY LineParts
<1>4. PICK s \in SectionsOf(ls) : OpenAt(ls, s, section) BY DEF Follows
<1>5. PICK p : p = Sums(DataSizesOf(ls))[n] - Sums(DataSizesOf(ls))[s]
  OBVIOUS
<1>6. /\ Holds(ls, s, n) /\ s \in 1 .. n /\ p \in Nat /\ section.pointer = section.begin + p
      /\ p + k <= ls[s].size /\ section.end - section.pointer = ls[s].size - p
  BY <1>1, <1>3, <1>4, <1>5, DataRoom
<1>7. Placed(ms) BY <1>1, <1>2, <1>3, <1>5, <1>6, PlacedAppended
<1>8. SectionsOf(ms) = SectionsOf(ls)
  <2>1. SectionsOf(ms) = SectionsOf(ls) \cup IF line.k = "section" THEN {n + 1} ELSE {} BY <1>1, KindsAppended
  <2>2. line.k # "section"
    OBVIOUS
  <2> QED BY <2>1, <2>2
<1>9. Counted(ms, g, c)
  <2>1. g \in Nat /\ c \in Int /\ Counted(ms, g + GlobalSizesOf(ms)[n + 1], c - ConstantSizesOf(ms)[n + 1])
    BY <1>1, <1>2, CountedAppended
  <2>2. GlobalSizesOf(ms)[n + 1] = 0 /\ ConstantSizesOf(ms)[n + 1] = 0 BY <1>1, SizesAppended
  <2>3. g + 0 = g /\ c - 0 = c BY <2>1
  <2> QED BY <2>1, <2>2, <2>3
<1>10. OpenAt(ms, s, new)
  <2>1. DataSizesOf(ms)[n + 1] = Len(line.words) BY <1>1, SizesAppended
  <2>2. new.pointer = section.pointer + DataSizesOf(ms)[n + 1] BY <2>1
  <2>3. new.owner = IF line.k = "data" /\ line.label # NoName THEN line.label ELSE section.owner
    OBVIOUS
  <2> QED BY <1>1, <1>2, <1>4, <2>2, <2>3, OpenFed
<1>11. HolderOf(ms, n + 1) = s
  <2>1. line.k # "section"
    OBVIOUS
  <2>2. Holds(ls, s, n) BY <1>6
  <2>3. n = Len(ls) BY <1>1
  <2>4. Holds(ms, s, n + 1) BY <2>1, <2>2, <2>3, HoldsOn
  <2>5. ms \in Seq(AnyLine) BY Appended
  <2> QED BY <2>4, <2>5, HolderIs
<1>12. PlaceIn(ms, n + 1) = p BY <1>1, <1>5, <1>6, DataPlace
<1>13. LabelsOf(ms, s) = LabelsOf(ls, s) \cup {n + 1}
  <2>1. LabelsOf(ms, s) =
          LabelsOf(ls, s) \cup IF line.k = "data" /\ line.label # NoName /\ HolderOf(ms, n + 1) = s THEN {n + 1} ELSE {}
    BY <1>1, <1>2, LabelsStay
  <2>2. line.k = "data" /\ line.label # NoName
    OBVIOUS
  <2> QED BY <1>11, <2>1, <2>2
<1>14. /\ s \in SectionsOf(ls) /\ ls[s].size \in Nat /\ AddressOf(ls, s) \in Int /\ section.kind = ls[s].kind
       /\ First(section) = AddressOf(ls, s)
  <2>1. Holds(ls, s, s) BY HoldsItself
  <2>2. s \in 1 .. Len(ls) BY <1>1, <1>6
  <2> QED BY <1>4, <2>1, <2>2, PlacesTyped DEF OpenAt
<1>15. Here(section) = AddressOf(ls, s) + p
  <2>1. section.pointer \in Int /\ section.begin \in Int BY DEF DataType
  <2>2. makeGAZLPointer(section.pointer, section.kind) =
          makeGAZLPointer(section.begin, section.kind) + (section.pointer - section.begin)
    BY <2>1, PointerFacts
  <2>3. section.pointer - section.begin = p BY <1>6, <2>1
  <2> QED BY <1>14, <2>2, <2>3 DEF Here, First
<1>16. p <= ls[s].size BY <1>3, <1>6, <1>14
<1>17. Describes(ms, others)
  <2>1. \A i \in Labelled(ls) : AsDeclared(ms, i, others[ls[i].label])
    <3> TAKE i \in Labelled(ls)
    <3>1. Recut(symbols, others, section, AddressOf(ls, s) + p) BY <1>15
    <3> QED BY <1>1, <1>2, <1>4, <1>5, <1>6, <1>12, <1>13, <1>16, <3>1, LabelsDeclared
  <2>2. AsDeclared(ms, n + 1, symbol)
    <3>1. PICK size \in Nat : size = ls[s].size BY <1>14
    <3>2. symbol.types = DeclareTypes(ls[s].kind) /\ symbol.value = AddressOf(ls, s) + p /\ symbol.ownedWords = size - p
      BY <1>6, <1>14, <1>15, <3>1
    <3>3. p <= size /\ p \in Nat BY <1>6, <1>16, <3>1
    <3> QED BY <1>1, <1>2, <1>6, <1>12, <1>13, <1>14, <3>1, <3>2, <3>3, DataDeclared
  <2>3. \A m \in DOMAIN symbols : others[m].types = symbols[m].types
    <3> TAKE m \in DOMAIN symbols
    <3>1. CASE m = section.owner /\ section.owner # NoName
      <4>1. PICK named \in SymbolType : named = symbols[m] BY <3>1 DEF Recut
      <4>2. PICK address \in Int : address = Here(section) BY <1>6, <1>14, <1>15
      <4>3. Cut(named, address).types = named.types BY CutFacts
      <4>4. others[m] = Cut(named, address) BY <3>1, <4>1, <4>2 DEF Recut
      <4> QED BY <4>1, <4>3, <4>4
    <3>2. CASE others[m] = symbols[m] BY <3>2
    <3> QED BY <3>1, <3>2 DEF Recut
  <2> QED BY <1>1, <1>2, <2>1, <2>2, <2>3, NameJoins
<1>18. ASSUME NEW t \in SectionsOf(ms), ms[t].kind = "GLOB" PROVE FirstLabelled(ms, t)
  <2>1. t \in SectionsOf(ls) BY <1>8
  <2>2. ls[t].kind = "GLOB" BY <1>18, <2>1, AddressesStay
  <2>3. CASE FirstLabelled(ls, t) BY <1>2, <2>1, <2>3, FirstStays
  <2>4. CASE Waiting(ls, t, section)
    <3>1. Holds(ls, t, n) /\ section.owner = NoName /\ section.kind = "GLOB" BY <1>1, <2>4 DEF Waiting
    <3>2. HolderOf(ls, n) = t /\ HolderOf(ls, n) = s BY <1>6, <3>1, HolderIs
    <3>3. p = 0
      <4>1. section.pointer = section.begin /\ section.begin \in Int BY <3>1 DEF DataType
      <4> QED BY <1>6, <4>1
    <3>4. n + 1 \in LabelsOf(ms, t) /\ PlaceIn(ms, n + 1) = 0 BY <1>12, <1>13, <3>2, <3>3
    <3> QED BY <3>4 DEF FirstLabelled
  <2> QED BY <2>1, <2>2, <2>3, <2>4 DEF Follows
<1> QED BY <1>4, <1>7, <1>8, <1>9, <1>10, <1>17, <1>18 DEF Follows

-----------------------------------------------------------------------------
(***************************************************************************)
(* What the assembler keeps.                                               *)
(***************************************************************************)
LInv ==
  /\ status \in {"feeding", "done"} => Follows(lines, globals, data, globalsPointer, constantsPointer)
  /\ status = "done" => \A s \in SectionsOf(lines) : lines[s].kind = "GLOB" => FirstLabelled(lines, s)

\* Before the first line there is nothing.
LEMMA StartFollows == Start => LInv
<1> SUFFICES ASSUME Start PROVE LInv
  OBVIOUS
<1>1. lines = <<>> /\ globals = Predefined /\ globalsPointer = 0 /\ constantsPointer = maxMemorySize - 1 /\ data = NoSection
      /\ status = "feeding"
  BY DEF Start
<1>2. lines \in Seq(AnyLine) /\ Len(lines) = 0 /\ DOMAIN lines = {} BY <1>1
<1>3. SectionsOf(lines) = {} /\ DataOf(lines) = {} /\ Labelled(lines) = {}
  BY <1>2 DEF SectionsOf, DataOf, Labelled
<1>4. Counted(lines, globalsPointer, constantsPointer)
  <2>1. GlobalSizesOf(lines) \in Seq(Nat) /\ ConstantSizesOf(lines) \in Seq(Nat) BY <1>2, SizesTyped
  <2>2. Sums(GlobalSizesOf(lines))[0] = 0 BY <2>1, SumsAdd DEF Adds
  <2>3. Sums(ConstantSizesOf(lines))[0] = 0 BY <2>1, SumsAdd DEF Adds
  <2>4. maxMemorySize \in Nat BY Sizes
  <2> QED BY <1>1, <1>2, <2>2, <2>3, <2>4 DEF Counted
<1>5. \A n \in DOMAIN globals : ~isData(globals[n].types)
  <2> TAKE n \in DOMAIN globals
  <2>1. n \in {"NULL", "GAZL_VERSION"} BY <1>1 DEF Predefined
  <2>2. globals[n].types \in {{"NULL_PTR"}, {"CONST_INT"}} BY <1>1, <2>1 DEF Predefined, Symbol
  <2> QED BY <2>2 DEF isData, ADDRESS
<1>6. Describes(lines, globals) BY <1>3, <1>5 DEF Describes
<1>7. Placed(lines) BY <1>3 DEF Placed
<1>8. ~data.open BY <1>1 DEF NoSection
<1>9. Follows(lines, globals, data, globalsPointer, constantsPointer) BY <1>3, <1>4, <1>6, <1>7, <1>8 DEF Follows
<1> QED BY <1>1, <1>9 DEF LInv

\* What a line that is refused leaves is not looked at.
LEMMA RefusedFollows ==
  ASSUME NEW error, error \notin {"done", "feeding"}, Refuses(error)
  PROVE  LInv'
BY DEF Refuses, LInv

\* A line that defines no data.
LEMMA OtherFollows ==
  ASSUME SInv, LInv, status = "feeding", NEW line \in AnyLine, line.k \notin {"section", "data"}, lines' = Append(lines, line),
         DOMAIN globals \subseteq DOMAIN globals', \A n \in DOMAIN globals : globals'[n] = globals[n],
         \A n \in DOMAIN globals' : n \in DOMAIN globals \/ ~isData(globals'[n].types),
         line.k = "switch" => constantsPointer' = constantsPointer - (line.cases + 1),
         line.k # "switch" => constantsPointer' = constantsPointer,
         UNCHANGED <<data, globalsPointer, status>>
  PROVE  LInv'
<1>1. lines \in Seq(AnyLine) /\ data \in DataType BY DEF SInv, SectionsType
<1>2. Follows(lines, globals, data, globalsPointer, constantsPointer) BY DEF LInv
<1>3. PICK ms : ms = lines'
  OBVIOUS
<1>4. PICK others : others = globals'
  OBVIOUS
<1>5. PICK d : d = constantsPointer'
  OBVIOUS
<1>6. Fed(lines, line, ms) BY <1>3 DEF Fed
<1>7. /\ DOMAIN globals \subseteq DOMAIN others /\ \A n \in DOMAIN globals : others[n] = globals[n]
      /\ \A n \in DOMAIN others : n \in DOMAIN globals \/ ~isData(others[n].types)
  BY <1>4
<1>8. /\ line.k = "switch" => d = constantsPointer - (line.cases + 1)
      /\ line.k # "switch" => d = constantsPointer
  BY <1>5
<1>9. Follows(ms, others, data, globalsPointer, d) BY <1>1, <1>2, <1>6, <1>7, <1>8, OtherFed
<1> QED BY <1>3, <1>4, <1>5, <1>9 DEF LInv

\* A name that is not data's joins.
LEMMA NameJoined ==
  ASSUME NEW symbols, NEW name, name \notin DOMAIN symbols, NEW symbol, ~isData(symbol.types),
         NEW others, others = With(symbols, name, symbol)
  PROVE  /\ DOMAIN symbols \subseteq DOMAIN others /\ \A n \in DOMAIN symbols : others[n] = symbols[n]
         /\ \A n \in DOMAIN others : n \in DOMAIN symbols \/ ~isData(others[n].types)
BY DEF With

\* Another section.
LEMMA SectionFollows ==
  ASSUME SInv, LInv, status = "feeding", NEW line \in AnyLine, line.k = "section", lines' = Append(lines, line),
         SectionError(line) = "none", NEW begin, NEW h, NEW d, Taken(line, globalsPointer, constantsPointer, begin, h, d),
         globalsPointer' = h, constantsPointer' = d,
         data' = [open |-> TRUE, kind |-> line.kind, pointer |-> begin, begin |-> begin, end |-> begin + line.size,
                  owner |-> line.label],
         globals' = With(globals, line.label, DataSymbol(begin, line.size, line.kind, begin, begin + line.size)),
         status' = status
  PROVE  LInv'
<1>1. lines \in Seq(AnyLine) BY DEF SInv, SectionsType
<1>2. Follows(lines, globals, data, globalsPointer, constantsPointer) BY DEF LInv
<1>3. PICK ms : ms = lines'
  OBVIOUS
<1>4. PICK others : others = globals'
  OBVIOUS
<1>5. PICK new : new = data'
  OBVIOUS
<1>6. Fed(lines, line, ms) BY <1>3 DEF Fed
<1>7. globalsPointer \in Nat /\ constantsPointer \in Int BY DEF SInv, SectionsType, Pointers
<1>8. line.kind \in {"GLOB", "TEMP", "CNST"} /\ line.label \in Labels \cup {NoName} /\ line.size \in Nat BY LineParts
<1>9. begin \in Int BY <1>7, <1>8 DEF Taken
<1>10. ~(data.open /\ unownedRefused) /\ line.label \notin defined
  BY <1>7, <1>8 DEF SectionError
<1>11. ~(data.open /\ data.owner = NoName /\ data.kind = "GLOB") BY <1>10 DEF unownedRefused
<1>12. PICK symbol : symbol = DataSymbol(begin, line.size, line.kind, begin, begin + line.size)
  OBVIOUS
<1>13. /\ symbol.types = DeclareTypes(line.kind) /\ symbol.value = makeGAZLPointer(begin, line.kind)
       /\ symbol.ownedWords = line.size
  <2>1. (begin + line.size) - begin = line.size BY <1>8, <1>9
  <2> QED BY <1>12, <2>1 DEF DataSymbol
<1>14. others = With(globals, line.label, symbol) BY <1>4, <1>12
<1>15. line.label = NoName => others = globals BY <1>14 DEF With
<1>16. line.label # NoName => /\ DOMAIN others = DOMAIN globals \cup {line.label} /\ others[line.label] = symbol
                              /\ \A m \in DOMAIN globals : others[m] = globals[m]
  BY <1>10, <1>14 DEF With, defined
<1>17. /\ new.open /\ new.kind = line.kind /\ new.pointer = begin /\ new.begin = begin /\ new.end = begin + line.size
       /\ new.owner = line.label
  BY <1>5
<1>18. Follows(ms, others, new, h, d)
  BY <1>1, <1>2, <1>6, <1>10, <1>11, <1>13, <1>15, <1>16, <1>17, SectionFed DEF defined
<1> QED BY <1>3, <1>4, <1>5, <1>18 DEF LInv

\* The open section with more data in it.
LEMMA DataPointed ==
  ASSUME NEW section \in DataType, NEW last, NEW label
  PROVE  /\ LET new == [section EXCEPT !.pointer = last]
            IN  /\ new.open = section.open /\ new.kind = section.kind /\ new.begin = section.begin /\ new.end = section.end
                /\ new.owner = section.owner /\ new.pointer = last
         /\ LET new == [section EXCEPT !.pointer = last, !.owner = label]
            IN  /\ new.open = section.open /\ new.kind = section.kind /\ new.begin = section.begin /\ new.end = section.end
                /\ new.owner = label /\ new.pointer = last
BY DEF DataType

\* Data without a label.
LEMMA UnlabelledFollows ==
  ASSUME SInv, LInv, status = "feeding", NEW line \in AnyLine, line.k = "data", lines' = Append(lines, line),
         DataError(line) = "none", line.label = NoName, globals' = globals,
         data' = [data EXCEPT !.pointer = data.pointer + Len(line.words)],
         UNCHANGED <<globalsPointer, constantsPointer, status>>
  PROVE  LInv'
<1>1. lines \in Seq(AnyLine) /\ data \in DataType BY DEF SInv, SectionsType
<1>2. Follows(lines, globals, data, globalsPointer, constantsPointer) BY DEF LInv
<1>3. PICK ms : ms = lines'
  OBVIOUS
<1>4. PICK new : new = data'
  OBVIOUS
<1>5. Fed(lines, line, ms) BY <1>3 DEF Fed
<1>6. /\ data.open /\ data.pointer + Len(line.words) <= data.end
      /\ data.owner = NoName => data.kind # "GLOB"
  BY DataAccepted
<1>7. /\ new.open = data.open /\ new.kind = data.kind /\ new.begin = data.begin /\ new.end = data.end
      /\ new.owner = data.owner /\ new.pointer = data.pointer + Len(line.words)
  BY <1>1, <1>4, DataPointed
<1>8. Follows(ms, globals, new, globalsPointer, constantsPointer) BY <1>1, <1>2, <1>5, <1>6, <1>7, UnlabelledFed
<1> QED BY <1>3, <1>4, <1>8 DEF LInv

\* Data with a label.
LEMMA LabelledFollows ==
  ASSUME SInv, LInv, status = "feeding", NEW line \in AnyLine, line.k = "data", lines' = Append(lines, line),
         DataError(line) = "none", line.label # NoName,
         globals' = OwnedUpTo(With(globals, line.label,
                                   DataSymbol(data.pointer, Len(line.words), data.kind, data.begin, data.end)),
                              line.label, data.pointer),
         data' = [data EXCEPT !.pointer = data.pointer + Len(line.words), !.owner = line.label],
         UNCHANGED <<globalsPointer, constantsPointer, status>>
  PROVE  LInv'
<1>1. lines \in Seq(AnyLine) /\ data \in DataType BY DEF SInv, SectionsType
<1>2. Follows(lines, globals, data, globalsPointer, constantsPointer) BY DEF LInv
<1>3. PICK ms : ms = lines'
  OBVIOUS
<1>4. PICK others : others = globals'
  OBVIOUS
<1>5. PICK new : new = data'
  OBVIOUS
<1>6. Fed(lines, line, ms) BY <1>3 DEF Fed
<1>7. data.open /\ data.pointer + Len(line.words) <= data.end /\ line.label \notin defined BY DataAccepted
<1>8. line.label \in Labels BY LineParts
<1>9. PICK symbol : symbol = DataSymbol(data.pointer, Len(line.words), data.kind, data.begin, data.end)
  OBVIOUS
<1>10. /\ symbol.types = DeclareTypes(data.kind) /\ symbol.value = Here(data) /\ symbol.ownedWords = data.end - data.pointer
       /\ symbol.minOffset = data.begin - data.pointer
  BY <1>9 DEF DataSymbol, Here
<1>11. /\ defined' = defined \cup {line.label}
       /\ globals'[line.label] = symbol
       /\ \A n \in defined : (n = data.owner /\ data.owner # NoName) \/ globals'[n] = globals[n]
       /\ data.owner # NoName => globals'[data.owner] = Cut(globals[data.owner], Here(data))
  <2>1. globals' = OwnedUpTo(With(globals, line.label, symbol), line.label, data.pointer) BY <1>9
  <2> QED BY <1>7, <1>8, <1>10, <2>1, LabelDeclared
<1>12. data.owner # NoName => globals[data.owner] \in SymbolType
  <2>1. data.owner # NoName => data.owner \in defined BY <1>7 DEF SInv, SectionOwned, DataNames
  <2> QED BY <2>1 DEF SInv, SectionsType
<1>13. Recut(globals, others, data, Here(data)) BY <1>4, <1>11, <1>12 DEF Recut, defined
<1>14. DOMAIN others = DOMAIN globals \cup {line.label} /\ others[line.label] = symbol BY <1>4, <1>11 DEF defined
<1>15. data.owner = NoName /\ data.kind = "GLOB" => data.pointer = data.begin
  BY <1>7 DEF SInv, SectionOwned, Unclaimed
<1>16. /\ new.open = data.open /\ new.kind = data.kind /\ new.begin = data.begin /\ new.end = data.end
       /\ new.owner = line.label /\ new.pointer = data.pointer + Len(line.words)
  BY <1>1, <1>5, DataPointed
<1>17. line.label \notin DOMAIN globals BY <1>7 DEF defined
<1>18. Follows(ms, others, new, globalsPointer, constantsPointer)
  BY <1>1, <1>2, <1>6, <1>7, <1>10, <1>13, <1>14, <1>15, <1>16, <1>17, LabelledFed
<1> QED BY <1>3, <1>4, <1>5, <1>18 DEF LInv

\* A line that defines a name that is not data's.
LEMMA NamedFollows ==
  ASSUME SInv, LInv, status = "feeding", NEW line \in AnyLine, line.k \in {"DEFp", "FUNC"}, lines' = Append(lines, line),
         line.label \notin defined, NEW symbol, ~isData(symbol.types), globals' = With(globals, line.label, symbol),
         UNCHANGED <<globalsPointer, constantsPointer, data, status>>
  PROVE  LInv'
<1>1. PICK others : others = globals'
  OBVIOUS
<1>2. line.label \notin DOMAIN globals /\ others = With(globals, line.label, symbol) BY <1>1 DEF defined
<1>3. /\ DOMAIN globals \subseteq DOMAIN others /\ \A n \in DOMAIN globals : others[n] = globals[n]
      /\ \A n \in DOMAIN others : n \in DOMAIN globals \/ ~isData(others[n].types)
  BY <1>2, NameJoined
<1>4. line.k \notin {"section", "data"} /\ line.k # "switch"
  OBVIOUS
<1> QED BY <1>1, <1>3, <1>4, OtherFollows

\* A line that defines nothing.
LEMMA NamelessFollows ==
  ASSUME SInv, LInv, status = "feeding", NEW line \in AnyLine, line.k \in {"ADDp", "use", "switch", "unit"},
         lines' = Append(lines, line),
         line.k = "switch" => constantsPointer' = constantsPointer - (line.cases + 1),
         line.k # "switch" => constantsPointer' = constantsPointer,
         UNCHANGED <<globalsPointer, globals, data, status>>
  PROVE  LInv'
<1>1. line.k \notin {"section", "data"}
  OBVIOUS
<1>2. /\ DOMAIN globals \subseteq DOMAIN globals' /\ \A n \in DOMAIN globals : globals'[n] = globals[n]
      /\ \A n \in DOMAIN globals' : n \in DOMAIN globals \/ ~isData(globals'[n].types)
  OBVIOUS
<1> QED BY <1>1, <1>2, OtherFollows

\* Each line.
LEMMA LineFollows ==
  ASSUME SInv, LInv, Len(lines) < Len(program), NEW line \in program[Len(lines) + 1], Line(line)
  PROVE  LInv'
<1>1. SectionsType BY DEF SInv
<1>2. line \in AnyLine BY <1>1, LineTyped
<1>3. lines' = Append(lines, line) /\ status = "feeding"
  BY DEF Line, SectionLine, DataLine, DefpLine, AddpLine, UseLine, SwitchLine, FuncLine, NewUnit, Feeding
<1>4. CASE SectionLine(line)
  <2>1. CASE Refuses(SectionError(line)) BY <1>2, <2>1, LineErrors, RefusedFollows
  <2>2. CASE SectionError(line) = "none" /\ ~Refuses(SectionError(line))
    <3> DEFINE begin == IF line.kind = "CNST" THEN constantsPointer - line.size ELSE globalsPointer
               h == IF line.kind = "CNST" THEN globalsPointer ELSE begin + line.size
               d == IF line.kind = "CNST" THEN begin ELSE constantsPointer
    <3>1. line.k = "section" BY <1>4 DEF SectionLine
    <3>2. /\ globalsPointer' = h /\ constantsPointer' = d
          /\ data' = [open |-> TRUE, kind |-> line.kind, pointer |-> begin, begin |-> begin,
                      end |-> begin + line.size, owner |-> line.label]
          /\ globals' = With(globals, line.label, DataSymbol(begin, line.size, line.kind, begin, begin + line.size))
          /\ status' = status
      BY <1>4, <2>2 DEF SectionLine
    <3>3. Taken(line, globalsPointer, constantsPointer, begin, h, d) BY DEF Taken
    <3> HIDE DEF begin, h, d
    <3> QED BY <1>2, <1>3, <2>2, <3>1, <3>2, <3>3, SectionFollows
  <2> QED BY <1>4, <2>1, <2>2 DEF SectionLine
<1>5. CASE DataLine(line)
  <2>1. line.k = "data" BY <1>5 DEF DataLine
  <2>2. CASE Refuses(DataError(line)) BY <1>2, <2>1, <2>2, LineErrors, RefusedFollows
  <2>3. CASE DataError(line) = "none" /\ ~Refuses(DataError(line))
    <3>1. UNCHANGED <<globalsPointer, constantsPointer, status>> BY <1>5, <2>3 DEF DataLine
    <3>2. CASE line.label = NoName
      <4>1. globals' = globals /\ data' = [data EXCEPT !.pointer = data.pointer + Len(line.words)]
        BY <1>5, <2>3, <3>2 DEF DataLine
      <4> QED BY <1>2, <1>3, <2>1, <2>3, <3>1, <3>2, <4>1, UnlabelledFollows
    <3>3. CASE line.label # NoName
      <4>1. /\ globals' = OwnedUpTo(With(globals, line.label,
                                         DataSymbol(data.pointer, Len(line.words), data.kind, data.begin, data.end)),
                                    line.label, data.pointer)
            /\ data' = [data EXCEPT !.pointer = data.pointer + Len(line.words), !.owner = line.label]
        BY <1>5, <2>3, <3>3 DEF DataLine
      <4> QED BY <1>2, <1>3, <2>1, <2>3, <3>1, <3>3, <4>1, LabelledFollows
    <3> QED BY <3>2, <3>3
  <2> QED BY <1>5, <2>2, <2>3 DEF DataLine
<1>6. CASE DefpLine(line)
  <2>1. CASE Refuses(DefpError(line)) BY <1>2, <2>1, LineErrors, RefusedFollows
  <2>2. CASE ~Refuses(DefpError(line))
    <3>1. /\ line.k = "DEFp" /\ DefpError(line) = "none" /\ globals' = With(globals, line.label, PointerConstant(line.operand))
          /\ UNCHANGED <<globalsPointer, constantsPointer, data, status>>
      BY <1>6, <2>2 DEF DefpLine
    <3>2. line.label \notin defined BY <3>1 DEF DefpError
    <3>3. ~isData(PointerConstant(line.operand).types)
      <4>1. "POINTER_CONSTANT" \in PointerConstant(line.operand).types BY DEF PointerConstant, Symbol
      <4> QED BY <4>1 DEF isData
    <3> QED BY <1>2, <1>3, <3>1, <3>2, <3>3, NamedFollows
  <2> QED BY <2>1, <2>2
<1>7. CASE AddpLine(line)
  <2>1. CASE Refuses(ReadError(line.operand, FREE_ADDRESS)) BY <2>1, OperandErrors, RefusedFollows
  <2>2. CASE ~Refuses(ReadError(line.operand, FREE_ADDRESS))
    <3>1. line.k = "ADDp" /\ UNCHANGED <<globalsPointer, constantsPointer, globals, data, status>>
      BY <1>7, <2>2 DEF AddpLine
    <3> QED BY <1>2, <1>3, <3>1, NamelessFollows
  <2> QED BY <2>1, <2>2
<1>8. CASE UseLine(line)
  <2>1. CASE Refuses(UseError(line)) BY <1>2, <2>1, LineErrors, RefusedFollows
  <2>2. CASE ~Refuses(UseError(line))
    <3>1. line.k = "use" /\ UNCHANGED <<globalsPointer, constantsPointer, globals, data, status>>
      BY <1>8, <2>2 DEF UseLine
    <3> QED BY <1>2, <1>3, <3>1, NamelessFollows
  <2> QED BY <2>1, <2>2
<1>9. CASE SwitchLine(line)
  <2>1. CASE Refuses(SwitchError(line)) BY <1>2, <2>1, LineErrors, RefusedFollows
  <2>2. CASE ~Refuses(SwitchError(line))
    <3>1. /\ line.k = "switch" /\ constantsPointer' = constantsPointer - line.cases - 1
          /\ UNCHANGED <<globalsPointer, globals, data, status>>
      BY <1>9, <2>2 DEF SwitchLine
    <3>2. line.cases \in Nat /\ constantsPointer \in Int BY <1>1, <1>2, <3>1, LineParts DEF SectionsType, Pointers
    <3>3. constantsPointer - line.cases - 1 = constantsPointer - (line.cases + 1) BY <3>2
    <3> QED BY <1>2, <1>3, <3>1, <3>3, NamelessFollows
  <2> QED BY <2>1, <2>2
<1>10. CASE FuncLine(line)
  <2>1. CASE Refuses(FuncError(line)) BY <1>2, <2>1, LineErrors, RefusedFollows
  <2>2. CASE ~Refuses(FuncError(line))
    <3> DEFINE symbol == Symbol({"FUNC"}, Plus(FUNCTION_OFFSET, code.functions), 1)
    <3>1. /\ line.k = "FUNC" /\ FuncError(line) = "none" /\ globals' = With(globals, line.label, symbol)
          /\ UNCHANGED <<globalsPointer, constantsPointer, data, status>>
      BY <1>10, <2>2 DEF FuncLine
    <3>2. ~isData(symbol.types) BY DEF isData, Symbol, ADDRESS
    <3>3. line.label \notin defined BY <3>1 DEF FuncError
    <3> HIDE DEF symbol
    <3> QED BY <1>2, <1>3, <3>1, <3>2, <3>3, NamedFollows
  <2> QED BY <2>1, <2>2
<1>11. CASE NewUnit(line)
  <2>1. line.k = "unit" /\ UNCHANGED <<globalsPointer, constantsPointer, globals, data, status>> BY <1>11 DEF NewUnit
  <2> QED BY <1>2, <1>3, <2>1, NamelessFollows
<1> QED BY <1>4, <1>5, <1>6, <1>7, <1>8, <1>9, <1>10, <1>11 DEF Line

\* A step that leaves what is said of the lines as it was.
LEMMA FollowsStays ==
  ASSUME LInv, UNCHANGED <<lines, globals, data, globalsPointer, constantsPointer, status>>
  PROVE  LInv'
BY DEF LInv

\* finalize refuses an open GLOB section without a label.
LEMMA FinalizeFollows ==
  ASSUME SInv, LInv, Finalize
  PROVE  LInv'
<1>1. status = "feeding" /\ lines' = lines BY DEF Finalize
<1>2. CASE Refuses(FinalizeError) BY <1>2, ForwardsResolved, RefusedFollows
<1>3. CASE ~Refuses(FinalizeError)
  <2>1. /\ FinalizeError = "none" /\ status' = "done"
        /\ UNCHANGED <<globalsPointer, constantsPointer, globals, data>>
    BY <1>3 DEF Finalize
  <2>2. Follows(lines, globals, data, globalsPointer, constantsPointer) BY <1>1 DEF LInv
  <2>3. ~(data.open /\ data.owner = NoName /\ data.kind = "GLOB") BY <2>1 DEF FinalizeError, unownedRefused
  <2>4. \A s \in SectionsOf(lines) : lines[s].kind = "GLOB" => FirstLabelled(lines, s)
    <3> TAKE s \in SectionsOf(lines)
    <3>1. data.open BY <2>2 DEF Follows
    <3>2. ~Waiting(lines, s, data) BY <2>3, <3>1 DEF Waiting
    <3> QED BY <2>2, <3>2 DEF Follows
  <2> QED BY <1>1, <2>1, <2>2, <2>4 DEF LInv
<1> QED BY <1>2, <1>3

\* One step of assembly.
LEMMA AssemblyFollows == SInv /\ LInv /\ [Next]_vars => LInv'
<1> SUFFICES ASSUME SInv, LInv, [Next]_vars PROVE LInv'
  OBVIOUS
<1>1. CASE \E line \in program[Len(lines) + 1] : Len(lines) < Len(program) /\ Line(line) BY <1>1, LineFollows
<1>2. CASE Finalize BY <1>2, FinalizeFollows
<1>3. CASE UNCHANGED vars BY <1>3, FollowsStays DEF vars
<1> QED BY <1>1, <1>2, <1>3 DEF Next

\* Running and thawing leave the program as it was assembled.
LEMMA ProgramKept ==
  ASSUME RunProgram \/ ThawHeader \/ ThawEntry \/ ThawValidate \/ ThawWalk
  PROVE  UNCHANGED <<lines, globals, data, globalsPointer, constantsPointer, status>>
<1>1. CASE ThawHeader BY <1>1 DEF ThawHeader, vars
<1>2. CASE ThawEntry BY <1>2 DEF ThawEntry, Thawing
<1>3. CASE ThawValidate BY <1>3 DEF ThawValidate, Thawing
<1>4. CASE ThawWalk BY <1>4 DEF ThawWalk, Thawing
<1>5. CASE RunProgram BY <1>5 DEF RunProgram
<1> QED BY <1>1, <1>2, <1>3, <1>4, <1>5

\* The assembler follows its lines, whatever a host does with the program it has assembled.
THEOREM LinesFollowed == FrozenSpec => []LInv
<1>1. ASSUME FInv, LInv, [FrozenNext]_thawVars PROVE LInv'
  <2>1. SInv BY <1>1 DEF FInv, Assembled
  <2>2. CASE Assemble BY <1>1, <2>1, <2>2, AssemblyFollows DEF Assemble
  <2>3. CASE Restart
    <3>1. program' \in Seq(SUBSET AnyLine)
      <4>1. program \in Programs BY <1>1, <2>3 DEF FInv, Restart
      <4> QED BY <2>3, <4>1, FrozenAssumption DEF Restart
    <3>2. Start' BY <2>3, <3>1 DEF Restart, Start
    <3> QED BY <3>2, StartFollows, PTL
  <2>4. CASE \/ freezeMemorySize \/ freezeMemory \/ RunProgram
             \/ ThawHeader \/ ThawEntry \/ ThawValidate \/ ThawWalk \/ UNCHANGED thawVars
    <3>1. CASE freezeMemorySize \/ freezeMemory \/ UNCHANGED thawVars
      <4>1. UNCHANGED vars BY <3>1 DEF freezeMemorySize, freezeMemory, thawVars
      <4> QED BY <1>1, <4>1, FollowsStays DEF vars
    <3>2. CASE RunProgram \/ ThawHeader \/ ThawEntry \/ ThawValidate \/ ThawWalk
      <4>1. UNCHANGED <<lines, globals, data, globalsPointer, constantsPointer, status>>
        BY <3>2, ProgramKept
      <4> QED BY <1>1, <4>1, FollowsStays
    <3> QED BY <2>4, <3>1, <3>2
  <2> QED BY <1>1, <2>2, <2>3, <2>4 DEF FrozenNext
<1>2. FrozenInit => LInv
  <2> SUFFICES ASSUME FrozenInit PROVE LInv
    OBVIOUS
  <2>1. Init /\ program \in Programs BY DEF FrozenInit, Init
  <2>2. Start BY <2>1, SectionsAssumption DEF Init, Start
  <2> QED BY <2>2, StartFollows
<1> QED BY <1>1, <1>2, FrozenInvariant, PTL DEF FrozenSpec

-----------------------------------------------------------------------------
(***************************************************************************)
(* The words of a section belong to its labels.                            *)
(***************************************************************************)
\* A set of lines that is not empty has a last one.
LEMMA GreatestNumber ==
  ASSUME NEW n \in Nat, NEW S \in SUBSET (1 .. n), S # {}
  PROVE  \E g \in S : \A m \in S : m <= g
<1> DEFINE T == {n - i : i \in S}
<1>1. T \in SUBSET Nat /\ T # {}
  <2>1. \A i \in S : n - i \in Nat
    OBVIOUS
  <2>2. PICK i \in S : TRUE
    OBVIOUS
  <2>3. n - i \in T
    OBVIOUS
  <2> QED BY <2>1, <2>3
<1>2. PICK t \in T : \A u \in T : t <= u
  <2> HIDE DEF T
  <2> QED BY <1>1, LeastNumber
<1>3. PICK g \in S : t = n - g
  OBVIOUS
<1>4. ASSUME NEW m \in S PROVE m <= g
  <2>1. n - m \in T
    OBVIOUS
  <2>2. t <= n - m BY <1>2, <2>1
  <2>3. m \in 1 .. n /\ g \in 1 .. n
    OBVIOUS
  <2> QED BY <1>3, <2>2, <2>3
<1> QED BY <1>4

\* What is said of the lines fed.
LEMMA SourceIs ==
  /\ SectionLines = SectionsOf(lines)
  /\ \A i : PlaceOf(i) = PlaceIn(lines, i)
  /\ \A s : LabelsIn(s) = LabelsOf(lines, s)
<1>1. SectionLines = SectionsOf(lines) BY DEF SectionLines, Lines, SectionsOf
<1>2. Lines({"data"}) = DataOf(lines) BY DEF Lines, DataOf
<1>3. DataSizes = DataSizesOf(lines) BY DEF DataSizes, DataSizesOf
<1>4. \A i : SectionAt(i) = HolderOf(lines, i) BY <1>1 DEF SectionAt, HolderOf
<1>5. \A i : PlaceOf(i) = PlaceIn(lines, i) BY <1>1, <1>3, <1>4 DEF PlaceOf, PlaceIn
<1>6. \A s : LabelsIn(s) = LabelsOf(lines, s) BY <1>2, <1>4 DEF LabelsIn, DataIn, LabelsOf
<1> QED BY <1>1, <1>5, <1>6

\* A place has the label it should have, and when the section's first place has one, it has.
LEMMA PlaceOwned ==
  ASSUME NEW ls \in Seq(AnyLine), NEW symbols, Placed(ls), Describes(ls, symbols), NEW s \in SectionsOf(ls),
         NEW place \in 0 .. ls[s].size - 1
  PROVE  /\ {i \in LabelsOf(ls, s) : HasAt(ls, i, symbols[ls[i].label], place)} =
            {i \in LabelsOf(ls, s) : PlaceIn(ls, i) <= place /\ \A j \in LabelsOf(ls, s) : PlaceIn(ls, j) <= place => j <= i}
         /\ FirstLabelled(ls, s) => {i \in LabelsOf(ls, s) : HasAt(ls, i, symbols[ls[i].label], place)} # {}
<1>1. ASSUME NEW i \in LabelsOf(ls, s)
      PROVE  HasAt(ls, i, symbols[ls[i].label], place) <=>
               PlaceIn(ls, i) <= place /\ \A j \in LabelsOf(ls, s) : PlaceIn(ls, j) <= place => j <= i
  <2>1. i \in Labelled(ls) /\ HolderOf(ls, i) = s BY LabelsPlaced
  <2>2. PICK symbol : symbol = symbols[ls[i].label]
    OBVIOUS
  <2>3. AsDeclared(ls, i, symbol) BY <2>1, <2>2 DEF Describes
  <2>4. HasAt(ls, i, symbol, place) <=> LastAt(ls, i, place) BY <2>1, <2>3 DEF AsDeclared
  <2> QED BY <2>1, <2>2, <2>4 DEF LastAt
<1>2. ASSUME FirstLabelled(ls, s) PROVE \E i \in LabelsOf(ls, s) : HasAt(ls, i, symbols[ls[i].label], place)
  <2> DEFINE earlier == {i \in LabelsOf(ls, s) : PlaceIn(ls, i) <= place}
  <2>1. PICK n \in Nat : n = Len(ls)
    OBVIOUS
  <2>2. earlier \in SUBSET (1 .. n) BY <2>1, LabelsPlaced
  <2>3. earlier # {}
    <3>1. PICK i \in LabelsOf(ls, s) : PlaceIn(ls, i) = 0 BY <1>2 DEF FirstLabelled
    <3>2. 0 <= place
      OBVIOUS
    <3> QED BY <3>1, <3>2
  <2>4. PICK i \in earlier : \A j \in earlier : j <= i
    <3> HIDE DEF earlier
    <3> QED BY <2>1, <2>2, <2>3, GreatestNumber
  <2> QED BY <1>1, <2>4
<1> QED BY <1>1, <1>2

\* What the assembler keeps says whose each word is.
LEMMA InvariantLabels == SInv /\ LInv => OwnedByTheLastLabel
<1> SUFFICES ASSUME SInv, LInv, status = "done", NEW s \in SectionLines, NEW place \in Places(s)
             PROVE  LET earlier == {i \in LabelsIn(s) : PlaceOf(i) <= place}
                    IN  /\ Owners(s, place) = {i \in earlier : \A j \in earlier : j <= i}
                        /\ lines[s].kind = "GLOB" => Owners(s, place) # {}
  BY DEF OwnedByTheLastLabel
<1>1. lines \in Seq(AnyLine) BY DEF SInv, SectionsType
<1>2. Placed(lines) /\ Describes(lines, globals) BY DEF LInv, Follows
<1>3. s \in SectionsOf(lines) /\ place \in 0 .. lines[s].size - 1 BY SourceIs DEF Places
<1>4. Owners(s, place) = {i \in LabelsOf(lines, s) : HasAt(lines, i, globals[lines[i].label], place)}
  BY SourceIs DEF Owners, HasAt
<1>5. lines[s].kind = "GLOB" => FirstLabelled(lines, s) BY <1>3 DEF LInv
<1>6. /\ {i \in LabelsOf(lines, s) : HasAt(lines, i, globals[lines[i].label], place)} =
         {i \in LabelsOf(lines, s) : PlaceIn(lines, i) <= place /\ \A j \in LabelsOf(lines, s) : PlaceIn(lines, j) <= place => j <= i}
      /\ FirstLabelled(lines, s) => {i \in LabelsOf(lines, s) : HasAt(lines, i, globals[lines[i].label], place)} # {}
  BY <1>1, <1>2, <1>3, PlaceOwned
<1>7. PICK L : L = LabelsOf(lines, s) /\ L = LabelsIn(s) BY SourceIs
<1>8. {i \in LabelsIn(s) : PlaceOf(i) <= place} = {i \in L : PlaceIn(lines, i) <= place} BY <1>7, SourceIs
<1>9. {i \in {k \in L : PlaceIn(lines, k) <= place} : \A j \in {k \in L : PlaceIn(lines, k) <= place} : j <= i} =
      {i \in L : PlaceIn(lines, i) <= place /\ \A j \in L : PlaceIn(lines, j) <= place => j <= i}
  OBVIOUS
<1> QED BY <1>4, <1>5, <1>6, <1>7, <1>8, <1>9

\* declareData, unownedRefused: when assembly is done, each word of a GLOB section belongs to one label,
\* the last at or before it, and no word of any section to another, whatever lines follow each other.
THEOREM LastLabelOwns == FrozenSpec => []OwnedByTheLastLabel
<1>1. FInv /\ LInv => OwnedByTheLastLabel BY InvariantLabels DEF FInv, Assembled
<1> QED BY <1>1, FrozenInvariant, LinesFollowed, PTL

-----------------------------------------------------------------------------
(***************************************************************************)
(* Bytes at a place of a buffer.                                           *)
(***************************************************************************)
\* The bytes s are in b from p on.
Stands(b, p, s) == p + Len(s) <= Len(b) /\ \A i \in 1 .. Len(s) : b[p + i] = s[i]

\* One after the other.
LEMMA CatStands ==
  ASSUME NEW s \in Name, NEW t \in Name
  PROVE  /\ s \o t \in Name
         /\ Len(s \o t) = Len(s) + Len(t)
         /\ \A b \in Name, p \in Nat : Stands(b, p, s \o t) <=> Stands(b, p, s) /\ Stands(b, p + Len(s), t)
<1>1. PICK m \in Nat, n \in Nat : m = Len(s) /\ n = Len(t) BY NameParts
<1>2. s \o t \in Name /\ Len(s \o t) = m + n BY <1>1 DEF Name
<1>3. \A i \in 1 .. m : (s \o t)[i] = s[i] BY <1>1 DEF Name
<1>4. \A i \in 1 .. n : (s \o t)[m + i] = t[i] BY <1>1 DEF Name
<1> DEFINE u == s \o t
<1> HIDE DEF u
<1>5. Len(u) = m + n /\ (\A i \in 1 .. m : u[i] = s[i]) /\ (\A i \in 1 .. n : u[m + i] = t[i])
  BY <1>2, <1>3, <1>4 DEF u
<1>6. ASSUME NEW b \in Name, NEW p \in Nat
      PROVE  Stands(b, p, u) <=> Stands(b, p, s) /\ Stands(b, p + m, t)
  <2>1. PICK l \in Nat : l = Len(b) BY NameParts
  <2>2. ASSUME Stands(b, p, u) PROVE Stands(b, p, s) /\ Stands(b, p + m, t)
    <3>1. p + m + n <= l /\ \A i \in 1 .. m + n : b[p + i] = u[i] BY <1>5, <2>1, <2>2 DEF Stands
    <3>2. \A i \in 1 .. m : b[p + i] = s[i]
      <4>1. \A i \in 1 .. m : i \in 1 .. m + n OBVIOUS
      <4> QED BY <1>5, <3>1, <4>1
    <3>3. ASSUME NEW i \in 1 .. n PROVE b[p + m + i] = t[i]
      <4>1. m + i \in 1 .. m + n /\ p + (m + i) = p + m + i OBVIOUS
      <4> QED BY <1>5, <3>1, <4>1
    <3> QED BY <1>1, <2>1, <3>1, <3>2, <3>3 DEF Stands
  <2>3. ASSUME Stands(b, p, s), Stands(b, p + m, t) PROVE Stands(b, p, u)
    <3>1. /\ p + m + n <= l /\ \A i \in 1 .. m : b[p + i] = s[i]
          /\ \A i \in 1 .. n : b[p + m + i] = t[i]
      BY <1>1, <2>1, <2>3 DEF Stands
    <3>2. ASSUME NEW i \in 1 .. m + n PROVE b[p + i] = u[i]
      <4>1. CASE i \in 1 .. m BY <1>5, <3>1, <4>1
      <4>2. CASE i \notin 1 .. m
        <5>1. i - m \in 1 .. n /\ p + m + (i - m) = p + i /\ m + (i - m) = i BY <4>2
        <5> QED BY <1>5, <3>1, <5>1
      <4> QED BY <4>1, <4>2
    <3> QED BY <1>5, <2>1, <3>1, <3>2 DEF Stands
  <2> QED BY <2>2, <2>3
<1> QED BY <1>1, <1>2, <1>6 DEF u

\* A buffer is what stands in it from its start to its end.
LEMMA WholeStands ==
  ASSUME NEW b \in Name, NEW s \in Name
  PROVE  b = s <=> Len(b) = Len(s) /\ Stands(b, 0, s)
<1>1. PICK m \in Nat, n \in Nat : m = Len(b) /\ n = Len(s) BY NameParts
<1>2. b = [i \in 1 .. m |-> b[i]] /\ s = [i \in 1 .. n |-> s[i]] BY <1>1 DEF Name
<1>3. ASSUME m = n, Stands(b, 0, s) PROVE b = s
  <2>1. \A i \in 1 .. n : b[0 + i] = s[i] BY <1>1, <1>3 DEF Stands
  <2>2. \A i \in 1 .. n : b[i] = s[i] BY <2>1
  <2> QED BY <1>2, <1>3, <2>2
<1>4. ASSUME b = s PROVE m = n /\ Stands(b, 0, s)
  <2>1. \A i \in 1 .. n : 0 + i = i OBVIOUS
  <2> QED BY <1>1, <1>4, <2>1 DEF Stands
<1> QED BY <1>1, <1>3, <1>4

\* What stands in a buffer is a part of it.
LEMMA BytesStand ==
  ASSUME NEW b \in Name, NEW p \in Nat, NEW s \in Name, p + Len(s) <= Len(b)
  PROVE  Stands(b, p, s) <=> Bytes(b, p, Len(s)) = s
<1>1. PICK l \in Nat, n \in Nat : l = Len(b) /\ n = Len(s) BY NameParts
<1>2. Bytes(b, p, n) = [i \in 1 .. n |-> b[p + i]] BY <1>1 DEF Bytes, Name
<1>3. s = [i \in 1 .. n |-> s[i]] BY <1>1 DEF Name
<1> QED BY <1>1, <1>2, <1>3 DEF Stands

-----------------------------------------------------------------------------
\* A function that appends the first m of the pieces, one after the other.
Appends(f, pieces, m) ==
  /\ DOMAIN f = 1 .. m
  /\ \A i \in 1 .. m : f[i] = IF i = 1 THEN pieces[i] ELSE f[i - 1] \o pieces[i]

\* There is one for every number of them.
LEMMA AppendsExist ==
  ASSUME NEW pieces, Len(pieces) \in Nat, NEW m \in 0 .. Len(pieces)
  PROVE  \E f : Appends(f, pieces, m)
<1> DEFINE Bad == {k \in 0 .. Len(pieces) : ~\E f : Appends(f, pieces, k)}
<1>1. SUFFICES ASSUME Bad # {} PROVE FALSE OBVIOUS
<1>2. Bad \in SUBSET Nat OBVIOUS
<1> HIDE DEF Bad
<1>3. PICK k \in Bad : \A j \in Bad : k <= j BY <1>1, <1>2, LeastNumber
<1>4. k \in 0 .. Len(pieces) /\ ~\E f : Appends(f, pieces, k) BY <1>3 DEF Bad
<1>5. k # 0
  <2>1. Appends([i \in 1 .. 0 |-> 0], pieces, 0) BY DEF Appends
  <2> QED BY <1>4, <2>1
<1>6. k - 1 \in 0 .. Len(pieces) /\ k - 1 \notin Bad
  <2>1. ~(k <= k - 1) BY <1>4
  <2> QED BY <1>3, <1>4, <1>5, <2>1
<1>7. PICK f : Appends(f, pieces, k - 1) BY <1>6 DEF Bad
<1> DEFINE g == [i \in 1 .. k |-> IF i = k THEN IF k = 1 THEN pieces[k] ELSE f[k - 1] \o pieces[k] ELSE f[i]]
<1>8. ASSUME NEW i \in 1 .. k PROVE g[i] = IF i = 1 THEN pieces[i] ELSE g[i - 1] \o pieces[i]
  <2>1. CASE i = k
    <3>1. i # 1 => i - 1 \in 1 .. k /\ i - 1 # k BY <1>4
    <3> QED BY <2>1, <3>1
  <2>2. CASE i # k
    <3>1. i \in 1 .. k - 1 /\ (i # 1 => i - 1 \in 1 .. k /\ i - 1 # k) BY <1>4, <2>2
    <3>2. f[i] = IF i = 1 THEN pieces[i] ELSE f[i - 1] \o pieces[i] BY <1>7, <3>1 DEF Appends
    <3>3. g[i] = f[i] /\ (i # 1 => g[i - 1] = f[i - 1]) BY <2>2, <3>1
    <3> QED BY <3>2, <3>3
  <2> QED BY <2>1, <2>2
<1>9. Appends(g, pieces, k) BY <1>8 DEF Appends
<1> QED BY <1>4, <1>9

\* Where each piece starts, and where the last one ends.
Starts(at, pieces) ==
  /\ at \in [0 .. Len(pieces) -> Nat]
  /\ \A i \in 1 .. Len(pieces) : at[i] = at[i - 1] + Len(pieces[i])

\* FlattenSeq of pieces stands where each of the pieces does.
LEMMA FlatStands ==
  ASSUME NEW pieces \in Seq(Name), NEW at, Starts(at, pieces)
  PROVE  /\ FlattenSeq(pieces) \in Name
         /\ at[0] + Len(FlattenSeq(pieces)) = at[Len(pieces)]
         /\ \A b \in Name :
              Stands(b, at[0], FlattenSeq(pieces)) <=>
                at[Len(pieces)] <= Len(b) /\ \A i \in 1 .. Len(pieces) : Stands(b, at[i - 1], pieces[i])
<1> DEFINE n == Len(pieces)
           Flat(s, m) ==
             /\ s \in Name
             /\ at[0] + Len(s) = at[m]
             /\ \A b \in Name :
                  Stands(b, at[0], s) <=> at[m] <= Len(b) /\ \A i \in 1 .. m : Stands(b, at[i - 1], pieces[i])
<1>1. n \in Nat /\ (\A i \in 1 .. n : pieces[i] \in Name /\ Len(pieces[i]) \in Nat)
  <2>1. n \in Nat /\ (\A i \in 1 .. n : pieces[i] \in Name) OBVIOUS
  <2> QED BY <2>1, NameParts
<1>2. (\A i \in 0 .. n : at[i] \in Nat) /\ (\A i \in 1 .. n : at[i] = at[i - 1] + Len(pieces[i])) BY DEF Starts
<1>3. \A b \in Name : Len(b) \in Nat BY NameParts
<1> HIDE DEF n
<1>4. CASE n = 0
  <2>1. pieces = <<>> BY <1>4 DEF n
  <2>2. FlattenSeq(pieces) = <<>> BY <2>1 DEF FlattenSeq
  <2>3. <<>> \in Name /\ Len(<<>>) = 0 BY DEF Name
  <2>4. at[0] \in Nat /\ at[0] + 0 = at[0] BY <1>1, <1>2
  <2>5. \A b \in Name : Stands(b, at[0], <<>>) <=> at[0] <= Len(b) BY <2>3, <2>4 DEF Stands
  <2> QED BY <1>4, <2>2, <2>3, <2>4, <2>5 DEF n
<1>5. CASE n # 0
  <2> DEFINE flatten == CHOOSE f : f = [i \in 1 .. Len(pieces) |-> IF i = 1 THEN pieces[i] ELSE f[i - 1] \o pieces[i]]
  <2>1. FlattenSeq(pieces) = flatten[n] BY <1>5 DEF FlattenSeq, n
  <2>2. Appends(flatten, pieces, n)
    <3>1. PICK f : Appends(f, pieces, n)
      <4>1. Len(pieces) \in Nat /\ n \in 0 .. Len(pieces) BY <1>1 DEF n
      <4> QED BY <4>1, AppendsExist
    <3>2. \E g : g = [i \in 1 .. n |-> IF i = 1 THEN pieces[i] ELSE g[i - 1] \o pieces[i]]
      <4> DEFINE g == [i \in 1 .. n |-> f[i]]
      <4>1. \A i \in 1 .. n : g[i] = IF i = 1 THEN pieces[i] ELSE g[i - 1] \o pieces[i]
        <5>1. ASSUME NEW i \in 1 .. n PROVE g[i] = IF i = 1 THEN pieces[i] ELSE g[i - 1] \o pieces[i]
          <6>1. i # 1 => i - 1 \in 1 .. n BY <1>1
          <6>2. f[i] = IF i = 1 THEN pieces[i] ELSE f[i - 1] \o pieces[i] BY <3>1 DEF Appends
          <6> QED BY <6>1, <6>2
        <5> QED BY <5>1
      <4>2. g = [i \in 1 .. n |-> IF i = 1 THEN pieces[i] ELSE g[i - 1] \o pieces[i]]
        <5> HIDE DEF g
        <5>1. g = [i \in 1 .. n |-> g[i]] BY DEF g
        <5> QED BY <4>1, <5>1
      <4> QED BY <4>2
    <3>3. flatten = [i \in 1 .. n |-> IF i = 1 THEN pieces[i] ELSE flatten[i - 1] \o pieces[i]] BY <3>2 DEF n
    <3> HIDE DEF flatten
    <3> DEFINE whole == [i \in 1 .. n |-> IF i = 1 THEN pieces[i] ELSE flatten[i - 1] \o pieces[i]]
    <3>4. DOMAIN whole = 1 .. n /\ \A i \in 1 .. n : whole[i] = IF i = 1 THEN pieces[i] ELSE flatten[i - 1] \o pieces[i]
      OBVIOUS
    <3>5. flatten = whole BY <3>3
    <3> HIDE DEF whole
    <3> QED BY <3>4, <3>5 DEF Appends
  <2> HIDE DEF flatten
  <2> DEFINE Bad == {m \in 1 .. n : ~Flat(flatten[m], m)}
  <2>3. ASSUME Bad # {} PROVE FALSE
    <3>1. Bad \in SUBSET Nat OBVIOUS
    <3> HIDE DEF Bad
    <3>2. PICK m \in Bad : \A l \in Bad : m <= l BY <2>3, <3>1, LeastNumber
    <3> USE DEF Bad
    <3>3. m \in 1 .. n /\ ~Flat(flatten[m], m) BY <3>2
    <3>4. pieces[m] \in Name /\ at[m] = at[m - 1] + Len(pieces[m]) /\ at[0] \in Nat /\ at[m - 1] \in Nat /\ m - 1 \in 0 .. n
      BY <1>1, <1>2, <3>3
    <3>5. CASE m = 1
      <4>1. flatten[m] = pieces[m] BY <2>2, <3>3, <3>5 DEF Appends
      <4>2. \A i \in 1 .. 1 : i = 1 /\ i - 1 = 0 OBVIOUS
      <4>3. at[0] + Len(pieces[m]) = at[m] BY <3>4, <3>5
      <4>4. \A b \in Name : Stands(b, at[0], pieces[m]) => at[m] <= Len(b) BY <4>3 DEF Stands
      <4>5. \A b : (\A i \in 1 .. m : Stands(b, at[i - 1], pieces[i])) <=> Stands(b, at[0], pieces[m]) BY <3>5, <4>2
      <4> QED BY <3>3, <3>4, <4>1, <4>3, <4>4, <4>5
    <3>6. CASE m # 1
      <4> DEFINE s == flatten[m - 1]
                 t == pieces[m]
      <4>1. m - 1 \in 1 .. n /\ ~(m <= m - 1) BY <1>1, <3>3, <3>6
      <4>2. Flat(s, m - 1) BY <3>2, <4>1
      <4>3. flatten[m] = s \o t BY <2>2, <3>3, <3>6 DEF Appends
      <4>4. /\ s \in Name /\ at[0] + Len(s) = at[m - 1]
            /\ \A b \in Name :
                 Stands(b, at[0], s) <=> at[m - 1] <= Len(b) /\ \A i \in 1 .. m - 1 : Stands(b, at[i - 1], pieces[i])
        BY <4>2
      <4>5. t \in Name BY <3>4
      <4> HIDE DEF s, t
      <4>6. /\ s \o t \in Name /\ Len(s \o t) = Len(s) + Len(t)
            /\ \A b \in Name : Stands(b, at[0], s \o t) <=> Stands(b, at[0], s) /\ Stands(b, at[0] + Len(s), t)
        BY <3>4, <4>4, <4>5, CatStands
      <4>7. Len(s) \in Nat /\ Len(t) \in Nat BY <4>4, <4>5, NameParts
      <4>8. at[0] + Len(s \o t) = at[m] BY <3>4, <4>4, <4>6, <4>7 DEF t
      <4>9. ASSUME NEW b \in Name
            PROVE  Stands(b, at[0], s \o t) <=> at[m] <= Len(b) /\ \A i \in 1 .. m : Stands(b, at[i - 1], pieces[i])
        <5>1. Stands(b, at[0], s \o t) <=> Stands(b, at[0], s) /\ Stands(b, at[m - 1], t) BY <4>4, <4>6
        <5>2. Stands(b, at[m - 1], t) => at[m] <= Len(b) BY <3>4 DEF Stands, t
        <5>3. at[m] <= Len(b) => at[m - 1] <= Len(b) BY <1>3, <3>4, <4>7 DEF t
        <5>4. (\A i \in 1 .. m : Stands(b, at[i - 1], pieces[i])) <=>
                (\A i \in 1 .. m - 1 : Stands(b, at[i - 1], pieces[i])) /\ Stands(b, at[m - 1], t)
          <6>1. \A i \in 1 .. m : i \in 1 .. m - 1 \/ i = m BY <3>3
          <6>2. \A i \in 1 .. m - 1 : i \in 1 .. m BY <3>3
          <6>3. m \in 1 .. m BY <3>3
          <6> QED BY <6>1, <6>2, <6>3 DEF t
        <5> QED BY <4>4, <5>1, <5>2, <5>3, <5>4
      <4> QED BY <3>3, <4>3, <4>6, <4>8, <4>9
    <3> QED BY <3>5, <3>6
  <2>4. Flat(flatten[n], n)
    <3>1. n \in 1 .. n BY <1>1, <1>5
    <3> HIDE DEF Flat
    <3> QED BY <2>3, <3>1
  <2> QED BY <2>1, <2>4 DEF n
<1> QED BY <1>4, <1>5

-----------------------------------------------------------------------------
(***************************************************************************)
(* Words.                                                                  *)
(***************************************************************************)
\* A word is four bytes.
LEMMA WordPut ==
  ASSUME NEW w \in Int
  PROVE  putMemoryWord(w) \in Name /\ Len(putMemoryWord(w)) = 4
<1>1. /\ w % 256 \in 0 .. 255 /\ (w \div 256) % 256 \in 0 .. 255
      /\ (w \div 65536) % 256 \in 0 .. 255 /\ (w \div 16777216) % 256 \in 0 .. 255
  BY SMT
<1>2. /\ w % 256 \in Byte /\ (w \div 256) % 256 \in Byte
      /\ (w \div 65536) % 256 \in Byte /\ (w \div 16777216) % 256 \in Byte
  BY <1>1, SMT DEF Byte
<1>3. ASSUME NEW c1 \in Byte, NEW c2 \in Byte, NEW c3 \in Byte, NEW c4 \in Byte
      PROVE  <<c1, c2, c3, c4>> \in Seq(Byte) /\ Len(<<c1, c2, c3, c4>>) = 4
  BY SMT
<1> QED BY <1>2, <1>3, SMT DEF putMemoryWord, Name

AreBytesOf(c1, c2, c3, c4, w) ==
  c1 = w % 256 /\ c2 = (w \div 256) % 256 /\ c3 = (w \div 65536) % 256 /\ c4 = (w \div 16777216) % 256
Number(c1, c2, c3, c4) == c1 + c2 * 256 + c3 * 65536 + (IF c4 < 128 THEN c4 ELSE c4 - 256) * 16777216

\* The bytes of a number are those it is made of.
LEMMA WordBytes ==
  ASSUME NEW c1 \in Byte, NEW c2 \in Byte, NEW c3 \in Byte, NEW c4 \in Byte, NEW w \in Word
  PROVE  AreBytesOf(c1, c2, c3, c4, w) <=> Number(c1, c2, c3, c4) = w
<1> USE DEF Byte
<1>1. PICK s \in -128 .. 127 : s = IF c4 < 128 THEN c4 ELSE c4 - 256 BY SMT
<1>2. w \in Int /\ -2147483648 <= w /\ w <= 2147483647 BY SMT DEF Word, LargestWord
<1>3. ASSUME c1 + c2 * 256 + c3 * 65536 + s * 16777216 = w
      PROVE  /\ c1 = w % 256 /\ c2 = (w \div 256) % 256 /\ c3 = (w \div 65536) % 256 /\ c4 = (w \div 16777216) % 256
  <2>1. w = 256 * (c2 + c3 * 256 + s * 65536) + c1 BY <1>3, SMT
  <2>2. w \div 256 = c2 + c3 * 256 + s * 65536 /\ w % 256 = c1 BY <1>2, <2>1, SMT
  <2>3. w = 65536 * (c3 + s * 256) + (c1 + c2 * 256) /\ 0 <= c1 + c2 * 256 /\ c1 + c2 * 256 < 65536 BY <1>3, SMT
  <2>4. w \div 65536 = c3 + s * 256 BY <1>2, <2>3, SMT
  <2>5. w = 16777216 * s + (c1 + c2 * 256 + c3 * 65536) /\ 0 <= c1 + c2 * 256 + c3 * 65536 /\ c1 + c2 * 256 + c3 * 65536 < 16777216 BY <1>3, SMT
  <2>6. w \div 16777216 = s BY <1>2, <2>5, SMT
  <2>7. (c2 + c3 * 256 + s * 65536) % 256 = c2
    <3>1. c2 + c3 * 256 + s * 65536 = 256 * (c3 + s * 256) + c2 BY SMT
    <3> QED BY <3>1, SMT
  <2>8. (c3 + s * 256) % 256 = c3 BY SMT
  <2>9. s % 256 = c4 BY <1>1, SMT
  <2> QED BY <2>2, <2>4, <2>6, <2>7, <2>8, <2>9, SMT
<1>4. ASSUME c1 = w % 256, c2 = (w \div 256) % 256, c3 = (w \div 65536) % 256, c4 = (w \div 16777216) % 256
      PROVE  c1 + c2 * 256 + c3 * 65536 + s * 16777216 = w
  <2>1. PICK q \in Int : w = 256 * q + c1 /\ q = w \div 256 BY <1>2, <1>4, SMT
  <2>2. PICK r \in Int : q = 256 * r + c2 /\ r = q \div 256 BY <1>4, <2>1, SMT
  <2>3. w = 65536 * r + (c2 * 256 + c1) /\ 0 <= c2 * 256 + c1 /\ c2 * 256 + c1 < 65536 BY <2>1, <2>2, SMT
  <2>4. r = w \div 65536 BY <1>2, <2>3, SMT
  <2>5. PICK u \in Int : r = 256 * u + c3 BY <1>4, <2>4, SMT
  <2>6. w = 16777216 * u + (c3 * 65536 + c2 * 256 + c1) /\ 0 <= c3 * 65536 + c2 * 256 + c1 /\ c3 * 65536 + c2 * 256 + c1 < 16777216 BY <2>3, <2>5, SMT
  <2>7. u = w \div 16777216 BY <1>2, <2>6, SMT
  <2>8. -128 <= u /\ u <= 127 BY <1>2, <2>6, SMT
  <2>9. u % 256 = c4 BY <1>4, <2>7, SMT
  <2>10. u = s BY <1>1, <2>8, <2>9, SMT
  <2> QED BY <2>6, <2>10, SMT
<1> QED BY <1>1, <1>3, <1>4, SMT DEF AreBytesOf, Number

\* What is put as a word is read as that word, and what is read is put the same.
LEMMA WordStands ==
  ASSUME NEW b \in Name, NEW p \in Nat
  PROVE  /\ p + 4 <= Len(b) => getMemoryWord(b, p) \in Word
         /\ \A w \in Word : Stands(b, p, putMemoryWord(w)) <=> p + 4 <= Len(b) /\ getMemoryWord(b, p) = w
<1>1. PICK l \in Nat : l = Len(b) BY NameParts, SMT
<1>2. ASSUME p + 4 <= l
      PROVE  /\ getMemoryWord(b, p) \in Word
             /\ \A w \in Word : Stands(b, p, putMemoryWord(w)) <=> getMemoryWord(b, p) = w
  <2>1. p + 1 \in 1 .. l /\ p + 2 \in 1 .. l /\ p + 3 \in 1 .. l /\ p + 4 \in 1 .. l BY <1>2, SMT
  <2>2. PICK c1 \in Byte, c2 \in Byte, c3 \in Byte, c4 \in Byte :
          c1 = b[p + 1] /\ c2 = b[p + 2] /\ c3 = b[p + 3] /\ c4 = b[p + 4]
    <3>1. \A i \in 1 .. l : b[i] \in Byte BY <1>1, SMT DEF Name
    <3>2. b[p + 1] \in Byte /\ b[p + 2] \in Byte /\ b[p + 3] \in Byte /\ b[p + 4] \in Byte BY <2>1, <3>1, SMT
    <3> QED BY <3>2, Zenon
  <2>3. getMemoryWord(b, p) = Number(c1, c2, c3, c4) BY <2>2, SMT DEF getMemoryWord, Number
  <2>4. getMemoryWord(b, p) \in Word BY <2>3, SMT DEF Word, LargestWord, Number, Byte
  <2>5. ASSUME NEW w \in Word PROVE Stands(b, p, putMemoryWord(w)) <=> getMemoryWord(b, p) = w
    <3>1. w \in Int BY SMT DEF Word
    <3> DEFINE s == putMemoryWord(w)
    <3>2. /\ s[1] = w % 256 /\ s[2] = (w \div 256) % 256 /\ s[3] = (w \div 65536) % 256
          /\ s[4] = (w \div 16777216) % 256 /\ Len(s) = 4
      BY SMT DEF putMemoryWord
    <3> HIDE DEF s
    <3>3. Stands(b, p, s) <=> b[p + 1] = s[1] /\ b[p + 2] = s[2] /\ b[p + 3] = s[3] /\ b[p + 4] = s[4]
      <4>1. \A i \in 1 .. 4 : i \in {1, 2, 3, 4} BY SMT
      <4>2. 1 \in 1 .. 4 /\ 2 \in 1 .. 4 /\ 3 \in 1 .. 4 /\ 4 \in 1 .. 4 BY SMT
      <4>3. Stands(b, p, s) <=> \A i \in 1 .. 4 : b[p + i] = s[i] BY <1>1, <1>2, <3>2, SMT DEF Stands
      <4> QED BY <4>1, <4>2, <4>3, SMT
    <3>4. Stands(b, p, s) <=> AreBytesOf(c1, c2, c3, c4, w) BY <2>2, <3>2, <3>3, SMT DEF AreBytesOf
    <3>5. Stands(b, p, s) <=> Number(c1, c2, c3, c4) = w BY <3>4, WordBytes, SMT
    <3> QED BY <2>3, <3>5, SMT DEF s
  <2> QED BY <2>4, <2>5, SMT
<1>3. ASSUME ~(p + 4 <= l), NEW w \in Word PROVE ~Stands(b, p, putMemoryWord(w))
  <2>1. Len(putMemoryWord(w)) = 4 BY WordPut, SMT DEF Word
  <2> QED BY <1>1, <1>3, <2>1, SMT DEF Stands
<1> QED BY <1>1, <1>2, <1>3, SMT

-----------------------------------------------------------------------------
(***************************************************************************)
(* Entries.                                                                *)
(***************************************************************************)
\* What is saved under a name, and what can be: its lengths are words.
SaveType == [name : Name, words : Seq(Int)]
HasRoom(save) == Len(save.name) <= LargestWord /\ Len(save.words) <= LargestWord

\* Where the words are of an entry at p with a name so long.
WordsAfter(p, length) == p + 8 + length + memoryPadding(length)

\* The entry for what is saved is in b at p.
EntryStands(b, p, save) ==
  /\ WordsAfter(p, Len(save.name)) + 4 * Len(save.words) <= Len(b)
  /\ Stands(b, p, putMemoryWord(Len(save.name)))
  /\ Stands(b, p + 4, save.name)
  /\ Stands(b, p + 4 + Len(save.name), Zeros(memoryPadding(Len(save.name))))
  /\ Stands(b, WordsAfter(p, Len(save.name)) - 4, putMemoryWord(Len(save.words)))
  /\ \A i \in 1 .. Len(save.words) : Stands(b, WordsAfter(p, Len(save.name)) + 4 * (i - 1), putMemoryWord(save.words[i]))

PutEntry(save) == putMemoryEntry(save.name, save.words)

\* Padding of zeros.
LEMMA ZerosPut ==
  ASSUME NEW n \in Nat
  PROVE  Zeros(n) \in Name /\ Len(Zeros(n)) = n
BY DEF Zeros, Name, Byte

\* Words one after the other.
LEMMA WordsStand ==
  ASSUME NEW words \in Seq(Int)
  PROVE  LET bytes == FlattenSeq([i \in DOMAIN words |-> putMemoryWord(words[i])])
         IN  /\ bytes \in Name
             /\ Len(bytes) = 4 * Len(words)
             /\ \A b \in Name, p \in Nat :
                  Stands(b, p, bytes) <=>
                    /\ p + 4 * Len(words) <= Len(b)
                    /\ \A i \in 1 .. Len(words) : Stands(b, p + 4 * (i - 1), putMemoryWord(words[i]))
<1> DEFINE pieces == [i \in DOMAIN words |-> putMemoryWord(words[i])]
           n == Len(words)
           bytes == FlattenSeq(pieces)
<1>1. n \in Nat /\ DOMAIN words = 1 .. n OBVIOUS
<1>2. \A i \in 1 .. n : putMemoryWord(words[i]) \in Name /\ Len(putMemoryWord(words[i])) = 4
  <2>1. \A i \in 1 .. n : words[i] \in Int OBVIOUS
  <2> QED BY <2>1, WordPut
<1>3. /\ pieces \in Seq(Name) /\ Len(pieces) = n
      /\ \A i \in 1 .. n : pieces[i] = putMemoryWord(words[i])
  BY <1>1, <1>2
<1> HIDE DEF pieces, n
<1>4. ASSUME NEW p \in Nat
      PROVE  /\ bytes \in Name /\ Len(bytes) = 4 * n
             /\ \A b \in Name :
                  Stands(b, p, bytes) <=>
                    p + 4 * n <= Len(b) /\ \A i \in 1 .. n : Stands(b, p + 4 * (i - 1), putMemoryWord(words[i]))
  <2> DEFINE at == [i \in 0 .. n |-> p + 4 * i]
  <2>1. at \in [0 .. n -> Nat] /\ \A i \in 0 .. n : at[i] = p + 4 * i BY <1>1
  <2> HIDE DEF at
  <2>2. ASSUME NEW i \in 1 .. n PROVE at[i] = at[i - 1] + 4 /\ at[i - 1] = p + 4 * (i - 1)
    <3>1. i \in 0 .. n /\ i - 1 \in 0 .. n BY <1>1
    <3> QED BY <2>1, <3>1
  <2>3. Starts(at, pieces) BY <1>2, <1>3, <2>1, <2>2 DEF Starts
  <2>4. at[0] = p /\ at[n] = p + 4 * n BY <1>1, <2>1
  <2>5. /\ bytes \in Name /\ at[0] + Len(bytes) = at[n]
        /\ \A b \in Name :
             Stands(b, at[0], bytes) <=> at[n] <= Len(b) /\ \A i \in 1 .. n : Stands(b, at[i - 1], pieces[i])
    BY <1>3, <2>3, FlatStands
  <2> HIDE DEF bytes
  <2>6. Len(bytes) \in Nat BY <2>5, NameParts
  <2>7. Len(bytes) = 4 * n BY <1>1, <2>4, <2>5, <2>6
  <2>8. \A b : (\A i \in 1 .. n : Stands(b, at[i - 1], pieces[i]))
                 <=> \A i \in 1 .. n : Stands(b, p + 4 * (i - 1), putMemoryWord(words[i]))
    BY <1>3, <2>2
  <2> QED BY <2>4, <2>5, <2>7, <2>8
<1>5. bytes \in Name /\ Len(bytes) = 4 * n BY <1>4
<1> HIDE DEF bytes
<1> QED BY <1>4, <1>5 DEF bytes, pieces, n

\* putMemoryEntry writes its parts one after the other.
LEMMA EntryPut ==
  ASSUME NEW save \in SaveType
  PROVE  /\ PutEntry(save) \in Name
         /\ \A p \in Nat : p + Len(PutEntry(save)) = WordsAfter(p, Len(save.name)) + 4 * Len(save.words)
         /\ \A b \in Name, p \in Nat : Stands(b, p, PutEntry(save)) <=> EntryStands(b, p, save)
<1> DEFINE l == Len(save.name)
           c == Len(save.words)
           k == memoryPadding(l)
           s1 == putMemoryWord(l)
           s3 == Zeros(k)
           s4 == putMemoryWord(c)
           s5 == FlattenSeq([i \in DOMAIN save.words |-> putMemoryWord(save.words[i])])
<1>1. save.name \in Name /\ save.words \in Seq(Int) BY DEF SaveType
<1>2. l \in Nat /\ c \in Nat BY <1>1, NameParts
<1>3. k \in Nat BY <1>2, PaddingSize
<1>4. PutEntry(save) = (((s1 \o save.name) \o s3) \o s4) \o s5 BY DEF PutEntry, putMemoryEntry
<1> HIDE DEF l, c, k
<1>5. s1 \in Name /\ Len(s1) = 4 /\ s3 \in Name /\ Len(s3) = k /\ s4 \in Name /\ Len(s4) = 4
  BY <1>2, <1>3, WordPut, ZerosPut
<1>6. /\ s5 \in Name /\ Len(s5) = 4 * c
      /\ \A b \in Name, p \in Nat :
           Stands(b, p, s5) <=> p + 4 * c <= Len(b) /\ \A i \in 1 .. c : Stands(b, p + 4 * (i - 1), putMemoryWord(save.words[i]))
  BY <1>1, WordsStand DEF c
<1>7. PutEntry(save) = (((s1 \o save.name) \o s3) \o s4) \o s5 BY <1>4 DEF l, c, k
<1> HIDE DEF s1, s3, s4, s5
<1>8. /\ s1 \o save.name \in Name /\ Len(s1 \o save.name) = 4 + l
      /\ \A b \in Name, p \in Nat : Stands(b, p, s1 \o save.name) <=> Stands(b, p, s1) /\ Stands(b, p + 4, save.name)
  <2>1. /\ s1 \o save.name \in Name /\ Len(s1 \o save.name) = Len(s1) + Len(save.name)
        /\ \A buffer \in Name, p \in Nat :
             Stands(buffer, p, s1 \o save.name) <=> Stands(buffer, p, s1) /\ Stands(buffer, p + Len(s1), save.name)
    BY <1>1, <1>5, CatStands
  <2>2. Len(s1) = 4 /\ Len(save.name) = l BY <1>5 DEF l
  <2> QED BY <2>1, <2>2
<1> DEFINE t2 == s1 \o save.name
<1> HIDE DEF t2
<1>9. /\ t2 \o s3 \in Name /\ Len(t2 \o s3) = 4 + l + k
      /\ \A b \in Name, p \in Nat : Stands(b, p, t2 \o s3) <=> Stands(b, p, t2) /\ Stands(b, p + (4 + l), s3)
  <2>1. t2 \in Name /\ Len(t2) = 4 + l /\ 4 + l \in Nat BY <1>2, <1>8 DEF t2
  <2>2. /\ t2 \o s3 \in Name /\ Len(t2 \o s3) = Len(t2) + Len(s3)
        /\ \A buffer \in Name, p \in Nat :
             Stands(buffer, p, t2 \o s3) <=> Stands(buffer, p, t2) /\ Stands(buffer, p + Len(t2), s3)
    BY <1>5, <2>1, CatStands
  <2>3. Len(s3) = k BY <1>5
  <2> QED BY <2>1, <2>2, <2>3
<1> DEFINE t3 == t2 \o s3
<1> HIDE DEF t3
<1>10. /\ t3 \o s4 \in Name /\ Len(t3 \o s4) = 4 + l + k + 4
       /\ \A b \in Name, p \in Nat : Stands(b, p, t3 \o s4) <=> Stands(b, p, t3) /\ Stands(b, p + (4 + l + k), s4)
  <2>1. t3 \in Name /\ Len(t3) = 4 + l + k /\ 4 + l + k \in Nat BY <1>2, <1>3, <1>9 DEF t3
  <2>2. /\ t3 \o s4 \in Name /\ Len(t3 \o s4) = Len(t3) + Len(s4)
        /\ \A buffer \in Name, p \in Nat :
             Stands(buffer, p, t3 \o s4) <=> Stands(buffer, p, t3) /\ Stands(buffer, p + Len(t3), s4)
    BY <1>5, <2>1, CatStands
  <2>3. Len(s4) = 4 BY <1>5
  <2> QED BY <2>1, <2>2, <2>3
<1> DEFINE t4 == t3 \o s4
<1> HIDE DEF t4
<1>11. /\ t4 \o s5 \in Name /\ Len(t4 \o s5) = 4 + l + k + 4 + 4 * c
       /\ \A b \in Name, p \in Nat : Stands(b, p, t4 \o s5) <=> Stands(b, p, t4) /\ Stands(b, p + (4 + l + k + 4), s5)
  <2>1. t4 \in Name /\ Len(t4) = 4 + l + k + 4 /\ 4 + l + k + 4 \in Nat BY <1>2, <1>3, <1>10 DEF t4
  <2>2. s5 \in Name /\ Len(s5) = 4 * c /\ 4 * c \in Nat BY <1>2, <1>6
  <2>3. /\ t4 \o s5 \in Name /\ Len(t4 \o s5) = Len(t4) + Len(s5)
        /\ \A buffer \in Name, p \in Nat :
             Stands(buffer, p, t4 \o s5) <=> Stands(buffer, p, t4) /\ Stands(buffer, p + Len(t4), s5)
    BY <2>1, <2>2, CatStands
  <2> QED BY <2>1, <2>2, <2>3
<1>12. PutEntry(save) = t4 \o s5 BY <1>7 DEF t2, t3, t4
<1>13. ASSUME NEW p \in Nat
       PROVE  /\ WordsAfter(p, l) = p + 8 + l + k
              /\ p + Len(PutEntry(save)) = WordsAfter(p, l) + 4 * c
  <2>1. WordsAfter(p, l) = p + 8 + l + k BY DEF WordsAfter, k
  <2>2. Len(PutEntry(save)) = 4 + l + k + 4 + 4 * c BY <1>11, <1>12
  <2>3. p + (4 + l + k + 4 + 4 * c) = p + 8 + l + k + 4 * c BY <1>2, <1>3
  <2> QED BY <2>1, <2>2, <2>3
<1>14. ASSUME NEW b \in Name, NEW p \in Nat
       PROVE  Stands(b, p, PutEntry(save)) <=> EntryStands(b, p, save)
  <2>1. /\ p + (4 + l) = p + 4 + l /\ p + (4 + l + k) = WordsAfter(p, l) - 4 /\ p + (4 + l + k + 4) = WordsAfter(p, l)
        /\ WordsAfter(p, l) \in Nat
    <3>1. WordsAfter(p, l) = p + 8 + l + k BY <1>13
    <3> QED BY <1>2, <1>3, <3>1
  <2>2. Stands(b, p, t4 \o s5) <=>
          /\ Stands(b, p, s1) /\ Stands(b, p + 4, save.name) /\ Stands(b, p + 4 + l, s3)
          /\ Stands(b, WordsAfter(p, l) - 4, s4) /\ Stands(b, WordsAfter(p, l), s5)
    BY <1>8, <1>9, <1>10, <1>11, <2>1 DEF t2, t3, t4
  <2>3. Stands(b, WordsAfter(p, l), s5) <=>
          /\ WordsAfter(p, l) + 4 * c <= Len(b)
          /\ \A i \in 1 .. c : Stands(b, WordsAfter(p, l) + 4 * (i - 1), putMemoryWord(save.words[i]))
    BY <1>6, <2>1
  <2> QED BY <1>12, <2>2, <2>3 DEF EntryStands, s1, s3, s4, l, c, k
<1> QED BY <1>11, <1>12, <1>13, <1>14 DEF l, c

-----------------------------------------------------------------------------
(***************************************************************************)
(* The header, and all that freezing writes.                               *)
(***************************************************************************)
\* What HeaderError asks of a buffer.
LEMMA HeaderAccepts ==
  ASSUME NEW b \in Name
  PROVE  HeaderError(b) = "none" <=>
           /\ MEMORY_HEADER_SIZE <= Len(b)
           /\ Bytes(b, 0, 4) = MEMORY_MAGIC
           /\ getMemoryWord(b, 4) = MEMORY_FORMAT_VERSION
           /\ getMemoryWord(b, 8) \in Supported
           /\ getMemoryWord(b, 12) = WORD_SIZE
<1>1. PICK l \in Nat : l = Len(b) BY NameParts
<1>2. VERSION \in Nat BY FrozenAssumption
<1>3. MEMORY_HEADER_SIZE = 20 BY DEF MEMORY_HEADER_SIZE
<1>4. CASE l < 20
  <2>1. HeaderError(b) \in {"BAD_MAGIC", "TRUNCATED"} BY <1>1, <1>3, <1>4 DEF HeaderError
  <2> QED BY <1>1, <1>3, <1>4, <2>1
<1>5. CASE l >= 20
  <2>1. getMemoryWord(b, 8) \in Int
    <3>1. 8 \in Nat /\ 8 + 4 <= Len(b) BY <1>1, <1>5
    <3> QED BY <3>1, WordRead
  <2>2. (getMemoryWord(b, 8) = 0 \/ Above(getMemoryWord(b, 8), VERSION)) <=> getMemoryWord(b, 8) \notin Supported
    BY <1>2, <2>1 DEF Above, Supported
  <2>3. ~(Len(b) < 4) /\ ~(Len(b) < MEMORY_HEADER_SIZE) /\ MEMORY_HEADER_SIZE <= Len(b) BY <1>1, <1>3, <1>5
  <2> QED BY <2>2, <2>3 DEF HeaderError
<1> QED BY <1>1, <1>4, <1>5

\* A header is five words, the first of them four letters.
LEMMA HeaderPut ==
  ASSUME NEW version \in Int, NEW count \in Int
  PROVE  /\ Header(version, count) \in Name
         /\ Len(Header(version, count)) = MEMORY_HEADER_SIZE
         /\ \A b \in Name :
              Stands(b, 0, Header(version, count)) <=>
                /\ Stands(b, 0, MEMORY_MAGIC)
                /\ Stands(b, 4, putMemoryWord(MEMORY_FORMAT_VERSION))
                /\ Stands(b, 8, putMemoryWord(version))
                /\ Stands(b, 12, putMemoryWord(WORD_SIZE))
                /\ Stands(b, 16, putMemoryWord(count))
<1> DEFINE s1 == MEMORY_MAGIC
           s2 == putMemoryWord(MEMORY_FORMAT_VERSION)
           s3 == putMemoryWord(version)
           s4 == putMemoryWord(WORD_SIZE)
           s5 == putMemoryWord(count)
           t2 == s1 \o s2
           t3 == t2 \o s3
           t4 == t3 \o s4
<1>1. s1 \in Name /\ Len(s1) = 4
  <2>1. 71 \in Byte /\ 90 \in Byte /\ 77 \in Byte BY DEF Byte
  <2>2. \A x, y, z \in Byte : <<x, y, z, z>> \in Seq(Byte) /\ Len(<<x, y, z, z>>) = 4 OBVIOUS
  <2> QED BY <2>1, <2>2 DEF MEMORY_MAGIC, Name
<1>2. MEMORY_FORMAT_VERSION \in Int /\ WORD_SIZE \in Int BY FrozenAssumption DEF MEMORY_FORMAT_VERSION
<1>3. s2 \in Name /\ Len(s2) = 4 /\ s3 \in Name /\ Len(s3) = 4 /\ s4 \in Name /\ Len(s4) = 4 /\ s5 \in Name /\ Len(s5) = 4
  BY <1>2, WordPut
<1>4. Header(version, count) = t4 \o s5 BY DEF Header
<1> HIDE DEF s1, s2, s3, s4, s5
<1>5. /\ t2 \in Name /\ Len(t2) = 8
      /\ \A b \in Name : Stands(b, 0, t2) <=> Stands(b, 0, s1) /\ Stands(b, 4, s2)
  <2>1. /\ s1 \o s2 \in Name /\ Len(s1 \o s2) = Len(s1) + Len(s2)
        /\ \A b \in Name : Stands(b, 0, s1 \o s2) <=> Stands(b, 0, s1) /\ Stands(b, 0 + Len(s1), s2)
    BY <1>1, <1>3, CatStands
  <2> QED BY <1>1, <1>3, <2>1
<1> HIDE DEF t2
<1>6. /\ t3 \in Name /\ Len(t3) = 12
      /\ \A b \in Name : Stands(b, 0, t3) <=> Stands(b, 0, t2) /\ Stands(b, 8, s3)
  <2>1. /\ t2 \o s3 \in Name /\ Len(t2 \o s3) = Len(t2) + Len(s3)
        /\ \A b \in Name : Stands(b, 0, t2 \o s3) <=> Stands(b, 0, t2) /\ Stands(b, 0 + Len(t2), s3)
    BY <1>3, <1>5, CatStands
  <2> QED BY <1>3, <1>5, <2>1
<1> HIDE DEF t3
<1>7. /\ t4 \in Name /\ Len(t4) = 16
      /\ \A b \in Name : Stands(b, 0, t4) <=> Stands(b, 0, t3) /\ Stands(b, 12, s4)
  <2>1. /\ t3 \o s4 \in Name /\ Len(t3 \o s4) = Len(t3) + Len(s4)
        /\ \A b \in Name : Stands(b, 0, t3 \o s4) <=> Stands(b, 0, t3) /\ Stands(b, 0 + Len(t3), s4)
    BY <1>3, <1>6, CatStands
  <2> QED BY <1>3, <1>6, <2>1
<1> HIDE DEF t4
<1>8. /\ t4 \o s5 \in Name /\ Len(t4 \o s5) = 20
      /\ \A b \in Name : Stands(b, 0, t4 \o s5) <=> Stands(b, 0, t4) /\ Stands(b, 16, s5)
  <2>1. /\ t4 \o s5 \in Name /\ Len(t4 \o s5) = Len(t4) + Len(s5)
        /\ \A b \in Name : Stands(b, 0, t4 \o s5) <=> Stands(b, 0, t4) /\ Stands(b, 0 + Len(t4), s5)
    BY <1>3, <1>7, CatStands
  <2> QED BY <1>3, <1>7, <2>1
<1> QED BY <1>4, <1>5, <1>6, <1>7, <1>8 DEF s1, s2, s3, s4, s5, MEMORY_HEADER_SIZE

\* A buffer has a header that is accepted when it has one that this version or one before it wrote.
LEMMA HeaderReads ==
  ASSUME NEW b \in Name, NEW version \in Supported, NEW count \in Word
  PROVE  Stands(b, 0, Header(version, count)) <=>
           HeaderError(b) = "none" /\ getMemoryWord(b, 8) = version /\ getMemoryWord(b, 16) = count
<1>1. PICK l \in Nat : l = Len(b) BY NameParts
<1>2. version \in Word /\ WORD_SIZE \in Word /\ MEMORY_FORMAT_VERSION \in Word
  <2>1. LargestWord \in Nat /\ 1 <= LargestWord BY SMT DEF LargestWord
  <2>2. VERSION \in Nat /\ VERSION <= LargestWord /\ WORD_SIZE \in Nat /\ WORD_SIZE <= LargestWord
    BY FrozenAssumption, Zenon
  <2> QED BY <2>1, <2>2, SMT DEF Word, Supported, MEMORY_FORMAT_VERSION
<1>3. version \in Int /\ count \in Int BY <1>2 DEF Word
<1>4. Stands(b, 0, MEMORY_MAGIC) <=> 4 <= l /\ Bytes(b, 0, 4) = MEMORY_MAGIC
  <2>1. Len(MEMORY_MAGIC) = 4 BY DEF MEMORY_MAGIC
  <2>2. MEMORY_MAGIC \in Name
    <3>1. 71 \in Byte /\ 90 \in Byte /\ 77 \in Byte BY DEF Byte
    <3>2. \A x, y, z \in Byte : <<x, y, z, z>> \in Seq(Byte) OBVIOUS
    <3> QED BY <3>1, <3>2 DEF MEMORY_MAGIC, Name
  <2>3. CASE 4 <= l
    <3>1. 0 \in Nat /\ 0 + Len(MEMORY_MAGIC) <= Len(b) BY <1>1, <2>1, <2>3
    <3> QED BY <2>1, <2>2, <2>3, <3>1, BytesStand
  <2>4. CASE ~(4 <= l) BY <1>1, <2>1, <2>4 DEF Stands
  <2> QED BY <2>3, <2>4
<1>5. \A p \in Nat, w \in Word : Stands(b, p, putMemoryWord(w)) <=> p + 4 <= l /\ getMemoryWord(b, p) = w
  BY <1>1, WordStands
<1>6. /\ Stands(b, 4, putMemoryWord(MEMORY_FORMAT_VERSION)) <=> 8 <= l /\ getMemoryWord(b, 4) = MEMORY_FORMAT_VERSION
      /\ Stands(b, 8, putMemoryWord(version)) <=> 12 <= l /\ getMemoryWord(b, 8) = version
      /\ Stands(b, 12, putMemoryWord(WORD_SIZE)) <=> 16 <= l /\ getMemoryWord(b, 12) = WORD_SIZE
      /\ Stands(b, 16, putMemoryWord(count)) <=> 20 <= l /\ getMemoryWord(b, 16) = count
  <2>1. 4 \in Nat /\ 8 \in Nat /\ 12 \in Nat /\ 16 \in Nat /\ 4 + 4 = 8 /\ 8 + 4 = 12 /\ 12 + 4 = 16 /\ 16 + 4 = 20 OBVIOUS
  <2> QED BY <1>2, <1>5, <2>1
<1>7. Stands(b, 0, Header(version, count)) <=>
        /\ 20 <= l /\ Bytes(b, 0, 4) = MEMORY_MAGIC
        /\ getMemoryWord(b, 4) = MEMORY_FORMAT_VERSION /\ getMemoryWord(b, 8) = version
        /\ getMemoryWord(b, 12) = WORD_SIZE /\ getMemoryWord(b, 16) = count
  <2>1. 20 <= l => 4 <= l /\ 8 <= l /\ 12 <= l /\ 16 <= l BY <1>1
  <2> QED BY <1>3, <1>4, <1>6, <2>1, HeaderPut
<1> QED BY <1>1, <1>7, HeaderAccepts DEF MEMORY_HEADER_SIZE

-----------------------------------------------------------------------------
\* The entries that are written for what is saved, the check entry first, and where each of them ends.
AllSaved(saves) == <<Check>> \o saves

Follow(at, all) ==
  /\ at \in [0 .. Len(all) -> Nat]
  /\ at[0] = MEMORY_HEADER_SIZE
  /\ \A i \in 1 .. Len(all) : at[i] = WordsAfter(at[i - 1], Len(all[i].name)) + 4 * Len(all[i].words)

\* The check is an entry with a name of five bytes and three words.
LEMMA CheckSaved == Check \in SaveType /\ Len(Check.name) = 5 /\ Len(Check.words) = 3
<1>1. 36 \in Byte /\ 103 \in Byte /\ 97 \in Byte /\ 122 \in Byte /\ 108 \in Byte BY DEF Byte
<1>2. \A x, y, z, u, v \in Byte : <<x, y, z, u, v>> \in Seq(Byte) /\ Len(<<x, y, z, u, v>>) = 5 OBVIOUS
<1>3. CheckName \in Name /\ Len(CheckName) = 5 BY <1>1, <1>2 DEF CheckName, Name
<1>4. CheckWords \in Seq(Int) /\ Len(CheckWords) = 3 BY SMT DEF CheckWords
<1> QED BY <1>3, <1>4 DEF Check, SaveType

\* The entries of a buffer are the check's and then the others.
LEMMA AllOfThem ==
  ASSUME NEW saves \in Seq(SaveType)
  PROVE  /\ AllSaved(saves) \in Seq(SaveType)
         /\ Len(AllSaved(saves)) = Len(saves) + 1
         /\ AllSaved(saves)[1] = Check
         /\ \A i \in 1 .. Len(saves) : AllSaved(saves)[i + 1] = saves[i]
<1> DEFINE c == Check
<1>1. c \in SaveType BY CheckSaved
<1> HIDE DEF c
<1>2. /\ <<c>> \o saves \in Seq(SaveType)
      /\ Len(<<c>> \o saves) = Len(saves) + 1
      /\ (<<c>> \o saves)[1] = c
      /\ \A i \in 1 .. Len(saves) : (<<c>> \o saves)[i + 1] = saves[i]
  BY <1>1
<1> QED BY <1>2 DEF AllSaved, c

\* The ends of entries follow from their sizes.
LEMMA EndsExist ==
  ASSUME NEW all \in Seq(SaveType)
  PROVE  \E at : Follow(at, all)
<1> DEFINE n == Len(all)
           Size(i) == 8 + Len(all[i].name) + memoryPadding(Len(all[i].name)) + 4 * Len(all[i].words)
           sizes == [i \in 1 .. n |-> Size(i)]
<1>1. n \in Nat OBVIOUS
<1>2. ASSUME NEW i \in 1 .. n
      PROVE  /\ Len(all[i].name) \in Nat /\ memoryPadding(Len(all[i].name)) \in Nat /\ Len(all[i].words) \in Nat
             /\ Size(i) \in Nat
  <2>1. all[i] \in SaveType BY DEF n
  <2>2. all[i].name \in Name /\ all[i].words \in Seq(Int) BY <2>1 DEF SaveType
  <2>3. Len(all[i].name) \in Nat /\ Len(all[i].words) \in Nat BY <2>2, NameParts
  <2>4. memoryPadding(Len(all[i].name)) \in Nat BY <2>3, PaddingSize
  <2> QED BY <2>3, <2>4
<1>3. sizes \in Seq(Nat) /\ Len(sizes) = n /\ \A i \in 1 .. n : sizes[i] = Size(i) BY <1>1, <1>2
<1> HIDE DEF n, sizes
<1>4. Adds(Sums(sizes), sizes, n) BY <1>3, SumsAdd
<1>5. PICK f : f \in [0 .. n -> Nat] /\ f[0] = 0 /\ \A i \in 1 .. n : f[i] = f[i - 1] + sizes[i] BY <1>4 DEF Adds
<1> DEFINE at == [i \in 0 .. n |-> MEMORY_HEADER_SIZE + f[i]]
<1>6. at \in [0 .. n -> Nat] /\ \A i \in 0 .. n : at[i] = MEMORY_HEADER_SIZE + f[i] BY <1>5 DEF MEMORY_HEADER_SIZE
<1> HIDE DEF at
<1>7. at[0] = MEMORY_HEADER_SIZE BY <1>1, <1>5, <1>6 DEF MEMORY_HEADER_SIZE
<1>8. ASSUME NEW i \in 1 .. n
      PROVE  at[i] = WordsAfter(at[i - 1], Len(all[i].name)) + 4 * Len(all[i].words)
  <2>1. i \in 0 .. n /\ i - 1 \in 0 .. n BY <1>1
  <2>2. at[i] = MEMORY_HEADER_SIZE + (f[i - 1] + Size(i)) /\ at[i - 1] = MEMORY_HEADER_SIZE + f[i - 1] /\ f[i - 1] \in Nat
    BY <1>3, <1>5, <1>6, <2>1
  <2>3. PICK l \in Nat, k \in Nat, c \in Nat :
          l = Len(all[i].name) /\ k = memoryPadding(Len(all[i].name)) /\ c = Len(all[i].words)
    BY <1>2
  <2>4. PICK g \in Nat, h \in Nat : g = f[i - 1] /\ h = MEMORY_HEADER_SIZE BY <2>2 DEF MEMORY_HEADER_SIZE
  <2>5. at[i - 1] = h + g /\ Size(i) = 8 + l + k + 4 * c /\ at[i] = h + (g + Size(i)) BY <2>2, <2>3, <2>4
  <2>6. WordsAfter(at[i - 1], Len(all[i].name)) = (h + g) + 8 + l + k BY <2>3, <2>5 DEF WordsAfter
  <2>7. h + (g + (8 + l + k + 4 * c)) = (h + g) + 8 + l + k + 4 * c OBVIOUS
  <2>8. at[i] = h + (g + (8 + l + k + 4 * c)) BY <2>5
  <2>9. WordsAfter(at[i - 1], Len(all[i].name)) + 4 * Len(all[i].words) = (h + g) + 8 + l + k + 4 * c BY <2>3, <2>6
  <2> QED BY <2>7, <2>8, <2>9
<1> QED BY <1>6, <1>7, <1>8 DEF Follow, n

\* Freezing writes the header and the entries, and nothing else.
LEMMA FrozenStands ==
  ASSUME NEW saves \in Seq(SaveType), NEW version \in Int, NEW at, Follow(at, AllSaved(saves))
  PROVE  /\ FrozenAs(version, saves) \in Name
         /\ Len(FrozenAs(version, saves)) = at[Len(saves) + 1]
         /\ \A b \in Name :
              b = FrozenAs(version, saves) <=>
                /\ Stands(b, 0, Header(version, Len(saves) + 1))
                /\ Len(b) = at[Len(saves) + 1]
                /\ \A i \in 1 .. Len(saves) + 1 : EntryStands(b, at[i - 1], AllSaved(saves)[i])
<1> DEFINE all == AllSaved(saves)
           n == Len(all)
           pieces == [i \in DOMAIN all |-> PutEntry(all[i])]
           head == Header(version, n)
           tail == FlattenSeq(pieces)
<1>1. all \in Seq(SaveType) /\ n = Len(saves) + 1 /\ n \in Nat BY AllOfThem
<1>2. FrozenAs(version, saves) = head \o tail BY DEF FrozenAs, AllSaved, PutEntry
<1> HIDE DEF all, n
<1>3. DOMAIN all = 1 .. n /\ \A i \in 1 .. n : all[i] \in SaveType BY <1>1 DEF n
<1>4. pieces \in Seq(Name) /\ Len(pieces) = n /\ \A i \in 1 .. n : pieces[i] = PutEntry(all[i])
  <2>1. \A i \in 1 .. n : PutEntry(all[i]) \in Name BY <1>3, EntryPut
  <2> QED BY <1>1, <1>3, <2>1
<1>5. /\ at \in [0 .. n -> Nat] /\ at[0] = MEMORY_HEADER_SIZE
      /\ \A i \in 1 .. n : at[i] = WordsAfter(at[i - 1], Len(all[i].name)) + 4 * Len(all[i].words)
  BY DEF Follow, all, n
<1>6. \A i \in 1 .. n : at[i - 1] \in Nat
  <2>1. \A i \in 1 .. n : i - 1 \in 0 .. n BY <1>1
  <2> QED BY <1>5, <2>1
<1> HIDE DEF pieces
<1>7. Starts(at, pieces)
  <2>1. ASSUME NEW i \in 1 .. n
        PROVE  at[i] = at[i - 1] + Len(pieces[i])
    <3>1. at[i - 1] \in Nat /\ all[i] \in SaveType BY <1>3, <1>6
    <3>2. at[i - 1] + Len(PutEntry(all[i])) = WordsAfter(at[i - 1], Len(all[i].name)) + 4 * Len(all[i].words)
      BY <3>1, EntryPut
    <3> QED BY <1>4, <1>5, <3>2
  <2> QED BY <1>4, <1>5, <2>1 DEF Starts
<1>8. /\ tail \in Name /\ at[0] + Len(tail) = at[n]
      /\ \A b \in Name :
           Stands(b, at[0], tail) <=> at[n] <= Len(b) /\ \A i \in 1 .. n : Stands(b, at[i - 1], pieces[i])
  BY <1>4, <1>7, FlatStands
<1> HIDE DEF tail
<1>9. n \in Int /\ head \in Name /\ Len(head) = MEMORY_HEADER_SIZE BY <1>1, HeaderPut
<1> HIDE DEF head
<1>10. /\ head \o tail \in Name /\ Len(head \o tail) = Len(head) + Len(tail)
       /\ \A b \in Name : Stands(b, 0, head \o tail) <=> Stands(b, 0, head) /\ Stands(b, 0 + Len(head), tail)
  BY <1>8, <1>9, CatStands
<1>11. at[n] \in Nat /\ Len(head \o tail) = at[n] /\ 0 + Len(head) = at[0]
  <2>1. at[0] \in Nat /\ at[n] \in Nat
    <3>1. 0 \in 0 .. n /\ n \in 0 .. n BY <1>1
    <3> QED BY <1>5, <3>1
  <2> QED BY <1>5, <1>8, <1>9, <1>10, <2>1
<1>12. ASSUME NEW b \in Name
       PROVE  b = head \o tail <=>
                Stands(b, 0, head) /\ Len(b) = at[n] /\ \A i \in 1 .. n : EntryStands(b, at[i - 1], all[i])
  <2>1. b = head \o tail <=> Len(b) = at[n] /\ Stands(b, 0, head \o tail) BY <1>10, <1>11, WholeStands
  <2>2. Stands(b, 0, head \o tail) <=> Stands(b, 0, head) /\ Stands(b, at[0], tail) BY <1>10, <1>11
  <2>3. \A i \in 1 .. n : Stands(b, at[i - 1], pieces[i]) <=> EntryStands(b, at[i - 1], all[i])
    BY <1>3, <1>4, <1>6, EntryPut
  <2>4. Len(b) = at[n] => at[n] <= Len(b) BY <1>11
  <2> QED BY <1>8, <2>1, <2>2, <2>3, <2>4
<1> QED BY <1>1, <1>2, <1>10, <1>11, <1>12 DEF all, head

-----------------------------------------------------------------------------
(***************************************************************************)
(* What getMemoryEntry reads stands in the buffer.                         *)
(***************************************************************************)
ReadAs(b, p, entry) ==
  /\ Len(entry.name) <= LargestWord /\ entry.wordCount <= LargestWord
  /\ Len(entry.padding) = memoryPadding(Len(entry.name))
  /\ entry.words = WordsAfter(p, Len(entry.name))
  /\ entry.next = entry.words + 4 * entry.wordCount
  /\ entry.next <= Len(b)
  /\ Stands(b, p, putMemoryWord(Len(entry.name)))
  /\ Stands(b, p + 4, entry.name)
  /\ Stands(b, p + 4 + Len(entry.name), entry.padding)
  /\ Stands(b, entry.words - 4, putMemoryWord(entry.wordCount))

\* What an entry saves.
SavedBy(b, entry) ==
  [name |-> entry.name,
   words |-> [i \in 1 .. entry.wordCount |-> getMemoryWord(b, entry.words + (i - 1) * 4)]]

\* A part of a buffer stands in it.
LEMMA PartStands ==
  ASSUME NEW b \in Name, NEW p \in Nat, NEW count \in Nat, p + count <= Len(b)
  PROVE  Stands(b, p, Bytes(b, p, count))
<1>1. Bytes(b, p, count) \in Name /\ Len(Bytes(b, p, count)) = count BY BytesRead
<1> QED BY <1>1, BytesStand

\* The entry that is read from a place where one fits is the one the bytes there describe.
LEMMA EntryReadAs ==
  ASSUME thaw.buffer \in Name, NEW p \in Nat, EntryFits(p)
  PROVE  ReadAs(thaw.buffer, p, getMemoryEntry(p))
<1>1. PICK size \in Nat : size = Len(thaw.buffer) BY NameParts
<1>2. p + 4 <= size /\ NameFits(p) BY <1>1 DEF EntryFits, NameFits, BytesAfter
<1>3. PICK length \in Int : length = NameLengthAt(p) BY <1>1, <1>2, WordRead DEF NameLengthAt
<1>4. 0 <= length /\ length <= size - p - 4 BY <1>1, <1>2, <1>3 DEF NameFits, Above, BytesAfter
<1>5. PICK padding \in 0 .. 3 : padding = memoryPadding(length) BY <1>4, PaddingSize
<1>6. size - p - 4 - length >= padding + 4
  <2>1. BytesAfter(p) - 4 - NameLengthAt(p) >= memoryPadding(NameLengthAt(p)) + 4 BY <1>2 DEF NameFits
  <2> QED BY <1>1, <1>3, <1>5, <2>1 DEF BytesAfter
<1>7. PICK words \in Nat : words = WordsAt(p) /\ words = p + 4 + length + padding + 4
  BY <1>3, <1>4, <1>5 DEF WordsAt
<1>8. words <= size /\ words - 4 \in Nat /\ (words - 4) + 4 <= size BY <1>4, <1>6, <1>7
<1>9. PICK count \in Int : count = WordCountAt(p) /\ count = getMemoryWord(thaw.buffer, words - 4)
  <2>1. getMemoryWord(thaw.buffer, words - 4) \in Int BY <1>1, <1>8, WordRead
  <2> QED BY <1>7, <2>1 DEF WordCountAt
<1> DEFINE entry == getMemoryEntry(p)
<1>10. /\ entry.name = Bytes(thaw.buffer, p + 4, length)
       /\ entry.padding = Bytes(thaw.buffer, p + 4 + length, padding)
       /\ entry.wordCount = count /\ entry.words = words /\ entry.next = words + count * 4
  BY <1>3, <1>5, <1>7, <1>9 DEF getMemoryEntry
<1>11. entry.next <= size BY <1>1, EntryRead
<1> HIDE DEF entry
<1>12. length \in Word /\ length <= LargestWord
  <2>1. getMemoryWord(thaw.buffer, p) \in Word BY <1>1, <1>2, WordStands
  <2> QED BY <1>3, <2>1 DEF NameLengthAt, Word
<1>13. count \in Word /\ count <= LargestWord
  <2>1. getMemoryWord(thaw.buffer, words - 4) \in Word BY <1>1, <1>8, WordStands
  <2> QED BY <1>9, <2>1 DEF Word
<1>14. length \in Nat /\ padding \in Nat /\ p + 4 \in Nat /\ p + 4 + length \in Nat
       /\ p + 4 + length <= size /\ p + 4 + length + padding <= size
  BY <1>4, <1>6
<1>15. Len(entry.name) = length /\ Stands(thaw.buffer, p + 4, entry.name)
  <2>1. Len(Bytes(thaw.buffer, p + 4, length)) = length BY <1>1, <1>14, BytesRead
  <2>2. Stands(thaw.buffer, p + 4, Bytes(thaw.buffer, p + 4, length)) BY <1>1, <1>14, PartStands
  <2> QED BY <1>10, <2>1, <2>2
<1>16. Len(entry.padding) = padding /\ Stands(thaw.buffer, p + 4 + length, entry.padding)
  <2>1. Len(Bytes(thaw.buffer, p + 4 + length, padding)) = padding BY <1>1, <1>14, BytesRead
  <2>2. Stands(thaw.buffer, p + 4 + length, Bytes(thaw.buffer, p + 4 + length, padding)) BY <1>1, <1>14, PartStands
  <2> QED BY <1>10, <2>1, <2>2
<1>17. Stands(thaw.buffer, p, putMemoryWord(length))
  BY <1>1, <1>2, <1>3, <1>12, WordStands DEF NameLengthAt
<1>18. Stands(thaw.buffer, words - 4, putMemoryWord(count)) BY <1>1, <1>8, <1>9, <1>13, WordStands
<1>19. words = WordsAfter(p, length) BY <1>4, <1>5, <1>7 DEF WordsAfter
<1>20. words + count * 4 = words + 4 * count OBVIOUS
<1>21. ReadAs(thaw.buffer, p, entry)
  BY <1>1, <1>5, <1>10, <1>11, <1>12, <1>13, <1>15, <1>16, <1>17, <1>18, <1>19, <1>20 DEF ReadAs
<1> QED BY <1>21 DEF entry

\* The parts of what is saved.
LEMMA SaveParts ==
  ASSUME NEW save \in SaveType, NEW p \in Nat
  PROVE  /\ save.name \in Name /\ save.words \in Seq(Int)
         /\ Len(save.name) \in Nat /\ Len(save.words) \in Nat
         /\ memoryPadding(Len(save.name)) \in Nat
         /\ WordsAfter(p, Len(save.name)) = p + 8 + Len(save.name) + memoryPadding(Len(save.name))
         /\ WordsAfter(p, Len(save.name)) \in Nat
         /\ HasRoom(save) => Len(save.name) \in Word /\ Len(save.words) \in Word
<1>1. save.name \in Name /\ save.words \in Seq(Int) BY DEF SaveType
<1>2. Len(save.name) \in Nat /\ Len(save.words) \in Nat BY <1>1, NameParts
<1>3. memoryPadding(Len(save.name)) \in Nat BY <1>2, PaddingSize
<1>4. WordsAfter(p, Len(save.name)) = p + 8 + Len(save.name) + memoryPadding(Len(save.name)) BY DEF WordsAfter
<1>5. \A n \in Nat : n <= LargestWord => n \in Word BY SMT DEF Word, LargestWord
<1>6. WordsAfter(p, Len(save.name)) \in Nat
  <2>1. PICK l \in Nat, k \in Nat : l = Len(save.name) /\ k = memoryPadding(Len(save.name)) BY <1>2, <1>3
  <2>2. p + 8 + l + k \in Nat OBVIOUS
  <2> QED BY <1>4, <2>1, <2>2
<1>7. HasRoom(save) => Len(save.name) \in Word /\ Len(save.words) \in Word BY <1>2, <1>5 DEF HasRoom
<1> QED BY <1>1, <1>2, <1>3, <1>4, <1>6, <1>7

\* An entry that was written is read.
LEMMA SavedFits ==
  ASSUME thaw.buffer \in Name, NEW p \in Nat, NEW save \in SaveType, HasRoom(save), EntryStands(thaw.buffer, p, save)
  PROVE  EntryFits(p)
<1>1. PICK size \in Nat : size = Len(thaw.buffer) BY NameParts
<1>2. PICK l \in Nat, c \in Nat, k \in Nat :
        l = Len(save.name) /\ c = Len(save.words) /\ k = memoryPadding(Len(save.name))
  BY SaveParts
<1>3. PICK w \in Nat : w = p + 8 + l + k
  <2>1. p + 8 + l + k \in Nat OBVIOUS
  <2> QED BY <2>1
<1>4. w = WordsAfter(p, Len(save.name)) BY <1>2, <1>3, SaveParts
<1>5. l \in Word /\ c \in Word BY <1>2, SaveParts
<1>6. w + 4 * c <= size BY <1>1, <1>2, <1>4 DEF EntryStands
<1>7. p + 4 <= size /\ NameLengthAt(p) = l
  <2>1. Stands(thaw.buffer, p, putMemoryWord(l)) BY <1>2 DEF EntryStands
  <2> QED BY <1>1, <1>5, <2>1, WordStands DEF NameLengthAt
<1>8. WordsAt(p) = w
  <2>1. WordsAt(p) = p + 4 + l + k + 4 BY <1>2, <1>7 DEF WordsAt
  <2> QED BY <1>3, <2>1
<1>9. WordCountAt(p) = c
  <2>1. Stands(thaw.buffer, w - 4, putMemoryWord(c)) BY <1>2, <1>4 DEF EntryStands
  <2>2. w - 4 \in Nat BY <1>3
  <2> QED BY <1>5, <1>8, <2>1, <2>2, WordStands DEF WordCountAt
<1>10. NameFits(p)
  <2>1. BytesAfter(p) = size - p BY <1>1 DEF BytesAfter
  <2>2. w <= size BY <1>6
  <2>3. size - p >= 4 /\ l >= 0 /\ l <= size - p - 4 /\ size - p - 4 - l >= k + 4 BY <1>3, <2>2
  <2>4. ~Above(l, size - p - 4) BY <2>3 DEF Above
  <2> QED BY <1>2, <1>7, <2>1, <2>3, <2>4 DEF NameFits
<1>11. ~Above(c, (size - w) \div 4)
  <2>1. size - w \in Nat /\ 4 * c <= size - w BY <1>1, <1>6
  <2>2. c <= (size - w) \div 4 /\ (size - w) \div 4 \in Nat BY <2>1
  <2> QED BY <2>2 DEF Above
<1> QED BY <1>1, <1>8, <1>9, <1>10, <1>11 DEF EntryFits, BytesAfter

\* And is read as what was written.
LEMMA ReadAlike ==
  ASSUME NEW b \in Name, NEW p \in Nat, NEW entry \in EntryType, ReadAs(b, p, entry),
         NEW save \in SaveType, HasRoom(save), EntryStands(b, p, save)
  PROVE  /\ entry.name = save.name
         /\ entry.wordCount = Len(save.words)
         /\ entry.next = WordsAfter(p, Len(save.name)) + 4 * Len(save.words)
         /\ entry.padding = Zeros(Len(entry.padding))
<1>1. PICK size \in Nat : size = Len(b) BY NameParts
<1>2. PICK l \in Nat, c \in Nat, k \in Nat :
        l = Len(save.name) /\ c = Len(save.words) /\ k = memoryPadding(Len(save.name))
  BY SaveParts
<1>3. PICK w \in Nat : w = p + 8 + l + k
  <2>1. p + 8 + l + k \in Nat OBVIOUS
  <2> QED BY <2>1
<1>4. w = WordsAfter(p, Len(save.name)) BY <1>2, <1>3, SaveParts
<1>5. l \in Word /\ c \in Word BY <1>2, SaveParts
<1>6. PICK m \in Nat, d \in Nat : m = Len(entry.name) /\ d = entry.wordCount /\ entry.name \in Name /\ entry.padding \in Name
  <2>1. entry.name \in Name /\ entry.padding \in Name /\ entry.wordCount \in Nat BY DEF EntryType
  <2> QED BY <2>1, NameParts
<1>7. m \in Word /\ d \in Word
  <2>1. \A n \in Nat : n <= LargestWord => n \in Word BY SMT DEF Word, LargestWord
  <2> QED BY <1>6, <2>1 DEF ReadAs
<1>8. m = l
  <2>1. Stands(b, p, putMemoryWord(l)) BY <1>2 DEF EntryStands
  <2>2. Stands(b, p, putMemoryWord(m)) BY <1>6 DEF ReadAs
  <2> QED BY <1>5, <1>7, <2>1, <2>2, WordStands
<1>9. \A q \in Nat, s, t \in Name : Stands(b, q, s) /\ Stands(b, q, t) /\ Len(s) = Len(t) => s = t
  <2> SUFFICES ASSUME NEW q \in Nat, NEW s \in Name, NEW t \in Name, Stands(b, q, s), Stands(b, q, t), Len(s) = Len(t)
               PROVE  s = t
    OBVIOUS
  <2>1. Len(s) \in Nat /\ s = [i \in 1 .. Len(s) |-> s[i]] /\ t = [i \in 1 .. Len(t) |-> t[i]] BY DEF Name
  <2>2. \A i \in 1 .. Len(s) : s[i] = t[i] BY DEF Stands
  <2> QED BY <2>1, <2>2
<1>10. entry.name = save.name
  <2>1. Stands(b, p + 4, save.name) /\ save.name \in Name BY SaveParts DEF EntryStands
  <2>2. Stands(b, p + 4, entry.name) BY DEF ReadAs
  <2>3. p + 4 \in Nat OBVIOUS
  <2> QED BY <1>2, <1>6, <1>8, <1>9, <2>1, <2>2, <2>3
<1>11. Len(entry.padding) = k /\ entry.words = w BY <1>2, <1>4, <1>10 DEF ReadAs
<1>12. d = c
  <2>1. Stands(b, w - 4, putMemoryWord(c)) BY <1>2, <1>4 DEF EntryStands
  <2>2. Stands(b, w - 4, putMemoryWord(d)) BY <1>6, <1>11 DEF ReadAs
  <2>3. w - 4 \in Nat BY <1>3
  <2> QED BY <1>5, <1>7, <2>1, <2>2, <2>3, WordStands
<1>13. entry.padding = Zeros(k)
  <2>1. Zeros(k) \in Name /\ Len(Zeros(k)) = k BY ZerosPut
  <2>2. Stands(b, p + 4 + l, Zeros(k)) BY <1>2 DEF EntryStands
  <2>3. Stands(b, p + 4 + l, entry.padding) BY <1>2, <1>10 DEF ReadAs
  <2>4. p + 4 + l \in Nat OBVIOUS
  <2> QED BY <1>6, <1>9, <1>11, <2>1, <2>2, <2>3, <2>4
<1>14. entry.next = w + 4 * c BY <1>6, <1>11, <1>12 DEF ReadAs
<1> QED BY <1>2, <1>4, <1>6, <1>10, <1>11, <1>12, <1>13, <1>14

\* What is read with zeros for its padding is what would be written for it.
LEMMA ReadStands ==
  ASSUME NEW b \in Name, NEW p \in Nat, NEW entry \in EntryType, ReadAs(b, p, entry),
         entry.padding = Zeros(Len(entry.padding))
  PROVE  /\ SavedBy(b, entry) \in SaveType
         /\ HasRoom(SavedBy(b, entry))
         /\ Len(SavedBy(b, entry).words) = entry.wordCount
         /\ EntryStands(b, p, SavedBy(b, entry))
<1> DEFINE save == SavedBy(b, entry)
<1>1. PICK size \in Nat : size = Len(b) BY NameParts
<1>2. PICK m \in Nat, d \in Nat, w \in Nat :
        m = Len(entry.name) /\ d = entry.wordCount /\ w = entry.words /\ entry.name \in Name /\ entry.padding \in Name
  <2>1. entry.name \in Name /\ entry.padding \in Name /\ entry.wordCount \in Nat /\ entry.words \in Nat BY DEF EntryType
  <2> QED BY <2>1, NameParts
<1>3. w + 4 * d <= size BY <1>1, <1>2 DEF ReadAs
<1>4. ASSUME NEW i \in 1 .. d
      PROVE  /\ getMemoryWord(b, w + (i - 1) * 4) \in Int
             /\ Stands(b, w + 4 * (i - 1), putMemoryWord(getMemoryWord(b, w + (i - 1) * 4)))
  <2>1. w + 4 * (i - 1) \in Nat /\ w + (i - 1) * 4 = w + 4 * (i - 1) /\ (w + 4 * (i - 1)) + 4 <= size BY <1>3
  <2>2. getMemoryWord(b, w + 4 * (i - 1)) \in Word BY <1>1, <2>1, WordStands
  <2>3. Stands(b, w + 4 * (i - 1), putMemoryWord(getMemoryWord(b, w + 4 * (i - 1)))) BY <1>1, <2>1, <2>2, WordStands
  <2>4. getMemoryWord(b, w + 4 * (i - 1)) \in Int BY <2>2 DEF Word
  <2> QED BY <2>1, <2>3, <2>4
<1>5. /\ save.name = entry.name /\ DOMAIN save = {"name", "words"}
      /\ save.words = [i \in 1 .. d |-> getMemoryWord(b, w + (i - 1) * 4)]
      /\ save = [name |-> save.name, words |-> save.words]
  BY <1>2 DEF SavedBy
<1> HIDE DEF save
<1>6. save.words \in Seq(Int) /\ Len(save.words) = d /\ \A i \in 1 .. d : save.words[i] = getMemoryWord(b, w + (i - 1) * 4)
  <2> DEFINE Fetched(i) == getMemoryWord(b, w + (i - 1) * 4)
  <2>1. \A i \in 1 .. d : Fetched(i) \in Int BY <1>4
  <2>2. save.words = [i \in 1 .. d |-> Fetched(i)] BY <1>5
  <2> HIDE DEF Fetched
  <2>3. save.words \in Seq(Int) /\ Len(save.words) = d /\ \A i \in 1 .. d : save.words[i] = Fetched(i) BY <1>2, <2>1, <2>2
  <2> QED BY <2>3 DEF Fetched
<1>7. save \in SaveType BY <1>2, <1>5, <1>6 DEF SaveType
<1>8. HasRoom(save) BY <1>2, <1>5, <1>6 DEF HasRoom, ReadAs
<1>9. /\ WordsAfter(p, Len(save.name)) = w
      /\ Stands(b, p, putMemoryWord(Len(save.name)))
      /\ Stands(b, p + 4, save.name)
      /\ Stands(b, p + 4 + Len(save.name), Zeros(memoryPadding(Len(save.name))))
      /\ Stands(b, w - 4, putMemoryWord(Len(save.words)))
  BY <1>2, <1>5, <1>6 DEF ReadAs
<1>10. EntryStands(b, p, save) BY <1>1, <1>3, <1>4, <1>6, <1>9 DEF EntryStands
<1> QED BY <1>2, <1>6, <1>7, <1>8, <1>10 DEF save

-----------------------------------------------------------------------------
(***************************************************************************)
(* Entries that are read follow those that were written.                   *)
(***************************************************************************)
\* What freezing writes for these entries is in b, each where the one before it ends.
Written(b, at, all) ==
  /\ Follow(at, all)
  /\ Len(b) = at[Len(all)]
  /\ \A i \in 1 .. Len(all) : EntryStands(b, at[i - 1], all[i])

\* These entries are read from b, each where the one before it ends.
AllRead(b, entries) ==
  \A i \in 1 .. Len(entries) : ReadAs(b, NextAfter(entries, i - 1), entries[i])

Alike(entry, save) ==
  entry.name = save.name /\ entry.wordCount = Len(save.words) /\ entry.padding = Zeros(Len(entry.padding))

\* Where an entry ends is known, and what is read from there is what was written there.
LEMMA ReadFollows ==
  ASSUME NEW b \in Name, NEW entries \in Seq(EntryType), AllRead(b, entries),
         NEW all \in Seq(SaveType), NEW at, Written(b, at, all), \A i \in 1 .. Len(all) : HasRoom(all[i]),
         Len(entries) <= Len(all)
  PROVE  /\ \A i \in 0 .. Len(entries) : NextAfter(entries, i) = at[i]
         /\ \A i \in 1 .. Len(entries) : Alike(entries[i], all[i])
<1> DEFINE m == Len(entries)
           n == Len(all)
<1>1. m \in Nat /\ n \in Nat /\ m <= n OBVIOUS
<1>2. \A i \in 1 .. m : entries[i] \in EntryType OBVIOUS
<1>3. \A i \in 1 .. n : all[i] \in SaveType OBVIOUS
<1>4. /\ at \in [0 .. n -> Nat] /\ at[0] = MEMORY_HEADER_SIZE
      /\ \A i \in 1 .. n : at[i] = WordsAfter(at[i - 1], Len(all[i].name)) + 4 * Len(all[i].words)
      /\ \A i \in 1 .. n : EntryStands(b, at[i - 1], all[i])
  BY DEF Written, Follow
<1>5. \A i \in 1 .. m : ReadAs(b, NextAfter(entries, i - 1), entries[i]) BY DEF AllRead
<1>6. \A i \in 1 .. m : NextAfter(entries, i) = entries[i].next BY <1>1 DEF NextAfter
<1>7. NextAfter(entries, 0) = MEMORY_HEADER_SIZE BY DEF NextAfter
<1> HIDE DEF m, n
<1>8. ASSUME NEW i \in 1 .. m, NextAfter(entries, i - 1) = at[i - 1]
      PROVE  NextAfter(entries, i) = at[i] /\ Alike(entries[i], all[i])
  <2>1. i \in 1 .. n /\ i - 1 \in 0 .. n BY <1>1
  <2>2. at[i - 1] \in Nat BY <1>4, <2>1
  <2>3. PICK p \in Nat, save \in SaveType, entry \in EntryType :
          p = at[i - 1] /\ save = all[i] /\ entry = entries[i]
    BY <1>2, <1>3, <2>1, <2>2
  <2>4. ReadAs(b, p, entry) /\ EntryStands(b, p, save) /\ HasRoom(save)
    <3>1. HasRoom(all[i]) BY <2>1 DEF n
    <3> QED BY <1>4, <1>5, <1>8, <2>1, <2>3, <3>1
  <2>5. /\ entry.name = save.name
        /\ entry.wordCount = Len(save.words)
        /\ entry.next = WordsAfter(p, Len(save.name)) + 4 * Len(save.words)
        /\ entry.padding = Zeros(Len(entry.padding))
    BY <2>4, ReadAlike
  <2>6. entry.next = at[i] BY <1>4, <2>1, <2>3, <2>5
  <2> QED BY <1>6, <2>3, <2>5, <2>6 DEF Alike
<1> DEFINE Bad == {i \in 0 .. m : NextAfter(entries, i) # at[i]}
<1>9. Bad = {}
  <2>1. SUFFICES ASSUME Bad # {} PROVE FALSE OBVIOUS
  <2>2. Bad \in SUBSET Nat OBVIOUS
  <2> HIDE DEF Bad
  <2>3. PICK k \in Bad : \A j \in Bad : k <= j BY <2>1, <2>2, LeastNumber
  <2>4. k \in 0 .. m /\ NextAfter(entries, k) # at[k] BY <2>3 DEF Bad
  <2>5. k # 0 BY <1>4, <1>7, <2>4
  <2>6. k \in 1 .. m /\ k - 1 \in 0 .. m /\ ~(k <= k - 1) BY <1>1, <2>4, <2>5
  <2>7. k - 1 \notin Bad BY <2>3, <2>6
  <2>8. NextAfter(entries, k - 1) = at[k - 1] BY <2>6, <2>7 DEF Bad
  <2> QED BY <1>8, <2>4, <2>6, <2>8
<1>10. \A i \in 0 .. m : NextAfter(entries, i) = at[i] BY <1>9
<1>11. \A i \in 1 .. m : i - 1 \in 0 .. m BY <1>1
<1>12. \A i \in 1 .. m : Alike(entries[i], all[i]) BY <1>8, <1>10, <1>11
<1> QED BY <1>10, <1>12 DEF m

-----------------------------------------------------------------------------
(***************************************************************************)
(* What can be saved, and what is no saved memory.                         *)
(***************************************************************************)
Saveable ==
  {saves \in Seq(SaveType) :
     /\ Len(saves) < LargestWord
     /\ Ascending(saves)
     /\ \A i \in 1 .. Len(saves) : HasRoom(saves[i]) /\ isValidIdentifier(saves[i].name)}

Unsaved(b) == \A version \in Supported : \A saves \in Saveable : b # FrozenAs(version, saves)

HeaderFor(b, count) == HeaderError(b) = "none" /\ getMemoryWord(b, 16) = count

\* Each of what is saved has room for its lengths, and the check entry too.
LEMMA AllHaveRoom ==
  ASSUME NEW saves \in Seq(SaveType), \A i \in 1 .. Len(saves) : HasRoom(saves[i])
  PROVE  \A i \in 1 .. Len(AllSaved(saves)) : HasRoom(AllSaved(saves)[i])
<1> DEFINE all == AllSaved(saves)
           n == Len(saves)
<1>1. n \in Nat OBVIOUS
<1>2. Len(all) = n + 1 /\ all[1] = Check /\ \A i \in 1 .. n : all[i + 1] = saves[i] BY AllOfThem
<1> HIDE DEF all
<1>3. HasRoom(Check)
  <2>1. 5 <= LargestWord /\ 3 <= LargestWord BY SMT DEF LargestWord
  <2> QED BY <2>1, CheckSaved DEF HasRoom
<1>4. ASSUME NEW i \in 1 .. n + 1 PROVE HasRoom(all[i])
  <2>1. CASE i = 1 BY <1>2, <1>3, <2>1
  <2>2. CASE i # 1
    <3>1. i - 1 \in 1 .. n /\ (i - 1) + 1 = i BY <1>1, <2>2
    <3>2. all[i] = saves[i - 1] BY <1>2, <3>1
    <3> QED BY <3>1, <3>2
  <2> QED BY <2>1, <2>2
<1> QED BY <1>2, <1>4 DEF all

\* A buffer that freezing has written has its header and its entries.
LEMMA SavedWritten ==
  ASSUME NEW b \in Name, NEW version \in Supported, NEW saves \in Seq(SaveType), Len(saves) < LargestWord
  PROVE  b = FrozenAs(version, saves) <=>
           /\ HeaderFor(b, Len(saves) + 1) /\ getMemoryWord(b, 8) = version
           /\ \E at : Written(b, at, AllSaved(saves))
<1> DEFINE all == AllSaved(saves)
           count == Len(saves) + 1
<1>1. all \in Seq(SaveType) /\ Len(all) = count BY AllOfThem
<1>2. count \in Word
  <2>1. PICK n \in Nat : n = Len(saves) OBVIOUS
  <2>2. n < LargestWord BY <2>1
  <2>3. n + 1 \in Int /\ -LargestWord - 1 <= n + 1 /\ n + 1 <= LargestWord BY <2>2, SMT DEF LargestWord
  <2> QED BY <2>1, <2>3 DEF Word
<1>3. version \in Int BY DEF Supported
<1>4. PICK f : Follow(f, all) BY <1>1, EndsExist
<1>5. Stands(b, 0, Header(version, count)) <=> HeaderFor(b, count) /\ getMemoryWord(b, 8) = version
  BY <1>2, HeaderReads DEF HeaderFor
<1> HIDE DEF count
<1>6. ASSUME NEW at, Follow(at, all)
      PROVE  b = FrozenAs(version, saves) <=>
               /\ Stands(b, 0, Header(version, count))
               /\ Len(b) = at[count]
               /\ \A i \in 1 .. count : EntryStands(b, at[i - 1], all[i])
  BY <1>3, <1>6, FrozenStands DEF count
<1>7. ASSUME NEW at PROVE Written(b, at, all) <=> /\ Follow(at, all)
                                                  /\ Len(b) = at[count]
                                                  /\ \A i \in 1 .. count : EntryStands(b, at[i - 1], all[i])
  <2> HIDE DEF all
  <2> QED BY <1>1 DEF Written
<1> HIDE DEF all
<1>8. ASSUME b = FrozenAs(version, saves) PROVE Stands(b, 0, Header(version, count)) /\ Written(b, f, all)
  BY <1>4, <1>6, <1>7, <1>8
<1>9. ASSUME Stands(b, 0, Header(version, count)), NEW at, Written(b, at, all) PROVE b = FrozenAs(version, saves)
  BY <1>6, <1>7, <1>9
<1> QED BY <1>5, <1>8, <1>9 DEF all, count

\* A buffer with another header is none.
LEMMA HeaderUnsaved ==
  ASSUME NEW b \in Name, HeaderError(b) # "none"
  PROVE  Unsaved(b)
<1>1. ASSUME NEW version \in Supported, NEW saves \in Saveable, b = FrozenAs(version, saves) PROVE FALSE
  <2>1. saves \in Seq(SaveType) /\ Len(saves) < LargestWord BY DEF Saveable
  <2> QED BY <1>1, <2>1, SavedWritten DEF HeaderFor
<1> QED BY <1>1 DEF Unsaved

-----------------------------------------------------------------------------
(***************************************************************************)
(* What has been read so far, and why a buffer is refused.                 *)
(***************************************************************************)
Reading(t) ==
  /\ HeaderError(t.buffer) = "none"
  /\ t.left \in Int
  /\ t.left + Len(t.entries) = getMemoryWord(t.buffer, 16)
  /\ 0 <= getMemoryWord(t.buffer, 16) => 0 <= t.left
  /\ AllRead(t.buffer, t.entries)

\* The size of the check entry, and where it is.
LEMMA CheckSize ==
  /\ MEMORY_HEADER_SIZE \in Nat
  /\ WordsAfter(MEMORY_HEADER_SIZE, Len(Check.name)) + 4 * Len(Check.words) = MEMORY_HEADER_SIZE + MEMORY_CHECK_SIZE
  /\ PutEntry(Check) = putMemoryCheck /\ putMemoryCheck \in Name /\ Len(putMemoryCheck) = MEMORY_CHECK_SIZE
<1>1. Check \in SaveType /\ Len(Check.name) = 5 /\ Len(Check.words) = 3 BY CheckSaved
<1>2. WordsAfter(MEMORY_HEADER_SIZE, 5) + 4 * 3 = MEMORY_HEADER_SIZE + MEMORY_CHECK_SIZE
  <2>1. memoryPadding(5) = 3
    <3>1. 5 % 4 = 1 /\ (4 - 1) % 4 = 3 OBVIOUS
    <3> QED BY <3>1 DEF memoryPadding
  <2> QED BY <2>1 DEF WordsAfter, MEMORY_HEADER_SIZE, MEMORY_CHECK_SIZE
<1>3. PutEntry(Check) = putMemoryCheck BY DEF PutEntry, putMemoryCheck
<1>4. PICK c \in SaveType : c = Check BY <1>1
<1>5. PutEntry(c) \in Name /\ \A p \in Nat : p + Len(PutEntry(c)) = WordsAfter(p, Len(c.name)) + 4 * Len(c.words)
  BY EntryPut
<1>6. MEMORY_HEADER_SIZE \in Nat BY DEF MEMORY_HEADER_SIZE
<1>7. MEMORY_HEADER_SIZE + Len(PutEntry(c)) = MEMORY_HEADER_SIZE + MEMORY_CHECK_SIZE BY <1>1, <1>2, <1>4, <1>5, <1>6
<1>8. Len(PutEntry(c)) \in Nat BY <1>5, NameParts
<1>9. Len(PutEntry(c)) = MEMORY_CHECK_SIZE
  <2>1. PICK x \in Nat : x = Len(PutEntry(c)) BY <1>8
  <2>2. \A h, y \in Nat : h + x = h + y => x = y OBVIOUS
  <2>3. MEMORY_CHECK_SIZE \in Nat BY DEF MEMORY_CHECK_SIZE
  <2> QED BY <1>6, <1>7, <2>1, <2>2, <2>3
<1> QED BY <1>1, <1>2, <1>3, <1>4, <1>5, <1>6, <1>9

\* From a buffer that freezing wrote, what has been read is what was written.
LEMMA ReadSaved ==
  ASSUME NEW t, ThawTyped(t), Reading(t), NEW version \in Supported, NEW saves \in Saveable,
         t.buffer = FrozenAs(version, saves)
  PROVE  /\ t.left \in Nat
         /\ t.left + Len(t.entries) = Len(AllSaved(saves))
         /\ \A i \in 1 .. Len(t.entries) : Alike(t.entries[i], AllSaved(saves)[i])
         /\ \E at : /\ Written(t.buffer, at, AllSaved(saves))
                    /\ \A i \in 0 .. Len(t.entries) : NextAfter(t.entries, i) = at[i]
<1> DEFINE all == AllSaved(saves)
<1>1. PICK b \in Name, entries \in Seq(EntryType) : b = t.buffer /\ entries = t.entries BY DEF ThawTyped
<1>2. saves \in Seq(SaveType) /\ Len(saves) < LargestWord /\ \A i \in 1 .. Len(saves) : HasRoom(saves[i])
  BY DEF Saveable
<1>3. all \in Seq(SaveType) /\ Len(all) = Len(saves) + 1 /\ Len(saves) \in Nat BY <1>2, AllOfThem
<1>4. \A i \in 1 .. Len(all) : HasRoom(all[i]) BY <1>2, AllHaveRoom
<1>5. HeaderFor(b, Len(saves) + 1) /\ \E at : Written(b, at, all) BY <1>1, <1>2, SavedWritten
<1> HIDE DEF all
<1>6. PICK at : Written(b, at, all) BY <1>5
<1>7. t.left \in Nat /\ t.left + Len(entries) = Len(all)
  <2>1. getMemoryWord(b, 16) = Len(saves) + 1 BY <1>5 DEF HeaderFor
  <2>2. t.left + Len(entries) = getMemoryWord(b, 16) /\ t.left \in Int /\ (0 <= getMemoryWord(b, 16) => 0 <= t.left)
    BY <1>1 DEF Reading
  <2> QED BY <1>3, <2>1, <2>2
<1>8. Len(entries) <= Len(all)
  <2>1. Len(entries) \in Nat OBVIOUS
  <2> QED BY <1>7, <2>1
<1>9. AllRead(b, entries) BY <1>1 DEF Reading
<1>10. /\ \A i \in 0 .. Len(entries) : NextAfter(entries, i) = at[i]
       /\ \A i \in 1 .. Len(entries) : Alike(entries[i], all[i])
  BY <1>3, <1>4, <1>6, <1>8, <1>9, ReadFollows
<1> QED BY <1>1, <1>6, <1>7, <1>10 DEF all

\* An entry that does not fit the buffer was not written by freezing.
LEMMA EntryUnsaved ==
  ASSUME ThawTyped(thaw), Chained(thaw.entries, thaw.p, Len(thaw.buffer)), Reading(thaw), thaw.left # 0, ~EntryFits(thaw.p)
  PROVE  Unsaved(thaw.buffer)
<1>1. ASSUME NEW version \in Supported, NEW saves \in Saveable, thaw.buffer = FrozenAs(version, saves) PROVE FALSE
  <2> DEFINE all == AllSaved(saves)
             m == Len(thaw.entries)
  <2>1. /\ thaw.left \in Nat /\ thaw.left + m = Len(all)
        /\ \E at : Written(thaw.buffer, at, all) /\ \A i \in 0 .. m : NextAfter(thaw.entries, i) = at[i]
    BY <1>1, ReadSaved
  <2>2. saves \in Seq(SaveType) /\ \A i \in 1 .. Len(saves) : HasRoom(saves[i]) BY DEF Saveable
  <2>3. all \in Seq(SaveType) BY <2>2, AllOfThem
  <2>4. \A i \in 1 .. Len(all) : HasRoom(all[i]) BY <2>2, AllHaveRoom
  <2>5. m \in Nat /\ thaw.buffer \in Name /\ thaw.p \in Nat BY DEF ThawTyped
  <2> HIDE DEF all
  <2>6. PICK at : Written(thaw.buffer, at, all) /\ \A i \in 0 .. m : NextAfter(thaw.entries, i) = at[i] BY <2>1
  <2>7. thaw.p = at[m]
    <3>1. thaw.p = NextAfter(thaw.entries, m) BY DEF Chained
    <3>2. m \in 0 .. m BY <2>5
    <3> QED BY <2>6, <3>1, <3>2
  <2>8. m + 1 \in 1 .. Len(all) /\ (m + 1) - 1 = m BY <2>1, <2>5
  <2>9. EntryStands(thaw.buffer, thaw.p, all[m + 1]) /\ HasRoom(all[m + 1]) /\ all[m + 1] \in SaveType
    <3>1. EntryStands(thaw.buffer, at[(m + 1) - 1], all[m + 1]) BY <2>6, <2>8 DEF Written
    <3> QED BY <2>3, <2>4, <2>7, <2>8, <3>1
  <2> QED BY <2>5, <2>9, SavedFits
<1> QED BY <1>1 DEF Unsaved

\* And what freezing wrote is kept and well formed: one that is not was not written by it.
LEMMA ValidateUnsaved ==
  ASSUME ThawTyped(thaw), Chained(thaw.entries, thaw.p, Len(thaw.buffer)), Reading(thaw), thaw.left = 0,
         ~(CanaryKept /\ WellFormed)
  PROVE  Unsaved(thaw.buffer)
<1>1. ASSUME NEW version \in Supported, NEW saves \in Saveable, thaw.buffer = FrozenAs(version, saves)
      PROVE  CanaryKept /\ WellFormed
  <2> DEFINE all == AllSaved(saves)
             m == Len(thaw.entries)
             n == Len(saves)
  <2>1. /\ thaw.left + m = Len(all)
        /\ \A i \in 1 .. m : Alike(thaw.entries[i], all[i])
        /\ \E at : Written(thaw.buffer, at, all) /\ \A i \in 0 .. m : NextAfter(thaw.entries, i) = at[i]
    BY <1>1, ReadSaved
  <2>2. saves \in Seq(SaveType) /\ n \in Nat BY DEF Saveable
  <2>3. Len(all) = n + 1 /\ all[1] = Check /\ \A i \in 1 .. n : all[i + 1] = saves[i] BY <2>2, AllOfThem
  <2>4. m \in Nat /\ thaw.buffer \in Name /\ thaw.entries \in Seq(EntryType) BY DEF ThawTyped
  <2> HIDE DEF all, m, n
  <2>5. m = n + 1 /\ m = Len(all) BY <2>1, <2>2, <2>3, <2>4
  <2>6. PICK at : Written(thaw.buffer, at, all) /\ \A i \in 0 .. m : NextAfter(thaw.entries, i) = at[i] BY <2>1
  <2>7. /\ at[0] = MEMORY_HEADER_SIZE
        /\ at[1] = WordsAfter(at[0], Len(all[1].name)) + 4 * Len(all[1].words)
        /\ EntryStands(thaw.buffer, at[0], all[1])
        /\ Len(thaw.buffer) = at[m]
    <3>1. 1 \in 1 .. Len(all) /\ 1 - 1 = 0 BY <2>2, <2>5
    <3> QED BY <2>5, <2>6, <3>1 DEF Written, Follow
  <2>8. CanaryKept
    <3>1. thaw.entries # <<>>
      <4>1. thaw.entries = <<>> => m = 0 BY DEF m
      <4> QED BY <2>2, <2>5, <4>1
    <3>2. thaw.entries[1].next = MEMORY_HEADER_SIZE + MEMORY_CHECK_SIZE
      <4>1. 1 \in 0 .. m BY <2>2, <2>5
      <4>2. NextAfter(thaw.entries, 1) = thaw.entries[1].next BY DEF NextAfter
      <4> QED BY <2>3, <2>6, <2>7, <4>1, <4>2, CheckSize
    <3>3. Bytes(thaw.buffer, MEMORY_HEADER_SIZE, MEMORY_CHECK_SIZE) = putMemoryCheck
      <4>1. PICK c \in SaveType : c = Check BY CheckSaved
      <4>2. Stands(thaw.buffer, MEMORY_HEADER_SIZE, PutEntry(c)) BY <2>3, <2>4, <2>7, <4>1, EntryPut, CheckSize
      <4>3. Stands(thaw.buffer, MEMORY_HEADER_SIZE, putMemoryCheck) BY <4>1, <4>2, CheckSize
      <4>4. MEMORY_HEADER_SIZE + Len(putMemoryCheck) <= Len(thaw.buffer) BY <4>3 DEF Stands
      <4>5. Bytes(thaw.buffer, MEMORY_HEADER_SIZE, Len(putMemoryCheck)) = putMemoryCheck
        BY <2>4, <4>3, <4>4, BytesStand, CheckSize
      <4> QED BY <4>5, CheckSize
    <3> QED BY <3>1, <3>2, <3>3 DEF CanaryKept
  <2>9. ASSUME NEW e \in 2 .. m
        PROVE  /\ isValidIdentifier(thaw.entries[e].name)
               /\ thaw.entries[e].padding = Zeros(Len(thaw.entries[e].padding))
               /\ e > 2 => Precedes(thaw.entries[e - 1].name, thaw.entries[e].name)
    <3>1. e \in 1 .. m /\ e - 1 \in 1 .. n /\ (e - 1) + 1 = e BY <2>2, <2>5
    <3>2. Alike(thaw.entries[e], saves[e - 1])
      <4>1. Alike(thaw.entries[e], all[e]) BY <2>1, <3>1
      <4>2. all[e] = saves[e - 1] BY <2>3, <3>1
      <4> QED BY <4>1, <4>2
    <3>3. isValidIdentifier(saves[e - 1].name) BY <3>1 DEF Saveable, n
    <3>4. ASSUME e > 2 PROVE Precedes(thaw.entries[e - 1].name, thaw.entries[e].name)
      <4>1. e - 1 \in 1 .. m /\ e - 2 \in 1 .. n /\ (e - 2) + 1 = e - 1 /\ e - 2 < e - 1 BY <2>2, <2>5, <3>4
      <4>2. Alike(thaw.entries[e - 1], saves[e - 2])
        <5>1. Alike(thaw.entries[e - 1], all[e - 1]) BY <2>1, <4>1
        <5>2. all[e - 1] = saves[e - 2] BY <2>3, <4>1
        <5> QED BY <5>1, <5>2
      <4>3. Precedes(saves[e - 2].name, saves[e - 1].name)
        <5>1. Ascending(saves) BY DEF Saveable
        <5>2. DOMAIN saves = 1 .. n BY <2>2 DEF n
        <5> QED BY <3>1, <4>1, <5>1, <5>2 DEF Ascending
      <4> QED BY <3>2, <4>2, <4>3 DEF Alike
    <3> QED BY <3>2, <3>3, <3>4 DEF Alike
  <2>10. thaw.p = Len(thaw.buffer)
    <3>1. thaw.p = NextAfter(thaw.entries, m) BY DEF Chained, m
    <3>2. m \in 0 .. m BY <2>4
    <3> QED BY <2>6, <2>7, <3>1, <3>2
  <2>11. WellFormed BY <2>9, <2>10 DEF WellFormed, m
  <2> QED BY <2>8, <2>11
<1> QED BY <1>1 DEF Unsaved

\* What a walk goes over: well-formed entries that fill the buffer, the check entry the first of them.
Kept(t) ==
  /\ t.left = 0
  /\ t.entries # <<>>
  /\ t.entries[1].next = MEMORY_HEADER_SIZE + MEMORY_CHECK_SIZE
  /\ Bytes(t.buffer, MEMORY_HEADER_SIZE, MEMORY_CHECK_SIZE) = putMemoryCheck
  /\ \A e \in 2 .. Len(t.entries) :
       isValidIdentifier(t.entries[e].name) /\ t.entries[e].padding = Zeros(Len(t.entries[e].padding))
  /\ NextAfter(t.entries, Len(t.entries)) = Len(t.buffer)

\* What these entries save.
SavesOf(t) == [i \in 1 .. Len(t.entries) - 1 |-> SavedBy(t.buffer, t.entries[i + 1])]

\* What is walked over is to the last byte what freezing it writes.
LEMMA KeptFrozen ==
  ASSUME NEW t, ThawTyped(t), Reading(t), Kept(t)
  PROVE  /\ SavesOf(t) \in Seq(SaveType)
         /\ Len(SavesOf(t)) = Len(t.entries) - 1
         /\ Len(SavesOf(t)) < LargestWord
         /\ \A i \in 1 .. Len(SavesOf(t)) : HasRoom(SavesOf(t)[i]) /\ isValidIdentifier(SavesOf(t)[i].name)
         /\ getMemoryWord(t.buffer, 8) \in Supported
         /\ t.buffer = FrozenAs(getMemoryWord(t.buffer, 8), SavesOf(t))
<1> DEFINE saves == SavesOf(t)
           all == AllSaved(saves)
           m == Len(t.entries)
<1>1. PICK b \in Name, entries \in Seq(EntryType) : b = t.buffer /\ entries = t.entries BY DEF ThawTyped
<1>2. m \in Nat /\ m = Len(entries) /\ m # 0 /\ \A i \in 1 .. m : entries[i] \in EntryType
  BY <1>1 DEF Kept
<1>3. /\ HeaderError(b) = "none" /\ AllRead(b, entries) /\ getMemoryWord(b, 16) = m
      /\ \A i \in 1 .. m : ReadAs(b, NextAfter(entries, i - 1), entries[i])
  <2>1. t.left + m = getMemoryWord(t.buffer, 16) /\ t.left = 0 BY DEF Reading, Kept
  <2>2. getMemoryWord(t.buffer, 16) = m BY <1>2, <2>1
  <2> QED BY <1>1, <2>2 DEF Reading, AllRead
<1> HIDE DEF m
<1>4. \A i \in 1 .. m : NextAfter(entries, i) = entries[i].next /\ entries[i].next \in Nat
  <2>1. \A i \in 1 .. m : i # 0 BY <1>2
  <2>2. \A i \in 1 .. m : entries[i].next \in Nat BY <1>2 DEF EntryType
  <2> QED BY <2>1, <2>2 DEF NextAfter
<1>5. ASSUME NEW i \in 1 .. m - 1
      PROVE  /\ SavedBy(b, entries[i + 1]) \in SaveType
             /\ HasRoom(SavedBy(b, entries[i + 1]))
             /\ SavedBy(b, entries[i + 1]).name = entries[i + 1].name
             /\ isValidIdentifier(entries[i + 1].name)
             /\ EntryStands(b, NextAfter(entries, i), SavedBy(b, entries[i + 1]))
             /\ NextAfter(entries, i + 1)
                  = WordsAfter(NextAfter(entries, i), Len(SavedBy(b, entries[i + 1]).name))
                      + 4 * Len(SavedBy(b, entries[i + 1]).words)
  <2>1. i \in 1 .. m /\ i + 1 \in 1 .. m /\ i + 1 \in 2 .. m /\ (i + 1) - 1 = i BY <1>2
  <2>2. PICK p \in Nat, entry \in EntryType : p = NextAfter(entries, i) /\ entry = entries[i + 1] BY <1>2, <1>4, <2>1
  <2>3. ReadAs(b, p, entry) BY <1>3, <2>1, <2>2
  <2>4. isValidIdentifier(entry.name) /\ entry.padding = Zeros(Len(entry.padding)) BY <1>1, <2>1, <2>2 DEF Kept, m
  <2>5. /\ SavedBy(b, entry) \in SaveType
        /\ HasRoom(SavedBy(b, entry))
        /\ Len(SavedBy(b, entry).words) = entry.wordCount
        /\ EntryStands(b, p, SavedBy(b, entry))
    BY <2>3, <2>4, ReadStands
  <2>6. SavedBy(b, entry).name = entry.name BY DEF SavedBy
  <2>7. entry.next = WordsAfter(p, Len(entry.name)) + 4 * entry.wordCount BY <2>3 DEF ReadAs
  <2>8. NextAfter(entries, i + 1) = entry.next BY <1>4, <2>1, <2>2
  <2> QED BY <2>2, <2>4, <2>5, <2>6, <2>7, <2>8
<1>6. /\ saves \in Seq(SaveType) /\ Len(saves) = m - 1
      /\ \A i \in 1 .. m - 1 : saves[i] = SavedBy(b, entries[i + 1])
  <2> DEFINE S(i) == SavedBy(b, entries[i + 1])
  <2>1. \A i \in 1 .. m - 1 : S(i) \in SaveType BY <1>5
  <2>2. saves = [i \in 1 .. m - 1 |-> S(i)] BY <1>1 DEF SavesOf, m
  <2> HIDE DEF S, saves
  <2>3. m - 1 \in Nat BY <1>2
  <2>4. saves \in Seq(SaveType) /\ Len(saves) = m - 1 /\ \A i \in 1 .. m - 1 : saves[i] = S(i) BY <2>1, <2>2, <2>3
  <2> QED BY <2>4 DEF S
<1> HIDE DEF saves
<1>7. \A i \in 1 .. m - 1 : HasRoom(saves[i]) /\ isValidIdentifier(saves[i].name) BY <1>5, <1>6
<1>8. /\ all \in Seq(SaveType) /\ Len(all) = m /\ all[1] = Check
      /\ \A i \in 1 .. m - 1 : all[i + 1] = SavedBy(b, entries[i + 1])
  <2>1. /\ all \in Seq(SaveType) /\ Len(all) = Len(saves) + 1 /\ all[1] = Check
        /\ \A i \in 1 .. Len(saves) : all[i + 1] = saves[i]
    BY <1>6, AllOfThem
  <2>2. (m - 1) + 1 = m BY <1>2
  <2> HIDE DEF all
  <2> QED BY <1>6, <2>1, <2>2
<1> HIDE DEF all
<1>9. MEMORY_HEADER_SIZE <= Len(b) /\ getMemoryWord(b, 8) \in Supported BY <1>3, HeaderAccepts
<1>10. m <= LargestWord /\ m - 1 < LargestWord
  <2>1. 16 \in Nat /\ 16 + 4 <= Len(b) BY <1>9 DEF MEMORY_HEADER_SIZE
  <2>2. getMemoryWord(b, 16) \in Word BY <2>1, WordStands
  <2>3. m <= LargestWord BY <1>3, <2>2 DEF Word
  <2>4. LargestWord \in Nat BY SMT DEF LargestWord
  <2> QED BY <1>2, <2>3, <2>4
<1>11. /\ NextAfter(entries, 0) = MEMORY_HEADER_SIZE
       /\ NextAfter(entries, 1) = WordsAfter(NextAfter(entries, 0), Len(all[1].name)) + 4 * Len(all[1].words)
       /\ EntryStands(b, NextAfter(entries, 0), all[1])
  <2>1. NextAfter(entries, 0) = MEMORY_HEADER_SIZE BY DEF NextAfter
  <2>2. 1 \in 1 .. m /\ 1 - 1 = 0 BY <1>2
  <2>3. NextAfter(entries, 1) = MEMORY_HEADER_SIZE + MEMORY_CHECK_SIZE BY <1>1, <1>4, <2>2 DEF Kept
  <2>4. entries[1].next <= Len(b) BY <1>3, <2>2 DEF ReadAs
  <2>5. MEMORY_HEADER_SIZE + Len(putMemoryCheck) <= Len(b) BY <1>4, <2>2, <2>3, <2>4, CheckSize
  <2>6. Stands(b, MEMORY_HEADER_SIZE, putMemoryCheck)
    <3>1. Bytes(b, MEMORY_HEADER_SIZE, Len(putMemoryCheck)) = putMemoryCheck BY <1>1, CheckSize DEF Kept
    <3> QED BY <2>5, <3>1, BytesStand, CheckSize
  <2>7. PICK c \in SaveType : c = Check BY CheckSaved
  <2>8. Stands(b, MEMORY_HEADER_SIZE, PutEntry(c)) BY <2>6, <2>7, CheckSize
  <2>9. EntryStands(b, MEMORY_HEADER_SIZE, c) BY <2>8, EntryPut, CheckSize
  <2> QED BY <1>8, <2>1, <2>3, <2>7, <2>9, CheckSize
<1> DEFINE at == [i \in 0 .. m |-> NextAfter(entries, i)]
<1>12. at \in [0 .. m -> Nat] /\ \A i \in 0 .. m : at[i] = NextAfter(entries, i)
  <2>1. ASSUME NEW i \in 0 .. m PROVE NextAfter(entries, i) \in Nat
    <3>1. CASE i = 0 BY <1>11, <3>1, CheckSize
    <3>2. CASE i # 0
      <4>1. i \in 1 .. m BY <1>2, <3>2
      <4> QED BY <1>4, <4>1
    <3> QED BY <3>1, <3>2
  <2> QED BY <2>1
<1> HIDE DEF at
<1>13. ASSUME NEW i \in 1 .. m
       PROVE  /\ at[i] = WordsAfter(at[i - 1], Len(all[i].name)) + 4 * Len(all[i].words)
              /\ EntryStands(b, at[i - 1], all[i])
  <2>1. i \in 0 .. m /\ i - 1 \in 0 .. m BY <1>2
  <2>2. at[i] = NextAfter(entries, i) /\ at[i - 1] = NextAfter(entries, i - 1) BY <1>12, <2>1
  <2>3. CASE i = 1
    <3>1. 1 - 1 = 0 OBVIOUS
    <3> QED BY <1>11, <2>2, <2>3, <3>1
  <2>4. CASE i # 1
    <3>1. PICK j \in 1 .. m - 1 : i = j + 1 /\ i - 1 = j
      <4>1. i - 1 \in 1 .. m - 1 /\ i = (i - 1) + 1 BY <1>2, <2>4
      <4> QED BY <4>1
    <3>2. all[i] = SavedBy(b, entries[j + 1]) BY <1>8, <3>1
    <3> QED BY <1>5, <2>2, <3>1, <3>2
  <2> QED BY <2>3, <2>4
<1>14. Len(b) = at[m] /\ at[0] = MEMORY_HEADER_SIZE
  <2>1. NextAfter(entries, m) = Len(b) BY <1>1 DEF Kept, m
  <2>2. 0 \in 0 .. m /\ m \in 0 .. m BY <1>2
  <2> QED BY <1>11, <1>12, <2>1, <2>2
<1>15. Written(b, at, all) BY <1>8, <1>12, <1>13, <1>14 DEF Written, Follow
<1>16. b = FrozenAs(getMemoryWord(b, 8), saves)
  <2>1. Len(saves) < LargestWord /\ Len(saves) + 1 = m BY <1>2, <1>6, <1>10
  <2>2. HeaderFor(b, Len(saves) + 1) BY <1>3, <2>1 DEF HeaderFor
  <2>3. \E f : Written(b, f, AllSaved(saves)) BY <1>15 DEF all
  <2> QED BY <1>6, <1>9, <2>1, <2>2, <2>3, SavedWritten
<1> QED BY <1>1, <1>6, <1>7, <1>9, <1>10, <1>16 DEF saves, m

-----------------------------------------------------------------------------
(***************************************************************************)
(* The invariant of reading: what is walked over has been read as it is    *)
(* kept, and what is refused is no saved memory.                           *)
(***************************************************************************)
Finished(t) == t.at = "done" /\ t.status \in {"OK", "MISMATCH"}

ReadSoFar(t) ==
  /\ t.at \in {"entries", "validate", "walk"} \/ Finished(t) => Reading(t)
  /\ t.at = "validate" => t.left = 0
  /\ t.at = "walk" \/ Finished(t) => Kept(t)
  /\ t.at = "done" /\ ~Finished(t) => Unsaved(t.buffer)

BInv == WInv /\ ReadSoFar(thaw)

\* What has been read is told by the buffer, the entries and how many are left.
LEMMA ReadingSame ==
  ASSUME NEW s, NEW t, s.entries = t.entries, s.buffer = t.buffer, s.left = t.left
  PROVE  (Reading(s) <=> Reading(t)) /\ (Kept(s) <=> Kept(t))
BY DEF Reading, Kept

\* Before thawing nothing has been read.
LEMMA NothingRead ==
  ASSUME NEW t, t.at \in {"none", "assemble"}
  PROVE  ReadSoFar(t)
BY DEF ReadSoFar, Finished

\* Of a header that is accepted on, entries are read.
LEMMA HeaderRead ==
  ASSUME WInv, ThawHeader
  PROVE  ReadSoFar(thaw')
<1>1. /\ thaw = Thaw("assemble") /\ ThawTyped(thaw)
      /\ DOMAIN thaw = ThawFields /\ thaw.entries = <<>>
  BY DEF ThawHeader, WInv, FInv, Staged, ThawTyped, Thaw
<1>2. PICK buffer \in Name, prefix \in BOOLEAN :
        thaw' = IF HeaderError(buffer) # "none"
                THEN [thaw EXCEPT !.at = "done", !.status = HeaderError(buffer), !.buffer = buffer,
                                  !.prefix = prefix, !.before = memory]
                ELSE [thaw EXCEPT !.at = "entries", !.buffer = buffer, !.prefix = prefix, !.before = memory,
                                  !.p = MEMORY_HEADER_SIZE, !.left = getMemoryWord(buffer, 16)]
  BY DEF ThawHeader, Name
<1>3. CASE HeaderError(buffer) # "none"
  <2>1. thaw'.at = "done" /\ thaw'.status = HeaderError(buffer) /\ thaw'.buffer = buffer
    BY <1>1, <1>2, <1>3 DEF ThawFields
  <2>2. Unsaved(buffer) BY <1>3, HeaderUnsaved
  <2>3. ~Finished(thaw') BY <2>1, HeaderErrors DEF Finished
  <2> QED BY <2>1, <2>2, <2>3 DEF ReadSoFar
<1>4. CASE HeaderError(buffer) = "none"
  <2>1. /\ thaw'.at = "entries" /\ thaw'.buffer = buffer /\ thaw'.entries = <<>>
        /\ thaw'.left = getMemoryWord(buffer, 16)
    BY <1>1, <1>2, <1>4 DEF ThawFields
  <2>2. getMemoryWord(buffer, 16) \in Int
    <3>1. MEMORY_HEADER_SIZE <= Len(buffer) BY <1>4, HeaderAccepts
    <3>2. 16 \in Nat /\ 16 + 4 <= Len(buffer) BY <3>1 DEF MEMORY_HEADER_SIZE
    <3> QED BY <3>2, WordRead
  <2>3. AllRead(buffer, <<>>) BY DEF AllRead
  <2>4. getMemoryWord(buffer, 16) + Len(<<>>) = getMemoryWord(buffer, 16) BY <2>2
  <2>5. Reading(thaw') BY <1>4, <2>1, <2>2, <2>3, <2>4 DEF Reading
  <2> QED BY <2>1, <2>5 DEF ReadSoFar, Finished
<1> QED BY <1>3, <1>4

\* One more entry is read.
LEMMA ReadAppended ==
  ASSUME NEW b \in Name, NEW entries \in Seq(EntryType), AllRead(b, entries), NEW entry \in EntryType,
         ReadAs(b, NextAfter(entries, Len(entries)), entry)
  PROVE  AllRead(b, Append(entries, entry)) /\ Len(Append(entries, entry)) = Len(entries) + 1
<1> DEFINE longer == Append(entries, entry)
           n == Len(entries)
<1>1. /\ n \in Nat /\ Len(longer) = n + 1 /\ longer[n + 1] = entry
      /\ \A i \in 1 .. n : longer[i] = entries[i]
  OBVIOUS
<1>2. ReadAs(b, NextAfter(entries, n), entry) /\ \A i \in 1 .. n : ReadAs(b, NextAfter(entries, i - 1), entries[i])
  BY DEF AllRead
<1> HIDE DEF longer, n
<1>3. \A i \in 0 .. n : NextAfter(longer, i) = NextAfter(entries, i) BY <1>1 DEF NextAfter
<1>4. ASSUME NEW i \in 1 .. n + 1 PROVE ReadAs(b, NextAfter(longer, i - 1), longer[i])
  <2>1. i - 1 \in 0 .. n BY <1>1
  <2>2. CASE i = n + 1
    <3>1. i - 1 = n BY <1>1, <2>2
    <3> QED BY <1>1, <1>2, <1>3, <2>1, <2>2, <3>1
  <2>3. CASE i # n + 1
    <3>1. i \in 1 .. n BY <1>1, <2>3
    <3> QED BY <1>1, <1>2, <1>3, <2>1, <3>1
  <2> QED BY <2>2, <2>3
<1> QED BY <1>1, <1>4 DEF AllRead, longer, n

\* An entry is read, or does not fit.
LEMMA EntryAdded ==
  ASSUME WInv, ReadSoFar(thaw), ThawEntry
  PROVE  ReadSoFar(thaw')
<1>1. thaw.at = "entries" BY DEF ThawEntry, Thawing
<1>2. /\ ThawTyped(thaw) /\ DOMAIN thaw = ThawFields /\ Chained(thaw.entries, thaw.p, Len(thaw.buffer))
      /\ thaw.buffer \in Name /\ thaw.entries \in Seq(EntryType) /\ thaw.p \in Nat
  BY <1>1 DEF WInv, FInv, ThawTyped, EntriesRead
<1>3. Reading(thaw) BY <1>1 DEF ReadSoFar
<1>4. CASE thaw.left = 0 /\ thaw' = [thaw EXCEPT !.at = "validate"]
  <2>1. /\ thaw'.at = "validate" /\ thaw'.left = thaw.left /\ thaw'.entries = thaw.entries
        /\ thaw'.buffer = thaw.buffer
    BY <1>2, <1>4 DEF ThawFields
  <2>2. Reading(thaw') BY <1>3, <2>1, ReadingSame
  <2> QED BY <1>4, <2>1, <2>2 DEF ReadSoFar, Finished
<1>5. CASE thaw.left # 0 /\ ~EntryFits(thaw.p) /\ Refused("TRUNCATED")
  <2>1. thaw'.at = "done" /\ thaw'.status = "TRUNCATED" /\ thaw'.buffer = thaw.buffer
    BY <1>2, <1>5 DEF ThawFields, Refused
  <2>2. Unsaved(thaw.buffer) BY <1>2, <1>3, <1>5, EntryUnsaved
  <2> QED BY <2>1, <2>2 DEF ReadSoFar, Finished
<1>6. CASE /\ thaw.left # 0 /\ EntryFits(thaw.p)
           /\ thaw' = [thaw EXCEPT !.left = thaw.left - 1, !.entries = Append(thaw.entries, getMemoryEntry(thaw.p)),
                                   !.p = getMemoryEntry(thaw.p).next]
  <2> DEFINE entry == getMemoryEntry(thaw.p)
             longer == Append(thaw.entries, entry)
  <2>1. entry \in EntryType BY <1>2, <1>6, EntryRead
  <2>2. ReadAs(thaw.buffer, thaw.p, entry) BY <1>2, <1>6, EntryReadAs
  <2>3. thaw' = [thaw EXCEPT !.left = thaw.left - 1, !.entries = longer, !.p = entry.next] BY <1>6
  <2> HIDE DEF entry
  <2>4. thaw.p = NextAfter(thaw.entries, Len(thaw.entries)) BY <1>2 DEF Chained
  <2>5. AllRead(thaw.buffer, longer) /\ Len(longer) = Len(thaw.entries) + 1
    BY <1>2, <1>3, <2>1, <2>2, <2>4, ReadAppended DEF Reading
  <2> HIDE DEF longer
  <2>6. PICK left : left = thaw.left - 1 OBVIOUS
  <2>7. PICK p : p = entry.next OBVIOUS
  <2>8. thaw' = [thaw EXCEPT !.left = left, !.entries = longer, !.p = p] BY <2>3, <2>6, <2>7
  <2>9. thaw'.at = "entries" /\ thaw'.left = left /\ thaw'.entries = longer /\ thaw'.buffer = thaw.buffer
    BY <1>1, <1>2, <2>8 DEF ThawFields
  <2>10. Reading(thaw')
    <3>1. PICK word : word = getMemoryWord(thaw.buffer, 16) OBVIOUS
    <3>2. /\ HeaderError(thaw.buffer) = "none" /\ thaw.left \in Int /\ thaw.left + Len(thaw.entries) = word
          /\ (0 <= word => 0 <= thaw.left)
      BY <1>3, <3>1 DEF Reading
    <3>3. Len(thaw.entries) \in Nat BY <1>2
    <3>4. left \in Int /\ left + Len(longer) = word /\ (0 <= word => 0 <= left) BY <1>6, <2>5, <2>6, <3>2, <3>3
    <3> QED BY <2>5, <2>9, <3>1, <3>2, <3>4 DEF Reading
  <2> QED BY <2>9, <2>10 DEF ReadSoFar, Finished
<1> QED BY <1>4, <1>5, <1>6 DEF ThawEntry

\* All that was read is kept, or is refused.
LEMMA AllValidated ==
  ASSUME WInv, ReadSoFar(thaw), ThawValidate
  PROVE  ReadSoFar(thaw')
<1>1. thaw.at = "validate" BY DEF ThawValidate, Thawing
<1>2. ThawTyped(thaw) /\ DOMAIN thaw = ThawFields /\ Chained(thaw.entries, thaw.p, Len(thaw.buffer))
  BY <1>1 DEF WInv, FInv, ThawTyped, EntriesRead
<1>3. Reading(thaw) /\ thaw.left = 0 BY <1>1 DEF ReadSoFar
<1>4. ASSUME NEW error, error \notin {"OK", "MISMATCH"}, Refused(error), ~(CanaryKept /\ WellFormed)
      PROVE  ReadSoFar(thaw')
  <2>1. thaw'.at = "done" /\ thaw'.status = error /\ thaw'.buffer = thaw.buffer
    BY <1>2, <1>4 DEF ThawFields, Refused
  <2>2. Unsaved(thaw.buffer) BY <1>2, <1>3, <1>4, ValidateUnsaved
  <2> QED BY <1>4, <2>1, <2>2 DEF ReadSoFar, Finished
<1>5. CASE CanaryKept /\ WellFormed /\ thaw' = [thaw EXCEPT !.at = "walk", !.e = 2]
  <2>1. /\ thaw'.at = "walk" /\ thaw'.left = thaw.left /\ thaw'.entries = thaw.entries
        /\ thaw'.buffer = thaw.buffer
    BY <1>2, <1>5 DEF ThawFields
  <2>2. NextAfter(thaw.entries, Len(thaw.entries)) = Len(thaw.buffer) BY <1>2, <1>5 DEF Chained, WellFormed
  <2>3. Kept(thaw) BY <1>3, <1>5, <2>2 DEF Kept, CanaryKept, WellFormed
  <2>4. Reading(thaw') /\ Kept(thaw') BY <1>3, <2>1, <2>3, ReadingSame
  <2> QED BY <2>1, <2>4 DEF ReadSoFar, Finished
<1> QED BY <1>4, <1>5 DEF ThawValidate

\* The walk reads no more.
LEMMA WalkReadsOn ==
  ASSUME WInv, ReadSoFar(thaw), ThawWalk
  PROVE  ReadSoFar(thaw')
<1>1. thaw.at = "walk" /\ DOMAIN thaw = ThawFields BY DEF ThawWalk, Thawing, WInv, FInv, ThawTyped
<1>2. Reading(thaw) /\ Kept(thaw) BY <1>1 DEF ReadSoFar
<1>3. ASSUME thaw'.at = "walk" \/ Finished(thaw'), thaw'.left = thaw.left, thaw'.entries = thaw.entries,
             thaw'.buffer = thaw.buffer
      PROVE  ReadSoFar(thaw')
  <2>1. Reading(thaw') /\ Kept(thaw') BY <1>2, <1>3, ReadingSame
  <2>2. thaw'.at # "validate" /\ ~(thaw'.at = "done" /\ ~Finished(thaw')) BY <1>3 DEF Finished
  <2> QED BY <2>1, <2>2 DEF ReadSoFar
<1>4. ASSUME NEW e, NEW o, NEW exact, thaw' = [thaw EXCEPT !.e = e, !.o = o, !.exact = exact]
      PROVE  ReadSoFar(thaw')
  <2>1. thaw'.at = "walk" /\ thaw'.left = thaw.left /\ thaw'.entries = thaw.entries /\ thaw'.buffer = thaw.buffer
    BY <1>1, <1>4 DEF ThawFields
  <2> QED BY <1>3, <2>1
<1>5. ASSUME NEW result \in {"OK", "MISMATCH"}, thaw' = [thaw EXCEPT !.at = "done", !.status = result]
      PROVE  ReadSoFar(thaw')
  <2>1. /\ thaw'.at = "done" /\ thaw'.status = result /\ thaw'.left = thaw.left /\ thaw'.entries = thaw.entries
        /\ thaw'.buffer = thaw.buffer
    BY <1>1, <1>5 DEF ThawFields
  <2> QED BY <1>3, <2>1 DEF Finished
<1>6. CASE thaw' = [thaw EXCEPT !.e = thaw.e + 1, !.exact = FALSE]
  <2>1. /\ thaw'.at = "walk" /\ thaw'.left = thaw.left /\ thaw'.entries = thaw.entries /\ thaw'.buffer = thaw.buffer
    BY <1>1, <1>6 DEF ThawFields
  <2> QED BY <1>3, <2>1
<1>7. CASE thaw' = [thaw EXCEPT !.o = thaw.o + 1, !.exact = FALSE]
  <2>1. /\ thaw'.at = "walk" /\ thaw'.left = thaw.left /\ thaw'.entries = thaw.entries /\ thaw'.buffer = thaw.buffer
    BY <1>1, <1>7 DEF ThawFields
  <2> QED BY <1>3, <2>1
<1>8. CASE thaw' = [thaw EXCEPT !.e = thaw.e + 1, !.o = thaw.o + 1,
                                !.exact = thaw.exact /\ EntryNow.wordCount = OwnerNow.ownedWords]
  <2>1. PICK e, o, exact : e = thaw.e + 1 /\ o = thaw.o + 1
                             /\ exact = (thaw.exact /\ EntryNow.wordCount = OwnerNow.ownedWords) OBVIOUS
  <2>2. thaw' = [thaw EXCEPT !.e = e, !.o = o, !.exact = exact] BY <1>8, <2>1
  <2> QED BY <1>4, <2>2
<1>9. CASE thaw' = [thaw EXCEPT !.at = "done", !.status = IF thaw.exact THEN "OK" ELSE "MISMATCH"]
  <2>1. PICK result \in {"OK", "MISMATCH"} : result = IF thaw.exact THEN "OK" ELSE "MISMATCH" OBVIOUS
  <2> QED BY <1>5, <1>9, <2>1
<1> QED BY <1>6, <1>7, <1>8, <1>9 DEF ThawWalk

\* Reading keeps its invariant, whatever buffer the host has put in.
THEOREM ReadingInvariant == FrozenSpec => []BInv
<1>1. ASSUME FrozenInit PROVE ReadSoFar(thaw)
  <2>1. thaw.at = "none" BY <1>1, ThawStart DEF FrozenInit
  <2> QED BY <2>1, NothingRead
<1>2. ASSUME WInv, ReadSoFar(thaw), [FrozenNext]_thawVars PROVE ReadSoFar(thaw')
  <2>1. CASE Assemble \/ RunProgram \/ freezeMemorySize \/ freezeMemory \/ UNCHANGED thawVars
    <3>1. thaw' = thaw BY <2>1 DEF Assemble, RunProgram, freezeMemorySize, freezeMemory, thawVars
    <3> QED BY <1>2, <3>1
  <2>2. CASE Restart
    <3>1. thaw'.at = "assemble" BY <2>2, ThawStart DEF Restart
    <3> QED BY <3>1, NothingRead
  <2>3. CASE ThawHeader BY <1>2, <2>3, HeaderRead
  <2>4. CASE ThawEntry BY <1>2, <2>4, EntryAdded
  <2>5. CASE ThawValidate BY <1>2, <2>5, AllValidated
  <2>6. CASE ThawWalk BY <1>2, <2>6, WalkReadsOn
  <2> QED BY <1>2, <2>1, <2>2, <2>3, <2>4, <2>5, <2>6 DEF FrozenNext
<1>3. ASSUME WInv, WInv', ReadSoFar(thaw), [FrozenNext]_thawVars PROVE ReadSoFar(thaw)'
  BY <1>2, <1>3
<1> QED BY <1>1, <1>3, WalkInvariant, PTL DEF FrozenSpec, BInv

-----------------------------------------------------------------------------
(***************************************************************************)
(* What is accepted, and MEMORY_OK.                                        *)
(***************************************************************************)
\* Entries and owners match when each has one of the other with its name and number of words.
Matches(entries, owners) ==
  /\ Len(entries) # 0
  /\ Len(owners) = Len(entries) - 1
  /\ \A j \in 1 .. Len(owners) : Same(entries[j + 1], owners[j])

\* Two lists in the order of their names that match one to one are the same.
LEMMA MatchedAlike ==
  ASSUME NEW t, NEW owners, Ordered(t, owners), Len(t.entries) # 0
  PROVE  Matched(t, owners, Len(t.entries) + 1, Len(owners) + 1) <=> Matches(t.entries, owners)
<1> DEFINE size == Len(t.entries)
           m == size - 1
           k == Len(owners)
           E == [i \in 1 .. m |-> t.entries[i + 1].name]
           O == [j \in 1 .. k |-> owners[j].name]
           Fits(i, j) == Same(t.entries[i + 1], owners[j])
<1>1. size \in Nat /\ k \in Nat /\ size # 0 /\ (size + 1) - 1 = size /\ (k + 1) - 1 = k BY OrderedParts
<1>2. m \in Nat /\ \A i \in 1 .. m : i + 1 \in 2 .. size BY <1>1
<1>3. \A i \in 2 .. size : i - 1 \in 1 .. m /\ (i - 1) + 1 = i BY <1>1
<1>4. /\ \A i \in 1 .. m : E[i] \in Name /\ E[i] = t.entries[i + 1].name
      /\ \A j \in 1 .. k : O[j] \in Name /\ O[j] = owners[j].name
  <2>1. \A i \in 1 .. m : i + 1 \in 1 .. size BY <1>1
  <2> QED BY <2>1, OrderedParts
<1>5. ASSUME NEW i \in 1 .. m, NEW j \in 1 .. m, i < j PROVE Precedes(E[i], E[j])
  <2>1. i + 1 \in 2 .. size /\ j + 1 \in 2 .. size /\ i + 1 < j + 1 BY <1>1, <1>2, <1>5
  <2>2. \A x, y \in 2 .. size : x < y => Precedes(t.entries[x].name, t.entries[y].name) BY DEF Ordered, EntriesOrdered
  <2> QED BY <1>4, <2>1, <2>2
<1>6. ASSUME NEW i \in 1 .. k, NEW j \in 1 .. k, i < j PROVE Precedes(O[i], O[j])
  BY <1>4, <1>6 DEF Ordered, OwnersOrdered
<1>7. Matched(t, owners, size + 1, k + 1) <=>
        /\ \A i \in 1 .. m : \E j \in 1 .. k : Fits(i, j)
        /\ \A j \in 1 .. k : \E i \in 1 .. m : Fits(i, j)
  <2>1. Matched(t, owners, size + 1, k + 1) <=>
          /\ \A i \in 2 .. size : \E j \in 1 .. k : Same(t.entries[i], owners[j])
          /\ \A j \in 1 .. k : \E i \in 2 .. size : Same(t.entries[i], owners[j])
    <3> HIDE DEF size, k
    <3> QED BY <1>1 DEF Matched
  <2>2. \A i \in 2 .. size : \A j \in 1 .. k : Same(t.entries[i], owners[j]) <=> Fits(i - 1, j) BY <1>3
  <2>3. \A i \in 1 .. m : \A j \in 1 .. k : Fits(i, j) <=> Same(t.entries[i + 1], owners[j]) OBVIOUS
  <2> HIDE DEF Fits, size, m, k
  <2> QED BY <1>2, <1>3, <2>1, <2>2, <2>3
<1>8. \A i \in 1 .. m, j \in 1 .. k : Fits(i, j) => E[i] = O[j] BY <1>4 DEF Same
<1>9. Matches(t.entries, owners) <=> k = m /\ \A j \in 1 .. k : Fits(j, j) BY <1>1 DEF Matches
<1> HIDE DEF E, O, Fits, m, k, size
<1>10. /\ \A i, j \in 1 .. m : E[i] = E[j] => i = j
       /\ \A i, j \in 1 .. k : O[i] = O[j] => i = j
  <2>1. ASSUME NEW i \in 1 .. m, NEW j \in 1 .. m, E[i] = E[j], i # j PROVE FALSE
    <3>1. i < j \/ j < i BY <1>2, <2>1
    <3>2. ~Precedes(E[i], E[j]) /\ ~Precedes(E[j], E[i]) BY <1>4, <2>1, PrecedesIrreflexive
    <3> QED BY <1>5, <3>1, <3>2
  <2>2. ASSUME NEW i \in 1 .. k, NEW j \in 1 .. k, O[i] = O[j], i # j PROVE FALSE
    <3>1. i < j \/ j < i BY <1>1, <2>2
    <3>2. ~Precedes(O[i], O[j]) /\ ~Precedes(O[j], O[i]) BY <1>4, <2>2, PrecedesIrreflexive
    <3> QED BY <1>6, <3>1, <3>2
  <2> QED BY <2>1, <2>2
<1>11. ASSUME k = m, \A j \in 1 .. k : Fits(j, j)
       PROVE  /\ \A i \in 1 .. m : \E j \in 1 .. k : Fits(i, j)
              /\ \A j \in 1 .. k : \E i \in 1 .. m : Fits(i, j)
  BY <1>11
<1>12. ASSUME \A i \in 1 .. m : \E j \in 1 .. k : Fits(i, j), \A j \in 1 .. k : \E i \in 1 .. m : Fits(i, j)
       PROVE  k = m /\ \A j \in 1 .. k : Fits(j, j)
  <2> DEFINE Bad == {j \in Nat \ {0} : j <= k /\ j <= m /\ ~Fits(j, j)}
  <2>1. Bad = {}
    <3>1. SUFFICES ASSUME Bad # {} PROVE FALSE OBVIOUS
    <3>2. Bad \in SUBSET Nat OBVIOUS
    <3> HIDE DEF Bad
    <3>3. PICK x \in Bad : \A j \in Bad : x <= j BY <3>1, <3>2, LeastNumber
    <3>4. x \in 1 .. m /\ x \in 1 .. k /\ ~Fits(x, x) BY <1>1, <1>2, <3>3 DEF Bad
    <3>5. \A j \in 1 .. x - 1 : j \in 1 .. m /\ j \in 1 .. k /\ Fits(j, j)
      <4>1. SUFFICES ASSUME NEW j \in 1 .. x - 1 PROVE j \in 1 .. m /\ j \in 1 .. k /\ Fits(j, j) OBVIOUS
      <4>2. j \in Nat \ {0} /\ j <= k /\ j <= m /\ ~(x <= j) /\ j \in 1 .. m /\ j \in 1 .. k BY <1>1, <1>2, <3>4
      <4>3. j \notin Bad BY <3>3, <4>2
      <4> QED BY <4>2, <4>3 DEF Bad
    <3>6. PICK y \in 1 .. k : Fits(x, y) BY <1>12, <3>4
    <3>7. PICK z \in 1 .. m : Fits(z, x) BY <1>12, <3>4
    <3>8. x < y
      <4>1. y # x BY <3>4, <3>6
      <4>2. ~(y < x)
        <5>1. SUFFICES ASSUME y < x PROVE FALSE OBVIOUS
        <5>2. y \in 1 .. x - 1 BY <1>1, <1>2, <3>4, <5>1
        <5>3. Fits(y, y) /\ y \in 1 .. m BY <3>5, <5>2
        <5>4. E[y] = O[y] /\ E[x] = O[y] BY <1>8, <3>4, <3>6, <5>3
        <5> QED BY <1>10, <3>4, <4>1, <5>3, <5>4
      <4> QED BY <1>1, <1>2, <3>4, <4>1, <4>2
    <3>9. x < z
      <4>1. z # x BY <3>4, <3>7
      <4>2. ~(z < x)
        <5>1. SUFFICES ASSUME z < x PROVE FALSE OBVIOUS
        <5>2. z \in 1 .. x - 1 BY <1>1, <1>2, <3>4, <5>1
        <5>3. Fits(z, z) /\ z \in 1 .. k BY <3>5, <5>2
        <5>4. E[z] = O[z] /\ E[z] = O[x] BY <1>8, <3>4, <3>7, <5>3
        <5> QED BY <1>10, <3>4, <4>1, <5>3, <5>4
      <4> QED BY <1>1, <1>2, <3>4, <4>1, <4>2
    <3>10. Precedes(O[x], O[y]) /\ Precedes(E[x], E[z]) BY <1>5, <1>6, <3>4, <3>8, <3>9
    <3>11. E[x] = O[y] /\ E[z] = O[x] BY <1>8, <3>4, <3>6, <3>7
    <3>12. Precedes(O[x], O[x])
      <4>1. O[x] \in Name /\ O[y] \in Name BY <1>4, <3>4
      <4>2. Precedes(O[x], O[y]) /\ Precedes(O[y], O[x]) BY <3>10, <3>11
      <4> QED BY <4>1, <4>2, PrecedesTransitive
    <3> QED BY <1>4, <3>4, <3>12, PrecedesIrreflexive
  <2>2. \A j \in 1 .. k : j \in 1 .. m => Fits(j, j)
    <3>1. SUFFICES ASSUME NEW j \in 1 .. k, j \in 1 .. m, ~Fits(j, j) PROVE FALSE OBVIOUS
    <3>2. j \in Nat \ {0} /\ j <= k /\ j <= m BY <1>1, <1>2, <3>1
    <3>3. j \in Bad BY <3>1, <3>2
    <3> QED BY <2>1, <3>3
  <2> HIDE DEF Bad
  <2>3. ~(k < m)
    <3>1. SUFFICES ASSUME k < m PROVE FALSE OBVIOUS
    <3>2. k + 1 \in 1 .. m BY <1>1, <1>2, <3>1
    <3>3. PICK j \in 1 .. k : Fits(k + 1, j) BY <1>12, <3>2
    <3>4. j \in 1 .. m /\ j # k + 1 BY <1>1, <1>2, <3>1
    <3>5. Fits(j, j) BY <2>2, <3>4
    <3>6. E[k + 1] = O[j] /\ E[j] = O[j] BY <1>8, <3>2, <3>3, <3>4, <3>5
    <3> QED BY <1>10, <3>2, <3>4, <3>6
  <2>4. ~(m < k)
    <3>1. SUFFICES ASSUME m < k PROVE FALSE OBVIOUS
    <3>2. m + 1 \in 1 .. k BY <1>1, <1>2, <3>1
    <3>3. PICK i \in 1 .. m : Fits(i, m + 1) BY <1>12, <3>2
    <3>4. i \in 1 .. k /\ i # m + 1 BY <1>1, <1>2, <3>1
    <3>5. Fits(i, i) BY <2>2, <3>4
    <3>6. E[i] = O[m + 1] /\ E[i] = O[i] BY <1>8, <3>2, <3>3, <3>4, <3>5
    <3> QED BY <1>10, <3>2, <3>4, <3>6
  <2>5. k = m BY <1>1, <1>2, <2>3, <2>4
  <2> QED BY <2>2, <2>5
<1>13. Matched(t, owners, size + 1, k + 1) <=> Matches(t.entries, owners) BY <1>7, <1>9, <1>11, <1>12
<1> QED BY <1>13 DEF size, k

\* What is saved of words for owners.
WordsFrom(words, owner) ==
  SubSeq([i \in 1 .. maxMemorySize |-> words[i - 1]], owner.first + 1, owner.first + owner.ownedWords)
SavesIn(owners, words) == [o \in DOMAIN owners |-> [name |-> owners[o].name, words |-> WordsFrom(words, owners[o])]]

\* What is saved is that of memory.
LEMMA SavedFrom ==
  /\ \A owner : WordsOf(owner) = WordsFrom(memory, owner)
  /\ OwnersSaved = SavesIn(findMemoryOwners, memory)
BY DEF WordsOf, WordsFrom, OwnersSaved, SavesIn

\* The words of an owner are all in memory, and are saved in their order.
LEMMA OwnedSaved ==
  ASSUME SInv, NEW j \in 1 .. Len(findMemoryOwners)
  PROVE  /\ findMemoryOwners[j].ownedWords \in Nat \ {0}
         /\ findMemoryOwners[j].first \in Nat
         /\ findMemoryOwners[j].first + findMemoryOwners[j].ownedWords <= maxMemorySize
         /\ \A words : WordsFrom(words, findMemoryOwners[j])
              = [i \in 1 .. findMemoryOwners[j].ownedWords |-> words[findMemoryOwners[j].first + i - 1]]
         /\ isValidIdentifier(findMemoryOwners[j].name)
         /\ Len(findMemoryOwners[j].name) <= LargestWord
         /\ findMemoryOwners[j].name \in Name
<1> DEFINE owner == findMemoryOwners[j]
<1>1. IsFiniteSet(defined) /\ DataNames \subseteq Labels BY DEF SInv, SectionsType, WordsOwned
<1>2. PICK n \in GlobNames : owner = Owner(n) BY <1>1, OwnersFound
<1>3. /\ n \in Labels /\ owner.name = NameBytes[n] /\ owner.ownedWords = globals[n].ownedWords
      /\ owner \in OwnerType /\ WordsIn(owner) \subseteq Cells
  BY <1>1, <1>2, GlobalWords
<1> HIDE DEF owner
<1>4. owner.ownedWords # 0 BY <1>3 DEF GlobNames
<1>5. PICK first \in Int, owned \in Nat \ {0}, top \in Nat :
        first = owner.first /\ owned = owner.ownedWords /\ top = maxMemorySize
  BY <1>3, <1>4, Sizes DEF OwnerType
<1>6. 0 <= first /\ first + owned <= top
  <2>1. first .. first + owned - 1 \subseteq 0 .. top - 1 BY <1>3, <1>5 DEF WordsIn, Cells
  <2>2. first \in first .. first + owned - 1 /\ first + owned - 1 \in first .. first + owned - 1 OBVIOUS
  <2>3. first \in 0 .. top - 1 /\ first + owned - 1 \in 0 .. top - 1 BY <2>1, <2>2
  <2> QED BY <2>3
<1>7. ASSUME NEW words PROVE WordsFrom(words, owner) = [i \in 1 .. owned |-> words[first + i - 1]]
  <2> DEFINE all == [i \in 1 .. top |-> words[i - 1]]
  <2>1. WordsFrom(words, owner) = SubSeq(all, first + 1, first + owned) BY <1>5 DEF WordsFrom
  <2>2. SubSeq(all, first + 1, first + owned) = [i \in 1 .. owned |-> all[first + i]]
    <3>1. \A v : \A w \in [1 .. top -> v] : SubSeq(w, first + 1, first + owned) = [i \in 1 .. owned |-> w[first + i]]
      <4>1. SUFFICES ASSUME NEW v, NEW w \in [1 .. top -> v]
                     PROVE  SubSeq(w, first + 1, first + owned) = [i \in 1 .. owned |-> w[first + i]]
        OBVIOUS
      <4>2. w \in Seq(v) /\ Len(w) = top OBVIOUS
      <4> QED BY <1>6, <4>2
    <3>2. all \in [1 .. top -> {all[i] : i \in 1 .. top}] OBVIOUS
    <3> QED BY <3>1, <3>2
  <2>3. ASSUME NEW i \in 1 .. owned PROVE all[first + i] = words[first + i - 1]
    <3>1. first + i \in 1 .. top BY <1>6
    <3> QED BY <3>1
  <2> QED BY <2>1, <2>2, <2>3
<1>8. isValidIdentifier(owner.name) /\ Len(owner.name) <= LargestWord BY <1>3, FrozenAssumption
<1>9. owner.name \in Name BY <1>3 DEF OwnerType
<1> QED BY <1>5, <1>6, <1>7, <1>8, <1>9 DEF owner

\* The result is MEMORY_OK when entries and owners are the same.
LEMMA ResultMatches ==
  ASSUME BInv, Finished(thaw)
  PROVE  /\ Ordered(thaw, findMemoryOwners)
         /\ Restoring(thaw, findMemoryOwners, Len(thaw.entries) + 1, memory)
         /\ thaw.status = "OK" <=> Matches(thaw.entries, findMemoryOwners)
<1> DEFINE owners == findMemoryOwners
<1>1. /\ Ordered(thaw, owners)
      /\ Walked(thaw, owners, Len(thaw.entries) + 1, Len(owners) + 1, thaw.exact, memory)
      /\ thaw.status = "OK" <=> thaw.exact = TRUE
  BY DEF BInv, WInv, WalkedThrough, Finished
<1>2. Len(thaw.entries) # 0
  <2>1. thaw.entries # <<>> /\ thaw.entries \in Seq(EntryType)
    BY <1>1 DEF BInv, ReadSoFar, Kept, Ordered, EntriesOrdered
  <2> QED BY <2>1
<1> HIDE DEF owners
<1>3. Matched(thaw, owners, Len(thaw.entries) + 1, Len(owners) + 1) <=> Matches(thaw.entries, owners)
  BY <1>1, <1>2, MatchedAlike
<1> QED BY <1>1, <1>3 DEF Walked, owners

\* And then every owner has the words of its entry.
LEMMA MatchedWords ==
  ASSUME BInv, Finished(thaw), Matches(thaw.entries, findMemoryOwners),
         NEW j \in 1 .. Len(findMemoryOwners)
  PROVE  /\ findMemoryOwners[j].name = thaw.entries[j + 1].name
         /\ WordsOf(findMemoryOwners[j]) = EntryWords(thaw.entries[j + 1])
<1> DEFINE owner == findMemoryOwners[j]
           entry == thaw.entries[j + 1]
           size == Len(thaw.entries)
<1>1. SInv BY DEF BInv, WInv, FInv, Assembled
<1>2. /\ Ordered(thaw, findMemoryOwners) /\ Restoring(thaw, findMemoryOwners, size + 1, memory)
  BY ResultMatches
<1>3. PICK first \in Nat, owned \in Nat \ {0} : first = owner.first /\ owned = owner.ownedWords
  BY <1>1, OwnedSaved
<1>4. WordsOf(owner) = [i \in 1 .. owned |-> memory[first + i - 1]]
  <2>1. WordsFrom(memory, owner) = [i \in 1 .. owner.ownedWords |-> memory[owner.first + i - 1]] BY <1>1, OwnedSaved
  <2>2. WordsOf(owner) = WordsFrom(memory, owner) BY SavedFrom
  <2> QED BY <1>3, <2>1, <2>2
<1>5. Same(entry, owner) BY DEF Matches
<1>6. entry.wordCount = owned /\ entry.name = owner.name BY <1>3, <1>5 DEF Same
<1>7. size \in Nat /\ (size + 1) - 1 = size /\ j + 1 \in 2 .. size
  <2>1. size \in Nat /\ Len(findMemoryOwners) \in Nat BY <1>2, OrderedParts
  <2>2. Len(findMemoryOwners) = size - 1 BY DEF Matches
  <2> QED BY <2>1, <2>2
<1>8. Given(thaw, entry, owner) = owned
  <2>1. minimum(owned, owned) = owned BY DEF minimum
  <2> QED BY <1>3, <1>6, <2>1 DEF Given
<1>9. ASSUME NEW i \in 1 .. owned
      PROVE  memory[first + i - 1] = getMemoryWord(thaw.buffer, entry.words + (i - 1) * 4)
  <2>1. PICK cell \in Int : cell = first + i - 1 OBVIOUS
  <2>2. cell \in first .. first + owned - 1 /\ cell - first = i - 1 BY <2>1
  <2>3. cell \in WordsIn(owner) BY <1>3, <2>2 DEF WordsIn
  <2>4. Gives(thaw, j + 1, owner, cell) BY <1>3, <1>6, <1>8, <2>2 DEF Gives
  <2>5. memory[cell] = WordFor(thaw, j + 1, owner, cell)
    <3> HIDE DEF size
    <3> QED BY <1>2, <1>7, <2>3, <2>4 DEF Restoring
  <2>6. WordFor(thaw, j + 1, owner, cell) = getMemoryWord(thaw.buffer, entry.words + (cell - first) * 4)
    BY <1>3 DEF WordFor
  <2> QED BY <2>1, <2>2, <2>5, <2>6
<1>10. EntryWords(entry) = [i \in 1 .. owned |-> getMemoryWord(thaw.buffer, entry.words + (i - 1) * 4)]
  BY <1>6 DEF EntryWords
<1> HIDE DEF owner, entry
<1>11. WordsOf(owner) = EntryWords(entry) BY <1>4, <1>9, <1>10
<1> QED BY <1>6, <1>11 DEF owner, entry

\* Freezing again saves then what the entries do.
LEMMA MatchedSaves ==
  ASSUME BInv, Finished(thaw), Matches(thaw.entries, findMemoryOwners)
  PROVE  OwnersSaved = EntriesSaved
<1> DEFINE owners == findMemoryOwners
           k == Len(owners)
<1>1. SInv BY DEF BInv, WInv, FInv, Assembled
<1>2. IsFiniteSet(defined) /\ DataNames \subseteq Labels BY <1>1 DEF SInv, SectionsType, WordsOwned
<1>3. DOMAIN owners = 1 .. k BY <1>2, OwnersRanked
<1>4. Len(thaw.entries) - 1 = k BY DEF Matches
<1>5. \A j \in 1 .. k : owners[j].name = thaw.entries[j + 1].name /\ WordsOf(owners[j]) = EntryWords(thaw.entries[j + 1])
  BY MatchedWords
<1>6. OwnersSaved = [o \in DOMAIN owners |-> [name |-> owners[o].name, words |-> WordsOf(owners[o])]]
  BY DEF OwnersSaved
<1>7. EntriesSaved = [i \in 1 .. k |-> [name |-> thaw.entries[i + 1].name, words |-> EntryWords(thaw.entries[i + 1])]]
  BY <1>4 DEF EntriesSaved
<1> HIDE DEF owners, k
<1> QED BY <1>3, <1>5, <1>6, <1>7

\* The entries save what was read.
LEMMA EntriesAre ==
  EntriesSaved = SavesOf(thaw)
BY DEF EntriesSaved, EntryWords, SavesOf, SavedBy

\* What is accepted is what freezing its entries writes, in the order of their names.
LEMMA AcceptedFrozen ==
  ASSUME BInv, Finished(thaw)
  PROVE  /\ getMemoryWord(thaw.buffer, 8) \in Supported
         /\ thaw.buffer = FrozenAs(getMemoryWord(thaw.buffer, 8), EntriesSaved)
         /\ Ascending(EntriesSaved)
<1>1. ThawTyped(thaw) /\ Reading(thaw) /\ Kept(thaw) BY DEF BInv, WInv, FInv, ReadSoFar
<1>2. /\ getMemoryWord(thaw.buffer, 8) \in Supported
      /\ thaw.buffer = FrozenAs(getMemoryWord(thaw.buffer, 8), SavesOf(thaw))
  BY <1>1, KeptFrozen
<1>3. Ascending(EntriesSaved)
  <2> DEFINE n == Len(thaw.entries) - 1
  <2>1. Ordered(thaw, findMemoryOwners) BY ResultMatches
  <2>2. Len(thaw.entries) \in Nat BY <2>1, OrderedParts
  <2>3. DOMAIN EntriesSaved = 1 .. n /\ \A i \in 1 .. n : EntriesSaved[i].name = thaw.entries[i + 1].name
    BY DEF EntriesSaved
  <2>4. ASSUME NEW i \in 1 .. n, NEW j \in 1 .. n, i < j
        PROVE  Precedes(thaw.entries[i + 1].name, thaw.entries[j + 1].name)
    <3>1. i + 1 \in 2 .. Len(thaw.entries) /\ j + 1 \in 2 .. Len(thaw.entries) /\ i + 1 < j + 1 BY <2>2, <2>4
    <3> QED BY <2>1, <3>1 DEF Ordered, EntriesOrdered
  <2> HIDE DEF n
  <2> QED BY <2>3, <2>4 DEF Ascending
<1> QED BY <1>2, <1>3, EntriesAre

-----------------------------------------------------------------------------
(***************************************************************************)
(* Every word of memory is one of 32 bits, whatever is assembled and       *)
(* thawed, and so is every value of a symbol and of <P>.                   *)
(***************************************************************************)
AreWords(words) == \A cell \in DOMAIN words : words[cell] \in Word

ValuesAreWords ==
  /\ \A n \in defined : globals[n].value \in Word
  /\ variable \subseteq Word
  /\ code.functions <= maxFunctionCount

\* Zero is a word, and words are numbers.
LEMMA WordFacts == 0 \in Word /\ Word \subseteq Int
BY SMT DEF Word, LargestWord

\* What is left over is filled with words.
LEMMA FilledWords ==
  ASSUME NEW words, AreWords(words)
  PROVE  AreWords(Closed(words)) /\ AreWords(Resolved(words))
<1>1. AreWords(Closed(words)) BY WordFacts DEF AreWords, Closed
<1>2. AreWords(Resolved(words)) BY WordsAssumption DEF AreWords, Resolved
<1> QED BY <1>1, <1>2

\* Words that are moved come from memory.
LEMMA MovedWords ==
  ASSUME Pointers, NEW words, DOMAIN words = Cells, AreWords(words)
  PROVE  AreWords(Moved(words))
<1>1. PICK m \in Nat \ {0}, g \in Nat, c \in Int :
        m = maxMemorySize /\ g = globalsPointer /\ c = constantsPointer /\ g <= c /\ c <= m - 1
  BY Sizes DEF Pointers
<1>2. PICK size \in Nat : size = constantsSize /\ size = m - 1 - c BY <1>1 DEF constantsSize
<1>3. globalsSize = g BY <1>1 DEF globalsSize
<1>4. ASSUME NEW cell \in Cells PROVE Moved(words)[cell] \in Word
  <2>1. cell \in 0 .. m - 1 BY <1>1 DEF Cells
  <2>2. Moved(words)[cell] = CASE cell < size -> words[c + cell]
                               [] cell \in size .. size + g - 1 -> words[cell - size]
                               [] cell \in size + g .. m - 2 -> POISON
                               [] cell = m - 1 -> words[cell]
    BY <1>1, <1>2, <1>3 DEF Moved
  <2>3. cell < size => c + cell \in 0 .. m - 1 BY <1>1, <1>2, <2>1
  <2>4. cell \in size .. size + g - 1 => cell - size \in 0 .. m - 1 BY <1>1, <1>2, <2>1
  <2>5. cell < size \/ cell \in size .. size + g - 1 \/ cell \in size + g .. m - 2 \/ cell = m - 1
    BY <1>1, <1>2, <2>1
  <2>6. \A i \in 0 .. m - 1 : words[i] \in Word BY <1>1 DEF AreWords, Cells
  <2>7. POISON \in Word BY WordsAssumption
  <2>8. CASE cell < size
    <3>1. cell \notin size .. size + g - 1 /\ cell \notin size + g .. m - 2 /\ cell # m - 1
      BY <1>1, <1>2, <2>1, <2>8
    <3> QED BY <2>2, <2>3, <2>6, <2>8, <3>1
  <2>9. CASE cell \in size .. size + g - 1
    <3>1. ~(cell < size) /\ cell \notin size + g .. m - 2 /\ cell # m - 1 BY <1>1, <1>2, <2>1, <2>9
    <3> QED BY <2>2, <2>4, <2>6, <2>9, <3>1
  <2>10. CASE cell \in size + g .. m - 2
    <3>1. ~(cell < size) /\ cell \notin size .. size + g - 1 /\ cell # m - 1 BY <1>1, <1>2, <2>1, <2>10
    <3> QED BY <2>2, <2>7, <2>10, <3>1
  <2>11. CASE cell = m - 1
    <3>1. ~(cell < size) /\ cell \notin size .. size + g - 1 /\ cell \notin size + g .. m - 2
      BY <1>1, <1>2, <2>1, <2>11
    <3> QED BY <2>1, <2>2, <2>6, <2>11, <3>1
  <2> QED BY <2>5, <2>8, <2>9, <2>10, <2>11
<1>5. DOMAIN Moved(words) = Cells BY DEF Moved
<1> QED BY <1>4, <1>5 DEF AreWords

\* An operand is read as a word.
LEMMA ReadWord ==
  ASSUME SInv, ValuesAreWords, NEW operand \in AnyOperand, NEW accepts, ReadError(operand, accepts) = "none",
         ~Forward(operand)
  PROVE  Read(operand) \in Word
<1>1. operand.k \in {"word", "label", "variable"} BY OperandParts
<1>2. CASE operand.k = "word"
  <2>1. Read(operand) = operand.word BY <1>2 DEF Read
  <2> QED BY <1>2, <2>1, OperandParts
<1>3. CASE operand.k = "variable"
  <2>1. variable # {} BY <1>3 DEF ReadError
  <2>2. Read(operand) = CHOOSE v \in variable : TRUE BY <1>3 DEF Read
  <2>3. (CHOOSE v \in variable : TRUE) \in variable BY <2>1
  <2> QED BY <2>2, <2>3 DEF ValuesAreWords
<1>4. CASE operand.k = "label"
  <2>1. /\ operand.name \in defined
        /\ Read(operand) = Plus(globals[operand.name].value, operand.offset)
    BY <1>4, ReadResolved DEF SInv
  <2>2. globals[operand.name].value \in Word BY <2>1 DEF ValuesAreWords
  <2>3. operand.offset \in Word BY <1>4, OperandParts
  <2>4. \A v, w \in Word : Plus(v, w) \in Word BY WordFacts, PlusFacts
  <2> QED BY <2>1, <2>2, <2>3, <2>4
<1> QED BY <1>1, <1>2, <1>3, <1>4

\* The address of a cell is one.
LEMMA AddressWord ==
  ASSUME NEW cell \in Int, 0 <= cell, cell <= maxMemorySize, NEW kind
  PROVE  makeGAZLPointer(cell, kind) \in Word
<1>1. MEMORY_OFFSET <= LargestOffset BY WordsAssumption
<1>2. PICK m \in Int, n \in Int : m = MEMORY_OFFSET /\ n = maxMemorySize BY Sizes
<1>3. 0 <= n /\ n <= m /\ m <= 1073741823 /\ cell <= n BY <1>1, <1>2, Sizes DEF LargestOffset
<1>4. makeGAZLPointer(cell, kind) = m - (n - 1 - cell) \/ makeGAZLPointer(cell, kind) = m + cell
  BY <1>2 DEF makeGAZLPointer
<1>5. m - (n - 1 - cell) \in Word /\ m + cell \in Word BY <1>2, <1>3, SMT DEF Word, LargestWord
<1> QED BY <1>4, <1>5

\* A word that waited for a symbol gets its value.
LEMMA PatchedWords ==
  ASSUME SInv, ValuesAreWords, FinalizeError = "none", NEW words, AreWords(words)
  PROVE  AreWords(PatchedMemory(words))
<1>1. ASSUME NEW i \in DOMAIN forwardRefs PROVE Read(forwardRefs[i].operand) \in Word
  <2> DEFINE operand == forwardRefs[i].operand
  <2>1. forwardRefs[i] \in ReferenceType BY DEF SInv, SectionsType
  <2>2. operand.k = "label" /\ operand.offset \in Word BY <2>1 DEF ReferenceType
  <2>3. ForwardError(forwardRefs[i]) = "none" BY ForwardsResolved
  <2>4. operand.name \in defined BY <2>3 DEF ForwardError
  <2>5. globals[operand.name].value \in Word BY <2>4 DEF ValuesAreWords
  <2>6. Read(operand) = Plus(globals[operand.name].value, operand.offset) BY <2>2 DEF Read
  <2>7. Plus(globals[operand.name].value, operand.offset) \in Word
    <3>1. \A v, w \in Word : Plus(v, w) \in Word BY WordFacts, PlusFacts
    <3> HIDE DEF operand
    <3> QED BY <2>2, <2>5, <3>1
  <2> QED BY <2>6, <2>7
<1>2. ASSUME NEW stored \in Word, NEW storage PROVE Patched(stored, storage) \in Word
  <2> DEFINE refs == {i \in DOMAIN forwardRefs : forwardRefs[i].storage = storage}
  <2>1. refs # {} => (CHOOSE i \in refs : TRUE) \in DOMAIN forwardRefs OBVIOUS
  <2> QED BY <1>1, <2>1 DEF Patched
<1>3. DOMAIN PatchedMemory(words) = DOMAIN words BY DEF PatchedMemory
<1>4. ASSUME NEW cell \in DOMAIN words PROVE PatchedMemory(words)[cell] \in Word
  <2>1. words[cell] \in Word BY DEF AreWords
  <2> QED BY <1>2, <2>1 DEF PatchedMemory
<1> QED BY <1>3, <1>4 DEF AreWords

\* A word of data that is accepted is a word, when it does not wait.
LEMMA DataWords ==
  ASSUME SInv, ValuesAreWords, NEW line \in AnyLine, line.k = "data", DataError(line) = "none",
         NEW i \in 1 .. Len(line.words), ~Forward(line.words[i])
  PROVE  Read(line.words[i]) \in Word
<1> DEFINE errors == WordErrors(line.words)
           failing == {j \in DOMAIN errors : errors[j] # "none"}
<1>1. line.words \in Seq(AnyOperand) /\ Len(line.words) \in Nat BY LineParts
<1>2. data.open BY DEF DataError
<1>3. DOMAIN errors = 1 .. Len(line.words) BY <1>1 DEF WordErrors
<1>4. DataError(line) = IF failing # {} THEN errors[CHOOSE j \in failing : \A h \in failing : j <= h]
                        ELSE DataLabelError(line.label)
  BY <1>2 DEF DataError
<1>5. failing \in SUBSET Nat BY <1>3
<1> HIDE DEF errors
<1>6. failing = {}
  <2>1. SUFFICES ASSUME failing # {} PROVE FALSE OBVIOUS
  <2>2. \E j \in failing : \A h \in failing : j <= h
    <3> HIDE DEF failing
    <3> QED BY <1>5, <2>1, LeastNumber
  <2>3. (CHOOSE j \in failing : \A h \in failing : j <= h) \in failing BY <2>2
  <2>4. errors[CHOOSE j \in failing : \A h \in failing : j <= h] # "none" BY <2>3
  <2> QED BY <1>4, <2>1, <2>4
<1>7. errors[i] = "none" BY <1>3, <1>6
<1>8. errors[i] = IF i > Room THEN "DATA_SECTION_FULL" ELSE ReadError(line.words[i], KONST)
  BY <1>1 DEF errors, WordErrors
<1>9. ReadError(line.words[i], KONST) = "none" BY <1>7, <1>8
<1>10. line.words[i] \in AnyOperand BY <1>1
<1>11. PICK operand \in AnyOperand : operand = line.words[i] BY <1>10
<1>12. Read(operand) \in Word BY <1>9, <1>11, ReadWord
<1> QED BY <1>11, <1>12

\* What assembly writes are words.
LEMMA AssemblyWords ==
  ASSUME SInv, ValuesAreWords, DOMAIN memory = Cells, AreWords(memory), Next
  PROVE  AreWords(memory')
<1>1. Pointers BY DEF SInv, SectionsType
<1>2. \A error : Refuses(error) => memory' = memory BY DEF Refuses
<1>3. CASE Finalize
  <2>1. CASE Refuses(FinalizeError) BY <1>2, <2>1
  <2>2. CASE FinalizeError = "none" /\ memory' = Finalized
    <3> DEFINE words == Closed(Resolved(memory))
    <3>1. AreWords(words) BY FilledWords
    <3>2. DOMAIN words = Cells BY DEF Closed, Resolved
    <3> HIDE DEF words
    <3>3. AreWords(PatchedMemory(words)) BY <2>2, <3>1, PatchedWords
    <3>4. DOMAIN PatchedMemory(words) = Cells BY <3>2 DEF PatchedMemory
    <3>5. AreWords(Moved(PatchedMemory(words))) BY <1>1, <3>3, <3>4, MovedWords
    <3> QED BY <2>2, <3>5 DEF Finalized, words
  <2> QED BY <1>3, <2>1, <2>2 DEF Finalize
<1>4. CASE \E line \in program[Len(lines) + 1] : Len(lines) < Len(program) /\ Line(line)
  <2>1. PICK line \in program[Len(lines) + 1] : Len(lines) < Len(program) /\ Line(line) BY <1>4
  <2>2. line \in AnyLine BY <2>1, LineTyped DEF SInv
  <2>3. memory' = memory \/ memory' = Closed(memory) \/ memory' = Resolved(memory)
          \/ (DataLine(line) /\ DataError(line) = "none")
    <3>1. CASE SectionLine(line) BY <1>2, <3>1 DEF SectionLine
    <3>2. CASE DataLine(line) BY <1>2, <3>2 DEF DataLine
    <3>3. CASE DefpLine(line) \/ AddpLine(line) BY <1>2, <3>3 DEF DefpLine, AddpLine
    <3>4. CASE UseLine(line) \/ SwitchLine(line) BY <1>2, <3>4 DEF UseLine, SwitchLine
    <3>5. CASE FuncLine(line) \/ NewUnit(line) BY <1>2, <3>5 DEF FuncLine, NewUnit
    <3> QED BY <2>1, <3>1, <3>2, <3>3, <3>4, <3>5 DEF Line
  <2>4. CASE DataLine(line) /\ DataError(line) = "none"
    <3> DEFINE words == line.words
               last == data.pointer + Len(words)
    <3>1. line.k = "data" BY <2>4 DEF DataLine
    <3>2. memory' = [cell \in DOMAIN memory |->
                       IF cell \in data.pointer .. last - 1 /\ ~Forward(words[cell - data.pointer + 1])
                       THEN Read(words[cell - data.pointer + 1]) ELSE memory[cell]]
      BY <2>4 DEF DataLine, Refuses
    <3>3. PICK p \in Int, n \in Nat : p = data.pointer /\ n = Len(words)
      <4>1. data.pointer \in Int BY DEF SInv, SectionsType, DataType
      <4>2. Len(words) \in Nat BY <2>2, <3>1, LineParts
      <4> QED BY <4>1, <4>2
    <3>4. ASSUME NEW cell \in p .. (p + n) - 1, ~Forward(words[cell - p + 1])
          PROVE  Read(words[cell - p + 1]) \in Word
      <4>1. PICK i \in 1 .. n : i = cell - p + 1 OBVIOUS
      <4> QED BY <2>2, <2>4, <3>1, <3>3, <3>4, <4>1, DataWords
    <3>5. last = p + n BY <3>3
    <3> HIDE DEF last, words
    <3>6. ASSUME NEW cell \in DOMAIN memory PROVE memory'[cell] \in Word
      <4>1. memory[cell] \in Word BY DEF AreWords
      <4> QED BY <3>2, <3>3, <3>4, <3>5, <4>1
    <3>7. DOMAIN memory' = DOMAIN memory BY <3>2
    <3> QED BY <3>6, <3>7 DEF AreWords
  <2> QED BY <2>3, <2>4, FilledWords
<1> QED BY <1>3, <1>4 DEF Next

\* Words that the walk restores are read from inside the buffer.
LEMMA WalkWords ==
  ASSUME BInv, AreWords(memory), ThawWalk
  PROVE  AreWords(memory')
<1>1. thaw.at = "walk" BY DEF ThawWalk, Thawing
<1>2. /\ thaw.buffer \in Name /\ thaw.entries \in Seq(EntryType) /\ thaw.e \in Nat \ {0} /\ thaw.o \in Nat \ {0}
      /\ AllRead(thaw.buffer, thaw.entries)
  BY <1>1 DEF BInv, ReadSoFar, Reading, WInv, FInv, ThawTyped
<1>3. OwnersOrdered(findMemoryOwners) BY <1>1 DEF BInv, WInv, WalkedSoFar, Ordered
<1>4. CASE memory' = memory BY <1>4
<1>5. CASE /\ ~NoEntry /\ ~NoOwner
           /\ memory' = [cell \in DOMAIN memory |->
                           IF cell \in OwnerNow.first .. OwnerNow.first + Restored - 1
                           THEN getMemoryWord(thaw.buffer, EntryNow.words + (cell - OwnerNow.first) * 4) ELSE memory[cell]]
  <2>1. PICK e \in 1 .. Len(thaw.entries) : e = thaw.e
    <3>1. Len(thaw.entries) \in Nat BY <1>2
    <3> QED BY <1>2, <1>5, <3>1 DEF NoEntry
  <2>2. PICK o \in 1 .. Len(findMemoryOwners) : o = thaw.o
    <3>1. Len(findMemoryOwners) \in Nat BY <1>3 DEF OwnersOrdered
    <3> QED BY <1>2, <1>5, <3>1 DEF NoOwner, OwnersNow
  <2>3. thaw.entries[e] \in EntryType BY <1>2
  <2>4. findMemoryOwners[o] \in OwnerType BY <1>3 DEF OwnersOrdered
  <2>5. PICK words \in Nat, count \in Nat, next \in Nat :
          words = EntryNow.words /\ count = EntryNow.wordCount /\ next = EntryNow.next
    BY <2>1, <2>3 DEF EntryNow, EntryType
  <2>6. PICK first \in Int, owned \in Nat : first = OwnerNow.first /\ owned = OwnerNow.ownedWords
    BY <2>2, <2>4 DEF OwnerNow, OwnersNow, OwnerType
  <2>7. PICK size \in Nat : size = Len(thaw.buffer) BY <1>2, NameParts
  <2>8. words + 4 * count <= size
    <3>1. ReadAs(thaw.buffer, NextAfter(thaw.entries, e - 1), thaw.entries[e]) BY <1>2 DEF AllRead
    <3>2. next = words + 4 * count /\ next <= size BY <2>1, <2>5, <2>7, <3>1 DEF ReadAs, EntryNow
    <3> QED BY <3>2
  <2>9. PICK restored \in Nat : restored = Restored /\ restored <= count
    BY <2>5, <2>6 DEF Restored, minimum
  <2>10. ASSUME NEW cell \in first .. first + restored - 1
         PROVE  getMemoryWord(thaw.buffer, words + (cell - first) * 4) \in Word
    <3>1. PICK p \in Nat : p = words + (cell - first) * 4 /\ p + 4 <= size BY <2>8, <2>9
    <3> QED BY <1>2, <2>7, <3>1, WordStands
  <2>11. ASSUME NEW cell \in DOMAIN memory PROVE memory'[cell] \in Word
    <3>1. memory[cell] \in Word BY DEF AreWords
    <3>2. memory'[cell] = IF cell \in first .. first + restored - 1
                          THEN getMemoryWord(thaw.buffer, words + (cell - first) * 4) ELSE memory[cell]
      BY <1>5, <2>5, <2>6, <2>9
    <3> QED BY <2>10, <3>1, <3>2
  <2>12. DOMAIN memory' = DOMAIN memory BY <1>5
  <2> QED BY <2>11, <2>12 DEF AreWords
<1> QED BY <1>4, <1>5 DEF ThawWalk

\* Memory at first.
LEMMA EmptyWords ==
  AreWords([cell \in 0 .. maxMemorySize - 1 |-> IF cell = maxMemorySize - 1 THEN 0 ELSE OldWord])
BY WordsAssumption, WordFacts DEF AreWords

\* A symbol that is declared has a word for its value.
LEMMA ValueAdded ==
  ASSUME ValuesAreWords, NEW name, NEW symbol, symbol.value \in Word
  PROVE  \A n \in DOMAIN With(globals, name, symbol) : With(globals, name, symbol)[n].value \in Word
BY DEF ValuesAreWords, With, defined

\* Where the values are those of other symbols, they stay words.
LEMMA ValuesKept ==
  ASSUME ValuesAreWords, UNCHANGED <<globals, variable>>, code'.functions <= maxFunctionCount
  PROVE  ValuesAreWords'
BY DEF ValuesAreWords, defined

\* A line gives words for values.
LEMMA LineValues ==
  ASSUME SInv, code \in CodeType, ValuesAreWords, Len(lines) < Len(program),
         NEW line \in program[Len(lines) + 1], Line(line)
  PROVE  ValuesAreWords'
<1>1. line \in AnyLine BY LineTyped DEF SInv
<1>2. code.functions \in Nat /\ code.functions <= maxFunctionCount BY DEF CodeType, ValuesAreWords
<1>3. ASSUME NEW error, Refuses(error) PROVE ValuesAreWords' BY <1>2, <1>3, ValuesKept DEF Refuses
<1>4. ASSUME \A n \in DOMAIN globals' : globals'[n].value \in Word, UNCHANGED <<code, variable>> PROVE ValuesAreWords'
  BY <1>4 DEF ValuesAreWords, defined
<1>5. Pointers BY DEF SInv, SectionsType
<1>6. CASE SectionLine(line)
  <2>1. CASE Refuses(SectionError(line)) BY <1>3, <2>1
  <2>2. CASE ~Refuses(SectionError(line))
    <3> DEFINE begin == IF line.kind = "CNST" THEN constantsPointer - line.size ELSE globalsPointer
               symbol == DataSymbol(begin, line.size, line.kind, begin, begin + line.size)
    <3>1. /\ line.k = "section" /\ SectionError(line) = "none" /\ globals' = With(globals, line.label, symbol)
          /\ UNCHANGED <<code, variable>>
      BY <1>6, <2>2 DEF SectionLine
    <3>2. line.size \in Nat BY <1>1, <3>1, LineParts
    <3>3. line.size <= constantsPointer - globalsPointer BY <1>5, <3>1, <3>2 DEF SectionError, Pointers
    <3>4. begin \in Int /\ 0 <= begin /\ begin <= maxMemorySize
      <4>1. maxMemorySize \in Nat BY Sizes
      <4>2. globalsPointer \in Nat /\ constantsPointer \in Int /\ constantsPointer <= maxMemorySize BY <1>5, <4>1 DEF Pointers
      <4>3. CASE line.kind = "CNST" BY <3>2, <3>3, <4>1, <4>2, <4>3
      <4>4. CASE line.kind # "CNST" BY <3>2, <3>3, <4>1, <4>2, <4>4
      <4> QED BY <4>3, <4>4
    <3> HIDE DEF begin
    <3>5. symbol.value \in Word BY <3>4, AddressWord DEF DataSymbol
    <3> HIDE DEF symbol
    <3> QED BY <1>4, <3>1, <3>5, ValueAdded
  <2> QED BY <2>1, <2>2
<1>7. CASE DataLine(line)
  <2>1. CASE Refuses(DataError(line)) BY <1>3, <2>1
  <2>2. CASE ~Refuses(DataError(line))
    <3>1. /\ DataError(line) = "none" /\ UNCHANGED <<code, variable>>
          /\ line.label = NoName => globals' = globals
          /\ line.label # NoName =>
               globals' = OwnedUpTo(With(globals, line.label,
                                         DataSymbol(data.pointer, Len(line.words), data.kind, data.begin, data.end)),
                                    line.label, data.pointer)
      BY <1>7, <2>2 DEF DataLine
    <3>2. CASE line.label = NoName BY <1>4, <3>1, <3>2 DEF ValuesAreWords, defined
    <3>3. CASE line.label # NoName
      <4> DEFINE symbol == DataSymbol(data.pointer, Len(line.words), data.kind, data.begin, data.end)
                 symbols == With(globals, line.label, symbol)
      <4>1. data.open BY <3>1 DEF DataError
      <4>2. data \in DataType /\ InRegion(data, globalsPointer, constantsPointer)
        BY <4>1 DEF SInv, SectionsType, SectionOwned
      <4>3. data.pointer \in Int /\ 0 <= data.pointer /\ data.pointer <= maxMemorySize
        BY <1>5, <4>2, Sizes DEF InRegion, DataType, Pointers
      <4>4. symbol.value \in Word BY <4>3, AddressWord DEF DataSymbol
      <4> HIDE DEF symbol
      <4>5. \A n \in DOMAIN symbols : symbols[n].value \in Word BY <4>4, ValueAdded
      <4> HIDE DEF symbols
      <4>6. \A n \in DOMAIN OwnedUpTo(symbols, line.label, data.pointer) :
              n \in DOMAIN symbols /\ OwnedUpTo(symbols, line.label, data.pointer)[n].value = symbols[n].value
        BY DEF OwnedUpTo
      <4>7. globals' = OwnedUpTo(symbols, line.label, data.pointer) BY <3>1, <3>3 DEF symbols, symbol
      <4> QED BY <1>4, <3>1, <4>5, <4>6, <4>7
    <3> QED BY <3>2, <3>3
  <2> QED BY <2>1, <2>2
<1>8. CASE DefpLine(line)
  <2>1. CASE Refuses(DefpError(line)) BY <1>3, <2>1
  <2>2. CASE ~Refuses(DefpError(line))
    <3>1. /\ line.k = "DEFp" /\ DefpError(line) = "none"
          /\ globals' = With(globals, line.label, PointerConstant(line.operand)) /\ UNCHANGED <<code, variable>>
      BY <1>8, <2>2 DEF DefpLine
    <3>2. ReadError(line.operand, ANY_FREE) = "none" BY <3>1 DEF DefpError
    <3>3. "FORWARD" \notin ANY_FREE BY DEF ANY_FREE, FREE_ADDRESS, ADDRESS
    <3>4. line.operand \in AnyOperand BY <1>1, <3>1, LineParts
    <3>5. ~Forward(line.operand) BY <3>2, <3>3 DEF Forward, ReadError
    <3>6. Read(line.operand) \in Word BY <3>2, <3>4, <3>5, ReadWord
    <3>7. PointerConstant(line.operand).value = Read(line.operand) BY DEF PointerConstant, Symbol
    <3>8. PICK symbol : symbol = PointerConstant(line.operand) OBVIOUS
    <3> QED BY <1>4, <3>1, <3>6, <3>7, <3>8, ValueAdded
  <2> QED BY <2>1, <2>2
<1>9. CASE AddpLine(line)
  <2>1. CASE Refuses(ReadError(line.operand, FREE_ADDRESS)) BY <1>3, <2>1
  <2>2. CASE ~Refuses(ReadError(line.operand, FREE_ADDRESS))
    <3>1. /\ line.k = "ADDp" /\ ReadError(line.operand, FREE_ADDRESS) = "none"
          /\ variable' = {Plus(Read(line.operand), line.add)} /\ UNCHANGED <<globals, code>>
      BY <1>9, <2>2 DEF AddpLine
    <3>2. "FORWARD" \notin FREE_ADDRESS BY DEF FREE_ADDRESS, ADDRESS
    <3>3. line.operand \in AnyOperand /\ line.add \in Word BY <1>1, <3>1, LineParts
    <3>4. ~Forward(line.operand) BY <3>1, <3>2 DEF Forward, ReadError
    <3>5. Read(line.operand) \in Word BY <3>1, <3>3, <3>4, ReadWord
    <3>6. \A v, w \in Word : Plus(v, w) \in Word BY WordFacts, PlusFacts
    <3>7. Plus(Read(line.operand), line.add) \in Word BY <3>3, <3>5, <3>6
    <3>8. variable' \subseteq Word BY <3>1, <3>7
    <3> QED BY <3>1, <3>8 DEF ValuesAreWords, defined
  <2> QED BY <2>1, <2>2
<1>10. CASE UseLine(line) \/ SwitchLine(line)
  <2>1. UNCHANGED <<globals, variable>> BY <1>10 DEF UseLine, SwitchLine, Refuses
  <2>2. code'.functions = code.functions
    <3>1. code' = code \/ (\E f : code' = [code EXCEPT !.operands = f])
            \/ (\E f, c : code' = [code EXCEPT !.operands = f, !.switches = c])
      BY <1>10 DEF UseLine, SwitchLine, Refuses
    <3> QED BY <3>1 DEF CodeType
  <2> QED BY <1>2, <2>1, <2>2, ValuesKept
<1>11. CASE FuncLine(line)
  <2>1. CASE Refuses(FuncError(line)) BY <1>3, <2>1
  <2>2. CASE ~Refuses(FuncError(line))
    <3> DEFINE symbol == Symbol({"FUNC"}, Plus(FUNCTION_OFFSET, code.functions), 1)
    <3>1. /\ FuncError(line) = "none" /\ globals' = With(globals, line.label, symbol)
          /\ code' = [EndedCode EXCEPT !.open = TRUE, !.functions = EndedCode.functions + 1] /\ variable' = variable
      BY <1>11, <2>2 DEF FuncLine
    <3>2. code.functions < maxFunctionCount BY <1>2, <3>1, WordsAssumption DEF FuncError
    <3>3. code.functions \in Word
      <4>1. PICK c \in Nat, m \in Nat : c = code.functions /\ m = maxFunctionCount /\ m <= LargestWord
        BY <1>2, WordsAssumption
      <4>2. c < m BY <3>2, <4>1
      <4>3. c \in Word BY <4>1, <4>2, SMT DEF Word, LargestWord
      <4> QED BY <4>1, <4>3
    <3>4. FUNCTION_OFFSET \in Word BY WordsAssumption
    <3>5. \A v, w \in Word : Plus(v, w) \in Word BY WordFacts, PlusFacts
    <3>6. symbol.value \in Word BY <3>3, <3>4, <3>5 DEF Symbol
    <3> HIDE DEF symbol
    <3>7. \A n \in DOMAIN globals' : globals'[n].value \in Word BY <3>1, <3>6, ValueAdded
    <3>8. code'.functions = code.functions + 1
      <4>1. EndedCode \in CodeType /\ EndedCode.functions = code.functions BY CodeParts DEF EndedCode
      <4> QED BY <3>1, <4>1 DEF CodeType
    <3>9. code'.functions <= maxFunctionCount BY <1>2, <3>2, <3>8, WordsAssumption
    <3> QED BY <3>1, <3>7, <3>9 DEF ValuesAreWords, defined
  <2> QED BY <2>1, <2>2
<1>12. CASE NewUnit(line)
  <2>1. code' = EndedCode /\ variable' = {} /\ globals' = globals BY <1>12 DEF NewUnit
  <2>2. EndedCode.functions = code.functions BY CodeParts DEF EndedCode
  <2> QED BY <2>1, <2>2 DEF ValuesAreWords, defined
<1> QED BY <1>6, <1>7, <1>8, <1>9, <1>10, <1>11, <1>12 DEF Line

\* Assembly gives words for values.
LEMMA AssemblyValues ==
  ASSUME SInv, code \in CodeType, ValuesAreWords, Next
  PROVE  ValuesAreWords'
<1>1. CASE Finalize
  <2>1. CASE Refuses(FinalizeError) BY <2>1, ValuesKept DEF Refuses, ValuesAreWords
  <2>2. CASE ~Refuses(FinalizeError)
    <3>1. code' = [EndedCode EXCEPT !.operands = PatchedCode(EndedCode.operands)] /\ variable' = {} /\ globals' = globals
      BY <1>1, <2>2 DEF Finalize
    <3>2. EndedCode \in CodeType /\ EndedCode.functions = code.functions BY CodeParts DEF EndedCode
    <3>3. code'.functions = code.functions BY <3>1, <3>2 DEF CodeType
    <3> QED BY <3>1, <3>3 DEF ValuesAreWords, defined
  <2> QED BY <2>1, <2>2
<1>2. CASE \E line \in program[Len(lines) + 1] : Len(lines) < Len(program) /\ Line(line) BY <1>2, LineValues
<1> QED BY <1>1, <1>2 DEF Next

\* The values at first.
LEMMA FirstValues ==
  /\ \A n \in DOMAIN Predefined : Predefined[n].value \in Word
  /\ [operands |-> <<>>, switches |-> {}, open |-> FALSE, functions |-> 0].functions <= maxFunctionCount
<1>1. 0 \in Word /\ 1 \in Word BY SMT DEF Word, LargestWord
<1>2. 0 <= maxFunctionCount BY WordsAssumption
<1> QED BY <1>1, <1>2 DEF Predefined, Symbol

WordsInv == AreWords(memory) /\ ValuesAreWords

\* A run leaves words.
LEMMA RanWords ==
  ASSUME DOMAIN memory = Cells, AreWords(memory), RunProgram
  PROVE  AreWords(memory')
<1>1. PICK words \in [0 .. maxMemorySize - 1 -> Word] :
        memory' = [cell \in DOMAIN memory |-> IF cell \in rwCells THEN words[cell] ELSE memory[cell]]
  BY DEF RunProgram
<1> QED BY <1>1 DEF AreWords, Cells

\* Whatever is assembled, run, frozen and thawed, every word of memory has 32 bits, and so has every value.
THEOREM AllAreWords == FrozenSpec => []WordsInv
<1>1. ASSUME FrozenInit PROVE WordsInv
  <2>1. AreWords(memory) BY <1>1, EmptyWords DEF FrozenInit, Init
  <2>2. ValuesAreWords BY <1>1, FirstValues DEF FrozenInit, Init, ValuesAreWords, defined
  <2> QED BY <2>1, <2>2 DEF WordsInv
<1>2. ASSUME BInv, AreWords(memory), ValuesAreWords, [FrozenNext]_thawVars PROVE AreWords(memory') /\ ValuesAreWords'
  <2>1. SInv /\ DOMAIN memory = Cells /\ code \in CodeType BY <1>2 DEF BInv, WInv, FInv, Assembled
  <2>2. CASE Assemble BY <1>2, <2>1, <2>2, AssemblyWords, AssemblyValues DEF Assemble
  <2>3. CASE Restart
    <3>1. AreWords(memory') BY <2>3, EmptyWords DEF Restart
    <3>2. ValuesAreWords' BY <2>3, FirstValues DEF Restart, ValuesAreWords, defined
    <3> QED BY <3>1, <3>2
  <2>4. CASE ThawWalk
    <3>1. UNCHANGED <<globals, variable, code>> BY <2>4 DEF ThawWalk, Thawing
    <3> QED BY <1>2, <2>4, <3>1, WalkWords DEF ValuesAreWords, defined
  <2>5. CASE freezeMemorySize \/ freezeMemory \/ UNCHANGED thawVars
    <3>1. UNCHANGED <<memory, globals, variable, code>> BY <2>5 DEF freezeMemorySize, freezeMemory, thawVars, vars
    <3> QED BY <1>2, <3>1 DEF ValuesAreWords, defined
  <2>6. CASE ThawHeader \/ ThawEntry \/ ThawValidate
    <3>1. UNCHANGED <<memory, globals, variable, code>> BY <2>6 DEF ThawHeader, ThawEntry, ThawValidate, vars, Thawing
    <3> QED BY <1>2, <3>1 DEF ValuesAreWords, defined
  <2>7. CASE RunProgram
    <3>1. UNCHANGED <<globals, variable, code>> BY <2>7 DEF RunProgram
    <3> QED BY <1>2, <2>1, <2>7, <3>1, RanWords DEF ValuesAreWords, defined
  <2> QED BY <1>2, <2>2, <2>3, <2>4, <2>5, <2>6, <2>7 DEF FrozenNext
<1>3. ASSUME BInv, WordsInv, [FrozenNext]_thawVars PROVE WordsInv' BY <1>2, <1>3 DEF WordsInv
<1> QED BY <1>1, <1>3, ReadingInvariant, PTL DEF FrozenSpec

-----------------------------------------------------------------------------
(***************************************************************************)
(* What a program would freeze can be saved.                               *)
(***************************************************************************)
\* No more labels own words than memory has.
LEMMA OwnersFew ==
  ASSUME SInv
  PROVE  Len(findMemoryOwners) \in Nat /\ Len(findMemoryOwners) <= maxMemorySize
<1> DEFINE owners == findMemoryOwners
           k == Len(owners)
           f == [j \in 1 .. k |-> owners[j].first]
<1>1. OwnersOrdered(owners) BY OwnersApart
<1>2. k \in Nat BY <1>1 DEF OwnersOrdered
<1>3. ASSUME NEW j \in 1 .. k PROVE owners[j].first \in WordsIn(owners[j]) /\ owners[j].first \in Cells
  <2>1. PICK first \in Nat, owned \in Nat \ {0} :
          first = owners[j].first /\ owned = owners[j].ownedWords /\ first + owned <= maxMemorySize
    BY OwnedSaved
  <2>2. first \in first .. first + owned - 1 OBVIOUS
  <2>3. first \in 0 .. maxMemorySize - 1
    <3>1. PICK m \in Nat : m = maxMemorySize BY Sizes
    <3> QED BY <2>1, <3>1
  <2> QED BY <2>1, <2>2, <2>3 DEF WordsIn, Cells
<1>4. \A i, j \in 1 .. k : i # j => WordsIn(owners[i]) \cap WordsIn(owners[j]) = {} BY <1>1 DEF OwnersOrdered
<1> HIDE DEF owners, k
<1>5. f \in Injection(1 .. k, Cells)
  <2>1. f \in [1 .. k -> Cells] BY <1>3
  <2>2. \A i, j \in 1 .. k : f[i] = f[j] => i = j
    <3>1. SUFFICES ASSUME NEW i \in 1 .. k, NEW j \in 1 .. k, f[i] = f[j], i # j PROVE FALSE OBVIOUS
    <3>2. owners[i].first = owners[j].first BY <3>1
    <3> QED BY <1>3, <1>4, <3>1, <3>2
  <2> QED BY <2>1, <2>2 DEF Injection, IsInjective
<1>6. IsFiniteSet(Cells) /\ Cardinality(Cells) = maxMemorySize
  <2>1. 0 \in Int /\ maxMemorySize - 1 \in Int /\ maxMemorySize \in Nat \ {0} BY Sizes
  <2>2. IsFiniteSet(0 .. maxMemorySize - 1)
        /\ Cardinality(0 .. maxMemorySize - 1) = IF 0 > maxMemorySize - 1 THEN 0 ELSE (maxMemorySize - 1) - 0 + 1
    BY <2>1, FS_Interval
  <2> QED BY <2>1, <2>2 DEF Cells
<1>7. IsFiniteSet(1 .. k) /\ Cardinality(1 .. k) = k
  <2>1. IsFiniteSet(1 .. k) /\ Cardinality(1 .. k) = IF 1 > k THEN 0 ELSE k - 1 + 1 BY <1>2, FS_Interval
  <2> QED BY <1>2, <2>1
<1>8. Cardinality(1 .. k) <= Cardinality(Cells) BY <1>5, <1>6, FS_Injection
<1> QED BY <1>2, <1>6, <1>7, <1>8 DEF owners, k

\* What is saved is a list in the order of its names, with room for every length.
LEMMA OwnersSaveable ==
  ASSUME SInv, NEW words, DOMAIN words = Cells, AreWords(words)
  PROVE  LET saves == SavesIn(findMemoryOwners, words)
         IN  /\ saves \in Saveable /\ Len(saves) = Len(findMemoryOwners)
             /\ \A j \in 1 .. Len(findMemoryOwners) :
                  /\ saves[j].name = findMemoryOwners[j].name
                  /\ Len(saves[j].words) = findMemoryOwners[j].ownedWords
<1> DEFINE owners == findMemoryOwners
           k == Len(owners)
           saves == SavesIn(findMemoryOwners, words)
<1>1. IsFiniteSet(defined) /\ DataNames \subseteq Labels BY DEF SInv, SectionsType, WordsOwned
<1>2. k \in Nat /\ k <= maxMemorySize /\ DOMAIN owners = 1 .. k
  <2>1. DOMAIN owners = 1 .. k BY <1>1, OwnersRanked
  <2> QED BY <2>1, OwnersFew
<1>3. \A i, j \in 1 .. k : i < j => Precedes(owners[i].name, owners[j].name) BY OwnersApart DEF OwnersOrdered
<1>4. maxMemorySize \in Nat /\ maxMemorySize < LargestWord
  <2>1. PICK m \in Nat, o \in Nat : m = maxMemorySize /\ o = MEMORY_OFFSET /\ m <= o BY Sizes
  <2>2. o <= LargestOffset BY <2>1, WordsAssumption
  <2>3. m < LargestWord BY <2>1, <2>2, SMT DEF LargestOffset, LargestWord
  <2> QED BY <2>1, <2>3
<1>5. ASSUME NEW j \in 1 .. k
      PROVE  /\ [name |-> owners[j].name, words |-> WordsFrom(words, owners[j])] \in SaveType
             /\ Len(owners[j].name) <= LargestWord /\ Len(WordsFrom(words, owners[j])) <= LargestWord
             /\ isValidIdentifier(owners[j].name)
             /\ Len(WordsFrom(words, owners[j])) = owners[j].ownedWords
  <2>1. PICK first \in Nat, owned \in Nat \ {0}, m \in Nat :
          /\ first = owners[j].first /\ owned = owners[j].ownedWords /\ m = maxMemorySize /\ first + owned <= m
    BY <1>4, OwnedSaved
  <2>2. /\ WordsFrom(words, owners[j])
             = [i \in 1 .. owners[j].ownedWords |-> words[owners[j].first + i - 1]]
        /\ isValidIdentifier(owners[j].name) /\ Len(owners[j].name) <= LargestWord /\ owners[j].name \in Name
    BY OwnedSaved
  <2> HIDE DEF owners
  <2>3. ASSUME NEW i \in 1 .. owned PROVE words[first + i - 1] \in Int
    <3>1. first + i - 1 \in 0 .. m - 1 BY <2>1
    <3> QED BY <2>1, <3>1, WordFacts DEF AreWords, Cells
  <2>4. WordsFrom(words, owners[j]) \in Seq(Int) /\ Len(WordsFrom(words, owners[j])) = owned
    <3>1. WordsFrom(words, owners[j]) = [i \in 1 .. owned |-> words[first + i - 1]] BY <2>1, <2>2
    <3> QED BY <2>3, <3>1
  <2>5. owned <= LargestWord
    <3>1. owned <= m /\ m < LargestWord BY <1>4, <2>1
    <3>2. LargestWord \in Int BY SMT DEF LargestWord
    <3> QED BY <3>1, <3>2
  <2> QED BY <2>1, <2>2, <2>4, <2>5 DEF SaveType
<1>6. saves = [j \in 1 .. k |-> [name |-> owners[j].name, words |-> WordsFrom(words, owners[j])]]
  BY <1>2 DEF SavesIn
<1> HIDE DEF owners, k, saves
<1>7. saves \in Seq(SaveType) /\ Len(saves) = k /\ DOMAIN saves = 1 .. k BY <1>2, <1>5, <1>6
<1>8. \A j \in 1 .. k : saves[j].name = owners[j].name /\ saves[j].words = WordsFrom(words, owners[j]) BY <1>6
<1>9. Ascending(saves) BY <1>3, <1>7, <1>8 DEF Ascending
<1>10. \A j \in 1 .. k : HasRoom(saves[j]) /\ isValidIdentifier(saves[j].name) BY <1>5, <1>8 DEF HasRoom
<1>11. Len(saves) < LargestWord
  <2>1. LargestWord \in Int BY SMT DEF LargestWord
  <2> QED BY <1>2, <1>4, <1>7, <2>1
<1>12. saves \in Saveable BY <1>7, <1>9, <1>10, <1>11 DEF Saveable
<1>13. \A j \in 1 .. k : saves[j].name = owners[j].name /\ Len(saves[j].words) = owners[j].ownedWords BY <1>5, <1>8
<1> QED BY <1>7, <1>12, <1>13 DEF saves, k, owners

\* From what freezing this program writes, entries are read that match its owners.
LEMMA SavedMatches ==
  ASSUME BInv, NEW words, DOMAIN words = Cells, AreWords(words), Finished(thaw), NEW version \in Supported,
         thaw.buffer = FrozenAs(version, SavesIn(findMemoryOwners, words))
  PROVE  Matches(thaw.entries, findMemoryOwners)
<1> DEFINE owners == findMemoryOwners
           saves == SavesIn(findMemoryOwners, words)
           entries == thaw.entries
           k == Len(owners)
<1>1. SInv BY DEF BInv, WInv, FInv, Assembled
<1>2. /\ saves \in Saveable /\ Len(saves) = k /\ k \in Nat
      /\ \A j \in 1 .. k : saves[j].name = owners[j].name /\ Len(saves[j].words) = owners[j].ownedWords
  BY <1>1, OwnersSaveable, OwnersFew
<1>3. ThawTyped(thaw) /\ Reading(thaw) /\ Kept(thaw) BY DEF BInv, WInv, FInv, ReadSoFar
<1>4. thaw.left = 0 /\ entries \in Seq(EntryType) BY <1>3 DEF Kept, ThawTyped
<1>5. saves \in Seq(SaveType) BY <1>2 DEF Saveable
<1> HIDE DEF saves
<1>6. /\ thaw.left + Len(entries) = Len(AllSaved(saves))
      /\ \A i \in 1 .. Len(entries) : Alike(entries[i], AllSaved(saves)[i])
  <2>1. thaw.buffer = FrozenAs(version, saves) BY DEF saves
  <2> QED BY <1>2, <1>3, <2>1, ReadSaved
<1>7. Len(AllSaved(saves)) = k + 1 /\ \A i \in 1 .. k : AllSaved(saves)[i + 1] = saves[i]
  BY <1>2, <1>5, AllOfThem
<1> HIDE DEF owners, entries, k
<1>8. Len(entries) = k + 1
  <2>1. Len(entries) \in Nat BY <1>4
  <2> QED BY <1>2, <1>4, <1>6, <1>7, <2>1
<1>9. ASSUME NEW j \in 1 .. k PROVE Same(entries[j + 1], owners[j])
  <2>1. j + 1 \in 1 .. k + 1 BY <1>2
  <2>2. Alike(entries[j + 1], saves[j]) BY <1>6, <1>7, <1>8, <2>1
  <2> QED BY <1>2, <2>2 DEF Alike, Same
<1>10. Len(entries) # 0 /\ k = Len(entries) - 1 BY <1>2, <1>8
<1>11. Matches(entries, owners) BY <1>9, <1>10 DEF Matches, k
<1> QED BY <1>11 DEF entries, owners

\* The result is MEMORY_OK when the buffer is what freezing this program writes.
LEMMA ThawedAlike ==
  ASSUME BInv, AreWords(memory), Thawed
  PROVE  thaw.status = "OK" <=> \E version \in Supported : thaw.buffer = FrozenAs(version, OwnersSaved)
<1>1. SInv /\ DOMAIN memory = Cells BY DEF BInv, WInv, FInv, Assembled
<1>2. CASE Finished(thaw)
  <2>1. thaw.status = "OK" <=> Matches(thaw.entries, findMemoryOwners) BY <1>2, ResultMatches
  <2>2. ASSUME Matches(thaw.entries, findMemoryOwners)
        PROVE  \E version \in Supported : thaw.buffer = FrozenAs(version, OwnersSaved)
    <3>1. OwnersSaved = EntriesSaved BY <1>2, <2>2, MatchedSaves
    <3>2. /\ getMemoryWord(thaw.buffer, 8) \in Supported
          /\ thaw.buffer = FrozenAs(getMemoryWord(thaw.buffer, 8), EntriesSaved)
      BY <1>2, AcceptedFrozen
    <3> QED BY <3>1, <3>2
  <2>3. ASSUME NEW version \in Supported, thaw.buffer = FrozenAs(version, OwnersSaved)
        PROVE  Matches(thaw.entries, findMemoryOwners)
    BY <1>1, <1>2, <2>3, SavedMatches, SavedFrom
  <2> QED BY <2>1, <2>2, <2>3
<1>3. CASE ~Finished(thaw)
  <2>1. Unsaved(thaw.buffer) /\ thaw.status # "OK" BY <1>3 DEF BInv, ReadSoFar, Finished, Thawed
  <2>2. OwnersSaved \in Saveable BY <1>1, OwnersSaveable, SavedFrom
  <2> QED BY <2>1, <2>2 DEF Unsaved
<1> QED BY <1>2, <1>3

-----------------------------------------------------------------------------
(***************************************************************************)
(* Only GLOB sections are written.                                         *)
(***************************************************************************)
\* A section's address, by the lines.
LEMMA AddressIs ==
  \A s : SectionAddress(s) = AddressOf(lines, s)
<1>1. ConstantSizes = ConstantSizesOf(lines) BY DEF ConstantSizes, ConstantSizesOf, IsConstant
<1>2. GlobalSizes = GlobalSizesOf(lines) BY DEF GlobalSizes, GlobalSizesOf, IsConstant
<1> QED BY <1>1, <1>2 DEF SectionAddress, AddressOf, IsConstant

\* What belongs to a GLOB label is a word of its section.
LEMMA GlobalPlaced ==
  ASSUME SInv, LInv, status = "done", NEW cell \in GlobalCells
  PROVE  \E s \in SectionLines : lines[s].kind = "GLOB" /\ cell - CellAt(SectionAddress(s)) \in Places(s)
<1>1. PICK n \in DataNames : InGlob(globals[n].types) /\ cell \in OwnedCells(globals[n]) BY DEF GlobalCells
<1>2. PICK address \in Owned(globals[n]) : cell = CellAt(address) BY <1>1 DEF OwnedCells
<1>3. lines \in Seq(AnyLine) BY DEF SInv, SectionsType
<1>4. Placed(lines) /\ Describes(lines, globals) BY DEF LInv, Follows
<1>5. n \in defined /\ isData(globals[n].types) BY <1>1 DEF DataNames
<1>6. PICK i \in Labelled(lines) : lines[i].label = n BY <1>4, <1>5 DEF Describes, defined
<1>7. PICK s : s = HolderOf(lines, i) OBVIOUS
<1>8. s \in SectionsOf(lines) /\ Holds(lines, s, i) /\ i \in 1 .. Len(lines)
  BY <1>3, <1>4, <1>6, <1>7, LabelledThere
<1>9. i \in SectionsOf(lines) \cup DataOf(lines) BY <1>6 DEF Labelled
<1>10. /\ PlaceIn(lines, i) \in Nat /\ AddressOf(lines, s) \in Int
       /\ lines[s].size \in Nat /\ lines[s].kind \in {"GLOB", "TEMP", "CNST"}
  BY <1>3, <1>8, <1>9, PlacesTyped
<1>11. AsDeclared(lines, i, globals[n]) BY <1>4, <1>6 DEF Describes
<1>12. /\ globals[n].types = DeclareTypes(lines[s].kind)
       /\ globals[n].value = AddressOf(lines, s) + PlaceIn(lines, i)
       /\ globals[n].ownedWords \in 0 .. lines[s].size - PlaceIn(lines, i)
  BY <1>7, <1>11 DEF AsDeclared
<1>13. lines[s].kind = "GLOB"
  <2>1. PICK kind \in {"GLOB", "TEMP", "CNST"} : kind = lines[s].kind BY <1>10
  <2>2. InGlob(DeclareTypes(kind)) BY <1>1, <1>12, <2>1
  <2> QED BY <2>1, <2>2, DeclaredTypes
<1>14. PICK a \in Int, place \in Nat, size \in Nat, owned \in Nat :
         /\ a = AddressOf(lines, s) /\ place = PlaceIn(lines, i) /\ size = lines[s].size
         /\ owned = globals[n].ownedWords /\ place + owned <= size /\ globals[n].value = a + place
  <2>1. PICK b \in Int, p \in Nat, z \in Nat : b = AddressOf(lines, s) /\ p = PlaceIn(lines, i) /\ z = lines[s].size
    BY <1>10
  <2>2. PICK o : o = globals[n].ownedWords OBVIOUS
  <2>3. o \in 0 .. z - p /\ globals[n].value = b + p BY <1>12, <2>1, <2>2
  <2>4. o \in Nat /\ p + o <= z BY <2>3
  <2> QED BY <2>1, <2>2, <2>3, <2>4
<1>15. address \in Int /\ a + place <= address /\ address <= a + place + owned - 1
  <2>1. address \in a + place .. a + place + owned - 1 BY <1>2, <1>14 DEF Owned
  <2> QED BY <2>1
<1>16. PICK offset \in Int, moved \in Int : offset = MEMORY_OFFSET /\ moved = constantsSize
  <2>1. constantsPointer \in Int BY DEF SInv, SectionsType, Pointers
  <2> QED BY <2>1, Sizes DEF constantsSize
<1>17. cell - CellAt(AddressOf(lines, s)) = address - a
  <2>1. cell = address - offset + moved /\ CellAt(AddressOf(lines, s)) = a - offset + moved
    BY <1>2, <1>14, <1>16 DEF CellAt
  <2> QED BY <1>15, <1>16, <2>1
<1>18. address - a \in 0 .. size - 1 BY <1>14, <1>15
<1>19. s \in SectionLines /\ Places(s) = 0 .. size - 1 BY <1>8, <1>14, SourceIs DEF Places
<1> QED BY <1>13, <1>17, <1>18, <1>19, AddressIs

\* The invariants say that thawing restores all or nothing.
LEMMA InvariantWhole == BInv /\ LInv /\ AreWords(memory) => AllOrNothing
<1> SUFFICES ASSUME BInv, LInv, AreWords(memory), Thawed PROVE AllOrNothing BY DEF AllOrNothing
<1>1. ASSUME Accepted
      PROVE  (\E version \in Supported : thaw.buffer = FrozenAs(version, EntriesSaved)) /\ Ascending(EntriesSaved)
  <2>1. Finished(thaw) BY <1>1 DEF Accepted, Thawed, Finished
  <2> QED BY <2>1, AcceptedFrozen
<1>2. thaw.status = "OK" <=> \E version \in Supported : thaw.buffer = FrozenAs(version, OwnersSaved)
  BY ThawedAlike
<1>3. ASSUME NEW cell \in DOMAIN memory, memory[cell] # thaw.before[cell]
      PROVE  \E s \in SectionLines : lines[s].kind = "GLOB" /\ cell - CellAt(SectionAddress(s)) \in Places(s)
  <2>1. SInv /\ status = "done" /\ RestoredOnly(thaw, memory, GlobalCells)
    BY DEF BInv, WInv, FInv, Assembled, Thawed
  <2>2. cell \in GlobalCells BY <1>3, <2>1 DEF RestoredOnly, Thawed
  <2> QED BY <2>1, <2>2, GlobalPlaced
<1> QED BY <1>1, <1>2, <1>3 DEF AllOrNothing

\* thawMemory: whatever is thawed, what is accepted is to the last byte what freezing its entries writes, and
\* the result is MEMORY_OK exactly when this program would freeze the same; nothing but GLOB sections is written.
THEOREM AllRestored == FrozenSpec => []AllOrNothing
<1> QED BY InvariantWhole, ReadingInvariant, LinesFollowed, AllAreWords, PTL DEF WordsInv

-----------------------------------------------------------------------------
(***************************************************************************)
(* The owners, by the lines alone: programs of the same lines have the     *)
(* same.                                                                   *)
(***************************************************************************)
\* A line's label owns these words.
IsOwner(ls, i, owner) ==
  LET s == HolderOf(ls, i)
  IN  /\ owner.name = NameBytes[ls[i].label]
      /\ InGlob(DeclareTypes(ls[s].kind))
      /\ owner.first = (AddressOf(ls, s) + PlaceIn(ls, i)) - MEMORY_OFFSET + Sums(ConstantSizesOf(ls))[Len(ls)]
      /\ owner.ownedWords \in 0 .. ls[s].size - PlaceIn(ls, i)
      /\ owner.ownedWords # 0
      /\ \A place \in 0 .. ls[s].size - 1 : HasAt(ls, i, owner, place) <=> LastAt(ls, i, place)

FoundIn(ls) == {owner \in OwnerType : \E i \in Labelled(ls) : IsOwner(ls, i, owner)}

\* findMemoryOwners, of any owners.
Listed(found) ==
  [i \in 1 .. Cardinality(found) |->
     CHOOSE owner \in found : Cardinality({other \in found : Precedes(other.name, owner.name)}) = i - 1]
OwnersIn(ls) == Listed(FoundIn(ls))

\* What a label has of a section says how many words it owns.
LEMMA SameShare ==
  ASSUME NEW ls, NEW i, NEW x, NEW y, NEW size \in Nat, PlaceIn(ls, i) \in Nat,
         x.ownedWords \in 0 .. size - PlaceIn(ls, i), y.ownedWords \in 0 .. size - PlaceIn(ls, i),
         \A place \in 0 .. size - 1 : HasAt(ls, i, x, place) <=> HasAt(ls, i, y, place)
  PROVE  x.ownedWords = y.ownedWords
<1>1. PICK p \in Nat, a \in Nat, b \in Nat :
        p = PlaceIn(ls, i) /\ a = x.ownedWords /\ b = y.ownedWords /\ p + a <= size /\ p + b <= size
  OBVIOUS
<1>2. \A place \in 0 .. size - 1 : (p <= place /\ place < p + a) <=> (p <= place /\ place < p + b)
  BY <1>1 DEF HasAt
<1>3. ~(a < b)
  <2>1. SUFFICES ASSUME a < b PROVE FALSE OBVIOUS
  <2>2. PICK place \in 0 .. size - 1 : p <= place /\ ~(place < p + a) /\ place < p + b
    <3>1. p + a \in 0 .. size - 1 /\ p <= p + a /\ ~(p + a < p + a) /\ p + a < p + b BY <1>1, <2>1
    <3> QED BY <3>1
  <2> QED BY <1>2, <2>2
<1>4. ~(b < a)
  <2>1. SUFFICES ASSUME b < a PROVE FALSE OBVIOUS
  <2>2. PICK place \in 0 .. size - 1 : p <= place /\ ~(place < p + b) /\ place < p + a
    <3>1. p + b \in 0 .. size - 1 /\ p <= p + b /\ ~(p + b < p + b) /\ p + b < p + a BY <1>1, <2>1
    <3> QED BY <3>1
  <2> QED BY <1>2, <2>2
<1> QED BY <1>1, <1>3, <1>4

\* Constants are as large as the lines say, and a label's cell follows.
LEMMA CellOf ==
  ASSUME SInv, Counted(lines, globalsPointer, constantsPointer), NEW a \in Int
  PROVE  CellAt(a) = a - MEMORY_OFFSET + Sums(ConstantSizesOf(lines))[Len(lines)]
<1>1. lines \in Seq(AnyLine) /\ constantsPointer \in Int BY DEF SInv, SectionsType, Pointers
<1>2. PICK n \in Nat : n = Sums(ConstantSizesOf(lines))[Len(lines)]
  <2>1. Len(lines) \in 0 .. Len(lines) BY <1>1
  <2> QED BY <1>1, <2>1, SumsTyped
<1>3. PICK c \in Int, m \in Int : c = constantsPointer /\ m = maxMemorySize BY <1>1, Sizes
<1>4. c = m - 1 - n BY <1>2, <1>3 DEF Counted
<1>5. constantsSize = n BY <1>2, <1>3, <1>4 DEF constantsSize
<1> QED BY <1>2, <1>5 DEF CellAt

\* The owners that findMemoryOwners finds are those of the lines.
LEMMA FoundByLines ==
  ASSUME SInv, Follows(lines, globals, data, globalsPointer, constantsPointer)
  PROVE  Found = FoundIn(lines)
<1> DEFINE ls == lines
           more == Sums(ConstantSizesOf(lines))[Len(lines)]
<1>1. ls \in Seq(AnyLine) BY DEF SInv, SectionsType
<1>2. Placed(ls) /\ Describes(ls, globals) /\ Counted(ls, globalsPointer, constantsPointer) BY DEF Follows
<1>3. ASSUME NEW i \in Labelled(ls)
      PROVE  /\ AddressOf(ls, HolderOf(ls, i)) \in Int /\ PlaceIn(ls, i) \in Nat
             /\ ls[HolderOf(ls, i)].size \in Nat /\ ls[HolderOf(ls, i)].kind \in {"GLOB", "TEMP", "CNST"}
             /\ CellAt(AddressOf(ls, HolderOf(ls, i)) + PlaceIn(ls, i))
                  = (AddressOf(ls, HolderOf(ls, i)) + PlaceIn(ls, i)) - MEMORY_OFFSET + more
  <2>1. Holds(ls, HolderOf(ls, i), i) /\ i \in 1 .. Len(ls) BY <1>1, <1>2, LabelledThere
  <2>2. i \in SectionsOf(ls) \cup DataOf(ls) BY DEF Labelled
  <2>3. /\ AddressOf(ls, HolderOf(ls, i)) \in Int /\ PlaceIn(ls, i) \in Nat
        /\ ls[HolderOf(ls, i)].size \in Nat /\ ls[HolderOf(ls, i)].kind \in {"GLOB", "TEMP", "CNST"}
    BY <1>1, <2>1, <2>2, PlacesTyped
  <2>4. PICK a \in Int : a = AddressOf(ls, HolderOf(ls, i)) + PlaceIn(ls, i) BY <2>3
  <2>5. CellAt(a) = a - MEMORY_OFFSET + more BY <1>2, CellOf
  <2>6. CellAt(AddressOf(ls, HolderOf(ls, i)) + PlaceIn(ls, i))
          = (AddressOf(ls, HolderOf(ls, i)) + PlaceIn(ls, i)) - MEMORY_OFFSET + more
    BY <2>4, <2>5, Zenon
  <2> QED BY <2>3, <2>6
<1> HIDE DEF ls, more
<1>4. ASSUME NEW n \in GlobNames PROVE Owner(n) \in FoundIn(ls)
  <2>1. n \in defined /\ isData(globals[n].types) /\ InGlob(globals[n].types) /\ globals[n].ownedWords # 0
    BY DEF GlobNames, InGlob
  <2>2. PICK i \in Labelled(ls) : ls[i].label = n BY <1>2, <2>1 DEF Describes, defined
  <2>3. PICK s : s = HolderOf(ls, i) OBVIOUS
  <2>4. PICK x : x = Owner(n) OBVIOUS
  <2>5. /\ x \in OwnerType /\ x.name = NameBytes[n]
        /\ x.first = CellAt(globals[n].value) /\ x.ownedWords = globals[n].ownedWords
    BY <2>4, GlobalWords
  <2>6. AsDeclared(ls, i, globals[n]) BY <1>2, <2>2 DEF Describes
  <2>7. /\ globals[n].types = DeclareTypes(ls[s].kind)
        /\ globals[n].value = AddressOf(ls, s) + PlaceIn(ls, i)
        /\ globals[n].ownedWords \in 0 .. ls[s].size - PlaceIn(ls, i)
        /\ \A place \in 0 .. ls[s].size - 1 : HasAt(ls, i, globals[n], place) <=> LastAt(ls, i, place)
    BY <2>3, <2>6 DEF AsDeclared
  <2>8. x.first = (AddressOf(ls, s) + PlaceIn(ls, i)) - MEMORY_OFFSET + more BY <1>3, <2>3, <2>5, <2>7
  <2>9. \A place \in 0 .. ls[s].size - 1 : HasAt(ls, i, x, place) <=> LastAt(ls, i, place)
    BY <2>5, <2>7 DEF HasAt
  <2>10. IsOwner(ls, i, x) BY <2>1, <2>2, <2>3, <2>5, <2>7, <2>8, <2>9 DEF IsOwner, more, ls
  <2> QED BY <2>4, <2>5, <2>10 DEF FoundIn
<1>5. ASSUME NEW x \in FoundIn(ls) PROVE \E n \in GlobNames : x = Owner(n)
  <2>1. x \in OwnerType /\ \E i \in Labelled(ls) : IsOwner(ls, i, x) BY DEF FoundIn
  <2>2. PICK i \in Labelled(ls) : IsOwner(ls, i, x) BY <2>1
  <2>3. PICK s, n : s = HolderOf(ls, i) /\ n = ls[i].label OBVIOUS
  <2>4. /\ x.name = NameBytes[n] /\ InGlob(DeclareTypes(ls[s].kind))
        /\ x.first = (AddressOf(ls, s) + PlaceIn(ls, i)) - MEMORY_OFFSET + more
        /\ x.ownedWords \in 0 .. ls[s].size - PlaceIn(ls, i) /\ x.ownedWords # 0
        /\ \A place \in 0 .. ls[s].size - 1 : HasAt(ls, i, x, place) <=> LastAt(ls, i, place)
    BY <2>2, <2>3 DEF IsOwner, more, ls
  <2>5. n \in defined /\ AsDeclared(ls, i, globals[n]) BY <1>2, <2>3 DEF Describes, defined
  <2>6. /\ globals[n].types = DeclareTypes(ls[s].kind)
        /\ globals[n].value = AddressOf(ls, s) + PlaceIn(ls, i)
        /\ globals[n].ownedWords \in 0 .. ls[s].size - PlaceIn(ls, i)
        /\ \A place \in 0 .. ls[s].size - 1 : HasAt(ls, i, globals[n], place) <=> LastAt(ls, i, place)
    BY <2>3, <2>5 DEF AsDeclared
  <2>7. \A place \in 0 .. ls[s].size - 1 : HasAt(ls, i, x, place) <=> HasAt(ls, i, globals[n], place)
    BY <2>4, <2>6
  <2>8. ls[s].size \in Nat /\ PlaceIn(ls, i) \in Nat BY <1>3, <2>3
  <2>9. x.ownedWords = globals[n].ownedWords BY <2>4, <2>6, <2>7, <2>8, SameShare
  <2>10. n \in GlobNames BY <2>4, <2>5, <2>6, <2>9 DEF GlobNames
  <2>11. PICK y : y = Owner(n) OBVIOUS
  <2>12. /\ y \in OwnerType /\ y.name = NameBytes[n]
         /\ y.first = CellAt(globals[n].value) /\ y.ownedWords = globals[n].ownedWords
    BY <2>10, <2>11, GlobalWords
  <2>13. y.first = x.first BY <1>3, <2>3, <2>4, <2>6, <2>12
  <2>14. x.name = y.name /\ x.ownedWords = y.ownedWords BY <2>4, <2>9, <2>12
  <2>15. x = y BY <2>1, <2>12, <2>13, <2>14 DEF OwnerType
  <2> QED BY <2>10, <2>11, <2>15
<1>6. \A x : x \in Found <=> x \in FoundIn(ls) BY <1>4, <1>5 DEF Found
<1> QED BY <1>6 DEF ls

\* findMemoryOwners depends on the lines alone.
LEMMA OwnersByLines ==
  ASSUME SInv, LInv, status = "done"
  PROVE  findMemoryOwners = OwnersIn(lines)
<1>1. Found = FoundIn(lines) BY FoundByLines DEF LInv
<1>2. findMemoryOwners = Listed(Found) BY DEF findMemoryOwners, Listed, Found
<1> QED BY <1>1, <1>2 DEF OwnersIn

-----------------------------------------------------------------------------
(***************************************************************************)
(* freezeMemorySize: as large as what is frozen.                           *)
(***************************************************************************)
\* Where the entries end is as far as their sizes add up to.
LEMMA EndsAdd ==
  ASSUME NEW saves \in Seq(SaveType), NEW at, Follow(at, AllSaved(saves)),
         NEW sizes \in Seq(Nat), Len(sizes) = Len(saves),
         \A o \in 1 .. Len(saves) : sizes[o] = EntrySize(Len(saves[o].name), Len(saves[o].words))
  PROVE  at[Len(saves) + 1] = MEMORY_HEADER_SIZE + MEMORY_CHECK_SIZE + Sums(sizes)[Len(saves)]
<1> DEFINE all == AllSaved(saves)
           k == Len(saves)
<1>1. k \in Nat OBVIOUS
<1>2. /\ all \in Seq(SaveType) /\ Len(all) = k + 1 /\ all[1] = Check
      /\ \A i \in 1 .. k : all[i + 1] = saves[i]
  BY AllOfThem
<1>3. \A i \in 1 .. k : saves[i] \in SaveType OBVIOUS
<1>4. Adds(Sums(sizes), sizes, k) BY SumsAdd
<1>5. PICK f : f = Sums(sizes) OBVIOUS
<1>6. f \in [0 .. k -> Nat] /\ f[0] = 0 /\ \A i \in 1 .. k : f[i] = f[i - 1] + sizes[i] BY <1>4, <1>5 DEF Adds
<1> HIDE DEF all, k
<1>7. /\ at \in [0 .. k + 1 -> Nat] /\ at[0] = MEMORY_HEADER_SIZE
      /\ \A i \in 1 .. k + 1 : at[i] = WordsAfter(at[i - 1], Len(all[i].name)) + 4 * Len(all[i].words)
  BY <1>2 DEF Follow, all
<1>8. PICK head \in Nat : head = MEMORY_HEADER_SIZE + MEMORY_CHECK_SIZE
  BY DEF MEMORY_HEADER_SIZE, MEMORY_CHECK_SIZE
<1>9. at[1] = head
  <2>1. 1 \in 1 .. k + 1 /\ 1 - 1 = 0 BY <1>1
  <2>2. at[1] = WordsAfter(at[0], Len(Check.name)) + 4 * Len(Check.words) BY <1>2, <1>7, <2>1
  <2> QED BY <1>7, <1>8, <2>2, CheckSize
<1>10. ASSUME NEW i \in 1 .. k, at[i] = head + f[i - 1]
       PROVE  at[i + 1] = head + f[i]
  <2>1. i + 1 \in 1 .. k + 1 /\ (i + 1) - 1 = i /\ i \in 0 .. k + 1 /\ i - 1 \in 0 .. k BY <1>1
  <2>2. PICK p \in Nat, save \in SaveType, g \in Nat : p = at[i] /\ save = saves[i] /\ g = f[i - 1]
    BY <1>3, <1>6, <1>7, <2>1 DEF k
  <2>3. PICK l \in Nat, c \in Nat, d \in Nat : l = Len(save.name) /\ c = Len(save.words) /\ d = memoryPadding(l)
    BY SaveParts
  <2>4. at[i + 1] = WordsAfter(p, l) + 4 * c BY <1>2, <1>7, <2>1, <2>2, <2>3
  <2>5. WordsAfter(p, l) = p + 8 + l + d BY <2>3 DEF WordsAfter
  <2>6. sizes[i] = EntrySize(l, c) BY <2>2, <2>3 DEF k
  <2>7. EntrySize(l, c) = 4 + l + d + 4 + c * 4 BY <2>3 DEF EntrySize
  <2>8. f[i] = g + (4 + l + d + 4 + c * 4) BY <1>6, <2>2, <2>6, <2>7
  <2>9. p = head + g BY <1>10, <2>2
  <2>10. (p + 8 + l + d) + 4 * c = head + (g + (4 + l + d + 4 + c * 4)) BY <2>9
  <2> QED BY <2>4, <2>5, <2>8, <2>10
<1> DEFINE Bad == {i \in 0 .. k : at[i + 1] # head + f[i]}
<1>11. Bad = {}
  <2>1. SUFFICES ASSUME Bad # {} PROVE FALSE OBVIOUS
  <2>2. Bad \in SUBSET Nat OBVIOUS
  <2> HIDE DEF Bad
  <2>3. PICK i \in Bad : \A j \in Bad : i <= j BY <2>1, <2>2, LeastNumber
  <2>4. i \in 0 .. k /\ at[i + 1] # head + f[i] BY <2>3 DEF Bad
  <2>5. i # 0
    <3>1. at[0 + 1] = head + f[0] BY <1>6, <1>8, <1>9
    <3> QED BY <2>4, <3>1
  <2>6. i \in 1 .. k /\ i - 1 \in 0 .. k /\ (i - 1) + 1 = i /\ ~(i <= i - 1) BY <1>1, <2>4, <2>5
  <2>7. i - 1 \notin Bad BY <2>3, <2>6
  <2>8. at[i] = head + f[i - 1] BY <2>6, <2>7 DEF Bad
  <2> QED BY <1>10, <2>4, <2>6, <2>8
<1>12. k \in 0 .. k BY <1>1
<1>13. at[k + 1] = head + f[k] BY <1>11, <1>12
<1> QED BY <1>5, <1>8, <1>13 DEF k

\* freezeMemorySize: what is frozen fills the buffer exactly.
LEMMA FrozenSized ==
  ASSUME SInv, NEW words, DOMAIN words = Cells, AreWords(words)
  PROVE  /\ Len(FrozenAs(VERSION, SavesIn(findMemoryOwners, words))) = frozenSize(findMemoryOwners)
         /\ frozenSize(findMemoryOwners) # 0
<1> DEFINE owners == findMemoryOwners
           saves == SavesIn(findMemoryOwners, words)
           k == Len(owners)
           sizes == [o \in DOMAIN owners |-> EntrySize(Len(owners[o].name), owners[o].ownedWords)]
<1>1. IsFiniteSet(defined) /\ DataNames \subseteq Labels BY DEF SInv, SectionsType, WordsOwned
<1>2. k \in Nat /\ DOMAIN owners = 1 .. k
  <2>1. DOMAIN owners = 1 .. k BY <1>1, OwnersRanked
  <2> QED BY <2>1, OwnersFew
<1>3. /\ saves \in Saveable /\ Len(saves) = k
      /\ \A j \in 1 .. k : saves[j].name = owners[j].name /\ Len(saves[j].words) = owners[j].ownedWords
  BY OwnersSaveable
<1>4. saves \in Seq(SaveType) BY <1>3 DEF Saveable
<1>5. frozenSize(owners) = MEMORY_HEADER_SIZE + MEMORY_CHECK_SIZE + Sums(sizes)[k] BY DEF frozenSize
<1> HIDE DEF owners, saves
<1>6. \A j \in 1 .. k : sizes[j] = EntrySize(Len(saves[j].name), Len(saves[j].words)) BY <1>2, <1>3
<1>7. \A j \in 1 .. k : sizes[j] \in Nat
  <2> SUFFICES ASSUME NEW j \in 1 .. k PROVE sizes[j] \in Nat OBVIOUS
  <2>1. saves[j] \in SaveType BY <1>3, <1>4
  <2>2. PICK save \in SaveType : save = saves[j] BY <2>1
  <2>3. PICK l \in Nat, c \in Nat, d \in Nat : l = Len(save.name) /\ c = Len(save.words) /\ d = memoryPadding(l)
    BY SaveParts
  <2>4. EntrySize(l, c) = 4 + l + d + 4 + c * 4 BY <2>3 DEF EntrySize
  <2>5. 4 + l + d + 4 + c * 4 \in Nat OBVIOUS
  <2>6. sizes[j] = EntrySize(l, c) BY <1>6, <2>2, <2>3
  <2> QED BY <2>4, <2>5, <2>6
<1>8. sizes \in Seq(Nat) /\ Len(sizes) = k
  <2>1. sizes = [o \in 1 .. k |-> sizes[o]] BY <1>2
  <2> HIDE DEF sizes
  <2> QED BY <1>2, <1>7, <2>1
<1> HIDE DEF sizes, k
<1>9. AllSaved(saves) \in Seq(SaveType) BY <1>4, AllOfThem
<1>10. PICK at : Follow(at, AllSaved(saves)) BY <1>9, EndsExist
<1>11. VERSION \in Int BY FrozenAssumption
<1>12. Len(FrozenAs(VERSION, saves)) = at[Len(saves) + 1] BY <1>4, <1>10, <1>11, FrozenStands
<1>13. at[Len(saves) + 1] = MEMORY_HEADER_SIZE + MEMORY_CHECK_SIZE + Sums(sizes)[Len(saves)]
  BY <1>3, <1>4, <1>6, <1>8, <1>10, EndsAdd
<1>14. Len(FrozenAs(VERSION, saves)) = frozenSize(owners) BY <1>3, <1>5, <1>12, <1>13
<1>15. frozenSize(owners) # 0
  <2>1. Sums(sizes)[k] \in Nat
    <3>1. Adds(Sums(sizes), sizes, k) BY <1>8, SumsAdd
    <3>2. k \in 0 .. k BY <1>2
    <3> QED BY <3>1, <3>2 DEF Adds
  <2>2. PICK x \in Nat : x = Sums(sizes)[k] BY <2>1
  <2>3. 20 + 28 + x # 0 OBVIOUS
  <2> QED BY <1>5, <2>2, <2>3 DEF MEMORY_HEADER_SIZE, MEMORY_CHECK_SIZE
<1> QED BY <1>14, <1>15 DEF owners, saves

-----------------------------------------------------------------------------
(***************************************************************************)
(* The invariant of freezing: what was saved is what the lines and words   *)
(* that were saved with it say.                                            *)
(***************************************************************************)
SavedRightly(s) ==
  /\ s.bytes = FrozenAs(VERSION, SavesIn(OwnersIn(s.lines), s.memory))
  /\ Len(s.bytes) = s.size
  /\ DOMAIN s.memory = Cells /\ AreWords(s.memory)

KInv ==
  \/ thaw.at = "none" /\ saved = NotSaved
  \/ thaw.at = "none" /\ status = "done" /\ saved = [NotSaved EXCEPT !.size = frozenSize(findMemoryOwners)]
  \/ saved.bytes # <<>> /\ SavedRightly(saved)

\* What is frozen is saved with the lines and the words that it is of.
LEMMA FrozenRightly ==
  ASSUME BInv, LInv, AreWords(memory), KInv, freezeMemory
  PROVE  saved'.bytes # <<>> /\ SavedRightly(saved')
<1>1. SInv /\ DOMAIN memory = Cells BY DEF BInv, WInv, FInv, Assembled
<1>2. saved.size # 0 /\ saved.bytes = <<>> /\ saved' = [saved EXCEPT !.bytes = Frozen, !.lines = lines, !.memory = memory]
  BY DEF freezeMemory
<1>3. PICK size : size = frozenSize(findMemoryOwners) OBVIOUS
<1>4. status = "done" /\ saved = [NotSaved EXCEPT !.size = size] BY <1>2, <1>3 DEF KInv, NotSaved
<1>5. saved'.size = size /\ saved'.bytes = Frozen /\ saved'.lines = lines /\ saved'.memory = memory
  BY <1>2, <1>4 DEF NotSaved
<1>6. Frozen = FrozenAs(VERSION, SavesIn(findMemoryOwners, memory)) BY SavedFrom DEF Frozen
<1>7. Len(Frozen) = size /\ size # 0 BY <1>1, <1>3, <1>6, FrozenSized
<1>8. Frozen # <<>>
  <2>1. Len(<<>>) = 0 OBVIOUS
  <2> QED BY <1>7, <2>1
<1>9. findMemoryOwners = OwnersIn(lines) BY <1>1, <1>4, OwnersByLines
<1> QED BY <1>1, <1>5, <1>6, <1>7, <1>8, <1>9 DEF SavedRightly

\* Saving keeps its invariant.
THEOREM SavedInvariant == FrozenSpec => []KInv
<1>1. FrozenInit => KInv BY ThawStart DEF FrozenInit, KInv
<1>2. ASSUME BInv, LInv, WordsInv, KInv, [FrozenNext]_thawVars PROVE KInv'
  <2>1. CASE saved.bytes # <<>> /\ saved' = saved
    <3>1. SavedRightly(saved) BY <1>2, <2>1 DEF KInv, NotSaved
    <3> QED BY <2>1, <3>1 DEF KInv
  <2>2. CASE Assemble
    <3>1. status = "feeding" /\ saved' = saved /\ thaw' = thaw BY <2>2, AssemblyKeeps DEF Assemble
    <3> QED BY <1>2, <2>1, <3>1 DEF KInv
  <2>3. CASE freezeMemorySize
    <3>1. /\ status = "done" /\ saved = NotSaved /\ thaw' = thaw
          /\ saved' = [NotSaved EXCEPT !.size = frozenSize(findMemoryOwners)]
          /\ status' = status /\ globals' = globals /\ constantsPointer' = constantsPointer
      BY <2>3 DEF freezeMemorySize, vars
    <3>2. findMemoryOwners' = findMemoryOwners BY <3>1, OwnersStay
    <3>3. thaw.at = "none" BY <1>2, <3>1 DEF KInv, NotSaved
    <3>4. frozenSize(findMemoryOwners)' = frozenSize(findMemoryOwners) BY <3>2 DEF frozenSize
    <3> QED BY <3>1, <3>3, <3>4 DEF KInv
  <2>4. CASE freezeMemory
    <3>1. AreWords(memory) BY <1>2 DEF WordsInv
    <3>2. saved'.bytes # <<>> /\ SavedRightly(saved') BY <1>2, <2>4, <3>1, FrozenRightly
    <3> QED BY <3>2 DEF KInv
  <2>5. CASE Restart
    <3>1. saved.bytes # <<>> /\ saved' = saved BY <2>5 DEF Restart
    <3> QED BY <2>1, <3>1
  <2>6. CASE ThawHeader \/ ThawEntry \/ ThawValidate \/ ThawWalk
    <3>1. thaw.at # "none" /\ saved' = saved BY <2>6 DEF ThawHeader, ThawEntry, ThawValidate, ThawWalk, Thawing
    <3>2. saved.bytes # <<>> BY <1>2, <3>1 DEF KInv
    <3> QED BY <2>1, <3>1, <3>2
  <2>7. CASE RunProgram \/ UNCHANGED thawVars
    <3>1. saved' = saved /\ thaw' = thaw /\ status' = status /\ globals' = globals /\ constantsPointer' = constantsPointer
      BY <2>7 DEF RunProgram, thawVars, vars
    <3>2. findMemoryOwners' = findMemoryOwners BY <3>1, OwnersStay
    <3>3. frozenSize(findMemoryOwners)' = frozenSize(findMemoryOwners) BY <3>2 DEF frozenSize
    <3> QED BY <1>2, <3>1, <3>3 DEF KInv
  <2> QED BY <1>2, <2>2, <2>3, <2>4, <2>5, <2>6, <2>7 DEF FrozenNext
<1> QED BY <1>1, <1>2, ReadingInvariant, LinesFollowed, AllAreWords, PTL DEF FrozenSpec

-----------------------------------------------------------------------------
(***************************************************************************)
(* The program that froze gets back every word of its GLOB sections.       *)
(***************************************************************************)
\* Each word of a GLOB section is one of an owner's.
LEMMA GlobalOwned ==
  ASSUME SInv, LInv, status = "done", NEW s \in SectionLines, lines[s].kind = "GLOB", NEW place \in Places(s)
  PROVE  \E j \in 1 .. Len(findMemoryOwners) : CellAt(SectionAddress(s) + place) \in WordsIn(findMemoryOwners[j])
<1>1. lines \in Seq(AnyLine) /\ IsFiniteSet(defined) /\ DataNames \subseteq Labels
  BY DEF SInv, SectionsType, WordsOwned
<1>2. Placed(lines) /\ Describes(lines, globals) BY DEF LInv, Follows
<1>3. s \in SectionsOf(lines) BY SourceIs
<1>4. PICK i : i \in Owners(s, place)
  <2>1. Owners(s, place) # {} BY InvariantLabels DEF OwnedByTheLastLabel
  <2> QED BY <2>1
<1>5. PICK n : n = lines[i].label OBVIOUS
<1>6. /\ i \in LabelsOf(lines, s) /\ PlaceIn(lines, i) <= place
      /\ place < PlaceIn(lines, i) + globals[n].ownedWords
  <2>1. i \in LabelsIn(s) /\ PlaceOf(i) <= place /\ place < PlaceOf(i) + globals[n].ownedWords
    BY <1>4, <1>5 DEF Owners
  <2> QED BY <2>1, SourceIs
<1>7. i \in Labelled(lines) /\ Holds(lines, s, i) /\ HolderOf(lines, i) = s /\ i \in 1 .. Len(lines)
  BY <1>1, <1>2, <1>3, <1>6, LabelsPlaced
<1>8. i \in SectionsOf(lines) \cup DataOf(lines) BY <1>7 DEF Labelled
<1>9. PlaceIn(lines, i) \in Nat /\ AddressOf(lines, s) \in Int /\ lines[s].size \in Nat
  BY <1>1, <1>7, <1>8, PlacesTyped
<1>10. n \in defined /\ AsDeclared(lines, i, globals[n]) BY <1>2, <1>5, <1>7 DEF Describes, defined
<1>11. /\ globals[n].types = DeclareTypes("GLOB")
       /\ globals[n].value = AddressOf(lines, s) + PlaceIn(lines, i)
       /\ globals[n].ownedWords \in 0 .. lines[s].size - PlaceIn(lines, i)
  BY <1>7, <1>10 DEF AsDeclared
<1>12. InGlob(globals[n].types) BY <1>11, DeclaredTypes
<1>13. PICK a \in Int, p \in Nat, owned \in Nat, q \in Nat :
         /\ a = AddressOf(lines, s) /\ p = PlaceIn(lines, i) /\ owned = globals[n].ownedWords /\ q = place
         /\ p <= q /\ q < p + owned
  <2>1. globals[n].ownedWords \in Nat BY <1>9, <1>11
  <2>2. place \in Nat BY <1>9 DEF Places
  <2> QED BY <1>6, <1>9, <2>1, <2>2
<1>14. n \in GlobNames
  <2>1. owned # 0 BY <1>13
  <2> QED BY <1>10, <1>12, <1>13, <2>1 DEF GlobNames
<1>15. PICK j \in 1 .. Len(findMemoryOwners) : findMemoryOwners[j] = Owner(n) BY <1>1, <1>14, OwnersFound
<1>16. Owner(n).first = CellAt(a + p) /\ Owner(n).ownedWords = owned BY <1>11, <1>13, <1>14, GlobalWords
<1>17. PICK offset \in Int, moved \in Int : offset = MEMORY_OFFSET /\ moved = constantsSize
  <2>1. constantsPointer \in Int BY DEF SInv, SectionsType, Pointers
  <2> QED BY <2>1, Sizes DEF constantsSize
<1>18. CellAt(a + p) = ((a + p) - offset) + moved /\ CellAt(a + q) = ((a + q) - offset) + moved BY <1>17 DEF CellAt
<1>19. CellAt(a + q) \in CellAt(a + p) .. CellAt(a + p) + owned - 1
  <2>1. PICK x \in Int, y \in Int : x = CellAt(a + p) /\ y = CellAt(a + q) /\ y - x = q - p BY <1>18
  <2>2. PICK d \in Nat : d = q - p /\ d <= owned - 1
    <3>1. p <= q /\ q < p + owned BY <1>13
    <3> QED BY <3>1
  <2>3. y = x + d BY <2>1, <2>2
  <2>4. y \in x .. x + owned - 1 BY <2>2, <2>3
  <2> QED BY <2>1, <2>4
<1>20. CellAt(a + q) \in WordsIn(findMemoryOwners[j]) BY <1>15, <1>16, <1>19 DEF WordsIn
<1>21. CellAt(SectionAddress(s) + place) = CellAt(a + q) BY <1>13, AddressIs
<1> QED BY <1>20, <1>21

\* What is read of what was saved is what was saved.
LEMMA SavedRead ==
  ASSUME BInv, Finished(thaw), NEW words, DOMAIN words = Cells, AreWords(words), NEW version \in Supported,
         thaw.buffer = FrozenAs(version, SavesIn(findMemoryOwners, words)), NEW j \in 1 .. Len(findMemoryOwners)
  PROVE  EntryWords(thaw.entries[j + 1]) = WordsFrom(words, findMemoryOwners[j])
<1> DEFINE owners == findMemoryOwners
           saves == SavesIn(owners, words)
           all == AllSaved(saves)
           k == Len(owners)
           m == Len(thaw.entries)
<1>1. SInv BY DEF BInv, WInv, FInv, Assembled
<1>2. saves \in Saveable /\ Len(saves) = k /\ k \in Nat BY <1>1, OwnersSaveable, OwnersFew
<1>3. ThawTyped(thaw) /\ Reading(thaw) /\ Kept(thaw) BY DEF BInv, WInv, FInv, ReadSoFar
<1>4. thaw.left = 0 /\ thaw.entries \in Seq(EntryType) /\ AllRead(thaw.buffer, thaw.entries)
  BY <1>3 DEF Kept, ThawTyped, Reading
<1>5. saves \in Seq(SaveType) BY <1>2 DEF Saveable
<1>6. Len(all) = k + 1 /\ all[j + 1] = saves[j] /\ saves[j] \in SaveType
  BY <1>2, <1>5, AllOfThem
<1>7. saves[j].words = WordsFrom(words, owners[j])
  <2>1. DOMAIN owners = 1 .. k
    <3>1. IsFiniteSet(defined) /\ DataNames \subseteq Labels BY <1>1 DEF SInv, SectionsType, WordsOwned
    <3> QED BY <3>1, OwnersRanked
  <2> QED BY <2>1 DEF SavesIn
<1>8. \A i \in 1 .. Len(saves[j].words) : saves[j].words[i] \in Word
  <2>1. PICK first \in Nat, owned \in Nat \ {0}, top \in Nat :
          first = owners[j].first /\ owned = owners[j].ownedWords /\ top = maxMemorySize /\ first + owned <= top
    BY <1>1, OwnedSaved, Sizes
  <2>2. WordsFrom(words, owners[j]) = [i \in 1 .. owners[j].ownedWords |-> words[owners[j].first + i - 1]]
    BY <1>1, OwnedSaved
  <2>3. saves[j].words = [i \in 1 .. owned |-> words[first + i - 1]] BY <1>7, <2>1, <2>2
  <2>4. ASSUME NEW i \in 1 .. owned PROVE words[first + i - 1] \in Word
    <3>1. first + i - 1 \in 0 .. top - 1 BY <2>1
    <3> QED BY <2>1, <3>1 DEF AreWords, Cells
  <2>5. PICK kept : kept = saves[j].words OBVIOUS
  <2>6. Len(kept) = owned /\ \A i \in 1 .. owned : kept[i] = words[first + i - 1] BY <2>3, <2>5
  <2>7. \A i \in 1 .. Len(kept) : kept[i] \in Word BY <2>4, <2>6
  <2> QED BY <2>5, <2>7
<1> HIDE DEF saves, owners
<1>9. /\ thaw.left + m = Len(all)
      /\ \A i \in 1 .. m : Alike(thaw.entries[i], all[i])
      /\ \E at : Written(thaw.buffer, at, all) /\ \A i \in 0 .. m : NextAfter(thaw.entries, i) = at[i]
  <2>1. thaw.buffer = FrozenAs(version, saves) BY DEF saves, owners
  <2> QED BY <1>2, <1>3, <2>1, ReadSaved
<1> HIDE DEF all
<1>10. m \in Nat /\ m = k + 1
  <2>1. m \in Nat BY <1>4
  <2> QED BY <1>2, <1>4, <1>6, <1>9, <2>1
<1>11. PICK at : Written(thaw.buffer, at, all) /\ \A i \in 0 .. m : NextAfter(thaw.entries, i) = at[i] BY <1>9
<1>12. j \in 0 .. m /\ j + 1 \in 1 .. m /\ (j + 1) - 1 = j /\ j + 1 \in 1 .. Len(all)
  <2>1. j \in 1 .. k BY DEF owners
  <2> HIDE DEF k, m
  <2>2. j \in 0 .. m /\ j + 1 \in 1 .. m /\ (j + 1) - 1 = j BY <1>2, <1>10, <2>1
  <2> QED BY <1>6, <1>10, <2>2
<1>13. PICK b \in Name, p \in Nat, entry \in EntryType, save \in SaveType :
         b = thaw.buffer /\ p = at[j] /\ entry = thaw.entries[j + 1] /\ save = saves[j]
  <2>1. thaw.entries[j + 1] \in EntryType BY <1>4, <1>12
  <2>2. at[j] \in Nat
    <3>1. at \in [0 .. Len(all) -> Nat] BY <1>11 DEF Written, Follow
    <3>2. j \in 0 .. Len(all) BY <1>6, <1>10, <1>12
    <3> QED BY <3>1, <3>2
  <2>3. thaw.buffer \in Name BY <1>3 DEF ThawTyped
  <2> QED BY <1>6, <2>1, <2>2, <2>3
<1>14. Alike(entry, save) BY <1>6, <1>9, <1>12, <1>13
<1>15. EntryStands(b, p, save)
  <2>1. EntryStands(b, at[(j + 1) - 1], all[j + 1]) BY <1>11, <1>12, <1>13 DEF Written
  <2> QED BY <1>6, <1>12, <1>13, <2>1
<1>16. ReadAs(b, p, entry)
  <2>1. ReadAs(b, NextAfter(thaw.entries, (j + 1) - 1), thaw.entries[j + 1]) BY <1>4, <1>12, <1>13 DEF AllRead
  <2> QED BY <1>11, <1>12, <1>13, <2>1
<1>17. PICK c \in Nat, w \in Nat :
         c = Len(save.words) /\ w = entry.words /\ entry.wordCount = c /\ w = WordsAfter(p, Len(save.name))
  <2>1. Len(save.words) \in Nat /\ WordsAfter(p, Len(save.name)) \in Nat BY SaveParts
  <2>2. entry.name = save.name /\ entry.wordCount = Len(save.words) BY <1>14 DEF Alike
  <2>3. entry.words = WordsAfter(p, Len(entry.name)) BY <1>16 DEF ReadAs
  <2> QED BY <2>1, <2>2, <2>3
<1>18. ASSUME NEW i \in 1 .. c PROVE getMemoryWord(b, w + (i - 1) * 4) = save.words[i]
  <2>1. Stands(b, w + 4 * (i - 1), putMemoryWord(save.words[i])) BY <1>15, <1>17 DEF EntryStands
  <2>2. PICK q \in Nat : q = w + 4 * (i - 1) /\ q = w + (i - 1) * 4 BY <1>17
  <2>3. PICK v \in Word : v = save.words[i] BY <1>8, <1>13, <1>17
  <2>4. getMemoryWord(b, q) = v BY <2>1, <2>2, <2>3, WordStands
  <2> QED BY <2>2, <2>3, <2>4
<1>19. EntryWords(entry) = [i \in 1 .. c |-> getMemoryWord(b, w + (i - 1) * 4)] BY <1>13, <1>17 DEF EntryWords
<1>20. save.words = [i \in 1 .. c |-> save.words[i]]
  <2>1. save.words \in Seq(Int) BY DEF SaveType
  <2> QED BY <1>17, <2>1
<1>21. EntryWords(entry) = save.words BY <1>18, <1>19, <1>20
<1> QED BY <1>7, <1>13, <1>21 DEF owners

\* The invariants say that every word of a GLOB section is saved.
LEMMA InvariantSaved == BInv /\ LInv /\ WordsInv /\ KInv => EveryGlobalSaved
<1> SUFFICES ASSUME BInv, LInv, WordsInv, KInv PROVE EveryGlobalSaved OBVIOUS
<1>1. saved.bytes # <<>> => SavedRightly(saved) BY DEF KInv, NotSaved
<1>2. saved.bytes # <<>> => Len(saved.bytes) = saved.size BY <1>1 DEF SavedRightly
<1>3. ASSUME Thawed, thaw.buffer = saved.bytes, lines = saved.lines
      PROVE  /\ thaw.status = "OK"
             /\ \A s \in SectionLines : lines[s].kind = "GLOB" =>
                  \A place \in Places(s) : memory[CellAt(SectionAddress(s) + place)]
                                             = saved.memory[CellAt(SectionAddress(s) + place)]
  <2>1. SInv /\ status = "done" BY <1>3 DEF BInv, WInv, FInv, Assembled, Thawed
  <2>2. SavedRightly(saved) BY <1>3 DEF KInv, Thawed
  <2>3. PICK words : words = saved.memory OBVIOUS
  <2>4. DOMAIN words = Cells /\ AreWords(words) BY <2>2, <2>3 DEF SavedRightly
  <2>5. thaw.buffer = FrozenAs(VERSION, SavesIn(findMemoryOwners, words))
    <3>1. findMemoryOwners = OwnersIn(lines) BY <2>1, OwnersByLines
    <3> QED BY <1>3, <2>2, <2>3, <3>1 DEF SavedRightly
  <2>6. VERSION \in Supported
    <3>1. VERSION \in Nat \ {0} BY FrozenAssumption
    <3> QED BY <3>1 DEF Supported
  <2>7. SavesIn(findMemoryOwners, words) \in Saveable BY <2>1, <2>4, OwnersSaveable
  <2>8. Finished(thaw)
    <3>1. ~Unsaved(thaw.buffer) BY <2>5, <2>6, <2>7 DEF Unsaved
    <3> QED BY <1>3, <3>1 DEF BInv, ReadSoFar, Thawed
  <2>9. Matches(thaw.entries, findMemoryOwners) BY <2>4, <2>5, <2>6, <2>8, SavedMatches
  <2>10. thaw.status = "OK" BY <2>8, <2>9, ResultMatches
  <2>11. ASSUME NEW s \in SectionLines, lines[s].kind = "GLOB", NEW place \in Places(s)
         PROVE  memory[CellAt(SectionAddress(s) + place)] = words[CellAt(SectionAddress(s) + place)]
    <3>1. PICK j \in 1 .. Len(findMemoryOwners) : CellAt(SectionAddress(s) + place) \in WordsIn(findMemoryOwners[j])
      BY <2>1, <2>11, GlobalOwned
    <3>2. PICK cell : cell = CellAt(SectionAddress(s) + place) OBVIOUS
    <3>3. PICK owner : owner = findMemoryOwners[j] OBVIOUS
    <3>4. PICK first \in Nat, owned \in Nat \ {0} : first = owner.first /\ owned = owner.ownedWords
      BY <2>1, <3>3, OwnedSaved
    <3>5. WordsFrom(memory, owner) = WordsFrom(words, owner)
      <4>1. WordsOf(owner) = EntryWords(thaw.entries[j + 1]) BY <2>8, <2>9, <3>3, MatchedWords
      <4>2. EntryWords(thaw.entries[j + 1]) = WordsFrom(words, owner)
        BY <2>4, <2>5, <2>6, <2>8, <3>3, SavedRead
      <4> QED BY <4>1, <4>2, SavedFrom
    <3>6. \A v : WordsFrom(v, owner) = [i \in 1 .. owned |-> v[first + i - 1]]
      <4>1. \A v : WordsFrom(v, findMemoryOwners[j])
                     = [i \in 1 .. findMemoryOwners[j].ownedWords |-> v[findMemoryOwners[j].first + i - 1]]
        BY <2>1, OwnedSaved
      <4> QED BY <3>3, <3>4, <4>1
    <3>7. PICK i \in 1 .. owned : cell = first + i - 1
      <4>1. cell \in first .. first + owned - 1 BY <3>1, <3>2, <3>3, <3>4 DEF WordsIn
      <4>2. cell - first + 1 \in 1 .. owned /\ cell = first + (cell - first + 1) - 1 BY <4>1
      <4> QED BY <4>2
    <3>8. WordsFrom(memory, owner)[i] = memory[cell] /\ WordsFrom(words, owner)[i] = words[cell] BY <3>6, <3>7
    <3> QED BY <3>2, <3>5, <3>8
  <2> QED BY <2>3, <2>10, <2>11
<1> QED BY <1>2, <1>3 DEF EveryGlobalSaved

\* freezeMemory, thawMemory: the bytes fill the buffer that was asked for exactly, and thawed into a program of the
\* same lines they bring back every word of every GLOB section, whatever the lines and labels are and whatever words
\* runs have left, in the program that was frozen and in the one that thaws.
THEOREM AllGlobalsSaved == FrozenSpec => []EveryGlobalSaved
<1> QED BY InvariantSaved, ReadingInvariant, LinesFollowed, AllAreWords, SavedInvariant, PTL

=============================================================================
