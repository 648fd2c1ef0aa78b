--------------------------- MODULE GAZLCallsProofs ---------------------------
(***************************************************************************)
(* The processor implements GAZLCalls: for every program, every size of    *)
(* the two stacks and any depth of nested runs, the two stacks are a stack *)
(* of activations, and each step does to it what GAZLCalls says.           *)
(***************************************************************************)
EXTENDS GAZLProcessorProofs, FiniteSetTheorems

-----------------------------------------------------------------------------
(***************************************************************************)
(* Ranks: the entries that suspend an activation, counted.                 *)
(***************************************************************************)

\* Each entry counts for one, or not at all.
LEMMA RankNext ==
  ASSUME NEW s, NEW i \in Nat
  PROVE  /\ Rank(s, 0) = 0
         /\ Rank(s, i) \in Nat
         /\ ReturnsToHost(s, i + 1) => Rank(s, i + 1) = Rank(s, i)
         /\ ~ReturnsToHost(s, i + 1) => Rank(s, i + 1) = Rank(s, i) + 1
<1> DEFINE R(n) == {j \in 1 .. n : ~ReturnsToHost(s, j)}
<1>1. \A n \in Nat : IsFiniteSet(R(n))
  <2> SUFFICES ASSUME NEW n \in Nat PROVE IsFiniteSet(R(n))
    OBVIOUS
  <2>1. IsFiniteSet(1 .. n) BY FS_Interval
  <2>2. R(n) \in SUBSET (1 .. n) OBVIOUS
  <2> QED BY <2>1, <2>2, FS_Subset
<1>2. R(0) = {} OBVIOUS
<1>3. Cardinality(R(i)) \in Nat BY <1>1, FS_CardinalityType
<1>4. ASSUME ReturnsToHost(s, i + 1) PROVE R(i + 1) = R(i)
  BY <1>4
<1>5. ASSUME ~ReturnsToHost(s, i + 1) PROVE Cardinality(R(i + 1)) = Cardinality(R(i)) + 1
  <2>1. R(i + 1) = R(i) \cup {i + 1} BY <1>5
  <2>2. i + 1 \notin R(i) OBVIOUS
  <2> HIDE DEF R
  <2> QED BY <1>1, <2>1, <2>2, FS_AddElement
<1> QED BY <1>2, <1>3, <1>4, <1>5, FS_EmptySet DEF Rank

\* A later entry has no lower rank, and a higher one if it counts.
LEMMA RankOrder ==
  ASSUME NEW s, NEW i \in Nat, NEW j \in Nat, i <= j
  PROVE  /\ Rank(s, i) <= Rank(s, j)
         /\ i < j /\ ~ReturnsToHost(s, j) => Rank(s, i) < Rank(s, j)
<1>1. \A m, n \in Nat : m <= n => Rank(s, m) <= Rank(s, n)
  <2> SUFFICES ASSUME NEW m \in Nat, NEW n \in Nat, m <= n PROVE Rank(s, m) <= Rank(s, n)
    OBVIOUS
  <2> DEFINE R(k) == {h \in 1 .. k : ~ReturnsToHost(s, h)}
  <2>1. IsFiniteSet(1 .. n) BY FS_Interval
  <2>2. R(n) \in SUBSET (1 .. n) /\ R(m) \in SUBSET R(n) OBVIOUS
  <2> HIDE DEF R
  <2>3. IsFiniteSet(R(n)) BY <2>1, <2>2, FS_Subset
  <2>4. Cardinality(R(m)) <= Cardinality(R(n)) BY <2>2, <2>3, FS_Subset
  <2> QED BY <2>4 DEF Rank, R
<1>2. ASSUME i < j, ~ReturnsToHost(s, j) PROVE Rank(s, i) < Rank(s, j)
  <2>1. PICK k \in Nat : k + 1 = j /\ i <= k
    <3>1. j - 1 \in Nat /\ j - 1 + 1 = j /\ i <= j - 1 BY <1>2
    <3> QED BY <3>1
  <2>2. Rank(s, j) = Rank(s, k) + 1 BY <1>2, <2>1, RankNext
  <2>3. Rank(s, i) <= Rank(s, k) BY <1>1, <2>1
  <2> QED BY <2>2, <2>3, RankNext
<1> QED BY <1>1, <1>2

\* Every rank up to the last is one entry's.
LEMMA RankCovers ==
  ASSUME NEW s, NEW n \in Nat, NEW k \in 1 .. Rank(s, n)
  PROVE  \E i \in 1 .. n : ~ReturnsToHost(s, i) /\ Rank(s, i) = k
<1> DEFINE S == {i \in Nat : k <= Rank(s, i)}
<1>0. \A i \in Nat : Rank(s, i) \in Nat BY RankNext
<1>1. k \in Nat \ {0} BY <1>0
<1>2. n \in S BY <1>0
<1>3. S \in SUBSET Nat /\ S # {} BY <1>2
<1>4. PICK i \in S : \A m \in S : i <= m BY <1>3, LeastNumber
<1>5. i \in Nat /\ k <= Rank(s, i) /\ i <= n BY <1>2, <1>4
<1>6. i # 0 BY <1>1, <1>5, RankNext
<1>7. PICK h \in Nat : h + 1 = i
  <2>1. i - 1 \in Nat /\ i - 1 + 1 = i BY <1>5, <1>6
  <2> QED BY <2>1
<1>8. h \notin S BY <1>4, <1>7
<1>9. Rank(s, h) < k BY <1>0, <1>1, <1>7, <1>8
<1>10. ~ReturnsToHost(s, i) /\ Rank(s, i) = Rank(s, h) + 1
  <2>1. Rank(s, i) # Rank(s, h) BY <1>0, <1>1, <1>5, <1>7, <1>9
  <2> QED BY <1>7, <2>1, RankNext
<1>11. Rank(s, i) = k BY <1>0, <1>1, <1>5, <1>7, <1>9, <1>10
<1>12. i \in 1 .. n BY <1>5, <1>6
<1> QED BY <1>10, <1>11, <1>12

\* An entry that counts is the one its rank stands for.
LEMMA EntryRanked ==
  ASSUME NEW s, Len(s) \in Nat, NEW i \in 1 .. Len(s), ~ReturnsToHost(s, i)
  PROVE  Rank(s, i) \in 1 .. Rank(s, Len(s)) /\ EntryOf(s, Rank(s, i)) = i
<1>0. \A m \in Nat : Rank(s, m) \in Nat BY RankNext
<1>1. i \in Nat /\ i <= Len(s) /\ 0 < i OBVIOUS
<1>2. Rank(s, 0) < Rank(s, i) BY <1>1, RankOrder
<1>3. Rank(s, i) <= Rank(s, Len(s)) BY <1>1, RankOrder
<1>4. Rank(s, i) \in 1 .. Rank(s, Len(s)) BY <1>0, <1>1, <1>2, <1>3, RankNext
<1>5. ASSUME NEW j \in 1 .. Len(s), ~ReturnsToHost(s, j), Rank(s, j) = Rank(s, i) PROVE j = i
  <2>1. j \in Nat BY <1>5
  <2>2. ~(i < j) BY <1>0, <1>1, <1>5, <2>1, RankOrder
  <2>3. ~(j < i) BY <1>0, <1>1, <1>5, <2>1, RankOrder
  <2> QED BY <1>1, <2>1, <2>2, <2>3
<1> QED BY <1>4, <1>5 DEF EntryOf

\* Stacks that agree up to an entry agree about the ranks up to it.
LEMMA RankAgrees ==
  ASSUME NEW s, NEW t, NEW n \in Nat, \A j \in 1 .. n : ReturnsToHost(s, j) <=> ReturnsToHost(t, j),
         NEW i \in 0 .. n
  PROVE  Rank(s, i) = Rank(t, i)
<1>1. \A j \in 1 .. i : j \in 1 .. n OBVIOUS
<1>2. {j \in 1 .. i : ~ReturnsToHost(s, j)} = {j \in 1 .. i : ~ReturnsToHost(t, j)} BY <1>1
<1> QED BY <1>2 DEF Rank

-----------------------------------------------------------------------------
(***************************************************************************)
(* What a stack's activations are, and what adding to the stack adds.      *)
(***************************************************************************)
Activation == [next : Int, base : Int, entered : BOOLEAN]

\* The callers are activations, as many as there are entries that count.
LEMMA CallersTypes ==
  ASSUME NEW s \in Seq(Entry)
  PROVE  /\ Len(s) \in Nat
         /\ Rank(s, Len(s)) \in Nat
         /\ Callers(s) \in Seq(Activation)
         /\ Len(Callers(s)) = Rank(s, Len(s))
         /\ \A i \in 1 .. Len(s) : ~ReturnsToHost(s, i) =>
              Rank(s, i) \in 1 .. Rank(s, Len(s)) /\ Callers(s)[Rank(s, i)] = Suspended(s, i)
<1>1. Len(s) \in Nat OBVIOUS
<1>2. PICK r \in Nat : r = Rank(s, Len(s)) BY <1>1, RankNext
<1>3. \A i \in 1 .. Len(s) : s[i].ip \in Int /\ s[i].dsp \in Int
  <2>1. \A i \in 1 .. Len(s) : s[i] \in Entry BY ElementOfSeq
  <2> QED BY <2>1 DEF Entry
<1>4. \A i \in 1 .. Len(s) : Suspended(s, i) \in Activation
  BY <1>3 DEF Suspended, Activation, ReturnsToHost
<1>5. \A k \in 1 .. r : EntryOf(s, k) \in 1 .. Len(s)
  BY <1>1, <1>2, RankCovers DEF EntryOf
<1>6. Callers(s) = [k \in 1 .. r |-> Suspended(s, EntryOf(s, k))] BY <1>2 DEF Callers
<1>7. Callers(s) \in [1 .. r -> Activation] BY <1>4, <1>5, <1>6
<1>8. Callers(s) \in Seq(Activation) /\ Len(Callers(s)) = r BY <1>7
<1>9. \A i \in 1 .. Len(s) : ~ReturnsToHost(s, i) =>
        Rank(s, i) \in 1 .. r /\ Callers(s)[Rank(s, i)] = Suspended(s, i)
  BY <1>1, <1>2, <1>6, EntryRanked
<1> QED BY <1>1, <1>2, <1>8, <1>9

\* The activation that executes is the last.
LEMMA ActivationsTypes ==
  ASSUME NEW s \in Seq(Entry), NEW a \in Int, NEW d \in Int
  PROVE  /\ Activations(s, a, d) \in Seq(Activation)
         /\ Len(Activations(s, a, d)) = Rank(s, Len(s)) + 1
         /\ Activations(s, a, d) = Append(Callers(s), [next |-> a, base |-> d, entered |-> ReturnsToHost(s, Len(s))])
         /\ [next |-> a, base |-> d, entered |-> ReturnsToHost(s, Len(s))] \in Activation
<1>1. [next |-> a, base |-> d, entered |-> ReturnsToHost(s, Len(s))] \in Activation
  BY DEF Activation, ReturnsToHost
<1> QED BY <1>1, CallersTypes DEF Activations

\* A longer stack has the callers of the shorter, as long as it does not end their last enterCall.
LEMMA CallersExtended ==
  ASSUME NEW s \in Seq(Entry), NEW t \in Seq(Entry), Len(s) <= Len(t),
         \A i \in 1 .. Len(s) : t[i] = s[i], ~ReturnsToHost(t, Len(s) + 1)
  PROVE  /\ \A i \in 0 .. Len(s) : Rank(t, i) = Rank(s, i)
         /\ \A i \in 1 .. Len(s) : ReturnsToHost(t, i) <=> ReturnsToHost(s, i)
         /\ \A k \in 1 .. Rank(s, Len(s)) :
              k \in 1 .. Rank(t, Len(t)) /\ Callers(t)[k] = Callers(s)[k]
<1>1. Len(s) \in Nat /\ Len(t) \in Nat OBVIOUS
<1>2. \A i \in 1 .. Len(s) : ReturnsToHost(s, i) <=> ReturnsToHost(t, i)
  BY <1>1 DEF ReturnsToHost
<1>3. \A i \in 0 .. Len(s) : Rank(t, i) = Rank(s, i) BY <1>1, <1>2, RankAgrees
<1>4. ASSUME NEW k \in 1 .. Rank(s, Len(s))
      PROVE  k \in 1 .. Rank(t, Len(t)) /\ Callers(t)[k] = Callers(s)[k]
  <2>1. PICK i \in 1 .. Len(s) : ~ReturnsToHost(s, i) /\ Rank(s, i) = k BY <1>1, RankCovers
  <2>2. i \in 1 .. Len(t) /\ ~ReturnsToHost(t, i) /\ Rank(t, i) = k /\ t[i] = s[i]
    BY <1>1, <1>2, <1>3, <2>1
  <2>3. k \in 1 .. Rank(t, Len(t)) /\ Callers(t)[k] = Suspended(t, i) BY <2>2, CallersTypes
  <2>4. Callers(s)[k] = Suspended(s, i) BY <2>1, CallersTypes
  <2>5. ReturnsToHost(t, i + 1) <=> ReturnsToHost(s, i + 1)
    <3>1. CASE i + 1 <= Len(s) BY <1>1, <1>2, <3>1
    <3>2. CASE i + 1 = Len(s) + 1 BY <1>1, <3>2 DEF ReturnsToHost
    <3> QED BY <1>1, <3>1, <3>2
  <2>6. ReturnsToHost(t, i - 1) <=> ReturnsToHost(s, i - 1)
    <3>1. CASE i - 1 \in 1 .. Len(s) BY <1>2, <3>1
    <3>2. CASE i - 1 = 0 BY <3>2 DEF ReturnsToHost
    <3> QED BY <1>1, <3>1, <3>2
  <2>7. ReturnsToHost(t, i - 1) = ReturnsToHost(s, i - 1) BY <2>6 DEF ReturnsToHost
  <2>8. Suspended(t, i) = Suspended(s, i) BY <2>2, <2>5, <2>7 DEF Suspended
  <2> QED BY <2>3, <2>4, <2>8
<1> QED BY <1>2, <1>3, <1>4

\* A call or a push suspends an activation at its entry's ip plus one.
LEMMA CallSuspends ==
  ASSUME NEW s \in Seq(Entry), NEW a \in Int, NEW d \in Int, d # NativeReturn,
         NEW t \in Seq(Entry), Len(t) = Len(s) + 1, \A i \in 1 .. Len(s) : t[i] = s[i],
         t[Len(s) + 1].ip + 1 = a, t[Len(s) + 1].dsp = d
  PROVE  /\ Callers(t) = Activations(s, a, d)
         /\ ~ReturnsToHost(t, Len(t))
<1> DEFINE A == Activations(s, a, d)
<1>1. PICK n \in Nat : n = Len(s) OBVIOUS
<1>2. Len(t) = n + 1 /\ (\A i \in 1 .. n : t[i] = s[i]) /\ t[n + 1].ip + 1 = a /\ t[n + 1].dsp = d
  BY <1>1
<1>4. ~ReturnsToHost(t, n + 1) /\ ~ReturnsToHost(t, n + 2) BY <1>2 DEF ReturnsToHost
<1>5. /\ \A i \in 0 .. n : Rank(t, i) = Rank(s, i)
      /\ \A i \in 1 .. n : ReturnsToHost(t, i) <=> ReturnsToHost(s, i)
      /\ \A k \in 1 .. Rank(s, n) : Callers(t)[k] = Callers(s)[k]
  BY <1>1, <1>2, <1>4, CallersExtended
<1>6. PICK r \in Nat : r = Rank(s, n) BY RankNext
<1>7. Rank(t, n + 1) = r + 1
  <2>1. Rank(t, n + 1) = Rank(t, n) + 1 BY <1>4, RankNext
  <2> QED BY <1>5, <1>6, <2>1
<1>8. Callers(t) \in Seq(Activation) /\ Len(Callers(t)) = r + 1 BY <1>2, <1>7, CallersTypes
<1>9. Callers(t)[r + 1] = [next |-> a, base |-> d, entered |-> ReturnsToHost(s, n)]
  <2>1. Callers(t)[r + 1] = Suspended(t, n + 1) BY <1>2, <1>4, <1>7, CallersTypes
  <2>2. n + 1 + 1 = n + 2 /\ n + 1 - 1 = n OBVIOUS
  <2>3. ReturnsToHost(t, n) <=> ReturnsToHost(s, n)
    <3>1. CASE n = 0 BY <3>1 DEF ReturnsToHost
    <3>2. CASE n \in 1 .. n BY <1>5, <3>2
    <3> QED BY <3>1, <3>2
  <2> QED BY <1>2, <1>4, <2>1, <2>2, <2>3 DEF Suspended, ReturnsToHost
<1>10. /\ Callers(s) \in Seq(Activation) /\ Len(Callers(s)) = r
       /\ A \in Seq(Activation) /\ Len(A) = r + 1
       /\ A[r + 1] = [next |-> a, base |-> d, entered |-> ReturnsToHost(s, n)]
       /\ \A k \in 1 .. r : A[k] = Callers(s)[k]
  <2> DEFINE top == [next |-> a, base |-> d, entered |-> ReturnsToHost(s, n)]
  <2>1. A = Append(Callers(s), top) /\ top \in Activation BY <1>1, ActivationsTypes
  <2>2. Callers(s) \in Seq(Activation) /\ Len(Callers(s)) = r BY <1>1, <1>6, CallersTypes
  <2> HIDE DEF top, A
  <2>3. /\ A \in Seq(Activation) /\ Len(A) = r + 1 /\ A[r + 1] = top
        /\ \A k \in 1 .. r : A[k] = Callers(s)[k]
    BY <2>1, <2>2, AppendFacts
  <2> QED BY <2>2, <2>3 DEF top
<1> HIDE DEF A
<1>11. ASSUME NEW k \in 1 .. r + 1 PROVE Callers(t)[k] = A[k]
  <2>1. k \in 1 .. r \/ k = r + 1 OBVIOUS
  <2>2. CASE k \in 1 .. r
    <3>1. Callers(t)[k] = Callers(s)[k] BY <1>5, <1>6, <2>2
    <3> QED BY <1>10, <2>2, <3>1
  <2>3. CASE k = r + 1 BY <1>9, <1>10, <2>3
  <2> QED BY <2>1, <2>2, <2>3
<1>12. Callers(t) = A BY <1>8, <1>10, <1>11, SeqEqual
<1> QED BY <1>2, <1>4, <1>12 DEF A

\* enterCall suspends the activation that executes as it is, and the new one returns to the host.
LEMMA EnterSuspends ==
  ASSUME NEW s \in Seq(Entry), NEW a \in Int, NEW d \in Int, d # NativeReturn,
         NEW t \in Seq(Entry), Len(t) = Len(s) + 2, \A i \in 1 .. Len(s) : t[i] = s[i],
         t[Len(s) + 1].ip = a, t[Len(s) + 1].dsp = d, t[Len(s) + 2].dsp = NativeReturn
  PROVE  /\ Callers(t) = Activations(s, a, d)
         /\ ReturnsToHost(t, Len(t))
<1> DEFINE A == Activations(s, a, d)
<1>1. PICK n \in Nat : n = Len(s) OBVIOUS
<1>3. /\ Len(t) = n + 2 /\ (\A i \in 1 .. n : t[i] = s[i])
      /\ t[n + 1].ip = a /\ t[n + 1].dsp = d /\ t[n + 2].dsp = NativeReturn
  BY <1>1
<1>4. ~ReturnsToHost(t, n + 1) /\ ReturnsToHost(t, n + 2) BY <1>3 DEF ReturnsToHost
<1>5. /\ \A i \in 0 .. n : Rank(t, i) = Rank(s, i)
      /\ \A i \in 1 .. n : ReturnsToHost(t, i) <=> ReturnsToHost(s, i)
      /\ \A k \in 1 .. Rank(s, n) : Callers(t)[k] = Callers(s)[k]
  BY <1>1, <1>3, <1>4, CallersExtended
<1>6. PICK r \in Nat : r = Rank(s, n) BY RankNext
<1>7. Rank(t, n + 1) = r + 1 /\ Rank(t, n + 2) = r + 1
  <2>1. Rank(t, n + 1) = Rank(t, n) + 1 BY <1>4, RankNext
  <2>2. n + 1 \in Nat /\ n + 1 + 1 = n + 2 OBVIOUS
  <2>3. Rank(t, n + 2) = Rank(t, n + 1) BY <1>4, <2>2, RankNext
  <2> QED BY <1>5, <1>6, <2>1, <2>3
<1>8. Callers(t) \in Seq(Activation) /\ Len(Callers(t)) = r + 1 BY <1>3, <1>7, CallersTypes
<1>9. Callers(t)[r + 1] = [next |-> a, base |-> d, entered |-> ReturnsToHost(s, n)]
  <2>1. Callers(t)[r + 1] = Suspended(t, n + 1) BY <1>3, <1>4, <1>7, CallersTypes
  <2>2. n + 1 + 1 = n + 2 /\ n + 1 - 1 = n OBVIOUS
  <2>3. ReturnsToHost(t, n) <=> ReturnsToHost(s, n)
    <3>1. CASE n = 0 BY <3>1 DEF ReturnsToHost
    <3>2. CASE n \in 1 .. n BY <1>5, <3>2
    <3> QED BY <3>1, <3>2
  <2> QED BY <1>3, <1>4, <2>1, <2>2, <2>3 DEF Suspended, ReturnsToHost
<1>10. /\ Callers(s) \in Seq(Activation) /\ Len(Callers(s)) = r
       /\ A \in Seq(Activation) /\ Len(A) = r + 1
       /\ A[r + 1] = [next |-> a, base |-> d, entered |-> ReturnsToHost(s, n)]
       /\ \A k \in 1 .. r : A[k] = Callers(s)[k]
  <2> DEFINE top == [next |-> a, base |-> d, entered |-> ReturnsToHost(s, n)]
  <2>1. A = Append(Callers(s), top) /\ top \in Activation BY <1>1, ActivationsTypes
  <2>2. Callers(s) \in Seq(Activation) /\ Len(Callers(s)) = r BY <1>1, <1>6, CallersTypes
  <2> HIDE DEF top, A
  <2>3. /\ A \in Seq(Activation) /\ Len(A) = r + 1 /\ A[r + 1] = top
        /\ \A k \in 1 .. r : A[k] = Callers(s)[k]
    BY <2>1, <2>2, AppendFacts
  <2> QED BY <2>2, <2>3 DEF top
<1> HIDE DEF A
<1>11. ASSUME NEW k \in 1 .. r + 1 PROVE Callers(t)[k] = A[k]
  <2>1. k \in 1 .. r \/ k = r + 1 OBVIOUS
  <2>2. CASE k \in 1 .. r
    <3>1. Callers(t)[k] = Callers(s)[k] BY <1>5, <1>6, <2>2
    <3> QED BY <1>10, <2>2, <3>1
  <2>3. CASE k = r + 1 BY <1>9, <1>10, <2>3
  <2> QED BY <2>1, <2>2, <2>3
<1>12. Callers(t) = A BY <1>8, <1>10, <1>11, SeqEqual
<1> QED BY <1>3, <1>4, <1>12 DEF A

\* With the pairs intact, an activation above those of m entries was entered when a sentinel is.
LEMMA EnteredAbove ==
  ASSUME NEW s \in Seq(Entry), NEW a \in Int, NEW d \in Int, NEW m \in 0 .. Len(s),
         ~ReturnsToHost(s, m + 1),
         \A j \in 1 .. Len(s) : ReturnsToHost(s, j) => ~ReturnsToHost(s, j - 1)
  PROVE  (\E k \in (Rank(s, m) + 2) .. Len(Activations(s, a, d)) : Activations(s, a, d)[k].entered)
           <=> \E j \in (m + 1) .. Len(s) : ReturnsToHost(s, j)
<1> DEFINE A == Activations(s, a, d)
           top == [next |-> a, base |-> d, entered |-> ReturnsToHost(s, Len(s))]
<1>1. PICK n \in Nat : n = Len(s) OBVIOUS
<1>2. m \in Nat /\ m <= n BY <1>1
<1>3. PICK rm \in Nat : rm = Rank(s, m) BY <1>2, RankNext
<1>4. PICK rn \in Nat : rn = Rank(s, n) BY RankNext
<1>5. Callers(s) \in Seq(Activation) /\ Len(Callers(s)) = rn BY <1>1, <1>4, CallersTypes
<1>6. top \in Activation /\ A = Append(Callers(s), top) BY ActivationsTypes
<1>7. top.entered = ReturnsToHost(s, n) BY <1>1
<1> HIDE DEF top, A
<1>8. Len(A) = rn + 1 /\ A[rn + 1] = top /\ \A k \in 1 .. rn : A[k] = Callers(s)[k]
  BY <1>5, <1>6, AppendFacts
<1>9. Rank(s, m + 1) = rm + 1 BY <1>2, <1>3, RankNext
<1>10. \A i \in 1 .. n : ~ReturnsToHost(s, i) =>
         Rank(s, i) \in 1 .. rn /\ A[Rank(s, i)].entered = ReturnsToHost(s, i - 1)
  <2> SUFFICES ASSUME NEW i \in 1 .. n, ~ReturnsToHost(s, i)
               PROVE  Rank(s, i) \in 1 .. rn /\ A[Rank(s, i)].entered = ReturnsToHost(s, i - 1)
    OBVIOUS
  <2>1. Rank(s, i) \in 1 .. rn /\ Callers(s)[Rank(s, i)] = Suspended(s, i)
    BY <1>1, <1>4, CallersTypes
  <2>2. Suspended(s, i).entered = ReturnsToHost(s, i - 1) BY DEF Suspended
  <2> QED BY <1>8, <2>1, <2>2
<1>11. ASSUME NEW j \in (m + 1) .. n, ReturnsToHost(s, j)
       PROVE  \E k \in (rm + 2) .. (rn + 1) : A[k].entered
  <2>1. j \in Nat /\ m + 1 < j /\ j \in 1 .. n
    <3>1. j # m + 1 BY <1>11
    <3> QED BY <1>1, <1>2, <3>1
  <2>2. PICK rj \in Nat : rj = Rank(s, j) BY <2>1, RankNext
  <2>3. rm + 1 <= rj
    <3>1. m + 1 \in Nat /\ m + 1 <= j BY <1>2, <2>1
    <3>2. Rank(s, m + 1) <= Rank(s, j) BY <2>1, <3>1, RankOrder
    <3> QED BY <1>9, <2>2, <3>2
  <2>4. CASE j = n
    <3>1. A[rn + 1].entered BY <1>7, <1>8, <1>11, <2>4
    <3>2. rj = rn BY <1>4, <2>2, <2>4
    <3> QED BY <2>3, <3>1, <3>2
  <2>5. CASE j < n
    <3>1. j + 1 \in 1 .. n /\ j + 1 - 1 = j BY <1>1, <2>1, <2>5
    <3>2. ~ReturnsToHost(s, j + 1)
      <4>1. ReturnsToHost(s, j + 1) => ~ReturnsToHost(s, j + 1 - 1) BY <1>1, <3>1
      <4> QED BY <1>11, <3>1, <4>1
    <3>3. Rank(s, j + 1) = rj + 1 BY <2>1, <2>2, <3>2, RankNext
    <3>4. rj + 1 \in 1 .. rn /\ A[rj + 1].entered
      <4>1. Rank(s, j + 1) \in 1 .. rn /\ A[Rank(s, j + 1)].entered = ReturnsToHost(s, j + 1 - 1)
        BY <1>10, <3>1, <3>2
      <4> QED BY <1>11, <3>1, <3>3, <4>1
    <3>5. rj + 1 \in (rm + 2) .. (rn + 1) BY <2>3, <3>4
    <3> QED BY <3>4, <3>5
  <2> QED BY <1>1, <2>1, <2>4, <2>5
<1>12. ASSUME NEW k \in (rm + 2) .. (rn + 1), A[k].entered
       PROVE  \E j \in (m + 1) .. n : ReturnsToHost(s, j)
  <2>1. CASE k = rn + 1
    <3>1. ReturnsToHost(s, n) BY <1>7, <1>8, <1>12, <2>1
    <3>2. rn # rm BY <2>1
    <3>3. n # m BY <1>3, <1>4, <3>2
    <3> QED BY <1>1, <1>2, <3>1, <3>3
  <2>2. CASE k \in 1 .. rn
    <3>1. PICK i \in 1 .. n : ~ReturnsToHost(s, i) /\ Rank(s, i) = k BY <1>4, <2>2, RankCovers
    <3>2. ReturnsToHost(s, i - 1)
      <4>1. A[Rank(s, i)].entered = ReturnsToHost(s, i - 1) BY <1>10, <3>1
      <4> QED BY <1>12, <3>1, <4>1
    <3>3. ~(i <= m + 1)
      <4>1. i \in Nat /\ m + 1 \in Nat BY <1>2
      <4>2. i <= m + 1 => Rank(s, i) <= Rank(s, m + 1) BY <4>1, RankOrder
      <4>3. i <= m + 1 => k <= rm + 1 BY <1>9, <3>1, <4>2
      <4> QED BY <4>3
    <3>4. i - 1 \in (m + 1) .. n BY <1>1, <1>2, <3>1, <3>3
    <3> QED BY <3>2, <3>4
  <2>3. k = rn + 1 \/ k \in 1 .. rn OBVIOUS
  <2> QED BY <2>1, <2>2, <2>3
<1>13. (\E k \in (rm + 2) .. (rn + 1) : A[k].entered) <=> \E j \in (m + 1) .. n : ReturnsToHost(s, j)
  BY <1>11, <1>12
<1>14. (\E k \in (Rank(s, m) + 2) .. Len(A) : A[k].entered) <=> \E j \in (m + 1) .. n : ReturnsToHost(s, j)
  BY <1>3, <1>8, <1>13
<1> QED BY <1>1, <1>14 DEF A

-----------------------------------------------------------------------------
(***************************************************************************)
(* The state that the processor's stands for.                              *)
(***************************************************************************)

\* What a native's call saved are activations of the entries below it.
LEMMA SavedTypes ==
  ASSUME NEW s \in Seq(Entry), NEW n \in Locals, n.ipsp <= Len(s)
  PROVE  /\ Saved(s, n) \in Seq(Activation)
         /\ Len(Saved(s, n)) = Rank(s, n.ipsp) + 1
         /\ Saved(s, n) = Activations(SubSeq(s, 1, n.ipsp), n.ip, n.dsp)
         /\ SubSeq(s, 1, n.ipsp) \in Seq(Entry) /\ Len(SubSeq(s, 1, n.ipsp)) = n.ipsp
         /\ n.ip \in Int /\ n.dsp \in Int
<1> DEFINE t == SubSeq(s, 1, n.ipsp)
<1>1. PICK m \in Nat : m = n.ipsp BY DEF Locals
<1>2. n.ip \in Int /\ n.dsp \in Int BY DEF Locals, Address
<1>3. m \in 0 .. Len(s) BY <1>1
<1>4. t \in Seq(Entry) /\ Len(t) = m /\ \A i \in 1 .. m : t[i] = s[i] BY <1>1, <1>3, PrefixFacts
<1> HIDE DEF t
<1>5. \A i \in 1 .. m : ReturnsToHost(t, i) <=> ReturnsToHost(s, i)
  BY <1>3, <1>4 DEF ReturnsToHost
<1>6. Rank(t, m) = Rank(s, m)
  <2>1. m \in 0 .. m OBVIOUS
  <2> QED BY <1>5, <2>1, RankAgrees
<1>7. Saved(s, n) = Activations(t, n.ip, n.dsp) BY DEF Saved, t
<1>8. Activations(t, n.ip, n.dsp) \in Seq(Activation) /\ Len(Activations(t, n.ip, n.dsp)) = Rank(t, m) + 1
  BY <1>2, <1>4, ActivationsTypes
<1> QED BY <1>1, <1>2, <1>4, <1>6, <1>7, <1>8 DEF t

\* It is the same of every stack that has those entries.
LEMMA SavedKept ==
  ASSUME NEW s \in Seq(Entry), NEW t \in Seq(Entry), NEW n \in Locals,
         n.ipsp <= Len(s), n.ipsp <= Len(t), \A i \in 1 .. n.ipsp : t[i] = s[i]
  PROVE  Saved(t, n) = Saved(s, n)
<1>1. PICK m \in Nat : m = n.ipsp BY DEF Locals
<1>2. m \in 0 .. Len(s) /\ m \in 0 .. Len(t) BY <1>1
<1>3. /\ SubSeq(s, 1, m) \in Seq(Entry) /\ Len(SubSeq(s, 1, m)) = m
      /\ \A i \in 1 .. m : SubSeq(s, 1, m)[i] = s[i]
      /\ SubSeq(t, 1, m) \in Seq(Entry) /\ Len(SubSeq(t, 1, m)) = m
      /\ \A i \in 1 .. m : SubSeq(t, 1, m)[i] = t[i]
  BY <1>2, PrefixFacts
<1>4. SubSeq(s, 1, m) = SubSeq(t, 1, m) BY <1>1, <1>3, SeqEqual
<1> QED BY <1>1, <1>4 DEF Saved

\* The state that a step leads to stands for this one.
LEMMA NextState ==
  /\ Frames' = Activations(ipStack', ip', dsp')
  /\ Snapshots' = [k \in 1 .. Len(natives') |-> Saved(ipStack', natives'[k])]
BY DEF Frames, Snapshots, Saved, Activations, Callers, Rank, EntryOf, Suspended, ReturnsToHost

-----------------------------------------------------------------------------
(***************************************************************************)
(* What GAZLCalls says, of sequences of activations.                       *)
(***************************************************************************)

\* The activation that executes, and those below it.
LEMMA TopAndBelow ==
  ASSUME NEW q \in Seq(Activation), NEW x \in Activation
  PROVE  /\ Abstract!Front(Append(q, x)) = q
         /\ Abstract!Last(Append(q, x)) = x
         /\ Append(q, x) \in Seq(Activation) /\ Append(q, x) # <<>>
<1>1. /\ Append(q, x) \in Seq(Activation) /\ Len(Append(q, x)) = Len(q) + 1
      /\ (\A i \in 1 .. Len(q) : Append(q, x)[i] = q[i]) /\ Append(q, x)[Len(q) + 1] = x
  BY AppendFacts
<1> DEFINE a == Append(q, x)
<1> HIDE DEF a
<1>2. a \in Seq(Activation) /\ Len(a) = Len(q) + 1 /\ (\A i \in 1 .. Len(q) : a[i] = q[i]) /\ a[Len(q) + 1] = x
  BY <1>1 DEF a
<1>3. Abstract!Last(a) = x BY <1>2 DEF Abstract!Last
<1>4. Abstract!Front(a) = q
  <2>1. PICK n \in Nat : n = Len(q) OBVIOUS
  <2>2. Len(a) - 1 = n /\ n \in 0 .. Len(a) BY <1>2, <2>1
  <2>3. /\ SubSeq(a, 1, n) \in Seq(Activation) /\ Len(SubSeq(a, 1, n)) = n
        /\ \A i \in 1 .. n : SubSeq(a, 1, n)[i] = a[i]
    BY <1>2, <2>2, PrefixFacts
  <2>4. SubSeq(a, 1, n) = q BY <1>2, <2>1, <2>3, SeqEqual
  <2> QED BY <2>2, <2>4 DEF Abstract!Front
<1>5. a # <<>> BY <1>2
<1> QED BY <1>2, <1>3, <1>4, <1>5 DEF a

\* The same of the activations of a stack.
LEMMA ActivationsView ==
  ASSUME NEW s \in Seq(Entry), NEW a \in Int, NEW d \in Int
  PROVE  /\ Activations(s, a, d) \in Seq(Activation) /\ Activations(s, a, d) # <<>>
         /\ Len(Activations(s, a, d)) = Rank(s, Len(s)) + 1
         /\ Abstract!Front(Activations(s, a, d)) = Callers(s)
         /\ Abstract!Last(Activations(s, a, d)) =
              [next |-> a, base |-> d, entered |-> ReturnsToHost(s, Len(s))]
         /\ Abstract!AfterCall(Activations(s, a, d)) = Activations(s, a + 1, d)
<1> DEFINE x(n) == [next |-> n, base |-> d, entered |-> ReturnsToHost(s, Len(s))]
<1>1. Callers(s) \in Seq(Activation) BY CallersTypes
<1>2. \A n \in Int : x(n) \in Activation BY DEF Activation, ReturnsToHost
<1>3. \A n : Activations(s, n, d) = Append(Callers(s), x(n)) BY DEF Activations
<1>4. [x(a) EXCEPT !.next = @ + 1] = x(a + 1) OBVIOUS
<1> HIDE DEF x
<1>5. /\ Abstract!Front(Activations(s, a, d)) = Callers(s)
      /\ Abstract!Last(Activations(s, a, d)) = x(a)
      /\ Activations(s, a, d) \in Seq(Activation) /\ Activations(s, a, d) # <<>>
  <2>1. x(a) \in Activation /\ Activations(s, a, d) = Append(Callers(s), x(a)) BY <1>2, <1>3
  <2> QED BY <1>1, <2>1, TopAndBelow
<1>6. Abstract!AfterCall(Activations(s, a, d)) = Activations(s, a + 1, d)
  BY <1>3, <1>4, <1>5 DEF Abstract!AfterCall
<1>7. Len(Activations(s, a, d)) = Rank(s, Len(s)) + 1 BY ActivationsTypes
<1> QED BY <1>5, <1>6, <1>7 DEF x

\* Where the abstract machine is before a step, and where after it.
LEMMA View ==
  ASSUME IInv, IInv'
  PROVE  /\ ipStack \in Seq(Entry) /\ ip \in Int /\ dsp \in Int
         /\ Frames = Activations(ipStack, ip, dsp)
         /\ Abstract!Front(Frames) = Callers(ipStack)
         /\ Abstract!Last(Frames) = [next |-> ip, base |-> dsp, entered |-> ReturnsToHost(ipStack, Len(ipStack))]
         /\ Len(Frames) = Rank(ipStack, Len(ipStack)) + 1
         /\ ipStack' \in Seq(Entry) /\ ip' \in Int /\ dsp' \in Int
         /\ Frames' = Activations(ipStack', ip', dsp')
         /\ Abstract!Front(Frames') = Callers(ipStack')
         /\ Abstract!Last(Frames') =
              [next |-> ip', base |-> dsp', entered |-> ReturnsToHost(ipStack', Len(ipStack'))]
         /\ Len(Frames') = Rank(ipStack', Len(ipStack')) + 1
<1>1. ipStack \in Seq(Entry) /\ ip \in Int /\ dsp \in Int BY DEF IInv, TypeOK, Address
<1>2. ipStack' \in Seq(Entry) /\ ip' \in Int /\ dsp' \in Int BY DEF IInv, TypeOK, Address
<1>3. Frames = Activations(ipStack, ip, dsp) BY DEF Frames
<1>4. Frames' = Activations(ipStack', ip', dsp') BY NextState
<1> QED BY <1>1, <1>2, <1>3, <1>4, ActivationsView

\* run() and the code that calls it see an ordinary frame.
LEMMA DspInside ==
  ASSUME IInv
  PROVE  0 <= dsp /\ dsp <= DataStackSize /\ dsp # NativeReturn
<1>1. ip \in Address /\ dsp \in Int BY DEF IInv, TypeOK
<1>2. CASE FrameInside(ip, dsp) BY <1>1, <1>2, FrameRange DEF NativeReturn
<1>3. CASE control = "native" /\ ~FrameInside(ip, dsp)
  <2> DEFINE k == Len(natives)
  <2>1. k \in 1 .. Len(natives) /\ NativeNested(k) /\ NativeState(k, ipsp, ip, dsp) BY <1>3, NativeRunning
  <2>2. natives[k].ip \in Address /\ natives[k].dsp \in Int BY <2>1, NativeTypes DEF IInv
  <2>3. ip = natives[k].ip /\ dsp = natives[k].dsp + Code[ip].p1 BY <1>3, <2>1 DEF NativeState
  <2> QED BY <2>1, <2>2, <2>3, FrameWindow DEF NativeNested, Calls, NativeReturn
<1> QED BY <1>2, <1>3 DEF IInv, Executing

\* The entries a native was called with are all there.
LEMMA NativeBelow ==
  ASSUME IInv, NEW k \in 1 .. Len(natives)
  PROVE  natives[k].ipsp \in Nat /\ natives[k].ipsp <= ipsp
<1>1. ipsp \in Nat /\ natives[k].ipsp \in Nat BY NativeTypes, EntryTypes DEF IInv
<1>2. Above(k) \in Nat
  <2>1. k < Len(natives) => k + 1 \in 1 .. Len(natives) BY NativeTypes DEF IInv
  <2> QED BY <1>1, <2>1, NativeTypes DEF IInv, Above
<1> QED BY <1>1, <1>2 DEF IInv, NativesNested, NativeNested

\* What the calls of the natives in progress saved stays the same while their entries do.
LEMMA SnapshotsKept ==
  ASSUME IInv, IInv', UNCHANGED natives,
         \A k \in 1 .. Len(natives) : Keeps(natives[k].ipsp)
  PROVE  Snapshots' = Snapshots
<1>1. ipStack \in Seq(Entry) /\ ipStack' \in Seq(Entry) /\ natives \in Seq(Locals) /\ Len(natives) \in Nat
  BY DEF IInv, TypeOK
<1>2. ASSUME NEW k \in 1 .. Len(natives) PROVE Saved(ipStack', natives[k]) = Saved(ipStack, natives[k])
  <2>1. natives[k] \in Locals /\ natives[k].ipsp \in Nat BY <1>1, NativeTypes DEF IInv
  <2>2. natives[k].ipsp <= Len(ipStack')
    /\ \A i \in 1 .. natives[k].ipsp : ipStack'[i] = ipStack[i]
    BY DEF Keeps, ipsp
  <2>3. natives[k].ipsp <= Len(ipStack) BY <1>1, NativeBelow DEF ipsp
  <2> QED BY <1>1, <2>1, <2>2, <2>3, SavedKept
<1>3. Snapshots' = [k \in 1 .. Len(natives) |-> Saved(ipStack', natives[k])] BY NextState
<1> QED BY <1>2, <1>3 DEF Snapshots

\* The activations saved are sequences of activations, one for each native in progress.
LEMMA SnapshotsView ==
  ASSUME IInv
  PROVE  /\ Snapshots \in Seq(Seq(Activation)) /\ Len(Snapshots) = Len(natives)
         /\ \A k \in 1 .. Len(natives) : Snapshots[k] = Saved(ipStack, natives[k])
         /\ Snapshots = <<>> <=> natives = <<>>
         /\ natives # <<>> => Abstract!Last(Snapshots) = Saved(ipStack, caller)
<1>1. ipStack \in Seq(Entry) /\ natives \in Seq(Locals) BY DEF IInv, TypeOK
<1>2. PICK m \in Nat : m = Len(natives) BY <1>1
<1>3. ASSUME NEW k \in 1 .. m PROVE Saved(ipStack, natives[k]) \in Seq(Activation)
  <2>1. natives[k] \in Locals BY <1>1, <1>2
  <2> QED BY <1>1, <1>2, <2>1, NativeBelow, SavedTypes DEF ipsp
<1>4. Snapshots = [k \in 1 .. m |-> Saved(ipStack, natives[k])] BY <1>2 DEF Snapshots
<1> DEFINE q == Snapshots
<1>5. q \in [1 .. m -> Seq(Activation)] BY <1>3, <1>4
<1>6. \A k \in 1 .. m : q[k] = Saved(ipStack, natives[k]) BY <1>4
<1> HIDE DEF q
<1>7. q \in Seq(Seq(Activation)) /\ Len(q) = m BY <1>5
<1>8. q = <<>> <=> natives = <<>> BY <1>1, <1>2, <1>7, EmptySeq
<1>9. natives # <<>> => Abstract!Last(q) = Saved(ipStack, caller)
  <2> SUFFICES ASSUME natives # <<>> PROVE Abstract!Last(q) = Saved(ipStack, caller)
    OBVIOUS
  <2>1. m \in 1 .. m BY <1>1, <1>2, EmptySeq
  <2>2. caller = natives[m] BY <1>2 DEF caller, Last
  <2>3. Abstract!Last(q) = q[m] BY <1>7 DEF Abstract!Last
  <2> QED BY <1>6, <2>1, <2>2, <2>3
<1> QED BY <1>2, <1>6, <1>7, <1>8, <1>9 DEF q

\* run() hands control back to the code that called it in both machines.
LEMMA HandsBack ==
  ASSUME IInv', control' = IF natives' = <<>> THEN "host" ELSE "native"
  PROVE  Abstract!HandBack
<1>1. natives' \in Seq(Locals) BY DEF IInv, TypeOK
<1>2. PICK m \in Nat : m = Len(natives') BY <1>1
<1> DEFINE q == Snapshots'
<1>3. q = [k \in 1 .. m |-> Saved(ipStack', natives'[k])] BY <1>2, NextState
<1> HIDE DEF q
<1>4. q = <<>> <=> natives' = <<>>
  <2>1. natives' = <<>> <=> m = 0 BY <1>1, <1>2, EmptySeq
  <2>2. DOMAIN q = 1 .. m BY <1>3
  <2>3. m = 0 => q = <<>> BY <1>3
  <2>4. q = <<>> => m = 0
    <3> SUFFICES ASSUME q = <<>>, m # 0 PROVE FALSE OBVIOUS
    <3>1. 1 \in DOMAIN q BY <1>2, <2>2
    <3> QED BY <3>1
  <2> QED BY <2>1, <2>3, <2>4
<1> QED BY <1>4 DEF Abstract!HandBack, q

\* A new activation on top of the callers that the stack then has.
LEMMA StartsAbove ==
  ASSUME IInv, IInv', NEW e \in BOOLEAN, ReturnsToHost(ipStack', Len(ipStack')) <=> e
  PROVE  Abstract!Starts(Callers(ipStack'), e)
<1>1. /\ ipStack' \in Seq(Entry)
      /\ Abstract!Front(Frames') = Callers(ipStack')
      /\ Abstract!Last(Frames').entered = ReturnsToHost(ipStack', Len(ipStack'))
      /\ Len(Frames') = Rank(ipStack', Len(ipStack')) + 1
  BY View
<1>2. Len(Callers(ipStack')) = Rank(ipStack', Len(ipStack')) BY <1>1, CallersTypes
<1>3. ReturnsToHost(ipStack', Len(ipStack')) = e BY DEF ReturnsToHost
<1> QED BY <1>1, <1>2, <1>3 DEF Abstract!Starts

-----------------------------------------------------------------------------
(***************************************************************************)
(* Each operation, and the step of GAZLCalls that it is.                   *)
(***************************************************************************)

\* What changes neither of the stacks nor the place of execution changes no activation.
LEMMA NothingMoves ==
  ASSUME UNCHANGED <<ip, dsp, ipStack, natives>>
  PROVE  Frames' = Frames /\ Snapshots' = Snapshots
BY NextState DEF Frames, Snapshots

\* A time out, or an instruction that fails.
LEMMA StopStep ==
  ASSUME IInv, IInv', control = "run", NEW status, Return(status), UNCHANGED <<ip, dsp, ipStack>>
  PROVE  Abstract!Stop
<1>1. Frames' = Frames /\ Snapshots' = Snapshots BY NothingMoves DEF Return
<1>2. Abstract!HandBack BY HandsBack DEF Return
<1> QED BY <1>1, <1>2 DEF Abstract!Stop

\* An instruction that leaves the ip stack alone.
LEMMA WorkStep ==
  ASSUME IInv, IInv', control = "run", UNCHANGED <<ipStack, control, natives>>, dsp' >= dsp
  PROVE  Abstract!Work
<1>1. Snapshots' = Snapshots BY NextState DEF Snapshots
<1>2. /\ Len(Frames') = Len(Frames)
      /\ Abstract!Front(Frames') = Abstract!Front(Frames)
      /\ Abstract!Last(Frames').entered = Abstract!Last(Frames).entered
      /\ Abstract!Last(Frames').base >= Abstract!Last(Frames).base
  BY View
<1> QED BY <1>1, <1>2 DEF Abstract!Work

\* enterCall starts an activation that returns to the host.
LEMMA EnterStep ==
  ASSUME IInv, IInv', NEW f \in Pointers, EnterCall(f)
  PROVE  Abstract!Enter
<1> DEFINE s == ipStack
           t == ipStack'
           e1 == [ip |-> ip, dsp |-> dsp]
           e2 == [ip |-> ip, dsp |-> NativeReturn]
<1>1. control # "run" /\ control' = control /\ dsp' = dsp /\ natives' = natives /\ t = s \o <<e1, e2>>
  BY DEF EnterCall
<1>2. ip \in Int /\ dsp \in Int /\ s \in Seq(Entry) /\ t \in Seq(Entry)
  BY DEF IInv, TypeOK, Address
<1>3. e1 \in Entry /\ e2 \in Entry BY <1>2 DEF Entry, NativeReturn
<1>4. e1.ip = ip /\ e1.dsp = dsp /\ e2.dsp = NativeReturn OBVIOUS
<1> HIDE DEF e1, e2
<1>5. /\ Len(t) = Len(s) + 2 /\ \A i \in 1 .. Len(s) : t[i] = s[i]
      /\ t[Len(s) + 1] = e1 /\ t[Len(s) + 2] = e2
  BY <1>1, <1>2, <1>3, PairFacts
<1>6. dsp # NativeReturn BY DspInside
<1>7. Callers(t) = Activations(s, ip, dsp) /\ ReturnsToHost(t, Len(t))
  <2> HIDE DEF s, t
  <2> QED BY <1>2, <1>4, <1>5, <1>6, EnterSuspends, SMTT(30)
<1>8. Callers(t) = Frames BY <1>7 DEF Frames
<1>9. Abstract!Starts(Frames, TRUE) BY <1>7, <1>8, StartsAbove
<1>10. Snapshots' = Snapshots
  <2>1. \A k \in 1 .. Len(natives) : Keeps(natives[k].ipsp) BY <1>1, <1>3, AddedKeeps
  <2> QED BY <1>1, <2>1, SnapshotsKept
<1>11. Abstract!Last(Frames').base = Abstract!Last(Frames).base BY <1>1, View
<1> QED BY <1>1, <1>9, <1>10, <1>11 DEF Abstract!Enter

\* A call suspends the activation that made it, which goes on after the call.
LEMMA CallStep ==
  ASSUME IInv, IInv', NEW f \in Pointers, Call(f), ipStack' = Append(ipStack, [ip |-> ip, dsp |-> dsp]),
         dsp' = dsp + Code[ip].p1, Continue
  PROVE  Abstract!Call
<1> DEFINE s == ipStack
           t == ipStack'
           e == [ip |-> ip, dsp |-> dsp]
<1>1. control = "run" /\ control' = control /\ natives' = natives /\ t = Append(s, e)
  BY DEF Call, Execute, Continue
<1>2. ip \in Int /\ dsp \in Int /\ s \in Seq(Entry) /\ t \in Seq(Entry) /\ ip \in Address
  BY DEF IInv, TypeOK, Address
<1>3. e \in Entry /\ e.ip + 1 = ip + 1 /\ e.dsp = dsp BY <1>2 DEF Entry
<1> HIDE DEF e
<1>4. Len(t) = Len(s) + 1 /\ (\A i \in 1 .. Len(s) : t[i] = s[i]) /\ t[Len(s) + 1] = e
  BY <1>1, <1>2, <1>3, AppendFacts
<1>5. dsp # NativeReturn BY DspInside
<1>6. Callers(t) = Activations(s, ip + 1, dsp) /\ ~ReturnsToHost(t, Len(t))
  <2>1. ip + 1 \in Int BY <1>2
  <2> HIDE DEF s, t
  <2> QED BY <1>2, <1>3, <1>4, <1>5, <2>1, CallSuspends, ZenonT(30)
<1>7. Callers(t) = Abstract!AfterCall(Frames) BY <1>2, <1>6, ActivationsView DEF Frames
<1>8. Abstract!Starts(Abstract!AfterCall(Frames), FALSE) BY <1>6, <1>7, StartsAbove
<1>9. Snapshots' = Snapshots
  <2>1. \A k \in 1 .. Len(natives) : Keeps(natives[k].ipsp) BY <1>1, <1>3, AddedKeeps
  <2> QED BY <1>1, <2>1, SnapshotsKept
<1>10. Abstract!Last(Frames').base >= Abstract!Last(Frames).base
  <2>1. dsp' >= dsp BY <1>2, CodeTypes
  <2> QED BY <2>1, View
<1> QED BY <1>1, <1>8, <1>9, <1>10 DEF Abstract!Call

\* RETU goes back to the activation below, when the entry it pops is a call's or a push's.
LEMMA ReturnStep ==
  ASSUME IInv, IInv', Retu, Last(ipStack).dsp # NativeReturn
  PROVE  Abstract!Return
<1> DEFINE s == ipStack'
           t == ipStack
<1>1. /\ control = "run" /\ control' = control /\ natives' = natives /\ s = Front(t)
      /\ ip' = Last(t).ip + 1 /\ dsp' = Last(t).dsp
  BY DEF Retu, Execute, Continue
<1>2. ip' \in Int /\ dsp' \in Int /\ s \in Seq(Entry) /\ t \in Seq(Entry)
  BY DEF IInv, TypeOK, Address
<1>3. t # <<>> BY <1>1, <1>2, RunPending, EmptySeq DEF ipsp
<1>4. Len(t) = Len(s) + 1 /\ (\A i \in 1 .. Len(s) : t[i] = s[i]) /\ t[Len(s) + 1] = Last(t)
  BY <1>1, <1>2, <1>3, FrontFacts
<1>5. Callers(t) = Activations(s, ip', dsp') /\ ~ReturnsToHost(t, Len(t))
  <2>1. t[Len(s) + 1].ip + 1 = ip' /\ t[Len(s) + 1].dsp = dsp' /\ dsp' # NativeReturn BY <1>1, <1>4
  <2> HIDE DEF s, t
  <2> QED BY <1>2, <1>4, <2>1, CallSuspends
<1>6. Callers(t) = Frames' BY <1>5, NextState
<1>7. Frames' = Abstract!Front(Frames) BY <1>6, View
<1>8. ~Abstract!Last(Frames).entered BY <1>5, View
<1>9. Len(Frames) > 1
  <2>1. Len(Frames) = Len(Callers(t)) + 1 BY <1>2, CallersTypes, View
  <2>2. PICK r \in Nat : r = Rank(s, Len(s)) /\ Len(Frames') = r + 1 BY <1>2, RankNext, View
  <2> QED BY <1>6, <2>1, <2>2
<1>10. Snapshots' = Snapshots
  <2>1. \A k \in 1 .. Len(natives) : Keeps(natives[k].ipsp) BY RetuKeeps
  <2> QED BY <1>1, <2>1, SnapshotsKept
<1> QED BY <1>1, <1>7, <1>8, <1>9, <1>10 DEF Abstract!Return

\* RETU ends a run() when the entry is a sentinel: it goes back to where enterCall was called.
LEMMA LeaveStep ==
  ASSUME IInv, IInv', Retu, Last(ipStack).dsp = NativeReturn
  PROVE  Abstract!Leave
<1> DEFINE s == ipStack'
           t == ipStack
<1>1. /\ control = "run" /\ natives' = natives /\ s = SubSeq(t, 1, ipsp - 2)
      /\ ip' = Last(t).ip /\ dsp' = t[ipsp - 1].dsp
      /\ control' = IF natives = <<>> THEN "host" ELSE "native"
  BY DEF Retu, Execute, Return
<1>2. ip' \in Int /\ dsp' \in Int /\ s \in Seq(Entry) /\ t \in Seq(Entry)
  BY DEF IInv, TypeOK, Address
<1>3. PICK n \in Nat : n + 2 = ipsp
  <2>1. ipsp \in Nat /\ ipsp > 1 BY <1>1, RunPending
  <2>2. ipsp - 2 \in Nat /\ ipsp - 2 + 2 = ipsp BY <2>1
  <2> QED BY <2>2
<1>4. Len(t) = n + 2 /\ ipsp - 2 = n /\ ipsp - 1 = n + 1 /\ n \in 0 .. Len(t) BY <1>3 DEF ipsp
<1>5. Len(s) = n /\ \A i \in 1 .. n : t[i] = s[i] BY <1>1, <1>2, <1>4, PrefixFacts
<1>6. Last(t) = t[n + 2] BY <1>4 DEF Last
<1>7. Sentinel(n + 2) BY <1>3, <1>6 DEF Sentinel
<1>8. ~Sentinel(n + 1) /\ t[n + 2].ip = t[n + 1].ip
  <2>1. n + 2 \in 1 .. ipsp /\ n + 2 - 1 = n + 1 BY <1>3
  <2>2. Sentinel(n + 2) => ~Sentinel(n + 2 - 1) /\ t[n + 2].ip = t[n + 2 - 1].ip
    BY <2>1 DEF IInv, EntryPairs
  <2> QED BY <1>7, <2>1, <2>2
<1>9. /\ t[n + 1].ip = ip' /\ t[n + 1].dsp = dsp' /\ t[n + 2].dsp = NativeReturn
      /\ dsp' # NativeReturn
  <2>1. n + 1 \in 1 .. ipsp BY <1>3
  <2> QED BY <1>1, <1>4, <1>6, <1>8, <2>1 DEF Sentinel
<1>10. Callers(t) = Activations(s, ip', dsp') /\ ReturnsToHost(t, Len(t))
  <2> HIDE DEF s, t
  <2> QED BY <1>2, <1>4, <1>5, <1>9, EnterSuspends
<1>11. Frames' = Abstract!Front(Frames)
  <2>1. Callers(t) = Frames' BY <1>10, NextState
  <2> QED BY <2>1, View
<1>12. Abstract!Last(Frames).entered BY <1>10, View
<1>13. Snapshots' = Snapshots
  <2>1. \A k \in 1 .. Len(natives) : Keeps(natives[k].ipsp) BY RetuKeeps
  <2> QED BY <1>1, <2>1, SnapshotsKept
<1>14. Abstract!HandBack BY <1>1, HandsBack
<1> QED BY <1>1, <1>11, <1>12, <1>13, <1>14 DEF Abstract!Leave

\* A native's call saves the activations, and moves its caller's frame to the window.
LEMMA CallNativeStep ==
  ASSUME IInv, IInv', CallNative
  PROVE  Abstract!CallNative
<1> DEFINE n == [ip |-> ip, dsp |-> dsp, ipsp |-> ipsp, clock |-> clock - 1]
<1>1. /\ control = "run" /\ control' = "native" /\ natives' = Append(natives, n)
      /\ dsp' = dsp + Code[ip].p1 /\ ip' = ip /\ ipStack' = ipStack
  BY DEF CallNative, Execute
<1>2. /\ ip \in Address /\ ip \in Int /\ dsp \in Int /\ clock \in Int /\ ipsp \in Nat /\ Len(ipStack) = ipsp
      /\ ipStack \in Seq(Entry) /\ natives \in Seq(Locals)
  BY EntryTypes DEF IInv, TypeOK, Address, ipsp
<1>3. n \in Locals BY <1>2 DEF Locals
<1>4. n.ip = ip /\ n.dsp = dsp /\ n.ipsp = ipsp OBVIOUS
<1> HIDE DEF n
<1>5. Saved(ipStack, n) = Frames
  <2>1. /\ SubSeq(ipStack, 1, ipsp) \in Seq(Entry) /\ Len(SubSeq(ipStack, 1, ipsp)) = ipsp
        /\ \A i \in 1 .. ipsp : SubSeq(ipStack, 1, ipsp)[i] = ipStack[i]
    BY <1>2, PrefixFacts
  <2>2. SubSeq(ipStack, 1, ipsp) = ipStack BY <1>2, <2>1, SeqEqual
  <2> QED BY <1>4, <2>2 DEF Saved, Frames
<1>6. Snapshots' = Append(Snapshots, Frames)
  <2>1. PICK m \in Nat : m = Len(natives) BY <1>2
  <2>2. Len(natives') = m + 1 /\ (\A k \in 1 .. m : natives'[k] = natives[k]) /\ natives'[m + 1] = n
    BY <1>1, <1>2, <1>3, <2>1, AppendFacts
  <2>3. Snapshots \in Seq(Seq(Activation)) /\ Len(Snapshots) = m
        /\ \A k \in 1 .. m : Snapshots[k] = Saved(ipStack, natives[k])
    BY <2>1, SnapshotsView
  <2>4. Frames \in Seq(Activation) BY <1>2, ActivationsView DEF Frames
  <2> DEFINE q == Append(Snapshots, Frames)
             r == [k \in 1 .. m + 1 |-> Saved(ipStack, natives'[k])]
  <2>5. /\ q \in Seq(Seq(Activation)) /\ Len(q) = m + 1
        /\ (\A k \in 1 .. m : q[k] = Snapshots[k]) /\ q[m + 1] = Frames
    BY <2>3, <2>4, AppendFacts
  <2>6. \A k \in 1 .. m + 1 : r[k] = Saved(ipStack, natives'[k]) OBVIOUS
  <2>7. Snapshots' = r BY <1>1, <2>2, NextState
  <2>8. DOMAIN r = 1 .. m + 1 OBVIOUS
  <2>9. r = [k \in 1 .. m + 1 |-> r[k]] OBVIOUS
  <2> HIDE DEF q, r
  <2>10. \A k \in 1 .. m + 1 : r[k] = q[k]
    <3> SUFFICES ASSUME NEW k \in 1 .. m + 1 PROVE r[k] = q[k]
      OBVIOUS
    <3>1. k \in 1 .. m \/ k = m + 1 BY <2>1
    <3>2. CASE k \in 1 .. m BY <2>2, <2>3, <2>5, <2>6, <3>2
    <3>3. CASE k = m + 1 BY <1>5, <2>2, <2>5, <2>6, <3>3
    <3> QED BY <3>1, <3>2, <3>3
  <2>11. r \in Seq(Seq(Activation)) /\ Len(r) = m + 1
    <3>1. \A k \in 1 .. m + 1 : q[k] \in Seq(Activation) BY <2>5, ElementOfSeq
    <3>2. r \in [1 .. m + 1 -> Seq(Activation)] BY <2>9, <2>10, <3>1
    <3> QED BY <2>1, <3>2
  <2>12. r = q BY <2>5, <2>10, <2>11, SeqEqual
  <2> QED BY <2>7, <2>12 DEF q
<1>7. /\ Len(Frames') = Len(Frames)
      /\ Abstract!Front(Frames') = Abstract!Front(Frames)
      /\ Abstract!Last(Frames) = [next |-> ip, base |-> dsp, entered |-> ReturnsToHost(ipStack, Len(ipStack))]
      /\ Abstract!Last(Frames') = [next |-> ip, base |-> dsp', entered |-> ReturnsToHost(ipStack, Len(ipStack))]
  BY <1>1, View
<1>8. \E window \in 0 .. (Abstract!Last(Frames').base - Abstract!Last(Frames).base) :
        Abstract!Last(Frames') = [Abstract!Last(Frames) EXCEPT !.base = @ + window]
  <2>1. PICK w \in Nat : w = Code[ip].p1 BY <1>2, CodeTypes
  <2>2. dsp' = dsp + w /\ w \in 0 .. (dsp' - dsp) BY <1>1, <1>2, <2>1
  <2>3. Abstract!Last(Frames').base - Abstract!Last(Frames).base = dsp' - dsp BY <1>7
  <2>4. Abstract!Last(Frames') = [Abstract!Last(Frames) EXCEPT !.base = @ + w] BY <1>7, <2>2
  <2> QED BY <2>2, <2>3, <2>4
<1> QED BY <1>1, <1>6, <1>7, <1>8 DEF Abstract!CallNative

\* While a native has control: what its call saved, and how the stack goes on from there.
LEMMA SavedByCaller ==
  ASSUME IInv, control = "native", NEW m, m = caller.ipsp
  PROVE  /\ m \in Nat /\ m <= Len(ipStack) /\ caller.ip \in Address /\ caller.dsp \in Int
         /\ caller.ip \in Int /\ Code[caller.ip].op = "CALL_NVC" /\ caller.dsp # NativeReturn
         /\ SubSeq(ipStack, 1, m) \in Seq(Entry)
         /\ m = Len(ipStack) => SubSeq(ipStack, 1, m) = ipStack
         /\ Abstract!Last(Snapshots) = Activations(SubSeq(ipStack, 1, m), caller.ip, caller.dsp)
         /\ Len(Abstract!Last(Snapshots)) = Rank(ipStack, m) + 1
         /\ Abstract!EnteredSince(Abstract!Last(Snapshots)) <=> CallPending
         /\ m < Len(ipStack) => Len(Frames) > Len(Abstract!Last(Snapshots))
         /\ m = Len(ipStack) => Len(Frames) = Len(Abstract!Last(Snapshots))
         /\ ~CallPending => \/ m = Len(ipStack) /\ ip = caller.ip /\ dsp = caller.dsp + Code[ip].p1
                            \/ m < Len(ipStack) /\ IsFunction(ip) /\ ip # caller.ip
<1> DEFINE s == ipStack
           k == Len(natives)
           fs == Abstract!Last(Snapshots)
<1>1. /\ k \in 1 .. Len(natives) /\ natives # <<>> /\ caller = natives[k] /\ NativeNested(k)
      /\ NativeState(k, ipsp, ip, dsp) /\ (CallPending <=> PendingSince(k, ipsp))
  BY NativeRunning
<1>2. s \in Seq(Entry) /\ ip \in Int /\ dsp \in Int /\ Len(s) \in Nat BY DEF IInv, TypeOK, Address
<1>3. caller \in Locals BY <1>1 DEF IInv, TypeOK
<1>4. m \in Nat /\ caller.ip \in Address /\ caller.dsp \in Int /\ caller.ip \in Int
  BY <1>3 DEF Locals, Address
<1>5. m <= Len(s) /\ m \in 0 .. Len(s) BY <1>1, <1>2, <1>4, NativeBelow DEF ipsp
<1>6. Code[caller.ip].op = "CALL_NVC" /\ FrameInside(caller.ip, caller.dsp) BY <1>1 DEF NativeNested
<1>7. caller.dsp # NativeReturn BY <1>4, <1>6, FrameRange DEF NativeReturn
<1>8. /\ SubSeq(s, 1, m) \in Seq(Entry) /\ Len(SubSeq(s, 1, m)) = m
      /\ \A i \in 1 .. m : SubSeq(s, 1, m)[i] = s[i]
  BY <1>2, <1>5, PrefixFacts
<1>9. m = Len(s) => SubSeq(s, 1, m) = s BY <1>2, <1>8, SeqEqual
<1>10. fs = Saved(s, caller) BY <1>1, SnapshotsView
<1>11. fs = Activations(SubSeq(s, 1, m), caller.ip, caller.dsp) BY <1>10 DEF Saved
<1>12. PICK r \in Nat : r = Rank(s, m) /\ Len(fs) = r + 1
  BY <1>2, <1>3, <1>4, <1>5, <1>10, RankNext, SavedTypes
<1>13. PICK h \in Nat : h = Rank(s, Len(s)) /\ Len(Frames) = h + 1
  BY <1>2, RankNext, ActivationsView DEF Frames
<1>14. ~ReturnsToHost(s, m + 1)
  BY <1>1 DEF NativeNested, Sentinel, ReturnsToHost, ipsp
<1>15. \A j \in 1 .. Len(s) : ReturnsToHost(s, j) => ~ReturnsToHost(s, j - 1)
  BY DEF IInv, EntryPairs, Sentinel, ReturnsToHost, ipsp
<1>16. Abstract!EnteredSince(fs) <=> CallPending
  <2>1. (\E i \in (Rank(s, m) + 2) .. Len(Activations(s, ip, dsp)) : Activations(s, ip, dsp)[i].entered)
          <=> \E j \in (m + 1) .. Len(s) : ReturnsToHost(s, j)
    <3> HIDE DEF s
    <3> QED BY <1>2, <1>5, <1>14, <1>15, EnteredAbove
  <2>2. (\E j \in (m + 1) .. Len(s) : ReturnsToHost(s, j)) <=> CallPending
    BY <1>2, <1>4 DEF CallPending, ReturnsToHost, ipsp
  <2>3. Len(fs) + 1 = r + 2 BY <1>12
  <2>4. (\E i \in (r + 2) .. Len(Frames) : Frames[i].entered) <=> CallPending
    BY <1>12, <2>1, <2>2 DEF Frames
  <2> QED BY <2>3, <2>4 DEF Abstract!EnteredSince
<1>17. m < Len(s) => Len(Frames) > Len(fs)
  <2> SUFFICES ASSUME m < Len(s) PROVE Len(Frames) > Len(fs)
    OBVIOUS
  <2>1. m + 1 \in Nat /\ m + 1 <= Len(s) BY <1>2, <1>4
  <2>2. Rank(s, m + 1) = r + 1 BY <1>4, <1>12, <1>14, RankNext
  <2>3. Rank(s, m + 1) <= Rank(s, Len(s)) BY <1>2, <2>1, RankOrder
  <2> QED BY <1>12, <1>13, <2>2, <2>3
<1>18. m = Len(s) => Len(Frames) = Len(fs) BY <1>12, <1>13
<1>19. ~CallPending => \/ m = Len(s) /\ ip = caller.ip /\ dsp = caller.dsp + Code[ip].p1
                       \/ m < Len(s) /\ IsFunction(ip) /\ ip # caller.ip
  <2> SUFFICES ASSUME ~PendingSince(k, ipsp)
               PROVE  \/ m = Len(s) /\ ip = caller.ip /\ dsp = caller.dsp + Code[ip].p1
                      \/ m < Len(s) /\ IsFunction(ip) /\ ip # caller.ip
    BY <1>1
  <2>1. IsFunction(ip) => ip # caller.ip BY <1>6 DEF IsFunction
  <2>2. \/ ipsp = m /\ ip = caller.ip /\ dsp = caller.dsp + Code[ip].p1
        \/ ipsp > m /\ IsFunction(ip)
    BY <1>1 DEF NativeState
  <2> QED BY <1>2, <1>4, <2>1, <2>2 DEF ipsp
<1> QED BY <1>4, <1>5, <1>6, <1>7, <1>8, <1>9, <1>11, <1>12, <1>16, <1>17, <1>18, <1>19

\* The first pushCall is a call by the native's caller, a later one a call by the function pushed last.
LEMMA PushStep ==
  ASSUME IInv, IInv', NEW f \in Pointers, PushCall(f)
  PROVE  Abstract!Push
<1> DEFINE s == ipStack
           t == ipStack'
           fs == Abstract!Last(Snapshots)
           e == IF AtNativeCall THEN [ip |-> ip, dsp |-> dsp - Code[ip].p1] ELSE [ip |-> ip - 1, dsp |-> dsp]
<1>1. /\ control = "native" /\ ~CallPending /\ control' = control /\ natives' = natives /\ dsp' = dsp
      /\ t = Append(s, e) /\ (AtNativeCall \/ ChainedPush)
  BY DEF PushCall, PushAccepted
<1>2. ip \in Address /\ ip \in Int /\ dsp \in Int /\ s \in Seq(Entry) /\ t \in Seq(Entry) /\ Len(s) \in Nat
  BY DEF IInv, TypeOK, Address
<1>3. PICK w \in Nat : w = Code[ip].p1 BY <1>2, CodeTypes
<1>4. e \in Entry BY <1>2, <1>3 DEF Entry
<1>5. AtNativeCall => e.ip = ip /\ e.dsp = dsp - w BY <1>3
<1>6. ~AtNativeCall => e.ip = ip - 1 /\ e.dsp = dsp OBVIOUS
<1> HIDE DEF e
<1>7. Len(t) = Len(s) + 1 /\ (\A i \in 1 .. Len(s) : t[i] = s[i]) /\ t[Len(s) + 1] = e
  BY <1>1, <1>2, <1>4, AppendFacts
<1>8. Snapshots' = Snapshots
  <2>1. \A k \in 1 .. Len(natives) : Keeps(natives[k].ipsp) BY <1>1, <1>4, AddedKeeps
  <2> QED BY <1>1, <2>1, SnapshotsKept
<1>9. Abstract!Last(Frames').base = Abstract!Last(Frames).base BY <1>1, View
<1>10. CASE AtNativeCall
  <2>1. ~IsFunction(ip) BY <1>10 DEF AtNativeCall, IsFunction
  <2>2. caller.ipsp = Len(s) /\ ip = caller.ip /\ dsp = caller.dsp + w
    BY <1>1, <1>3, <2>1, SavedByCaller
  <2>3. /\ fs = Activations(s, ip, caller.dsp) /\ Len(Frames) = Len(fs)
        /\ caller.dsp \in Int /\ caller.dsp # NativeReturn
    BY <1>1, <2>2, SavedByCaller
  <2>4. t[Len(s) + 1].ip + 1 = ip + 1 /\ t[Len(s) + 1].dsp = caller.dsp /\ ip + 1 \in Int
    BY <1>2, <1>5, <1>7, <1>10, <2>2, <2>3
  <2>5. Callers(t) = Activations(s, ip + 1, caller.dsp) /\ ~ReturnsToHost(t, Len(t))
    <3> HIDE DEF s, t
    <3> QED BY <1>2, <1>7, <2>3, <2>4, CallSuspends
  <2>6. Callers(t) = Abstract!AfterCall(fs) BY <1>2, <2>3, <2>5, ActivationsView
  <2>7. Abstract!Starts(Abstract!AfterCall(fs), FALSE) BY <2>5, <2>6, StartsAbove
  <2> QED BY <1>1, <1>8, <1>9, <2>3, <2>7 DEF Abstract!Push
<1>11. CASE ~AtNativeCall
  <2>1. ChainedPush /\ IsFunction(ip) BY <1>1, <1>11 DEF ChainedPush
  <2>2. Len(Frames) > Len(fs)
    <3>1. ip # caller.ip BY <1>1, <2>1, SavedByCaller DEF IsFunction
    <3> QED BY <1>1, <3>1, SavedByCaller
  <2>3. t[Len(s) + 1].ip + 1 = ip /\ t[Len(s) + 1].dsp = dsp BY <1>2, <1>6, <1>7, <1>11
  <2>4. dsp # NativeReturn BY DspInside
  <2>5. Callers(t) = Activations(s, ip, dsp) /\ ~ReturnsToHost(t, Len(t))
    <3> HIDE DEF s, t
    <3> QED BY <1>2, <1>7, <2>3, <2>4, CallSuspends
  <2>6. Callers(t) = Frames BY <2>5 DEF Frames
  <2>7. Abstract!Starts(Frames, FALSE) BY <2>5, <2>6, StartsAbove
  <2> QED BY <1>1, <1>8, <1>9, <2>2, <2>7 DEF Abstract!Push
<1> QED BY <1>10, <1>11

\* A native that ends takes what its call saved with it.
LEMMA SnapshotsPopped ==
  ASSUME IInv, IInv', control = "native", natives' = Front(natives),
         UNCHANGED ipStack \/ ipStack' = SubSeq(ipStack, 1, caller.ipsp)
  PROVE  Snapshots' = Abstract!Front(Snapshots)
<1>1. natives # <<>> /\ natives \in Seq(Locals) BY NativeRunning
<1>2. PICK m \in Nat : m + 1 = Len(natives)
  <2>1. Len(natives) - 1 \in Nat /\ Len(natives) - 1 + 1 = Len(natives) BY <1>1, EmptySeq
  <2> QED BY <2>1
<1>3. Len(natives') = m /\ \A k \in 1 .. m : natives'[k] = natives[k] BY <1>1, <1>2, FrontFacts
<1>4. /\ Snapshots \in Seq(Seq(Activation)) /\ Len(Snapshots) = m + 1
      /\ \A k \in 1 .. m + 1 : Snapshots[k] = Saved(ipStack, natives[k])
  BY <1>2, SnapshotsView
<1>5. ASSUME NEW k \in 1 .. m PROVE Saved(ipStack', natives'[k]) = Snapshots[k]
  <2>1. k \in 1 .. Len(natives) /\ natives[k] \in Locals /\ natives'[k] = natives[k]
    BY <1>1, <1>2, <1>3
  <2>2. Keeps(natives[k].ipsp) BY <2>1, NativeKeeps
  <2>3. natives[k].ipsp <= Len(ipStack) BY <2>1, NativeBelow DEF ipsp
  <2>4. ipStack \in Seq(Entry) /\ ipStack' \in Seq(Entry) BY DEF IInv, TypeOK
  <2>5. Saved(ipStack', natives[k]) = Saved(ipStack, natives[k])
    BY <2>1, <2>2, <2>3, <2>4, SavedKept DEF Keeps, ipsp
  <2>6. k \in 1 .. m + 1 BY <1>2
  <2> QED BY <1>4, <2>1, <2>5, <2>6
<1>6. Snapshots' = [k \in 1 .. m |-> Saved(ipStack', natives'[k])] BY <1>3, NextState
<1>7. Snapshots' = [k \in 1 .. m |-> Snapshots[k]] BY <1>5, <1>6
<1> DEFINE q == Snapshots
<1>8. q \in Seq(Seq(Activation)) /\ Len(q) = m + 1 BY <1>4
<1>9. Snapshots' = [k \in 1 .. m |-> q[k]] BY <1>7
<1> HIDE DEF q
<1>10. /\ SubSeq(q, 1, m) \in Seq(Seq(Activation)) /\ Len(SubSeq(q, 1, m)) = m
       /\ \A k \in 1 .. m : SubSeq(q, 1, m)[k] = q[k]
  <2>1. m \in 0 .. Len(q) BY <1>8
  <2> QED BY <1>8, <2>1, PrefixFacts
<1>11. [k \in 1 .. m |-> q[k]] = SubSeq(q, 1, m)
  <2> DEFINE r == [k \in 1 .. m |-> q[k]]
  <2>1. \A k \in 1 .. m : r[k] = q[k] /\ q[k] \in Seq(Activation) BY <1>8, ElementOfSeq
  <2>2. r \in [1 .. m -> Seq(Activation)] BY <2>1
  <2> HIDE DEF r
  <2>3. r \in Seq(Seq(Activation)) /\ Len(r) = m BY <2>2
  <2>4. r = SubSeq(q, 1, m) BY <1>10, <2>1, <2>3, SeqEqual
  <2> QED BY <2>4 DEF r
<1>12. Abstract!Front(q) = SubSeq(q, 1, m)
  <2>1. Len(q) - 1 = m BY <1>8
  <2> QED BY <2>1 DEF Abstract!Front
<1> QED BY <1>9, <1>11, <1>12 DEF q

\* A native that returns OK goes on after its call, or in what it pushed.
LEMMA NativeOKStep ==
  ASSUME IInv, IInv', NativeOK
  PROVE  Abstract!NativeOK
<1> DEFINE s == ipStack
           fs == Abstract!Last(Snapshots)
<1>1. control = "native" /\ ~CallPending /\ control' = "run" /\ natives' = Front(natives)
  BY DEF NativeOK
<1>2. ~Abstract!EnteredSince(fs) BY <1>1, SavedByCaller
<1>3. Snapshots' = Abstract!Front(Snapshots) BY <1>1, SnapshotsPopped DEF NativeOK
<1>4. CASE ip # caller.ip
  <2>1. ip' = ip /\ dsp' = dsp /\ ipStack' = ipStack BY <1>4 DEF NativeOK
  <2>2. caller.ipsp < Len(s) BY <1>1, <1>4, SavedByCaller
  <2>3. Len(Frames) > Len(fs) BY <1>1, <2>2, SavedByCaller
  <2>4. Len(Frames) # Len(fs)
    <3>1. Len(Frames) \in Int /\ Len(fs) \in Int
      <4>1. PICK m : m = caller.ipsp OBVIOUS
      <4>2. m \in Nat /\ Len(fs) = Rank(s, m) + 1 BY <1>1, <4>1, SavedByCaller
      <4>3. Rank(s, m) \in Nat /\ Rank(s, Len(s)) \in Nat BY <4>2, RankNext, CallersTypes, View
      <4> QED BY <4>2, <4>3, View
    <3> QED BY <2>3, <3>1
  <2>5. Frames' = Frames BY <2>1, NextState DEF Frames
  <2> QED BY <1>1, <1>2, <1>3, <2>4, <2>5 DEF Abstract!NativeOK
<1>5. CASE ip = caller.ip
  <2>1. ip' = ip + 1 /\ dsp' = caller.dsp /\ ipStack' = SubSeq(s, 1, caller.ipsp) BY <1>5 DEF NativeOK
  <2>2. caller.ipsp = Len(s) BY <1>1, <1>5, SavedByCaller
  <2>3. /\ SubSeq(s, 1, caller.ipsp) = s /\ fs = Activations(s, ip, caller.dsp)
        /\ Len(Frames) = Len(fs) /\ caller.dsp \in Int
    BY <1>1, <1>5, <2>2, SavedByCaller
  <2>4. Frames' = Activations(s, ip + 1, caller.dsp) BY <2>1, <2>3, NextState
  <2>5. Frames' = Abstract!AfterCall(fs)
    <3>1. s \in Seq(Entry) /\ ip \in Int BY View
    <3> QED BY <2>3, <2>4, <3>1, ActivationsView
  <2> QED BY <1>1, <1>2, <1>3, <2>3, <2>5 DEF Abstract!NativeOK
<1> QED BY <1>4, <1>5

\* A native that fails leaves every activation as its call saved it.
LEMMA NativeFailsStep ==
  ASSUME IInv, IInv', NEW status, NativeFails(status)
  PROVE  Abstract!NativeFails
<1>1. /\ control = "native" /\ natives' = Front(natives)
      /\ control' = IF natives' = <<>> THEN "host" ELSE "native"
      /\ ip' = caller.ip /\ dsp' = caller.dsp /\ ipStack' = SubSeq(ipStack, 1, caller.ipsp)
  BY DEF NativeFails
<1>2. Frames' = Abstract!Last(Snapshots) BY <1>1, NextState, SavedByCaller
<1>3. Snapshots' = Abstract!Front(Snapshots) BY <1>1, SnapshotsPopped
<1>4. Abstract!HandBack BY <1>1, HandsBack
<1> QED BY <1>1, <1>2, <1>3, <1>4 DEF Abstract!NativeFails

\* run() is called for an activation that was entered and has not returned.
LEMMA RunStep ==
  ASSUME IInv, IInv', Run
  PROVE  Abstract!Run
<1> DEFINE s == ipStack
<1>1. control' = "run" /\ Frames' = Frames /\ Snapshots' = Snapshots
  BY NothingMoves DEF Run, machine
<1>2. CASE control = "native"
  <2>1. CallPending BY <1>2 DEF Run
  <2>2. Abstract!EnteredSince(Abstract!Last(Snapshots)) BY <1>2, <2>1, SavedByCaller
  <2> QED BY <1>1, <1>2, <2>2 DEF Abstract!Run
<1>3. CASE control = "host"
  <2>1. s \in Seq(Entry) /\ Len(s) \in Nat /\ ip \in Int /\ dsp \in Int BY View
  <2>2. ipsp > 0 BY <1>3 DEF Run
  <2>3. ReturnsToHost(s, 2) /\ ~ReturnsToHost(s, 1)
        /\ \A j \in 1 .. Len(s) : ReturnsToHost(s, j) => ~ReturnsToHost(s, j - 1)
    BY <2>1, <2>2 DEF IInv, EntryPairs, Sentinel, ReturnsToHost, ipsp
  <2>4. 2 \in 1 .. Len(s) BY <2>3 DEF ReturnsToHost
  <2>5. (\E i \in (Rank(s, 0) + 2) .. Len(Activations(s, ip, dsp)) : Activations(s, ip, dsp)[i].entered)
          <=> \E j \in (0 + 1) .. Len(s) : ReturnsToHost(s, j)
    <3>1. 0 \in 0 .. Len(s) /\ 0 + 1 = 1 BY <2>1
    <3> HIDE DEF s
    <3> QED BY <2>1, <2>3, <3>1, EnteredAbove
  <2>6. Rank(s, 0) = 0 BY RankNext
  <2>7. \E i \in 2 .. Len(Frames) : Frames[i].entered BY <2>3, <2>4, <2>5, <2>6 DEF Frames
  <2>8. Abstract!EnteredSince(<<Abstract!Frame(0, 0, FALSE)>>)
    <3>1. Len(<<Abstract!Frame(0, 0, FALSE)>>) + 1 = 2 OBVIOUS
    <3> QED BY <2>7, <3>1 DEF Abstract!EnteredSince
  <2> QED BY <1>1, <1>3, <2>8 DEF Abstract!Run
<1> QED BY <1>2, <1>3 DEF Run

\* Every step of the processor is one of GAZLCalls, or changes nothing it knows of.
LEMMA StepImplements ==
  ASSUME IInv, IInv', Next
  PROVE  Abstract!Next \/ UNCHANGED Abstract!vars
<1> DEFINE Implements == Abstract!Next \/ UNCHANGED Abstract!vars
<1> USE DEF Abstract!Next
<1>1. ip \in Address /\ dsp \in Int BY DEF IInv, TypeOK
<1>2. ASSUME UNCHANGED <<ip, dsp, ipStack, natives, control>> PROVE Implements
  BY <1>2, NothingMoves DEF Abstract!vars
<1>3. CASE TimeOut BY <1>3, StopStep DEF TimeOut
<1>4. CASE Func
  <2>1. CASE dsp' = dsp + Code[ip].p0 /\ Continue /\ UNCHANGED ipStack
    <3>1. PICK w \in Nat : w = Code[ip].p0 BY <1>1, CodeTypes
    <3>2. dsp' = dsp + w BY <2>1, <3>1
    <3>3. dsp' >= dsp BY <1>1, <3>2
    <3> QED BY <1>4, <2>1, <3>3, WorkStep DEF Func, Execute, Continue
  <2>2. CASE Fail("DATA_STACK_OVERFLOW")
    BY <1>4, <2>2, StopStep DEF Func, Execute, Fail
  <2> QED BY <1>4, <2>1, <2>2 DEF Func
<1>5. ASSUME NEW f \in Pointers, Call(f) PROVE Implements
  <2>1. control = "run" BY <1>5 DEF Call, Execute
  <2>2. CASE Fail("BAD_CALL") \/ Fail("IP_STACK_OVERFLOW")
    BY <2>1, <2>2, StopStep DEF Fail
  <2>3. CASE /\ ipStack' = Append(ipStack, [ip |-> ip, dsp |-> dsp])
             /\ dsp' = dsp + Code[ip].p1 /\ Continue
    BY <1>5, <2>3, CallStep
  <2> QED BY <1>5, <2>2, <2>3 DEF Call
<1>6. CASE Retu BY <1>6, ReturnStep, LeaveStep
<1>7. CASE Data
  <2>1. CASE Continue /\ UNCHANGED <<dsp, ipStack>>
    <3>1. dsp' >= dsp BY <1>1, <2>1
    <3> QED BY <1>7, <2>1, <3>1, WorkStep DEF Data, Execute, Continue
  <2>2. ASSUME NEW status \in Code[ip].errors, Fail(status) PROVE Implements
    BY <1>7, <2>2, StopStep DEF Data, Execute, Fail
  <2> QED BY <1>7, <2>1, <2>2 DEF Data
<1>8. CASE Jump
  <2>1. control = "run" /\ Continue /\ UNCHANGED <<dsp, ipStack>> BY <1>8 DEF Jump, Execute
  <2>2. dsp' >= dsp BY <1>1, <2>1
  <2> QED BY <2>1, <2>2, WorkStep DEF Continue
<1>9. CASE CallNative BY <1>9, CallNativeStep
<1>10. CASE NativeReturns BY <1>10, NativeOKStep, NativeFailsStep DEF NativeReturns
<1>11. ASSUME NEW f \in Pointers,
              EnterCall(f) \/ EnterCallFails(f) \/ PushCall(f) \/ PushCallFails(f)
       PROVE  Implements
  BY <1>2, <1>11, EnterStep, PushStep DEF EnterCallFails, PushCallFails, vars, machine
<1>12. ASSUME NEW n, ResetTimeOut(n) PROVE Implements BY <1>2, <1>12 DEF ResetTimeOut
<1>13. CASE Run BY <1>13, RunStep
<1>14. CASE HostOrNative BY <1>11, <1>12, <1>13, <1>14 DEF HostOrNative
<1> QED BY <1>3, <1>4, <1>5, <1>6, <1>7, <1>8, <1>9, <1>10, <1>14 DEF Next, Step

\* A processor as constructed executes the one activation there is.
LEMMA InitImplements == Init => Abstract!Init
<1> SUFFICES ASSUME Init PROVE Abstract!Init
  OBVIOUS
<1>1. ip = 0 /\ dsp = 0 /\ ipStack = <<>> /\ natives = <<>> /\ control = "host" BY DEF Init
<1> DEFINE x == [next |-> 0, base |-> 0, entered |-> FALSE]
           f == Frames
<1>2. ipStack \in Seq(Entry) /\ Len(ipStack) = 0 BY <1>1
<1>3. ReturnsToHost(ipStack, Len(ipStack)) = FALSE BY <1>2 DEF ReturnsToHost
<1>4. Rank(ipStack, 0) = 0 BY RankNext
<1>5. Callers(ipStack) \in Seq(Activation) /\ Len(Callers(ipStack)) = 0 BY <1>2, <1>4, CallersTypes
<1>6. f = Append(Callers(ipStack), x) BY <1>1, <1>3 DEF Frames, Activations
<1>7. x \in Activation BY DEF Activation
<1>8. x = Abstract!Frame(0, 0, FALSE) BY DEF Abstract!Frame
<1> HIDE DEF x, f
<1>9. f \in Seq(Activation) /\ Len(f) = 1 /\ f[1] = x BY <1>5, <1>6, <1>7, AppendFacts
<1>10. f = <<x>>
  <2>1. <<x>> \in Seq(Activation) /\ Len(<<x>>) = 1 /\ <<x>>[1] = x BY <1>7
  <2>2. \A i \in 1 .. 1 : f[i] = <<x>>[i] BY <1>9, <2>1
  <2> QED BY <1>9, <2>1, <2>2, SeqEqual
<1>11. Snapshots = <<>> BY <1>1 DEF Snapshots
<1> QED BY <1>1, <1>8, <1>10, <1>11 DEF Abstract!Init, f

(***************************************************************************)
(* The processor keeps the promise: returns, pushes, nested runs, time     *)
(* outs and failing natives do to the two stacks what GAZLCalls says they  *)
(* do to the activations, whatever the program and however they are mixed. *)
(***************************************************************************)
THEOREM Implementation == Spec => CallsImplemented
<1>1. Init => Abstract!Init BY InitImplements
<1>2. IInv /\ [Next]_vars => [Abstract!Next]_(Abstract!vars)
  <2>1. ASSUME IInv, Next PROVE [Abstract!Next]_(Abstract!vars)
    <3>1. IInv' BY <2>1, Preserved
    <3> QED BY <2>1, <3>1, StepImplements
  <2>2. ASSUME UNCHANGED vars PROVE UNCHANGED Abstract!vars
    BY <2>2, NothingMoves DEF vars, machine, Abstract!vars
  <2> QED BY <2>1, <2>2
<1> QED BY <1>1, <1>2, Invariant, PTL DEF Spec, CallsImplemented, Abstract!Spec
=============================================================================
