---------------------------- MODULE VifTableProofs ----------------------------
(***************************************************************************)
(* Facts about the VIF table and the views taken of its listing, for every *)
(* number of slots and every set of devices.                               *)
(***************************************************************************)
EXTENDS VifTable, NatFacts, Integers, FiniteSetTheorems, FunctionTheorems, TLAPS

LEMMA MaxVifsType == MaxVifs \in Nat /\ MaxVifs >= 1 /\ MaxVifs < VifiSpan
BY VifTableAssumption DEF VifiSpan

\* The index of a VIF, and the first beyond the table, fit an unsigned short.
LEMMA NotTruncated ==
    ASSUME NEW n \in 0..MaxVifs
    PROVE  n \in Nat /\ n <= MaxVifs /\ Truncated(n) = n
<1>1. n \in Nat /\ n <= MaxVifs
  BY MaxVifsType
<1>2. n < VifiSpan
  BY <1>1, MaxVifsType DEF VifiSpan
<1>3. \A a \in Nat : a < 65536 => a % 65536 = a
  OBVIOUS
<1>4. Truncated(n) = n
  BY <1>1, <1>2, <1>3 DEF Truncated, VifiSpan
<1> QED BY <1>1, <1>4

LEMMA SlotType == Slot \subseteq Nat /\ IsFiniteSet(Slot) /\ Cardinality(Slot) = MaxVifs
<1>1. MaxVifs \in Nat /\ MaxVifs >= 1
  BY MaxVifsType
<1>2. 0 \in Int /\ MaxVifs - 1 \in Int
  BY <1>1
<1>3. /\ IsFiniteSet(0..(MaxVifs - 1))
      /\ Cardinality(0..(MaxVifs - 1)) =
            IF 0 > MaxVifs - 1 THEN 0 ELSE MaxVifs - 1 - 0 + 1
  BY <1>2, FS_Interval
<1> QED BY <1>1, <1>3 DEF Slot

LEMMA SlotsFinite ==
    ASSUME NEW S, S \subseteq Slot
    PROVE  IsFiniteSet(S) /\ Cardinality(S) \in 0..MaxVifs
<1>1. IsFiniteSet(S) /\ Cardinality(S) <= Cardinality(Slot)
  BY SlotType, FS_Subset
<1>2. Cardinality(S) \in Nat /\ MaxVifs \in Nat
  BY <1>1, FS_CardinalityType, MaxVifsType
<1> QED BY <1>1, <1>2, SlotType

\* In a set of slots there is one of each rank.
LEMMA RankExists ==
    ASSUME NEW S, S \subseteq Slot, NEW p \in 1..Cardinality(S)
    PROVE  \E i \in S : Cardinality({j \in S : j < i}) = p - 1
<1>0. \A j \in S : j \in Nat /\ j < MaxVifs
  BY MaxVifsType DEF Slot
<1> DEFINE Below(k) == {j \in S : j < k}
<1>1. \A k : IsFiniteSet(Below(k)) /\ Cardinality(Below(k)) \in Nat
  <2> TAKE k
  <2>1. Below(k) \subseteq Slot
    OBVIOUS
  <2> HIDE DEF Below
  <2> QED BY <2>1, SlotsFinite
<1> DEFINE Enough == {k \in Nat : Cardinality(Below(k)) >= p}
<1>2. Enough # {}
  <2>1. MaxVifs \in Nat
    BY MaxVifsType
  <2>2. Below(MaxVifs) = S
    BY <1>0
  <2>3. MaxVifs \in Enough
    BY <2>1, <2>2
  <2> QED BY <2>3
<1>3. PICK k \in Enough : \A m \in Enough : k <= m
  <2>1. Enough \subseteq Nat
    OBVIOUS
  <2> HIDE DEF Enough
  <2> QED BY <1>2, <2>1, LeastElement
<1>4. k # 0
  <2>1. Below(0) = {}
    BY <1>0
  <2>2. 0 \notin Enough
    BY <2>1, FS_EmptySet
  <2> QED BY <2>2
<1>5. k \in Nat /\ k - 1 \in Nat /\ Cardinality(Below(k)) >= p
  BY <1>4
<1>6. Cardinality(Below(k - 1)) < p
  <2>1. k - 1 \notin Enough
    BY <1>3, <1>5
  <2>2. Cardinality(Below(k - 1)) \in Nat
    BY <1>1
  <2> QED BY <1>5, <2>1, <2>2
<1>7. k - 1 \in S /\ Below(k) = Below(k - 1) \cup {k - 1} /\ k - 1 \notin Below(k - 1)
  <2>1. k - 1 \in S
    <3> SUFFICES ASSUME k - 1 \notin S PROVE FALSE
      OBVIOUS
    <3>1. Below(k) = Below(k - 1)
      <4>1. ASSUME NEW j \in S PROVE j < k <=> j < k - 1
        BY <1>0, <1>5
      <4> QED BY <4>1
    <3> QED BY <3>1, <1>5, <1>6, <1>1
  <2>2. Below(k) = Below(k - 1) \cup {k - 1}
    <3>1. ASSUME NEW j \in S PROVE j < k <=> j < k - 1 \/ j = k - 1
      BY <1>0, <1>5
    <3>2. k - 1 \in Below(k)
      BY <1>5, <2>1
    <3> QED BY <3>1, <3>2
  <2> QED BY <2>1, <2>2, <1>5
<1>8. Cardinality(Below(k)) = Cardinality(Below(k - 1)) + 1
  <2> HIDE DEF Below
  <2> QED BY <1>1, <1>7, FS_AddElement
<1>9. Cardinality(Below(k - 1)) = p - 1
  BY <1>1, <1>5, <1>6, <1>8
<1> QED BY <1>7, <1>9

\* list(vifs().keys()) is a list of devices, whatever holes and repetitions the
\* table has.
THEOREM NameListType ==
    ASSUME NEW tbl \in Table
    PROVE  NameList(tbl) \in Seq(Dev) /\ Len(NameList(tbl)) = NameCount(tbl)
<1>1. FirstRows(tbl) \subseteq Slot
  BY DEF FirstRows, Occupied
<1>2. NameCount(tbl) \in Nat
  BY <1>1, SlotsFinite DEF NameCount
<1>3. ASSUME NEW p \in 1..NameCount(tbl) PROVE NameList(tbl)[p] \in Dev
  <2> DEFINE Rank(i) == Cardinality(Before(tbl, i)) = p - 1
  <2>1. \E i \in FirstRows(tbl) : Rank(i)
    BY <1>1, RankExists DEF NameCount, Before
  <2> DEFINE row == CHOOSE i \in FirstRows(tbl) : Rank(i)
  <2>2. row \in FirstRows(tbl)
    BY <2>1
  <2>3. NameList(tbl)[p] = tbl[row]
    BY DEF NameList
  <2>4. tbl[row] \in Dev
    <3> HIDE DEF row
    <3> QED BY <2>2 DEF FirstRows, Occupied, Table
  <2> QED BY <2>3, <2>4
<1>4. NameList(tbl) = [p \in 1..NameCount(tbl) |-> NameList(tbl)[p]]
  BY DEF NameList
<1>5. NameList(tbl) \in [1..NameCount(tbl) -> Dev]
  BY <1>3, <1>4
<1> HIDE DEF NameList
<1> QED BY <1>2, <1>5

\* A dense table is occupied up to some slot.
LEMMA DenseSize ==
    ASSUME NEW tbl \in Table, Dense(tbl)
    PROVE  \E n \in 0..MaxVifs : Occupied(tbl) = 0..(n - 1)
<1>1. MaxVifs \in Nat /\ \A i \in Slot : i \in Nat /\ i < MaxVifs
  BY MaxVifsType DEF Slot
<1> DEFINE Free == {i \in Slot : tbl[i] = NoDev}
<1>2. CASE Free = {}
  <2>1. Occupied(tbl) = 0..(MaxVifs - 1)
    BY <1>2 DEF Occupied, Slot
  <2>2. MaxVifs \in 0..MaxVifs
    BY <1>1
  <2> QED BY <2>1, <2>2
<1>3. CASE Free # {}
  <2>1. PICK n \in Free : \A i \in Free : n <= i
    BY <1>1, <1>3, LeastElement
  <2>2. ASSUME NEW i \in Slot PROVE i < n <=> tbl[i] # NoDev
    BY <1>1, <2>1 DEF Dense, Occupied
  <2>3. n \in 0..MaxVifs /\ n \in Slot
    BY <1>1, <2>1
  <2>4. ASSUME NEW i PROVE i \in Occupied(tbl) <=> i \in 0..(n - 1)
    <3>1. i \in 0..(n - 1) => i \in Slot
      BY <2>3, <1>1 DEF Slot
    <3>2. i \in Slot => (i \in 0..(n - 1) <=> i < n)
      BY <1>1, <2>3
    <3> QED BY <3>1, <3>2, <2>2 DEF Occupied
  <2> QED BY <2>3, <2>4
<1> QED BY <1>2, <1>3

\* The number of names of a table that repeats none is the number of VIFs, and
\* its name list gives every slot's device at the slot's own position: what
\* vifi() relies on.
THEOREM RegularListing ==
    ASSUME NEW tbl \in Table, Distinct(tbl), NEW n \in 0..MaxVifs,
           Occupied(tbl) = 0..(n - 1)
    PROVE  /\ Cardinality(Names(tbl)) = n
           /\ NameList(tbl) = [p \in 1..n |-> tbl[p - 1]]
<1>1. n \in Nat /\ \A i \in 0..(n - 1) : i \in Nat /\ i \in Slot
  BY MaxVifsType DEF Slot
<1>2. IsFiniteSet(0..(n - 1)) /\ Cardinality(0..(n - 1)) = n
  <2>1. 0 \in Int /\ n - 1 \in Int
    BY <1>1
  <2>2. /\ IsFiniteSet(0..(n - 1))
        /\ Cardinality(0..(n - 1)) = IF 0 > n - 1 THEN 0 ELSE n - 1 - 0 + 1
    BY <2>1, FS_Interval
  <2> QED BY <1>1, <2>2
<1>3. Cardinality(Names(tbl)) = n
  <2> DEFINE f == [i \in 0..(n - 1) |-> tbl[i]]
  <2>1. f \in Bijection(0..(n - 1), Names(tbl))
    <3>1. f \in [0..(n - 1) -> Names(tbl)]
      BY DEF Names
    <3>2. \A i, j \in 0..(n - 1) : f[i] = f[j] => i = j
      BY DEF Distinct
    <3>3. \A d \in Names(tbl) : \E i \in 0..(n - 1) : f[i] = d
      BY DEF Names
    <3> HIDE DEF f
    <3> QED BY <3>1, <3>2, <3>3, Fun_IsBij
  <2>2. ExistsBijection(0..(n - 1), Names(tbl))
    BY <2>1 DEF ExistsBijection
  <2> QED BY <1>2, <2>2, FS_Bijection
<1>4. FirstRows(tbl) = 0..(n - 1)
  <2>1. ASSUME NEW i \in Occupied(tbl), NEW j \in Occupied(tbl), j < i
        PROVE  tbl[j] # tbl[i]
    BY <1>1, <2>1 DEF Distinct
  <2> QED BY <2>1 DEF FirstRows
<1>5. NameCount(tbl) = n
  BY <1>2, <1>4 DEF NameCount
<1>6. ASSUME NEW i \in 0..(n - 1) PROVE Cardinality(Before(tbl, i)) = i
  <2>1. i \in Nat /\ i < n
    BY <1>1
  <2>2. ASSUME NEW j PROVE j \in Before(tbl, i) <=> j \in 0..(i - 1)
    BY <1>1, <1>4, <2>1 DEF Before
  <2>3. Before(tbl, i) = 0..(i - 1)
    BY <2>2
  <2>4. 0 \in Int /\ i - 1 \in Int
    BY <2>1
  <2>5. Cardinality(0..(i - 1)) = IF 0 > i - 1 THEN 0 ELSE i - 1 - 0 + 1
    BY <2>4, FS_Interval
  <2> QED BY <2>1, <2>3, <2>5
<1>7. ASSUME NEW p \in 1..n
      PROVE  (CHOOSE i \in FirstRows(tbl) : Cardinality(Before(tbl, i)) = p - 1) = p - 1
  <2>1. p - 1 \in 0..(n - 1)
    BY <1>1
  <2>2. p - 1 \in FirstRows(tbl) /\ Cardinality(Before(tbl, p - 1)) = p - 1
    BY <2>1, <1>4, <1>6
  <2>3. \A i \in FirstRows(tbl) : Cardinality(Before(tbl, i)) = p - 1 => i = p - 1
    BY <1>4, <1>6
  <2> QED BY <2>2, <2>3
<1> DEFINE row(p) == CHOOSE i \in FirstRows(tbl) : Cardinality(Before(tbl, i)) = p - 1
<1>8. NameList(tbl) = [p \in 1..n |-> tbl[row(p)]]
  BY <1>5 DEF NameList
<1>9. \A p \in 1..n : row(p) = p - 1
  BY <1>7
<1> HIDE DEF row
<1>10. NameList(tbl) = [p \in 1..n |-> tbl[p - 1]]
  BY <1>8, <1>9
<1> QED BY <1>3, <1>10

\* Where no name is listed twice, vifs()[d].index is the slot of d.
THEOREM DistinctIndex ==
    ASSUME NEW tbl \in Table, Distinct(tbl), NEW i \in Occupied(tbl)
    PROVE  IndexOf(tbl, tbl[i]) = i
<1> DEFINE Last(j) == /\ tbl[j] = tbl[i]
                      /\ \A k \in Occupied(tbl) : tbl[k] = tbl[i] => k <= j
<1>1. i \in Nat
  BY SlotType DEF Occupied
<1>2. Last(i)
  BY <1>1 DEF Distinct
<1>3. \A j \in Occupied(tbl) : Last(j) => j = i
  BY DEF Distinct
<1>4. (CHOOSE j \in Occupied(tbl) : Last(j)) = i
  <2> HIDE DEF Last
  <2> QED BY <1>2, <1>3
<1> QED BY <1>4 DEF IndexOf

\* In a set of slots a lower one has a lower rank.
LEMMA RankGrows ==
    ASSUME NEW S, S \subseteq Slot, NEW i \in S, NEW j
    PROVE  /\ Cardinality({k \in S : k < i}) \in Nat
           /\ Cardinality({k \in S : k < i}) < Cardinality(S)
           /\ j \in S /\ i < j =>
                Cardinality({k \in S : k < i}) < Cardinality({k \in S : k < j})
<1> DEFINE below == {k \in S : k < i}
<1>1. \A k \in S : k \in Nat
  BY SlotType
<1>2. IsFiniteSet(below) /\ Cardinality(below) \in Nat /\ i \notin below
  <2>1. below \subseteq Slot /\ MaxVifs \in Nat
    BY MaxVifsType
  <2>2. i \notin below
    BY <1>1
  <2> HIDE DEF below
  <2> QED BY <2>1, <2>2, SlotsFinite
<1>3. IsFiniteSet(below \cup {i}) /\ Cardinality(below \cup {i}) = Cardinality(below) + 1
  <2> HIDE DEF below
  <2> QED BY <1>2, FS_AddElement
<1>4. ASSUME NEW T, T \subseteq S, below \cup {i} \subseteq T
      PROVE  Cardinality(below) < Cardinality(T)
  <2>1. IsFiniteSet(T) /\ Cardinality(T) \in Nat
    <3>1. T \subseteq Slot /\ MaxVifs \in Nat
      BY <1>4, MaxVifsType
    <3> QED BY <3>1, SlotsFinite
  <2>2. Cardinality(below \cup {i}) <= Cardinality(T)
    <3> HIDE DEF below
    <3> QED BY <1>4, <2>1, FS_Subset
  <2> QED BY <1>2, <1>3, <2>1, <2>2
<1>5. Cardinality(below) < Cardinality(S)
  <2>1. below \cup {i} \subseteq S
    OBVIOUS
  <2> HIDE DEF below
  <2> QED BY <1>4, <2>1
<1>6. ASSUME j \in S, i < j PROVE Cardinality(below) < Cardinality({k \in S : k < j})
  <2>1. below \cup {i} \subseteq {k \in S : k < j}
    BY <1>1, <1>6
  <2> HIDE DEF below
  <2> QED BY <1>4, <2>1
<1> QED BY <1>2, <1>5, <1>6

\* The first VIF of each device is listed, at the position after its rank among
\* the rows listed.
LEMMA RowListed ==
    ASSUME NEW tbl \in Table, NEW i \in FirstRows(tbl)
    PROVE  /\ Cardinality(Before(tbl, i)) + 1 \in DOMAIN NameList(tbl)
           /\ NameList(tbl)[Cardinality(Before(tbl, i)) + 1] = tbl[i]
<1>1. FirstRows(tbl) \subseteq Slot
  BY DEF FirstRows, Occupied
<1> DEFINE rank == Cardinality(Before(tbl, i))
<1>2. rank \in Nat /\ rank < NameCount(tbl)
  BY <1>1, RankGrows DEF NameCount, Before
<1>3. \A j \in FirstRows(tbl) : Cardinality(Before(tbl, j)) = rank => j = i
  <2> SUFFICES ASSUME NEW j \in FirstRows(tbl), j # i
               PROVE  Cardinality(Before(tbl, j)) # rank
    OBVIOUS
  <2>1. i \in Nat /\ j \in Nat
    BY <1>1, SlotType
  <2>2. rank \in Nat /\ Cardinality(Before(tbl, j)) \in Nat
    BY <1>1, RankGrows DEF Before
  <2>3. CASE i < j
    <3>1. rank < Cardinality(Before(tbl, j))
      BY <1>1, <2>3, RankGrows DEF Before
    <3> QED BY <2>2, <3>1
  <2>4. CASE j < i
    <3>1. Cardinality(Before(tbl, j)) < rank
      BY <1>1, <2>4, RankGrows DEF Before
    <3> QED BY <2>2, <3>1
  <2>5. i < j \/ j < i
    BY <2>1
  <2> QED BY <2>3, <2>4, <2>5
<1>4. NameCount(tbl) \in Nat
  BY <1>1, SlotsFinite DEF NameCount
<1>5. PICK p : p = rank + 1
  OBVIOUS
<1>6. p \in 1..NameCount(tbl) /\ p - 1 = rank
  <2>1. \A m, n \in Nat : m < n => m + 1 \in 1..n /\ m + 1 - 1 = m
    OBVIOUS
  <2> QED BY <1>2, <1>4, <1>5, <2>1
<1> DEFINE Ranked(j) == Cardinality(Before(tbl, j)) = p - 1
           row == CHOOSE j \in FirstRows(tbl) : Ranked(j)
<1>7. row = i
  <2>1. Ranked(i) /\ \A j \in FirstRows(tbl) : Ranked(j) => j = i
    BY <1>3, <1>6
  <2> HIDE DEF Ranked
  <2> QED BY <2>1
<1>8. NameList(tbl)[p] = tbl[row] /\ p \in DOMAIN NameList(tbl)
  BY <1>6 DEF NameList
<1> HIDE DEF row
<1> QED BY <1>5, <1>7, <1>8

\* Every device of the table is in the list of names, whatever holes and
\* repetitions the table has.
THEOREM NameListComplete ==
    ASSUME NEW tbl \in Table, NEW d \in Names(tbl)
    PROVE  \E p \in DOMAIN NameList(tbl) : NameList(tbl)[p] = d
<1> DEFINE Rows == {i \in Occupied(tbl) : tbl[i] = d}
<1>1. Rows \subseteq Nat /\ Rows # {}
  BY SlotType DEF Names, Occupied
<1>2. PICK i \in Rows : \A j \in Rows : i <= j
  <2> HIDE DEF Rows
  <2> QED BY <1>1, LeastElement
<1>3. i \in FirstRows(tbl) /\ tbl[i] = d
  <2>1. ASSUME NEW j \in Occupied(tbl), j < i PROVE tbl[j] # tbl[i]
    BY <1>1, <1>2, <2>1, SlotType DEF Occupied
  <2> QED BY <1>2, <2>1 DEF FirstRows
<1> QED BY <1>3, RowListed

\* Up to the first hole or repetition the position of a name in the list is the
\* slot of its VIF, whatever the table has above.
THEOREM PrefixListing ==
    ASSUME NEW tbl \in Table, NEW i \in Slot, RegularUpTo(tbl, i)
    PROVE  i + 1 \in DOMAIN NameList(tbl) /\ NameList(tbl)[i + 1] = tbl[i]
<1>1. i \in Nat /\ \A j \in Occupied(tbl) : j \in Nat
  BY SlotType DEF Occupied
<1>2. ASSUME NEW j \in 0..i PROVE j \in FirstRows(tbl)
  <2>1. ASSUME NEW k \in Occupied(tbl), k < j PROVE tbl[k] # tbl[j]
    <3>1. k \in Nat /\ j \in Nat /\ j <= i
      BY <1>1
    <3>2. k \in 0..i /\ k # j
      BY <1>1, <2>1, <3>1
    <3> QED BY <3>2 DEF RegularUpTo
  <2> QED BY <2>1 DEF FirstRows, RegularUpTo
<1>3. ASSUME NEW j PROVE j \in Before(tbl, i) <=> j \in 0..(i - 1)
  <2>1. j \in 0..(i - 1) => j \in 0..i /\ j < i
    BY <1>1
  <2>2. j \in FirstRows(tbl) /\ j < i => j \in 0..(i - 1)
    BY <1>1 DEF FirstRows
  <2> QED BY <1>2, <2>1, <2>2 DEF Before
<1>4. Before(tbl, i) = 0..(i - 1)
  BY <1>3
<1>5. Cardinality(0..(i - 1)) = i
  <2>1. 0 \in Int /\ i - 1 \in Int
    BY <1>1
  <2>2. Cardinality(0..(i - 1)) = IF 0 > i - 1 THEN 0 ELSE i - 1 - 0 + 1
    BY <2>1, FS_Interval
  <2> QED BY <1>1, <2>2
<1>6. i \in 0..i
  BY <1>1
<1> QED BY <1>2, <1>4, <1>5, <1>6, RowListed

\* A table has no more names than slots below the first that has none in use
\* above it.
LEMMA NamesBelow ==
    ASSUME NEW tbl \in Table, NEW h \in Slot, \A i \in Occupied(tbl) : i < h
    PROVE  Cardinality(Names(tbl)) \in 0..h
<1>1. h \in Nat /\ Occupied(tbl) \subseteq Slot /\ \A i \in Occupied(tbl) : i \in Nat
  BY SlotType DEF Occupied
<1>2. Occupied(tbl) \subseteq 0..(h - 1)
  BY <1>1
<1>3. IsFiniteSet(0..(h - 1)) /\ Cardinality(0..(h - 1)) = h
  <2>1. 0 \in Int /\ h - 1 \in Int
    BY <1>1
  <2>2. /\ IsFiniteSet(0..(h - 1))
        /\ Cardinality(0..(h - 1)) = IF 0 > h - 1 THEN 0 ELSE h - 1 - 0 + 1
    BY <2>1, FS_Interval
  <2> QED BY <1>1, <2>2
<1>4. IsFiniteSet(Occupied(tbl)) /\ Cardinality(Occupied(tbl)) <= h
  BY <1>2, <1>3, FS_Subset
<1> DEFINE device == [i \in Occupied(tbl) |-> tbl[i]]
<1>5. device \in Surjection(Occupied(tbl), Names(tbl))
  BY DEF Surjection, Names
<1>6. IsFiniteSet(Names(tbl)) /\ Cardinality(Names(tbl)) <= Cardinality(Occupied(tbl))
  <2> HIDE DEF device
  <2> QED BY <1>4, <1>5, FS_Surjection
<1>7. Cardinality(Names(tbl)) \in Nat /\ Cardinality(Occupied(tbl)) \in Nat
  BY <1>4, <1>6, FS_CardinalityType
<1> QED BY <1>1, <1>4, <1>6, <1>7

\* vifs()[d].index is the slot of a VIF on d, if need be of the last one.
THEOREM IndexOfNamed ==
    ASSUME NEW tbl \in Table, NEW d \in Names(tbl)
    PROVE  IndexOf(tbl, d) \in Occupied(tbl) /\ tbl[IndexOf(tbl, d)] = d
<1> DEFINE Rows == {i \in Occupied(tbl) : tbl[i] = d}
           Heights == {MaxVifs - i : i \in Rows}
<1>1. \A i \in Rows : i \in Nat /\ i < MaxVifs
  BY MaxVifsType DEF Occupied, Slot
<1>2. MaxVifs \in Nat
  BY MaxVifsType
<1>3. Heights \subseteq Nat /\ Heights # {}
  <2>1. Rows # {}
    BY DEF Names
  <2> HIDE DEF Rows
  <2> QED BY <1>1, <1>2, <2>1
<1>4. PICK h \in Heights : \A k \in Heights : h <= k
  <2> HIDE DEF Heights
  <2> QED BY <1>3, LeastElement
<1>5. PICK i \in Rows : h = MaxVifs - i
  BY <1>4
<1> DEFINE Last(j) == tbl[j] = d /\ \A k \in Occupied(tbl) : tbl[k] = d => k <= j
<1>6. Last(i) /\ i \in Occupied(tbl)
  <2>1. ASSUME NEW k \in Rows PROVE k <= i
    <3>1. h <= MaxVifs - k
      BY <1>4
    <3> QED BY <1>1, <1>2, <1>5, <3>1
  <2> QED BY <2>1
<1> DEFINE last == CHOOSE j \in Occupied(tbl) : Last(j)
<1>7. last \in Occupied(tbl) /\ Last(last)
  <2> HIDE DEF Last
  <2> QED BY <1>6
<1>8. IndexOf(tbl, d) = last
  BY DEF IndexOf
<1>9. tbl[last] = d
  BY <1>7
<1> HIDE DEF last
<1> QED BY <1>7, <1>8, <1>9
===============================================================================
