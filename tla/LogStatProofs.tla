---------------------------- MODULE LogStatProofs ----------------------------
(***************************************************************************)
(* Theorems about the log statistics, for any number of files and threads, *)
(* any capacity and any logs: the containers stay sorted, bounded and      *)
(* without a key held twice, their capacity comes back after every merge,  *)
(* the files are dealt out without a gap or an overlap, the total is the   *)
(* sum over all lines, and the containers count no line twice and, when    *)
(* there is room, every line once.                                         *)
(*                                                                         *)
(* A sum over lines is the size of a set with an element for every byte,   *)
(* or hit, of a line: that it adds up over disjoint sets of lines is a     *)
(* fact about finite sets, and needs no induction.                         *)
(***************************************************************************)
EXTENDS LogStat, TLAPS, FiniteSetTheorems, WellFoundedInduction, FunctionTheorems, SequenceTheorems

----------------------------------------------------------------------------
(* Least and greatest numbers *)

\* A set of naturals that is not empty has a least element: the order of the
\* naturals is well-founded.
LEMMA LeastNatural ==
    ASSUME NEW S \in SUBSET Nat, S # {}
    PROVE  \E n \in S : \A m \in S : n <= m
<1> DEFINE Less == {p \in Nat \X Nat : p[1] < p[2]}
<1>1. IsWellFoundedOn(Less, Nat)
  BY NatLessThanWellFounded, Zenon DEF OpToRel
<1>2. PICK n \in S : \A m \in S : ~ (<<m, n>> \in Less)
  <2> HIDE DEF Less
  <2> QED
    BY <1>1, WFMin
<1>3. ASSUME NEW m \in S
      PROVE  n <= m
  <2>1. ~ (m < n)
    BY <1>2
  <2> QED
    BY <2>1
<1> QED
  BY <1>3

\* A set of naturals with an upper bound has a greatest element.
LEMMA GreatestNatural ==
    ASSUME NEW S \in SUBSET Nat, S # {}, NEW b \in Nat, \A n \in S : n <= b
    PROVE  \E n \in S : \A m \in S : m <= n
<1> DEFINE Below == {b - n : n \in S}
<1>1. Below \in SUBSET Nat /\ Below # {}
  <2>1. \A n \in S : b - n \in Nat
    OBVIOUS
  <2> QED
    BY <2>1
<1>2. PICK n \in S : \A m \in S : b - n <= b - m
  <2> HIDE DEF Below
  <2>1. PICK x \in Below : \A y \in Below : x <= y
    BY <1>1, LeastNatural
  <2> QED
    BY <2>1 DEF Below
<1>3. \A m \in S : m <= n
  BY <1>2
<1> QED
  BY <1>3

----------------------------------------------------------------------------
(* Counting *)

\* A set of the first numbers is as long as its cardinality says.
LEMMA InitialPart ==
    ASSUME NEW n \in Nat, NEW S \in SUBSET (1 .. n),
           \A i \in S : \A j \in 1 .. i : j \in S
    PROVE  Cardinality(S) \in 0 .. n /\ S = 1 .. Cardinality(S)
<1>1. CASE S = {}
  <2>1. Cardinality(S) = 0
    BY <1>1, FS_EmptySet
  <2> QED
    BY <1>1, <2>1
<1>2. CASE S # {}
  <2>1. S \in SUBSET Nat /\ \A i \in S : i <= n
    OBVIOUS
  <2>2. PICK m \in S : \A i \in S : i <= m
    BY <1>2, <2>1, GreatestNatural
  <2>3. S = 1 .. m
    <3>1. m \in Nat /\ \A i \in S : i \in Nat /\ 1 <= i /\ i <= m
      BY <2>2
    <3>2. \A i \in 1 .. m : i \in S
      BY <2>2
    <3>3. \A i \in S : i \in 1 .. m
      BY <3>1
    <3> QED
      BY <3>2, <3>3
  <2>4. Cardinality(S) = m
    BY <2>1, <2>3, FS_Interval
  <2> QED
    BY <2>3, <2>4
<1> QED
  BY <1>1, <1>2

----------------------------------------------------------------------------
(* The operations of a container *)

Items(K) == [key : K, value : Int]

LEMMA ItemType ==
    ASSUME NEW K, NEW seq \in Seq(Items(K)), NEW i \in DOMAIN seq
    PROVE  seq[i] \in Items(K) /\ seq[i].key \in K /\ seq[i].value \in Int
<1>1. i \in 1 .. Len(seq)
  BY LenProperties
<1>2. seq[i] \in Items(K)
  BY <1>1, ElementOfSeq
<1> QED
  BY <1>2 DEF Items

LEMMA WrappedType ==
    ASSUME NEW v \in Int
    PROVE  Wrapped(v) \in Int
  BY IntMaxAssumption DEF Wrapped

\* The items that come before item i in the sorted list.
Before(seq, i) ==
    {j \in DOMAIN seq :
        \/ seq[j].value > seq[i].value
        \/ seq[j].value = seq[i].value /\ j < i}

\* The places that the sort gives are places of the list, and the order of
\* places is the order of values.
LEMMA PlaceOrder ==
    ASSUME NEW K, NEW seq \in Seq(Items(K)), NEW i \in DOMAIN seq
    PROVE  /\ Place(seq, i) \in DOMAIN seq
           /\ \A j \in Before(seq, i) : Place(seq, j) < Place(seq, i)
<1> DEFINE n == Len(seq)
<1>1. n \in Nat /\ DOMAIN seq = 1 .. n /\ IsFiniteSet(DOMAIN seq) /\ Cardinality(DOMAIN seq) = n
  BY LenProperties, FS_Interval
<1> HIDE DEF n
<1>2. ASSUME NEW k \in DOMAIN seq
      PROVE  /\ IsFiniteSet(Before(seq, k)) /\ Cardinality(Before(seq, k)) \in Nat
             /\ Before(seq, k) \subseteq DOMAIN seq \ {k}
             /\ Place(seq, k) = 1 + Cardinality(Before(seq, k))
  <2>1. Before(seq, k) \subseteq DOMAIN seq \ {k}
    BY <1>1, ItemType DEF Before
  <2>2. IsFiniteSet(Before(seq, k))
    BY <1>1, <2>1, FS_Subset
  <2> QED
    BY <2>1, <2>2, FS_CardinalityType DEF Place, Before
<1>3. Place(seq, i) \in DOMAIN seq
  <2>1. IsFiniteSet(DOMAIN seq \ {i}) /\ Cardinality(DOMAIN seq \ {i}) = n - 1
    BY <1>1, FS_RemoveElement
  <2>2. Cardinality(Before(seq, i)) <= n - 1
    BY <1>2, <2>1, FS_Subset
  <2> QED
    BY <1>1, <1>2, <2>2
<1>4. ASSUME NEW j \in Before(seq, i)
      PROVE  Place(seq, j) < Place(seq, i)
  <2>1. j \in DOMAIN seq
    BY DEF Before
  <2>2. ASSUME NEW k \in Before(seq, j)
        PROVE  k \in Before(seq, i)
    <3>1. k \in DOMAIN seq
      BY DEF Before
    <3>2. /\ seq[i].value \in Int /\ seq[j].value \in Int /\ seq[k].value \in Int
          /\ i \in Nat /\ j \in Nat /\ k \in Nat
      BY <1>1, <2>1, <3>1, ItemType
    <3> QED
      BY <3>1, <3>2 DEF Before
  <2>3. Before(seq, j) \subseteq Before(seq, i) /\ j \notin Before(seq, j)
    BY <1>2, <2>1, <2>2
  <2>4. /\ Cardinality(Before(seq, j)) <= Cardinality(Before(seq, i))
        /\ Cardinality(Before(seq, j)) # Cardinality(Before(seq, i))
    BY <1>2, <2>3, FS_Subset
  <2> QED
    BY <1>2, <2>1, <2>4
<1> QED
  BY <1>3, <1>4

LEMMA PlacesDiffer ==
    ASSUME NEW K, NEW seq \in Seq(Items(K)), NEW i \in DOMAIN seq, NEW j \in DOMAIN seq,
           Place(seq, i) = Place(seq, j)
    PROVE  i = j
<1>1. /\ seq[i].value \in Int /\ seq[j].value \in Int
      /\ i \in Nat /\ j \in Nat
  BY ItemType, LenProperties
<1>2. i # j => i \in Before(seq, j) \/ j \in Before(seq, i)
  BY <1>1 DEF Before
<1>3. Place(seq, i) \in Nat /\ Place(seq, j) \in Nat
  BY PlaceOrder, LenProperties
<1> QED
  BY <1>2, <1>3, PlaceOrder

\* Every place is given to one item: the sorted list is a permutation.
LEMMA PlaceTaken ==
    ASSUME NEW K, NEW seq \in Seq(Items(K)), NEW p \in DOMAIN seq
    PROVE  \E i \in DOMAIN seq : Place(seq, i) = p
<1> DEFINE D == DOMAIN seq
           f == [i \in D |-> Place(seq, i)]
<1>1. IsFiniteSet(D)
  BY LenProperties, FS_Interval
<1>2. f \in [D -> D]
  BY PlaceOrder
<1>3. \A i, j \in D : f[i] = f[j] => i = j
  BY PlacesDiffer
<1> HIDE DEF D, f
<1>4. f \in Injection(D, D)
  BY <1>2, <1>3, Fun_IsInj
<1>5. f \in Surjection(D, D)
  BY <1>1, <1>4, FS_Injection
<1>6. \E i \in D : f[i] = p
  BY <1>5, Fun_SurjectionProperties DEF D
<1> QED
  BY <1>6 DEF D, f

\* g_slist_sort: the same items, larger values first.
LEMMA SortedList ==
    ASSUME NEW K, NEW seq \in Seq(Items(K))
    PROVE  /\ Sorted(seq) \in Seq(Items(K))
           /\ Descending(Sorted(seq))
           /\ DistinctKeys(seq) => DistinctKeys(Sorted(seq))
           /\ DOMAIN Sorted(seq) = DOMAIN seq
           /\ \A p \in DOMAIN seq : \E i \in DOMAIN seq : Sorted(seq)[p] = seq[i]
           /\ \A i \in DOMAIN seq : \E p \in DOMAIN seq : Sorted(seq)[p] = seq[i]
<1> DEFINE At(p) == CHOOSE i \in DOMAIN seq : Place(seq, i) = p
<1>1. ASSUME NEW p \in DOMAIN seq
      PROVE  At(p) \in DOMAIN seq /\ Place(seq, At(p)) = p
  BY PlaceTaken
<1>2. Sorted(seq) = [p \in DOMAIN seq |-> seq[At(p)]]
  BY DEF Sorted
<1> HIDE DEF At
<1>3. DOMAIN Sorted(seq) = DOMAIN seq /\ \A p \in DOMAIN seq : Sorted(seq)[p] = seq[At(p)]
  BY <1>2
<1>4. Sorted(seq) \in Seq(Items(K))
  <2>1. DOMAIN seq = 1 .. Len(seq) /\ Len(seq) \in Nat
    BY LenProperties
  <2>2. \A p \in 1 .. Len(seq) : seq[At(p)] \in Items(K)
    BY <1>1, <2>1, ItemType
  <2> QED
    BY <1>2, <2>1, <2>2
<1>5. ASSUME NEW p \in DOMAIN seq, NEW q \in DOMAIN seq, p < q
      PROVE  seq[At(p)].value >= seq[At(q)].value
  <2>1. /\ seq[At(p)].value \in Int /\ seq[At(q)].value \in Int
        /\ p \in Nat /\ q \in Nat
    BY <1>1, ItemType, LenProperties
  <2>2. At(q) \notin Before(seq, At(p))
    BY <1>1, <1>5, <2>1, PlaceOrder
  <2> QED
    BY <1>1, <2>1, <2>2 DEF Before
<1>6. Descending(Sorted(seq))
  BY <1>3, <1>5 DEF Descending
<1>7. DistinctKeys(seq) => DistinctKeys(Sorted(seq))
  BY <1>1, <1>3 DEF DistinctKeys
<1>8. ASSUME NEW i \in DOMAIN seq
      PROVE  \E p \in DOMAIN seq : Sorted(seq)[p] = seq[i]
  <2>1. Place(seq, i) \in DOMAIN seq
    BY PlaceOrder
  <2>2. At(Place(seq, i)) = i
    BY <1>1, <2>1, PlacesDiffer
  <2> QED
    BY <1>3, <2>1, <2>2
<1> QED
  BY <1>1, <1>3, <1>4, <1>6, <1>7, <1>8

\* Every item of a list that was inserted into is the new one or an old one.
LEMMA InsertedItems ==
    ASSUME NEW K, NEW seq \in Seq(Items(K)), NEW item \in Items(K)
    PROVE  \E m \in 0 .. Len(seq) :
             /\ \A i \in DOMAIN seq : i <= m <=> \A j \in 1 .. i : seq[j].value > item.value
             /\ InsertSorted(seq, item) \in Seq(Items(K))
             /\ Len(InsertSorted(seq, item)) = Len(seq) + 1
             /\ \A i \in 1 .. Len(seq) + 1 :
                   InsertSorted(seq, item)[i] =
                       IF i <= m THEN seq[i] ELSE IF i = m + 1 THEN item ELSE seq[i - 1]
<1> DEFINE n == Len(seq)
           L == {i \in DOMAIN seq : \A j \in 1 .. i : seq[j].value > item.value}
           m == Cardinality(L)
           front == SubSeq(seq, 1, m)
           back == SubSeq(seq, m + 1, n)
<1>1. n \in Nat /\ DOMAIN seq = 1 .. n
  BY LenProperties
<1>2. L \in SUBSET (1 .. n) /\ \A i \in L : \A j \in 1 .. i : j \in L
  <2>1. L \subseteq 1 .. n
    BY <1>1
  <2>2. ASSUME NEW i \in L, NEW j \in 1 .. i
        PROVE  j \in L
    <3>1. i \in 1 .. n
      BY <2>1
    <3>2. j \in 1 .. n /\ 1 .. j \subseteq 1 .. i
      BY <1>1, <3>1
    <3> QED
      BY <1>1, <3>2
  <2> QED
    BY <2>1, <2>2
<1>3. m \in 0 .. n /\ L = 1 .. m
  <2> HIDE DEF L, n
  <2> QED
    BY <1>1, <1>2, InitialPart
<1>4. \A i \in DOMAIN seq : i <= m <=> \A j \in 1 .. i : seq[j].value > item.value
  <2> HIDE DEF m
  <2> QED
    BY <1>1, <1>3
<1>5. InsertSorted(seq, item) = front \o <<item>> \o back
  BY DEF InsertSorted
<1> HIDE DEF L, m, n
<1>6. front \in Seq(Items(K)) /\ Len(front) = m /\ \A i \in 1 .. m : front[i] = seq[i]
  <2>1. \A i \in 1 .. m : seq[i] \in Items(K)
    BY <1>1, <1>3, ItemType
  <2>2. m \in Int /\ 1 \in Int
    BY <1>3
  <2> QED
    BY <1>3, <2>1, <2>2, SubSeqProperties
<1>7. /\ back \in Seq(Items(K)) /\ Len(back) = n - m
      /\ \A i \in 1 .. n - m : back[i] = seq[m + i]
  <2>1. \A i \in m + 1 .. n : seq[i] \in Items(K)
    BY <1>1, <1>3, ItemType
  <2>2. m + 1 \in Int /\ n \in Int
    BY <1>1, <1>3
  <2>3. /\ back \in Seq(Items(K))
        /\ Len(back) = IF m + 1 <= n THEN n - (m + 1) + 1 ELSE 0
        /\ \A i \in 1 .. n - (m + 1) + 1 : back[i] = seq[m + 1 + i - 1]
    BY <2>1, <2>2, SubSeqProperties
  <2> QED
    BY <1>1, <1>3, <2>3
<1> HIDE DEF front, back
<1>8. /\ front \o <<item>> \in Seq(Items(K)) /\ Len(front \o <<item>>) = m + 1
      /\ \A i \in 1 .. m + 1 : (front \o <<item>>)[i] = IF i <= m THEN seq[i] ELSE item
  <2>1. <<item>> \in Seq(Items(K)) /\ Len(<<item>>) = 1 /\ <<item>>[1] = item
    OBVIOUS
  <2>2. /\ front \o <<item>> \in Seq(Items(K)) /\ Len(front \o <<item>>) = Len(front) + 1
        /\ \A i \in 1 .. Len(front) + 1 :
              (front \o <<item>>)[i] = IF i <= Len(front) THEN front[i] ELSE <<item>>[i - Len(front)]
    BY <1>6, <2>1, ConcatProperties
  <2> QED
    BY <1>3, <1>6, <2>1, <2>2
<1>9. /\ InsertSorted(seq, item) \in Seq(Items(K))
      /\ Len(InsertSorted(seq, item)) = n + 1
      /\ \A i \in 1 .. n + 1 :
            InsertSorted(seq, item)[i] =
                IF i <= m + 1 THEN (front \o <<item>>)[i] ELSE back[i - (m + 1)]
  <2> DEFINE most == front \o <<item>>
  <2>1. most \in Seq(Items(K)) /\ Len(most) = m + 1
    BY <1>8
  <2>2. InsertSorted(seq, item) = most \o back
    BY <1>5
  <2> HIDE DEF most
  <2>3. /\ most \o back \in Seq(Items(K)) /\ Len(most \o back) = Len(most) + Len(back)
        /\ \A i \in 1 .. Len(most) + Len(back) :
              (most \o back)[i] = IF i <= Len(most) THEN most[i] ELSE back[i - Len(most)]
    BY <1>7, <2>1, ConcatProperties
  <2>4. Len(most) + Len(back) = n + 1
    BY <1>1, <1>3, <1>7, <2>1
  <2>5. /\ InsertSorted(seq, item) \in Seq(Items(K))
        /\ Len(InsertSorted(seq, item)) = n + 1
        /\ \A i \in 1 .. n + 1 :
              InsertSorted(seq, item)[i] = IF i <= m + 1 THEN most[i] ELSE back[i - (m + 1)]
    BY <2>1, <2>2, <2>3, <2>4
  <2> QED
    BY <2>5 DEF most
<1>10. ASSUME NEW i \in 1 .. n + 1
       PROVE  InsertSorted(seq, item)[i] =
                  IF i <= m THEN seq[i] ELSE IF i = m + 1 THEN item ELSE seq[i - 1]
  <2>1. CASE i <= m + 1
    <3>1. InsertSorted(seq, item)[i] = (front \o <<item>>)[i]
      BY <1>9, <2>1
    <3>2. i \in 1 .. m + 1
      BY <1>3, <2>1
    <3>3. (front \o <<item>>)[i] = IF i <= m THEN seq[i] ELSE item
      BY <1>8, <3>2
    <3>4. i <= m \/ (i = m + 1 /\ ~ (i <= m))
      <4>1. m \in Nat /\ i \in Nat
        BY <1>1, <1>3
      <4> QED
        BY <2>1, <4>1
    <3> QED
      BY <3>1, <3>3, <3>4
  <2>2. CASE i > m + 1
    <3>1. InsertSorted(seq, item)[i] = back[i - (m + 1)]
      BY <1>3, <1>9, <2>2
    <3>2. i - (m + 1) \in 1 .. n - m
      BY <1>1, <1>3, <2>2
    <3>3. back[i - (m + 1)] = seq[m + (i - (m + 1))] /\ m + (i - (m + 1)) = i - 1
      BY <1>1, <1>3, <1>7, <3>2
    <3> QED
      BY <1>3, <2>2, <3>1, <3>3
  <2> QED
    BY <1>3, <2>1, <2>2
<1> QED
  BY <1>3, <1>4, <1>9, <1>10 DEF n

\* g_slist_insert_sorted keeps the order, and the keys apart if the new one
\* is new.
LEMMA InsertedList ==
    ASSUME NEW K, NEW seq \in Seq(Items(K)), NEW item \in Items(K),
           Descending(seq), DistinctKeys(seq), item.key \notin Keys(seq)
    PROVE  /\ InsertSorted(seq, item) \in Seq(Items(K))
           /\ Descending(InsertSorted(seq, item))
           /\ DistinctKeys(InsertSorted(seq, item))
<1> DEFINE n == Len(seq)
           new == InsertSorted(seq, item)
<1>1. PICK m \in 0 .. n :
        /\ \A i \in DOMAIN seq : i <= m <=> \A j \in 1 .. i : seq[j].value > item.value
        /\ new \in Seq(Items(K))
        /\ Len(new) = n + 1
        /\ \A i \in 1 .. n + 1 :
              new[i] = IF i <= m THEN seq[i] ELSE IF i = m + 1 THEN item ELSE seq[i - 1]
  BY InsertedItems
<1>2. n \in Nat /\ m \in Nat /\ DOMAIN seq = 1 .. n
  BY LenProperties
<1>3. DOMAIN new = 1 .. n + 1
  BY <1>1, LenProperties
<1>4. \A i \in 1 .. n : seq[i].value \in Int
  BY <1>2, ItemType
<1>5. item.value \in Int
  BY DEF Items
<1> HIDE DEF new, n
<1>6. ASSUME NEW i \in 1 .. n
      PROVE  /\ i <= m => seq[i].value > item.value
             /\ i > m => item.value >= seq[i].value
  <2>1. i <= m => seq[i].value > item.value
    BY <1>1, <1>2
  <2>2. CASE i > m
    <3>1. PICK j \in 1 .. i : ~ (seq[j].value > item.value)
      <4>1. i \in DOMAIN seq /\ ~ (i <= m)
        BY <1>2, <2>2
      <4> QED
        BY <1>1, <4>1
    <3>2. j \in 1 .. n /\ j <= i
      BY <1>2, <3>1
    <3>3. seq[j].value >= seq[i].value
      BY <1>2, <1>4, <3>2 DEF Descending
    <3> QED
      BY <1>4, <1>5, <2>2, <3>1, <3>2, <3>3
  <2> QED
    BY <1>2, <2>1, <2>2
<1>7. Descending(new)
  <2> SUFFICES ASSUME NEW i \in 1 .. n + 1, NEW j \in 1 .. n + 1, i < j
               PROVE  new[i].value >= new[j].value
    BY <1>3 DEF Descending
  <2>1. \A k, l \in 1 .. n : k < l => seq[k].value >= seq[l].value
    BY <1>2 DEF Descending
  <2>2. CASE j <= m
    BY <1>1, <1>2, <2>1, <2>2
  <2>3. CASE j = m + 1
    BY <1>1, <1>2, <1>4, <1>5, <1>6, <2>3
  <2>4. CASE j > m + 1 /\ i <= m
    BY <1>1, <1>2, <2>1, <2>4
  <2>5. CASE j > m + 1 /\ i = m + 1
    BY <1>1, <1>2, <1>6, <2>5
  <2>6. CASE j > m + 1 /\ i > m + 1
    BY <1>1, <1>2, <2>1, <2>6
  <2> QED
    BY <1>2, <2>2, <2>3, <2>4, <2>5, <2>6
<1>8. DistinctKeys(new)
  <2> SUFFICES ASSUME NEW i \in 1 .. n + 1, NEW j \in 1 .. n + 1, i < j
               PROVE  new[i].key # new[j].key
    BY <1>2, <1>3 DEF DistinctKeys
  <2>1. \A k \in 1 .. n : seq[k].key # item.key
    BY <1>2 DEF Keys
  <2>2. \A k, l \in 1 .. n : seq[k].key = seq[l].key => k = l
    BY <1>2 DEF DistinctKeys
  <2>3. CASE j <= m
    BY <1>1, <1>2, <2>2, <2>3
  <2>4. CASE j = m + 1
    BY <1>1, <1>2, <2>1, <2>4
  <2>5. CASE j > m + 1 /\ i <= m
    BY <1>1, <1>2, <2>2, <2>5
  <2>6. CASE j > m + 1 /\ i = m + 1
    BY <1>1, <1>2, <2>1, <2>6
  <2>7. CASE j > m + 1 /\ i > m + 1
    BY <1>1, <1>2, <2>2, <2>7
  <2> QED
    BY <1>2, <2>3, <2>4, <2>5, <2>6, <2>7
<1> QED
  BY <1>1, <1>7, <1>8 DEF new

\* An item for the key is there: its value grows and the list is sorted again.
LEMMA GrownItem ==
    ASSUME NEW K, NEW seq \in Seq(Items(K)), NEW key \in K, NEW value \in Int,
           DistinctKeys(seq), key \in Keys(seq)
    PROVE  \E grown \in Seq(Items(K)) : \E i \in DOMAIN seq :
              /\ AddItem(seq, key, value) = Sorted(grown)
              /\ seq[i].key = key /\ DOMAIN grown = DOMAIN seq
              /\ grown[i].key = key /\ grown[i].value = Wrapped(seq[i].value + value)
              /\ \A j \in DOMAIN seq \ {i} : grown[j] = seq[j]
<1> DEFINE First(i) == seq[i].key = key /\ \A j \in 1 .. i - 1 : seq[j].key # key
           i == CHOOSE i \in DOMAIN seq : First(i)
           grown == [seq EXCEPT ![i].value = Wrapped(@ + value)]
           e == [seq[i] EXCEPT !.value = Wrapped(seq[i].value + value)]
<1>1. i \in DOMAIN seq /\ seq[i].key = key
  <2>1. PICK k \in DOMAIN seq : seq[k].key = key
    BY DEF Keys
  <2>2. k \in DOMAIN seq /\ First(k)
    <3>1. k \in 1 .. Len(seq) /\ Len(seq) \in Nat
      BY LenProperties
    <3>2. \A j \in 1 .. k - 1 : j \in DOMAIN seq /\ j # k
      BY <3>1, LenProperties
    <3> QED
      BY <2>1, <3>2 DEF DistinctKeys
  <2>3. i \in DOMAIN seq /\ First(i)
    <3> HIDE DEF First
    <3> QED
      BY <2>2
  <2> QED
    BY <2>3
<1>2. AddItem(seq, key, value) = Sorted(grown)
  BY DEF AddItem
<1> HIDE DEF i
<1>3. e \in Items(K) /\ e.key = seq[i].key /\ e.value = Wrapped(seq[i].value + value)
  <2>1. seq[i] \in Items(K) /\ seq[i].value \in Int
    BY <1>1, ItemType
  <2>2. Wrapped(seq[i].value + value) \in Int
    BY <2>1, WrappedType
  <2> QED
    BY <2>1, <2>2 DEF Items
<1>4. grown = [seq EXCEPT ![i] = e]
  OBVIOUS
<1> HIDE DEF e, grown
<1>5. i \in 1 .. Len(seq) /\ DOMAIN seq = 1 .. Len(seq)
  BY <1>1, LenProperties
<1>6. /\ grown \in Seq(Items(K)) /\ Len(grown) = Len(seq)
      /\ \A j \in 1 .. Len(seq) : grown[j] = IF j = i THEN e ELSE seq[j]
  BY <1>3, <1>4, <1>5, ExceptSeq
<1>7. DOMAIN grown = 1 .. Len(grown)
  BY <1>6, LenProperties
<1> QED
  BY <1>1, <1>2, <1>3, <1>5, <1>6, <1>7

\* topn_cont_add_item: whether the key is there or not, the list stays in
\* order and holds a key once.
LEMMA AddedItem ==
    ASSUME NEW K, NEW seq \in Seq(Items(K)), NEW key \in K, NEW value \in Int,
           Descending(seq), DistinctKeys(seq)
    PROVE  /\ AddItem(seq, key, value) \in Seq(Items(K))
           /\ Descending(AddItem(seq, key, value))
           /\ DistinctKeys(AddItem(seq, key, value))
<1>1. CASE key \notin Keys(seq)
  <2>1. Entry(key, value) \in Items(K) /\ Entry(key, value).key = key
    BY DEF Entry, Items
  <2>2. AddItem(seq, key, value) = InsertSorted(seq, Entry(key, value))
    BY <1>1 DEF AddItem
  <2> QED
    BY <1>1, <2>1, <2>2, InsertedList
<1>2. CASE key \in Keys(seq)
  <2>1. PICK grown \in Seq(Items(K)), i \in DOMAIN seq :
          /\ AddItem(seq, key, value) = Sorted(grown)
          /\ seq[i].key = key /\ DOMAIN grown = DOMAIN seq /\ grown[i].key = key
          /\ \A j \in DOMAIN seq \ {i} : grown[j] = seq[j]
    BY <1>2, GrownItem
  <2>2. DistinctKeys(grown)
    BY <2>1 DEF DistinctKeys
  <2> QED
    BY <2>1, <2>2, SortedList
<1> QED
  BY <1>1, <1>2

\* The items after topn_cont_add_item: the old ones, but for the one with the
\* key, which is new or has grown.
LEMMA AddedValues ==
    ASSUME NEW K, NEW seq \in Seq(Items(K)), NEW key \in K, NEW value \in Int,
           DistinctKeys(seq)
    PROVE  /\ Keys(AddItem(seq, key, value)) = Keys(seq) \cup {key}
           /\ \A p \in DOMAIN AddItem(seq, key, value) :
                 LET item == AddItem(seq, key, value)[p] IN
                 \/ \E j \in DOMAIN seq : seq[j].key # key /\ item = seq[j]
                 \/ key \notin Keys(seq) /\ item.key = key /\ item.value = value
                 \/ \E j \in DOMAIN seq :
                       /\ seq[j].key = key /\ item.key = key
                       /\ item.value = Wrapped(seq[j].value + value)
<1> DEFINE new == AddItem(seq, key, value)
           n == Len(seq)
<1>1. n \in Nat /\ DOMAIN seq = 1 .. n
  BY LenProperties
<1>2. CASE key \notin Keys(seq)
  <2> DEFINE item == Entry(key, value)
  <2>1. item \in Items(K) /\ item.key = key /\ item.value = value
    BY DEF Entry, Items
  <2>2. new = InsertSorted(seq, item)
    BY <1>2 DEF AddItem
  <2> HIDE DEF item, new
  <2>3. PICK m \in 0 .. n :
          /\ new \in Seq(Items(K)) /\ Len(new) = n + 1
          /\ \A i \in 1 .. n + 1 :
                new[i] = IF i <= m THEN seq[i] ELSE IF i = m + 1 THEN item ELSE seq[i - 1]
    <3>1. PICK m \in 0 .. n :
            /\ \A i \in DOMAIN seq : i <= m <=> \A j \in 1 .. i : seq[j].value > item.value
            /\ InsertSorted(seq, item) \in Seq(Items(K))
            /\ Len(InsertSorted(seq, item)) = n + 1
            /\ \A i \in 1 .. n + 1 :
                  InsertSorted(seq, item)[i] =
                      IF i <= m THEN seq[i] ELSE IF i = m + 1 THEN item ELSE seq[i - 1]
      BY <2>1, InsertedItems
    <3> QED
      BY <2>2, <3>1
  <2>4. DOMAIN new = 1 .. n + 1
    BY <2>3, LenProperties
  <2>5. ASSUME NEW p \in 1 .. n + 1
        PROVE  new[p] = item \/ \E j \in DOMAIN seq : seq[j].key # key /\ new[p] = seq[j]
    <3>1. \A j \in DOMAIN seq : seq[j].key # key
      BY <1>2 DEF Keys
    <3>2. CASE p <= m
      BY <1>1, <2>3, <3>1, <3>2
    <3>3. CASE p > m + 1
      <4>1. p - 1 \in DOMAIN seq /\ new[p] = seq[p - 1]
        BY <1>1, <2>3, <3>3
      <4> QED
        BY <3>1, <4>1
    <3>4. CASE p = m + 1
      BY <1>1, <2>3, <3>4
    <3> QED
      BY <1>1, <3>2, <3>3, <3>4
  <2>6. ASSUME NEW j \in DOMAIN seq
        PROVE  \E p \in DOMAIN new : new[p] = seq[j]
    <3>1. CASE j <= m
      BY <1>1, <2>3, <2>4, <3>1
    <3>2. CASE j > m
      <4>1. j + 1 \in 1 .. n + 1 /\ new[j + 1] = seq[j + 1 - 1] /\ j + 1 - 1 = j
        BY <1>1, <2>3, <3>2
      <4> QED
        BY <2>4, <4>1
    <3> QED
      BY <1>1, <3>1, <3>2
  <2>7. \E p \in DOMAIN new : new[p] = item
    <3>1. m + 1 \in 1 .. n + 1 /\ new[m + 1] = item
      BY <1>1, <2>3
    <3> QED
      BY <2>4, <3>1
  <2>8. Keys(new) = Keys(seq) \cup {key}
    BY <2>1, <2>4, <2>5, <2>6, <2>7 DEF Keys
  <2> QED
    BY <1>2, <2>1, <2>4, <2>5, <2>8 DEF new
<1>3. CASE key \in Keys(seq)
  <2>1. PICK grown \in Seq(Items(K)), i \in DOMAIN seq :
          /\ new = Sorted(grown)
          /\ seq[i].key = key /\ DOMAIN grown = DOMAIN seq
          /\ grown[i].key = key /\ grown[i].value = Wrapped(seq[i].value + value)
          /\ \A j \in DOMAIN seq \ {i} : grown[j] = seq[j]
    BY <1>3, GrownItem
  <2> HIDE DEF new
  <2>2. /\ DOMAIN new = DOMAIN seq
        /\ \A p \in DOMAIN seq : \E j \in DOMAIN seq : new[p] = grown[j]
        /\ \A j \in DOMAIN seq : \E p \in DOMAIN seq : new[p] = grown[j]
    <3>1. /\ DOMAIN Sorted(grown) = DOMAIN grown
          /\ \A p \in DOMAIN grown : \E j \in DOMAIN grown : Sorted(grown)[p] = grown[j]
          /\ \A j \in DOMAIN grown : \E p \in DOMAIN grown : Sorted(grown)[p] = grown[j]
      BY <2>1, SortedList
    <3> QED
      BY <2>1, <3>1
  <2>3. \A j \in DOMAIN seq : grown[j].key = seq[j].key /\ (j # i => seq[j].key # key)
    BY <2>1 DEF DistinctKeys
  <2>4. Keys(new) = Keys(seq) \cup {key}
    <3>1. ASSUME NEW p \in DOMAIN seq
          PROVE  new[p].key \in Keys(seq)
      <4>1. PICK j \in DOMAIN seq : new[p] = grown[j]
        BY <2>2
      <4>2. new[p].key = seq[j].key
        BY <2>3, <4>1
      <4> QED
        BY <4>2 DEF Keys
    <3>2. ASSUME NEW j \in DOMAIN seq
          PROVE  seq[j].key \in Keys(new)
      <4>1. PICK p \in DOMAIN seq : new[p] = grown[j]
        BY <2>2
      <4>2. new[p].key = seq[j].key
        BY <2>3, <4>1
      <4> QED
        BY <2>2, <4>1, <4>2 DEF Keys
    <3>3. Keys(new) = {new[p].key : p \in DOMAIN seq} /\ Keys(seq) = {seq[p].key : p \in DOMAIN seq}
      BY <2>2 DEF Keys
    <3>4. Keys(new) = Keys(seq)
      BY <3>1, <3>2, <3>3
    <3> QED
      BY <1>3, <3>4
  <2>5. ASSUME NEW p \in DOMAIN new
        PROVE  \/ \E j \in DOMAIN seq : seq[j].key # key /\ new[p] = seq[j]
               \/ \E j \in DOMAIN seq :
                     /\ seq[j].key = key /\ new[p].key = key
                     /\ new[p].value = Wrapped(seq[j].value + value)
    <3>1. PICK j \in DOMAIN seq : new[p] = grown[j]
      BY <2>2
    <3> QED
      BY <2>1, <2>3, <3>1
  <2> QED
    BY <2>4, <2>5 DEF new
<1> QED
  BY <1>2, <1>3

\* topn_cont_prep_capacity: no more items than the capacity are left, in the
\* order they had.
LEMMA PreparedList ==
    ASSUME NEW K, NEW seq \in Seq(Items(K)), NEW cap \in Nat
    PROVE  /\ PrepCapacity(seq, cap) \in Seq(Items(K))
           /\ Len(PrepCapacity(seq, cap)) <= cap
           /\ Descending(seq) => Descending(PrepCapacity(seq, cap))
           /\ DistinctKeys(seq) => DistinctKeys(PrepCapacity(seq, cap))
<1>1. Len(seq) \in Nat /\ DOMAIN seq = 1 .. Len(seq)
  BY LenProperties
<1>2. CASE Len(seq) > cap
  <2> DEFINE cut == SubSeq(seq, 1, cap)
  <2>1. \A i \in 1 .. cap : i \in DOMAIN seq
    BY <1>1, <1>2
  <2>2. \A i \in 1 .. cap : seq[i] \in Items(K)
    BY <2>1, ItemType
  <2>3. /\ cut \in Seq(Items(K)) /\ Len(cut) = IF 1 <= cap THEN cap - 1 + 1 ELSE 0
        /\ \A i \in 1 .. cap - 1 + 1 : cut[i] = seq[1 + i - 1]
    BY <2>2, SubSeqProperties
  <2>4. PrepCapacity(seq, cap) = cut
    BY <1>2 DEF PrepCapacity
  <2> HIDE DEF cut
  <2>5. Len(cut) = cap /\ DOMAIN cut = 1 .. cap /\ \A i \in 1 .. cap : cut[i] = seq[i]
    BY <2>3, LenProperties
  <2>6. Descending(seq) => Descending(cut)
    BY <2>1, <2>5 DEF Descending
  <2>7. DistinctKeys(seq) => DistinctKeys(cut)
    BY <2>1, <2>5 DEF DistinctKeys
  <2> QED
    BY <2>3, <2>4, <2>5, <2>6, <2>7
<1>3. CASE ~ (Len(seq) > cap)
  <2>1. PrepCapacity(seq, cap) = seq /\ Len(seq) <= cap
    BY <1>1, <1>3 DEF PrepCapacity
  <2> QED
    BY <2>1
<1> QED
  BY <1>2, <1>3

\* A private container of a thread: topn_cont_add keeps it as it should be.
Kept(K, seq) == seq \in Seq(Items(K)) /\ Descending(seq) /\ DistinctKeys(seq)

LEMMA AddKeeps ==
    ASSUME NEW K, NEW seq, Kept(K, seq), NEW cap \in Nat, NEW key \in K, NEW value \in Int
    PROVE  Kept(K, Add(seq, cap, key, value))
  BY AddedItem, PreparedList DEF Kept, Add

----------------------------------------------------------------------------
(* The slices *)

LEMMA ThreadsType == T \in Nat \ {0} /\ T <= FileCount /\ FileCount \in Nat
  BY CountAssumption DEF T

LEMMA FilesType ==
    FilesPerThread \in Nat /\ FilesPerThread * T <= FileCount
  BY ThreadsType DEF FilesPerThread

LEMMA Product ==
    ASSUME NEW a \in Nat, NEW b \in Nat, a <= b
    PROVE  a * FilesPerThread \in Nat /\ a * FilesPerThread <= b * FilesPerThread
<1>1. FilesPerThread \in Nat
  BY FilesType
<1> DEFINE F == FilesPerThread
<1> HIDE DEF F
<1>2. F \in Nat
  BY <1>1 DEF F
<1>3. b - a \in Nat /\ a * F \in Nat /\ (b - a) * F \in Nat
  BY <1>2
<1>4. b * F = a * F + (b - a) * F
  BY <1>2
<1> QED
  BY <1>3, <1>4 DEF F

\* Thread i gets the files from (i - 1) * FilesPerThread on, the last one up
\* to the end.
LEMMA SliceIs ==
    ASSUME NEW i \in Threads
    PROVE  /\ Slice(i) \in Seq(1 .. FileCount)
           /\ Len(Slice(i)) = IF i = T THEN FileCount - (T - 1) * FilesPerThread
                              ELSE FilesPerThread
           /\ \A j \in 1 .. Len(Slice(i)) : Slice(i)[j] = (i - 1) * FilesPerThread + j
<1> DEFINE F == FilesPerThread
<1>1. F \in Nat /\ T \in Nat \ {0} /\ FileCount \in Nat /\ F * T <= FileCount
      /\ i \in Nat /\ 1 <= i /\ i <= T /\ i - 1 \in Nat
  BY ThreadsType, FilesType DEF Threads
<1>2. (i - 1) * F \in Nat /\ (i - 1) * F + F <= F * T /\ (i = T => (i - 1) * F + F = F * T)
  <2>1. (i - 1) * F \in Nat /\ i * F <= T * F
    BY <1>1, Product
  <2> HIDE DEF F
  <2>2. i * F = (i - 1) * F + F /\ T * F = F * T /\ (T - 1) * F = F * T - F
    BY <1>1
  <2> QED
    BY <1>1, <2>1, <2>2
<1>3. /\ Own(i) \in Seq(1 .. FileCount) /\ Len(Own(i)) = F
      /\ \A j \in 1 .. F : Own(i)[j] = (i - 1) * F + j
  <2>1. Own(i) = [j \in 1 .. F |-> (i - 1) * F + j]
    BY DEF Own
  <2> HIDE DEF F
  <2>2. \A j \in 1 .. F : (i - 1) * F + j \in 1 .. FileCount
    BY <1>1, <1>2
  <2> QED
    BY <1>1, <2>1, <2>2
<1>4. CASE i # T
  BY <1>3, <1>4, ConcatEmptySeq DEF Slice
<1>5. CASE i = T
  <2> DEFINE rest == FileCount - F * T
  <2>1. LeftOver = [j \in 1 .. rest |-> F * T + j]
    BY DEF LeftOver
  <2> HIDE DEF F
  <2>2. rest \in Nat /\ F * T \in Nat
    BY <1>1
  <2>3. \A j \in 1 .. rest : F * T + j \in 1 .. FileCount
    BY <1>1, <2>2
  <2>4. /\ LeftOver \in Seq(1 .. FileCount) /\ Len(LeftOver) = rest
        /\ \A j \in 1 .. rest : LeftOver[j] = F * T + j
    <3> HIDE DEF rest
    <3> QED
      BY <2>1, <2>2, <2>3
  <2>5. Slice(i) = Own(i) \o LeftOver
    BY <1>5 DEF Slice
  <2>6. /\ Slice(i) \in Seq(1 .. FileCount) /\ Len(Slice(i)) = F + rest
        /\ \A j \in 1 .. F + rest :
              Slice(i)[j] = IF j <= F THEN Own(i)[j] ELSE LeftOver[j - F]
    <3> HIDE DEF rest
    <3>1. Len(Own(i)) + Len(LeftOver) = F + rest
      BY <1>3, <2>4
    <3>2. /\ Slice(i) \in Seq(1 .. FileCount) /\ Len(Slice(i)) = Len(Own(i)) + Len(LeftOver)
          /\ \A j \in 1 .. Len(Own(i)) + Len(LeftOver) :
                Slice(i)[j] = IF j <= Len(Own(i)) THEN Own(i)[j] ELSE LeftOver[j - Len(Own(i))]
      <4>1. Own(i) \in Seq(1 .. FileCount) /\ LeftOver \in Seq(1 .. FileCount)
        BY <1>3, <2>4
      <4>2. /\ Own(i) \o LeftOver \in Seq(1 .. FileCount)
            /\ Len(Own(i) \o LeftOver) = Len(Own(i)) + Len(LeftOver)
            /\ \A j \in 1 .. Len(Own(i)) + Len(LeftOver) :
                  (Own(i) \o LeftOver)[j] =
                      IF j <= Len(Own(i)) THEN Own(i)[j] ELSE LeftOver[j - Len(Own(i))]
        BY <4>1, ConcatProperties
      <4> QED
        BY <2>5, <4>2
    <3> QED
      BY <1>3, <3>1, <3>2
  <2>7. ASSUME NEW j \in 1 .. F + rest
        PROVE  Slice(i)[j] = (i - 1) * F + j
    <3>1. CASE j <= F
      BY <1>1, <1>3, <2>2, <2>6, <3>1
    <3>2. CASE ~ (j <= F)
      <4>1. j - F \in 1 .. rest
        BY <1>1, <2>2, <3>2
      <4>2. Slice(i)[j] = F * T + (j - F)
        BY <2>4, <2>6, <3>2, <4>1
      <4>3. F * T = (i - 1) * F + F
        BY <1>2, <1>5
      <4> QED
        BY <1>1, <1>2, <4>2, <4>3
    <3> QED
      BY <3>1, <3>2
  <2>8. F + rest = FileCount - (T - 1) * F
    BY <1>1, <1>2, <1>5
  <2> QED
    BY <1>5, <2>6, <2>7, <2>8 DEF F
<1> QED
  BY <1>4, <1>5

\* Two slices have no file in common.
LEMMA SlicesApart ==
    ASSUME NEW t \in Threads, NEW u \in Threads, t < u,
           NEW j \in 1 .. Len(Slice(t)), NEW k \in 1 .. Len(Slice(u))
    PROVE  Slice(t)[j] < Slice(u)[k]
<1> DEFINE F == FilesPerThread
<1>1. F \in Nat /\ t \in Nat /\ u \in Nat /\ t # T /\ 1 <= t /\ t <= u - 1
  BY FilesType, ThreadsType DEF Threads
<1>2. Len(Slice(t)) = F /\ Slice(t)[j] = (t - 1) * F + j /\ Slice(u)[k] = (u - 1) * F + k
  BY <1>1, SliceIs
<1>3. k \in Nat /\ 1 <= k
  BY SliceIs, LenProperties
<1>4. t * F \in Nat /\ t * F <= (u - 1) * F /\ (u - 1) * F \in Nat
  BY <1>1, Product
<1> HIDE DEF F
<1>5. t * F = (t - 1) * F + F
  BY <1>1
<1>6. j \in Nat /\ j <= F
  BY <1>1, <1>2
<1> QED
  BY <1>1, <1>2, <1>3, <1>4, <1>5, <1>6

\* No file is in two places of the slices.
LEMMA SlicesOnce ==
    ASSUME NEW t \in Threads, NEW u \in Threads,
           NEW j \in 1 .. Len(Slice(t)), NEW k \in 1 .. Len(Slice(u)), Slice(t)[j] = Slice(u)[k]
    PROVE  t = u /\ j = k
<1>1. t \in Nat /\ u \in Nat /\ t - 1 \in Nat
  BY ThreadsType DEF Threads
<1>2. Slice(t)[j] \in Nat
  <2>1. Slice(t) \in Seq(1 .. FileCount)
    BY SliceIs
  <2>2. Slice(t)[j] \in 1 .. FileCount
    BY <2>1, ElementOfSeq
  <2> QED
    BY <2>2
<1>3. ~ (t < u)
  BY <1>1, <1>2, SlicesApart
<1>4. ~ (u < t)
  BY <1>1, <1>2, SlicesApart
<1>5. u = t
  BY <1>1, <1>3, <1>4
<1>6. /\ Slice(t)[j] = (t - 1) * FilesPerThread + j
      /\ Slice(t)[k] = (t - 1) * FilesPerThread + k
  BY <1>5, SliceIs
<1>7. (t - 1) * FilesPerThread \in Nat
  <2>1. t - 1 <= t - 1
    BY <1>1
  <2> QED
    BY <1>1, <2>1, Product
<1>8. j \in Int /\ k \in Int
  OBVIOUS
<1> QED
  BY <1>5, <1>6, <1>7, <1>8

\* Every file is in a slice.
LEMMA SlicesCover ==
    ASSUME NEW f \in 1 .. FileCount
    PROVE  \E t \in Threads : \E j \in 1 .. Len(Slice(t)) : Slice(t)[j] = f
<1> DEFINE F == FilesPerThread
<1>1. F \in Nat /\ T \in Nat \ {0} /\ FileCount \in Nat /\ f \in Nat /\ T \in Threads
  BY FilesType, ThreadsType DEF Threads
<1>2. (T - 1) * F \in Nat
  BY <1>1, Product
<1>3. CASE f > (T - 1) * F
  <2>1. f - (T - 1) * F \in 1 .. Len(Slice(T))
    BY <1>1, <1>2, <1>3, SliceIs
  <2>2. Slice(T)[f - (T - 1) * F] = (T - 1) * F + (f - (T - 1) * F)
    BY <1>1, <2>1, SliceIs
  <2> HIDE DEF F
  <2>3. Slice(T)[f - (T - 1) * F] = f
    BY <1>1, <1>2, <2>2
  <2> QED
    BY <1>1, <2>1, <2>3
<1>4. CASE f <= (T - 1) * F
  <2> DEFINE Ends == {u \in Nat : f <= u * F}
  <2>1. Ends \in SUBSET Nat /\ Ends # {}
    BY <1>1, <1>4
  <2>2. PICK t \in Ends : \A u \in Ends : t <= u
    BY <2>1, LeastNatural
  <2>3. t \in Nat /\ f <= t * F /\ t <= T - 1
    BY <1>1, <1>4, <2>2
  <2>4. t # 0
    BY <1>1, <2>3
  <2>5. t - 1 \in Nat /\ ~ (f <= (t - 1) * F)
    BY <2>2, <2>3, <2>4
  <2>6. (t - 1) * F \in Nat /\ t * F = (t - 1) * F + F
    <3>1. (t - 1) * F \in Nat
      BY <2>5, Product
    <3> HIDE DEF F
    <3> QED
      BY <1>1, <2>3, <3>1
  <2>7. t \in Threads /\ t # T
    BY <1>1, <2>3, <2>4 DEF Threads
  <2>8. f - (t - 1) * F \in 1 .. Len(Slice(t))
    <3>1. Len(Slice(t)) = F
      BY <2>7, SliceIs
    <3> HIDE DEF F
    <3> QED
      BY <1>1, <2>3, <2>5, <2>6, <3>1
  <2>9. Slice(t)[f - (t - 1) * F] = (t - 1) * F + (f - (t - 1) * F)
    BY <2>7, <2>8, SliceIs
  <2> HIDE DEF F
  <2>10. Slice(t)[f - (t - 1) * F] = f
    BY <1>1, <2>6, <2>9
  <2> QED
    BY <2>7, <2>8, <2>10
<1> QED
  <2> HIDE DEF F
  <2> QED
    BY <1>1, <1>2, <1>3, <1>4

----------------------------------------------------------------------------
(* The invariant *)

\* The URLs and referers of the logs.
Names == {l[f].lines[i].url : l \in Logs, f \in 1 .. FileCount, i \in Nat}
         \cup {l[f].lines[i].referer : l \in Logs, f \in 1 .. FileCount, i \in Nat}

\* Who has been dealt what, and where a thread is in it.
Places ==
    \A t \in Threads :
        /\ slice[t] = IF t <= started THEN Slice(t) ELSE <<>>
        /\ t > started => pc[t] = "off"
        /\ pc[t] \in {"read", "total"} => file[t] <= Len(slice[t])
        /\ pc[t] = "total" => line[t] <= Len(File(t).lines)

\* What the containers hold, those of the threads included.
Lists ==
    /\ list \in [Tables -> Seq(Items(Names))]
    /\ own \in [Threads -> [Tables -> Seq(Items(Names))]]
    /\ todo \in [Threads -> Seq(Items(Names))]
    /\ \A t \in Threads : \A c \in Tables : Descending(own[t][c]) /\ DistinctKeys(own[t][c])

\* A thread that merges holds the mutex, and has saved what the capacity has
\* to be again.
Merges ==
    \A t \in Threads :
        pc[t] = "merging" => owner[table[t]] = t /\ saved[t] = Capacity

\* A thread that reads has a file, which holds lines with names and sizes.
LEMMA FileFacts ==
    ASSUME TypeOK, Places, NEW t \in Threads, pc[t] \in {"read", "total"}
    PROVE  /\ Len(File(t).lines) \in Nat
           /\ line[t] <= Len(File(t).lines) =>
                  /\ File(t).lines[line[t]].size \in Nat
                  /\ File(t).lines[line[t]].url \in Names
                  /\ File(t).lines[line[t]].referer \in Names
<1> DEFINE f == slice[t][file[t]]
           l == line[t]
<1>1. f \in 1 .. FileCount
  <2>1. slice[t] \in Seq(1 .. FileCount) /\ file[t] \in Nat \ {0} /\ file[t] <= Len(slice[t])
    BY DEF TypeOK, Places
  <2>2. file[t] \in 1 .. Len(slice[t])
    BY <2>1, LenProperties
  <2> QED
    BY <2>1, <2>2, ElementOfSeq
<1>2. log \in Logs /\ l \in Nat \ {0}
  BY DEF TypeOK
<1>3. File(t) = log[f]
  BY DEF File
<1> HIDE DEF f, l
<1>4. Len(log[f].lines) \in Nat
  BY <1>1, <1>2, LogsAssumption
<1>5. ASSUME l <= Len(log[f].lines)
      PROVE  log[f].lines[l].size \in Nat
  <2>1. l \in 1 .. Len(log[f].lines)
    BY <1>2, <1>4, <1>5
  <2>2. log[f].lines[l].size \in 0 .. IntMax
    BY <1>1, <1>2, <2>1, LogsAssumption
  <2> QED
    BY <2>2
<1>6. log[f].lines[l].url \in Names /\ log[f].lines[l].referer \in Names
  BY <1>1, <1>2 DEF Names
<1> QED
  BY <1>3, <1>4, <1>5, <1>6 DEF l

LEMMA InitInv ==
    ASSUME Init
    PROVE  TypeOK /\ Places /\ Lists /\ Merges /\ CapacityRestored /\ ContainersOrdered
<1>1. TypeOK
  BY CapacityAssumption, ThreadsType DEF Init, TypeOK, Tables, Stages
<1>2. Places
  BY ThreadsType DEF Init, Places, Threads
<1>3. Empty \in [Tables -> Seq(Items(Names))]
  BY DEF Empty, Tables
<1>4. \A c \in Tables : Empty[c] = <<>> /\ Descending(Empty[c]) /\ DistinctKeys(Empty[c])
  BY DEF Empty, Descending, DistinctKeys
<1>5. Lists
  BY <1>3, <1>4 DEF Init, Lists
<1>6. Merges
  BY DEF Init, Merges
<1>7. CapacityRestored /\ ContainersOrdered
  BY <1>4, CapacityAssumption DEF Init, CapacityRestored, ContainersOrdered
<1> QED
  BY <1>1, <1>2, <1>5, <1>6, <1>7

LEMMA TypeStep ==
    ASSUME TypeOK, Places, Merges, [Next]_vars
    PROVE  TypeOK'
<1>1. CASE CreateThread
  <2>1. started + 1 \in Threads /\ started + 1 \in 0 .. T
    BY <1>1, ThreadsType DEF CreateThread, TypeOK, Threads
  <2>2. Slice(started + 1) \in Seq(1 .. FileCount)
    BY <2>1, SliceIs
  <2> QED
    BY <1>1, <2>1, <2>2 DEF CreateThread, TypeOK, Stages, mergeVars, totalVars
<1>2. CASE CreateFails \/ Join \/ Report
  BY <1>2 DEF CreateFails, Join, Report, TypeOK, threadVars, mergeVars, totalVars
<1>3. CASE \E t \in Threads : OpenFile(t) \/ EndThread(t) \/ SkipLine(t)
  <2>1. CASE \E t \in Threads : OpenFile(t)
    <3>1. PICK t \in Threads : OpenFile(t)
      BY <2>1
    <3>2. pc' \in [Threads -> Stages] /\ file' \in [Threads -> Nat \ {0}]
      <4>1. CASE File(t).readable
        BY <3>1, <4>1 DEF OpenFile, TypeOK, Stages
      <4>2. CASE ~ File(t).readable
        <5>1. pc' = pc /\ file' = [file EXCEPT ![t] = file[t] + 1] /\ file[t] \in Nat
          BY <3>1, <4>2 DEF OpenFile, TypeOK
        <5> QED
          BY <5>1 DEF TypeOK
      <4> QED
        BY <4>1, <4>2
    <3>3. line' \in [Threads -> Nat \ {0}]
      BY <3>1 DEF OpenFile, TypeOK
    <3> QED
      BY <3>1, <3>2, <3>3 DEF OpenFile, TypeOK, mainVars, mergeVars, totalVars
  <2>2. CASE \E t \in Threads : EndThread(t)
    BY <2>2 DEF EndThread, TypeOK, Stages, mainVars, mergeVars, totalVars
  <2>3. CASE \E t \in Threads : SkipLine(t)
    BY <2>3 DEF SkipLine, TypeOK, mainVars, mergeVars, totalVars
  <2> QED
    BY <1>3, <2>1, <2>2, <2>3
<1>4. CASE \E t \in Threads : ParseLine(t)
  BY <1>4 DEF ParseLine, TypeOK, Stages, mainVars, mergeVars
<1>5. CASE \E t \in Threads : AddTotal(t)
  <2>1. PICK t \in Threads : AddTotal(t)
    BY <1>5
  <2>2. File(t).lines[line[t]].size \in Nat
    BY <2>1, FileFacts DEF AddTotal, Places
  <2>3. total' \in Nat /\ loaded' \in [Threads -> Nat] /\ totalOwner' = Nobody
    BY <2>1, <2>2 DEF AddTotal, TypeOK
  <2>4. pc' \in [Threads -> Stages] /\ line' \in [Threads -> Nat \ {0}]
    BY <2>1 DEF AddTotal, TypeOK, Stages
  <2> QED
    BY <2>1, <2>3, <2>4 DEF AddTotal, TypeOK, mainVars, mergeVars
<1>6. CASE \E t \in Threads : CloseFile(t)
  BY <1>6 DEF CloseFile, TypeOK, Stages, Tables, mainVars, totalVars
<1>7. CASE \E t \in Threads : MergeBegin(t)
  BY <1>7, CapacityAssumption DEF MergeBegin, TypeOK, Stages, mainVars, totalVars
<1>8. CASE \E t \in Threads : MergeItem(t)
  BY <1>8 DEF MergeItem, TypeOK, mainVars, threadVars, totalVars
<1>9. CASE \E t \in Threads : MergeEnd(t)
  <2>1. PICK t \in Threads : MergeEnd(t)
    BY <1>9
  <2>2. table[t] \in Tables /\ saved[t] \in Nat
    BY DEF TypeOK
  <2>3. /\ capacity' \in [Tables -> Nat] /\ owner' \in [Tables -> Threads \cup {Nobody}]
        /\ saved' \in [Threads -> Nat]
    BY <2>1, <2>2 DEF MergeEnd, Release, TypeOK
  <2>4. /\ pc' \in [Threads -> Stages] /\ table' \in [Threads -> Tables]
        /\ file' \in [Threads -> Nat \ {0}] /\ line' \in [Threads -> Nat \ {0}]
    <3>1. CASE table[t] = "url"
      BY <2>1, <3>1 DEF MergeEnd, TypeOK, Stages, Tables
    <3>2. CASE table[t] # "url"
      <4>1. /\ pc' = [pc EXCEPT ![t] = "next"] /\ file' = [file EXCEPT ![t] = @ + 1]
            /\ line' = [line EXCEPT ![t] = 1] /\ table' = table
        BY <2>1, <3>2 DEF MergeEnd
      <4> QED
        BY <4>1 DEF TypeOK, Stages
    <3> QED
      BY <3>1, <3>2
  <2> QED
    BY <2>1, <2>3, <2>4 DEF MergeEnd, TypeOK, mainVars, totalVars
<1>10. CASE UNCHANGED vars
  BY <1>10 DEF TypeOK, vars, mainVars, threadVars, mergeVars, totalVars
<1> QED
  BY <1>1, <1>2, <1>3, <1>4, <1>5, <1>6, <1>7, <1>8, <1>9, <1>10 DEF Next, Main, Thread

LEMMA PlacesStep ==
    ASSUME TypeOK, Places, [Next]_vars
    PROVE  Places'
<1>1. CASE CreateThread
  <2>1. started + 1 \in Threads /\ started \in Nat /\ started' = started + 1
    BY <1>1, ThreadsType DEF CreateThread, TypeOK, Threads
  <2>2. \A t \in Threads : t \in Nat
    BY DEF Threads
  <2>3. pc[started + 1] = "off"
    BY <2>1 DEF Places
  <2>4. ASSUME NEW t \in Threads
        PROVE  /\ slice'[t] = IF t <= started + 1 THEN Slice(t) ELSE <<>>
               /\ t > started + 1 => pc'[t] = "off"
               /\ t # started + 1 => slice'[t] = slice[t] /\ pc'[t] = pc[t]
               /\ t = started + 1 => pc'[t] = "next"
    BY <1>1, <2>1, <2>2 DEF CreateThread, TypeOK, Places
  <2> QED
    BY <1>1, <2>1, <2>4 DEF CreateThread, Places, File
<1>2. CASE CreateFails \/ Join \/ Report \/ UNCHANGED vars
  BY <1>2 DEF CreateFails, Join, Report, Places, File, vars, mainVars, threadVars
<1>3. CASE \E t \in Threads : MergeItem(t)
  BY <1>3 DEF MergeItem, Places, File, mainVars, threadVars
<1>4. ASSUME NEW t \in Threads,
             \/ OpenFile(t) \/ EndThread(t) \/ SkipLine(t) \/ ParseLine(t)
             \/ AddTotal(t) \/ CloseFile(t) \/ MergeBegin(t) \/ MergeEnd(t)
      PROVE  Places'
  <2>1. /\ started' = started /\ slice' = slice /\ log' = log /\ pc[t] # "off"
        /\ \A u \in Threads \ {t} : pc'[u] = pc[u] /\ file'[u] = file[u] /\ line'[u] = line[u]
    <3>1. CASE OpenFile(t) \/ EndThread(t)
      BY <3>1 DEF OpenFile, EndThread, TypeOK, mainVars
    <3>2. CASE SkipLine(t) \/ ParseLine(t) \/ AddTotal(t)
      BY <3>2 DEF SkipLine, ParseLine, AddTotal, TypeOK, mainVars
    <3>3. CASE CloseFile(t) \/ MergeBegin(t)
      BY <3>3 DEF CloseFile, MergeBegin, TypeOK, mainVars
    <3>4. CASE MergeEnd(t)
      BY <3>4 DEF MergeEnd, TypeOK, mainVars
    <3> QED
      BY <1>4, <3>1, <3>2, <3>3, <3>4
  <2>2. /\ pc'[t] \in {"read", "total"} => file'[t] = file[t] /\ file[t] <= Len(slice[t])
        /\ pc'[t] = "total" => line'[t] = line[t] /\ line[t] <= Len(File(t).lines)
    <3>1. CASE OpenFile(t)
      BY <3>1 DEF OpenFile, TypeOK
    <3>2. CASE SkipLine(t) \/ ParseLine(t)
      BY <3>2 DEF SkipLine, ParseLine, TypeOK, Places
    <3>3. CASE AddTotal(t)
      BY <3>3 DEF AddTotal, TypeOK, Places
    <3>4. CASE EndThread(t) \/ CloseFile(t) \/ MergeBegin(t) \/ MergeEnd(t)
      <4>1. pc'[t] \in {"ended", "merge", "merging", "next"}
        BY <3>4 DEF EndThread, CloseFile, MergeBegin, MergeEnd, TypeOK
      <4> QED
        BY <4>1
    <3> QED
      BY <1>4, <3>1, <3>2, <3>3, <3>4
  <2>3. ASSUME NEW u \in Threads \ {t}
        PROVE  /\ slice'[u] = IF u <= started' THEN Slice(u) ELSE <<>>
               /\ u > started' => pc'[u] = "off"
               /\ pc'[u] \in {"read", "total"} => file'[u] <= Len(slice'[u])
               /\ pc'[u] = "total" => line'[u] <= Len(log'[slice'[u][file'[u]]].lines)
    BY <2>1 DEF Places, File
  <2>4. /\ slice'[t] = IF t <= started' THEN Slice(t) ELSE <<>>
        /\ t > started' => pc'[t] = "off"
        /\ pc'[t] \in {"read", "total"} => file'[t] <= Len(slice'[t])
        /\ pc'[t] = "total" => line'[t] <= Len(log'[slice'[t][file'[t]]].lines)
    BY <2>1, <2>2 DEF Places, File
  <2> QED
    BY <2>3, <2>4 DEF Places, File
<1> QED
  BY <1>1, <1>2, <1>3, <1>4 DEF Next, Main, Thread

\* What a matched line adds keeps the private containers in order.
LEMMA CountedKeeps ==
    ASSUME NEW tables \in [Tables -> Seq(Items(Names))],
           \A c \in Tables : Descending(tables[c]) /\ DistinctKeys(tables[c]),
           NEW l, l.size \in Nat, l.url \in Names, l.referer \in Names
    PROVE  /\ Counted(tables, l) \in [Tables -> Seq(Items(Names))]
           /\ \A c \in Tables :
                 Descending(Counted(tables, l)[c]) /\ DistinctKeys(Counted(tables, l)[c])
<1> DEFINE urls == IF l.url = NoUrl THEN tables["url"]
                   ELSE Add(tables["url"], Capacity, l.url, l.size)
           refs == Add(tables["ref"], Capacity, l.referer, 1)
<1>1. Kept(Names, tables["url"]) /\ Kept(Names, tables["ref"])
  BY DEF Kept, Tables
<1>2. Kept(Names, urls) /\ Kept(Names, refs)
  BY <1>1, AddKeeps, CapacityAssumption
<1>3. Counted(tables, l) = [url |-> urls, ref |-> refs]
  BY DEF Counted
<1> HIDE DEF urls, refs
<1>4. Counted(tables, l) \in [Tables -> Seq(Items(Names))]
  BY <1>2, <1>3 DEF Tables, Kept
<1>5. Counted(tables, l)["url"] = urls /\ Counted(tables, l)["ref"] = refs
  BY <1>3
<1> QED
  BY <1>2, <1>4, <1>5 DEF Kept, Tables

LEMMA ListsStep ==
    ASSUME TypeOK, Places, Lists, ContainersOrdered, [Next]_vars
    PROVE  Lists' /\ ContainersOrdered'
<1>1. CASE UNCHANGED <<list, own, todo>>
  BY <1>1 DEF Lists, ContainersOrdered
<1>2. ASSUME NEW t \in Threads, OpenFile(t)
      PROVE  Lists' /\ ContainersOrdered'
  <2>1. /\ Empty \in [Tables -> Seq(Items(Names))]
        /\ \A c \in Tables : Descending(Empty[c]) /\ DistinctKeys(Empty[c])
    BY DEF Empty, Tables, Descending, DistinctKeys
  <2>2. own' \in {own, [own EXCEPT ![t] = Empty]} /\ list' = list /\ todo' = todo
    BY <1>2 DEF OpenFile, mergeVars
  <2> QED
    BY <2>1, <2>2 DEF Lists, ContainersOrdered
<1>3. ASSUME NEW t \in Threads, ParseLine(t)
      PROVE  Lists' /\ ContainersOrdered'
  <2> DEFINE l == File(t).lines[line[t]]
             new == Counted(own[t], l)
  <2>1. l.size \in Nat /\ l.url \in Names /\ l.referer \in Names
    BY <1>3, FileFacts DEF ParseLine
  <2>2. own' = [own EXCEPT ![t] = new] /\ list' = list /\ todo' = todo
    BY <1>3 DEF ParseLine, mergeVars
  <2> HIDE DEF l
  <2>3. /\ new \in [Tables -> Seq(Items(Names))]
        /\ \A c \in Tables : Descending(new[c]) /\ DistinctKeys(new[c])
    BY <2>1, CountedKeeps DEF Lists
  <2> HIDE DEF new
  <2> QED
    BY <2>2, <2>3 DEF Lists, ContainersOrdered
<1>4. ASSUME NEW t \in Threads, MergeBegin(t)
      PROVE  Lists' /\ ContainersOrdered'
  <2>1. table[t] \in Tables /\ own[t][table[t]] \in Seq(Items(Names))
    BY DEF TypeOK, Lists
  <2>2. todo' = [todo EXCEPT ![t] = own[t][table[t]]] /\ list' = list /\ own' = own
    BY <1>4 DEF MergeBegin
  <2> QED
    BY <2>1, <2>2 DEF Lists, ContainersOrdered
<1>5. ASSUME NEW t \in Threads, MergeItem(t)
      PROVE  Lists' /\ ContainersOrdered'
  <2> DEFINE c == table[t]
             item == Head(todo[t])
             new == AddItem(list[c], item.key, item.value)
  <2>1. c \in Tables /\ todo[t] \in Seq(Items(Names)) /\ todo[t] # <<>>
    BY <1>5 DEF TypeOK, Lists, MergeItem
  <2>2. item \in Items(Names) /\ Tail(todo[t]) \in Seq(Items(Names))
    BY <2>1, HeadTailProperties
  <2>3. item.key \in Names /\ item.value \in Int
    <3> HIDE DEF item
    <3> QED
      BY <2>2 DEF Items
  <2>4. /\ list' = [list EXCEPT ![c] = new]
        /\ todo' = [todo EXCEPT ![t] = Tail(todo[t])] /\ own' = own
    BY <1>5 DEF MergeItem, threadVars
  <2> HIDE DEF c, item
  <2>5. new \in Seq(Items(Names)) /\ Descending(new) /\ DistinctKeys(new)
    BY <2>1, <2>3, AddedItem DEF Lists, ContainersOrdered
  <2> HIDE DEF new
  <2> QED
    BY <2>1, <2>2, <2>4, <2>5 DEF Lists, ContainersOrdered
<1>6. ASSUME NEW t \in Threads, MergeEnd(t)
      PROVE  Lists' /\ ContainersOrdered'
  <2> DEFINE c == table[t]
             new == PrepCapacity(list[c], saved[t])
  <2>1. c \in Tables /\ saved[t] \in Nat
    BY DEF TypeOK
  <2>2. /\ list' = [list EXCEPT ![c] = new] /\ todo' = todo
        /\ own' = [own EXCEPT ![t] = [own[t] EXCEPT ![c] = <<>>]]
    BY <1>6 DEF MergeEnd
  <2> HIDE DEF c
  <2>3. new \in Seq(Items(Names)) /\ Descending(new) /\ DistinctKeys(new)
    BY <2>1, PreparedList DEF Lists, ContainersOrdered
  <2> HIDE DEF new
  <2>4. Descending(<<>>) /\ DistinctKeys(<<>>) /\ <<>> \in Seq(Items(Names))
    BY DEF Descending, DistinctKeys
  <2>5. /\ list' \in [Tables -> Seq(Items(Names))] /\ ContainersOrdered'
    BY <2>1, <2>2, <2>3 DEF Lists, ContainersOrdered
  <2>6. own' \in [Threads -> [Tables -> Seq(Items(Names))]]
    BY <2>1, <2>2, <2>4 DEF Lists
  <2>7. ASSUME NEW u \in Threads, NEW d \in Tables
        PROVE  own'[u][d] \in {own[u][d], <<>>}
    BY <2>1, <2>2 DEF Lists
  <2>8. \A u \in Threads : \A d \in Tables : Descending(own'[u][d]) /\ DistinctKeys(own'[u][d])
    BY <2>4, <2>7 DEF Lists
  <2> QED
    BY <2>2, <2>5, <2>6, <2>8 DEF Lists
<1>7. CASE Main \/ UNCHANGED vars
  BY <1>1, <1>7
  DEF Main, CreateThread, CreateFails, Join, Report, vars, threadVars, mergeVars
<1>8. ASSUME NEW t \in Threads,
             \/ EndThread(t) \/ SkipLine(t) \/ AddTotal(t) \/ CloseFile(t)
      PROVE  Lists' /\ ContainersOrdered'
  BY <1>1, <1>8 DEF EndThread, SkipLine, AddTotal, CloseFile, mergeVars
<1> QED
  BY <1>2, <1>3, <1>4, <1>5, <1>6, <1>7, <1>8 DEF Next, Thread

\* Whoever merges owns the mutex, so nobody else sees the raised capacity.
LEMMA MergesStep ==
    ASSUME TypeOK, Lists, Merges, CapacityRestored, [Next]_vars
    PROVE  Merges' /\ CapacityRestored'
<1>1. ASSUME NEW t \in Threads,
             UNCHANGED <<list, capacity, owner>>,
             \A u \in Threads : pc'[u] = "merging" =>
                 pc[u] = "merging" /\ table'[u] = table[u] /\ saved'[u] = saved[u]
      PROVE  Merges' /\ CapacityRestored'
  BY <1>1 DEF Merges, CapacityRestored
<1>2. CASE Main \/ UNCHANGED vars
  <2>1. 1 \in Threads
    BY ThreadsType DEF Threads
  <2>2. UNCHANGED <<list, capacity, owner, table, saved>>
    BY <1>2 DEF Main, CreateThread, CreateFails, Join, Report, vars, mergeVars
  <2>3. \A u \in Threads : pc'[u] = "merging" => pc[u] = "merging"
    BY <1>2 DEF Main, CreateThread, CreateFails, Join, Report, vars, threadVars, TypeOK
  <2> QED
    BY <1>1, <2>1, <2>2, <2>3
<1>3. ASSUME NEW t \in Threads,
             \/ OpenFile(t) \/ EndThread(t) \/ SkipLine(t) \/ ParseLine(t) \/ AddTotal(t)
      PROVE  Merges' /\ CapacityRestored'
  <2>1. UNCHANGED <<list, capacity, owner, table, saved>>
    BY <1>3 DEF OpenFile, EndThread, SkipLine, ParseLine, AddTotal, mergeVars
  <2>2. \A u \in Threads : pc'[u] = "merging" => pc[u] = "merging"
    BY <1>3 DEF OpenFile, EndThread, SkipLine, ParseLine, AddTotal, TypeOK
  <2> QED
    BY <1>1, <2>1, <2>2
<1>4. ASSUME NEW t \in Threads, CloseFile(t)
      PROVE  Merges' /\ CapacityRestored'
  <2>1. UNCHANGED <<list, capacity, owner, saved>>
    BY <1>4 DEF CloseFile
  <2>2. \A u \in Threads : pc'[u] = "merging" => pc[u] = "merging" /\ table'[u] = table[u]
    BY <1>4 DEF CloseFile, TypeOK
  <2> QED
    BY <1>1, <2>1, <2>2
<1>5. ASSUME NEW t \in Threads, MergeItem(t)
      PROVE  Merges' /\ CapacityRestored'
  <2>1. owner[table[t]] # Nobody
    BY <1>5, NobodyAssumption DEF MergeItem, Merges
  <2>2. /\ capacity' = capacity /\ owner' = owner /\ pc' = pc /\ table' = table /\ saved' = saved
        /\ \A c \in Tables : c # table[t] => list'[c] = list[c]
    BY <1>5 DEF MergeItem, threadVars, TypeOK, Lists
  <2> QED
    BY <2>1, <2>2 DEF Merges, CapacityRestored
<1>6. ASSUME NEW t \in Threads, MergeBegin(t)
      PROVE  Merges' /\ CapacityRestored'
  <2> DEFINE c == table[t]
  <2>1. c \in Tables /\ owner[c] = Nobody /\ capacity[c] = Capacity
    BY <1>6 DEF MergeBegin, TypeOK, CapacityRestored
  <2>2. /\ owner' = [owner EXCEPT ![c] = t] /\ saved' = [saved EXCEPT ![t] = Capacity]
        /\ pc' = [pc EXCEPT ![t] = "merging"] /\ table' = table /\ list' = list
        /\ capacity' = [capacity EXCEPT ![c] = @ + Capacity]
    BY <1>6, <2>1 DEF MergeBegin
  <2> HIDE DEF c
  <2>3. owner'[c] = t /\ t # Nobody /\ saved'[t] = Capacity
    BY <2>1, <2>2, NobodyAssumption DEF TypeOK
  <2>4. ASSUME NEW d \in Tables, d # c
        PROVE  owner'[d] = owner[d] /\ capacity'[d] = capacity[d]
    BY <2>2, <2>4 DEF TypeOK
  <2>5. ASSUME NEW u \in Threads, pc'[u] = "merging"
        PROVE  owner'[table'[u]] = u /\ saved'[u] = Capacity
    <3>1. CASE u = t
      BY <2>2, <2>3, <3>1 DEF c
    <3>2. CASE u # t
      <4>1. pc[u] = "merging" /\ saved'[u] = saved[u] /\ table[u] \in Tables
        BY <2>2, <2>5, <3>2 DEF TypeOK
      <4>2. owner[table[u]] = u /\ u # Nobody /\ saved[u] = Capacity
        BY <4>1, NobodyAssumption DEF Merges
      <4>3. table[u] # c
        BY <2>1, <4>2
      <4> QED
        BY <2>2, <2>4, <4>1, <4>2, <4>3
    <3> QED
      BY <3>1, <3>2
  <2>6. Merges'
    BY <2>5 DEF Merges
  <2>7. CapacityRestored'
    BY <2>2, <2>3, <2>4 DEF CapacityRestored
  <2> QED
    BY <2>6, <2>7
<1>7. ASSUME NEW t \in Threads, MergeEnd(t)
      PROVE  Merges' /\ CapacityRestored'
  <2> DEFINE c == table[t]
             new == PrepCapacity(list[c], saved[t])
  <2>1. c \in Tables /\ owner[c] = t /\ saved[t] = Capacity
    BY <1>7 DEF MergeEnd, TypeOK, Merges
  <2>2. /\ owner' = [owner EXCEPT ![c] = Nobody] /\ saved' = [saved EXCEPT ![t] = 0]
        /\ list' = [list EXCEPT ![c] = new] /\ capacity' = [capacity EXCEPT ![c] = Capacity]
    BY <1>7, <2>1 DEF MergeEnd, Release
  <2>3. /\ pc'[t] # "merging"
        /\ \A u \in Threads \ {t} : pc'[u] = pc[u] /\ table'[u] = table[u]
    <3>1. CASE c = "url"
      BY <1>7, <3>1 DEF MergeEnd, TypeOK
    <3>2. CASE c # "url"
      BY <1>7, <3>2 DEF MergeEnd, TypeOK
    <3> QED
      BY <3>1, <3>2
  <2> HIDE DEF c
  <2>4. Len(new) <= Capacity
    BY <2>1, CapacityAssumption, PreparedList DEF Lists
  <2> HIDE DEF new
  <2>5. ASSUME NEW u \in Threads, pc'[u] = "merging"
        PROVE  owner'[table'[u]] = u /\ saved'[u] = Capacity
    <3>1. u # t /\ pc[u] = "merging" /\ table'[u] = table[u]
      BY <2>3, <2>5
    <3>2. owner[table[u]] = u /\ saved[u] = Capacity /\ table[u] \in Tables
      BY <3>1 DEF Merges, TypeOK
    <3>3. table[u] # c
      BY <2>1, <3>1, <3>2
    <3> QED
      BY <2>2, <3>1, <3>2, <3>3 DEF TypeOK
  <2>6. Merges'
    BY <2>5 DEF Merges
  <2>7. ASSUME NEW d \in Tables, owner'[d] = Nobody
        PROVE  capacity'[d] = Capacity /\ Len(list'[d]) <= Capacity
    <3>1. CASE d = c
      BY <2>1, <2>2, <2>4, <3>1 DEF TypeOK, Lists
    <3>2. CASE d # c
      BY <2>2, <2>7, <3>2 DEF TypeOK, Lists, CapacityRestored
    <3> QED
      BY <3>1, <3>2
  <2> QED
    BY <2>6, <2>7 DEF CapacityRestored
<1> QED
  BY <1>2, <1>3, <1>4, <1>5, <1>6, <1>7 DEF Next, Thread

----------------------------------------------------------------------------
(* Sums over lines *)

\* A tally says for every line of a finite set D what key it counts for, and
\* how much.
Tallies(D) == [D -> [key : Names, value : Nat]]

With(g, L, key) == {e \in L : g[e].key = key}
KeysIn(g, L) == {g[e].key : e \in L}
Parts(g, L) == UNION {{e} \X (1 .. g[e].value) : e \in L}
Sum(g, L) == Cardinality(Parts(g, L))
Worth(g, L, key) == Sum(g, With(g, L, key))

\* The image of a finite set is finite.
LEMMA ImageFinite ==
    ASSUME NEW S, NEW R, NEW f \in [S -> R], IsFiniteSet(S)
    PROVE  IsFiniteSet({f[x] : x \in S})
<1> DEFINE I == {f[x] : x \in S}
<1>1. f \in [S -> I]
  OBVIOUS
<1>2. \A y \in I : \E x \in S : f[x] = y
  OBVIOUS
<1> HIDE DEF I
<1>3. f \in Surjection(S, I)
  BY <1>1, <1>2, Fun_IsSurj
<1> QED
  BY <1>3, FS_Surjection DEF I

LEMMA SumType ==
    ASSUME NEW D, IsFiniteSet(D), NEW g \in Tallies(D), NEW L \in SUBSET D
    PROVE  IsFiniteSet(L) /\ IsFiniteSet(Parts(g, L)) /\ Sum(g, L) \in Nat
<1> DEFINE f == [e \in L |-> {e} \X (1 .. g[e].value)]
           R == {f[e] : e \in L}
<1>1. IsFiniteSet(L)
  BY FS_Subset
<1>2. ASSUME NEW e \in L
      PROVE  IsFiniteSet({e} \X (1 .. g[e].value))
  <2>1. g[e].value \in Nat
    BY DEF Tallies
  <2>2. IsFiniteSet({e})
    BY FS_Singleton
  <2>3. IsFiniteSet(1 .. g[e].value)
    BY <2>1, FS_Interval
  <2> QED
    BY <2>2, <2>3, FS_Product
<1>3. \A X \in R : IsFiniteSet(X)
  BY <1>2
<1>4. Parts(g, L) = UNION R
  BY DEF Parts
<1>5. IsFiniteSet(R)
  <2>1. f \in [L -> R]
    OBVIOUS
  <2> HIDE DEF f
  <2> QED
    BY <1>1, <2>1, ImageFinite
<1>6. IsFiniteSet(Parts(g, L))
  <2> HIDE DEF R
  <2> QED
    BY <1>3, <1>4, <1>5, FS_UNION
<1> QED
  BY <1>1, <1>6, FS_CardinalityType DEF Sum

\* The sum over lines that two sets do not share is the sum of the two sums.
LEMMA SumAdds ==
    ASSUME NEW D, IsFiniteSet(D), NEW g \in Tallies(D),
           NEW L \in SUBSET D, NEW M \in SUBSET D, L \cap M = {}
    PROVE  Sum(g, L \cup M) = Sum(g, L) + Sum(g, M)
<1>1. IsFiniteSet(Parts(g, L)) /\ IsFiniteSet(Parts(g, M)) /\ Sum(g, L) \in Nat /\ Sum(g, M) \in Nat
  BY SumType
<1>2. Parts(g, L \cup M) = Parts(g, L) \cup Parts(g, M)
  BY Zenon DEF Parts
<1>3. Parts(g, L) \cap Parts(g, M) = {}
  <2> SUFFICES ASSUME NEW x \in Parts(g, L), NEW y \in Parts(g, M), x = y
               PROVE  FALSE
    OBVIOUS
  <2>1. PICK e \in L : x \in {e} \X (1 .. g[e].value)
    BY DEF Parts
  <2>2. PICK d \in M : y \in {d} \X (1 .. g[d].value)
    BY DEF Parts
  <2>3. x[1] = e /\ y[1] = d
    BY <2>1, <2>2
  <2> QED
    BY <2>3
<1>4. Cardinality(Parts(g, L) \cap Parts(g, M)) = 0
  BY <1>3, FS_EmptySet
<1> DEFINE A == Parts(g, L)
           B == Parts(g, M)
<1>5. Cardinality(A \cup B) = Cardinality(A) + Cardinality(B) - Cardinality(A \cap B)
  <2> HIDE DEF A, B
  <2> QED
    BY <1>1, FS_Union DEF A, B
<1>6. /\ Sum(g, L) = Cardinality(A) /\ Sum(g, M) = Cardinality(B)
      /\ Sum(g, L \cup M) = Cardinality(A \cup B)
  BY <1>2 DEF Sum
<1> HIDE DEF A, B
<1>7. Cardinality(A \cap B) = 0
  BY <1>4 DEF A, B
<1> QED
  BY <1>1, <1>5, <1>6, <1>7

LEMMA SumNone ==
    ASSUME NEW g
    PROVE  Sum(g, {}) = 0
<1>1. Parts(g, {}) = {}
  BY DEF Parts
<1> QED
  BY <1>1, FS_EmptySet DEF Sum

LEMMA SumOne ==
    ASSUME NEW D, NEW g \in Tallies(D), NEW e \in D
    PROVE  Sum(g, {e}) = g[e].value
<1> DEFINE n == g[e].value
<1>1. n \in Nat
  BY DEF Tallies
<1>2. Parts(g, {e}) = {e} \X (1 .. n)
  BY DEF Parts
<1> HIDE DEF n
<1>3. IsFiniteSet({e}) /\ Cardinality({e}) = 1
  BY FS_Singleton
<1>4. IsFiniteSet(1 .. n) /\ Cardinality(1 .. n) = n
  BY <1>1, FS_Interval
<1>5. Cardinality({e} \X (1 .. n)) = Cardinality({e}) * Cardinality(1 .. n)
  BY <1>3, <1>4, FS_Product
<1>6. Sum(g, {e}) = 1 * n
  BY <1>2, <1>3, <1>4, <1>5 DEF Sum
<1> QED
  BY <1>1, <1>6 DEF n

LEMMA SumMore ==
    ASSUME NEW D, IsFiniteSet(D), NEW g \in Tallies(D),
           NEW M \in SUBSET D, NEW L \in SUBSET M
    PROVE  Sum(g, L) <= Sum(g, M)
<1>1. Parts(g, L) \subseteq Parts(g, M)
  BY DEF Parts
<1>2. IsFiniteSet(Parts(g, M))
  BY SumType
<1> QED
  BY <1>1, <1>2, FS_Subset DEF Sum

LEMMA WorthType ==
    ASSUME NEW D, IsFiniteSet(D), NEW g \in Tallies(D), NEW L \in SUBSET D, NEW key
    PROVE  Worth(g, L, key) \in Nat
<1>1. With(g, L, key) \in SUBSET D
  BY DEF With
<1> QED
  BY <1>1, SumType DEF Worth

LEMMA WorthAdds ==
    ASSUME NEW D, IsFiniteSet(D), NEW g \in Tallies(D),
           NEW L \in SUBSET D, NEW M \in SUBSET D, L \cap M = {}, NEW key
    PROVE  Worth(g, L \cup M, key) = Worth(g, L, key) + Worth(g, M, key)
<1>1. /\ With(g, L, key) \in SUBSET D /\ With(g, M, key) \in SUBSET D
      /\ With(g, L, key) \cap With(g, M, key) = {}
      /\ With(g, L \cup M, key) = With(g, L, key) \cup With(g, M, key)
  BY DEF With
<1>2. Sum(g, With(g, L, key) \cup With(g, M, key))
        = Sum(g, With(g, L, key)) + Sum(g, With(g, M, key))
  BY <1>1, SumAdds
<1> QED
  BY <1>1, <1>2 DEF Worth

LEMMA WorthNone ==
    ASSUME NEW g, NEW L, NEW key, key \notin KeysIn(g, L)
    PROVE  Worth(g, L, key) = 0
<1>1. With(g, L, key) = {}
  BY DEF With, KeysIn
<1> QED
  BY <1>1, SumNone DEF Worth

LEMMA WorthMore ==
    ASSUME NEW D, IsFiniteSet(D), NEW g \in Tallies(D),
           NEW M \in SUBSET D, NEW L \in SUBSET M, NEW key
    PROVE  Worth(g, L, key) <= Worth(g, M, key)
<1>1. With(g, M, key) \in SUBSET D /\ With(g, L, key) \in SUBSET With(g, M, key)
  BY DEF With
<1> QED
  BY <1>1, SumMore DEF Worth

----------------------------------------------------------------------------
(* What a container counts *)

\* A gint that may have wrapped: if it is negative, it stands for a number
\* that is larger by the size of a gint.
Below(v, n) == v \in IntMin .. IntMax /\ v <= n /\ (v < 0 => v + 2 * (IntMax + 1) <= n)

\* A list never counts more than the lines L say, or exactly that.
Bounded(g, items, L) ==
    \A i \in DOMAIN items :
        /\ items[i].key \in KeysIn(g, L)
        /\ Below(items[i].value, Worth(g, L, items[i].key))

Truth(g, items, L) ==
    /\ Keys(items) = KeysIn(g, L)
    /\ \A i \in DOMAIN items : items[i].value = Worth(g, L, items[i].key)

\* A sum of two gints that wraps wraps downwards.
LEMMA BelowWrapped ==
    ASSUME NEW a \in Int, NEW b \in Int, NEW n \in Nat, NEW m \in Nat, Below(a, n), Below(b, m)
    PROVE  Below(Wrapped(a + b), n + m)
  BY IntMaxAssumption DEF Below, Wrapped, IntMin

LEMMA BelowMore ==
    ASSUME NEW a \in Int, NEW n \in Nat, NEW m \in Nat, Below(a, n), n <= m
    PROVE  Below(a, m)
  BY IntMaxAssumption DEF Below, IntMin

LEMMA BelowItself ==
    ASSUME NEW a \in 0 .. IntMax
    PROVE  Below(a, a)
  BY IntMaxAssumption DEF Below, IntMin

LEMMA BoundedMore ==
    ASSUME NEW D, IsFiniteSet(D), NEW g \in Tallies(D),
           NEW M \in SUBSET D, NEW L \in SUBSET M,
           NEW seq \in Seq(Items(Names)), Bounded(g, seq, L)
    PROVE  Bounded(g, seq, M)
<1> SUFFICES ASSUME NEW i \in DOMAIN seq
             PROVE  seq[i].key \in KeysIn(g, M) /\ Below(seq[i].value, Worth(g, M, seq[i].key))
  BY DEF Bounded
<1> DEFINE v == seq[i].value
           k == seq[i].key
<1>1. v \in Int
  BY ItemType
<1>2. k \in KeysIn(g, L) /\ Below(v, Worth(g, L, k))
  BY DEF Bounded
<1>3. L \in SUBSET D
  OBVIOUS
<1> HIDE DEF v, k
<1>4. Worth(g, L, k) \in Nat /\ Worth(g, M, k) \in Nat
  BY <1>3, WorthType
<1>5. Worth(g, L, k) <= Worth(g, M, k)
  BY WorthMore
<1>6. Below(v, Worth(g, M, k))
  BY <1>1, <1>2, <1>4, <1>5, BelowMore
<1>7. k \in KeysIn(g, M)
  BY <1>2 DEF KeysIn
<1> QED
  BY <1>6, <1>7 DEF v, k

\* topn_cont_add_item with an amount that some lines M are worth at most.
LEMMA AddBounded ==
    ASSUME NEW D, IsFiniteSet(D), NEW g \in Tallies(D),
           NEW L \in SUBSET D, NEW M \in SUBSET D, L \cap M = {},
           NEW seq \in Seq(Items(Names)), DistinctKeys(seq), Bounded(g, seq, L),
           NEW key \in KeysIn(g, M), key \in Names,
           NEW value \in Int, Below(value, Worth(g, M, key))
    PROVE  Bounded(g, AddItem(seq, key, value), L \cup M)
<1> DEFINE new == AddItem(seq, key, value)
           All == L \cup M
<1>1. All \in SUBSET D /\ L \in SUBSET All /\ M \in SUBSET All
  OBVIOUS
<1>2. \A p \in DOMAIN new :
        \/ \E j \in DOMAIN seq : seq[j].key # key /\ new[p] = seq[j]
        \/ key \notin Keys(seq) /\ new[p].key = key /\ new[p].value = value
        \/ \E j \in DOMAIN seq :
              /\ seq[j].key = key /\ new[p].key = key
              /\ new[p].value = Wrapped(seq[j].value + value)
  BY AddedValues
<1>3. \A k : Worth(g, All, k) = Worth(g, L, k) + Worth(g, M, k)
  BY WorthAdds
<1>4. \A k : Worth(g, L, k) \in Nat /\ Worth(g, M, k) \in Nat /\ Worth(g, All, k) \in Nat
  BY <1>1, WorthType
<1>5. KeysIn(g, L) \subseteq KeysIn(g, All) /\ KeysIn(g, M) \subseteq KeysIn(g, All)
  BY DEF KeysIn
<1> HIDE DEF new, All
<1> SUFFICES ASSUME NEW p \in DOMAIN new
             PROVE  new[p].key \in KeysIn(g, All) /\ Below(new[p].value, Worth(g, All, new[p].key))
  BY DEF Bounded, new, All
<1>6. ASSUME NEW j \in DOMAIN seq
      PROVE  /\ seq[j].key \in KeysIn(g, L) /\ seq[j].value \in Int
             /\ Below(seq[j].value, Worth(g, L, seq[j].key))
  BY ItemType DEF Bounded
<1>7. ASSUME NEW j \in DOMAIN seq, new[p] = seq[j]
      PROVE  new[p].key \in KeysIn(g, All) /\ Below(new[p].value, Worth(g, All, new[p].key))
  <2> DEFINE k == seq[j].key
  <2>1. Worth(g, L, k) <= Worth(g, All, k)
    BY <1>3, <1>4
  <2>2. Below(seq[j].value, Worth(g, All, k))
    BY <1>4, <1>6, <2>1, BelowMore
  <2> QED
    BY <1>5, <1>6, <1>7, <2>2
<1>8. ASSUME new[p].key = key, new[p].value = value
      PROVE  new[p].key \in KeysIn(g, All) /\ Below(new[p].value, Worth(g, All, new[p].key))
  <2>1. Worth(g, M, key) <= Worth(g, All, key)
    BY <1>3, <1>4
  <2>2. Below(value, Worth(g, All, key))
    BY <1>4, <2>1, BelowMore
  <2> QED
    BY <1>5, <1>8, <2>2
<1>9. ASSUME NEW j \in DOMAIN seq, seq[j].key = key, new[p].key = key,
             new[p].value = Wrapped(seq[j].value + value)
      PROVE  new[p].key \in KeysIn(g, All) /\ Below(new[p].value, Worth(g, All, new[p].key))
  <2>1. Below(seq[j].value, Worth(g, L, key)) /\ seq[j].value \in Int
    BY <1>6, <1>9
  <2>2. Below(new[p].value, Worth(g, L, key) + Worth(g, M, key))
    BY <1>4, <1>9, <2>1, BelowWrapped
  <2> QED
    BY <1>3, <1>5, <1>9, <2>2
<1> QED
  BY <1>2, <1>7, <1>8, <1>9

\* topn_cont_add_item with what the lines M are worth, if the sum is a gint.
LEMMA AddTruth ==
    ASSUME NEW D, IsFiniteSet(D), NEW g \in Tallies(D),
           NEW L \in SUBSET D, NEW M \in SUBSET D, L \cap M = {},
           NEW seq \in Seq(Items(Names)), DistinctKeys(seq), Truth(g, seq, L),
           NEW key \in Names, KeysIn(g, M) = {key},
           Worth(g, L \cup M, key) <= IntMax
    PROVE  Truth(g, AddItem(seq, key, Worth(g, M, key)), L \cup M)
<1> DEFINE value == Worth(g, M, key)
           new == AddItem(seq, key, value)
           All == L \cup M
<1>1. \A k : Worth(g, L, k) \in Nat /\ Worth(g, M, k) \in Nat
  BY WorthType
<1>2. \A k : Worth(g, All, k) = Worth(g, L, k) + Worth(g, M, k)
  BY WorthAdds
<1>3. value \in Int
  BY <1>1
<1>4. \A k : k \notin KeysIn(g, L) => Worth(g, L, k) = 0
  BY WorthNone
<1>5. \A k : k # key => Worth(g, M, k) = 0
  BY WorthNone
<1>6. KeysIn(g, All) = KeysIn(g, L) \cup {key}
  <2>1. KeysIn(g, All) = KeysIn(g, L) \cup KeysIn(g, M)
    BY DEF KeysIn
  <2> QED
    BY <2>1
<1> HIDE DEF value
<1>7. /\ Keys(new) = Keys(seq) \cup {key}
      /\ \A p \in DOMAIN new :
            \/ \E j \in DOMAIN seq : seq[j].key # key /\ new[p] = seq[j]
            \/ key \notin Keys(seq) /\ new[p].key = key /\ new[p].value = value
            \/ \E j \in DOMAIN seq :
                  /\ seq[j].key = key /\ new[p].key = key
                  /\ new[p].value = Wrapped(seq[j].value + value)
  BY <1>3, AddedValues
<1>8. Worth(g, All, key) <= IntMax
  OBVIOUS
<1> HIDE DEF new, All
<1>9. Keys(new) = KeysIn(g, All)
  BY <1>6, <1>7 DEF Truth
<1>10. ASSUME NEW p \in DOMAIN new
       PROVE  new[p].value = Worth(g, All, new[p].key)
  <2>1. ASSUME NEW j \in DOMAIN seq, seq[j].key # key, new[p] = seq[j]
        PROVE  new[p].value = Worth(g, All, new[p].key)
    <3>1. new[p].value = Worth(g, L, seq[j].key)
      BY <2>1 DEF Truth
    <3>2. Worth(g, M, seq[j].key) = 0
      BY <1>5, <2>1
    <3> QED
      BY <1>1, <1>2, <2>1, <3>1, <3>2
  <2>2. ASSUME key \notin Keys(seq), new[p].key = key, new[p].value = value
        PROVE  new[p].value = Worth(g, All, new[p].key)
    <3>1. Worth(g, L, key) = 0
      BY <1>4, <2>2 DEF Truth
    <3> QED
      BY <1>1, <1>2, <2>2, <3>1 DEF value
  <2>3. ASSUME NEW j \in DOMAIN seq, seq[j].key = key, new[p].key = key,
               new[p].value = Wrapped(seq[j].value + value)
        PROVE  new[p].value = Worth(g, All, new[p].key)
    <3>1. seq[j].value = Worth(g, L, key)
      BY <2>3 DEF Truth
    <3>2. seq[j].value + value = Worth(g, All, key) /\ Worth(g, All, key) \in Nat
      BY <1>1, <1>2, <3>1 DEF value
    <3>3. Wrapped(Worth(g, All, key)) = Worth(g, All, key)
      BY <1>8, <3>2, IntMaxAssumption DEF Wrapped, IntMin
    <3> QED
      BY <2>3, <3>2, <3>3
  <2> QED
    BY <1>7, <2>1, <2>2, <2>3
<1> QED
  BY <1>9, <1>10 DEF Truth, new, All, value

\* topn_cont_prep_capacity only drops items ...
LEMMA PreparedItems ==
    ASSUME NEW seq \in Seq(Items(Names)), NEW cap \in Nat, NEW i \in DOMAIN PrepCapacity(seq, cap)
    PROVE  i \in DOMAIN seq /\ PrepCapacity(seq, cap)[i] = seq[i]
<1>1. Len(seq) \in Nat /\ DOMAIN seq = 1 .. Len(seq)
  BY LenProperties
<1>2. CASE Len(seq) > cap
  <2> DEFINE cut == SubSeq(seq, 1, cap)
  <2>1. \A j \in 1 .. cap : j \in DOMAIN seq
    BY <1>1, <1>2
  <2>2. \A j \in 1 .. cap : seq[j] \in Items(Names)
    BY <2>1, ItemType
  <2>3. /\ cut \in Seq(Items(Names)) /\ Len(cut) = IF 1 <= cap THEN cap - 1 + 1 ELSE 0
        /\ \A j \in 1 .. cap - 1 + 1 : cut[j] = seq[1 + j - 1]
    BY <2>2, SubSeqProperties
  <2>4. PrepCapacity(seq, cap) = cut
    BY <1>2 DEF PrepCapacity
  <2> HIDE DEF cut
  <2>5. DOMAIN cut = 1 .. cap /\ \A j \in 1 .. cap : cut[j] = seq[j]
    BY <2>3, LenProperties
  <2> QED
    BY <2>1, <2>4, <2>5
<1>3. CASE ~ (Len(seq) > cap)
  BY <1>3 DEF PrepCapacity
<1> QED
  BY <1>2, <1>3

LEMMA PreparedBounded ==
    ASSUME NEW g, NEW L, NEW seq \in Seq(Items(Names)), NEW cap \in Nat, Bounded(g, seq, L)
    PROVE  Bounded(g, PrepCapacity(seq, cap), L)
  BY PreparedItems DEF Bounded

\* ... and none if there is room for all keys.
LEMMA PreparedWhole ==
    ASSUME NEW D, IsFiniteSet(D), NEW g \in Tallies(D), NEW L \in SUBSET D,
           NEW seq \in Seq(Items(Names)), DistinctKeys(seq), Truth(g, seq, L),
           NEW cap \in Nat, Cardinality(KeysIn(g, D)) <= cap
    PROVE  PrepCapacity(seq, cap) = seq
<1> DEFINE n == Len(seq)
           All == KeysIn(g, D)
           key == [i \in 1 .. n |-> seq[i].key]
           keyOf == [e \in D |-> g[e].key]
<1>1. n \in Nat /\ DOMAIN seq = 1 .. n
  BY LenProperties
<1>2. IsFiniteSet(All)
  <2>1. keyOf \in [D -> All]
    BY DEF KeysIn
  <2>2. All = {keyOf[e] : e \in D}
    BY DEF KeysIn
  <2> HIDE DEF All, keyOf
  <2>3. IsFiniteSet({keyOf[e] : e \in D})
    BY <2>1, ImageFinite
  <2> QED
    BY <2>2, <2>3
<1>3. key \in Injection(1 .. n, All)
  <2>1. key \in [1 .. n -> All]
    <3>1. ASSUME NEW i \in 1 .. n
          PROVE  seq[i].key \in All
      <4>1. seq[i].key \in KeysIn(g, L)
        BY <1>1 DEF Truth, Keys
      <4> QED
        BY <4>1 DEF KeysIn
    <3> QED
      BY <3>1
  <2>2. \A i, j \in 1 .. n : key[i] = key[j] => i = j
    BY <1>1 DEF DistinctKeys
  <2> HIDE DEF key, All, n
  <2> QED
    BY <2>1, <2>2, Fun_IsInj
<1>4. Cardinality(1 .. n) <= Cardinality(All)
  <2> HIDE DEF key, All, n
  <2> QED
    BY <1>2, <1>3, FS_Injection
<1>5. Cardinality(1 .. n) = n
  <2> HIDE DEF n
  <2> QED
    BY <1>1, FS_Interval
<1>6. Cardinality(All) \in Nat
  BY <1>2, FS_CardinalityType
<1>7. ~ (n > cap)
  <2> HIDE DEF n
  <2> QED
    BY <1>1, <1>4, <1>5, <1>6
<1> QED
  BY <1>7 DEF PrepCapacity

----------------------------------------------------------------------------
(* The lines of the logs *)

LEMMA LineFacts ==
    ASSUME log \in Logs, NEW e \in Matched
    PROVE  /\ e[1] \in 1 .. FileCount /\ e[2] \in 1 .. Len(log[e[1]].lines)
           /\ e = <<e[1], e[2]>> /\ log[e[1]].readable
           /\ Len(log[e[1]].lines) \in Nat /\ LineAt(e).matched
           /\ LineAt(e).size \in 0 .. IntMax
           /\ LineAt(e).url \in Names /\ LineAt(e).referer \in Names
<1>1. PICK f \in 1 .. FileCount :
        /\ log[f].readable
        /\ e \in {f} \X {i \in 1 .. Len(log[f].lines) : log[f].lines[i].matched}
  BY DEF Matched
<1>2. /\ e[1] = f /\ e[2] \in 1 .. Len(log[f].lines) /\ e = <<e[1], e[2]>>
      /\ log[f].lines[e[2]].matched
  BY <1>1
<1>3. Len(log[f].lines) \in Nat /\ log[f].lines[e[2]].size \in 0 .. IntMax
  BY <1>2, LogsAssumption
<1>4. e[2] \in Nat
  BY <1>2
<1>5. log[f].lines[e[2]].url \in Names /\ log[f].lines[e[2]].referer \in Names
  BY <1>4 DEF Names
<1> QED
  BY <1>1, <1>2, <1>3, <1>5 DEF LineAt

LEMMA MatchedLine ==
    ASSUME NEW f \in 1 .. FileCount, log[f].readable,
           NEW i \in 1 .. Len(log[f].lines), log[f].lines[i].matched
    PROVE  <<f, i>> \in Matched
<1> DEFINE lines == {j \in 1 .. Len(log[f].lines) : log[f].lines[j].matched}
<1>1. <<f, i>> \in {f} \X lines
  OBVIOUS
<1> QED
  BY <1>1 DEF Matched

LEMMA MatchedFinite ==
    ASSUME log \in Logs
    PROVE  IsFiniteSet(Matched)
<1> DEFINE F == 1 .. FileCount
           box == [f \in F |-> {f} \X (1 .. Len(log[f].lines))]
           R == {box[f] : f \in F}
<1>1. IsFiniteSet(F)
  BY CountAssumption, FS_Interval
<1>2. ASSUME NEW f \in F
      PROVE  IsFiniteSet({f} \X (1 .. Len(log[f].lines)))
  <2>1. Len(log[f].lines) \in Nat
    BY LogsAssumption
  <2>2. IsFiniteSet({f})
    BY FS_Singleton
  <2>3. IsFiniteSet(1 .. Len(log[f].lines))
    BY <2>1, FS_Interval
  <2> QED
    BY <2>2, <2>3, FS_Product
<1>3. \A X \in R : IsFiniteSet(X)
  BY <1>2
<1>4. \A e \in Matched : e \in UNION R
  <2> SUFFICES ASSUME NEW e \in Matched
               PROVE  e \in UNION R
    OBVIOUS
  <2>1. e[1] \in 1 .. FileCount /\ e[2] \in 1 .. Len(log[e[1]].lines) /\ e = <<e[1], e[2]>>
    BY LineFacts
  <2>2. e \in box[e[1]]
    BY <2>1
  <2> QED
    BY <2>1, <2>2
<1>5. IsFiniteSet(R)
  <2>1. box \in [F -> R]
    OBVIOUS
  <2>2. R = {box[f] : f \in F}
    OBVIOUS
  <2> HIDE DEF box, F, R
  <2>3. IsFiniteSet({box[f] : f \in F})
    BY <1>1, <2>1, ImageFinite
  <2> QED
    BY <2>2, <2>3
<1>6. IsFiniteSet(UNION R)
  <2> HIDE DEF R
  <2> QED
    BY <1>3, <1>5, FS_UNION
<1>7. Matched \in SUBSET UNION R
  BY <1>4
<1> HIDE DEF R
<1> QED
  BY <1>6, <1>7, FS_Subset

\* What every line counts for in a container, and for the total.
Tally(c) == [e \in Hits(c) |-> Entry(KeyAt(c, e), Amount(c, e))]
Sizes == [e \in Matched |-> Entry(LineAt(e).referer, LineAt(e).size)]

LEMMA TallyType ==
    ASSUME log \in Logs, NEW c \in Tables
    PROVE  /\ Hits(c) \in SUBSET Matched /\ IsFiniteSet(Hits(c))
           /\ Tally(c) \in Tallies(Hits(c))
           /\ \A e \in Hits(c) :
                 /\ Tally(c)[e].key = KeyAt(c, e) /\ Tally(c)[e].value = Amount(c, e)
                 /\ Amount(c, e) \in 0 .. IntMax /\ KeyAt(c, e) \in Names
<1>1. Hits(c) \in SUBSET Matched
  BY DEF Hits
<1>2. IsFiniteSet(Hits(c))
  BY <1>1, MatchedFinite, FS_Subset
<1>3. ASSUME NEW e \in Hits(c)
      PROVE  Amount(c, e) \in 0 .. IntMax /\ KeyAt(c, e) \in Names
  <2>1. /\ LineAt(e).size \in 0 .. IntMax
        /\ LineAt(e).url \in Names /\ LineAt(e).referer \in Names
    BY <1>1, LineFacts
  <2> QED
    BY <2>1, IntMaxAssumption DEF Amount, KeyAt
<1>4. \A e \in Hits(c) : Entry(KeyAt(c, e), Amount(c, e)) \in [key : Names, value : Nat]
  BY <1>3, IntMaxAssumption DEF Entry
<1> QED
  BY <1>1, <1>2, <1>3, <1>4 DEF Tally, Tallies, Entry

LEMMA SizesType ==
    ASSUME log \in Logs
    PROVE  /\ Sizes \in Tallies(Matched)
           /\ \A e \in Matched : Sizes[e].value = LineAt(e).size
<1>1. \A e \in Matched : LineAt(e).size \in Nat /\ LineAt(e).referer \in Names
  BY LineFacts, IntMaxAssumption
<1> QED
  BY <1>1 DEF Sizes, Tallies, Entry

\* The properties speak of the same sums.
LEMMA TrueSums ==
    ASSUME log \in Logs
    PROVE  /\ TrueTotal = Sum(Sizes, Matched)
           /\ \A c \in Tables :
                 /\ KeysOf(c) = KeysIn(Tally(c), Hits(c))
                 /\ \A key : TrueValue(c, key) = Worth(Tally(c), Hits(c), key)
<1>1. TrueTotal = Sum(Sizes, Matched)
  <2>1. \A e \in Matched : Amount("url", e) = Sizes[e].value
    BY SizesType DEF Amount
  <2>2. Units("url", Matched) = Parts(Sizes, Matched)
    BY <2>1 DEF Units, Parts
  <2> QED
    BY <2>2 DEF TrueTotal, Sum
<1>2. ASSUME NEW c \in Tables
      PROVE  KeysOf(c) = KeysIn(Tally(c), Hits(c))
  BY TallyType DEF KeysOf, KeysIn
<1>3. ASSUME NEW c \in Tables, NEW key
      PROVE  TrueValue(c, key) = Worth(Tally(c), Hits(c), key)
  <2> DEFINE L == {e \in Hits(c) : KeyAt(c, e) = key}
  <2>1. \A e \in Hits(c) : Tally(c)[e].key = KeyAt(c, e) /\ Tally(c)[e].value = Amount(c, e)
    BY TallyType
  <2>2. With(Tally(c), Hits(c), key) = L
    BY <2>1 DEF With
  <2>3. Units(c, L) = Parts(Tally(c), L)
    <3>1. \A e \in L : Amount(c, e) = Tally(c)[e].value
      BY <2>1
    <3> HIDE DEF L
    <3> QED
      BY <3>1 DEF Units, Parts
  <2> QED
    BY <2>2, <2>3 DEF TrueValue, Worth, Sum
<1> QED
  BY <1>1, <1>2, <1>3

LEMMA SameLog ==
    ASSUME log' = log
    PROVE  /\ Matched' = Matched /\ Sizes' = Sizes
           /\ \A e : LineAt(e)' = LineAt(e)
           /\ \A c : /\ Hits(c)' = Hits(c) /\ Tally(c)' = Tally(c)
                     /\ HasRoom(c)' <=> HasRoom(c)
           /\ \A c, e : KeyAt(c, e)' = KeyAt(c, e)
<1>1. Matched' = Matched
  <2> DEFINE In(l) ==
               UNION {{f} \X {i \in 1 .. Len(l[f].lines) : l[f].lines[i].matched} :
                         f \in {f \in 1 .. FileCount : l[f].readable}}
  <2>1. Matched = In(log) /\ Matched' = In(log')
    BY DEF Matched
  <2> HIDE DEF In
  <2> QED
    BY <2>1
<1>2. \A e : LineAt(e)' = LineAt(e)
  BY DEF LineAt
<1>3. \A c, e : KeyAt(c, e)' = KeyAt(c, e) /\ Amount(c, e)' = Amount(c, e)
  BY <1>2 DEF KeyAt, Amount
<1>4. \A c : Hits(c)' = Hits(c)
  BY <1>1, <1>2 DEF Hits
<1>5. \A c : Tally(c)' = Tally(c)
  BY <1>3, <1>4 DEF Tally
<1>6. Sizes' = Sizes
  BY <1>1, <1>2 DEF Sizes
<1>7. ASSUME NEW c
      PROVE  HasRoom(c)' <=> HasRoom(c)
  <2>1. KeysOf(c)' = KeysOf(c)
    BY <1>3, <1>4 DEF KeysOf
  <2>2. \A L : Units(c, L)' = Units(c, L)
    BY <1>3 DEF Units
  <2>3. \A key : TrueValue(c, key)' = TrueValue(c, key)
    BY <1>3, <1>4, <2>2 DEF TrueValue
  <2> QED
    BY <2>1, <2>3 DEF HasRoom
<1> QED
  BY <1>1, <1>2, <1>3, <1>4, <1>5, <1>6, <1>7

----------------------------------------------------------------------------
(* Where the threads are *)

Reading == {"read", "total", "merge", "merging"}

\* What a thread has made sure of about its file and its line.
Where(t) ==
    /\ pc[t] \in Reading => file[t] <= Len(slice[t]) /\ File(t).readable
    /\ pc[t] = "total" => File(t).lines[line[t]].matched
    /\ pc[t] \in {"merge", "merging"} => line[t] > Len(File(t).lines)
    /\ pc[t] = "ended" => file[t] > Len(slice[t])
    /\ pc[t] = "off" => file[t] = 1

Progress == \A t \in Threads : Where(t)

\* After the joins every thread has been created and has ended.
Ended == main \in {"joined", "done"} => started = T /\ \A t \in Threads : pc[t] = "ended"

\* What a step of a thread leaves to the others.
LEMMA ThreadStep ==
    ASSUME TypeOK, Lists, NEW t \in Threads, Thread(t)
    PROVE  /\ log' = log /\ main' = main /\ started' = started /\ slice' = slice
           /\ pc[t] \notin {"off", "ended"}
           /\ \A u \in Threads \ {t} :
                 /\ pc'[u] = pc[u] /\ file'[u] = file[u] /\ line'[u] = line[u]
                 /\ own'[u] = own[u] /\ table'[u] = table[u] /\ todo'[u] = todo[u]
                 /\ loaded'[u] = loaded[u]
<1>1. CASE OpenFile(t) \/ EndThread(t)
  BY <1>1 DEF OpenFile, EndThread, TypeOK, Lists, mainVars, mergeVars, totalVars
<1>2. CASE SkipLine(t) \/ ParseLine(t)
  BY <1>2 DEF SkipLine, ParseLine, TypeOK, Lists, mainVars, mergeVars, totalVars
<1>3. CASE AddTotal(t) \/ CloseFile(t)
  BY <1>3 DEF AddTotal, CloseFile, TypeOK, Lists, mainVars, mergeVars, totalVars
<1>4. CASE MergeBegin(t) \/ MergeItem(t)
  BY <1>4 DEF MergeBegin, MergeItem, TypeOK, Lists, mainVars, threadVars, totalVars
<1>5. CASE MergeEnd(t)
  BY <1>5 DEF MergeEnd, TypeOK, Lists, mainVars, totalVars
<1> QED
  BY <1>1, <1>2, <1>3, <1>4, <1>5 DEF Thread

LEMMA WhereSame ==
    ASSUME log' = log, NEW t, slice'[t] = slice[t], file'[t] = file[t],
           line'[t] = line[t], pc'[t] = pc[t], Where(t)
    PROVE  Where(t)'
  BY DEF Where, File

\* A file that a thread works on is one of the list.
LEMMA FileType ==
    ASSUME TypeOK, NEW t \in Threads, file[t] <= Len(slice[t])
    PROVE  /\ file[t] \in 1 .. Len(slice[t]) /\ slice[t][file[t]] \in 1 .. FileCount
           /\ Len(File(t).lines) \in Nat /\ line[t] \in Nat \ {0}
<1>1. slice[t] \in Seq(1 .. FileCount) /\ file[t] \in Nat \ {0}
  BY DEF TypeOK
<1>2. file[t] \in 1 .. Len(slice[t])
  BY <1>1, LenProperties
<1>3. slice[t][file[t]] \in 1 .. FileCount
  BY <1>1, <1>2, ElementOfSeq
<1> QED
  BY <1>2, <1>3, LogsAssumption DEF File, TypeOK

LEMMA WhereThread ==
    ASSUME TypeOK, Lists, NEW t \in Threads, Where(t), Thread(t)
    PROVE  Where(t)'
<1>1. log' = log /\ slice' = slice /\ pc[t] \notin {"off", "ended"}
  BY ThreadStep
<1>2. CASE OpenFile(t)
  <2>1. CASE File(t).readable
    <3>1. pc'[t] = "read" /\ file' = file /\ file[t] <= Len(slice[t])
      BY <1>2, <2>1 DEF OpenFile, TypeOK
    <3> QED
      BY <1>1, <2>1, <3>1 DEF Where, File, Reading
  <2>2. CASE ~ File(t).readable
    <3>1. pc'[t] = "next"
      BY <1>2, <2>2 DEF OpenFile
    <3> QED
      BY <3>1 DEF Where, Reading
  <2> QED
    BY <2>1, <2>2
<1>3. CASE EndThread(t)
  <2>1. pc'[t] = "ended" /\ file' = file /\ file[t] > Len(slice[t])
    BY <1>3 DEF EndThread, TypeOK
  <2> QED
    BY <1>1, <2>1 DEF Where, Reading
<1>4. CASE SkipLine(t) \/ AddTotal(t)
  <2>1. pc[t] \in Reading /\ pc'[t] = "read" /\ file' = file
    BY <1>4 DEF SkipLine, AddTotal, TypeOK, Reading
  <2> QED
    BY <1>1, <2>1 DEF Where, File, Reading
<1>5. CASE ParseLine(t)
  <2>1. /\ pc[t] \in Reading /\ pc'[t] = "total" /\ file' = file /\ line' = line
        /\ File(t).lines[line[t]].matched
    BY <1>5 DEF ParseLine, TypeOK, Reading
  <2> QED
    BY <1>1, <2>1 DEF Where, File, Reading
<1>6. CASE CloseFile(t)
  <2>1. /\ pc[t] \in Reading /\ pc'[t] = "merge" /\ file' = file /\ line' = line
        /\ line[t] > Len(File(t).lines)
    BY <1>6 DEF CloseFile, TypeOK, Reading
  <2> QED
    BY <1>1, <2>1 DEF Where, File, Reading
<1>7. CASE MergeBegin(t) \/ MergeItem(t)
  <2>1. /\ pc[t] \in {"merge", "merging"} /\ pc'[t] = "merging" /\ file' = file /\ line' = line
    BY <1>7 DEF MergeBegin, MergeItem, TypeOK, threadVars
  <2> QED
    BY <1>1, <2>1 DEF Where, File, Reading
<1>8. CASE MergeEnd(t)
  <2>1. CASE table[t] = "url"
    <3>1. /\ pc[t] \in {"merge", "merging"} /\ pc'[t] = "merge" /\ file' = file /\ line' = line
      BY <1>8, <2>1 DEF MergeEnd, TypeOK
    <3> QED
      BY <1>1, <3>1 DEF Where, File, Reading
  <2>2. CASE table[t] # "url"
    <3>1. pc'[t] = "next"
      BY <1>8, <2>2 DEF MergeEnd, TypeOK
    <3> QED
      BY <3>1 DEF Where, Reading
  <2> QED
    BY <2>1, <2>2
<1> QED
  BY <1>2, <1>3, <1>4, <1>5, <1>6, <1>7, <1>8 DEF Thread

\* What a step of main leaves to the threads: the one it creates has read nothing.
LEMMA MainStep ==
    ASSUME TypeOK, Places, Main
    PROVE  /\ log' = log /\ UNCHANGED <<file, line, own, mergeVars, totalVars>>
           /\ \A t \in Threads :
                 \/ slice'[t] = slice[t] /\ pc'[t] = pc[t]
                 \/ pc[t] = "off" /\ pc'[t] = "next"
<1>1. CASE CreateThread
  <2>1. started + 1 \in Threads /\ started \in Nat
    BY <1>1, ThreadsType DEF CreateThread, TypeOK, Threads
  <2>2. pc[started + 1] = "off"
    BY <2>1 DEF Places
  <2> QED
    BY <1>1, <2>1, <2>2 DEF CreateThread, TypeOK
<1>2. CASE CreateFails \/ Join \/ Report
  BY <1>2 DEF CreateFails, Join, Report, threadVars
<1> QED
  BY <1>1, <1>2 DEF Main

LEMMA ProgressStep ==
    ASSUME TypeOK, Places, Lists, Progress, Ended, [Next]_vars
    PROVE  Progress' /\ Ended'
<1>1. CASE UNCHANGED vars
  BY <1>1 DEF Progress, Where, Ended, File, vars, mainVars, threadVars
<1>2. CASE Main
  <2>1. ASSUME NEW t \in Threads
        PROVE  Where(t)'
    <3>1. CASE slice'[t] = slice[t] /\ pc'[t] = pc[t]
      BY <1>2, <3>1, MainStep, WhereSame DEF Progress
    <3>2. CASE pc'[t] = "next"
      BY <3>2 DEF Where, Reading
    <3> QED
      BY <1>2, <3>1, <3>2, MainStep
  <2>2. Ended'
    <3>1. CASE CreateThread \/ CreateFails
      <4>1. main' \in {"create", "exited"}
        BY <3>1 DEF CreateThread, CreateFails
      <4> QED
        BY <4>1 DEF Ended
    <3>2. CASE Join \/ Report
      BY <3>2 DEF Join, Report, Ended, threadVars
    <3> QED
      BY <1>2, <3>1, <3>2 DEF Main
  <2> QED
    BY <2>1, <2>2 DEF Progress
<1>3. ASSUME NEW t \in Threads, Thread(t)
      PROVE  Progress' /\ Ended'
  <2>1. ASSUME NEW u \in Threads
        PROVE  Where(u)'
    <3>1. CASE u = t
      BY <1>3, <3>1, WhereThread DEF Progress
    <3>2. CASE u # t
      <4>1. /\ log' = log /\ slice'[u] = slice[u] /\ file'[u] = file[u]
            /\ line'[u] = line[u] /\ pc'[u] = pc[u]
        BY <1>3, <3>2, ThreadStep
      <4> QED
        BY <4>1, WhereSame DEF Progress
    <3> QED
      BY <3>1, <3>2
  <2>2. pc[t] # "ended" /\ main' = main
    BY <1>3, ThreadStep
  <2>3. Ended'
    BY <2>2 DEF Ended
  <2> QED
    BY <2>1, <2>3 DEF Progress
<1> QED
  BY <1>1, <1>2, <1>3 DEF Next

----------------------------------------------------------------------------
(* Whose lines *)

\* A line of a file that a thread has finished, and one that it has read of
\* the file it works on.
PastLine(t, e) == \E j \in 1 .. Len(slice[t]) : j < file[t] /\ slice[t][j] = e[1]

ReadLine(t, e) ==
    /\ pc[t] \in Reading
    /\ e[1] = slice[t][file[t]]
    /\ e[2] < line[t] \/ (pc[t] = "total" /\ e[2] = line[t])

\* The URLs of the file have been merged; the referers come next.
Gone(c, t) == pc[t] \in {"merge", "merging"} /\ c = "url" /\ table[t] = "ref"

\* The lines that a thread's own container counts, and those that it has given
\* to the global one: while it merges, the lines whose items are merged.
Private(c, t) == {e \in Hits(c) : ReadLine(t, e) /\ ~ Gone(c, t)}

Merged(c, t, e) ==
    \/ PastLine(t, e)
    \/ /\ ReadLine(t, e)
       /\ \/ Gone(c, t)
          \/ /\ pc[t] = "merging" /\ table[t] = c
             /\ KeyAt(c, e) \notin Keys(todo[t])

ListLines(c) == {e \in Hits(c) : \E t \in Threads : Merged(c, t, e)}

\* The lines whose sizes are in the total.
Stored(t, e) == PastLine(t, e) \/ (ReadLine(t, e) /\ (pc[t] = "total" => e[2] # line[t]))

TotalLines == {e \in Matched : \E t \in Threads : Stored(t, e)}

\* No line belongs to two threads, and none of the file at work is of a file
\* that is finished.
LEMMA LinesApart ==
    ASSUME TypeOK, Places, Progress, NEW t \in Threads, NEW u \in Threads, NEW e
    PROVE  /\ (PastLine(t, e) \/ ReadLine(t, e)) /\ (PastLine(u, e) \/ ReadLine(u, e)) => t = u
           /\ ~ (PastLine(t, e) /\ ReadLine(t, e))
<1>1. ASSUME NEW v \in Threads, slice[v] # <<>>
      PROVE  slice[v] = Slice(v)
  BY <1>1 DEF Places
<1>2. ASSUME NEW v \in Threads, PastLine(v, e)
      PROVE  \E j \in 1 .. Len(Slice(v)) :
                slice[v] = Slice(v) /\ j < file[v] /\ Slice(v)[j] = e[1]
  <2>1. PICK j \in 1 .. Len(slice[v]) : j < file[v] /\ slice[v][j] = e[1]
    BY <1>2 DEF PastLine
  <2>2. slice[v] # <<>>
    BY <2>1
  <2> QED
    BY <1>1, <2>1, <2>2
<1>3. ASSUME NEW v \in Threads, ReadLine(v, e)
      PROVE  \E j \in 1 .. Len(Slice(v)) :
                slice[v] = Slice(v) /\ j = file[v] /\ Slice(v)[j] = e[1]
  <2>1. file[v] \in 1 .. Len(slice[v]) /\ slice[v][file[v]] = e[1]
    BY <1>3, FileType DEF ReadLine, Progress, Where
  <2>2. slice[v] # <<>>
    BY <2>1
  <2> QED
    BY <1>1, <2>1, <2>2
<1>4. ASSUME PastLine(t, e) \/ ReadLine(t, e), PastLine(u, e) \/ ReadLine(u, e)
      PROVE  t = u
  <2>1. PICK j \in 1 .. Len(Slice(t)) : Slice(t)[j] = e[1]
    BY <1>2, <1>3, <1>4
  <2>2. PICK k \in 1 .. Len(Slice(u)) : Slice(u)[k] = e[1]
    BY <1>2, <1>3, <1>4
  <2> QED
    BY <2>1, <2>2, SlicesOnce
<1>5. ASSUME PastLine(t, e), ReadLine(t, e)
      PROVE  FALSE
  <2>1. PICK j \in 1 .. Len(Slice(t)) : j < file[t] /\ Slice(t)[j] = e[1]
    BY <1>2, <1>5
  <2>2. PICK k \in 1 .. Len(Slice(t)) : k = file[t] /\ Slice(t)[k] = e[1]
    BY <1>3, <1>5
  <2>3. j = k
    BY <2>1, <2>2, SlicesOnce
  <2>4. file[t] \in Nat
    BY DEF TypeOK
  <2> QED
    BY <2>1, <2>2, <2>3, <2>4
<1> QED
  BY <1>4, <1>5

\* The lines of a thread stay what they are if the thread stays where it is.
LEMMA SameThread ==
    ASSUME log' = log, NEW t, slice'[t] = slice[t], file'[t] = file[t], line'[t] = line[t],
           pc'[t] = pc[t], table'[t] = table[t], todo'[t] = todo[t]
    PROVE  /\ \A e : Stored(t, e)' <=> Stored(t, e)
           /\ \A c : Private(c, t)' = Private(c, t)
           /\ \A c, e : Merged(c, t, e)' <=> Merged(c, t, e)
<1>1. \A e : (PastLine(t, e)' <=> PastLine(t, e)) /\ (ReadLine(t, e)' <=> ReadLine(t, e))
  BY DEF PastLine, ReadLine
<1>2. \A c : Gone(c, t)' <=> Gone(c, t)
  BY DEF Gone
<1>3. /\ \A c : Hits(c)' = Hits(c)
      /\ \A c, e : KeyAt(c, e)' = KeyAt(c, e)
  BY SameLog
<1>4. \A e : Stored(t, e)' <=> Stored(t, e)
  BY <1>1 DEF Stored
<1>5. \A c : Private(c, t)' = Private(c, t)
  BY <1>1, <1>2, <1>3 DEF Private
<1>6. \A c, e : Merged(c, t, e)' <=> Merged(c, t, e)
  BY <1>1, <1>2, <1>3 DEF Merged, Keys
<1> QED
  BY <1>4, <1>5, <1>6

\* Before a thread opens its first file, no line is its own.
LEMMA NewThread ==
    ASSUME TypeOK, log' = log, NEW t \in Threads, file'[t] = file[t], file[t] = 1,
           pc[t] = "off", pc'[t] = "next"
    PROVE  /\ \A e : ~ Stored(t, e) /\ ~ Stored(t, e)'
           /\ \A c, e : ~ Merged(c, t, e) /\ ~ Merged(c, t, e)'
<1>1. \A e : ~ PastLine(t, e) /\ ~ PastLine(t, e)'
  BY DEF PastLine
<1>2. \A e : ~ ReadLine(t, e) /\ ~ ReadLine(t, e)'
  BY DEF ReadLine, Reading
<1> QED
  BY <1>1, <1>2 DEF Stored, Merged

\* The line that a thread is about to read.
Here(t) == <<slice[t][file[t]], line[t]>>

LEMMA HereFacts ==
    ASSUME TypeOK, NEW t \in Threads, file[t] <= Len(slice[t]), File(t).readable,
           line[t] <= Len(File(t).lines), File(t).lines[line[t]].matched
    PROVE  Here(t) \in Matched /\ LineAt(Here(t)) = File(t).lines[line[t]]
<1>1. /\ slice[t][file[t]] \in 1 .. FileCount
      /\ Len(File(t).lines) \in Nat /\ line[t] \in Nat \ {0}
  BY FileType
<1>2. line[t] \in 1 .. Len(File(t).lines)
  BY <1>1
<1>3. Here(t) \in Matched
  BY <1>1, <1>2, MatchedLine DEF Here, File
<1> QED
  BY <1>3 DEF Here, LineAt, File

LEMMA LinePosition ==
    ASSUME TypeOK, NEW e \in Matched
    PROVE  /\ e[2] \in Nat \ {0} /\ e[2] <= Len(log[e[1]].lines)
           /\ log[e[1]].readable /\ LineAt(e).matched
           /\ \A f, i : e[1] = f /\ e[2] = i <=> e = <<f, i>>
  BY LineFacts DEF TypeOK

\* Which of the lines are read and past after a step, by its action.
LEMMA KeepsLines ==
    ASSUME TypeOK, Lists, Progress, NEW t \in Threads, NEW e \in Matched,
           \/ SkipLine(t) \/ AddTotal(t) \/ CloseFile(t) \/ MergeBegin(t) \/ MergeItem(t)
           \/ MergeEnd(t) /\ table[t] = "url"
    PROVE  (PastLine(t, e)' <=> PastLine(t, e)) /\ (ReadLine(t, e)' <=> ReadLine(t, e))
<1>1. slice' = slice /\ log' = log /\ file' = file
  BY DEF SkipLine, AddTotal, CloseFile, MergeBegin, MergeItem, MergeEnd, mainVars, threadVars
<1>2. PastLine(t, e)' <=> PastLine(t, e)
  BY <1>1 DEF PastLine
<1>3. e[2] \in Nat /\ line[t] \in Nat
  BY LinePosition DEF TypeOK
<1>4. CASE SkipLine(t)
  <2>1. /\ pc[t] = "read" /\ pc'[t] = "read" /\ line'[t] = line[t] + 1
        /\ ~ File(t).lines[line[t]].matched
    BY <1>4 DEF SkipLine, TypeOK
  <2>2. e[1] = slice[t][file[t]] => e[2] # line[t]
    BY <2>1, LinePosition DEF LineAt, File
  <2> QED
    BY <1>1, <1>2, <1>3, <2>1, <2>2 DEF ReadLine, Reading
<1>5. CASE AddTotal(t)
  <2>1. pc[t] = "total" /\ pc'[t] = "read" /\ line'[t] = line[t] + 1
    BY <1>5 DEF AddTotal, TypeOK
  <2> QED
    BY <1>1, <1>2, <1>3, <2>1 DEF ReadLine, Reading
<1>6. CASE \/ CloseFile(t) \/ MergeBegin(t) \/ MergeItem(t)
           \/ MergeEnd(t) /\ table[t] = "url"
  <2>1. /\ pc[t] \in Reading \ {"total"} /\ pc'[t] \in Reading \ {"total"}
        /\ line' = line
    BY <1>6 DEF CloseFile, MergeBegin, MergeItem, MergeEnd, TypeOK, threadVars, Reading
  <2> QED
    BY <1>1, <1>2, <2>1 DEF ReadLine
<1> QED
  BY <1>4, <1>5, <1>6

LEMMA OpensLines ==
    ASSUME TypeOK, NEW t \in Threads, NEW e \in Matched, OpenFile(t) \/ EndThread(t)
    PROVE  /\ PastLine(t, e)' <=> PastLine(t, e)
           /\ ~ ReadLine(t, e) /\ ~ ReadLine(t, e)'
<1>1. slice' = slice /\ log' = log /\ pc[t] = "next" /\ file[t] \in Nat
  BY DEF OpenFile, EndThread, mainVars, TypeOK
<1>2. ~ ReadLine(t, e)
  BY <1>1 DEF ReadLine, Reading
<1>3. CASE EndThread(t)
  <2>1. pc'[t] = "ended" /\ file' = file
    BY <1>3 DEF EndThread, TypeOK
  <2> QED
    BY <1>1, <1>2, <2>1 DEF PastLine, ReadLine, Reading
<1>4. CASE OpenFile(t) /\ File(t).readable
  <2>1. pc'[t] = "read" /\ file' = file /\ line'[t] = 1
    BY <1>4 DEF OpenFile, TypeOK
  <2>2. e[2] \in Nat \ {0}
    BY LinePosition
  <2> QED
    BY <1>1, <1>2, <2>1, <2>2 DEF PastLine, ReadLine
<1>5. CASE OpenFile(t) /\ ~ File(t).readable
  <2>1. pc'[t] = "next" /\ file'[t] = file[t] + 1
    BY <1>1, <1>5 DEF OpenFile, TypeOK
  <2>2. slice[t][file[t]] # e[1]
    BY <1>5, LinePosition DEF File
  <2>3. PastLine(t, e)' <=> PastLine(t, e)
    BY <1>1, <2>1, <2>2 DEF PastLine
  <2> QED
    BY <1>2, <2>1, <2>3 DEF ReadLine, Reading
<1> QED
  BY <1>3, <1>4, <1>5

LEMMA ParsesLines ==
    ASSUME TypeOK, Progress, NEW t \in Threads, NEW e \in Matched, ParseLine(t)
    PROVE  /\ PastLine(t, e)' <=> PastLine(t, e)
           /\ ReadLine(t, e)' <=> ReadLine(t, e) \/ e = Here(t)
           /\ ~ ReadLine(t, Here(t))
<1>1. /\ slice' = slice /\ file' = file /\ line' = line
      /\ pc[t] = "read" /\ pc'[t] = "total" /\ line[t] \in Nat
  BY DEF ParseLine, mainVars, TypeOK
<1>2. PastLine(t, e)' <=> PastLine(t, e)
  BY <1>1 DEF PastLine
<1>3. e[1] = slice[t][file[t]] /\ e[2] = line[t] <=> e = Here(t)
  BY LinePosition DEF Here
<1>4. ReadLine(t, e)' <=> ReadLine(t, e) \/ e = Here(t)
  BY <1>1, <1>3 DEF ReadLine, Reading
<1>5. ~ ReadLine(t, Here(t))
  BY <1>1 DEF ReadLine, Here
<1> QED
  BY <1>2, <1>4, <1>5

LEMMA FinishesLines ==
    ASSUME TypeOK, Progress, NEW t \in Threads, NEW e \in Matched,
           MergeEnd(t), table[t] = "ref"
    PROVE  /\ PastLine(t, e)' <=> PastLine(t, e) \/ ReadLine(t, e)
           /\ ~ ReadLine(t, e)'
<1>1. /\ slice' = slice /\ pc'[t] = "next" /\ file'[t] = file[t] + 1
      /\ pc[t] = "merging" /\ file[t] \in Nat \ {0} /\ line[t] \in Nat
  BY DEF MergeEnd, mainVars, TypeOK
<1>2. /\ file[t] \in 1 .. Len(slice[t])
      /\ line[t] > Len(File(t).lines) /\ Len(File(t).lines) \in Nat
  BY <1>1, FileType DEF Progress, Where, Reading
<1>3. ReadLine(t, e) <=> e[1] = slice[t][file[t]]
  <2>1. e[2] \in Nat /\ e[2] <= Len(log[e[1]].lines)
    BY LinePosition
  <2>2. e[1] = slice[t][file[t]] => e[2] < line[t]
    BY <1>1, <1>2, <2>1 DEF File
  <2> QED
    BY <1>1, <2>2 DEF ReadLine, Reading
<1>4. PastLine(t, e)' <=> PastLine(t, e) \/ e[1] = slice[t][file[t]]
  BY <1>1, <1>2 DEF PastLine
<1>5. ~ ReadLine(t, e)'
  BY <1>1 DEF ReadLine, Reading
<1> QED
  BY <1>3, <1>4, <1>5

----------------------------------------------------------------------------
(* The total *)

\* A thread between the load and the store of ts_add has the mutex, and what
\* it has loaded is the total still; the total is the sum of the lines stored.
TotalIs ==
    /\ \A t \in Threads : pc[t] = "total" => totalOwner = t /\ loaded[t] = total
    /\ total = Sum(Sizes, TotalLines)

LEMMA StoredThread ==
    ASSUME TypeOK, Places, Lists, Progress, NEW t \in Threads, Thread(t), NEW e \in Matched
    PROVE  /\ ~ AddTotal(t) => (Stored(t, e)' <=> Stored(t, e))
           /\ AddTotal(t) => /\ Stored(t, e)' <=> Stored(t, e) \/ e = Here(t)
                             /\ ~ Stored(t, Here(t))
<1>1. CASE SkipLine(t) \/ CloseFile(t) \/ MergeBegin(t) \/ MergeItem(t)
           \/ (MergeEnd(t) /\ table[t] = "url")
  <2>1. (PastLine(t, e)' <=> PastLine(t, e)) /\ (ReadLine(t, e)' <=> ReadLine(t, e))
    BY <1>1, KeepsLines
  <2>2. pc[t] # "total" /\ pc'[t] # "total"
    BY <1>1 DEF SkipLine, CloseFile, MergeBegin, MergeItem, MergeEnd, threadVars, TypeOK
  <2>3. ~ AddTotal(t)
    BY <2>2 DEF AddTotal
  <2> QED
    BY <2>1, <2>2, <2>3 DEF Stored
<1>2. CASE OpenFile(t) \/ EndThread(t)
  <2>1. pc[t] = "next"
    BY <1>2 DEF OpenFile, EndThread
  <2>2. ~ AddTotal(t)
    BY <2>1 DEF AddTotal
  <2> QED
    BY <1>2, <2>2, OpensLines DEF Stored
<1>3. CASE ParseLine(t)
  <2>1. pc[t] = "read" /\ pc'[t] = "total" /\ line' = line
    BY <1>3 DEF ParseLine, TypeOK
  <2>2. ~ AddTotal(t)
    BY <2>1 DEF AddTotal
  <2>3. e[2] = line[t] => ~ ReadLine(t, e)
    BY <2>1 DEF ReadLine, TypeOK
  <2>4. e = Here(t) => e[2] = line[t]
    BY DEF Here
  <2>5. (PastLine(t, e)' <=> PastLine(t, e)) /\ (ReadLine(t, e)' <=> ReadLine(t, e) \/ e = Here(t))
    BY <1>3, ParsesLines
  <2> QED
    BY <2>1, <2>2, <2>3, <2>4, <2>5 DEF Stored
<1>4. CASE AddTotal(t)
  <2>1. pc[t] = "total" /\ pc'[t] = "read"
    BY <1>4 DEF AddTotal, TypeOK
  <2>2. (PastLine(t, e)' <=> PastLine(t, e)) /\ (ReadLine(t, e)' <=> ReadLine(t, e))
    BY <1>4, KeepsLines
  <2>3. ReadLine(t, e) /\ e[2] = line[t] <=> e = Here(t)
    BY <2>1, LinePosition DEF ReadLine, Here, Reading
  <2>4. Stored(t, e)' <=> Stored(t, e) \/ e = Here(t)
    BY <2>1, <2>2, <2>3 DEF Stored
  <2>5. ~ Stored(t, Here(t))
    <3>1. ReadLine(t, Here(t)) /\ Here(t)[2] = line[t]
      BY <2>1 DEF ReadLine, Here, Reading
    <3>2. ~ PastLine(t, Here(t))
      BY <3>1, LinesApart
    <3> QED
      BY <2>1, <3>1, <3>2 DEF Stored
  <2> QED
    BY <1>4, <2>4, <2>5
<1>5. CASE MergeEnd(t) /\ table[t] = "ref"
  <2>1. pc[t] = "merging"
    BY <1>5 DEF MergeEnd
  <2>2. ~ AddTotal(t)
    BY <2>1 DEF AddTotal
  <2>3. (PastLine(t, e)' <=> PastLine(t, e) \/ ReadLine(t, e)) /\ ~ ReadLine(t, e)'
    BY <1>5, FinishesLines
  <2> QED
    BY <2>1, <2>2, <2>3 DEF Stored
<1>6. table[t] \in {"url", "ref"}
  BY DEF TypeOK, Tables
<1> QED
  BY <1>1, <1>2, <1>3, <1>4, <1>5, <1>6 DEF Thread

LEMMA InitTotal ==
    ASSUME Init
    PROVE  TotalIs /\ Progress /\ Ended
<1>1. \A t \in Threads : pc[t] = "off" /\ file[t] = 1
  BY DEF Init
<1>2. Progress /\ Ended
  BY <1>1 DEF Init, Progress, Where, Ended, Reading
<1>3. TotalLines = {}
  BY <1>1 DEF TotalLines, Stored, PastLine, ReadLine, Reading
<1>4. TotalIs
  BY <1>1, <1>3, SumNone DEF TotalIs, Init
<1> QED
  BY <1>2, <1>4

LEMMA TotalStep ==
    ASSUME TypeOK, Places, Lists, Progress, TotalIs, [Next]_vars
    PROVE  TotalIs'
<1>1. ASSUME log' = log, \A t \in Threads : \A e \in Matched : Stored(t, e)' <=> Stored(t, e)
      PROVE  Sizes' = Sizes /\ TotalLines' = TotalLines
  <2>1. Matched' = Matched /\ Sizes' = Sizes
    BY <1>1, SameLog
  <2> QED
    BY <1>1, <2>1 DEF TotalLines
<1>2. CASE UNCHANGED vars \/ Main
  <2>1. /\ log' = log /\ UNCHANGED <<file, line, table, todo, total, totalOwner, loaded>>
        /\ \A t \in Threads :
              \/ slice'[t] = slice[t] /\ pc'[t] = pc[t]
              \/ pc[t] = "off" /\ pc'[t] = "next"
    <3>1. CASE UNCHANGED vars
      BY <3>1 DEF vars, mainVars, threadVars, mergeVars, totalVars
    <3>2. CASE Main
      BY <3>2, MainStep DEF mergeVars, totalVars
    <3> QED
      BY <1>2, <3>1, <3>2
  <2>2. ASSUME NEW t \in Threads, NEW e \in Matched
        PROVE  Stored(t, e)' <=> Stored(t, e)
    <3>1. CASE slice'[t] = slice[t] /\ pc'[t] = pc[t]
      BY <2>1, <3>1, SameThread
    <3>2. CASE pc[t] = "off" /\ pc'[t] = "next"
      <4>1. file[t] = 1 /\ file'[t] = file[t]
        BY <2>1, <3>2 DEF Progress, Where
      <4> QED
        BY <2>1, <3>2, <4>1, NewThread
    <3> QED
      BY <2>1, <3>1, <3>2
  <2>3. Sizes' = Sizes /\ TotalLines' = TotalLines
    BY <1>1, <2>1, <2>2
  <2>4. \A t \in Threads : pc'[t] = "total" => pc[t] = "total"
    BY <2>1
  <2> QED
    BY <2>1, <2>3, <2>4 DEF TotalIs
<1>3. ASSUME NEW t \in Threads, Thread(t)
      PROVE  TotalIs'
  <2>1. /\ log' = log /\ slice' = slice
        /\ \A u \in Threads \ {t} :
              /\ pc'[u] = pc[u] /\ file'[u] = file[u] /\ line'[u] = line[u]
              /\ table'[u] = table[u] /\ todo'[u] = todo[u] /\ loaded'[u] = loaded[u]
    BY <1>3, ThreadStep
  <2>2. ASSUME NEW u \in Threads \ {t}, NEW e \in Matched
        PROVE  Stored(u, e)' <=> Stored(u, e)
    BY <2>1, SameThread
  <2>3. CASE AddTotal(t)
    <3> DEFINE e == Here(t)
               size == File(t).lines[line[t]].size
    <3>1. /\ pc[t] = "total" /\ pc' = [pc EXCEPT ![t] = "read"]
          /\ total' = loaded[t] + size
      BY <2>3 DEF AddTotal
    <3>2. e \in Matched /\ Sizes[e].value = size
      <4>1. /\ file[t] <= Len(slice[t]) /\ File(t).readable
            /\ File(t).lines[line[t]].matched
        BY <3>1 DEF Progress, Where, Reading
      <4>2. line[t] <= Len(File(t).lines)
        BY <3>1 DEF Places
      <4>3. log \in Logs
        BY DEF TypeOK
      <4> QED
        BY <4>1, <4>2, <4>3, HereFacts, SizesType
    <3> HIDE DEF e, size
    <3>3. totalOwner = t /\ loaded[t] = total
      BY <3>1 DEF TotalIs
    <3>4. \A d \in Matched : Stored(t, d)' <=> Stored(t, d) \/ d = e
      BY <1>3, <2>3, StoredThread DEF e
    <3>5. Matched' = Matched /\ Sizes' = Sizes
      BY <2>1, SameLog
    <3>6. TotalLines' = TotalLines \cup {e}
      BY <2>2, <3>2, <3>4, <3>5 DEF TotalLines
    <3>7. e \notin TotalLines
      <4>1. ASSUME NEW u \in Threads, Stored(u, e)
            PROVE  FALSE
        <5>1. ReadLine(t, e)
          BY <3>1 DEF ReadLine, e, Here, Reading
        <5>2. PastLine(u, e) \/ ReadLine(u, e)
          BY <4>1 DEF Stored
        <5>3. u = t
          BY <5>1, <5>2, LinesApart
        <5>4. ~ Stored(t, e)
          BY <1>3, <2>3, <3>2, StoredThread DEF e
        <5> QED
          BY <4>1, <5>3, <5>4
      <4> QED
        BY <4>1 DEF TotalLines
    <3>8. Sum(Sizes, TotalLines \cup {e}) = Sum(Sizes, TotalLines) + size
      <4>1. IsFiniteSet(Matched) /\ Sizes \in Tallies(Matched)
        BY MatchedFinite, SizesType DEF TypeOK
      <4>2. /\ TotalLines \in SUBSET Matched /\ {e} \in SUBSET Matched
            /\ TotalLines \cap {e} = {}
        BY <3>2, <3>7 DEF TotalLines
      <4>3. Sum(Sizes, TotalLines \cup {e}) = Sum(Sizes, TotalLines) + Sum(Sizes, {e})
        BY <4>1, <4>2, SumAdds
      <4>4. Sum(Sizes, {e}) = Sizes[e].value
        BY <3>2, <4>1, SumOne
      <4> QED
        BY <3>2, <4>3, <4>4
    <3>9. total' = Sum(Sizes', TotalLines')
      BY <3>1, <3>3, <3>5, <3>6, <3>8 DEF TotalIs
    <3>10. ASSUME NEW u \in Threads, pc'[u] = "total"
           PROVE  FALSE
      <4>1. u # t /\ pc[u] = "total"
        BY <3>1, <3>10 DEF TypeOK
      <4> QED
        BY <3>3, <4>1 DEF TotalIs
    <3> QED
      BY <3>9, <3>10 DEF TotalIs
  <2>4. CASE ~ AddTotal(t)
    <3>1. \A e \in Matched : Stored(t, e)' <=> Stored(t, e)
      BY <1>3, <2>4, StoredThread
    <3>2. Sizes' = Sizes /\ TotalLines' = TotalLines
      BY <1>1, <2>1, <2>2, <3>1
    <3>3. CASE ParseLine(t)
      <4>1. /\ totalOwner = Nobody /\ totalOwner' = t /\ total' = total
            /\ loaded' = [loaded EXCEPT ![t] = total]
        BY <3>3 DEF ParseLine
      <4>2. loaded'[t] = total
        BY <4>1 DEF TypeOK
      <4>3. ASSUME NEW u \in Threads \ {t}
            PROVE  pc'[u] # "total"
        BY <2>1, <4>1, NobodyAssumption DEF TotalIs
      <4> QED
        BY <3>2, <4>1, <4>2, <4>3 DEF TotalIs
    <3>4. CASE ~ ParseLine(t)
      <4>1. UNCHANGED totalVars /\ pc'[t] # "total"
        BY <1>3, <2>4, <3>4 DEF Thread, OpenFile, EndThread, SkipLine, CloseFile, MergeBegin,
           MergeItem, MergeEnd, TypeOK, threadVars
      <4> QED
        BY <2>1, <3>2, <4>1 DEF TotalIs, totalVars
    <3> QED
      BY <3>3, <3>4
  <2> QED
    BY <2>3, <2>4
<1> QED
  BY <1>2, <1>3 DEF Next

----------------------------------------------------------------------------
(* What lines and merges do to the containers *)

\* HasRoom in terms of the tally.
LEMMA RoomFacts ==
    ASSUME log \in Logs, NEW c \in Tables, HasRoom(c), NEW L \in SUBSET Hits(c)
    PROVE  /\ Cardinality(KeysIn(Tally(c), Hits(c))) <= Capacity
           /\ \A key \in KeysIn(Tally(c), L) : Worth(Tally(c), L, key) <= IntMax
<1> DEFINE g == Tally(c)
           D == Hits(c)
<1>1. /\ Cardinality(KeysIn(g, D)) <= Capacity
      /\ \A key \in KeysIn(g, D) : Worth(g, D, key) <= IntMax
  BY TrueSums DEF HasRoom
<1>2. IsFiniteSet(D) /\ g \in Tallies(D)
  BY TallyType
<1>3. L \in SUBSET D
  OBVIOUS
<1> HIDE DEF g, D
<1>4. ASSUME NEW key \in KeysIn(g, L)
      PROVE  Worth(g, L, key) <= IntMax
  <2>1. key \in KeysIn(g, D)
    BY <1>3 DEF KeysIn
  <2>2. Worth(g, L, key) \in Nat /\ Worth(g, D, key) \in Nat
    <3>1. D \in SUBSET D
      OBVIOUS
    <3> QED
      BY <1>2, <1>3, <3>1, WorthType
  <2>3. Worth(g, L, key) <= Worth(g, D, key)
    <3>1. D \in SUBSET D
      OBVIOUS
    <3> QED
      BY <1>2, <1>3, <3>1, WorthMore
  <2> QED
    BY <1>1, <2>1, <2>2, <2>3, IntMaxAssumption
<1> QED
  BY <1>1, <1>4 DEF g, D

\* topn_cont_add for one line.
LEMMA CountLine ==
    ASSUME log \in Logs, NEW c \in Tables, NEW L \in SUBSET Hits(c), NEW e \in Hits(c), e \notin L,
           NEW seq \in Seq(Items(Names)), DistinctKeys(seq), Descending(seq)
    PROVE  /\ Bounded(Tally(c), seq, L) =>
                  Bounded(Tally(c), Add(seq, Capacity, KeyAt(c, e), Amount(c, e)), L \cup {e})
           /\ HasRoom(c) /\ Truth(Tally(c), seq, L) =>
                  Truth(Tally(c), Add(seq, Capacity, KeyAt(c, e), Amount(c, e)), L \cup {e})
<1> DEFINE g == Tally(c)
           D == Hits(c)
           M == {e}
           key == KeyAt(c, e)
           value == Amount(c, e)
           new == AddItem(seq, key, value)
<1>1. /\ IsFiniteSet(D) /\ g \in Tallies(D)
      /\ g[e].key = key /\ g[e].value = value
      /\ value \in 0 .. IntMax /\ key \in Names
  BY TallyType
<1>2. HasRoom(c) => /\ Cardinality(KeysIn(g, D)) <= Capacity
                    /\ \A k \in KeysIn(g, L \cup M) : Worth(g, L \cup M, k) <= IntMax
  <2>1. L \cup M \in SUBSET Hits(c)
    OBVIOUS
  <2> QED
    BY <2>1, RoomFacts
<1>3. L \in SUBSET D /\ M \in SUBSET D /\ L \cap M = {} /\ e \in D /\ L \cup M \in SUBSET D
  OBVIOUS
<1>4. Add(seq, Capacity, key, value) = PrepCapacity(new, Capacity)
  BY DEF Add
<1> HIDE DEF g, D, key, value
<1>5. KeysIn(g, M) = {key} /\ With(g, M, key) = {e}
  BY <1>1 DEF KeysIn, With
<1>6. Worth(g, M, key) = value
  <2>1. Sum(g, {e}) = g[e].value
    BY <1>1, <1>3, SumOne
  <2> QED
    BY <1>1, <1>5, <2>1 DEF Worth
<1>7. value \in Int /\ Below(value, Worth(g, M, key))
  BY <1>1, <1>6, BelowItself, IntMaxAssumption
<1> HIDE DEF M
<1>8. new \in Seq(Items(Names)) /\ DistinctKeys(new)
  BY <1>1, <1>7, AddedItem
<1>9. ASSUME Bounded(g, seq, L)
      PROVE  Bounded(g, PrepCapacity(new, Capacity), L \cup M)
  <2>1. key \in KeysIn(g, M)
    BY <1>5
  <2>2. Bounded(g, new, L \cup M)
    BY <1>1, <1>3, <1>7, <1>9, <2>1, AddBounded
  <2> HIDE DEF new
  <2> QED
    BY <1>8, <2>2, CapacityAssumption, PreparedBounded
<1>10. ASSUME HasRoom(c), Truth(g, seq, L)
       PROVE  Truth(g, PrepCapacity(new, Capacity), L \cup M)
  <2>1. Worth(g, L \cup M, key) <= IntMax
    <3>1. key \in KeysIn(g, L \cup M)
      BY <1>5 DEF KeysIn
    <3> QED
      BY <1>2, <1>10, <3>1
  <2>2. Truth(g, AddItem(seq, key, Worth(g, M, key)), L \cup M)
    BY <1>1, <1>3, <1>5, <1>10, <2>1, AddTruth
  <2>3. Truth(g, new, L \cup M)
    BY <1>6, <2>2
  <2> HIDE DEF new
  <2> DEFINE All == L \cup M
  <2>4. All \in SUBSET D /\ Truth(g, new, All)
    BY <1>3, <2>3
  <2>5. Cardinality(KeysIn(g, D)) <= Capacity
    BY <1>2, <1>10
  <2> HIDE DEF All
  <2>6. PrepCapacity(new, Capacity) = new
    BY <1>1, <1>8, <2>4, <2>5, CapacityAssumption, PreparedWhole
  <2> QED
    BY <2>3, <2>6
<1> QED
  BY <1>4, <1>9, <1>10 DEF g, key, value, M

\* topn_cont_add_item for one item of a container of a thread: the lines that
\* its key stands for are added to those that the list counts.
LEMMA MergeKey ==
    ASSUME log \in Logs, NEW c \in Tables, NEW L \in SUBSET Hits(c), NEW P \in SUBSET Hits(c),
           NEW key \in Names, NEW value \in Int,
           L \cap With(Tally(c), P, key) = {},
           NEW seq \in Seq(Items(Names)), DistinctKeys(seq)
    PROVE  /\ /\ key \in KeysIn(Tally(c), P) /\ Below(value, Worth(Tally(c), P, key))
              /\ Bounded(Tally(c), seq, L)
              => Bounded(Tally(c), AddItem(seq, key, value), L \cup With(Tally(c), P, key))
           /\ /\ key \in KeysIn(Tally(c), P) /\ value = Worth(Tally(c), P, key)
              /\ HasRoom(c) /\ Truth(Tally(c), seq, L)
              => Truth(Tally(c), AddItem(seq, key, value), L \cup With(Tally(c), P, key))
<1> DEFINE g == Tally(c)
           D == Hits(c)
           M == With(g, P, key)
<1>1. IsFiniteSet(D) /\ g \in Tallies(D)
  BY TallyType
<1>2. M \in SUBSET D /\ L \in SUBSET D /\ L \cap M = {}
  BY DEF With
<1>3. HasRoom(c) => \A k \in KeysIn(g, L \cup M) : Worth(g, L \cup M, k) <= IntMax
  <2>1. L \cup M \in SUBSET Hits(c)
    BY <1>2
  <2> QED
    BY <2>1, RoomFacts
<1> HIDE DEF g, D
<1>4. With(g, M, key) = M
  BY DEF With
<1>5. Worth(g, M, key) = Worth(g, P, key)
  BY <1>4 DEF Worth
<1>6. ASSUME key \in KeysIn(g, P)
      PROVE  KeysIn(g, M) = {key}
  BY <1>6 DEF KeysIn, With
<1> HIDE DEF M
<1>7. ASSUME key \in KeysIn(g, P), Below(value, Worth(g, P, key)), Bounded(g, seq, L)
      PROVE  Bounded(g, AddItem(seq, key, value), L \cup M)
  <2>1. key \in KeysIn(g, M) /\ Below(value, Worth(g, M, key))
    BY <1>5, <1>6, <1>7
  <2> QED
    BY <1>1, <1>2, <1>7, <2>1, AddBounded
<1>8. ASSUME key \in KeysIn(g, P), value = Worth(g, P, key), HasRoom(c), Truth(g, seq, L)
      PROVE  Truth(g, AddItem(seq, key, value), L \cup M)
  <2>1. KeysIn(g, M) = {key}
    BY <1>6, <1>8
  <2>2. Worth(g, L \cup M, key) <= IntMax
    <3>1. key \in KeysIn(g, L \cup M)
      BY <2>1 DEF KeysIn
    <3> QED
      BY <1>3, <1>8, <3>1
  <2>3. Truth(g, AddItem(seq, key, Worth(g, M, key)), L \cup M)
    BY <1>1, <1>2, <1>8, <2>1, <2>2, AddTruth
  <2> QED
    BY <1>5, <1>8, <2>3
<1> QED
  BY <1>7, <1>8 DEF g, M

----------------------------------------------------------------------------
(* The containers *)

\* The items that are still to be merged are items of the thread's container.
Remaining ==
    \A t \in Threads : pc[t] = "merging" =>
        /\ DistinctKeys(todo[t])
        /\ \A i \in DOMAIN todo[t] : \E j \in DOMAIN own[t][table[t]] :
                todo[t][i] = own[t][table[t]][j]

\* A container of a thread counts the lines the thread has read and not yet
\* merged, a global one those that the threads have merged.
OwnOf(c, t) ==
    /\ Bounded(Tally(c), own[t][c], Private(c, t))
    /\ HasRoom(c) => Truth(Tally(c), own[t][c], Private(c, t))

ListOf(c) ==
    /\ Bounded(Tally(c), list[c], ListLines(c))
    /\ HasRoom(c) => Truth(Tally(c), list[c], ListLines(c))

OwnIs == \A t \in Threads : \A c \in Tables : pc[t] \in Reading => OwnOf(c, t)
ListIs == \A c \in Tables : ListOf(c)

LEMMA EmptyTruth ==
    ASSUME NEW g
    PROVE  Bounded(g, <<>>, {}) /\ Truth(g, <<>>, {})
  BY DEF Bounded, Truth, Keys, KeysIn

\* A list and what is left of it when its first item is merged.
LEMMA TailItems ==
    ASSUME NEW K, NEW seq \in Seq(Items(K)), seq # <<>>
    PROVE  /\ Head(seq) = seq[1] /\ 1 \in DOMAIN seq
           /\ \A i \in DOMAIN Tail(seq) :
                 i \in Nat /\ i + 1 \in DOMAIN seq /\ Tail(seq)[i] = seq[i + 1]
           /\ Keys(seq) = {Head(seq).key} \cup Keys(Tail(seq))
           /\ DistinctKeys(seq) =>
                 DistinctKeys(Tail(seq)) /\ Head(seq).key \notin Keys(Tail(seq))
<1> DEFINE rest == Tail(seq)
<1>1. /\ rest \in Seq(Items(K)) /\ Len(rest) = Len(seq) - 1
      /\ \A i \in 1 .. Len(rest) : rest[i] = seq[i + 1]
      /\ Head(seq) = seq[1]
  BY HeadTailProperties
<1> HIDE DEF rest
<1>2. /\ Len(seq) \in Nat \ {0} /\ DOMAIN seq = 1 .. Len(seq)
      /\ DOMAIN rest = 1 .. Len(seq) - 1
  BY <1>1, LenProperties
<1>3. \A i \in DOMAIN rest :
         i \in Nat /\ i + 1 # 1 /\ i + 1 \in DOMAIN seq /\ rest[i] = seq[i + 1]
  BY <1>1, <1>2
<1>4. \A i \in DOMAIN seq : i = 1 \/ (i - 1 \in DOMAIN rest /\ seq[i] = rest[i - 1])
  BY <1>1, <1>2
<1>5. 1 \in DOMAIN seq
  BY <1>2
<1>6. ASSUME NEW i \in DOMAIN seq
      PROVE  seq[i].key \in {seq[1].key} \cup Keys(rest)
  BY <1>4 DEF Keys
<1>7. ASSUME NEW i \in DOMAIN rest
      PROVE  rest[i].key \in Keys(seq)
  BY <1>3 DEF Keys
<1>8. seq[1].key \in Keys(seq)
  BY <1>5 DEF Keys
<1>9. Keys(seq) = {seq[1].key} \cup Keys(rest)
  <2>1. \A k \in Keys(rest) : k \in Keys(seq)
    BY <1>7 DEF Keys
  <2>2. \A k \in Keys(seq) : k \in {seq[1].key} \cup Keys(rest)
    <3> SUFFICES ASSUME NEW k \in Keys(seq)
                 PROVE  k \in {seq[1].key} \cup Keys(rest)
      OBVIOUS
    <3>1. PICK i \in DOMAIN seq : k = seq[i].key
      BY DEF Keys
    <3> QED
      BY <1>6, <3>1
  <2> QED
    BY <1>8, <2>1, <2>2
<1>10. ASSUME DistinctKeys(seq)
       PROVE  DistinctKeys(rest) /\ seq[1].key \notin Keys(rest)
  <2>1. \A i, j \in DOMAIN rest : rest[i].key = rest[j].key => i + 1 = j + 1
    BY <1>3, <1>10 DEF DistinctKeys
  <2>2. DistinctKeys(rest)
    BY <1>3, <2>1 DEF DistinctKeys
  <2>3. \A i \in DOMAIN rest : rest[i].key # seq[1].key
    BY <1>3, <1>5, <1>10 DEF DistinctKeys
  <2> QED
    BY <2>2, <2>3 DEF Keys
<1> QED
  BY <1>1, <1>3, <1>5, <1>9, <1>10 DEF rest

LEMMA RemainingStep ==
    ASSUME TypeOK, Places, Lists, Remaining, [Next]_vars
    PROVE  Remaining'
<1>1. CASE UNCHANGED vars \/ Main
  <2>1. /\ UNCHANGED <<own, table, todo>>
        /\ \A t \in Threads : pc'[t] = "merging" => pc[t] = "merging"
    <3>1. CASE UNCHANGED vars
      BY <3>1 DEF vars, threadVars, mergeVars
    <3>2. CASE Main
      BY <3>2, MainStep DEF mergeVars
    <3> QED
      BY <1>1, <3>1, <3>2
  <2> QED
    BY <2>1 DEF Remaining
<1>2. ASSUME NEW t \in Threads, Thread(t)
      PROVE  Remaining'
  <2>1. \A u \in Threads \ {t} :
           pc'[u] = pc[u] /\ own'[u] = own[u] /\ table'[u] = table[u] /\ todo'[u] = todo[u]
    BY <1>2, ThreadStep
  <2>2. ASSUME pc'[t] = "merging"
        PROVE  /\ DistinctKeys(todo'[t])
               /\ \A i \in DOMAIN todo'[t] : \E j \in DOMAIN own'[t][table'[t]] :
                       todo'[t][i] = own'[t][table'[t]][j]
    <3>1. MergeBegin(t) \/ MergeItem(t)
      BY <1>2, <2>2 DEF Thread, OpenFile, EndThread, SkipLine, ParseLine, AddTotal, CloseFile,
         MergeEnd, TypeOK
    <3>2. CASE MergeBegin(t)
      <4>1. todo'[t] = own[t][table[t]] /\ own' = own /\ table' = table /\ table[t] \in Tables
        BY <3>2 DEF MergeBegin, TypeOK, Lists
      <4>2. DistinctKeys(own[t][table[t]])
        BY <4>1 DEF Lists
      <4> QED
        BY <4>1, <4>2
    <3>3. CASE MergeItem(t)
      <4> DEFINE rest == todo[t]
      <4>1. /\ pc[t] = "merging" /\ rest \in Seq(Items(Names)) /\ rest # <<>>
            /\ todo'[t] = Tail(rest) /\ own' = own /\ table' = table
        BY <3>3 DEF MergeItem, threadVars, Lists
      <4>2. /\ DistinctKeys(rest)
            /\ \A i \in DOMAIN rest : \E j \in DOMAIN own[t][table[t]] :
                    rest[i] = own[t][table[t]][j]
        BY <4>1 DEF Remaining
      <4> HIDE DEF rest
      <4>3. /\ \A i \in DOMAIN Tail(rest) : i + 1 \in DOMAIN rest /\ Tail(rest)[i] = rest[i + 1]
            /\ DistinctKeys(Tail(rest))
        BY <4>1, <4>2, TailItems
      <4> QED
        BY <4>1, <4>2, <4>3
    <3> QED
      BY <3>1, <3>2, <3>3
  <2> QED
    BY <2>1, <2>2 DEF Remaining
<1> QED
  BY <1>1, <1>2 DEF Next

\* Only a merge gives lines to the global containers, and the end of one gives
\* nothing that its items have not given.
LEMMA MergedKeeps ==
    ASSUME TypeOK, Places, Lists, Progress, NEW t \in Threads, Thread(t),
           ~ MergeBegin(t), ~ MergeItem(t), NEW c \in Tables, NEW e \in Hits(c)
    PROVE  Merged(c, t, e)' <=> Merged(c, t, e)
<1>1. e \in Matched /\ c \in {"url", "ref"} /\ table[t] \in {"url", "ref"}
  BY DEF Hits, TypeOK, Tables
<1>2. CASE OpenFile(t) \/ EndThread(t)
  BY <1>1, <1>2, OpensLines DEF Merged
<1>3. CASE SkipLine(t) \/ AddTotal(t) \/ CloseFile(t)
  <2>1. (PastLine(t, e)' <=> PastLine(t, e)) /\ (ReadLine(t, e)' <=> ReadLine(t, e))
    BY <1>1, <1>3, KeepsLines
  <2>2. /\ pc[t] \notin {"merge", "merging"} /\ pc'[t] # "merging"
        /\ pc'[t] = "merge" => table'[t] = "url"
    BY <1>3 DEF SkipLine, AddTotal, CloseFile, TypeOK
  <2> QED
    BY <2>1, <2>2 DEF Merged, Gone
<1>4. CASE ParseLine(t)
  <2>1. PastLine(t, e)' <=> PastLine(t, e)
    BY <1>1, <1>4, ParsesLines
  <2>2. pc[t] \notin {"merge", "merging"} /\ pc'[t] \notin {"merge", "merging"}
    BY <1>4 DEF ParseLine, TypeOK
  <2> QED
    BY <2>1, <2>2 DEF Merged, Gone
<1>5. CASE MergeEnd(t) /\ table[t] = "url"
  <2>1. (PastLine(t, e)' <=> PastLine(t, e)) /\ (ReadLine(t, e)' <=> ReadLine(t, e))
    BY <1>1, <1>5, KeepsLines
  <2>2. /\ pc[t] = "merging" /\ pc'[t] = "merge" /\ table'[t] = "ref" /\ Keys(todo[t]) = {}
    BY <1>5 DEF MergeEnd, TypeOK, Keys
  <2> QED
    BY <1>1, <1>5, <2>1, <2>2 DEF Merged, Gone
<1>6. CASE MergeEnd(t) /\ table[t] = "ref"
  <2>1. (PastLine(t, e)' <=> PastLine(t, e) \/ ReadLine(t, e)) /\ ~ ReadLine(t, e)'
    BY <1>1, <1>6, FinishesLines
  <2>2. pc[t] = "merging" /\ Keys(todo[t]) = {}
    BY <1>6 DEF MergeEnd, Keys
  <2> QED
    BY <1>1, <1>6, <2>1, <2>2 DEF Merged, Gone
<1> QED
  BY <1>1, <1>2, <1>3, <1>4, <1>5, <1>6 DEF Thread

LEMMA MergedBegins ==
    ASSUME TypeOK, Lists, Progress, NEW t \in Threads, MergeBegin(t),
           NEW c \in Tables, NEW e \in Hits(c)
    PROVE  Merged(c, t, e)' <=>
               \/ Merged(c, t, e)
               \/ c = table[t] /\ e \in Private(c, t) /\ KeyAt(c, e) \notin Keys(own[t][c])
<1>1. e \in Matched
  BY DEF Hits
<1>2. (PastLine(t, e)' <=> PastLine(t, e)) /\ (ReadLine(t, e)' <=> ReadLine(t, e))
  BY <1>1, KeepsLines
<1>3. /\ log' = log /\ pc[t] = "merge" /\ pc'[t] = "merging" /\ table' = table
      /\ todo'[t] = own[t][table[t]]
  BY DEF MergeBegin, TypeOK, Lists
<1>4. KeyAt(c, e)' = KeyAt(c, e)
  BY <1>3, SameLog
<1>5. Gone(c, t)' <=> Gone(c, t)
  BY <1>3 DEF Gone
<1>6. Gone(c, t) => c # table[t]
  BY DEF Gone
<1> QED
  BY <1>2, <1>3, <1>4, <1>5, <1>6 DEF Merged, Private, Keys

LEMMA MergedItem ==
    ASSUME TypeOK, Lists, Progress, Remaining, NEW t \in Threads, MergeItem(t),
           NEW c \in Tables, NEW e \in Hits(c)
    PROVE  Merged(c, t, e)' <=>
               \/ Merged(c, t, e)
               \/ c = table[t] /\ e \in With(Tally(c), Private(c, t), Head(todo[t]).key)
<1> DEFINE rest == todo[t]
<1>1. e \in Matched
  BY DEF Hits
<1>2. (PastLine(t, e)' <=> PastLine(t, e)) /\ (ReadLine(t, e)' <=> ReadLine(t, e))
  BY <1>1, KeepsLines
<1>3. /\ log' = log /\ pc[t] = "merging" /\ pc'[t] = "merging" /\ table' = table
      /\ todo'[t] = Tail(rest) /\ rest \in Seq(Items(Names)) /\ rest # <<>>
  BY DEF MergeItem, Lists, threadVars
<1>4. KeyAt(c, e)' = KeyAt(c, e)
  BY <1>3, SameLog
<1>5. (Gone(c, t)' <=> Gone(c, t)) /\ (Gone(c, t) => c # table[t])
  BY <1>3 DEF Gone
<1>6. Tally(c)[e].key = KeyAt(c, e)
  BY TallyType DEF TypeOK
<1> HIDE DEF rest
<1>7. DistinctKeys(rest)
  BY <1>3 DEF Remaining, rest
<1>8. /\ Keys(rest) = {Head(rest).key} \cup Keys(Tail(rest))
      /\ Head(rest).key \notin Keys(Tail(rest))
  BY <1>3, <1>7, TailItems
<1>9. Keys(todo[t])' = Keys(Tail(rest))
  BY <1>3 DEF Keys
<1> QED
  BY <1>2, <1>3, <1>4, <1>5, <1>6, <1>8, <1>9 DEF Merged, Private, With, rest

LEMMA OwnSame ==
    ASSUME log' = log, NEW t, NEW c, own'[t][c] = own[t][c],
           Private(c, t)' = Private(c, t), OwnOf(c, t)
    PROVE  OwnOf(c, t)'
  BY SameLog DEF OwnOf

LEMMA OwnEmpty ==
    ASSUME NEW t, NEW c, own'[t][c] = <<>>, Private(c, t)' = {}
    PROVE  OwnOf(c, t)'
  BY EmptyTruth DEF OwnOf

LEMMA OwnThread ==
    ASSUME TypeOK, Places, Lists, Progress, OwnIs, NEW t \in Threads, Thread(t),
           NEW c \in Tables, pc'[t] \in Reading
    PROVE  OwnOf(c, t)'
<1>1. log' = log /\ c \in {"url", "ref"} /\ table[t] \in {"url", "ref"}
  BY ThreadStep DEF TypeOK, Tables
<1>2. Hits(c)' = Hits(c) /\ Hits(c) \in SUBSET Matched
  BY <1>1, SameLog, TallyType DEF TypeOK
<1>3. CASE \/ SkipLine(t) \/ AddTotal(t) \/ CloseFile(t) \/ MergeBegin(t) \/ MergeItem(t)
  <2>1. \A e \in Hits(c) : ReadLine(t, e)' <=> ReadLine(t, e)
    BY <1>2, <1>3, KeepsLines
  <2>2. own' = own /\ pc[t] \in Reading /\ (Gone(c, t)' <=> Gone(c, t))
    <3>1. CASE SkipLine(t) \/ AddTotal(t) \/ CloseFile(t)
      BY <3>1 DEF SkipLine, AddTotal, CloseFile, TypeOK, Reading, Gone
    <3>2. CASE MergeBegin(t) \/ MergeItem(t)
      BY <3>2 DEF MergeBegin, MergeItem, TypeOK, Reading, Gone, threadVars
    <3> QED
      BY <1>3, <3>1, <3>2
  <2>3. Private(c, t)' = Private(c, t)
    BY <1>2, <2>1, <2>2 DEF Private
  <2> QED
    BY <1>1, <2>2, <2>3, OwnSame DEF OwnIs
<1>4. CASE OpenFile(t) \/ EndThread(t)
  <2>1. OpenFile(t) /\ own'[t] = Empty
    BY <1>4 DEF OpenFile, EndThread, TypeOK, Lists, Reading
  <2>2. own'[t][c] = <<>>
    BY <2>1 DEF Empty
  <2>3. \A e \in Hits(c) : ~ ReadLine(t, e)'
    BY <1>2, <2>1, OpensLines
  <2>4. Private(c, t)' = {}
    BY <1>2, <2>3 DEF Private
  <2> QED
    BY <2>2, <2>4, OwnEmpty
<1>5. CASE ParseLine(t)
  <2> DEFINE e == Here(t)
             l == File(t).lines[line[t]]
             L == Private(c, t)
             seq == own[t][c]
  <2>1. /\ pc[t] = "read" /\ pc'[t] = "total" /\ own' = [own EXCEPT ![t] = Counted(own[t], l)]
        /\ line[t] <= Len(File(t).lines) /\ l.matched
    BY <1>5 DEF ParseLine, TypeOK
  <2>2. e \in Matched /\ LineAt(e) = l
    <3>1. file[t] <= Len(slice[t]) /\ File(t).readable
      BY <2>1 DEF Progress, Where, Reading
    <3> QED
      BY <2>1, <3>1, HereFacts
  <2>3. own'[t] = Counted(own[t], l)
    BY <2>1 DEF Lists
  <2> HIDE DEF e, l
  <2>4. own'[t][c] = IF e \in Hits(c) THEN Add(seq, Capacity, KeyAt(c, e), Amount(c, e)) ELSE seq
    <3>1. CASE c = "url"
      <4>1. /\ e \in Hits(c) <=> l.url # NoUrl
            /\ KeyAt(c, e) = l.url /\ Amount(c, e) = l.size
        BY <2>2, <3>1 DEF Hits, KeyAt, Amount
      <4> QED
        BY <2>3, <3>1, <4>1 DEF Counted
    <3>2. CASE c = "ref"
      <4>1. e \in Hits(c) /\ KeyAt(c, e) = l.referer /\ Amount(c, e) = 1
        BY <2>2, <3>2 DEF Hits, KeyAt, Amount
      <4> QED
        BY <2>3, <3>2, <4>1 DEF Counted
    <3> QED
      BY <1>1, <3>1, <3>2
  <2>5. \A d \in Hits(c) : (ReadLine(t, d)' <=> ReadLine(t, d) \/ d = e) /\ ~ ReadLine(t, e)
    BY <1>2, <1>5, ParsesLines DEF e
  <2>6. ~ Gone(c, t) /\ ~ Gone(c, t)'
    BY <2>1 DEF Gone
  <2>7. /\ Private(c, t)' = IF e \in Hits(c) THEN L \cup {e} ELSE L
        /\ e \in Hits(c) => e \notin L
    BY <1>2, <2>5, <2>6 DEF Private
  <2>8. OwnOf(c, t)
    BY <2>1 DEF OwnIs, Reading
  <2>9. CASE e \notin Hits(c)
    <3>1. own'[t][c] = own[t][c] /\ Private(c, t)' = Private(c, t)
      BY <2>4, <2>7, <2>9
    <3> QED
      BY <1>1, <2>8, <3>1, OwnSame
  <2>10. CASE e \in Hits(c)
    <3>1. /\ seq \in Seq(Items(Names)) /\ DistinctKeys(seq) /\ Descending(seq)
          /\ log \in Logs /\ L \in SUBSET Hits(c) /\ e \notin L
      BY <2>7, <2>10 DEF Lists, TypeOK, Private
    <3> DEFINE new == Add(seq, Capacity, KeyAt(c, e), Amount(c, e))
    <3>2. /\ Bounded(Tally(c), seq, L) => Bounded(Tally(c), new, L \cup {e})
          /\ HasRoom(c) /\ Truth(Tally(c), seq, L) => Truth(Tally(c), new, L \cup {e})
      <4> HIDE DEF seq, L
      <4> QED
        BY <2>10, <3>1, CountLine
    <3>3. Bounded(Tally(c), seq, L) /\ (HasRoom(c) => Truth(Tally(c), seq, L))
      BY <2>8 DEF OwnOf
    <3>4. own'[t][c] = new /\ Private(c, t)' = L \cup {e}
      BY <2>4, <2>7, <2>10
    <3>5. Tally(c)' = Tally(c) /\ (HasRoom(c)' <=> HasRoom(c))
      BY <1>1, SameLog
    <3> HIDE DEF new, L, seq
    <3> QED
      BY <3>2, <3>3, <3>4, <3>5 DEF OwnOf
  <2> QED
    BY <2>9, <2>10
<1>6. CASE MergeEnd(t)
  <2>1. /\ pc[t] = "merging" /\ table[t] = "url" /\ pc'[t] = "merge" /\ table'[t] = "ref"
        /\ own' = [own EXCEPT ![t] = [own[t] EXCEPT !["url"] = <<>>]]
    BY <1>1, <1>6 DEF MergeEnd, TypeOK, Reading
  <2>2. own'[t]["url"] = <<>> /\ own'[t]["ref"] = own[t]["ref"]
    BY <2>1 DEF Lists, Tables
  <2>3. CASE c = "url"
    <3>1. Gone(c, t)'
      BY <2>1, <2>3 DEF Gone
    <3>2. Private(c, t)' = {}
      BY <3>1 DEF Private
    <3> QED
      BY <2>2, <2>3, <3>2, OwnEmpty
  <2>4. CASE c = "ref"
    <3>1. ~ Gone(c, t) /\ ~ Gone(c, t)'
      BY <2>4 DEF Gone
    <3>2. \A e \in Hits(c) : ReadLine(t, e)' <=> ReadLine(t, e)
      BY <1>2, <1>6, <2>1, KeepsLines
    <3>3. Private(c, t)' = Private(c, t)
      BY <1>2, <3>1, <3>2 DEF Private
    <3>4. OwnOf(c, t)
      BY <2>1 DEF OwnIs, Reading
    <3> QED
      BY <1>1, <2>2, <2>4, <3>3, <3>4, OwnSame
  <2> QED
    BY <1>1, <2>3, <2>4
<1> QED
  BY <1>3, <1>4, <1>5, <1>6 DEF Thread

LEMMA OwnStep ==
    ASSUME TypeOK, Places, Lists, Progress, OwnIs, [Next]_vars
    PROVE  OwnIs'
<1>1. CASE UNCHANGED vars \/ Main
  <2>1. /\ log' = log /\ UNCHANGED <<file, line, own, table, todo>>
        /\ \A t \in Threads :
              \/ slice'[t] = slice[t] /\ pc'[t] = pc[t]
              \/ pc[t] = "off" /\ pc'[t] = "next"
    <3>1. CASE UNCHANGED vars
      BY <3>1 DEF vars, mainVars, threadVars, mergeVars
    <3>2. CASE Main
      BY <3>2, MainStep DEF mergeVars
    <3> QED
      BY <1>1, <3>1, <3>2
  <2>2. ASSUME NEW t \in Threads, NEW c \in Tables, pc'[t] \in Reading
        PROVE  OwnOf(c, t)'
    <3>1. slice'[t] = slice[t] /\ pc'[t] = pc[t]
      BY <2>1, <2>2 DEF Reading
    <3>2. Private(c, t)' = Private(c, t)
      BY <2>1, <3>1, SameThread
    <3>3. OwnOf(c, t)
      BY <2>2, <3>1 DEF OwnIs
    <3> QED
      BY <2>1, <3>2, <3>3, OwnSame
  <2> QED
    BY <2>2 DEF OwnIs
<1>2. ASSUME NEW t \in Threads, Thread(t)
      PROVE  OwnIs'
  <2>1. ASSUME NEW u \in Threads, NEW c \in Tables, pc'[u] \in Reading
        PROVE  OwnOf(c, u)'
    <3>1. CASE u = t
      BY <1>2, <2>1, <3>1, OwnThread
    <3>2. CASE u # t
      <4>1. /\ log' = log /\ slice'[u] = slice[u] /\ pc'[u] = pc[u] /\ file'[u] = file[u]
            /\ line'[u] = line[u] /\ own'[u] = own[u] /\ table'[u] = table[u] /\ todo'[u] = todo[u]
        BY <1>2, <3>2, ThreadStep
      <4>2. Private(c, u)' = Private(c, u)
        BY <4>1, SameThread
      <4>3. OwnOf(c, u)
        BY <2>1, <4>1 DEF OwnIs
      <4> QED
        BY <4>1, <4>2, <4>3, OwnSame
    <3> QED
      BY <3>1, <3>2
  <2> QED
    BY <2>1 DEF OwnIs
<1> QED
  BY <1>1, <1>2 DEF Next

LEMMA ListSame ==
    ASSUME log' = log, NEW c, list'[c] = list[c], ListLines(c)' = ListLines(c), ListOf(c)
    PROVE  ListOf(c)'
  BY SameLog DEF ListOf

LEMMA LinesSame ==
    ASSUME log' = log, NEW c,
           \A t \in Threads : \A e \in Hits(c) : Merged(c, t, e)' <=> Merged(c, t, e)
    PROVE  ListLines(c)' = ListLines(c)
  BY SameLog DEF ListLines

\* The end of a merge drops nothing if there is room.
LEMMA ListEnds ==
    ASSUME TypeOK, Lists, Merges, ContainersOrdered, NEW t \in Threads, MergeEnd(t),
           NEW c \in Tables, ListOf(c), log' = log, ListLines(c)' = ListLines(c)
    PROVE  ListOf(c)'
<1> DEFINE seq == list[c]
           g == Tally(c)
           L == ListLines(c)
           D == Hits(c)
<1>1. CASE c # table[t]
  <2>1. list'[c] = list[c]
    BY <1>1 DEF MergeEnd, Lists
  <2> QED
    BY <2>1, ListSame
<1>2. CASE c = table[t]
  <2>1. saved[t] = Capacity /\ list' = [list EXCEPT ![c] = PrepCapacity(list[c], saved[t])]
    BY <1>2 DEF MergeEnd, Merges
  <2>2. list'[c] = PrepCapacity(seq, Capacity)
    BY <2>1 DEF Lists
  <2>3. /\ seq \in Seq(Items(Names)) /\ DistinctKeys(seq) /\ L \in SUBSET D
        /\ IsFiniteSet(D) /\ g \in Tallies(D)
    BY TallyType DEF Lists, ContainersOrdered, ListLines, TypeOK
  <2>4. Bounded(g, seq, L) /\ (HasRoom(c) => Truth(g, seq, L))
    BY DEF ListOf
  <2>5. HasRoom(c) => Cardinality(KeysIn(g, D)) <= Capacity
    BY RoomFacts DEF ListLines, TypeOK
  <2>6. Tally(c)' = g /\ (HasRoom(c)' <=> HasRoom(c))
    BY SameLog
  <2>7. ListLines(c)' = L
    OBVIOUS
  <2> HIDE DEF seq, g, L, D
  <2>8. Bounded(g, PrepCapacity(seq, Capacity), L)
    BY <2>3, <2>4, CapacityAssumption, PreparedBounded
  <2>9. HasRoom(c) => PrepCapacity(seq, Capacity) = seq
    <3>1. ASSUME HasRoom(c)
          PROVE  PrepCapacity(seq, Capacity) = seq
      <4>1. Truth(g, seq, L) /\ Cardinality(KeysIn(g, D)) <= Capacity
        BY <2>4, <2>5, <3>1
      <4> QED
        BY <2>3, <4>1, CapacityAssumption, PreparedWhole
    <3> QED
      BY <3>1
  <2>10. HasRoom(c) => Truth(g, PrepCapacity(seq, Capacity), L)
    BY <2>4, <2>9
  <2> QED
    BY <2>2, <2>6, <2>7, <2>8, <2>10 DEF ListOf
<1> QED
  BY <1>1, <1>2

\* When a merge begins, the lines whose keys the thread has dropped count as
\* given; if there is room, there are none.
LEMMA ListBegins ==
    ASSUME TypeOK, Lists, Progress, OwnIs, NEW t \in Threads, MergeBegin(t),
           NEW c \in Tables, ListOf(c), log' = log,
           \A u \in Threads \ {t} : \A e \in Hits(c) : Merged(c, u, e)' <=> Merged(c, u, e)
    PROVE  ListOf(c)'
<1> DEFINE seq == list[c]
           g == Tally(c)
           L == ListLines(c)
           M == ListLines(c)'
           D == Hits(c)
<1>1. list' = list /\ pc[t] \in Reading
  BY DEF MergeBegin, Reading
<1>2. Tally(c)' = g /\ (HasRoom(c)' <=> HasRoom(c)) /\ Hits(c)' = D
  BY SameLog
<1>3. \A e \in D : Merged(c, t, e)' <=>
          \/ Merged(c, t, e)
          \/ c = table[t] /\ e \in Private(c, t) /\ KeyAt(c, e) \notin Keys(own[t][c])
  BY MergedBegins
<1>4. L \in SUBSET M /\ M \in SUBSET D
  BY <1>2, <1>3 DEF ListLines
<1>5. ASSUME HasRoom(c)
      PROVE  M = L
  <2>1. Keys(own[t][c]) = KeysIn(g, Private(c, t))
    BY <1>1, <1>5 DEF OwnIs, OwnOf, Truth
  <2>2. \A e \in Private(c, t) : e \in D /\ g[e].key = KeyAt(c, e)
    BY TallyType DEF Private, TypeOK
  <2>3. \A e \in Private(c, t) : KeyAt(c, e) \in Keys(own[t][c])
    BY <2>1, <2>2 DEF KeysIn
  <2>4. \A e \in D : Merged(c, t, e)' <=> Merged(c, t, e)
    BY <1>3, <2>3
  <2>5. ListLines(c)' = ListLines(c)
    BY <2>4, LinesSame
  <2> QED
    BY <2>5
<1>6. IsFiniteSet(D) /\ g \in Tallies(D) /\ seq \in Seq(Items(Names))
  BY TallyType DEF TypeOK, Lists
<1>7. Bounded(g, seq, L) /\ (HasRoom(c) => Truth(g, seq, L))
  BY DEF ListOf
<1>8. list'[c] = seq /\ ListLines(c)' = M
  BY <1>1
<1> HIDE DEF seq, g, L, M, D
<1>9. Bounded(g, seq, M)
  BY <1>4, <1>6, <1>7, BoundedMore
<1>10. HasRoom(c) => Truth(g, seq, M)
  BY <1>5, <1>7
<1> QED
  BY <1>2, <1>8, <1>9, <1>10 DEF ListOf

\* An item that is merged brings the lines of its key.
LEMMA ListItem ==
    ASSUME TypeOK, Places, Lists, ContainersOrdered, Progress, Remaining, OwnIs,
           NEW t \in Threads, MergeItem(t), NEW c \in Tables, ListOf(c), log' = log,
           \A u \in Threads \ {t} : \A e \in Hits(c) : Merged(c, u, e)' <=> Merged(c, u, e)
    PROVE  ListOf(c)'
<1> DEFINE item == Head(todo[t])
           P == Private(c, t)
           L == ListLines(c)
           seq == list[c]
           g == Tally(c)
<1>1. /\ pc[t] = "merging" /\ todo[t] \in Seq(Items(Names)) /\ todo[t] # <<>>
      /\ list' = [list EXCEPT ![table[t]] = AddItem(list[table[t]], item.key, item.value)]
      /\ table[t] \in Tables
  BY DEF MergeItem, Lists, TypeOK
<1>2. \A e \in Hits(c) : Merged(c, t, e)' <=>
          Merged(c, t, e) \/ (c = table[t] /\ e \in With(g, P, item.key))
  BY MergedItem
<1>3. CASE c # table[t]
  <2>1. list'[c] = list[c]
    BY <1>1, <1>3 DEF Lists
  <2>2. ListLines(c)' = ListLines(c)
    BY <1>2, <1>3, LinesSame
  <2> QED
    BY <2>1, <2>2, ListSame
<1>4. CASE c = table[t]
  <2> DEFINE key == item.key
             value == item.value
             M == With(g, P, key)
             mine == own[t][c]
  <2>1. PICK i \in DOMAIN mine : item = mine[i]
    <3>1. item = todo[t][1] /\ 1 \in DOMAIN todo[t]
      BY <1>1, TailItems
    <3> QED
      BY <1>1, <1>4, <3>1 DEF Remaining
  <2>2. /\ Bounded(g, mine, P)
        /\ HasRoom(c) => Truth(g, mine, P)
    BY <1>1 DEF OwnIs, OwnOf, Reading
  <2>3. /\ key \in Names /\ value \in Int
        /\ key \in KeysIn(g, P) /\ Below(value, Worth(g, P, key))
        /\ HasRoom(c) => value = Worth(g, P, key)
    <3>1. mine \in Seq(Items(Names))
      BY DEF Lists
    <3> HIDE DEF item, mine, g, P
    <3>2. mine[i].key \in Names /\ mine[i].value \in Int
      BY <3>1, ItemType
    <3> QED
      BY <2>1, <2>2, <3>2 DEF Bounded, Truth
  <2>4. /\ seq \in Seq(Items(Names)) /\ DistinctKeys(seq) /\ log \in Logs
        /\ L \in SUBSET Hits(c) /\ P \in SUBSET Hits(c)
    BY DEF Lists, ContainersOrdered, TypeOK, ListLines, Private
  <2>5. list'[c] = AddItem(seq, key, value)
    BY <1>1, <1>4 DEF Lists
  <2>6. Tally(c)' = g /\ (HasRoom(c)' <=> HasRoom(c)) /\ Hits(c)' = Hits(c)
    BY SameLog
  <2>7. ListLines(c)' = L \cup M
    <3>1. \A e \in M : e \in Hits(c)
      BY DEF With, Private
    <3>2. \A e \in Hits(c) : Merged(c, t, e)' <=> Merged(c, t, e) \/ e \in M
      BY <1>2, <1>4
    <3> HIDE DEF M
    <3> QED
      BY <2>6, <3>1, <3>2 DEF ListLines
  <2>8. L \cap M = {}
    <3> SUFFICES ASSUME NEW e \in M, e \in L
                 PROVE  FALSE
      OBVIOUS
    <3>1. /\ e \in Hits(c) /\ ReadLine(t, e) /\ ~ Gone(c, t)
          /\ g[e].key = key
      BY DEF With, Private
    <3>2. PICK u \in Threads : Merged(c, u, e)
      BY DEF ListLines
    <3>3. PastLine(u, e) \/ ReadLine(u, e)
      BY <3>2 DEF Merged
    <3>4. u = t /\ ~ PastLine(t, e)
      BY <3>1, <3>3, LinesApart
    <3>5. KeyAt(c, e) \notin Keys(todo[t])
      BY <3>1, <3>2, <3>4 DEF Merged
    <3>6. KeyAt(c, e) = key
      BY <3>1, TallyType DEF TypeOK
    <3>7. key \in Keys(todo[t])
      BY <1>1, TailItems DEF Keys
    <3> QED
      BY <3>5, <3>6, <3>7
  <2>9. Bounded(g, seq, L) /\ (HasRoom(c) => Truth(g, seq, L))
    BY DEF ListOf
  <2> HIDE DEF item, key, value, L, P, seq
  <2>10. /\ Bounded(g, AddItem(seq, key, value), L \cup M)
         /\ HasRoom(c) => Truth(g, AddItem(seq, key, value), L \cup M)
    BY <2>3, <2>4, <2>8, <2>9, MergeKey
  <2> HIDE DEF M, g
  <2> QED
    BY <2>5, <2>6, <2>7, <2>10 DEF ListOf
<1> QED
  BY <1>3, <1>4

LEMMA ListStep ==
    ASSUME TypeOK, Places, Lists, Merges, ContainersOrdered,
           Progress, Remaining, OwnIs, ListIs, [Next]_vars
    PROVE  ListIs'
<1> SUFFICES ASSUME NEW c \in Tables
             PROVE  ListOf(c)'
  BY DEF ListIs
<1>1. ListOf(c)
  BY DEF ListIs
<1>2. CASE UNCHANGED vars \/ Main
  <2>1. /\ log' = log /\ list' = list /\ UNCHANGED <<file, line, own, table, todo>>
        /\ \A t \in Threads :
              \/ slice'[t] = slice[t] /\ pc'[t] = pc[t]
              \/ pc[t] = "off" /\ pc'[t] = "next"
    <3>1. CASE UNCHANGED vars
      BY <3>1 DEF vars, mainVars, threadVars, mergeVars
    <3>2. CASE Main
      BY <3>2, MainStep DEF mergeVars
    <3> QED
      BY <1>2, <3>1, <3>2
  <2>2. ASSUME NEW t \in Threads, NEW e \in Hits(c)
        PROVE  Merged(c, t, e)' <=> Merged(c, t, e)
    <3>1. CASE slice'[t] = slice[t] /\ pc'[t] = pc[t]
      BY <2>1, <3>1, SameThread
    <3>2. CASE pc[t] = "off" /\ pc'[t] = "next"
      <4>1. file[t] = 1 /\ file'[t] = file[t]
        BY <2>1, <3>2 DEF Progress, Where
      <4> QED
        BY <2>1, <3>2, <4>1, NewThread
    <3> QED
      BY <2>1, <3>1, <3>2
  <2>3. ListLines(c)' = ListLines(c)
    BY <2>1, <2>2, LinesSame
  <2> QED
    BY <1>1, <2>1, <2>3, ListSame
<1>3. ASSUME NEW t \in Threads, Thread(t)
      PROVE  ListOf(c)'
  <2>1. /\ log' = log /\ slice' = slice
        /\ \A u \in Threads \ {t} :
              /\ pc'[u] = pc[u] /\ file'[u] = file[u] /\ line'[u] = line[u]
              /\ table'[u] = table[u] /\ todo'[u] = todo[u]
    BY <1>3, ThreadStep
  <2>2. ASSUME NEW u \in Threads \ {t}, NEW e \in Hits(c)
        PROVE  Merged(c, u, e)' <=> Merged(c, u, e)
    BY <2>1, SameThread
  <2>3. CASE MergeBegin(t)
    BY <1>1, <2>1, <2>2, <2>3, ListBegins
  <2>4. CASE MergeItem(t)
    BY <1>1, <2>1, <2>2, <2>4, ListItem
  <2>5. CASE ~ MergeBegin(t) /\ ~ MergeItem(t)
    <3>1. \A e \in Hits(c) : Merged(c, t, e)' <=> Merged(c, t, e)
      BY <1>3, <2>5, MergedKeeps
    <3>2. ListLines(c)' = ListLines(c)
      BY <2>1, <2>2, <3>1, LinesSame
    <3>3. CASE MergeEnd(t)
      BY <1>1, <2>1, <3>2, <3>3, ListEnds
    <3>4. CASE ~ MergeEnd(t)
      <4>1. list' = list
        BY <1>3, <2>5, <3>4 DEF Thread, OpenFile, EndThread, SkipLine, ParseLine, AddTotal,
           CloseFile, mergeVars
      <4> QED
        BY <1>1, <2>1, <3>2, <4>1, ListSame
    <3> QED
      BY <3>3, <3>4
  <2> QED
    BY <2>3, <2>4, <2>5
<1> QED
  BY <1>2, <1>3 DEF Next

----------------------------------------------------------------------------
(* Theorems *)

Inv == TypeOK /\ Places /\ Lists /\ Merges /\ CapacityRestored /\ ContainersOrdered

LEMMA AlwaysInv == Spec => []Inv
<1>1. Init => Inv
  BY InitInv DEF Inv
<1>2. Inv /\ [Next]_vars => Inv'
  BY TypeStep, PlacesStep, ListsStep, MergesStep DEF Inv
<1> QED
  BY <1>1, <1>2, PTL DEF Spec

\* The ranges of the variables of main.c and topn_container.c, for any number
\* of threads and files: a file number that is dealt out is one of the list.
THEOREM TypeCorrect == Spec => []TypeOK
<1>1. Inv => TypeOK
  BY DEF Inv
<1> QED
  BY <1>1, AlwaysInv, PTL

\* topn_cont_merge of any number of threads leaves the capacity of a global
\* container as it was, and never more items than that.
THEOREM CapacityComesBack == Spec => []CapacityRestored
<1>1. Inv => CapacityRestored
  BY DEF Inv
<1> QED
  BY <1>1, AlwaysInv, PTL

\* Additions and sorts of any number of threads keep the global containers in
\* descending order, with one item for a key.
THEOREM AlwaysOrdered == Spec => []ContainersOrdered
<1>1. Inv => ContainersOrdered
  BY DEF Inv
<1> QED
  BY <1>1, AlwaysInv, PTL

\* main deals every file out once, whatever remains of the division.
THEOREM FilesDealtOnce == Spec => []EachFileOnce
<1>1. Inv => EachFileOnce
  <2> SUFFICES ASSUME Inv, started = T, NEW f \in 1 .. FileCount
               PROVE  \E t \in Threads : \E j \in DOMAIN slice[t] :
                          /\ slice[t][j] = f
                          /\ \A u \in Threads : \A k \in DOMAIN slice[u] :
                                  slice[u][k] = f => u = t /\ k = j
    BY DEF EachFileOnce
  <2>1. \A t \in Threads : slice[t] = Slice(t)
    BY ThreadsType DEF Inv, Places, Threads
  <2>2. \A t \in Threads : DOMAIN Slice(t) = 1 .. Len(Slice(t)) /\ Len(Slice(t)) \in Nat
    BY SliceIs, LenProperties
  <2>3. PICK t \in Threads : \E j \in 1 .. Len(Slice(t)) : Slice(t)[j] = f
    BY SlicesCover
  <2>4. PICK j \in 1 .. Len(Slice(t)) : Slice(t)[j] = f
    BY <2>3
  <2>5. ASSUME NEW u \in Threads, NEW k \in 1 .. Len(Slice(u)), Slice(u)[k] = f
        PROVE  u = t /\ k = j
    BY <2>4, <2>5, SlicesOnce
  <2> QED
    BY <2>1, <2>2, <2>4, <2>5
<1> QED
  BY <1>1, AlwaysInv, PTL

----------------------------------------------------------------------------
(* The sums *)

SumInv == Progress /\ Ended /\ TotalIs /\ Remaining /\ OwnIs /\ ListIs

LEMMA InitSums ==
    ASSUME Init
    PROVE  SumInv
<1>1. Progress /\ Ended /\ TotalIs
  BY InitTotal
<1>2. \A t \in Threads : pc[t] = "off" /\ file[t] = 1
  BY DEF Init
<1>3. Remaining /\ OwnIs
  BY <1>2 DEF Remaining, OwnIs, Reading
<1>4. ASSUME NEW c \in Tables
      PROVE  ListOf(c)
  <2>1. ListLines(c) = {}
    BY <1>2 DEF ListLines, Merged, PastLine, ReadLine, Reading
  <2>2. list[c] = <<>>
    BY DEF Init, Empty
  <2> QED
    BY <2>1, <2>2, EmptyTruth DEF ListOf
<1> QED
  BY <1>1, <1>3, <1>4 DEF SumInv, ListIs

LEMMA AlwaysSums == Spec => [](Inv /\ SumInv)
<1>1. Init => Inv /\ SumInv
  BY InitInv, InitSums DEF Inv
<1>2. Inv /\ SumInv /\ [Next]_vars => (Inv /\ SumInv)'
  <2> SUFFICES ASSUME Inv, SumInv, [Next]_vars
               PROVE  Inv' /\ SumInv'
    OBVIOUS
  <2>1. Inv'
    BY TypeStep, PlacesStep, ListsStep, MergesStep DEF Inv
  <2>2. Progress' /\ Ended'
    BY ProgressStep DEF Inv, SumInv
  <2>3. TotalIs' /\ Remaining' /\ OwnIs'
    BY TotalStep, RemainingStep, OwnStep DEF Inv, SumInv
  <2>4. ListIs'
    BY ListStep DEF Inv, SumInv
  <2> QED
    BY <2>1, <2>2, <2>3, <2>4 DEF SumInv
<1> QED
  BY <1>1, <1>2, PTL DEF Spec

\* After the joins all lines are past.
LEMMA AllPast ==
    ASSUME Inv, SumInv, main \in {"joined", "done"}, NEW e \in Matched
    PROVE  \E t \in Threads : PastLine(t, e)
<1>1. e[1] \in 1 .. FileCount
  BY LineFacts DEF Inv, TypeOK
<1>2. PICK t \in Threads : \E j \in 1 .. Len(Slice(t)) : Slice(t)[j] = e[1]
  BY <1>1, SlicesCover
<1>3. PICK j \in 1 .. Len(Slice(t)) : Slice(t)[j] = e[1]
  BY <1>2
<1>4. started = T /\ pc[t] = "ended"
  BY DEF SumInv, Ended
<1>5. slice[t] = Slice(t)
  BY <1>4, ThreadsType DEF Inv, Places, Threads
<1>6. file[t] > Len(slice[t])
  BY <1>4 DEF SumInv, Progress, Where
<1>7. j < file[t]
  <2>1. Len(Slice(t)) \in Nat /\ file[t] \in Nat
    BY SliceIs, LenProperties DEF Inv, TypeOK
  <2> QED
    BY <1>3, <1>5, <1>6, <2>1
<1> QED
  BY <1>3, <1>5, <1>7 DEF PastLine

\* ts_add loses no addition: what main prints as the total is the sum over the
\* lines of all files, however the threads interleave.
THEOREM TotalIsSum == Spec => []TotalExact
<1>1. Inv /\ SumInv => TotalExact
  <2> SUFFICES ASSUME Inv, SumInv, main \in {"joined", "done"}
               PROVE  total = TrueTotal
    BY DEF TotalExact
  <2>1. TotalLines = Matched
    BY AllPast DEF TotalLines, Stored
  <2> QED
    BY <2>1, TrueSums DEF Inv, TypeOK, SumInv, TotalIs
<1> QED
  BY <1>1, AlwaysSums, PTL

\* No item of a global container is ever worth more than the lines of its key:
\* topn_cont_merge counts none twice, and what wraps or is dropped is lost.
THEOREM NeverTooMuch == Spec => []NeverOvercounts
<1>1. Inv /\ SumInv => NeverOvercounts
  <2> SUFFICES ASSUME Inv, SumInv, NEW c \in Tables, NEW i \in DOMAIN list[c]
               PROVE  list[c][i].value <= TrueValue(c, list[c][i].key)
    BY DEF NeverOvercounts
  <2> DEFINE g == Tally(c)
             L == ListLines(c)
             D == Hits(c)
             v == list[c][i].value
             key == list[c][i].key
  <2>1. log \in Logs /\ list[c] \in Seq(Items(Names))
    BY DEF Inv, TypeOK, Lists
  <2>2. TrueValue(c, key) = Worth(g, D, key)
    BY <2>1, TrueSums
  <2>3. Below(v, Worth(g, L, key)) /\ v \in Int
    BY <2>1, ItemType DEF SumInv, ListIs, ListOf, Bounded
  <2>4. IsFiniteSet(D) /\ g \in Tallies(D) /\ L \in SUBSET D
    BY <2>1, TallyType DEF ListLines
  <2> HIDE DEF g, L, D, v, key
  <2>5. D \in SUBSET D
    OBVIOUS
  <2>6. Worth(g, L, key) \in Nat /\ Worth(g, D, key) \in Nat
    BY <2>4, <2>5, WorthType
  <2>7. Worth(g, L, key) <= Worth(g, D, key)
    BY <2>4, <2>5, WorthMore
  <2>8. v <= Worth(g, L, key)
    BY <2>3 DEF Below
  <2> QED
    BY <2>2, <2>3, <2>6, <2>7, <2>8 DEF v, key
<1> QED
  BY <1>1, AlwaysSums, PTL

\* If the containers have room for all keys and a gint for all sums, every key
\* is there in the end with exactly what its lines add up to.
THEOREM ExactIfRoom == Spec => []ExactWhenRoom
<1>1. Inv /\ SumInv => ExactWhenRoom
  <2> SUFFICES ASSUME Inv, SumInv, main \in {"joined", "done"}, NEW c \in Tables, HasRoom(c)
               PROVE  /\ Keys(list[c]) = KeysOf(c)
                      /\ \A i \in DOMAIN list[c] :
                            list[c][i].value = TrueValue(c, list[c][i].key)
    BY DEF ExactWhenRoom
  <2>1. log \in Logs
    BY DEF Inv, TypeOK
  <2>2. Hits(c) \in SUBSET Matched
    BY <2>1, TallyType
  <2>3. ListLines(c) = Hits(c)
    BY <2>2, AllPast DEF ListLines, Merged
  <2>4. Truth(Tally(c), list[c], Hits(c))
    BY <2>3 DEF SumInv, ListIs, ListOf
  <2> QED
    BY <2>1, <2>4, TrueSums DEF Truth
<1> QED
  BY <1>1, AlwaysSums, PTL
=============================================================================
