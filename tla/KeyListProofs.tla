---------------------------- MODULE KeyListProofs ----------------------------
(***************************************************************************)
(* Theorems about KeyList, for any keys, values and memory: the types, the *)
(* links, the ownership of the values, and that the list implements the    *)
(* table of KeyMap.                                                        *)
(*                                                                         *)
(* The walk along the links is a recursive function.  What it computes is  *)
(* found by induction, for which LeastNumber is all that is needed.        *)
(***************************************************************************)
EXTENDS KeyList, FiniteSetTheorems, WellFoundedInduction, TLAPS

\* The nodes in the order of the list.
IsOrder(o) ==
    /\ o \in [1..list.count -> DOMAIN heap]
    /\ \A c \in DOMAIN heap : \E i \in 1..list.count : o[i] = c
    /\ \A i, j \in 1..list.count : o[i] = o[j] => i = j
    /\ list.header = IF list.count = 0 THEN NULL ELSE o[1]
    /\ \A i \in 1..list.count :
        /\ heap[o[i]].next = IF i = list.count THEN NULL ELSE o[i + 1]
        /\ heap[o[i]].prev = IF i = 1 THEN NULL ELSE o[i - 1]

\* Every allocated node is in the list, once, between its neighbours.
Ordered == \E o : IsOrder(o)

\* key_list_add refuses a key that is there.
UniqueKeys == \A c, d \in DOMAIN heap : heap[c].key = heap[d].key => c = d

\* Without a list there are no nodes.
NoneLeft == ~list.live => list.count = 0

ListInv == TypeOK /\ Ordered /\ UniqueKeys /\ NoneLeft /\ ValuesOwned

-----------------------------------------------------------------------------
(* Induction *)

\* Every set of numbers that is not empty has a least one.
LEMMA LeastNumber ==
    ASSUME NEW S \in SUBSET Nat, S # {}
    PROVE  \E n \in S : \A m \in S : n <= m
<1> DEFINE R == StrictSubsetOrdering(Nat)
           T == {0..n : n \in S}
<1>1. IsWellFoundedOn(R, FiniteSubsetsOf(Nat))
  BY FS_StrictSubsetOrderingWellFounded
<1>2. T \subseteq FiniteSubsetsOf(Nat)
  <2>1. \A n \in Nat : IsFiniteSet(0..n)
    BY FS_Interval
  <2>2. \A n \in Nat : 0..n \subseteq Nat
    OBVIOUS
  <2>3. \A n \in Nat : 0..n \in FiniteSubsetsOf(Nat)
    BY <2>1, <2>2, Zenon DEF FiniteSubsetsOf
  <2>4. QED
    BY <2>3
<1>3. T # {}
  OBVIOUS
<1>4. \E x \in T : \A y \in T : ~ (<<y, x>> \in R)
  <2> HIDE DEF R, T
  <2>1. QED
    BY <1>1, <1>2, <1>3, WFMin
<1>5. PICK n \in S : \A m \in S : ~ (<<0..m, 0..n>> \in R)
  BY <1>4
<1>6. ASSUME NEW m \in S, m < n PROVE FALSE
  <2>1. 0..m \subseteq 0..n /\ 0..m # 0..n
    <3>1. n \in 0..n /\ n \notin 0..m
      BY <1>6
    <3>2. QED
      BY <1>6, <3>1
  <2>2. 0..m \in SUBSET Nat /\ 0..n \in SUBSET Nat
    OBVIOUS
  <2>3. \A x, y \in SUBSET Nat : x \subseteq y /\ x # y => <<x, y>> \in R
    BY DEF StrictSubsetOrdering
  <2> HIDE DEF R
  <2>4. QED
    BY <1>5, <2>1, <2>2, <2>3, Zenon
<1>7. QED
  BY <1>6

-----------------------------------------------------------------------------
(* The walk *)

\* A walk from the header meets the nodes in the order of the list, and then NULL.
LEMMA WalkInOrder ==
    ASSUME TypeOK, NEW o, IsOrder(o)
    PROVE  \A i \in Nat : NodeAt[i] = IF i < list.count THEN o[i + 1] ELSE NULL
<1> DEFINE n == list.count
           Walk(f) == f = [i \in Nat |->
                IF i = 0 THEN list.header
                ELSE IF f[i - 1] \in DOMAIN heap THEN heap[f[i - 1]].next ELSE NULL]
           w == [i \in Nat |-> IF i < n THEN o[i + 1] ELSE NULL]
<1>1. n \in Nat /\ NULL \notin DOMAIN heap
  BY NullAssumption DEF TypeOK
<1>2. ASSUME NEW i \in Nat
      PROVE  w[i] = IF i = 0 THEN list.header
                    ELSE IF w[i - 1] \in DOMAIN heap THEN heap[w[i - 1]].next ELSE NULL
  <2>1. CASE i = 0
    BY <1>1, <2>1 DEF IsOrder
  <2>2. CASE i # 0 /\ i - 1 < n
    <3>1. i \in 1..n /\ w[i - 1] = o[i] /\ o[i] \in DOMAIN heap
      <4>1. i \in 1..n /\ i - 1 \in Nat /\ (i - 1) + 1 = i
        BY <1>1, <2>2
      <4>2. w[i - 1] = o[i]
        BY <2>2, <4>1
      <4>3. o[i] \in DOMAIN heap
        BY <4>1 DEF IsOrder
      <4>4. QED
        BY <4>1, <4>2, <4>3
    <3>2. heap[o[i]].next = w[i]
      BY <1>1, <3>1 DEF IsOrder
    <3>3. QED
      BY <2>2, <3>1, <3>2
  <2>3. CASE i # 0 /\ ~(i - 1 < n)
    <3>1. w[i - 1] = NULL /\ w[i] = NULL
      BY <1>1, <2>3
    <3>2. QED
      BY <1>1, <2>3, <3>1
  <2>4. QED
    BY <2>1, <2>2, <2>3
<1>3. Walk(w)
  BY <1>2
<1>4. Walk(NodeAt)
  <2> HIDE DEF w
  <2>1. \E f : Walk(f)
    BY <1>3
  <2>2. NodeAt = CHOOSE f : Walk(f)
    BY DEF NodeAt
  <2> HIDE DEF Walk
  <2>3. QED
    BY <2>1, <2>2
<1>5. \A i \in Nat : NodeAt[i] = w[i]
  <2> SUFFICES ASSUME NEW i \in Nat, NodeAt[i] # w[i] PROVE FALSE
    OBVIOUS
  <2> DEFINE Bad == {j \in Nat : NodeAt[j] # w[j]}
  <2>1. PICK m \in Bad : \A j \in Bad : m <= j
    BY LeastNumber
  <2>2. m \in Nat /\ NodeAt[m] # w[m]
    BY <2>1
  <2>3. m # 0 => NodeAt[m - 1] = w[m - 1]
    BY <2>1, <2>2
  <2>4. NodeAt[m] = IF m = 0 THEN list.header
                    ELSE IF NodeAt[m - 1] \in DOMAIN heap THEN heap[NodeAt[m - 1]].next
                    ELSE NULL
    BY <1>4, <2>2
  <2>5. QED
    BY <1>2, <2>2, <2>3, <2>4
<1>6. QED
  BY <1>5

\* As many nodes are allocated as are counted.
LEMMA CountExact ==
    ASSUME TypeOK, NEW o, IsOrder(o)
    PROVE  /\ Cardinality(DOMAIN heap) = list.count
           /\ list.count <= Cardinality(Cells)
           /\ Cardinality(Cells) \in Nat
<1>1. list.count \in Nat /\ DOMAIN heap \in SUBSET Cells
  BY DEF TypeOK
<1>2. o \in Bijection(1..list.count, DOMAIN heap)
  BY DEF IsOrder, Bijection, Injection, Surjection, IsInjective
<1>3. Cardinality(DOMAIN heap) = list.count
  BY <1>1, <1>2, FS_CountingElements DEF ExistsBijection
<1>4. QED
  BY <1>1, <1>3, NullAssumption, FS_Subset, FS_CardinalityType
\* What the walk and the search for a key find.
Views ==
    /\ Reached = DOMAIN heap
    /\ Cardinality(DOMAIN heap) = list.count
    /\ NodeAt[list.count] = NULL
    /\ \A c \in DOMAIN heap : GetNode(heap[c].key) = c
    /\ \A k : (\A c \in DOMAIN heap : heap[c].key # k) => GetNode(k) = NULL

\* The invariant determines what the functions of the list find.
LEMMA ViewsHold == ListInv => Views
<1> SUFFICES ASSUME ListInv PROVE Views
  OBVIOUS
<1>1. PICK o : IsOrder(o)
  BY DEF ListInv, Ordered
<1> DEFINE n == list.count
           N == Cardinality(Cells)
<1>2. /\ TypeOK /\ UniqueKeys
      /\ n \in Nat /\ NULL \notin DOMAIN heap
  BY NullAssumption DEF ListInv, TypeOK
<1>3. N \in Nat /\ n <= N /\ Cardinality(DOMAIN heap) = n
  BY <1>1, <1>2, CountExact
<1>4. \A i \in Nat : NodeAt[i] = IF i < n THEN o[i + 1] ELSE NULL
  BY <1>1, <1>2, WalkInOrder
<1>5. \A c \in DOMAIN heap : \E i \in 0..N : i < n /\ NodeAt[i] = c /\ o[i + 1] = c
  <2> SUFFICES ASSUME NEW c \in DOMAIN heap
               PROVE  \E i \in 0..N : i < n /\ NodeAt[i] = c /\ o[i + 1] = c
    OBVIOUS
  <2>1. PICK p \in 1..n : o[p] = c
    BY <1>1 DEF IsOrder
  <2>2. PICK i \in 0..N : i = p - 1
    BY <1>2, <1>3
  <2>3. i < n /\ i + 1 = p
    BY <1>2, <2>2
  <2>4. NodeAt[i] = c
    BY <1>3, <1>4, <2>1, <2>3
  <2>5. QED
    BY <2>1, <2>3, <2>4
<1>6. \A i \in 0..N : NodeAt[i] # NULL => i < n /\ NodeAt[i] \in DOMAIN heap
  <2> SUFFICES ASSUME NEW i \in 0..N, NodeAt[i] # NULL
               PROVE  i < n /\ NodeAt[i] \in DOMAIN heap
    OBVIOUS
  <2>1. i \in Nat /\ i < n /\ NodeAt[i] = o[i + 1]
    BY <1>3, <1>4
  <2>2. i + 1 \in 1..n
    BY <1>2, <2>1
  <2>3. QED
    BY <1>1, <2>1, <2>2 DEF IsOrder
<1>7. Reached = DOMAIN heap
  BY <1>2, <1>5, <1>6 DEF Reached
<1>8. NodeAt[n] = NULL
  BY <1>2, <1>4
<1>9. ASSUME NEW c \in DOMAIN heap PROVE GetNode(heap[c].key) = c
  <2> DEFINE k == heap[c].key
             found == {i \in 0..N : NodeAt[i] \in DOMAIN heap /\ heap[NodeAt[i]].key = k}
  <2>1. PICK q \in 0..N : q < n /\ NodeAt[q] = c /\ o[q + 1] = c
    BY <1>5
  <2>2. q \in found
    BY <2>1
  <2>3. ASSUME NEW i \in found PROVE i = q
    <3>1. NodeAt[i] = c
      BY <1>2 DEF UniqueKeys
    <3>2. i \in Nat /\ i < n
      BY <1>2, <1>3, <1>6, <3>1
    <3>3. o[i + 1] = c /\ i + 1 \in 1..n /\ q + 1 \in 1..n
      BY <1>2, <1>3, <1>4, <2>1, <3>1, <3>2
    <3>4. i + 1 = q + 1
      BY <1>1, <2>1, <3>3 DEF IsOrder
    <3>5. QED
      BY <1>3, <3>2, <3>4
  <2>4. GetNode(k) = IF found = {} THEN NULL
                     ELSE NodeAt[CHOOSE i \in found : \A j \in found : i <= j]
    BY DEF GetNode
  <2> HIDE DEF found
  <2>5. found = {q} /\ q \in Nat
    <3>1. q \in Nat
      BY <1>3
    <3>2. found = {q}
      BY <2>2, <2>3
    <3>3. QED
      BY <3>1, <3>2
  <2>6. (CHOOSE i \in found : \A j \in found : i <= j) = q
    BY <2>5
  <2>7. QED
    BY <2>1, <2>4, <2>5, <2>6
<1>10. ASSUME NEW k, \A c \in DOMAIN heap : heap[c].key # k PROVE GetNode(k) = NULL
  BY <1>10 DEF GetNode
<1>11. QED
  BY <1>3, <1>7, <1>8, <1>9, <1>10 DEF Views

\* A node that was found is allocated and has the key.
LEMMA FoundNode ==
    ASSUME Views, NEW k, GetNode(k) # NULL
    PROVE  GetNode(k) \in DOMAIN heap /\ heap[GetNode(k)].key = k
<1>1. PICK c \in DOMAIN heap : heap[c].key = k
  BY DEF Views
<1>2. QED
  BY <1>1 DEF Views

-----------------------------------------------------------------------------
(* Init and the operations *)

\* There is no list at first.
LEMMA InitList == Init => ListInv
<1> SUFFICES ASSUME Init PROVE ListInv
  OBVIOUS
<1>1. DOMAIN heap = {} /\ list.count = 0 /\ list.header = NULL /\ ~list.live
  BY DEF Init, NoList
<1>2. TypeOK
  BY DEF Init, NoList, TypeOK
<1>3. Ordered
  <2>1. PICK o : o = [i \in 1..0 |-> NULL]
    OBVIOUS
  <2>2. IsOrder(o)
    BY <1>1, <2>1 DEF IsOrder
  <2>3. QED
    BY <2>2 DEF Ordered
<1>4. UniqueKeys /\ NoneLeft
  BY <1>1 DEF UniqueKeys, NoneLeft
<1>5. ValuesOwned
  BY <1>1 DEF Init, ValuesOwned
<1>6. QED
  BY <1>2, <1>3, <1>4, <1>5 DEF ListInv

\* key_list_create: there are no nodes left of an earlier list.
LEMMA CreateList == ListInv /\ Create => ListInv'
<1> SUFFICES ASSUME ListInv, Create PROVE ListInv'
  OBVIOUS
<1>1. PICK o : IsOrder(o)
  BY DEF ListInv, Ordered
<1>2. list.count = 0
  BY DEF ListInv, NoneLeft, Create
<1>3. list' = [live |-> TRUE, count |-> 0, header |-> NULL] /\ heap' = heap /\ owner' = owner
  BY DEF Create
<1>4. IsOrder(o)'
  BY <1>1, <1>2, <1>3 DEF IsOrder
<1>5. QED
  BY <1>3, <1>4 DEF ListInv, TypeOK, Ordered, UniqueKeys, NoneLeft, ValuesOwned

\* key_list_add: the new node is put before the first one.
LEMMA AddList == ASSUME ListInv, NEW k \in Keys, NEW v \in Values, Add(k, v) PROVE ListInv'
<1>1. PICK o : IsOrder(o)
  BY DEF ListInv, Ordered
<1>2. PICK c \in Cells \ DOMAIN heap :
        heap' = Link(c, k, v) /\ list' = [list EXCEPT !.header = c, !.count = @ + 1]
  BY DEF Add
<1> DEFINE n == list.count
<1>3. /\ TypeOK /\ UniqueKeys /\ ValuesOwned /\ list.live
      /\ n \in Nat /\ heap \in [DOMAIN heap -> Node] /\ DOMAIN heap \subseteq Cells
      /\ NULL \notin Cells
      /\ list.header \in Cells \cup {NULL}
  BY NullAssumption DEF ListInv, TypeOK, Add
<1>4. list'.live /\ list'.count = n + 1 /\ list'.header = c
  BY <1>2, <1>3 DEF TypeOK
<1>5. /\ DOMAIN heap' = DOMAIN heap \cup {c}
      /\ heap'[c] = [key |-> k, value |-> v, prev |-> NULL, next |-> list.header]
      /\ \A x \in DOMAIN heap :
            /\ x # c /\ heap[x] \in Node
            /\ heap'[x] = [heap[x] EXCEPT !.prev = IF x = list.header THEN c ELSE @]
  BY <1>2, <1>3 DEF Link, Node
<1>6. /\ heap' \in [DOMAIN heap' -> Node]
      /\ \A x \in DOMAIN heap :
            /\ heap'[x].key = heap[x].key /\ heap'[x].value = heap[x].value
            /\ heap'[x].next = heap[x].next
            /\ heap'[x].prev = IF x = list.header THEN c ELSE heap[x].prev
  <2>1. heap'[c] \in Node
    BY <1>3, <1>5 DEF Node
  <2>2. \A x \in DOMAIN heap : heap'[x] \in Node
    BY <1>3, <1>5 DEF Node
  <2>3. heap' = [x \in DOMAIN heap' |-> heap'[x]]
    BY <1>2 DEF Link
  <2>4. heap' \in [DOMAIN heap' -> Node]
    BY <1>5, <2>1, <2>2, <2>3
  <2>5. QED
    BY <1>3, <1>5, <2>4 DEF Node
<1>7. TypeOK'
  <2>1. owner' \in [Values -> {"app", "list", "freed", "dropped"}]
    BY <1>3 DEF Add, TypeOK
  <2>2. list' \in [live : BOOLEAN, count : Nat, header : Cells \cup {NULL}]
    <3>1. list' = [live |-> list.live, count |-> n + 1, header |-> c]
      BY <1>2, <1>3 DEF TypeOK
    <3>2. QED
      BY <1>3, <3>1 DEF TypeOK
  <2>3. QED
    BY <1>3, <1>5, <1>6, <2>1, <2>2 DEF TypeOK
<1>8. Ordered'
  <2>1. PICK q : q = [i \in 1..(n + 1) |-> IF i = 1 THEN c ELSE o[i - 1]]
    OBVIOUS
  <2>2. \A i \in 1..n : o[i] \in DOMAIN heap
    BY <1>1 DEF IsOrder
  <2>3. /\ q[1] = c
        /\ \A i \in 1..(n + 1) : i # 1 => i - 1 \in 1..n /\ q[i] = o[i - 1]
        /\ \A i \in 1..n : i + 1 \in 1..(n + 1) /\ q[i + 1] = o[i]
    <3>1. \A i \in 1..n : i + 1 \in 1..(n + 1) /\ i + 1 # 1 /\ (i + 1) - 1 = i
      BY <1>3
    <3>2. QED
      BY <1>3, <2>1, <3>1
  <2>4. q \in [1..(n + 1) -> DOMAIN heap']
    BY <1>3, <1>5, <2>1, <2>2
  <2>5. \A x \in DOMAIN heap' : \E i \in 1..(n + 1) : q[i] = x
    <3> SUFFICES ASSUME NEW x \in DOMAIN heap' PROVE \E i \in 1..(n + 1) : q[i] = x
      OBVIOUS
    <3>1. CASE x = c
      BY <1>3, <2>3, <3>1
    <3>2. CASE x # c
      <4>1. PICK j \in 1..n : o[j] = x
        BY <1>1, <1>5, <3>2 DEF IsOrder
      <4>2. QED
        BY <2>3, <4>1
    <3>3. QED
      BY <3>1, <3>2
  <2>6. \A i, j \in 1..(n + 1) : q[i] = q[j] => i = j
    <3> SUFFICES ASSUME NEW i \in 1..(n + 1), NEW j \in 1..(n + 1), q[i] = q[j]
                 PROVE  i = j
      OBVIOUS
    <3>1. CASE i # 1 /\ j # 1
      <4>1. i - 1 = j - 1
        BY <1>1, <2>3, <3>1 DEF IsOrder
      <4>2. QED
        BY <1>3, <4>1
    <3>2. CASE i = 1 \/ j = 1
      BY <1>5, <2>2, <2>3, <3>2
    <3>3. QED
      BY <3>1, <3>2
  <2>7. ASSUME NEW i \in 1..(n + 1)
        PROVE  /\ heap'[q[i]].next = IF i = n + 1 THEN NULL ELSE q[i + 1]
               /\ heap'[q[i]].prev = IF i = 1 THEN NULL ELSE q[i - 1]
    <3>1. CASE i = 1
      <4>1. heap'[q[i]].prev = NULL /\ heap'[q[i]].next = list.header
        BY <1>5, <2>3, <3>1
      <4>2. n # 0 => q[2] = o[1]
        BY <1>3, <2>1
      <4>3. list.header = IF n = 0 THEN NULL ELSE o[1]
        BY <1>1 DEF IsOrder
      <4>4. QED
        BY <1>3, <3>1, <4>1, <4>2, <4>3
    <3>2. CASE i # 1
      <4>1. PICK m \in 1..n : m = i - 1
        BY <2>3, <3>2
      <4>2. i = m + 1 /\ q[i] = o[m] /\ o[m] \in DOMAIN heap
        BY <1>3, <2>2, <2>3, <3>2, <4>1
      <4>3. heap'[q[i]].next = IF m = n THEN NULL ELSE o[m + 1]
        BY <1>1, <1>6, <4>2 DEF IsOrder
      <4>4. m # n => m + 1 \in 1..n /\ q[i + 1] = o[m + 1]
        <5>1. m # n => m + 1 \in 1..n /\ (m + 1) + 1 = i + 1
          BY <1>3, <4>2
        <5>2. QED
          BY <2>3, <5>1
      <4>5. heap[q[i]].prev = IF m = 1 THEN NULL ELSE o[m - 1]
        BY <1>1, <4>2 DEF IsOrder
      <4>6. q[i] = list.header <=> m = 1
        <5>1. list.header = o[1] /\ 1 \in 1..n
          BY <1>1, <1>3 DEF IsOrder
        <5>2. QED
          BY <1>1, <4>2, <5>1 DEF IsOrder
      <4>7. heap'[q[i]].prev = IF m = 1 THEN c ELSE o[m - 1]
        BY <1>6, <4>2, <4>5, <4>6
      <4>8. m # 1 => m - 1 \in 1..n /\ q[m] = o[m - 1]
        BY <1>3, <2>3
      <4>9. QED
        <5>1. (i = n + 1 <=> m = n) /\ i - 1 = m
          BY <1>3, <4>2
        <5>2. heap'[q[i]].next = IF i = n + 1 THEN NULL ELSE q[i + 1]
          BY <4>3, <4>4, <5>1
        <5>3. q[m] = IF m = 1 THEN c ELSE o[m - 1]
          BY <2>3, <4>8
        <5>4. QED
          BY <3>2, <4>7, <5>1, <5>2, <5>3
    <3>3. QED
      BY <3>1, <3>2
  <2>8. IsOrder(q)'
    BY <1>3, <1>4, <2>3, <2>4, <2>5, <2>6, <2>7 DEF IsOrder
  <2>9. QED
    BY <2>8 DEF Ordered
<1>9. UniqueKeys'
  <2>1. \A x \in DOMAIN heap : heap[x].key # k
    <3>1. Views /\ GetNode(k) = NULL
      BY ViewsHold DEF Add, FindKey
    <3>2. QED
      BY <1>3, <3>1 DEF Views
  <2>2. QED
    BY <1>3, <1>5, <1>6, <2>1 DEF UniqueKeys
<1>10. NoneLeft'
  BY <1>4 DEF NoneLeft
<1>11. ValuesOwned'
  <2>1. owner' = [owner EXCEPT ![v] = "list"] /\ owner[v] \in {"app", "freed"}
    BY DEF Add, Fresh
  <2>2. owner \in [Values -> {"app", "list", "freed", "dropped"}]
    BY <1>3 DEF TypeOK
  <2>3. \A x \in DOMAIN heap : heap[x].value \in Values /\ heap[x].value # v
    BY <1>3, <2>1 DEF ValuesOwned, Node
  <2>4. QED
    BY <1>3, <1>5, <1>6, <2>1, <2>2, <2>3 DEF ValuesOwned
<1>12. QED
  BY <1>7, <1>8, <1>9, <1>10, <1>11 DEF ListInv

\* key_list_edit: the links stay as they are.
LEMMA EditList == ASSUME ListInv, NEW k \in Keys, NEW v \in Values, Edit(k, v) PROVE ListInv'
<1> DEFINE c == GetNode(k)
<1>1. /\ TypeOK /\ UniqueKeys /\ ValuesOwned /\ NoneLeft /\ Ordered
      /\ heap \in [DOMAIN heap -> Node]
      /\ owner \in [Values -> {"app", "list", "freed", "dropped"}]
  BY DEF ListInv, TypeOK
<1>2. c \in DOMAIN heap
  BY ViewsHold, FoundNode DEF Edit
<1>3. /\ heap' = [heap EXCEPT ![c].value = v]
      /\ owner' = [owner EXCEPT ![heap[c].value] = "dropped", ![v] = "list"]
      /\ list' = list /\ owner[v] \in {"app", "freed"}
  BY DEF Edit, Fresh
<1> HIDE DEF c
<1>4. /\ DOMAIN heap' = DOMAIN heap /\ heap' \in [DOMAIN heap' -> Node]
      /\ \A x \in DOMAIN heap :
            /\ heap'[x].key = heap[x].key /\ heap'[x].next = heap[x].next
            /\ heap'[x].prev = heap[x].prev
            /\ heap'[x].value = IF x = c THEN v ELSE heap[x].value
  BY <1>1, <1>2, <1>3 DEF Node
<1>5. TypeOK'
  <2>1. heap[c].value \in Values
    BY <1>1, <1>2 DEF Node
  <2>2. owner' \in [Values -> {"app", "list", "freed", "dropped"}]
    BY <1>1, <1>3
  <2>3. QED
    BY <1>1, <1>3, <1>4, <2>2 DEF TypeOK
<1>6. Ordered'
  <2>1. PICK o : IsOrder(o)
    BY <1>1 DEF Ordered
  <2>2. \A i \in 1..list.count : o[i] \in DOMAIN heap
    BY <2>1 DEF IsOrder
  <2>3. IsOrder(o)'
    BY <1>3, <1>4, <2>1, <2>2 DEF IsOrder
  <2>4. QED
    BY <2>3 DEF Ordered
<1>7. UniqueKeys' /\ NoneLeft'
  BY <1>1, <1>3, <1>4 DEF UniqueKeys, NoneLeft
<1>8. ValuesOwned'
  <2>1. \A x \in DOMAIN heap : heap[x].value \in Values /\ heap[x].value # v
    BY <1>1, <1>3 DEF ValuesOwned, Node
  <2>2. /\ owner'[v] = "list" /\ owner'[heap[c].value] = "dropped"
        /\ \A u \in Values : u # v /\ u # heap[c].value => owner'[u] = owner[u]
    BY <1>1, <1>2, <1>3, <2>1
  <2>3. \A x, y \in DOMAIN heap : heap'[x].value = heap'[y].value => x = y
    BY <1>1, <1>4, <2>1 DEF ValuesOwned
  <2>4. \A x \in DOMAIN heap : owner'[heap'[x].value] = "list"
    BY <1>1, <1>2, <1>4, <2>1, <2>2 DEF ValuesOwned
  <2>5. ASSUME NEW u \in Values, owner'[u] = "list"
        PROVE  \E x \in DOMAIN heap : heap'[x].value = u
    <3>1. CASE u = v
      BY <1>2, <1>4, <3>1
    <3>2. CASE u # v
      <4>1. u # heap[c].value /\ owner[u] = "list"
        BY <2>2, <2>5, <3>2
      <4>2. PICK x \in DOMAIN heap : heap[x].value = u
        BY <1>1, <4>1 DEF ValuesOwned
      <4>3. QED
        BY <1>4, <4>1, <4>2
    <3>3. QED
      BY <3>1, <3>2
  <2>6. QED
    BY <1>4, <2>3, <2>4, <2>5 DEF ValuesOwned
<1>9. QED
  BY <1>5, <1>6, <1>7, <1>8 DEF ListInv

\* key_list_delete: the neighbours of the node are linked to each other.
LEMMA DeleteList == ASSUME ListInv, NEW k \in Keys, Delete(k) PROVE ListInv'
<1> DEFINE c == GetNode(k)
           n == list.count
<1>1. /\ TypeOK /\ UniqueKeys /\ ValuesOwned
      /\ heap \in [DOMAIN heap -> Node] /\ DOMAIN heap \subseteq Cells
      /\ owner \in [Values -> {"app", "list", "freed", "dropped"}]
      /\ n \in Nat /\ NULL \notin Cells
      /\ list \in [live : BOOLEAN, count : Nat, header : Cells \cup {NULL}]
  BY NullAssumption DEF ListInv, TypeOK
<1>2. c \in DOMAIN heap
  BY ViewsHold, FoundNode DEF Delete
<1>3. /\ heap' = Unlink(c) /\ list.live
      /\ list' = [list EXCEPT !.header = IF c = @ THEN heap[c].next ELSE @, !.count = @ - 1]
      /\ owner' = [owner EXCEPT ![heap[c].value] = "freed"]
  BY DEF Delete
<1> HIDE DEF c
<1>4. PICK o : IsOrder(o)
  BY DEF ListInv, Ordered
<1>5. PICK p \in 1..n : o[p] = c
  BY <1>2, <1>4 DEF IsOrder
<1>6. n - 1 \in Nat
  BY <1>1, <1>5
<1>7. list' = [live |-> TRUE, count |-> n - 1,
               header |-> IF c = list.header THEN heap[c].next ELSE list.header]
  BY <1>1, <1>3
<1>8. /\ \A i \in 1..n : o[i] \in DOMAIN heap
      /\ \A i, j \in 1..n : o[i] = o[j] => i = j
      /\ list.header = o[1] /\ 1 \in 1..n
      /\ \A i \in 1..n : /\ heap[o[i]].next = IF i = n THEN NULL ELSE o[i + 1]
                         /\ heap[o[i]].prev = IF i = 1 THEN NULL ELSE o[i - 1]
  BY <1>1, <1>4, <1>5 DEF IsOrder
<1>9. /\ heap[c].next = IF p = n THEN NULL ELSE o[p + 1]
      /\ heap[c].prev = IF p = 1 THEN NULL ELSE o[p - 1]
      /\ \A i \in 1..n : o[i] = heap[c].next <=> i = p + 1
      /\ \A i \in 1..n : o[i] = heap[c].prev <=> i = p - 1
  <2>1. /\ heap[c].next = IF p = n THEN NULL ELSE o[p + 1]
        /\ heap[c].prev = IF p = 1 THEN NULL ELSE o[p - 1]
    BY <1>5, <1>8
  <2>2. (p # n => p + 1 \in 1..n) /\ (p # 1 => p - 1 \in 1..n)
    BY <1>1
  <2>3. \A i \in 1..n : o[i] # NULL
    BY <1>1, <1>8
  <2>4. \A i \in 1..n : o[i] = heap[c].next <=> i = p + 1
    BY <1>1, <1>8, <2>1, <2>2, <2>3
  <2>5. \A i \in 1..n : o[i] = heap[c].prev <=> i = p - 1
    BY <1>1, <1>8, <2>1, <2>2, <2>3
  <2>6. QED
    BY <2>1, <2>4, <2>5
<1>10. /\ DOMAIN heap' = DOMAIN heap \ {c}
       /\ heap' = [x \in DOMAIN heap' |-> heap'[x]]
       /\ \A x \in DOMAIN heap \ {c} :
            heap'[x] = IF x = heap[c].prev THEN [heap[x] EXCEPT !.next = heap[c].next]
                       ELSE IF x = heap[c].next THEN [heap[x] EXCEPT !.prev = heap[c].prev]
                       ELSE heap[x]
  BY <1>3 DEF Unlink
<1>11. ASSUME NEW x \in DOMAIN heap \ {c}
       PROVE  /\ heap'[x] \in Node
              /\ heap'[x].key = heap[x].key /\ heap'[x].value = heap[x].value
              /\ heap'[x].next = IF x = heap[c].prev THEN heap[c].next ELSE heap[x].next
              /\ heap'[x].prev = IF x # heap[c].prev /\ x = heap[c].next THEN heap[c].prev
                                 ELSE heap[x].prev
  <2>1. heap[x] \in Node /\ heap[c] \in Node
    BY <1>1, <1>2
  <2>2. QED
    BY <1>10, <2>1 DEF Node
<1>12. TypeOK'
  <2>1. heap' \in [DOMAIN heap' -> Node]
    BY <1>10, <1>11
  <2>2. DOMAIN heap' \subseteq Cells
    BY <1>1, <1>10
  <2>3. heap[c].value \in Values /\ heap[c].next \in Cells \cup {NULL}
    BY <1>1, <1>2 DEF Node
  <2>4. owner' \in [Values -> {"app", "list", "freed", "dropped"}]
    BY <1>1, <1>3, <2>3
  <2>5. list' \in [live : BOOLEAN, count : Nat, header : Cells \cup {NULL}]
    BY <1>1, <1>6, <1>7, <2>3
  <2>6. QED
    BY <2>1, <2>2, <2>4, <2>5 DEF TypeOK
<1>13. UniqueKeys' /\ NoneLeft'
  BY <1>1, <1>7, <1>10, <1>11 DEF UniqueKeys, NoneLeft
<1>14. ValuesOwned'
  <2>1. \A x \in DOMAIN heap : heap[x].value \in Values
    BY <1>1 DEF Node
  <2>2. \A x, y \in DOMAIN heap' : heap'[x].value = heap'[y].value => x = y
    BY <1>1, <1>10, <1>11 DEF ValuesOwned
  <2>3. \A x \in DOMAIN heap' : owner'[heap'[x].value] = "list"
    BY <1>1, <1>2, <1>3, <1>10, <1>11, <2>1 DEF ValuesOwned
  <2>4. ASSUME NEW u \in Values, owner'[u] = "list"
        PROVE  \E x \in DOMAIN heap' : heap'[x].value = u
    <3>1. u # heap[c].value /\ owner[u] = "list"
      BY <1>1, <1>2, <1>3, <2>1, <2>4
    <3>2. PICK x \in DOMAIN heap : heap[x].value = u
      BY <1>1, <3>1 DEF ValuesOwned
    <3>3. QED
      BY <1>10, <1>11, <3>1, <3>2
  <2>5. QED
    BY <2>2, <2>3, <2>4 DEF ValuesOwned
<1>15. Ordered'
  <2>1. PICK q : q = [i \in 1..(n - 1) |-> IF i < p THEN o[i] ELSE o[i + 1]]
    OBVIOUS
  <2> DEFINE At(i) == IF i < p THEN i ELSE i + 1
  <2>2. \A i \in 1..(n - 1) : At(i) \in 1..n /\ At(i) # p /\ q[i] = o[At(i)]
    BY <1>1, <2>1
  <2>3. \A i, j \in 1..(n - 1) : At(i) = At(j) => i = j
    BY <1>1
  <2>4. \A i \in 1..(n - 1) : q[i] \in DOMAIN heap \ {c}
    BY <1>5, <1>8, <2>2
  <2>5. \A j \in 1..n : j # p => \E i \in 1..(n - 1) : At(i) = j
    <3> SUFFICES ASSUME NEW j \in 1..n, j # p PROVE \E i \in 1..(n - 1) : At(i) = j
      OBVIOUS
    <3>1. CASE j < p
      <4>1. j \in 1..(n - 1) /\ At(j) = j
        BY <1>1, <3>1
      <4>2. QED
        BY <4>1
    <3>2. CASE j > p
      <4>1. j - 1 \in 1..(n - 1) /\ At(j - 1) = j
        BY <1>1, <3>2
      <4>2. QED
        BY <4>1
    <3>3. QED
      BY <1>1, <3>1, <3>2
  <2> HIDE DEF At
  <2>6. q \in [1..(n - 1) -> DOMAIN heap']
    BY <1>10, <2>1, <2>4
  <2>7. \A x \in DOMAIN heap' : \E i \in 1..(n - 1) : q[i] = x
    <3> SUFFICES ASSUME NEW x \in DOMAIN heap' PROVE \E i \in 1..(n - 1) : q[i] = x
      OBVIOUS
    <3>1. PICK j \in 1..n : o[j] = x
      BY <1>4, <1>10 DEF IsOrder
    <3>2. j # p
      BY <1>5, <1>10, <3>1
    <3>3. PICK i \in 1..(n - 1) : At(i) = j
      BY <2>5, <3>2
    <3>4. QED
      BY <2>2, <3>1, <3>3
  <2>8. \A i, j \in 1..(n - 1) : q[i] = q[j] => i = j
    BY <1>8, <2>2, <2>3
  <2>9. list'.header = IF n - 1 = 0 THEN NULL ELSE q[1]
    <3>1. CASE p = 1
      <4>1. list'.header = IF 1 = n THEN NULL ELSE o[2]
        BY <1>5, <1>7, <1>8, <1>9, <3>1
      <4>2. n # 1 => q[1] = o[2]
        BY <1>1, <2>1, <3>1
      <4>3. QED
        BY <1>1, <4>1, <4>2
    <3>2. CASE p # 1
      <4>1. n # 1 /\ q[1] = o[1]
        BY <1>1, <2>1, <3>2
      <4>2. c # list.header
        BY <1>5, <1>8, <3>2
      <4>3. QED
        BY <1>1, <1>7, <1>8, <4>1, <4>2
    <3>3. QED
      BY <3>1, <3>2
  <2>10. ASSUME NEW i \in 1..(n - 1)
         PROVE  heap'[q[i]].next = IF i = n - 1 THEN NULL ELSE q[i + 1]
    <3>1. CASE i < p - 1
      <4>1. i \in 1..n /\ i # n /\ i # p - 1 /\ q[i] = o[i] /\ i # n - 1 /\ q[i + 1] = o[i + 1]
        BY <1>1, <2>1, <3>1
      <4>2. heap'[q[i]].next = heap[o[i]].next
        BY <1>9, <1>11, <2>4, <4>1
      <4>3. QED
        BY <1>8, <4>1, <4>2
    <3>2. CASE i = p - 1
      <4>1. i \in 1..n /\ q[i] = o[i] /\ (i = n - 1 <=> p = n)
        BY <1>1, <2>1, <3>2
      <4>2. heap'[q[i]].next = heap[c].next
        BY <1>9, <1>11, <2>4, <3>2, <4>1
      <4>3. p # n => q[i + 1] = o[p + 1]
        BY <1>1, <2>1, <3>2
      <4>4. QED
        BY <1>9, <4>1, <4>2, <4>3
    <3>3. CASE i > p - 1
      <4>1. i + 1 \in 1..n /\ i + 1 # p - 1 /\ q[i] = o[i + 1] /\ (i = n - 1 <=> i + 1 = n)
        BY <1>1, <2>1, <3>3
      <4>2. heap'[q[i]].next = heap[o[i + 1]].next
        BY <1>9, <1>11, <2>4, <4>1
      <4>3. heap[o[i + 1]].next = IF i + 1 = n THEN NULL ELSE o[(i + 1) + 1]
        BY <1>8, <4>1
      <4>4. i # n - 1 => q[i + 1] = o[(i + 1) + 1]
        <5>1. i # n - 1 => i + 1 \in 1..(n - 1) /\ ~(i + 1 < p)
          BY <1>1, <3>3
        <5>2. QED
          BY <2>1, <5>1
      <4>5. QED
        BY <4>1, <4>2, <4>3, <4>4
    <3>4. QED
      BY <1>1, <3>1, <3>2, <3>3
  <2>11. ASSUME NEW i \in 1..(n - 1)
         PROVE  heap'[q[i]].prev = IF i = 1 THEN NULL ELSE q[i - 1]
    <3>1. CASE i < p
      <4>1. i \in 1..n /\ i # p + 1 /\ q[i] = o[i] /\ (i # 1 => q[i - 1] = o[i - 1])
        BY <1>1, <2>1, <3>1
      <4>2. heap'[q[i]].prev = heap[o[i]].prev
        BY <1>9, <1>11, <2>4, <4>1
      <4>3. QED
        BY <1>8, <4>1, <4>2
    <3>2. CASE i = p
      <4>1. p + 1 \in 1..n /\ q[i] = o[p + 1] /\ p + 1 # p - 1
        BY <1>1, <2>1, <3>2
      <4>2. heap'[q[i]].prev = heap[c].prev
        BY <1>9, <1>11, <2>4, <4>1
      <4>3. p # 1 => q[i - 1] = o[p - 1]
        BY <1>1, <2>1, <3>2
      <4>4. QED
        BY <1>9, <3>2, <4>2, <4>3
    <3>3. CASE i > p
      <4>1. i + 1 \in 1..n /\ i + 1 # p + 1 /\ i + 1 # 1 /\ i # 1 /\ (i + 1) - 1 = i /\ q[i] = o[i + 1]
        BY <1>1, <2>1, <3>3
      <4>2. heap'[q[i]].prev = heap[o[i + 1]].prev
        BY <1>9, <1>11, <2>4, <4>1
      <4>3. heap[o[i + 1]].prev = o[i]
        BY <1>8, <4>1
      <4>4. q[i - 1] = o[i]
        <5>1. PICK m \in 1..(n - 1) : m = i - 1
          BY <1>1, <3>3
        <5>2. ~(m < p) /\ m + 1 = i
          BY <1>1, <3>3, <5>1
        <5>3. QED
          BY <2>1, <5>1, <5>2
      <4>5. QED
        BY <4>1, <4>2, <4>3, <4>4
    <3>4. QED
      BY <1>1, <3>1, <3>2, <3>3
  <2>12. IsOrder(q)'
    BY <1>7, <2>6, <2>7, <2>8, <2>9, <2>10, <2>11 DEF IsOrder
  <2>13. QED
    BY <2>12 DEF Ordered
<1>16. QED
  BY <1>12, <1>13, <1>14, <1>15 DEF ListInv

\* key_list_destroy: the walk frees every node.
LEMMA DestroyList == ListInv /\ Destroy => ListInv'
<1> SUFFICES ASSUME ListInv, Destroy PROVE ListInv'
  OBVIOUS
<1>1. Reached = DOMAIN heap /\ TypeOK /\ ValuesOwned
  BY ViewsHold DEF Views, ListInv
<1>2. /\ heap' = [c \in {} |-> heap[c]]
      /\ list' = NoList
      /\ owner' = [v \in Values |->
                    IF \E c \in DOMAIN heap : heap[c].value = v THEN "freed" ELSE owner[v]]
  BY <1>1 DEF Destroy
<1>3. /\ DOMAIN heap' = {} /\ heap' \in [DOMAIN heap' -> Node]
      /\ list'.count = 0 /\ list'.header = NULL /\ ~list'.live
  BY <1>2 DEF NoList
<1>4. TypeOK'
  BY <1>1, <1>2, <1>3 DEF TypeOK, NoList
<1>5. Ordered'
  <2>1. PICK o : o = [i \in 1..0 |-> NULL]
    OBVIOUS
  <2>2. IsOrder(o)'
    BY <1>3, <2>1 DEF IsOrder
  <2>3. QED
    BY <2>2 DEF Ordered
<1>6. UniqueKeys' /\ NoneLeft'
  BY <1>3 DEF UniqueKeys, NoneLeft
<1>7. ValuesOwned'
  <2>1. \A v \in Values : owner'[v] # "list"
    BY <1>1, <1>2 DEF ValuesOwned
  <2>2. QED
    BY <1>3, <2>1 DEF ValuesOwned
<1>8. QED
  BY <1>4, <1>5, <1>6, <1>7 DEF ListInv

\* Every call keeps the invariant.
LEMMA NextList == ListInv /\ [Next]_vars => ListInv'
<1> SUFFICES ASSUME ListInv, [Next]_vars PROVE ListInv'
  OBVIOUS
<1>1. CASE Create
  BY <1>1, CreateList
<1>2. CASE Destroy
  BY <1>2, DestroyList
<1>3. CASE \E k \in Keys, v \in Values : Add(k, v) \/ Edit(k, v)
  BY <1>3, AddList, EditList
<1>4. CASE \E k \in Keys : Delete(k)
  BY <1>4, DeleteList
<1>5. CASE UNCHANGED vars
  BY <1>5 DEF vars, ListInv, TypeOK, Ordered, IsOrder, UniqueKeys, NoneLeft, ValuesOwned
<1>6. QED
  BY <1>1, <1>2, <1>3, <1>4, <1>5 DEF Next

\* So it holds always.
LEMMA ListInvariant == Spec => []ListInv
<1>1. QED
  BY InitList, NextList, PTL DEF Spec

-----------------------------------------------------------------------------
(* What follows *)

\* The key_list_t and its nodes keep their types: the count that key_list_remove_node
\* decrements never falls below zero and no link leaves the memory of the list.
THEOREM ListTypeCorrect == Spec => []TypeOK
<1>1. ListInv => TypeOK
  BY DEF ListInv
<1>2. QED
  BY <1>1, ListInvariant, PTL

\* However key_list_add, key_list_edit and key_list_delete follow each other, the links
\* are those of one list that holds every node, in both directions, and count is its
\* length.
THEOREM LinksCorrect == Spec => []WellLinked
<1>1. ListInv => WellLinked
  <2> SUFFICES ASSUME ListInv PROVE WellLinked
    OBVIOUS
  <2> DEFINE n == list.count
  <2>1. Views
    BY ViewsHold
  <2>2. PICK o : IsOrder(o)
    BY DEF ListInv, Ordered
  <2>3. n \in Nat /\ NULL \notin DOMAIN heap
    BY NullAssumption DEF ListInv, TypeOK
  <2>4. ASSUME NEW c \in DOMAIN heap
        PROVE  /\ heap[c].prev = NULL <=> c = list.header
               /\ heap[c].next # NULL =>
                    heap[c].next \in DOMAIN heap /\ heap[heap[c].next].prev = c
    <3>1. PICK i \in 1..n : o[i] = c
      BY <2>2 DEF IsOrder
    <3>2. /\ heap[c].next = IF i = n THEN NULL ELSE o[i + 1]
          /\ heap[c].prev = IF i = 1 THEN NULL ELSE o[i - 1]
          /\ list.header = o[1] /\ 1 \in 1..n
      BY <2>2, <2>3, <3>1 DEF IsOrder
    <3>3. heap[c].prev = NULL <=> i = 1
      <4>1. i # 1 => i - 1 \in 1..n
        BY <2>3
      <4>2. \A j \in 1..n : o[j] # NULL
        BY <2>2, <2>3 DEF IsOrder
      <4>3. QED
        BY <3>2, <4>1, <4>2
    <3>4. c = list.header <=> i = 1
      BY <2>2, <3>1, <3>2 DEF IsOrder
    <3>5. i # n => i + 1 \in 1..n /\ i + 1 # 1 /\ (i + 1) - 1 = i
      BY <2>3
    <3>6. i # n => o[i + 1] \in DOMAIN heap /\ heap[o[i + 1]].prev = o[i]
      BY <2>2, <3>5 DEF IsOrder
    <3>7. QED
      BY <3>1, <3>2, <3>3, <3>4, <3>6
  <2>5. QED
    BY <2>1, <2>4 DEF Views, WellLinked
<1>2. QED
  BY <1>1, ListInvariant, PTL

\* A value that was handed to the list is in exactly one node until key_list_delete,
\* key_list_destroy or key_list_edit takes it out: the releaser is never called twice
\* on a value and never on one that is still in use.
THEOREM ValuesCorrect == Spec => []ValuesOwned
<1>1. ListInv => ValuesOwned
  BY DEF ListInv
<1>2. QED
  BY <1>1, ListInvariant, PTL

-----------------------------------------------------------------------------
(* The list implements the table *)

KeysIn(h) == {h[c].key : c \in DOMAIN h}

\* The table that the list stands for, node by node.
TableView ==
    /\ MapOf = [k \in KeysIn(heap) |-> MapOf[k]]
    /\ \A c \in DOMAIN heap : MapOf[heap[c].key] = heap[c].value

\* The invariant determines which table the list stands for.
LEMMA TableViewHolds == ListInv => TableView
<1> SUFFICES ASSUME ListInv PROVE TableView
  OBVIOUS
<1>1. Reached = DOMAIN heap /\ \A c \in DOMAIN heap : GetNode(heap[c].key) = c
  BY ViewsHold DEF Views
<1>2. MapOf = [k \in KeysIn(heap) |-> heap[GetNode(k)].value]
  BY <1>1 DEF MapOf, KeysIn
<1>3. QED
  BY <1>1, <1>2 DEF TableView, KeysIn

\* The same in the next state.
LEMMA TableViewNext == ListInv' => TableView'
BY TableViewHolds, PTL

\* The initial states are those of KeyMap.
LEMMA InitTable == Init => Table!Init
<1> SUFFICES ASSUME Init PROVE Table!Init
  OBVIOUS
<1>1. DOMAIN heap = {} /\ list.count = 0
  BY DEF Init, NoList
<1>2. TableView
  BY InitList, TableViewHolds
<1>3. KeysIn(heap) = {}
  BY <1>1 DEF KeysIn
<1>4. MapOf = << >>
  BY <1>2, <1>3 DEF TableView
<1>5. QED
  BY <1>1, <1>4 DEF Table!Init

\* key_list_create leaves the table alone.
LEMMA CreateTable == ASSUME ListInv, ListInv', Create PROVE UNCHANGED Table!vars
<1>1. heap' = heap /\ list'.count = list.count
  BY DEF Create, ListInv, NoneLeft
<1>2. TableView /\ TableView'
  BY TableViewHolds, TableViewNext
<1>3. MapOf' = MapOf
  BY <1>1, <1>2 DEF TableView, KeysIn
<1>4. QED
  BY <1>1, <1>3 DEF Table!vars

\* key_list_destroy empties it.
LEMMA DestroyTable == ASSUME ListInv, ListInv', Destroy PROVE Table!Clear
<1>1. Reached = DOMAIN heap
  BY ViewsHold DEF Views
<1>2. DOMAIN heap' = {} /\ list'.count = 0
  BY <1>1 DEF Destroy, NoList
<1>3. TableView'
  BY TableViewNext
<1>4. KeysIn(heap)' = {}
  BY <1>2 DEF KeysIn
<1>5. MapOf' = << >>
  BY <1>3, <1>4 DEF TableView
<1>6. QED
  BY <1>2, <1>5 DEF Table!Clear

\* key_list_add adds the key.
LEMMA AddTable ==
    ASSUME ListInv, ListInv', NEW k \in Keys, NEW v \in Values, Add(k, v)
    PROVE  Table!Add(k, v)
<1>1. TableView /\ TableView'
  BY TableViewHolds, TableViewNext
<1>2. PICK c \in Cells \ DOMAIN heap :
        heap' = Link(c, k, v) /\ list' = [list EXCEPT !.header = c, !.count = @ + 1]
  BY DEF Add
<1>3. list'.count = list.count + 1
  BY <1>2 DEF ListInv, TypeOK
<1>4. /\ DOMAIN heap' = DOMAIN heap \cup {c}
      /\ heap'[c].key = k /\ heap'[c].value = v
      /\ \A x \in DOMAIN heap : heap'[x].key = heap[x].key /\ heap'[x].value = heap[x].value
  BY <1>2 DEF Link, Node, ListInv, TypeOK
<1>5. \A x \in DOMAIN heap : heap[x].key # k
  <2>1. Views /\ GetNode(k) = NULL
    BY ViewsHold DEF Add, FindKey
  <2>2. QED
    BY <2>1, NullAssumption DEF Views, ListInv, TypeOK
<1>6. k \notin KeysIn(heap) /\ KeysIn(heap)' = KeysIn(heap) \cup {k}
  BY <1>4, <1>5 DEF KeysIn
<1>7. DOMAIN MapOf = KeysIn(heap)
  BY <1>1 DEF TableView
<1>8. MapOf' = [x \in KeysIn(heap) \cup {k} |-> IF x = k THEN v ELSE MapOf[x]]
  <2>1. MapOf' = [x \in KeysIn(heap) \cup {k} |-> MapOf'[x]]
    BY <1>1, <1>6 DEF TableView
  <2>2. MapOf'[k] = v
    BY <1>1, <1>4 DEF TableView
  <2>3. ASSUME NEW x \in KeysIn(heap) PROVE MapOf'[x] = MapOf[x]
    <3>1. PICK y \in DOMAIN heap : heap[y].key = x
      BY DEF KeysIn
    <3>2. MapOf[x] = heap[y].value
      BY <1>1, <3>1 DEF TableView
    <3>3. MapOf'[x] = heap'[y].value
      BY <1>1, <1>4, <3>1 DEF TableView
    <3>4. QED
      BY <1>4, <3>2, <3>3
  <2>4. QED
    BY <1>6, <2>1, <2>2, <2>3
<1>9. QED
  BY <1>3, <1>6, <1>7, <1>8 DEF Table!Add, Table!Put

\* key_list_edit replaces the value of the key.
LEMMA EditTable ==
    ASSUME ListInv, ListInv', NEW k \in Keys, NEW v \in Values, Edit(k, v)
    PROVE  Table!Edit(k, v)
<1> DEFINE c == GetNode(k)
<1>1. TableView /\ TableView'
  BY TableViewHolds, TableViewNext
<1>2. c \in DOMAIN heap /\ heap[c].key = k
  BY ViewsHold, FoundNode DEF Edit
<1>3. heap' = [heap EXCEPT ![c].value = v] /\ list' = list
  BY DEF Edit
<1> HIDE DEF c
<1>4. /\ DOMAIN heap' = DOMAIN heap
      /\ \A x \in DOMAIN heap : /\ heap'[x].key = heap[x].key
                                /\ heap'[x].value = IF x = c THEN v ELSE heap[x].value
  BY <1>2, <1>3 DEF Node, ListInv, TypeOK
<1>5. k \in KeysIn(heap) /\ KeysIn(heap)' = KeysIn(heap)
  BY <1>2, <1>4 DEF KeysIn
<1>6. MapOf' = [x \in KeysIn(heap) \cup {k} |-> IF x = k THEN v ELSE MapOf[x]]
  <2>1. MapOf' = [x \in KeysIn(heap) |-> MapOf'[x]]
    BY <1>1, <1>5 DEF TableView
  <2>2. MapOf'[k] = v
    BY <1>1, <1>2, <1>4 DEF TableView
  <2>3. ASSUME NEW x \in KeysIn(heap), x # k PROVE MapOf'[x] = MapOf[x]
    <3>1. PICK y \in DOMAIN heap : heap[y].key = x
      BY DEF KeysIn
    <3>2. MapOf[x] = heap[y].value
      BY <1>1, <3>1 DEF TableView
    <3>3. MapOf'[x] = heap'[y].value
      BY <1>1, <1>4, <3>1 DEF TableView
    <3>4. QED
      BY <1>2, <1>4, <2>3, <3>1, <3>2, <3>3
  <2>4. KeysIn(heap) \cup {k} = KeysIn(heap)
    BY <1>5
  <2>5. QED
    BY <2>1, <2>2, <2>3, <2>4
<1>7. DOMAIN MapOf = KeysIn(heap)
  BY <1>1 DEF TableView
<1>8. QED
  BY <1>3, <1>5, <1>6, <1>7 DEF Table!Edit, Table!Put

\* key_list_delete removes the key.
LEMMA DeleteTable ==
    ASSUME ListInv, ListInv', NEW k \in Keys, Delete(k)
    PROVE  Table!Delete(k)
<1> DEFINE c == GetNode(k)
<1>1. TableView /\ TableView'
  BY TableViewHolds, TableViewNext
<1>2. c \in DOMAIN heap /\ heap[c].key = k
  BY ViewsHold, FoundNode DEF Delete
<1>3. heap' = Unlink(c) /\ list'.count = list.count - 1
  BY DEF Delete, ListInv, TypeOK
<1> HIDE DEF c
<1>4. /\ DOMAIN heap' = DOMAIN heap \ {c}
      /\ \A x \in DOMAIN heap \ {c} :
            heap'[x].key = heap[x].key /\ heap'[x].value = heap[x].value
  BY <1>2, <1>3 DEF Unlink, Node, ListInv, TypeOK
<1>5. \A x \in DOMAIN heap \ {c} : heap[x].key # k
  BY <1>2 DEF ListInv, UniqueKeys
<1>6. k \in KeysIn(heap) /\ KeysIn(heap)' = KeysIn(heap) \ {k}
  BY <1>2, <1>4, <1>5 DEF KeysIn
<1>7. MapOf' = [x \in KeysIn(heap) \ {k} |-> MapOf[x]]
  <2>1. MapOf' = [x \in KeysIn(heap) \ {k} |-> MapOf'[x]]
    BY <1>1, <1>6 DEF TableView
  <2>2. ASSUME NEW x \in KeysIn(heap) \ {k} PROVE MapOf'[x] = MapOf[x]
    <3>1. PICK y \in DOMAIN heap : heap[y].key = x
      BY DEF KeysIn
    <3>2. y # c
      BY <1>2, <3>1
    <3>3. MapOf[x] = heap[y].value
      BY <1>1, <3>1 DEF TableView
    <3>4. MapOf'[x] = heap'[y].value
      BY <1>1, <1>4, <3>1, <3>2 DEF TableView
    <3>5. QED
      BY <1>4, <3>2, <3>3, <3>4
  <2>3. QED
    BY <2>1, <2>2
<1>8. DOMAIN MapOf = KeysIn(heap)
  BY <1>1 DEF TableView
<1>9. QED
  BY <1>3, <1>6, <1>7, <1>8 DEF Table!Delete, Table!Restrict

\* Every step of the list is a step of the table, or none.
LEMMA NextTable == ListInv /\ ListInv' /\ [Next]_vars => [Table!Next]_(Table!vars)
<1> SUFFICES ASSUME ListInv, ListInv', [Next]_vars PROVE [Table!Next]_(Table!vars)
  OBVIOUS
<1>1. CASE Create
  BY <1>1, CreateTable
<1>2. CASE Destroy
  BY <1>2, DestroyTable DEF Table!Next
<1>3. CASE \E k \in Keys, v \in Values : Add(k, v) \/ Edit(k, v)
  BY <1>3, AddTable, EditTable DEF Table!Next
<1>4. CASE \E k \in Keys : Delete(k)
  BY <1>4, DeleteTable DEF Table!Next
<1>5. CASE UNCHANGED vars
  <2>1. TableView /\ TableView'
    BY TableViewHolds, TableViewNext
  <2>2. heap' = heap /\ list' = list
    BY <1>5 DEF vars
  <2>3. MapOf' = MapOf
    BY <2>1, <2>2 DEF TableView, KeysIn
  <2>4. QED
    BY <2>2, <2>3 DEF Table!vars
<1>6. QED
  BY <1>1, <1>2, <1>3, <1>4, <1>5 DEF Next

\* The linked list implements the table of KeyMap: what key_list_get and key_list_count
\* answer changes with every call as the table says, and in no other way.
THEOREM ListImplementsTable == Spec => ImplementsTable
<1>1. QED
  BY InitTable, NextTable, ListInvariant, PTL DEF Spec, ImplementsTable, Table!Spec
=============================================================================
