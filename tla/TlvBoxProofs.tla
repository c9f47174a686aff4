---------------------------- MODULE TlvBoxProofs -----------------------------
(***************************************************************************)
(* Proofs about TlvBox for every set of boxes and types, every size of a   *)
(* message and both byte orders: the size that is counted is exact, and a  *)
(* receiver reads what was put.                                            *)
(***************************************************************************)
EXTENDS TlvBox, SequenceTheorems, FiniteSetTheorems, WellFoundedInduction, TLAPS

-----------------------------------------------------------------------------
(* Least numbers and folds *)

\* Every set of numbers that is not empty has a least one.
LEMMA LeastNumber ==
    ASSUME NEW S \in SUBSET Nat, S # {}
    PROVE  \E n \in S : \A m \in S : n <= m
<1> DEFINE R == StrictSubsetOrdering(Nat)
           T == {0..n : n \in S}
<1>1. IsWellFoundedOn(R, FiniteSubsetsOf(Nat))
  BY FS_StrictSubsetOrderingWellFounded
<1>2. T \subseteq FiniteSubsetsOf(Nat)
  <2>1. \A n \in Nat : IsFiniteSet(0..n)
    BY FS_Interval
  <2>2. \A n \in Nat : 0..n \subseteq Nat
    OBVIOUS
  <2>3. \A n \in Nat : 0..n \in FiniteSubsetsOf(Nat)
    BY <2>1, <2>2, Zenon DEF FiniteSubsetsOf
  <2>4. QED
    BY <2>3
<1>3. T # {}
  OBVIOUS
<1>4. \E x \in T : \A y \in T : ~ (<<y, x>> \in R)
  <2> HIDE DEF R, T
  <2>1. QED
    BY <1>1, <1>2, <1>3, WFMin
<1>5. PICK n \in S : \A m \in S : ~ (<<0..m, 0..n>> \in R)
  BY <1>4
<1>6. ASSUME NEW m \in S, m < n PROVE FALSE
  <2>1. 0..m \subseteq 0..n /\ 0..m # 0..n
    <3>1. n \in 0..n /\ n \notin 0..m
      BY <1>6
    <3>2. QED
      BY <1>6, <3>1
  <2>2. 0..m \in SUBSET Nat /\ 0..n \in SUBSET Nat
    OBVIOUS
  <2>3. \A x, y \in SUBSET Nat : x \subseteq y /\ x # y => <<x, y>> \in R
    BY DEF StrictSubsetOrdering
  <2> HIDE DEF R
  <2>4. QED
    BY <1>5, <2>1, <2>2, <2>3, Zenon
<1>7. QED
  BY <1>6

\* A set of numbers up to n that is not empty has a greatest one, which is its Max.
LEMMA MaxOf ==
    ASSUME NEW n \in Nat, NEW s \in SUBSET (1..n), s # {}
    PROVE  Max(s) \in s /\ \A y \in s : y <= Max(s)
<1> DEFINE U == {m \in Nat : \A y \in s : y <= m}
<1>1. n \in U
  OBVIOUS
<1>2. PICK m \in U : \A k \in U : m <= k
  <2>1. U \in SUBSET Nat /\ U # {}
    BY <1>1
  <2> HIDE DEF U
  <2>2. QED
    BY <2>1, LeastNumber
<1>3. m \in s
  <2> SUFFICES ASSUME m \notin s PROVE FALSE
    OBVIOUS
  <2>1. PICK y \in s : TRUE
    OBVIOUS
  <2>2. m \in Nat /\ \A z \in s : z \in Nat /\ z <= m /\ z # m
    BY <1>2
  <2>3. m - 1 \in Nat /\ \A z \in s : z <= m - 1
    BY <2>1, <2>2
  <2>4. m - 1 \in U
    BY <2>3
  <2>5. QED
    BY <1>2, <2>2, <2>4
<1>4. \E x \in s : \A y \in s : x >= y
  BY <1>2, <1>3
<1>5. Max(s) \in s /\ \A y \in s : Max(s) >= y
  BY <1>4 DEF Max
<1>6. QED
  BY <1>5

\* Max(1..k) is k.
LEMMA MaxPrefix ==
    ASSUME NEW k \in Nat, k # 0
    PROVE  Max(1..k) = k
<1>1. 1..k \in SUBSET (1..k) /\ 1..k # {} /\ k \in 1..k
  OBVIOUS
<1>2. Max(1..k) \in 1..k /\ k <= Max(1..k)
  BY <1>1, MaxOf
<1>3. QED
  BY <1>2

\* The recursive function inside FoldLeft, for a step that is given as a table.
IsFold(it, A, base, step, n) ==
    /\ it \in [SUBSET (1..n) -> A]
    /\ \A s \in SUBSET (1..n) :
         it[s] = IF s = {} THEN base ELSE step[<<it[s \ {Max(s)}], Max(s)>>]

\* It exists.
LEMMA FoldExists ==
    ASSUME NEW A, NEW base \in A, NEW step \in [A \X Nat -> A], NEW n \in Nat
    PROVE  \E it : IsFold(it, A, base, step, n)
<1> DEFINE Good(m, it) ==
      \A s \in SUBSET (1..m) :
        it[s] = IF s = {} THEN base ELSE step[<<it[s \ {Max(s)}], Max(s)>>]
           P(m) == \E it \in [SUBSET (1..m) -> A] : Good(m, it)
           Bad == {m \in Nat : ~P(m)}
<1> SUFFICES ASSUME n \in Bad PROVE FALSE
  BY DEF IsFold
<1>1. PICK m \in Bad : \A k \in Bad : m <= k
  <2>1. Bad \in SUBSET Nat /\ Bad # {}
    OBVIOUS
  <2> HIDE DEF Bad
  <2>2. QED
    BY <2>1, LeastNumber
<1>2. m \in Nat /\ ~P(m)
  BY <1>1
<1>3. P(0)
  <2> DEFINE w == [s \in SUBSET (1..0) |-> base]
  <2>1. \A s \in SUBSET (1..0) : s = {}
    OBVIOUS
  <2>2. w \in [SUBSET (1..0) -> A] /\ Good(0, w)
    BY <2>1
  <2>3. QED
    BY <2>2
<1>4. m # 0
  BY <1>2, <1>3
<1>5. PICK k \in Nat : m = k + 1
  <2>1. m - 1 \in Nat /\ m = (m - 1) + 1
    BY <1>2, <1>4
  <2>2. QED
    BY <2>1
<1>6. P(k)
  <2>1. k \notin Bad
    <3>1. k < m
      BY <1>2, <1>5
    <3> HIDE DEF Bad
    <3>2. QED
      BY <1>1, <1>2, <3>1
  <2>2. QED
    BY <2>1
<1>7. PICK it \in [SUBSET (1..k) -> A] : Good(k, it)
  BY <1>6
<1> DEFINE w == [s \in SUBSET (1..m) |->
                   IF m \in s THEN step[<<it[s \ {m}], m>>] ELSE it[s]]
<1>8. ASSUME NEW s \in SUBSET (1..m)
      PROVE  /\ m \in s => s \ {m} \in SUBSET (1..k)
             /\ m \notin s => s \in SUBSET (1..k)
  BY <1>5
<1>9. w \in [SUBSET (1..m) -> A]
  <2>1. ASSUME NEW s \in SUBSET (1..m) PROVE w[s] \in A
    <3>1. CASE m \in s
      <4>1. it[s \ {m}] \in A
        BY <1>7, <1>8, <3>1
      <4>2. step[<<it[s \ {m}], m>>] \in A
        BY <1>2, <4>1
      <4>3. QED
        BY <3>1, <4>2
    <3>2. CASE m \notin s
      BY <1>7, <1>8, <3>2
    <3>3. QED
      BY <3>1, <3>2
  <2>2. QED
    BY <2>1
<1>10. Good(m, w)
  <2> SUFFICES ASSUME NEW s \in SUBSET (1..m)
               PROVE  w[s] = IF s = {} THEN base
                             ELSE step[<<w[s \ {Max(s)}], Max(s)>>]
    OBVIOUS
  <2>1. CASE m \in s
    <3>1. Max(s) = m
      <4>1. Max(s) \in s /\ m <= Max(s)
        BY <1>2, <2>1, MaxOf
      <4>2. Max(s) \in 1..m
        BY <4>1
      <4>3. QED
        BY <1>2, <4>1, <4>2
    <3>2. w[s \ {m}] = it[s \ {m}]
      OBVIOUS
    <3>3. w[s] = step[<<it[s \ {m}], m>>]
      BY <2>1
    <3>4. QED
      BY <2>1, <3>1, <3>2, <3>3
  <2>2. CASE m \notin s
    <3>1. s \in SUBSET (1..k) /\ s \ {Max(s)} \in SUBSET (1..m) /\ m \notin s \ {Max(s)}
      BY <1>8, <2>2
    <3>2. w[s] = it[s] /\ w[s \ {Max(s)}] = it[s \ {Max(s)}]
      BY <2>2, <3>1
    <3>3. it[s] = IF s = {} THEN base ELSE step[<<it[s \ {Max(s)}], Max(s)>>]
      BY <1>7, <3>1
    <3>4. QED
      BY <3>2, <3>3
  <2>3. QED
    BY <2>1, <2>2
<1>11. P(m)
  <2> HIDE DEF w, Good
  <2>1. QED
    BY <1>9, <1>10
<1>12. QED
  BY <1>2, <1>11

Byte == 0..255

\* What a byte is, as a number.
LEMMA Bytes ==
    /\ \A x \in Byte : x \in Nat /\ x <= 255
    /\ \A x \in Nat : x <= 255 => x \in Byte
  BY DEF Byte

\* What Number computes, one byte after the other.
LEMMA NumberSteps ==
    ASSUME NEW b \in Seq(Byte)
    PROVE  \E f : /\ f[0] = 0
                  /\ \A k \in 1..Len(b) : f[k] = f[k - 1] * 256 + b[k]
                  /\ Number(b) = f[Len(b)]
<1> DEFINE n == Len(b)
           step == [p \in Nat \X Nat |-> p[1] * 256 + (IF p[2] \in 1..n THEN b[p[2]] ELSE 0)]
           F(g) == g = [s \in SUBSET (1..n) |->
                          IF s = {} THEN 0 ELSE g[s \ {Max(s)}] * 256 + b[Max(s)]]
<1>1. n \in Nat /\ DOMAIN b = 1..n /\ \A i \in 1..n : b[i] \in Nat
  <2>1. \A i \in 1..n : b[i] \in Byte
    BY ElementOfSeq
  <2>2. n \in Nat /\ DOMAIN b = 1..n
    BY LenProperties
  <2> HIDE DEF n
  <2>3. QED
    BY <2>1, <2>2, Bytes
<1> HIDE DEF n
<1>2. step \in [Nat \X Nat -> Nat]
  BY <1>1
<1>3. PICK it \in [SUBSET (1..n) -> Nat] : \A s \in SUBSET (1..n) :
        it[s] = IF s = {} THEN 0 ELSE step[<<it[s \ {Max(s)}], Max(s)>>]
  <2> HIDE DEF step
  <2>1. PICK it : IsFold(it, Nat, 0, step, n)
    BY <1>1, <1>2, FoldExists
  <2>2. QED
    BY <2>1 DEF IsFold
<1>4. F(it)
  <2>1. ASSUME NEW s \in SUBSET (1..n), s # {}
        PROVE  it[s] = it[s \ {Max(s)}] * 256 + b[Max(s)]
    <3>1. Max(s) \in 1..n
      BY <1>1, <2>1, MaxOf
    <3>2. it[s \ {Max(s)}] \in Nat
      <4>1. s \ {Max(s)} \in SUBSET (1..n)
        OBVIOUS
      <4>2. QED
        BY <1>3, <4>1
    <3>3. step[<<it[s \ {Max(s)}], Max(s)>>] = it[s \ {Max(s)}] * 256 + b[Max(s)]
      BY <1>1, <3>1, <3>2
    <3> HIDE DEF step
    <3>4. QED
      BY <1>3, <2>1, <3>3
  <2> HIDE DEF step
  <2>2. it[{}] = 0
    BY <1>3
  <2>3. QED
    BY <2>1, <2>2
<1> DEFINE g == CHOOSE h : F(h)
<1>5. F(g)
  <2> HIDE DEF F
  <2>1. QED
    BY <1>4
<1>6. Number(b) = g[1..n]
  BY <1>1 DEF Number, FoldLeft, MapThenFoldSet
<1> HIDE DEF g
<1> DEFINE f == [k \in 0..n |-> g[1..k]]
<1>7. f[0] = 0
  <2>1. 1..0 = {}
    OBVIOUS
  <2>2. g[{}] = 0
    BY <1>5
  <2>3. QED
    BY <1>1, <2>1, <2>2
<1>8. ASSUME NEW k \in 1..n PROVE f[k] = f[k - 1] * 256 + b[k]
  <2>1. 1..k \in SUBSET (1..n) /\ 1..k # {} /\ (1..k) \ {k} = 1..(k - 1) /\ k - 1 \in 0..n
    <3>1. k \in Nat /\ 1 <= k /\ k <= n
      BY <1>1
    <3>2. 1..k \subseteq 1..n /\ 1 \in 1..k
      BY <1>1, <3>1
    <3>3. (1..k) \ {k} = 1..(k - 1)
      BY <3>1
    <3>4. k - 1 \in 0..n
      BY <1>1, <3>1
    <3>5. QED
      BY <3>2, <3>3, <3>4
  <2>2. Max(1..k) = k
    BY <1>1, MaxPrefix
  <2>3. g[1..k] = g[1..(k - 1)] * 256 + b[k]
    BY <1>5, <2>1, <2>2
  <2>4. QED
    BY <2>1, <2>3
<1>9. QED
  <2>1. f[n] = g[1..n]
    BY <1>1
  <2> HIDE DEF f
  <2>2. QED
    BY <1>6, <1>7, <1>8, <2>1 DEF n

-----------------------------------------------------------------------------
(* Numbers in memory *)

Widths == {2, 4}
Limit(w) == IF w = 2 THEN 65536 ELSE 65536 * 65536
Below(m) == {n \in Nat : n < m}

\* A function on 1..n is a sequence of length n.
LEMMA FunSeq ==
    ASSUME NEW S, NEW n \in Nat, NEW f \in [1..n -> S]
    PROVE  f \in Seq(S) /\ Len(f) = n
  OBVIOUS

\* Dividing by 256.
LEMMA DivMod ==
    ASSUME NEW n \in Nat
    PROVE  /\ n \div 256 \in Nat
           /\ n % 256 \in Byte
           /\ n = (n \div 256) * 256 + (n % 256)
<1>1. n \div 256 \in Nat
  OBVIOUS
<1>2. n % 256 \in Byte
  BY DEF Byte
<1>3. n = (n \div 256) * 256 + (n % 256)
  OBVIOUS
<1>4. QED
  BY <1>1, <1>2, <1>3

\* The higher bytes of a number, one division by 256 at a time.
LEMMA DivTwice ==
    ASSUME NEW n \in Nat
    PROVE  /\ n \div 65536 = (n \div 256) \div 256
           /\ n \div 16777216 = (n \div 65536) \div 256
  BY SMT

\* The powers of 256 by which Digits divides.
LEMMA Powers ==
    ASSUME NEW n \in Nat
    PROVE  /\ n \div 256 ^ (2 - 1) = n \div 256 /\ n \div 256 ^ (2 - 2) = n
           /\ n \div 256 ^ (4 - 1) = n \div 16777216
           /\ n \div 256 ^ (4 - 2) = n \div 65536
           /\ n \div 256 ^ (4 - 3) = n \div 256
           /\ n \div 256 ^ (4 - 4) = n
<1>1. n \div 1 = n
  OBVIOUS
<1>2. /\ 256 ^ (2 - 1) = 256 /\ 256 ^ (2 - 2) = 1
      /\ 256 ^ (4 - 1) = 16777216 /\ 256 ^ (4 - 2) = 65536
      /\ 256 ^ (4 - 3) = 256 /\ 256 ^ (4 - 4) = 1
  BY SMT
<1>3. QED
  BY <1>1, <1>2, SMT

\* The numbers that two and four bytes stand for.
LEMMA NumberOf ==
    ASSUME NEW b \in Seq(Byte)
    PROVE  /\ \A i \in 1..Len(b) : b[i] \in Byte
           /\ Len(b) = 2 => Number(b) = b[1] * 256 + b[2]
           /\ Len(b) = 4 => Number(b) = ((b[1] * 256 + b[2]) * 256 + b[3]) * 256 + b[4]
<1>1. \A i \in 1..Len(b) : b[i] \in Byte
  BY ElementOfSeq
<1>2. PICK f : /\ f[0] = 0
               /\ \A k \in 1..Len(b) : f[k] = f[k - 1] * 256 + b[k]
               /\ Number(b) = f[Len(b)]
  BY NumberSteps
<1>3. ASSUME Len(b) = 2 PROVE Number(b) = b[1] * 256 + b[2]
  <2>1. b[1] \in Nat /\ b[2] \in Nat
    BY <1>1, <1>3, Bytes
  <2>2. f[1] = f[0] * 256 + b[1] /\ f[2] = f[1] * 256 + b[2]
    BY <1>2, <1>3
  <2>3. QED
    BY <1>2, <1>3, <2>1, <2>2
<1>4. ASSUME Len(b) = 4
      PROVE  Number(b) = ((b[1] * 256 + b[2]) * 256 + b[3]) * 256 + b[4]
  <2>1. b[1] \in Nat /\ b[2] \in Nat /\ b[3] \in Nat /\ b[4] \in Nat
    BY <1>1, <1>4, Bytes
  <2>2. /\ f[1] = f[0] * 256 + b[1] /\ f[2] = f[1] * 256 + b[2]
        /\ f[3] = f[2] * 256 + b[3] /\ f[4] = f[3] * 256 + b[4]
    BY <1>2, <1>4
  <2>3. QED
    BY <1>2, <1>4, <2>1, <2>2
<1>5. QED
  BY <1>1, <1>3, <1>4

\* Digits gives bytes, and Number is its inverse.
LEMMA NumberDigits ==
    ASSUME NEW w \in Widths, NEW n \in Below(Limit(w))
    PROVE  /\ Digits(n, w) \in Seq(Byte)
           /\ Len(Digits(n, w)) = w
           /\ Number(Digits(n, w)) = n
<1> DEFINE d == Digits(n, w)
<1>1. n \in Nat /\ n < Limit(w) /\ w \in Nat
  BY DEF Below, Widths
<1>2. PICK x3 \in Nat, y4 \in Byte :
        x3 = n \div 256 /\ y4 = n % 256 /\ n = x3 * 256 + y4
  BY <1>1, DivMod
<1>3. CASE w = 2
  <2>1. d = [i \in 1..2 |-> (n \div 256 ^ (2 - i)) % 256]
    BY <1>3 DEF Digits
  <2> HIDE DEF d
  <2>2. d[1] = (n \div 256) % 256 /\ d[2] = n % 256
    BY <1>1, <2>1, Powers
  <2>3. x3 < 256
    BY <1>1, <1>2, <1>3, Bytes, SMT DEF Limit
  <2>4. x3 % 256 = x3 /\ x3 \in Byte
    BY <2>3, Bytes
  <2>5. d[1] = x3 /\ d[2] = y4
    BY <1>2, <2>2, <2>4
  <2>6. d \in [1..2 -> Byte]
    BY <2>1, <2>4, <2>5
  <2>7. d \in Seq(Byte) /\ Len(d) = 2
    BY <2>6, FunSeq
  <2>8. Number(d) = n
    BY <1>2, <2>5, <2>7, NumberOf
  <2>9. QED
    BY <1>3, <2>7, <2>8 DEF d
<1>4. CASE w = 4
  <2>1. d = [i \in 1..4 |-> (n \div 256 ^ (4 - i)) % 256]
    BY <1>4 DEF Digits
  <2> HIDE DEF d
  <2>2. /\ d[1] = (n \div 16777216) % 256 /\ d[2] = (n \div 65536) % 256
        /\ d[3] = (n \div 256) % 256 /\ d[4] = n % 256
    BY <1>1, <2>1, Powers, SMT
  <2>3. PICK x2 \in Nat, y3 \in Byte :
          x2 = x3 \div 256 /\ y3 = x3 % 256 /\ x3 = x2 * 256 + y3
    BY DivMod
  <2>4. PICK x1 \in Nat, y2 \in Byte :
          x1 = x2 \div 256 /\ y2 = x2 % 256 /\ x2 = x1 * 256 + y2
    BY DivMod
  <2>5. n \div 65536 = x2 /\ n \div 16777216 = x1
    BY <1>1, <1>2, <2>3, <2>4, DivTwice, SMT
  <2>6. x1 < 256
    <3>1. n < 65536 * 65536
      BY <1>1, <1>4, SMT DEF Limit
    <3>2. x2 < 65536
      BY <1>1, <1>2, <2>3, <3>1, Bytes, SMT
    <3>3. QED
      BY <2>4, <3>2, Bytes, SMT
  <2>7. x1 % 256 = x1 /\ x1 \in Byte
    BY <2>6, Bytes
  <2>8. d[1] = x1 /\ d[2] = y2 /\ d[3] = y3 /\ d[4] = y4
    BY <1>2, <2>2, <2>3, <2>4, <2>5, <2>7, SMT
  <2>9. d \in [1..4 -> Byte]
    BY <2>1, <2>7, <2>8
  <2>10. d \in Seq(Byte) /\ Len(d) = 4
    BY <2>9, FunSeq
  <2>11. Number(d) = ((d[1] * 256 + d[2]) * 256 + d[3]) * 256 + d[4]
    BY <2>10, NumberOf
  <2>12. Number(d) = n
    BY <1>2, <2>3, <2>4, <2>8, <2>11
  <2>13. QED
    BY <1>4, <2>10, <2>12 DEF d
<1>5. QED
  BY <1>3, <1>4 DEF Widths

\* And the other way round.
LEMMA DigitsNumber ==
    ASSUME NEW b \in Seq(Byte), Len(b) \in Widths
    PROVE  /\ Number(b) \in Below(Limit(Len(b)))
           /\ Digits(Number(b), Len(b)) = b
<1>1. Len(b) \in Nat /\ b \in [1..Len(b) -> Byte] /\ \A i \in 1..Len(b) : b[i] \in Byte
  BY LenProperties, NumberOf
<1>2. CASE Len(b) = 2
  <2>1. PICK y1 \in Byte, y2 \in Byte : y1 = b[1] /\ y2 = b[2]
    BY <1>1, <1>2
  <2>2. y1 \in Nat /\ y2 \in Nat /\ y1 <= 255 /\ y2 <= 255
    BY <2>1, Bytes
  <2>3. PICK n : n = Number(b)
    OBVIOUS
  <2>4. n = y1 * 256 + y2
    BY <1>2, <2>1, <2>3, NumberOf
  <2>5. n \in Nat /\ n \div 256 = y1 /\ n % 256 = y2
    BY <2>2, <2>4
  <2>6. n < 65536 /\ y1 % 256 = y1
    BY <2>2, <2>4, SMT
  <2>7. (n \div 256 ^ (2 - 1)) % 256 = y1 /\ (n \div 256 ^ (2 - 2)) % 256 = y2
    BY <2>5, <2>6, Powers, SMT
  <2>8. \A i \in 1..2 : (n \div 256 ^ (2 - i)) % 256 = b[i]
    <3> SUFFICES ASSUME NEW i \in 1..2 PROVE (n \div 256 ^ (2 - i)) % 256 = b[i]
      OBVIOUS
    <3>1. i = 1 \/ i = 2
      OBVIOUS
    <3>2. QED
      BY <2>1, <2>7, <3>1
  <2>9. Digits(n, 2) = b
    BY <1>1, <1>2, <2>8 DEF Digits
  <2>10. QED
    BY <1>2, <2>3, <2>5, <2>6, <2>9, SMT DEF Limit, Below
<1>3. CASE Len(b) = 4
  <2>1. PICK y1 \in Byte, y2 \in Byte, y3 \in Byte, y4 \in Byte :
          y1 = b[1] /\ y2 = b[2] /\ y3 = b[3] /\ y4 = b[4]
    BY <1>1, <1>3
  <2>2. /\ y1 \in Nat /\ y2 \in Nat /\ y3 \in Nat /\ y4 \in Nat
        /\ y1 <= 255 /\ y2 <= 255 /\ y3 <= 255 /\ y4 <= 255
    BY <2>1, Bytes
  <2>3. PICK n : n = Number(b)
    OBVIOUS
  <2>4. PICK x2 \in Nat : x2 = y1 * 256 + y2
    BY <2>2
  <2>5. PICK x3 \in Nat : x3 = x2 * 256 + y3
    BY <2>2
  <2>6. n = x3 * 256 + y4
    BY <1>3, <2>1, <2>3, <2>4, <2>5, NumberOf
  <2>7. n \in Nat /\ n \div 256 = x3 /\ n % 256 = y4
    BY <2>2, <2>6
  <2>8. x3 \div 256 = x2 /\ x3 % 256 = y3
    BY <2>2, <2>5
  <2>9. x2 \div 256 = y1 /\ x2 % 256 = y2
    BY <2>2, <2>4
  <2>10. n \div 65536 = x2 /\ n \div 16777216 = y1
    BY <2>7, <2>8, <2>9, DivTwice, SMT
  <2>11. y1 % 256 = y1
    BY <2>2, SMT
  <2>12. n < 65536 * 65536
    <3>1. x2 <= 65535
      BY <2>2, <2>4, SMT
    <3>2. x3 <= 16777215
      BY <2>2, <2>5, <3>1, SMT
    <3>3. QED
      BY <2>2, <2>6, <3>2, SMT
  <2>13. /\ (n \div 256 ^ (4 - 1)) % 256 = y1 /\ (n \div 256 ^ (4 - 2)) % 256 = y2
         /\ (n \div 256 ^ (4 - 3)) % 256 = y3 /\ (n \div 256 ^ (4 - 4)) % 256 = y4
    <3>1. /\ (n \div 16777216) % 256 = y1 /\ (n \div 65536) % 256 = y2
          /\ (n \div 256) % 256 = y3 /\ n % 256 = y4
      BY <2>7, <2>8, <2>9, <2>10, <2>11, SMT
    <3>2. QED
      BY <2>7, <3>1, Powers, SMT
  <2>14. \A i \in 1..4 : (n \div 256 ^ (4 - i)) % 256 = b[i]
    <3> SUFFICES ASSUME NEW i \in 1..4 PROVE (n \div 256 ^ (4 - i)) % 256 = b[i]
      OBVIOUS
    <3>1. i = 1 \/ i = 2 \/ i = 3 \/ i = 4
      OBVIOUS
    <3>2. QED
      BY <2>1, <2>13, <3>1
  <2>15. Digits(n, 4) = b
    BY <1>1, <1>3, <2>14 DEF Digits
  <2>16. QED
    BY <1>3, <2>3, <2>7, <2>12, <2>15, SMT DEF Limit, Below
<1>4. QED
  BY <1>2, <1>3 DEF Widths

\* Reversing bytes twice changes nothing.
LEMMA ReverseBytes ==
    ASSUME NEW b \in Seq(Byte)
    PROVE  /\ Reverse(b) \in Seq(Byte)
           /\ Len(Reverse(b)) = Len(b)
           /\ Reverse(Reverse(b)) = b
<1> DEFINE n == Len(b)
           r == Reverse(b)
<1>1. n \in Nat /\ b \in [1..n -> Byte]
  BY LenProperties
<1> HIDE DEF n
<1>2. r = [i \in 1..n |-> b[(n - i) + 1]]
  BY DEF Reverse, n
<1>3. ASSUME NEW i \in 1..n PROVE (n - i) + 1 \in 1..n /\ (n - ((n - i) + 1)) + 1 = i
  BY <1>1
<1> HIDE DEF r
<1>4. r \in [1..n -> Byte]
  BY <1>1, <1>2, <1>3
<1>5. r \in Seq(Byte) /\ Len(r) = n
  BY <1>1, <1>4, FunSeq
<1>6. Reverse(r) = [i \in 1..n |-> r[(n - i) + 1]]
  BY <1>5 DEF Reverse
<1>7. \A i \in 1..n : r[(n - i) + 1] = b[i]
  BY <1>2, <1>3
<1>8. Reverse(r) = b
  BY <1>1, <1>6, <1>7
<1>9. QED
  BY <1>5, <1>8 DEF r, n

\* Memory holds what was stored to it.
LEMMA LoadStore ==
    ASSUME NEW w \in Widths, NEW n \in Below(Limit(w))
    PROVE  /\ Store(n, w) \in Seq(Byte)
           /\ Len(Store(n, w)) = w
           /\ Load(Store(n, w)) = n
<1>1. Digits(n, w) \in Seq(Byte) /\ Len(Digits(n, w)) = w /\ Number(Digits(n, w)) = n
  BY NumberDigits
<1>2. QED
  BY <1>1, ReverseBytes DEF Load, Store

\* And storing what was loaded gives the same memory.
LEMMA StoreLoad ==
    ASSUME NEW b \in Seq(Byte), Len(b) \in Widths
    PROVE  Load(b) \in Below(Limit(Len(b))) /\ Store(Load(b), Len(b)) = b
<1>1. Reverse(b) \in Seq(Byte) /\ Len(Reverse(b)) = Len(b) /\ Reverse(Reverse(b)) = b
  BY ReverseBytes
<1>2. Number(b) \in Below(Limit(Len(b))) /\ Digits(Number(b), Len(b)) = b
  BY DigitsNumber
<1>3. Number(Reverse(b)) \in Below(Limit(Len(b))) /\ Digits(Number(Reverse(b)), Len(b)) = Reverse(b)
  BY <1>1, DigitsNumber
<1>4. QED
  BY <1>1, <1>2, <1>3 DEF Load, Store

\* htons or htonl, when its result is stored, leaves the digits in memory, most
\* significant first; and ntohs or ntohl of what is loaded from there is the number.
LEMMA NetworkOrder ==
    ASSUME NEW w \in Widths, NEW n \in Below(Limit(w))
    PROVE  /\ Store(Hton(n, w), w) = Digits(n, w)
           /\ Hton(Load(Digits(n, w)), w) = n
<1> DEFINE d == Digits(n, w)
<1>1. d \in Seq(Byte) /\ Len(d) = w /\ Number(d) = n
  BY NumberDigits
<1> HIDE DEF d
<1>2. Store(Load(d), w) = d
  BY <1>1, StoreLoad
<1>3. Reverse(d) \in Seq(Byte) /\ Len(Reverse(d)) = w /\ Reverse(Reverse(d)) = d
  BY <1>1, ReverseBytes
<1>4. Digits(Number(d), w) = d /\ Digits(Number(Reverse(d)), w) = Reverse(d)
  BY <1>1, <1>3, DigitsNumber
<1>5. Load(Digits(Load(d), w)) = n
  <2>1. CASE Little
    <3>1. Load(d) = Number(Reverse(d)) /\ Load(Reverse(d)) = Number(d)
      BY <1>3, <2>1 DEF Load
    <3>2. QED
      BY <1>1, <1>4, <3>1
  <2>2. CASE ~Little
    <3>1. Load(d) = Number(d)
      BY <2>2 DEF Load
    <3>2. QED
      BY <1>1, <1>4, <3>1
  <2>3. QED
    BY <2>1, <2>2
<1>6. QED
  BY <1>2, <1>5 DEF Hton, d

-----------------------------------------------------------------------------
(* What is written for a tlv *)

IsNumber(tlv) == tlv.data_type \in {"SHORT", "INT"}

\* The tlvs that can be in a list: a number has the size of a short or of an int.
Tlvs ==
    {tlv \in [type : Below(32768), value : Seq(Byte),
              data_type : {"SHORT", "INT", "CHAR", "STRING", "OBJECT", "BYTES"}] :
        /\ Len(tlv.value) < 32768
        /\ IsNumber(tlv) => Len(tlv.value) \in Widths}

\* The bytes of the value in a buffer, and the tlv that is made of them on receipt.
Payload(tlv) ==
    IF IsNumber(tlv) THEN Digits(Load(tlv.value), Len(tlv.value)) ELSE tlv.value

Image(tlv) == [type |-> tlv.type, data_type |-> "BYTES", value |-> Payload(tlv)]

\* The types of the fields of a tlv.
LEMMA TlvFacts ==
    ASSUME NEW tlv \in Tlvs
    PROVE  /\ tlv.type \in Nat /\ tlv.type < 32768
           /\ tlv.value \in Seq(Byte) /\ Len(tlv.value) \in Nat /\ Len(tlv.value) < 32768
           /\ IsNumber(tlv) => Len(tlv.value) \in Widths
           /\ Size(tlv) \in Nat /\ Size(tlv) = 4 + Len(tlv.value) /\ Size(tlv) >= 4
<1>1. /\ tlv.type \in Below(32768) /\ tlv.value \in Seq(Byte) /\ Len(tlv.value) < 32768
      /\ IsNumber(tlv) => Len(tlv.value) \in Widths
  BY SMT DEF Tlvs
<1>2. tlv.type \in Nat /\ tlv.type < 32768
  BY <1>1, SMT DEF Below
<1>3. Len(tlv.value) \in Nat
  BY <1>1, LenProperties
<1>4. Size(tlv) = 4 + Len(tlv.value)
  BY DEF Size
<1>5. QED
  BY <1>1, <1>2, <1>3, <1>4, SMT

\* The payload is as long as the value, and gives it back when it is read.
LEMMA PayloadFacts ==
    ASSUME NEW tlv \in Tlvs
    PROVE  /\ Payload(tlv) \in Seq(Byte)
           /\ Len(Payload(tlv)) = Len(tlv.value)
           /\ IsNumber(tlv) =>
                Hton(Load(Payload(tlv)), Len(Payload(tlv))) = Load(tlv.value)
<1>1. tlv.value \in Seq(Byte) /\ (IsNumber(tlv) => Len(tlv.value) \in Widths)
  BY TlvFacts
<1>2. CASE IsNumber(tlv)
  <2> DEFINE w == Len(tlv.value)
             n == Load(tlv.value)
  <2>1. w \in Widths /\ n \in Below(Limit(w))
    BY <1>1, <1>2, StoreLoad
  <2>2. Payload(tlv) = Digits(n, w)
    BY <1>2 DEF Payload
  <2> HIDE DEF w, n
  <2>3. Digits(n, w) \in Seq(Byte) /\ Len(Digits(n, w)) = w
    BY <2>1, NumberDigits
  <2>4. Hton(Load(Digits(n, w)), w) = n
    BY <2>1, NetworkOrder
  <2>5. QED
    BY <2>2, <2>3, <2>4 DEF w, n
<1>3. CASE ~IsNumber(tlv)
  BY <1>1, <1>3 DEF Payload
<1>4. QED
  BY <1>2, <1>3

\* A received tlv is one that can be in a list, and has the same size.
LEMMA ImageFacts ==
    ASSUME NEW tlv \in Tlvs
    PROVE  /\ Image(tlv) \in Tlvs
           /\ Image(tlv).type = tlv.type
           /\ Image(tlv).value = Payload(tlv)
           /\ ~IsNumber(Image(tlv))
           /\ Size(Image(tlv)) = Size(tlv)
<1>1. /\ Image(tlv).type = tlv.type /\ Image(tlv).value = Payload(tlv)
      /\ Image(tlv).data_type = "BYTES"
  BY DEF Image
<1>2. ~IsNumber(Image(tlv))
  BY <1>1 DEF IsNumber
<1>3. Payload(tlv) \in Seq(Byte) /\ Len(Payload(tlv)) = Len(tlv.value)
  BY PayloadFacts
<1>4. tlv.type \in Below(32768) /\ Len(tlv.value) < 32768
  BY TlvFacts, SMT DEF Below
<1>5. Image(tlv) \in Tlvs
  BY <1>1, <1>2, <1>3, <1>4, SMT DEF Tlvs, Image
<1>6. Size(Image(tlv)) = Size(tlv)
  BY <1>1, <1>3 DEF Size
<1>7. QED
  BY <1>1, <1>2, <1>5, <1>6

\* What is written for a tlv: two bytes of type, two of length, and the payload.
LEMMA EncodeFacts ==
    ASSUME NEW tlv \in Tlvs
    PROVE  /\ Encode(tlv) \in Seq(Byte)
           /\ Len(Encode(tlv)) = Size(tlv)
           /\ \A j \in 1..2 : Encode(tlv)[j] = Digits(tlv.type, 2)[j]
           /\ \A j \in 1..2 : Encode(tlv)[2 + j] = Digits(Len(tlv.value), 2)[j]
           /\ \A j \in 1..Len(tlv.value) : Encode(tlv)[4 + j] = Payload(tlv)[j]
<1> DEFINE w == Len(tlv.value)
           t == Digits(tlv.type, 2)
           l == Digits(w, 2)
           v == Payload(tlv)
<1>1. 2 \in Widths /\ tlv.type \in Below(Limit(2)) /\ w \in Below(Limit(2)) /\ w \in Nat
  BY TlvFacts, SMT DEF Widths, Below, Limit
<1>2. t \in Seq(Byte) /\ Len(t) = 2 /\ l \in Seq(Byte) /\ Len(l) = 2
  BY <1>1, NumberDigits
<1>3. v \in Seq(Byte) /\ Len(v) = w
  BY PayloadFacts
<1>4. Store(Hton(tlv.type, 2), 2) = t /\ Store(Hton(w, 2), 2) = l
  BY <1>1, NetworkOrder
<1>5. Store(Hton(Load(tlv.value), w), w) = v \/ ~IsNumber(tlv)
  <2> SUFFICES ASSUME IsNumber(tlv) PROVE Store(Hton(Load(tlv.value), w), w) = v
    OBVIOUS
  <2>1. tlv.value \in Seq(Byte) /\ w \in Widths
    BY TlvFacts
  <2>2. Load(tlv.value) \in Below(Limit(w))
    BY <2>1, StoreLoad
  <2>3. Store(Hton(Load(tlv.value), w), w) = Digits(Load(tlv.value), w)
    BY <2>1, <2>2, NetworkOrder
  <2>4. QED
    BY <2>3 DEF Payload
<1>6. Encode(tlv) = t \o l \o v
  <2>1. CASE IsNumber(tlv)
    BY <1>4, <1>5, <2>1 DEF Encode, IsNumber
  <2>2. CASE ~IsNumber(tlv)
    BY <1>4, <2>2 DEF Encode, IsNumber, Payload
  <2>3. QED
    BY <2>1, <2>2
<1>7. Size(tlv) = 4 + w
  BY DEF Size
<1> HIDE DEF w, t, l, v
<1>8. PICK h : h = t \o l
  OBVIOUS
<1>9. /\ h \in Seq(Byte) /\ Len(h) = Len(t) + Len(l)
      /\ \A i \in 1..(Len(t) + Len(l)) : h[i] = IF i <= Len(t) THEN t[i] ELSE l[i - Len(t)]
  BY <1>2, <1>8, ConcatProperties
<1>10. Len(h) = 4 /\ \A i \in 1..4 : h[i] = IF i <= 2 THEN t[i] ELSE l[i - 2]
  BY <1>2, <1>9
<1>11. PICK e : e = h \o v
  OBVIOUS
<1>12. /\ e \in Seq(Byte) /\ Len(e) = Len(h) + Len(v)
       /\ \A i \in 1..(Len(h) + Len(v)) : e[i] = IF i <= Len(h) THEN h[i] ELSE v[i - Len(h)]
  <2>1. h \in Seq(Byte) /\ v \in Seq(Byte)
    BY <1>3, <1>9
  <2>2. QED
    BY <1>11, <2>1, ConcatProperties
<1>13. Len(e) = 4 + w /\ \A i \in 1..(4 + w) : e[i] = IF i <= 4 THEN h[i] ELSE v[i - 4]
  BY <1>3, <1>10, <1>12
<1>14. \A j \in 1..2 : e[j] = t[j] /\ e[2 + j] = l[j]
  <2> SUFFICES ASSUME NEW j \in 1..2 PROVE e[j] = t[j] /\ e[2 + j] = l[j]
    OBVIOUS
  <2>1. j \in 1..(4 + w) /\ 2 + j \in 1..(4 + w) /\ j <= 4 /\ 2 + j <= 4
    BY <1>1
  <2>2. e[j] = h[j] /\ e[2 + j] = h[2 + j]
    BY <1>13, <2>1
  <2>3. j \in 1..4 /\ 2 + j \in 1..4 /\ j <= 2 /\ ~(2 + j <= 2) /\ (2 + j) - 2 = j
    OBVIOUS
  <2>4. h[j] = t[j] /\ h[2 + j] = l[j]
    BY <1>10, <2>3
  <2>5. QED
    BY <2>2, <2>4
<1>15. \A j \in 1..w : e[4 + j] = v[j]
  <2> SUFFICES ASSUME NEW j \in 1..w PROVE e[4 + j] = v[j]
    OBVIOUS
  <2>1. 4 + j \in 1..(4 + w) /\ ~(4 + j <= 4) /\ (4 + j) - 4 = j
    BY <1>1
  <2>2. QED
    BY <1>13, <2>1
<1>16. Encode(tlv) = e
  BY <1>6, <1>8, <1>11
<1>17. Len(e) = Size(tlv)
  BY <1>7, <1>13
<1>18. QED
  BY <1>12, <1>14, <1>15, <1>16, <1>17 DEF w, t, l, v

-----------------------------------------------------------------------------
(* Where the tlvs of a list are in its buffer *)

\* off[k] is where the first k tlvs of the list end.
IsOffsets(l, off) ==
    /\ off \in [0..Len(l) -> Nat]
    /\ off[0] = 0
    /\ \A k \in 1..Len(l) : off[k] = off[k - 1] + Size(l[k])

\* The offsets exist, and the last one is the size of the list.
LEMMA Offsets ==
    ASSUME NEW l \in Seq(Tlvs)
    PROVE  \E off : IsOffsets(l, off) /\ TotalSize(l) = off[Len(l)]
<1> DEFINE n == Len(l)
           step == [p \in Nat \X Nat |-> p[1] + (IF p[2] \in 1..n THEN Size(l[p[2]]) ELSE 0)]
           F(g) == g = [s \in SUBSET (1..n) |->
                          IF s = {} THEN 0 ELSE g[s \ {Max(s)}] + Size(l[Max(s)])]
<1>1. n \in Nat /\ DOMAIN l = 1..n /\ \A i \in 1..n : Size(l[i]) \in Nat
  <2>1. \A i \in 1..n : l[i] \in Tlvs
    BY ElementOfSeq
  <2>2. n \in Nat /\ DOMAIN l = 1..n
    BY LenProperties
  <2> HIDE DEF n
  <2>3. QED
    BY <2>1, <2>2, TlvFacts
<1> HIDE DEF n
<1>2. step \in [Nat \X Nat -> Nat]
  BY <1>1
<1>3. PICK it \in [SUBSET (1..n) -> Nat] : \A s \in SUBSET (1..n) :
        it[s] = IF s = {} THEN 0 ELSE step[<<it[s \ {Max(s)}], Max(s)>>]
  <2> HIDE DEF step
  <2>1. PICK it : IsFold(it, Nat, 0, step, n)
    BY <1>1, <1>2, FoldExists
  <2>2. QED
    BY <2>1 DEF IsFold
<1>4. F(it)
  <2>1. ASSUME NEW s \in SUBSET (1..n), s # {}
        PROVE  it[s] = it[s \ {Max(s)}] + Size(l[Max(s)])
    <3>1. Max(s) \in 1..n
      BY <1>1, <2>1, MaxOf
    <3>2. it[s \ {Max(s)}] \in Nat
      <4>1. s \ {Max(s)} \in SUBSET (1..n)
        OBVIOUS
      <4>2. QED
        BY <1>3, <4>1
    <3>3. step[<<it[s \ {Max(s)}], Max(s)>>] = it[s \ {Max(s)}] + Size(l[Max(s)])
      BY <1>1, <3>1, <3>2
    <3> HIDE DEF step
    <3>4. QED
      BY <1>3, <2>1, <3>3
  <2> HIDE DEF step
  <2>2. it[{}] = 0
    BY <1>3
  <2>3. QED
    BY <2>1, <2>2
<1> DEFINE g == CHOOSE h : F(h)
<1>5. F(g)
  <2> HIDE DEF F
  <2>1. QED
    BY <1>4
<1>6. TotalSize(l) = g[1..n]
  BY <1>1 DEF TotalSize, FoldLeft, MapThenFoldSet
<1> HIDE DEF g
<1> DEFINE f == [k \in 0..n |-> g[1..k]]
<1>7. f[0] = 0
  <2>1. 1..0 = {}
    OBVIOUS
  <2>2. g[{}] = 0
    BY <1>5
  <2>3. QED
    BY <1>1, <2>1, <2>2
<1>8. ASSUME NEW k \in 1..n PROVE f[k] = f[k - 1] + Size(l[k])
  <2>1. 1..k \in SUBSET (1..n) /\ 1..k # {} /\ (1..k) \ {k} = 1..(k - 1) /\ k - 1 \in 0..n
    <3>1. k \in Nat /\ 1 <= k /\ k <= n
      BY <1>1
    <3>2. 1..k \subseteq 1..n /\ 1 \in 1..k
      BY <1>1, <3>1
    <3>3. (1..k) \ {k} = 1..(k - 1)
      BY <3>1
    <3>4. k - 1 \in 0..n
      BY <1>1, <3>1
    <3>5. QED
      BY <3>2, <3>3, <3>4
  <2>2. Max(1..k) = k
    BY <1>1, MaxPrefix
  <2>3. g[1..k] = g[1..(k - 1)] + Size(l[k])
    BY <1>5, <2>1, <2>2
  <2>4. QED
    BY <2>1, <2>3
<1>9. f[n] = g[1..n] /\ f = [k \in 0..n |-> f[k]]
  BY <1>1
<1> HIDE DEF f
<1>10. \A k \in 0..n : f[k] \in Nat
  <2> SUFFICES ASSUME NEW k \in 0..n, f[k] \notin Nat PROVE FALSE
    OBVIOUS
  <2> DEFINE Bad == {j \in 0..n : f[j] \notin Nat}
  <2>1. PICK m \in Bad : \A j \in Bad : m <= j
    <3>1. Bad \in SUBSET Nat /\ Bad # {}
      BY <1>1
    <3>2. QED
      BY <3>1, LeastNumber
  <2>2. m \in 0..n /\ f[m] \notin Nat
    BY <2>1
  <2>3. m \in 1..n /\ m - 1 \in 0..n /\ m - 1 < m
    BY <1>1, <1>7, <2>2
  <2>4. f[m - 1] \in Nat
    BY <2>1, <2>2, <2>3
  <2>5. QED
    BY <1>1, <1>8, <2>2, <2>3, <2>4
<1>11. IsOffsets(l, f)
  <2>1. f \in [0..n -> Nat]
    BY <1>9, <1>10
  <2>2. QED
    BY <1>7, <1>8, <2>1 DEF IsOffsets, n
<1>12. QED
  BY <1>6, <1>9, <1>11 DEF n

\* There is one such function only.
LEMMA OffsetsUnique ==
    ASSUME NEW l \in Seq(Tlvs), NEW f, IsOffsets(l, f), NEW g, IsOffsets(l, g)
    PROVE  \A k \in 0..Len(l) : f[k] = g[k]
<1> SUFFICES ASSUME NEW k \in 0..Len(l), f[k] # g[k] PROVE FALSE
  OBVIOUS
<1> DEFINE n == Len(l)
           Bad == {j \in 0..n : f[j] # g[j]}
<1>1. n \in Nat
  BY LenProperties
<1>2. PICK m \in Bad : \A j \in Bad : m <= j
  <2>1. Bad \in SUBSET Nat /\ Bad # {}
    BY <1>1
  <2> HIDE DEF Bad
  <2>2. QED
    BY <2>1, LeastNumber
<1>3. m \in 0..n /\ f[m] # g[m]
  BY <1>2
<1>4. m # 0
  BY <1>3 DEF IsOffsets
<1>5. m \in 1..n /\ m - 1 \in 0..n /\ m - 1 < m
  BY <1>1, <1>3, <1>4
<1>6. f[m - 1] = g[m - 1]
  BY <1>2, <1>3, <1>5
<1>7. QED
  BY <1>3, <1>5, <1>6 DEF IsOffsets

\* The offsets grow by four at least, from tlv to tlv.
LEMMA OffsetsGrow ==
    ASSUME NEW l \in Seq(Tlvs), NEW off, IsOffsets(l, off)
    PROVE  /\ \A k \in 0..Len(l) : off[k] \in Nat /\ k <= off[k] /\ off[k] <= off[Len(l)]
           /\ \A k \in 1..Len(l) :
                /\ l[k] \in Tlvs
                /\ off[k] = off[k - 1] + Size(l[k])
                /\ off[k - 1] + 4 <= off[k]
                /\ off[k - 1] < off[Len(l)]
                /\ Size(l[k]) <= off[Len(l)]
<1> DEFINE n == Len(l)
<1>1. n \in Nat /\ \A k \in 1..n : l[k] \in Tlvs
  BY LenProperties, ElementOfSeq
<1>2. off[0] = 0 /\ \A k \in 0..n : off[k] \in Nat
  BY DEF IsOffsets
<1>3. \A k \in 1..n : off[k] = off[k - 1] + Size(l[k])
  BY DEF IsOffsets
<1> HIDE DEF n
<1>4. \A k \in 1..n : Size(l[k]) \in Nat /\ Size(l[k]) >= 4
  BY <1>1, TlvFacts
<1>5. ASSUME NEW k \in 1..n
      PROVE  k - 1 \in 0..n /\ k \in 0..n /\ off[k - 1] \in Nat /\ off[k] \in Nat
             /\ off[k - 1] + 4 <= off[k] /\ Size(l[k]) <= off[k]
  <2>1. k - 1 \in 0..n /\ k \in 0..n
    BY <1>1
  <2>2. off[k - 1] \in Nat /\ off[k] \in Nat
    BY <1>2, <2>1
  <2>3. QED
    BY <1>3, <1>4, <2>1, <2>2
<1>6. \A k \in 0..n : k <= off[k]
  <2> SUFFICES ASSUME NEW k \in 0..n, ~(k <= off[k]) PROVE FALSE
    OBVIOUS
  <2> DEFINE Bad == {j \in 0..n : ~(j <= off[j])}
  <2>1. PICK m \in Bad : \A j \in Bad : m <= j
    <3>1. Bad \in SUBSET Nat /\ Bad # {}
      BY <1>1
    <3> HIDE DEF Bad
    <3>2. QED
      BY <3>1, LeastNumber
  <2>2. m \in 0..n /\ ~(m <= off[m])
    BY <2>1
  <2>3. m \in 1..n
    BY <1>1, <1>2, <2>2
  <2>4. m - 1 <= off[m - 1]
    BY <1>5, <2>1, <2>2, <2>3
  <2>5. QED
    BY <1>5, <2>2, <2>3, <2>4
<1>7. \A k \in 0..n : off[k] <= off[n]
  <2> SUFFICES ASSUME NEW k \in 0..n, ~(off[k] <= off[n]) PROVE FALSE
    OBVIOUS
  <2> DEFINE Bad == {j \in 0..n : ~(off[n - j] <= off[n])}
  <2>1. PICK m \in Bad : \A j \in Bad : m <= j
    <3>1. n - k \in 0..n /\ n - (n - k) = k
      BY <1>1
    <3>2. Bad \in SUBSET Nat /\ n - k \in Bad
      BY <1>1, <3>1
    <3> HIDE DEF Bad
    <3>3. QED
      BY <3>2, LeastNumber
  <2>2. m \in 0..n /\ ~(off[n - m] <= off[n])
    BY <2>1
  <2>3. m # 0
    <3>1. n \in 0..n /\ n - 0 = n
      BY <1>1
    <3>2. QED
      BY <1>2, <2>2, <3>1
  <2>4. m - 1 \in 0..n /\ m - 1 < m /\ n - (m - 1) \in 1..n /\ (n - (m - 1)) - 1 = n - m
    BY <1>1, <2>2, <2>3
  <2>5. off[n - (m - 1)] <= off[n]
    BY <2>1, <2>2, <2>4
  <2>6. off[n - m] + 4 <= off[n - (m - 1)] /\ off[n - m] \in Nat /\ off[n - (m - 1)] \in Nat
    BY <1>5, <2>4
  <2>7. off[n] \in Nat
    BY <1>1, <1>2
  <2>8. QED
    BY <2>2, <2>5, <2>6, <2>7
<1>8. ASSUME NEW k \in 1..n
      PROVE  off[k - 1] < off[n] /\ Size(l[k]) <= off[n]
  <2>1. off[k] <= off[n] /\ off[n] \in Nat
    BY <1>1, <1>2, <1>5, <1>7
  <2>2. QED
    BY <1>4, <1>5, <2>1
<1>9. QED
  BY <1>1, <1>2, <1>3, <1>5, <1>6, <1>7, <1>8 DEF n

\* The offsets do not decrease.
LEMMA OffsetsMonotone ==
    ASSUME NEW l \in Seq(Tlvs), NEW off, IsOffsets(l, off),
           NEW p \in 0..Len(l), NEW k \in 0..p
    PROVE  off[k] <= off[p]
<1> DEFINE n == Len(l)
           Bad == {j \in 0..p : ~(off[p - j] <= off[p])}
<1>1. n \in Nat /\ p \in Nat /\ k \in Nat /\ p <= n /\ k <= p
  BY LenProperties
<1>2. /\ \A i \in 0..n : off[i] \in Nat
      /\ \A i \in 1..n : off[i] = off[i - 1] + Size(l[i]) /\ Size(l[i]) \in Nat
  BY OffsetsGrow, TlvFacts
<1> HIDE DEF n
<1> SUFFICES ASSUME ~(off[k] <= off[p]) PROVE FALSE
  OBVIOUS
<1>3. PICK m \in Bad : \A j \in Bad : m <= j
  <2>1. p - k \in 0..p /\ p - (p - k) = k
    BY <1>1
  <2>2. Bad \in SUBSET Nat /\ p - k \in Bad
    BY <1>1, <2>1
  <2> HIDE DEF Bad
  <2>3. QED
    BY <2>2, LeastNumber
<1>4. m \in 0..p /\ ~(off[p - m] <= off[p])
  BY <1>3
<1>5. m # 0
  <2>1. p \in 0..n /\ p - 0 = p
    BY <1>1
  <2>2. QED
    BY <1>2, <1>4, <2>1
<1>6. PICK i \in 1..p : i = p - (m - 1) /\ i - 1 = p - m
  BY <1>1, <1>4, <1>5
<1>7. m - 1 \in 0..p /\ m - 1 < m /\ i \in 1..n /\ i \in 0..n /\ i - 1 \in 0..n /\ p \in 0..n
  BY <1>1, <1>4, <1>5, <1>6
<1>8. off[i] <= off[p]
  BY <1>3, <1>4, <1>6, <1>7
<1>9. off[i] = off[i - 1] + Size(l[i]) /\ Size(l[i]) \in Nat /\ off[i - 1] \in Nat
      /\ off[i] \in Nat /\ off[p] \in Nat
  BY <1>2, <1>7
<1>10. QED
  BY <1>4, <1>6, <1>8, <1>9

\* The recursive function inside FlattenSeq exists, for every list.
LEMMA FlattenExists ==
    ASSUME NEW s, NEW n \in Nat
    PROVE  \E f : f = [h \in 1..n |-> IF h = 1 THEN s[h] ELSE f[h - 1] \o s[h]]
<1> DEFINE F(m, f) == f = [h \in 1..m |-> IF h = 1 THEN s[h] ELSE f[h - 1] \o s[h]]
           Bad == {m \in Nat : ~\E f : F(m, f)}
<1> SUFFICES ASSUME n \in Bad PROVE FALSE
  OBVIOUS
<1>1. PICK m \in Bad : \A j \in Bad : m <= j
  <2>1. Bad \in SUBSET Nat /\ Bad # {}
    OBVIOUS
  <2> HIDE DEF Bad
  <2>2. QED
    BY <2>1, LeastNumber
<1>2. m \in Nat /\ ~\E f : F(m, f)
  BY <1>1
<1>3. m # 0
  <2>1. F(0, [h \in 1..0 |-> 0])
    OBVIOUS
  <2>2. QED
    BY <1>2, <2>1
<1>4. PICK k \in Nat : m = k + 1
  <2>1. m - 1 \in Nat /\ m = (m - 1) + 1
    BY <1>2, <1>3
  <2>2. QED
    BY <2>1
<1>5. PICK f : F(k, f)
  <2>1. k < m
    BY <1>4
  <2>2. k \notin Bad
    <3> HIDE DEF Bad
    <3>1. QED
      BY <1>1, <1>2, <2>1
  <2>3. QED
    BY <2>2
<1> DEFINE w == [h \in 1..m |-> IF h = m THEN IF h = 1 THEN s[h] ELSE f[k] \o s[h] ELSE f[h]]
<1>6. ASSUME NEW h \in 1..m
      PROVE  w[h] = IF h = 1 THEN s[h] ELSE w[h - 1] \o s[h]
  <2>1. CASE h = m
    <3>1. h # 1 => h - 1 \in 1..m /\ h - 1 # m /\ h - 1 = k
      BY <1>4, <2>1
    <3>2. QED
      BY <2>1, <3>1
  <2>2. CASE h # m
    <3>1. h \in 1..k /\ (h # 1 => h - 1 \in 1..m /\ h - 1 # m)
      BY <1>4, <2>2
    <3>2. f[h] = IF h = 1 THEN s[h] ELSE f[h - 1] \o s[h]
      BY <1>5, <3>1
    <3>3. QED
      BY <2>2, <3>1, <3>2
  <2>3. QED
    BY <2>1, <2>2
<1>7. F(m, w)
  BY <1>6
<1>8. QED
  <2> HIDE DEF w, F
  <2>1. QED
    BY <1>2, <1>7

\* Where the bytes of one tlv lie when it starts at x.
LEMMA After ==
    ASSUME NEW x \in Nat, NEW y \in Nat, NEW z \in Nat, NEW j \in Nat,
           y = x + z, 1 <= j, j <= z
    PROVE  x + j \in 1..y /\ ~(x + j <= x) /\ (x + j) - x = j
  OBVIOUS

\* The buffer of a list has the size of the list, and every tlv is where its offset
\* says.
LEMMA WireFacts ==
    ASSUME NEW l \in Seq(Tlvs), NEW off, IsOffsets(l, off)
    PROVE  /\ Wire(l) \in Seq(Byte)
           /\ Len(Wire(l)) = off[Len(l)]
           /\ \A k \in 1..Len(l) : \A j \in 1..Size(l[k]) :
                Wire(l)[off[k - 1] + j] = Encode(l[k])[j]
<1> DEFINE n == Len(l)
           s == [i \in 1..n |-> Encode(l[i])]
           F(f) == f = [h \in 1..n |-> IF h = 1 THEN s[h] ELSE f[h - 1] \o s[h]]
           g == CHOOSE f : F(f)
           At(q, m) == /\ q \in Seq(Byte) /\ Len(q) = off[m]
                       /\ \A k \in 1..m : \A j \in 1..Size(l[k]) :
                            q[off[k - 1] + j] = s[k][j]
<1>1. n \in Nat /\ \A k \in 1..n : l[k] \in Tlvs
  BY LenProperties, ElementOfSeq
<1>2. Len(s) = n
  BY <1>1
<1>3. /\ \A k \in 0..n : off[k] \in Nat
      /\ \A k \in 1..n : off[k] = off[k - 1] + Size(l[k])
      /\ off[0] = 0
  BY DEF IsOffsets
<1>4. \A k \in 1..n : s[k] \in Seq(Byte) /\ Len(s[k]) = Size(l[k]) /\ Size(l[k]) \in Nat
  BY <1>1, EncodeFacts, TlvFacts
<1>5. Wire(l) = IF n = 0 THEN s ELSE g[n]
  <2>1. Wire(l) = FlattenSeq(s)
    BY DEF Wire
  <2> HIDE DEF s
  <2>2. FlattenSeq(s) = IF n = 0 THEN s ELSE g[n]
    BY <1>2 DEF FlattenSeq
  <2>3. QED
    BY <2>1, <2>2
<1>6. F(g)
  <2> HIDE DEF s
  <2>1. \E f : F(f)
    BY <1>1, FlattenExists
  <2> HIDE DEF F
  <2>2. QED
    BY <2>1
<1>7. CASE n = 0
  <2>1. s = << >>
    BY <1>7
  <2>2. Wire(l) = << >>
    BY <1>5, <1>7, <2>1
  <2>3. QED
    BY <1>3, <1>7, <2>2, EmptySeq
<1> HIDE DEF n, s, g
<1>8. \A m \in 1..n : At(g[m], m)
  <2> SUFFICES ASSUME NEW h \in 1..n, ~At(g[h], h) PROVE FALSE
    OBVIOUS
  <2> DEFINE Bad == {j \in 1..n : ~At(g[j], j)}
  <2>1. PICK m \in Bad : \A j \in Bad : m <= j
    <3>1. Bad \in SUBSET Nat /\ Bad # {}
      BY <1>1
    <3> HIDE DEF Bad
    <3>2. QED
      BY <3>1, LeastNumber
  <2>2. m \in 1..n /\ ~At(g[m], m)
    BY <2>1
  <2>3. m \in 1..n /\ m \in Nat /\ m \in 0..n /\ m - 1 \in 0..n
    BY <1>1, <2>2
  <2>4. g[m] = IF m = 1 THEN s[m] ELSE g[m - 1] \o s[m]
    BY <1>6, <2>2
  <2>5. CASE m = 1
    <3>1. g[1] = s[1] /\ off[1] = off[0] + Size(l[1]) /\ off[1 - 1] = 0
      BY <1>3, <2>2, <2>4, <2>5
    <3>2. s[1] \in Seq(Byte) /\ Len(s[1]) = off[1]
      BY <1>3, <1>4, <2>2, <2>5, <3>1
    <3>3. \A j \in 1..Size(l[1]) : s[1][off[1 - 1] + j] = s[1][j]
      <4> SUFFICES ASSUME NEW j \in 1..Size(l[1]) PROVE s[1][off[1 - 1] + j] = s[1][j]
        OBVIOUS
      <4>1. off[1 - 1] + j = j
        BY <1>4, <2>2, <2>5, <3>1
      <4>2. QED
        BY <4>1
    <3>4. \A k \in 1..1 : k = 1
      OBVIOUS
    <3>5. At(g[1], 1)
      BY <3>1, <3>2, <3>3, <3>4
    <3>6. QED
      BY <2>2, <2>5, <3>5
  <2>6. CASE m # 1
    <3>1. PICK p \in 1..n : p = m - 1 /\ p < m
      BY <1>1, <2>3, <2>6
    <3>2. At(g[p], p)
      <4>1. p \notin Bad
        <5> HIDE DEF Bad
        <5>1. QED
          BY <1>1, <2>1, <2>3, <3>1
      <4>2. QED
        BY <4>1
    <3>3. g[p] \in Seq(Byte) /\ s[m] \in Seq(Byte)
      BY <1>4, <2>2, <3>2
    <3>4. PICK c : c = g[p] \o s[m]
      OBVIOUS
    <3>5. c \in Seq(Byte) /\ Len(c) = Len(g[p]) + Len(s[m])
          /\ \A i \in 1..(Len(g[p]) + Len(s[m])) :
               c[i] = IF i <= Len(g[p]) THEN g[p][i] ELSE s[m][i - Len(g[p])]
      BY <3>3, <3>4, ConcatProperties
    <3>6. /\ Len(g[p]) = off[p] /\ Len(s[m]) = Size(l[m]) /\ off[m] = off[p] + Size(l[m])
          /\ off[p] \in Nat /\ Size(l[m]) \in Nat /\ off[m] \in Nat
      <4>1. p \in 0..n
        BY <1>1
      <4>2. QED
        BY <1>3, <1>4, <2>2, <2>3, <3>1, <3>2, <4>1
    <3>7. /\ Len(c) = off[m]
          /\ \A i \in 1..off[m] : c[i] = IF i <= off[p] THEN g[p][i] ELSE s[m][i - off[p]]
      BY <3>5, <3>6
    <3>8. ASSUME NEW k \in 1..m, NEW j \in 1..Size(l[k]) PROVE c[off[k - 1] + j] = s[k][j]
      <4>1. CASE k = m
        <5>1. off[k - 1] = off[p]
          BY <3>1, <4>1
        <5>2. off[p] + j \in 1..off[m] /\ ~(off[p] + j <= off[p]) /\ (off[p] + j) - off[p] = j
          <6>1. j \in Nat /\ 1 <= j /\ j <= Size(l[m])
            BY <3>6, <4>1
          <6>2. PICK x \in Nat, y \in Nat, z \in Nat :
                  x = off[p] /\ y = off[m] /\ z = Size(l[m])
            BY <3>6
          <6>3. y = x + z /\ j \in Nat /\ 1 <= j /\ j <= z
            BY <3>6, <6>1, <6>2
          <6>4. x + j \in 1..y /\ ~(x + j <= x) /\ (x + j) - x = j
            BY <6>3, After
          <6>5. QED
            BY <6>2, <6>4
        <5>3. QED
          BY <3>7, <4>1, <5>1, <5>2
      <4>2. CASE k # m
        <5>1. k \in 1..p /\ k \in 1..n /\ k - 1 \in 0..n
          BY <1>1, <2>3, <3>1, <4>2
        <5>2. off[k - 1] \in Nat /\ Size(l[k]) \in Nat /\ off[k] = off[k - 1] + Size(l[k])
          BY <1>3, <1>4, <5>1
        <5>3. off[k] <= off[p]
          BY <3>1, <5>1, OffsetsMonotone DEF n
        <5>4. off[k - 1] + j \in 1..off[m] /\ off[k - 1] + j <= off[p]
          <6>1. j \in Nat /\ 1 <= j /\ j <= Size(l[k])
            BY <5>2
          <6>2. off[k - 1] + j <= off[k] /\ off[k - 1] + j \in Nat /\ 1 <= off[k - 1] + j
            <7>1. PICK x \in Nat, z \in Nat :
                    x = off[k - 1] /\ z = Size(l[k]) /\ off[k] = x + z
              BY <5>2
            <7>2. j \in Nat /\ 1 <= j /\ j <= z
              BY <6>1, <7>1
            <7>3. x + j <= x + z /\ x + j \in Nat /\ 1 <= x + j
              BY <7>2
            <7>4. QED
              BY <7>1, <7>3
          <6>3. off[p] <= off[m]
            BY <3>6
          <6>4. PICK x \in Nat, y \in Nat : x = off[k - 1] + j /\ y = off[m]
            BY <3>6, <6>2
          <6>5. 1 <= x /\ x <= off[p] /\ x <= y
            <7>1. off[k] \in Nat
              BY <1>3, <5>1
            <7>2. PICK u \in Nat, v \in Nat : u = off[k] /\ v = off[p]
              BY <3>6, <7>1
            <7>3. 1 <= x /\ x <= u
              BY <6>2, <6>4, <7>2
            <7>4. u <= v
              BY <5>3, <7>2
            <7>5. v <= y
              BY <6>3, <6>4, <7>2
            <7>6. QED
              BY <7>2, <7>3, <7>4, <7>5
          <6>6. x \in 1..y
            BY <6>5
          <6>7. QED
            BY <6>4, <6>5, <6>6
        <5>5. c[off[k - 1] + j] = g[p][off[k - 1] + j]
          BY <3>7, <5>4
        <5>6. g[p][off[k - 1] + j] = s[k][j]
          BY <3>2, <5>1
        <5>7. QED
          BY <5>5, <5>6
      <4>3. QED
        BY <4>1, <4>2
    <3>9. At(c, m)
      BY <3>5, <3>7, <3>8
    <3>10. g[m] = c
      BY <2>4, <2>6, <3>1, <3>4
    <3>11. QED
      BY <2>2, <3>9, <3>10
  <2>7. QED
    BY <2>5, <2>6
<1>9. CASE n # 0
  <2>1. n \in 1..n
    BY <1>1, <1>9
  <2>2. Wire(l) = g[n]
    BY <1>5, <1>9
  <2>3. At(Wire(l), n)
    BY <1>8, <2>1, <2>2
  <2>4. QED
    BY <2>3 DEF n, s
<1>10. QED
  BY <1>7, <1>9

\* A list needs as many bytes as its buffer has.
LEMMA WireSize ==
    ASSUME NEW l \in Seq(Tlvs)
    PROVE  /\ Wire(l) \in Seq(Byte)
           /\ Len(Wire(l)) = TotalSize(l)
           /\ TotalSize(l) \in Nat
           /\ \A k \in 1..Len(l) : Len(l[k].value) <= TotalSize(l)
<1>1. PICK off : IsOffsets(l, off) /\ TotalSize(l) = off[Len(l)]
  BY Offsets
<1>2. Wire(l) \in Seq(Byte) /\ Len(Wire(l)) = TotalSize(l)
  BY <1>1, WireFacts
<1>3. TotalSize(l) \in Nat
  BY <1>2, LenProperties
<1>4. ASSUME NEW k \in 1..Len(l) PROVE Len(l[k].value) <= TotalSize(l)
  <2>1. l[k] \in Tlvs /\ Size(l[k]) <= TotalSize(l)
    BY <1>1, OffsetsGrow
  <2>2. Size(l[k]) = 4 + Len(l[k].value) /\ Len(l[k].value) \in Nat
    BY <2>1, TlvFacts
  <2>3. QED
    BY <1>3, <2>1, <2>2
<1>5. QED
  BY <1>2, <1>3, <1>4

-----------------------------------------------------------------------------
(* Lists *)

Distinct(l) == \A i, j \in 1..Len(l) : l[i].type = l[j].type => i = j

Lists == {l \in Seq(Tlvs) : Distinct(l)}

\* A tlv at the front of a list.
LEMMA ConsFacts ==
    ASSUME NEW l \in Seq(Tlvs), NEW tlv \in Tlvs, NEW c, c = <<tlv>> \o l
    PROVE  /\ c \in Seq(Tlvs)
           /\ Len(c) = Len(l) + 1
           /\ c[1] = tlv
           /\ \A i \in 1..Len(l) : c[i + 1] = l[i]
<1>1. <<tlv>> \in Seq(Tlvs) /\ Len(<<tlv>>) = 1 /\ <<tlv>>[1] = tlv /\ Len(l) \in Nat
  BY LenProperties
<1>2. PICK q : q = <<tlv>>
  OBVIOUS
<1>3. q \in Seq(Tlvs) /\ Len(q) = 1 /\ q[1] = tlv /\ c = q \o l
  BY <1>1, <1>2
<1>4. /\ c \in Seq(Tlvs) /\ Len(c) = Len(q) + Len(l)
      /\ \A i \in 1..(Len(q) + Len(l)) : c[i] = IF i <= Len(q) THEN q[i] ELSE l[i - Len(q)]
  <2>1. q \in Seq(Tlvs) /\ c = q \o l
    BY <1>3
  <2>2. QED
    BY <2>1, ConcatProperties
<1>5. /\ c \in Seq(Tlvs) /\ Len(c) = 1 + Len(l)
      /\ \A i \in 1..(1 + Len(l)) : c[i] = IF i <= 1 THEN q[i] ELSE l[i - 1]
  BY <1>3, <1>4
<1>6. c[1] = tlv
  BY <1>1, <1>3, <1>5
<1>7. ASSUME NEW i \in 1..Len(l) PROVE c[i + 1] = l[i]
  <2>1. i + 1 \in 1..(1 + Len(l)) /\ ~(i + 1 <= 1) /\ (i + 1) - 1 = i
    BY <1>1
  <2>2. QED
    BY <1>5, <2>1
<1>8. QED
  BY <1>1, <1>5, <1>6, <1>7

\* It adds its own size.
LEMMA SizeCons ==
    ASSUME NEW l \in Seq(Tlvs), NEW tlv \in Tlvs
    PROVE  TotalSize(<<tlv>> \o l) = TotalSize(l) + Size(tlv)
<1>1. PICK c : c = <<tlv>> \o l
  OBVIOUS
<1>2. /\ c \in Seq(Tlvs) /\ Len(c) = Len(l) + 1 /\ c[1] = tlv
      /\ \A i \in 1..Len(l) : c[i + 1] = l[i]
  BY <1>1, ConsFacts
<1>3. PICK off : IsOffsets(l, off) /\ TotalSize(l) = off[Len(l)]
  BY Offsets
<1>4. PICK coff : IsOffsets(c, coff) /\ TotalSize(c) = coff[Len(c)]
  BY <1>2, Offsets
<1>5. PICK n \in Nat : n = Len(l)
  BY LenProperties
<1>6. PICK z \in Nat : z = Size(tlv)
  BY TlvFacts
<1>7. /\ \A k \in 0..n : off[k] \in Nat
      /\ \A k \in 1..n : off[k] = off[k - 1] + Size(l[k])
      /\ off[0] = 0
  BY <1>3, <1>5 DEF IsOffsets
<1> DEFINE f == [k \in 0..(n + 1) |-> IF k = 0 THEN 0 ELSE z + off[k - 1]]
<1>8. f \in [0..(n + 1) -> Nat] /\ f[0] = 0
  <2>1. ASSUME NEW k \in 0..(n + 1), k # 0 PROVE z + off[k - 1] \in Nat
    <3>1. k - 1 \in 0..n
      BY <2>1
    <3>2. off[k - 1] \in Nat
      BY <1>7, <3>1
    <3>3. QED
      BY <3>2
  <2>2. QED
    BY <2>1
<1>9. ASSUME NEW k \in 1..(n + 1) PROVE f[k] = f[k - 1] + Size(c[k])
  <2>1. CASE k = 1
    <3>1. f[1] = z + off[1 - 1] /\ f[1 - 1] = 0
      OBVIOUS
    <3>2. f[1] = z /\ f[1 - 1] = 0
      BY <1>7, <3>1
    <3>3. Size(c[1]) = z
      BY <1>2, <1>6
    <3> HIDE DEF f
    <3>4. QED
      BY <2>1, <3>2, <3>3
  <2>2. CASE k # 1
    <3>1. PICK i \in 1..n : i = k - 1 /\ i + 1 = k
      BY <2>2
    <3>2. i \in 0..n /\ i - 1 \in 0..n /\ k \in 0..(n + 1) /\ i \in 0..(n + 1) /\ i # 0 /\ k # 0
      BY <3>1
    <3>3. f[k] = z + off[i] /\ f[k - 1] = z + off[i - 1]
      BY <3>1, <3>2
    <3>4. off[i] = off[i - 1] + Size(l[i]) /\ off[i - 1] \in Nat
      BY <1>7, <3>2
    <3>5. c[k] = l[i]
      BY <1>2, <1>5, <3>1
    <3>6. Size(l[i]) \in Nat
      BY <1>5, ElementOfSeq, TlvFacts
    <3> HIDE DEF f
    <3>7. QED
      BY <3>3, <3>4, <3>5, <3>6
  <2>3. QED
    BY <2>1, <2>2
<1> HIDE DEF f
<1>10. IsOffsets(c, f)
  BY <1>2, <1>5, <1>8, <1>9 DEF IsOffsets
<1>11. coff[n + 1] = f[n + 1]
  <2>1. Len(c) = n + 1 /\ n + 1 \in 0..Len(c)
    BY <1>2, <1>5
  <2>2. QED
    BY <1>2, <1>4, <1>10, <2>1, OffsetsUnique
<1>12. f[n + 1] = z + off[n]
  BY DEF f
<1>13. TotalSize(c) = z + off[n] /\ TotalSize(l) = off[n] /\ off[n] \in Nat
  BY <1>2, <1>3, <1>4, <1>5, <1>7, <1>11, <1>12
<1>14. QED
  BY <1>1, <1>6, <1>13

\* key_list_add of a type that is not there.
LEMMA AddedFacts ==
    ASSUME NEW l \in Lists, NEW tlv \in Tlvs, tlv.type \notin TypesOf(l)
    PROVE  /\ Added(l, tlv) \in Lists
           /\ TotalSize(Added(l, tlv)) = TotalSize(l) + Size(tlv)
           /\ Len(Added(l, tlv)) = Len(l) + 1
           /\ Added(l, tlv)[1] = tlv
           /\ \A i \in 1..Len(l) : Added(l, tlv)[i + 1] = l[i]
<1>1. l \in Seq(Tlvs) /\ Distinct(l)
  BY DEF Lists
<1>2. PICK c : c = <<tlv>> \o l
  OBVIOUS
<1>3. Added(l, tlv) = c
  BY <1>2 DEF Added
<1>4. /\ c \in Seq(Tlvs) /\ Len(c) = Len(l) + 1 /\ c[1] = tlv
      /\ \A i \in 1..Len(l) : c[i + 1] = l[i]
  BY <1>1, <1>2, ConsFacts
<1>5. TotalSize(c) = TotalSize(l) + Size(tlv)
  BY <1>1, <1>2, SizeCons
<1>6. PICK n \in Nat : n = Len(l)
  BY <1>1, LenProperties
<1>7. \A i \in 1..n : l[i].type # tlv.type
  BY <1>6 DEF TypesOf
<1>8. ASSUME NEW i \in 1..(n + 1), NEW j \in 1..(n + 1), c[i].type = c[j].type PROVE i = j
  <2>1. ASSUME NEW k \in 1..(n + 1), k # 1 PROVE k - 1 \in 1..n /\ c[k] = l[k - 1]
    <3>1. k - 1 \in 1..n /\ (k - 1) + 1 = k
      BY <2>1
    <3>2. QED
      BY <1>4, <1>6, <3>1
  <2>2. CASE i = 1 /\ j = 1
    BY <2>2
  <2>3. CASE i = 1 /\ j # 1
    BY <1>4, <1>7, <1>8, <2>1, <2>3
  <2>4. CASE i # 1 /\ j = 1
    BY <1>4, <1>7, <1>8, <2>1, <2>4
  <2>5. CASE i # 1 /\ j # 1
    <3>1. i - 1 \in 1..n /\ j - 1 \in 1..n /\ l[i - 1].type = l[j - 1].type
      BY <1>8, <2>1, <2>5
    <3>2. i - 1 = j - 1
      BY <1>1, <1>6, <3>1 DEF Distinct
    <3>3. QED
      BY <3>2
  <2>6. QED
    BY <2>2, <2>3, <2>4, <2>5
<1>9. c \in Lists
  BY <1>4, <1>6, <1>8 DEF Lists, Distinct
<1>10. QED
  BY <1>3, <1>4, <1>5, <1>9

-----------------------------------------------------------------------------
(* The receiver *)

\* What the loop of tlv_box_parse has made of the first m tlvs, newest first.
Got(l, m) == [j \in 1..m |-> Image(l[(m - j) + 1])]

Received(l) == Got(l, Len(l))

\* The received list holds the images of the tlvs, in the opposite order.
LEMMA GotFacts ==
    ASSUME NEW l \in Lists, NEW m \in 0..Len(l)
    PROVE  /\ Got(l, m) \in Lists
           /\ Len(Got(l, m)) = m
           /\ \A i \in 1..m : (m - i) + 1 \in 1..m /\ Got(l, m)[(m - i) + 1] = Image(l[i])
           /\ \A j \in 1..m : (m - j) + 1 \in 1..m /\ Got(l, m)[j] = Image(l[(m - j) + 1])
           /\ \A i \in 1..m : l[i] \in Tlvs
<1> DEFINE q == Got(l, m)
<1>1. l \in Seq(Tlvs) /\ Distinct(l) /\ Len(l) \in Nat
  BY LenProperties DEF Lists
<1>2. m \in Nat /\ m <= Len(l)
  BY <1>1
<1>3. ASSUME NEW j \in 1..m
      PROVE  /\ (m - j) + 1 \in 1..m /\ (m - j) + 1 \in 1..Len(l)
             /\ (m - ((m - j) + 1)) + 1 = j /\ j \in 1..Len(l)
  BY <1>1, <1>2
<1>4. \A i \in 1..Len(l) : l[i] \in Tlvs /\ Image(l[i]) \in Tlvs /\ Image(l[i]).type = l[i].type
  <2>1. \A i \in 1..Len(l) : l[i] \in Tlvs
    BY <1>1, ElementOfSeq
  <2>2. QED
    BY <2>1, ImageFacts
<1>5. q = [j \in 1..m |-> Image(l[(m - j) + 1])]
  BY DEF Got
<1> HIDE DEF q
<1>6. q \in [1..m -> Tlvs]
  BY <1>3, <1>4, <1>5
<1>7. q \in Seq(Tlvs) /\ Len(q) = m
  BY <1>2, <1>6, FunSeq
<1>8. \A j \in 1..m : (m - j) + 1 \in 1..m /\ q[j] = Image(l[(m - j) + 1])
  BY <1>3, <1>5
<1>9. \A i \in 1..m : (m - i) + 1 \in 1..m /\ q[(m - i) + 1] = Image(l[i])
  <2> SUFFICES ASSUME NEW i \in 1..m
               PROVE  (m - i) + 1 \in 1..m /\ q[(m - i) + 1] = Image(l[i])
    OBVIOUS
  <2>1. PICK k \in 1..m : k = (m - i) + 1 /\ (m - k) + 1 = i
    BY <1>3
  <2>2. q[k] = Image(l[i])
    BY <1>8, <2>1
  <2>3. QED
    BY <2>1, <2>2
<1>10. Distinct(q)
  <2> SUFFICES ASSUME NEW i \in 1..m, NEW j \in 1..m, q[i].type = q[j].type PROVE i = j
    BY <1>7 DEF Distinct
  <2>1. PICK x \in 1..Len(l) : x = (m - i) + 1
    BY <1>3
  <2>2. PICK y \in 1..Len(l) : y = (m - j) + 1
    BY <1>3
  <2>3. q[i].type = l[x].type /\ q[j].type = l[y].type
    BY <1>4, <1>8, <2>1, <2>2
  <2>4. x = y
    BY <1>1, <2>3 DEF Distinct
  <2>5. QED
    BY <1>2, <2>1, <2>2, <2>4
<1>11. \A i \in 1..m : l[i] \in Tlvs
  BY <1>3, <1>4
<1>12. QED
  BY <1>7, <1>8, <1>9, <1>10, <1>11 DEF q, Lists

\* The next tlv is added at the front: its type has not been met before.
LEMMA GotNext ==
    ASSUME NEW l \in Lists, NEW m \in 1..Len(l)
    PROVE  Added(Got(l, m - 1), Image(l[m])) = Got(l, m)
<1>1. l \in Seq(Tlvs) /\ Distinct(l) /\ Len(l) \in Nat
  BY LenProperties DEF Lists
<1>2. PICK p \in 0..Len(l) : p = m - 1 /\ m = p + 1
  BY <1>1
<1>3. m \in 0..Len(l) /\ m \in Nat /\ p \in Nat
  BY <1>1
<1>4. PICK q : q = Got(l, p)
  OBVIOUS
<1>5. PICK r : r = Got(l, m)
  OBVIOUS
<1>6. /\ q \in Lists /\ Len(q) = p
      /\ \A j \in 1..p : (p - j) + 1 \in 1..p /\ q[j] = Image(l[(p - j) + 1])
      /\ \A i \in 1..p : l[i] \in Tlvs
  BY <1>4, GotFacts
<1>7. /\ r \in Lists /\ Len(r) = m
      /\ \A j \in 1..m : (m - j) + 1 \in 1..m /\ r[j] = Image(l[(m - j) + 1])
      /\ \A i \in 1..m : l[i] \in Tlvs
  BY <1>3, <1>5, GotFacts
<1>8. l[m] \in Tlvs /\ Image(l[m]) \in Tlvs /\ Image(l[m]).type = l[m].type
  <2>1. l[m] \in Tlvs
    BY <1>1, ElementOfSeq
  <2>2. QED
    BY <2>1, ImageFacts
<1>9. Image(l[m]).type \notin TypesOf(q)
  <2> SUFFICES ASSUME NEW j \in 1..p, q[j].type = l[m].type PROVE FALSE
    BY <1>6, <1>8 DEF TypesOf
  <2>1. PICK i \in 1..p : i = (p - j) + 1
    BY <1>6
  <2>2. q[j].type = l[i].type
    BY <1>6, <2>1, ImageFacts
  <2>3. i \in 1..Len(l) /\ i # m
    BY <1>1, <1>2
  <2>4. QED
    BY <1>1, <2>2, <2>3 DEF Distinct
<1>10. PICK a : a = Added(q, Image(l[m]))
  OBVIOUS
<1>11. a \in Lists /\ Len(a) = m /\ a[1] = Image(l[m]) /\ \A i \in 1..p : a[i + 1] = q[i]
  <2>1. q \in Lists /\ Image(l[m]) \in Tlvs
    BY <1>6, <1>8
  <2>2. a \in Lists /\ Len(a) = Len(q) + 1 /\ a[1] = Image(l[m])
        /\ \A i \in 1..Len(q) : a[i + 1] = q[i]
    BY <1>9, <1>10, <2>1, AddedFacts
  <2>3. QED
    BY <1>2, <1>6, <2>2
<1>12. \A j \in 1..m : a[j] = r[j]
  <2> SUFFICES ASSUME NEW j \in 1..m PROVE a[j] = r[j]
    OBVIOUS
  <2>1. CASE j = 1
    <3>1. (m - 1) + 1 = m /\ 1 \in 1..m
      BY <1>3
    <3>2. r[1] = Image(l[m])
      BY <1>7, <3>1
    <3>3. QED
      BY <1>11, <2>1, <3>2
  <2>2. CASE j # 1
    <3>1. PICK i \in 1..p : j = i + 1 /\ (p - i) + 1 = (m - j) + 1
      <4>1. j - 1 \in 1..p /\ j = (j - 1) + 1 /\ (p - (j - 1)) + 1 = (m - j) + 1
        BY <1>2, <1>3, <2>2
      <4>2. QED
        BY <4>1
    <3>2. a[j] = q[i]
      BY <1>11, <3>1
    <3>3. q[i] = Image(l[(m - j) + 1])
      BY <1>6, <3>1
    <3>4. QED
      BY <1>7, <3>2, <3>3
  <2>3. QED
    BY <2>1, <2>2
<1>13. a \in Seq(Tlvs) /\ r \in Seq(Tlvs)
  BY <1>7, <1>11 DEF Lists
<1>14. a = r
  BY <1>7, <1>11, <1>12, <1>13, SeqEqual
<1>15. QED
  BY <1>2, <1>4, <1>5, <1>10, <1>14

\* A list and what is received for it have the same size.
LEMMA ReceivedSize ==
    ASSUME NEW l \in Lists
    PROVE  TotalSize(Received(l)) = TotalSize(l)
<1> DEFINE P(m) == m <= Len(l) => \A off : IsOffsets(l, off) => TotalSize(Got(l, m)) = off[m]
           Bad == {m \in Nat : ~P(m)}
<1>1. l \in Seq(Tlvs) /\ Len(l) \in Nat
  BY LenProperties DEF Lists
<1>2. \A m \in Nat : P(m)
  <2> SUFFICES ASSUME NEW x \in Nat, ~P(x) PROVE FALSE
    OBVIOUS
  <2>1. PICK m \in Bad : \A j \in Bad : m <= j
    <3>1. Bad \in SUBSET Nat /\ Bad # {}
      OBVIOUS
    <3> HIDE DEF Bad
    <3>2. QED
      BY <3>1, LeastNumber
  <2>2. m \in Nat /\ ~P(m)
    BY <2>1
  <2>3. PICK off : IsOffsets(l, off) /\ TotalSize(Got(l, m)) # off[m] /\ m <= Len(l)
    BY <2>2
  <2>4. m # 0
    <3>1. Got(l, 0) = << >> /\ << >> \in Seq(Tlvs)
      BY DEF Got
    <3>2. PICK f : IsOffsets(<< >>, f) /\ TotalSize(<< >>) = f[Len(<< >>)]
      BY <3>1, Offsets
    <3>3. TotalSize(<< >>) = 0
      BY <3>2 DEF IsOffsets
    <3>4. off[0] = 0
      BY <2>3 DEF IsOffsets
    <3>5. QED
      BY <2>3, <3>1, <3>3, <3>4
  <2>5. PICK p \in Nat : p = m - 1 /\ m = p + 1 /\ p < m
    BY <2>2, <2>4
  <2>6. m \in 1..Len(l) /\ p \in 0..Len(l) /\ p <= Len(l)
    BY <1>1, <2>2, <2>3, <2>4, <2>5
  <2>7. P(p)
    <3>1. p \notin Bad
      <4> HIDE DEF Bad
      <4>1. QED
        BY <2>1, <2>2, <2>5
    <3>2. QED
      BY <3>1
  <2>8. TotalSize(Got(l, p)) = off[p]
    BY <2>3, <2>6, <2>7
  <2>9. Got(l, p) \in Lists /\ Got(l, p) \in Seq(Tlvs) /\ Len(Got(l, p)) = p
    BY <2>6, GotFacts DEF Lists
  <2>10. l[m] \in Tlvs /\ Image(l[m]) \in Tlvs /\ Size(Image(l[m])) = Size(l[m])
    <3>1. l[m] \in Tlvs
      BY <1>1, <2>6, ElementOfSeq
    <3>2. QED
      BY <3>1, ImageFacts
  <2>11. Added(Got(l, p), Image(l[m])) = Got(l, m)
    BY <2>5, <2>6, GotNext
  <2>12. Got(l, m) = <<Image(l[m])>> \o Got(l, p)
    <3>1. Got(l, m) \in Seq(Tlvs) /\ Len(Got(l, m)) = m
      BY <1>1, <2>2, <2>3, GotFacts DEF Lists
    <3>2. Got(l, m) # Got(l, p)
      BY <2>5, <2>9, <3>1
    <3>3. QED
      BY <2>11, <3>2 DEF Added
  <2>13. TotalSize(Got(l, m)) = off[p] + Size(l[m])
    BY <2>8, <2>9, <2>10, <2>12, SizeCons
  <2>14. off[m] = off[p] + Size(l[m])
    BY <2>3, <2>5, <2>6 DEF IsOffsets
  <2>15. QED
    BY <2>3, <2>13, <2>14
<1>3. PICK off : IsOffsets(l, off) /\ TotalSize(l) = off[Len(l)]
  BY <1>1, Offsets
<1> HIDE DEF Bad
<1>4. QED
  BY <1>1, <1>2, <1>3 DEF Received

\* One round of the loop, at the k-th tlv of a buffer that a list was serialized to.
LEMMA ParseTlvFacts ==
    ASSUME NEW l \in Lists, NEW off, IsOffsets(l, off), NEW k \in 1..Len(l)
    PROVE  ParseTlv(Wire(l), [offset |-> off[k - 1], list |-> Got(l, k - 1)])
             = [offset |-> off[k], list |-> Got(l, k)]
<1>1. l \in Seq(Tlvs) /\ Len(l) \in Nat /\ l[k] \in Tlvs
  BY LenProperties, ElementOfSeq DEF Lists
<1>2. PICK b : b = Wire(l)
  OBVIOUS
<1>3. PICK tlv \in Tlvs : tlv = l[k]
  BY <1>1
<1>4. PICK w \in Nat : w = Len(tlv.value) /\ w < 32768 /\ Size(tlv) = 4 + w
  BY TlvFacts
<1>5. PICK o \in Nat : o = off[k - 1]
  <2>1. k - 1 \in 0..Len(l)
    BY <1>1
  <2>2. QED
    BY <2>1 DEF IsOffsets
<1>6. PICK z \in Nat : z = off[k] /\ z = o + (4 + w)
  <2>1. off[k] = off[k - 1] + Size(l[k])
    BY DEF IsOffsets
  <2>2. QED
    BY <1>3, <1>4, <1>5, <2>1
<1>7. PICK e : e = Encode(tlv)
  OBVIOUS
<1>8. b \in Seq(Byte) /\ \A j \in 1..(4 + w) : b[o + j] = e[j]
  <2>1. b \in Seq(Byte)
    BY <1>1, <1>2, WireFacts
  <2>2. \A j \in 1..Size(l[k]) : b[off[k - 1] + j] = Encode(l[k])[j]
    BY <1>1, <1>2, WireFacts
  <2>3. QED
    BY <1>3, <1>4, <1>5, <1>7, <2>1, <2>2
<1>9. /\ \A j \in 1..2 : e[j] = Digits(tlv.type, 2)[j]
      /\ \A j \in 1..2 : e[2 + j] = Digits(w, 2)[j]
      /\ \A j \in 1..w : e[4 + j] = Payload(tlv)[j]
  BY <1>4, <1>7, EncodeFacts
<1>10. 2 \in Widths /\ tlv.type \in Below(Limit(2)) /\ w \in Below(Limit(2))
  BY <1>4, TlvFacts, SMT DEF Widths, Below, Limit
<1>11. ASSUME NEW x \in Nat, NEW n \in Below(Limit(2)),
              b[x + 1] = Digits(n, 2)[1], b[x + 2] = Digits(n, 2)[2]
       PROVE  Hton(Load(SubSeq(b, x + 1, x + 2)), 2) = n
  <2>1. PICK d : d = Digits(n, 2)
    OBVIOUS
  <2>2. d \in Seq(Byte) /\ Len(d) = 2 /\ d[1] \in Byte /\ d[2] \in Byte
    <3>1. d \in Seq(Byte) /\ Len(d) = 2
      BY <1>10, <2>1, NumberDigits
    <3>2. 1 \in 1..Len(d) /\ 2 \in 1..Len(d)
      BY <3>1
    <3>3. QED
      BY <3>1, <3>2, ElementOfSeq
  <2>3. \A i \in (x + 1)..(x + 2) : i = x + 1 \/ i = x + 2
    OBVIOUS
  <2>4. \A i \in (x + 1)..(x + 2) : b[i] \in Byte
    BY <1>11, <2>1, <2>2, <2>3
  <2>5. PICK s : s = SubSeq(b, x + 1, x + 2)
    OBVIOUS
  <2>6. /\ s \in Seq(Byte)
        /\ Len(s) = IF x + 1 <= x + 2 THEN (x + 2) - (x + 1) + 1 ELSE 0
        /\ \A i \in 1..((x + 2) - (x + 1) + 1) : s[i] = b[(x + 1) + i - 1]
    <3>1. x + 1 \in Int /\ x + 2 \in Int
      OBVIOUS
    <3>2. QED
      BY <2>4, <2>5, <3>1, SubSeqProperties
  <2>7. Len(s) = 2 /\ s[1] = b[x + 1] /\ s[2] = b[x + 2]
    <3>1. (x + 2) - (x + 1) + 1 = 2 /\ x + 1 <= x + 2
      OBVIOUS
    <3>2. 1 \in 1..2 /\ 2 \in 1..2 /\ (x + 1) + 1 - 1 = x + 1 /\ (x + 1) + 2 - 1 = x + 2
      OBVIOUS
    <3>3. QED
      BY <2>6, <3>1, <3>2
  <2>8. \A i \in 1..2 : s[i] = d[i]
    <3>1. \A i \in 1..2 : i = 1 \/ i = 2
      OBVIOUS
    <3>2. QED
      BY <1>11, <2>1, <2>7, <3>1
  <2>9. s = d
    BY <2>2, <2>6, <2>7, <2>8, SeqEqual
  <2>10. QED
    BY <1>10, <2>1, <2>5, <2>9, NetworkOrder
<1>12. Hton(Load(SubSeq(b, o + 1, o + 2)), 2) = tlv.type
  <2>1. 1 \in 1..(4 + w) /\ 2 \in 1..(4 + w)
    OBVIOUS
  <2>2. b[o + 1] = Digits(tlv.type, 2)[1] /\ b[o + 2] = Digits(tlv.type, 2)[2]
    BY <1>8, <1>9, <2>1
  <2>3. QED
    BY <1>10, <1>11, <2>2
<1>13. Hton(Load(SubSeq(b, (o + 2) + 1, (o + 2) + 2)), 2) = w
  <2>1. 3 \in 1..(4 + w) /\ 4 \in 1..(4 + w) /\ (o + 2) + 1 = o + 3 /\ (o + 2) + 2 = o + 4
    OBVIOUS
  <2>2. e[3] = Digits(w, 2)[1] /\ e[4] = Digits(w, 2)[2]
    <3>1. 1 \in 1..2 /\ 2 \in 1..2 /\ 2 + 1 = 3 /\ 2 + 2 = 4
      OBVIOUS
    <3>2. QED
      BY <1>9, <3>1
  <2>3. b[(o + 2) + 1] = Digits(w, 2)[1] /\ b[(o + 2) + 2] = Digits(w, 2)[2]
    BY <1>8, <2>1, <2>2
  <2>4. PICK x \in Nat : x = o + 2
    OBVIOUS
  <2>5. Hton(Load(SubSeq(b, x + 1, x + 2)), 2) = w
    BY <1>10, <1>11, <2>3, <2>4
  <2>6. QED
    BY <2>4, <2>5
<1>14. SubSeq(b, o + 5, o + 4 + w) = Payload(tlv)
  <2>1. PICK v : v = Payload(tlv)
    OBVIOUS
  <2>2. v \in Seq(Byte) /\ Len(v) = w
    BY <1>4, <2>1, PayloadFacts
  <2>3. PICK s : s = SubSeq(b, o + 5, o + 4 + w)
    OBVIOUS
  <2>4. ASSUME NEW j \in 1..w PROVE b[o + (4 + j)] = v[j]
    <3>1. 4 + j \in 1..(4 + w)
      OBVIOUS
    <3>2. QED
      BY <1>8, <1>9, <2>1, <3>1
  <2>5. \A i \in (o + 5)..(o + 4 + w) : b[i] \in Byte
    <3> SUFFICES ASSUME NEW i \in (o + 5)..(o + 4 + w) PROVE b[i] \in Byte
      OBVIOUS
    <3>1. PICK j \in 1..w : i = o + (4 + j)
      <4>1. i - (o + 4) \in 1..w /\ i = o + (4 + (i - (o + 4)))
        OBVIOUS
      <4>2. QED
        BY <4>1
    <3>2. v[j] \in Byte
      BY <2>2, ElementOfSeq
    <3>3. QED
      BY <2>4, <3>1, <3>2
  <2>6. /\ s \in Seq(Byte)
        /\ Len(s) = IF o + 5 <= o + 4 + w THEN (o + 4 + w) - (o + 5) + 1 ELSE 0
        /\ \A i \in 1..((o + 4 + w) - (o + 5) + 1) : s[i] = b[(o + 5) + i - 1]
    <3>1. o + 5 \in Int /\ o + 4 + w \in Int
      OBVIOUS
    <3>2. QED
      BY <2>3, <2>5, <3>1, SubSeqProperties
  <2>7. (o + 4 + w) - (o + 5) + 1 = w /\ (o + 5 <= o + 4 + w \/ w = 0)
    OBVIOUS
  <2>8. Len(s) = w
    BY <2>6, <2>7
  <2>9. \A i \in 1..w : s[i] = v[i]
    <3> SUFFICES ASSUME NEW i \in 1..w PROVE s[i] = v[i]
      OBVIOUS
    <3>1. (o + 5) + i - 1 = o + (4 + i)
      OBVIOUS
    <3>2. s[i] = b[o + (4 + i)]
      BY <2>6, <2>7, <3>1
    <3>3. QED
      BY <2>4, <3>2
  <2>10. s = v
    BY <2>2, <2>6, <2>8, <2>9, SeqEqual
  <2>11. QED
    BY <2>1, <2>3, <2>10
<1>15. PICK at : at = [offset |-> off[k - 1], list |-> Got(l, k - 1)]
  OBVIOUS
<1>16. at.offset = o /\ at.list = Got(l, k - 1)
  BY <1>5, <1>15
<1>17. ParseTlv(b, at) = [offset |-> o + 4 + w, list |-> Added(Got(l, k - 1), Image(tlv))]
  BY <1>12, <1>13, <1>14, <1>16 DEF ParseTlv, Image
<1>18. Added(Got(l, k - 1), Image(tlv)) = Got(l, k)
  BY <1>3, GotNext
<1>19. o + 4 + w = off[k]
  BY <1>6
<1>20. QED
  BY <1>2, <1>15, <1>17, <1>18, <1>19

\* tlv_box_parse gives back the tlvs of a buffer that a list was serialized to.
LEMMA ParseWire ==
    ASSUME NEW l \in Lists
    PROVE  ParseLoop(Wire(l)) = Received(l)
<1>1. l \in Seq(Tlvs)
  BY DEF Lists
<1>2. PICK n \in Nat : n = Len(l)
  BY <1>1, LenProperties
<1>3. PICK off : IsOffsets(l, off)
  BY <1>1, Offsets
<1>4. PICK b : b = Wire(l)
  OBVIOUS
<1>5. PICK N \in Nat : N = Len(b) /\ N = off[n] /\ n <= N
  <2>1. b \in Seq(Byte) /\ Len(b) = off[n]
    BY <1>1, <1>2, <1>3, <1>4, WireFacts
  <2>2. Len(b) \in Nat
    BY <2>1, LenProperties
  <2>3. n \in 0..n
    OBVIOUS
  <2>4. n <= off[n]
    BY <1>1, <1>2, <1>3, <2>3, OffsetsGrow
  <2>5. QED
    BY <2>1, <2>2, <2>4
<1> DEFINE S(k) == [offset |-> off[k], list |-> Got(l, k)]
           F(f) == f = [k \in 0..N |->
                          IF k = 0 THEN [offset |-> 0, list |-> << >>]
                          ELSE IF f[k - 1].offset < N THEN ParseTlv(b, f[k - 1])
                               ELSE f[k - 1]]
           w == [k \in 0..N |-> S(IF k <= n THEN k ELSE n)]
           g == CHOOSE f : F(f)
<1>6. S(0) = [offset |-> 0, list |-> << >>]
  <2>1. off[0] = 0
    BY <1>3 DEF IsOffsets
  <2>2. Got(l, 0) = << >>
    BY DEF Got
  <2>3. QED
    BY <2>1, <2>2
<1>7. \A k \in 0..n : S(k).offset = off[k]
  OBVIOUS
<1>8. ASSUME NEW k \in 1..n PROVE S(k - 1).offset < N /\ ParseTlv(b, S(k - 1)) = S(k)
  <2>1. off[k - 1] < off[n]
    BY <1>1, <1>2, <1>3, OffsetsGrow
  <2>2. ParseTlv(b, S(k - 1)) = S(k)
    BY <1>2, <1>3, <1>4, ParseTlvFacts
  <2>3. S(k - 1).offset = off[k - 1]
    OBVIOUS
  <2>4. QED
    BY <1>5, <2>1, <2>2, <2>3
<1>9. S(n).offset = N
  BY <1>5
<1> HIDE DEF S
<1>10. ASSUME NEW k \in 0..N
       PROVE  w[k] = IF k = 0 THEN [offset |-> 0, list |-> << >>]
                     ELSE IF w[k - 1].offset < N THEN ParseTlv(b, w[k - 1])
                          ELSE w[k - 1]
  <2>1. CASE k = 0
    BY <1>6, <2>1
  <2>2. CASE k \in 1..n
    <3>1. k - 1 \in 0..N /\ k - 1 <= n /\ k <= n /\ k # 0
      BY <1>5, <2>2
    <3>2. w[k] = S(k) /\ w[k - 1] = S(k - 1)
      BY <3>1
    <3>3. QED
      BY <1>8, <2>2, <3>1, <3>2
  <2>3. CASE k > n
    <3>1. k - 1 \in 0..N /\ ~(k <= n) /\ k # 0 /\ (k - 1 <= n => k - 1 = n)
      BY <1>5, <2>3
    <3>2. w[k] = S(n) /\ w[k - 1] = S(n)
      BY <3>1
    <3>3. ~(w[k - 1].offset < N)
      BY <1>9, <3>2
    <3>4. QED
      BY <3>1, <3>2, <3>3
  <2>4. QED
    BY <2>1, <2>2, <2>3
<1>11. F(w)
  BY <1>10
<1>12. F(g)
  <2>1. \E f : F(f)
    BY <1>11
  <2> HIDE DEF F
  <2>2. QED
    BY <2>1
<1>13. ParseLoop(b) = g[N].list
  BY <1>5 DEF ParseLoop
<1> HIDE DEF w, g
<1>14. \A k \in 0..N : g[k] = w[k]
  <2> SUFFICES ASSUME NEW x \in 0..N, g[x] # w[x] PROVE FALSE
    OBVIOUS
  <2> DEFINE Bad == {j \in 0..N : g[j] # w[j]}
  <2>1. PICK m \in Bad : \A j \in Bad : m <= j
    <3>1. Bad \in SUBSET Nat /\ Bad # {}
      OBVIOUS
    <3> HIDE DEF Bad
    <3>2. QED
      BY <3>1, LeastNumber
  <2>2. m \in 0..N /\ g[m] # w[m]
    BY <2>1
  <2>3. m # 0 => m - 1 \in 0..N /\ g[m - 1] = w[m - 1]
    BY <2>1, <2>2
  <2>4. g[m] = IF m = 0 THEN [offset |-> 0, list |-> << >>]
               ELSE IF g[m - 1].offset < N THEN ParseTlv(b, g[m - 1])
                    ELSE g[m - 1]
    BY <1>12, <2>2
  <2>5. QED
    BY <1>10, <2>2, <2>3, <2>4
<1>15. g[N] = S(n)
  <2>1. w[N] = S(IF N <= n THEN N ELSE n)
    BY DEF w
  <2>2. (IF N <= n THEN N ELSE n) = n
    BY <1>5
  <2>3. QED
    BY <1>14, <2>1, <2>2
<1>16. S(n).list = Got(l, n)
  BY DEF S
<1>17. QED
  BY <1>2, <1>4, <1>13, <1>15, <1>16 DEF Received

-----------------------------------------------------------------------------
(* Finding a type *)

\* key_list_get finds the tlv with the type, when the types differ.
LEMMA FindFacts ==
    ASSUME NEW l \in Lists, NEW i \in 1..Len(l), NEW t, t = l[i].type
    PROVE  Find(l, t) = l[i]
<1>1. l \in Seq(Tlvs) /\ Distinct(l) /\ Len(l) \in Nat
  BY LenProperties DEF Lists
<1> DEFINE I == {j \in 1..Len(l) : l[j].type = t}
<1>2. I = {i}
  BY <1>1 DEF Distinct
<1>3. Min({i}) = i
  <2>1. \E x \in {i} : \A y \in {i} : x =< y
    BY <1>1
  <2>2. Min({i}) \in {i}
    BY <2>1 DEF Min
  <2>3. QED
    BY <2>2
<1>4. SelectInSeq(l, LAMBDA tlv : tlv.type = t) = IF I # {} THEN Min(I) ELSE 0
  BY DEF SelectInSeq
<1>5. SelectInSeq(l, LAMBDA tlv : tlv.type = t) = i
  <2> HIDE DEF I
  <2>1. QED
    BY <1>2, <1>3, <1>4
<1>6. QED
  BY <1>5 DEF Find

-----------------------------------------------------------------------------
(* The inductive invariant *)

\* Under the types of objects there are bytes, and they are messages.
ObjectsIn(l, M) ==
    \A i \in 1..Len(l) : l[i].type \in ObjectTypes => ~IsNumber(l[i]) /\ l[i].value \in M

\* A set of messages: each is what some list was serialized to, and the objects in
\* it are messages of the set.
Closed(M) ==
    /\ << >> \in M
    /\ \A m \in M : \E l \in Lists : m = Wire(l) /\ ObjectsIn(l, M)

\* A box counts the size of its list; its buffer, when it has one, is a message that
\* was made of its list, or that its list was made of.
BoxInv(x, M) ==
    /\ x = [live |-> x.live, list |-> x.list, buffer |-> x.buffer, bytes |-> x.bytes]
    /\ x.list \in Lists
    /\ x.bytes = TotalSize(x.list)
    /\ x.bytes <= MaxBytes
    /\ ObjectsIn(x.list, M)
    /\ x.buffer # NULL =>
         /\ x.buffer \in M
         /\ \E l \in Lists : x.buffer = Wire(l) /\ (x.list = l \/ x.list = Received(l))

BoxesInv(M) == Closed(M) /\ \A b \in Boxes : BoxInv(box[b], M)

Inv ==
    /\ box = [b \in Boxes |-> box[b]]
    /\ \E M : BoxesInv(M)

\* The bounds of a short.
LEMMA Bounds == ShortMax = 32767 /\ MaxBytes \in Nat /\ MaxBytes < 32768
<1>1. ShortMax = 32767
  BY SMT DEF ShortMax
<1>2. MaxBytes \in 0..ShortMax
  BY ShortAssumption, Zenon
<1>3. MaxBytes \in Int /\ 0 <= MaxBytes /\ MaxBytes <= ShortMax
  <2>1. ShortMax \in Int
    BY <1>1, SMT
  <2> HIDE DEF ShortMax
  <2>2. QED
    BY <1>2, <2>1
<1>4. QED
  BY <1>1, <1>3, SMT

\* What the bytes and the size of no tlvs are.
LEMMA EmptyList ==
    /\ << >> \in Lists
    /\ TotalSize(<< >>) = 0
    /\ Wire(<< >>) = << >>
    /\ \A M : ObjectsIn(<< >>, M)
<1>1. << >> \in Seq(Tlvs) /\ Len(<< >>) = 0
  OBVIOUS
<1>2. PICK off : IsOffsets(<< >>, off) /\ TotalSize(<< >>) = off[Len(<< >>)]
  BY <1>1, Offsets
<1>3. TotalSize(<< >>) = 0
  BY <1>2 DEF IsOffsets
<1>4. Wire(<< >>) \in Seq(Byte) /\ Len(Wire(<< >>)) = 0
  BY <1>1, <1>3, WireSize
<1>5. Wire(<< >>) = << >>
  BY <1>4, EmptySeq
<1>6. QED
  BY <1>1, <1>3, <1>5 DEF Lists, Distinct, ObjectsIn

\* A message that a box is serialized to can be added to the messages.
LEMMA OneMoreMessage ==
    ASSUME NEW M, Closed(M), NEW l \in Lists, ObjectsIn(l, M), NEW Mx, Mx = M \cup {Wire(l)}
    PROVE  Closed(Mx) /\ \A x : BoxInv(x, M) => BoxInv(x, Mx)
<1>1. \A k : ObjectsIn(k, M) => ObjectsIn(k, Mx)
  BY DEF ObjectsIn
<1>2. Closed(Mx)
  <2>1. << >> \in Mx
    BY DEF Closed
  <2>2. ASSUME NEW m \in Mx PROVE \E k \in Lists : m = Wire(k) /\ ObjectsIn(k, Mx)
    <3>1. CASE m \in M
      BY <1>1, <3>1 DEF Closed
    <3>2. CASE m = Wire(l)
      BY <1>1, <3>2
    <3>3. QED
      BY <3>1, <3>2
  <2>3. QED
    BY <2>1, <2>2 DEF Closed
<1>3. ASSUME NEW x, BoxInv(x, M) PROVE BoxInv(x, Mx)
  <2>1. ObjectsIn(x.list, Mx)
    BY <1>1, <1>3 DEF BoxInv
  <2>2. x.buffer # NULL => x.buffer \in Mx
    BY <1>3 DEF BoxInv
  <2>3. QED
    BY <1>3, <2>1, <2>2 DEF BoxInv
<1>4. QED
  BY <1>2, <1>3

\* tlv_box_putobject
LEMMA PutInv ==
    ASSUME NEW M, NEW x, BoxInv(x, M), x.buffer = NULL,
           NEW tlv \in Tlvs, tlv.type \notin TypesOf(x.list),
           tlv.type \in ObjectTypes => ~IsNumber(tlv) /\ tlv.value \in M,
           x.bytes + Size(tlv) <= MaxBytes,
           NEW y, y = [live |-> x.live, list |-> Added(x.list, tlv),
                       buffer |-> x.buffer, bytes |-> x.bytes + Size(tlv)]
    PROVE  BoxInv(y, M)
<1>1. x.list \in Lists /\ x.bytes = TotalSize(x.list) /\ ObjectsIn(x.list, M)
  BY DEF BoxInv
<1>2. PICK l \in Lists : l = x.list
  BY <1>1
<1>3. PICK c : c = Added(l, tlv)
  OBVIOUS
<1>4. /\ c \in Lists /\ TotalSize(c) = TotalSize(l) + Size(tlv)
      /\ Len(c) = Len(l) + 1 /\ c[1] = tlv
      /\ \A i \in 1..Len(l) : c[i + 1] = l[i]
  BY <1>2, <1>3, AddedFacts
<1>5. PICK n \in Nat : n = Len(l)
  BY <1>2, LenProperties DEF Lists
<1>6. ObjectsIn(c, M)
  <2> SUFFICES ASSUME NEW i \in 1..(n + 1), c[i].type \in ObjectTypes
               PROVE  ~IsNumber(c[i]) /\ c[i].value \in M
    BY <1>4, <1>5 DEF ObjectsIn
  <2>1. CASE i = 1
    BY <1>4, <2>1
  <2>2. CASE i # 1
    <3>1. PICK j \in 1..n : j + 1 = i
      <4>1. i - 1 \in 1..n /\ (i - 1) + 1 = i
        BY <2>2
      <4>2. QED
        BY <4>1
    <3>2. c[i] = l[j]
      BY <1>4, <1>5, <3>1
    <3>3. QED
      BY <1>1, <1>2, <1>5, <3>2 DEF ObjectsIn
  <2>3. QED
    BY <2>1, <2>2
<1>7. /\ y.live = x.live /\ y.list = c /\ y.buffer = NULL
      /\ y.bytes = x.bytes + Size(tlv)
      /\ y = [live |-> y.live, list |-> y.list, buffer |-> y.buffer, bytes |-> y.bytes]
  BY <1>2, <1>3
<1>8. y.bytes = TotalSize(y.list) /\ y.bytes <= MaxBytes
  BY <1>1, <1>2, <1>4, <1>7
<1>9. QED
  BY <1>4, <1>6, <1>7, <1>8 DEF BoxInv

\* The object that a tlv is received as is the one that was sent.
LEMMA ReceivedFacts ==
    ASSUME NEW l \in Lists
    PROVE  /\ Received(l) \in Lists
           /\ TotalSize(Received(l)) = TotalSize(l)
           /\ \A M : ObjectsIn(l, M) => ObjectsIn(Received(l), M)
<1>1. PICK n \in Nat : n = Len(l)
  BY LenProperties DEF Lists
<1>2. n \in 0..Len(l)
  BY <1>1
<1>3. PICK r : r = Received(l)
  OBVIOUS
<1>4. /\ r \in Lists /\ Len(r) = n
      /\ \A j \in 1..n : (n - j) + 1 \in 1..n /\ r[j] = Image(l[(n - j) + 1])
      /\ \A i \in 1..n : l[i] \in Tlvs
  BY <1>1, <1>2, <1>3, GotFacts DEF Received
<1>5. ASSUME NEW M, ObjectsIn(l, M) PROVE ObjectsIn(r, M)
  <2> SUFFICES ASSUME NEW j \in 1..n, r[j].type \in ObjectTypes
               PROVE  ~IsNumber(r[j]) /\ r[j].value \in M
    BY <1>4 DEF ObjectsIn
  <2>1. PICK i \in 1..n : r[j] = Image(l[i]) /\ l[i] \in Tlvs
    BY <1>4
  <2>2. r[j].type = l[i].type /\ r[j].value = Payload(l[i]) /\ ~IsNumber(r[j])
    BY <2>1, ImageFacts
  <2>3. ~IsNumber(l[i]) /\ l[i].value \in M
    BY <1>1, <1>5, <2>2 DEF ObjectsIn
  <2>4. Payload(l[i]) = l[i].value
    BY <2>3 DEF Payload
  <2>5. QED
    BY <2>2, <2>3, <2>4
<1>6. QED
  BY <1>3, <1>4, <1>5, ReceivedSize

\* tlv_box_parse, of a message
LEMMA ParsedInv ==
    ASSUME NEW M, Closed(M), NEW m \in M, Len(m) <= MaxBytes
    PROVE  BoxInv(Parsed(m), M)
<1>1. PICK l \in Lists : m = Wire(l) /\ ObjectsIn(l, M)
  BY DEF Closed
<1>2. PICK y : y = Parsed(m)
  OBVIOUS
<1>3. /\ y.list = ParseLoop(m) /\ y.buffer = m /\ y.bytes = Len(m)
      /\ y = [live |-> y.live, list |-> y.list, buffer |-> y.buffer, bytes |-> y.bytes]
  BY <1>2 DEF Parsed
<1>4. ParseLoop(m) = Received(l)
  BY <1>1, ParseWire
<1>5. Len(m) = TotalSize(l)
  BY <1>1, WireSize DEF Lists
<1>6. Received(l) \in Lists /\ TotalSize(Received(l)) = TotalSize(l) /\ ObjectsIn(Received(l), M)
  BY <1>1, ReceivedFacts
<1>7. QED
  BY <1>1, <1>2, <1>3, <1>4, <1>5, <1>6 DEF BoxInv

\* The buffer of a box has the size that the box counts.
LEMMA SerializedSize ==
    ASSUME NEW M, NEW x, BoxInv(x, M), x.buffer # NULL
    PROVE  x.buffer \in Seq(Byte) /\ Len(x.buffer) = x.bytes
<1>1. PICK l \in Lists : x.buffer = Wire(l) /\ (x.list = l \/ x.list = Received(l))
  BY DEF BoxInv
<1>2. Wire(l) \in Seq(Byte) /\ Len(Wire(l)) = TotalSize(l)
  BY WireSize DEF Lists
<1>3. x.bytes = TotalSize(l)
  BY <1>1, ReceivedFacts DEF BoxInv
<1>4. QED
  BY <1>1, <1>2, <1>3

-----------------------------------------------------------------------------
(* The operations keep the invariant *)

\* A step that replaces one box.
LEMMA OneBox ==
    ASSUME Inv, NEW b \in Boxes, NEW M, Closed(M),
           \A c \in Boxes \ {b} : BoxInv(box[c], M),
           NEW y, BoxInv(y, M), box' = [box EXCEPT ![b] = y]
    PROVE  Inv'
<1>1. box' = [c \in Boxes |-> IF c = b THEN y ELSE box[c]]
  BY DEF Inv
<1>2. box' = [c \in Boxes |-> box'[c]]
  BY <1>1
<1>3. \A c \in Boxes : BoxInv(box'[c], M)
  BY <1>1
<1>4. QED
  BY <1>2, <1>3 DEF Inv, BoxesInv

\* tlv_box_putobject, called with a tlv that can be in a list.
LEMMA PutObjectStep ==
    ASSUME Inv, NEW b \in Boxes, NEW tlv \in Tlvs, PutObject(b, tlv),
           NEW M, BoxesInv(M),
           tlv.type \in ObjectTypes => ~IsNumber(tlv) /\ tlv.value \in M
    PROVE  Inv'
<1>1. PICK x : x = box[b]
  OBVIOUS
<1>2. Closed(M) /\ \A c \in Boxes : BoxInv(box[c], M)
  BY DEF BoxesInv
<1>3. BoxInv(x, M)
  BY <1>1, <1>2
<1>4. x = [live |-> x.live, list |-> x.list, buffer |-> x.buffer, bytes |-> x.bytes]
  BY <1>3 DEF BoxInv
<1>5. /\ x.buffer = NULL /\ tlv.type \notin TypesOf(x.list)
      /\ x.bytes + Size(tlv) <= MaxBytes
      /\ box' = [box EXCEPT ![b].list = Added(@, tlv), ![b].bytes = @ + Size(tlv)]
  BY <1>1 DEF PutObject, Serialized
<1>6. PICK y : y = [live |-> x.live, list |-> Added(x.list, tlv),
                    buffer |-> x.buffer, bytes |-> x.bytes + Size(tlv)]
  OBVIOUS
<1>7. y = [x EXCEPT !.list = Added(@, tlv), !.bytes = @ + Size(tlv)]
  <2>1. PICK p, q, r, s : x = [live |-> p, list |-> q, buffer |-> r, bytes |-> s]
    BY <1>4
  <2>2. x.live = p /\ x.list = q /\ x.buffer = r /\ x.bytes = s
    BY <2>1
  <2>3. y = [live |-> p, list |-> Added(q, tlv), buffer |-> r, bytes |-> s + Size(tlv)]
    BY <1>6, <2>2
  <2>4. [x EXCEPT !.list = Added(@, tlv), !.bytes = @ + Size(tlv)]
          = [live |-> p, list |-> Added(q, tlv), buffer |-> r, bytes |-> s + Size(tlv)]
    <3>1. PICK a, c : a = Added(q, tlv) /\ c = s + Size(tlv)
      OBVIOUS
    <3>2. [x EXCEPT !.list = a, !.bytes = c]
            = [live |-> p, list |-> a, buffer |-> r, bytes |-> c]
      <4>1. PICK z : z = [x EXCEPT !.list = a]
        OBVIOUS
      <4>2. z = [live |-> p, list |-> a, buffer |-> r, bytes |-> s]
        BY <2>1, <4>1
      <4>3. [z EXCEPT !.bytes = c] = [live |-> p, list |-> a, buffer |-> r, bytes |-> c]
        BY <4>2
      <4>4. QED
        BY <4>1, <4>3
    <3>3. [x EXCEPT !.list = Added(@, tlv), !.bytes = @ + Size(tlv)]
            = [x EXCEPT !.list = a, !.bytes = c]
      BY <2>2, <3>1
    <3>4. QED
      BY <3>1, <3>2, <3>3
  <2>5. QED
    BY <2>3, <2>4
<1>8. box' = [box EXCEPT ![b] = y]
  BY <1>1, <1>5, <1>7 DEF Inv
<1>9. BoxInv(y, M)
  BY <1>3, <1>5, <1>6, PutInv
<1>10. QED
  BY <1>2, <1>8, <1>9, OneBox

\* The types and the numbers.
LEMMA TypeFacts ==
    /\ \A t \in Types : t \in Below(32768)
    /\ \A n \in Numbers : n \in Below(Limit(2)) /\ n \in Below(Limit(4)) /\ n % 256 \in Byte
<1>1. ShortMax = 32767
  BY Bounds, SMT
<1>2. Types \subseteq 0..ShortMax /\ Numbers \subseteq 0..ShortMax
  BY ShortAssumption, Zenon
<1>3. \A x \in 0..ShortMax : x \in Nat /\ x < 32768
  BY <1>1, SMT
<1>4. \A n \in Numbers : n \in Nat /\ n < 32768 /\ n % 256 \in Byte
  BY <1>2, <1>3, DivMod
<1>5. \A n \in Nat : n < 32768 => n < 65536 /\ n < 65536 * 65536
  BY SMT
<1>6. QED
  BY <1>2, <1>3, <1>4, <1>5, SMT DEF Below, Limit

\* A tlv that can be in a list.
LEMMA TlvIs ==
    ASSUME NEW t \in Below(32768), NEW v \in Seq(Byte), Len(v) < 32768,
           NEW d \in {"SHORT", "INT", "CHAR", "STRING", "OBJECT", "BYTES"},
           d \in {"SHORT", "INT"} => Len(v) \in Widths,
           NEW tlv, tlv = [type |-> t, data_type |-> d, value |-> v]
    PROVE  tlv \in Tlvs
  BY SMT DEF Tlvs, IsNumber

\* No box was created at first.
LEMMA InitInv == Init => Inv
<1> SUFFICES ASSUME Init PROVE Inv
  OBVIOUS
<1>1. Closed({<< >>})
  BY EmptyList DEF Closed
<1>2. BoxInv(NoBox, {<< >>})
  <2>1. 0 <= MaxBytes
    BY Bounds, SMT
  <2>2. QED
    BY <2>1, EmptyList DEF BoxInv, NoBox
<1>3. QED
  BY <1>1, <1>2 DEF Inv, BoxesInv, Init

\* Every call keeps the invariant.
LEMMA NextInv == Inv /\ [Next]_box => Inv'
<1> SUFFICES ASSUME Inv, [Next]_box PROVE Inv'
  OBVIOUS
<1>1. PICK M : BoxesInv(M)
  BY DEF Inv
<1>2. Closed(M) /\ \A c \in Boxes : BoxInv(box[c], M)
  BY <1>1 DEF BoxesInv
<1>3. << >> \in M
  BY <1>2 DEF Closed
<1>4. ASSUME NEW b \in Boxes, Create(b) PROVE Inv'
  <2>1. PICK y : y = [NoBox EXCEPT !.live = TRUE]
    OBVIOUS
  <2>2. y = [live |-> TRUE, list |-> << >>, buffer |-> NULL, bytes |-> 0]
    BY <2>1 DEF NoBox
  <2>3. 0 <= MaxBytes
    BY Bounds, SMT
  <2>4. BoxInv(y, M)
    BY <2>2, <2>3, EmptyList DEF BoxInv
  <2>5. box' = [box EXCEPT ![b] = y]
    BY <1>4, <2>1 DEF Create
  <2>6. QED
    BY <1>2, <2>4, <2>5, OneBox
<1>5. ASSUME NEW b \in Boxes, Destroy(b) PROVE Inv'
  <2>1. 0 <= MaxBytes
    BY Bounds, SMT
  <2>2. BoxInv(NoBox, M)
    BY <2>1, EmptyList DEF BoxInv, NoBox
  <2>3. box' = [box EXCEPT ![b] = NoBox]
    BY <1>5 DEF Destroy
  <2>4. QED
    BY <1>2, <2>2, <2>3, OneBox
<1>6. ASSUME NEW b \in Boxes, Serialize(b) PROVE Inv'
  <2>1. PICK x : x = box[b]
    OBVIOUS
  <2>2. BoxInv(x, M)
    BY <1>2, <2>1
  <2>3. /\ x = [live |-> x.live, list |-> x.list, buffer |-> x.buffer, bytes |-> x.bytes]
        /\ x.list \in Lists /\ ObjectsIn(x.list, M)
        /\ x.bytes = TotalSize(x.list) /\ x.bytes <= MaxBytes
    BY <2>2 DEF BoxInv
  <2>4. PICK Mx : Mx = M \cup {Wire(x.list)}
    OBVIOUS
  <2>5. Closed(Mx) /\ \A c \in Boxes : BoxInv(box[c], Mx)
    BY <1>2, <2>3, <2>4, OneMoreMessage
  <2>6. ObjectsIn(x.list, Mx) /\ Wire(x.list) \in Mx
    BY <2>3, <2>4 DEF ObjectsIn
  <2>7. PICK y : y = [live |-> x.live, list |-> x.list, buffer |-> Wire(x.list), bytes |-> x.bytes]
    OBVIOUS
  <2>8. BoxInv(y, Mx)
    BY <2>3, <2>6, <2>7 DEF BoxInv
  <2>9. y = [x EXCEPT !.buffer = Wire(x.list)]
    <3>1. PICK p, q, r, s : x = [live |-> p, list |-> q, buffer |-> r, bytes |-> s]
      BY <2>3
    <3>2. QED
      BY <2>7, <3>1
  <2>10. box' = [box EXCEPT ![b] = y]
    BY <1>6, <2>1, <2>9 DEF Serialize, Inv
  <2>11. QED
    BY <2>5, <2>8, <2>10, OneBox
<1>7. ASSUME NEW b \in Boxes, NEW n \in Numbers, NEW t \in ShortTypes, PutShort(b, t, n)
      PROVE  Inv'
  <2>1. PICK tlv : tlv = [type |-> t, data_type |-> "SHORT", value |-> Store(n, 2)]
    OBVIOUS
  <2>2. t \in Below(32768) /\ n \in Below(Limit(2)) /\ t \notin ObjectTypes /\ 2 \in Widths
    BY TypeFacts, AgreementAssumption DEF Types, Widths
  <2>3. PICK v : v = Store(n, 2)
    OBVIOUS
  <2>4. v \in Seq(Byte) /\ Len(v) = 2 /\ Len(v) \in Widths /\ Len(v) < 32768
    <3>1. PICK w \in Widths : w = 2
      BY <2>2
    <3>2. n \in Below(Limit(w)) /\ v = Store(n, w)
      BY <2>2, <2>3, <3>1
    <3>3. v \in Seq(Byte) /\ Len(v) = w
      BY <3>2, LoadStore
    <3>4. QED
      BY <3>1, <3>3, SMT
  <2>5. tlv \in Tlvs
    BY <2>1, <2>2, <2>3, <2>4, TlvIs, SMT
  <2>6. PutObject(b, tlv) /\ tlv.type \notin ObjectTypes
    BY <1>7, <2>1, <2>2 DEF PutShort
  <2>7. QED
    BY <1>1, <2>5, <2>6, PutObjectStep
<1>8. ASSUME NEW b \in Boxes, NEW n \in Numbers, NEW t \in IntTypes, PutInt(b, t, n)
      PROVE  Inv'
  <2>1. PICK tlv : tlv = [type |-> t, data_type |-> "INT", value |-> Store(n, 4)]
    OBVIOUS
  <2>2. t \in Below(32768) /\ n \in Below(Limit(4)) /\ t \notin ObjectTypes /\ 4 \in Widths
    BY TypeFacts, AgreementAssumption DEF Types, Widths
  <2>3. PICK v : v = Store(n, 4)
    OBVIOUS
  <2>4. v \in Seq(Byte) /\ Len(v) = 4 /\ Len(v) \in Widths /\ Len(v) < 32768
    <3>1. PICK w \in Widths : w = 4
      BY <2>2
    <3>2. n \in Below(Limit(w)) /\ v = Store(n, w)
      BY <2>2, <2>3, <3>1
    <3>3. v \in Seq(Byte) /\ Len(v) = w
      BY <3>2, LoadStore
    <3>4. QED
      BY <3>1, <3>3, SMT
  <2>5. tlv \in Tlvs
    BY <2>1, <2>2, <2>3, <2>4, TlvIs, SMT
  <2>6. PutObject(b, tlv) /\ tlv.type \notin ObjectTypes
    BY <1>8, <2>1, <2>2 DEF PutInt
  <2>7. QED
    BY <1>1, <2>5, <2>6, PutObjectStep
<1>9. ASSUME NEW b \in Boxes, NEW n \in Numbers, NEW t \in CharTypes, PutChar(b, t, n)
      PROVE  Inv'
  <2>1. PICK tlv : tlv = [type |-> t, data_type |-> "CHAR", value |-> <<n % 256>>]
    OBVIOUS
  <2>2. t \in Below(32768) /\ n % 256 \in Byte /\ t \notin ObjectTypes
    BY TypeFacts, AgreementAssumption DEF Types
  <2>3. PICK v : v = <<n % 256>>
    OBVIOUS
  <2>4. v \in Seq(Byte) /\ Len(v) = 1 /\ Len(v) < 32768
    BY <2>2, <2>3, SMT
  <2>5. tlv \in Tlvs
    <3>1. tlv = [type |-> t, data_type |-> "CHAR", value |-> v]
      BY <2>1, <2>3
    <3>2. t \in Below(32768) /\ v \in Seq(Byte) /\ Len(v) < 32768
      BY <2>2, <2>4, SMT
    <3>3. QED
      BY <3>1, <3>2, TlvIs, SMT
  <2>6. PutObject(b, tlv) /\ tlv.type \notin ObjectTypes
    BY <1>9, <2>1, <2>2 DEF PutChar
  <2>7. QED
    BY <1>1, <2>5, <2>6, PutObjectStep
<1>10. ASSUME NEW b \in Boxes, NEW n \in Numbers, NEW t \in StringTypes, PutString(b, t, n)
       PROVE  Inv'
  <2>1. PICK tlv : tlv = [type |-> t, data_type |-> "STRING", value |-> <<n % 256, 0>>]
    OBVIOUS
  <2>2. t \in Below(32768) /\ n % 256 \in Byte /\ 0 \in Byte /\ t \notin ObjectTypes
    BY TypeFacts, AgreementAssumption, Bytes DEF Types
  <2>3. PICK v : v = <<n % 256, 0>>
    OBVIOUS
  <2>4. v \in Seq(Byte) /\ Len(v) = 2 /\ Len(v) < 32768
    BY <2>2, <2>3, SMT
  <2>5. tlv \in Tlvs
    <3>1. tlv = [type |-> t, data_type |-> "STRING", value |-> v]
      BY <2>1, <2>3
    <3>2. t \in Below(32768) /\ v \in Seq(Byte) /\ Len(v) < 32768
      BY <2>2, <2>4, SMT
    <3>3. QED
      BY <3>1, <3>2, TlvIs, SMT
  <2>6. PutObject(b, tlv) /\ tlv.type \notin ObjectTypes
    BY <1>10, <2>1, <2>2 DEF PutString
  <2>7. QED
    BY <1>1, <2>5, <2>6, PutObjectStep
<1>11. ASSUME NEW b \in Boxes, NEW o \in Boxes, NEW t \in ObjectTypes, PutBox(b, t, o)
       PROVE  Inv'
  <2>1. PICK v : v = IF Serialized(o) THEN box[o].buffer ELSE << >>
    OBVIOUS
  <2>2. PICK tlv : tlv = [type |-> t, data_type |-> "OBJECT", value |-> v]
    OBVIOUS
  <2>3. v \in M /\ v \in Seq(Byte) /\ Len(v) <= MaxBytes
    <3>1. CASE Serialized(o)
      BY <1>2, <2>1, <3>1, SerializedSize DEF Serialized, BoxInv
    <3>2. CASE ~Serialized(o)
      <4>1. v = << >> /\ 0 <= MaxBytes
        BY <2>1, <3>2, Bounds, SMT
      <4>2. QED
        BY <1>3, <4>1, EmptySeq
    <3>3. QED
      BY <3>1, <3>2
  <2>4. t \in Below(32768) /\ Len(v) < 32768
    <3>1. Len(v) \in Nat
      BY <2>3, LenProperties
    <3>2. t \in Below(32768)
      BY TypeFacts DEF Types
    <3>3. QED
      BY <2>3, <3>1, <3>2, Bounds, SMT
  <2>5. tlv \in Tlvs
    BY <2>2, <2>3, <2>4, SMT DEF Tlvs, IsNumber
  <2>6. PutObject(b, tlv) /\ ~IsNumber(tlv) /\ tlv.value \in M
    BY <1>11, <2>1, <2>2, <2>3 DEF PutBox, IsNumber
  <2>7. QED
    BY <1>1, <2>5, <2>6, PutObjectStep
<1>12. ASSUME NEW b \in Boxes, NEW o \in Boxes, Parse(b, o) PROVE Inv'
  <2>1. Serialized(o) /\ box' = [box EXCEPT ![b] = Parsed(box[o].buffer)]
    BY <1>12 DEF Parse
  <2>2. box[o].buffer \in M
    BY <1>2, <2>1 DEF Serialized, BoxInv
  <2>3. Len(box[o].buffer) <= MaxBytes
    BY <1>2, <2>1, SerializedSize DEF BoxInv, Serialized
  <2>4. BoxInv(Parsed(box[o].buffer), M)
    BY <1>2, <2>2, <2>3, ParsedInv
  <2>5. QED
    BY <1>2, <2>1, <2>4, OneBox
<1>13. ASSUME NEW b \in Boxes, NEW o \in Boxes, NEW t \in ObjectTypes, GetObject(b, o, t)
       PROVE  Inv'
  <2>1. PICK l \in Lists : /\ l = box[o].list /\ ObjectsIn(l, M)
                           /\ TotalSize(l) <= MaxBytes
    BY <1>2 DEF BoxInv
  <2>2. t \in TypesOf(l) /\ box' = [box EXCEPT ![b] = Parsed(Find(l, t).value)]
    BY <1>13, <2>1 DEF GetObject
  <2>3. PICK i \in 1..Len(l) : l[i].type = t
    BY <2>2 DEF TypesOf
  <2>4. Find(l, t) = l[i]
    BY <2>3, FindFacts
  <2>5. l[i].value \in M
    BY <2>1, <2>3 DEF ObjectsIn
  <2>6. Len(l[i].value) <= MaxBytes
    <3>1. l \in Seq(Tlvs) /\ l[i] \in Tlvs
      BY ElementOfSeq DEF Lists
    <3>2. Len(l[i].value) <= TotalSize(l) /\ TotalSize(l) \in Nat /\ Len(l[i].value) \in Nat
      BY <3>1, WireSize, TlvFacts
    <3>3. MaxBytes \in Nat
      BY Bounds, SMT
    <3>4. QED
      BY <2>1, <3>2, <3>3
  <2>7. BoxInv(Parsed(l[i].value), M)
    BY <1>2, <2>5, <2>6, ParsedInv
  <2>8. QED
    BY <1>2, <2>2, <2>4, <2>7, OneBox
<1>14. CASE UNCHANGED box
  BY <1>14 DEF Inv, BoxesInv
<1>15. QED
  BY <1>4, <1>5, <1>6, <1>7, <1>8, <1>9, <1>10, <1>11, <1>12, <1>13, <1>14 DEF Next

-----------------------------------------------------------------------------
(* The theorems *)

\* SizeExact follows from the invariant.
LEMMA InvSize == Inv => SizeExact
<1> SUFFICES ASSUME Inv, NEW b \in Boxes
             PROVE  /\ box[b].bytes = TotalSize(box[b].list)
                    /\ Serialized(b) => Len(box[b].buffer) = box[b].bytes
  BY DEF SizeExact
<1>1. PICK M : BoxInv(box[b], M)
  BY DEF Inv, BoxesInv
<1>2. QED
  BY <1>1, SerializedSize DEF BoxInv, Serialized

\* What is received for a list is read as what was put into the list.
LEMMA ReadReceived ==
    ASSUME NEW l \in Lists, NEW r, r = Received(l)
    PROVE  /\ r \in Lists
           /\ TypesOf(r) = TypesOf(l)
           /\ Len(r) = Len(l)
           /\ \A i \in 1..Len(l) :
                IF IsNumber(l[i]) THEN GetNumber(r, l[i].type) = Load(l[i].value)
                ELSE GetBytes(r, l[i].type) = l[i].value
           /\ \A j \in 1..Len(r) :
                ~IsNumber(r[j]) /\ GetBytes(r, r[j].type) = r[j].value
<1>1. PICK n \in Nat : n = Len(l)
  BY LenProperties DEF Lists
<1>2. n \in 0..Len(l)
  BY <1>1
<1>3. /\ r \in Lists /\ Len(r) = n
      /\ \A i \in 1..n : (n - i) + 1 \in 1..n /\ r[(n - i) + 1] = Image(l[i])
      /\ \A j \in 1..n : (n - j) + 1 \in 1..n /\ r[j] = Image(l[(n - j) + 1])
      /\ \A i \in 1..n : l[i] \in Tlvs
  BY <1>1, <1>2, GotFacts DEF Received
<1>4. ASSUME NEW i \in 1..n
      PROVE  \E j \in 1..n : r[j] = Image(l[i]) /\ r[j].type = l[i].type
  BY <1>3, ImageFacts
<1>5. ASSUME NEW j \in 1..n
      PROVE  \E i \in 1..n : r[j] = Image(l[i]) /\ r[j].type = l[i].type /\ ~IsNumber(r[j])
  BY <1>3, ImageFacts
<1>6. TypesOf(r) = TypesOf(l)
  <2>1. ASSUME NEW t PROVE t \in TypesOf(r) <=> t \in TypesOf(l)
    <3>1. t \in TypesOf(r) <=> \E j \in 1..n : t = r[j].type
      BY <1>3 DEF TypesOf
    <3>2. t \in TypesOf(l) <=> \E i \in 1..n : t = l[i].type
      BY <1>1 DEF TypesOf
    <3>3. ASSUME NEW j \in 1..n, t = r[j].type PROVE \E i \in 1..n : t = l[i].type
      <4>1. PICK i \in 1..n : r[j].type = l[i].type
        BY <1>5
      <4>2. QED
        BY <3>3, <4>1
    <3>4. ASSUME NEW i \in 1..n, t = l[i].type PROVE \E j \in 1..n : t = r[j].type
      <4>1. PICK j \in 1..n : r[j].type = l[i].type
        BY <1>4
      <4>2. QED
        BY <3>4, <4>1
    <3>5. QED
      BY <3>1, <3>2, <3>3, <3>4
  <2>2. QED
    BY <2>1
<1>7. ASSUME NEW i \in 1..n
      PROVE  IF IsNumber(l[i]) THEN GetNumber(r, l[i].type) = Load(l[i].value)
             ELSE GetBytes(r, l[i].type) = l[i].value
  <2>1. PICK j \in 1..n : r[j] = Image(l[i]) /\ r[j].type = l[i].type
    BY <1>4
  <2>2. Find(r, l[i].type) = r[j]
    BY <1>3, <2>1, FindFacts
  <2>3. l[i] \in Tlvs /\ r[j].value = Payload(l[i])
    BY <1>3, <2>1, ImageFacts
  <2>4. CASE IsNumber(l[i])
    <3>1. Hton(Load(Payload(l[i])), Len(Payload(l[i]))) = Load(l[i].value)
      BY <2>3, <2>4, PayloadFacts
    <3>2. QED
      BY <2>2, <2>3, <2>4, <3>1 DEF GetNumber
  <2>5. CASE ~IsNumber(l[i])
    BY <2>2, <2>3, <2>5 DEF GetBytes, Payload
  <2>6. QED
    BY <2>4, <2>5
<1>8. ASSUME NEW j \in 1..n PROVE ~IsNumber(r[j]) /\ GetBytes(r, r[j].type) = r[j].value
  <2>1. Find(r, r[j].type) = r[j]
    BY <1>3, FindFacts
  <2>2. QED
    BY <1>5, <2>1 DEF GetBytes
<1>9. QED
  BY <1>1, <1>3, <1>6, <1>7, <1>8

\* RoundTrip follows from the invariant.
LEMMA InvRoundTrip == Inv => RoundTrip
<1> SUFFICES ASSUME Inv, NEW b \in Boxes, Serialized(b)
             PROVE  LET sent == box[b].list
                        got == Parsed(box[b].buffer).list
                    IN  /\ TypesOf(got) = TypesOf(sent)
                        /\ Len(got) = Len(sent)
                        /\ \A i \in 1..Len(sent) :
                            LET tlv == sent[i] IN
                            IF tlv.data_type \in {"SHORT", "INT"}
                            THEN GetNumber(got, tlv.type) = Load(tlv.value)
                            ELSE GetBytes(got, tlv.type) = tlv.value
  BY DEF RoundTrip
<1>1. PICK M : BoxInv(box[b], M)
  BY DEF Inv, BoxesInv
<1>2. PICK l \in Lists : /\ box[b].buffer = Wire(l)
                         /\ box[b].list = l \/ box[b].list = Received(l)
  BY <1>1 DEF BoxInv, Serialized
<1>3. PICK r : r = Received(l)
  OBVIOUS
<1>4. Parsed(box[b].buffer).list = r
  BY <1>2, <1>3, ParseWire DEF Parsed
<1>5. PICK sent : sent = box[b].list
  OBVIOUS
<1>6. /\ TypesOf(r) = TypesOf(sent)
      /\ Len(r) = Len(sent)
      /\ \A i \in 1..Len(sent) :
           IF IsNumber(sent[i]) THEN GetNumber(r, sent[i].type) = Load(sent[i].value)
           ELSE GetBytes(r, sent[i].type) = sent[i].value
  <2>1. CASE sent = l
    BY <1>3, <2>1, ReadReceived
  <2>2. CASE sent = r
    <3>1. \A j \in 1..Len(r) : ~IsNumber(r[j]) /\ GetBytes(r, r[j].type) = r[j].value
      BY <1>3, ReadReceived
    <3>2. QED
      BY <2>2, <3>1
  <2>3. QED
    BY <1>2, <1>3, <1>5, <2>1, <2>2
<1>7. QED
  BY <1>4, <1>5, <1>6 DEF IsNumber

\* The invariant holds in every state of every behaviour of the boxes.
LEMMA Invariance == Spec => []Inv
  BY InitInv, NextInv, PTL DEF Spec

\* Whatever is put, refused, copied from another box or parsed, tlv_box_serialize
\* writes exactly the m_serialized_bytes bytes that it has allocated.
THEOREM SizeIsExact == Spec => []SizeExact
  BY Invariance, InvSize, PTL

\* Whoever parses the buffer of a box, on a host of the same byte order, finds its
\* types and reads what was put under them, nested boxes and forwarded ones included.
THEOREM ReadsWhatWasPut == Spec => []RoundTrip
  BY Invariance, InvRoundTrip, PTL
=============================================================================
