--------------------------- MODULE TraceDiffProofs ---------------------------
(* Proofs about TraceDiff, for every pair of files and every command line. *)
EXTENDS TraceDiff, FiniteSetTheorems, SequenceTheorems, WellFoundedInduction, TLAPS

-----------------------------------------------------------------------------
(* Numbers *)

(* A set of natural numbers that is not empty has a least element. *)
LEMMA LeastElement ==
  ASSUME NEW S \in SUBSET Nat, S # {}
  PROVE  \E n \in S : \A m \in S : n <= m
<1>1. PICK n \in S : \A m \in S : ~(<< m, n >> \in OpToRel(<, Nat))
  BY WFMin, NatLessThanWellFounded
<1>2. \A m \in S : ~(m < n)
  BY <1>1 DEF OpToRel
<1>3. QED
  BY <1>2

Least(S) == CHOOSE n \in S : \A m \in S : n <= m

LEMMA LeastIs ==
  ASSUME NEW S \in SUBSET Nat, S # {}
  PROVE  Least(S) \in S /\ \A m \in S : Least(S) <= m
  BY LeastElement DEF Least

(* A set of natural numbers with a bound that is not empty has a greatest element. *)
LEMMA GreatestElement ==
  ASSUME NEW S \in SUBSET Nat, S # {}, NEW b \in Nat, \A m \in S : m <= b
  PROVE  \E n \in S : \A m \in S : m <= n
<1> DEFINE T == { j \in Nat : b - j \in S }
<1>1. PICK m \in S : TRUE
  OBVIOUS
<1>2. b - m \in T
  OBVIOUS
<1>3. PICK j \in T : \A i \in T : j <= i
  BY <1>2, LeastElement
<1>4. \A i \in S : b - i \in T
  OBVIOUS
<1>5. ASSUME NEW i \in S PROVE i <= b - j
  <2>1. j <= b - i
    BY <1>3, <1>4
  <2>2. QED
    BY <1>3, <2>1
<1>6. QED
  BY <1>3, <1>5

-----------------------------------------------------------------------------
(* Sequences *)

(* SetToSeq lists the elements of a finite set, each of them once. *)
LEMMA SetToSeqIs ==
  ASSUME NEW S, IsFiniteSet(S)
  PROVE  /\ SetToSeq(S) \in [1 .. Cardinality(S) -> S] /\ Cardinality(S) \in Nat
         /\ IsInjective(SetToSeq(S))
         /\ \A x \in S : \E n \in 1 .. Cardinality(S) : SetToSeq(S)[n] = x
<1>1. Cardinality(S) \in Nat
  BY FS_CardinalityType
<1>2. PICK g : g \in Bijection(1 .. Cardinality(S), S)
  BY FS_CardinalityType DEF ExistsBijection
<1>3. g \in [1 .. Cardinality(S) -> S] /\ IsInjective(g)
  BY <1>2 DEF Bijection, Injection, IsInjective
<1>4. SetToSeq(S) \in [1 .. Cardinality(S) -> S] /\ IsInjective(SetToSeq(S))
  BY <1>3 DEF SetToSeq
<1>5. SetToSeq(S) \in Injection(1 .. Cardinality(S), S)
  BY <1>4 DEF Injection, IsInjective
<1>6. Cardinality(1 .. Cardinality(S)) = Cardinality(S)
  BY <1>1, FS_Interval
<1>7. SetToSeq(S) \in Surjection(1 .. Cardinality(S), S)
  BY <1>5, <1>6, FS_Injection
<1>8. QED
  BY <1>1, <1>4, <1>7 DEF Surjection

-----------------------------------------------------------------------------
(* Traces *)

LEMMA TraceIs ==
  ASSUME NEW e \in Nat, NEW tv, IsTrace(tv, e)
  PROVE  /\ tv \in Seq(Nat \X Values) /\ Len(tv) \in Nat /\ Len(tv) >= 1
         /\ DOMAIN tv = 1 .. Len(tv)
         /\ \A i \in 1 .. Len(tv) : /\ tv[i][1] \in Nat /\ tv[i][1] <= e
                                    /\ tv[i] = << tv[i][1], tv[i][2] >>
         /\ \A i \in 1 .. Len(tv) : i > 1 => tv[i][2] # tv[i - 1][2]
         /\ \A i, j \in 1 .. Len(tv) : i < j => tv[i][1] < tv[j][1]
         /\ tv[1][1] = 0
<1>1. tv \in Seq(Nat \X Values) /\ tv # << >>
  BY DEF IsTrace
<1>2. Len(tv) \in Nat /\ DOMAIN tv = 1 .. Len(tv) /\ Len(tv) >= 1
  BY <1>1, LenProperties, EmptySeq
<1>3. \A i \in 1 .. Len(tv) : tv[i] \in Nat \X Values
  BY <1>1, ElementOfSeq
<1>4. ASSUME NEW i \in 1 .. Len(tv)
      PROVE  /\ tv[i][1] \in Nat /\ tv[i][1] <= e /\ tv[i] = << tv[i][1], tv[i][2] >>
             /\ i > 1 => tv[i][2] # tv[i - 1][2]
  <2>1. \A p \in Nat \X Values : p[1] \in Nat /\ p = << p[1], p[2] >>
    OBVIOUS
  <2>2. i \in DOMAIN tv
    BY <1>2
  <2>3. tv[i][1] <= e /\ (i > 1 => tv[i][2] # tv[i - 1][2])
    BY <2>2 DEF IsTrace
  <2>4. QED
    BY <1>3, <2>1, <2>3
<1>5. \A i, j \in 1 .. Len(tv) : i < j => tv[i][1] < tv[j][1]
  BY <1>2 DEF IsTrace
<1>6. tv[1][1] = 0
  BY DEF IsTrace
<1>7. QED
  BY <1>1, <1>2, <1>4, <1>5, <1>6

(* The value at a time is that of the last pair that is not later. *)
LEMMA ValueAtIs ==
  ASSUME NEW e \in Nat, NEW tv, IsTrace(tv, e), NEW u \in Nat, NEW k \in 1 .. Len(tv),
         tv[k][1] <= u, k < Len(tv) => u < tv[k + 1][1]
  PROVE  ValueAt(tv, u) = tv[k][2]
<1> DEFINE IsLast(n) == /\ n \in DOMAIN tv /\ tv[n][1] <= u
                        /\ \A j \in DOMAIN tv : tv[j][1] <= u => j <= n
<1>1. /\ Len(tv) \in Nat /\ DOMAIN tv = 1 .. Len(tv)
      /\ \A i \in 1 .. Len(tv) : tv[i][1] \in Nat
      /\ \A i, j \in 1 .. Len(tv) : i < j => tv[i][1] < tv[j][1]
  BY TraceIs
<1>2. ASSUME NEW j \in 1 .. Len(tv), tv[j][1] <= u
      PROVE  j <= k
  <2>1. SUFFICES ASSUME k < j PROVE FALSE
    BY <1>1
  <2>2. k + 1 \in 1 .. Len(tv) /\ u < tv[k + 1][1]
    BY <1>1, <2>1
  <2>3. tv[k + 1][1] <= tv[j][1]
    <3>1. CASE k + 1 = j
      BY <1>1, <3>1
    <3>2. CASE k + 1 < j
      BY <1>1, <2>2, <3>2
    <3>3. QED
      BY <2>1, <3>1, <3>2
  <2>4. QED
    BY <1>1, <1>2, <2>2, <2>3
<1>3. IsLast(k)
  BY <1>1, <1>2
<1>4. \A n : IsLast(n) => n = k
  BY <1>1, <1>3
<1>5. ValueAt(tv, u) = tv[CHOOSE n \in DOMAIN tv :
                            tv[n][1] <= u /\ \A j \in DOMAIN tv : tv[j][1] <= u => j <= n][2]
  BY DEF ValueAt
<1>6. (CHOOSE n \in DOMAIN tv :
         tv[n][1] <= u /\ \A j \in DOMAIN tv : tv[j][1] <= u => j <= n) = k
  BY <1>3, <1>4
<1>7. QED
  BY <1>5, <1>6

LEMMA LastExists ==
  ASSUME NEW e \in Nat, NEW tv, IsTrace(tv, e), NEW u \in Nat
  PROVE  \E k \in 1 .. Len(tv) : /\ tv[k][1] <= u
                                 /\ \A j \in 1 .. Len(tv) : k < j => u < tv[j][1]
<1> DEFINE S == { j \in 1 .. Len(tv) : tv[j][1] <= u }
<1>1. /\ Len(tv) \in Nat /\ Len(tv) >= 1 /\ tv[1][1] = 0
      /\ \A i \in 1 .. Len(tv) : tv[i][1] \in Nat
  BY TraceIs
<1>2. S \in SUBSET Nat /\ 1 \in S /\ \A m \in S : m <= Len(tv)
  BY <1>1
<1>3. PICK k \in S : \A m \in S : m <= k
  BY <1>1, <1>2, GreatestElement
<1>4. \A j \in 1 .. Len(tv) : k < j => u < tv[j][1]
  BY <1>1, <1>3
<1>5. QED
  BY <1>3, <1>4

-----------------------------------------------------------------------------
(* Two traces side by side *)

(* A trace and the pair that is added at the end of both files. *)
Extended(tv, e) == Append(tv, << e, Last(tv)[2] >>)

LEMMA ExtendedIs ==
  ASSUME NEW e \in Nat, NEW tv, IsTrace(tv, e)
  PROVE  /\ Extended(tv, e) \in Seq(Nat \X Values)
         /\ Len(Extended(tv, e)) = Len(tv) + 1 /\ DOMAIN Extended(tv, e) = 1 .. (Len(tv) + 1)
         /\ \A n \in 1 .. Len(tv) : Extended(tv, e)[n] = tv[n]
         /\ Extended(tv, e)[Len(tv) + 1] = << e, tv[Len(tv)][2] >>
<1>1. tv \in Seq(Nat \X Values) /\ Len(tv) \in Nat /\ Len(tv) \in 1 .. Len(tv)
  BY TraceIs
<1>2. tv[Len(tv)] \in Nat \X Values
  BY <1>1, ElementOfSeq
<1>3. << e, tv[Len(tv)][2] >> \in Nat \X Values /\ Last(tv) = tv[Len(tv)]
  BY <1>2 DEF Last
<1>4. QED
  BY <1>1, <1>3, AppendProperties, LenProperties DEF Extended

LEMMA ExtendedAt ==
  ASSUME NEW e \in Nat, NEW tv, IsTrace(tv, e), NEW n \in 1 .. (Len(tv) + 1)
  PROVE  /\ n <= Len(tv) => n \in 1 .. Len(tv) /\ Extended(tv, e)[n] = tv[n]
         /\ n = Len(tv) + 1 => /\ Extended(tv, e)[n] = << e, tv[n - 1][2] >>
                              /\ Extended(tv, e)[n][1] = e
<1>1. Len(tv) \in Nat
  BY TraceIs
<1>2. n <= Len(tv) => n \in 1 .. Len(tv) /\ Extended(tv, e)[n] = tv[n]
  BY <1>1, ExtendedIs
<1>3. ASSUME n = Len(tv) + 1
      PROVE  Extended(tv, e)[n] = << e, tv[n - 1][2] >>
  <2>1. n - 1 = Len(tv)
    BY <1>1, <1>3
  <2>2. Extended(tv, e)[Len(tv) + 1] = << e, tv[Len(tv)][2] >>
    BY ExtendedIs
  <2>3. QED
    BY <1>3, <2>1, <2>2
<1>4. QED
  BY <1>2, <1>3

(* The first position at which the two differ. *)
Parted(a, b, e, n) ==
  /\ n \in 1 .. (Len(a) + 1) /\ n \in 1 .. (Len(b) + 1)
  /\ Extended(a, e)[n] # Extended(b, e)[n]
  /\ \A m \in 1 .. (n - 1) : Extended(a, e)[m] = Extended(b, e)[m]

(* Up to there the two have the same pairs. *)
LEMMA SameBefore ==
  ASSUME NEW e \in Nat, NEW a, NEW b, IsTrace(a, e), IsTrace(b, e), NEW n, Parted(a, b, e, n)
  PROVE  /\ n \in Nat /\ n >= 1 /\ n <= Len(a) + 1 /\ n <= Len(b) + 1
         /\ \A m \in 1 .. (n - 1) : /\ m \in 1 .. Len(a) /\ m \in 1 .. Len(b)
                                    /\ a[m] = b[m]
<1>1. Len(a) \in Nat /\ Len(b) \in Nat
  BY TraceIs
<1>2. n \in Nat /\ n >= 1 /\ n <= Len(a) + 1 /\ n <= Len(b) + 1
  BY <1>1 DEF Parted
<1>3. ASSUME NEW m \in 1 .. (n - 1)
      PROVE  m \in 1 .. Len(a) /\ m \in 1 .. Len(b) /\ a[m] = b[m]
  <2>1. m \in 1 .. Len(a) /\ m \in 1 .. Len(b)
    BY <1>1, <1>2
  <2>2. Extended(a, e)[m] = a[m] /\ Extended(b, e)[m] = b[m]
    BY <2>1, ExtendedIs
  <2>3. QED
    BY <2>1, <2>2 DEF Parted
<1>4. QED
  BY <1>2, <1>3

(* The time of a pair, of the added one too, is a time not after the end. *)
LEMMA ExtendedTime ==
  ASSUME NEW e \in Nat, NEW tv, IsTrace(tv, e), NEW n \in 1 .. (Len(tv) + 1)
  PROVE  /\ Extended(tv, e)[n][1] \in Nat /\ Extended(tv, e)[n][1] <= e
         /\ Extended(tv, e)[n] = << Extended(tv, e)[n][1], Extended(tv, e)[n][2] >>
         /\ \A m \in 1 .. (Len(tv) + 1) : n < m => Extended(tv, e)[n][1] <= Extended(tv, e)[m][1]
<1>1. /\ Len(tv) \in Nat /\ \A i \in 1 .. Len(tv) : /\ tv[i][1] \in Nat /\ tv[i][1] <= e
                                                  /\ tv[i] = << tv[i][1], tv[i][2] >>
      /\ \A i, j \in 1 .. Len(tv) : i < j => tv[i][1] < tv[j][1]
  BY TraceIs
<1>2. /\ \A m \in 1 .. Len(tv) : Extended(tv, e)[m] = tv[m]
      /\ Extended(tv, e)[Len(tv) + 1] = << e, tv[Len(tv)][2] >>
  BY ExtendedIs
<1>3. CASE n \in 1 .. Len(tv)
  <2>1. ASSUME NEW m \in 1 .. (Len(tv) + 1), n < m
        PROVE  Extended(tv, e)[n][1] <= Extended(tv, e)[m][1]
    <3>1. CASE m \in 1 .. Len(tv)
      BY <1>1, <1>2, <1>3, <2>1, <3>1
    <3>2. CASE m = Len(tv) + 1
      BY <1>1, <1>2, <1>3, <3>2
    <3>3. QED
      BY <1>1, <3>1, <3>2
  <2>2. QED
    BY <1>1, <1>2, <1>3, <2>1
<1>4. CASE n = Len(tv) + 1
  <2>1. \A m \in 1 .. (Len(tv) + 1) : ~(n < m)
    BY <1>1, <1>4
  <2>2. QED
    BY <1>1, <1>2, <1>4, <2>1
<1>5. QED
  BY <1>1, <1>3, <1>4

LEMMA SymmetricParted ==
  ASSUME NEW e, NEW a, NEW b, NEW n, Parted(a, b, e, n)
  PROVE  Parted(b, a, e, n)
  BY DEF Parted

(* No value differs before the position. *)
LEMMA EqualBefore ==
  ASSUME NEW e \in Nat, NEW a, NEW b, IsTrace(a, e), IsTrace(b, e), NEW n, Parted(a, b, e, n),
         NEW u \in Nat, u < Extended(a, e)[n][1], u < Extended(b, e)[n][1]
  PROVE  ValueAt(a, u) = ValueAt(b, u)
<1>1. /\ Len(a) \in Nat /\ Len(b) \in Nat
      /\ \A i \in 1 .. Len(a) : a[i][1] \in Nat
      /\ \A i \in 1 .. Len(b) : b[i][1] \in Nat
      /\ \A i, j \in 1 .. Len(a) : i < j => a[i][1] < a[j][1]
  BY TraceIs
<1>2. /\ n \in Nat /\ n >= 1 /\ n <= Len(a) + 1 /\ n <= Len(b) + 1
      /\ \A m \in 1 .. (n - 1) : m \in 1 .. Len(a) /\ m \in 1 .. Len(b) /\ a[m] = b[m]
  BY SameBefore
<1>3. PICK k \in 1 .. Len(a) : a[k][1] <= u /\ \A j \in 1 .. Len(a) : k < j => u < a[j][1]
  BY LastExists
<1>4. n <= Len(a) => u < a[n][1]
  <2>1. n \in 1 .. (Len(a) + 1)
    BY DEF Parted
  <2>2. n <= Len(a) => Extended(a, e)[n] = a[n]
    BY <2>1, ExtendedAt
  <2>3. QED
    BY <2>2
<1>5. n <= Len(b) => u < b[n][1]
  <2>1. n \in 1 .. (Len(b) + 1)
    BY DEF Parted
  <2>2. n <= Len(b) => Extended(b, e)[n] = b[n]
    BY <2>1, ExtendedAt
  <2>3. QED
    BY <2>2
<1>6. k < n
  <2>1. SUFFICES ASSUME n <= k PROVE FALSE
    BY <1>1, <1>2
  <2>2. n \in 1 .. Len(a) /\ u < a[n][1]
    BY <1>1, <1>2, <1>4, <2>1
  <2>3. a[n][1] <= a[k][1]
    <3>1. CASE n = k
      BY <1>1, <3>1
    <3>2. CASE n < k
      BY <1>1, <2>2, <3>2
    <3>3. QED
      BY <1>2, <2>1, <3>1, <3>2
  <2>4. QED
    BY <1>1, <1>3, <2>2, <2>3
<1>7. k \in 1 .. Len(b) /\ a[k] = b[k]
  BY <1>2, <1>6
<1>8. k < Len(b) => u < b[k + 1][1]
  <2>1. CASE k + 1 = n
    BY <1>1, <1>5, <2>1
  <2>2. CASE k + 1 < n
    <3>1. k + 1 \in 1 .. (n - 1)
      BY <1>2, <2>2
    <3>2. k + 1 \in 1 .. Len(a) /\ a[k + 1] = b[k + 1]
      BY <1>2, <3>1
    <3>3. u < a[k + 1][1]
      BY <1>3, <3>2
    <3>4. QED
      BY <3>2, <3>3
  <2>3. QED
    BY <1>2, <1>6, <2>1, <2>2
<1>9. k < Len(a) => u < a[k + 1][1]
  BY <1>1, <1>3
<1>10. ValueAt(a, u) = a[k][2]
  BY <1>3, <1>9, ValueAtIs
<1>11. b[k][1] <= u
  BY <1>3, <1>7
<1>12. ValueAt(b, u) = b[k][2]
  BY <1>7, <1>8, <1>11, ValueAtIs
<1>13. QED
  BY <1>7, <1>10, <1>12

(* At the earlier of the two times the values differ. *)
LEMMA ApartFrom ==
  ASSUME NEW e \in Nat, NEW a, NEW b, IsTrace(a, e), IsTrace(b, e), NEW n, Parted(a, b, e, n),
         Extended(a, e)[n][1] <= Extended(b, e)[n][1]
  PROVE  ValueAt(a, Extended(a, e)[n][1]) # ValueAt(b, Extended(a, e)[n][1])
<1>1. /\ Len(a) \in Nat /\ Len(b) \in Nat /\ Len(a) >= 1 /\ Len(b) >= 1
      /\ \A i \in 1 .. Len(a) : a[i][1] \in Nat /\ a[i][1] <= e /\ a[i] = << a[i][1], a[i][2] >>
      /\ \A i \in 1 .. Len(b) : b[i][1] \in Nat /\ b[i][1] <= e /\ b[i] = << b[i][1], b[i][2] >>
      /\ \A i \in 1 .. Len(a) : i > 1 => a[i][2] # a[i - 1][2]
      /\ \A i \in 1 .. Len(b) : i > 1 => b[i][2] # b[i - 1][2]
      /\ \A i, j \in 1 .. Len(a) : i < j => a[i][1] < a[j][1]
      /\ \A i, j \in 1 .. Len(b) : i < j => b[i][1] < b[j][1]
      /\ a[1][1] = 0 /\ b[1][1] = 0
  BY TraceIs
<1>2. /\ n \in Nat /\ n >= 1 /\ n <= Len(a) + 1 /\ n <= Len(b) + 1
      /\ \A m \in 1 .. (n - 1) : m \in 1 .. Len(a) /\ m \in 1 .. Len(b) /\ a[m] = b[m]
  BY SameBefore
<1>3. PICK t : t = Extended(a, e)[n][1] /\ t \in Nat
  BY <1>2, ExtendedTime
<1>4. PICK s : s = Extended(b, e)[n][1] /\ s \in Nat /\ t <= s /\ s <= e
  BY <1>2, <1>3, ExtendedTime
<1>in. n \in 1 .. (Len(a) + 1) /\ n \in 1 .. (Len(b) + 1)
  BY DEF Parted
<1>5. n = Len(a) + 1 => t = e /\ s = e /\ Extended(a, e)[n] = << e, a[n - 1][2] >>
  <2>1. n = Len(a) + 1 => Extended(a, e)[n] = << e, a[n - 1][2] >>
    BY <1>in, ExtendedAt
  <2>2. n = Len(a) + 1 => Extended(a, e)[n][1] = e
    BY <2>1
  <2>3. n = Len(a) + 1 => t = e
    BY <1>3, <2>2
  <2>4. t = e => s = e
    BY <1>3, <1>4
  <2>5. QED
    BY <2>1, <2>3, <2>4
<1>6. n = Len(b) + 1 => s = e /\ Extended(b, e)[n] = << e, b[n - 1][2] >>
  BY <1>4, <1>in, ExtendedAt
<1>7. n <= Len(a) => n \in 1 .. Len(a) /\ Extended(a, e)[n] = a[n] /\ a[n][1] = t
  BY <1>3, <1>in, ExtendedAt
<1>8. n <= Len(b) => n \in 1 .. Len(b) /\ Extended(b, e)[n] = b[n] /\ b[n][1] = s
  BY <1>4, <1>in, ExtendedAt
<1>9. n > 1 => /\ n - 1 \in 1 .. Len(a) /\ n - 1 \in 1 .. Len(b) /\ a[n - 1] = b[n - 1]
  BY <1>2
<1>10. n <= Len(a) => ValueAt(a, t) = a[n][2]
  <2>1. SUFFICES ASSUME n <= Len(a) PROVE ValueAt(a, t) = a[n][2]
    OBVIOUS
  <2>2. n \in 1 .. Len(a) /\ a[n][1] <= t
    BY <1>3, <1>7, <2>1
  <2>3. n < Len(a) => t < a[n + 1][1]
    <3>1. n < Len(a) => n + 1 \in 1 .. Len(a) /\ n < n + 1
      BY <1>1, <1>2
    <3>2. n < Len(a) => a[n][1] < a[n + 1][1]
      BY <1>1, <2>2, <3>1
    <3>3. QED
      BY <1>7, <2>1, <3>2
  <2>4. QED
    BY <1>3, <2>2, <2>3, ValueAtIs
<1>11. n <= Len(b) /\ s = t => ValueAt(b, t) = b[n][2]
  <2>1. SUFFICES ASSUME n <= Len(b), s = t PROVE ValueAt(b, t) = b[n][2]
    OBVIOUS
  <2>2. n \in 1 .. Len(b) /\ b[n][1] <= t
    BY <1>3, <1>8, <2>1
  <2>3. n < Len(b) => t < b[n + 1][1]
    <3>1. n < Len(b) => n + 1 \in 1 .. Len(b) /\ n < n + 1
      BY <1>1, <1>2
    <3>2. n < Len(b) => b[n][1] < b[n + 1][1]
      BY <1>1, <2>2, <3>1
    <3>3. QED
      BY <1>8, <2>1, <3>2
  <2>4. QED
    BY <1>3, <2>2, <2>3, ValueAtIs
\* b has not changed yet
<1>12. n > 1 /\ a[n - 1][1] <= t /\ (n <= Len(b) => t < s) => ValueAt(b, t) = b[n - 1][2]
  <2>1. SUFFICES ASSUME n > 1, a[n - 1][1] <= t, n <= Len(b) => t < s
                 PROVE  ValueAt(b, t) = b[n - 1][2]
    OBVIOUS
  <2>2. n - 1 \in 1 .. Len(b) /\ b[n - 1][1] <= t
    BY <1>9, <2>1
  <2>3. n - 1 < Len(b) => t < b[(n - 1) + 1][1]
    BY <1>1, <1>2, <1>8, <2>1
  <2>4. QED
    BY <1>3, <2>2, <2>3, ValueAtIs
<1>13. n > 1 /\ n = Len(a) + 1 => ValueAt(a, t) = a[n - 1][2]
  <2>1. SUFFICES ASSUME n > 1, n = Len(a) + 1 PROVE ValueAt(a, t) = a[n - 1][2]
    OBVIOUS
  <2>2. n - 1 \in 1 .. Len(a) /\ a[n - 1][1] <= t /\ ~(n - 1 < Len(a))
    BY <1>1, <1>5, <1>9, <2>1
  <2>3. QED
    BY <1>3, <2>2, ValueAtIs
<1>14. ValueAt(a, t) # ValueAt(b, t)
  <2>1. CASE n <= Len(a)
    <3>1. ValueAt(a, t) = a[n][2] /\ a[n] = << t, a[n][2] >> /\ n \in 1 .. Len(a)
      BY <1>1, <1>7, <1>10, <2>1
    <3>2. n > 1 => a[n - 1][1] <= t /\ a[n][2] # a[n - 1][2]
      BY <1>1, <1>7, <1>9, <2>1
    <3>3. CASE n <= Len(b) /\ s = t
      <4>1. b[n] = << t, b[n][2] >> /\ a[n] # b[n]
        BY <1>1, <1>7, <1>8, <2>1, <3>3 DEF Parted
      <4>2. QED
        BY <1>11, <3>1, <3>3, <4>1
    <3>4. CASE ~(n <= Len(b) /\ s = t)
      <4>1. n <= Len(b) => t < s
        BY <1>3, <1>4, <3>4
      <4>2. n > 1
        BY <1>1, <1>2, <1>3, <1>4, <1>7, <1>8, <2>1, <4>1
      <4>3. QED
        BY <1>9, <1>12, <3>1, <3>2, <4>1, <4>2
    <3>5. QED
      BY <3>3, <3>4
  <2>2. CASE n = Len(a) + 1
    <3>1. n > 1 /\ ValueAt(a, t) = a[n - 1][2] /\ s = t
      BY <1>1, <1>5, <1>13, <2>2
    <3>2. n <= Len(b)
      BY <1>2, <1>5, <1>6, <1>9, <2>2, <3>1 DEF Parted
    <3>3. ValueAt(b, t) = b[n][2] /\ b[n][2] # b[n - 1][2]
      BY <1>1, <1>8, <1>11, <3>1, <3>2
    <3>4. QED
      BY <1>9, <3>1, <3>3
  <2>3. QED
    BY <1>1, <1>2, <2>1, <2>2
<1>15. QED
  BY <1>3, <1>14

(* Two traces of one end that never part are of the same length, ... *)
LEMMA NotLonger ==
  ASSUME NEW e \in Nat, NEW a, NEW b, IsTrace(a, e), IsTrace(b, e),
         \A n \in (1 .. (Len(a) + 1)) \cap (1 .. (Len(b) + 1)) : Extended(a, e)[n] = Extended(b, e)[n]
  PROVE  Len(b) <= Len(a)
<1>1. /\ Len(a) \in Nat /\ Len(b) \in Nat /\ Len(a) >= 1
      /\ \A i \in 1 .. Len(b) : i > 1 => b[i][2] # b[i - 1][2]
  BY TraceIs
<1>2. SUFFICES ASSUME Len(a) < Len(b) PROVE FALSE
  BY <1>1
<1>3. PICK n \in Nat : n = Len(a) + 1
  BY <1>1
<1>4. n \in 1 .. (Len(a) + 1) /\ n \in 1 .. (Len(b) + 1) /\ n > 1 /\ n <= Len(b) /\ n \in 1 .. Len(b)
  BY <1>1, <1>2, <1>3
<1>5. Extended(a, e)[n] = << e, a[n - 1][2] >> /\ Extended(b, e)[n] = b[n]
  BY <1>3, <1>4, ExtendedAt
<1>6. b[n][2] = a[n - 1][2]
  BY <1>4, <1>5
<1>7. n - 1 \in 1 .. Len(a) /\ n - 1 \in 1 .. Len(b)
  BY <1>1, <1>3, <1>4
<1>8. a[n - 1] = b[n - 1]
  <2>1. n - 1 \in (1 .. (Len(a) + 1)) \cap (1 .. (Len(b) + 1))
    BY <1>1, <1>7
  <2>2. Extended(a, e)[n - 1] = a[n - 1]
    BY <1>7, ExtendedIs
  <2>3. Extended(b, e)[n - 1] = b[n - 1]
    BY <1>7, ExtendedIs
  <2>4. QED
    BY <2>1, <2>2, <2>3
<1>9. QED
  BY <1>1, <1>4, <1>6, <1>8

(* ... and have the same values for good. *)
LEMMA NeverParted ==
  ASSUME NEW e \in Nat, NEW a, NEW b, IsTrace(a, e), IsTrace(b, e),
         \A n \in (1 .. (Len(a) + 1)) \cap (1 .. (Len(b) + 1)) : Extended(a, e)[n] = Extended(b, e)[n],
         NEW u \in Nat
  PROVE  ValueAt(a, u) = ValueAt(b, u)
<1>1. Len(a) \in Nat /\ Len(b) \in Nat /\ Len(a) = Len(b)
  <2>1. Len(b) <= Len(a)
    BY NotLonger
  <2>2. Len(a) <= Len(b)
    BY NotLonger
  <2>3. QED
    BY <2>1, <2>2, TraceIs
<1>2. ASSUME NEW k \in 1 .. Len(a) PROVE a[k] = b[k]
  <2>1. k \in 1 .. Len(b) /\ k \in (1 .. (Len(a) + 1)) \cap (1 .. (Len(b) + 1))
    BY <1>1
  <2>2. Extended(a, e)[k] = a[k]
    BY ExtendedIs
  <2>3. Extended(b, e)[k] = b[k]
    BY <2>1, ExtendedIs
  <2>4. QED
    BY <2>1, <2>2, <2>3
<1>3. PICK k \in 1 .. Len(a) : a[k][1] <= u /\ \A j \in 1 .. Len(a) : k < j => u < a[j][1]
  BY LastExists
<1>4. k < Len(a) => u < a[k + 1][1] /\ u < b[k + 1][1]
  BY <1>1, <1>2, <1>3
<1>5. ValueAt(a, u) = a[k][2]
  BY <1>3, <1>4, ValueAtIs
<1>6. k \in 1 .. Len(b) /\ b[k][1] <= u /\ (k < Len(b) => u < b[k + 1][1])
  BY <1>1, <1>2, <1>3, <1>4
<1>7. ValueAt(b, u) = b[k][2]
  BY <1>6, ValueAtIs
<1>8. QED
  BY <1>2, <1>5, <1>7

-----------------------------------------------------------------------------
(* The signals *)

(* A name under a prefix is determined by what is left of it. *)
LEMMA UnderPrefix ==
  ASSUME NEW p \in Seq(STRING), NEW s \in Seq(STRING), NEW t \in Seq(STRING),
         IsPrefix(p, s), IsPrefix(p, t),
         SubSeq(s, Len(p) + 1, Len(s)) = SubSeq(t, Len(p) + 1, Len(t))
  PROVE  s = t
<1>1. /\ Len(p) \in Nat /\ Len(s) \in Nat /\ Len(t) \in Nat
      /\ Len(p) <= Len(s) /\ Len(p) <= Len(t)
      /\ SubSeq(p, 1, Len(p)) = SubSeq(s, 1, Len(p)) /\ SubSeq(p, 1, Len(p)) = SubSeq(t, 1, Len(p))
  BY LenProperties DEF IsPrefix
<1>2. ASSUME NEW q \in Seq(STRING), Len(p) <= Len(q)
      PROVE  /\ Len(SubSeq(q, Len(p) + 1, Len(q))) = Len(q) - Len(p)
             /\ \A i \in 1 .. Len(q) : i > Len(p) =>
                  q[i] = SubSeq(q, Len(p) + 1, Len(q))[i - Len(p)]
             /\ \A i \in 1 .. Len(p) : SubSeq(q, 1, Len(p))[i] = q[i]
  <2>1. Len(q) \in Nat /\ \A i \in 1 .. Len(q) : q[i] \in STRING
    BY ElementOfSeq, LenProperties
  <2>2. PICK m \in Int : m = Len(p) + 1 /\ m >= 1
    BY <1>1
  <2>3. /\ Len(SubSeq(q, m, Len(q))) = IF m <= Len(q) THEN Len(q) - m + 1 ELSE 0
        /\ \A i \in 1 .. (Len(q) - m + 1) : SubSeq(q, m, Len(q))[i] = q[m + i - 1]
    BY <2>1, <2>2, SubSeqProperties
  <2>4. \A i \in 1 .. Len(p) : SubSeq(q, 1, Len(p))[i] = q[i]
    BY <1>1, <1>2, <2>1, SubSeqProperties
  <2>5. Len(SubSeq(q, m, Len(q))) = Len(q) - Len(p)
    BY <1>1, <1>2, <2>1, <2>2, <2>3
  <2>6. ASSUME NEW i \in 1 .. Len(q), i > Len(p)
        PROVE  q[i] = SubSeq(q, m, Len(q))[i - Len(p)]
    <3>1. i - Len(p) \in 1 .. (Len(q) - m + 1) /\ m + (i - Len(p)) - 1 = i
      BY <1>1, <2>1, <2>2, <2>6
    <3>2. QED
      BY <2>3, <3>1
  <2>7. QED
    BY <2>2, <2>4, <2>5, <2>6
<1>3. Len(s) = Len(t)
  <2>1. Len(s) - Len(p) = Len(t) - Len(p)
    BY <1>1, <1>2
  <2>2. QED
    BY <1>1, <2>1
<1>4. ASSUME NEW i \in 1 .. Len(s) PROVE s[i] = t[i]
  <2>1. CASE i > Len(p)
    BY <1>1, <1>2, <1>3, <2>1
  <2>2. CASE ~(i > Len(p))
    <3>1. i \in 1 .. Len(p)
      BY <1>1, <2>2
    <3>2. s[i] = SubSeq(s, 1, Len(p))[i] /\ t[i] = SubSeq(t, 1, Len(p))[i]
      BY <1>1, <1>2, <3>1
    <3>3. QED
      BY <1>1, <3>2
  <2>3. QED
    BY <2>1, <2>2
<1>5. QED
  BY <1>3, <1>4, SeqEqual

TypeInv == files \in Inputs /\ opts \in Options

LEMMA SelectedIs ==
  ASSUME NEW x \in Selected
  PROVE  /\ x = << x[1], x[2], x[3] >>
         /\ x[2] \in DOMAIN files[1].sigs /\ x[3] \in DOMAIN files[2].sigs
         /\ IsPrefix(opts.top1, x[2]) /\ x[1] = SubSeq(x[2], Len(opts.top1) + 1, Len(x[2]))
         /\ IsPrefix(opts.top2, x[3]) /\ x[1] = SubSeq(x[3], Len(opts.top2) + 1, Len(x[3]))
<1>1. PICK p1 \in filter_signals(DOMAIN files[1].sigs, opts.top1),
           p2 \in filter_signals(DOMAIN files[2].sigs, opts.top2) :
             p1[1] = p2[1] /\ x = << p1[1], p1[2], p2[2] >>
  BY DEF Selected, CommonSignals
<1>2. \A S, p : \A q \in filter_signals(S, p) :
        q[2] \in S /\ IsPrefix(p, q[2]) /\ q[1] = SubSeq(q[2], Len(p) + 1, Len(q[2]))
  BY DEF filter_signals
<1>3. x[1] = p1[1] /\ x[2] = p1[2] /\ x[3] = p2[2]
  BY <1>1
<1>4. /\ p1[2] \in DOMAIN files[1].sigs /\ IsPrefix(opts.top1, p1[2])
      /\ p1[1] = SubSeq(p1[2], Len(opts.top1) + 1, Len(p1[2]))
  BY <1>2
<1>5. /\ p2[2] \in DOMAIN files[2].sigs /\ IsPrefix(opts.top2, p2[2])
      /\ p2[1] = SubSeq(p2[2], Len(opts.top2) + 1, Len(p2[2]))
  BY <1>2
<1>6. QED
  BY <1>1, <1>3, <1>4, <1>5

(* No two of the signals compared have the same name. *)
LEMMA NamesDiffer ==
  ASSUME TypeInv, NEW x \in Selected, NEW y \in Selected, x[1] = y[1] \/ x[2] = y[2]
  PROVE  x = y
<1>1. opts.top1 \in Seq(STRING) /\ opts.top2 \in Seq(STRING)
  BY OptionsAssumption DEF TypeInv
<1>2. ASSUME NEW z \in Selected
      PROVE  /\ z[2] \in Seq(STRING) /\ z[3] \in Seq(STRING) /\ z = << z[1], z[2], z[3] >>
             /\ IsPrefix(opts.top1, z[2]) /\ z[1] = SubSeq(z[2], Len(opts.top1) + 1, Len(z[2]))
             /\ IsPrefix(opts.top2, z[3]) /\ z[1] = SubSeq(z[3], Len(opts.top2) + 1, Len(z[3]))
  <2>1. DOMAIN files[1].sigs \subseteq Seq(STRING) /\ DOMAIN files[2].sigs \subseteq Seq(STRING)
    BY InputsAssumption DEF TypeInv
  <2>2. QED
    BY <2>1, SelectedIs
<1>3. x[1] = y[1]
  <2>1. CASE x[2] = y[2]
    <3>1. x[1] = SubSeq(x[2], Len(opts.top1) + 1, Len(x[2]))
      BY <1>2
    <3>2. y[1] = SubSeq(y[2], Len(opts.top1) + 1, Len(y[2]))
      BY <1>2
    <3>3. QED
      BY <2>1, <3>1, <3>2
  <2>2. QED
    BY <2>1
<1>4. x[2] = y[2]
  <2>1. SubSeq(x[2], Len(opts.top1) + 1, Len(x[2])) = SubSeq(y[2], Len(opts.top1) + 1, Len(y[2]))
    BY <1>2, <1>3
  <2>2. /\ x[2] \in Seq(STRING) /\ y[2] \in Seq(STRING)
        /\ IsPrefix(opts.top1, x[2]) /\ IsPrefix(opts.top1, y[2])
    BY <1>2
  <2>3. QED
    BY <1>1, <2>1, <2>2, UnderPrefix
<1>5. x[3] = y[3]
  <2>1. SubSeq(x[3], Len(opts.top2) + 1, Len(x[3])) = SubSeq(y[3], Len(opts.top2) + 1, Len(y[3]))
    BY <1>2, <1>3
  <2>2. /\ x[3] \in Seq(STRING) /\ y[3] \in Seq(STRING)
        /\ IsPrefix(opts.top2, x[3]) /\ IsPrefix(opts.top2, y[3])
    BY <1>2
  <2>3. QED
    BY <1>1, <2>1, <2>2, UnderPrefix
<1>6. QED
  BY <1>2, <1>3, <1>4, <1>5

LEMMA SelectedFinite ==
  ASSUME TypeInv
  PROVE  IsFiniteSet(Selected)
<1> DEFINE f == [x \in Selected |-> x[2]]
<1>1. IsFiniteSet(DOMAIN files[1].sigs)
  BY InputsAssumption DEF TypeInv
<1>2. f \in [Selected -> DOMAIN files[1].sigs]
  BY SelectedIs
<1>3. \A x, y \in Selected : f[x] = f[y] => x = y
  BY NamesDiffer
<1>4. f \in Injection(Selected, DOMAIN files[1].sigs)
  BY <1>2, <1>3 DEF Injection, IsInjective
<1>5. QED
  BY <1>1, <1>4, FS_Injection

-----------------------------------------------------------------------------
(* Comparing one signal *)

EndTime == IF files[1].end > files[2].end THEN files[1].end ELSE files[2].end

LEMMA EndTimeIs ==
  ASSUME TypeInv
  PROVE  /\ EndTime \in Nat /\ (EndTime = files[1].end \/ EndTime = files[2].end)
         /\ files[1].end \in Nat /\ files[2].end \in Nat
         /\ files[1].end <= EndTime /\ files[2].end <= EndTime
  BY InputsAssumption DEF TypeInv, EndTime

LEMMA SignalIs ==
  ASSUME TypeInv, NEW x \in Selected
  PROVE  IsTrace(files[1].sigs[x[2]], EndTime) /\ IsTrace(files[2].sigs[x[3]], EndTime)
<1>1. x[2] \in DOMAIN files[1].sigs /\ x[3] \in DOMAIN files[2].sigs
  BY SelectedIs
<1>2. /\ IsTrace(files[1].sigs[x[2]], files[1].end) /\ files[1].end \in Nat
      /\ IsTrace(files[2].sigs[x[3]], files[2].end) /\ files[2].end \in Nat
  BY <1>1, InputsAssumption DEF TypeInv
<1>3. ASSUME NEW tv, NEW e \in Nat, IsTrace(tv, e), e <= EndTime
      PROVE  IsTrace(tv, EndTime)
  <2>1. \A i \in DOMAIN tv : tv[i][1] \in Nat /\ tv[i][1] <= e
    BY <1>3, TraceIs
  <2>2. \A i \in DOMAIN tv : tv[i][1] <= EndTime
    BY <1>3, <2>1, EndTimeIs
  <2>3. QED
    BY <1>3, <2>2 DEF IsTrace
<1>4. QED
  BY <1>2, <1>3, EndTimeIs

(* What is compared of a signal: times from --after to the end. *)
LEMMA ChangesAre ==
  ASSUME TypeInv, NEW tv, IsTrace(tv, EndTime)
  PROVE  /\ DOMAIN Changes(tv) \subseteq Nat
         /\ \A n \in DOMAIN Changes(tv) : /\ Changes(tv)[n][1] \in Nat
                                          /\ opts.after <= Changes(tv)[n][1]
                                          /\ Changes(tv)[n][1] <= EndTime
<1> DEFINE all == Extended(tv, EndTime)
           kept == { n \in DOMAIN all : all[n][1] >= opts.after }
<1>1. opts.after \in Nat /\ EndTime \in Nat
  BY OptionsAssumption, EndTimeIs DEF TypeInv
<1>2. Changes(tv) = IF opts.after = 0 THEN all
                    ELSE IF kept = {} THEN << >> ELSE SubSeq(all, Least(kept), Len(all))
  BY DEF Changes, skip_time, Extended, EndTime, Least
<1>3. /\ Len(tv) \in Nat /\ all \in Seq(Nat \X Values)
      /\ Len(all) = Len(tv) + 1 /\ DOMAIN all = 1 .. Len(all)
  BY <1>1, TraceIs, ExtendedIs
<1>4. \A n \in 1 .. Len(all) : all[n][1] \in Nat /\ all[n][1] <= EndTime
  BY <1>1, <1>3, ExtendedTime
<1>5. \A n, m \in 1 .. Len(all) : n < m => all[n][1] <= all[m][1]
  BY <1>1, <1>3, ExtendedTime
<1>6. CASE opts.after = 0
  BY <1>2, <1>3, <1>4, <1>6
<1>7. CASE opts.after # 0 /\ kept = {}
  BY <1>2, <1>7
<1>8. CASE opts.after # 0 /\ kept # {}
  <2>1. kept \in SUBSET Nat
    BY <1>3
  <2>2. PICK m : m = Least(kept) /\ m \in kept
    BY <1>8, <2>1, LeastIs
  <2>3. m \in 1 .. Len(all) /\ m \in Int /\ Len(all) \in Int /\ opts.after <= all[m][1]
    BY <1>1, <1>3, <1>4, <2>2
  <2>4. \A i \in m .. Len(all) : all[i] \in Nat \X Values
    BY <1>3, <2>3, ElementOfSeq
  <2>5. /\ SubSeq(all, m, Len(all)) \in Seq(Nat \X Values)
        /\ Len(SubSeq(all, m, Len(all))) = Len(all) - m + 1
        /\ \A i \in 1 .. (Len(all) - m + 1) : SubSeq(all, m, Len(all))[i] = all[m + i - 1]
    BY <2>3, <2>4, SubSeqProperties
  <2>6. Changes(tv) = SubSeq(all, m, Len(all))
    BY <1>2, <1>8, <2>2
  <2>7. DOMAIN Changes(tv) = 1 .. (Len(all) - m + 1)
    BY <2>5, <2>6, LenProperties
  <2>8. ASSUME NEW n \in 1 .. (Len(all) - m + 1)
        PROVE  /\ Changes(tv)[n][1] \in Nat /\ opts.after <= Changes(tv)[n][1]
               /\ Changes(tv)[n][1] <= EndTime
    <3>1. PICK i \in 1 .. Len(all) : i = m + n - 1 /\ m <= i
      BY <1>3, <2>3
    <3>2. Changes(tv)[n] = all[i]
      BY <2>5, <2>6, <3>1
    <3>3. all[m][1] <= all[i][1]
      <4>1. CASE m = i
        BY <1>4, <4>1
      <4>2. CASE m < i
        BY <1>5, <2>3, <4>2
      <4>3. QED
        BY <2>3, <3>1, <4>1, <4>2
    <3>4. QED
      BY <1>1, <1>4, <2>3, <3>1, <3>2, <3>3
  <2>9. QED
    BY <1>3, <2>3, <2>7, <2>8
<1>9. QED
  BY <1>6, <1>7, <1>8

Tv1(x) == files[1].sigs[x[2]]
Tv2(x) == files[2].sigs[x[3]]

(* The time at which the loop over the pairs of a signal leaves. *)
StopTime(x) ==
  LET n == Least(Stops(Tv1(x), Tv2(x)))
  IN  PairTime(Changes(Tv1(x))[n], Changes(Tv2(x))[n])

MismatchOf(x, t) ==
  [t |-> t, v1 |-> ValueAt(Tv1(x), t), v2 |-> ValueAt(Tv2(x), t), name |-> x[1]]

Noted(x) ==
  Stops(Tv1(x), Tv2(x)) # {} /\ ~(opts.before # 0 /\ StopTime(x) > opts.before)

(* What the loop leaves with is a difference in the window. *)
LEMMA NotedIsReal ==
  ASSUME TypeInv, NEW x \in Selected, Noted(x)
  PROVE  /\ StopTime(x) \in Nat /\ StopTime(x) <= EndTime
         /\ InWindow(StopTime(x)) /\ Differs(x, StopTime(x))
<1> DEFINE a == Tv1(x)
           b == Tv2(x)
<1>1. IsTrace(a, EndTime) /\ IsTrace(b, EndTime)
  BY SignalIs DEF Tv1, Tv2
<1>2. Stops(a, b) \in SUBSET Nat
  BY <1>1, ChangesAre DEF Stops
<1>3. PICK n : n = Least(Stops(a, b)) /\ n \in Stops(a, b)
  BY <1>2, LeastIs DEF Noted
<1>4. n \in DOMAIN Changes(a) /\ n \in DOMAIN Changes(b)
  BY <1>3 DEF Stops
<1>5. PICK t : t = PairTime(Changes(a)[n], Changes(b)[n])
  OBVIOUS
<1>6. t = StopTime(x)
  BY <1>3, <1>5 DEF StopTime
<1>7. t \in Nat /\ t <= EndTime /\ opts.after <= t
  <2>1. /\ Changes(a)[n][1] \in Nat /\ opts.after <= Changes(a)[n][1] /\ Changes(a)[n][1] <= EndTime
    BY <1>1, <1>4, ChangesAre
  <2>2. /\ Changes(b)[n][1] \in Nat /\ opts.after <= Changes(b)[n][1] /\ Changes(b)[n][1] <= EndTime
    BY <1>1, <1>4, ChangesAre
  <2>3. QED
    BY <1>5, <2>1, <2>2 DEF PairTime
<1>8. ~(opts.before # 0 /\ t > opts.before)
  BY <1>6 DEF Noted
<1>9. ValueAt(a, t) # ValueAt(b, t)
  BY <1>3, <1>5, <1>8 DEF Stops
<1>10. InWindow(t)
  BY <1>7, <1>8, OptionsAssumption DEF InWindow, TypeInv
<1>11. QED
  BY <1>6, <1>7, <1>9, <1>10 DEF Differs, Tv1, Tv2

(* Without --after the loop leaves with the first difference there is. *)
LEMMA FirstIsNoted ==
  ASSUME TypeInv, opts.after = 0, NEW x \in Selected,
         NEW u \in Nat, InWindow(u), Differs(x, u)
  PROVE  Noted(x) /\ StopTime(x) <= u
<1> DEFINE a == Tv1(x)
           b == Tv2(x)
           ea == Extended(a, EndTime)
           eb == Extended(b, EndTime)
           apart == { m \in DOMAIN ea \cap DOMAIN eb : ea[m] # eb[m] }
<1>1. IsTrace(a, EndTime) /\ IsTrace(b, EndTime) /\ EndTime \in Nat
  BY SignalIs, EndTimeIs DEF Tv1, Tv2
<1>2. ValueAt(a, u) # ValueAt(b, u)
  BY DEF Differs, Tv1, Tv2
<1>3. Changes(a) = ea /\ Changes(b) = eb
  BY DEF Changes, skip_time, Extended, EndTime
<1>4. DOMAIN ea = 1 .. (Len(a) + 1) /\ DOMAIN eb = 1 .. (Len(b) + 1)
  BY <1>1, ExtendedIs
<1>5. apart # {}
  <2>1. SUFFICES ASSUME apart = {} PROVE FALSE
    OBVIOUS
  <2>2. \A n \in (1 .. (Len(a) + 1)) \cap (1 .. (Len(b) + 1)) : ea[n] = eb[n]
    BY <1>4, <2>1
  <2>3. QED
    BY <1>1, <1>2, <2>2, NeverParted
<1>6. Len(a) \in Nat /\ Len(b) \in Nat /\ apart \in SUBSET Nat
  BY <1>1, <1>4, TraceIs
<1>7. PICK n : n = Least(apart) /\ n \in apart /\ \A m \in apart : n <= m
  BY <1>5, <1>6, LeastIs
<1>8. Parted(a, b, EndTime, n)
  <2>1. ASSUME NEW m \in 1 .. (n - 1)
        PROVE  ea[m] = eb[m]
    <3>1. m \in DOMAIN ea \cap DOMAIN eb /\ ~(n <= m)
      BY <1>4, <1>6, <1>7
    <3>2. QED
      BY <1>7, <3>1
  <2>2. QED
    BY <1>4, <1>7, <2>1 DEF Parted
<1>9. ea[n][1] \in Nat /\ eb[n][1] \in Nat
  BY <1>1, <1>4, <1>7, ExtendedTime
<1>10. PICK t \in Nat : t = PairTime(ea[n], eb[n])
  BY <1>9 DEF PairTime
<1>11. t <= u
  <2>1. ~(u < ea[n][1] /\ u < eb[n][1])
    BY <1>1, <1>2, <1>8, EqualBefore
  <2>2. QED
    BY <1>9, <1>10, <2>1 DEF PairTime
<1>12. ValueAt(a, t) # ValueAt(b, t)
  <2>1. CASE ea[n][1] <= eb[n][1]
    BY <1>1, <1>8, <1>10, <2>1, ApartFrom DEF PairTime
  <2>2. CASE eb[n][1] <= ea[n][1] /\ ~(ea[n][1] <= eb[n][1])
    <3>1. Parted(b, a, EndTime, n)
      BY <1>8, SymmetricParted
    <3>2. ValueAt(b, eb[n][1]) # ValueAt(a, eb[n][1])
      BY <1>1, <2>2, <3>1, ApartFrom
    <3>3. QED
      BY <1>10, <2>2, <3>2 DEF PairTime
  <2>3. QED
    BY <1>9, <2>1, <2>2
<1>13. n \in Stops(a, b) /\ Stops(a, b) \subseteq apart
  BY <1>3, <1>7, <1>10, <1>12 DEF Stops
<1>14. Least(Stops(a, b)) = n
  <2>1. Stops(a, b) \in SUBSET Nat /\ Stops(a, b) # {}
    BY <1>6, <1>13
  <2>2. PICK l : /\ l = Least(Stops(a, b)) /\ l \in Stops(a, b)
                 /\ \A m \in Stops(a, b) : l <= m
    BY <2>1, LeastIs
  <2>3. l <= n /\ n <= l /\ l \in Nat /\ n \in Nat
    BY <1>6, <1>7, <1>13, <2>2
  <2>4. QED
    BY <2>2, <2>3
<1>15. StopTime(x) = t
  BY <1>3, <1>10, <1>14 DEF StopTime
<1>16. ~(opts.before # 0 /\ t > opts.before)
  BY <1>11, OptionsAssumption DEF InWindow, TypeInv
<1>17. QED
  BY <1>11, <1>13, <1>15, <1>16 DEF Noted

-----------------------------------------------------------------------------
(* The invariant *)

Left(x) == \E n \in DOMAIN common_signals : common_signals[n] = x

Mismatches == { MismatchOf(x, t) : x \in Selected, t \in Nat }

(* The signals still to compare, each of them once. *)
SignalsInv ==
  pc = "compare" => common_signals \in Seq(Selected) /\ IsInjective(common_signals)

(* The signals that have been compared. *)
Seen == { x \in Selected : pc = "compare" => ~Left(x) }

(* Every one of the mismatches is real and is that of a signal of D, no signal has *)
(* two, and all are of one time.                                                   *)
Real(mismatches, D) ==
  /\ mismatches \in Seq(Mismatches)
  /\ \A n \in 1 .. Len(mismatches) :
       /\ mismatches[n].t = mismatches[1].t
       /\ mismatches[n].t <= EndTime /\ InWindow(mismatches[n].t)
       /\ \E x \in D : /\ mismatches[n] = MismatchOf(x, mismatches[n].t)
                       /\ Differs(x, mismatches[n].t)
  /\ \A n, m \in 1 .. Len(mismatches) : mismatches[n].name = mismatches[m].name => n = m

(* No difference of a signal of D is earlier than the mismatches, and those at *)
(* their time are among them.                                                  *)
First(mismatches, D) ==
  \A x \in D, u \in Nat :
    InWindow(u) /\ Differs(x, u) =>
      /\ mismatches # << >> /\ mismatches[1].t <= u
      /\ mismatches[1].t = u =>
           \E n \in 1 .. Len(mismatches) : mismatches[n] = MismatchOf(x, u)

RealInv == Real(earliest_mismatches, Seen)

FirstInv ==
  opts.after = 0 /\ (pc = "compare" \/ Compared) => First(earliest_mismatches, Seen)

DoneInv ==
  /\ pc \in {"start", "compare", "done"}
  /\ pc = "start" => earliest_mismatches = << >>
  /\ Compared => /\ printed = earliest_mismatches
                 /\ code = IF earliest_mismatches # << >> THEN 1 ELSE 0

IInv == TypeInv /\ SignalsInv /\ RealInv /\ FirstInv /\ DoneInv

(* What comparing x makes of the mismatches held. *)
After(x) == IF Noted(x) THEN Note(MismatchOf(x, StopTime(x))) ELSE earliest_mismatches

LEMMA HeldAre ==
  ASSUME NEW s \in Seq(Mismatches)
  PROVE  /\ Len(s) \in Nat /\ (s # << >> <=> Len(s) >= 1)
         /\ \A n \in 1 .. Len(s) : s[n] \in Mismatches /\ s[n].t \in Nat
<1>1. Len(s) \in Nat /\ (s # << >> <=> Len(s) >= 1)
  BY LenProperties, EmptySeq
<1>2. ASSUME NEW n \in 1 .. Len(s) PROVE s[n] \in Mismatches /\ s[n].t \in Nat
  <2>1. s[n] \in Mismatches
    BY ElementOfSeq
  <2>2. QED
    BY <2>1 DEF Mismatches, MismatchOf
<1>3. QED
  BY <1>1, <1>2

LEMMA NoteIs ==
  ASSUME earliest_mismatches \in Seq(Mismatches), NEW m \in Mismatches
  PROVE  \/ /\ earliest_mismatches # << >> /\ m.t < earliest_mismatches[1].t
            /\ Note(m) = << m >>
         \/ /\ earliest_mismatches = << >> \/ m.t = earliest_mismatches[1].t
            /\ Note(m) = Append(earliest_mismatches, m)
         \/ /\ earliest_mismatches # << >> /\ earliest_mismatches[1].t < m.t
            /\ Note(m) = earliest_mismatches
<1>1. m.t \in Nat
  BY DEF Mismatches, MismatchOf
<1>2. earliest_mismatches # << >> => earliest_mismatches[1].t \in Nat
  BY HeldAre
<1>3. QED
  BY <1>1, <1>2 DEF Note

LEMMA NotedMismatch ==
  ASSUME TypeInv, NEW x \in Selected, Noted(x)
  PROVE  \E m \in Mismatches : /\ m = MismatchOf(x, StopTime(x))
                               /\ m.t = StopTime(x) /\ m.name = x[1]
                               /\ m.t \in Nat /\ m.t <= EndTime /\ InWindow(m.t) /\ Differs(x, m.t)
<1>1. StopTime(x) \in Nat
  BY NotedIsReal
<1>2. MismatchOf(x, StopTime(x)) \in Mismatches
  BY <1>1 DEF Mismatches
<1>3. MismatchOf(x, StopTime(x)).t = StopTime(x) /\ MismatchOf(x, StopTime(x)).name = x[1]
  BY DEF MismatchOf
<1>4. QED
  BY <1>2, <1>3, NotedIsReal

LEMMA AfterIsReal ==
  ASSUME TypeInv, NEW D \in SUBSET Selected, Real(earliest_mismatches, D),
         NEW x \in Selected, x \notin D
  PROVE  Real(After(x), D \cup {x})
<1> DEFINE em == earliest_mismatches
<1>1. em \in Seq(Mismatches)
  BY DEF Real
<1>2. CASE ~Noted(x)
  BY <1>2 DEF After, Real
<1>3. CASE Noted(x)
  <2>1. PICK m \in Mismatches :
          /\ m = MismatchOf(x, StopTime(x)) /\ m.t = StopTime(x) /\ m.name = x[1]
          /\ m.t \in Nat /\ m.t <= EndTime /\ InWindow(m.t) /\ Differs(x, m.t)
    BY <1>3, NotedMismatch
  <2>2. After(x) = Note(m)
    BY <1>3, <2>1 DEF After
  <2>3. CASE Note(m) = << m >>
    BY <2>1, <2>2, <2>3 DEF Real
  <2>4. CASE Note(m) = em
    BY <2>2, <2>4 DEF Real
  <2>5. CASE Note(m) = Append(em, m) /\ (em = << >> \/ m.t = em[1].t)
    <3>1. /\ Append(em, m) \in Seq(Mismatches) /\ Len(Append(em, m)) = Len(em) + 1
          /\ \A n \in 1 .. Len(em) : Append(em, m)[n] = em[n]
          /\ Append(em, m)[Len(em) + 1] = m
      BY <1>1, AppendProperties
    <3>2. PICK s : s = Append(em, m)
      OBVIOUS
    <3>3. Len(em) \in Nat /\ (em # << >> <=> Len(em) >= 1)
      BY <1>1, HeldAre
    <3>4. \A n \in 1 .. Len(s) : (n \in 1 .. Len(em) /\ s[n] = em[n]) \/ (n = Len(em) + 1 /\ s[n] = m)
      BY <3>1, <3>2, <3>3
    <3>5. s[1].t = m.t
      BY <2>5, <3>1, <3>2, <3>3
    <3>6. ASSUME NEW n \in 1 .. Len(em)
          PROVE  em[n].name # m.name
      <4>1. PICK y \in D : em[n] = MismatchOf(y, em[n].t)
        BY DEF Real
      <4>2. em[n].name = y[1]
        BY <4>1 DEF MismatchOf
      <4>3. y[1] # x[1]
        BY NamesDiffer
      <4>4. QED
        BY <2>1, <4>2, <4>3
    <3>7. ASSUME NEW n \in 1 .. Len(s)
          PROVE  /\ s[n].t = s[1].t /\ s[n].t <= EndTime /\ InWindow(s[n].t)
                 /\ \E y \in D \cup {x} : s[n] = MismatchOf(y, s[n].t) /\ Differs(y, s[n].t)
      <4>1. CASE n \in 1 .. Len(em) /\ s[n] = em[n]
        <5>1. em[1].t = m.t
          BY <2>5, <3>3, <4>1
        <5>2. QED
          BY <3>5, <4>1, <5>1 DEF Real
      <4>2. CASE s[n] = m
        BY <2>1, <3>5, <4>2
      <4>3. QED
        BY <3>4, <4>1, <4>2
    <3>8. ASSUME NEW n \in 1 .. Len(s), NEW k \in 1 .. Len(s), s[n].name = s[k].name
          PROVE  n = k
      <4>1. CASE n \in 1 .. Len(em) /\ s[n] = em[n] /\ k \in 1 .. Len(em) /\ s[k] = em[k]
        BY <3>8, <4>1 DEF Real
      <4>2. CASE n = Len(em) + 1 /\ s[n] = m
        BY <3>4, <3>6, <3>8, <4>2
      <4>3. CASE k = Len(em) + 1 /\ s[k] = m
        BY <3>4, <3>6, <3>8, <4>3
      <4>4. QED
        BY <3>4, <4>1, <4>2, <4>3
    <3>9. QED
      BY <2>2, <2>5, <3>1, <3>2, <3>7, <3>8 DEF Real
  <2>6. QED
    BY <1>1, <2>3, <2>4, <2>5, NoteIs
<1>4. QED
  BY <1>2, <1>3

LEMMA AfterIsFirst ==
  ASSUME TypeInv, NEW D \in SUBSET Selected, Real(earliest_mismatches, D),
         First(earliest_mismatches, D), opts.after = 0, NEW x \in Selected
  PROVE  First(After(x), D \cup {x})
<1> DEFINE em == earliest_mismatches
<1>1. em \in Seq(Mismatches)
  BY DEF Real
<1>2. CASE ~Noted(x)
  BY <1>2, FirstIsNoted DEF After, First
<1>3. CASE Noted(x)
  <2>1. PICK m \in Mismatches :
          /\ m = MismatchOf(x, StopTime(x)) /\ m.t = StopTime(x) /\ m.t \in Nat
    BY <1>3, NotedMismatch
  <2>2. After(x) = Note(m)
    BY <1>3, <2>1 DEF After
  <2>3. ASSUME NEW u \in Nat, InWindow(u), Differs(x, u) PROVE m.t <= u
    BY <2>1, <2>3, FirstIsNoted
  <2>4. em # << >> => em[1].t \in Nat
    BY <1>1, HeldAre
  <2>5. SUFFICES ASSUME NEW y \in D \cup {x}, NEW u \in Nat, InWindow(u), Differs(y, u)
                 PROVE  /\ Note(m) # << >> /\ Note(m)[1].t <= u
                        /\ Note(m)[1].t = u =>
                             \E n \in 1 .. Len(Note(m)) : Note(m)[n] = MismatchOf(y, u)
    BY <2>2 DEF First
  <2>6. y \in D => /\ em # << >> /\ em[1].t <= u
                   /\ em[1].t = u => \E n \in 1 .. Len(em) : em[n] = MismatchOf(y, u)
    BY <2>5 DEF First
  <2>7. y = x => m.t <= u /\ (m.t = u => m = MismatchOf(y, u))
    BY <2>1, <2>3, <2>5
  <2>8. CASE em # << >> /\ m.t < em[1].t /\ Note(m) = << m >>
    BY <2>1, <2>4, <2>5, <2>6, <2>7, <2>8
  <2>9. CASE em # << >> /\ em[1].t < m.t /\ Note(m) = em
    BY <2>1, <2>4, <2>5, <2>6, <2>7, <2>9
  <2>10. CASE (em = << >> \/ m.t = em[1].t) /\ Note(m) = Append(em, m)
    <3>1. PICK s : s = Append(em, m)
      OBVIOUS
    <3>2. /\ s \in Seq(Mismatches) /\ Len(s) = Len(em) + 1 /\ Len(em) \in Nat
          /\ \A n \in 1 .. Len(em) : s[n] = em[n]
          /\ s[Len(em) + 1] = m /\ (em # << >> <=> Len(em) >= 1)
      BY <1>1, <3>1, AppendProperties, HeldAre
    <3>3. s # << >> /\ s[1].t = m.t
      <4>1. s # << >>
        BY <3>2, HeldAre
      <4>2. CASE em = << >>
        <5>1. Len(em) + 1 = 1
          BY <3>2, <4>2
        <5>2. QED
          BY <3>2, <4>1, <5>1
      <4>3. CASE em # << >>
        BY <2>10, <3>2, <4>1, <4>3
      <4>4. QED
        BY <4>1, <4>2, <4>3
    <3>4. CASE y \in D
      <4>1. em[1].t = m.t /\ m.t <= u
        BY <2>6, <2>10, <3>4
      <4>2. m.t = u => \E n \in 1 .. Len(s) : s[n] = MismatchOf(y, u)
        <5>1. SUFFICES ASSUME m.t = u PROVE \E n \in 1 .. Len(s) : s[n] = MismatchOf(y, u)
          OBVIOUS
        <5>2. PICK n \in 1 .. Len(em) : em[n] = MismatchOf(y, u)
          BY <2>6, <3>4, <4>1, <5>1
        <5>3. n \in 1 .. Len(s) /\ s[n] = em[n]
          BY <3>2
        <5>4. QED
          BY <5>2, <5>3
      <4>3. QED
        BY <2>10, <3>1, <3>3, <4>1, <4>2
    <3>5. CASE y = x
      <4>1. Len(em) + 1 \in 1 .. Len(s)
        BY <3>2
      <4>2. QED
        BY <2>7, <2>10, <3>1, <3>2, <3>3, <3>5, <4>1
    <3>6. QED
      BY <2>5, <3>4, <3>5
  <2>11. QED
    BY <1>1, <2>8, <2>9, <2>10, NoteIs
<1>4. QED
  BY <1>2, <1>3

-----------------------------------------------------------------------------
(* The steps *)

LEMMA InitInv == Init => IInv
<1> SUFFICES ASSUME Init PROVE IInv
  OBVIOUS
<1>1. TypeInv /\ SignalsInv /\ FirstInv /\ DoneInv
  BY DEF Init, TypeInv, SignalsInv, FirstInv, DoneInv, Compared
<1>2. RealInv
  <2>1. << >> \in Seq(Mismatches) /\ Len(<< >>) = 0
    BY EmptySeq
  <2>2. QED
    BY <2>1 DEF Init, RealInv, Real
<1>3. QED
  BY <1>1, <1>2 DEF IInv

(* What is said of files and options stays true. *)
LEMMA Frame ==
  ASSUME UNCHANGED << files, opts >>
  PROVE  /\ Selected' = Selected /\ Mismatches' = Mismatches /\ EndTime' = EndTime
         /\ \A x, u : MismatchOf(x, u)' = MismatchOf(x, u)
         /\ \A x, u : Differs(x, u)' = Differs(x, u)
         /\ \A u : InWindow(u)' = InWindow(u)
  BY DEF Selected, CommonSignals, filter_signals, Mismatches, EndTime, MismatchOf, Tv1, Tv2,
         Differs, InWindow, ValueAt

LEMMA FrameInv ==
  ASSUME UNCHANGED << files, opts >>,
         NEW s, s = earliest_mismatches', NEW D, D = Seen'
  PROVE  /\ Real(s, D) => RealInv'
         /\ First(s, D) => FirstInv'
<1>1. Real(s, D) => RealInv'
  BY Frame DEF RealInv, Real
<1>2. First(s, D) => FirstInv'
  BY Frame DEF FirstInv, First
<1>3. QED
  BY <1>1, <1>2

LEMMA SelectInv ==
  ASSUME IInv, Select
  PROVE  IInv'
<1>1. /\ TypeInv /\ UNCHANGED << files, opts, earliest_mismatches >>
      /\ earliest_mismatches = << >> /\ common_signals' = SetToSeq(Selected)
      /\ pc' = IF opts.list \/ Selected = {} THEN "done" ELSE "compare"
  BY DEF IInv, Select, DoneInv
<1>2. /\ SetToSeq(Selected) \in Seq(Selected) /\ IsInjective(SetToSeq(Selected))
      /\ \A x \in Selected : \E n \in DOMAIN SetToSeq(Selected) : SetToSeq(Selected)[n] = x
  <2>1. IsFiniteSet(Selected)
    BY <1>1, SelectedFinite
  <2>2. /\ SetToSeq(Selected) \in [1 .. Cardinality(Selected) -> Selected]
        /\ Cardinality(Selected) \in Nat /\ IsInjective(SetToSeq(Selected))
        /\ \A x \in Selected : \E n \in 1 .. Cardinality(Selected) : SetToSeq(Selected)[n] = x
    BY <2>1, SetToSeqIs
  <2>3. SetToSeq(Selected) \in Seq(Selected)
    BY <2>2, SeqDef
  <2>4. QED
    BY <2>2, <2>3
<1>3. TypeInv'
  BY <1>1 DEF TypeInv
<1>4. SignalsInv'
  <2>1. Selected' = Selected
    BY <1>1, Frame
  <2>2. QED
    BY <1>1, <1>2, <2>1 DEF SignalsInv
<1>5. PICK D : D = Seen'
  OBVIOUS
<1>6. pc' = "compare" => D = {}
  <2>1. Selected' = Selected
    BY <1>1, Frame
  <2>2. QED
    BY <1>1, <1>2, <1>5, <2>1 DEF Seen, Left
<1>7. RealInv'
  <2>1. Real(<< >>, D)
    BY EmptySeq DEF Real
  <2>2. QED
    BY <1>1, <1>5, <2>1, FrameInv
<1>8. ~Compared'
  <2>1. Selected' = Selected
    BY <1>1, Frame
  <2>2. QED
    BY <1>1, <2>1 DEF Compared
<1>9. FirstInv'
  <2>1. CASE pc' = "compare"
    <3>1. First(<< >>, D)
      BY <1>6, <2>1 DEF First
    <3>2. QED
      BY <1>1, <1>5, <3>1, FrameInv
  <2>2. CASE pc' # "compare"
    BY <1>8, <2>2 DEF FirstInv
  <2>3. QED
    BY <2>1, <2>2
<1>10. DoneInv'
  BY <1>1, <1>8 DEF DoneInv
<1>11. QED
  BY <1>3, <1>4, <1>7, <1>9, <1>10 DEF IInv

(* Taking the head off a sequence without repetitions. *)
LEMMA TailIs ==
  ASSUME NEW S, NEW s \in Seq(S), s # << >>, IsInjective(s)
  PROVE  /\ Head(s) \in S /\ Tail(s) \in Seq(S) /\ IsInjective(Tail(s))
         /\ \E n \in DOMAIN s : s[n] = Head(s)
         /\ \A y : (\E n \in DOMAIN Tail(s) : Tail(s)[n] = y)
                     <=> y # Head(s) /\ \E n \in DOMAIN s : s[n] = y
<1>1. /\ Len(s) \in Nat /\ Len(s) >= 1 /\ DOMAIN s = 1 .. Len(s)
  BY LenProperties, EmptySeq
<1>2. /\ Head(s) \in S /\ Head(s) = s[1] /\ Tail(s) \in Seq(S) /\ Len(Tail(s)) = Len(s) - 1
      /\ \A i \in 1 .. Len(Tail(s)) : Tail(s)[i] = s[i + 1]
  BY HeadTailProperties
<1>3. DOMAIN Tail(s) = 1 .. (Len(s) - 1)
  BY <1>2, LenProperties
<1>4. \A i \in 1 .. (Len(s) - 1) : Tail(s)[i] = s[i + 1] /\ i + 1 \in DOMAIN s /\ i + 1 # 1
  BY <1>1, <1>2
<1>5. \A i \in DOMAIN s : i # 1 => i - 1 \in 1 .. (Len(s) - 1) /\ Tail(s)[i - 1] = s[i]
  BY <1>1, <1>2
<1>6. 1 \in DOMAIN s /\ \A i, j \in DOMAIN s : s[i] = s[j] => i = j
  BY <1>1 DEF IsInjective
<1>7. IsInjective(Tail(s))
  <2>1. ASSUME NEW i \in 1 .. (Len(s) - 1), NEW j \in 1 .. (Len(s) - 1), Tail(s)[i] = Tail(s)[j]
        PROVE  i = j
    <3>1. i + 1 = j + 1
      BY <1>4, <1>6, <2>1
    <3>2. QED
      BY <1>1, <3>1
  <2>2. QED
    BY <1>3, <2>1 DEF IsInjective
<1>8. ASSUME NEW y
      PROVE  (\E n \in DOMAIN Tail(s) : Tail(s)[n] = y)
               <=> y # Head(s) /\ \E n \in DOMAIN s : s[n] = y
  <2>1. ASSUME NEW n \in 1 .. (Len(s) - 1), Tail(s)[n] = y
        PROVE  y # Head(s) /\ \E i \in DOMAIN s : s[i] = y
    BY <1>2, <1>4, <1>6, <2>1
  <2>2. ASSUME y # Head(s), NEW n \in DOMAIN s, s[n] = y
        PROVE  \E i \in 1 .. (Len(s) - 1) : Tail(s)[i] = y
    BY <1>2, <1>5, <2>2
  <2>3. QED
    BY <1>3, <2>1, <2>2
<1>9. QED
  BY <1>2, <1>6, <1>7, <1>8

LEMMA CompareInv ==
  ASSUME IInv, Compare
  PROVE  IInv'
<1> DEFINE x == Head(common_signals)
<1>1. /\ pc = "compare" /\ common_signals # << >> /\ common_signals' = Tail(common_signals)
      /\ UNCHANGED << pc, files, opts, printed, code >> /\ TypeInv
      /\ common_signals \in Seq(Selected) /\ IsInjective(common_signals)
  BY DEF IInv, Compare, SignalsInv
<1>2. /\ x \in Selected /\ Tail(common_signals) \in Seq(Selected)
      /\ IsInjective(Tail(common_signals)) /\ Left(x)
      /\ \A y : Left(y)' <=> y # x /\ Left(y)
  <2>1. /\ x \in Selected /\ Tail(common_signals) \in Seq(Selected)
        /\ IsInjective(Tail(common_signals))
        /\ \E n \in DOMAIN common_signals : common_signals[n] = x
        /\ \A y : (\E n \in DOMAIN Tail(common_signals) : Tail(common_signals)[n] = y)
                    <=> y # x /\ \E n \in DOMAIN common_signals : common_signals[n] = y
    BY <1>1, TailIs
  <2>2. \A y : Left(y)' <=> \E n \in DOMAIN Tail(common_signals) : Tail(common_signals)[n] = y
    BY <1>1 DEF Left
  <2>3. QED
    BY <2>1, <2>2 DEF Left
<1>3. Selected' = Selected
  BY <1>1, Frame
<1>4. earliest_mismatches' = After(x)
  <2>1. /\ Tv1(x) = files[1].sigs[x[2]] /\ Tv2(x) = files[2].sigs[x[3]]
        /\ Least(Stops(Tv1(x), Tv2(x))) = CHOOSE k \in Stops(Tv1(x), Tv2(x)) :
                                            \A j \in Stops(Tv1(x), Tv2(x)) : k <= j
    BY DEF Tv1, Tv2, Least
  <2>2. earliest_mismatches' =
          IF Stops(Tv1(x), Tv2(x)) = {} \/ (opts.before # 0 /\ StopTime(x) > opts.before)
          THEN earliest_mismatches ELSE Note(MismatchOf(x, StopTime(x)))
    BY DEF Compare, Tv1, Tv2, Least, StopTime, MismatchOf
  <2>3. QED
    BY <2>2 DEF After, Noted
<1>5. Seen' = Seen \cup {x} /\ x \notin Seen /\ Seen \in SUBSET Selected
  BY <1>1, <1>2, <1>3 DEF Seen
<1>6. TypeInv' /\ SignalsInv'
  BY <1>1, <1>2, <1>3 DEF TypeInv, SignalsInv
<1>7. RealInv'
  <2>1. Real(After(x), Seen \cup {x})
    BY <1>1, <1>2, <1>5, AfterIsReal DEF IInv, RealInv
  <2>2. QED
    BY <1>1, <1>4, <1>5, <2>1, FrameInv
<1>8. FirstInv'
  <2>1. CASE opts.after = 0
    <3>1. First(After(x), Seen \cup {x})
      BY <1>1, <1>2, <1>5, <2>1, AfterIsFirst DEF IInv, RealInv, FirstInv
    <3>2. QED
      BY <1>1, <1>4, <1>5, <3>1, FrameInv
  <2>2. CASE opts.after # 0
    BY <1>1, <2>2 DEF FirstInv
  <2>3. QED
    BY <2>1, <2>2
<1>9. DoneInv'
  BY <1>1 DEF DoneInv, Compared
<1>10. QED
  BY <1>6, <1>7, <1>8, <1>9 DEF IInv

LEMMA ReportInv ==
  ASSUME IInv, Report
  PROVE  IInv'
<1>1. /\ pc = "compare" /\ pc' = "done" /\ common_signals = << >>
      /\ UNCHANGED << files, opts, common_signals, earliest_mismatches >>
      /\ printed' = earliest_mismatches
      /\ code' = IF earliest_mismatches # << >> THEN 1 ELSE 0
  BY DEF Report
<1>2. Selected' = Selected
  BY <1>1, Frame
<1>3. Seen' = Selected /\ Seen = Selected
  BY <1>1, <1>2 DEF Seen, Left
<1>4. TypeInv' /\ SignalsInv' /\ DoneInv'
  BY <1>1 DEF IInv, TypeInv, SignalsInv, DoneInv
<1>5. RealInv' /\ FirstInv'
  <2>1. Real(earliest_mismatches, Selected)
    BY <1>3 DEF IInv, RealInv
  <2>2. RealInv'
    BY <1>1, <1>3, <2>1, FrameInv
  <2>3. CASE opts.after = 0
    <3>1. First(earliest_mismatches, Selected)
      BY <1>1, <1>3, <2>3 DEF IInv, FirstInv
    <3>2. QED
      BY <1>1, <1>3, <2>2, <3>1, FrameInv
  <2>4. CASE opts.after # 0
    BY <1>1, <2>2, <2>4 DEF FirstInv
  <2>5. QED
    BY <2>3, <2>4
<1>6. QED
  BY <1>4, <1>5 DEF IInv

LEMMA StutterInv ==
  ASSUME IInv, UNCHANGED vars
  PROVE  IInv'
<1>1. UNCHANGED << pc, files, opts, common_signals, earliest_mismatches, printed, code >>
  BY DEF vars
<1>2. /\ Selected' = Selected
  BY <1>1, Frame
<1>3. Seen' = Seen
  BY <1>1, <1>2 DEF Seen, Left
<1>4. TypeInv' /\ SignalsInv' /\ DoneInv'
  BY <1>1, <1>2 DEF IInv, TypeInv, SignalsInv, DoneInv, Compared
<1>5. RealInv'
  BY <1>1, <1>3, FrameInv DEF IInv, RealInv
<1>6. FirstInv'
  <2>1. CASE opts.after = 0 /\ (pc = "compare" \/ Compared)
    BY <1>1, <1>3, <2>1, FrameInv DEF IInv, FirstInv
  <2>2. CASE ~(opts.after = 0 /\ (pc = "compare" \/ Compared))
    BY <1>1, <1>2, <2>2 DEF FirstInv, Compared
  <2>3. QED
    BY <2>1, <2>2
<1>7. QED
  BY <1>4, <1>5, <1>6 DEF IInv

(* The invariant: the mismatches held are real, and they are the first ones of the *)
(* signals compared so far.                                                        *)
THEOREM TraceDiffInvariant == Spec => []IInv
<1>1. IInv /\ [Next]_vars => IInv'
  BY SelectInv, CompareInv, ReportInv, StutterInv DEF Next, Done
<1>2. QED
  BY InitInv, <1>1, PTL DEF Spec

(* Every line that diffvcd.py prints is true: a signal that passes the filters has *)
(* these two different values at this time, which is in the window; all lines are  *)
(* of one time and no signal has two.                                              *)
THEOREM ReportsReal == Spec => []ReportsAreReal
<1>1. ASSUME IInv, Compared
      PROVE  /\ printed = earliest_mismatches /\ printed \in Seq(Mismatches)
             /\ DOMAIN printed = 1 .. Len(printed)
  BY <1>1, LenProperties DEF IInv, DoneInv, RealInv, Real
<1>2. ASSUME IInv, Compared, NEW n \in DOMAIN printed
      PROVE  /\ \E x \in Selected : /\ x[1] = printed[n].name
                                    /\ printed[n].v1 = ValueAt(files[1].sigs[x[2]], printed[n].t)
                                    /\ printed[n].v2 = ValueAt(files[2].sigs[x[3]], printed[n].t)
             /\ printed[n].v1 # printed[n].v2
             /\ opts.after <= printed[n].t
             /\ opts.before # 0 => printed[n].t <= opts.before
             /\ printed[n].t = printed[1].t
  <2>1. /\ printed[n].t = printed[1].t /\ InWindow(printed[n].t)
        /\ \E x \in Seen : /\ printed[n] = MismatchOf(x, printed[n].t)
                           /\ Differs(x, printed[n].t)
    BY <1>1, <1>2 DEF IInv, RealInv, Real
  <2>2. PICK x \in Selected : printed[n] = MismatchOf(x, printed[n].t) /\ Differs(x, printed[n].t)
    BY <2>1 DEF Seen
  <2>3. /\ printed[n].name = x[1]
        /\ printed[n].v1 = ValueAt(files[1].sigs[x[2]], printed[n].t)
        /\ printed[n].v2 = ValueAt(files[2].sigs[x[3]], printed[n].t)
    BY <2>2 DEF MismatchOf, Tv1, Tv2
  <2>4. printed[n].v1 # printed[n].v2
    BY <2>2, <2>3 DEF Differs
  <2>5. QED
    BY <2>1, <2>3, <2>4 DEF InWindow
<1>3. ASSUME IInv, Compared
      PROVE  IsInjective(printed)
  <2>1. \A n, m \in 1 .. Len(printed) : printed[n].name = printed[m].name => n = m
    BY <1>1, <1>3 DEF IInv, RealInv, Real
  <2>2. QED
    BY <1>1, <1>3, <2>1 DEF IsInjective
<1>4. IInv => ReportsAreReal
  BY <1>2, <1>3 DEF ReportsAreReal
<1>5. QED
  BY TraceDiffInvariant, <1>4, PTL

LEMMA EarliestIs ==
  ASSUME IInv, Compared, opts.after = 0
  PROVE  /\ ToSet(printed) = FirstDifferences
         /\ code = IF FirstDifferences = {} THEN 0 ELSE 1
<1> DEFINE times == { t \in Horizon : InWindow(t) /\ \E x \in Selected : Differs(x, t) }
           differences(t) == { [t |-> t, v1 |-> ValueAt(files[1].sigs[x[2]], t),
                                v2 |-> ValueAt(files[2].sigs[x[3]], t), name |-> x[1]] :
                               x \in { y \in Selected : Differs(y, t) } }
<1>2. /\ TypeInv /\ pc = "done" /\ printed = earliest_mismatches
      /\ code = IF printed # << >> THEN 1 ELSE 0
      /\ Real(printed, Seen) /\ First(printed, Seen) /\ Seen = Selected
  BY DEF IInv, DoneInv, RealInv, FirstInv, Compared, Seen
<1>3. /\ printed \in Seq(Mismatches) /\ Len(printed) \in Nat
      /\ DOMAIN printed = 1 .. Len(printed) /\ (printed # << >> <=> Len(printed) >= 1)
      /\ \A n \in 1 .. Len(printed) : printed[n].t \in Nat
  BY <1>2, HeldAre, LenProperties DEF Real
<1>4. \A t \in Nat : t <= EndTime => t \in Horizon
  BY <1>2, EndTimeIs DEF Horizon
<1>5. Horizon \subseteq Nat /\ times \in SUBSET Nat
  BY <1>2, EndTimeIs DEF Horizon
<1>6. ToSet(printed) = { printed[n] : n \in 1 .. Len(printed) }
  BY <1>3 DEF ToSet
<1>7. FirstDifferences = IF times = {} THEN {} ELSE differences(Least(times))
  BY DEF FirstDifferences, Least
<1>8. CASE times = {}
  <2>1. ~(Len(printed) >= 1)
    <3>1. SUFFICES ASSUME Len(printed) >= 1 PROVE FALSE
      OBVIOUS
    <3>2. 1 \in 1 .. Len(printed)
      BY <1>3, <3>1
    <3>3. /\ printed[1].t \in Nat /\ printed[1].t <= EndTime /\ InWindow(printed[1].t)
          /\ \E x \in Selected : Differs(x, printed[1].t)
      BY <1>2, <1>3, <3>2 DEF Real
    <3>4. QED
      BY <1>4, <1>8, <3>3
  <2>2. ToSet(printed) = {} /\ printed = << >>
    BY <1>3, <1>6, <2>1
  <2>3. QED
    BY <1>2, <1>7, <1>8, <2>2
<1>9. CASE times # {}
  <2>1. PICK first : first = Least(times) /\ first \in times /\ \A m \in times : first <= m
    BY <1>5, <1>9, LeastIs
  <2>2. PICK z \in Selected : Differs(z, first) /\ InWindow(first) /\ first \in Nat
    BY <1>5, <2>1
  <2>3. printed # << >> /\ printed[1].t <= first
    BY <1>2, <2>2 DEF First
  <2>4. 1 \in 1 .. Len(printed)
    BY <1>3, <2>3
  <2>5. /\ printed[1].t \in Nat /\ printed[1].t <= EndTime /\ InWindow(printed[1].t)
        /\ \E x \in Selected : Differs(x, printed[1].t)
    BY <1>2, <1>3, <2>4 DEF Real
  <2>6. printed[1].t = first
    <3>1. first <= printed[1].t
      BY <1>4, <2>1, <2>5
    <3>2. QED
      BY <2>2, <2>3, <2>5, <3>1
  <2>7. \A x : MismatchOf(x, first) =
                 [t |-> first, v1 |-> ValueAt(files[1].sigs[x[2]], first),
                  v2 |-> ValueAt(files[2].sigs[x[3]], first), name |-> x[1]]
    BY DEF MismatchOf, Tv1, Tv2
  <2>8. FirstDifferences = differences(first)
    BY <1>7, <1>9, <2>1
  <2>9. ASSUME NEW n \in 1 .. Len(printed) PROVE printed[n] \in differences(first)
    <3>1. printed[n].t = first
      BY <1>2, <2>6 DEF Real
    <3>2. PICK x \in Selected : printed[n] = MismatchOf(x, first) /\ Differs(x, first)
      BY <1>2, <3>1 DEF Real
    <3>3. QED
      BY <2>7, <3>2
  <2>10. ASSUME NEW d \in differences(first) PROVE \E n \in 1 .. Len(printed) : d = printed[n]
    <3>1. PICK x \in Selected : Differs(x, first) /\ d = MismatchOf(x, first)
      BY <2>7
    <3>2. QED
      BY <1>2, <2>2, <2>6, <3>1 DEF First
  <2>11. ToSet(printed) = FirstDifferences
    BY <1>6, <2>8, <2>9, <2>10
  <2>12. FirstDifferences # {}
    BY <1>6, <2>4, <2>11
  <2>13. QED
    BY <1>2, <2>3, <2>11, <2>12
<1>10. QED
  BY <1>8, <1>9

(* Without --after the lines printed are all the differences at the earliest time in *)
(* the window at which there is one, and the exit code says whether there are any,   *)
(* although each signal is compared by its own changes only.                         *)
THEOREM EarliestIsReported == Spec => []EarliestReported
<1>1. IInv => EarliestReported
  BY EarliestIs DEF EarliestReported
<1>2. QED
  BY TraceDiffInvariant, <1>1, PTL

=============================================================================
