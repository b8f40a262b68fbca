----------------------------- MODULE ElfioProofs -----------------------------
(* Proofs about Elfio, for every size of a structure, bound and choice of names, contents, *)
(* sections, segments and table entries that the assumptions of Elfio allow.              *)
EXTENDS Elfio, WellFoundedInduction, SequenceTheorems, FiniteSetTheorems, TLAPS

----------------------------------------
(* Numbers *)

(* A set of natural numbers that is not empty has a least element. *)
LEMMA LeastElement ==
  ASSUME NEW S \in SUBSET Nat, S # {}
  PROVE  \E n \in S : \A m \in S : n <= m
<1>1. PICK n \in S : \A m \in S : ~(<< m, n >> \in OpToRel(<, Nat))
  BY WFMin, NatLessThanWellFounded
<1>2. \A m \in S : ~(m < n)
  BY <1>1 DEF OpToRel
<1>3. QED BY <1>2

(* A set of natural numbers with a bound that is not empty has a greatest element. *)
LEMMA GreatestElement ==
  ASSUME NEW S \in SUBSET Nat, S # {}, NEW b \in Nat, \A m \in S : m <= b
  PROVE  \E n \in S : \A m \in S : m <= n
<1> DEFINE T == { j \in Nat : b - j \in S }
<1>1. PICK m \in S : TRUE
  OBVIOUS
<1>2. b - m \in T
  OBVIOUS
<1>3. PICK j \in T : \A i \in T : j <= i
  BY <1>2, LeastElement
<1>4. \A i \in S : b - i \in T
  OBVIOUS
<1>5. ASSUME NEW i \in S PROVE i <= b - j
  <2>1. j <= b - i
    BY <1>3, <1>4
  <2>2. QED BY <1>3, <2>1
<1>6. QED BY <1>3, <1>5

LEMMA MaxIs ==
  ASSUME NEW S \in SUBSET Nat, S # {}, NEW b \in Nat, \A m \in S : m <= b
  PROVE  Max(S) \in S /\ \A m \in S : m <= Max(S)
<1>1. \E k \in S : \A m \in S : m <= k
  BY GreatestElement
<1>2. \E k \in S : \A m \in S : k >= m
  BY <1>1
<1>3. QED BY <1>2 DEF Max

LEMMA MinIs ==
  ASSUME NEW S \in SUBSET Nat, S # {}
  PROVE  Min(S) \in S /\ \A m \in S : Min(S) <= m
  BY LeastElement DEF Min

(* Max of a set of numbers from 1 to n. *)
LEMMA GreatestIs ==
  ASSUME NEW n \in Nat, NEW t \in SUBSET (1 .. n), t # {}
  PROVE  Max(t) \in t /\ \A m \in t : m <= Max(t)
<1>1. t \in SUBSET Nat /\ \A m \in t : m <= n
  OBVIOUS
<1>2. QED BY <1>1, MaxIs

(* Induction up to N. *)
LEMMA Induction ==
  ASSUME NEW N \in Nat, NEW P, 0 \in P, \A k \in 1 .. N : k - 1 \in P => k \in P
  PROVE  \A k \in 0 .. N : k \in P
<1> DEFINE Wrong == { k \in 0 .. N : k \notin P }
<1>1. SUFFICES ASSUME Wrong # {} PROVE FALSE
  OBVIOUS
<1>2. PICK k \in Wrong : \A j \in Wrong : k <= j
  <2>1. Wrong \in SUBSET Nat
    OBVIOUS
  <2>2. QED BY <1>1, <2>1, LeastElement
<1>3. k # 0 /\ k \in 1 .. N
  BY <1>2
<1>4. k - 1 \in 0 .. N /\ ~(k <= k - 1)
  BY <1>3
<1>5. k - 1 \in P
  BY <1>2, <1>4
<1>6. QED BY <1>2, <1>3, <1>5

----------------------------------------
(* Loops *)

StartOne(acc, i) ==
  LET seg == acc.list[i]
      slot == IF acc.list[acc.slot].ph.offset = 0 THEN acc.slot + 1 ELSE acc.slot
  IN  IF i # acc.slot /\ seg.offset_set /\ seg.ph.offset = 0
      THEN [list |-> Swapped(acc.list, i, slot), slot |-> slot + 1] ELSE acc

SectionLoaded(hdr, acc, i) ==
  LET l == LoadSection(acc.st, hdr, i)
  IN  [st |-> l.st, sections |-> Append(acc.sections, l.sec)]
SegmentLoaded(c, acc, i) ==
  LET l == LoadSegment(acc.st, c.hdr, c.sections, i)
  IN  IF ~acc.ok THEN acc
      ELSE IF l.st.fail THEN [acc EXCEPT !.ok = FALSE, !.st = l.st]
      ELSE [acc EXCEPT !.st = l.st, !.segments = Append(@, l.seg)]
SwapOne(c, sec, n) ==
  LET rel == get_relocation(c.elf, sec, n - 1)
  IN  IF rel.info.sym \notin {c.first, c.second} THEN sec
      ELSE set_relocation(c.elf, sec, n - 1, [rel EXCEPT !.info.sym = Exchanged(@, c.first, c.second)])

(* The bodies of the loops: a is what the loop changes, x the element it has come to *)
(* and c what the body looks at besides.                                             *)
Body(loop, c, a, x) ==
  CASE loop = "order" -> OrderFirst(a)
    [] loop = "start" -> StartOne(a, x)
    [] loop = "place" -> PlaceSection(a, c.seg, c.start, x)
    [] loop = "layout" -> LayoutSegment(a, x)
    [] loop = "loose" -> PlaceLooseSection(a, x)
    [] loop = "save sections" -> SaveSection(c, a, x)
    [] loop = "save segments" -> SaveSegment(c, a, x)
    [] loop = "load sections" -> SectionLoaded(c, a, x)
    [] loop = "load segments" -> SegmentLoaded(c, a, x)
    [] loop = "inside" -> IF SectionInSegment(x, c) THEN Append(a, x.index) ELSE a
    [] loop = "tables" -> AddTable(a, x)
    [] loop = "changed" -> SetSection(a, x)
    [] loop = "arrange" -> ArrangeOne(c, a)
    [] loop = "swaps" -> swap_symbols(c, a, x[1], x[2])
    [] loop = "swap" -> SwapOne(c, a, x)
    [] OTHER -> a

Fold(loop, c, base, s) == FoldLeft(LAMBDA a, x : Body(loop, c, a, x), base, s)

(* h[k] is what the loop has made of base after k iterations. *)
Runs(h, loop, c, base, s, N) ==
  /\ h[0] = base
  /\ \A k \in 1 .. N : h[k] = Body(loop, c, h[k - 1], s[k])
  /\ h[N] = Fold(loop, c, base, s)

(* The fold is the last of the values that the loop takes, one after the other. *)
LEMMA FoldSteps ==
  ASSUME NEW loop, NEW c, NEW base, NEW N \in Nat, NEW s, DOMAIN s = 1 .. N
  PROVE  \E h : Runs(h, loop, c, base, s, N)
<1> DEFINE Step(f, t) == Body(loop, c, f[t \ {Max(t)}], s[Max(t)])
           Solves(f, n) == f = [t \in SUBSET (1 .. n) |-> IF t = {} THEN base ELSE Step(f, t)]
           Unsolved == { n \in Nat : ~(\E f : Solves(f, n)) }
<1>1. ASSUME NEW n \in Nat, NEW f, Solves(f, n) PROVE \E g : Solves(g, n + 1)
  <2> DEFINE F(t) == IF t \in SUBSET (1 .. n) THEN f[t] ELSE Body(loop, c, f[t \ {n + 1}], s[n + 1])
             g == [t \in SUBSET (1 .. (n + 1)) |-> F(t)]
  <2>1. ASSUME NEW t \in SUBSET (1 .. (n + 1)), t # {}, t \in SUBSET (1 .. n)
        PROVE  F(t) = Step(g, t)
    <3>1. Max(t) \in t
      BY <2>1, GreatestIs
    <3>2. t \ {Max(t)} \in SUBSET (1 .. n) /\ t \ {Max(t)} \in SUBSET (1 .. (n + 1))
      BY <2>1
    <3>3. g[t \ {Max(t)}] = f[t \ {Max(t)}]
      BY <3>2
    <3>4. f[t] = Step(f, t)
      BY <1>1, <2>1
    <3>5. QED BY <2>1, <3>3, <3>4
  <2>2. ASSUME NEW t \in SUBSET (1 .. (n + 1)), t \notin SUBSET (1 .. n)
        PROVE  t # {} /\ F(t) = Step(g, t)
    <3>1. n + 1 \in t
      <4>1. PICK x \in t : x \notin 1 .. n
        BY <2>2
      <4>2. x \in 1 .. (n + 1)
        BY <4>1
      <4>3. QED BY <4>1, <4>2
    <3>2. Max(t) = n + 1
      <4>1. n + 1 \in Nat /\ t # {}
        BY <3>1
      <4>2. t \in SUBSET (1 .. (n + 1))
        BY <2>2
      <4>3. Max(t) \in t /\ \A m \in t : m <= Max(t)
        BY <4>1, <4>2, GreatestIs
      <4>4. Max(t) \in 1 .. (n + 1) /\ n + 1 <= Max(t)
        BY <3>1, <4>2, <4>3
      <4>5. QED BY <4>4
    <3>3. t \ {n + 1} \in SUBSET (1 .. n) /\ t \ {n + 1} \in SUBSET (1 .. (n + 1))
      OBVIOUS
    <3>4. g[t \ {n + 1}] = f[t \ {n + 1}]
      BY <3>3
    <3>5. QED BY <2>2, <3>1, <3>2, <3>4
  <2>3. {} \in SUBSET (1 .. n) /\ f[{}] = base
    BY <1>1
  <2>4. ASSUME NEW t \in SUBSET (1 .. (n + 1))
        PROVE  F(t) = IF t = {} THEN base ELSE Step(g, t)
    BY <2>1, <2>2, <2>3
  <2>5. Solves(g, n + 1)
    BY <2>4
  <2>6. QED BY <2>5
<1>2. \E f : Solves(f, 0)
  <2> DEFINE g == [t \in SUBSET (1 .. 0) |-> base]
  <2>1. Solves(g, 0)
    OBVIOUS
  <2>2. QED BY <2>1
<1>3. Unsolved = {}
  <2>1. SUFFICES ASSUME Unsolved # {} PROVE FALSE
    OBVIOUS
  <2>2. PICK n \in Unsolved : \A m \in Unsolved : n <= m
    BY <2>1, LeastElement
  <2>3. n \in Nat /\ ~(\E f : Solves(f, n))
    BY <2>2
  <2>4. n # 0
    BY <1>2, <2>3
  <2>5. n - 1 \in Nat /\ ~(n <= n - 1) /\ (n - 1) + 1 = n
    BY <2>3, <2>4
  <2>6. n - 1 \notin Unsolved
    BY <2>2, <2>5
  <2>7. \E f : Solves(f, n - 1)
    BY <2>5, <2>6
  <2>8. \E g : Solves(g, (n - 1) + 1)
    BY <1>1, <2>5, <2>7
  <2>9. QED BY <2>3, <2>5, <2>8
<1>4. \E f : Solves(f, N)
  BY <1>3
<1> DEFINE iter == CHOOSE f : Solves(f, N)
           h == [k \in 0 .. N |-> iter[1 .. k]]
<1>5. Solves(iter, N)
  BY <1>4
<1>6. iter[1 .. N] = Fold(loop, c, base, s)
  BY DEF Fold, FoldLeft, MapThenFoldSet
<1>7. h[0] = base
  <2>1. 1 .. 0 = {} /\ {} \in SUBSET (1 .. N) /\ 0 \in 0 .. N
    OBVIOUS
  <2>2. iter[{}] = base
    BY <1>5, <2>1
  <2>3. h[0] = iter[1 .. 0]
    BY <2>1
  <2>4. QED BY <2>1, <2>2, <2>3
<1>8. ASSUME NEW k \in 1 .. N PROVE h[k] = Body(loop, c, h[k - 1], s[k])
  <2>1. 1 .. k \in SUBSET (1 .. N)
    OBVIOUS
  <2>2. k \in 1 .. k /\ 1 .. k # {} /\ k \in Nat /\ 1 .. k \in SUBSET (1 .. k)
    OBVIOUS
  <2>3. Max(1 .. k) = k
    <3>1. Max(1 .. k) \in 1 .. k /\ k <= Max(1 .. k)
      BY <2>2, GreatestIs
    <3>2. QED BY <3>1
  <2>4. (1 .. k) \ {k} = 1 .. (k - 1)
    OBVIOUS
  <2>5. iter[1 .. k] = Step(iter, 1 .. k)
    BY <1>5, <2>1, <2>2
  <2>6. h[k] = iter[1 .. k] /\ h[k - 1] = iter[1 .. (k - 1)]
    BY <2>1
  <2>7. QED BY <2>3, <2>4, <2>5, <2>6
<1>9. h[N] = Fold(loop, c, base, s)
  BY <1>6
<1>10. Runs(h, loop, c, base, s, N)
  BY <1>7, <1>8, <1>9 DEF Runs
<1>11. QED BY <1>10

----------------------------------------
(* Lists *)

LEMMA ListIs ==
  ASSUME NEW s, IsList(s)
  PROVE  Len(s) \in Nat /\ DOMAIN s = 1 .. Len(s) /\ s = [k \in 1 .. Len(s) |-> s[k]]
  BY DEF IsList

LEMMA ListOf ==
  ASSUME NEW n \in Nat, NEW f, f = [k \in 1 .. n |-> f[k]]
  PROVE  IsList(f) /\ Len(f) = n /\ DOMAIN f = 1 .. n
<1>1. DOMAIN f = 1 .. n
  OBVIOUS
<1>2. \A k \in 1 .. n : f[k] \in ToSet(f)
  BY <1>1 DEF ToSet
<1>3. f \in [1 .. n -> ToSet(f)]
  BY <1>2
<1>4. f \in Seq(ToSet(f))
  BY <1>3, SeqDef
<1>5. Len(f) = n
  BY <1>1, <1>4
<1>6. QED BY <1>1, <1>4, <1>5 DEF IsList

LEMMA ListsEqual ==
  ASSUME NEW s, NEW t, IsList(s), IsList(t), Len(s) = Len(t), \A k \in 1 .. Len(s) : s[k] = t[k]
  PROVE  s = t
<1>1. s = [k \in 1 .. Len(s) |-> s[k]] /\ t = [k \in 1 .. Len(t) |-> t[k]]
  BY ListIs
<1>2. QED BY <1>1

LEMMA EmptyList == IsList(<< >>) /\ Len(<< >>) = 0 /\ DOMAIN << >> = {}
  BY DEF IsList

LEMMA ListEmpty ==
  ASSUME NEW s, IsList(s)
  PROVE  Len(s) = 0 <=> s = << >>
  BY EmptyList, ListsEqual

LEMMA SeqIsList ==
  ASSUME NEW R, NEW s \in Seq(R)
  PROVE  IsList(s)
<1>1. Len(s) \in Nat /\ s = [k \in 1 .. Len(s) |-> s[k]]
  OBVIOUS
<1>2. QED BY <1>1, ListOf

LEMMA ListGrows ==
  ASSUME NEW s, IsList(s), NEW x
  PROVE  /\ IsList(Append(s, x)) /\ Len(Append(s, x)) = Len(s) + 1
         /\ DOMAIN Append(s, x) = 1 .. (Len(s) + 1) /\ Append(s, x)[Len(s) + 1] = x
         /\ \A k \in 1 .. Len(s) : Append(s, x)[k] = s[k]
<1> DEFINE R == ToSet(s) \cup {x}
<1>1. s \in Seq(ToSet(s))
  BY DEF IsList
<1>2. s \in Seq(R) /\ x \in R
  BY <1>1
<1> HIDE DEF R
<1>3. /\ Append(s, x) \in Seq(R) /\ Len(Append(s, x)) = Len(s) + 1 /\ Append(s, x)[Len(s) + 1] = x
      /\ \A k \in 1 .. Len(s) : Append(s, x)[k] = s[k]
  BY <1>2, AppendProperties
<1>4. IsList(Append(s, x))
  BY <1>3, SeqIsList
<1>5. QED BY <1>3, <1>4, ListIs

LEMMA ListChanges ==
  ASSUME NEW s, IsList(s), NEW i \in 1 .. Len(s), NEW x
  PROVE  /\ IsList([s EXCEPT ![i] = x]) /\ Len([s EXCEPT ![i] = x]) = Len(s)
         /\ DOMAIN [s EXCEPT ![i] = x] = 1 .. Len(s) /\ [s EXCEPT ![i] = x][i] = x
         /\ \A k \in 1 .. Len(s) : k # i => [s EXCEPT ![i] = x][k] = s[k]
<1>1. Len(s) \in Nat /\ DOMAIN s = 1 .. Len(s)
  BY ListIs
<1> DEFINE t == [s EXCEPT ![i] = x]
<1>2. t = [k \in 1 .. Len(s) |-> t[k]]
  BY <1>1
<1>3. IsList(t) /\ Len(t) = Len(s) /\ DOMAIN t = 1 .. Len(s)
  <2> HIDE DEF t
  <2>1. QED BY <1>1, <1>2, ListOf
<1>4. QED BY <1>1, <1>3

LEMMA ListsJoin ==
  ASSUME NEW s, NEW t, IsList(s), IsList(t)
  PROVE  /\ IsList(s \o t) /\ Len(s \o t) = Len(s) + Len(t)
         /\ \A k \in 1 .. Len(s) : (s \o t)[k] = s[k]
         /\ \A k \in 1 .. Len(t) : (s \o t)[Len(s) + k] = t[k]
<1> DEFINE R == ToSet(s) \cup ToSet(t)
<1>1. s \in Seq(R) /\ t \in Seq(R)
  BY DEF IsList
<1> HIDE DEF R
<1>2. /\ s \o t \in Seq(R) /\ Len(s \o t) = Len(s) + Len(t) /\ Len(s) \in Nat /\ Len(t) \in Nat
      /\ \A i \in 1 .. Len(s) + Len(t) : (s \o t)[i] = IF i <= Len(s) THEN s[i] ELSE t[i - Len(s)]
  BY <1>1, ConcatProperties
<1>3. IsList(s \o t)
  BY <1>2, SeqIsList
<1>4. ASSUME NEW k \in 1 .. Len(t) PROVE (s \o t)[Len(s) + k] = t[k]
  <2>1. Len(s) + k \in 1 .. Len(s) + Len(t) /\ ~(Len(s) + k <= Len(s)) /\ (Len(s) + k) - Len(s) = k
    BY <1>2
  <2>2. QED BY <1>2, <2>1
<1>5. \A k \in 1 .. Len(s) : (s \o t)[k] = s[k]
  BY <1>2
<1>6. QED BY <1>2, <1>3, <1>4, <1>5

LEMMA PartIs ==
  ASSUME NEW s, IsList(s), NEW m \in Nat, NEW n \in Nat, m + n <= Len(s)
  PROVE  /\ IsList(SubSeq(s, m + 1, m + n)) /\ Len(SubSeq(s, m + 1, m + n)) = n
         /\ \A k \in 1 .. n : SubSeq(s, m + 1, m + n)[k] = s[m + k]
<1> DEFINE R == ToSet(s)
           a == m + 1
           b == m + n
<1>1. Len(s) \in Nat /\ \A i \in 1 .. Len(s) : s[i] \in R
  BY ListIs DEF ToSet
<1>2. a \in Int /\ b \in Int /\ \A i \in a .. b : s[i] \in R
  BY <1>1
<1> HIDE DEF R
<1>3. /\ SubSeq(s, a, b) \in Seq(R) /\ Len(SubSeq(s, a, b)) = IF a <= b THEN b - a + 1 ELSE 0
      /\ \A i \in 1 .. b - a + 1 : SubSeq(s, a, b)[i] = s[a + i - 1]
  <2> HIDE DEF a, b
  <2>1. QED BY <1>2, SubSeqProperties, SMTT(30)
<1>4. IsList(SubSeq(s, a, b))
  BY <1>3, SeqIsList
<1>5. b - a + 1 = n /\ (IF a <= b THEN b - a + 1 ELSE 0) = n
  OBVIOUS
<1>6. ASSUME NEW k \in 1 .. n PROVE SubSeq(s, a, b)[k] = s[m + k]
  <2>1. a + k - 1 = m + k
    OBVIOUS
  <2>2. QED BY <1>3, <1>5, <2>1
<1>7. QED BY <1>3, <1>4, <1>5, <1>6

(* A list without its first element. *)
LEMMA TailIs ==
  ASSUME NEW s, IsList(s), s # << >>
  PROVE  /\ Head(s) = s[1] /\ 1 \in 1 .. Len(s) /\ Len(s) \in Nat
         /\ IsList(Tail(s)) /\ Len(Tail(s)) = Len(s) - 1
         /\ \A k \in 1 .. Len(Tail(s)) : Tail(s)[k] = s[k + 1]
<1>1. s \in Seq(ToSet(s))
  BY DEF IsList
<1>2. Tail(s) \in Seq(ToSet(s)) /\ Len(Tail(s)) = Len(s) - 1 /\ Head(s) = s[1]
      /\ \A k \in 1 .. Len(Tail(s)) : Tail(s)[k] = s[k + 1]
  BY <1>1, HeadTailProperties
<1>3. 1 \in 1 .. Len(s)
  BY <1>1
<1>4. QED BY <1>2, <1>3, SeqIsList, ListIs

----------------------------------------
(* get_ordered_segments *)

LEMMA OrderedIsLoop ==
  ASSUME NEW segs
  PROVE  Ordered(segs) = Fold("order", 0, [worklist |-> segs, res |-> << >>],
                              [k \in 1 .. (Len(segs) * (Len(segs) + 2)) |-> k]).res
  BY DEF Ordered, Fold, FoldLeft, MapThenFoldSet, Body

Longest(w, p) == \A q \in 1 .. Len(w) : Len(w[q].sections) <= Len(w[p].sections)

LongestIsAt(w, p) == p \in 1 .. Len(w) /\ Longest(w, p)

LEMMA LongestExists ==
  ASSUME NEW w, IsList(w), w # << >>, \A q \in 1 .. Len(w) : Len(w[q].sections) \in Nat
  PROVE  \E p : LongestIsAt(w, p)
<1> DEFINE Sub(k, x) == x \in 1 .. k /\ \A q \in 1 .. k : Len(w[q].sections) <= Len(w[x].sections)
           P == { k \in 0 .. Len(w) : k = 0 \/ \E x \in 1 .. Len(w) : Sub(k, x) }
<1>1. Len(w) \in Nat /\ Len(w) # 0 /\ 0 \in P
  BY ListIs, ListEmpty
<1>2. ASSUME NEW k \in 1 .. Len(w), k - 1 \in P PROVE k \in P
  <2>1. CASE k = 1
    <3>1. Sub(k, 1)
      BY <1>1, <2>1
    <3>2. QED BY <1>1, <2>1, <3>1
  <2>2. CASE k # 1
    <3>1. PICK x \in 1 .. Len(w) : Sub(k - 1, x)
      BY <1>1, <1>2, <2>2
    <3>2. \A q \in 1 .. k : q = k \/ q \in 1 .. (k - 1)
      BY <1>1
    <3>3. Len(w[k].sections) \in Nat /\ Len(w[x].sections) \in Nat
      OBVIOUS
    <3>4. CASE Len(w[k].sections) <= Len(w[x].sections)
      <4>1. Sub(k, x)
        BY <1>1, <3>1, <3>2, <3>4
      <4>2. QED BY <1>1, <4>1
    <3>5. CASE ~(Len(w[k].sections) <= Len(w[x].sections))
      <4>1. \A q \in 1 .. (k - 1) : Len(w[q].sections) <= Len(w[k].sections)
        <5>1. SUFFICES ASSUME NEW q \in 1 .. (k - 1)
                       PROVE  Len(w[q].sections) <= Len(w[k].sections)
          OBVIOUS
        <5>2. q \in 1 .. Len(w) /\ Len(w[q].sections) \in Nat
          BY <1>1
        <5>3. Len(w[q].sections) <= Len(w[x].sections)
          BY <3>1
        <5>4. QED BY <3>3, <3>5, <5>2, <5>3
      <4>2. Sub(k, k)
        BY <1>1, <3>2, <3>3, <4>1
      <4>3. QED BY <1>1, <4>2
    <3>6. QED BY <3>4, <3>5
  <2>3. QED BY <2>1, <2>2
<1>3. \A k \in 0 .. Len(w) : k \in P
  <2> HIDE DEF P
  <2>1. QED BY <1>1, <1>2, Induction
<1>4. PICK x \in 1 .. Len(w) : Sub(Len(w), x)
  BY <1>1, <1>3
<1>5. LongestIsAt(w, x)
  BY <1>1, <1>4 DEF LongestIsAt, Longest
<1>6. QED BY <1>5

(* The segments are all in the worklist or in the result, and none in the result lies *)
(* within a later one or one that still waits.                                        *)
Among(x, segs) == \E n \in 1 .. Len(segs) : x = segs[n]
Sorted(acc, segs) ==
  /\ IsList(acc.worklist) /\ IsList(acc.res)
  /\ Len(acc.worklist) + Len(acc.res) = Len(segs)
  /\ \A q \in 1 .. Len(acc.worklist) : Among(acc.worklist[q], segs)
  /\ \A q \in 1 .. Len(acc.res) : Among(acc.res[q], segs)
  /\ \A n \in 1 .. Len(segs) : Among(segs[n], acc.worklist) \/ Among(segs[n], acc.res)
  /\ \A b \in 1 .. Len(acc.res) : \A a \in 1 .. (b - 1) :
       ~is_subsequence_of(acc.res[a], acc.res[b])
  /\ \A a \in 1 .. Len(acc.res), b \in 1 .. Len(acc.worklist) :
       ~is_subsequence_of(acc.res[a], acc.worklist[b])

(* How many iterations there can still be. *)
TimeLeft(w, L, k) ==
  \/ w = << >>
  \/ \E p : LongestIsAt(w, p) /\ Len(w) <= L /\ Len(w) * (L + 1) + p + k <= L * (L + 2)

LEMMA OrderFirstIs ==
  ASSUME NEW acc, DOMAIN acc = {"worklist", "res"}, acc.worklist # << >>
  PROVE  IF \E n \in DOMAIN Tail(acc.worklist) :
              is_subsequence_of(Head(acc.worklist), Tail(acc.worklist)[n])
         THEN /\ OrderFirst(acc).worklist = Append(Tail(acc.worklist), Head(acc.worklist))
              /\ OrderFirst(acc).res = acc.res
              /\ DOMAIN OrderFirst(acc) = {"worklist", "res"}
         ELSE /\ OrderFirst(acc).worklist = Tail(acc.worklist)
              /\ OrderFirst(acc).res = Append(acc.res, Head(acc.worklist))
              /\ DOMAIN OrderFirst(acc) = {"worklist", "res"}
<1>1. PICK some \in BOOLEAN : some <=> \E n \in DOMAIN Tail(acc.worklist) :
              is_subsequence_of(Head(acc.worklist), Tail(acc.worklist)[n])
  OBVIOUS
<1>2. OrderFirst(acc) = IF some THEN [acc EXCEPT !.worklist = Append(Tail(acc.worklist), Head(acc.worklist))]
                        ELSE [worklist |-> Tail(acc.worklist), res |-> Append(acc.res, Head(acc.worklist))]
  BY <1>1 DEF OrderFirst
<1>3. QED BY <1>1, <1>2

LEMMA OrderFirstKeeps ==
  ASSUME NEW segs, IsList(segs), NEW acc, DOMAIN acc = {"worklist", "res"}, Sorted(acc, segs),
         NEW next, next = OrderFirst(acc), acc.worklist # << >>
  PROVE  DOMAIN next = {"worklist", "res"} /\ Sorted(next, segs)
<1> DEFINE seg == acc.worklist[1]
           rest == Tail(acc.worklist)
<1>1. /\ IsList(acc.worklist) /\ IsList(acc.res)
      /\ Len(acc.worklist) + Len(acc.res) = Len(segs)
      /\ \A q \in 1 .. Len(acc.worklist) : Among(acc.worklist[q], segs)
      /\ \A q \in 1 .. Len(acc.res) : Among(acc.res[q], segs)
      /\ \A n \in 1 .. Len(segs) : Among(segs[n], acc.worklist) \/ Among(segs[n], acc.res)
      /\ \A b \in 1 .. Len(acc.res) : \A a \in 1 .. (b - 1) :
           ~is_subsequence_of(acc.res[a], acc.res[b])
      /\ \A a \in 1 .. Len(acc.res), b \in 1 .. Len(acc.worklist) :
           ~is_subsequence_of(acc.res[a], acc.worklist[b])
  BY DEF Sorted
<1>2. /\ Head(acc.worklist) = seg /\ 1 \in 1 .. Len(acc.worklist) /\ Len(acc.worklist) \in Nat
      /\ IsList(rest) /\ Len(rest) = Len(acc.worklist) - 1
      /\ \A k \in 1 .. Len(rest) : rest[k] = acc.worklist[k + 1]
  BY <1>1, TailIs
<1>3. Len(acc.res) \in Nat /\ Len(rest) \in Nat /\ DOMAIN rest = 1 .. Len(rest) /\ Len(segs) \in Nat
  BY <1>1, <1>2, ListIs
<1>4. \A k \in 1 .. Len(rest) : k + 1 \in 1 .. Len(acc.worklist)
  BY <1>2, <1>3
<1>5. \A k \in 1 .. Len(rest) : Among(rest[k], segs)
  BY <1>1, <1>2, <1>4
<1>6. Among(seg, segs)
  BY <1>1, <1>2
<1>7. ASSUME NEW x, Among(x, acc.worklist) PROVE x = seg \/ Among(x, rest)
  <2>1. PICK n \in 1 .. Len(acc.worklist) : x = acc.worklist[n]
    BY <1>7 DEF Among
  <2>2. CASE n = 1
    BY <2>1, <2>2
  <2>3. CASE n # 1
    <3>1. n - 1 \in 1 .. Len(rest) /\ (n - 1) + 1 = n
      BY <1>2, <2>3
    <3>2. x = rest[n - 1]
      BY <1>2, <2>1, <3>1
    <3>3. QED BY <3>1, <3>2 DEF Among
  <2>4. QED BY <2>2, <2>3
<1>8. CASE \E n \in DOMAIN rest : is_subsequence_of(seg, rest[n])
  <2>1. /\ next.worklist = Append(rest, seg) /\ next.res = acc.res
        /\ DOMAIN next = {"worklist", "res"}
    BY <1>2, <1>8, OrderFirstIs
  <2> HIDE DEF seg, rest
  <2>2. /\ IsList(next.worklist) /\ Len(next.worklist) = Len(rest) + 1
        /\ next.worklist[Len(rest) + 1] = seg
        /\ \A k \in 1 .. Len(rest) : next.worklist[k] = rest[k]
    BY <1>2, <2>1, ListGrows
  <2>3. \A q \in 1 .. Len(next.worklist) : q = Len(rest) + 1 \/ q \in 1 .. Len(rest)
    BY <1>3, <2>2
  <2>4. \A q \in 1 .. Len(next.worklist) : Among(next.worklist[q], segs)
    BY <1>5, <1>6, <2>2, <2>3
  <2>5. \A n \in 1 .. Len(segs) : Among(segs[n], next.worklist) \/ Among(segs[n], next.res)
    <3>1. Among(seg, next.worklist)
      BY <1>3, <2>2 DEF Among
    <3>2. \A x : Among(x, rest) => Among(x, next.worklist)
      BY <1>3, <2>2 DEF Among
    <3>3. QED BY <1>1, <1>7, <2>1, <3>1, <3>2
  <2>6. \A a \in 1 .. Len(acc.res), b \in 1 .. Len(next.worklist) :
           ~is_subsequence_of(acc.res[a], next.worklist[b])
    BY <1>1, <1>2, <1>4, <2>2, <2>3 DEF seg
  <2>7. Len(next.worklist) + Len(next.res) = Len(segs)
    BY <1>1, <1>2, <1>3, <2>1, <2>2
  <2>10. QED BY <1>1, <2>1, <2>2, <2>4, <2>5, <2>6, <2>7 DEF Sorted
<1>9. CASE ~ \E n \in DOMAIN rest : is_subsequence_of(seg, rest[n])
  <2>1. /\ next.worklist = rest /\ next.res = Append(acc.res, seg)
        /\ DOMAIN next = {"worklist", "res"}
    BY <1>2, <1>9, OrderFirstIs
  <2>8. \A b \in 1 .. Len(rest) : ~is_subsequence_of(seg, rest[b])
    BY <1>3, <1>9
  <2>9. \A a \in 1 .. Len(acc.res) : ~is_subsequence_of(acc.res[a], seg)
    BY <1>1, <1>2
  <2>10. \A a \in 1 .. Len(acc.res), b \in 1 .. Len(rest) : ~is_subsequence_of(acc.res[a], rest[b])
    BY <1>1, <1>2, <1>4
  <2> HIDE DEF seg, rest
  <2>2. /\ IsList(next.res) /\ Len(next.res) = Len(acc.res) + 1
        /\ next.res[Len(acc.res) + 1] = seg
        /\ \A k \in 1 .. Len(acc.res) : next.res[k] = acc.res[k]
    BY <1>1, <2>1, ListGrows
  <2>3. \A q \in 1 .. Len(next.res) : q = Len(acc.res) + 1 \/ q \in 1 .. Len(acc.res)
    BY <1>3, <2>2
  <2>4. \A q \in 1 .. Len(next.res) : Among(next.res[q], segs)
    BY <1>1, <1>6, <2>2, <2>3
  <2>5. \A n \in 1 .. Len(segs) : Among(segs[n], next.worklist) \/ Among(segs[n], next.res)
    <3>1. Among(seg, next.res)
      BY <1>3, <2>2 DEF Among
    <3>2. \A x : Among(x, acc.res) => Among(x, next.res)
      BY <1>3, <2>2 DEF Among
    <3>3. QED BY <1>1, <1>7, <2>1, <3>1, <3>2
  <2>6. ASSUME NEW b \in 1 .. Len(next.res), NEW a \in 1 .. (b - 1)
        PROVE  ~is_subsequence_of(next.res[a], next.res[b])
    <3>1. a \in 1 .. Len(acc.res) /\ next.res[a] = acc.res[a]
      BY <1>3, <2>2
    <3>2. CASE b = Len(acc.res) + 1
      BY <2>2, <2>9, <3>1, <3>2
    <3>3. CASE b \in 1 .. Len(acc.res)
      BY <1>1, <2>2, <3>1, <3>3
    <3>4. QED BY <2>3, <3>2, <3>3
  <2>7. \A a \in 1 .. Len(next.res), b \in 1 .. Len(rest) :
           ~is_subsequence_of(next.res[a], rest[b])
    BY <2>2, <2>3, <2>8, <2>10
  <2>11. Len(next.worklist) + Len(next.res) = Len(segs)
    <3>1. Len(next.worklist) = Len(rest)
      BY <2>1
    <3>2. Len(next.res) = Len(acc.res) + 1
      BY <2>2
    <3>3. Len(acc.worklist) + Len(acc.res) = Len(segs)
      BY <1>1
    <3>4. PICK w \in Nat : w = Len(acc.worklist) /\ Len(rest) = w - 1
      BY <1>2
    <3>5. PICK d \in Nat : d = Len(acc.res) /\ w + d = Len(segs)
      BY <1>3, <3>3, <3>4
    <3>6. QED BY <3>1, <3>2, <3>4, <3>5
  <2>12. QED BY <1>2, <1>5, <2>1, <2>2, <2>4, <2>5, <2>6, <2>7, <2>11 DEF Sorted
<1>10. QED BY <1>8, <1>9

LEMMA OrderFirstMoves ==
  ASSUME NEW acc, DOMAIN acc = {"worklist", "res"}, IsList(acc.worklist), acc.worklist # << >>,
         \A q \in 1 .. Len(acc.worklist) : Len(acc.worklist[q].sections) \in Nat,
         NEW L \in Nat, NEW k \in Nat, TimeLeft(acc.worklist, L, k)
  PROVE  TimeLeft(OrderFirst(acc).worklist, L, k + 1)
<1> DEFINE w == acc.worklist
           seg == w[1]
           rest == Tail(w)
<1>1. PICK p : LongestIsAt(w, p) /\ Len(w) <= L /\ Len(w) * (L + 1) + p + k <= L * (L + 2)
  BY DEF TimeLeft
<1>2. /\ Head(w) = seg /\ 1 \in 1 .. Len(w) /\ Len(w) \in Nat
      /\ IsList(rest) /\ Len(rest) = Len(w) - 1
      /\ \A j \in 1 .. Len(rest) : rest[j] = w[j + 1]
  BY TailIs
<1>3. Len(rest) \in Nat /\ DOMAIN rest = 1 .. Len(rest)
  BY <1>2, ListIs
<1>4. p \in 1 .. Len(w) /\ \A q \in 1 .. Len(w) : Len(w[q].sections) <= Len(w[p].sections)
  BY <1>1 DEF LongestIsAt, Longest
<1>5. \A j \in 1 .. Len(rest) : j + 1 \in 1 .. Len(w)
  BY <1>2, <1>3
<1>6. CASE \E n \in DOMAIN rest : is_subsequence_of(seg, rest[n])
  <2>1. OrderFirst(acc).worklist = Append(rest, seg)
    BY <1>2, <1>6, OrderFirstIs
  <2>2. p # 1
    <3>1. PICK n \in 1 .. Len(rest) : is_subsequence_of(seg, rest[n])
      BY <1>3, <1>6
    <3>2. Len(seg.sections) < Len(rest[n].sections)
      BY <3>1 DEF is_subsequence_of
    <3>3. rest[n] = w[n + 1] /\ n + 1 \in 1 .. Len(w)
      BY <1>2, <1>5, <3>1
    <3>4. Len(w[1].sections) < Len(w[n + 1].sections)
      BY <3>2, <3>3
    <3>5. Len(w[n + 1].sections) <= Len(w[p].sections)
      BY <1>4, <3>3
    <3>6. Len(w[1].sections) \in Nat /\ Len(w[n + 1].sections) \in Nat /\ Len(w[p].sections) \in Nat
      BY <1>2, <1>4, <3>3
    <3>7. QED BY <3>4, <3>5, <3>6
  <2> HIDE DEF w, rest
  <2>3. PICK v : v = Append(rest, seg)
    OBVIOUS
  <2>4. /\ IsList(v) /\ Len(v) = Len(rest) + 1 /\ v[Len(rest) + 1] = seg
        /\ \A j \in 1 .. Len(rest) : v[j] = rest[j]
    BY <1>2, <2>3, ListGrows
  <2>5. p - 1 \in 1 .. Len(rest) /\ v[p - 1] = w[p]
    <3>1. p - 1 \in 1 .. Len(rest) /\ (p - 1) + 1 = p
      BY <1>2, <1>4, <2>2
    <3>2. QED BY <1>2, <2>4, <3>1
  <2>6. \A q \in 1 .. Len(v) : Len(v[q].sections) <= Len(v[p - 1].sections)
    <3>1. SUFFICES ASSUME NEW q \in 1 .. Len(v) PROVE Len(v[q].sections) <= Len(v[p - 1].sections)
      OBVIOUS
    <3>2. CASE q = Len(rest) + 1
      BY <1>2, <1>4, <2>4, <2>5, <3>2
    <3>3. CASE q \in 1 .. Len(rest)
      BY <1>2, <1>4, <1>5, <2>4, <2>5, <3>3
    <3>4. QED BY <1>3, <2>4, <3>2, <3>3
  <2>7. LongestIsAt(v, p - 1)
    <3>1. p - 1 \in 1 .. Len(v)
      BY <1>3, <2>4, <2>5
    <3>2. QED BY <2>6, <3>1 DEF LongestIsAt, Longest
  <2>8. Len(v) = Len(w)
    BY <1>2, <2>4
  <2>9. Len(v) * (L + 1) + (p - 1) + (k + 1) <= L * (L + 2)
    <3>1. PICK x \in Nat : x = Len(w) * (L + 1)
      BY <1>2
    <3>2. QED BY <1>1, <1>2, <1>4, <2>8, <3>1
  <2>10. QED BY <1>1, <2>1, <2>3, <2>7, <2>8, <2>9 DEF TimeLeft
<1>7. CASE ~ \E n \in DOMAIN rest : is_subsequence_of(seg, rest[n])
  <2>1. OrderFirst(acc).worklist = rest
    BY <1>2, <1>7, OrderFirstIs
  <2>2. CASE rest = << >>
    BY <2>1, <2>2 DEF TimeLeft
  <2>3. CASE rest # << >>
    <3>1. \A q \in 1 .. Len(rest) : Len(rest[q].sections) \in Nat
      BY <1>2, <1>5
    <3>2. PICK r : LongestIsAt(rest, r)
      BY <1>2, <2>3, <3>1, LongestExists
    <3>3. r \in 1 .. Len(rest)
      BY <3>2 DEF LongestIsAt
    <3> HIDE DEF w, rest
    <3>4. Len(rest) * (L + 1) + r + (k + 1) <= L * (L + 2)
      <4>1. PICK x \in Nat : x = Len(w) * (L + 1)
        BY <1>2
      <4>2. Len(rest) * (L + 1) = x - (L + 1)
        BY <1>2, <4>1
      <4>3. r <= L
        BY <1>1, <1>2, <3>3
      <4>4. PICK y \in Nat : y = L * (L + 2)
        OBVIOUS
      <4>5. x + p + k <= y
        BY <1>1, <4>1, <4>4
      <4>6. (x - (L + 1)) + r + (k + 1) <= y
        BY <1>2, <1>4, <3>3, <4>1, <4>3, <4>4, <4>5
      <4>7. QED BY <4>2, <4>4, <4>6
    <3>5. Len(rest) <= L
      BY <1>1, <1>2
    <3>6. QED BY <2>1, <3>2, <3>4, <3>5 DEF TimeLeft
  <2>4. QED BY <2>2, <2>3
<1>8. QED BY <1>6, <1>7

(* Every segment is in the result, and none in it lies within a later one. *)
InOrder(segs, r) ==
  /\ IsList(r) /\ Len(r) = Len(segs)
  /\ \A q \in 1 .. Len(r) : Among(r[q], segs)
  /\ \A n \in 1 .. Len(segs) : Among(segs[n], r)
  /\ \A b \in 1 .. Len(r) : \A a \in 1 .. (b - 1) : ~is_subsequence_of(r[a], r[b])

LEMMA OrderedIs ==
  ASSUME NEW segs, IsList(segs), \A n \in 1 .. Len(segs) : Len(segs[n].sections) \in Nat
  PROVE  InOrder(segs, Ordered(segs))
<1>1. PICK L \in Nat : L = Len(segs)
  BY ListIs
<1>2. PICK N \in Nat : N = L * (L + 2)
  BY <1>1
<1> DEFINE base == [worklist |-> segs, res |-> << >>]
           s == [k \in 1 .. N |-> k]
<1>3. PICK h : Runs(h, "order", 0, base, s, N)
  <2>1. DOMAIN s = 1 .. N
    OBVIOUS
  <2> HIDE DEF s, base
  <2>2. QED BY <2>1, FoldSteps
<1>4. /\ h[0] = base
      /\ \A k \in 1 .. N : h[k] = OrderFirst(h[k - 1])
      /\ Ordered(segs) = h[N].res
  <2>1. Ordered(segs) = Fold("order", 0, base, s).res
    BY <1>1, <1>2, OrderedIsLoop
  <2>2. \A k \in 1 .. N : Body("order", 0, h[k - 1], s[k]) = OrderFirst(h[k - 1])
    BY DEF Body
  <2> HIDE DEF s, base
  <2>3. QED BY <1>3, <2>1, <2>2 DEF Runs
<1> DEFINE Fine(acc, k) == /\ DOMAIN acc = {"worklist", "res"} /\ Sorted(acc, segs)
                           /\ TimeLeft(acc.worklist, L, k)
           P == { k \in 0 .. N : Fine(h[k], k) }
<1>5. 0 \in P
  <2>1. DOMAIN base = {"worklist", "res"} /\ base.worklist = segs /\ base.res = << >>
    OBVIOUS
  <2>2. \A n \in 1 .. Len(segs) : Among(segs[n], segs)
    BY DEF Among
  <2>3. Sorted(base, segs)
    <3> HIDE DEF base
    <3>1. Len(base.res) = 0
      BY <2>1, EmptyList
    <3>2. 1 .. 0 = {}
      OBVIOUS
    <3>4. Len(base.worklist) + Len(base.res) = Len(segs)
      BY <1>1, <2>1, <3>1
    <3>3. QED BY <2>1, <2>2, <3>1, <3>2, <3>4, EmptyList DEF Sorted
  <2>4. TimeLeft(segs, L, 0)
    <3>1. CASE segs = << >>
      BY <3>1 DEF TimeLeft
    <3>2. CASE segs # << >>
      <4>1. PICK p : LongestIsAt(segs, p)
        BY <3>2, LongestExists
      <4>2. p \in 1 .. L
        BY <1>1, <4>1 DEF LongestIsAt
      <4>3. L * (L + 1) + p + 0 <= L * (L + 2)
        <5>1. PICK x \in Nat : x = L * (L + 1)
          BY <1>1
        <5>2. L * (L + 2) = x + L
          BY <5>1
        <5>3. QED BY <4>2, <5>1, <5>2
      <4>4. QED BY <1>1, <4>1, <4>3 DEF TimeLeft
    <3>3. QED BY <3>1, <3>2
  <2> HIDE DEF base
  <2>5. QED BY <1>4, <2>1, <2>3, <2>4
<1>6. ASSUME NEW k \in 1 .. N, k - 1 \in P PROVE k \in P
  <2>1. PICK acc : acc = h[k - 1]
    OBVIOUS
  <2>2. h[k] = OrderFirst(acc) /\ Fine(acc, k - 1)
    BY <1>4, <1>6, <2>1
  <2>3. CASE acc.worklist = << >>
    <3>1. OrderFirst(acc) = acc
      BY <2>3 DEF OrderFirst
    <3>2. TimeLeft(acc.worklist, L, k)
      BY <2>3 DEF TimeLeft
    <3>3. QED BY <2>2, <3>1, <3>2
  <2>4. CASE acc.worklist # << >>
    <3>1. DOMAIN OrderFirst(acc) = {"worklist", "res"} /\ Sorted(OrderFirst(acc), segs)
      BY <2>2, <2>4, OrderFirstKeeps
    <3>2. IsList(acc.worklist)
      BY <2>2 DEF Sorted
    <3>3. \A q \in 1 .. Len(acc.worklist) : Len(acc.worklist[q].sections) \in Nat
      BY <2>2 DEF Sorted, Among
    <3>4. k - 1 \in Nat /\ (k - 1) + 1 = k
      OBVIOUS
    <3>5. TimeLeft(OrderFirst(acc).worklist, L, (k - 1) + 1)
      BY <2>2, <2>4, <3>2, <3>3, <3>4, OrderFirstMoves
    <3>6. QED BY <2>2, <3>1, <3>4, <3>5
  <2>5. QED BY <2>3, <2>4
<1>7. N \in P
  <2>1. \A k \in 0 .. N : k \in P
    <3> HIDE DEF P
    <3>1. QED BY <1>5, <1>6, Induction
  <2>2. QED BY <2>1
<1>8. Fine(h[N], N)
  BY <1>7
<1>9. h[N].worklist = << >>
  <2>1. SUFFICES ASSUME h[N].worklist # << >> PROVE FALSE
    OBVIOUS
  <2>2. PICK p : LongestIsAt(h[N].worklist, p)
                 /\ Len(h[N].worklist) * (L + 1) + p + N <= L * (L + 2)
    BY <1>8, <2>1 DEF TimeLeft
  <2>3. IsList(h[N].worklist)
    BY <1>8 DEF Sorted
  <2>4. PICK w \in Nat : w = Len(h[N].worklist)
    BY <2>3, ListIs
  <2>5. p \in 1 .. w
    BY <2>2, <2>4 DEF LongestIsAt
  <2>6. PICK x \in Nat : x = w * (L + 1)
    BY <1>1
  <2>7. x + p + N <= N
    BY <1>2, <2>2, <2>4, <2>6
  <2>8. QED BY <2>5, <2>6, <2>7
<1>10. QED
  <2>1. Sorted(h[N], segs)
    BY <1>8
  <2>2. \A n \in 1 .. Len(segs) : ~Among(segs[n], h[N].worklist)
    BY <1>9, EmptyList DEF Among
  <2>3. Len(h[N].res) = Len(segs)
    <3>1. Len(h[N].worklist) + Len(h[N].res) = Len(segs) /\ IsList(h[N].res)
      BY <2>1 DEF Sorted
    <3>2. Len(h[N].worklist) = 0 /\ Len(h[N].res) \in Nat
      BY <1>9, <3>1, EmptyList, ListIs
    <3>3. QED BY <1>1, <3>1, <3>2
  <2>4. QED BY <1>4, <2>1, <2>2, <2>3 DEF Sorted, InOrder

(* Where no segment was put at offset 0, none is moved to the front. *)
LEMMA StartFirstIsLoop ==
  ASSUME NEW segs
  PROVE  StartFirst(segs) = Fold("start", 0, [list |-> segs, slot |-> 1],
                                 [n \in DOMAIN segs |-> n]).list
<1>1. StartFirst(segs) = FoldLeft(StartOne, [list |-> segs, slot |-> 1],
                                  [n \in DOMAIN segs |-> n]).list
  BY DEF StartFirst, StartOne
<1>2. \A s, b : FoldLeft(StartOne, b, s) = Fold("start", 0, b, s)
  BY DEF Fold, FoldLeft, MapThenFoldSet, Body
<1>3. QED BY <1>1, <1>2

LEMMA StartFirstIs ==
  ASSUME NEW segs, IsList(segs),
         \A n \in 1 .. Len(segs) : ~(segs[n].offset_set /\ segs[n].ph.offset = 0)
  PROVE  StartFirst(segs) = segs
<1>1. PICK N \in Nat : N = Len(segs) /\ DOMAIN segs = 1 .. N
  BY ListIs
<1> DEFINE base == [list |-> segs, slot |-> 1]
           s == [n \in DOMAIN segs |-> n]
<1>2. DOMAIN s = 1 .. N /\ \A k \in 1 .. N : s[k] = k
  BY <1>1
<1>3. StartFirst(segs) = Fold("start", 0, base, s).list
  BY StartFirstIsLoop
<1>4. ASSUME NEW k \in 1 .. N PROVE Body("start", 0, base, k) = base
  <2>1. ~(segs[k].offset_set /\ segs[k].ph.offset = 0)
    BY <1>1
  <2>2. StartOne(base, k) = base
    BY <2>1 DEF StartOne
  <2>3. QED BY <2>2 DEF Body
<1>5. base.list = segs
  OBVIOUS
<1> HIDE DEF base, s
<1>6. PICK h : Runs(h, "start", 0, base, s, N)
  BY <1>2, FoldSteps
<1> DEFINE P == { k \in 0 .. N : h[k] = base }
<1>7. 0 \in P
  BY <1>6 DEF Runs
<1>8. ASSUME NEW k \in 1 .. N, k - 1 \in P PROVE k \in P
  BY <1>2, <1>4, <1>6, <1>8 DEF Runs
<1>9. \A k \in 0 .. N : k \in P
  <2> HIDE DEF P
  <2>1. QED BY <1>7, <1>8, Induction
<1>10. h[N] = base
  BY <1>9
<1>11. QED BY <1>3, <1>5, <1>6, <1>10 DEF Runs

----------------------------------------
(* Objects *)

ShdrFields ==
  {"name", "type", "flags", "addr", "offset", "size", "link", "info", "align", "entsize"}
PhdrFields == {"type", "flags", "offset", "vaddr", "paddr", "filesz", "memsz", "align"}
SectionFields == {"sh", "index", "name", "data", "cap", "stream", "addrset"}
SegmentFields == {"ph", "index", "sections", "data", "offset_set"}
HdrFields ==
  {"class", "encoding", "entry", "ehsize", "phentsize", "shentsize", "shstrndx", "shnum",
   "shoff", "phnum", "phoff"}
ElfFields == {"hdr", "sections", "segments", "pos"}

Addresses == 0 .. (MaxSize - 1)

(* The null section is empty; every other one has as many bytes as its size says. *)
IsSection(sec, i) ==
  /\ DOMAIN sec = SectionFields /\ DOMAIN sec.sh = ShdrFields
  /\ sec.index = i /\ sec.addrset \in BOOLEAN /\ IsList(sec.data)
  /\ sec.sh.size \in Nat /\ sec.sh.align \in Nat /\ sec.sh.offset \in Nat
  /\ sec.sh.addr \in Addresses
  /\ i = 0 <=> sec.sh.type = "NULL"
  /\ sec.sh.type = "NULL" => sec.sh.size = 0 /\ sec.sh.offset = 0 /\ sec.sh.flags = NoFlags
  /\ IF sec.sh.type = "NOBITS" THEN sec.data = << >> ELSE Len(sec.data) = sec.sh.size

(* A segment has sections of the object, in order; none is put at the start of the file. *)
Increasing(s) == \A b \in 1 .. Len(s) : \A a \in 1 .. (b - 1) : s[a] < s[b]
IsSegment(seg, i, n) ==
  /\ DOMAIN seg = SegmentFields /\ DOMAIN seg.ph = PhdrFields
  /\ seg.index = i /\ seg.offset_set \in BOOLEAN
  /\ seg.ph.vaddr \in Addresses /\ seg.ph.align \in Nat /\ seg.ph.offset \in Nat
  /\ seg.offset_set => seg.ph.offset # 0
  /\ IsList(seg.sections) /\ Increasing(seg.sections)
  /\ \A k \in 1 .. Len(seg.sections) : seg.sections[k] \in 1 .. (n - 1)

IsHeader(hdr) ==
  /\ DOMAIN hdr = HdrFields /\ hdr.class \in Classes /\ hdr.encoding \in Encodings
  /\ hdr.ehsize = SizeOf[hdr.class].Ehdr /\ hdr.phentsize = SizeOf[hdr.class].Phdr
  /\ hdr.shentsize = SizeOf[hdr.class].Shdr /\ hdr.shstrndx = 1

IsObject(e) ==
  /\ DOMAIN e = ElfFields /\ IsHeader(e.hdr)
  /\ IsList(e.sections) /\ Len(e.sections) >= 2
  /\ \A n \in 1 .. Len(e.sections) : IsSection(e.sections[n], n - 1)
  /\ IsList(e.segments)
  /\ \A n \in 1 .. Len(e.segments) : IsSegment(e.segments[n], n - 1, Len(e.sections))

----------------------------------------
(* What the layout of E changes: the places of sections and segments, and the addresses *)
(* that the program has not set.                                                        *)

SameSection(s, t) ==
  /\ DOMAIN t = SectionFields /\ DOMAIN t.sh = ShdrFields
  /\ t.index = s.index /\ t.name = s.name /\ t.data = s.data /\ t.addrset \in BOOLEAN
  /\ t.sh.name = s.sh.name /\ t.sh.type = s.sh.type /\ t.sh.flags = s.sh.flags
  /\ t.sh.size = s.sh.size /\ t.sh.link = s.sh.link /\ t.sh.info = s.sh.info
  /\ t.sh.align = s.sh.align /\ t.sh.entsize = s.sh.entsize
  /\ t.sh.offset \in Nat /\ t.sh.addr \in Addresses
  /\ s.addrset => t.addrset /\ t.sh.addr = s.sh.addr

SameSegment(s, t) ==
  /\ DOMAIN t = SegmentFields /\ DOMAIN t.ph = PhdrFields
  /\ t.index = s.index /\ t.sections = s.sections
  /\ t.ph.type = s.ph.type /\ t.ph.vaddr = s.ph.vaddr /\ t.ph.align = s.ph.align

SameObject(E, e) ==
  /\ DOMAIN e = ElfFields
  /\ IsList(e.sections) /\ Len(e.sections) = Len(E.sections)
  /\ \A n \in 1 .. Len(E.sections) : SameSection(E.sections[n], e.sections[n])
  /\ IsList(e.segments) /\ Len(e.segments) = Len(E.segments)
  /\ \A n \in 1 .. Len(E.segments) : SameSegment(E.segments[n], e.segments[n])

(* The room that section i takes in the file, and whether two sections share none. *)
Off(e, i) == e.sections[i + 1].sh.offset
Occ(e, i) == Occupied(e.sections[i + 1])
ApartAt(p, m, q, n) == p + m <= q \/ q + n <= p \/ m = 0 \/ n = 0
NotTogether(e, i, j) == ApartAt(Off(e, i), Occ(e, i), Off(e, j), Occ(e, j))

LayFields == {"ok", "elf", "pos", "generated", "mem", "file"}

(* The layout so far: the sections that have a place are apart from each other, behind *)
(* the tables and before the position; the others have not moved.                         *)
LaidSoFar(E, base, acc) ==
  /\ DOMAIN acc = LayFields /\ acc.ok /\ SameObject(E, acc.elf) /\ acc.elf.hdr = E.hdr
  /\ acc.pos \in Nat /\ base <= acc.pos /\ acc.mem \in Nat /\ acc.file \in Nat
  /\ acc.generated \subseteq 1 .. (Len(E.sections) - 1)
  /\ \A i \in acc.generated : /\ base <= Off(acc.elf, i)
                              /\ Off(acc.elf, i) + Occ(acc.elf, i) <= acc.pos
  /\ \A i, j \in acc.generated : i # j => NotTogether(acc.elf, i, j)
  /\ \A i \in 0 .. (Len(E.sections) - 1) :
       i \notin acc.generated => Off(acc.elf, i) = Off(E, i)

LEMMA MinusIs ==
  ASSUME MaxSize \in Nat \ {0}, NEW a \in Int, NEW b \in Int
  PROVE  /\ Minus(a, b) \in Addresses
         /\ a \in Addresses /\ b \in Addresses /\ Minus(a, b) = 0 => a = b
         /\ a - b \in Addresses => Minus(a, b) = a - b
<1>1. PICK d \in Int : d = a - b
  OBVIOUS
<1>2. Minus(a, b) = d % MaxSize /\ d % MaxSize \in Addresses
  BY <1>1 DEF Minus, Addresses
<1>3. d \in Addresses => d % MaxSize = d
  BY <1>1 DEF Addresses
<1>4. ASSUME a \in Addresses, b \in Addresses, d % MaxSize = 0 PROVE a = b
  <2>1. CASE d >= 0
    <3>1. d \in Addresses
      BY <1>1, <1>4, <2>1 DEF Addresses
    <3>2. QED BY <1>1, <1>3, <1>4, <3>1 DEF Addresses
  <2>2. CASE d < 0
    <3>1. d + MaxSize \in 1 .. (MaxSize - 1)
      BY <1>1, <1>4, <2>2 DEF Addresses
    <3>2. d = MaxSize * (d \div MaxSize) + (d % MaxSize) /\ d \div MaxSize \in Int
      BY <1>1
    <3>3. PICK q \in Int : q = d \div MaxSize /\ d = MaxSize * q
      BY <1>4, <3>2
    <3>4. ~(q >= 0) /\ ~(q <= -1)
      BY <2>2, <3>1, <3>3
    <3>5. QED BY <3>3, <3>4
  <2>3. QED BY <1>1, <2>1, <2>2
<1>5. QED BY <1>1, <1>2, <1>3, <1>4

LEMMA AlignIs ==
  ASSUME NEW pos \in Nat, NEW align \in Nat
  PROVE  Align(pos, align) \in Nat /\ pos <= Align(pos, align)
<1>1. CASE align > 1
  <2>1. PICK x \in Nat : x = pos + align - 1
    BY <1>1
  <2>2. PICK q \in Nat : q = x \div align
    BY <1>1, <2>1
  <2>3. x = align * q + (x % align) /\ x % align \in 0 .. (align - 1)
    BY <1>1, <2>1, <2>2
  <2>4. align * q \in Nat /\ q * align = align * q
    BY <1>1, <2>2
  <2>5. pos <= align * q
    BY <1>1, <2>1, <2>3, <2>4
  <2>6. Align(pos, align) = q * align
    BY <1>1, <2>1, <2>2 DEF Align
  <2>7. QED BY <2>4, <2>5, <2>6
<1>2. CASE ~(align > 1)
  BY <1>2 DEF Align
<1>3. QED BY <1>1, <1>2

(* The object x is e with another section in place i. *)
WithSection(e, i, sec, x) ==
  /\ DOMAIN x = ElfFields /\ x.hdr = e.hdr /\ x.segments = e.segments /\ x.pos = e.pos
  /\ IsList(x.sections) /\ Len(x.sections) = Len(e.sections) /\ x.sections[i + 1] = sec
  /\ \A n \in 1 .. Len(e.sections) : n # i + 1 => x.sections[n] = e.sections[n]

LEMMA SetSectionIs ==
  ASSUME NEW e, DOMAIN e = ElfFields, IsList(e.sections), NEW i \in Nat,
         i + 1 \in 1 .. Len(e.sections), NEW sec, sec.index = i
  PROVE  WithSection(e, i, sec, SetSection(e, sec))
<1>1. PICK s : s = [e.sections EXCEPT ![i + 1] = sec]
  OBVIOUS
<1>2. /\ IsList(s) /\ Len(s) = Len(e.sections) /\ s[i + 1] = sec
      /\ \A n \in 1 .. Len(e.sections) : n # i + 1 => s[n] = e.sections[n]
  <2>1. PICK old, k : old = e.sections /\ k = i + 1 /\ IsList(old) /\ k \in 1 .. Len(old)
    OBVIOUS
  <2>2. /\ IsList([old EXCEPT ![k] = sec]) /\ Len([old EXCEPT ![k] = sec]) = Len(old)
        /\ [old EXCEPT ![k] = sec][k] = sec
        /\ \A n \in 1 .. Len(old) : n # k => [old EXCEPT ![k] = sec][n] = old[n]
    BY <2>1, ListChanges
  <2>3. s = [old EXCEPT ![k] = sec]
    BY <1>1, <2>1, Zenon
  <2>4. QED BY <2>1, <2>2, <2>3, Zenon
<1>3. SetSection(e, sec) = [e EXCEPT !.sections = s]
  BY <1>1 DEF SetSection
<1>4. QED BY <1>2, <1>3 DEF ElfFields, WithSection

----------------------------------------
(* PlaceSection *)

Placed(sec, v, o) ==
  [IF sec.addrset THEN sec ELSE set_address(sec, v) EXCEPT !.sh.offset = o]
IsPlaced(s, sec, v, o, t) ==
  /\ SameSection(s, t) /\ t.addrset /\ t.sh.offset = o
  /\ sec.addrset => t.sh.addr = sec.sh.addr
  /\ ~sec.addrset => t.sh.addr = v

LEMMA PlacedIs ==
  ASSUME NEW s, NEW sec, SameSection(s, sec), NEW v \in Addresses, NEW o \in Nat,
         DOMAIN sec = SectionFields, DOMAIN sec.sh = ShdrFields
  PROVE  IsPlaced(s, sec, v, o, Placed(sec, v, o))
<1>4. PICK at : at = IF sec.addrset THEN sec ELSE set_address(sec, v)
  OBVIOUS
<1>5. PICK t : t = [at EXCEPT !.sh.offset = o]
  OBVIOUS
<1>6. t = Placed(sec, v, o)
  BY <1>4, <1>5 DEF Placed
<1>1. CASE sec.addrset
  <2>1. t = [sec EXCEPT !.sh.offset = o]
    BY <1>1, <1>4, <1>5
  <2>2. /\ DOMAIN t = SectionFields /\ DOMAIN t.sh = ShdrFields
        /\ t.index = sec.index /\ t.name = sec.name /\ t.data = sec.data /\ t.addrset = sec.addrset
        /\ t.sh.name = sec.sh.name /\ t.sh.type = sec.sh.type /\ t.sh.flags = sec.sh.flags
        /\ t.sh.size = sec.sh.size /\ t.sh.link = sec.sh.link /\ t.sh.info = sec.sh.info
        /\ t.sh.align = sec.sh.align /\ t.sh.entsize = sec.sh.entsize
        /\ t.sh.offset = o /\ t.sh.addr = sec.sh.addr
    BY <2>1 DEF SectionFields, ShdrFields
  <2>3. QED BY <1>1, <1>6, <2>2 DEF SameSection, IsPlaced
<1>2. CASE ~sec.addrset
  <2>1. at = [sec EXCEPT !.sh.addr = v, !.addrset = TRUE]
    BY <1>2, <1>4 DEF set_address
  <2>4. /\ DOMAIN at = SectionFields /\ DOMAIN at.sh = ShdrFields
        /\ at.index = sec.index /\ at.name = sec.name /\ at.data = sec.data /\ at.addrset
        /\ at.sh.name = sec.sh.name /\ at.sh.type = sec.sh.type /\ at.sh.flags = sec.sh.flags
        /\ at.sh.size = sec.sh.size /\ at.sh.link = sec.sh.link /\ at.sh.info = sec.sh.info
        /\ at.sh.align = sec.sh.align /\ at.sh.entsize = sec.sh.entsize /\ at.sh.addr = v
    BY <2>1 DEF SectionFields, ShdrFields
  <2>2. /\ DOMAIN t = SectionFields /\ DOMAIN t.sh = ShdrFields
        /\ t.index = sec.index /\ t.name = sec.name /\ t.data = sec.data /\ t.addrset
        /\ t.sh.name = sec.sh.name /\ t.sh.type = sec.sh.type /\ t.sh.flags = sec.sh.flags
        /\ t.sh.size = sec.sh.size /\ t.sh.link = sec.sh.link /\ t.sh.info = sec.sh.info
        /\ t.sh.align = sec.sh.align /\ t.sh.entsize = sec.sh.entsize
        /\ t.sh.offset = o /\ t.sh.addr = v
    BY <1>5, <2>4 DEF SectionFields, ShdrFields
  <2>3. QED BY <1>2, <1>6, <2>2 DEF SameSection, IsPlaced
<1>3. QED BY <1>1, <1>2

(* The section that PlaceSection puts behind a gap of `gap' cells, if it had no place. *)
NewlyPlaced(E, acc, seg, start, index, next, gap, t) ==
  /\ gap \in Nat /\ next.generated = acc.generated \cup {index}
  /\ next.elf = SetSection(acc.elf, t) /\ SameSection(E.sections[index + 1], t)
  /\ t.addrset /\ t.sh.offset = acc.pos + gap /\ next.pos = acc.pos + gap + Occupied(t)
  /\ next.file = acc.file + (IF t.sh.type = "NOBITS" THEN 0 ELSE t.sh.size + gap)
  /\ start <= acc.pos /\ acc.pos + gap = start /\ t.sh.type # "NOBITS" /\ t.sh.size # 0
     => t.sh.addr = seg.ph.vaddr

Counted(acc, next) ==
  next.generated = acc.generated /\ next.elf = acc.elf /\ next.pos = acc.pos

SectionPlaced(E, acc, seg, start, index, next) ==
  /\ DOMAIN next = LayFields /\ next.mem \in Nat /\ next.file \in Nat
  /\ IF index \in acc.generated THEN Counted(acc, next)
     ELSE \E gap, t : NewlyPlaced(E, acc, seg, start, index, next, gap, t)

LEMMA GapIs ==
  ASSUME MaxSize \in Nat \ {0}, NEW acc, NEW sec, NEW seg, NEW start \in Nat,
         acc.pos \in Nat, acc.file \in Nat, seg.ph.vaddr \in Addresses,
         sec.sh.offset \in Nat, sec.sh.align \in Nat, sec.sh.addr \in Addresses
  PROVE  /\ SectionAlign(acc, sec, seg, start) \in Nat
         /\ /\ sec.index \notin acc.generated /\ sec.addrset /\ sec.sh.type # "NOBITS"
            /\ sec.sh.size # 0 /\ start <= acc.pos
            /\ acc.pos + SectionAlign(acc, sec, seg, start) = start
            => sec.sh.addr = seg.ph.vaddr
<1>1. /\ Addresses \subseteq Nat /\ Addresses \subseteq Int /\ start + acc.file \in Int
      /\ sec.sh.offset \in Int /\ sec.sh.addr \in Int /\ seg.ph.vaddr \in Int
      /\ acc.pos \in Int /\ start \in Int
  BY DEF Addresses
<1>2. Minus(sec.sh.offset, start + acc.file) \in Nat
  BY <1>1, MinusIs
<1>3. Align(acc.pos, sec.sh.align) - acc.pos \in Nat
  <2>1. Align(acc.pos, sec.sh.align) \in Nat /\ acc.pos <= Align(acc.pos, sec.sh.align)
    BY AlignIs
  <2>2. QED BY <2>1
<1>4. PICK x \in Addresses : x = Minus(sec.sh.addr, seg.ph.vaddr)
  BY <1>1, MinusIs
<1>5. PICK y \in Addresses : y = Minus(acc.pos, start)
  BY <1>1, MinusIs
<1>6. PICK z \in Addresses : z = Minus(x, y)
  BY <1>1, MinusIs
<1>7. SectionAlign(acc, sec, seg, start) \in Nat
  BY <1>1, <1>2, <1>3, <1>4, <1>5, <1>6 DEF SectionAlign
<1>8. ASSUME sec.index \notin acc.generated, sec.addrset, sec.sh.type # "NOBITS", sec.sh.size # 0,
             start <= acc.pos, acc.pos + SectionAlign(acc, sec, seg, start) = start
      PROVE  sec.sh.addr = seg.ph.vaddr
  <2>1. SectionAlign(acc, sec, seg, start) = z
    BY <1>4, <1>5, <1>6, <1>8 DEF SectionAlign
  <2>2. z = 0 /\ acc.pos = start
    BY <1>1, <1>8, <2>1
  <2>3. x = y
    BY <1>1, <1>6, <2>2, MinusIs
  <2>4. y = 0
    <3>1. acc.pos - start \in Addresses /\ acc.pos - start = 0
      BY <2>2 DEF Addresses
    <3>2. QED BY <1>5, <3>1, MinusIs
  <2>5. QED BY <1>1, <1>4, <2>3, <2>4, MinusIs
<1>9. QED BY <1>7, <1>8

LEMMA PlaceSectionIs ==
  ASSUME MaxSize \in Nat \ {0}, NEW E, IsObject(E), NEW base \in Nat, NEW acc, LaidSoFar(E, base, acc),
         NEW seg, seg.ph.vaddr \in Addresses, NEW start \in Nat,
         NEW index \in 1 .. (Len(E.sections) - 1), NEW next,
         next = PlaceSection(acc, seg, start, index), next.ok
  PROVE  SectionPlaced(E, acc, seg, start, index, next)
<1>1. PICK sec : sec = acc.elf.sections[index + 1]
  OBVIOUS
<1>2. Len(E.sections) \in Nat /\ index + 1 \in 1 .. Len(E.sections) /\ (index + 1) - 1 = index
  BY ListIs DEF IsObject
<1>3. SameSection(E.sections[index + 1], sec) /\ IsSection(E.sections[index + 1], index)
  BY <1>1, <1>2 DEF LaidSoFar, SameObject, IsObject
<1>4. /\ DOMAIN sec = SectionFields /\ DOMAIN sec.sh = ShdrFields
      /\ sec.index = index /\ sec.addrset \in BOOLEAN
      /\ sec.sh.size \in Nat /\ sec.sh.align \in Nat /\ sec.sh.offset \in Nat
      /\ sec.sh.addr \in Addresses /\ sec.sh.type # "NULL" /\ index # 0
  BY <1>3 DEF SameSection, IsSection
<1>5. /\ DOMAIN acc = LayFields /\ acc.ok /\ acc.pos \in Nat /\ acc.mem \in Nat /\ acc.file \in Nat
      /\ DOMAIN acc.elf = ElfFields /\ IsList(acc.elf.sections)
  BY DEF LaidSoFar, SameObject
<1>6. PICK gap : gap = SectionAlign(acc, sec, seg, start)
  OBVIOUS
<1>7. /\ gap \in Nat
      /\ /\ index \notin acc.generated /\ sec.addrset /\ sec.sh.type # "NOBITS"
         /\ sec.sh.size # 0 /\ start <= acc.pos /\ acc.pos + gap = start
         => sec.sh.addr = seg.ph.vaddr
  BY <1>4, <1>5, <1>6, GapIs
<1>8. PICK sizes : sizes = SectionSizes(sec, seg, gap)
  OBVIOUS
<1>9. /\ sizes.mem \in Nat
      /\ sizes.file = (IF sec.sh.type # "NOBITS" THEN sec.sh.size + gap ELSE 0)
      /\ sizes.file \in Nat
  BY <1>4, <1>7, <1>8 DEF SectionSizes
<1>21. PICK mem, file1 : mem = acc.mem + sizes.mem /\ file1 = acc.file + sizes.file
  OBVIOUS
<1>22. mem \in Nat /\ file1 \in Nat
  <2>1. PICK m \in Nat, f \in Nat : m = acc.mem /\ f = acc.file
    BY <1>5, Zenon
  <2>2. PICK x \in Nat, y \in Nat : x = sizes.mem /\ y = sizes.file
    BY <1>9, Zenon
  <2>3. m + x \in Nat /\ f + y \in Nat
    OBVIOUS
  <2>4. QED BY <1>21, <2>1, <2>2, <2>3, Zenon
<1>10. PICK counted : counted = [acc EXCEPT !.mem = @ + sizes.mem, !.file = @ + sizes.file]
  OBVIOUS
<1>11. /\ DOMAIN counted = LayFields /\ counted.mem \in Nat
       /\ counted.file = acc.file + sizes.file /\ counted.file \in Nat
       /\ counted.elf = acc.elf /\ counted.pos = acc.pos /\ counted.generated = acc.generated
  <2>1. counted = [acc EXCEPT !.mem = mem, !.file = file1]
    BY <1>5, <1>10, <1>21 DEF LayFields
  <2>2. QED BY <1>5, <1>21, <1>22, <2>1 DEF LayFields
<1>12. PICK v : v = Minus(seg.ph.vaddr + (acc.pos + gap), start)
  OBVIOUS
<1>13. v \in Addresses /\ (acc.pos + gap = start => v = seg.ph.vaddr)
  <2>1. PICK a \in Int : a = seg.ph.vaddr + (acc.pos + gap) /\ seg.ph.vaddr \in Int
    BY <1>5, <1>7 DEF Addresses
  <2>2. v = Minus(a, start) /\ v \in Addresses
    BY <1>12, <2>1, MinusIs
  <2>3. ASSUME acc.pos + gap = start PROVE v = seg.ph.vaddr
    <3>1. a - start = seg.ph.vaddr
      BY <2>1, <2>3
    <3>2. a - start \in Addresses
      BY <3>1
    <3>3. QED BY <2>1, <2>2, <3>1, <3>2, MinusIs
  <2>4. QED BY <2>2, <2>3
<1>14. PICK at : at = IF sec.addrset THEN sec ELSE set_address(sec, v)
  OBVIOUS
<1>15. PICK t : t = [at EXCEPT !.sh.offset = acc.pos + gap]
  OBVIOUS
<1>16. next = IF GoesBack(acc, sec, seg, start) THEN [acc EXCEPT !.ok = FALSE]
              ELSE IF index \in acc.generated THEN counted
              ELSE [counted EXCEPT
                      !.pos = IF sec.sh.type # "NOBITS" THEN (acc.pos + gap) + sec.sh.size
                              ELSE acc.pos + gap,
                      !.generated = @ \cup {index},
                      !.elf = SetSection(@, t)]
  BY <1>1, <1>4, <1>5, <1>6, <1>8, <1>10, <1>12, <1>14, <1>15, ZenonT(40) DEF PlaceSection
<1>17. ~GoesBack(acc, sec, seg, start)
  <2>1. [acc EXCEPT !.ok = FALSE].ok = FALSE
    BY <1>5 DEF LayFields
  <2>2. QED BY <1>16, <2>1
<1>18. CASE index \in acc.generated
  BY <1>11, <1>16, <1>17, <1>18 DEF SectionPlaced, Counted
<1>19. CASE index \notin acc.generated
  <2>10. PICK o \in Nat : o = acc.pos + gap
    BY <1>5, <1>7
  <2>11. t = [at EXCEPT !.sh.offset = o] /\ v \in Addresses
    BY <1>13, <1>15, <2>10
  <2>1. SameSection(E.sections[index + 1], t) /\ t.addrset /\ t.sh.offset = acc.pos + gap
        /\ t.sh.addr = IF sec.addrset THEN sec.sh.addr ELSE v
    <3>1. t = Placed(sec, v, o)
      BY <1>14, <2>11 DEF Placed
    <3>2. IsPlaced(E.sections[index + 1], sec, v, o, t)
      BY <1>3, <1>4, <2>11, <3>1, PlacedIs, SMTT(30)
    <3>3. QED BY <2>10, <3>2 DEF IsPlaced
  <2>2. t.sh.type = sec.sh.type /\ t.sh.size = sec.sh.size
    BY <1>3, <2>1 DEF SameSection
  <2>3. Occupied(t) = IF sec.sh.type = "NOBITS" THEN 0 ELSE sec.sh.size
    BY <2>2 DEF Occupied
  <2>4. /\ DOMAIN next = LayFields /\ next.mem \in Nat /\ next.file = counted.file
        /\ next.generated = acc.generated \cup {index} /\ next.elf = SetSection(acc.elf, t)
        /\ next.pos = IF sec.sh.type # "NOBITS" THEN (acc.pos + gap) + sec.sh.size
                      ELSE acc.pos + gap
    BY <1>11, <1>16, <1>17, <1>19 DEF LayFields
  <2>5. next.pos = acc.pos + gap + Occupied(t)
    <3>1. CASE sec.sh.type = "NOBITS"
      <4>1. Occupied(t) = 0 /\ next.pos = acc.pos + gap
        BY <2>3, <2>4, <3>1, Zenon
      <4>2. PICK p \in Nat, h \in Nat : p = acc.pos /\ h = gap
        BY <1>5, <1>7, Zenon
      <4>3. QED BY <4>1, <4>2
    <3>2. CASE sec.sh.type # "NOBITS"
      <4>1. Occupied(t) = sec.sh.size /\ next.pos = (acc.pos + gap) + sec.sh.size
        BY <2>3, <2>4, <3>2, Zenon
      <4>2. QED BY <4>1, Zenon
    <3>3. QED BY <3>1, <3>2, Zenon
  <2>6. next.file = acc.file + (IF t.sh.type = "NOBITS" THEN 0 ELSE t.sh.size + gap)
    BY <1>9, <1>11, <2>2, <2>4
  <2>7. start <= acc.pos /\ acc.pos + gap = start /\ t.sh.type # "NOBITS" /\ t.sh.size # 0
        => t.sh.addr = seg.ph.vaddr
    BY <1>7, <1>13, <1>19, <2>1, <2>2
  <2>8. NewlyPlaced(E, acc, seg, start, index, next, gap, t)
    BY <1>7, <2>1, <2>4, <2>5, <2>6, <2>7 DEF NewlyPlaced
  <2>9. QED BY <1>11, <1>19, <2>4, <2>8 DEF SectionPlaced
<1>20. QED BY <1>18, <1>19


(* What a step of the layout leaves alone: the sections that have a place. *)
Further(acc, next) ==
  /\ acc.pos <= next.pos /\ acc.generated \subseteq next.generated
  /\ \A i \in acc.generated : next.elf.sections[i + 1] = acc.elf.sections[i + 1]
  /\ \A i \in next.generated \ acc.generated : acc.pos <= Off(next.elf, i)

LEMMA FurtherTransitive ==
  ASSUME NEW a, NEW b, NEW c, a.pos \in Nat, b.pos \in Nat, c.pos \in Nat,
         \A i \in c.generated : Off(c.elf, i) \in Nat, Further(a, b), Further(b, c)
  PROVE  Further(a, c)
<1>1. a.pos <= c.pos /\ a.generated \subseteq c.generated
  BY DEF Further
<1>2. \A i \in a.generated : c.elf.sections[i + 1] = a.elf.sections[i + 1]
  BY DEF Further
<1>3. ASSUME NEW i \in c.generated \ a.generated PROVE a.pos <= Off(c.elf, i)
  <2>1. CASE i \in b.generated
    <3>1. a.pos <= Off(b.elf, i) /\ c.elf.sections[i + 1] = b.elf.sections[i + 1]
      BY <1>3, <2>1 DEF Further
    <3>2. QED BY <3>1 DEF Off
  <2>2. CASE i \notin b.generated
    <3>1. a.pos <= b.pos /\ b.pos <= Off(c.elf, i)
      BY <1>3, <2>2 DEF Further
    <3>2. QED BY <3>1
  <2>3. QED BY <2>1, <2>2
<1>4. QED BY <1>1, <1>2, <1>3 DEF Further

LEMMA OccIs ==
  ASSUME NEW E, IsObject(E), NEW n \in 1 .. Len(E.sections), NEW t, SameSection(E.sections[n], t)
  PROVE  Occupied(t) \in Nat /\ Occupied(t) = Occupied(E.sections[n]) /\ t.sh.offset \in Nat
         /\ t.sh.size \in Nat
<1>1. IsSection(E.sections[n], n - 1)
  BY DEF IsObject
<1>2. E.sections[n].sh.size \in Nat /\ t.sh.size = E.sections[n].sh.size
      /\ t.sh.type = E.sections[n].sh.type /\ t.sh.offset \in Nat
  BY <1>1 DEF IsSection, SameSection
<1>3. QED BY <1>2 DEF Occupied

(* What PlaceSection makes of a layout. *)
Kept(E, base, acc, index, next) ==
  /\ LaidSoFar(E, base, next) /\ Further(acc, next)
  /\ next.elf.segments = acc.elf.segments
  /\ next.generated = acc.generated \cup {index}

(* One more section has a place: t, behind a gap. *)
MovedIn(E, acc, index, gap, t, next) ==
  /\ index \notin acc.generated /\ gap \in Nat /\ next.generated = acc.generated \cup {index}
  /\ DOMAIN next = LayFields /\ next.ok /\ next.mem \in Nat /\ next.file \in Nat
  /\ SameSection(E.sections[index + 1], t)
  /\ t.sh.offset = acc.pos + gap /\ next.pos = acc.pos + gap + Occupied(t)
  /\ DOMAIN next.elf = ElfFields
  /\ next.elf.hdr = acc.elf.hdr /\ next.elf.segments = acc.elf.segments
  /\ IsList(next.elf.sections) /\ Len(next.elf.sections) = Len(E.sections)
  /\ next.elf.sections[index + 1] = t
  /\ \A n \in 1 .. Len(E.sections) : n # index + 1 => next.elf.sections[n] = acc.elf.sections[n]

LEMMA MovedInKeeps ==
  ASSUME NEW E, IsObject(E), NEW base \in Nat, NEW acc, LaidSoFar(E, base, acc),
         NEW index \in 1 .. (Len(E.sections) - 1), NEW gap, NEW t, NEW next,
         MovedIn(E, acc, index, gap, t, next)
  PROVE  Kept(E, base, acc, index, next)
<1>1. /\ SameObject(E, acc.elf) /\ acc.elf.hdr = E.hdr
      /\ acc.pos \in Nat /\ base <= acc.pos
      /\ acc.generated \subseteq 1 .. (Len(E.sections) - 1)
      /\ \A i \in acc.generated : /\ base <= Off(acc.elf, i)
                                  /\ Off(acc.elf, i) + Occ(acc.elf, i) <= acc.pos
      /\ \A i, j \in acc.generated : i # j => NotTogether(acc.elf, i, j)
      /\ \A i \in 0 .. (Len(E.sections) - 1) :
           i \notin acc.generated => Off(acc.elf, i) = Off(E, i)
  BY DEF LaidSoFar
<1>2. Len(E.sections) \in Nat /\ index \in Nat /\ index + 1 \in 1 .. Len(E.sections)
  BY ListIs DEF IsObject
<1>3. /\ DOMAIN acc.elf = ElfFields
      /\ IsList(acc.elf.sections) /\ Len(acc.elf.sections) = Len(E.sections)
      /\ \A n \in 1 .. Len(E.sections) : SameSection(E.sections[n], acc.elf.sections[n])
      /\ IsList(acc.elf.segments) /\ Len(acc.elf.segments) = Len(E.segments)
      /\ \A n \in 1 .. Len(E.segments) : SameSegment(E.segments[n], acc.elf.segments[n])
  BY <1>1 DEF SameObject
<1>4. index \notin acc.generated /\ index + 1 \in 1 .. Len(E.sections)
  BY <1>2 DEF MovedIn
<1>12. /\ gap \in Nat /\ next.generated = acc.generated \cup {index}
      /\ SameSection(E.sections[index + 1], t)
      /\ t.sh.offset = acc.pos + gap /\ next.pos = acc.pos + gap + Occupied(t)
  BY DEF MovedIn
<1>14. /\ DOMAIN next.elf = ElfFields
      /\ next.elf.hdr = acc.elf.hdr /\ next.elf.segments = acc.elf.segments
      /\ IsList(next.elf.sections)
      /\ Len(next.elf.sections) = Len(E.sections)
      /\ next.elf.sections[index + 1] = t
      /\ \A n \in 1 .. Len(E.sections) :
           n # index + 1 => next.elf.sections[n] = acc.elf.sections[n]
  BY DEF MovedIn
<1>15. SameObject(E, next.elf)
  <2>1. \A n \in 1 .. Len(E.sections) : SameSection(E.sections[n], next.elf.sections[n])
    BY <1>3, <1>12, <1>14
  <2>2. QED BY <1>3, <1>14, <2>1 DEF SameObject
<1>16. Occupied(t) \in Nat
  BY <1>2, <1>12, OccIs
<1>17. next.pos \in Nat /\ base <= next.pos /\ acc.pos <= next.pos
  BY <1>1, <1>12, <1>16
<1>18. /\ Off(next.elf, index) = acc.pos + gap /\ Occ(next.elf, index) = Occupied(t)
  BY <1>12, <1>14 DEF Off, Occ
<1>19. \A i \in acc.generated : /\ next.elf.sections[i + 1] = acc.elf.sections[i + 1]
                               /\ Off(next.elf, i) = Off(acc.elf, i)
                               /\ Occ(next.elf, i) = Occ(acc.elf, i)
                               /\ Off(acc.elf, i) \in Nat /\ Occ(acc.elf, i) \in Nat
  <2>1. SUFFICES ASSUME NEW i \in acc.generated
                 PROVE  /\ next.elf.sections[i + 1] = acc.elf.sections[i + 1]
                        /\ Off(acc.elf, i) \in Nat /\ Occ(acc.elf, i) \in Nat
    BY DEF Off, Occ
  <2>2. i \in 1 .. (Len(E.sections) - 1) /\ i # index
    BY <1>1, <1>4
  <2>3. i + 1 \in 1 .. Len(E.sections) /\ i + 1 # index + 1
    BY <1>2, <2>2
  <2>4. SameSection(E.sections[i + 1], acc.elf.sections[i + 1])
    BY <1>3, <2>3
  <2>5. QED BY <1>14, <2>3, <2>4, OccIs DEF Off, Occ
<1>20. \A i \in next.generated : base <= Off(next.elf, i) /\ Off(next.elf, i) + Occ(next.elf, i) <= next.pos
  <2>1. SUFFICES ASSUME NEW i \in next.generated
                 PROVE  base <= Off(next.elf, i) /\ Off(next.elf, i) + Occ(next.elf, i) <= next.pos
    OBVIOUS
  <2>2. CASE i = index
    BY <1>1, <1>12, <1>16, <1>18, <2>2
  <2>3. CASE i \in acc.generated
    <3>1. /\ base <= Off(acc.elf, i) /\ Off(acc.elf, i) + Occ(acc.elf, i) <= acc.pos
          /\ Off(acc.elf, i) \in Nat /\ Occ(acc.elf, i) \in Nat
          /\ Off(next.elf, i) = Off(acc.elf, i) /\ Occ(next.elf, i) = Occ(acc.elf, i)
      BY <1>1, <1>19, <2>3
    <3>2. QED BY <1>1, <1>17, <3>1
  <2>4. QED BY <1>12, <2>2, <2>3
<1>21. ASSUME NEW i \in acc.generated
       PROVE  NotTogether(next.elf, i, index) /\ NotTogether(next.elf, index, i)
  <2>1. Off(next.elf, i) + Occ(next.elf, i) <= Off(next.elf, index)
    BY <1>1, <1>12, <1>18, <1>19
  <2>2. QED BY <2>1 DEF NotTogether, ApartAt
<1>22. \A i, j \in next.generated : i # j => NotTogether(next.elf, i, j)
  <2>1. SUFFICES ASSUME NEW i \in next.generated, NEW j \in next.generated, i # j
                 PROVE  NotTogether(next.elf, i, j)
    OBVIOUS
  <2>2. CASE i \in acc.generated /\ j \in acc.generated
    BY <1>1, <1>19, <2>1, <2>2 DEF NotTogether
  <2>3. CASE ~(i \in acc.generated /\ j \in acc.generated)
    BY <1>12, <1>21, <2>1, <2>3
  <2>4. QED BY <2>2, <2>3
<1>23. \A i \in 0 .. (Len(E.sections) - 1) :
         i \notin next.generated => Off(next.elf, i) = Off(E, i)
  <2>1. SUFFICES ASSUME NEW i \in 0 .. (Len(E.sections) - 1), i \notin next.generated
                 PROVE  Off(next.elf, i) = Off(E, i)
    OBVIOUS
  <2>2. i \notin acc.generated /\ i + 1 # index + 1 /\ i + 1 \in 1 .. Len(E.sections)
    BY <1>2, <1>12, <2>1
  <2>3. next.elf.sections[i + 1] = acc.elf.sections[i + 1]
    BY <1>14, <2>2
  <2>4. Off(acc.elf, i) = Off(E, i)
    BY <1>1, <2>2
  <2>5. QED BY <2>3, <2>4 DEF Off
<1>24. next.generated \subseteq 1 .. (Len(E.sections) - 1)
  BY <1>1, <1>12
<1>25. LaidSoFar(E, base, next)
  BY <1>1, <1>14, <1>15, <1>17, <1>20, <1>22, <1>23, <1>24 DEF LaidSoFar, MovedIn
<1>26. acc.pos <= Off(next.elf, index)
  BY <1>1, <1>12, <1>18
<1>27. Further(acc, next)
  BY <1>12, <1>17, <1>19, <1>26 DEF Further
<1>30. QED BY <1>12, <1>14, <1>25, <1>27 DEF Kept

LEMMA PlacedKeeps ==
  ASSUME NEW E, IsObject(E), NEW base \in Nat, NEW acc, LaidSoFar(E, base, acc), NEW seg, NEW start,
         NEW index \in 1 .. (Len(E.sections) - 1), NEW next,
         SectionPlaced(E, acc, seg, start, index, next), next.ok
  PROVE  Kept(E, base, acc, index, next)
<1>1. SameObject(E, acc.elf) /\ acc.pos \in Nat /\ next.ok
  BY DEF LaidSoFar
<1>2. Len(E.sections) \in Nat /\ index \in Nat /\ index + 1 \in 1 .. Len(E.sections)
  BY ListIs DEF IsObject
<1>3. /\ DOMAIN acc.elf = ElfFields
      /\ IsList(acc.elf.sections) /\ Len(acc.elf.sections) = Len(E.sections)
  BY <1>1 DEF SameObject
<1>4. DOMAIN next = LayFields /\ next.mem \in Nat /\ next.file \in Nat
  BY DEF SectionPlaced
<1>5. CASE index \in acc.generated
  <2>1. next.generated = acc.generated /\ next.elf = acc.elf /\ next.pos = acc.pos
    BY <1>5 DEF SectionPlaced, Counted
  <2>2. LaidSoFar(E, base, next)
    BY <1>1, <1>4, <2>1 DEF LaidSoFar
  <2>3. Further(acc, next)
    BY <1>1, <2>1 DEF Further
  <2>4. QED BY <1>5, <2>1, <2>2, <2>3 DEF Kept
<1>6. CASE index \notin acc.generated
  <2>1. PICK gap, t : NewlyPlaced(E, acc, seg, start, index, next, gap, t)
    BY <1>6 DEF SectionPlaced
  <2>2. /\ gap \in Nat /\ next.generated = acc.generated \cup {index}
        /\ next.elf = SetSection(acc.elf, t) /\ SameSection(E.sections[index + 1], t)
        /\ t.addrset /\ t.sh.offset = acc.pos + gap
        /\ next.pos = acc.pos + gap + Occupied(t)
    BY <2>1 DEF NewlyPlaced
  <2>3. t.index = index
    <3>1. IsSection(E.sections[index + 1], (index + 1) - 1) /\ (index + 1) - 1 = index
      BY <1>2 DEF IsObject
    <3>2. QED BY <2>2, <3>1 DEF IsSection, SameSection
  <2>4. /\ DOMAIN next.elf = ElfFields
        /\ next.elf.hdr = acc.elf.hdr /\ next.elf.segments = acc.elf.segments
        /\ IsList(next.elf.sections)
        /\ Len(next.elf.sections) = Len(E.sections)
        /\ next.elf.sections[index + 1] = t
        /\ \A n \in 1 .. Len(E.sections) :
             n # index + 1 => next.elf.sections[n] = acc.elf.sections[n]
    <3>1. DOMAIN acc.elf = ElfFields /\ IsList(acc.elf.sections) /\ index + 1 \in 1 .. Len(acc.elf.sections)
      BY <1>2, <1>3, Zenon
    <3>2. WithSection(acc.elf, index, t, SetSection(acc.elf, t))
      BY <1>2, <2>3, <3>1, SetSectionIs
    <3>3. QED BY <1>3, <2>2, <3>2, Zenon DEF WithSection
  <2>5. MovedIn(E, acc, index, gap, t, next)
    BY <1>4, <1>6, <2>2, <2>4 DEF MovedIn
  <2>6. QED BY <2>5, MovedInKeeps
<1>7. QED BY <1>5, <1>6

----------------------------------------
(* The sections of a segment *)

Placing(acc, seg, start) == Fold("place", [seg |-> seg, start |-> start], acc, seg.sections)
PlacingRuns(h, acc, seg, start, N) ==
  Runs(h, "place", [seg |-> seg, start |-> start], acc, seg.sections, N)

FirstSections(seg, k) == { seg.sections[j] : j \in 1 .. k }

(* The segment of an object, as far as the layout looks at it. *)
HasSections(E, seg) ==
  /\ seg.ph.vaddr \in Addresses /\ IsList(seg.sections) /\ Increasing(seg.sections)
  /\ \A k \in 1 .. Len(seg.sections) : seg.sections[k] \in 1 .. (Len(E.sections) - 1)

PlacedSoFar(E, base, acc, seg, k, a) ==
  /\ LaidSoFar(E, base, a) /\ Further(acc, a) /\ a.elf.segments = acc.elf.segments
  /\ a.generated = acc.generated \cup FirstSections(seg, k)

(* A section that lies at the start of its segment has the segment's address. *)
AtStart(seg, start, e, i) ==
  /\ start <= Off(e, i)
  /\ Off(e, i) = start /\ Occ(e, i) # 0 => e.sections[i + 1].sh.addr = seg.ph.vaddr

(* None of the segment's sections had a place: they begin where the segment starts. *)
FreshSoFar(acc, seg, start, a) ==
  /\ start <= a.pos /\ (a.file > 0 => start < a.pos)
  /\ \A i \in a.generated \ acc.generated : AtStart(seg, start, a.elf, i)

LEMMA StillLaid ==
  ASSUME NEW acc, NEW seg, NEW start, NEW index, PlaceSection(acc, seg, start, index).ok
  PROVE  acc.ok
<1>1. ~acc.ok => PlaceSection(acc, seg, start, index) = acc
  BY DEF PlaceSection
<1>2. QED BY <1>1

LEMMA FurtherReflexive ==
  ASSUME NEW acc, acc.pos \in Nat
  PROVE  Further(acc, acc)
  BY DEF Further

LEMMA OffsetsAre ==
  ASSUME NEW E, IsObject(E), NEW base \in Nat, NEW acc, LaidSoFar(E, base, acc)
  PROVE  \A i \in acc.generated : Off(acc.elf, i) \in Nat /\ Occ(acc.elf, i) \in Nat
<1>1. SUFFICES ASSUME NEW i \in acc.generated
               PROVE  Off(acc.elf, i) \in Nat /\ Occ(acc.elf, i) \in Nat
  OBVIOUS
<1>2. Len(E.sections) \in Nat /\ i + 1 \in 1 .. Len(E.sections)
  BY ListIs DEF IsObject, LaidSoFar
<1>3. SameSection(E.sections[i + 1], acc.elf.sections[i + 1])
  BY <1>2 DEF LaidSoFar, SameObject
<1>4. QED BY <1>2, <1>3, OccIs DEF Off, Occ

(* One more section of the segment. *)
OneMore(E, base, acc, seg, start, k, a, next) ==
  /\ PlacedSoFar(E, base, acc, seg, k, next)
  /\ SectionPlaced(E, a, seg, start, seg.sections[k], next)
  /\ Further(a, next) /\ next.generated = a.generated \cup {seg.sections[k]}

LEMMA PlacedOneMore ==
  ASSUME MaxSize \in Nat \ {0}, NEW E, IsObject(E), NEW base \in Nat, NEW acc,
         LaidSoFar(E, base, acc), NEW seg, HasSections(E, seg), NEW start \in Nat,
         NEW k \in 1 .. Len(seg.sections), NEW a, PlacedSoFar(E, base, acc, seg, k - 1, a),
         NEW next, next = PlaceSection(a, seg, start, seg.sections[k]), next.ok
  PROVE  OneMore(E, base, acc, seg, start, k, a, next)
<1>1. PICK index \in 1 .. (Len(E.sections) - 1) : index = seg.sections[k]
  BY DEF HasSections
<1>2. LaidSoFar(E, base, a) /\ seg.ph.vaddr \in Addresses
  BY DEF PlacedSoFar, HasSections
<1>3. SectionPlaced(E, a, seg, start, index, next)
  BY <1>1, <1>2, PlaceSectionIs
<1>4. /\ LaidSoFar(E, base, next) /\ Further(a, next)
      /\ next.elf.segments = a.elf.segments
      /\ next.generated = a.generated \cup {index}
  <2>1. Kept(E, base, a, index, next)
    BY <1>2, <1>3, PlacedKeeps
  <2>2. QED BY <2>1 DEF Kept
<1>5. Further(acc, next)
  <2>1. acc.pos \in Nat /\ a.pos \in Nat /\ next.pos \in Nat
    BY <1>2, <1>4 DEF LaidSoFar
  <2>2. \A i \in next.generated : Off(next.elf, i) \in Nat
    BY <1>4, OffsetsAre
  <2>3. Further(acc, a)
    BY DEF PlacedSoFar
  <2>4. QED BY <1>4, <2>1, <2>2, <2>3, FurtherTransitive
<1>6. next.generated = acc.generated \cup FirstSections(seg, k)
  <2>1. Len(seg.sections) \in Nat
    BY ListIs DEF HasSections
  <2>2. FirstSections(seg, k) = FirstSections(seg, k - 1) \cup {index}
    <3>1. 1 .. k = (1 .. (k - 1)) \cup {k}
      BY <2>1
    <3>2. QED BY <1>1, <3>1 DEF FirstSections
  <2>3. a.generated = acc.generated \cup FirstSections(seg, k - 1)
    BY DEF PlacedSoFar
  <2>4. QED BY <1>4, <2>2, <2>3
<1>7. next.elf.segments = acc.elf.segments
  BY <1>4 DEF PlacedSoFar
<1>8. QED BY <1>1, <1>3, <1>4, <1>5, <1>6, <1>7 DEF PlacedSoFar, OneMore

LEMMA PlacingIs ==
  ASSUME MaxSize \in Nat \ {0}, NEW E, IsObject(E), NEW base \in Nat, NEW acc,
         LaidSoFar(E, base, acc), NEW seg, HasSections(E, seg), NEW start \in Nat,
         Placing(acc, seg, start).ok
  PROVE  /\ PlacedSoFar(E, base, acc, seg, Len(seg.sections), Placing(acc, seg, start))
         /\ (/\ acc.pos = start /\ acc.file = 0
             /\ \A k \in 1 .. Len(seg.sections) : seg.sections[k] \notin acc.generated)
              => FreshSoFar(acc, seg, start, Placing(acc, seg, start))
         /\ (\A k \in 1 .. Len(seg.sections) : seg.sections[k] \in acc.generated)
              => Counted(acc, Placing(acc, seg, start))
<1>1. PICK N \in Nat : N = Len(seg.sections) /\ DOMAIN seg.sections = 1 .. N
  BY ListIs DEF HasSections
<1>2. PICK h : PlacingRuns(h, acc, seg, start, N)
  BY <1>1, FoldSteps DEF PlacingRuns
<1>3. /\ h[0] = acc
      /\ \A k \in 1 .. N : h[k] = PlaceSection(h[k - 1], seg, start, seg.sections[k])
      /\ h[N] = Placing(acc, seg, start)
  BY <1>2 DEF PlacingRuns, Runs, Body, Placing
<1>4. /\ acc.ok /\ acc.pos \in Nat /\ acc.file \in Nat
      /\ acc.generated \subseteq 1 .. (Len(E.sections) - 1)
  BY DEF LaidSoFar
<1> DEFINE New == /\ acc.pos = start /\ acc.file = 0
                  /\ \A k \in 1 .. N : seg.sections[k] \notin acc.generated
           Old == \A k \in 1 .. N : seg.sections[k] \in acc.generated
           Inv(k) == /\ PlacedSoFar(E, base, acc, seg, k, h[k])
                     /\ New => FreshSoFar(acc, seg, start, h[k])
                     /\ Old => Counted(acc, h[k])
           P == { k \in 0 .. N : h[k].ok => Inv(k) }
<1>5. 0 \in P
  <2>1. FirstSections(seg, 0) = {}
    BY DEF FirstSections
  <2>2. PlacedSoFar(E, base, acc, seg, 0, acc)
    BY <1>4, <2>1, FurtherReflexive DEF PlacedSoFar
  <2>3. New => FreshSoFar(acc, seg, start, acc)
    BY <1>4 DEF FreshSoFar
  <2>4. Counted(acc, acc)
    BY DEF Counted
  <2>5. QED BY <1>3, <2>2, <2>3, <2>4
<1>6. ASSUME NEW k \in 1 .. N, k - 1 \in P, h[k].ok PROVE Inv(k)
  <2>1. PICK a : a = h[k - 1]
    OBVIOUS
  <2>2. PICK next : next = h[k] /\ next = PlaceSection(a, seg, start, seg.sections[k]) /\ next.ok
    BY <1>3, <1>6, <2>1
  <2>3. a.ok
    BY <2>2, StillLaid
  <2>4. /\ PlacedSoFar(E, base, acc, seg, k - 1, a)
        /\ New => FreshSoFar(acc, seg, start, a)
        /\ Old => Counted(acc, a)
    BY <1>6, <2>1, <2>3
  <2>5. /\ PlacedSoFar(E, base, acc, seg, k, next)
        /\ SectionPlaced(E, a, seg, start, seg.sections[k], next)
        /\ Further(a, next) /\ next.generated = a.generated \cup {seg.sections[k]}
    <3>1. k \in 1 .. Len(seg.sections)
      BY <1>1
    <3>2. OneMore(E, base, acc, seg, start, k, a, next)
      BY <2>2, <2>4, <3>1, PlacedOneMore
    <3>3. QED BY <3>2 DEF OneMore
  <2>6. PICK index \in 1 .. (Len(E.sections) - 1) : index = seg.sections[k]
    BY <1>1 DEF HasSections
  <2>7. LaidSoFar(E, base, a) /\ LaidSoFar(E, base, next)
    BY <2>4, <2>5 DEF PlacedSoFar
  <2>8. ASSUME New PROVE FreshSoFar(acc, seg, start, next)
    <3>1. /\ start <= a.pos /\ (a.file > 0 => start < a.pos)
          /\ \A i \in a.generated \ acc.generated : AtStart(seg, start, a.elf, i)
      BY <2>4, <2>8 DEF FreshSoFar
    <3>2. index \notin a.generated
      <4>1. index \notin acc.generated
        BY <2>6, <2>8
      <4>2. index \notin FirstSections(seg, k - 1)
        <5>1. SUFFICES ASSUME NEW j \in 1 .. (k - 1), seg.sections[j] = index PROVE FALSE
          BY DEF FirstSections
        <5>2. seg.sections[j] < seg.sections[k]
          BY <1>1 DEF HasSections, Increasing
        <5>3. QED BY <2>6, <5>1, <5>2
      <4>3. QED BY <2>4, <4>1, <4>2 DEF PlacedSoFar
    <3>3. PICK gap, t : NewlyPlaced(E, a, seg, start, index, next, gap, t)
      BY <2>5, <2>6, <3>2 DEF SectionPlaced
    <3>4. /\ gap \in Nat /\ next.elf = SetSection(a.elf, t)
          /\ SameSection(E.sections[index + 1], t)
          /\ t.sh.offset = a.pos + gap /\ next.pos = a.pos + gap + Occupied(t)
          /\ next.file = a.file + (IF t.sh.type = "NOBITS" THEN 0 ELSE t.sh.size + gap)
          /\ a.pos + gap = start /\ t.sh.type # "NOBITS" /\ t.sh.size # 0
             => t.sh.addr = seg.ph.vaddr
      BY <3>1, <3>3 DEF NewlyPlaced
    <3>5. Len(E.sections) \in Nat /\ index + 1 \in 1 .. Len(E.sections)
      <4>1. PICK m \in Nat : m = Len(E.sections)
        BY ListIs, Zenon DEF IsObject
      <4>2. index \in 1 .. (m - 1)
        BY <2>6, <4>1, Zenon
      <4>3. index + 1 \in 1 .. m
        BY <4>1, <4>2
      <4>4. QED BY <4>1, <4>3, Zenon
    <3>6. Occupied(t) \in Nat /\ t.sh.size \in Nat
      BY <3>4, <3>5, OccIs
    <3>7. a.pos \in Nat /\ a.file \in Nat /\ next.pos \in Nat
      BY <2>7 DEF LaidSoFar
    <3>8. start <= next.pos
      BY <3>1, <3>4, <3>6, <3>7
    <3>9. next.file > 0 => start < next.pos
      <4>1. CASE t.sh.type = "NOBITS"
        BY <3>1, <3>4, <3>6, <3>7, <4>1
      <4>2. CASE t.sh.type # "NOBITS"
        <5>1. Occupied(t) = t.sh.size
          BY <4>2 DEF Occupied
        <5>2. next.file = a.file + (t.sh.size + gap)
          BY <3>4, <4>2
        <5>3. next.pos = a.pos + gap + t.sh.size
          BY <3>4, <5>1
        <5>4. QED
          <6>1. PICK p \in Nat, f \in Nat, z \in Nat, g \in Nat :
                  p = a.pos /\ f = a.file /\ z = t.sh.size /\ g = gap
            BY <3>4, <3>6, <3>7, Zenon
          <6>2. start <= p /\ (f > 0 => start < p)
            BY <3>1, <6>1, Zenon
          <6>3. f + (z + g) > 0 => start < p + g + z
            BY <6>2
          <6>4. QED BY <5>2, <5>3, <6>1, <6>3, Zenon
      <4>3. QED BY <4>1, <4>2
    <3>10. next.elf.sections[index + 1] = t
      <4>1. t.index = index
        <5>1. IsSection(E.sections[index + 1], (index + 1) - 1) /\ (index + 1) - 1 = index
          BY <3>5 DEF IsObject
        <5>2. QED BY <3>4, <5>1 DEF IsSection, SameSection
      <4>2. /\ DOMAIN a.elf = ElfFields /\ IsList(a.elf.sections)
            /\ Len(a.elf.sections) = Len(E.sections)
        BY <2>7 DEF LaidSoFar, SameObject
      <4>3. QED BY <3>4, <3>5, <4>1, <4>2, SetSectionIs DEF WithSection
    <3>11. AtStart(seg, start, next.elf, index)
      <4>1. Off(next.elf, index) = a.pos + gap /\ Occ(next.elf, index) = Occupied(t)
        BY <3>4, <3>10 DEF Off, Occ
      <4>2. Occupied(t) # 0 => t.sh.type # "NOBITS" /\ t.sh.size # 0
        BY <3>6 DEF Occupied
      <4>3. start <= Off(next.elf, index)
        BY <3>1, <3>4, <3>7, <4>1
      <4>4. Off(next.elf, index) = start /\ Occ(next.elf, index) # 0
            => next.elf.sections[index + 1].sh.addr = seg.ph.vaddr
        BY <3>4, <3>10, <4>1, <4>2
      <4>5. QED BY <4>3, <4>4 DEF AtStart
    <3>12. \A i \in next.generated \ acc.generated : AtStart(seg, start, next.elf, i)
      <4>1. SUFFICES ASSUME NEW i \in next.generated, i \notin acc.generated
                     PROVE  AtStart(seg, start, next.elf, i)
        OBVIOUS
      <4>2. CASE i = index
        BY <3>11, <4>2
      <4>3. CASE i # index
        <5>1. i \in a.generated /\ AtStart(seg, start, a.elf, i)
          BY <2>5, <2>6, <3>1, <4>1, <4>3
        <5>2. next.elf.sections[i + 1] = a.elf.sections[i + 1]
          BY <2>5, <5>1 DEF Further
        <5>3. QED BY <5>1, <5>2 DEF AtStart, Off, Occ
      <4>4. QED BY <4>2, <4>3
    <3>13. QED BY <3>8, <3>9, <3>12 DEF FreshSoFar
  <2>9. ASSUME Old PROVE Counted(acc, next)
    <3>1. Counted(acc, a)
      BY <2>4, <2>9
    <3>2. index \in a.generated
      BY <2>6, <2>9, <3>1 DEF Counted
    <3>3. Counted(a, next)
      BY <2>5, <2>6, <3>2 DEF SectionPlaced
    <3>4. QED BY <3>1, <3>3 DEF Counted
  <2>10. QED BY <2>2, <2>5, <2>8, <2>9
<1>7. \A k \in 0 .. N : k \in P
  <2>1. ASSUME NEW k \in 1 .. N, k - 1 \in P PROVE k \in P
    BY <1>6, <2>1
  <2> HIDE DEF P
  <2>2. QED BY <1>5, <2>1, Induction
<1>8. N \in P
  BY <1>7
<1>9. Inv(N)
  BY <1>3, <1>8
<1>10. QED BY <1>1, <1>3, <1>9

----------------------------------------
(* One segment *)

(* What the layout is made of: a sensible object with its tables counted. *)
Ready(E) ==
  /\ IsObject(E) /\ Sensible(E)
  /\ E.hdr.ehsize \in Nat \ {0} /\ E.hdr.phentsize \in Nat \ {0}
  /\ E.hdr.phnum = Len(E.segments) /\ E.hdr.phoff \in Nat
  /\ E.segments # << >> => E.hdr.phoff = E.hdr.ehsize
  /\ E.pos = E.hdr.ehsize + E.hdr.phentsize * E.hdr.phnum

(* Section i, if it is a program section with the offset of segment s in it, has the *)
(* address of s there.                                                                *)
Agrees(e, i, s) ==
  LET sec == e.sections[i + 1]
  IN  sec.sh.type = "PROGBITS" /\ is_offset_in_section(s.ph.offset, sec)
        => get_virtual_addr(s.ph.offset, sec) = s.ph.vaddr

SegmentDone(acc, s) ==
  /\ s.offset_set = TRUE /\ s.ph.offset \in Nat \ {0} /\ s.ph.filesz \in Nat
  /\ s.ph.type = "LOAD" /\ s.ph.filesz > 0
       => s.ph.offset < acc.pos /\ \A i \in acc.generated : Agrees(acc.elf, i, s)

(* The first k of the ordered segments have their places. *)
LayoutSoFar(E, r, k, acc) ==
  /\ LaidSoFar(E, E.pos, acc)
  /\ acc.generated = UNION { SectionsOf(r[j]) : j \in 1 .. k }
  /\ \A j \in 1 .. k : SegmentDone(acc, acc.elf.segments[r[j].index + 1])

InOrderOf(E, r) == InOrder(E.segments, r)

LEMMA ReadyIs ==
  ASSUME NEW E, Ready(E)
  PROVE  /\ Len(E.sections) \in Nat /\ Len(E.segments) \in Nat /\ Len(E.sections) >= 2
         /\ E.pos \in Nat \ {0} /\ E.hdr.phoff \in Nat
<1>1. Len(E.sections) \in Nat /\ Len(E.segments) \in Nat /\ Len(E.sections) >= 2
  BY ListIs DEF Ready, IsObject
<1>2. PICK n \in Nat : n = E.hdr.phnum
  BY <1>1 DEF Ready
<1>3. PICK p \in Nat : p = E.hdr.phentsize
  BY DEF Ready
<1>4. p * n \in Nat
  BY <1>2, <1>3
<1>5. E.pos = E.hdr.ehsize + p * n /\ E.hdr.ehsize \in Nat \ {0} /\ E.hdr.phoff \in Nat
  BY <1>2, <1>3 DEF Ready
<1>6. QED BY <1>1, <1>4, <1>5

(* The segments in their order are the object's. *)
SegmentOf(E, seg) ==
  /\ seg.index + 1 \in 1 .. Len(E.segments) /\ seg = E.segments[seg.index + 1]
  /\ IsSegment(seg, seg.index, Len(E.sections)) /\ seg.index \in Nat

LEMMA OrderedSegment ==
  ASSUME NEW E, IsObject(E), NEW r, InOrderOf(E, r), NEW q \in 1 .. Len(r)
  PROVE  SegmentOf(E, r[q])
<1>1. PICK n \in 1 .. Len(E.segments) : r[q] = E.segments[n]
  BY DEF InOrderOf, InOrder, Among
<1>2. IsSegment(r[q], n - 1, Len(E.sections)) /\ Len(E.segments) \in Nat
  BY <1>1, ListIs DEF IsObject
<1>3. r[q].index = n - 1 /\ n - 1 \in Nat /\ (n - 1) + 1 = n
  BY <1>2 DEF IsSegment
<1>4. QED BY <1>1, <1>2, <1>3 DEF SegmentOf

LEMMA SegmentHasSections ==
  ASSUME NEW E, IsObject(E), NEW seg, SegmentOf(E, seg)
  PROVE  /\ HasSections(E, seg) /\ seg.ph.align \in Nat /\ Len(seg.sections) \in Nat
         /\ SectionsOf(seg) = { seg.sections[k] : k \in 1 .. Len(seg.sections) }
         /\ SectionsOf(seg) = FirstSections(seg, Len(seg.sections))
         /\ ~(seg.offset_set /\ seg.ph.offset = 0)
<1>1. /\ seg.ph.vaddr \in Addresses /\ IsList(seg.sections) /\ Increasing(seg.sections)
      /\ seg.ph.align \in Nat /\ (seg.offset_set => seg.ph.offset # 0)
      /\ \A k \in 1 .. Len(seg.sections) : seg.sections[k] \in 1 .. (Len(E.sections) - 1)
  BY DEF SegmentOf, IsSegment
<1>2. DOMAIN seg.sections = 1 .. Len(seg.sections) /\ Len(seg.sections) \in Nat
  BY <1>1, ListIs
<1>3. SectionsOf(seg) = { seg.sections[k] : k \in 1 .. Len(seg.sections) }
  BY <1>2 DEF SectionsOf, ToSet
<1>4. QED BY <1>1, <1>2, <1>3 DEF HasSections, FirstSections

(* A list without repetitions is longer than one of a part of its members. *)
LEMMA FewerSections ==
  ASSUME NEW s, NEW t, IsList(s), IsList(t), Increasing(s), Increasing(t),
         \A k \in 1 .. Len(s) : s[k] \in Nat, \A k \in 1 .. Len(t) : t[k] \in Nat,
         ToSet(s) \subseteq ToSet(t), ToSet(s) # ToSet(t)
  PROVE  Len(s) < Len(t)
<1>1. /\ Len(s) \in Nat /\ Len(t) \in Nat /\ DOMAIN s = 1 .. Len(s) /\ DOMAIN t = 1 .. Len(t)
  BY ListIs
<1>2. IsFiniteSet(1 .. Len(s)) /\ IsFiniteSet(1 .. Len(t))
      /\ Cardinality(1 .. Len(s)) = Len(s) /\ Cardinality(1 .. Len(t)) = Len(t)
  <2>1. ASSUME NEW n \in Nat PROVE IsFiniteSet(1 .. n) /\ Cardinality(1 .. n) = n
    <3>1. IsFiniteSet(1 .. n) /\ Cardinality(1 .. n) = IF 1 > n THEN 0 ELSE n - 1 + 1
      BY FS_Interval
    <3>2. QED BY <3>1
  <2>2. QED BY <1>1, <2>1
<1>3. ToSet(s) = { s[k] : k \in 1 .. Len(s) } /\ ToSet(t) = { t[k] : k \in 1 .. Len(t) }
  BY <1>1 DEF ToSet
<1>4. IsFiniteSet(ToSet(t)) /\ Cardinality(ToSet(t)) <= Len(t)
  <2>1. t \in Surjection(1 .. Len(t), ToSet(t))
    <3>1. t = [k \in 1 .. Len(t) |-> t[k]]
      BY ListIs
    <3>2. t \in [1 .. Len(t) -> ToSet(t)]
      BY <1>3, <3>1
    <3>3. QED BY <1>3, <3>2 DEF Surjection
  <2>2. QED BY <1>2, <2>1, FS_Surjection
<1>5. IsFiniteSet(ToSet(s)) /\ Cardinality(ToSet(s)) < Cardinality(ToSet(t))
      /\ Cardinality(ToSet(t)) \in Nat
  BY <1>4, FS_Subset, FS_CardinalityType
<1>6. Cardinality(ToSet(s)) = Len(s)
  <2>1. \A a, b \in 1 .. Len(s) : s[a] = s[b] => a = b
    <3>1. SUFFICES ASSUME NEW a \in 1 .. Len(s), NEW b \in 1 .. Len(s), s[a] = s[b], a < b PROVE FALSE
      BY <1>1
    <3>2. a \in 1 .. (b - 1) /\ s[a] \in Nat /\ s[b] \in Nat
      BY <1>1, <3>1
    <3>3. s[a] < s[b]
      BY <3>2 DEF Increasing
    <3>4. QED BY <3>1, <3>2, <3>3
  <2>2. s \in Surjection(1 .. Len(s), ToSet(s)) /\ s \in Injection(1 .. Len(s), ToSet(s))
    <3>1. s = [k \in 1 .. Len(s) |-> s[k]]
      BY ListIs
    <3>2. s \in [1 .. Len(s) -> ToSet(s)]
      BY <1>3, <3>1
    <3>3. QED
      <4>1. s \in Surjection(1 .. Len(s), ToSet(s))
        BY <1>3, <3>2 DEF Surjection
      <4>2. IsInjective(s)
        BY <1>1, <2>1 DEF IsInjective
      <4>3. s \in Injection(1 .. Len(s), ToSet(s))
        BY <3>2, <4>2 DEF Injection
      <4>4. QED BY <4>1, <4>3
  <2>3. QED BY <1>2, <2>2, FS_Surjection
<1>7. Cardinality(ToSet(s)) \in Nat
  BY <1>1, <1>6
<1>8. QED BY <1>1, <1>4, <1>5, <1>6

----------------------------------------
(* Segments that share sections *)

(* Every segment is in the order once. *)
LEMMA OrderedOnce ==
  ASSUME NEW E, IsObject(E), NEW r, InOrderOf(E, r), NEW a \in 1 .. Len(r), NEW b \in 1 .. Len(r),
         r[a].index = r[b].index
  PROVE  a = b
<1>1. PICK L \in Nat : L = Len(r) /\ L = Len(E.segments)
  BY ListIs DEF InOrderOf, InOrder
<1> DEFINE f == [q \in 1 .. L |-> r[q].index + 1]
<1>2. \A q \in 1 .. L : r[q].index + 1 \in 1 .. L
  <2>1. SUFFICES ASSUME NEW q \in 1 .. L PROVE r[q].index + 1 \in 1 .. L
    OBVIOUS
  <2>2. SegmentOf(E, r[q])
    BY <1>1, OrderedSegment
  <2>3. QED BY <1>1, <2>2 DEF SegmentOf
<1>3. \A n \in 1 .. L : \E q \in 1 .. L : r[q].index + 1 = n
  <2>1. SUFFICES ASSUME NEW n \in 1 .. L PROVE \E q \in 1 .. L : r[q].index + 1 = n
    OBVIOUS
  <2>2. PICK q \in 1 .. L : E.segments[n] = r[q]
    BY <1>1 DEF InOrderOf, InOrder, Among
  <2>3. E.segments[n].index = n - 1
    BY <1>1 DEF IsObject, IsSegment
  <2>4. QED BY <2>2, <2>3
<1>4. f \in Surjection(1 .. L, 1 .. L)
  BY <1>2, <1>3 DEF Surjection
<1>5. IsFiniteSet(1 .. L)
  BY <1>1, FS_Interval
<1>6. f \in Injection(1 .. L, 1 .. L)
  <2> HIDE DEF f
  <2>1. QED BY <1>4, <1>5, FS_Surjection
<1>7. IsInjective(f) /\ DOMAIN f = 1 .. L
  BY <1>6 DEF Injection
<1>8. f[a] = r[a].index + 1 /\ f[b] = r[b].index + 1 /\ a \in DOMAIN f /\ b \in DOMAIN f
  BY <1>1, Zenon
<1>9. f[a] = f[b]
  <2> HIDE DEF f
  <2>1. QED BY <1>8, Zenon
<1>10. QED
  <2> HIDE DEF f
  <2>1. QED BY <1>7, <1>8, <1>9 DEF IsInjective

(* A segment that has a section in common with one before it has all its sections in it, *)
(* and begins with one that has bytes, at the segment's address.                         *)
SharesWith(E, seg, m) ==
  /\ SectionsOf(seg) \subseteq SectionsOf(m)
  /\ LET first == E.sections[seg.sections[1] + 1]
     IN  /\ first.addrset /\ first.sh.addr = seg.ph.vaddr
         /\ first.sh.type # "NOBITS" /\ first.sh.size # 0

LEMMA SharingIs ==
  ASSUME NEW E, Ready(E), NEW r, InOrderOf(E, r), NEW b \in 1 .. Len(r), NEW a \in 1 .. (b - 1),
         NEW i, i \in SectionsOf(r[a]), i \in SectionsOf(r[b])
  PROVE  SharesWith(E, r[b], r[a])
<1>1. PICK L \in Nat : L = Len(r)
  BY ListIs DEF InOrderOf, InOrder
<1>2. a \in 1 .. Len(r) /\ a # b /\ IsObject(E)
  BY <1>1 DEF Ready
<1>3. SegmentOf(E, r[a]) /\ SegmentOf(E, r[b])
  BY <1>2, OrderedSegment
<1>4. r[a].index # r[b].index
  BY <1>2, OrderedOnce
<1>5. PICK m, n : m = r[a].index + 1 /\ n = r[b].index + 1
  OBVIOUS
<1>6. /\ m \in DOMAIN E.segments /\ n \in DOMAIN E.segments /\ m # n
      /\ r[a] = E.segments[m] /\ r[b] = E.segments[n]
  <2>1. DOMAIN E.segments = 1 .. Len(E.segments)
    BY <1>2, ListIs DEF IsObject
  <2>2. QED BY <1>3, <1>4, <1>5, <2>1 DEF SegmentOf
<1>7. ~Apart(E, n, m)
  BY <1>6, Zenon DEF Apart
<1>8. /\ Within(E, n, m) \/ Within(E, m, n)
      /\ LET first == E.sections[E.segments[n].sections[1] + 1]
         IN  /\ first.addrset /\ first.sh.addr = E.segments[n].ph.vaddr
             /\ first.sh.type # "NOBITS" /\ first.sh.size # 0
  BY <1>6, <1>7, Zenon DEF Ready, Sensible
<1>9. ~is_subsequence_of(r[a], r[b])
  BY DEF InOrderOf, InOrder
<1>10. SectionsOf(r[b]) \subseteq SectionsOf(r[a])
  <2>1. SUFFICES ASSUME SectionsOf(r[a]) \subseteq SectionsOf(r[b]), SectionsOf(r[a]) # SectionsOf(r[b])
                 PROVE  FALSE
    BY <1>6, <1>8 DEF Within
  <2>2. /\ HasSections(E, r[a]) /\ HasSections(E, r[b])
    BY <1>2, <1>3, SegmentHasSections
  <2>3. Len(E.sections) \in Nat
    BY <1>2, ListIs DEF IsObject
  <2>4. Len(r[a].sections) < Len(r[b].sections)
    <3>1. PICK s, t : s = r[a].sections /\ t = r[b].sections
      OBVIOUS
    <3>2. /\ IsList(s) /\ IsList(t) /\ Increasing(s) /\ Increasing(t)
          /\ \A k \in 1 .. Len(s) : s[k] \in Nat
          /\ \A k \in 1 .. Len(t) : t[k] \in Nat
      BY <2>2, <2>3, <3>1 DEF HasSections
    <3>3. ToSet(s) \subseteq ToSet(t) /\ ToSet(s) # ToSet(t)
      BY <2>1, <3>1 DEF SectionsOf
    <3>4. Len(s) < Len(t)
      BY <3>2, <3>3, FewerSections
    <3>5. QED BY <3>1, <3>4
  <2>5. QED
    <3>1. Includes(r[b].sections, r[a].sections)
      BY <2>1, ZenonT(40) DEF Includes, SectionsOf
    <3>2. QED BY <1>9, <2>4, <3>1, Zenon DEF is_subsequence_of
<1>11. QED BY <1>6, <1>8, <1>10, Zenon DEF SharesWith

----------------------------------------
(* Where a segment starts *)

StartsAt(acc, seg, at) ==
  /\ at.start \in Nat \ {0} /\ at.pos \in Nat /\ acc.pos <= at.pos /\ at.size \in Nat
  /\ seg.ph.type = "LOAD" => at.size = 0
  /\ \/ seg.sections = << >>
     \/ /\ seg.sections # << >> /\ seg.sections[1] \notin acc.generated
        /\ at.start = at.pos /\ at.size = 0
     \/ /\ seg.sections # << >> /\ seg.sections[1] \in acc.generated
        /\ at.start = Off(acc.elf, seg.sections[1])

LEMMA MovedIs ==
  ASSUME MaxSize \in Nat \ {0}, NEW pos \in Nat, NEW v \in Nat, NEW a \in Nat
  PROVE  LET align == IF a > 0 THEN a ELSE 1
             moved == pos + ((Minus(v % align, pos % align) + a) % align)
         IN  moved \in Nat /\ pos <= moved
<1>1. PICK align \in Nat \ {0} : align = IF a > 0 THEN a ELSE 1
  OBVIOUS
<1>2. PICK x \in Nat, y \in Nat : x = v % align /\ y = pos % align
  BY <1>1
<1>3. PICK z \in Nat : z = Minus(x, y)
  BY MinusIs DEF Addresses
<1>4. PICK w \in Nat : w = z + a
  BY <1>3
<1>5. w % align \in Nat
  BY <1>1, <1>4
<1>6. pos + (w % align) \in Nat /\ pos <= pos + (w % align)
  BY <1>5
<1>7. QED BY <1>1, <1>2, <1>3, <1>4, <1>6

LEMMA SegmentStartIs ==
  ASSUME MaxSize \in Nat \ {0}, NEW E, Ready(E), NEW acc, LaidSoFar(E, E.pos, acc),
         NEW seg, SegmentOf(E, seg)
  PROVE  StartsAt(acc, seg, SegmentStart(acc, seg))
<1>1. /\ IsObject(E) /\ E.pos \in Nat \ {0} /\ E.hdr.phoff \in Nat
      /\ Len(E.segments) \in Nat /\ Len(E.sections) \in Nat
  BY ReadyIs DEF Ready
<1>2. /\ acc.pos \in Nat /\ E.pos <= acc.pos /\ acc.elf.hdr = E.hdr
      /\ \A i \in acc.generated : E.pos <= Off(acc.elf, i)
  BY DEF LaidSoFar
<1>3. /\ HasSections(E, seg) /\ seg.ph.align \in Nat /\ ~(seg.offset_set /\ seg.ph.offset = 0)
  BY <1>1, SegmentHasSections
<1>4. E.hdr.phoff \in Nat \ {0}
  <2>1. E.segments # << >>
    BY <1>1, ListEmpty DEF SegmentOf, IsObject
  <2>2. QED BY <1>1, <2>1 DEF Ready
<1>5. PICK table \in Nat : table = E.hdr.phentsize * E.hdr.phnum
  BY <1>1 DEF Ready
<1>6. PICK align : align = IF seg.ph.align > 0 THEN seg.ph.align ELSE 1
  OBVIOUS
<1>7. PICK moved : moved = acc.pos + ((Minus(seg.ph.vaddr % align, acc.pos % align) + seg.ph.align) % align)
  OBVIOUS
<1>8. moved \in Nat /\ acc.pos <= moved
  <2>1. seg.ph.vaddr \in Nat
    BY <1>3 DEF HasSections, Addresses
  <2>2. QED BY <1>2, <1>3, <1>6, <1>7, <2>1, MovedIs
<1>9. SegmentStart(acc, seg) =
        IF seg.ph.type = "PHDR" /\ seg.sections = << >>
        THEN [start |-> E.hdr.phoff, pos |-> acc.pos, size |-> table]
        ELSE IF seg.sections = << >> THEN [start |-> acc.pos, pos |-> acc.pos, size |-> 0]
        ELSE IF seg.sections[1] \notin acc.generated
        THEN [start |-> moved, pos |-> moved, size |-> 0]
        ELSE [start |-> Off(acc.elf, seg.sections[1]), pos |-> acc.pos, size |-> 0]
  BY <1>2, <1>3, <1>5, <1>6, <1>7 DEF SegmentStart, Off
<1>10. PICK at : at = SegmentStart(acc, seg)
  OBVIOUS
<1>11. CASE seg.ph.type = "PHDR" /\ seg.sections = << >>
  <2>1. at = [start |-> E.hdr.phoff, pos |-> acc.pos, size |-> table]
    BY <1>9, <1>10, <1>11
  <2>2. QED BY <1>2, <1>4, <1>10, <1>11, <2>1 DEF StartsAt
<1>12. CASE seg.ph.type # "PHDR" /\ seg.sections = << >>
  <2>1. at = [start |-> acc.pos, pos |-> acc.pos, size |-> 0]
    BY <1>9, <1>10, <1>12
  <2>2. QED BY <1>1, <1>2, <1>10, <1>12, <2>1 DEF StartsAt
<1>13. CASE seg.sections # << >> /\ seg.sections[1] \notin acc.generated
  <2>1. at = [start |-> moved, pos |-> moved, size |-> 0]
    BY <1>9, <1>10, <1>13
  <2>2. QED BY <1>1, <1>2, <1>8, <1>10, <1>13, <2>1 DEF StartsAt
<1>14. CASE seg.sections # << >> /\ seg.sections[1] \in acc.generated
  <2>1. at = [start |-> Off(acc.elf, seg.sections[1]), pos |-> acc.pos, size |-> 0]
    BY <1>9, <1>10, <1>14
  <2>2. Off(acc.elf, seg.sections[1]) \in Nat /\ E.pos <= Off(acc.elf, seg.sections[1])
    BY <1>1, <1>2, <1>14, OffsetsAre
  <2>3. Off(acc.elf, seg.sections[1]) \in Nat \ {0}
    BY <1>1, <2>2
  <2>4. QED BY <1>2, <1>10, <1>14, <2>1, <2>3 DEF StartsAt
<1>15. QED BY <1>11, <1>12, <1>13, <1>14

----------------------------------------
(* LayoutSegment *)

Begun(acc, at) == [acc EXCEPT !.pos = at.pos, !.mem = at.size, !.file = at.size]
PlacingOf(acc, seg) == Placing(Begun(acc, SegmentStart(acc, seg)), seg, SegmentStart(acc, seg).start)

LEMMA PlacingIsLoop ==
  ASSUME NEW base, NEW seg, NEW start
  PROVE  PlaceAll(base, seg, start) = Placing(base, seg, start)
  BY DEF PlaceAll, Placing, Fold, FoldLeft, MapThenFoldSet, Body

LEMMA LayoutSegmentForm ==
  ASSUME NEW acc, NEW seg
  PROVE  LayoutSegment(acc, seg) =
           IF ~acc.ok THEN acc
           ELSE IF ~PlacingOf(acc, seg).ok THEN PlacingOf(acc, seg)
           ELSE [PlacingOf(acc, seg) EXCEPT !.elf.segments[seg.index + 1] =
                   Marked(@, SegmentStart(acc, seg).start, PlacingOf(acc, seg))]
<1> DEFINE at == SegmentStart(acc, seg)
           done == PlaceAll(Begun(acc, at), seg, at.start)
<1>1. LayoutSegment(acc, seg) =
        IF ~acc.ok THEN acc
        ELSE IF ~done.ok THEN done
        ELSE [done EXCEPT !.elf.segments[seg.index + 1] = Marked(@, at.start, done)]
  BY DEF LayoutSegment, Begun
<1>2. done = PlacingOf(acc, seg)
  BY PlacingIsLoop DEF PlacingOf
<1>3. QED
  <2> HIDE DEF done
  <2>1. QED BY <1>1, <1>2

LEMMA BegunIs ==
  ASSUME NEW E, IsObject(E), NEW base \in Nat, NEW acc, LaidSoFar(E, base, acc), NEW at,
         at.pos \in Nat, acc.pos <= at.pos, at.size \in Nat
  PROVE  /\ LaidSoFar(E, base, Begun(acc, at))
         /\ Begun(acc, at).elf = acc.elf /\ Begun(acc, at).generated = acc.generated
         /\ Begun(acc, at).pos = at.pos /\ Begun(acc, at).file = at.size
<1>1. PICK b : b = Begun(acc, at)
  OBVIOUS
<1>2. /\ DOMAIN b = LayFields /\ b.ok = acc.ok /\ b.elf = acc.elf /\ b.generated = acc.generated
      /\ b.pos = at.pos /\ b.mem = at.size /\ b.file = at.size
  BY <1>1 DEF Begun, LaidSoFar, LayFields
<1>3. /\ acc.ok /\ SameObject(E, acc.elf) /\ acc.elf.hdr = E.hdr
      /\ acc.pos \in Nat /\ base <= acc.pos
      /\ acc.generated \subseteq 1 .. (Len(E.sections) - 1)
      /\ \A i \in acc.generated : /\ base <= Off(acc.elf, i)
                                  /\ Off(acc.elf, i) + Occ(acc.elf, i) <= acc.pos
      /\ \A i, j \in acc.generated : i # j => NotTogether(acc.elf, i, j)
      /\ \A i \in 0 .. (Len(E.sections) - 1) :
           i \notin acc.generated => Off(acc.elf, i) = Off(E, i)
  BY DEF LaidSoFar
<1>4. \A i \in acc.generated : Off(acc.elf, i) + Occ(acc.elf, i) <= at.pos
  <2>1. SUFFICES ASSUME NEW i \in acc.generated
                 PROVE  Off(acc.elf, i) + Occ(acc.elf, i) <= at.pos
    OBVIOUS
  <2>2. Off(acc.elf, i) \in Nat /\ Occ(acc.elf, i) \in Nat
    BY OffsetsAre
  <2>3. QED BY <1>3, <2>2
<1>5. base <= at.pos
  BY <1>3
<1>6. LaidSoFar(E, base, b)
  BY <1>2, <1>3, <1>4, <1>5 DEF LaidSoFar
<1>7. QED BY <1>1, <1>2, <1>6

(* A segment in its place. *)
IsMarked(s, start, filesz, t) ==
  /\ DOMAIN t = SegmentFields /\ DOMAIN t.ph = PhdrFields
  /\ t.index = s.index /\ t.sections = s.sections
  /\ t.ph.type = s.ph.type /\ t.ph.vaddr = s.ph.vaddr /\ t.ph.align = s.ph.align
  /\ t.offset_set = TRUE /\ t.ph.offset = start /\ t.ph.filesz = filesz

LEMMA MarkedIs ==
  ASSUME NEW s, DOMAIN s = SegmentFields, DOMAIN s.ph = PhdrFields, NEW start, NEW done
  PROVE  IsMarked(s, start, done.file, Marked(s, start, done))
<1>1. PICK m : m = IF s.ph.memsz < done.mem THEN done.mem ELSE s.ph.memsz
  OBVIOUS
<1>2. PICK p : p = [s.ph EXCEPT !.filesz = done.file, !.offset = start, !.memsz = m]
  OBVIOUS
<1>3. /\ DOMAIN p = PhdrFields /\ p.type = s.ph.type /\ p.vaddr = s.ph.vaddr /\ p.align = s.ph.align
      /\ p.offset = start /\ p.filesz = done.file
  BY <1>2 DEF PhdrFields
<1>4. Marked(s, start, done) = [s EXCEPT !.ph = p, !.offset_set = TRUE]
  BY <1>1, <1>2 DEF Marked, SegmentFields, PhdrFields
<1>5. QED BY <1>3, <1>4 DEF IsMarked, SegmentFields

----------------------------------------
(* One more segment *)

LEMMA PlacingNothing ==
  ASSUME NEW acc, NEW seg, seg.sections = << >>, NEW start
  PROVE  Placing(acc, seg, start) = acc
<1>1. DOMAIN seg.sections = 1 .. 0 /\ 0 \in Nat
  BY EmptyList
<1>2. PICK h : PlacingRuns(h, acc, seg, start, 0)
  BY <1>1, FoldSteps DEF PlacingRuns
<1>3. QED BY <1>2 DEF PlacingRuns, Runs, Placing

(* What is known of a section that has its place. *)
LEMMA SectionOf ==
  ASSUME NEW E, IsObject(E), NEW base \in Nat, NEW acc, LaidSoFar(E, base, acc),
         NEW i \in 1 .. (Len(E.sections) - 1), NEW sec, sec = acc.elf.sections[i + 1]
  PROVE  /\ sec.sh.offset \in Nat /\ sec.sh.addr \in Nat /\ sec.sh.size \in Nat
         /\ Off(acc.elf, i) = sec.sh.offset
         /\ Occ(acc.elf, i) = IF sec.sh.type = "NOBITS" THEN 0 ELSE sec.sh.size
         /\ SameSection(E.sections[i + 1], sec) /\ IsSection(E.sections[i + 1], i)
<1>1. Len(E.sections) \in Nat /\ i + 1 \in 1 .. Len(E.sections) /\ (i + 1) - 1 = i
  BY ListIs, SMTT(30) DEF IsObject
<1>2. IsSection(E.sections[i + 1], i)
  BY <1>1 DEF IsObject
<1>3. SameSection(E.sections[i + 1], sec)
  BY <1>1 DEF LaidSoFar, SameObject
<1>4. sec.sh.offset \in Nat /\ sec.sh.addr \in Nat /\ sec.sh.size \in Nat
  BY <1>2, <1>3 DEF SameSection, IsSection, Addresses
<1>5. QED BY <1>2, <1>3, <1>4 DEF Off, Occ, Occupied

(* A section that does not hold the offset says nothing of the segment. *)
LEMMA AgreesElsewhere ==
  ASSUME NEW E, IsObject(E), NEW base \in Nat, NEW acc, LaidSoFar(E, base, acc),
         NEW i \in 1 .. (Len(E.sections) - 1), NEW s, s.ph.offset \in Nat,
         \/ Off(acc.elf, i) + Occ(acc.elf, i) <= s.ph.offset
         \/ s.ph.offset < Off(acc.elf, i)
         \/ Occ(acc.elf, i) = 0
  PROVE  Agrees(acc.elf, i, s)
<1>1. PICK sec : sec = acc.elf.sections[i + 1]
  OBVIOUS
<1>2. /\ sec.sh.offset \in Nat /\ sec.sh.size \in Nat
      /\ Off(acc.elf, i) = sec.sh.offset
      /\ Occ(acc.elf, i) = IF sec.sh.type = "NOBITS" THEN 0 ELSE sec.sh.size
  BY <1>1, SectionOf, SMTT(30)
<1>3. SUFFICES ASSUME sec.sh.type = "PROGBITS", is_offset_in_section(s.ph.offset, sec) PROVE FALSE
  BY <1>1 DEF Agrees
<1>4. Occ(acc.elf, i) = sec.sh.size
  BY <1>2, <1>3
<1>5. sec.sh.offset <= s.ph.offset /\ s.ph.offset < sec.sh.offset + sec.sh.size
  BY <1>3 DEF is_offset_in_section
<1>6. QED BY <1>2, <1>4, <1>5

(* One that begins there has the segment's address. *)
LEMMA AgreesHere ==
  ASSUME NEW E, IsObject(E), NEW base \in Nat, NEW acc, LaidSoFar(E, base, acc),
         NEW i \in 1 .. (Len(E.sections) - 1), NEW s, s.ph.offset = Off(acc.elf, i),
         acc.elf.sections[i + 1].sh.addr = s.ph.vaddr
  PROVE  Agrees(acc.elf, i, s)
<1>1. PICK sec : sec = acc.elf.sections[i + 1]
  OBVIOUS
<1>2. sec.sh.offset \in Nat /\ sec.sh.addr \in Nat /\ Off(acc.elf, i) = sec.sh.offset
  BY <1>1, SectionOf
<1>3. get_virtual_addr(s.ph.offset, sec) = s.ph.vaddr
  BY <1>1, <1>2 DEF get_virtual_addr
<1>4. QED BY <1>1, <1>3 DEF Agrees

(* The layout with the segment marked. *)
MarkedLayout(done, n, start, next) ==
  /\ DOMAIN next = LayFields /\ next.ok = done.ok /\ next.pos = done.pos
  /\ next.generated = done.generated /\ next.mem = done.mem /\ next.file = done.file
  /\ DOMAIN next.elf = ElfFields /\ next.elf.hdr = done.elf.hdr
  /\ next.elf.sections = done.elf.sections
  /\ IsList(next.elf.segments) /\ Len(next.elf.segments) = Len(done.elf.segments)
  /\ IsMarked(done.elf.segments[n], start, done.file, next.elf.segments[n])
  /\ \A m \in 1 .. Len(done.elf.segments) : m # n => next.elf.segments[m] = done.elf.segments[m]

LEMMA MarkedLayoutIs ==
  ASSUME NEW E, IsObject(E), NEW base \in Nat, NEW done, LaidSoFar(E, base, done),
         NEW n \in 1 .. Len(E.segments), NEW start, NEW next,
         next = [done EXCEPT !.elf.segments[n] = Marked(@, start, done)]
  PROVE  MarkedLayout(done, n, start, next)
<1>1. /\ DOMAIN done = LayFields /\ DOMAIN done.elf = ElfFields
      /\ IsList(done.elf.segments) /\ Len(done.elf.segments) = Len(E.segments)
      /\ SameSegment(E.segments[n], done.elf.segments[n])
  BY DEF LaidSoFar, SameObject
<1>2. PICK t : t = Marked(done.elf.segments[n], start, done)
  OBVIOUS
<1>3. IsMarked(done.elf.segments[n], start, done.file, t)
  BY <1>1, <1>2, MarkedIs DEF SameSegment
<1>4. PICK l : l = [done.elf.segments EXCEPT ![n] = t]
  OBVIOUS
<1>5. /\ IsList(l) /\ Len(l) = Len(done.elf.segments) /\ l[n] = t
      /\ \A m \in 1 .. Len(done.elf.segments) : m # n => l[m] = done.elf.segments[m]
  BY <1>1, <1>4, ListChanges, SMTT(30)
<1>6. PICK e : e = [done.elf EXCEPT !.segments = l]
  OBVIOUS
<1>7. DOMAIN e = ElfFields /\ e.hdr = done.elf.hdr /\ e.sections = done.elf.sections /\ e.segments = l
  BY <1>1, <1>6 DEF ElfFields
<1>8. next = [done EXCEPT !.elf = e]
  BY <1>1, <1>2, <1>4, <1>6
<1>9. /\ DOMAIN next = LayFields /\ next.ok = done.ok /\ next.pos = done.pos
      /\ next.generated = done.generated /\ next.mem = done.mem /\ next.file = done.file
      /\ next.elf = e
  BY <1>1, <1>8 DEF LayFields
<1>10. QED BY <1>3, <1>5, <1>7, <1>9 DEF MarkedLayout

LEMMA MarkedLaid ==
  ASSUME NEW E, IsObject(E), NEW base \in Nat, NEW done, LaidSoFar(E, base, done),
         NEW n \in 1 .. Len(E.segments), NEW start, NEW next, MarkedLayout(done, n, start, next)
  PROVE  LaidSoFar(E, base, next)
<1>1. /\ SameObject(E, done.elf) /\ done.elf.hdr = E.hdr /\ done.ok
      /\ done.pos \in Nat /\ base <= done.pos /\ done.mem \in Nat /\ done.file \in Nat
      /\ done.generated \subseteq 1 .. (Len(E.sections) - 1)
      /\ \A i \in done.generated : /\ base <= Off(done.elf, i)
                                   /\ Off(done.elf, i) + Occ(done.elf, i) <= done.pos
      /\ \A i, j \in done.generated : i # j => NotTogether(done.elf, i, j)
      /\ \A i \in 0 .. (Len(E.sections) - 1) :
           i \notin done.generated => Off(done.elf, i) = Off(E, i)
  BY DEF LaidSoFar
<1>2. \A i : Off(next.elf, i) = Off(done.elf, i) /\ Occ(next.elf, i) = Occ(done.elf, i)
  BY DEF MarkedLayout, Off, Occ
<1>3. \A i, j : NotTogether(next.elf, i, j) <=> NotTogether(done.elf, i, j)
  BY <1>2 DEF NotTogether
<1>4. SameObject(E, next.elf)
  <2>1. ASSUME NEW m \in 1 .. Len(E.segments)
        PROVE  SameSegment(E.segments[m], next.elf.segments[m])
    <3>1. SameSegment(E.segments[m], done.elf.segments[m])
          /\ Len(done.elf.segments) = Len(E.segments)
      BY <1>1 DEF SameObject
    <3>2. CASE m # n
      BY <3>1, <3>2 DEF MarkedLayout
    <3>3. CASE m = n
      BY <3>1, <3>3 DEF MarkedLayout, IsMarked, SameSegment
    <3>4. QED BY <3>2, <3>3
  <2>2. /\ DOMAIN next.elf = ElfFields /\ next.elf.sections = done.elf.sections
        /\ IsList(next.elf.segments) /\ Len(next.elf.segments) = Len(done.elf.segments)
    BY DEF MarkedLayout
  <2>3. QED BY <1>1, <2>1, <2>2 DEF SameObject
<1>5. /\ DOMAIN next = LayFields /\ next.ok = done.ok /\ next.pos = done.pos
      /\ next.generated = done.generated /\ next.mem = done.mem /\ next.file = done.file
      /\ next.elf.hdr = done.elf.hdr /\ next.elf.sections = done.elf.sections
  BY DEF MarkedLayout
<1>6. QED BY <1>1, <1>2, <1>3, <1>4, <1>5 DEF LaidSoFar


(* The segment seg, when its sections have been placed between `begin' and `done'. *)
PlacedSegment(E, seg, start, begin, done) ==
  /\ LaidSoFar(E, E.pos, done) /\ Further(begin, done) /\ done.elf.segments = begin.elf.segments
  /\ done.generated = begin.generated \cup SectionsOf(seg)
  /\ seg.ph.type = "LOAD" /\ done.file > 0
       => start < done.pos /\ \A i \in done.generated :
            \/ Off(done.elf, i) + Occ(done.elf, i) <= start \/ start < Off(done.elf, i)
            \/ Occ(done.elf, i) = 0
            \/ Off(done.elf, i) = start /\ done.elf.sections[i + 1].sh.addr = seg.ph.vaddr

LEMMA PlacedSegmentIs ==
  ASSUME MaxSize \in Nat \ {0}, NEW E, Ready(E), NEW r, InOrderOf(E, r), NEW k \in 1 .. Len(r),
         NEW acc, LayoutSoFar(E, r, k - 1, acc), NEW seg, seg = r[k],
         NEW at, at = SegmentStart(acc, seg), NEW begin, begin = Begun(acc, at),
         NEW done, done = Placing(begin, seg, at.start), done.ok
  PROVE  PlacedSegment(E, seg, at.start, begin, done)
<1>1. /\ IsObject(E) /\ E.pos \in Nat \ {0} /\ Len(E.sections) \in Nat /\ E.pos \in Nat
  BY ReadyIs DEF Ready
<1>2. LaidSoFar(E, E.pos, acc) /\ SegmentOf(E, seg)
  BY <1>1, OrderedSegment DEF LayoutSoFar
<1>3. /\ HasSections(E, seg) /\ Len(seg.sections) \in Nat
      /\ SectionsOf(seg) = { seg.sections[j] : j \in 1 .. Len(seg.sections) }
      /\ SectionsOf(seg) = FirstSections(seg, Len(seg.sections))
  BY <1>1, <1>2, SegmentHasSections
<1>4. StartsAt(acc, seg, at)
  BY <1>1, <1>2, SegmentStartIs
<1>5. at.start \in Nat \ {0} /\ at.start \in Nat /\ at.pos \in Nat /\ acc.pos <= at.pos /\ at.size \in Nat
  BY <1>4 DEF StartsAt
<1>6. /\ LaidSoFar(E, E.pos, begin) /\ begin.elf = acc.elf /\ begin.generated = acc.generated
      /\ begin.pos = at.pos /\ begin.file = at.size
  BY <1>1, <1>2, <1>5, BegunIs
<1>7. /\ PlacedSoFar(E, E.pos, begin, seg, Len(seg.sections), done)
      /\ (/\ begin.pos = at.start /\ begin.file = 0
          /\ \A j \in 1 .. Len(seg.sections) : seg.sections[j] \notin begin.generated)
           => FreshSoFar(begin, seg, at.start, done)
      /\ (\A j \in 1 .. Len(seg.sections) : seg.sections[j] \in begin.generated)
           => Counted(begin, done)
  BY <1>1, <1>3, <1>5, <1>6, PlacingIs
<1>8. /\ LaidSoFar(E, E.pos, done) /\ Further(begin, done)
      /\ done.elf.segments = begin.elf.segments
      /\ done.generated = begin.generated \cup SectionsOf(seg)
  BY <1>3, <1>7 DEF PlacedSoFar
<1>9. acc.generated = UNION { SectionsOf(r[j]) : j \in 1 .. (k - 1) }
  BY ZenonT(40) DEF LayoutSoFar
<1> DEFINE Apartness == seg.ph.type = "LOAD" /\ done.file > 0
       => at.start < done.pos /\ \A i \in done.generated :
            \/ Off(done.elf, i) + Occ(done.elf, i) <= at.start \/ at.start < Off(done.elf, i)
            \/ Occ(done.elf, i) = 0
            \/ Off(done.elf, i) = at.start /\ done.elf.sections[i + 1].sh.addr = seg.ph.vaddr
<1>10. CASE seg.sections = << >>
  <2>1. done = begin
    BY <1>10, PlacingNothing
  <2>2. seg.ph.type = "LOAD" => done.file = 0
    BY <1>4, <1>6, <2>1 DEF StartsAt
  <2>3. Apartness
    BY <2>2
  <2>4. QED BY <1>8, <2>3 DEF PlacedSegment
<1>11. CASE seg.sections # << >> /\ seg.sections[1] \notin acc.generated
  <2>1. at.start = at.pos /\ at.size = 0
    BY <1>4, <1>11 DEF StartsAt
  <2>2. 1 \in 1 .. Len(seg.sections) /\ seg.sections[1] \in SectionsOf(seg)
    BY <1>3, <1>11, ListEmpty DEF HasSections
  <2>3. ASSUME NEW j \in 1 .. Len(seg.sections), seg.sections[j] \in begin.generated PROVE FALSE
    <3>1. PICK a \in 1 .. (k - 1) : seg.sections[j] \in SectionsOf(r[a])
      BY <1>6, <1>9, <2>3
    <3>2. seg.sections[j] \in SectionsOf(r[k])
      BY <1>3
    <3>3. SharesWith(E, seg, r[a])
      BY <3>1, <3>2, SharingIs
    <3>4. seg.sections[1] \in SectionsOf(r[a])
      BY <2>2, <3>3 DEF SharesWith
    <3>5. seg.sections[1] \in acc.generated
      BY <1>9, <3>1, <3>4
    <3>6. QED BY <1>11, <3>5
  <2>4. FreshSoFar(begin, seg, at.start, done)
    BY <1>6, <1>7, <2>1, <2>3
  <2>5. ASSUME NEW i \in done.generated
        PROVE  \/ Off(done.elf, i) + Occ(done.elf, i) <= at.start \/ at.start < Off(done.elf, i)
               \/ Occ(done.elf, i) = 0
               \/ Off(done.elf, i) = at.start /\ done.elf.sections[i + 1].sh.addr = seg.ph.vaddr
    <3>1. CASE i \in begin.generated
      <4>1. Off(acc.elf, i) + Occ(acc.elf, i) <= acc.pos
        BY <1>2, <1>6, <3>1 DEF LaidSoFar
      <4>2. done.elf.sections[i + 1] = acc.elf.sections[i + 1]
        BY <1>6, <1>8, <3>1 DEF Further
      <4>3. Off(done.elf, i) = Off(acc.elf, i) /\ Occ(done.elf, i) = Occ(acc.elf, i)
        BY <4>2 DEF Off, Occ
      <4>7. Off(done.elf, i) \in Nat /\ Occ(done.elf, i) \in Nat
        BY <1>1, <1>8, OffsetsAre
      <4>4. Off(done.elf, i) \in Nat /\ Occ(done.elf, i) \in Nat /\ acc.pos \in Nat
        BY <1>2, <4>7 DEF LaidSoFar
      <4>5. Off(done.elf, i) + Occ(done.elf, i) <= at.start
        BY <1>5, <2>1, <4>1, <4>3, <4>4
      <4>6. QED BY <4>5
    <3>2. CASE i \notin begin.generated
      <4>1. AtStart(seg, at.start, done.elf, i)
        BY <2>4, <2>5, <3>2 DEF FreshSoFar
      <4>2. Off(done.elf, i) \in Nat
        BY <1>1, <1>8, OffsetsAre
      <4>3. at.start <= Off(done.elf, i)
        BY <4>1 DEF AtStart
      <4>4. at.start < Off(done.elf, i) \/ Off(done.elf, i) = at.start
        BY <1>5, <4>2, <4>3
      <4>5. QED BY <4>1, <4>4 DEF AtStart
    <3>3. QED BY <3>1, <3>2
  <2>6. done.file > 0 => at.start < done.pos
    BY <2>4 DEF FreshSoFar
  <2>7. Apartness
    BY <2>5, <2>6, ZenonT(40)
  <2>8. QED BY <1>8, <2>7 DEF PlacedSegment
<1>12. CASE seg.sections # << >> /\ seg.sections[1] \in acc.generated
  <2>1. PICK f : f = seg.sections[1]
    OBVIOUS
  <2>2. 1 \in 1 .. Len(seg.sections) /\ f \in SectionsOf(seg) /\ f \in 1 .. (Len(E.sections) - 1)
    BY <1>3, <1>12, <2>1, ListEmpty DEF HasSections
  <2>3. at.start = Off(acc.elf, f) /\ f \in acc.generated
    BY <1>4, <1>12, <2>1 DEF StartsAt
  <2>4. PICK a \in 1 .. (k - 1) : f \in SectionsOf(r[a])
    BY <1>9, <2>3
  <2>5. SharesWith(E, seg, r[a])
    BY <2>2, <2>4, SharingIs
  <2>6. \A j \in 1 .. Len(seg.sections) : seg.sections[j] \in begin.generated
    BY <1>3, <1>6, <1>9, <2>5 DEF SharesWith
  <2>7. done.generated = acc.generated /\ done.elf = acc.elf /\ done.pos = at.pos
    BY <1>6, <1>7, <2>6 DEF Counted
  <2>8. PICK sec : sec = acc.elf.sections[f + 1]
    OBVIOUS
  <2>9. /\ SameSection(E.sections[f + 1], sec)
        /\ Off(acc.elf, f) \in Nat /\ sec.sh.size \in Nat
        /\ Occ(acc.elf, f) = IF sec.sh.type = "NOBITS" THEN 0 ELSE sec.sh.size
    <3>1. Off(acc.elf, f) \in Nat
      BY <1>1, <1>2, <2>3, OffsetsAre
    <3>5. sec.sh.size \in Nat
      BY <1>1, <1>2, <2>2, <2>8, SectionOf
    <3>2. SameSection(E.sections[f + 1], sec)
      BY <1>1, <1>2, <2>2, <2>8, SectionOf
    <3>3. Occ(acc.elf, f) = IF sec.sh.type = "NOBITS" THEN 0 ELSE sec.sh.size
      BY <1>1, <1>2, <2>2, <2>8, SectionOf, SMTT(30)
    <3>4. QED BY <3>1, <3>2, <3>3, <3>5
  <2>10. /\ E.sections[f + 1].addrset /\ E.sections[f + 1].sh.addr = seg.ph.vaddr
         /\ E.sections[f + 1].sh.type # "NOBITS" /\ E.sections[f + 1].sh.size # 0
    BY <2>1, <2>5 DEF SharesWith
  <2>11. sec.sh.addr = seg.ph.vaddr /\ sec.sh.type # "NOBITS" /\ sec.sh.size # 0
    BY <2>9, <2>10 DEF SameSection
  <2>12. Occ(acc.elf, f) \in Nat \ {0}
    BY <2>9, <2>11
  <2>13. at.start < done.pos
    <3>1. Off(acc.elf, f) + Occ(acc.elf, f) <= acc.pos /\ acc.pos \in Nat
      BY <1>2, <2>3 DEF LaidSoFar
    <3>2. QED BY <1>5, <2>3, <2>7, <2>9, <2>12, <3>1
  <2>14. ASSUME NEW i \in done.generated
         PROVE  \/ Off(done.elf, i) + Occ(done.elf, i) <= at.start \/ at.start < Off(done.elf, i)
                \/ Occ(done.elf, i) = 0
                \/ Off(done.elf, i) = at.start /\ done.elf.sections[i + 1].sh.addr = seg.ph.vaddr
    <3>1. CASE i = f
      BY <2>3, <2>7, <2>8, <2>11, <3>1
    <3>2. CASE i # f
      <4>1. NotTogether(acc.elf, i, f)
        BY <1>2, <2>3, <2>7, <3>2 DEF LaidSoFar
      <4>2. /\ Off(acc.elf, i) \in Nat /\ Occ(acc.elf, i) \in Nat
        BY <1>1, <1>2, <2>7, OffsetsAre, SMTT(30)
      <4>3. QED BY <2>3, <2>7, <2>9, <2>12, <4>1, <4>2 DEF NotTogether, ApartAt
    <3>3. QED BY <3>1, <3>2
  <2>15. Apartness
    BY <2>13, <2>14
  <2>16. QED BY <1>8, <2>15 DEF PlacedSegment
<1>13. QED BY <1>10, <1>11, <1>12


LEMMA LayoutOneMore ==
  ASSUME MaxSize \in Nat \ {0}, NEW E, Ready(E), NEW r, InOrderOf(E, r), NEW k \in 1 .. Len(r),
         NEW acc, LayoutSoFar(E, r, k - 1, acc), NEW next, next = LayoutSegment(acc, r[k]), next.ok
  PROVE  LayoutSoFar(E, r, k, next)
<1> DEFINE seg == r[k]
           at == SegmentStart(acc, seg)
           begin == Begun(acc, at)
           done == Placing(begin, seg, at.start)
           n == seg.index + 1
<1>1. /\ IsObject(E) /\ E.pos \in Nat \ {0} /\ E.pos \in Nat /\ Len(E.segments) \in Nat
  BY ReadyIs DEF Ready
<1>2. LaidSoFar(E, E.pos, acc) /\ SegmentOf(E, seg) /\ n \in 1 .. Len(E.segments)
  BY <1>1, OrderedSegment DEF LayoutSoFar, SegmentOf
<1>3. acc.ok
  BY <1>2 DEF LaidSoFar
<1>4. done.ok /\ next = [done EXCEPT !.elf.segments[n] = Marked(@, at.start, done)]
  <2>1. LayoutSegment(acc, seg) =
           IF ~acc.ok THEN acc
           ELSE IF ~done.ok THEN done
           ELSE [done EXCEPT !.elf.segments[n] = Marked(@, at.start, done)]
    BY LayoutSegmentForm DEF PlacingOf
  <2> HIDE DEF done, n
  <2>2. QED BY <1>3, <2>1
<1>5. PlacedSegment(E, seg, at.start, begin, done)
  <2>1. PICK s, a, b, d : s = seg /\ a = at /\ b = begin /\ d = done
    OBVIOUS
  <2>2. /\ s = r[k] /\ a = SegmentStart(acc, s) /\ b = Begun(acc, a) /\ d = Placing(b, s, a.start)
        /\ d.ok
    BY <1>4, <2>1
  <2>3. PlacedSegment(E, s, a.start, b, d)
    BY <2>2, PlacedSegmentIs
  <2>4. QED BY <2>1, <2>3
<1>6. StartsAt(acc, seg, at)
  BY <1>2, SegmentStartIs
<1>7. at.start \in Nat \ {0} /\ at.pos \in Nat /\ acc.pos <= at.pos /\ at.size \in Nat
  BY <1>6 DEF StartsAt
<1>8. begin.elf = acc.elf /\ begin.generated = acc.generated /\ begin.pos = at.pos
  BY <1>1, <1>2, <1>7, BegunIs
<1> HIDE DEF done, begin, at
<1>9. /\ LaidSoFar(E, E.pos, done) /\ Further(begin, done) /\ done.elf.segments = begin.elf.segments
      /\ done.generated = begin.generated \cup SectionsOf(seg)
  BY <1>5 DEF PlacedSegment
<1>10. MarkedLayout(done, n, at.start, next)
  BY <1>1, <1>2, <1>4, <1>9, MarkedLayoutIs
<1>11. LaidSoFar(E, E.pos, next)
  BY <1>1, <1>2, <1>9, <1>10, MarkedLaid
<1>12. /\ next.pos = done.pos /\ next.generated = done.generated
       /\ next.elf.sections = done.elf.sections
       /\ IsMarked(done.elf.segments[n], at.start, done.file, next.elf.segments[n])
       /\ \A m \in 1 .. Len(done.elf.segments) : m # n => next.elf.segments[m] = done.elf.segments[m]
  BY <1>10 DEF MarkedLayout
<1>13. /\ acc.pos \in Nat /\ next.pos \in Nat /\ acc.pos <= next.pos
       /\ acc.generated \subseteq next.generated
       /\ \A i \in acc.generated : next.elf.sections[i + 1] = acc.elf.sections[i + 1]
       /\ \A i \in next.generated \ acc.generated : acc.pos <= Off(next.elf, i)
  <2>1. acc.pos \in Nat /\ next.pos \in Nat
    BY <1>2, <1>11 DEF LaidSoFar
  <2>2. begin.pos <= done.pos /\ acc.pos <= next.pos
    BY <1>7, <1>8, <1>9, <1>12, <2>1 DEF Further
  <2>3. ASSUME NEW i \in next.generated \ acc.generated PROVE acc.pos <= Off(next.elf, i)
    <3>1. at.pos <= Off(done.elf, i)
      BY <1>8, <1>9, <1>12, <2>3 DEF Further
    <3>2. Off(done.elf, i) = Off(next.elf, i)
      BY <1>12 DEF Off
    <3>3. Off(next.elf, i) \in Nat
      BY <1>1, <1>11, <2>3, OffsetsAre
    <3>4. QED BY <1>7, <2>1, <3>1, <3>2, <3>3
  <2>4. QED BY <1>8, <1>9, <1>12, <2>1, <2>2, <2>3 DEF Further
<1>14. next.generated = UNION { SectionsOf(r[j]) : j \in 1 .. k }
  <2>1. 1 .. k = (1 .. (k - 1)) \cup {k}
    <3>1. Len(r) \in Nat
      BY ListIs DEF InOrderOf, InOrder
    <3>2. QED BY <3>1
  <2>2. acc.generated = UNION { SectionsOf(r[j]) : j \in 1 .. (k - 1) }
    BY Zenon DEF LayoutSoFar
  <2>3. next.generated = acc.generated \cup SectionsOf(r[k])
    BY <1>8, <1>9, <1>12, Zenon
  <2>4. QED BY <2>1, <2>2, <2>3
<1>15. SegmentDone(next, next.elf.segments[n])
  <2>1. PICK s : s = next.elf.segments[n]
    OBVIOUS
  <2>2. SameSegment(E.segments[n], done.elf.segments[n]) /\ seg = E.segments[n]
    BY <1>2, <1>9, Zenon DEF LaidSoFar, SameObject, SegmentOf
  <2>3. /\ s.offset_set = TRUE /\ s.ph.offset = at.start /\ s.ph.filesz = done.file
        /\ s.ph.type = seg.ph.type /\ s.ph.vaddr = seg.ph.vaddr
    BY <1>12, <2>1, <2>2, Zenon DEF IsMarked, SameSegment
  <2>4. done.file \in Nat
    BY <1>9 DEF LaidSoFar
  <2>5. ASSUME s.ph.type = "LOAD", s.ph.filesz > 0, NEW i \in next.generated
        PROVE  Agrees(next.elf, i, s)
    <3>1. \/ Off(done.elf, i) + Occ(done.elf, i) <= at.start \/ at.start < Off(done.elf, i)
          \/ Occ(done.elf, i) = 0
          \/ Off(done.elf, i) = at.start /\ done.elf.sections[i + 1].sh.addr = seg.ph.vaddr
      BY <1>5, <1>12, <2>3, <2>5 DEF PlacedSegment
    <3>2. Off(next.elf, i) = Off(done.elf, i) /\ Occ(next.elf, i) = Occ(done.elf, i)
      BY <1>12 DEF Off, Occ
    <3>3. i \in 1 .. (Len(E.sections) - 1)
      BY <1>11, <2>5 DEF LaidSoFar
    <3>4. s.ph.offset \in Nat
      BY <1>7, <2>3
    <3>5. CASE Off(done.elf, i) = at.start /\ done.elf.sections[i + 1].sh.addr = seg.ph.vaddr
      <4>1. s.ph.offset = Off(next.elf, i) /\ next.elf.sections[i + 1].sh.addr = s.ph.vaddr
        BY <1>12, <2>3, <3>2, <3>5
      <4>2. QED BY <1>1, <1>11, <3>3, <4>1, AgreesHere
    <3>6. CASE ~(Off(done.elf, i) = at.start /\ done.elf.sections[i + 1].sh.addr = seg.ph.vaddr)
      <4>1. \/ Off(next.elf, i) + Occ(next.elf, i) <= s.ph.offset
            \/ s.ph.offset < Off(next.elf, i) \/ Occ(next.elf, i) = 0
        BY <2>3, <3>1, <3>2, <3>6
      <4>2. QED BY <1>1, <1>11, <3>3, <3>4, <4>1, AgreesElsewhere
    <3>7. QED BY <3>5, <3>6
  <2>6. s.ph.type = "LOAD" /\ s.ph.filesz > 0 => s.ph.offset < next.pos
    BY <1>5, <1>12, <2>3 DEF PlacedSegment
  <2>7. QED BY <1>7, <2>1, <2>3, <2>4, <2>5, <2>6, Zenon DEF SegmentDone
<1>16. ASSUME NEW j \in 1 .. k
       PROVE  SegmentDone(next, next.elf.segments[r[j].index + 1])
  <2>1. CASE r[j].index = r[k].index
    BY <1>15, <2>1
  <2>2. CASE r[j].index # r[k].index
    <3>1. Len(r) \in Nat
      BY ListIs DEF InOrderOf, InOrder
    <3>2. j \in 1 .. (k - 1) /\ j \in 1 .. Len(r)
      <4>1. j # k
        BY <2>2
      <4>2. QED BY <3>1, <4>1
    <3>3. SegmentOf(E, r[j])
      BY <1>1, <3>2, OrderedSegment
    <3>4. PICK m \in 1 .. Len(E.segments) : m = r[j].index + 1 /\ m # n
      BY <1>2, <2>2, <3>3 DEF SegmentOf
    <3>5. Len(done.elf.segments) = Len(E.segments)
      BY <1>9 DEF LaidSoFar, SameObject
    <3>6. PICK s : s = acc.elf.segments[m] /\ s = next.elf.segments[m]
      BY <1>8, <1>9, <1>12, <3>4, <3>5, SMTT(30)
    <3>7. SegmentDone(acc, s)
      BY <3>2, <3>4, <3>6 DEF LayoutSoFar
    <3>8. /\ s.offset_set = TRUE /\ s.ph.offset \in Nat \ {0} /\ s.ph.filesz \in Nat
          /\ s.ph.type = "LOAD" /\ s.ph.filesz > 0
               => s.ph.offset < acc.pos /\ \A i \in acc.generated : Agrees(acc.elf, i, s)
      BY <3>7 DEF SegmentDone
    <3>9. ASSUME s.ph.type = "LOAD", s.ph.filesz > 0, NEW i \in next.generated
          PROVE  Agrees(next.elf, i, s)
      <4>1. CASE i \in acc.generated
        <5>1. Agrees(acc.elf, i, s) /\ next.elf.sections[i + 1] = acc.elf.sections[i + 1]
          BY <1>13, <3>8, <3>9, <4>1
        <5>2. QED BY <5>1 DEF Agrees
      <4>2. CASE i \notin acc.generated
        <5>1. acc.pos <= Off(next.elf, i) /\ s.ph.offset < acc.pos
          BY <1>13, <3>8, <3>9, <4>2
        <5>2. i \in 1 .. (Len(E.sections) - 1)
          BY <1>11, <3>9 DEF LaidSoFar
        <5>3. Off(next.elf, i) \in Nat
          BY <1>1, <1>11, <3>9, OffsetsAre
        <5>4. s.ph.offset < Off(next.elf, i)
          BY <1>13, <3>8, <5>1, <5>3
        <5>5. QED BY <1>1, <1>11, <3>8, <5>2, <5>4, AgreesElsewhere
      <4>3. QED BY <4>1, <4>2
    <3>10. s.ph.type = "LOAD" /\ s.ph.filesz > 0 => s.ph.offset < next.pos
      BY <1>13, <3>8
    <3>11. SegmentDone(next, s)
      BY <3>8, <3>9, <3>10 DEF SegmentDone
    <3>12. QED BY <3>4, <3>6, <3>11
  <2>3. QED BY <2>1, <2>2
<1>17. QED BY <1>11, <1>14, <1>16 DEF LayoutSoFar

----------------------------------------
(* All segments *)

LayoutBegun(E) ==
  [ok |-> TRUE, elf |-> E, pos |-> E.pos, generated |-> {}, mem |-> 0, file |-> 0]

LEMMA LayoutSegmentsIsLoop ==
  ASSUME NEW E
  PROVE  LayoutSegments(E) = Fold("layout", 0, LayoutBegun(E), get_ordered_segments(E))
  BY DEF LayoutSegments, LayoutBegun, Fold, FoldLeft, MapThenFoldSet, Body

LEMMA SameAsItself ==
  ASSUME NEW E, IsObject(E)
  PROVE  SameObject(E, E)
<1>1. ASSUME NEW n \in 1 .. Len(E.sections) PROVE SameSection(E.sections[n], E.sections[n])
  <2>1. IsSection(E.sections[n], n - 1)
    BY DEF IsObject
  <2>2. QED BY <2>1 DEF IsSection, SameSection
<1>2. ASSUME NEW n \in 1 .. Len(E.segments) PROVE SameSegment(E.segments[n], E.segments[n])
  <2>1. IsSegment(E.segments[n], n - 1, Len(E.sections))
    BY DEF IsObject
  <2>2. QED BY <2>1 DEF IsSegment, SameSegment
<1>3. QED BY <1>1, <1>2 DEF IsObject, SameObject

LEMMA LayoutBegins ==
  ASSUME NEW E, Ready(E), NEW r
  PROVE  LayoutSoFar(E, r, 0, LayoutBegun(E))
<1>1. PICK b : b = LayoutBegun(E)
  OBVIOUS
<1>2. /\ DOMAIN b = LayFields /\ b.ok = TRUE /\ b.elf = E /\ b.pos = E.pos /\ b.generated = {}
      /\ b.mem = 0 /\ b.file = 0
  BY <1>1 DEF LayoutBegun, LayFields
<1>3. /\ IsObject(E) /\ E.pos \in Nat
  BY ReadyIs DEF Ready
<1>4. LaidSoFar(E, E.pos, b)
  BY <1>2, <1>3, SameAsItself DEF LaidSoFar
<1>5. 1 .. 0 = {}
  OBVIOUS
<1>6. QED BY <1>1, <1>2, <1>4, <1>5 DEF LayoutSoFar

LEMMA OrderOf ==
  ASSUME NEW E, IsObject(E)
  PROVE  InOrderOf(E, get_ordered_segments(E))
<1>1. IsList(E.segments)
  BY DEF IsObject
<1>2. \A n \in 1 .. Len(E.segments) : /\ Len(E.segments[n].sections) \in Nat
                                      /\ ~(E.segments[n].offset_set /\ E.segments[n].ph.offset = 0)
  <2>1. SUFFICES ASSUME NEW n \in 1 .. Len(E.segments)
                 PROVE  /\ Len(E.segments[n].sections) \in Nat
                        /\ ~(E.segments[n].offset_set /\ E.segments[n].ph.offset = 0)
    OBVIOUS
  <2>2. IsSegment(E.segments[n], n - 1, Len(E.sections))
    BY DEF IsObject
  <2>3. QED BY <2>2, ListIs DEF IsSegment
<1>3. StartFirst(E.segments) = E.segments
  BY <1>1, <1>2, StartFirstIs
<1>4. QED BY <1>1, <1>2, <1>3, OrderedIs DEF InOrderOf, get_ordered_segments

LEMMA LayoutSegmentsIs ==
  ASSUME MaxSize \in Nat \ {0}, NEW E, Ready(E), LayoutSegments(E).ok
  PROVE  LayoutSoFar(E, get_ordered_segments(E), Len(get_ordered_segments(E)), LayoutSegments(E))
<1>1. PICK r : r = get_ordered_segments(E)
  OBVIOUS
<1>2. InOrderOf(E, r)
  BY <1>1, OrderOf DEF Ready
<1>3. PICK N \in Nat : N = Len(r) /\ DOMAIN r = 1 .. N
  BY <1>2, ListIs DEF InOrderOf, InOrder
<1>4. PICK h : Runs(h, "layout", 0, LayoutBegun(E), r, N)
  BY <1>3, FoldSteps
<1>5. /\ h[0] = LayoutBegun(E)
      /\ \A k \in 1 .. N : h[k] = LayoutSegment(h[k - 1], r[k])
      /\ h[N] = LayoutSegments(E)
  BY <1>1, <1>4, LayoutSegmentsIsLoop DEF Runs, Body
<1> DEFINE P == { k \in 0 .. N : h[k].ok => LayoutSoFar(E, r, k, h[k]) }
<1>6. 0 \in P
  BY <1>3, <1>5, LayoutBegins
<1>7. ASSUME NEW k \in 1 .. N, k - 1 \in P, h[k].ok PROVE LayoutSoFar(E, r, k, h[k])
  <2>1. PICK a, next : a = h[k - 1] /\ next = h[k]
    OBVIOUS
  <2>2. next = LayoutSegment(a, r[k]) /\ next.ok
    BY <1>5, <1>7, <2>1
  <2>3. a.ok
    <3>1. ~a.ok => LayoutSegment(a, r[k]) = a
      BY DEF LayoutSegment
    <3>2. QED BY <2>2, <3>1
  <2>4. LayoutSoFar(E, r, k - 1, a)
    BY <1>7, <2>1, <2>3
  <2>5. k \in 1 .. Len(r)
    BY <1>3
  <2>6. LayoutSoFar(E, r, k, next)
    BY <1>2, <2>2, <2>4, <2>5, LayoutOneMore
  <2>7. QED BY <2>1, <2>6
<1>8. \A k \in 0 .. N : k \in P
  <2>1. ASSUME NEW k \in 1 .. N, k - 1 \in P PROVE k \in P
    BY <1>7, <2>1
  <2> HIDE DEF P
  <2>2. QED BY <1>6, <2>1, Induction
<1>9. N \in P
  BY <1>8
<1>10. QED BY <1>1, <1>3, <1>5, <1>9

----------------------------------------
(* The sections outside all segments *)

AsLayout(e, G) == [ok |-> TRUE, elf |-> e, pos |-> e.pos, generated |-> G, mem |-> 0, file |-> 0]

LEMMA AsLayoutIs ==
  ASSUME NEW e, NEW G
  PROVE  /\ DOMAIN AsLayout(e, G) = LayFields /\ AsLayout(e, G).ok /\ AsLayout(e, G).elf = e
         /\ AsLayout(e, G).pos = e.pos /\ AsLayout(e, G).generated = G
         /\ AsLayout(e, G).mem = 0 /\ AsLayout(e, G).file = 0
  BY DEF AsLayout, LayFields

(* A section at another offset. *)
LEMMA OffsetIs ==
  ASSUME NEW s, NEW sec, SameSection(s, sec), NEW o \in Nat
  PROVE  /\ SameSection(s, [sec EXCEPT !.sh.offset = o])
         /\ [sec EXCEPT !.sh.offset = o].sh.offset = o
         /\ [sec EXCEPT !.sh.offset = o].sh.type = sec.sh.type
         /\ [sec EXCEPT !.sh.offset = o].sh.size = sec.sh.size
         /\ [sec EXCEPT !.sh.offset = o].index = sec.index
<1>1. PICK t : t = [sec EXCEPT !.sh.offset = o]
  OBVIOUS
<1>2. DOMAIN sec = SectionFields /\ DOMAIN sec.sh = ShdrFields
  BY DEF SameSection
<1>3. /\ DOMAIN t = SectionFields /\ DOMAIN t.sh = ShdrFields
      /\ t.index = sec.index /\ t.name = sec.name /\ t.data = sec.data /\ t.addrset = sec.addrset
      /\ t.sh.name = sec.sh.name /\ t.sh.type = sec.sh.type /\ t.sh.flags = sec.sh.flags
      /\ t.sh.size = sec.sh.size /\ t.sh.link = sec.sh.link /\ t.sh.info = sec.sh.info
      /\ t.sh.align = sec.sh.align /\ t.sh.entsize = sec.sh.entsize
      /\ t.sh.offset = o /\ t.sh.addr = sec.sh.addr
  BY <1>1, <1>2 DEF SectionFields, ShdrFields
<1>4. SameSection(s, t)
  BY <1>3 DEF SameSection
<1>5. QED BY <1>1, <1>3, <1>4

(* What the loop makes of section x. *)
LooseDone(E, base, e, G, x, next) ==
  LET H == IF x = 0 THEN G ELSE G \cup {x}
  IN  /\ LaidSoFar(E, base, AsLayout(next, H)) /\ Further(AsLayout(e, G), AsLayout(next, H))
      /\ next.segments = e.segments

(* The loop moves on over the null section. *)
LEMMA LooseNull ==
  ASSUME NEW E, IsObject(E), NEW base \in Nat, NEW e, NEW G, LaidSoFar(E, base, AsLayout(e, G)),
         NEW next, next = PlaceLooseSection(e, 0)
  PROVE  LooseDone(E, base, e, G, 0, next)
<1> DEFINE a == AsLayout(e, G)
           b == AsLayout(next, G)
<1>1. /\ DOMAIN a = LayFields /\ a.ok /\ a.elf = e /\ a.pos = e.pos /\ a.generated = G
      /\ DOMAIN b = LayFields /\ b.ok /\ b.elf = next /\ b.pos = next.pos /\ b.generated = G
      /\ b.mem = 0 /\ b.file = 0
  BY AsLayoutIs
<1> HIDE DEF a, b
<1>2. /\ SameObject(E, e) /\ e.hdr = E.hdr
      /\ e.pos \in Nat /\ base <= e.pos
      /\ G \subseteq 1 .. (Len(E.sections) - 1)
      /\ \A i \in G : base <= Off(e, i) /\ Off(e, i) + Occ(e, i) <= e.pos
      /\ \A i, j \in G : i # j => NotTogether(e, i, j)
      /\ \A i \in 0 .. (Len(E.sections) - 1) : i \notin G => Off(e, i) = Off(E, i)
  BY <1>1 DEF LaidSoFar, a
<1>3. Len(E.sections) \in Nat /\ 1 \in 1 .. Len(E.sections) /\ 0 \in 0 .. (Len(E.sections) - 1)
      /\ 0 + 1 \in 1 .. Len(E.sections) /\ 0 + 1 = 1
  BY ListIs DEF IsObject
<1>4. PICK sec : sec = e.sections[1]
  OBVIOUS
<1>5. SameSection(E.sections[1], sec) /\ IsSection(E.sections[1], 0)
  BY <1>2, <1>3, <1>4 DEF SameObject, IsObject
<1>6. /\ sec.sh.type = "NULL" /\ sec.sh.align \in Nat /\ sec.index = 0 /\ sec.sh.offset \in Nat
  BY <1>5 DEF SameSection, IsSection
<1>7. PICK pos \in Nat : pos = Align(e.pos, sec.sh.align) /\ e.pos <= pos
  BY <1>2, <1>6, AlignIs
<1>8. PICK o \in Nat : o = sec.sh.offset
  BY <1>6
<1>9. PICK t : t = [sec EXCEPT !.sh.offset = o]
  OBVIOUS
<1>10. SameSection(E.sections[1], t) /\ t.index = 0 /\ t.sh.offset = sec.sh.offset
  BY <1>5, <1>6, <1>8, <1>9, OffsetIs
<1>11. next = e \/ next = [SetSection(e, t) EXCEPT !.pos = pos]
  BY <1>3, <1>4, <1>6, <1>7, <1>8, <1>9 DEF PlaceLooseSection
<1>12. /\ DOMAIN e = ElfFields /\ IsList(e.sections) /\ Len(e.sections) = Len(E.sections)
       /\ IsList(e.segments) /\ Len(e.segments) = Len(E.segments)
       /\ \A n \in 1 .. Len(E.sections) : SameSection(E.sections[n], e.sections[n])
       /\ \A n \in 1 .. Len(E.segments) : SameSegment(E.segments[n], e.segments[n])
  BY <1>2 DEF SameObject
<1>13. /\ DOMAIN next = ElfFields /\ next.hdr = e.hdr /\ next.segments = e.segments
       /\ next.pos \in Nat /\ e.pos <= next.pos
       /\ IsList(next.sections) /\ Len(next.sections) = Len(E.sections)
       /\ SameSection(E.sections[1], next.sections[1])
       /\ next.sections[1].sh.offset = e.sections[1].sh.offset
       /\ \A n \in 1 .. Len(E.sections) : n # 1 => next.sections[n] = e.sections[n]
  <2>1. CASE next = e
    BY <1>2, <1>3, <1>12, <2>1
  <2>2. CASE next = [SetSection(e, t) EXCEPT !.pos = pos]
    <3>1. PICK m : m = SetSection(e, t)
      OBVIOUS
    <3>2. /\ DOMAIN m = ElfFields /\ m.hdr = e.hdr /\ m.segments = e.segments
          /\ IsList(m.sections) /\ Len(m.sections) = Len(e.sections)
          /\ m.sections[0 + 1] = t
          /\ \A n \in 1 .. Len(e.sections) : n # 0 + 1 => m.sections[n] = e.sections[n]
      BY <1>3, <1>10, <1>12, <3>1, SetSectionIs DEF WithSection
    <3>3. /\ DOMAIN next = ElfFields /\ next.hdr = m.hdr /\ next.segments = m.segments
          /\ next.pos = pos /\ next.sections = m.sections
      BY <2>2, <3>1, <3>2 DEF ElfFields
    <3>4. QED BY <1>3, <1>4, <1>7, <1>10, <1>12, <3>2, <3>3
  <2>3. QED BY <1>11, <2>1, <2>2
<1>14. SameObject(E, next)
  <2>1. \A n \in 1 .. Len(E.sections) : SameSection(E.sections[n], next.sections[n])
    BY <1>12, <1>13
  <2>2. QED BY <1>12, <1>13, <2>1 DEF SameObject
<1>15. \A i \in G : next.sections[i + 1] = e.sections[i + 1]
  <2>1. SUFFICES ASSUME NEW i \in G PROVE next.sections[i + 1] = e.sections[i + 1]
    OBVIOUS
  <2>2. i + 1 \in 1 .. Len(E.sections) /\ i + 1 # 1
    BY <1>2, <1>3
  <2>3. QED BY <1>13, <2>2
<1>16. \A i \in 0 .. (Len(E.sections) - 1) : Off(next, i) = Off(e, i)
  <2>1. SUFFICES ASSUME NEW i \in 0 .. (Len(E.sections) - 1) PROVE Off(next, i) = Off(e, i)
    OBVIOUS
  <2>2. i + 1 \in 1 .. Len(E.sections) /\ (i = 0 \/ i + 1 # 1)
    BY <1>3
  <2>3. CASE i = 0
    BY <1>3, <1>13, <2>3 DEF Off
  <2>4. CASE i + 1 # 1
    BY <1>13, <2>2, <2>4 DEF Off
  <2>5. QED BY <2>2, <2>3, <2>4
<1>17. \A i \in G : Off(next, i) = Off(e, i) /\ Occ(next, i) = Occ(e, i)
  BY <1>15 DEF Off, Occ
<1>18. \A i \in G : base <= Off(next, i) /\ Off(next, i) + Occ(next, i) <= next.pos
  <2>1. SUFFICES ASSUME NEW i \in G
                 PROVE  base <= Off(next, i) /\ Off(next, i) + Occ(next, i) <= next.pos
    OBVIOUS
  <2>2. Off(e, i) \in Nat /\ Occ(e, i) \in Nat
    BY <1>1, OffsetsAre DEF a
  <2>3. QED BY <1>2, <1>13, <1>17, <2>2
<1>19. \A i, j \in G : i # j => NotTogether(next, i, j)
  BY <1>2, <1>17 DEF NotTogether
<1>20. LaidSoFar(E, base, b)
  <2>1. base <= next.pos /\ next.hdr = E.hdr
    BY <1>2, <1>13
  <2>2. \A i \in 0 .. (Len(E.sections) - 1) : i \notin G => Off(next, i) = Off(E, i)
    BY <1>2, <1>16
  <2>3. /\ DOMAIN b = LayFields /\ b.ok /\ SameObject(E, b.elf) /\ b.elf.hdr = E.hdr
    BY <1>1, <1>14, <2>1
  <2>4. b.pos \in Nat /\ base <= b.pos /\ b.mem \in Nat /\ b.file \in Nat
    BY <1>1, <1>13, <2>1
  <2>5. /\ b.generated \subseteq 1 .. (Len(E.sections) - 1)
        /\ \A i \in b.generated : base <= Off(b.elf, i) /\ Off(b.elf, i) + Occ(b.elf, i) <= b.pos
        /\ \A i, j \in b.generated : i # j => NotTogether(b.elf, i, j)
        /\ \A i \in 0 .. (Len(E.sections) - 1) : i \notin b.generated => Off(b.elf, i) = Off(E, i)
    BY <1>1, <1>2, <1>18, <1>19, <2>2
  <2>6. QED BY <2>3, <2>4, <2>5 DEF LaidSoFar
<1>21. Further(a, b)
  BY <1>1, <1>13, <1>15 DEF Further
<1>22. QED BY <1>13, <1>20, <1>21 DEF LooseDone, a, b


(* A section outside all segments gets the next place that its alignment allows. *)
LEMMA LooseOne ==
  ASSUME NEW E, IsObject(E), NEW base \in Nat, NEW e, NEW G, LaidSoFar(E, base, AsLayout(e, G)),
         NEW x \in 1 .. (Len(E.sections) - 1), is_section_without_segment(e, x) <=> x \notin G,
         NEW next, next = PlaceLooseSection(e, x)
  PROVE  LooseDone(E, base, e, G, x, next)
<1> DEFINE a == AsLayout(e, G)
           b == AsLayout(next, G \cup {x})
<1>1. /\ DOMAIN a = LayFields /\ a.ok /\ a.elf = e /\ a.pos = e.pos /\ a.generated = G
      /\ DOMAIN b = LayFields /\ b.ok /\ b.elf = next /\ b.pos = next.pos /\ b.generated = G \cup {x}
      /\ b.mem = 0 /\ b.file = 0
  BY AsLayoutIs
<1> HIDE DEF a, b
<1>2. /\ SameObject(E, e) /\ e.pos \in Nat /\ LaidSoFar(E, base, a)
  BY <1>1 DEF LaidSoFar, a
<1>3. Len(E.sections) \in Nat /\ x \in Nat /\ x + 1 \in 1 .. Len(E.sections) /\ x # 0
  BY ListIs DEF IsObject
<1>4. /\ DOMAIN e = ElfFields /\ IsList(e.sections) /\ Len(e.sections) = Len(E.sections)
      /\ \A n \in 1 .. Len(E.sections) : SameSection(E.sections[n], e.sections[n])
  BY <1>2 DEF SameObject
<1>5. x # 0 /\ a.pos \in Nat
  BY <1>1, <1>2, <1>3
<1>6. CASE is_section_without_segment(e, x)
  <2>1. PICK sec : sec = e.sections[x + 1]
    OBVIOUS
  <2>2. SameSection(E.sections[x + 1], sec) /\ IsSection(E.sections[x + 1], (x + 1) - 1) /\ (x + 1) - 1 = x
    BY <1>3, <1>4, <2>1 DEF IsObject
  <2>3. /\ sec.sh.type # "NULL" /\ sec.sh.align \in Nat /\ sec.index = x /\ sec.sh.size \in Nat
    BY <1>3, <2>2 DEF SameSection, IsSection
  <2>4. PICK pos \in Nat : pos = Align(e.pos, sec.sh.align) /\ e.pos <= pos
    BY <1>2, <2>3, AlignIs
  <2>5. PICK t : t = [sec EXCEPT !.sh.offset = pos]
    OBVIOUS
  <2>6. /\ SameSection(E.sections[x + 1], t) /\ t.index = x /\ t.sh.offset = pos
        /\ t.sh.type = sec.sh.type /\ t.sh.size = sec.sh.size
    <3>1. PICK s : s = E.sections[x + 1]
      OBVIOUS
    <3>2. SameSection(s, sec) /\ sec.index = x
      BY <2>2, <2>3, <3>1
    <3>3. /\ SameSection(s, t) /\ t.sh.offset = pos
          /\ t.sh.type = sec.sh.type /\ t.sh.size = sec.sh.size /\ t.index = sec.index
      <4>1. PICK o \in Nat : o = pos
        BY <2>4
      <4>2. t = [sec EXCEPT !.sh.offset = o]
        BY <2>5, <4>1
      <4>3. /\ SameSection(s, [sec EXCEPT !.sh.offset = o])
            /\ [sec EXCEPT !.sh.offset = o].sh.offset = o
            /\ [sec EXCEPT !.sh.offset = o].sh.type = sec.sh.type
            /\ [sec EXCEPT !.sh.offset = o].sh.size = sec.sh.size
            /\ [sec EXCEPT !.sh.offset = o].index = sec.index
        BY <3>2, OffsetIs
      <4>4. QED BY <4>1, <4>2, <4>3
    <3>4. QED BY <3>1, <3>2, <3>3
  <2>7. PICK end : end = IF sec.sh.type \in {"NOBITS", "NULL"} THEN pos ELSE pos + sec.sh.size
    OBVIOUS
  <2>8. end = pos + Occupied(t)
    BY <2>3, <2>4, <2>6, <2>7 DEF Occupied
  <2>9. next = [SetSection(e, t) EXCEPT !.pos = end]
    BY <1>3, <1>6, <2>1, <2>4, <2>5, <2>7 DEF PlaceLooseSection
  <2>10. PICK m : m = SetSection(e, t)
    OBVIOUS
  <2>11. /\ DOMAIN m = ElfFields /\ m.hdr = e.hdr /\ m.segments = e.segments
         /\ IsList(m.sections) /\ Len(m.sections) = Len(e.sections)
         /\ m.sections[x + 1] = t
         /\ \A n \in 1 .. Len(e.sections) : n # x + 1 => m.sections[n] = e.sections[n]
    BY <1>3, <1>4, <2>6, <2>10, SetSectionIs DEF WithSection
  <2>12. /\ DOMAIN next = ElfFields /\ next.hdr = m.hdr /\ next.segments = m.segments
         /\ next.pos = end /\ next.sections = m.sections
    BY <2>9, <2>10, <2>11 DEF ElfFields
  <2>13. PICK gap \in Nat : gap = pos - e.pos /\ pos = e.pos + gap
    BY <1>2, <2>4
  <2>14. x \notin a.generated /\ b.generated = a.generated \cup {x}
         /\ t.sh.offset = a.pos + gap /\ b.pos = a.pos + gap + Occupied(t)
    BY <1>1, <1>6, <2>6, <2>8, <2>12, <2>13
  <2>15. /\ DOMAIN b.elf = ElfFields
         /\ b.elf.hdr = a.elf.hdr /\ b.elf.segments = a.elf.segments
         /\ IsList(b.elf.sections) /\ Len(b.elf.sections) = Len(E.sections)
         /\ b.elf.sections[x + 1] = t
         /\ \A n \in 1 .. Len(E.sections) : n # x + 1 => b.elf.sections[n] = a.elf.sections[n]
    BY <1>1, <1>4, <2>11, <2>12
  <2>16. MovedIn(E, a, x, gap, t, b)
    BY <1>1, <2>6, <2>14, <2>15 DEF MovedIn
  <2>17. Kept(E, base, a, x, b)
    BY <1>2, <2>16, MovedInKeeps
  <2>18. LaidSoFar(E, base, b) /\ Further(a, b) /\ next.segments = e.segments
    BY <2>11, <2>12, <2>17 DEF Kept
  <2>19. QED BY <1>3, <2>18 DEF LooseDone, a, b
<1>7. CASE ~is_section_without_segment(e, x)
  <2>1. next = e /\ G \cup {x} = G
    BY <1>7 DEF PlaceLooseSection
  <2>2. b = a
    BY <2>1 DEF a, b
  <2>3. a.generated \subseteq 1 .. (Len(E.sections) - 1)
    BY <1>2 DEF LaidSoFar
  <2>4. Further(a, a)
    BY <1>1, <1>2, FurtherReflexive
  <2>5. QED BY <1>2, <1>3, <2>1, <2>2, <2>4 DEF LooseDone, a, b
<1>8. QED BY <1>6, <1>7

----------------------------------------
(* All sections *)

(* A segment that has its place keeps it, and agrees with the sections that follow. *)
LEMMA SegmentStaysDone ==
  ASSUME NEW E, IsObject(E), NEW base \in Nat, NEW acc, LaidSoFar(E, base, acc),
         NEW next, LaidSoFar(E, base, next), Further(acc, next), NEW s, SegmentDone(acc, s)
  PROVE  SegmentDone(next, s)
<1>1. acc.pos \in Nat /\ next.pos \in Nat
  BY DEF LaidSoFar
<1>2. /\ acc.pos <= next.pos
      /\ \A i \in acc.generated : next.elf.sections[i + 1] = acc.elf.sections[i + 1]
      /\ \A i \in next.generated \ acc.generated : acc.pos <= Off(next.elf, i)
  BY DEF Further
<1>3. /\ s.offset_set = TRUE /\ s.ph.offset \in Nat \ {0} /\ s.ph.filesz \in Nat
      /\ s.ph.type = "LOAD" /\ s.ph.filesz > 0
           => s.ph.offset < acc.pos /\ \A i \in acc.generated : Agrees(acc.elf, i, s)
  BY DEF SegmentDone
<1>4. ASSUME s.ph.type = "LOAD", s.ph.filesz > 0, NEW i \in next.generated
      PROVE  Agrees(next.elf, i, s)
  <2>1. CASE i \in acc.generated
    <3>1. Agrees(acc.elf, i, s) /\ next.elf.sections[i + 1] = acc.elf.sections[i + 1]
      BY <1>2, <1>3, <1>4, <2>1
    <3>2. QED BY <3>1 DEF Agrees
  <2>2. CASE i \notin acc.generated
    <3>1. acc.pos <= Off(next.elf, i) /\ s.ph.offset < acc.pos
      BY <1>2, <1>3, <1>4, <2>2
    <3>2. i \in 1 .. (Len(E.sections) - 1)
      BY <1>4 DEF LaidSoFar
    <3>3. Off(next.elf, i) \in Nat
      BY <1>4, OffsetsAre
    <3>4. s.ph.offset < Off(next.elf, i)
      BY <1>1, <1>3, <3>1, <3>3
    <3>5. QED BY <1>3, <3>2, <3>4, AgreesElsewhere
  <2>3. QED BY <2>1, <2>2
<1>5. s.ph.type = "LOAD" /\ s.ph.filesz > 0 => s.ph.offset < next.pos
  BY <1>1, <1>2, <1>3
<1>6. QED BY <1>3, <1>4, <1>5 DEF SegmentDone

(* The first k sections have been looked at, and those of segments have places since L. *)
LooseSoFar(E, L, k, e) ==
  LET G == L.generated \cup (1 .. (k - 1))
  IN  /\ LaidSoFar(E, E.pos, AsLayout(e, G)) /\ Further(L, AsLayout(e, G))
      /\ e.segments = L.elf.segments

(* What the layout of the segments leaves. *)
Laid(E, L) ==
  /\ LaidSoFar(E, E.pos, L)
  /\ L.generated = UNION { SectionsOf(L.elf.segments[n]) : n \in 1 .. Len(L.elf.segments) }
  /\ \A n \in 1 .. Len(L.elf.segments) : SegmentDone(L, L.elf.segments[n])

LEMMA LooseOneMore ==
  ASSUME NEW E, Ready(E), NEW L, Laid(E, L), NEW k \in 1 .. Len(E.sections), NEW e,
         LooseSoFar(E, L, k - 1, e), NEW next, next = PlaceLooseSection(e, k - 1)
  PROVE  LooseSoFar(E, L, k, next)
<1> DEFINE G == L.generated \cup (1 .. ((k - 1) - 1))
           H == L.generated \cup (1 .. (k - 1))
<1>1. /\ IsObject(E) /\ E.pos \in Nat /\ Len(E.sections) \in Nat /\ k \in Nat
  BY ReadyIs DEF Ready
<1>2. LaidSoFar(E, E.pos, AsLayout(e, G)) /\ Further(L, AsLayout(e, G)) /\ e.segments = L.elf.segments
  BY DEF LooseSoFar
<1>3. LaidSoFar(E, E.pos, L)
  BY DEF Laid
<1>4. H = IF k - 1 = 0 THEN G ELSE G \cup {k - 1}
  BY <1>1
<1>5. PICK x \in 0 .. (Len(E.sections) - 1) : x = k - 1
  BY <1>1
<1> HIDE DEF G, H
<1>6. LooseDone(E, E.pos, e, G, x, next)
  <2>1. CASE x = 0
    <3>1. next = PlaceLooseSection(e, 0)
      BY <1>5, <2>1
    <3>2. LooseDone(E, E.pos, e, G, 0, next)
      BY <1>1, <1>2, <3>1, LooseNull
    <3>3. QED BY <2>1, <3>2
  <2>2. CASE x # 0
    <3>1. x \in 1 .. (Len(E.sections) - 1) /\ next = PlaceLooseSection(e, x)
      BY <1>1, <1>5, <2>2
    <3>2. is_section_without_segment(e, x) <=> x \notin L.generated
      <4>1. DOMAIN e.segments = 1 .. Len(L.elf.segments)
        BY <1>2, <1>3, ListIs DEF LaidSoFar, SameObject
      <4>2. L.generated = UNION { SectionsOf(L.elf.segments[n]) : n \in 1 .. Len(L.elf.segments) }
        BY DEF Laid
      <4>3. QED BY <1>2, <4>1, <4>2 DEF is_section_without_segment
    <3>3. x \in G <=> x \in L.generated
      BY <1>1, <1>5 DEF G
    <3>4. QED BY <1>1, <1>2, <3>1, <3>2, <3>3, LooseOne
  <2>3. QED BY <2>1, <2>2
<1>7. LaidSoFar(E, E.pos, AsLayout(next, H)) /\ Further(AsLayout(e, G), AsLayout(next, H))
      /\ next.segments = e.segments
  BY <1>4, <1>5, <1>6 DEF LooseDone
<1>8. Further(L, AsLayout(next, H))
  <2>1. PICK a, b : a = AsLayout(e, G) /\ b = AsLayout(next, H)
    OBVIOUS
  <2>2. /\ LaidSoFar(E, E.pos, a) /\ LaidSoFar(E, E.pos, b) /\ Further(L, a) /\ Further(a, b)
    BY <1>2, <1>7, <2>1
  <2>3. L.pos \in Nat /\ a.pos \in Nat /\ b.pos \in Nat
    BY <1>3, <2>2 DEF LaidSoFar
  <2>4. \A i \in b.generated : Off(b.elf, i) \in Nat
    BY <1>1, <2>2, OffsetsAre
  <2>5. Further(L, b)
    BY <2>2, <2>3, <2>4, FurtherTransitive
  <2>6. QED BY <2>1, <2>5
<1>9. QED BY <1>2, <1>7, <1>8 DEF LooseSoFar, H

(* The object of a layout, as the loop over all sections finds it. *)
AtEnd(L) == [L.elf EXCEPT !.pos = L.pos]

LEMMA LooseBegins ==
  ASSUME NEW E, Ready(E), NEW L, Laid(E, L)
  PROVE  LooseSoFar(E, L, 0, AtEnd(L))
<1>1. PICK e : e = AtEnd(L)
  OBVIOUS
<1>2. /\ DOMAIN L = LayFields /\ SameObject(E, L.elf) /\ L.elf.hdr = E.hdr
      /\ L.pos \in Nat /\ E.pos <= L.pos
      /\ L.generated \subseteq 1 .. (Len(E.sections) - 1)
      /\ \A i \in L.generated : E.pos <= Off(L.elf, i) /\ Off(L.elf, i) + Occ(L.elf, i) <= L.pos
      /\ \A i, j \in L.generated : i # j => NotTogether(L.elf, i, j)
      /\ \A i \in 0 .. (Len(E.sections) - 1) : i \notin L.generated => Off(L.elf, i) = Off(E, i)
  BY DEF Laid, LaidSoFar
<1>3. /\ DOMAIN e = ElfFields /\ e.hdr = L.elf.hdr /\ e.sections = L.elf.sections
      /\ e.segments = L.elf.segments /\ e.pos = L.pos
  BY <1>1, <1>2 DEF SameObject, ElfFields, AtEnd
<1>4. SameObject(E, e)
  BY <1>2, <1>3 DEF SameObject
<1>5. \A i : Off(e, i) = Off(L.elf, i) /\ Occ(e, i) = Occ(L.elf, i)
  BY <1>3 DEF Off, Occ
<1>6. PICK b : b = AsLayout(e, L.generated)
  OBVIOUS
<1>7. /\ DOMAIN b = LayFields /\ b.ok /\ b.elf = e /\ b.pos = L.pos /\ b.generated = L.generated
      /\ b.mem = 0 /\ b.file = 0
  BY <1>3, <1>6, AsLayoutIs
<1>8. LaidSoFar(E, E.pos, b)
  <2>1. /\ DOMAIN b = LayFields /\ b.ok /\ SameObject(E, b.elf) /\ b.elf.hdr = E.hdr
    BY <1>2, <1>3, <1>4, <1>7
  <2>2. b.pos \in Nat /\ E.pos <= b.pos /\ b.mem \in Nat /\ b.file \in Nat
    BY <1>2, <1>7
  <2>3. \A i, j : NotTogether(L.elf, i, j) => NotTogether(e, i, j)
    BY <1>5 DEF NotTogether
  <2>4. /\ b.generated \subseteq 1 .. (Len(E.sections) - 1)
        /\ \A i \in b.generated : E.pos <= Off(b.elf, i) /\ Off(b.elf, i) + Occ(b.elf, i) <= b.pos
        /\ \A i, j \in b.generated : i # j => NotTogether(b.elf, i, j)
        /\ \A i \in 0 .. (Len(E.sections) - 1) : i \notin b.generated => Off(b.elf, i) = Off(E, i)
    BY <1>2, <1>5, <1>7, <2>3
  <2>5. QED BY <2>1, <2>2, <2>4 DEF LaidSoFar
<1>9. Further(L, b)
  BY <1>2, <1>3, <1>7 DEF Further
<1>10. L.generated \cup (1 .. (0 - 1)) = L.generated
  OBVIOUS
<1>11. QED BY <1>1, <1>3, <1>6, <1>8, <1>9, <1>10 DEF LooseSoFar

LEMMA LayoutSectionsIsLoop ==
  ASSUME NEW e
  PROVE  LayoutSections(e) = Fold("loose", 0, e, [n \in DOMAIN e.sections |-> n - 1])
  BY DEF LayoutSections, Fold, FoldLeft, MapThenFoldSet, Body

(* After the loop every section has a place. *)
LEMMA LayoutSectionsIs ==
  ASSUME NEW E, Ready(E), NEW L, Laid(E, L)
  PROVE  LooseSoFar(E, L, Len(E.sections), LayoutSections(AtEnd(L)))
<1>1. PICK e : e = AtEnd(L)
  OBVIOUS
<1>2. LooseSoFar(E, L, 0, e)
  BY <1>1, LooseBegins
<1>3. PICK N \in Nat : N = Len(E.sections)
  BY ReadyIs
<1>4. DOMAIN e.sections = 1 .. N
  <2>1. e.sections = L.elf.sections
    <3>1. DOMAIN L.elf = ElfFields
      BY DEF Laid, LaidSoFar, SameObject
    <3>2. QED BY <1>1, <3>1 DEF AtEnd, ElfFields
  <2>2. QED BY <1>3, <2>1, ListIs DEF Laid, LaidSoFar, SameObject
<1>5. PICK s : s = [n \in DOMAIN e.sections |-> n - 1]
  OBVIOUS
<1>6. DOMAIN s = 1 .. N /\ \A k \in 1 .. N : s[k] = k - 1
  BY <1>4, <1>5
<1>7. PICK h : Runs(h, "loose", 0, e, s, N)
  BY <1>3, <1>6, FoldSteps
<1>8. /\ h[0] = e
      /\ \A k \in 1 .. N : h[k] = PlaceLooseSection(h[k - 1], k - 1)
      /\ h[N] = LayoutSections(e)
  BY <1>5, <1>6, <1>7, LayoutSectionsIsLoop DEF Runs, Body
<1> DEFINE P == { k \in 0 .. N : LooseSoFar(E, L, k, h[k]) }
<1>9. 0 \in P
  BY <1>2, <1>3, <1>8
<1>10. ASSUME NEW k \in 1 .. N, k - 1 \in P PROVE k \in P
  <2>1. PICK a, next : a = h[k - 1] /\ next = h[k]
    OBVIOUS
  <2>2. next = PlaceLooseSection(a, k - 1) /\ LooseSoFar(E, L, k - 1, a)
    BY <1>8, <1>10, <2>1
  <2>3. k \in 1 .. Len(E.sections)
    BY <1>3
  <2>4. LooseSoFar(E, L, k, next)
    BY <2>2, <2>3, LooseOneMore
  <2>5. QED BY <1>3, <2>1, <2>4
<1>11. \A k \in 0 .. N : k \in P
  <2> HIDE DEF P
  <2>1. QED BY <1>3, <1>9, <1>10, Induction
<1>12. N \in P
  BY <1>3, <1>11
<1>13. QED BY <1>1, <1>3, <1>8, <1>12

----------------------------------------
(* What save begins with *)

(* A list of numbers has a greatest one. *)
LEMMA ListHasBound ==
  ASSUME NEW N \in Nat, NEW f, \A k \in 1 .. N : f[k] \in Nat
  PROVE  \E b \in Nat : \A k \in 1 .. N : f[k] <= b
<1> DEFINE P == { n \in 0 .. N : \E b \in Nat : \A k \in 1 .. n : f[k] <= b }
<1>1. 0 \in P
  OBVIOUS
<1>2. ASSUME NEW n \in 1 .. N, n - 1 \in P PROVE n \in P
  <2>1. PICK b \in Nat : \A k \in 1 .. (n - 1) : f[k] <= b
    BY <1>2
  <2>2. PICK c \in Nat : c = f[n]
    OBVIOUS
  <2>3. PICK d \in Nat : b <= d /\ c <= d
    BY <2>1, <2>2
  <2>4. ASSUME NEW k \in 1 .. n PROVE f[k] <= d
    <3>1. CASE k = n
      BY <2>2, <2>3, <3>1
    <3>2. CASE k # n
      <4>1. k \in 1 .. (n - 1) /\ k \in 1 .. N
        BY <3>2
      <4>2. f[k] <= b /\ f[k] \in Nat
        BY <2>1, <4>1
      <4>3. QED BY <2>3, <4>2
    <3>3. QED BY <3>1, <3>2
  <2>5. QED BY <2>3, <2>4
<1>3. \A n \in 0 .. N : n \in P
  <2> HIDE DEF P
  <2>1. QED BY <1>1, <1>2, Induction
<1>4. N \in P
  <2> HIDE DEF P
  <2>1. N \in 0 .. N
    OBVIOUS
  <2>2. QED BY <1>3, <2>1
<1>5. QED BY <1>4

(* What save looks at is not changed by the alignment and the counts that it sets first. *)
PreparedSegment(s, t) ==
  /\ DOMAIN t = SegmentFields /\ DOMAIN t.ph = PhdrFields
  /\ t.index = s.index /\ t.sections = s.sections /\ t.data = s.data /\ t.offset_set = s.offset_set
  /\ t.ph.type = s.ph.type /\ t.ph.flags = s.ph.flags /\ t.ph.offset = s.ph.offset
  /\ t.ph.vaddr = s.ph.vaddr /\ t.ph.align \in Nat

PreparedHeader(h, hdr, n, m) ==
  /\ DOMAIN hdr = HdrFields
  /\ hdr.class = h.class /\ hdr.encoding = h.encoding /\ hdr.entry = h.entry
  /\ hdr.ehsize = h.ehsize /\ hdr.phentsize = h.phentsize /\ hdr.shentsize = h.shentsize
  /\ hdr.shstrndx = h.shstrndx /\ hdr.shnum = m /\ hdr.phnum = n
  /\ hdr.phoff = IF n > 0 THEN h.ehsize ELSE 0

Prepared(e) == CalcSegmentAlignment(Prepare(e))

IsPrepared(e, E) ==
  /\ DOMAIN E = ElfFields /\ E.sections = e.sections
  /\ IsList(E.segments) /\ Len(E.segments) = Len(e.segments)
  /\ \A n \in 1 .. Len(e.segments) : PreparedSegment(e.segments[n], E.segments[n])
  /\ PreparedHeader(e.hdr, E.hdr, Len(e.segments), Len(e.sections))
  /\ E.pos = e.hdr.ehsize + e.hdr.phentsize * Len(e.segments)

LEMMA PrepareIs ==
  ASSUME NEW e, IsObject(e)
  PROVE  /\ DOMAIN Prepare(e) = ElfFields
         /\ Prepare(e).sections = e.sections /\ Prepare(e).segments = e.segments
         /\ PreparedHeader(e.hdr, Prepare(e).hdr, Len(e.segments), Len(e.sections))
         /\ Prepare(e).pos = e.hdr.ehsize + e.hdr.phentsize * Len(e.segments)
<1>1. PICK n, m, p : /\ n = Len(e.segments) /\ p = (IF n > 0 THEN e.hdr.ehsize ELSE 0)
                     /\ m = Len(e.sections)
  OBVIOUS
<1>2. PICK q : q = e.hdr.ehsize + e.hdr.phentsize * n
  OBVIOUS
<1>3. PICK t : t = [e EXCEPT !.hdr.phnum = n, !.hdr.phoff = p, !.hdr.shnum = m, !.hdr.shoff = 0, !.pos = q]
  OBVIOUS
<1>4. t = Prepare(e)
  BY <1>1, <1>2, <1>3 DEF Prepare
<1>5. DOMAIN e = ElfFields /\ DOMAIN e.hdr = HdrFields
  BY DEF IsObject, IsHeader
<1>6. PICK h : h = [e.hdr EXCEPT !.phnum = n, !.phoff = p, !.shnum = m, !.shoff = 0]
  OBVIOUS
<1>7. t = [e EXCEPT !.hdr = h, !.pos = q]
  BY <1>3, <1>5, <1>6 DEF ElfFields, HdrFields
<1>8. PreparedHeader(e.hdr, h, n, m)
  BY <1>1, <1>5, <1>6 DEF PreparedHeader, HdrFields
<1>9. QED BY <1>1, <1>2, <1>4, <1>5, <1>7, <1>8 DEF ElfFields

Aligns(e, n) == {e.segments[n].ph.align} \cup { e.sections[i + 1].sh.align : i \in SectionsOf(e.segments[n]) }

LEMMA AlignsIs ==
  ASSUME NEW e, IsObject(e), NEW n \in 1 .. Len(e.segments)
  PROVE  Max(Aligns(e, n)) \in Nat
<1>1. PICK s, c : s = e.segments[n].sections /\ c = e.segments[n].ph.align
  OBVIOUS
<1>2. IsSegment(e.segments[n], n - 1, Len(e.sections))
  BY Zenon DEF IsObject
<1>3. PICK M \in Nat : M = Len(e.sections)
  BY ListIs, Zenon DEF IsObject
<1>4. IsList(s) /\ c \in Nat /\ \A k \in 1 .. Len(s) : s[k] \in 1 .. (M - 1)
  BY <1>1, <1>2, <1>3, Zenon DEF IsSegment
<1>5. PICK N \in Nat : N = Len(s) /\ DOMAIN s = 1 .. N
  BY <1>4, ListIs, Zenon
<1>6. PICK f : f = [k \in 1 .. N |-> e.sections[s[k] + 1].sh.align]
  OBVIOUS
<1>7. ASSUME NEW k \in 1 .. N PROVE f[k] \in Nat
  <2>1. s[k] \in 1 .. (M - 1)
    BY <1>4, <1>5, Zenon
  <2>2. s[k] + 1 \in 1 .. M
    BY <2>1
  <2>3. IsSection(e.sections[s[k] + 1], (s[k] + 1) - 1)
    BY <1>3, <2>2, Zenon DEF IsObject
  <2>4. e.sections[s[k] + 1].sh.align \in Nat
    BY <2>3, Zenon DEF IsSection
  <2>5. QED BY <1>6, <2>4, Zenon
<1>8. PICK b \in Nat : \A k \in 1 .. N : f[k] <= b
  BY <1>7, ListHasBound
<1>9. PICK A : A = {c} \cup { f[k] : k \in 1 .. N }
  OBVIOUS
<1>10. Aligns(e, n) = A
  <2>1. SectionsOf(e.segments[n]) = { s[k] : k \in 1 .. N }
    BY <1>1, <1>5 DEF SectionsOf, ToSet
  <2>2. \A k \in 1 .. N : f[k] = e.sections[s[k] + 1].sh.align
    BY <1>6, Zenon
  <2>3. QED BY <1>1, <1>9, <2>1, <2>2 DEF Aligns
<1>11. PICK d \in Nat : b <= d /\ c <= d
  BY <1>4
<1>12. ASSUME NEW m \in A PROVE m \in Nat /\ m <= d
  <2>1. CASE m = c
    BY <1>4, <1>11, <2>1
  <2>2. CASE m # c
    <3>1. PICK k \in 1 .. N : m = f[k]
      BY <1>9, <2>2, Zenon
    <3>2. PICK x \in Nat : x = m /\ x <= b
      BY <1>7, <1>8, <3>1, Zenon
    <3>3. QED BY <1>11, <3>2
  <2>3. QED BY <2>1, <2>2
<1>13. A \in SUBSET Nat /\ A # {} /\ \A m \in A : m <= d
  BY <1>9, <1>12, Zenon
<1>14. Max(A) \in A
  BY <1>13, MaxIs, Zenon
<1>15. QED BY <1>10, <1>13, <1>14, Zenon

LEMMA PreparedIs ==
  ASSUME NEW e, IsObject(e)
  PROVE  IsPrepared(e, Prepared(e))
<1>1. PICK p : p = Prepare(e)
  OBVIOUS
<1>2. /\ DOMAIN p = ElfFields /\ p.sections = e.sections /\ p.segments = e.segments
      /\ PreparedHeader(e.hdr, p.hdr, Len(e.segments), Len(e.sections))
      /\ p.pos = e.hdr.ehsize + e.hdr.phentsize * Len(e.segments)
  BY <1>1, PrepareIs
<1>3. PICK N \in Nat : N = Len(e.segments) /\ DOMAIN e.segments = 1 .. N
  BY ListIs DEF IsObject
<1>4. PICK t : t = [n \in 1 .. N |-> [e.segments[n] EXCEPT !.ph.align = Max(Aligns(e, n))]]
  OBVIOUS
<1>5. Prepared(e) = [p EXCEPT !.segments = t]
  <2>1. PICK u : u = [n \in DOMAIN p.segments |-> [p.segments[n] EXCEPT !.ph.align = Max(Aligns(p, n))]]
    OBVIOUS
  <2>2. CalcSegmentAlignment(p) = [p EXCEPT !.segments = u]
    <3>1. \A n : AlignedSegment(p, p.segments[n])
                    = [p.segments[n] EXCEPT !.ph.align = Max(Aligns(p, n))]
      BY DEF AlignedSegment, Aligns
    <3>2. u = [n \in DOMAIN p.segments |-> AlignedSegment(p, p.segments[n])]
      BY <2>1, <3>1
    <3>3. QED BY <3>2 DEF CalcSegmentAlignment
  <2>3. u = t
    <3>1. \A n : Aligns(p, n) = Aligns(e, n)
      BY <1>2 DEF Aligns
    <3>2. QED BY <1>2, <1>3, <1>4, <2>1, <3>1
  <2>4. QED BY <1>1, <2>2, <2>3 DEF Prepared
<1>6. IsList(t) /\ Len(t) = N
  BY <1>4, ListOf
<1>7. ASSUME NEW n \in 1 .. N PROVE PreparedSegment(e.segments[n], t[n])
  <2>1. IsSegment(e.segments[n], n - 1, Len(e.sections))
    BY <1>3 DEF IsObject
  <2>2. PICK a \in Nat : a = Max(Aligns(e, n))
    BY <1>3, AlignsIs
  <2>3. PICK s : s = e.segments[n]
    OBVIOUS
  <2>4. t[n] = [s EXCEPT !.ph.align = a]
    BY <1>4, <2>2, <2>3
  <2>5. QED BY <2>1, <2>3, <2>4 DEF IsSegment, PreparedSegment, SegmentFields, PhdrFields
<1>8. PICK E : E = Prepared(e)
  OBVIOUS
<1>9. /\ DOMAIN E = ElfFields /\ E.sections = p.sections /\ E.segments = t /\ E.hdr = p.hdr
      /\ E.pos = p.pos
  BY <1>2, <1>5, <1>8 DEF ElfFields
<1>10. QED BY <1>2, <1>3, <1>6, <1>7, <1>8, <1>9 DEF IsPrepared


LEMMA SizesAre ==
  ASSUME NEW hdr, IsHeader(hdr)
  PROVE  /\ hdr.ehsize \in Nat \ {0} /\ hdr.phentsize \in Nat \ {0} /\ hdr.shentsize \in Nat \ {0}
         /\ hdr.ehsize = SizeOf[hdr.class].Ehdr /\ hdr.phentsize = SizeOf[hdr.class].Phdr
         /\ hdr.shentsize = SizeOf[hdr.class].Shdr /\ MaxSize \in Nat \ {0}
  BY SizesAssumption DEF IsHeader, Structures

(* The alignments and counts leave a sensible object, ready for the layout. *)
LEMMA PreparedReady ==
  ASSUME NEW e, IsObject(e), Sensible(e)
  PROVE  Ready(Prepared(e))
<1>1. PICK E : E = Prepared(e)
  OBVIOUS
<1>2. /\ DOMAIN E = ElfFields /\ E.sections = e.sections
      /\ IsList(E.segments) /\ Len(E.segments) = Len(e.segments)
      /\ \A n \in 1 .. Len(e.segments) : PreparedSegment(e.segments[n], E.segments[n])
      /\ PreparedHeader(e.hdr, E.hdr, Len(e.segments), Len(e.sections))
      /\ E.pos = e.hdr.ehsize + e.hdr.phentsize * Len(e.segments)
  BY <1>1, PreparedIs DEF IsPrepared
<1>3. /\ IsHeader(e.hdr) /\ IsList(e.sections) /\ Len(e.sections) >= 2
      /\ \A n \in 1 .. Len(e.sections) : IsSection(e.sections[n], n - 1)
      /\ IsList(e.segments)
      /\ \A n \in 1 .. Len(e.segments) : IsSegment(e.segments[n], n - 1, Len(e.sections))
  BY DEF IsObject
<1>4. PICK N \in Nat : N = Len(e.segments) /\ DOMAIN e.segments = 1 .. N /\ DOMAIN E.segments = 1 .. N
  BY <1>2, <1>3, ListIs
<1>5. /\ e.hdr.ehsize \in Nat \ {0} /\ e.hdr.phentsize \in Nat \ {0}
  BY <1>3, SizesAre
<1>6. IsHeader(E.hdr) /\ E.hdr.phnum = N /\ E.hdr.ehsize = e.hdr.ehsize
      /\ E.hdr.phentsize = e.hdr.phentsize /\ E.hdr.phoff = IF N > 0 THEN e.hdr.ehsize ELSE 0
  BY <1>2, <1>3, <1>4 DEF IsHeader, PreparedHeader
<1>7. ASSUME NEW n \in 1 .. N PROVE IsSegment(E.segments[n], n - 1, Len(E.sections))
  <2>1. IsSegment(e.segments[n], n - 1, Len(e.sections)) /\ PreparedSegment(e.segments[n], E.segments[n])
    BY <1>2, <1>3, <1>4
  <2>2. PICK s, t : s = e.segments[n] /\ t = E.segments[n]
    OBVIOUS
  <2>3. IsSegment(s, n - 1, Len(e.sections)) /\ PreparedSegment(s, t)
    BY <2>1, <2>2
  <2>4. IsSegment(t, n - 1, Len(e.sections))
    BY <2>3 DEF IsSegment, PreparedSegment
  <2>5. QED BY <1>2, <2>2, <2>4
<1>8. IsObject(E)
  BY <1>2, <1>3, <1>4, <1>6, <1>7 DEF IsObject
<1>9. \A n \in 1 .. N : /\ E.segments[n].ph.type = e.segments[n].ph.type
                        /\ E.segments[n].ph.vaddr = e.segments[n].ph.vaddr
                        /\ E.segments[n].sections = e.segments[n].sections
                        /\ SectionsOf(E.segments[n]) = SectionsOf(e.segments[n])
  BY <1>2, <1>4 DEF PreparedSegment, SectionsOf
<1>10. Sensible(E)
  <2>1. \A n, m \in 1 .. N : /\ Apart(E, n, m) <=> Apart(e, n, m)
                             /\ Within(E, n, m) <=> Within(e, n, m)
    <3>1. SUFFICES ASSUME NEW n \in 1 .. N, NEW m \in 1 .. N
                   PROVE  /\ Apart(E, n, m) <=> Apart(e, n, m)
                          /\ Within(E, n, m) <=> Within(e, n, m)
      BY Zenon
    <3>2. /\ SectionsOf(E.segments[n]) = SectionsOf(e.segments[n])
          /\ SectionsOf(E.segments[m]) = SectionsOf(e.segments[m])
      BY <1>9, Zenon
    <3>3. QED BY <3>2, Zenon DEF Apart, Within
  <2>2. ASSUME NEW n \in 1 .. N, NEW i \in SectionsOf(E.segments[n])
        PROVE  /\ E.segments[n].ph.type # "NOTE" => "ALLOC" \in E.sections[i + 1].sh.flags
               /\ E.sections[i + 1].addrset => E.sections[i + 1].sh.addr >= E.segments[n].ph.vaddr
    <3>1. n \in DOMAIN e.segments /\ i \in SectionsOf(e.segments[n])
      BY <1>4, <1>9, <2>2, Zenon
    <3>2. /\ e.segments[n].ph.type # "NOTE" => "ALLOC" \in e.sections[i + 1].sh.flags
          /\ e.sections[i + 1].addrset => e.sections[i + 1].sh.addr >= e.segments[n].ph.vaddr
      BY <3>1, Zenon DEF Sensible
    <3>3. /\ E.sections = e.sections /\ E.segments[n].ph.type = e.segments[n].ph.type
          /\ E.segments[n].ph.vaddr = e.segments[n].ph.vaddr
      BY <1>2, <1>9, Zenon
    <3>4. QED BY <3>2, <3>3, Zenon
  <2>3. ASSUME NEW n \in 1 .. N, NEW m \in 1 .. N, n # m, ~Apart(E, n, m)
        PROVE  /\ Within(E, n, m) \/ Within(E, m, n)
               /\ LET first == E.sections[E.segments[n].sections[1] + 1]
                  IN  /\ first.addrset /\ first.sh.addr = E.segments[n].ph.vaddr
                      /\ first.sh.type # "NOBITS" /\ first.sh.size # 0
    <3>1. n \in DOMAIN e.segments /\ m \in DOMAIN e.segments /\ ~Apart(e, n, m)
      BY <1>4, <2>1, <2>3, Zenon
    <3>2. /\ Within(e, n, m) \/ Within(e, m, n)
          /\ LET first == e.sections[e.segments[n].sections[1] + 1]
             IN  /\ first.addrset /\ first.sh.addr = e.segments[n].ph.vaddr
                 /\ first.sh.type # "NOBITS" /\ first.sh.size # 0
      BY <2>3, <3>1, Zenon DEF Sensible
    <3>3. /\ E.sections = e.sections /\ E.segments[n].sections = e.segments[n].sections
          /\ E.segments[n].ph.vaddr = e.segments[n].ph.vaddr
      BY <1>2, <1>9, Zenon
    <3>4. Within(E, n, m) \/ Within(E, m, n)
      BY <2>1, <3>2, Zenon
    <3>5. QED BY <3>2, <3>3, <3>4, Zenon
  <2>4. QED BY <1>4, <2>2, <2>3, Zenon DEF Sensible
<1>11. E.hdr.phnum = Len(E.segments) /\ E.hdr.phoff \in Nat
       /\ (E.segments # << >> => E.hdr.phoff = E.hdr.ehsize)
  <2>1. E.segments # << >> => N > 0
    BY <1>2, <1>4, ListEmpty
  <2>2. QED BY <1>2, <1>4, <1>5, <1>6, <2>1
<1>12. QED BY <1>1, <1>2, <1>4, <1>5, <1>6, <1>8, <1>10, <1>11 DEF Ready

----------------------------------------
(* What save leaves *)

LEMMA SegmentsLaid ==
  ASSUME NEW E, Ready(E), LayoutSegments(E).ok
  PROVE  Laid(E, LayoutSegments(E))
<1>1. PICK L, r : L = LayoutSegments(E) /\ r = get_ordered_segments(E)
  OBVIOUS
<1>2. IsObject(E) /\ MaxSize \in Nat \ {0}
  BY SizesAre DEF Ready, IsObject
<1>3. LayoutSoFar(E, r, Len(r), L)
  BY <1>1, <1>2, LayoutSegmentsIs
<1>4. InOrderOf(E, r)
  BY <1>1, <1>2, OrderOf
<1>5. PICK N \in Nat : N = Len(E.segments) /\ N = Len(r)
  BY <1>2, <1>4, ListIs DEF IsObject, InOrderOf, InOrder
<1>6. /\ LaidSoFar(E, E.pos, L)
      /\ L.generated = UNION { SectionsOf(r[j]) : j \in 1 .. N }
      /\ \A j \in 1 .. N : SegmentDone(L, L.elf.segments[r[j].index + 1])
  BY <1>3, <1>5 DEF LayoutSoFar
<1>7. /\ Len(L.elf.segments) = N
      /\ \A n \in 1 .. N : SameSegment(E.segments[n], L.elf.segments[n])
  BY <1>5, <1>6 DEF LaidSoFar, SameObject
<1>8. \A j \in 1 .. N : \E n \in 1 .. N : r[j] = E.segments[n]
  BY <1>4, <1>5 DEF InOrderOf, InOrder, Among
<1>9. \A n \in 1 .. N : \E j \in 1 .. N : E.segments[n] = r[j]
  BY <1>4, <1>5 DEF InOrderOf, InOrder, Among
<1>10. \A n \in 1 .. N : SectionsOf(E.segments[n]) = SectionsOf(L.elf.segments[n])
  BY <1>7 DEF SameSegment, SectionsOf
<1>11. L.generated = UNION { SectionsOf(L.elf.segments[n]) : n \in 1 .. Len(L.elf.segments) }
  <2>1. ASSUME NEW x \in L.generated
        PROVE  \E n \in 1 .. N : x \in SectionsOf(L.elf.segments[n])
    <3>1. PICK j \in 1 .. N : x \in SectionsOf(r[j])
      BY <1>6, <2>1
    <3>2. PICK n \in 1 .. N : r[j] = E.segments[n]
      BY <1>8
    <3>3. QED BY <1>10, <3>1, <3>2
  <2>2. ASSUME NEW n \in 1 .. N, NEW x \in SectionsOf(L.elf.segments[n]) PROVE x \in L.generated
    <3>1. PICK j \in 1 .. N : E.segments[n] = r[j]
      BY <1>9
    <3>2. x \in SectionsOf(r[j])
      BY <1>10, <2>2, <3>1
    <3>3. QED BY <1>6, <3>2
  <2>3. QED BY <1>7, <2>1, <2>2
<1>12. ASSUME NEW n \in 1 .. N PROVE SegmentDone(L, L.elf.segments[n])
  <2>1. PICK j \in 1 .. N : E.segments[n] = r[j]
    BY <1>9
  <2>2. E.segments[n].index = n - 1
    BY <1>2, <1>5 DEF IsObject, IsSegment
  <2>3. r[j].index + 1 = n
    BY <1>5, <2>1, <2>2
  <2>4. QED BY <1>6, <2>3
<1>13. QED BY <1>1, <1>6, <1>7, <1>11, <1>12 DEF Laid

SavedHeader(h, hdr) ==
  /\ DOMAIN hdr = HdrFields
  /\ hdr.class = h.class /\ hdr.encoding = h.encoding /\ hdr.entry = h.entry
  /\ hdr.ehsize = h.ehsize /\ hdr.phentsize = h.phentsize /\ hdr.shentsize = h.shentsize
  /\ hdr.shstrndx = h.shstrndx /\ hdr.shnum = h.shnum /\ hdr.phnum = h.phnum
  /\ hdr.phoff = h.phoff

(* The object that save has laid out, as E was before the layout. *)
LaidOut(E, e) ==
  /\ SameObject(E, e) /\ SavedHeader(E.hdr, e.hdr) /\ e.hdr.shoff \in Nat
  /\ Off(e, 0) = Off(E, 0)
  /\ \A i \in 1 .. (Len(E.sections) - 1) : E.pos <= Off(e, i) /\ Off(e, i) + Occ(e, i) <= e.hdr.shoff
  /\ \A i, j \in 1 .. (Len(E.sections) - 1) : i # j => NotTogether(e, i, j)
  /\ \A n \in 1 .. Len(E.segments) :
       LET s == e.segments[n]
       IN  /\ s.offset_set = TRUE /\ s.ph.offset \in Nat \ {0} /\ s.ph.filesz \in Nat
           /\ s.ph.type = "LOAD" /\ s.ph.filesz > 0
                => \A i \in 1 .. (Len(E.sections) - 1) : Agrees(e, i, s)

LEMMA SaveLaysOut ==
  ASSUME NEW E, Ready(E), LayoutSegments(E).ok,
         NEW e, e = LayoutSectionTable(LayoutSections(AtEnd(LayoutSegments(E))))
  PROVE  LaidOut(E, e)
<1>1. PICK L, g : L = LayoutSegments(E) /\ g = LayoutSections(AtEnd(L))
  OBVIOUS
<1>2. PICK m \in Nat : m = Len(E.sections) /\ m >= 2
  BY ReadyIs
<1>3. PICK base \in Nat : base = E.pos
  BY ReadyIs
<1>4. IsObject(E) /\ Laid(E, L) /\ LooseSoFar(E, L, m, g)
  BY <1>1, <1>2, SegmentsLaid, LayoutSectionsIs DEF Ready
<1>5. L.generated \cup (1 .. (m - 1)) = 1 .. (m - 1)
  BY <1>2, <1>4 DEF Laid, LaidSoFar
<1>6. PICK a : a = AsLayout(g, 1 .. (m - 1))
  OBVIOUS
<1>7. /\ LaidSoFar(E, base, a) /\ Further(L, a) /\ g.segments = L.elf.segments
  BY <1>3, <1>4, <1>5, <1>6 DEF LooseSoFar
<1>8. a.elf = g /\ a.pos = g.pos /\ a.generated = 1 .. (m - 1)
  BY <1>6, AsLayoutIs
<1>9. /\ SameObject(E, g) /\ g.hdr = E.hdr /\ g.pos \in Nat
      /\ \A i \in 1 .. (m - 1) : base <= Off(g, i) /\ Off(g, i) + Occ(g, i) <= g.pos
      /\ \A i, j \in 1 .. (m - 1) : i # j => NotTogether(g, i, j)
      /\ \A i \in 0 .. (m - 1) : i \notin 1 .. (m - 1) => Off(g, i) = Off(E, i)
  BY <1>2, <1>7, <1>8 DEF LaidSoFar
<1>10. PICK p \in Nat : p = Align(g.pos, 4) /\ g.pos <= p
  BY <1>9, AlignIs
<1>11. PICK h : h = [g.hdr EXCEPT !.shoff = p]
  OBVIOUS
<1>12. DOMAIN g = ElfFields /\ DOMAIN g.hdr = HdrFields
  BY <1>4, <1>9 DEF SameObject, IsObject, IsHeader
<1>13. e = [g EXCEPT !.pos = p, !.hdr = h]
  <2>1. e = [g EXCEPT !.pos = p, !.hdr.shoff = p]
    BY <1>1, <1>10 DEF LayoutSectionTable
  <2>2. QED BY <1>11, <1>12, <2>1 DEF ElfFields
<1>14. SavedHeader(E.hdr, h) /\ h.shoff = p
  BY <1>9, <1>11, <1>12 DEF SavedHeader, HdrFields
<1>15. DOMAIN e = ElfFields /\ e.hdr = h /\ e.sections = g.sections /\ e.segments = g.segments
  BY <1>12, <1>13 DEF ElfFields
<1>16. SameObject(E, e)
  BY <1>9, <1>15 DEF SameObject
<1>17. \A i : Off(e, i) = Off(g, i) /\ Occ(e, i) = Occ(g, i)
  BY <1>15 DEF Off, Occ
<1>18. Off(e, 0) = Off(E, 0)
  <2>1. 0 \in 0 .. (m - 1) /\ 0 \notin 1 .. (m - 1)
    BY <1>2
  <2>2. QED BY <1>9, <1>17, <2>1
<1>19. ASSUME NEW i \in 1 .. (m - 1)
       PROVE  base <= Off(e, i) /\ Off(e, i) + Occ(e, i) <= p
  <2>1. PICK o, n \in Nat : o = Off(g, i) /\ n = Occ(g, i)
    BY <1>4, <1>7, <1>8, OffsetsAre
  <2>2. o \in Nat
    BY <1>4, <1>7, <1>8, <2>1, OffsetsAre
  <2>3. base <= o /\ o + n <= g.pos /\ Off(e, i) = o /\ Occ(e, i) = n
    BY <1>9, <1>17, <2>1
  <2>4. QED BY <1>9, <1>10, <2>2, <2>3
<1>20. \A i, j \in 1 .. (m - 1) : i # j => NotTogether(e, i, j)
  BY <1>9, <1>17 DEF NotTogether
<1>21. ASSUME NEW n \in 1 .. Len(E.segments)
       PROVE  LET s == e.segments[n]
              IN  /\ s.offset_set = TRUE /\ s.ph.offset \in Nat \ {0} /\ s.ph.filesz \in Nat
                  /\ s.ph.type = "LOAD" /\ s.ph.filesz > 0
                       => \A i \in 1 .. (m - 1) : Agrees(e, i, s)
  <2>1. PICK s : s = e.segments[n] /\ s = L.elf.segments[n]
    BY <1>7, <1>15
  <2>2. LaidSoFar(E, base, L) /\ SegmentDone(L, s)
    BY <1>3, <1>4, <2>1 DEF Laid, LaidSoFar, SameObject
  <2>3. SegmentDone(a, s)
    BY <1>4, <1>7, <2>2, SegmentStaysDone
  <2>4. \A i : Agrees(g, i, s) => Agrees(e, i, s)
    BY <1>15 DEF Agrees
  <2>5. QED BY <1>8, <2>1, <2>3, <2>4 DEF SegmentDone
<1>22. QED BY <1>2, <1>3, <1>14, <1>15, <1>16, <1>18, <1>19, <1>20, <1>21 DEF LaidOut

----------------------------------------
(* The layout is apart *)

(* Each section of the saved object: where it is and how much room it takes. *)
LEMMA SavedSection ==
  ASSUME NEW E, Ready(E), NEW e, LaidOut(E, e), NEW n \in 1 .. Len(E.sections),
         NEW sec, sec = e.sections[n]
  PROVE  /\ sec.sh.offset \in Nat /\ sec.sh.size \in Nat /\ Occupied(sec) \in Nat
         /\ Occupied(sec) = (IF sec.sh.type = "NOBITS" THEN 0 ELSE sec.sh.size)
         /\ sec.sh.offset = Off(e, n - 1) /\ Occupied(sec) = Occ(e, n - 1)
         /\ n = 1 => sec.sh.type = "NULL" /\ sec.sh.size = 0
         /\ n # 1 => /\ n - 1 \in 1 .. (Len(E.sections) - 1)
                     /\ E.pos <= sec.sh.offset /\ sec.sh.offset + Occupied(sec) <= e.hdr.shoff
<1>1. IsObject(E) /\ Len(E.sections) \in Nat
  BY ReadyIs DEF Ready
<1>2. SameSection(E.sections[n], sec) /\ IsSection(E.sections[n], n - 1)
  BY <1>1 DEF LaidOut, SameObject, IsObject
<1>3. /\ sec.sh.offset \in Nat /\ sec.sh.size \in Nat /\ Occupied(sec) \in Nat
  BY <1>1, <1>2, OccIs
<1>4. (n - 1) + 1 = n
  BY <1>1
<1>5. sec.sh.offset = Off(e, n - 1) /\ Occupied(sec) = Occ(e, n - 1)
  BY <1>4 DEF Off, Occ
<1>6. n = 1 => sec.sh.type = "NULL" /\ sec.sh.size = 0
  BY <1>1, <1>2 DEF IsSection, SameSection
<1>7. n # 1 => n - 1 \in 1 .. (Len(E.sections) - 1)
  BY <1>1
<1>8. n # 1 => E.pos <= sec.sh.offset /\ sec.sh.offset + Occupied(sec) <= e.hdr.shoff
  BY <1>5, <1>7 DEF LaidOut
<1>9. QED BY <1>3, <1>5, <1>6, <1>7, <1>8 DEF Occupied

LEMMA SavedApart ==
  ASSUME NEW E, Ready(E), NEW e, LaidOut(E, e),
         NEW i \in 1 .. Len(E.sections), NEW j \in 1 .. Len(E.sections), i # j
  PROVE  ApartAt(e.sections[i].sh.offset, Occupied(e.sections[i]),
                 e.sections[j].sh.offset, Occupied(e.sections[j]))
<1>1. PICK a, b : a = e.sections[i] /\ b = e.sections[j]
  OBVIOUS
<1>2. /\ a.sh.offset = Off(e, i - 1) /\ Occupied(a) = Occ(e, i - 1) /\ Occupied(a) = (IF a.sh.type = "NOBITS" THEN 0 ELSE a.sh.size)
      /\ i = 1 => a.sh.type = "NULL" /\ a.sh.size = 0
      /\ i # 1 => i - 1 \in 1 .. (Len(E.sections) - 1)
  BY <1>1, SavedSection
<1>3. /\ b.sh.offset = Off(e, j - 1) /\ Occupied(b) = Occ(e, j - 1) /\ Occupied(b) = (IF b.sh.type = "NOBITS" THEN 0 ELSE b.sh.size)
      /\ j = 1 => b.sh.type = "NULL" /\ b.sh.size = 0
      /\ j # 1 => j - 1 \in 1 .. (Len(E.sections) - 1)
  BY <1>1, SavedSection
<1>4. CASE i = 1 \/ j = 1
  BY <1>1, <1>2, <1>3, <1>4 DEF ApartAt
<1>5. CASE i # 1 /\ j # 1
  <2>1. i - 1 # j - 1
    OBVIOUS
  <2>2. NotTogether(e, i - 1, j - 1)
    BY <1>2, <1>3, <1>5, <2>1 DEF LaidOut
  <2>3. QED BY <1>1, <1>2, <1>3, <2>2 DEF NotTogether
<1>6. QED BY <1>4, <1>5

(* No two sections of the saved object overlap, and its segments agree with them. *)
LEMMA SavedIsSilent ==
  ASSUME NEW E, Ready(E), NEW e, LaidOut(E, e)
  PROVE  ValidateIsSilent(e)
<1>1. IsObject(E) /\ SameObject(E, e)
  BY DEF Ready, LaidOut
<1>2. PICK m \in Nat : m = Len(E.sections) /\ m >= 2
  BY ReadyIs
<1>3. DOMAIN e.sections = 1 .. m /\ DOMAIN e.segments = 1 .. Len(E.segments)
  BY <1>1, <1>2, ListIs DEF SameObject
<1>4. ASSUME NEW i \in 1 .. m, NEW j \in 1 .. m, i < j
      PROVE  ~OverlapInFile(e.sections[i], e.sections[j])
  <2>1. PICK a, b : a = e.sections[i] /\ b = e.sections[j]
    OBVIOUS
  <2>2. /\ a.sh.offset \in Nat /\ a.sh.size \in Nat
        /\ Occupied(a) = (IF a.sh.type = "NOBITS" THEN 0 ELSE a.sh.size)
    BY <1>2, <2>1, SavedSection
  <2>3. /\ b.sh.offset \in Nat /\ b.sh.size \in Nat
        /\ Occupied(b) = (IF b.sh.type = "NOBITS" THEN 0 ELSE b.sh.size)
    BY <1>2, <2>1, SavedSection
  <2>4. ApartAt(a.sh.offset, Occupied(a), b.sh.offset, Occupied(b))
    BY <1>2, <1>4, <2>1, SavedApart
  <2>5. SUFFICES ASSUME OverlapInFile(a, b) PROVE FALSE
    BY <2>1
  <2>6. /\ a.sh.type # "NOBITS" /\ b.sh.type # "NOBITS" /\ a.sh.size > 0 /\ b.sh.size > 0
        /\ \/ is_offset_in_section(a.sh.offset, b)
           \/ is_offset_in_section(a.sh.offset + a.sh.size - 1, b)
           \/ is_offset_in_section(b.sh.offset, a)
           \/ is_offset_in_section(b.sh.offset + b.sh.size - 1, a)
    BY <2>5 DEF OverlapInFile, NotCompared
  <2>7. PICK o, p \in Nat, s, t \in Nat : /\ o = a.sh.offset /\ p = b.sh.offset
                                          /\ s = a.sh.size /\ t = b.sh.size /\ o \in Nat /\ s \in Nat
    BY <2>2, <2>3
  <2>8. /\ s > 0 /\ t > 0 /\ (o + s <= p \/ p + t <= o)
    BY <2>2, <2>3, <2>4, <2>6, <2>7 DEF ApartAt
  <2>9. \/ p <= o /\ o < p + t
        \/ p <= o + s - 1 /\ o + s - 1 < p + t
        \/ o <= p /\ p < o + s
        \/ o <= p + t - 1 /\ p + t - 1 < o + s
    BY <2>6, <2>7 DEF is_offset_in_section
  <2>10. QED BY <2>7, <2>8, <2>9
<1>5. ASSUME NEW n \in 1 .. Len(E.segments)
      PROVE  ~AddressConflict(e, e.segments[n])
  <2>1. PICK s : s = e.segments[n]
    OBVIOUS
  <2>2. PICK found : found = { k \in DOMAIN e.sections : /\ e.sections[k].sh.type = "PROGBITS"
                                              /\ is_offset_in_section(s.ph.offset, e.sections[k]) }
    OBVIOUS
  <2>3. SUFFICES ASSUME AddressConflict(e, s) PROVE FALSE
    BY <2>1
  <2>4. PICK sec : sec = find_prog_section_for_offset(e, s.ph.offset)
    OBVIOUS
  <2>5. s.ph.type = "LOAD" /\ s.ph.filesz > 0 /\ sec # NoSection
        /\ get_virtual_addr(s.ph.offset, sec) # s.ph.vaddr
    BY <2>3, <2>4 DEF AddressConflict
  <2>6. found # {} /\ sec = e.sections[Min(found)]
    BY <2>2, <2>4, <2>5 DEF find_prog_section_for_offset
  <2>7. PICK k \in found : k = Min(found)
    <3>1. found \in SUBSET Nat
      BY <1>2, <1>3, <2>2
    <3>2. QED BY <2>6, <3>1, MinIs, Zenon
  <2>8. /\ k \in 1 .. m /\ sec = e.sections[k] /\ sec.sh.type = "PROGBITS"
        /\ is_offset_in_section(s.ph.offset, sec)
    BY <1>3, <2>2, <2>6, <2>7, Zenon
  <2>9. /\ k = 1 => sec.sh.type = "NULL"
        /\ k # 1 => k - 1 \in 1 .. (m - 1)
    BY <1>2, <2>8, SavedSection
  <2>10. k - 1 \in 1 .. (m - 1) /\ (k - 1) + 1 = k
    BY <2>8, <2>9
  <2>11. Agrees(e, k - 1, s)
    BY <1>2, <2>1, <2>5, <2>10 DEF LaidOut
  <2>12. QED BY <2>5, <2>8, <2>10, <2>11 DEF Agrees
<1>6. QED BY <1>3, <1>4, <1>5 DEF ValidateIsSilent

(* The header and the tables come before and behind all sections. *)
Tables3(e) ==
  << << 0, e.hdr.ehsize >>, << e.hdr.phoff, e.hdr.phnum * e.hdr.phentsize >>,
     << e.hdr.shoff, e.hdr.shnum * e.hdr.shentsize >> >>
PlacesOf(e) ==
  [n \in DOMAIN e.sections |-> << e.sections[n].sh.offset, Occupied(e.sections[n]) >>]

LEMMA PlacesAre ==
  ASSUME NEW e, NEW m \in Nat, DOMAIN e.sections = 1 .. m, NEW P, P = Tables3(e) \o PlacesOf(e)
  PROVE  /\ DOMAIN P = 1 .. (3 + m)
         /\ P[1] = << 0, e.hdr.ehsize >> /\ P[2] = << e.hdr.phoff, e.hdr.phnum * e.hdr.phentsize >>
         /\ P[3] = << e.hdr.shoff, e.hdr.shnum * e.hdr.shentsize >>
         /\ \A n \in 1 .. m : P[3 + n] = << e.sections[n].sh.offset, Occupied(e.sections[n]) >>
<1>1. PICK t, s : t = Tables3(e) /\ s = PlacesOf(e)
  OBVIOUS
<1>2. PICK x, y, z : /\ x = << 0, e.hdr.ehsize >> /\ y = << e.hdr.phoff, e.hdr.phnum * e.hdr.phentsize >>
                     /\ z = << e.hdr.shoff, e.hdr.shnum * e.hdr.shentsize >>
  OBVIOUS
<1>3. t = << x, y, z >>
  BY <1>1, <1>2 DEF Tables3
<1>4. IsList(t) /\ Len(t) = 3 /\ t[1] = x /\ t[2] = y /\ t[3] = z
  <2>1. << x, y, z >> \in Seq({x, y, z})
    OBVIOUS
  <2>2. QED BY <1>3, <2>1, SeqIsList
<1>5. IsList(s) /\ Len(s) = m /\ \A n \in 1 .. m : s[n] = << e.sections[n].sh.offset, Occupied(e.sections[n]) >>
  BY <1>1, ListOf DEF PlacesOf
<1>6. /\ IsList(P) /\ Len(P) = 3 + m /\ P[1] = t[1] /\ P[2] = t[2] /\ P[3] = t[3]
      /\ \A n \in 1 .. m : P[3 + n] = s[n]
  <2>1. /\ IsList(t \o s) /\ Len(t \o s) = 3 + m
        /\ \A k \in 1 .. 3 : (t \o s)[k] = t[k]
        /\ \A k \in 1 .. m : (t \o s)[3 + k] = s[k]
    <3>1. /\ IsList(t \o s) /\ Len(t \o s) = Len(t) + Len(s)
          /\ \A k \in 1 .. Len(t) : (t \o s)[k] = t[k]
          /\ \A k \in 1 .. Len(s) : (t \o s)[Len(t) + k] = s[k]
      <4>1. IsList(t) /\ IsList(s)
        BY <1>4, <1>5
      <4>2. QED BY <4>1, ListsJoin
    <3>2. QED BY <1>4, <1>5, <3>1
  <2>2. QED BY <1>1, <2>1
<1>7. QED BY <1>2, <1>4, <1>5, <1>6, ListIs

LEMMA PlacesApart ==
  ASSUME NEW E, Ready(E), NEW e, LaidOut(E, e), NEW P, P = Tables3(e) \o PlacesOf(e),
         E.hdr.shnum \in Nat
  PROVE  \A n, k \in DOMAIN P : n < k => ApartAt(P[n][1], P[n][2], P[k][1], P[k][2])
<1>1. IsObject(E) /\ SameObject(E, e) /\ SavedHeader(E.hdr, e.hdr) /\ e.hdr.shoff \in Nat
  BY DEF Ready, LaidOut
<1>2. PICK m \in Nat : m = Len(E.sections) /\ m >= 2
  BY ReadyIs
<1>3. DOMAIN e.sections = 1 .. m
  BY <1>1, <1>2, ListIs DEF SameObject
<1>4. /\ DOMAIN P = 1 .. (3 + m)
      /\ P[1] = << 0, e.hdr.ehsize >> /\ P[2] = << e.hdr.phoff, e.hdr.phnum * e.hdr.phentsize >>
      /\ P[3] = << e.hdr.shoff, e.hdr.shnum * e.hdr.shentsize >>
      /\ \A n \in 1 .. m : P[3 + n] = << e.sections[n].sh.offset, Occupied(e.sections[n]) >>
  BY <1>3, PlacesAre, ZenonT(40)
<1>5. PICK a, b, N \in Nat : a = e.hdr.ehsize /\ N = e.hdr.phnum /\ b = e.hdr.phentsize /\ a \in Nat /\ b \in Nat
      /\ E.hdr.ehsize = a /\ E.hdr.phnum = N /\ E.hdr.phentsize = b /\ N = Len(E.segments)
  BY <1>1, ReadyIs DEF Ready, SavedHeader
<1>6. PICK p \in Nat : p = e.hdr.phoff /\ (N > 0 => p = a)
  <2>1. N > 0 => E.segments # << >>
    BY <1>1, <1>5, ListEmpty DEF IsObject
  <2>2. e.hdr.phoff = E.hdr.phoff
    BY <1>1 DEF SavedHeader
  <2>3. QED BY <1>5, <2>1, <2>2, ReadyIs DEF Ready
<1>7. PICK t \in Nat : t = N * b /\ b * N = t
  BY <1>5
<1>8. N = 0 => t = 0
  BY <1>5, <1>7
<1>9. PICK base \in Nat : base = E.pos /\ base = a + t
  BY <1>5, <1>7, ReadyIs DEF Ready
<1>10. PICK z \in Nat : z = e.hdr.shoff
  BY <1>1
<1>11. ASSUME NEW n \in 1 .. m
       PROVE  \E o, u \in Nat : /\ P[3 + n] = << o, u >> /\ (u = 0 \/ (base <= o /\ o + u <= z))
  <2>1. PICK sec : sec = e.sections[n]
    OBVIOUS
  <2>2. /\ sec.sh.offset \in Nat /\ sec.sh.size \in Nat /\ Occupied(sec) \in Nat
        /\ Occupied(sec) = (IF sec.sh.type = "NOBITS" THEN 0 ELSE sec.sh.size)
        /\ n = 1 => sec.sh.type = "NULL" /\ sec.sh.size = 0
        /\ n # 1 => base <= sec.sh.offset /\ sec.sh.offset + Occupied(sec) <= z
    <3>1. n \in 1 .. Len(E.sections)
      BY <1>2
    <3>2. /\ sec.sh.offset \in Nat /\ sec.sh.size \in Nat /\ Occupied(sec) \in Nat
          /\ Occupied(sec) = (IF sec.sh.type = "NOBITS" THEN 0 ELSE sec.sh.size)
          /\ n = 1 => sec.sh.type = "NULL" /\ sec.sh.size = 0
          /\ n # 1 => E.pos <= sec.sh.offset /\ sec.sh.offset + Occupied(sec) <= e.hdr.shoff
      <4>1. /\ sec.sh.offset \in Nat /\ sec.sh.size \in Nat /\ Occupied(sec) \in Nat
            /\ Occupied(sec) = (IF sec.sh.type = "NOBITS" THEN 0 ELSE sec.sh.size)
        BY <2>1, <3>1, SavedSection
      <4>2. n = 1 => sec.sh.type = "NULL" /\ sec.sh.size = 0
        BY <2>1, <3>1, SavedSection
      <4>3. n # 1 => E.pos <= sec.sh.offset /\ sec.sh.offset + Occupied(sec) <= e.hdr.shoff
        BY <2>1, <3>1, SavedSection
      <4>4. QED BY <4>1, <4>2, <4>3
    <3>3. QED BY <1>9, <1>10, <3>2
  <2>3. QED BY <1>4, <2>1, <2>2
<1>12. base <= z
  <2>1. PICK sec : sec = e.sections[2]
    OBVIOUS
  <2>2. 2 \in 1 .. m /\ 2 # 1
    BY <1>2
  <2>3. /\ sec.sh.offset \in Nat /\ Occupied(sec) \in Nat
        /\ E.pos <= sec.sh.offset /\ sec.sh.offset + Occupied(sec) <= e.hdr.shoff
    <3>1. 2 \in 1 .. Len(E.sections)
      BY <1>2
    <3>2. QED BY <2>1, <2>2, <3>1, SavedSection
  <2>4. QED BY <1>9, <1>10, <2>3
<1>13. PICK v \in Nat : v = e.hdr.shnum * e.hdr.shentsize
  <2>1. e.hdr.shnum \in Nat /\ e.hdr.shentsize \in Nat
    BY <1>1, SizesAre DEF SavedHeader, IsObject
  <2>2. QED BY <2>1
<1>14. /\ P[1][1] = 0 /\ P[1][2] = a /\ P[2][1] = p /\ P[2][2] = t /\ P[3][1] = z /\ P[3][2] = v
  BY <1>4, <1>5, <1>6, <1>7, <1>10, <1>13
<1>15. /\ ApartAt(0, a, p, t) /\ ApartAt(0, a, z, v) /\ ApartAt(p, t, z, v)
  <2>1. ApartAt(0, a, p, t)
    BY <1>5, <1>6, <1>8 DEF ApartAt
  <2>2. ApartAt(0, a, z, v)
    BY <1>5, <1>9, <1>12 DEF ApartAt
  <2>3. ApartAt(p, t, z, v)
    BY <1>5, <1>6, <1>8, <1>9, <1>12, SMTT(30) DEF ApartAt
  <2>4. QED BY <2>1, <2>2, <2>3
<1>16. ASSUME NEW o \in Nat, NEW u \in Nat, u = 0 \/ (base <= o /\ o + u <= z)
       PROVE  /\ ApartAt(0, a, o, u) /\ ApartAt(p, t, o, u) /\ ApartAt(z, v, o, u)
  <2>1. ApartAt(0, a, o, u)
    BY <1>5, <1>9, <1>16 DEF ApartAt
  <2>2. ApartAt(p, t, o, u)
    BY <1>5, <1>6, <1>8, <1>9, <1>16, SMTT(30) DEF ApartAt
  <2>3. ApartAt(z, v, o, u)
    BY <1>16 DEF ApartAt
  <2>4. QED BY <2>1, <2>2, <2>3
<1>17. ASSUME NEW n \in DOMAIN P, NEW k \in DOMAIN P, n < k
       PROVE  ApartAt(P[n][1], P[n][2], P[k][1], P[k][2])
  <2>1. n \in 1 .. (3 + m) /\ k \in 1 .. (3 + m)
    BY <1>4
  <2>2. CASE k <= 3
    <3>1. (n = 1 /\ k = 2) \/ (n = 1 /\ k = 3) \/ (n = 2 /\ k = 3)
      BY <1>17, <2>1, <2>2
    <3>2. CASE n = 1 /\ k = 2
      BY <1>14, <1>15, <3>2
    <3>3. CASE n = 1 /\ k = 3
      BY <1>14, <1>15, <3>3
    <3>4. CASE n = 2 /\ k = 3
      BY <1>14, <1>15, <3>4
    <3>5. QED BY <3>1, <3>2, <3>3, <3>4
  <2>3. CASE k > 3 /\ n <= 3
    <3>0. k - 3 \in 1 .. m /\ k = 3 + (k - 3)
      BY <2>1, <2>3
    <3>1. PICK j \in 1 .. m : k = 3 + j
      BY <3>0
    <3>2. PICK o \in Nat, u \in Nat : P[k] = << o, u >> /\ (u = 0 \/ (base <= o /\ o + u <= z))
      BY <1>11, <3>1
    <3>6. P[k][1] = o /\ P[k][2] = u
      BY <3>2
    <3>3. ApartAt(0, a, o, u) /\ ApartAt(p, t, o, u) /\ ApartAt(z, v, o, u)
      BY <1>16, <3>2
    <3>4. n = 1 \/ n = 2 \/ n = 3
      BY <2>1, <2>3
    <3>5. CASE n = 1
      BY <1>14, <3>3, <3>5, <3>6
    <3>7. CASE n = 2
      BY <1>14, <3>3, <3>6, <3>7
    <3>8. CASE n = 3
      BY <1>14, <3>3, <3>6, <3>8
    <3>9. QED BY <3>4, <3>5, <3>7, <3>8
  <2>4. CASE k > 3 /\ n > 3
    <3>0. k - 3 \in 1 .. m /\ k = 3 + (k - 3) /\ n - 3 \in 1 .. m /\ n = 3 + (n - 3)
      BY <2>1, <2>4
    <3>1. PICK j \in 1 .. m : k = 3 + j
      BY <3>0
    <3>2. PICK i \in 1 .. m : n = 3 + i
      BY <3>0
    <3>3. i # j
      BY <1>17, <3>1, <3>2
    <3>4. ApartAt(e.sections[i].sh.offset, Occupied(e.sections[i]),
                  e.sections[j].sh.offset, Occupied(e.sections[j]))
      BY <1>2, <3>3, SavedApart
    <3>5. /\ P[n] = << e.sections[i].sh.offset, Occupied(e.sections[i]) >>
          /\ P[k] = << e.sections[j].sh.offset, Occupied(e.sections[j]) >>
      BY <1>4, <3>1, <3>2
    <3>6. QED BY <3>4, <3>5
  <2>5. QED BY <2>1, <2>2, <2>3, <2>4
<1>18. QED BY <1>17

----------------------------------------
(* Cells of a file *)

Holds(cells, pos, new) ==
  pos + Len(new) <= Len(cells) /\ \A k \in 1 .. Len(new) : cells[pos + k] = new[k]

(* The cells next are cells with `new' written at a position. *)
Wrote(cells, pos, new, next) ==
  /\ IsList(next) /\ Holds(next, pos, new)
  /\ Len(next) = (IF Len(cells) <= pos + Len(new) THEN pos + Len(new) ELSE Len(cells))
  /\ \A n \in 1 .. Len(cells) : ~(pos < n /\ n <= pos + Len(new)) => next[n] = cells[n]

LEMMA WriteIs ==
  ASSUME NEW cells, IsList(cells), NEW pos \in Nat, NEW new, IsList(new)
  PROVE  Wrote(cells, pos, new, WriteAt(cells, pos, new))
<1>1. PICK a \in Nat : a = Len(cells)
  BY ListIs
<1>2. PICK b \in Nat : b = Len(new)
  BY ListIs
<1>3. PICK next : next = WriteAt(cells, pos, new)
  OBVIOUS
<1>4. PICK end \in Nat : end = Max({a, pos + b}) /\ end = IF a <= pos + b THEN pos + b ELSE a
  <2>1. {a, pos + b} \in SUBSET Nat /\ {a, pos + b} # {} /\ a + pos + b \in Nat
        /\ \A m \in {a, pos + b} : m <= a + pos + b
    BY <1>1, <1>2
  <2>2. Max({a, pos + b}) \in {a, pos + b} /\ \A m \in {a, pos + b} : m <= Max({a, pos + b})
    BY <2>1, MaxIs
  <2>3. QED BY <1>1, <1>2, <2>2
<1>5. next = [n \in 1 .. end |-> IF pos < n /\ n <= pos + b THEN new[n - pos]
                                 ELSE IF n <= a THEN cells[n] ELSE NUL]
  BY <1>1, <1>2, <1>3, <1>4 DEF WriteAt
<1>6. IsList(next) /\ Len(next) = end
  BY <1>4, <1>5, ListOf
<1>7. ASSUME NEW k \in 1 .. b PROVE next[pos + k] = new[k]
  <2>1. PICK n \in Nat : n = pos + k /\ n \in 1 .. end /\ n - pos = k /\ pos < n /\ n <= pos + b
    BY <1>1, <1>2, <1>4
  <2>2. QED BY <1>5, <2>1
<1>8. ASSUME NEW n \in 1 .. a, ~(pos < n /\ n <= pos + b) PROVE next[n] = cells[n]
  <2>1. n \in 1 .. end /\ n <= a
    BY <1>1, <1>2, <1>4
  <2>2. QED BY <1>5, <1>8, <2>1
<1>9. pos + b <= end
  BY <1>1, <1>2, <1>4
<1>10. Holds(next, pos, new)
  BY <1>2, <1>6, <1>7, <1>9 DEF Holds
<1>11. QED BY <1>1, <1>2, <1>3, <1>4, <1>6, <1>8, <1>10 DEF Wrote

(* What is apart from the cells written is still there. *)
LEMMA StillHolds ==
  ASSUME NEW cells, IsList(cells), NEW pos \in Nat, NEW new, IsList(new), NEW next,
         Wrote(cells, pos, new, next), NEW p \in Nat, NEW old, IsList(old), Holds(cells, p, old),
         ApartAt(p, Len(old), pos, Len(new))
  PROVE  Holds(next, p, old)
<1>1. PICK a \in Nat, b \in Nat, c \in Nat : a = Len(cells) /\ b = Len(new) /\ c = Len(old)
  BY ListIs
<1>2. p + c <= a /\ \A k \in 1 .. c : cells[p + k] = old[k]
  BY <1>1 DEF Holds
<1>3. Len(next) = (IF a <= pos + b THEN pos + b ELSE a)
      /\ \A n \in 1 .. a : ~(pos < n /\ n <= pos + b) => next[n] = cells[n]
  BY <1>1 DEF Wrote
<1>4. p + c <= pos \/ pos + b <= p \/ c = 0 \/ b = 0
  BY <1>1 DEF ApartAt
<1>5. p + c <= Len(next)
  BY <1>1, <1>2, <1>3
<1>6. ASSUME NEW k \in 1 .. c PROVE next[p + k] = old[k]
  <2>1. PICK n \in Nat : n = p + k /\ n \in 1 .. a
    BY <1>1, <1>2
  <2>2. ~(pos < n /\ n <= pos + b)
    BY <1>1, <1>4, <2>1
  <2>3. QED BY <1>2, <1>3, <2>1, <2>2
<1>7. QED BY <1>1, <1>5, <1>6 DEF Holds

(* What is read where it was written is what was written. *)
LEMMA ReadBack ==
  ASSUME NEW cells, IsList(cells), NEW pos \in Nat, NEW old, IsList(old), Holds(cells, pos, old)
  PROVE  Slice(cells, pos, Len(old)) = old
<1>1. PICK c \in Nat : c = Len(old) /\ pos + c <= Len(cells) /\ \A k \in 1 .. c : cells[pos + k] = old[k]
  BY ListIs DEF Holds
<1>2. PICK s : s = SubSeq(cells, pos + 1, pos + c)
  OBVIOUS
<1>3. IsList(s) /\ Len(s) = c /\ \A k \in 1 .. c : s[k] = cells[pos + k]
  <2>1. pos + c <= Len(cells)
    BY <1>1
  <2>2. /\ IsList(SubSeq(cells, pos + 1, pos + c)) /\ Len(SubSeq(cells, pos + 1, pos + c)) = c
        /\ \A k \in 1 .. c : SubSeq(cells, pos + 1, pos + c)[k] = cells[pos + k]
    BY <2>1, PartIs
  <2>3. QED BY <1>2, <2>2
<1>4. s = old
  BY <1>1, <1>3, ListsEqual
<1>5. QED BY <1>1, <1>2, <1>4 DEF Slice

----------------------------------------
(* Structures *)

LEMMA PartsAre ==
  ASSUME NEW T, NEW rec, NEW n \in Nat \ {0}
  PROVE  /\ IsList(Parts(T, rec, n)) /\ Len(Parts(T, rec, n)) = n
         /\ Parts(T, rec, n)[1] = [type |-> T, rec |-> rec, part |-> 1]
<1>1. PICK p : p = Parts(T, rec, n)
  OBVIOUS
<1>2. p = [k \in 1 .. n |-> [type |-> T, rec |-> rec, part |-> k]]
  BY <1>1 DEF Parts
<1>3. IsList(p) /\ Len(p) = n
  BY <1>2, ListOf
<1>4. 1 \in 1 .. n
  OBVIOUS
<1>5. QED BY <1>1, <1>2, <1>3, <1>4

(* A structure is read back from its parts. *)
LEMMA DecodeIs ==
  ASSUME NEW T, NEW rec, NEW n \in Nat \ {0}, NEW zero
  PROVE  Decode(T, Parts(T, rec, n), zero) = rec
<1>1. PICK p : p = Parts(T, rec, n)
  OBVIOUS
<1>2. Len(p) = n /\ p[1] = [type |-> T, rec |-> rec, part |-> 1]
  BY <1>1, PartsAre
<1>3. "rec" \in DOMAIN p[1] /\ p[1].rec = rec
  BY <1>2
<1>4. p = Parts(T, p[1].rec, Len(p))
  BY <1>1, <1>2, <1>3
<1>5. QED BY <1>1, <1>3, <1>4 DEF Decode

(* A structure that a file holds is read from it. *)
LEMMA HeaderIsRead ==
  ASSUME NEW st, IsList(st.cells), NEW T, NEW rec, NEW pos \in Nat,
         NEW n \in Nat \ {0}, NEW zero, CanRead(st, pos, n), Holds(st.cells, pos, Parts(T, rec, n))
  PROVE  ReadHeader(st, T, pos, n, zero) = rec
<1>1. PICK p : p = Parts(T, rec, n)
  OBVIOUS
<1>2. IsList(p) /\ Len(p) = n
  BY <1>1, PartsAre
<1>3. Slice(st.cells, pos, n) = p
  BY <1>1, <1>2, ReadBack
<1>4. QED BY <1>1, <1>3, DecodeIs DEF ReadHeader

(* Entries of a table lie one behind the other. *)
LEMMA EntriesApart ==
  ASSUME NEW start \in Nat, NEW size \in Nat, NEW i \in Nat, NEW j \in Nat
  PROVE  /\ start + i * size \in Nat
         /\ i < j => start + i * size + size <= start + j * size
         /\ i # j => ApartAt(start + i * size, size, start + j * size, size)
<1>1. ASSUME NEW a \in Nat, NEW b \in Nat, a < b PROVE a * size + size <= b * size
  <2>1. PICK d \in Nat : b = a + 1 + d
    <3>1. b - a - 1 \in Nat /\ b = a + 1 + (b - a - 1)
      BY <1>1
    <3>2. QED BY <3>1
  <2>2. b * size = a * size + size + d * size
    BY <2>1
  <2>3. d * size \in Nat /\ a * size \in Nat
    OBVIOUS
  <2>4. QED BY <2>2, <2>3
<1>2. i * size \in Nat /\ j * size \in Nat
  OBVIOUS
<1>3. PICK x \in Nat, y \in Nat : x = i * size /\ y = j * size
  BY <1>2
<1>4. i < j => x + size <= y
  BY <1>1, <1>3
<1>5. j < i => y + size <= x
  BY <1>1, <1>3
<1>6. i # j => i < j \/ j < i
  OBVIOUS
<1>7. i # j => ApartAt(start + x, size, start + y, size)
  BY <1>3, <1>4, <1>5, <1>6 DEF ApartAt
<1>8. QED BY <1>3, <1>4, <1>7

----------------------------------------
(* The file of a saved object *)

HeaderCells(e) == Parts("Ehdr", e.hdr, SizeOf[e.hdr.class].Ehdr)
SectionHeaderAt(e, n) == e.hdr.shoff + (n - 1) * e.hdr.shentsize
SectionCells(e, n) == Parts("Shdr", e.sections[n].sh, SizeOf[e.hdr.class].Shdr)
SegmentHeaderAt(e, n) == e.hdr.phoff + (n - 1) * e.hdr.phentsize
SegmentCells(e, n) == Parts("Phdr", e.segments[n].ph, SizeOf[e.hdr.class].Phdr)
HasCells(sec) == sec.sh.type \notin {"NULL", "NOBITS"} /\ sec.sh.size # 0 /\ sec.data # << >>

(* An object that save has laid out. *)
Saved(E, e) == Ready(E) /\ LaidOut(E, e) /\ E.hdr.shnum = Len(E.sections)

LEMMA SavedNumbers ==
  ASSUME NEW E, NEW e, Saved(E, e)
  PROVE  /\ e.hdr.ehsize \in Nat \ {0} /\ e.hdr.phentsize \in Nat \ {0} /\ e.hdr.shentsize \in Nat \ {0}
         /\ e.hdr.shoff \in Nat /\ e.hdr.phoff \in Nat /\ e.hdr.phnum = Len(E.segments)
         /\ E.pos \in Nat /\ Len(E.segments) \in Nat /\ Len(E.sections) \in Nat /\ Len(E.sections) >= 2
         /\ Len(E.segments) > 0 => e.hdr.phoff = e.hdr.ehsize
         /\ E.pos = e.hdr.ehsize + e.hdr.phentsize * Len(E.segments)
         /\ e.hdr.ehsize <= E.pos /\ E.pos <= e.hdr.shoff
<1>1. Ready(E) /\ LaidOut(E, e)
  BY DEF Saved
<1>2. /\ IsObject(E) /\ SavedHeader(E.hdr, e.hdr) /\ e.hdr.shoff \in Nat
  BY <1>1 DEF Ready, LaidOut
<1>3. /\ E.hdr.ehsize \in Nat \ {0} /\ E.hdr.phentsize \in Nat \ {0} /\ E.hdr.shentsize \in Nat \ {0}
  BY <1>2, SizesAre DEF IsObject
<1>4. /\ e.hdr.ehsize = E.hdr.ehsize /\ e.hdr.phentsize = E.hdr.phentsize
      /\ e.hdr.shentsize = E.hdr.shentsize /\ e.hdr.phnum = E.hdr.phnum /\ e.hdr.phoff = E.hdr.phoff
  BY <1>2 DEF SavedHeader
<1>5. /\ Len(E.sections) \in Nat /\ Len(E.segments) \in Nat /\ Len(E.sections) >= 2
      /\ E.pos \in Nat /\ E.hdr.phoff \in Nat
  BY <1>1, ReadyIs
<1>6. /\ E.hdr.phnum = Len(E.segments) /\ E.pos = E.hdr.ehsize + E.hdr.phentsize * E.hdr.phnum
      /\ (E.segments # << >> => E.hdr.phoff = E.hdr.ehsize)
  BY <1>1 DEF Ready
<1>7. Len(E.segments) > 0 => E.segments # << >>
  BY <1>2, <1>5, ListEmpty DEF IsObject
<1>8. E.hdr.ehsize <= E.pos
  <2>1. PICK a \in Nat, b \in Nat, c \in Nat : a = E.hdr.ehsize /\ b = E.hdr.phentsize /\ c = E.hdr.phnum
    BY <1>3, <1>5, <1>6
  <2>2. b * c \in Nat
    OBVIOUS
  <2>3. QED BY <1>6, <2>1, <2>2
<1>9. E.pos <= e.hdr.shoff
  <2>1. PICK sec : sec = e.sections[2]
    OBVIOUS
  <2>2. 2 \in 1 .. Len(E.sections) /\ 2 # 1
    BY <1>5
  <2>3. /\ sec.sh.offset \in Nat /\ Occupied(sec) \in Nat
        /\ E.pos <= sec.sh.offset /\ sec.sh.offset + Occupied(sec) <= e.hdr.shoff
    BY <1>1, <2>1, <2>2, SavedSection
  <2>4. QED BY <1>2, <1>5, <2>3
<1>10. QED BY <1>2, <1>3, <1>4, <1>5, <1>6, <1>7, <1>8, <1>9

LEMMA SavedCells ==
  ASSUME NEW E, NEW e, Saved(E, e)
  PROVE  /\ IsList(HeaderCells(e)) /\ Len(HeaderCells(e)) = e.hdr.ehsize
         /\ SizeOf[e.hdr.class].Ehdr = e.hdr.ehsize /\ SizeOf[e.hdr.class].Shdr = e.hdr.shentsize
         /\ SizeOf[e.hdr.class].Phdr = e.hdr.phentsize
         /\ \A n : IsList(SectionCells(e, n)) /\ Len(SectionCells(e, n)) = e.hdr.shentsize
         /\ \A n : IsList(SegmentCells(e, n)) /\ Len(SegmentCells(e, n)) = e.hdr.phentsize
<1>1. SizeOf[e.hdr.class].Ehdr = e.hdr.ehsize /\ SizeOf[e.hdr.class].Shdr = e.hdr.shentsize
      /\ SizeOf[e.hdr.class].Phdr = e.hdr.phentsize
  <2>1. IsHeader(E.hdr) /\ SavedHeader(E.hdr, e.hdr)
    BY DEF Saved, LaidOut, Ready, IsObject
  <2>2. e.hdr.class = E.hdr.class /\ e.hdr.ehsize = E.hdr.ehsize /\ e.hdr.shentsize = E.hdr.shentsize
        /\ e.hdr.phentsize = E.hdr.phentsize
    BY <2>1 DEF SavedHeader
  <2>3. /\ E.hdr.ehsize = SizeOf[E.hdr.class].Ehdr /\ E.hdr.phentsize = SizeOf[E.hdr.class].Phdr
        /\ E.hdr.shentsize = SizeOf[E.hdr.class].Shdr
    BY <2>1, SizesAre
  <2>4. QED BY <2>2, <2>3
<1>2. e.hdr.ehsize \in Nat \ {0} /\ e.hdr.phentsize \in Nat \ {0} /\ e.hdr.shentsize \in Nat \ {0}
  BY SavedNumbers
<1>7. ASSUME NEW T, NEW rec, NEW n \in Nat \ {0}
      PROVE  IsList(Parts(T, rec, n)) /\ Len(Parts(T, rec, n)) = n
  BY PartsAre
<1>3. IsList(HeaderCells(e)) /\ Len(HeaderCells(e)) = e.hdr.ehsize
  <2>1. HeaderCells(e) = Parts("Ehdr", e.hdr, e.hdr.ehsize)
    BY <1>1 DEF HeaderCells
  <2>2. QED BY <1>2, <1>7, <2>1
<1>4. ASSUME NEW n PROVE IsList(SectionCells(e, n)) /\ Len(SectionCells(e, n)) = e.hdr.shentsize
  <2>1. SectionCells(e, n) = Parts("Shdr", e.sections[n].sh, e.hdr.shentsize)
    BY <1>1 DEF SectionCells
  <2>2. QED BY <1>2, <1>7, <2>1
<1>5. ASSUME NEW n PROVE IsList(SegmentCells(e, n)) /\ Len(SegmentCells(e, n)) = e.hdr.phentsize
  <2>1. SegmentCells(e, n) = Parts("Phdr", e.segments[n].ph, e.hdr.phentsize)
    BY <1>1 DEF SegmentCells
  <2>2. QED BY <1>2, <1>7, <2>1
<1>6. QED BY <1>1, <1>3, <1>4, <1>5

(* The room of a section's bytes. *)
LEMMA SavedRoom ==
  ASSUME NEW E, NEW e, Saved(E, e), NEW n \in 1 .. Len(E.sections), NEW sec, sec = e.sections[n]
  PROVE  /\ sec.index = n - 1 /\ IsList(sec.data) /\ sec.sh.offset \in Nat /\ sec.sh.size \in Nat
         /\ sec.sh.type \notin {"NULL", "NOBITS"}
              => /\ Len(sec.data) = sec.sh.size /\ Occupied(sec) = sec.sh.size
                 /\ n - 1 \in 1 .. (Len(E.sections) - 1)
                 /\ E.pos <= sec.sh.offset /\ sec.sh.offset + Len(sec.data) <= e.hdr.shoff
         /\ sec.sh.type \in {"NULL", "NOBITS"} => sec.data = << >>
<1>1. Ready(E) /\ LaidOut(E, e) /\ IsObject(E) /\ Len(E.sections) \in Nat
  BY ReadyIs DEF Saved, Ready
<1>2. SameSection(E.sections[n], sec) /\ IsSection(E.sections[n], n - 1)
  BY <1>1 DEF LaidOut, SameObject, IsObject
<1>3. /\ sec.sh.offset \in Nat /\ sec.sh.size \in Nat
      /\ Occupied(sec) = (IF sec.sh.type = "NOBITS" THEN 0 ELSE sec.sh.size)
  BY <1>1, SavedSection
<1>4. /\ n = 1 => sec.sh.type = "NULL"
      /\ n # 1 => /\ n - 1 \in 1 .. (Len(E.sections) - 1)
                  /\ E.pos <= sec.sh.offset /\ sec.sh.offset + Occupied(sec) <= e.hdr.shoff
  BY <1>1, SavedSection
<1>5. /\ sec.index = n - 1 /\ IsList(sec.data)
      /\ sec.sh.type = "NULL" => sec.sh.size = 0
      /\ IF sec.sh.type = "NOBITS" THEN sec.data = << >> ELSE Len(sec.data) = sec.sh.size
  BY <1>2 DEF SameSection, IsSection
<1>6. sec.sh.type \in {"NULL", "NOBITS"} => sec.data = << >>
  BY <1>5, ListEmpty
<1>7. QED BY <1>3, <1>4, <1>5, <1>6

(* What SaveSection makes of the cells of a file. *)
SectionSaved(e, n, cells, next) ==
  /\ IsList(next) /\ Len(next) <= SectionHeaderAt(e, n + 1)
  /\ Holds(next, SectionHeaderAt(e, n), SectionCells(e, n))
  /\ HasCells(e.sections[n]) => Holds(next, e.sections[n].sh.offset, e.sections[n].data)
  /\ \A p \in Nat : \A old :
       /\ IsList(old) /\ Holds(cells, p, old)
       /\ ApartAt(p, Len(old), SectionHeaderAt(e, n), e.hdr.shentsize)
       /\ HasCells(e.sections[n])
            => ApartAt(p, Len(old), e.sections[n].sh.offset, Len(e.sections[n].data))
       => Holds(next, p, old)

LEMMA TimesNext ==
  ASSUME NEW i \in Nat, NEW w \in Nat
  PROVE  i * w \in Nat /\ (i + 1) * w = i * w + w
  OBVIOUS

LEMMA SectionHeaders ==
  ASSUME NEW E, NEW e, Saved(E, e), NEW n \in Nat \ {0}
  PROVE  /\ SectionHeaderAt(e, n) \in Nat /\ e.hdr.shoff <= SectionHeaderAt(e, n)
         /\ SectionHeaderAt(e, n + 1) = SectionHeaderAt(e, n) + e.hdr.shentsize
<1>1. PICK z \in Nat, w \in Nat : z = e.hdr.shoff /\ w = e.hdr.shentsize
  BY SavedNumbers
<1>2. PICK i \in Nat : i = n - 1 /\ (n + 1) - 1 = i + 1
  OBVIOUS
<1>3. i * w \in Nat /\ (i + 1) * w = i * w + w
  BY TimesNext
<1>4. SectionHeaderAt(e, n) = z + i * w /\ SectionHeaderAt(e, n + 1) = z + (i + 1) * w
  BY <1>1, <1>2 DEF SectionHeaderAt
<1>5. QED BY <1>1, <1>3, <1>4

LEMMA SectionSavedIs ==
  ASSUME NEW E, NEW e, Saved(E, e), NEW n \in 1 .. Len(E.sections), NEW cells, IsList(cells),
         Len(cells) <= SectionHeaderAt(e, n)
  PROVE  SectionSaved(e, n, cells, SaveSection(e, cells, e.sections[n]))
<1>1. PICK sec : sec = e.sections[n]
  OBVIOUS
<1>2. n \in Nat \ {0}
  BY SavedNumbers
<1>3. PICK at \in Nat : at = SectionHeaderAt(e, n)
  BY <1>2, SectionHeaders
<1>4. PICK w \in Nat : w = e.hdr.shentsize
  BY SavedNumbers
<1>5. PICK z \in Nat : z = e.hdr.shoff /\ z <= at
  BY <1>2, <1>3, SavedNumbers, SectionHeaders
<1>6. PICK cs : cs = SectionCells(e, n) /\ IsList(cs) /\ Len(cs) = w
  BY <1>4, SavedCells
<1>7. sec.index = n - 1 /\ IsList(sec.data) /\ sec.sh.offset \in Nat
  BY <1>1, SavedRoom
<1>8. PICK written : written = WriteAt(cells, at, cs)
  OBVIOUS
<1>9. Wrote(cells, at, cs, written)
  BY <1>6, <1>8, WriteIs
<1>10. PICK next : next = SaveSection(e, cells, sec)
  OBVIOUS
<1>11. next = IF HasCells(sec) THEN WriteAt(written, sec.sh.offset, sec.data) ELSE written
  BY <1>1, <1>3, <1>6, <1>7, <1>8, <1>10 DEF SaveSection, HasCells, SectionHeaderAt, SectionCells
<1>12. Len(cells) \in Nat /\ Len(cells) <= at
  BY <1>3, ListIs
<1>13. IsList(written) /\ Holds(written, at, cs) /\ Len(written) = at + w
  BY <1>3, <1>4, <1>6, <1>9, <1>12 DEF Wrote
<1>14. ASSUME NEW p \in Nat, NEW old, IsList(old), Holds(cells, p, old), ApartAt(p, Len(old), at, w)
       PROVE  Holds(written, p, old)
  BY <1>6, <1>9, <1>14, StillHolds
<1>15. CASE ~HasCells(sec)
  <2>1. next = written
    BY <1>11, <1>15
  <2>2. SectionHeaderAt(e, n + 1) = at + w
    BY <1>2, <1>3, <1>4, SectionHeaders
  <2>3. IsList(next) /\ Len(next) <= SectionHeaderAt(e, n + 1)
    BY <1>13, <2>1, <2>2
  <2>4. \A p \in Nat : \A old :
          IsList(old) /\ Holds(cells, p, old) /\ ApartAt(p, Len(old), at, w) => Holds(next, p, old)
    BY <1>14, <2>1
  <2>5. QED BY <1>1, <1>3, <1>4, <1>6, <1>10, <1>13, <1>15, <2>1, <2>3, <2>4 DEF SectionSaved
<1>16. CASE HasCells(sec)
  <2>1. PICK o, d : o \in Nat /\ o = sec.sh.offset /\ d = sec.data /\ IsList(d)
    BY <1>7
  <2>2. Len(d) \in Nat /\ o + Len(d) <= z
    BY <1>1, <1>5, <1>16, <2>1, SavedRoom, ListIs DEF HasCells
  <2>3. next = WriteAt(written, o, d)
    BY <1>11, <1>16, <2>1
  <2>4. Wrote(written, o, d, next)
    BY <1>13, <2>1, <2>3, WriteIs
  <2>5. IsList(next) /\ Holds(next, o, d)
        /\ Len(next) = (IF Len(written) <= o + Len(d) THEN o + Len(d) ELSE Len(written))
    BY <2>4 DEF Wrote
  <2>6. Len(next) <= at + w
    BY <1>3, <1>4, <1>5, <1>13, <2>2, <2>5
  <2>7. ApartAt(at, w, o, Len(d))
    <3>1. PICK k \in Nat : k = Len(d) /\ o + k <= z
      BY <2>2
    <3>2. o + k <= at
      BY <1>5, <2>1, <3>1, SMTT(30)
    <3>3. QED BY <3>1, <3>2 DEF ApartAt
  <2>8. Holds(next, at, cs)
    BY <1>6, <1>13, <2>1, <2>4, <2>7, StillHolds
  <2>9. ASSUME NEW p \in Nat, NEW old, IsList(old), Holds(cells, p, old),
               ApartAt(p, Len(old), at, w), ApartAt(p, Len(old), o, Len(d))
        PROVE  Holds(next, p, old)
    <3>1. Holds(written, p, old)
      BY <1>14, <2>9
    <3>2. QED BY <1>13, <2>1, <2>4, <2>9, <3>1, StillHolds
  <2>10. SectionHeaderAt(e, n + 1) = at + w
    BY <1>2, <1>3, <1>4, SectionHeaders
  <2>11. \A p \in Nat : \A old :
           /\ IsList(old) /\ Holds(cells, p, old) /\ ApartAt(p, Len(old), at, w)
           /\ ApartAt(p, Len(old), o, Len(d))
           => Holds(next, p, old)
    BY <2>9
  <2>12. QED
    BY <1>1, <1>3, <1>4, <1>6, <1>10, <1>16, <2>1, <2>5, <2>6, <2>8, <2>10, <2>11 DEF SectionSaved
<1>17. QED BY <1>15, <1>16


(* The header and the first k sections are written. *)
SectionAtItsPlace(e, f, i) ==
  /\ Holds(f, SectionHeaderAt(e, i), SectionCells(e, i))
  /\ HasCells(e.sections[i]) => Holds(f, e.sections[i].sh.offset, e.sections[i].data)

SectionsSaved(e, k, f) ==
  /\ IsList(f) /\ Len(f) <= SectionHeaderAt(e, k + 1) /\ Holds(f, 0, HeaderCells(e))
  /\ \A i \in 1 .. k : SectionAtItsPlace(e, f, i)

LEMMA SectionsSavedOneMore ==
  ASSUME NEW E, NEW e, Saved(E, e), NEW n \in 1 .. Len(E.sections), NEW f,
         SectionsSaved(e, n - 1, f), NEW g, g = SaveSection(e, f, e.sections[n])
  PROVE  SectionsSaved(e, n, g)
<1>1. PICK m \in Nat : m = Len(E.sections) /\ n \in 1 .. m /\ n \in Nat \ {0} /\ (n - 1) + 1 = n
  BY SavedNumbers
<1>2. /\ IsList(f) /\ Len(f) <= SectionHeaderAt(e, n) /\ Holds(f, 0, HeaderCells(e))
      /\ \A i \in 1 .. (n - 1) : SectionAtItsPlace(e, f, i)
  BY <1>1 DEF SectionsSaved
<1>3. SectionSaved(e, n, f, g)
  BY <1>2, SectionSavedIs
<1>4. PICK sec : sec = e.sections[n]
  OBVIOUS
<1>5. PICK at \in Nat, w \in Nat, z \in Nat, a \in Nat :
        /\ at = SectionHeaderAt(e, n) /\ w = e.hdr.shentsize /\ z = e.hdr.shoff /\ z <= at
        /\ a = e.hdr.ehsize /\ a <= z /\ a <= E.pos
  <2>1. /\ e.hdr.shentsize \in Nat /\ e.hdr.shoff \in Nat /\ e.hdr.ehsize \in Nat /\ E.pos \in Nat
        /\ e.hdr.ehsize <= E.pos /\ E.pos <= e.hdr.shoff
    BY SavedNumbers
  <2>2. SectionHeaderAt(e, n) \in Nat /\ e.hdr.shoff <= SectionHeaderAt(e, n)
    BY <1>1, SectionHeaders
  <2>3. e.hdr.ehsize <= e.hdr.shoff
    BY <2>1
  <2>4. QED BY <2>1, <2>2, <2>3
<1>6. /\ IsList(g) /\ Len(g) <= SectionHeaderAt(e, n + 1)
      /\ Holds(g, at, SectionCells(e, n))
      /\ HasCells(sec) => Holds(g, sec.sh.offset, sec.data)
  BY <1>3, <1>4, <1>5 DEF SectionSaved
<1>7. ASSUME NEW p \in Nat, NEW old, IsList(old), Holds(f, p, old), ApartAt(p, Len(old), at, w),
             HasCells(sec) => ApartAt(p, Len(old), sec.sh.offset, Len(sec.data))
      PROVE  Holds(g, p, old)
  BY <1>3, <1>4, <1>5, <1>7 DEF SectionSaved
<1>8. HasCells(sec) => /\ sec.sh.offset \in Nat /\ Len(sec.data) \in Nat /\ n - 1 \in 1 .. (m - 1)
                       /\ E.pos <= sec.sh.offset /\ sec.sh.offset + Len(sec.data) <= z
                       /\ Len(sec.data) = Occupied(sec) /\ IsList(sec.data)
  <2>1. /\ sec.sh.offset \in Nat /\ sec.sh.size \in Nat /\ IsList(sec.data)
        /\ sec.sh.type \notin {"NULL", "NOBITS"}
              => /\ Len(sec.data) = sec.sh.size /\ Occupied(sec) = sec.sh.size
                 /\ n - 1 \in 1 .. (Len(E.sections) - 1)
                 /\ E.pos <= sec.sh.offset /\ sec.sh.offset + Len(sec.data) <= e.hdr.shoff
    BY <1>4, SavedRoom, SMTT(30)
  <2>2. QED BY <1>1, <1>5, <2>1 DEF HasCells
<1>9. E.pos \in Nat
  BY SavedNumbers
<1>10. Holds(g, 0, HeaderCells(e))
  <2>1. PICK old : old = HeaderCells(e) /\ IsList(old) /\ Len(old) = a
    BY <1>5, SavedCells
  <2>2. ApartAt(0, a, at, w)
    BY <1>5 DEF ApartAt
  <2>3. HasCells(sec) => ApartAt(0, a, sec.sh.offset, Len(sec.data))
    BY <1>5, <1>8, <1>9 DEF ApartAt
  <2>4. QED BY <1>2, <1>7, <2>1, <2>2, <2>3
<1>11. ASSUME NEW i \in 1 .. (n - 1) PROVE SectionAtItsPlace(e, g, i)
  <2>1. SectionAtItsPlace(e, f, i) /\ i \in 1 .. m /\ i \in Nat \ {0} /\ i < n /\ i # n
    BY <1>1, <1>2
  <2>2. PICK s : s = e.sections[i]
    OBVIOUS
  <2>3. Holds(g, SectionHeaderAt(e, i), SectionCells(e, i))
    <3>1. PICK old : old = SectionCells(e, i) /\ IsList(old) /\ Len(old) = w
      BY <1>5, SavedCells
    <3>2. PICK p \in Nat : p = SectionHeaderAt(e, i) /\ z <= p
      <4>1. SectionHeaderAt(e, i) \in Nat /\ e.hdr.shoff <= SectionHeaderAt(e, i)
        BY <2>1, SectionHeaders
      <4>2. QED BY <1>5, <4>1
    <3>3. ApartAt(p, w, at, w)
      <4>1. PICK x \in Nat, y \in Nat : x = i - 1 /\ y = n - 1 /\ x # y
        BY <1>1, <2>1
      <4>2. p = z + x * w /\ at = z + y * w
        BY <1>5, <3>2, <4>1 DEF SectionHeaderAt
      <4>3. QED BY <4>1, <4>2, EntriesApart
    <3>4. HasCells(sec) => ApartAt(p, w, sec.sh.offset, Len(sec.data))
      <4>1. SUFFICES ASSUME HasCells(sec) PROVE ApartAt(p, w, sec.sh.offset, Len(sec.data))
        BY Zenon
      <4>2. PICK o \in Nat, l \in Nat : o = sec.sh.offset /\ l = Len(sec.data) /\ o + l <= z
        BY <1>5, <1>8, <4>1
      <4>3. ApartAt(p, w, o, l)
        BY <3>2, <4>2, SMTT(30) DEF ApartAt
      <4>4. QED BY <4>2, <4>3, Zenon
    <3>5. Holds(f, p, old)
      BY <2>1, <3>1, <3>2 DEF SectionAtItsPlace
    <3>6. QED BY <1>7, <3>1, <3>2, <3>3, <3>4, <3>5
  <2>4. ASSUME HasCells(s) PROVE Holds(g, s.sh.offset, s.data)
    <3>1. /\ s.sh.offset \in Nat /\ IsList(s.data) /\ Len(s.data) \in Nat
          /\ s.sh.offset + Len(s.data) <= z /\ Len(s.data) = Occupied(s)
      <4>1. /\ s.sh.offset \in Nat /\ s.sh.size \in Nat /\ IsList(s.data)
            /\ s.sh.type \notin {"NULL", "NOBITS"}
                  => /\ Len(s.data) = s.sh.size /\ Occupied(s) = s.sh.size
                     /\ s.sh.offset + Len(s.data) <= e.hdr.shoff
        <5>1. i \in 1 .. Len(E.sections)
          BY <1>1, <2>1
        <5>2. QED
          <6>1. /\ s.index = i - 1 /\ IsList(s.data) /\ s.sh.offset \in Nat /\ s.sh.size \in Nat
                /\ s.sh.type \notin {"NULL", "NOBITS"}
                     => /\ Len(s.data) = s.sh.size /\ Occupied(s) = s.sh.size
                        /\ i - 1 \in 1 .. (Len(E.sections) - 1)
                        /\ E.pos <= s.sh.offset /\ s.sh.offset + Len(s.data) <= e.hdr.shoff
            BY <5>1, <2>2, SavedRoom, SMTT(60)
          <6>2. QED BY <6>1, Zenon
      <4>2. QED BY <1>5, <2>4, <4>1 DEF HasCells
    <3>2. ApartAt(s.sh.offset, Len(s.data), at, w)
      BY <1>5, <3>1 DEF ApartAt
    <3>3. HasCells(sec) => ApartAt(s.sh.offset, Len(s.data), sec.sh.offset, Len(sec.data))
      <4>1. ApartAt(s.sh.offset, Occupied(s), sec.sh.offset, Occupied(sec))
        BY <1>1, <1>4, <2>1, <2>2, SavedApart DEF Saved
      <4>2. QED BY <1>8, <3>1, <4>1
    <3>4. Holds(f, s.sh.offset, s.data)
      BY <2>1, <2>2, <2>4 DEF SectionAtItsPlace
    <3>5. QED BY <1>7, <3>1, <3>2, <3>3, <3>4
  <2>5. QED BY <2>2, <2>3, <2>4 DEF SectionAtItsPlace
<1>12. SectionAtItsPlace(e, g, n)
  BY <1>4, <1>5, <1>6 DEF SectionAtItsPlace
<1>13. \A i \in 1 .. n : SectionAtItsPlace(e, g, i)
  BY <1>1, <1>11, <1>12
<1>14. QED BY <1>6, <1>10, <1>13 DEF SectionsSaved

LEMMA SaveSectionsIsLoop ==
  ASSUME NEW e, NEW f
  PROVE  save_sections(e, f) = Fold("save sections", e, f, e.sections)
  BY DEF save_sections, Fold, FoldLeft, MapThenFoldSet, Body

LEMMA HeaderIsSaved ==
  ASSUME NEW E, NEW e, Saved(E, e)
  PROVE  SectionsSaved(e, 0, SaveHeader(e, << >>))
<1>1. PICK f : f = SaveHeader(e, << >>)
  OBVIOUS
<1>2. PICK a \in Nat : a = e.hdr.ehsize /\ a <= e.hdr.shoff /\ e.hdr.shoff \in Nat
  BY SavedNumbers
<1>3. PICK new : new = HeaderCells(e) /\ IsList(new) /\ Len(new) = a
  BY <1>2, SavedCells
<1>4. f = WriteAt(<< >>, 0, new)
  BY <1>1, <1>3 DEF SaveHeader, HeaderCells
<1>5. IsList(<< >>) /\ Len(<< >>) = 0
  BY EmptyList
<1>6. Wrote(<< >>, 0, new, f)
  BY <1>3, <1>4, <1>5, WriteIs
<1>7. IsList(f) /\ Holds(f, 0, new) /\ Len(f) = a
  BY <1>2, <1>3, <1>5, <1>6 DEF Wrote
<1>8. SectionHeaderAt(e, 0 + 1) \in Nat /\ e.hdr.shoff <= SectionHeaderAt(e, 0 + 1)
  BY SectionHeaders
<1>9. Len(f) <= SectionHeaderAt(e, 0 + 1)
  BY <1>2, <1>7, <1>8
<1>10. QED BY <1>1, <1>3, <1>7, <1>9 DEF SectionsSaved

LEMMA SaveSectionsIs ==
  ASSUME NEW E, NEW e, Saved(E, e)
  PROVE  SectionsSaved(e, Len(E.sections), save_sections(e, SaveHeader(e, << >>)))
<1>1. PICK N \in Nat : N = Len(E.sections)
  BY SavedNumbers
<1>2. DOMAIN e.sections = 1 .. N
  BY <1>1, ListIs DEF Saved, LaidOut, SameObject
<1>3. PICK f : f = SaveHeader(e, << >>)
  OBVIOUS
<1>4. PICK h : Runs(h, "save sections", e, f, e.sections, N)
  BY <1>2, FoldSteps
<1>5. /\ h[0] = f
      /\ \A k \in 1 .. N : h[k] = SaveSection(e, h[k - 1], e.sections[k])
      /\ h[N] = save_sections(e, f)
  BY <1>4, SaveSectionsIsLoop DEF Runs, Body
<1> DEFINE P == { k \in 0 .. N : SectionsSaved(e, k, h[k]) }
<1>6. 0 \in P
  BY <1>3, <1>5, HeaderIsSaved
<1>7. ASSUME NEW k \in 1 .. N, k - 1 \in P PROVE k \in P
  <2>1. SectionsSaved(e, k - 1, h[k - 1]) /\ k \in 1 .. Len(E.sections)
    BY <1>1, <1>7
  <2>2. SectionsSaved(e, k, h[k])
    BY <1>5, <2>1, SectionsSavedOneMore
  <2>3. QED BY <2>2
<1>8. \A k \in 0 .. N : k \in P
  <2> HIDE DEF P
  <2>1. QED BY <1>6, <1>7, Induction
<1>9. N \in P
  BY <1>8
<1>10. QED BY <1>1, <1>3, <1>5, <1>9

----------------------------------------
(* The program headers *)

SegmentsSaved(e, m, k, f) ==
  /\ IsList(f) /\ Len(f) = SectionHeaderAt(e, m + 1) /\ Holds(f, 0, HeaderCells(e))
  /\ \A i \in 1 .. m : SectionAtItsPlace(e, f, i)
  /\ \A n \in 1 .. k : Holds(f, SegmentHeaderAt(e, n), SegmentCells(e, n))

LEMMA SegmentHeaders ==
  ASSUME NEW E, NEW e, Saved(E, e), NEW n \in 1 .. Len(E.segments)
  PROVE  /\ SegmentHeaderAt(e, n) \in Nat /\ e.hdr.ehsize <= SegmentHeaderAt(e, n)
         /\ SegmentHeaderAt(e, n) + e.hdr.phentsize <= E.pos
<1>1. PICK a \in Nat, w \in Nat, N \in Nat :
        /\ a = e.hdr.ehsize /\ w = e.hdr.phentsize /\ N = Len(E.segments) /\ n \in 1 .. N
        /\ E.pos = a + w * N /\ e.hdr.phoff = a
  BY SavedNumbers
<1>2. PICK i \in Nat : i = n - 1 /\ i < N
  BY <1>1
<1>3. SegmentHeaderAt(e, n) = a + i * w
  BY <1>1, <1>2 DEF SegmentHeaderAt
<1>4. /\ a + i * w \in Nat /\ a + i * w + w <= a + N * w
  BY <1>2, EntriesApart
<1>5. w * N = N * w
  OBVIOUS
<1>6. i * w \in Nat
  OBVIOUS
<1>7. PICK x \in Nat, y \in Nat : x = i * w /\ y = N * w
  BY <1>6, <1>1
<1>8. a <= a + x /\ a + x \in Nat /\ a + x + w <= E.pos
  <2>1. a + x \in Nat /\ a <= a + x
    BY <1>7
  <2>2. a + x + w <= a + y
    BY <1>4, <1>7, Zenon
  <2>3. E.pos = a + y
    BY <1>1, <1>5, <1>7, Zenon
  <2>4. QED BY <2>1, <2>2, <2>3, Zenon
<1>9. QED BY <1>1, <1>3, <1>7, <1>8

LEMMA SegmentsSavedOneMore ==
  ASSUME NEW E, NEW e, Saved(E, e), NEW n \in 1 .. Len(E.segments), NEW f, NEW m, m = Len(E.sections),
         SegmentsSaved(e, m, n - 1, f), NEW g, g = SaveSegment(e, f, e.segments[n])
  PROVE  SegmentsSaved(e, m, n, g)
<1>1. /\ m \in Nat /\ Len(E.segments) \in Nat /\ n \in Nat \ {0}
  BY SavedNumbers
<1>2. /\ IsList(f) /\ Len(f) = SectionHeaderAt(e, m + 1) /\ Holds(f, 0, HeaderCells(e))
      /\ \A i \in 1 .. m : SectionAtItsPlace(e, f, i)
      /\ \A i \in 1 .. (n - 1) : Holds(f, SegmentHeaderAt(e, i), SegmentCells(e, i))
  BY DEF SegmentsSaved
<1>3. PICK a \in Nat, w \in Nat, base \in Nat, z \in Nat :
        /\ a = e.hdr.ehsize /\ w = e.hdr.phentsize /\ base = E.pos /\ z = e.hdr.shoff /\ base <= z
  BY SavedNumbers
<1>4. PICK at \in Nat : at = SegmentHeaderAt(e, n) /\ a <= at /\ at + w <= base
  BY <1>3, SegmentHeaders
<1>5. PICK new : new = SegmentCells(e, n) /\ IsList(new) /\ Len(new) = w
  BY <1>3, SavedCells
<1>6. e.segments[n].index = n - 1
  <2>1. IsSegment(E.segments[n], n - 1, Len(E.sections)) /\ SameSegment(E.segments[n], e.segments[n])
    BY DEF Saved, Ready, IsObject, LaidOut, SameObject
  <2>2. QED BY <2>1 DEF IsSegment, SameSegment
<1>7. g = WriteAt(f, at, new)
  BY <1>4, <1>5, <1>6 DEF SaveSegment, SegmentHeaderAt, SegmentCells
<1>8. Wrote(f, at, new, g)
  BY <1>2, <1>5, <1>7, WriteIs
<1>9. PICK end \in Nat : end = SectionHeaderAt(e, m + 1) /\ z <= end
  <2>1. m + 1 \in Nat \ {0}
    BY <1>1
  <2>2. SectionHeaderAt(e, m + 1) \in Nat /\ e.hdr.shoff <= SectionHeaderAt(e, m + 1)
    BY <2>1, SectionHeaders
  <2>3. QED BY <1>3, <2>2
<1>10. IsList(g) /\ Len(g) = end /\ Holds(g, at, new)
  <2>1. /\ IsList(g) /\ Holds(g, at, new)
        /\ Len(g) = (IF Len(f) <= at + Len(new) THEN at + Len(new) ELSE Len(f))
    BY <1>8 DEF Wrote
  <2>2. Len(f) = end /\ Len(new) = w /\ at + w <= end
    <3>1. Len(f) = end /\ Len(new) = w
      BY <1>2, <1>5, <1>9, Zenon
    <3>2. at + w <= base /\ base <= z /\ z <= end
      BY <1>3, <1>4, <1>9, Zenon
    <3>3. at + w <= end
      BY <3>2
    <3>4. QED BY <3>1, <3>3, Zenon
  <2>3. Len(g) = end
    BY <1>3, <1>4, <1>9, <2>1, <2>2
  <2>4. QED BY <2>1, <2>3
<1>11. ASSUME NEW p \in Nat, NEW old, IsList(old), Holds(f, p, old), ApartAt(p, Len(old), at, w)
       PROVE  Holds(g, p, old)
  BY <1>2, <1>5, <1>8, <1>11, StillHolds
<1>12. Holds(g, 0, HeaderCells(e))
  <2>1. PICK old : old = HeaderCells(e) /\ IsList(old) /\ Len(old) = a
    BY <1>3, SavedCells
  <2>2. ApartAt(0, a, at, w)
    BY <1>4 DEF ApartAt
  <2>3. QED BY <1>2, <1>11, <2>1, <2>2
<1>13. ASSUME NEW i \in 1 .. m PROVE SectionAtItsPlace(e, g, i)
  <2>1. SectionAtItsPlace(e, f, i) /\ i \in Nat \ {0} /\ i \in 1 .. Len(E.sections)
    BY <1>1, <1>2
  <2>2. PICK s : s = e.sections[i]
    OBVIOUS
  <2>3. Holds(g, SectionHeaderAt(e, i), SectionCells(e, i))
    <3>1. PICK old : old = SectionCells(e, i) /\ IsList(old) /\ Len(old) = e.hdr.shentsize
      BY SavedCells
    <3>2. PICK p \in Nat : p = SectionHeaderAt(e, i) /\ z <= p
      <4>1. SectionHeaderAt(e, i) \in Nat /\ e.hdr.shoff <= SectionHeaderAt(e, i)
        BY <2>1, SectionHeaders
      <4>2. QED BY <1>3, <4>1
    <3>3. ApartAt(p, Len(old), at, w)
      <4>1. Len(old) \in Nat
        BY <3>1, SavedNumbers
      <4>2. at + w <= p
        <5>1. at + w <= base /\ base <= z /\ z <= p
          BY <1>3, <1>4, <3>2, Zenon
        <5>2. QED BY <5>1
      <4>3. QED BY <4>1, <4>2 DEF ApartAt
    <3>4. QED BY <1>11, <2>1, <3>1, <3>2, <3>3 DEF SectionAtItsPlace
  <2>4. ASSUME HasCells(s) PROVE Holds(g, s.sh.offset, s.data)
    <3>1. s.sh.offset \in Nat /\ IsList(s.data) /\ base <= s.sh.offset
      <4>1. /\ s.sh.offset \in Nat /\ IsList(s.data)
            /\ s.sh.type \notin {"NULL", "NOBITS"} => E.pos <= s.sh.offset
        BY <2>1, <2>2, SavedRoom
      <4>2. QED BY <1>3, <2>4, <4>1 DEF HasCells
    <3>2. ApartAt(s.sh.offset, Len(s.data), at, w)
      BY <1>4, <3>1 DEF ApartAt
    <3>3. QED BY <1>11, <2>1, <2>2, <2>4, <3>1, <3>2 DEF SectionAtItsPlace
  <2>5. QED BY <2>2, <2>3, <2>4 DEF SectionAtItsPlace
<1>14. ASSUME NEW i \in 1 .. n PROVE Holds(g, SegmentHeaderAt(e, i), SegmentCells(e, i))
  <2>1. CASE i = n
    BY <1>4, <1>5, <1>10, <2>1
  <2>2. CASE i # n
    <3>1. i \in 1 .. (n - 1) /\ i \in 1 .. Len(E.segments)
      BY <1>1, <2>2
    <3>2. PICK old : old = SegmentCells(e, i) /\ IsList(old) /\ Len(old) = w
      BY <1>3, SavedCells
    <3>3. PICK p \in Nat : p = SegmentHeaderAt(e, i)
      BY <3>1, SegmentHeaders
    <3>4. ApartAt(p, w, at, w)
      <4>1. PICK x \in Nat, y \in Nat, o \in Nat : x = i - 1 /\ y = n - 1 /\ x # y /\ o = e.hdr.phoff
        <5>1. e.hdr.phoff \in Nat
          BY SavedNumbers
        <5>2. i - 1 \in Nat /\ n - 1 \in Nat /\ i - 1 # n - 1
          BY <1>1, <2>2, <3>1
        <5>3. QED BY <5>1, <5>2
      <4>2. p = o + x * w /\ at = o + y * w
        BY <1>3, <1>4, <3>3, <4>1 DEF SegmentHeaderAt
      <4>3. QED BY <4>1, <4>2, EntriesApart
    <3>5. QED BY <1>2, <1>11, <3>1, <3>2, <3>3, <3>4
  <2>3. QED BY <2>1, <2>2
<1>15. QED BY <1>9, <1>10, <1>12, <1>13, <1>14 DEF SegmentsSaved

LEMMA SaveSegmentsIsLoop ==
  ASSUME NEW e, NEW f
  PROVE  save_segments(e, f) = Fold("save segments", e, f, e.segments)
  BY DEF save_segments, Fold, FoldLeft, MapThenFoldSet, Body

SavedFile(e) == save_segments(e, save_sections(e, SaveHeader(e, << >>)))

LEMMA SavedFileIs ==
  ASSUME NEW E, NEW e, Saved(E, e)
  PROVE  SegmentsSaved(e, Len(E.sections), Len(E.segments), SavedFile(e))
<1>1. PICK N \in Nat : N = Len(E.segments)
  BY SavedNumbers
<1>2. PICK m \in Nat : m = Len(E.sections) /\ m >= 2
  BY SavedNumbers
<1>3. DOMAIN e.segments = 1 .. N
  BY <1>1, ListIs DEF Saved, LaidOut, SameObject
<1>4. PICK f : f = save_sections(e, SaveHeader(e, << >>))
  OBVIOUS
<1>5. SectionsSaved(e, m, f)
  BY <1>2, <1>4, SaveSectionsIs
<1>6. PICK h : Runs(h, "save segments", e, f, e.segments, N)
  BY <1>3, FoldSteps
<1>7. /\ h[0] = f
      /\ \A k \in 1 .. N : h[k] = SaveSegment(e, h[k - 1], e.segments[k])
      /\ h[N] = save_segments(e, f)
  BY <1>6, SaveSegmentsIsLoop DEF Runs, Body
<1> DEFINE P == { k \in 0 .. N : SegmentsSaved(e, m, k, h[k]) }
<1>8. SegmentsSaved(e, m, 0, f)
  <2>1. IsList(f) /\ Len(f) <= SectionHeaderAt(e, m + 1) /\ Len(f) \in Nat
    BY <1>5, ListIs DEF SectionsSaved
  <2>2. Holds(f, SectionHeaderAt(e, m), SectionCells(e, m))
    BY <1>2, <1>5 DEF SectionsSaved, SectionAtItsPlace
  <2>3. SectionHeaderAt(e, m) + e.hdr.shentsize <= Len(f)
    BY <2>2, SavedCells DEF Holds
  <2>4. /\ SectionHeaderAt(e, m) \in Nat /\ e.hdr.shentsize \in Nat
        /\ SectionHeaderAt(e, m + 1) = SectionHeaderAt(e, m) + e.hdr.shentsize
    <3>1. m \in Nat \ {0}
      BY <1>2
    <3>2. QED BY <3>1, SectionHeaders, SavedNumbers
  <2>5. Len(f) = SectionHeaderAt(e, m + 1)
    BY <2>1, <2>3, <2>4
  <2>6. QED BY <1>5, <2>5 DEF SectionsSaved, SegmentsSaved
<1>9. 0 \in P
  BY <1>7, <1>8
<1>10. ASSUME NEW k \in 1 .. N, k - 1 \in P PROVE k \in P
  <2>1. SegmentsSaved(e, m, k - 1, h[k - 1]) /\ k \in 1 .. Len(E.segments)
    BY <1>1, <1>10
  <2>2. SegmentsSaved(e, m, k, h[k])
    BY <1>2, <1>7, <2>1, SegmentsSavedOneMore
  <2>3. QED BY <2>2
<1>11. \A k \in 0 .. N : k \in P
  <2> HIDE DEF P
  <2>1. QED BY <1>9, <1>10, Induction
<1>12. N \in P
  BY <1>11
<1>13. QED BY <1>1, <1>2, <1>4, <1>7, <1>12 DEF SavedFile

----------------------------------------
(* Loading what was saved: the header and the sections *)

(* f is the file of the object e that save has laid out. *)
SavedIn(E, e, f) == Saved(E, e) /\ SegmentsSaved(e, Len(E.sections), Len(E.segments), f)

Opened(f) == [cells |-> f, fail |-> FALSE]

LEMMA FileNumbers ==
  ASSUME NEW E, NEW e, NEW f, SavedIn(E, e, f)
  PROVE  /\ IsList(f) /\ Len(f) \in Nat /\ e.hdr.shoff <= Len(f) /\ Len(f) # 0
         /\ Holds(f, 0, HeaderCells(e))
         /\ Len(f) = SectionHeaderAt(e, Len(E.sections)) + e.hdr.shentsize
<1>1. PICK m \in Nat \ {0} : m = Len(E.sections)
  <2>1. Len(E.sections) \in Nat /\ Len(E.sections) >= 2
    BY SavedNumbers DEF SavedIn
  <2>2. QED BY <2>1
<1>2. /\ IsList(f) /\ Len(f) = SectionHeaderAt(e, m + 1) /\ Holds(f, 0, HeaderCells(e))
  BY <1>1 DEF SavedIn, SegmentsSaved
<1>3. /\ SectionHeaderAt(e, m) \in Nat /\ e.hdr.shoff <= SectionHeaderAt(e, m)
      /\ SectionHeaderAt(e, m + 1) = SectionHeaderAt(e, m) + e.hdr.shentsize
  <2>1. Saved(E, e)
    BY DEF SavedIn
  <2>2. QED BY <1>1, <2>1, SectionHeaders
<1>4. e.hdr.shentsize \in Nat \ {0} /\ e.hdr.shoff \in Nat
  BY SavedNumbers DEF SavedIn
<1>5. QED BY <1>1, <1>2, <1>3, <1>4

(* The identification that a saved header begins with is accepted. *)
LEMMA HeaderIsLoaded ==
  ASSUME NEW E, NEW e, Saved(E, e), NEW f, IsList(f), Holds(f, 0, HeaderCells(e))
  PROVE  HeaderLoads(f) /\ f[1].rec = e.hdr
<1>1. PICK n \in Nat \ {0} : n = e.hdr.ehsize /\ n = SizeOf[e.hdr.class].Ehdr
  BY SavedNumbers, SavedCells
<1>2. PICK p : p = HeaderCells(e) /\ Len(p) = n /\ p[1] = [type |-> "Ehdr", rec |-> e.hdr, part |-> 1]
  BY <1>1, PartsAre DEF HeaderCells
<1>3. Len(f) \in Nat /\ n <= Len(f) /\ 1 \in 1 .. n /\ f[0 + 1] = p[1]
  BY <1>1, <1>2, ListIs, SMTT(30) DEF Holds
<1>4. f[1] = [type |-> "Ehdr", rec |-> e.hdr, part |-> 1]
  BY <1>2, <1>3
<1>5. f # << >>
  BY <1>1, <1>3, EmptyList
<1>6. e.hdr.class \in Classes /\ e.hdr.encoding \in Encodings
  BY DEF Saved, Ready, IsObject, IsHeader, LaidOut, SavedHeader
<1>7. "rec" \in DOMAIN f[1] /\ f[1].type = "Ehdr" /\ f[1].part = 1 /\ f[1].rec = e.hdr
  BY <1>4
<1>8. QED BY <1>1, <1>3, <1>5, <1>6, <1>7 DEF HeaderLoads

(* A section as it is loaded, with a name. *)
LoadedAs(t, sec, name) ==
  /\ DOMAIN t = SectionFields /\ t.sh = sec.sh /\ t.index = sec.index /\ t.name = name
  /\ t.data = sec.data /\ t.cap = Len(sec.data) /\ t.addrset = TRUE

LEMMA SectionIsLoaded ==
  ASSUME NEW E, NEW e, NEW f, SavedIn(E, e, f), NEW n \in 1 .. Len(E.sections)
  PROVE  /\ LoadSection(Opened(f), e.hdr, n - 1).st = Opened(f)
         /\ LoadedAs(LoadSection(Opened(f), e.hdr, n - 1).sec, e.sections[n], << >>)
<1>1. PICK st : st = Opened(f) /\ st.cells = f /\ st.fail = FALSE
  <2>1. Opened(f).cells = f /\ Opened(f).fail = FALSE
    BY DEF Opened
  <2>2. QED BY <2>1
<1>2. PICK sec : sec = e.sections[n]
  OBVIOUS
<1>3. Saved(E, e) /\ n \in Nat \ {0} /\ Len(E.sections) \in Nat
  BY SavedNumbers DEF SavedIn
<1>4. PICK pos \in Nat : pos = SectionHeaderAt(e, n)
  BY <1>3, SectionHeaders
<1>5. PICK w \in Nat \ {0} : w = e.hdr.shentsize /\ w = SizeOf[e.hdr.class].Shdr
  BY <1>3, SavedNumbers, SavedCells
<1>6. IsList(f) /\ Len(f) \in Nat /\ e.hdr.shoff <= Len(f)
  BY FileNumbers
<1>7. SectionAtItsPlace(e, f, n)
  BY DEF SavedIn, SegmentsSaved
<1>8. Holds(st.cells, pos, Parts("Shdr", sec.sh, w))
  BY <1>1, <1>2, <1>4, <1>5, <1>7 DEF SectionAtItsPlace, SectionCells
<1>9. CanRead(st, pos, w) /\ ReadHeader(st, "Shdr", pos, w, ZeroShdr) = sec.sh
  <2>1. IsList(Parts("Shdr", sec.sh, w)) /\ Len(Parts("Shdr", sec.sh, w)) = w
    BY PartsAre
  <2>2. CanRead(st, pos, w)
    BY <1>1, <1>8, <2>1 DEF CanRead, Holds
  <2>3. IsList(st.cells)
    BY <1>1, <1>6
  <2>4. QED BY <1>8, <2>2, <2>3, HeaderIsRead
<1>10. /\ sec.index = n - 1 /\ IsList(sec.data) /\ sec.sh.offset \in Nat /\ sec.sh.size \in Nat
       /\ sec.sh.type \notin {"NULL", "NOBITS"}
            => /\ Len(sec.data) = sec.sh.size
               /\ E.pos <= sec.sh.offset /\ sec.sh.offset + Len(sec.data) <= e.hdr.shoff
       /\ sec.sh.type \in {"NULL", "NOBITS"} => sec.data = << >>
  BY <1>2, <1>3, SavedRoom
<1>11. E.pos \in Nat /\ e.hdr.ehsize \in Nat \ {0} /\ e.hdr.ehsize <= E.pos /\ e.hdr.shoff \in Nat
  BY <1>3, SavedNumbers
<1>12. StreamSize(st) = Len(f)
  BY <1>1 DEF StreamSize
<1> DEFINE wanted == sec.sh.type \notin {"NULL", "NOBITS"} /\ sec.sh.size # 0
                     /\ sec.sh.size < StreamSize(st)
<1>13. ASSUME wanted PROVE CanRead(st, sec.sh.offset, sec.sh.size)
                           /\ Slice(f, sec.sh.offset, sec.sh.size) = sec.data
  <2>1. Len(sec.data) = sec.sh.size /\ sec.data # << >>
    BY <1>10, <1>13, EmptyList
  <2>2. HasCells(sec)
    BY <1>13, <2>1 DEF HasCells
  <2>3. Holds(f, sec.sh.offset, sec.data)
    BY <1>2, <1>7, <2>2 DEF SectionAtItsPlace
  <2>4. Slice(f, sec.sh.offset, Len(sec.data)) = sec.data
    BY <1>6, <1>10, <2>3, ReadBack
  <2>5. QED BY <1>1, <2>1, <2>3, <2>4 DEF CanRead, Holds
<1>14. ASSUME ~wanted PROVE sec.data = << >>
  <2>1. CASE sec.sh.type \in {"NULL", "NOBITS"}
    BY <1>10, <2>1
  <2>2. CASE sec.sh.type \notin {"NULL", "NOBITS"}
    <3>1. sec.sh.size = 0
      <4>1. PICK o \in Nat, l \in Nat, h \in Nat, N \in Nat :
              o = sec.sh.offset /\ l = sec.sh.size /\ h = e.hdr.shoff /\ N = Len(f)
        BY <1>6, <1>10, <1>11, Zenon
      <4>2. o + l <= h /\ h <= N
        BY <1>6, <1>10, <2>2, <4>1, Zenon
      <4>3. PICK b \in Nat \ {0} : b <= o
        <5>1. PICK c \in Nat \ {0}, q \in Nat : c = e.hdr.ehsize /\ q = E.pos
          BY <1>11, Zenon
        <5>2. c <= q /\ q <= o
          BY <1>10, <1>11, <2>2, <4>1, <5>1, Zenon
        <5>3. QED BY <5>2
      <4>4. l < N
        BY <4>2, <4>3
      <4>5. QED BY <1>12, <1>14, <2>2, <4>1, <4>4, Zenon
    <3>2. Len(sec.data) = 0
      BY <1>10, <2>2, <3>1
    <3>3. QED BY <1>10, <3>2, ListEmpty
  <2>3. QED BY <2>1, <2>2
<1>15. PICK st1 : st1 = [st EXCEPT !.fail = ~CanRead(st, pos, w)]
  OBVIOUS
<1>16. st1 = st
  BY <1>1, <1>9, <1>15 DEF Opened
<1>17. PICK l : l = LoadSection(st, e.hdr, n - 1)
  OBVIOUS
<1>18. pos = e.hdr.shoff + (n - 1) * e.hdr.shentsize
  BY <1>4 DEF SectionHeaderAt
<1> DEFINE got == wanted /\ CanRead(st1, sec.sh.offset, sec.sh.size)
           data == IF got THEN Slice(st.cells, sec.sh.offset, sec.sh.size) ELSE << >>
<1>19. l = [st |-> [st1 EXCEPT !.fail = @ \/ (wanted /\ ~got)],
            sec |-> [NewSection(n - 1) EXCEPT !.sh = sec.sh, !.data = data, !.cap = Len(data),
                                              !.stream = StreamSize(st), !.addrset = TRUE]]
  BY <1>5, <1>9, <1>15, <1>17, <1>18, ZenonT(40) DEF LoadSection
<1>20. data = sec.data /\ ~(wanted /\ ~got)
  BY <1>1, <1>13, <1>14, <1>16
<1> HIDE DEF data, got, wanted
<1>21. l.st = [st1 EXCEPT !.fail = st1.fail \/ (wanted /\ ~got)]
  BY <1>19
<1>22. l.st = st
  BY <1>1, <1>16, <1>20, <1>21 DEF Opened
<1>23. LoadedAs(l.sec, sec, << >>)
  <2>1. l.sec = [NewSection(n - 1) EXCEPT !.sh = sec.sh, !.data = data, !.cap = Len(data),
                                          !.stream = StreamSize(st), !.addrset = TRUE]
    BY <1>19
  <2>2. QED BY <1>10, <1>20, <2>1 DEF NewSection, LoadedAs, SectionFields
<1>24. QED BY <1>1, <1>2, <1>17, <1>22, <1>23

(* The loop over the section headers of a file. *)
SectionLoop(st, hdr) ==
  Fold("load sections", hdr, [st |-> st, sections |-> << >>], [n \in 1 .. hdr.shnum |-> n - 1])

(* The first k sections are loaded. *)
SectionsLoaded(e, f, k, acc) ==
  /\ DOMAIN acc = {"st", "sections"}
  /\ acc.st = Opened(f) /\ IsList(acc.sections) /\ Len(acc.sections) = k
  /\ \A n \in 1 .. k : LoadedAs(acc.sections[n], e.sections[n], << >>)

LEMMA LoadSectionsIsLoop ==
  ASSUME NEW st, NEW hdr, ~(hdr.shentsize < SizeOf[hdr.class].Shdr), NEW all,
         all = SectionLoop(st, hdr)
  PROVE  LoadSections(st, hdr) = [all EXCEPT !.sections = Named(hdr, all.sections)]
<1>1. all = FoldLeft(LAMBDA acc, i : SectionLoaded(hdr, acc, i), [st |-> st, sections |-> << >>],
                     [n \in 1 .. hdr.shnum |-> n - 1])
  BY DEF SectionLoop, Fold, FoldLeft, MapThenFoldSet, Body
<1>2. QED BY <1>1 DEF LoadSections, SectionLoaded

LEMMA SectionsAreLoaded ==
  ASSUME NEW E, NEW e, NEW f, SavedIn(E, e, f), NEW all,
         all = SectionLoop(Opened(f), e.hdr)
  PROVE  SectionsLoaded(e, f, Len(E.sections), all)
<1>1. PICK m \in Nat : m = Len(E.sections) /\ e.hdr.shnum = m
  <2>1. Len(E.sections) \in Nat
    BY SavedNumbers DEF SavedIn
  <2>2. e.hdr.shnum = Len(E.sections)
    BY DEF SavedIn, Saved, LaidOut, SavedHeader
  <2>3. QED BY <2>1, <2>2
<1>2. PICK base : base = [st |-> Opened(f), sections |-> << >>]
  OBVIOUS
<1>3. PICK s : s = [n \in 1 .. m |-> n - 1] /\ DOMAIN s = 1 .. m /\ \A k \in 1 .. m : s[k] = k - 1
  <2>1. /\ DOMAIN [n \in 1 .. m |-> n - 1] = 1 .. m
        /\ \A k \in 1 .. m : [n \in 1 .. m |-> n - 1][k] = k - 1
    OBVIOUS
  <2>2. QED BY <2>1
<1>4. all = Fold("load sections", e.hdr, base, s)
  BY <1>1, <1>2, <1>3 DEF SectionLoop
<1>5. PICK h : Runs(h, "load sections", e.hdr, base, s, m)
  BY <1>3, FoldSteps
<1>6. /\ h[0] = base
      /\ \A k \in 1 .. m : h[k] = SectionLoaded(e.hdr, h[k - 1], k - 1)
      /\ h[m] = all
  BY <1>3, <1>4, <1>5 DEF Runs, Body
<1> DEFINE P == { k \in 0 .. m : SectionsLoaded(e, f, k, h[k]) }
<1>7. 0 \in P
  BY <1>2, <1>6, EmptyList DEF SectionsLoaded
<1>8. ASSUME NEW k \in 1 .. m, k - 1 \in P PROVE k \in P
  <2>1. PICK a : a = h[k - 1] /\ SectionsLoaded(e, f, k - 1, a)
    BY <1>8
  <2>2. PICK g : g = h[k] /\ g = SectionLoaded(e.hdr, a, k - 1)
    BY <1>6, <2>1
  <2>3. PICK l : l = LoadSection(a.st, e.hdr, k - 1)
    OBVIOUS
  <2>4. g.st = l.st /\ g.sections = Append(a.sections, l.sec) /\ DOMAIN g = {"st", "sections"}
    BY <2>2, <2>3 DEF SectionLoaded
  <2>5. a.st = Opened(f)
    BY <2>1 DEF SectionsLoaded
  <2>6. l.st = Opened(f) /\ LoadedAs(l.sec, e.sections[k], << >>)
    BY <1>1, <2>3, <2>5, SectionIsLoaded
  <2>7. IsList(a.sections) /\ Len(a.sections) = k - 1
        /\ \A n \in 1 .. (k - 1) : LoadedAs(a.sections[n], e.sections[n], << >>)
    BY <2>1 DEF SectionsLoaded
  <2>8. /\ IsList(g.sections) /\ Len(g.sections) = (k - 1) + 1 /\ g.sections[(k - 1) + 1] = l.sec
        /\ \A n \in 1 .. (k - 1) : g.sections[n] = a.sections[n]
    BY <2>4, <2>7, ListGrows
  <2>9. (k - 1) + 1 = k /\ \A n \in 1 .. k : n = k \/ n \in 1 .. (k - 1)
    BY <1>1
  <2>10. SectionsLoaded(e, f, k, g)
    BY <2>4, <2>6, <2>7, <2>8, <2>9 DEF SectionsLoaded
  <2>11. k \in 0 .. m
    OBVIOUS
  <2>12. QED BY <2>2, <2>10, <2>11
<1>9. \A k \in 0 .. m : k \in P
  <2> HIDE DEF P
  <2>1. QED BY <1>7, <1>8, Induction
<1>10. m \in P
  BY <1>9
<1>11. QED BY <1>1, <1>6, <1>10

(* The names are where the section headers say. *)
NamesKept(e) ==
  \A n \in 1 .. Len(e.sections) :
    /\ get_string(e.sections[2], e.sections[n].sh.name) = e.sections[n].name
    /\ e.sections[n].name # NoString

(* The sections that are read from the file. *)
LoadedSections(e, S) ==
  /\ IsList(S) /\ Len(S) = Len(e.sections)
  /\ \A n \in 1 .. Len(e.sections) : LoadedAs(S[n], e.sections[n], e.sections[n].name)

LEMMA SectionsAreNamed ==
  ASSUME NEW E, NEW e, NEW f, SavedIn(E, e, f), NamesKept(E), NEW all,
         SectionsLoaded(e, f, Len(E.sections), all)
  PROVE  LoadedSections(e, Named(e.hdr, all.sections))
<1>1. PICK m \in Nat : m = Len(E.sections) /\ m >= 2
  BY SavedNumbers DEF SavedIn
<1>2. PICK S : S = all.sections /\ IsList(S) /\ Len(S) = m /\ DOMAIN S = 1 .. m
  BY <1>1, ListIs DEF SectionsLoaded
<1>3. \A n \in 1 .. m : LoadedAs(S[n], e.sections[n], << >>)
  BY <1>1, <1>2 DEF SectionsLoaded
<1>4. e.hdr.shstrndx = 1
  BY DEF SavedIn, Saved, LaidOut, SavedHeader, Ready, IsObject, IsHeader
<1>5. /\ Len(e.sections) = m
      /\ \A n \in 1 .. m : SameSection(E.sections[n], e.sections[n])
  BY <1>1 DEF SavedIn, Saved, LaidOut, SameObject
<1>6. PICK t : t = S[2] /\ t.data = E.sections[2].data /\ t.sh.size = E.sections[2].sh.size
  <2>1. 2 \in 1 .. m
    BY <1>1
  <2>2. S[2].data = e.sections[2].data /\ S[2].sh = e.sections[2].sh
    BY <1>3, <2>1 DEF LoadedAs
  <2>3. e.sections[2].data = E.sections[2].data /\ e.sections[2].sh.size = E.sections[2].sh.size
    BY <1>5, <2>1 DEF SameSection
  <2>4. QED BY <2>2, <2>3
<1>7. SectionAt([sections |-> S], e.hdr.shstrndx) = t
  BY <1>1, <1>2, <1>4, <1>6 DEF SectionAt
<1>8. \A x : get_string(t, x) = get_string(E.sections[2], x)
  BY <1>6 DEF get_string
<1>9. PICK R : R = Named(e.hdr, S)
  OBVIOUS
<1>10. R = [n \in 1 .. m |-> IF get_string(t, S[n].sh.name) = NoString THEN S[n]
                             ELSE [S[n] EXCEPT !.name = get_string(t, S[n].sh.name)]]
  BY <1>2, <1>4, <1>7, <1>9 DEF Named
<1>11. IsList(R) /\ Len(R) = m
  BY <1>10, ListOf
<1>12. ASSUME NEW n \in 1 .. m PROVE LoadedAs(R[n], e.sections[n], e.sections[n].name)
  <2>1. SameSection(E.sections[n], e.sections[n]) /\ LoadedAs(S[n], e.sections[n], << >>)
    BY <1>3, <1>5
  <2>2. S[n].sh.name = E.sections[n].sh.name /\ e.sections[n].name = E.sections[n].name
    BY <2>1 DEF SameSection, LoadedAs
  <2>3. get_string(t, S[n].sh.name) = e.sections[n].name /\ e.sections[n].name # NoString
    BY <1>1, <1>8, <2>2 DEF NamesKept
  <2>4. R[n] = [S[n] EXCEPT !.name = e.sections[n].name]
    BY <1>10, <2>3
  <2>5. QED BY <2>1, <2>4 DEF LoadedAs, SectionFields
<1>13. QED BY <1>2, <1>5, <1>9, <1>11, <1>12 DEF LoadedSections

LEMMA LoadSectionsIs ==
  ASSUME NEW E, NEW e, NEW f, SavedIn(E, e, f), NamesKept(E)
  PROVE  /\ LoadSections(Opened(f), e.hdr).st = Opened(f)
         /\ LoadedSections(e, LoadSections(Opened(f), e.hdr).sections)
<1>1. PICK hdr : hdr = e.hdr
  OBVIOUS
<1>2. PICK all : all = SectionLoop(Opened(f), hdr)
  OBVIOUS
<1>3. SectionsLoaded(e, f, Len(E.sections), all)
  BY <1>1, <1>2, SectionsAreLoaded
<1>4. LoadedSections(e, Named(e.hdr, all.sections))
  BY <1>3, SectionsAreNamed
<1>5. e.hdr.shentsize = SizeOf[e.hdr.class].Shdr /\ e.hdr.shentsize \in Nat
  BY SavedCells, SavedNumbers DEF SavedIn
<1>6. LoadSections(Opened(f), e.hdr) = [all EXCEPT !.sections = Named(e.hdr, all.sections)]
  <2>1. ~(hdr.shentsize < SizeOf[hdr.class].Shdr)
    BY <1>1, <1>5
  <2>2. QED BY <1>1, <1>2, <2>1, LoadSectionsIsLoop
<1>7. DOMAIN all = {"st", "sections"}
  BY <1>3 DEF SectionsLoaded
<1>8. QED BY <1>3, <1>4, <1>6, <1>7 DEF SectionsLoaded

----------------------------------------
(* Loading what was saved: the segments *)

(* Sections that are found in a segment, in order, of the first k. *)
InsideSoFar(k, list) ==
  /\ IsList(list) /\ Increasing(list)
  /\ \A j \in 1 .. Len(list) : list[j] \in 1 .. (k - 1)

LEMMA SectionsInsideIsLoop ==
  ASSUME NEW S, NEW ph
  PROVE  SectionsInside(S, ph) = Fold("inside", ph, << >>, S)
  BY DEF SectionsInside, Fold, FoldLeft, MapThenFoldSet, Body

LEMMA InsideOneMore ==
  ASSUME NEW k \in Nat \ {0}, NEW list, InsideSoFar(k, list)
  PROVE  InsideSoFar(k + 1, Append(list, k)) /\ InsideSoFar(k + 1, list)
<1>1. IsList(list) /\ Increasing(list) /\ \A j \in 1 .. Len(list) : list[j] \in 1 .. (k - 1)
  BY DEF InsideSoFar
<1>2. PICK n \in Nat : n = Len(list)
  BY <1>1, ListIs
<1>3. PICK next : next = Append(list, k)
  OBVIOUS
<1>4. /\ IsList(next) /\ Len(next) = n + 1 /\ next[n + 1] = k
      /\ \A j \in 1 .. n : next[j] = list[j]
  BY <1>1, <1>2, <1>3, ListGrows
<1>5. 1 .. (k - 1) \subseteq 1 .. k /\ (k + 1) - 1 = k /\ k \in 1 .. k
  OBVIOUS
<1>6. ASSUME NEW b \in 1 .. (n + 1), NEW a \in 1 .. (b - 1) PROVE next[a] < next[b]
  <2>1. a \in 1 .. n
    BY <1>2
  <2>2. next[a] = list[a] /\ list[a] \in 1 .. (k - 1)
    BY <1>1, <1>2, <1>4, <2>1
  <2>3. CASE b = n + 1
    BY <1>4, <2>2, <2>3
  <2>4. CASE b # n + 1
    <3>1. b \in 1 .. n
      BY <1>2, <2>4
    <3>2. list[a] < list[b]
      BY <1>1, <1>2, <3>1 DEF Increasing
    <3>3. QED BY <1>4, <2>2, <3>1, <3>2
  <2>5. QED BY <2>3, <2>4
<1>7. ASSUME NEW j \in 1 .. (n + 1) PROVE next[j] \in 1 .. k
  <2>1. CASE j = n + 1
    BY <1>4, <1>5, <2>1
  <2>2. CASE j # n + 1
    <3>1. j \in 1 .. n
      BY <1>2, <2>2
    <3>2. QED BY <1>1, <1>2, <1>4, <1>5, <3>1
  <2>3. QED BY <2>1, <2>2
<1>8. Increasing(next)
  BY <1>4, <1>6 DEF Increasing
<1>9. InsideSoFar(k + 1, next)
  BY <1>4, <1>5, <1>7, <1>8 DEF InsideSoFar
<1>10. InsideSoFar(k + 1, list)
  BY <1>1, <1>5 DEF InsideSoFar
<1>11. QED BY <1>3, <1>9, <1>10

LEMMA SectionsInsideIs ==
  ASSUME NEW m \in Nat \ {0}, NEW S, IsList(S), Len(S) = m,
         \A n \in 1 .. m : S[n].index = n - 1, S[1].sh.flags = NoFlags, S[1].sh.offset = 0,
         NEW ph, ph.offset \in Nat \ {0}
  PROVE  InsideSoFar(m, SectionsInside(S, ph))
<1>1. DOMAIN S = 1 .. m
  BY ListIs
<1>2. PICK h : Runs(h, "inside", ph, << >>, S, m)
  BY <1>1, FoldSteps
<1>3. /\ h[0] = << >>
      /\ \A k \in 1 .. m : h[k] = IF SectionInSegment(S[k], ph) THEN Append(h[k - 1], S[k].index)
                                  ELSE h[k - 1]
      /\ h[m] = SectionsInside(S, ph)
  BY <1>2, SectionsInsideIsLoop DEF Runs, Body
<1>4. ~SectionInSegment(S[1], ph)
  BY DEF SectionInSegment, is_sect_in_seg, NoFlags
<1> DEFINE P == { k \in 0 .. m : k # 0 => InsideSoFar(k, h[k]) }
<1>5. 0 \in P
  OBVIOUS
<1>6. ASSUME NEW k \in 1 .. m, k - 1 \in P PROVE k \in P
  <2>1. k \in 0 .. m /\ k \in Nat \ {0}
    OBVIOUS
  <2>2. CASE k = 1
    <3>1. h[1] = << >>
      BY <1>3, <1>4, <2>2
    <3>2. InsideSoFar(1, << >>)
      BY EmptyList DEF InsideSoFar, Increasing
    <3>3. QED BY <2>1, <2>2, <3>1, <3>2
  <2>3. CASE k # 1
    <3>1. PICK i \in Nat \ {0} : i = k - 1 /\ i + 1 = k
      BY <2>1, <2>3
    <3>2. InsideSoFar(i, h[i])
      BY <1>6, <3>1
    <3>3. InsideSoFar(k, Append(h[i], i)) /\ InsideSoFar(k, h[i])
      BY <3>1, <3>2, InsideOneMore
    <3>4. h[k] = Append(h[i], i) \/ h[k] = h[i]
      BY <1>3, <3>1
    <3>5. InsideSoFar(k, h[k])
      BY <3>3, <3>4
    <3>6. QED BY <2>1, <3>5
  <2>4. QED BY <2>2, <2>3
<1>7. \A k \in 0 .. m : k \in P
  <2> HIDE DEF P
  <2>1. QED BY <1>5, <1>6, Induction
<1>8. m \in 0 .. m
  OBVIOUS
<1>9. m \in P
  BY <1>7, <1>8
<1>10. QED BY <1>3, <1>9

----------------------------------------

(* A segment as it is loaded. *)
ReloadedSegment(t, seg, S) ==
  /\ DOMAIN t = SegmentFields /\ t.ph = seg.ph /\ t.index = seg.index /\ t.offset_set = TRUE
  /\ t.sections = SectionsInside(S, seg.ph)

(* A stream that has not failed. *)
IsOpen(st, f) == st.cells = f /\ ~st.fail /\ DOMAIN st = {"cells", "fail"}

SegmentRead(l, f, seg, S) ==
  l.st.cells = f /\ DOMAIN l.st = {"cells", "fail"} /\ ReloadedSegment(l.seg, seg, S)

LEMMA SegmentIsLoaded ==
  ASSUME NEW E, NEW e, NEW f, SavedIn(E, e, f), NEW n \in 1 .. Len(E.segments), NEW S,
         NEW st, IsOpen(st, f), NEW l, l = LoadSegment(st, e.hdr, S, n - 1)
  PROVE  SegmentRead(l, f, e.segments[n], S)
<1>1. Saved(E, e) /\ IsList(f)
  BY FileNumbers DEF SavedIn
<1>16. st.cells = f /\ ~st.fail /\ DOMAIN st = {"cells", "fail"}
  BY DEF IsOpen
<1>2. PICK seg : seg = e.segments[n]
  OBVIOUS
<1>3. PICK pos \in Nat : pos = SegmentHeaderAt(e, n) /\ pos = e.hdr.phoff + (n - 1) * e.hdr.phentsize
  <2>1. SegmentHeaderAt(e, n) \in Nat
    BY <1>1, SegmentHeaders
  <2>2. QED BY <2>1 DEF SegmentHeaderAt
<1>4. PICK w \in Nat \ {0} : w = e.hdr.phentsize /\ w = SizeOf[e.hdr.class].Phdr
  BY <1>1, SavedNumbers, SavedCells, SMTT(30)
<1>5. Holds(st.cells, pos, Parts("Phdr", seg.ph, w))
  BY <1>2, <1>3, <1>4, <1>16 DEF SavedIn, SegmentsSaved, SegmentCells
<1>6. ReadHeader(st, "Phdr", pos, w, ZeroPhdr) = seg.ph
  <2>1. IsList(Parts("Phdr", seg.ph, w)) /\ Len(Parts("Phdr", seg.ph, w)) = w
    BY PartsAre
  <2>2. CanRead(st, pos, w)
    BY <1>5, <1>16, <2>1 DEF CanRead, Holds
  <2>3. IsList(st.cells)
    BY <1>1, <1>16
  <2>4. QED BY <1>5, <2>2, <2>3, HeaderIsRead
<1>7. seg.index = n - 1
  <2>1. IsSegment(E.segments[n], n - 1, Len(E.sections)) /\ SameSegment(E.segments[n], seg)
    BY <1>1, <1>2 DEF Saved, Ready, IsObject, LaidOut, SameObject
  <2>2. QED BY <2>1 DEF IsSegment, SameSegment
<1>13. PICK st1 : st1 = [st EXCEPT !.fail = ~CanRead(st, pos, w)]
  OBVIOUS
<1>14. st1.cells = f /\ DOMAIN st1 = {"cells", "fail"}
  BY <1>13, <1>16
<1> DEFINE wanted == DataIsRead(seg.ph, st)
           got == wanted /\ CanRead(st1, seg.ph.offset, seg.ph.filesz)
           data == IF got THEN Slice(st.cells, seg.ph.offset, seg.ph.filesz) ELSE << >>
<1>8. l = [st |-> [st1 EXCEPT !.fail = @ \/ (wanted /\ ~got)],
           seg |-> [NewSegment(n - 1) EXCEPT !.ph = seg.ph, !.offset_set = TRUE, !.data = data,
                      !.sections = SectionsInside(S, seg.ph)]]
  BY <1>3, <1>4, <1>6, <1>13 DEF LoadSegment
<1> HIDE DEF got, wanted, data
<1>15. l.st = [st1 EXCEPT !.fail = @ \/ (wanted /\ ~got)]
  BY <1>8
<1>9. l.st.cells = f /\ DOMAIN l.st = {"cells", "fail"}
  BY <1>14, <1>15
<1>10. l.seg = [NewSegment(n - 1) EXCEPT !.ph = seg.ph, !.offset_set = TRUE, !.data = data,
                  !.sections = SectionsInside(S, seg.ph)]
  BY <1>8
<1>11. ReloadedSegment(l.seg, seg, S)
  BY <1>7, <1>10 DEF NewSegment, ReloadedSegment, SegmentFields
<1>12. QED BY <1>2, <1>9, <1>11 DEF SegmentRead

(* The first k segments are loaded. *)
SegmentsLoaded(e, f, S, k, acc) ==
  /\ DOMAIN acc = {"ok", "st", "segments"}
  /\ acc.ok => /\ acc.st.cells = f /\ ~acc.st.fail /\ DOMAIN acc.st = {"cells", "fail"}
               /\ IsList(acc.segments) /\ Len(acc.segments) = k
               /\ \A n \in 1 .. k : ReloadedSegment(acc.segments[n], e.segments[n], S)

SegmentLoop(st, c, ok) ==
  Fold("load segments", c, [ok |-> ok, st |-> st, segments |-> << >>],
       [n \in 1 .. c.hdr.phnum |-> n - 1])

LEMMA LoadSegmentsIsLoop ==
  ASSUME NEW st, NEW c
  PROVE  LoadSegments(st, c.hdr, c.sections)
           = SegmentLoop(st, c, ~(c.hdr.phnum # 0 /\ c.hdr.phentsize < SizeOf[c.hdr.class].Phdr))
  BY DEF LoadSegments, SegmentLoop, SegmentLoaded, Fold, FoldLeft, MapThenFoldSet, Body

LEMMA SegmentsAreLoaded ==
  ASSUME NEW E, NEW e, NEW f, SavedIn(E, e, f), NEW S, NEW c, c.hdr = e.hdr, c.sections = S,
         NEW ok, ok = TRUE
  PROVE  SegmentsLoaded(e, f, S, Len(E.segments), SegmentLoop(Opened(f), c, ok))
<1>1. PICK N \in Nat : N = Len(E.segments) /\ c.hdr.phnum = N
  <2>1. Len(E.segments) \in Nat /\ e.hdr.phnum = Len(E.segments)
    BY SavedNumbers DEF SavedIn
  <2>2. QED BY <2>1
<1>2. PICK base : base = [ok |-> ok, st |-> Opened(f), segments |-> << >>]
  OBVIOUS
<1>3. PICK s : s = [n \in 1 .. N |-> n - 1] /\ DOMAIN s = 1 .. N /\ \A k \in 1 .. N : s[k] = k - 1
  <2>1. /\ DOMAIN [n \in 1 .. N |-> n - 1] = 1 .. N
        /\ \A k \in 1 .. N : [n \in 1 .. N |-> n - 1][k] = k - 1
    OBVIOUS
  <2>2. QED BY <2>1
<1>4. SegmentLoop(Opened(f), c, ok) = Fold("load segments", c, base, s)
  BY <1>1, <1>2, <1>3 DEF SegmentLoop
<1>5. PICK h : Runs(h, "load segments", c, base, s, N)
  BY <1>3, FoldSteps
<1>6. /\ h[0] = base
      /\ \A k \in 1 .. N : h[k] = SegmentLoaded(c, h[k - 1], k - 1)
      /\ h[N] = SegmentLoop(Opened(f), c, ok)
  BY <1>3, <1>4, <1>5 DEF Runs, Body
<1> DEFINE P == { k \in 0 .. N : SegmentsLoaded(e, f, S, k, h[k]) }
<1>7. 0 \in P
  <2>1. /\ DOMAIN base = {"ok", "st", "segments"} /\ base.st = Opened(f) /\ base.segments = << >>
    BY <1>2
  <2>2. Opened(f).cells = f /\ ~Opened(f).fail /\ DOMAIN Opened(f) = {"cells", "fail"}
    BY DEF Opened
  <2>3. IsList(<< >>) /\ Len(<< >>) = 0
    BY EmptyList
  <2>4. SegmentsLoaded(e, f, S, 0, base)
    BY <2>1, <2>2, <2>3 DEF SegmentsLoaded
  <2>5. QED BY <1>6, <2>4
<1>8. ASSUME NEW k \in 1 .. N, k - 1 \in P PROVE k \in P
  <2>1. PICK a : a = h[k - 1] /\ SegmentsLoaded(e, f, S, k - 1, a)
    BY <1>8
  <2>2. PICK g : g = h[k] /\ g = SegmentLoaded(c, a, k - 1)
    BY <1>6, <2>1
  <2>3. PICK l : l = LoadSegment(a.st, e.hdr, S, k - 1)
    OBVIOUS
  <2>4. g = IF ~a.ok THEN a
            ELSE IF l.st.fail THEN [a EXCEPT !.ok = FALSE, !.st = l.st]
            ELSE [a EXCEPT !.st = l.st, !.segments = Append(@, l.seg)]
    BY <2>2, <2>3 DEF SegmentLoaded
  <2>5. DOMAIN a = {"ok", "st", "segments"}
    BY <2>1 DEF SegmentsLoaded
  <2>6. k \in 0 .. N /\ (k - 1) + 1 = k /\ \A n \in 1 .. k : n = k \/ n \in 1 .. (k - 1)
    BY <1>1
  <2>7. CASE ~a.ok
    <3>1. SegmentsLoaded(e, f, S, k, g)
      BY <2>4, <2>5, <2>7 DEF SegmentsLoaded
    <3>2. QED BY <2>2, <2>6, <3>1
  <2>8. CASE a.ok /\ l.st.fail
    <3>1. g = [a EXCEPT !.ok = FALSE, !.st = l.st]
      BY <2>4, <2>8
    <3>2. ~g.ok /\ DOMAIN g = {"ok", "st", "segments"}
      BY <2>5, <3>1
    <3>3. SegmentsLoaded(e, f, S, k, g)
      BY <3>2 DEF SegmentsLoaded
    <3>4. QED BY <2>2, <2>6, <3>3
  <2>9. CASE a.ok /\ ~l.st.fail
    <3>1. g = [a EXCEPT !.st = l.st, !.segments = Append(@, l.seg)]
      BY <2>4, <2>9
    <3>2. DOMAIN g = {"ok", "st", "segments"} /\ g.st = l.st /\ g.segments = Append(a.segments, l.seg)
      BY <2>5, <3>1
    <3>3. /\ a.st.cells = f /\ ~a.st.fail /\ DOMAIN a.st = {"cells", "fail"}
          /\ IsList(a.segments) /\ Len(a.segments) = k - 1
          /\ \A n \in 1 .. (k - 1) : ReloadedSegment(a.segments[n], e.segments[n], S)
      BY <2>1, <2>9 DEF SegmentsLoaded
    <3>4. l.st.cells = f /\ DOMAIN l.st = {"cells", "fail"} /\ ReloadedSegment(l.seg, e.segments[k], S)
      <4>1. k \in 1 .. Len(E.segments)
        BY <1>1
      <4>2. PICK st : st = a.st /\ IsOpen(st, f)
        BY <3>3 DEF IsOpen
      <4>3. l = LoadSegment(st, e.hdr, S, k - 1)
        BY <2>3, <4>2
      <4>4. SegmentRead(l, f, e.segments[k], S)
        BY <4>1, <4>2, <4>3, SegmentIsLoaded
      <4>5. QED BY <4>4 DEF SegmentRead
    <3>5. /\ IsList(g.segments) /\ Len(g.segments) = (k - 1) + 1 /\ g.segments[(k - 1) + 1] = l.seg
          /\ \A n \in 1 .. (k - 1) : g.segments[n] = a.segments[n]
      BY <3>2, <3>3, ListGrows
    <3>6. SegmentsLoaded(e, f, S, k, g)
      BY <2>6, <2>9, <3>2, <3>3, <3>4, <3>5 DEF SegmentsLoaded
    <3>7. QED BY <2>2, <2>6, <3>6
  <2>10. QED BY <2>7, <2>8, <2>9
<1>9. \A k \in 0 .. N : k \in P
  <2> HIDE DEF P
  <2>1. QED BY <1>7, <1>8, Induction
<1>10. N \in 0 .. N
  BY <1>1
<1>11. N \in P
  BY <1>9, <1>10
<1>12. QED BY <1>1, <1>6, <1>11

----------------------------------------
(* Loading the file of an object *)

(* The object r is read from the file of e. *)
LoadedFrom(e, r) ==
  /\ DOMAIN r = ElfFields /\ r.hdr = e.hdr /\ LoadedSections(e, r.sections)
  /\ IsList(r.segments) /\ Len(r.segments) = Len(e.segments)
  /\ \A n \in 1 .. Len(e.segments) : ReloadedSegment(r.segments[n], e.segments[n], r.sections)

LEMMA LoadIs ==
  ASSUME NEW E, NEW e, NEW f, SavedIn(E, e, f), NamesKept(E), Load(f).ok
  PROVE  LoadedFrom(e, Load(f).elf)
<1>1. HeaderLoads(f) /\ f[1].rec = e.hdr
  BY FileNumbers, HeaderIsLoaded DEF SavedIn
<1>2. PICK sec : sec = LoadSections(Opened(f), e.hdr)
  OBVIOUS
<1>3. sec.st = Opened(f) /\ LoadedSections(e, sec.sections)
  BY <1>2, LoadSectionsIs
<1>4. PICK c : c.hdr = e.hdr /\ c.sections = sec.sections
  <2>1. [hdr |-> e.hdr, sections |-> sec.sections].hdr = e.hdr
    OBVIOUS
  <2>2. [hdr |-> e.hdr, sections |-> sec.sections].sections = sec.sections
    OBVIOUS
  <2>3. QED BY <2>1, <2>2
<1>5. PICK ok : ok = ~(c.hdr.phnum # 0 /\ c.hdr.phentsize < SizeOf[c.hdr.class].Phdr)
  OBVIOUS
<1>6. ok = TRUE
  <2>1. SizeOf[e.hdr.class].Phdr = e.hdr.phentsize /\ e.hdr.phentsize \in Nat
    BY SavedCells, SavedNumbers DEF SavedIn
  <2>2. ~(c.hdr.phentsize < SizeOf[c.hdr.class].Phdr)
    BY <1>4, <2>1
  <2>3. QED BY <1>5, <2>2
<1>7. PICK seg : seg = LoadSegments(Opened(f), c.hdr, c.sections) /\ seg = SegmentLoop(Opened(f), c, ok)
  BY <1>5, LoadSegmentsIsLoop
<1>8. SegmentsLoaded(e, f, sec.sections, Len(E.segments), seg)
  BY <1>4, <1>6, <1>7, SegmentsAreLoaded
<1>9. /\ Load(f).ok = seg.ok
      /\ Load(f).elf = [hdr |-> e.hdr, sections |-> sec.sections, segments |-> seg.segments, pos |-> 0]
  BY <1>1, <1>2, <1>3, <1>4, <1>7 DEF Load, Opened
<1>10. Len(e.segments) = Len(E.segments)
  BY DEF SavedIn, Saved, LaidOut, SameObject
<1>11. IsList(seg.segments) /\ Len(seg.segments) = Len(e.segments)
       /\ \A n \in 1 .. Len(e.segments) : ReloadedSegment(seg.segments[n], e.segments[n], sec.sections)
  BY <1>8, <1>9, <1>10 DEF SegmentsLoaded
<1>12. PICK r : r = Load(f).elf
  OBVIOUS
<1>13. DOMAIN r = ElfFields /\ r.hdr = e.hdr /\ r.sections = sec.sections /\ r.segments = seg.segments
  BY <1>9, <1>12 DEF ElfFields
<1>14. QED BY <1>3, <1>11, <1>12, <1>13 DEF LoadedFrom

(* What is read is an object that can be edited and saved again. *)
LEMMA LoadedIsObject ==
  ASSUME NEW E, NEW e, Saved(E, e), NEW r, LoadedFrom(e, r)
  PROVE  IsObject(r)
<1>1. PICK m \in Nat : m = Len(E.sections) /\ m >= 2
  BY SavedNumbers
<1>2. /\ Len(e.sections) = m /\ Len(r.sections) = m /\ IsList(r.sections)
      /\ \A n \in 1 .. m : SameSection(E.sections[n], e.sections[n])
      /\ \A n \in 1 .. m : IsSection(E.sections[n], n - 1)
      /\ \A n \in 1 .. m : LoadedAs(r.sections[n], e.sections[n], e.sections[n].name)
  BY <1>1 DEF Saved, Ready, IsObject, LaidOut, SameObject, LoadedFrom, LoadedSections
<1>3. 1 \in 1 .. m
  BY <1>1
<1>4. e.sections[1].sh.offset = E.sections[1].sh.offset
  <2>1. Off(e, 0) = Off(E, 0) /\ 0 + 1 = 1
    BY DEF Saved, LaidOut
  <2>2. QED BY <2>1 DEF Off
<1>5. ASSUME NEW n \in 1 .. m PROVE IsSection(r.sections[n], n - 1)
  <2>1. PICK s, t, u : s = E.sections[n] /\ t = e.sections[n] /\ u = r.sections[n]
    OBVIOUS
  <2>2. SameSection(s, t) /\ IsSection(s, n - 1) /\ LoadedAs(u, t, t.name)
    BY <1>2, <2>1
  <2>3. s.sh.type = "NULL" => n = 1
    BY <1>1, <2>2 DEF IsSection
  <2>4. s.sh.type = "NULL" => t.sh.offset = 0
    BY <1>4, <2>1, <2>2, <2>3 DEF IsSection
  <2>5. IsSection(t, n - 1)
    BY <2>2, <2>4 DEF IsSection, SameSection
  <2>6. IsSection(u, n - 1)
    BY <2>2, <2>5 DEF IsSection, LoadedAs
  <2>7. QED BY <2>1, <2>6
<1>6. \A n \in 1 .. m : r.sections[n].index = n - 1
  BY <1>5 DEF IsSection
<1>7. r.sections[1].sh.flags = NoFlags /\ r.sections[1].sh.offset = 0
  <2>1. IsSection(r.sections[1], 1 - 1) /\ 1 - 1 = 0
    BY <1>3, <1>5
  <2>2. QED BY <2>1 DEF IsSection
<1>8. PICK N \in Nat : N = Len(E.segments) /\ N = Len(e.segments) /\ N = Len(r.segments)
  BY SavedNumbers DEF Saved, LaidOut, SameObject, LoadedFrom
<1>9. ASSUME NEW n \in 1 .. N PROVE IsSegment(r.segments[n], n - 1, m)
  <2>1. PICK s, t, u : s = E.segments[n] /\ t = e.segments[n] /\ u = r.segments[n]
    OBVIOUS
  <2>2. SameSegment(s, t) /\ IsSegment(s, n - 1, m) /\ ReloadedSegment(u, t, r.sections)
    BY <1>1, <1>8, <2>1 DEF Saved, Ready, IsObject, LaidOut, SameObject, LoadedFrom
  <2>3. t.ph.offset \in Nat \ {0}
    BY <1>8, <2>1 DEF Saved, LaidOut
  <2>4. m \in Nat \ {0}
    BY <1>1
  <2>5. PICK ph : ph = t.ph /\ ph.offset \in Nat \ {0}
    BY <2>3
  <2>6. InsideSoFar(m, SectionsInside(r.sections, ph))
    BY <1>2, <1>6, <1>7, <2>4, <2>5, SectionsInsideIs
  <2>7. /\ IsList(u.sections) /\ Increasing(u.sections)
        /\ \A k \in 1 .. Len(u.sections) : u.sections[k] \in 1 .. (m - 1)
    BY <2>2, <2>5, <2>6 DEF InsideSoFar, ReloadedSegment
  <2>8. /\ DOMAIN u = SegmentFields /\ DOMAIN u.ph = PhdrFields /\ u.index = n - 1
        /\ u.offset_set \in BOOLEAN /\ u.ph.vaddr \in Addresses /\ u.ph.align \in Nat
        /\ u.ph.offset \in Nat \ {0}
    BY <2>2, <2>3 DEF ReloadedSegment, SameSegment, IsSegment
  <2>9. IsSegment(u, n - 1, m)
    BY <2>7, <2>8 DEF IsSegment
  <2>10. QED BY <2>1, <2>9
<1>10. IsHeader(r.hdr)
  <2>1. PICK h, g : h = E.hdr /\ g = e.hdr /\ g = r.hdr
    BY DEF LoadedFrom
  <2>2. IsHeader(h) /\ SavedHeader(h, g)
    BY <2>1 DEF Saved, Ready, IsObject, LaidOut
  <2>3. IsHeader(g)
    BY <2>2 DEF IsHeader, SavedHeader
  <2>4. QED BY <2>1, <2>3
<1>11. DOMAIN r = ElfFields /\ IsList(r.segments)
  BY DEF LoadedFrom
<1>12. QED BY <1>1, <1>2, <1>5, <1>8, <1>9, <1>10, <1>11 DEF IsObject

----------------------------------------
(* Loading a file that was cut short *)

StreamAfter(st, hdr, i, s) ==
  /\ DOMAIN s = {"cells", "fail"} /\ s.cells = st.cells
  /\ ~CanRead(st, hdr.shoff + i * hdr.shentsize, SizeOf[hdr.class].Shdr) => s.fail

LEMMA SectionStream ==
  ASSUME NEW st, DOMAIN st = {"cells", "fail"}, NEW hdr, NEW i, NEW s, s = LoadSection(st, hdr, i).st
  PROVE  StreamAfter(st, hdr, i, s)
<1> DEFINE pos == hdr.shoff + i * hdr.shentsize
           n == SizeOf[hdr.class].Shdr
           sh == ReadHeader(st, "Shdr", pos, n, ZeroShdr)
           wanted == sh.type \notin {"NULL", "NOBITS"} /\ sh.size # 0 /\ sh.size < StreamSize(st)
<1>1. PICK st1 : st1 = [st EXCEPT !.fail = ~CanRead(st, pos, n)]
  OBVIOUS
<1> DEFINE got == wanted /\ CanRead(st1, sh.offset, sh.size)
<1>2. s = [st1 EXCEPT !.fail = @ \/ (wanted /\ ~got)]
  BY <1>1 DEF LoadSection
<1> HIDE DEF wanted, got, pos, n
<1>3. DOMAIN st1 = {"cells", "fail"} /\ st1.cells = st.cells /\ (~CanRead(st, pos, n) => st1.fail)
  BY <1>1
<1>4. DOMAIN s = {"cells", "fail"} /\ s.cells = st.cells
  BY <1>2, <1>3
<1>5. ~CanRead(st, pos, n) => s.fail
  BY <1>2, <1>3
<1>6. QED BY <1>4, <1>5 DEF pos, n, StreamAfter

LEMMA SegmentStream ==
  ASSUME NEW st, DOMAIN st = {"cells", "fail"}, st.fail, NEW hdr, NEW S, NEW i,
         NEW s, s = LoadSegment(st, hdr, S, i).st
  PROVE  s.fail
<1> DEFINE pos == hdr.phoff + i * hdr.phentsize
           n == SizeOf[hdr.class].Phdr
           ph == ReadHeader(st, "Phdr", pos, n, ZeroPhdr)
           wanted == DataIsRead(ph, st)
<1>1. PICK st1 : st1 = [st EXCEPT !.fail = ~CanRead(st, pos, n)]
  OBVIOUS
<1> DEFINE got == wanted /\ CanRead(st1, ph.offset, ph.filesz)
<1>2. s = [st1 EXCEPT !.fail = @ \/ (wanted /\ ~got)]
  BY <1>1 DEF LoadSegment
<1> HIDE DEF wanted, got, pos, n
<1>3. DOMAIN st1 = {"cells", "fail"} /\ st1.fail
  BY <1>1 DEF CanRead
<1>4. QED BY <1>2, <1>3


(* The stream of a file in which the last section header is missing has failed when *)
(* the sections have been read.                                                     *)
StreamOf(acc, g) == DOMAIN acc.st = {"cells", "fail"} /\ acc.st.cells = g /\ DOMAIN acc = {"st", "sections"}

LEMMA CutSectionsFail ==
  ASSUME NEW g, NEW hdr, NEW m \in Nat \ {0}, hdr.shnum = m,
         ~(hdr.shoff + (m - 1) * hdr.shentsize + SizeOf[hdr.class].Shdr <= Len(g)),
         ~(hdr.shentsize < SizeOf[hdr.class].Shdr),
         NEW st, st = LoadSections(Opened(g), hdr).st
  PROVE  DOMAIN st = {"cells", "fail"} /\ st.fail
<1>1. PICK all : all = SectionLoop(Opened(g), hdr)
  OBVIOUS
<1>2. LoadSections(Opened(g), hdr) = [all EXCEPT !.sections = Named(hdr, all.sections)]
  BY <1>1, LoadSectionsIsLoop
<1>3. PICK base : base = [st |-> Opened(g), sections |-> << >>]
  OBVIOUS
<1>4. PICK s : s = [n \in 1 .. m |-> n - 1] /\ DOMAIN s = 1 .. m /\ \A k \in 1 .. m : s[k] = k - 1
  <2>1. /\ DOMAIN [n \in 1 .. m |-> n - 1] = 1 .. m
        /\ \A k \in 1 .. m : [n \in 1 .. m |-> n - 1][k] = k - 1
    OBVIOUS
  <2>2. QED BY <2>1
<1>5. all = Fold("load sections", hdr, base, s)
  BY <1>1, <1>3, <1>4 DEF SectionLoop
<1>6. PICK h : Runs(h, "load sections", hdr, base, s, m)
  BY <1>4, FoldSteps
<1>7. /\ h[0] = base
      /\ \A k \in 1 .. m : h[k] = SectionLoaded(hdr, h[k - 1], k - 1)
      /\ h[m] = all
  BY <1>4, <1>5, <1>6 DEF Runs, Body
<1> DEFINE P == { k \in 0 .. m : StreamOf(h[k], g) }
<1>8. 0 \in P
  <2>1. Opened(g).cells = g /\ DOMAIN Opened(g) = {"cells", "fail"}
    BY DEF Opened
  <2>2. base.st = Opened(g) /\ DOMAIN base = {"st", "sections"}
    BY <1>3
  <2>3. StreamOf(base, g)
    BY <2>1, <2>2 DEF StreamOf
  <2>4. QED BY <1>7, <2>3
<1>9. ASSUME NEW k \in 1 .. m, k - 1 \in P
      PROVE  /\ k \in P
             /\ k = m => h[k].st.fail
  <2>1. PICK a : a = h[k - 1] /\ StreamOf(a, g)
    BY <1>9
  <2>2. PICK b : b = h[k] /\ b = SectionLoaded(hdr, a, k - 1)
    BY <1>7, <2>1
  <2>3. PICK l : l = LoadSection(a.st, hdr, k - 1)
    OBVIOUS
  <2>4. b.st = l.st /\ DOMAIN b = {"st", "sections"}
    BY <2>2, <2>3 DEF SectionLoaded
  <2>5. PICK x : x = a.st /\ DOMAIN x = {"cells", "fail"} /\ x.cells = g
    BY <2>1 DEF StreamOf
  <2>6. PICK y : y = l.st /\ y = LoadSection(x, hdr, k - 1).st
    BY <2>3, <2>5
  <2>7. /\ DOMAIN y = {"cells", "fail"} /\ y.cells = x.cells
        /\ ~CanRead(x, hdr.shoff + (k - 1) * hdr.shentsize, SizeOf[hdr.class].Shdr) => y.fail
    <3>1. StreamAfter(x, hdr, k - 1, y)
      BY <2>5, <2>6, SectionStream
    <3>2. QED BY <3>1 DEF StreamAfter
  <2>8. StreamOf(b, g)
    BY <2>4, <2>5, <2>6, <2>7 DEF StreamOf
  <2>9. k = m => ~CanRead(x, hdr.shoff + (k - 1) * hdr.shentsize, SizeOf[hdr.class].Shdr)
    BY <2>5 DEF CanRead
  <2>10. k \in 0 .. m
    OBVIOUS
  <2>11. QED BY <2>2, <2>4, <2>6, <2>7, <2>8, <2>9, <2>10
<1>10. \A k \in 1 .. m : k - 1 \in P => k \in P
  BY <1>9
<1>11. \A k \in 0 .. m : k \in P
  <2> HIDE DEF P
  <2>1. QED BY <1>8, <1>10, Induction
<1>12. m \in 1 .. m /\ m - 1 \in 0 .. m /\ m \in 0 .. m
  OBVIOUS
<1>13. all.st.fail /\ StreamOf(all, g)
  <2>1. m - 1 \in P /\ m \in P
    BY <1>11, <1>12
  <2>2. QED BY <1>7, <1>9, <1>12, <2>1
<1>14. st = all.st
  BY <1>2, <1>13 DEF StreamOf
<1>15. QED BY <1>13, <1>14 DEF StreamOf

LEMMA CutSegmentsFail ==
  ASSUME NEW st, DOMAIN st = {"cells", "fail"}, st.fail, NEW c, NEW N \in Nat, c.hdr.phnum = N,
         NEW ok, NEW seg, seg = SegmentLoop(st, c, ok)
  PROVE  IF N = 0 THEN seg.segments = << >> ELSE ~seg.ok
<1>1. PICK base : base = [ok |-> ok, st |-> st, segments |-> << >>]
  OBVIOUS
<1>2. PICK s : s = [n \in 1 .. N |-> n - 1] /\ DOMAIN s = 1 .. N /\ \A k \in 1 .. N : s[k] = k - 1
  <2>1. /\ DOMAIN [n \in 1 .. N |-> n - 1] = 1 .. N
        /\ \A k \in 1 .. N : [n \in 1 .. N |-> n - 1][k] = k - 1
    OBVIOUS
  <2>2. QED BY <2>1
<1>3. seg = Fold("load segments", c, base, s)
  BY <1>1, <1>2 DEF SegmentLoop
<1>4. PICK h : Runs(h, "load segments", c, base, s, N)
  BY <1>2, FoldSteps
<1>5. /\ h[0] = base
      /\ \A k \in 1 .. N : h[k] = SegmentLoaded(c, h[k - 1], k - 1)
      /\ h[N] = seg
  BY <1>2, <1>3, <1>4 DEF Runs, Body
<1>6. CASE N = 0
  BY <1>1, <1>5, <1>6
<1>7. CASE N # 0
  <2> DEFINE P == { k \in 0 .. N : k # 0 => ~h[k].ok }
  <2>1. 0 \in P
    OBVIOUS
  <2>2. ASSUME NEW k \in 1 .. N, k - 1 \in P PROVE k \in P
    <3>1. k \in 0 .. N
      OBVIOUS
    <3>2. PICK a, b, l : /\ a = h[k - 1] /\ b = h[k] /\ l = LoadSegment(a.st, c.hdr, c.sections, k - 1)
      BY Zenon
    <3>3. b = IF ~a.ok THEN a
              ELSE IF l.st.fail THEN [a EXCEPT !.ok = FALSE, !.st = l.st]
              ELSE [a EXCEPT !.st = l.st, !.segments = Append(@, l.seg)]
      BY <1>5, <3>2, Zenon DEF SegmentLoaded
    <3>4. CASE ~a.ok
      BY <3>1, <3>2, <3>3, <3>4
    <3>5. CASE a.ok
      <4>1. k = 1
        BY <2>2, <3>2, <3>5
      <4>2. a = base
        BY <1>5, <3>2, <4>1
      <4>3. a.st = st /\ DOMAIN a = {"ok", "st", "segments"}
        BY <1>1, <4>2
      <4>4. PICK y : y = l.st /\ y = LoadSegment(st, c.hdr, c.sections, k - 1).st
        BY <3>2, <4>3
      <4>5. y.fail
        BY <4>4, SegmentStream
      <4>6. b = [a EXCEPT !.ok = FALSE, !.st = l.st]
        BY <3>3, <3>5, <4>4, <4>5
      <4>7. ~b.ok
        BY <4>3, <4>6
      <4>8. QED BY <3>1, <3>2, <4>7
    <3>6. QED BY <3>4, <3>5
  <2>3. \A k \in 0 .. N : k \in P
    <3> HIDE DEF P
    <3>1. QED BY <2>1, <2>2, Induction
  <2>4. N \in 0 .. N
    OBVIOUS
  <2>5. QED BY <1>5, <1>7, <2>3, <2>4
<1>8. QED BY <1>6, <1>7

(* A file that lost its end is accepted only if it has no segments. *)
LEMMA CutIsRefused ==
  ASSUME NEW E, NEW e, NEW f, SavedIn(E, e, f), NEW n \in Nat, n < Len(f),
         NEW g, g = SubSeq(f, 1, n), Load(g).ok
  PROVE  Load(g).elf.segments = << >>
<1>1. IsList(f) /\ Len(f) \in Nat /\ Len(f) = SectionHeaderAt(e, Len(E.sections)) + e.hdr.shentsize
  BY FileNumbers
<1>2. IsList(g) /\ Len(g) = n /\ \A k \in 1 .. n : g[k] = f[k]
  <2>1. 0 + n <= Len(f) /\ 0 \in Nat
    BY <1>1
  <2>2. /\ IsList(SubSeq(f, 0 + 1, 0 + n)) /\ Len(SubSeq(f, 0 + 1, 0 + n)) = n
        /\ \A k \in 1 .. n : SubSeq(f, 0 + 1, 0 + n)[k] = f[0 + k]
    BY <1>1, <2>1, PartIs
  <2>3. 0 + 1 = 1 /\ 0 + n = n /\ \A k \in 1 .. n : 0 + k = k
    OBVIOUS
  <2>4. QED BY <2>2, <2>3
<1>3. HeaderLoads(g)
  BY DEF Load
<1>4. g[1] = f[1]
  <2>1. n # 0
    BY <1>2, <1>3, ListEmpty DEF HeaderLoads
  <2>2. 1 \in 1 .. n
    BY <2>1
  <2>3. QED BY <1>2, <2>2
<1>5. PICK hdr : hdr = e.hdr /\ g[1].rec = hdr
  BY <1>4, FileNumbers, HeaderIsLoaded DEF SavedIn
<1>6. PICK m \in Nat \ {0} : m = Len(E.sections) /\ hdr.shnum = m
  <2>1. Len(E.sections) \in Nat /\ Len(E.sections) >= 2
    BY SavedNumbers DEF SavedIn
  <2>2. e.hdr.shnum = Len(E.sections)
    BY DEF SavedIn, Saved, LaidOut, SavedHeader
  <2>3. QED BY <1>5, <2>1, <2>2
<1>7. PICK w \in Nat : w = hdr.shentsize /\ w = SizeOf[hdr.class].Shdr
  BY <1>5, SavedCells, SavedNumbers DEF SavedIn
<1>8. ~(hdr.shoff + (m - 1) * hdr.shentsize + SizeOf[hdr.class].Shdr <= Len(g))
  <2>1. PICK x : x = hdr.shoff + (m - 1) * hdr.shentsize /\ x = SectionHeaderAt(e, m)
    BY <1>5 DEF SectionHeaderAt
  <2>2. x \in Nat
    BY <1>6, <2>1, SectionHeaders DEF SavedIn
  <2>3. Len(f) = x + w /\ Len(g) < x + w
    BY <1>1, <1>2, <1>5, <1>6, <1>7, <2>1
  <2>4. QED BY <1>2, <1>7, <2>1, <2>2, <2>3, SMTT(30)
<1>9. ~(hdr.shentsize < SizeOf[hdr.class].Shdr)
  BY <1>7
<1>10. PICK sec : sec = LoadSections(Opened(g), hdr)
  OBVIOUS
<1>11. PICK st : st = sec.st /\ DOMAIN st = {"cells", "fail"} /\ st.fail
  <2>1. PICK st : st = LoadSections(Opened(g), hdr).st
    OBVIOUS
  <2>2. DOMAIN st = {"cells", "fail"} /\ st.fail
    BY <1>6, <1>8, <1>9, <2>1, CutSectionsFail
  <2>3. QED BY <1>10, <2>1, <2>2
<1>12. PICK c : c.hdr = hdr /\ c.sections = sec.sections
  <2>1. [hdr |-> hdr, sections |-> sec.sections].hdr = hdr
    OBVIOUS
  <2>2. [hdr |-> hdr, sections |-> sec.sections].sections = sec.sections
    OBVIOUS
  <2>3. QED BY <2>1, <2>2
<1>13. PICK ok : ok = ~(c.hdr.phnum # 0 /\ c.hdr.phentsize < SizeOf[c.hdr.class].Phdr)
  OBVIOUS
<1>14. PICK seg : seg = LoadSegments(st, c.hdr, c.sections) /\ seg = SegmentLoop(st, c, ok)
  BY <1>13, LoadSegmentsIsLoop
<1>15. /\ Load(g).ok = seg.ok
       /\ Load(g).elf = [hdr |-> hdr, sections |-> sec.sections, segments |-> seg.segments, pos |-> 0]
  BY <1>3, <1>5, <1>10, <1>11, <1>12, <1>14 DEF Load, Opened
<1>16. PICK N \in Nat : N = Len(E.segments) /\ c.hdr.phnum = N
  <2>1. Len(E.segments) \in Nat /\ e.hdr.phnum = Len(E.segments)
    BY SavedNumbers DEF SavedIn
  <2>2. QED BY <1>5, <1>12, <2>1
<1>17. IF N = 0 THEN seg.segments = << >> ELSE ~seg.ok
  BY <1>11, <1>14, <1>16, CutSegmentsFail, ZenonT(40)
<1>18. seg.segments = << >>
  BY <1>15, <1>17
<1>19. QED BY <1>15, <1>18

----------------------------------------
(* Objects that a program edits *)

TableName(t) == << Byte(NameOf[t]) >>

(* The sections named as tables are behind the null section and the section names, and *)
(* they have bytes; the entries of the relocations have their size.                    *)
SoundSection(class, sec, i) ==
  /\ IsSection(sec, i) /\ sec.sh.name \in Nat /\ sec.sh.entsize \in Nat /\ sec.name # NoString
  /\ \A t \in Tables : sec.name = TableName(t) =>
       /\ i >= 2 /\ sec.sh.type # "NOBITS"
       /\ t = "rel" => /\ sec.sh.type \in {"REL", "RELA"}
                       /\ sec.sh.entsize = SizeOf[class][RelocStruct(sec)]

Sound(e) ==
  /\ IsObject(e) /\ NamesKept(e) /\ e.sections[2].sh.type # "NOBITS"
  /\ \A n \in 1 .. Len(e.sections) : SoundSection(e.hdr.class, e.sections[n], n - 1)

HasNamed(e, t) == \E n \in 1 .. Len(e.sections) : e.sections[n].name = TableName(t)
Together(e) ==
  /\ HasNamed(e, "symtab") => HasNamed(e, "strtab") /\ HasNamed(e, "rel")
  /\ HasNamed(e, "dynamic") => HasNamed(e, "strtab")
  /\ HasNamed(e, "verneed") => HasNamed(e, "dynamic")

Good(e) == Sound(e) /\ Together(e)

(* The section t is s with other bytes. *)
Edited(s, t) ==
  /\ DOMAIN t = SectionFields /\ DOMAIN t.sh = ShdrFields
  /\ t.index = s.index /\ t.name = s.name /\ t.addrset = s.addrset
  /\ t.sh.name = s.sh.name /\ t.sh.type = s.sh.type /\ t.sh.flags = s.sh.flags
  /\ t.sh.addr = s.sh.addr /\ t.sh.offset = s.sh.offset /\ t.sh.align = s.sh.align
  /\ t.sh.entsize = s.sh.entsize
  /\ IsList(t.data) /\ t.sh.size \in Nat
  /\ IF t.sh.type = "NOBITS" THEN t.data = << >> ELSE Len(t.data) = t.sh.size

(* The object d is e with other bytes in its sections, except for the names. *)
EditedObject(e, d) ==
  /\ DOMAIN d = ElfFields /\ d.hdr = e.hdr /\ d.segments = e.segments
  /\ IsList(d.sections) /\ Len(d.sections) = Len(e.sections)
  /\ \A n \in 1 .. Len(e.sections) : Edited(e.sections[n], d.sections[n])
  /\ d.sections[1] = e.sections[1] /\ d.sections[2] = e.sections[2]

LEMMA EditedSelf ==
  ASSUME NEW s, NEW i, IsSection(s, i)
  PROVE  Edited(s, s)
  BY DEF IsSection, Edited

LEMMA EditedIsSound ==
  ASSUME NEW class, NEW s, NEW i \in Nat, SoundSection(class, s, i), i # 0, NEW t, Edited(s, t)
  PROVE  SoundSection(class, t, i)
<1>1. IsSection(s, i) /\ IsSection(t, i)
  BY DEF SoundSection, IsSection, Edited
<1>2. RelocStruct(t) = RelocStruct(s)
  BY DEF Edited, RelocStruct
<1>3. QED BY <1>1, <1>2 DEF SoundSection, Edited

LEMMA EditedIsGood ==
  ASSUME NEW e, Good(e), NEW d, EditedObject(e, d)
  PROVE  Good(d)
<1>1. PICK m \in Nat : m = Len(e.sections) /\ m = Len(d.sections) /\ m >= 2
  BY ListIs DEF Good, Sound, IsObject, EditedObject
<1>2. \A n \in 1 .. m : SoundSection(e.hdr.class, e.sections[n], n - 1)
  BY <1>1 DEF Good, Sound
<1>3. \A n \in 1 .. m : Edited(e.sections[n], d.sections[n])
  BY <1>1 DEF EditedObject
<1>4. d.hdr = e.hdr /\ d.sections[1] = e.sections[1] /\ d.sections[2] = e.sections[2]
  BY DEF EditedObject
<1>5. ASSUME NEW n \in 1 .. m PROVE SoundSection(d.hdr.class, d.sections[n], n - 1)
  <2>1. CASE n = 1
    BY <1>2, <1>4, <2>1
  <2>2. CASE n # 1
    <3>1. n - 1 \in Nat /\ n - 1 # 0
      BY <1>1, <2>2
    <3>2. QED BY <1>2, <1>3, <1>4, <3>1, EditedIsSound
  <2>3. QED BY <2>1, <2>2
<1>6. \A n \in 1 .. m : IsSection(d.sections[n], n - 1)
  BY <1>5 DEF SoundSection
<1>7. IsObject(d)
  BY <1>1, <1>6 DEF Good, Sound, IsObject, EditedObject
<1>8. \A n \in 1 .. m : d.sections[n].sh.name = e.sections[n].sh.name /\ d.sections[n].name = e.sections[n].name
  BY <1>3 DEF Edited
<1>9. NamesKept(d)
  BY <1>1, <1>4, <1>8 DEF Good, Sound, NamesKept
<1>10. d.sections[2].sh.type # "NOBITS"
  BY <1>4 DEF Good, Sound
<1>11. \A t : HasNamed(d, t) <=> HasNamed(e, t)
  BY <1>1, <1>8 DEF HasNamed
<1>12. Together(d)
  BY <1>11 DEF Good, Together
<1>13. QED BY <1>1, <1>5, <1>7, <1>9, <1>10, <1>12 DEF Good, Sound

LEMMA EditedObjectSelf ==
  ASSUME NEW e, Good(e)
  PROVE  EditedObject(e, e)
<1>1. \A n \in 1 .. Len(e.sections) : Edited(e.sections[n], e.sections[n])
  BY EditedSelf DEF Good, Sound, IsObject
<1>2. QED BY <1>1 DEF Good, Sound, IsObject, EditedObject

(* Section i of e, which is behind the names, with other bytes. *)
Edit(e, t) ==
  /\ t.index \in Nat /\ t.index >= 2 /\ t.index + 1 \in 1 .. Len(e.sections)
  /\ Edited(e.sections[t.index + 1], t)

LEMMA EditOneMore ==
  ASSUME NEW e, Good(e), NEW d, EditedObject(e, d), NEW t, Edit(e, t)
  PROVE  EditedObject(e, SetSection(d, t))
<1>1. PICK i \in Nat : i = t.index /\ i >= 2 /\ i + 1 \in 1 .. Len(e.sections)
  BY DEF Edit
<1>2. /\ DOMAIN d = ElfFields /\ d.hdr = e.hdr /\ d.segments = e.segments
      /\ IsList(d.sections) /\ Len(d.sections) = Len(e.sections)
      /\ \A n \in 1 .. Len(e.sections) : Edited(e.sections[n], d.sections[n])
      /\ d.sections[1] = e.sections[1] /\ d.sections[2] = e.sections[2]
  BY DEF EditedObject
<1>3. PICK x : x = SetSection(d, t)
  OBVIOUS
<1>4. /\ DOMAIN x = ElfFields /\ x.hdr = d.hdr /\ x.segments = d.segments
      /\ IsList(x.sections) /\ Len(x.sections) = Len(d.sections) /\ x.sections[i + 1] = t
      /\ \A n \in 1 .. Len(d.sections) : n # i + 1 => x.sections[n] = d.sections[n]
  <2>1. /\ DOMAIN d = ElfFields /\ IsList(d.sections) /\ i + 1 \in 1 .. Len(d.sections) /\ t.index = i
    BY <1>1, <1>2, Zenon
  <2>2. WithSection(d, i, t, SetSection(d, t))
    BY <2>1, SetSectionIs
  <2>3. QED BY <1>3, <2>2, Zenon DEF WithSection
<1>5. PICK m \in Nat : m = Len(e.sections) /\ m >= 2
  BY ListIs DEF Good, Sound, IsObject
<1>6. 1 \in 1 .. m /\ 2 \in 1 .. m /\ 1 # i + 1 /\ 2 # i + 1
  BY <1>1, <1>5
<1>7. \A n \in 1 .. m : Edited(e.sections[n], x.sections[n])
  BY <1>1, <1>2, <1>4, <1>5 DEF Edit
<1>8. QED BY <1>2, <1>3, <1>4, <1>5, <1>6, <1>7 DEF EditedObject

(* All of the changed sections are set. *)
LEMMA EditsAreGood ==
  ASSUME NEW e, Good(e), NEW changed, IsList(changed), \A k \in 1 .. Len(changed) : Edit(e, changed[k])
  PROVE  Good(FoldLeft(SetSection, e, changed))
<1>1. PICK N \in Nat : N = Len(changed) /\ DOMAIN changed = 1 .. N
  BY ListIs
<1>2. FoldLeft(SetSection, e, changed) = Fold("changed", 0, e, changed)
  BY DEF Fold, FoldLeft, MapThenFoldSet, Body
<1>3. PICK h : Runs(h, "changed", 0, e, changed, N)
  BY <1>1, FoldSteps
<1>4. /\ h[0] = e /\ \A k \in 1 .. N : h[k] = SetSection(h[k - 1], changed[k])
      /\ h[N] = FoldLeft(SetSection, e, changed)
  BY <1>2, <1>3 DEF Runs, Body
<1> DEFINE P == { k \in 0 .. N : EditedObject(e, h[k]) }
<1>5. 0 \in P
  BY <1>4, EditedObjectSelf
<1>6. ASSUME NEW k \in 1 .. N, k - 1 \in P PROVE k \in P
  <2>1. PICK d : d = h[k - 1] /\ EditedObject(e, d)
    BY <1>6
  <2>2. Edit(e, changed[k])
    BY <1>1
  <2>3. EditedObject(e, SetSection(d, changed[k]))
    BY <2>1, <2>2, EditOneMore
  <2>4. k \in 0 .. N
    OBVIOUS
  <2>5. QED BY <1>4, <2>1, <2>3, <2>4
<1>7. \A k \in 0 .. N : k \in P
  <2> HIDE DEF P
  <2>1. QED BY <1>5, <1>6, Induction
<1>8. N \in 0 .. N
  OBVIOUS
<1>9. EditedObject(e, h[N])
  BY <1>7, <1>8
<1>10. QED BY <1>4, <1>9, EditedIsGood

----------------------------------------
(* Bytes that are added to a section *)

LEMMA AppendedIs ==
  ASSUME NEW s, NEW t, Edited(s, t), NEW raw, IsList(raw)
  PROVE  Edited(s, append_data(t, raw))
<1>1. CASE t.sh.type = "NOBITS"
  BY <1>1 DEF append_data
<1>2. CASE t.sh.type # "NOBITS"
  <2>1. IsList(t.data) /\ Len(t.data) = t.sh.size /\ t.sh.size \in Nat /\ Len(raw) \in Nat
    BY <1>2, ListIs DEF Edited
  <2>2. PICK d : d = t.data \o raw /\ IsList(d) /\ Len(d) = t.sh.size + Len(raw)
    <3>1. IsList(t.data \o raw) /\ Len(t.data \o raw) = Len(t.data) + Len(raw)
      BY <2>1, ListsJoin
    <3>2. QED BY <2>1, <3>1
  <2>3. PICK cap, stream, size : /\ cap = (IF t.sh.size + Len(raw) < t.cap THEN t.cap ELSE 2 * (t.cap + Len(raw)))
                                 /\ stream = t.stream + Len(raw) /\ size = t.sh.size + Len(raw)
    OBVIOUS
  <2>4. append_data(t, raw) = [t EXCEPT !.cap = cap, !.data = d, !.sh.size = size, !.stream = stream]
    BY <1>2, <2>2, <2>3 DEF append_data
  <2>5. PICK u : u = append_data(t, raw)
    OBVIOUS
  <2>6. DOMAIN t = SectionFields /\ DOMAIN t.sh = ShdrFields
    BY DEF Edited
  <2>7. /\ DOMAIN u = SectionFields /\ u.data = d /\ u.index = t.index /\ u.name = t.name
        /\ u.addrset = t.addrset /\ u.sh = [t.sh EXCEPT !.size = size]
    BY <2>4, <2>5, <2>6 DEF SectionFields
  <2>8. /\ DOMAIN u.sh = ShdrFields /\ u.sh.size = size
        /\ u.sh.name = t.sh.name /\ u.sh.type = t.sh.type /\ u.sh.flags = t.sh.flags
        /\ u.sh.addr = t.sh.addr /\ u.sh.offset = t.sh.offset /\ u.sh.align = t.sh.align
        /\ u.sh.entsize = t.sh.entsize
    BY <2>6, <2>7 DEF ShdrFields
  <2>9. size \in Nat /\ Len(d) = size /\ IsList(d)
    BY <2>1, <2>2, <2>3
  <2>10. Edited(s, u)
    BY <1>2, <2>7, <2>8, <2>9 DEF Edited
  <2>11. QED BY <2>5, <2>10
<1>3. QED BY <1>1, <1>2

LEMMA OneCell ==
  ASSUME NEW x
  PROVE  IsList(<< x >>) /\ Len(<< x >>) = 1 /\ << x >>[1] = x
<1>1. << x >> \in Seq({x}) /\ Len(<< x >>) = 1 /\ << x >>[1] = x
  OBVIOUS
<1>2. QED BY <1>1, SeqIsList

LEMMA TwoCells ==
  ASSUME NEW x, NEW y
  PROVE  IsList(<< x, y >>) /\ Len(<< x, y >>) = 2 /\ << x, y >>[1] = x /\ << x, y >>[2] = y
<1>1. << x, y >> \in Seq({x, y}) /\ Len(<< x, y >>) = 2 /\ << x, y >>[1] = x /\ << x, y >>[2] = y
  OBVIOUS
<1>2. QED BY <1>1, SeqIsList

LEMMA StringIsAdded ==
  ASSUME NEW s, NEW t, Edited(s, t), NEW str, IsList(str)
  PROVE  Edited(s, add_string(t, str).sec)
<1>1. IsList(<< NUL >>) /\ IsList(Append(str, NUL))
  BY OneCell, ListGrows
<1>2. PICK first : first = (IF t.sh.size = 0 THEN append_data(t, << NUL >>) ELSE t)
  OBVIOUS
<1>3. Edited(s, first)
  BY <1>1, <1>2, AppendedIs
<1>4. Edited(s, append_data(first, Append(str, NUL)))
  BY <1>1, <1>3, AppendedIs
<1>5. add_string(t, str).sec = append_data(first, Append(str, NUL))
  BY <1>2 DEF add_string
<1>6. QED BY <1>4, <1>5

----------------------------------------
(* The tables of a program *)

LEMMA IsNamed ==
  ASSUME NEW e, Good(e), NEW t
  PROVE  Found(e, t) # {} <=> HasNamed(e, t)
<1>1. DOMAIN e.sections = 1 .. Len(e.sections)
  BY ListIs DEF Good, Sound, IsObject
<1>2. QED BY <1>1 DEF Found, HasNamed, TableName

LEMMA TableIs ==
  ASSUME NEW e, Good(e), NEW t \in Tables, HasNamed(e, t),
         NEW sec, sec = e.sections[Min(Found(e, t))]
  PROVE  /\ sec.index \in Nat /\ sec.index >= 2 /\ sec.index + 1 \in 1 .. Len(e.sections)
         /\ sec = e.sections[sec.index + 1] /\ SoundSection(e.hdr.class, sec, sec.index)
         /\ Edited(sec, sec) /\ sec.sh.type # "NOBITS" /\ sec.sh.entsize \in Nat
         /\ IsList(sec.data) /\ sec.sh.size \in Nat /\ Len(sec.data) = sec.sh.size
         /\ t = "rel" => /\ sec.sh.type \in {"REL", "RELA"}
                         /\ sec.sh.entsize = SizeOf[e.hdr.class][RelocStruct(sec)]
<1>1. PICK m \in Nat : m = Len(e.sections) /\ DOMAIN e.sections = 1 .. m
  BY ListIs DEF Good, Sound, IsObject
<1>2. PICK S : S = Found(e, t) /\ S # {} /\ S \in SUBSET Nat
  <2>1. Found(e, t) # {}
    BY IsNamed
  <2>2. Found(e, t) \subseteq 1 .. m
    BY <1>1 DEF Found
  <2>3. QED BY <2>1, <2>2
<1>3. PICK n : n = Min(S) /\ n \in S
  BY <1>2, MinIs, Zenon
<1>4. n \in 1 .. m /\ e.sections[n].name = TableName(t) /\ sec = e.sections[n]
  BY <1>1, <1>2, <1>3, Zenon DEF Found, TableName
<1>5. SoundSection(e.hdr.class, sec, n - 1)
  BY <1>1, <1>4 DEF Good, Sound
<1>6. n - 1 >= 2 /\ sec.sh.type # "NOBITS"
      /\ (t = "rel" => /\ sec.sh.type \in {"REL", "RELA"}
                       /\ sec.sh.entsize = SizeOf[e.hdr.class][RelocStruct(sec)])
  BY <1>4, <1>5 DEF SoundSection
<1>7. IsSection(sec, n - 1) /\ sec.sh.entsize \in Nat
  BY <1>5 DEF SoundSection
<1>8. sec.index = n - 1 /\ IsList(sec.data) /\ sec.sh.size \in Nat /\ Len(sec.data) = sec.sh.size
  BY <1>6, <1>7 DEF IsSection
<1>9. Edited(sec, sec)
  BY <1>7, EditedSelf
<1>10. (n - 1) + 1 = n
  BY <1>4
<1>11. QED BY <1>1, <1>4, <1>5, <1>6, <1>7, <1>8, <1>9, <1>10

(* A section that is a table with other bytes may be set. *)
LEMMA TableEdit ==
  ASSUME NEW e, Good(e), NEW t \in Tables, HasNamed(e, t), NEW sec, Edited(e.sections[Min(Found(e, t))], sec)
  PROVE  Edit(e, sec)
<1>1. PICK old : old = e.sections[Min(Found(e, t))]
  OBVIOUS
<1>2. /\ old.index \in Nat /\ old.index >= 2 /\ old.index + 1 \in 1 .. Len(e.sections)
      /\ old = e.sections[old.index + 1]
  BY <1>1, TableIs
<1>3. sec.index = old.index /\ Edited(old, sec)
  BY <1>1 DEF Edited
<1>4. QED BY <1>2, <1>3 DEF Edit

LEMMA TablesAre == Tables = {"strtab", "symtab", "rel", "dynamic", "note", "array", "versym",
                             "modinfo", "hash", "verneed"}
  BY DEF Tables, NameOf

LEMMA StructuresSized ==
  ASSUME NEW e, IsHeader(e.hdr), NEW T \in Structures
  PROVE  SizeOf[e.hdr.class][T] \in Nat \ {0}
  BY SizesAssumption DEF IsHeader

LEMMA EntryIsAdded ==
  ASSUME NEW e, IsHeader(e.hdr), NEW s, NEW sec, Edited(s, sec), NEW T \in Structures, NEW rec
  PROVE  Edited(s, AppendEntry(e, sec, T, rec))
<1>1. SizeOf[e.hdr.class][T] \in Nat \ {0}
  BY StructuresSized
<1>2. IsList(Parts(T, rec, SizeOf[e.hdr.class][T]))
  BY <1>1, PartsAre
<1>3. QED BY <1>2, AppendedIs DEF AppendEntry

LEMMA SymbolIsAdded ==
  ASSUME NEW e, IsHeader(e.hdr), NEW s, NEW sec, Edited(s, sec), NEW sym
  PROVE  Edited(s, add_symbol(e, sec, sym))
<1>1. "Sym" \in Structures
  BY DEF Structures
<1>2. PICK first : first = (IF sec.sh.size = 0 THEN AppendEntry(e, sec, "Sym", NullSym) ELSE sec)
  OBVIOUS
<1>3. ASSUME NEW x, NEW rec, Edited(s, x) PROVE Edited(s, AppendEntry(e, x, "Sym", rec))
  BY <1>1, <1>3, EntryIsAdded
<1>4. Edited(s, first)
  BY <1>2, <1>3
<1>5. PICK rec : add_symbol(e, sec, sym) = AppendEntry(e, first, "Sym", rec)
  BY <1>2 DEF add_symbol
<1>6. QED BY <1>3, <1>4, <1>5

LEMMA RelocationIsAdded ==
  ASSUME NEW e, IsHeader(e.hdr), NEW s, NEW sec, Edited(s, sec), NEW o, NEW i, NEW t, NEW a
  PROVE  Edited(s, add_relocation(e, sec, o, i, t, a))
<1>1. RelocStruct(sec) \in Structures
  BY DEF Structures, RelocStruct
<1>2. PICK T \in Structures : T = RelocStruct(sec)
  BY <1>1
<1>3. PICK rec : add_relocation(e, sec, o, i, t, a) = AppendEntry(e, sec, T, rec)
  BY <1>2 DEF add_relocation
<1>4. QED BY <1>3, EntryIsAdded

LEMMA DynamicIsAdded ==
  ASSUME NEW e, IsHeader(e.hdr), NEW s, NEW sec, Edited(s, sec), NEW tag, NEW val
  PROVE  Edited(s, add_dynamic(e, sec, tag, val))
<1>1. PICK T \in Structures : T = "Dyn"
  BY DEF Structures
<1>2. PICK rec : add_dynamic(e, sec, tag, val) = AppendEntry(e, sec, T, rec)
  BY <1>1 DEF add_dynamic
<1>3. QED BY <1>2, EntryIsAdded

----------------------------------------
(* Numbers, notes and attributes as bytes *)

LEMMA ListOfInt ==
  ASSUME NEW n \in Int, NEW f, f = [k \in 1 .. n |-> f[k]]
  PROVE  IsList(f) /\ Len(f) = IF n < 0 THEN 0 ELSE n
<1>1. CASE n < 0
  <2>1. 1 .. n = 1 .. 0
    BY <1>1
  <2>2. f = [k \in 1 .. 0 |-> f[k]]
    BY <2>1
  <2>3. QED BY <1>1, <2>2, ListOf
<1>2. CASE ~(n < 0)
  BY <1>2, ListOf
<1>3. QED BY <1>1, <1>2

LEMMA ConvertedIs ==
  ASSUME NEW bytes, IsList(bytes), NEW encoding
  PROVE  IsList(Converted(encoding, bytes)) /\ Len(Converted(encoding, bytes)) = Len(bytes)
<1>1. PICK n \in Nat : n = Len(bytes)
  BY ListIs
<1>2. PICK r : r = Reverse(bytes)
  OBVIOUS
<1>3. r = [i \in 1 .. n |-> bytes[(n - i) + 1]]
  BY <1>1, <1>2 DEF Reverse
<1>4. IsList(r) /\ Len(r) = n
  BY <1>3, ListOf
<1>5. QED BY <1>1, <1>2, <1>4 DEF Converted

LEMMA NumberIs ==
  ASSUME NEW n \in Nat, NEW encoding, NEW value
  PROVE  IsList(FromNumber(encoding, n, value)) /\ Len(FromNumber(encoding, n, value)) = n
<1>1. PICK bytes : bytes = [k \in 1 .. n |-> Byte((value \div (ByteBase ^ (k - 1))) % ByteBase)]
  OBVIOUS
<1>2. IsList(bytes) /\ Len(bytes) = n
  BY <1>1, ListOf
<1>3. FromNumber(encoding, n, value) = Converted(encoding, bytes)
  BY <1>1 DEF FromNumber
<1>4. QED BY <1>2, <1>3, ConvertedIs

LEMMA PaddedIs ==
  ASSUME NEW cells, IsList(cells)
  PROVE  IsList(Pad(cells))
<1>1. PICK n \in Nat : n = Len(cells)
  BY ListIs
<1>2. PICK w \in Nat \ {0} : w = WordBytes
  BY SizesAssumption
<1>3. PICK p \in Int : p = Padded(n)
  <2>1. (n + w - 1) \div w \in Int
    BY <1>2
  <2>2. ((n + w - 1) \div w) * w \in Int
    BY <2>1
  <2>3. QED BY <1>2, <2>2 DEF Padded
<1>4. PICK x : x = [k \in 1 .. (p - n) |-> NUL]
  OBVIOUS
<1>5. IsList(x)
  BY <1>4, ListOfInt
<1>6. Pad(cells) = cells \o x
  BY <1>1, <1>3, <1>4 DEF Pad
<1>7. QED BY <1>5, <1>6, ListsJoin

LEMMA NoteIs ==
  ASSUME NEW e, NEW note, IsList(note.name), IsList(note.desc)
  PROVE  IsList(NoteBytes(e, note))
<1>1. WordBytes \in Nat
  BY SizesAssumption
<1>2. PICK a, b, c : /\ a = FromNumber(e.hdr.encoding, WordBytes, Len(note.name) + 1)
                     /\ b = FromNumber(e.hdr.encoding, WordBytes, Len(note.desc))
                     /\ c = FromNumber(e.hdr.encoding, WordBytes, note.type)
  OBVIOUS
<1>3. IsList(a) /\ IsList(b) /\ IsList(c)
  BY <1>1, <1>2, NumberIs
<1>4. PICK x, y : x = Pad(Append(note.name, NUL)) /\ y = Pad(note.desc)
  OBVIOUS
<1>5. IsList(x) /\ IsList(y)
  BY <1>4, ListGrows, PaddedIs
<1>6. IsList(a \o b)
  BY <1>3, ListsJoin
<1>7. IsList((a \o b) \o c)
  BY <1>3, <1>6, ListsJoin
<1>8. IsList(((a \o b) \o c) \o x)
  BY <1>5, <1>7, ListsJoin
<1>9. IsList((((a \o b) \o c) \o x) \o y)
  BY <1>5, <1>8, ListsJoin
<1>10. NoteBytes(e, note) = (((a \o b) \o c) \o x) \o y
  BY <1>2, <1>4 DEF NoteBytes
<1>11. QED BY <1>9, <1>10

LEMMA AttributeIsAdded ==
  ASSUME NEW s, NEW sec, Edited(s, sec), NEW field, NEW value, IsList(field), IsList(value)
  PROVE  Edited(s, add_attribute(sec, field, value))
<1>1. IsList(<< Equals >>)
  BY OneCell
<1>2. IsList(field \o << Equals >>)
  BY <1>1, ListsJoin
<1>3. IsList(Append(value, NUL))
  BY ListGrows
<1>4. IsList((field \o << Equals >>) \o Append(value, NUL))
  BY <1>2, <1>3, ListsJoin
<1>5. add_attribute(sec, field, value) = append_data(sec, (field \o << Equals >>) \o Append(value, NUL))
  BY DEF add_attribute
<1>6. QED BY <1>4, <1>5, AppendedIs

(* Bytes that are put in place of others. *)
LEMMA DataIsSet ==
  ASSUME NEW s, NEW sec, Edited(s, sec), sec.sh.type # "NOBITS", NEW raw, IsList(raw)
  PROVE  Edited(s, set_data(sec, raw))
<1>1. PICK n \in Nat : n = Len(raw)
  BY ListIs
<1>2. PICK u : u = set_data(sec, raw)
  OBVIOUS
<1>3. u = [sec EXCEPT !.data = raw, !.cap = n, !.sh.size = n, !.stream = n]
  BY <1>1, <1>2 DEF set_data
<1>4. DOMAIN sec = SectionFields /\ DOMAIN sec.sh = ShdrFields
  BY DEF Edited
<1>5. /\ DOMAIN u = SectionFields /\ u.data = raw /\ u.index = sec.index /\ u.name = sec.name
      /\ u.addrset = sec.addrset /\ u.sh = [sec.sh EXCEPT !.size = n]
  BY <1>3, <1>4 DEF SectionFields
<1>6. /\ DOMAIN u.sh = ShdrFields /\ u.sh.size = n
      /\ u.sh.name = sec.sh.name /\ u.sh.type = sec.sh.type /\ u.sh.flags = sec.sh.flags
      /\ u.sh.addr = sec.sh.addr /\ u.sh.offset = sec.sh.offset /\ u.sh.align = sec.sh.align
      /\ u.sh.entsize = sec.sh.entsize
  BY <1>4, <1>5 DEF ShdrFields
<1>7. Edited(s, u)
  BY <1>1, <1>5, <1>6 DEF Edited
<1>8. QED BY <1>2, <1>7

(* Bytes that are written over others. *)
LEMMA DataIsOverwritten ==
  ASSUME NEW s, NEW sec, Edited(s, sec), sec.sh.type # "NOBITS", NEW pos \in Nat, NEW new, IsList(new),
         pos + Len(new) <= sec.sh.size
  PROVE  Edited(s, [sec EXCEPT !.data = WriteAt(sec.data, pos, new)])
<1>1. IsList(sec.data) /\ Len(sec.data) = sec.sh.size /\ sec.sh.size \in Nat /\ Len(new) \in Nat
  BY ListIs DEF Edited
<1>2. PICK d : d = WriteAt(sec.data, pos, new) /\ Wrote(sec.data, pos, new, d)
  BY <1>1, WriteIs
<1>3. IsList(d) /\ Len(d) = sec.sh.size
  BY <1>1, <1>2 DEF Wrote
<1>4. PICK u : u = [sec EXCEPT !.data = d]
  OBVIOUS
<1>5. DOMAIN sec = SectionFields
  BY DEF Edited
<1>6. /\ DOMAIN u = SectionFields /\ u.data = d /\ u.index = sec.index /\ u.name = sec.name
      /\ u.addrset = sec.addrset /\ u.sh = sec.sh
  BY <1>4, <1>5 DEF SectionFields
<1>7. Edited(s, u)
  BY <1>1, <1>3, <1>6 DEF Edited
<1>8. QED BY <1>2, <1>4, <1>7

----------------------------------------
(* Entries that are written in place *)

(* The section t is s with other bytes and the same header. *)
Rewritten(s, t) == Edited(s, t) /\ t.sh = s.sh /\ t.stream = s.stream

LEMMA EntryFits ==
  ASSUME NEW size \in Nat, NEW entsize \in Nat, entsize # 0, NEW i \in Nat, i < size \div entsize,
         NEW n \in Nat, n <= entsize
  PROVE  i * entsize \in Nat /\ i * entsize + n <= size
<1>1. PICK q \in Nat : q = size \div entsize
  OBVIOUS
<1>2. entsize * q <= size
  <2>1. size = entsize * q + (size % entsize) /\ size % entsize \in 0 .. (entsize - 1)
    BY <1>1
  <2>2. entsize * q \in Nat
    BY <1>1
  <2>3. QED BY <2>1, <2>2
<1>3. PICK d \in Nat : q = (i + d) + 1
  <2>1. q - (i + 1) \in Nat /\ q = (i + (q - (i + 1))) + 1
    BY <1>1
  <2>2. QED BY <2>1
<1>4. entsize * q = entsize * i + entsize * d + entsize
  BY <1>3
<1>5. entsize * d \in Nat /\ entsize * i \in Nat /\ i * entsize = entsize * i
  BY <1>3
<1>6. QED BY <1>2, <1>4, <1>5

LEMMA EntryIsSet ==
  ASSUME NEW e, IsHeader(e.hdr), NEW s, s.sh.type # "NOBITS", s.sh.entsize \in Nat,
         NEW sec, Rewritten(s, sec), NEW T \in Structures, SizeOf[e.hdr.class][T] <= s.sh.entsize,
         NEW i \in Nat, i < s.sh.size \div s.sh.entsize, NEW rec
  PROVE  Rewritten(s, SetEntryAt(e, sec, T, i, rec))
<1>1. PICK n \in Nat \ {0} : n = SizeOf[e.hdr.class][T]
  BY StructuresSized
<1>2. PICK new : new = Parts(T, rec, n) /\ IsList(new) /\ Len(new) = n
  BY PartsAre
<1>3. PICK size \in Nat, entsize \in Nat : size = s.sh.size /\ entsize = s.sh.entsize /\ entsize # 0
  <2>1. s.sh.size \in Nat
    BY DEF Rewritten, Edited
  <2>2. s.sh.entsize # 0
    BY <1>1
  <2>3. QED BY <2>1, <2>2
<1>4. PICK pos \in Nat : pos = i * entsize /\ pos + n <= size
  <2>1. n <= entsize /\ i < size \div entsize
    BY <1>1, <1>3
  <2>2. QED BY <1>3, <2>1, EntryFits
<1>5. Edited(s, sec) /\ sec.sh = s.sh /\ sec.stream = s.stream
  BY DEF Rewritten
<1>6. PICK u : u = [sec EXCEPT !.data = WriteAt(sec.data, pos, new)]
  OBVIOUS
<1>7. Edited(s, u)
  <2>1. sec.sh.type # "NOBITS" /\ pos + Len(new) <= sec.sh.size
    BY <1>2, <1>3, <1>4, <1>5
  <2>2. QED BY <1>2, <1>5, <1>6, <2>1, DataIsOverwritten
<1>8. u.sh = s.sh /\ u.stream = s.stream
  <2>1. DOMAIN sec = SectionFields
    BY <1>5 DEF Edited
  <2>2. QED BY <1>5, <1>6, <2>1 DEF SectionFields
<1>9. SetEntryAt(e, sec, T, i, rec) = u
  BY <1>1, <1>2, <1>3, <1>4, <1>5, <1>6 DEF SetEntryAt
<1>10. QED BY <1>7, <1>8, <1>9 DEF Rewritten

----------------------------------------
(* arrange_local_symbols *)

Arranging(s, acc) ==
  /\ DOMAIN acc = {"sec", "swaps"} /\ Rewritten(s, acc.sec) /\ IsList(acc.swaps)

LEMMA SymbolsNumIs ==
  ASSUME NEW e, IsHeader(e.hdr), NEW s, s.sh.entsize \in Nat, s.sh.size \in Nat,
         NEW n, n = get_symbols_num(e, s)
  PROVE  /\ n \in Nat
         /\ n # 0 => SizeOf[e.hdr.class]["Sym"] <= s.sh.entsize /\ n = s.sh.size \div s.sh.entsize
<1>1. PICK w \in Nat \ {0} : w = SizeOf[e.hdr.class]["Sym"]
  BY StructuresSized DEF Structures
<1>2. PICK size \in Nat, entsize \in Nat : size = s.sh.size /\ entsize = s.sh.entsize
  OBVIOUS
<1>3. n = IF entsize >= w /\ size <= s.stream THEN size \div entsize ELSE 0
  BY <1>1, <1>2 DEF get_symbols_num
<1>4. CASE entsize >= w /\ size <= s.stream
  <2>1. w <= entsize /\ entsize # 0
    BY <1>1, <1>4
  <2>2. size \div entsize \in Nat
    BY <1>2, <2>1
  <2>3. QED BY <1>1, <1>2, <1>3, <1>4, <2>1, <2>2
<1>5. CASE ~(entsize >= w /\ size <= s.stream)
  BY <1>3, <1>5
<1>6. QED BY <1>4, <1>5

LEMMA FirstNotLocalIs ==
  ASSUME NEW e, NEW sec, NEW n \in Nat, n = get_symbols_num(e, sec)
  PROVE  FirstNotLocal(e, sec) \in Nat
<1>1. Max({1, n}) \in Nat
  <2>1. {1, n} \in SUBSET Nat /\ {1, n} # {} /\ n + 1 \in Nat /\ \A m \in {1, n} : m <= n + 1
    OBVIOUS
  <2>2. Max({1, n}) \in {1, n}
    BY <2>1, MaxIs
  <2>3. QED BY <2>2
<1>2. PICK S : S = { i \in 1 .. (n - 1) : ~IsLocal(e, sec, i) }
  OBVIOUS
<1>3. S \cup {Max({1, n})} \in SUBSET Nat /\ S \cup {Max({1, n})} # {}
  BY <1>1, <1>2
<1>4. Min(S \cup {Max({1, n})}) \in Nat
  BY <1>3, MinIs
<1>5. FirstNotLocal(e, sec) = Min(S \cup {Max({1, n})})
  BY <1>2 DEF FirstNotLocal
<1>6. QED BY <1>4, <1>5

LEMMA ArrangeOneKeeps ==
  ASSUME NEW e, IsHeader(e.hdr), NEW s, s.sh.type # "NOBITS", s.sh.entsize \in Nat, s.sh.size \in Nat,
         NEW acc, Arranging(s, acc)
  PROVE  Arranging(s, ArrangeOne(e, acc))
<1>1. PICK sec : sec = acc.sec /\ Rewritten(s, sec)
  BY DEF Arranging
<1>2. PICK n : n = get_symbols_num(e, s)
  OBVIOUS
<1>3. n \in Nat
      /\ (n # 0 => SizeOf[e.hdr.class]["Sym"] <= s.sh.entsize /\ n = s.sh.size \div s.sh.entsize)
  BY <1>2, SymbolsNumIs
<1>4. get_symbols_num(e, sec) = n
  BY <1>1, <1>2 DEF Rewritten, get_symbols_num
<1>5. PICK i \in Nat : i = FirstNotLocal(e, sec)
  BY <1>3, <1>4, FirstNotLocalIs
<1>6. PICK locals : locals = { j \in (i + 1) .. (n - 1) : IsLocal(e, sec, j) }
  OBVIOUS
<1>7. CASE locals = {}
  <2>1. ArrangeOne(e, acc) = acc
    BY <1>1, <1>4, <1>5, <1>6, <1>7 DEF ArrangeOne
  <2>2. QED BY <2>1
<1>8. CASE locals # {}
  <2>1. locals \in SUBSET Nat
    BY <1>3, <1>6
  <2>2. PICK j : j = Min(locals) /\ j \in locals
    BY <1>8, <2>1, MinIs
  <2>3. j \in Nat /\ i < n /\ j < n /\ n # 0
    BY <1>3, <1>6, <2>2
  <2>4. PICK T \in Structures : T = "Sym"
    BY DEF Structures
  <2>5. PICK a, b : a = EntryAt(e, sec, "Sym", i) /\ b = EntryAt(e, sec, "Sym", j)
    OBVIOUS
  <2>6. i < s.sh.size \div s.sh.entsize /\ j < s.sh.size \div s.sh.entsize
        /\ SizeOf[e.hdr.class][T] <= s.sh.entsize
    BY <1>3, <2>3, <2>4
  <2>7. ASSUME NEW x, Rewritten(s, x), NEW k \in Nat, k < s.sh.size \div s.sh.entsize, NEW rec
        PROVE  Rewritten(s, SetEntryAt(e, x, T, k, rec))
    BY <2>6, <2>7, EntryIsSet
  <2>8. Rewritten(s, SetEntryAt(e, sec, T, i, b))
    BY <1>1, <2>6, <2>7
  <2>9. Rewritten(s, SetEntryAt(e, SetEntryAt(e, sec, T, i, b), T, j, a))
    BY <2>3, <2>6, <2>7, <2>8
  <2>10. Rewritten(s, SwapEntries(e, sec, i, j))
    BY <2>4, <2>5, <2>9 DEF SwapEntries
  <2>11. ArrangeOne(e, acc) = [sec |-> SwapEntries(e, sec, i, j), swaps |-> Append(acc.swaps, << i, j >>)]
    BY <1>1, <1>4, <1>5, <1>6, <1>8, <2>2 DEF ArrangeOne
  <2>12. PICK y, w : y = SwapEntries(e, sec, i, j) /\ w = Append(acc.swaps, << i, j >>)
    OBVIOUS
  <2>13. IsList(w)
    BY <2>12, ListGrows DEF Arranging
  <2>14. QED BY <2>10, <2>11, <2>12, <2>13 DEF Arranging
<1>9. QED BY <1>7, <1>8

LEMMA ArrangedIs ==
  ASSUME NEW e, IsHeader(e.hdr), NEW s, Edited(s, s), s.sh.type # "NOBITS", s.sh.entsize \in Nat,
         s.sh.size \in Nat
  PROVE  Edited(s, arrange_local_symbols(e, s).sec) /\ IsList(arrange_local_symbols(e, s).swaps)
<1>1. PICK n \in Nat : n = get_symbols_num(e, s)
  BY SymbolsNumIs
<1>2. PICK base : base = [sec |-> s, swaps |-> << >>]
  OBVIOUS
<1>3. PICK z : z = [k \in 1 .. n |-> k]
  OBVIOUS
<1>4. PICK done : done = Fold("arrange", e, base, z)
  OBVIOUS
<1>5. arrange_local_symbols(e, s) = [done EXCEPT !.sec.sh.info = FirstNotLocal(e, done.sec)]
  BY <1>1, <1>2, <1>3, <1>4 DEF arrange_local_symbols, Fold, FoldLeft, MapThenFoldSet, Body
<1>6. DOMAIN z = 1 .. n
  BY <1>3
<1>7. PICK h : Runs(h, "arrange", e, base, z, n)
  BY <1>6, FoldSteps
<1>8. h[0] = base /\ h[n] = done /\ \A k \in 1 .. n : h[k] = ArrangeOne(e, h[k - 1])
  BY <1>4, <1>7 DEF Runs, Body
<1> DEFINE P == { k \in 0 .. n : Arranging(s, h[k]) }
<1>9. 0 \in P
  <2>1. Rewritten(s, s) /\ IsList(<< >>)
    BY EmptyList DEF Rewritten
  <2>2. DOMAIN base = {"sec", "swaps"} /\ base.sec = s /\ base.swaps = << >>
    BY <1>2
  <2>3. Arranging(s, base)
    BY <2>1, <2>2 DEF Arranging
  <2>4. QED BY <1>8, <2>3
<1>10. ASSUME NEW k \in 1 .. n, k - 1 \in P PROVE k \in P
  <2>1. PICK acc : acc = h[k - 1] /\ Arranging(s, acc)
    BY <1>10
  <2>2. Arranging(s, ArrangeOne(e, acc))
    BY <2>1, ArrangeOneKeeps
  <2>3. k \in 0 .. n
    OBVIOUS
  <2>4. QED BY <1>8, <2>1, <2>2, <2>3
<1>11. \A k \in 0 .. n : k \in P
  <2> HIDE DEF P
  <2>1. QED BY <1>9, <1>10, Induction
<1>12. Arranging(s, done)
  <2>1. n \in 0 .. n
    OBVIOUS
  <2>2. QED BY <1>8, <1>11, <2>1
<1>13. PICK t : t = done.sec /\ Edited(s, t)
  BY <1>12 DEF Arranging, Rewritten
<1>14. PICK info : info = FirstNotLocal(e, t)
  OBVIOUS
<1>15. PICK u : u = [t EXCEPT !.sh.info = info]
  OBVIOUS
<1>16. PICK r : r = arrange_local_symbols(e, s)
  OBVIOUS
<1>17. r = [done EXCEPT !.sec = u]
  BY <1>5, <1>13, <1>14, <1>15, <1>16
<1>18. r.sec = u /\ r.swaps = done.swaps
  BY <1>12, <1>17 DEF Arranging
<1>19. DOMAIN t = SectionFields /\ DOMAIN t.sh = ShdrFields
  BY <1>13 DEF Edited
<1>20. /\ DOMAIN u = SectionFields /\ u.data = t.data /\ u.index = t.index /\ u.name = t.name
       /\ u.addrset = t.addrset /\ u.sh = [t.sh EXCEPT !.info = info]
  BY <1>15, <1>19 DEF SectionFields
<1>21. /\ DOMAIN u.sh = ShdrFields /\ u.sh.size = t.sh.size
       /\ u.sh.name = t.sh.name /\ u.sh.type = t.sh.type /\ u.sh.flags = t.sh.flags
       /\ u.sh.addr = t.sh.addr /\ u.sh.offset = t.sh.offset /\ u.sh.align = t.sh.align
       /\ u.sh.entsize = t.sh.entsize
  BY <1>19, <1>20 DEF ShdrFields
<1>22. Edited(s, u)
  BY <1>13, <1>20, <1>21 DEF Edited
<1>23. QED BY <1>12, <1>16, <1>18, <1>22 DEF Arranging

----------------------------------------
(* swap_symbols *)

LEMMA SwapIsLoop ==
  ASSUME NEW c, NEW sec
  PROVE  swap_symbols(c.elf, sec, c.first, c.second)
           = Fold("swap", c, sec, [n \in 1 .. entries_num(sec) |-> n])
  BY DEF swap_symbols, Fold, FoldLeft, MapThenFoldSet, Body, SwapOne

LEMMA SwapOneKeeps ==
  ASSUME NEW c, IsHeader(c.elf.hdr), NEW s, s.sh.type # "NOBITS", s.sh.size \in Nat,
         NEW w \in Nat \ {0}, s.sh.entsize = w, w = SizeOf[c.elf.hdr.class][RelocStruct(s)],
         NEW sec, Rewritten(s, sec), NEW n \in Nat \ {0}, n <= s.sh.size \div w
  PROVE  Rewritten(s, SwapOne(c, sec, n))
<1>1. PICK T \in Structures : T = RelocStruct(s) /\ T = RelocStruct(sec)
  <2>1. RelocStruct(sec) = RelocStruct(s) /\ RelocStruct(s) \in Structures
    BY DEF RelocStruct, Rewritten, Structures
  <2>2. QED BY <2>1
<1>2. n - 1 \in Nat /\ n - 1 < s.sh.size \div w
  <2>1. s.sh.size \div w \in Nat
    OBVIOUS
  <2>2. QED BY <2>1
<1>3. PICK e : e = c.elf
  OBVIOUS
<1>4. s.sh.entsize \in Nat /\ SizeOf[e.hdr.class][T] <= s.sh.entsize
  BY <1>1, <1>3
<1>5. ASSUME NEW rec PROVE Rewritten(s, SetEntryAt(e, sec, T, n - 1, rec))
  <2>1. IsHeader(e.hdr) /\ n - 1 < s.sh.size \div s.sh.entsize
    BY <1>2, <1>3
  <2>2. QED BY <1>2, <1>4, <2>1, EntryIsSet
<1>6. ASSUME NEW rel PROVE Rewritten(s, set_relocation(e, sec, n - 1, rel))
  BY <1>1, <1>5 DEF set_relocation
<1>7. PICK rel : rel = get_relocation(c.elf, sec, n - 1)
  OBVIOUS
<1>8. PICK new : new = [rel EXCEPT !.info.sym = Exchanged(@, c.first, c.second)]
  OBVIOUS
<1>9. SwapOne(c, sec, n) = IF rel.info.sym \notin {c.first, c.second} THEN sec
                           ELSE set_relocation(e, sec, n - 1, new)
  BY <1>3, <1>7, <1>8 DEF SwapOne
<1>10. QED BY <1>6, <1>9

LEMMA SwapKeeps ==
  ASSUME NEW e, IsHeader(e.hdr), NEW s, s.sh.type # "NOBITS", s.sh.size \in Nat,
         s.sh.entsize = SizeOf[e.hdr.class][RelocStruct(s)],
         NEW sec, Rewritten(s, sec), NEW first, NEW second
  PROVE  Rewritten(s, swap_symbols(e, sec, first, second))
<1>1. PICK w \in Nat \ {0} : w = s.sh.entsize
  <2>1. RelocStruct(s) \in Structures
    BY DEF RelocStruct, Structures
  <2>2. QED BY <2>1, StructuresSized
<1>2. PICK size \in Nat : size = s.sh.size
  OBVIOUS
<1>3. PICK N \in Nat : N = size \div w
  BY <1>1, <1>2
<1>4. entries_num(sec) = N
  <2>1. sec.sh = s.sh
    BY DEF Rewritten
  <2>2. sec.sh.entsize = w /\ sec.sh.size = size /\ w # 0
    BY <1>1, <1>2, <2>1
  <2>3. QED BY <1>3, <2>2 DEF entries_num
<1>5. PICK c : c.elf = e /\ c.first = first /\ c.second = second
  <2>1. PICK c : c = [elf |-> e, first |-> first, second |-> second]
    OBVIOUS
  <2>2. c.elf = e /\ c.first = first /\ c.second = second
    BY <2>1
  <2>3. QED BY <2>2
<1>6. PICK z : z = [n \in 1 .. N |-> n]
  OBVIOUS
<1>7. PICK r : r = swap_symbols(e, sec, first, second)
  OBVIOUS
<1>8. r = Fold("swap", c, sec, z)
  <2>1. swap_symbols(c.elf, sec, c.first, c.second)
           = Fold("swap", c, sec, [n \in 1 .. entries_num(sec) |-> n])
    BY SwapIsLoop
  <2>2. QED BY <1>4, <1>5, <1>6, <1>7, <2>1
<1>9. DOMAIN z = 1 .. N /\ \A n \in 1 .. N : z[n] = n
  BY <1>6
<1>10. PICK h : Runs(h, "swap", c, sec, z, N)
  BY <1>9, FoldSteps
<1>11. h[0] = sec /\ h[N] = r /\ \A k \in 1 .. N : h[k] = SwapOne(c, h[k - 1], k)
  BY <1>8, <1>9, <1>10 DEF Runs, Body
<1> DEFINE P == { k \in 0 .. N : Rewritten(s, h[k]) }
<1>12. 0 \in P
  BY <1>11
<1>13. ASSUME NEW k \in 1 .. N, k - 1 \in P PROVE k \in P
  <2>1. PICK x : x = h[k - 1] /\ Rewritten(s, x)
    BY <1>13
  <2>2. /\ k \in Nat \ {0} /\ k <= s.sh.size \div w /\ IsHeader(c.elf.hdr)
        /\ s.sh.entsize = w /\ w = SizeOf[c.elf.hdr.class][RelocStruct(s)]
    BY <1>1, <1>2, <1>3, <1>5
  <2>3. Rewritten(s, SwapOne(c, x, k))
    BY <2>1, <2>2, SwapOneKeeps
  <2>4. k \in 0 .. N
    OBVIOUS
  <2>5. QED BY <1>11, <2>1, <2>3, <2>4
<1>14. \A k \in 0 .. N : k \in P
  <2> HIDE DEF P
  <2>1. QED BY <1>12, <1>13, Induction
<1>15. N \in 0 .. N
  OBVIOUS
<1>16. QED BY <1>7, <1>11, <1>14, <1>15

LEMMA SwapsKeep ==
  ASSUME NEW e, IsHeader(e.hdr), NEW s, Edited(s, s), s.sh.type # "NOBITS", s.sh.size \in Nat,
         s.sh.entsize = SizeOf[e.hdr.class][RelocStruct(s)],
         NEW swaps, IsList(swaps)
  PROVE  Edited(s, Fold("swaps", e, s, swaps))
<1>1. PICK N \in Nat : N = Len(swaps) /\ DOMAIN swaps = 1 .. N
  BY ListIs
<1>2. PICK h : Runs(h, "swaps", e, s, swaps, N)
  BY <1>1, FoldSteps
<1>3. /\ h[0] = s /\ h[N] = Fold("swaps", e, s, swaps)
      /\ \A k \in 1 .. N : h[k] = swap_symbols(e, h[k - 1], swaps[k][1], swaps[k][2])
  BY <1>2 DEF Runs, Body
<1> DEFINE P == { k \in 0 .. N : Rewritten(s, h[k]) }
<1>4. 0 \in P
  BY <1>3 DEF Rewritten
<1>5. ASSUME NEW k \in 1 .. N, k - 1 \in P PROVE k \in P
  <2>1. PICK x : x = h[k - 1] /\ Rewritten(s, x)
    BY <1>5
  <2>2. Rewritten(s, swap_symbols(e, x, swaps[k][1], swaps[k][2]))
    BY <2>1, SwapKeeps
  <2>3. k \in 0 .. N
    OBVIOUS
  <2>4. QED BY <1>3, <2>1, <2>2, <2>3
<1>6. \A k \in 0 .. N : k \in P
  <2> HIDE DEF P
  <2>1. QED BY <1>4, <1>5, Induction
<1>7. N \in 0 .. N
  OBVIOUS
<1>8. QED BY <1>3, <1>6, <1>7 DEF Rewritten

----------------------------------------
(* Other bytes in place, and pieces one after the other *)

LEMMA VersionIsModified ==
  ASSUME NEW s, NEW sec, Edited(s, sec), sec.sh.type # "NOBITS", NEW i \in Nat,
         i < CountNumbers(sec, HalfBytes), NEW v
  PROVE  Edited(s, modify_version(sec, i, v))
<1>1. PICK w \in Nat \ {0} : w = HalfBytes
  BY SizesAssumption
<1>2. PICK size \in Nat : size = sec.sh.size
  BY DEF Edited
<1>3. i < size \div w /\ w <= w /\ w # 0 /\ w \in Nat
  BY <1>1, <1>2 DEF CountNumbers
<1>4. i * w \in Nat /\ i * w + w <= size
  BY <1>2, <1>3, EntryFits
<1>5. PICK new : new = FromNumber(HostEncoding, w, v) /\ IsList(new) /\ Len(new) = w
  BY <1>3, NumberIs
<1>6. PICK pos \in Nat : pos = i * w /\ pos + Len(new) <= sec.sh.size
  BY <1>2, <1>4, <1>5
<1>7. Edited(s, [sec EXCEPT !.data = WriteAt(sec.data, pos, new)])
  BY <1>5, <1>6, DataIsOverwritten
<1>8. modify_version(sec, i, v) = [sec EXCEPT !.data = WriteAt(sec.data, pos, new)]
  BY <1>1, <1>5, <1>6 DEF modify_version
<1>9. QED BY <1>7, <1>8

LEMMA FlatIs ==
  ASSUME NEW pieces, IsList(pieces), NEW n \in Nat
  PROVE  IsList(Flat(pieces, n))
<1>1. PICK m \in Nat : m = Len(pieces)
  BY ListIs
<1>2. PICK k \in Nat : k = m * n
  BY <1>1
<1>3. PICK f : f = Flat(pieces, n)
  OBVIOUS
<1>4. f = [j \in 1 .. k |-> pieces[((j - 1) \div n) + 1][((j - 1) % n) + 1]]
  BY <1>1, <1>2, <1>3 DEF Flat
<1>5. f = [j \in 1 .. k |-> f[j]]
  BY <1>4
<1>6. QED BY <1>3, <1>5, ListOf

LEMMA ListMapped ==
  ASSUME NEW s, IsList(s), NEW f, DOMAIN f = DOMAIN s, f = [k \in DOMAIN f |-> f[k]]
  PROVE  IsList(f) /\ Len(f) = Len(s)
<1>1. PICK n \in Nat : n = Len(s) /\ DOMAIN s = 1 .. n
  BY ListIs
<1>2. f = [k \in 1 .. n |-> f[k]]
  BY <1>1
<1>3. QED BY <1>1, <1>2, ListOf

----------------------------------------
(* The steps that change the tables *)

(* A table the program has, as section s of its object. *)
IsTable(e, t, s) ==
  /\ Edited(s, s) /\ s.sh.type # "NOBITS" /\ s.sh.entsize \in Nat /\ s.sh.size \in Nat
  /\ t = "rel" => s.sh.entsize = SizeOf[e.hdr.class][RelocStruct(s)]
  /\ \A x : Edited(s, x) => Edit(e, x)

LEMMA TableFound ==
  ASSUME NEW e, Good(e), NEW t \in Tables, HasNamed(e, t), NEW s, s = e.sections[Min(Found(e, t))]
  PROVE  IsTable(e, t, s)
<1>1. /\ Edited(s, s) /\ s.sh.type # "NOBITS" /\ s.sh.entsize \in Nat /\ s.sh.size \in Nat
      /\ t = "rel" => s.sh.entsize = SizeOf[e.hdr.class][RelocStruct(s)]
  BY TableIs
<1>2. ASSUME NEW x, Edited(s, x) PROVE Edit(e, x)
  BY <1>2, TableEdit
<1>3. QED BY <1>1, <1>2 DEF IsTable

LEMMA HasIs ==
  ASSUME Good(elf), NEW t \in Tables, Has(t)
  PROVE  HasNamed(elf, t) /\ IsTable(elf, t, Sec(t))
<1>1. HasNamed(elf, t)
  BY IsNamed DEF Has
<1>2. PICK s : s = Sec(t)
  OBVIOUS
<1>3. IsTable(elf, t, s)
  BY <1>1, <1>2, TableFound DEF Sec
<1>4. QED BY <1>1, <1>2, <1>3

LEMMA NamedIs ==
  ASSUME Good(elf), NEW t \in Tables, HasNamed(elf, t)
  PROVE  IsTable(elf, t, Sec(t))
<1>1. Has(t)
  BY IsNamed DEF Has
<1>2. QED BY <1>1, HasIs

LEMMA GoodHeader ==
  ASSUME NEW e, Good(e)
  PROVE  IsHeader(e.hdr)
  BY DEF Good, Sound, IsObject

LEMMA OneEdit ==
  ASSUME NEW e, Good(e), NEW x, Edit(e, x)
  PROVE  Good(FoldLeft(SetSection, e, << x >>))
<1>1. PICK c : c = << x >> /\ IsList(c) /\ Len(c) = 1 /\ c[1] = x
  BY OneCell
<1>2. \A k \in 1 .. Len(c) : Edit(e, c[k])
  BY <1>1
<1>3. Good(FoldLeft(SetSection, e, c))
  BY <1>1, <1>2, EditsAreGood
<1>4. QED BY <1>1, <1>3

LEMMA TwoEdits ==
  ASSUME NEW e, Good(e), NEW x, Edit(e, x), NEW y, Edit(e, y)
  PROVE  Good(FoldLeft(SetSection, e, << x, y >>))
<1>0. PICK c : c = << x, y >>
  OBVIOUS
<1>1. IsList(c) /\ Len(c) = 2 /\ c[1] = x /\ c[2] = y
  <2>1. IsList(<< x, y >>) /\ Len(<< x, y >>) = 2 /\ << x, y >>[1] = x /\ << x, y >>[2] = y
    BY TwoCells
  <2>2. QED BY <1>0, <2>1
<1>2. \A k \in 1 .. Len(c) : Edit(e, c[k])
  BY <1>1
<1>3. Good(FoldLeft(SetSection, e, c))
  BY <1>1, <1>2, EditsAreGood
<1>4. QED BY <1>0, <1>3

LEMMA AddSymbolIsGood ==
  ASSUME Good(elf), NEW s \in EntryChoices.symtab, AddSymbol(s)
  PROVE  Good(elf')
<1>1. /\ {"symtab", "strtab"} \subseteq Tables /\ IsHeader(elf.hdr) /\ IsList(s.name)
  BY TablesAre, GoodHeader, EntriesAssumption
<1>2. IsTable(elf, "symtab", Sec("symtab")) /\ HasNamed(elf, "symtab")
  BY <1>1, HasIs DEF AddSymbol
<1>3. HasNamed(elf, "strtab")
  BY <1>2 DEF Good, Together
<1>4. IsTable(elf, "strtab", Sec("strtab"))
  BY <1>1, <1>3, NamedIs
<1>5. PICK str : str = add_string(Sec("strtab"), s.name)
  OBVIOUS
<1>6. PICK x : x = str.sec
  OBVIOUS
<1>7. Edited(Sec("strtab"), x)
  BY <1>1, <1>4, <1>5, <1>6, StringIsAdded DEF IsTable
<1>8. PICK y : y = add_symbol(elf, Sec("symtab"), [s EXCEPT !.name = str.pos])
  OBVIOUS
<1>9. Edited(Sec("symtab"), y)
  BY <1>1, <1>2, <1>8, SymbolIsAdded DEF IsTable
<1>10. Edit(elf, x) /\ Edit(elf, y)
  BY <1>2, <1>4, <1>7, <1>9 DEF IsTable
<1>11. elf' = FoldLeft(SetSection, elf, << x, y >>)
  BY <1>5, <1>6, <1>8 DEF AddSymbol, Tell
<1>12. Good(FoldLeft(SetSection, elf, << x, y >>))
  BY <1>10, TwoEdits
<1>13. QED BY <1>11, <1>12

LEMMA AddRelocationIsGood ==
  ASSUME Good(elf), NEW r, NEW i, AddRelocation(r, i)
  PROVE  Good(elf')
<1>1. "rel" \in Tables /\ IsHeader(elf.hdr)
  BY TablesAre, GoodHeader
<1>2. IsTable(elf, "rel", Sec("rel"))
  BY <1>1, HasIs DEF AddRelocation
<1>3. PICK x : x = add_relocation(elf, Sec("rel"), r.offset, i, r.type, r.addend)
  OBVIOUS
<1>4. Edited(Sec("rel"), x)
  BY <1>1, <1>2, <1>3, RelocationIsAdded DEF IsTable
<1>5. Edit(elf, x)
  BY <1>2, <1>4 DEF IsTable
<1>6. elf' = FoldLeft(SetSection, elf, << x >>)
  BY <1>3 DEF AddRelocation, Tell
<1>7. QED BY <1>5, <1>6, OneEdit

LEMMA ArrangeLocalsIsGood ==
  ASSUME Good(elf), ArrangeLocals
  PROVE  Good(elf')
<1>1. {"symtab", "rel"} \subseteq Tables /\ IsHeader(elf.hdr)
  BY TablesAre, GoodHeader
<1>2. Has("symtab")
  BY DEF ArrangeLocals, SymbolIndexes
<1>3. IsTable(elf, "symtab", Sec("symtab")) /\ HasNamed(elf, "symtab")
  BY <1>1, <1>2, HasIs
<1>4. HasNamed(elf, "rel")
  BY <1>3 DEF Good, Together
<1>5. IsTable(elf, "rel", Sec("rel"))
  BY <1>1, <1>4, NamedIs
<1>6. PICK e, s, r : e = elf /\ s = Sec("symtab") /\ r = Sec("rel")
  OBVIOUS
<1>7. PICK a : a = arrange_local_symbols(e, s)
  OBVIOUS
<1>8. Edited(s, a.sec) /\ IsList(a.swaps)
  BY <1>1, <1>3, <1>6, <1>7, ArrangedIs DEF IsTable
<1>9. PICK swaps : swaps = a.swaps /\ IsList(swaps)
  BY <1>8
<1>10. PICK x, y : x = a.sec /\ y = Fold("swaps", e, r, swaps)
  OBVIOUS
<1>11. Edited(r, y)
  <2>1. /\ IsHeader(e.hdr) /\ Edited(r, r) /\ r.sh.type # "NOBITS" /\ r.sh.size \in Nat
        /\ r.sh.entsize = SizeOf[e.hdr.class][RelocStruct(r)]
    BY <1>1, <1>5, <1>6 DEF IsTable
  <2>2. QED BY <1>9, <1>10, <2>1, SwapsKeep
<1>12. Edit(e, x) /\ Edit(e, y)
  BY <1>3, <1>5, <1>6, <1>8, <1>10, <1>11 DEF IsTable
<1>13. y = FoldLeft(LAMBDA rel, w : swap_symbols(elf, rel, w[1], w[2]), Sec("rel"), swaps)
  BY <1>6, <1>10 DEF Fold, FoldLeft, MapThenFoldSet, Body
<1>14. elf' = SetSection(SetSection(e, x), y)
  BY <1>6, <1>7, <1>9, <1>10, <1>13 DEF ArrangeLocals
<1>15. EditedObject(e, SetSection(e, x))
  BY <1>6, <1>12, EditedObjectSelf, EditOneMore
<1>16. EditedObject(e, SetSection(SetSection(e, x), y))
  BY <1>6, <1>12, <1>15, EditOneMore
<1>17. QED BY <1>6, <1>14, <1>16, EditedIsGood

LEMMA AddDynamicIsGood ==
  ASSUME Good(elf), NEW d \in EntryChoices.dynamic, AddDynamic(d)
  PROVE  Good(elf')
<1>1. {"dynamic", "strtab"} \subseteq Tables /\ IsHeader(elf.hdr) /\ IsList(d.str)
  BY TablesAre, GoodHeader, EntriesAssumption
<1>2. IsTable(elf, "dynamic", Sec("dynamic")) /\ HasNamed(elf, "dynamic")
  BY <1>1, HasIs DEF AddDynamic
<1>3. HasNamed(elf, "strtab")
  BY <1>2 DEF Good, Together
<1>4. IsTable(elf, "strtab", Sec("strtab"))
  BY <1>1, <1>3, NamedIs
<1>5. PICK str : str = add_string(Sec("strtab"), d.str)
  OBVIOUS
<1>6. PICK x : x = str.sec
  OBVIOUS
<1>7. Edited(Sec("strtab"), x)
  BY <1>1, <1>4, <1>5, <1>6, StringIsAdded DEF IsTable
<1>8. PICK y : y = add_dynamic(elf, Sec("dynamic"), d.tag, str.pos)
  OBVIOUS
<1>9. PICK z : z = add_dynamic(elf, Sec("dynamic"), d.tag, d.val)
  OBVIOUS
<1>10. Edited(Sec("dynamic"), y) /\ Edited(Sec("dynamic"), z)
  BY <1>1, <1>2, <1>8, <1>9, DynamicIsAdded DEF IsTable
<1>11. Edit(elf, x) /\ Edit(elf, y) /\ Edit(elf, z)
  BY <1>2, <1>4, <1>7, <1>10 DEF IsTable
<1>12. elf' = FoldLeft(SetSection, elf, << x, y >>) \/ elf' = FoldLeft(SetSection, elf, << z >>)
  BY <1>5, <1>6, <1>8, <1>9 DEF AddDynamic, Tell
<1>13. Good(FoldLeft(SetSection, elf, << x, y >>)) /\ Good(FoldLeft(SetSection, elf, << z >>))
  BY <1>11, OneEdit, TwoEdits
<1>14. QED BY <1>12, <1>13

LEMMA LinkNeedsIsGood ==
  ASSUME Good(elf), NEW needs \in EntryChoices.verneed, LinkNeeds(needs)
  PROVE  Good(elf')
<1>1. {"dynamic", "verneed"} \subseteq Tables /\ IsHeader(elf.hdr) /\ IsList(needs)
  BY TablesAre, GoodHeader, EntriesAssumption, SMTT(30)
<1>2. IsTable(elf, "verneed", Sec("verneed")) /\ HasNamed(elf, "verneed")
  BY <1>1, HasIs DEF LinkNeeds
<1>3. HasNamed(elf, "dynamic")
  BY <1>2 DEF Good, Together
<1>4. IsTable(elf, "dynamic", Sec("dynamic"))
  BY <1>1, <1>3, NamedIs
<1>5. PICK size : size = SizeOf[elf.hdr.class]
  OBVIOUS
<1>6. PICK n \in Nat : n = size.Verneed + size.Vernaux
  <2>1. {"Verneed", "Vernaux"} \subseteq Structures
    BY DEF Structures
  <2>2. size["Verneed"] \in Nat /\ size["Vernaux"] \in Nat
    BY <1>1, <1>5, <2>1, StructuresSized
  <2>3. QED BY <2>2
<1> DEFINE one(k) == Parts("Verneed", [version |-> needs[k].version, file |-> needs[k].file,
                                     aux |-> size.Verneed, next |-> size.Verneed + size.Vernaux],
                         size.Verneed)
                   \o Parts("Vernaux", [hash |-> needs[k].hash, name |-> needs[k].dep], size.Vernaux)
<1>7. PICK pieces : pieces = [k \in DOMAIN needs |-> one(k)]
  OBVIOUS
<1>8. IsList(pieces)
  <2>1. DOMAIN pieces = DOMAIN needs /\ pieces = [k \in DOMAIN pieces |-> pieces[k]]
    BY <1>7
  <2>2. QED BY <1>1, <2>1, ListMapped
<1>9. PICK raw : raw = Flat(pieces, n) /\ IsList(raw)
  BY <1>8, FlatIs
<1>10. PICK x, y : x = set_data(Sec("verneed"), raw)
                   /\ y = add_dynamic(elf, Sec("dynamic"), "VERNEEDNUM", Len(needs))
  OBVIOUS
<1>11. Edited(Sec("verneed"), x)
  BY <1>2, <1>9, <1>10, DataIsSet DEF IsTable
<1>12. Edited(Sec("dynamic"), y)
  BY <1>1, <1>4, <1>10, DynamicIsAdded DEF IsTable
<1>13. Edit(elf, x) /\ Edit(elf, y)
  <2>1. Edit(elf, x)
    BY <1>2, <1>11, Zenon DEF IsTable
  <2>2. Edit(elf, y)
    BY <1>4, <1>12, Zenon DEF IsTable
  <2>3. QED BY <2>1, <2>2, Zenon
<1>14. elf' = FoldLeft(SetSection, elf, << x, y >>)
  BY <1>5, <1>6, <1>7, <1>9, <1>10, Zenon DEF LinkNeeds
<1>15. QED BY <1>13, <1>14, TwoEdits

LEMMA AddNoteIsGood ==
  ASSUME Good(elf), NEW n \in EntryChoices.note, AddNote(n)
  PROVE  Good(elf')
<1>1. "note" \in Tables /\ IsList(n.name) /\ IsList(n.desc)
  BY TablesAre, EntriesAssumption
<1>2. IsTable(elf, "note", Sec("note"))
  BY <1>1, HasIs DEF AddNote
<1>3. PICK raw : raw = NoteBytes(elf, n) /\ IsList(raw)
  BY <1>1, NoteIs
<1>4. PICK x : x = append_data(Sec("note"), raw)
  OBVIOUS
<1>5. Edit(elf, x)
  BY <1>2, <1>3, <1>4, AppendedIs DEF IsTable
<1>6. elf' = FoldLeft(SetSection, elf, << x >>)
  BY <1>3, <1>4 DEF AddNote, Tell
<1>7. QED BY <1>5, <1>6, OneEdit

LEMMA AddAddressIsGood ==
  ASSUME Good(elf), NEW a, AddAddress(a)
  PROVE  Good(elf')
<1>1. "array" \in Tables /\ WordBytes \in Nat
  BY TablesAre, SizesAssumption
<1>2. IsTable(elf, "array", Sec("array"))
  BY <1>1, HasIs DEF AddAddress
<1>3. PICK raw : raw = FromNumber(elf.hdr.encoding, WordBytes, a) /\ IsList(raw)
  BY <1>1, NumberIs
<1>4. PICK x : x = append_data(Sec("array"), raw)
  OBVIOUS
<1>5. Edit(elf, x)
  BY <1>2, <1>3, <1>4, AppendedIs DEF IsTable
<1>6. elf' = FoldLeft(SetSection, elf, << x >>)
  BY <1>3, <1>4 DEF AddAddress, Tell, add_address
<1>7. QED BY <1>5, <1>6, OneEdit

LEMMA AddVersionIsGood ==
  ASSUME Good(elf), NEW v, AddVersion(v)
  PROVE  Good(elf')
<1>1. "versym" \in Tables /\ HalfBytes \in Nat
  BY TablesAre, SizesAssumption
<1>2. IsTable(elf, "versym", Sec("versym"))
  BY <1>1, HasIs DEF AddVersion
<1>3. PICK raw : raw = FromNumber(HostEncoding, HalfBytes, v) /\ IsList(raw)
  BY <1>1, NumberIs
<1>4. PICK x : x = append_data(Sec("versym"), raw)
  OBVIOUS
<1>5. Edit(elf, x)
  BY <1>2, <1>3, <1>4, AppendedIs DEF IsTable
<1>6. elf' = FoldLeft(SetSection, elf, << x >>)
  BY <1>3, <1>4 DEF AddVersion, Tell, add_version
<1>7. QED BY <1>5, <1>6, OneEdit

LEMMA AddAttributeIsGood ==
  ASSUME Good(elf), NEW a \in EntryChoices.modinfo, AddAttribute(a)
  PROVE  Good(elf')
<1>1. "modinfo" \in Tables /\ IsList(a[1]) /\ IsList(a[2])
  BY TablesAre, EntriesAssumption
<1>2. IsTable(elf, "modinfo", Sec("modinfo"))
  BY <1>1, HasIs DEF AddAttribute
<1>3. PICK x : x = add_attribute(Sec("modinfo"), a[1], a[2])
  OBVIOUS
<1>4. Edit(elf, x)
  BY <1>1, <1>2, <1>3, AttributeIsAdded DEF IsTable
<1>5. elf' = FoldLeft(SetSection, elf, << x >>)
  BY <1>3 DEF AddAttribute, Tell
<1>6. QED BY <1>4, <1>5, OneEdit

LEMMA ModifyVersionIsGood ==
  ASSUME Good(elf), NEW i \in Nat, NEW v, ModifyVersion(i, v)
  PROVE  Good(elf')
<1>1. "versym" \in Tables
  BY TablesAre
<1>2. IsTable(elf, "versym", Sec("versym"))
  BY <1>1, HasIs DEF ModifyVersion
<1>3. PICK x : x = modify_version(Sec("versym"), i, v)
  OBVIOUS
<1>4. i < CountNumbers(Sec("versym"), HalfBytes)
  BY DEF ModifyVersion
<1>5. Edit(elf, x)
  BY <1>2, <1>3, <1>4, VersionIsModified DEF IsTable
<1>6. elf' = SetSection(elf, x)
  BY <1>3 DEF ModifyVersion
<1>7. EditedObject(elf, SetSection(elf, x))
  BY <1>5, EditedObjectSelf, EditOneMore
<1>8. QED BY <1>6, <1>7, EditedIsGood

----------------------------------------
(* Strings that are added *)

(* The section t is s with the cells raw behind its own. *)
Longer(s, t, raw) == t.data = s.data \o raw /\ t.sh.size = s.sh.size + Len(raw) /\ Edited(s, t)

LEMMA AppendIsLonger ==
  ASSUME NEW s, Edited(s, s), s.sh.type # "NOBITS", NEW raw, IsList(raw)
  PROVE  Longer(s, append_data(s, raw), raw)
<1>1. PICK d, cap, size, stream :
        /\ d = s.data \o raw
        /\ cap = (IF s.sh.size + Len(raw) < s.cap THEN s.cap ELSE 2 * (s.cap + Len(raw)))
        /\ stream = s.stream + Len(raw) /\ size = s.sh.size + Len(raw)
  OBVIOUS
<1>2. PICK u : u = append_data(s, raw)
  OBVIOUS
<1>3. u = [s EXCEPT !.cap = cap, !.data = d, !.sh.size = size, !.stream = stream]
  BY <1>1, <1>2 DEF append_data
<1>4. DOMAIN s = SectionFields /\ DOMAIN s.sh = ShdrFields
  BY DEF Edited
<1>5. u.data = d /\ u.sh = [s.sh EXCEPT !.size = size]
  BY <1>3, <1>4 DEF SectionFields
<1>6. u.sh.size = size
  BY <1>4, <1>5 DEF ShdrFields
<1>7. Edited(s, u)
  BY <1>2, AppendedIs
<1>8. QED BY <1>1, <1>2, <1>5, <1>6, <1>7 DEF Longer

(* The end of the string at i. *)
Ends(s, i, e) ==
  /\ e \in (i + 1) .. Len(s.data) /\ s.data[e] = NUL
  /\ \A n \in (i + 1) .. Len(s.data) : s.data[n] = NUL => e <= n

LEMMA StringEnds ==
  ASSUME NEW s, NEW i \in Nat, IsList(s.data), get_string(s, i) # NoString
  PROVE  /\ i < s.sh.size
         /\ \E e : Ends(s, i, e) /\ get_string(s, i) = SubSeq(s.data, i + 1, e - 1)
<1>1. PICK m \in Nat : m = Len(s.data)
  BY ListIs
<1>2. PICK S : S = { n \in (i + 1) .. m : s.data[n] = NUL }
  OBVIOUS
<1>3. get_string(s, i) = IF i < s.sh.size /\ S # {} THEN SubSeq(s.data, i + 1, Min(S) - 1) ELSE NoString
  BY <1>1, <1>2 DEF get_string
<1>4. i < s.sh.size /\ S # {}
  BY <1>3
<1>5. S \in SUBSET Nat
  BY <1>1, <1>2
<1>6. PICK e : e = Min(S) /\ e \in S /\ \A n \in S : e <= n
  BY <1>4, <1>5, MinIs
<1>7. Ends(s, i, e)
  BY <1>1, <1>2, <1>6 DEF Ends
<1>8. get_string(s, i) = SubSeq(s.data, i + 1, e - 1)
  BY <1>3, <1>4, <1>6
<1>9. QED BY <1>4, <1>7, <1>8

PartOf(s, m, n, r) == IsList(r) /\ Len(r) = n /\ \A k \in 1 .. n : r[k] = s[m + k]

LEMMA PartIsPart ==
  ASSUME NEW s, IsList(s), NEW m \in Nat, NEW n \in Nat, m + n <= Len(s)
  PROVE  PartOf(s, m, n, SubSeq(s, m + 1, m + n))
  BY PartIs DEF PartOf

LEMMA StringIs ==
  ASSUME NEW s, NEW i \in Nat, IsList(s.data), i < s.sh.size, NEW e, Ends(s, i, e)
  PROVE  get_string(s, i) = SubSeq(s.data, i + 1, e - 1)
<1>1. PICK m \in Nat : m = Len(s.data)
  BY ListIs
<1>2. PICK S : S = { n \in (i + 1) .. m : s.data[n] = NUL }
  OBVIOUS
<1>3. e \in S /\ \A n \in S : e <= n
  BY <1>1, <1>2 DEF Ends
<1>4. S \in SUBSET Nat /\ S # {}
  BY <1>1, <1>2, <1>3
<1>5. PICK x : x = Min(S) /\ x \in S /\ \A n \in S : x <= n
  BY <1>4, MinIs
<1>6. x = e
  <2>1. x <= e /\ e <= x /\ x \in Nat /\ e \in Nat
    BY <1>3, <1>4, <1>5
  <2>2. QED BY <2>1
<1>7. get_string(s, i) = IF i < s.sh.size /\ S # {} THEN SubSeq(s.data, i + 1, Min(S) - 1) ELSE NoString
  BY <1>1, <1>2 DEF get_string
<1>8. QED BY <1>4, <1>5, <1>6, <1>7

(* A string stays what it was. *)
LEMMA StringKept ==
  ASSUME NEW s, Edited(s, s), s.sh.type # "NOBITS", NEW raw, IsList(raw), NEW t, Longer(s, t, raw),
         NEW i \in Nat, get_string(s, i) # NoString
  PROVE  get_string(t, i) = get_string(s, i)
<1>1. IsList(s.data) /\ Len(s.data) = s.sh.size /\ s.sh.size \in Nat
  BY DEF Edited
<1>2. PICK m \in Nat, w \in Nat : m = Len(s.data) /\ w = Len(raw)
  BY <1>1, ListIs
<1>3. PICK x : x = s.data \o raw
  OBVIOUS
<1>4. IsList(x) /\ Len(x) = m + w /\ \A k \in 1 .. m : x[k] = s.data[k]
  BY <1>1, <1>2, <1>3, ListsJoin, ZenonT(40)
<1>5. t.data = x /\ t.sh.size = m + w
  BY <1>1, <1>2, <1>3 DEF Longer
<1>6. PICK e : Ends(s, i, e) /\ get_string(s, i) = SubSeq(s.data, i + 1, e - 1) /\ i < s.sh.size
  BY <1>1, StringEnds
<1>7. e \in (i + 1) .. m /\ s.data[e] = NUL /\ \A n \in (i + 1) .. m : s.data[n] = NUL => e <= n
  BY <1>2, <1>6 DEF Ends
<1>8. e \in (i + 1) .. (m + w) /\ x[e] = NUL
  BY <1>2, <1>4, <1>7
<1>9. ASSUME NEW n \in (i + 1) .. (m + w), x[n] = NUL PROVE e <= n
  <2>1. CASE n <= m
    BY <1>2, <1>4, <1>7, <1>9, <2>1
  <2>2. CASE ~(n <= m)
    BY <1>2, <1>7, <2>2
  <2>3. QED BY <2>1, <2>2
<1>10. Ends(t, i, e)
  BY <1>4, <1>5, <1>8, <1>9 DEF Ends
<1>11. i < t.sh.size /\ IsList(t.data)
  BY <1>1, <1>2, <1>4, <1>5, <1>6
<1>12. get_string(t, i) = SubSeq(x, i + 1, e - 1)
  BY <1>5, <1>10, <1>11, StringIs
<1>13. PICK n \in Nat : n = e - 1 - i /\ e - 1 = i + n /\ i + n <= m /\ i + n <= m + w
  BY <1>2, <1>7
<1>14. PICK b : b = SubSeq(s.data, i + 1, i + n) /\ PartOf(s.data, i, n, b)
  <2>1. i + n <= Len(s.data)
    BY <1>2, <1>13
  <2>2. QED BY <1>1, <2>1, PartIsPart
<1>15. PICK a : a = SubSeq(x, i + 1, i + n) /\ PartOf(x, i, n, a)
  <2>1. i + n <= Len(x)
    BY <1>4, <1>13
  <2>2. QED BY <1>4, <2>1, PartIsPart
<1>17. \A k \in 1 .. n : a[k] = b[k]
  <2>1. \A k \in 1 .. n : i + k \in 1 .. m
    BY <1>2, <1>13
  <2>2. QED BY <1>4, <1>14, <1>15, <2>1 DEF PartOf
<1>18. a = b
  BY <1>14, <1>15, <1>17, ListsEqual DEF PartOf
<1>19. QED BY <1>6, <1>12, <1>13, <1>14, <1>15, <1>18

Ended(txt) == Append(txt, NUL)
NoNul(txt) == NUL \notin ToSet(txt)

(* A string that is added is found where it was put. *)
LEMMA StringFound ==
  ASSUME NEW s, Edited(s, s), s.sh.type # "NOBITS", NEW txt, IsList(txt), NoNul(txt),
         NEW t, Longer(s, t, Ended(txt))
  PROVE  get_string(t, s.sh.size) = txt
<1>1. IsList(s.data) /\ Len(s.data) = s.sh.size /\ s.sh.size \in Nat
  BY DEF Edited
<1>2. PICK m \in Nat, w \in Nat : m = Len(s.data) /\ w = Len(txt)
  BY <1>1, ListIs
<1>20. DOMAIN txt = 1 .. w /\ m = s.sh.size
  BY <1>1, <1>2, ListIs
<1>3. PICK raw : raw = Ended(txt)
  OBVIOUS
<1>4. IsList(raw) /\ Len(raw) = w + 1 /\ raw[w + 1] = NUL /\ \A k \in 1 .. w : raw[k] = txt[k]
  BY <1>2, <1>3, ListGrows DEF Ended
<1>5. PICK x : x = s.data \o raw
  OBVIOUS
<1>6. IsList(x) /\ Len(x) = m + (w + 1) /\ \A k \in 1 .. (w + 1) : x[m + k] = raw[k]
  <2>1. IsList(x) /\ Len(x) = Len(s.data) + Len(raw) /\ \A k \in 1 .. Len(raw) : x[Len(s.data) + k] = raw[k]
    <3>1. IsList(s.data) /\ IsList(raw)
      BY <1>1, <1>4
    <3>2. /\ IsList(s.data \o raw) /\ Len(s.data \o raw) = Len(s.data) + Len(raw)
          /\ \A k \in 1 .. Len(raw) : (s.data \o raw)[Len(s.data) + k] = raw[k]
      BY <3>1, ListsJoin
    <3>3. QED BY <1>5, <3>2
  <2>2. Len(s.data) = m /\ Len(raw) = w + 1
    BY <1>2, <1>4
  <2>3. QED BY <2>1, <2>2
<1>7. t.data = x /\ t.sh.size = m + (w + 1)
  BY <1>2, <1>20, <1>3, <1>4, <1>5 DEF Longer
<1>8. \A k \in 1 .. w : x[m + k] = txt[k] /\ txt[k] # NUL
  <2>1. \A k \in 1 .. w : k \in 1 .. (w + 1) /\ txt[k] \in ToSet(txt)
    BY <1>2, <1>20 DEF ToSet, NoNul
  <2>2. QED BY <1>4, <1>6, <2>1 DEF NoNul
<1>9. PICK e \in Nat : e = m + (w + 1)
  OBVIOUS
<1>10. e \in (m + 1) .. e /\ x[e] = NUL
  <2>1. w + 1 \in 1 .. (w + 1) /\ e \in (m + 1) .. e
    BY <1>9
  <2>2. x[m + (w + 1)] = raw[w + 1]
    BY <1>6, <2>1
  <2>3. QED BY <1>4, <1>9, <2>1, <2>2
<1>11. ASSUME NEW n \in (m + 1) .. e, x[n] = NUL PROVE e <= n
  <2>1. PICK k \in 1 .. (w + 1) : n = m + k
    <3>1. n - m \in 1 .. (w + 1) /\ n = m + (n - m)
      BY <1>9
    <3>2. QED BY <3>1
  <2>2. ~(k \in 1 .. w)
    BY <1>8, <1>11, <2>1
  <2>3. k = w + 1
    BY <2>1, <2>2
  <2>4. QED BY <1>9, <2>1, <2>3
<1>12. Ends(t, m, e)
  BY <1>6, <1>7, <1>9, <1>10, <1>11 DEF Ends
<1>13. m < t.sh.size /\ IsList(t.data)
  BY <1>6, <1>7
<1>14. get_string(t, m) = SubSeq(x, m + 1, e - 1)
  BY <1>7, <1>12, <1>13, StringIs
<1>15. e - 1 = m + w /\ m + w <= Len(x)
  BY <1>6, <1>9
<1>16. PICK a : a = SubSeq(x, m + 1, m + w) /\ PartOf(x, m, w, a)
  BY <1>6, <1>15, PartIsPart
<1>17. \A k \in 1 .. w : a[k] = txt[k]
  BY <1>8, <1>16 DEF PartOf
<1>18. a = txt
  BY <1>2, <1>16, <1>17, ListsEqual DEF PartOf
<1>19. QED BY <1>2, <1>14, <1>15, <1>16, <1>18, <1>20

(* What add_string does to a string table. *)
StringPut(s, txt, x, pos) ==
  /\ pos \in Nat /\ Edited(s, x) /\ get_string(x, pos) = txt
  /\ \A i \in Nat : get_string(s, i) # NoString => get_string(x, i) = get_string(s, i)

LEMMA AddStringIs ==
  ASSUME NEW s, Edited(s, s), s.sh.type # "NOBITS", NEW txt, IsList(txt), NoNul(txt)
  PROVE  StringPut(s, txt, add_string(s, txt).sec, add_string(s, txt).pos)
<1>1. PICK nul : nul = << NUL >> /\ IsList(nul)
  BY OneCell
<1>2. PICK raw : raw = Ended(txt) /\ IsList(raw)
  BY ListGrows DEF Ended
<1>3. PICK f : f = (IF s.sh.size = 0 THEN append_data(s, nul) ELSE s)
  OBVIOUS
<1>4. /\ Edited(s, f) /\ Edited(f, f) /\ f.sh.type # "NOBITS"
      /\ \A i \in Nat : get_string(s, i) # NoString => get_string(f, i) = get_string(s, i)
  <2>1. CASE s.sh.size = 0
    <3>1. f = append_data(s, nul)
      BY <1>3, <2>1
    <3>2. Longer(s, f, nul)
      BY <1>1, <3>1, AppendIsLonger
    <3>3. Edited(s, f)
      BY <3>2 DEF Longer
    <3>4. Edited(f, f) /\ f.sh.type # "NOBITS"
      BY <3>3 DEF Edited
    <3>5. ASSUME NEW i \in Nat, get_string(s, i) # NoString PROVE get_string(f, i) = get_string(s, i)
      BY <1>1, <3>2, <3>5, StringKept
    <3>6. QED BY <3>3, <3>4, <3>5
  <2>2. CASE s.sh.size # 0
    BY <1>3, <2>2
  <2>3. QED BY <2>1, <2>2
<1>5. PICK t : t = append_data(f, raw)
  OBVIOUS
<1>6. Longer(f, t, raw)
  BY <1>2, <1>4, <1>5, AppendIsLonger
<1>7. \A i \in Nat : get_string(f, i) # NoString => get_string(t, i) = get_string(f, i)
  <2>1. SUFFICES ASSUME NEW i \in Nat, get_string(f, i) # NoString
                 PROVE  get_string(t, i) = get_string(f, i)
    OBVIOUS
  <2>2. QED BY <1>2, <1>4, <1>6, <2>1, StringKept
<1>8. get_string(t, f.sh.size) = txt
  BY <1>2, <1>4, <1>6, StringFound
<1>9. Edited(s, t) /\ f.sh.size \in Nat
  BY <1>4, <1>6 DEF Longer, Edited
<1>10. add_string(s, txt) = [sec |-> t, pos |-> f.sh.size]
  BY <1>1, <1>2, <1>3, <1>5 DEF add_string, Ended
<1>11. add_string(s, txt).sec = t /\ add_string(s, txt).pos = f.sh.size
  BY <1>10
<1>12. PICK a, p : a = add_string(s, txt).sec /\ p = add_string(s, txt).pos /\ a = t /\ p = f.sh.size
  BY <1>11
<1>13. \A i \in Nat : get_string(s, i) # NoString => get_string(t, i) = get_string(s, i)
  BY <1>4, <1>7
<1>14. StringPut(s, txt, a, p)
  BY <1>8, <1>9, <1>12, <1>13 DEF StringPut
<1>15. QED BY <1>12, <1>14

----------------------------------------
(* A section that is added *)

NewNamed(m, name) == [NewSection(m) EXCEPT !.name = name]
NameAt(sec, pos) == [sec EXCEPT !.sh.name = pos]

(* AddSection puts the name into section 2, which may be the new one. *)
AddedWith(e, r, m, new, x, pos) ==
  /\ DOMAIN r = ElfFields /\ r.hdr = e.hdr /\ r.segments = e.segments /\ r.pos = e.pos
  /\ IsList(r.sections) /\ Len(r.sections) = m + 1
  /\ \A n \in 1 .. m : n # 2 => r.sections[n] = e.sections[n]
  /\ m # 1 => r.sections[2] = x /\ r.sections[m + 1] = NameAt(new, pos)
  /\ m = 1 => r.sections[2] = NameAt(x, pos)

LEMMA NotOne ==
  ASSUME NEW m \in Nat \ {0}, m # 1
  PROVE  2 \in 1 .. m /\ 2 \in 1 .. (m + 1) /\ 2 # m + 1
  OBVIOUS

(* The list t is s with x at i. *)
ChangedAt(s, i, x, t) ==
  /\ IsList(t) /\ Len(t) = Len(s) /\ t[i] = x
  /\ \A k \in 1 .. Len(s) : k # i => t[k] = s[k]

LEMMA ListChangesTo ==
  ASSUME NEW s, IsList(s), NEW i, i \in 1 .. Len(s), NEW x
  PROVE  ChangedAt(s, i, x, [s EXCEPT ![i] = x])
  BY ListChanges DEF ChangedAt

(* What AddSection looks at. *)
AddedFrom(e, m, name, new, s, x, pos) ==
  /\ DOMAIN e = ElfFields /\ IsList(e.sections) /\ e.hdr.shstrndx = 1 /\ m = Len(e.sections)
  /\ new = NewNamed(m, name) /\ s = (IF m = 1 THEN new ELSE e.sections[2])
  /\ x = add_string(s, name).sec /\ x.index = 1 /\ pos = add_string(s, name).pos

LEMMA AddedShape ==
  ASSUME NEW e, NEW m \in Nat \ {0}, NEW name, NEW new, NEW s, NEW x, NEW pos,
         AddedFrom(e, m, name, new, s, x, pos)
  PROVE  AddedWith(e, AddSection(e, name), m, new, x, pos)
<1>0. /\ DOMAIN e = ElfFields /\ IsList(e.sections) /\ e.hdr.shstrndx = 1 /\ m = Len(e.sections)
      /\ new = NewNamed(m, name) /\ s = (IF m = 1 THEN new ELSE e.sections[2])
      /\ x = add_string(s, name).sec /\ x.index = 1 /\ pos = add_string(s, name).pos
  BY DEF AddedFrom
<1>1. PICK S1 : S1 = Append(e.sections, NewSection(m))
  OBVIOUS
<1>2. /\ IsList(S1) /\ Len(S1) = m + 1 /\ S1[m + 1] = NewSection(m)
      /\ \A k \in 1 .. m : S1[k] = e.sections[k]
  BY <1>0, <1>1, ListGrows
<1>3. PICK c : c = create_section(e)
  OBVIOUS
<1>4. DOMAIN c = ElfFields /\ c.sections = S1 /\ c.hdr = e.hdr /\ c.segments = e.segments /\ c.pos = e.pos
  <2>1. c = [e EXCEPT !.sections = S1]
    BY <1>0, <1>1, <1>3 DEF create_section
  <2>2. QED BY <1>0, <2>1 DEF ElfFields
<1>5. PICK S2 : S2 = [S1 EXCEPT ![m + 1] = new]
  OBVIOUS
<1>6. m + 1 \in 1 .. (m + 1)
  OBVIOUS
<1>7. /\ IsList(S2) /\ Len(S2) = m + 1 /\ S2[m + 1] = new
      /\ \A k \in 1 .. m : S2[k] = e.sections[k]
  <2>1. m + 1 \in 1 .. Len(S1)
    BY <1>2, <1>6
  <2>2. /\ IsList(S2) /\ Len(S2) = Len(S1) /\ S2[m + 1] = new
        /\ \A k \in 1 .. Len(S1) : k # m + 1 => S2[k] = S1[k]
    <3>1. ChangedAt(S1, m + 1, new, [S1 EXCEPT ![m + 1] = new])
      BY <1>2, <2>1, ListChangesTo
    <3>2. ChangedAt(S1, m + 1, new, S2)
      BY <1>5, <3>1
    <3>3. QED BY <3>2 DEF ChangedAt
  <2>3. \A k \in 1 .. m : k \in 1 .. (m + 1) /\ k # m + 1
    OBVIOUS
  <2>4. QED BY <1>2, <2>2, <2>3
<1>8. PICK d : d = [c EXCEPT !.sections[m + 1].name = name]
  OBVIOUS
<1>9. DOMAIN d = ElfFields /\ d.sections = S2 /\ d.hdr = e.hdr /\ d.segments = e.segments /\ d.pos = e.pos
  <2>1. d = [c EXCEPT !.sections = [c.sections EXCEPT ![m + 1] = [c.sections[m + 1] EXCEPT !.name = name]]]
    BY <1>8
  <2>2. [c.sections[m + 1] EXCEPT !.name = name] = new
    BY <1>0, <1>2, <1>4 DEF NewNamed
  <2>3. d = [c EXCEPT !.sections = S2]
    BY <1>4, <1>5, <2>1, <2>2
  <2>4. QED BY <1>4, <2>3 DEF ElfFields
<1>10. S2[2] = s
  <2>1. CASE m = 1
    BY <1>0, <1>7, <2>1
  <2>2. CASE m # 1
    <3>1. 2 \in 1 .. m
      BY <2>2, NotOne
    <3>2. QED BY <1>0, <1>7, <2>2, <3>1
  <2>3. QED BY <2>1, <2>2
<1>11. PICK q : q = SetSection(d, x)
  OBVIOUS
<1>12. 1 + 1 \in 1 .. Len(S2) /\ 1 + 1 = 2 /\ 1 \in Nat
  BY <1>7
<1>13. /\ DOMAIN q = ElfFields /\ q.hdr = e.hdr /\ q.segments = e.segments /\ q.pos = e.pos
       /\ IsList(q.sections) /\ Len(q.sections) = m + 1 /\ q.sections[2] = x
       /\ \A n \in 1 .. (m + 1) : n # 2 => q.sections[n] = S2[n]
  <2>1. WithSection(d, 1, x, q)
    BY <1>0, <1>7, <1>9, <1>11, <1>12, SetSectionIs, SMTT(30)
  <2>2. QED BY <1>7, <1>9, <1>12, <2>1, SMTT(30) DEF WithSection
<1>14. PICK y : y = NameAt(q.sections[m + 1], pos)
  OBVIOUS
<1>15. PICK S4 : S4 = [q.sections EXCEPT ![m + 1] = y]
  OBVIOUS
<1>16. PICK r : r = [q EXCEPT !.sections[m + 1].sh.name = pos]
  OBVIOUS
<1>17. r = [q EXCEPT !.sections = S4]
  <2>1. r = [q EXCEPT !.sections = [q.sections EXCEPT ![m + 1] = [q.sections[m + 1] EXCEPT !.sh.name = pos]]]
    BY <1>16
  <2>2. QED BY <1>14, <1>15, <2>1 DEF NameAt
<1>18. /\ DOMAIN r = ElfFields /\ r.hdr = e.hdr /\ r.segments = e.segments /\ r.pos = e.pos
       /\ r.sections = S4
  BY <1>13, <1>17 DEF ElfFields
<1>19. /\ IsList(S4) /\ Len(S4) = m + 1 /\ S4[m + 1] = y
       /\ \A k \in 1 .. (m + 1) : k # m + 1 => S4[k] = q.sections[k]
  <2>1. m + 1 \in 1 .. Len(q.sections)
    BY <1>6, <1>13
  <2>2. /\ IsList(S4) /\ Len(S4) = Len(q.sections) /\ S4[m + 1] = y
        /\ \A k \in 1 .. Len(q.sections) : k # m + 1 => S4[k] = q.sections[k]
    <3>1. ChangedAt(q.sections, m + 1, y, [q.sections EXCEPT ![m + 1] = y])
      BY <1>13, <2>1, ListChangesTo
    <3>2. ChangedAt(q.sections, m + 1, y, S4)
      BY <1>15, <3>1
    <3>3. QED BY <3>2 DEF ChangedAt
  <2>3. QED BY <1>13, <2>2
<1>20. \A n \in 1 .. m : n # 2 => S4[n] = e.sections[n]
  <2>1. \A n \in 1 .. m : n \in 1 .. (m + 1) /\ n # m + 1
    OBVIOUS
  <2>2. QED BY <1>7, <1>13, <1>19, <2>1
<1>21. ASSUME m # 1 PROVE S4[2] = x /\ S4[m + 1] = NameAt(new, pos)
  <2>1. 2 \in 1 .. (m + 1) /\ 2 # m + 1
    BY <1>21, NotOne
  <2>2. q.sections[m + 1] = new
    BY <1>6, <1>7, <1>13, <2>1
  <2>3. QED BY <1>13, <1>14, <1>19, <2>1, <2>2
<1>22. ASSUME m = 1 PROVE S4[2] = NameAt(x, pos)
  <2>1. m + 1 = 2
    BY <1>22
  <2>2. S4[2] = y /\ q.sections[2] = x /\ y = NameAt(q.sections[2], pos)
    BY <1>13, <1>14, <1>19, <2>1
  <2>3. QED BY <2>2
<1>23. AddSection(e, name) = r
  <2>1. d.hdr.shstrndx + 1 = 2
    BY <1>0, <1>9
  <2>2. add_string(d.sections[d.hdr.shstrndx + 1], name) = add_string(s, name)
    BY <1>9, <1>10, <2>1
  <2>3. PICK a : a = add_string(s, name) /\ a.sec = x /\ a.pos = pos
    BY <1>0
  <2>4. QED BY <1>0, <1>3, <1>8, <1>11, <1>16, <2>2, <2>3, Zenon DEF AddSection
<1>24. AddedWith(e, r, m, new, x, pos)
  BY <1>18, <1>19, <1>20, <1>21, <1>22 DEF AddedWith
<1>25. QED BY <1>23, <1>24

(* A section as sections.add returns it. *)
Fresh(sec, m, name) ==
  /\ DOMAIN sec = SectionFields /\ DOMAIN sec.sh = ShdrFields
  /\ sec.index = m /\ sec.name = name /\ sec.data = << >> /\ sec.addrset = FALSE
  /\ sec.sh.name \in Nat /\ sec.sh.addr = 0 /\ sec.sh.offset = 0
  /\ sec.sh.size = 0 /\ sec.sh.entsize = 0

(* The object r is e with a section of that name. *)
Added(e, name, r, m) ==
  /\ DOMAIN r = ElfFields /\ r.hdr = e.hdr /\ r.segments = e.segments
  /\ IsList(r.sections) /\ Len(r.sections) = m + 1
  /\ \A n \in 1 .. m : n # 2 => r.sections[n] = e.sections[n]
  /\ StringPut(e.sections[2], name, r.sections[2], r.sections[m + 1].sh.name)
  /\ Fresh(r.sections[m + 1], m, name)

LEMMA FreshIs ==
  ASSUME NEW m, NEW name, NEW pos \in Nat
  PROVE  Fresh(NameAt(NewNamed(m, name), pos), m, name)
<1>1. PICK u : u = NewSection(m)
  OBVIOUS
<1>2. /\ DOMAIN u = SectionFields /\ u.sh = ZeroShdr /\ u.index = m /\ u.data = << >> /\ u.addrset = FALSE
  BY <1>1 DEF NewSection, SectionFields
<1>3. PICK v : v = NewNamed(m, name)
  OBVIOUS
<1>4. v = [u EXCEPT !.name = name]
  BY <1>1, <1>3 DEF NewNamed
<1>5. /\ DOMAIN v = SectionFields /\ v.sh = ZeroShdr /\ v.index = m /\ v.data = << >> /\ v.addrset = FALSE
      /\ v.name = name
  BY <1>2, <1>4 DEF SectionFields
<1>6. PICK t : t = NameAt(v, pos)
  OBVIOUS
<1>7. t = [v EXCEPT !.sh = [ZeroShdr EXCEPT !.name = pos]]
  BY <1>5, <1>6 DEF NameAt
<1>8. PICK h : h = [ZeroShdr EXCEPT !.name = pos]
  OBVIOUS
<1>9. /\ DOMAIN h = ShdrFields /\ h.name = pos /\ h.addr = 0 /\ h.offset = 0 /\ h.size = 0 /\ h.entsize = 0
  BY <1>8 DEF ZeroShdr, ShdrFields
<1>10. /\ DOMAIN t = SectionFields /\ t.sh = h /\ t.index = m /\ t.data = << >> /\ t.addrset = FALSE
       /\ t.name = name
  BY <1>5, <1>7, <1>8 DEF SectionFields
<1>11. Fresh(t, m, name)
  BY <1>9, <1>10 DEF Fresh
<1>12. QED BY <1>3, <1>6, <1>11

LEMMA FreshName ==
  ASSUME NEW m, NEW name, NEW pos
  PROVE  NameAt(NewNamed(m, name), pos).sh.name = pos
<1>1. PICK v : v = NewNamed(m, name)
  OBVIOUS
<1>2. "sh" \in DOMAIN v /\ "name" \in DOMAIN v.sh
  BY <1>1 DEF NewNamed, NewSection, ZeroShdr
<1>3. NameAt(v, pos).sh.name = pos
  BY <1>2 DEF NameAt
<1>4. QED BY <1>1, <1>3

LEMMA SectionIsAdded ==
  ASSUME NEW e, Sound(e), NEW name, IsList(name), NoNul(name), NEW m \in Nat, m = Len(e.sections)
  PROVE  Added(e, name, AddSection(e, name), m) /\ m >= 2
<1>1. m >= 2 /\ m \in Nat \ {0} /\ m # 1
  BY DEF Sound, IsObject
<1>2. DOMAIN e = ElfFields /\ IsList(e.sections) /\ e.hdr.shstrndx = 1
  BY DEF Sound, IsObject, IsHeader
<1>3. PICK s : s = e.sections[2]
  OBVIOUS
<1>4. Edited(s, s) /\ s.sh.type # "NOBITS" /\ s.index = 1
  <2>1. IsSection(e.sections[2], 2 - 1)
    BY <1>1 DEF Sound, IsObject
  <2>2. s.index = 1 /\ Edited(s, s)
    BY <1>3, <2>1, EditedSelf, SMTT(30) DEF IsSection
  <2>3. QED BY <1>3, <2>2 DEF Sound
<1>5. PICK new, x, pos : /\ new = NewNamed(m, name) /\ x = add_string(s, name).sec
                         /\ pos = add_string(s, name).pos
  OBVIOUS
<1>6. StringPut(s, name, x, pos)
  BY <1>4, <1>5, AddStringIs
<1>7. x.index = 1 /\ pos \in Nat
  BY <1>4, <1>6 DEF StringPut, Edited
<1>8. s = IF m = 1 THEN new ELSE e.sections[2]
  BY <1>1, <1>3
<1>9. PICK r : r = AddSection(e, name) /\ AddedWith(e, r, m, new, x, pos)
  <2>1. AddedFrom(e, m, name, new, s, x, pos)
    BY <1>2, <1>5, <1>7, <1>8 DEF AddedFrom
  <2>2. AddedWith(e, AddSection(e, name), m, new, x, pos)
    BY <1>1, <2>1, AddedShape
  <2>3. QED BY <2>2
<1>10. Fresh(NameAt(new, pos), m, name)
  BY <1>5, <1>7, FreshIs
<1>11. /\ r.sections[2] = x /\ r.sections[m + 1] = NameAt(new, pos)
       /\ DOMAIN r = ElfFields /\ r.hdr = e.hdr /\ r.segments = e.segments
       /\ IsList(r.sections) /\ Len(r.sections) = m + 1
       /\ \A n \in 1 .. m : n # 2 => r.sections[n] = e.sections[n]
  BY <1>1, <1>9 DEF AddedWith
<1>12. NameAt(new, pos).sh.name = pos
  BY <1>5, FreshName
<1>13. Added(e, name, r, m)
  BY <1>3, <1>6, <1>10, <1>11, <1>12 DEF Added
<1>14. QED BY <1>1, <1>9, <1>13

----------------------------------------
(* The section that was added is made what it shall be *)

(* The object d is r with t as its last section. *)
WithLast(r, m, t, d) ==
  /\ DOMAIN d = ElfFields /\ d.hdr = r.hdr /\ d.segments = r.segments
  /\ IsList(d.sections) /\ Len(d.sections) = m + 1 /\ d.sections[m + 1] = t
  /\ \A n \in 1 .. m : d.sections[n] = r.sections[n]

LEMMA LastIsSet ==
  ASSUME NEW r, DOMAIN r = ElfFields, IsList(r.sections), NEW m \in Nat, Len(r.sections) = m + 1,
         NEW t
  PROVE  WithLast(r, m, t, [r EXCEPT !.sections = [r.sections EXCEPT ![m + 1] = t]])
<1>1. PICK S : S = [r.sections EXCEPT ![m + 1] = t]
  OBVIOUS
<1>2. m + 1 \in 1 .. Len(r.sections)
  OBVIOUS
<1>3. ChangedAt(r.sections, m + 1, t, S)
  BY <1>1, <1>2, ListChangesTo
<1>4. PICK d : d = [r EXCEPT !.sections = S]
  OBVIOUS
<1>5. DOMAIN d = ElfFields /\ d.hdr = r.hdr /\ d.segments = r.segments /\ d.sections = S
  BY <1>4 DEF ElfFields
<1>6. \A n \in 1 .. m : n \in 1 .. (m + 1) /\ n # m + 1
  OBVIOUS
<1>7. WithLast(r, m, t, d)
  BY <1>3, <1>5, <1>6 DEF ChangedAt, WithLast
<1>8. QED BY <1>1, <1>4, <1>7

(* How the name of the section is found again. *)
LEMMA NamesKeptWith ==
  ASSUME NEW e, Sound(e), NEW m \in Nat, m = Len(e.sections), m >= 2, NEW name,
         NEW r, Added(e, name, r, m), NEW t, SoundSection(e.hdr.class, t, m), t.name = name,
         t.sh.name = r.sections[m + 1].sh.name, NEW d, WithLast(r, m, t, d)
  PROVE  NamesKept(d)
<1>1. 2 \in 1 .. m /\ 1 \in 1 .. m
  OBVIOUS
<1>2. PICK x : x = r.sections[2] /\ x = d.sections[2]
  BY <1>1 DEF WithLast
<1>3. StringPut(e.sections[2], name, x, t.sh.name)
  BY <1>2 DEF Added
<1>4. get_string(x, t.sh.name) = name
  BY <1>3 DEF StringPut
<1>5. ASSUME NEW n \in 1 .. m
      PROVE  get_string(x, d.sections[n].sh.name) = d.sections[n].name /\ d.sections[n].name # NoString
  <2>1. /\ get_string(e.sections[2], e.sections[n].sh.name) = e.sections[n].name
        /\ e.sections[n].name # NoString
    BY DEF Sound, NamesKept
  <2>2. e.sections[n].sh.name \in Nat
    BY DEF Sound, SoundSection
  <2>3. get_string(x, e.sections[n].sh.name) = e.sections[n].name
    BY <1>3, <2>1, <2>2 DEF StringPut
  <2>4. d.sections[n].sh.name = e.sections[n].sh.name /\ d.sections[n].name = e.sections[n].name
    <3>1. CASE n = 2
      BY <1>2, <1>3, <3>1 DEF StringPut, Edited
    <3>2. CASE n # 2
      BY <3>2 DEF Added, WithLast
    <3>3. QED BY <3>1, <3>2
  <2>5. QED BY <2>1, <2>3, <2>4
<1>6. t.name # NoString /\ d.sections[m + 1] = t
  BY DEF SoundSection, WithLast
<1>7. ASSUME NEW n \in 1 .. (m + 1)
      PROVE  get_string(x, d.sections[n].sh.name) = d.sections[n].name /\ d.sections[n].name # NoString
  <2>1. CASE n = m + 1
    BY <1>4, <1>6, <2>1
  <2>2. CASE n # m + 1
    <3>1. n \in 1 .. m
      BY <2>2
    <3>2. QED BY <1>5, <3>1
  <2>3. QED BY <2>1, <2>2
<1>8. Len(d.sections) = m + 1
  BY DEF WithLast
<1>9. QED BY <1>2, <1>7, <1>8 DEF NamesKept

LEMMA AddedIsSound ==
  ASSUME NEW e, Sound(e), NEW m \in Nat, m = Len(e.sections), m >= 2, NEW name,
         NEW r, Added(e, name, r, m), NEW t, SoundSection(e.hdr.class, t, m), t.name = name,
         t.sh.name = r.sections[m + 1].sh.name, NEW d, WithLast(r, m, t, d)
  PROVE  /\ Sound(d) /\ Len(d.sections) = m + 1
         /\ \A u : HasNamed(d, u) <=> HasNamed(e, u) \/ name = TableName(u)
<1>1. NamesKept(d)
  BY NamesKeptWith
<1>2. /\ DOMAIN d = ElfFields /\ d.hdr = e.hdr /\ d.segments = e.segments
      /\ IsList(d.sections) /\ Len(d.sections) = m + 1 /\ d.sections[m + 1] = t
      /\ \A n \in 1 .. m : n # 2 => d.sections[n] = e.sections[n]
      /\ Edited(e.sections[2], d.sections[2])
  <2>1. 2 \in 1 .. m
    OBVIOUS
  <2>2. QED BY <2>1 DEF Added, WithLast, StringPut
<1>3. \A n \in 1 .. m : SoundSection(e.hdr.class, e.sections[n], n - 1)
  BY DEF Sound
<1>4. ASSUME NEW n \in 1 .. (m + 1) PROVE SoundSection(d.hdr.class, d.sections[n], n - 1)
  <2>1. CASE n = m + 1
    <3>1. n - 1 = m
      BY <2>1
    <3>2. QED BY <1>2, <2>1, <3>1
  <2>2. CASE n = 2
    <3>1. SoundSection(e.hdr.class, e.sections[2], 1)
      <4>1. 2 \in 1 .. m /\ 2 - 1 = 1
        OBVIOUS
      <4>2. QED BY <1>3, <4>1
    <3>2. SoundSection(e.hdr.class, d.sections[2], 1)
      BY <1>2, <3>1, EditedIsSound
    <3>3. n - 1 = 1
      BY <2>2
    <3>4. QED BY <1>2, <2>2, <3>2, <3>3
  <2>3. CASE n # m + 1 /\ n # 2
    <3>1. n \in 1 .. m
      BY <2>3
    <3>2. QED BY <1>2, <1>3, <2>3, <3>1
  <2>4. QED BY <2>1, <2>2, <2>3
<1>5. \A n \in 1 .. (m + 1) : IsSection(d.sections[n], n - 1)
  BY <1>4 DEF SoundSection
<1>6. ASSUME NEW n \in 1 .. Len(e.segments) PROVE IsSegment(e.segments[n], n - 1, m + 1)
  <2>1. IsSegment(e.segments[n], n - 1, m)
    BY DEF Sound, IsObject
  <2>2. \A k \in 1 .. (m - 1) : k \in 1 .. ((m + 1) - 1)
    OBVIOUS
  <2>3. QED BY <2>1, <2>2 DEF IsSegment
<1>7. IsHeader(d.hdr) /\ IsList(d.segments) /\ Len(d.sections) >= 2
  BY <1>2 DEF Sound, IsObject
<1>8. \A n \in 1 .. Len(d.segments) : IsSegment(d.segments[n], n - 1, Len(d.sections))
  BY <1>2, <1>6
<1>9. IsObject(d)
  BY <1>2, <1>5, <1>7, <1>8 DEF IsObject
<1>10. d.sections[2].sh.type # "NOBITS"
  BY <1>2 DEF Sound, Edited
<1>11. Sound(d)
  BY <1>1, <1>2, <1>4, <1>9, <1>10 DEF Sound
<1>12. ASSUME NEW u PROVE HasNamed(d, u) <=> HasNamed(e, u) \/ name = TableName(u)
  <2>1. \A n \in 1 .. m : d.sections[n].name = e.sections[n].name
    BY <1>2 DEF Edited
  <2>2. \A n \in 1 .. (m + 1) : n = m + 1 \/ n \in 1 .. m
    OBVIOUS
  <2>3. m + 1 \in 1 .. (m + 1) /\ \A n \in 1 .. m : n \in 1 .. (m + 1)
    OBVIOUS
  <2>4. QED BY <1>2, <2>1, <2>2, <2>3 DEF HasNamed
<1>13. QED BY <1>2, <1>11, <1>12

----------------------------------------
(* A table that is added *)

LEMMA TableNames ==
  ASSUME NEW t \in Tables
  PROVE  /\ IsList(TableName(t)) /\ NoNul(TableName(t)) /\ TableName(t) # NoString
         /\ \A u \in Tables : TableName(u) = TableName(t) => u = t
<1>1. PICK b : b = Byte(NameOf[t])
  OBVIOUS
<1>2. NameOf[t] # 0
  BY TablesAre DEF NameOf
<1>3. b # NUL
  BY <1>1, <1>2 DEF NUL, Byte
<1>4. PICK x : x = << b >> /\ x = TableName(t)
  BY <1>1 DEF TableName
<1>5. IsList(x) /\ Len(x) = 1 /\ x[1] = b
  BY <1>4, OneCell
<1>6. DOMAIN x = 1 .. 1
  BY <1>5, ListIs
<1>7. NoNul(x)
  BY <1>3, <1>5, <1>6 DEF NoNul, ToSet
<1>8. x # NoString
  <2>1. NoString[1] = NUL
    BY OneCell DEF NoString
  <2>2. QED BY <1>3, <1>5, <2>1
<1>9. ASSUME NEW u \in Tables, TableName(u) = TableName(t) PROVE u = t
  <2>1. TableName(u)[1] = Byte(NameOf[u]) /\ TableName(t)[1] = Byte(NameOf[t])
    BY OneCell DEF TableName
  <2>2. Byte(NameOf[u]) = Byte(NameOf[t])
    BY <1>9, <2>1
  <2>3. Byte(NameOf[u]).byte = Byte(NameOf[t]).byte
    BY <2>2
  <2>4. NameOf[u] = NameOf[t]
    BY <2>3 DEF Byte
  <2>5. QED BY <2>4, TablesAre DEF NameOf
<1>10. QED BY <1>4, <1>5, <1>7, <1>8, <1>9

(* What a program may ask for. *)
IsAsked(t) ==
  /\ t.name \in Tables /\ t.type \notin {"NULL", "NOBITS"}
  /\ t.name = "rel" => t.type \in {"REL", "RELA"}

LEMMA EntrySize ==
  ASSUME NEW e, IsHeader(e.hdr), NEW type, NEW n, n = get_default_entry_size(e, type)
  PROVE  /\ n \in Nat
         /\ type = "REL" => n = SizeOf[e.hdr.class]["Rel"]
         /\ type = "RELA" => n = SizeOf[e.hdr.class]["Rela"]
<1>1. DOMAIN EntryStruct = {"RELA", "REL", "SYMTAB", "DYNAMIC"}
  BY DEF EntryStruct
<1>2. /\ EntryStruct["RELA"] = "Rela" /\ EntryStruct["REL"] = "Rel"
      /\ EntryStruct["SYMTAB"] = "Sym" /\ EntryStruct["DYNAMIC"] = "Dyn"
  BY DEF EntryStruct
<1>3. CASE type \notin DOMAIN EntryStruct
  BY <1>1, <1>3 DEF get_default_entry_size
<1>4. CASE type \in DOMAIN EntryStruct
  <2>1. EntryStruct[type] \in Structures
    BY <1>1, <1>2, <1>4 DEF Structures
  <2>2. n = SizeOf[e.hdr.class][EntryStruct[type]]
    BY <1>4 DEF get_default_entry_size
  <2>3. n \in Nat
    BY <2>1, <2>2, StructuresSized
  <2>4. QED BY <1>2, <2>2, <2>3
<1>5. QED BY <1>3, <1>4

LEMMA TableIsAdded ==
  ASSUME NEW e, Sound(e), NEW t, IsAsked(t), NEW d, d = AddTable(e, t), NEW m \in Nat, m = Len(e.sections)
  PROVE  /\ Sound(d) /\ m >= 2 /\ Len(d.sections) = m + 1 /\ d.segments = e.segments /\ d.hdr = e.hdr
         /\ d.sections[m + 1].sh.type = t.type /\ d.sections[m + 1].index = m
         /\ \A u \in Tables : HasNamed(d, u) <=> HasNamed(e, u) \/ u = t.name
<1>1. PICK name : name = TableName(t.name) /\ IsList(name) /\ NoNul(name) /\ name # NoString
  BY TableNames DEF IsAsked
<1>2. \A u \in Tables : TableName(u) = name => u = t.name
  BY <1>1, TableNames DEF IsAsked
<1>3. PICK r : r = AddSection(e, name)
  OBVIOUS
<1>4. Added(e, name, r, m) /\ m >= 2
  BY <1>1, <1>3, SectionIsAdded
<1>5. /\ DOMAIN r = ElfFields /\ r.hdr = e.hdr /\ r.segments = e.segments
      /\ IsList(r.sections) /\ Len(r.sections) = m + 1
      /\ Fresh(r.sections[m + 1], m, name)
  BY <1>4 DEF Added
<1>6. PICK last : last = r.sections[m + 1] /\ Fresh(last, m, name)
  BY <1>5
<1>7. PICK type, entsize, link : /\ type = t.type /\ entsize = get_default_entry_size(e, type)
                                 /\ link = (IF t.link \in Tables THEN Min(Found(e, t.link)) - 1 ELSE 0)
  OBVIOUS
<1>8. PICK sh : sh = [last.sh EXCEPT !.type = type, !.align = 1, !.entsize = entsize, !.link = link]
  OBVIOUS
<1>9. PICK T : T = [last EXCEPT !.sh = sh]
  OBVIOUS
<1>10. d = [r EXCEPT !.sections = [r.sections EXCEPT ![m + 1] = T]]
  <2>1. d = [r EXCEPT !.sections[Len(r.sections)].sh = [@ EXCEPT !.type = type, !.align = 1,
                                                           !.entsize = entsize, !.link = link]]
    BY <1>1, <1>3, <1>7 DEF AddTable, TableName
  <2>2. d = [r EXCEPT !.sections[m + 1].sh = [@ EXCEPT !.type = type, !.align = 1,
                                                           !.entsize = entsize, !.link = link]]
    BY <1>5, <2>1
  <2>3. d = [r EXCEPT !.sections = [r.sections EXCEPT ![m + 1] =
              [r.sections[m + 1] EXCEPT !.sh =
                 [r.sections[m + 1].sh EXCEPT !.type = type, !.align = 1,
                                              !.entsize = entsize, !.link = link]]]]
    BY <2>2
  <2>4. QED BY <1>6, <1>8, <1>9, <2>3
<1>11. WithLast(r, m, T, d)
  BY <1>5, <1>10, LastIsSet
<1>12. /\ DOMAIN sh = ShdrFields /\ sh.name = last.sh.name /\ sh.type = type /\ sh.align = 1
       /\ sh.entsize = entsize /\ sh.addr = 0 /\ sh.offset = 0 /\ sh.size = 0 /\ sh.name \in Nat
  BY <1>6, <1>8 DEF Fresh, ShdrFields
<1>13. /\ DOMAIN T = SectionFields /\ T.sh = sh /\ T.index = m /\ T.name = name /\ T.data = << >>
       /\ T.addrset = FALSE
  BY <1>6, <1>9 DEF Fresh, SectionFields
<1>14. IsHeader(e.hdr)
  BY DEF Sound, IsObject
<1>15. /\ entsize \in Nat
       /\ type = "REL" => entsize = SizeOf[e.hdr.class]["Rel"]
       /\ type = "RELA" => entsize = SizeOf[e.hdr.class]["Rela"]
  BY <1>7, <1>14, EntrySize
<1>16. type # "NULL" /\ type # "NOBITS" /\ (t.name = "rel" => type \in {"REL", "RELA"})
  BY <1>7 DEF IsAsked
<1>17. IsSection(T, m)
  <2>1. 0 \in Addresses /\ IsList(<< >>) /\ Len(<< >>) = 0
    BY EmptyList, SizesAssumption DEF Addresses
  <2>2. m # 0
    BY <1>4
  <2>3. DOMAIN T = SectionFields /\ DOMAIN T.sh = ShdrFields /\ T.index = m /\ T.addrset \in BOOLEAN
    BY <1>12, <1>13
  <2>4. /\ T.sh.size = 0 /\ T.sh.align = 1 /\ T.sh.offset = 0 /\ T.sh.addr = 0
        /\ T.sh.type # "NULL" /\ T.sh.type # "NOBITS"
    BY <1>12, <1>13, <1>16
  <2>5. IsList(T.data) /\ Len(T.data) = 0
    BY <1>13, <2>1
  <2>6. T.sh.addr \in Addresses /\ T.sh.size \in Nat /\ T.sh.align \in Nat /\ T.sh.offset \in Nat
    BY <2>1, <2>4
  <2>7. QED BY <2>2, <2>3, <2>4, <2>5, <2>6 DEF IsSection
<1>18. t.name = "rel" => entsize = SizeOf[e.hdr.class][RelocStruct(T)]
  BY <1>12, <1>13, <1>15, <1>16 DEF RelocStruct
<1>19. ASSUME NEW u \in Tables, T.name = TableName(u)
       PROVE  /\ m >= 2 /\ T.sh.type # "NOBITS"
              /\ u = "rel" => T.sh.type \in {"REL", "RELA"} /\ T.sh.entsize = SizeOf[e.hdr.class][RelocStruct(T)]
  <2>1. u = t.name
    BY <1>2, <1>13, <1>19
  <2>2. QED BY <1>4, <1>12, <1>13, <1>16, <1>18, <2>1
<1>20. SoundSection(e.hdr.class, T, m)
  BY <1>1, <1>12, <1>13, <1>15, <1>17, <1>19 DEF SoundSection
<1>21. /\ Sound(d) /\ Len(d.sections) = m + 1
       /\ \A u : HasNamed(d, u) <=> HasNamed(e, u) \/ name = TableName(u)
  <2>1. T.name = name /\ T.sh.name = r.sections[m + 1].sh.name
    BY <1>6, <1>12, <1>13
  <2>2. QED BY <1>4, <1>11, <1>20, <2>1, AddedIsSound
<1>22. \A u \in Tables : HasNamed(d, u) <=> HasNamed(e, u) \/ u = t.name
  BY <1>1, <1>2, <1>21
<1>23. d.segments = e.segments /\ d.hdr = e.hdr /\ d.sections[m + 1] = T
  BY <1>5, <1>11 DEF WithLast
<1>24. QED BY <1>4, <1>7, <1>12, <1>13, <1>21, <1>22, <1>23

----------------------------------------
(* The steps that add sections and segments *)

LEMMA NameIsString ==
  ASSUME NEW name, NoNul(name)
  PROVE  name # NoString
<1>1. NoString[1] = NUL /\ Len(NoString) = 1 /\ IsList(NoString)
  BY OneCell DEF NoString
<1>2. DOMAIN NoString = 1 .. 1
  BY <1>1, ListIs
<1>3. ~NoNul(NoString)
  BY <1>1, <1>2 DEF NoNul, ToSet
<1>4. QED BY <1>3

LEMMA NamesAre ==
  ASSUME NEW name, IsName(name)
  PROVE  IsList(name) /\ NoNul(name) /\ name # NoString /\ \A t \in Tables : name # TableName(t)
<1>1. IsList(name) /\ NoNul(name) /\ \A t \in Tables : name # TableName(t)
  BY DEF IsName, NoNul, TableName
<1>2. QED BY <1>1, NameIsString

(* The section that a program chose: its type and flags, its room or data, its address. *)
Typed(last, c) == [last EXCEPT !.sh.type = c.type, !.sh.flags = c.flags, !.sh.align = c.align]
Filled(last, c) ==
  IF c.type = "NOBITS" THEN [Typed(last, c) EXCEPT !.sh.size = c.size]
  ELSE append_data(Typed(last, c), c.data)
Chosen(last, c) ==
  IF c.addr = 0 THEN Filled(last, c) ELSE set_address(Filled(last, c), c.addr)

TypedAs(T, last, m, name, c) ==
  /\ DOMAIN T = SectionFields /\ DOMAIN T.sh = ShdrFields
  /\ T.index = m /\ T.name = name /\ T.data = << >> /\ T.addrset = last.addrset
  /\ T.sh.name = last.sh.name /\ T.sh.type = c.type /\ T.sh.flags = c.flags
  /\ T.sh.align = c.align /\ T.sh.addr = 0 /\ T.sh.offset = 0 /\ T.sh.size = 0
  /\ T.sh.entsize = 0

LEMMA TypedIs ==
  ASSUME NEW last, NEW m, NEW name, Fresh(last, m, name), NEW c, NEW T, T = Typed(last, c)
  PROVE  TypedAs(T, last, m, name, c)
<1>1. PICK type, flags, align : type = c.type /\ flags = c.flags /\ align = c.align
  OBVIOUS
<1>2. PICK sh : sh = [last.sh EXCEPT !.type = type, !.flags = flags, !.align = align]
  OBVIOUS
<1>3. T = [last EXCEPT !.sh = sh]
  <2>1. T = [last EXCEPT !.sh = [[[last.sh EXCEPT !.type = type] EXCEPT !.flags = flags] EXCEPT !.align = align]]
    BY <1>1 DEF Typed, Fresh, SectionFields
  <2>2. QED BY <1>2, <2>1 DEF Fresh, ShdrFields
<1>4. /\ DOMAIN sh = ShdrFields /\ sh.type = type /\ sh.flags = flags /\ sh.align = align
      /\ sh.name = last.sh.name /\ sh.addr = 0 /\ sh.offset = 0 /\ sh.size = 0 /\ sh.entsize = 0
  BY <1>2 DEF Fresh, ShdrFields
<1>5. /\ DOMAIN T = SectionFields /\ T.sh = sh /\ T.index = m /\ T.name = name /\ T.data = << >>
      /\ T.addrset = last.addrset
  BY <1>3 DEF Fresh, SectionFields
<1>6. QED BY <1>1, <1>4, <1>5 DEF TypedAs

(* What matters of it. *)
ChosenAs(T, m, name, at) ==
  IsSection(T, m) /\ T.name = name /\ T.sh.name = at /\ T.sh.entsize = 0

LEMMA FilledIs ==
  ASSUME NEW m \in Nat, m # 0, NEW name, NEW last, Fresh(last, m, name), NEW c \in SectionChoices
  PROVE  ChosenAs(Filled(last, c), m, name, last.sh.name)
<1>1. IsList(c.data) /\ c.type # "NULL" /\ c.size \in Nat /\ c.align \in Nat
  BY ChoicesAssumption
<1>2. PICK T : T = Typed(last, c)
  OBVIOUS
<1>3. /\ DOMAIN T = SectionFields /\ DOMAIN T.sh = ShdrFields
      /\ T.index = m /\ T.name = name /\ T.data = << >> /\ T.addrset \in BOOLEAN
      /\ T.sh.name = last.sh.name /\ T.sh.type = c.type /\ T.sh.flags = c.flags
      /\ T.sh.align = c.align /\ T.sh.addr = 0 /\ T.sh.offset = 0 /\ T.sh.size = 0
      /\ T.sh.entsize = 0
  <2>1. TypedAs(T, last, m, name, c)
    BY <1>2, TypedIs
  <2>2. last.addrset \in BOOLEAN
    BY DEF Fresh
  <2>3. QED BY <2>1, <2>2 DEF TypedAs
<1>4. 0 \in Addresses /\ IsList(<< >>) /\ Len(<< >>) = 0
  BY EmptyList, SizesAssumption DEF Addresses
<1>5. PICK X : X = Filled(last, c)
  OBVIOUS
<1>6. CASE c.type = "NOBITS"
  <2>1. PICK size \in Nat : size = c.size
    BY <1>1
  <2>2. X = [T EXCEPT !.sh.size = size]
    BY <1>2, <1>5, <1>6, <2>1 DEF Filled
  <2>3. PICK sh : sh = [T.sh EXCEPT !.size = size]
    OBVIOUS
  <2>4. X = [T EXCEPT !.sh = sh]
    BY <2>2, <2>3
  <2>5. /\ DOMAIN sh = ShdrFields /\ sh.type = "NOBITS" /\ sh.size = size /\ sh.name = last.sh.name
        /\ sh.addr = 0 /\ sh.offset = 0 /\ sh.entsize = 0 /\ sh.align \in Nat
    BY <1>1, <1>3, <1>6, <2>3 DEF ShdrFields
  <2>6. /\ DOMAIN X = SectionFields /\ X.sh = sh /\ X.index = m /\ X.name = name /\ X.data = << >>
        /\ X.addrset \in BOOLEAN
    BY <1>3, <2>4 DEF SectionFields
  <2>7. /\ X.sh.type = "NOBITS" /\ X.sh.size \in Nat /\ X.sh.align \in Nat /\ X.sh.offset \in Nat
        /\ X.sh.addr \in Addresses /\ IsList(X.data) /\ DOMAIN X.sh = ShdrFields
    BY <1>4, <2>5, <2>6
  <2>8. IsSection(X, m)
    BY <2>6, <2>7 DEF IsSection
  <2>9. QED BY <1>5, <2>5, <2>6, <2>8 DEF ChosenAs
<1>7. CASE c.type # "NOBITS"
  <2>1. T.sh.size \in Nat /\ IsList(T.data) /\ Len(T.data) = T.sh.size /\ T.sh.type # "NOBITS"
    BY <1>3, <1>4, <1>7
  <2>2. Edited(T, T)
    BY <1>3, <2>1 DEF Edited
  <2>3. X = append_data(T, c.data)
    BY <1>2, <1>5, <1>7 DEF Filled
  <2>4. Edited(T, X)
    BY <1>1, <2>2, <2>3, AppendedIs
  <2>5. /\ DOMAIN X = SectionFields /\ DOMAIN X.sh = ShdrFields /\ X.index = m /\ X.name = name
        /\ X.sh.name = last.sh.name /\ X.sh.entsize = 0 /\ X.sh.type # "NULL" /\ X.sh.type # "NOBITS"
        /\ X.sh.align \in Nat /\ X.sh.offset \in Nat /\ X.sh.addr \in Addresses
        /\ X.addrset \in BOOLEAN
    <3>1. /\ DOMAIN X = SectionFields /\ DOMAIN X.sh = ShdrFields /\ X.index = T.index
          /\ X.name = T.name /\ X.sh.name = T.sh.name /\ X.sh.entsize = T.sh.entsize
          /\ X.sh.type = T.sh.type /\ X.sh.align = T.sh.align /\ X.sh.offset = T.sh.offset
          /\ X.sh.addr = T.sh.addr /\ X.addrset = T.addrset
      BY <2>4 DEF Edited
    <3>2. T.addrset \in BOOLEAN /\ T.sh.align \in Nat /\ T.sh.offset \in Nat /\ T.sh.addr \in Addresses
      BY <1>1, <1>3, <1>4
    <3>3. QED BY <1>1, <1>3, <1>7, <3>1, <3>2
  <2>6. X.sh.size \in Nat /\ IsList(X.data) /\ Len(X.data) = X.sh.size
    BY <2>4, <2>5 DEF Edited
  <2>7. IsSection(X, m)
    BY <2>5, <2>6 DEF IsSection
  <2>8. QED BY <1>5, <2>5, <2>7 DEF ChosenAs
<1>8. QED BY <1>6, <1>7

LEMMA ChosenIs ==
  ASSUME NEW m \in Nat, m # 0, NEW name, NEW last, Fresh(last, m, name), NEW c \in SectionChoices
  PROVE  ChosenAs(Chosen(last, c), m, name, last.sh.name)
<1>1. PICK F : F = Filled(last, c) /\ ChosenAs(F, m, name, last.sh.name)
  BY FilledIs
<1>2. PICK addr \in Addresses : addr = c.addr
  BY ChoicesAssumption DEF Addresses
<1>3. CASE c.addr = 0
  BY <1>1, <1>3 DEF Chosen
<1>4. CASE c.addr # 0
  <2>1. PICK X : X = Chosen(last, c)
    OBVIOUS
  <2>2. X = [F EXCEPT !.sh.addr = addr, !.addrset = TRUE]
    BY <1>1, <1>2, <1>4, <2>1 DEF Chosen, set_address
  <2>3. PICK sh : sh = [F.sh EXCEPT !.addr = addr]
    OBVIOUS
  <2>4. IsSection(F, m) /\ F.name = name /\ F.sh.name = last.sh.name /\ F.sh.entsize = 0
    BY <1>1 DEF ChosenAs
  <2>5. DOMAIN F = SectionFields /\ DOMAIN F.sh = ShdrFields
    BY <2>4 DEF IsSection
  <2>6. X = [[F EXCEPT !.sh = sh] EXCEPT !.addrset = TRUE]
    BY <2>2, <2>3
  <2>7. /\ DOMAIN X = SectionFields /\ X.sh = sh /\ X.index = F.index /\ X.name = F.name
        /\ X.data = F.data /\ X.addrset = TRUE
    BY <2>5, <2>6 DEF SectionFields
  <2>8. /\ DOMAIN sh = ShdrFields /\ sh.addr = addr /\ sh.type = F.sh.type /\ sh.size = F.sh.size
        /\ sh.align = F.sh.align /\ sh.offset = F.sh.offset /\ sh.flags = F.sh.flags
        /\ sh.name = F.sh.name /\ sh.entsize = F.sh.entsize
    BY <2>3, <2>5 DEF ShdrFields
  <2>9. X.addrset \in BOOLEAN
    BY <2>7
  <2>10. IsSection(X, m)
    BY <1>2, <2>4, <2>7, <2>8, <2>9 DEF IsSection
  <2>11. QED BY <2>1, <2>4, <2>7, <2>8, <2>10 DEF ChosenAs
<1>5. QED BY <1>3, <1>4

LEMMA AddSectionAsIsGood ==
  ASSUME Good(elf), NEW c \in SectionChoices, AddSectionAs(c)
  PROVE  Good(elf')
<1>1. PICK e : e = elf /\ Good(e) /\ Sound(e)
  BY DEF Good
<1>2. PICK name : /\ name = c.name /\ IsList(name) /\ NoNul(name) /\ name # NoString
                  /\ \A t \in Tables : name # TableName(t)
  BY NamesAre, ChoicesAssumption
<1>3. PICK m \in Nat : m = Len(e.sections)
  BY <1>1, ListIs DEF Sound, IsObject
<1>4. PICK r : r = AddSection(e, name) /\ Added(e, name, r, m) /\ m >= 2
  BY <1>1, <1>2, <1>3, SectionIsAdded
<1>5. /\ DOMAIN r = ElfFields /\ r.hdr = e.hdr /\ r.segments = e.segments
      /\ IsList(r.sections) /\ Len(r.sections) = m + 1
      /\ Fresh(r.sections[m + 1], m, name)
  BY <1>4 DEF Added
<1>6. PICK last : last = r.sections[m + 1] /\ Fresh(last, m, name) /\ last = Last(r.sections)
  <2>1. Last(r.sections) = r.sections[m + 1]
    BY <1>5 DEF Last
  <2>2. QED BY <1>5, <2>1
<1>7. m # 0
  BY <1>4
<1>8. PICK T : T = Chosen(last, c) /\ ChosenAs(T, m, name, last.sh.name)
  BY <1>6, <1>7, ChosenIs
<1>9. IsSection(T, m) /\ T.name = name /\ T.sh.name = last.sh.name /\ T.sh.entsize = 0 /\ T.index = m
  BY <1>8 DEF ChosenAs, IsSection
<1>10. PICK d : d = SetSection(r, T)
  BY Zenon
<1>11. elf' = d
  <2>1. elf' = SetSection(AddSection(elf, c.name), Chosen(Last(AddSection(elf, c.name).sections), c))
    BY Zenon DEF AddSectionAs, Chosen, Filled, Typed
  <2>2. r = AddSection(elf, c.name)
    BY <1>1, <1>2, <1>4, Zenon
  <2>3. T = Chosen(Last(r.sections), c)
    BY <1>6, <1>8, Zenon
  <2>4. QED BY <1>10, <2>1, <2>2, <2>3, Zenon
<1>12. d = [r EXCEPT !.sections = [r.sections EXCEPT ![m + 1] = T]]
  BY <1>9, <1>10 DEF SetSection
<1>13. WithLast(r, m, T, d)
  BY <1>5, <1>12, LastIsSet
<1>14. SoundSection(e.hdr.class, T, m)
  <2>1. T.sh.name \in Nat
    BY <1>6, <1>9 DEF Fresh
  <2>2. QED BY <1>2, <1>9, <2>1 DEF SoundSection
<1>15. Sound(d) /\ \A u : HasNamed(d, u) <=> HasNamed(e, u) \/ name = TableName(u)
  <2>1. T.sh.name = r.sections[m + 1].sh.name
    BY <1>6, <1>9
  <2>2. T.name = name /\ Added(e, name, r, m) /\ m >= 2
    BY <1>4, <1>9
  <2>3. /\ Sound(d) /\ Len(d.sections) = m + 1
        /\ \A u : HasNamed(d, u) <=> HasNamed(e, u) \/ name = TableName(u)
    BY <1>1, <1>3, <1>13, <1>14, <2>1, <2>2, AddedIsSound
  <2>4. QED BY <2>3
<1>16. \A u \in Tables : HasNamed(d, u) <=> HasNamed(e, u)
  BY <1>2, <1>15
<1>17. Together(d)
  BY <1>1, <1>16, TablesAre DEF Good, Together
<1>18. QED BY <1>11, <1>15, <1>17 DEF Good

(* Only the segments change. *)
LEMMA SegmentsChangeIsGood ==
  ASSUME NEW e, Good(e), NEW d, DOMAIN d = ElfFields, d.hdr = e.hdr, d.sections = e.sections,
         IsList(d.segments),
         \A n \in 1 .. Len(d.segments) : IsSegment(d.segments[n], n - 1, Len(e.sections))
  PROVE  Good(d)
<1>1. IsObject(d)
  BY DEF Good, Sound, IsObject
<1>2. NamesKept(d)
  BY DEF Good, Sound, NamesKept
<1>3. \A t : HasNamed(d, t) <=> HasNamed(e, t)
  BY DEF HasNamed
<1>4. Together(d)
  BY <1>3 DEF Good, Together
<1>5. QED BY <1>1, <1>2, <1>4 DEF Good, Sound

LEMMA NewSegmentIs ==
  ASSUME NEW i, NEW s, s = NewSegment(i)
  PROVE  /\ DOMAIN s = SegmentFields /\ s.ph = ZeroPhdr /\ s.index = i /\ s.sections = << >>
         /\ s.offset_set = FALSE
         /\ DOMAIN ZeroPhdr = PhdrFields /\ ZeroPhdr.vaddr = 0 /\ ZeroPhdr.align = 0 /\ ZeroPhdr.offset = 0
  BY DEF NewSegment, ZeroPhdr, SegmentFields, PhdrFields

LEMMA SegmentIsCreated ==
  ASSUME NEW e, Good(e), NEW N \in Nat, N = Len(e.segments), NEW d, d = create_segment(e)
  PROVE  /\ DOMAIN d = ElfFields /\ d.hdr = e.hdr /\ d.sections = e.sections
         /\ IsList(d.segments) /\ Len(d.segments) = N + 1 /\ d.segments[N + 1] = NewSegment(N)
         /\ \A n \in 1 .. N : d.segments[n] = e.segments[n]
<1>1. IsList(e.segments) /\ DOMAIN e = ElfFields
  BY DEF Good, Sound, IsObject
<1>2. PICK S : S = Append(e.segments, NewSegment(N))
  OBVIOUS
<1>3. IsList(S) /\ Len(S) = N + 1 /\ S[N + 1] = NewSegment(N) /\ \A n \in 1 .. N : S[n] = e.segments[n]
  BY <1>1, <1>2, ListGrows
<1>4. d = [e EXCEPT !.segments = S]
  BY <1>2 DEF create_segment
<1>5. DOMAIN d = ElfFields /\ d.hdr = e.hdr /\ d.sections = e.sections /\ d.segments = S
  BY <1>1, <1>4 DEF ElfFields
<1>6. QED BY <1>3, <1>5

(* One segment of the object is changed. *)
LEMMA OneSegmentIsGood ==
  ASSUME NEW e, Good(e), NEW N \in Nat, NEW r, DOMAIN r = ElfFields, r.hdr = e.hdr, r.sections = e.sections,
         IsList(r.segments), Len(r.segments) = N, NEW i \in 1 .. N,
         \A n \in 1 .. N : n # i => IsSegment(r.segments[n], n - 1, Len(e.sections)),
         NEW t, IsSegment(t, i - 1, Len(e.sections)),
         NEW d, d = [r EXCEPT !.segments = [r.segments EXCEPT ![i] = t]]
  PROVE  Good(d)
<1>1. PICK S : S = [r.segments EXCEPT ![i] = t]
  OBVIOUS
<1>2. ChangedAt(r.segments, i, t, S)
  BY <1>1, ListChangesTo
<1>3. DOMAIN d = ElfFields /\ d.hdr = e.hdr /\ d.sections = e.sections /\ d.segments = S
  BY <1>1 DEF ElfFields
<1>4. IsList(S) /\ Len(S) = N /\ S[i] = t /\ \A n \in 1 .. N : n # i => S[n] = r.segments[n]
  BY <1>2 DEF ChangedAt
<1>5. \A n \in 1 .. N : IsSegment(S[n], n - 1, Len(e.sections))
  BY <1>4
<1>6. QED BY <1>3, <1>4, <1>5, SegmentsChangeIsGood

----------------------------------------
(* The hash section, and the steps that change the segments *)

LEMMA ManyCells ==
  ASSUME NEW a, NEW b, NEW c, NEW d, NEW x, NEW y
  PROVE  IsList(<< a, b, c, d, x >>) /\ IsList(<< a, b, c, d, x, y >>)
<1>1. << a, b, c, d, x >> \in Seq({a, b, c, d, x})
  OBVIOUS
<1>2. << a, b, c, d, x, y >> \in Seq({a, b, c, d, x, y})
  OBVIOUS
<1>3. QED BY <1>1, <1>2, SeqIsList

LEMMA HashWordsAre ==
  ASSUME Good(elf), SymbolIndexes # {}, NEW type
  PROVE  IsList(HashWords(type))
<1> DEFINE n == get_symbols_num(elf, Sec("symtab")) - 1
           SysV(i) == elf_hash(SymbolAt(i).name) % 2
           Gnu(i) == elf_gnu_hash(SymbolAt(i).name)
           next(from, b) == LET same == { i \in from .. n : SysV(i) = b }
                            IN  IF same = {} THEN 0 ELSE Min(same)
           bits == UNION { { Gnu(i) % BloomBits, (Gnu(i) \div 2) % BloomBits } : i \in 1 .. n }
           F == [i \in 1 .. n |-> next(i + 1, SysV(i))]
           G == [i \in 1 .. n |-> 2 * (Gnu(i) \div 2) + (IF i = n THEN 1 ELSE 0)]
<1>1. Has("symtab") /\ 1 .. n # {}
  BY DEF SymbolIndexes
<1>2. get_symbols_num(elf, Sec("symtab")) \in Nat
  <2>1. "symtab" \in Tables
    BY TablesAre
  <2>2. IsTable(elf, "symtab", Sec("symtab"))
    BY <1>1, <2>1, HasIs
  <2>3. PICK s : s = Sec("symtab") /\ s.sh.entsize \in Nat /\ s.sh.size \in Nat
    BY <2>2 DEF IsTable
  <2>4. IsHeader(elf.hdr)
    BY GoodHeader
  <2>5. get_symbols_num(elf, s) \in Nat
    BY <2>3, <2>4, SymbolsNumIs
  <2>6. QED BY <2>3, <2>5
<1>3. PICK m \in Nat : m = n
  BY <1>1, <1>2
<1>4. HashWords(type) = IF type = "HASH" THEN << 2, n + 1, next(1, 0), next(1, 1), 0 >> \o F
                        ELSE << 1, 1, 1, 1, SumSet({ 2 ^ b : b \in bits }), 1 >> \o G
  BY DEF HashWords
<1>5. PICK f : f = F
  OBVIOUS
<1>6. PICK g : g = G
  OBVIOUS
<1>7. f = [i \in 1 .. m |-> f[i]]
  BY <1>3, <1>5
<1>8. g = [i \in 1 .. m |-> g[i]]
  BY <1>3, <1>6
<1>9. PICK a, b, c, s : a = n + 1 /\ b = next(1, 0) /\ c = next(1, 1) /\ s = SumSet({ 2 ^ x : x \in bits })
  OBVIOUS
<1>10. HashWords(type) = IF type = "HASH" THEN << 2, a, b, c, 0 >> \o f ELSE << 1, 1, 1, 1, s, 1 >> \o g
  BY <1>4, <1>5, <1>6, <1>9
<1> HIDE DEF n, SysV, Gnu, next, bits, F, G
<1>11. IsList(f) /\ IsList(g)
  BY <1>7, <1>8, ListOf
<1>12. IsList(<< 2, a, b, c, 0 >>) /\ IsList(<< 1, 1, 1, 1, s, 1 >>)
  BY ManyCells
<1>13. IsList(<< 2, a, b, c, 0 >> \o f) /\ IsList(<< 1, 1, 1, 1, s, 1 >> \o g)
  BY <1>11, <1>12, ListsJoin
<1>14. QED BY <1>10, <1>13

LEMMA LinkHashIsGood ==
  ASSUME Good(elf), NEW type \in HashTypes, LinkHash(type)
  PROVE  Good(elf')
<1>1. Has("symtab") /\ SymbolIndexes # {}
  BY DEF LinkHash, SymbolIndexes
<1>2. PICK words : words = HashWords(type) /\ IsList(words)
  BY <1>1, HashWordsAre
<1>3. PICK pieces : pieces = [k \in DOMAIN words |-> FromNumber(elf.hdr.encoding, WordBytes, words[k])]
  OBVIOUS
<1>4. IsList(pieces)
  BY <1>2, <1>3, ListMapped
<1>5. WordBytes \in Nat
  BY SizesAssumption
<1>6. PICK bytes : bytes = Flat(pieces, WordBytes) /\ IsList(bytes)
  BY <1>4, <1>5, FlatIs
<1>7. PICK t : t = [name |-> "hash", type |-> type, link |-> "symtab"]
  OBVIOUS
<1>8. PICK e : e = elf /\ Good(e) /\ Sound(e)
  BY DEF Good
<1>9. PICK m \in Nat : m = Len(e.sections)
  BY <1>8, ListIs DEF Sound, IsObject
<1>10. PICK d : d = AddTable(e, t)
  OBVIOUS
<1>11. IsAsked(t)
  BY <1>7, TablesAre DEF IsAsked, HashTypes
<1>12. /\ Sound(d) /\ m >= 2 /\ Len(d.sections) = m + 1
       /\ d.sections[m + 1].sh.type = t.type /\ d.sections[m + 1].index = m
       /\ \A u \in Tables : HasNamed(d, u) <=> HasNamed(e, u) \/ u = t.name
  BY <1>8, <1>9, <1>10, <1>11, TableIsAdded
<1>13. \A u \in Tables \ {"hash"} : HasNamed(d, u) <=> HasNamed(e, u)
  BY <1>7, <1>12
<1>14. {"symtab", "strtab", "rel", "dynamic", "verneed"} \subseteq Tables \ {"hash"}
  BY TablesAre
<1>15. Together(d)
  BY <1>8, <1>13, <1>14 DEF Good, Together
<1>16. Good(d)
  BY <1>12, <1>15 DEF Good
<1>17. PICK last : last = d.sections[m + 1] /\ last = Last(d.sections)
  BY <1>12 DEF Last
<1>18. last.sh.type = type /\ type # "NOBITS" /\ last.index = m
  BY <1>7, <1>12, <1>17 DEF HashTypes
<1>19. m + 1 \in 1 .. Len(d.sections) /\ (m + 1) - 1 = m
  BY <1>12
<1>20. SoundSection(d.hdr.class, last, m)
  BY <1>12, <1>17, <1>19 DEF Sound
<1>21. Edited(last, last)
  BY <1>20, EditedSelf DEF SoundSection
<1>22. PICK x : x = set_data(last, bytes)
  OBVIOUS
<1>23. Edited(last, x)
  <2>1. last.sh.type # "NOBITS"
    BY <1>18
  <2>2. Edited(last, set_data(last, bytes))
    BY <1>6, <1>21, <2>1, DataIsSet
  <2>3. QED BY <1>22, <2>2
<1>24. x.index = m
  BY <1>18, <1>23 DEF Edited
<1>25. Edit(d, x)
  BY <1>12, <1>17, <1>19, <1>23, <1>24 DEF Edit
<1>26. EditedObject(d, SetSection(d, x))
  BY <1>16, <1>25, EditedObjectSelf, EditOneMore
<1>27. Good(SetSection(d, x))
  BY <1>16, <1>26, EditedIsGood
<1>28. elf' = SetSection(d, x)
  BY <1>2, <1>3, <1>6, <1>7, <1>8, <1>10, <1>17, <1>22 DEF LinkHash
<1>29. QED BY <1>27, <1>28

LEMMA AddSegmentAsIsGood ==
  ASSUME Good(elf), NEW c \in SegmentChoices, AddSegmentAs(c)
  PROVE  Good(elf')
<1>1. PICK e : e = elf /\ Good(e)
  OBVIOUS
<1>2. PICK N \in Nat : N = Len(e.segments)
  BY <1>1, ListIs DEF Good, Sound, IsObject
<1>3. PICK r : r = create_segment(e)
  OBVIOUS
<1>4. /\ DOMAIN r = ElfFields /\ r.hdr = e.hdr /\ r.sections = e.sections
      /\ IsList(r.segments) /\ Len(r.segments) = N + 1 /\ r.segments[N + 1] = NewSegment(N)
      /\ \A n \in 1 .. N : r.segments[n] = e.segments[n]
  BY <1>1, <1>2, <1>3, SegmentIsCreated
<1>5. PICK type, vaddr, align : type = c.type /\ vaddr = c.vaddr /\ align = c.align /\ vaddr \in Addresses /\ align \in Nat
  BY ChoicesAssumption DEF Addresses
<1>6. PICK s : s = NewSegment(N)
  OBVIOUS
<1>7. /\ DOMAIN s = SegmentFields /\ s.ph = ZeroPhdr /\ s.index = N /\ s.sections = << >>
      /\ s.offset_set = FALSE
      /\ DOMAIN ZeroPhdr = PhdrFields /\ ZeroPhdr.offset = 0
  BY <1>6, NewSegmentIs
<1>8. PICK ph : ph = [ZeroPhdr EXCEPT !.type = type, !.vaddr = vaddr, !.paddr = vaddr, !.align = align]
  OBVIOUS
<1>9. DOMAIN ph = PhdrFields /\ ph.vaddr = vaddr /\ ph.align = align /\ ph.offset = 0
  BY <1>7, <1>8 DEF PhdrFields
<1>10. PICK t : t = [s EXCEPT !.ph = ph]
  OBVIOUS
<1>11. DOMAIN t = SegmentFields /\ t.ph = ph /\ t.index = N /\ t.sections = << >> /\ t.offset_set = s.offset_set
  BY <1>7, <1>10 DEF SegmentFields
<1>12. elf' = [r EXCEPT !.segments = [r.segments EXCEPT ![N + 1] = t]]
  <2>1. elf' = [r EXCEPT !.segments[Len(r.segments)].ph =
                   [@ EXCEPT !.type = type, !.vaddr = vaddr, !.paddr = vaddr, !.align = align]]
    BY <1>1, <1>3, <1>5 DEF AddSegmentAs
  <2>2. elf' = [r EXCEPT !.segments = [r.segments EXCEPT ![N + 1] =
                   [r.segments[N + 1] EXCEPT !.ph =
                      [r.segments[N + 1].ph EXCEPT !.type = type, !.vaddr = vaddr, !.paddr = vaddr,
                                                   !.align = align]]]]
    BY <1>4, <2>1
  <2>3. r.segments[N + 1] = s /\ s.ph = ZeroPhdr
    BY <1>4, <1>6, <1>7
  <2>4. QED BY <1>8, <1>10, <2>2, <2>3
<1>13. IsSegment(t, N, Len(e.sections))
  <2>1. s.offset_set \in BOOLEAN /\ ~s.offset_set
    BY <1>7
  <2>2. t.offset_set \in BOOLEAN /\ ~t.offset_set
    BY <1>11, <2>1
  <2>3. IsList(t.sections) /\ Len(t.sections) = 0
    BY <1>11, EmptyList
  <2>4. Increasing(t.sections) /\ \A k \in 1 .. Len(t.sections) : t.sections[k] \in 1 .. (Len(e.sections) - 1)
    BY <2>3 DEF Increasing
  <2>5. DOMAIN t.ph = PhdrFields /\ t.ph.vaddr \in Addresses /\ t.ph.align \in Nat /\ t.ph.offset \in Nat
    BY <1>5, <1>9, <1>11
  <2>6. QED BY <1>11, <2>2, <2>3, <2>4, <2>5 DEF IsSegment
<1>14. \A n \in 1 .. (N + 1) : n # N + 1 => IsSegment(r.segments[n], n - 1, Len(e.sections))
  <2>1. \A n \in 1 .. N : IsSegment(e.segments[n], n - 1, Len(e.sections))
    BY <1>1, <1>2 DEF Good, Sound, IsObject
  <2>2. \A n \in 1 .. (N + 1) : n # N + 1 => n \in 1 .. N
    OBVIOUS
  <2>3. QED BY <1>4, <2>1, <2>2
<1>15. N + 1 \in Nat /\ N + 1 \in 1 .. (N + 1) /\ (N + 1) - 1 = N
  OBVIOUS
<1>16. QED
  <2>1. IsSegment(t, (N + 1) - 1, Len(e.sections))
    BY <1>13, <1>15
  <2>2. QED BY <1>1, <1>4, <1>12, <1>14, <1>15, <2>1, OneSegmentIsGood

(* A section behind the others of a segment is added to it. *)
LEMMA SectionIsAssigned ==
  ASSUME NEW s, NEW n, NEW m \in Nat, IsSegment(s, n, m), NEW i \in 1 .. (m - 1), NEW align \in Nat,
         \A k \in SectionsOf(s) : k < i
  PROVE  IsSegment(add_section_index(s, i, align), n, m)
<1>1. PICK S : S = Append(s.sections, i)
  OBVIOUS
<1>2. PICK K \in Nat : K = Len(s.sections) /\ DOMAIN s.sections = 1 .. K
  BY ListIs DEF IsSegment
<1>3. IsList(s.sections) /\ Increasing(s.sections) /\ \A k \in 1 .. K : s.sections[k] \in 1 .. (m - 1)
  BY <1>2 DEF IsSegment
<1>4. IsList(S) /\ Len(S) = K + 1 /\ S[K + 1] = i /\ \A k \in 1 .. K : S[k] = s.sections[k]
  BY <1>1, <1>2, <1>3, ListGrows
<1>5. \A k \in 1 .. K : s.sections[k] < i
  BY <1>2 DEF SectionsOf, ToSet
<1>6. \A b \in 1 .. (K + 1) : b = K + 1 \/ b \in 1 .. K
  OBVIOUS
<1>7. \A k \in 1 .. (K + 1) : S[k] \in 1 .. (m - 1)
  BY <1>3, <1>4, <1>6
<1>8. ASSUME NEW b \in 1 .. (K + 1), NEW a \in 1 .. (b - 1) PROVE S[a] < S[b]
  <2>1. a \in 1 .. K
    OBVIOUS
  <2>2. CASE b = K + 1
    BY <1>4, <1>5, <2>1, <2>2
  <2>3. CASE b # K + 1
    <3>1. b \in 1 .. K
      BY <2>3
    <3>2. s.sections[a] < s.sections[b]
      BY <1>2, <1>3, <3>1 DEF Increasing
    <3>3. QED BY <1>4, <2>1, <3>1, <3>2
  <2>4. QED BY <2>2, <2>3
<1>9. Increasing(S)
  BY <1>4, <1>8 DEF Increasing
<1>10. PICK al \in Nat : al = (IF align > s.ph.align THEN align ELSE s.ph.align)
  BY DEF IsSegment
<1>11. PICK ph : ph = [s.ph EXCEPT !.align = al]
  OBVIOUS
<1>12. PICK t : t = [[s EXCEPT !.sections = S] EXCEPT !.ph = ph]
  OBVIOUS
<1>13. DOMAIN s = SegmentFields /\ DOMAIN s.ph = PhdrFields
  BY DEF IsSegment
<1>14. add_section_index(s, i, align) = t
  <2>1. add_section_index(s, i, align)
          = [[s EXCEPT !.sections = S] EXCEPT !.ph.align = IF align > @ THEN align ELSE @]
    BY <1>1 DEF add_section_index
  <2>2. [s EXCEPT !.sections = S].ph = s.ph
    BY <1>13 DEF SegmentFields
  <2>3. QED BY <1>10, <1>11, <1>12, <2>1, <2>2
<1>15. /\ DOMAIN t = SegmentFields /\ t.ph = ph /\ t.sections = S /\ t.index = s.index
       /\ t.offset_set = s.offset_set
  BY <1>12, <1>13 DEF SegmentFields
<1>16. DOMAIN ph = PhdrFields /\ ph.vaddr = s.ph.vaddr /\ ph.offset = s.ph.offset /\ ph.align = al
  BY <1>11, <1>13 DEF PhdrFields
<1>17. IsSegment(t, n, m)
  BY <1>4, <1>7, <1>9, <1>15, <1>16 DEF IsSegment
<1>18. QED BY <1>14, <1>17

LEMMA AssignIsGood ==
  ASSUME Good(elf), NEW n, NEW i, Assign(n, i)
  PROVE  Good(elf')
<1>1. PICK e : e = elf /\ Good(e)
  OBVIOUS
<1>2. PICK N \in Nat : N = Len(e.segments) /\ DOMAIN e.segments = 1 .. N
  BY <1>1, ListIs DEF Good, Sound, IsObject
<1>3. PICK m \in Nat : m = Len(e.sections)
  BY <1>1, ListIs DEF Good, Sound, IsObject
<1>4. n \in 1 .. N /\ i \in 2 .. (m - 1) /\ \A k \in SectionsOf(e.segments[n]) : k < i
  BY <1>1, <1>2, <1>3 DEF Assign
<1>5. \A k \in 1 .. N : IsSegment(e.segments[k], k - 1, m)
  BY <1>1, <1>2, <1>3 DEF Good, Sound, IsObject
<1>6. PICK align \in Nat : align = e.sections[i + 1].sh.align
  <2>1. i + 1 \in 1 .. m
    BY <1>4
  <2>2. IsSection(e.sections[i + 1], (i + 1) - 1)
    BY <1>1, <1>3, <2>1 DEF Good, Sound, IsObject
  <2>3. QED BY <2>2 DEF IsSection
<1>7. PICK s : s = e.segments[n]
  OBVIOUS
<1>8. PICK t : t = add_section_index(s, i, align)
  OBVIOUS
<1>9. i \in 1 .. (m - 1)
  BY <1>4
<1>10. IsSegment(s, n - 1, m) /\ \A k \in SectionsOf(s) : k < i
  BY <1>4, <1>5, <1>7
<1>11. IsSegment(t, n - 1, m)
  BY <1>8, <1>9, <1>10, SectionIsAssigned
<1>12. elf' = [e EXCEPT !.segments = [e.segments EXCEPT ![n] = t]]
  BY <1>1, <1>6, <1>7, <1>8 DEF Assign
<1>13. IsList(e.segments) /\ DOMAIN e = ElfFields
  BY <1>1 DEF Good, Sound, IsObject
<1>14. IsSegment(t, n - 1, Len(e.sections)) /\ \A k \in 1 .. N : k # n => IsSegment(e.segments[k], k - 1, Len(e.sections))
  BY <1>3, <1>5, <1>11
<1>15. QED BY <1>1, <1>2, <1>4, <1>12, <1>13, <1>14, OneSegmentIsGood

----------------------------------------
(* The object that a program starts with *)

(* An empty section of strings begins with an empty string. *)
LEMMA StringsBegin ==
  ASSUME NEW s, Edited(s, s), s.sh.type # "NOBITS", s.data = << >>, s.sh.size = 0,
         NEW txt, IsList(txt), NEW x, x = add_string(s, txt).sec
  PROVE  get_string(x, 0) = << >>
<1>1. PICK raw : raw = << NUL >> /\ IsList(raw) /\ Len(raw) = 1 /\ raw[1] = NUL
  BY OneCell
<1>2. PICK f : f = append_data(s, raw) /\ Longer(s, f, raw)
  BY <1>1, AppendIsLonger
<1>3. PICK end : end = Append(txt, NUL) /\ IsList(end)
  BY ListGrows
<1>4. Edited(f, f) /\ f.sh.type # "NOBITS"
  BY <1>2 DEF Longer, Edited
<1>5. PICK y : y = append_data(f, end) /\ Longer(f, y, end)
  BY <1>3, <1>4, AppendIsLonger
<1>6. x = y
  BY <1>1, <1>2, <1>3, <1>5 DEF add_string
<1>7. IsList(<< >>) /\ Len(<< >>) = 0
  BY EmptyList
<1>8. f.data = << >> \o raw /\ f.sh.size = 1
  BY <1>1, <1>2 DEF Longer
<1>9. IsList(f.data) /\ Len(f.data) = 1 /\ f.data[1] = NUL
  <2>1. /\ IsList(<< >> \o raw) /\ Len(<< >> \o raw) = 0 + 1
        /\ \A k \in 1 .. 1 : (<< >> \o raw)[0 + k] = raw[k]
    BY <1>1, <1>7, ListsJoin
  <2>2. QED BY <1>1, <1>8, <2>1
<1>10. PICK n \in Nat : n = Len(end)
  BY <1>3, ListIs
<1>11. y.data = f.data \o end /\ y.sh.size = 1 + n
  BY <1>5, <1>8, <1>10 DEF Longer
<1>12. IsList(y.data) /\ Len(y.data) = 1 + n /\ y.data[1] = NUL
  <2>1. PICK d : d = f.data /\ IsList(d) /\ Len(d) = 1 /\ d[1] = NUL
    BY <1>9
  <2>2. /\ IsList(d \o end) /\ Len(d \o end) = Len(d) + Len(end)
        /\ \A k \in 1 .. Len(d) : (d \o end)[k] = d[k]
    <3>1. IsList(d) /\ IsList(end)
      BY <1>3, <2>1
    <3>2. QED BY <3>1, ListsJoin
  <2>3. 1 \in 1 .. Len(d)
    BY <2>1
  <2>4. QED BY <1>10, <1>11, <2>1, <2>2, <2>3
<1>13. Ends(y, 0, 1)
  <2>1. 1 \in (0 + 1) .. (1 + n) /\ \A k \in (0 + 1) .. (1 + n) : 1 <= k
    OBVIOUS
  <2>2. QED BY <1>12, <2>1 DEF Ends
<1>14. get_string(y, 0) = SubSeq(y.data, 0 + 1, 1 - 1)
  <2>1. 0 < y.sh.size /\ 0 \in Nat
    BY <1>11
  <2>2. QED BY <1>12, <1>13, <2>1, StringIs
<1>15. SubSeq(y.data, 0 + 1, 0 + 0) = << >>
  <2>1. IsList(SubSeq(y.data, 0 + 1, 0 + 0)) /\ Len(SubSeq(y.data, 0 + 1, 0 + 0)) = 0
    <3>1. 0 \in Nat /\ 0 + 0 <= Len(y.data)
      BY <1>12
    <3>2. QED BY <1>12, <3>1, PartIs, ZenonT(40)
  <2>2. QED BY <2>1, ListEmpty
<1>16. QED BY <1>6, <1>14, <1>15

(* The section of the section names. *)
NamesSection(T, at) ==
  /\ IsSection(T, 1) /\ T.name = Shstrtab /\ T.sh.type = "STRTAB" /\ T.sh.name = at /\ at \in Nat
  /\ T.sh.entsize = 0 /\ get_string(T, at) = Shstrtab /\ get_string(T, 0) = << >>

(* A new object: no section but the null section and the names. *)
Empty(e, class, encoding) ==
  /\ DOMAIN e = ElfFields /\ e.hdr = NewHeader(class, encoding) /\ e.segments = << >>
  /\ IsList(e.sections) /\ Len(e.sections) = 2 /\ e.sections[1] = NewSection(0)
  /\ \E at : NamesSection(e.sections[2], at)

LEMMA NewSectionIs ==
  ASSUME NEW i, NEW s, s = NewSection(i)
  PROVE  /\ DOMAIN s = SectionFields /\ s.index = i /\ s.name = << >> /\ s.data = << >>
         /\ s.addrset \in BOOLEAN /\ DOMAIN s.sh = ShdrFields /\ s.sh.name = 0 /\ s.sh.type = "NULL"
         /\ s.sh.flags = NoFlags /\ s.sh.addr = 0 /\ s.sh.offset = 0 /\ s.sh.size = 0 /\ s.sh.align = 0
         /\ s.sh.entsize = 0
<1>1. /\ DOMAIN s = SectionFields /\ s.sh = ZeroShdr /\ s.index = i /\ s.name = << >> /\ s.data = << >>
  BY DEF NewSection, SectionFields
<1>2. s.addrset \in BOOLEAN
  BY DEF NewSection
<1>3. PICK h : h = ZeroShdr
  OBVIOUS
<1>4. /\ DOMAIN h = ShdrFields /\ h.name = 0 /\ h.type = "NULL" /\ h.flags = NoFlags
      /\ h.addr = 0 /\ h.offset = 0 /\ h.size = 0 /\ h.align = 0 /\ h.entsize = 0
  BY <1>3 DEF ZeroShdr, ShdrFields
<1>5. QED BY <1>1, <1>2, <1>3, <1>4

LEMMA NewNamedIs ==
  ASSUME NEW i, NEW name, NEW s, s = NewNamed(i, name)
  PROVE  /\ DOMAIN s = SectionFields /\ s.index = i /\ s.name = name /\ s.data = << >>
         /\ s.addrset \in BOOLEAN /\ DOMAIN s.sh = ShdrFields /\ s.sh.type = "NULL"
         /\ s.sh.addr = 0 /\ s.sh.offset = 0 /\ s.sh.size = 0 /\ s.sh.entsize = 0 /\ Edited(s, s)
<1>1. PICK z : z = NewSection(i)
  OBVIOUS
<1>2. s = [z EXCEPT !.name = name]
  BY <1>1 DEF NewNamed
<1>3. /\ DOMAIN z = SectionFields /\ z.index = i /\ z.data = << >>
      /\ z.addrset \in BOOLEAN /\ DOMAIN z.sh = ShdrFields /\ z.sh.type = "NULL"
      /\ z.sh.addr = 0 /\ z.sh.offset = 0 /\ z.sh.size = 0 /\ z.sh.entsize = 0
  BY <1>1, NewSectionIs
<1>4. DOMAIN s = SectionFields /\ s.name = name /\ s.index = z.index /\ s.data = z.data
      /\ s.addrset = z.addrset /\ s.sh = z.sh
  BY <1>2, <1>3 DEF SectionFields
<1>5. IsList(<< >>) /\ Len(<< >>) = 0
  BY EmptyList
<1>6. IsList(s.data) /\ Len(s.data) = s.sh.size /\ s.sh.size \in Nat /\ s.sh.type # "NOBITS"
  BY <1>3, <1>4, <1>5
<1>7. Edited(s, s)
  BY <1>3, <1>4, <1>6 DEF Edited
<1>8. QED BY <1>3, <1>4, <1>7

LEMMA NamesSectionIs ==
  ASSUME NEW x, NEW pos, NEW new, new = NewNamed(1, Shstrtab), StringPut(new, Shstrtab, x, pos),
         get_string(x, 0) = << >>, NEW T, T = [NameAt(x, pos) EXCEPT !.sh = [@ EXCEPT !.type = "STRTAB", !.align = 1]]
  PROVE  NamesSection(T, pos)
<1>1. /\ DOMAIN new = SectionFields /\ new.index = 1 /\ new.name = Shstrtab
      /\ new.addrset \in BOOLEAN /\ DOMAIN new.sh = ShdrFields /\ new.sh.type = "NULL"
      /\ new.sh.addr = 0 /\ new.sh.offset = 0 /\ new.sh.entsize = 0
  BY NewNamedIs
<1>2. pos \in Nat /\ Edited(new, x) /\ get_string(x, pos) = Shstrtab
  BY DEF StringPut
<1>3. /\ DOMAIN x = SectionFields /\ DOMAIN x.sh = ShdrFields /\ x.index = new.index /\ x.name = new.name
      /\ x.addrset = new.addrset /\ x.sh.type = new.sh.type /\ x.sh.addr = new.sh.addr
      /\ x.sh.offset = new.sh.offset /\ x.sh.entsize = new.sh.entsize
      /\ IsList(x.data) /\ x.sh.size \in Nat
  BY <1>2 DEF Edited
<1>4. Len(x.data) = x.sh.size
  BY <1>1, <1>2, <1>3 DEF Edited
<1>5. PICK sh : sh = [x.sh EXCEPT !.name = pos, !.type = "STRTAB", !.align = 1]
  OBVIOUS
<1>6. T = [x EXCEPT !.sh = sh]
  <2>1. PICK y : y = NameAt(x, pos) /\ y = [x EXCEPT !.sh = [x.sh EXCEPT !.name = pos]]
    BY DEF NameAt
  <2>3. T = [x EXCEPT !.sh = [[[x.sh EXCEPT !.name = pos] EXCEPT !.type = "STRTAB"] EXCEPT !.align = 1]]
    BY <1>3, <2>1, ZenonT(40) DEF SectionFields
  <2>2. QED BY <1>3, <1>5, <2>3 DEF ShdrFields
<1>7. /\ DOMAIN T = SectionFields /\ T.sh = sh /\ T.index = x.index /\ T.name = x.name
      /\ T.addrset = x.addrset /\ T.data = x.data
  BY <1>3, <1>6 DEF SectionFields
<1>8. /\ DOMAIN sh = ShdrFields /\ sh.name = pos /\ sh.type = "STRTAB" /\ sh.align = 1
      /\ sh.addr = x.sh.addr /\ sh.offset = x.sh.offset /\ sh.size = x.sh.size /\ sh.entsize = x.sh.entsize
  BY <1>3, <1>5 DEF ShdrFields
<1>9. 0 \in Addresses
  BY SizesAssumption DEF Addresses
<1>10. IsSection(T, 1)
  <2>1. DOMAIN T = SectionFields /\ DOMAIN T.sh = ShdrFields /\ T.index = 1 /\ IsList(T.data)
    BY <1>1, <1>3, <1>7, <1>8
  <2>2. T.sh.size \in Nat /\ T.sh.align \in Nat /\ T.sh.offset \in Nat /\ T.sh.addr \in Addresses
    BY <1>1, <1>3, <1>7, <1>8, <1>9
  <2>3. T.sh.type # "NULL" /\ T.sh.type # "NOBITS" /\ Len(T.data) = T.sh.size
    BY <1>4, <1>7, <1>8
  <2>4. T.addrset \in BOOLEAN
    BY <1>1, <1>3, <1>7
  <2>5. QED BY <2>1, <2>2, <2>3, <2>4 DEF IsSection
<1>11. ASSUME NEW i PROVE get_string(T, i) = get_string(x, i)
  <2>1. PICK d, z : d = x.data /\ z = x.sh.size /\ d = T.data /\ z = T.sh.size
    BY <1>7, <1>8
  <2>2. PICK S : S = { n \in (i + 1) .. Len(d) : d[n] = NUL }
    OBVIOUS
  <2>3. get_string(T, i) = IF i < z /\ S # {} THEN SubSeq(d, i + 1, Min(S) - 1) ELSE NoString
    BY <2>1, <2>2 DEF get_string
  <2>4. get_string(x, i) = IF i < z /\ S # {} THEN SubSeq(d, i + 1, Min(S) - 1) ELSE NoString
    BY <2>1, <2>2 DEF get_string
  <2>5. QED BY <2>3, <2>4
<1>12. QED BY <1>1, <1>2, <1>3, <1>7, <1>8, <1>10, <1>11 DEF NamesSection

LEMMA CreateIs ==
  ASSUME NEW class, NEW encoding
  PROVE  Empty(Create(class, encoding, Shstrtab), class, encoding)
<1>1. PICK hdr : hdr = NewHeader(class, encoding) /\ hdr.shstrndx = 1
  <2>1. NewHeader(class, encoding).shstrndx = 1
    BY DEF NewHeader
  <2>2. QED BY <2>1
<1>2. PICK none : none = [hdr |-> hdr, sections |-> << >>, segments |-> << >>, pos |-> 0]
  OBVIOUS
<1>3. /\ DOMAIN none = ElfFields /\ none.hdr = hdr /\ none.sections = << >> /\ none.segments = << >>
  BY <1>2 DEF ElfFields
<1>4. PICK null : null = NewSection(0)
  OBVIOUS
<1>5. PICK S : S = Append(<< >>, null) /\ IsList(S) /\ Len(S) = 1 /\ S[1] = null
  <2>1. IsList(<< >>) /\ Len(<< >>) = 0
    BY EmptyList
  <2>2. /\ IsList(Append(<< >>, null)) /\ Len(Append(<< >>, null)) = 0 + 1
        /\ Append(<< >>, null)[0 + 1] = null
    BY <2>1, ListGrows
  <2>3. QED BY <2>2
<1>6. PICK e : e = create_section(none)
  OBVIOUS
<1>7. e = [none EXCEPT !.sections = S]
  <2>1. Len(none.sections) = 0
    BY <1>3, EmptyList
  <2>2. QED BY <1>3, <1>4, <1>5, <1>6, <2>1 DEF create_section
<1>8. /\ DOMAIN e = ElfFields /\ e.hdr = hdr /\ e.sections = S /\ e.segments = << >>
  BY <1>3, <1>7 DEF ElfFields
<1>9. PICK new, x, pos : /\ new = NewNamed(1, Shstrtab) /\ x = add_string(new, Shstrtab).sec
                         /\ pos = add_string(new, Shstrtab).pos
  OBVIOUS
<1>10. IsList(Shstrtab) /\ NoNul(Shstrtab)
  BY ChoicesAssumption DEF IsName, NoNul
<1>11. new.data = << >> /\ new.sh.size = 0 /\ new.sh.type = "NULL" /\ Edited(new, new) /\ new.index = 1
  BY <1>9, NewNamedIs
<1>12. StringPut(new, Shstrtab, x, pos)
  BY <1>9, <1>10, <1>11, AddStringIs
<1>13. get_string(x, 0) = << >>
  BY <1>9, <1>10, <1>11, StringsBegin
<1>14. x.index = 1
  BY <1>11, <1>12 DEF StringPut, Edited
<1>15. AddedFrom(e, 1, Shstrtab, new, new, x, pos)
  BY <1>1, <1>5, <1>8, <1>9, <1>14 DEF AddedFrom
<1>16. PICK r : r = AddSection(e, Shstrtab)
  OBVIOUS
<1>17. AddedWith(e, r, 1, new, x, pos)
  <2>1. 1 \in Nat \ {0}
    OBVIOUS
  <2>2. QED BY <1>15, <1>16, <2>1, AddedShape
<1>18. /\ DOMAIN r = ElfFields /\ r.hdr = hdr /\ r.segments = << >>
       /\ IsList(r.sections) /\ Len(r.sections) = 2 /\ r.sections[1] = null
       /\ r.sections[2] = NameAt(x, pos)
  <2>1. 1 \in 1 .. 1 /\ 1 # 2 /\ 1 + 1 = 2
    OBVIOUS
  <2>2. QED BY <1>5, <1>8, <1>17, <2>1 DEF AddedWith
<1>19. PICK T : T = [NameAt(x, pos) EXCEPT !.sh = [@ EXCEPT !.type = "STRTAB", !.align = 1]]
  OBVIOUS
<1>20. NamesSection(T, pos)
  BY <1>9, <1>12, <1>13, <1>19, NamesSectionIs
<1>21. PICK d : d = [r EXCEPT !.sections = [r.sections EXCEPT ![2] = T]]
  OBVIOUS
<1>22. Create(class, encoding, Shstrtab) = d
  <2>1. Create(class, encoding, Shstrtab)
          = [r EXCEPT !.sections[2].sh = [@ EXCEPT !.type = "STRTAB", !.align = 1]]
    BY <1>1, <1>2, <1>6, <1>16 DEF Create
  <2>2. QED BY <1>18, <1>19, <1>21, <2>1
<1>23. WithLast(r, 1, T, d)
  <2>1. WithLast(r, 1, T, [r EXCEPT !.sections = [r.sections EXCEPT ![1 + 1] = T]])
    <3>1. Len(r.sections) = 1 + 1 /\ 1 \in Nat
      BY <1>18
    <3>2. QED BY <1>18, <3>1, LastIsSet
  <2>2. QED BY <1>21, <2>1
<1>24. /\ DOMAIN d = ElfFields /\ d.hdr = hdr /\ d.segments = << >> /\ IsList(d.sections)
       /\ Len(d.sections) = 2 /\ d.sections[1] = null /\ d.sections[2] = T
  <2>1. 1 \in 1 .. 1 /\ 1 + 1 = 2
    OBVIOUS
  <2>2. QED BY <1>18, <1>23, <2>1 DEF WithLast
<1>25. QED BY <1>1, <1>4, <1>20, <1>22, <1>24 DEF Empty

----------------------------------------
(* The tables that a program starts with *)

LEMMA NullIsSound ==
  ASSUME NEW class, NEW s, s = NewSection(0)
  PROVE  SoundSection(class, s, 0) /\ s.name = << >> /\ s.sh.name = 0
<1>1. /\ DOMAIN s = SectionFields /\ s.index = 0 /\ s.name = << >> /\ s.data = << >>
      /\ s.addrset \in BOOLEAN /\ DOMAIN s.sh = ShdrFields /\ s.sh.name = 0 /\ s.sh.type = "NULL"
      /\ s.sh.flags = NoFlags /\ s.sh.addr = 0 /\ s.sh.offset = 0 /\ s.sh.size = 0 /\ s.sh.align = 0
      /\ s.sh.entsize = 0
  BY NewSectionIs
<1>2. IsList(<< >>) /\ Len(<< >>) = 0 /\ 0 \in Addresses
  BY EmptyList, SizesAssumption DEF Addresses
<1>3. IsList(s.data) /\ Len(s.data) = s.sh.size
  BY <1>1, <1>2
<1>4. IsSection(s, 0)
  BY <1>1, <1>2, <1>3 DEF IsSection
<1>5. s.name # NoString
  <2>1. Len(NoString) = 1 /\ Len(<< >>) = 0
    BY OneCell, EmptyList DEF NoString
  <2>2. PICK x : x = s.name /\ x = << >>
    BY <1>1
  <2>3. QED BY <2>1, <2>2
<1>6. ASSUME NEW t \in Tables PROVE s.name # TableName(t)
  <2>1. Len(TableName(t)) = 1 /\ Len(<< >>) = 0
    BY OneCell, EmptyList DEF TableName
  <2>2. PICK x : x = s.name /\ x = << >>
    BY <1>1
  <2>3. QED BY <2>1, <2>2
<1>7. QED BY <1>1, <1>4, <1>5, <1>6 DEF SoundSection

LEMMA NamesAreSound ==
  ASSUME NEW class, NEW T, NEW at, NamesSection(T, at)
  PROVE  SoundSection(class, T, 1)
<1>1. Shstrtab # NoString /\ \A t \in Tables : Shstrtab # TableName(t)
  BY NamesAre, ChoicesAssumption
<1>2. QED BY <1>1 DEF SoundSection, NamesSection

LEMMA EmptyIsSound ==
  ASSUME NEW e, NEW class \in Classes, NEW encoding \in Encodings, Empty(e, class, encoding)
  PROVE  Sound(e) /\ \A t \in Tables : ~HasNamed(e, t)
<1>1. PICK at : NamesSection(e.sections[2], at)
  BY DEF Empty
<1>2. /\ DOMAIN e = ElfFields /\ e.hdr = NewHeader(class, encoding) /\ e.segments = << >>
      /\ IsList(e.sections) /\ Len(e.sections) = 2 /\ e.sections[1] = NewSection(0)
  BY DEF Empty
<1>3. PICK null, T : null = e.sections[1] /\ T = e.sections[2] /\ NamesSection(T, at) /\ null = NewSection(0)
  BY <1>1, <1>2
<1>4. SoundSection(e.hdr.class, null, 0) /\ null.name = << >> /\ null.sh.name = 0
  BY <1>3, NullIsSound
<1>5. SoundSection(e.hdr.class, T, 1)
  BY <1>3, NamesAreSound
<1>6. \A n \in 1 .. 2 : n = 1 \/ n = 2
  OBVIOUS
<1>7. 1 - 1 = 0 /\ 2 - 1 = 1 /\ 2 >= 2
  OBVIOUS
<1>8. \A n \in 1 .. 2 : SoundSection(e.hdr.class, e.sections[n], n - 1)
  BY <1>3, <1>4, <1>5, <1>6, <1>7
<1>9. IsHeader(e.hdr)
  <2>1. PICK h : h = NewHeader(class, encoding)
    OBVIOUS
  <2>2. /\ DOMAIN h = HdrFields /\ h.class = class /\ h.encoding = encoding
        /\ h.ehsize = SizeOf[class].Ehdr /\ h.phentsize = SizeOf[class].Phdr
        /\ h.shentsize = SizeOf[class].Shdr /\ h.shstrndx = 1
    BY <2>1 DEF NewHeader, HdrFields
  <2>3. QED BY <1>2, <2>1, <2>2 DEF IsHeader
<1>10. IsList(e.segments) /\ Len(e.segments) = 0
  BY <1>2, EmptyList
<1>11. IsObject(e)
  <2>1. \A n \in 1 .. Len(e.segments) : IsSegment(e.segments[n], n - 1, Len(e.sections))
    BY <1>10
  <2>2. \A n \in 1 .. Len(e.sections) : IsSection(e.sections[n], n - 1)
    BY <1>2, <1>8 DEF SoundSection
  <2>3. Len(e.sections) >= 2
    BY <1>2
  <2>4. QED BY <1>2, <1>9, <1>10, <2>1, <2>2, <2>3 DEF IsObject
<1>12. /\ T.name = Shstrtab /\ T.sh.name = at /\ get_string(T, at) = Shstrtab /\ get_string(T, 0) = << >>
       /\ T.sh.type = "STRTAB"
  BY <1>3 DEF NamesSection
<1>13. Shstrtab # NoString /\ null.name # NoString
  BY <1>4, <1>5, <1>12 DEF SoundSection
<1>14. NamesKept(e)
  <2>1. get_string(T, null.sh.name) = null.name /\ get_string(T, T.sh.name) = T.name
    BY <1>4, <1>12
  <2>2. \A n \in 1 .. 2 : get_string(T, e.sections[n].sh.name) = e.sections[n].name /\ e.sections[n].name # NoString
    BY <1>3, <1>6, <1>12, <1>13, <2>1
  <2>3. QED BY <1>2, <1>3, <2>2 DEF NamesKept
<1>15. Sound(e)
  <2>1. e.sections[2].sh.type # "NOBITS"
    BY <1>3, <1>12
  <2>2. QED BY <1>2, <1>8, <1>11, <1>14, <2>1 DEF Sound
<1>16. ASSUME NEW t \in Tables PROVE ~HasNamed(e, t)
  <2>1. null.name # TableName(t)
    <3>1. Len(TableName(t)) = 1 /\ Len(<< >>) = 0
      BY OneCell, EmptyList DEF TableName
    <3>2. QED BY <1>4, <3>1
  <2>2. T.name # TableName(t)
    BY <1>12, NamesAre, ChoicesAssumption
  <2>3. QED BY <1>2, <1>3, <1>6, <2>1, <2>2 DEF HasNamed
<1>17. QED BY <1>15, <1>16

(* The object after the first k tables. *)
TablesUpTo(e, s, k) ==
  /\ Sound(e) /\ e.segments = << >>
  /\ \A u \in Tables : HasNamed(e, u) <=> \E j \in 1 .. k : s[j].name = u

LEMMA TableAdded ==
  ASSUME NEW e, NEW s, NEW k \in Nat \ {0}, TablesUpTo(e, s, k - 1), IsAsked(s[k])
  PROVE  TablesUpTo(AddTable(e, s[k]), s, k)
<1>1. PICK t : t = s[k] /\ IsAsked(t)
  OBVIOUS
<1>2. Sound(e)
  BY DEF TablesUpTo
<1>3. PICK m \in Nat : m = Len(e.sections)
  BY <1>2, ListIs DEF Sound, IsObject
<1>4. PICK d : d = AddTable(e, t)
  OBVIOUS
<1>5. /\ Sound(d) /\ m >= 2 /\ Len(d.sections) = m + 1 /\ d.segments = e.segments /\ d.hdr = e.hdr
      /\ d.sections[m + 1].sh.type = t.type /\ d.sections[m + 1].index = m
      /\ \A u \in Tables : HasNamed(d, u) <=> HasNamed(e, u) \/ u = t.name
  BY <1>1, <1>2, <1>3, <1>4, TableIsAdded
<1>6. ASSUME NEW u \in Tables PROVE HasNamed(d, u) <=> \E j \in 1 .. k : s[j].name = u
  <2>1. HasNamed(e, u) <=> \E j \in 1 .. (k - 1) : s[j].name = u
    BY DEF TablesUpTo
  <2>2. \A j \in 1 .. k : j = k \/ j \in 1 .. (k - 1)
    OBVIOUS
  <2>3. k \in 1 .. k /\ \A j \in 1 .. (k - 1) : j \in 1 .. k
    OBVIOUS
  <2>4. QED BY <1>1, <1>5, <2>1, <2>2, <2>3
<1>7. d.segments = << >>
  BY <1>5 DEF TablesUpTo
<1>8. TablesUpTo(d, s, k)
  BY <1>5, <1>6, <1>7 DEF TablesUpTo
<1>9. QED BY <1>1, <1>4, <1>8

LEMMA TablesAdded ==
  ASSUME NEW class \in Classes, NEW encoding \in Encodings, NEW s, IsList(s),
         NEW N \in Nat, N = Len(s), \A k \in 1 .. N : IsAsked(s[k])
  PROVE  TablesUpTo(FoldLeft(AddTable, Create(class, encoding, Shstrtab), s), s, N)
<1>1. PICK base : base = Create(class, encoding, Shstrtab) /\ Empty(base, class, encoding)
  BY CreateIs
<1>2. DOMAIN s = 1 .. N
  BY ListIs
<1>3. PICK h : Runs(h, "tables", 0, base, s, N)
  BY <1>2, FoldSteps
<1>4. h[0] = base /\ h[N] = Fold("tables", 0, base, s)
  BY <1>3 DEF Runs
<1>5. FoldLeft(AddTable, base, s) = Fold("tables", 0, base, s)
  BY DEF Fold, FoldLeft, MapThenFoldSet, Body
<1> DEFINE P == { k \in 0 .. N : TablesUpTo(h[k], s, k) }
<1>6. 0 \in P
  <2>1. Sound(base) /\ \A t \in Tables : ~HasNamed(base, t)
    BY <1>1, EmptyIsSound
  <2>2. base.segments = << >>
    BY <1>1 DEF Empty
  <2>3. ~ \E j \in 1 .. 0 : TRUE
    OBVIOUS
  <2>4. TablesUpTo(h[0], s, 0)
    BY <1>4, <2>1, <2>2, <2>3 DEF TablesUpTo
  <2>5. 0 \in 0 .. N
    OBVIOUS
  <2>6. QED BY <2>4, <2>5
<1>7. ASSUME NEW k \in 1 .. N, k - 1 \in P PROVE k \in P
  <2>1. PICK e : e = h[k - 1] /\ TablesUpTo(e, s, k - 1)
    BY <1>7
  <2>2. PICK d : d = AddTable(e, s[k]) /\ d = h[k]
    BY <1>3, <2>1 DEF Runs, Body
  <2>3. k \in Nat \ {0} /\ IsAsked(s[k])
    OBVIOUS
  <2>4. TablesUpTo(AddTable(e, s[k]), s, k)
    BY <2>1, <2>3, TableAdded
  <2>5. TablesUpTo(h[k], s, k)
    BY <2>2, <2>4
  <2>6. k \in 0 .. N
    OBVIOUS
  <2>7. QED BY <2>5, <2>6
<1> HIDE DEF P
<1>8. \A k \in 0 .. N : k \in P
  BY <1>6, <1>7, Induction
<1>9. N \in P
  <2>1. N \in 0 .. N
    OBVIOUS
  <2>2. QED BY <1>8, <2>1
<1>10. TablesUpTo(h[N], s, N)
  BY <1>9 DEF P
<1>11. QED BY <1>1, <1>4, <1>5, <1>10

NoSegments(e) == e.segments = << >>

LEMMA NoteSegmentIsGood ==
  ASSUME NEW e, Good(e), NoSegments(e)
  PROVE  Good(AddNoteSegment(e))
<1>1. CASE Found(e, "note") = {}
  BY <1>1 DEF AddNoteSegment
<1>2. CASE Found(e, "note") # {}
  <2>1. "note" \in Tables /\ HasNamed(e, "note")
    BY <1>2, IsNamed, TablesAre
  <2>2. PICK m \in Nat : m = Len(e.sections) /\ DOMAIN e.sections = 1 .. m
    BY ListIs DEF Good, Sound, IsObject
  <2>3. PICK n : n = Min(Found(e, "note")) /\ n \in Found(e, "note")
    <3>1. Found(e, "note") \subseteq 1 .. m
      BY <2>2, Zenon DEF Found
    <3>2. Found(e, "note") \in SUBSET Nat
      BY <3>1
    <3>3. QED BY <1>2, <3>2, MinIs
  <2>4. n \in 1 .. m /\ e.sections[n].name = TableName("note")
    BY <2>2, <2>3, Zenon DEF Found, TableName
  <2>5. n - 1 >= 2
    <3>1. SoundSection(e.hdr.class, e.sections[n], n - 1)
      BY <2>2, <2>4 DEF Good, Sound
    <3>2. QED BY <2>1, <2>4, <3>1 DEF SoundSection
  <2>6. PICK i \in 1 .. (m - 1) : i = n - 1
    BY <2>4, <2>5
  <2>7. PICK r : r = create_segment(e)
    OBVIOUS
  <2>8. /\ DOMAIN r = ElfFields /\ r.hdr = e.hdr /\ r.sections = e.sections
        /\ IsList(r.segments) /\ Len(r.segments) = 1 /\ r.segments[1] = NewSegment(0)
    <3>1. PICK N \in Nat : N = Len(e.segments)
      BY EmptyList DEF NoSegments
    <3>2. /\ DOMAIN r = ElfFields /\ r.hdr = e.hdr /\ r.sections = e.sections
          /\ IsList(r.segments) /\ Len(r.segments) = N + 1 /\ r.segments[N + 1] = NewSegment(N)
          /\ \A k \in 1 .. N : r.segments[k] = e.segments[k]
      BY <2>7, <3>1, SegmentIsCreated
    <3>3. N = 0
      BY <3>1, EmptyList DEF NoSegments
    <3>4. QED BY <3>2, <3>3
  <2>9. PICK new : new = NewSegment(0)
    OBVIOUS
  <2>10. /\ DOMAIN new = SegmentFields /\ new.ph = ZeroPhdr /\ new.index = 0 /\ new.sections = << >>
         /\ new.offset_set = FALSE
         /\ DOMAIN ZeroPhdr = PhdrFields /\ ZeroPhdr.vaddr = 0 /\ ZeroPhdr.align = 0 /\ ZeroPhdr.offset = 0
    BY <2>9, NewSegmentIs
  <2>11. PICK ph : ph = [ZeroPhdr EXCEPT !.type = "NOTE"]
    OBVIOUS
  <2>12. DOMAIN ph = PhdrFields /\ ph.vaddr = 0 /\ ph.align = 0 /\ ph.offset = 0
    BY <2>10, <2>11 DEF PhdrFields
  <2>13. PICK s : s = [new EXCEPT !.ph = ph]
    OBVIOUS
  <2>14. DOMAIN s = SegmentFields /\ s.ph = ph /\ s.index = 0 /\ s.sections = << >> /\ s.offset_set = new.offset_set
    BY <2>10, <2>13 DEF SegmentFields
  <2>15. IsSegment(s, 0, m)
    <3>1. new.offset_set \in BOOLEAN /\ ~new.offset_set
      BY <2>10
    <3>2. s.offset_set \in BOOLEAN /\ ~s.offset_set
      BY <2>14, <3>1
    <3>3. IsList(s.sections) /\ Len(s.sections) = 0
      BY <2>14, EmptyList
    <3>4. Increasing(s.sections) /\ \A k \in 1 .. Len(s.sections) : s.sections[k] \in 1 .. (m - 1)
      BY <3>3 DEF Increasing
    <3>5. 0 \in Addresses
      BY SizesAssumption DEF Addresses
    <3>6. DOMAIN s.ph = PhdrFields /\ s.ph.vaddr \in Addresses /\ s.ph.align \in Nat /\ s.ph.offset \in Nat
      BY <2>12, <2>14, <3>5
    <3>7. QED BY <2>14, <3>2, <3>3, <3>4, <3>6 DEF IsSegment
  <2>16. SectionsOf(s) = {}
    BY <2>14, EmptyList DEF SectionsOf, ToSet
  <2>17. PICK t : t = add_section_index(s, i, 1) /\ IsSegment(t, 0, m)
    BY <2>15, <2>16, SectionIsAssigned
  <2>18. PICK d : d = [r EXCEPT !.segments = [r.segments EXCEPT ![1] = t]]
    OBVIOUS
  <2>19. AddNoteSegment(e) = d
    <3>1. AddNoteSegment(e)
            = [r EXCEPT !.segments[1] = add_section_index([@ EXCEPT !.ph.type = "NOTE"], i, 1)]
      BY <1>2, <2>3, <2>6, <2>7 DEF AddNoteSegment
    <3>2. r.segments[1] = new
      BY <2>8, <2>9
    <3>3. [new EXCEPT !.ph.type = "NOTE"] = s
      BY <2>10, <2>11, <2>13
    <3>4. QED BY <2>17, <2>18, <3>1, <3>2, <3>3
  <2>20. \A k \in 1 .. 1 : k # 1 => IsSegment(r.segments[k], k - 1, Len(e.sections))
    OBVIOUS
  <2>21. 1 \in 1 .. 1 /\ 1 \in Nat /\ 1 - 1 = 0
    OBVIOUS
  <2>22. IsSegment(t, 1 - 1, Len(e.sections))
    BY <2>2, <2>17, <2>21
  <2>23. Good(d)
    BY <2>8, <2>18, <2>20, <2>21, <2>22, OneSegmentIsGood
  <2>24. QED BY <2>19, <2>23
<1>3. QED BY <1>1, <1>2

LEMMA InitIsGood ==
  ASSUME Init
  PROVE  Good(elf)
<1>1. PICK p \in Programs :
        elf = AddNoteSegment(FoldLeft(AddTable, Create(p.class, p.encoding, Shstrtab), p.tables))
  BY DEF Init
<1>2. PICK s : s = p.tables /\ IsList(s) /\ p.class \in Classes /\ p.encoding \in Encodings
  BY ProgramsAssumption
<1>3. PICK N \in Nat : N = Len(s) /\ DOMAIN s = 1 .. N
  BY <1>2, ListIs
<1> DEFINE names == { p.tables[k].name : k \in DOMAIN p.tables }
<1>4. /\ "symtab" \in names => {"strtab", "rel"} \subseteq names
      /\ "dynamic" \in names => "strtab" \in names
      /\ "verneed" \in names => "dynamic" \in names
  BY ProgramsAssumption
<1>5. \A k \in 1 .. N : IsAsked(s[k])
  BY <1>2, <1>3, ProgramsAssumption DEF IsAsked
<1>6. PICK e : /\ e = FoldLeft(AddTable, Create(p.class, p.encoding, Shstrtab), s)
               /\ TablesUpTo(e, s, N)
  BY <1>2, <1>3, <1>5, TablesAdded
<1>7. \A u \in Tables : HasNamed(e, u) <=> u \in names
  BY <1>2, <1>3, <1>6 DEF TablesUpTo
<1>8. {"symtab", "strtab", "rel", "dynamic", "verneed"} \subseteq Tables
  BY TablesAre
<1> HIDE DEF names
<1>9. Together(e)
  BY <1>4, <1>7, <1>8 DEF Together
<1>10. Good(e) /\ e.segments = << >>
  BY <1>6, <1>9 DEF Good, TablesUpTo
<1>11. QED BY <1>1, <1>2, <1>6, <1>10, NoteSegmentIsGood DEF NoSegments

----------------------------------------
(* Saving and loading a good object *)

(* The object r is b, written to a file and read again. *)
Reread(s, t) ==
  /\ t.name = s.name /\ t.data = s.data /\ t.sh.name = s.sh.name /\ t.sh.type = s.sh.type
  /\ t.sh.flags = s.sh.flags /\ t.sh.size = s.sh.size /\ t.sh.align = s.sh.align
  /\ t.sh.link = s.sh.link /\ t.sh.info = s.sh.info /\ t.sh.entsize = s.sh.entsize

AsSaved(b, r) ==
  /\ Len(r.sections) = Len(b.sections) /\ Len(r.segments) = Len(b.segments)
  /\ \A n \in 1 .. Len(b.sections) : Reread(b.sections[n], r.sections[n])
  /\ \A n \in 1 .. Len(b.segments) : r.segments[n].ph.type = b.segments[n].ph.type

LEMMA StringKeptIn ==
  ASSUME NEW s, NEW t, t.data = s.data, t.sh.size = s.sh.size, NEW i
  PROVE  get_string(t, i) = get_string(s, i)
<1>1. PICK d, z : d = s.data /\ z = s.sh.size /\ d = t.data /\ z = t.sh.size
  OBVIOUS
<1>2. PICK S : S = { n \in (i + 1) .. Len(d) : d[n] = NUL }
  OBVIOUS
<1>3. get_string(t, i) = IF i < z /\ S # {} THEN SubSeq(d, i + 1, Min(S) - 1) ELSE NoString
  BY <1>1, <1>2 DEF get_string
<1>4. get_string(s, i) = IF i < z /\ S # {} THEN SubSeq(d, i + 1, Min(S) - 1) ELSE NoString
  BY <1>1, <1>2 DEF get_string
<1>5. QED BY <1>3, <1>4

LEMMA ReadAsSaved ==
  ASSUME NEW b, NEW E, IsPrepared(b, E), NEW e, Saved(E, e), NEW r, LoadedFrom(e, r)
  PROVE  AsSaved(b, r) /\ r.hdr.class = b.hdr.class
<1>1. LaidOut(E, e) /\ SameObject(E, e) /\ SavedHeader(E.hdr, e.hdr)
  BY DEF Saved, LaidOut
<1>2. /\ E.sections = b.sections /\ Len(E.segments) = Len(b.segments)
      /\ \A n \in 1 .. Len(b.segments) : PreparedSegment(b.segments[n], E.segments[n])
      /\ PreparedHeader(b.hdr, E.hdr, Len(b.segments), Len(b.sections))
  BY DEF IsPrepared
<1>3. /\ Len(e.sections) = Len(E.sections) /\ Len(e.segments) = Len(E.segments)
      /\ \A n \in 1 .. Len(E.sections) : SameSection(E.sections[n], e.sections[n])
      /\ \A n \in 1 .. Len(E.segments) : SameSegment(E.segments[n], e.segments[n])
  BY <1>1 DEF SameObject
<1>4. /\ r.hdr = e.hdr /\ LoadedSections(e, r.sections) /\ Len(r.segments) = Len(e.segments)
      /\ \A n \in 1 .. Len(e.segments) : ReloadedSegment(r.segments[n], e.segments[n], r.sections)
  BY DEF LoadedFrom
<1>5. /\ Len(r.sections) = Len(e.sections)
      /\ \A n \in 1 .. Len(e.sections) : LoadedAs(r.sections[n], e.sections[n], e.sections[n].name)
  BY <1>4 DEF LoadedSections
<1>6. ASSUME NEW n \in 1 .. Len(b.sections) PROVE Reread(b.sections[n], r.sections[n])
  <2>1. SameSection(b.sections[n], e.sections[n]) /\ LoadedAs(r.sections[n], e.sections[n], e.sections[n].name)
    BY <1>2, <1>3, <1>5
  <2>2. PICK s, t, u : s = b.sections[n] /\ t = e.sections[n] /\ u = r.sections[n]
    OBVIOUS
  <2>3. u.sh = t.sh /\ u.name = t.name /\ u.data = t.data
    BY <2>1, <2>2 DEF LoadedAs
  <2>4. Reread(s, u)
    BY <2>1, <2>2, <2>3 DEF SameSection, Reread
  <2>5. QED BY <2>2, <2>4
<1>7. ASSUME NEW n \in 1 .. Len(b.segments) PROVE r.segments[n].ph.type = b.segments[n].ph.type
  <2>1. PreparedSegment(b.segments[n], E.segments[n])
    BY <1>2
  <2>2. SameSegment(E.segments[n], e.segments[n])
    BY <1>2, <1>3
  <2>3. ReloadedSegment(r.segments[n], e.segments[n], r.sections)
    BY <1>2, <1>3, <1>4
  <2>4. QED BY <2>1, <2>2, <2>3 DEF PreparedSegment, SameSegment, ReloadedSegment
<1>8. Len(r.sections) = Len(b.sections) /\ Len(r.segments) = Len(b.segments)
  BY <1>2, <1>3, <1>4, <1>5
<1>9. r.hdr.class = b.hdr.class
  BY <1>1, <1>2, <1>4 DEF SavedHeader, PreparedHeader
<1>10. QED BY <1>6, <1>7, <1>8, <1>9 DEF AsSaved

(* An object that is read as a good one was saved is good. *)
LEMMA RereadIsGood ==
  ASSUME NEW b, Good(b), NEW r, IsObject(r), AsSaved(b, r), r.hdr.class = b.hdr.class
  PROVE  Good(r)
<1>1. PICK m \in Nat : m = Len(b.sections) /\ m = Len(r.sections) /\ m >= 2
  BY ListIs DEF Good, Sound, IsObject, AsSaved
<1>2. \A n \in 1 .. m : Reread(b.sections[n], r.sections[n])
  BY <1>1 DEF AsSaved
<1>3. \A n \in 1 .. m : SoundSection(b.hdr.class, b.sections[n], n - 1)
  BY <1>1 DEF Good, Sound
<1>4. ASSUME NEW n \in 1 .. m PROVE SoundSection(r.hdr.class, r.sections[n], n - 1)
  <2>1. PICK s, t : s = b.sections[n] /\ t = r.sections[n] /\ Reread(s, t)
    BY <1>2
  <2>2. SoundSection(b.hdr.class, s, n - 1)
    BY <1>3, <2>1
  <2>3. IsSection(t, n - 1)
    BY <1>1, <2>1 DEF IsObject
  <2>4. RelocStruct(t) = RelocStruct(s)
    BY <2>1 DEF Reread, RelocStruct
  <2>5. t.name = s.name /\ t.sh.name = s.sh.name /\ t.sh.type = s.sh.type /\ t.sh.entsize = s.sh.entsize
    BY <2>1 DEF Reread
  <2>6. SoundSection(r.hdr.class, t, n - 1)
    BY <2>2, <2>3, <2>4, <2>5 DEF SoundSection
  <2>7. QED BY <2>1, <2>6
<1>5. 2 \in 1 .. m
  BY <1>1
<1>6. PICK x, y : x = b.sections[2] /\ y = r.sections[2] /\ Reread(x, y)
  BY <1>2, <1>5
<1>7. \A i : get_string(y, i) = get_string(x, i)
  <2>1. y.data = x.data /\ y.sh.size = x.sh.size
    BY <1>6 DEF Reread
  <2>2. QED BY <2>1, StringKeptIn
<1>8. ASSUME NEW n \in 1 .. m
      PROVE  get_string(y, r.sections[n].sh.name) = r.sections[n].name /\ r.sections[n].name # NoString
  <2>1. get_string(x, b.sections[n].sh.name) = b.sections[n].name /\ b.sections[n].name # NoString
    BY <1>1, <1>6 DEF Good, Sound, NamesKept
  <2>2. r.sections[n].sh.name = b.sections[n].sh.name /\ r.sections[n].name = b.sections[n].name
    BY <1>2 DEF Reread
  <2>3. QED BY <1>7, <2>1, <2>2
<1>9. NamesKept(r)
  BY <1>1, <1>6, <1>8 DEF NamesKept
<1>10. r.sections[2].sh.type # "NOBITS"
  BY <1>2, <1>5 DEF Good, Sound, Reread
<1>11. Sound(r)
  BY <1>1, <1>4, <1>9, <1>10 DEF Sound
<1>12. \A t : HasNamed(r, t) <=> HasNamed(b, t)
  BY <1>1, <1>2 DEF HasNamed, Reread
<1>13. Together(r)
  BY <1>12 DEF Good, Together
<1>14. QED BY <1>11, <1>13 DEF Good

(* A program saves. *)
LEMMA SaveFileIs ==
  ASSUME Good(elf), SaveFile
  PROVE  pc' = "failed" \/ (pc' = "saved" /\ built' = elf /\ SavedIn(Prepared(elf), elf', file'))
<1>1. PICK b : b = elf /\ Good(b) /\ IsObject(b) /\ Sensible(b)
  BY DEF SaveFile, Good, Sound
<1>2. PICK E : E = Prepared(b)
  OBVIOUS
<1>3. Ready(E) /\ IsPrepared(b, E)
  BY <1>1, <1>2, PreparedReady, PreparedIs
<1>4. E.hdr.shnum = Len(E.sections)
  BY <1>3 DEF IsPrepared, PreparedHeader
<1>5. PICK L : L = LayoutSegments(E)
  OBVIOUS
<1>6. PICK e : e = LayoutSectionTable(LayoutSections(AtEnd(L)))
  OBVIOUS
<1>7. PICK s : s = Save(b)
  OBVIOUS
<1>8. elf' = s.elf /\ file' = s.file /\ pc' = (IF s.ok THEN "saved" ELSE "failed") /\ built' = b
  BY <1>1, <1>7 DEF SaveFile
<1>9. s = IF ~L.ok THEN [ok |-> FALSE, elf |-> AtEnd(L), file |-> << >>]
          ELSE [ok |-> TRUE, elf |-> e, file |-> SavedFile(e)]
  BY <1>2, <1>5, <1>6, <1>7 DEF Save, Prepared, AtEnd, SavedFile
<1>10. CASE ~L.ok
  <2>1. ~s.ok
    BY <1>9, <1>10
  <2>2. QED BY <1>8, <2>1
<1>11. CASE L.ok
  <2>1. s.ok /\ s.elf = e /\ s.file = SavedFile(e)
    BY <1>9, <1>11
  <2>2. LaidOut(E, e)
    BY <1>3, <1>5, <1>6, <1>11, SaveLaysOut
  <2>3. Saved(E, e)
    BY <1>3, <1>4, <2>2 DEF Saved
  <2>4. SavedIn(E, e, SavedFile(e))
    BY <2>3, SavedFileIs DEF SavedIn
  <2>5. QED BY <1>1, <1>2, <1>8, <2>1, <2>4
<1>12. QED BY <1>10, <1>11

(* A program loads. *)
LEMMA LoadFileIs ==
  ASSUME Good(built), SavedIn(Prepared(built), elf, file), NEW lost \in LostCells, LoadFile(lost)
  PROVE  /\ pc' \in {"failed", "cut", "loaded"}
         /\ pc' = "loaded" => Good(elf') /\ AsSaved(built, elf')
         /\ pc' = "cut" => elf'.segments = << >>
<1>1. PICK b, E, e, f : b = built /\ E = Prepared(b) /\ e = elf /\ f = file
  OBVIOUS
<1>2. SavedIn(E, e, f) /\ Saved(E, e)
  BY <1>1 DEF SavedIn
<1>3. IsPrepared(b, E) /\ NamesKept(b)
  BY <1>1, PreparedIs DEF Good, Sound
<1>4. NamesKept(E)
  BY <1>3 DEF IsPrepared, NamesKept
<1>5. IsList(f) /\ Len(f) \in Nat
  BY <1>2, FileNumbers
<1>6. lost \in Nat /\ lost <= Len(f)
  BY <1>1, ChoicesAssumption DEF LoadFile
<1>7. PICK n \in Nat : n = Len(f) - lost
  BY <1>5, <1>6
<1>8. PICK g, l : g = SubSeq(f, 1, n) /\ l = Load(g)
  OBVIOUS
<1>9. elf' = l.elf /\ pc' = (IF ~l.ok THEN "failed" ELSE IF lost > 0 THEN "cut" ELSE "loaded")
  BY <1>1, <1>7, <1>8 DEF LoadFile
<1>10. CASE ~l.ok
  BY <1>9, <1>10
<1>11. CASE l.ok /\ lost > 0
  <2>1. n < Len(f)
    BY <1>5, <1>6, <1>7, <1>11
  <2>2. l.elf.segments = << >>
    BY <1>2, <1>8, <1>11, <2>1, CutIsRefused
  <2>3. QED BY <1>9, <1>11, <2>2
<1>12. CASE l.ok /\ ~(lost > 0)
  <2>1. n = Len(f)
    BY <1>5, <1>6, <1>7, <1>12
  <2>2. g = f
    <3>1. IsList(SubSeq(f, 0 + 1, 0 + n)) /\ Len(SubSeq(f, 0 + 1, 0 + n)) = n
          /\ \A k \in 1 .. n : SubSeq(f, 0 + 1, 0 + n)[k] = f[0 + k]
      <4>1. 0 \in Nat /\ 0 + n <= Len(f)
        BY <1>5, <2>1
      <4>2. IsList(f)
        BY <1>5
      <4>3. QED BY <4>1, <4>2, PartIs
    <3>2. 0 + 1 = 1 /\ 0 + n = n /\ \A k \in 1 .. n : 0 + k = k
      OBVIOUS
    <3>3. IsList(g) /\ Len(g) = n /\ \A k \in 1 .. n : g[k] = f[k]
      BY <1>8, <3>1, <3>2
    <3>4. QED BY <1>5, <2>1, <3>3, ListsEqual
  <2>3. LoadedFrom(e, l.elf)
    BY <1>2, <1>4, <1>8, <1>12, <2>2, LoadIs
  <2>4. IsObject(l.elf)
    BY <1>2, <2>3, LoadedIsObject
  <2>5. AsSaved(b, l.elf) /\ l.elf.hdr.class = b.hdr.class
    BY <1>2, <1>3, <2>3, ReadAsSaved
  <2>6. Good(l.elf)
    BY <1>1, <2>4, <2>5, RereadIsGood
  <2>7. QED BY <1>1, <1>9, <1>12, <2>5, <2>6
<1>13. QED BY <1>10, <1>11, <1>12

----------------------------------------
(* The inductive invariant *)

(* The object that is edited is good; the file of a save holds the object as save has  *)
(* laid it out, which was good before; what is loaded is what was saved; and a program *)
(* that goes on with a file that was cut has no segments.                              *)
IInv ==
  /\ pc \in {"edit", "saved", "loaded", "failed", "cut"}
  /\ pc \in {"edit", "loaded"} => Good(elf)
  /\ pc \in {"saved", "loaded"} => Good(built)
  /\ pc = "saved" => SavedIn(Prepared(built), elf, file)
  /\ pc = "loaded" => AsSaved(built, elf)
  /\ pc = "cut" => elf.segments = << >>

(* A step that leaves a good object to be edited. *)
StillEditing == pc' = "edit" /\ Good(elf')

LEMMA EditingInv ==
  ASSUME StillEditing
  PROVE  IInv'
  BY DEF StillEditing, IInv

LEMMA TablesStep ==
  ASSUME IInv, Next
  PROVE  \/ StillEditing \/ LookAtDynamic \/ SaveFile \/ \E lost \in LostCells : LoadFile(lost)
         \/ GoOn
<1>1. ASSUME pc = "edit" PROVE Good(elf)
  BY <1>1 DEF IInv
<1>2. CASE \E s \in EntryChoices.symtab : AddSymbol(s)
  <2>1. PICK s \in EntryChoices.symtab : AddSymbol(s)
    BY <1>2
  <2>2. pc = "edit" /\ pc' = "edit"
    BY <2>1 DEF AddSymbol, Tell
  <2>3. QED BY <1>1, <2>1, <2>2, AddSymbolIsGood DEF StillEditing
<1>3. CASE \E r \in EntryChoices.rel, i \in SymbolIndexes : AddRelocation(r, i)
  <2>1. PICK r \in EntryChoices.rel, i \in SymbolIndexes : AddRelocation(r, i)
    BY <1>3
  <2>2. pc = "edit" /\ pc' = "edit"
    BY <2>1 DEF AddRelocation, Tell
  <2>3. QED BY <1>1, <2>1, <2>2, AddRelocationIsGood DEF StillEditing
<1>4. CASE ArrangeLocals
  <2>1. pc = "edit" /\ pc' = "edit"
    BY <1>4 DEF ArrangeLocals
  <2>2. QED BY <1>1, <1>4, <2>1, ArrangeLocalsIsGood DEF StillEditing
<1>5. CASE \E type \in HashTypes : LinkHash(type)
  <2>1. PICK type \in HashTypes : LinkHash(type)
    BY <1>5
  <2>2. pc = "edit" /\ pc' = "edit"
    BY <2>1 DEF LinkHash
  <2>3. QED BY <1>1, <2>1, <2>2, LinkHashIsGood DEF StillEditing
<1>6. CASE \E d \in EntryChoices.dynamic : AddDynamic(d)
  <2>1. PICK d \in EntryChoices.dynamic : AddDynamic(d)
    BY <1>6
  <2>2. pc = "edit" /\ pc' = "edit"
    BY <2>1 DEF AddDynamic, Tell
  <2>3. QED BY <1>1, <2>1, <2>2, AddDynamicIsGood DEF StillEditing
<1>7. CASE \E needs \in EntryChoices.verneed : LinkNeeds(needs)
  <2>1. PICK needs \in EntryChoices.verneed : LinkNeeds(needs)
    BY <1>7
  <2>2. pc = "edit" /\ pc' = "edit"
    BY <2>1, Zenon DEF LinkNeeds
  <2>3. QED BY <1>1, <2>1, <2>2, LinkNeedsIsGood DEF StillEditing
<1>8. CASE \E n \in EntryChoices.note : AddNote(n)
  <2>1. PICK n \in EntryChoices.note : AddNote(n)
    BY <1>8
  <2>2. pc = "edit" /\ pc' = "edit"
    BY <2>1 DEF AddNote, Tell
  <2>3. QED BY <1>1, <2>1, <2>2, AddNoteIsGood DEF StillEditing
<1>9. CASE \E a \in EntryChoices.array : AddAddress(a)
  <2>1. PICK a \in EntryChoices.array : AddAddress(a)
    BY <1>9
  <2>2. pc = "edit" /\ pc' = "edit"
    BY <2>1 DEF AddAddress, Tell
  <2>3. QED BY <1>1, <2>1, <2>2, AddAddressIsGood DEF StillEditing
<1>10. CASE \E v \in EntryChoices.versym : AddVersion(v)
  <2>1. PICK v \in EntryChoices.versym : AddVersion(v)
    BY <1>10
  <2>2. pc = "edit" /\ pc' = "edit"
    BY <2>1 DEF AddVersion, Tell
  <2>3. QED BY <1>1, <2>1, <2>2, AddVersionIsGood DEF StillEditing
<1>11. CASE \E i \in 0 .. (MaxEntries - 1), v \in EntryChoices.versym : ModifyVersion(i, v)
  <2>1. PICK i \in 0 .. (MaxEntries - 1), v \in EntryChoices.versym : ModifyVersion(i, v)
    BY <1>11
  <2>2. pc = "edit" /\ pc' = "edit" /\ i \in Nat
    BY <2>1 DEF ModifyVersion
  <2>3. QED BY <1>1, <2>1, <2>2, ModifyVersionIsGood DEF StillEditing
<1>12. CASE \E a \in EntryChoices.modinfo : AddAttribute(a)
  <2>1. PICK a \in EntryChoices.modinfo : AddAttribute(a)
    BY <1>12
  <2>2. pc = "edit" /\ pc' = "edit"
    BY <2>1 DEF AddAttribute, Tell
  <2>3. QED BY <1>1, <2>1, <2>2, AddAttributeIsGood DEF StillEditing
<1>13. CASE \E c \in SectionChoices : AddSectionAs(c)
  <2>1. PICK c \in SectionChoices : AddSectionAs(c)
    BY <1>13
  <2>2. pc = "edit" /\ pc' = "edit"
    BY <2>1 DEF AddSectionAs, Plain
  <2>3. QED BY <1>1, <2>1, <2>2, AddSectionAsIsGood DEF StillEditing
<1>14. CASE \E c \in SegmentChoices : AddSegmentAs(c)
  <2>1. PICK c \in SegmentChoices : AddSegmentAs(c)
    BY <1>14
  <2>2. pc = "edit" /\ pc' = "edit"
    BY <2>1 DEF AddSegmentAs, Plain
  <2>3. QED BY <1>1, <2>1, <2>2, AddSegmentAsIsGood DEF StillEditing
<1>15. CASE \E n \in 1 .. MaxSegments, i \in 2 .. MaxSections : Assign(n, i)
  <2>1. PICK n \in 1 .. MaxSegments, i \in 2 .. MaxSections : Assign(n, i)
    BY <1>15
  <2>2. pc = "edit" /\ pc' = "edit"
    BY <2>1 DEF Assign, Plain
  <2>3. QED BY <1>1, <2>1, <2>2, AssignIsGood DEF StillEditing
<1>16. QED
  BY <1>2, <1>3, <1>4, <1>5, <1>6, <1>7, <1>8, <1>9, <1>10, <1>11, <1>12, <1>13, <1>14, <1>15 DEF Next

LEMMA StutterInv ==
  ASSUME IInv, UNCHANGED << pc, elf, file, built >>
  PROVE  IInv'
  BY DEF IInv

LEMMA NextInv ==
  ASSUME IInv, Next
  PROVE  IInv'
<1>1. CASE StillEditing
  BY <1>1, EditingInv
<1>2. CASE LookAtDynamic
  BY <1>2, StutterInv DEF LookAtDynamic
<1>3. CASE SaveFile
  <2>1. Good(elf)
    BY <1>3 DEF SaveFile, IInv
  <2>2. pc' = "failed" \/ (pc' = "saved" /\ built' = elf /\ SavedIn(Prepared(elf), elf', file'))
    BY <1>3, <2>1, SaveFileIs
  <2>3. CASE pc' = "failed"
    BY <2>3 DEF IInv
  <2>4. CASE pc' = "saved" /\ built' = elf /\ SavedIn(Prepared(elf), elf', file')
    BY <2>1, <2>4 DEF IInv
  <2>5. QED BY <2>2, <2>3, <2>4
<1>4. CASE \E lost \in LostCells : LoadFile(lost)
  <2>1. PICK lost \in LostCells : LoadFile(lost)
    BY <1>4
  <2>2. Good(built) /\ SavedIn(Prepared(built), elf, file) /\ built' = built
    BY <2>1 DEF LoadFile, IInv
  <2>3. /\ pc' \in {"failed", "cut", "loaded"}
        /\ pc' = "loaded" => Good(elf') /\ AsSaved(built, elf')
        /\ pc' = "cut" => elf'.segments = << >>
    BY <2>1, <2>2, LoadFileIs
  <2>4. QED BY <2>2, <2>3 DEF IInv
<1>5. CASE GoOn
  <2>1. pc = "loaded" /\ pc' = "edit" /\ elf' = elf
    BY <1>5 DEF GoOn
  <2>2. QED BY <2>1 DEF IInv
<1>6. QED BY <1>1, <1>2, <1>3, <1>4, <1>5, TablesStep

LEMMA InitInv == Init => IInv
<1> SUFFICES ASSUME Init PROVE IInv
  OBVIOUS
<1>1. Good(elf)
  BY InitIsGood
<1>2. QED BY <1>1 DEF Init, IInv

(* Whatever a program does with an object before it saves it and after it has loaded it *)
(* again, the object stays one that save can lay out, the file is the one of the object, *)
(* and load gives the object back (elfio.hpp: create, add_section, save, load).          *)
THEOREM ElfioInvariant == Spec => []IInv
<1>1. IInv /\ [Next]_vars => IInv'
  <2> SUFFICES ASSUME IInv, [Next]_vars PROVE IInv'
    OBVIOUS
  <2>1. CASE Next
    BY <2>1, NextInv
  <2>2. CASE UNCHANGED vars
    BY <2>2, StutterInv DEF vars
  <2>3. QED BY <2>1, <2>2
<1>2. QED BY InitInv, <1>1, PTL DEF Spec

(* In a file that save has written, the header, the tables of headers and the sections  *)
(* have no byte in common, and validate has nothing to say of it (elfio.hpp,             *)
(* layout_segments_and_their_sections, layout_sections_without_segments, validate).      *)
THEOREM NothingOverlaps == Spec => []LaidOutApart
<1>1. IInv => LaidOutApart
  <2> SUFFICES ASSUME IInv, pc = "saved"
               PROVE  /\ \A n, m \in DOMAIN Places :
                           n < m => \/ Places[n][1] + Places[n][2] <= Places[m][1]
                                    \/ Places[m][1] + Places[m][2] <= Places[n][1]
                                    \/ Places[n][2] = 0 \/ Places[m][2] = 0
                      /\ ValidateIsSilent(elf)
    BY DEF LaidOutApart
  <2>1. PICK E, e : E = Prepared(built) /\ e = elf /\ SavedIn(E, e, file)
    BY DEF IInv
  <2>2. Ready(E) /\ LaidOut(E, e) /\ E.hdr.shnum = Len(E.sections)
    BY <2>1 DEF SavedIn, Saved
  <2>3. E.hdr.shnum \in Nat
    BY <2>2, ReadyIs
  <2>4. PICK P : P = Tables3(e) \o PlacesOf(e)
    OBVIOUS
  <2>5. \A n, m \in DOMAIN P : n < m => ApartAt(P[n][1], P[n][2], P[m][1], P[m][2])
    BY <2>2, <2>3, <2>4, PlacesApart
  <2>6. P = Places
    BY <2>1, <2>4 DEF Places, Tables3, PlacesOf
  <2>7. \A n, m \in DOMAIN Places :
          n < m => ApartAt(Places[n][1], Places[n][2], Places[m][1], Places[m][2])
    BY <2>5, <2>6
  <2>8. ValidateIsSilent(elf)
    BY <2>1, <2>2, SavedIsSilent
  <2>9. QED BY <2>7, <2>8 DEF ApartAt
<1>2. QED BY ElfioInvariant, <1>1, PTL

(* Every section that was saved is loaded with its name, fields and bytes, and there are *)
(* as many segments, of the same types; a file that was cut short is refused or has no   *)
(* segments (elfio.hpp, save and load).                                                  *)
THEOREM WhatIsSavedIsLoaded == Spec => []SavedIsLoaded
<1>1. IInv => SavedIsLoaded
  <2> SUFFICES ASSUME IInv PROVE SavedIsLoaded
    OBVIOUS
  <2>1. ASSUME pc = "loaded"
        PROVE  /\ Len(elf.sections) = Len(built.sections) /\ Len(elf.segments) = Len(built.segments)
               /\ \A n \in DOMAIN built.sections : View(elf.sections[n]) = View(built.sections[n])
               /\ \A n \in DOMAIN built.segments : elf.segments[n].ph.type = built.segments[n].ph.type
    <3>1. AsSaved(built, elf)
      BY <2>1 DEF IInv
    <3>2. DOMAIN built.sections = 1 .. Len(built.sections) /\ DOMAIN built.segments = 1 .. Len(built.segments)
      BY <2>1, ListIs DEF IInv, Good, Sound, IsObject
    <3>3. \A n \in 1 .. Len(built.sections) : View(elf.sections[n]) = View(built.sections[n])
      <4>1. \A s, t : Reread(s, t) => View(t) = View(s)
        BY DEF Reread, View
      <4>2. QED BY <3>1, <4>1 DEF AsSaved
    <3>4. QED BY <3>1, <3>2, <3>3 DEF AsSaved
  <2>2. QED BY <2>1 DEF SavedIsLoaded, IInv
<1>2. QED BY ElfioInvariant, <1>1, PTL

=============================================================================
