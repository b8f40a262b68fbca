-------------------------- MODULE TestbenchProofs --------------------------
(* Proofs about Testbench, for every file, command line, width of words and *)
(* number of cycles.                                                        *)
EXTENDS Testbench, SequenceTheorems, FiniteSetTheorems, WellFoundedInduction, TLAPS

-----------------------------------------------------------------------------
(* Numbers *)

(* A set of natural numbers that is not empty has a least element. *)
LEMMA LeastElement ==
  ASSUME NEW S \in SUBSET Nat, S # {}
  PROVE  \E n \in S : \A m \in S : n <= m
<1>1. PICK n \in S : \A m \in S : ~(<< m, n >> \in OpToRel(<, Nat))
  BY WFMin, NatLessThanWellFounded
<1>2. \A m \in S : ~(m < n)
  BY <1>1 DEF OpToRel
<1>3. QED
  BY <1>2

(* A set of natural numbers with a bound that is not empty has a greatest element. *)
LEMMA GreatestElement ==
  ASSUME NEW S \in SUBSET Nat, S # {}, NEW b \in Nat, \A m \in S : m <= b
  PROVE  \E n \in S : \A m \in S : m <= n
<1> DEFINE T == { j \in Nat : b - j \in S }
<1>1. PICK m \in S : TRUE
  OBVIOUS
<1>2. b - m \in T
  OBVIOUS
<1>3. PICK j \in T : \A u \in T : j <= u
  BY <1>2, LeastElement
<1>4. \A u \in S : b - u \in T
  OBVIOUS
<1>5. ASSUME NEW u \in S PROVE u <= b - j
  <2>1. j <= b - u
    BY <1>3, <1>4
  <2>2. QED
    BY <1>3, <2>1
<1>6. QED
  BY <1>3, <1>5

LEMMA MaxIs ==
  ASSUME NEW S \in SUBSET Nat, S # {}, NEW b \in Nat, \A m \in S : m <= b
  PROVE  Max(S) \in S /\ \A m \in S : m <= Max(S)
<1>1. \E k \in S : \A m \in S : m <= k
  BY GreatestElement
<1>2. \E k \in S : \A m \in S : k >= m
  BY <1>1
<1>3. QED
  BY <1>2 DEF Max

LEMMA MinIs ==
  ASSUME NEW S \in SUBSET Nat, S # {}
  PROVE  Min(S) \in S /\ \A m \in S : Min(S) <= m
  BY LeastElement DEF Min

(* Max of a set of numbers from 1 to n. *)
LEMMA GreatestIs ==
  ASSUME NEW n \in Nat, NEW t \in SUBSET (1 .. n), t # {}
  PROVE  Max(t) \in t /\ \A m \in t : m <= Max(t)
<1>1. t \in SUBSET Nat /\ \A m \in t : m <= n
  OBVIOUS
<1>2. QED
  BY <1>1, MaxIs

(* A multiple leaves no remainder. *)
LEMMA Multiple ==
  ASSUME NEW w \in Nat \ {0}, NEW j \in Int
  PROVE  (w * j) % w = 0
<1> DEFINE x == w * j
<1>1. x \in Int /\ x % w \in 0 .. (w - 1) /\ x = w * (x \div w) + (x % w) /\ x \div w \in Int
  OBVIOUS
<1>2. PICK d \in Int : d = j - (x \div w)
  BY <1>1
<1>3. w * d = x % w
  BY <1>1, <1>2
<1>4. ~(d >= 1) /\ ~(d <= -1)
  BY <1>1, <1>3
<1>5. QED
  BY <1>1, <1>3, <1>4

(* Between two multiples there is room for a step. *)
LEMMA NextMultiple ==
  ASSUME NEW w \in Nat \ {0}, NEW a \in Nat, NEW b \in Nat, a % w = 0, b % w = 0, a < b
  PROVE  a + w <= b /\ (a + w) % w = 0
<1>1. PICK u \in Int : a = w * u
  BY a = w * (a \div w) + (a % w)
<1>2. PICK j \in Int : b = w * j
  BY b = w * (b \div w) + (b % w)
<1>3. u < j
  BY <1>1, <1>2
<1>4. w * (u + 1) <= w * j
  BY <1>3
<1>5. a + w = w * (u + 1)
  BY <1>1
<1>6. (w * (u + 1)) % w = 0
  BY Multiple
<1>7. a + w <= b
  BY <1>2, <1>4, <1>5
<1>8. QED
  BY <1>5, <1>6, <1>7

-----------------------------------------------------------------------------
(* Loops *)

ByteOf(seg, n) == IF n <= seg.ph.filesz THEN seg.data[n].byte ELSE 0
ByteStep(seg, acc, n) == MergeByte(acc, seg.ph.paddr + n - 1, ByteOf(seg, n))
SectionLoaded(hdr, acc, j) ==
  LET l == LoadSection(acc.st, hdr, j)
  IN  [st |-> l.st, sections |-> Append(acc.sections, l.sec)]
SegmentLoaded(c, acc, j) ==
  LET l == LoadSegment(acc.st, c.hdr, c.sections, j)
  IN  IF ~acc.ok THEN acc
      ELSE IF l.st.fail THEN [acc EXCEPT !.ok = FALSE, !.st = l.st]
      ELSE [acc EXCEPT !.st = l.st, !.segments = Append(@, l.seg)]

(* The bodies of the loops: a is what the loop changes, x the element it has come to *)
(* and c what the body looks at besides.                                             *)
Body(loop, c, a, x) ==
  CASE loop = "bytes" -> ByteStep(c, a, x)
    [] loop = "segments" -> MergeSegment(a, x)
    [] loop = "load sections" -> SectionLoaded(c, a, x)
    [] loop = "load segments" -> SegmentLoaded(c, a, x)
    [] OTHER -> a

Fold(loop, c, base, s) == FoldLeft(LAMBDA a, x : Body(loop, c, a, x), base, s)

(* h[k] is what the loop has made of base after k iterations. *)
Runs(h, loop, c, base, s, N) ==
  /\ h[0] = base
  /\ \A k \in 1 .. N : h[k] = Body(loop, c, h[k - 1], s[k])
  /\ h[N] = Fold(loop, c, base, s)

(* The fold is the last of the values that the loop takes, one after the other. *)
LEMMA FoldSteps ==
  ASSUME NEW loop, NEW c, NEW base, NEW N \in Nat, NEW s, DOMAIN s = 1 .. N
  PROVE  \E h : Runs(h, loop, c, base, s, N)
<1> DEFINE Step(f, t) == Body(loop, c, f[t \ {Max(t)}], s[Max(t)])
           Solves(f, n) == f = [t \in SUBSET (1 .. n) |-> IF t = {} THEN base ELSE Step(f, t)]
           Unsolved == { n \in Nat : ~(\E f : Solves(f, n)) }
<1>1. ASSUME NEW n \in Nat, NEW f, Solves(f, n) PROVE \E g : Solves(g, n + 1)
  <2> DEFINE F(t) == IF t \in SUBSET (1 .. n) THEN f[t] ELSE Body(loop, c, f[t \ {n + 1}], s[n + 1])
             g == [t \in SUBSET (1 .. (n + 1)) |-> F(t)]
  <2>1. ASSUME NEW t \in SUBSET (1 .. (n + 1)), t # {}, t \in SUBSET (1 .. n)
        PROVE  F(t) = Step(g, t)
    <3>1. Max(t) \in t
      BY <2>1, GreatestIs
    <3>2. t \ {Max(t)} \in SUBSET (1 .. n) /\ t \ {Max(t)} \in SUBSET (1 .. (n + 1))
      BY <2>1
    <3>3. g[t \ {Max(t)}] = f[t \ {Max(t)}]
      BY <3>2
    <3>4. f[t] = Step(f, t)
      BY <1>1, <2>1
    <3>5. QED
      BY <2>1, <3>3, <3>4
  <2>2. ASSUME NEW t \in SUBSET (1 .. (n + 1)), t \notin SUBSET (1 .. n)
        PROVE  t # {} /\ F(t) = Step(g, t)
    <3>1. n + 1 \in t
      <4>1. PICK x \in t : x \notin 1 .. n
        BY <2>2
      <4>2. x \in 1 .. (n + 1)
        BY <4>1
      <4>3. QED
        BY <4>1, <4>2
    <3>2. Max(t) = n + 1
      <4>1. n + 1 \in Nat /\ t # {}
        BY <3>1
      <4>2. t \in SUBSET (1 .. (n + 1))
        BY <2>2
      <4>3. Max(t) \in t /\ \A m \in t : m <= Max(t)
        BY <4>1, <4>2, GreatestIs
      <4>4. Max(t) \in 1 .. (n + 1) /\ n + 1 <= Max(t)
        BY <3>1, <4>2, <4>3
      <4>5. QED
        BY <4>4
    <3>3. t \ {n + 1} \in SUBSET (1 .. n) /\ t \ {n + 1} \in SUBSET (1 .. (n + 1))
      OBVIOUS
    <3>4. g[t \ {n + 1}] = f[t \ {n + 1}]
      BY <3>3
    <3>5. QED
      BY <2>2, <3>1, <3>2, <3>4
  <2>3. {} \in SUBSET (1 .. n) /\ f[{}] = base
    BY <1>1
  <2>4. ASSUME NEW t \in SUBSET (1 .. (n + 1))
        PROVE  F(t) = IF t = {} THEN base ELSE Step(g, t)
    BY <2>1, <2>2, <2>3
  <2>5. Solves(g, n + 1)
    BY <2>4
  <2>6. QED
    BY <2>5
<1>2. \E f : Solves(f, 0)
  <2> DEFINE g == [t \in SUBSET (1 .. 0) |-> base]
  <2>1. Solves(g, 0)
    OBVIOUS
  <2>2. QED
    BY <2>1
<1>3. Unsolved = {}
  <2>1. SUFFICES ASSUME Unsolved # {} PROVE FALSE
    OBVIOUS
  <2>2. PICK n \in Unsolved : \A m \in Unsolved : n <= m
    BY <2>1, LeastElement
  <2>3. n \in Nat /\ ~(\E f : Solves(f, n))
    BY <2>2
  <2>4. n # 0
    BY <1>2, <2>3
  <2>5. n - 1 \in Nat /\ ~(n <= n - 1) /\ (n - 1) + 1 = n
    BY <2>3, <2>4
  <2>6. n - 1 \notin Unsolved
    BY <2>2, <2>5
  <2>7. \E f : Solves(f, n - 1)
    BY <2>5, <2>6
  <2>8. \E g : Solves(g, (n - 1) + 1)
    BY <1>1, <2>5, <2>7
  <2>9. QED
    BY <2>3, <2>5, <2>8
<1>4. \E f : Solves(f, N)
  BY <1>3
<1> DEFINE iter == CHOOSE f : Solves(f, N)
           h == [k \in 0 .. N |-> iter[1 .. k]]
<1>5. Solves(iter, N)
  BY <1>4
<1>6. iter[1 .. N] = Fold(loop, c, base, s)
  BY DEF Fold, FoldLeft, MapThenFoldSet
<1>7. h[0] = base
  <2>1. 1 .. 0 = {} /\ {} \in SUBSET (1 .. N) /\ 0 \in 0 .. N
    OBVIOUS
  <2>2. iter[{}] = base
    BY <1>5, <2>1
  <2>3. h[0] = iter[1 .. 0]
    BY <2>1
  <2>4. QED
    BY <2>1, <2>2, <2>3
<1>8. ASSUME NEW k \in 1 .. N PROVE h[k] = Body(loop, c, h[k - 1], s[k])
  <2>1. 1 .. k \in SUBSET (1 .. N)
    OBVIOUS
  <2>2. k \in 1 .. k /\ 1 .. k # {} /\ k \in Nat /\ 1 .. k \in SUBSET (1 .. k)
    OBVIOUS
  <2>3. Max(1 .. k) = k
    <3>1. Max(1 .. k) \in 1 .. k /\ k <= Max(1 .. k)
      BY <2>2, GreatestIs
    <3>2. QED
      BY <3>1
  <2>4. (1 .. k) \ {k} = 1 .. (k - 1)
    OBVIOUS
  <2>5. iter[1 .. k] = Step(iter, 1 .. k)
    BY <1>5, <2>1, <2>2
  <2>6. h[k] = iter[1 .. k] /\ h[k - 1] = iter[1 .. (k - 1)]
    BY <2>1
  <2>7. QED
    BY <2>3, <2>4, <2>5, <2>6
<1>9. h[N] = Fold(loop, c, base, s)
  BY <1>6
<1>10. Runs(h, loop, c, base, s, N)
  BY <1>7, <1>8, <1>9 DEF Runs
<1>11. QED
  BY <1>10

LEMMA MergeIsLoop ==
  ASSUME NEW m, NEW seg, Loadable(seg)
  PROVE  MergeSegment(m, seg) = Fold("bytes", seg, m, [n \in 1 .. seg.ph.memsz |-> n])
  BY DEF MergeSegment, ByteStep, ByteOf, Body, Fold, FoldLeft, MapThenFoldSet

LEMMA MergedIsLoop ==
  ASSUME NEW segs
  PROVE  Merged(segs) = Fold("segments", 0, EmptyMap, segs)
  BY DEF Merged, Body, Fold, FoldLeft, MapThenFoldSet
-----------------------------------------------------------------------------
(* Words and lanes *)

Aligned == { w \in Nat : w % WordBytes = 0 }

LEMMA WordIs ==
  ASSUME NEW a \in Nat
  PROVE  /\ WordOf(a) \in Aligned /\ LaneOf(a) \in Lanes /\ WordOf(a) + LaneOf(a) = a
         /\ WordOf(a) <= a /\ a < WordOf(a) + WordBytes
<1> DEFINE q == a \div WordBytes
           r == a % WordBytes
<1>1. q \in Nat /\ r \in 0 .. (WordBytes - 1) /\ a = WordBytes * q + r
  BY WordsAssumption
<1>2. PICK p : p = WordBytes * q /\ p \in Nat /\ WordOf(a) = p
  <2>1. WordBytes * q \in Nat
    BY <1>1, WordsAssumption
  <2>2. q * WordBytes = WordBytes * q
    BY <1>1, WordsAssumption
  <2>3. QED
    BY <2>1, <2>2 DEF WordOf
<1>3. (WordBytes * q) % WordBytes = 0
  BY <1>1, Multiple, WordsAssumption
<1>4. p \in Aligned
  BY <1>2, <1>3 DEF Aligned
<1>5. QED
  BY <1>1, <1>2, <1>4, WordsAssumption DEF LaneOf, Lanes

(* A word and a lane of it are those of their sum. *)
LEMMA LaneIs ==
  ASSUME NEW w \in Aligned, NEW l \in Lanes
  PROVE  w + l \in Nat /\ WordOf(w + l) = w /\ LaneOf(w + l) = l
<1>1. w \in Nat /\ w % WordBytes = 0 /\ l \in 0 .. (WordBytes - 1) /\ w + l \in Nat
  BY WordsAssumption DEF Aligned, Lanes
<1>2. PICK q \in Nat : w = WordBytes * q
  <2>1. WordBytes \in Nat \ {0}
    BY WordsAssumption
  <2>2. w \div WordBytes \in Nat /\ w = WordBytes * (w \div WordBytes) + (w % WordBytes)
    BY <1>1, <2>1
  <2>3. w = WordBytes * (w \div WordBytes)
    BY <1>1, <2>1, <2>2
  <2>4. QED
    BY <2>2, <2>3
<1>3. WordOf(w + l) \in Aligned /\ WordOf(w + l) <= w + l /\ w + l < WordOf(w + l) + WordBytes
      /\ WordOf(w + l) + LaneOf(w + l) = w + l
  BY <1>1, WordIs
<1>4. PICK v : v = WordOf(w + l) /\ v \in Nat /\ v % WordBytes = 0
  BY <1>3 DEF Aligned
<1>5. ~(v < w)
  <2>1. SUFFICES ASSUME v < w PROVE FALSE
    OBVIOUS
  <2>2. v + WordBytes <= w
    BY <1>1, <1>4, <2>1, NextMultiple, WordsAssumption
  <2>3. QED
    BY <1>1, <1>3, <1>4, <2>2, WordsAssumption
<1>6. ~(w < v)
  <2>1. SUFFICES ASSUME w < v PROVE FALSE
    OBVIOUS
  <2>2. w + WordBytes <= v
    BY <1>1, <1>4, <2>1, NextMultiple, WordsAssumption
  <2>3. QED
    BY <1>1, <1>3, <1>4, <2>2, WordsAssumption
<1>7. v = w
  BY <1>1, <1>4, <1>5, <1>6
<1>8. PICK r : r = LaneOf(w + l) /\ r \in Int /\ w + r = w + l
  BY <1>1, <1>3, <1>4, <1>7, WordIs, WordsAssumption DEF Lanes
<1>9. r = l
  BY <1>1, <1>8
<1>10. QED
  BY <1>1, <1>4, <1>7, <1>8, <1>9

-----------------------------------------------------------------------------
(* Merging the bytes of a segment *)

Maps == UNION { [D -> Words] : D \in SUBSET Aligned }

LEMMA MapIs ==
  ASSUME NEW m
  PROVE  m \in Maps <=> m \in [DOMAIN m -> Words] /\ DOMAIN m \subseteq Aligned
  BY DEF Maps

(* m after the first n bytes of a segment have been merged into it. *)
Span(seg, n) == seg.ph.paddr .. (seg.ph.paddr + n - 1)
MergedBytes(m, seg, n) ==
  [w \in DOMAIN m \cup { WordOf(a) : a \in Span(seg, n) } |->
     [l \in Lanes |-> IF w + l \in Span(seg, n) THEN ByteOf(seg, w + l - seg.ph.paddr + 1)
                      ELSE Slot(m, w)[l]]]

IsSegment(seg) ==
  /\ seg.ph.paddr \in Nat /\ seg.ph.memsz \in Nat
  /\ \A n \in 1 .. seg.ph.memsz : ByteOf(seg, n) \in Bytes

LEMMA SlotIs ==
  ASSUME NEW m \in Maps, NEW w
  PROVE  Slot(m, w) \in Words
  BY MapIs, WordsAssumption DEF Slot, Words, Zero, Bytes

LEMMA MergedBytesIs ==
  ASSUME NEW m \in Maps, NEW seg, IsSegment(seg), NEW n \in 0 .. seg.ph.memsz
  PROVE  MergedBytes(m, seg, n) \in Maps
<1>1. seg.ph.paddr \in Nat /\ seg.ph.memsz \in Nat
  BY DEF IsSegment
<1>2. DOMAIN m \cup { WordOf(a) : a \in Span(seg, n) } \subseteq Aligned
  <2>1. \A a \in Span(seg, n) : a \in Nat
    BY <1>1 DEF Span
  <2>2. QED
    BY <2>1, WordIs, MapIs
<1>3. ASSUME NEW w \in Aligned, NEW l \in Lanes
      PROVE  (IF w + l \in Span(seg, n) THEN ByteOf(seg, w + l - seg.ph.paddr + 1)
              ELSE Slot(m, w)[l]) \in Bytes
  <2>1. Slot(m, w)[l] \in Bytes
    BY SlotIs DEF Words
  <2>2. PICK a : a = w + l /\ a \in Nat
    BY LaneIs
  <2>3. a \in Span(seg, n) => a - seg.ph.paddr + 1 \in 1 .. seg.ph.memsz
    BY <1>1, <2>2 DEF Span
  <2>4. a \in Span(seg, n) => ByteOf(seg, a - seg.ph.paddr + 1) \in Bytes
    BY <2>3 DEF IsSegment
  <2>5. w \in Int /\ l \in Int
    BY WordsAssumption DEF Aligned, Lanes
  <2>6. QED
    BY <1>1, <2>1, <2>2, <2>4, <2>5
<1>4. MergedBytes(m, seg, n)
        \in [DOMAIN m \cup { WordOf(a) : a \in Span(seg, n) } -> Words]
  BY <1>2, <1>3 DEF MergedBytes, Words
<1>5. QED
  BY <1>2, <1>4 DEF Maps

LEMMA MergeStarts ==
  ASSUME NEW m \in Maps, NEW seg, IsSegment(seg)
  PROVE  MergedBytes(m, seg, 0) = m
<1>1. Span(seg, 0) = {}
  BY DEF Span, IsSegment
<1>2. m \in [DOMAIN m -> Words]
  BY MapIs
<1>3. MergedBytes(m, seg, 0) = [w \in DOMAIN m |-> [l \in Lanes |-> m[w][l]]]
  BY <1>1 DEF MergedBytes, Slot
<1>4. \A w \in DOMAIN m : [l \in Lanes |-> m[w][l]] = m[w]
  BY <1>2 DEF Words
<1>5. QED
  BY <1>2, <1>3, <1>4

LEMMA MergeByteIs ==
  ASSUME NEW m \in Maps, NEW a \in Nat, NEW d \in Bytes
  PROVE  MergeByte(m, a, d) = [w \in DOMAIN m \cup {WordOf(a)} |->
                                 [l \in Lanes |-> IF w + l = a THEN d ELSE Slot(m, w)[l]]]
<1> DEFINE changed == [Slot(m, WordOf(a)) EXCEPT ![LaneOf(a)] = d]
           F(w) == [l \in Lanes |-> IF w + l = a THEN d ELSE Slot(m, w)[l]]
<1>1. MergeByte(m, a, d) = [w \in DOMAIN m \cup {WordOf(a)} |->
                              IF w = WordOf(a) THEN changed ELSE m[w]]
  BY DEF MergeByte, Put
<1>2. changed = F(WordOf(a))
  <2>1. \A l \in Lanes : WordOf(a) + l = a <=> l = LaneOf(a)
    <3>1. WordOf(a) \in Aligned /\ LaneOf(a) \in Lanes /\ WordOf(a) + LaneOf(a) = a
      BY WordIs
    <3>2. QED
      BY <3>1, LaneIs
  <2>2. Slot(m, WordOf(a)) \in [Lanes -> Bytes]
    BY SlotIs DEF Words
  <2>3. QED
    BY <2>1, <2>2
<1>3. ASSUME NEW w \in DOMAIN m, w # WordOf(a) PROVE m[w] = F(w)
  <2>1. w \in Aligned /\ m[w] \in [Lanes -> Bytes] /\ Slot(m, w) = m[w]
    BY MapIs DEF Slot, Words
  <2>2. \A l \in Lanes : w + l # a
    BY <1>3, <2>1, LaneIs
  <2>3. QED
    BY <2>1, <2>2
<1>4. QED
  BY <1>1, <1>2, <1>3

LEMMA MergeAdvances ==
  ASSUME NEW m \in Maps, NEW seg, IsSegment(seg), NEW n \in 1 .. seg.ph.memsz
  PROVE  ByteStep(seg, MergedBytes(m, seg, n - 1), n) = MergedBytes(m, seg, n)
<1> DEFINE old == MergedBytes(m, seg, n - 1)
           dom(k) == DOMAIN m \cup { WordOf(x) : x \in Span(seg, k) }
           F(w) == [l \in Lanes |-> IF w + l \in Span(seg, n)
                                    THEN ByteOf(seg, w + l - seg.ph.paddr + 1)
                                    ELSE Slot(m, w)[l]]
<1>1. seg.ph.paddr \in Nat /\ seg.ph.memsz \in Nat /\ n \in Nat
  BY DEF IsSegment
<1>2. PICK a : a = seg.ph.paddr + n - 1 /\ a \in Nat
  BY <1>1
<1>3. old \in Maps /\ ByteOf(seg, n) \in Bytes
  BY <1>1, MergedBytesIs DEF IsSegment
<1>4. Span(seg, n) = Span(seg, n - 1) \cup {a} /\ a \notin Span(seg, n - 1)
  BY <1>1, <1>2 DEF Span
<1>5. DOMAIN old = dom(n - 1) /\ dom(n) = dom(n - 1) \cup {WordOf(a)}
  BY <1>4 DEF MergedBytes
<1>6. dom(n) \subseteq Aligned
  <2>1. \A x \in Span(seg, n) : x \in Nat
    BY <1>1 DEF Span
  <2>2. QED
    BY <2>1, WordIs, MapIs
<1>7. ASSUME NEW w \in dom(n)
      PROVE  [l \in Lanes |-> IF w + l = a THEN ByteOf(seg, n) ELSE Slot(old, w)[l]] = F(w)
  <2>1. ASSUME NEW l \in Lanes, w + l # a
        PROVE  Slot(old, w)[l] = IF w + l \in Span(seg, n)
                                 THEN ByteOf(seg, w + l - seg.ph.paddr + 1) ELSE Slot(m, w)[l]
    <3>1. w + l \in Span(seg, n) <=> w + l \in Span(seg, n - 1)
      BY <1>4, <2>1
    <3>2. CASE w \in dom(n - 1)
      BY <3>1, <3>2 DEF MergedBytes, Slot
    <3>3. CASE w \notin dom(n - 1)
      <4>1. w + l \notin Span(seg, n - 1)
        <5>1. WordOf(w + l) = w
          BY <1>6, <1>7, LaneIs
        <5>2. QED
          BY <3>3, <5>1
      <4>2. Slot(old, w) = Zero /\ Slot(m, w) = Zero
        BY <1>5, <3>3 DEF Slot
      <4>3. QED
        BY <3>1, <4>1, <4>2
    <3>4. QED
      BY <3>2, <3>3
  <2>2. ASSUME NEW l \in Lanes, w + l = a
        PROVE  w + l \in Span(seg, n) /\ w + l - seg.ph.paddr + 1 = n
    <3>1. a \in Span(seg, n) /\ a - seg.ph.paddr + 1 = n
      BY <1>1, <1>2, <1>4
    <3>2. w \in Int /\ l \in Int
      BY <1>6, <1>7, WordsAssumption DEF Aligned, Lanes
    <3>3. QED
      BY <1>1, <2>2, <3>1, <3>2
  <2>3. QED
    BY <2>1, <2>2
<1>8. ByteStep(seg, old, n) = [w \in DOMAIN old \cup {WordOf(a)} |->
        [l \in Lanes |-> IF w + l = a THEN ByteOf(seg, n) ELSE Slot(old, w)[l]]]
  BY <1>2, <1>3, MergeByteIs DEF ByteStep
<1>9. ByteStep(seg, old, n) = [w \in dom(n) |-> F(w)]
  BY <1>5, <1>7, <1>8
<1>10. QED
  BY <1>9 DEF MergedBytes

BytesRun(h, m, seg, N) ==
  /\ h[0] = m
  /\ \A k \in 1 .. N : h[k] = ByteStep(seg, h[k - 1], k)
  /\ h[N] = Fold("bytes", seg, m, [n \in 1 .. N |-> n])

LEMMA BytesLoop ==
  ASSUME NEW m, NEW seg, NEW N \in Nat
  PROVE  \E h : BytesRun(h, m, seg, N)
<1> DEFINE s == [n \in 1 .. N |-> n]
<1>1. DOMAIN s = 1 .. N /\ \A n \in 1 .. N : s[n] = n
  OBVIOUS
<1> HIDE DEF s
<1>2. PICK h : Runs(h, "bytes", seg, m, s, N)
  BY <1>1, FoldSteps
<1>3. /\ h[0] = m
      /\ \A k \in 1 .. N : h[k] = ByteStep(seg, h[k - 1], s[k])
      /\ h[N] = Fold("bytes", seg, m, s)
  BY <1>2 DEF Runs, Body
<1>4. \A k \in 1 .. N : h[k] = ByteStep(seg, h[k - 1], k)
  BY <1>1, <1>3
<1>5. BytesRun(h, m, seg, N)
  BY <1>3, <1>4 DEF s, BytesRun
<1>6. QED
  BY <1>5

(* A loadable segment is merged as if all at once. *)
LEMMA SegmentMerged ==
  ASSUME NEW m \in Maps, NEW seg, IsSegment(seg), Loadable(seg)
  PROVE  MergeSegment(m, seg) = MergedBytes(m, seg, seg.ph.memsz)
<1>1. PICK N \in Nat : N = seg.ph.memsz
  BY DEF IsSegment
<1>2. MergeSegment(m, seg) = Fold("bytes", seg, m, [n \in 1 .. N |-> n])
  BY <1>1, MergeIsLoop
<1>a. PICK h : BytesRun(h, m, seg, N)
  BY BytesLoop
<1>3. /\ h[0] = m
      /\ \A k \in 1 .. N : h[k] = ByteStep(seg, h[k - 1], k)
      /\ h[N] = Fold("bytes", seg, m, [n \in 1 .. N |-> n])
  BY <1>a DEF BytesRun
<1> DEFINE Wrong == { k \in 0 .. N : h[k] # MergedBytes(m, seg, k) }
<1>4. Wrong = {}
  <2>1. SUFFICES ASSUME Wrong # {} PROVE FALSE
    OBVIOUS
  <2>2. PICK k \in Wrong : \A j \in Wrong : k <= j
    <3>1. Wrong \in SUBSET Nat
      OBVIOUS
    <3>2. QED
      BY <2>1, <3>1, LeastElement
  <2>3. k \in 0 .. N /\ h[k] # MergedBytes(m, seg, k)
    BY <2>2
  <2>4. k # 0
    BY <1>3, <2>3, MergeStarts
  <2>5. k \in 1 .. N /\ k - 1 \in 0 .. N /\ ~(k <= k - 1)
    BY <1>1, <2>3, <2>4
  <2>6. h[k - 1] = MergedBytes(m, seg, k - 1)
    BY <2>2, <2>5
  <2>7. h[k] = ByteStep(seg, h[k - 1], k)
    BY <1>1, <1>3, <2>5
  <2>8. ByteStep(seg, MergedBytes(m, seg, k - 1), k) = MergedBytes(m, seg, k)
    BY <1>1, <2>5, MergeAdvances
  <2>9. QED
    BY <2>3, <2>6, <2>7, <2>8
<1>5. h[N] = MergedBytes(m, seg, N)
  BY <1>1, <1>4
<1>6. QED
  BY <1>1, <1>2, <1>3, <1>5

-----------------------------------------------------------------------------
(* The image *)

(* A loaded segment and the one the file was made of. *)
Same(seg, of) ==
  /\ seg.ph.type = of.type /\ seg.ph.paddr = of.paddr
  /\ seg.ph.memsz = of.memsz /\ of.paddr \in Nat /\ of.memsz \in Nat
  /\ of.bytes \in Seq(Bytes)
  /\ Loadable(seg) => \A n \in 1 .. of.memsz :
       ByteOf(seg, n) = IF n > Len(of.bytes) THEN 0 ELSE of.bytes[n]

Over(segs, a) == { n \in DOMAIN segs : Covers(segs[n], a) }

(* The last segment that covers an address decides. *)
LEMMA LastCovers ==
  ASSUME NEW R, NEW p \in Seq(R), NEW of \in R, NEW a
  PROVE  ByteAt(Append(p, of), a) =
           IF Covers(of, a)
           THEN IF a - of.paddr + 1 > Len(of.bytes) THEN 0 ELSE of.bytes[a - of.paddr + 1]
           ELSE ByteAt(p, a)
<1> DEFINE q == Append(p, of)
           n == Len(p) + 1
<1>1. /\ Len(p) \in Nat /\ DOMAIN p = 1 .. Len(p) /\ DOMAIN q = 1 .. n
      /\ q[n] = of /\ \A k \in 1 .. Len(p) : q[k] = p[k]
  BY AppendProperties, LenProperties
<1>2. CASE Covers(of, a)
  <2>1. n \in Over(q, a) /\ Over(q, a) \in SUBSET (1 .. n) /\ n \in Nat
    BY <1>1, <1>2 DEF Over
  <2>2. Max(Over(q, a)) \in Over(q, a) /\ n <= Max(Over(q, a))
    BY <2>1, GreatestIs
  <2>3. Max(Over(q, a)) = n
    BY <2>1, <2>2
  <2>4. Over(q, a) # {} /\ q[Max(Over(q, a))] = of
    BY <1>1, <2>1, <2>3
  <2>5. QED
    BY <1>2, <2>4 DEF ByteAt, Over
<1>3. CASE ~Covers(of, a)
  <2>1. Over(q, a) = Over(p, a)
    BY <1>1, <1>3 DEF Over
  <2>2. ASSUME Over(p, a) # {} PROVE q[Max(Over(p, a))] = p[Max(Over(p, a))]
    <3>1. Over(p, a) \in SUBSET (1 .. Len(p))
      BY <1>1 DEF Over
    <3>2. Max(Over(p, a)) \in Over(p, a)
      BY <1>1, <2>2, <3>1, GreatestIs
    <3>3. QED
      BY <1>1, <3>1, <3>2
  <2>3. QED
    BY <1>3, <2>1, <2>2 DEF ByteAt, Over
<1>4. QED
  BY <1>2, <1>3

LEMMA CoveredGrows ==
  ASSUME NEW R, NEW p \in Seq(R), NEW of \in R, of.paddr \in Nat, of.memsz \in Nat
  PROVE  Covered(Append(p, of)) =
           Covered(p) \cup { a \in of.paddr .. (of.paddr + of.memsz - 1) : Covers(of, a) }
<1>1. /\ Len(p) \in Nat /\ DOMAIN p = 1 .. Len(p) /\ DOMAIN Append(p, of) = 1 .. (Len(p) + 1)
      /\ Append(p, of)[Len(p) + 1] = of /\ \A k \in 1 .. Len(p) : Append(p, of)[k] = p[k]
  BY AppendProperties, LenProperties
<1> DEFINE q == Append(p, of)
           Part(s, n) == { a \in s[n].paddr .. (s[n].paddr + s[n].memsz - 1) : Covers(s[n], a) }
<1>2. DOMAIN q = DOMAIN p \cup {Len(p) + 1}
  BY <1>1
<1>3. Covered(q) = UNION { Part(q, n) : n \in DOMAIN q }
  BY DEF Covered
<1>4. Covered(p) = UNION { Part(p, n) : n \in DOMAIN p }
  BY DEF Covered
<1>5. \A n \in DOMAIN p : Part(q, n) = Part(p, n)
  BY <1>1
<1>6. Part(q, Len(p) + 1)
        = { a \in of.paddr .. (of.paddr + of.memsz - 1) : Covers(of, a) }
  BY <1>1
<1> HIDE DEF q, Part
<1>7. QED
  BY <1>2, <1>3, <1>4, <1>5, <1>6 DEF q

IsMade(of) == of.paddr \in Nat /\ of.memsz \in Nat /\ of.bytes \in Seq(Bytes)

LEMMA CoveredIs ==
  ASSUME NEW R, NEW p \in Seq(R), \A n \in DOMAIN p : IsMade(p[n]), NEW a
  PROVE  /\ a \in Covered(p) <=> Over(p, a) # {}
         /\ a \in Covered(p) => a \in Nat
<1>1. \A n \in DOMAIN p : p[n].paddr \in Nat /\ p[n].memsz \in Nat
  BY DEF IsMade
<1>2. a \in Covered(p) <=> \E n \in DOMAIN p : Covers(p[n], a)
  BY DEF Covered, Covers
<1>3. \A n \in DOMAIN p : Covers(p[n], a) => a \in Nat
  BY <1>1 DEF Covers
<1>4. QED
  BY <1>2, <1>3 DEF Over

LEMMA ByteAtIs ==
  ASSUME NEW R, NEW p \in Seq(R), \A n \in DOMAIN p : IsMade(p[n]), NEW a
  PROVE  ByteAt(p, a) \in Bytes /\ (a \notin Covered(p) => ByteAt(p, a) = 0)
<1>1. 0 \in Bytes
  BY WordsAssumption DEF Bytes
<1>2. CASE Over(p, a) = {}
  BY <1>1, <1>2 DEF ByteAt, Over
<1>3. CASE Over(p, a) # {}
  <2>1. Len(p) \in Nat /\ Over(p, a) \in SUBSET (1 .. Len(p))
    BY DEF Over
  <2>2. PICK n : n = Max(Over(p, a)) /\ n \in DOMAIN p /\ Covers(p[n], a)
    <3>1. Max(Over(p, a)) \in Over(p, a)
      BY <1>3, <2>1, GreatestIs
    <3>2. QED
      BY <3>1 DEF Over
  <2>3. p[n].paddr \in Nat /\ p[n].memsz \in Nat /\ p[n].bytes \in Seq(Bytes)
    BY <2>2 DEF IsMade
  <2>4. PICK k : k = a - p[n].paddr + 1 /\ k \in Nat \ {0}
    BY <2>2, <2>3 DEF Covers
  <2>5. ByteAt(p, a) = IF k > Len(p[n].bytes) THEN 0 ELSE p[n].bytes[k]
    BY <1>3, <2>2, <2>4 DEF ByteAt, Over
  <2>6. ~(k > Len(p[n].bytes)) => p[n].bytes[k] \in Bytes
    BY <2>3, <2>4
  <2>7. a \in Covered(p)
    BY <1>3, CoveredIs
  <2>8. QED
    BY <1>1, <2>5, <2>6, <2>7
<1>4. QED
  BY <1>2, <1>3

LEMMA ImageIs ==
  ASSUME NEW R, NEW p \in Seq(R), \A n \in DOMAIN p : IsMade(p[n])
  PROVE  ImageOf(p) \in Maps
<1>1. { WordOf(a) : a \in Covered(p) } \subseteq Aligned
  BY CoveredIs, WordIs
<1>2. \A w : [k \in Lanes |-> ByteAt(p, w + k)] \in Words
  BY ByteAtIs DEF Words
<1>3. ImageOf(p) \in [{ WordOf(a) : a \in Covered(p) } -> Words]
  BY <1>2 DEF ImageOf
<1>4. QED
  BY <1>1, <1>3 DEF Maps

(* Merging one more segment makes the image of one more. *)
LEMMA ImageGrows ==
  ASSUME NEW R, NEW p \in Seq(R), \A n \in DOMAIN p : IsMade(p[n]),
         NEW of \in R, NEW seg, Same(seg, of)
  PROVE  MergeSegment(ImageOf(p), seg) = ImageOf(Append(p, of))
<1> DEFINE m == ImageOf(p)
           q == Append(p, of)
           New == { a \in of.paddr .. (of.paddr + of.memsz - 1) : Covers(of, a) }
<1>1. IsMade(of) /\ of.paddr \in Nat /\ of.memsz \in Nat /\ of.bytes \in Seq(Bytes)
  BY DEF Same, IsMade
<1>2. m \in Maps
  BY ImageIs
<1>3. Covered(q) = Covered(p) \cup New
  BY <1>1, CoveredGrows
<1>4. \A a : ByteAt(q, a) = IF Covers(of, a)
                           THEN IF a - of.paddr + 1 > Len(of.bytes) THEN 0
                                ELSE of.bytes[a - of.paddr + 1]
                           ELSE ByteAt(p, a)
  BY LastCovers
<1>5. DOMAIN m = { WordOf(a) : a \in Covered(p) }
  BY DEF ImageOf
<1>6. CASE ~Loadable(seg)
  <2>1. \A a : ~Covers(of, a)
    BY <1>1, <1>6 DEF Covers, Loadable, Same
  <2>2. Covered(q) = Covered(p) /\ \A a : ByteAt(q, a) = ByteAt(p, a)
    BY <1>3, <1>4, <2>1
  <2>3. ImageOf(q) = m
    BY <2>2 DEF ImageOf
  <2>4. QED
    BY <1>6, <2>3 DEF MergeSegment
<1>7. CASE Loadable(seg)
  <2>1. PICK base, size : /\ base = seg.ph.paddr /\ size = seg.ph.memsz /\ base = of.paddr
                          /\ size = of.memsz /\ base \in Nat /\ size \in Nat
    BY <1>1 DEF Same
  <2>2. \A n \in 1 .. size : ByteOf(seg, n) = IF n > Len(of.bytes) THEN 0 ELSE of.bytes[n]
    BY <1>7, <2>1 DEF Same
  <2>3. IsSegment(seg)
    <3>1. ASSUME NEW n \in 1 .. size PROVE ByteOf(seg, n) \in Bytes
      <4>1. n \in Nat \ {0}
        BY <2>1
      <4>2. 0 \in Bytes
        BY WordsAssumption DEF Bytes
      <4>3. ~(n > Len(of.bytes)) => of.bytes[n] \in Bytes
        BY <1>1, <4>1
      <4>4. QED
        BY <2>2, <4>2, <4>3
    <3>2. QED
      BY <2>1, <3>1 DEF IsSegment
  <2>4. \A a : Covers(of, a) <=> a \in base .. (base + size - 1)
    BY <1>7, <2>1 DEF Covers, Loadable, Same
  <2>5. New = base .. (base + size - 1) /\ Span(seg, size) = base .. (base + size - 1)
    BY <2>1, <2>4 DEF Span
  <2>6. MergeSegment(m, seg) = MergedBytes(m, seg, size)
    BY <1>2, <1>7, <2>1, <2>3, SegmentMerged
  <2> DEFINE dom == { WordOf(a) : a \in Covered(q) }
             F(w) == [l \in Lanes |-> IF w + l \in base .. (base + size - 1)
                                      THEN ByteOf(seg, w + l - base + 1) ELSE Slot(m, w)[l]]
  <2>7. MergedBytes(m, seg, size) = [w \in dom |-> F(w)]
    <3>1. DOMAIN m \cup { WordOf(a) : a \in base .. (base + size - 1) } = dom
      BY <1>3, <1>5, <2>5
    <3>2. QED
      BY <2>1, <2>5, <3>1 DEF MergedBytes
  <2>8. ASSUME NEW w \in dom, NEW l \in Lanes
        PROVE  (IF w + l \in base .. (base + size - 1) THEN ByteOf(seg, w + l - base + 1)
                ELSE Slot(m, w)[l]) = ByteAt(q, w + l)
    <3>1. w \in Aligned
      <4>1. \A a \in Covered(q) : a \in Nat
        BY <1>3, <2>1, <2>5, CoveredIs
      <4>2. QED
        BY <4>1, WordIs
    <3>2. PICK a : a = w + l /\ a \in Nat /\ WordOf(a) = w
      BY <3>1, LaneIs
    <3>3. CASE a \in base .. (base + size - 1)
      <4>1. PICK n : n = a - base + 1 /\ n \in 1 .. size
        BY <2>1, <3>2, <3>3
      <4>2. ByteOf(seg, n) = IF n > Len(of.bytes) THEN 0 ELSE of.bytes[n]
        BY <2>2, <4>1
      <4>3. ByteAt(q, a) = IF n > Len(of.bytes) THEN 0 ELSE of.bytes[n]
        BY <1>4, <2>1, <2>4, <3>3, <4>1
      <4>4. w + l - base + 1 = n
        <5>1. w \in Int /\ l \in Int
          BY <3>1, WordsAssumption DEF Aligned, Lanes
        <5>2. QED
          BY <2>1, <3>2, <4>1, <5>1
      <4>5. QED
        BY <3>2, <3>3, <4>2, <4>3, <4>4
    <3>4. CASE a \notin base .. (base + size - 1)
      <4>1. ByteAt(q, a) = ByteAt(p, a)
        BY <1>4, <2>4, <3>4
      <4>2. CASE w \in DOMAIN m
        <5>1. Slot(m, w)[l] = ByteAt(p, w + l)
          BY <1>5, <4>2 DEF Slot, ImageOf
        <5>2. QED
          BY <3>2, <3>4, <4>1, <5>1
      <4>3. CASE w \notin DOMAIN m
        <5>1. a \notin Covered(p)
          BY <1>5, <3>2, <4>3
        <5>2. ByteAt(p, a) = 0
          BY <5>1, ByteAtIs
        <5>3. Slot(m, w)[l] = 0
          BY <4>3 DEF Slot, Zero
        <5>4. QED
          BY <3>2, <3>4, <4>1, <5>2, <5>3
      <4>4. QED
        BY <4>2, <4>3
    <3>5. QED
      BY <3>3, <3>4
  <2>9. \A w \in dom : F(w) = [k \in Lanes |-> ByteAt(q, w + k)]
    BY <2>8
  <2>10. QED
    BY <2>6, <2>7, <2>9 DEF ImageOf
<1>8. QED
  BY <1>6, <1>7

LEMMA Prefix ==
  ASSUME NEW R, NEW s \in Seq(R), NEW k \in 1 .. Len(s)
  PROVE  /\ SubSeq(s, 1, k - 1) \in Seq(R) /\ s[k] \in R
         /\ SubSeq(s, 1, k) = Append(SubSeq(s, 1, k - 1), s[k])
         /\ \A n \in DOMAIN SubSeq(s, 1, k - 1) : n \in DOMAIN s /\ SubSeq(s, 1, k - 1)[n] = s[n]
<1> DEFINE p == SubSeq(s, 1, k - 1)
           q == SubSeq(s, 1, k)
<1>1. Len(s) \in Nat /\ k \in Nat /\ 1 <= k /\ k <= Len(s) /\ s[k] \in R
  OBVIOUS
<1>2. /\ p \in Seq(R) /\ Len(p) = k - 1 /\ q \in Seq(R) /\ Len(q) = k
      /\ \A n \in 1 .. (k - 1) : p[n] = s[n]
      /\ \A n \in 1 .. k : q[n] = s[n]
  BY <1>1
<1>3. /\ Append(p, s[k]) \in Seq(R) /\ Len(Append(p, s[k])) = k /\ Append(p, s[k])[k] = s[k]
      /\ \A n \in 1 .. (k - 1) : Append(p, s[k])[n] = p[n]
  BY <1>1, <1>2, AppendProperties
<1>4. \A n \in 1 .. k : q[n] = Append(p, s[k])[n]
  BY <1>1, <1>2, <1>3
<1>5. q = Append(p, s[k])
  BY <1>2, <1>3, <1>4, SeqEqual
<1>6. QED
  BY <1>1, <1>2, <1>5

(* The segments, merged one after the other, are the image. *)
LEMMA MergedIsImage ==
  ASSUME NEW R, NEW of \in Seq(R), NEW segs, DOMAIN segs = DOMAIN of,
         \A n \in DOMAIN of : Same(segs[n], of[n])
  PROVE  Merged(segs) = ImageOf(of)
<1>1. PICK N \in Nat : N = Len(of) /\ DOMAIN of = 1 .. N
  OBVIOUS
<1>2. \A n \in DOMAIN of : IsMade(of[n])
  BY DEF IsMade, Same
<1>3. PICK h : Runs(h, "segments", 0, EmptyMap, segs, N)
  BY <1>1, FoldSteps
<1>4. /\ h[0] = EmptyMap
      /\ \A k \in 1 .. N : h[k] = MergeSegment(h[k - 1], segs[k])
      /\ h[N] = Merged(segs)
  BY <1>3, MergedIsLoop DEF Runs, Body
<1> DEFINE Wrong == { k \in 0 .. N : h[k] # ImageOf(SubSeq(of, 1, k)) }
<1>5. Wrong = {}
  <2>1. SUFFICES ASSUME Wrong # {} PROVE FALSE
    OBVIOUS
  <2>2. PICK k \in Wrong : \A j \in Wrong : k <= j
    <3>1. Wrong \in SUBSET Nat
      OBVIOUS
    <3>2. QED
      BY <2>1, <3>1, LeastElement
  <2>3. k \in 0 .. N /\ h[k] # ImageOf(SubSeq(of, 1, k))
    BY <2>2
  <2>4. k # 0
    <3>1. SubSeq(of, 1, 0) = << >>
      OBVIOUS
    <3>2. Covered(<< >>) = {}
      BY DEF Covered
    <3>3. ImageOf(<< >>) = EmptyMap
      BY <3>2 DEF ImageOf, EmptyMap
    <3>4. QED
      BY <1>4, <2>3, <3>1, <3>3
  <2>5. k \in 1 .. N /\ k - 1 \in 0 .. N /\ ~(k <= k - 1)
    BY <1>1, <2>3, <2>4
  <2> DEFINE p == SubSeq(of, 1, k - 1)
  <2>6. h[k - 1] = ImageOf(p)
    BY <2>2, <2>5
  <2>7. h[k] = MergeSegment(ImageOf(p), segs[k])
    BY <1>4, <2>5, <2>6
  <2>8. p \in Seq(R) /\ of[k] \in R /\ SubSeq(of, 1, k) = Append(p, of[k])
        /\ \A n \in DOMAIN p : IsMade(p[n])
    BY <1>1, <1>2, <2>5, Prefix
  <2>9. Same(segs[k], of[k])
    BY <1>1, <2>5
  <2> HIDE DEF p
  <2>10. MergeSegment(ImageOf(p), segs[k]) = ImageOf(Append(p, of[k]))
    BY <2>8, <2>9, ImageGrows
  <2>11. QED
    BY <2>3, <2>7, <2>8, <2>10
<1>6. SubSeq(of, 1, N) = of
  BY <1>1
<1>7. h[N] = ImageOf(SubSeq(of, 1, N))
  BY <1>1, <1>5
<1>8. QED
  BY <1>4, <1>6, <1>7

-----------------------------------------------------------------------------
(* What load makes of a file, or of what is left of it *)

Numbers(n) == [k \in 1 .. n |-> k - 1]

LEMMA SectionsAreLoop ==
  ASSUME NEW st, NEW hdr
  PROVE  LoadSections(st, hdr) =
           IF hdr.shentsize < SizeOf[hdr.class].Shdr THEN [st |-> st, sections |-> << >>]
           ELSE [Fold("load sections", hdr, [st |-> st, sections |-> << >>], Numbers(hdr.shnum))
                   EXCEPT !.sections = Named(hdr, @)]
  BY DEF LoadSections, SectionLoaded, Numbers, Body, Fold, FoldLeft, MapThenFoldSet

TooSmall(hdr) == hdr.phnum # 0 /\ hdr.phentsize < SizeOf[hdr.class].Phdr
Start(st, hdr) == [ok |-> ~TooSmall(hdr), st |-> st, segments |-> << >>]

LEMMA SegmentsAreLoop ==
  ASSUME NEW st, NEW hdr, NEW sections
  PROVE  LoadSegments(st, hdr, sections) =
           Fold("load segments", [hdr |-> hdr, sections |-> sections], Start(st, hdr),
                                   Numbers(hdr.phnum))
  BY DEF LoadSegments, SegmentLoaded, Numbers, Start, TooSmall, Body, Fold, FoldLeft,
         MapThenFoldSet

(* The stream of some cells, and whether it has failed. *)
Stream(cells, fail) == [cells |-> cells, fail |-> fail]
Streams(cells) == { Stream(cells, fail) : fail \in BOOLEAN }

LEMMA StreamSet ==
  ASSUME NEW cells, NEW old, NEW new
  PROVE  [Stream(cells, old) EXCEPT !.fail = new] = Stream(cells, new)
<1>1. [Stream(cells, old) EXCEPT !.fail = new] \in [cells : {cells}, fail : {new}]
  BY DEF Stream
<1>2. \A r \in [cells : {cells}, fail : {new}] : r = Stream(cells, new)
  BY DEF Stream
<1>3. QED
  BY <1>1, <1>2

(* A part of what is left of a list is the same part of the whole. *)
SamePart(whole, n, pos, m) ==
  /\ Slice(SubSeq(whole, 1, n), pos, m) = Slice(whole, pos, m)
  /\ IsList(Slice(whole, pos, m)) /\ Len(Slice(whole, pos, m)) = m
  /\ \A k \in 1 .. m : Slice(whole, pos, m)[k] = whole[pos + k]

LEMMA SliceIs ==
  ASSUME NEW whole, IsList(whole), NEW n \in 0 .. Len(whole), NEW pos \in Nat, NEW m \in Nat,
         pos + m <= n
  PROVE  SamePart(whole, n, pos, m)
<1> DEFINE cells == SubSeq(whole, 1, n)
           R == ToSet(whole)
<1>1. whole \in Seq(R) /\ Len(whole) \in Nat /\ n \in Nat /\ n <= Len(whole)
  BY DEF IsList
<1> HIDE DEF R
<1>2. cells \in Seq(R) /\ Len(cells) = n /\ \A k \in 1 .. n : cells[k] = whole[k]
  BY <1>1
<1> HIDE DEF cells
<1>3. /\ Slice(whole, pos, m) \in Seq(R) /\ Len(Slice(whole, pos, m)) = m
      /\ \A k \in 1 .. m : Slice(whole, pos, m)[k] = whole[pos + k]
  BY <1>1 DEF Slice
<1>4. /\ Slice(cells, pos, m) \in Seq(R) /\ Len(Slice(cells, pos, m)) = m
      /\ \A k \in 1 .. m : Slice(cells, pos, m)[k] = cells[pos + k]
  BY <1>1, <1>2 DEF Slice
<1>5. \A k \in 1 .. m : Slice(cells, pos, m)[k] = Slice(whole, pos, m)[k]
  BY <1>1, <1>2, <1>3, <1>4
<1>6. Slice(cells, pos, m) = Slice(whole, pos, m)
  BY <1>3, <1>4, <1>5, SeqEqual
<1>7. IsList(Slice(whole, pos, m))
  <2>1. \A k \in 1 .. m : Slice(whole, pos, m)[k] \in ToSet(Slice(whole, pos, m))
    BY <1>3 DEF ToSet
  <2>2. QED
    BY <1>3, <2>1, IsASeq DEF IsList
<1>8. QED
  BY <1>3, <1>6, <1>7 DEF cells, SamePart

(* Reading a section header, in what is left of a file and in the whole. *)
LEMMA SectionKeepsStream ==
  ASSUME NEW cells, NEW fail \in BOOLEAN, NEW hdr, NEW j
  PROVE  LoadSection(Stream(cells, fail), hdr, j).st \in Streams(cells)
  BY DEF LoadSection, Streams, Stream

LEMMA SectionIsRead ==
  ASSUME NEW f, IsList(f.cells), NEW hdr, NEW j \in Nat, hdr.shoff \in Nat, hdr.shentsize \in Nat,
         SizeOf[hdr.class].Shdr \in Nat,
         HasSection(f, hdr.class, hdr.shoff + j * hdr.shentsize)
  PROVE  LoadSection(Stream(f.cells, FALSE), hdr, j).st = Stream(f.cells, FALSE)
<1>1. PICK pos : pos = hdr.shoff + j * hdr.shentsize
  OBVIOUS
<1>2. PICK n : n = SizeOf[hdr.class].Shdr /\ n \in Nat
  OBVIOUS
<1>3. PICK sh : sh = Decode("Shdr", Slice(f.cells, pos, n), ZeroShdr)
  OBVIOUS
<1>4. /\ pos + n <= Len(f.cells) /\ sh.offset \in Nat /\ sh.size \in Nat
      /\ sh.type \notin {"NULL", "NOBITS"} /\ sh.size < Len(f.cells) =>
           sh.offset + sh.size <= Len(f.cells)
  BY <1>1, <1>2, <1>3 DEF HasSection
<1> DEFINE st == Stream(f.cells, FALSE)
<1>5. CanRead(st, pos, n) /\ StreamSize(st) = Len(f.cells)
  BY <1>4 DEF CanRead, Stream, StreamSize
<1>6. ReadHeader(st, "Shdr", pos, n, ZeroShdr) = sh
  BY <1>3, <1>5 DEF ReadHeader, Stream
<1>7. [st EXCEPT !.fail = ~CanRead(st, pos, n)] = st
  <2>1. [st EXCEPT !.fail = FALSE] = st
    BY StreamSet
  <2>2. (~CanRead(st, pos, n)) = FALSE
    BY <1>5
  <2> HIDE DEF st
  <2>3. QED
    BY <2>1, <2>2
<1> DEFINE wanted == sh.type \notin {"NULL", "NOBITS"} /\ sh.size # 0 /\ sh.size < StreamSize(st)
           got == wanted /\ CanRead(st, sh.offset, sh.size)
<1>8. wanted => got
  BY <1>4, <1>5 DEF CanRead, Stream
<1>9. LoadSection(st, hdr, j).st = [st EXCEPT !.fail = @ \/ (wanted /\ ~got)]
  BY <1>1, <1>2, <1>6, <1>7 DEF LoadSection
<1>10. QED
  BY <1>8, <1>9 DEF Stream

(* A set of streams that no section leaves is not left by load_sections. *)
LEMMA SectionsStay ==
  ASSUME NEW hdr, hdr.shnum \in Nat, NEW T, NEW st \in T,
         \A s \in T : \A k \in 1 .. hdr.shnum : LoadSection(s, hdr, k - 1).st \in T
  PROVE  LoadSections(st, hdr).st \in T
<1> DEFINE base == [st |-> st, sections |-> << >>]
<1>1. PICK N \in Nat : N = hdr.shnum
  OBVIOUS
<1>2. DOMAIN Numbers(N) = 1 .. N /\ \A k \in 1 .. N : Numbers(N)[k] = k - 1
  BY DEF Numbers
<1>3. PICK h : Runs(h, "load sections", hdr, base, Numbers(N), N)
  BY <1>2, FoldSteps
<1>4. /\ h[0] = base
      /\ \A k \in 1 .. N : h[k] = SectionLoaded(hdr, h[k - 1], k - 1)
      /\ h[N] = Fold("load sections", hdr, base, Numbers(N))
  BY <1>2, <1>3 DEF Runs, Body
<1> DEFINE Fine(r) == r.st \in T /\ r = [st |-> r.st, sections |-> r.sections]
           Wrong == { k \in 0 .. N : ~Fine(h[k]) }
<1>5. Wrong = {}
  <2>1. SUFFICES ASSUME Wrong # {} PROVE FALSE
    OBVIOUS
  <2>2. PICK k \in Wrong : \A j \in Wrong : k <= j
    <3>1. Wrong \in SUBSET Nat
      OBVIOUS
    <3>2. QED
      BY <2>1, <3>1, LeastElement
  <2>3. k \in 0 .. N /\ ~Fine(h[k])
    BY <2>2
  <2>4. k # 0
    <3>1. Fine(base)
      OBVIOUS
    <3>2. QED
      BY <1>4, <2>3, <3>1
  <2>5. k \in 1 .. N /\ k - 1 \in 0 .. N /\ ~(k <= k - 1)
    BY <1>1, <2>3, <2>4
  <2>6. h[k - 1].st \in T
    BY <2>2, <2>5
  <2>7. h[k] = SectionLoaded(hdr, h[k - 1], k - 1)
    BY <1>4, <2>5
  <2>8. LoadSection(h[k - 1].st, hdr, k - 1).st \in T
    BY <1>1, <2>5, <2>6
  <2>9. Fine(h[k])
    BY <2>7, <2>8 DEF SectionLoaded
  <2>10. QED
    BY <2>3, <2>9
<1>6. Fine(h[N])
  BY <1>1, <1>5
<1>7. PICK all : all = h[N] /\ all.st \in T /\ all = [st |-> all.st, sections |-> all.sections]
  BY <1>6
<1>8. LoadSections(st, hdr) = IF hdr.shentsize < SizeOf[hdr.class].Shdr THEN base
                              ELSE [all EXCEPT !.sections = Named(hdr, @)]
  BY <1>1, <1>4, <1>7, SectionsAreLoop
<1>9. [all EXCEPT !.sections = Named(hdr, @)].st = all.st
  BY <1>7
<1>10. QED
  BY <1>7, <1>8, <1>9

LEMMA ListGrows ==
  ASSUME NEW s, IsList(s), NEW x
  PROVE  /\ IsList(Append(s, x)) /\ Len(s) \in Nat /\ DOMAIN s = 1 .. Len(s)
         /\ DOMAIN Append(s, x) = 1 .. (Len(s) + 1) /\ Append(s, x)[Len(s) + 1] = x
         /\ \A k \in 1 .. Len(s) : Append(s, x)[k] = s[k]
<1> DEFINE R == ToSet(s) \cup {x}
           q == Append(s, x)
<1>1. s \in Seq(ToSet(s))
  BY DEF IsList
<1>2. s \in Seq(R)
  BY <1>1
<1>3. /\ q \in Seq(R) /\ Len(q) = Len(s) + 1 /\ Len(s) \in Nat /\ DOMAIN s = 1 .. Len(s)
      /\ DOMAIN q = 1 .. (Len(s) + 1) /\ q[Len(s) + 1] = x
      /\ \A k \in 1 .. Len(s) : q[k] = s[k]
  BY <1>2, AppendProperties
<1>4. \A k \in 1 .. Len(q) : q[k] \in ToSet(q)
  BY <1>3 DEF ToSet
<1> HIDE DEF q
<1>5. q \in Seq(ToSet(q))
  BY <1>3, <1>4, IsASeq
<1>6. QED
  BY <1>3, <1>5 DEF IsList, q

(* The parts of load_segment's result that matter here. *)
HeaderPos(hdr, j) == hdr.phoff + j * hdr.phentsize
HeaderAt(st, hdr, j) == ReadHeader(st, "Phdr", HeaderPos(hdr, j), SizeOf[hdr.class].Phdr, ZeroPhdr)
NoHeader(st, hdr, j) == ~CanRead(st, HeaderPos(hdr, j), SizeOf[hdr.class].Phdr)
Wanted(st, hdr, j) == DataIsRead(HeaderAt(st, hdr, j), st)
Got(st, hdr, j) ==
  /\ Wanted(st, hdr, j)
  /\ CanRead([st EXCEPT !.fail = NoHeader(st, hdr, j)],
             HeaderAt(st, hdr, j).offset, HeaderAt(st, hdr, j).filesz)

SegmentHas(st, hdr, l, j) ==
  /\ l.st = [[st EXCEPT !.fail = NoHeader(st, hdr, j)]
               EXCEPT !.fail = @ \/ (Wanted(st, hdr, j) /\ ~Got(st, hdr, j))]
  /\ l.seg.ph = HeaderAt(st, hdr, j)
  /\ l.seg.data = IF Got(st, hdr, j)
                  THEN Slice(st.cells, HeaderAt(st, hdr, j).offset, HeaderAt(st, hdr, j).filesz)
                  ELSE << >>

LEMMA SegmentParts ==
  ASSUME NEW st, NEW hdr, NEW sections, NEW j
  PROVE  SegmentHas(st, hdr, LoadSegment(st, hdr, sections, j), j)
  BY DEF SegmentHas, LoadSegment, NewSegment, HeaderPos, HeaderAt, NoHeader, Wanted, Got

LEMMA SegmentStream ==
  ASSUME NEW cells, NEW fail, NEW hdr, NEW sections, NEW j, NEW st, st = Stream(cells, fail)
  PROVE  /\ LoadSegment(st, hdr, sections, j).st =
              Stream(cells, NoHeader(st, hdr, j) \/ (Wanted(st, hdr, j) /\ ~Got(st, hdr, j)))
         /\ Got(st, hdr, j) <=>
              /\ Wanted(st, hdr, j)
              /\ CanRead(Stream(cells, NoHeader(st, hdr, j)),
                         HeaderAt(st, hdr, j).offset, HeaderAt(st, hdr, j).filesz)
<1> DEFINE none == NoHeader(st, hdr, j)
           lost == Wanted(st, hdr, j) /\ ~Got(st, hdr, j)
<1>1. [st EXCEPT !.fail = none] = Stream(cells, none)
  BY StreamSet
<1>2. Stream(cells, none).fail = none
  BY DEF Stream
<1>3. LoadSegment(st, hdr, sections, j).st = [[st EXCEPT !.fail = none] EXCEPT !.fail = @ \/ lost]
  <2>1. SegmentHas(st, hdr, LoadSegment(st, hdr, sections, j), j)
    BY SegmentParts
  <2>2. QED
    BY <2>1 DEF SegmentHas
<1>4. Got(st, hdr, j) <=>
        /\ Wanted(st, hdr, j)
        /\ CanRead([st EXCEPT !.fail = none],
                   HeaderAt(st, hdr, j).offset, HeaderAt(st, hdr, j).filesz)
  BY DEF Got
<1> HIDE DEF none, lost
<1>5. [Stream(cells, none) EXCEPT !.fail = @ \/ lost] = Stream(cells, none \/ lost)
  <2>1. PICK both : both = (none \/ lost)
    OBVIOUS
  <2>2. [Stream(cells, none) EXCEPT !.fail = both] = Stream(cells, both)
    BY StreamSet
  <2>3. QED
    BY <1>2, <2>1, <2>2
<1>6. LoadSegment(st, hdr, sections, j).st = Stream(cells, none \/ lost)
  BY <1>1, <1>3, <1>5
<1>7. QED
  BY <1>1, <1>4, <1>6 DEF none, lost

(* A segment that was read, and the one the file was made of, when there are n cells. *)
Loaded(seg, of, n) ==
  /\ seg.ph.type = of.type /\ seg.ph.paddr = of.paddr
  /\ seg.ph.memsz = of.memsz /\ seg.ph.filesz = of.filesz
  /\ of.type # "NULL" /\ of.filesz # 0 =>
       IF of.filesz <= n
       THEN seg.data # << >> /\ \A b \in 1 .. of.filesz : seg.data[b].byte = of.bytes[b]
       ELSE seg.data = << >>

(* A segment is read as it was made, or the stream fails; it does not fail in a whole file. *)
SegmentRead(f, n, fail, of, l) ==
  /\ l.st \in Streams(SubSeq(f.cells, 1, n))
  /\ ~l.st.fail => ~fail /\ Loaded(l.seg, of, n)
  /\ n = Len(f.cells) /\ ~fail => ~l.st.fail

LEMMA SegmentIsRead ==
  ASSUME NEW f, IsList(f.cells), NEW n \in 0 .. Len(f.cells), NEW fail \in BOOLEAN,
         NEW hdr, NEW pos \in Nat, NEW m \in Nat, m = SizeOf[hdr.class].Phdr,
         NEW sections, NEW j, NEW of, of.filesz \in Nat,
         pos = HeaderPos(hdr, j), HasSegment(f, hdr.class, of, pos),
         NEW l, l = LoadSegment(Stream(SubSeq(f.cells, 1, n), fail), hdr, sections, j)
  PROVE  SegmentRead(f, n, fail, of, l)
<1> DEFINE cells == SubSeq(f.cells, 1, n)
           st == Stream(cells, fail)
<1>3. PICK ph : ph = HeaderAt(st, hdr, j)
  OBVIOUS
<1>4. PICK bad1 \in BOOLEAN : bad1 = NoHeader(st, hdr, j) /\ (bad1 <=> ~CanRead(st, pos, m))
  BY DEF NoHeader
<1>6. PICK wanted \in BOOLEAN : wanted = Wanted(st, hdr, j) /\ wanted = DataIsRead(ph, st)
  BY <1>3 DEF Wanted, DataIsRead
<1>7. PICK got \in BOOLEAN : got = Got(st, hdr, j)
  BY DEF Got
<1>8. PICK bad2 \in BOOLEAN : bad2 = (bad1 \/ (wanted /\ ~got))
  OBVIOUS
<1>9. /\ l.st = Stream(cells, bad2)
      /\ got <=> wanted /\ CanRead(Stream(cells, bad1), ph.offset, ph.filesz)
      /\ l.seg.ph = ph
      /\ l.seg.data = IF got THEN Slice(cells, ph.offset, ph.filesz) ELSE << >>
  <2>1. st.cells = cells
    BY DEF Stream
  <2>2. /\ LoadSegment(st, hdr, sections, j).st =
              Stream(cells, NoHeader(st, hdr, j) \/ (Wanted(st, hdr, j) /\ ~Got(st, hdr, j)))
        /\ Got(st, hdr, j) <=>
              /\ Wanted(st, hdr, j)
              /\ CanRead(Stream(cells, NoHeader(st, hdr, j)),
                         HeaderAt(st, hdr, j).offset, HeaderAt(st, hdr, j).filesz)
    BY SegmentStream
  <2>3. /\ LoadSegment(st, hdr, sections, j).seg.ph = HeaderAt(st, hdr, j)
        /\ LoadSegment(st, hdr, sections, j).seg.data =
              IF Got(st, hdr, j)
              THEN Slice(st.cells, HeaderAt(st, hdr, j).offset, HeaderAt(st, hdr, j).filesz)
              ELSE << >>
    <3>1. SegmentHas(st, hdr, LoadSegment(st, hdr, sections, j), j)
      BY SegmentParts
    <3>2. QED
      BY <3>1 DEF SegmentHas
  <2>4. l = LoadSegment(st, hdr, sections, j)
    OBVIOUS
  <2> HIDE DEF st, cells
  <2>5. QED
    BY <1>3, <1>4, <1>6, <1>7, <1>8, <2>1, <2>2, <2>3, <2>4
<1>11. l.st \in Streams(cells) /\ l.st.fail = bad2
  BY <1>9 DEF Streams, Stream
<1>12. Len(f.cells) \in Nat /\ n \in Nat /\ n <= Len(f.cells) /\ Len(cells) = n
       /\ f.cells \in Seq(ToSet(f.cells))
  BY DEF IsList
<1> DEFINE whole == Decode("Phdr", Slice(f.cells, pos, m), ZeroPhdr)
<1>13. /\ pos + m <= Len(f.cells) /\ whole.offset \in Nat
       /\ whole.type = of.type /\ whole.paddr = of.paddr
       /\ whole.memsz = of.memsz /\ whole.filesz = of.filesz
       /\ of.filesz <= Len(f.cells) =>
            /\ whole.offset + of.filesz <= Len(f.cells) /\ Len(of.bytes) = of.filesz
            /\ \A b \in 1 .. of.filesz : f.cells[whole.offset + b] = Byte(of.bytes[b])
  BY DEF HasSegment
<1>14. bad1 <=> fail \/ ~(pos + m <= n)
  BY <1>4, <1>12 DEF CanRead, Stream
<1>15. ASSUME ~bad1 PROVE ph = whole
  <2>1. CanRead(st, pos, m) /\ st.cells = cells /\ pos + m <= n
    BY <1>4, <1>14, <1>15 DEF Stream
  <2>2. Slice(cells, pos, m) = Slice(f.cells, pos, m)
    BY <1>12, <2>1, SliceIs DEF SamePart
  <2>3. QED
    BY <1>3, <2>1, <2>2 DEF HeaderAt, ReadHeader
<1> HIDE DEF whole
<1>16. ASSUME ~fail PROVE wanted <=> ph.type # "NULL" /\ ph.filesz # 0 /\ ph.filesz <= n
  BY <1>6, <1>12, <1>16 DEF DataIsRead, StreamSize, Stream
<1>17. got <=> wanted /\ ~bad1 /\ ph.offset + ph.filesz <= n
  BY <1>9, <1>12 DEF CanRead, Stream
<1>18. ASSUME ~bad2 PROVE ~fail /\ Loaded(l.seg, of, n)
  <2>1. ~bad1 /\ ~fail /\ ph = whole /\ (wanted => got)
    BY <1>8, <1>14, <1>15, <1>18
  <2>2. wanted <=> of.type # "NULL" /\ of.filesz # 0 /\ of.filesz <= n
    BY <1>13, <1>16, <2>1
  <2>3. ASSUME of.type # "NULL", of.filesz # 0, of.filesz <= n
        PROVE  l.seg.data # << >> /\ \A b \in 1 .. of.filesz : l.seg.data[b].byte = of.bytes[b]
    <3>1. got /\ whole.offset + of.filesz <= n
      BY <1>13, <1>17, <2>1, <2>2, <2>3
    <3>2. l.seg.data = Slice(cells, whole.offset, of.filesz)
      BY <1>9, <1>13, <2>1, <3>1
    <3>0. PICK o \in Nat, z \in Nat : o = whole.offset /\ z = of.filesz /\ o + z <= n
      BY <1>13, <3>1
    <3>a. SamePart(f.cells, n, o, z)
      BY <1>12, <3>0, SliceIs
    <3>3. /\ Slice(cells, whole.offset, of.filesz) = Slice(f.cells, whole.offset, of.filesz)
          /\ IsList(Slice(f.cells, whole.offset, of.filesz))
          /\ Len(Slice(f.cells, whole.offset, of.filesz)) = of.filesz
          /\ \A b \in 1 .. of.filesz :
               Slice(f.cells, whole.offset, of.filesz)[b] = f.cells[whole.offset + b]
      BY <3>0, <3>a DEF SamePart
    <3>4. Len(l.seg.data) = of.filesz
      BY <3>2, <3>3
    <3>5. l.seg.data # << >>
      BY <2>3, <3>4
    <3>6. \A b \in 1 .. of.filesz : l.seg.data[b] = Byte(of.bytes[b])
      BY <1>12, <1>13, <2>3, <3>2, <3>3
    <3>7. \A c : Byte(c).byte = c
      BY DEF Byte
    <3>8. QED
      BY <3>5, <3>6, <3>7
  <2>4. ASSUME ~(of.filesz <= n) PROVE l.seg.data = << >>
    BY <1>9, <1>17, <2>2, <2>4
  <2>5. QED
    BY <1>9, <1>13, <2>1, <2>3, <2>4 DEF Loaded
<1>19. ASSUME n = Len(f.cells), ~fail PROVE ~bad2
  <2>1. ~bad1 /\ ph = whole
    BY <1>13, <1>14, <1>15, <1>19
  <2>2. wanted => got
    BY <1>13, <1>16, <1>17, <1>19, <2>1
  <2>3. QED
    BY <1>8, <2>1, <2>2
<1>20. QED
  BY <1>11, <1>18, <1>19 DEF SegmentRead

(* The headers of f's segments are where hdr says. *)
HasSegments(f, hdr) ==
  /\ IsList(f.cells) /\ IsList(f.segments) /\ hdr.phnum = Len(f.segments)
  /\ SizeOf[hdr.class].Phdr \in Nat /\ ~TooSmall(hdr)
  /\ \A k \in DOMAIN f.segments :
       /\ f.segments[k].filesz \in Nat /\ HeaderPos(hdr, k - 1) \in Nat
       /\ HasSegment(f, hdr.class, f.segments[k], HeaderPos(hdr, k - 1))

(* load_segments after k segments. *)
AsMade(f, n, fail, acc, k) ==
  /\ DOMAIN acc = {"ok", "st", "segments"}
  /\ acc.st \in Streams(SubSeq(f.cells, 1, n)) /\ IsList(acc.segments)
  /\ acc.ok => /\ DOMAIN acc.segments = 1 .. k
               /\ \A j \in 1 .. k : Loaded(acc.segments[j], f.segments[j], n)
  /\ n = Len(f.cells) /\ ~fail => acc.ok /\ ~acc.st.fail

LEMMA SegmentKeepsMade ==
  ASSUME NEW f, NEW hdr, HasSegments(f, hdr), NEW n \in 0 .. Len(f.cells), NEW fail \in BOOLEAN,
         NEW c, c.hdr = hdr, NEW k \in 1 .. Len(f.segments), NEW acc, AsMade(f, n, fail, acc, k - 1)
  PROVE  AsMade(f, n, fail, SegmentLoaded(c, acc, k - 1), k)
<1> DEFINE cells == SubSeq(f.cells, 1, n)
           l == LoadSegment(acc.st, hdr, c.sections, k - 1)
           new == SegmentLoaded(c, acc, k - 1)
<1>1. /\ IsList(f.cells) /\ DOMAIN f.segments = 1 .. Len(f.segments) /\ Len(f.segments) \in Nat
      /\ SizeOf[hdr.class].Phdr \in Nat
  BY DEF HasSegments, IsList
<1>2. /\ f.segments[k].filesz \in Nat /\ HeaderPos(hdr, k - 1) \in Nat
      /\ HasSegment(f, hdr.class, f.segments[k], HeaderPos(hdr, k - 1))
  BY <1>1 DEF HasSegments
<1>3. /\ DOMAIN acc = {"ok", "st", "segments"} /\ acc.st \in Streams(cells) /\ IsList(acc.segments)
      /\ acc.ok => /\ DOMAIN acc.segments = 1 .. (k - 1)
                   /\ \A j \in 1 .. (k - 1) : Loaded(acc.segments[j], f.segments[j], n)
      /\ n = Len(f.cells) /\ ~fail => acc.ok /\ ~acc.st.fail
  BY DEF AsMade
<1>4. PICK failed \in BOOLEAN : acc.st = Stream(cells, failed) /\ acc.st.fail = failed
  BY <1>3 DEF Streams, Stream
<1>5. /\ l.st \in Streams(cells)
      /\ ~l.st.fail => ~failed /\ Loaded(l.seg, f.segments[k], n)
      /\ n = Len(f.cells) /\ ~failed => ~l.st.fail
  <2>1. l = LoadSegment(Stream(SubSeq(f.cells, 1, n), failed), hdr, c.sections, k - 1)
    BY <1>4
  <2> HIDE DEF l, cells
  <2>2. PICK pos \in Nat, m \in Nat, of \in {f.segments[k]} :
         /\ pos = HeaderPos(hdr, k - 1) /\ m = SizeOf[hdr.class].Phdr
         /\ of.filesz \in Nat /\ HasSegment(f, hdr.class, of, pos)
    BY <1>1, <1>2
  <2>3. SegmentRead(f, n, failed, of, l)
    BY <1>1, <2>1, <2>2, SegmentIsRead
  <2>4. QED
    BY <2>2, <2>3 DEF SegmentRead, cells
<1>6. new = IF ~acc.ok THEN acc
            ELSE IF l.st.fail THEN [acc EXCEPT !.ok = FALSE, !.st = l.st]
            ELSE [acc EXCEPT !.st = l.st, !.segments = Append(@, l.seg)]
  BY DEF SegmentLoaded
<1> HIDE DEF new, l, cells
<1>7. CASE ~acc.ok
  <2>1. new = acc
    BY <1>6, <1>7
  <2>2. QED
    BY <1>3, <1>7, <2>1 DEF AsMade, new, cells
<1>8. CASE acc.ok /\ l.st.fail
  <2>1. new = [acc EXCEPT !.ok = FALSE, !.st = l.st]
    BY <1>6, <1>8
  <2>2. DOMAIN new = DOMAIN acc /\ ~new.ok /\ new.st = l.st /\ new.segments = acc.segments
    BY <1>3, <2>1
  <2>3. QED
    BY <1>3, <1>4, <1>5, <1>8, <2>2 DEF AsMade, new, cells
<1>9. CASE acc.ok /\ ~l.st.fail
  <2>1. new = [acc EXCEPT !.st = l.st, !.segments = Append(@, l.seg)]
    BY <1>6, <1>9
  <2>2. /\ DOMAIN new = DOMAIN acc /\ new.ok = acc.ok /\ new.st = l.st
        /\ new.segments = Append(acc.segments, l.seg)
    BY <1>3, <2>1
  <2>3. /\ IsList(new.segments) /\ Len(acc.segments) \in Nat
        /\ DOMAIN acc.segments = 1 .. Len(acc.segments)
        /\ DOMAIN new.segments = 1 .. (Len(acc.segments) + 1)
        /\ new.segments[Len(acc.segments) + 1] = l.seg
        /\ \A j \in 1 .. Len(acc.segments) : new.segments[j] = acc.segments[j]
    BY <1>3, <2>2, ListGrows
  <2>4. Len(acc.segments) = k - 1
    BY <1>1, <1>3, <1>9, <2>3
  <2>5. DOMAIN new.segments = 1 .. k
    BY <1>1, <2>3, <2>4
  <2>6. ASSUME NEW j \in 1 .. k PROVE Loaded(new.segments[j], f.segments[j], n)
    <3>1. CASE j = k
      BY <1>1, <1>5, <1>9, <2>3, <2>4, <3>1
    <3>2. CASE j # k
      <4>1. j \in 1 .. (k - 1)
        BY <1>1, <3>2
      <4>2. QED
        BY <1>3, <1>9, <2>3, <2>4, <4>1
    <3>3. QED
      BY <3>1, <3>2
  <2>7. QED
    BY <1>3, <1>9, <2>2, <2>3, <2>5, <2>6, <1>5 DEF AsMade, new, cells
<1>10. QED
  BY <1>7, <1>8, <1>9

LEMMA SegmentsAreRead ==
  ASSUME NEW f, NEW hdr, HasSegments(f, hdr), NEW n \in 0 .. Len(f.cells), NEW fail \in BOOLEAN,
         NEW sections
  PROVE  AsMade(f, n, fail, LoadSegments(Stream(SubSeq(f.cells, 1, n), fail), hdr, sections),
                Len(f.segments))
<1> DEFINE st == Stream(SubSeq(f.cells, 1, n), fail)
           c == [hdr |-> hdr, sections |-> sections]
           base == Start(st, hdr)
<1>1. PICK N \in Nat : N = Len(f.segments) /\ hdr.phnum = N
  BY DEF HasSegments, IsList
<1>2. DOMAIN Numbers(N) = 1 .. N /\ \A k \in 1 .. N : Numbers(N)[k] = k - 1
  BY DEF Numbers
<1>3. PICK h : Runs(h, "load segments", c, base, Numbers(N), N)
  <2> HIDE DEF c, base
  <2>1. QED
    BY <1>2, FoldSteps
<1>4. /\ h[0] = base
      /\ \A k \in 1 .. N : h[k] = SegmentLoaded(c, h[k - 1], k - 1)
      /\ h[N] = LoadSegments(st, hdr, sections)
  <2>1. /\ h[0] = base
        /\ \A k \in 1 .. N : h[k] = SegmentLoaded(c, h[k - 1], Numbers(N)[k])
        /\ h[N] = Fold("load segments", c, base, Numbers(N))
    BY <1>3 DEF Runs, Body
  <2>2. LoadSegments(st, hdr, sections) = Fold("load segments", c, base, Numbers(N))
    BY <1>1, SegmentsAreLoop
  <2>3. QED
    BY <1>2, <2>1, <2>2
<1>5. AsMade(f, n, fail, base, 0)
  <2>1. st \in Streams(SubSeq(f.cells, 1, n)) /\ st.fail = fail
    BY DEF Streams, Stream
  <2>2. IsList(<< >>) /\ DOMAIN << >> = 1 .. 0
    BY DEF IsList
  <2>3. ~TooSmall(hdr)
    BY DEF HasSegments
  <2>4. DOMAIN base = {"ok", "st", "segments"} /\ base.st = st /\ base.segments = << >> /\ base.ok
    BY <2>3 DEF Start
  <2> HIDE DEF base, st
  <2>5. QED
    BY <2>1, <2>2, <2>4 DEF AsMade
<1> DEFINE Wrong == { k \in 0 .. N : ~AsMade(f, n, fail, h[k], k) }
<1> HIDE DEF base, st
<1>6. Wrong = {}
  <2>1. SUFFICES ASSUME Wrong # {} PROVE FALSE
    OBVIOUS
  <2>2. PICK k \in Wrong : \A j \in Wrong : k <= j
    <3>1. Wrong \in SUBSET Nat
      OBVIOUS
    <3>2. QED
      BY <2>1, <3>1, LeastElement
  <2>3. k \in 0 .. N /\ ~AsMade(f, n, fail, h[k], k)
    BY <2>2
  <2>4. k # 0
    BY <1>4, <1>5, <2>3
  <2>5. k \in 1 .. N /\ k - 1 \in 0 .. N /\ ~(k <= k - 1)
    BY <1>1, <2>3, <2>4
  <2>6. AsMade(f, n, fail, h[k - 1], k - 1)
    BY <2>2, <2>5
  <2>7. h[k] = SegmentLoaded(c, h[k - 1], k - 1)
    BY <1>4, <2>5
  <2>8. c.hdr = hdr
    OBVIOUS
  <2> HIDE DEF c
  <2>9. AsMade(f, n, fail, SegmentLoaded(c, h[k - 1], k - 1), k)
    BY <1>1, <2>5, <2>6, <2>8, SegmentKeepsMade
  <2>10. QED
    BY <2>3, <2>7, <2>9
<1>7. AsMade(f, n, fail, h[N], N)
  BY <1>1, <1>6
<1>8. QED
  BY <1>1, <1>4, <1>7 DEF st

(* The first n cells of a file, loaded. *)
IsLoaded(f, n, l) ==
  /\ ~l.ok => f.invalid \/ n < Len(f.cells)
  /\ l.ok => /\ ~f.invalid /\ DOMAIN l.elf.segments = DOMAIN f.segments
             /\ \A k \in DOMAIN f.segments : Loaded(l.elf.segments[k], f.segments[k], n)

(* A whole file that is made of its segments has them and all of its sections. *)
LEMMA FileHasSegments ==
  ASSUME NEW name \in DOMAIN Files, ~Files[name].invalid, NEW hdr, hdr = Files[name].cells[1].rec
  PROVE  /\ HasSegments(Files[name], hdr) /\ hdr.shnum \in Nat
         /\ \A s \in {Stream(Files[name].cells, FALSE)} : \A k \in 1 .. hdr.shnum :
              LoadSection(s, hdr, k - 1).st \in {Stream(Files[name].cells, FALSE)}
<1>1. PICK f : f = Files[name]
  OBVIOUS
<1>2. /\ IsList(f.cells) /\ IsList(f.segments) /\ IsMadeOfSegments(f)
      /\ \A n \in DOMAIN f.segments : f.segments[n].filesz \in Nat
      /\ \A class \in Classes : \A T \in {"Ehdr", "Phdr", "Shdr"} : SizeOf[class][T] \in Nat \ {0}
  BY <1>1, FilesAssumption
<1>3. /\ HeaderLoads(f.cells) /\ hdr.phnum = Len(f.segments)
      /\ hdr.phoff \in Nat /\ hdr.phentsize \in Nat /\ hdr.shoff \in Nat /\ hdr.shentsize \in Nat
      /\ hdr.shnum \in Nat
      /\ hdr.phnum # 0 => hdr.phentsize >= SizeOf[hdr.class].Phdr
  BY <1>1, <1>2 DEF IsMadeOfSegments
<1>4. /\ \A n \in DOMAIN f.segments :
           HasSegment(f, hdr.class, f.segments[n], hdr.phoff + (n - 1) * hdr.phentsize)
      /\ \A n \in 1 .. hdr.shnum :
           HasSection(f, hdr.class, hdr.shoff + (n - 1) * hdr.shentsize)
  BY <1>1, <1>2 DEF IsMadeOfSegments
<1>5. SizeOf[hdr.class].Phdr \in Nat /\ SizeOf[hdr.class].Shdr \in Nat
  <2>1. hdr.class \in Classes
    BY <1>1, <1>3 DEF HeaderLoads
  <2>2. QED
    BY <1>2, <2>1
<1>6. ~TooSmall(hdr)
  BY <1>3, <1>5 DEF TooSmall
<1>7. ASSUME NEW k \in DOMAIN f.segments
      PROVE  /\ f.segments[k].filesz \in Nat /\ HeaderPos(hdr, k - 1) \in Nat
             /\ HasSegment(f, hdr.class, f.segments[k], HeaderPos(hdr, k - 1))
  <2>1. k - 1 \in Nat
    BY <1>2 DEF IsList
  <2>2. (k - 1) * hdr.phentsize \in Nat
    BY <1>3, <2>1
  <2>3. QED
    BY <1>2, <1>3, <1>4, <2>2 DEF HeaderPos
<1>8. HasSegments(f, hdr)
  BY <1>2, <1>3, <1>5, <1>6, <1>7 DEF HasSegments
<1>9. ASSUME NEW k \in 1 .. hdr.shnum
      PROVE  LoadSection(Stream(f.cells, FALSE), hdr, k - 1).st = Stream(f.cells, FALSE)
  <2>1. PICK j \in Nat : j = k - 1
    BY <1>3
  <2>2. HasSection(f, hdr.class, hdr.shoff + j * hdr.shentsize)
    BY <1>4, <2>1
  <2>3. LoadSection(Stream(f.cells, FALSE), hdr, j).st = Stream(f.cells, FALSE)
    BY <1>2, <1>3, <1>5, <2>1, <2>2, SectionIsRead
  <2>4. QED
    BY <2>1, <2>3
<1>10. QED
  BY <1>1, <1>3, <1>8, <1>9

LEMMA LoadIs ==
  ASSUME NEW name \in DOMAIN Files, NEW n \in 0 .. Len(Files[name].cells)
  PROVE  IsLoaded(Files[name], n, Load(SubSeq(Files[name].cells, 1, n)))
<1> DEFINE f == Files[name]
           cells == SubSeq(f.cells, 1, n)
           hdr == f.cells[1].rec
<1>1. /\ IsList(f.cells) /\ f.cells \in Seq(ToSet(f.cells)) /\ Len(f.cells) \in Nat
      /\ IsList(f.segments) /\ DOMAIN f.segments = 1 .. Len(f.segments)
      /\ IF f.invalid THEN ~HeaderLoads(f.cells) ELSE IsMadeOfSegments(f)
  BY FilesAssumption DEF IsList
<1>2. /\ n \in Nat /\ n <= Len(f.cells) /\ Len(cells) = n
      /\ \A k \in 1 .. n : cells[k] = f.cells[k]
      /\ n = Len(f.cells) => cells = f.cells
  <2>1. \A s : \A q \in Seq(s) : SubSeq(q, 1, Len(q)) = q
    OBVIOUS
  <2>2. QED
    BY <1>1, <2>1
<1> DEFINE start == Stream(cells, FALSE)
           sec == LoadSections(start, hdr)
           seg == LoadSegments(sec.st, hdr, sec.sections)
<1>3. cells # << >> => cells[1] = f.cells[1] /\ n >= 1
  BY <1>1, <1>2
<1>4. Load(cells).ok = IF HeaderLoads(cells) THEN seg.ok ELSE FALSE
  <2>1. CASE HeaderLoads(cells)
    <3>1. cells[1].rec = hdr
      BY <1>3, <2>1 DEF HeaderLoads
    <3> HIDE DEF cells, hdr
    <3>2. QED
      BY <2>1, <3>1 DEF Load, Stream
  <2>2. CASE ~HeaderLoads(cells)
    BY <2>2 DEF Load
  <2>3. QED
    BY <2>1, <2>2
<1>5. HeaderLoads(cells) => Load(cells).elf.segments = seg.segments
  <2>1. SUFFICES ASSUME HeaderLoads(cells) PROVE Load(cells).elf.segments = seg.segments
    OBVIOUS
  <2>2. cells[1].rec = hdr
    BY <1>3, <2>1 DEF HeaderLoads
  <2> HIDE DEF cells, hdr
  <2>3. QED
    BY <2>1, <2>2 DEF Load, Stream
<1>6. HeaderLoads(cells) => HeaderLoads(f.cells)
  <2>1. SUFFICES ASSUME HeaderLoads(cells) PROVE HeaderLoads(f.cells)
    OBVIOUS
  <2>2. cells # << >> /\ cells[1] = f.cells[1] /\ n >= 1
    BY <1>3, <2>1 DEF HeaderLoads
  <2>3. f.cells # << >>
    BY <1>1, <1>2, <2>2
  <2>4. hdr.class \in Classes
    BY <2>1, <2>2 DEF HeaderLoads
  <2>5. SizeOf[hdr.class].Ehdr \in Nat
    BY <2>4, FilesAssumption
  <2>6. Len(cells) >= SizeOf[hdr.class].Ehdr
    BY <2>1, <2>2 DEF HeaderLoads
  <2>7. Len(f.cells) >= SizeOf[hdr.class].Ehdr
    BY <1>1, <1>2, <2>5, <2>6
  <2> HIDE DEF cells
  <2>8. QED
    BY <2>1, <2>2, <2>3, <2>7 DEF HeaderLoads
<1>7. CASE ~HeaderLoads(cells)
  <2>1. ~Load(cells).ok
    BY <1>4, <1>7
  <2>2. f.invalid \/ n < Len(f.cells)
    <3>1. SUFFICES ASSUME ~f.invalid, n = Len(f.cells) PROVE FALSE
      BY <1>1, <1>2
    <3>2. HeaderLoads(f.cells)
      BY <1>1, <3>1 DEF IsMadeOfSegments
    <3>3. QED
      BY <1>2, <1>7, <3>1, <3>2
  <2>3. QED
    BY <2>1, <2>2 DEF IsLoaded
<1>8. CASE HeaderLoads(cells)
  <2>1. ~f.invalid
    BY <1>1, <1>6, <1>8
  <2>2. /\ HasSegments(f, hdr) /\ hdr.shnum \in Nat
        /\ \A s \in {Stream(f.cells, FALSE)} : \A k \in 1 .. hdr.shnum :
             LoadSection(s, hdr, k - 1).st \in {Stream(f.cells, FALSE)}
    BY <2>1, FileHasSegments
  <2> HIDE DEF hdr
  <2>3. sec.st \in Streams(cells)
    <3>1. \A s \in Streams(cells) : \A k \in 1 .. hdr.shnum :
            LoadSection(s, hdr, k - 1).st \in Streams(cells)
      BY SectionKeepsStream DEF Streams
    <3>2. start \in Streams(cells)
      BY DEF Streams
    <3> HIDE DEF start, cells
    <3>3. QED
      BY <2>2, <3>1, <3>2, SectionsStay
  <2>4. n = Len(f.cells) => sec.st = Stream(cells, FALSE)
    <3>1. SUFFICES ASSUME n = Len(f.cells) PROVE sec.st = Stream(cells, FALSE)
      OBVIOUS
    <3>2. start \in {Stream(f.cells, FALSE)}
      BY <1>2, <3>1
    <3>3. LoadSections(start, hdr).st \in {Stream(f.cells, FALSE)}
      <4> HIDE DEF start
      <4>1. QED
        BY <2>2, <3>2, SectionsStay
    <3>4. QED
      BY <1>2, <3>1, <3>3
  <2>5. PICK fail \in BOOLEAN : sec.st = Stream(cells, fail) /\ (n = Len(f.cells) => ~fail)
    BY <2>3, <2>4 DEF Streams, Stream
  <2>6. AsMade(f, n, fail, seg, Len(f.segments))
    <3>1. PICK list : list = sec.sections
      OBVIOUS
    <3>2. AsMade(f, n, fail, LoadSegments(Stream(SubSeq(f.cells, 1, n), fail), hdr, list),
                 Len(f.segments))
      BY <2>2, <2>5, SegmentsAreRead
    <3>3. QED
      BY <2>5, <3>1, <3>2
  <2>7. /\ seg.ok => /\ DOMAIN seg.segments = 1 .. Len(f.segments)
                     /\ \A j \in 1 .. Len(f.segments) : Loaded(seg.segments[j], f.segments[j], n)
        /\ n = Len(f.cells) => seg.ok
    BY <2>5, <2>6 DEF AsMade
  <2> HIDE DEF seg, cells
  <2>8. (Load(cells).ok <=> seg.ok) /\ Load(cells).elf.segments = seg.segments
    BY <1>4, <1>5, <1>8
  <2>9. QED
    BY <1>1, <1>2, <2>1, <2>7, <2>8 DEF IsLoaded, cells
<1>9. QED
  BY <1>7, <1>8

(* A segment that was loaded with its data is that of the file; without it, it claims more *)
(* than there is.                                                                          *)
LEMMA LoadedIsSame ==
  ASSUME NEW f, NEW hdr, HasSegments(f, hdr), NEW n \in 0 .. Len(f.cells), NEW k \in DOMAIN f.segments,
         IsMade(f.segments[k]), NEW seg, Loaded(seg, f.segments[k], n)
  PROVE  /\ NoData(seg) => f.segments[k].type = "LOAD" /\ f.segments[k].filesz > n
         /\ ~NoData(seg) => Same(seg, f.segments[k])
<1>1. PICK of : of = f.segments[k] /\ of.filesz \in Nat /\ Loaded(seg, of, n) /\ IsMade(of)
  BY DEF HasSegments
<1>2. /\ seg.ph.type = of.type /\ seg.ph.paddr = of.paddr /\ seg.ph.memsz = of.memsz
      /\ seg.ph.filesz = of.filesz
  BY <1>1 DEF Loaded
<1>3. PICK size \in Nat : size = of.filesz
  BY <1>1
<1>4. n \in Nat /\ n <= Len(f.cells) /\ Len(f.cells) \in Nat
  BY DEF HasSegments, IsList
<1>5. of.type = "LOAD" /\ size # 0 =>
        IF size <= n THEN seg.data # << >> /\ \A b \in 1 .. size : seg.data[b].byte = of.bytes[b]
        ELSE seg.data = << >>
  BY <1>1, <1>3 DEF Loaded
<1>6. ASSUME NoData(seg) PROVE of.type = "LOAD" /\ of.filesz > n
  BY <1>2, <1>3, <1>4, <1>5, <1>6 DEF NoData, Loadable
<1>7. ASSUME ~NoData(seg) PROVE Same(seg, of)
  <2>1. ASSUME Loadable(seg), NEW b \in 1 .. of.memsz
        PROVE  ByteOf(seg, b) = IF b > Len(of.bytes) THEN 0 ELSE of.bytes[b]
    <3>1. size = 0 \/ (size <= n /\ \A c \in 1 .. size : seg.data[c].byte = of.bytes[c])
      BY <1>2, <1>3, <1>5, <1>7, <2>1 DEF NoData, Loadable
    <3>2. size <= Len(f.cells)
      BY <1>4, <3>1
    <3>3. HasSegment(f, hdr.class, of, HeaderPos(hdr, k - 1))
      BY <1>1 DEF HasSegments
    <3>4. Len(of.bytes) = size
      BY <1>3, <3>2, <3>3 DEF HasSegment
    <3>5. b \in Nat \ {0}
      BY <1>1 DEF IsMade
    <3>6. CASE b <= size
      BY <1>2, <1>3, <3>1, <3>4, <3>5, <3>6 DEF ByteOf
    <3>7. CASE ~(b <= size)
      BY <1>2, <1>3, <3>4, <3>5, <3>7 DEF ByteOf
    <3>8. QED
      BY <3>6, <3>7
  <2>2. QED
    BY <1>1, <1>2, <2>1 DEF Same, IsMade
<1>8. QED
  BY <1>1, <1>6, <1>7

(* main's merging loop after elf.load, of what is left of a file. *)
IsMerged(f, n, l) ==
  /\ ~l.ok => f.invalid \/ n < Len(f.cells)
  /\ l.ok => IF \E k \in DOMAIN l.elf.segments : NoData(l.elf.segments[k])
             THEN \E k \in DOMAIN f.segments : f.segments[k].type = "LOAD" /\ f.segments[k].filesz > n
             ELSE Merged(l.elf.segments) = ImageOf(f.segments)

LEMMA MergedIs ==
  ASSUME NEW name \in DOMAIN Files, NEW n \in 0 .. Len(Files[name].cells)
  PROVE  /\ IsMerged(Files[name], n, Load(SubSeq(Files[name].cells, 1, n)))
         /\ ImageOf(Files[name].segments) \in Maps
<1> DEFINE f == Files[name]
           l == Load(SubSeq(f.cells, 1, n))
<1>1. IsLoaded(f, n, l)
  BY LoadIs
<1>2. PICK segs : segs = f.segments /\ segs \in Seq(ToSet(segs))
      /\ \A k \in DOMAIN segs : IsMade(segs[k])
  BY FilesAssumption DEF IsList, IsMade
<1>3. ImageOf(segs) \in Maps
  BY <1>2, ImageIs
<1>4. PICK parts : parts = l.elf.segments
  OBVIOUS
<1>5. ASSUME l.ok PROVE
        IF \E k \in DOMAIN parts : NoData(parts[k])
        THEN \E k \in DOMAIN segs : segs[k].type = "LOAD" /\ segs[k].filesz > n
        ELSE Merged(parts) = ImageOf(segs)
  <2>1. ~f.invalid /\ DOMAIN parts = DOMAIN segs /\ \A k \in DOMAIN segs : Loaded(parts[k], segs[k], n)
    BY <1>1, <1>2, <1>4, <1>5 DEF IsLoaded
  <2>2. PICK hdr : HasSegments(f, hdr)
    BY <2>1, FileHasSegments
  <2> HIDE DEF f, l
  <2>3. n \in 0 .. Len(f.cells)
    BY DEF f
  <2>4. \A k \in DOMAIN segs : /\ NoData(parts[k]) => segs[k].type = "LOAD" /\ segs[k].filesz > n
                               /\ ~NoData(parts[k]) => Same(parts[k], segs[k])
    BY <1>2, <2>1, <2>2, <2>3, LoadedIsSame
  <2>5. CASE \E k \in DOMAIN parts : NoData(parts[k])
    BY <2>1, <2>4, <2>5
  <2>6. CASE ~(\E k \in DOMAIN parts : NoData(parts[k]))
    <3>1. \A k \in DOMAIN segs : Same(parts[k], segs[k])
      BY <2>1, <2>4, <2>6
    <3>2. Merged(parts) = ImageOf(segs)
      BY <1>2, <2>1, <3>1, MergedIsImage
    <3>3. QED
      BY <2>6, <3>2
  <2>7. QED
    BY <2>5, <2>6
<1>6. ~l.ok => f.invalid \/ n < Len(f.cells)
  BY <1>1 DEF IsLoaded
<1> HIDE DEF l
<1>7. QED
  BY <1>2, <1>3, <1>4, <1>5, <1>6 DEF IsMerged, l

-----------------------------------------------------------------------------
(* The command line, as a function of the arguments *)

Before(a, n) == { k \in 0 .. (n - 1) : \A j \in (n - k) .. (n - 1) : a[j] = "--trace" }
NameAt(a, n) == Max(Before(a, n)) % 2 = 1
Free(a, n) == { k \in 1 .. n : ~NameAt(a, k) /\ a[k] \notin {"--arcs", "--vtor", "--trace"} }
Usable(a) == Cardinality(Free(a, Len(a))) = 1 /\ ~NameAt(a, Len(a) + 1)

LEMMA BeforeIs ==
  ASSUME NEW a, NEW n \in Nat \ {0}
  PROVE  Max(Before(a, n)) \in Before(a, n) /\ \A k \in Before(a, n) : k <= Max(Before(a, n))
<1>1. Before(a, n) \in SUBSET Nat /\ \A k \in Before(a, n) : k <= n
  BY DEF Before
<1>2. 0 \in Before(a, n)
  BY DEF Before
<1>3. QED
  BY <1>1, <1>2, MaxIs

LEMMA NotAtFirst ==
  ASSUME NEW a
  PROVE  ~NameAt(a, 1)
<1>1. Max(Before(a, 1)) \in Before(a, 1)
  BY BeforeIs
<1>2. Max(Before(a, 1)) = 0
  BY <1>1 DEF Before
<1>3. QED
  BY <1>2 DEF NameAt

(* The argument after a --trace is its name, unless that --trace is itself a name. *)
LEMMA NameFollows ==
  ASSUME NEW a, NEW n \in Nat \ {0}
  PROVE  NameAt(a, n + 1) <=> a[n] = "--trace" /\ ~NameAt(a, n)
<1>1. PICK m : m = Max(Before(a, n)) /\ m \in Before(a, n) /\ \A k \in Before(a, n) : k <= m
  BY BeforeIs
<1>2. PICK q : q = Max(Before(a, n + 1)) /\ q \in Before(a, n + 1)
               /\ \A k \in Before(a, n + 1) : k <= q
  <2>1. n + 1 \in Nat \ {0}
    OBVIOUS
  <2>2. QED
    BY <2>1, BeforeIs
<1>3. m \in Nat /\ q \in Nat
  BY <1>1, <1>2 DEF Before
<1>4. ASSUME NEW k \in Nat, k # 0
      PROVE  k \in Before(a, n + 1) <=> k - 1 \in Before(a, n) /\ a[n] = "--trace"
  <2>1. ASSUME k \in Before(a, n + 1) PROVE k - 1 \in Before(a, n) /\ a[n] = "--trace"
    <3>1. k \in 0 .. n /\ \A j \in (n + 1 - k) .. n : a[j] = "--trace"
      BY <2>1 DEF Before
    <3>2. a[n] = "--trace"
      BY <1>4, <3>1
    <3>3. k - 1 \in 0 .. (n - 1) /\ \A j \in (n - (k - 1)) .. (n - 1) : a[j] = "--trace"
      BY <1>4, <3>1
    <3>4. QED
      BY <3>2, <3>3 DEF Before
  <2>2. ASSUME k - 1 \in Before(a, n), a[n] = "--trace" PROVE k \in Before(a, n + 1)
    <3>1. k - 1 \in 0 .. (n - 1) /\ \A j \in (n - (k - 1)) .. (n - 1) : a[j] = "--trace"
      BY <2>2 DEF Before
    <3>2. ASSUME NEW j \in ((n + 1) - k) .. ((n + 1) - 1) PROVE a[j] = "--trace"
      <4>1. CASE j = n
        BY <2>2, <4>1
      <4>2. CASE j # n
        <5>1. j \in (n - (k - 1)) .. (n - 1)
          BY <4>2
        <5>2. QED
          BY <3>1, <5>1
      <4>3. QED
        BY <4>1, <4>2
    <3>3. k \in 0 .. ((n + 1) - 1)
      BY <3>1
    <3>4. QED
      BY <3>2, <3>3 DEF Before
  <2>3. QED
    BY <2>1, <2>2
<1>5. CASE a[n] = "--trace"
  <2>1. m + 1 \in Before(a, n + 1)
    BY <1>1, <1>3, <1>4, <1>5
  <2>2. q # 0 /\ m + 1 <= q
    BY <1>2, <1>3, <2>1
  <2>3. q - 1 \in Before(a, n)
    BY <1>2, <1>3, <1>4, <2>2
  <2>4. q = m + 1
    BY <1>1, <1>3, <2>2, <2>3
  <2>5. q % 2 = 1 <=> ~(m % 2 = 1)
    BY <1>3, <2>4
  <2>6. QED
    BY <1>1, <1>2, <1>5, <2>5 DEF NameAt
<1>6. CASE a[n] # "--trace"
  <2>1. q = 0
    BY <1>2, <1>3, <1>4, <1>6
  <2>2. ~(q % 2 = 1)
    BY <2>1
  <2>3. QED
    BY <1>2, <1>6, <2>2 DEF NameAt
<1>7. QED
  BY <1>5, <1>6

LEMMA FreeGrows ==
  ASSUME NEW a, NEW n \in Nat
  PROVE  /\ Cardinality(Free(a, 0)) = 0
         /\ Cardinality(Free(a, n)) \in Nat
         /\ Cardinality(Free(a, n + 1)) =
              IF ~NameAt(a, n + 1) /\ a[n + 1] \notin {"--arcs", "--vtor", "--trace"}
              THEN Cardinality(Free(a, n)) + 1 ELSE Cardinality(Free(a, n))
<1>1. Free(a, 0) = {}
  BY DEF Free
<1>2. IsFiniteSet(Free(a, n))
  <2>1. IsFiniteSet(1 .. n)
    BY FS_Interval
  <2>2. Free(a, n) \subseteq 1 .. n
    BY DEF Free
  <2>3. QED
    BY <2>1, <2>2, FS_Subset
<1>3. n + 1 \notin Free(a, n) /\ 1 .. (n + 1) = 1 .. n \cup {n + 1}
  BY DEF Free
<1>4. CASE ~NameAt(a, n + 1) /\ a[n + 1] \notin {"--arcs", "--vtor", "--trace"}
  <2>1. Free(a, n + 1) = Free(a, n) \cup {n + 1}
    BY <1>3, <1>4 DEF Free
  <2>2. Cardinality(Free(a, n) \cup {n + 1}) = Cardinality(Free(a, n)) + 1
    BY <1>2, <1>3, FS_AddElement
  <2>3. Cardinality(Free(a, 0)) = 0 /\ Cardinality(Free(a, n)) \in Nat
    BY <1>1, <1>2, FS_EmptySet, FS_CardinalityType
  <2>4. QED
    BY <1>4, <2>1, <2>2, <2>3
<1>5. CASE ~(~NameAt(a, n + 1) /\ a[n + 1] \notin {"--arcs", "--vtor", "--trace"})
  <2>1. Free(a, n + 1) = Free(a, n)
    BY <1>3, <1>5 DEF Free
  <2>2. QED
    BY <1>1, <1>2, <1>5, <2>1, FS_EmptySet, FS_CardinalityType
<1>6. QED
  BY <1>4, <1>5

LEMMA NamesAre ==
  /\ \A n : IsTraceName(n) <=> NameAt(args, n)
  /\ args \in Seq(STRING) => (UsageIsRight <=> Usable(args))
<1>1. \A n : IsTraceName(n) <=> NameAt(args, n)
  BY DEF IsTraceName, NameAt, Before
<1>2. ASSUME args \in Seq(STRING) PROVE UsageIsRight <=> Usable(args)
  <2>1. DOMAIN args = 1 .. Len(args)
    BY <1>2
  <2>2. { n \in DOMAIN args : ~IsTraceName(n) /\ args[n] \notin {"--arcs", "--vtor", "--trace"} }
          = Free(args, Len(args))
    BY <1>1, <2>1 DEF Free
  <2>3. QED
    BY <1>1, <2>2 DEF UsageIsRight, Usable
<1>3. QED
  BY <1>1, <1>2

(* The options after n arguments. *)
Parsed(o, a, n) ==
  /\ o.all \/ o.arcs \/ o.vtor
  /\ o.name <=> NameAt(a, n + 1)
  /\ Len(o.rest) = Cardinality(Free(a, n))

OptionSet == [all : BOOLEAN, arcs : BOOLEAN, vtor : BOOLEAN, trace : STRING \cup {None},
              name : BOOLEAN, rest : Seq(STRING)]

LEMMA ArgumentParsed ==
  ASSUME NEW a \in Seq(STRING), NEW n \in Nat, n < Len(a), NEW o \in OptionSet, Parsed(o, a, n)
  PROVE  Argument(o, a[n + 1]) \in OptionSet /\ Parsed(Argument(o, a[n + 1]), a, n + 1)
<1> DEFINE arg == a[n + 1]
           new == Argument(o, arg)
<1>1. arg \in STRING /\ n + 1 \in Nat \ {0}
  OBVIOUS
<1>2. NameAt(a, (n + 1) + 1) <=> arg = "--trace" /\ ~NameAt(a, n + 1)
  BY <1>1, NameFollows
<1>3. Cardinality(Free(a, n + 1)) =
        IF ~NameAt(a, n + 1) /\ arg \notin {"--arcs", "--vtor", "--trace"}
        THEN Cardinality(Free(a, n)) + 1 ELSE Cardinality(Free(a, n))
  BY FreeGrows
<1>4. (o.name <=> NameAt(a, n + 1)) /\ Len(o.rest) = Cardinality(Free(a, n))
      /\ (o.all \/ o.arcs \/ o.vtor) /\ o.rest \in Seq(STRING)
  BY DEF Parsed, OptionSet
<1> HIDE DEF arg
<1>5. CASE o.name
  <2>1. new = [o EXCEPT !.trace = arg, !.name = FALSE]
    BY <1>5 DEF Argument
  <2>2. new \in OptionSet /\ ~new.name /\ new.rest = o.rest /\ new.all = o.all /\ new.arcs = o.arcs
        /\ new.vtor = o.vtor
    BY <1>1, <2>1 DEF OptionSet
  <2> HIDE DEF new
  <2>3. QED
    BY <1>2, <1>3, <1>4, <1>5, <2>2 DEF Parsed, new, arg
<1>6. CASE ~o.name /\ arg = "--arcs"
  <2>1. new = [o EXCEPT !.all = FALSE, !.arcs = TRUE]
    BY <1>6 DEF Argument
  <2>2. new \in OptionSet /\ ~new.name /\ new.rest = o.rest /\ new.arcs
    BY <1>6, <2>1 DEF OptionSet
  <2> HIDE DEF new
  <2>3. QED
    BY <1>2, <1>3, <1>4, <1>6, <2>2 DEF Parsed, new, arg
<1>7. CASE ~o.name /\ arg = "--vtor"
  <2>1. new = [o EXCEPT !.all = FALSE, !.vtor = TRUE]
    BY <1>7 DEF Argument
  <2>2. new \in OptionSet /\ ~new.name /\ new.rest = o.rest /\ new.vtor
    BY <1>7, <2>1 DEF OptionSet
  <2> HIDE DEF new
  <2>3. QED
    BY <1>2, <1>3, <1>4, <1>7, <2>2 DEF Parsed, new, arg
<1>8. CASE ~o.name /\ arg = "--trace"
  <2>1. new = [o EXCEPT !.name = TRUE]
    BY <1>8 DEF Argument
  <2>2. new \in OptionSet /\ new.name /\ new.rest = o.rest /\ new.all = o.all /\ new.arcs = o.arcs
        /\ new.vtor = o.vtor
    BY <1>8, <2>1 DEF OptionSet
  <2> HIDE DEF new
  <2>3. QED
    BY <1>2, <1>3, <1>4, <1>8, <2>2 DEF Parsed, new, arg
<1>9. CASE ~o.name /\ arg \notin {"--arcs", "--vtor", "--trace"}
  <2>1. new = [o EXCEPT !.rest = Append(@, arg)]
    BY <1>9 DEF Argument
  <2>2. Append(o.rest, arg) \in Seq(STRING) /\ Len(Append(o.rest, arg)) = Len(o.rest) + 1
    BY <1>1, <1>4, AppendProperties
  <2>3. new \in OptionSet /\ ~new.name /\ new.rest = Append(o.rest, arg) /\ new.all = o.all
        /\ new.arcs = o.arcs /\ new.vtor = o.vtor
    BY <1>9, <2>1, <2>2 DEF OptionSet
  <2> HIDE DEF new
  <2>4. QED
    BY <1>2, <1>3, <1>4, <1>9, <2>2, <2>3 DEF Parsed, new, arg
<1>10. QED
  BY <1>5, <1>6, <1>7, <1>8, <1>9

-----------------------------------------------------------------------------
(* The shared map *)

StoreSet == [port : {"mem", "mmio"}, addr : Nat, data : Words]
At(s, a) == { n \in DOMAIN s : WordOf(s[n].addr) = WordOf(a) }

(* The word of an address: what was stored last, or the image, or a zero from printing. *)
WordRight(m, s, segs, p, a) ==
  IF At(s, a) # {} THEN WordOf(a) \in DOMAIN m /\ m[WordOf(a)] = s[Max(At(s, a))].data
  ELSE IF WordOf(a) \in DOMAIN ImageOf(segs)
  THEN WordOf(a) \in DOMAIN m /\ m[WordOf(a)] = ImageOf(segs)[WordOf(a)]
  ELSE WordOf(a) \in DOMAIN m => m[WordOf(a)] = Zero /\ InArea(a) /\ p # << >>

LEMMA StoreKeepsMap ==
  ASSUME NEW m \in Maps, NEW a \in Nat, NEW data \in Words
  PROVE  Store(m, a, data) \in Maps
<1>1. WordOf(a) \in Aligned /\ DOMAIN m \subseteq Aligned /\ m \in [DOMAIN m -> Words]
  BY WordIs, MapIs
<1>2. Store(m, a, data) \in [DOMAIN m \cup {WordOf(a)} -> Words]
  BY <1>1 DEF Store, Put
<1>3. QED
  BY <1>1, <1>2 DEF Maps

LEMMA StoreRight ==
  ASSUME NEW m \in Maps, NEW s \in Seq(StoreSet), NEW segs, NEW p, NEW a,
         NEW new \in StoreSet, WordRight(m, s, segs, p, a)
  PROVE  WordRight(Store(m, new.addr, new.data), Append(s, new), segs, p, a)
<1> DEFINE w == WordOf(a)
           v == WordOf(new.addr)
           q == Append(s, new)
           n == Len(s) + 1
           after == Store(m, new.addr, new.data)
<1>1. /\ Len(s) \in Nat /\ DOMAIN s = 1 .. Len(s) /\ DOMAIN q = 1 .. n /\ q[n] = new
      /\ \A k \in 1 .. Len(s) : q[k] = s[k]
  BY AppendProperties, LenProperties
<1>2. after = [x \in DOMAIN m \cup {v} |-> IF x = v THEN new.data ELSE m[x]]
  BY DEF Store, Put
<1>3. CASE v = w
  <2>1. n \in At(q, a) /\ At(q, a) \in SUBSET (1 .. n) /\ n \in Nat
    BY <1>1, <1>3 DEF At
  <2>2. Max(At(q, a)) = n
    <3>1. Max(At(q, a)) \in At(q, a) /\ n <= Max(At(q, a))
      BY <2>1, GreatestIs
    <3>2. QED
      BY <2>1, <3>1
  <2>3. w \in DOMAIN after /\ after[w] = new.data
    BY <1>2, <1>3
  <2> HIDE DEF after, q
  <2>4. QED
    BY <1>1, <2>1, <2>2, <2>3 DEF WordRight, after, q
<1>4. CASE v # w
  <2>1. At(q, a) = At(s, a)
    BY <1>1, <1>4 DEF At
  <2>2. (w \in DOMAIN after <=> w \in DOMAIN m) /\ (w \in DOMAIN m => after[w] = m[w])
    BY <1>2, <1>4
  <2>3. ASSUME At(s, a) # {} PROVE q[Max(At(s, a))] = s[Max(At(s, a))]
    <3>1. At(s, a) \in SUBSET (1 .. Len(s))
      BY <1>1 DEF At
    <3>2. Max(At(s, a)) \in 1 .. Len(s)
      BY <1>1, <2>3, <3>1, GreatestIs
    <3>3. QED
      BY <1>1, <3>2
  <2> HIDE DEF after, q
  <2>4. QED
    BY <2>1, <2>2, <2>3 DEF WordRight, after, q
<1>5. QED
  BY <1>3, <1>4

(* The words of tohost_data are words of the area, as a whole. *)
AreaWord(n) == TOHOST_DATA_ADDR + ((n - 1) \div WordBytes) * WordBytes

LEMMA AreaWordIs ==
  ASSUME NEW n \in 1 .. TOHOST_DATA_SIZE, NEW a \in Nat
  PROVE  AreaWord(n) \in Aligned /\ (WordOf(a) = AreaWord(n) => InArea(a))
<1> DEFINE q == (n - 1) \div WordBytes
           r == (n - 1) % WordBytes
<1>1. /\ WordBytes \in Nat \ {0} /\ TOHOST_DATA_ADDR \in Nat /\ TOHOST_DATA_SIZE \in Nat
      /\ TOHOST_DATA_ADDR % WordBytes = 0 /\ TOHOST_DATA_SIZE % WordBytes = 0 /\ n - 1 \in Nat
  BY WordsAssumption
<1>2. q \in Nat /\ r \in Nat /\ n - 1 = WordBytes * q + r
  BY <1>1
<1>3. PICK p : p = WordBytes * q /\ p = q * WordBytes /\ p \in Nat /\ p <= n - 1
  <2>1. WordBytes * q \in Nat /\ WordBytes * q = q * WordBytes
    BY <1>1, <1>2
  <2>2. QED
    BY <1>1, <1>2, <2>1
<1>4. PICK b \in Nat : TOHOST_DATA_ADDR = WordBytes * b
  <2>1. TOHOST_DATA_ADDR \div WordBytes \in Nat
        /\ TOHOST_DATA_ADDR = WordBytes * (TOHOST_DATA_ADDR \div WordBytes)
                               + (TOHOST_DATA_ADDR % WordBytes)
    BY <1>1
  <2>2. TOHOST_DATA_ADDR = WordBytes * (TOHOST_DATA_ADDR \div WordBytes)
    BY <1>1, <2>1
  <2>3. QED
    BY <2>1, <2>2
<1>5. PICK w \in Nat : w = AreaWord(n) /\ w = TOHOST_DATA_ADDR + p
  BY <1>1, <1>3 DEF AreaWord
<1>6. w % WordBytes = 0
  <2>1. w = WordBytes * (b + q)
    BY <1>1, <1>2, <1>3, <1>4, <1>5
  <2>2. b + q \in Int
    BY <1>2
  <2>3. QED
    BY <1>1, <2>1, <2>2, Multiple
<1>7. p + WordBytes <= TOHOST_DATA_SIZE
  <2>1. p % WordBytes = 0
    BY <1>1, <1>2, <1>3, Multiple
  <2>2. p < TOHOST_DATA_SIZE
    BY <1>1, <1>3
  <2>3. QED
    BY <1>1, <1>3, <2>1, <2>2, NextMultiple
<1>8. WordOf(a) \in Aligned /\ WordOf(a) <= a /\ a < WordOf(a) + WordBytes
  BY WordIs
<1>9. ASSUME WordOf(a) = w PROVE InArea(a)
  BY <1>1, <1>3, <1>5, <1>7, <1>8, <1>9 DEF InArea
<1>10. QED
  BY <1>5, <1>6, <1>9 DEF Aligned

LEMMA PrintAreaIs ==
  ASSUME NEW m \in Maps
  PROVE  /\ PrintArea(m).map \in Maps /\ DOMAIN m \subseteq DOMAIN PrintArea(m).map
         /\ \A w \in DOMAIN m : PrintArea(m).map[w] = m[w]
         /\ \A w \in DOMAIN PrintArea(m).map \ DOMAIN m :
              /\ PrintArea(m).map[w] = Zero
              /\ \E n \in 1 .. TOHOST_DATA_SIZE : w = AreaWord(n)
         /\ TOHOST_DATA_SIZE # 0 => PrintArea(m).text # << >>
<1> DEFINE size == TOHOST_DATA_SIZE
           bytes == [n \in 1 .. size |-> Slot(m, AreaWord(n))[(n - 1) % WordBytes]]
           Ends == { n \in DOMAIN bytes : bytes[n] = 0 } \cup {size}
           end == Min(Ends)
           looked == { AreaWord(n) : n \in 1 .. end }
           map == [w \in DOMAIN m \cup looked |-> Slot(m, w)]
<1>1. PrintArea(m).map = map /\ PrintArea(m).text = SubSeq(bytes, 1, end)
  BY DEF PrintArea, AreaWord
<1>2. size \in Nat
  BY WordsAssumption
<1>3. end \in 0 .. size /\ (size # 0 => end # 0)
  <2>1. Ends \in SUBSET Nat /\ Ends # {} /\ \A n \in Ends : n <= size /\ (size # 0 => n # 0)
    BY <1>2
  <2> HIDE DEF Ends
  <2>2. PICK e : e = end /\ e \in Ends
    BY <2>1, MinIs
  <2>3. e \in Nat /\ e <= size /\ (size # 0 => e # 0)
    BY <2>1, <2>2
  <2> HIDE DEF size
  <2>4. e \in 0 .. size
    BY <1>2, <2>3
  <2> HIDE DEF end
  <2>5. QED
    BY <2>2, <2>3, <2>4
<1> HIDE DEF end
<1>4. \A w \in looked : w \in Aligned /\ \E n \in 1 .. size : w = AreaWord(n)
  BY <1>2, <1>3, AreaWordIs
<1>5. DOMAIN m \subseteq Aligned
  BY MapIs
<1>6. map \in Maps
  <2>1. map \in [DOMAIN m \cup looked -> Words]
    BY SlotIs
  <2>2. DOMAIN m \cup looked \subseteq Aligned
    BY <1>4, <1>5
  <2> HIDE DEF map, looked
  <2>3. QED
    BY <2>1, <2>2 DEF Maps
<1>7. size # 0 => SubSeq(bytes, 1, end) # << >>
  <2>1. SUFFICES ASSUME size # 0 PROVE SubSeq(bytes, 1, end) # << >>
    OBVIOUS
  <2>2. end \in 1 .. size
    BY <1>2, <1>3, <2>1
  <2>3. bytes \in Seq({ bytes[n] : n \in 1 .. size }) /\ Len(bytes) = size
    <3>1. \A n \in 1 .. size : bytes[n] \in { bytes[k] : k \in 1 .. size }
      OBVIOUS
    <3>2. DOMAIN bytes = 1 .. size /\ bytes = [n \in 1 .. size |-> bytes[n]]
      OBVIOUS
    <3> HIDE DEF bytes
    <3>3. QED
      BY <1>2, <3>1, <3>2, IsASeq
  <2> HIDE DEF bytes, size
  <2>4. Len(SubSeq(bytes, 1, end)) = end
    BY <1>2, <2>2, <2>3
  <2>5. end # 0
    BY <1>2, <2>2
  <2>6. Len(<< >>) = 0
    OBVIOUS
  <2>7. QED
    BY <2>4, <2>5, <2>6
<1>8. /\ DOMAIN map = DOMAIN m \cup looked
      /\ \A w \in DOMAIN m : map[w] = m[w]
      /\ \A w \in looked \ DOMAIN m : map[w] = Zero
  BY DEF Slot
<1> HIDE DEF map, bytes, looked
<1>9. QED
  BY <1>1, <1>4, <1>6, <1>7, <1>8

LEMMA PrintRight ==
  ASSUME NEW m \in Maps, NEW s, NEW segs, NEW p, NEW a \in Nat, WordRight(m, s, segs, p, a)
  PROVE  WordRight(PrintArea(m).map, s, segs, PrintArea(m).text, a)
<1>1. PICK new, text : new = PrintArea(m).map /\ text = PrintArea(m).text
  OBVIOUS
<1>2. /\ DOMAIN m \subseteq DOMAIN new /\ \A w \in DOMAIN m : new[w] = m[w]
      /\ \A w \in DOMAIN new \ DOMAIN m :
           new[w] = Zero /\ \E n \in 1 .. TOHOST_DATA_SIZE : w = AreaWord(n)
      /\ TOHOST_DATA_SIZE # 0 => text # << >>
  BY <1>1, PrintAreaIs
<1>3. InArea(a) => TOHOST_DATA_SIZE # 0
  BY WordsAssumption DEF InArea
<1>4. WordOf(a) \in DOMAIN new \ DOMAIN m => InArea(a)
  BY <1>2, AreaWordIs
<1>5. WordRight(new, s, segs, text, a)
  BY <1>2, <1>3, <1>4 DEF WordRight
<1>6. QED
  BY <1>1, <1>5

-----------------------------------------------------------------------------
(* The inductive invariant *)

Inputs == [r_valid : BOOLEAN, r_data : Words]
Beats == [read : Nat \cup {None}, write : [addr : Nat, data : Words] \cup {None}]
ModelSet == [name : {"vtor", "arcs"}, reset : BOOLEAN, mem_in : Inputs, mem_out : Beats,
             mmio_in : Inputs, mmio_out : Beats]

TypeInv ==
  /\ pc \in {"args", "usage", "elf", "models", "reset", "mem", "mmio", "clock", "done", "crash"}
  /\ args \in Seq(STRING) /\ left \in Nat /\ opts \in OptionSet
  /\ memory \in Maps /\ stores \in Seq(StoreSet)
  /\ \A n \in DOMAIN models : models[n] \in ModelSet
  /\ i \in Nat /\ bad \in Nat /\ finished \in BOOLEAN

(* What the options say is what the arguments read so far ask for. *)
ArgsInv ==
  /\ pc = "args" => i <= Len(args) /\ Parsed(opts, args, i)
  /\ pc = "usage" => Parsed(opts, args, Len(args))
  /\ pc \in {"elf", "models", "reset", "mem", "mmio", "clock"} => UsageIsRight
  /\ pc \in {"models", "reset", "mem", "mmio", "clock"} => opts.rest[1] \in DOMAIN Files
  /\ opts.all \/ opts.arcs \/ opts.vtor

OrderInv ==
  /\ pc \in {"args", "usage", "elf", "models"} => models = << >> /\ stores = << >>
  /\ pc \in {"reset", "mem", "mmio", "clock"} => 1 \in DOMAIN models
  /\ pc \notin {"done", "crash"} => bad < BadLimit

ExitInv == finished <=> Exited

MapInv ==
  pc \in {"models", "reset", "mem", "mmio", "clock"} =>
    \A a \in Nat : WordRight(memory, stores, Segments, printed, a)

Outcomes == ImageIsFile /\ SuccessIsRight /\ FailureIsRight /\ CrashIsRight

IInv == TypeInv /\ ArgsInv /\ OrderInv /\ ExitInv /\ MapInv /\ Outcomes

(* What depends on variables that a step does not change. *)
LEMMA Unchanged ==
  /\ UNCHANGED args => (UsageIsRight' <=> UsageIsRight)
  /\ UNCHANGED opts => Segments' = Segments
  /\ UNCHANGED stores => (Exited' <=> Exited)
<1>1. ASSUME UNCHANGED args PROVE UsageIsRight' <=> UsageIsRight
  BY <1>1 DEF UsageIsRight, IsTraceName
<1>2. ASSUME UNCHANGED opts PROVE Segments' = Segments
  BY <1>2 DEF Segments
<1>3. ASSUME UNCHANGED stores PROVE Exited' <=> Exited
  BY <1>3 DEF Exited, WasExit
<1>4. QED
  BY <1>1, <1>2, <1>3

LEMMA InitInv == Init => IInv
<1> SUFFICES ASSUME Init PROVE IInv
  OBVIOUS
<1>1. args \in Seq(STRING) /\ Len(args) \in Nat
  BY ArgumentsAssumption DEF Init
<1>2. EmptyMap \in Maps
  BY DEF EmptyMap, Maps
<1>3. TypeInv
  <2>1. Options \in OptionSet
    BY DEF Options, OptionSet
  <2>2. << >> \in Seq(StoreSet) /\ DOMAIN << >> = {}
    OBVIOUS
  <2>3. \A n \in DOMAIN models : models[n] \in ModelSet
    BY <2>2 DEF Init
  <2>4. QED
    BY <1>1, <1>2, <2>1, <2>2, <2>3 DEF Init, TypeInv
<1>4. Parsed(Options, args, 0)
  <2>1. Cardinality(Free(args, 0)) = 0 /\ ~NameAt(args, 1)
    BY FreeGrows, NotAtFirst
  <2>2. QED
    BY <2>1 DEF Parsed, Options
<1>5. ArgsInv
  BY <1>1, <1>4 DEF Init, ArgsInv, Options
<1>6. OrderInv
  BY BoundsAssumption DEF Init, OrderInv
<1>7. ExitInv
  BY DEF Init, ExitInv, Exited
<1>8. MapInv /\ Outcomes
  BY DEF Init, MapInv, Outcomes, ImageIsFile, SuccessIsRight, FailureIsRight, CrashIsRight
<1>9. QED
  BY <1>3, <1>5, <1>6, <1>7, <1>8 DEF IInv

LEMMA ProcessArgInv == IInv /\ ProcessArg => IInv'
<1> SUFFICES ASSUME IInv, ProcessArg PROVE IInv'
  OBVIOUS
<1> USE DEF IInv
<1>1. /\ pc = "args" /\ args \in Seq(STRING) /\ opts \in OptionSet /\ i \in Nat /\ Len(args) \in Nat
      /\ i <= Len(args) /\ Parsed(opts, args, i)
  BY DEF ProcessArg, TypeInv, ArgsInv
<1>2. UNCHANGED << args, left, memory, models, bad, finished, printed, result, stores >>
  BY DEF ProcessArg
<1>3. CASE i < Len(args)
  <2>1. opts' = Argument(opts, args[i + 1]) /\ i' = i + 1 /\ pc' = "args"
    BY <1>1, <1>3 DEF ProcessArg
  <2>2. opts' \in OptionSet /\ Parsed(opts', args, i + 1)
    BY <1>1, <1>3, <2>1, ArgumentParsed
  <2>3. TypeInv'
    BY <1>1, <1>2, <2>1, <2>2 DEF TypeInv
  <2>4. ArgsInv'
    BY <1>1, <1>2, <1>3, <2>1, <2>2 DEF ArgsInv, Parsed
  <2>5. QED
    BY <1>1, <1>2, <2>1, <2>3, <2>4, Unchanged DEF OrderInv, ExitInv, MapInv, Outcomes,
       ImageIsFile, SuccessIsRight, FailureIsRight, CrashIsRight
<1>4. CASE ~(i < Len(args))
  <2>1. opts' = opts /\ i' = 0 /\ pc' = "usage" /\ i = Len(args)
    BY <1>1, <1>4 DEF ProcessArg
  <2>2. TypeInv'
    BY <1>1, <1>2, <2>1 DEF TypeInv
  <2>3. ArgsInv'
    BY <1>1, <1>2, <2>1 DEF ArgsInv, Parsed
  <2>4. QED
    BY <1>1, <1>2, <2>1, <2>2, <2>3, Unchanged DEF OrderInv, ExitInv, MapInv, Outcomes,
       ImageIsFile, SuccessIsRight, FailureIsRight, CrashIsRight
<1>5. QED
  BY <1>3, <1>4

LEMMA CheckUsageInv == IInv /\ CheckUsage => IInv'
<1> SUFFICES ASSUME IInv, CheckUsage PROVE IInv'
  OBVIOUS
<1> USE DEF IInv
<1>1. /\ pc = "usage" /\ args \in Seq(STRING) /\ Parsed(opts, args, Len(args))
  BY DEF CheckUsage, TypeInv, ArgsInv
<1>2. UNCHANGED << args, left, opts, memory, models, traces, i, mismatches, bad, finished,
                   printed, stores >>
  BY DEF CheckUsage
<1>3. UsageIsRight <=> ~opts.name /\ Len(opts.rest) = 1
  BY <1>1, NamesAre DEF Parsed, Usable
<1>4. TypeInv' /\ ExitInv'
  BY <1>1, <1>2, Unchanged DEF TypeInv, ExitInv, CheckUsage, Return
<1>5. CASE opts.name \/ Len(opts.rest) # 1
  <2>1. pc' = "done" /\ result' = 1
    BY <1>5 DEF CheckUsage, Return
  <2>2. ~Loads'
    BY <1>2, <1>3, <1>5, Unchanged DEF Loads
  <2>3. Outcomes'
    BY <2>1, <2>2 DEF Outcomes, ImageIsFile, SuccessIsRight, FailureIsRight, CrashIsRight
  <2>4. ArgsInv' /\ OrderInv' /\ MapInv'
    BY <1>2, <2>1 DEF ArgsInv, OrderInv, MapInv
  <2>5. QED
    BY <1>4, <2>3, <2>4
<1>6. CASE ~(opts.name \/ Len(opts.rest) # 1)
  <2>1. pc' = "elf"
    BY <1>6 DEF CheckUsage
  <2>2. UsageIsRight'
    BY <1>2, <1>3, <1>6, Unchanged
  <2>3. Outcomes'
    BY <2>1 DEF Outcomes, ImageIsFile, SuccessIsRight, FailureIsRight, CrashIsRight
  <2>4. ArgsInv' /\ OrderInv' /\ MapInv'
    BY <1>1, <1>2, <2>1, <2>2 DEF ArgsInv, OrderInv, MapInv
  <2>5. QED
    BY <1>4, <2>3, <2>4
<1>7. QED
  BY <1>5, <1>6

LEMMA ReadElfInv == \A lost \in Lost : IInv /\ ReadElf(lost) => IInv'
<1> SUFFICES ASSUME NEW lost \in Lost, IInv, ReadElf(lost) PROVE IInv'
  OBVIOUS
<1> USE DEF IInv
<1> DEFINE name == opts.rest[1]
<1>1. /\ pc = "elf" /\ UsageIsRight /\ models = << >> /\ stores = << >> /\ bad < BadLimit
      /\ lost \in Nat
  BY ArgumentsAssumption DEF ReadElf, ArgsInv, OrderInv
<1>2. UNCHANGED << args, opts, models, traces, i, mismatches, bad, finished, printed, stores >>
  BY DEF ReadElf
<1>3. UsageIsRight' /\ Segments' = Segments /\ ExitInv'
  BY <1>1, <1>2, Unchanged DEF ExitInv
<1>4. CASE name \notin DOMAIN Files
  <2>1. pc' = "done" /\ result' = 1 /\ left' = left /\ memory' = memory
    BY <1>4 DEF ReadElf, Return
  <2>2. ~Loads'
    BY <1>2, <1>4 DEF Loads
  <2>3. TypeInv'
    BY <1>2, <2>1 DEF TypeInv
  <2>4. QED
    BY <1>2, <1>3, <2>1, <2>2, <2>3 DEF ArgsInv, OrderInv, MapInv, Outcomes, ImageIsFile,
       SuccessIsRight, FailureIsRight, CrashIsRight
<1>5. CASE name \in DOMAIN Files
  <2> DEFINE f == Files[name]
             n == Len(f.cells) - lost
             l == Load(SubSeq(f.cells, 1, n))
  <2>1. lost <= Len(f.cells) /\ left' = n
    BY <1>5 DEF ReadElf
  <2>2. IF ~l.ok THEN pc' = "done" /\ result' = 1 /\ memory' = memory
        ELSE IF \E k \in DOMAIN l.elf.segments : NoData(l.elf.segments[k])
        THEN pc' = "crash" /\ memory' = memory
        ELSE memory' = Merged(l.elf.segments) /\ pc' = "models"
    BY <1>5, <2>1 DEF ReadElf, Return
  <2>3. Len(f.cells) \in Nat
    BY <1>5, FilesAssumption DEF IsList
  <2>4. n \in 0 .. Len(f.cells)
    BY <1>1, <2>1, <2>3
  <2>5. IsMerged(f, n, l) /\ ImageOf(f.segments) \in Maps
    BY <1>5, <2>4, MergedIs
  <2>6. Loads' /\ Segments' = f.segments
    BY <1>2, <1>3, <1>5 DEF Loads, Segments
  <2>7. Files[opts'.rest[1]] = f /\ left' = n /\ left' \in Nat
    BY <1>2, <2>1, <2>3, <2>4
  <2> HIDE DEF f, l, n
  <2>8. CASE ~l.ok
    <3>1. pc' = "done" /\ result' = 1 /\ memory' = memory /\ models' = << >>
      BY <1>1, <1>2, <2>2, <2>8
    <3>2. f.invalid \/ n < Len(f.cells)
      BY <2>5, <2>8 DEF IsMerged
    <3>3. FailureIsRight'
      BY <2>7, <3>1, <3>2 DEF FailureIsRight, IsCut
    <3>4. TypeInv'
      BY <1>2, <2>7, <3>1 DEF TypeInv
    <3>5. QED
      BY <1>2, <1>3, <3>1, <3>3, <3>4 DEF ArgsInv, OrderInv, MapInv, Outcomes, ImageIsFile,
         SuccessIsRight, CrashIsRight
  <2>9. CASE l.ok /\ \E k \in DOMAIN l.elf.segments : NoData(l.elf.segments[k])
    <3>1. pc' = "crash" /\ memory' = memory
      BY <2>2, <2>9
    <3>2. \E k \in DOMAIN f.segments : f.segments[k].type = "LOAD" /\ f.segments[k].filesz > n
      BY <2>5, <2>9 DEF IsMerged
    <3>3. CrashIsRight'
      BY <2>6, <2>7, <3>1, <3>2 DEF CrashIsRight
    <3>4. TypeInv'
      BY <1>2, <2>7, <3>1 DEF TypeInv
    <3>5. QED
      BY <1>2, <1>3, <3>1, <3>3, <3>4 DEF ArgsInv, OrderInv, MapInv, Outcomes, ImageIsFile,
         SuccessIsRight, FailureIsRight
  <2>10. CASE l.ok /\ ~(\E k \in DOMAIN l.elf.segments : NoData(l.elf.segments[k]))
    <3>1. pc' = "models" /\ memory' = ImageOf(f.segments) /\ memory' \in Maps
      BY <2>2, <2>5, <2>10 DEF IsMerged
    <3>2. TypeInv'
      BY <1>2, <2>7, <3>1 DEF TypeInv
    <3>3. ASSUME NEW a \in Nat PROVE WordRight(memory', stores', Segments', printed', a)
      <4>1. At(stores', a) = {}
        BY <1>1, <1>2 DEF At
      <4>2. QED
        BY <2>6, <3>1, <4>1 DEF WordRight
    <3>4. ArgsInv'
      BY <1>2, <1>3, <1>5, <3>1 DEF ArgsInv
    <3>5. OrderInv'
      BY <1>1, <1>2, <3>1 DEF OrderInv
    <3>6. MapInv'
      BY <3>3 DEF MapInv
    <3>7. Outcomes'
      BY <2>6, <3>1 DEF Outcomes, ImageIsFile, SuccessIsRight, FailureIsRight, CrashIsRight
    <3>8. QED
      BY <1>3, <3>2, <3>4, <3>5, <3>6, <3>7
  <2>11. QED
    BY <2>8, <2>9, <2>10
<1>6. QED
  BY <1>4, <1>5

LEMMA ConstantsAre ==
  /\ Zero \in Words /\ AllOnes \in Words /\ NewInputs \in Inputs /\ NoBeats \in Beats
  /\ MemPins \subseteq Beats /\ MmioPins \subseteq Beats
  /\ NewModel("vtor") \in ModelSet /\ NewModel("arcs") \in ModelSet
<1>1. Zero \in Words /\ AllOnes \in Words
  BY WordsAssumption DEF Zero, AllOnes, Words, Bytes
<1>2. NewInputs \in Inputs /\ NoBeats \in Beats
  BY <1>1 DEF NewInputs, Inputs, NoBeats, Beats
<1>3. MemPins \subseteq Beats /\ MmioPins \subseteq Beats
  BY PinsAssumption DEF Beats
<1>4. NewModel("vtor") \in ModelSet /\ NewModel("arcs") \in ModelSet
  BY <1>2 DEF NewModel, ModelSet
<1>5. QED
  BY <1>1, <1>2, <1>3, <1>4

LEMMA MakeModelsInv == IInv /\ MakeModels => IInv'
<1> SUFFICES ASSUME IInv, MakeModels PROVE IInv'
  OBVIOUS
<1> USE DEF IInv
<1>1. /\ pc = "models" /\ UsageIsRight /\ opts.rest[1] \in DOMAIN Files /\ bad < BadLimit
      /\ opts.all \/ opts.arcs \/ opts.vtor
  BY DEF MakeModels, ArgsInv, OrderInv
<1>2. UNCHANGED << args, left, opts, memory, i, mismatches, bad, finished, printed, result, stores >>
  BY DEF MakeModels
<1>3. /\ opts.trace # None /\ opts.trace \notin Dotted /\ pc' = "crash"
      \/ pc' = "reset"
  BY DEF MakeModels
<1>4. 1 \in DOMAIN models' /\ \A n \in DOMAIN models' : models'[n] \in ModelSet
  <2>1. PICK v \in ModelSet, a \in ModelSet :
          models' = (IF opts.all \/ opts.vtor THEN << v >> ELSE << >>)
                    \o (IF opts.all \/ opts.arcs THEN << a >> ELSE << >>)
    BY ConstantsAre DEF MakeModels
  <2>2. PICK s, r : /\ s = (IF opts.all \/ opts.vtor THEN << v >> ELSE << >>)
                    /\ r = (IF opts.all \/ opts.arcs THEN << a >> ELSE << >>)
    OBVIOUS
  <2>3. /\ s \in Seq(ModelSet) /\ Len(s) = (IF opts.all \/ opts.vtor THEN 1 ELSE 0)
        /\ r \in Seq(ModelSet) /\ Len(r) = (IF opts.all \/ opts.arcs THEN 1 ELSE 0)
    BY <2>2
  <2>4. models' = s \o r
    BY <2>1, <2>2
  <2>5. models' \in Seq(ModelSet) /\ Len(models') = Len(s) + Len(r)
    BY <2>3, <2>4, ConcatProperties
  <2>6. Len(models') >= 1
    BY <1>1, <2>3, <2>5
  <2>7. QED
    BY <2>5, <2>6
<1>5. UsageIsRight' /\ Segments' = Segments /\ ExitInv'
  BY <1>1, <1>2, Unchanged DEF ExitInv
<1>6. TypeInv'
  BY <1>2, <1>3, <1>4 DEF TypeInv
<1>7. ArgsInv' /\ OrderInv' /\ MapInv'
  BY <1>1, <1>2, <1>3, <1>4, <1>5 DEF ArgsInv, OrderInv, MapInv
<1>8. Loads'
  BY <1>1, <1>2, <1>5 DEF Loads
<1>9. Outcomes'
  BY <1>2, <1>3, <1>8 DEF Outcomes, ImageIsFile, SuccessIsRight, FailureIsRight, CrashIsRight
<1>10. QED
  BY <1>5, <1>6, <1>7, <1>9

(* The pins of the models after a clock. *)
LEMMA ClockKeepsModels ==
  ASSUME NEW in, \A n \in DOMAIN in : in[n] \in ModelSet, NEW mem \in Beats, NEW mmio \in Beats,
         ClockTo(in, mem, mmio)
  PROVE  DOMAIN models' = DOMAIN in /\ \A n \in DOMAIN models' : models'[n] \in ModelSet
<1>1. models' = [n \in DOMAIN in |-> [in[n] EXCEPT !.mem_out = mem, !.mmio_out = mmio]]
  BY DEF ClockTo
<1>2. ASSUME NEW n \in DOMAIN in
      PROVE  [in[n] EXCEPT !.mem_out = mem, !.mmio_out = mmio] \in ModelSet
  BY DEF ModelSet
<1>3. QED
  BY <1>1, <1>2

LEMMA ResetInv == IInv /\ Reset => IInv'
<1> SUFFICES ASSUME IInv, Reset PROVE IInv'
  OBVIOUS
<1> USE DEF IInv
<1>1. /\ pc = "reset" /\ UsageIsRight /\ opts.rest[1] \in DOMAIN Files /\ bad < BadLimit
      /\ 1 \in DOMAIN models /\ \A n \in DOMAIN models : models[n] \in ModelSet
      /\ opts.all \/ opts.arcs \/ opts.vtor
  BY DEF Reset, TypeInv, ArgsInv, OrderInv
<1>2. UNCHANGED << args, left, opts, memory, bad, finished, printed, result, stores >>
  BY DEF Reset
<1>3. /\ pc' \in {"reset", "mem"} /\ i' \in Nat /\ DOMAIN models' = DOMAIN models
      /\ \A n \in DOMAIN models' : models'[n] \in ModelSet
  <2>1. CASE i < WarmupCycles
    <3>1. PICK mem \in MemPins, mmio \in MmioPins :
            ClockTo(set_reset_all(i < ResetCycles), IF i < ResetCycles THEN NoBeats ELSE mem,
                    IF i < ResetCycles THEN NoBeats ELSE mmio)
      BY <2>1 DEF Reset
    <3> DEFINE asserted == i < ResetCycles
               mem1 == IF i < ResetCycles THEN NoBeats ELSE mem
               mmio1 == IF i < ResetCycles THEN NoBeats ELSE mmio
    <3>2. /\ asserted \in BOOLEAN /\ mem1 \in Beats /\ mmio1 \in Beats
          /\ ClockTo(set_reset_all(asserted), mem1, mmio1)
      <4>1. mem \in Beats /\ mmio \in Beats /\ NoBeats \in Beats
        BY ConstantsAre
      <4>2. QED
        BY <3>1, <4>1
    <3> HIDE DEF asserted, mem1, mmio1
    <3>3. /\ DOMAIN set_reset_all(asserted) = DOMAIN models
          /\ \A n \in DOMAIN models : set_reset_all(asserted)[n] \in ModelSet
      BY <1>1, <3>2 DEF set_reset_all, set_reset, ModelSet
    <3>4. DOMAIN models' = DOMAIN models /\ \A n \in DOMAIN models' : models'[n] \in ModelSet
      BY <3>2, <3>3, ClockKeepsModels
    <3>5. pc' = "reset" /\ i' = i + 1
      BY <1>1, <2>1 DEF Reset
    <3>6. QED
      BY <3>4, <3>5 DEF TypeInv
  <2>2. CASE ~(i < WarmupCycles)
    BY <1>1, <2>2 DEF Reset
  <2>3. QED
    BY <2>1, <2>2
<1>4. UsageIsRight' /\ Segments' = Segments /\ ExitInv'
  BY <1>1, <1>2, Unchanged DEF ExitInv
<1>5. TypeInv'
  BY <1>2, <1>3 DEF TypeInv
<1>6. ArgsInv' /\ OrderInv' /\ MapInv'
  BY <1>1, <1>2, <1>3, <1>4 DEF ArgsInv, OrderInv, MapInv
<1>7. Outcomes'
  BY <1>3 DEF Outcomes, ImageIsFile, SuccessIsRight, FailureIsRight, CrashIsRight
<1>8. QED
  BY <1>4, <1>5, <1>6, <1>7

LEMMA ClockInv == IInv /\ Clock => IInv'
<1> SUFFICES ASSUME IInv, Clock PROVE IInv'
  OBVIOUS
<1> USE DEF IInv
<1>1. /\ pc = "clock" /\ UsageIsRight /\ opts.rest[1] \in DOMAIN Files /\ bad < BadLimit
      /\ 1 \in DOMAIN models /\ \A n \in DOMAIN models : models[n] \in ModelSet
      /\ (opts.all \/ opts.arcs \/ opts.vtor) /\ bad \in Nat /\ i \in Nat /\ BadLimit \in Nat
      /\ finished \in BOOLEAN
  BY BoundsAssumption DEF Clock, TypeInv, ArgsInv, OrderInv
<1>2. UNCHANGED << args, left, opts, memory, finished, printed, stores >>
  BY DEF Clock
<1>3. DOMAIN models' = DOMAIN models /\ \A n \in DOMAIN models' : models'[n] \in ModelSet
  <2>1. PICK mem \in MemPins, mmio \in MmioPins : ClockTo(models, mem, mmio)
    BY DEF Clock
  <2>2. mem \in Beats /\ mmio \in Beats
    BY ConstantsAre
  <2>3. QED
    BY <1>1, <2>1, <2>2, ClockKeepsModels
<1>4. /\ bad' = IF ~finished /\ mismatches' > 0 THEN bad + 1 ELSE bad
      /\ IF finished THEN pc' = "done" /\ result' = 0 /\ i' = i
         ELSE IF mismatches' > 0 /\ bad' >= BadLimit THEN pc' = "done" /\ result' = 1 /\ i' = i
         ELSE pc' = "mem" /\ i' = i + 1
  BY DEF Clock, Return
<1>5. UsageIsRight' /\ Segments' = Segments /\ (Exited' <=> Exited) /\ ExitInv'
  BY <1>1, <1>2, Unchanged DEF ExitInv
<1>6. Loads' /\ bad' \in Nat /\ i' \in Nat
  BY <1>1, <1>2, <1>4, <1>5 DEF Loads
<1>7. pc' \in {"done", "mem"}
  BY <1>4
<1>8. TypeInv'
  BY <1>2, <1>3, <1>6, <1>7 DEF TypeInv
<1>9. ArgsInv' /\ MapInv'
  BY <1>1, <1>2, <1>5, <1>7 DEF ArgsInv, MapInv
<1>10. OrderInv'
  BY <1>1, <1>3, <1>4, <1>7 DEF OrderInv
<1>11. CASE finished
  <2>1. Exited' /\ pc' = "done" /\ result' = 0 /\ models' # << >>
    BY <1>1, <1>3, <1>4, <1>5, <1>11 DEF ExitInv
  <2>2. Outcomes'
    BY <1>6, <2>1 DEF Outcomes, ImageIsFile, SuccessIsRight, FailureIsRight, CrashIsRight
  <2>3. QED
    BY <1>5, <1>8, <1>9, <1>10, <2>2
<1>12. CASE ~finished
  <2>1. CASE mismatches' > 0 /\ bad' >= BadLimit
    <3>1. ~Exited' /\ pc' = "done" /\ result' = 1 /\ mismatches' > 0 /\ bad' = BadLimit
      BY <1>1, <1>4, <1>5, <1>12, <2>1 DEF ExitInv
    <3>2. Outcomes'
      BY <1>6, <3>1 DEF Outcomes, ImageIsFile, SuccessIsRight, FailureIsRight, CrashIsRight
    <3>3. QED
      BY <1>5, <1>8, <1>9, <1>10, <3>2
  <2>2. CASE ~(mismatches' > 0 /\ bad' >= BadLimit)
    <3>1. pc' = "mem"
      BY <1>4, <1>12, <2>2
    <3>2. Outcomes'
      BY <3>1 DEF Outcomes, ImageIsFile, SuccessIsRight, FailureIsRight, CrashIsRight
    <3>3. QED
      BY <1>5, <1>8, <1>9, <1>10, <3>2
  <2>3. QED
    BY <2>1, <2>2
<1>13. QED
  BY <1>11, <1>12

LEMMA LoopEndsInv == IInv /\ LoopEnds => IInv'
<1> SUFFICES ASSUME IInv, LoopEnds PROVE IInv'
  OBVIOUS
<1> USE DEF IInv
<1>1. /\ pc = "mem" /\ i = MaxCycles /\ UsageIsRight /\ opts.rest[1] \in DOMAIN Files
      /\ bad < BadLimit /\ 1 \in DOMAIN models
  BY DEF LoopEnds, ArgsInv, OrderInv
<1>2. /\ UNCHANGED << args, left, opts, memory, models, traces, i, mismatches, bad, finished,
                       printed, stores >>
      /\ pc' = "done" /\ result' = 0
  BY DEF LoopEnds, Return
<1>3. UsageIsRight' /\ Segments' = Segments /\ (Exited' <=> Exited) /\ ExitInv'
  BY <1>1, <1>2, Unchanged DEF ExitInv
<1>4. TypeInv' /\ ArgsInv' /\ OrderInv' /\ MapInv'
  BY <1>2, <1>3 DEF TypeInv, ArgsInv, OrderInv, MapInv
<1>5. Loads' /\ models' # << >> /\ i' = MaxCycles /\ bad' < BadLimit
  BY <1>1, <1>2, <1>3 DEF Loads
<1>6. Outcomes'
  BY <1>2, <1>5 DEF Outcomes, ImageIsFile, SuccessIsRight, FailureIsRight, CrashIsRight
<1>7. QED
  BY <1>3, <1>4, <1>6

ExitStore == [port |-> "mmio", addr |-> TOHOST_ADDR, data |-> Number(1)]

LEMMA ExitGrows ==
  ASSUME stores \in Seq(StoreSet), NEW new \in StoreSet, stores' = Append(stores, new)
  PROVE  Exited' <=> Exited \/ new = ExitStore
<1> DEFINE n == Len(stores) + 1
<1>1. /\ DOMAIN stores = 1 .. Len(stores) /\ Len(stores) \in Nat /\ DOMAIN stores' = 1 .. n
      /\ stores'[n] = new /\ \A k \in 1 .. Len(stores) : stores'[k] = stores[k]
  BY AppendProperties, LenProperties
<1>2. Exited <=> \E k \in 1 .. Len(stores) : stores[k] = ExitStore
  BY <1>1 DEF Exited, WasExit, ExitStore
<1>3. Exited' <=> \E k \in 1 .. n : stores'[k] = ExitStore
  BY <1>1 DEF Exited, WasExit, ExitStore
<1>4. QED
  BY <1>1, <1>2, <1>3

(* A step of the loop that leaves the options alone keeps what they ask for. *)
LEMMA PortKeeps ==
  ASSUME IInv, pc \in {"mem", "mmio"}, pc' \in {"mmio", "clock"},
         UNCHANGED << args, left, opts, i, mismatches, bad >>,
         DOMAIN models' = DOMAIN models
  PROVE  ArgsInv' /\ OrderInv' /\ Outcomes' /\ Segments' = Segments
<1>1. UsageIsRight' /\ Segments' = Segments
  BY Unchanged DEF IInv, ArgsInv
<1>2. ArgsInv'
  BY <1>1 DEF IInv, ArgsInv
<1>3. OrderInv'
  BY DEF IInv, OrderInv
<1>4. Outcomes'
  BY DEF Outcomes, ImageIsFile, SuccessIsRight, FailureIsRight, CrashIsRight
<1>5. QED
  BY <1>1, <1>2, <1>3, <1>4

LEMMA BeatIs ==
  ASSUME NEW out \in Beats
  PROVE  /\ out.read \in Nat \cup {None}
         /\ out.write # None => out.write \in [addr : Nat, data : Words]
                                /\ out.write.addr \in Nat /\ out.write.data \in Words
  BY DEF Beats

LEMMA MemPortInv == IInv /\ MemPort => IInv'
<1> SUFFICES ASSUME IInv, MemPort PROVE IInv'
  OBVIOUS
<1> DEFINE out == models[1].mem_out
           in == Answer(out.read, MemRead(out.read))
<1>1. /\ pc = "mem" /\ 1 \in DOMAIN models /\ \A n \in DOMAIN models : models[n] \in ModelSet
      /\ memory \in Maps /\ stores \in Seq(StoreSet)
      /\ \A a \in Nat : WordRight(memory, stores, Segments, printed, a)
      /\ (finished <=> Exited) /\ finished \in BOOLEAN
  BY DEF IInv, MemPort, TypeInv, OrderInv, MapInv, ExitInv
<1>2. /\ UNCHANGED << args, left, opts, traces, i, mismatches, bad, finished, printed, result >>
      /\ pc' = "clock" \/ pc' = "mmio"
      /\ models' = set_mem_all(in)
      /\ IF out.write = None THEN UNCHANGED << memory, stores >>
         ELSE /\ memory' = Store(memory, out.write.addr, out.write.data)
              /\ Served("mem", out.write)
  BY DEF MemPort, get_mem
<1>3. out \in Beats
  BY <1>1 DEF ModelSet
<1>4. in \in Inputs
  <2>1. MemRead(out.read) \in Words
    BY <1>1, MapIs, WordsAssumption DEF MemRead
  <2>2. QED
    BY <2>1, ConstantsAre DEF Answer, Inputs
<1> HIDE DEF in, out
<1>5. DOMAIN models' = DOMAIN models /\ \A n \in DOMAIN models' : models'[n] \in ModelSet
  BY <1>1, <1>2, <1>4 DEF set_mem_all, set_mem, ModelSet
<1>6. ArgsInv' /\ OrderInv' /\ Outcomes' /\ Segments' = Segments
  BY <1>1, <1>2, <1>5, PortKeeps
<1>7. CASE out.write = None
  <2>1. UNCHANGED << memory, stores >>
    BY <1>2, <1>7
  <2>2. TypeInv'
    BY <1>2, <1>5, <2>1 DEF IInv, TypeInv
  <2>3. ExitInv'
    BY <1>1, <1>2, <2>1, Unchanged DEF ExitInv
  <2>4. MapInv'
    BY <1>1, <1>2, <1>6, <2>1 DEF MapInv
  <2>5. QED
    BY <1>6, <2>2, <2>3, <2>4 DEF IInv
<1>8. CASE out.write # None
  <2>1. PICK a \in Nat, d \in Words : a = out.write.addr /\ d = out.write.data
    BY <1>3, <1>8, BeatIs
  <2>2. PICK new \in StoreSet : new = [port |-> "mem", addr |-> a, data |-> d]
    BY DEF StoreSet
  <2>3. memory' = Store(memory, new.addr, new.data) /\ stores' = Append(stores, new)
    BY <1>2, <1>8, <2>1, <2>2 DEF Served
  <2>4. memory' \in Maps /\ stores' \in Seq(StoreSet)
    BY <1>1, <2>2, <2>3, StoreKeepsMap, AppendProperties DEF StoreSet
  <2>5. TypeInv'
    BY <1>2, <1>5, <2>4 DEF IInv, TypeInv
  <2>6. new # ExitStore
    BY <2>2 DEF ExitStore
  <2>7. ExitInv'
    BY <1>1, <1>2, <2>3, <2>6, ExitGrows DEF ExitInv
  <2>8. ASSUME NEW b \in Nat PROVE WordRight(memory', stores', Segments, printed, b)
    BY <1>1, <2>3, StoreRight
  <2>9. MapInv'
    BY <1>2, <1>6, <2>8 DEF MapInv
  <2>10. QED
    BY <1>6, <2>5, <2>7, <2>9 DEF IInv
<1>9. QED
  BY <1>7, <1>8

LEMMA MmioPortInv == IInv /\ MmioPort => IInv'
<1> SUFFICES ASSUME IInv, MmioPort PROVE IInv'
  OBVIOUS
<1> DEFINE out == models[1].mmio_out
           in == Answer(out.read, MmioRead(out.read))
<1>1. /\ pc = "mmio" /\ 1 \in DOMAIN models /\ \A n \in DOMAIN models : models[n] \in ModelSet
      /\ memory \in Maps /\ stores \in Seq(StoreSet)
      /\ \A a \in Nat : WordRight(memory, stores, Segments, printed, a)
      /\ (finished <=> Exited) /\ finished \in BOOLEAN
  BY DEF IInv, MmioPort, TypeInv, OrderInv, MapInv, ExitInv
<1>2. /\ UNCHANGED << args, left, opts, traces, i, mismatches, bad, result >>
      /\ pc' = "clock"
      /\ models' = set_mmio_all(in)
      /\ IF out.write = None THEN UNCHANGED << memory, finished, printed, stores >>
         ELSE MmioWrite(out.write.addr, out.write.data) /\ Served("mmio", out.write)
  BY DEF MmioPort, get_mmio
<1>3. out \in Beats
  BY <1>1 DEF ModelSet
<1>4. in \in Inputs
  <2>1. MmioRead(out.read) \in Words
    BY ConstantsAre DEF MmioRead
  <2>2. QED
    BY <2>1, ConstantsAre DEF Answer, Inputs
<1> HIDE DEF in, out
<1>5. DOMAIN models' = DOMAIN models /\ \A n \in DOMAIN models' : models'[n] \in ModelSet
  BY <1>1, <1>2, <1>4 DEF set_mmio_all, set_mmio, ModelSet
<1>6. ArgsInv' /\ OrderInv' /\ Outcomes' /\ Segments' = Segments
  BY <1>1, <1>2, <1>5, PortKeeps
<1>7. CASE out.write = None
  <2>1. UNCHANGED << memory, finished, printed, stores >>
    BY <1>2, <1>7
  <2>2. TypeInv'
    BY <1>2, <1>5, <2>1 DEF IInv, TypeInv
  <2>3. ExitInv'
    BY <1>1, <1>2, <2>1, Unchanged DEF ExitInv
  <2>4. MapInv'
    BY <1>1, <1>2, <1>6, <2>1 DEF MapInv
  <2>5. QED
    BY <1>6, <2>2, <2>3, <2>4 DEF IInv
<1>8. CASE out.write # None
  <2>1. PICK a \in Nat, d \in Words : a = out.write.addr /\ d = out.write.data
    BY <1>3, <1>8, BeatIs
  <2>2. PICK new \in StoreSet : new = [port |-> "mmio", addr |-> a, data |-> d]
    BY DEF StoreSet
  <2>3. PICK stored \in Maps : stored = Store(memory, a, d) /\ stored = Store(memory, new.addr, new.data)
    BY <1>1, <2>2, StoreKeepsMap
  <2>4. /\ stores' = Append(stores, new) /\ stores' \in Seq(StoreSet)
        /\ finished' = (finished \/ IsExit(a, d))
        /\ \/ memory' = stored /\ printed' = printed
           \/ memory' = PrintArea(stored).map /\ printed' = PrintArea(stored).text
    <3>1. MmioWrite(a, d) /\ Served("mmio", out.write)
      BY <1>2, <1>8, <2>1
    <3>2. stores' = Append(stores, new)
      BY <2>1, <2>2, <3>1 DEF Served
    <3>3. Append(stores, new) \in Seq(StoreSet)
      BY <1>1, AppendProperties
    <3>4. /\ finished' = (finished \/ IsExit(a, d))
          /\ \/ memory' = stored /\ printed' = printed
             \/ memory' = PrintArea(stored).map /\ printed' = PrintArea(stored).text
      BY <2>3, <3>1 DEF MmioWrite
    <3>5. QED
      BY <3>2, <3>3, <3>4
  <2>5. memory' \in Maps
    BY <2>3, <2>4, PrintAreaIs
  <2>6. finished' \in BOOLEAN
    BY <2>4, <1>1 DEF IsExit
  <2>7. TypeInv'
    BY <1>2, <1>5, <2>4, <2>5, <2>6 DEF IInv, TypeInv
  <2>8. new = ExitStore <=> IsExit(a, d)
    <3>1. new.addr = a /\ new.data = d
      BY <2>2
    <3>2. ExitStore.addr = TOHOST_ADDR /\ ExitStore.data = Number(1)
      BY DEF ExitStore
    <3>3. a = TOHOST_ADDR /\ d = Number(1) => new = ExitStore
      BY <2>2 DEF ExitStore
    <3>4. QED
      BY <3>1, <3>2, <3>3 DEF IsExit
  <2>9. ExitInv'
    <3>1. Exited' <=> Exited \/ new = ExitStore
      BY <1>1, <2>4, ExitGrows
    <3>2. QED
      BY <1>1, <2>4, <2>8, <3>1 DEF ExitInv
  <2>10. ASSUME NEW b \in Nat PROVE WordRight(memory', stores', Segments, printed', b)
    <3>1. WordRight(stored, stores', Segments, printed, b)
      BY <1>1, <2>3, <2>4, StoreRight
    <3>2. WordRight(PrintArea(stored).map, stores', Segments, PrintArea(stored).text, b)
      BY <3>1, PrintRight
    <3>3. QED
      BY <2>4, <3>1, <3>2
  <2>11. MapInv'
    BY <1>2, <1>6, <2>10 DEF MapInv
  <2>12. QED
    BY <1>6, <2>7, <2>9, <2>11 DEF IInv
<1>9. QED
  BY <1>7, <1>8

LEMMA StutterInv == IInv /\ UNCHANGED vars => IInv'
<1> SUFFICES ASSUME IInv, UNCHANGED vars PROVE IInv'
  OBVIOUS
<1>1. UNCHANGED << pc, args, left, opts, memory, models, traces, i, mismatches, bad, finished,
                   printed, result, stores >>
  BY DEF vars
<1>2. (UsageIsRight' <=> UsageIsRight) /\ Segments' = Segments /\ (Exited' <=> Exited)
  BY <1>1, Unchanged
<1>3. (Loads' <=> Loads) /\ (IsCut' <=> IsCut)
  BY <1>1, <1>2 DEF Loads, IsCut
<1>4. Outcomes'
  BY <1>1, <1>2, <1>3 DEF IInv, Outcomes, ImageIsFile, SuccessIsRight, FailureIsRight, CrashIsRight
<1>5. TypeInv' /\ ArgsInv' /\ OrderInv' /\ ExitInv' /\ MapInv'
  BY <1>1, <1>2 DEF IInv, TypeInv, ArgsInv, OrderInv, ExitInv, MapInv
<1>6. QED
  BY <1>4, <1>5 DEF IInv

LEMMA NextInv == IInv /\ [Next]_vars => IInv'
<1> SUFFICES ASSUME IInv, [Next]_vars PROVE IInv'
  OBVIOUS
<1>1. CASE ProcessArg
  BY <1>1, ProcessArgInv
<1>2. CASE CheckUsage
  BY <1>2, CheckUsageInv
<1>3. CASE \E lost \in Lost : ReadElf(lost)
  BY <1>3, ReadElfInv
<1>4. CASE MakeModels
  BY <1>4, MakeModelsInv
<1>5. CASE Reset
  BY <1>5, ResetInv
<1>6. CASE MemPort
  BY <1>6, MemPortInv
<1>7. CASE MmioPort
  BY <1>7, MmioPortInv
<1>8. CASE Clock
  BY <1>8, ClockInv
<1>9. CASE LoopEnds
  BY <1>9, LoopEndsInv
<1>10. CASE Ended
  BY <1>10, StutterInv DEF Ended
<1>11. CASE UNCHANGED vars
  BY <1>11, StutterInv
<1>12. QED
  BY <1>1, <1>2, <1>3, <1>4, <1>5, <1>6, <1>7, <1>8, <1>9, <1>10, <1>11 DEF Next

(* The invariant of main: the options agree with the arguments read, the map with the      *)
(* image and the stores, `finished' with the stores, and an outcome with what led to it.   *)
THEOREM TestbenchInvariant == Spec => []IInv
<1>1. Init => IInv
  BY InitInv
<1>2. IInv /\ [Next]_vars => IInv'
  BY NextInv
<1>3. QED
  BY <1>1, <1>2, PTL DEF Spec

(* The merging loop after elf.load: what it leaves in the map is the image the file was    *)
(* made from, however the segments overlap and however much of the file's end is missing.  *)
THEOREM ImageHolds == Spec => []ImageIsFile
<1>1. IInv => ImageIsFile
  BY DEF IInv, Outcomes
<1>2. QED
  BY <1>1, TestbenchInvariant, PTL

(* main returns 0 only at the program's exit or at the end of all iterations with fewer    *)
(* than BadLimit bad cycles; 1 only for a wrong command line, a missing, cut or invalid    *)
(* file, or models that disagreed BadLimit times before the program's exit; and it dies    *)
(* only of a trace file name without a dot, or of a loadable segment that claims more than *)
(* there is of its file.                                                                   *)
THEOREM OutcomeHolds == Spec => []OutcomeIsRight
<1>1. IInv => OutcomeIsRight
  BY DEF IInv, Outcomes, OutcomeIsRight
<1>2. QED
  BY <1>1, TestbenchInvariant, PTL

LEMMA MemAnsweredIs == IInv /\ MemPort => MemAnswered
<1> SUFFICES ASSUME IInv, MemPort PROVE MemAnswered
  OBVIOUS
<1> DEFINE read == models[1].mem_out.read
           in == Answer(read, MemRead(read))
<1>1. /\ pc = "mem" /\ 1 \in DOMAIN models /\ \A n \in DOMAIN models : models[n] \in ModelSet
      /\ \A a \in Nat : WordRight(memory, stores, Segments, printed, a)
  BY DEF IInv, MemPort, TypeInv, OrderInv, MapInv
<1>2. models' = set_mem_all(in)
  BY DEF MemPort, get_mem
<1>3. read \in Nat \cup {None}
  <2>1. models[1].mem_out \in Beats
    BY <1>1 DEF ModelSet
  <2>2. QED
    BY <2>1, BeatIs
<1>4. /\ in.r_valid = (read # None)
      /\ read # None => in.r_data = MemRead(read)
  BY DEF Answer, NewInputs
<1>5. ASSUME read # None PROVE MemRead(read) \in Expected(read)
  <2>1. read \in Nat /\ WordRight(memory, stores, Segments, printed, read)
    BY <1>1, <1>3, <1>5
  <2>2. StoredAt(read) = At(stores, read)
    BY DEF StoredAt, At
  <2> HIDE DEF read
  <2>3. QED
    BY <2>1, <2>2 DEF WordRight, Expected, MemRead
<1> HIDE DEF in
<1>6. \A n \in DOMAIN models' : models'[n].mem_in = in
  BY <1>1, <1>2 DEF set_mem_all, set_mem, ModelSet
<1>7. QED
  BY <1>4, <1>5, <1>6 DEF MemAnswered

LEMMA MmioAnsweredIs == IInv /\ MmioPort => MmioAnswered
<1> SUFFICES ASSUME IInv, MmioPort PROVE MmioAnswered
  OBVIOUS
<1> DEFINE read == models[1].mmio_out.read
           in == Answer(read, MmioRead(read))
<1>1. /\ pc = "mmio" /\ 1 \in DOMAIN models /\ \A n \in DOMAIN models : models[n] \in ModelSet
  BY DEF IInv, MmioPort, TypeInv, OrderInv
<1>2. models' = set_mmio_all(in)
  BY DEF MmioPort, get_mmio
<1>3. None # FROMHOST_ADDR
  BY PinsAssumption, WordsAssumption
<1>4. /\ in.r_valid = (read # None)
      /\ in.r_data = IF read = FROMHOST_ADDR THEN AllOnes ELSE Zero
  BY <1>3 DEF Answer, NewInputs, MmioRead
<1> HIDE DEF in
<1>5. \A n \in DOMAIN models' : models'[n].mmio_in = in
  BY <1>1, <1>2 DEF set_mmio_all, set_mmio, ModelSet
<1>6. QED
  BY <1>4, <1>5 DEF MmioAnswered

LEMMA AnsweredIs == IInv /\ [Next]_vars => [Answered]_vars
<1> SUFFICES ASSUME IInv, Next PROVE Answered
  OBVIOUS
<1>1. CASE MemPort
  BY <1>1, MemAnsweredIs DEF Answered, MemPort
<1>2. CASE MmioPort
  BY <1>2, MmioAnsweredIs DEF Answered, MmioPort
<1>3. CASE ~MemPort /\ ~MmioPort
  <2>1. ASSUME NEW lost \in Lost, ReadElf(lost) PROVE pc = "elf"
    BY <2>1 DEF ReadElf
  <2>2. pc \in {"args", "usage", "elf", "models", "reset", "clock", "done", "crash"}
        \/ (pc = "mem" /\ pc' = "done")
    BY <1>3, <2>1 DEF Next, ProcessArg, CheckUsage, MakeModels, Reset, Clock, LoopEnds, Return, Ended
  <2>3. QED
    BY <2>2 DEF Answered
<1>4. QED
  BY <1>1, <1>2, <1>3

(* A read on the memory port is answered with what either port stored last in that word,   *)
(* with the image, or with the fill, and one on the MMIO port independently of the map;    *)
(* all models are given the answer.                                                        *)
THEOREM PortsHold == Spec => PortsShareMemory
<1>1. IInv /\ [Next]_vars => [Answered]_vars
  BY AnsweredIs
<1>2. QED
  BY <1>1, TestbenchInvariant, PTL DEF Spec, PortsShareMemory

=============================================================================
