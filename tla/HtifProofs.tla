----------------------------- MODULE HtifProofs -----------------------------
(* Proofs about Htif, for every alphabet, size of the area and program. *)
EXTENDS Htif, SequenceTheorems, WellFoundedInduction, TLAPS

-----------------------------------------------------------------------------
(* Numbers *)

(* A set of natural numbers that is not empty has a least element. *)
LEMMA LeastElement ==
  ASSUME NEW S \in SUBSET Nat, S # {}
  PROVE  \E n \in S : \A m \in S : n <= m
<1>1. PICK n \in S : \A m \in S : ~(<< m, n >> \in OpToRel(<, Nat))
  BY WFMin, NatLessThanWellFounded
<1>2. \A m \in S : ~(m < n)
  BY <1>1 DEF OpToRel
<1>3. QED
  BY <1>2

Least(S) == CHOOSE n \in S : \A m \in S : n <= m

LEMMA LeastIs ==
  ASSUME NEW S \in SUBSET Nat, S # {}
  PROVE  Least(S) \in S /\ \A m \in S : Least(S) <= m
  BY LeastElement DEF Least

(* A multiple leaves no remainder. *)
LEMMA Multiple ==
  ASSUME NEW w \in Nat \ {0}, NEW j \in Int
  PROVE  (w * j) % w = 0
<1> DEFINE x == w * j
<1>1. x \in Int /\ x % w \in 0 .. (w - 1) /\ x = w * (x \div w) + (x % w) /\ x \div w \in Int
  OBVIOUS
<1>2. PICK d \in Int : d = j - (x \div w)
  BY <1>1
<1>3. w * d = x % w
  BY <1>1, <1>2
<1>4. ~(d >= 1) /\ ~(d <= -1)
  BY <1>1, <1>3
<1>5. QED
  BY <1>1, <1>3, <1>4

(* Between two multiples there is room for a step. *)
LEMMA NextMultiple ==
  ASSUME NEW w \in Nat \ {0}, NEW a \in Nat, NEW b \in Nat, a % w = 0, b % w = 0, a < b
  PROVE  a + w <= b /\ (a + w) % w = 0
<1>1. PICK i \in Int : a = w * i
  BY a = w * (a \div w) + (a % w)
<1>2. PICK j \in Int : b = w * j
  BY b = w * (b \div w) + (b % w)
<1>3. i < j
  BY <1>1, <1>2
<1>4. w * (i + 1) <= w * j
  BY <1>3
<1>5. a + w = w * (i + 1)
  BY <1>1
<1>6. (w * (i + 1)) % w = 0
  BY Multiple
<1>7. a + w <= b
  BY <1>2, <1>4, <1>5
<1>8. QED
  BY <1>5, <1>6, <1>7

-----------------------------------------------------------------------------
(* The invariant *)

TypeInv ==
  /\ pc \in {"main", "copy", "exit", "halt"}
  /\ buf \in [Area -> Chars] /\ buflen \in 0 .. (Size - 1)
  /\ put \in Seq(Chars) /\ flushed \in Seq(Chars)
  /\ src \in Seq(Chars) /\ len \in Nat /\ k \in Nat
  /\ tohost_data \in [Area -> Chars] /\ before \in [Area -> Chars]
  /\ code \in Codes \cup {0}

(* The first k bytes of the area have been copied, word by word. *)
CopyInv ==
  /\ k % Word = 0 /\ k <= Size /\ k <= RoundedUp(len)
  /\ k # 0 => Size <= Len(src) /\ len <= Len(src)
  /\ pc = "copy" => Size <= Len(src) /\ len <= Len(src)
  /\ \A n \in Area : tohost_data[n] = IF n <= k THEN src[n] ELSE before[n]

(* What the host prints for a write that has been copied. *)
ShownInv ==
  /\ pc = "copy" => shown = << >>
  /\ pc # "copy" /\ shown # << >> => shown = PrintedArea /\ ~MoreToCopy

ExitInv ==
  /\ finished => pc = "halt" /\ code = 0
  /\ pc = "halt" /\ code = 0 => finished

IInv == TypeInv /\ PutcharKeepsAll /\ CopyInv /\ ShownInv /\ ExitInv

-----------------------------------------------------------------------------
(* Words and sequences *)

LEMMA RoundedUpIs ==
  ASSUME NEW n \in Nat
  PROVE  RoundedUp(n) \in Nat /\ RoundedUp(n) % Word = 0 /\ n <= RoundedUp(n)
<1> DEFINE x == n + Word - 1
<1>1. x \in Nat /\ x \div Word \in Nat /\ x % Word \in 0 .. (Word - 1)
      /\ x = Word * (x \div Word) + (x % Word)
  BY SizeAssumption
<1>2. RoundedUp(n) = Word * (x \div Word)
  BY <1>1, SizeAssumption DEF RoundedUp
<1>3. (Word * (x \div Word)) % Word = 0 /\ Word * (x \div Word) \in Nat
  <2>1. PICK q \in Nat : q = x \div Word
    BY <1>1
  <2>2. (Word * q) % Word = 0
    BY Multiple, SizeAssumption
  <2>3. Word * q \in Nat
    BY SizeAssumption
  <2>4. QED
    BY <2>1, <2>2, <2>3
<1>4. n <= Word * (x \div Word)
  BY <1>1, SizeAssumption
<1>5. QED
  BY <1>2, <1>3, <1>4

LEMMA AreaPrefix ==
  ASSUME NEW s \in [Area -> Chars], NEW m \in 0 .. Size
  PROVE  /\ SubSeq(s, 1, m) \in Seq(Chars) /\ Len(SubSeq(s, 1, m)) = m
         /\ \A n \in 1 .. m : SubSeq(s, 1, m)[n] = s[n]
<1>1. \A n \in 1 .. m : s[n] \in Chars
  BY SizeAssumption DEF Area
<1>2. QED
  BY <1>1, SubSeqProperties, SizeAssumption

LEMMA OneMore ==
  ASSUME NEW s \in [Area -> Chars], NEW m \in 0 .. (Size - 1), NEW c \in Chars
  PROVE  SubSeq([s EXCEPT ![m + 1] = c], 1, m + 1) = Append(SubSeq(s, 1, m), c)
<1> DEFINE t == [s EXCEPT ![m + 1] = c]
<1>1. t \in [Area -> Chars] /\ m + 1 \in 0 .. Size /\ m \in 0 .. Size
  BY SizeAssumption DEF Area
<1>2. /\ SubSeq(t, 1, m + 1) \in Seq(Chars) /\ Len(SubSeq(t, 1, m + 1)) = m + 1
      /\ \A n \in 1 .. (m + 1) : SubSeq(t, 1, m + 1)[n] = t[n]
  BY <1>1, AreaPrefix
<1>3. /\ Append(SubSeq(s, 1, m), c) \in Seq(Chars) /\ Len(Append(SubSeq(s, 1, m), c)) = m + 1
      /\ \A n \in 1 .. (m + 1) :
           Append(SubSeq(s, 1, m), c)[n] = IF n = m + 1 THEN c ELSE s[n]
  BY <1>1, AreaPrefix, AppendProperties
<1>4. \A n \in 1 .. (m + 1) : t[n] = IF n = m + 1 THEN c ELSE s[n]
  BY SizeAssumption DEF Area
<1>5. QED
  BY <1>2, <1>3, <1>4, SeqEqual

LEMMA AppendToConcat ==
  ASSUME NEW f \in Seq(Chars), NEW s \in Seq(Chars), NEW c \in Chars
  PROVE  Append(f \o s, c) = f \o Append(s, c)
<1>1. << c >> \in Seq(Chars) /\ f \o s \in Seq(Chars)
  BY ConcatProperties
<1>2. Append(f \o s, c) = (f \o s) \o << c >> /\ Append(s, c) = s \o << c >>
  BY <1>1, AppendIsConcat
<1>3. (f \o s) \o << c >> = f \o (s \o << c >>)
  BY <1>1, ConcatAssociative
<1>4. QED
  BY <1>2, <1>3

-----------------------------------------------------------------------------
(* What the host prints *)

NulsIn(s) == { n \in DOMAIN s : s[n] = NUL }

(* The area is printed up to its first NUL. *)
LEMMA PrintedAreaIs ==
  ASSUME tohost_data \in [Area -> Chars]
  PROVE  \E p \in Area :
           /\ PrintedArea = SubSeq(tohost_data, 1, p)
           /\ \A n \in Area : n < p => tohost_data[n] # NUL
           /\ tohost_data[p] = NUL \/ p = Size
<1> DEFINE nuls == { n \in Area : tohost_data[n] = NUL }
<1>1. nuls \in SUBSET Nat /\ nuls \subseteq Area
  BY SizeAssumption DEF Area
<1>2. PrintedArea = SubSeq(tohost_data, 1, IF nuls = {} THEN Size ELSE Least(nuls))
  BY DEF PrintedArea, Least
<1>3. CASE nuls = {}
  BY <1>2, <1>3, SizeAssumption DEF Area
<1>4. CASE nuls # {}
  <2>1. PICK p : p = Least(nuls) /\ p \in nuls /\ \A m \in nuls : p <= m
    BY <1>1, <1>4, LeastIs
  <2>2. \A n \in Area : n < p => tohost_data[n] # NUL
    BY <1>1, <2>1
  <2>3. QED
    BY <1>2, <1>4, <2>1, <2>2
<1>5. QED
  BY <1>3, <1>4

LEMMA PrintedIsData ==
  ASSUME TypeInv, CopyInv, ~MoreToCopy
  PROVE  /\ IsPrefix(UpToNul(Data), PrintedArea)
         /\ \A n \in DOMAIN PrintedArea :
              n > RoundedUp(len) => PrintedArea[n] = before[n]
<1>0. PICK d \in 0 .. Size : d = IF len < Size THEN len ELSE Size
  BY SizeAssumption DEF TypeInv
<1>1. PICK p \in Area :
        /\ PrintedArea = SubSeq(tohost_data, 1, p)
        /\ \A n \in Area : n < p => tohost_data[n] # NUL
        /\ tohost_data[p] = NUL \/ p = Size
  BY PrintedAreaIs DEF TypeInv
<1>2. /\ p \in 1 .. Size /\ p \in 0 .. Size
      /\ PrintedArea \in Seq(Chars) /\ Len(PrintedArea) = p
      /\ \A n \in 1 .. p : PrintedArea[n] = tohost_data[n]
  BY <1>1, AreaPrefix, SizeAssumption DEF TypeInv, Area
<1>3. d \in 0 .. Size /\ d <= k /\ (d > 0 => d <= Len(src))
  BY <1>0, SizeAssumption DEF TypeInv, CopyInv, MoreToCopy
<1>4. \A n \in 1 .. d : src[n] \in Chars /\ tohost_data[n] = src[n]
  <2>1. ASSUME NEW n \in 1 .. d PROVE n \in 1 .. Len(src) /\ n \in Area /\ n <= k
    BY <1>3, SizeAssumption DEF TypeInv, Area
  <2>2. QED
    BY <2>1, ElementOfSeq DEF TypeInv, CopyInv
<1>5. /\ Data \in Seq(Chars) /\ Len(Data) = d /\ DOMAIN Data = 1 .. d
      /\ \A n \in 1 .. d : Data[n] = tohost_data[n]
  <2>1. Data = SubSeq(src, 1, d)
    BY <1>0 DEF Data
  <2>2. Data \in Seq(Chars) /\ Len(Data) = d /\ \A n \in 1 .. d : Data[n] = src[n]
    <3>1. 1 \in Int /\ d \in Int /\ (\A n \in 1 .. d : src[n] \in Chars)
          /\ (IF 1 <= d THEN d - 1 + 1 ELSE 0) = d
      BY <1>4, SizeAssumption
    <3>2. QED
      BY <2>1, <3>1, SubSeqProperties
  <2>3. QED
    BY <1>4, <2>2, LenProperties
<1>6. IsPrefix(UpToNul(Data), PrintedArea)
  <2>1. NulsIn(Data) \in SUBSET Nat /\ NulsIn(Data) \subseteq 1 .. d
    BY <1>5 DEF NulsIn
  <2>2. UpToNul(Data) = IF NulsIn(Data) = {} THEN Data
                        ELSE SubSeq(Data, 1, Least(NulsIn(Data)))
    BY DEF UpToNul, NulsIn, Least
  <2>3. \E e \in 0 .. d : /\ UpToNul(Data) \in Seq(Chars) /\ Len(UpToNul(Data)) = e /\ e <= p
                         /\ \A n \in 1 .. e : UpToNul(Data)[n] = tohost_data[n]
    <3>1. CASE NulsIn(Data) = {}
      <4>1. d <= p
        <5>1. d < p \/ d = p \/ (p \in 1 .. d /\ p < d)
          BY <1>2, <1>3
        <5>2. p \in 1 .. d /\ p < d => tohost_data[p] # NUL /\ p # Size
          BY <1>3, <1>5, <3>1 DEF NulsIn
        <5>3. QED
          BY <1>1, <1>2, <1>3, <5>1, <5>2
      <4>2. QED
        BY <1>3, <1>5, <2>2, <3>1, <4>1
    <3>2. CASE NulsIn(Data) # {}
      <4>1. PICK e : /\ e = Least(NulsIn(Data)) /\ e \in 1 .. d /\ Data[e] = NUL
                     /\ \A m \in NulsIn(Data) : e <= m
        <5>1. Least(NulsIn(Data)) \in NulsIn(Data)
              /\ \A m \in NulsIn(Data) : Least(NulsIn(Data)) <= m
          BY <2>1, <3>2, LeastIs
        <5>2. QED
          BY <1>5, <5>1 DEF NulsIn
      <4>2. e \in Area /\ tohost_data[e] = NUL
        <5>1. Data[e] = tohost_data[e]
          BY <1>5, <4>1
        <5>2. e \in Area
          BY <4>1, SizeAssumption DEF Area
        <5>3. QED
          BY <4>1, <5>1, <5>2
      <4>3. e <= p
        <5>1. CASE p < e
          <6>1. p \in 1 .. d /\ p # Size
            BY <1>2, <4>1, <5>1, SizeAssumption
          <6>2. p \in NulsIn(Data)
            BY <1>1, <1>5, <6>1 DEF NulsIn
          <6>3. QED
            BY <4>1, <6>2
        <5>2. QED
          BY <1>2, <4>1, <5>1, SizeAssumption
      <4>4. /\ SubSeq(Data, 1, e) \in Seq(Chars) /\ Len(SubSeq(Data, 1, e)) = e
            /\ \A n \in 1 .. e : SubSeq(Data, 1, e)[n] = Data[n]
        <5>1. \A n \in 1 .. e : Data[n] \in Chars
          BY <1>5, <4>1, ElementOfSeq
        <5>2. QED
          BY <4>1, <5>1, SubSeqProperties
      <4>5. \A n \in 1 .. e : Data[n] = tohost_data[n]
        BY <1>5, <4>1
      <4>6. QED
        <5>1. UpToNul(Data) = SubSeq(Data, 1, e)
          BY <2>2, <3>2, <4>1
        <5>2. \A n \in 1 .. e : UpToNul(Data)[n] = tohost_data[n]
          BY <4>4, <4>5, <5>1
        <5>3. e \in 0 .. d
          BY <4>1
        <5>4. QED
          BY <4>3, <4>4, <5>1, <5>2, <5>3
    <3>3. QED
      BY <3>1, <3>2
  <2>4. PICK e \in 0 .. d : /\ UpToNul(Data) \in Seq(Chars) /\ Len(UpToNul(Data)) = e /\ e <= p
                           /\ \A n \in 1 .. e : UpToNul(Data)[n] = tohost_data[n]
    BY <2>3
  <2>5. SubSeq(UpToNul(Data), 1, e) = SubSeq(PrintedArea, 1, e)
    <3>1. \A n \in 1 .. e : UpToNul(Data)[n] \in Chars /\ PrintedArea[n] \in Chars
      BY <1>2, <2>4, ElementOfSeq
    <3>2. /\ SubSeq(UpToNul(Data), 1, e) \in Seq(Chars)
          /\ Len(SubSeq(UpToNul(Data), 1, e)) = e
          /\ \A n \in 1 .. e : SubSeq(UpToNul(Data), 1, e)[n] = tohost_data[n]
      BY <2>4, <3>1, SubSeqProperties
    <3>3. /\ SubSeq(PrintedArea, 1, e) \in Seq(Chars)
          /\ Len(SubSeq(PrintedArea, 1, e)) = e
          /\ \A n \in 1 .. e : SubSeq(PrintedArea, 1, e)[n] = tohost_data[n]
      BY <1>2, <2>4, <3>1, SubSeqProperties
    <3>4. QED
      BY <3>2, <3>3, SeqEqual
  <2>6. QED
    BY <1>2, <2>4, <2>5 DEF IsPrefix
<1>7. ASSUME NEW n \in DOMAIN PrintedArea, n > RoundedUp(len)
      PROVE  PrintedArea[n] = before[n]
  <2>1. n \in 1 .. p /\ n \in Area
    <3>1. DOMAIN PrintedArea = 1 .. p
      BY <1>2, LenProperties
    <3>2. QED
      BY <1>2, <1>7, <3>1, SizeAssumption DEF Area
  <2>2. k < n
    BY <1>7, <2>1, RoundedUpIs DEF TypeInv, CopyInv
  <2>3. QED
    BY <1>2, <2>1, <2>2 DEF TypeInv, CopyInv
<1>8. QED
  BY <1>6, <1>7

-----------------------------------------------------------------------------
(* The steps *)

LEMMA AreaIsSeq ==
  ASSUME NEW s \in [Area -> Chars]
  PROVE  s \in Seq(Chars) /\ Len(s) = Size
<1>1. Size \in Nat /\ DOMAIN s = 1 .. Size /\ s \in [1 .. Size -> Chars]
  BY SizeAssumption DEF Area
<1>2. s \in Seq(Chars)
  BY <1>1, SeqDef
<1>3. QED
  BY <1>1, <1>2, LenProperties

LEMMA InitInv == Init => IInv
<1> SUFFICES ASSUME Init PROVE IInv
  OBVIOUS
<1>1. TypeInv
  BY SizeAssumption, CharsAssumption DEF Init, TypeInv
<1>2. PutcharKeepsAll
  <2>1. SubSeq(buf, 1, 0) = << >>
    BY <1>1, AreaIsSeq, SubSeqEmpty DEF TypeInv
  <2>2. QED
    BY <2>1 DEF Init, PutcharKeepsAll
<1>3. CopyInv
  <2>1. RoundedUp(len) \in Nat /\ 0 % Word = 0 /\ Size \in Nat
    BY RoundedUpIs, SizeAssumption DEF Init
  <2>2. QED
    BY <2>1 DEF Init, CopyInv, Area
<1>4. ShownInv /\ ExitInv
  BY DEF Init, ShownInv, ExitInv
<1>5. QED
  BY <1>1, <1>2, <1>3, <1>4 DEF IInv

(* A system call starts a copy with nothing copied. *)
LEMMA SyscallStarts ==
  ASSUME TypeInv, NEW s \in Seq(Chars), NEW n \in Nat, Size <= Len(s), n <= Len(s),
         Syscall(s, n), UNCHANGED tohost_data
  PROVE  CopyInv' /\ ShownInv'
<1>1. RoundedUp(n) \in Nat /\ RoundedUp(len') = RoundedUp(n)
  BY RoundedUpIs DEF Syscall, RoundedUp
<1>2. CopyInv'
  BY <1>1, SizeAssumption DEF Syscall, CopyInv, Area, RoundedUp
<1>3. ShownInv'
  BY DEF Syscall, ShownInv
<1>4. QED
  BY <1>2, <1>3

LEMMA PutcharInv ==
  ASSUME IInv, NEW c \in Chars, Putchar(c)
  PROVE  IInv'
<1>1. /\ TypeInv /\ buflen \in Nat /\ buflen + 1 \in 0 .. Size /\ buflen + 1 \in Nat
      /\ buflen + 1 \in Area
  BY SizeAssumption DEF IInv, TypeInv, Area
<1>2. buf' = [buf EXCEPT ![buflen + 1] = c] /\ buf' \in [Area -> Chars]
  BY <1>1 DEF Putchar, TypeInv
<1>3. buf' \in Seq(Chars) /\ Len(buf') = Size
  BY <1>2, AreaIsSeq
<1>4. SubSeq(buf', 1, buflen + 1) = Append(SubSeq(buf, 1, buflen), c)
  BY <1>1, <1>2, OneMore DEF TypeInv
<1>5. SubSeq(buf, 1, buflen) \in Seq(Chars) /\ SubSeq(buf', 1, buflen + 1) \in Seq(Chars)
  <2>1. buflen \in 0 .. Size /\ buf \in [Area -> Chars]
    BY <1>1, SizeAssumption DEF TypeInv
  <2>2. QED
    BY <1>1, <1>2, <2>1, AreaPrefix
<1>6. put' = flushed \o SubSeq(buf', 1, buflen + 1)
  <2>1. put' = Append(flushed \o SubSeq(buf, 1, buflen), c)
    BY DEF IInv, PutcharKeepsAll, Putchar
  <2>2. flushed \in Seq(Chars)
    BY <1>1 DEF TypeInv
  <2>3. QED
    BY <1>4, <1>5, <2>1, <2>2, AppendToConcat
<1>7. put' \in Seq(Chars) /\ flushed \o SubSeq(buf', 1, buflen + 1) \in Seq(Chars)
  BY <1>5, <1>6, ConcatProperties DEF IInv, TypeInv
<1>8. CASE c = NL \/ buflen + 1 = Size
  <2>1. /\ Syscall(buf', buflen + 1) /\ buflen' = 0
        /\ flushed' = flushed \o SubSeq(buf', 1, buflen + 1)
        /\ UNCHANGED << code, tohost_data, finished >>
    BY <1>8 DEF Putchar
  <2>2. CopyInv' /\ ShownInv'
    BY <1>1, <1>3, <2>1, SyscallStarts
  <2>3. TypeInv'
    BY <1>1, <1>2, <1>3, <1>7, <2>1, SizeAssumption DEF TypeInv, Syscall
  <2>4. PutcharKeepsAll'
    <3>1. SubSeq(buf', 1, 0) = << >>
      BY <1>3, SubSeqEmpty
    <3>2. flushed' \o << >> = flushed'
      BY <1>7, <2>1, ConcatEmptySeq
    <3>3. QED
      BY <1>6, <2>1, <3>1, <3>2 DEF PutcharKeepsAll
  <2>5. ExitInv'
    BY <2>1 DEF IInv, ExitInv, Syscall, Putchar
  <2>6. QED
    BY <2>2, <2>3, <2>4, <2>5 DEF IInv
<1>9. CASE ~(c = NL \/ buflen + 1 = Size)
  <2>1. /\ buflen' = buflen + 1
        /\ UNCHANGED << src, len, k, before, shown, pc, flushed, code, tohost_data, finished >>
    BY <1>9 DEF Putchar
  <2>2. TypeInv'
    BY <1>1, <1>2, <1>7, <1>9, <2>1, SizeAssumption DEF TypeInv
  <2>3. PutcharKeepsAll'
    BY <1>6, <2>1 DEF PutcharKeepsAll
  <2>4. CopyInv' /\ ShownInv' /\ ExitInv'
    BY <2>1 DEF IInv, CopyInv, ShownInv, ExitInv, MoreToCopy, PrintedArea, RoundedUp
  <2>5. QED
    BY <2>2, <2>3, <2>4 DEF IInv
<1>10. QED
  BY <1>8, <1>9

LEMMA PrintstrInv ==
  ASSUME IInv, NEW s \in Strings, NEW junk \in Chars, Printstr(s, junk)
  PROVE  IInv'
<1> DEFINE rest == [n \in Area |-> junk]
           bytes == s \o << NUL >> \o rest
<1>1. s \in Seq(Chars) /\ Len(s) \in Nat
  <2>1. s \in Seq(Chars \ {NUL})
    BY CharsAssumption
  <2>2. QED
    BY <2>1, SeqMonotonic, LenProperties
<1>2. << NUL >> \in Seq(Chars) /\ Len(<< NUL >>) = 1
  BY CharsAssumption
<1>3. rest \in Seq(Chars) /\ Len(rest) = Size
  BY AreaIsSeq
<1>4. bytes \in Seq(Chars) /\ Len(bytes) = Len(s) + 1 + Size
  <2>1. s \o << NUL >> \in Seq(Chars) /\ Len(s \o << NUL >>) = Len(s) + 1
    BY <1>1, <1>2, ConcatProperties
  <2>2. QED
    BY <1>3, <2>1, ConcatProperties
<1>5. /\ Syscall(bytes, Len(s))
      /\ UNCHANGED << buf, buflen, code, tohost_data, finished, put, flushed >>
  BY DEF Printstr
<1>6. CopyInv' /\ ShownInv'
  <2>1. Size <= Len(bytes) /\ Len(s) <= Len(bytes)
    BY <1>1, <1>4, SizeAssumption
  <2>2. QED
    BY <1>1, <1>4, <1>5, <2>1, SyscallStarts DEF IInv
<1>7. TypeInv'
  BY <1>1, <1>4, <1>5 DEF IInv, TypeInv, Syscall
<1>8. PutcharKeepsAll' /\ ExitInv'
  BY <1>5 DEF IInv, PutcharKeepsAll, ExitInv, Printstr, Syscall
<1>9. QED
  BY <1>6, <1>7, <1>8 DEF IInv

LEMMA CopyWordInv ==
  ASSUME IInv, CopyWord
  PROVE  IInv'
<1>1. k < len /\ k < Size /\ k' = k + Word
  BY DEF CopyWord, MoreToCopy
<1>2. k + Word <= Size /\ (k + Word) % Word = 0
  BY <1>1, NextMultiple, SizeAssumption DEF IInv, TypeInv, CopyInv
<1>3. k + Word <= RoundedUp(len)
  <2>1. /\ RoundedUp(len) \in Nat /\ RoundedUp(len) % Word = 0 /\ len <= RoundedUp(len)
        /\ len \in Nat /\ k \in Nat /\ k % Word = 0
    BY RoundedUpIs DEF IInv, TypeInv, CopyInv
  <2>2. k < RoundedUp(len)
    BY <1>1, <2>1
  <2>3. QED
    BY <2>1, <2>2, NextMultiple, SizeAssumption
<1>4. Size <= Len(src) /\ len <= Len(src)
  BY DEF IInv, CopyInv, CopyWord
<1>5. \A n \in Area : n \in Int /\ n \in 1 .. Len(src) /\ src[n] \in Chars
  <2>1. ASSUME NEW n \in Area PROVE n \in Int /\ n \in 1 .. Len(src)
    BY <1>4, LenProperties, SizeAssumption DEF Area, IInv, TypeInv
  <2>2. QED
    BY <2>1, ElementOfSeq DEF IInv, TypeInv
<1>6. TypeInv'
  BY <1>1, <1>5, SizeAssumption DEF IInv, TypeInv, CopyWord
<1>7. CopyInv'
  <2>1. ASSUME NEW n \in Area
        PROVE  tohost_data'[n] = IF n <= k + Word THEN src[n] ELSE before[n]
    <3>1. tohost_data'[n] = IF k < n /\ n <= k + Word THEN src[n] ELSE tohost_data[n]
      BY DEF CopyWord
    <3>2. tohost_data[n] = IF n <= k THEN src[n] ELSE before[n]
      BY DEF IInv, CopyInv
    <3>3. k \in Nat /\ n \in Int /\ Word \in Nat
      BY <1>5, SizeAssumption DEF IInv, TypeInv
    <3>4. QED
      BY <3>1, <3>2, <3>3
  <2>2. RoundedUp(len)' = RoundedUp(len) /\ UNCHANGED << len, src, before, pc >>
    BY DEF CopyWord, RoundedUp
  <2>3. QED
    BY <1>1, <1>2, <1>3, <1>4, <2>1, <2>2 DEF CopyInv
<1>8. PutcharKeepsAll' /\ ShownInv' /\ ExitInv'
  BY DEF IInv, PutcharKeepsAll, ShownInv, ExitInv, CopyWord
<1>9. QED
  BY <1>6, <1>7, <1>8 DEF IInv

LEMMA StoreTohostInv ==
  ASSUME IInv, StoreTohost
  PROVE  IInv'
<1>1. shown' = PrintedArea /\ (finished' <=> finished)
  <2>1. SYS_write # 1
    BY RequestAssumption
  <2>2. finished' <=> (finished \/ SYS_write = 1)
    BY DEF StoreTohost, HostWrite
  <2>3. shown' = PrintedArea
    BY DEF StoreTohost, HostWrite
  <2>4. QED
    BY <2>1, <2>2, <2>3
<1>2. TypeInv' /\ PutcharKeepsAll' /\ ExitInv'
  BY <1>1 DEF IInv, TypeInv, PutcharKeepsAll, ExitInv, StoreTohost
<1>3. CopyInv'
  BY DEF IInv, CopyInv, StoreTohost, RoundedUp
<1>4. ShownInv'
  BY <1>1 DEF ShownInv, StoreTohost, PrintedArea, MoreToCopy
<1>5. QED
  BY <1>2, <1>3, <1>4 DEF IInv

LEMMA MainReturnsInv ==
  ASSUME IInv, MainReturns
  PROVE  IInv'
<1>1. TypeInv' /\ PutcharKeepsAll' /\ ExitInv'
  BY DEF IInv, TypeInv, PutcharKeepsAll, ExitInv, MainReturns
<1>2. CopyInv' /\ ShownInv'
  BY DEF IInv, CopyInv, ShownInv, MainReturns, RoundedUp, MoreToCopy, PrintedArea
<1>3. QED
  BY <1>1, <1>2 DEF IInv

(* An exit value is odd, so it is no request, and it is 1 for the code zero only. *)
LEMMA ExitValueIs ==
  ASSUME NEW c \in Codes \cup {0}
  PROVE  ExitValue(c) # SYS_write /\ (ExitValue(c) = 1 <=> c = 0)
<1>1. PICK r \in Int : r = UintptrRange /\ r > 0 /\ r % 2 = 0 /\ 2 * IntRange < r
  BY RangesAssumption
<1>2. c \in Int /\ -IntRange <= c /\ c < IntRange
  BY RangesAssumption, CodesAssumption
<1>3. PICK h \in Int : r = 2 * h
  BY <1>1
<1>4. PICK x \in Int : x = (c * 2) % r /\ x \in 0 .. (r - 1) /\ \E q \in Int : c * 2 = r * q + x
  BY <1>1, <1>2
<1>5. PICK q \in Int : c * 2 = r * q + x
  BY <1>4
<1>6. PICK j \in Int : j = h * q
  BY <1>3
<1>7. r * q = 2 * j
  BY <1>3, <1>6
<1>8. x % 2 = 0
  BY <1>2, <1>4, <1>5, <1>7
<1>9. ExitValue(c) = x + 1
  BY <1>1, <1>4 DEF ExitValue
<1>10. x + 1 # SYS_write
  <2>1. PICK w \in Nat : w = SYS_write /\ w % 2 = 0
    BY RequestAssumption
  <2>2. PICK y \in Int : y = x /\ y % 2 = 0
    BY <1>8
  <2>3. y + 1 # w
    BY <2>1, <2>2
  <2>4. QED
    BY <2>1, <2>2, <2>3
<1>11. x = 0 <=> c = 0
  <2>1. CASE x = 0
    <3>1. c * 2 = r * q
      BY <1>4, <1>5, <2>1
    <3>2. ~(q >= 1) /\ ~(q <= -1)
      BY <1>1, <1>2, <3>1, RangesAssumption
    <3>3. q = 0
      BY <3>2
    <3>4. r * q = 0
      BY <1>1, <3>3
    <3>5. c = 0
      BY <1>2, <3>1, <3>4
    <3>6. QED
      BY <2>1, <3>5
  <2>2. CASE c = 0
    BY <1>1, <1>4, <2>2
  <2>3. QED
    BY <2>1, <2>2
<1>12. QED
  BY <1>4, <1>9, <1>10, <1>11

LEMMA ExitStepInv ==
  ASSUME IInv, Exit
  PROVE  IInv'
<1>1. shown' = shown /\ (finished' <=> finished \/ code = 0)
  BY ExitValueIs DEF Exit, HostWrite, IInv, TypeInv
<1>2. TypeInv' /\ PutcharKeepsAll'
  BY DEF IInv, TypeInv, PutcharKeepsAll, Exit
<1>3. ExitInv'
  BY <1>1 DEF IInv, ExitInv, Exit
<1>4. CopyInv' /\ ShownInv'
  BY <1>1 DEF IInv, CopyInv, ShownInv, Exit, RoundedUp, MoreToCopy, PrintedArea
<1>5. QED
  BY <1>2, <1>3, <1>4 DEF IInv

LEMMA StutterInv ==
  ASSUME IInv, UNCHANGED vars
  PROVE  IInv'
  BY DEF vars, IInv, TypeInv, PutcharKeepsAll, CopyInv, ShownInv, ExitInv, RoundedUp,
         MoreToCopy, PrintedArea

(* The invariant: the copy is word by word and never runs off the area, the area is *)
(* the copied bytes before what was there, and what is shown is the printed area.   *)
THEOREM HtifInvariant == Spec => []IInv
<1>1. IInv /\ [Next]_vars => IInv'
  BY PutcharInv, PrintstrInv, CopyWordInv, StoreTohostInv, MainReturnsInv, ExitStepInv,
     StutterInv DEF Next, Halted
<1>2. QED
  BY InitInv, <1>1, PTL DEF Spec

(* putchar loses, repeats and reorders none of the characters it is given, for every *)
(* size of its buffer.                                                               *)
THEOREM PutcharKeeps == Spec => []PutcharKeepsAll
<1>1. IInv => PutcharKeepsAll
  BY DEF IInv
<1>2. QED
  BY HtifInvariant, <1>1, PTL

(* When a write has been served the host has printed its data, cut off at the size of *)
(* the area and up to a NUL in it, for every word size that divides the area.         *)
THEOREM WritesShow == Spec => []WritesAreShown
<1>1. IInv => WritesAreShown
  BY PrintedIsData DEF IInv, ShownInv, WritesAreShown
<1>2. QED
  BY HtifInvariant, <1>1, PTL

(* What the host prints beyond the words of the write was in the area before it. *)
THEOREM TailIsEarlier == Spec => []TailIsOfEarlierWrites
<1>1. IInv => TailIsOfEarlierWrites
  BY PrintedIsData DEF IInv, ShownInv, TailIsOfEarlierWrites
<1>2. QED
  BY HtifInvariant, <1>1, PTL

(* The testbench sees success exactly for the return code zero, whatever the widths *)
(* of int and uintptr_t, as long as twice an int fits.                              *)
THEOREM SuccessIsZero == Spec => []SuccessMeansZero
<1>1. IInv => SuccessMeansZero
  BY ExitValueIs DEF IInv, ExitInv, TypeInv, SuccessMeansZero
<1>2. QED
  BY HtifInvariant, <1>1, PTL

=============================================================================
