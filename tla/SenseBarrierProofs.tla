------------------------- MODULE SenseBarrierProofs -------------------------
(* Proofs about SenseBarrier, for any number of harts and rounds and for both *)
(* orders of the last thread's stores.                                        *)
EXTENDS SenseBarrier, FiniteSetTheorems, TLAPS

Arrived(k) == { t \in Threads : entered[t] = k + 1 }

(* Where a thread may be while the sense has been published k times. *)
PlaceOK(t, k) ==
  /\ pc[t] = "out" => entered[t] = k /\ left[t] = k
  /\ pc[t] = "wait" => entered[t] \in {k, k + 1} /\ left[t] = entered[t] - 1
  /\ pc[t] \in {"last", "sense_left"} => entered[t] = k + 1 /\ left[t] = k
  /\ pc[t] = "count_left" => entered[t] = k /\ left[t] = k - 1

CountOK(k) ==
  /\ (\A t \in Threads : pc[t] # "count_left") => count <= Cardinality(Arrived(k))
  /\ \A t \in Threads : pc[t] \in {"last", "count_left"} => count >= ncores
  /\ \A t \in Threads : pc[t] = "sense_left" => count = 0

Alone ==
  \A t, u \in Threads : t # u /\ pc[t] = "count_left" => pc[u] \in {"out", "wait"}

Round(k) ==
  /\ sense = k % 2
  /\ \A t \in Threads : threadsense[t] = entered[t] % 2 /\ PlaceOK(t, k)
  /\ CountOK(k)

Inv == TypeOK /\ OneLast /\ Alone /\ \E k \in Nat : Round(k)

LEMMA NcoresPositive == ncores \in Nat /\ ncores > 0
  BY ThreadsAssumption, FS_CardinalityType, FS_EmptySet DEF ncores

LEMMA ArrivedFinite ==
  \A k \in Nat : IsFiniteSet(Arrived(k)) /\ Cardinality(Arrived(k)) \in Nat
  BY ThreadsAssumption, FS_Subset, FS_CardinalityType DEF Arrived

LEMMA InitInv == Init => Inv
<1> SUFFICES ASSUME Init PROVE Inv
  OBVIOUS
<1> USE DEF Init
<1>1. TypeOK /\ OneLast /\ Alone
  BY DEF TypeOK, OneLast, Alone
<1>2. Round(0)
  BY ArrivedFinite DEF Round, PlaceOK, CountOK
<1>3. QED
  BY <1>1, <1>2 DEF Inv

LEMMA LastSeesAll ==
  ASSUME Inv, NEW k \in Nat, Round(k), NEW t \in Threads, Arrive(t), count = ncores - 1
  PROVE  \A u \in Threads : u # t => pc[u] = "wait" /\ entered[u] = k + 1
<1>1. /\ pc[t] = "out" /\ entered[t] = k /\ ncores \in Nat /\ ncores > 0
      /\ IsFiniteSet(Threads) /\ ncores = Cardinality(Threads)
  BY NcoresPositive, ThreadsAssumption DEF Arrive, Round, PlaceOK, ncores
<1>2. \A u \in Threads : pc[u] # "count_left"
  BY <1>1 DEF Round, CountOK
<1>3. ncores - 1 <= Cardinality(Arrived(k))
  BY <1>2 DEF Round, CountOK
<1>4. t \notin Arrived(k)
  BY <1>1 DEF Arrived, Inv, TypeOK
<1>5. Cardinality(Arrived(k) \cup {t}) = Cardinality(Arrived(k)) + 1
  BY <1>4, ArrivedFinite, FS_AddElement
<1>6. Arrived(k) \cup {t} = Threads
  <2>1. Arrived(k) \cup {t} \subseteq Threads
    BY DEF Arrived
  <2>2. Cardinality(Arrived(k) \cup {t}) <= Cardinality(Threads)
    BY <1>1, <2>1, FS_Subset
  <2>3. Cardinality(Arrived(k) \cup {t}) = Cardinality(Threads)
    BY <1>1, <1>3, <1>5, <2>2, ArrivedFinite
  <2>4. QED
    BY <1>1, <2>1, <2>3, FS_Subset
<1>7. \A u \in Threads : u # t => entered[u] = k + 1
  BY <1>6 DEF Arrived
<1>8. \A u \in Threads : u # t => pc[u] = "wait"
  <2> SUFFICES ASSUME NEW u \in Threads, u # t PROVE pc[u] = "wait"
    OBVIOUS
  <2>1. pc[u] # "out" /\ pc[u] # "count_left"
    BY <1>2, <1>7 DEF Round, PlaceOK
  <2>2. pc[u] \notin {"last", "sense_left"}
    BY <1>1 DEF Inv, OneLast
  <2>3. QED
    BY <2>1, <2>2 DEF Inv, TypeOK
<1>9. QED
  BY <1>7, <1>8

LEMMA ArriveInv == ASSUME Inv, NEW t \in Threads, Arrive(t) PROVE Inv'
<1>0. PICK k \in Nat : Round(k)
  BY DEF Inv
<1>1. /\ pc[t] = "out" /\ entered[t] = k /\ left[t] = k
      /\ entered' = [entered EXCEPT ![t] = k + 1]
      /\ threadsense' = [threadsense EXCEPT ![t] = 1 - @]
      /\ count' = count + 1
      /\ UNCHANGED << sense, left, in_order >>
      /\ pc' = [pc EXCEPT ![t] = IF count = ncores - 1 THEN "last" ELSE "wait"]
  BY <1>0 DEF Arrive, Goto, Round, PlaceOK
<1>2. TypeOK'
  BY <1>1 DEF Inv, TypeOK
<1>3. \A u \in Threads : u # t => /\ pc'[u] = pc[u] /\ entered'[u] = entered[u]
                                 /\ threadsense'[u] = threadsense[u]
  BY <1>1 DEF Inv, TypeOK
<1>4. /\ pc'[t] = (IF count = ncores - 1 THEN "last" ELSE "wait")
      /\ entered'[t] = k + 1 /\ threadsense'[t] = 1 - threadsense[t]
  BY <1>1 DEF Inv, TypeOK
<1>5. \A u \in Threads : u # t => pc[u] \notin {"last", "sense_left"}
  BY <1>1 DEF Inv, OneLast
<1>6. OneLast'
  BY <1>0, <1>1, <1>3, <1>4, <1>5, LastSeesAll DEF OneLast
<1>7. Alone'
  <2>1. count = ncores - 1 => \A u \in Threads : u # t => pc[u] = "wait"
    BY <1>0, LastSeesAll
  <2>2. QED
    BY <1>1, <1>3, <1>4, <2>1 DEF Inv, Alone
<1>8. Round(k)'
  <2>1. \A u \in Threads : threadsense'[u] = entered'[u] % 2 /\ PlaceOK(u, k)'
    <3>1. threadsense'[t] = entered'[t] % 2
      BY <1>0, <1>1, <1>4 DEF Round
    <3>2. PlaceOK(t, k)'
      BY <1>1, <1>4 DEF PlaceOK
    <3>3. QED
      BY <1>0, <1>1, <1>3, <3>1, <3>2 DEF Round, PlaceOK
  <2>2. CountOK(k)'
    <3>1. Arrived(k)' = Arrived(k) \cup {t} /\ t \notin Arrived(k)
      BY <1>1, <1>3, <1>4 DEF Arrived
    <3>2. Cardinality(Arrived(k)') = Cardinality(Arrived(k)) + 1
      BY <3>1, ArrivedFinite, FS_AddElement
    <3>3. (\A u \in Threads : pc'[u] # "count_left") => count' <= Cardinality(Arrived(k)')
      <4> SUFFICES ASSUME \A u \in Threads : pc'[u] # "count_left"
                   PROVE  count' <= Cardinality(Arrived(k)')
        OBVIOUS
      <4>1. \A u \in Threads : pc[u] # "count_left"
        BY <1>1, <1>3
      <4>2. count <= Cardinality(Arrived(k))
        BY <1>0, <4>1 DEF Round, CountOK
      <4>3. QED
        BY <1>1, <3>2, <4>2, ArrivedFinite DEF Inv, TypeOK
    <3>4. \A u \in Threads : pc'[u] \in {"last", "count_left"} => count' >= ncores
      <4>1. pc'[t] = "last" => count' = ncores
        BY <1>1, <1>4, NcoresPositive DEF Inv, TypeOK
      <4>2. \A u \in Threads : pc[u] = "count_left" => count' >= ncores
        BY <1>0, <1>1, NcoresPositive DEF Round, CountOK, Inv, TypeOK
      <4>3. QED
        BY <1>3, <1>4, <1>5, <4>1, <4>2, NcoresPositive
    <3>5. \A u \in Threads : pc'[u] # "sense_left"
      BY <1>3, <1>4, <1>5
    <3>6. QED
      BY <3>3, <3>4, <3>5 DEF CountOK
  <2>3. QED
    BY <1>0, <1>1, <2>1, <2>2 DEF Round
<1>9. QED
  BY <1>2, <1>6, <1>7, <1>8 DEF Inv

LEMMA ResetCountInv == ASSUME Inv, NEW t \in Threads, ResetCount(t) PROVE Inv'
<1>0. PICK k \in Nat : Round(k)
  BY DEF Inv
<1>1. /\ pc[t] \in {"last", "count_left"} /\ count' = 0
      /\ UNCHANGED << sense, threadsense, entered, in_order >>
      /\ pc' = [pc EXCEPT ![t] = IF pc[t] = "last" THEN "sense_left" ELSE "out"]
      /\ left' = IF pc[t] = "last" THEN left ELSE [left EXCEPT ![t] = entered[t]]
  BY DEF ResetCount, Goto, Return
<1>2. TypeOK'
  BY <1>1 DEF Inv, TypeOK
<1>3. \A u \in Threads : u # t => pc'[u] = pc[u] /\ left'[u] = left[u]
  BY <1>1 DEF Inv, TypeOK
<1>4. CASE pc[t] = "last"
  <2>1. pc'[t] = "sense_left" /\ left' = left
    BY <1>1, <1>4 DEF Inv, TypeOK
  <2>2. \A u \in Threads : u # t => pc[u] = "wait" /\ entered[u] = entered[t]
    BY <1>4 DEF Inv, OneLast
  <2>3. OneLast' /\ Alone'
    BY <1>1, <1>3, <2>1, <2>2 DEF OneLast, Alone
  <2>4. \A u \in Threads : PlaceOK(u, k)'
    BY <1>0, <1>1, <1>3, <1>4, <2>1 DEF Round, PlaceOK
  <2>5. CountOK(k)'
    <3>1. Arrived(k)' = Arrived(k)
      BY <1>1 DEF Arrived
    <3>2. \A u \in Threads : pc'[u] \notin {"last", "count_left"}
      BY <1>3, <2>1, <2>2
    <3>3. QED
      BY <1>1, <3>1, <3>2, ArrivedFinite DEF CountOK
  <2>6. Round(k)'
    BY <1>0, <1>1, <2>4, <2>5 DEF Round
  <2>7. QED
    BY <1>2, <2>3, <2>6 DEF Inv
<1>5. CASE pc[t] = "count_left"
  <2>1. /\ pc'[t] = "out" /\ left'[t] = entered[t] /\ entered[t] = k
    BY <1>0, <1>1, <1>5 DEF Inv, TypeOK, Round, PlaceOK
  <2>2. \A u \in Threads : u # t => pc[u] \in {"out", "wait"}
    BY <1>5 DEF Inv, Alone
  <2>3. OneLast' /\ Alone'
    BY <1>3, <2>1, <2>2 DEF OneLast, Alone
  <2>4. \A u \in Threads : PlaceOK(u, k)'
    BY <1>0, <1>1, <1>3, <2>1 DEF Round, PlaceOK
  <2>5. CountOK(k)'
    <3>1. Arrived(k)' = Arrived(k)
      BY <1>1 DEF Arrived
    <3>2. \A u \in Threads : pc'[u] \notin {"last", "count_left", "sense_left"}
      BY <1>3, <2>1, <2>2
    <3>3. QED
      BY <1>1, <3>1, <3>2, ArrivedFinite DEF CountOK
  <2>6. Round(k)'
    BY <1>0, <1>1, <2>4, <2>5 DEF Round
  <2>7. QED
    BY <1>2, <2>3, <2>6 DEF Inv
<1>6. QED
  BY <1>1, <1>4, <1>5

LEMMA PublishSenseInv == ASSUME Inv, NEW t \in Threads, PublishSense(t) PROVE Inv'
<1>0. PICK k \in Nat : Round(k)
  BY DEF Inv
<1>1. /\ pc[t] \in {"last", "sense_left"} /\ sense' = threadsense[t]
      /\ UNCHANGED << count, threadsense, entered, in_order >>
      /\ pc' = [pc EXCEPT ![t] = IF pc[t] = "last" THEN "count_left" ELSE "out"]
      /\ left' = IF pc[t] = "last" THEN left ELSE [left EXCEPT ![t] = entered[t]]
  BY DEF PublishSense, Goto, Return
<1>2. TypeOK'
  BY <1>1 DEF Inv, TypeOK
<1>3. \A u \in Threads : u # t => pc'[u] = pc[u] /\ left'[u] = left[u]
  BY <1>1 DEF Inv, TypeOK
<1>4. /\ entered[t] = k + 1 /\ left[t] = k
      /\ \A u \in Threads : u # t => pc[u] = "wait" /\ entered[u] = k + 1
  BY <1>0, <1>1 DEF Inv, OneLast, Round, PlaceOK
<1>5. /\ pc'[t] = (IF pc[t] = "last" THEN "count_left" ELSE "out")
      /\ left'[t] = (IF pc[t] = "last" THEN k ELSE k + 1)
  BY <1>1, <1>4 DEF Inv, TypeOK
<1>6. OneLast' /\ Alone'
  BY <1>3, <1>4, <1>5 DEF OneLast, Alone
<1>7. Round(k + 1)'
  <2>1. sense' = (k + 1) % 2
    BY <1>0, <1>1, <1>4 DEF Round
  <2>2. \A u \in Threads : PlaceOK(u, k + 1)'
    <3>1. PlaceOK(t, k + 1)'
      BY <1>1, <1>4, <1>5 DEF PlaceOK
    <3>2. \A u \in Threads : u # t => PlaceOK(u, k + 1)'
      BY <1>0, <1>1, <1>3, <1>4 DEF PlaceOK, Round
    <3>3. QED
      BY <3>1, <3>2
  <2>3. CountOK(k + 1)'
    <3>1. CASE pc[t] = "last"
      <4>1. count >= ncores /\ pc'[t] = "count_left"
        BY <1>0, <1>5, <3>1 DEF Round, CountOK
      <4>2. QED
        BY <1>1, <1>3, <1>4, <4>1 DEF CountOK
    <3>2. CASE pc[t] = "sense_left"
      <4>1. count' = 0
        BY <1>0, <1>1, <3>2 DEF Round, CountOK
      <4>2. \A u \in Threads : pc'[u] \notin {"last", "count_left", "sense_left"}
        BY <1>3, <1>4, <1>5, <3>2
      <4>3. Cardinality(Arrived(k + 1)') \in Nat
        BY <1>2, ThreadsAssumption, FS_Subset, FS_CardinalityType DEF Arrived
      <4>4. QED
        BY <4>1, <4>2, <4>3 DEF CountOK
    <3>3. QED
      BY <1>1, <3>1, <3>2
  <2>4. QED
    BY <1>0, <1>1, <2>1, <2>2, <2>3 DEF Round
<1>8. QED
  BY <1>2, <1>6, <1>7 DEF Inv

LEMMA SpinInv == ASSUME Inv, NEW t \in Threads, Spin(t) PROVE Inv'
<1>0. PICK k \in Nat : Round(k)
  BY DEF Inv
<1>1. pc[t] = "wait" /\ UNCHANGED << sense, count, threadsense, entered, in_order >>
  BY DEF Spin
<1>2. CASE sense # threadsense[t]
  <2>1. UNCHANGED << pc, left >>
    BY <1>2 DEF Spin
  <2>2. TypeOK' /\ OneLast' /\ Alone'
    BY <1>1, <2>1 DEF Inv, TypeOK, OneLast, Alone
  <2>3. Round(k)'
    BY <1>0, <1>1, <2>1 DEF Round, PlaceOK, CountOK, Arrived
  <2>4. QED
    BY <2>2, <2>3 DEF Inv
<1>3. CASE sense = threadsense[t]
  <2>1. pc' = [pc EXCEPT ![t] = "out"] /\ left' = [left EXCEPT ![t] = entered[t]]
    BY <1>3 DEF Spin, Return, Goto
  <2>2. entered[t] = k
    <3>1. entered[t] % 2 = k % 2 /\ entered[t] \in {k, k + 1}
      BY <1>0, <1>1, <1>3 DEF Round, PlaceOK
    <3>2. QED
      BY <3>1
  <2>3. /\ pc'[t] = "out" /\ left'[t] = k
        /\ \A u \in Threads : u # t => pc'[u] = pc[u] /\ left'[u] = left[u]
    BY <2>1, <2>2 DEF Inv, TypeOK
  <2>4. TypeOK'
    BY <1>1, <2>1 DEF Inv, TypeOK
  <2>5. \A u \in Threads : pc[u] \notin {"last", "sense_left"}
    <3>1. \A u \in Threads : pc[u] \in {"last", "sense_left"} => entered[u] = k + 1
      BY <1>0 DEF Round, PlaceOK
    <3>2. QED
      BY <1>1, <2>2, <3>1 DEF Inv, OneLast
  <2>6. OneLast' /\ Alone'
    BY <1>1, <2>3, <2>5 DEF Inv, OneLast, Alone
  <2>7. Round(k)'
    <3>1. \A u \in Threads : PlaceOK(u, k)'
      BY <1>0, <1>1, <2>2, <2>3 DEF Round, PlaceOK
    <3>2. CountOK(k)'
      BY <1>0, <1>1, <2>3, <2>5 DEF Round, CountOK, Arrived
    <3>3. QED
      BY <1>0, <1>1, <3>1, <3>2 DEF Round
  <2>8. QED
    BY <2>4, <2>6, <2>7 DEF Inv
<1>4. QED
  BY <1>2, <1>3

LEMMA StutterInv == Inv /\ UNCHANGED vars => Inv'
<1> SUFFICES ASSUME Inv, UNCHANGED vars PROVE Inv'
  OBVIOUS
<1>0. PICK k \in Nat : Round(k)
  BY DEF Inv
<1>1. TypeOK' /\ OneLast' /\ Alone'
  BY DEF vars, Inv, TypeOK, OneLast, Alone
<1>2. Round(k)'
  BY <1>0 DEF vars, Round, PlaceOK, CountOK, Arrived
<1>3. QED
  BY <1>1, <1>2 DEF Inv

LEMMA NextInv == Inv /\ [Next]_vars => Inv'
  BY ArriveInv, ResetCountInv, PublishSenseInv, SpinInv, StutterInv DEF Next, Step, Done

\* The variables keep their types.
THEOREM BarrierTypes == Spec => []TypeOK
<1>1. Inv => TypeOK
  BY DEF Inv
<1>2. QED
  BY InitInv, NextInv, <1>1, PTL DEF Spec

\* At most one thread takes itself for the last to arrive.
THEOREM BarrierOneLast == Spec => []OneLast
<1>1. Inv => OneLast
  BY DEF Inv
<1>2. QED
  BY InitInv, NextInv, <1>1, PTL DEF Spec

-----------------------------------------------------------------------------
(* The count, when stores are in order *)

Waiting == { t \in Threads : pc[t] \in {"wait", "last"} /\ sense # threadsense[t] }

(* With stores in order the count is reset before the sense is published. *)
Counted == (in_order => \A t \in Threads : pc[t] # "count_left") /\ NoArrivalLost

(* A thread's sense differs from the published one exactly while it takes part in *)
(* the next change.                                                               *)
LEMMA WaitingIsArrived ==
  ASSUME TypeOK, NEW k \in Nat, Round(k),
         \A t \in Threads : pc[t] \notin {"sense_left", "count_left"}
  PROVE  Waiting = Arrived(k)
<1>1. \A t \in Threads : /\ sense = k % 2 /\ threadsense[t] = entered[t] % 2 /\ PlaceOK(t, k)
                         /\ pc[t] \in {"out", "wait", "last"}
  BY DEF Round, TypeOK
<1>2. \A t \in Threads : pc[t] = "out" => t \notin Arrived(k)
  BY <1>1 DEF PlaceOK, Arrived
<1>3. \A t \in Threads : pc[t] \in {"wait", "last"} =>
        (sense # threadsense[t] <=> entered[t] = k + 1)
  BY <1>1 DEF PlaceOK
<1>4. QED
  BY <1>1, <1>2, <1>3 DEF Waiting, Arrived

LEMMA CountedStep ==
  ASSUME Inv, Counted, NEW t \in Threads, Step(t), in_order
  PROVE  Counted'
<1>0. PICK k \in Nat : Round(k)
  BY DEF Inv
<1>1. /\ in_order' = in_order
      /\ \A u \in Threads : pc[u] # "count_left"
      /\ ~(\E u \in Threads : pc[u] = "sense_left") => count = Cardinality(Waiting)
      /\ IsFiniteSet(Arrived(k)) /\ Cardinality(Arrived(k)) \in Nat
  BY ArrivedFinite DEF Counted, NoArrivalLost, Step, Arrive, ResetCount, PublishSense, Spin, Waiting
<1>2. ASSUME \A u \in Threads : pc'[u] # "count_left",
             ~(\E u \in Threads : pc'[u] = "sense_left") => count' = Cardinality(Waiting')
      PROVE  Counted'
  BY <1>2, Zenon DEF Counted, NoArrivalLost, Waiting
<1>3. CASE Arrive(t)
  <2>1. /\ pc[t] = "out" /\ entered[t] = k /\ count' = count + 1 /\ sense' = sense
        /\ pc' = [pc EXCEPT ![t] = IF count = ncores - 1 THEN "last" ELSE "wait"]
        /\ entered' = [entered EXCEPT ![t] = k + 1]
        /\ threadsense' = [threadsense EXCEPT ![t] = 1 - @]
    BY <1>0, <1>3 DEF Arrive, Goto, Round, PlaceOK
  <2>2. \A u \in Threads : pc[u] # "sense_left"
    BY <2>1 DEF Inv, OneLast
  <2>3. Waiting = Arrived(k) /\ t \notin Arrived(k)
    BY <1>0, <1>1, <2>1, <2>2, WaitingIsArrived DEF Inv, Arrived
  <2>4. threadsense'[t] # sense' /\ pc'[t] \in {"wait", "last"}
    BY <1>0, <2>1 DEF Round, Inv, TypeOK
  <2>5. Waiting' = Waiting \cup {t}
    BY <2>1, <2>4 DEF Waiting, Inv, TypeOK
  <2>6. Cardinality(Waiting') = Cardinality(Waiting) + 1
    BY <1>1, <2>3, <2>5, FS_AddElement
  <2>7. count' = Cardinality(Waiting')
    BY <1>1, <2>1, <2>2, <2>6
  <2>8. \A u \in Threads : pc'[u] # "count_left"
    BY <1>1, <2>1 DEF Inv, TypeOK
  <2>9. QED
    BY <1>2, <2>7, <2>8
<1>4. CASE ResetCount(t)
  <2>1. pc[t] = "last" /\ pc' = [pc EXCEPT ![t] = "sense_left"]
    BY <1>1, <1>4 DEF ResetCount, Goto
  <2>2. pc'[t] = "sense_left" /\ \A u \in Threads : pc'[u] # "count_left"
    BY <1>1, <2>1 DEF Inv, TypeOK
  <2>3. QED
    BY <1>2, <2>2
<1>5. CASE PublishSense(t)
  <2>1. /\ pc[t] = "sense_left" /\ pc' = [pc EXCEPT ![t] = "out"]
        /\ sense' = threadsense[t] /\ UNCHANGED << count, threadsense >>
    BY <1>5 DEF PublishSense, Goto, Return
  <2>2. \A u \in Threads : entered[u] = k + 1 /\ threadsense[u] = (k + 1) % 2
    BY <1>0, <2>1 DEF Round, PlaceOK, Inv, OneLast
  <2>3. Waiting' = {}
    BY <2>1, <2>2 DEF Waiting
  <2>4. count' = 0
    BY <1>0, <2>1 DEF Round, CountOK
  <2>5. \A u \in Threads : pc'[u] # "count_left"
    BY <1>1, <2>1 DEF Inv, TypeOK
  <2>6. count' = Cardinality(Waiting')
    BY <2>3, <2>4, FS_EmptySet
  <2>7. QED
    BY <1>2, <2>5, <2>6
<1>6. CASE Spin(t)
  <2>1. /\ pc[t] = "wait" /\ UNCHANGED << sense, count, threadsense >>
        /\ IF sense # threadsense[t] THEN pc' = pc ELSE pc' = [pc EXCEPT ![t] = "out"]
    BY <1>6 DEF Spin, Return, Goto
  <2>2. Waiting' = Waiting
    BY <2>1 DEF Waiting, Inv, TypeOK
  <2>3. \A u \in Threads : /\ pc'[u] # "count_left"
                           /\ pc'[u] = "sense_left" <=> pc[u] = "sense_left"
    BY <1>1, <2>1 DEF Inv, TypeOK
  <2>4. ~(\E u \in Threads : pc'[u] = "sense_left") => count' = Cardinality(Waiting')
    BY <1>1, <2>1, <2>2, <2>3
  <2>5. QED
    BY <1>2, <2>3, <2>4
<1>7. QED
  BY <1>3, <1>4, <1>5, <1>6 DEF Step

\* With stores in order no arrival is lost: the count is that of the harts that
\* wait for the next change of the sense.
THEOREM BarrierCounts == Spec => []NoArrivalLost
<1>1. Init => Counted
  <2> SUFFICES ASSUME Init PROVE Counted
    OBVIOUS
  <2>1. Waiting = {}
    BY DEF Init, Waiting
  <2>2. QED
    BY <2>1, FS_EmptySet DEF Init, Counted, NoArrivalLost, Waiting
<1>2. Inv /\ Counted /\ [Next]_vars => Counted'
  <2> SUFFICES ASSUME Inv, Counted, [Next]_vars PROVE Counted'
    OBVIOUS
  <2>1. CASE \E t \in Threads : Step(t)
    <3>1. in_order' = in_order
      BY <2>1 DEF Step, Arrive, ResetCount, PublishSense, Spin
    <3>2. QED
      BY <2>1, <3>1, CountedStep DEF Counted, NoArrivalLost
  <2>2. CASE UNCHANGED vars
    BY <2>2 DEF vars, Counted, NoArrivalLost
  <2>3. QED
    BY <2>1, <2>2 DEF Next, Done
<1>3. Counted => NoArrivalLost
  BY DEF Counted
<1>4. QED
  BY InitInv, NextInv, <1>1, <1>2, <1>3, PTL DEF Spec

-----------------------------------------------------------------------------
(* barrier() implements PhaseBarrier *)

(* Whoever returns leaves a round that every thread has begun. *)
LEMMA ReturnIsLeave ==
  ASSUME Inv, NEW k \in Nat, Round(k), NEW t \in Threads, left[t] < entered[t],
         entered[t] <= k \/ pc[t] \in {"last", "sense_left"},
         left' = [left EXCEPT ![t] = entered[t]], entered' = entered
  PROVE  Barrier!Leave(t)
<1>1. \A u \in Threads : entered[u] \in {k, k + 1}
  BY DEF Round, PlaceOK, Inv, TypeOK
<1>2. pc[t] \in {"last", "sense_left"} => \A u \in Threads : entered[u] = entered[t]
  BY DEF Inv, OneLast
<1>3. \A u \in Threads : entered[t] <= entered[u]
  BY <1>1, <1>2 DEF Inv, TypeOK
<1>4. QED
  BY <1>3 DEF Barrier!Leave

LEMMA StepIsBarrierStep ==
  ASSUME Inv, NEW t \in Threads, Step(t)
  PROVE  Barrier!Enter(t) \/ Barrier!Leave(t) \/ UNCHANGED << entered, left >>
<1>0. PICK k \in Nat : Round(k)
  BY DEF Inv
<1>1. CASE Arrive(t)
  <2>1. entered[t] = left[t]
    BY <1>0, <1>1 DEF Arrive, Round, PlaceOK
  <2>2. QED
    BY <1>1, <2>1 DEF Arrive, Barrier!Enter
<1>2. CASE ResetCount(t)
  <2>1. CASE pc[t] = "last"
    BY <1>2, <2>1 DEF ResetCount
  <2>2. CASE pc[t] # "last"
    <3>1. entered[t] = k /\ left[t] = k - 1
      BY <1>0, <1>2, <2>2 DEF ResetCount, Round, PlaceOK
    <3>2. QED
      BY <1>0, <1>2, <2>2, <3>1, ReturnIsLeave DEF ResetCount, Return
  <2>3. QED
    BY <2>1, <2>2
<1>3. CASE PublishSense(t)
  <2>1. CASE pc[t] = "last"
    BY <1>3, <2>1 DEF PublishSense
  <2>2. CASE pc[t] # "last"
    <3>1. pc[t] = "sense_left" /\ left[t] < entered[t]
      BY <1>0, <1>3, <2>2 DEF PublishSense, Round, PlaceOK
    <3>2. QED
      BY <1>0, <1>3, <2>2, <3>1, ReturnIsLeave DEF PublishSense, Return
  <2>3. QED
    BY <2>1, <2>2
<1>4. CASE Spin(t)
  <2>1. CASE sense # threadsense[t]
    BY <1>4, <2>1 DEF Spin
  <2>2. CASE sense = threadsense[t]
    <3>1. entered[t] % 2 = k % 2 /\ entered[t] \in {k, k + 1} /\ left[t] = entered[t] - 1
      BY <1>0, <1>4, <2>2 DEF Spin, Round, PlaceOK
    <3>2. entered[t] = k /\ left[t] < entered[t]
      BY <3>1
    <3>3. QED
      BY <1>0, <1>4, <2>2, <3>2, ReturnIsLeave DEF Spin, Return
  <2>3. QED
    BY <2>1, <2>2
<1>5. QED
  BY <1>1, <1>2, <1>3, <1>4 DEF Step

\* No thread is through a call that another one has not begun: for every number
\* of harts and rounds, and for both orders of the two stores.
THEOREM BarrierHolds == Spec => BarrierSpec
<1>1. Init => Barrier!Init
  BY DEF Init, Barrier!Init
<1>2. Inv /\ [Next]_vars => [Barrier!Next]_<< entered, left >>
  BY StepIsBarrierStep DEF Next, Done, vars, Barrier!Next
<1>3. QED
  BY <1>1, <1>2, InitInv, NextInv, PTL DEF Spec, BarrierSpec, Barrier!Spec

=============================================================================
