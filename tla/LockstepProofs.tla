--------------------------- MODULE LockstepProofs ---------------------------
(* Proofs about Lockstep, for every design and every number of cycles. *)
EXTENDS Lockstep, FiniteSetTheorems, TLAPS

(* The counters agree about how long a difference has been on record. *)
Bookkeeping ==
  /\ num_mismatches = 0 <=> first_diff = None
  /\ first_diff # None => first_diff < cycle
  /\ pc = "reset" => cycle = i /\ i <= WarmupCycles /\ num_bad_cycles = 0 /\ result = None
  /\ pc \in {"serve", "clock"} => cycle = WarmupCycles + i /\ result = None
  /\ pc = "check" => cycle = WarmupCycles + i + 1 /\ result = None
  /\ pc # "done" /\ first_diff = None => num_bad_cycles = 0
  /\ pc \in {"serve", "clock"} /\ first_diff # None =>
       cycle = CountsFrom + num_bad_cycles /\ num_bad_cycles < BadLimit
  /\ pc = "check" /\ first_diff # None =>
       cycle = CountsFrom + num_bad_cycles + 1 /\ num_bad_cycles < BadLimit
  /\ pc = "done" => (first_diff # None => cycle <= CountsFrom + BadLimit)

(* Models that behave like the design are in the same state. *)
InStep ==
  faulty = {} => /\ \A m, n \in DOMAIN models : state[m] = state[n] /\ inputs[m] = inputs[n]
                 /\ num_mismatches = 0
                 /\ result # 1

Inv == TypeOK /\ Bookkeeping /\ InStep /\ VerdictIsRight

LEMMA DifferingCount ==
  /\ Cardinality(Differing) \in Nat
  /\ Cardinality(Differing) = 0 <=> Differing = {}
<1>1. Differing \subseteq Ports
  BY DEF Differing
<1>2. IsFiniteSet(Differing)
  BY <1>1, BoundsAssumption, FS_Subset
<1>3. QED
  BY <1>2, FS_CardinalityType, FS_EmptySet

LEMMA SelectionsAre ==
  ASSUME models \in Selections
  PROVE  /\ 1 \in DOMAIN models
         /\ Len(models) \in {1, 2}
         /\ Len(models) = 2 => 2 \in DOMAIN models
         /\ \A m \in DOMAIN models : models[m] \in {"vtor", "arcs"}
  BY DEF Selections

LEMMA InitInv == Init => Inv
<1> SUFFICES ASSUME Init PROVE Inv
  OBVIOUS
<1> USE DesignAssumption, BoundsAssumption DEF Init
<1>1. TypeOK
  BY DEF TypeOK
<1>2. Bookkeeping /\ VerdictIsRight
  BY DEF Bookkeeping, VerdictIsRight
<1>3. InStep
  BY DEF InStep
<1>4. QED
  BY <1>1, <1>2, <1>3 DEF Inv

LEMMA ClockModelsInv ==
  ASSUME Inv, NEW rst, ClockModels(rst), UNCHANGED << models, faulty, inputs >>
  PROVE  /\ state' \in [DOMAIN models -> States]
         /\ cycle' = cycle + 1
         /\ num_mismatches' \in Nat
         /\ first_diff' \in Nat \cup {None}
         /\ num_mismatches' = 0 <=> first_diff' = None
         /\ first_diff' # None => first_diff' < cycle'
         /\ first_diff # None => first_diff' = first_diff
         /\ first_diff = None => first_diff' \in {cycle, None}
         /\ faulty = {} => /\ \A m, n \in DOMAIN models : state'[m] = state'[n]
                           /\ num_mismatches' = 0
<1> USE BoundsAssumption
<1>1. /\ num_mismatches' = num_mismatches + Cardinality(Differing)
      /\ first_diff' = IF first_diff = None /\ Differing # {} THEN cycle ELSE first_diff
      /\ cycle' = cycle + 1
      /\ state' \in [DOMAIN models -> States]
  BY DEF ClockModels, ComparePorts, Edge
<1>2. /\ num_mismatches \in Nat /\ cycle \in Nat /\ first_diff \in Nat \cup {None}
      /\ num_mismatches = 0 <=> first_diff = None
      /\ first_diff # None => first_diff < cycle
  BY DEF Inv, TypeOK, Bookkeeping
<1>3. faulty = {} => Differing = {}
  BY SelectionsAre DEF Inv, InStep, TypeOK, Differing
<1>4. faulty = {} => \A m, n \in DOMAIN models : state'[m] = state'[n]
  BY DEF ClockModels, Edge, Inv, InStep
<1>5. num_mismatches' \in Nat /\ (num_mismatches' = 0 <=> first_diff' = None)
  BY <1>1, <1>2, DifferingCount
<1>6. faulty = {} => num_mismatches' = 0
  BY <1>1, <1>3, DifferingCount DEF Inv, InStep
<1>7. QED
  BY <1>1, <1>2, <1>4, <1>5, <1>6

LEMMA ResetClockInv == Inv /\ ResetClock => Inv'
<1> SUFFICES ASSUME Inv, ResetClock PROVE Inv'
  OBVIOUS
<1> USE BoundsAssumption
<1>1. /\ pc = "reset" /\ pc' = "reset" /\ i < WarmupCycles /\ i' = i + 1
      /\ reset' \in BOOLEAN /\ ClockModels(reset')
      /\ UNCHANGED << models, faulty, inputs, num_bad_cycles, finished, result >>
  BY DEF ResetClock
<1>2. TypeOK'
  BY <1>1, ClockModelsInv DEF Inv, TypeOK
<1>3. Bookkeeping'
  BY <1>1, ClockModelsInv DEF Inv, TypeOK, Bookkeeping, CountsFrom
<1>4. InStep' /\ VerdictIsRight'
  BY <1>1, ClockModelsInv DEF Inv, InStep, VerdictIsRight, Bookkeeping
<1>5. QED
  BY <1>2, <1>3, <1>4 DEF Inv

LEMMA EnterLoopInv == Inv /\ EnterLoop => Inv'
<1> SUFFICES ASSUME Inv, EnterLoop PROVE Inv'
  OBVIOUS
<1> USE BoundsAssumption DEF EnterLoop
<1>1. TypeOK'
  BY DEF Inv, TypeOK
<1>2. Bookkeeping'
  BY DEF Inv, TypeOK, Bookkeeping, CountsFrom, BadLimit
<1>3. InStep' /\ VerdictIsRight'
  BY DEF Inv, InStep, VerdictIsRight, Bookkeeping
<1>4. QED
  BY <1>1, <1>2, <1>3 DEF Inv

LEMMA ServeInv == Inv /\ Serve => Inv'
<1> SUFFICES ASSUME Inv, NEW in \in Inputs, Drive(in), Serve PROVE Inv'
  BY DEF Serve
<1> USE BoundsAssumption
<1>1. /\ pc = "serve" /\ pc' = "clock"
      /\ UNCHANGED << models, faulty, state, reset, i, cycle, num_mismatches,
                      num_bad_cycles, result, first_diff >>
      /\ inputs' = [m \in DOMAIN models |-> in]
  BY DEF Serve, Drive
<1>2. finished' \in BOOLEAN
  <2>1. finished' = (finished \/ state[1] \in ExitStates)
    BY DEF Serve
  <2>2. QED
    BY <2>1, Zenon
<1>3. TypeOK'
  BY <1>1, <1>2 DEF Inv, TypeOK
<1>4. Bookkeeping'
  BY <1>1 DEF Inv, Bookkeeping, CountsFrom
<1>5. InStep' /\ VerdictIsRight'
  BY <1>1 DEF Inv, InStep, VerdictIsRight, Bookkeeping
<1>6. QED
  BY <1>3, <1>4, <1>5 DEF Inv

LEMMA ClockInv == Inv /\ Clock => Inv'
<1> SUFFICES ASSUME Inv, Clock PROVE Inv'
  OBVIOUS
<1> USE BoundsAssumption
<1>1. /\ pc = "clock" /\ pc' = "check"
      /\ ClockModels(reset)
      /\ UNCHANGED << models, faulty, inputs, reset, i, num_bad_cycles, finished, result >>
  BY DEF Clock
<1>2. TypeOK'
  BY <1>1, ClockModelsInv DEF Inv, TypeOK
<1>3. Bookkeeping'
  BY <1>1, ClockModelsInv DEF Inv, TypeOK, Bookkeeping, CountsFrom, BadLimit
<1>4. InStep' /\ VerdictIsRight'
  BY <1>1, ClockModelsInv DEF Inv, InStep, VerdictIsRight, Bookkeeping
<1>5. QED
  BY <1>2, <1>3, <1>4 DEF Inv

LEMMA CheckInv == Inv /\ Check => Inv'
<1> SUFFICES ASSUME Inv, Check PROVE Inv'
  OBVIOUS
<1> USE BoundsAssumption
<1>1. /\ pc = "check"
      /\ UNCHANGED << models, faulty, state, inputs, reset, cycle, num_mismatches,
                      finished, first_diff >>
      /\ cycle = WarmupCycles + i + 1 /\ result = None
      /\ cycle \in Nat /\ i \in Nat /\ num_bad_cycles \in Nat /\ num_mismatches \in Nat
      /\ first_diff \in Nat \cup {None}
      /\ num_mismatches = 0 <=> first_diff = None
      /\ first_diff # None => /\ cycle = CountsFrom + num_bad_cycles + 1
                              /\ num_bad_cycles < BadLimit
                              /\ CountsFrom \in Nat
      /\ first_diff = None => num_bad_cycles = 0
      /\ CountsFrom' = CountsFrom
  BY DEF Check, Inv, TypeOK, Bookkeeping, CountsFrom
<1>2. CASE finished
  <2>1. pc' = "done" /\ result' = 0 /\ i' = i /\ num_bad_cycles' = num_bad_cycles
    BY <1>2 DEF Check, Return
  <2>2. TypeOK'
    BY <1>1, <2>1 DEF Inv, TypeOK
  <2>3. Bookkeeping' /\ VerdictIsRight'
    BY <1>1, <1>2, <2>1 DEF Inv, Bookkeeping, VerdictIsRight, BadLimit
  <2>4. InStep'
    BY <1>1, <2>1 DEF Inv, InStep
  <2>5. QED
    BY <2>2, <2>3, <2>4 DEF Inv
<1>3. CASE ~finished /\ num_mismatches > 0 /\ num_bad_cycles + 1 >= BadLimit
  <2>1. pc' = "done" /\ result' = 1 /\ i' = i /\ num_bad_cycles' = num_bad_cycles + 1
    BY <1>3 DEF Check, Return
  <2>2. TypeOK'
    BY <1>1, <2>1 DEF Inv, TypeOK
  <2>3. Bookkeeping' /\ VerdictIsRight'
    BY <1>1, <1>3, <2>1 DEF Inv, Bookkeeping, VerdictIsRight, BadLimit
  <2>4. InStep'
    BY <1>1, <1>3, <2>1 DEF Inv, InStep
  <2>5. QED
    BY <2>2, <2>3, <2>4 DEF Inv
<1>4. CASE ~finished /\ ~(num_mismatches > 0 /\ num_bad_cycles + 1 >= BadLimit)
  <2>1. /\ pc' = "serve" /\ result' = None /\ i' = i + 1
        /\ num_bad_cycles' = IF num_mismatches > 0 THEN num_bad_cycles + 1
                             ELSE num_bad_cycles
    BY <1>1, <1>4 DEF Check, NextIteration
  <2>2. TypeOK'
    BY <1>1, <2>1 DEF Inv, TypeOK
  <2>3. Bookkeeping' /\ VerdictIsRight'
    BY <1>1, <1>4, <2>1 DEF Inv, Bookkeeping, VerdictIsRight, BadLimit
  <2>4. InStep'
    BY <1>1, <2>1 DEF Inv, InStep
  <2>5. QED
    BY <2>2, <2>3, <2>4 DEF Inv
<1>5. QED
  BY <1>2, <1>3, <1>4

LEMMA LoopEndsInv == Inv /\ LoopEnds => Inv'
<1> SUFFICES ASSUME Inv, LoopEnds PROVE Inv'
  OBVIOUS
<1> USE BoundsAssumption DEF LoopEnds, Return
<1>1. TypeOK'
  BY DEF Inv, TypeOK
<1>2. Bookkeeping' /\ VerdictIsRight'
  BY DEF Inv, TypeOK, Bookkeeping, VerdictIsRight, CountsFrom, BadLimit
<1>3. InStep'
  BY DEF Inv, InStep
<1>4. QED
  BY <1>1, <1>2, <1>3 DEF Inv

LEMMA StutterInv == Inv /\ UNCHANGED vars => Inv'
  BY DEF Inv, vars, TypeOK, Bookkeeping, InStep, VerdictIsRight, CountsFrom

THEOREM LockstepInvariant == Spec => []Inv
<1>1. Inv /\ [Next]_vars => Inv'
  BY ResetClockInv, EnterLoopInv, ServeInv, ClockInv, CheckInv, LoopEndsInv, StutterInv
  DEF Next, Terminated
<1>2. QED
  BY InitInv, <1>1, PTL DEF Spec

\* The variables keep their types, for every design.
THEOREM LockstepTypes == Spec => []TypeOK
<1>1. Inv => TypeOK
  BY DEF Inv
<1>2. QED
  BY <1>1, LockstepInvariant, PTL

\* Models that behave like the design are never reported to differ.
THEOREM NoFalseAlarmHolds == Spec => []NoFalseAlarm
<1>1. Inv => NoFalseAlarm
  BY DEF Inv, InStep, NoFalseAlarm
<1>2. QED
  BY <1>1, LockstepInvariant, PTL

\* A difference ends the run within three iterations of the loop.
THEOREM DivergenceEndsRunHolds == Spec => []DivergenceEndsRun
<1>1. Inv => DivergenceEndsRun
  BY BoundsAssumption DEF Inv, TypeOK, Bookkeeping, DivergenceEndsRun, CountsFrom, BadLimit
<1>2. QED
  BY <1>1, LockstepInvariant, PTL

\* main's exit code tells a divergence from a success.
THEOREM VerdictHolds == Spec => []VerdictIsRight
<1>1. Inv => VerdictIsRight
  BY DEF Inv
<1>2. QED
  BY <1>1, LockstepInvariant, PTL

=============================================================================
