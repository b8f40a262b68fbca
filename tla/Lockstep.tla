------------------------------ MODULE Lockstep ------------------------------
(***************************************************************************)
(* The lockstep simulation of rocket-main and boom-main: one or two models *)
(* of a design (Verilator's and Arcilator's) are given the same inputs and *)
(* their output ports are compared once per clock, until the program under *)
(* simulation exits, the models have disagreed for long enough, or the     *)
(* iterations run out.                                                     *)
(*                                                                         *)
(* A model is external: a state, the ports it shows in that state, and a   *)
(* step at the rising edge.  A faulty model (a bug of the compiler the     *)
(* lockstep is there to find) may step to any state.                       *)
(***************************************************************************)
EXTENDS Integers, Sequences, FiniteSets

CONSTANTS
  States, PowerOn, ResetState,  \* the states of the design
  Inputs, NoInput,              \* what the AXI ports may drive into it
  Ports, Output(_),             \* its output ports, and their values in a state
  Step(_, _),                   \* the state after an edge, given the inputs
  ExitStates,                   \* where it writes 1 to tohost
  ResetCycles,                  \* the cycles reset is held
  WarmupCycles,                 \* the cycles before the simulation loop
  MaxCycles,                    \* the iterations of the simulation loop
  None                          \* no comparison has found a difference

BadLimit == 3

ASSUME DesignAssumption ==
  /\ {PowerOn, ResetState} \cup ExitStates \subseteq States
  /\ NoInput \in Inputs
  /\ \A s \in States, in \in Inputs : Step(s, in) \in States

ASSUME BoundsAssumption ==
  /\ ResetCycles \in Nat /\ WarmupCycles \in Nat /\ MaxCycles \in Nat
  /\ IsFiniteSet(Ports)
  /\ None \notin Nat

VARIABLES
  models,         \* ComparingModel::models, by name
  faulty,         \* the models that do not behave like the design
  state,          \* the state of each model
  inputs,         \* the inputs each model was last given
  reset,
  pc,             \* "reset", "serve", "clock", "check" or "done"
  i,              \* the loop counter, of the warm-up and then of the loop
  cycle, num_mismatches, num_bad_cycles, finished,
  result,         \* what main returns, or None
  first_diff      \* the cycle whose comparison first found a difference, or None

vars == << models, faulty, state, inputs, reset, pc, i, cycle, num_mismatches,
           num_bad_cycles, finished, result, first_diff >>

\* The options --vtor and --arcs, both or neither of them.
Selections == { << "vtor", "arcs" >>, << "vtor" >>, << "arcs" >> }

Init ==
  /\ models \in Selections
  /\ faulty \in SUBSET {"vtor", "arcs"}
  /\ state = [m \in DOMAIN models |-> PowerOn]
  /\ inputs = [m \in DOMAIN models |-> NoInput]
  /\ reset = FALSE
  /\ pc = "reset" /\ i = 0
  /\ cycle = 0 /\ num_mismatches = 0 /\ num_bad_cycles = 0
  /\ finished = FALSE /\ result = None /\ first_diff = None

-----------------------------------------------------------------------------
(* ComparingModel::clock *)

\* The ports in which the second model differs from the first; there are never
\* more than two models.
Differing ==
  IF Len(models) < 2 THEN {}
  ELSE { p \in Ports : Output(state[1])[p] # Output(state[2])[p] }

\* Mutant: only the last comparison counts.
ComparePortsAfresh ==
  /\ num_mismatches' = Cardinality(Differing)
  /\ first_diff' = IF first_diff = None /\ Differing # {} THEN cycle ELSE first_diff

ComparePorts ==
  /\ num_mismatches' = num_mismatches + Cardinality(Differing)
  /\ first_diff' = IF first_diff = None /\ Differing # {} THEN cycle ELSE first_diff

\* The rising edge, for every model.
Edge(rst) ==
  /\ state' \in [DOMAIN models -> States]
  /\ \A m \in DOMAIN models :
       models[m] \notin faulty =>
         state'[m] = IF rst THEN ResetState ELSE Step(state[m], inputs[m])

ClockModels(rst) == ComparePorts /\ Edge(rst) /\ cycle' = cycle + 1

-----------------------------------------------------------------------------
(* main *)

\* The first loop: reset is held, then released, with no inputs driven.
ResetClock ==
  /\ pc = "reset" /\ i < WarmupCycles
  /\ reset' = (i < ResetCycles)
  /\ ClockModels(reset')
  /\ i' = i + 1
  /\ UNCHANGED << models, faulty, inputs, pc, num_bad_cycles, finished, result >>

EnterLoop ==
  /\ pc = "reset" /\ i = WarmupCycles
  /\ pc' = "serve" /\ i' = 0
  /\ UNCHANGED << models, faulty, state, inputs, reset, cycle, num_mismatches,
                  num_bad_cycles, finished, result, first_diff >>

\* Mutant: the inputs reach the first model only.
DriveFirst(in) == inputs' = [inputs EXCEPT ![1] = in]

\* set_mem, set_mmio: every model gets what the ports answer to models[0].
Drive(in) == inputs' = [m \in DOMAIN models |-> in]

\* get, update_a, set, eval, get, update_b, set on both AXI ports.
Serve ==
  /\ pc = "serve" /\ i < MaxCycles
  /\ \E in \in Inputs : Drive(in)
  /\ finished' = (finished \/ state[1] \in ExitStates)
  /\ pc' = "clock"
  /\ UNCHANGED << models, faulty, state, reset, i, cycle, num_mismatches,
                  num_bad_cycles, result, first_diff >>

Clock ==
  /\ pc = "clock"
  /\ ClockModels(reset)
  /\ pc' = "check"
  /\ UNCHANGED << models, faulty, inputs, reset, i, num_bad_cycles, finished, result >>

Return(code) == pc' = "done" /\ result' = code /\ i' = i

\* Mutant: the loop counts down.
NextIterationDown == pc' = "serve" /\ result' = None /\ i' = i - 1

NextIteration == pc' = "serve" /\ result' = None /\ i' = i + 1

\* Mutant: one bad cycle too many is let through.
CheckLate ==
  /\ pc = "check"
  /\ num_bad_cycles' = IF ~finished /\ num_mismatches > 0
                       THEN num_bad_cycles + 1 ELSE num_bad_cycles
  /\ IF finished THEN Return(0)
     ELSE IF num_mismatches > 0 /\ num_bad_cycles' > BadLimit THEN Return(1)
     ELSE NextIteration
  /\ UNCHANGED << models, faulty, state, inputs, reset, cycle, num_mismatches,
                  finished, first_diff >>

\* Mutant: the count of bad cycles alone decides.
CheckUnconditional ==
  /\ pc = "check"
  /\ num_bad_cycles' = num_bad_cycles + 1
  /\ IF finished THEN Return(0)
     ELSE IF num_bad_cycles' >= BadLimit THEN Return(1)
     ELSE NextIteration
  /\ UNCHANGED << models, faulty, state, inputs, reset, cycle, num_mismatches,
                  finished, first_diff >>

\* if (finished) return 0; if (num_mismatches > 0 && ++num_bad_cycles >= 3) return 1
Check ==
  /\ pc = "check"
  /\ num_bad_cycles' = IF ~finished /\ num_mismatches > 0
                       THEN num_bad_cycles + 1 ELSE num_bad_cycles
  /\ IF finished THEN Return(0)
     ELSE IF num_mismatches > 0 /\ num_bad_cycles' >= BadLimit THEN Return(1)
     ELSE NextIteration
  /\ UNCHANGED << models, faulty, state, inputs, reset, cycle, num_mismatches,
                  finished, first_diff >>

LoopEnds ==
  /\ pc = "serve" /\ i = MaxCycles
  /\ Return(0)
  /\ UNCHANGED << models, faulty, state, inputs, reset, cycle, num_mismatches,
                  num_bad_cycles, finished, first_diff >>

Terminated == pc = "done" /\ UNCHANGED vars

Next ==
  \/ ResetClock \/ EnterLoop
  \/ Serve \/ Clock \/ Check \/ LoopEnds
  \/ Terminated

Spec == Init /\ [][Next]_vars

-----------------------------------------------------------------------------
(* Properties *)

TypeOK ==
  /\ models \in Selections /\ faulty \subseteq {"vtor", "arcs"}
  /\ state \in [DOMAIN models -> States]
  /\ inputs \in [DOMAIN models -> Inputs]
  /\ reset \in BOOLEAN /\ finished \in BOOLEAN
  /\ pc \in {"reset", "serve", "clock", "check", "done"}
  /\ i \in Nat /\ cycle \in Nat /\ num_mismatches \in Nat /\ num_bad_cycles \in Nat
  /\ result \in {0, 1, None}
  /\ first_diff \in Nat \cup {None}

\* Models that behave like the design are never reported to differ, whatever the
\* testbench answers: they get the same inputs at every edge.
NoFalseAlarm == faulty = {} => num_mismatches = 0 /\ result # 1

\* The cycle from which a difference counts: one seen in the warm-up is acted upon
\* only in the loop.
CountsFrom == IF first_diff > WarmupCycles THEN first_diff ELSE WarmupCycles

\* Once a comparison has found a difference, the simulation ends within three
\* iterations of the loop, whether or not the models agree again.
DivergenceEndsRun == first_diff # None => cycle <= CountsFrom + BadLimit

\* The exit code tells a divergence from a success: 1 after exactly three
\* iterations with a difference on record, 0 when there is none, or when the
\* program under simulation exited or the iterations ran out before that.
VerdictIsRight ==
  /\ result = 1 => first_diff # None /\ cycle = CountsFrom + BadLimit /\ ~finished
  /\ result = 0 => \/ first_diff = None
                   \/ finished
                   \/ i = MaxCycles /\ cycle < CountsFrom + BadLimit

=============================================================================
