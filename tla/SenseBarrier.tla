---------------------------- MODULE SenseBarrier ----------------------------
(***************************************************************************)
(* barrier(ncores) of benchmarks/common/util.h: a sense-reversing barrier. *)
(*                                                                         *)
(* Each call flips the thread's own sense and adds one to `count'.  The    *)
(* thread that finds ncores - 1 there resets the count and publishes its   *)
(* sense; the others spin until the published sense is theirs.  There is   *)
(* no fence between the two stores of the last thread, so other harts may  *)
(* see them in either order: in_order says whether they cannot.            *)
(***************************************************************************)
EXTENDS Naturals, FiniteSets

CONSTANTS
  Threads,        \* the harts that call barrier()
  Rounds          \* how many times each of them calls it

ASSUME ThreadsAssumption == IsFiniteSet(Threads) /\ Threads # {}
ASSUME RoundsAssumption == Rounds \in Nat

ncores == Cardinality(Threads)

VARIABLES
  sense, count,   \* the static variables of barrier()
  threadsense,    \* its thread-local variable
  pc,             \* where each thread is
  entered, left,  \* the calls each thread has begun and returned from
  in_order        \* the hardware shows stores in program order
vars == << sense, count, threadsense, pc, entered, left, in_order >>

Init ==
  /\ sense = 0
  /\ count = 0
  /\ threadsense = [t \in Threads |-> 0]
  /\ pc = [t \in Threads |-> "out"]
  /\ entered = [t \in Threads |-> 0]
  /\ left = [t \in Threads |-> 0]
  /\ in_order \in BOOLEAN

Goto(t, l) == pc' = [pc EXCEPT ![t] = l]

\* Mutant: the count is compared after the addition.
ArriveLate(t) ==
  /\ pc[t] = "out" /\ entered[t] < Rounds
  /\ entered' = [entered EXCEPT ![t] = @ + 1]
  /\ threadsense' = [threadsense EXCEPT ![t] = 1 - @]
  /\ count' = count + 1
  /\ Goto(t, IF count' = ncores - 1 THEN "last" ELSE "wait")
  /\ UNCHANGED << sense, left, in_order >>

\* Mutant: the sense is not reversed.
ArriveSameSense(t) ==
  /\ pc[t] = "out" /\ entered[t] < Rounds
  /\ entered' = [entered EXCEPT ![t] = @ + 1]
  /\ threadsense' = [threadsense EXCEPT ![t] = 1]
  /\ count' = count + 1
  /\ Goto(t, IF count = ncores - 1 THEN "last" ELSE "wait")
  /\ UNCHANGED << sense, left, in_order >>

\* Mutant: the sense is counted up instead of flipped.
ArriveCounting(t) ==
  /\ pc[t] = "out" /\ entered[t] < Rounds
  /\ entered' = [entered EXCEPT ![t] = @ + 1]
  /\ threadsense' = [threadsense EXCEPT ![t] = @ + 1]
  /\ count' = count + 1
  /\ Goto(t, IF count = ncores - 1 THEN "last" ELSE "wait")
  /\ UNCHANGED << sense, left, in_order >>

\* threadsense = !threadsense; __sync_fetch_and_add(&count, 1) == ncores - 1
Arrive(t) ==
  /\ pc[t] = "out" /\ entered[t] < Rounds
  /\ entered' = [entered EXCEPT ![t] = @ + 1]
  /\ threadsense' = [threadsense EXCEPT ![t] = 1 - @]
  /\ count' = count + 1
  /\ Goto(t, IF count = ncores - 1 THEN "last" ELSE "wait")
  /\ UNCHANGED << sense, left, in_order >>

Return(t) ==
  /\ Goto(t, "out")
  /\ left' = [left EXCEPT ![t] = entered[t]]

\* Mutant: the count is not reset.
ResetNothing(t) ==
  /\ pc[t] \in {"last", "count_left"}
  /\ IF pc[t] = "last" THEN Goto(t, "sense_left") /\ left' = left ELSE Return(t)
  /\ UNCHANGED << sense, count, threadsense, entered, in_order >>

\* count = 0
ResetCount(t) ==
  /\ pc[t] \in {"last", "count_left"}
  /\ count' = 0
  /\ IF pc[t] = "last" THEN Goto(t, "sense_left") /\ left' = left ELSE Return(t)
  /\ UNCHANGED << sense, threadsense, entered, in_order >>

\* Mutant: the sense may be published before the count is reset.
PublishSenseEarly(t) ==
  /\ pc[t] \in {"last", "sense_left"}
  /\ sense' = threadsense[t]
  /\ IF pc[t] = "last" THEN Goto(t, "count_left") /\ left' = left ELSE Return(t)
  /\ UNCHANGED << count, threadsense, entered, in_order >>

\* sense = threadsense
PublishSense(t) ==
  /\ pc[t] = "sense_left" \/ (pc[t] = "last" /\ ~in_order)
  /\ sense' = threadsense[t]
  /\ IF pc[t] = "last" THEN Goto(t, "count_left") /\ left' = left ELSE Return(t)
  /\ UNCHANGED << count, threadsense, entered, in_order >>

\* while (sense != threadsense);
Spin(t) ==
  /\ pc[t] = "wait"
  /\ IF sense # threadsense[t] THEN UNCHANGED << pc, left >> ELSE Return(t)
  /\ UNCHANGED << sense, count, threadsense, entered, in_order >>

\* A thread that has made all its calls goes on with its own program.
Done(t) == pc[t] = "out" /\ entered[t] = Rounds /\ UNCHANGED vars

Step(t) == Arrive(t) \/ ResetCount(t) \/ PublishSense(t) \/ Spin(t)

Next == \E t \in Threads : Step(t) \/ Done(t)

Spec == Init /\ [][Next]_vars

\* Every hart keeps executing.
FairSpec == Spec /\ \A t \in Threads : WF_vars(Step(t))

-----------------------------------------------------------------------------
(* Properties *)

TypeOK ==
  /\ sense \in {0, 1}
  /\ count \in Nat
  /\ threadsense \in [Threads -> {0, 1}]
  /\ pc \in [Threads -> {"out", "wait", "last", "sense_left", "count_left"}]
  /\ entered \in [Threads -> Nat]
  /\ left \in [Threads -> Nat]
  /\ in_order \in BOOLEAN

\* Nobody returns from a call that another thread has not begun, however the
\* calls of successive rounds overlap and in whichever order the two stores of
\* the last thread become visible.
Barrier == INSTANCE PhaseBarrier
BarrierSpec == Barrier!Spec

\* Only one thread at a time takes itself for the last one, and while it has not
\* published its sense every other thread waits.
OneLast ==
  \A t, u \in Threads :
    t # u /\ pc[t] \in {"last", "sense_left"} => pc[u] = "wait" /\ entered[u] = entered[t]

\* With stores in order no arrival is lost: the count is that of the threads
\* waiting for the next change of the sense.
NoArrivalLost ==
  in_order /\ ~(\E t \in Threads : pc[t] = "sense_left") =>
    count = Cardinality({ t \in Threads : pc[t] \in {"wait", "last"}
                                          /\ sense # threadsense[t] })

\* With stores in order every call returns, in every round.
EveryCallReturns ==
  \A t \in Threads : in_order /\ left[t] < entered[t] ~> left[t] = entered[t]

=============================================================================
