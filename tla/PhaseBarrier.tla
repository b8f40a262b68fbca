---------------------------- MODULE PhaseBarrier ----------------------------
(* What a barrier promises its callers: no thread is through its n-th call *)
(* before every thread has begun its n-th call.                            *)
EXTENDS Naturals

CONSTANTS
  Threads,        \* the harts that call barrier()
  Rounds          \* how many times each of them calls it

VARIABLES
  entered,        \* the calls each thread has begun
  left            \* the calls it has returned from

Init ==
  /\ entered = [t \in Threads |-> 0]
  /\ left = [t \in Threads |-> 0]

Enter(t) ==
  /\ entered[t] = left[t] /\ entered[t] < Rounds
  /\ entered' = [entered EXCEPT ![t] = @ + 1]
  /\ left' = left

Leave(t) ==
  /\ left[t] < entered[t]
  /\ \A u \in Threads : entered[t] <= entered[u]
  /\ left' = [left EXCEPT ![t] = entered[t]]
  /\ entered' = entered

Next == \E t \in Threads : Enter(t) \/ Leave(t)

Spec == Init /\ [][Next]_<< entered, left >>

=============================================================================
