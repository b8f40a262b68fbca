----------------------------- MODULE MCLockstep -----------------------------
(* A small design for TLC: four states that walk 0 -> 1 -> 2 or 3, the exit. *)
(* Two of them show the same ports, so a model may stray without being seen. *)
EXTENDS Lockstep

MCStates == 0 .. 3
MCInputs == {"idle", "go"}
MCPorts == {"aw_valid", "w_data"}
MCOutput(s) == [p \in MCPorts |-> IF p = "aw_valid" THEN s = 3 ELSE s \div 2]
MCStep(s, in) ==
  CASE s = 0 -> 1
    [] s = 1 -> IF in = "go" THEN 3 ELSE 2
    [] s = 2 -> IF in = "go" THEN 0 ELSE 1
    [] s = 3 -> 3
=============================================================================
