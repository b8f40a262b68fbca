---------------------------- MODULE MCRiscinator ----------------------------
(* Small instances of Riscinator for TLC: two words of memory at 32, addresses *)
(* of 8 bits and a size_t of 12.                                               *)
EXTENDS Riscinator

Uniform(b) == [l \in Lanes |-> b]
Load(a) == [we |-> FALSE, addr |-> a]
Store(a, be, b) == [we |-> TRUE, addr |-> a, be |-> be, data |-> Uniform(b)]

MCImages == { [w \in 0 .. 1 |-> Uniform(0)] }
\* The last word, one past it, one below the base, and two off a word boundary.
MCFetches == { 34, 36, 28 }
MCLoads == { Load(36), Load(40) }
MCStores == { Store(32, Lanes, 1), Store(36, {1}, 1), Store(28, Lanes, 1), Store(240, Lanes, 1) }
MCExpected == { [addr |-> 32, value |-> Uniform(1)] }
=============================================================================
