------------------------------ MODULE AxiMemory ------------------------------
(***************************************************************************)
(* What the testbench promises the simulated processor on one AXI port: a  *)
(* memory that serves one read burst and one write burst at a time.  One   *)
(* step is one clock cycle as the processor sees it.                       *)
(*                                                                         *)
(*   - an accepted read is answered by exactly len + 1 beats, in the order *)
(*     of the incrementing burst, each with the request's id and with the  *)
(*     value the memory held when the cycle began, the last one flagged;   *)
(*   - an accepted write takes exactly len + 1 data beats, every one of    *)
(*     them reaches the memory at its own address, and then exactly one    *)
(*     acknowledge with the request's id follows.                          *)
(***************************************************************************)
EXTENDS AxiBurst

VARIABLES
  store,          \* the memory: a partial function from word index to word
  reading,        \* the read burst in flight, with the beats it has received
  writing,        \* the write burst in flight, with the beats it has sent
  got_r,          \* the read beat of the last cycle, or None
  got_b           \* the acknowledged id of the last cycle, or None

vars == << store, reading, writing, got_r, got_b >>

Init ==
  /\ store \in Images
  /\ reading = None
  /\ writing = None
  /\ got_r = None
  /\ got_b = None

-----------------------------------------------------------------------------
(* The read channels *)

ReadIdle == reading' = reading /\ got_r' = None

AcceptRead ==
  /\ reading = None
  /\ \E q \in Reads : reading' = [req |-> q, beat |-> 0]
  /\ got_r' = None

DeliverRead ==
  /\ reading # None
  /\ LET last == reading.beat = reading.req.len
     IN  /\ got_r' = [id   |-> reading.req.id,
                      data |-> ReadFn(store, BeatAddr(reading.req, reading.beat)),
                      last |-> last]
         /\ reading' = IF last THEN None ELSE [reading EXCEPT !.beat = @ + 1]

(* The write channels *)

WriteIdle == writing' = writing /\ store' = store /\ got_b' = None

AcceptWrite ==
  /\ writing = None
  /\ \E q \in Writes : writing' = [req |-> q, beat |-> 0]
  /\ store' = store
  /\ got_b' = None

TakeBeat ==
  /\ writing # None
  /\ writing.beat <= writing.req.len
  /\ \E d \in Data : store' = MapWrite(store, BeatAddr(writing.req, writing.beat), d)
  /\ writing' = [writing EXCEPT !.beat = @ + 1]
  /\ got_b' = None

Acknowledge ==
  /\ writing # None
  /\ writing.beat = writing.req.len + 1
  /\ got_b' = writing.req.id
  /\ writing' = None
  /\ store' = store

Cycle ==
  /\ ReadIdle \/ AcceptRead \/ DeliverRead
  /\ WriteIdle \/ AcceptWrite \/ TakeBeat \/ Acknowledge

Spec == Init /\ [][Cycle]_vars

=============================================================================
