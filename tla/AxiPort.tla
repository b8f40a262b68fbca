------------------------------ MODULE AxiPort ------------------------------
(***************************************************************************)
(* One AXI port of the testbench (AxiPort::update_a and update_b of        *)
(* rocket-main and boom-main), driven by the simulation loop against the   *)
(* simulated processor.                                                    *)
(*                                                                         *)
(* An iteration of the loop runs the four locations of `pc' in order:      *)
(*   "update_a"  sample the design's outputs, serve the port, drive inputs *)
(*   "eval"      let the combinational logic of the design settle          *)
(*   "update_b"  sample again, complete the R and B handshakes             *)
(*   "clock"     the rising edge: the design sees the handshakes           *)
(* The port therefore decides what was handed over from two samples taken  *)
(* before the edge, and the design decides it from the pins at the edge.   *)
(*                                                                         *)
(* A channel's valid signal and its payload are one value, None when valid *)
(* is low.  The design is external: it is an AXI manager whose valids and  *)
(* payloads are registered (they change at the edge, and not while they    *)
(* wait for ready) and whose R and B readies are combinational.            *)
(***************************************************************************)
EXTENDS AxiBurst

CONSTANTS
  Strobes,        \* the byte strobes the design drives with a write beat
  Garbage         \* what the uninitialised id, addr and size members may hold

ASSUME StrobesAssumption == Strobes \subseteq SUBSET Lanes

ASSUME GarbageAssumption ==
  Garbage \subseteq [id : Nat, addr : Nat, bytes : {1, 2, 4, 8}]

VARIABLES
  pc,             \* where the simulation loop is
  memory,         \* the testbench's memory
  \* AxiPort::in, what the port drives into the design
  aw_ready, w_ready, ar_ready, r, b,
  \* AxiPort::out, the port's copy of the design's outputs
  out,
  \* the private members of AxiPort
  read_beats_left, read_id, read_addr, read_size,
  write_beats_left, write_id, write_addr, write_size, write_acked,
  \* the design: its output wires, and the bursts it has in flight
  wires, m_read, m_write,
  \* what the handshakes at the edge amount to, for the properties
  store, got_r, got_b

inputs   == << aw_ready, w_ready, ar_ready, r, b >>
readReg  == << read_beats_left, read_id, read_addr, read_size >>
writeReg == << write_beats_left, write_id, write_addr, write_size, write_acked >>
design   == << m_read, m_write, store, got_r, got_b >>
vars     == << pc, memory, inputs, out, readReg, writeReg, wires, design >>

Init ==
  /\ pc = "update_a"
  /\ memory \in Images
  /\ store = memory
  /\ aw_ready = FALSE /\ w_ready = FALSE /\ ar_ready = FALSE
  /\ r = None /\ b = None
  /\ read_beats_left = 0
  /\ \E g \in Garbage : read_id = g.id /\ read_addr = g.addr /\ read_size = g.bytes
  /\ write_beats_left = 0
  /\ \E g \in Garbage : write_id = g.id /\ write_addr = g.addr /\ write_size = g.bytes
  /\ write_acked = TRUE
  /\ wires = [ar |-> None, aw |-> None, w |-> None, r_ready |-> FALSE, b_ready |-> FALSE]
  /\ out = wires
  /\ m_read = None /\ m_write = None
  /\ got_r = None /\ got_b = None

-----------------------------------------------------------------------------
(* AxiPort::update_a *)

\* Mutant: the last beat of a burst is never presented.
PresentReadButLast ==
  r' = IF read_beats_left > 1
       THEN [id |-> read_id, data |-> ReadFn(memory, read_addr), last |-> FALSE]
       ELSE None

\* Mutant: the last flag is one beat late.
PresentReadLateLast ==
  r' = IF read_beats_left > 0
       THEN [id   |-> read_id,
             data |-> ReadFn(memory, read_addr),
             last |-> read_beats_left = 0]
       ELSE None

PresentRead ==
  r' = IF read_beats_left > 0
       THEN [id   |-> read_id,
             data |-> ReadFn(memory, read_addr),
             last |-> read_beats_left = 1]
       ELSE None

PresentAck ==
  b' = IF write_beats_left = 0 /\ ~write_acked THEN write_id ELSE None

\* out is assigned by the loop just before: its new value is the sample.
WriteTaken == out'.w # None /\ write_beats_left > 0

\* Mutant: the size mask is shifted by the whole address.
WriteMaskUnreduced ==
  out'.w.strb \cap { l \in Lanes : write_addr <= l /\ l < write_addr + write_size }

WriteMask == out'.w.strb \cap SizeLanes(write_addr, write_size)

MaskAssert == WriteMask = Lanes

\* Mutant: the assertion comes after the counter is decremented.
LastAssertAfterCount == out'.w.last <=> write_beats_left - 1 = 1

LastAssert == out'.w.last <=> write_beats_left = 1

\* Mutant: the address advances before the data is stored.
HandleWriteDataLate ==
  /\ w_ready' = (write_beats_left > 0)
  /\ memory' = IF WriteTaken
               THEN MapWrite(memory, NextAddr(write_addr, write_size), out'.w.data)
               ELSE memory

HandleWriteData ==
  /\ w_ready' = (write_beats_left > 0)
  /\ memory' = IF WriteTaken THEN MapWrite(memory, write_addr, out'.w.data) ELSE memory

BeatsLeftAfterData == IF WriteTaken THEN write_beats_left - 1 ELSE write_beats_left

AcceptReads ==
  /\ ar_ready' = (read_beats_left = 0)
  /\ IF out'.ar # None /\ ar_ready'
     THEN /\ read_beats_left' = out'.ar.len + 1
          /\ read_id' = out'.ar.id
          /\ read_addr' = out'.ar.addr
          /\ read_size' = out'.ar.bytes
     ELSE UNCHANGED readReg

\* Mutant: write_acked is not cleared for a new burst.
AcceptWritesKeepAcked ==
  /\ aw_ready' = (BeatsLeftAfterData = 0 /\ write_acked)
  /\ IF out'.aw # None /\ aw_ready'
     THEN /\ write_beats_left' = out'.aw.len + 1
          /\ write_id' = out'.aw.id
          /\ write_addr' = out'.aw.addr
          /\ write_size' = out'.aw.bytes
     ELSE /\ write_beats_left' = BeatsLeftAfterData
          /\ write_addr' = IF WriteTaken THEN NextAddr(write_addr, write_size)
                           ELSE write_addr
          /\ UNCHANGED << write_id, write_size >>
  /\ UNCHANGED write_acked

AcceptWrites ==
  /\ aw_ready' = (BeatsLeftAfterData = 0 /\ write_acked)
  /\ IF out'.aw # None /\ aw_ready'
     THEN /\ write_beats_left' = out'.aw.len + 1
          /\ write_id' = out'.aw.id
          /\ write_addr' = out'.aw.addr
          /\ write_size' = out'.aw.bytes
          /\ write_acked' = FALSE
     ELSE /\ write_beats_left' = BeatsLeftAfterData
          /\ write_addr' = IF WriteTaken THEN NextAddr(write_addr, write_size)
                           ELSE write_addr
          /\ UNCHANGED << write_id, write_size, write_acked >>

\* Mutant: the write data is handled before the read data is presented.
UpdateAWriteFirst ==
  /\ pc = "update_a"
  /\ out' = wires
  /\ WriteTaken => MaskAssert /\ LastAssert
  /\ HandleWriteData
  /\ r' = IF read_beats_left > 0
          THEN [id |-> read_id, data |-> ReadFn(memory', read_addr),
                last |-> read_beats_left = 1]
          ELSE None
  /\ PresentAck
  /\ AcceptReads
  /\ AcceptWrites
  /\ pc' = "eval"
  /\ UNCHANGED << wires, design >>

\* mem_port.out = model.get_mem(); mem_port.update_a(); model.set_mem(mem_port.in)
UpdateA ==
  /\ pc = "update_a"
  /\ out' = wires
  /\ WriteTaken => MaskAssert /\ LastAssert
  /\ PresentRead
  /\ PresentAck
  /\ HandleWriteData
  /\ AcceptReads
  /\ AcceptWrites
  /\ pc' = "eval"
  /\ UNCHANGED << wires, design >>

\* The two assertions on a write beat, in their order; either ends the program.
AssertFails ==
  /\ pc = "update_a"
  /\ out' = wires
  /\ WriteTaken
  /\ ~(MaskAssert /\ LastAssert)
  /\ pc' = IF MaskAssert THEN "last_assert" ELSE "mask_assert"
  /\ UNCHANGED << memory, inputs, readReg, writeReg, wires, design >>

-----------------------------------------------------------------------------
(* AxiPort::update_b *)

\* Mutant: a beat counts as taken without the port's valid.
CompleteReadUnoffered ==
  IF out'.r_ready
  THEN /\ read_beats_left' = read_beats_left - 1
       /\ read_addr' = NextAddr(read_addr, read_size)
       /\ UNCHANGED << read_id, read_size >>
  ELSE UNCHANGED readReg

\* Mutant: the address advances under a beat that is not taken.
CompleteReadAddrAdvances ==
  IF r # None
  THEN /\ read_beats_left' = IF out'.r_ready THEN read_beats_left - 1 ELSE read_beats_left
       /\ read_addr' = NextAddr(read_addr, read_size)
       /\ UNCHANGED << read_id, read_size >>
  ELSE UNCHANGED readReg

CompleteRead ==
  IF r # None /\ out'.r_ready
  THEN /\ read_beats_left' = read_beats_left - 1
       /\ read_addr' = NextAddr(read_addr, read_size)
       /\ UNCHANGED << read_id, read_size >>
  ELSE UNCHANGED readReg

\* Mutant: the acknowledge is never recorded.
CompleteWriteUnrecorded == UNCHANGED writeReg

CompleteWrite ==
  /\ write_acked' = (write_acked \/ (b # None /\ out'.b_ready))
  /\ UNCHANGED << write_beats_left, write_id, write_addr, write_size >>

\* Mutant: the outputs are not sampled again after eval.
UpdateBStale ==
  /\ pc = "update_b"
  /\ out' = out
  /\ CompleteRead
  /\ CompleteWrite
  /\ pc' = "clock"
  /\ UNCHANGED << memory, inputs, wires, design >>

\* mem_port.out = model.get_mem(); mem_port.update_b(); model.set_mem(mem_port.in)
UpdateB ==
  /\ pc = "update_b"
  /\ out' = wires
  /\ CompleteRead
  /\ CompleteWrite
  /\ pc' = "clock"
  /\ UNCHANGED << memory, inputs, wires, design >>

-----------------------------------------------------------------------------
(* The design (external) *)

\* model.eval(): only the combinational readies may change.
EvalTo(r_ready, b_ready) ==
  /\ pc = "eval"
  /\ wires' = [wires EXCEPT !.r_ready = r_ready, !.b_ready = b_ready]
  /\ pc' = "update_b"
  /\ UNCHANGED << memory, inputs, out, readReg, writeReg, design >>

Eval == \E r_ready, b_ready \in BOOLEAN : EvalTo(r_ready, b_ready)

ArHandshake == wires.ar # None /\ ar_ready
AwHandshake == wires.aw # None /\ aw_ready
WHandshake  == wires.w  # None /\ w_ready
RHandshake  == r # None /\ wires.r_ready
BHandshake  == b # None /\ wires.b_ready

ReadBurst ==
  /\ m_read' = IF ArHandshake THEN [req |-> wires.ar, beat |-> 0]
               ELSE IF RHandshake /\ r.last THEN None
               ELSE IF RHandshake /\ m_read # None THEN [m_read EXCEPT !.beat = @ + 1]
               ELSE m_read
  /\ got_r' = IF RHandshake THEN r ELSE None

WriteBurst ==
  /\ m_write' = IF AwHandshake THEN [req |-> wires.aw, beat |-> 0]
                ELSE IF BHandshake THEN None
                ELSE IF WHandshake /\ m_write # None THEN [m_write EXCEPT !.beat = @ + 1]
                ELSE m_write
  /\ store' = IF WHandshake /\ m_write # None
              THEN MapWrite(store, BeatAddr(m_write.req, m_write.beat), wires.w.data)
              ELSE store
  /\ got_b' = IF BHandshake THEN b ELSE None

WBeat(d, s, last) == [data |-> d, strb |-> s, last |-> last]

\* The burst the next data beat belongs to: the one in flight, or, data being
\* allowed to come early, the one whose address is offered.
NextBeats(burst, aw) ==
  IF burst # None /\ burst.beat <= burst.req.len
  THEN { burst.beat = burst.req.len }
  ELSE IF aw # None THEN { 0 = aw.len } ELSE {}

\* An offer that was not taken stays as it is; otherwise a new one may follow.
NewWires(ar, aw, w) ==
  /\ wires' = [wires EXCEPT !.ar = ar, !.aw = aw, !.w = w]
  /\ IF wires.ar # None /\ ~ar_ready THEN ar = wires.ar ELSE ar \in Reads \cup {None}
  /\ IF wires.aw # None /\ ~aw_ready THEN aw = wires.aw ELSE aw \in Writes \cup {None}
  /\ IF wires.w # None /\ ~w_ready THEN w = wires.w
     ELSE w = None \/ \E last \in NextBeats(m_write', aw), d \in Data, s \in Strobes :
                        w = WBeat(d, s, last)

WriteData == { WBeat(d, s, last) : d \in Data, s \in Strobes, last \in BOOLEAN }

\* model.clock(): set_clock(true), eval, set_clock(false), eval
ClockTo(ar, aw, w) ==
  /\ pc = "clock"
  /\ ReadBurst
  /\ WriteBurst
  /\ NewWires(ar, aw, w)
  /\ pc' = "update_a"
  /\ UNCHANGED << memory, inputs, out, readReg, writeReg >>

Clock ==
  \E ar \in Reads \cup {None}, aw \in Writes \cup {None}, w \in WriteData \cup {None} :
    ClockTo(ar, aw, w)

\* A failed assertion ends the simulation.
Aborted == pc \in {"mask_assert", "last_assert"} /\ UNCHANGED vars

Next ==
  \/ UpdateA \/ AssertFails
  \/ Eval
  \/ UpdateB
  \/ Clock
  \/ Aborted

Spec == Init /\ [][Next]_vars

-----------------------------------------------------------------------------
(* Properties *)

Burst == [req : Request, beat : Nat]

IsMap(m) ==
  /\ m = [w \in DOMAIN m |-> m[w]]
  /\ DOMAIN m \subseteq Nat
  /\ \A w \in DOMAIN m : m[w] \in Data

Outputs ==
  [ar : Reads \cup {None}, aw : Writes \cup {None}, w : WriteData \cup {None},
   r_ready : BOOLEAN, b_ready : BOOLEAN]

\* The type invariant.  The unsigned beat counters never wrap below zero.
TypeOK ==
  /\ pc \in {"update_a", "eval", "update_b", "clock", "mask_assert", "last_assert"}
  /\ IsMap(memory) /\ IsMap(store)
  /\ aw_ready \in BOOLEAN /\ w_ready \in BOOLEAN /\ ar_ready \in BOOLEAN
  /\ r # None => r.id \in Nat /\ r.last \in BOOLEAN
  /\ b \in Nat \cup {None}
  /\ out \in Outputs /\ wires \in Outputs
  /\ read_beats_left \in Nat /\ read_id \in Nat /\ read_addr \in Nat
  /\ read_size \in {1, 2, 4, 8}
  /\ write_beats_left \in Nat /\ write_id \in Nat /\ write_addr \in Nat
  /\ write_size \in {1, 2, 4, 8} /\ write_acked \in BOOLEAN
  /\ m_read \in Burst \cup {None} /\ m_write \in Burst \cup {None}
  /\ m_read # None => m_read.req \in Reads /\ m_read.beat <= m_read.req.len
  /\ m_write # None => m_write.req \in Writes /\ m_write.beat <= m_write.req.len + 1

\* The inputs of this iteration are on the pins.
Driven == pc \in {"eval", "update_b", "clock"}

Advance(burst) == [burst EXCEPT !.beat = @ + 1]

\* The read burst of the design, counting the handshakes the port has already
\* acted upon although the edge that makes them happen is still to come.
ReadCounted ==
  IF Driven /\ ArHandshake THEN [req |-> wires.ar, beat |-> 0]
  ELSE IF pc = "clock" /\ RHandshake
       THEN IF m_read.beat = m_read.req.len THEN None ELSE Advance(m_read)
  ELSE m_read

WriteCounted ==
  IF Driven /\ AwHandshake THEN [req |-> wires.aw, beat |-> 0]
  ELSE IF Driven /\ WHandshake THEN Advance(m_write)
  ELSE IF pc = "clock" /\ BHandshake THEN None
  ELSE m_write

\* The port's bookkeeping agrees with the design about the read burst in
\* flight: the port counts handshakes in two samples before the edge
\* (update_a, update_b), the design at the edge, and none is lost, invented or
\* counted twice whatever the design's readies do in between.
ReadAgreement ==
  IF ReadCounted = None THEN read_beats_left = 0
  ELSE /\ read_beats_left = (ReadCounted.req.len + 1) - ReadCounted.beat
       /\ read_id = ReadCounted.req.id
       /\ read_size = ReadCounted.req.bytes
       /\ read_addr = BeatAddr(ReadCounted.req, ReadCounted.beat)

\* The same for the write burst in flight, up to its acknowledge.
WriteAgreement ==
  /\ write_acked <=> WriteCounted = None
  /\ IF WriteCounted = None THEN write_beats_left = 0
     ELSE /\ write_beats_left = (WriteCounted.req.len + 1) - WriteCounted.beat
          /\ write_id = WriteCounted.req.id
          /\ write_size = WriteCounted.req.bytes
          /\ write_addr = BeatAddr(WriteCounted.req, WriteCounted.beat)

\* The testbench's memory is what the handed-over data beats make of it; a beat
\* written by update_a is one the coming edge does hand over.
MemoryAgreement ==
  memory = IF Driven /\ WHandshake
           THEN MapWrite(store, BeatAddr(m_write.req, m_write.beat), wires.w.data)
           ELSE store

\* What the port offers on its five channels is what the design is waiting for:
\* a read beat only for the burst in flight, with that burst's id, the word its
\* address held before this cycle's write, and the last flag on its last beat;
\* data accepted only for an accepted address; an acknowledge only after the
\* last beat.  No uninitialised id, address or size ever shows.
PinsMatchBursts ==
  Driven =>
    /\ ar_ready <=> m_read = None
    /\ r = IF m_read = None THEN None
           ELSE [id   |-> m_read.req.id,
                 data |-> ReadFn(store, BeatAddr(m_read.req, m_read.beat)),
                 last |-> m_read.beat = m_read.req.len]
    /\ aw_ready <=> m_write = None
    /\ w_ready <=> m_write # None /\ m_write.beat <= m_write.req.len
    /\ b = IF m_write # None /\ m_write.beat = m_write.req.len + 1
           THEN m_write.req.id ELSE None

\* A data beat the design offers is flagged last exactly when it ends the burst
\* it belongs to (the design's side of the protocol, kept by Clock).
OfferedLastIsRight ==
  wires.w # None => wires.w.last \in NextBeats(m_write, wires.aw)

\* assert(out.w_last == (write_beats_left == 1)) never fails: the port and the
\* design count the beats of every write burst alike.
LastAssertNeverFails == pc # "last_assert"

\* "only full 64 bit write supported" is raised for a narrow burst, for the
\* first beat of a burst that starts off a word boundary, or for a beat with
\* bytes disabled, and for nothing else.
MaskAssertOnlyForPartialBeats ==
  pc = "mask_assert" =>
    \/ m_write.req.bytes < 8
    \/ m_write.beat = 0 /\ m_write.req.addr % 8 # 0
    \/ wires.w.strb # Lanes

SameWord(a1, a2) == a1 \div 8 = a2 \div 8

\* The last edge handed over a write beat to the word the read burst is at; until
\* update_a samples again, `out' and `w_ready' are what they were at that edge.
WroteWordRead ==
  /\ out.w # None /\ w_ready
  /\ SameWord(BeatAddr(m_write.req, m_write.beat - 1), BeatAddr(m_read.req, m_read.beat))

\* A read beat the design did not take is offered again in the next cycle, at the
\* place where the design's burst is: the same beat, unless the edge in between
\* handed over a write to that very word, and then with the word written.  The port
\* reads the memory anew for every cycle of the stall (update_a), while the write
\* channel goes on and update_b decides on its address.
StalledBeatKeepsItsPlace ==
  [][ pc = "update_a" /\ pc' = "eval" /\ r # None /\ got_r = None =>
        /\ m_read # None /\ m_read' = m_read
        /\ r' = [id   |-> r.id,
                 data |-> IF WroteWordRead THEN out.w.data ELSE r.data,
                 last |-> r.last]
        /\ r'.data = ReadFn(store, BeatAddr(m_read.req, m_read.beat)) ]_vars

\* The port with the simulation loop around it implements the memory the design
\* was promised: one cycle of AxiMemory per edge.
Memory == INSTANCE AxiMemory WITH reading <- m_read, writing <- m_write
MemorySpec == Memory!Spec
-----------------------------------------------------------------------------
(* Fairness: the loop does not stop, and the design keeps taking what it asked *)
(* for: again and again it is ready for read beats and acknowledges, and       *)
(* offers the data of a burst it has announced.                                *)
Fairness ==
  /\ WF_vars(Next)
  /\ SF_vars(\E b_ready \in BOOLEAN : EvalTo(TRUE, b_ready))
  /\ SF_vars(\E r_ready \in BOOLEAN : EvalTo(r_ready, TRUE))
  /\ SF_vars(Clock /\ wires'.w # None)

FairSpec == Spec /\ Fairness

\* Every address offered is accepted, and every burst accepted is finished: the
\* port never holds ready low for good, whatever the two channels interleave.
ReadsServed ==
  /\ wires.ar # None ~> pc = "clock" /\ ArHandshake
  /\ m_read # None ~> m_read = None

WritesServed ==
  /\ wires.aw # None ~> pc = "clock" /\ AwHandshake
  /\ m_write # None ~> m_write = None

=============================================================================
