--------------------------- MODULE AxiPortProofs ---------------------------
(* Proofs about AxiPort, for every set of requests, data words and strobes. *)
EXTENDS AxiPort, TLAPS

IInv ==
  /\ TypeOK
  /\ ReadAgreement
  /\ WriteAgreement
  /\ MemoryAgreement
  /\ PinsMatchBursts
  /\ OfferedLastIsRight

LEMMA BeatAddrSteps ==
  ASSUME NEW q \in Request, NEW k \in Nat
  PROVE  /\ BeatAddr(q, k) \in Nat
         /\ NextAddr(BeatAddr(q, k), q.bytes) = BeatAddr(q, k + 1)
<1>1. q.addr \in Nat /\ q.bytes \in {1, 2, 4, 8}
  BY DEF Request
<1>2. CASE q.bytes = 1
  BY <1>1, <1>2 DEF BeatAddr, NextAddr
<1>3. CASE q.bytes = 2
  BY <1>1, <1>3 DEF BeatAddr, NextAddr
<1>4. CASE q.bytes = 4
  BY <1>1, <1>4 DEF BeatAddr, NextAddr
<1>5. CASE q.bytes = 8
  BY <1>1, <1>5 DEF BeatAddr, NextAddr
<1>6. QED
  BY <1>1, <1>2, <1>3, <1>4, <1>5

LEMMA MapWriteIsMap ==
  ASSUME NEW m, IsMap(m), NEW a \in Nat, NEW d \in Data
  PROVE  IsMap(MapWrite(m, a, d))
<1>1. a \div 8 \in Nat
  OBVIOUS
<1>2. DOMAIN MapWrite(m, a, d) = DOMAIN m \cup {a \div 8}
  BY DEF MapWrite
<1>3. \A w \in DOMAIN m \cup {a \div 8} :
        MapWrite(m, a, d)[w] = IF w = a \div 8 THEN d ELSE m[w]
  BY DEF MapWrite
<1>4. MapWrite(m, a, d) = [w \in DOMAIN MapWrite(m, a, d) |-> MapWrite(m, a, d)[w]]
  BY <1>2, <1>3 DEF MapWrite
<1>5. QED
  BY <1>1, <1>2, <1>3, <1>4 DEF IsMap

LEMMA InitEstablishes == Init => IInv
<1> SUFFICES ASSUME Init PROVE IInv
  OBVIOUS
<1> USE RequestsAssumption, NoneAssumption, GarbageAssumption DEF Init
<1>1. IsMap(memory) /\ store = memory
  BY ImagesAssumption DEF IsMap
<1>2. wires \in Outputs /\ out = wires
  BY DEF Outputs
<1>3. /\ read_id \in Nat /\ read_addr \in Nat /\ read_size \in {1, 2, 4, 8}
      /\ write_id \in Nat /\ write_addr \in Nat /\ write_size \in {1, 2, 4, 8}
  OBVIOUS
<1>4. TypeOK
  BY <1>1, <1>2, <1>3 DEF TypeOK
<1>5. ReadAgreement /\ WriteAgreement /\ MemoryAgreement
  BY DEF ReadAgreement, WriteAgreement, MemoryAgreement, ReadCounted, WriteCounted, Driven
<1>6. PinsMatchBursts /\ OfferedLastIsRight
  BY DEF PinsMatchBursts, OfferedLastIsRight, Driven
<1>7. QED
  BY <1>4, <1>5, <1>6 DEF IInv

LEMMA UpdateAPreserves == IInv /\ UpdateA => IInv'
<1> SUFFICES ASSUME IInv, UpdateA PROVE IInv'
  OBVIOUS
<1> USE RequestsAssumption, NoneAssumption
<1>1. /\ pc = "update_a" /\ pc' = "eval" /\ ~Driven /\ Driven'
      /\ wires \in Outputs /\ wires' = wires /\ out' = wires
      /\ UNCHANGED << m_read, m_write, store, got_r, got_b >>
      /\ memory = store
  BY DEF IInv, TypeOK, UpdateA, Driven, MemoryAgreement, design
<1>2. /\ m_read # None => /\ m_read \in Burst /\ m_read.req \in Reads
                          /\ m_read.req \in Request /\ m_read.beat \in Nat
                          /\ m_read.beat <= m_read.req.len
      /\ m_write # None => /\ m_write \in Burst /\ m_write.req \in Writes
                           /\ m_write.req \in Request /\ m_write.beat \in Nat
                           /\ m_write.beat <= m_write.req.len + 1
  BY DEF IInv, TypeOK, Burst
<1>3. IF m_read = None THEN read_beats_left = 0
      ELSE /\ read_beats_left = (m_read.req.len + 1) - m_read.beat
           /\ read_id = m_read.req.id
           /\ read_size = m_read.req.bytes
           /\ read_addr = BeatAddr(m_read.req, m_read.beat)
  BY <1>1 DEF IInv, ReadAgreement, ReadCounted
<1>4. /\ write_acked <=> m_write = None
      /\ IF m_write = None THEN write_beats_left = 0
         ELSE /\ write_beats_left = (m_write.req.len + 1) - m_write.beat
              /\ write_id = m_write.req.id
              /\ write_size = m_write.req.bytes
              /\ write_addr = BeatAddr(m_write.req, m_write.beat)
  BY <1>1 DEF IInv, WriteAgreement, WriteCounted
<1>5. read_beats_left > 0 <=> m_read # None
  BY <1>2, <1>3 DEF Request
<1>6. write_beats_left > 0 <=> m_write # None /\ m_write.beat <= m_write.req.len
  BY <1>2, <1>4 DEF Request
<1>7. write_beats_left = 0 /\ ~write_acked
        <=> m_write # None /\ m_write.beat = m_write.req.len + 1
  BY <1>2, <1>4 DEF Request
<1>8. WriteTaken <=> wires.w # None /\ m_write # None /\ m_write.beat <= m_write.req.len
  BY <1>1, <1>6 DEF WriteTaken
<1>9. WHandshake' <=> WriteTaken
  BY <1>1 DEF WHandshake, WriteTaken, UpdateA, HandleWriteData
<1>10. aw_ready' <=> m_write = None
  BY <1>2, <1>4, <1>6, <1>8 DEF UpdateA, AcceptWrites, BeatsLeftAfterData
<1>11. PinsMatchBursts'
  <2>1. /\ ar_ready' <=> m_read' = None
        /\ w_ready' <=> m_write' # None /\ m_write'.beat <= m_write'.req.len
        /\ aw_ready' <=> m_write' = None
    <3>1. ar_ready' = (read_beats_left = 0) /\ w_ready' = (write_beats_left > 0)
      BY DEF UpdateA, HandleWriteData, AcceptReads
    <3>2. read_beats_left = 0 <=> m_read = None
      BY <1>2, <1>3 DEF Request
    <3>3. QED
      BY <1>1, <1>6, <1>10, <3>1, <3>2
  <2>2. r' = IF m_read' = None THEN None
             ELSE [id   |-> m_read'.req.id,
                   data |-> ReadFn(store', BeatAddr(m_read'.req, m_read'.beat)),
                   last |-> m_read'.beat = m_read'.req.len]
    <3>1. m_read # None => (read_beats_left = 1 <=> m_read.beat = m_read.req.len)
      BY <1>2, <1>3 DEF Request
    <3>2. CASE m_read = None
      BY <1>1, <1>5, <3>2 DEF UpdateA, PresentRead
    <3>3. CASE m_read # None
      <4>1. r' = [id |-> read_id, data |-> ReadFn(memory, read_addr),
                  last |-> read_beats_left = 1]
        BY <1>5, <3>3 DEF UpdateA, PresentRead
      <4>2. /\ read_id = m_read.req.id
            /\ memory = store
            /\ read_addr = BeatAddr(m_read.req, m_read.beat)
            /\ (read_beats_left = 1) = (m_read.beat = m_read.req.len)
        BY <1>1, <1>3, <3>1, <3>3
      <4>3. QED
        BY <1>1, <3>3, <4>1, <4>2
    <3>4. QED
      BY <3>2, <3>3
  <2>3. b' = IF m_write' # None /\ m_write'.beat = m_write'.req.len + 1
             THEN m_write'.req.id ELSE None
    BY <1>1, <1>4, <1>7 DEF UpdateA, PresentAck
  <2>4. QED
    BY <2>1, <2>2, <2>3 DEF PinsMatchBursts
<1>12. MemoryAgreement'
  BY <1>1, <1>4, <1>8, <1>9 DEF MemoryAgreement, UpdateA, HandleWriteData
<1>13. ReadAgreement'
  <2>1. CASE ArHandshake'
    BY <1>1, <2>1
    DEF ReadAgreement, ReadCounted, ArHandshake, UpdateA, AcceptReads, BeatAddr, Outputs, Request
  <2>2. CASE ~ArHandshake'
    BY <1>1, <1>3, <2>2
    DEF ReadAgreement, ReadCounted, ArHandshake, UpdateA, AcceptReads, readReg
  <2>3. QED
    BY <2>1, <2>2
<1>14. WriteAgreement'
  <2>1. CASE AwHandshake'
    BY <1>1, <2>1
    DEF WriteAgreement, WriteCounted, AwHandshake, UpdateA, AcceptWrites, BeatAddr, Outputs, Request
  <2>2. CASE ~AwHandshake' /\ WriteTaken
    <3>1. WriteCounted' = Advance(m_write)
      BY <1>1, <1>9, <2>2 DEF WriteCounted, Advance
    <3>2. /\ write_beats_left' = write_beats_left - 1
          /\ write_addr' = NextAddr(write_addr, write_size)
          /\ UNCHANGED << write_id, write_size, write_acked >>
      BY <1>1, <2>2 DEF UpdateA, AcceptWrites, AwHandshake, BeatsLeftAfterData
    <3>3. write_addr' = BeatAddr(m_write.req, m_write.beat + 1)
      BY <1>2, <1>4, <1>8, <2>2, <3>2, BeatAddrSteps
    <3>4. /\ Advance(m_write) = [req |-> m_write.req, beat |-> m_write.beat + 1]
          /\ Advance(m_write) # None
      BY <1>2, <1>8, <2>2 DEF Advance, Burst
    <3>5. QED
      BY <1>2, <1>4, <1>8, <2>2, <3>1, <3>2, <3>3, <3>4 DEF WriteAgreement, Request
  <2>3. CASE ~AwHandshake' /\ ~WriteTaken
    <3>1. WriteCounted' = m_write
      BY <1>1, <1>9, <2>3 DEF WriteCounted
    <3>2. UNCHANGED writeReg
      BY <1>1, <2>3 DEF UpdateA, AcceptWrites, AwHandshake, BeatsLeftAfterData, writeReg
    <3>3. QED
      BY <1>4, <3>1, <3>2 DEF WriteAgreement, writeReg
  <2>4. QED
    BY <2>2, <2>1, <2>3
<1>15. OfferedLastIsRight'
  BY <1>1 DEF IInv, OfferedLastIsRight, NextBeats
<1>16. TypeOK'
  <2>1. IsMap(memory')
    <3>1. CASE WriteTaken
      <4>1. wires.w.data \in Data /\ write_addr \in Nat
        BY <1>8, <1>1, <3>1 DEF Outputs, WriteData, WBeat, IInv, TypeOK
      <4>2. QED
        BY <1>1, <3>1, <4>1, MapWriteIsMap DEF UpdateA, HandleWriteData, IInv, TypeOK
    <3>2. CASE ~WriteTaken
      BY <3>2 DEF UpdateA, HandleWriteData, IInv, TypeOK
    <3>3. QED
      BY <3>1, <3>2
  <2>2. /\ aw_ready' \in BOOLEAN /\ w_ready' \in BOOLEAN /\ ar_ready' \in BOOLEAN
        /\ r' # None => r'.id \in Nat /\ r'.last \in BOOLEAN
        /\ b' \in Nat \cup {None}
    BY DEF UpdateA, PresentRead, PresentAck, HandleWriteData, AcceptReads, AcceptWrites, IInv, TypeOK
  <2>3. /\ read_beats_left' \in Nat /\ read_id' \in Nat /\ read_addr' \in Nat
        /\ read_size' \in {1, 2, 4, 8}
    BY <1>1 DEF UpdateA, AcceptReads, readReg, IInv, TypeOK, Outputs, Request
  <2>4. /\ write_beats_left' \in Nat /\ write_id' \in Nat
        /\ write_size' \in {1, 2, 4, 8} /\ write_acked' \in BOOLEAN
    <3>1. BeatsLeftAfterData \in Nat
      BY DEF BeatsLeftAfterData, WriteTaken, IInv, TypeOK
    <3>2. /\ write_beats_left \in Nat /\ write_id \in Nat
          /\ write_size \in {1, 2, 4, 8} /\ write_acked \in BOOLEAN
      BY DEF IInv, TypeOK
    <3>3. CASE out'.aw # None /\ aw_ready'
      <4>1. out'.aw \in Request
        BY <1>1, <3>3 DEF Outputs
      <4>2. /\ write_beats_left' = out'.aw.len + 1
            /\ write_id' = out'.aw.id
            /\ write_size' = out'.aw.bytes
            /\ write_acked' = FALSE
        BY <3>3 DEF UpdateA, AcceptWrites
      <4>3. out'.aw.len \in Nat /\ out'.aw.id \in Nat /\ out'.aw.bytes \in {1, 2, 4, 8}
        BY <4>1 DEF Request
      <4>4. write_beats_left' \in Nat /\ write_id' \in Nat /\ write_size' \in {1, 2, 4, 8}
        BY <4>2, <4>3
      <4>5. write_acked' \in BOOLEAN
        BY <4>2, Zenon
      <4>6. QED
        BY <4>4, <4>5
    <3>4. CASE ~(out'.aw # None /\ aw_ready')
      BY <3>1, <3>2, <3>4 DEF UpdateA, AcceptWrites
    <3>5. QED
      BY <3>3, <3>4
  <2>5. write_addr' \in Nat
    <3>1. WriteTaken => NextAddr(write_addr, write_size) \in Nat
      BY <1>2, <1>4, <1>8, BeatAddrSteps
    <3>2. QED
      BY <1>1, <3>1 DEF UpdateA, AcceptWrites, IInv, TypeOK, Outputs, Request
  <2>6. QED
    BY <1>1, <2>1, <2>2, <2>3, <2>4, <2>5 DEF IInv, TypeOK
<1>17. QED
  BY <1>11, <1>12, <1>13, <1>14, <1>15, <1>16 DEF IInv

LEMMA AbortsPreserve == IInv /\ AssertFails => IInv'
<1> SUFFICES ASSUME IInv, AssertFails PROVE IInv'
  OBVIOUS
<1>1. /\ pc = "update_a" /\ pc' \in {"mask_assert", "last_assert"}
      /\ out' = wires
      /\ UNCHANGED << memory, inputs, readReg, writeReg, wires, design >>
  BY DEF AssertFails
<1>2. ~Driven /\ ~Driven' /\ pc # "clock" /\ pc' # "clock"
  BY <1>1 DEF Driven
<1>3. TypeOK'
  BY <1>1 DEF IInv, TypeOK, inputs, readReg, writeReg, design
<1>4. ReadAgreement' /\ WriteAgreement'
  BY <1>1, <1>2
  DEF IInv, ReadAgreement, ReadCounted, WriteAgreement, WriteCounted, readReg, writeReg, design
<1>5. MemoryAgreement' /\ PinsMatchBursts' /\ OfferedLastIsRight'
  BY <1>1, <1>2
  DEF IInv, MemoryAgreement, PinsMatchBursts, OfferedLastIsRight, NextBeats, design
<1>6. QED
  BY <1>3, <1>4, <1>5 DEF IInv

LEMMA EvalPreserves == IInv /\ Eval => IInv'
<1> SUFFICES ASSUME IInv, NEW rr \in BOOLEAN, NEW br \in BOOLEAN, EvalTo(rr, br)
             PROVE  IInv'
  BY DEF Eval
<1>1. /\ pc = "eval" /\ pc' = "update_b" /\ Driven /\ Driven'
      /\ wires' = [wires EXCEPT !.r_ready = rr, !.b_ready = br]
      /\ UNCHANGED << memory, inputs, out, readReg, writeReg, design >>
  BY DEF EvalTo, Driven
<1>2. /\ wires' \in Outputs
      /\ wires'.ar = wires.ar /\ wires'.aw = wires.aw /\ wires'.w = wires.w
  BY <1>1 DEF IInv, TypeOK, Outputs
<1>3. /\ ArHandshake' <=> ArHandshake
      /\ AwHandshake' <=> AwHandshake
      /\ WHandshake' <=> WHandshake
  BY <1>1, <1>2 DEF ArHandshake, AwHandshake, WHandshake, inputs
<1>4. TypeOK'
  BY <1>1, <1>2 DEF IInv, TypeOK, inputs, readReg, writeReg, design
<1>5. ReadAgreement'
  BY <1>1, <1>2, <1>3 DEF IInv, ReadAgreement, ReadCounted, readReg, design
<1>6. WriteAgreement'
  BY <1>1, <1>2, <1>3 DEF IInv, WriteAgreement, WriteCounted, Advance, writeReg, design
<1>7. MemoryAgreement' /\ PinsMatchBursts' /\ OfferedLastIsRight'
  BY <1>1, <1>2, <1>3
  DEF IInv, MemoryAgreement, PinsMatchBursts, OfferedLastIsRight, NextBeats, inputs, design
<1>8. QED
  BY <1>4, <1>5, <1>6, <1>7 DEF IInv

LEMMA UpdateBPreserves == IInv /\ UpdateB => IInv'
<1> SUFFICES ASSUME IInv, UpdateB PROVE IInv'
  OBVIOUS
<1> USE RequestsAssumption, NoneAssumption
<1>1. /\ pc = "update_b" /\ pc' = "clock" /\ Driven /\ Driven'
      /\ out' = wires
      /\ UNCHANGED << memory, inputs, wires, design >>
  BY DEF UpdateB, Driven
<1>2. /\ ArHandshake' <=> ArHandshake
      /\ AwHandshake' <=> AwHandshake
      /\ WHandshake' <=> WHandshake
      /\ RHandshake' <=> RHandshake
      /\ BHandshake' <=> BHandshake
      /\ RHandshake <=> r # None /\ out'.r_ready
      /\ BHandshake <=> b # None /\ out'.b_ready
  BY <1>1 DEF ArHandshake, AwHandshake, WHandshake, RHandshake, BHandshake, inputs
<1>3. /\ m_read # None => /\ m_read \in Burst /\ m_read.req \in Request
                          /\ m_read.beat \in Nat /\ m_read.beat <= m_read.req.len
      /\ m_write # None => /\ m_write \in Burst /\ m_write.req \in Request
                           /\ m_write.beat \in Nat
                           /\ m_write.beat <= m_write.req.len + 1
  BY DEF IInv, TypeOK, Burst
<1>4. /\ RHandshake => m_read # None /\ ~ArHandshake
      /\ BHandshake => /\ m_write # None /\ m_write.beat = m_write.req.len + 1
                       /\ ~AwHandshake /\ ~WHandshake
  BY <1>1, <1>3
  DEF IInv, PinsMatchBursts, RHandshake, BHandshake, ArHandshake, AwHandshake, WHandshake, Request
<1>5. ReadAgreement'
  <2>1. CASE RHandshake
    <3>1. /\ read_beats_left' = read_beats_left - 1
          /\ read_addr' = NextAddr(read_addr, read_size)
          /\ read_id' = read_id /\ read_size' = read_size
      BY <1>2, <2>1 DEF UpdateB, CompleteRead
    <3>2. /\ read_beats_left = (m_read.req.len + 1) - m_read.beat
          /\ read_id = m_read.req.id
          /\ read_size = m_read.req.bytes
          /\ read_addr = BeatAddr(m_read.req, m_read.beat)
      BY <1>1, <1>4, <2>1 DEF IInv, ReadAgreement, ReadCounted
    <3>3. ReadCounted' = IF m_read.beat = m_read.req.len THEN None ELSE Advance(m_read)
      BY <1>1, <1>2, <1>4, <2>1 DEF ReadCounted, Advance, design
    <3>4. Advance(m_read) = [req |-> m_read.req, beat |-> m_read.beat + 1]
      BY <1>3, <1>4, <2>1 DEF Advance, Burst
    <3>5. read_addr' = BeatAddr(m_read.req, m_read.beat + 1)
      BY <1>3, <1>4, <2>1, <3>1, <3>2, BeatAddrSteps
    <3>6. QED
      BY <1>3, <1>4, <2>1, <3>1, <3>2, <3>3, <3>4, <3>5 DEF ReadAgreement, Request
  <2>2. CASE ~RHandshake
    <3>1. UNCHANGED readReg
      BY <1>2, <2>2 DEF UpdateB, CompleteRead
    <3>2. ReadCounted' = ReadCounted
      BY <1>1, <1>2, <2>2 DEF ReadCounted, design
    <3>3. QED
      BY <3>1, <3>2 DEF IInv, ReadAgreement, readReg
  <2>3. QED
    BY <2>1, <2>2
<1>6. WriteAgreement'
  <2>1. UNCHANGED << write_beats_left, write_id, write_addr, write_size >>
    BY DEF UpdateB, CompleteWrite
  <2>2. CASE BHandshake
    <3>1. write_beats_left = 0
      BY <1>1, <1>3, <1>4, <2>2 DEF IInv, WriteAgreement, WriteCounted, Request
    <3>2. WriteCounted' = None /\ write_acked'
      BY <1>1, <1>2, <1>4, <2>2 DEF WriteCounted, UpdateB, CompleteWrite
    <3>3. QED
      BY <2>1, <3>1, <3>2 DEF WriteAgreement
  <2>3. CASE ~BHandshake
    <3>1. WriteCounted' = WriteCounted
      BY <1>1, <1>2, <2>3 DEF WriteCounted, Advance, design
    <3>2. write_acked' <=> write_acked
      BY <1>2, <2>3 DEF UpdateB, CompleteWrite
    <3>3. QED
      BY <2>1, <3>1, <3>2 DEF IInv, WriteAgreement
  <2>4. QED
    BY <2>2, <2>3
<1>7. MemoryAgreement' /\ PinsMatchBursts' /\ OfferedLastIsRight'
  BY <1>1, <1>2
  DEF IInv, MemoryAgreement, PinsMatchBursts, OfferedLastIsRight, NextBeats, inputs, design
<1>8. TypeOK'
  <2>1. read_beats_left' \in Nat
    <3>1. CASE RHandshake
      <4>1. read_beats_left = (m_read.req.len + 1) - m_read.beat
        BY <1>1, <1>4, <3>1 DEF IInv, ReadAgreement, ReadCounted
      <4>2. read_beats_left' = read_beats_left - 1
        BY <1>2, <3>1 DEF UpdateB, CompleteRead
      <4>3. QED
        BY <1>3, <1>4, <3>1, <4>1, <4>2 DEF Request
    <3>2. CASE ~RHandshake
      BY <1>2, <3>2 DEF UpdateB, CompleteRead, readReg, IInv, TypeOK
    <3>3. QED
      BY <3>1, <3>2
  <2>2. read_id' \in Nat /\ read_size' \in {1, 2, 4, 8}
    BY DEF UpdateB, CompleteRead, readReg, IInv, TypeOK
  <2>3. read_addr' \in Nat
    <3>1. CASE RHandshake
      <4>1. read_addr = BeatAddr(m_read.req, m_read.beat) /\ read_size = m_read.req.bytes
        BY <1>1, <1>4, <3>1 DEF IInv, ReadAgreement, ReadCounted
      <4>2. read_addr' = NextAddr(read_addr, read_size)
        BY <1>2, <3>1 DEF UpdateB, CompleteRead
      <4>3. QED
        BY <1>3, <1>4, <3>1, <4>1, <4>2, BeatAddrSteps
    <3>2. CASE ~RHandshake
      BY <1>2, <3>2 DEF UpdateB, CompleteRead, readReg, IInv, TypeOK
    <3>3. QED
      BY <3>1, <3>2
  <2>4. write_acked' \in BOOLEAN
    BY Zenon DEF UpdateB, CompleteWrite, IInv, TypeOK
  <2>5. /\ write_beats_left' \in Nat /\ write_id' \in Nat /\ write_addr' \in Nat
        /\ write_size' \in {1, 2, 4, 8}
    BY DEF UpdateB, CompleteWrite, IInv, TypeOK
  <2>6. QED
    BY <1>1, <2>1, <2>2, <2>3, <2>4, <2>5 DEF IInv, TypeOK, inputs, design
<1>9. QED
  BY <1>5, <1>6, <1>7, <1>8 DEF IInv

(* At the edge the design's bursts become what the port has already counted. *)
LEMMA EdgeCatchesUp ==
  IInv /\ Clock => /\ m_read' = ReadCounted
                   /\ m_write' = WriteCounted
                   /\ store' = memory
<1> SUFFICES ASSUME IInv, NEW ar, NEW aw, NEW w, ClockTo(ar, aw, w)
             PROVE  m_read' = ReadCounted /\ m_write' = WriteCounted /\ store' = memory
  BY DEF Clock
<1> USE RequestsAssumption, NoneAssumption
<1>1. pc = "clock" /\ Driven
  BY DEF ClockTo, Driven
<1>2. RHandshake => m_read # None /\ ~ArHandshake
  BY <1>1 DEF IInv, PinsMatchBursts, RHandshake, ArHandshake
<1>3. RHandshake => (r.last <=> m_read.beat = m_read.req.len)
  <2> SUFFICES ASSUME RHandshake PROVE r.last <=> m_read.beat = m_read.req.len
    OBVIOUS
  <2>1. r = [id   |-> m_read.req.id,
             data |-> ReadFn(store, BeatAddr(m_read.req, m_read.beat)),
             last |-> m_read.beat = m_read.req.len]
    BY <1>1, <1>2 DEF IInv, PinsMatchBursts
  <2>2. r.last = (m_read.beat = m_read.req.len)
    BY <2>1, Zenon
  <2>3. QED
    BY <2>2
<1>4. WHandshake => m_write # None /\ m_write.beat <= m_write.req.len /\ ~AwHandshake
  BY <1>1 DEF IInv, PinsMatchBursts, WHandshake, AwHandshake
<1>5. BHandshake => m_write # None /\ ~AwHandshake /\ ~WHandshake
  <2>1. BHandshake => m_write # None /\ m_write.beat = m_write.req.len + 1
    BY <1>1 DEF IInv, PinsMatchBursts, BHandshake
  <2>2. m_write # None => m_write.beat \in Nat /\ m_write.req.len \in Nat
    BY DEF IInv, TypeOK, Burst, Request
  <2>3. QED
    BY <1>1, <2>1, <2>2 DEF IInv, PinsMatchBursts, WHandshake, AwHandshake
<1>6. m_read' = ReadCounted
  BY <1>1, <1>2, <1>3 DEF ClockTo, ReadBurst, ReadCounted, Advance
<1>7. m_write' = WriteCounted
  BY <1>1, <1>4, <1>5 DEF ClockTo, WriteBurst, WriteCounted, Advance
<1>8. store' = memory
  BY <1>1, <1>4 DEF ClockTo, WriteBurst, IInv, MemoryAgreement
<1>9. QED
  BY <1>6, <1>7, <1>8

LEMMA CountedAreBursts ==
  ASSUME IInv
  PROVE  /\ ReadCounted # None => /\ ReadCounted \in Burst
                                  /\ ReadCounted.req \in Reads
                                  /\ ReadCounted.beat <= ReadCounted.req.len
         /\ WriteCounted # None => /\ WriteCounted \in Burst
                                   /\ WriteCounted.req \in Writes
                                   /\ WriteCounted.beat <= WriteCounted.req.len + 1
<1> USE RequestsAssumption, NoneAssumption
<1>1. /\ m_read # None => /\ m_read \in Burst /\ m_read.req \in Reads
                          /\ m_read.req \in Request /\ m_read.req.len \in Nat
                          /\ m_read.beat \in Nat /\ m_read.beat <= m_read.req.len
      /\ m_write # None => /\ m_write \in Burst /\ m_write.req \in Writes
                           /\ m_write.req \in Request /\ m_write.req.len \in Nat
                           /\ m_write.beat \in Nat
                           /\ m_write.beat <= m_write.req.len + 1
  BY DEF IInv, TypeOK, Burst, Request
<1>2. \A q \in Request : /\ [req |-> q, beat |-> 0] \in Burst
                         /\ 0 <= q.len /\ 0 <= q.len + 1
  BY DEF Burst, Request
<1>3. wires \in Outputs
  BY DEF IInv, TypeOK
<1>4. \A m \in Burst : /\ Advance(m) = [req |-> m.req, beat |-> m.beat + 1]
                       /\ Advance(m) \in Burst
  BY DEF Advance, Burst
<1>5. ReadCounted # None => /\ ReadCounted \in Burst
                           /\ ReadCounted.req \in Reads
                           /\ ReadCounted.beat <= ReadCounted.req.len
  <2>1. CASE Driven /\ ArHandshake
    BY <1>2, <1>3, <2>1 DEF ReadCounted, ArHandshake, Outputs
  <2>2. CASE ~(Driven /\ ArHandshake) /\ pc = "clock" /\ RHandshake
    <3>1. m_read # None
      BY <2>2 DEF IInv, PinsMatchBursts, Driven, RHandshake
    <3>2. CASE m_read.beat = m_read.req.len
      BY <2>2, <3>2 DEF ReadCounted
    <3>3. CASE m_read.beat # m_read.req.len
      <4>1. ReadCounted = [req |-> m_read.req, beat |-> m_read.beat + 1]
        BY <1>1, <1>4, <2>2, <3>1, <3>3 DEF ReadCounted
      <4>2. ReadCounted \in Burst
        BY <1>1, <1>4, <3>1, <4>1
      <4>3. QED
        BY <1>1, <3>1, <3>3, <4>1, <4>2
    <3>4. QED
      BY <3>2, <3>3
  <2>3. CASE ~(Driven /\ ArHandshake) /\ ~(pc = "clock" /\ RHandshake)
    BY <1>1, <2>3 DEF ReadCounted
  <2>4. QED
    BY <2>1, <2>2, <2>3
<1>6. WriteCounted # None => /\ WriteCounted \in Burst
                            /\ WriteCounted.req \in Writes
                            /\ WriteCounted.beat <= WriteCounted.req.len + 1
  <2>1. CASE Driven /\ AwHandshake
    BY <1>2, <1>3, <2>1 DEF WriteCounted, AwHandshake, Outputs
  <2>2. CASE ~(Driven /\ AwHandshake) /\ Driven /\ WHandshake
    <3>1. m_write # None /\ m_write.beat <= m_write.req.len
      BY <2>2 DEF IInv, PinsMatchBursts, WHandshake
    <3>2. WriteCounted = [req |-> m_write.req, beat |-> m_write.beat + 1]
      BY <1>1, <1>4, <2>2, <3>1 DEF WriteCounted
    <3>3. WriteCounted \in Burst
      BY <1>1, <1>4, <3>1, <3>2
    <3>4. QED
      BY <1>1, <3>1, <3>2, <3>3
  <2>3. CASE ~(Driven /\ AwHandshake) /\ ~(Driven /\ WHandshake)
    BY <1>1, <2>3 DEF WriteCounted
  <2>4. QED
    BY <2>1, <2>2, <2>3
<1>7. QED
  BY <1>5, <1>6

LEMMA ClockPreserves == IInv /\ Clock => IInv'
<1> SUFFICES ASSUME IInv, Clock,
                    NEW ar \in Reads \cup {None}, NEW aw \in Writes \cup {None},
                    NEW w \in WriteData \cup {None}, ClockTo(ar, aw, w)
             PROVE  IInv'
  BY DEF Clock
<1> USE RequestsAssumption, NoneAssumption
<1>1. /\ pc = "clock" /\ pc' = "update_a" /\ Driven /\ ~Driven'
      /\ UNCHANGED << memory, inputs, out, readReg, writeReg >>
  BY DEF ClockTo, Driven
<1>2. m_read' = ReadCounted /\ m_write' = WriteCounted /\ store' = memory
  BY EdgeCatchesUp
<1>3. ReadCounted' = m_read' /\ WriteCounted' = m_write'
  BY <1>1 DEF ReadCounted, WriteCounted
<1>4. ReadAgreement' /\ WriteAgreement'
  BY <1>1, <1>2, <1>3 DEF IInv, ReadAgreement, WriteAgreement, readReg, writeReg
<1>5. MemoryAgreement' /\ PinsMatchBursts'
  BY <1>1, <1>2 DEF MemoryAgreement, PinsMatchBursts
<1>6. wires' = [wires EXCEPT !.ar = ar, !.aw = aw, !.w = w] /\ wires \in Outputs
  BY DEF ClockTo, NewWires, IInv, TypeOK
<1>7. wires' \in Outputs /\ wires'.w = w /\ wires'.aw = aw
  BY <1>6 DEF Outputs
<1>8. TypeOK'
  <2>1. m_read' \in Burst \cup {None} /\ m_write' \in Burst \cup {None}
    BY <1>2, CountedAreBursts
  <2>2. /\ m_read' # None => m_read'.req \in Reads /\ m_read'.beat <= m_read'.req.len
        /\ m_write' # None => m_write'.req \in Writes /\ m_write'.beat <= m_write'.req.len + 1
    BY <1>2, CountedAreBursts
  <2>3. IsMap(memory') /\ IsMap(store')
    BY <1>1, <1>2 DEF IInv, TypeOK
  <2>4. QED
    BY <1>1, <1>7, <2>1, <2>2, <2>3 DEF IInv, TypeOK, inputs, readReg, writeReg
<1>9. OfferedLastIsRight'
  <2>1. CASE wires.w # None /\ ~w_ready
    <3>1. w = wires.w /\ ~WHandshake
      BY <2>1 DEF ClockTo, NewWires, WHandshake
    <3>2. w.last \in NextBeats(m_write, wires.aw)
      BY <2>1, <3>1 DEF IInv, OfferedLastIsRight
    <3>3. m_write # None => m_write.beat \in Nat /\ m_write.req.len \in Nat
      BY DEF IInv, TypeOK, Burst, Request
    <3>4. CASE m_write # None /\ m_write.beat <= m_write.req.len
      <4>1. ~AwHandshake /\ ~BHandshake
        BY <1>1, <3>3, <3>4 DEF IInv, PinsMatchBursts, AwHandshake, BHandshake
      <4>2. m_write' = m_write
        BY <1>1, <1>2, <3>1, <4>1 DEF WriteCounted
      <4>3. QED
        BY <1>7, <3>1, <3>2, <3>4, <4>2 DEF OfferedLastIsRight, NextBeats
    <3>5. CASE ~(m_write # None /\ m_write.beat <= m_write.req.len)
      <4>1. wires.aw # None /\ w.last = (0 = wires.aw.len)
        BY <3>2, <3>5 DEF NextBeats
      <4>2. CASE AwHandshake
        <5>1. m_write' = [req |-> wires.aw, beat |-> 0]
          BY <1>1, <1>2, <4>2 DEF WriteCounted
        <5>2. wires.aw \in Request /\ wires.aw.len \in Nat
          BY <1>6, <4>1 DEF Outputs, Request
        <5>3. m_write' # None /\ m_write'.req = wires.aw /\ m_write'.beat = 0
          BY <5>1, <5>2
        <5>4. QED
          BY <1>7, <3>1, <4>1, <5>2, <5>3 DEF OfferedLastIsRight, NextBeats
      <4>3. CASE ~AwHandshake
        <5>1. ~aw_ready /\ aw = wires.aw
          BY <4>1, <4>3 DEF AwHandshake, ClockTo, NewWires
        <5>2. m_write' = m_write \/ m_write' = None
          BY <1>1, <1>2, <3>1, <4>3 DEF WriteCounted
        <5>3. NextBeats(m_write', aw) = { 0 = aw.len }
          BY <3>5, <4>1, <5>1, <5>2 DEF NextBeats
        <5>4. QED
          BY <1>7, <3>1, <4>1, <5>1, <5>3 DEF OfferedLastIsRight
      <4>4. QED
        BY <4>2, <4>3
    <3>6. QED
      BY <3>4, <3>5
  <2>2. CASE ~(wires.w # None /\ ~w_ready)
    <3>1. w = None \/ \E last \in NextBeats(m_write', aw), d \in Data, s \in Strobes :
                         w = WBeat(d, s, last)
      BY <2>2 DEF ClockTo, NewWires
    <3>2. QED
      BY <1>7, <3>1 DEF OfferedLastIsRight, WBeat
  <2>3. QED
    BY <2>1, <2>2
<1>10. QED
  BY <1>4, <1>5, <1>8, <1>9 DEF IInv

LEMMA StutterPreserves == IInv /\ UNCHANGED vars => IInv'
<1> SUFFICES ASSUME IInv, UNCHANGED vars PROVE IInv'
  OBVIOUS
<1> USE DEF vars, inputs, readReg, writeReg, design
<1>1. TypeOK'
  BY DEF IInv, TypeOK
<1>2. ReadAgreement' /\ WriteAgreement' /\ MemoryAgreement'
  BY DEF IInv, ReadAgreement, ReadCounted, WriteAgreement, WriteCounted, MemoryAgreement,
         Driven, ArHandshake, RHandshake, AwHandshake, WHandshake, BHandshake, Advance
<1>3. PinsMatchBursts' /\ OfferedLastIsRight'
  BY DEF IInv, PinsMatchBursts, OfferedLastIsRight, NextBeats, Driven
<1>4. QED
  BY <1>1, <1>2, <1>3 DEF IInv

\* The inductive invariant: the port's registers, its pins and the memory agree
\* with what the handshakes at the design's pins amount to, in every state.
THEOREM Agreement == Spec => []IInv
<1>1. IInv /\ [Next]_vars => IInv'
  BY UpdateAPreserves, AbortsPreserve, EvalPreserves, UpdateBPreserves, ClockPreserves,
     StutterPreserves
  DEF Next, Aborted
<1>2. QED
  BY InitEstablishes, <1>1, PTL DEF Spec

\* The variables keep their types; no unsigned beat counter wraps.
THEOREM PortTypes == Spec => []TypeOK
<1>1. IInv => TypeOK
  BY DEF IInv
<1>2. QED
  BY <1>1, Agreement, PTL

\* The port and the design agree on the read burst in flight at every point of the cycle.
THEOREM ReadsAgree == Spec => []ReadAgreement
<1>1. IInv => ReadAgreement
  BY DEF IInv
<1>2. QED
  BY <1>1, Agreement, PTL

\* They agree on the write burst in flight, up to its acknowledge.
THEOREM WritesAgree == Spec => []WriteAgreement
<1>1. IInv => WriteAgreement
  BY DEF IInv
<1>2. QED
  BY <1>1, Agreement, PTL

\* The memory is what the handed-over data beats make of it.
THEOREM MemoryAgrees == Spec => []MemoryAgreement
<1>1. IInv => MemoryAgreement
  BY DEF IInv
<1>2. QED
  BY <1>1, Agreement, PTL

\* What the port drives is what the design's bursts call for.
THEOREM PinsMatch == Spec => []PinsMatchBursts
<1>1. IInv => PinsMatchBursts
  BY DEF IInv
<1>2. QED
  BY <1>1, Agreement, PTL

-----------------------------------------------------------------------------
(* Stalled read beats *)

\* Between update_b and the edge the port's copy of the outputs is up to date.
Sampled == pc = "clock" => out = wires

\* What the memory holds where the design's read burst is.
WordRead == ReadFn(store, BeatAddr(m_read.req, m_read.beat))

\* A beat the last edge did not take is the one the design still waits for, with
\* the word that was there before the edge.
Stalled ==
  pc = "update_a" /\ r # None /\ got_r = None =>
    /\ m_read # None
    /\ r.id = m_read.req.id
    /\ r.last = (m_read.beat = m_read.req.len)
    /\ WordRead = IF WroteWordRead THEN out.w.data ELSE r.data

LEMMA ReadOfMapWrite ==
  ASSUME NEW m, NEW at, NEW d, NEW addr
  PROVE  ReadFn(MapWrite(m, at, d), addr) = IF SameWord(at, addr) THEN d ELSE ReadFn(m, addr)
<1>1. CASE at \div 8 = addr \div 8
  BY <1>1 DEF ReadFn, MapRead, MapWrite, SameWord
<1>2. CASE at \div 8 # addr \div 8
  BY <1>2 DEF ReadFn, MapRead, MapWrite, SameWord
<1>3. QED
  BY <1>1, <1>2

\* Which write beat an edge hands over, seen from before it and from behind it.
LEMMA EdgeHandsOver ==
  ASSUME IInv, Sampled, Clock, WHandshake
  PROVE  /\ m_write # None
         /\ store' = MapWrite(store, BeatAddr(m_write.req, m_write.beat), wires.w.data)
         /\ m_write'.req = m_write.req /\ m_write'.beat - 1 = m_write.beat
<1>1. pc = "clock" /\ Driven /\ WriteBurst
  BY DEF Clock, ClockTo, Driven
<1>2. m_write # None /\ m_write.beat <= m_write.req.len
  BY <1>1 DEF IInv, PinsMatchBursts, WHandshake
<1>3. m_write \in Burst
  BY <1>2 DEF IInv, TypeOK
<1>4. m_write.beat \in Nat /\ m_write.req.len \in Nat
  BY <1>3 DEF Burst, Request
<1>5. ~aw_ready
  BY <1>1, <1>2 DEF IInv, PinsMatchBursts
<1>6. b = None
  <2>1. m_write.beat # m_write.req.len + 1
    BY <1>2, <1>4
  <2>2. QED
    BY <1>1, <2>1 DEF IInv, PinsMatchBursts
<1>7. m_write' = [m_write EXCEPT !.beat = @ + 1]
  BY <1>1, <1>2, <1>5, <1>6 DEF WriteBurst, AwHandshake, BHandshake
<1>8. m_write'.req = m_write.req /\ m_write'.beat = m_write.beat + 1
  BY <1>3, <1>7 DEF Burst
<1>9. store' = MapWrite(store, BeatAddr(m_write.req, m_write.beat), wires.w.data)
  BY <1>1, <1>2 DEF WriteBurst
<1>10. QED
  BY <1>2, <1>4, <1>8, <1>9

LEMMA ClockLeavesStalled == IInv /\ Sampled /\ Clock => Stalled'
<1> SUFFICES ASSUME IInv, Sampled, Clock, r' # None, got_r' = None
             PROVE  /\ m_read' # None
                    /\ r'.id = m_read'.req.id
                    /\ r'.last = (m_read'.beat = m_read'.req.len)
                    /\ WordRead' = IF WroteWordRead' THEN out'.w.data ELSE r'.data
  BY DEF Stalled
<1>1. /\ pc = "clock" /\ Driven /\ out = wires /\ ReadBurst /\ WriteBurst
      /\ r' = r /\ out' = out /\ w_ready' = w_ready
  BY DEF Clock, ClockTo, Driven, inputs, Sampled
<1>2. r # None
  BY <1>1
<1>3. /\ m_read # None /\ ~ar_ready
      /\ r = [id   |-> m_read.req.id,
              data |-> ReadFn(store, BeatAddr(m_read.req, m_read.beat)),
              last |-> m_read.beat = m_read.req.len]
  BY <1>1, <1>2 DEF IInv, PinsMatchBursts
<1>4. ~RHandshake
  BY <1>1, <1>2 DEF ReadBurst
<1>5. m_read' = m_read
  BY <1>1, <1>3, <1>4 DEF ReadBurst, ArHandshake
<1>6. r.data = WordRead
  BY <1>3 DEF WordRead
<1>7. r.last = (m_read.beat = m_read.req.len)
  BY <1>3, Zenon
<1>8. r.id = m_read.req.id
  BY <1>3
<1>9. WordRead' = ReadFn(store', BeatAddr(m_read.req, m_read.beat))
  BY <1>5 DEF WordRead
<1>10. CASE WHandshake
  <2>1. /\ store' = MapWrite(store, BeatAddr(m_write.req, m_write.beat), wires.w.data)
        /\ m_write'.req = m_write.req /\ m_write'.beat - 1 = m_write.beat
    BY <1>10, EdgeHandsOver
  <2>2. WroteWordRead' <=> SameWord(BeatAddr(m_write.req, m_write.beat),
                                    BeatAddr(m_read.req, m_read.beat))
    BY <1>1, <1>5, <1>10, <2>1 DEF WroteWordRead, WHandshake
  <2>3. ReadFn(store', BeatAddr(m_read.req, m_read.beat))
          = IF SameWord(BeatAddr(m_write.req, m_write.beat), BeatAddr(m_read.req, m_read.beat))
            THEN wires.w.data ELSE ReadFn(store, BeatAddr(m_read.req, m_read.beat))
    BY <2>1, ReadOfMapWrite
  <2>4. WordRead' = IF WroteWordRead' THEN out'.w.data ELSE r'.data
    BY <1>1, <1>6, <1>9, <2>2, <2>3 DEF WordRead
  <2>5. QED
    BY <1>1, <1>3, <1>5, <1>7, <1>8, <2>4
<1>11. CASE ~WHandshake
  <2>1. store' = store
    BY <1>1, <1>11 DEF WriteBurst
  <2>2. ~WroteWordRead'
    BY <1>1, <1>11 DEF WroteWordRead, WHandshake
  <2>3. WordRead' = IF WroteWordRead' THEN out'.w.data ELSE r'.data
    BY <1>1, <1>6, <1>9, <2>1, <2>2 DEF WordRead
  <2>4. QED
    BY <1>1, <1>3, <1>5, <1>7, <1>8, <2>3
<1>12. QED
  BY <1>10, <1>11

LEMMA SampledStays == Sampled /\ [Next]_vars => Sampled'
<1> SUFFICES ASSUME Sampled, [Next]_vars PROVE Sampled'
  OBVIOUS
<1>1. CASE UpdateA \/ AssertFails \/ Eval \/ Clock \/ Aborted
  BY <1>1 DEF UpdateA, AssertFails, Eval, EvalTo, Clock, ClockTo, Aborted, vars, Sampled
<1>2. CASE UpdateB
  BY <1>2 DEF UpdateB, Sampled
<1>3. CASE UNCHANGED vars
  BY <1>3 DEF vars, Sampled
<1>4. QED
  BY <1>1, <1>2, <1>3 DEF Next

LEMMA StalledStays == IInv /\ Sampled /\ Stalled /\ [Next]_vars => Stalled'
<1> SUFFICES ASSUME IInv, Sampled, Stalled, [Next]_vars PROVE Stalled'
  OBVIOUS
<1>1. CASE Clock
  BY <1>1, ClockLeavesStalled
<1>2. CASE UpdateA \/ AssertFails \/ Eval \/ UpdateB
  BY <1>2 DEF UpdateA, AssertFails, Eval, EvalTo, UpdateB, Stalled
<1>3. CASE UNCHANGED vars
  BY <1>3 DEF vars, inputs, design, Stalled, WordRead, WroteWordRead
<1>4. QED
  BY <1>1, <1>2, <1>3 DEF Next, Aborted

LEMMA UpdateAKeepsStalled ==
  ASSUME IInv, Stalled, UpdateA, r # None, got_r = None
  PROVE  /\ m_read # None /\ m_read' = m_read
         /\ r' = [id   |-> r.id,
                  data |-> IF WroteWordRead THEN out.w.data ELSE r.data,
                  last |-> r.last]
         /\ r'.data = ReadFn(store, BeatAddr(m_read.req, m_read.beat))
<1>1. pc = "update_a" /\ UNCHANGED << m_read, store >> /\ Driven'
  BY DEF UpdateA, design, Driven
<1>2. /\ m_read # None
      /\ r.id = m_read.req.id
      /\ r.last = (m_read.beat = m_read.req.len)
      /\ WordRead = IF WroteWordRead THEN out.w.data ELSE r.data
  BY <1>1 DEF Stalled
<1>3. PinsMatchBursts'
  BY UpdateAPreserves DEF IInv
<1>4. r' = [id   |-> m_read.req.id,
           data |-> WordRead,
           last |-> m_read.beat = m_read.req.len]
  BY <1>1, <1>2, <1>3 DEF PinsMatchBursts, WordRead
<1>5. r' = [id |-> r.id, data |-> WordRead, last |-> r.last]
  BY <1>2, <1>4
<1>6. r'.data = WordRead
  BY <1>5
<1>7. QED
  BY <1>1, <1>2, <1>5, <1>6 DEF WordRead

\* A read beat that was not taken is offered again as it was, but for a write that the
\* edge in between handed over to its word, whose data it then has.
THEOREM StalledBeatsKeepTheirPlace == Spec => StalledBeatKeepsItsPlace
<1>1. Init => Sampled /\ Stalled
  BY DEF Init, Sampled, Stalled
<1>2. IInv /\ Stalled /\ [Next]_vars
        => [ pc = "update_a" /\ pc' = "eval" /\ r # None /\ got_r = None =>
               /\ m_read # None /\ m_read' = m_read
               /\ r' = [id   |-> r.id,
                        data |-> IF WroteWordRead THEN out.w.data ELSE r.data,
                        last |-> r.last]
               /\ r'.data = ReadFn(store, BeatAddr(m_read.req, m_read.beat)) ]_vars
  <2>1. pc = "update_a" /\ pc' = "eval" /\ [Next]_vars => UpdateA
    BY DEF Next, AssertFails, Eval, EvalTo, UpdateB, Clock, ClockTo, Aborted, vars
  <2>2. QED
    BY <2>1, UpdateAKeepsStalled
<1>3. QED
  BY <1>1, <1>2, SampledStays, StalledStays, Agreement, PTL DEF Spec, StalledBeatKeepsItsPlace

-----------------------------------------------------------------------------
(* The two assertions of the write path *)

LEMMA TakenBeatIsDue ==
  ASSUME IInv, pc = "update_a", out' = wires, WriteTaken
  PROVE  /\ m_write # None /\ m_write.req \in Request
         /\ m_write.beat \in Nat /\ m_write.beat <= m_write.req.len
         /\ write_beats_left = (m_write.req.len + 1) - m_write.beat
         /\ write_size = m_write.req.bytes
         /\ write_addr = BeatAddr(m_write.req, m_write.beat)
<1> USE RequestsAssumption, NoneAssumption
<1>1. ~Driven
  BY DEF Driven
<1>2. WriteCounted = m_write /\ write_beats_left > 0
  BY <1>1 DEF WriteCounted, WriteTaken
<1>3. m_write # None => /\ m_write.req \in Request /\ m_write.req.len \in Nat
                       /\ m_write.beat \in Nat
  BY DEF IInv, TypeOK, Burst, Request
<1>4. QED
  BY <1>2, <1>3 DEF IInv, WriteAgreement

LEMMA LastIsAsCounted == IInv /\ AssertFails => ~MaskAssert
<1> SUFFICES ASSUME IInv, AssertFails, MaskAssert PROVE FALSE
  OBVIOUS
<1>1. pc = "update_a" /\ out' = wires /\ WriteTaken /\ ~LastAssert
  BY DEF AssertFails
<1>2. /\ m_write # None /\ m_write.req.len \in Nat
      /\ m_write.beat \in Nat /\ m_write.beat <= m_write.req.len
      /\ write_beats_left = (m_write.req.len + 1) - m_write.beat
  BY <1>1, TakenBeatIsDue DEF Request
<1>3. wires.w.last = (m_write.beat = m_write.req.len)
  BY <1>1, <1>2 DEF IInv, OfferedLastIsRight, NextBeats, WriteTaken
<1>4. (m_write.beat = m_write.req.len) <=> (write_beats_left = 1)
  BY <1>2
<1>5. QED
  BY <1>1, <1>3, <1>4 DEF LastAssert

LEMMA MaskOfWholeBeat == IInv /\ AssertFails => MaskAssertOnlyForPartialBeats'
<1> SUFFICES ASSUME IInv, AssertFails,
                    m_write.req.bytes = 8,
                    ~(m_write.beat = 0 /\ m_write.req.addr % 8 # 0),
                    wires.w.strb = Lanes
             PROVE  FALSE
  <2>1. AssertFails => UNCHANGED << m_write, wires >>
    BY DEF AssertFails, design
  <2>2. IInv => (m_write # None => m_write.req.bytes \in {1, 2, 4, 8})
    BY RequestsAssumption DEF IInv, TypeOK, Burst, Request
  <2>3. IInv /\ AssertFails => m_write # None
    BY TakenBeatIsDue DEF AssertFails
  <2>4. QED
    BY <2>1, <2>2, <2>3 DEF MaskAssertOnlyForPartialBeats
<1>1. pc = "update_a" /\ out' = wires /\ WriteTaken /\ ~MaskAssert
  BY LastIsAsCounted DEF AssertFails
<1>2. /\ m_write.req \in Request /\ m_write.beat \in Nat /\ write_size = 8
      /\ write_addr = BeatAddr(m_write.req, m_write.beat)
  BY <1>1, TakenBeatIsDue
<1>3. write_addr % 8 = 0
  BY <1>2 DEF BeatAddr, Request
<1>4. SizeLanes(write_addr, write_size) = Lanes
  BY <1>2, <1>3 DEF SizeLanes, Lanes
<1>5. QED
  BY <1>1, <1>4 DEF MaskAssert, WriteMask

\* The assertion on w_last in update_a never fails.
THEOREM LastAssertHolds == Spec => []LastAssertNeverFails
<1>1. Init => LastAssertNeverFails
  BY DEF Init, LastAssertNeverFails
<1>2. IInv /\ LastAssertNeverFails /\ [Next]_vars => LastAssertNeverFails'
  BY LastIsAsCounted
  DEF Next, UpdateA, AssertFails, Eval, EvalTo, UpdateB, Clock, ClockTo, Aborted, vars,
      LastAssertNeverFails
<1>3. QED
  BY <1>1, <1>2, Agreement, PTL DEF Spec

\* The assertion on the byte mask fails for partial beats only.
THEOREM MaskAssertIsJustified == Spec => []MaskAssertOnlyForPartialBeats
<1>1. Init => MaskAssertOnlyForPartialBeats
  BY DEF Init, MaskAssertOnlyForPartialBeats
<1>2. IInv /\ MaskAssertOnlyForPartialBeats /\ [Next]_vars => MaskAssertOnlyForPartialBeats'
  <2> SUFFICES ASSUME IInv, MaskAssertOnlyForPartialBeats, [Next]_vars
               PROVE  MaskAssertOnlyForPartialBeats'
    OBVIOUS
  <2>1. CASE AssertFails
    BY <2>1, MaskOfWholeBeat
  <2>2. CASE UpdateA \/ Eval \/ UpdateB \/ Clock
    BY <2>2
    DEF UpdateA, Eval, EvalTo, UpdateB, Clock, ClockTo,
        MaskAssertOnlyForPartialBeats
  <2>3. CASE UNCHANGED vars
    BY <2>3 DEF vars, design, MaskAssertOnlyForPartialBeats
  <2>4. QED
    BY <2>1, <2>2, <2>3 DEF Next, Aborted
<1>3. QED
  BY <1>1, <1>2, Agreement, PTL DEF Spec

-----------------------------------------------------------------------------
(* The port implements the memory of AxiMemory *)

LEMMA EdgeIsCycle == IInv /\ Clock => Memory!Cycle
<1> SUFFICES ASSUME IInv, Clock,
                    NEW ar \in Reads \cup {None}, NEW aw \in Writes \cup {None},
                    NEW w \in WriteData \cup {None}, ClockTo(ar, aw, w)
             PROVE  Memory!Cycle
  BY DEF Clock
<1> USE RequestsAssumption, NoneAssumption
<1>1. pc = "clock" /\ Driven /\ wires \in Outputs
  BY DEF ClockTo, Driven, IInv, TypeOK
<1>2. PinsMatchBursts /\ m_read' = ReadCounted /\ m_write' = WriteCounted
  BY EdgeCatchesUp DEF IInv
<1>3. Memory!ReadIdle \/ Memory!AcceptRead \/ Memory!DeliverRead
  <2>1. CASE ArHandshake
    <3>1. m_read = None /\ r = None /\ wires.ar \in Reads
      BY <1>1, <1>2, <2>1 DEF PinsMatchBursts, ArHandshake, Outputs
    <3>2. m_read' = [req |-> wires.ar, beat |-> 0] /\ got_r' = None
      BY <1>1, <1>2, <2>1, <3>1 DEF ReadCounted, ClockTo, ReadBurst, RHandshake
    <3>3. QED
      BY <3>1, <3>2 DEF Memory!AcceptRead
  <2>2. CASE ~ArHandshake /\ RHandshake
    <3>1. m_read # None /\ r = [id   |-> m_read.req.id,
                               data |-> ReadFn(store, BeatAddr(m_read.req, m_read.beat)),
                               last |-> m_read.beat = m_read.req.len]
      BY <1>1, <1>2, <2>2 DEF PinsMatchBursts, RHandshake
    <3>2. got_r' = r
      BY <2>2 DEF ClockTo, ReadBurst
    <3>3. m_read' = IF m_read.beat = m_read.req.len THEN None
                    ELSE [m_read EXCEPT !.beat = @ + 1]
      BY <1>1, <1>2, <2>2 DEF ReadCounted, Advance
    <3>4. Memory!BeatAddr(m_read.req, m_read.beat) = BeatAddr(m_read.req, m_read.beat)
      BY DEF Memory!BeatAddr, BeatAddr
    <3>5. \A addr : Memory!ReadFn(store, addr) = ReadFn(store, addr)
      BY DEF Memory!ReadFn, Memory!MapRead, ReadFn, MapRead
    <3>6. QED
      BY <3>1, <3>2, <3>3, <3>4, <3>5 DEF Memory!DeliverRead
  <2>3. CASE ~ArHandshake /\ ~RHandshake
    BY <1>1, <1>2, <2>3 DEF ReadCounted, ClockTo, ReadBurst, Memory!ReadIdle
  <2>4. QED
    BY <2>1, <2>2, <2>3
<1>4. Memory!WriteIdle \/ Memory!AcceptWrite \/ Memory!TakeBeat \/ Memory!Acknowledge
  <2>0. m_write # None => m_write.beat \in Nat /\ m_write.req.len \in Nat
    BY DEF IInv, TypeOK, Burst, Request
  <2>1. CASE AwHandshake
    <3>1. m_write = None /\ b = None /\ ~w_ready /\ wires.aw \in Writes
      BY <1>1, <1>2, <2>1 DEF PinsMatchBursts, AwHandshake, Outputs
    <3>2. m_write' = [req |-> wires.aw, beat |-> 0] /\ got_b' = None /\ store' = store
      BY <1>1, <1>2, <2>1, <3>1
      DEF WriteCounted, ClockTo, WriteBurst, BHandshake, WHandshake
    <3>3. QED
      BY <3>1, <3>2 DEF Memory!AcceptWrite
  <2>2. CASE WHandshake
    <3>1. m_write # None /\ m_write.beat <= m_write.req.len /\ ~AwHandshake /\ b = None
      BY <1>1, <1>2, <2>0, <2>2 DEF PinsMatchBursts, WHandshake, AwHandshake
    <3>2. wires.w.data \in Data
      BY <1>1, <2>2 DEF Outputs, WHandshake, WriteData, WBeat
    <3>3. store' = MapWrite(store, BeatAddr(m_write.req, m_write.beat), wires.w.data)
      BY <2>2, <3>1 DEF ClockTo, WriteBurst
    <3>4. m_write' = [m_write EXCEPT !.beat = @ + 1] /\ got_b' = None
      BY <1>1, <1>2, <2>2, <3>1 DEF WriteCounted, Advance, ClockTo, WriteBurst, BHandshake
    <3>5. \A d : Memory!MapWrite(store, Memory!BeatAddr(m_write.req, m_write.beat), d)
               = MapWrite(store, BeatAddr(m_write.req, m_write.beat), d)
      BY DEF Memory!MapWrite, MapWrite, Memory!BeatAddr, BeatAddr
    <3>6. QED
      BY <3>1, <3>2, <3>3, <3>4, <3>5 DEF Memory!TakeBeat
  <2>3. CASE ~AwHandshake /\ ~WHandshake /\ BHandshake
    <3>1. m_write # None /\ m_write.beat = m_write.req.len + 1 /\ b = m_write.req.id
      BY <1>1, <1>2, <2>3 DEF PinsMatchBursts, BHandshake
    <3>2. m_write' = None /\ store' = store /\ got_b' = b
      BY <1>1, <1>2, <2>3 DEF WriteCounted, ClockTo, WriteBurst
    <3>3. QED
      BY <3>1, <3>2 DEF Memory!Acknowledge
  <2>4. CASE ~AwHandshake /\ ~WHandshake /\ ~BHandshake
    BY <1>1, <1>2, <2>4 DEF WriteCounted, ClockTo, WriteBurst, Memory!WriteIdle
  <2>5. QED
    BY <2>1, <2>2, <2>3, <2>4
<1>5. QED
  BY <1>3, <1>4 DEF Memory!Cycle

\* Every behaviour of the port, its loop and its design is one of AxiMemory: an
\* edge is a cycle, everything else is invisible.
THEOREM PortImplementsMemory == Spec => MemorySpec
<1>1. Init => Memory!Init
  BY DEF Init, Memory!Init
<1>2. IInv /\ [Next]_vars => [Memory!Cycle]_Memory!vars
  <2> SUFFICES ASSUME IInv, [Next]_vars PROVE [Memory!Cycle]_Memory!vars
    OBVIOUS
  <2>1. CASE Clock
    BY <2>1, EdgeIsCycle
  <2>2. CASE UpdateA \/ AssertFails \/ Eval \/ UpdateB
    BY <2>2
    DEF UpdateA, AssertFails, Eval, EvalTo, UpdateB, design, Memory!vars
  <2>3. CASE UNCHANGED vars
    BY <2>3 DEF vars, design, Memory!vars
  <2>4. QED
    BY <2>1, <2>2, <2>3 DEF Next, Aborted
<1>3. QED
  BY <1>1, <1>2, Agreement, PTL DEF Spec, MemorySpec, Memory!Spec

=============================================================================
