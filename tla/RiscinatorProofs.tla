-------------------------- MODULE RiscinatorProofs --------------------------
(* Proofs about Riscinator, for every memory, set of requests and number of *)
(* cycles.                                                                  *)
EXTENDS Riscinator, TLAPS

Running == { "drive", "settle", "serve", "clock" }
Answer == [rvalid : BOOLEAN, rdata : Words]

RequestInv ==
  /\ fetch \in Address \cup {None}
  /\ req # None => /\ req.we \in BOOLEAN /\ req.addr \in Address /\ req.addr % 4 = 0
                   /\ req.we => req.be \subseteq Lanes /\ req.data \in Words

TypeInv ==
  /\ pc \in Running \cup {"start", "over", "done", "aborted"}
  /\ image \in [0 .. (MemWords - 1) -> Words] /\ mem \in [0 .. (MemWords - 1) -> Words]
  /\ next \in [imem : Answer, dmem : Answer] /\ pins \in [imem : Answer, dmem : Answer]
  /\ RequestInv

(* The bytes of the memory are those the core stored. *)
MemoryInv == BytesOf(mem) = IF pc = "clock" THEN StoreDone ELSE store

(* The answers p to the requests of the cycle whose answers are d. *)
Match(p, d) ==
  /\ p.imem.rvalid <=> d.imem # None
  /\ d.imem # None => p.imem.rdata = d.imem
  /\ p.dmem.rvalid <=> d.dmem # None \/ d.ack
  /\ d.dmem # None => p.dmem.rdata = d.dmem

AnswersInv ==
  /\ pc = "drive" => Match(next, due)
  /\ pc \in Running \ {"drive"} => /\ Match(pins, due)
                                   /\ next.imem.rvalid <=> fetch # None
                                   /\ next.dmem.rvalid <=> req # None
  /\ pc = "clock" => /\ fetch # None => next.imem.rdata = WordAt(fetch)
                     /\ req # None /\ ~req.we => next.dmem.rdata = WordAt(req.addr)

VerdictInv ==
  /\ pc \in Running \cup {"over"} /\ Head(tests) = "dhrystone" => (finished <=> reported)
  /\ Testbench = "arcs" => (failed <=> wrong)
  /\ result # None => pc = "done" /\ result = IF failed THEN 1 ELSE 0

IInv == TypeInv /\ MemoryInv /\ AssertMeansOutside /\ AnswersInv /\ VerdictInv

-----------------------------------------------------------------------------
(* Indices and bytes *)

LEMMA IndexInside ==
  ASSUME NEW addr \in Address, InMemory(addr)
  PROVE  /\ addr2idx(addr) = (addr - MemBase) \div 4
         /\ addr2idx(addr) \in 0 .. (MemWords - 1)
  BY MemoryAssumption DEF addr2idx, InMemory, Address

LEMMA IndexOutside ==
  ASSUME NEW addr \in Address, ~InMemory(addr)
  PROVE  addr2idx(addr) >= MemWords
  BY MemoryAssumption DEF addr2idx, InMemory, Address

Addresses == MemBase .. (MemBase + 4 * MemWords - 1)

LEMMA ByteIndex ==
  ASSUME NEW a \in Addresses
  PROVE  (a - MemBase) \div 4 \in 0 .. (MemWords - 1) /\ a % 4 \in Lanes
  BY MemoryAssumption DEF Addresses, Lanes

LEMMA SameWord ==
  ASSUME NEW a \in Addresses, NEW addr \in Address, InMemory(addr), addr % 4 = 0
  PROVE  (a - MemBase) \div 4 = addr2idx(addr) <=> a - (a % 4) = addr
<1>1. addr2idx(addr) = (addr - MemBase) \div 4 /\ addr \in Int /\ a \in Int
  BY IndexInside, MemoryAssumption DEF Address, Addresses
<1>2. QED
  BY <1>1, MemoryAssumption DEF Addresses

LEMMA WordAtIsMem ==
  ASSUME mem \in [0 .. (MemWords - 1) -> Words], BytesOf(mem) = store,
         NEW addr \in Address, InMemory(addr)
  PROVE  WordAt(addr) = mem[addr2idx(addr)]
<1>1. /\ addr2idx(addr) = (addr - MemBase) \div 4 /\ addr2idx(addr) \in 0 .. (MemWords - 1)
      /\ addr \in Int
  BY IndexInside, MemoryAssumption DEF Address
<1>2. ASSUME NEW l \in Lanes, NEW a, a = addr - (addr % 4) + l
      PROVE  a \in Addresses /\ (a - MemBase) \div 4 = addr2idx(addr) /\ a % 4 = l
  <2>1. PICK q \in Int, b \in Int, r \in 0 .. 3 : addr = 4 * q + r /\ MemBase = 4 * b
    <3>1. addr = 4 * (addr \div 4) + (addr % 4) /\ addr % 4 \in 0 .. 3 /\ addr \div 4 \in Int
      BY <1>1
    <3>2. MemBase = 4 * (MemBase \div 4) /\ MemBase \div 4 \in Int
      BY MemoryAssumption
    <3>3. QED
      BY <3>1, <3>2
  <2>2. l \in 0 .. 3 /\ addr % 4 = r /\ a = 4 * q + l
    BY <1>2, <2>1 DEF Lanes
  <2>3. addr2idx(addr) = q - b /\ b <= q /\ q < b + MemWords
    BY <1>1, <2>1, MemoryAssumption DEF InMemory
  <2>4. a \in Addresses
    BY <2>1, <2>2, <2>3, MemoryAssumption DEF Addresses
  <2>5. a % 4 = l /\ (a - MemBase) \div 4 = q - b
    BY <2>1, <2>2
  <2>6. QED
    BY <2>3, <2>4, <2>5
<1>3. \A l \in Lanes : WordAt(addr)[l] = mem[addr2idx(addr)][l]
  <2> SUFFICES ASSUME NEW l \in Lanes, NEW a, a = addr - (addr % 4) + l
               PROVE  store[a] = mem[addr2idx(addr)][l]
    BY DEF WordAt
  <2>1. a \in Addresses /\ (a - MemBase) \div 4 = addr2idx(addr) /\ a % 4 = l
    BY <1>2
  <2>2. store[a] = mem[(a - MemBase) \div 4][a % 4]
    BY <2>1 DEF BytesOf, Addresses
  <2>3. QED
    BY <2>1, <2>2
<1>4. mem[addr2idx(addr)] \in [Lanes -> Bytes]
  BY <1>1 DEF Words
<1>5. QED
  BY <1>3, <1>4 DEF WordAt

LEMMA StoreStep ==
  ASSUME TypeInv, BytesOf(mem) = store, req # None, req.we, InMemory(req.addr)
  PROVE  /\ [mem EXCEPT ![addr2idx(req.addr)] = Merged(@, req)] \in [0 .. (MemWords - 1) -> Words]
         /\ BytesOf([mem EXCEPT ![addr2idx(req.addr)] = Merged(@, req)]) = StoreDone
<1> DEFINE idx == addr2idx(req.addr)
           m == [mem EXCEPT ![idx] = Merged(@, req)]
<1>1. /\ mem \in [0 .. (MemWords - 1) -> Words] /\ req.addr \in Address /\ req.addr % 4 = 0
      /\ req.be \subseteq Lanes /\ req.data \in [Lanes -> Bytes]
      /\ idx \in 0 .. (MemWords - 1)
  BY IndexInside DEF TypeInv, RequestInv, Words
<1>2. Merged(mem[idx], req) \in Words
  BY <1>1 DEF Merged, Words
<1>3. m \in [0 .. (MemWords - 1) -> Words]
  BY <1>1, <1>2
<1>4. \A a \in Addresses : BytesOf(m)[a] = StoreDone[a]
  <2> SUFFICES ASSUME NEW a \in Addresses PROVE BytesOf(m)[a] = StoreDone[a]
    OBVIOUS
  <2>1. /\ (a - MemBase) \div 4 \in 0 .. (MemWords - 1) /\ a % 4 \in Lanes
        /\ (a - MemBase) \div 4 = idx <=> a - (a % 4) = req.addr
    BY <1>1, ByteIndex, SameWord
  <2>2. DOMAIN store = Addresses /\ store[a] = mem[(a - MemBase) \div 4][a % 4]
    BY DEF BytesOf, Addresses
  <2>3. BytesOf(m)[a] = m[(a - MemBase) \div 4][a % 4]
    BY DEF BytesOf, Addresses
  <2>4. StoreDone[a] = IF a - (a % 4) = req.addr /\ a % 4 \in req.be
                       THEN req.data[a % 4] ELSE store[a]
    BY <2>2 DEF StoreDone
  <2>5. CASE a - (a % 4) = req.addr
    <3>1. m[idx] = Merged(mem[idx], req)
      BY <1>1
    <3>2. m[idx][a % 4] = IF a % 4 \in req.be THEN req.data[a % 4] ELSE mem[idx][a % 4]
      BY <2>1, <3>1 DEF Merged
    <3>3. QED
      BY <2>1, <2>2, <2>3, <2>4, <2>5, <3>2
  <2>6. CASE a - (a % 4) # req.addr
    <3>1. m[(a - MemBase) \div 4] = mem[(a - MemBase) \div 4]
      BY <1>1, <2>1, <2>6
    <3>2. QED
      BY <2>2, <2>3, <2>4, <2>6, <3>1
  <2>7. QED
    BY <2>5, <2>6
<1>5. DOMAIN BytesOf(m) = Addresses /\ DOMAIN store = Addresses
  BY DEF BytesOf, Addresses
<1>6. DOMAIN StoreDone = Addresses
  BY <1>5 DEF StoreDone
<1>7. BytesOf(m) = StoreDone
  BY <1>4, <1>5, <1>6 DEF BytesOf, StoreDone
<1>8. QED
  BY <1>3, <1>7

-----------------------------------------------------------------------------
(* Every step keeps the invariant *)

LEMMA RequestsAreTyped == NewRequests => RequestInv'
  BY RequestsAssumption DEF NewRequests, RequestInv

LEMMA ZeroIsWord == Zero \in Words
  BY MemoryAssumption DEF Zero, Words

LEMMA SilentIsAnswer == Silent \in [imem : Answer, dmem : Answer] /\ Match(Silent, NothingDue)
  BY ZeroIsWord DEF Silent, NothingDue, Answer, Match

LEMMA InitInv == Init => IInv
<1> SUFFICES ASSUME Init PROVE IInv
  OBVIOUS
<1> USE DEF Init
<1>1. TypeInv
  BY SilentIsAnswer, MemoryAssumption DEF TypeInv, RequestInv
<1>2. MemoryInv /\ AssertMeansOutside
  BY DEF MemoryInv, AssertMeansOutside
<1>3. AnswersInv /\ VerdictInv
  BY DEF AnswersInv, VerdictInv, Running
<1>4. QED
  BY <1>1, <1>2, <1>3 DEF IInv

LEMMA StartTestInv == IInv /\ StartTest => IInv'
<1> SUFFICES ASSUME IInv, StartTest PROVE IInv'
  OBVIOUS
<1> USE DEF StartTest
<1>1. TypeInv'
  BY SilentIsAnswer, RequestsAreTyped, MemoryAssumption DEF TypeInv, Running
<1>2. MemoryInv' /\ AssertMeansOutside'
  BY DEF MemoryInv, AssertMeansOutside
<1>3. AnswersInv'
  BY SilentIsAnswer DEF AnswersInv, Running
<1>4. VerdictInv'
  BY DEF IInv, VerdictInv, testing
<1>5. QED
  BY <1>1, <1>2, <1>3, <1>4 DEF IInv

LEMMA DriveInv == IInv /\ Drive => IInv'
<1> SUFFICES ASSUME IInv, Drive PROVE IInv'
  OBVIOUS
<1>1. /\ pc = "drive" /\ pc' = "settle" /\ pins' = next
      /\ next' = [next EXCEPT !.imem.rvalid = fetch # None, !.dmem.rvalid = req # None]
      /\ UNCHANGED << testing, finished, image, mem, i, fetch, req, store, due, reported >>
  BY DEF Drive
<1>2. next \in [imem : Answer, dmem : Answer]
  BY DEF IInv, TypeInv
<1>3. /\ next'.imem.rvalid = (fetch # None) /\ next'.dmem.rvalid = (req # None)
      /\ next' \in [imem : Answer, dmem : Answer]
  BY <1>1, <1>2 DEF Answer
<1>4. TypeInv'
  BY <1>1, <1>2, <1>3 DEF IInv, TypeInv, RequestInv, Running
<1>5. MemoryInv' /\ AssertMeansOutside'
  BY <1>1 DEF IInv, MemoryInv, AssertMeansOutside
<1>6. AnswersInv'
  BY <1>1, <1>3 DEF IInv, AnswersInv, Match, Running
<1>7. VerdictInv'
  BY <1>1 DEF IInv, VerdictInv, Running, testing
<1>8. QED
  BY <1>4, <1>5, <1>6, <1>7 DEF IInv

LEMMA SettleInv == IInv /\ Settle => IInv'
<1> SUFFICES ASSUME IInv, Settle PROVE IInv'
  OBVIOUS
<1>1. /\ pc = "settle" /\ pc' = "serve" /\ NewRequests
      /\ fetch' # None <=> fetch # None
      /\ req' # None <=> req # None
      /\ UNCHANGED << testing, finished, image, mem, i, next, pins, store, due, reported >>
  BY DEF Settle
<1>2. TypeInv'
  BY <1>1, RequestsAreTyped DEF IInv, TypeInv, Running
<1>3. MemoryInv' /\ AssertMeansOutside'
  BY <1>1 DEF IInv, MemoryInv, AssertMeansOutside
<1>4. AnswersInv'
  BY <1>1 DEF IInv, AnswersInv, Match, Running
<1>5. VerdictInv'
  BY <1>1 DEF IInv, VerdictInv, Running, testing
<1>6. QED
  BY <1>2, <1>3, <1>4, <1>5 DEF IInv

LEMMA AssertFailsInv == IInv /\ AssertFails => IInv'
<1> SUFFICES ASSUME IInv, AssertFails PROVE IInv'
  OBVIOUS
<1>1. /\ pc = "serve" /\ pc' = "aborted"
      /\ \/ fetch # None /\ IndexFails(fetch)
         \/ req # None /\ ~Finishing /\ IndexFails(req.addr)
      /\ UNCHANGED << testing, finished, image, mem, i, next, pins, fetch, req,
                      store, due, reported >>
  BY DEF AssertFails
<1>2. \A addr \in Address : IndexFails(addr) => ~InMemory(addr)
  BY IndexInside, MemoryAssumption DEF IndexFails
<1>3. AssertMeansOutside'
  BY <1>1, <1>2 DEF IInv, TypeInv, RequestInv, AssertMeansOutside
<1>4. TypeInv'
  BY <1>1 DEF IInv, TypeInv, RequestInv
<1>5. MemoryInv'
  BY <1>1 DEF IInv, MemoryInv
<1>6. AnswersInv' /\ VerdictInv'
  BY <1>1 DEF IInv, AnswersInv, VerdictInv, Running, testing
<1>7. QED
  BY <1>3, <1>4, <1>5, <1>6 DEF IInv

LEMMA ServeInv == IInv /\ Serve => IInv'
<1> SUFFICES ASSUME IInv, Serve PROVE IInv'
  OBVIOUS
<1>1. /\ pc = "serve" /\ pc' = IF Finishing THEN "over" ELSE "clock"
      /\ UNCHANGED << testing, image, i, pins, fetch, req, store, due >>
      /\ fetch # None => ~IndexFails(fetch)
      /\ req # None /\ ~Finishing => ~IndexFails(req.addr)
  BY DEF Serve
<1>2. \A addr \in Address : ~IndexFails(addr) => InMemory(addr)
  BY IndexOutside DEF IndexFails
<1>3. /\ fetch # None => fetch \in Address /\ InMemory(fetch)
      /\ req # None => req.addr \in Address /\ (~Finishing => InMemory(req.addr))
  BY <1>1, <1>2 DEF IInv, TypeInv, RequestInv
<1>4. mem \in [0 .. (MemWords - 1) -> Words] /\ BytesOf(mem) = store
  BY <1>1 DEF IInv, TypeInv, MemoryInv
<1>5. /\ mem' \in [0 .. (MemWords - 1) -> Words]
      /\ BytesOf(mem') = IF Finishing THEN store ELSE StoreDone
  <2>1. CASE req # None /\ req.we /\ ~Finishing
    <3>1. mem' = [mem EXCEPT ![addr2idx(req.addr)] = Merged(@, req)]
      BY <2>1 DEF Serve
    <3>2. QED
      BY <1>3, <1>4, <2>1, <3>1, StoreStep DEF IInv
  <2>2. CASE ~(req # None /\ req.we /\ ~Finishing)
    <3>1. mem' = mem
      BY <2>2 DEF Serve
    <3>2. ~Finishing => StoreDone = store
      BY <2>2 DEF StoreDone
    <3>3. QED
      BY <1>4, <3>1, <3>2
  <2>3. QED
    BY <2>1, <2>2
<1>6. MemoryInv'
  BY <1>1, <1>5 DEF MemoryInv, StoreDone
<1>7. AssertMeansOutside'
  BY <1>1, <1>3 DEF AssertMeansOutside
<1>8. /\ fetch # None => mem[addr2idx(fetch)] = WordAt(fetch) /\ WordAt(fetch) \in Words
      /\ req # None /\ ~req.we =>
           mem[addr2idx(req.addr)] = WordAt(req.addr) /\ WordAt(req.addr) \in Words
  <2>1. req # None /\ ~req.we => ~Finishing
    BY DEF Finishing
  <2>2. QED
    BY <1>3, <1>4, <2>1, WordAtIsMem, IndexInside
<1>9. /\ next' \in [imem : Answer, dmem : Answer]
      /\ next'.imem.rvalid = next.imem.rvalid /\ next'.dmem.rvalid = next.dmem.rvalid
      /\ fetch # None => next'.imem.rdata = WordAt(fetch)
      /\ req # None /\ ~req.we => next'.dmem.rdata = WordAt(req.addr)
  <2>1. next \in [imem : Answer, dmem : Answer]
    BY DEF IInv, TypeInv
  <2>2. next' = [next EXCEPT
                   !.imem.rdata = IF fetch # None THEN mem[addr2idx(fetch)] ELSE @,
                   !.dmem.rdata = IF req # None /\ ~req.we THEN mem[addr2idx(req.addr)] ELSE @]
    BY DEF Serve
  <2>3. QED
    BY <1>8, <2>1, <2>2 DEF Answer
<1>10. TypeInv'
  BY <1>1, <1>5, <1>9 DEF IInv, TypeInv, RequestInv, Running
<1>11. AnswersInv'
  BY <1>1, <1>9 DEF IInv, AnswersInv, Match, Running, WordAt
<1>12. VerdictInv'
  <2>1. /\ finished' = (finished \/ Finishing) /\ reported' = (reported \/ Finishing)
    BY DEF Serve
  <2>2. QED
    BY <1>1, <2>1 DEF IInv, VerdictInv, Running, testing
<1>13. QED
  BY <1>6, <1>7, <1>10, <1>11, <1>12 DEF IInv

LEMMA ClockInv == IInv /\ Clock => IInv'
<1> SUFFICES ASSUME IInv, Clock PROVE IInv'
  OBVIOUS
<1>1. /\ pc = "clock" /\ pc' \in {"drive", "over"}
      /\ store' = StoreDone /\ due' = Answers /\ NewRequests
      /\ UNCHANGED << testing, finished, image, mem, next, pins, reported >>
  BY DEF Clock
<1>2. TypeInv'
  BY <1>1, RequestsAreTyped DEF IInv, TypeInv, Running
<1>3. MemoryInv' /\ AssertMeansOutside'
  BY <1>1 DEF IInv, MemoryInv, AssertMeansOutside
<1>4. AnswersInv'
  <2>1. /\ fetch # None => WordAt(fetch) # None
        /\ req # None /\ ~req.we => WordAt(req.addr) # None
    BY <1>1, RequestsAssumption DEF IInv, TypeInv, AnswersInv, Answer
  <2>2. Match(next, Answers)
    BY <1>1, <2>1 DEF IInv, AnswersInv, Match, Answers, Running
  <2>3. QED
    BY <1>1, <2>2 DEF AnswersInv, Running
<1>5. VerdictInv'
  BY <1>1 DEF IInv, VerdictInv, Running, testing
<1>6. QED
  BY <1>2, <1>3, <1>4, <1>5 DEF IInv

LEMMA ResultsInv == IInv /\ Results => IInv'
<1> SUFFICES ASSUME IInv, NEW registersFail \in BOOLEAN,
                    Judge(registersFail \/ MemoryFails),
                    wrong' = (wrong \/ registersFail
                                    \/ \E v \in Expected : WordAt(v.addr) # v.value),
                    Results
             PROVE  IInv'
  BY DEF Results
<1>1. /\ pc = "over" /\ pc' = "start"
      /\ UNCHANGED << arg, result, finished, image, mem, i, next, pins, fetch, req,
                      store, due, reported >>
  BY DEF Results
<1>2. Testbench = "arcs" => (MemoryFails <=> \E v \in Expected : WordAt(v.addr) # v.value)
  <2>1. mem \in [0 .. (MemWords - 1) -> Words] /\ BytesOf(mem) = store
    BY <1>1 DEF IInv, TypeInv, MemoryInv
  <2>2. \A v \in Expected : v.addr \in Address /\ InMemory(v.addr)
    BY TestsAssumption
  <2>3. \A v \in Expected : WordAt(v.addr) = mem[addr2idx(v.addr)]
    BY <2>1, <2>2, WordAtIsMem
  <2>4. QED
    BY <2>3 DEF MemoryFails
<1>3. VerdictInv'
  BY <1>1, <1>2 DEF IInv, VerdictInv, Judge, Running
<1>4. TypeInv'
  BY <1>1 DEF IInv, TypeInv, RequestInv
<1>5. MemoryInv' /\ AssertMeansOutside' /\ AnswersInv'
  BY <1>1 DEF IInv, MemoryInv, AssertMeansOutside, AnswersInv, Running
<1>6. QED
  BY <1>3, <1>4, <1>5 DEF IInv

LEMMA DhrystoneInv == IInv /\ Dhrystone => IInv'
<1> SUFFICES ASSUME IInv, Dhrystone PROVE IInv'
  OBVIOUS
<1>1. /\ pc = "over" /\ pc' = "start" /\ Head(tests) = "dhrystone"
      /\ Judge(~finished) /\ wrong' = (wrong \/ ~reported)
      /\ UNCHANGED << arg, result, finished, image, mem, i, next, pins, fetch, req,
                      store, due, reported >>
  BY DEF Dhrystone
<1>2. VerdictInv'
  BY <1>1 DEF IInv, VerdictInv, Judge, Running
<1>3. TypeInv'
  BY <1>1 DEF IInv, TypeInv, RequestInv
<1>4. MemoryInv' /\ AssertMeansOutside' /\ AnswersInv'
  BY <1>1 DEF IInv, MemoryInv, AssertMeansOutside, AnswersInv, Running
<1>5. QED
  BY <1>2, <1>3, <1>4 DEF IInv

LEMMA ReturnInv == IInv /\ Return => IInv'
<1> SUFFICES ASSUME IInv, Return PROVE IInv'
  OBVIOUS
<1>1. /\ pc = "start" /\ pc' = "done" /\ result' = (IF failed THEN 1 ELSE 0)
      /\ UNCHANGED << arg, tests, failed, wrong, finished, image, mem, i, next, pins, fetch,
                      req, store, due, reported >>
  BY DEF Return
<1>2. TypeInv'
  BY <1>1 DEF IInv, TypeInv, RequestInv
<1>3. MemoryInv' /\ AssertMeansOutside' /\ AnswersInv'
  BY <1>1 DEF IInv, MemoryInv, AssertMeansOutside, AnswersInv, Running
<1>4. VerdictInv'
  BY <1>1 DEF IInv, VerdictInv, Running
<1>5. QED
  BY <1>2, <1>3, <1>4 DEF IInv

LEMMA StutterInv == IInv /\ UNCHANGED vars => IInv'
<1> SUFFICES ASSUME IInv, UNCHANGED vars PROVE IInv'
  OBVIOUS
<1> USE DEF vars, testing
<1>1. TypeInv' /\ MemoryInv'
  BY DEF IInv, TypeInv, RequestInv, MemoryInv, StoreDone
<1>2. AssertMeansOutside' /\ AnswersInv' /\ VerdictInv'
  BY DEF IInv, AssertMeansOutside, AnswersInv, Match, VerdictInv, WordAt
<1>3. QED
  BY <1>1, <1>2 DEF IInv

THEOREM RiscinatorInvariant == Spec => []IInv
<1>1. IInv /\ [Next]_vars => IInv'
  BY StartTestInv, ReturnInv, DriveInv, SettleInv, AssertFailsInv, ServeInv, ClockInv,
     ResultsInv, DhrystoneInv, StutterInv
  DEF Next, Stopped
<1>2. QED
  BY InitInv, <1>1, PTL DEF Spec

\* At every edge the core sees the answers to the requests of the edge before.
THEOREM AnswersHold == Spec => []AnswersAreDue
<1>1. IInv => AnswersAreDue
  BY DEF IInv, AnswersInv, AnswersAreDue, Match, Running
<1>2. QED
  BY <1>1, RiscinatorInvariant, PTL

\* The array of words holds the bytes the core stored, whatever their addresses.
THEOREM MemoryHolds == Spec => []MemoryAgrees
<1>1. IInv => MemoryAgrees
  BY DEF IInv, MemoryInv, MemoryAgrees
<1>2. QED
  BY <1>1, RiscinatorInvariant, PTL

\* The assertion on the index fails for an address outside the memory and no other,
\* although the subtraction of the base wraps and the index is cut to 32 bits.
THEOREM AssertHolds == Spec => []AssertMeansOutside
<1>1. IInv => AssertMeansOutside
  BY DEF IInv
<1>2. QED
  BY <1>1, RiscinatorInvariant, PTL

\* Arcilator's testbench passes exactly when every test went as it should.  (For
\* Verilator's, which is given the image, this is false.)
THEOREM VerdictHolds ==
  ASSUME Testbench = "arcs"
  PROVE  Spec => []VerdictIsRight
<1>1. IInv => VerdictIsRight
  BY DEF IInv, VerdictInv, VerdictIsRight
<1>2. QED
  BY <1>1, RiscinatorInvariant, PTL

=============================================================================
