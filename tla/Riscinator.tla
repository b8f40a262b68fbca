----------------------------- MODULE Riscinator -----------------------------
(***************************************************************************)
(* The testbenches of the riscinator core: simulate(), which answers the   *)
(* core's instruction and data requests from an array of words, and the    *)
(* tests that run it and judge the outcome.  There are two of them, one    *)
(* for the Arcilator model and one for the Verilator model, alike but for  *)
(* the memory their check_results is given.                                *)
(*                                                                         *)
(* An iteration of simulate() is four steps:                               *)
(*   "drive"   answer the requests of the last cycle; note whether there   *)
(*             are requests in this one                                    *)
(*   "settle"  the core's combinational logic sees the answers             *)
(*   "serve"   look up the addresses requested now                         *)
(*   "clock"   the rising edge                                             *)
(* The core is external.  Whether it makes a request is a function of its  *)
(* registers; the address and the data settle with the inputs.             *)
(*                                                                         *)
(* A word is four byte lanes and a byte enable the set of its lanes.       *)
(* uint32_t and size_t are numbers below MaxUnsigned (2^32) and MaxSize    *)
(* (2^64).                                                                 *)
(***************************************************************************)
EXTENDS Integers, Sequences

CONSTANTS
  Testbench,      \* "arcs" or "vtor"
  Args,           \* the command lines it may be given
  Fetches, Loads, Stores,  \* the requests the core may make
  Bytes,
  Images,         \* the memory images of the tests
  Expected,       \* check->mem of itype and jmps: where which word is expected
  MemBase, MemWords,   \* MEMBASE and MEMSIZE, the latter in words
  FinishAddr,     \* 0xffff00
  MaxUnsigned, MaxSize,
  MaxCycles,      \* how many cycles a test is given
  Repeats,        \* how often dhrystone is run (10)
  None            \* no request

Lanes == 0 .. 3
Words == [Lanes -> Bytes]
Address == 0 .. (MaxUnsigned - 1)
InMemory(addr) == MemBase <= addr /\ addr < MemBase + 4 * MemWords

ASSUME MemoryAssumption ==
  /\ 0 \in Bytes
  /\ MemBase \in Nat /\ MemWords \in Nat \ {0} /\ MaxUnsigned \in Nat /\ MaxSize \in Nat \ {0}
  /\ MemBase % 4 = 0 /\ MaxSize % (4 * MaxUnsigned) = 0
  /\ MemBase + 4 * MemWords <= MaxUnsigned
  /\ MemWords <= MaxUnsigned - (MemBase \div 4)
  /\ FinishAddr \in Address /\ ~InMemory(FinishAddr)
  /\ Images \subseteq [0 .. (MemWords - 1) -> Words]

ASSUME RequestsAssumption ==
  /\ None \notin Nat /\ None \notin Words
  /\ Fetches \subseteq Address
  /\ Loads \subseteq [we : {FALSE}, addr : Address]
  /\ Stores \subseteq [we : {TRUE}, addr : Address, be : SUBSET Lanes, data : Words]
  /\ \A q \in Loads \cup Stores : q.addr % 4 = 0

ASSUME TestsAssumption ==
  /\ Testbench \in {"arcs", "vtor"}
  /\ Args \subseteq {"none", "itype", "jmps", "dhrystone", "unknown", "many"}
  /\ Expected \subseteq [addr : { a \in Address : InMemory(a) }, value : Words]
  /\ MaxCycles \in Nat \ {0} /\ Repeats \in Nat

VARIABLES
  pc, arg, tests, \* where the program is, its command line, the tests still to run
  failed, result, \* main's flag, and what it returns
  finished,       \* the global flag
  image, mem,     \* the loaded image and the memory of the simulation
  i,              \* the loop counter
  next,           \* next_imem_rvalid, next_imem_rdata and the two for dmem
  pins,           \* the core's inputs: rvalid and rdata of imem and dmem
  fetch, req,     \* its outputs: the instruction and the data request
  \* for the properties
  store,          \* the memory byte by byte, as the core wrote it
  due,            \* the answers it may expect in this cycle
  reported,       \* the core has stored to FinishAddr in this test
  wrong           \* some test did not go as it should

testing == << arg, tests, failed, result, wrong >>
vars == << pc, testing, finished, image, mem, i, next, pins, fetch, req,
           store, due, reported >>

Zero == [l \in Lanes |-> 0]
Silent == [imem |-> [rvalid |-> FALSE, rdata |-> Zero], dmem |-> [rvalid |-> FALSE, rdata |-> Zero]]
NothingDue == [imem |-> None, dmem |-> None, ack |-> FALSE]

BytesOf(m) == [a \in MemBase .. (MemBase + 4 * MemWords - 1) |-> m[(a - MemBase) \div 4][a % 4]]

-----------------------------------------------------------------------------
(* main *)

Selected(given) ==
  LET chosen(name) == given \in {"none", name}
      once(name) == IF chosen(name) THEN << name >> ELSE << >>
  IN  once("itype") \o once("jmps")
        \o (IF chosen("dhrystone") THEN [n \in 1 .. Repeats |-> "dhrystone"] ELSE << >>)

Init ==
  /\ pc = "start"
  /\ arg \in Args /\ tests = Selected(arg)
  /\ failed = FALSE /\ result = None /\ wrong = FALSE /\ finished = FALSE
  /\ image \in Images /\ mem = image /\ store = BytesOf(image)
  /\ i = 0 /\ next = Silent /\ pins = Silent
  /\ fetch = None /\ req = None
  /\ due = NothingDue /\ reported = FALSE

\* The core shows new requests.
NewRequests ==
  /\ fetch' \in Fetches \cup {None}
  /\ req' \in Loads \cup Stores \cup {None}

\* Mutant: dhrystone does not reset the global flag.
StartTestFlagKept ==
  /\ pc = "start" /\ tests # << >>
  /\ image' \in Images /\ mem' = image' /\ store' = BytesOf(image')
  /\ i' = 0 /\ next' = Silent /\ pins' = Silent /\ due' = NothingDue
  /\ NewRequests
  /\ reported' = FALSE
  /\ pc' = "drive"
  /\ UNCHANGED << testing, finished >>

\* A fresh core and memory; simulate() up to its loop.
StartTest ==
  /\ pc = "start" /\ tests # << >>
  /\ image' \in Images /\ mem' = image' /\ store' = BytesOf(image')
  /\ i' = 0 /\ next' = Silent /\ pins' = Silent /\ due' = NothingDue
  /\ NewRequests
  /\ finished' = (finished /\ Head(tests) # "dhrystone")
  /\ reported' = FALSE
  /\ pc' = "drive"
  /\ UNCHANGED testing

\* "ALL TESTS PASSED" is printed when 0 is returned, unless the usage was.
Return ==
  /\ pc = "start" /\ tests = << >>
  /\ result' = IF failed THEN 1 ELSE 0
  /\ pc' = "done"
  /\ UNCHANGED << arg, tests, failed, wrong, finished, image, mem, i, next, pins, fetch, req,
                  store, due, reported >>

-----------------------------------------------------------------------------
(* simulate *)

\* Mutant: the base is not subtracted.
addr2idxAbsolute(addr) == (addr \div 4) % MaxUnsigned

\* (addr - mem_base) / sizeof(uint32_t): a size_t, returned as an unsigned
addr2idx(addr) == (((addr - MemBase) % MaxSize) \div 4) % MaxUnsigned

Drive ==
  /\ pc = "drive"
  /\ pins' = next
  /\ next' = [next EXCEPT !.imem.rvalid = fetch # None, !.dmem.rvalid = req # None]
  /\ pc' = "settle"
  /\ UNCHANGED << testing, finished, image, mem, i, fetch, req, store, due, reported >>

\* model.passthrough() (external)
Settle ==
  /\ pc = "settle"
  /\ NewRequests
  /\ fetch' # None <=> fetch # None
  /\ req' # None <=> req # None
  /\ pc' = "serve"
  /\ UNCHANGED << testing, finished, image, mem, i, next, pins, store, due, reported >>

IndexFails(addr) == addr2idx(addr) >= MemWords

Finishing == req # None /\ req.we /\ req.addr = FinishAddr

\* assert(memidx < len), for the fetch and then for the data request
AssertFails ==
  /\ pc = "serve"
  /\ \/ fetch # None /\ IndexFails(fetch)
     \/ req # None /\ ~Finishing /\ IndexFails(req.addr)
  /\ pc' = "aborted"
  /\ UNCHANGED << testing, finished, image, mem, i, next, pins, fetch, req,
                  store, due, reported >>

\* Mutant: the byte enables are taken as disables.
MergedInverted(word, q) == [l \in Lanes |-> IF l \in q.be THEN word[l] ELSE q.data[l]]

\* (write & mask) | (~mask & mem[memidx])
Merged(word, q) == [l \in Lanes |-> IF l \in q.be THEN q.data[l] ELSE word[l]]

\* Mutant: the store is made before the instruction is read.
ServeStoreFirst ==
  /\ pc = "serve"
  /\ fetch # None => ~IndexFails(fetch)
  /\ req # None /\ ~Finishing => ~IndexFails(req.addr)
  /\ mem' = IF req # None /\ req.we /\ ~Finishing
            THEN [mem EXCEPT ![addr2idx(req.addr)] = Merged(@, req)] ELSE mem
  /\ next' = [next EXCEPT
       !.imem.rdata = IF fetch # None THEN mem'[addr2idx(fetch)] ELSE @,
       !.dmem.rdata = IF req # None /\ ~req.we THEN mem[addr2idx(req.addr)] ELSE @]
  /\ finished' = (finished \/ Finishing)
  /\ reported' = (reported \/ Finishing)
  /\ pc' = IF Finishing THEN "over" ELSE "clock"
  /\ UNCHANGED << testing, image, i, pins, fetch, req, store, due >>

\* The instruction is read, then the data is written or read; a store to
\* FinishAddr leaves the loop.
Serve ==
  /\ pc = "serve"
  /\ fetch # None => ~IndexFails(fetch)
  /\ req # None /\ ~Finishing => ~IndexFails(req.addr)
  /\ mem' = IF req # None /\ req.we /\ ~Finishing
            THEN [mem EXCEPT ![addr2idx(req.addr)] = Merged(@, req)] ELSE mem
  /\ next' = [next EXCEPT
       !.imem.rdata = IF fetch # None THEN mem[addr2idx(fetch)] ELSE @,
       !.dmem.rdata = IF req # None /\ ~req.we THEN mem[addr2idx(req.addr)] ELSE @]
  /\ finished' = (finished \/ Finishing)
  /\ reported' = (reported \/ Finishing)
  /\ pc' = IF Finishing THEN "over" ELSE "clock"
  /\ UNCHANGED << testing, image, i, pins, fetch, req, store, due >>

WordAt(addr) == [l \in Lanes |-> store[addr - (addr % 4) + l]]

\* The bytes as the data request of this cycle leaves them.
StoreDone ==
  IF req # None /\ req.we
  THEN [a \in DOMAIN store |-> IF a - (a % 4) = req.addr /\ a % 4 \in req.be
                               THEN req.data[a % 4] ELSE store[a]]
  ELSE store

\* What a memory with one cycle of latency owes for the requests of this cycle.
Answers ==
  [imem |-> IF fetch = None THEN None ELSE WordAt(fetch),
   dmem |-> IF req # None /\ ~req.we THEN WordAt(req.addr) ELSE None,
   ack  |-> req # None /\ req.we]

\* model.clock(); model.passthrough() (external), and the loop's test
Clock ==
  /\ pc = "clock"
  /\ store' = StoreDone
  /\ due' = Answers
  /\ NewRequests
  /\ i' = i + 1
  /\ pc' = IF i' < MaxCycles THEN "drive" ELSE "over"
  /\ UNCHANGED << testing, finished, image, mem, next, pins, reported >>

-----------------------------------------------------------------------------
(* The verdict of a test *)

\* check_results: the Verilator testbench passes it the image it loaded.
MemoryFails ==
  \E v \in Expected :
    (IF Testbench = "arcs" THEN mem ELSE image)[addr2idx(v.addr)] # v.value

Judge(fails) == failed' = (failed \/ fails)

Results ==
  /\ pc = "over" /\ Head(tests) # "dhrystone"
  /\ \E registersFail \in BOOLEAN :
       /\ Judge(registersFail \/ MemoryFails)
       /\ wrong' = (wrong \/ registersFail
                          \/ \E v \in Expected : WordAt(v.addr) # v.value)
  /\ tests' = Tail(tests)
  /\ pc' = "start"
  /\ UNCHANGED << arg, result, finished, image, mem, i, next, pins, fetch, req,
                  store, due, reported >>

Dhrystone ==
  /\ pc = "over" /\ Head(tests) = "dhrystone"
  /\ Judge(~finished)
  /\ wrong' = (wrong \/ ~reported)
  /\ tests' = Tail(tests)
  /\ pc' = "start"
  /\ UNCHANGED << arg, result, finished, image, mem, i, next, pins, fetch, req,
                  store, due, reported >>

Stopped == pc \in {"done", "aborted"} /\ UNCHANGED vars

Next ==
  \/ StartTest \/ Return
  \/ Drive \/ Settle \/ AssertFails \/ Serve \/ Clock
  \/ Results \/ Dhrystone
  \/ Stopped

Spec == Init /\ [][Next]_vars

-----------------------------------------------------------------------------
(* Properties *)

\* At every edge the core sees the answers to the requests of the edge before,
\* and no others: an instruction or a loaded word as the memory held it when it
\* was asked for, before the store of that same cycle; a store is acknowledged.
AnswersAreDue ==
  pc = "clock" =>
    /\ pins.imem.rvalid <=> due.imem # None
    /\ due.imem # None => pins.imem.rdata = due.imem
    /\ pins.dmem.rvalid <=> due.dmem # None \/ due.ack
    /\ due.dmem # None => pins.dmem.rdata = due.dmem

\* The array of words holds the bytes the core stored, each at its own address.
MemoryAgrees ==
  pc # "aborted" => BytesOf(mem) = IF pc = "clock" THEN StoreDone ELSE store

\* The assertion on the index fails for an address outside the memory and for no
\* other, also for one below its base, where the subtraction wraps.
AssertMeansOutside ==
  /\ pc = "aborted" => \/ fetch # None /\ ~InMemory(fetch)
                       \/ req # None /\ ~InMemory(req.addr)
  /\ pc = "clock" => /\ fetch # None => InMemory(fetch)
                     /\ req # None => InMemory(req.addr)

\* The tests pass exactly when each of them went as it should: itype and jmps left
\* the expected words in memory and registers, and each dhrystone reported.
VerdictIsRight == result # None => (result = 0 <=> ~wrong)

\* riscinator-verilator-main.cpp: check->mem lists what itype and jmps are expected
\* to leave in memory; a core that leaves it there, in the expected registers too,
\* passes.
ExpectedResultsPass == result # None /\ ~wrong => result = 0

=============================================================================
