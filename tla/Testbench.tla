------------------------------ MODULE Testbench ------------------------------
(***************************************************************************)
(* main of rocket-main and boom-main, from the command line to the exit    *)
(* code: the program's segments are merged into one map of words, which    *)
(* the memory port and the MMIO port of the simulated design then share.   *)
(*                                                                         *)
(* A word is its WordBytes bytes (8 in the code), by lane from the lowest. *)
(* AxiPort shows which beats a port serves; here a port serves at most one *)
(* read beat and one write beat in an iteration, and the design's pins are *)
(* those two beats.  Lockstep shows when the models' pins differ; here a   *)
(* comparison of two models may find a difference.                         *)
(***************************************************************************)
EXTENDS ElfLoad, FiniteSets

CONSTANTS
  CommandLines,   \* the arguments main may be given
  Files,          \* the file behind a name: the segments it was made of, its cells
  Lost,           \* how many cells may be missing at a file's end
  Dotted,         \* the arguments with a '.'
  ByteBase, WordBytes,
  TOHOST_ADDR, FROMHOST_ADDR, TOHOST_DATA_ADDR, TOHOST_DATA_SIZE, SYS_write,
  Fill,           \* what the memory port reads where nothing is mapped (two WFIs)
  MemPins, MmioPins, \* the beats the design asks of each port
  ResetCycles, WarmupCycles, MaxCycles, BadLimit,
  None            \* no beat, no trace, no result

Bytes == 0 .. (ByteBase - 1)
Lanes == 0 .. (WordBytes - 1)
Words == [Lanes -> Bytes]
Zero == [k \in Lanes |-> 0]

\* The word that holds a number of one byte.
Number(n) == [Zero EXCEPT ![0] = n]

ASSUME WordsAssumption ==
  /\ ByteBase \in Nat \ {0, 1} /\ WordBytes \in Nat \ {0} /\ Fill \in Words
  /\ {TOHOST_ADDR, FROMHOST_ADDR, TOHOST_DATA_ADDR, TOHOST_DATA_SIZE} \subseteq Nat
  /\ TOHOST_DATA_ADDR % WordBytes = 0 /\ TOHOST_DATA_SIZE % WordBytes = 0
  /\ SYS_write \in Bytes \ {1}

ASSUME PinsAssumption ==
  /\ None \notin Nat
  /\ MemPins \cup MmioPins \subseteq
       [read : Nat \cup {None}, write : [addr : Nat, data : Words] \cup {None}]

ASSUME BoundsAssumption ==
  {ResetCycles, WarmupCycles, MaxCycles} \subseteq Nat /\ BadLimit \in Nat \ {0}

ASSUME ArgumentsAssumption == CommandLines \subseteq Seq(STRING) /\ Lost \subseteq Nat

\* At a position of a file there is the header of a segment, and the segment's data is
\* where the header says, unless it claims to be larger than the whole file.
HasSegment(f, class, seg, pos) ==
  LET n == SizeOf[class].Phdr
      ph == Decode("Phdr", Slice(f.cells, pos, n), ZeroPhdr)
  IN  /\ pos + n <= Len(f.cells) /\ ph.offset \in Nat
      /\ ph.type = seg.type /\ ph.paddr = seg.paddr
      /\ ph.memsz = seg.memsz /\ ph.filesz = seg.filesz
      /\ seg.filesz <= Len(f.cells) =>
           /\ ph.offset + seg.filesz <= Len(f.cells) /\ Len(seg.bytes) = seg.filesz
           /\ \A b \in 1 .. seg.filesz : f.cells[ph.offset + b] = Byte(seg.bytes[b])

\* The same of a section; its data is of no interest.
HasSection(f, class, pos) ==
  LET n == SizeOf[class].Shdr
      sh == Decode("Shdr", Slice(f.cells, pos, n), ZeroShdr)
  IN  /\ pos + n <= Len(f.cells) /\ {sh.offset, sh.size} \subseteq Nat
      /\ sh.type \notin {"NULL", "NOBITS"} /\ sh.size < Len(f.cells) =>
           sh.offset + sh.size <= Len(f.cells)

\* A file made of its segments: they are in it, in order, and nothing else is missing.
IsMadeOfSegments(f) ==
  LET hdr == f.cells[1].rec
  IN  /\ HeaderLoads(f.cells)
      /\ {hdr.phoff, hdr.phnum, hdr.phentsize, hdr.shoff, hdr.shnum, hdr.shentsize} \subseteq Nat
      /\ hdr.phnum = Len(f.segments)
      /\ hdr.phnum # 0 => hdr.phentsize >= SizeOf[hdr.class].Phdr
      /\ \A n \in DOMAIN f.segments :
           HasSegment(f, hdr.class, f.segments[n], hdr.phoff + (n - 1) * hdr.phentsize)
      /\ \A n \in 1 .. hdr.shnum :
           HasSection(f, hdr.class, hdr.shoff + (n - 1) * hdr.shentsize)

ASSUME FilesAssumption ==
  /\ \A class \in Classes : \A T \in {"Ehdr", "Phdr", "Shdr"} : SizeOf[class][T] \in Nat \ {0}
  /\ \A name \in DOMAIN Files :
       LET f == Files[name]
       IN  /\ IsList(f.cells) /\ IsList(f.segments) /\ Len(f.cells) < MaxSize
           /\ \A n \in DOMAIN f.segments :
                /\ f.segments[n].bytes \in Seq(Bytes)
                /\ {f.segments[n].paddr, f.segments[n].memsz, f.segments[n].filesz} \subseteq Nat
           /\ IF f.invalid THEN ~HeaderLoads(f.cells) ELSE IsMadeOfSegments(f)

VARIABLES
  pc,             \* "args", "usage", "elf", "models", "reset", "mem", "mmio", "clock",
                  \* "done", "crash"
  args, left,     \* the command line, and how much there is of the file it names
  opts,           \* the options
  memory,         \* std::map<uint64_t, uint64_t>
  models,         \* the models, in order, each with its pins
  traces,         \* the trace files that were opened, by model
  i, mismatches, bad, finished, printed, result,
  stores          \* history: the writes both ports served, in order
vars == << pc, args, left, opts, memory, models, traces, i, mismatches, bad, finished,
           printed, result, stores >>

Options == [all |-> TRUE, arcs |-> FALSE, vtor |-> FALSE, trace |-> None, name |-> FALSE,
            rest |-> << >>]

EmptyMap == [w \in {} |-> Zero]

Init ==
  /\ pc = "args" /\ args \in CommandLines /\ left = 0
  /\ opts = Options /\ memory = EmptyMap /\ models = << >> /\ traces = {}
  /\ i = 0 /\ mismatches = 0 /\ bad = 0 /\ finished = FALSE /\ printed = << >>
  /\ result = None /\ stores = << >>

Return(code) == pc' = "done" /\ result' = code

-----------------------------------------------------------------------------
(* The command line *)

\* One argument; `name' says that it is the file name of --trace.
Argument(o, arg) ==
  IF o.name THEN [o EXCEPT !.trace = arg, !.name = FALSE]
  ELSE CASE arg = "--arcs"  -> [o EXCEPT !.all = FALSE, !.arcs = TRUE]
         [] arg = "--vtor"  -> [o EXCEPT !.all = FALSE, !.vtor = TRUE]
         [] arg = "--trace" -> [o EXCEPT !.name = TRUE]
         [] OTHER           -> [o EXCEPT !.rest = Append(@, arg)]

\* One iteration of the loop over the arguments, and its end.
ProcessArg ==
  /\ pc = "args"
  /\ IF i < Len(args) THEN opts' = Argument(opts, args[i + 1]) /\ i' = i + 1 /\ UNCHANGED pc
     ELSE pc' = "usage" /\ i' = 0 /\ UNCHANGED opts
  /\ UNCHANGED << args, left, memory, models, traces, mismatches, bad, finished, printed,
                  result, stores >>

\* A --trace without its name, or not exactly one argument that is no option.
CheckUsage ==
  /\ pc = "usage"
  /\ IF opts.name \/ Len(opts.rest) # 1 THEN Return(1) ELSE pc' = "elf" /\ UNCHANGED result
  /\ UNCHANGED << args, left, opts, memory, models, traces, i, mismatches, bad, finished,
                  printed, stores >>

-----------------------------------------------------------------------------
(* The image *)

WordOf(addr) == (addr \div WordBytes) * WordBytes
LaneOf(addr) == addr % WordBytes

\* memory[w]: a word that is not there is inserted as zero.
Slot(m, w) == IF w \in DOMAIN m THEN m[w] ELSE Zero

\* memory[w] = word
Put(m, w, word) == [v \in DOMAIN m \cup {w} |-> IF v = w THEN word ELSE m[v]]

\* Mutant: the lane is not cleared.
MergeByteOver(m, addr, data) ==
  Put(m, WordOf(addr), [Slot(m, WordOf(addr)) EXCEPT ![LaneOf(addr)] = (@ + data) % ByteBase])

MergeByte(m, addr, data) ==
  Put(m, WordOf(addr), [Slot(m, WordOf(addr)) EXCEPT ![LaneOf(addr)] = data])

Loadable(seg) == seg.ph.type = "LOAD" /\ seg.ph.memsz # 0

\* Mutant: a segment without bytes in the file is not told apart.
NoDataAtAll(seg) == Loadable(seg) /\ seg.data = << >>

\* segment->get_data() is null although the segment has bytes in the file.
NoData(seg) == Loadable(seg) /\ seg.ph.filesz # 0 /\ seg.data = << >>

\* A loadable segment in memory: its data, and zeros after it.
MergeSegment(m, seg) ==
  IF ~Loadable(seg) THEN m
  ELSE FoldLeft(LAMBDA acc, n : MergeByte(acc, seg.ph.paddr + n - 1,
                                          IF n <= seg.ph.filesz THEN seg.data[n].byte ELSE 0),
                m, [n \in 1 .. seg.ph.memsz |-> n])

Merged(segments) == FoldLeft(MergeSegment, EmptyMap, segments)

\* elf.load of what is left of the file, and its segments merged in order.
ReadElf(lost) ==
  /\ pc = "elf"
  /\ \/ /\ opts.rest[1] \notin DOMAIN Files
        /\ Return(1) /\ UNCHANGED << left, memory >>
     \/ /\ opts.rest[1] \in DOMAIN Files /\ lost <= Len(Files[opts.rest[1]].cells)
        /\ left' = Len(Files[opts.rest[1]].cells) - lost
        /\ \E loaded \in { Load(SubSeq(Files[opts.rest[1]].cells, 1, left')) } :
             IF ~loaded.ok THEN Return(1) /\ UNCHANGED memory
             ELSE IF \E n \in DOMAIN loaded.elf.segments : NoData(loaded.elf.segments[n])
             THEN pc' = "crash" /\ UNCHANGED << memory, result >>
             ELSE /\ memory' = Merged(loaded.elf.segments)
                  /\ pc' = "models" /\ UNCHANGED result
  /\ UNCHANGED << args, opts, models, traces, i, mismatches, bad, finished, printed, stores >>

-----------------------------------------------------------------------------
(* The models and their adaptors: every field of AxiInputs and AxiOutputs is *)
(* copied to or from the pin of the same name                               *)

NoBeats == [read |-> None, write |-> None]
NewInputs == [r_valid |-> FALSE, r_data |-> Zero]

NewModel(name) ==
  [name |-> name, reset |-> FALSE, mem_in |-> NewInputs, mem_out |-> NoBeats,
   mmio_in |-> NewInputs, mmio_out |-> NoBeats]

set_reset(model, reset) == [model EXCEPT !.reset = reset]
set_mem(model, in) == [model EXCEPT !.mem_in = in]
get_mem(model) == model.mem_out
set_mmio(model, in) == [model EXCEPT !.mmio_in = in]
get_mmio(model) == model.mmio_out

\* ComparingModel: the inputs go to every model, the outputs are the first one's.
set_reset_all(reset) == [n \in DOMAIN models |-> set_reset(models[n], reset)]
set_mem_all(in) == [n \in DOMAIN models |-> set_mem(models[n], in)]
set_mmio_all(in) == [n \in DOMAIN models |-> set_mmio(models[n], in)]

\* vcd_start: "-" and the model's name before the last '.'; without one the
\* insertion throws.
TraceName(name, model) == << name, model >>

MakeModels ==
  /\ pc = "models"
  /\ models' = (IF opts.all \/ opts.vtor THEN << NewModel("vtor") >> ELSE << >>)
               \o (IF opts.all \/ opts.arcs THEN << NewModel("arcs") >> ELSE << >>)
  /\ IF opts.trace # None /\ opts.trace \notin Dotted
     THEN pc' = "crash" /\ UNCHANGED traces
     ELSE /\ traces' = IF opts.trace = None THEN {}
                       ELSE { TraceName(opts.trace, models'[n].name) : n \in DOMAIN models' }
          /\ pc' = "reset"
  /\ UNCHANGED << args, left, opts, memory, i, mismatches, bad, finished, printed, result,
                  stores >>

-----------------------------------------------------------------------------
(* The simulation *)

\* model.clock(): the pins are compared, then the design takes a step.
ClockTo(in, mem, mmio) ==
  /\ models' = [n \in DOMAIN in |-> [in[n] EXCEPT !.mem_out = mem, !.mmio_out = mmio]]
  /\ \E diff \in 0 .. (IF Len(models) > 1 THEN 1 ELSE 0) : mismatches' = mismatches + diff

\* for (i = 0; i < 1000; ++i): reset for the first 100 clocks, no port is served
Reset ==
  /\ pc = "reset"
  /\ IF i < WarmupCycles
     THEN /\ \E mem \in MemPins, mmio \in MmioPins :
               ClockTo(set_reset_all(i < ResetCycles),
                       IF i < ResetCycles THEN NoBeats ELSE mem,
                       IF i < ResetCycles THEN NoBeats ELSE mmio)
          /\ i' = i + 1 /\ UNCHANGED pc
     ELSE pc' = "mem" /\ i' = 0 /\ UNCHANGED << models, mismatches >>
  /\ UNCHANGED << args, left, opts, memory, traces, bad, finished, printed, result,
                  stores >>

\* Mutant: the address is not rounded down to a word.
StoreUnrounded(m, addr, data) == Put(m, addr, data)

Store(m, addr, data) == Put(m, WordOf(addr), data)

\* mem_port.readFn
MemRead(addr) == IF WordOf(addr) \in DOMAIN memory THEN memory[WordOf(addr)] ELSE Fill

\* What update_a puts on the pins: the beat that is served, or nothing.
Answer(read, data) == IF read = None THEN NewInputs ELSE [r_valid |-> TRUE, r_data |-> data]

Served(port, beat) == stores' = Append(stores, [port |-> port, addr |-> beat.addr, data |-> beat.data])

\* get_mem, update_a, set_mem: the read is served before the write.
MemPort ==
  /\ pc = "mem" /\ i < MaxCycles
  /\ LET out == get_mem(models[1])
     IN  /\ models' = set_mem_all(Answer(out.read, MemRead(out.read)))
         /\ IF out.write = None THEN UNCHANGED << memory, stores >>
            ELSE /\ memory' = Store(memory, out.write.addr, out.write.data)
                 /\ Served("mem", out.write)
  /\ pc' = "mmio"
  /\ UNCHANGED << args, left, opts, traces, i, mismatches, bad, finished, printed, result >>

AllOnes == [k \in Lanes |-> ByteBase - 1]

\* mmio_port.readFn: only fromhost has a value; elsewhere r_data stays zero.
MmioRead(addr) == IF addr = FROMHOST_ADDR THEN AllOnes ELSE Zero

\* The bytes of tohost_data up to and with the first NUL, and the map with the words
\* that were looked at.
PrintArea(m) ==
  LET word(n) == TOHOST_DATA_ADDR + ((n - 1) \div WordBytes) * WordBytes
      bytes == [n \in 1 .. TOHOST_DATA_SIZE |-> Slot(m, word(n))[(n - 1) % WordBytes]]
      end == Min({ n \in DOMAIN bytes : bytes[n] = 0 } \cup {TOHOST_DATA_SIZE})
  IN  [map |-> [w \in DOMAIN m \cup { word(n) : n \in 1 .. end } |-> Slot(m, w)],
       text |-> SubSeq(bytes, 1, end)]

\* Mutant: any address in tohost's word will do.
IsExitAnywhere(addr, data) == WordOf(addr) = TOHOST_ADDR /\ data = Number(1)

IsExit(addr, data) == addr = TOHOST_ADDR /\ data = Number(1)

\* mmio_port.writeFn
MmioWrite(addr, data) ==
  LET stored == Store(memory, addr, data)
      shown == PrintArea(stored)
      prints == addr = TOHOST_ADDR /\ data = Number(SYS_write)
  IN  /\ finished' = (finished \/ IsExit(addr, data))
      /\ memory' = IF prints THEN shown.map ELSE stored
      /\ printed' = IF prints THEN shown.text ELSE printed

\* get_mmio, update_a, set_mmio
MmioPort ==
  /\ pc = "mmio"
  /\ LET out == get_mmio(models[1])
     IN  /\ models' = set_mmio_all(Answer(out.read, MmioRead(out.read)))
         /\ IF out.write = None THEN UNCHANGED << memory, finished, printed, stores >>
            ELSE MmioWrite(out.write.addr, out.write.data) /\ Served("mmio", out.write)
  /\ pc' = "clock"
  /\ UNCHANGED << args, left, opts, traces, i, mismatches, bad, result >>

\* Mutant: mismatches are looked at before the program's exit.
ClockMismatchFirst ==
  /\ pc = "clock"
  /\ \E mem \in MemPins, mmio \in MmioPins : ClockTo(models, mem, mmio)
  /\ bad' = IF mismatches' > 0 THEN bad + 1 ELSE bad
  /\ IF mismatches' > 0 /\ bad' >= BadLimit THEN Return(1) /\ UNCHANGED i
     ELSE IF finished THEN Return(0) /\ UNCHANGED i
     ELSE pc' = "mem" /\ i' = i + 1 /\ UNCHANGED result
  /\ UNCHANGED << args, left, opts, memory, traces, finished, printed, stores >>

\* eval, update_b and model.clock(), and what ends the loop.
Clock ==
  /\ pc = "clock"
  /\ \E mem \in MemPins, mmio \in MmioPins : ClockTo(models, mem, mmio)
  /\ bad' = IF ~finished /\ mismatches' > 0 THEN bad + 1 ELSE bad
  /\ IF finished THEN Return(0) /\ UNCHANGED i
     ELSE IF mismatches' > 0 /\ bad' >= BadLimit THEN Return(1) /\ UNCHANGED i
     ELSE pc' = "mem" /\ i' = i + 1 /\ UNCHANGED result
  /\ UNCHANGED << args, left, opts, memory, traces, finished, printed, stores >>

LoopEnds ==
  /\ pc = "mem" /\ i = MaxCycles
  /\ Return(0)
  /\ UNCHANGED << args, left, opts, memory, models, traces, i, mismatches, bad, finished,
                  printed, stores >>

Ended == pc \in {"done", "crash"} /\ UNCHANGED vars

Next ==
  \/ ProcessArg \/ CheckUsage
  \/ \E lost \in Lost : ReadElf(lost)
  \/ MakeModels
  \/ Reset
  \/ MemPort \/ MmioPort \/ Clock \/ LoopEnds
  \/ Ended

Spec == Init /\ [][Next]_vars

-----------------------------------------------------------------------------
(* Properties *)

\* The memory a list of segments asks for: where segments overlap, the last one
\* in the file counts; past its data a segment is zero, and so are the bytes of
\* a word that no segment covers.
Covers(seg, addr) == seg.type = "LOAD" /\ addr \in seg.paddr .. (seg.paddr + seg.memsz - 1)
ByteAt(segs, addr) ==
  LET over == { n \in DOMAIN segs : Covers(segs[n], addr) }
      seg == segs[Max(over)]
      at == addr - seg.paddr + 1
  IN  IF over = {} \/ at > Len(seg.bytes) THEN 0 ELSE seg.bytes[at]
Covered(segs) == UNION { { a \in segs[n].paddr .. (segs[n].paddr + segs[n].memsz - 1) :
                             Covers(segs[n], a) } : n \in DOMAIN segs }
ImageOf(segs) ==
  [w \in { WordOf(a) : a \in Covered(segs) } |->
     [k \in Lanes |-> ByteAt(segs, w + k)]]

Segments == Files[opts.rest[1]].segments

\* A file is loaded as the image it was made from, or not at all: segments that
\* overlap or share a word, that are longer in memory than in the file or the
\* other way round, and that are not LOAD; however much of the file's end is
\* missing (main's merging loop after elf.load).
ImageIsFile == pc = "models" => memory = ImageOf(Segments)

\* What was stored last in the word of an address, or else its initial value;
\* printing adds the words it looks at, as zeros.
StoredAt(addr) == { n \in DOMAIN stores : WordOf(stores[n].addr) = WordOf(addr) }
InArea(addr) == addr \in TOHOST_DATA_ADDR .. (TOHOST_DATA_ADDR + TOHOST_DATA_SIZE - 1)
Expected(addr) ==
  LET image == ImageOf(Segments)
  IN  IF StoredAt(addr) # {} THEN { stores[Max(StoredAt(addr))].data }
      ELSE IF WordOf(addr) \in DOMAIN image THEN { image[WordOf(addr)] }
      ELSE IF InArea(addr) /\ printed # << >> THEN { Zero, Fill } ELSE { Fill }

\* A step of a port gives every model the answer to the first model's read.
MemAnswered ==
  LET read == models[1].mem_out.read
  IN  \A n \in DOMAIN models' :
        /\ models'[n].mem_in.r_valid = (read # None)
        /\ read # None => models'[n].mem_in.r_data \in Expected(read)
MmioAnswered ==
  LET read == models[1].mmio_out.read
  IN  \A n \in DOMAIN models' :
        /\ models'[n].mmio_in.r_valid = (read # None)
        /\ models'[n].mmio_in.r_data = IF read = FROMHOST_ADDR THEN AllOnes ELSE Zero
Answered == /\ pc = "mem" /\ pc' = "mmio" => MemAnswered
            /\ pc = "mmio" => MmioAnswered

\* Both ports write the one map, and each answers for itself: a read on the
\* memory port finds what either port stored last in that word, the image, or
\* the fill; one on the MMIO port finds all ones at fromhost and zero elsewhere,
\* whatever was stored there; and every model is given the answer (readFn and
\* writeFn of both ports, set_mem, set_mmio).
PortsShareMemory == [][Answered]_vars

\* An argument is the name of a trace if an odd number of --trace come before it.
IsTraceName(n) ==
  LET before == { k \in 0 .. (n - 1) : \A j \in (n - k) .. (n - 1) : args[j] = "--trace" }
  IN  Max(before) % 2 = 1
UsageIsRight ==
  /\ Cardinality({ n \in DOMAIN args : /\ ~IsTraceName(n)
                                       /\ args[n] \notin {"--arcs", "--vtor", "--trace"} }) = 1
  /\ ~IsTraceName(Len(args) + 1)

WasExit(n) == stores[n] = [port |-> "mmio", addr |-> TOHOST_ADDR, data |-> Number(1)]
Exited == \E n \in DOMAIN stores : WasExit(n)
Loads == UsageIsRight /\ opts.rest[1] \in DOMAIN Files
IsCut == left < Len(Files[opts.rest[1]].cells)

\* Success is a simulation that ran, until the program stored 1 to tohost itself through
\* the MMIO port or for all iterations, with fewer than BadLimit bad cycles in the latter
\* case (main's `return 0').
SuccessIsRight ==
  pc = "done" /\ result = 0 =>
    Loads /\ models # << >> /\ (Exited \/ (i = MaxCycles /\ bad < BadLimit))

\* Failure is a wrong command line, a file that is missing, cut or no ELF file, or models
\* that disagreed while the program had not exited (main's `return 1').
FailureIsRight ==
  pc = "done" /\ result = 1 =>
    \/ ~Loads
    \/ models = << >> /\ (IsCut \/ Files[opts.rest[1]].invalid)
    \/ mismatches > 0 /\ bad = BadLimit /\ ~Exited

\* The process is killed only by a loadable segment larger than its file, or by a trace
\* file name without a dot (the merging loop, vcd_start).
CrashIsRight ==
  pc = "crash" =>
    /\ Loads
    /\ \/ opts.trace # None /\ opts.trace \notin Dotted
       \/ \E n \in DOMAIN Segments : Segments[n].type = "LOAD" /\ Segments[n].filesz > left

\* Every way to end has the reason it stands for: each exit code, and a process that is
\* killed (main).
OutcomeIsRight == SuccessIsRight /\ FailureIsRight /\ CrashIsRight
=============================================================================
