# A verification development for arc-tests

arc-tests simulates processor designs (Rocket, BOOM, riscinator) with models
compiled by Arcilator and by Verilator, runs bare-metal benchmarks on them, and
compares the two. This directory holds TLA+ models of the parts of it that have
state and control, the TLC configurations that check them, and TLAPS proofs.

- [The system](#the-system): components, state, operations, hard behaviour
- [The models](#the-models): which module models what, and how it corresponds
- [What the runs check](#what-the-runs-check)
- [What is proved](#what-is-proved)
- [Disagreements with the documentation](#disagreements-with-the-documentation)
- [What is not modelled](#what-is-not-modelled)
- [Plan](#plan)

## The system

`rocket/rocket-main.cpp` and `boom/boom-main.cpp` are the same program up to
class names (boom's line numbers are one less from line 335 on); references below
are to the Rocket one unless boom is named.

| component | where | state it keeps | operations |
|---|---|---|---|
| AXI port | `rocket-main.cpp:100-221`, `readFn`/`writeFn` 322-368 | the burst being read (`read_beats_left`, `read_id`, `read_addr`, `read_size`) and the one being written (the same, and `write_acked`); the driven inputs `in`, the sampled outputs `out`; `memory` | `update_a`, `update_b`, once per cycle and port |
| lockstep driver | `ComparingRocketModel` 20-121, `main` 301-317, 370-404 | the models, `cycle`, `num_mismatches`, `num_bad_cycles`, `finished` | reset and warm-up, one loop iteration, `clock` with `compare_ports` |
| HTIF console and exit code | guest `benchmarks/common/syscalls.c`, host `rocket-main.cpp:337-368` | `putchar`'s buffer, the `tohost` word and the `tohost_data` area, `finished` | `putchar`, `printstr`, `exit`, the host's reaction to a store to `tohost` |
| barrier | `benchmarks/common/util.h:60-78` | `sense`, `count`, each hart's `threadsense` | `barrier(ncores)` |
| main and its memory | `rocket-main.cpp:223-404` | the options, `memory`, the models, `finished`, the counters | the command line, `elf.load` and the merge of the segments byte by byte, reset, one iteration with both ports over the one map, the exit code |
| ELFIO | `elfio/elfio/*.hpp` | an object's header, sections with their data, segments; what an accessor has counted | `create`, `load`, `save` with its layout, `validate`; adding to, reading and rearranging tables |
| `diffvcd.py` | `diffvcd.py` | the signals left to compare, the earliest mismatches | select the signals, compare one signal, report |
| riscinator testbenches | `riscinator/riscinator-main.cpp`, `riscinator-verilator-main.cpp` | the array `mem`, the answers due in the next cycle (`next_*`), `finished`, `failed` | `simulate`, `check_results`, the tests, `main` |
| model adaptors | `rocket/`, `boom/`: `*-model-{arc,vtor}.cpp`, `ports.def` | none but the generated model | copy pins, `eval`, waveform output |
| C library, start-up | `syscalls.c`, `crt.S`, `test.ld` | counters | `printf` formatting, string and memory functions, set-up |
| benchmark utilities | `util.h` | none | `verify*`, `lfsr`, `insn_len` |
| dhrystone | `benchmarks/dhrystone/` | its globals | the workload |
| scripts | `benchmark.py`, `op-costs.py` | none that lasts | run builds, print figures |
| designs and vendored code | `*.fir.gz`, `generator/`, `encoding.h`, `*_mem.h`, Verilog stubs | - | - |

How they interact. In one iteration of the simulation loop the driver samples
the outputs of the *first* model, lets each AXI port answer (`update_a`), drives
the answers into *all* models, lets them settle (`eval`), samples again, lets the
ports note which beats are about to be taken (`update_b`), and gives the rising
edge (`clock`, which first compares the models' ports). A store of the program
to `tohost` arrives as a write on the MMIO port, in whose `writeFn` the host
prints the console area or sets `finished`; the loop looks at `finished` after
the edge. Everything on the host is sequential; the concurrency is that of the
hardware, seen two samples per cycle, and of the harts in `barrier`.

What is hard here:

- **Agreement without a shared clock edge.** The port infers from two samples what
  the design decides at the edge. A beat lost or counted twice shows up only as a
  hung or corrupted program much later.
- **Burst arithmetic.** `len + 1`, last beat, realigned addresses, lanes of narrow
  and unaligned beats, unsigned counters.
- **Lockstep verdict.** Mismatches of the warm-up are kept, the exit flag has
  priority, one model's outputs drive both.
- **Console.** A fixed area, word-wise copies, a host that does not know the length.
- **Barrier reuse.** Rounds overlap; the two final stores have no fence between them.
- **The image.** Segments may overlap, share a word, claim more bytes than the file has
  or fewer than they occupy, and the file may be cut; the library reports a stream that
  failed by nothing but later failures.
- **One map, two ports.** Both write it in one iteration; printing adds words to it.
- **File layout.** ELFIO derives offsets from addresses, alignments and earlier saves, and
  lets segments share sections; indices into tables move under the feet of other tables.
- **Comparing traces.** Changes are paired by position, not by time.
- **One-cycle memory of riscinator.** Presence of a request is sampled before the
  inputs settle, its address after; answers come a cycle later.

The line-by-line list of these hazards, with the properties that cover each, is
in `PROJECT.json`.

What makes each component correct:

- AXI port: it is a memory with bursts. Every accepted burst gets exactly its
  beats, with the right id, address, data and last flag; every handed-over data
  beat reaches memory once; one acknowledge; nothing waits for good.
- Driver: equal models are never reported, different ones end the run within a
  known number of cycles, and the exit code says which.
- Console: nothing is lost or reordered between `putchar` and the area, the host
  shows every write, success is return code zero and nothing else.
- Barrier: nobody leaves a round another has not entered; everybody leaves.
- main: the memory is the file's image or the program refuses; what one port stores the
  other reads; the exit code means one thing.
- ELFIO: what was added is found again, after any rearrangement, save and load; the file's
  parts do not overlap, and a loader of the file gets the image its maker described.
- `diffvcd.py`: what it prints is true and is the earliest difference.
- riscinator: each request of an edge is answered at the next, memory holds what
  was stored, the verdict is that of the tests.

## The models

| module | models | its variables and actions |
|---|---|---|
| `AxiBurst` | address and lane arithmetic, the word map | operators |
| `AxiMemory` | abstract: what the design is promised, one step per cycle | `Cycle` |
| `AxiPort` | one port with the loop around it | members of `AxiPort` under their names; `UpdateA`, `AssertFails`, `Eval`, `UpdateB`, `Clock` |
| `PhaseBarrier` | abstract: what a barrier promises | `Enter`, `Leave` |
| `SenseBarrier` | `barrier()` | its three variables; `Arrive`, `ResetCount`, `PublishSense`, `Spin` |
| `Lockstep` | the driver | the members of `ComparingModel` and main's locals; `ResetClock`, `EnterLoop`, `Serve`, `Clock`, `Check`, `LoopEnds` |
| `Htif` | console and exit code | `buf`, `buflen`, the copy loop, the area, `finished`; `Putchar`, `Printstr`, `CopyWord`, `StoreTohost`, `MainReturns`, `Exit` |
| `Riscinator` | both riscinator testbenches | `mem`, `next`, `pins`, `tests`, `failed`, `finished`; `StartTest`, `Drive`, `Settle`, `Serve`, `AssertFails`, `Clock`, `Results`, `Dhrystone`, `Return` |
| `Testbench` | all of `main` in rocket-main and boom-main | main's locals, the models' pins; `ProcessArg`, `CheckUsage`, `ReadElf`, `MakeModels`, `Reset`, `MemPort`, `MmioPort`, `Clock`, `LoopEnds` |
| `ElfFile` | ELFIO's objects and the bytes of a file | operators |
| `ElfLoad` | `elfio::load` | operators |
| `ElfSave` | `elfio::save`, `validate` | operators |
| `ElfTables` | the accessors of tables: what adds to them, rearranges them and reads one entry | operators |
| `ElfSearch` | the readers that search: hash tables, notes, attributes, needed versions | operators, the RECURSIVE ones |
| `Elfio` | a program that uses ELFIO | the object, the file; one action per call that changes either: `AddSymbol`, `AddRelocation`, `ArrangeLocals`, `AddDynamic`, `AddNote`, `AddSectionAs`, `Assign`, `SaveFile`, `LoadFile`, ... |
| `ElfioTables` | what that program reads back from its tables | properties |
| `TraceDiff` | `diffvcd.py` | its globals; `Select`, `Compare`, `Report` |
| `MC*` | instances for TLC | small constants |
| `*Proofs` | theorems | inductive invariants |

**AxiPort.** `pc` names the four places of an iteration. A channel is one value,
`None` when its valid signal is low and the payload otherwise. `out'` in `UpdateA`
and `UpdateB` is the sample the loop takes just before the call. The design is
external: an AXI manager that holds an offer until it is taken, may offer write
data before or with the address (never for a burst it has not announced), flags
the last beat correctly, and whose R and B readies may change in `eval` at will.
Its own view of the bursts (`m_read`, `m_write`, `store`) advances only at the
edge, from the pins. Requests carry `bytes`, the power of two that the code gets
by shifting with the size field. `AssertFails` is the abort by one of the two
assertions on a write beat (the mask one of `mem_port.writeFn` comes first); the
builds do not define `NDEBUG`. Uninitialised members start with any value of
`Garbage`. `ReadFn` is the memory port's `readFn`, which answers `Wfi` where nothing is
mapped, as a port without one does everywhere.

**SenseBarrier.** One action per access to a shared variable. In the last hart's
branch `in_order` says whether other harts see `count = 0` before `sense =
threadsense`: the code has two plain stores and no fence between them, and RISC-V
lets them become visible in either order. `entered` and `left` count the calls
and are the variables of `PhaseBarrier`.

**Lockstep.** A model is a state, the ports it shows and a step; a faulty one may
step anywhere. What the AXI ports answer is any input: the driver's correctness
may not depend on it. The constants stand for 100 reset cycles, 1000 warm-up
cycles and 1,000,000 iterations; the limit of three bad cycles is kept.
`first_diff` is a history variable.

**Htif.** Characters are a small set with `NUL` and newline; the area has `Size`
bytes, copied in words of `Word`. The guest's wait for `fromhost` ends at once since
the host answers -1. The host's part runs in the step of the store. What follows a
string in memory is arbitrary.

**Testbench.** The composition of the loader, the two ports and the loop. A read or a
write of a port is one beat, since `AxiPort` shows which beats a port serves; the design
asks for any. Whether a comparison of two models finds a difference is arbitrary, since
`Lockstep` shows when it does. The file behind a name is the cells of `ElfFile`, some of
which may be missing at the end, and next to them stands the list of segments it was made
from, which the properties use and the actions do not. A loadable segment whose data
`elf.load` left null crashes the program, and so does a trace file name without a dot
(`std::string::insert` at `npos` throws). What the adaptors copy, field by field, is one
record here. A word is a function from its `WordBytes` lanes to bytes. The command line is
read one argument a step (`ProcessArg`); what it was judged by, a `--trace` without a name
and the number of arguments that are left, is looked at once at the end (`CheckUsage`),
since the code does nothing in between that shows. `PrintArea` is what the printing loop
leaves: the bytes up to and with the first NUL, and the words `operator[]` inserted on the
way. `FilesAssumption` says what stands behind a name: not an ELF file, or one in which
each header and each segment's data lie where the headers say, unless a header claims more
bytes than the whole file has.

**ElfFile, ElfLoad, ElfSave, ElfTables, ElfSearch, Elfio, ElfioTables.** A file is a sequence of cells, each a byte
or one part of a structure; a structure is read back only from all its parts, in place, so
that wrong offsets, entry sizes and overlaps are visible without its fields being put
together from bytes. Where the code itself looks at bytes (words of hash tables, arrays,
versions), numbers are put together from bytes in the file's byte order. A stream that
failed stays failed and reports its position as the largest size. `Elfio` is the program:
it may call the operations in any order, keep its dynamic accessor across calls, save
twice, lose the end of the file, load, and go on. What it must see to itself
(`Sensible`): sections are not before their segment, segments that share sections are
nested, and such a segment begins with a section that has bytes, at the segment's address.
The last condition came out of the attempt to prove `LaidOutApart`: with sections C (at 40,
12 bytes), A (empty, at 50) and B (at 52), one segment of C, A and B and another of A and B,
the empty A is put behind C, at the offset that B gets too; the second segment then starts
at that offset with the address of A, and `validate` complains of B's. The loops that the code ends by a `break` or by an
empty worklist (`get_ordered_segments`, `arrange_local_symbols`) are folds over enough
iterations, the rest of which change nothing. Things the model shows of the code that are not errors by anything it promises: a
`.bss` with an address of its own does not count the gap before it into the memory size
(`GapIsLost`); sections that are not ALLOC make a segment's memory smaller than its file;
empty sections lose their segment in a load and others gain one by address; a cut file is
accepted if it has no segments; `validate` tests `type & SHT_NOBITS` and so skips eight
section types; `get_symbol` by name finds a symbol although the hash section is out of
date, by looking at all of them; the version table is not converted to the file's byte
order. Neither are the needed versions (`Raw`): in a file of another order than the host's,
which is LSB here, the reader's first link has its bytes swapped and leads out of the
section (`Outside`: what is read there is undefined), so that `TablesKeepEntries` says of such a
file that none of them shows, and of one in the host's order that all do. The offsets of
their names stand for the strings. An accessor of dynamic entries that counted once shows no
later ones; the property only says that it never shows more than there are. `get_note` compares an
index with the size of the section instead of the number of notes (`elfio_note.hpp:65`): the
model asks for notes there are, as a caller of `get_notes_num` does. A word of the bloom
filter of a GNU hash section has `WordBytes` in both classes (in the code eight bytes in the
64-bit one), and the sums of the sizes in `SectionSizes` are of naturals.

**TraceDiff.** A trace is the list of changes vcdvcd gives (`IsTrace`: one at time 0, times
that grow, each change to another value), and looking up a value in it is external. Names
are sequences of components and regular expressions sets of names; `--top` is a prefix of
whole components, where the script cuts characters and would also take a prefix that ends
inside a component. `--before` includes its own time, as the script does.

**Riscinator.** The core is external; whether it has a request is a function of
its registers (in the shipped design the instruction request is constant and the
data request depends on the instruction register), its addresses may settle with
the inputs. `io_dmem_gnt` is left out: it is set with `next_dmem_rvalid`, to the same value
(`next'.dmem.rvalid` in `Drive`), and only the core reads it. Words are four lanes. Widths are parameters with the code's
relation between them, since the subtraction in `addr2idx` wraps in 64 bits and
the result is cut to 32. Its `Testbench` constant selects the program. `store`,
`due`, `reported` and `wrong` are history variables.

## What the runs check

| run | instance | what it shows |
|---|---|---|
| `axi_port` | two reads (one word; a narrow burst starting off its size, running off the loaded memory), three writes (full burst, unaligned, narrow), full and half strobes, two data words | `ReadAgreement`, `WriteAgreement`: the port's registers equal the design's burst, counting the handshakes the port has already acted upon. `MemoryAgreement`: the same for memory. `PinsMatchBursts`: what is driven is what the bursts call for. The `w_last` assertion never fails, the mask assertion only for partial beats. A stalled read beat is offered again where the design's burst is, unchanged but for a write handed over to its word meanwhile (`StalledBeatKeepsItsPlace`). It implements `AxiMemory` (`MemorySpec`) |
| `axi_port_live` | one narrow read burst, one full write burst | every offer is accepted and every burst ends |
| `barrier` | 4 harts, 3 rounds, both store orders | `BarrierSpec`, `OneLast`; in order also `NoArrivalLost` and `EveryCallReturns` |
| `lockstep` | 4 design states, 2 inputs, 2 ports, 1 + 1 warm-up cycles, 5 iterations, any subset of models faulty | `NoFalseAlarm`, `DivergenceEndsRun`, `VerdictIsRight` |
| `htif` | an area of two words of two bytes, 5 calls, return codes -2..1 (an `int` of 4 values, a `uintptr_t` of 16) | `PutcharKeepsAll`, `WritesAreShown`, `TailIsOfEarlierWrites`, `SuccessMeansZero` |
| `htif_stale` | the same | violated: see below |
| `riscinator` | 2 words, 3 cycles a test, requests inside, at both edges of and outside the memory, dhrystone twice, every kind of command line | `AnswersAreDue`, `MemoryAgrees`, `AssertMeansOutside`, `VerdictIsRight` |
| `riscinator_vtor` | 2 cycles a test | violated: see below |
| `testbench` | six files (segments that overlap, share words, are longer or shorter in memory than in the file, claim too much; with section headers; without segments; no ELF file), each whole or cut by one or three cells; 13 command lines; 2 + 2 cycles; words of two lanes | `ImageIsFile`: the map is the image the file was made from, or the file is refused. `PortsShareMemory`: each port's answers against the history of both ports' stores, the image and what printing adds. `OutcomeIsRight` (`SuccessIsRight`, `FailureIsRight`, `CrashIsRight`): every exit code and crash has the reason it stands for |
| `elfio` | eight programs (both classes, both byte orders), up to 2 more sections and 2 segments or 2 entries a table, 2 saves, files cut by 1 or 9 cells | `SavedIsLoaded`, `SegmentsCarrySections`, `LaidOutApart`, `ResaveKeepsImage` of saving and loading; `TablesKeepEntries`, `ReferencesFollow`, `SymbolsAreFound` of the tables |
| `diffvcd` | every pair of traces of a signal with changes up to time 3, next to two other signals, in files of different length; every window; prefixes, filters and `--list` | `ReportsAreReal`, `EarliestReported` |
| `diffvcd_after` | the same | violated: see below |

Why the bounds are enough. The port handles each beat alone and keeps one burst a
direction, so bursts of two beats exercise first, middle-to-last and last beats,
and a second burst after the first shows what is carried over; the proofs remove
the bound. Four harts and three rounds let the barrier's senses return to their
first value while stragglers of the round before still spin; the proofs remove
that bound too, as they do for the driver. The console's area of two words has
a first, a full, a partial and a missing word, and five calls fill the buffer,
flush it and start again; return codes include the negative ones. Three cycles
of riscinator are a store, a load of it and the edge at which the load's answer
is seen.

Two iterations of main are enough for every pair of accesses by the two ports, for the
console area written in the first and printed and read in the second, and, with a limit of
two bad cycles, for each of the ways to end. A word of two lanes has a lane that stays when
the other is merged. ELFIO's layout looks at one section and one earlier one at a time;
two sections next to the mandatory ones, with and without addresses, data and ALLOC, in
two segments that may be nested, exercise each branch, and the second save those that
depend on the first. Two entries make every table's first, last and swapped entry, three
symbols to choose from a chain and an empty bucket. Two traces that differ in up to three
changes misalign every pairing there is.

Deadlock is checked in every run but `elfio`, whose program may stop at any time: other
final states stutter explicitly.

Fairness. `AxiPort!FairSpec`: the loop keeps running (the program is sequential
and no step blocks), and the design, which is not ours, again and again is ready
for the beats and acknowledges it asked for and offers data for the burst it
announced; without these a design may simply stop, and the testbench has no
timeout but the iteration limit. Strong fairness is needed as the design's
choice is open only at one place of the iteration. `SenseBarrier!FairSpec`: every
hart keeps executing. Nothing else has a liveness property.

Each property has a mutant: a definition with a plausible bug, kept next to the
original and named after it (`ComparePortsAfresh`, `PublishSenseEarly`, ...),
under which TLC finds the property violated.

## What is proved

By TLAPS, for every value of the constants that satisfies the named assumptions.

**AxiPortProofs** (`RequestsAssumption`, `ImagesAssumption`, `NoneAssumption`,
`StrobesAssumption`, `GarbageAssumption`). `IInv` is type correctness, the two
burst agreements, memory agreement, `PinsMatchBursts` and `OfferedLastIsRight`. The
agreements alone are not inductive: `UpdateB` decrements because of what the port
drove earlier in the cycle, which only `PinsMatchBursts` ties to the burst, and the
`w_last` assertion depends on the design's side of the protocol
(`OfferedLastIsRight`). The agreements are stated *modulo the handshakes counted so
far* (`ReadCounted`, `WriteCounted`), which makes them hold at each of the four
places and lets the `Clock` step be "the design catches up" (lemma `EdgeCatchesUp`).
From `Agreement == Spec => []IInv` follow `PortTypes`, `ReadsAgree`, `WritesAgree`,
`MemoryAgrees`, `PinsMatch`, `LastAssertHolds`, `MaskAssertIsJustified`,
`StalledBeatsKeepTheirPlace` (with auxiliary invariants: `Sampled`, that the port's copy
of the outputs is the one at the edge, and `Stalled`, what an edge that does not take a
beat leaves of it; `EdgeHandsOver` says which write the edge makes and `ReadOfMapWrite`
that it changes its own word only)
and `PortImplementsMemory`: every step but `Clock` stutters on `AxiMemory`'s
variables, and `Clock` is one `Cycle`.

**SenseBarrierProofs** (`ThreadsAssumption`, `RoundsAssumption`). `Inv` says that
for some k the sense has been published k times: every hart's counts and place
are within one round of k, the count is at most the number of harts that have
arrived at round k + 1, and a hart that published before resetting (`count_left`)
is alone in doing so. The upper bound on the count is what makes the last one
the last (`LastSeesAll`), and it holds in both store orders, since a late reset only
lowers the count. `BarrierHolds` is the refinement of `PhaseBarrier`.

**LockstepProofs** (`DesignAssumption`, `BoundsAssumption`). `Inv` adds to the types
the bookkeeping that relates `cycle`, the loop counter, `num_bad_cycles` and the
cycle of the first difference, and that fault-free models are in the same
state with the same inputs. It gives `NoFalseAlarmHolds`,
`DivergenceEndsRunHolds` and `VerdictHolds`.

**RiscinatorProofs** (`MemoryAssumption`, `RequestsAssumption`, `TestsAssumption`: an array
of whole words that neither `unsigned` nor `size_t` is too narrow for, the finish address
outside it, data requests for whole words with byte enables). `IInv` adds to the
types that the array is the history of merged stores, *one store ahead* at the edge
(`MemoryInv`), and that the answers in `next` are those due, after `Drive` on the pins
instead (`AnswersInv`). The lemma it all rests on is that `addr2idx`, with its two
wrap-arounds, is below the length exactly for the addresses of the memory: with
`MaxSize % (4 * MaxUnsigned) = 0`, which is 2^64 and 2^32 in the code, an address below the
base wraps to an index that is still too large once it is cut to 32 bits. `AnswersHold`,
`MemoryHolds`, `AssertHolds`; `VerdictHolds` for `Testbench = "arcs"` (for the other
program the same formula is violated, run `riscinator_vtor`).

**HtifProofs** (`SizeAssumption`, `CharsAssumption`, `RangesAssumption`,
`CodesAssumption`, `RequestAssumption`: the area is whole words, an `int` is narrower than
half a `uintptr_t`, the number of the write call is even). `CopyInv` says how far the copy
has come: below `k` the area holds the source, above it what it held before; `ShownInv`
that what the host shows is of the area as it lies. `PutcharKeeps`, `WritesShow`,
`TailIsEarlier`, `SuccessIsZero`. The last one is where the widths count: a return code is
shifted left in a `uintptr_t` and tagged with 1, so only zero becomes 1 and none becomes a
write request.

**TraceDiffProofs** (`InputsAssumption`, `OptionsAssumption`). `RealInv`: every mismatch
kept is one of the two traces; `FirstInv`: without `--after` it is the earliest of the
signals looked at so far (`Seen`), and all of them that differ then. `FirstInv` needs that
a trace has one pair per change (`IsTrace`): two traces cut nowhere agree up to the first
pair in which they differ, and one of them shows the difference there. `RealInv` does not.
`ReportsReal`, `EarliestIsReported`.

**TestbenchProofs** (`WordsAssumption`, `PinsAssumption`, `BoundsAssumption`,
`ArgumentsAssumption`, `FilesAssumption`: the tohost area is whole words, the call number
is not 1, a file is smaller than the largest size and is what it was made of).
`TestbenchInvariant` goes up in steps. The loop over a segment's bytes merges lane by lane
(`BytesLoop`, `SegmentMerged`); the loop over the segments gives the image of a list of
them, where the last segment that covers an address counts (`ImageGrows`,
`MergedIsImage`). `elf.load` of *any prefix* of a file fails, or gives its segments in
order, each with the data it was made with or with none (`SegmentsAreRead`, `LoadIs`); the
stream that stays failed is what excludes a load of only some of them. Hence the map is
the image, the program is refused, or it crashes. `ArgsInv` says of the arguments read so
far what `UsageIsRight` says of all (`Parsed`; `NameFollows`: an argument is a trace's name
exactly if the one before it is `--trace` and is no name itself). `MapInv` relates the
map to the image, the stores of both ports in order and what printing added
(`WordRight`), and gives the answers of `PortsHold`. The outcomes are in the invariant, and
`ExitInv` ties `finished` to a store of 1 in the history. `ImageHolds`, `OutcomeHolds`,
`PortsHold`.

**ElfioProofs** (`SizesAssumption`, `ProgramsAssumption`, `ChoicesAssumption`,
`EntriesAssumption`: structures take at least a byte; a program that has a symbol table has
its strings and relocations, and so on, each in a section of its own name; addresses are
below the largest size; names are sequences without NUL). `IInv` says that an object that
is edited is `Good`: it has the null section and the section names first, each section's
index is its place, its size is the number of its bytes, its name is in the string table at
the offset its header gives (`NamesKept`), segments list sections that exist, and the tables
are there. Of a saved object it says that the file is the one that the layout of the object
before the save describes (`SavedIn`, cell by cell), of a loaded one that it is that
object (`AsSaved`), and that only an object without segments comes of a cut file. Types
alone are not inductive: load finds the section names by their offsets, so the names must
survive every edit, and `Good` must be re-established from what load reads. The argument
goes through the layout of `save` loop by loop (`FoldSteps`):

- `get_ordered_segments` returns every segment once, and one whose sections are among
  another's after it, within the iterations the fold has (`OrderFirst`, `TimeLeft`).
- Each section is put at or after the current position, which never decreases, or back at
  the position its address calls for in a segment whose first section is already placed
  (`PlaceSection`, `LayoutSegment`); hence no two sections with bytes overlap and all lie
  between the program headers and the section headers (`LaidOut`), and a segment's address
  and offset differ as those of its sections do, which is what `validate` looks at.
- What is written in one place is not overwritten by what is written later, so that every
  structure is found where the header says (`SavedFile`, `SegmentsSaved`).
- `load` reads each of them from there; in a prefix of the file the last section header is
  missing, the stream fails, and every program header fails with it.

`ElfioInvariant`, `NothingOverlaps` (`LaidOutApart`), `WhatIsSavedIsLoaded`
(`SavedIsLoaded`).

**Loops.** `TestbenchProofs` and `ElfioProofs` rest on `FoldSteps`: a `FoldLeft` is the last
of the values its loop takes, which turns a fold into a function of the iteration and so
into something an ordinary induction by a least counterexample (`LeastElement`, from the
well-foundedness of the naturals) reaches. The lemma is stated once for all loops of a
module: `Body` gives the body of the loop by its name.

`NoArrivalLost` (`BarrierCounts` in SenseBarrierProofs): with stores in order the count is
the number of harts whose sense is not yet the published one. `TypeOK` of `Lockstep`
(`LockstepTypes`) is a part of its invariant.

Only model-checked:

- All liveness (`AxiPort`, `SenseBarrier`): out of the prover's reach here.
- `TablesKeepEntries` and `SymbolsAreFound`: they speak of what the searching readers of
  `ElfSearch` compute, which are RECURSIVE operators, and of strings put together by such
  a search; what a recursion over data computes is out of reach too.
- `ReferencesFollow`, that relocations follow their symbols through `arrange_local_symbols`,
  the hash table and the reads of 32-bit fields: it needs the entries of a table as a
  function of its cells through every step that moves them. That such steps keep the
  object good is proved (`ArrangeLocals` is one of the cases of `ElfioInvariant`).
- `SegmentsCarrySections` and `ResaveKeepsImage`: they relate the sizes that the layout
  counts within a segment to the places it gives, for segments that share sections as well,
  and the second to a second layout of the first one's results. `LaidOut` says where
  sections are, not yet how the segment's sizes add up.
- `VerdictIsRight` of the Verilator riscinator testbench is false.

`FilesAssumption` of `Testbench` describes a file by where its headers and data lie; that
`save` makes such files is `SavedIn` in `ElfioProofs`, stated of another module's object.

## Disagreements with the documentation

1. *"Move data to the MMIO mapped region, cut off the data if it does not fit"*
   (`syscalls.c:23`). Whole words are moved, the host is not told the length and
   prints up to a NUL or the end of the area; a short line from `putchar` after a
   longer one is shown with the longer one's tail (run `htif_stale`).
2. The expected memory of itype and jmps (`riscinator-verilator-main.cpp:196`, and
   the like in jmps) is compared with the loaded image, not with the simulated
   memory, so a correct core fails (run `riscinator_vtor`).
3. *"Print the first difference between two VCD files"*, `--after`: *"only compare after
   time"* (`diffvcd.py:9`, `:38`). Each trace is cut at its own first change in the
   window, which forgets the value at the window's start, and the rests are paired by
   position: traces that made different numbers of changes before the window are
   compared out of step, and a difference that begins in the window can be missed
   altogether (run `diffvcd_after`).

Two more, noted while modelling and not checked by a run: `README.md:14` says of the
lockstep simulation that it *"aborts as soon as the simulations diverge"*, while the driver
goes on until the third iteration with a mismatch on record (`DivergenceEndsRun`,
`VerdictIsRight` say exactly when it ends); `README.md:47` says *"Run benchmarks with `make
run MODEL=riscinator BINARY=<binary>`"*, while the binary's name selects no test, nothing is
simulated and 0 is returned.

## What is not modelled

- The C library's pure functions and `verify*`: sequential code over words and strings
  with no state of its own; `vprintfmt` ends in the `putchar` that is modelled.
- ELFIO: address translation, compression and lazy loading (the testbenches use the
  default object, which has none of them), the version-definition accessor, `insert_data`,
  moving objects, and `elfio_dump.hpp`, which formats text.
- Model adaptors: waveform output; `get_ports`, whose list of pins (without `b_ready` of
  the memory port, `ports.def:43`) is a constant of `Lockstep`.
- `crt.S`, `test.ld`, dhrystone: straight-line set-up, and a workload whose result
  the testbench does not look at.
- `benchmark.py`, `op-costs.py`, Makefiles: process calls and formatting.
- Generated and vendored files (designs, memory images, `encoding.h`, Verilog stubs).
- In modelled parts: timing, messages; address arithmetic near 2^64 in `AxiBurst` and
  `Testbench` (addresses are naturals); AXI burst types other than incrementing, which the
  interface does not carry; partial write beats in `Testbench`, which end the program in
  `AxiPort`'s `AssertFails`.

## Plan

Done, in this order: `AxiBurst`, `AxiMemory`, `AxiPort` with proofs; `SenseBarrier` and
`PhaseBarrier` with proofs; `Lockstep` with proofs; `Htif`; `Riscinator`; `TraceDiff`; the
`Elf*` modules and `Elfio`; `Testbench`; the proofs about `Riscinator`, `Htif`, `TraceDiff`,
`SenseBarrier`'s count, `Testbench` and `Elfio`, for which the recursions of `ElfSave` and
of `arrange_local_symbols` became folds and the searching readers a module of their own.
What is left would extend `ElfioProofs`:

1. `SegmentsCarrySections`, from an invariant of `LayoutSegment` that relates the sizes
   counted so far to the place of the last section with bytes; then `ResaveKeepsImage`.
2. `ReferencesFollow`, from an invariant that relates a table's cells to the list of its
   entries, which `swap_symbols` and `arrange_local_symbols` permute alike.
