-------------------------------- MODULE Htif --------------------------------
(***************************************************************************)
(* How a benchmark talks to the testbench: the console and the exit code,  *)
(* through the words tohost, fromhost and the tohost_data area.  The guest *)
(* is benchmarks/common/syscalls.c, the host is what the MMIO port of      *)
(* rocket-main and boom-main does on a write to tohost.                    *)
(*                                                                         *)
(* The area has Size bytes (64 in the code) and is copied in words of Word *)
(* bytes (8).  tohost is an unsigned number below UintptrRange (2^64), to  *)
(* which an int from -IntRange (-2^31) to below IntRange is sign-extended. *)
(***************************************************************************)
EXTENDS Integers, Sequences, SequencesExt

CONSTANTS
  Chars, NUL, NL,  \* the characters, among them the two special ones
  Size, Word,      \* bytes in tohost_data, bytes per store
  UintptrRange, IntRange, \* the ranges of uintptr_t and int
  SYS_write,       \* the request number (64)
  Strings,         \* the strings a program may pass to printstr
  Codes,           \* what its main function may return
  MaxCalls         \* bound on the calls of putchar and printstr

ASSUME SizeAssumption == Word \in Nat \ {0} /\ Size \in Nat \ {0} /\ Size % Word = 0

ASSUME CharsAssumption ==
  /\ {NUL, NL} \subseteq Chars /\ NUL # NL
  /\ \A s \in Strings : s \in Seq(Chars \ {NUL})

ASSUME RangesAssumption ==
  /\ UintptrRange \in Nat /\ UintptrRange % 2 = 0
  /\ IntRange \in Nat \ {0} /\ 2 * IntRange < UintptrRange

ASSUME CodesAssumption == Codes \subseteq (-IntRange) .. (IntRange - 1)

ASSUME RequestAssumption == SYS_write \in Nat /\ SYS_write % 2 = 0 /\ SYS_write < UintptrRange

VARIABLES
  pc,              \* where the guest is
  calls,           \* putchar and printstr calls so far
  buf, buflen,     \* the static variables of putchar
  src, len, k,     \* the write in progress: its bytes, its length, the copy loop
  code,            \* main's return value
  tohost_data,     \* the area, as the host sees it
  finished,        \* the testbench's flag
  \* for the properties
  put, flushed,    \* what putchar was given, what it has passed on
  before, shown    \* the area before the last write, what the host printed for it

vars == << pc, calls, buf, buflen, src, len, k, code, tohost_data, finished,
           put, flushed, before, shown >>

Area == 1 .. Size

Init ==
  /\ pc = "main" /\ calls = 0
  /\ buf = [n \in Area |-> NUL] /\ buflen = 0
  /\ src = << >> /\ len = 0 /\ k = 0 /\ code = 0
  /\ tohost_data = [n \in Area |-> NUL]
  /\ finished = FALSE
  /\ put = << >> /\ flushed = << >>
  /\ before = tohost_data /\ shown = << >>

-----------------------------------------------------------------------------
(* The guest *)

\* Enter syscall(SYS_write, 1, s, n).
Syscall(s, n) ==
  /\ src' = s /\ len' = n /\ k' = 0
  /\ before' = tohost_data /\ shown' = << >>
  /\ pc' = "copy"

\* Mutant: the buffer is not emptied after a flush.
PutcharKeep(c) ==
  /\ pc = "main" /\ calls < MaxCalls
  /\ calls' = calls + 1
  /\ buf' = [buf EXCEPT ![(buflen % Size) + 1] = c]
  /\ put' = Append(put, c)
  /\ buflen' = (buflen % Size) + 1
  /\ IF c = NL \/ buflen' = Size
     THEN Syscall(buf', buflen') /\ flushed' = flushed \o SubSeq(buf', 1, buflen')
     ELSE UNCHANGED << src, len, k, before, shown, pc, flushed >>
  /\ UNCHANGED << code, tohost_data, finished >>

\* putchar(c): the buffer is passed on when it is full or at the end of a line.
Putchar(c) ==
  /\ pc = "main" /\ calls < MaxCalls
  /\ calls' = calls + 1
  /\ buf' = [buf EXCEPT ![buflen + 1] = c]
  /\ put' = Append(put, c)
  /\ IF c = NL \/ buflen + 1 = Size
     THEN /\ Syscall(buf', buflen + 1)
          /\ buflen' = 0
          /\ flushed' = flushed \o SubSeq(buf', 1, buflen + 1)
     ELSE buflen' = buflen + 1 /\ UNCHANGED << src, len, k, before, shown, pc, flushed >>
  /\ UNCHANGED << code, tohost_data, finished >>

\* printstr(s): what follows the string in memory is its NUL and then anything.
\* (The line of counters that _init prints after main is one of these calls.)
Printstr(s, junk) ==
  /\ pc = "main" /\ calls < MaxCalls
  /\ calls' = calls + 1
  /\ Syscall(s \o << NUL >> \o [n \in Area |-> junk], Len(s))
  /\ UNCHANGED << buf, buflen, code, tohost_data, finished, put, flushed >>

\* Mutant: the last, partial word is not copied.
MoreToCopyWhole == k + Word <= len /\ k < Size

\* Mutant: the length of the data does not matter.
MoreToCopyAll == k < Size

\* for (i = 0; i < arg2 && i < TOHOST_DATA_SIZE; i += 8)
MoreToCopy == k < len /\ k < Size

CopyWord ==
  /\ pc = "copy" /\ MoreToCopy
  /\ tohost_data' = [n \in Area |-> IF k < n /\ n <= k + Word THEN src[n] ELSE tohost_data[n]]
  /\ k' = k + Word
  /\ UNCHANGED << pc, calls, buf, buflen, src, len, code, finished, put, flushed,
                  before, shown >>

-----------------------------------------------------------------------------
(* The host: mmio_port.writeFn at TOHOST_ADDR, in the cycle of the store *)

\* The area is printed up to its first NUL, which is printed too.
PrintedArea ==
  LET nuls == { n \in Area : tohost_data[n] = NUL }
  IN  SubSeq(tohost_data, 1,
             IF nuls = {} THEN Size ELSE CHOOSE n \in nuls : \A m \in nuls : n <= m)

HostWrite(data) ==
  /\ finished' = (finished \/ data = 1)
  /\ shown' = IF data = SYS_write THEN PrintedArea ELSE shown

\* tohost = which; fromhost always reads as -1, so the wait for it ends at once,
\* and the guest's fromhost = 0 has no effect.
StoreTohost ==
  /\ pc = "copy" /\ ~MoreToCopy
  /\ HostWrite(SYS_write)
  /\ pc' = "main"
  /\ UNCHANGED << calls, buf, buflen, src, len, k, code, tohost_data, put, flushed, before >>

-----------------------------------------------------------------------------
(* The end of the program *)

\* main returns to _init, which calls exit.
MainReturns ==
  /\ pc = "main"
  /\ \E c \in Codes : code' = c
  /\ pc' = "exit"
  /\ UNCHANGED << calls, buf, buflen, src, len, k, tohost_data, finished, put, flushed,
                  before, shown >>

\* Mutant: the code is not marked as one.
ExitValueUnmarked(c) == (c * 2) % UintptrRange

\* (code << 1) | 1, the int code having been converted to uintptr_t
ExitValue(c) == ((c * 2) % UintptrRange) + 1

\* tohost_exit: the store, and then a loop for good.
Exit ==
  /\ pc = "exit"
  /\ HostWrite(ExitValue(code))
  /\ pc' = "halt"
  /\ UNCHANGED << calls, buf, buflen, src, len, k, code, tohost_data, put, flushed, before >>

Halted == pc = "halt" /\ UNCHANGED vars

Next ==
  \/ \E c \in Chars : Putchar(c)
  \/ \E s \in Strings, junk \in Chars : Printstr(s, junk)
  \/ CopyWord \/ StoreTohost
  \/ MainReturns \/ Exit \/ Halted

Spec == Init /\ [][Next]_vars

-----------------------------------------------------------------------------
(* Properties *)

\* putchar loses, repeats and reorders nothing: what it was given is what it has
\* passed on followed by what it still holds.  (A last line without a newline is
\* held for good: nothing flushes it at exit.)
PutcharKeepsAll == put = flushed \o SubSeq(buf, 1, buflen)

\* The bytes of the write last served, cut off at the size of the area.
Data == SubSeq(src, 1, IF len < Size THEN len ELSE Size)

UpToNul(s) ==
  LET nuls == { n \in DOMAIN s : s[n] = NUL }
  IN  IF nuls = {} THEN s ELSE SubSeq(s, 1, CHOOSE n \in nuls : \A m \in nuls : n <= m)

\* The host shows the data of every write in full, up to a NUL in it.
WritesAreShown ==
  pc = "main" /\ shown # << >> => IsPrefix(UpToNul(Data), shown)

RoundedUp(n) == ((n + Word - 1) \div Word) * Word

\* What the host shows beyond the copied words is what an earlier write left in
\* the area, never what the program did not write.
TailIsOfEarlierWrites ==
  pc = "main" =>
    \A n \in DOMAIN shown : n > RoundedUp(len) => shown[n] = before[n]

\* The testbench reports success exactly for the return code zero, and takes no
\* exit for a write request.
SuccessMeansZero ==
  /\ finished => pc = "halt" /\ code = 0
  /\ pc = "halt" /\ code = 0 => finished
  /\ ExitValue(code) # SYS_write

\* syscalls.c: "Move data to the MMIO mapped region, cut off the data if it does
\* not fit": the host shows the data of the write, cut off, and nothing else.
ShowsTheDataOnly ==
  pc = "main" /\ shown # << >> => IsPrefix(shown, Append(UpToNul(Data), NUL))

=============================================================================
