------------------------------ MODULE ElfTables ------------------------------
(***************************************************************************)
(* The section accessors of ELFIO: symbol tables and their hash sections,  *)
(* relocations, dynamic entries, arrays, notes, module information and     *)
(* symbol versions, as readers and writers of a section's data.            *)
(*                                                                         *)
(* A number in the data is a sequence of bytes in the order of the file's  *)
(* encoding.  Fields of a 32-bit structure keep MaxWord values only.       *)
(***************************************************************************)
EXTENDS ElfSave

CONSTANTS
  ByteBase,       \* a byte is below it
  WordBytes,      \* sizeof( Elf_Word ), and the alignment of notes
  HalfBytes,      \* sizeof( Elf_Half )
  BloomBits       \* 8 * sizeof( T ) of a word of the bloom filter

MaxWord == ByteBase ^ WordBytes

\* endianess_convertor: bytes are swapped unless the file is in the host's order.
HostEncoding == "LSB"
Converted(encoding, bytes) == IF encoding = HostEncoding THEN bytes ELSE Reverse(bytes)

\* The bytes of a number of n bytes (the high ones are cut off), and back.
FromNumber(encoding, n, value) ==
  Converted(encoding, [k \in 1 .. n |-> Byte((value \div (ByteBase ^ (k - 1))) % ByteBase)])
ToNumber(encoding, cells) ==
  LET bytes == Converted(encoding, cells)
  IN  FoldRight(LAMBDA b, high : b.byte + ByteBase * high, bytes, 0)

WordAt(elf, sec, pos) == ToNumber(elf.hdr.encoding, Slice(sec.data, pos, WordBytes))

Narrow(elf, value) == IF elf.hdr.class = "32" THEN value % MaxWord ELSE value

\* The structure at an entry of a section, and a section with it overwritten.
EntryAt(elf, sec, T, i) ==
  Slice(sec.data, i * sec.sh.entsize, SizeOf[elf.hdr.class][T])[1].rec
SetEntryAt(elf, sec, T, i, rec) ==
  [sec EXCEPT !.data = WriteAt(@, i * sec.sh.entsize, Parts(T, rec, SizeOf[elf.hdr.class][T]))]
AppendEntry(elf, sec, T, rec) == append_data(sec, Parts(T, rec, SizeOf[elf.hdr.class][T]))

-----------------------------------------------------------------------------
(* symbol_section_accessor *)

get_symbols_num(elf, sec) ==
  IF sec.sh.entsize >= SizeOf[elf.hdr.class].Sym /\ sec.sh.size <= sec.stream
  THEN sec.sh.size \div sec.sh.entsize ELSE 0

NullSym == [name |-> 0, value |-> 0, size |-> 0, bind |-> "LOCAL", type |-> "NOTYPE",
            other |-> 0, shndx |-> 0]

SymbolPresent(elf, sec, i) == sec.data # << >> /\ i < get_symbols_num(elf, sec)

\* generic_get_symbol: the entry, and its name; a name that is no string is not
\* assigned (NoString).
SymbolName(elf, sec, i) ==
  get_string(SectionAt(elf, sec.sh.link), EntryAt(elf, sec, "Sym", i).name)

PresentSymbols(elf, sec) == { i \in 0 .. (get_symbols_num(elf, sec) - 1) : SymbolPresent(elf, sec, i) }

\* A search goes through the symbols in order and stops at the first that matches, or
\* finds none (-1).
FirstOf(found) == IF found = {} THEN -1 ELSE Min(found)

\* get_symbol by value
SymbolByValue(elf, sec, value) ==
  FirstOf({ i \in PresentSymbols(elf, sec) : EntryAt(elf, sec, "Sym", i).value = value })

\* add_symbol: the first entry of a table is the null symbol.
add_symbol(elf, sec, sym) ==
  LET first == IF sec.sh.size = 0 THEN AppendEntry(elf, sec, "Sym", NullSym) ELSE sec
  IN  AppendEntry(elf, first, "Sym",
                  [sym EXCEPT !.value = Narrow(elf, @), !.size = Narrow(elf, @)])

IsLocal(elf, sec, i) == EntryAt(elf, sec, "Sym", i).bind = "LOCAL"

SwapEntries(elf, sec, i, j) ==
  SetEntryAt(elf, SetEntryAt(elf, sec, "Sym", i, EntryAt(elf, sec, "Sym", j)),
             "Sym", j, EntryAt(elf, sec, "Sym", i))

\* The first symbol after the null one that is not local, or the number of symbols.
FirstNotLocal(elf, sec) ==
  LET count == get_symbols_num(elf, sec)
  IN  Min({ i \in 1 .. (count - 1) : ~IsLocal(elf, sec, i) } \cup {Max({1, count})})

\* One iteration: the next local symbol behind it is swapped with it.
ArrangeOne(elf, acc) ==
  LET i == FirstNotLocal(elf, acc.sec)
      locals == { j \in (i + 1) .. (get_symbols_num(elf, acc.sec) - 1) : IsLocal(elf, acc.sec, j) }
  IN  IF locals = {} THEN acc
      ELSE [sec |-> SwapEntries(elf, acc.sec, i, Min(locals)),
            swaps |-> Append(acc.swaps, << i, Min(locals) >>)]

\* arrange_local_symbols: the section with the local symbols in front, and the
\* swaps made, in order, each of which the caller's function is told.
arrange_local_symbols(elf, sec) ==
  LET done == FoldLeft(LAMBDA acc, k : ArrangeOne(elf, acc), [sec |-> sec, swaps |-> << >>],
                       [k \in 1 .. get_symbols_num(elf, sec) |-> k])
  IN  [done EXCEPT !.sec.sh.info = FirstNotLocal(elf, done.sec)]

-----------------------------------------------------------------------------
(* Hash sections *)

Xor(a, b) == SumSet({ 2 ^ k : k \in { n \in 0 .. (8 * WordBytes - 1) :
                                         (a \div 2 ^ n) % 2 # (b \div 2 ^ n) % 2 } })

\* elf_hash and elf_gnu_hash, with words of MaxWord instead of 2^32 values.
elf_hash(name) ==
  LET step(h, c) == LET shifted == (h * 16 + c.byte) % MaxWord
                        low == shifted % (MaxWord \div 16)
                        g == shifted \div (MaxWord \div 16)
                    IN  Xor(low, g * 16)
  IN  FoldLeft(step, 0, name)
elf_gnu_hash(name) == FoldLeft(LAMBDA h, c : (h * 33 + c.byte) % MaxWord, 5381 % MaxWord, name)

HashTypes == {"HASH", "GNU_HASH"}

-----------------------------------------------------------------------------
(* relocation_section_accessor *)

entries_num(sec) == IF sec.sh.entsize = 0 THEN 0 ELSE sec.sh.size \div sec.sh.entsize

\* ELF32_R_INFO has eight bits (here ByteBase) for the type.
RInfo(elf, symbol, type) ==
  [sym |-> symbol, type |-> IF elf.hdr.class = "32" THEN type % ByteBase ELSE type]

RelocStruct(sec) == IF sec.sh.type = "REL" THEN "Rel" ELSE "Rela"

\* set_entry and get_entry of a REL or RELA section; a REL entry has no addend.
set_relocation(elf, sec, i, rel) ==
  SetEntryAt(elf, sec, RelocStruct(sec), i,
    [offset |-> Narrow(elf, rel.offset), info |-> RInfo(elf, rel.info.sym, rel.info.type),
     addend |-> IF sec.sh.type = "REL" THEN 0 ELSE rel.addend])

get_relocation(elf, sec, i) == EntryAt(elf, sec, RelocStruct(sec), i)

\* add_entry with and without an addend writes Rela and Rel.
add_relocation(elf, sec, offset, symbol, type, addend) ==
  AppendEntry(elf, sec, RelocStruct(sec),
    [offset |-> Narrow(elf, offset), info |-> RInfo(elf, symbol, type),
     addend |-> IF sec.sh.type = "REL" THEN 0 ELSE addend])

\* The other symbol of a swap: the two tests are of the value read before.
Exchanged(s, first, second) == IF s = second THEN first ELSE IF s = first THEN second ELSE s

\* Mutant: an entry that refers to the second symbol is left alone.
SwapFirstOnly(elf, sec, first, second) ==
  FoldLeft(LAMBDA s, n : LET rel == get_relocation(elf, s, n - 1)
                         IN  IF rel.info.sym # first THEN s
                             ELSE set_relocation(elf, s, n - 1, [rel EXCEPT !.info.sym = second]),
           sec, [n \in 1 .. entries_num(sec) |-> n])

swap_symbols(elf, sec, first, second) ==
  FoldLeft(LAMBDA s, n : LET rel == get_relocation(elf, s, n - 1)
                         IN  IF rel.info.sym \notin {first, second} THEN s
                             ELSE set_relocation(elf, s, n - 1,
                                    [rel EXCEPT !.info.sym = Exchanged(@, first, second)]),
           sec, [n \in 1 .. entries_num(sec) |-> n])

\* The value that the relocation at i gives, for the types of R_386.
CalcValue(elf, sec, i) ==
  LET rel == get_relocation(elf, sec, i)
      S == EntryAt(elf, SectionAt(elf, sec.sh.link), "Sym", rel.info.sym).value
  IN  CASE rel.info.type = 1 -> S + rel.addend
        [] rel.info.type = 2 -> S + rel.addend - rel.offset
        [] rel.info.type \in {6, 7} -> S
        [] rel.info.type = 8 -> rel.addend
        [] OTHER -> 0

-----------------------------------------------------------------------------
(* dynamic_section_accessor *)

WithString == {"NEEDED", "SONAME", "RPATH", "RUNPATH"}
WithoutValue == {"NULL", "SYMBOLIC", "TEXTREL", "BIND_NOW"}

add_dynamic(elf, sec, tag, value) ==
  AppendEntry(elf, sec, "Dyn",
              [tag |-> tag, val |-> IF tag \in WithoutValue THEN 0 ELSE Narrow(elf, value)])

\* generic_get_entry_dyn
DynamicAt(elf, sec, i) ==
  IF \/ sec.data = << >> \/ (i + 1) * sec.sh.entsize > sec.sh.size
     \/ sec.sh.entsize < SizeOf[elf.hdr.class].Dyn
  THEN [tag |-> "NULL", val |-> 0] ELSE EntryAt(elf, sec, "Dyn", i)

\* get_entries_num: up to the first DT_NULL; a count that is not 0 is kept by the
\* accessor, whatever is added later.
CountDynamic(elf, sec, cached) ==
  LET n == sec.sh.size \div sec.sh.entsize
      nulls == { i \in 0 .. (n - 1) : DynamicAt(elf, sec, i).tag = "NULL" }
  IN  IF cached # 0 \/ sec.sh.entsize < SizeOf[elf.hdr.class].Dyn THEN cached
      ELSE Min({n} \cup { i + 1 : i \in nulls })

\* get_entry: the entry, with its string for the tags that have one.
get_dynamic(elf, sec, i) ==
  LET entry == DynamicAt(elf, sec, i)
      str == get_string(SectionAt(elf, sec.sh.link), entry.val)
  IN  IF entry.tag \in WithString THEN [tag |-> entry.tag, str |-> str] ELSE entry

-----------------------------------------------------------------------------
(* array, versym and modinfo accessors *)

CountNumbers(sec, n) == sec.sh.size \div n
get_address(elf, sec, n, i) == ToNumber(elf.hdr.encoding, Slice(sec.data, i * n, n))
add_address(elf, sec, n, address) == append_data(sec, FromNumber(elf.hdr.encoding, n, address))

\* Versions are in the host's order whatever the file's.
get_version(sec, i) == ToNumber(HostEncoding, Slice(sec.data, i * HalfBytes, HalfBytes))
add_version(sec, value) == append_data(sec, FromNumber(HostEncoding, HalfBytes, value))
modify_version(sec, i, value) ==
  [sec EXCEPT !.data = WriteAt(@, i * HalfBytes, FromNumber(HostEncoding, HalfBytes, value))]

Equals == Byte(61)
add_attribute(sec, field, value) == append_data(sec, field \o << Equals >> \o Append(value, NUL))

-----------------------------------------------------------------------------
(* note_section_accessor, of a section or a segment: data and its size *)

Padded(n) == ((n + WordBytes - 1) \div WordBytes) * WordBytes
Pad(cells) == cells \o [k \in 1 .. (Padded(Len(cells)) - Len(cells)) |-> NUL]

\* Mutant: the name is not padded.
NoteBytesTight(elf, note) ==
  FromNumber(elf.hdr.encoding, WordBytes, Len(note.name) + 1)
  \o FromNumber(elf.hdr.encoding, WordBytes, Len(note.desc))
  \o FromNumber(elf.hdr.encoding, WordBytes, note.type)
  \o Append(note.name, NUL) \o Pad(note.desc)

\* add_note
NoteBytes(elf, note) ==
  FromNumber(elf.hdr.encoding, WordBytes, Len(note.name) + 1)
  \o FromNumber(elf.hdr.encoding, WordBytes, Len(note.desc))
  \o FromNumber(elf.hdr.encoding, WordBytes, note.type)
  \o Pad(Append(note.name, NUL)) \o Pad(note.desc)

=============================================================================
