------------------------------- MODULE ElfFile -------------------------------
(***************************************************************************)
(* The objects of ELFIO and the bytes of an ELF file.                      *)
(*                                                                         *)
(* A file, and the data of a section, is a sequence of cells.  A cell is a *)
(* byte or one part of a structure (a header, a symbol, ...), which takes  *)
(* as many consecutive cells as SizeOf says: a structure is read back only *)
(* from all of its parts, in place.  Its fields are those after endianess  *)
(* conversion, since one convertor writes and reads them.  A string is a   *)
(* sequence of bytes other than NUL; flags are sets; types are names.      *)
(*                                                                         *)
(* ELFIO is modelled as the testbenches construct it: no address           *)
(* translation, no compression, no lazy loading.                           *)
(***************************************************************************)
EXTENDS Integers, Sequences, SequencesExt, FiniteSetsExt

CONSTANTS
  SizeOf,         \* SizeOf[class][structure], in cells
  MaxSize,        \* size_t and Elf_Xword are below it
  MaxHalf         \* Elf_Half(-1)

Byte(c) == [byte |-> c]
NUL == Byte(0)

\* The bytes of a structure, and what a pointer to it reads; zero if not all there.
Parts(T, rec, n) == [k \in 1 .. n |-> [type |-> T, rec |-> rec, part |-> k]]
Decode(T, cells, zero) ==
  LET rec == cells[1].rec
  IN  IF "rec" \in DOMAIN cells[1] /\ cells = Parts(T, rec, Len(cells)) THEN rec ELSE zero

\* A sequence of anything.
IsList(s) == s \in Seq(ToSet(s))

Slice(cells, pos, n) == SubSeq(cells, pos + 1, pos + n)

\* adjust_stream_size and stream.write: the stream is filled with zeros up to pos.
WriteAt(cells, pos, new) ==
  LET end == Max({Len(cells), pos + Len(new)})
  IN  [n \in 1 .. end |-> IF pos < n /\ n <= pos + Len(new) THEN new[n - pos]
                          ELSE IF n <= Len(cells) THEN cells[n] ELSE NUL]

-----------------------------------------------------------------------------
(* The structures *)

NoFlags == {}

\* elf_header_impl's constructor; the counts and offsets are set by save.
NewHeader(class, encoding) ==
  [class |-> class, encoding |-> encoding, entry |-> 0,
   ehsize |-> SizeOf[class].Ehdr, phentsize |-> SizeOf[class].Phdr,
   shentsize |-> SizeOf[class].Shdr, shstrndx |-> 1,
   shnum |-> 0, shoff |-> 0, phnum |-> 0, phoff |-> 0]

ZeroShdr ==
  [name |-> 0, type |-> "NULL", flags |-> NoFlags, addr |-> 0, offset |-> 0, size |-> 0,
   link |-> 0, info |-> 0, align |-> 0, entsize |-> 0]

ZeroPhdr ==
  [type |-> "NULL", flags |-> NoFlags, offset |-> 0, vaddr |-> 0, paddr |-> 0,
   filesz |-> 0, memsz |-> 0, align |-> 0]

\* section_impl: `data' is << >> for a null pointer, `cap' is data_size.
NewSection(index) ==
  [sh |-> ZeroShdr, index |-> index, name |-> << >>, data |-> << >>, cap |-> 0,
   stream |-> 0, addrset |-> FALSE]

NewSegment(index) ==
  [ph |-> ZeroPhdr, index |-> index, sections |-> << >>, data |-> << >>, offset_set |-> FALSE]

\* elf.sections[i]: a null pointer, here a section that is none, past the end.
NoSection == NewSection(MaxHalf)
SectionAt(elf, i) == IF i < Len(elf.sections) THEN elf.sections[i + 1] ELSE NoSection

SetSection(elf, sec) == [elf EXCEPT !.sections[sec.index + 1] = sec]

-----------------------------------------------------------------------------
(* section_impl *)

set_address(sec, value) == [sec EXCEPT !.sh.addr = value, !.addrset = TRUE]

set_data(sec, raw) ==
  LET kept == sec.sh.type = "NOBITS"
      cap == IF kept THEN sec.cap ELSE Len(raw)
  IN  [sec EXCEPT !.data = IF kept THEN @ ELSE raw, !.cap = cap, !.sh.size = cap, !.stream = cap]

append_data(sec, raw) ==
  IF sec.sh.type = "NOBITS" THEN sec
  ELSE [sec EXCEPT !.cap = IF sec.sh.size + Len(raw) < sec.cap THEN @ ELSE 2 * (@ + Len(raw)),
                   !.data = @ \o raw, !.sh.size = @ + Len(raw), !.stream = @ + Len(raw)]

-----------------------------------------------------------------------------
(* string_section_accessor *)

NoString == << NUL >>

\* The string at an index of the section's data, or a null pointer (NoString).
get_string(sec, index) ==
  LET nuls == { n \in (index + 1) .. Len(sec.data) : sec.data[n] = NUL }
  IN  IF index < sec.sh.size /\ nuls # {}
      THEN SubSeq(sec.data, index + 1, Min(nuls) - 1) ELSE NoString

\* Mutant: the first string is put at offset 0.
AddStringAtZero(sec, str) == [sec |-> append_data(sec, Append(str, NUL)), pos |-> sec.sh.size]

\* Append a string, after an empty one if it is the first; its index.
add_string(sec, str) ==
  LET first == IF sec.sh.size = 0 THEN append_data(sec, << NUL >>) ELSE sec
  IN  [sec |-> append_data(first, Append(str, NUL)), pos |-> first.sh.size]

-----------------------------------------------------------------------------
(* elfio: creating sections and segments *)

create_section(elf) == [elf EXCEPT !.sections = Append(@, NewSection(Len(@)))]

\* elf.sections.add(name): the name goes to the section-name string table, which
\* may be the new section itself.
AddSection(elf, name) ==
  LET created == create_section(elf)
      index == Len(elf.sections)
      named == [created EXCEPT !.sections[index + 1].name = name]
      str == add_string(named.sections[named.hdr.shstrndx + 1], name)
  IN  [SetSection(named, str.sec) EXCEPT !.sections[index + 1].sh.name = str.pos]

\* get_default_entry_size, of the section types that have entries.
EntryStruct == [RELA |-> "Rela", REL |-> "Rel", SYMTAB |-> "Sym", DYNAMIC |-> "Dyn"]
get_default_entry_size(elf, type) ==
  IF type \in DOMAIN EntryStruct THEN SizeOf[elf.hdr.class][EntryStruct[type]] ELSE 0

create_segment(elf) == [elf EXCEPT !.segments = Append(@, NewSegment(Len(@)))]

\* create(): the null section and .shstrtab always exist.
Create(class, encoding, shstrtab) ==
  LET empty == [hdr |-> NewHeader(class, encoding), sections |-> << >>, segments |-> << >>,
                pos |-> 0]
      added == AddSection(create_section(empty), shstrtab)
  IN  [added EXCEPT !.sections[2].sh = [@ EXCEPT !.type = "STRTAB", !.align = 1]]

\* add_section_index: the segment is aligned at least as its sections are asked to be.
add_section_index(seg, index, align) ==
  [seg EXCEPT !.sections = Append(@, index), !.ph.align = IF align > @ THEN align ELSE @]

=============================================================================
