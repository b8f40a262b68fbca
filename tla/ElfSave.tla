------------------------------- MODULE ElfSave -------------------------------
(***************************************************************************)
(* elfio::save: where every section and segment goes in the file, and the  *)
(* bytes that are written.  The layout follows the virtual addresses: the  *)
(* sections of a segment keep their distances, and a segment's offset is   *)
(* congruent to its address modulo its alignment.                          *)
(***************************************************************************)
EXTENDS ElfLoad

Minus(a, b) == (a - b) % MaxSize        \* Elf_Xword arithmetic
Align(pos, align) == IF align > 1 THEN ((pos + align - 1) \div align) * align ELSE pos

SectionsOf(seg) == ToSet(seg.sections)

\* calc_segment_alignment
AlignedSegment(elf, seg) ==
  [seg EXCEPT !.ph.align = Max({@} \cup { elf.sections[i + 1].sh.align : i \in SectionsOf(seg) })]
CalcSegmentAlignment(elf) ==
  [elf EXCEPT !.segments = [n \in DOMAIN elf.segments |-> AlignedSegment(elf, elf.segments[n])]]

-----------------------------------------------------------------------------
(* get_ordered_segments *)

\* std::includes on the two vectors, which the code takes for sorted.
Includes(s2, s1) == ToSet(s1) \subseteq ToSet(s2)

is_subsequence_of(seg1, seg2) ==
  Len(seg1.sections) < Len(seg2.sections) /\ Includes(seg2.sections, seg1.sections)

Swapped(seq, i, j) == [seq EXCEPT ![i] = seq[j], ![j] = seq[i]]

\* The segments at offset 0 come first.
StartFirst(segments) ==
  LET step(acc, i) ==
        LET seg == acc.list[i]
            slot == IF acc.list[acc.slot].ph.offset = 0 THEN acc.slot + 1 ELSE acc.slot
        IN  IF i # acc.slot /\ seg.offset_set /\ seg.ph.offset = 0
            THEN [list |-> Swapped(acc.list, i, slot), slot |-> slot + 1] ELSE acc
  IN  FoldLeft(step, [list |-> segments, slot |-> 1], [n \in DOMAIN segments |-> n]).list

\* One iteration of the loop over the worklist: a segment whose sections are among
\* those of one still waiting goes to the back.
OrderFirst(acc) ==
  IF acc.worklist = << >> THEN acc
  ELSE LET seg == Head(acc.worklist)
           rest == Tail(acc.worklist)
       IN  IF \E n \in DOMAIN rest : is_subsequence_of(seg, rest[n])
           THEN [acc EXCEPT !.worklist = Append(rest, seg)]
           ELSE [worklist |-> rest, res |-> Append(acc.res, seg)]

\* The loop is over after one iteration for each segment and each place a segment can
\* have in the worklist, since the longest one moves forward until it is taken out.
Ordered(segments) ==
  FoldLeft(LAMBDA acc, k : OrderFirst(acc), [worklist |-> segments, res |-> << >>],
           [k \in 1 .. (Len(segments) * (Len(segments) + 2)) |-> k]).res

get_ordered_segments(elf) == Ordered(StartFirst(elf.segments))

-----------------------------------------------------------------------------
(* layout_segments_and_their_sections *)

\* Mutant: the gap before the section is no memory.
SectionSizesTight(sec, seg, align) ==
  [mem |-> IF "ALLOC" \in sec.sh.flags THEN sec.sh.size ELSE 0,
   file |-> IF sec.sh.type # "NOBITS" THEN sec.sh.size + align ELSE 0]

\* What a section adds to the segment's sizes; .tbss is only in a TLS segment.
SectionSizes(sec, seg, align) ==
  [mem  |-> IF /\ "ALLOC" \in sec.sh.flags
               /\ ~("TLS" \in sec.sh.flags /\ seg.ph.type # "TLS" /\ sec.sh.type = "NOBITS")
            THEN sec.sh.size + align ELSE 0,
   file |-> IF sec.sh.type # "NOBITS" THEN sec.sh.size + align ELSE 0]

\* The gap before a section in its segment: by its address, by its alignment if
\* it has no address yet, or as it lies already.
SectionAlign(acc, sec, seg, start) ==
  IF sec.index \in acc.generated THEN Minus(sec.sh.offset, start + acc.file)
  ELSE IF ~sec.addrset THEN Align(acc.pos, sec.sh.align) - acc.pos
  ELSE IF sec.sh.type # "NOBITS" /\ sec.sh.size # 0
  THEN Minus(Minus(sec.sh.addr, seg.ph.vaddr), Minus(acc.pos, start))
  ELSE 0

\* "something has gone awfully wrong": a section would have to go back.
GoesBack(acc, sec, seg, start) ==
  /\ sec.index \notin acc.generated /\ sec.addrset
  /\ sec.sh.type # "NOBITS" /\ sec.sh.size # 0
  /\ Minus(sec.sh.addr, seg.ph.vaddr) < Minus(acc.pos, start)

\* One section of write_segment_data; acc is where the layout stands.
PlaceSection(acc, seg, start, index) ==
  LET sec == acc.elf.sections[index + 1]
      align == SectionAlign(acc, sec, seg, start)
      pos == acc.pos + align
      sizes == SectionSizes(sec, seg, align)
      addressed == IF sec.addrset THEN sec ELSE set_address(sec, Minus(seg.ph.vaddr + pos, start))
      counted == [acc EXCEPT !.mem = @ + sizes.mem, !.file = @ + sizes.file]
  IN  IF ~acc.ok THEN acc
      ELSE IF sec.sh.type = "NULL" THEN [acc EXCEPT !.generated = @ \cup {index}]
      ELSE IF GoesBack(acc, sec, seg, start) THEN [acc EXCEPT !.ok = FALSE]
      ELSE IF index \in acc.generated THEN counted
      ELSE [counted EXCEPT
              !.pos = IF sec.sh.type # "NOBITS" THEN pos + sec.sh.size ELSE pos,
              !.generated = @ \cup {index},
              !.elf = SetSection(@, [addressed EXCEPT
                        !.sh.offset = IF index # 0 THEN pos ELSE @])]

\* Where a segment starts, the position before its first section, and its sizes so far.
SegmentStart(acc, seg) ==
  LET hdr == acc.elf.hdr
      table == hdr.phentsize * hdr.phnum
      align == IF seg.ph.align > 0 THEN seg.ph.align ELSE 1
      moved == acc.pos + ((Minus(seg.ph.vaddr % align, acc.pos % align) + seg.ph.align) % align)
      first == acc.elf.sections[seg.sections[1] + 1]
  IN  IF seg.ph.type = "PHDR" /\ seg.sections = << >>
      THEN [start |-> hdr.phoff, pos |-> acc.pos, size |-> table]
      ELSE IF seg.offset_set /\ seg.ph.offset = 0
      THEN [start |-> 0, pos |-> acc.pos, size |-> IF seg.sections # << >> THEN acc.pos ELSE 0]
      ELSE IF seg.sections = << >> THEN [start |-> acc.pos, pos |-> acc.pos, size |-> 0]
      ELSE IF seg.sections[1] \notin acc.generated
      THEN [start |-> moved, pos |-> moved, size |-> 0]
      ELSE [start |-> first.sh.offset, pos |-> acc.pos, size |-> 0]

\* The sections of a segment, one after the other.
PlaceAll(acc, seg, start) ==
  FoldLeft(LAMBDA a, index : PlaceSection(a, seg, start, index), acc, seg.sections)

\* Mutant: the size in memory is added to the one the segment had.
MarkedGrowing(seg, start, done) ==
  [seg EXCEPT !.ph.filesz = done.file, !.ph.offset = start, !.offset_set = TRUE,
              !.ph.memsz = @ + done.mem]

\* The header of a segment with its place; a size in memory from a file does not shrink.
Marked(seg, start, done) ==
  [seg EXCEPT !.ph.filesz = done.file, !.ph.offset = start, !.offset_set = TRUE,
              !.ph.memsz = IF @ < done.mem THEN done.mem ELSE @]

\* One segment with its sections.
LayoutSegment(acc, seg) ==
  LET at == SegmentStart(acc, seg)
      done == PlaceAll([acc EXCEPT !.pos = at.pos, !.mem = at.size, !.file = at.size],
                       seg, at.start)
  IN  IF ~acc.ok THEN acc
      ELSE IF ~done.ok THEN done
      ELSE [done EXCEPT !.elf.segments[seg.index + 1] = Marked(@, at.start, done)]

LayoutSegments(elf) ==
  FoldLeft(LayoutSegment,
           [ok |-> TRUE, elf |-> elf, pos |-> elf.pos, generated |-> {}, mem |-> 0, file |-> 0],
           get_ordered_segments(elf))

-----------------------------------------------------------------------------
(* The sections outside all segments, and the section table *)

is_section_without_segment(elf, index) ==
  \A n \in DOMAIN elf.segments : index \notin SectionsOf(elf.segments[n])

\* Mutant: the position does not advance.
PlaceLooseSectionStill(elf, index) ==
  LET sec == elf.sections[index + 1]
      pos == Align(elf.pos, sec.sh.align)
  IN  IF ~is_section_without_segment(elf, index) THEN elf
      ELSE [SetSection(elf, [sec EXCEPT !.sh.offset = IF index # 0 THEN pos ELSE @])
              EXCEPT !.pos = pos]

PlaceLooseSection(elf, index) ==
  LET sec == elf.sections[index + 1]
      pos == Align(elf.pos, sec.sh.align)
  IN  IF ~is_section_without_segment(elf, index) THEN elf
      ELSE [SetSection(elf, [sec EXCEPT !.sh.offset = IF index # 0 THEN pos ELSE @])
              EXCEPT !.pos = IF sec.sh.type \in {"NOBITS", "NULL"} THEN pos ELSE pos + sec.sh.size]

LayoutSections(elf) ==
  FoldLeft(PlaceLooseSection, elf, [n \in DOMAIN elf.sections |-> n - 1])

LayoutSectionTable(elf) ==
  [elf EXCEPT !.pos = Align(@, 4), !.hdr.shoff = Align(elf.pos, 4)]

-----------------------------------------------------------------------------
(* save *)

SaveHeader(elf, cells) ==
  WriteAt(cells, 0, Parts("Ehdr", elf.hdr, SizeOf[elf.hdr.class].Ehdr))

\* section_impl::save
SaveSection(elf, cells, sec) ==
  LET written == WriteAt(cells, elf.hdr.shoff + sec.index * elf.hdr.shentsize,
                         Parts("Shdr", sec.sh, SizeOf[elf.hdr.class].Shdr))
  IN  IF sec.sh.type \notin {"NULL", "NOBITS"} /\ sec.sh.size # 0 /\ sec.data # << >>
      THEN WriteAt(written, sec.sh.offset, sec.data) ELSE written

\* segment_impl::save
SaveSegment(elf, cells, seg) ==
  WriteAt(cells, elf.hdr.phoff + seg.index * elf.hdr.phentsize,
          Parts("Phdr", seg.ph, SizeOf[elf.hdr.class].Phdr))

save_sections(elf, cells) ==
  FoldLeft(LAMBDA c, sec : SaveSection(elf, c, sec), cells, elf.sections)
save_segments(elf, cells) ==
  FoldLeft(LAMBDA c, seg : SaveSegment(elf, c, seg), cells, elf.segments)

\* The header fields that depend on the layout, and the position after the tables.
Prepare(elf) ==
  LET n == Len(elf.segments)
  IN  [elf EXCEPT !.hdr.phnum = n, !.hdr.phoff = IF n > 0 THEN elf.hdr.ehsize ELSE 0,
                  !.hdr.shnum = Len(elf.sections), !.hdr.shoff = 0,
                  !.pos = elf.hdr.ehsize + elf.hdr.phentsize * n]

\* The file and, since save lays out the object itself, the object.
Save(elf) ==
  LET laid == LayoutSegments(CalcSegmentAlignment(Prepare(elf)))
      final == LayoutSectionTable(LayoutSections([laid.elf EXCEPT !.pos = laid.pos]))
  IN  IF ~laid.ok THEN [ok |-> FALSE, elf |-> [laid.elf EXCEPT !.pos = laid.pos], file |-> << >>]
      ELSE [ok |-> TRUE, elf |-> final,
            file |-> save_segments(final, save_sections(final, SaveHeader(final, << >>)))]

-----------------------------------------------------------------------------
(* validate *)

is_offset_in_section(offset, sec) ==
  sec.sh.offset <= offset /\ offset < sec.sh.offset + sec.sh.size

\* The types that have the bit of SHT_NOBITS, not NOBITS alone.
NotCompared == {"NOBITS", "REL", "SHLIB", "DYNSYM", "INIT_ARRAY", "FINI_ARRAY", "VERSYM", "VERNEED"}

OverlapInFile(a, b) ==
  /\ a.sh.type \notin NotCompared /\ b.sh.type \notin NotCompared
  /\ a.sh.size > 0 /\ b.sh.size > 0 /\ a.sh.offset > 0 /\ b.sh.offset > 0
  /\ \/ is_offset_in_section(a.sh.offset, b)
     \/ is_offset_in_section(a.sh.offset + a.sh.size - 1, b)
     \/ is_offset_in_section(b.sh.offset, a)
     \/ is_offset_in_section(b.sh.offset + b.sh.size - 1, a)

find_prog_section_for_offset(elf, offset) ==
  LET found == { n \in DOMAIN elf.sections : /\ elf.sections[n].sh.type = "PROGBITS"
                                             /\ is_offset_in_section(offset, elf.sections[n]) }
  IN  IF found = {} THEN NoSection ELSE elf.sections[Min(found)]

get_virtual_addr(offset, sec) == sec.sh.addr + offset - sec.sh.offset

\* The first program section in which a segment starts has its address there.
AddressConflict(elf, seg) ==
  LET sec == find_prog_section_for_offset(elf, seg.ph.offset)
  IN  /\ seg.ph.type = "LOAD" /\ seg.ph.filesz > 0 /\ sec # NoSection
      /\ get_virtual_addr(seg.ph.offset, sec) # seg.ph.vaddr

ValidateIsSilent(elf) ==
  /\ \A n, m \in DOMAIN elf.sections : n < m => ~OverlapInFile(elf.sections[n], elf.sections[m])
  /\ \A n \in DOMAIN elf.segments : ~AddressConflict(elf, elf.segments[n])

=============================================================================
