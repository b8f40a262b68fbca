------------------------------- MODULE ElfLoad -------------------------------
(***************************************************************************)
(* elfio::load: from the bytes of a file to sections and segments.         *)
(*                                                                         *)
(* A stream that failed once (a read past the end of the file) stays       *)
(* failed: every later seek and read of it does nothing, and its position  *)
(* is reported as -1, the largest size_t.  A header that is read only in   *)
(* part is taken for an empty one; nothing after it is read any more.      *)
(***************************************************************************)
EXTENDS ElfFile

CanRead(st, pos, n) == ~st.fail /\ pos + n <= Len(st.cells)

StreamSize(st) == IF st.fail THEN MaxSize ELSE Len(st.cells)

\* stream.seekg(pos); stream.read(&structure, n)
ReadHeader(st, T, pos, n, zero) ==
  IF CanRead(st, pos, n) THEN Decode(T, Slice(st.cells, pos, n), zero) ELSE zero

-----------------------------------------------------------------------------
(* Sections *)

\* section_impl::load and load_data: the header, and the data of a section that
\* has some and is smaller than the file.
LoadSection(st, hdr, i) ==
  LET pos == hdr.shoff + i * hdr.shentsize
      n == SizeOf[hdr.class].Shdr
      sh == ReadHeader(st, "Shdr", pos, n, ZeroShdr)
      st1 == [st EXCEPT !.fail = ~CanRead(st, pos, n)]
      wanted == sh.type \notin {"NULL", "NOBITS"} /\ sh.size # 0 /\ sh.size < StreamSize(st)
      got == wanted /\ CanRead(st1, sh.offset, sh.size)
      data == IF got THEN Slice(st.cells, sh.offset, sh.size) ELSE << >>
  IN  [st |-> [st1 EXCEPT !.fail = @ \/ (wanted /\ ~got)],
       sec |-> [NewSection(i) EXCEPT !.sh = sh, !.data = data, !.cap = Len(data),
                                     !.stream = StreamSize(st), !.addrset = TRUE]]

\* A section's name is set if it is in the string table, and else left empty.
Named(hdr, sections) ==
  LET strtab == SectionAt([sections |-> sections], hdr.shstrndx)
      nameOf(sec) == get_string(strtab, sec.sh.name)
  IN  IF hdr.shstrndx = 0 THEN sections
      ELSE [n \in DOMAIN sections |->
              IF nameOf(sections[n]) = NoString THEN sections[n]
              ELSE [sections[n] EXCEPT !.name = nameOf(sections[n])]]

\* load_sections, whose result load ignores: too small an entry means no sections.
LoadSections(st, hdr) ==
  LET step(acc, i) == LET l == LoadSection(acc.st, hdr, i)
                      IN  [st |-> l.st, sections |-> Append(acc.sections, l.sec)]
      all == FoldLeft(step, [st |-> st, sections |-> << >>], [n \in 1 .. hdr.shnum |-> n - 1])
  IN  IF hdr.shentsize < SizeOf[hdr.class].Shdr THEN [st |-> st, sections |-> << >>]
      ELSE [all EXCEPT !.sections = Named(hdr, @)]

-----------------------------------------------------------------------------
(* Segments *)

is_sect_in_seg(sect_begin, sect_size, seg_begin, seg_end) ==
  /\ seg_begin <= sect_begin
  /\ sect_begin + sect_size <= seg_end
  /\ sect_begin < seg_end

\* Sections that are in memory are matched by address, the others by offset.
SectionInSegment(sec, ph) ==
  IF "ALLOC" \in sec.sh.flags
  THEN is_sect_in_seg(sec.sh.addr, sec.sh.size, ph.vaddr, ph.vaddr + ph.memsz)
  ELSE is_sect_in_seg(sec.sh.offset, sec.sh.size, ph.offset, ph.offset + ph.filesz)

\* The loop of load_segments over the sections.
SectionsInside(sections, ph) ==
  FoldLeft(LAMBDA list, sec : IF SectionInSegment(sec, ph) THEN Append(list, sec.index) ELSE list,
           << >>, sections)

\* Whether the data of a segment is read: one larger than the file gets none,
\* which is no failure.
DataIsRead(ph, st) == ph.type # "NULL" /\ ph.filesz # 0 /\ ph.filesz <= StreamSize(st)

\* segment_impl::load and load_data, and the sections that lie in the segment.
LoadSegment(st, hdr, sections, i) ==
  LET pos == hdr.phoff + i * hdr.phentsize
      n == SizeOf[hdr.class].Phdr
      ph == ReadHeader(st, "Phdr", pos, n, ZeroPhdr)
      st1 == [st EXCEPT !.fail = ~CanRead(st, pos, n)]
      wanted == DataIsRead(ph, st)
      got == wanted /\ CanRead(st1, ph.offset, ph.filesz)
  IN  [st |-> [st1 EXCEPT !.fail = @ \/ (wanted /\ ~got)],
       seg |-> [NewSegment(i) EXCEPT !.ph = ph, !.offset_set = TRUE,
                  !.data = IF got THEN Slice(st.cells, ph.offset, ph.filesz) ELSE << >>,
                  !.sections = SectionsInside(sections, ph)]]

\* load_segments: the first segment that cannot be read ends it.
LoadSegments(st, hdr, sections) ==
  LET step(acc, i) ==
        LET l == LoadSegment(acc.st, hdr, sections, i)
        IN  IF ~acc.ok THEN acc
            ELSE IF l.st.fail THEN [acc EXCEPT !.ok = FALSE, !.st = l.st]
            ELSE [acc EXCEPT !.st = l.st, !.segments = Append(@, l.seg)]
      small == hdr.phnum # 0 /\ hdr.phentsize < SizeOf[hdr.class].Phdr
  IN  FoldLeft(step, [ok |-> ~small, st |-> st, segments |-> << >>],
               [n \in 1 .. hdr.phnum |-> n - 1])

-----------------------------------------------------------------------------
(* elfio::load *)

Classes == DOMAIN SizeOf
Encodings == {"LSB", "MSB"}

\* The identification (the first cell of the header) and the rest of the header.
HeaderLoads(cells) ==
  /\ cells # << >>
  /\ "rec" \in DOMAIN cells[1] /\ cells[1].type = "Ehdr" /\ cells[1].part = 1
  /\ cells[1].rec.class \in Classes /\ cells[1].rec.encoding \in Encodings
  /\ Len(cells) >= SizeOf[cells[1].rec.class].Ehdr

NothingLoaded == [hdr |-> NewHeader("32", "LSB"), sections |-> << >>, segments |-> << >>, pos |-> 0]

Load(cells) ==
  IF ~HeaderLoads(cells) THEN [ok |-> FALSE, elf |-> NothingLoaded]
  ELSE LET hdr == cells[1].rec
           sec == LoadSections([cells |-> cells, fail |-> FALSE], hdr)
           seg == LoadSegments(sec.st, hdr, sec.sections)
       IN  [ok |-> seg.ok,
            elf |-> [hdr |-> hdr, sections |-> sec.sections, segments |-> seg.segments,
                     pos |-> 0]]

=============================================================================
