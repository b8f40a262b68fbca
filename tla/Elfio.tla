-------------------------------- MODULE Elfio --------------------------------
(***************************************************************************)
(* A program that uses ELFIO: it adds sections and segments, fills tables  *)
(* through the accessors, saves the object to a file, loads the file into  *)
(* the object and goes on.  The file is the only thing that survives a     *)
(* load; `told' is what the program asked for and `shown' what the dynamic *)
(* accessor it keeps has counted.                                          *)
(***************************************************************************)
EXTENDS ElfTables

CONSTANTS
  Programs,       \* how a program starts: class, encoding and its tables
  SectionChoices, \* what a program may give sections.add and the setters
  SegmentChoices, \* likewise for segments.add
  EntryChoices,   \* the entries it may add, by table
  Shstrtab,       \* the string ".shstrtab"
  LostCells,      \* how much of a file may be missing at its end
  MaxSections, MaxSegments, MaxEntries, MaxSaves

\* The structures of a file, each of some bytes.
Structures == {"Ehdr", "Shdr", "Phdr", "Sym", "Rel", "Rela", "Dyn", "Verneed", "Vernaux"}
ASSUME SizesAssumption ==
  /\ {MaxSize, WordBytes, HalfBytes} \subseteq Nat \ {0}
  /\ \A class \in Classes : \A T \in Structures : SizeOf[class][T] \in Nat \ {0}

VARIABLES
  pc,             \* "edit", "saved" (there is a file), "loaded", "failed" or "cut"
  elf,            \* the object
  file,           \* the file of the last save
  built,          \* the object as it was before that save
  told,           \* the entries the program added, by table
  shown,          \* entries_num of the dynamic accessor
  saves
vars == << pc, elf, file, built, told, shown, saves >>

-----------------------------------------------------------------------------
(* The tables of a program *)

\* The names of the sections, each of one byte.
NameOf == [strtab |-> 101, symtab |-> 102, rel |-> 103, dynamic |-> 104, note |-> 105,
           array |-> 106, versym |-> 107, modinfo |-> 108, hash |-> 109, verneed |-> 110]
Tables == DOMAIN NameOf

\* A program that has symbols has their names and their relocations, and so on.
ASSUME ProgramsAssumption ==
  \A p \in Programs :
    LET names == { p.tables[k].name : k \in DOMAIN p.tables }
    IN  /\ p.class \in Classes /\ p.encoding \in Encodings /\ IsList(p.tables)
        /\ \A k \in DOMAIN p.tables :
             /\ p.tables[k].name \in Tables /\ p.tables[k].type \notin {"NULL", "NOBITS"}
             /\ p.tables[k].name = "rel" => p.tables[k].type \in {"REL", "RELA"}
        /\ "symtab" \in names => {"strtab", "rel"} \subseteq names
        /\ "dynamic" \in names => "strtab" \in names
        /\ "verneed" \in names => "dynamic" \in names

\* The name of a section that is not a table.
IsName(s) == IsList(s) /\ NUL \notin ToSet(s) /\ \A t \in Tables : s # << Byte(NameOf[t]) >>

ASSUME ChoicesAssumption ==
  /\ IsName(Shstrtab) /\ LostCells \subseteq Nat
  /\ \A c \in SectionChoices :
       /\ IsName(c.name) /\ IsList(c.data) /\ c.type # "NULL"
       /\ c.size \in Nat /\ c.align \in Nat /\ c.addr \in 0 .. (MaxSize - 1)
  /\ \A c \in SegmentChoices : c.vaddr \in 0 .. (MaxSize - 1) /\ c.align \in Nat

ASSUME EntriesAssumption ==
  /\ \A s \in EntryChoices.symtab : IsList(s.name)
  /\ \A d \in EntryChoices.dynamic : IsList(d.str)
  /\ \A needs \in EntryChoices.verneed : IsList(needs)
  /\ \A n \in EntryChoices.note : IsList(n.name) /\ IsList(n.desc)
  /\ \A a \in EntryChoices.modinfo : IsList(a[1]) /\ IsList(a[2])

\* elf.sections[name]
Found(e, t) == { n \in DOMAIN e.sections : e.sections[n].name = << Byte(NameOf[t]) >> }
Has(t) == Found(elf, t) # {}
Sec(t) == elf.sections[Min(Found(elf, t))]

\* elf.sections.add and the setters, for one table.
AddTable(e, t) ==
  LET added == AddSection(e, << Byte(NameOf[t.name]) >>)
  IN  [added EXCEPT !.sections[Len(added.sections)].sh =
        [@ EXCEPT !.type = t.type, !.align = 1,
                  !.entsize = get_default_entry_size(e, t.type),
                  !.link = IF t.link \in Tables THEN Min(Found(e, t.link)) - 1 ELSE 0]]

\* Pieces of n cells each, one after the other.
Flat(pieces, n) ==
  [j \in 1 .. (Len(pieces) * n) |-> pieces[((j - 1) \div n) + 1][((j - 1) % n) + 1]]

\* A segment for the notes.
AddNoteSegment(e) ==
  IF Found(e, "note") = {} THEN e
  ELSE [create_segment(e) EXCEPT
          !.segments[1] = add_section_index([@ EXCEPT !.ph.type = "NOTE"],
                                            Min(Found(e, "note")) - 1, 1)]

Init ==
  /\ pc = "edit"
  /\ \E p \in Programs :
       elf = AddNoteSegment(FoldLeft(AddTable, Create(p.class, p.encoding, Shstrtab), p.tables))
  /\ file = << >> /\ built = elf
  /\ told = [t \in Tables |-> << >>] /\ shown = 0 /\ saves = 0

\* The program adds `entry' to table t, which changes the sections of `changed'.
Tell(t, entry, changed) ==
  /\ pc = "edit" /\ Len(told[t]) < MaxEntries
  /\ elf' = FoldLeft(SetSection, elf, changed)
  /\ told' = [told EXCEPT ![t] = Append(@, entry)]
  /\ UNCHANGED << pc, file, built, shown, saves >>

-----------------------------------------------------------------------------
(* Symbols, their relocations and their hash section *)

AddSymbol(s) ==
  /\ Has("symtab")
  /\ LET str == add_string(Sec("strtab"), s.name)
     IN  Tell("symtab", s,
              << str.sec, add_symbol(elf, Sec("symtab"), [s EXCEPT !.name = str.pos]) >>)

\* The symbol with an index, its name as a string.
SymbolAt(i) == [EntryAt(elf, Sec("symtab"), "Sym", i)
                  EXCEPT !.name = SymbolName(elf, Sec("symtab"), i)]

SymbolIndexes == IF Has("symtab") THEN 1 .. (get_symbols_num(elf, Sec("symtab")) - 1) ELSE {}

AddRelocation(r, i) ==
  /\ Has("rel") /\ i \in SymbolIndexes
  /\ Tell("rel", [r |-> r, symbol |-> SymbolAt(i)],
          << add_relocation(elf, Sec("rel"), r.offset, i, r.type, r.addend) >>)

\* arrange_local_symbols, with swap_symbols of the relocations as its function.
ArrangeLocals ==
  /\ pc = "edit" /\ SymbolIndexes # {}
  /\ LET arranged == arrange_local_symbols(elf, Sec("symtab"))
         swap(rel, s) == swap_symbols(elf, rel, s[1], s[2])
     IN  elf' = SetSection(SetSection(elf, arranged.sec),
                           FoldLeft(swap, Sec("rel"), arranged.swaps))
  /\ UNCHANGED << pc, file, built, told, shown, saves >>

\* The hash section that a linker makes for the symbols as they are: two buckets
\* of chains, or one bucket behind a bloom filter of one word.
HashWords(type) ==
  LET n == get_symbols_num(elf, Sec("symtab")) - 1
      SysV(i) == elf_hash(SymbolAt(i).name) % 2
      Gnu(i) == elf_gnu_hash(SymbolAt(i).name)
      next(from, b) == LET same == { i \in from .. n : SysV(i) = b }
                       IN  IF same = {} THEN 0 ELSE Min(same)
      bits == UNION { { Gnu(i) % BloomBits, (Gnu(i) \div 2) % BloomBits } : i \in 1 .. n }
  IN  IF type = "HASH"
      THEN << 2, n + 1, next(1, 0), next(1, 1), 0 >> \o [i \in 1 .. n |-> next(i + 1, SysV(i))]
      ELSE << 1, 1, 1, 1, SumSet({ 2 ^ b : b \in bits }), 1 >>
           \o [i \in 1 .. n |-> 2 * (Gnu(i) \div 2) + (IF i = n THEN 1 ELSE 0)]

LinkHash(type) ==
  /\ pc = "edit" /\ SymbolIndexes # {} /\ ~Has("hash")
  /\ LET table == AddTable(elf, [name |-> "hash", type |-> type, link |-> "symtab"])
         words == HashWords(type)
         bytes == Flat([k \in DOMAIN words |-> FromNumber(elf.hdr.encoding, WordBytes, words[k])],
                       WordBytes)
     IN  elf' = SetSection(table, set_data(Last(table.sections), bytes))
  /\ UNCHANGED << pc, file, built, told, shown, saves >>

-----------------------------------------------------------------------------
(* The other tables *)

AddDynamic(d) ==
  /\ Has("dynamic")
  /\ LET str == add_string(Sec("strtab"), d.str)
     IN  IF d.tag \in WithString
         THEN Tell("dynamic", d, << str.sec, add_dynamic(elf, Sec("dynamic"), d.tag, str.pos) >>)
         ELSE Tell("dynamic", d, << add_dynamic(elf, Sec("dynamic"), d.tag, d.val) >>)

\* The program asks its dynamic accessor how many entries there are.
LookAtDynamic ==
  /\ pc = "edit" /\ Has("dynamic")
  /\ shown' = CountDynamic(elf, Sec("dynamic"), shown)
  /\ UNCHANGED << pc, elf, file, built, told, saves >>

\* The needs that a linker writes: a chain of needs, each with one auxiliary entry
\* behind it.
LinkNeeds(needs) ==
  /\ pc = "edit" /\ Has("verneed") /\ told.verneed = << >>
  /\ \A k \in DOMAIN told.dynamic : told.dynamic[k].tag # "NULL"
  /\ LET size == SizeOf[elf.hdr.class]
         one(k) == Parts("Verneed", [version |-> needs[k].version, file |-> needs[k].file,
                                     aux |-> size.Verneed, next |-> size.Verneed + size.Vernaux],
                         size.Verneed)
                   \o Parts("Vernaux", [hash |-> needs[k].hash, name |-> needs[k].dep], size.Vernaux)
     IN  elf' = FoldLeft(SetSection, elf,
                  << set_data(Sec("verneed"), Flat([k \in DOMAIN needs |-> one(k)],
                                                    size.Verneed + size.Vernaux)),
                     add_dynamic(elf, Sec("dynamic"), "VERNEEDNUM", Len(needs)) >>)
  /\ told' = [told EXCEPT !.verneed = needs,
                          !.dynamic = Append(@, [tag |-> "VERNEEDNUM", val |-> Len(needs), str |-> << >>])]
  /\ UNCHANGED << pc, file, built, shown, saves >>

AddNote(n) == Has("note") /\ Tell("note", n, << append_data(Sec("note"), NoteBytes(elf, n)) >>)
AddAddress(a) == Has("array") /\ Tell("array", a, << add_address(elf, Sec("array"), WordBytes, a) >>)
AddVersion(v) == Has("versym") /\ Tell("versym", v, << add_version(Sec("versym"), v) >>)
AddAttribute(a) ==
  Has("modinfo") /\ Tell("modinfo", a, << add_attribute(Sec("modinfo"), a[1], a[2]) >>)

ModifyVersion(i, v) ==
  /\ pc = "edit" /\ Has("versym") /\ i < CountNumbers(Sec("versym"), HalfBytes)
  /\ elf' = SetSection(elf, modify_version(Sec("versym"), i, v))
  /\ told' = [told EXCEPT !.versym[i + 1] = v]
  /\ UNCHANGED << pc, file, built, shown, saves >>

-----------------------------------------------------------------------------
(* Sections and segments of a program without tables *)

Plain == pc = "edit" /\ \A t \in Tables : ~Has(t)

AddSectionAs(c) ==
  /\ Plain /\ Len(elf.sections) < MaxSections
  /\ LET added == AddSection(elf, c.name)
         typed == [Last(added.sections) EXCEPT !.sh.type = c.type, !.sh.flags = c.flags,
                                               !.sh.align = c.align]
         filled == IF c.type = "NOBITS" THEN [typed EXCEPT !.sh.size = c.size]
                   ELSE append_data(typed, c.data)
     IN  elf' = SetSection(added, IF c.addr = 0 THEN filled ELSE set_address(filled, c.addr))
  /\ UNCHANGED << pc, file, built, told, shown, saves >>

AddSegmentAs(c) ==
  /\ Plain /\ Len(elf.segments) < MaxSegments
  /\ LET added == create_segment(elf)
     IN  elf' = [added EXCEPT !.segments[Len(added.segments)].ph =
                   [@ EXCEPT !.type = c.type, !.vaddr = c.vaddr, !.paddr = c.vaddr,
                             !.align = c.align]]
  /\ UNCHANGED << pc, file, built, told, shown, saves >>

\* A section is added to a segment, in the order of the sections.
Assign(n, i) ==
  /\ Plain /\ n \in DOMAIN elf.segments /\ i \in 2 .. (Len(elf.sections) - 1)
  /\ \A k \in SectionsOf(elf.segments[n]) : k < i
  /\ elf' = [elf EXCEPT !.segments[n] = add_section_index(@, i, elf.sections[i + 1].sh.align)]
  /\ UNCHANGED << pc, file, built, told, shown, saves >>

-----------------------------------------------------------------------------
(* Saving and loading *)

Within(e, n, m) == SectionsOf(e.segments[n]) \subseteq SectionsOf(e.segments[m])
Apart(e, n, m) == SectionsOf(e.segments[n]) \cap SectionsOf(e.segments[m]) = {}

\* What a program must see to: no section lies before its segment, and segments
\* that share sections are nested, with a section that has bytes first, at their
\* address.
Sensible(e) ==
  /\ \A n \in DOMAIN e.segments : \A i \in SectionsOf(e.segments[n]) :
       LET sec == e.sections[i + 1]
       IN  /\ e.segments[n].ph.type # "NOTE" => "ALLOC" \in sec.sh.flags
           /\ sec.addrset => sec.sh.addr >= e.segments[n].ph.vaddr
  /\ \A n, m \in DOMAIN e.segments :
       n # m /\ ~Apart(e, n, m) =>
         /\ Within(e, n, m) \/ Within(e, m, n)
         /\ LET first == e.sections[e.segments[n].sections[1] + 1]
            IN  /\ first.addrset /\ first.sh.addr = e.segments[n].ph.vaddr
                /\ first.sh.type # "NOBITS" /\ first.sh.size # 0

SaveFile ==
  /\ pc = "edit" /\ saves < MaxSaves /\ Sensible(elf)
  /\ LET s == Save(elf) IN
     /\ elf' = s.elf /\ file' = s.file
     /\ pc' = IF s.ok THEN "saved" ELSE "failed"
  /\ built' = elf /\ saves' = saves + 1
  /\ UNCHANGED << told, shown >>

\* The file is loaded, from which `lost' cells at the end may have disappeared; the
\* accessors of the old sections are gone.
LoadFile(lost) ==
  /\ pc = "saved" /\ lost <= Len(file)
  /\ LET l == Load(SubSeq(file, 1, Len(file) - lost))
     IN  /\ elf' = l.elf
         /\ pc' = IF ~l.ok THEN "failed" ELSE IF lost > 0 THEN "cut" ELSE "loaded"
  /\ shown' = 0
  /\ UNCHANGED << file, built, told, saves >>

\* The program goes on with what it loaded.
GoOn ==
  /\ pc = "loaded" /\ saves < MaxSaves
  /\ pc' = "edit"
  /\ UNCHANGED << elf, file, built, told, shown, saves >>

Next ==
  \/ \E s \in EntryChoices.symtab : AddSymbol(s)
  \/ \E r \in EntryChoices.rel, i \in SymbolIndexes : AddRelocation(r, i)
  \/ ArrangeLocals
  \/ \E type \in HashTypes : LinkHash(type)
  \/ \E d \in EntryChoices.dynamic : AddDynamic(d)
  \/ LookAtDynamic
  \/ \E needs \in EntryChoices.verneed : LinkNeeds(needs)
  \/ \E n \in EntryChoices.note : AddNote(n)
  \/ \E a \in EntryChoices.array : AddAddress(a)
  \/ \E v \in EntryChoices.versym : AddVersion(v)
  \/ \E i \in 0 .. (MaxEntries - 1), v \in EntryChoices.versym : ModifyVersion(i, v)
  \/ \E a \in EntryChoices.modinfo : AddAttribute(a)
  \/ \E c \in SectionChoices : AddSectionAs(c)
  \/ \E c \in SegmentChoices : AddSegmentAs(c)
  \/ \E n \in 1 .. MaxSegments, i \in 2 .. MaxSections : Assign(n, i)
  \/ SaveFile
  \/ \E lost \in LostCells : LoadFile(lost)
  \/ GoOn

Spec == Init /\ [][Next]_vars

-----------------------------------------------------------------------------
(* Properties of saving and loading *)

\* What a program sees of a section, except where it is.
View(sec) == << sec.name, sec.sh.type, sec.sh.flags, sec.sh.size, sec.sh.align, sec.sh.link,
                sec.sh.info, sec.sh.entsize, sec.data >>

\* A file that load accepts gives the sections that were saved (elfio.hpp, save and
\* load); one that was cut short is refused unless it has no segments at all, since
\* load ignores what load_sections returns.
SavedIsLoaded ==
  /\ pc = "loaded" =>
       /\ Len(elf.sections) = Len(built.sections) /\ Len(elf.segments) = Len(built.segments)
       /\ \A n \in DOMAIN built.sections : View(elf.sections[n]) = View(built.sections[n])
       /\ \A n \in DOMAIN built.segments :
            elf.segments[n].ph.type = built.segments[n].ph.type
  /\ pc = "cut" => elf.segments = << >>

Occupied(sec) == IF sec.sh.type = "NOBITS" THEN 0 ELSE sec.sh.size
\* A .bss whose address the program gave: the gap before it is not counted.
GapIsLost(sec) == sec.sh.type = "NOBITS" /\ sec.addrset

\* A loader that copies the segments puts every section that a program assigned to
\* one at its address, with its bytes and its room (layout_segments_and_their_sections
\* and segment_impl::load_data), and load finds the section in the segment again.
SegmentsCarrySections ==
  pc = "loaded" =>
    \A n \in DOMAIN built.segments : \A i \in SectionsOf(built.segments[n]) :
      LET seg == elf.segments[n]
          sec == elf.sections[i + 1]
          distance == sec.sh.offset - seg.ph.offset
      IN  /\ Occupied(sec) # 0 =>
               /\ i \in SectionsOf(seg)
               /\ Slice(seg.data, distance, sec.sh.size) = sec.data
          /\ "ALLOC" \in sec.sh.flags =>
               /\ Occupied(sec) # 0 => sec.sh.addr = seg.ph.vaddr + distance
               /\ ~GapIsLost(built.sections[i + 1]) =>
                    sec.sh.addr + sec.sh.size <= seg.ph.vaddr + seg.ph.memsz

\* The header, the two tables and the sections of the file.
Places ==
  << << 0, elf.hdr.ehsize >>, << elf.hdr.phoff, elf.hdr.phnum * elf.hdr.phentsize >>,
     << elf.hdr.shoff, elf.hdr.shnum * elf.hdr.shentsize >> >>
  \o [n \in DOMAIN elf.sections |-> << elf.sections[n].sh.offset, Occupied(elf.sections[n]) >>]

\* Nothing that save writes overwrites anything else (layout_sections_without_segments,
\* layout_section_table), and validate has nothing to say of the result.
LaidOutApart ==
  pc = "saved" =>
    /\ \A n, m \in DOMAIN Places :
         n < m => \/ Places[n][1] + Places[n][2] <= Places[m][1]
                  \/ Places[m][1] + Places[m][2] <= Places[n][1]
                  \/ Places[n][2] = 0 \/ Places[m][2] = 0
    /\ ValidateIsSilent(elf)

\* What a loader of the file puts into memory.
Image(e) == [n \in DOMAIN e.segments |->
               LET seg == e.segments[n]
               IN  << seg.ph.vaddr, seg.ph.filesz, seg.ph.memsz, seg.data >>]

\* An object that was loaded, with its sections in the segments they were in, and not
\* changed is saved with the same image (elfio.hpp, save: the layout is computed
\* again, from the addresses, offsets and sizes that load has set).
ResaveKeepsImage ==
  [][ /\ pc = "edit" /\ pc' = "saved" /\ saves > 0 /\ elf = Load(file).elf
      /\ \A n \in DOMAIN elf.segments : elf.segments[n].sections = built.segments[n].sections
      => Image(Load(file').elf) = Image(elf) ]_vars

-----------------------------------------------------------------------------
(* A property of the tables *)

\* However the symbols are arranged, a relocation refers to the symbol it was made
\* for, keeps its place, type and addend, and resolves to that symbol's value; the
\* symbols before the section's info are local (arrange_local_symbols with
\* swap_symbols as its function, get_entry with its calculated value).
ReferencesFollow ==
  Has("rel") =>
    /\ entries_num(Sec("rel")) = Len(told.rel)
    /\ \A k \in DOMAIN told.rel :
         LET rel == get_relocation(elf, Sec("rel"), k - 1)
             r == told.rel[k].r
         IN  /\ SymbolAt(rel.info.sym) = told.rel[k].symbol
             /\ rel.offset = Narrow(elf, r.offset) /\ rel.info.type = r.type
             /\ rel.addend = IF Sec("rel").sh.type = "REL" THEN 0 ELSE r.addend
             /\ CalcValue(elf, Sec("rel"), k - 1)
                  = told.rel[k].symbol.value + rel.addend - (IF r.type = 2 THEN rel.offset ELSE 0)
    /\ \A i \in SymbolIndexes :
         i < Sec("symtab").sh.info => IsLocal(elf, Sec("symtab"), i)

=============================================================================
