----------------------------- MODULE ElfioTables -----------------------------
(***************************************************************************)
(* What the program of Elfio reads from its tables, while it fills them    *)
(* and after a save and a load.                                            *)
(***************************************************************************)
EXTENDS Elfio, ElfSearch

ReadAll(n, Get(_)) == [k \in 1 .. n |-> Get(k - 1)]

\* The tables read as what was put in, but for what a 32-bit field cuts off.
KeptSymbol(s) == [s EXCEPT !.value = Narrow(elf, @), !.size = Narrow(elf, @)]
KeptDynamic(d) ==
  IF d.tag \in WithString THEN [tag |-> d.tag, str |-> d.str]
  ELSE [tag |-> d.tag, val |-> IF d.tag \in WithoutValue THEN 0 ELSE Narrow(elf, d.val)]
NotesOf(data) ==
  LET positions == NotePositions(elf, data, 0)
  IN  [k \in DOMAIN positions |-> get_note(elf, data, positions[k])]

\* An accessor shows all that was added and nothing else, in order except for
\* symbols, before and after a save and a load (add_entry, add_symbol, add_note,
\* add_attribute and their readers).  Of the dynamic entries it shows those up to
\* DT_NULL, and one that counted earlier never more than there are.  Of the needed
\* versions it does so only in a file of the host's order: versym_r reads them without
\* the convertor, and in any other file its first link leads out of the section.
TablesKeepEntries ==
  /\ Has("symtab") =>
       ToBag([i \in SymbolIndexes |-> SymbolAt(i)])
         = ToBag([k \in DOMAIN told.symtab |-> KeptSymbol(told.symtab[k])])
  /\ Has("dynamic") =>
       LET n == CountDynamic(elf, Sec("dynamic"), 0)
           nulls == { k \in DOMAIN told.dynamic : told.dynamic[k].tag = "NULL" }
       IN  /\ n = Min({Len(told.dynamic)} \cup nulls) /\ shown <= n
           /\ ReadAll(n, LAMBDA i : get_dynamic(elf, Sec("dynamic"), i))
                = [k \in 1 .. n |-> KeptDynamic(told.dynamic[k])]
  /\ Has("verneed") =>
       ReadAll(NeedCount(elf, Sec("dynamic")), LAMBDA no : NeedAt(elf, Sec("verneed"), no))
         = IF elf.hdr.encoding = HostEncoding THEN told.verneed
           ELSE [k \in DOMAIN told.verneed |-> Outside]
  /\ Has("note") =>
       LET notes == [k \in DOMAIN told.note |-> [ok |-> TRUE] @@ told.note[k]]
       IN  /\ NotesOf(Sec("note").data) = notes
           /\ pc = "loaded" /\ built.segments[1].sections # << >> =>
                NotesOf(elf.segments[1].data) = notes
  /\ Has("array") =>
       ReadAll(CountNumbers(Sec("array"), WordBytes),
               LAMBDA i : get_address(elf, Sec("array"), WordBytes, i)) = told.array
  /\ Has("versym") =>
       ReadAll(CountNumbers(Sec("versym"), HalfBytes), LAMBDA i : get_version(Sec("versym"), i))
         = told.versym
  /\ Has("modinfo") => Attributes(Sec("modinfo").data) = told.modinfo

\* A symbol is found by its name exactly if there is one, also through a hash section
\* that was made before symbols were added or arranged; likewise by its value
\* (get_symbol, hash_lookup, gnu_hash_lookup).
SymbolsAreFound ==
  Has("symtab") =>
    \A s \in EntryChoices.symtab :
      LET i == SymbolByName(elf, Sec("symtab"), s.name)
          j == SymbolByValue(elf, Sec("symtab"), s.value)
      IN  /\ IF \E k \in DOMAIN told.symtab : told.symtab[k].name = s.name
             THEN i # -1 /\ SymbolAt(i).name = s.name ELSE i = -1
          /\ IF \E k \in DOMAIN told.symtab : KeptSymbol(told.symtab[k]).value = s.value
             THEN j # -1 /\ SymbolAt(j).value = s.value ELSE j = -1

=============================================================================
