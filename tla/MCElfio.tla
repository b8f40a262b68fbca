------------------------------ MODULE MCElfio ------------------------------
(***************************************************************************)
(* Small programs for the run of Elfio: one without tables, and one for    *)
(* each group of tables, in both classes and encodings.                    *)
(***************************************************************************)
EXTENDS ElfioTables

Chars(s) == [n \in DOMAIN s |-> Byte(s[n])]

MCSizeOf ==
  ("64" :> [Ehdr |-> 3, Shdr |-> 2, Phdr |-> 2, Sym |-> 3, Rel |-> 2, Rela |-> 3, Dyn |-> 2,
            Verneed |-> 2, Vernaux |-> 2])
  @@ ("32" :> [Ehdr |-> 2, Shdr |-> 1, Phdr |-> 1, Sym |-> 2, Rel |-> 1, Rela |-> 2, Dyn |-> 1,
            Verneed |-> 2, Vernaux |-> 2])

T(name, type, link) == [name |-> name, type |-> type, link |-> link]
Str == T("strtab", "STRTAB", "none")
Symbols(reloc) == << Str, T("symtab", "SYMTAB", "strtab"), T("rel", reloc, "symtab") >>
Dynamic == << Str, T("dynamic", "DYNAMIC", "strtab"), T("verneed", "VERNEED", "strtab") >>
MCPrograms ==
  { [class |-> p[1], encoding |-> p[2], tables |-> p[3]] : p \in
      { << "64", "LSB", << >> >>,
        << "64", "LSB", Symbols("RELA") >>, << "32", "MSB", Symbols("REL") >>,
        << "64", "MSB", Dynamic >>, << "32", "LSB", Dynamic >>,
        << "64", "LSB", << T("note", "NOTE", "none"), T("array", "INIT_ARRAY", "none") >> >>,
        << "32", "MSB", << T("note", "NOTE", "none"), T("array", "INIT_ARRAY", "none") >> >>,
        << "32", "LSB", << T("versym", "VERSYM", "none"), T("modinfo", "PROGBITS", "none") >> >> } }

S(name, type, flags, align, addr, size, data) ==
  [name |-> Chars(name), type |-> type, flags |-> flags, align |-> align, addr |-> addr,
   size |-> size, data |-> Chars(data)]
MCSectionChoices ==
  { S(<< 3 >>, "PROGBITS", {"ALLOC"}, 4, 0, 0, << 5, 6, 7 >>),
    S(<< 3 >>, "PROGBITS", {"ALLOC"}, 1, 32, 0, << 5, 6, 7 >>),
    S(<< 3 >>, "PROGBITS", {"ALLOC"}, 4, 40, 0, << 5, 6, 7 >>),
    S(<< 4 >>, "NOBITS", {"ALLOC"}, 4, 0, 3, << >>),
    S(<< 8 >>, "PROGBITS", {}, 1, 0, 0, << 9 >>) }
MCSegmentChoices == { [type |-> "LOAD", vaddr |-> 32, align |-> 8], [type |-> "TLS", vaddr |-> 40, align |-> 4] }
MCShstrtab == Chars(<< 1, 2 >>)

Sym(name, value, bind) == [name |-> Chars(name), value |-> value, size |-> 2, bind |-> bind,
                           type |-> "FUNC", other |-> 0, shndx |-> 1]
MCEntryChoices ==
  [symtab |-> { Sym(<< 65 >>, 8, "GLOBAL"), Sym(<< 65, 66 >>, 70000, "LOCAL"), Sym(<< 66 >>, 9, "LOCAL") },
   rel |-> { [offset |-> 4, type |-> 2, addend |-> 2] },
   dynamic |-> { [tag |-> "NEEDED", val |-> 0, str |-> Chars(<< 66 >>)],
                 [tag |-> "HASH", val |-> 70000, str |-> << >>],
                 [tag |-> "NULL", val |-> 3, str |-> << >>] },
   verneed |-> { << [version |-> 1, file |-> 1, hash |-> 7, dep |-> 2],
                    [version |-> 2, file |-> 2, hash |-> 8, dep |-> 1] >> },
   note |-> { [name |-> Chars(<< 66 >>), desc |-> Chars(<< 1, 2, 3 >>), type |-> 1],
              [name |-> Chars(<< 66, 67 >>), desc |-> << >>, type |-> 2] },
   array |-> { 258 },
   versym |-> { 1, 258 },
   modinfo |-> { << Chars(<< 66 >>), Chars(<< 67, 61 >>) >>, << Chars(<< 67 >>), << >> >> } ]
=============================================================================
