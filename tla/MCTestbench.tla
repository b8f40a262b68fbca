----------------------------- MODULE MCTestbench -----------------------------
(***************************************************************************)
(* Small files and command lines for the run of Testbench.  A file is its  *)
(* header, its segment headers, the data of its segments, its section      *)
(* headers and what fills it up, in that order.                            *)
(***************************************************************************)
EXTENDS Testbench

MCSizeOf ==
  ("64" :> [Ehdr |-> 3, Shdr |-> 2, Phdr |-> 2]) @@ ("32" :> [Ehdr |-> 2, Shdr |-> 1, Phdr |-> 1])

\* filesz is what the header claims, bytes what the file has.
Segment(type, paddr, memsz, filesz, bytes) ==
  [type |-> type, paddr |-> paddr, memsz |-> memsz, filesz |-> filesz, bytes |-> bytes]

Image(class, segments, sections) ==
  LET size == SizeOf[class]
      data == size.Ehdr + Len(segments) * size.Phdr
      sizes(n) == MapThenSumSet(LAMBDA k : Len(segments[k].bytes), 1 .. n)
      shoff == data + sizes(Len(segments))
      hdr == [NewHeader(class, "LSB") EXCEPT !.phnum = Len(segments), !.phoff = size.Ehdr,
                !.shnum = sections, !.shoff = shoff, !.shstrndx = 0]
      phdr(n) == [ZeroPhdr EXCEPT !.type = segments[n].type, !.offset = data + sizes(n - 1),
                    !.paddr = segments[n].paddr, !.vaddr = segments[n].paddr + 64,
                    !.filesz = segments[n].filesz, !.memsz = segments[n].memsz]
      each(n, Of(_)) == FlattenSeq([k \in 1 .. n |-> Of(k)])
  IN  [segments |-> segments, invalid |-> FALSE,
       cells |-> Parts("Ehdr", hdr, size.Ehdr)
                 \o each(Len(segments), LAMBDA k : Parts("Phdr", phdr(k), size.Phdr))
                 \o each(Len(segments), LAMBDA k : [b \in DOMAIN segments[k].bytes |->
                                                      Byte(segments[k].bytes[b])])
                 \o each(sections, LAMBDA k : Parts("Shdr", ZeroShdr, size.Shdr))]

MCFiles ==
  ("prog" :> Image("64", << Segment("LOAD", 1, 4, 2, << 1, 2 >>), Segment("NOTE", 8, 2, 2, << 3, 3 >>),
                            Segment("LOAD", 2, 1, 2, << 3, 1 >>), Segment("LOAD", 20, 1, 1, << 1 >>),
                            Segment("LOAD", 6, 0, 1, << 2 >>) >>, 0))
  @@ ("sections" :> Image("32", << Segment("LOAD", 0, 2, 1, << 2 >>), Segment("LOAD", 4, 1, 0, << >>) >>, 2))
  @@ ("short" :> Image("64", << Segment("LOAD", 0, 2, 50, << 1 >>) >>, 0))
  @@ ("data" :> Image("32", << Segment("LOAD", 3, 3, 3, << 1, 2, 3 >>), Segment("LOAD", 2, 3, 1, << 2 >>) >>, 0))
  @@ ("none" :> Image("32", << >>, 0))
  @@ ("text" :> [segments |-> << >>, invalid |-> TRUE, cells |-> << Byte(1), Byte(2), Byte(3) >>])

MCCommandLines ==
  { << "prog" >>, << "--vtor", "sections" >>, << "--arcs", "--trace", "t.vcd", "none" >>,
    << "data", "--arcs" >>, << "--vtor", "text" >>, << "missing" >>, << "--arcs", "short" >>,
    << "--trace", "--trace", "prog" >>, << "prog", "--vtor", "--trace" >>, << >>,
    << "--arcs", "--vtor", "--trace", "--arcs", "none" >>, << "prog", "none" >>,
    << "--trace", "t.vcd", "--vtor", "sections", "--arcs" >> }

MCWord(n) == [k \in 0 .. 1 |-> (n \div (4 ^ k)) % 4]
MCFill == MCWord(13)
Pin(read, addr, data) == [read |-> read, write |-> IF addr = None THEN None
                                                   ELSE [addr |-> addr, data |-> MCWord(data)]]
MCMemPins == { NoBeats, Pin(3, None, 0), Pin(21, 21, 7), Pin(8, 16, 1) }
MCMmioPins == { NoBeats, Pin(18, None, 0), Pin(20, 3, 9), Pin(None, 16, 2), Pin(None, 17, 1),
                Pin(16, 16, 1) }
==============================================================================
