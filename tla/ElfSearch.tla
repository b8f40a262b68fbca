------------------------------ MODULE ElfSearch ------------------------------
(***************************************************************************)
(* The readers of the section accessors that search: a symbol by its name, *)
(* through a hash section if there is one, the notes and the strings of a  *)
(* section one after the other, and the needed versions along their links. *)
(***************************************************************************)
EXTENDS ElfTables

-----------------------------------------------------------------------------
(* Hash sections *)

\* The hash section linked to a symbol table; index 0 means there is none.
find_hash_section(elf, sec) ==
  LET found == { i \in 1 .. Len(elf.sections) :
                   /\ elf.sections[i].sh.link = sec.index
                   /\ elf.sections[i].sh.type \in HashTypes }
  IN  IF found = {} THEN 0 ELSE Min(found) - 1

\* hash_lookup: along the chain of a bucket, to the name, to STN_UNDEF or out of it.
RECURSIVE Chain(_, _, _, _, _)
Chain(elf, sec, hash, name, y) ==
  LET nbucket == WordAt(elf, hash, 0)
      nchain == WordAt(elf, hash, WordBytes)
  IN  IF SymbolPresent(elf, sec, y) /\ SymbolName(elf, sec, y) = name THEN y
      ELSE IF y = 0 \/ y >= nchain THEN -1
      ELSE Chain(elf, sec, hash, name, WordAt(elf, hash, (2 + nbucket + y) * WordBytes))

hash_lookup(elf, sec, hash, name) ==
  LET bucket == elf_hash(name) % WordAt(elf, hash, 0)
  IN  Chain(elf, sec, hash, name, WordAt(elf, hash, (2 + bucket) * WordBytes))

\* gnu_hash_lookup: the bloom filter, then the chain of hash values of a bucket,
\* the last of which is odd.
BloomSays(elf, hash, h) ==
  LET size == WordAt(elf, hash, 2 * WordBytes)
      shift == WordAt(elf, hash, 3 * WordBytes)
      bits == WordAt(elf, hash, (4 + ((h \div BloomBits) % size)) * WordBytes)
      has(b) == (bits \div (2 ^ b)) % 2 = 1
  IN  has(h % BloomBits) /\ has((h \div (2 ^ shift)) % BloomBits)

RECURSIVE GnuChain(_, _, _, _, _, _)
GnuChain(elf, sec, hash, name, chains, k) ==
  LET h == WordAt(elf, hash, (chains + k) * WordBytes)
      i == k + WordAt(elf, hash, WordBytes)
  IN  IF /\ h \div 2 = elf_gnu_hash(name) \div 2
         /\ SymbolPresent(elf, sec, i) /\ SymbolName(elf, sec, i) = name THEN i
      ELSE IF h % 2 = 1 THEN -1 ELSE GnuChain(elf, sec, hash, name, chains, k + 1)

gnu_hash_lookup(elf, sec, hash, name) ==
  LET h == elf_gnu_hash(name)
      nbuckets == WordAt(elf, hash, 0)
      symoffset == WordAt(elf, hash, WordBytes)
      buckets == 4 + WordAt(elf, hash, 2 * WordBytes)
      first == WordAt(elf, hash, (buckets + (h % nbuckets)) * WordBytes)
  IN  IF BloomSays(elf, hash, h) /\ first >= symoffset
      THEN GnuChain(elf, sec, hash, name, buckets + nbuckets, first - symoffset) ELSE -1

\* Mutant: a hash section that does not know the name is believed.
SymbolByHashOnly(elf, sec, name) ==
  LET n == find_hash_section(elf, sec)
      hash == SectionAt(elf, n)
  IN  IF n = 0 THEN FirstOf({ i \in PresentSymbols(elf, sec) : SymbolName(elf, sec, i) = name })
      ELSE IF hash.sh.type = "HASH" THEN hash_lookup(elf, sec, hash, name)
      ELSE gnu_hash_lookup(elf, sec, hash, name)

\* get_symbol by name: the hash section is asked first, then every symbol.
SymbolByName(elf, sec, name) ==
  LET n == find_hash_section(elf, sec)
      hash == SectionAt(elf, n)
      hashed == IF n = 0 THEN -1
                ELSE IF hash.sh.type = "HASH" THEN hash_lookup(elf, sec, hash, name)
                ELSE gnu_hash_lookup(elf, sec, hash, name)
  IN  IF hashed # -1 THEN hashed
      ELSE FirstOf({ i \in PresentSymbols(elf, sec) : SymbolName(elf, sec, i) = name })

-----------------------------------------------------------------------------
(* modinfo accessor *)

\* A string is cut at its first '='; one without is both field and value.
Attribute(info) ==
  LET at == { n \in DOMAIN info : info[n] = Equals }
      loc == Min(at)
  IN  IF at = {} THEN << info, info >>
      ELSE << SubSeq(info, 1, loc - 1), SubSeq(info, loc + 1, Len(info)) >>

\* process_section of modinfo: the strings between NULs.
RECURSIVE Attributes(_)
Attributes(data) ==
  LET nuls == { n \in DOMAIN data : data[n] = NUL }
      end == IF nuls = {} THEN Len(data) + 1 ELSE Min(nuls)
  IN  IF data = << >> THEN << >>
      ELSE (IF end = 1 THEN << >> ELSE << Attribute(SubSeq(data, 1, end - 1)) >>)
           \o Attributes(SubSeq(data, end + 1, Len(data)))

-----------------------------------------------------------------------------
(* note_section_accessor *)

\* process_section: where the notes start, up to the first that does not fit.
RECURSIVE NotePositions(_, _, _)
NotePositions(elf, data, current) ==
  LET word(k) == ToNumber(elf.hdr.encoding, Slice(data, current + k * WordBytes, WordBytes))
      size == Len(data)
      advance == 3 * WordBytes + Padded(word(0)) + Padded(word(1))
  IN  IF /\ current + 3 * WordBytes <= size
         /\ word(0) < size /\ word(1) < size /\ current + advance <= size
      THEN << current >> \o NotePositions(elf, data, current + advance) ELSE << >>

\* get_note at a position; a name has at least its NUL, and both must fit.
get_note(elf, data, pos) ==
  LET word(k) == ToNumber(elf.hdr.encoding, Slice(data, pos + k * WordBytes, WordBytes))
      room == Len(data) - pos
  IN  [ok |-> word(0) >= 1 /\ word(0) <= room /\ word(0) + word(1) <= room,
       type |-> word(2), name |-> Slice(data, pos + 3 * WordBytes, word(0) - 1),
       desc |-> Slice(data, pos + 3 * WordBytes + Padded(word(0)), word(1))]

-----------------------------------------------------------------------------
(* versym_r_section_accessor *)

\* The number of entries, from the entry DT_VERNEEDNUM of the section ".dynamic".
NeedCount(elf, dynamic) ==
  LET found == { i \in 0 .. (CountDynamic(elf, dynamic, 0) - 1) :
                   get_dynamic(elf, dynamic, i).tag = "VERNEEDNUM" }
  IN  IF found = {} THEN 0 ELSE get_dynamic(elf, dynamic, Min(found)).val

\* This accessor has no convertor: a field of n bytes as the host reads it.
Raw(elf, n, value) == ToNumber(HostEncoding, FromNumber(elf.hdr.encoding, n, value))

\* What is read where a link leads out of the section, or into a structure's middle.
Outside == [version |-> "outside", file |-> "outside", hash |-> "outside", dep |-> "outside"]

\* The position of the structure that a link leads to, or -1.
Follow(elf, sec, pos, link) ==
  LET to == pos + Raw(elf, WordBytes, link)
  IN  IF to < Len(sec.data) /\ sec.data[to + 1].part = 1 THEN to ELSE -1

\* get_entry: the need with a number, along vn_next, and its first auxiliary entry.
NeedAt(elf, sec, no) ==
  LET RecAt(pos) == sec.data[pos + 1].rec
      at[k \in 0 .. no] == IF k = 0 THEN 0
                           ELSE IF at[k - 1] = -1 THEN -1
                           ELSE Follow(elf, sec, at[k - 1], RecAt(at[k - 1]).next)
      aux == IF at[no] = -1 THEN -1 ELSE Follow(elf, sec, at[no], RecAt(at[no]).aux)
  IN  IF aux = -1 THEN Outside
      ELSE [version |-> Raw(elf, HalfBytes, RecAt(at[no]).version),
            file |-> Raw(elf, WordBytes, RecAt(at[no]).file),
            hash |-> Raw(elf, WordBytes, RecAt(aux).hash),
            dep |-> Raw(elf, WordBytes, RecAt(aux).name)]

=============================================================================
