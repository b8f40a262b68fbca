------------------------------ MODULE AxiBurst ------------------------------
(***************************************************************************)
(* Bursts and words: the address arithmetic the AXI ports of rocket-main   *)
(* and boom-main do, and the word memory (std::map<uint64_t, uint64_t>)    *)
(* behind them.                                                            *)
(*                                                                         *)
(* A request carries `bytes', the 2^size of the AXI size field: the code   *)
(* uses that field only as a shift distance (x >> size, x << size,         *)
(* 1 << size).  A byte mask is the set of the lanes whose bit is set.      *)
(***************************************************************************)
EXTENDS Naturals

CONSTANTS
  Reads,          \* the read requests the processor may issue
  Writes,         \* the write requests it may issue
  Data,           \* the 64-bit words it may write
  Images,         \* the memories an ELF file may be loaded to
  Wfi,            \* 0x1050007310500073, read where nothing is mapped
  None            \* the valid signal of the channel is low

Request == [id : Nat, addr : Nat, len : Nat, bytes : {1, 2, 4, 8}]

ASSUME RequestsAssumption == Reads \subseteq Request /\ Writes \subseteq Request

ASSUME ImagesAssumption ==
  \A image \in Images : /\ image = [w \in DOMAIN image |-> image[w]]
                        /\ DOMAIN image \subseteq Nat
                        /\ \A w \in DOMAIN image : image[w] \in Data

ASSUME NoneAssumption ==
  /\ None \notin Nat
  /\ None \notin Request
  /\ None \notin [req : Request, beat : Nat]

Lanes == 0 .. 7

(* ((addr >> size) + 1) << size *)
NextAddr(addr, bytes) == ((addr \div bytes) + 1) * bytes

(* ((1 << (1 << size)) - 1) << (addr % 8), cut to the 8 bits of the strobe *)
SizeLanes(addr, bytes) == { l \in Lanes : addr % 8 <= l /\ l < (addr % 8) + bytes }

(* memory[addr / 8 * 8] = data: the key is inserted if it is absent *)
MapWrite(m, addr, data) ==
  [w \in DOMAIN m \cup {addr \div 8} |-> IF w = addr \div 8 THEN data ELSE m[w]]

(* memory.find(addr / 8 * 8), with a default for an address that is not mapped *)
MapRead(m, addr, default) ==
  IF addr \div 8 \in DOMAIN m THEN m[addr \div 8] ELSE default

(* readFn of the memory port *)
ReadFn(m, addr) == MapRead(m, addr, Wfi)

(* The AXI rule for the byte address of beat k of an incrementing burst: the *)
(* first beat is at the request's address, later ones are size-aligned.      *)
BeatAddr(req, k) ==
  IF k = 0 THEN req.addr ELSE ((req.addr \div req.bytes) + k) * req.bytes

=============================================================================
