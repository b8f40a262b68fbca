----------------------------- MODULE MCAxiPort -----------------------------
(* Small instances of AxiPort for TLC. *)
EXTENDS AxiPort, TLC

CONSTANTS d0, d1

Req(id, addr, len, bytes) == [id |-> id, addr |-> addr, len |-> len, bytes |-> bytes]

\* Word 1 is loaded, word 2 is not mapped until a write reaches it.
MCImages == { (1 :> d0) }
MCGarbage == { [id |-> 7, addr |-> 3, bytes |-> 2] }

\* Reads: a single word, and a narrow burst that starts off its size and runs
\* from the loaded word into one that is not mapped.
MCReads == { Req(0, 8, 0, 8), Req(1, 13, 1, 4) }

\* Writes with every way to raise the mask assertion and a full burst.
MCWrites == { Req(3, 8, 1, 8), Req(4, 12, 1, 8), Req(5, 16, 0, 4) }
MCStrobes == { Lanes, 0 .. 3 }

\* For the progress properties: full-word writes only, one request per channel,
\* whose two beats share a word.
LiveImages == { (1 :> d0) }
LiveReads == { Req(1, 13, 1, 4) }
LiveWrites == { Req(3, 8, 1, 8) }
LiveStrobes == { Lanes }
=============================================================================
