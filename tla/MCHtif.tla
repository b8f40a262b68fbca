------------------------------- MODULE MCHtif -------------------------------
(* A small instance of Htif for TLC: an area of two words of two bytes. *)
EXTENDS Htif

\* A string that ends on a word boundary, one that does not, and one too long.
MCStrings == { << "s", "a" >>, << "s" >>, << "s", "a", "s", "a", "s" >> }
MCCodes == -2 .. 1
=============================================================================
