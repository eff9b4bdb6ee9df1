----------------------------- MODULE MCGopStream ----------------------------
(* Two readers on a stream of five frames: the frame memory is written round *)
(* at least once and the cache is too small for every GOP.                  *)
EXTENDS GopStream
Symmetry == Permutations(Readers)
=============================================================================
