------------------------------ MODULE MCMemMng ------------------------------
(* Four blocks and nine frames: the memory is written round several times,  *)
(* with frames of every size, from one block to the whole memory.           *)
EXTENDS MemMng
=============================================================================
