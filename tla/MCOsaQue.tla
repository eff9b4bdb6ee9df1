------------------------------ MODULE MCOsaQue ------------------------------
(* The OSA queue with three threads, any of which may put or get, on a ring *)
(* of two slots: both sides can sleep and the indices wrap.                 *)
EXTENDS OsaQue
=============================================================================
