----------------------------- MODULE MCFileMng -----------------------------
(* Two threads of one process; settings of three parts: the full buffer, what *)
(* is written past it, and what fclose writes.                                *)
EXTENDS FileMng

MCThreads == {"ui1", "ui2"}
MCProc == [t \in MCThreads |-> "ui"]
=============================================================================
