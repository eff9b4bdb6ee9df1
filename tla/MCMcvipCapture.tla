--------------------------- MODULE MCMcvipCapture ---------------------------
(* Two channels with three buffers each: one in use by the demultiplexer,   *)
(* one in flight and one spare, so that every queue can be empty while the  *)
(* other side still holds a buffer.                                         *)
EXTENDS McvipCapture
=============================================================================
