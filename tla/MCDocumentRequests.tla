------------------------- MODULE MCDocumentRequests -------------------------
(* DocumentRequests for TLC: two requests of one process, two generators.  *)
EXTENDS DocumentRequests
=============================================================================
