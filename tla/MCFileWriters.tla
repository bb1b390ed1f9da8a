--------------------------- MODULE MCFileWriters ---------------------------
(* Small instance of FileWriters: two session IDs and the empty one, a
   channel of two, three frames offered. *)
EXTENDS FileWriters
=============================================================================
