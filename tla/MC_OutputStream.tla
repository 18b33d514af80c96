--------------------------- MODULE MC_OutputStream ---------------------------
(* A connection for TLC: a buffer of four bytes, headers of two, a socket    *)
(* that holds two, files of one range or of two.                             *)
EXTENDS OutputStream

MCPartLists == {<<1>>, <<4>>, <<1, 2>>}
=============================================================================
