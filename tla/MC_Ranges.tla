---- MODULE MC_Ranges ----
(* The instance: 3-bit int, 4-bit unsigned int, 6-bit unsigned long. *)
EXTENDS RangeSyntax
====
