---- MODULE MC_MmapCache ----
(* Collisions in a table of four: a1 and a2 are one file before and after it grew,
   b hashes to the same slot, c to the next, d to the last one (so that probes wrap). *)
EXTENDS MmapCache, TLC

CONSTANTS r1, r2, r3, r4, a1, a2, b, c, d

InoValues == (a1 :> 1) @@ (a2 :> 1) @@ (b :> 5) @@ (c :> 2) @@ (d :> 3)

SymReq == Permutations(Req)
====
