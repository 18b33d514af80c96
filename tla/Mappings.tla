------------------------------ MODULE Mappings ------------------------------
(***************************************************************************)
(* What init_get and free_request expect of mmap_cache.c: a request that   *)
(* was given a mapping keeps a mapping of its own file until it gives it   *)
(* back, and a file stays mapped exactly as long as some request has it.   *)
(* The cache may refuse; the request then sends the file another way.      *)
(***************************************************************************)
CONSTANTS Req, File, NoFile

VARIABLES
  has,      \* the file whose mapping each request uses, or NoFile
  mapped    \* the files mapped into the process

Init ==
  /\ has = [r \in Req |-> NoFile]
  /\ mapped = {}

Acquire(r, f) ==
  /\ has[r] = NoFile
  /\ has' = [has EXCEPT ![r] = f]
  /\ mapped' = mapped \cup {f}

Release(r) ==
  /\ has[r] # NoFile
  /\ has' = [has EXCEPT ![r] = NoFile]
  /\ mapped' = IF \E s \in Req \ {r} : has[s] = has[r]
               THEN mapped ELSE mapped \ {has[r]}

Next == \E r \in Req : Release(r) \/ \E f \in File : Acquire(r, f)

Spec == Init /\ [][Next]_<<has, mapped>>
=============================================================================
