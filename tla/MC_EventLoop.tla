---------------------------- MODULE MC_EventLoop ----------------------------
(* Instances of the event loop for TLC: the request structures are          *)
(* interchangeable, so safety runs use symmetry on them.                    *)
EXTENDS EventLoop, TLC

SymReq == Permutations(Req)
=============================================================================
