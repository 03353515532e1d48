----------------------------- MODULE MCHandlers -----------------------------
(***************************************************************************)
(* Handlers for TLC: goroutines are interchangeable, and so are handlers   *)
(* with the same roles.                                                    *)
(***************************************************************************)
EXTENDS Handlers, TLC

AllRoles == [h \in Hs |-> Events]

Interchangeable == Permutations(Users) \cup Permutations(Hs)
=============================================================================
