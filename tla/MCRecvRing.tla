----------------------------- MODULE MCRecvRing -----------------------------
(* The receive ring on a small instance. *)
EXTENDS RecvRing, TLC

RbdSymmetry == Permutations(Rbds)
=============================================================================
