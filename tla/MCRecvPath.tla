----------------------------- MODULE MCRecvPath -----------------------------
(* The receive path on a small instance. *)
EXTENDS RecvPath, TLC

RbdSymmetry == Permutations(Rbds)
=============================================================================
