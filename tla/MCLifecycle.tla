----------------------------- MODULE MCLifecycle -----------------------------
(* The adapter's life on a small instance. *)
EXTENDS Lifecycle
=============================================================================
