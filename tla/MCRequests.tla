----------------------------- MODULE MCRequests -----------------------------
(* Requests on a small instance. *)
EXTENDS Requests

MCFilters == {{}, {"DIRECTED", "MULTICAST"}}

(* The environments of one run, each with the threads that meet in it. *)
MCEnvs ==
  {[may |-> {"power", "receive", "reset"}, buffers |-> 2],
   [may |-> {"power", "receive", "cancel"}, buffers |-> 2],
   [may |-> {"power", "receive", "link"}, buffers |-> 1],
   [may |-> {"media", "power", "link"}, buffers |-> 1],
   [may |-> {"power", "filter", "reset"}, buffers |-> 1],
   [may |-> {"data"}, buffers |-> 0]}
=============================================================================
