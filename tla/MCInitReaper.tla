----------------------------- MODULE MCInitReaper -----------------------------
(* Four processes: a shell, a service, and descendants of both, in any roles. *)
EXTENDS InitReaper
=============================================================================
