----------------------------- MODULE MCJobControl -----------------------------
(* Three lines with a job each: one may be stopped for good while another    *)
(* runs and a third has ended.                                               *)
EXTENDS JobControl
=============================================================================
