------------------------------ MODULE MCUmalloc ------------------------------
(* A heap of a few units: morecore() asks for three at a time, requests take *)
(* one unit (malloc(0)), two, or more than morecore()'s minimum.             *)
EXTENDS UmallocInv
=============================================================================
