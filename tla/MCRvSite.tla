------------------------------ MODULE MCRvSite ------------------------------
(* A small instance of RvSite: two fiches, hours of one visit each. *)
EXTENDS RvSite
=============================================================================
