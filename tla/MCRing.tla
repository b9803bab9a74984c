------------------------------- MODULE MCRing -------------------------------
(* UsRing for TLC: one producer and two consumers share three slots.       *)
EXTENDS UsRing
=============================================================================
