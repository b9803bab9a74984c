------------------------------ MODULE MCQueue ------------------------------
(* UsQueue for TLC: two putters and two getters on a queue of two places,  *)
(* and the mutated forms of its definitions.                               *)
EXTENDS UsQueue
=============================================================================
