----------------------------- MODULE MCMemsink -----------------------------
(* Memsink for TLC.                                                        *)
EXTENDS Memsink
=============================================================================
