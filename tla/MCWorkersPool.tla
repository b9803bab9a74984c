--------------------------- MODULE MCWorkersPool ---------------------------
(* WorkersPool for TLC: two workers, three distinct start times.           *)
EXTENDS WorkersPool
=============================================================================
