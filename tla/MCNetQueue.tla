---------------------------- MODULE MCNetQueue -----------------------------
(* The network queue, bounded for TLC.                                     *)
EXTENDS NetQueue
=============================================================================
