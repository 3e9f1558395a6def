---- MODULE MCNodeLife ----
(* Two nodes, one after the other, and two failed attempts between them.     *)
EXTENDS NodeLife
====
