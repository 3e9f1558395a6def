--------------------------- MODULE MCFetchWindow ---------------------------
(* The want tokens and two windows, bounded for TLC.                       *)
EXTENDS FetchWindow
=============================================================================
