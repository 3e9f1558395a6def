---------------------------- MODULE MCFileFetch ----------------------------
(* The fetch of one file, bounded for TLC.                                 *)
EXTENDS FileFetch
=============================================================================
