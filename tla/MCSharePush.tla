---------------------------- MODULE MCSharePush -----------------------------
(* The library pushes, bounded for TLC.                                    *)
EXTENDS SharePush
=============================================================================
