-------------------------- MODULE MCLinkMaintainer --------------------------
(* The link to one friend, bounded for TLC.                                *)
EXTENDS LinkMaintainer
=============================================================================
