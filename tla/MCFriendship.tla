---------------------------- MODULE MCFriendship ----------------------------
(* Model values of the friend handshake for TLC.                           *)
EXTENDS Friendship, TLC

Symmetry == Permutations(Nodes)
=============================================================================
