---------------------------- MODULE MCTunSession ----------------------------
(* The datapath over two launches, and over three.                         *)
EXTENDS TunSession

\* A gateway that fails to start leaves a reflector alone.
BothPlanes == {{"gw", "relay"}}
=============================================================================
