---- MODULE MCGatewayRace ----
(* The two modes of a node with a DHT and the one without; a file of six     *)
(* leaves for the spans of a resume.                                         *)
EXTENDS GatewayRace

Calls == {"root", "offline", "resume"}
====
