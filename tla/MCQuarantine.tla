---------------------------- MODULE MCQuarantine ----------------------------
(* The quarantine, bounded for TLC: the client wants one block; a peer may *)
(* also deliver another, which an earlier fetch had asked for.             *)
EXTENDS Quarantine

CONSTANTS wanted, other

Blocks == {wanted, other}

Say(b, h, d, w) == [blocks |-> b, haves |-> h, dhs |-> d, wants |-> w]

Sayings == {Say({wanted}, {}, {}, FALSE), Say({}, {wanted}, {}, TRUE),
            Say({}, {}, {wanted}, FALSE), Say({other}, {wanted}, {}, FALSE)}

\* A want and a cancel.
Call(k) == [kind |-> k, cid |-> wanted, full |-> FALSE]
Calls == {Call("block"), Call("cancel")}
=============================================================================
