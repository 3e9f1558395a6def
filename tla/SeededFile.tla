----------------------------- MODULE SeededFile -----------------------------
(***************************************************************************)
(* What a fetch promises about one file and its CID: whoever holds a pin   *)
(* of the CID once held every leaf behind it.  The file lands whole        *)
(* before anything is pinned; the pin is taken on a whole file only; and   *)
(* the references go before the pin does, so that a pin without its file   *)
(* is a pin that was backed once.                                          *)
(***************************************************************************)
VARIABLE state \* "absent": neither the whole file nor a pin; "whole": the
               \* file, or a block for each of its leaves, without a pin;
               \* "seeded": the pin and every leaf to read; "broken": a pin
               \* that lost some of them

Init == state \in {"absent", "whole", "seeded", "broken"}

Land == state = "absent" /\ state' = "whole"
Seed == state \in {"whole", "broken"} /\ state' = "seeded"
Lose == \/ state = "whole" /\ state' = "absent"
        \/ state = "seeded" /\ state' = "broken"
Unpin == state = "broken" /\ state' \in {"absent", "whole"}

Next == Land \/ Seed \/ Lose \/ Unpin

Spec == Init /\ [][Next]_state
=============================================================================
