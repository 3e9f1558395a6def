----------------------------- MODULE MCProvide -----------------------------
(* The environments in which TLC looks at the provide hand-over.           *)
EXTENDS Provide

CONSTANTS k1, a1, a2

\* Nothing is stopped, the app and restarts offer the key again, the node reads
\* every Offline spell.
Plain == [callers |-> {a1}, keys |-> {k1}, stoppable |-> {}, droppable |-> {},
          reoffer |-> TRUE, retries |-> FALSE, spells |-> "long"]

\* Leftovers of earlier runs; a goOnline that fails late and is retried.
Leftovers == [Plain EXCEPT !.droppable = {k1}, !.spells = "endless"]
Retried == [Plain EXCEPT !.retries = TRUE, !.spells = "endless"]

\* Two goroutines of the app hand the key over and stop it, in a first run whose
\* Offline spells may be too brief for the node to read; one stops what earlier
\* runs marked and filed.
Stopping == [Plain EXCEPT !.callers = {a1, a2}, !.stoppable = {k1},
                          !.reoffer = FALSE, !.spells = "brief"]
StoppingOld == [Plain EXCEPT !.stoppable = {k1}, !.spells = "endless"]

Mix == {Plain, Leftovers, Retried, Stopping, StoppingOld}
=============================================================================
