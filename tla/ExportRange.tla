----------------------------- MODULE ExportRange -----------------------------
(***************************************************************************)
(* What the tool promises its user: it is asked for a range of heights and *)
(* deals with them from the lowest up, one file each, never touching a     *)
(* file again, until it has dealt with all of them or gives up; what it    *)
(* reports at the end tells which, and it does come to an end.             *)
(***************************************************************************)
EXTENDS Integers, FiniteSets

VARIABLES range,      \* the heights asked for
          written,    \* written[h] is what the file of height h holds
          outcome     \* "running", "complete" or "failed"

vars == <<range, written, outcome>>

Init ==
  /\ range \in SUBSET Nat
  /\ IsFiniteSet(range)
  /\ \A g, h \in range : g..h \subseteq range
  /\ DOMAIN written = {}
  /\ outcome = "running"

Export(h) ==
  /\ outcome = "running"
  /\ h \in range \ DOMAIN written
  /\ \A g \in range \ DOMAIN written : h <= g
  /\ DOMAIN written' = DOMAIN written \cup {h}
  /\ \A g \in DOMAIN written : written'[g] = written[g]
  /\ UNCHANGED <<range, outcome>>

Complete ==
  /\ outcome = "running"
  /\ DOMAIN written = range
  /\ outcome' = "complete"
  /\ UNCHANGED <<range, written>>

Fail ==
  /\ outcome = "running"
  /\ outcome' = "failed"
  /\ UNCHANGED <<range, written>>

Next == (\E h \in range : Export(h)) \/ Complete \/ Fail

Safety == Init /\ [][Next]_vars
Ends == <>(outcome # "running")
Spec == Safety /\ Ends
=============================================================================
