----------------------------- MODULE MCAlerting -----------------------------
(* Alerting with the constants of its configurations.  Devices do not      *)
(* interact, so a behaviour has one of them: one that answers its pings,   *)
(* with a profile and a firmware version, or a silent one, of which others *)
(* hear now and then.                                                      *)
EXTENDS Alerting

VARIABLE watched

MCVars == <<vars, watched>>

(* What changes of the device that is watched. *)
Watching ==
    /\ Live' \subseteq {watched}
    /\ IF watched \in Steady THEN ~\E d \in Dev : Seen(d)
       ELSE target' = target /\ \A d \in Dev : row'[d].profile = NULL /\ row'[d].firmware = NULL

MCInit ==
    /\ Init
    /\ watched \in Dev
    /\ watched \notin Steady => \A p \in Profile : target[p] = NULL

MCNext == Next /\ Watching /\ UNCHANGED watched

MCSpec == MCInit /\ [][MCNext]_MCVars /\ Fairness

=============================================================================
