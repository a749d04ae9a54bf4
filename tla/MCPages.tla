------------------------------ MODULE MCPages ------------------------------
(* The pages of the dashboard, one of them at a time, and the constants for *)
(* model checking them with TLC.                                            *)
EXTENDS Records, Fleet, Drift, TLC

VARIABLE screen

Pages == {
    [name |-> "profiles", tables |-> {"customers", "profiles"}, forms |-> 1],
    [name |-> "templates", tables |-> {"templates", "profiles"}, forms |-> 1],
    [name |-> "templates", tables |-> {"templates"}, forms |-> 2],
    [name |-> "devices", tables |-> {"devices", "profiles"}, forms |-> 1],
    [name |-> "alerts", tables |-> {"alerts"}, forms |-> 0],
    [name |-> "settings", tables |-> {"settings"}, forms |-> 0]}

AnyPage == CHOOSE p \in Page : p.forms = 0

AnySlot == CHOOSE s \in Slot : TRUE

PagesInit ==
    /\ RecordsInit /\ FleetInit /\ DriftInit
    /\ \/ screen = "records" /\ devices = {} /\ name = AnySlot
       \/ screen = "fleet" /\ page = AnyPage /\ name = AnySlot
       \/ screen = "drift" /\ page = AnyPage /\ devices = {}

PagesNext ==
    /\ \/ screen = "records" /\ RecordsNext /\ UNCHANGED <<fleetVars, driftVars>>
       \/ screen = "fleet" /\ FleetNext /\ UNCHANGED <<recordsVars, driftVars>>
       \/ screen = "drift" /\ DriftNext /\ UNCHANGED <<recordsVars, fleetVars>>
    /\ UNCHANGED screen

(* The types of the screens that have no tables: the boxes, the bar and    *)
(* its runs (DevicesPage.tsx:893-1037), the modals and their pushes (83-   *)
(* 166).                                                                   *)
ScreensTypeOK == FleetTypeOK /\ DriftTypeOK

PagesSpec == PagesInit /\ [][PagesNext]_<<recordsVars, fleetVars, driftVars, screen>>

Symmetry == Permutations(Id) \cup Permutations(Dev)
=============================================================================
