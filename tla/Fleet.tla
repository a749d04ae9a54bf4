--------------------------------- MODULE Fleet ---------------------------------
(***************************************************************************)
(* The bulk actions of the devices page.  Checked devices get one request  *)
(* each, all at once; the bar shows what became of them.  The bar is there *)
(* only while something is checked and listed: it may go in the middle of  *)
(* a run, and the run goes on without it.                                  *)
(***************************************************************************)
EXTENDS Naturals, FiniteSets

CONSTANTS
    Dev,      \* ids of devices
    MaxRuns,  \* runs an operator starts
    Action    \* the bulk actions considered, of AllActions

AllActions == {"assign", "firmware", "push", "delete"}

ASSUME FleetAssumption ==
    /\ Action \subseteq AllActions
    /\ MaxRuns \in Nat

Run == 1 .. MaxRuns

VARIABLES
    devices,    \* the devices there are
    listed,     \* the devices on the page, none before they were fetched
    refresh,    \* the fetch of the list under way
    checked,    \* checkedIds
    bar,        \* the bulk action bar, when it is there
    runs,       \* runs[n]: the run that was started n-th
    unsure      \* the last fetch failed

fleetVars == <<devices, listed, refresh, checked, bar, runs, unsure>>

-----------------------------------------------------------------------------
(* asked, ok, failed: the devices whose request is out, succeeded, failed. *)
RunState == [action : Action \cup {"none"}, asked : SUBSET Dev, ok : SUBSET Dev, failed : SUBSET Dev]

NoRun == [action |-> "none", asked |-> {}, ok |-> {}, failed |-> {}]

(* run: the run the bar has started, or 0; ops: what it shows of a device. *)
Ops == UNION {[S -> {"pending", "ok", "error"}] : S \in SUBSET Dev}

NoOps == [d \in {} |-> "pending"]

NoBar == [there |-> FALSE, run |-> 0, ops |-> NoOps]

NewBar == [there |-> TRUE, run |-> 0, ops |-> NoOps]

AtRest == [state |-> "idle", list |-> {}]

Awaited == [state |-> "asked", list |-> {}]

FleetTypeOK ==
    /\ devices \subseteq Dev /\ listed \subseteq Dev
    /\ refresh \in [state : {"idle", "asked", "read"}, list : SUBSET Dev]
    /\ checked \subseteq Dev
    /\ bar \in [there : BOOLEAN, run : Run \cup {0}, ops : Ops]
    /\ runs \in [Run -> RunState]
    /\ unsure \in BOOLEAN

FleetInit ==
    /\ devices \in SUBSET Dev
    /\ listed = {}
    /\ refresh = Awaited
    /\ checked = {}
    /\ bar = NoBar
    /\ runs = [n \in Run |-> NoRun]
    /\ unsure = FALSE

-----------------------------------------------------------------------------
(* The page renders the bar while a device is listed and one is checked. *)
Rendered(b, list, boxes) ==
    IF list = {} \/ boxes = {} THEN NoBar ELSE IF b.there THEN b ELSE NewBar

Check(boxes) ==
    /\ checked' = boxes
    /\ bar' = Rendered(bar, listed, boxes)

(* toggleCheck *)
Toggle(d) ==
    /\ d \in listed
    /\ Check(IF d \in checked THEN checked \ {d} ELSE checked \cup {d})
    /\ UNCHANGED <<devices, listed, refresh, runs, unsure>>

(* toggleAll compares sizes. *)
ToggleAll ==
    /\ listed # {}
    /\ Check(IF Cardinality(checked) = Cardinality(listed) THEN {} ELSE listed)
    /\ UNCHANGED <<devices, listed, refresh, runs, unsure>>

(* The cross, which is there until a run is started. *)
Clear ==
    /\ bar.there /\ bar.run = 0
    /\ Check({})
    /\ UNCHANGED <<devices, listed, refresh, runs, unsure>>

Dismiss ==
    /\ bar.there /\ bar.run # 0
    /\ \A d \in DOMAIN bar.ops : bar.ops[d] # "pending"
    /\ Check({})
    /\ UNCHANGED <<devices, listed, refresh, runs, unsure>>

-----------------------------------------------------------------------------
(* The list *)

(* On focus, every 30 seconds, Refresh. *)
AskList ==
    /\ refresh = AtRest
    /\ refresh' = Awaited /\ unsure' = FALSE
    /\ UNCHANGED <<devices, listed, checked, bar, runs>>

ReadList ==
    /\ refresh = Awaited
    /\ refresh' = [state |-> "read", list |-> devices]
    /\ UNCHANGED <<devices, listed, checked, bar, runs, unsure>>

(* Boxes of devices that are listed no longer stay checked. *)
ListArrives ==
    /\ refresh.state = "read"
    /\ refresh' = AtRest
    /\ listed' = refresh.list
    /\ bar' = Rendered(bar, refresh.list, checked)
    /\ UNCHANGED <<devices, checked, runs, unsure>>

ListFails ==
    /\ refresh # AtRest
    /\ refresh' = AtRest /\ unsure' = TRUE
    /\ UNCHANGED <<devices, listed, checked, bar, runs>>

OthersDelete(d) ==
    /\ d \in devices
    /\ devices' = devices \ {d}
    /\ UNCHANGED <<listed, refresh, checked, bar, runs, unsure>>

-----------------------------------------------------------------------------
(* runBulk *)

Unused == {n \in Run : runs[n] = NoRun}

(* The buttons are there until a run is shown. *)
Ready == bar.there /\ bar.run = 0

Chosen == listed \cap checked

(* Mutant: the end of a run fetches nothing. *)
SettledSilently(b, action, left) ==
    /\ IF left = {} /\ action = "delete"
       THEN checked' = {} /\ bar' = NoBar
       ELSE bar' = b /\ UNCHANGED checked
    /\ UNCHANGED <<refresh, unsure>>

(* When no request is left the list is fetched again; a deletion unchecks  *)
(* all boxes, and so takes the bar away, whatever it shows by then.        *)
Settled(b, action, left) ==
    /\ IF left = {} /\ action = "delete"
       THEN checked' = {} /\ bar' = NoBar
       ELSE bar' = b /\ UNCHANGED checked
    /\ IF left = {}
       THEN refresh' = Awaited /\ unsure' = FALSE
       ELSE UNCHANGED <<refresh, unsure>>

(* A profile must be selected to assign it, a deletion confirmed. *)
StartRun(action) ==
    /\ Ready
    /\ \E n \in Unused :
        /\ \A m \in Unused : n <= m
        /\ runs' = [runs EXCEPT ![n] = [action |-> action, asked |-> Chosen, ok |-> {}, failed |-> {}]]
        /\ Settled([bar EXCEPT !.run = n, !.ops = [d \in Chosen |-> "pending"]], action, Chosen)
    /\ UNCHANGED <<devices, listed>>

(* Mutant: the first operation is updated, not the one with the id. *)
UpdatedFirst(n, d, status) ==
    IF bar.there /\ bar.run = n
    THEN [bar EXCEPT !.ops = [@ EXCEPT ![CHOOSE e \in DOMAIN @ : TRUE] = status]]
    ELSE bar

(* Mutant: a status that the bar has no icon for. *)
UpdatedLoosely(n, d, status) ==
    IF bar.there /\ bar.run = n
    THEN [bar EXCEPT !.ops = [e \in DOMAIN @ |-> IF e = d THEN "done" ELSE @[e]]]
    ELSE bar

(* updateOp, which does nothing once the bar of the run has gone. *)
Updated(n, d, status) ==
    IF bar.there /\ bar.run = n
    THEN [bar EXCEPT !.ops = [e \in DOMAIN @ |-> IF e = d THEN status ELSE @[e]]]
    ELSE bar

(* A deletion of a device that is gone is a success. *)
Succeed(n, d) ==
    /\ d \in runs[n].asked
    /\ runs' = [runs EXCEPT ![n].asked = @ \ {d}, ![n].ok = @ \cup {d}]
    /\ devices' = IF runs[n].action = "delete" THEN devices \ {d} ELSE devices
    /\ Settled(Updated(n, d, "ok"), runs[n].action, runs[n].asked \ {d})
    /\ UNCHANGED listed

Fail(n, d) ==
    /\ d \in runs[n].asked
    /\ runs' = [runs EXCEPT ![n].asked = @ \ {d}, ![n].failed = @ \cup {d}]
    /\ Settled(Updated(n, d, "error"), runs[n].action, runs[n].asked \ {d})
    /\ UNCHANGED <<devices, listed>>

-----------------------------------------------------------------------------
FleetNext ==
    \/ ToggleAll \/ Clear \/ Dismiss
    \/ AskList \/ ReadList \/ ListArrives \/ ListFails
    \/ \E d \in Dev :
        \/ Toggle(d) \/ OthersDelete(d)
        \/ \E n \in Run : Succeed(n, d) \/ Fail(n, d)
    \/ \E action \in Action : StartRun(action)

FleetSpec == FleetInit /\ [][FleetNext]_fleetVars

-----------------------------------------------------------------------------
(* What the bar shows of its run is what became of each request of it, in  *)
(* whatever order the answers came, boxes were checked and other runs went *)
(* on (DevicesPage.tsx:913-933, 962-993).                                  *)
ResultsAreTrue ==
    bar.there /\ bar.run # 0 =>
        LET r == runs[bar.run] IN
        /\ DOMAIN bar.ops = r.asked \cup r.ok \cup r.failed
        /\ \A d \in DOMAIN bar.ops :
            bar.ops[d] = IF d \in r.asked THEN "pending" ELSE IF d \in r.ok THEN "ok" ELSE "error"

(* Once a run has ended and the list is at rest, no device that it deleted *)
(* is listed (DevicesPage.tsx:930-932, 1269).                              *)
DeletedLeaveList ==
    refresh = AtRest /\ ~unsure =>
        \A n \in Run :
            runs[n].action = "delete" /\ runs[n].asked = {}
                => runs[n].ok \cap listed = {}

==============================================================================
