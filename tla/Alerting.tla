------------------------------ MODULE Alerting ------------------------------
(***************************************************************************)
(* The alert poller of the API.  Once an interval it reads all devices,    *)
(* starts pings for those not heard of lately, reads the target firmware   *)
(* of all profiles, and then raises and resolves alerts from these copies, *)
(* one statement after the other, while devices change, are deleted, and   *)
(* are heard of, and while operators resolve alerts by hand.               *)
(*                                                                         *)
(* Time is counted in ticks of the poller: seen is the number of ticks     *)
(* since a device was last heard of.  What happens between two ticks       *)
(* happens after the first one.                                            *)
(***************************************************************************)
EXTENDS Naturals

CONSTANTS
    Dev,        \* the ids available for rows of devices
    Steady,     \* the devices whose address is known and that answer pings
    Profile,    \* the ids of the rows of device_profiles
    Version,    \* firmware versions
    Limit,      \* ticks in the four hours after which a device is offline
    MaxMissed,  \* failures in a row to take note of a device that answers
    Changes,    \* the changes of devices and alerts considered, of AllChanges
    NULL

AllChanges == {"register", "delete", "status", "profile", "firmware", "seen",
               "resolve", "errors"}

ASSUME SetAssumption ==
    /\ Steady \subseteq Dev
    /\ Changes \subseteq AllChanges
    /\ NULL \notin Profile \cup Version \cup Nat

(* A tick a minute: 240 ticks in four hours.  An outage of the database    *)
(* that lasts as long makes every device look offline.                     *)
ASSUME TimeAssumption ==
    /\ Limit \in Nat
    /\ MaxMissed \in Nat
    /\ MaxMissed + 2 <= Limit

VARIABLES
    row,     \* row[d]: the columns of devices the poller reads
    target,  \* target[p]: device_profiles.firmware_version
    alert,   \* alert[d][t]: the row of alerts for device d and type t
    due,     \* the ticker has fired and its tick is not taken yet
    missed,  \* missed[d]: failures to take note of d since it was last heard of
    pc,      \* "idle", or "profiles": reading the profiles comes next
    snap,    \* the devices the running tick has read
    want,    \* the targets the running tick has read
    todo,    \* the evaluations the running tick has still to do
    pings    \* the devices being pinged

vars == <<row, target, alert, due, missed, pc, snap, want, todo, pings>>

poller == <<due, pc, snap, want, todo, pings>>

-----------------------------------------------------------------------------
Opt(S) == S \cup {NULL}

(* The three alert types and the states of a row of alerts. *)
Type == {"failed", "firmware_drift", "offline"}

AlertState == {"none", "open", "resolved"}

(* A device older than Limit stays so: ages are counted no further. *)
Age == 0 .. Limit + 1

(* The statuses that matter here; "other" stands for the rest. *)
Row == [status : {"provisioned", "failed", "other"}, profile : Opt(Profile),
        firmware : Opt(Version), seen : Opt(Age)]

NoRow == [status |-> "absent", profile |-> NULL, firmware |-> NULL,
          seen |-> NULL]

NewRow == [status |-> "other", profile |-> NULL, firmware |-> NULL,
           seen |-> NULL]

Live == {d \in Dev : row[d] # NoRow}

TypeOK ==
    /\ row \in [Dev -> Row \cup {NoRow}]
    /\ target \in [Profile -> Opt(Version)]
    /\ alert \in [Dev -> [Type -> AlertState]]
    /\ due \in BOOLEAN
    /\ missed \in [Dev -> 0 .. MaxMissed]
    /\ pc \in {"idle", "profiles"}
    /\ snap \in [Dev -> Row \cup {NoRow}]
    /\ want \in [Profile -> Opt(Version)]
    /\ todo \subseteq Dev \X Type
    /\ pings \subseteq Dev

Init ==
    /\ row = [d \in Dev |-> NoRow]
    /\ target \in [Profile -> Opt(Version)]
    /\ alert = [d \in Dev |-> [t \in Type |-> "none"]]
    /\ due = FALSE
    /\ missed = [d \in Dev |-> 0]
    /\ pc = "idle"
    /\ snap = [d \in Dev |-> NoRow]
    /\ want = [p \in Profile |-> NULL]
    /\ todo = {}
    /\ pings = {}

-----------------------------------------------------------------------------
(* What the poller makes of the copy r of a device. *)

(* Not seen for four hours. *)
Overdue(r) == r.seen # NULL /\ r.seen > Limit

(* Seen within the interval: the ping is skipped. *)
Recent(r) == r.seen # NULL /\ r.seen <= 1

Comparable(r) == r.profile # NULL /\ r.firmware # NULL

(* The alerts whose condition holds, and those whose condition is seen not *)
(* to hold; when neither is the case the alert is left alone.              *)
Raises(r, w, t) ==
    \/ t = "failed" /\ r.status = "failed"
    \/ /\ t = "firmware_drift" /\ Comparable(r)
       /\ w[r.profile] \notin {NULL, r.firmware}
    \/ t = "offline" /\ r.status = "provisioned" /\ Overdue(r)

(* Mutant: a drift alert is resolved only when the versions agree. *)
ClearsWhenEqual(r, w, t) ==
    \/ t = "failed" /\ r.status # "failed"
    \/ t = "firmware_drift" /\ Comparable(r) /\ w[r.profile] = r.firmware
    \/ t = "offline" /\ r.status = "provisioned" /\ r.seen # NULL /\ ~Overdue(r)

Clears(r, w, t) ==
    \/ t = "failed" /\ r.status # "failed"
    \/ t = "firmware_drift" /\ (Comparable(r) => w[r.profile] = r.firmware)
    \/ t = "offline" /\ r.status = "provisioned" /\ r.seen # NULL /\ ~Overdue(r)

(* Mutant: alerts does not refer to devices. *)
RaisedAnyway(d, t) == [alert EXCEPT ![d][t] = "open"]

(* Mutant: ON CONFLICT DO NOTHING. *)
RaisedOnce(d, t) ==
    IF d \in Live /\ alert[d][t] = "none" THEN [alert EXCEPT ![d][t] = "open"]
    ELSE alert

(* UpsertAlert: the foreign key refuses an alert of a device that is gone. *)
Raised(d, t) == IF d \in Live THEN [alert EXCEPT ![d][t] = "open"] ELSE alert

(* ResolveAlertByTypeAndDevice *)
Cleared(d, t) ==
    IF alert[d][t] = "open" THEN [alert EXCEPT ![d][t] = "resolved"] ELSE alert

Verdict(d, t) ==
    IF Raises(snap[d], want, t) THEN Raised(d, t)
    ELSE IF Clears(snap[d], want, t) THEN Cleared(d, t)
    ELSE alert

-----------------------------------------------------------------------------
(* The poller. *)

Older(r) ==
    IF r.seen = NULL \/ r.seen = Limit + 1 THEN r ELSE [r EXCEPT !.seen = @ + 1]

(* The ticker fires.  An interval is long: a tick's statements, and its    *)
(* pings, which time out after three seconds, end before the next one.     *)
Tick ==
    /\ ~due /\ pc = "idle" /\ todo = {} /\ pings = {}
    /\ due' = TRUE
    /\ row' = [d \in Dev |-> Older(row[d])]
    /\ UNCHANGED <<target, alert, missed, pc, snap, want, todo, pings>>

(* Mutant: devices never seen are the only ones pinged. *)
PingedUnseen(r) == r # NoRow /\ r.seen = NULL

(* The devices a tick pings, as far as their address is known. *)
Pinged(r) == r # NoRow /\ ~Recent(r)

ReadDevices ==
    /\ due
    /\ due' = FALSE
    /\ pc' = "profiles"
    /\ snap' = row
    /\ pings' = {d \in Dev : Pinged(row[d])}
    /\ UNCHANGED <<row, target, alert, missed, want, todo>>

(* A failure keeps the devices D from being heard of.  Those that answer   *)
(* their pings are assumed to miss MaxMissed chances in a row at most.     *)
Miss(D) ==
    LET S == D \cap Steady \cap Live IN
    /\ \A d \in S : missed[d] < MaxMissed
    /\ missed' = [d \in Dev |-> IF d \in S THEN missed[d] + 1 ELSE missed[d]]

(* ListDevices fails: nothing is done until the next tick. *)
ReadDevicesFails ==
    /\ "errors" \in Changes
    /\ due
    /\ Miss(Dev)
    /\ due' = FALSE
    /\ UNCHANGED <<row, target, alert, pc, snap, want, todo, pings>>

(* Mutant: one alert type is misspelt. *)
EvaluationsTypo ==
    {d \in Dev : snap[d] # NoRow} \X {"failed", "drift", "offline"}

(* What a tick evaluates: three types for each device it has read. *)
Evaluations == {d \in Dev : snap[d] # NoRow} \X Type

(* The profiles are read after the devices.  An error is ignored: then no  *)
(* profile has a target.                                                   *)
ReadProfiles ==
    /\ pc = "profiles"
    /\ pc' = "idle"
    /\ want' = target
    /\ todo' = Evaluations
    /\ UNCHANGED <<row, target, alert, due, missed, snap, pings>>

ReadProfilesFails ==
    /\ "errors" \in Changes
    /\ pc = "profiles"
    /\ pc' = "idle"
    /\ want' = [p \in Profile |-> NULL]
    /\ todo' = Evaluations
    /\ UNCHANGED <<row, target, alert, due, missed, snap, pings>>

(* One evaluation.  They are done in the order of the query, type by type; *)
(* each concerns an alert of its own, so any order is allowed here.        *)
Evaluate(d, t) ==
    /\ <<d, t>> \in todo
    /\ todo' = todo \ {<<d, t>>}
    /\ alert' = Verdict(d, t)
    /\ UNCHANGED <<row, target, due, missed, pc, snap, want, pings>>

(* Its statement fails; the error is ignored. *)
EvaluateFails(d, t) ==
    /\ "errors" \in Changes
    /\ <<d, t>> \in todo
    /\ todo' = todo \ {<<d, t>>}
    /\ UNCHANGED <<row, target, alert, due, missed, pc, snap, want, pings>>

Hear(d) ==
    /\ row' = [row EXCEPT ![d] = IF d \in Live THEN [@ EXCEPT !.seen = 0] ELSE @]
    /\ missed' = [missed EXCEPT ![d] = 0]

(* A ping ends, with an answer or without.  The error of the UPDATE that   *)
(* takes note of an answer is ignored.                                     *)
PingAnswered(d) ==
    /\ d \in pings
    /\ pings' = pings \ {d}
    /\ Hear(d)
    /\ UNCHANGED <<target, alert, due, pc, snap, want, todo>>

PingUnrecorded(d) ==
    /\ "errors" \in Changes
    /\ d \in pings
    /\ Miss({d})
    /\ pings' = pings \ {d}
    /\ UNCHANGED <<row, target, alert, due, pc, snap, want, todo>>

PingLost(d) ==
    /\ d \in pings \ Steady
    /\ pings' = pings \ {d}
    /\ UNCHANGED <<row, target, alert, due, missed, pc, snap, want, todo>>

-----------------------------------------------------------------------------
(* Everybody else. *)

Register(d) ==
    /\ "register" \in Changes
    /\ row[d] = NoRow /\ snap[d] = NoRow /\ d \notin pings
    /\ row' = [row EXCEPT ![d] = NewRow]
    /\ UNCHANGED <<target, alert, missed, poller>>

(* DELETE, which deletes the alerts of the device with it. *)
Delete(d) ==
    /\ "delete" \in Changes
    /\ d \in Live
    /\ row' = [row EXCEPT ![d] = NoRow]
    /\ alert' = [alert EXCEPT ![d] = [t \in Type |-> "none"]]
    /\ UNCHANGED <<target, missed, poller>>

(* A device request, a work result, or a form sets the status. *)
SetStatus(d, s) ==
    /\ "status" \in Changes
    /\ d \in Live /\ row[d].status # s
    /\ row' = [row EXCEPT ![d].status = s]
    /\ UNCHANGED <<target, alert, missed, poller>>

(* An operator assigns or removes a profile. *)
Assign(d, p) ==
    /\ "profile" \in Changes
    /\ d \in Live /\ row[d].profile # p
    /\ row' = [row EXCEPT ![d].profile = p]
    /\ UNCHANGED <<target, alert, missed, poller>>

(* An operator edits the target version of a profile. *)
Retarget(p, v) ==
    /\ "profile" \in Changes
    /\ target[p] # v
    /\ target' = [target EXCEPT ![p] = v]
    /\ UNCHANGED <<row, alert, missed, poller>>

(* An operator has the firmware version read from the device. *)
CheckFirmware(d, v) ==
    /\ "firmware" \in Changes
    /\ d \in Live /\ row[d].firmware # v
    /\ row' = [row EXCEPT ![d].firmware = v]
    /\ UNCHANGED <<target, alert, missed, poller>>

(* A request or a syslog message of the device updates last_seen. *)
Seen(d) ==
    /\ "seen" \in Changes
    /\ d \in Live
    /\ Hear(d)
    /\ UNCHANGED <<target, alert, poller>>

(* POST /alerts/{id}/resolve *)
Resolve(d, t) ==
    /\ "resolve" \in Changes
    /\ alert[d][t] = "open"
    /\ alert' = [alert EXCEPT ![d][t] = "resolved"]
    /\ UNCHANGED <<row, target, missed, poller>>

-----------------------------------------------------------------------------
Step(d) == \E t \in Type : Evaluate(d, t)

Change ==
    \/ \E d \in Dev :
          \/ Register(d) \/ Delete(d) \/ Seen(d)
          \/ \E s \in {"provisioned", "failed", "other"} : SetStatus(d, s)
          \/ \E p \in Opt(Profile) : Assign(d, p)
          \/ \E v \in Version : CheckFirmware(d, v)
          \/ \E t \in Type : Resolve(d, t)
    \/ \E p \in Profile, v \in Opt(Version) : Retarget(p, v)

Failure ==
    \/ ReadDevicesFails \/ ReadProfilesFails
    \/ \E d \in Dev : PingUnrecorded(d) \/ \E t \in Type : EvaluateFails(d, t)

Next ==
    \/ Tick \/ ReadDevices \/ ReadProfiles
    \/ \E d \in Dev : Step(d) \/ PingAnswered(d) \/ PingLost(d)
    \/ Change
    \/ Failure

Spec == Init /\ [][Next]_vars

(* The ticker fires for ever, and the goroutines of the poller run.  A     *)
(* statement that keeps failing is not ruled out here but in Routine.  *)
Fairness ==
    /\ WF_vars(Tick) /\ WF_vars(ReadDevices) /\ WF_vars(ReadProfiles)
    /\ \A d \in Dev : WF_vars(Step(d)) /\ WF_vars(PingAnswered(d) \/ PingLost(d))

FairSpec == Spec /\ Fairness

(* What goes on when nobody edits, nothing fails, and no device that is    *)
(* otherwise silent gives a sign of life.                                  *)
Routine ==
    \/ Tick \/ ReadDevices \/ ReadProfiles
    \/ \E d \in Dev : Step(d) \/ PingLost(d) \/ (d \in Steady /\ PingAnswered(d))

-----------------------------------------------------------------------------
(* PROPERTIES *)

(* Alerts belong to devices that exist: evaluating a copy of a device that *)
(* has been deleted since raises nothing, nor does anything leave an alert *)
(* behind.                                                                 *)
AlertsHaveDevices ==
    \A d \in Dev, t \in Type : alert[d][t] # "none" => d \in Live

(* A device that answers every ping is never reported offline, although    *)
(* its ping is skipped at every other tick, and an evaluation uses what    *)
(* was read before the ping of its own tick ended, as long as not too many *)
(* ticks and UPDATEs in a row fail to take note of it.                     *)
SteadyNeverOffline ==
    \A d \in Steady : alert[d]["offline"] = "none"

(* The alerts about the state of device d agree with it, as far as the     *)
(* poller looks: the offline alert of a device that is not provisioned, or *)
(* was never seen, is left as it is.                                       *)
StateAgrees(d) ==
    /\ alert[d]["failed"] = "open" <=> row[d].status = "failed"
    /\ row[d].status = "provisioned" /\ row[d].seen # NULL
          => (alert[d]["offline"] = "open" <=> Overdue(row[d]))

(* So does the drift alert, which is left alone under a profile without a  *)
(* target.                                                                 *)
DriftAgrees(d) ==
    LET r == row[d] IN
    /\ Raises(r, target, "firmware_drift") => alert[d]["firmware_drift"] = "open"
    /\ alert[d]["firmware_drift"] = "open"
          => Comparable(r) /\ target[r.profile] # r.firmware

(* Whatever evaluations failed or came from stale copies, and whatever     *)
(* operators resolved by hand: once things are quiet, the failed and the   *)
(* offline alerts follow the state of every device for good.               *)
StateAlertsFollow ==
    <>[][Routine]_vars => <>[](\A d \in Live : StateAgrees(d))

(* And the drift alerts follow firmware and targets, although the two are  *)
(* read at different times.                                                *)
DriftAlertsFollow ==
    <>[][Routine]_vars => <>[](\A d \in Live : DriftAgrees(d))

-----------------------------------------------------------------------------
(* The inductive invariant behind SteadyNeverOffline.  A steady device is  *)
(* older than the ticks it may be skipped at, and those that failed, only  *)
(* by the tick under way; what a tick has read is never overdue.           *)

Allowed(d) == 1 + missed[d] + (IF due \/ d \in pings THEN 1 ELSE 0)

Fresh(d) == row[d].seen = NULL \/ row[d].seen <= Allowed(d)

SteadyFresh ==
    \A d \in Steady : Fresh(d) /\ (snap[d].seen = NULL \/ snap[d].seen <= Limit)

(* A tick waits only when the one before is over. *)
TicksApart == due => pings = {}

IInv ==
    /\ TypeOK
    /\ TicksApart
    /\ AlertsHaveDevices
    /\ SteadyFresh
    /\ SteadyNeverOffline
=============================================================================
