--------------------------- MODULE AlertingProofs ---------------------------
(***************************************************************************)
(* The safety properties of Alerting, for every set of devices, profiles   *)
(* and versions and every length of the offline limit, from IInv, and what *)
(* the alerts need of the ticker to catch up with their devices.           *)
(***************************************************************************)
EXTENDS Alerting, TLAPS

(* A column update keeps a row a row. *)
LEMMA RowUpdates ==
    ASSUME NEW r \in Row
    PROVE  /\ \A s \in {"provisioned", "failed", "other"} :
                 [r EXCEPT !.status = s] \in Row
           /\ \A p \in Opt(Profile) : [r EXCEPT !.profile = p] \in Row
           /\ \A v \in Version : [r EXCEPT !.firmware = v] \in Row
           /\ \A a \in Age : [r EXCEPT !.seen = a] \in Row
  BY DEF Row, Opt

LEMMA LiveRows ==
    ASSUME TypeOK, NEW d \in Live
    PROVE  d \in Dev /\ row[d] \in Row
  BY DEF TypeOK, Live

(* A tick makes a device one tick older, and none is ever beyond the cap. *)
LEMMA OlderRow ==
    ASSUME NEW r \in Row \cup {NoRow}
    PROVE  /\ Older(r) \in Row \cup {NoRow}
           /\ Older(r) = NoRow <=> r = NoRow
           /\ Older(r).seen = NULL \/ r.seen \in Nat
           /\ r.seen = NULL <=> Older(r).seen = NULL
           /\ r.seen # NULL => Older(r).seen <= r.seen + 1
  <1>1. CASE r = NoRow
    BY <1>1, SetAssumption DEF Older, NoRow
  <1>2. CASE r # NoRow
    <2>1. r \in Row /\ r.status # "absent"
      BY <1>2 DEF Row
    <2>2. CASE r.seen = NULL \/ r.seen = Limit + 1
      <3>1. Older(r) = r
        BY <2>2 DEF Older
      <3>2. r.seen = NULL \/ r.seen \in Nat
        BY <2>1, TimeAssumption DEF Row, Opt, Age
      <3>3. r.seen # NULL => r.seen <= r.seen + 1
        BY <3>2
      <3> QED
        BY <1>2, <2>1, <3>1, <3>2, <3>3
    <2>3. CASE ~(r.seen = NULL \/ r.seen = Limit + 1)
      <3>1. r.seen \in Age /\ r.seen # Limit + 1
        BY <2>1, <2>3 DEF Row, Opt
      <3>2. r.seen \in Nat /\ r.seen + 1 \in Age /\ r.seen + 1 # NULL
        BY <3>1, TimeAssumption, SetAssumption DEF Age
      <3>3. Older(r) = [r EXCEPT !.seen = r.seen + 1]
        BY <2>3 DEF Older
      <3>4. Older(r) \in Row
        BY <2>1, <3>2, <3>3, RowUpdates
      <3>7. Older(r).seen = r.seen + 1
        BY <2>1, <3>3 DEF Row
      <3>5. Older(r).status # "absent"
        BY <3>4 DEF Row
      <3>6. Older(r) # NoRow
        BY <3>5 DEF NoRow
      <3> QED
        BY <1>2, <2>3, <3>2, <3>4, <3>6, <3>7
    <2> QED
      BY <2>2, <2>3
  <1> QED
    BY <1>1, <1>2

-----------------------------------------------------------------------------
(* A device is heard of or gone, or as old as it was, with no failure more. *)
Noted(d) ==
    \/ row'[d].seen \in {0, NULL}
    \/ row'[d].seen = row[d].seen /\ missed'[d] = missed[d]

(* Hearing of a device makes it as fresh as can be, and changes no other.  *)
LEMMA HearRows ==
    ASSUME TypeOK, NEW d \in Dev, Hear(d)
    PROVE  /\ row' \in [Dev -> Row \cup {NoRow}]
           /\ missed' \in [Dev -> 0 .. MaxMissed]
           /\ \A e \in Dev : row'[e] = NoRow <=> row[e] = NoRow
           /\ \A e \in Dev : row'[e].seen \in {row[e].seen, 0}
           /\ \A e \in Dev : Noted(e)
  <1>0. /\ missed' \in [Dev -> 0 .. MaxMissed]
        /\ \A e \in Dev : e # d => missed'[e] = missed[e]
    BY TimeAssumption DEF Hear, TypeOK
  <1>1. CASE d \in Live
    <2>1. row[d] \in Row /\ 0 \in Age
      BY <1>1, LiveRows, TimeAssumption DEF Age
    <2>2. /\ [row[d] EXCEPT !.seen = 0] \in Row
          /\ [row[d] EXCEPT !.seen = 0].seen = 0
      BY <2>1, RowUpdates DEF Row
    <2>3. row' = [row EXCEPT ![d] = [row[d] EXCEPT !.seen = 0]]
      BY <1>1 DEF Hear
    <2>4. \A r \in Row : r # NoRow
      BY DEF Row, NoRow
    <2> QED
      BY <1>0, <2>1, <2>2, <2>3, <2>4 DEF TypeOK, Noted
  <1>2. CASE d \notin Live
    <2>1. row' = row /\ row[d].seen = NULL
      BY <1>2 DEF Hear, TypeOK, Live, NoRow
    <2> QED
      BY <1>0, <2>1 DEF TypeOK, Noted
  <1> QED
    BY <1>1, <1>2

(* A failure counts, for the devices it concerns. *)
LEMMA MissCounts ==
    ASSUME TypeOK, NEW D, Miss(D)
    PROVE  /\ missed' \in [Dev -> 0 .. MaxMissed]
           /\ \A d \in Dev \ D : missed'[d] = missed[d]
           /\ \A d \in Steady \cap Live : d \in D => missed'[d] = missed[d] + 1
           /\ \A d \in Dev : missed'[d] >= missed[d]
  <1> DEFINE S == D \cap Steady \cap Live
  <1>1. \A d \in Dev : /\ missed[d] \in 0 .. MaxMissed
                       /\ missed'[d] = IF d \in S THEN missed[d] + 1 ELSE missed[d]
                       /\ d \in S => missed[d] < MaxMissed
    BY DEF Miss, TypeOK
  <1>2. \A d \in Dev : missed'[d] \in 0 .. MaxMissed
    BY <1>1, TimeAssumption
  <1>3. missed' \in [Dev -> 0 .. MaxMissed]
    BY <1>2 DEF Miss
  <1> QED
    BY <1>1, <1>3, TimeAssumption DEF Live

(* The alerts a verdict leaves: of the types there are, of devices there   *)
(* are, and offline only where the copy is overdue.                        *)
LEMMA VerdictAlerts ==
    ASSUME TypeOK, AlertsHaveDevices, NEW d \in Dev, NEW t \in Type,
           alert' = Verdict(d, t), row' = row
    PROVE  /\ alert' \in [Dev -> [Type -> AlertState]]
           /\ AlertsHaveDevices'
           /\ \A e \in Dev : \/ alert'[e]["offline"] = alert[e]["offline"]
                             \/ e = d /\ Overdue(snap[d])
                             \/ alert[e]["offline"] = "open"
  <1>1. Live' = Live
    BY DEF Live
  <1>2. CASE Raises(snap[d], want, t)
    <2>1. alert' = Raised(d, t)
      BY <1>2 DEF Verdict
    <2>2. t = "offline" => Overdue(snap[d])
      BY <1>2 DEF Raises
    <2>3. CASE d \in Live
      <3>1. alert' = [alert EXCEPT ![d][t] = "open"]
        BY <2>1, <2>3 DEF Raised
      <3> QED
        BY <1>1, <2>2, <2>3, <3>1 DEF TypeOK, AlertsHaveDevices, AlertState, Type
    <2>4. CASE d \notin Live
      <3>1. alert' = alert
        BY <2>1, <2>4 DEF Raised
      <3> QED
        BY <1>1, <3>1 DEF TypeOK, AlertsHaveDevices
    <2> QED
      BY <2>3, <2>4
  <1>3. CASE alert' = Cleared(d, t)
    <2>1. CASE alert[d][t] = "open"
      <3>1. alert' = [alert EXCEPT ![d][t] = "resolved"]
        BY <1>3, <2>1 DEF Cleared
      <3> QED
        BY <1>1, <2>1, <3>1 DEF TypeOK, AlertsHaveDevices, AlertState, Type
    <2>2. CASE alert[d][t] # "open"
      <3>1. alert' = alert
        BY <1>3, <2>2 DEF Cleared
      <3> QED
        BY <1>1, <3>1 DEF TypeOK, AlertsHaveDevices
    <2> QED
      BY <2>1, <2>2
  <1>4. CASE alert' = alert
    BY <1>1, <1>4 DEF TypeOK, AlertsHaveDevices
  <1> QED
    BY <1>2, <1>3, <1>4 DEF Verdict

-----------------------------------------------------------------------------
LEMMA InitInv == Init => IInv
  <1> SUFFICES ASSUME Init PROVE IInv
    OBVIOUS
  <1>1. TypeOK
    <2>1. missed \in [Dev -> 0 .. MaxMissed]
      BY TimeAssumption DEF Init
    <2>2. row \in [Dev -> Row \cup {NoRow}] /\ snap \in [Dev -> Row \cup {NoRow}]
      BY DEF Init
    <2>3. want \in [Profile -> Opt(Version)]
      BY DEF Init, Opt
    <2>4. alert \in [Dev -> [Type -> AlertState]]
      BY DEF Init, AlertState
    <2> QED
      BY <2>1, <2>2, <2>3, <2>4 DEF Init, TypeOK
  <1>2. AlertsHaveDevices /\ SteadyNeverOffline
    BY SetAssumption DEF Init, AlertsHaveDevices, SteadyNeverOffline, Type
  <1>3. SteadyFresh
    BY SetAssumption DEF Init, SteadyFresh, Fresh, NoRow
  <1>4. TicksApart
    BY DEF Init, TicksApart
  <1> QED
    BY <1>1, <1>2, <1>3, <1>4 DEF IInv

(* A device that is not noted to be older than it was stays fresh, unless  *)
(* its ping ends.                                                          *)
LEMMA FreshKept ==
    ASSUME SteadyFresh, TypeOK, missed' \in [Dev -> 0 .. MaxMissed],
           UNCHANGED <<due, snap>>,
           \A d \in Dev : Noted(d),
           \A d \in pings \ pings' : row'[d].seen \in {0, NULL}
    PROVE  SteadyFresh'
  <1> SUFFICES ASSUME NEW d \in Steady
               PROVE  Fresh(d)' /\ (snap[d].seen = NULL \/ snap[d].seen <= Limit)'
    BY DEF SteadyFresh
  <1>1. d \in Dev /\ Fresh(d) /\ (snap[d].seen = NULL \/ snap[d].seen <= Limit)
    BY SetAssumption DEF SteadyFresh
  <1>2. missed[d] \in Nat /\ missed'[d] \in Nat
    BY <1>1, TimeAssumption DEF TypeOK
  <1>3. CASE row'[d].seen \in {0, NULL}
    BY <1>1, <1>2, <1>3 DEF Fresh, Allowed
  <1>4. CASE row'[d].seen \notin {0, NULL}
    <2>1. row'[d].seen = row[d].seen /\ missed'[d] = missed[d]
      BY <1>1, <1>4 DEF Noted
    <2>2. d \in pings => d \in pings'
      BY <1>4
    <2>3. row[d].seen = NULL \/ row[d].seen \in Nat
      BY <1>1, TimeAssumption DEF TypeOK, Row, NoRow, Opt, Age
    <2>4. Allowed(d) \in Nat /\ Allowed(d)' \in Nat /\ Allowed(d) <= Allowed(d)'
      BY <1>2, <2>1, <2>2 DEF Allowed
    <2> QED
      BY <1>1, <2>1, <2>3, <2>4 DEF Fresh
  <1> QED
    BY <1>1, <1>3, <1>4

(* A step that changes neither devices nor alerts keeps what relates them. *)
LEMMA AlertsKept ==
    ASSUME AlertsHaveDevices, SteadyNeverOffline, alert' = alert,
           \A d \in Dev : row'[d] = NoRow => row[d] = NoRow
    PROVE  AlertsHaveDevices' /\ SteadyNeverOffline'
  BY DEF AlertsHaveDevices, SteadyNeverOffline, Live

-----------------------------------------------------------------------------
(* The poller's steps. *)

LEMMA TickInv ==
    ASSUME IInv, Tick
    PROVE  IInv'
  <1> USE DEF IInv
  <1>1. \A d \in Dev : /\ row'[d] = Older(row[d])
                       /\ row[d] \in Row \cup {NoRow}
    BY DEF Tick, TypeOK
  <1>2. TypeOK'
    <2>1. row' \in [Dev -> Row \cup {NoRow}]
      BY <1>1, OlderRow DEF Tick
    <2> QED
      BY <2>1 DEF Tick, TypeOK
  <1>3. AlertsHaveDevices' /\ SteadyNeverOffline'
    BY <1>1, OlderRow, AlertsKept DEF Tick
  <1>4. SteadyFresh'
    <2> SUFFICES ASSUME NEW d \in Steady
                 PROVE  Fresh(d)' /\ (snap[d].seen = NULL \/ snap[d].seen <= Limit)'
      BY DEF SteadyFresh
    <2>1. d \in Dev /\ Fresh(d) /\ (snap[d].seen = NULL \/ snap[d].seen <= Limit)
      BY SetAssumption DEF SteadyFresh
    <2>2. row[d].seen = NULL \/ row[d].seen <= 1 + missed[d]
      BY <2>1, TimeAssumption DEF Tick, Fresh, Allowed, TypeOK
    <2>3. Allowed(d)' = 2 + missed[d] /\ missed[d] \in Nat
      BY <2>1, TimeAssumption DEF Tick, Allowed, TypeOK
    <2>4. row'[d].seen = NULL \/ row'[d].seen <= 2 + missed[d]
      <3>1. CASE row[d].seen = NULL
        BY <1>1, <2>1, <3>1, OlderRow
      <3>2. CASE row[d].seen # NULL
        <4>1. Older(row[d]).seen = NULL \/ row[d].seen \in Nat
          BY <1>1, <2>1, OlderRow
        <4>2. Older(row[d]).seen # NULL => Older(row[d]).seen <= row[d].seen + 1
          BY <1>1, <2>1, <3>2, OlderRow
        <4>3. Older(row[d]).seen # NULL => Older(row[d]).seen \in Nat
          BY <1>1, <2>1, OlderRow, TimeAssumption, SetAssumption
             DEF Row, NoRow, Opt, Age
        <4> QED
          BY <1>1, <2>1, <2>2, <2>3, <3>2, <4>1, <4>2, <4>3
      <3> QED
        BY <3>1, <3>2
    <2> QED
      BY <2>1, <2>3, <2>4 DEF Tick, Fresh
  <1>5. TicksApart'
    BY DEF Tick, TicksApart
  <1> QED
    BY <1>2, <1>3, <1>4, <1>5

(* What is read is at most two ticks old, and the failures; TimeAssumption *)
(* makes that less than the limit.                                         *)
LEMMA ReadDevicesInv ==
    ASSUME IInv, ReadDevices
    PROVE  IInv'
  <1> USE DEF IInv
  <1>1. TypeOK'
    <2>2. snap' \in [Dev -> Row \cup {NoRow}] /\ pings' \subseteq Dev
      BY DEF ReadDevices, TypeOK
    <2> QED
      BY <2>2 DEF ReadDevices, TypeOK
  <1>2. AlertsHaveDevices' /\ SteadyNeverOffline'
    BY AlertsKept DEF ReadDevices
  <1>3. SteadyFresh'
    <2> SUFFICES ASSUME NEW d \in Steady
                 PROVE  Fresh(d)' /\ (snap[d].seen = NULL \/ snap[d].seen <= Limit)'
      BY DEF SteadyFresh
    <2>1. d \in Dev /\ Fresh(d)
      BY SetAssumption DEF SteadyFresh
    <2>2. row[d].seen = NULL \/ row[d].seen \in Nat
      BY <2>1, TimeAssumption DEF TypeOK, Row, NoRow, Opt, Age
    <2>3. Allowed(d) = 2 + missed[d] /\ missed[d] \in 0 .. MaxMissed
      BY <2>1, TimeAssumption DEF ReadDevices, Allowed, TypeOK
    <2>4. row[d].seen = NULL \/ row[d].seen <= Limit
      BY <2>1, <2>2, <2>3, TimeAssumption DEF Fresh
    <2>5. CASE d \in pings'
      <3>1. Allowed(d)' = Allowed(d)
        BY <2>3, <2>5 DEF Allowed, ReadDevices
      <3> QED
        BY <2>1, <2>4, <3>1 DEF Fresh, ReadDevices
    <2>6. CASE d \notin pings'
      <3>1. row[d].seen = NULL \/ row[d].seen <= 1
        BY <2>1, <2>6 DEF ReadDevices, Pinged, Recent, NoRow
      <3>2. Allowed(d)' = 1 + missed[d]
        BY <2>3, <2>6, TimeAssumption DEF Allowed, ReadDevices
      <3> QED
        BY <2>2, <2>3, <2>4, <3>1, <3>2, TimeAssumption DEF Fresh, ReadDevices
    <2> QED
      BY <2>4, <2>5, <2>6 DEF ReadDevices
  <1>4. TicksApart'
    BY DEF ReadDevices, TicksApart
  <1> QED
    BY <1>1, <1>2, <1>3, <1>4

LEMMA ReadDevicesFailsInv ==
    ASSUME IInv, ReadDevicesFails
    PROVE  IInv'
  <1> USE DEF IInv
  <1>1. TypeOK'
    BY MissCounts DEF ReadDevicesFails, TypeOK
  <1>2. AlertsHaveDevices' /\ SteadyNeverOffline'
    BY AlertsKept DEF ReadDevicesFails
  <1>4. SteadyFresh'
    <2> SUFFICES ASSUME NEW d \in Steady PROVE Fresh(d)'
      BY DEF SteadyFresh, ReadDevicesFails
    <2>1. d \in Dev /\ Fresh(d) /\ row' = row
      BY SetAssumption DEF SteadyFresh, ReadDevicesFails
    <2>2. CASE d \in Live
      <3>1. missed'[d] = missed[d] + 1 /\ missed[d] \in Nat
        BY <2>1, <2>2, MissCounts, TimeAssumption DEF ReadDevicesFails, TypeOK
      <3>2. Allowed(d)' = Allowed(d)
        BY <3>1 DEF ReadDevicesFails, Allowed, TicksApart
      <3> QED
        BY <2>1, <3>2 DEF Fresh
    <2>3. CASE d \notin Live
      BY <2>1, <2>3 DEF Live, NoRow, Fresh
    <2> QED
      BY <2>2, <2>3
  <1>5. TicksApart'
    BY DEF ReadDevicesFails, TicksApart
  <1> QED
    BY <1>1, <1>2, <1>4, <1>5

LEMMA ReadProfilesInv ==
    ASSUME IInv, ReadProfiles \/ ReadProfilesFails
    PROVE  IInv'
  <1> USE DEF IInv
  <1>1. UNCHANGED <<row, target, alert, due, missed, snap, pings>>
    BY DEF ReadProfiles, ReadProfilesFails
  <1>2. TypeOK'
    <2>1. want' \in [Profile -> Opt(Version)]
      BY DEF ReadProfiles, ReadProfilesFails, TypeOK, Opt
    <2>2. todo' \subseteq Dev \X Type
      BY DEF ReadProfiles, ReadProfilesFails, Evaluations
    <2> QED
      BY <1>1, <2>1, <2>2 DEF ReadProfiles, ReadProfilesFails, TypeOK
  <1>3. AlertsHaveDevices' /\ SteadyNeverOffline'
    BY <1>1, AlertsKept
  <1>4. SteadyFresh'
    BY <1>1 DEF SteadyFresh, Fresh, Allowed
  <1>5. TicksApart'
    BY <1>1 DEF TicksApart
  <1> QED
    BY <1>2, <1>3, <1>4, <1>5

LEMMA EvaluateInv ==
    ASSUME IInv, NEW d \in Dev, NEW t \in Type, Evaluate(d, t)
    PROVE  IInv'
  <1> USE DEF IInv
  <1>1. alert' = Verdict(d, t) /\ row' = row
    BY DEF Evaluate
  <1>2. TypeOK'
    <2>1. todo' \subseteq Dev \X Type
      BY DEF Evaluate, TypeOK
    <2> QED
      BY <1>1, <2>1, VerdictAlerts DEF Evaluate, TypeOK
  <1>3. AlertsHaveDevices'
    BY <1>1, VerdictAlerts
  <1>4. SteadyNeverOffline'
    <2> SUFFICES ASSUME NEW e \in Steady PROVE alert'[e]["offline"] = "none"
      BY DEF SteadyNeverOffline
    <2>1. e \in Dev /\ alert[e]["offline"] = "none"
      BY SetAssumption DEF SteadyNeverOffline
    <2>2. ~Overdue(snap[e])
      <3>1. snap[e].seen = NULL \/ snap[e].seen \in Nat
        BY <2>1, TimeAssumption DEF TypeOK, Row, NoRow, Opt, Age
      <3> QED
        BY <3>1, TimeAssumption DEF SteadyFresh, Overdue
    <2> QED
      BY <1>1, <2>1, <2>2, VerdictAlerts
  <1>5. SteadyFresh'
    BY DEF Evaluate, SteadyFresh, Fresh, Allowed
  <1>6. TicksApart'
    BY DEF Evaluate, TicksApart
  <1> QED
    BY <1>2, <1>3, <1>4, <1>5, <1>6

LEMMA EvaluateFailsInv ==
    ASSUME IInv, NEW d \in Dev, NEW t \in Type, EvaluateFails(d, t)
    PROVE  IInv'
  <1> USE DEF IInv
  <1>1. TypeOK'
    BY DEF EvaluateFails, TypeOK
  <1>2. AlertsHaveDevices' /\ SteadyNeverOffline'
    BY AlertsKept DEF EvaluateFails
  <1>3. SteadyFresh'
    BY DEF EvaluateFails, SteadyFresh, Fresh, Allowed
  <1>4. TicksApart'
    BY DEF EvaluateFails, TicksApart
  <1> QED
    BY <1>1, <1>2, <1>3, <1>4

(* An answer makes the device fresh by itself; a lost ping is never one of *)
(* a steady device.                                                        *)
LEMMA PingInv ==
    ASSUME IInv, NEW d \in Dev, PingAnswered(d) \/ PingLost(d)
    PROVE  IInv'
  <1> USE DEF IInv
  <1>1. UNCHANGED <<target, alert, due, pc, snap, want, todo>> /\ pings' = pings \ {d}
    BY DEF PingAnswered, PingLost
  <1>2. /\ row' \in [Dev -> Row \cup {NoRow}]
        /\ missed' \in [Dev -> 0 .. MaxMissed]
        /\ \A e \in Dev : row'[e] = NoRow <=> row[e] = NoRow
        /\ \A e \in Dev : Noted(e)
    <2>1. CASE PingAnswered(d)
      BY <2>1, HearRows DEF PingAnswered
    <2>2. CASE PingLost(d)
      BY <2>2 DEF PingLost, TypeOK, Noted
    <2> QED
      BY <2>1, <2>2
  <1>3. TypeOK'
    BY <1>1, <1>2 DEF TypeOK
  <1>4. AlertsHaveDevices' /\ SteadyNeverOffline'
    BY <1>1, <1>2, AlertsKept
  <1>5. SteadyFresh'
    <2>1. CASE PingAnswered(d)
      <3>1. row'[d].seen \in {0, NULL}
        <4>1. CASE d \in Live
          <5>1. row[d] \in Row /\ row' = [row EXCEPT ![d] = [row[d] EXCEPT !.seen = 0]]
            BY <2>1, <4>1, LiveRows DEF PingAnswered, Hear
          <5> QED
            BY <5>1 DEF TypeOK, Row
        <4>2. CASE d \notin Live
          <5>1. row'[d] = NoRow
            BY <2>1, <4>2 DEF PingAnswered, Hear, Live, TypeOK
          <5> QED
            BY <5>1 DEF NoRow
        <4> QED
          BY <4>1, <4>2
      <3> QED
        BY <1>1, <1>2, <3>1, FreshKept
    <2>2. CASE PingLost(d)
      <3> SUFFICES ASSUME NEW e \in Steady PROVE Fresh(e)'
        BY <1>1 DEF SteadyFresh
      <3>1. /\ e \in Dev /\ Fresh(e) /\ e # d
            /\ UNCHANGED <<row, missed, due>>
        BY <2>2, SetAssumption DEF SteadyFresh, PingLost
      <3> QED
        BY <1>1, <3>1 DEF Fresh, Allowed
    <2> QED
      BY <2>1, <2>2
  <1>6. TicksApart'
    BY <1>1 DEF TicksApart
  <1> QED
    BY <1>3, <1>4, <1>5, <1>6

(* An answer that is not taken note of costs a failure.                    *)
LEMMA PingUnrecordedInv ==
    ASSUME IInv, NEW d \in Dev, PingUnrecorded(d)
    PROVE  IInv'
  <1> USE DEF IInv
  <1>1. /\ UNCHANGED <<row, target, alert, due, pc, snap, want, todo>>
        /\ pings' = pings \ {d} /\ d \in pings
    BY DEF PingUnrecorded
  <1>2. /\ missed' \in [Dev -> 0 .. MaxMissed]
        /\ \A e \in Dev : e # d => missed'[e] = missed[e]
        /\ d \in Steady \cap Live => missed'[d] = missed[d] + 1
    BY MissCounts DEF PingUnrecorded
  <1>3. TypeOK'
    BY <1>1, <1>2 DEF TypeOK
  <1>4. AlertsHaveDevices' /\ SteadyNeverOffline'
    BY <1>1, AlertsKept
  <1>5. SteadyFresh'
    <2> SUFFICES ASSUME NEW e \in Steady PROVE Fresh(e)'
      BY <1>1 DEF SteadyFresh
    <2>1. e \in Dev /\ Fresh(e)
      BY SetAssumption DEF SteadyFresh
    <2>2. CASE e # d
      BY <1>1, <1>2, <2>1, <2>2 DEF Fresh, Allowed
    <2>3. CASE e = d /\ d \in Live
      <3>1. missed'[d] = missed[d] + 1 /\ missed[d] \in Nat /\ ~due
        BY <1>1, <1>2, <2>3, TimeAssumption DEF TypeOK, TicksApart
      <3>2. Allowed(d)' = Allowed(d)
        BY <1>1, <3>1 DEF Allowed
      <3> QED
        BY <1>1, <2>1, <2>3, <3>2 DEF Fresh
    <2>4. CASE d \notin Live
      BY <1>1, <2>1, <2>2, <2>4 DEF Live, NoRow, Fresh
    <2> QED
      BY <2>2, <2>3, <2>4
  <1>6. TicksApart'
    BY <1>1 DEF TicksApart
  <1> QED
    BY <1>3, <1>4, <1>5, <1>6

-----------------------------------------------------------------------------
(* Everybody else: the poller's own state stays, and a device that changes *)
(* keeps its age, is heard of, or has none.                                *)
LEMMA ChangeInv ==
    ASSUME IInv, UNCHANGED poller, missed' \in [Dev -> 0 .. MaxMissed],
           \A d \in Dev : Noted(d),
           row' \in [Dev -> Row \cup {NoRow}],
           target' \in [Profile -> Opt(Version)],
           alert' \in [Dev -> [Type -> AlertState]],
           \A d \in Dev : /\ row'[d] = NoRow /\ row[d] # NoRow
                          => \A t \in Type : alert'[d][t] = "none",
           \A d \in Dev, t \in Type : \/ alert'[d][t] \in {alert[d][t], "none"}
                                      \/ alert[d][t] = "open"
    PROVE  IInv'
  <1> USE DEF IInv, poller
  <1>1. TypeOK' /\ TicksApart'
    BY DEF TypeOK, TicksApart
  <1>2. AlertsHaveDevices'
    BY DEF AlertsHaveDevices, Live
  <1>3. SteadyNeverOffline'
    BY SetAssumption DEF SteadyNeverOffline, Type
  <1>4. SteadyFresh'
    BY FreshKept
  <1> QED
    BY <1>1, <1>2, <1>3, <1>4

(* Changes of one column of one device. *)
LEMMA ColumnInv ==
    ASSUME IInv, UNCHANGED <<target, alert, missed, poller>>,
           NEW d \in Live, NEW r \in Row,
           row' = [row EXCEPT ![d] = r], r.seen = row[d].seen
    PROVE  IInv'
  <1>1. TypeOK /\ d \in Dev /\ row[d] \in Row
    BY LiveRows DEF IInv
  <1>2. \A e \in Dev : e # d => row'[e] = row[e]
    BY <1>1 DEF TypeOK
  <1>3. row'[d] = r /\ r # NoRow
    BY <1>1 DEF TypeOK, Row, NoRow
  <1>4. row' \in [Dev -> Row \cup {NoRow}]
    BY <1>1 DEF TypeOK
  <1>5. (\A e \in Dev : Noted(e)) /\ missed' \in [Dev -> 0 .. MaxMissed]
    BY <1>1, <1>2, <1>3 DEF Noted, TypeOK
  <1>6. \A e \in Dev : row'[e] = NoRow => row[e] = NoRow
    BY <1>2, <1>3
  <1>7. /\ target' \in [Profile -> Opt(Version)]
        /\ alert' \in [Dev -> [Type -> AlertState]]
    BY <1>1 DEF TypeOK
  <1> QED
    BY <1>4, <1>5, <1>6, <1>7, ChangeInv

LEMMA RegisterInv ==
    ASSUME IInv, NEW d \in Dev, Register(d)
    PROVE  IInv'
  <1>1. TypeOK /\ NewRow \in Row /\ NewRow.seen = NULL /\ NewRow # NoRow
    BY DEF IInv, NewRow, NoRow, Row, Opt
  <1>2. row' = [row EXCEPT ![d] = NewRow]
    BY DEF Register
  <1>3. row' \in [Dev -> Row \cup {NoRow}]
    BY <1>1, <1>2 DEF TypeOK
  <1>4. \A e \in Dev : row'[e] \in {row[e], NewRow}
    BY <1>1, <1>2 DEF TypeOK
  <1>5. (\A e \in Dev : Noted(e)) /\ missed' \in [Dev -> 0 .. MaxMissed]
    BY <1>1, <1>4 DEF Noted, Register, TypeOK
  <1>6. \A e \in Dev : row'[e] = NoRow => row[e] = NoRow
    BY <1>1, <1>4
  <1>7. /\ target' \in [Profile -> Opt(Version)]
        /\ alert' \in [Dev -> [Type -> AlertState]]
    BY <1>1 DEF TypeOK, Register
  <1> QED
    BY <1>3, <1>5, <1>6, <1>7, ChangeInv DEF Register

LEMMA DeleteInv ==
    ASSUME IInv, NEW d \in Dev, Delete(d)
    PROVE  IInv'
  <1>1. TypeOK
    BY DEF IInv
  <1>2. row' = [row EXCEPT ![d] = NoRow]
    BY DEF Delete
  <1>3. row' \in [Dev -> Row \cup {NoRow}]
    BY <1>1, <1>2 DEF TypeOK
  <1>4. \A e \in Dev : e # d => row'[e] = row[e]
    BY <1>1, <1>2 DEF TypeOK
  <1>5. row'[d] = NoRow
    BY <1>1, <1>2 DEF TypeOK
  <1>6. (\A e \in Dev : Noted(e)) /\ missed' \in [Dev -> 0 .. MaxMissed]
    BY <1>1, <1>4, <1>5 DEF NoRow, Noted, Delete, TypeOK
  <1>7. alert' = [alert EXCEPT ![d] = [t \in Type |-> "none"]]
    BY DEF Delete
  <1>8. alert' \in [Dev -> [Type -> AlertState]]
    BY <1>1, <1>7 DEF TypeOK, AlertState
  <1>9. \A t \in Type : alert'[d][t] = "none"
    BY <1>1, <1>7 DEF TypeOK
  <1>10. \A e \in Dev : e # d => alert'[e] = alert[e]
    BY <1>1, <1>7 DEF TypeOK
  <1>11. target' \in [Profile -> Opt(Version)] /\ UNCHANGED poller
    BY <1>1 DEF TypeOK, Delete
  <1>12. \A e \in Dev : /\ row'[e] = NoRow /\ row[e] # NoRow
                        => \A t \in Type : alert'[e][t] = "none"
    BY <1>4, <1>9
  <1>13. \A e \in Dev, t \in Type : \/ alert'[e][t] \in {alert[e][t], "none"}
                                    \/ alert[e][t] = "open"
    BY <1>9, <1>10
  <1> QED
    BY <1>3, <1>6, <1>8, <1>11, <1>12, <1>13, ChangeInv

LEMMA SeenInv ==
    ASSUME IInv, NEW d \in Dev, Seen(d)
    PROVE  IInv'
  <1>1. TypeOK /\ d \in Live
    BY DEF IInv, Seen
  <1>2. /\ row' \in [Dev -> Row \cup {NoRow}]
        /\ \A e \in Dev : row'[e] = NoRow <=> row[e] = NoRow
        /\ \A e \in Dev : row'[e].seen \in {row[e].seen, 0}
    BY <1>1, HearRows DEF Seen
  <1>3. /\ target' \in [Profile -> Opt(Version)]
        /\ alert' \in [Dev -> [Type -> AlertState]]
    BY <1>1 DEF TypeOK, Seen
  <1>4. missed' \in [Dev -> 0 .. MaxMissed] /\ \A e \in Dev : Noted(e)
    BY <1>1, HearRows DEF Seen
  <1> QED
    BY <1>2, <1>3, <1>4, ChangeInv DEF Seen

LEMMA RetargetInv ==
    ASSUME IInv, NEW p \in Profile, NEW v \in Opt(Version), Retarget(p, v)
    PROVE  IInv'
  <1>1. TypeOK
    BY DEF IInv
  <1>2. target' \in [Profile -> Opt(Version)]
    BY <1>1 DEF Retarget, TypeOK
  <1>3. UNCHANGED <<row, alert, missed, poller>>
    BY DEF Retarget
  <1> QED
    BY <1>1, <1>2, <1>3, ChangeInv DEF TypeOK, Noted

LEMMA ResolveInv ==
    ASSUME IInv, NEW d \in Dev, NEW t \in Type, Resolve(d, t)
    PROVE  IInv'
  <1>1. TypeOK
    BY DEF IInv
  <1>2. alert' = [alert EXCEPT ![d][t] = "resolved"] /\ alert[d][t] = "open"
    BY DEF Resolve
  <1>3. alert' \in [Dev -> [Type -> AlertState]]
    BY <1>1, <1>2 DEF TypeOK, AlertState
  <1>4. \A e \in Dev, u \in Type :
           alert'[e][u] = alert[e][u] \/ alert[e][u] = "open"
    BY <1>1, <1>2 DEF TypeOK
  <1>5. UNCHANGED <<row, target, missed, poller>>
    BY DEF Resolve
  <1> QED
    BY <1>1, <1>3, <1>4, <1>5, ChangeInv DEF TypeOK, Noted

LEMMA ChangesInv ==
    ASSUME IInv, Change
    PROVE  IInv'
  <1>1. ASSUME NEW d \in Dev, Register(d) PROVE IInv'
    BY <1>1, RegisterInv
  <1>2. ASSUME NEW d \in Dev, Delete(d) PROVE IInv'
    BY <1>2, DeleteInv
  <1>3. ASSUME NEW d \in Dev, Seen(d) PROVE IInv'
    BY <1>3, SeenInv
  <1>4. ASSUME NEW d \in Dev, NEW s \in {"provisioned", "failed", "other"},
               SetStatus(d, s)
        PROVE  IInv'
    <2>1. d \in Live /\ row[d] \in Row
      BY <1>4, LiveRows DEF SetStatus, IInv
    <2>2. [row[d] EXCEPT !.status = s] \in Row
      BY <2>1, RowUpdates
    <2>3. [row[d] EXCEPT !.status = s].seen = row[d].seen
      BY <2>1 DEF Row
    <2> QED
      BY <1>4, <2>1, <2>2, <2>3, ColumnInv DEF SetStatus
  <1>5. ASSUME NEW d \in Dev, NEW p \in Opt(Profile), Assign(d, p) PROVE IInv'
    <2>1. d \in Live /\ row[d] \in Row
      BY <1>5, LiveRows DEF Assign, IInv
    <2>2. [row[d] EXCEPT !.profile = p] \in Row
      BY <2>1, RowUpdates
    <2>3. [row[d] EXCEPT !.profile = p].seen = row[d].seen
      BY <2>1 DEF Row
    <2> QED
      BY <1>5, <2>1, <2>2, <2>3, ColumnInv DEF Assign
  <1>6. ASSUME NEW d \in Dev, NEW v \in Version, CheckFirmware(d, v) PROVE IInv'
    <2>1. d \in Live /\ row[d] \in Row
      BY <1>6, LiveRows DEF CheckFirmware, IInv
    <2>2. [row[d] EXCEPT !.firmware = v] \in Row
      BY <2>1, RowUpdates
    <2>3. [row[d] EXCEPT !.firmware = v].seen = row[d].seen
      BY <2>1 DEF Row
    <2> QED
      BY <1>6, <2>1, <2>2, <2>3, ColumnInv DEF CheckFirmware
  <1>7. ASSUME NEW d \in Dev, NEW t \in Type, Resolve(d, t) PROVE IInv'
    BY <1>7, ResolveInv
  <1>8. ASSUME NEW p \in Profile, NEW v \in Opt(Version), Retarget(p, v)
        PROVE  IInv'
    BY <1>8, RetargetInv
  <1> QED
    BY <1>1, <1>2, <1>3, <1>4, <1>5, <1>6, <1>7, <1>8 DEF Change

LEMMA NextInv == IInv /\ [Next]_vars => IInv'
  <1> SUFFICES ASSUME IInv, [Next]_vars PROVE IInv'
    OBVIOUS
  <1>1. CASE Tick
    BY <1>1, TickInv
  <1>2. CASE ReadDevices \/ ReadProfiles
    BY <1>2, ReadDevicesInv, ReadProfilesInv
  <1>3. CASE \E d \in Dev : Step(d) \/ PingAnswered(d) \/ PingLost(d)
    BY <1>3, EvaluateInv, PingInv DEF Step
  <1>4. CASE Change
    BY <1>4, ChangesInv
  <1>5. CASE Failure
    BY <1>5, ReadDevicesFailsInv, ReadProfilesInv, EvaluateFailsInv, PingUnrecordedInv
       DEF Failure
  <1>6. CASE UNCHANGED vars
    BY <1>6 DEF vars, IInv, TypeOK, TicksApart, AlertsHaveDevices, Live,
                SteadyFresh, Fresh, Allowed, SteadyNeverOffline
  <1> QED
    BY <1>1, <1>2, <1>3, <1>4, <1>5, <1>6 DEF Next

LEMMA Invariance == Spec => []IInv
  BY InitInv, NextInv, PTL DEF Spec

-----------------------------------------------------------------------------
(* Every variable of the poller keeps its type. *)
THEOREM TypeCorrect == Spec => []TypeOK
  <1>1. IInv => TypeOK
    BY DEF IInv
  <1> QED
    BY <1>1, Invariance, PTL

(* No alert outlives its device, or is raised for one that is gone.        *)
THEOREM NoOrphanAlert == Spec => []AlertsHaveDevices
  <1>1. IInv => AlertsHaveDevices
    BY DEF IInv
  <1> QED
    BY <1>1, Invariance, PTL

(* A device that answers its pings is never reported offline, whatever the *)
(* limit, provided at most Limit - 2 chances in a row to note it fail.     *)
THEOREM SteadyStaysOnline == Spec => []SteadyNeverOffline
  <1>1. IInv => SteadyNeverOffline
    BY DEF IInv
  <1> QED
    BY <1>1, Invariance, PTL

-----------------------------------------------------------------------------
(* Alerts follow devices.  What a tick has read may be out of date in any  *)
(* column; the next tick that reads all devices puts that right, and       *)
(* Settled, which it leads to, lasts as long as things are routine.        *)

(* One tick at a time. *)
OneTick ==
    /\ due => pc = "idle" /\ todo = {}
    /\ pc = "profiles" => ~due /\ todo = {}

SteadyInTime == \A d \in Steady : ~Overdue(row[d])

PollerInv == IInv /\ OneTick /\ SteadyInTime

LEMMA OneTickKept == OneTick /\ [Next]_vars => OneTick'
  <1> SUFFICES ASSUME OneTick, [Next]_vars PROVE OneTick'
    OBVIOUS
  <1>1. CASE Tick \/ ReadDevices \/ ReadDevicesFails \/ ReadProfiles \/ ReadProfilesFails
    BY <1>1 DEF OneTick, Tick, ReadDevices, ReadDevicesFails, ReadProfiles, ReadProfilesFails
  <1>2. ASSUME NEW d \in Dev, NEW t \in Type, Evaluate(d, t) \/ EvaluateFails(d, t)
        PROVE  OneTick'
    BY <1>2 DEF OneTick, Evaluate, EvaluateFails
  <1>3. ASSUME UNCHANGED <<due, pc, todo>> PROVE OneTick'
    BY <1>3 DEF OneTick
  <1>4. ASSUME NEW d \in Dev, PingAnswered(d) \/ PingLost(d) \/ PingUnrecorded(d)
        PROVE  OneTick'
    BY <1>3, <1>4 DEF PingAnswered, PingLost, PingUnrecorded
  <1>5. CASE Change
    BY <1>3, <1>5 DEF Change, Register, Delete, Seen, SetStatus, Assign, CheckFirmware,
                      Resolve, Retarget, poller
  <1>6. CASE UNCHANGED vars
    BY <1>3, <1>6 DEF vars
  <1> QED
    BY <1>1, <1>2, <1>4, <1>5, <1>6 DEF Next, Step, Failure

(* Only the clock makes a device older. *)
LEMMA OnlyTicksAge ==
    ASSUME TypeOK, [Next]_vars, ~Tick, NEW d \in Dev
    PROVE  row'[d].seen \in {row[d].seen, 0, NULL}
  <1>1. CASE UNCHANGED row
    BY <1>1
  <1>2. ASSUME NEW e \in Dev, Hear(e) PROVE row'[d].seen \in {row[d].seen, 0, NULL}
    BY <1>2, HearRows
  <1>3. ASSUME NEW e \in Dev, Register(e) \/ Delete(e)
        PROVE  row'[d].seen \in {row[d].seen, 0, NULL}
    <2>1. NewRow.seen = NULL /\ NoRow.seen = NULL
      BY DEF NewRow, NoRow
    <2>2. row' = [row EXCEPT ![e] = NewRow] \/ row' = [row EXCEPT ![e] = NoRow]
      BY <1>3 DEF Register, Delete
    <2> QED
      BY <2>1, <2>2 DEF TypeOK
  <1>4. ASSUME NEW e \in Live, NEW x,
               \/ row' = [row EXCEPT ![e].status = x]
               \/ row' = [row EXCEPT ![e].profile = x]
               \/ row' = [row EXCEPT ![e].firmware = x]
        PROVE  row'[d].seen \in {row[d].seen, 0, NULL}
    <2>1. row[e] \in Row /\ e \in Dev
      BY LiveRows
    <2>2. CASE row' = [row EXCEPT ![e].status = x]
      BY <2>1, <2>2 DEF TypeOK, Row
    <2>3. CASE row' = [row EXCEPT ![e].profile = x]
      BY <2>1, <2>3 DEF TypeOK, Row
    <2>4. CASE row' = [row EXCEPT ![e].firmware = x]
      BY <2>1, <2>4 DEF TypeOK, Row
    <2> QED
      BY <1>4, <2>2, <2>3, <2>4
  <1>5. ASSUME NEW e \in Dev,
               PingAnswered(e) \/ PingLost(e) \/ PingUnrecorded(e) \/ Seen(e)
        PROVE  row'[d].seen \in {row[d].seen, 0, NULL}
    BY <1>1, <1>2, <1>5 DEF PingAnswered, PingLost, PingUnrecorded, Seen
  <1>6. ASSUME NEW e \in Dev,
               \/ \E s \in {"provisioned", "failed", "other"} : SetStatus(e, s)
               \/ \E p \in Opt(Profile) : Assign(e, p)
               \/ \E v \in Version : CheckFirmware(e, v)
        PROVE  row'[d].seen \in {row[d].seen, 0, NULL}
    BY <1>4, <1>6 DEF SetStatus, Assign, CheckFirmware
  <1>7. ASSUME NEW e \in Dev, NEW t \in Type,
               Evaluate(e, t) \/ EvaluateFails(e, t) \/ Resolve(e, t)
        PROVE  row'[d].seen \in {row[d].seen, 0, NULL}
    BY <1>1, <1>7 DEF Evaluate, EvaluateFails, Resolve
  <1>8. CASE \/ ReadDevices \/ ReadProfiles \/ ReadDevicesFails \/ ReadProfilesFails
             \/ (\E p \in Profile, v \in Opt(Version) : Retarget(p, v)) \/ UNCHANGED vars
    BY <1>1, <1>8 DEF ReadDevices, ReadProfiles, ReadDevicesFails, ReadProfilesFails,
                      Retarget, vars
  <1> QED
    BY <1>3, <1>5, <1>6, <1>7, <1>8 DEF Next, Step, Change, Failure

LEMMA SteadyInTimeKept ==
    ASSUME IInv, SteadyInTime, [Next]_vars
    PROVE  SteadyInTime'
  <1> SUFFICES ASSUME NEW d \in Steady PROVE ~Overdue(row[d])'
    BY DEF SteadyInTime
  <1>1. d \in Dev /\ TypeOK /\ ~Overdue(row[d])
    BY SetAssumption DEF IInv, SteadyInTime
  <1>2. CASE Tick
    <2>1. IInv'
      BY NextInv
    <2>2. pings' = {} /\ due' /\ missed' = missed /\ missed[d] \in 0 .. MaxMissed
      BY <1>1, <1>2 DEF Tick, TypeOK
    <2>3. row'[d].seen = NULL \/ row'[d].seen <= 2 + missed[d]
      BY <2>1, <2>2, TimeAssumption DEF IInv, SteadyFresh, Fresh, Allowed
    <2>4. row'[d].seen = NULL \/ row'[d].seen \in Nat
      BY <1>1, <2>1, TimeAssumption DEF IInv, TypeOK, Row, NoRow, Opt, Age
    <2> QED
      BY <2>2, <2>3, <2>4, TimeAssumption DEF Overdue
  <1>3. CASE ~Tick
    <2>1. row'[d].seen \in {row[d].seen, 0, NULL}
      BY <1>1, <1>3, OnlyTicksAge
    <2> QED
      BY <1>1, <2>1, TimeAssumption DEF Overdue
  <1> QED
    BY <1>2, <1>3

LEMMA PollerInvariance == Spec => []PollerInv
  <1>1. Init => OneTick /\ SteadyInTime
    BY SetAssumption DEF Init, OneTick, SteadyInTime, Overdue, NoRow
  <1>2. PollerInv /\ [Next]_vars => PollerInv'
    BY NextInv, OneTickKept, SteadyInTimeKept DEF PollerInv
  <1> QED
    BY <1>1, <1>2, InitInv, PTL DEF Spec, PollerInv

-----------------------------------------------------------------------------
(* The types of alerts in question: ts holds "offline" only if the ages of *)
(* all devices have come to rest.                                          *)

(* The age of d no longer matters: it answers pings, or was never heard    *)
(* of, or cannot get any older.                                            *)
Counted(d) == d \in Steady \/ row[d].seen \in {NULL, Limit + 1}

AllCounted == \A d \in Dev : Counted(d)

(* What the tick has read of device d is what the row says. *)
Alike(d, ts) ==
    /\ snap[d].status = row[d].status
    /\ snap[d].profile = row[d].profile
    /\ snap[d].firmware = row[d].firmware
    /\ "offline" \in ts => d \in Steady \/ snap[d].seen = row[d].seen

(* The alert of d and t is as copy r and targets w want it. *)
AsWanted(d, t, r, w) ==
    /\ Raises(r, w, t) => alert[d][t] = "open"
    /\ Clears(r, w, t) => alert[d][t] # "open"

(* The tick under way has read what the rows say, and what it has          *)
(* evaluated is as wanted.                                                 *)
OnCourse(ts) ==
    /\ \A d \in Live : Alike(d, ts)
    /\ pc = "idle" =>
         /\ want = target
         /\ \A d \in Live, t \in ts :
              <<d, t>> \notin todo => AsWanted(d, t, snap[d], want)

Settled(ts) ==
    /\ \A d \in Live : Alike(d, ts)
    /\ pc = "idle" => want = target
    /\ \A d \in Live, t \in ts : AsWanted(d, t, row[d], target)

(* A verdict on a copy that is alike is one on the row. *)
LEMMA AlikeVerdict ==
    ASSUME PollerInv, NEW ts \in SUBSET Type, NEW d \in Live, NEW t \in ts, NEW w,
           Alike(d, ts)
    PROVE  AsWanted(d, t, snap[d], w) <=> AsWanted(d, t, row[d], w)
  <1>1. CASE t # "offline"
    BY <1>1 DEF AsWanted, Alike, Raises, Clears, Comparable
  <1>2. CASE t = "offline" /\ d \notin Steady
    BY <1>2 DEF AsWanted, Alike, Raises, Clears, Overdue
  <1>3. CASE t = "offline" /\ d \in Steady
    <2>1. alert[d]["offline"] # "open"
      BY <1>3 DEF PollerInv, IInv, SteadyNeverOffline
    <2>2. ~Overdue(row[d])
      BY <1>3 DEF PollerInv, SteadyInTime
    <2>3. ~Overdue(snap[d])
      <3>1. snap[d].seen = NULL \/ snap[d].seen <= Limit
        BY <1>3 DEF PollerInv, IInv, SteadyFresh
      <3>2. snap[d].seen = NULL \/ snap[d].seen \in Nat
        BY TimeAssumption DEF PollerInv, IInv, TypeOK, Live, Row, NoRow, Opt, Age
      <3> QED
        BY <3>1, <3>2, TimeAssumption DEF Overdue
    <2> QED
      BY <1>3, <2>1, <2>2, <2>3 DEF AsWanted, Raises
  <1> QED
    BY <1>1, <1>2, <1>3

(* What a routine step does to the rows. *)
Carried(d) ==
    /\ row'[d] = NoRow <=> row[d] = NoRow
    /\ row'[d].status = row[d].status
    /\ row'[d].profile = row[d].profile
    /\ row'[d].firmware = row[d].firmware
    /\ Counted(d) => d \in Steady \/ row'[d].seen = row[d].seen
    /\ target' = target

LEMMA RoutineCarries ==
    ASSUME PollerInv, [Routine]_vars, NEW d \in Dev
    PROVE  Carried(d)
  <1>0. TypeOK
    BY DEF PollerInv, IInv
  <1>1. ASSUME UNCHANGED <<row, target>> PROVE Carried(d)
    BY <1>1 DEF Carried
  <1>2. CASE Tick
    <2>1. row'[d] = Older(row[d]) /\ target' = target /\ row[d] \in Row \cup {NoRow}
      BY <1>0, <1>2 DEF Tick, TypeOK
    <2>2. /\ Older(row[d]).status = row[d].status
          /\ Older(row[d]).profile = row[d].profile
          /\ Older(row[d]).firmware = row[d].firmware
          /\ row[d].seen \in {NULL, Limit + 1} => Older(row[d]) = row[d]
      BY <2>1 DEF Older, Row, NoRow
    <2>3. Older(row[d]) = NoRow <=> row[d] = NoRow
      BY <2>1, OlderRow
    <2> QED
      BY <2>1, <2>2, <2>3 DEF Carried, Counted
  <1>3. ASSUME NEW e \in Steady, PingAnswered(e) PROVE Carried(d)
    <2>1. CASE e \in Live
      <3>1. row' = [row EXCEPT ![e] = [row[e] EXCEPT !.seen = 0]] /\ target' = target
        BY <1>3, <2>1 DEF PingAnswered, Hear
      <3>2. row[e] \in Row /\ e \in Dev
        BY <1>0, <2>1, LiveRows
      <3>3. CASE e = d
        <4>1. /\ row'[d] = [row[d] EXCEPT !.seen = 0]
              /\ row[d].status # "absent"
          BY <1>0, <3>1, <3>2, <3>3 DEF TypeOK, Row
        <4>2. /\ row'[d].status = row[d].status
              /\ row'[d].profile = row[d].profile
              /\ row'[d].firmware = row[d].firmware
          BY <3>2, <3>3, <4>1 DEF Row
        <4> QED
          BY <1>3, <3>1, <3>3, <4>1, <4>2 DEF Carried, NoRow
      <3>4. CASE e # d
        BY <1>0, <3>1, <3>4 DEF Carried, TypeOK
      <3> QED
        BY <3>3, <3>4
    <2>2. CASE e \notin Live
      <3>1. row' = [row EXCEPT ![e] = row[e]] /\ target' = target
        BY <1>3, <2>2 DEF PingAnswered, Hear
      <3>2. row' = row
        BY <1>0, <3>1 DEF TypeOK
      <3> QED
        BY <1>1, <3>1, <3>2
    <2> QED
      BY <2>1, <2>2
  <1>4. ASSUME NEW e \in Dev, Step(e) \/ PingLost(e) PROVE Carried(d)
    BY <1>1, <1>4 DEF Step, Evaluate, PingLost
  <1>5. CASE ReadDevices \/ ReadProfiles \/ UNCHANGED vars
    BY <1>1, <1>5 DEF ReadDevices, ReadProfiles, vars
  <1> QED
    BY <1>2, <1>3, <1>4, <1>5 DEF Routine

LEMMA RoutineRows ==
    ASSUME PollerInv, [Routine]_vars, NEW d \in Dev
    PROVE  /\ d \in Live' <=> d \in Live
           /\ row'[d].status = row[d].status
           /\ row'[d].profile = row[d].profile
           /\ row'[d].firmware = row[d].firmware
           /\ Counted(d) => Counted(d)' /\ (d \in Steady \/ row'[d].seen = row[d].seen)
           /\ target' = target
  <1>1. Carried(d)
    BY RoutineCarries
  <1>2. d \in Live' <=> d \in Live
    BY <1>1 DEF Carried, Live
  <1>3. Counted(d) => Counted(d)'
    BY <1>1 DEF Carried, Counted
  <1> QED
    BY <1>1, <1>2, <1>3 DEF Carried

LEMMA RoutineSame ==
    ASSUME PollerInv, [Routine]_vars
    PROVE  Live' = Live /\ target' = target
  <1>1. \A d \in Dev : row'[d] = NoRow <=> row[d] = NoRow
    BY RoutineCarries DEF Carried
  <1>2. target' = target
    <2>1. CASE Tick \/ ReadDevices \/ ReadProfiles \/ UNCHANGED vars
      BY <2>1 DEF Tick, ReadDevices, ReadProfiles, vars
    <2>2. ASSUME NEW d \in Dev, Step(d) \/ PingLost(d) \/ PingAnswered(d)
          PROVE  target' = target
      BY <2>2 DEF Step, Evaluate, PingLost, PingAnswered
    <2> QED
      BY <2>1, <2>2 DEF Routine
  <1> QED
    BY <1>1, <1>2 DEF Live

(* Ages count for the types ts only if "offline" is one of them.           *)
Ages(ts) == "offline" \in ts => AllCounted

LEMMA PollerInvKept ==
    ASSUME PollerInv, [Routine]_vars
    PROVE  PollerInv'
  <1>1. [Next]_vars
    BY DEF Routine, Next
  <1> QED
    BY <1>1, NextInv, OneTickKept, SteadyInTimeKept DEF PollerInv

LEMMA AgesKept ==
    ASSUME PollerInv, [Routine]_vars, NEW ts, Ages(ts)
    PROVE  Ages(ts)'
  BY RoutineRows DEF Ages, AllCounted

(* A copy stays alike until the next one is taken. *)
LEMMA AlikeKept ==
    ASSUME PollerInv, [Routine]_vars, NEW ts, Ages(ts), NEW d \in Dev,
           Alike(d, ts), snap'[d] = snap[d]
    PROVE  Alike(d, ts)'
  <1>1. /\ row'[d].status = row[d].status
        /\ row'[d].profile = row[d].profile
        /\ row'[d].firmware = row[d].firmware
    BY RoutineRows
  <1>2. "offline" \in ts => d \in Steady \/ row'[d].seen = row[d].seen
    BY RoutineRows DEF Ages, AllCounted
  <1> QED
    BY <1>1, <1>2 DEF Alike

LEMMA CopyTaken ==
    ASSUME PollerInv, ReadDevices, NEW ts
    PROVE  /\ pc' = "profiles"
           /\ \A d \in Dev : Alike(d, ts)'
  BY DEF ReadDevices, Alike

LEMMA CopyKept ==
    ASSUME [Routine]_vars, ~ReadDevices
    PROVE  snap' = snap
  <1>1. CASE Tick \/ ReadProfiles \/ UNCHANGED vars
    BY <1>1 DEF Tick, ReadProfiles, vars
  <1>2. ASSUME NEW d \in Dev, Step(d) \/ PingLost(d) \/ PingAnswered(d)
        PROVE  snap' = snap
    BY <1>2 DEF Step, Evaluate, PingLost, PingAnswered
  <1> QED
    BY <1>1, <1>2 DEF Routine

(* What an evaluation makes of the alert it is about, and of the others.   *)
LEMMA EvaluateAlert ==
    ASSUME TypeOK, NEW e \in Dev, NEW u \in Type, Evaluate(e, u)
    PROVE  /\ e \in Live => AsWanted(e, u, snap[e], want)'
           /\ AsWanted(e, u, snap[e], want) => alert' = alert
           /\ \A d \in Dev, t \in Type :
                 <<d, t>> # <<e, u>> => alert'[d][t] = alert[d][t]
  <1>1. alert' = Verdict(e, u) /\ UNCHANGED <<snap, want>>
    BY DEF Evaluate
  <1>2. ~(Raises(snap[e], want, u) /\ Clears(snap[e], want, u))
    BY DEF Raises, Clears
  <1>3. alert \in [Dev -> [Type -> AlertState]]
    BY DEF TypeOK
  <1>4. ASSUME NEW x PROVE alert[e][u] = x => [alert EXCEPT ![e][u] = x] = alert
    BY <1>3
  <1>5. CASE Raises(snap[e], want, u)
    <2>1. alert' = Raised(e, u)
      BY <1>1, <1>5 DEF Verdict
    <2>2. e \in Live => alert'[e][u] = "open"
      BY <1>3, <2>1 DEF Raised
    <2>3. alert[e][u] = "open" => alert' = alert
      BY <1>4, <2>1 DEF Raised
    <2>4. \A d \in Dev, t \in Type : <<d, t>> # <<e, u>> => alert'[d][t] = alert[d][t]
      BY <1>3, <2>1 DEF Raised
    <2> QED
      BY <1>1, <1>2, <1>5, <2>2, <2>3, <2>4 DEF AsWanted
  <1>6. CASE Clears(snap[e], want, u)
    <2>1. alert' = Cleared(e, u)
      BY <1>1, <1>2, <1>6 DEF Verdict
    <2>2. alert'[e][u] # "open"
      BY <1>3, <2>1 DEF Cleared
    <2>3. alert[e][u] # "open" => alert' = alert
      BY <2>1 DEF Cleared
    <2>4. \A d \in Dev, t \in Type : <<d, t>> # <<e, u>> => alert'[d][t] = alert[d][t]
      BY <1>3, <2>1 DEF Cleared
    <2> QED
      BY <1>1, <1>2, <1>6, <2>2, <2>3, <2>4 DEF AsWanted
  <1>7. CASE ~Raises(snap[e], want, u) /\ ~Clears(snap[e], want, u)
    <2>1. alert' = alert
      BY <1>1, <1>7 DEF Verdict
    <2> QED
      BY <1>1, <1>7, <2>1 DEF AsWanted
  <1> QED
    BY <1>5, <1>6, <1>7

(* A tick that starts to read is on course. *)
LEMMA TickTaken ==
    ASSUME PollerInv, [Routine]_vars, due, ~due', NEW ts
    PROVE  OnCourse(ts)'
  <1>1. CASE ReadDevices
    BY <1>1, CopyTaken DEF OnCourse, Live
  <1>2. CASE Tick \/ ReadProfiles \/ UNCHANGED vars
    BY <1>2 DEF Tick, ReadProfiles, vars
  <1>3. ASSUME NEW d \in Dev, Step(d) \/ PingLost(d) \/ PingAnswered(d)
        PROVE  OnCourse(ts)'
    BY <1>3 DEF Step, Evaluate, PingLost, PingAnswered
  <1> QED
    BY <1>1, <1>2, <1>3 DEF Routine

LEMMA CourseKept ==
    ASSUME PollerInv, [Routine]_vars, NEW ts \in SUBSET Type, Ages(ts), OnCourse(ts)
    PROVE  OnCourse(ts)'
  <1>1. CASE ReadDevices
    BY <1>1, CopyTaken DEF OnCourse, Live
  <1>2. CASE ~ReadDevices
    <2>1. snap' = snap /\ target' = target /\ Live' = Live
      BY <1>2, CopyKept, RoutineSame
    <2>2. \A d \in Live' : Alike(d, ts)'
      BY <2>1, AlikeKept DEF OnCourse, Live
    <2>3. ASSUME UNCHANGED <<pc, want, todo, alert>> PROVE OnCourse(ts)'
      <3>1. \A d \in Live', t \in ts :
               AsWanted(d, t, snap[d], want)' <=> AsWanted(d, t, snap[d], want)
        BY <2>1, <2>3 DEF AsWanted
      <3> QED
        BY <2>1, <2>2, <2>3, <3>1 DEF OnCourse
    <2>4. CASE Tick \/ UNCHANGED vars
      BY <2>3, <2>4 DEF Tick, vars
    <2>5. CASE ReadProfiles
      <3>1. want' = target /\ todo' = Evaluations
        BY <2>5 DEF ReadProfiles
      <3>2. ASSUME NEW d \in Live PROVE d \in Dev /\ snap[d] # NoRow
        <4>1. row[d] \in Row /\ d \in Dev
          BY LiveRows DEF PollerInv, IInv
        <4>2. snap[d].status = row[d].status
          BY DEF OnCourse, Alike
        <4> QED
          BY <4>1, <4>2 DEF Row, NoRow
      <3>3. \A d \in Live', t \in ts : <<d, t>> \in todo'
        BY <2>1, <3>1, <3>2 DEF Evaluations
      <3> QED
        BY <2>1, <2>2, <3>1, <3>3 DEF OnCourse
    <2>6. ASSUME NEW e \in Dev, PingLost(e) \/ PingAnswered(e) PROVE OnCourse(ts)'
      BY <2>3, <2>6 DEF PingLost, PingAnswered
    <2>7. ASSUME NEW e \in Dev, NEW u \in Type, Evaluate(e, u) PROVE OnCourse(ts)'
      <3>1. TypeOK /\ want' = want /\ pc' = pc /\ todo' = todo \ {<<e, u>>}
        BY <2>7 DEF Evaluate, PollerInv, IInv
      <3>2. ASSUME NEW d \in Live, NEW t \in ts, <<d, t>> \notin todo', pc = "idle"
            PROVE  AsWanted(d, t, snap[d], want)'
        <4>1. CASE <<d, t>> = <<e, u>>
          BY <2>7, <3>1, <4>1, EvaluateAlert
        <4>2. CASE <<d, t>> # <<e, u>>
          <5>1. AsWanted(d, t, snap[d], want)
            BY <3>1, <3>2, <4>2 DEF OnCourse
          <5>2. alert'[d][t] = alert[d][t]
            BY <2>7, <3>1, <4>2, EvaluateAlert DEF Live
          <5> QED
            BY <2>1, <3>1, <5>1, <5>2 DEF AsWanted
        <4> QED
          BY <4>1, <4>2
      <3> QED
        BY <2>1, <2>2, <3>1, <3>2 DEF OnCourse
    <2> QED
      BY <1>2, <2>4, <2>5, <2>6, <2>7 DEF Routine, Step
  <1> QED
    BY <1>1, <1>2

(* When the next tick is due, the one on course has done what it had to.   *)
LEMMA CourseSettles ==
    ASSUME PollerInv, NEW ts \in SUBSET Type, OnCourse(ts), due
    PROVE  Settled(ts)
  <1>1. pc = "idle" /\ todo = {}
    BY DEF PollerInv, OneTick
  <1>2. ASSUME NEW d \in Live, NEW t \in ts PROVE AsWanted(d, t, row[d], target)
    <2>1. Alike(d, ts) /\ want = target /\ AsWanted(d, t, snap[d], want)
      BY <1>1 DEF OnCourse
    <2> QED
      BY <2>1, AlikeVerdict
  <1> QED
    BY <1>2 DEF OnCourse, Settled

(* As long as the alert stays, so does what the row wants of it. *)
LEMMA WantedKept ==
    ASSUME PollerInv, [Routine]_vars, NEW ts \in SUBSET Type, Ages(ts),
           NEW d \in Live, NEW t \in ts, alert'[d][t] = alert[d][t],
           AsWanted(d, t, row[d], target)
    PROVE  AsWanted(d, t, row[d], target)'
  <1>1. /\ row'[d].status = row[d].status
        /\ row'[d].profile = row[d].profile
        /\ row'[d].firmware = row[d].firmware
        /\ target' = target
        /\ Counted(d) => d \in Steady \/ row'[d].seen = row[d].seen
        /\ d \in Dev
    BY RoutineRows DEF Live
  <1>2. CASE t # "offline"
    BY <1>1, <1>2 DEF AsWanted, Raises, Clears, Comparable
  <1>3. CASE t = "offline" /\ d \notin Steady
    <2>1. row'[d].seen = row[d].seen
      BY <1>1, <1>3 DEF Ages, AllCounted
    <2> QED
      BY <1>1, <1>3, <2>1 DEF AsWanted, Raises, Clears, Overdue
  <1>4. CASE t = "offline" /\ d \in Steady
    <2>1. alert'[d]["offline"] # "open" /\ ~Overdue(row[d])'
      BY <1>4, PollerInvKept DEF PollerInv, IInv, SteadyNeverOffline, SteadyInTime
    <2> QED
      BY <1>4, <2>1 DEF AsWanted, Raises
  <1> QED
    BY <1>2, <1>3, <1>4

LEMMA SettledKept ==
    ASSUME PollerInv, [Routine]_vars, NEW ts \in SUBSET Type, Ages(ts), Settled(ts)
    PROVE  Settled(ts)'
  <1>1. target' = target /\ Live' = Live
    BY RoutineSame
  <1>2. \A d \in Live' : Alike(d, ts)'
    <2>1. CASE ReadDevices
      BY <2>1, CopyTaken DEF Live
    <2>2. CASE ~ReadDevices
      BY <1>1, <2>2, CopyKept, AlikeKept DEF Settled, Live
    <2> QED
      BY <2>1, <2>2
  <1>3. ASSUME UNCHANGED alert, (pc = "idle" => want = target)'
        PROVE  Settled(ts)'
    <2>1. \A d \in Live, t \in ts : AsWanted(d, t, row[d], target)'
      BY <1>3, WantedKept DEF Settled
    <2> QED
      BY <1>1, <1>2, <1>3, <2>1 DEF Settled
  <1>4. CASE Tick \/ ReadDevices \/ ReadProfiles \/ UNCHANGED vars
    BY <1>1, <1>3, <1>4 DEF Tick, ReadDevices, ReadProfiles, vars, Settled
  <1>5. ASSUME NEW e \in Dev, PingLost(e) \/ PingAnswered(e) PROVE Settled(ts)'
    BY <1>1, <1>3, <1>5 DEF PingLost, PingAnswered, Settled
  <1>6. ASSUME NEW e \in Dev, NEW u \in Type, Evaluate(e, u) PROVE Settled(ts)'
    <2>1. TypeOK /\ UNCHANGED <<want, pc>> /\ pc = "idle" /\ want = target
      BY <1>6 DEF Evaluate, PollerInv, IInv, TypeOK, OneTick, Settled
    <2>2. ASSUME NEW d \in Live, NEW t \in ts PROVE alert'[d][t] = alert[d][t]
      <3>1. CASE <<d, t>> = <<e, u>>
        <4>1. AsWanted(d, t, snap[d], want)
          BY <2>1, AlikeVerdict DEF Settled
        <4> QED
          BY <1>6, <2>1, <3>1, <4>1, EvaluateAlert
      <3>2. CASE <<d, t>> # <<e, u>>
        BY <1>6, <2>1, <3>2, EvaluateAlert DEF Live
      <3> QED
        BY <3>1, <3>2
    <2>3. \A d \in Live, t \in ts : AsWanted(d, t, row[d], target)'
      BY <2>2, WantedKept DEF Settled
    <2> QED
      BY <1>1, <1>2, <2>1, <2>3 DEF Settled
  <1> QED
    BY <1>4, <1>5, <1>6 DEF Routine, Step

(* What has settled agrees. *)
LEMMA SettledAgrees ==
    /\ Settled({"failed", "firmware_drift"}) => \A d \in Live : DriftAgrees(d)
    /\ PollerInv /\ Settled(Type) => \A d \in Live : StateAgrees(d)
  <1>1. ASSUME Settled({"failed", "firmware_drift"}), NEW d \in Live
        PROVE  DriftAgrees(d)
    <2>1. AsWanted(d, "firmware_drift", row[d], target)
      BY <1>1 DEF Settled
    <2> QED
      BY <2>1 DEF DriftAgrees, AsWanted, Clears
  <1>2. ASSUME PollerInv, Settled(Type), NEW d \in Live PROVE StateAgrees(d)
    <2>1. AsWanted(d, "failed", row[d], target) /\ AsWanted(d, "offline", row[d], target)
      BY <1>2 DEF Settled, Type
    <2> QED
      BY <2>1 DEF StateAgrees, AsWanted, Raises, Clears
  <1> QED
    BY <1>1, <1>2

(* The drift alerts follow firmware and targets, provided the ticker keeps *)
(* firing and its ticks are taken, for any number of devices.              *)
THEOREM DriftAlertsCatchUp ==
    Spec /\ []<>due /\ []<>(~due) => DriftAlertsFollow
  <1> DEFINE ts == {"failed", "firmware_drift"}
             Catching == OnCourse(ts)
             Caught == Settled(ts)
  <1>1. ts \in SUBSET Type /\ Ages(ts)
    BY DEF Type, Ages
  <1>2. PollerInv /\ [Routine]_vars /\ due => Catching' \/ due'
    BY TickTaken
  <1>3. PollerInv /\ [Routine]_vars /\ Catching => Catching'
    BY <1>1, CourseKept
  <1>4. PollerInv /\ Catching /\ due => Caught
    BY <1>1, CourseSettles
  <1>5. PollerInv /\ [Routine]_vars /\ Caught => Caught'
    BY <1>1, SettledKept
  <1>6. Caught => \A d \in Live : DriftAgrees(d)
    BY SettledAgrees
  <1> HIDE DEF Catching, Caught
  <1> QED
    BY <1>2, <1>3, <1>4, <1>5, <1>6, PollerInvariance, PTL DEF DriftAlertsFollow

(* So do the failed and the offline alerts the state of the devices, if    *)
(* moreover the silent devices, which every tick makes older, are in the   *)
(* end as old as they get.                                                 *)
THEOREM StateAlertsCatchUp ==
    /\ Spec /\ []<>due /\ []<>(~due)
    /\ <>[][Routine]_vars => []<>AllCounted
    => StateAlertsFollow
  <1> DEFINE Aged == Ages(Type)
             Catching == OnCourse(Type)
             Caught == Settled(Type)
  <1>1. AllCounted => Aged
    BY DEF Ages
  <1>2. PollerInv /\ [Routine]_vars /\ Aged => Aged'
    BY AgesKept
  <1>3. PollerInv /\ [Routine]_vars /\ due => Catching' \/ due'
    BY TickTaken
  <1>4. PollerInv /\ [Routine]_vars /\ Aged /\ Catching => Catching'
    BY CourseKept
  <1>5. PollerInv /\ Catching /\ due => Caught
    BY CourseSettles
  <1>6. PollerInv /\ [Routine]_vars /\ Aged /\ Caught => Caught'
    BY SettledKept
  <1>7. PollerInv /\ Caught => \A d \in Live : StateAgrees(d)
    BY SettledAgrees
  <1> HIDE DEF Aged, Catching, Caught
  <1> QED
    BY <1>1, <1>2, <1>3, <1>4, <1>5, <1>6, <1>7, PollerInvariance, PTL
       DEF StateAlertsFollow
=============================================================================
