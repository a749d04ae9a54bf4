----------------------------- MODULE PagesProofs -----------------------------
(***************************************************************************)
(* The safety properties of the bulk actions (Fleet), for every number of  *)
(* devices and runs, of the modals that push a configuration and show how  *)
(* two of them differ (Drift), for any two configurations, and of the      *)
(* screens that MCPages puts side by side.                                 *)
(***************************************************************************)
EXTENDS MCPages, SequenceFacts

-----------------------------------------------------------------------------
(* Fleet *)

(* A bar that is not there has no run. *)
BarGone == ~bar.there => bar = NoBar

(* A request of a run is out, succeeded or failed. *)
Apart ==
    \A n \in Run :
        /\ runs[n].asked \cap runs[n].ok = {}
        /\ runs[n].asked \cap runs[n].failed = {}
        /\ runs[n].ok \cap runs[n].failed = {}

Deletes(n) == runs[n].action = "delete"

(* A deleted device stays deleted, and a list that was read after the run  *)
(* had ended does not have it: whatever ends a run makes the list be read  *)
(* again.                                                                  *)
Deleted ==
    /\ \A n \in Run : Deletes(n) => runs[n].ok \cap devices = {}
    /\ refresh.state = "read" =>
        \A n \in Run : Deletes(n) /\ runs[n].asked = {} => runs[n].ok \cap refresh.list = {}

FleetInv == FleetTypeOK /\ BarGone /\ Apart /\ Deleted /\ ResultsAreTrue /\ DeletedLeaveList

LEMMA Bars ==
    /\ NoBar \in [there : BOOLEAN, run : Run \cup {0}, ops : Ops]
    /\ NewBar \in [there : BOOLEAN, run : Run \cup {0}, ops : Ops]
    /\ ~NoBar.there /\ NewBar.there /\ NoBar.run = 0 /\ NewBar.run = 0
  <1>1. NoOps \in [{} -> {"pending", "ok", "error"}]
    BY DEF NoOps
  <1>2. {} \in SUBSET Dev
    OBVIOUS
  <1>3. NoOps \in Ops
    BY <1>1, <1>2 DEF Ops
  <1> QED
    BY <1>3 DEF NoBar, NewBar

LEMMA Refreshes ==
    /\ AtRest \in [state : {"idle", "asked", "read"}, list : SUBSET Dev]
    /\ Awaited \in [state : {"idle", "asked", "read"}, list : SUBSET Dev]
    /\ \A list \in SUBSET Dev :
         [state |-> "read", list |-> list] \in [state : {"idle", "asked", "read"}, list : SUBSET Dev]
  BY DEF AtRest, Awaited

LEMMA FleetInitInv == FleetInit => FleetInv
  <1> SUFFICES ASSUME FleetInit PROVE FleetInv
    OBVIOUS
  <1>1. NoRun \in RunState
    BY DEF NoRun, RunState
  <1>2. FleetTypeOK
    BY <1>1, Bars DEF FleetInit, FleetTypeOK, Awaited
  <1>3. BarGone /\ ResultsAreTrue
    BY Bars DEF FleetInit, BarGone, ResultsAreTrue
  <1>4. Apart /\ Deleted
    BY DEF FleetInit, Apart, Deleted, Deletes, NoRun, Awaited
  <1>5. DeletedLeaveList
    BY DEF FleetInit, DeletedLeaveList, NoRun
  <1> QED
    BY <1>2, <1>3, <1>4, <1>5 DEF FleetInv

(* Rendering keeps a bar as it is, removes it, or puts a new one there. *)
LEMMA RenderedBars ==
    ASSUME FleetInv, NEW list, NEW boxes
    PROVE  /\ Rendered(bar, list, boxes) \in [there : BOOLEAN, run : Run \cup {0}, ops : Ops]
           /\ Rendered(bar, list, boxes) \in {bar, NoBar, NewBar}
           /\ ~Rendered(bar, list, boxes).there => Rendered(bar, list, boxes) = NoBar
           /\ bar.run # 0 => Rendered(bar, list, boxes) \in {bar, NoBar}
  <1>1. ~bar.there => bar.run = 0
    BY Bars DEF FleetInv, BarGone
  <1> QED
    BY <1>1, Bars DEF Rendered, FleetInv, FleetTypeOK, BarGone

(* A step that renders the page, and changes no run and no device. *)
LEMMA RenderStep ==
    ASSUME FleetInv, NEW list, NEW boxes,
           bar' = Rendered(bar, list, boxes),
           UNCHANGED <<devices, runs>>,
           listed' \subseteq Dev, checked' \subseteq Dev, unsure' \in BOOLEAN,
           refresh' \in [state : {"idle", "asked", "read"}, list : SUBSET Dev],
           \/ UNCHANGED <<listed, refresh, unsure>>
           \/ refresh.state = "read" /\ refresh' = AtRest /\ listed' = refresh.list
    PROVE  FleetInv'
  <1>1. FleetTypeOK'
    BY RenderedBars DEF FleetInv, FleetTypeOK
  <1>2. BarGone'
    BY RenderedBars, Bars DEF BarGone, NoBar
  <1>3. Apart'
    BY DEF FleetInv, Apart
  <1>4. Deleted'
    BY DEF FleetInv, Deleted, Deletes, AtRest
  <1>5. ResultsAreTrue'
    BY RenderedBars, Bars DEF FleetInv, ResultsAreTrue
  <1>6. DeletedLeaveList'
    BY DEF FleetInv, Deleted, Deletes, DeletedLeaveList
  <1> QED
    BY <1>1, <1>2, <1>3, <1>4, <1>5, <1>6 DEF FleetInv

LEMMA BoxesInv ==
    ASSUME FleetInv, (\E d \in Dev : Toggle(d)) \/ ToggleAll \/ Clear \/ Dismiss
    PROVE  FleetInv'
  <1>1. PICK boxes : boxes \subseteq Dev /\ Check(boxes)
    BY DEF Toggle, ToggleAll, Clear, Dismiss, FleetInv, FleetTypeOK
  <1>2. UNCHANGED <<devices, listed, refresh, runs, unsure>>
    BY DEF Toggle, ToggleAll, Clear, Dismiss
  <1> QED
    BY <1>1, <1>2, RenderStep DEF Check, FleetInv, FleetTypeOK

LEMMA ListArrivesInv == ASSUME FleetInv, ListArrives PROVE FleetInv'
  <1>1. /\ AtRest \in [state : {"idle", "asked", "read"}, list : SUBSET Dev]
        /\ refresh.list \subseteq Dev
    BY DEF AtRest, FleetInv, FleetTypeOK
  <1> QED
    BY <1>1, RenderStep DEF ListArrives, FleetInv, FleetTypeOK

(* The list is asked for or read, a fetch of it fails, a device goes. *)
LEMMA ListInv ==
    ASSUME FleetInv,
           AskList \/ ReadList \/ ListFails \/ \E d \in Dev : OthersDelete(d)
    PROVE  FleetInv'
  <1>1. FleetTypeOK'
    <2>1. refresh' \in [state : {"idle", "asked", "read"}, list : SUBSET Dev] /\ unsure' \in BOOLEAN
      BY Refreshes DEF FleetInv, FleetTypeOK, AskList, ReadList, ListFails, OthersDelete
    <2>2. /\ devices' \subseteq Dev
          /\ UNCHANGED <<listed, checked, bar, runs>>
      BY DEF FleetInv, FleetTypeOK, AskList, ReadList, ListFails, OthersDelete
    <2> QED
      BY <2>1, <2>2 DEF FleetInv, FleetTypeOK
  <1>2. BarGone' /\ Apart' /\ ResultsAreTrue'
    BY DEF FleetInv, BarGone, Apart, ResultsAreTrue, AskList, ReadList, ListFails, OthersDelete
  <1>3. Deleted'
    BY DEF FleetInv, Deleted, Deletes, AskList, ReadList, ListFails, OthersDelete, AtRest, Awaited
  <1>4. DeletedLeaveList'
    BY DEF FleetInv, DeletedLeaveList, AskList, ReadList, ListFails, OthersDelete, AtRest, Awaited
  <1> QED
    BY <1>1, <1>2, <1>3, <1>4 DEF FleetInv

-----------------------------------------------------------------------------
(* A step of run n: its requests are sent, or one of them is answered.  r  *)
(* is what becomes of the run, b what its step makes of the bar before     *)
(* Settled looks at it.                                                    *)
LEMMA RunStep ==
    ASSUME FleetInv, NEW n \in Run, NEW r \in RunState,
           NEW b \in [there : BOOLEAN, run : Run \cup {0}, ops : Ops],
           runs' = [runs EXCEPT ![n] = r],
           r.asked \cap r.ok = {}, r.asked \cap r.failed = {}, r.ok \cap r.failed = {},
           devices' \subseteq devices,
           r.action = "delete" => r.ok \cap devices' = {},
           UNCHANGED listed,
           Settled(b, r.action, r.asked),
           ~b.there => b = NoBar,
           b.there /\ b.run = n =>
              /\ DOMAIN b.ops = r.asked \cup r.ok \cup r.failed
              /\ \A d \in DOMAIN b.ops :
                    b.ops[d] = IF d \in r.asked THEN "pending" ELSE IF d \in r.ok THEN "ok" ELSE "error",
           b.there /\ b.run # n => b = bar
    PROVE  FleetInv'
  <1>1. bar' \in {b, NoBar} /\ checked' \in {{}, checked}
    BY DEF Settled
  <1>2. \/ refresh' = Awaited /\ unsure' = FALSE
        \/ r.asked # {} /\ UNCHANGED <<refresh, unsure>>
    BY DEF Settled
  <1>3. /\ runs'[n] = r
        /\ \A m \in Run : m # n => runs'[m] = runs[m]
    BY DEF FleetInv, FleetTypeOK
  <1>4. FleetTypeOK'
    <2>1. bar' \in [there : BOOLEAN, run : Run \cup {0}, ops : Ops]
      BY <1>1, Bars
    <2>2. runs' \in [Run -> RunState]
      BY DEF FleetInv, FleetTypeOK
    <2>3. refresh' \in [state : {"idle", "asked", "read"}, list : SUBSET Dev] /\ unsure' \in BOOLEAN
      BY <1>2, Refreshes DEF FleetInv, FleetTypeOK
    <2>4. checked' \subseteq Dev /\ devices' \subseteq Dev /\ listed' \subseteq Dev
      BY <1>1 DEF FleetInv, FleetTypeOK
    <2> QED
      BY <2>1, <2>2, <2>3, <2>4 DEF FleetTypeOK
  <1>5. BarGone'
    BY <1>1 DEF BarGone, NoBar
  <1>6. Apart'
    BY <1>3 DEF FleetInv, Apart
  <1>7. Deleted'
    <2>1. ASSUME NEW m \in Run, runs'[m].action = "delete"
          PROVE  runs'[m].ok \cap devices' = {}
      BY <1>3, <2>1 DEF FleetInv, Deleted, Deletes
    <2>2. ASSUME NEW m \in Run, refresh'.state = "read",
                 runs'[m].action = "delete", runs'[m].asked = {}
          PROVE  runs'[m].ok \cap refresh'.list = {}
      <3>1. UNCHANGED refresh /\ m # n
        BY <1>2, <1>3, <2>2 DEF Awaited
      <3> QED
        BY <1>3, <2>2, <3>1 DEF FleetInv, Deleted, Deletes
    <2> QED
      BY <2>1, <2>2 DEF Deleted, Deletes
  <1>8. ResultsAreTrue'
    <2>1. CASE bar' = NoBar
      BY <2>1, Bars DEF ResultsAreTrue
    <2>2. CASE bar' = b /\ b.there /\ b.run = n
      BY <1>3, <2>2 DEF ResultsAreTrue
    <2>3. CASE bar' = b /\ b.there /\ b.run # n
      <3>1. bar' = bar
        BY <2>3
      <3>2. bar.run # 0 => bar.run \in Run /\ bar.run # n
        BY <2>3 DEF FleetInv, FleetTypeOK
      <3> QED
        BY <1>3, <3>1, <3>2 DEF FleetInv, ResultsAreTrue
    <2>4. CASE ~b.there
      BY <1>1, <2>4, Bars DEF ResultsAreTrue
    <2> QED
      BY <1>1, <2>1, <2>2, <2>3, <2>4
  <1>9. DeletedLeaveList'
    <2>1. ASSUME NEW m \in Run, refresh' = AtRest, ~unsure',
                 runs'[m].action = "delete", runs'[m].asked = {}
          PROVE  runs'[m].ok \cap listed' = {}
      <3>1. UNCHANGED <<refresh, unsure>> /\ m # n
        BY <1>2, <1>3, <2>1 DEF Awaited, AtRest
      <3> QED
        BY <1>3, <2>1, <3>1 DEF FleetInv, DeletedLeaveList
    <2> QED
      BY <2>1 DEF DeletedLeaveList
  <1> QED
    BY <1>4, <1>5, <1>6, <1>7, <1>8, <1>9 DEF FleetInv

LEMMA StartRunInv == ASSUME FleetInv, NEW action \in Action, StartRun(action) PROVE FleetInv'
  <1>1. PICK n \in Unused :
            /\ runs' = [runs EXCEPT ![n] = [action |-> action, asked |-> Chosen, ok |-> {}, failed |-> {}]]
            /\ Settled([bar EXCEPT !.run = n, !.ops = [d \in Chosen |-> "pending"]], action, Chosen)
    BY DEF StartRun
  <1> DEFINE r == [action |-> action, asked |-> Chosen, ok |-> {}, failed |-> {}]
             ops == [d \in Chosen |-> "pending"]
             b == [bar EXCEPT !.run = n, !.ops = ops]
  <1>2. n \in Run
    BY DEF Unused
  <1>3. Chosen \subseteq Dev
    BY DEF Chosen, FleetInv, FleetTypeOK
  <1>4. r \in RunState /\ r.action = action /\ r.asked = Chosen /\ r.ok = {} /\ r.failed = {}
    BY <1>3 DEF RunState
  <1>5. ops \in Ops
    <2>1. ops \in [Chosen -> {"pending", "ok", "error"}]
      OBVIOUS
    <2> QED
      BY <1>3, <2>1 DEF Ops
  <1>6. /\ DOMAIN ops = Chosen
        /\ \A d \in Chosen : ops[d] = "pending"
    OBVIOUS
  <1> HIDE DEF ops
  <1>7. /\ b \in [there : BOOLEAN, run : Run \cup {0}, ops : Ops]
        /\ b.there = bar.there /\ b.run = n /\ b.ops = ops
    BY <1>2, <1>5 DEF FleetInv, FleetTypeOK
  <1>8. b.there
    BY <1>7 DEF StartRun, Ready
  <1>10. runs' = [runs EXCEPT ![n] = r] /\ Settled(b, r.action, r.asked)
    BY <1>1, <1>4 DEF ops
  <1> HIDE DEF r, b
  <1>11. UNCHANGED <<devices, listed>>
    BY DEF StartRun
  <1>12. /\ DOMAIN b.ops = r.asked \cup r.ok \cup r.failed
         /\ \A d \in DOMAIN b.ops :
              b.ops[d] = IF d \in r.asked THEN "pending" ELSE IF d \in r.ok THEN "ok" ELSE "error"
    BY <1>4, <1>6, <1>7
  <1> QED
    BY <1>2, <1>4, <1>7, <1>8, <1>10, <1>11, <1>12, RunStep

(* What the bar of a run shows of one device. *)
LEMMA UpdatedBar ==
    ASSUME FleetInv, NEW n \in Run, NEW d \in Dev, NEW status \in {"ok", "error"}
    PROVE  /\ Updated(n, d, status) \in [there : BOOLEAN, run : Run \cup {0}, ops : Ops]
           /\ Updated(n, d, status).there = bar.there
           /\ Updated(n, d, status).run = bar.run
           /\ bar.there /\ bar.run = n =>
                /\ DOMAIN Updated(n, d, status).ops = DOMAIN bar.ops
                /\ \A e \in DOMAIN bar.ops :
                     Updated(n, d, status).ops[e] = IF e = d THEN status ELSE bar.ops[e]
           /\ ~(bar.there /\ bar.run = n) => Updated(n, d, status) = bar
  <1>1. CASE bar.there /\ bar.run = n
    <2> DEFINE ops == [e \in DOMAIN bar.ops |-> IF e = d THEN status ELSE bar.ops[e]]
    <2>1. PICK S \in SUBSET Dev : bar.ops \in [S -> {"pending", "ok", "error"}]
      BY DEF FleetInv, FleetTypeOK, Ops
    <2>2. ops \in [S -> {"pending", "ok", "error"}]
      BY <2>1
    <2>3. ops \in Ops
      BY <2>1, <2>2 DEF Ops
    <2>4. Updated(n, d, status) = [bar EXCEPT !.ops = ops]
      BY <1>1 DEF Updated
    <2>5. DOMAIN ops = DOMAIN bar.ops
          /\ \A e \in DOMAIN bar.ops : ops[e] = IF e = d THEN status ELSE bar.ops[e]
      OBVIOUS
    <2> HIDE DEF ops
    <2> QED
      BY <1>1, <2>3, <2>4, <2>5 DEF FleetInv, FleetTypeOK
  <1>2. CASE ~(bar.there /\ bar.run = n)
    BY <1>2 DEF Updated, FleetInv, FleetTypeOK
  <1> QED
    BY <1>1, <1>2

LEMMA AnsweredInv ==
    ASSUME FleetInv, NEW n \in Run, NEW d \in Dev, Succeed(n, d) \/ Fail(n, d)
    PROVE  FleetInv'
  <1>1. PICK status \in {"ok", "error"} :
            \/ status = "ok" /\ Succeed(n, d)
            \/ status = "error" /\ Fail(n, d)
    OBVIOUS
  <1> DEFINE r == [action |-> runs[n].action, asked |-> runs[n].asked \ {d},
                   ok |-> IF status = "ok" THEN runs[n].ok \cup {d} ELSE runs[n].ok,
                   failed |-> IF status = "ok" THEN runs[n].failed ELSE runs[n].failed \cup {d}]
             b == Updated(n, d, status)
  <1>2. runs[n] \in RunState /\ d \in runs[n].asked
    BY <1>1 DEF Succeed, Fail, FleetInv, FleetTypeOK
  <1>3. r \in RunState
    BY <1>2 DEF RunState
  <1>4. runs' = [runs EXCEPT ![n] = r]
    BY <1>1, <1>2 DEF Succeed, Fail, RunState
  <1>5. /\ r.asked \cap r.ok = {} /\ r.asked \cap r.failed = {} /\ r.ok \cap r.failed = {}
        /\ d \notin runs[n].ok /\ d \notin runs[n].failed
    BY <1>2 DEF FleetInv, Apart, RunState
  <1>6. /\ devices' \subseteq devices
        /\ r.action = "delete" => r.ok \cap devices' = {}
    BY <1>1, <1>2 DEF Succeed, Fail, FleetInv, Deleted, Deletes, RunState
  <1>7. UNCHANGED listed /\ Settled(b, r.action, r.asked)
    BY <1>1 DEF Succeed, Fail
  <1>8. ASSUME b.there, b.run = n
        PROVE  /\ DOMAIN b.ops = r.asked \cup r.ok \cup r.failed
               /\ \A e \in DOMAIN b.ops :
                    b.ops[e] = IF e \in r.asked THEN "pending" ELSE IF e \in r.ok THEN "ok" ELSE "error"
    <2>1. /\ bar.there /\ bar.run = n /\ bar.run # 0
          /\ DOMAIN b.ops = DOMAIN bar.ops
          /\ \A e \in DOMAIN bar.ops : b.ops[e] = IF e = d THEN status ELSE bar.ops[e]
      BY <1>8, UpdatedBar DEF Run
    <2>2. /\ DOMAIN bar.ops = runs[n].asked \cup runs[n].ok \cup runs[n].failed
          /\ \A e \in DOMAIN bar.ops :
                bar.ops[e] = IF e \in runs[n].asked THEN "pending" ELSE IF e \in runs[n].ok THEN "ok" ELSE "error"
      BY <2>1 DEF FleetInv, ResultsAreTrue
    <2>3. CASE status = "ok"
      BY <1>2, <1>5, <2>1, <2>2, <2>3
    <2>4. CASE status = "error"
      BY <1>2, <1>5, <2>1, <2>2, <2>4
    <2> QED
      BY <2>3, <2>4
  <1>9. /\ b \in [there : BOOLEAN, run : Run \cup {0}, ops : Ops]
        /\ ~b.there => b = NoBar
        /\ b.there /\ b.run # n => b = bar
    BY UpdatedBar DEF FleetInv, BarGone
  <1> HIDE DEF r, b
  <1> QED
    BY <1>3, <1>4, <1>5, <1>6, <1>7, <1>8, <1>9, RunStep

LEMMA FleetNextInv == FleetInv /\ [FleetNext]_fleetVars => FleetInv'
  <1> SUFFICES ASSUME FleetInv, [FleetNext]_fleetVars PROVE FleetInv'
    OBVIOUS
  <1>1. CASE (\E d \in Dev : Toggle(d)) \/ ToggleAll \/ Clear \/ Dismiss
    BY <1>1, BoxesInv
  <1>2. CASE ListArrives
    BY <1>2, ListArrivesInv
  <1>3. CASE AskList \/ ReadList \/ ListFails \/ \E d \in Dev : OthersDelete(d)
    BY <1>3, ListInv
  <1>4. ASSUME NEW action \in Action, StartRun(action) PROVE FleetInv'
    BY <1>4, StartRunInv
  <1>5. ASSUME NEW n \in Run, NEW d \in Dev, Succeed(n, d) \/ Fail(n, d) PROVE FleetInv'
    BY <1>5, AnsweredInv
  <1>6. CASE UNCHANGED fleetVars
    BY <1>6 DEF fleetVars, FleetInv, FleetTypeOK, BarGone, Apart, Deleted, Deletes,
                ResultsAreTrue, DeletedLeaveList
  <1> QED
    BY <1>1, <1>2, <1>3, <1>4, <1>5, <1>6 DEF FleetNext

LEMMA FleetInvariance == FleetSpec => []FleetInv
  BY FleetInitInv, FleetNextInv, PTL DEF FleetSpec

(* Every variable of the list and of the bulk actions keeps its type. *)
THEOREM FleetTypeCorrect == FleetSpec => []FleetTypeOK
  <1>1. FleetInv => FleetTypeOK
    BY DEF FleetInv
  <1> QED
    BY <1>1, FleetInvariance, PTL

(* The bar shows what became of each request of its run, for any number of *)
(* devices, of runs and of orders in which they are answered.              *)
THEOREM BarTellsTheTruth == FleetSpec => []ResultsAreTrue
  <1>1. FleetInv => ResultsAreTrue
    BY DEF FleetInv
  <1> QED
    BY <1>1, FleetInvariance, PTL

(* A list at rest has no device that a run which has ended deleted, unless *)
(* the last fetch failed.                                                  *)
THEOREM NoDeletedDeviceIsListed == FleetSpec => []DeletedLeaveList
  <1>1. FleetInv => DeletedLeaveList
    BY DEF FleetInv
  <1> QED
    BY <1>1, FleetInvariance, PTL

-----------------------------------------------------------------------------
(* Drift *)

(* A modal that waits for an answer has one push out, one that does not    *)
(* wait has none: a modal takes a name that no push has, and a push that   *)
(* outlives its modal keeps the name.                                      *)
ModalInv ==
    /\ DOMAIN modal = DOMAIN NoModal
    /\ name \in Slot
    /\ pushes \in [Slot -> Nat]
    /\ OnePushAModal
    /\ modal.kind # "none" => pushes[name] = IF modal.pushing THEN 1 ELSE 0

LEMMA ModalInitInv == DriftInit => ModalInv
  BY DEF DriftInit, ModalInv, OnePushAModal, NoModal

LEMMA ModalNextInv == ModalInv /\ [DriftNext]_driftVars => ModalInv'
  <1> SUFFICES ASSUME ModalInv, [DriftNext]_driftVars PROVE ModalInv'
    OBVIOUS
  <1>1. CASE OpenDevice \/ OpenDiff
    <2>1. name' \in Slot /\ pushes[name'] = 0 /\ UNCHANGED pushes
      BY <1>1 DEF OpenDevice, OpenDiff, Named
    <2>2. DOMAIN modal' = DOMAIN NoModal /\ modal'.pushing = FALSE
      BY <1>1 DEF OpenDevice, OpenDiff, NoModal
    <2> QED
      BY <2>1, <2>2 DEF ModalInv, OnePushAModal
  <1>2. CASE Close
    BY <1>2 DEF Close, ModalInv, OnePushAModal, NoModal
  <1>3. CASE Loaded \/ LoadFails \/ Apply \/ Cancel
    <2>1. /\ DOMAIN modal' = DOMAIN NoModal
          /\ modal'.kind = modal.kind /\ modal'.pushing = modal.pushing
          /\ UNCHANGED <<name, pushes>>
      BY <1>3 DEF Loaded, LoadFails, Apply, Cancel, ModalInv, NoModal
    <2> QED
      BY <2>1 DEF ModalInv, OnePushAModal
  <1>4. CASE Push
    <2>1. ~modal.pushing /\ modal.kind # "none"
      BY <1>4 DEF Push, Pushable, Footer
    <2>2. pushes[name] = 0
      BY <2>1 DEF ModalInv
    <2>3. pushes' \in [Slot -> Nat] /\ pushes'[name] = 1
          /\ \A n \in Slot : n # name => pushes'[n] = pushes[n]
      BY <1>4, <2>2 DEF Push, ModalInv
    <2>4. DOMAIN modal' = DOMAIN NoModal /\ modal'.pushing = TRUE /\ UNCHANGED name
      BY <1>4 DEF Push, ModalInv, NoModal
    <2> QED
      BY <2>3, <2>4 DEF ModalInv, OnePushAModal
  <1>5. ASSUME NEW n \in Slot, Answered(n) PROVE ModalInv'
    <2>1. pushes[n] = 1
      BY <1>5 DEF Answered, ModalInv, OnePushAModal
    <2>2. pushes' \in [Slot -> Nat] /\ pushes'[n] = 0
          /\ \A m \in Slot : m # n => pushes'[m] = pushes[m]
      BY <1>5, <2>1 DEF Answered, ModalInv
    <2>3. CASE modal.kind # "none" /\ n = name
      <3>1. DOMAIN modal' = DOMAIN NoModal /\ modal'.pushing = FALSE /\ UNCHANGED name
        BY <1>5, <2>3 DEF Answered, ModalInv, NoModal
      <3> QED
        BY <2>2, <2>3, <3>1 DEF ModalInv, OnePushAModal
    <2>4. CASE ~(modal.kind # "none" /\ n = name)
      <3>1. UNCHANGED <<modal, name>>
        BY <1>5, <2>4 DEF Answered
      <3> QED
        BY <2>2, <2>4, <3>1 DEF ModalInv, OnePushAModal
    <2> QED
      BY <2>3, <2>4
  <1>6. CASE UNCHANGED driftVars
    BY <1>6 DEF driftVars, ModalInv, OnePushAModal
  <1> QED
    BY <1>1, <1>2, <1>3, <1>4, <1>5, <1>6 DEF DriftNext

(* However modals are closed, opened again and switched while pushes are   *)
(* out, none has two of its own.                                           *)
THEOREM ModalsPushOnce == DriftSpec => []OnePushAModal
  <1>1. ModalInv => OnePushAModal
    BY DEF ModalInv
  <1> QED
    BY <1>1, ModalInitInv, ModalNextInv, PTL DEF DriftSpec

(* What is counted through, shown and compared: lines of one type. *)
Piece == [type : Type, lines : Seq(Nat)]

(* The folds of LinesOf, Counted and LinesBefore, and their steps. *)
LineStep(types) ==
    [x \in Seq(Nat) \X Piece |-> IF x[2].type \in types THEN x[1] \o x[2].lines ELSE x[1]]

LEMMA LineSteps ==
    ASSUME NEW types, NEW s \in Seq(Piece)
    PROVE  Ends(LinesOf(s, types), Seq(Nat), LineStep(types), <<>>, s)
<1> DEFINE G == LineStep(types)
           Op(x, p) == IF p.type \in types THEN x \o p.lines ELSE x
           Fold(e) == [t \in SUBSET (DOMAIN s) |->
                         IF t = {} THEN <<>> ELSE Op(e[t \ {Max(t)}], s[Max(t)])]
           e == CHOOSE iter : iter = Fold(iter)
<1>1. G \in [Seq(Nat) \X Piece -> Seq(Nat)] /\ <<>> \in Seq(Nat)
  BY DEF LineStep, Piece
<1>2. \A x \in Seq(Nat), p \in Piece : G[<<x, p>>] = Op(x, p)
  BY DEF LineStep
<1> HIDE DEF G
<1>3. PICK f : Folds(f, Seq(Nat), Piece, G, <<>>, s)
  BY <1>1, FoldsExists
<1>4. \A t \in SUBSET (DOMAIN s) : t # {} => f[t] = Op(f[t \ {Max(t)}], s[Max(t)])
  BY <1>2, <1>3 DEF Folds
<1>5. f = Fold(f)
  BY <1>3, <1>4 DEF Folds
<1>6. e = Fold(e)
  BY <1>5
<1>7. LinesOf(s, types) = e[DOMAIN s]
  BY DEF LinesOf, FoldLeft, MapThenFoldSet
<1>8. e[{}] = <<>>
  BY <1>6
<1>9. \A t \in SUBSET (DOMAIN s) : t # {} => e[t] = Op(e[t \ {Max(t)}], s[Max(t)])
  BY <1>6
<1> HIDE DEF e
<1>10. Meets(e, Seq(Nat), G, <<>>, s)
  BY <1>2, <1>8, <1>9, Places DEF Meets
<1>11. Ends(e[DOMAIN s], Seq(Nat), G, <<>>, s)
  BY <1>1, <1>10, FoldEnds
<1> QED BY <1>7, <1>11 DEF G

CountStep(type) ==
    [x \in Nat \X Piece |-> IF x[2].type = type THEN x[1] + Len(x[2].lines) ELSE x[1]]

LEMMA CountSteps ==
    ASSUME NEW type, NEW s \in Seq(Piece)
    PROVE  Ends(Counted(s, type), Nat, CountStep(type), 0, s)
<1> DEFINE G == CountStep(type)
           Op(x, p) == IF p.type = type THEN x + Len(p.lines) ELSE x
           Fold(e) == [t \in SUBSET (DOMAIN s) |->
                         IF t = {} THEN 0 ELSE Op(e[t \ {Max(t)}], s[Max(t)])]
           e == CHOOSE iter : iter = Fold(iter)
<1>1. G \in [Nat \X Piece -> Nat] /\ 0 \in Nat
  BY DEF CountStep, Piece
<1>2. \A x \in Nat, p \in Piece : G[<<x, p>>] = Op(x, p)
  BY DEF CountStep
<1> HIDE DEF G
<1>3. PICK f : Folds(f, Nat, Piece, G, 0, s)
  BY <1>1, FoldsExists
<1>4. \A t \in SUBSET (DOMAIN s) : t # {} => f[t] = Op(f[t \ {Max(t)}], s[Max(t)])
  BY <1>2, <1>3 DEF Folds
<1>5. f = Fold(f)
  BY <1>3, <1>4 DEF Folds
<1>6. e = Fold(e)
  BY <1>5
<1>7. Counted(s, type) = e[DOMAIN s]
  BY DEF Counted, FoldLeft, MapThenFoldSet
<1>8. e[{}] = 0
  BY <1>6
<1>9. \A t \in SUBSET (DOMAIN s) : t # {} => e[t] = Op(e[t \ {Max(t)}], s[Max(t)])
  BY <1>6
<1> HIDE DEF e
<1>10. Meets(e, Nat, G, 0, s)
  BY <1>2, <1>8, <1>9, Places DEF Meets
<1>11. Ends(e[DOMAIN s], Nat, G, 0, s)
  BY <1>1, <1>10, FoldEnds
<1> QED BY <1>7, <1>11 DEF G

SizeStep == [x \in Nat \X Part |-> x[1] + x[2].size]

LEMMA SizeSteps ==
    ASSUME NEW s \in Seq(Part)
    PROVE  Ends(FoldLeft(LAMBDA n, p : n + p.size, 0, s), Nat, SizeStep, 0, s)
<1> DEFINE G == SizeStep
           Op(x, p) == x + p.size
           Fold(e) == [t \in SUBSET (DOMAIN s) |->
                         IF t = {} THEN 0 ELSE Op(e[t \ {Max(t)}], s[Max(t)])]
           e == CHOOSE iter : iter = Fold(iter)
<1>1. G \in [Nat \X Part -> Nat] /\ 0 \in Nat
  <2>1. \A p \in Part : p.size \in Nat
    BY DriftAssumption DEF Part
  <2>2. SizeStep \in [Nat \X Part -> Nat]
    BY <2>1 DEF SizeStep
  <2> QED BY <2>2
<1>2. \A x \in Nat, p \in Part : G[<<x, p>>] = Op(x, p)
  BY DEF SizeStep
<1> HIDE DEF G
<1>3. PICK f : Folds(f, Nat, Part, G, 0, s)
  BY <1>1, FoldsExists
<1>4. \A t \in SUBSET (DOMAIN s) : t # {} => f[t] = Op(f[t \ {Max(t)}], s[Max(t)])
  BY <1>2, <1>3 DEF Folds
<1>5. f = Fold(f)
  BY <1>3, <1>4 DEF Folds
<1>6. e = Fold(e)
  BY <1>5
<1>7. FoldLeft(LAMBDA n, p : n + p.size, 0, s) = e[DOMAIN s]
  BY DEF FoldLeft, MapThenFoldSet
<1>8. e[{}] = 0
  BY <1>6
<1>9. \A t \in SUBSET (DOMAIN s) : t # {} => e[t] = Op(e[t \ {Max(t)}], s[Max(t)])
  BY <1>6
<1> HIDE DEF e
<1>10. Meets(e, Nat, G, 0, s)
  BY <1>2, <1>8, <1>9, Places DEF Meets
<1>11. Ends(e[DOMAIN s], Nat, G, 0, s)
  BY <1>1, <1>10, FoldEnds
<1> QED BY <1>7, <1>11 DEF G

-----------------------------------------------------------------------------
LEMMA Cuts ==
    ASSUME NEW lines \in Seq(Nat)
    PROVE  /\ FirstLines(lines) \in Seq(Nat) /\ LastLines(lines) \in Seq(Nat)
           /\ \A l : l \in Range(FirstLines(lines)) <=>
                    \E j \in DOMAIN lines : j <= Context /\ l = lines[j]
           /\ \A l : l \in Range(LastLines(lines)) <=>
                    \E j \in DOMAIN lines : Len(lines) - Context < j /\ l = lines[j]
<1> DEFINE n == Len(lines)
           m == IF n < Context THEN n ELSE Context
           k == IF n < Context THEN 1 ELSE n - Context + 1
           first == FirstLines(lines)
           last == LastLines(lines)
<1>0. n \in Nat /\ Context \in Nat /\ Context > 0 /\ DOMAIN lines = 1 .. n
  BY DriftAssumption
<1>1. /\ first \in Seq(Nat) /\ Len(first) = m
      /\ \A j \in 1 .. m : first[j] = lines[j]
  <2>1. m \in 0 .. n
    BY <1>0
  <2>2. first = SubSeq(lines, 1, m)
    BY DEF FirstLines
  <2> HIDE DEF first, m
  <2> QED BY <2>1, <2>2
<1>2. /\ last \in Seq(Nat) /\ Len(last) = n - k + 1
      /\ \A j \in 1 .. n - k + 1 : last[j] = lines[k + j - 1]
  <2>1. k \in 1 .. n + 1
    BY <1>0
  <2>2. last = SubSeq(lines, k, n)
    BY DEF LastLines
  <2> HIDE DEF last, k
  <2> QED BY <1>0, <2>1, <2>2
<1>3. ASSUME NEW l
      PROVE  l \in Range(first) <=> \E j \in DOMAIN lines : j <= Context /\ l = lines[j]
  <2>1. \A j : j \in 1 .. m <=> j \in 1 .. n /\ j <= Context
    BY <1>0
  <2>2. Range(first) = {first[j] : j \in 1 .. m}
    BY <1>1 DEF Range
  <2> HIDE DEF first, m, n
  <2> QED BY <1>0, <1>1, <2>1, <2>2
<1>4. ASSUME NEW l
      PROVE  l \in Range(last) <=> \E j \in DOMAIN lines : n - Context < j /\ l = lines[j]
  <2>1. Range(last) = {last[j] : j \in 1 .. n - k + 1}
    BY <1>2 DEF Range
  <2>2. ASSUME NEW j \in 1 .. n - k + 1
        PROVE  k + j - 1 \in 1 .. n /\ n - Context < k + j - 1
    BY <1>0
  <2>3. ASSUME NEW j \in 1 .. n, n - Context < j
        PROVE  j - k + 1 \in 1 .. n - k + 1 /\ j = k + (j - k + 1) - 1
    BY <1>0, <2>3
  <2>4. ASSUME NEW j \in 1 .. n, n - Context < j PROVE lines[j] = last[j - k + 1]
    <3> HIDE DEF last, k, n
    <3> QED BY <1>2, <2>3, <2>4
  <2> HIDE DEF last, k, n
  <2> QED BY <1>0, <1>2, <2>1, <2>2, <2>3, <2>4
<1> QED BY <1>1, <1>2, <1>3, <1>4

LEMMA LinesOfAppend ==
    ASSUME NEW types, NEW s \in Seq(Piece), NEW x \in Piece
    PROVE  /\ LinesOf(s, types) \in Seq(Nat)
           /\ LinesOf(Append(s, x), types) =
                IF x.type \in types THEN LinesOf(s, types) \o x.lines ELSE LinesOf(s, types)
<1> DEFINE r == Append(s, x)
           A == Seq(Nat)
           G == LineStep(types)
<1>1. r \in Seq(Piece) /\ Len(r) = Len(s) + 1 /\ r[Len(r)] = x /\ \A k \in 1 .. Len(s) : r[k] = s[k]
  OBVIOUS
<1> HIDE DEF r
<1>2. PICK h : Steps(h, A, G, <<>>, s) /\ LinesOf(s, types) = h[Len(s)]
  BY LineSteps DEF Ends
<1>3. PICK g : Steps(g, A, G, <<>>, r) /\ LinesOf(r, types) = g[Len(r)]
  BY <1>1, LineSteps DEF Ends
<1>4. Len(s) \in Nat /\ Len(s) \in 0 .. Len(s) /\ Len(r) \in 1 .. Len(r) /\ Len(s) = Len(r) - 1
  BY <1>1
<1>5. ASSUME NEW k \in 1 .. Len(s), h[k - 1] = g[k - 1] PROVE h[k] = g[k]
  <2>1. k \in 1 .. Len(r) /\ r[k] = s[k]
    BY <1>1
  <2> HIDE DEF G
  <2> QED BY <1>2, <1>3, <1>5, <2>1 DEF Steps
<1>6. h[0] = g[0]
  BY <1>2, <1>3 DEF Steps
<1>7. \A k \in 0 .. Len(s) : h[k] = g[k]
  BY <1>4, <1>5, <1>6, StepsAgree
<1>8. g[Len(r)] = G[<<h[Len(s)], x>>] /\ h[Len(s)] \in A
  <2> HIDE DEF G, A
  <2> QED BY <1>1, <1>2, <1>3, <1>4, <1>7 DEF Steps
<1>9. G[<<h[Len(s)], x>>] = IF x.type \in types THEN h[Len(s)] \o x.lines ELSE h[Len(s)]
  BY <1>8 DEF LineStep
<1> QED BY <1>2, <1>3, <1>8, <1>9 DEF r

LEMMA NoLines == ASSUME NEW types PROVE LinesOf(<<>>, types) = <<>>
<1>1. <<>> \in Seq(Piece) /\ Len(<<>>) = 0
  OBVIOUS
<1> QED BY <1>1, LineSteps DEF Ends, Steps

(* A line is of some types if and only if a piece of those types has it.   *)
LEMMA LinesOfRange ==
    ASSUME NEW types, NEW s \in Seq(Piece), NEW l
    PROVE  /\ LinesOf(s, types) \in Seq(Nat)
           /\ l \in Range(LinesOf(s, types)) <=>
                \E i \in 1 .. Len(s) : s[i].type \in types /\ l \in Range(s[i].lines)
<1>1. PICK h : Steps(h, Seq(Nat), LineStep(types), <<>>, s) /\ LinesOf(s, types) = h[Len(s)]
  BY LineSteps DEF Ends
<1>2. <<>> \in Seq(Nat)
  OBVIOUS
<1>3. /\ h[0] = <<>> /\ h[Len(s)] \in Seq(Nat)
      /\ \A k \in 1 .. Len(s) :
           /\ h[k - 1] \in Seq(Nat) /\ s[k] \in Piece
           /\ h[k] = LineStep(types)[<<h[k - 1], s[k]>>]
  BY <1>1, <1>2 DEF Steps
<1> DEFINE Has(k) == l \in Range(h[k]) <=>
                       \E i \in 1 .. k : s[i].type \in types /\ l \in Range(s[i].lines)
           S == {k \in 0 .. Len(s) : Has(k)}
<1> HIDE DEF Has
<1>4. 0 \in S
  <2>1. Has(0)
    BY <1>3 DEF Has, Range
  <2> QED BY <2>1
<1>5. ASSUME NEW k \in 1 .. Len(s), k - 1 \in S PROVE k \in S
  <2>1. s[k].lines \in Seq(Nat)
    BY <1>3 DEF Piece
  <2>2. h[k - 1] \in Seq(Nat)
    BY <1>3
  <2>3. h[k] = IF s[k].type \in types THEN h[k - 1] \o s[k].lines ELSE h[k - 1]
    BY <1>3 DEF LineStep
  <2>4. Range(h[k - 1] \o s[k].lines) = Range(h[k - 1]) \cup Range(s[k].lines)
    BY <2>1, <2>2, Joined
  <2>5. \A i : i \in 1 .. k <=> i \in 1 .. k - 1 \/ i = k
    OBVIOUS
  <2>6. Has(k)
    BY <1>5, <2>3, <2>4, <2>5 DEF Has
  <2> QED BY <2>6
<1> HIDE DEF S
<1>6. Len(s) \in Nat /\ Len(s) \in 0 .. Len(s)
  OBVIOUS
<1>7. 0 .. Len(s) \subseteq S
  BY <1>4, <1>5, <1>6, InductionUpTo
<1>8. Has(Len(s))
  BY <1>6, <1>7 DEF S
<1> QED BY <1>1, <1>3, <1>8 DEF Has

(* What is counted is what is shown. *)
LEMMA CountedLines ==
    ASSUME NEW type, NEW s \in Seq(Piece)
    PROVE  Counted(s, type) = Len(LinesOf(s, {type}))
<1>1. PICK h : Steps(h, Seq(Nat), LineStep({type}), <<>>, s) /\ LinesOf(s, {type}) = h[Len(s)]
  BY LineSteps DEF Ends
<1>2. PICK c : Steps(c, Nat, CountStep(type), 0, s) /\ Counted(s, type) = c[Len(s)]
  BY CountSteps DEF Ends
<1>3. <<>> \in Seq(Nat) /\ 0 \in Nat /\ \A k \in 1 .. Len(s) : s[k] \in Piece /\ s[k].lines \in Seq(Nat)
  <2>1. \A k \in 1 .. Len(s) : s[k] \in Piece
    OBVIOUS
  <2> QED BY <2>1 DEF Piece
<1>4. /\ h[0] = <<>>
      /\ \A k \in 1 .. Len(s) :
           h[k - 1] \in Seq(Nat) /\ h[k] = LineStep({type})[<<h[k - 1], s[k]>>]
  BY <1>1, <1>3 DEF Steps
<1>5. /\ c[0] = 0
      /\ \A k \in 1 .. Len(s) : c[k - 1] \in Nat /\ c[k] = CountStep(type)[<<c[k - 1], s[k]>>]
  BY <1>2, <1>3 DEF Steps
<1> DEFINE g == [k \in 0 .. Len(s) |-> Len(h[k])]
<1>6. c[0] = g[0]
  BY <1>4, <1>5
<1>7. ASSUME NEW k \in 1 .. Len(s), c[k - 1] = g[k - 1] PROVE c[k] = g[k]
  <2>1. g[k] = Len(h[k]) /\ g[k - 1] = Len(h[k - 1])
    OBVIOUS
  <2> HIDE DEF g
  <2>2. h[k] = IF s[k].type = type THEN h[k - 1] \o s[k].lines ELSE h[k - 1]
    BY <1>3, <1>4 DEF LineStep
  <2>3. c[k] = IF s[k].type = type THEN c[k - 1] + Len(s[k].lines) ELSE c[k - 1]
    BY <1>3, <1>5 DEF CountStep
  <2>4. h[k - 1] \in Seq(Nat) /\ s[k].lines \in Seq(Nat)
    BY <1>3, <1>4
  <2>5. Len(h[k - 1] \o s[k].lines) = Len(h[k - 1]) + Len(s[k].lines)
    BY <2>4
  <2> QED BY <1>7, <2>1, <2>2, <2>3, <2>5
<1>8. Len(s) \in Nat /\ Len(s) \in 0 .. Len(s) /\ g[Len(s)] = Len(h[Len(s)])
  OBVIOUS
<1> HIDE DEF g
<1>9. \A k \in 0 .. Len(s) : c[k] = g[k]
  BY <1>6, <1>7, <1>8, StepsAgree
<1> QED BY <1>1, <1>2, <1>8, <1>9

(* Where the lines of each part are: part i has those from b[i] + 1 on.    *)
Layout(N, b) ==
    /\ b[1] = 0 /\ \A i \in 1 .. Len(N) + 1 : b[i] \in Nat
    /\ \A i \in 1 .. Len(N) :
        /\ b[i] < b[i + 1] /\ Len(N[i].lines) = b[i + 1] - b[i]
        /\ \A j \in 1 .. Len(N[i].lines) : N[i].lines[j] = b[i] + j
    /\ \A i \in 1 .. Len(N) - 1 : N[i].type # N[i + 1].type

LEMMA LinesBeforeAre ==
    ASSUME NEW parts \in Seq(Part)
    PROVE  \E b : /\ b[1] = 0 /\ \A i \in 1 .. Len(parts) + 1 : b[i] \in Nat
                  /\ \A i \in 1 .. Len(parts) :
                       b[i + 1] = b[i] + parts[i].size /\ LinesBefore(parts, i) = b[i]
<1>0. Len(parts) \in Nat /\ \A i \in 1 .. Len(parts) : parts[i] \in Part
  OBVIOUS
<1>1. PICK h : Steps(h, Nat, SizeStep, 0, parts)
  BY SizeSteps DEF Ends
<1>2. /\ h[0] = 0 /\ h[Len(parts)] \in Nat
      /\ \A k \in 1 .. Len(parts) :
           h[k - 1] \in Nat /\ h[k] \in Nat /\ h[k] = SizeStep[<<h[k - 1], parts[k]>>]
  BY <1>1 DEF Steps
<1>3. ASSUME NEW i \in 1 .. Len(parts) PROVE LinesBefore(parts, i) = h[i - 1]
  <2> DEFINE s == SubSeq(parts, 1, i - 1)
  <2>1. i - 1 \in 0 .. Len(parts)
    BY <1>0
  <2>2. s \in Seq(Part) /\ Len(s) = i - 1 /\ \A k \in 1 .. i - 1 : s[k] = parts[k]
    BY <2>1
  <2>3. LinesBefore(parts, i) = FoldLeft(LAMBDA n, p : n + p.size, 0, s)
    BY DEF LinesBefore
  <2> HIDE DEF s
  <2>4. PICK g : Steps(g, Nat, SizeStep, 0, s) /\ LinesBefore(parts, i) = g[Len(s)]
    BY <2>2, <2>3, SizeSteps DEF Ends
  <2>5. g[0] = h[0]
    BY <1>2, <2>4 DEF Steps
  <2>6. ASSUME NEW k \in 1 .. i - 1, g[k - 1] = h[k - 1] PROVE g[k] = h[k]
    <3>1. k \in 1 .. Len(parts) /\ k \in 1 .. Len(s)
      BY <2>1, <2>2
    <3>2. g[k] = SizeStep[<<g[k - 1], s[k]>>]
      BY <2>4, <3>1 DEF Steps
    <3> QED BY <1>2, <2>2, <2>6, <3>1, <3>2
  <2>7. i - 1 \in Nat /\ i - 1 \in 0 .. i - 1
    OBVIOUS
  <2>8. \A k \in 0 .. i - 1 : g[k] = h[k]
    BY <2>5, <2>6, <2>7, StepsAgree
  <2> QED BY <2>2, <2>4, <2>7, <2>8
<1> DEFINE b == [i \in 1 .. Len(parts) + 1 |-> h[i - 1]]
<1>4. b[1] = 0 /\ \A i \in 1 .. Len(parts) + 1 : b[i] \in Nat
  <2>1. ASSUME NEW i \in 1 .. Len(parts) + 1 PROVE b[i] \in Nat
    <3>1. b[i] = h[i - 1]
      OBVIOUS
    <3>2. i - 1 = 0 \/ i - 1 \in 1 .. Len(parts)
      BY <1>0
    <3> HIDE DEF b
    <3>3. CASE i - 1 = 0
      BY <1>2, <3>1, <3>3
    <3>4. CASE i - 1 \in 1 .. Len(parts)
      BY <1>2, <3>1, <3>4
    <3> QED BY <3>2, <3>3, <3>4
  <2> QED BY <1>0, <1>2, <2>1
<1>5. ASSUME NEW i \in 1 .. Len(parts)
      PROVE  b[i + 1] = b[i] + parts[i].size /\ LinesBefore(parts, i) = b[i]
  <2>1. b[i + 1] = h[i] /\ b[i] = h[i - 1]
    BY <1>0
  <2> HIDE DEF b
  <2>2. SizeStep[<<h[i - 1], parts[i]>>] = h[i - 1] + parts[i].size
    BY <1>0, <1>2 DEF SizeStep
  <2> QED BY <1>2, <1>3, <2>1, <2>2
<1> HIDE DEF b
<1> QED BY <1>4, <1>5

LEMMA ComparisonsAre ==
    ASSUME NEW parts \in Comparisons
    PROVE  /\ parts \in Seq(Part) /\ Len(parts) > 0
           /\ \A i \in 1 .. Len(parts) - 1 : parts[i].type # parts[i + 1].type
<1>1. parts \in BoundedSeq(Part, MaxParts) /\ parts # <<>>
  BY DEF Comparisons
<1>2. parts \in Seq(Part)
  BY <1>1, BoundedSeqs, DriftAssumption
<1> QED BY <1>1, <1>2 DEF Comparisons

LEMMA NumberedIs ==
    ASSUME NEW parts \in Comparisons
    PROVE  /\ Numbered(parts) \in Seq(Piece) /\ Len(Numbered(parts)) > 0
           /\ \E b : Layout(Numbered(parts), b)
<1> DEFINE N == Numbered(parts)
<1>1. /\ parts \in Seq(Part) /\ Len(parts) > 0 /\ Len(parts) \in Nat
      /\ \A i \in 1 .. Len(parts) - 1 : parts[i].type # parts[i + 1].type
  BY ComparisonsAre
<1>2. PICK b : /\ b[1] = 0 /\ \A i \in 1 .. Len(parts) + 1 : b[i] \in Nat
               /\ \A i \in 1 .. Len(parts) :
                    b[i + 1] = b[i] + parts[i].size /\ LinesBefore(parts, i) = b[i]
  BY <1>1, LinesBeforeAre
<1>3. N = [i \in 1 .. Len(parts) |->
             [type |-> parts[i].type, lines |-> [j \in 1 .. parts[i].size |-> LinesBefore(parts, i) + j]]]
  BY <1>1 DEF Numbered
<1> HIDE DEF N
<1>4. ASSUME NEW i \in 1 .. Len(parts)
      PROVE  /\ N[i] \in Piece /\ N[i].type = parts[i].type
             /\ Len(N[i].lines) = parts[i].size /\ parts[i].size \in Nat /\ parts[i].size > 0
             /\ \A j \in 1 .. parts[i].size : N[i].lines[j] = b[i] + j
  <2>1. parts[i] \in Part
    BY <1>1
  <2>2. parts[i].type \in Type /\ parts[i].size \in Nat /\ parts[i].size > 0
    <3>1. parts[i].type \in Type /\ parts[i].size \in Length
      BY <2>1 DEF Part
    <3>2. parts[i].size \in Nat \ {0}
      BY <3>1, DriftAssumption
    <3> QED BY <3>1, <3>2
  <2>3. i \in 1 .. Len(parts) + 1 /\ b[i] \in Nat
    BY <1>1, <1>2
  <2> DEFINE lines == [j \in 1 .. parts[i].size |-> b[i] + j]
  <2>4. \A j \in 1 .. parts[i].size : b[i] + j \in Nat
    BY <2>2, <2>3
  <2>5. lines \in Seq(Nat) /\ Len(lines) = parts[i].size
    BY <2>2, <2>4
  <2>6. \A j \in 1 .. parts[i].size : lines[j] = b[i] + j
    OBVIOUS
  <2>7. N[i] = [type |-> parts[i].type, lines |-> lines]
    BY <1>2, <1>3
  <2> HIDE DEF lines
  <2> QED BY <2>2, <2>5, <2>6, <2>7 DEF Piece
<1>5. N \in Seq(Piece) /\ Len(N) = Len(parts)
  <2>1. \A i \in 1 .. Len(parts) : N[i] \in Piece
    BY <1>4
  <2>2. N = [i \in 1 .. Len(parts) |-> N[i]]
    BY <1>3
  <2> QED BY <1>1, <2>1, <2>2
<1>6. Layout(N, b)
  <2>1. ASSUME NEW i \in 1 .. Len(N)
        PROVE  /\ b[i] < b[i + 1] /\ Len(N[i].lines) = b[i + 1] - b[i]
               /\ \A j \in 1 .. Len(N[i].lines) : N[i].lines[j] = b[i] + j
    <3>1. i \in 1 .. Len(parts) /\ i \in 1 .. Len(parts) + 1
      BY <1>1, <1>5
    <3>2. b[i] \in Nat /\ b[i + 1] = b[i] + parts[i].size
      BY <1>2, <3>1
    <3> QED BY <1>4, <3>1, <3>2
  <2>2. ASSUME NEW i \in 1 .. Len(N) - 1 PROVE N[i].type # N[i + 1].type
    <3>1. i \in 1 .. Len(parts) - 1 /\ i \in 1 .. Len(parts) /\ i + 1 \in 1 .. Len(parts)
      BY <1>1, <1>5
    <3> QED BY <1>1, <1>4, <3>1
  <2> QED BY <1>2, <1>5, <2>1, <2>2 DEF Layout
<1> QED BY <1>1, <1>5, <1>6 DEF N

LEMMA Increasing ==
    ASSUME NEW N \in Seq(Piece), NEW b, Layout(N, b),
           NEW i \in 1 .. Len(N) + 1, NEW k \in 1 .. Len(N) + 1, i <= k
    PROVE  b[i] <= b[k]
<1> DEFINE S == {m \in 0 .. Len(N) : \A n \in 1 .. m + 1 : b[n] <= b[m + 1]}
<1>0. Len(N) \in Nat
  OBVIOUS
<1>1. 0 \in S
  BY <1>0 DEF Layout
<1>2. ASSUME NEW m \in 1 .. Len(N), m - 1 \in S PROVE m \in S
  <2>1. b[m] < b[m + 1] /\ b[m] \in Nat /\ b[m + 1] \in Nat
    BY <1>0 DEF Layout
  <2>2. ASSUME NEW n \in 1 .. m + 1 PROVE b[n] <= b[m + 1]
    <3>1. CASE n = m + 1
      BY <2>1, <3>1
    <3>2. CASE n # m + 1
      <4>1. n \in 1 .. m /\ n \in 1 .. Len(N) + 1 /\ (m - 1) + 1 = m
        BY <1>0, <3>2
      <4>2. b[n] <= b[m] /\ b[n] \in Nat
        BY <1>2, <4>1 DEF Layout
      <4> QED BY <2>1, <4>2
    <3> QED BY <3>1, <3>2
  <2> QED BY <2>2
<1> HIDE DEF S
<1>3. 0 .. Len(N) \subseteq S
  BY <1>0, <1>1, <1>2, InductionUpTo
<1>4. k - 1 \in 0 .. Len(N) /\ i \in 1 .. (k - 1) + 1 /\ (k - 1) + 1 = k
  BY <1>0
<1> QED BY <1>3, <1>4 DEF S

(* A line that agrees is near one that differs if and only if it is among  *)
(* the first of a part that is not the first, or among the last of a part  *)
(* that is not the last.                                                   *)
InContext(N, k, l) ==
    \E i \in 1 .. k :
        /\ N[i].type = "context"
        /\ \/ i > 1 /\ l \in Range(FirstLines(N[i].lines))
           \/ i < k /\ l \in Range(LastLines(N[i].lines))

Differ == {"removed", "added"}

LEMMA NearTheEnds ==
    ASSUME NEW N \in Seq(Piece), NEW b, Layout(N, b), NEW i \in 1 .. Len(N), N[i].type = "context",
           NEW j \in 1 .. Len(N[i].lines)
    PROVE  Near(N[i].lines[j], LinesOf(N, Differ)) <=>
             (i > 1 /\ j <= Context) \/ (i < Len(N) /\ Len(N[i].lines) - Context < j)
<1> DEFINE l == N[i].lines[j]
           d == LinesOf(N, Differ)
           n == Len(N)
<1>0. n \in Nat /\ Context \in Nat /\ Context > 0
  BY DriftAssumption
<1>1. /\ b[i] \in Nat /\ b[i + 1] \in Nat /\ b[i] < b[i + 1]
      /\ Len(N[i].lines) = b[i + 1] - b[i] /\ l = b[i] + j
  BY <1>0 DEF Layout
<1>2. Near(l, d) <=> \E m \in Range(d) : m <= l + Context /\ l <= m + Context
  BY DEF Near, Range
<1>3. \A m : m \in Range(d) <=>
         \E p \in 1 .. n : N[p].type \in Differ /\ \E q \in 1 .. Len(N[p].lines) : m = b[p] + q
  <2>1. ASSUME NEW p \in 1 .. n, NEW m
        PROVE  m \in Range(N[p].lines) <=> \E q \in 1 .. Len(N[p].lines) : m = b[p] + q
    <3>1. N[p] \in Piece
      OBVIOUS
    <3>2. N[p].lines \in Seq(Nat) /\ DOMAIN N[p].lines = 1 .. Len(N[p].lines)
      BY <3>1 DEF Piece
    <3>3. \A q \in 1 .. Len(N[p].lines) : N[p].lines[q] = b[p] + q
      BY DEF Layout
    <3> QED BY <3>2, <3>3 DEF Range
  <2>2. ASSUME NEW m
        PROVE  m \in Range(d) <=> \E p \in 1 .. n : N[p].type \in Differ /\ m \in Range(N[p].lines)
    BY LinesOfRange
  <2> HIDE DEF d, n
  <2>3. ASSUME NEW m \in Range(d)
        PROVE  \E p \in 1 .. n : N[p].type \in Differ /\ \E q \in 1 .. Len(N[p].lines) : m = b[p] + q
    <3>1. PICK p \in 1 .. n : N[p].type \in Differ /\ m \in Range(N[p].lines)
      BY <2>2
    <3> QED BY <2>1, <3>1
  <2>4. ASSUME NEW p \in 1 .. n, N[p].type \in Differ, NEW q \in 1 .. Len(N[p].lines)
        PROVE  b[p] + q \in Range(d)
    <3>1. b[p] + q \in Range(N[p].lines)
      BY <2>1
    <3> QED BY <2>2, <2>4, <3>1
  <2> QED BY <2>3, <2>4
<1>4. ASSUME NEW p \in 1 .. n, N[p].type \in Differ, NEW q \in 1 .. Len(N[p].lines),
             b[p] + q <= l + Context, l <= b[p] + q + Context
      PROVE  (i > 1 /\ j <= Context) \/ (i < n /\ Len(N[i].lines) - Context < j)
  <2>1. p # i
    BY <1>4 DEF Differ
  <2>2. /\ b[p] \in Nat /\ b[p + 1] \in Nat /\ Len(N[p].lines) = b[p + 1] - b[p]
    BY <1>0 DEF Layout
  <2>3. CASE p < i
    <3>1. p + 1 \in 1 .. n + 1 /\ i \in 1 .. n + 1 /\ p + 1 <= i
      BY <1>0, <2>3
    <3>2. b[p + 1] <= b[i]
      BY <3>1, Increasing
    <3> HIDE DEF l, d
    <3>3. b[p] + q <= b[i] /\ i > 1
      BY <2>2, <2>3, <3>2, <1>1
    <3> QED BY <1>0, <1>1, <1>4, <2>2, <3>3
  <2>4. CASE i < p
    <3>1. i + 1 \in 1 .. n + 1 /\ p \in 1 .. n + 1 /\ i + 1 <= p
      BY <1>0, <2>4
    <3>2. b[i + 1] <= b[p]
      BY <3>1, Increasing
    <3> HIDE DEF l, d
    <3>3. b[i + 1] + 1 <= b[p] + q /\ i < n
      BY <1>0, <1>1, <2>2, <2>4, <3>2
    <3>4. q \in Nat /\ j \in Nat
      BY <1>1, <2>2
    <3>5. b[p] + q <= b[i] + j + Context
      BY <1>1, <1>4
    <3>6. b[i + 1] + 1 <= b[i] + j + Context
      <4>1. /\ b[i + 1] \in Int /\ b[p] + q \in Int /\ b[i] + j + Context \in Int
        BY <1>0, <1>1, <2>2, <3>4
      <4>2. \A x, y, z \in Int : x + 1 <= y /\ y <= z => x + 1 <= z
        OBVIOUS
      <4> QED BY <3>3, <3>5, <4>1, <4>2
    <3> QED BY <1>0, <1>1, <3>3, <3>4, <3>6
  <2> QED BY <2>1, <2>3, <2>4
<1>5. ASSUME i > 1, j <= Context
      PROVE  \E m \in Range(d) : m <= l + Context /\ l <= m + Context
  <2> DEFINE p == i - 1
             q == Len(N[p].lines)
  <2>1. p \in 1 .. n /\ p \in 1 .. n - 1 /\ p + 1 = i
    BY <1>0, <1>5
  <2>2. /\ b[p] \in Nat /\ b[p] < b[i] /\ q = b[i] - b[p] /\ N[p].type # N[i].type
    BY <1>0, <2>1 DEF Layout
  <2>3. N[p].type \in Differ
    <3>1. N[p] \in Piece
      BY <2>1
    <3> QED BY <2>2, <3>1 DEF Piece, Differ, Type
  <2> HIDE DEF p
  <2>4. q \in 1 .. Len(N[p].lines) /\ b[p] + q = b[i]
    <3>1. b[i] \in Int /\ Len(N[p].lines) = q
      BY <1>0, <1>1
    <3> HIDE DEF l, d, q
    <3> QED BY <2>2, <3>1
  <2>5. b[i] \in Range(d)
    BY <1>3, <2>1, <2>3, <2>4
  <2> HIDE DEF l, d
  <2> QED BY <1>0, <1>1, <1>5, <2>5
<1>6. ASSUME i < n, Len(N[i].lines) - Context < j
      PROVE  \E m \in Range(d) : m <= l + Context /\ l <= m + Context
  <2> DEFINE p == i + 1
  <2>1. p \in 1 .. n /\ i \in 1 .. n - 1
    BY <1>0, <1>6
  <2>2. /\ b[p] < b[p + 1] /\ b[p + 1] \in Nat /\ Len(N[p].lines) = b[p + 1] - b[p]
        /\ N[p].type # N[i].type
    BY <1>0, <2>1 DEF Layout
  <2>3. N[p].type \in Differ
    <3>1. N[p] \in Piece
      BY <2>1
    <3> QED BY <2>2, <3>1 DEF Piece, Differ, Type
  <2>4. 1 \in 1 .. Len(N[p].lines)
    BY <1>1, <2>2
  <2>5. b[p] + 1 \in Range(d)
    <3> HIDE DEF p, d
    <3> QED BY <1>3, <2>1, <2>3, <2>4
  <2>6. b[p] + 1 <= l + Context /\ l <= b[p] + 1 + Context
    <3>1. j \in Nat /\ j <= b[p] - b[i] /\ b[p] - b[i] - Context < j
      BY <1>1, <1>6
    <3> HIDE DEF l, d
    <3> QED BY <1>0, <1>1, <3>1
  <2> HIDE DEF l, d, p
  <2> QED BY <2>5, <2>6
<1> HIDE DEF l, d
<1>7. Near(l, d) => \E p \in 1 .. n : \E q \in 1 .. Len(N[p].lines) :
                     N[p].type \in Differ /\ b[p] + q <= l + Context /\ l <= b[p] + q + Context
  BY <1>2, <1>3
<1>8. Near(l, d) => (i > 1 /\ j <= Context) \/ (i < n /\ Len(N[i].lines) - Context < j)
  BY <1>4, <1>7
<1>9. (i > 1 /\ j <= Context) \/ (i < n /\ Len(N[i].lines) - Context < j) => Near(l, d)
  BY <1>2, <1>5, <1>6
<1> QED BY <1>8, <1>9 DEF l, d

(* The hunks and the buffer of flushContext, part by part. *)
Growing == [hunks : Seq(Piece), buffer : Seq(Nat)]

NoGrowth == [hunks |-> <<>>, buffer |-> <<>>]

LEMMA GrownIs ==
    ASSUME NEW acc \in Growing, NEW part \in Piece
    PROVE  Grown(acc, part) \in Growing /\ Flushed(acc) \in Seq(Piece)
<1>1. /\ acc.hunks \in Seq(Piece) /\ acc.buffer \in Seq(Nat)
      /\ part.type \in Type /\ part.lines \in Seq(Nat)
  BY DEF Growing, Piece
<1>2. ASSUME NEW lines \in Seq(Nat)
      PROVE  Hunk("context", FirstLines(lines)) \in Piece /\ Hunk("context", LastLines(lines)) \in Piece
  <2>1. FirstLines(lines) \in Seq(Nat) /\ LastLines(lines) \in Seq(Nat)
    BY Cuts
  <2> QED BY <2>1 DEF Hunk, Piece, Type
<1>3. Flushed(acc) \in Seq(Piece)
  BY <1>1, <1>2 DEF Flushed
<1>4. Append(acc.hunks, Hunk("context", FirstLines(part.lines))) \in Seq(Piece)
  BY <1>1, <1>2
<1>5. Append(Flushed(acc), part) \in Seq(Piece)
  BY <1>3
<1>6. Grown(acc, part).hunks \in Seq(Piece) /\ Grown(acc, part).buffer \in Seq(Nat)
  BY <1>1, <1>4, <1>5 DEF Grown
<1>7. Grown(acc, part) = [hunks |-> Grown(acc, part).hunks, buffer |-> Grown(acc, part).buffer]
  BY DEF Grown
<1> QED BY <1>3, <1>6, <1>7 DEF Growing

GrowStep == [x \in Growing \X Piece |-> Grown(x[1], x[2])]

LEMMA GrowSteps ==
    ASSUME NEW s \in Seq(Piece)
    PROVE  Ends(FoldLeft(Grown, NoGrowth, s), Growing, GrowStep, NoGrowth, s)
<1> DEFINE G == GrowStep
           Op(x, p) == Grown(x, p)
           Fold(e) == [t \in SUBSET (DOMAIN s) |->
                         IF t = {} THEN NoGrowth ELSE Op(e[t \ {Max(t)}], s[Max(t)])]
           e == CHOOSE iter : iter = Fold(iter)
<1>1. G \in [Growing \X Piece -> Growing] /\ NoGrowth \in Growing
  <2>1. GrowStep \in [Growing \X Piece -> Growing]
    BY GrownIs DEF GrowStep
  <2>2. NoGrowth \in Growing
    <3>1. <<>> \in Seq(Piece) /\ <<>> \in Seq(Nat)
      OBVIOUS
    <3> QED BY <3>1 DEF NoGrowth, Growing
  <2> QED BY <2>1, <2>2
<1>2. \A x \in Growing, p \in Piece : G[<<x, p>>] = Op(x, p)
  BY DEF GrowStep
<1> HIDE DEF G
<1>3. PICK f : Folds(f, Growing, Piece, G, NoGrowth, s)
  BY <1>1, FoldsExists
<1>4. \A t \in SUBSET (DOMAIN s) : t # {} => f[t] = Op(f[t \ {Max(t)}], s[Max(t)])
  BY <1>2, <1>3 DEF Folds
<1>5. f = Fold(f)
  BY <1>3, <1>4 DEF Folds
<1>6. e = Fold(e)
  BY <1>5
<1>7. FoldLeft(Grown, NoGrowth, s) = e[DOMAIN s]
  BY DEF FoldLeft, MapThenFoldSet
<1>8. e[{}] = NoGrowth
  BY <1>6
<1>9. \A t \in SUBSET (DOMAIN s) : t # {} => e[t] = Op(e[t \ {Max(t)}], s[Max(t)])
  BY <1>6
<1> HIDE DEF e
<1>10. Meets(e, Growing, G, NoGrowth, s)
  BY <1>2, <1>8, <1>9, Places DEF Meets
<1>11. Ends(e[DOMAIN s], Growing, G, NoGrowth, s)
  BY <1>1, <1>10, FoldEnds
<1> QED BY <1>7, <1>11 DEF G

(* One step: what a part adds to the hunks. *)
LEMMA GrownLines ==
    ASSUME NEW acc \in Growing, NEW part \in Piece, NEW types
    PROVE  LET added  == LinesOf(acc.hunks, types)
               first  == IF acc.hunks # <<>> /\ "context" \in types THEN FirstLines(part.lines) ELSE <<>>
               last   == IF acc.buffer # <<>> /\ "context" \in types THEN LastLines(acc.buffer) ELSE <<>>
               own    == IF part.type \in types THEN part.lines ELSE <<>>
           IN  /\ added \in Seq(Nat) /\ first \in Seq(Nat) /\ last \in Seq(Nat) /\ own \in Seq(Nat)
               /\ LinesOf(Grown(acc, part).hunks, types) =
                    IF part.type = "context" THEN added \o first ELSE (added \o last) \o own
<1> DEFINE added == LinesOf(acc.hunks, types)
           first == IF acc.hunks # <<>> /\ "context" \in types THEN FirstLines(part.lines) ELSE <<>>
           last  == IF acc.buffer # <<>> /\ "context" \in types THEN LastLines(acc.buffer) ELSE <<>>
           own   == IF part.type \in types THEN part.lines ELSE <<>>
<1>1. /\ acc.hunks \in Seq(Piece) /\ acc.buffer \in Seq(Nat)
      /\ part.type \in Type /\ part.lines \in Seq(Nat) /\ <<>> \in Seq(Nat)
  BY DEF Growing, Piece
<1>2. added \in Seq(Nat)
  BY <1>1, LinesOfAppend
<1>3. /\ FirstLines(part.lines) \in Seq(Nat) /\ LastLines(acc.buffer) \in Seq(Nat)
  BY <1>1, Cuts
<1>4. first \in Seq(Nat) /\ last \in Seq(Nat) /\ own \in Seq(Nat)
  BY <1>1, <1>3
<1>5. ASSUME NEW s \in Seq(Nat) PROVE s \o <<>> = s
  BY <1>5
<1>6. ASSUME NEW lines \in Seq(Nat), NEW s \in Seq(Piece)
      PROVE  LinesOf(Append(s, Hunk("context", lines)), types) =
               IF "context" \in types THEN LinesOf(s, types) \o lines ELSE LinesOf(s, types)
  <2>1. Hunk("context", lines) \in Piece
    BY DEF Hunk, Piece, Type
  <2>2. Hunk("context", lines).type = "context" /\ Hunk("context", lines).lines = lines
    BY DEF Hunk
  <2> QED BY <2>1, <2>2, LinesOfAppend
<1>7. ASSUME part.type = "context" PROVE LinesOf(Grown(acc, part).hunks, types) = added \o first
  <2>1. Grown(acc, part).hunks = IF acc.hunks = <<>> THEN acc.hunks
                                 ELSE Append(acc.hunks, Hunk("context", FirstLines(part.lines)))
    BY <1>7 DEF Grown
  <2>2. CASE acc.hunks = <<>>
    <3>1. first = <<>> /\ LinesOf(Grown(acc, part).hunks, types) = added
      BY <2>1, <2>2
    <3> HIDE DEF added, first, last, own
    <3> QED BY <1>2, <1>4, <1>5, <1>7, <3>1
  <2>3. CASE acc.hunks # <<>>
    <3>1. LinesOf(Grown(acc, part).hunks, types) =
            IF "context" \in types THEN added \o FirstLines(part.lines) ELSE added
      BY <1>1, <1>3, <1>6, <2>1, <2>3
    <3>2. first = IF "context" \in types THEN FirstLines(part.lines) ELSE <<>>
      BY <2>3
    <3> HIDE DEF added, first, last, own
    <3> QED BY <1>2, <1>4, <1>5, <1>7, <3>1, <3>2
  <2> QED BY <2>2, <2>3
<1>8. ASSUME part.type # "context" PROVE LinesOf(Grown(acc, part).hunks, types) = (added \o last) \o own
  <2>1. Grown(acc, part).hunks = Append(Flushed(acc), part)
    BY <1>8 DEF Grown
  <2>2. Flushed(acc) \in Seq(Piece)
    BY GrownIs
  <2>3. LinesOf(Flushed(acc), types) = added \o last
    <3>1. CASE acc.buffer = <<>>
      <4>1. Flushed(acc) = acc.hunks /\ last = <<>>
        BY <3>1 DEF Flushed
      <4> HIDE DEF last
      <4> QED BY <1>2, <1>5, <4>1
    <3>2. CASE acc.buffer # <<>>
      <4>1. Flushed(acc) = Append(acc.hunks, Hunk("context", LastLines(acc.buffer)))
        BY <3>2 DEF Flushed
      <4>2. LinesOf(Flushed(acc), types) =
              IF "context" \in types THEN added \o LastLines(acc.buffer) ELSE added
        BY <1>1, <1>3, <1>6, <4>1
      <4>3. last = IF "context" \in types THEN LastLines(acc.buffer) ELSE <<>>
        BY <3>2
      <4> HIDE DEF added, last
      <4> QED BY <1>2, <1>5, <4>2, <4>3
    <3> QED BY <3>1, <3>2
  <2>4. LinesOf(Grown(acc, part).hunks, types) =
          IF part.type \in types THEN (added \o last) \o part.lines ELSE added \o last
    BY <2>1, <2>2, <2>3, LinesOfAppend
  <2>5. added \o last \in Seq(Nat)
    <3> HIDE DEF added, last
    <3> QED BY <1>2, <1>4
  <2>6. own = IF part.type \in types THEN part.lines ELSE <<>>
    OBVIOUS
  <2> HIDE DEF added, first, last, own
  <2> QED BY <1>2, <1>4, <1>5, <1>8, <2>4, <2>5, <2>6
<1> QED BY <1>2, <1>4, <1>7, <1>8

(* After k parts. *)
Grew(N, k, acc) ==
    /\ acc.buffer = IF k > 0 /\ N[k].type = "context" THEN N[k].lines ELSE <<>>
    /\ acc.hunks = <<>> <=> k = 0 \/ (k = 1 /\ N[1].type = "context")
    /\ \A l : l \in Range(LinesOf(acc.hunks, {"context"})) <=> InContext(N, k, l)

LEMMA GrewNext ==
    ASSUME NEW N \in Seq(Piece), NEW b, Layout(N, b), NEW k \in 1 .. Len(N),
           NEW acc \in Growing, Grew(N, k - 1, acc)
    PROVE  Grew(N, k, Grown(acc, N[k]))
<1> DEFINE part == N[k]
           new == Grown(acc, part)
           C == {"context"}
<1>0. Len(N) \in Nat /\ k \in Nat /\ k > 0 /\ part \in Piece
  OBVIOUS
<1>1. /\ acc.hunks \in Seq(Piece) /\ acc.buffer \in Seq(Nat)
      /\ part.type \in Type /\ part.lines \in Seq(Nat) /\ <<>> \in Seq(Nat)
  BY <1>0 DEF Growing, Piece
<1>2. acc.buffer = IF k > 1 /\ N[k - 1].type = "context" THEN N[k - 1].lines ELSE <<>>
  BY <1>0 DEF Grew
<1>3. acc.hunks = <<>> <=> k = 1 \/ (k = 2 /\ N[1].type = "context")
  BY <1>0 DEF Grew
<1>4. \A l : l \in Range(LinesOf(acc.hunks, C)) <=> InContext(N, k - 1, l)
  BY DEF Grew
<1>5. k > 1 => N[k - 1].type # part.type /\ N[k - 1].lines # <<>>
  <2>1. SUFFICES ASSUME k > 1 PROVE N[k - 1].type # part.type /\ N[k - 1].lines # <<>>
    OBVIOUS
  <2>2. k - 1 \in 1 .. Len(N) - 1 /\ k - 1 \in 1 .. Len(N) /\ (k - 1) + 1 = k
    BY <1>0, <2>1
  <2>3. N[k - 1].type # part.type /\ Len(N[k - 1].lines) = b[k] - b[k - 1] /\ b[k - 1] < b[k]
    BY <2>2 DEF Layout
  <2>4. b[k] \in Nat /\ b[k - 1] \in Nat
    BY <1>0, <2>2 DEF Layout
  <2> QED BY <2>3, <2>4
<1>6. new.buffer = IF part.type = "context" THEN part.lines ELSE <<>>
  BY DEF Grown
<1>7. new.hunks = <<>> <=> k = 1 /\ part.type = "context"
  <2>1. CASE part.type = "context"
    <3>1. new.hunks = IF acc.hunks = <<>> THEN acc.hunks
                      ELSE Append(acc.hunks, Hunk("context", FirstLines(part.lines)))
      BY <2>1 DEF Grown
    <3>2. acc.hunks # <<>> => new.hunks # <<>>
      <4>1. FirstLines(part.lines) \in Seq(Nat)
        BY <1>1, Cuts
      <4>2. Hunk("context", FirstLines(part.lines)) \in Piece
        BY <4>1 DEF Hunk, Piece, Type
      <4>3. \A piece \in Piece : Append(acc.hunks, piece) # <<>>
        <5>1. ASSUME NEW q \in Seq(Piece), NEW piece \in Piece PROVE Append(q, piece) # <<>>
          <6>1. Len(Append(q, piece)) = Len(q) + 1 /\ Len(q) \in Nat /\ Len(<<>>) = 0
            OBVIOUS
          <6> QED BY <6>1
        <5> QED BY <1>1, <5>1
      <4> HIDE DEF new
      <4> QED BY <3>1, <4>2, <4>3
    <3>3. acc.hunks = <<>> <=> k = 1
      BY <1>0, <1>3, <1>5, <2>1
    <3> HIDE DEF new
    <3> QED BY <2>1, <3>1, <3>2, <3>3
  <2>2. CASE part.type # "context"
    <3>1. new.hunks = Append(Flushed(acc), part) /\ Flushed(acc) \in Seq(Piece)
      BY <1>0, <2>2, GrownIs DEF Grown
    <3>2. new.hunks # <<>>
      BY <3>1
    <3> QED BY <2>2, <3>2
  <2> QED BY <2>1, <2>2
<1> HIDE DEF new
<1>8. ASSUME NEW l PROVE l \in Range(LinesOf(new.hunks, C)) <=> InContext(N, k, l)
  <2> DEFINE old   == LinesOf(acc.hunks, C)
             first == IF acc.hunks # <<>> THEN FirstLines(part.lines) ELSE <<>>
             last  == IF acc.buffer # <<>> THEN LastLines(acc.buffer) ELSE <<>>
  <2>1. old \in Seq(Nat) /\ first \in Seq(Nat) /\ last \in Seq(Nat)
    BY <1>0, GrownLines
  <2>2. LinesOf(new.hunks, C) = IF part.type = "context" THEN old \o first
                                ELSE (old \o last) \o <<>>
    <3>1. "context" \in C /\ (part.type \in C <=> part.type = "context")
      OBVIOUS
    <3> QED BY <1>0, <3>1, GrownLines DEF new
  <2>3. l \in Range(old) <=> InContext(N, k - 1, l)
    BY <1>4
  <2>4. Range(old \o first) = Range(old) \cup Range(first) /\ Range(old \o last) = Range(old) \cup Range(last)
    <3> HIDE DEF old, first, last
    <3> QED BY <2>1, Joined
  <2>5. (old \o last) \o <<>> = old \o last
    <3> HIDE DEF old, last
    <3> QED BY <2>1
  <2>6. Range(<<>>) = {}
    BY DEF Range
  <2>7. \A i : i \in 1 .. k <=> i \in 1 .. k - 1 \/ i = k
    BY <1>0
  <2>8. CASE part.type = "context"
    <3>1. acc.hunks # <<>> <=> k > 1
      BY <1>0, <1>3, <1>5, <2>8
    <3>2. l \in Range(LinesOf(new.hunks, C)) <=>
            InContext(N, k - 1, l) \/ (k > 1 /\ l \in Range(FirstLines(part.lines)))
      <4>1. LinesOf(new.hunks, C) = old \o first
        BY <2>2, <2>8
      <4>2. l \in Range(first) <=> k > 1 /\ l \in Range(FirstLines(part.lines))
        BY <2>6, <3>1
      <4> HIDE DEF old, first, last
      <4> QED BY <2>3, <2>4, <4>1, <4>2
    <3>3. InContext(N, k, l) <=> InContext(N, k - 1, l) \/ (k > 1 /\ l \in Range(FirstLines(part.lines)))
      <4>1. \A i \in 1 .. k - 1 : N[i].type = "context" => (i < k <=> i < k - 1)
        <5>1. ASSUME NEW i \in 1 .. k - 1, N[i].type = "context" PROVE i # k - 1
          BY <1>0, <1>5, <2>8, <5>1
        <5> QED BY <1>0, <5>1
      <4>2. ~(k < k)
        BY <1>0
      <4> HIDE DEF part
      <4>3. N[k].type = "context" /\ part = N[k]
        BY <2>8 DEF part
      <4>4. InContext(N, k, l) => InContext(N, k - 1, l) \/ (k > 1 /\ l \in Range(FirstLines(part.lines)))
        BY <2>7, <4>1, <4>2, <4>3 DEF InContext
      <4>5. InContext(N, k - 1, l) => InContext(N, k, l)
        BY <2>7, <4>1 DEF InContext
      <4>6. k > 1 /\ l \in Range(FirstLines(part.lines)) => InContext(N, k, l)
        BY <2>7, <4>3 DEF InContext
      <4> QED BY <4>4, <4>5, <4>6
    <3> QED BY <3>2, <3>3
  <2>9. CASE part.type # "context"
    <3> DEFINE Flush == k > 1 /\ N[k - 1].type = "context" /\ l \in Range(LastLines(N[k - 1].lines))
    <3>1. l \in Range(LinesOf(new.hunks, C)) <=> InContext(N, k - 1, l) \/ Flush
      <4>1. LinesOf(new.hunks, C) = old \o last
        BY <2>2, <2>5, <2>9
      <4>2. l \in Range(last) <=> Flush
        <5>1. CASE k > 1 /\ N[k - 1].type = "context"
          <6>1. acc.buffer = N[k - 1].lines /\ acc.buffer # <<>>
            BY <1>2, <1>5, <5>1
          <6> QED BY <5>1, <6>1
        <5>2. CASE ~(k > 1 /\ N[k - 1].type = "context")
          <6>1. acc.buffer = <<>>
            BY <1>2, <5>2
          <6> QED BY <2>6, <5>2, <6>1
        <5> QED BY <5>1, <5>2
      <4> HIDE DEF old, first, last, Flush
      <4> QED BY <2>3, <2>4, <4>1, <4>2
    <3>2. InContext(N, k, l) <=> InContext(N, k - 1, l) \/ Flush
      <4>1. \A i \in 1 .. k - 1 : i < k /\ (i < k - 1 \/ i = k - 1)
        BY <1>0
      <4>2. InContext(N, k, l) => InContext(N, k - 1, l) \/ Flush
        <5> SUFFICES ASSUME InContext(N, k, l) PROVE InContext(N, k - 1, l) \/ Flush
          OBVIOUS
        <5>1. PICK i \in 1 .. k :
                 /\ N[i].type = "context"
                 /\ \/ i > 1 /\ l \in Range(FirstLines(N[i].lines))
                    \/ i < k /\ l \in Range(LastLines(N[i].lines))
          BY DEF InContext
        <5>2. i \in 1 .. k - 1
          BY <2>7, <2>9, <5>1
        <5>3. CASE i < k - 1 \/ (i > 1 /\ l \in Range(FirstLines(N[i].lines)))
          BY <5>1, <5>2, <5>3 DEF InContext
        <5>4. CASE i = k - 1 /\ l \in Range(LastLines(N[i].lines))
          BY <1>0, <5>1, <5>2, <5>4
        <5> QED BY <4>1, <5>1, <5>2, <5>3, <5>4
      <4>3. InContext(N, k - 1, l) => InContext(N, k, l)
        BY <2>7, <4>1 DEF InContext
      <4>4. Flush => InContext(N, k, l)
        <5>1. k > 1 => k - 1 \in 1 .. k /\ k - 1 < k
          BY <1>0
        <5> QED BY <5>1 DEF InContext
      <4> QED BY <4>2, <4>3, <4>4
    <3> QED BY <3>1, <3>2
  <2> QED BY <2>8, <2>9
<1>9. k > 0 /\ (k # 0)
  BY <1>0
<1>10. Grew(N, k, new)
  BY <1>6, <1>7, <1>8, <1>9 DEF Grew
<1> QED BY <1>10 DEF new

LEMMA NoLinesAtAll ==
    ASSUME NEW s \in Seq(Nat) PROVE Range(s) = {} <=> s = <<>>
<1>1. s # <<>> => 1 \in DOMAIN s
  OBVIOUS
<1>2. Range(<<>>) = {}
  BY DEF Range
<1> QED BY <1>1, <1>2 DEF Range

(* A hunk of context has no line of another type. *)
LEMMA GrownOthers ==
    ASSUME NEW acc \in Growing, NEW part \in Piece, NEW t \in Differ
    PROVE  /\ LinesOf(acc.hunks, {t}) \in Seq(Nat)
           /\ LinesOf(Grown(acc, part).hunks, {t}) =
                IF part.type = t THEN LinesOf(acc.hunks, {t}) \o part.lines ELSE LinesOf(acc.hunks, {t})
<1> DEFINE types == {t}
           added == LinesOf(acc.hunks, types)
           first == IF acc.hunks # <<>> /\ "context" \in types THEN FirstLines(part.lines) ELSE <<>>
           last  == IF acc.buffer # <<>> /\ "context" \in types THEN LastLines(acc.buffer) ELSE <<>>
           own   == IF part.type \in types THEN part.lines ELSE <<>>
<1>1. t # "context" /\ "context" \notin types /\ (part.type \in types <=> part.type = t)
  BY DEF Differ
<1>2. first = <<>> /\ last = <<>> /\ own = IF part.type = t THEN part.lines ELSE <<>>
  BY <1>1
<1> HIDE DEF types
<1>3. /\ added \in Seq(Nat)
      /\ LinesOf(Grown(acc, part).hunks, types) =
           IF part.type = "context" THEN added \o first ELSE (added \o last) \o own
  BY GrownLines
<1> HIDE DEF added, first, last, own
<1>4. added \o <<>> = added
  BY <1>3
<1>5. LinesOf(Grown(acc, part).hunks, types) = IF part.type = t THEN added \o part.lines ELSE added
  BY <1>1, <1>2, <1>3, <1>4
<1> QED BY <1>3, <1>5 DEF added, types

(* What the hunks show of any two configurations.                          *)
LEMMA HunksShow ==
    ASSUME NEW parts \in Comparisons
    PROVE  LET N == Numbered(parts)
               H == Hunks(parts)
               d == LinesOf(N, Differ)
           IN  /\ H \in Seq(Piece)
               /\ \A t \in Differ : LinesOf(H, {t}) = LinesOf(N, {t})
               /\ Range(LinesOf(H, {"context"})) =
                    {l \in Range(LinesOf(N, {"context"})) : Near(l, d)}
               /\ Counted(H, "added") = 0 /\ Counted(H, "removed") = 0 <=> d = <<>>
<1> DEFINE N == Numbered(parts)
           H == Hunks(parts)
           d == LinesOf(N, Differ)
           n == Len(N)
<1>1. N \in Seq(Piece) /\ n > 0 /\ n \in Nat /\ \A k \in 1 .. n : N[k] \in Piece
  BY NumberedIs
<1>2. PICK b : Layout(N, b)
  BY NumberedIs
<1>3. H = FoldLeft(Grown, NoGrowth, N).hunks
  BY DEF Hunks, NoGrowth
<1> HIDE DEF N, H
<1>4. PICK h : Steps(h, Growing, GrowStep, NoGrowth, N) /\ FoldLeft(Grown, NoGrowth, N) = h[n]
  BY <1>1, GrowSteps DEF Ends
<1>5. /\ h[0] = NoGrowth /\ h[n] \in Growing /\ H = h[n].hunks
      /\ \A k \in 1 .. n : h[k - 1] \in Growing /\ h[k] = Grown(h[k - 1], N[k])
  <2>1. /\ h[0] = NoGrowth /\ h[n] \in Growing
        /\ \A k \in 1 .. n : h[k - 1] \in Growing /\ h[k] = GrowStep[<<h[k - 1], N[k]>>]
    BY <1>4 DEF Steps
  <2> QED BY <1>1, <1>3, <1>4, <2>1 DEF GrowStep
<1>6. NoGrowth.hunks = <<>> /\ NoGrowth.buffer = <<>> /\ Range(<<>>) = {}
  BY DEF NoGrowth, Range
<1>7. Grew(N, n, h[n])
  <2> DEFINE S == {k \in 0 .. n : Grew(N, k, h[k])}
  <2>1. 0 \in S
    <3>1. \A l : ~InContext(N, 0, l)
      BY DEF InContext
    <3>2. Grew(N, 0, h[0])
      BY <1>5, <1>6, <3>1, NoLines DEF Grew
    <3> QED BY <1>1, <3>2
  <2>2. ASSUME NEW k \in 1 .. n, k - 1 \in S PROVE k \in S
    <3>1. Grew(N, k - 1, h[k - 1])
      BY <2>2
    <3>2. Grew(N, k, Grown(h[k - 1], N[k]))
      BY <1>1, <1>2, <1>5, <3>1, GrewNext
    <3> QED BY <1>5, <3>2
  <2> HIDE DEF S
  <2>3. 0 .. n \subseteq S
    BY <1>1, <2>1, <2>2, InductionUpTo
  <2> QED BY <1>1, <2>3 DEF S
<1>8. H \in Seq(Piece)
  BY <1>5 DEF Growing
<1>9. ASSUME NEW t \in Differ PROVE LinesOf(H, {t}) = LinesOf(N, {t})
  <2>1. PICK g : Steps(g, Seq(Nat), LineStep({t}), <<>>, N) /\ LinesOf(N, {t}) = g[n]
    BY <1>1, LineSteps DEF Ends
  <2> DEFINE shown == [k \in 0 .. n |-> LinesOf(h[k].hunks, {t})]
  <2>2. g[0] = shown[0]
    <3>1. shown[0] = <<>>
      BY <1>1, <1>5, <1>6, NoLines
    <3> QED BY <2>1, <3>1 DEF Steps
  <2>3. ASSUME NEW k \in 1 .. n, g[k - 1] = shown[k - 1] PROVE g[k] = shown[k]
    <3> DEFINE acc == h[k - 1]
               added == LinesOf(acc.hunks, {t})
    <3>1. acc \in Growing /\ N[k] \in Piece /\ N[k].lines \in Seq(Nat) /\ h[k] = Grown(acc, N[k])
      BY <1>1, <1>5 DEF Piece
    <3>2. shown[k] = LinesOf(h[k].hunks, {t}) /\ shown[k - 1] = added
      BY <1>1
    <3>3. g[k - 1] \in Seq(Nat) /\ g[k] = LineStep({t})[<<g[k - 1], N[k]>>]
      BY <2>1 DEF Steps
    <3>4. g[k] = IF N[k].type = t THEN g[k - 1] \o N[k].lines ELSE g[k - 1]
      BY <3>1, <3>3 DEF LineStep
    <3>5. added \in Seq(Nat) /\ added = g[k - 1]
      BY <2>3, <3>2, <3>3
    <3>6. LinesOf(h[k].hunks, {t}) = IF N[k].type = t THEN added \o N[k].lines ELSE added
      <4> HIDE DEF acc, n, d, shown
      <4>1. LinesOf(Grown(acc, N[k]).hunks, {t}) =
              IF N[k].type = t THEN LinesOf(acc.hunks, {t}) \o N[k].lines ELSE LinesOf(acc.hunks, {t})
        BY <3>1, GrownOthers
      <4> QED BY <3>1, <4>1
    <3> HIDE DEF added, shown
    <3> QED BY <3>2, <3>4, <3>5, <3>6
  <2>4. shown[n] = LinesOf(H, {t}) /\ n \in 0 .. n
    BY <1>1, <1>5
  <2> HIDE DEF shown
  <2>5. \A k \in 0 .. n : g[k] = shown[k]
    BY <1>1, <2>2, <2>3, StepsAgree
  <2> QED BY <2>1, <2>4, <2>5
<1>10. ASSUME NEW l
       PROVE  l \in Range(LinesOf(H, {"context"})) <=> l \in Range(LinesOf(N, {"context"})) /\ Near(l, d)
  <2>1. l \in Range(LinesOf(H, {"context"})) <=> InContext(N, n, l)
    BY <1>5, <1>7 DEF Grew
  <2>2. l \in Range(LinesOf(N, {"context"})) <=>
          \E i \in 1 .. n : N[i].type = "context" /\ l \in Range(N[i].lines)
    BY <1>1, LinesOfRange
  <2>3. ASSUME NEW i \in 1 .. n, N[i].type = "context"
        PROVE  /\ \A j \in 1 .. Len(N[i].lines) :
                    Near(N[i].lines[j], d) <=>
                      (i > 1 /\ j <= Context) \/ (i < n /\ Len(N[i].lines) - Context < j)
               /\ l \in Range(FirstLines(N[i].lines)) <=>
                    \E j \in 1 .. Len(N[i].lines) : j <= Context /\ l = N[i].lines[j]
               /\ l \in Range(LastLines(N[i].lines)) <=>
                    \E j \in 1 .. Len(N[i].lines) : Len(N[i].lines) - Context < j /\ l = N[i].lines[j]
               /\ l \in Range(N[i].lines) <=> \E j \in 1 .. Len(N[i].lines) : l = N[i].lines[j]
    <3>1. N[i].lines \in Seq(Nat) /\ DOMAIN N[i].lines = 1 .. Len(N[i].lines)
      BY <1>1 DEF Piece
    <3>2. \A j \in 1 .. Len(N[i].lines) :
             Near(N[i].lines[j], d) <=>
               (i > 1 /\ j <= Context) \/ (i < n /\ Len(N[i].lines) - Context < j)
      BY <1>1, <1>2, <2>3, NearTheEnds
    <3>3. /\ l \in Range(FirstLines(N[i].lines)) <=>
               \E j \in DOMAIN N[i].lines : j <= Context /\ l = N[i].lines[j]
          /\ l \in Range(LastLines(N[i].lines)) <=>
               \E j \in DOMAIN N[i].lines : Len(N[i].lines) - Context < j /\ l = N[i].lines[j]
      BY <3>1, Cuts
    <3>4. l \in Range(N[i].lines) <=> \E j \in DOMAIN N[i].lines : l = N[i].lines[j]
      BY DEF Range
    <3> QED BY <3>1, <3>2, <3>3, <3>4
  <2> HIDE DEF n, d
  <2>4. ASSUME InContext(N, n, l) PROVE l \in Range(LinesOf(N, {"context"})) /\ Near(l, d)
    <3>1. PICK i \in 1 .. n :
             /\ N[i].type = "context"
             /\ \/ i > 1 /\ l \in Range(FirstLines(N[i].lines))
                \/ i < n /\ l \in Range(LastLines(N[i].lines))
      BY <2>4 DEF InContext
    <3>2. PICK j \in 1 .. Len(N[i].lines) :
             /\ l = N[i].lines[j]
             /\ (i > 1 /\ j <= Context) \/ (i < n /\ Len(N[i].lines) - Context < j)
      BY <2>3, <3>1
    <3>3. Near(l, d) /\ l \in Range(N[i].lines)
      BY <2>3, <3>1, <3>2
    <3> QED BY <2>2, <3>1, <3>3
  <2>5. ASSUME l \in Range(LinesOf(N, {"context"})), Near(l, d) PROVE InContext(N, n, l)
    <3>1. PICK i \in 1 .. n : N[i].type = "context" /\ l \in Range(N[i].lines)
      BY <2>2, <2>5
    <3>2. PICK j \in 1 .. Len(N[i].lines) : l = N[i].lines[j]
      BY <2>3, <3>1
    <3>3. (i > 1 /\ j <= Context) \/ (i < n /\ Len(N[i].lines) - Context < j)
      BY <2>3, <2>5, <3>1, <3>2
    <3>4. \/ i > 1 /\ l \in Range(FirstLines(N[i].lines))
          \/ i < n /\ l \in Range(LastLines(N[i].lines))
      BY <2>3, <3>1, <3>2, <3>3
    <3> QED BY <3>1, <3>4 DEF InContext
  <2> QED BY <2>1, <2>4, <2>5
<1>11. Counted(H, "added") = 0 /\ Counted(H, "removed") = 0 <=> d = <<>>
  <2>1. ASSUME NEW t \in Differ PROVE Counted(H, t) = 0 <=> Range(LinesOf(N, {t})) = {}
    <3>1. Counted(H, t) = Len(LinesOf(N, {t}))
      BY <1>8, <1>9, CountedLines
    <3>2. LinesOf(N, {t}) \in Seq(Nat)
      BY <1>1, LinesOfRange
    <3>3. Len(LinesOf(N, {t})) = 0 <=> LinesOf(N, {t}) = <<>>
      BY <3>2
    <3> QED BY <3>1, <3>2, <3>3, NoLinesAtAll
  <2>2. d \in Seq(Nat)
    BY <1>1, LinesOfRange
  <2>3. d = <<>> <=> Range(d) = {}
    <3> HIDE DEF d
    <3> QED BY <2>2, NoLinesAtAll
  <2>4. \A l : l \in Range(d) <=> \E t \in Differ : l \in Range(LinesOf(N, {t}))
    <3>1. ASSUME NEW l PROVE l \in Range(d) <=> \E i \in 1 .. n : N[i].type \in Differ /\ l \in Range(N[i].lines)
      BY <1>1, LinesOfRange
    <3>2. ASSUME NEW l, NEW t
          PROVE  l \in Range(LinesOf(N, {t})) <=> \E i \in 1 .. n : N[i].type = t /\ l \in Range(N[i].lines)
      BY <1>1, LinesOfRange
    <3> HIDE DEF d, n
    <3>3. ASSUME NEW l \in Range(d) PROVE \E t \in Differ : l \in Range(LinesOf(N, {t}))
      <4>1. PICK i \in 1 .. n : N[i].type \in Differ /\ l \in Range(N[i].lines)
        BY <3>1
      <4> QED BY <3>2, <4>1
    <3>4. ASSUME NEW l, NEW t \in Differ, l \in Range(LinesOf(N, {t})) PROVE l \in Range(d)
      <4>1. PICK i \in 1 .. n : N[i].type = t /\ l \in Range(N[i].lines)
        BY <3>2, <3>4
      <4> QED BY <3>1, <4>1
    <3> QED BY <3>3, <3>4
  <2>5. "added" \in Differ /\ "removed" \in Differ /\ \A t \in Differ : t = "added" \/ t = "removed"
    BY DEF Differ
  <2> HIDE DEF d
  <2>6. Range(d) = {} <=> \A t \in Differ : Range(LinesOf(N, {t})) = {}
    BY <2>4
  <2> QED BY <2>1, <2>3, <2>5, <2>6
<1> QED BY <1>8, <1>9, <1>10, <1>11 DEF N, H

ModalState ==
    [kind : {"none", "device", "diff"}, stage : {"loading", "ready", "failed"},
     parts : Comparisons \cup {<<>>}, blank : BOOLEAN, hunks : Seq(Piece),
     confirm : BOOLEAN, pushing : BOOLEAN, told : BOOLEAN]

(* The comparison on the screen is that of two configurations: nothing     *)
(* changes it once it was made.                                            *)
Compared ==
    /\ modal \in ModalState
    /\ modal.kind = "diff" /\ modal.stage = "ready" /\ ~modal.blank =>
         modal.parts \in Comparisons /\ modal.hunks = Hunks(modal.parts)

LEMMA ComparedInv == DriftSpec => []Compared
<1>0. NoModal \in ModalState
  <2>1. <<>> \in Seq(Piece)
    OBVIOUS
  <2> QED BY <2>1 DEF NoModal, ModalState
<1>1. DriftInit => Compared
  BY <1>0 DEF DriftInit, Compared, NoModal
<1>2. Compared /\ [DriftNext]_driftVars => Compared'
  <2> SUFFICES ASSUME Compared, [DriftNext]_driftVars PROVE Compared'
    OBVIOUS
  <2>0. NoModal \in ModalState
    BY <1>0
  <2>1. CASE OpenDevice \/ Close
    BY <2>0, <2>1 DEF OpenDevice, Close, Compared, ModalState, NoModal
  <2>6. CASE OpenDiff
    <3>1. modal' = [NoModal EXCEPT !.kind = "diff", !.stage = "loading"]
      BY <2>6 DEF OpenDiff
    <3>2. modal' \in ModalState /\ modal'.stage = "loading"
      BY <2>0, <3>1 DEF ModalState, NoModal
    <3> QED BY <3>2 DEF Compared
  <2>2. CASE Loaded
    <3>1. CASE \E parts \in Comparisons :
                 modal' = [modal EXCEPT !.stage = "ready", !.parts = parts, !.hunks = Hunks(parts)]
      <4>1. PICK parts \in Comparisons :
                 modal' = [modal EXCEPT !.stage = "ready", !.parts = parts, !.hunks = Hunks(parts)]
        BY <3>1
      <4>2. Hunks(parts) \in Seq(Piece)
        BY HunksShow
      <4> QED BY <4>1, <4>2 DEF Compared, ModalState
    <3>2. CASE modal' = [modal EXCEPT !.stage = "ready", !.blank = TRUE]
      BY <3>2 DEF Compared, ModalState
    <3> QED BY <2>2, <3>1, <3>2 DEF Loaded
  <2>3. CASE LoadFails \/ Apply \/ Cancel \/ Push
    BY <2>3 DEF LoadFails, Apply, Cancel, Push, Compared, ModalState
  <2>4. ASSUME NEW n \in Slot, Answered(n) PROVE Compared'
    BY <2>4 DEF Answered, Compared, ModalState
  <2>5. CASE UNCHANGED driftVars
    BY <2>5 DEF driftVars, Compared
  <2> QED BY <2>1, <2>2, <2>3, <2>4, <2>5, <2>6 DEF DriftNext
<1> QED BY <1>1, <1>2, PTL DEF DriftSpec

(* The comparison that DiffModal shows, for any two configurations and any *)
(* number of context lines: every line that differs once and in order, of  *)
(* the others those near one that differs, and clean if and only if nothing*)
(* differs (DevicesPage.tsx:120-151).                                      *)
THEOREM ComparisonIsShown == DriftSpec => []DriftIsShown
<1>1. Compared => DriftIsShown
  <2> SUFFICES ASSUME Compared, modal.kind = "diff", modal.stage = "ready", ~modal.blank
               PROVE  LET parts  == Numbered(modal.parts)
                          differ == LinesOf(parts, {"removed", "added"})
                      IN  /\ \A t \in {"removed", "added"} : LinesOf(modal.hunks, {t}) = LinesOf(parts, {t})
                          /\ Range(LinesOf(modal.hunks, {"context"})) =
                              {l \in Range(LinesOf(parts, {"context"})) : Near(l, differ)}
                          /\ Clean(modal) <=> differ = <<>>
    BY DEF DriftIsShown
  <2>1. modal.parts \in Comparisons /\ modal.hunks = Hunks(modal.parts)
    BY DEF Compared
  <2>2. Clean(modal) <=> Counted(modal.hunks, "added") = 0 /\ Counted(modal.hunks, "removed") = 0
    BY DEF Clean
  <2> QED BY <2>1, <2>2, HunksShow DEF Differ
<1> QED BY <1>1, ComparedInv, PTL

-----------------------------------------------------------------------------
(* The pages, side by side *)

(* The pages behave, seen from each screen alone, as that screen does: what  *)
(* is proved of a screen holds whatever else the dashboard shows (MCPages). *)
THEOREM PagesAreScreens == PagesSpec => RecordsSpec /\ FleetSpec /\ DriftSpec
<1> DEFINE vars == <<recordsVars, fleetVars, driftVars, screen>>
<1>1. PagesInit => RecordsInit /\ FleetInit /\ DriftInit
  BY DEF PagesInit
<1>2. [PagesNext]_vars => [RecordsNext]_recordsVars
  BY DEF PagesNext
<1>3. [PagesNext]_vars => [FleetNext]_fleetVars
  BY DEF PagesNext
<1>4. [PagesNext]_vars => [DriftNext]_driftVars
  BY DEF PagesNext
<1> QED
  BY <1>1, <1>2, <1>3, <1>4, PTL DEF PagesSpec, RecordsSpec, FleetSpec, DriftSpec

(* What DriftSpec keeps has its type, too. *)
THEOREM DriftTypeCorrect == DriftSpec => []DriftTypeOK
<1>1. ModalInv /\ Compared => DriftTypeOK
  <2> SUFFICES ASSUME ModalInv, Compared PROVE DriftTypeOK
    OBVIOUS
  <2>1. \A h \in Range(modal.hunks) : h.type \in Type /\ h.lines \in Seq(Nat)
    <3>1. modal.hunks \in Seq(Piece)
      BY DEF Compared, ModalState
    <3>2. \A h \in Range(modal.hunks) : h \in Piece
      BY <3>1 DEF Range
    <3> QED BY <3>2 DEF Piece
  <2>2. name \in Slot /\ pushes \in [Slot -> Nat]
    BY DEF ModalInv
  <2>3. /\ modal.kind \in {"none", "device", "diff"}
        /\ modal.stage \in {"loading", "ready", "failed"}
        /\ {modal.blank, modal.confirm, modal.pushing, modal.told} \subseteq BOOLEAN
    BY DEF Compared, ModalState
  <2> QED BY <2>1, <2>2, <2>3 DEF DriftTypeOK
<1> QED BY <1>1, ModalInitInv, ModalNextInv, ComparedInv, PTL DEF DriftSpec

(* The types of all screens, whatever their number of rows, devices and    *)
(* parts (MCPages).                                                        *)
THEOREM ScreensTypeCorrect == PagesSpec => []ScreensTypeOK
BY PagesAreScreens, FleetTypeCorrect, DriftTypeCorrect, PTL DEF ScreensTypeOK
=============================================================================
