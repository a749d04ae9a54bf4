---------------------------- MODULE Provisioning ----------------------------
(***************************************************************************)
(* Zero touch provisioning: the unauthenticated endpoints a network device *)
(* calls while it boots (Cisco PnP, the generic config download, Juniper   *)
(* ZTP, Aruba ZTP), the lease poller that registers devices nobody asked   *)
(* about, the dashboard calls that edit the same rows, and the network     *)
(* devices themselves.                                                     *)
(*                                                                         *)
(* A handler reads a row of devices once, keeps the copy, and writes whole *)
(* rows back from that copy, one statement at a time and without a         *)
(* transaction.  Each statement is a step here; a request in flight is a   *)
(* record in req, and the copy it holds is its field dev.  The update of   *)
(* last_seen and last_connection_ip, which no decision of these handlers   *)
(* reads, and the audit log, which nothing reads back, are left out.       *)
(***************************************************************************)
EXTENDS DeviceTable

CONSTANTS
    Cisco, Juniper, Aruba,  \* the boxes of each vendor protocol
    Handler,                \* the API requests that can be in flight at once
    Tab,                    \* the device forms open in dashboards
    Operator,               \* the operator calls considered, of OperatorCalls
    Dhcp,                   \* the boxes Kea may hold an active lease for
    Reserved                \* the boxes whose row has a dhcp_reservations row

OperatorCalls == {"register", "remove", "edit", "profiles"}

ASSUME BoxAssumption ==
    /\ Box # {}
    /\ Box = Cisco \cup Juniper \cup Aruba
    /\ Cisco \cap Juniper = {} /\ Cisco \cap Aruba = {}
    /\ Juniper \cap Aruba = {}

ASSUME SetupAssumption ==
    /\ Operator \subseteq OperatorCalls
    /\ Dhcp \subseteq Box
    /\ Reserved \subseteq Box

VARIABLES
    devices,   \* the table devices
    profiles,  \* the ids of the rows of device_profiles
    req,       \* req[h]: the request in flight in slot h
    box,       \* box[b]: what network device b is doing
    tab,       \* tab[t]: the copy of a row held by an open form
    leased,    \* the boxes with an active lease in lease4
    due,       \* the leases the running poller tick still has to insert
    granted    \* history: the profiles an operator has assigned to each box

vars == <<devices, profiles, req, box, tab, leased, due, granted>>

-----------------------------------------------------------------------------
Ops == {"hello", "work", "config", "result", "juniper", "aruba"}

Steps == {"create", "refetch", "touch", "mark", "render", "settle", "respond"}

(* A request: the statement it runs next (pc), which endpoint serves it,   *)
(* the box that sent it, the id and the copy of its row, the profile whose *)
(* rendering the response carries (got), whether the response grants what  *)
(* was asked (good), and whether the box still waits for it (peer).        *)
Request == [pc : Steps, op : Ops, box : Box, id : Opt(Id),
            dev : Row \cup {NoRow}, got : Opt(Profile),
            good : BOOLEAN, peer : {"waiting", "gone"}]

Idle == [pc |-> "idle", op |-> "none", box |-> NULL, id |-> NULL,
         dev |-> NoRow, got |-> NULL, good |-> FALSE, peer |-> "gone"]

Active(h) == req[h].pc # "idle"

(* A network device: what it does next, the configuration it has fetched   *)
(* but not applied (got), and the one it runs (cfg).                       *)
Phases == {"poll", "fetch", "apply", "reportOK", "reportBad", "done"}

BoxState == [phase : Phases, got : Opt(Profile), cfg : Opt(Profile)]

FormState == [id : Id, row : Row]

Closed == [id |-> NULL, row |-> NoRow]

TypeOK ==
    /\ devices \in Table
    /\ profiles \subseteq Profile
    /\ req \in [Handler -> Request \cup {Idle}]
    /\ box \in [Box -> BoxState]
    /\ tab \in [Tab -> FormState \cup {Closed}]
    /\ leased \subseteq Dhcp
    /\ due \subseteq Dhcp
    /\ granted \in [Box -> SUBSET Profile]

Init ==
    /\ devices = EmptyTable
    /\ profiles \in SUBSET Profile
    /\ req = [h \in Handler |-> Idle]
    /\ box = [b \in Box |-> [phase |-> "poll", got |-> NULL, cfg |-> NULL]]
    /\ tab = [t \in Tab |-> Closed]
    /\ leased = {}
    /\ due = {}
    /\ granted = [b \in Box |-> {}]

-----------------------------------------------------------------------------
(* The box waits for a response before it does anything else. *)
Waiting(b) ==
    \E h \in Handler :
        Active(h) /\ req[h].box = b /\ req[h].peer = "waiting"

(* A new UUID: no row has it and nothing remembers a row that had it. *)
Fresh(i) ==
    /\ devices[i] = NoRow
    /\ \A h \in Handler : req[h].id # i
    /\ \A t \in Tab : tab[t].id # i

(* The INSERT of r violates no constraint (its id is new, so no row of the *)
(* table is exempt from the comparison).                                   *)
Insertable(r) == Admits(devices, profiles, NULL, r)

(* Mutant: every endpoint looks its identifier up as a serial number. *)
KeySerial(op) == "serial"

(* The identifier an endpoint receives: Aruba's URL holds the MAC address, *)
(* every other endpoint is given the serial number.                        *)
Key(op) == IF op = "aruba" THEN "mac" ELSE "serial"

(* Request h of box b goes on with statement pc, holding copy d of row i. *)
At(pc, op, b, i, d, peer) ==
    [pc |-> pc, op |-> op, box |-> b, id |-> i, dev |-> d,
     got |-> NULL, good |-> FALSE, peer |-> peer]

(* All that is left is the response: whether it grants the request, and    *)
(* which profile's rendering it carries.                                   *)
Reply(op, b, ok, p, peer) ==
    [pc |-> "respond", op |-> op, box |-> b, id |-> NULL, dev |-> NoRow,
     got |-> p, good |-> ok, peer |-> peer]

Deny(op, b, peer) == Reply(op, b, FALSE, NULL, peer)

Offer(b, peer) == Reply("work", b, TRUE, NULL, peer)

Provisioned(d) == [d EXCEPT !.status = "provisioned", !.stamped = TRUE]

(* Mutant: a success report sets the status but not provisioned_at. *)
ReportedUnstamped(d, ok) ==
    [d EXCEPT !.status = IF ok THEN "provisioned" ELSE "failed"]

(* Mutant: the success test of the report is inverted. *)
ReportedInverted(d, ok) ==
    IF ok THEN [d EXCEPT !.status = "failed"] ELSE Provisioned(d)

(* What a work result, or the outcome of a rendering, makes of the copy. *)
Reported(d, ok) ==
    IF ok THEN Provisioned(d) ELSE [d EXCEPT !.status = "failed"]

(* Mutant: WORK-REQUEST offers a configuration whatever the status is. *)
OffersAlways(d) == d.profile # NULL

(* WORK-REQUEST offers a configuration to an assigned row that is not      *)
(* provisioned.                                                            *)
Offers(d) == d.profile # NULL /\ d.status # "provisioned"

(* Mutant: offering the configuration already counts as provisioning. *)
MarkedEarly(d) == Provisioned(d)

Marked(d) == [d EXCEPT !.status = "provisioning"]

(* The request with copy d of row i, past registration: the next statement *)
(* of its handler, or the response when there is none.                     *)
Routed(op, b, i, d, peer) ==
    IF \/ op = "config"
       \/ op = "work" /\ Offers(d)
       \/ op \in {"juniper", "aruba"} /\ d.profile # NULL
    THEN At("mark", op, b, i, d, peer)
    ELSE Deny(op, b, peer)

(* The structure a handler inserts for a box it does not find. *)
NewRow(s, m) ==
    [serial |-> s, spelt |-> "requested", mac |-> m, status |-> "discovered",
     profile |-> NULL, mgmt |-> NULL, stamped |-> FALSE]

-----------------------------------------------------------------------------
(* A request arrives and its handler looks the row up. *)

Send(h, b, phase) == ~Active(h) /\ box[b].phase = phase /\ ~Waiting(b)

Serving(h, r) ==
    /\ req' = [req EXCEPT ![h] = r]
    /\ UNCHANGED <<devices, profiles, box, tab, leased, due, granted>>

(* Handlers that register a box they do not know. *)
Arrive(h, b, op) ==
    /\ Send(h, b, "poll")
    /\ \/ \E i \in Find(devices, Key(op), b) :
            Serving(h, Routed(op, b, i, devices[i], "waiting"))
       \/ /\ Find(devices, Key(op), b) = {}
          /\ Serving(h, At("create", op, b, NULL,
                           IF op = "aruba" THEN NewRow(NULL, b)
                                           ELSE NewRow(b, NULL), "waiting"))

Hello(h, b) == b \in Cisco /\ Arrive(h, b, "hello")

WorkRequest(h, b) == b \in Cisco /\ Arrive(h, b, "work")

ArubaConfig(h, b) == b \in Aruba /\ Arrive(h, b, "aruba")

(* Juniper's handler lower-cases the serial number, so it finds and makes  *)
(* rows in that spelling only.  It first asks lease4 for the MAC address,  *)
(* and backfills it into a row that has none.                              *)
Backfilled(d, m) == IF d.mac = NULL THEN [d EXCEPT !.mac = m] ELSE d

JuniperFound(b, i, m, peer) ==
    LET d == Backfilled(devices[i], m)
    IN  IF d # devices[i] THEN At("touch", "juniper", b, i, d, peer)
                          ELSE Routed("juniper", b, i, d, peer)

JuniperConfig(h, b) ==
    LET m == IF b \in leased THEN b ELSE NULL IN
    /\ b \in Juniper
    /\ Send(h, b, "poll")
    /\ \/ \E i \in Find(devices, "serial", b) :
            Serving(h, JuniperFound(b, i, m, "waiting"))
       \/ /\ Find(devices, "serial", b) = {}
          /\ Serving(h, At("create", "juniper", b, NULL, NewRow(b, m), "waiting"))

(* The generic download only serves a box that is registered. *)
GetConfig(h, b) ==
    /\ b \in Cisco
    /\ Send(h, b, "fetch")
    /\ \/ \E i \in Find(devices, "serial", b) :
            Serving(h, Routed("config", b, i, devices[i], "waiting"))
       \/ /\ Find(devices, "serial", b) = {}
          /\ Serving(h, Deny("config", b, "waiting"))

(* The work result of a box: PnP WORK-RESPONSE, or HELLO with PUT. *)
WorkResult(h, b, ok) ==
    /\ b \in Cisco
    /\ Send(h, b, IF ok THEN "reportOK" ELSE "reportBad")
    /\ \/ \E i \in Find(devices, "serial", b) :
            Serving(h, At("settle", "result", b, i,
                          Reported(devices[i], ok), "waiting"))
       \/ /\ Find(devices, "serial", b) = {}
          /\ Serving(h, Deny("result", b, "waiting"))

-----------------------------------------------------------------------------
(* The statements of a request in flight, one per step. *)

(* The INSERT of an unknown box.  The copy the handler goes on with has no *)
(* profile, so every one of these handlers then answers without a config.  *)
Create(h) ==
    LET r == req[h] IN
    /\ r.pc = "create"
    /\ \/ \E i \in Id :
            /\ Fresh(i)
            /\ Insertable(r.dev)
            /\ devices' = Insert(devices, i, r.dev)
            /\ req' = [req EXCEPT ![h] = Deny(r.op, r.box, r.peer)]
       \/ /\ ~Insertable(r.dev)
          /\ req' = [req EXCEPT ![h].pc = "refetch"]
          /\ UNCHANGED devices
    /\ UNCHANGED <<profiles, box, tab, leased, due, granted>>

(* The INSERT failed, supposedly because another request registered the    *)
(* box: look it up again, and give up when it still is not there.          *)
Refetch(h) ==
    LET r == req[h]
        found == Find(devices, Key(r.op), r.box) IN
    /\ r.pc = "refetch"
    /\ \/ \E i \in found :
            Serving(h, IF r.op = "juniper"
                       THEN JuniperFound(r.box, i, r.dev.mac, r.peer)
                       ELSE Routed(r.op, r.box, i, devices[i], r.peer))
       \/ /\ found = {}
          /\ Serving(h, Deny(r.op, r.box, r.peer))

(* Juniper's UPDATE of the MAC column alone.  Its error is ignored, and    *)
(* the copy keeps the MAC address either way.                              *)
Touch(h) ==
    LET r == req[h] IN
    /\ r.pc = "touch"
    /\ devices' = Overwrite(devices, profiles, r.id,
                            [devices[r.id] EXCEPT !.mac = r.dev.mac])
    /\ req' = [req EXCEPT ![h] = Routed(r.op, r.box, r.id, r.dev, r.peer)]
    /\ UNCHANGED <<profiles, box, tab, leased, due, granted>>

(* The row is marked as provisioning from the copy; the error is ignored.  *)
(* WORK-REQUEST then answers with the download URL.                        *)
Mark(h) ==
    LET r == req[h]
        d == Marked(r.dev) IN
    /\ r.pc = "mark"
    /\ devices' = Overwrite(devices, profiles, r.id, d)
    /\ req' = [req EXCEPT ![h] =
                 IF r.op = "work" THEN Offer(r.box, r.peer)
                 ELSE At("render", r.op, r.box, r.id, d, r.peer)]
    /\ UNCHANGED <<profiles, box, tab, leased, due, granted>>

(* What a handler does with the outcome of renderConfig: the generic       *)
(* download answers at once; Juniper's and Aruba's record it first.        *)
Rendered(r, ok) ==
    LET p == IF ok THEN r.dev.profile ELSE NULL IN
    IF r.op = "config" THEN Reply("config", r.box, ok, p, r.peer)
    ELSE [r EXCEPT !.pc = "settle", !.dev = Reported(r.dev, ok),
                   !.good = ok, !.got = p]

(* Mutant: a configuration is rendered once, not again for a retry. *)
RenderableOnce(d) == d.profile \in profiles /\ ~d.stamped

(* renderConfig needs the profile of the copy to be there still. *)
Renderable(d) == d.profile \in profiles

RenderOK(h) ==
    /\ req[h].pc = "render"
    /\ Renderable(req[h].dev)
    /\ Serving(h, Rendered(req[h], TRUE))

(* No profile, a profile deleted meanwhile, or the renderer's refusal. *)
RenderFail(h) ==
    /\ req[h].pc = "render"
    /\ Serving(h, Rendered(req[h], FALSE))

(* The final status is written from the copy; the error is ignored. *)
Settle(h) ==
    LET r == req[h] IN
    /\ r.pc = "settle"
    /\ devices' = Overwrite(devices, profiles, r.id, r.dev)
    /\ req' = [req EXCEPT ![h] = Reply(r.op, r.box, r.good, r.got, r.peer)]
    /\ UNCHANGED <<profiles, box, tab, leased, due, granted>>

(* The response reaches the box, if the box still waits for it. *)
Answered(s, r) ==
    CASE r.op = "work" /\ r.good -> [s EXCEPT !.phase = "fetch"]
      [] r.op = "config" /\ ~r.good -> [s EXCEPT !.phase = "reportBad"]
      [] r.op = "result" -> [s EXCEPT !.phase = "poll"]
      [] r.got # NULL -> [s EXCEPT !.phase = "apply", !.got = r.got]
      [] OTHER -> s

Respond(h) ==
    LET r == req[h] IN
    /\ r.pc = "respond"
    /\ req' = [req EXCEPT ![h] = Idle]
    /\ box' = IF r.peer = "waiting"
              THEN [box EXCEPT ![r.box] = Answered(box[r.box], r)] ELSE box
    /\ UNCHANGED <<devices, profiles, tab, leased, due, granted>>

(* The request dies between two statements: the client went away and its   *)
(* context is cancelled, the request timed out, or the API restarted.      *)
Abort(h) == Active(h) /\ Serving(h, Idle)

(* The box stops waiting, but the server does not notice and goes on. *)
GiveUp(h) ==
    /\ req[h].peer = "waiting"
    /\ Serving(h, [req[h] EXCEPT !.peer = "gone"])

-----------------------------------------------------------------------------
(* Network devices.  Firmware is outside the repository: these actions are *)
(* what the handlers and the documented flows expect of it.                *)

BoxOnly == UNCHANGED <<devices, profiles, req, tab, due, granted>>

Configured(b) == box[b].cfg # NULL

(* The fetched configuration is applied: a Cisco box reports success, the  *)
(* others are done.                                                        *)
ApplyOK(b) ==
    /\ box[b].phase = "apply"
    /\ box' = [box EXCEPT ![b] =
                 [phase |-> IF b \in Cisco THEN "reportOK" ELSE "done",
                  got |-> NULL, cfg |-> box[b].got]]
    /\ UNCHANGED leased /\ BoxOnly

(* It is refused: a Cisco box reports failure, the others ask again. *)
ApplyFail(b) ==
    /\ box[b].phase = "apply"
    /\ box' = [box EXCEPT ![b] =
                 [phase |-> IF b \in Cisco THEN "reportBad" ELSE "poll",
                  got |-> NULL, cfg |-> box[b].cfg]]
    /\ UNCHANGED leased /\ BoxOnly

(* A download that gets no answer is reported as a failure. *)
FetchFail(b) ==
    /\ box[b].phase = "fetch" /\ ~Waiting(b)
    /\ box' = [box EXCEPT ![b] = [box[b] EXCEPT !.phase = "reportBad"]]
    /\ UNCHANGED leased /\ BoxOnly

(* Kea grants a lease, or lets it expire. *)
Lease(b) == b \in Dhcp /\ leased' = leased \cup {b} /\ UNCHANGED box /\ BoxOnly

Expire(b) == leased' = leased \ {b} /\ UNCHANGED box /\ BoxOnly

-----------------------------------------------------------------------------
(* The lease poller.  A tick lists the leases no row accounts for, and     *)
(* then inserts them one by one.  Kea records the serial number of a       *)
(* Juniper box as its host name, so a row with that serial, however it is  *)
(* spelled, accounts for the lease too.                                    *)
Accounted(b) ==
    \E i \in Live(devices) :
        devices[i].mac = b \/ (b \in Juniper /\ devices[i].serial = b)

PollLeases ==
    /\ due = {}
    /\ due' = {b \in leased : ~Accounted(b)}
    /\ UNCHANGED <<devices, profiles, req, box, tab, leased, granted>>

PollInsert(b) ==
    LET r == NewRow(NULL, b) IN
    /\ b \in due
    /\ due' = due \ {b}
    /\ \/ \E i \in Id :
            /\ Fresh(i)
            /\ Insertable(r)
            /\ devices' = Insert(devices, i, r)
       \/ ~Insertable(r) /\ UNCHANGED devices
    /\ UNCHANGED <<profiles, req, box, tab, leased, granted>>

-----------------------------------------------------------------------------
(* Operators, through the dashboard.                                       *)

Owns(r, b) == r.serial = b \/ r.mac = b

Grant(r) ==
    granted' = [b \in Box |-> IF Owns(r, b)
                              THEN granted[b] \cup ({r.profile} \cap Profile)
                              ELSE granted[b]]

(* POST /devices: pre-registration of a box by what is on its label.  The  *)
(* form trims the serial number and no more: that of a Juniper box is      *)
(* stored in capitals unless the operator types it in lower case.  A PnP   *)
(* box sends its serial number as the label prints it, and an Aruba box    *)
(* does not send it.                                                       *)
Register(b, s, sp, m, p, a) ==
    LET r == [NewRow(s, m) EXCEPT !.spelt = sp, !.profile = p, !.mgmt = a] IN
    /\ "register" \in Operator
    /\ {s, m} \subseteq {b, NULL}
    /\ sp = "printed" => s \in Juniper
    /\ Insertable(r)
    /\ \E i \in Id : Fresh(i) /\ devices' = Insert(devices, i, r)
    /\ Grant(r)
    /\ UNCHANGED <<profiles, req, box, tab, leased, due>>

(* DELETE /devices/{id} *)
Remove(i) ==
    /\ "remove" \in Operator
    /\ i \in Live(devices)
    /\ devices' = Erase(devices, i)
    /\ UNCHANGED <<profiles, req, box, tab, leased, due, granted>>

(* A dashboard shows a row; it keeps this copy until it is saved. *)
OpenForm(t, i) ==
    /\ "edit" \in Operator
    /\ tab[t] = Closed
    /\ i \in Live(devices)
    /\ tab' = [tab EXCEPT ![t] = [id |-> i, row |-> devices[i]]]
    /\ UNCHANGED <<devices, profiles, req, box, leased, due, granted>>

(* PUT /devices/{id}: the copy with the edited columns replaces the row,   *)
(* the status and provisioned_at of the copy included.  A refused save     *)
(* changes nothing and leaves the form open; saving a row that is gone     *)
(* looks like success.                                                     *)
SaveForm(t, p, a) ==
    LET i == tab[t].id
        r == [tab[t].row EXCEPT !.profile = p, !.mgmt = a] IN
    /\ tab[t] # Closed
    /\ i \in Live(devices) => Admits(devices, profiles, i, r)
    /\ devices' = Overwrite(devices, profiles, i, r)
    /\ tab' = [tab EXCEPT ![t] = Closed]
    /\ IF i \in Live(devices) THEN Grant(r) ELSE UNCHANGED granted
    /\ UNCHANGED <<profiles, req, box, leased, due>>

(* The form is closed without saving. *)
CloseForm(t) ==
    /\ tab[t] # Closed
    /\ tab' = [tab EXCEPT ![t] = Closed]
    /\ UNCHANGED <<devices, profiles, req, box, leased, due, granted>>

CreateProfile(p) ==
    /\ "profiles" \in Operator
    /\ p \notin profiles
    /\ profiles' = profiles \cup {p}
    /\ UNCHANGED <<devices, req, box, tab, leased, due, granted>>

DeleteProfile(p) ==
    /\ "profiles" \in Operator
    /\ p \in profiles
    /\ profiles' = profiles \ {p}
    /\ devices' = Unassign(devices, p)
    /\ UNCHANGED <<req, box, tab, leased, due, granted>>

-----------------------------------------------------------------------------
(* A configured box logs that it is: the syslog receiver marks the row     *)
(* that holds the reservation of the source address.                       *)
SyslogProvisioned(b, i) ==
    /\ b \in Reserved /\ Configured(b)
    /\ i \in Live(devices) /\ Owns(devices[i], b)
    /\ devices[i].status # "provisioned"
    /\ devices' = [devices EXCEPT ![i] = Provisioned(devices[i])]
    /\ UNCHANGED <<profiles, req, box, tab, leased, due, granted>>

-----------------------------------------------------------------------------
(* One statement of the request in slot h. *)
HandlerStep(h) ==
    Create(h) \/ Refetch(h) \/ Touch(h) \/ Mark(h) \/ RenderOK(h)
              \/ RenderFail(h) \/ Settle(h) \/ Respond(h)

Arrival(h, b) ==
    \/ Hello(h, b) \/ WorkRequest(h, b) \/ GetConfig(h, b)
    \/ \E ok \in BOOLEAN : WorkResult(h, b, ok)
    \/ JuniperConfig(h, b) \/ ArubaConfig(h, b)

BoxStep(b) == ApplyOK(b) \/ ApplyFail(b) \/ FetchFail(b) \/ Lease(b) \/ Expire(b)

OperatorStep ==
    \/ \E b \in Box, s, m \in Opt(Box), sp \in Spelling,
          p \in Opt(Profile), a \in Opt(Addr) : Register(b, s, sp, m, p, a)
    \/ \E i \in Id : Remove(i)
    \/ \E t \in Tab, i \in Id : OpenForm(t, i)
    \/ \E t \in Tab, p \in Opt(Profile), a \in Opt(Addr) : SaveForm(t, p, a)
    \/ \E t \in Tab : CloseForm(t)
    \/ \E p \in Profile : CreateProfile(p) \/ DeleteProfile(p)

Next ==
    \/ \E h \in Handler : HandlerStep(h) \/ Abort(h) \/ GiveUp(h)
    \/ \E h \in Handler, b \in Box : Arrival(h, b)
    \/ \E b \in Box : BoxStep(b) \/ PollInsert(b)
    \/ PollLeases
    \/ OperatorStep
    \/ \E b \in Box, i \in Id : SyslogProvisioned(b, i)

Spec == Init /\ [][Next]_vars

(* Goroutines of the API keep running, a box keeps sending what its phase  *)
(* calls for (a PnP box polls WORK-REQUEST every few seconds for ever), a  *)
(* configuration that is applied again and again is accepted eventually,   *)
(* and the lease poller ticks.  Sending needs strong fairness: it is       *)
(* disabled while another request of the box, or the slot, is in flight.   *)
Fairness ==
    /\ \A h \in Handler : WF_vars(HandlerStep(h))
    /\ \A b \in Box :
         /\ SF_vars(\E h \in Handler : WorkRequest(h, b))
         /\ SF_vars(\E h \in Handler : GetConfig(h, b))
         /\ SF_vars(\E h \in Handler, ok \in BOOLEAN : WorkResult(h, b, ok))
         /\ SF_vars(\E h \in Handler : JuniperConfig(h, b) \/ ArubaConfig(h, b))
         /\ WF_vars(ApplyOK(b))
         /\ WF_vars(PollInsert(b))
    /\ WF_vars(PollLeases)

FairSpec == Spec /\ Fairness

(* What may not go on for ever if provisioning is to finish: requests that *)
(* die before their answer is delivered, or are given up, renderings       *)
(* refused although the profile is there, configurations refused, and      *)
(* operators at work.                                                      *)
Disturbance ==
    \/ \E h \in Handler : (Abort(h) /\ ~Respond(h)) \/ GiveUp(h)
    \/ \E h \in Handler : Renderable(req[h].dev) /\ RenderFail(h)
    \/ \E b \in Box : ApplyFail(b) \/ FetchFail(b) \/ Lease(b) \/ Expire(b)
    \/ OperatorStep

-----------------------------------------------------------------------------
(* PROPERTIES *)

(* A row that says provisioned says when: status and provisioned_at are    *)
(* set together by every writer (UpdateDevice from any handler's copy, a   *)
(* form saved late, the syslog receiver), and no stale copy tears them     *)
(* apart.                                                                  *)
ProvisionedHasTime ==
    \A i \in Live(devices) :
        devices[i].status = "provisioned" => devices[i].stamped

(* A row of a Cisco box says provisioned only if the box has applied some  *)
(* configuration, whatever requests were retried, aborted, overtaken, or   *)
(* overwritten by a stale form in between.                                 *)
ProvisionedIsConfigured ==
    \A b \in Cisco : \A i \in Live(devices) :
        Owns(devices[i], b) /\ devices[i].status = "provisioned"
            => Configured(b)

(* A box runs only configurations of profiles that an operator assigned to *)
(* it: rendering from a copy never serves another box's profile, or one    *)
(* to a box nobody assigned.                                               *)
RunsOnlyAssigned ==
    \A b \in Box : Configured(b) => box[b].cfg \in granted[b]

(* A deleted row stays deleted: the UPDATE of a request or a form still in *)
(* flight when its row goes away never brings it back.  A row appears only *)
(* by registration, with the defaults of the INSERT.                       *)
NoResurrection ==
    [][\A i \in Live(devices') \ Live(devices) :
         devices'[i].status = "unknown" /\ ~devices'[i].stamped]_vars

(* The Cisco boxes on record as provisioned. *)
Recorded ==
    {b \in Cisco : \E i \in Live(devices) :
        Owns(devices[i], b) /\ devices[i].status = "provisioned"}

ZT == INSTANCE ZeroTouch WITH
        Box <- Cisco,
        granted <- [b \in Cisco |-> granted[b]],
        loaded <- [b \in Cisco |-> box[b].cfg],
        recorded <- Recorded

(* For Cisco boxes the asynchronous handlers implement the atomic          *)
(* specification: every statement of every request is one of its steps, or *)
(* none.                                                                   *)
ImplementsZeroTouch == ZT!Spec

(* A handler whose INSERT is refused finds the row that stood in its way:  *)
(* "Race: another request may have created it simultaneously"              *)
(* (juniper.go, aruba.go).  Then registration never fails, as long as no   *)
(* row is deleted meanwhile.                                               *)
RegistrationSucceeds ==
    \A h \in Handler :
        req[h].pc = "refetch" => Find(devices, Key(req[h].op), req[h].box) # {}

(* Juniper and Aruba boxes, whose ZTP client asks again and again: one     *)
(* whose row keeps a profile runs a configuration in the end, even when    *)
(* every write to its row is refused.  The row is one its handler can      *)
(* find: a Juniper box registered in capitals gets a second row, without a *)
(* profile, or, if the first has its MAC address, none (README, 4).        *)
EventuallyConfigured ==
    \A b \in Juniper \cup Aruba :
        /\ <>[][~Disturbance]_vars
        /\ <>[](\E i \in Find(devices, IF b \in Aruba THEN "mac" ELSE "serial", b) :
                  devices[i].profile # NULL)
        => <>Configured(b)

(* Whatever was lost, retried, or overwritten by late requests and stale   *)
(* forms: once that is over, a Cisco box whose row keeps a profile is, and *)
(* stays, recorded as provisioned, and runs a configuration.  PnP polling  *)
(* repairs the row after every lost update.                                *)
Convergence ==
    \A b \in Cisco :
        /\ <>[][~Disturbance]_vars
        /\ <>[](\E i \in Find(devices, "serial", b) : devices[i].profile # NULL)
        => <>[](/\ Configured(b)
                /\ \A i \in Find(devices, "serial", b) :
                      devices[i].status = "provisioned")

-----------------------------------------------------------------------------
(* The inductive invariant behind the safety properties.  They speak of    *)
(* the table, but a row is written from copies, so each must hold of every *)
(* copy as well: in the requests in flight and in the open forms.          *)

(* Copy d, held on behalf of box b, identifies no other box, and claims    *)
(* nothing of b that is not so.                                            *)
Fits(d, b) ==
    /\ \A c \in Box : Owns(d, c) => c = b
    /\ d.profile \in Opt(granted[b])
    /\ d.status = "provisioned" => d.stamped
    /\ b \in Cisco /\ d.status = "provisioned" => Configured(b)

(* The endpoint serves boxes of this vendor. *)
Speaks(op, b) == /\ op = "juniper" => b \in Juniper
                 /\ op = "aruba" => b \in Aruba

RequestOK(r) ==
    /\ Fits(r.dev, r.box)
    /\ r.got \in Opt(granted[r.box])
    /\ Speaks(r.op, r.box)
    /\ r.pc \in {"mark", "render"} => r.op \in {"work", "config", "juniper", "aruba"}
    /\ r.pc = "render" => r.op # "work"
    /\ r.pc \in {"touch", "mark", "render", "settle"} => r.id \in Id
    /\ r.pc # "respond" => r.dev \in Row

RequestsOK == \A h \in Handler : Active(h) => RequestOK(req[h])

BoxesOK ==
    \A b \in Box :
        /\ box[b].got \in Opt(granted[b])
        /\ box[b].cfg \in Opt(granted[b])
        /\ box[b].phase = "apply" => box[b].got # NULL
        /\ box[b].phase = "reportOK" => Configured(b)

(* Row i and all copies of it, old and new, are of the same box o[i]. *)
Owners(o) ==
    /\ \A i \in Id : Fits(devices[i], o[i])
    /\ \A h \in Handler : req[h].id \in Id => req[h].box = o[req[h].id]
    /\ \A t \in Tab : tab[t].id \in Id => Fits(tab[t].row, o[tab[t].id])

OneOwner == \E o \in [Id -> Box] : Owners(o)

(* What the constraints of 01-schema.sql make of the table. *)
TableIntegrity == TableOK(devices, profiles)

IInv ==
    /\ TypeOK
    /\ TableIntegrity
    /\ RequestsOK
    /\ BoxesOK
    /\ OneOwner
=============================================================================
