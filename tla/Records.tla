-------------------------------- MODULE Records --------------------------------
(***************************************************************************)
(* The pages of the dashboard that keep a list of rows and edit them in a  *)
(* form: customers and profiles, templates, devices; or with a button in   *)
(* the row: alerts, settings.  A page shows what it fetched last.  A form  *)
(* starts from a row of that list, sends it back as a whole, and when the  *)
(* save is acknowledged the list is fetched again, while other operators,  *)
(* and devices that register, write the same tables.  Only references      *)
(* between rows are kept of what the rows hold.                            *)
(***************************************************************************)
EXTENDS Naturals, FiniteSets

CONSTANTS
    Page,        \* the pages considered, each with the tables considered on
                 \* it, and how many forms are opened
    Id,          \* ids of rows
    MaxForms,    \* forms opened on any page
    MaxWrites,   \* writes to the tables
    NULL

Kind == {"customers", "templates", "profiles", "devices", "alerts", "settings"}

(* The tables that the rows of a table refer to. *)
Refs == [customers |-> {}, templates |-> {},
         profiles |-> {"customers", "templates"}, devices |-> {"profiles"},
         alerts |-> {}, settings |-> {}]

(* The lists that a page fetches, and those it has a form for. *)
Fetched == [profiles |-> {"customers", "templates", "profiles"},
            templates |-> {"templates"}, devices |-> {"profiles", "devices"},
            alerts |-> {"alerts"}, settings |-> {"settings"}]

Edited == [profiles |-> {"customers", "profiles"},
           templates |-> {"templates"}, devices |-> {"devices"},
           alerts |-> {}, settings |-> {}]

Opt(S) == S \cup {NULL}

Row(k) == [Refs[k] -> Opt(Id)]

ASSUME RecordsAssumption ==
    /\ Page \subseteq [name : DOMAIN Fetched, tables : SUBSET Kind, forms : 0 .. MaxForms]
    /\ NULL \notin Id /\ NULL \notin Nat /\ \A k \in Kind : NULL \notin Row(k)
    /\ MaxForms \in Nat /\ MaxWrites \in Nat

VARIABLES
    page,     \* the page on the screen
    table,    \* table[k]: the rows of a table, and how often it was written
    cache,    \* cache[k]: the list that the page shows
    fetch,    \* fetch[k]: the fetch of the list under way
    missed,   \* lists whose last fetch does not count: it failed, or it began
              \* before a save that could not start it again
    acked,    \* acked[k]: the version made by the last acknowledged write
    form,     \* the form on the screen
    forms,    \* the forms opened so far
    sent,     \* the writes under way
    created,  \* created[n]: rows inserted by the n-th form
    lost      \* forms that were told of a failure of a write that was done

recordsVars == <<page, table, cache, fetch, missed, acked, form, forms, sent, created, lost>>

lists == <<cache, fetch, missed, acked>>

-----------------------------------------------------------------------------
Shown == Fetched[page.name] \cap page.tables

(* A list as it was at a version of its table. *)
List(k) == [rows : [Id -> Opt(Row(k))], at : Nat]

Empty == [rows |-> [i \in Id |-> NULL], at |-> 0]

(* The keys of settings are always all there. *)
Full == [rows |-> [i \in Id |-> [r \in Refs["settings"] |-> NULL]], at |-> 0]

(* A fetch that was answered holds what the server read. *)
Fetch(k) == [state : {"idle", "asked"}, list : {NULL}] \cup [state : {"read"}, list : List(k)]

Idle == [state |-> "idle", list |-> NULL]

Asked == [state |-> "asked", list |-> NULL]

(* at: the version that a write made, once it is done. *)
Write == [op : {"post", "put", "delete", "sync"}, kind : Kind, id : Opt(Id),
          row : UNION {Row(k) : k \in Kind}, form : 0 .. MaxForms, at : Opt(Nat)]

Form == [kind : Kind, id : Opt(Id), row : UNION {Row(k) : k \in Kind}]

RecordsTypeOK ==
    /\ page \in Page
    /\ \A k \in Kind : table[k] \in List(k) /\ cache[k] \in Opt(List(k)) /\ fetch[k] \in Fetch(k)
    /\ missed \subseteq Kind
    /\ acked \in [Kind -> Nat]
    /\ form \in Opt(Form) /\ forms \in 0 .. MaxForms
    /\ sent \subseteq Write
    /\ created \in [1 .. MaxForms -> Nat]
    /\ lost \subseteq 1 .. MaxForms

RecordsInit ==
    /\ page \in Page
    /\ table = [k \in Kind |-> IF k = "settings" THEN Full ELSE Empty]
    /\ cache = [k \in Kind |-> NULL]
    /\ fetch = [k \in Kind |-> IF k \in Shown THEN Asked ELSE Idle]
    /\ missed = {}
    /\ acked = [k \in Kind |-> 0]
    /\ form = NULL /\ forms = 0
    /\ sent = {}
    /\ created = [n \in 1 .. MaxForms |-> 0]
    /\ lost = {}

-----------------------------------------------------------------------------
(* The tables *)

Live(k) == {i \in Id : table[k].rows[i] # NULL}

(* Mutant: nothing checks the references of a row. *)
RefersAnyway(k, row) == row \in Row(k)

(* The foreign keys of a row. *)
Refers(k, row) == \A r \in Refs[k] : row[r] # NULL => row[r] \in Live(r)

Put(k, i, row) ==
    [table EXCEPT ![k] = [rows |-> [@.rows EXCEPT ![i] = row], at |-> @.at + 1]]

(* ON DELETE RESTRICT, for templates. *)
Restricted(k, i) ==
    k = "templates" /\ \E j \in Live("profiles") : table["profiles"].rows[j]["templates"] = i

(* ON DELETE SET NULL, for the others. *)
Unlinked(m, k, i) ==
    [j \in Id |->
        IF j \in Live(m) /\ table[m].rows[j][k] = i
        THEN [table[m].rows[j] EXCEPT ![k] = NULL] ELSE table[m].rows[j]]

Erased(k, i) ==
    [m \in Kind |->
        CASE m = k -> Put(k, i, NULL)[k]
          [] k \in Refs[m] /\ Unlinked(m, k, i) # table[m].rows ->
                [rows |-> Unlinked(m, k, i), at |-> table[m].at + 1]
          [] OTHER -> table[m]]

Writes ==
    table["customers"].at + table["templates"].at + table["profiles"].at + table["devices"].at
    + table["alerts"].at + table["settings"].at

(* Create, Update and Delete of the handlers.  An UPDATE or a DELETE of a  *)
(* row that is gone affects no row, and is a success.                      *)
Insert(k, i, row) ==
    /\ i \notin Live(k) /\ Refers(k, row)
    /\ table' = Put(k, i, row)

Update(k, i, row) ==
    IF i \in Live(k) THEN Refers(k, row) /\ table' = Put(k, i, row)
    ELSE UNCHANGED table

Delete(k, i) ==
    IF i \in Live(k) THEN ~Restricted(k, i) /\ table' = Erased(k, i)
    ELSE UNCHANGED table

(* Other operators, devices that register, syncs, the alerting poller. *)
OthersWrite(k) ==
    /\ k \in page.tables
    /\ Writes < MaxWrites
    /\ \E i \in Id :
        \/ \E row \in Row(k) : Insert(k, i, row) \/ (i \in Live(k) /\ Update(k, i, row))
        \/ i \in Live(k) /\ k # "settings" /\ Delete(k, i)
    /\ UNCHANGED <<page, lists, form, forms, sent, created, lost>>

-----------------------------------------------------------------------------
(* The lists *)

(* The page mounts, is looked at again, its interval is over, Refresh. *)
Ask(k) ==
    /\ k \in Shown
    /\ fetch[k] = Idle
    /\ fetch' = [fetch EXCEPT ![k] = Asked]
    /\ missed' = missed \ {k}
    /\ UNCHANGED <<page, table, cache, acked, form, forms, sent, created, lost>>

Read(k) ==
    /\ fetch[k].state = "asked"
    /\ fetch' = [fetch EXCEPT ![k] = [state |-> "read", list |-> table[k]]]
    /\ UNCHANGED <<page, table, cache, missed, acked, form, forms, sent, created, lost>>

Arrive(k) ==
    /\ fetch[k].state = "read"
    /\ cache' = [cache EXCEPT ![k] = fetch[k].list]
    /\ fetch' = [fetch EXCEPT ![k] = Idle]
    /\ UNCHANGED <<page, table, missed, acked, form, forms, sent, created, lost>>

(* retry: 1.  A second failure ends the fetch; the list stays. *)
Retry(k) ==
    /\ fetch[k].state = "read"
    /\ fetch' = [fetch EXCEPT ![k] = Asked]
    /\ UNCHANGED <<page, table, cache, missed, acked, form, forms, sent, created, lost>>

FetchFails(k) ==
    /\ fetch[k] # Idle
    /\ fetch' = [fetch EXCEPT ![k] = Idle]
    /\ missed' = missed \cup {k}
    /\ UNCHANGED <<page, table, cache, acked, form, forms, sent, created, lost>>

(* Mutant: a save does not start the fetch again that is under way. *)
InvalidatesLate(k) == fetch[k] = Idle

(* invalidateQueries starts the fetch of a list again, unless it is the    *)
(* first one.                                                              *)
Invalidates(k) == cache[k] # NULL \/ fetch[k] = Idle

Invalidate(k) ==
    IF Invalidates(k)
    THEN fetch' = [fetch EXCEPT ![k] = Asked] /\ missed' = missed \ {k}
    ELSE /\ UNCHANGED fetch
         /\ missed' = IF cache[k] = NULL /\ fetch[k].state = "read" THEN missed \cup {k} ELSE missed

-----------------------------------------------------------------------------
(* The forms *)

(* Mutant: an empty select is sent as an empty string, not as null. *)
NoRefsBlank(k) == [r \in Refs[k] |-> ""]

NoRefs(k) == [r \in Refs[k] |-> NULL]

Open(k, id, row) ==
    /\ k \in Edited[page.name] \cap page.tables
    /\ form = NULL /\ forms < page.forms
    /\ forms' = forms + 1
    /\ form' = [kind |-> k, id |-> id, row |-> row]
    /\ UNCHANGED <<page, table, lists, sent, created, lost>>

OpenNew(k) == Open(k, NULL, NoRefs(k))

OpenRow(k, i) ==
    /\ cache[k] # NULL /\ cache[k].rows[i] # NULL
    /\ Open(k, i, cache[k].rows[i])

(* The backdrop, the cross, Cancel. *)
CloseForm ==
    /\ form # NULL
    /\ form' = NULL
    /\ UNCHANGED <<page, table, lists, forms, sent, created, lost>>

(* A select: one of the rows of another list of the page, or none. *)
Choose(r, j) ==
    /\ form # NULL /\ r \in Refs[form.kind]
    /\ j # NULL => cache[r] # NULL /\ cache[r].rows[j] # NULL
    /\ form' = [form EXCEPT !.row = [@ EXCEPT ![r] = j]]
    /\ UNCHANGED <<page, table, lists, forms, sent, created, lost>>

Send(op) ==
    /\ form # NULL
    /\ sent' = sent \cup {[op |-> op, kind |-> form.kind, id |-> form.id, row |-> form.row,
                           form |-> forms, at |-> NULL]}
    /\ UNCHANGED <<page, table, lists, form, forms, created, lost>>

(* Mutant: Save is not disabled while a save is pending, and every click   *)
(* sends one.                                                              *)
PendingNever == FALSE

Pending == \E q \in sent : q.form = forms /\ q.op \in {"post", "put"}

Save == ~Pending /\ Send(IF form.id = NULL THEN "post" ELSE "put")

(* The button of a row, after a confirmation. *)
AskDelete == form # NULL /\ form.id # NULL /\ Send("delete")

(* Save and Revert of a setting; Resolve of an alert, one at a time. *)
AskRow(k, i) ==
    /\ k = page.name /\ k \in {"alerts", "settings"}
    /\ cache[k] # NULL /\ cache[k].rows[i] # NULL
    /\ k = "alerts" => sent = {}
    /\ sent' = sent \cup {[op |-> "put", kind |-> k, id |-> i, row |-> NoRefs(k), form |-> 0, at |-> NULL]}
    /\ UNCHANGED <<page, table, lists, form, forms, created, lost>>

(* Sync from Git, disabled while one is pending. *)
AskSync ==
    /\ page.name = "templates"
    /\ \A q \in sent : q.op # "sync"
    /\ sent' = sent \cup {[op |-> "sync", kind |-> "templates", id |-> NULL,
                           row |-> NoRefs("templates"), form |-> 0, at |-> NULL]}
    /\ UNCHANGED <<page, table, lists, form, forms, created, lost>>

(* The server does what it was asked for. *)
Execute(q) ==
    /\ q.at = NULL
    /\ Writes < MaxWrites
    /\ \/ /\ q.op = "post"
          /\ \E i \in Id : Insert(q.kind, i, q.row)
          /\ created' = [created EXCEPT ![q.form] = @ + 1]
       \/ q.op = "put" /\ Update(q.kind, q.id, q.row) /\ UNCHANGED created
       \/ q.op = "delete" /\ Delete(q.kind, q.id) /\ UNCHANGED created
       \/ /\ q.op = "sync"
          /\ \E i \in Id : table' = Put("templates", i, NoRefs("templates"))
          /\ UNCHANGED created
    /\ sent' = (sent \ {q}) \cup {[q EXCEPT !.at = table'[q.kind].at]}
    /\ UNCHANGED <<page, lists, form, forms, lost>>

(* A name that is taken or missing, a reference to a row that is gone, a   *)
(* failure on the way.                                                     *)
Refuse(q) ==
    /\ q.at = NULL
    /\ sent' = sent \ {q}
    /\ UNCHANGED <<page, table, lists, form, forms, created, lost>>

(* The two forms of devices are opened and closed apart. *)
SameForm(q) ==
    /\ form # NULL /\ form.kind = q.kind /\ q.op # "sync"
    /\ q.kind = "devices" => ((form.id = NULL) <=> (q.id = NULL))

(* onSuccess *)
Acknowledge(q) ==
    /\ q.at # NULL
    /\ sent' = sent \ {q}
    /\ acked' = [acked EXCEPT ![q.kind] = IF q.at > @ THEN q.at ELSE @]
    /\ Invalidate(q.kind)
    /\ form' = IF SameForm(q) THEN NULL ELSE form
    /\ UNCHANGED <<page, table, cache, forms, created, lost>>

(* The answer is lost: onError. *)
Lose(q) ==
    /\ q.at # NULL
    /\ sent' = sent \ {q}
    /\ lost' = IF q.form = 0 THEN lost ELSE lost \cup {q.form}
    /\ UNCHANGED <<page, table, lists, form, forms, created>>

-----------------------------------------------------------------------------
RecordsNext ==
    \/ \E k \in Kind :
        \/ OthersWrite(k)
        \/ Ask(k) \/ Read(k) \/ Arrive(k) \/ Retry(k) \/ FetchFails(k)
        \/ OpenNew(k)
        \/ \E i \in Id : OpenRow(k, i) \/ AskRow(k, i)
        \/ \E j \in Opt(Id) : Choose(k, j)
    \/ CloseForm \/ Save \/ AskDelete \/ AskSync
    \/ \E q \in sent : Execute(q) \/ Refuse(q) \/ Acknowledge(q) \/ Lose(q)

RecordsSpec == RecordsInit /\ [][RecordsNext]_recordsVars

-----------------------------------------------------------------------------
(* A list that is at rest is at least as new as every write that the page  *)
(* was told of, unless a fetch failed or the write was acknowledged while  *)
(* the list was fetched for the first time (ProfilesPage.tsx:50, 165;      *)
(* TemplatesPage.tsx:39, 153; DevicesPage.tsx:421, 1073).                  *)
ReadYourWrites ==
    \A k \in Kind :
        fetch[k] = Idle /\ cache[k] # NULL /\ k \notin missed => cache[k].at >= acked[k]

(* No row refers to a row that is gone, whatever copies were sent back     *)
(* (01-schema.sql:46, 71; 03-customers.sql:14).                            *)
NoDangling ==
    \A k \in Kind : \A i \in Live(k), r \in Refs[k] :
        table[k].rows[i][r] \in Opt(Live(r))

(* A form inserts at most one row, unless it was told of a failure of an   *)
(* insert that was done (ProfilesPage.tsx:91, 497; TemplatesPage.tsx:125;  *)
(* DevicesPage.tsx:1161).                                                  *)
CreatedOnce == \A n \in 1 .. MaxForms : n \notin lost => created[n] <= 1

==============================================================================
