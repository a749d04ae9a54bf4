# A TLA+ model of the ZTP server

This directory is a verification development for the ZTP (zero touch
provisioning) server of this repository: TLA+ modules translated from its
source, TLC configurations that check them on small instances, and TLAPS proofs
that hold for every instance. Paths below are relative to the root of the
repository; `api/` and `ui/`
stand for `src/services/dashboard/api/` and `src/services/dashboard/ui/`.

## 1. The system and its components

A network device boots, gets a DHCP lease from Kea, asks the API for its
configuration, applies it, and reports. Operators register devices and assign
profiles in a dashboard. PostgreSQL is the only shared state; the services never
call each other except API → renderer. The dashboard is a single-page application: a good part
of the state of the system (tokens, lists, forms, runs of requests) lives in browsers.

| Component | Source | State | Operations |
|---|---|---|---|
| devices table | `api/internal/db/db.go`, `src/services/postgres/init/01-schema.sql` | rows of `devices` | INSERT, whole-row UPDATE, DELETE, lookups; UNIQUE, CHECK and foreign key constraints |
| provisioning endpoints | `api/internal/handlers/pnp.go`, `juniper.go`, `aruba.go`, `devices.go` (`ZTPConfig`) | the copy of a row inside each request | PnP HELLO, WORK-REQUEST, WORK-RESPONSE; the generic, Juniper and Aruba downloads |
| lease poller | `api/internal/discovery/poller.go` | the list of unaccounted leases of a tick | list leases, insert rows, every 30 s |
| administration | `handlers/devices.go`, `handlers/profiles.go`, `ui/src/pages/DevicesPage.tsx` | open forms in browsers | register, edit, delete devices; create, edit, delete profiles |
| syslog receiver | `src/services/syslog/main.go` | none | parse, resolve the sender, store the event, mark provisioned |
| alerting poller | `api/internal/alerting/poller.go`, `handlers/alerts.go` | `alerts` table, snapshot of a tick, running pings | evaluate, ping, resolve |
| git synchronisation | `api/internal/gitops/git.go` | the remote repositories, clones of running goroutines | commit a config, template or profile; sync templates back |
| authentication | `api/internal/auth/auth.go`, `handlers/auth.go`, `handlers/middleware.go` | OIDC states in memory, users, JWTs | local login, OIDC redirect and callback, clean-up |
| sign-in of the dashboard | `ui/src/lib/api.ts`, `hooks/useAuth.ts`, `App.tsx`, `LoginPage.tsx`, `Layout.tsx` | a token shared by tabs, a flag and calls in flight per tab | log in and out, poll, leave on a 401 |
| editors | `ui/src/pages/DevicesPage.tsx`, `ProfilesPage.tsx` | variables, VLANs and ports in an open form | layer, edit, discover, save |
| lists and forms | `ui/src/pages/*.tsx` | what each query fetched last, the open form, saves in flight | fetch, invalidate, save, delete |
| bulk actions | `DevicesPage.tsx` (`BulkActionBar`) | checked boxes, the bar, requests of its run | check, run, show results |
| diff and push | `DevicesPage.tsx` (`DiffModal`, `DeviceModal`) | a comparison, pushes in flight | load, compare, push |
| terminal | `handlers/terminal.go`, `DevicesPage.tsx` (`TerminalOverlay`) | an SSH session and a WebSocket per terminal | open, relay both ways, close |
| renderer | `src/services/renderer/app.py` | none | pick a template, render, list variables, validate |
| templates | `handlers/templates.go` | rows of `config_templates` | create, update, delete |
| settings, customers | `handlers/settings.go`, `customers.go` | their tables | CRUD, change of password |
| views | `handlers/inventory.go`, `events.go`, `kea.go`, `audit.go`, their pages | none | queries; the audit log is append-only |
| third-party servers | `src/services/kea`, `bind`, `tftp` | leases | configuration files only |

**Interactions.** A handler runs several SQL statements one after the other,
each its own transaction: it *reads* a row once, decides from the copy, and
*writes whole rows* back from it (`UpdateDevice` sets every column). Handlers of
concurrent requests, the lease poller, the syslog receiver, and the forms of
operators, who save a copy that may be minutes old, all write the same rows.
Nothing locks, no write is conditional, and nearly every error of an UPDATE is
ignored. This is where the hard behaviour of the system is, and why the model is
organised around *copies in flight*.

**Hard behaviours** (the `hazards` of `PROJECT.json` give the line of each):
lost updates from stale copies; racing registrations of one box by two requests,
the poller and an operator; rows and profiles deleted under a request; requests
cut off between two statements, retried by the box while the first is still
running; answers lost after the row was updated; a record that claims a
configuration the box does not have; alert evaluation on stale snapshots;
unordered commits by detached goroutines; tabs that throw away each other's token; lists that
are older than a save; forms that send old copies; bulk runs whose bar goes away in the middle; the two
loops of a terminal.

**What makes each component correct.** The table: the constraints hold under
every interleaving. The endpoints: the record is truthful (a Cisco row says
*provisioned* only of a box that runs a configuration), a box only ever gets the
configuration of a profile assigned to it, and in the end every assigned box
is configured and recorded, whatever was lost. The poller and the handlers: a
box they race for can still register. Administration: what was deleted stays
deleted. Alerting: an alert follows the state of its device once things are
quiet, and a device that answers pings is never called offline. Git: goroutines
never undo one another's commits, what was saved arrives, and nothing comes back that was not
sent. Sign-in: a state of the OIDC flow opens one session, a tab without a valid token leaves the
application, and tabs that work do not sign each other out. Editors: what is saved is what was shown, and opening and saving changes
nothing. Lists: a page shows its own writes; nothing refers to a row that is gone; a form
inserts once. Bulk actions: the bar tells what became of its requests. Diff: it shows what differs, and a modal
pushes once. Terminal: it ends when its page has gone, and loses no output.

## 2. Modules

| Module | What it models |
|---|---|
| `DeviceTable` | A table value, its constraints (`Admits`), and the statements as operators (`Find`, `Insert`, `Overwrite`, `Erase`, `Unassign`). |
| `Provisioning` | Endpoints, lease poller, operators, syslog mark and network devices as actions, one per SQL statement or message. Properties, fairness and the inductive invariant `IInv` are at its end. |
| `ZeroTouch` | The abstract specification: grants, loads, records, each atomic. |
| `MCProvisioning` | Symmetry and the set of all boxes, for TLC. |
| `Alerting` | The alert poller, statement by statement, and what changes around it. Self-contained: it needs columns of `devices` that `DeviceTable` does not have (`last_seen`, `firmware_version`) and none that it has to constrain. |
| `GitSync` | Saves, the goroutines they start, the remote repository, the sync. |
| `Repository` | The abstract specification of the saves in it: each writes its file in one step, or is lost to another write or a fault. |
| `Session` | Tabs of a browser, the shared token and cookie, the API's tokens and OIDC states. |
| `Editor` | Variables, VLANs and ports of a profile and a device: stored, opened in a form, edited, saved, rendered. |
| `Records` | The pages with a list and a form, the tables behind them and their references, others who write them. |
| `Fleet` | Bulk actions of the devices page. |
| `Drift` | The configuration diff and the pushes of both modals. |
| `Terminal` | `ServeWS`, the page of a terminal and the overlay that holds it. |
| `MCPages` | `Records`, `Fleet` and `Drift`: a dashboard shows one of these screens at a time. |
| `MCSession` | A browser: the tabs of `Session`, or the terminals of `Terminal`. |
| `MCAlerting`, `MCGitSync`, `MCEditor` | Constants and constraints for TLC. |
| `SequenceFacts` | Lemmas on sequences: induction up to a bound, folds, joins, sequences of bounded length. |
| `ProvisioningProofs` | Lemmas about the operators of `DeviceTable`; `IInv` is inductive; safety theorems; registration; `Provisioning` implements `ZeroTouch`; the way of a box to its configuration. |
| `AlertingProofs`, `GitSyncProofs`, `RecordsProofs`, `EditorProofs` | Invariants and safety theorems of one module each; that alerts catch up. |
| `SessionProofs` | The same for `Session`, `Terminal` and `MCSession`. |
| `PagesProofs` | The same for `Fleet` and `Drift`, and for `MCPages`. |

### Provisioning and the code

*State.* `devices` is the table (serial number, MAC address, status, profile,
management address, and whether `provisioned_at` is set; a serial number or MAC
address is represented by the box that carries it). `spelt` tells how the serial number of a row is spelled:
Juniper's handler lower-cases the one in the URL (`juniper.go:36`) before it looks it up or inserts it
(*requested*), the registration form only trims what an operator reads off the label (*printed*,
`DevicesPage.tsx:1064`), and the column is compared as it is spelled (`db.go:132`). The other handlers convert nothing, so a
row of another box is always *requested*. `profiles` is the set of rows
of `device_profiles`. `req[h]` is a request being served by a goroutine: `pc`
names the statement it runs next, `dev` is the `*models.Device` it holds. `tab[t]` is
the device held by an open `DeviceModal`. `leased` stands for `lease4`, `due` for the
leases a tick of `syncLeases` has still to insert. `box[b]` is a network device:
the phase of its client, the configuration it has fetched and the one it runs.
`granted` is history: the profiles an operator has ever assigned to a box.

*Steps of a request.* The arrival actions (`Hello`, `WorkRequest`, `WorkResult`,
`GetConfig`, `JuniperConfig`, `ArubaConfig`) are the lookup with which each
handler begins, and what it decides from it. The rest of the handler is a walk
through `pc`:

| `pc` | Action | Code |
|---|---|---|
| create | `Create` | `CreateDevice` of a box that was not found; a clash makes Juniper's and Aruba's handlers look again |
| refetch | `Refetch` | the second lookup (`juniper.go:68`, `aruba.go:54`) |
| touch | `Touch` | Juniper's UPDATE of `mac` alone (`juniper.go:83`) |
| mark | `Mark` | status *provisioning*, written from the copy |
| render | `RenderOK`, `RenderFail` | `renderConfig`: the profile of the copy must still exist; the renderer may refuse |
| settle | `Settle` | the status after rendering, or after a work result, written from the copy |
| respond | `Respond` | the answer, if the box still waits |

`Abort` cuts a request off between any two statements (the 60 s timeout, a
cancelled context, a restart of the API); `GiveUp` lets the box stop waiting while the
server goes on, so its retry overtakes the first request.

*Abstractions.* Left out: `last_seen` and `last_connection_ip`, which no decision
here reads; the audit log; the bytes of a rendering, which is represented by the
profile it was made from; vendor detection. The network devices are the
clients of the code, modelled from what the handlers expect of them
and marked external. The form of the dashboard is the only source of `PUT /devices/{id}`;
bodies a different client could send are not modelled, nor is an operator who types
the identifiers of two different boxes into one row.

### Alerting and the code

*State.* `row[d]` has the columns the poller reads, `alert[d][t]` the row of
`alerts` of a device and type (UNIQUE), `snap` the devices and `want` the targets
the running tick has read, `todo` the evaluations it has still to do, `pings` the
pings that are running. `missed[d]` counts, for a device that answers pings, the failures in a row to take note of it:
ticks that could not read the devices, and answers whose UPDATE failed. It is only there to state
the assumption on them.

*Actions.* `Tick` is the ticker; `ReadDevices` and `ReadProfiles` are the two
queries; `Evaluate(d, t)` is one statement of `evaluate`, whose outcome
(`Verdict`) depends on the copies and on the tables of that moment: `Raised` is
the UPSERT, which the foreign key refuses for a device that is gone, `Cleared`
the conditional UPDATE. `PingAnswered`, `PingUnrecorded` (the UPDATE of `last_seen` fails, its error is ignored) and `PingLost` end a ping. The rest are the
statements of others: deletion cascades to alerts; requests, forms, the firmware
check and syslog change single columns; operators resolve alerts by hand. Deleting
a profile sets `profile_id` to NULL on its devices (`Assign` with NULL); a new
one in its place is `Retarget`.

*Time* is counted in ticks: `seen` is the age of `last_seen`, capped where it no longer
matters. `Tick` waits for the statements and pings of the tick before: an interval
is a minute (`cmd/api/main.go`), a ping ends within three seconds. `Recent` is `seen <= 1`, since
a device heard of just after a tick is younger than the interval at the next; so a
device is pinged at every other tick only.

### GitSync and the code

*State.* `tmpl` is `config_templates` (key = vendor, OS type, name; content NULL for
a template backed by a file on disk), `remote` the head of the branch, `job[j]` a
goroutine of `CommitTemplate` or `CommitProfile`, `todo[y]` what a running `SyncTemplates` has cloned and not yet written; two may run
at once. `reliable`, which never changes, says whether disks and git commands may fail of themselves.

*Actions.* A save writes the row and starts a goroutine (`Start`). The goroutine
clones and commits (`CloneBranch`; `InitBranch` when the clone fails, after which it starts
an empty history; `Abandon` when there is no room for the clone or the file), then pushes (`Push`, `PushFails`); git takes a push only
if it is a fast-forward, which `ff` remembers. `UpdateDeleted` is a save whose
row is gone: the UPDATE matches nothing, no error is reported, and the
commit goes on. `SyncStart` clones, `SyncFile` upserts one file. A deletion that
`ON DELETE RESTRICT` refuses changes nothing and has no action.

*Paths.* A template is written to the path of its sanitized key, below
`templates`. A sync reads a key back from the path below `git.template_path`.
`Sanitized` is the first mapping, `ReadAs` the second: the identity if the prefix is
`templates`, `Outer` if it is blank, as it is by default, when the directory `templates` is taken for a vendor.
A row that a sync has made can be edited and saved, under the key it has or under another name that operators use.

### Session and the code

*State.* `stored` is `ztp_token` in localStorage and `cookie` the cookie of that name, both shared by the tabs;
`valid` the tokens that `VerifyJWT` accepts; `tab[t]` the page a tab shows, its `isAuthenticated`
and the callback in its history; `calls[t]` its requests without an answer, each with
the credential it was sent with; `states[n]` a state in `OIDCHandler.states`. `redeemed` is history.

*Actions.* `Mount` is the start of the bundle (flag from localStorage, guard, `checkAuth`); `Poll` stands for
every protected query, those of a page that comes to the front or is fetched again at an interval; `Submit`, `LogOut`, `MistypePassword` start the other calls. `Unauthorized` is
the 401 branch of `request`, for whatever reason the API said so, a wrong password included:
the token goes, and a tab not on `/login` reloads. `Granted`, `SignedIn`, `LoggedOut`, `Failed` are
the other answers; `Failed` includes 500s, which `checkAuth` takes for a refusal.
`Depart`, `Callback`, `CallbackRefused`, `Lapse` and `CleanStates` are the OIDC flow, `GoBack` a user who requests an old
callback again, `Expire` the end of a token. Tokens are not revoked at logout, here as in the code.

### Editor and the code

*State.* `device` and `profile` are stored `variables`: scalars, and a list of rows each for VLANs and ports. `form` is the open
`DeviceModal` or `ProfileForm`: pairs of variables, and rows with the two flags `fromProfile`
and `overridden`, and `put`, the number of the save it last asked for. `puts` are the saves in flight. A form stays editable while its save is pending, can be
closed, and another one opened; only its *Save* button is disabled. `Saved` closes whichever form of its page is open by
then.

*Operators.* `Layered` is `initVlans` and `initPorts`; `Kept` the filter of `handleSave`; `Packed` what it makes of the
variables, including a list that was opened as the string `[object Object]` and is saved as that string when no
row of the device is left; `RenderedRows` what `renderConfig` merges. VLANs and ports differ in their
columns only: an id and a text stand for them. The two discoveries differ in when they
look at what the form has: that of a device when it is asked for, that of a profile when it is answered (`Missing`, `NewVars`).
`pending` is what the click could see; for a profile it is there to be compared with.

### Records and the code

*State.* `table[k]` has the rows of a table as their references and a version; `cache[k]` the list of a query, `fetch[k]` its fetch
under way, `form` the open form with the row it was opened with, `sent` the writes under way. `acked`, `missed`,
`created` and `lost` are history.

*Actions.* `Ask`, `Read`, `Arrive`, `Retry`, `FetchFails` are a query (`retry: 1`); a save is `Save`, then `Execute` or
`Refuse` at the server, then `Acknowledge` or, when the answer is lost, `Lose`. `Acknowledge` is `onSuccess`: it
invalidates the list (`Invalidate`) and closes the form of that kind that is open, whichever that is.
React Query itself is external; what the model has of it is that an invalidation
restarts a fetch except when it is the first one of its list. An UPDATE of a row that is gone is a success, as in `db.go`.

### Fleet, Drift, Terminal and the code

`Fleet`: `bar` is `BulkActionBar` while it is mounted, `runs[n]` the promises of the n-th `runBulk`, which go on when the bar has
gone. `Rendered` is the condition under which the page mounts it. `Settled` is what follows `Promise.allSettled`,
`Updated` is `updateOp`.

`Drift`: `modal` is the open modal, `pushes[n]` the pushes asked for by the modal that was given the name n. `Hunks` folds the
parts of a comparison as the code does, with lines replaced by their numbers; `Loaded` takes any comparison up to the bounds.

`Terminal`: `bridge[b]` is one call of `ServeWS` with its page and shell. `typing` and `copies` say whether its two loops run,
`input` and `output` what is on its way. `Handler` are the steps of the request's goroutine, `Copier` those of the one it starts.
An upgrade may fail for any reason (`UpgradeFails`). Minimizing the overlay removes its page (`Leave`), restoring it
opens another session (`Dial`), while the old one may still be ending. A page that has
gone is one whose connection is closed; half-open connections, which the kernel finds out about, are
the time between `Leave` and `ReadFails`.

## 3. Runs

`cfg` files fix small instances; Id, Handler are symmetric except in runs with
liveness properties.

| Run | Instance | Shows |
|---|---|---|
| `cisco` | 1 Cisco box, 2 requests, 1 form, 1 profile, 2 ids, operators that edit and remove and recreate profiles | `TypeOK`, `ProvisionedHasTime`, `ProvisionedIsConfigured`, `NoResurrection`, and `ImplementsZeroTouch` (refinement) |
| `cisco_live` | the same, without removal, with fairness | `Convergence` |
| `juniper` | 1 Juniper box with a lease, 2 requests, registration by handler, poller and operator, who types the serial number in either spelling, fairness | `EventuallyConfigured` |
| `mixed` | a Cisco and an Aruba box at once, 2 requests; the Aruba box has a lease and a reservation | `RegistrationSucceeds`, `RunsOnlyAssigned` |
| `alerts` | a device that answers pings, with 1 profile and 2 versions, or a silent one; limit of 3 ticks, 1 tick or answer missed, fairness | `TypeOK`, `AlertsHaveDevices`, `SteadyNeverOffline`, `StateAlertsFollow`, `DriftAlertsFollow` |
| `git` | 1 template name with a space and the default, blank prefix; 1 profile, 2 contents, 2 rows, 3 goroutines, 2 syncs, every fault or a reliable connection | `TypeOK`, `SyncAddsNoOther`, `PushesKeepFiles`, and `ImplementsRepository` (refinement) |
| `session` | 2 tabs, one of which stays in front, 2 tokens, 1 OIDC state, 2 calls in flight that a user starts; or 2 terminals with 2 messages each way; fairness | `SessionTypeOK`, `StateUsedOnce`, `SignedOutTabsLeave`, `SignInHolds`, `TerminalTypeOK`, `ClosedIsTheEnd`, `LeftTerminalsClose` |
| `editor` | 1 variable, ids 1, 2 and blank, 2 texts, lists of up to 2 rows, 2 edits, 1 save, 2 contents of device and profile | `EditorTypeOK`, `UniformSetRendered`, `OpenSaveIsNoop`, `ReopenShowsTheSame`, `DiscoveryKeepsInput` |
| `pages` | each page with 2 ids, 3 writes and 1 or 2 forms; 2 devices and 2 runs of any of 4 actions; comparisons of up to 4 parts of 1, 2 or 5 lines with a context of 2 | `RecordsTypeOK`, `ReadYourWrites`, `NoDangling`, `CreatedOnce`, `ScreensTypeOK`, `ResultsAreTrue`, `DeletedLeaveList`, `OnePushAModal`, `DriftIsShown` |
| `juniper_registration`, `sso`, `overrides` | expected to fail, see section 4 | one property each |

*Why these bounds.* A lost update needs two writers of one row, one of which
holds a copy: two requests, or a request and a form, and each run has both or
the pair it is about. A third writer only repeats what the second can do. Two ids are
needed for clashing rows and for a row that is deleted and registered again; a
third row would need a third identifier. Boxes interact through rows alone, and
`mixed` has the two. `ZeroTouch` is checked on the same instance. Nothing is
counted in `Provisioning`, so there is no other bound. In `Alerting` devices do not
interact, so one is enough; `alerts` has the shortest limit that leaves room
for a missed tick (`MaxMissed + 2 <= Limit`), the boundary at which the property
just holds; four hours are 240 ticks in the code, and the theorem is for every
limit. In `git`, three goroutines give a clone, a push by
another, and a third that is refused or starts its own history; the two files are a template
and a profile, which share a repository. The initial states choose whether the connection is `reliable`: where it is not, the
refinement says that saves are atomic; where it is, also that one is lost *only* to another write that came between its clone and its push.
The keys are the name as given, the name of its file, what a sync reads that file as, and what it would read a file as that was called just like the template; the
second and third are what `SyncAddsNoOther` has to admit, the last is what it must exclude. The run bounds which of them are saved again (`Saved`);
the theorem does not.

In `session` a tab can only be disturbed by another one, and the two tokens are an old and a new one; one state is
enough for a callback that is repeated, late, or cleaned away. `MaxCalls` bounds only what a user starts: pages poll and
ask who is signed in without bound. In `editor`, 2 rows are the smallest lists in which one is overridden and another is
not, or two have the same id; 2 edits (a row or variable that is added, and a discovery, cost none) allow an id to be changed in an overridden row, or a
new variable to be named and given a value before or during a discovery. What is stored at first is any of the contents, so one save is
enough to open what was saved, or to reopen a form beside a save in flight; `overrides` has 2. In `pages`, 3 writes are an insert, a deletion or edit by another, and one more that is acknowledged before a
list read earlier arrives; 2 runs are needed for a bar that goes and comes back; a part of 5 lines is longer than two
contexts and one of 1 is shorter than one. In `session`, two bridges are an old one that ends and the one that
was opened since. The three screens, and tabs and terminals, share no state, so a run takes them one at a time.

*Properties.* Each is commented where it is defined, at the end of its
module. `ProvisionedIsConfigured` is only claimed for Cisco: the other two
handlers store *provisioned* before they send the
answer (`juniper.go:116`, `aruba.go:84`), although the sequence diagram of `src/README.md` has the
device marked after it has applied its configuration.

*Fairness.* `WF` of `HandlerStep`: goroutines of the API run. `SF` of the sending
actions: a PnP box polls every few seconds for ever, and a ZTP client asks again
until it is configured; sending is disabled whenever another
request of the box is being served, hence strong. `WF` of `ApplyOK`:
a configuration that is applied over and over is accepted sometime. `WF` of the
poller: its ticker. Nothing is assumed of operators, aborts or failures; instead
`Convergence` and `EventuallyConfigured` are conditional on `Disturbance`
ending, and on the row keeping its profile. `Disturbance` includes only steps that are not
also regular ones: a request that dies right after its answer was delivered is no
disturbance.

In `Alerting`: `WF` of the ticker, the two reads, the evaluations of each device
and the end of each ping, all steps of goroutines that nothing blocks. The liveness properties hold
once only `Routine` steps are taken: no edits, no failing statements, no signs of life from
elsewhere. `GitSync` has no liveness: the code promises no retry.

In `Session`: `WF` of `Mount` (a page that loads runs), `SF` of the answers, good
or refused, of each tab: the network may fail any number of times but not for ever, and a call that fails is asked
again. `WF` of `Poll` only for the tabs that stay in front (`InFront`): `Layout.tsx` sets `refetchInterval` without `refetchIntervalInBackground`, and
React Query pauses such an interval while the tab is hidden. Nothing is assumed of users. `SignedOutTabsLeave` is conditional on there being no valid token from some
moment on, and claimed of tabs in front; a hidden one goes on showing its page until it is looked at. `SignInHolds` needs no fairness (theorem `SignInsHold`).

In `Terminal`: `WF` of the two goroutines, and of the end of a shell whose input has ended, since `stdin.Close` tells it (`terminal.go:219`);
nothing of pages or of shells that are in use. Two of these are idealisations: a write to the shell or to the WebSocket returns, although the code sets no
deadline, and a shell leaves when its input has ended. A shell that does not keeps its bridge for ever, at `<-done`; that is the device's doing, and nothing
in the code sets it a limit.

## 4. What the runs found

Three runs are expected to fail: each checks a sentence of the documentation that
the code does not keep.

* `juniper_registration`: a Juniper box whose lease the poller inserts first can never
  register. The poller's row has the MAC address and no serial number; the handler's
  INSERT clashes with it and the second lookup, by serial number, finds
  nothing (`juniper.go:67`).
* `sso`: a sign-in with the provider that succeeds does not sign in. `OIDCCallback` sets a cookie and redirects "to UI"
  (`auth.go:137`); the dashboard looks for a token in localStorage and shows `/login`
  (`useAuth.ts:14`, `App.tsx:16-20`).
* `overrides`: `SYSTEM_OVERVIEW.md:503` says that the full merged set of VLANs and ports is reconstructed at render
  time; `renderConfig` (`devices.go:646-652`) replaces the list of the profile by that of the device, so a device that overrides one port is
  rendered without the others. `UniformSetRendered` is what does hold.

Other disagreements that can be read off the models, without a run of their own:

* A Juniper box that was registered with its serial number in upper case, as its label prints it, is never found: the handler looks for it in lower
  case (`juniper.go:36`, `db.go:132`), while the form only trims (`DevicesPage.tsx:1064`). The handler then inserts a second row, which has no profile, or, if the
  operator's row has the MAC address, cannot insert one and fails each time. The lease poller compares without case (`poller.go:51`) and takes the box for known. `SYSTEM_OVERVIEW.md:470` says
  "Looks up by serial, auto-registers if not found". `EventuallyConfigured` is therefore stated of rows that the handler can find.

* `CreateDevice` does not name the status column, so self-registered devices are stored as *unknown*; the
  documentation says *discovered* (`Stored`).
* A request that read the row before an operator set `management_ip` writes the old value back (`Mark`, `Settle`), although
  the documentation calls the column authoritative.
* Of two saves whose goroutines both clone before either pushes, the second push is refused, logged and forgotten (`Push`).
* What is committed does not come back as what it was. With `git.template_path` blank, its default ("leave blank for root", `08-git-settings.sql:20`), a sync takes the directory
  `templates`, which the commits write to, for a vendor (`ReadAs`); and `sanitize` (`git.go:340`) replaces a space by a hyphen, which the sync does not undo: all the
  templates of `02-seed.sql` have spaces. So each sync adds a template beside the one that was saved, which can be saved and synchronised again, one directory deeper, although
  "Both use the same repo." (`SYSTEM_OVERVIEW.md:562`). `SyncAddsNoOther` says that it adds no more than that.
* A wrong *current password* in the settings is answered 401, and so signs out every tab of the browser (`MistypePassword`,
  `Unauthorized`).
* A refusal that is on its way when a tab signs in (a wrong password in another tab, a request with an older token) removes the new token,
  whichever tab it belongs to (`api.ts:33`, `Unauthorized`), and sends its tab to `/login`. Two tabs that mistype and sign in alternately can go on like that. `SignInHolds`
  is stated of the time when no refusal is on its way.
* The discovery of variables in `DeviceModal` compares with the variables of the moment it was asked for; a key that was typed
  meanwhile is added again, blank, and the blank one is saved. `DiscoveryKeepsInput` is therefore stated of profiles only.
* After the last override of a list is removed, the list is saved as the string `[object Object]` (`Packed`).
* A list that is being fetched for the first time when a save is acknowledged is not fetched again (`Invalidates`), so it may lack the row.
* A Cisco box has a lease without its serial number and speaks PnP without a MAC address: poller and PnP handler each
  register it, as two rows; nothing in the code ties the two.
* A save of a row that was deleted meanwhile is answered as a success (`Update`), and an acknowledgement closes whatever
  form of its kind is open by then (`SameForm`). Bulk assignment sends back each device as it was listed.
* Boxes of deleted devices stay checked, and *select all* compares numbers only (`ToggleAll`).
* Two saves of one template commit in any order, and a deleted template comes back with the next sync.
* A minimized terminal ends its session. After the shell has ended, its bridge stays until the page types or leaves
  (`LeftTerminalsClose` is about terminals whose page has gone). The address comes
  from the Kea lease and the token is the ordinary JWT, where the documentation has `management_ip` and a
  short-lived one.

## 5. Proofs

All theorems are checked by TLAPS for every set of boxes, ids, profiles, slots and
forms, finite or not, from the named assumptions on constants of the module alone.

*Why an invariant is needed.* In `Provisioning`, none of the safety properties is inductive: they
speak of the table, and a table row is overwritten from a copy that was read an
unbounded number of steps ago. What saves them is that every copy *fits its
owner*: the row with id *i*, every request that carries *i*, and every form open on
*i* are about the same box, and whatever the copy claims of that box (its
profile was granted; it was provisioned, hence is stamped, hence, for Cisco, runs a
configuration) is already true and stays true. `IInv` says so: `OneOwner`
gives each id its box, `Fits` is what a copy may claim, `RequestsOK` and
`BoxesOK` tie the phases of requests and boxes to it. Facts a copy may claim are
monotone (`granted` only grows, a configured box stays configured),
which is why a stale copy can revert a row to an older truth but never to a falsehood.

| Theorem | Statement |
|---|---|
| `TypeCorrect` | `Spec => []TypeOK` |
| `ProvisionedIsStamped` | `Spec => []ProvisionedHasTime` |
| `NoFalseRecord` | `Spec => []ProvisionedIsConfigured` |
| `NoStrayConfiguration` | `Spec => []RunsOnlyAssigned` |
| `DeletedStaysDeleted` | `Spec => NoResurrection` |
| `RefusedInsertFinds` | a second lookup that is not Juniper's finds a row, if operators delete none |
| `RegistrationRaceIsWon` | `Spec => []RegistrationSucceeds`, if there is no Juniper box and operators delete no row |
| `Refinement` | `Spec => ImplementsZeroTouch` |
| `QuietBoxesConverge` | `Spec => Convergence`, if each box `GoesOn` once it is `Quiet` |
| `QuietBoxesAreConfigured` | `Spec => EventuallyConfigured`, if each box `AsksOn` once it is `QuietZtp` |

`ProvisioningProofs` has one lemma per action, grouped as `Next` is. The
refinement follows the same argument: a statement that writes a row is
`ZT!Save` of the owner of the row, `ApplyOK` is `ZT!Load`, all else stutters.

Registration needs an invariant of its own, `RegistrationInv`. A handler whose INSERT was refused looks again
by one column, while the refusal may have come from any unique column, and other handlers, forms and the
poller write whole rows between the two statements. The invariant says that the row of every copy in flight is still there
and that the copy has its identifiers (except a MAC address that Juniper's handler wrote in between), so that no statement takes a serial number or a
MAC address away from a row; the row that stood in the way can then only have gone if it was deleted, which the second hypothesis excludes.
The two hypotheses are those of run `mixed`; without the first the statement is false, as run `juniper_registration` shows, and without the
second a row may be deleted between the two lookups, which the handler answers with an error and the box with a retry.

| Theorem of `AlertingProofs` | Statement |
|---|---|
| `TypeCorrect` | `Spec => []TypeOK` |
| `NoOrphanAlert` | `Spec => []AlertsHaveDevices` |
| `SteadyStaysOnline` | `Spec => []SteadyNeverOffline` |
| `DriftAlertsCatchUp` | `Spec => DriftAlertsFollow`, if ticks come and are taken again and again |
| `StateAlertsCatchUp` | `Spec => StateAlertsFollow`, if moreover the ages of silent devices are counted to their cap |

`SteadyNeverOffline` speaks of alerts; what makes it inductive is `SteadyFresh`, a
bound on ages: a device was heard of at most one tick before the last one that could have noticed it (`Fresh`: `1 + missed[d]`, and one more while a tick is due
or its ping runs), and no copy a tick works on is overdue. The second
follows from the first at the moment of reading, because at most `MaxMissed`
failures in a row came in between and `MaxMissed + 2 <= Limit`. `TicksApart` is the guard of `Tick`,
carried along.

| Theorem of `GitSyncProofs` | Statement |
|---|---|
| `TypeCorrect` | `Spec => []TypeOK` |
| `LinearHistory` | `Spec => PushesKeepFiles` |
| `SyncsMakeNothingUp` | `Spec => []SyncAddsNoOther` |
| `SavesAreAtomic` | `Spec => ImplementsRepository` |

A goroutine pushes a tree it made from a clone taken any number of steps ago. `FastForward`
says that as long as its push would be accepted, that tree is the present head with one file
written: every step that moves the head clears `ff` everywhere else. Hence an accepted push is
`Repo!Commit`, the whole save in one step, and a goroutine whose push would be refused is one that was overtaken
after its clone, or one that could not clone (`Repo!Stumble`); when it ends without a push, that is `Repo!Lose`. For
`SyncsMakeNothingUp`, `KeysWithin(X)` follows keys along the whole way (table, goroutine,
repository, clone, table) for any set *X* that has the given keys and is closed under what a commit and a sync make of one; `Given` is the least such
set, and no assumption on prefix or names is needed.

| Theorem | Statement |
|---|---|
| `SessionProofs!SessionTypeCorrect` | `SessionSpec => []SessionTypeOK` |
| `SessionProofs!StatesAreUsedOnce` | `SessionSpec => []StateUsedOnce` |
| `SessionProofs!SignInsHold` | `SessionSpec => SignInHolds` |
| `SessionProofs!SignedOutTabsStayOut` | a tab out of the application when no token is valid any more stays out |
| `SessionProofs!TerminalTypeCorrect` | `TerminalSpec => []TerminalTypeOK` |
| `SessionProofs!ToldAtTheEnd` | `TerminalSpec => []ClosedIsTheEnd` |
| `SessionProofs!BrowserIsBoth` | `BrowserSpec => SessionSpec /\ TerminalSpec` |
| `RecordsProofs!RecordsTypeCorrect` | `RecordsSpec => []RecordsTypeOK` |
| `RecordsProofs!WritesAreRead` | `RecordsSpec => []ReadYourWrites` |
| `RecordsProofs!ReferencesAreWhole` | `RecordsSpec => []NoDangling` |
| `RecordsProofs!FormsInsertOnce` | `RecordsSpec => []CreatedOnce` |
| `PagesProofs!FleetTypeCorrect` | `FleetSpec => []FleetTypeOK` |
| `PagesProofs!BarTellsTheTruth` | `FleetSpec => []ResultsAreTrue` |
| `PagesProofs!NoDeletedDeviceIsListed` | `FleetSpec => []DeletedLeaveList` |
| `PagesProofs!ModalsPushOnce` | `DriftSpec => []OnePushAModal` |
| `PagesProofs!DriftTypeCorrect` | `DriftSpec => []DriftTypeOK` |
| `PagesProofs!ComparisonIsShown` | `DriftSpec => []DriftIsShown` |
| `PagesProofs!PagesAreScreens` | `PagesSpec => RecordsSpec /\ FleetSpec /\ DriftSpec` |
| `PagesProofs!ScreensTypeCorrect` | `PagesSpec => []ScreensTypeOK` |
| `EditorProofs!EditorTypeCorrect` | `EditorSpec => []EditorTypeOK` |
| `EditorProofs!UniformListsAreRendered` | `EditorSpec => []UniformSetRendered` |
| `EditorProofs!OpeningAndSavingIsNoop` | `EditorSpec => []OpenSaveIsNoop` |
| `EditorProofs!SavedIsShownAgain` | `EditorSpec => []ReopenShowsTheSame` |
| `EditorProofs!DiscoveryLosesNoInput` | `EditorSpec => DiscoveryKeepsInput` |

`SessionInv` adds that a tab at the provider carries a state; a state is redeemed only from *pending*, which it never
becomes twice. `RecordsInv` has four parts. `TablesInv`: types and references of rows. `ListsInv`: no write is acknowledged that
the table does not have, and a list that was read and has not arrived is as new as every acknowledged write unless it is
`missed`; this is why an acknowledgement must start a fetch again that is under way. `FormsInv`: a row in a form or on its way
has the references of its table, and a write that was done is in the table. `PostsInv`: a form has one insert under
way at most, and while it is open, an insert it has done is still under way, so that *Save* is disabled, or was reported lost.
`FleetInv` adds to the two properties that a bar that has gone shows no run, that the requests of a run are
either out, successful or failed, and that a device whose deletion succeeded is gone for good. `ModalInv` says that the open modal has a push out
exactly while its button says so.


*Lists of any length.* `Drift` and `Editor` fold, filter and map sequences. A theorem that takes an operator as
a parameter cannot be used here, so `SequenceFacts` states induction with sets: a set with 0 that has *n*
whenever it has *n* - 1, up to a bound, has all numbers up to it (`InductionUpTo`, from the well-foundedness of the natural
numbers). Folds are unfolded once and for all into their intermediate results (`FoldExists`, `Steps`, `Ends`): a function on
0 to the length whose value at *k* is one step of the fold further than at *k* - 1. A proof about a fold then states what holds
of the intermediate results and applies `InductionUpTo`.

*The comparison.* `Grew` is the invariant of the fold of `Hunks`: after *k* parts the unchanged lines shown are those of these
parts that are near a difference, and the buffer holds the last part if it has not changed, since only the next part decides
whether its end is context. The lines that differ go straight through, so they are a fold of their own (`LineStep`).
`Compared` carries the result from the moment the answer is loaded to every state the modal can be in.

*The terminal.* `BridgeOK` says which goroutines a bridge has in each phase and why its copying ended: the page went, or the shell
ended and all it wrote was read. A page is told of the end only by the release that follows, so with nothing left to show.

*The editors.* The theorems rest on what the operators do with any list: `LayeredIs`, `KeptRowsAre` and
`ReopenedRows` say which rows the modal lays out, keeps and lays out again; `PairsAre` and `AddedBehind` which value a variable
has after `Object.entries`, `Object.fromEntries` and pairs added behind. `EditorTypeOK` is not inductive. `EditorInv` adds
that only rows of a profile are ever overridden (a row of the device that was, would be kept and come back with its box unchecked),
and that a form of a profile, what it saves and what is stored of a profile have no list among their variables
(otherwise a list saved as a string would hide from `ProfileForm` and be lost by the next save). Run `editor` reaches its states;
`EditorInv` was checked on that instance before it was proved. `Contents`, what other operators make of a profile, is any set of
stored objects that have no list as a string, since they use the same form.

*Liveness.* That a fair step is taken cannot be proved here: it needs `ENABLED`. What can be is everything else, and that is where the
code could be wrong: that no late request, stale copy or unlucky order leads back from where things have got to. A theorem
on a liveness property therefore has in the place of fairness what fairness gives of it, as formulas of the form `[]<>P` about states.
They are consequences of `FairSpec` by one step each, about actions that stay enabled until they are taken, and they say nothing of where the system ends.

* *Convergence* (`QuietBoxesConverge`). `GoesOn(b)`: the requests of *b* end before the next, it stays in no phase for ever, and polls for
  ever only if its row says *provisioned*. A copy read before things were quiet may still undo what was reported, and even take the profile
  from the row (which is why `Convergence` assumes a row that keeps its profile), but once a moment has come without requests of *b*, the
  box is `OnTrack`: it has one request at most, made in the phase it is in, with a copy that agrees with the row. On track, the phases go forward only
  (`reportBad`, `poll`, `fetch`, `apply`, `reportOK`), each action preserves this (`Forward`), and after the report the box is `Finished`, which nothing undoes.
* *Juniper and Aruba* (`QuietBoxesAreConfigured`). `AsksOn(b)`: the requests of *b* end, it applies what it fetched, and it does not poll for ever without a
  request. Every request made while its row has a profile will be answered with a configuration (`AllPromising`), whether or not the writes of its
  handler succeed, so after the requests of before have ended, a request that ends leaves a box that has one.
* *Alerts* (`DriftAlertsCatchUp`, `StateAlertsCatchUp`). The hypotheses are `[]<>due` and `[]<>~due`: the ticker fires, and its ticks
  are taken. A tick taken once things are routine reads what the rows say, and each evaluation of it brings an alert in line (`OnCourse`); a tick under
  way before may have read anything, and is forgotten when the next is taken. When the next one is due the alerts are `Settled`, and later ticks
  find nothing to change. For *offline* the ages must have come to rest as well (`AllCounted`): each tick makes a silent device one
  older, up to the cap, which is an induction over temporal formulas.
* *Tabs* (`SignInsHold`). No fairness is needed. In `Peace` the stored token is accepted and no call under way can be refused. Whatever
  `Undisturbed` tabs do next, the calls they start carry the stored token or are logins (`SentInPeace`), an answer only removes one (`FewerInPeace`), and a login or a callback only adds an accepted token, so that
  peace lasts (`PeaceLasts`) and no tab is sent away (`InsideLasts`). How peace comes about is not claimed: a refusal on its way may still end a new session (section 4).
* *Signed out* (`SignedOutTabsStayOut`). Of `SignedOutTabsLeave` the part that is not fairness: there is no way back in. That the page gets its 401 is left to TLC.

*Only model-checked:* `SignedOutTabsLeave` as a whole, `LeftTerminalsClose`, and that `FairSpec` gives the hypotheses of the four theorems
on `Convergence`, `EventuallyConfigured` and the alerts, for which the runs `cisco_live`, `juniper` and `alerts` check the properties themselves under
`FairSpec`. All of this is beyond the prover. Every other property of a passing run is a theorem, `RegistrationSucceeds`
under the hypotheses given above.

## 6. What is not modelled, and why

* *Operator calls over SSH* (running configuration, push, firmware version) as far as they happen on the device: the result is
  text, or a firmware version, which changes in `Alerting`. What the dashboard does with their answers is in `Fleet` and `Drift`.
* *`CommitConfig`* has the shape of `CommitTemplate`, in a repository that nothing is read back from.
* *Parsing and storage of syslog messages*: stateless; no decision reads an event back.
* *Renderer*: stateless text processing. The choice of a template among several that match is the database's order.
* *Password hashes, roles, the row of a first OIDC login, precedence of settings over the environment*: single
  statements, or read once at start.
* *Resolving all alerts at once*: a loop over the request that `Records` models (`AskRow`); that one failure hides the successes until the next poll is a hazard without a promise.
* *Dashboard, events, leases and audit pages*: lists shown as they come, without state of their own but a page number.
* *Third-party servers*, layout and navigation, the text of configurations, validation of single fields.
