-------------------------------- MODULE Editor --------------------------------
(***************************************************************************)
(* The variables, VLANs and ports of a profile and of a device, edited in  *)
(* ProfileForm and in DeviceModal, stored as one JSON object each, and     *)
(* merged when a configuration is rendered.  The modal shows the rows of   *)
(* the profile and lays the rows of the device over them; a save keeps the *)
(* rows that belong to the device.                                         *)
(***************************************************************************)
EXTENDS Naturals, Sequences, SequencesExt, FiniteSets

CONSTANTS
    Key,       \* the scalar variables an operator may type
    Val,       \* what they may be set to
    RowId,     \* ids of VLANs and numbers of ports; 0 is a blank one
    Text,      \* the other fields of a row
    Contents,  \* what may be stored at first, and what another operator saves
    Asked,     \* the variables that the template uses
    MaxVars,   \* a bound: a variable is added only to a shorter list
    MaxRows,   \* a bound: a row is added only to lists with fewer, both taken
    MaxEdits,  \* a bound: changes to variables and rows, in all forms
    MaxSaves   \* a bound: saves in all forms

Lists == {"vlans", "ports"}

Blank == ""

(* What String makes of an array of rows. *)
ObjectObject == "[object Object]"

Row == [id : RowId, text : Text]

NewRow == [id |-> 0, text |-> Blank]

Entry == [id : RowId, text : Text, fromProfile : BOOLEAN, overridden : BOOLEAN]

Name == Key \cup Lists

Value == Val \cup {Blank, ObjectObject}

(* A stored JSON object: strings, and lists of rows that are not empty.  A *)
(* list name among the strings is a list that was saved as a string.       *)
IsStored(v) ==
    LET names == DOMAIN v.scalars IN
    /\ names \subseteq Name /\ IsFiniteSet(names)
    /\ v \in [scalars : [names -> Value], lists : [Lists -> Seq(Row)]]
    /\ \A l \in Lists \cap names : v.lists[l] = <<>>

NoLists == [l \in Lists |-> <<>>]

Nothing == [scalars |-> <<>>, lists |-> NoLists]

ASSUME EditorAssumption ==
    /\ Key \cap Lists = {} /\ Blank \notin Key
    /\ \A v \in Contents : IsStored(v) /\ DOMAIN v.scalars \subseteq Key
    /\ Asked \subseteq Name /\ IsFiniteSet(Asked)
    /\ NewRow \in Row
    /\ 1 .. MaxRows \subseteq RowId
    /\ {MaxVars, MaxRows, MaxEdits, MaxSaves} \subseteq Nat

VARIABLES
    profile,  \* the variables of the profile, as stored
    device,   \* the variables of a device with this profile, as stored
    form,     \* the form on the screen
    puts,     \* the saves in flight, each with its number
    edits,    \* the changes made so far
    saves     \* the saves asked for so far

editorVars == <<profile, device, form, puts, edits, saves>>

-----------------------------------------------------------------------------
(* pending: what a discovery in flight would append, computed from what    *)
(* the click could see; put: the number of the last save of this form.     *)
Closed == [kind |-> "none", vars |-> <<>>, rows |-> NoLists, put |-> 0,
           discovering |-> FALSE, pending |-> <<>>]

Pair == (Name \cup {Blank}) \X Value

EditorTypeOK ==
    /\ IsStored(profile) /\ IsStored(device)
    /\ form \in [kind : {"none", "device", "profile"}, vars : Seq(Pair),
                rows : [Lists -> Seq(Entry)], put : 0 .. MaxSaves,
                discovering : BOOLEAN, pending : Seq(Pair)]
    /\ \A p \in puts :
        /\ p = [n |-> p.n, kind |-> p.kind, body |-> p.body]
        /\ p.n \in 1 .. MaxSaves /\ p.kind \in {"device", "profile"} /\ IsStored(p.body)
    /\ edits \in 0 .. MaxEdits
    /\ saves \in 0 .. MaxSaves

EditorInit ==
    /\ profile \in Contents
    /\ device \in Contents
    /\ form = Closed
    /\ puts = {}
    /\ edits = 0
    /\ saves = 0

-----------------------------------------------------------------------------
(* Opening *)

(* A stored object, every value a string. *)
Strings(v) ==
    [k \in DOMAIN v.scalars \cup {l \in Lists : v.lists[l] # <<>>} |->
        IF k \in DOMAIN v.scalars THEN v.scalars[k] ELSE ObjectObject]

(* Object.entries *)
Pairs(strings) ==
    LET keys == SetToSeq(DOMAIN strings) IN
    [i \in DOMAIN keys |-> <<keys[i], strings[keys[i]]>>]

Has(rows, id) == \E i \in DOMAIN rows : rows[i].id = id

FirstWith(rows, id) == rows[SelectInSeq(rows, LAMBDA r : r.id = id)]

(* filter: what a sequence has of a set. *)
Only(seq, set) ==
    FoldLeft(LAMBDA kept, x : IF x \in set THEN Append(kept, x) ELSE kept, <<>>, seq)

(* The rows of which another list has none with the same id. *)
Others(rows, known) == Only(rows, {r \in ToSet(rows) : ~Has(known, r.id)})

AsEntry(r, fromProfile, overridden) ==
    [id |-> r.id, text |-> r.text, fromProfile |-> fromProfile, overridden |-> overridden]

(* Mutant: the rows of the profile hide those of the device. *)
LayeredUnder(ofProfile, ofDevice) ==
    LET extra == Others(ofDevice, ofProfile) IN
    [i \in DOMAIN ofProfile |-> AsEntry(ofProfile[i], TRUE, Has(ofDevice, ofProfile[i].id))]
    \o [i \in DOMAIN extra |-> AsEntry(extra[i], FALSE, FALSE)]

(* initVlans, initPorts: the rows of the profile, the first device row with *)
(* the same id in their place, then the other rows of the device.          *)
Layered(ofProfile, ofDevice) ==
    LET over(r) == IF Has(ofDevice, r.id) THEN FirstWith(ofDevice, r.id) ELSE r
        extra   == Others(ofDevice, ofProfile)
    IN  [i \in DOMAIN ofProfile |->
            AsEntry(over(ofProfile[i]), TRUE, Has(ofDevice, ofProfile[i].id))]
        \o [i \in DOMAIN extra |-> AsEntry(extra[i], FALSE, FALSE)]

OpenedDevice(d, p) ==
    [Closed EXCEPT !.kind = "device",
                   !.vars = Pairs(Strings(d)),
                   !.rows = [l \in Lists |-> Layered(p.lists[l], d.lists[l])]]

(* ProfileForm keeps vlans and ports out of its list of variables. *)
OpenedProfile(p) ==
    [Closed EXCEPT !.kind = "profile",
                   !.vars = Pairs(Restrict(p.scalars, DOMAIN p.scalars \ Lists)),
                   !.rows = [l \in Lists |-> Layered(<<>>, p.lists[l])]]

OpenDevice ==
    /\ form.kind = "none"
    /\ form' = OpenedDevice(device, profile)
    /\ UNCHANGED <<profile, device, puts, edits, saves>>

OpenProfile ==
    /\ form.kind = "none"
    /\ form' = OpenedProfile(profile)
    /\ UNCHANGED <<profile, device, puts, edits, saves>>

(* The backdrop, the cross, Cancel. *)
Close ==
    /\ form.kind # "none"
    /\ form' = Closed
    /\ UNCHANGED <<profile, device, puts, edits, saves>>

-----------------------------------------------------------------------------
(* Saving *)

(* Object.fromEntries over the rows that have a key: the last one wins. *)
LastOf(vars, k) == SelectLastInSeq(vars, LAMBDA v : v[1] = k)

Named(vars) == {vars[i][1] : i \in DOMAIN vars} \ {Blank}

FromEntries(vars) == [k \in Named(vars) |-> vars[LastOf(vars, k)][2]]

OfDevice(e) == ~e.fromProfile \/ e.overridden

(* Mutant: only overrides are kept, rows added on the device are not. *)
KeptOverrides(rows) == Only(rows, {e \in ToSet(rows) : e.overridden})

Kept(rows) == Only(rows, {e \in ToSet(rows) : OfDevice(e)})

AsRows(rows) == [i \in DOMAIN rows |-> [id |-> rows[i].id, text |-> rows[i].text]]

(* Mutant: the string of a list is kept beside its rows. *)
PackedBoth(vars, lists) == [scalars |-> FromEntries(vars), lists |-> lists]

(* A list is written when it has rows, and then replaces a string. *)
Packed(vars, lists) ==
    LET scalars == FromEntries(vars) IN
    [scalars |-> [k \in {j \in DOMAIN scalars : j \notin Lists \/ lists[j] = <<>>} |-> scalars[k]],
     lists   |-> lists]

(* DeviceModal.handleSave *)
DeviceBody(f) == Packed(f.vars, [l \in Lists |-> AsRows(Kept(f.rows[l]))])

(* The mutation of ProfileForm *)
ProfileBody(f) == Packed(f.vars, [l \in Lists |-> AsRows(f.rows[l])])

Body(f) == IF f.kind = "device" THEN DeviceBody(f) ELSE ProfileBody(f)

(* The button of a form is disabled while its own save is in flight; a     *)
(* form that was closed and opened again knows nothing of the one before.  *)
Save ==
    /\ form.kind # "none"
    /\ \A p \in puts : p.n # form.put
    /\ saves < MaxSaves
    /\ saves' = saves + 1
    /\ puts' = puts \cup {[n |-> saves', kind |-> form.kind, body |-> Body(form)]}
    /\ form' = [form EXCEPT !.put = saves']
    /\ UNCHANGED <<profile, device, edits>>

(* onSuccess closes whichever form of its page is open by then: the one    *)
(* that was saved, a later one, or none if the page was left meanwhile.    *)
Saved(p) ==
    /\ profile' = IF p.kind = "profile" THEN p.body ELSE profile
    /\ device' = IF p.kind = "device" THEN p.body ELSE device
    /\ \/ form.kind = p.kind /\ form' = Closed
       \/ form.put # p.n /\ form' = form
    /\ puts' = puts \ {p}
    /\ UNCHANGED <<edits, saves>>

SaveFailed(p) ==
    /\ puts' = puts \ {p}
    /\ UNCHANGED <<profile, device, form, edits, saves>>

-----------------------------------------------------------------------------
(* Editing the variables *)

Editing(kinds) ==
    /\ form.kind \in kinds
    /\ edits < MaxEdits

Changed ==
    /\ edits' = edits + 1
    /\ UNCHANGED <<profile, device, puts, saves>>

WithVars(vars) ==
    /\ form' = [form EXCEPT !.vars = vars]
    /\ Changed

AddVar ==
    /\ form.kind # "none"
    /\ Len(form.vars) < MaxVars
    /\ form' = [form EXCEPT !.vars = Append(@, <<Blank, Blank>>)]
    /\ UNCHANGED <<profile, device, puts, edits, saves>>

SetVar(i) ==
    /\ Editing({"device", "profile"})
    /\ \/ \E k \in Key : WithVars(ReplaceAt(form.vars, i, <<k, form.vars[i][2]>>))
       \/ \E x \in Val : WithVars(ReplaceAt(form.vars, i, <<form.vars[i][1], x>>))

RemoveVar(i) ==
    /\ Editing({"device", "profile"})
    /\ WithVars(RemoveAt(form.vars, i))

Blanks == [k \in Asked |-> Blank]

(* What DeviceModal will append: every variable of the template that is not *)
(* among the variables at the click, with the value the profile gives it.  *)
Missing(vars, keys) == SetToSeq(keys \ Named(vars))

AskedWith(vars, keys, defaults) ==
    LET new == Missing(vars, keys) IN [i \in DOMAIN new |-> <<new[i], defaults[new[i]]>>]

ProfileStrings ==
    [k \in Asked |-> IF k \in DOMAIN Strings(profile) THEN Strings(profile)[k] ELSE Blank]

(* ProfileForm appends no list, and nothing but blanks. *)
OfProfile(vars) == AskedWith(vars, Asked \ Lists, Blanks)

Discover ==
    /\ form.kind # "none" /\ ~form.discovering
    /\ form' = [form EXCEPT !.discovering = TRUE,
                            !.pending = IF form.kind = "device"
                                        THEN AskedWith(form.vars, Asked, ProfileStrings)
                                        ELSE OfProfile(form.vars)]
    /\ UNCHANGED <<profile, device, puts, edits, saves>>

(* Mutant: ProfileForm goes by the click, as DeviceModal does. *)
NewVarsAtClick(f) == f.pending

(* DeviceModal goes by what the click could see; ProfileForm looks at the  *)
(* variables as they are when the answer arrives.                          *)
NewVars(f) == IF f.kind = "device" THEN f.pending ELSE OfProfile(f.vars)

Discovered ==
    /\ form.discovering
    /\ form' = [form EXCEPT !.discovering = FALSE, !.pending = <<>>,
                            !.vars = @ \o NewVars(form)]
    /\ UNCHANGED <<profile, device, puts, edits, saves>>

DiscoverFailed ==
    /\ form.discovering
    /\ form' = [form EXCEPT !.discovering = FALSE, !.pending = <<>>]
    /\ UNCHANGED <<profile, device, puts, edits, saves>>

-----------------------------------------------------------------------------
(* Editing the rows *)

Shows(l, rows) == form' = [form EXCEPT !.rows = [@ EXCEPT ![l] = rows]]

WithRows(l, rows) == Shows(l, rows) /\ Changed

(* The ports of a profile are generated; all other rows are added and      *)
(* removed one by one.                                                     *)
OneByOne(l) == form.kind = "device" \/ (form.kind = "profile" /\ l = "vlans")

AddRow(l) ==
    /\ OneByOne(l)
    /\ Len(form.rows["vlans"]) + Len(form.rows["ports"]) < MaxRows
    /\ Shows(l, Append(form.rows[l], AsEntry(NewRow, FALSE, FALSE)))
    /\ UNCHANGED <<profile, device, puts, edits, saves>>

(* In DeviceModal a row of the profile has no button to remove it. *)
RemoveRow(l, i) ==
    /\ Editing({"device", "profile"}) /\ OneByOne(l)
    /\ ~form.rows[l][i].fromProfile
    /\ WithRows(l, RemoveAt(form.rows[l], i))

(* The fields of a row of the profile are disabled until it is overridden. *)
SetId(l, i) ==
    /\ Editing({"device", "profile"}) /\ OneByOne(l)
    /\ OfDevice(form.rows[l][i])
    /\ \E id \in RowId : WithRows(l, ReplaceAt(form.rows[l], i, [form.rows[l][i] EXCEPT !.id = id]))

SetText(l, i) ==
    /\ Editing({"device", "profile"})
    /\ OfDevice(form.rows[l][i])
    /\ \E text \in Text :
        WithRows(l, ReplaceAt(form.rows[l], i, [form.rows[l][i] EXCEPT !.text = text]))

(* The checkbox.  Unchecking looks the row up in the profile as it is now, *)
(* by the id the row has now.                                              *)
Override(l, i) ==
    LET e == form.rows[l][i]
        r == IF Has(profile.lists[l], e.id) THEN FirstWith(profile.lists[l], e.id) ELSE e
    IN
    /\ Editing({"device"})
    /\ e.fromProfile
    /\ WithRows(l, ReplaceAt(form.rows[l], i,
            IF e.overridden THEN AsEntry(r, TRUE, FALSE) ELSE [e EXCEPT !.overridden = TRUE]))

(* generatePorts and Clear: 1 to n, in the place of the ports there were. *)
Generate ==
    /\ Editing({"profile"})
    /\ \E n \in 0 .. MaxRows :
        WithRows("ports", [i \in 1 .. n |-> AsEntry([NewRow EXCEPT !.id = i], FALSE, FALSE)])

(* Another operator saves the profile; the page fetches it again. *)
ProfileSaved ==
    /\ profile' \in Contents
    /\ UNCHANGED <<device, form, puts, edits, saves>>

-----------------------------------------------------------------------------
EditorNext ==
    \/ OpenDevice \/ OpenProfile \/ Close
    \/ Save
    \/ \E p \in puts : Saved(p) \/ SaveFailed(p)
    \/ AddVar \/ Discover \/ Discovered \/ DiscoverFailed
    \/ \E i \in DOMAIN form.vars : SetVar(i) \/ RemoveVar(i)
    \/ Generate
    \/ \E l \in Lists :
        \/ AddRow(l)
        \/ \E i \in DOMAIN form.rows[l] :
            RemoveRow(l, i) \/ SetId(l, i) \/ SetText(l, i) \/ Override(l, i)
    \/ ProfileSaved

EditorSpec == EditorInit /\ [][EditorNext]_editorVars

-----------------------------------------------------------------------------
(* What a configuration is rendered with: renderConfig takes a variable of  *)
(* the device in the place of the one of the profile, lists included.       *)
RenderedRows(l) ==
    IF device.lists[l] # <<>> \/ l \in DOMAIN device.scalars
    THEN device.lists[l] ELSE profile.lists[l]

Shown(l) == AsRows(Layered(profile.lists[l], device.lists[l]))

Distinct(rows) == \A i, j \in DOMAIN rows : rows[i].id = rows[j].id => i = j

(* A list that is rendered has every row that the modal shows              *)
(* (SYSTEM_OVERVIEW.md:503 "At render time, the full merged set is         *)
(* reconstructed").                                                        *)
FullSetRendered == \A l \in Lists : ToSet(RenderedRows(l)) = ToSet(Shown(l))

(* The same where the device has rows for all of the profile's or for none *)
(* of them, and no list was saved as a string (DevicesPage.tsx:351-369,    *)
(* devices.go:646-652).                                                    *)
UniformSetRendered ==
    \A l \in Lists :
        /\ l \notin DOMAIN device.scalars
        /\ Distinct(profile.lists[l]) /\ Distinct(device.lists[l])
        /\ \/ device.lists[l] = <<>>
           \/ \A i \in DOMAIN profile.lists[l] : Has(device.lists[l], profile.lists[l][i].id)
        => ToSet(RenderedRows(l)) = ToSet(Shown(l))

Same(v, w) ==
    /\ v.scalars = w.scalars
    /\ \A l \in Lists : ToSet(v.lists[l]) = ToSet(w.lists[l])

(* To open a form and save it changes nothing, whatever became of the      *)
(* profile since the device was saved, as long as no two rows of a list    *)
(* have the same id (DevicesPage.tsx:351-369, 430-445;                     *)
(* ProfilesPage.tsx:125-156).                                              *)
OpenSaveIsNoop ==
    /\ (\A l \in Lists : Distinct(device.lists[l]) /\ Distinct(profile.lists[l]))
        => Same(DeviceBody(OpenedDevice(device, profile)), device)
    /\ ProfileBody(OpenedProfile(profile)) = profile

(* The rows of the profile in the modal are those the profile has. *)
Faithful(l) ==
    LET ofProfile == {e \in ToSet(form.rows[l]) : e.fromProfile} IN
    /\ Distinct(form.rows[l]) /\ Distinct(profile.lists[l])
    /\ {e.id : e \in ofProfile} = {r.id : r \in ToSet(profile.lists[l])}
    /\ \A e \in ofProfile :
        e.overridden \/ [id |-> e.id, text |-> e.text] \in ToSet(profile.lists[l])

(* What is saved is what is shown: opened again, the modal has the same    *)
(* rows with the same boxes checked, and the last of the variables of each *)
(* name (DevicesPage.tsx:351-369, 430-445).                                *)
ReopenShowsTheSame ==
    form.kind = "device" =>
        LET again == OpenedDevice(DeviceBody(form), profile) IN
        /\ \A l \in Lists : Faithful(l) => ToSet(again.rows[l]) = ToSet(form.rows[l])
        /\ \A k \in Key \cap Named(form.vars) : FromEntries(again.vars)[k] = FromEntries(form.vars)[k]

(* A discovery never changes a variable that the form of a profile has,    *)
(* typed before or while the answer was on its way (ProfilesPage.tsx:177-  *)
(* 195).                                                                   *)
DiscoveryKeepsInput ==
    [][Discovered /\ form.kind = "profile" =>
        \A k \in Named(form.vars) : FromEntries(form'.vars)[k] = FromEntries(form.vars)[k]]_editorVars

==============================================================================
