--------------------------------- MODULE Drift ---------------------------------
(***************************************************************************)
(* The configuration of one device in the dashboard: DeviceModal pushes it,*)
(* DiffModal shows how the running configuration differs from the rendered *)
(* one, and pushes it too.  A modal may be closed and opened again while a *)
(* push is out, and its answer then finds the modal gone.                  *)
(***************************************************************************)
EXTENDS Naturals, Sequences, SequencesExt, Functions, FiniteSets

CONSTANTS
    Context,     \* CONTEXT_LINES
    Length,      \* lengths of the parts that two configurations differ in
    MaxParts,    \* parts of a comparison
    Slot         \* names for a modal, and for those that left a push behind

ASSUME DriftAssumption ==
    /\ Context \in Nat \ {0}
    /\ Length \subseteq Nat \ {0}
    /\ MaxParts \in Nat

VARIABLES
    modal,   \* the modal on the screen
    name,    \* the name of that modal, or of the last one
    pushes   \* pushes[n]: the pushes of modal n that are not answered

driftVars == <<modal, name, pushes>>

-----------------------------------------------------------------------------
(* What diffLines makes of two texts: parts of context, removed or added. *)
(* A line is a number, counted through all parts.                          *)
Type == {"context", "removed", "added"}

Part == [type : Type, size : Length]

(* No two parts next to each other are of one type. *)
Comparisons ==
    {s \in BoundedSeq(Part, MaxParts) \ {<<>>} : \A i \in 1 .. Len(s) - 1 : s[i].type # s[i + 1].type}

LinesBefore(parts, i) == FoldLeft(LAMBDA n, p : n + p.size, 0, SubSeq(parts, 1, i - 1))

Numbered(parts) ==
    [i \in DOMAIN parts |->
        [type  |-> parts[i].type,
         lines |-> [j \in 1 .. parts[i].size |-> LinesBefore(parts, i) + j]]]

FirstLines(lines) == SubSeq(lines, 1, IF Len(lines) < Context THEN Len(lines) ELSE Context)

LastLines(lines) ==
    SubSeq(lines, IF Len(lines) < Context THEN 1 ELSE Len(lines) - Context + 1, Len(lines))

Hunk(type, lines) == [type |-> type, lines |-> lines]

(* flushContext *)
Flushed(acc) ==
    IF acc.buffer = <<>> THEN acc.hunks ELSE Append(acc.hunks, Hunk("context", LastLines(acc.buffer)))

(* Mutant: what is buffered is kept when a change was shown before it. *)
GrownOnce(acc, part) ==
    IF part.type = "context"
    THEN [hunks  |-> IF acc.hunks = <<>> THEN acc.hunks
                     ELSE Append(acc.hunks, Hunk("context", FirstLines(part.lines))),
          buffer |-> IF acc.hunks = <<>> THEN part.lines ELSE <<>>]
    ELSE [hunks  |-> Append(Flushed(acc), part), buffer |-> <<>>]

Grown(acc, part) ==
    IF part.type = "context"
    THEN [hunks  |-> IF acc.hunks = <<>> THEN acc.hunks
                     ELSE Append(acc.hunks, Hunk("context", FirstLines(part.lines))),
          buffer |-> part.lines]
    ELSE [hunks  |-> Append(Flushed(acc), part), buffer |-> <<>>]

Hunks(parts) == FoldLeft(Grown, [hunks |-> <<>>, buffer |-> <<>>], Numbered(parts)).hunks

(* The lines counted as added, or as removed. *)
Counted(hunks, type) ==
    FoldLeft(LAMBDA n, h : IF h.type = type THEN n + Len(h.lines) ELSE n, 0, hunks)

(* An empty text has no hunks and is never clean. *)
Clean(m) ==
    /\ ~m.blank
    /\ Counted(m.hunks, "added") = 0 /\ Counted(m.hunks, "removed") = 0

-----------------------------------------------------------------------------
NoModal == [kind |-> "none", stage |-> "ready", parts |-> <<>>, blank |-> FALSE, hunks |-> <<>>,
            confirm |-> FALSE, pushing |-> FALSE, told |-> FALSE]

DriftTypeOK ==
    /\ modal.kind \in {"none", "device", "diff"}
    /\ modal.stage \in {"loading", "ready", "failed"}
    /\ {modal.blank, modal.confirm, modal.pushing, modal.told} \subseteq BOOLEAN
    /\ \A h \in Range(modal.hunks) : h.type \in Type /\ h.lines \in Seq(Nat)
    /\ name \in Slot
    /\ pushes \in [Slot -> Nat]

DriftInit ==
    /\ modal = NoModal
    /\ name \in Slot
    /\ pushes = [n \in Slot |-> 0]

Named == name' \in {n \in Slot : pushes[n] = 0} /\ UNCHANGED pushes

OpenDevice ==
    /\ modal.kind = "none" /\ Named
    /\ modal' = [NoModal EXCEPT !.kind = "device"]

(* View Config Diff closes DeviceModal, whatever it waits for. *)
OpenDiff ==
    /\ modal.kind = "device" /\ Named
    /\ modal' = [NoModal EXCEPT !.kind = "diff", !.stage = "loading"]

Close ==
    /\ modal.kind # "none"
    /\ modal' = NoModal
    /\ UNCHANGED <<name, pushes>>

(* Both configurations have arrived. *)
Loaded ==
    /\ modal.stage = "loading"
    /\ \/ \E parts \in Comparisons :
            modal' = [modal EXCEPT !.stage = "ready", !.parts = parts, !.hunks = Hunks(parts)]
       \/ modal' = [modal EXCEPT !.stage = "ready", !.blank = TRUE]
    /\ UNCHANGED <<name, pushes>>

LoadFails ==
    /\ modal.stage = "loading"
    /\ modal' = [modal EXCEPT !.stage = "failed"]
    /\ UNCHANGED <<name, pushes>>

(* The footer of DiffModal, with the button and its confirmation. *)
Footer == modal.kind = "diff" /\ modal.stage = "ready" /\ ~Clean(modal) /\ ~modal.told

Apply ==
    /\ Footer /\ ~modal.confirm
    /\ modal' = [modal EXCEPT !.confirm = TRUE]
    /\ UNCHANGED <<name, pushes>>

Cancel ==
    /\ Footer /\ modal.confirm
    /\ modal' = [modal EXCEPT !.confirm = FALSE]
    /\ UNCHANGED <<name, pushes>>

(* Mutant: Confirm Push is not disabled while a push is out. *)
PushableTwice == IF modal.kind = "device" THEN ~modal.pushing ELSE Footer /\ modal.confirm

(* DeviceModal asks with a dialog, DiffModal in its footer. *)
Pushable ==
    /\ ~modal.pushing
    /\ modal.kind = "device" \/ (Footer /\ modal.confirm)

Push ==
    /\ Pushable
    /\ modal' = [modal EXCEPT !.pushing = TRUE, !.confirm = FALSE, !.told = FALSE]
    /\ pushes' = [pushes EXCEPT ![name] = @ + 1]
    /\ UNCHANGED name

(* Done or failed: shown by the modal that asked, if it is still there. *)
Answered(n) ==
    /\ pushes[n] > 0
    /\ pushes' = [pushes EXCEPT ![n] = @ - 1]
    /\ modal' = IF modal.kind # "none" /\ n = name
                THEN [modal EXCEPT !.pushing = FALSE, !.told = TRUE]
                ELSE modal
    /\ UNCHANGED name

DriftNext ==
    \/ OpenDevice \/ OpenDiff \/ Close
    \/ Loaded \/ LoadFails
    \/ Apply \/ Cancel \/ Push
    \/ \E n \in Slot : Answered(n)

DriftSpec == DriftInit /\ [][DriftNext]_driftVars

-----------------------------------------------------------------------------
(* A modal never has two pushes of a device out, although the button that  *)
(* asks for one is back as soon as the first was confirmed                 *)
(* (DevicesPage.tsx:153-166, 243-266, 472-481).                            *)
OnePushAModal == \A n \in Slot : pushes[n] <= 1

(* The lines of the parts, or hunks, of some types. *)
LinesOf(seq, types) ==
    FoldLeft(LAMBDA lines, p : IF p.type \in types THEN lines \o p.lines ELSE lines, <<>>, seq)

Near(l, lines) == \E i \in DOMAIN lines : lines[i] <= l + Context /\ l <= lines[i] + Context

(* The comparison that is shown has each line that differs once and in     *)
(* order, and of the lines that agree those that are near one that differs;*)
(* it is clean if and only if nothing differs (DevicesPage.tsx:120-151).   *)
DriftIsShown ==
    modal.kind = "diff" /\ modal.stage = "ready" /\ ~modal.blank =>
        LET parts  == Numbered(modal.parts)
            differ == LinesOf(parts, {"removed", "added"})
        IN  /\ \A t \in {"removed", "added"} : LinesOf(modal.hunks, {t}) = LinesOf(parts, {t})
            /\ Range(LinesOf(modal.hunks, {"context"})) =
                {l \in Range(LinesOf(parts, {"context"})) : Near(l, differ)}
            /\ Clean(modal) <=> differ = <<>>

==============================================================================
