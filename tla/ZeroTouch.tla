------------------------------ MODULE ZeroTouch ------------------------------
(***************************************************************************)
(* What zero touch provisioning promises, without requests, rows, copies   *)
(* or forms: an operator grants a profile to a box, the box loads the      *)
(* rendering of a granted profile, and only a box that has loaded one may  *)
(* be on record as provisioned.                                            *)
(***************************************************************************)
CONSTANTS Box, Profile, NULL

VARIABLES
    granted,  \* granted[b]: the profiles assigned to box b so far
    loaded,   \* loaded[b]: the profile box b runs, or NULL
    recorded  \* the boxes on record as provisioned

zvars == <<granted, loaded, recorded>>

Init ==
    /\ granted = [b \in Box |-> {}]
    /\ loaded = [b \in Box |-> NULL]
    /\ recorded = {}

(* The record of b is taken, kept, or withdrawn. *)
Recording(b) ==
    /\ recorded \ {b} \subseteq recorded'
    /\ recorded' \subseteq recorded \cup {c \in {b} : loaded[c] # NULL}

(* An operator saves the record of b, and may grant it a profile. *)
Save(b) ==
    /\ \E P \in SUBSET Profile :
         granted' = [granted EXCEPT ![b] = granted[b] \cup P]
    /\ Recording(b)
    /\ UNCHANGED loaded

Load(b) ==
    /\ \E p \in granted[b] : loaded' = [loaded EXCEPT ![b] = p]
    /\ UNCHANGED <<granted, recorded>>

Next == \E b \in Box : Save(b) \/ Load(b)

Spec == Init /\ [][Next]_zvars
=============================================================================
