----------------------------- MODULE Repository -----------------------------
(***************************************************************************)
(* What the saves promise of the git repository, without clones, trees or  *)
(* pushes: a save writes its file once, in one step, and leaves all other  *)
(* files alone; or it is lost, but only if somebody else wrote while it    *)
(* was under way, or the connection to the repository is unreliable.       *)
(***************************************************************************)
CONSTANTS
    File, Content, NULL,
    Saver,       \* who saves
    Shared       \* others write to the repository, too

VARIABLES
    head,      \* head[f]: the content of file f
    asked,     \* asked[s]: the save of s that is under way
    overtaken, \* those whose save may come too late
    reliable   \* nothing between here and the repository ever fails

rvars == <<head, asked, overtaken, reliable>>

NoWrite == [file |-> NULL, content |-> NULL]

UnderWay(s) == asked[s] # NoWrite

Init ==
    /\ head = [f \in File |-> NULL]
    /\ asked = [s \in Saver |-> NoWrite]
    /\ overtaken = {}
    /\ reliable \in BOOLEAN

Ask(s) ==
    /\ ~UnderWay(s)
    /\ \E f \in File, c \in Content :
         asked' = [asked EXCEPT ![s] = [file |-> f, content |-> c]]
    /\ UNCHANGED <<head, overtaken, reliable>>

(* File f is written; the saves of some of S come too late then. *)
Writes(f, c, S) ==
    /\ head' = [head EXCEPT ![f] = c]
    /\ overtaken \subseteq overtaken'
    /\ \A r \in overtaken' : r \in S /\ UnderWay(r)

Commit(s) ==
    /\ UnderWay(s) /\ s \notin overtaken
    /\ Writes(asked[s].file, asked[s].content, Saver \ {s})
    /\ asked' = [asked EXCEPT ![s] = NoWrite]
    /\ UNCHANGED reliable

Other ==
    /\ Shared
    /\ \E f \in File, c \in Content : Writes(f, c, Saver)
    /\ UNCHANGED <<asked, reliable>>

Lose(s) ==
    /\ UnderWay(s)
    /\ s \in overtaken \/ ~reliable
    /\ asked' = [asked EXCEPT ![s] = NoWrite]
    /\ overtaken' = overtaken \ {s}
    /\ UNCHANGED <<head, reliable>>

Stumble(s) ==
    /\ UnderWay(s) /\ ~reliable
    /\ overtaken' = overtaken \cup {s}
    /\ UNCHANGED <<head, asked, reliable>>

Next ==
    \/ \E s \in Saver : Ask(s) \/ Commit(s) \/ Lose(s) \/ Stumble(s)
    \/ Other

Spec == Init /\ [][Next]_rvars
=============================================================================
