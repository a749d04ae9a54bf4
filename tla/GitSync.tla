------------------------------- MODULE GitSync -------------------------------
(***************************************************************************)
(* Templates, profiles, and the git repository they are kept in.  Every    *)
(* save starts a goroutine that clones the repository, writes one file,    *)
(* commits and pushes; nothing waits for it and nothing orders two of      *)
(* them.  A sync clones the repository and writes its templates back into  *)
(* the database, file by file; nothing keeps two syncs apart.              *)
(*                                                                         *)
(* A template is known by its key (vendor, OS type, name).  Its file is    *)
(* templates/vendor/type/name.cfg with spaces and the like replaced        *)
(* (sanitize), and a sync reads a key back from the path of the file below *)
(* git.template_path: by default from the root of the repository, where    *)
(* vendor is templates, the type a vendor, and the name has a slash in it. *)
(***************************************************************************)
EXTENDS Naturals

CONSTANTS
    Tid,        \* the ids available for rows of config_templates
    Key,        \* template keys
    Names,      \* the keys that operators give
    Saved,      \* a bound: the keys under which templates are saved
    Prof,       \* the files of profiles
    Content,    \* what a template or a profile holds
    Job,        \* the goroutines that can run at once
    Syncer,     \* the syncs that can run at once
    Sanitized,  \* Sanitized[k]: key k as it appears in a path
    Outer,      \* Outer[k]: how file k reads from the root of the repository
    Prefix,     \* git.template_path is set to templates, not left blank
    Faults,     \* what may go wrong, of AllFaults
    NULL

AllFaults == {"external", "stale", "upsert"}

ASSUME KeyAssumption ==
    /\ Names \subseteq Saved /\ Saved \subseteq Key
    /\ Sanitized \in [Key -> Key]
    /\ Outer \in [Key -> Key]
    /\ Key \cap Prof = {}
    /\ NULL \notin Content \cup Key

ASSUME ModeAssumption ==
    /\ Prefix \in BOOLEAN
    /\ Faults \subseteq AllFaults

VARIABLES
    tmpl,    \* tmpl[t]: a row of config_templates
    remote,  \* remote[f]: file f at the head of the branch
    job,     \* job[j]: a goroutine of CommitTemplate or CommitProfile
    todo,    \* todo[y]: the files sync y has still to upsert, as it cloned them
    reliable \* neither a disk nor a command of git ever fails of itself

vars == <<tmpl, remote, job, todo, reliable>>

-----------------------------------------------------------------------------
File == Key \cup Prof

Opt(S) == S \cup {NULL}

(* The files of a commit; NULL for a file it does not have. *)
Tree == [File -> Opt(Content)]

EmptyTree == [f \in File |-> NULL]

NoFiles == [k \in Key |-> NULL]

(* A template without inline content is a file on the disk of the renderer. *)
Template == [key : Key, content : Opt(Content)]

NoTemplate == [key |-> NULL, content |-> NULL]

Live == {t \in Tid : tmpl[t] # NoTemplate}

(* A goroutine: the git command that comes next, the file and the content  *)
(* it was started with, the tree of its commit, and whether nobody has     *)
(* pushed since it cloned, so that its push is a fast-forward.             *)
JobState == [pc : {"clone", "push"}, file : File, content : Content,
             tree : Tree, ff : BOOLEAN]

Idle == [pc |-> "idle"]

TypeOK ==
    /\ tmpl \in [Tid -> Template \cup {NoTemplate}]
    /\ remote \in Tree
    /\ job \in [Job -> JobState \cup {Idle}]
    /\ todo \in [Syncer -> [Key -> Opt(Content)]]
    /\ reliable \in BOOLEAN

Init ==
    /\ tmpl = [t \in Tid |-> NoTemplate]
    /\ remote = EmptyTree
    /\ job = [j \in Job |-> Idle]
    /\ todo = [y \in Syncer |-> NoFiles]
    /\ reliable \in BOOLEAN

-----------------------------------------------------------------------------
(* Saving: the row, and the goroutine. *)

(* UNIQUE (vendor, os_type, name) *)
Free(k, t) == \A u \in Live \ {t} : tmpl[u].key # k

Started(f, c) ==
    [pc |-> "clone", file |-> f, content |-> c, tree |-> EmptyTree, ff |-> FALSE]

(* Mutant: a goroutine that does not look whether there is content. *)
StartAlways(j, f, c) ==
    job[j] = Idle /\ job' = [job EXCEPT ![j] = Started(f, c)]

(* Without inline content there is nothing to commit. *)
Start(j, f, c) ==
    \/ c = NULL /\ UNCHANGED job
    \/ c # NULL /\ job[j] = Idle /\ job' = [job EXCEPT ![j] = Started(f, c)]

(* Mutant: the vendor, the type and the name go into the path as they are. *)
CreateVerbatim(t, k, c, j) ==
    /\ t \notin Live
    /\ Free(k, t)
    /\ tmpl' = [tmpl EXCEPT ![t] = [key |-> k, content |-> c]]
    /\ Start(j, k, c)
    /\ UNCHANGED <<remote, todo, reliable>>

CreateTemplate(t, k, c, j) ==
    /\ t \notin Live
    /\ Free(k, t)
    /\ tmpl' = [tmpl EXCEPT ![t] = [key |-> k, content |-> c]]
    /\ Start(j, Sanitized[k], c)
    /\ UNCHANGED <<remote, todo, reliable>>

(* The form gives the row another name or leaves it the one it has, which  *)
(* a sync may have made up.                                                *)
UpdateTemplate(t, k, c, j) ==
    /\ t \in Live
    /\ k \in Names \cup {tmpl[t].key}
    /\ Free(k, t)
    /\ tmpl' = [tmpl EXCEPT ![t] = [key |-> k, content |-> c]]
    /\ Start(j, Sanitized[k], c)
    /\ UNCHANGED <<remote, todo, reliable>>

(* The row is gone, the UPDATE matches nothing, and the commit goes on.    *)
UpdateDeleted(k, c, j) ==
    /\ "stale" \in Faults
    /\ Start(j, Sanitized[k], c)
    /\ UNCHANGED <<tmpl, remote, todo, reliable>>

(* Deleting a template leaves its file. *)
DeleteTemplate(t) ==
    /\ t \in Live
    /\ tmpl' = [tmpl EXCEPT ![t] = NoTemplate]
    /\ UNCHANGED <<remote, job, todo, reliable>>

SaveProfile(p, c, j) ==
    /\ Start(j, p, c)
    /\ UNCHANGED <<tmpl, remote, todo, reliable>>

-----------------------------------------------------------------------------
(* The goroutine. *)

(* There is no room for a clone, or for the file in it. *)
Abandon(j) ==
    /\ ~reliable
    /\ job[j].pc = "clone"
    /\ job' = [job EXCEPT ![j] = Idle]
    /\ UNCHANGED <<tmpl, remote, todo, reliable>>

Cloned(j, tree, ff) ==
    LET s == job[j] IN
    /\ s.pc = "clone"
    /\ job' = [job EXCEPT ![j] =
                 IF tree[s.file] = s.content THEN Idle  \* nothing to commit
                 ELSE [s EXCEPT !.pc = "push", !.ff = ff,
                                !.tree = [tree EXCEPT ![s.file] = s.content]]]
    /\ UNCHANGED <<tmpl, remote, todo, reliable>>

(* Without a single push there is no branch to clone. *)
Born == remote # EmptyTree

CloneBranch(j) == Born /\ Cloned(j, remote, TRUE)

(* The clone fails, because there is no branch or for any other reason:    *)
(* the commit starts a history of its own.                                 *)
InitBranch(j) == (Born => ~reliable) /\ Cloned(j, EmptyTree, ~Born)

(* Mutant: git push --force. *)
AcceptsAny(s) == s.pc = "push"

(* The remote takes a push only when it is a fast-forward. *)
Accepts(s) == s.pc = "push" /\ s.ff

Outdated(s) == IF s.pc = "push" THEN [s EXCEPT !.ff = FALSE] ELSE s

Push(j) ==
    /\ Accepts(job[j])
    /\ remote' = job[j].tree
    /\ job' = [i \in Job |-> IF i = j THEN Idle ELSE Outdated(job[i])]
    /\ UNCHANGED <<tmpl, todo, reliable>>

(* The push is refused, or fails; the error is logged and the commit lost. *)
PushFails(j) ==
    /\ job[j].pc = "push"
    /\ Accepts(job[j]) => ~reliable
    /\ job' = [job EXCEPT ![j] = Idle]
    /\ UNCHANGED <<tmpl, remote, todo, reliable>>

(* Somebody else commits to the repository, to one of the same files. *)
Paths == {Sanitized[k] : k \in Names}

External(f, c) ==
    /\ "external" \in Faults
    /\ remote[f] # c
    /\ remote' = [remote EXCEPT ![f] = c]
    /\ job' = [i \in Job |-> Outdated(job[i])]
    /\ UNCHANGED <<tmpl, todo, reliable>>

-----------------------------------------------------------------------------
(* Sync from Git. *)

SyncStart(y) ==
    /\ todo[y] = NoFiles /\ Born
    /\ todo' = [todo EXCEPT ![y] = [k \in Key |-> remote[k]]]
    /\ UNCHANGED <<tmpl, remote, job, reliable>>

(* The key a file is read back as: its path below the prefix. *)
ReadAs(k) == IF Prefix THEN k ELSE Outer[k]

(* UpsertTemplate, in the row that has the key or in a new one. *)
SyncFile(y, k) ==
    LET r == [key |-> ReadAs(k), content |-> todo[y][k]] IN
    /\ todo[y][k] # NULL
    /\ todo' = [todo EXCEPT ![y][k] = NULL]
    /\ \E t \in Tid :
         /\ IF Free(r.key, NULL) THEN t \notin Live ELSE tmpl[t].key = r.key
         /\ tmpl' = [tmpl EXCEPT ![t] = r]
    /\ UNCHANGED <<remote, job, reliable>>

(* The file cannot be read, or its upsert fails: it is skipped. *)
SyncSkip(y, k) ==
    /\ "upsert" \in Faults
    /\ todo[y][k] # NULL
    /\ todo' = [todo EXCEPT ![y][k] = NULL]
    /\ UNCHANGED <<tmpl, remote, job, reliable>>

-----------------------------------------------------------------------------
Editing ==
    \/ \E j \in Job, t \in Tid, c \in Opt(Content) :
          \/ \E k \in Names : CreateTemplate(t, k, c, j)
          \/ \E k \in Saved : UpdateTemplate(t, k, c, j)
    \/ \E j \in Job, c \in Content :
          \/ \E k \in Names : UpdateDeleted(k, c, j)
          \/ \E p \in Prof : SaveProfile(p, c, j)
    \/ \E t \in Tid : DeleteTemplate(t)

Committing ==
    \E j \in Job :
        Abandon(j) \/ CloneBranch(j) \/ InitBranch(j) \/ Push(j) \/ PushFails(j)

Syncing ==
    \E y \in Syncer : SyncStart(y) \/ \E k \in Key : SyncFile(y, k) \/ SyncSkip(y, k)

Next ==
    \/ Editing \/ Committing \/ Syncing
    \/ \E f \in Paths \cup Prof, c \in Content : External(f, c)

Spec == Init /\ [][Next]_vars

-----------------------------------------------------------------------------
(* PROPERTIES *)

(* The history is linear: each push changes one file and removes none, so  *)
(* goroutines never undo one another's commits, though each pushes a tree  *)
(* it cloned before the others' pushes, or started from nothing.           *)
PushesKeepFiles ==
    [][/\ \A f, g \in File : f # g => remote'[f] = remote[f] \/ remote'[g] = remote[g]
       /\ \A f \in File : remote[f] # NULL => remote'[f] # NULL]_vars

Write(s) ==
    IF s = Idle THEN [file |-> NULL, content |-> NULL]
    ELSE [file |-> s.file, content |-> s.content]

Asked == [j \in Job |-> Write(job[j])]

Overtaken == {j \in Job : job[j].pc = "push" /\ ~Accepts(job[j])}

Repo == INSTANCE Repository WITH
          Saver      <- Job,
          Shared     <- "external" \in Faults,
          head       <- remote,
          asked      <- Asked,
          overtaken  <- Overtaken

(* The goroutines implement atomic saves: to clone, write, commit and push *)
(* is to write one file at the moment of the push, however many do so at   *)
(* once; and while nothing fails of itself, a save is only lost if another *)
(* write came between its clone and its push (git.go:86-145, 148-216).     *)
ImplementsRepository == Repo!Spec

(* The keys that saves and syncs may lead to from those given: every set   *)
(* that has the latter, and with a key what a sync reads its file back as. *)
Closed(X) == Names \subseteq X /\ \A k \in X : ReadAs(Sanitized[k]) \in X

Given == {k \in Key : \A X \in SUBSET Key : Closed(X) => k \in X}

(* The table holds the templates that operators have named and what a sync *)
(* makes of their files, of the files of those if they are saved again,    *)
(* and so on; no other.  (In general that is not what was named: see the   *)
(* README.)  Two syncs, failed and late commits, and saves in between add  *)
(* nothing to it (git.go:122-127, 249-281, 340-347).                       *)
SyncAddsNoOther == \A t \in Live : tmpl[t].key \in Given

-----------------------------------------------------------------------------
(* Inductive: what is about to be fast-forwarded is the head of the branch *)
(* with one file written.                                                  *)
FastForward ==
    \A j \in Job : Accepts(job[j]) =>
        job[j].tree = [remote EXCEPT ![job[j].file] = job[j].content]

IInv == TypeOK /\ FastForward

(* Inductive, for a closed set of keys: no other key is in the table or on *)
(* its way into it.                                                        *)
KeysWithin(X) ==
    /\ \A t \in Live : tmpl[t].key \in X
    /\ \A y \in Syncer, k \in Key : todo[y][k] # NULL => ReadAs(k) \in X
    /\ \A k \in Key : remote[k] # NULL => ReadAs(k) \in X
    /\ \A j \in Job : job[j] # Idle /\ job[j].file \in Key => ReadAs(job[j].file) \in X
=============================================================================
