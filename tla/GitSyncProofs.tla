---------------------------- MODULE GitSyncProofs ----------------------------
(***************************************************************************)
(* The history of the repository is linear, for every set of files,        *)
(* contents and goroutines: a goroutine that may push holds the head of    *)
(* the branch with one file written (FastForward), however many others     *)
(* have cloned, committed or been refused meanwhile.                       *)
(***************************************************************************)
EXTENDS GitSync, TLAPS

-----------------------------------------------------------------------------
LEMMA Null == NULL \notin Content /\ NULL \notin Key
BY KeyAssumption

LEMMA FileOf ==
    ASSUME NEW k \in Key
    PROVE  ReadAs(k) \in Key /\ Sanitized[k] \in File
BY KeyAssumption DEF ReadAs, File

LEMMA FilesWritten == Paths \cup Prof \subseteq File
BY KeyAssumption DEF Paths, File

(* Nothing but a goroutine has a git command to run. *)
LEMMA Running ==
    ASSUME TypeOK, NEW j \in Job, job[j].pc \in {"clone", "push"}
    PROVE  job[j] \in JobState
<1>1. Idle.pc = "idle"
  BY DEF Idle
<1> QED
  BY <1>1 DEF TypeOK

(* A goroutine that is idle or about to clone pushes nothing. *)
LEMMA NothingToPush ==
    /\ ~Accepts(Idle)
    /\ \A f, c : ~Accepts(Started(f, c))
BY DEF Accepts, Idle, Started

(* When the head moves, nobody can push any more. *)
LEMMA OutdatedJob ==
    ASSUME NEW s \in JobState \cup {Idle}
    PROVE  Outdated(s) \in JobState \cup {Idle} /\ ~Accepts(Outdated(s))
<1>1. CASE s = Idle
  BY <1>1 DEF Outdated, Idle, Accepts
<1>2. CASE s \in JobState
  BY <1>2 DEF Outdated, JobState, Accepts
<1> QED
  BY <1>1, <1>2

(* One file written makes a tree of a tree. *)
LEMMA Written ==
    ASSUME NEW tree \in Tree, NEW f \in File, NEW c \in Content
    PROVE  [tree EXCEPT ![f] = c] \in Tree
BY DEF Tree, Opt

-----------------------------------------------------------------------------
(* What a save does to the goroutines. *)

LEMMA StartOK ==
    ASSUME TypeOK, FastForward, remote' = remote,
           NEW j \in Job, NEW f \in File, NEW c \in Opt(Content), Start(j, f, c)
    PROVE  job' \in [Job -> JobState \cup {Idle}] /\ FastForward'
<1>1. CASE UNCHANGED job
  BY <1>1 DEF TypeOK, FastForward, Accepts
<1>2. CASE c # NULL /\ job' = [job EXCEPT ![j] = Started(f, c)]
  <2>1. EmptyTree \in Tree
    BY DEF EmptyTree, Tree, Opt
  <2>2. Started(f, c) \in JobState
    BY <1>2, <2>1 DEF Started, JobState, Opt
  <2>3. job' \in [Job -> JobState \cup {Idle}]
    BY <1>2, <2>2 DEF TypeOK
  <2>4. ASSUME NEW i \in Job, Accepts(job'[i])
        PROVE  job'[i].tree = [remote' EXCEPT ![job'[i].file] = job'[i].content]
    <3>1. i # j
      BY <1>2, <2>4, NothingToPush DEF TypeOK
    <3>2. job'[i] = job[i]
      BY <1>2, <3>1 DEF TypeOK
    <3> QED
      BY <2>4, <3>2 DEF FastForward
  <2> QED
    BY <2>3, <2>4 DEF FastForward
<1> QED
  BY <1>1, <1>2 DEF Start

LEMMA ClonedOK ==
    ASSUME TypeOK, FastForward, NEW j \in Job, NEW tree \in Tree,
           NEW ff \in BOOLEAN, ff => tree = remote, Cloned(j, tree, ff)
    PROVE  TypeOK' /\ FastForward'
<1> DEFINE s == job[j]
           new == IF tree[s.file] = s.content THEN Idle
                  ELSE [s EXCEPT !.pc = "push", !.ff = ff,
                                 !.tree = [tree EXCEPT ![s.file] = s.content]]
<1>1. s \in JobState
  BY Running DEF Cloned
<1>2. job' = [job EXCEPT ![j] = new] /\ UNCHANGED <<tmpl, remote, todo, reliable>>
  BY DEF Cloned
<1>3. s.file \in File /\ s.content \in Content
  BY <1>1 DEF JobState
<1>4. [tree EXCEPT ![s.file] = s.content] \in Tree
  BY <1>3, Written
<1>5. new \in JobState \cup {Idle}
  BY <1>1, <1>4 DEF JobState
<1>6. ASSUME Accepts(new)
      PROVE  new.tree = [remote EXCEPT ![new.file] = new.content]
  <2>1. new # Idle
    BY <1>6, NothingToPush
  <2>2. new = [s EXCEPT !.pc = "push", !.ff = ff,
                        !.tree = [tree EXCEPT ![s.file] = s.content]]
    BY <2>1
  <2>3. /\ new.ff = ff /\ new.file = s.file /\ new.content = s.content
        /\ new.tree = [tree EXCEPT ![s.file] = s.content]
    BY <1>1, <2>2 DEF JobState
  <2> QED
    BY <1>6, <2>3 DEF Accepts
<1>7. job' \in [Job -> JobState \cup {Idle}]
  BY <1>2, <1>5 DEF TypeOK
<1>8. TypeOK'
  BY <1>2, <1>7 DEF TypeOK
<1>9. ASSUME NEW i \in Job, Accepts(job'[i])
      PROVE  job'[i].tree = [remote' EXCEPT ![job'[i].file] = job'[i].content]
  <2>1. CASE i = j
    BY <1>2, <1>6, <1>9, <2>1 DEF TypeOK
  <2>2. CASE i # j
    <3>1. job'[i] = job[i]
      BY <1>2, <2>2 DEF TypeOK
    <3> QED
      BY <1>2, <1>9, <3>1 DEF FastForward
  <2> QED
    BY <2>1, <2>2
<1> QED
  BY <1>8, <1>9 DEF FastForward

-----------------------------------------------------------------------------
(* The invariant. *)

LEMMA InitOK == Init => IInv
<1> SUFFICES ASSUME Init PROVE IInv
  OBVIOUS
<1>1. EmptyTree \in Tree
  BY DEF EmptyTree, Tree, Opt
<1>2. TypeOK
  BY <1>1 DEF Init, TypeOK, NoFiles, Opt
<1>3. FastForward
  BY NothingToPush DEF Init, FastForward
<1> QED
  BY <1>2, <1>3 DEF IInv

LEMMA SaveOK ==
    ASSUME IInv,
           NEW t \in Tid, NEW k \in Key, NEW c \in Opt(Content), NEW j \in Job,
           CreateTemplate(t, k, c, j) \/ UpdateTemplate(t, k, c, j)
    PROVE  IInv'
<1>1. /\ tmpl' = [tmpl EXCEPT ![t] = [key |-> k, content |-> c]]
      /\ UNCHANGED <<remote, todo, reliable>>
      /\ Start(j, Sanitized[k], c)
  BY DEF CreateTemplate, UpdateTemplate
<1>2. job' \in [Job -> JobState \cup {Idle}] /\ FastForward'
  BY <1>1, FileOf, StartOK DEF IInv
<1>3. [key |-> k, content |-> c] \in Template
  BY DEF Template
<1> QED
  BY <1>1, <1>2, <1>3 DEF IInv, TypeOK

LEMMA EditingOK == IInv /\ Editing => IInv'
<1> SUFFICES ASSUME IInv, Editing PROVE IInv'
  OBVIOUS
<1>1. ASSUME NEW j \in Job, NEW t \in Tid, NEW k \in Key, NEW c \in Opt(Content),
             CreateTemplate(t, k, c, j) \/ UpdateTemplate(t, k, c, j)
      PROVE  IInv'
  BY <1>1, SaveOK
<1>2. ASSUME NEW j \in Job, NEW c \in Content, NEW k \in Names,
             UpdateDeleted(k, c, j)
      PROVE  IInv'
  <2>1. Start(j, Sanitized[k], c) /\ UNCHANGED <<tmpl, remote, todo, reliable>>
    BY <1>2 DEF UpdateDeleted
  <2>2. job' \in [Job -> JobState \cup {Idle}] /\ FastForward'
    BY <2>1, FileOf, StartOK, KeyAssumption DEF IInv, Opt
  <2> QED
    BY <2>1, <2>2 DEF IInv, TypeOK
<1>3. ASSUME NEW j \in Job, NEW c \in Content, NEW p \in Prof,
             SaveProfile(p, c, j)
      PROVE  IInv'
  <2>1. Start(j, p, c) /\ UNCHANGED <<tmpl, remote, todo, reliable>>
    BY <1>3 DEF SaveProfile
  <2>2. job' \in [Job -> JobState \cup {Idle}] /\ FastForward'
    BY <2>1, StartOK DEF IInv, Opt, File
  <2> QED
    BY <2>1, <2>2 DEF IInv, TypeOK
<1>4. ASSUME NEW t \in Tid, DeleteTemplate(t)
      PROVE  IInv'
  BY <1>4 DEF DeleteTemplate, IInv, TypeOK, FastForward, Accepts
<1> QED
  BY <1>1, <1>2, <1>3, <1>4, KeyAssumption DEF Editing

LEMMA PushOK ==
    ASSUME IInv, NEW j \in Job, Push(j)
    PROVE  IInv'
<1>1. /\ remote' = job[j].tree /\ UNCHANGED <<tmpl, todo, reliable>>
      /\ job' = [i \in Job |-> IF i = j THEN Idle ELSE Outdated(job[i])]
      /\ job[j].pc = "push"
  BY DEF Push, Accepts
<1>2. remote' \in Tree
  BY <1>1, Running DEF IInv, JobState
<1>3. \A i \in Job : job'[i] \in JobState \cup {Idle} /\ ~Accepts(job'[i])
  BY <1>1, OutdatedJob, NothingToPush DEF IInv, TypeOK
<1>4. job' \in [Job -> JobState \cup {Idle}]
  BY <1>1, <1>3
<1>5. TypeOK'
  BY <1>1, <1>2, <1>4 DEF IInv, TypeOK
<1>6. FastForward'
  BY <1>3 DEF FastForward
<1> QED
  BY <1>5, <1>6 DEF IInv

LEMMA DropOK ==
    ASSUME IInv, NEW j \in Job, PushFails(j) \/ Abandon(j)
    PROVE  IInv'
<1>1. job' = [job EXCEPT ![j] = Idle] /\ UNCHANGED <<tmpl, remote, todo, reliable>>
  BY DEF PushFails, Abandon
<1>2. TypeOK'
  BY <1>1 DEF IInv, TypeOK
<1>3. ASSUME NEW i \in Job, Accepts(job'[i])
      PROVE  job'[i] = job[i]
  BY <1>1, <1>3, NothingToPush DEF IInv, TypeOK
<1>4. FastForward'
  BY <1>1, <1>3 DEF IInv, FastForward
<1> QED
  BY <1>2, <1>4 DEF IInv

LEMMA CommittingOK == IInv /\ Committing => IInv'
<1> SUFFICES ASSUME IInv, NEW j \in Job,
                    Abandon(j) \/ CloneBranch(j) \/ InitBranch(j) \/ Push(j) \/ PushFails(j)
             PROVE  IInv'
  BY DEF Committing
<1>1. CASE CloneBranch(j)
  <2>1. Cloned(j, remote, TRUE)
    BY <1>1 DEF CloneBranch
  <2>2. remote \in Tree
    BY DEF IInv, TypeOK
  <2> QED
    BY <2>1, <2>2, ClonedOK DEF IInv
<1>2. CASE InitBranch(j)
  <2>1. Cloned(j, EmptyTree, ~Born)
    BY <1>2 DEF InitBranch
  <2>2. EmptyTree \in Tree
    BY DEF EmptyTree, Tree, Opt
  <2>3. ~Born => EmptyTree = remote
    BY DEF Born
  <2>4. (~Born) \in BOOLEAN
    BY DEF Born
  <2> QED
    BY <2>1, <2>2, <2>3, <2>4, ClonedOK DEF IInv
<1> QED
  BY <1>1, <1>2, PushOK, DropOK

LEMMA SyncingOK == IInv /\ Syncing => IInv'
<1> SUFFICES ASSUME IInv, Syncing PROVE IInv'
  OBVIOUS
<1>1. ASSUME NEW y \in Syncer, SyncStart(y)
      PROVE  IInv'
  <2>1. [k \in Key |-> remote[k]] \in [Key -> Opt(Content)]
    BY DEF IInv, TypeOK, Tree, File
  <2>2. todo' \in [Syncer -> [Key -> Opt(Content)]]
    BY <1>1, <2>1 DEF SyncStart, IInv, TypeOK
  <2> QED
    BY <1>1, <2>2 DEF SyncStart, IInv, TypeOK, FastForward, Accepts
<1>2. ASSUME NEW y \in Syncer, NEW k \in Key, SyncFile(y, k)
      PROVE  IInv'
  <2> DEFINE r == [key |-> ReadAs(k), content |-> todo[y][k]]
  <2>1. PICK t \in Tid : tmpl' = [tmpl EXCEPT ![t] = r]
    BY <1>2 DEF SyncFile
  <2>2. /\ todo' \in [Syncer -> [Key -> Opt(Content)]]
        /\ UNCHANGED <<remote, job, reliable>>
    BY <1>2 DEF SyncFile, IInv, TypeOK, Opt
  <2>3. todo[y][k] \in Opt(Content)
    BY DEF IInv, TypeOK
  <2>4. r \in Template
    BY <2>3, FileOf DEF Template
  <2>5. tmpl' \in [Tid -> Template \cup {NoTemplate}]
    BY <2>1, <2>4 DEF IInv, TypeOK
  <2> QED
    BY <2>2, <2>5 DEF IInv, TypeOK, FastForward, Accepts
<1>3. ASSUME NEW y \in Syncer, NEW k \in Key, SyncSkip(y, k)
      PROVE  IInv'
  BY <1>3 DEF SyncSkip, IInv, TypeOK, FastForward, Accepts, Opt
<1> QED
  BY <1>1, <1>2, <1>3 DEF Syncing

LEMMA ExternalOK ==
    ASSUME IInv, NEW f \in File, NEW c \in Content, External(f, c)
    PROVE  IInv'
<1>1. /\ remote' = [remote EXCEPT ![f] = c]
      /\ job' = [i \in Job |-> Outdated(job[i])]
      /\ UNCHANGED <<tmpl, todo, reliable>>
  BY DEF External
<1>2. remote' \in Tree
  BY <1>1, Written DEF IInv, TypeOK
<1>3. \A i \in Job : job'[i] \in JobState \cup {Idle} /\ ~Accepts(job'[i])
  BY <1>1, OutdatedJob DEF IInv, TypeOK
<1>4. job' \in [Job -> JobState \cup {Idle}]
  BY <1>1, <1>3
<1>5. TypeOK'
  BY <1>1, <1>2, <1>4 DEF IInv, TypeOK
<1>6. FastForward'
  BY <1>3 DEF FastForward
<1> QED
  BY <1>5, <1>6 DEF IInv

LEMMA Step == IInv /\ [Next]_vars => IInv'
<1> SUFFICES ASSUME IInv, [Next]_vars PROVE IInv'
  OBVIOUS
<1>1. CASE UNCHANGED vars
  BY <1>1 DEF vars, IInv, TypeOK, FastForward, Accepts
<1>2. ASSUME NEW f \in Paths \cup Prof, NEW c \in Content, External(f, c)
      PROVE  IInv'
  BY <1>2, ExternalOK, FilesWritten
<1> QED
  BY <1>1, <1>2, EditingOK, CommittingOK, SyncingOK DEF Next

LEMMA Invariance == Spec => []IInv
BY InitOK, Step, PTL DEF Spec

-----------------------------------------------------------------------------
(* Every variable keeps its type: in particular a goroutine always has a   *)
(* content to write, file-backed templates never start one.                *)
THEOREM TypeCorrect == Spec => []TypeOK
<1>1. IInv => TypeOK
  BY DEF IInv
<1> QED
  BY <1>1, Invariance, PTL

-----------------------------------------------------------------------------
(* One file is written. *)
OneFile ==
    /\ \A f, g \in File : f # g => remote'[f] = remote[f] \/ remote'[g] = remote[g]
    /\ \A f \in File : remote[f] # NULL => remote'[f] # NULL

LEMMA WriteIsOneFile ==
    ASSUME remote \in Tree, NEW h \in File, NEW c \in Content,
           remote' = [remote EXCEPT ![h] = c]
    PROVE  OneFile
<1>1. \A f \in File : remote'[f] = IF f = h THEN c ELSE remote[f]
  BY DEF Tree
<1>2. c # NULL
  BY Null
<1> QED
  BY <1>1, <1>2 DEF OneFile

LEMMA PushWrites ==
    ASSUME IInv, NEW j \in Job, Push(j)
    PROVE  /\ job[j].file \in File
           /\ job[j].content \in Content
           /\ remote' = [remote EXCEPT ![job[j].file] = job[j].content]
<1>1. Accepts(job[j]) /\ remote' = job[j].tree
  BY DEF Push
<1>2. job[j] \in JobState
  BY <1>1, Running DEF Accepts, IInv
<1> QED
  BY <1>1, <1>2 DEF IInv, FastForward, JobState

(* No other step moves the branch. *)
LEMMA BranchStays ==
    ASSUME [Next]_vars,
           \A j \in Job : ~Push(j),
           \A f \in Paths \cup Prof, c \in Content : ~External(f, c)
    PROVE  remote' = remote
BY DEF Next, vars, Editing, CreateTemplate, UpdateTemplate, UpdateDeleted, SaveProfile,
       DeleteTemplate, Committing, Abandon, CloneBranch, InitBranch, Cloned, PushFails,
       Syncing, SyncStart, SyncFile, SyncSkip

(* The history is linear: however the goroutines overlap, a push that the  *)
(* remote takes writes one file and undoes no other commit.                *)
THEOREM LinearHistory == Spec => PushesKeepFiles
<1>1. ASSUME IInv, [Next]_vars
      PROVE  OneFile
  <2>1. ASSUME NEW j \in Job, Push(j)
        PROVE  OneFile
    BY <1>1, <2>1, PushWrites, WriteIsOneFile DEF IInv, TypeOK
  <2>2. ASSUME NEW f \in Paths \cup Prof, NEW c \in Content, External(f, c)
        PROVE  OneFile
    BY <1>1, <2>2, WriteIsOneFile, FilesWritten DEF IInv, TypeOK, External
  <2>3. CASE remote' = remote
    BY <2>3 DEF OneFile
  <2> QED
    BY <1>1, <2>1, <2>2, <2>3, BranchStays
<1>2. IInv /\ [Next]_vars
        => [/\ \A f, g \in File :
                  f # g => remote'[f] = remote[f] \/ remote'[g] = remote[g]
            /\ \A f \in File : remote[f] # NULL => remote'[f] # NULL]_vars
  BY <1>1 DEF OneFile
<1> QED
  BY <1>2, Invariance, PTL DEF Spec, PushesKeepFiles

-----------------------------------------------------------------------------
(* No step of a save, a commit or a sync leads out of a set of keys that   *)
(* is closed under saving and reading back.                                *)

(* A goroutine writes a file that is read back as one of the keys.         *)
Within(s, X) == s # Idle /\ s.file \in Key => ReadAs(s.file) \in X

LEMMA StartsWithin ==
    ASSUME IInv, NEW X, KeysWithin(X), NEW j \in Job, NEW f \in File, NEW c,
           f \in Key => ReadAs(f) \in X, Start(j, f, c)
    PROVE  \A i \in Job : Within(job'[i], X)
<1>1. CASE UNCHANGED job
  BY <1>1 DEF KeysWithin, Within
<1>2. CASE job' = [job EXCEPT ![j] = Started(f, c)]
  <2>1. Started(f, c).file = f
    BY DEF Started
  <2>2. Within(Started(f, c), X)
    BY <2>1 DEF Within
  <2> QED
    BY <1>2, <2>2 DEF KeysWithin, Within, IInv, TypeOK
<1> QED
  BY <1>1, <1>2 DEF Start

LEMMA ClonedWithin ==
    ASSUME IInv, NEW X, KeysWithin(X), NEW j \in Job, NEW tree, NEW ff, Cloned(j, tree, ff)
    PROVE  KeysWithin(X)'
<1> DEFINE s == job[j]
           new == IF tree[s.file] = s.content THEN Idle
                  ELSE [s EXCEPT !.pc = "push", !.ff = ff,
                                 !.tree = [tree EXCEPT ![s.file] = s.content]]
<1>1. s \in JobState /\ s # Idle
  BY Running DEF Cloned, IInv, Idle
<1>2. job' = [job EXCEPT ![j] = new] /\ UNCHANGED <<tmpl, remote, todo>>
  BY DEF Cloned
<1>3. new # Idle => new.file = s.file
  BY <1>1 DEF JobState
<1>4. Within(s, X)
  BY DEF KeysWithin, Within
<1>5. \A i \in Job : Within(job'[i], X)
  BY <1>1, <1>2, <1>3, <1>4 DEF KeysWithin, Within, IInv, TypeOK
<1> QED
  BY <1>2, <1>5 DEF KeysWithin, Within, Live

(* A file that may be written leaves the keys within.                      *)
LEMMA WriteWithin ==
    ASSUME remote \in Tree, NEW X, KeysWithin(X),
           NEW f \in File, f \in Key => ReadAs(f) \in X, NEW c,
           remote' = [remote EXCEPT ![f] = c]
    PROVE  \A k \in Key : remote'[k] # NULL => ReadAs(k) \in X
BY KeyAssumption DEF Tree, File, KeysWithin

LEMMA OutdatedWithin ==
    ASSUME NEW s \in JobState \cup {Idle}, NEW X, Within(s, X)
    PROVE  Within(Outdated(s), X)
<1>1. CASE s = Idle
  BY <1>1 DEF Outdated, Idle, Within
<1>2. CASE s \in JobState /\ s # Idle
  BY <1>2 DEF Outdated, JobState, Within
<1> QED
  BY <1>1, <1>2

LEMMA RowWithin ==
    ASSUME TypeOK, NEW X, \A t \in Live : tmpl[t].key \in X,
           NEW t \in Tid, NEW k \in X, NEW c,
           tmpl' = [tmpl EXCEPT ![t] = [key |-> k, content |-> c]]
    PROVE  (\A u \in Live : tmpl[u].key \in X)'
BY DEF Live, TypeOK

LEMMA InitWithin ==
    ASSUME NEW X, Init
    PROVE  KeysWithin(X)
BY DEF Init, KeysWithin, Live, EmptyTree, File, NoFiles

LEMMA EditingWithin ==
    ASSUME IInv, NEW X, Closed(X), KeysWithin(X), Editing
    PROVE  KeysWithin(X)'
<1>1. ASSUME NEW j \in Job, NEW t \in Tid, NEW k \in Key, k \in X, NEW c \in Opt(Content),
             CreateTemplate(t, k, c, j) \/ UpdateTemplate(t, k, c, j)
      PROVE  KeysWithin(X)'
  <2>1. /\ tmpl' = [tmpl EXCEPT ![t] = [key |-> k, content |-> c]]
        /\ UNCHANGED <<remote, todo>>
        /\ Start(j, Sanitized[k], c)
    BY <1>1 DEF CreateTemplate, UpdateTemplate
  <2>2. (\A u \in Live : tmpl[u].key \in X)'
    BY <1>1, <2>1, RowWithin DEF IInv, KeysWithin
  <2>3. \A i \in Job : Within(job'[i], X)
    BY <1>1, <2>1, StartsWithin, FileOf DEF Closed
  <2> QED
    BY <2>1, <2>2, <2>3 DEF KeysWithin, Within
<1>2. ASSUME NEW j \in Job, NEW f \in File, f \in Key => ReadAs(f) \in X, NEW c,
             Start(j, f, c), UNCHANGED <<tmpl, remote, todo>>
      PROVE  KeysWithin(X)'
  <2>1. \A i \in Job : Within(job'[i], X)
    BY <1>2, StartsWithin
  <2> QED
    BY <1>2, <2>1 DEF KeysWithin, Within, Live
<1>3. ASSUME NEW j \in Job, NEW t \in Tid, NEW k \in Names, NEW c \in Opt(Content),
             CreateTemplate(t, k, c, j)
      PROVE  KeysWithin(X)'
  BY <1>1, <1>3, KeyAssumption DEF Closed
<1>4. ASSUME NEW j \in Job, NEW t \in Tid, NEW k \in Saved, NEW c \in Opt(Content),
             UpdateTemplate(t, k, c, j)
      PROVE  KeysWithin(X)'
  <2>1. k \in Key /\ k \in X
    BY <1>4, KeyAssumption DEF UpdateTemplate, Closed, KeysWithin
  <2> QED
    BY <1>1, <1>4, <2>1
<1>5. ASSUME NEW j \in Job, NEW c \in Content, NEW k \in Names,
             UpdateDeleted(k, c, j)
      PROVE  KeysWithin(X)'
  <2>1. k \in Key /\ k \in X
    BY KeyAssumption DEF Closed
  <2>2. Sanitized[k] \in File /\ ReadAs(Sanitized[k]) \in X
    BY <2>1, FileOf DEF Closed
  <2> QED
    BY <1>2, <1>5, <2>2 DEF UpdateDeleted
<1>6. ASSUME NEW j \in Job, NEW c \in Content, NEW p \in Prof,
             SaveProfile(p, c, j)
      PROVE  KeysWithin(X)'
  <2>1. p \in File /\ p \notin Key
    BY KeyAssumption DEF File
  <2> QED
    BY <1>2, <1>6, <2>1 DEF SaveProfile
<1>7. ASSUME NEW t \in Tid, DeleteTemplate(t)
      PROVE  KeysWithin(X)'
  BY <1>7 DEF DeleteTemplate, KeysWithin, Live, IInv, TypeOK
<1> QED
  BY <1>3, <1>4, <1>5, <1>6, <1>7 DEF Editing

LEMMA PushWithin ==
    ASSUME IInv, NEW X, KeysWithin(X), NEW j \in Job, Push(j)
    PROVE  KeysWithin(X)'
<1>1. /\ UNCHANGED <<tmpl, todo>> /\ job[j].pc = "push"
      /\ job' = [i \in Job |-> IF i = j THEN Idle ELSE Outdated(job[i])]
  BY DEF Push, Accepts
<1>2. job[j].file \in Key => ReadAs(job[j].file) \in X
  BY <1>1 DEF KeysWithin, Idle
<1>3. \A k \in Key : remote'[k] # NULL => ReadAs(k) \in X
  BY <1>2, PushWrites, WriteWithin DEF IInv, TypeOK
<1>4. \A i \in Job : Within(job[i], X) /\ Within(Idle, X)
  BY DEF KeysWithin, Within
<1>5. \A i \in Job : Within(job'[i], X)
  BY <1>1, <1>4, OutdatedWithin DEF IInv, TypeOK
<1> QED
  BY <1>1, <1>3, <1>5 DEF KeysWithin, Within, Live

LEMMA CommittingWithin ==
    ASSUME IInv, NEW X, KeysWithin(X), Committing
    PROVE  KeysWithin(X)'
<1> SUFFICES ASSUME NEW j \in Job,
                    Abandon(j) \/ CloneBranch(j) \/ InitBranch(j) \/ Push(j) \/ PushFails(j)
             PROVE  KeysWithin(X)'
  BY DEF Committing
<1>1. CASE CloneBranch(j)
  BY <1>1, ClonedWithin DEF CloneBranch
<1>2. CASE InitBranch(j)
  BY <1>2, ClonedWithin DEF InitBranch
<1>3. CASE PushFails(j) \/ Abandon(j)
  BY <1>3 DEF PushFails, Abandon, KeysWithin, Live, IInv, TypeOK
<1> QED
  BY <1>1, <1>2, <1>3, PushWithin

LEMMA SyncingWithin ==
    ASSUME IInv, NEW X, KeysWithin(X), Syncing
    PROVE  KeysWithin(X)'
<1>1. ASSUME NEW y \in Syncer, SyncStart(y)
      PROVE  KeysWithin(X)'
  <2>1. /\ todo' = [todo EXCEPT ![y] = [k \in Key |-> remote[k]]]
        /\ UNCHANGED <<tmpl, remote, job>>
    BY <1>1 DEF SyncStart
  <2>2. \A z \in Syncer, k \in Key : todo'[z][k] \in {todo[z][k], remote[k]}
    BY <2>1 DEF IInv, TypeOK
  <2> QED
    BY <2>1, <2>2 DEF KeysWithin, Live
<1>2. ASSUME NEW y \in Syncer, NEW k \in Key, todo' = [todo EXCEPT ![y][k] = NULL]
      PROVE  \A z \in Syncer, i \in Key : todo'[z][i] # NULL => ReadAs(i) \in X
  <2>1. \A z \in Syncer, i \in Key : todo'[z][i] \in {todo[z][i], NULL}
    BY <1>2 DEF IInv, TypeOK
  <2> QED
    BY <2>1 DEF KeysWithin
<1>3. ASSUME NEW y \in Syncer, NEW k \in Key, SyncFile(y, k)
      PROVE  KeysWithin(X)'
  <2>1. PICK t \in Tid :
           tmpl' = [tmpl EXCEPT ![t] = [key |-> ReadAs(k), content |-> todo[y][k]]]
    BY <1>3 DEF SyncFile
  <2>2. ReadAs(k) \in X
    BY <1>3 DEF SyncFile, KeysWithin
  <2>3. (\A u \in Live : tmpl[u].key \in X)'
    BY <2>1, <2>2, RowWithin DEF IInv, KeysWithin
  <2>4. todo' = [todo EXCEPT ![y][k] = NULL] /\ UNCHANGED <<remote, job>>
    BY <1>3 DEF SyncFile
  <2> QED
    BY <1>2, <2>3, <2>4 DEF KeysWithin
<1>4. ASSUME NEW y \in Syncer, NEW k \in Key, SyncSkip(y, k)
      PROVE  KeysWithin(X)'
  <2>1. todo' = [todo EXCEPT ![y][k] = NULL] /\ UNCHANGED <<tmpl, remote, job>>
    BY <1>4 DEF SyncSkip
  <2> QED
    BY <1>2, <2>1 DEF KeysWithin, Live
<1> QED
  BY <1>1, <1>3, <1>4 DEF Syncing

LEMMA ExternalWithin ==
    ASSUME IInv, NEW X, Closed(X), KeysWithin(X),
           NEW f \in Paths \cup Prof, NEW c \in Content, External(f, c)
    PROVE  KeysWithin(X)'
<1>1. /\ UNCHANGED <<tmpl, todo>>
      /\ remote' = [remote EXCEPT ![f] = c]
      /\ job' = [i \in Job |-> Outdated(job[i])]
  BY DEF External
<1>2. f \in File /\ (f \in Key => ReadAs(f) \in X)
  BY FilesWritten, KeyAssumption DEF Paths, Closed
<1>3. \A k \in Key : remote'[k] # NULL => ReadAs(k) \in X
  BY <1>1, <1>2, WriteWithin DEF IInv, TypeOK
<1>4. \A i \in Job : Within(job[i], X)
  BY DEF KeysWithin, Within
<1>5. \A i \in Job : Within(job'[i], X)
  BY <1>1, <1>4, OutdatedWithin DEF IInv, TypeOK
<1> QED
  BY <1>1, <1>3, <1>5 DEF KeysWithin, Within, Live

LEMMA StepWithin ==
    ASSUME NEW X, Closed(X), IInv, KeysWithin(X), [Next]_vars
    PROVE  KeysWithin(X)'
<1>1. CASE UNCHANGED vars
  BY <1>1 DEF vars, KeysWithin, Live
<1> QED
  BY <1>1, EditingWithin, CommittingWithin, SyncingWithin, ExternalWithin DEF Next

LEMMA GivenIsClosed == Closed(Given)
<1>1. Names \subseteq Given
  BY KeyAssumption DEF Given, Closed
<1>2. ASSUME NEW k \in Given
      PROVE  ReadAs(Sanitized[k]) \in Given
  <2>1. k \in Key
    BY DEF Given
  <2>2. ReadAs(Sanitized[k]) \in Key
    BY <2>1, KeyAssumption DEF ReadAs
  <2>3. ASSUME NEW X \in SUBSET Key, Closed(X)
        PROVE  ReadAs(Sanitized[k]) \in X
    <3>1. k \in X
      BY <2>3 DEF Given
    <3> QED
      BY <2>3, <3>1 DEF Closed
  <2> QED
    BY <2>2, <2>3 DEF Given
<1> QED
  BY <1>1, <1>2 DEF Closed

(* Whatever git.template_path is and whatever names turn into in a path,   *)
(* the table holds what operators have named and what their files, and the *)
(* files of those, are read back as: no number of syncs at once, of late,  *)
(* refused or failed commits and of others' commits adds a template.       *)
THEOREM SyncsMakeNothingUp == Spec => []SyncAddsNoOther
<1>1. Init => IInv /\ KeysWithin(Given)
  BY InitOK, InitWithin
<1>2. IInv /\ KeysWithin(Given) /\ [Next]_vars => (IInv /\ KeysWithin(Given))'
  BY Step, StepWithin, GivenIsClosed
<1>3. KeysWithin(Given) => SyncAddsNoOther
  BY DEF KeysWithin, SyncAddsNoOther
<1> QED
  BY <1>1, <1>2, <1>3, PTL DEF Spec

-----------------------------------------------------------------------------
(* The goroutines are atomic saves.  A goroutine that may push holds the   *)
(* head with its file written, so that to push is to write that file; and  *)
(* one that may not was overtaken by a write after it had cloned.          *)

LEMMA SaveOf ==
    ASSUME TypeOK, NEW j \in Job
    PROVE  /\ Asked[j] = Write(job[j])
           /\ Repo!UnderWay(j) <=> job[j] # Idle
           /\ job[j] # Idle =>
                /\ job[j] \in JobState /\ job[j].file \in File /\ job[j].content \in Content
                /\ Asked[j] = [file |-> job[j].file, content |-> job[j].content]
                /\ Asked[j].file = job[j].file /\ Asked[j].content = job[j].content
<1>1. Asked[j] = Write(job[j])
  BY DEF Asked
<1>2. CASE job[j] = Idle
  BY <1>1, <1>2 DEF Repo!UnderWay, Repo!NoWrite, Write
<1>3. CASE job[j] # Idle
  <2>1. job[j] \in JobState /\ job[j].file \in File /\ job[j].content \in Content
    BY <1>3 DEF TypeOK, JobState
  <2>2. Asked[j] = [file |-> job[j].file, content |-> job[j].content]
    BY <1>1, <1>3 DEF Write
  <2>3. Asked[j].content # NULL
    BY <2>1, <2>2, Null
  <2>4. Asked[j] # Repo!NoWrite
    BY <2>3 DEF Repo!NoWrite
  <2>5. Asked[j].file = job[j].file /\ Asked[j].content = job[j].content
    BY <2>2
  <2> QED BY <1>1, <1>3, <2>1, <2>2, <2>4, <2>5 DEF Repo!UnderWay
<1> QED BY <1>2, <1>3

LEMMA BusyIsNotIdle ==
    ASSUME NEW s, s.pc \in {"clone", "push"}
    PROVE  s # Idle
BY DEF Idle

(* The saves under way when one goroutine goes on. *)
LEMMA SavesAfter ==
    ASSUME TypeOK, NEW j \in Job, NEW s, job' = [job EXCEPT ![j] = s]
    PROVE  /\ Asked' = [Asked EXCEPT ![j] = Write(s)]
           /\ s.pc # "push" \/ Accepts(s) => Overtaken' = Overtaken \ {j}
           /\ (s.pc # "push" \/ Accepts(s)) /\ j \notin Overtaken => Overtaken' = Overtaken
           /\ s.pc = "push" /\ ~Accepts(s) => Overtaken' = Overtaken \cup {j}
<1>1. /\ job \in [Job -> JobState \cup {Idle}] /\ job'[j] = s
      /\ \A i \in Job \ {j} : job'[i] = job[i]
  BY DEF TypeOK
<1>2. Asked' = [i \in Job |-> Write(job'[i])]
  BY DEF Asked, Write
<1>3. Asked' = [Asked EXCEPT ![j] = Write(s)]
  BY <1>1, <1>2 DEF Asked
<1>4. Overtaken' = {i \in Job : job'[i].pc = "push" /\ ~Accepts(job'[i])}
  BY DEF Overtaken, Accepts
<1>5. ASSUME s.pc # "push" \/ Accepts(s) PROVE Overtaken' = Overtaken \ {j}
  BY <1>1, <1>4, <1>5 DEF Overtaken
<1>6. ASSUME s.pc = "push", ~Accepts(s) PROVE Overtaken' = Overtaken \cup {j}
  BY <1>1, <1>4, <1>6 DEF Overtaken
<1>7. j \notin Overtaken => Overtaken \ {j} = Overtaken
  OBVIOUS
<1> QED BY <1>3, <1>5, <1>6, <1>7

(* When the head moves, all that were about to push come too late.         *)
LEMMA Outdates ==
    ASSUME NEW s \in JobState \cup {Idle}
    PROVE  /\ Write(Outdated(s)) = Write(s)
           /\ Outdated(s).pc = s.pc
<1>1. CASE s = Idle
  <2>1. Outdated(s) = s
    BY <1>1 DEF Outdated, Idle
  <2> QED BY <2>1
<1>2. CASE s \in JobState
  <2>1. /\ Outdated(s).pc = s.pc /\ Outdated(s).file = s.file
        /\ Outdated(s).content = s.content
    BY <1>2 DEF Outdated, JobState
  <2>2. s # Idle /\ Outdated(s) # Idle
    BY <1>2, <2>1, BusyIsNotIdle DEF JobState
  <2> QED BY <2>1, <2>2 DEF Write
<1> QED BY <1>1, <1>2

LEMMA Stutters ==
    ASSUME UNCHANGED <<remote, job, reliable>>
    PROVE  UNCHANGED Repo!rvars
BY DEF Repo!rvars, Asked, Write, Overtaken, Accepts

LEMMA StartAsks ==
    ASSUME TypeOK, UNCHANGED <<remote, reliable>>,
           NEW j \in Job, NEW f \in File, NEW c \in Opt(Content), Start(j, f, c)
    PROVE  [Repo!Next]_Repo!rvars
<1>1. CASE UNCHANGED job
  BY <1>1, Stutters
<1>2. CASE c # NULL /\ job[j] = Idle /\ job' = [job EXCEPT ![j] = Started(f, c)]
  <2>1. c \in Content
    BY <1>2 DEF Opt
  <2>2. Started(f, c) # Idle /\ Started(f, c).pc # "push"
    BY BusyIsNotIdle DEF Started
  <2>3. Write(Started(f, c)) = [file |-> f, content |-> c]
    BY <2>2 DEF Write, Started
  <2>4. Asked' = [Asked EXCEPT ![j] = [file |-> f, content |-> c]]
    BY <1>2, <2>3, SavesAfter
  <2>5. Overtaken' = Overtaken
    <3>1. j \notin Overtaken
      BY <1>2 DEF Overtaken, Idle
    <3> QED BY <1>2, <2>2, <3>1, SavesAfter
  <2>6. ~Repo!UnderWay(j)
    BY <1>2, SaveOf
  <2>7. Repo!Ask(j)
    BY <2>1, <2>4, <2>5, <2>6 DEF Repo!Ask
  <2> QED BY <2>7 DEF Repo!Next
<1> QED BY <1>1, <1>2 DEF Start

LEMMA EditingAsks == TypeOK /\ Editing => [Repo!Next]_Repo!rvars
<1> SUFFICES ASSUME TypeOK, Editing PROVE [Repo!Next]_Repo!rvars
  OBVIOUS
<1>1. ASSUME NEW j \in Job, NEW t \in Tid, NEW k \in Key, NEW c \in Opt(Content),
             CreateTemplate(t, k, c, j) \/ UpdateTemplate(t, k, c, j)
      PROVE  [Repo!Next]_Repo!rvars
  <2>1. Sanitized[k] \in File /\ Start(j, Sanitized[k], c) /\ UNCHANGED <<remote, reliable>>
    BY <1>1, FileOf DEF CreateTemplate, UpdateTemplate
  <2> QED BY <2>1, StartAsks
<1>2. ASSUME NEW j \in Job, NEW c \in Content, NEW k \in Names, UpdateDeleted(k, c, j)
      PROVE  [Repo!Next]_Repo!rvars
  <2>1. Sanitized[k] \in File /\ Start(j, Sanitized[k], c) /\ UNCHANGED <<remote, reliable>>
    BY <1>2, FileOf, KeyAssumption DEF UpdateDeleted
  <2> QED BY <2>1, StartAsks DEF Opt
<1>3. ASSUME NEW j \in Job, NEW c \in Content, NEW p \in Prof, SaveProfile(p, c, j)
      PROVE  [Repo!Next]_Repo!rvars
  <2>1. p \in File /\ Start(j, p, c) /\ UNCHANGED <<remote, reliable>>
    BY <1>3 DEF SaveProfile, File
  <2> QED BY <2>1, StartAsks DEF Opt
<1>4. ASSUME NEW t \in Tid, DeleteTemplate(t)
      PROVE  [Repo!Next]_Repo!rvars
  BY <1>4, Stutters DEF DeleteTemplate
<1> QED BY <1>1, <1>2, <1>3, <1>4, KeyAssumption DEF Editing

(* Where the file has the content already, the save is done at once.       *)
LEMMA CloneCommits ==
    ASSUME TypeOK, NEW j \in Job, CloneBranch(j)
    PROVE  [Repo!Next]_Repo!rvars
<1> DEFINE s == job[j]
           made == [s EXCEPT !.pc = "push", !.ff = TRUE,
                             !.tree = [remote EXCEPT ![s.file] = s.content]]
<1>1. s \in JobState /\ s # Idle /\ UNCHANGED <<remote, reliable>> /\ j \notin Overtaken
  BY Running, BusyIsNotIdle DEF CloneBranch, Cloned, Overtaken
<1>2. CASE remote[s.file] = s.content
  <2>1. job' = [job EXCEPT ![j] = Idle]
    BY <1>2 DEF CloneBranch, Cloned
  <2>2. Asked' = [Asked EXCEPT ![j] = Repo!NoWrite]
    <3>1. Write(Idle) = Repo!NoWrite
      BY DEF Write, Repo!NoWrite
    <3> QED BY <2>1, <3>1, SavesAfter
  <2>3. Overtaken' = Overtaken
    <3>1. Idle.pc # "push"
      BY DEF Idle
    <3> QED BY <1>1, <2>1, <3>1, SavesAfter
  <2>4. remote' = [remote EXCEPT ![Asked[j].file] = Asked[j].content]
    <3>1. Asked[j].file = s.file /\ Asked[j].content = s.content /\ s.file \in File
      BY <1>1, SaveOf
    <3>2. remote = [remote EXCEPT ![s.file] = s.content]
      BY <1>2, <3>1 DEF TypeOK, Tree
    <3> QED BY <1>1, <3>1, <3>2
  <2>5. \A r \in Overtaken : r \in Job \ {j} /\ Repo!UnderWay(r)
    <3>1. \A r \in Overtaken : r \in Job \ {j} /\ job[r] # Idle
      BY <1>1, BusyIsNotIdle DEF Overtaken
    <3> QED BY <3>1, SaveOf
  <2>6. Repo!UnderWay(j)
    BY <1>1, SaveOf
  <2>7. Repo!Commit(j)
    BY <1>1, <2>2, <2>3, <2>4, <2>5, <2>6 DEF Repo!Commit, Repo!Writes
  <2> QED BY <2>7 DEF Repo!Next
<1>3. CASE remote[s.file] # s.content
  <2>1. job' = [job EXCEPT ![j] = made]
    BY <1>3 DEF CloneBranch, Cloned
  <2>2. /\ made.pc = "push" /\ made.ff = TRUE
        /\ made.file = s.file /\ made.content = s.content
    BY <1>1 DEF JobState
  <2> HIDE DEF made
  <2>3. Write(made) = Write(s) /\ Accepts(made)
    BY <1>1, <2>2, BusyIsNotIdle DEF Write, Accepts
  <2>4. Asked' = Asked
    <3>1. Asked' = [Asked EXCEPT ![j] = Write(made)] /\ Asked[j] = Write(made)
      BY <2>1, <2>3, SavesAfter, SaveOf
    <3> QED BY <3>1 DEF Asked
  <2>5. Overtaken' = Overtaken
    BY <1>1, <2>1, <2>3, SavesAfter
  <2> QED BY <1>1, <2>4, <2>5 DEF Repo!rvars
<1> QED BY <1>2, <1>3

(* A history of its own is taken only while the repository has none.       *)
LEMMA InitStumbles ==
    ASSUME TypeOK, NEW j \in Job, InitBranch(j)
    PROVE  [Repo!Next]_Repo!rvars
<1> DEFINE s == job[j]
           made == [s EXCEPT !.pc = "push", !.ff = ~Born,
                             !.tree = [EmptyTree EXCEPT ![s.file] = s.content]]
<1>1. s \in JobState /\ s # Idle /\ UNCHANGED <<remote, reliable>> /\ j \notin Overtaken
  BY Running, BusyIsNotIdle DEF InitBranch, Cloned, Overtaken
<1>2. EmptyTree[s.file] # s.content
  BY <1>1, Null DEF JobState, EmptyTree
<1>3. job' = [job EXCEPT ![j] = made]
  BY <1>2 DEF InitBranch, Cloned
<1>4. /\ made.pc = "push" /\ made.ff = ~Born
      /\ made.file = s.file /\ made.content = s.content
  BY <1>1 DEF JobState
<1> HIDE DEF made
<1>5. Write(made) = Write(s)
  BY <1>1, <1>4, BusyIsNotIdle DEF Write
<1>6. Asked' = Asked
  <2>1. Asked' = [Asked EXCEPT ![j] = Write(made)] /\ Asked[j] = Write(made)
    BY <1>3, <1>5, SavesAfter, SaveOf
  <2> QED BY <2>1 DEF Asked
<1>7. CASE ~Born
  <2>1. Accepts(made)
    BY <1>4, <1>7 DEF Accepts
  <2>2. Overtaken' = Overtaken
    BY <1>1, <1>3, <2>1, SavesAfter
  <2> QED BY <1>1, <1>6, <2>2 DEF Repo!rvars
<1>8. CASE Born
  <2>1. ~Accepts(made)
    BY <1>4, <1>8 DEF Accepts
  <2>2. Overtaken' = Overtaken \cup {j}
    BY <1>1, <1>3, <1>4, <2>1, SavesAfter
  <2>3. ~reliable
    BY <1>8 DEF InitBranch
  <2>4. Repo!UnderWay(j)
    BY <1>1, SaveOf
  <2>5. Repo!Stumble(j)
    BY <1>1, <1>6, <2>2, <2>3, <2>4 DEF Repo!Stumble
  <2> QED BY <2>5 DEF Repo!Next
<1> QED BY <1>7, <1>8

(* What a write makes of the others. *)
LEMMA WriteOvertakes ==
    ASSUME TypeOK, NEW S \in SUBSET Job, Overtaken \subseteq S,
           \A i \in S : job'[i] = Outdated(job[i]),
           \A i \in Job \ S : job'[i] = Idle,
           job' \in [Job -> JobState \cup {Idle}]
    PROVE  /\ Overtaken \subseteq Overtaken'
           /\ \A r \in Overtaken' : r \in S /\ Repo!UnderWay(r)
           /\ Asked' = [i \in Job |-> IF i \in S THEN Asked[i] ELSE Repo!NoWrite]
<1>1. \A i \in Job : job[i] \in JobState \cup {Idle}
  BY DEF TypeOK
<1>2. Overtaken' = {i \in Job : job'[i].pc = "push" /\ ~Accepts(job'[i])}
  BY DEF Overtaken, Accepts
<1>3. \A i \in S : job'[i].pc = job[i].pc /\ ~Accepts(job'[i])
  BY <1>1, Outdates, OutdatedJob
<1>4. Overtaken' = {i \in S : job[i].pc = "push"}
  <2>1. \A i \in Job \ S : job'[i].pc # "push"
    BY DEF Idle
  <2> QED BY <1>2, <1>3, <2>1
<1>5. Overtaken \subseteq Overtaken'
  BY <1>4 DEF Overtaken
<1>6. \A r \in Overtaken' : r \in S /\ Repo!UnderWay(r)
  <2>1. \A r \in Overtaken' : r \in S /\ job[r] # Idle
    BY <1>4, BusyIsNotIdle
  <2> QED BY <2>1, SaveOf
<1>7. Asked' = [i \in Job |-> IF i \in S THEN Asked[i] ELSE Repo!NoWrite]
  <2>1. Asked' = [i \in Job |-> Write(job'[i])]
    BY DEF Asked, Write
  <2>2. \A i \in S : Write(job'[i]) = Asked[i]
    BY <1>1, Outdates DEF Asked
  <2>3. \A i \in Job \ S : Write(job'[i]) = Repo!NoWrite
    BY DEF Write, Repo!NoWrite
  <2> QED BY <2>1, <2>2, <2>3
<1> QED BY <1>5, <1>6, <1>7

LEMMA PushCommits ==
    ASSUME IInv, NEW j \in Job, Push(j)
    PROVE  [Repo!Next]_Repo!rvars
<1> DEFINE S == Job \ {j}
<1>1. /\ Accepts(job[j]) /\ UNCHANGED reliable
      /\ job' = [i \in Job |-> IF i = j THEN Idle ELSE Outdated(job[i])]
  BY DEF Push
<1>2. job[j] # Idle /\ j \notin Overtaken
  BY <1>1, NothingToPush DEF Overtaken
<1>3. remote' = [remote EXCEPT ![Asked[j].file] = Asked[j].content]
  <2>1. Asked[j].file = job[j].file /\ Asked[j].content = job[j].content
    BY <1>2, SaveOf DEF IInv
  <2> QED BY <2>1, PushWrites
<1>4. /\ Overtaken \subseteq Overtaken'
      /\ \A r \in Overtaken' : r \in S /\ Repo!UnderWay(r)
      /\ Asked' = [i \in Job |-> IF i \in S THEN Asked[i] ELSE Repo!NoWrite]
  <2>1. Overtaken \subseteq S
    BY <1>2 DEF Overtaken
  <2>2. (\A i \in S : job'[i] = Outdated(job[i])) /\ (\A i \in Job \ S : job'[i] = Idle)
    BY <1>1
  <2>3. job' \in [Job -> JobState \cup {Idle}]
    BY PushOK DEF IInv, TypeOK
  <2> QED BY <2>1, <2>2, <2>3, WriteOvertakes DEF IInv
<1>5. Asked' = [Asked EXCEPT ![j] = Repo!NoWrite]
  BY <1>4 DEF Asked
<1>6. Repo!UnderWay(j)
  BY <1>2, SaveOf DEF IInv
<1>7. Repo!Commit(j)
  BY <1>1, <1>2, <1>3, <1>4, <1>5, <1>6 DEF Repo!Commit, Repo!Writes
<1> QED BY <1>7 DEF Repo!Next

LEMMA ExternalWrites ==
    ASSUME IInv, NEW f \in File, NEW c \in Content, External(f, c)
    PROVE  [Repo!Next]_Repo!rvars
<1>1. /\ remote' = [remote EXCEPT ![f] = c] /\ UNCHANGED reliable
      /\ "external" \in Faults
      /\ job' = [i \in Job |-> Outdated(job[i])]
  BY DEF External
<1>2. /\ Overtaken \subseteq Overtaken'
      /\ \A r \in Overtaken' : r \in Job /\ Repo!UnderWay(r)
      /\ Asked' = [i \in Job |-> IF i \in Job THEN Asked[i] ELSE Repo!NoWrite]
  <2>1. job' \in [Job -> JobState \cup {Idle}]
    BY ExternalOK DEF IInv, TypeOK
  <2>2. Overtaken \subseteq Job /\ \A i \in Job : job'[i] = Outdated(job[i])
    BY <1>1 DEF Overtaken
  <2> QED BY <2>1, <2>2, WriteOvertakes DEF IInv
<1>3. Asked' = Asked
  BY <1>2 DEF Asked
<1>4. Repo!Other
  BY <1>1, <1>2, <1>3 DEF Repo!Other, Repo!Writes
<1> QED BY <1>4 DEF Repo!Next

LEMMA DropLoses ==
    ASSUME TypeOK, NEW j \in Job, PushFails(j) \/ Abandon(j)
    PROVE  [Repo!Next]_Repo!rvars
<1>1. /\ job' = [job EXCEPT ![j] = Idle] /\ UNCHANGED <<remote, reliable>>
      /\ job[j].pc \in {"clone", "push"}
  BY DEF PushFails, Abandon
<1>2. Repo!UnderWay(j)
  <2>1. job[j] # Idle
    BY <1>1, BusyIsNotIdle
  <2> QED BY <2>1, SaveOf
<1>3. Asked' = [Asked EXCEPT ![j] = Repo!NoWrite]
  <2>1. Write(Idle) = Repo!NoWrite
    BY DEF Write, Repo!NoWrite
  <2> QED BY <1>1, <2>1, SavesAfter
<1>4. Overtaken' = Overtaken \ {j}
  <2>1. Idle.pc # "push"
    BY DEF Idle
  <2> QED BY <1>1, <2>1, SavesAfter
<1>5. j \in Overtaken \/ ~reliable
  BY DEF PushFails, Abandon, Overtaken
<1>6. Repo!Lose(j)
  BY <1>1, <1>2, <1>3, <1>4, <1>5 DEF Repo!Lose
<1> QED BY <1>6 DEF Repo!Next

(* The goroutines implement the atomic saves of Repository, for any number *)
(* of them, of files and of others who write: a save is written once, at   *)
(* its push, and where nothing fails it is lost only to another write      *)
(* (git.go:86-145, 148-216).                                               *)
THEOREM SavesAreAtomic == Spec => ImplementsRepository
<1>1. Init => Repo!Init
  <2> SUFFICES ASSUME Init PROVE Repo!Init
    OBVIOUS
  <2>1. remote = [f \in File |-> NULL]
    BY DEF Init, EmptyTree
  <2>2. Asked = [j \in Job |-> Repo!NoWrite]
    BY DEF Init, Asked, Write, Repo!NoWrite
  <2>3. Overtaken = {}
    BY DEF Init, Overtaken, Idle
  <2> QED BY <2>1, <2>2, <2>3 DEF Init, Repo!Init
<1>2. IInv /\ [Next]_vars => [Repo!Next]_Repo!rvars
  <2> SUFFICES ASSUME IInv, [Next]_vars PROVE [Repo!Next]_Repo!rvars
    OBVIOUS
  <2>1. CASE UNCHANGED vars
    BY <2>1, Stutters DEF vars
  <2>2. CASE Editing
    BY <2>2, EditingAsks DEF IInv
  <2>3. CASE Committing
    BY <2>3, CloneCommits, InitStumbles, PushCommits, DropLoses DEF Committing, IInv
  <2>4. CASE Syncing
    BY <2>4, Stutters DEF Syncing, SyncStart, SyncFile, SyncSkip
  <2>5. ASSUME NEW f \in Paths \cup Prof, NEW c \in Content, External(f, c)
        PROVE  [Repo!Next]_Repo!rvars
    BY <2>5, ExternalWrites, FilesWritten
  <2> QED BY <2>1, <2>2, <2>3, <2>4, <2>5 DEF Next
<1> QED BY <1>1, <1>2, Invariance, PTL DEF Spec, ImplementsRepository, Repo!Spec
=============================================================================
