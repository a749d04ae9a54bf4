------------------------------ MODULE MCGitSync ------------------------------
(* GitSync by default: git.template_path is blank.  Each key stands for a  *)
(* vendor, a type and a name:                                              *)
(*   named    cisco, ios-xe, Branch Office      what an operator gives     *)
(*   path     cisco, ios-xe, Branch-Office      its file                   *)
(*   nested   templates, cisco, ios-xe/Branch-Office       read back       *)
(*   spaced   what a file called just like the template would be read as.  *)
(* The last two are not saved again: what they lead to is left out.        *)
EXTENDS GitSync, TLC

CONSTANTS named, path, nested, spaced

Hyphenated == named :> path @@ [k \in Key |-> k]

FromRoot == named :> spaced @@ path :> nested @@ [k \in Key |-> k]

(* No definition tells two ids, jobs, syncs or contents apart. *)
Symmetry == UNION {Permutations(S) : S \in {Tid, Job, Syncer, Content}}
=============================================================================
