------------------------- MODULE ProvisioningProofs -------------------------
(***************************************************************************)
(* The safety properties of Provisioning, for any number of boxes,         *)
(* requests, forms and profiles: what the statements of DeviceTable keep,  *)
(* the invariants, the registration of a box, the refinement of            *)
(* ZeroTouch, and what the convergence of a box needs of fairness.         *)
(***************************************************************************)
EXTENDS Provisioning, TLAPS

-----------------------------------------------------------------------------
(* DeviceTable: a statement maps a table that meets the constraints to one *)
(* that does.                                                              *)

LEMMA NoRowNotRow == NoRow \notin Row
BY DEF NoRow, Row, Status, Spelling

(* A row that violates no constraint may be written at an id. *)
LEMMA PutOK ==
    ASSUME NEW tbl \in Table, NEW profs, TableOK(tbl, profs),
           NEW i \in Id, NEW r \in Row, Admits(tbl, profs, i, r)
    PROVE  /\ [tbl EXCEPT ![i] = r] \in Table
           /\ TableOK([tbl EXCEPT ![i] = r], profs)
<1> DEFINE new == [tbl EXCEPT ![i] = r]
<1>1. new \in Table
  BY DEF Table
<1>2. \A j \in Id : new[j] = IF j = i THEN r ELSE tbl[j]
  BY DEF Table
<1>3. Live(new) = Live(tbl) \cup {i}
  BY <1>2, NoRowNotRow DEF Live
<1>4. ASSUME NEW j \in Live(new)
      PROVE  /\ Identified(new[j])
             /\ new[j].profile \in Opt(profs)
             /\ \A k \in Live(new) : Clash(new[k], new[j]) => j = k
  <2>1. CASE j = i
    <3>1. \A k \in Live(tbl) \ {i} : ~Clash(tbl[k], r)
      BY DEF Admits
    <3>2. ASSUME NEW k \in Live(new), Clash(new[k], new[j]) PROVE j = k
      BY <1>2, <1>3, <2>1, <3>1, <3>2 DEF Live
    <3> QED BY <1>2, <2>1, <3>2 DEF Admits
  <2>2. CASE j # i
    <3>1. j \in Live(tbl) /\ new[j] = tbl[j]
      BY <1>2, <1>3, <2>2 DEF Live
    <3>2. ASSUME NEW k \in Live(new), Clash(new[k], new[j]) PROVE j = k
      <4>1. CASE k = i
        <5>1. Clash(tbl[j], r)
          BY <1>2, <3>1, <3>2, <4>1 DEF Clash
        <5> QED BY <2>2, <3>1, <5>1 DEF Admits
      <4>2. CASE k # i
        BY <1>2, <1>3, <3>1, <3>2, <4>2 DEF Live, TableOK
      <4> QED BY <4>1, <4>2
    <3> QED BY <3>1, <3>2 DEF TableOK
  <2> QED BY <2>1, <2>2
<1> QED BY <1>1, <1>4 DEF TableOK

(* The constraints look at a row's identifiers and profile only. *)
LEMMA StoredAdmits ==
    ASSUME NEW tbl, NEW profs, NEW i, NEW r \in Row
    PROVE  /\ Stored(r) \in Row
           /\ Admits(tbl, profs, i, r) => Admits(tbl, profs, i, Stored(r))
BY DEF Stored, Row, Status, Spelling, Admits, Identified, Clash

LEMMA InsertOK ==
    ASSUME NEW tbl \in Table, NEW profs, TableOK(tbl, profs),
           NEW i \in Id, tbl[i] = NoRow,
           NEW r \in Row, Admits(tbl, profs, NULL, r)
    PROVE  Insert(tbl, i, r) \in Table /\ TableOK(Insert(tbl, i, r), profs)
<1>1. Admits(tbl, profs, i, r)
  BY NullAssumption DEF Admits, Live
<1> QED BY <1>1, StoredAdmits, PutOK DEF Insert

LEMMA OverwriteOK ==
    ASSUME NEW tbl \in Table, NEW profs, TableOK(tbl, profs),
           NEW i, NEW r, i \in Live(tbl) => r \in Row \cup {NoRow}
    PROVE  /\ Overwrite(tbl, profs, i, r) \in Table
           /\ TableOK(Overwrite(tbl, profs, i, r), profs)
<1>1. CASE i \in Live(tbl) /\ Admits(tbl, profs, i, r)
  <2>1. r \in Row
    BY <1>1 DEF Admits, Identified, NoRow
  <2> QED BY <1>1, <2>1, PutOK DEF Overwrite, Live
<1>2. CASE ~(i \in Live(tbl) /\ Admits(tbl, profs, i, r))
  BY <1>2 DEF Overwrite
<1> QED BY <1>1, <1>2

LEMMA EraseOK ==
    ASSUME NEW tbl \in Table, NEW profs, TableOK(tbl, profs), NEW i \in Id
    PROVE  Erase(tbl, i) \in Table /\ TableOK(Erase(tbl, i), profs)
<1>1. Erase(tbl, i) \in Table
  BY DEF Erase, Table
<1>2. \A j \in Live(Erase(tbl, i)) : j \in Live(tbl) /\ Erase(tbl, i)[j] = tbl[j]
  BY DEF Erase, Live, Table
<1> QED BY <1>1, <1>2 DEF TableOK

LEMMA UnassignOK ==
    ASSUME NEW tbl \in Table, NEW profs, TableOK(tbl, profs), NEW p
    PROVE  /\ Unassign(tbl, p) \in Table
           /\ TableOK(Unassign(tbl, p), profs \ {p})
<1> DEFINE new == Unassign(tbl, p)
<1>1. \A j \in Id :
        /\ new[j] \in Row \cup {NoRow}
        /\ new[j] = NoRow => tbl[j] = NoRow
        /\ tbl[j] = NoRow => new[j] = NoRow
        /\ new[j].serial = tbl[j].serial /\ new[j].spelt = tbl[j].spelt
        /\ new[j].mac = tbl[j].mac
        /\ new[j].profile = IF tbl[j].profile = p THEN NULL ELSE tbl[j].profile
  <2> TAKE j \in Id
  <2>1. tbl[j] \in Row \cup {NoRow}
    BY DEF Table
  <2>2. new[j] = IF j \in Live(tbl) /\ tbl[j].profile = p
                 THEN [tbl[j] EXCEPT !.profile = NULL] ELSE tbl[j]
    BY DEF Unassign
  <2>3. CASE tbl[j] = NoRow
    BY <2>2, <2>3 DEF Live, NoRow
  <2>4. CASE tbl[j] \in Row
    BY <2>2, <2>4, NoRowNotRow DEF Row, Opt, Live
  <2> QED BY <2>1, <2>3, <2>4
<1>2. new \in Table
  BY <1>1 DEF Table, Unassign
<1>3. Live(new) = Live(tbl)
  BY <1>1 DEF Live
<1> HIDE DEF new
<1>4. TableOK(new, profs \ {p})
  <2>1. \A j \in Live(new) : j \in Id /\ j \in Live(tbl)
    BY <1>3 DEF Live
  <2> QED BY <1>1, <1>3, <2>1 DEF TableOK, Identified, Clash, Opt
<1> QED BY <1>2, <1>4 DEF new

(* Profiles may be added under a table. *)
LEMMA MoreProfiles ==
    ASSUME NEW tbl, NEW profs, NEW more, profs \subseteq more,
           TableOK(tbl, profs)
    PROVE  TableOK(tbl, more)
BY DEF TableOK, Opt

(* The status columns of a row may be rewritten. *)
LEMMA StatusOK ==
    ASSUME NEW tbl \in Table, NEW profs, TableOK(tbl, profs),
           NEW i \in Live(tbl), NEW s \in Status, NEW x \in BOOLEAN
    PROVE  LET new == [tbl EXCEPT ![i] =
                         [tbl[i] EXCEPT !.status = s, !.stamped = x]]
           IN  new \in Table /\ TableOK(new, profs)
<1> DEFINE r == [tbl[i] EXCEPT !.status = s, !.stamped = x]
<1>1. i \in Id /\ tbl[i] \in Row
  BY DEF Live, Table
<1>2. r \in Row
  BY <1>1 DEF Row
<1>3. /\ r.serial = tbl[i].serial /\ r.mac = tbl[i].mac
      /\ r.profile = tbl[i].profile
  BY <1>1 DEF Row
<1>4. Admits(tbl, profs, i, r)
  BY <1>3 DEF Admits, TableOK, Identified, Clash
<1> QED BY <1>1, <1>2, <1>4, PutOK

-----------------------------------------------------------------------------
(* Only an INSERT adds a row. *)

LEMMA OverwriteLive ==
    ASSUME NEW tbl \in Table, NEW profs, NEW i, NEW r
    PROVE  Live(Overwrite(tbl, profs, i, r)) \subseteq Live(tbl)
<1>1. CASE Overwrite(tbl, profs, i, r) = tbl
  BY <1>1
<1>2. CASE Overwrite(tbl, profs, i, r) = [tbl EXCEPT ![i] = r] /\ i \in Live(tbl)
  BY <1>2 DEF Live, Table
<1> QED BY <1>1, <1>2 DEF Overwrite

LEMMA EraseLive ==
    ASSUME NEW tbl \in Table, NEW i \in Id
    PROVE  Live(Erase(tbl, i)) \subseteq Live(tbl)
BY DEF Live, Table, Erase

LEMMA UnassignLive ==
    ASSUME NEW tbl, NEW p
    PROVE  Live(Unassign(tbl, p)) \subseteq Live(tbl)
BY DEF Live, Unassign

LEMMA InsertLive ==
    ASSUME NEW tbl \in Table, NEW i \in Id, NEW r \in Row
    PROVE  \A j \in Live(Insert(tbl, i, r)) \ Live(tbl) :
              /\ Insert(tbl, i, r)[j].status = "unknown"
              /\ ~Insert(tbl, i, r)[j].stamped
<1>1. Stored(r).status = "unknown" /\ ~Stored(r).stamped
  BY DEF Stored, Row
<1>2. /\ Insert(tbl, i, r)[i] = Stored(r)
      /\ \A j \in Id : j # i => Insert(tbl, i, r)[j] = tbl[j]
  BY DEF Insert, Table
<1> QED BY <1>1, <1>2 DEF Live

-----------------------------------------------------------------------------
(* The helpers that build requests and copies return requests and copies.  *)

LEMMA NullBox == NULL \notin Box /\ NULL \notin Id /\ NULL \notin Profile
BY NullAssumption

(* A missing row fits every box. *)
LEMMA NoRowFits ==
    ASSUME NEW b
    PROVE  Fits(NoRow, b)
BY NullBox DEF Fits, NoRow, Owns, Opt

LEMMA NewRowFits ==
    ASSUME NEW b \in Box, NEW s \in {b, NULL}, NEW m \in {b, NULL}
    PROVE  NewRow(s, m) \in Row /\ Fits(NewRow(s, m), b)
BY NullBox DEF NewRow, Row, Opt, Status, Spelling, Fits, Owns

LEMMA ReplyOK ==
    ASSUME NEW op \in Ops, NEW b \in Box, NEW ok \in BOOLEAN,
           NEW p \in Opt(Profile), NEW peer \in {"waiting", "gone"},
           p \in Opt(granted[b]),
           Speaks(op, b)
    PROVE  LET r == Reply(op, b, ok, p, peer)
           IN  /\ r \in Request /\ RequestOK(r)
               /\ r.box = b /\ r.id = NULL
<1> DEFINE r == Reply(op, b, ok, p, peer)
<1>1. r \in Request
  BY DEF Reply, Request, Steps, Opt
<1>2. /\ r.dev = NoRow /\ r.box = b /\ r.pc = "respond" /\ r.op = op
      /\ r.got = p /\ r.id = NULL
  BY DEF Reply
<1>3. RequestOK(r)
  BY <1>2, NoRowFits DEF RequestOK
<1> QED BY <1>1, <1>2, <1>3

(* The response that grants nothing. *)
LEMMA DeniedOK ==
    ASSUME NEW op \in Ops, NEW b \in Box, NEW peer \in {"waiting", "gone"},
           Speaks(op, b)
    PROVE  LET r == Deny(op, b, peer)
           IN  /\ r \in Request /\ RequestOK(r)
               /\ r.box = b /\ r.id = NULL
<1> DEFINE r == Deny(op, b, peer)
<1>1. r \in Request
  BY DEF Deny, Reply, Request, Steps, Opt
<1>2. /\ r.dev = NoRow /\ r.box = b /\ r.pc = "respond" /\ r.op = op
      /\ r.got = NULL /\ r.id = NULL
  BY DEF Deny, Reply
<1>3. RequestOK(r)
  BY <1>2, NoRowFits DEF RequestOK, Opt
<1> QED BY <1>1, <1>2, <1>3

LEMMA OfferOK ==
    ASSUME NEW b \in Box, NEW peer \in {"waiting", "gone"}
    PROVE  LET r == Offer(b, peer)
           IN  /\ r \in Request /\ RequestOK(r)
               /\ r.box = b /\ r.id = NULL
<1> DEFINE r == Offer(b, peer)
<1>1. r \in Request
  BY DEF Offer, Reply, Request, Steps, Ops, Opt
<1>2. /\ r.dev = NoRow /\ r.box = b /\ r.pc = "respond" /\ r.op = "work"
      /\ r.got = NULL /\ r.id = NULL
  BY DEF Offer, Reply
<1>3. RequestOK(r)
  BY <1>2, NoRowFits DEF RequestOK, Speaks, Opt
<1> QED BY <1>1, <1>2, <1>3

LEMMA AtOK ==
    ASSUME NEW pc \in Steps \ {"respond"}, NEW op \in Ops, NEW b \in Box,
           NEW i \in Opt(Id), NEW d \in Row, NEW peer \in {"waiting", "gone"},
           Fits(d, b),
           Speaks(op, b),
           pc \in {"mark", "render"} => op \in {"work", "config", "juniper", "aruba"},
           pc = "render" => op # "work",
           pc \in {"touch", "mark", "render", "settle"} => i \in Id
    PROVE  LET r == At(pc, op, b, i, d, peer)
           IN  /\ r \in Request /\ RequestOK(r)
               /\ r.box = b /\ r.id = i
<1> DEFINE r == At(pc, op, b, i, d, peer)
<1>1. r \in Request
  BY DEF At, Request, Opt
<1>2. /\ r.dev = d /\ r.box = b /\ r.pc = pc /\ r.op = op
      /\ r.got = NULL /\ r.id = i
  BY DEF At
<1>3. RequestOK(r)
  BY <1>2 DEF RequestOK, Opt
<1> QED BY <1>1, <1>2, <1>3

(* The request about to register its box. *)
LEMMA CreatingOK ==
    ASSUME NEW op \in Ops, NEW b \in Box, NEW d \in Row,
           NEW peer \in {"waiting", "gone"}, Fits(d, b), Speaks(op, b)
    PROVE  LET r == At("create", op, b, NULL, d, peer)
           IN  r \in Request /\ RequestOK(r) /\ r.box = b /\ r.id = NULL
<1> DEFINE r == At("create", op, b, NULL, d, peer)
<1>1. r \in Request
  BY DEF At, Request, Opt, Steps
<1>2. /\ r.dev = d /\ r.box = b /\ r.pc = "create" /\ r.op = op
      /\ r.got = NULL /\ r.id = NULL
  BY DEF At
<1>3. RequestOK(r)
  BY <1>2 DEF RequestOK, Opt
<1> QED BY <1>1, <1>2, <1>3

LEMMA RoutedOK ==
    ASSUME NEW op \in Ops, NEW b \in Box, NEW i \in Id, NEW d \in Row,
           NEW peer \in {"waiting", "gone"}, Fits(d, b),
           Speaks(op, b)
    PROVE  LET r == Routed(op, b, i, d, peer)
           IN  /\ r \in Request /\ RequestOK(r)
               /\ r.box = b /\ r.id \in {i, NULL}
<1>1. CASE Routed(op, b, i, d, peer) = At("mark", op, b, i, d, peer)
           /\ op \in {"work", "config", "juniper", "aruba"}
  BY <1>1, AtOK DEF Steps, Opt
<1>2. CASE Routed(op, b, i, d, peer) = Deny(op, b, peer)
  BY <1>2, DeniedOK
<1> QED BY <1>1, <1>2 DEF Routed

(* What is reported on a copy keeps it truthful, if success is reported of *)
(* a Cisco box only when it is configured.                                 *)
LEMMA ReportedFits ==
    ASSUME NEW d \in Row, NEW b, NEW ok \in BOOLEAN, Fits(d, b),
           ok /\ b \in Cisco => Configured(b)
    PROVE  Reported(d, ok) \in Row /\ Fits(Reported(d, ok), b)
<1>1. CASE ok
  <2> DEFINE e == Reported(d, ok)
  <2>1. /\ e.serial = d.serial /\ e.mac = d.mac /\ e.profile = d.profile
        /\ e.status = "provisioned" /\ e.stamped = TRUE /\ e \in Row
    BY <1>1 DEF Reported, Provisioned, Row, Status, Spelling
  <2> QED BY <1>1, <2>1 DEF Fits, Owns
<1>2. CASE ~ok
  <2> DEFINE e == Reported(d, ok)
  <2>1. /\ e.serial = d.serial /\ e.mac = d.mac /\ e.profile = d.profile
        /\ e.status = "failed" /\ e \in Row
    BY <1>2 DEF Reported, Row, Status, Spelling
  <2> QED BY <2>1 DEF Fits, Owns
<1> QED BY <1>1, <1>2

LEMMA MarkedFits ==
    ASSUME NEW d \in Row, NEW b, Fits(d, b)
    PROVE  Marked(d) \in Row /\ Fits(Marked(d), b)
<1> DEFINE e == Marked(d)
<1>1. /\ e.serial = d.serial /\ e.mac = d.mac /\ e.profile = d.profile
      /\ e.status = "provisioning" /\ e \in Row
  BY DEF Marked, Row, Status, Spelling
<1> QED BY <1>1 DEF Fits, Owns

LEMMA BackfilledFits ==
    ASSUME NEW d \in Row, NEW b \in Box, NEW m \in {b, NULL}, Fits(d, b)
    PROVE  Backfilled(d, m) \in Row /\ Fits(Backfilled(d, m), b)
<1>1. CASE d.mac = NULL
  <2> DEFINE e == Backfilled(d, m)
  <2>1. /\ e.serial = d.serial /\ e.mac = m /\ e.profile = d.profile
        /\ e.status = d.status /\ e.stamped = d.stamped /\ e \in Row
    BY <1>1 DEF Backfilled, Row, Opt
  <2> QED BY <2>1, NullBox DEF Fits, Owns
<1>2. CASE d.mac # NULL
  BY <1>2 DEF Backfilled
<1> QED BY <1>1, <1>2

-----------------------------------------------------------------------------
(* Preservation, by the shape of a step.                                   *)

(* What the copies outside the table require of the owners of the ids. *)
CopiesOwned(o) ==
    /\ \A h \in Handler : req[h].id \in Id => req[h].box = o[req[h].id]
    /\ \A t \in Tab : tab[t].id \in Id => Fits(tab[t].row, o[tab[t].id])

LEMMA FitsGrows ==
    ASSUME NEW d, NEW b \in Box,
           \A c \in Box : granted[c] \subseteq granted'[c],
           \A c \in Box : Configured(c) => Configured(c)',
           Fits(d, b)
    PROVE  Fits(d, b)'
BY DEF Fits, Opt

(* A statement of one request: it may write the table, and the request     *)
(* goes on as r or ends.                                                   *)
LEMMA RequestStep ==
    ASSUME IInv, NEW o \in [Id -> Box], CopiesOwned(o),
           NEW h \in Handler, NEW r,
           req' = [req EXCEPT ![h] = r],
           \/ r = Idle
           \/ r \in Request /\ RequestOK(r) /\ (r.id \in Id => r.box = o[r.id]),
           devices' \in Table, TableOK(devices', profiles),
           \A i \in Id : Fits(devices'[i], o[i]),
           UNCHANGED <<profiles, box, tab, leased, due, granted>>
    PROVE  IInv'
<1>1. ASSUME NEW d, NEW b, Fits(d, b) PROVE Fits(d, b)'
  BY <1>1 DEF Fits, Configured
<1>2. \A k \in Handler : req'[k] = IF k = h THEN r ELSE req[k]
  BY DEF IInv, TypeOK
<1>3. TypeOK'
  BY DEF IInv, TypeOK
<1>4. TableIntegrity'
  BY DEF TableIntegrity
<1>5. RequestsOK'
  <2> SUFFICES ASSUME NEW k \in Handler, Active(k)'
               PROVE  RequestOK(req[k])'
    BY DEF RequestsOK
  <2>1. CASE k = h
    <3>1. r # Idle
      BY <1>2, <2>1 DEF Active, Idle
    <3> QED BY <1>1, <1>2, <2>1, <3>1 DEF RequestOK
  <2>2. CASE k # h
    <3>1. req'[k] = req[k] /\ RequestOK(req[k])
      BY <1>2, <2>2 DEF IInv, RequestsOK, Active
    <3> QED BY <1>1, <3>1 DEF RequestOK
  <2> QED BY <2>1, <2>2
<1>6. BoxesOK'
  BY DEF IInv, BoxesOK, Configured
<1>7. OneOwner'
  <2>1. \A i \in Id : Fits(devices[i], o[i])'
    BY <1>1
  <2>2. \A k \in Handler : req'[k].id \in Id => req'[k].box = o[req'[k].id]
    BY <1>2, NullBox DEF CopiesOwned, Idle
  <2>3. \A t \in Tab : tab'[t].id \in Id => Fits(tab[t].row, o[tab[t].id])'
    BY <1>1 DEF CopiesOwned
  <2> QED BY <2>1, <2>2, <2>3 DEF OneOwner, Owners
<1> QED BY <1>3, <1>4, <1>5, <1>6, <1>7 DEF IInv

(* Any step that leaves the requests alone, of which the grants and the    *)
(* configured boxes only grow.                                             *)
LEMMA OtherStep ==
    ASSUME IInv, NEW o \in [Id -> Box],
           TypeOK', TableIntegrity', BoxesOK', UNCHANGED req,
           \A c \in Box : granted[c] \subseteq granted'[c],
           \A c \in Box : Configured(c) => Configured(c)',
           \A k \in Handler : req[k].id \in Id => req[k].box = o[req[k].id],
           \A i \in Id : Fits(devices[i], o[i])',
           \A t \in Tab : tab'[t].id \in Id => Fits(tab[t].row, o[tab[t].id])'
    PROVE  IInv'
<1>1. RequestsOK'
  <2> SUFFICES ASSUME NEW k \in Handler, Active(k)'
               PROVE  RequestOK(req[k])'
    BY DEF RequestsOK
  <2>1. RequestOK(req[k]) /\ req[k].box \in Box
    BY DEF IInv, TypeOK, RequestsOK, Active, Request, Idle
  <2>2. Fits(req[k].dev, req[k].box)'
    BY <2>1, FitsGrows DEF RequestOK
  <2> QED BY <2>1, <2>2 DEF RequestOK, Opt
<1> QED BY <1>1 DEF IInv, OneOwner, Owners

LEMMA ServingStep ==
    ASSUME IInv, NEW o \in [Id -> Box], Owners(o),
           NEW h \in Handler, NEW r, Serving(h, r),
           \/ r = Idle
           \/ r \in Request /\ RequestOK(r) /\ (r.id \in Id => r.box = o[r.id])
    PROVE  IInv'
<1>1. devices' \in Table /\ TableOK(devices', profiles)
  BY DEF Serving, IInv, TypeOK, TableIntegrity
<1>2. CopiesOwned(o) /\ \A i \in Id : Fits(devices'[i], o[i])
  BY DEF Serving, Owners, CopiesOwned
<1> QED BY <1>1, <1>2, RequestStep DEF Serving

(* UpdateDevice from a copy, whether or not the row takes it. *)
LEMMA WriteStep ==
    ASSUME IInv, NEW o \in [Id -> Box], Owners(o),
           NEW h \in Handler, NEW r, NEW i \in Id, NEW d,
           i \in Live(devices) => d \in Row /\ Fits(d, o[i]),
           devices' = Overwrite(devices, profiles, i, d),
           req' = [req EXCEPT ![h] = r],
           \/ r = Idle
           \/ r \in Request /\ RequestOK(r) /\ (r.id \in Id => r.box = o[r.id]),
           UNCHANGED <<profiles, box, tab, leased, due, granted>>
    PROVE  IInv'
<1>1. devices \in Table /\ TableOK(devices, profiles)
  BY DEF IInv, TypeOK, TableIntegrity
<1>2. devices' \in Table /\ TableOK(devices', profiles)
  BY <1>1, OverwriteOK
<1>3. \A j \in Id : \/ devices'[j] = devices[j]
                    \/ j = i /\ i \in Live(devices) /\ devices'[j] = d
  BY <1>1 DEF Overwrite, Table
<1>4. CopiesOwned(o) /\ \A j \in Id : Fits(devices'[j], o[j])
  BY <1>3 DEF Owners, CopiesOwned
<1> QED BY <1>2, <1>4, RequestStep

(* The row a lookup finds is one of the box that was looked up. *)
LEMMA FoundOK ==
    ASSUME IInv, NEW o \in [Id -> Box], Owners(o),
           NEW key \in {"serial", "mac"}, NEW b \in Box,
           NEW i \in Find(devices, key, b)
    PROVE  /\ i \in Id /\ devices[i] \in Row
           /\ o[i] = b /\ Fits(devices[i], b)
<1>1. i \in Id /\ devices[i] \in Row
  BY DEF Find, Live, IInv, TypeOK, Table
<1>2. Owns(devices[i], b)
  BY DEF Find, Owns
<1>3. Fits(devices[i], o[i])
  BY <1>1 DEF Owners
<1> QED BY <1>1, <1>2, <1>3 DEF Fits

LEMMA KeyOK == \A op : Key(op) \in {"serial", "mac"}
BY DEF Key

-----------------------------------------------------------------------------
(* One lemma for each action. *)

LEMMA ArriveInv ==
    ASSUME IInv, NEW h \in Handler, NEW b \in Box, NEW op \in Ops,
           Arrive(h, b, op), Speaks(op, b)
    PROVE  IInv'
<1>0. PICK o \in [Id -> Box] : Owners(o)
  BY DEF IInv, OneOwner
<1>1. CASE \E i \in Find(devices, Key(op), b) :
              Serving(h, Routed(op, b, i, devices[i], "waiting"))
  <2>1. PICK i \in Find(devices, Key(op), b) :
              Serving(h, Routed(op, b, i, devices[i], "waiting"))
    BY <1>1
  <2>2. i \in Id /\ devices[i] \in Row /\ o[i] = b /\ Fits(devices[i], b)
    BY <1>0, KeyOK, FoundOK
  <2> DEFINE r == Routed(op, b, i, devices[i], "waiting")
  <2>3. r \in Request /\ RequestOK(r) /\ r.box = b /\ r.id \in {i, NULL}
    BY <2>2, RoutedOK
  <2>4. r.id \in Id => r.box = o[r.id]
    BY <2>2, <2>3, NullBox
  <2> QED BY <1>0, <2>1, <2>3, <2>4, ServingStep
<1>2. CASE Serving(h, At("create", op, b, NULL,
                         IF op = "aruba" THEN NewRow(NULL, b)
                                         ELSE NewRow(b, NULL), "waiting"))
  <2> DEFINE d == IF op = "aruba" THEN NewRow(NULL, b) ELSE NewRow(b, NULL)
             r == At("create", op, b, NULL, d, "waiting")
  <2>1. d \in Row /\ Fits(d, b)
    BY NewRowFits
  <2>2. r \in Request /\ RequestOK(r) /\ r.id = NULL
    BY <2>1, CreatingOK
  <2> QED BY <1>0, <1>2, <2>2, NullBox, ServingStep
<1> QED BY <1>1, <1>2 DEF Arrive

LEMMA JuniperFoundOK ==
    ASSUME IInv, NEW o \in [Id -> Box], Owners(o), NEW b \in Juniper,
           NEW i \in Find(devices, "serial", b), NEW m \in {b, NULL},
           NEW peer \in {"waiting", "gone"}
    PROVE  LET r == JuniperFound(b, i, m, peer)
           IN  /\ r \in Request /\ RequestOK(r)
               /\ r.id \in Id => r.box = o[r.id]
<1> DEFINE d == Backfilled(devices[i], m)
           r == JuniperFound(b, i, m, peer)
<1>1. b \in Box /\ Speaks("juniper", b)
  BY BoxAssumption DEF Speaks
<1>2. i \in Id /\ devices[i] \in Row /\ o[i] = b /\ Fits(devices[i], b)
  BY <1>1, FoundOK
<1>3. d \in Row /\ Fits(d, b)
  BY <1>1, <1>2, BackfilledFits
<1>4. CASE r = At("touch", "juniper", b, i, d, peer)
  <2>1. r \in Request /\ RequestOK(r) /\ r.box = b /\ r.id = i
    BY <1>1, <1>2, <1>3, <1>4, AtOK DEF Steps, Ops, Opt
  <2> QED BY <1>2, <2>1
<1>5. CASE r = Routed("juniper", b, i, d, peer)
  <2>1. r \in Request /\ RequestOK(r) /\ r.box = b /\ r.id \in {i, NULL}
    BY <1>1, <1>2, <1>3, <1>5, RoutedOK DEF Ops
  <2> QED BY <1>2, <2>1, NullBox
<1> QED BY <1>4, <1>5 DEF JuniperFound

LEMMA JuniperConfigInv ==
    ASSUME IInv, NEW h \in Handler, NEW b \in Box, JuniperConfig(h, b)
    PROVE  IInv'
<1>0. PICK o \in [Id -> Box] : Owners(o)
  BY DEF IInv, OneOwner
<1> DEFINE m == IF b \in leased THEN b ELSE NULL
<1>1. b \in Juniper /\ Speaks("juniper", b) /\ m \in {b, NULL}
  BY DEF JuniperConfig, Speaks
<1>2. CASE \E i \in Find(devices, "serial", b) :
              Serving(h, JuniperFound(b, i, m, "waiting"))
  BY <1>0, <1>1, <1>2, JuniperFoundOK, ServingStep
<1>3. CASE Serving(h, At("create", "juniper", b, NULL, NewRow(b, m), "waiting"))
  <2> DEFINE r == At("create", "juniper", b, NULL, NewRow(b, m), "waiting")
  <2>1. NewRow(b, m) \in Row /\ Fits(NewRow(b, m), b)
    BY <1>1, NewRowFits
  <2>2. r \in Request /\ RequestOK(r) /\ r.id = NULL
    BY <1>1, <2>1, CreatingOK DEF Ops
  <2> QED BY <1>0, <1>3, <2>2, NullBox, ServingStep
<1> QED BY <1>2, <1>3 DEF JuniperConfig

LEMMA GetConfigInv ==
    ASSUME IInv, NEW h \in Handler, NEW b \in Box, GetConfig(h, b)
    PROVE  IInv'
<1>0. PICK o \in [Id -> Box] : Owners(o)
  BY DEF IInv, OneOwner
<1>1. CASE \E i \in Find(devices, "serial", b) :
              Serving(h, Routed("config", b, i, devices[i], "waiting"))
  <2>1. PICK i \in Find(devices, "serial", b) :
              Serving(h, Routed("config", b, i, devices[i], "waiting"))
    BY <1>1
  <2>2. i \in Id /\ devices[i] \in Row /\ o[i] = b /\ Fits(devices[i], b)
    BY <1>0, FoundOK
  <2> DEFINE r == Routed("config", b, i, devices[i], "waiting")
  <2>3. r \in Request /\ RequestOK(r) /\ r.box = b /\ r.id \in {i, NULL}
    BY <2>2, RoutedOK DEF Ops, Speaks
  <2> QED BY <1>0, <2>1, <2>2, <2>3, NullBox, ServingStep
<1>2. CASE Serving(h, Deny("config", b, "waiting"))
  <2> DEFINE r == Deny("config", b, "waiting")
  <2>1. r \in Request /\ RequestOK(r) /\ r.id = NULL
    BY DeniedOK DEF Ops, Speaks
  <2> QED BY <1>0, <1>2, <2>1, NullBox, ServingStep
<1> QED BY <1>1, <1>2 DEF GetConfig

LEMMA WorkResultInv ==
    ASSUME IInv, NEW h \in Handler, NEW b \in Box, NEW ok \in BOOLEAN,
           WorkResult(h, b, ok)
    PROVE  IInv'
<1>0. PICK o \in [Id -> Box] : Owners(o)
  BY DEF IInv, OneOwner
<1>1. ok => Configured(b)
  BY DEF WorkResult, Send, IInv, BoxesOK
<1>2. CASE \E i \in Find(devices, "serial", b) :
              Serving(h, At("settle", "result", b, i,
                            Reported(devices[i], ok), "waiting"))
  <2>1. PICK i \in Find(devices, "serial", b) :
              Serving(h, At("settle", "result", b, i,
                            Reported(devices[i], ok), "waiting"))
    BY <1>2
  <2>2. i \in Id /\ devices[i] \in Row /\ o[i] = b /\ Fits(devices[i], b)
    BY <1>0, FoundOK
  <2> DEFINE d == Reported(devices[i], ok)
             r == At("settle", "result", b, i, d, "waiting")
  <2>3. d \in Row /\ Fits(d, b)
    BY <1>1, <2>2, ReportedFits
  <2>4. r \in Request /\ RequestOK(r) /\ r.box = b /\ r.id = i
    BY <2>2, <2>3, AtOK DEF Steps, Ops, Opt, Speaks
  <2> QED BY <1>0, <2>1, <2>2, <2>4, ServingStep
<1>3. CASE Serving(h, Deny("result", b, "waiting"))
  <2> DEFINE r == Deny("result", b, "waiting")
  <2>1. r \in Request /\ RequestOK(r) /\ r.id = NULL
    BY DeniedOK DEF Ops, Speaks
  <2> QED BY <1>0, <1>3, <2>1, NullBox, ServingStep
<1> QED BY <1>2, <1>3 DEF WorkResult

(* What is known of a request in flight. *)
LEMMA InFlight ==
    ASSUME IInv, NEW o \in [Id -> Box], Owners(o),
           NEW h \in Handler, Active(h)
    PROVE  /\ req[h] \in Request /\ RequestOK(req[h])
           /\ req[h].op \in Ops /\ req[h].box \in Box
           /\ req[h].peer \in {"waiting", "gone"}
           /\ req[h].id \in Id => req[h].box = o[req[h].id]
           /\ Speaks(req[h].op, req[h].box)
BY DEF IInv, TypeOK, RequestsOK, RequestOK, Active, Idle, Request, Owners

LEMMA RefetchInv ==
    ASSUME IInv, NEW h \in Handler, Refetch(h)
    PROVE  IInv'
<1>0. PICK o \in [Id -> Box] : Owners(o)
  BY DEF IInv, OneOwner
<1> DEFINE q == req[h]
<1>1. Active(h) /\ q.pc = "refetch"
  BY DEF Refetch, Active
<1>2. /\ q \in Request /\ RequestOK(q) /\ q.op \in Ops /\ q.box \in Box
      /\ q.peer \in {"waiting", "gone"}
      /\ Speaks(q.op, q.box)
  BY <1>0, <1>1, InFlight
<1>3. CASE \E i \in Find(devices, Key(q.op), q.box) :
             Serving(h, IF q.op = "juniper"
                        THEN JuniperFound(q.box, i, q.dev.mac, q.peer)
                        ELSE Routed(q.op, q.box, i, devices[i], q.peer))
  <2>1. PICK i \in Find(devices, Key(q.op), q.box) :
             Serving(h, IF q.op = "juniper"
                        THEN JuniperFound(q.box, i, q.dev.mac, q.peer)
                        ELSE Routed(q.op, q.box, i, devices[i], q.peer))
    BY <1>3
  <2>2. i \in Id /\ devices[i] \in Row /\ o[i] = q.box /\ Fits(devices[i], q.box)
    BY <1>0, <1>2, KeyOK, FoundOK
  <2>3. CASE q.op = "juniper"
    <3>1. q.dev.mac \in {q.box, NULL}
      BY <1>1, <1>2 DEF RequestOK, Fits, Owns, Row, Opt
    <3>2. q.box \in Juniper /\ Key(q.op) = "serial"
      BY <1>2, <2>3 DEF Key, Speaks
    <3> QED BY <1>0, <1>2, <2>1, <2>3, <3>1, <3>2, JuniperFoundOK, ServingStep
  <2>4. CASE q.op # "juniper"
    <3> DEFINE r == Routed(q.op, q.box, i, devices[i], q.peer)
    <3>1. r \in Request /\ RequestOK(r) /\ r.box = q.box /\ r.id \in {i, NULL}
      BY <1>2, <2>2, RoutedOK
    <3> QED BY <1>0, <2>1, <2>2, <2>4, <3>1, NullBox, ServingStep
  <2> QED BY <2>3, <2>4
<1>4. CASE Serving(h, Deny(q.op, q.box, q.peer))
  <2> DEFINE r == Deny(q.op, q.box, q.peer)
  <2>1. r \in Request /\ RequestOK(r) /\ r.id = NULL
    BY <1>2, DeniedOK
  <2> QED BY <1>0, <1>4, <2>1, NullBox, ServingStep
<1> QED BY <1>3, <1>4 DEF Refetch

(* A new id: no row, no request and no form has it, so its owner may still *)
(* be chosen.                                                              *)
LEMMA FreshOwner ==
    ASSUME NEW o \in [Id -> Box], Owners(o), NEW i \in Id, Fresh(i), NEW b \in Box
    PROVE  LET n == [o EXCEPT ![i] = b]
           IN  /\ n \in [Id -> Box] /\ n[i] = b
               /\ \A j \in Id : j # i => Fits(devices[j], n[j])
               /\ CopiesOwned(n)
<1> DEFINE n == [o EXCEPT ![i] = b]
<1>1. n \in [Id -> Box] /\ n[i] = b /\ \A j \in Id \ {i} : n[j] = o[j]
  OBVIOUS
<1> HIDE DEF n
<1>2. \A j \in Id : j # i => Fits(devices[j], n[j])
  BY <1>1 DEF Owners
<1>3. CopiesOwned(n)
  BY <1>1 DEF Owners, CopiesOwned, Fresh
<1> QED BY <1>1, <1>2, <1>3 DEF n

(* An INSERT of a copy that fits box b. *)
LEMMA InsertStep ==
    ASSUME IInv, NEW i \in Id, Fresh(i), NEW r \in Row, Insertable(r),
           NEW b \in Box, Fits(r, b),
           devices' = Insert(devices, i, r)
    PROVE  /\ devices' \in Table /\ TableOK(devices', profiles)
           /\ Fits(devices'[i], b)
           /\ \A j \in Id : j # i => devices'[j] = devices[j]
<1>1. devices \in Table /\ TableOK(devices, profiles) /\ devices[i] = NoRow
  BY DEF IInv, TypeOK, TableIntegrity, Fresh
<1>2. devices' \in Table /\ TableOK(devices', profiles)
  BY <1>1, InsertOK DEF Insertable
<1>3. devices'[i] = Stored(r) /\ \A j \in Id : j # i => devices'[j] = devices[j]
  BY <1>1 DEF Insert, Table
<1>4. /\ Stored(r).serial = r.serial /\ Stored(r).mac = r.mac
      /\ Stored(r).profile = r.profile /\ Stored(r).status = "unknown"
  BY DEF Stored, Row
<1>5. Fits(Stored(r), b)
  BY <1>4 DEF Fits, Owns
<1> QED BY <1>2, <1>3, <1>5

LEMMA CreateInv ==
    ASSUME IInv, NEW h \in Handler, Create(h)
    PROVE  IInv'
<1>0. PICK o \in [Id -> Box] : Owners(o)
  BY DEF IInv, OneOwner
<1> DEFINE q == req[h]
           b == q.box
<1>1. Active(h) /\ q.pc = "create"
  BY DEF Create, Active
<1>2. /\ q \in Request /\ RequestOK(q) /\ q.op \in Ops /\ b \in Box
      /\ q.peer \in {"waiting", "gone"} /\ Speaks(q.op, b)
      /\ q.id \in Id => b = o[q.id]
  BY <1>0, <1>1, InFlight
<1>3. ASSUME NEW i \in Id, Fresh(i), Insertable(q.dev),
             devices' = Insert(devices, i, q.dev),
             req' = [req EXCEPT ![h] = Deny(q.op, b, q.peer)]
      PROVE  IInv'
  <2> DEFINE n == [o EXCEPT ![i] = b]
             r == Deny(q.op, b, q.peer)
  <2>1. q.dev \in Row /\ Fits(q.dev, b)
    BY <1>1, <1>2 DEF RequestOK
  <2>2. /\ devices' \in Table /\ TableOK(devices', profiles)
        /\ Fits(devices'[i], b)
        /\ \A j \in Id : j # i => devices'[j] = devices[j]
    BY <1>2, <1>3, <2>1, InsertStep
  <2>3. /\ n \in [Id -> Box] /\ n[i] = b /\ CopiesOwned(n)
        /\ \A j \in Id : j # i => Fits(devices[j], n[j])
    BY <1>0, <1>2, <1>3, FreshOwner
  <2>4. \A j \in Id : Fits(devices'[j], n[j])
    BY <2>2, <2>3
  <2>5. r \in Request /\ RequestOK(r) /\ r.id = NULL
    BY <1>2, DeniedOK
  <2> HIDE DEF n, r
  <2> QED BY <1>3, <2>2, <2>3, <2>4, <2>5, NullBox, RequestStep DEF Create, r
<1>4. CASE req' = [req EXCEPT ![h].pc = "refetch"] /\ UNCHANGED devices
  <2> DEFINE r == [q EXCEPT !.pc = "refetch"]
  <2>1. /\ r \in Request /\ r.pc = "refetch" /\ r.op = q.op /\ r.box = b
        /\ r.id = q.id /\ r.dev = q.dev /\ r.got = q.got
    BY <1>2 DEF Request, Steps
  <2>2. RequestOK(r)
    BY <1>1, <1>2, <2>1 DEF RequestOK
  <2>3. Serving(h, r)
    BY <1>4 DEF Serving, Create
  <2> QED BY <1>0, <1>2, <2>1, <2>2, <2>3, ServingStep
<1> QED BY <1>3, <1>4 DEF Create

(* Juniper's backfill into a row of its box. *)
LEMMA TouchedFits ==
    ASSUME IInv, NEW o \in [Id -> Box], Owners(o),
           NEW h \in Handler, req[h].pc = "touch", req[h].id \in Live(devices)
    PROVE  LET d == [devices[req[h].id] EXCEPT !.mac = req[h].dev.mac]
           IN  d \in Row /\ Fits(d, req[h].box)
<1> DEFINE q == req[h]
           i == q.id
           d == [devices[i] EXCEPT !.mac = q.dev.mac]
<1>1. Active(h)
  BY DEF Active
<1>2. RequestOK(q) /\ i \in Id /\ q.box = o[i]
  BY <1>1, InFlight DEF Live
<1>3. q.dev \in Row /\ Fits(q.dev, q.box)
  BY <1>2 DEF RequestOK
<1>4. devices[i] \in Row /\ Fits(devices[i], q.box)
  BY <1>2 DEF Live, IInv, TypeOK, Table, Owners
<1>5. /\ d \in Row /\ d.serial = devices[i].serial /\ d.mac = q.dev.mac
      /\ d.profile = devices[i].profile /\ d.status = devices[i].status
      /\ d.stamped = devices[i].stamped
  BY <1>3, <1>4 DEF Row
<1> QED BY <1>3, <1>4, <1>5 DEF Fits, Owns

LEMMA TouchInv ==
    ASSUME IInv, NEW h \in Handler, Touch(h)
    PROVE  IInv'
<1>0. PICK o \in [Id -> Box] : Owners(o)
  BY DEF IInv, OneOwner
<1> DEFINE q == req[h]
           b == q.box
           i == q.id
           d == [devices[i] EXCEPT !.mac = q.dev.mac]
           r == Routed(q.op, b, i, q.dev, q.peer)
<1>1. Active(h) /\ q.pc = "touch"
  BY DEF Touch, Active
<1>2. /\ q \in Request /\ RequestOK(q) /\ q.op \in Ops /\ b \in Box
      /\ q.peer \in {"waiting", "gone"} /\ Speaks(q.op, b)
      /\ i \in Id => b = o[i]
  BY <1>0, <1>1, InFlight
<1>3. i \in Id /\ b = o[i] /\ q.dev \in Row /\ Fits(q.dev, b)
  BY <1>1, <1>2 DEF RequestOK
<1>4. i \in Live(devices) => d \in Row /\ Fits(d, o[i])
  BY <1>0, <1>1, <1>3, TouchedFits
<1>5. r \in Request /\ RequestOK(r) /\ r.box = b /\ r.id \in {i, NULL}
  BY <1>2, <1>3, RoutedOK
<1>6. /\ devices' = Overwrite(devices, profiles, i, d)
      /\ req' = [req EXCEPT ![h] = r]
      /\ UNCHANGED <<profiles, box, tab, leased, due, granted>>
  BY DEF Touch
<1> HIDE DEF d, r
<1> QED BY <1>0, <1>3, <1>4, <1>5, <1>6, NullBox, WriteStep

LEMMA MarkInv ==
    ASSUME IInv, NEW h \in Handler, Mark(h)
    PROVE  IInv'
<1>0. PICK o \in [Id -> Box] : Owners(o)
  BY DEF IInv, OneOwner
<1> DEFINE q == req[h]
           b == q.box
           i == q.id
           d == Marked(q.dev)
           r == IF q.op = "work" THEN Offer(b, q.peer)
                ELSE At("render", q.op, b, i, d, q.peer)
<1>1. Active(h) /\ q.pc = "mark"
  BY DEF Mark, Active
<1>2. /\ q \in Request /\ RequestOK(q) /\ q.op \in Ops /\ b \in Box
      /\ q.peer \in {"waiting", "gone"} /\ Speaks(q.op, b)
      /\ i \in Id => b = o[i]
  BY <1>0, <1>1, InFlight
<1>3. /\ i \in Id /\ b = o[i] /\ q.dev \in Row /\ Fits(q.dev, b)
      /\ q.op \in {"work", "config", "juniper", "aruba"}
  BY <1>1, <1>2 DEF RequestOK
<1>4. d \in Row /\ Fits(d, b)
  BY <1>3, MarkedFits
<1>5. r \in Request /\ RequestOK(r) /\ r.box = b /\ r.id \in {i, NULL}
  <2>1. CASE q.op = "work"
    BY <1>2, <2>1, OfferOK
  <2>2. CASE q.op # "work"
    BY <1>2, <1>3, <1>4, <2>2, AtOK DEF Steps, Opt
  <2> QED BY <2>1, <2>2
<1>6. /\ devices' = Overwrite(devices, profiles, i, d)
      /\ req' = [req EXCEPT ![h] = r]
      /\ UNCHANGED <<profiles, box, tab, leased, due, granted>>
  BY DEF Mark
<1> HIDE DEF d, r
<1> QED BY <1>0, <1>3, <1>4, <1>5, <1>6, NullBox, WriteStep

LEMMA RenderedOK ==
    ASSUME IInv, NEW h \in Handler, req[h].pc = "render", NEW ok \in BOOLEAN,
           Serving(h, Rendered(req[h], ok))
    PROVE  IInv'
<1>0. PICK o \in [Id -> Box] : Owners(o)
  BY DEF IInv, OneOwner
<1> DEFINE q == req[h]
           b == q.box
           p == IF ok THEN q.dev.profile ELSE NULL
           r == Rendered(q, ok)
<1>1. Active(h) /\ q.pc = "render"
  BY DEF Active
<1>2. /\ q \in Request /\ RequestOK(q) /\ q.op \in Ops /\ b \in Box
      /\ q.peer \in {"waiting", "gone"} /\ Speaks(q.op, b)
      /\ q.id \in Id => b = o[q.id]
  BY <1>0, <1>1, InFlight
<1>3. /\ q.id \in Id /\ q.dev \in Row /\ Fits(q.dev, b)
      /\ q.op \in {"config", "juniper", "aruba"}
  BY <1>1, <1>2 DEF RequestOK
<1>4. p \in Opt(Profile) /\ p \in Opt(granted[b])
  BY <1>3 DEF Row, Fits, Opt
<1>5. CASE q.op = "config"
  <2>1. r = Reply(q.op, b, ok, p, q.peer)
    BY <1>5 DEF Rendered
  <2>2. r \in Request /\ RequestOK(r) /\ r.id = NULL
    BY <1>2, <1>4, <2>1, ReplyOK
  <2> QED BY <1>0, <2>2, NullBox, ServingStep
<1>6. CASE q.op # "config"
  <2> DEFINE d == Reported(q.dev, ok)
  <2>1. b \notin Cisco
    BY <1>2, <1>3, <1>6, BoxAssumption DEF Speaks
  <2>2. d \in Row /\ Fits(d, b)
    BY <1>3, <2>1, ReportedFits
  <2>3. r = [q EXCEPT !.pc = "settle", !.dev = d, !.good = ok, !.got = p]
    BY <1>6 DEF Rendered
  <2> HIDE DEF d, p, r
  <2>4. /\ r \in Request /\ r.pc = "settle" /\ r.op = q.op /\ r.box = b
        /\ r.id = q.id /\ r.dev = d /\ r.got = p
    BY <1>2, <1>4, <2>2, <2>3 DEF Request, Steps
  <2>5. RequestOK(r)
    BY <1>2, <1>3, <1>4, <2>2, <2>4 DEF RequestOK
  <2> QED BY <1>0, <1>2, <2>4, <2>5, ServingStep DEF r
<1> QED BY <1>5, <1>6

LEMMA SettleInv ==
    ASSUME IInv, NEW h \in Handler, Settle(h)
    PROVE  IInv'
<1>0. PICK o \in [Id -> Box] : Owners(o)
  BY DEF IInv, OneOwner
<1> DEFINE q == req[h]
           b == q.box
           i == q.id
           d == q.dev
           r == Reply(q.op, b, q.good, q.got, q.peer)
<1>1. Active(h) /\ q.pc = "settle"
  BY DEF Settle, Active
<1>2. /\ q \in Request /\ RequestOK(q) /\ q.op \in Ops /\ b \in Box
      /\ q.peer \in {"waiting", "gone"} /\ Speaks(q.op, b)
      /\ i \in Id => b = o[i]
  BY <1>0, <1>1, InFlight
<1>3. /\ i \in Id /\ b = o[i] /\ d \in Row /\ Fits(d, b)
      /\ q.got \in Opt(granted[b])
  BY <1>1, <1>2 DEF RequestOK
<1>4. q.good \in BOOLEAN /\ q.got \in Opt(Profile)
  BY <1>2 DEF Request
<1>5. r \in Request /\ RequestOK(r) /\ r.id = NULL
  BY <1>2, <1>3, <1>4, ReplyOK
<1>6. /\ devices' = Overwrite(devices, profiles, i, d)
      /\ req' = [req EXCEPT ![h] = r]
      /\ UNCHANGED <<profiles, box, tab, leased, due, granted>>
  BY DEF Settle
<1> HIDE DEF r
<1> QED BY <1>0, <1>3, <1>5, <1>6, NullBox, WriteStep

LEMMA AbortInv ==
    ASSUME IInv, NEW h \in Handler, Abort(h)
    PROVE  IInv'
<1>0. PICK o \in [Id -> Box] : Owners(o)
  BY DEF IInv, OneOwner
<1> QED BY <1>0, ServingStep DEF Abort

LEMMA GiveUpInv ==
    ASSUME IInv, NEW h \in Handler, GiveUp(h)
    PROVE  IInv'
<1>0. PICK o \in [Id -> Box] : Owners(o)
  BY DEF IInv, OneOwner
<1> DEFINE q == req[h]
           r == [q EXCEPT !.peer = "gone"]
<1>1. Active(h)
  BY DEF GiveUp, Active, Idle, IInv, TypeOK, Request, Steps
<1>2. /\ q \in Request /\ RequestOK(q)
      /\ q.id \in Id => q.box = o[q.id]
  BY <1>0, <1>1, InFlight
<1>3. /\ r \in Request /\ r.pc = q.pc /\ r.op = q.op /\ r.box = q.box
      /\ r.id = q.id /\ r.dev = q.dev /\ r.got = q.got
  BY <1>2 DEF Request
<1>4. RequestOK(r)
  BY <1>2, <1>3 DEF RequestOK
<1> QED BY <1>0, <1>2, <1>3, <1>4, ServingStep DEF GiveUp

(* What a response may do to the box that receives it. *)
LEMMA AnsweredOK ==
    ASSUME NEW s \in BoxState, NEW r \in Request
    PROVE  /\ Answered(s, r) \in BoxState
           /\ Answered(s, r).cfg = s.cfg
           /\ Answered(s, r).got \in {s.got, r.got}
           /\ Answered(s, r).phase = "apply"
                 => \/ Answered(s, r).got # NULL
                    \/ s.phase = "apply" /\ Answered(s, r).got = s.got
           /\ Answered(s, r).phase = "reportOK" => s.phase = "reportOK"
<1> DEFINE t == Answered(s, r)
<1>1. CASE t = [s EXCEPT !.phase = "fetch"]
  BY <1>1 DEF BoxState, Phases
<1>2. CASE t = [s EXCEPT !.phase = "reportBad"]
  BY <1>2 DEF BoxState, Phases
<1>3. CASE t = [s EXCEPT !.phase = "poll"]
  BY <1>3 DEF BoxState, Phases
<1>4. CASE r.got # NULL /\ t = [s EXCEPT !.phase = "apply", !.got = r.got]
  BY <1>4 DEF BoxState, Phases, Request
<1>5. CASE t = s
  BY <1>5
<1> QED BY <1>1, <1>2, <1>3, <1>4, <1>5 DEF Answered

LEMMA RespondInv ==
    ASSUME IInv, NEW h \in Handler, Respond(h)
    PROVE  IInv'
<1>0. PICK o \in [Id -> Box] : Owners(o)
  BY DEF IInv, OneOwner
<1> DEFINE q == req[h]
<1>1. Active(h)
  BY DEF Respond, Active
<1>2. q \in Request /\ RequestOK(q) /\ q.box \in Box
  BY <1>0, <1>1, InFlight
<1>3. /\ req' = [req EXCEPT ![h] = Idle]
      /\ UNCHANGED <<devices, profiles, tab, leased, due, granted>>
  BY DEF Respond
<1>4. \A c \in Box : box[c] \in BoxState
  BY DEF IInv, TypeOK
<1>5. /\ box' \in [Box -> BoxState]
      /\ \A c \in Box :
           box'[c] = box[c] \/ (c = q.box /\ box'[c] = Answered(box[c], q))
  <2>1. Answered(box[q.box], q) \in BoxState
    BY <1>2, <1>4, AnsweredOK
  <2>2. box \in [Box -> BoxState]
    BY DEF IInv, TypeOK
  <2>3. box' = box \/ box' = [box EXCEPT ![q.box] = Answered(box[q.box], q)]
    BY DEF Respond
  <2> QED BY <1>2, <2>1, <2>2, <2>3
<1>6. \A c \in Box : box'[c].cfg = box[c].cfg
  BY <1>2, <1>4, <1>5, AnsweredOK
<1>7. ASSUME NEW d, NEW c \in Box, Fits(d, c) PROVE Fits(d, c)'
  BY <1>3, <1>6, <1>7, FitsGrows DEF Configured
<1>8. TypeOK'
  BY <1>3, <1>5 DEF IInv, TypeOK
<1>9. TableIntegrity'
  BY <1>3 DEF IInv, TableIntegrity
<1>10. RequestsOK'
  <2> SUFFICES ASSUME NEW k \in Handler, Active(k)'
               PROVE  RequestOK(req[k])'
    BY DEF RequestsOK
  <2>1. k # h /\ req'[k] = req[k]
    BY <1>3 DEF Active, Idle, IInv, TypeOK
  <2>2. RequestOK(req[k]) /\ req[k].box \in Box
    BY <1>0, <2>1, InFlight DEF Active
  <2>3. Fits(req[k].dev, req[k].box)'
    BY <1>3, <1>7, <2>1, <2>2 DEF RequestOK
  <2> QED BY <1>3, <2>1, <2>2, <2>3 DEF RequestOK
<1>11. BoxesOK'
  <2> SUFFICES ASSUME NEW c \in Box
               PROVE  /\ box'[c].got \in Opt(granted[c])
                      /\ box'[c].cfg \in Opt(granted[c])
                      /\ box'[c].phase = "apply" => box'[c].got # NULL
                      /\ box'[c].phase = "reportOK" => box'[c].cfg # NULL
    BY <1>3 DEF BoxesOK, Configured
  <2>1. CASE box'[c] = box[c]
    BY <2>1 DEF IInv, BoxesOK, Configured
  <2>2. CASE c = q.box /\ box'[c] = Answered(box[c], q)
    BY <1>2, <1>4, <2>2, AnsweredOK DEF IInv, BoxesOK, Configured, RequestOK
  <2> QED BY <1>5, <2>1, <2>2
<1>12. OneOwner'
  <2>1. \A i \in Id : o[i] \in Box
    OBVIOUS
  <2>2. \A i \in Id : Fits(devices[i], o[i])'
    BY <1>0, <1>3, <1>7, <2>1 DEF Owners
  <2>3. \A k \in Handler : req'[k].id \in Id => req'[k].box = o[req'[k].id]
    BY <1>0, <1>3, NullBox DEF Owners, Idle, IInv, TypeOK
  <2>4. \A t \in Tab : tab'[t].id \in Id => Fits(tab[t].row, o[tab[t].id])'
    BY <1>0, <1>3, <1>7, <2>1 DEF Owners
  <2> QED BY <2>2, <2>3, <2>4 DEF OneOwner, Owners
<1> QED BY <1>8, <1>9, <1>10, <1>11, <1>12 DEF IInv

(* A box moves on, or Kea's leases change: nothing else does.              *)
LEMMA BoxOnlyStep ==
    ASSUME IInv, BoxOnly, box' \in [Box -> BoxState], leased' \subseteq Dhcp,
           BoxesOK', \A c \in Box : Configured(c) => Configured(c)'
    PROVE  IInv'
<1>0. PICK o \in [Id -> Box] : Owners(o)
  BY DEF IInv, OneOwner
<1>1. TypeOK' /\ TableIntegrity'
  BY DEF IInv, TypeOK, TableIntegrity, BoxOnly
<1>2. ASSUME NEW d, NEW c \in Box, Fits(d, c) PROVE Fits(d, c)'
  BY <1>2, FitsGrows DEF BoxOnly
<1>3. /\ \A i \in Id : Fits(devices[i], o[i])'
      /\ \A t \in Tab : tab'[t].id \in Id => Fits(tab[t].row, o[tab[t].id])'
      /\ \A k \in Handler : req[k].id \in Id => req[k].box = o[req[k].id]
  BY <1>0, <1>2 DEF Owners, BoxOnly
<1> QED BY <1>1, <1>3, OtherStep DEF BoxOnly

LEMMA ApplyOKInv ==
    ASSUME IInv, NEW b \in Box, ApplyOK(b)
    PROVE  IInv'
<1> DEFINE s == [phase |-> IF b \in Cisco THEN "reportOK" ELSE "done",
                 got |-> NULL, cfg |-> box[b].got]
<1>1. /\ box[b] \in BoxState /\ box[b].got # NULL
      /\ box[b].got \in Opt(granted[b])
  BY DEF ApplyOK, IInv, TypeOK, BoxesOK
<1>2. s \in BoxState
  BY <1>1 DEF BoxState, Phases, Opt
<1>3. /\ box' \in [Box -> BoxState]
      /\ \A c \in Box : box'[c] = IF c = b THEN s ELSE box[c]
  BY <1>2 DEF ApplyOK, IInv, TypeOK
<1>4. BoxesOK'
  BY <1>1, <1>3 DEF IInv, BoxesOK, Configured, Opt, ApplyOK, BoxOnly
<1>5. \A c \in Box : Configured(c) => Configured(c)'
  BY <1>1, <1>3 DEF Configured
<1> QED BY <1>3, <1>4, <1>5, BoxOnlyStep DEF ApplyOK, IInv, TypeOK

LEMMA ApplyFailInv ==
    ASSUME IInv, NEW b \in Box, ApplyFail(b)
    PROVE  IInv'
<1> DEFINE s == [phase |-> IF b \in Cisco THEN "reportBad" ELSE "poll",
                 got |-> NULL, cfg |-> box[b].cfg]
<1>1. box[b] \in BoxState /\ box' = [box EXCEPT ![b] = s]
  BY DEF ApplyFail, IInv, TypeOK
<1>2. s \in BoxState
  BY <1>1 DEF BoxState, Phases, Opt
<1>3. /\ box' \in [Box -> BoxState]
      /\ \A c \in Box : box'[c] = IF c = b THEN s ELSE box[c]
  BY <1>1, <1>2 DEF IInv, TypeOK
<1>4. BoxesOK'
  <2>1. UNCHANGED granted
    BY DEF ApplyFail, BoxOnly
  <2>2. s.phase # "apply" /\ s.phase # "reportOK" /\ s.got = NULL /\ s.cfg = box[b].cfg
    OBVIOUS
  <2> HIDE DEF s
  <2> QED BY <1>3, <2>1, <2>2 DEF IInv, BoxesOK, Configured, Opt
<1>5. \A c \in Box : Configured(c) => Configured(c)'
  BY <1>1, <1>2, <1>3 DEF Configured
<1> QED BY <1>3, <1>4, <1>5, BoxOnlyStep DEF ApplyFail, IInv, TypeOK

LEMMA FetchFailInv ==
    ASSUME IInv, NEW b \in Box, FetchFail(b)
    PROVE  IInv'
<1> DEFINE s == [box[b] EXCEPT !.phase = "reportBad"]
<1>1. box[b] \in BoxState /\ box' = [box EXCEPT ![b] = s]
  BY DEF FetchFail, IInv, TypeOK
<1>2. /\ s \in BoxState
      /\ s.phase = "reportBad" /\ s.got = box[b].got /\ s.cfg = box[b].cfg
  BY <1>1 DEF BoxState, Phases
<1>3. /\ box' \in [Box -> BoxState]
      /\ \A c \in Box : box'[c] = IF c = b THEN s ELSE box[c]
  BY <1>1, <1>2 DEF IInv, TypeOK
<1>4. BoxesOK'
  <2>1. UNCHANGED granted
    BY DEF FetchFail, BoxOnly
  <2> HIDE DEF s
  <2> QED BY <1>2, <1>3, <2>1 DEF IInv, BoxesOK, Configured, Opt
<1>5. \A c \in Box : Configured(c) => Configured(c)'
  BY <1>1, <1>2, <1>3 DEF Configured
<1> QED BY <1>3, <1>4, <1>5, BoxOnlyStep DEF FetchFail, IInv, TypeOK

LEMMA LeaseInv ==
    ASSUME IInv, NEW b \in Box, Lease(b) \/ Expire(b)
    PROVE  IInv'
<1>1. box' = box /\ BoxOnly /\ leased' \subseteq Dhcp
  BY DEF Lease, Expire, IInv, TypeOK
<1>2. BoxesOK'
  BY <1>1 DEF IInv, BoxesOK, Configured, BoxOnly
<1> QED BY <1>1, <1>2, BoxOnlyStep DEF IInv, TypeOK, Configured

(* A step of the poller, an operator or the syslog receiver: it may write  *)
(* the table, add grants, and open or close forms.                         *)
LEMMA DeskStep ==
    ASSUME IInv, NEW o \in [Id -> Box],
           \A k \in Handler : req[k].id \in Id => req[k].box = o[req[k].id],
           devices' \in Table, profiles' \subseteq Profile,
           TableOK(devices', profiles'),
           tab' \in [Tab -> FormState \cup {Closed}], due' \subseteq Dhcp,
           granted' \in [Box -> SUBSET Profile],
           \A c \in Box : granted[c] \subseteq granted'[c],
           UNCHANGED <<req, box, leased>>,
           \A i \in Id : Fits(devices[i], o[i])',
           \A t \in Tab : tab'[t].id \in Id => Fits(tab[t].row, o[tab[t].id])'
    PROVE  IInv'
<1>1. TypeOK'
  BY DEF IInv, TypeOK
<1>2. TableIntegrity'
  BY DEF TableIntegrity
<1>3. BoxesOK'
  BY DEF IInv, BoxesOK, Configured, Opt
<1>4. \A c \in Box : Configured(c) => Configured(c)'
  BY DEF Configured
<1> QED BY <1>1, <1>2, <1>3, <1>4, OtherStep

(* The same, when only the table changes, and each new row fits its owner. *)
LEMMA TableStep ==
    ASSUME IInv, NEW o \in [Id -> Box], CopiesOwned(o),
           devices' \in Table, TableOK(devices', profiles),
           \A i \in Id : Fits(devices'[i], o[i]),
           due' \subseteq Dhcp,
           UNCHANGED <<profiles, req, box, tab, leased, granted>>
    PROVE  IInv'
<1>1. ASSUME NEW d, NEW c \in Box, Fits(d, c) PROVE Fits(d, c)'
  BY <1>1, FitsGrows DEF Configured
<1>2. \A i \in Id : o[i] \in Box
  OBVIOUS
<1>3. /\ \A i \in Id : Fits(devices[i], o[i])'
      /\ \A t \in Tab : tab'[t].id \in Id => Fits(tab[t].row, o[tab[t].id])'
  BY <1>1, <1>2 DEF CopiesOwned, Fits, Configured
<1>4. \A k \in Handler : req[k].id \in Id => req[k].box = o[req[k].id]
  BY DEF CopiesOwned
<1>5. /\ profiles' \subseteq Profile /\ TableOK(devices', profiles')
      /\ tab' \in [Tab -> FormState \cup {Closed}]
      /\ granted' \in [Box -> SUBSET Profile]
      /\ \A c \in Box : granted[c] \subseteq granted'[c]
  BY DEF IInv, TypeOK
<1> QED BY <1>3, <1>4, <1>5, DeskStep

LEMMA OwnersCopies ==
    ASSUME NEW o, Owners(o)
    PROVE  CopiesOwned(o)
BY DEF Owners, CopiesOwned

LEMMA PollLeasesInv ==
    ASSUME IInv, PollLeases
    PROVE  IInv'
<1>0. PICK o \in [Id -> Box] : Owners(o)
  BY DEF IInv, OneOwner
<1>1. /\ devices' \in Table /\ TableOK(devices', profiles)
      /\ due' \subseteq Dhcp
      /\ \A i \in Id : Fits(devices'[i], o[i])
  BY <1>0 DEF PollLeases, IInv, TypeOK, TableIntegrity, Owners
<1> QED BY <1>0, <1>1, OwnersCopies, TableStep DEF PollLeases

LEMMA PollInsertInv ==
    ASSUME IInv, NEW b \in Box, PollInsert(b)
    PROVE  IInv'
<1>0. PICK o \in [Id -> Box] : Owners(o)
  BY DEF IInv, OneOwner
<1> DEFINE r == NewRow(NULL, b)
<1>1. due' \subseteq Dhcp /\ UNCHANGED <<profiles, req, box, tab, leased, granted>>
  BY DEF PollInsert, IInv, TypeOK
<1>2. r \in Row /\ Fits(r, b)
  BY NewRowFits
<1>3. ASSUME NEW i \in Id, Fresh(i), Insertable(r), devices' = Insert(devices, i, r)
      PROVE  IInv'
  <2> DEFINE n == [o EXCEPT ![i] = b]
  <2>1. /\ devices' \in Table /\ TableOK(devices', profiles)
        /\ Fits(devices'[i], b)
        /\ \A j \in Id : j # i => devices'[j] = devices[j]
    BY <1>2, <1>3, InsertStep
  <2>2. /\ n \in [Id -> Box] /\ n[i] = b /\ CopiesOwned(n)
        /\ \A j \in Id : j # i => Fits(devices[j], n[j])
    BY <1>0, <1>3, FreshOwner
  <2>3. \A j \in Id : Fits(devices'[j], n[j])
    BY <2>1, <2>2
  <2> HIDE DEF n
  <2> QED BY <1>1, <2>1, <2>2, <2>3, TableStep
<1>4. CASE UNCHANGED devices
  <2>1. /\ devices' \in Table /\ TableOK(devices', profiles)
        /\ \A i \in Id : Fits(devices'[i], o[i])
    BY <1>0, <1>4 DEF IInv, TypeOK, TableIntegrity, Owners
  <2> QED BY <1>0, <1>1, <2>1, OwnersCopies, TableStep
<1> QED BY <1>3, <1>4 DEF PollInsert

LEMMA RemoveInv ==
    ASSUME IInv, NEW i \in Id, Remove(i)
    PROVE  IInv'
<1>0. PICK o \in [Id -> Box] : Owners(o)
  BY DEF IInv, OneOwner
<1>1. /\ devices \in Table /\ TableOK(devices, profiles)
      /\ devices' = Erase(devices, i)
  BY DEF Remove, IInv, TypeOK, TableIntegrity
<1>2. devices' \in Table /\ TableOK(devices', profiles)
  BY <1>1, EraseOK
<1>3. \A j \in Id : devices'[j] = devices[j] \/ devices'[j] = NoRow
  BY <1>1 DEF Erase, Table
<1>4. \A j \in Id : Fits(devices'[j], o[j])
  BY <1>0, <1>3, NoRowFits DEF Owners
<1> QED BY <1>0, <1>2, <1>4, OwnersCopies, TableStep DEF Remove, IInv, TypeOK

LEMMA SyslogProvisionedInv ==
    ASSUME IInv, NEW b \in Box, NEW i \in Id, SyslogProvisioned(b, i)
    PROVE  IInv'
<1>0. PICK o \in [Id -> Box] : Owners(o)
  BY DEF IInv, OneOwner
<1> DEFINE d == Provisioned(devices[i])
<1>1. /\ devices \in Table /\ TableOK(devices, profiles) /\ i \in Live(devices)
      /\ devices' = [devices EXCEPT ![i] = d]
      /\ devices[i] \in Row
  BY DEF SyslogProvisioned, IInv, TypeOK, TableIntegrity, Live, Table
<1>2. d = [devices[i] EXCEPT !.status = "provisioned", !.stamped = TRUE]
  BY DEF Provisioned
<1>3. devices' \in Table /\ TableOK(devices', profiles)
  BY <1>1, <1>2, StatusOK DEF Status
<1>4. o[i] = b /\ Fits(devices[i], b)
  BY <1>0 DEF SyslogProvisioned, Owners, Fits
<1>5. Fits(d, b)
  <2>1. d = Reported(devices[i], TRUE)
    BY DEF Reported
  <2> QED BY <1>1, <1>4, <2>1, ReportedFits DEF SyslogProvisioned
<1>6. \A j \in Id : Fits(devices'[j], o[j])
  BY <1>0, <1>1, <1>4, <1>5 DEF Table, Owners
<1> QED BY <1>0, <1>3, <1>6, OwnersCopies, TableStep
        DEF SyslogProvisioned, IInv, TypeOK

(* An operator who writes row r grants its profile to the box it is of. *)
LEMMA GrantOK ==
    ASSUME TypeOK, NEW r \in Row, Grant(r)
    PROVE  /\ granted' \in [Box -> SUBSET Profile]
           /\ \A c \in Box : granted[c] \subseteq granted'[c]
           /\ \A c \in Box : Owns(r, c) => r.profile \in Opt(granted'[c])
<1>1. r.profile \in Profile \/ r.profile = NULL
  BY DEF Row, Opt
<1>2. \A c \in Box : granted'[c] = IF Owns(r, c)
                                 THEN granted[c] \cup ({r.profile} \cap Profile)
                                 ELSE granted[c]
  BY DEF Grant
<1>3. granted' \in [Box -> SUBSET Profile]
  BY <1>2 DEF Grant, TypeOK
<1> QED BY <1>1, <1>2, <1>3 DEF Opt

LEMMA RegisterInv ==
    ASSUME IInv, NEW b \in Box, NEW s \in Opt(Box), NEW sp \in Spelling, NEW m \in Opt(Box),
           NEW p \in Opt(Profile), NEW a \in Opt(Addr), Register(b, s, sp, m, p, a)
    PROVE  IInv'
<1>0. PICK o \in [Id -> Box] : Owners(o)
  BY DEF IInv, OneOwner
<1> DEFINE r == [NewRow(s, m) EXCEPT !.spelt = sp, !.profile = p, !.mgmt = a]
<1>1. s \in {b, NULL} /\ m \in {b, NULL} /\ Insertable(r) /\ Grant(r)
  BY DEF Register
<1>2. /\ r \in Row /\ r.serial = s /\ r.mac = m /\ r.profile = p
  BY DEF NewRow, Row, Status, Spelling, Opt
<1>3. PICK i \in Id : Fresh(i) /\ devices' = Insert(devices, i, r)
  BY DEF Register
<1>4. /\ devices \in Table /\ TableOK(devices, profiles) /\ devices[i] = NoRow
  BY <1>3 DEF IInv, TypeOK, TableIntegrity, Fresh
<1>5. UNCHANGED <<profiles, req, box, tab, leased, due>>
  BY DEF Register
<1> HIDE DEF r
<1>6. devices' \in Table /\ TableOK(devices', profiles')
  BY <1>1, <1>2, <1>3, <1>4, <1>5, InsertOK DEF Insertable
<1>7. devices'[i] = Stored(r) /\ \A j \in Id : j # i => devices'[j] = devices[j]
  BY <1>3, <1>4 DEF Insert, Table
<1>8. /\ granted' \in [Box -> SUBSET Profile]
      /\ \A c \in Box : granted[c] \subseteq granted'[c]
      /\ \A c \in Box : Owns(r, c) => r.profile \in Opt(granted'[c])
  BY <1>1, <1>2, GrantOK DEF IInv
<1>9. ASSUME NEW d, NEW c \in Box, Fits(d, c) PROVE Fits(d, c)'
  BY <1>5, <1>8, <1>9, FitsGrows DEF Configured
<1>10. Fits(devices[i], b)'
  <2>1. Owns(r, b)
    BY <1>1, <1>2 DEF Insertable, Admits, Identified, Owns
  <2>2. \A c \in Box : Owns(r, c) => c = b
    BY <1>1, <1>2, NullBox DEF Owns
  <2>3. /\ Stored(r).serial = r.serial /\ Stored(r).mac = r.mac
        /\ Stored(r).profile = r.profile /\ Stored(r).status = "unknown"
    BY <1>2 DEF Stored, Row
  <2> QED BY <1>7, <1>8, <2>1, <2>2, <2>3 DEF Fits, Owns
<1> DEFINE n == [o EXCEPT ![i] = b]
<1>11. /\ n \in [Id -> Box] /\ n[i] = b /\ CopiesOwned(n)
       /\ \A j \in Id : j # i => Fits(devices[j], n[j])
  BY <1>0, <1>3, FreshOwner
<1> HIDE DEF n
<1>12. \A j \in Id : n[j] \in Box
  BY <1>11
<1>13. \A j \in Id : Fits(devices[j], n[j])'
  <2> TAKE j \in Id
  <2>1. CASE j = i
    BY <1>10, <1>11, <2>1
  <2>2. CASE j # i
    <3>1. Fits(devices[j], n[j]) /\ n[j] \in Box
      BY <1>11, <1>12, <2>2
    <3> QED BY <1>5, <1>7, <1>8, <2>2, <3>1 DEF Fits, Opt, Configured
  <2> QED BY <2>1, <2>2
<1>14. \A t \in Tab : tab'[t].id \in Id => Fits(tab[t].row, n[tab[t].id])'
  BY <1>5, <1>9, <1>11, <1>12 DEF CopiesOwned
<1>15. \A k \in Handler : req[k].id \in Id => req[k].box = n[req[k].id]
  BY <1>11 DEF CopiesOwned
<1> QED BY <1>5, <1>6, <1>8, <1>11, <1>13, <1>14, <1>15, DeskStep DEF IInv, TypeOK

LEMMA OpenFormInv ==
    ASSUME IInv, NEW t \in Tab, NEW i \in Id, OpenForm(t, i)
    PROVE  IInv'
<1>0. PICK o \in [Id -> Box] : Owners(o)
  BY DEF IInv, OneOwner
<1> DEFINE f == [id |-> i, row |-> devices[i]]
<1>1. /\ tab' = [tab EXCEPT ![t] = f]
      /\ UNCHANGED <<devices, profiles, req, box, leased, due, granted>>
      /\ devices[i] \in Row
  BY DEF OpenForm, IInv, TypeOK, Live, Table
<1>2. f \in FormState /\ f.id = i /\ f.row = devices[i]
  BY <1>1 DEF FormState
<1> HIDE DEF f
<1>3. /\ tab' \in [Tab -> FormState \cup {Closed}]
      /\ \A u \in Tab : tab'[u] = IF u = t THEN f ELSE tab[u]
  BY <1>1, <1>2 DEF IInv, TypeOK
<1>4. ASSUME NEW d, NEW c, Fits(d, c) PROVE Fits(d, c)'
  BY <1>1, <1>4 DEF Fits, Configured
<1>5. /\ \A j \in Id : Fits(devices[j], o[j])'
      /\ \A u \in Tab : tab'[u].id \in Id => Fits(tab'[u].row, o[tab'[u].id])
      /\ \A k \in Handler : req[k].id \in Id => req[k].box = o[req[k].id]
  BY <1>0, <1>1, <1>2, <1>3, <1>4 DEF Owners
<1>6. \A u \in Tab : tab'[u].id \in Id => Fits(tab[u].row, o[tab[u].id])'
  BY <1>4, <1>5
<1> QED BY <1>1, <1>3, <1>5, <1>6, DeskStep DEF IInv, TypeOK, TableIntegrity

LEMMA SaveFormInv ==
    ASSUME IInv, NEW t \in Tab, NEW p \in Opt(Profile), NEW a \in Opt(Addr),
           SaveForm(t, p, a)
    PROVE  IInv'
<1>0. PICK o \in [Id -> Box] : Owners(o)
  BY DEF IInv, OneOwner
<1> DEFINE i == tab[t].id
           r == [tab[t].row EXCEPT !.profile = p, !.mgmt = a]
           b == o[i]
<1>1. i \in Id /\ tab[t].row \in Row /\ Fits(tab[t].row, b) /\ b \in Box
  BY <1>0 DEF SaveForm, IInv, TypeOK, FormState, Owners
<1>2. /\ r \in Row /\ r.serial = tab[t].row.serial /\ r.mac = tab[t].row.mac
      /\ r.profile = p /\ r.status = tab[t].row.status
      /\ r.stamped = tab[t].row.stamped
  BY <1>1 DEF Row
<1>3. /\ devices' = Overwrite(devices, profiles, i, r)
      /\ tab' = [tab EXCEPT ![t] = Closed]
      /\ IF i \in Live(devices) /\ Admits(devices, profiles, i, r)
         THEN Grant(r) ELSE UNCHANGED granted
      /\ UNCHANGED <<profiles, req, box, leased, due>>
  BY DEF SaveForm
<1> HIDE DEF r
<1>4. devices \in Table /\ TableOK(devices, profiles)
  BY DEF IInv, TypeOK, TableIntegrity
<1>5. devices' \in Table /\ TableOK(devices', profiles')
  BY <1>2, <1>3, <1>4, OverwriteOK
<1>6. /\ granted' \in [Box -> SUBSET Profile]
      /\ \A c \in Box : granted[c] \subseteq granted'[c]
  BY <1>2, <1>3, GrantOK DEF IInv, TypeOK
<1>7. ASSUME NEW d, NEW c \in Box, Fits(d, c) PROVE Fits(d, c)'
  BY <1>3, <1>6, <1>7, FitsGrows DEF Configured
<1>8. \A j \in Id : o[j] \in Box
  OBVIOUS
<1>9. \A j \in Id : Fits(devices[j], o[j])'
  <2>1. CASE i \in Live(devices) /\ Admits(devices, profiles, i, r)
    <3>1. devices'[i] = r /\ \A j \in Id : j # i => devices'[j] = devices[j]
      BY <1>1, <1>3, <1>4, <2>1 DEF Overwrite, Table
    <3>2. Owns(r, b) /\ \A c \in Box : Owns(r, c) => c = b
      BY <1>1, <1>2, <2>1 DEF Admits, Identified, Row, Opt, Owns, Fits
    <3>3. r.profile \in Opt(granted'[b])
      BY <1>1, <1>2, <1>3, <2>1, <3>2, GrantOK DEF IInv
    <3> TAKE j \in Id
    <3>4. CASE j = i
      BY <1>1, <1>2, <1>3, <3>1, <3>2, <3>3, <3>4 DEF Fits, Owns, Configured
    <3>5. CASE j # i
      BY <1>0, <1>3, <1>6, <1>8, <3>1, <3>5 DEF Owners, Fits, Opt, Configured
    <3> QED BY <3>4, <3>5
  <2>2. CASE ~(i \in Live(devices) /\ Admits(devices, profiles, i, r))
    <3>1. UNCHANGED devices
      BY <1>3, <2>2 DEF Overwrite
    <3> QED BY <1>0, <1>7, <1>8, <3>1 DEF Owners
  <2> QED BY <2>1, <2>2
<1>10. /\ tab' \in [Tab -> FormState \cup {Closed}]
       /\ \A u \in Tab : tab'[u] = tab[u] \/ tab'[u] = Closed
  BY <1>3 DEF IInv, TypeOK
<1>11. \A u \in Tab : tab'[u].id \in Id => Fits(tab[u].row, o[tab[u].id])'
  <2> SUFFICES ASSUME NEW u \in Tab, tab'[u].id \in Id
               PROVE  Fits(tab[u].row, o[tab[u].id])'
    OBVIOUS
  <2>1. tab'[u] = tab[u]
    BY <1>10, NullBox DEF Closed
  <2>2. Fits(tab[u].row, o[tab[u].id]) /\ o[tab[u].id] \in Box
    BY <1>0, <2>1 DEF Owners
  <2>3. Fits(tab[u].row, o[tab[u].id])'
    BY <1>3, <1>6, <2>1, <2>2 DEF Fits, Opt, Configured
  <2> QED BY <2>3
<1>12. \A k \in Handler : req[k].id \in Id => req[k].box = o[req[k].id]
  BY <1>0 DEF Owners
<1> QED BY <1>3, <1>5, <1>6, <1>9, <1>10, <1>11, <1>12, DeskStep
        DEF IInv, TypeOK

LEMMA CloseFormInv ==
    ASSUME IInv, NEW t \in Tab, CloseForm(t)
    PROVE  IInv'
<1>0. PICK o \in [Id -> Box] : Owners(o)
  BY DEF IInv, OneOwner
<1>1. /\ tab' = [tab EXCEPT ![t] = Closed]
      /\ UNCHANGED <<devices, profiles, req, box, leased, due, granted>>
  BY DEF CloseForm
<1>2. /\ tab' \in [Tab -> FormState \cup {Closed}]
      /\ \A u \in Tab : tab'[u] = tab[u] \/ tab'[u] = Closed
  BY <1>1 DEF IInv, TypeOK
<1>3. ASSUME NEW d, NEW c, Fits(d, c) PROVE Fits(d, c)'
  BY <1>1, <1>3 DEF Fits, Configured
<1>4. /\ \A j \in Id : Fits(devices[j], o[j])'
      /\ \A u \in Tab : tab'[u].id \in Id => Fits(tab'[u].row, o[tab'[u].id])
      /\ \A k \in Handler : req[k].id \in Id => req[k].box = o[req[k].id]
  BY <1>0, <1>1, <1>2, <1>3, NullBox DEF Owners, Closed
<1>5. \A u \in Tab : tab'[u].id \in Id => Fits(tab[u].row, o[tab[u].id])'
  BY <1>3, <1>4
<1> QED BY <1>1, <1>2, <1>4, <1>5, DeskStep DEF IInv, TypeOK, TableIntegrity

LEMMA CreateProfileInv ==
    ASSUME IInv, NEW p \in Profile, CreateProfile(p)
    PROVE  IInv'
<1>0. PICK o \in [Id -> Box] : Owners(o)
  BY DEF IInv, OneOwner
<1>1. /\ profiles' = profiles \cup {p}
      /\ UNCHANGED <<devices, req, box, tab, leased, due, granted>>
  BY DEF CreateProfile
<1>2. TableOK(devices', profiles')
  BY <1>1, MoreProfiles DEF IInv, TableIntegrity
<1>3. ASSUME NEW d, NEW c, Fits(d, c) PROVE Fits(d, c)'
  BY <1>1, <1>3 DEF Fits, Configured
<1>4. /\ \A j \in Id : Fits(devices[j], o[j])'
      /\ \A u \in Tab : tab'[u].id \in Id => Fits(tab[u].row, o[tab[u].id])'
      /\ \A k \in Handler : req[k].id \in Id => req[k].box = o[req[k].id]
  BY <1>0, <1>1, <1>3 DEF Owners
<1> QED BY <1>1, <1>2, <1>4, DeskStep DEF IInv, TypeOK

LEMMA DeleteProfileInv ==
    ASSUME IInv, NEW p \in Profile, DeleteProfile(p)
    PROVE  IInv'
<1>0. PICK o \in [Id -> Box] : Owners(o)
  BY DEF IInv, OneOwner
<1>1. /\ profiles' = profiles \ {p} /\ devices' = Unassign(devices, p)
      /\ UNCHANGED <<req, box, tab, leased, due, granted>>
  BY DEF DeleteProfile
<1>2. devices \in Table /\ TableOK(devices, profiles)
  BY DEF IInv, TypeOK, TableIntegrity
<1>3. devices' \in Table /\ TableOK(devices', profiles')
  BY <1>1, <1>2, UnassignOK
<1>4. ASSUME NEW d, NEW c, Fits(d, c) PROVE Fits(d, c)'
  BY <1>1, <1>4 DEF Fits, Configured
<1>5. ASSUME NEW j \in Id
      PROVE  /\ devices'[j].serial = devices[j].serial
             /\ devices'[j].mac = devices[j].mac
             /\ devices'[j].status = devices[j].status
             /\ devices'[j].stamped = devices[j].stamped
             /\ devices'[j].profile \in {devices[j].profile, NULL}
  <2>1. devices[j] \in Row \cup {NoRow}
    BY <1>2 DEF Table
  <2>2. \/ devices'[j] = devices[j]
        \/ devices[j] \in Row /\ devices'[j] = [devices[j] EXCEPT !.profile = NULL]
    BY <1>1, <2>1 DEF Unassign, Live
  <2> QED BY <2>2 DEF Row
<1>6. \A j \in Id : Fits(devices[j], o[j])'
  BY <1>0, <1>1, <1>5 DEF Owners, Fits, Owns, Opt, Configured
<1>7. /\ \A u \in Tab : tab'[u].id \in Id => Fits(tab[u].row, o[tab[u].id])'
      /\ \A k \in Handler : req[k].id \in Id => req[k].box = o[req[k].id]
  BY <1>0, <1>1, <1>4 DEF Owners
<1> QED BY <1>1, <1>3, <1>6, <1>7, DeskStep DEF IInv, TypeOK

-----------------------------------------------------------------------------
(* The invariant. *)

LEMMA InitInv == Init => IInv
<1> SUFFICES ASSUME Init PROVE IInv
  OBVIOUS
<1>1. TypeOK
  BY NullBox DEF Init, TypeOK, EmptyTable, Table, BoxState, Phases, Opt
<1>2. Live(devices) = {}
  BY DEF Init, EmptyTable, Live
<1>3. TableIntegrity
  BY <1>2 DEF TableIntegrity, TableOK
<1>4. RequestsOK
  BY DEF Init, RequestsOK, Active, Idle
<1>5. BoxesOK
  BY DEF Init, BoxesOK, Configured, Opt
<1>6. OneOwner
  <2>1. PICK b \in Box : TRUE
    BY BoxAssumption
  <2> DEFINE o == [i \in Id |-> b]
  <2>2. o \in [Id -> Box] /\ \A i \in Id : Fits(devices[i], o[i])
    BY NoRowFits DEF Init, EmptyTable
  <2>3. Owners(o)
    BY <2>2, NullBox DEF Init, Owners, Idle, Closed
  <2> QED BY <2>2, <2>3 DEF OneOwner
<1> QED BY <1>1, <1>3, <1>4, <1>5, <1>6 DEF IInv

LEMMA ArrivalInv ==
    ASSUME IInv, NEW h \in Handler, NEW b \in Box, Arrival(h, b)
    PROVE  IInv'
<1>1. CASE Hello(h, b)
  BY <1>1, ArriveInv DEF Hello, Ops, Speaks
<1>2. CASE WorkRequest(h, b)
  BY <1>2, ArriveInv DEF WorkRequest, Ops, Speaks
<1>3. CASE ArubaConfig(h, b)
  BY <1>3, ArriveInv DEF ArubaConfig, Ops, Speaks
<1>4. CASE GetConfig(h, b)
  BY <1>4, GetConfigInv
<1>5. CASE \E ok \in BOOLEAN : WorkResult(h, b, ok)
  BY <1>5, WorkResultInv
<1>6. CASE JuniperConfig(h, b)
  BY <1>6, JuniperConfigInv
<1> QED BY <1>1, <1>2, <1>3, <1>4, <1>5, <1>6 DEF Arrival

LEMMA StutterInv ==
    ASSUME IInv, UNCHANGED vars
    PROVE  IInv'
<1>1. TypeOK' /\ TableIntegrity'
  BY DEF IInv, TypeOK, TableIntegrity, vars
<1>2. ASSUME NEW d, NEW b, Fits(d, b) PROVE Fits(d, b)'
  BY <1>2 DEF Fits, Configured, vars
<1>3. RequestsOK'
  BY <1>2 DEF IInv, RequestsOK, RequestOK, Active, vars
<1>4. BoxesOK'
  BY DEF IInv, BoxesOK, Configured, vars
<1>5. OneOwner'
  <2>1. PICK o \in [Id -> Box] : Owners(o)
    BY DEF IInv, OneOwner
  <2>2. /\ \A i \in Id : Fits(devices[i], o[i])'
        /\ \A h \in Handler : req'[h].id \in Id => req'[h].box = o[req'[h].id]
        /\ \A t \in Tab : tab'[t].id \in Id => Fits(tab[t].row, o[tab[t].id])'
    BY <1>2, <2>1 DEF Owners, vars
  <2> QED BY <2>2 DEF OneOwner, Owners
<1> QED BY <1>1, <1>3, <1>4, <1>5 DEF IInv

(* IInv is inductive. *)
LEMMA NextInv == IInv /\ [Next]_vars => IInv'
<1> SUFFICES ASSUME IInv, [Next]_vars PROVE IInv'
  OBVIOUS
<1>1. ASSUME NEW h \in Handler, HandlerStep(h) \/ Abort(h) \/ GiveUp(h)
      PROVE  IInv'
  <2>1. CASE RenderOK(h) \/ RenderFail(h)
    BY <2>1, RenderedOK DEF RenderOK, RenderFail
  <2> QED BY <1>1, <2>1, CreateInv, RefetchInv, TouchInv, MarkInv, SettleInv,
             RespondInv, AbortInv, GiveUpInv DEF HandlerStep
<1>2. ASSUME NEW h \in Handler, NEW b \in Box, Arrival(h, b) PROVE IInv'
  BY <1>2, ArrivalInv
<1>3. ASSUME NEW b \in Box, BoxStep(b) \/ PollInsert(b) PROVE IInv'
  BY <1>3, ApplyOKInv, ApplyFailInv, FetchFailInv, LeaseInv, PollInsertInv DEF BoxStep
<1>4. CASE PollLeases
  BY <1>4, PollLeasesInv
<1>5. CASE OperatorStep
  BY <1>5, RegisterInv, RemoveInv, OpenFormInv, SaveFormInv, CloseFormInv,
     CreateProfileInv, DeleteProfileInv DEF OperatorStep
<1>6. ASSUME NEW b \in Box, NEW i \in Id, SyslogProvisioned(b, i) PROVE IInv'
  BY <1>6, SyslogProvisionedInv
<1>7. CASE UNCHANGED vars
  BY <1>7, StutterInv
<1> QED BY <1>1, <1>2, <1>3, <1>4, <1>5, <1>6, <1>7 DEF Next

LEMMA Invariance == Spec => []IInv
<1> QED BY InitInv, NextInv, PTL DEF Spec

-----------------------------------------------------------------------------
(* The theorems. *)

(* Every variable keeps its type: rows, requests and forms are what the    *)
(* handlers expect of them in every reachable state.                       *)
THEOREM TypeCorrect == Spec => []TypeOK
<1>1. IInv => TypeOK
  BY DEF IInv
<1> QED BY <1>1, Invariance, PTL

(* A row never says provisioned without provisioned_at.                    *)
THEOREM ProvisionedIsStamped == Spec => []ProvisionedHasTime
<1>1. IInv => ProvisionedHasTime
  BY DEF IInv, OneOwner, Owners, Fits, ProvisionedHasTime, Live
<1> QED BY <1>1, Invariance, PTL

LEMMA ConfiguredByInv == IInv => ProvisionedIsConfigured
<1> SUFFICES ASSUME IInv, NEW b \in Cisco, NEW i \in Live(devices),
                    Owns(devices[i], b), devices[i].status = "provisioned"
             PROVE  Configured(b)
  BY DEF ProvisionedIsConfigured
<1>1. PICK o \in [Id -> Box] : Fits(devices[i], o[i])
  BY DEF IInv, OneOwner, Owners, Live
<1>2. b \in Box
  BY BoxAssumption
<1> QED BY <1>1, <1>2 DEF Fits

(* A Cisco row never says provisioned before the box runs a configuration. *)
THEOREM NoFalseRecord == Spec => []ProvisionedIsConfigured
BY ConfiguredByInv, Invariance, PTL

(* No box ever runs a configuration that nobody assigned to it.            *)
THEOREM NoStrayConfiguration == Spec => []RunsOnlyAssigned
<1>1. IInv => RunsOnlyAssigned
  BY DEF IInv, BoxesOK, RunsOnlyAssigned, Configured, Opt
<1> QED BY <1>1, Invariance, PTL

(* The rows that a step adds are new registrations. *)
Registered ==
    \A i \in Live(devices') \ Live(devices) :
        devices'[i].status = "unknown" /\ ~devices'[i].stamped

LEMMA HandlerRegisters ==
    ASSUME IInv, NEW h \in Handler, HandlerStep(h)
    PROVE  Registered
<1>1. devices \in Table
  BY DEF IInv, TypeOK
<1>2. CASE UNCHANGED devices
  BY <1>2 DEF Registered
<1>3. ASSUME NEW i, NEW d, devices' = Overwrite(devices, profiles, i, d)
      PROVE  Registered
  BY <1>1, <1>3, OverwriteLive DEF Registered
<1>4. CASE Create(h)
  <2>1. Active(h) /\ req[h].pc = "create"
    BY <1>4 DEF Create, Active
  <2>2. req[h].dev \in Row
    BY <2>1 DEF IInv, RequestsOK, RequestOK
  <2>3. ASSUME NEW i \in Id, devices' = Insert(devices, i, req[h].dev)
        PROVE  Registered
    BY <1>1, <2>2, <2>3, InsertLive DEF Registered
  <2> QED BY <1>2, <1>4, <2>3 DEF Create
<1>5. CASE Refetch(h) \/ RenderOK(h) \/ RenderFail(h) \/ Respond(h)
  BY <1>2, <1>5 DEF Refetch, RenderOK, RenderFail, Respond, Serving
<1>6. CASE Touch(h) \/ Mark(h) \/ Settle(h)
  BY <1>3, <1>6 DEF Touch, Mark, Settle
<1> QED BY <1>4, <1>5, <1>6 DEF HandlerStep

LEMMA OperatorRegisters ==
    ASSUME IInv, OperatorStep
    PROVE  Registered
<1>1. devices \in Table
  BY DEF IInv, TypeOK
<1>2. ASSUME NEW b \in Box, NEW s \in Opt(Box), NEW sp \in Spelling, NEW m \in Opt(Box),
             NEW p \in Opt(Profile), NEW a \in Opt(Addr), Register(b, s, sp, m, p, a)
      PROVE  Registered
  <2> DEFINE r == [NewRow(s, m) EXCEPT !.spelt = sp, !.profile = p, !.mgmt = a]
  <2>1. r \in Row
    BY DEF NewRow, Row, Status, Spelling, Opt
  <2> HIDE DEF r
  <2> QED BY <1>1, <1>2, <2>1, InsertLive DEF Register, Registered, r
<1>3. ASSUME NEW i \in Id, Remove(i) PROVE Registered
  BY <1>1, <1>3, EraseLive DEF Remove, Registered
<1>4. ASSUME NEW t \in Tab, NEW i \in Id, OpenForm(t, i)
      PROVE  Registered
  BY <1>4 DEF OpenForm, Registered
<1>5. ASSUME NEW t \in Tab, NEW p \in Opt(Profile), NEW a \in Opt(Addr),
             SaveForm(t, p, a)
      PROVE  Registered
  BY <1>1, <1>5, OverwriteLive DEF SaveForm, Registered
<1>6. ASSUME NEW p \in Profile, CreateProfile(p) \/ DeleteProfile(p)
      PROVE  Registered
  BY <1>6, UnassignLive DEF CreateProfile, DeleteProfile, Registered
<1>7. ASSUME NEW t \in Tab, CloseForm(t) PROVE Registered
  BY <1>7 DEF CloseForm, Registered
<1> QED BY <1>2, <1>3, <1>4, <1>5, <1>6, <1>7 DEF OperatorStep

LEMMA NextRegisters == IInv /\ [Next]_vars => Registered
<1> SUFFICES ASSUME IInv, [Next]_vars PROVE Registered
  OBVIOUS
<1>1. CASE UNCHANGED devices
  BY <1>1 DEF Registered
<1>2. ASSUME NEW h \in Handler, HandlerStep(h) \/ Abort(h) \/ GiveUp(h)
      PROVE  Registered
  BY <1>1, <1>2, HandlerRegisters DEF Abort, GiveUp, Serving
<1>3. ASSUME NEW h \in Handler, NEW b \in Box, Arrival(h, b) PROVE Registered
  BY <1>1, <1>3 DEF Arrival, Hello, WorkRequest, GetConfig, WorkResult, JuniperConfig,
     ArubaConfig, Arrive, Serving
<1>4. ASSUME NEW b \in Box, BoxStep(b) PROVE Registered
  BY <1>1, <1>4 DEF BoxStep, ApplyOK, ApplyFail, FetchFail, Lease, Expire, BoxOnly
<1>5. ASSUME NEW b \in Box, PollInsert(b) PROVE Registered
  BY <1>1, <1>5, NewRowFits, InsertLive DEF PollInsert, IInv, TypeOK, Registered
<1>6. CASE PollLeases
  BY <1>1, <1>6 DEF PollLeases
<1>7. ASSUME NEW b \in Box, NEW i \in Id, SyslogProvisioned(b, i) PROVE Registered
  BY <1>7 DEF SyslogProvisioned, IInv, TypeOK, Table, Live, Registered
<1>8. CASE UNCHANGED vars
  BY <1>1, <1>8 DEF vars
<1> QED BY <1>2, <1>3, <1>4, <1>5, <1>6, <1>7, <1>8, OperatorRegisters DEF Next

(* A row that was deleted is never written back by a request or a form.    *)
THEOREM DeletedStaysDeleted == Spec => NoResurrection
<1>1. IInv /\ [Next]_vars => Registered
  BY NextRegisters
<1>2. Registered =>
        \A i \in Live(devices') \ Live(devices) :
           devices'[i].status = "unknown" /\ ~devices'[i].stamped
  BY DEF Registered
<1> QED BY <1>1, <1>2, Invariance, PTL DEF Spec, NoResurrection

-----------------------------------------------------------------------------
(* Registration.  Row d has the identifiers of row r, except that a box    *)
(* that speaks ZTP may have been given its MAC address in between.         *)
Alike(d, r) == /\ d.serial = r.serial /\ d.spelt = r.spelt
               /\ (d.mac = r.mac \/ d.serial \in Juniper)

(* No step takes a row away, or a box from its row. *)
Kept == \A i \in Live(devices) : i \in Live(devices') /\ Alike(devices'[i], devices[i])

CopyOf(tbl, i, d) == i \in Id => i \in Live(tbl) /\ Alike(d, tbl[i])

(* Request r knows of its box what the next statement needs: what to       *)
(* insert, that a MAC address is missing, that the row is there.           *)
Registers(tbl, r) ==
    /\ r.pc = "create" /\ r.op # "juniper" =>
         r.dev = IF r.op = "aruba" THEN NewRow(NULL, r.box) ELSE NewRow(r.box, NULL)
    /\ r.pc = "touch" => r.dev.serial \in Juniper
    /\ r.pc = "refetch" /\ r.op # "juniper" => Find(tbl, Key(r.op), r.box) # {}

RegistrationInv ==
    /\ \A h \in Handler : CopyOf(devices, req[h].id, req[h].dev) /\ Registers(devices, req[h])
    /\ \A t \in Tab : CopyOf(devices, tab[t].id, tab[t].row)

LEMMA AlikeRows ==
    /\ \A d : Alike(d, d)
    /\ \A d, e, r : Alike(d, r) /\ Alike(e, r) => Alike(d, e)
    /\ \A d, e, r : Alike(d, e) /\ Alike(r, e) => Alike(d, r)
BY DEF Alike

(* A copy stays one of its row, and a row that was found stays there. *)
LEMMA KeptCopies ==
    ASSUME Kept, NEW i, NEW d, CopyOf(devices, i, d)
    PROVE  CopyOf(devices', i, d)
BY DEF Kept, CopyOf, Alike

LEMMA KeptRows ==
    ASSUME IInv, Kept, NEW h \in Handler, Active(h), Registers(devices, req[h])
    PROVE  Registers(devices', req[h])
<1> DEFINE r == req[h]
<1>1. SUFFICES ASSUME r.pc = "refetch", r.op # "juniper",
                      NEW i \in Find(devices, Key(r.op), r.box)
               PROVE  i \in Find(devices', Key(r.op), r.box)
  BY DEF Registers
<1>2. PICK o \in [Id -> Box] : Owners(o)
  BY DEF IInv, OneOwner
<1>3. i \in Id /\ i \in Live(devices') /\ Alike(devices'[i], devices[i])
  BY <1>1 DEF Find, Kept, Live
<1>4. r.box \in Box /\ Fits(devices[i], o[i])
  BY <1>2, <1>3, InFlight DEF Owners
<1>5. CASE r.op = "aruba"
  <2>1. devices[i].mac = r.box /\ r.box \in Aruba
    BY <1>1, <1>2, <1>5, InFlight DEF Find, Key, Speaks
  <2>2. devices[i].serial \notin Juniper
    BY <1>4, <2>1, BoxAssumption DEF Fits, Owns
  <2> QED BY <1>3, <1>5, <2>1, <2>2 DEF Find, Key, Alike
<1>6. CASE r.op # "aruba"
  BY <1>1, <1>3, <1>6 DEF Find, Key, Alike
<1> QED BY <1>5, <1>6

LEMMA IdleRegisters == (\A tbl : Registers(tbl, Idle)) /\ ~(Idle.id \in Id)
BY NullBox DEF Registers, Idle

(* A step that keeps the rows, and after which the requests and forms that *)
(* changed are in order.                                                   *)
LEMMA RegistrationStep ==
    ASSUME IInv, RegistrationInv, Kept,
           \A h \in Handler : \/ req'[h] = req[h]
                              \/ CopyOf(devices', req'[h].id, req'[h].dev) /\ Registers(devices', req'[h]),
           \A t \in Tab : \/ tab'[t] = tab[t]
                          \/ CopyOf(devices', tab'[t].id, tab'[t].row)
    PROVE  RegistrationInv'
<1>1. ASSUME NEW h \in Handler PROVE CopyOf(devices', req'[h].id, req'[h].dev) /\ Registers(devices', req'[h])
  <2>1. CASE req'[h] = req[h] /\ Active(h)
    BY <2>1, KeptCopies, KeptRows DEF RegistrationInv
  <2>2. CASE req'[h] = req[h] /\ ~Active(h)
    <3>1. req[h] = Idle
      BY <2>2 DEF IInv, TypeOK, Active, Request, Steps
    <3> QED BY <2>2, <3>1, IdleRegisters DEF CopyOf, Registers, Idle
  <2> QED BY <2>1, <2>2
<1>2. ASSUME NEW t \in Tab PROVE CopyOf(devices', tab'[t].id, tab'[t].row)
  BY KeptCopies DEF RegistrationInv
<1> QED BY <1>1, <1>2 DEF RegistrationInv

(* The forms and the table are left alone. *)
LEMMA KeptSame == ASSUME UNCHANGED devices PROVE Kept
BY AlikeRows DEF Kept

LEMMA KeptInsert ==
    ASSUME IInv, NEW i \in Id, Fresh(i), NEW r \in Row, devices' = Insert(devices, i, r)
    PROVE  Kept
<1>1. i \notin Live(devices) /\ \A j \in Id : j # i => devices'[j] = devices[j]
  BY DEF Fresh, Live, Insert, IInv, TypeOK, Table
<1> QED BY <1>1, AlikeRows DEF Kept, Live

LEMMA KeptOverwrite ==
    ASSUME IInv, NEW i, NEW d, i \in Live(devices) => Alike(d, devices[i]),
           devices' = Overwrite(devices, profiles, i, d)
    PROVE  Kept
<1>1. CASE i \in Live(devices) /\ Admits(devices, profiles, i, d)
  <2>1. d # NoRow
    BY <1>1 DEF Admits, Identified, NoRow
  <2>2. devices' = [devices EXCEPT ![i] = d] /\ i \in Id
    BY <1>1 DEF Overwrite, Live
  <2>3. devices'[i] = d /\ \A j \in Id : j # i => devices'[j] = devices[j]
    BY <2>2 DEF IInv, TypeOK, Table
  <2> QED BY <1>1, <2>1, <2>3, AlikeRows DEF Kept, Live
<1>2. CASE ~(i \in Live(devices) /\ Admits(devices, profiles, i, d))
  BY <1>2, KeptSame DEF Overwrite
<1> QED BY <1>1, <1>2

(* What a request becomes: an answer, a statement on a copy, or nothing.   *)
LEMMA AnswerRegisters ==
    ASSUME NEW op, NEW b, NEW ok, NEW p, NEW peer
    PROVE  /\ CopyOf(devices', Reply(op, b, ok, p, peer).id, Reply(op, b, ok, p, peer).dev)
           /\ Registers(devices', Reply(op, b, ok, p, peer))
BY NullBox DEF Reply, CopyOf, Registers

LEMMA RoutedRegisters ==
    ASSUME NEW op, NEW b, NEW i, NEW d, NEW peer, CopyOf(devices', i, d)
    PROVE  /\ CopyOf(devices', Routed(op, b, i, d, peer).id, Routed(op, b, i, d, peer).dev)
           /\ Registers(devices', Routed(op, b, i, d, peer))
<1>1. CASE Routed(op, b, i, d, peer) = At("mark", op, b, i, d, peer)
  BY <1>1 DEF At, CopyOf, Registers
<1>2. CASE Routed(op, b, i, d, peer) = Deny(op, b, peer)
  BY <1>2, AnswerRegisters DEF Deny
<1> QED BY <1>1, <1>2 DEF Routed

LEMMA JuniperFoundRegisters ==
    ASSUME IInv, UNCHANGED devices, NEW b \in Juniper,
           NEW i \in Find(devices, "serial", b), NEW m, NEW peer
    PROVE  /\ CopyOf(devices', JuniperFound(b, i, m, peer).id, JuniperFound(b, i, m, peer).dev)
           /\ Registers(devices', JuniperFound(b, i, m, peer))
<1> DEFINE d == Backfilled(devices[i], m)
<1>1. i \in Id /\ i \in Live(devices) /\ devices[i].serial = b /\ devices[i] \in Row
  BY DEF Find, Live, IInv, TypeOK, Table
<1>2. d.serial = b /\ d.spelt = devices[i].spelt
  <2>1. CASE devices[i].mac = NULL
    BY <1>1, <2>1 DEF Backfilled, Row
  <2>2. CASE devices[i].mac # NULL
    BY <1>1, <2>2 DEF Backfilled
  <2> QED BY <2>1, <2>2
<1>3. CopyOf(devices', i, d)
  BY <1>1, <1>2 DEF CopyOf, Alike
<1> HIDE DEF d
<1>4. CASE JuniperFound(b, i, m, peer) = At("touch", "juniper", b, i, d, peer)
  BY <1>2, <1>3, <1>4 DEF At, CopyOf, Registers
<1>5. CASE JuniperFound(b, i, m, peer) = Routed("juniper", b, i, d, peer)
  BY <1>3, <1>5, RoutedRegisters
<1> QED BY <1>4, <1>5 DEF JuniperFound, d

(* A step of one request that changes no form. *)
LEMMA HandlerStepRegisters ==
    ASSUME IInv, RegistrationInv, Kept, NEW h \in Handler, NEW r,
           req' = [req EXCEPT ![h] = r],
           CopyOf(devices', r.id, r.dev) /\ Registers(devices', r),
           UNCHANGED tab
    PROVE  RegistrationInv'
<1>1. \A k \in Handler : req'[k] = IF k = h THEN r ELSE req[k]
  BY DEF IInv, TypeOK
<1>2. \A k \in Handler : \/ req'[k] = req[k]
                         \/ CopyOf(devices', req'[k].id, req'[k].dev) /\ Registers(devices', req'[k])
  BY <1>1
<1> QED BY <1>2, RegistrationStep
LEMMA ServingRegisters ==
    ASSUME IInv, RegistrationInv, NEW h \in Handler, NEW r, Serving(h, r),
           CopyOf(devices, r.id, r.dev), Registers(devices, r)
    PROVE  RegistrationInv'
BY KeptSame, HandlerStepRegisters DEF Serving

LEMMA ArrivalRegisters ==
    ASSUME IInv, RegistrationInv, NEW h \in Handler, NEW b \in Box, Arrival(h, b)
    PROVE  RegistrationInv'
<1> DEFINE Good(r) == CopyOf(devices, r.id, r.dev) /\ Registers(devices, r)
<1>1. UNCHANGED <<devices, tab>>
  BY DEF Arrival, Hello, WorkRequest, GetConfig, WorkResult, JuniperConfig, ArubaConfig,
         Arrive, Serving
<1>2. \A i \in Id : CopyOf(devices, i, devices[i]) \/ i \notin Live(devices)
  BY AlikeRows DEF CopyOf
<1>3. ASSUME NEW op, NEW key, NEW i \in Find(devices, key, b)
      PROVE  Good(Routed(op, b, i, devices[i], "waiting"))
  <2>1. CopyOf(devices', i, devices[i])
    BY <1>1, <1>2 DEF Find, Live
  <2> QED BY <1>1, <2>1, RoutedRegisters
<1>4. \A op : Good(Deny(op, b, "waiting"))
  BY <1>1, AnswerRegisters DEF Deny
<1>5. ASSUME NEW op \in {"hello", "work", "aruba"}, Arrive(h, b, op)
      PROVE  \E r : Serving(h, r) /\ Good(r)
  <2>1. Good(At("create", op, b, NULL, IF op = "aruba" THEN NewRow(NULL, b) ELSE NewRow(b, NULL), "waiting"))
    BY NullBox DEF At, CopyOf, Registers
  <2> QED BY <1>3, <1>5, <2>1 DEF Arrive
<1>6. CASE GetConfig(h, b)
  BY <1>3, <1>4, <1>6, ServingRegisters DEF GetConfig
<1>7. ASSUME NEW ok \in BOOLEAN, WorkResult(h, b, ok)
      PROVE  \E r : Serving(h, r) /\ Good(r)
  <2>1. ASSUME NEW i \in Find(devices, "serial", b)
        PROVE  Good(At("settle", "result", b, i, Reported(devices[i], ok), "waiting"))
    <3>1. i \in Live(devices) /\ devices[i] \in Row
      BY DEF Find, Live, IInv, TypeOK, Table
    <3>2. Alike(Reported(devices[i], ok), devices[i])
      BY <3>1 DEF Reported, Provisioned, Row, Alike
    <3> QED BY <3>1, <3>2 DEF At, CopyOf, Registers
  <2> QED BY <1>4, <1>7, <2>1 DEF WorkResult
<1>8. ASSUME JuniperConfig(h, b)
      PROVE  \E r : Serving(h, r) /\ Good(r)
  <2>1. \A m : Good(At("create", "juniper", b, NULL, NewRow(b, m), "waiting"))
    BY NullBox DEF At, CopyOf, Registers
  <2>2. ASSUME NEW i \in Find(devices, "serial", b), NEW m
        PROVE  Good(JuniperFound(b, i, m, "waiting"))
    BY <1>1, <1>8, JuniperFoundRegisters DEF JuniperConfig
  <2> QED BY <1>8, <2>1, <2>2 DEF JuniperConfig
<1>9. \E r : Serving(h, r) /\ Good(r)
  <2>1. CASE GetConfig(h, b)
    BY <1>3, <1>4, <2>1 DEF GetConfig
  <2> QED BY <1>5, <1>7, <1>8, <2>1 DEF Arrival, Hello, WorkRequest, ArubaConfig
<1> QED BY <1>9, ServingRegisters

LEMMA CreateRegisters ==
    ASSUME IInv, RegistrationInv, NEW h \in Handler, Create(h)
    PROVE  RegistrationInv'
<1> DEFINE r == req[h]
<1>1. Active(h) /\ r.pc = "create" /\ UNCHANGED tab
  BY DEF Create, Active
<1>2. r \in Request /\ r.dev \in Row /\ r.box \in Box
  BY <1>1 DEF IInv, TypeOK, RequestsOK, RequestOK, Active, Idle, Request
<1>3. CASE \E i \in Id : /\ Fresh(i)
                         /\ devices' = Insert(devices, i, r.dev)
                         /\ req' = [req EXCEPT ![h] = Deny(r.op, r.box, r.peer)]
  <2>1. Kept
    BY <1>2, <1>3, KeptInsert
  <2>2. /\ CopyOf(devices', Deny(r.op, r.box, r.peer).id, Deny(r.op, r.box, r.peer).dev)
        /\ Registers(devices', Deny(r.op, r.box, r.peer))
    BY AnswerRegisters DEF Deny
  <2> QED BY <1>1, <1>3, <2>1, <2>2, HandlerStepRegisters
<1>4. CASE ~Insertable(r.dev) /\ req' = [req EXCEPT ![h].pc = "refetch"] /\ UNCHANGED devices
  <2> DEFINE n == [r EXCEPT !.pc = "refetch"]
  <2>1. /\ n.pc = "refetch" /\ n.op = r.op /\ n.box = r.box
        /\ n.id = r.id /\ n.dev = r.dev
    BY <1>2 DEF Request
  <2>2. CopyOf(devices, n.id, n.dev)
    BY <2>1 DEF RegistrationInv
  <2>3. ASSUME r.op # "juniper" PROVE Find(devices, Key(r.op), r.box) # {}
    <3>1. r.dev = IF r.op = "aruba" THEN NewRow(NULL, r.box) ELSE NewRow(r.box, NULL)
      BY <1>1, <2>3 DEF RegistrationInv, Registers
    <3>2. Identified(r.dev) /\ r.dev.profile \in Opt(profiles)
      BY <1>2, <3>1, NullBox DEF NewRow, Identified, Opt
    <3>3. PICK j \in Live(devices) : Clash(devices[j], r.dev)
      BY <1>4, <3>2 DEF Insertable, Admits
    <3> QED BY <3>1, <3>3 DEF NewRow, Clash, Key, Find
  <2>4. Registers(devices, n)
    BY <2>1, <2>3 DEF Registers
  <2>5. req' = [req EXCEPT ![h] = n]
    BY <1>4
  <2> HIDE DEF n
  <2> QED BY <1>1, <1>4, <2>2, <2>4, <2>5, KeptSame, HandlerStepRegisters
<1> QED BY <1>3, <1>4 DEF Create

LEMMA RefetchRegisters ==
    ASSUME IInv, RegistrationInv, NEW h \in Handler, Refetch(h)
    PROVE  RegistrationInv'
<1> DEFINE r == req[h]
           Good(s) == CopyOf(devices, s.id, s.dev) /\ Registers(devices, s)
<1>1. Active(h) /\ UNCHANGED devices
  BY DEF Refetch, Active, Serving
<1>2. Speaks(r.op, r.box)
  BY <1>1, InFlight DEF IInv, OneOwner
<1>3. ASSUME NEW i \in Find(devices, Key(r.op), r.box)
      PROVE  /\ r.op = "juniper" => Good(JuniperFound(r.box, i, r.dev.mac, r.peer))
             /\ Good(Routed(r.op, r.box, i, devices[i], r.peer))
  <2>1. CopyOf(devices, i, devices[i])
    BY AlikeRows DEF CopyOf, Find
  <2>2. r.op = "juniper" => r.box \in Juniper /\ Key(r.op) = "serial"
    BY <1>2 DEF Speaks, Key
  <2> QED BY <1>1, <2>1, <2>2, JuniperFoundRegisters, RoutedRegisters
<1>4. Good(Deny(r.op, r.box, r.peer))
  BY <1>1, AnswerRegisters DEF Deny
<1> QED BY <1>3, <1>4, ServingRegisters DEF Refetch

(* What a rendering or its outcome makes of a copy identifies the same box.*)
LEMMA AlikeCopies ==
    ASSUME NEW d \in Row, NEW ok \in BOOLEAN
    PROVE  Alike(Marked(d), d) /\ Alike(Reported(d, ok), d)
BY DEF Marked, Reported, Provisioned, Row, Alike

LEMMA WritesRegister ==
    ASSUME IInv, RegistrationInv, NEW h \in Handler, Touch(h) \/ Mark(h) \/ Settle(h)
    PROVE  RegistrationInv'
<1> DEFINE r == req[h]
<1>1. Active(h) /\ r.pc \in {"touch", "mark", "settle"} /\ UNCHANGED tab
  BY DEF Touch, Mark, Settle, Active
<1>2. r \in Request /\ r.dev \in Row /\ r.id \in Id
  BY <1>1 DEF IInv, TypeOK, RequestsOK, RequestOK, Active, Idle, Request
<1>3. CopyOf(devices, r.id, r.dev) /\ r.id \in Live(devices) /\ Alike(r.dev, devices[r.id])
  BY <1>2 DEF RegistrationInv, CopyOf
<1>4. CASE Touch(h)
  <2> DEFINE d == [devices[r.id] EXCEPT !.mac = r.dev.mac]
  <2>1. devices[r.id] \in Row
    BY <1>2, <1>3 DEF IInv, TypeOK, Table, Live
  <2>2. d.serial = devices[r.id].serial /\ r.dev.serial \in Juniper
    BY <1>4, <2>1 DEF Touch, Row, RegistrationInv, Registers
  <2>3. Alike(d, devices[r.id])
    BY <1>3, <2>2 DEF Alike
  <2>4. Kept
    BY <1>4, <2>3, KeptOverwrite DEF Touch
  <2>5. CopyOf(devices', r.id, r.dev)
    BY <1>3, <2>4, KeptCopies
  <2> QED BY <1>1, <1>4, <2>4, <2>5, RoutedRegisters, HandlerStepRegisters DEF Touch
<1>5. CASE Mark(h)
  <2> DEFINE d == Marked(r.dev)
             n == IF r.op = "work" THEN Offer(r.box, r.peer) ELSE At("render", r.op, r.box, r.id, d, r.peer)
  <2>1. Alike(d, r.dev) /\ Alike(d, devices[r.id])
    BY <1>2, <1>3, AlikeCopies, AlikeRows DEF Alike
  <2>2. Kept
    BY <1>5, <2>1, KeptOverwrite DEF Mark
  <2>3. CopyOf(devices', r.id, d)
    BY <1>3, <2>1, <2>2, KeptCopies DEF CopyOf
  <2>4. CopyOf(devices', n.id, n.dev) /\ Registers(devices', n)
    <3>1. CASE r.op = "work"
      BY <3>1, AnswerRegisters DEF Offer
    <3>2. CASE r.op # "work"
      <4>1. n.id = r.id /\ n.dev = d /\ n.pc = "render"
        BY <3>2 DEF At
      <4> QED BY <2>3, <4>1 DEF Registers
    <3> QED BY <3>1, <3>2
  <2>5. req' = [req EXCEPT ![h] = n]
    BY <1>5 DEF Mark
  <2> HIDE DEF n
  <2> QED BY <1>1, <2>2, <2>4, <2>5, HandlerStepRegisters
<1>6. CASE Settle(h)
  <2>1. Kept
    BY <1>3, <1>6, KeptOverwrite DEF Settle
  <2> QED BY <1>1, <1>6, <2>1, AnswerRegisters, HandlerStepRegisters DEF Settle
<1> QED BY <1>4, <1>5, <1>6

LEMMA RenderRegisters ==
    ASSUME IInv, RegistrationInv, NEW h \in Handler, RenderOK(h) \/ RenderFail(h)
    PROVE  RegistrationInv'
<1>1. PICK ok \in BOOLEAN : Serving(h, Rendered(req[h], ok))
  BY DEF RenderOK, RenderFail
<1> DEFINE r == req[h]
           n == Rendered(r, ok)
<1>2. Active(h) /\ r.pc = "render" /\ UNCHANGED devices
  BY <1>1 DEF RenderOK, RenderFail, Active, Serving
<1>3. r \in Request /\ r.dev \in Row
  BY <1>2 DEF IInv, TypeOK, RequestsOK, RequestOK, Active, Idle, Request
<1>4. CopyOf(devices, n.id, n.dev) /\ Registers(devices, n)
  <2>1. CASE r.op = "config"
    BY <1>2, <2>1, AnswerRegisters DEF Rendered
  <2>2. CASE r.op # "config"
    <3>1. n.id = r.id /\ n.dev = Reported(r.dev, ok) /\ n.pc = "settle"
      BY <1>3, <2>2 DEF Rendered, Request
    <3>2. CopyOf(devices, r.id, r.dev)
      BY DEF RegistrationInv
    <3> QED BY <1>3, <3>1, <3>2, AlikeCopies DEF CopyOf, Registers, Alike
  <2> QED BY <2>1, <2>2
<1> QED BY <1>1, <1>4, ServingRegisters

LEMMA HandlersRegister ==
    ASSUME IInv, RegistrationInv, NEW h \in Handler, HandlerStep(h) \/ Abort(h) \/ GiveUp(h)
    PROVE  RegistrationInv'
<1>1. CASE Respond(h)
  BY <1>1, KeptSame, HandlerStepRegisters, IdleRegisters DEF Respond, CopyOf
<1>2. CASE Abort(h)
  BY <1>2, ServingRegisters, IdleRegisters DEF Abort, CopyOf
<1>3. CASE GiveUp(h)
  <2> DEFINE n == [req[h] EXCEPT !.peer = "gone"]
  <2>1. req[h] \in Request
    BY <1>3 DEF GiveUp, IInv, TypeOK, Idle
  <2>2. n.pc = req[h].pc /\ n.op = req[h].op /\ n.box = req[h].box
        /\ n.id = req[h].id /\ n.dev = req[h].dev
    BY <2>1 DEF Request
  <2>3. CopyOf(devices, n.id, n.dev) /\ Registers(devices, n)
    BY <2>2 DEF RegistrationInv, Registers
  <2> HIDE DEF n
  <2> QED BY <1>3, <2>3, ServingRegisters DEF GiveUp, n
<1> QED BY <1>1, <1>2, <1>3, CreateRegisters, RefetchRegisters, WritesRegister, RenderRegisters
        DEF HandlerStep

(* A step of nobody's request: the rows are kept, a form is opened on a    *)
(* row, saved or closed.                                                   *)
LEMMA TableRegisters ==
    ASSUME IInv, RegistrationInv, Kept, UNCHANGED req,
           \/ UNCHANGED tab
           \/ \E t \in Tab : tab' = [tab EXCEPT ![t] = Closed]
           \/ \E t \in Tab, i \in Live(devices) :
                tab' = [tab EXCEPT ![t] = [id |-> i, row |-> devices[i]]] /\ UNCHANGED devices
    PROVE  RegistrationInv'
<1>1. ASSUME NEW t \in Tab PROVE tab'[t] = tab[t] \/ CopyOf(devices', tab'[t].id, tab'[t].row)
  <2>1. CASE UNCHANGED tab
    BY <2>1
  <2>2. ASSUME NEW u \in Tab, tab' = [tab EXCEPT ![u] = Closed]
        PROVE  tab'[t] = tab[t] \/ CopyOf(devices', tab'[t].id, tab'[t].row)
    BY <2>2, NullBox DEF IInv, TypeOK, Closed, CopyOf
  <2>3. ASSUME NEW u \in Tab, NEW i \in Live(devices), UNCHANGED devices,
               tab' = [tab EXCEPT ![u] = [id |-> i, row |-> devices[i]]]
        PROVE  tab'[t] = tab[t] \/ CopyOf(devices', tab'[t].id, tab'[t].row)
    BY <2>3, AlikeRows DEF IInv, TypeOK, CopyOf
  <2> QED BY <2>1, <2>2, <2>3
<1> QED BY <1>1, RegistrationStep

LEMMA OperatorsRegister ==
    ASSUME IInv, RegistrationInv, "remove" \notin Operator, OperatorStep
    PROVE  RegistrationInv'
<1>1. ASSUME NEW b \in Box, NEW s \in Opt(Box), NEW sp \in Spelling, NEW m \in Opt(Box),
             NEW p \in Opt(Profile), NEW a \in Opt(Addr), Register(b, s, sp, m, p, a)
      PROVE  RegistrationInv'
  <2> DEFINE r == [NewRow(s, m) EXCEPT !.spelt = sp, !.profile = p, !.mgmt = a]
  <2>1. r \in Row
    BY DEF NewRow, Row, Status, Spelling, Opt
  <2>2. PICK i \in Id : Fresh(i) /\ devices' = Insert(devices, i, r)
    BY <1>1 DEF Register
  <2> HIDE DEF r
  <2> QED BY <1>1, <2>1, <2>2, KeptInsert, TableRegisters DEF Register
<1>2. ASSUME NEW i \in Id, Remove(i) PROVE FALSE
  BY <1>2 DEF Remove
<1>3. ASSUME NEW t \in Tab, NEW i \in Id, OpenForm(t, i) PROVE RegistrationInv'
  BY <1>3, KeptSame, TableRegisters DEF OpenForm
<1>4. ASSUME NEW t \in Tab, NEW p \in Opt(Profile), NEW a \in Opt(Addr), SaveForm(t, p, a)
      PROVE  RegistrationInv'
  <2> DEFINE i == tab[t].id
             r == [tab[t].row EXCEPT !.profile = p, !.mgmt = a]
  <2>1. tab[t].row \in Row \cup {NoRow} /\ i \in Id
    BY <1>4 DEF SaveForm, IInv, TypeOK, FormState
  <2>2. r.serial = tab[t].row.serial /\ r.mac = tab[t].row.mac
    BY <2>1 DEF Row, NoRow
  <2>3. i \in Live(devices) /\ Alike(r, devices[i])
    BY <2>1, <2>2 DEF RegistrationInv, CopyOf, Alike
  <2>4. Kept
    BY <1>4, <2>3, KeptOverwrite DEF SaveForm
  <2> QED BY <1>4, <2>4, TableRegisters DEF SaveForm
<1>5. ASSUME NEW t \in Tab, CloseForm(t) PROVE RegistrationInv'
  BY <1>5, KeptSame, TableRegisters DEF CloseForm
<1>6. ASSUME NEW p \in Profile, CreateProfile(p) PROVE RegistrationInv'
  BY <1>6, KeptSame, TableRegisters DEF CreateProfile
<1>7. ASSUME NEW p \in Profile, DeleteProfile(p) PROVE RegistrationInv'
  <2>1. ASSUME NEW i \in Live(devices) PROVE i \in Live(devices') /\ Alike(devices'[i], devices[i])
    <3>1. i \in Id /\ devices[i] \in Row
      BY DEF Live, IInv, TypeOK, Table
    <3>2. devices'[i] = IF devices[i].profile = p THEN [devices[i] EXCEPT !.profile = NULL]
                                                  ELSE devices[i]
      BY <1>7, <3>1 DEF DeleteProfile, Unassign
    <3>3. devices'[i] \in Row /\ Alike(devices'[i], devices[i])
      BY <3>1, <3>2 DEF Row, Opt, Alike
    <3> QED BY <3>1, <3>3, NoRowNotRow DEF Live
  <2> QED BY <1>7, <2>1, TableRegisters DEF DeleteProfile, Kept
<1> QED BY <1>1, <1>2, <1>3, <1>4, <1>5, <1>6, <1>7 DEF OperatorStep

LEMMA NextRegistration ==
    ASSUME "remove" \notin Operator
    PROVE  IInv /\ RegistrationInv /\ [Next]_vars => RegistrationInv'
<1> SUFFICES ASSUME IInv, RegistrationInv, [Next]_vars PROVE RegistrationInv'
  OBVIOUS
<1>1. ASSUME NEW b \in Box, PollInsert(b) PROVE RegistrationInv'
  <2>1. NewRow(NULL, b) \in Row
    BY NewRowFits
  <2>2. Kept
    BY <1>1, <2>1, KeptInsert, KeptSame DEF PollInsert
  <2> QED BY <1>1, <2>2, TableRegisters DEF PollInsert
<1>2. ASSUME NEW b \in Box, BoxStep(b) PROVE RegistrationInv'
  BY <1>2, KeptSame, TableRegisters DEF BoxStep, ApplyOK, ApplyFail, FetchFail, Lease, Expire, BoxOnly
<1>3. CASE PollLeases \/ UNCHANGED vars
  BY <1>3, KeptSame, TableRegisters DEF PollLeases, vars
<1>4. ASSUME NEW b \in Box, NEW i \in Id, SyslogProvisioned(b, i) PROVE RegistrationInv'
  <2>1. i \in Live(devices) /\ devices[i] \in Row
    BY <1>4 DEF SyslogProvisioned, Live, IInv, TypeOK, Table
  <2>2. Provisioned(devices[i]) \in Row /\ Alike(Provisioned(devices[i]), devices[i])
    BY <2>1 DEF Provisioned, Row, Status, Spelling, Alike
  <2>3. Kept
    BY <1>4, <2>1, <2>2, NoRowNotRow, AlikeRows DEF SyslogProvisioned, Kept, Live, IInv, TypeOK, Table
  <2> QED BY <1>4, <2>3, TableRegisters DEF SyslogProvisioned
<1> QED BY <1>1, <1>2, <1>3, <1>4, ArrivalRegisters, HandlersRegister, OperatorsRegister DEF Next

(* As long as no operator deletes a row, a handler whose INSERT is refused *)
(* finds the row that another request, the poller or an operator put there *)
(* meanwhile: whatever boxes there are, in every handler but Juniper's,    *)
(* which looks for a serial number when a MAC address stood in its way.    *)
THEOREM RefusedInsertFinds ==
    ASSUME "remove" \notin Operator
    PROVE  Spec => [](\A h \in Handler :
              req[h].pc = "refetch" /\ req[h].op # "juniper"
                => Find(devices, Key(req[h].op), req[h].box) # {})
<1>1. Init => RegistrationInv
  <2> SUFFICES ASSUME Init PROVE RegistrationInv
    OBVIOUS
  <2>1. \A h \in Handler : req[h] = Idle
    BY DEF Init
  <2>2. \A t \in Tab : ~(tab[t].id \in Id)
    BY NullBox DEF Init, Closed
  <2> QED BY <2>1, <2>2, IdleRegisters DEF RegistrationInv, CopyOf
<1>2. IInv /\ RegistrationInv /\ [Next]_vars => RegistrationInv'
  BY NextRegistration
<1>3. RegistrationInv => \A h \in Handler :
         req[h].pc = "refetch" /\ req[h].op # "juniper"
           => Find(devices, Key(req[h].op), req[h].box) # {}
  BY DEF RegistrationInv, Registers
<1> QED BY <1>1, <1>2, <1>3, Invariance, PTL DEF Spec

(* Where no box speaks Juniper's protocol, every registration succeeds.    *)
THEOREM RegistrationRaceIsWon ==
    ASSUME Juniper = {}, "remove" \notin Operator
    PROVE  Spec => []RegistrationSucceeds
<1> DEFINE Others == \A h \in Handler : req[h].pc = "refetch" /\ req[h].op # "juniper"
                        => Find(devices, Key(req[h].op), req[h].box) # {}
<1>1. IInv /\ Others => RegistrationSucceeds
  <2> SUFFICES ASSUME IInv, Others, NEW h \in Handler, req[h].pc = "refetch"
               PROVE  Find(devices, Key(req[h].op), req[h].box) # {}
    BY DEF RegistrationSucceeds
  <2>1. Speaks(req[h].op, req[h].box)
    BY DEF IInv, RequestsOK, RequestOK, Active
  <2> QED BY <2>1 DEF Speaks
<1>2. Spec => []Others
  BY RefusedInsertFinds
<1> HIDE DEF Others
<1> QED BY <1>1, <1>2, Invariance, PTL

-----------------------------------------------------------------------------
(* For Cisco boxes, Provisioning implements ZeroTouch: every statement of  *)
(* every request is a step of the atomic specification, or none.           *)

(* The step maps to a step of the abstract specification or to a stutter.  *)
Simulated == [ZT!Next]_(ZT!zvars)

LEMMA InitSimulated == Init => ZT!Init
<1> SUFFICES ASSUME Init PROVE ZT!Init
  OBVIOUS
<1>1. Cisco \subseteq Box
  BY BoxAssumption
<1>2. Recorded = {}
  BY DEF Init, EmptyTable, Live, Recorded
<1>3. [b \in Cisco |-> granted[b]] = [b \in Cisco |-> {}]
  BY <1>1 DEF Init
<1>4. [b \in Cisco |-> box[b].cfg] = [b \in Cisco |-> NULL]
  BY <1>1 DEF Init
<1> QED BY <1>2, <1>3, <1>4 DEF ZT!Init

(* Nothing the abstract specification sees has changed. *)
LEMMA Unseen ==
    ASSUME \A c \in Cisco : granted'[c] = granted[c] /\ box'[c].cfg = box[c].cfg,
           Recorded' = Recorded
    PROVE  Simulated
<1>1. [b \in Cisco |-> granted[b]]' = [b \in Cisco |-> granted[b]]
  OBVIOUS
<1>2. [b \in Cisco |-> box[b].cfg]' = [b \in Cisco |-> box[b].cfg]
  OBVIOUS
<1> QED BY <1>1, <1>2 DEF Simulated, ZT!zvars

(* The record of one box was taken, kept or withdrawn, and only grants to  *)
(* that box were added.                                                    *)
LEMMA Saved ==
    ASSUME ProvisionedIsConfigured', NEW b \in Cisco,
           \A c \in Cisco : box'[c].cfg = box[c].cfg,
           granted[b] \subseteq granted'[b],
           granted'[b] \subseteq Profile,
           \A c \in Cisco : c # b =>
               /\ granted'[c] = granted[c]
               /\ c \in Recorded' <=> c \in Recorded
    PROVE  Simulated
<1> DEFINE g == [c \in Cisco |-> granted[c]]
           l == [c \in Cisco |-> box[c].cfg]
<1>1. l' = l
  OBVIOUS
<1>2. g' = [g EXCEPT ![b] = g[b] \cup granted'[b]]
  OBVIOUS
<1>3. Recorded \subseteq Cisco /\ Recorded' \subseteq Cisco
  BY DEF Recorded
<1>4. b \in Recorded' => l[b] # NULL
  BY DEF ProvisionedIsConfigured, Recorded, Configured
<1>5. ZT!Recording(b)
  BY <1>3, <1>4 DEF ZT!Recording
<1>6. ZT!Save(b)
  BY <1>1, <1>2, <1>5 DEF ZT!Save
<1> QED BY <1>6 DEF Simulated, ZT!Next

(* One row, which is of box b before and after the step, was written.      *)
LEMMA RowWritten ==
    ASSUME ProvisionedIsConfigured', NEW b \in Box, NEW i \in Id,
           \A j \in Id : j # i => devices'[j] = devices[j],
           \A c \in Box : Owns(devices[i], c) => c = b,
           \A c \in Box : Owns(devices'[i], c) => c = b,
           \A c \in Box : box'[c].cfg = box[c].cfg,
           granted[b] \subseteq granted'[b], granted'[b] \subseteq Profile,
           \A c \in Box : c # b => granted'[c] = granted[c]
    PROVE  Simulated
<1>1. Cisco \subseteq Box
  BY BoxAssumption
<1>2. \A c \in Cisco : c # b => (c \in Recorded' <=> c \in Recorded)
  <2> TAKE c \in Cisco
  <2> HAVE c # b
  <2>1. \A j \in Id : Owns(devices[j], c) => j # i
    BY <1>1
  <2>2. \A j \in Id : Owns(devices'[j], c) => j # i
    BY <1>1
  <2> QED BY <2>1, <2>2 DEF Recorded, Live
<1>3. CASE b \in Cisco
  BY <1>1, <1>2, <1>3, Saved
<1>4. CASE b \notin Cisco
  <2>1. Recorded' = Recorded
    BY <1>2, <1>4 DEF Recorded
  <2> QED BY <1>1, <1>4, <2>1, Unseen
<1> QED BY <1>3, <1>4

(* An UpdateDevice of a request writes a row of the request's box.         *)
LEMMA RequestWrites ==
    ASSUME IInv, ProvisionedIsConfigured', NEW h \in Handler, Active(h),
           NEW d, Fits(d, req[h].box) \/ req[h].id \notin Live(devices), req[h].id \in Id,
           devices' = Overwrite(devices, profiles, req[h].id, d),
           UNCHANGED <<box, granted>>
    PROVE  Simulated
<1>1. PICK o \in [Id -> Box] : Owners(o)
  BY DEF IInv, OneOwner
<1> DEFINE b == req[h].box
           i == req[h].id
<1>2. b \in Box /\ b = o[i]
  BY <1>1, InFlight
<1>3. devices \in Table
  BY DEF IInv, TypeOK
<1>4. /\ \A j \in Id : j # i => devices'[j] = devices[j]
      /\ devices'[i] = devices[i] \/ (devices'[i] = d /\ i \in Live(devices))
  BY <1>3 DEF Overwrite, Table
<1>5. \A c \in Box : Owns(devices[i], c) => c = b
  BY <1>1, <1>2 DEF Owners, Fits
<1>6. \A c \in Box : Owns(devices'[i], c) => c = b
  BY <1>4, <1>5 DEF Fits
<1>7. granted[b] \subseteq Profile
  BY <1>2 DEF IInv, TypeOK
<1> QED BY <1>2, <1>4, <1>5, <1>6, <1>7, RowWritten

(* An INSERT adds a row of box b.                                          *)
LEMMA Inserted ==
    ASSUME IInv, ProvisionedIsConfigured', NEW b \in Box, NEW i \in Id, Fresh(i),
           NEW r \in Row, \A c \in Box : Owns(r, c) => c = b,
           devices' = Insert(devices, i, r), UNCHANGED box,
           granted[b] \subseteq granted'[b], granted'[b] \subseteq Profile,
           \A c \in Box : c # b => granted'[c] = granted[c]
    PROVE  Simulated
<1>1. devices \in Table /\ devices[i] = NoRow
  BY DEF IInv, TypeOK, Fresh
<1>2. /\ devices'[i] = Stored(r)
      /\ \A j \in Id : j # i => devices'[j] = devices[j]
  BY <1>1 DEF Insert, Table
<1>3. \A c \in Box : ~Owns(devices[i], c)
  BY <1>1, NullBox DEF NoRow, Owns
<1>4. \A c \in Box : Owns(devices'[i], c) => c = b
  BY <1>2 DEF Stored, Row, Owns
<1> QED BY <1>2, <1>3, <1>4, RowWritten

-----------------------------------------------------------------------------
(* Each step is simulated. *)

LEMMA HandlerSimulated ==
    ASSUME IInv, ProvisionedIsConfigured', NEW h \in Handler, HandlerStep(h)
    PROVE  Simulated
<1>0. PICK o \in [Id -> Box] : Owners(o)
  BY DEF IInv, OneOwner
<1> DEFINE q == req[h]
           b == q.box
<1>1. Active(h)
  BY DEF HandlerStep, Create, Refetch, Touch, Mark, RenderOK, RenderFail, Settle,
         Respond, Active
<1>2. q \in Request /\ RequestOK(q) /\ b \in Box /\ (q.id \in Id => b = o[q.id])
  BY <1>0, <1>1, InFlight
<1>3. CASE UNCHANGED <<devices, granted>> /\ \A c \in Box : box'[c].cfg = box[c].cfg
  BY <1>3, BoxAssumption, Unseen DEF Recorded
<1>4. CASE Create(h)
  <2>1. UNCHANGED <<box, granted>> /\ granted[b] \subseteq Profile
    BY <1>2, <1>4 DEF Create, IInv, TypeOK
  <2>2. CASE UNCHANGED devices
    BY <1>3, <2>1, <2>2
  <2>3. ASSUME NEW i \in Id, Fresh(i), devices' = Insert(devices, i, q.dev)
        PROVE  Simulated
    <3>1. q.dev \in Row /\ \A c \in Box : Owns(q.dev, c) => c = b
      BY <1>2, <1>4 DEF Create, RequestOK, Fits
    <3> QED BY <1>2, <2>1, <2>3, <3>1, Inserted
  <2> QED BY <1>4, <2>2, <2>3 DEF Create
<1>5. CASE Refetch(h) \/ RenderOK(h) \/ RenderFail(h)
  BY <1>3, <1>5 DEF Refetch, RenderOK, RenderFail, Serving
<1>6. CASE Touch(h)
  <2> DEFINE d == [devices[q.id] EXCEPT !.mac = q.dev.mac]
  <2>1. /\ devices' = Overwrite(devices, profiles, q.id, d)
        /\ UNCHANGED <<box, granted>> /\ q.pc = "touch"
    BY <1>6 DEF Touch
  <2>2. Fits(d, b) \/ q.id \notin Live(devices)
    BY <1>0, <2>1, TouchedFits
  <2> HIDE DEF d
  <2> QED BY <1>1, <1>2, <2>1, <2>2, RequestWrites DEF RequestOK
<1>7. CASE Mark(h)
  <2>1. /\ devices' = Overwrite(devices, profiles, q.id, Marked(q.dev))
        /\ UNCHANGED <<box, granted>> /\ q.pc = "mark"
    BY <1>7 DEF Mark
  <2>2. Fits(Marked(q.dev), b)
    BY <1>2, <2>1, MarkedFits DEF RequestOK
  <2> QED BY <1>1, <1>2, <2>1, <2>2, RequestWrites DEF RequestOK
<1>8. CASE Settle(h)
  <2>1. /\ devices' = Overwrite(devices, profiles, q.id, q.dev)
        /\ UNCHANGED <<box, granted>> /\ q.pc = "settle"
    BY <1>8 DEF Settle
  <2> QED BY <1>1, <1>2, <2>1, RequestWrites DEF RequestOK
<1>9. CASE Respond(h)
  <2>1. UNCHANGED <<devices, granted>>
    BY <1>9 DEF Respond
  <2>2. box' = box \/ box' = [box EXCEPT ![b] = Answered(box[b], q)]
    BY <1>9 DEF Respond
  <2>3. box \in [Box -> BoxState]
    BY DEF IInv, TypeOK
  <2>4. Answered(box[b], q).cfg = box[b].cfg
    BY <1>2, <2>3, AnsweredOK
  <2> QED BY <1>2, <1>3, <2>1, <2>2, <2>3, <2>4
<1> QED BY <1>4, <1>5, <1>6, <1>7, <1>8, <1>9 DEF HandlerStep

LEMMA BoxSimulated ==
    ASSUME IInv, NEW b \in Box, BoxStep(b)
    PROVE  Simulated
<1>1. UNCHANGED <<devices, granted>> /\ Recorded' = Recorded
  BY DEF BoxStep, ApplyOK, ApplyFail, FetchFail, Lease, Expire, BoxOnly, Recorded
<1>2. box \in [Box -> BoxState] /\ Cisco \subseteq Box
  BY BoxAssumption DEF IInv, TypeOK
<1>3. CASE \A c \in Box : box'[c].cfg = box[c].cfg
  BY <1>1, <1>2, <1>3, Unseen
<1>4. CASE ApplyOK(b)
  <2> DEFINE l == [c \in Cisco |-> box[c].cfg]
  <2>1. /\ \A c \in Box : c # b => box'[c] = box[c]
        /\ box'[b].cfg = box[b].got
    BY <1>2, <1>4 DEF ApplyOK
  <2>2. box[b].got \in granted[b]
    BY <1>4 DEF ApplyOK, IInv, BoxesOK, Opt
  <2>3. CASE b \notin Cisco
    BY <1>1, <1>2, <2>1, <2>3, Unseen
  <2>4. CASE b \in Cisco
    <3>1. l' = [l EXCEPT ![b] = box[b].got]
      BY <1>2, <2>1
    <3>2. ZT!Load(b)
      BY <1>1, <2>2, <2>4, <3>1 DEF ZT!Load
    <3> QED BY <2>4, <3>2 DEF Simulated, ZT!Next
  <2> QED BY <2>3, <2>4
<1>5. CASE ApplyFail(b)
  <2>1. \A c \in Box : box'[c].cfg = box[c].cfg
    BY <1>2, <1>5 DEF ApplyFail
  <2> QED BY <1>3, <2>1
<1>6. CASE FetchFail(b)
  <2>1. \A c \in Box : box'[c].cfg = box[c].cfg
    BY <1>2, <1>6 DEF FetchFail, BoxState
  <2> QED BY <1>3, <2>1
<1>7. CASE Lease(b) \/ Expire(b)
  BY <1>3, <1>7 DEF Lease, Expire
<1> QED BY <1>4, <1>5, <1>6, <1>7 DEF BoxStep

LEMMA PollInsertSimulated ==
    ASSUME IInv, ProvisionedIsConfigured', NEW b \in Box, PollInsert(b)
    PROVE  Simulated
<1> DEFINE r == NewRow(NULL, b)
<1>1. r \in Row /\ \A c \in Box : Owns(r, c) => c = b
  BY NewRowFits DEF Fits
<1>2. UNCHANGED <<box, granted>> /\ granted[b] \subseteq Profile
  BY DEF PollInsert, IInv, TypeOK
<1>3. CASE UNCHANGED devices
  BY <1>2, <1>3, Unseen DEF Recorded
<1>4. ASSUME NEW i \in Id, Fresh(i), devices' = Insert(devices, i, r)
      PROVE  Simulated
  <2> HIDE DEF r
  <2> QED BY <1>1, <1>2, <1>4, Inserted
<1> QED BY <1>3, <1>4 DEF PollInsert

LEMMA SyslogSimulated ==
    ASSUME IInv, ProvisionedIsConfigured', NEW b \in Box, NEW i \in Id,
           SyslogProvisioned(b, i)
    PROVE  Simulated
<1>0. PICK o \in [Id -> Box] : Owners(o)
  BY DEF IInv, OneOwner
<1> DEFINE d == Provisioned(devices[i])
<1>1. /\ UNCHANGED <<box, granted>> /\ granted[b] \subseteq Profile
      /\ devices \in Table /\ devices[i] \in Row
      /\ devices' = [devices EXCEPT ![i] = d] /\ Owns(devices[i], b)
  BY DEF SyslogProvisioned, IInv, TypeOK, Table, Live
<1>2. \A c \in Box : Owns(devices[i], c) => c = b
  BY <1>0, <1>1 DEF Owners, Fits
<1>3. d.serial = devices[i].serial /\ d.mac = devices[i].mac
  BY <1>1 DEF Provisioned, Row
<1> HIDE DEF d
<1>4. devices'[i] = d /\ \A j \in Id : j # i => devices'[j] = devices[j]
  BY <1>1 DEF Table
<1>5. \A c \in Box : Owns(devices'[i], c) => c = b
  BY <1>2, <1>3, <1>4 DEF Owns
<1> QED BY <1>1, <1>2, <1>4, <1>5, RowWritten

LEMMA RegisterSimulated ==
    ASSUME IInv, ProvisionedIsConfigured', NEW b \in Box, NEW s \in Opt(Box),
           NEW sp \in Spelling, NEW m \in Opt(Box), NEW p \in Opt(Profile), NEW a \in Opt(Addr), Register(b, s, sp, m, p, a)
    PROVE  Simulated
<1> DEFINE r == [NewRow(s, m) EXCEPT !.spelt = sp, !.profile = p, !.mgmt = a]
<1>1. r \in Row /\ r.serial = s /\ r.mac = m
  BY DEF NewRow, Row, Status, Spelling, Opt
<1>2. PICK i \in Id : Fresh(i) /\ devices' = Insert(devices, i, r)
  BY DEF Register
<1>3. s \in {b, NULL} /\ m \in {b, NULL} /\ Grant(r) /\ UNCHANGED box
  BY DEF Register
<1> HIDE DEF r
<1>4. \A c \in Box : Owns(r, c) => c = b
  BY <1>1, <1>3, NullBox DEF Owns
<1>5. /\ granted' \in [Box -> SUBSET Profile] /\ granted[b] \subseteq granted'[b]
      /\ \A c \in Box : c # b => granted'[c] = granted[c]
  BY <1>1, <1>3, <1>4, GrantOK DEF IInv, Grant
<1> QED BY <1>1, <1>2, <1>3, <1>4, <1>5, Inserted

LEMMA SaveFormSimulated ==
    ASSUME IInv, ProvisionedIsConfigured', NEW t \in Tab, NEW p \in Opt(Profile),
           NEW a \in Opt(Addr), SaveForm(t, p, a)
    PROVE  Simulated
<1>0. PICK o \in [Id -> Box] : Owners(o)
  BY DEF IInv, OneOwner
<1> DEFINE i == tab[t].id
           r == [tab[t].row EXCEPT !.profile = p, !.mgmt = a]
           b == o[i]
<1>1. /\ i \in Id /\ tab[t].row \in Row /\ Fits(tab[t].row, b) /\ b \in Box
      /\ Fits(devices[i], b) /\ devices \in Table
  BY <1>0 DEF SaveForm, IInv, TypeOK, FormState, Owners
<1>2. r \in Row /\ r.serial = tab[t].row.serial /\ r.mac = tab[t].row.mac
  BY <1>1 DEF Row
<1>3. /\ devices' = Overwrite(devices, profiles, i, r)
      /\ IF i \in Live(devices) /\ Admits(devices, profiles, i, r)
         THEN Grant(r) ELSE UNCHANGED granted
      /\ UNCHANGED box
  BY DEF SaveForm
<1> HIDE DEF r
<1>4. \A c \in Box : Owns(r, c) => c = b
  BY <1>1, <1>2 DEF Fits, Owns
<1>5. /\ granted' \in [Box -> SUBSET Profile] /\ granted[b] \subseteq granted'[b]
      /\ \A c \in Box : c # b => granted'[c] = granted[c]
  BY <1>1, <1>2, <1>3, <1>4, GrantOK DEF IInv, TypeOK, Grant
<1>6. /\ \A j \in Id : j # i => devices'[j] = devices[j]
      /\ devices'[i] \in {devices[i], r}
  BY <1>1, <1>3 DEF Overwrite, Table
<1>7. /\ \A c \in Box : Owns(devices[i], c) => c = b
      /\ \A c \in Box : Owns(devices'[i], c) => c = b
  BY <1>1, <1>4, <1>6 DEF Fits
<1> QED BY <1>1, <1>3, <1>5, <1>6, <1>7, RowWritten

LEMMA OperatorSimulated ==
    ASSUME IInv, ProvisionedIsConfigured', OperatorStep
    PROVE  Simulated
<1>1. ASSUME NEW i \in Id, Remove(i) PROVE Simulated
  <2>1. PICK o \in [Id -> Box] : Owners(o)
    BY DEF IInv, OneOwner
  <2>2. /\ UNCHANGED <<box, granted>> /\ granted \in [Box -> SUBSET Profile]
        /\ devices'[i] = NoRow /\ \A j \in Id : j # i => devices'[j] = devices[j]
    BY <1>1 DEF Remove, Erase, IInv, TypeOK, Table
  <2>3. /\ \A c \in Box : Owns(devices[i], c) => c = o[i]
        /\ \A c \in Box : Owns(devices'[i], c) => c = o[i]
    BY <2>1, <2>2, NoRowFits DEF Owners, Fits
  <2> QED BY <2>2, <2>3, RowWritten
<1>2. ASSUME NEW p \in Profile, DeleteProfile(p) PROVE Simulated
  <2>1. UNCHANGED <<box, granted>> /\ devices' = Unassign(devices, p)
    BY <1>2 DEF DeleteProfile
  <2>2. ASSUME NEW j \in Id
        PROVE  /\ devices'[j] = NoRow <=> devices[j] = NoRow
               /\ devices'[j].serial = devices[j].serial
               /\ devices'[j].mac = devices[j].mac
               /\ devices'[j].status = devices[j].status
    <3>1. devices[j] \in Row \cup {NoRow}
      BY DEF IInv, TypeOK, Table
    <3>2. CASE devices'[j] = devices[j]
      BY <3>2
    <3>3. CASE devices[j] \in Row /\ devices'[j] = [devices[j] EXCEPT !.profile = NULL]
      BY <3>3, NoRowNotRow DEF Row, Opt
    <3> QED BY <2>1, <3>1, <3>2, <3>3 DEF Unassign, Live
  <2>3. Recorded' = Recorded
    BY <2>2 DEF Recorded, Live, Owns
  <2> QED BY <2>1, <2>3, Unseen
<1>3. CASE UNCHANGED <<devices, box, granted>>
  BY <1>3, Unseen DEF Recorded
<1> QED BY <1>1, <1>2, <1>3, RegisterSimulated, SaveFormSimulated
        DEF OperatorStep, OpenForm, CloseForm, CreateProfile

LEMMA NextSimulated ==
    IInv /\ ProvisionedIsConfigured' /\ [Next]_vars => Simulated
<1> SUFFICES ASSUME IInv, ProvisionedIsConfigured', [Next]_vars PROVE Simulated
  OBVIOUS
<1>1. CASE UNCHANGED <<devices, box, granted>>
  BY <1>1, Unseen DEF Recorded
<1>2. ASSUME NEW h \in Handler, HandlerStep(h) \/ Abort(h) \/ GiveUp(h)
      PROVE  Simulated
  BY <1>1, <1>2, HandlerSimulated DEF Abort, GiveUp, Serving
<1>3. ASSUME NEW h \in Handler, NEW b \in Box, Arrival(h, b) PROVE Simulated
  BY <1>1, <1>3 DEF Arrival, Hello, WorkRequest, GetConfig, WorkResult, JuniperConfig,
     ArubaConfig, Arrive, Serving
<1>4. ASSUME NEW b \in Box, BoxStep(b) \/ PollInsert(b) PROVE Simulated
  BY <1>4, BoxSimulated, PollInsertSimulated
<1>5. CASE PollLeases \/ UNCHANGED vars
  BY <1>1, <1>5 DEF PollLeases, vars
<1> QED BY <1>2, <1>3, <1>4, <1>5, OperatorSimulated, SyslogSimulated DEF Next

(* The asynchronous handlers, with their copies, retries and late writes,  *)
(* implement the atomic specification for every number of boxes, requests, *)
(* forms and profiles.                                                     *)
THEOREM Refinement == Spec => ImplementsZeroTouch
<1>1. Init => ZT!Init
  BY InitSimulated
<1>2. IInv /\ ProvisionedIsConfigured' /\ [Next]_vars => [ZT!Next]_(ZT!zvars)
  BY NextSimulated DEF Simulated
<1>3. IInv => ProvisionedIsConfigured
  BY ConfiguredByInv
<1> QED BY <1>1, <1>2, <1>3, Invariance, PTL DEF Spec, ImplementsZeroTouch, ZT!Spec

-----------------------------------------------------------------------------
(* Convergence.  Once no request from before the last disturbance is in    *)
(* flight, a Cisco box is on track: it has one request in flight at most,  *)
(* made for the phase it is in, whose copy agrees with the row.  From then *)
(* on its phases only go forward, and where they lead it stays.            *)

HasProfile(b) == \E i \in Find(devices, "serial", b) : devices[i].profile # NULL

RowDone(b) == \A i \in Find(devices, "serial", b) : devices[i].status = "provisioned"

InPhase(b, p) == box[b].phase = p

Of(h, b) == Active(h) /\ req[h].box = b

NoneInFlight(b) == \A h \in Handler : ~Of(h, b)

(* Copy d, of the row at id i, would change nothing but the status of the  *)
(* row of b.                                                               *)
Twin(d, i, b) ==
    /\ i \in Find(devices, "serial", b)
    /\ d \in Row
    /\ d.serial = devices[i].serial
    /\ d.spelt = devices[i].spelt
    /\ d.mac = devices[i].mac
    /\ d.profile = devices[i].profile

(* The request goes with the phase of its box. *)
ForPhase(op, p) ==
    \/ op \in {"hello", "work"} /\ p = "poll"
    \/ op = "config" /\ p = "fetch"
    \/ op = "result" /\ p \in {"reportOK", "reportBad"}

Tracked(r, b) ==
    /\ r.peer = "waiting"
    /\ ForPhase(r.op, box[b].phase)
    /\ \/ r.pc = "mark" /\ r.op \in {"work", "config"} /\ Twin(r.dev, r.id, b)
       \/ r.pc = "render" /\ r.op = "config" /\ Twin(r.dev, r.id, b)
       \/ /\ r.pc = "settle" /\ r.op = "result" /\ Twin(r.dev, r.id, b)
          /\ box[b].phase = "reportOK" => r.dev.status = "provisioned"
          /\ r.got = NULL
       \/ r.pc = "respond" /\ r.op = "hello" /\ ~r.good /\ r.got = NULL
       \/ r.pc = "respond" /\ r.op = "work" /\ r.got = NULL
       \/ r.pc = "respond" /\ r.op = "config" /\ r.good /\ r.got # NULL
       \/ /\ r.pc = "respond" /\ r.op = "result" /\ r.got = NULL
          /\ box[b].phase = "reportOK" => RowDone(b)

OnTrack(b) ==
    /\ \A h \in Handler : Of(h, b) => Tracked(req[h], b)
    /\ \A h, k \in Handler : Of(h, b) /\ Of(k, b) => h = k

(* A configuration is being offered to b. *)
Offering(r) ==
    /\ r.op = "work"
    /\ r.pc = "mark" \/ (r.pc = "respond" /\ r.good)

Offered(b) == \E h \in Handler : Of(h, b) /\ Offering(req[h])

(* Nothing is left to do for b. *)
Finished(b) ==
    /\ OnTrack(b) /\ RowDone(b) /\ ~Offered(b)
    /\ box[b].phase \in {"poll", "apply", "reportOK"}

(* A step of b, on track, goes forward. *)
Forward(b) ==
    /\ OnTrack(b)'
    /\ Finished(b) => Finished(b)'
    /\ InPhase(b, "reportBad") => InPhase(b, "reportBad")' \/ InPhase(b, "poll")'
    /\ InPhase(b, "poll") => InPhase(b, "poll")' \/ InPhase(b, "fetch")'
    /\ InPhase(b, "poll") /\ Offered(b) => Offered(b)' \/ InPhase(b, "fetch")'
    /\ InPhase(b, "fetch") => InPhase(b, "fetch")' \/ InPhase(b, "apply")'
    /\ InPhase(b, "apply") => InPhase(b, "apply")' \/ InPhase(b, "reportOK")'
    /\ InPhase(b, "reportOK") => InPhase(b, "reportOK")' \/ Finished(b)'

(* What fairness gives once things are quiet: every request of b ends      *)
(* before the next, no phase lasts for ever, and b polls for ever only if  *)
(* its row says provisioned.                                               *)
GoesOn(b) ==
    /\ []<>NoneInFlight(b)
    /\ []<>(~InPhase(b, "reportBad"))
    /\ []<>(~InPhase(b, "fetch"))
    /\ []<>(~InPhase(b, "apply"))
    /\ []<>(~InPhase(b, "reportOK"))
    /\ []<>(InPhase(b, "poll") => RowDone(b))

Quiet(b) == <>[][~Disturbance]_vars /\ <>[]HasProfile(b)

(* What there is to know of the row of b. *)
RowOf(i, b) ==
    /\ i \in Id /\ Find(devices, "serial", b) = {i}
    /\ devices[i] \in Row
    /\ devices[i].serial = b
    /\ devices[i].profile \in profiles
    /\ devices[i].profile # NULL

LEMMA HasRow ==
    ASSUME IInv, NEW b \in Cisco, HasProfile(b)
    PROVE  \E i \in Id : RowOf(i, b)
<1>1. PICK i \in Find(devices, "serial", b) : devices[i].profile # NULL
  BY DEF HasProfile
<1>2. b \in Box /\ b # NULL
  BY BoxAssumption, NullBox
<1>3. i \in Live(devices) /\ devices[i] \in Row /\ devices[i].serial = b
  BY <1>1 DEF Find, Live, IInv, TypeOK, Table
<1>4. \A j \in Find(devices, "serial", b) : j = i
  BY <1>2, <1>3 DEF Find, IInv, TableIntegrity, TableOK, Clash
<1>5. devices[i].profile \in profiles
  BY <1>1, <1>3 DEF IInv, TableIntegrity, TableOK, Opt
<1> QED BY <1>1, <1>3, <1>4, <1>5 DEF RowOf, Live

(* Its row remains the row of b as long as it keeps the serial number. *)
LEMMA RowRemains ==
    ASSUME IInv', NEW b \in Cisco, NEW i, RowOf(i, b),
           devices'[i].serial = b, devices'[i].spelt = devices[i].spelt
    PROVE  Find(devices', "serial", b) = {i}
<1>1. b # NULL /\ i \in Id
  BY BoxAssumption, NullBox DEF RowOf
<1>2. i \in Live(devices') /\ devices'[i].spelt = "requested"
  BY <1>1 DEF RowOf, Find, Live, NoRow
<1>3. \A j \in Find(devices', "serial", b) : j = i
  BY <1>1, <1>2 DEF Find, IInv, TableIntegrity, TableOK, Clash
<1> QED BY <1>2, <1>3 DEF Find

(* A step that does not move b on. *)
LEMMA SamePhase ==
    ASSUME NEW b, box'[b] = box[b], OnTrack(b)', Finished(b) => Finished(b)',
           InPhase(b, "poll") /\ Offered(b) => Offered(b)'
    PROVE  Forward(b)
BY DEF Forward, InPhase

(* A step of others: of b it may change the status of its row, for the     *)
(* better.                                                                 *)
LEMMA Bystander ==
    ASSUME IInv', NEW b \in Cisco, NEW i, RowOf(i, b), OnTrack(b),
           devices'[i] = devices[i] \/ devices'[i] = Provisioned(devices[i]),
           box'[b] = box[b],
           \A h \in Handler : Of(h, b) \/ Of(h, b)' => req'[h] = req[h]
    PROVE  Forward(b)
<1>1. /\ devices'[i].serial = b
      /\ devices'[i].serial = devices[i].serial
      /\ devices'[i].spelt = devices[i].spelt
      /\ devices'[i].mac = devices[i].mac
      /\ devices'[i].profile = devices[i].profile
      /\ devices[i].status = "provisioned" => devices'[i].status = "provisioned"
  BY DEF RowOf, Provisioned, Row, Spelling
<1>2. Find(devices', "serial", b) = {i} /\ Find(devices, "serial", b) = {i}
  BY <1>1, RowRemains DEF RowOf
<1>3. RowDone(b) => RowDone(b)'
  BY <1>1, <1>2 DEF RowDone
<1>4. \A h \in Handler : Of(h, b)' <=> Of(h, b)
  BY DEF Of, Active
<1>5. ASSUME NEW h \in Handler, Of(h, b) PROVE Tracked(req[h], b)'
  <2>1. Tracked(req[h], b) /\ req'[h] = req[h]
    BY <1>5 DEF OnTrack
  <2>2. Twin(req[h].dev, req[h].id, b) => Twin(req[h].dev, req[h].id, b)'
    BY <1>1, <1>2, <2>1 DEF Twin
  <2> QED BY <1>3, <2>1, <2>2 DEF Tracked
<1>6. OnTrack(b)'
  BY <1>4, <1>5 DEF OnTrack
<1>7. Offered(b)' <=> Offered(b)
  BY <1>4 DEF Offered, Offering
<1> QED BY <1>3, <1>6, <1>7, SamePhase DEF Finished

(* When h alone serves b, its request is the one that counts. *)
LEMMA OneRequest ==
    ASSUME NEW b, NEW h \in Handler,
           \A k \in Handler \ {h} : req'[k] = req[k] /\ ~Of(k, b),
           Of(h, b)' => Tracked(req[h], b)'
    PROVE  /\ OnTrack(b)'
           /\ Offered(b)' <=> Of(h, b)' /\ Offering(req'[h])
<1>1. \A k \in Handler : Of(k, b)' => k = h
  BY DEF Of, Active
<1> QED BY <1>1 DEF OnTrack, Offered, Offering

(* A row that is a twin but for its status is written. *)
LEMMA TwinWritten ==
    ASSUME IInv, IInv', NEW b \in Cisco, NEW i, RowOf(i, b), NEW d, Twin(d, i, b),
           devices' = Overwrite(devices, profiles, i, d)
    PROVE  devices'[i] = d
<1>1. b # NULL /\ i \in Id /\ i \in Live(devices) /\ d.serial = b
  BY BoxAssumption, NullBox DEF RowOf, Twin, Find
<1>2. Admits(devices, profiles, i, d)
  <2>1. \A j \in Live(devices) : Clash(devices[j], d) => j = i
    BY <1>1 DEF Twin, Clash, IInv, TableIntegrity, TableOK
  <2> QED BY <1>1, <2>1 DEF Admits, Identified, Twin, RowOf, Opt
<1> QED BY <1>1, <1>2 DEF Overwrite, IInv, TypeOK, Table

-----------------------------------------------------------------------------
(* The statements of the request of b that is on track. *)

LEMMA TheRequest ==
    ASSUME IInv, NEW b, NEW h \in Handler, Of(h, b), OnTrack(b)
    PROVE  /\ Tracked(req[h], b)
           /\ req[h] \in Request /\ req[h].box = b
           /\ \A k \in Handler \ {h} : ~Of(k, b)
BY DEF Of, OnTrack, Active, Idle, IInv, TypeOK

LEMMA MarkForward ==
    ASSUME IInv, IInv', NEW b \in Cisco, NEW i, RowOf(i, b), OnTrack(b),
           NEW h \in Handler, Of(h, b), Mark(h)
    PROVE  Forward(b)
<1> DEFINE r == req[h]
           d == Marked(r.dev)
<1>1. /\ r \in Request /\ r.box = b /\ r.peer = "waiting" /\ r.pc = "mark"
      /\ r.op \in {"work", "config"} /\ Twin(r.dev, r.id, b)
      /\ ForPhase(r.op, box[b].phase)
      /\ \A k \in Handler \ {h} : ~Of(k, b)
  BY TheRequest DEF Tracked, Mark
<1>2. r.id = i
  BY <1>1 DEF Twin, RowOf
<1>3. /\ devices' = Overwrite(devices, profiles, i, d)
      /\ box' = box
      /\ \A k \in Handler \ {h} : req'[k] = req[k]
      /\ req'[h] = IF r.op = "work" THEN Offer(b, "waiting")
                   ELSE At("render", r.op, b, i, d, "waiting")
  BY <1>1, <1>2 DEF Mark, IInv, TypeOK
<1>4. /\ d \in Row /\ d.serial = r.dev.serial /\ d.spelt = r.dev.spelt /\ d.mac = r.dev.mac
      /\ d.profile = r.dev.profile
  BY <1>1 DEF Twin, Marked, Row, Status, Spelling
<1>5. Twin(d, i, b)
  BY <1>1, <1>2, <1>4 DEF Twin
<1> HIDE DEF d
<1>6. devices'[i] = d
  BY <1>3, <1>5, TwinWritten
<1>7. Find(devices', "serial", b) = {i}
  BY <1>5, <1>6, RowRemains DEF Twin, RowOf
<1>8. CASE r.op = "work"
  <2>1. /\ req'[h].pc = "respond" /\ req'[h].op = "work" /\ req'[h].good
        /\ req'[h].got = NULL /\ req'[h].peer = "waiting" /\ req'[h].box = b
    BY <1>3, <1>8 DEF Offer, Reply
  <2>2. Tracked(req[h], b)' /\ Of(h, b)' /\ Offering(req'[h])
    BY <1>1, <1>3, <1>8, <2>1 DEF Tracked, Of, Active, Offering, ForPhase
  <2>3. Offered(b)
    BY <1>1, <1>8 DEF Offered, Offering
  <2> QED BY <1>1, <1>3, <2>2, <2>3, OneRequest, SamePhase DEF Finished
<1>9. CASE r.op = "config"
  <2>1. /\ req'[h].pc = "render" /\ req'[h].op = "config" /\ req'[h].id = i
        /\ req'[h].dev = d /\ req'[h].peer = "waiting" /\ req'[h].box = b
    BY <1>3, <1>9 DEF At
  <2>2. Twin(req[h].dev, req[h].id, b)'
    BY <1>4, <1>5, <1>6, <1>7, <2>1 DEF Twin
  <2>3. Tracked(req[h], b)' /\ box[b].phase = "fetch"
    BY <1>1, <1>3, <1>9, <2>1, <2>2 DEF Tracked, ForPhase
  <2>4. OnTrack(b)'
    BY <1>1, <1>3, <2>3, OneRequest
  <2> QED BY <1>3, <2>3, <2>4, SamePhase DEF Finished, InPhase
<1> QED BY <1>1, <1>8, <1>9

LEMMA RenderForward ==
    ASSUME IInv, IInv', NEW b \in Cisco, NEW i, RowOf(i, b), OnTrack(b),
           NEW h \in Handler, Of(h, b), RenderOK(h) \/ RenderFail(h), ~Disturbance
    PROVE  Forward(b)
<1> DEFINE r == req[h]
<1>1. /\ r \in Request /\ r.box = b /\ r.peer = "waiting" /\ r.pc = "render"
      /\ r.op = "config" /\ Twin(r.dev, r.id, b)
      /\ ForPhase(r.op, box[b].phase)
      /\ \A k \in Handler \ {h} : ~Of(k, b)
  BY TheRequest DEF Tracked, RenderOK, RenderFail
<1>2. r.dev.profile \in profiles /\ r.dev.profile # NULL
  BY <1>1 DEF Twin, RowOf
<1>3. Serving(h, Rendered(r, TRUE))
  BY <1>2 DEF RenderOK, RenderFail, Disturbance, Renderable
<1>4. /\ UNCHANGED <<devices, box>>
      /\ \A k \in Handler \ {h} : req'[k] = req[k]
      /\ req'[h] = Reply("config", b, TRUE, r.dev.profile, "waiting")
  BY <1>1, <1>3 DEF Serving, Rendered, IInv, TypeOK
<1>5. /\ req'[h].pc = "respond" /\ req'[h].op = "config" /\ req'[h].good
      /\ req'[h].got # NULL /\ req'[h].peer = "waiting"
  BY <1>2, <1>4 DEF Reply
<1>6. Tracked(req[h], b)' /\ box[b].phase = "fetch"
  BY <1>1, <1>4, <1>5 DEF Tracked, ForPhase
<1>7. OnTrack(b)'
  BY <1>1, <1>4, <1>6, OneRequest
<1> QED BY <1>4, <1>6, <1>7, SamePhase DEF Finished, InPhase

LEMMA SettleForward ==
    ASSUME IInv, IInv', NEW b \in Cisco, NEW i, RowOf(i, b), OnTrack(b),
           NEW h \in Handler, Of(h, b), Settle(h)
    PROVE  Forward(b)
<1> DEFINE r == req[h]
<1>1. /\ r \in Request /\ r.box = b /\ r.peer = "waiting" /\ r.pc = "settle"
      /\ r.op = "result" /\ Twin(r.dev, r.id, b) /\ r.got = NULL
      /\ box[b].phase = "reportOK" => r.dev.status = "provisioned"
      /\ ForPhase(r.op, box[b].phase)
      /\ \A k \in Handler \ {h} : ~Of(k, b)
  BY TheRequest DEF Tracked, Settle
<1>2. r.id = i
  BY <1>1 DEF Twin, RowOf
<1>3. /\ devices' = Overwrite(devices, profiles, i, r.dev)
      /\ box' = box
      /\ \A k \in Handler \ {h} : req'[k] = req[k]
      /\ req'[h] = Reply("result", b, r.good, NULL, "waiting")
  BY <1>1, <1>2 DEF Settle, IInv, TypeOK
<1>4. devices'[i] = r.dev /\ r.dev.serial = b /\ r.dev.spelt = devices[i].spelt
  BY <1>1, <1>2, <1>3, TwinWritten DEF Twin, RowOf
<1>5. Find(devices', "serial", b) = {i}
  BY <1>4, RowRemains
<1>6. box[b].phase = "reportOK" => RowDone(b)'
  BY <1>1, <1>4, <1>5 DEF RowDone
<1>7. /\ req'[h].pc = "respond" /\ req'[h].op = "result"
      /\ req'[h].got = NULL /\ req'[h].peer = "waiting"
  BY <1>3 DEF Reply
<1>8. Tracked(req[h], b)' /\ ~Offering(req'[h])
  BY <1>1, <1>3, <1>6, <1>7 DEF Tracked, Offering
<1>9. OnTrack(b)' /\ ~Offered(b)'
  BY <1>1, <1>3, <1>8, OneRequest
<1>10. box[b].phase \in {"reportOK", "reportBad"}
  BY <1>1 DEF ForPhase
<1> QED BY <1>3, <1>6, <1>9, <1>10, SamePhase DEF Finished, InPhase

LEMMA RespondForward ==
    ASSUME IInv, IInv', NEW b \in Cisco, NEW i, RowOf(i, b), OnTrack(b),
           NEW h \in Handler, Of(h, b), Respond(h)
    PROVE  Forward(b)
<1> DEFINE r == req[h]
           s == box[b]
<1>1. /\ r \in Request /\ r.box = b /\ r.peer = "waiting" /\ r.pc = "respond"
      /\ Tracked(r, b) /\ ForPhase(r.op, s.phase)
      /\ \A k \in Handler \ {h} : ~Of(k, b)
  BY TheRequest DEF Tracked, Respond
<1>2. /\ UNCHANGED devices /\ b \in Box /\ s \in BoxState
      /\ box'[b] = Answered(s, r)
      /\ \A k \in Handler \ {h} : req'[k] = req[k]
      /\ req'[h] = Idle
  BY <1>1, BoxAssumption DEF Respond, IInv, TypeOK
<1>3. ~Of(h, b)'
  BY <1>2 DEF Of, Active, Idle
<1>4. OnTrack(b)' /\ ~Offered(b)'
  BY <1>1, <1>2, <1>3, OneRequest
<1>5. RowDone(b)' <=> RowDone(b)
  BY <1>2 DEF RowDone
<1>6. Offered(b) <=> Offering(r)
  BY <1>1 DEF Offered
<1>7. CASE r.op \in {"hello", "work"} /\ ~Offering(r)
  <2>1. box'[b] = s /\ s.phase = "poll"
    BY <1>1, <1>2, <1>7 DEF Answered, Tracked, ForPhase, Offering
  <2> QED BY <1>4, <1>5, <1>6, <1>7, <2>1, SamePhase DEF Finished
<1>8. CASE r.op = "work" /\ Offering(r)
  <2>1. box'[b].phase = "fetch" /\ s.phase = "poll"
    BY <1>1, <1>2, <1>8 DEF Answered, Tracked, ForPhase, Offering, BoxState
  <2> QED BY <1>4, <1>6, <1>8, <2>1 DEF Forward, InPhase, Finished
<1>9. CASE r.op = "config"
  <2>1. box'[b].phase = "apply" /\ s.phase = "fetch"
    BY <1>1, <1>2, <1>9 DEF Answered, Tracked, ForPhase, BoxState
  <2> QED BY <1>4, <2>1 DEF Forward, InPhase, Finished
<1>10. CASE r.op = "result"
  <2>1. /\ box'[b].phase = "poll" /\ s.phase \in {"reportOK", "reportBad"}
        /\ s.phase = "reportOK" => RowDone(b)
    BY <1>1, <1>2, <1>10 DEF Answered, Tracked, ForPhase, BoxState
  <2>2. s.phase = "reportOK" => Finished(b)'
    BY <1>4, <1>5, <2>1 DEF Finished
  <2> QED BY <1>4, <2>1, <2>2 DEF Forward, InPhase, Finished
<1> QED BY <1>1, <1>7, <1>8, <1>9, <1>10 DEF ForPhase, Offering

(* A new request of b, for the phase it is in. *)
LEMMA ArrivalForward ==
    ASSUME IInv, IInv', NEW b \in Cisco, NEW i, RowOf(i, b), OnTrack(b),
           NEW h \in Handler, Arrival(h, b)
    PROVE  Forward(b)
<1> DEFINE d == devices[i]
           r == req'[h]
<1>1. /\ b \in Box /\ b \notin Juniper \cup Aruba
      /\ Find(devices, "serial", b) = {i} /\ d \in Row /\ i \in Id
  BY BoxAssumption DEF RowOf
<1>2. /\ ~Active(h) /\ ~Waiting(b)
      /\ UNCHANGED <<devices, box>>
      /\ \A k \in Handler \ {h} : req'[k] = req[k]
  <2>1. ~Active(h) /\ ~Waiting(b) /\ \E q : Serving(h, q)
    BY <1>1 DEF Arrival, Hello, WorkRequest, GetConfig, WorkResult, JuniperConfig,
                ArubaConfig, Arrive, Send
  <2> QED BY <2>1 DEF Serving, IInv, TypeOK
<1>3. \A k \in Handler : ~Of(k, b)
  BY <1>2 DEF OnTrack, Tracked, Waiting, Of
<1>4. Find(devices', "serial", b) = {i} /\ Twin(d, i, b)
  BY <1>1, <1>2 DEF Twin
<1>5. ~Offered(b) /\ (RowDone(b)' <=> RowDone(b))
  BY <1>2, <1>3 DEF Offered, RowDone
<1>6. ASSUME Tracked(req[h], b)', Finished(b) => ~Offering(r)
      PROVE  Forward(b)
  <2>1. OnTrack(b)' /\ (Offered(b)' <=> Of(h, b)' /\ Offering(r))
    BY <1>2, <1>3, <1>6, OneRequest
  <2> QED BY <1>2, <1>5, <1>6, <2>1, SamePhase DEF Finished
<1>7. ASSUME NEW op \in {"hello", "work"}, Arrive(h, b, op)
      PROVE  Forward(b)
  <2>1. box[b].phase = "poll" /\ r = Routed(op, b, i, d, "waiting")
    BY <1>1, <1>7 DEF Arrive, Send, Serving, Key, IInv, TypeOK
  <2>2. CASE op = "work" /\ Offers(d)
    <3>1. /\ r.pc = "mark" /\ r.op = "work" /\ r.peer = "waiting"
          /\ r.dev = d /\ r.id = i
      BY <2>1, <2>2 DEF Routed, At
    <3>2. Twin(req[h].dev, req[h].id, b)'
      BY <1>1, <1>2, <1>4, <3>1 DEF Twin
    <3>3. Tracked(req[h], b)'
      BY <1>2, <2>1, <3>1, <3>2 DEF Tracked, ForPhase
    <3>4. ~Finished(b)
      BY <1>1, <2>2 DEF Finished, RowDone, Offers
    <3> QED BY <1>6, <3>3, <3>4
  <2>3. CASE ~(op = "work" /\ Offers(d))
    <3>1. r = Deny(op, b, "waiting")
      BY <1>7, <2>1, <2>3 DEF Routed
    <3>2. /\ r.pc = "respond" /\ r.op = op /\ r.peer = "waiting"
          /\ ~r.good /\ r.got = NULL
      BY <3>1 DEF Deny, Reply
    <3>3. Tracked(req[h], b)' /\ ~Offering(r)
      BY <1>2, <1>7, <2>1, <3>2 DEF Tracked, ForPhase, Offering
    <3> QED BY <1>6, <3>3
  <2> QED BY <2>2, <2>3
<1>8. CASE GetConfig(h, b)
  <2>1. box[b].phase = "fetch" /\ r = Routed("config", b, i, d, "waiting")
    BY <1>1, <1>8 DEF GetConfig, Send, Serving, IInv, TypeOK
  <2>2. /\ r.pc = "mark" /\ r.op = "config" /\ r.peer = "waiting"
        /\ r.dev = d /\ r.id = i
    BY <2>1 DEF Routed, At
  <2>3. Twin(req[h].dev, req[h].id, b)'
    BY <1>1, <1>2, <1>4, <2>2 DEF Twin
  <2>4. Tracked(req[h], b)' /\ ~Offering(r)
    BY <1>2, <2>1, <2>2, <2>3 DEF Tracked, ForPhase, Offering
  <2> QED BY <1>6, <2>4
<1>9. ASSUME NEW ok \in BOOLEAN, WorkResult(h, b, ok)
      PROVE  Forward(b)
  <2>1. /\ box[b].phase = IF ok THEN "reportOK" ELSE "reportBad"
        /\ r = At("settle", "result", b, i, Reported(d, ok), "waiting")
    BY <1>1, <1>9 DEF WorkResult, Send, Serving, IInv, TypeOK
  <2>2. /\ Reported(d, ok) \in Row
        /\ Reported(d, ok).serial = d.serial /\ Reported(d, ok).spelt = d.spelt
        /\ Reported(d, ok).mac = d.mac /\ Reported(d, ok).profile = d.profile
        /\ ok => Reported(d, ok).status = "provisioned"
    BY <1>1 DEF Reported, Provisioned, Row, Status, Spelling
  <2>3. /\ r.pc = "settle" /\ r.op = "result" /\ r.peer = "waiting"
        /\ r.dev = Reported(d, ok) /\ r.id = i /\ r.got = NULL
    BY <2>1 DEF At
  <2>4. Twin(req[h].dev, req[h].id, b)'
    BY <1>1, <1>2, <1>4, <2>2, <2>3 DEF Twin
  <2>5. Tracked(req[h], b)' /\ ~Offering(r)
    BY <1>2, <2>1, <2>2, <2>3, <2>4 DEF Tracked, ForPhase, Offering
  <2> QED BY <1>6, <2>5
<1> QED BY <1>1, <1>7, <1>8, <1>9
        DEF Arrival, Hello, WorkRequest, JuniperConfig, ArubaConfig

LEMMA ApplyForward ==
    ASSUME IInv, NEW b \in Cisco, OnTrack(b), ApplyOK(b)
    PROVE  Forward(b)
<1>1. /\ box[b].phase = "apply" /\ box'[b].phase = "reportOK"
      /\ UNCHANGED <<devices, req>>
  BY BoxAssumption DEF ApplyOK, BoxOnly, IInv, TypeOK
<1>2. \A h \in Handler : ~Of(h, b)
  BY <1>1 DEF OnTrack, Tracked, ForPhase
<1>3. \A h \in Handler : ~Of(h, b)'
  BY <1>1, <1>2 DEF Of, Active
<1>4. OnTrack(b)' /\ ~Offered(b)' /\ (RowDone(b) => RowDone(b)')
  BY <1>1, <1>3 DEF OnTrack, Offered, RowDone
<1> QED BY <1>1, <1>4 DEF Forward, InPhase, Finished

(* A request keeps serving its box, in the same way, until it ends. *)
LEMMA KeepsBox ==
    ASSUME IInv, NEW h \in Handler, HandlerStep(h)
    PROVE  /\ \A k \in Handler \ {h} : req'[k] = req[k]
           /\ \/ req'[h] = Idle
              \/ req'[h].box = req[h].box /\ req'[h].op = req[h].op
           /\ \A c \in Box : c # req[h].box => box'[c] = box[c]
<1> DEFINE r == req[h]
<1>0. PICK o \in [Id -> Box] : Owners(o)
  BY DEF IInv, OneOwner
<1>1. Active(h)
  BY DEF HandlerStep, Create, Refetch, Touch, Mark, RenderOK, RenderFail, Settle,
         Respond, Active
<1>2. r \in Request /\ box \in [Box -> BoxState] /\ req \in [Handler -> Request \cup {Idle}]
  BY <1>0, <1>1, InFlight DEF IInv, TypeOK
<1> DEFINE For(q, op, b) == q.box = b /\ q.op = op
<1>3. /\ \A op, b, ok, p, peer : For(Reply(op, b, ok, p, peer), op, b)
      /\ \A op, b, peer : For(Deny(op, b, peer), op, b) /\ For(Offer(b, peer), "work", b)
      /\ \A pc, op, b, i, d, peer : For(At(pc, op, b, i, d, peer), op, b)
  BY DEF Reply, Deny, Offer, At
<1>4. \A op, b, i, d, peer : For(Routed(op, b, i, d, peer), op, b)
  BY <1>3 DEF Routed
<1>5. \A b, i, m, peer : For(JuniperFound(b, i, m, peer), "juniper", b)
  BY <1>3, <1>4 DEF JuniperFound
<1>6. CASE Create(h)
  BY <1>2, <1>3, <1>6 DEF Create, Request
<1>7. CASE Refetch(h)
  BY <1>2, <1>3, <1>4, <1>5, <1>7 DEF Refetch, Serving
<1>8. CASE Touch(h)
  BY <1>2, <1>4, <1>8 DEF Touch
<1>9. CASE Mark(h)
  BY <1>2, <1>3, <1>9 DEF Mark
<1>10. CASE RenderOK(h) \/ RenderFail(h)
  <2>1. \A ok : For(Rendered(r, ok), r.op, r.box)
    BY <1>2, <1>3 DEF Rendered, Request
  <2> QED BY <1>2, <1>10, <2>1 DEF RenderOK, RenderFail, Serving
<1>11. CASE Settle(h)
  BY <1>2, <1>3, <1>11 DEF Settle
<1>12. CASE Respond(h)
  BY <1>2, <1>12 DEF Respond
<1> QED BY <1>6, <1>7, <1>8, <1>9, <1>10, <1>11, <1>12 DEF HandlerStep

(* Nor does it write a row of another box. *)
LEMMA KeepsRow ==
    ASSUME IInv, NEW b \in Cisco, NEW i, RowOf(i, b),
           NEW h \in Handler, HandlerStep(h), req[h].box # b
    PROVE  devices'[i] = devices[i]
<1>0. PICK o \in [Id -> Box] : Owners(o)
  BY DEF IInv, OneOwner
<1>1. b \in Box /\ i \in Id /\ i \in Find(devices, "serial", b)
  BY BoxAssumption DEF RowOf
<1>2. o[i] = b /\ devices[i] # NoRow /\ devices \in Table
  BY <1>0, <1>1, FoundOK DEF Find, Live, IInv, TypeOK
<1>3. req[h].id # i
  BY <1>0, <1>1, <1>2 DEF Owners
<1>4. CASE Create(h)
  BY <1>1, <1>2, <1>4 DEF Create, Fresh, Insert, Table
<1>5. CASE Touch(h) \/ Mark(h) \/ Settle(h)
  BY <1>1, <1>2, <1>3, <1>5 DEF Touch, Mark, Settle, Overwrite, Table
<1>6. CASE Refetch(h) \/ RenderOK(h) \/ RenderFail(h) \/ Respond(h)
  BY <1>6 DEF Refetch, RenderOK, RenderFail, Respond, Serving
<1> QED BY <1>4, <1>5, <1>6 DEF HandlerStep

LEMMA HandlerForward ==
    ASSUME IInv, IInv', NEW b \in Cisco, NEW i, RowOf(i, b), OnTrack(b),
           NEW h \in Handler, HandlerStep(h), ~Disturbance
    PROVE  Forward(b)
<1>1. Active(h) /\ b \in Box
  BY BoxAssumption DEF HandlerStep, Create, Refetch, Touch, Mark, RenderOK, RenderFail,
         Settle, Respond, Active
<1>2. CASE req[h].box = b
  <2>1. Of(h, b)
    BY <1>1, <1>2 DEF Of
  <2>2. req[h].pc \in {"mark", "render", "settle", "respond"}
    BY <2>1 DEF OnTrack, Tracked
  <2>3. Mark(h) \/ RenderOK(h) \/ RenderFail(h) \/ Settle(h) \/ Respond(h)
    BY <2>2 DEF HandlerStep, Create, Refetch, Touch
  <2> QED BY <2>1, <2>3, MarkForward, RenderForward, SettleForward, RespondForward
<1>3. CASE req[h].box # b
  <2>1. devices'[i] = devices[i]
    BY <1>3, KeepsRow
  <2>2. /\ \A k \in Handler \ {h} : req'[k] = req[k]
        /\ req'[h] = Idle \/ req'[h].box = req[h].box
        /\ box'[b] = box[b]
    BY <1>1, <1>3, KeepsBox
  <2>3. ~Of(h, b) /\ ~Of(h, b)'
    BY <1>3, <2>2 DEF Of, Active, Idle
  <2> QED BY <2>1, <2>2, <2>3, Bystander
<1> QED BY <1>2, <1>3

(* Whatever is no disturbance takes a box that is on track forward. *)
LEMMA QuietForward ==
    ASSUME IInv, NEW b \in Cisco, HasProfile(b), OnTrack(b),
           [Next]_vars, [~Disturbance]_vars
    PROVE  Forward(b)
<1>1. PICK i \in Id : RowOf(i, b)
  BY HasRow
<1>2. IInv'
  BY NextInv
<1>3. b \in Box /\ b # NULL /\ devices[i] # NoRow /\ devices \in Table
  BY <1>1, BoxAssumption, NullBox DEF RowOf, Find, Live, IInv, TypeOK
<1>4. ASSUME UNCHANGED <<req, box>>,
             devices'[i] = devices[i] \/ devices'[i] = Provisioned(devices[i])
      PROVE  Forward(b)
  BY <1>1, <1>2, <1>4, Bystander DEF Of, Active
<1>5. CASE UNCHANGED vars
  BY <1>4, <1>5 DEF vars
<1>6. ASSUME ~Disturbance, NEW h \in Handler, HandlerStep(h) \/ Abort(h) \/ GiveUp(h)
      PROVE  Forward(b)
  <2>1. HandlerStep(h)
    BY <1>6 DEF Disturbance, HandlerStep
  <2> QED BY <1>1, <1>2, <1>6, <2>1, HandlerForward
<1>7. ASSUME NEW h \in Handler, NEW c \in Box, Arrival(h, c)
      PROVE  Forward(b)
  <2>1. CASE c = b
    BY <1>1, <1>2, <1>7, <2>1, ArrivalForward
  <2>2. CASE c # b
    <3>1. /\ ~Active(h)
          /\ UNCHANGED <<devices, box>>
          /\ \E r : Serving(h, r) /\ r.box = c
      <4>1. /\ \A op, p, i2, d, peer : Routed(op, c, i2, d, peer).box = c
            /\ \A op, peer : Deny(op, c, peer).box = c
            /\ \A pc, op, i2, d, peer : At(pc, op, c, i2, d, peer).box = c
        BY DEF Routed, Deny, Reply, At
      <4>2. \A i2, m, peer : JuniperFound(c, i2, m, peer).box = c
        BY <4>1 DEF JuniperFound
      <4> QED BY <1>7, <4>1, <4>2
              DEF Arrival, Hello, WorkRequest, GetConfig, WorkResult, JuniperConfig,
                  ArubaConfig, Arrive, Send, Serving
    <3>2. /\ \A k \in Handler \ {h} : req'[k] = req[k]
          /\ req'[h].box = c
      BY <3>1 DEF Serving, IInv, TypeOK
    <3>3. ~Of(h, b) /\ ~Of(h, b)'
      BY <2>2, <3>1, <3>2 DEF Of
    <3> QED BY <1>1, <1>2, <3>1, <3>2, <3>3, Bystander
  <2> QED BY <2>1, <2>2
<1>8. ASSUME ~Disturbance, NEW c \in Box, BoxStep(c) PROVE Forward(b)
  <2>1. ApplyOK(c)
    BY <1>8 DEF Disturbance, BoxStep
  <2>2. CASE c = b
    BY <2>1, <2>2, ApplyForward
  <2>3. CASE c # b
    <3>1. box'[b] = box[b] /\ UNCHANGED <<devices, req>>
      BY <1>3, <2>1, <2>3 DEF ApplyOK, BoxOnly, IInv, TypeOK
    <3> QED BY <1>1, <1>2, <3>1, Bystander DEF Of, Active
  <2> QED BY <2>2, <2>3
<1>9. ASSUME NEW c \in Box, PollInsert(c) PROVE Forward(b)
  <2>1. UNCHANGED <<req, box>> /\ devices'[i] = devices[i]
    BY <1>3, <1>9 DEF PollInsert, Fresh, Insert, Table
  <2> QED BY <1>4, <2>1
<1>10. CASE PollLeases
  BY <1>4, <1>10 DEF PollLeases
<1>11. ASSUME NEW c \in Box, NEW j \in Id, SyslogProvisioned(c, j) PROVE Forward(b)
  <2>1. UNCHANGED <<req, box>>
    BY <1>11 DEF SyslogProvisioned
  <2>2. devices'[i] = devices[i] \/ devices'[i] = Provisioned(devices[i])
    BY <1>3, <1>11 DEF SyslogProvisioned, Table
  <2> QED BY <1>4, <2>1, <2>2
<1> QED BY <1>5, <1>6, <1>7, <1>8, <1>9, <1>10, <1>11 DEF Next, Disturbance

-----------------------------------------------------------------------------
(* The theorem. *)

(* A Cisco box has always something to do. *)
LEMMA NeverDone == ASSUME NEW b \in Cisco PROVE Spec => [](~InPhase(b, "done"))
<1>1. b \in Box
  BY BoxAssumption
<1>2. Init => ~InPhase(b, "done")
  BY <1>1 DEF Init, InPhase
<1>3. ASSUME IInv, ~InPhase(b, "done"), [Next]_vars PROVE ~InPhase(b, "done")'
  <2>1. CASE UNCHANGED box
    BY <1>3, <2>1 DEF InPhase
  <2>2. box \in [Box -> BoxState]
    BY <1>3 DEF IInv, TypeOK
  <2>3. ASSUME NEW h \in Handler, Respond(h) PROVE ~InPhase(b, "done")'
    <3>1. Answered(box[b], req[h]).phase # "done"
      BY <1>1, <1>3, <2>2 DEF Answered, BoxState, InPhase
    <3> QED BY <1>1, <1>3, <2>2, <2>3, <3>1 DEF Respond, InPhase
  <2>4. ASSUME NEW h \in Handler, HandlerStep(h) \/ Abort(h) \/ GiveUp(h)
        PROVE  ~InPhase(b, "done")'
    BY <2>1, <2>3, <2>4 DEF HandlerStep, Create, Refetch, Touch, Mark, RenderOK, RenderFail,
                            Settle, Abort, GiveUp, Serving
  <2>5. ASSUME NEW c \in Box, BoxStep(c) PROVE ~InPhase(b, "done")'
    <3>1. CASE ApplyOK(c)
      BY <1>1, <1>3, <2>2, <3>1 DEF ApplyOK, InPhase
    <3>2. CASE ApplyFail(c)
      BY <1>1, <1>3, <2>2, <3>2 DEF ApplyFail, InPhase
    <3>3. CASE FetchFail(c)
      BY <1>1, <1>3, <2>2, <3>3 DEF FetchFail, InPhase, BoxState
    <3> QED BY <2>1, <2>5, <3>1, <3>2, <3>3 DEF BoxStep, Lease, Expire
  <2>6. CASE OperatorStep \/ PollLeases
    BY <2>1, <2>6 DEF OperatorStep, PollLeases, Register, Remove, OpenForm, SaveForm,
                      CloseForm, CreateProfile, DeleteProfile
  <2>7. ASSUME NEW h \in Handler, NEW c \in Box, Arrival(h, c) PROVE ~InPhase(b, "done")'
    BY <2>1, <2>7 DEF Arrival, Hello, WorkRequest, GetConfig, WorkResult, JuniperConfig,
                      ArubaConfig, Arrive, Serving
  <2>8. ASSUME NEW c \in Box, PollInsert(c) PROVE ~InPhase(b, "done")'
    BY <2>1, <2>8 DEF PollInsert
  <2>9. ASSUME NEW c \in Box, NEW i \in Id, SyslogProvisioned(c, i)
        PROVE  ~InPhase(b, "done")'
    BY <2>1, <2>9 DEF SyslogProvisioned
  <2> QED BY <1>3, <2>1, <2>4, <2>5, <2>6, <2>7, <2>8, <2>9 DEF Next, vars
<1> QED BY <1>2, <1>3, Invariance, PTL DEF Spec

LEMMA FinishedForGood ==
    ASSUME IInv, NEW b \in Cisco, HasProfile(b), Finished(b)
    PROVE  /\ Configured(b)
           /\ \A i \in Find(devices, "serial", b) : devices[i].status = "provisioned"
<1>1. PICK i \in Find(devices, "serial", b) : TRUE
  BY DEF HasProfile
<1>2. devices[i].status = "provisioned" /\ Owns(devices[i], b) /\ i \in Live(devices)
  BY <1>1 DEF Finished, RowDone, Find, Owns
<1>3. Configured(b)
  BY <1>2, ConfiguredByInv DEF ProvisionedIsConfigured
<1> QED BY <1>3 DEF Finished, RowDone

(* A Cisco box whose row keeps a profile converges once things are quiet,  *)
(* provided it and its requests go on, as fairness has it: no request or   *)
(* form of before, and no order of the statements, can lead it back.       *)
THEOREM QuietBoxesConverge ==
    Spec /\ (\A b \in Cisco : Quiet(b) => GoesOn(b)) => Convergence
<1>1. ASSUME NEW b \in Cisco
      PROVE  Spec /\ (Quiet(b) => GoesOn(b)) =>
               (/\ <>[][~Disturbance]_vars
                /\ <>[](\E i \in Find(devices, "serial", b) : devices[i].profile # NULL)
                => <>[](/\ Configured(b)
                        /\ \A i \in Find(devices, "serial", b) :
                              devices[i].status = "provisioned"))
  <2> DEFINE Good == /\ Configured(b)
                     /\ \A i \in Find(devices, "serial", b) :
                          devices[i].status = "provisioned"
             Bad == InPhase(b, "reportBad")
             Poll == InPhase(b, "poll")
             Fetch == InPhase(b, "fetch")
             Apply == InPhase(b, "apply")
             Report == InPhase(b, "reportOK")
             Done == InPhase(b, "done")
  <2>1. NoneInFlight(b) => OnTrack(b) /\ ~Offered(b)
    BY DEF NoneInFlight, OnTrack, Offered
  <2>2. IInv /\ HasProfile(b) /\ OnTrack(b) /\ [Next]_vars /\ [~Disturbance]_vars
          => /\ OnTrack(b)'
             /\ Finished(b) => Finished(b)'
             /\ Bad => Bad' \/ Poll'
             /\ Poll => Poll' \/ Fetch'
             /\ Poll /\ Offered(b) => Offered(b)' \/ Fetch'
             /\ Fetch => Fetch' \/ Apply'
             /\ Apply => Apply' \/ Report'
             /\ Report => Report' \/ Finished(b)'
    BY QuietForward DEF Forward
  <2>3. IInv => Bad \/ Poll \/ Fetch \/ Apply \/ Report \/ Done
    BY BoxAssumption DEF IInv, TypeOK, BoxState, Phases, InPhase
  <2>4. Poll /\ OnTrack(b) /\ RowDone(b) => Finished(b) \/ Offered(b)
    BY DEF Finished, InPhase
  <2>5. IInv /\ HasProfile(b) /\ Finished(b) => Good
    BY FinishedForGood
  <2>6. (\E i \in Find(devices, "serial", b) : devices[i].profile # NULL) => HasProfile(b)
    BY DEF HasProfile
  <2>7. Spec => []~Done
    BY NeverDone
  <2> HIDE DEF Bad, Poll, Fetch, Apply, Report, Done
  <2> QED BY <2>1, <2>2, <2>3, <2>4, <2>5, <2>6, <2>7, Invariance, PTL
          DEF Spec, Quiet, GoesOn, Bad, Poll, Fetch, Apply, Report
<1> QED BY <1>1 DEF Convergence

-----------------------------------------------------------------------------
(* Juniper and Aruba boxes ask with one request, which brings the          *)
(* configuration: once things are quiet, every request that is made is     *)
(* answered with one, whether or not its writes are refused.               *)

IsAssigned(b) ==
    \E i \in Find(devices, IF b \in Aruba THEN "mac" ELSE "serial", b) :
        devices[i].profile # NULL

(* Request r will bring a configuration. *)
Promising(r) ==
    /\ r.peer = "waiting"
    /\ \/ r.pc \in {"touch", "mark", "render"} /\ r.dev.profile \in profiles
       \/ r.pc \in {"settle", "respond"} /\ r.got # NULL

AllPromising(b) == \A h \in Handler : Of(h, b) => Promising(req[h])

(* What such a box does and asks at all. *)
ZtpOnly(b) ==
    /\ box[b].phase \in {"poll", "apply", "done"}
    /\ box[b].phase = "done" => Configured(b)
    /\ \A h \in Handler : Of(h, b) => req[h].op \in {"juniper", "aruba"}

(* What fairness gives once things are quiet: every request ends, no       *)
(* configuration is applied for ever, and the box asks again and again     *)
(* unless it has one.                                                      *)
AsksOn(b) ==
    /\ []<>NoneInFlight(b)
    /\ []<>(~InPhase(b, "apply"))
    /\ []<>(InPhase(b, "poll") => ~NoneInFlight(b))

QuietZtp(b) == <>[][~Disturbance]_vars /\ <>[]IsAssigned(b)

(* A new request is one of its box's protocol, sent in its phase. *)
LEMMA ArrivalOf ==
    ASSUME IInv, NEW h \in Handler, NEW c \in Box, Arrival(h, c)
    PROVE  /\ ~Active(h) /\ UNCHANGED <<devices, profiles, box>>
           /\ \A k \in Handler \ {h} : req'[k] = req[k]
           /\ req'[h].box = c
           /\ c \in Juniper \cup Aruba => req'[h].op \in {"juniper", "aruba"}
<1> DEFINE Good(r) == /\ r.box = c
                      /\ c \in Juniper \cup Aruba => r.op \in {"juniper", "aruba"}
<1>1. /\ \A op, i, d, peer : Routed(op, c, i, d, peer).box = c /\ Routed(op, c, i, d, peer).op = op
      /\ \A op, peer : Deny(op, c, peer).box = c /\ Deny(op, c, peer).op = op
      /\ \A pc, op, i, d, peer : At(pc, op, c, i, d, peer).box = c /\ At(pc, op, c, i, d, peer).op = op
  BY DEF Routed, Deny, Reply, At
<1>2. \A i, m, peer : JuniperFound(c, i, m, peer).box = c /\ JuniperFound(c, i, m, peer).op = "juniper"
  BY <1>1 DEF JuniperFound
<1>3. c \in Cisco => c \notin Juniper \cup Aruba
  BY BoxAssumption
<1>4. ~Active(h) /\ \E r : Serving(h, r) /\ Good(r)
  <2>1. CASE JuniperConfig(h, c)
    BY <1>1, <1>2, <2>1 DEF JuniperConfig, Send
  <2>2. CASE ArubaConfig(h, c)
    BY <1>1, <2>2 DEF ArubaConfig, Arrive, Send
  <2>3. CASE Hello(h, c) \/ WorkRequest(h, c)
    BY <1>1, <1>3, <2>3 DEF Hello, WorkRequest, Arrive, Send
  <2>4. CASE GetConfig(h, c)
    BY <1>1, <1>3, <2>4 DEF GetConfig, Send
  <2>5. ASSUME NEW ok \in BOOLEAN, WorkResult(h, c, ok)
        PROVE  ~Active(h) /\ \E r : Serving(h, r) /\ Good(r)
    BY <1>1, <1>3, <2>5 DEF WorkResult, Send
  <2> QED BY <2>1, <2>2, <2>3, <2>4, <2>5 DEF Arrival
<1> QED BY <1>4 DEF Serving, IInv, TypeOK

LEMMA ZtpStays ==
    ASSUME IInv, NEW b \in Juniper \cup Aruba, ZtpOnly(b), [Next]_vars
    PROVE  ZtpOnly(b)' /\ (Configured(b) => Configured(b)')
<1>1. /\ b \in Box /\ b \notin Cisco
      /\ box \in [Box -> BoxState] /\ req \in [Handler -> Request \cup {Idle}]
  BY BoxAssumption DEF IInv, TypeOK
<1>2. ASSUME UNCHANGED box, \A h \in Handler : Of(h, b)' => req'[h].op \in {"juniper", "aruba"}
      PROVE  ZtpOnly(b)' /\ (Configured(b) => Configured(b)')
  BY <1>2 DEF ZtpOnly, Configured
<1>3. CASE UNCHANGED <<req, box>>
  BY <1>2, <1>3 DEF ZtpOnly, Of, Active
<1>4. ASSUME NEW h \in Handler, HandlerStep(h)
      PROVE  ZtpOnly(b)' /\ (Configured(b) => Configured(b)')
  <2>1. \A k \in Handler : Of(k, b)' => req'[k].op \in {"juniper", "aruba"}
    <3>1. /\ \A k \in Handler \ {h} : req'[k] = req[k]
          /\ req'[h] = Idle \/ (req'[h].box = req[h].box /\ req'[h].op = req[h].op)
      BY <1>4, KeepsBox
    <3>2. Active(h)
      BY <1>4 DEF HandlerStep, Create, Refetch, Touch, Mark, RenderOK, RenderFail, Settle,
                  Respond, Active
    <3> QED BY <3>1, <3>2 DEF ZtpOnly, Of, Active, Idle
  <2>2. CASE Respond(h)
    <3> DEFINE r == req[h]
    <3>1. CASE r.box = b /\ r.peer = "waiting"
      <4>1. r.op \in {"juniper", "aruba"}
        BY <2>2, <3>1 DEF ZtpOnly, Of, Active, Respond
      <4>2. box'[b] = Answered(box[b], r)
        BY <1>1, <2>2, <3>1 DEF Respond
      <4>3. /\ box'[b].cfg = box[b].cfg
            /\ box'[b].phase \in {"apply", box[b].phase}
        BY <1>1, <4>1, <4>2 DEF Answered, BoxState
      <4> QED BY <2>1, <4>3 DEF ZtpOnly, Configured
    <3>2. CASE ~(r.box = b /\ r.peer = "waiting")
      <4>1. box'[b] = box[b]
        BY <1>1, <2>2, <3>2 DEF Respond
      <4> QED BY <2>1, <4>1 DEF ZtpOnly, Configured
    <3> QED BY <3>1, <3>2
  <2>3. CASE ~Respond(h)
    <3>1. UNCHANGED box
      BY <1>4, <2>3 DEF HandlerStep, Create, Refetch, Touch, Mark, RenderOK, RenderFail,
                        Settle, Serving
    <3> QED BY <1>2, <2>1, <3>1
  <2> QED BY <2>2, <2>3
<1>5. ASSUME NEW h \in Handler, Abort(h) \/ GiveUp(h)
      PROVE  ZtpOnly(b)' /\ (Configured(b) => Configured(b)')
  <2>1. /\ UNCHANGED box
        /\ \A k \in Handler \ {h} : req'[k] = req[k]
        /\ req'[h] = Idle \/ req'[h] = [req[h] EXCEPT !.peer = "gone"]
    BY <1>1, <1>5 DEF Abort, GiveUp, Serving
  <2>2. req'[h].pc # "idle" => /\ req[h] \in Request
                               /\ req'[h] = [req[h] EXCEPT !.peer = "gone"]
    BY <1>1, <2>1 DEF Idle
  <2>3. req'[h].pc # "idle" => /\ req'[h].pc = req[h].pc
                               /\ req'[h].box = req[h].box /\ req'[h].op = req[h].op
    BY <2>2 DEF Request
  <2> QED BY <1>2, <2>1, <2>3 DEF ZtpOnly, Of, Active
<1>6. ASSUME NEW h \in Handler, NEW c \in Box, Arrival(h, c)
      PROVE  ZtpOnly(b)' /\ (Configured(b) => Configured(b)')
  <2>1. \A k \in Handler : Of(k, b)' => req'[k].op \in {"juniper", "aruba"}
    BY <1>6, ArrivalOf DEF ZtpOnly, Of, Active
  <2> QED BY <1>2, <1>6, <2>1, ArrivalOf
<1>7. ASSUME NEW c \in Box, BoxStep(c)
      PROVE  ZtpOnly(b)' /\ (Configured(b) => Configured(b)')
  <2>1. \A h \in Handler : Of(h, b)' <=> Of(h, b)
    BY <1>7 DEF BoxStep, ApplyOK, ApplyFail, FetchFail, Lease, Expire, BoxOnly, Of, Active
  <2>2. UNCHANGED req
    BY <1>7 DEF BoxStep, ApplyOK, ApplyFail, FetchFail, Lease, Expire, BoxOnly
  <2>3. CASE ApplyOK(c) /\ c = b
    <3>1. /\ box'[b].phase = "done" /\ box'[b].cfg = box[b].got
          /\ box[b].got # NULL
      BY <1>1, <2>3 DEF ApplyOK, IInv, BoxesOK
    <3> QED BY <2>1, <2>2, <3>1 DEF ZtpOnly, Configured
  <2>4. CASE ApplyFail(c) /\ c = b
    <3>1. box'[b].phase = "poll" /\ box'[b].cfg = box[b].cfg
      BY <1>1, <2>4 DEF ApplyFail
    <3> QED BY <2>1, <2>2, <3>1 DEF ZtpOnly, Configured
  <2>5. CASE FetchFail(c) /\ c = b
    BY <2>5 DEF FetchFail, ZtpOnly
  <2>6. CASE box'[b] = box[b]
    BY <2>1, <2>2, <2>6 DEF ZtpOnly, Configured
  <2>7. c # b \/ Lease(c) \/ Expire(c) => box'[b] = box[b]
    BY <1>1, <1>7 DEF BoxStep, ApplyOK, ApplyFail, FetchFail, Lease, Expire
  <2> QED BY <1>7, <2>3, <2>4, <2>5, <2>6, <2>7 DEF BoxStep
<1>8. CASE OperatorStep \/ PollLeases \/ UNCHANGED vars
  BY <1>3, <1>8 DEF OperatorStep, PollLeases, Register, Remove, OpenForm, SaveForm,
                    CloseForm, CreateProfile, DeleteProfile, vars
<1>9. ASSUME NEW c \in Box, PollInsert(c) \/ \E i \in Id : SyslogProvisioned(c, i)
      PROVE  ZtpOnly(b)' /\ (Configured(b) => Configured(b)')
  BY <1>3, <1>9 DEF PollInsert, SyslogProvisioned
<1> QED BY <1>4, <1>5, <1>6, <1>7, <1>8, <1>9 DEF Next

(* A step that goes forward. *)
ZtpForward(b) ==
    /\ AllPromising(b)'
    /\ InPhase(b, "poll") => InPhase(b, "poll")' \/ InPhase(b, "apply")'
    /\ InPhase(b, "poll") /\ ~NoneInFlight(b) => ~NoneInFlight(b)' \/ InPhase(b, "apply")'
    /\ InPhase(b, "apply") => InPhase(b, "apply")' \/ Configured(b)'

LEMMA ZtpBystander ==
    ASSUME NEW b, AllPromising(b), box'[b] = box[b], profiles' = profiles,
           \A h \in Handler : Of(h, b) \/ Of(h, b)' => req'[h] = req[h]
    PROVE  ZtpForward(b)
<1>1. \A h \in Handler : Of(h, b)' <=> Of(h, b)
  BY DEF Of, Active
<1>2. \A h \in Handler : Of(h, b) => Promising(req[h])'
  BY DEF AllPromising, Promising
<1>3. AllPromising(b)' /\ (NoneInFlight(b)' <=> NoneInFlight(b))
  BY <1>1, <1>2 DEF AllPromising, NoneInFlight
<1> QED BY <1>3 DEF ZtpForward, InPhase

LEMMA ZtpRequestForward ==
    ASSUME IInv, NEW b \in Juniper \cup Aruba, ZtpOnly(b), AllPromising(b),
           NEW h \in Handler, Of(h, b), HandlerStep(h), ~Disturbance
    PROVE  ZtpForward(b)
<1> DEFINE r == req[h]
<1>1. /\ r \in Request /\ r.box = b /\ b \in Box /\ r.peer = "waiting"
      /\ r.op \in {"juniper", "aruba"} /\ Promising(r)
      /\ box \in [Box -> BoxState] /\ req \in [Handler -> Request \cup {Idle}]
      /\ profiles \subseteq Profile
  BY BoxAssumption DEF Of, Active, Idle, ZtpOnly, AllPromising, Promising, IInv, TypeOK
<1>2. \A k \in Handler \ {h} : req'[k] = req[k]
  BY KeepsBox
<1>3. ASSUME box' = box, profiles' = profiles, req'[h].pc # "idle", req'[h].box = b,
             Promising(req[h])'
      PROVE  ZtpForward(b)
  <2>1. \A k \in Handler \ {h} : Of(k, b)' => Promising(req[k])'
    BY <1>2, <1>3 DEF Of, Active, AllPromising, Promising
  <2>2. Of(h, b)'
    BY <1>3 DEF Of, Active
  <2> QED BY <1>3, <2>1, <2>2 DEF ZtpForward, AllPromising, NoneInFlight, InPhase
<1>4. CASE Touch(h)
  <2>1. r.pc = "touch" /\ r.dev.profile \in profiles /\ r.dev.profile # NULL
    BY <1>1, <1>4, NullBox DEF Touch, Promising
  <2>2. /\ req'[h] = At("mark", r.op, b, r.id, r.dev, "waiting")
        /\ UNCHANGED <<box, profiles>>
    BY <1>1, <1>4, <2>1 DEF Touch, Routed
  <2>3. /\ req'[h].pc = "mark" /\ req'[h].box = b /\ req'[h].peer = "waiting"
        /\ req'[h].dev = r.dev
    BY <2>2 DEF At
  <2> QED BY <1>3, <2>1, <2>2, <2>3 DEF Promising
<1>5. CASE Mark(h)
  <2>1. r.pc = "mark" /\ r.dev.profile \in profiles /\ r.dev \in Row
    BY <1>1, <1>5 DEF Mark, Promising, IInv, RequestsOK, RequestOK, Of
  <2>2. /\ req'[h] = At("render", r.op, b, r.id, Marked(r.dev), "waiting")
        /\ UNCHANGED <<box, profiles>>
    BY <1>1, <1>5 DEF Mark
  <2>3. /\ req'[h].pc = "render" /\ req'[h].box = b /\ req'[h].peer = "waiting"
        /\ req'[h].dev = Marked(r.dev)
    BY <2>2 DEF At
  <2>4. Marked(r.dev).profile = r.dev.profile
    BY <2>1 DEF Marked, Row
  <2> QED BY <1>3, <2>1, <2>2, <2>3, <2>4 DEF Promising
<1>6. CASE RenderOK(h) \/ RenderFail(h)
  <2>1. r.pc = "render" /\ r.dev.profile \in profiles /\ r.dev.profile # NULL
    BY <1>1, <1>6, NullBox DEF RenderOK, RenderFail, Promising
  <2>2. Serving(h, Rendered(r, TRUE))
    BY <1>6, <2>1 DEF RenderOK, RenderFail, Disturbance, Renderable
  <2>3. /\ req'[h] = [r EXCEPT !.pc = "settle", !.dev = Reported(r.dev, TRUE),
                               !.good = TRUE, !.got = r.dev.profile]
        /\ UNCHANGED <<box, profiles>>
    BY <1>1, <2>2 DEF Serving, Rendered
  <2>4. /\ req'[h].pc = "settle" /\ req'[h].box = b /\ req'[h].peer = "waiting"
        /\ req'[h].got = r.dev.profile
    BY <1>1, <2>3 DEF Request
  <2> QED BY <1>3, <2>1, <2>3, <2>4 DEF Promising
<1>7. CASE Settle(h)
  <2>1. r.pc = "settle" /\ r.got # NULL
    BY <1>1, <1>7 DEF Settle, Promising
  <2>2. /\ req'[h] = Reply(r.op, b, r.good, r.got, "waiting")
        /\ UNCHANGED <<box, profiles>>
    BY <1>1, <1>7 DEF Settle
  <2>3. /\ req'[h].pc = "respond" /\ req'[h].box = b /\ req'[h].peer = "waiting"
        /\ req'[h].got = r.got
    BY <2>2 DEF Reply
  <2> QED BY <1>3, <2>1, <2>2, <2>3 DEF Promising
<1>8. CASE Respond(h)
  <2>1. r.pc = "respond" /\ r.got # NULL
    BY <1>1, <1>8 DEF Respond, Promising
  <2>2. box'[b] = Answered(box[b], r) /\ profiles' = profiles /\ req'[h] = Idle
    BY <1>1, <1>8 DEF Respond
  <2>3. box'[b].phase = "apply"
    BY <1>1, <2>1, <2>2 DEF Answered, BoxState
  <2>4. ~Of(h, b)'
    BY <2>2 DEF Of, Active, Idle
  <2>5. \A k \in Handler \ {h} : Of(k, b)' => Promising(req[k])'
    BY <1>2, <2>2 DEF Of, Active, AllPromising, Promising
  <2> QED BY <2>3, <2>4, <2>5 DEF ZtpForward, AllPromising, InPhase
<1>9. CASE Create(h) \/ Refetch(h)
  BY <1>1, <1>9 DEF Create, Refetch, Promising
<1> QED BY <1>4, <1>5, <1>6, <1>7, <1>8, <1>9 DEF HandlerStep

LEMMA ZtpArrivalForward ==
    ASSUME IInv, NEW b \in Juniper \cup Aruba, IsAssigned(b), AllPromising(b),
           NEW h \in Handler, Arrival(h, b)
    PROVE  ZtpForward(b)
<1> DEFINE key == IF b \in Aruba THEN "mac" ELSE "serial"
           r == req'[h]
<1>1. b \in Box /\ b \notin Cisco /\ b # NULL /\ (b \in Juniper <=> b \notin Aruba)
  BY BoxAssumption, NullBox
<1>2. PICK i \in Find(devices, key, b) : devices[i].profile # NULL
  BY DEF IsAssigned
<1>3. /\ i \in Live(devices) /\ devices[i][key] = b
      /\ devices[i] \in Row /\ devices[i].profile \in profiles
  BY <1>2 DEF Find, Live, IInv, TypeOK, Table, TableIntegrity, TableOK, Opt
<1>4. \A j \in Find(devices, key, b) : j = i
  BY <1>1, <1>3 DEF Find, IInv, TableIntegrity, TableOK, Clash
<1>5. /\ ~Active(h) /\ UNCHANGED <<devices, profiles, box>>
      /\ \A k \in Handler \ {h} : req'[k] = req[k]
      /\ r.box = b
  BY <1>1, ArrivalOf
<1>6. /\ r.peer = "waiting" /\ r.pc \in {"touch", "mark"}
      /\ r.dev.profile \in profiles
  <2>1. CASE b \in Aruba
    <3>1. r = Routed("aruba", b, i, devices[i], "waiting")
      BY <1>1, <1>2, <1>4, <2>1
         DEF Arrival, Hello, WorkRequest, GetConfig, WorkResult, JuniperConfig, ArubaConfig,
             Arrive, Serving, Key, IInv, TypeOK
    <3>2. r = At("mark", "aruba", b, i, devices[i], "waiting")
      BY <1>2, <3>1 DEF Routed
    <3> QED BY <1>3, <3>2 DEF At
  <2>2. CASE b \in Juniper
    <3>1. \E m : r = JuniperFound(b, i, m, "waiting")
      BY <1>1, <1>2, <1>4, <2>2
         DEF Arrival, Hello, WorkRequest, GetConfig, WorkResult, JuniperConfig, ArubaConfig,
             Serving, IInv, TypeOK
    <3>2. PICK m : r = JuniperFound(b, i, m, "waiting")
      BY <3>1
    <3> DEFINE d == Backfilled(devices[i], m)
    <3>3. d.profile = devices[i].profile
      BY <1>3 DEF Backfilled, Row
    <3>4. \/ r = At("touch", "juniper", b, i, d, "waiting")
          \/ r = At("mark", "juniper", b, i, d, "waiting")
      BY <1>2, <3>2, <3>3 DEF JuniperFound, Routed
    <3> HIDE DEF d
    <3> QED BY <1>3, <3>3, <3>4 DEF At
  <2> QED BY <2>1, <2>2
<1>7. Promising(req[h])' /\ Of(h, b)'
  BY <1>5, <1>6 DEF Promising, Of, Active
<1>8. \A k \in Handler \ {h} : Of(k, b)' => Promising(req[k])'
  BY <1>5 DEF Of, Active, AllPromising, Promising
<1> QED BY <1>5, <1>7, <1>8 DEF ZtpForward, AllPromising, NoneInFlight, InPhase

LEMMA QuietZtpForward ==
    ASSUME IInv, NEW b \in Juniper \cup Aruba, IsAssigned(b), ZtpOnly(b), AllPromising(b),
           [Next]_vars, [~Disturbance]_vars
    PROVE  ZtpForward(b)
<1>1. b \in Box /\ b \notin Cisco /\ box \in [Box -> BoxState]
  BY BoxAssumption DEF IInv, TypeOK
<1>2. ASSUME UNCHANGED <<req, box, profiles>> PROVE ZtpForward(b)
  BY <1>2, ZtpBystander DEF Of, Active
<1>3. CASE UNCHANGED vars
  BY <1>2, <1>3 DEF vars
<1>4. ASSUME ~Disturbance, NEW h \in Handler, HandlerStep(h) \/ Abort(h) \/ GiveUp(h)
      PROVE  ZtpForward(b)
  <2>1. HandlerStep(h) /\ Active(h)
    BY <1>4 DEF Disturbance, HandlerStep, Create, Refetch, Touch, Mark, RenderOK,
                RenderFail, Settle, Respond, Active
  <2>2. CASE req[h].box = b
    BY <1>4, <2>1, <2>2, ZtpRequestForward DEF Of
  <2>3. CASE req[h].box # b
    <3>1. /\ \A k \in Handler \ {h} : req'[k] = req[k]
          /\ req'[h] = Idle \/ req'[h].box = req[h].box
          /\ box'[b] = box[b]
      BY <1>1, <2>1, <2>3, KeepsBox
    <3>2. profiles' = profiles
      BY <2>1 DEF HandlerStep, Create, Refetch, Touch, Mark, RenderOK, RenderFail, Settle,
                  Respond, Serving
    <3>3. ~Of(h, b) /\ ~Of(h, b)'
      BY <2>3, <3>1 DEF Of, Active, Idle
    <3> QED BY <3>1, <3>2, <3>3, ZtpBystander
  <2> QED BY <2>2, <2>3
<1>5. ASSUME NEW h \in Handler, NEW c \in Box, Arrival(h, c) PROVE ZtpForward(b)
  <2>1. CASE c = b
    BY <1>5, <2>1, ZtpArrivalForward
  <2>2. CASE c # b
    <3>1. /\ ~Active(h) /\ UNCHANGED <<devices, profiles, box>>
          /\ \A k \in Handler \ {h} : req'[k] = req[k]
          /\ req'[h].box = c
      BY <1>5, ArrivalOf
    <3>2. ~Of(h, b) /\ ~Of(h, b)'
      BY <2>2, <3>1 DEF Of
    <3> QED BY <3>1, <3>2, ZtpBystander
  <2> QED BY <2>1, <2>2
<1>6. ASSUME ~Disturbance, NEW c \in Box, BoxStep(c) PROVE ZtpForward(b)
  <2>1. ApplyOK(c) /\ UNCHANGED <<req, profiles>>
    BY <1>6 DEF Disturbance, BoxStep, ApplyOK, BoxOnly
  <2>2. CASE c = b
    <3>1. box[b].phase = "apply" /\ box'[b].cfg # NULL
      BY <1>1, <2>1, <2>2 DEF ApplyOK, IInv, BoxesOK
    <3>2. AllPromising(b)'
      BY <2>1 DEF AllPromising, Promising, Of, Active
    <3> QED BY <3>1, <3>2 DEF ZtpForward, InPhase, Configured
  <2>3. CASE c # b
    <3>1. box'[b] = box[b]
      BY <1>1, <2>1, <2>3 DEF ApplyOK
    <3> QED BY <2>1, <3>1, ZtpBystander DEF Of, Active
  <2> QED BY <2>2, <2>3
<1>7. ASSUME NEW c \in Box, PollInsert(c) \/ \E i \in Id : SyslogProvisioned(c, i)
      PROVE  ZtpForward(b)
  BY <1>2, <1>7 DEF PollInsert, SyslogProvisioned
<1>8. CASE PollLeases
  BY <1>2, <1>8 DEF PollLeases
<1> QED BY <1>3, <1>4, <1>5, <1>6, <1>7, <1>8 DEF Next, Disturbance

(* A Juniper or Aruba box whose row keeps a profile is configured once     *)
(* things are quiet, provided it asks on and its requests end, as fairness *)
(* has it.                                                                 *)
THEOREM QuietBoxesAreConfigured ==
    Spec /\ (\A b \in Juniper \cup Aruba : QuietZtp(b) => AsksOn(b)) => EventuallyConfigured
<1>1. ASSUME NEW b \in Juniper \cup Aruba
      PROVE  Spec /\ (QuietZtp(b) => AsksOn(b)) =>
               (/\ <>[][~Disturbance]_vars
                /\ <>[](\E i \in Find(devices, IF b \in Aruba THEN "mac" ELSE "serial", b) :
                          devices[i].profile # NULL)
                => <>Configured(b))
  <2> DEFINE Poll == InPhase(b, "poll")
             Apply == InPhase(b, "apply")
  <2>1. Init => ZtpOnly(b)
    BY BoxAssumption DEF Init, ZtpOnly, Of, Active, Idle
  <2>2. IInv /\ ZtpOnly(b) /\ [Next]_vars => ZtpOnly(b)'
    BY ZtpStays
  <2>3. ZtpOnly(b) => Poll \/ Apply \/ Configured(b)
    BY DEF ZtpOnly, InPhase
  <2>4. NoneInFlight(b) => AllPromising(b)
    BY DEF NoneInFlight, AllPromising
  <2>5. IInv /\ IsAssigned(b) /\ ZtpOnly(b) /\ AllPromising(b)
             /\ [Next]_vars /\ [~Disturbance]_vars
          => /\ AllPromising(b)'
             /\ Poll => Poll' \/ Apply'
             /\ Poll /\ ~NoneInFlight(b) => ~NoneInFlight(b)' \/ Apply'
             /\ Apply => Apply' \/ Configured(b)'
    BY QuietZtpForward DEF ZtpForward
  <2>6. (\E i \in Find(devices, IF b \in Aruba THEN "mac" ELSE "serial", b) :
           devices[i].profile # NULL) => IsAssigned(b)
    BY DEF IsAssigned
  <2> HIDE DEF Poll, Apply
  <2> QED BY <2>1, <2>2, <2>3, <2>4, <2>5, <2>6, Invariance, PTL
          DEF Spec, QuietZtp, AsksOn, Poll, Apply
<1> QED BY <1>1 DEF EventuallyConfigured
=============================================================================
