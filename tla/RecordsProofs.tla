---------------------------- MODULE RecordsProofs ----------------------------
(***************************************************************************)
(* The safety properties of Records, for every choice of pages, for every  *)
(* set of ids, and every number of forms and writes, from RecordsInv.      *)
(***************************************************************************)
EXTENDS Records, TLAPS

(* Tables: every reference is to a row that is there. *)
TablesInv ==
    /\ DOMAIN table = Kind
    /\ \A k \in Kind : table[k] \in List(k)
    /\ NoDangling

(* Lists: the server has every write that was acknowledged, and so has a   *)
(* list that it has read but that has not arrived, unless it is missed.    *)
ListsInv ==
    /\ DOMAIN cache = Kind /\ DOMAIN fetch = Kind
    /\ \A k \in Kind : cache[k] \in Opt(List(k)) /\ fetch[k] \in Fetch(k)
    /\ missed \subseteq Kind
    /\ acked \in [Kind -> Nat]
    /\ \A k \in Kind : acked[k] <= table[k].at
    /\ \A k \in Kind : fetch[k].state = "read" /\ k \notin missed => acked[k] <= fetch[k].list.at
    /\ ReadYourWrites

(* Forms: what is typed and sent has the references of its table, and what *)
(* was done is in the table.                                               *)
FormsInv ==
    /\ page \in Page
    /\ form \in Opt(Form) /\ forms \in 0 .. MaxForms
    /\ form # NULL => forms # 0 /\ form.row \in Row(form.kind)
    /\ sent \subseteq Write
    /\ \A q \in sent : q.row \in Row(q.kind)
    /\ \A q \in sent : q.at # NULL => q.at <= table[q.kind].at
    /\ created \in [1 .. MaxForms -> Nat]
    /\ lost \subseteq 1 .. MaxForms

(* Inserts: a form has one of them under way, which inserted a row if and  *)
(* only if it was done; while the form is open, a row that it inserted has *)
(* its insert still under way, and Save is disabled.                       *)
PostsInv ==
    /\ \A q \in sent : q.op = "post" => q.form \in 1 .. forms /\ q.id = NULL
    /\ \A p \in sent : \A q \in sent :
         p.op = "post" /\ q.op = "post" /\ p.form = q.form => p = q
    /\ \A q \in sent :
         q.op = "post" /\ q.form = forms /\ form # NULL => form.kind = q.kind /\ form.id = NULL
    /\ \A q \in sent : q.op = "post" /\ q.at = NULL /\ q.form \notin lost => created[q.form] = 0
    /\ form # NULL /\ form.id = NULL /\ forms \notin lost /\ created[forms] # 0
         => \E q \in sent : q.op = "post" /\ q.form = forms
    /\ \A n \in 1 .. MaxForms : n > forms => created[n] = 0
    /\ CreatedOnce

RecordsInv == TablesInv /\ ListsInv /\ FormsInv /\ PostsInv

-----------------------------------------------------------------------------
(* The tables that a table refers to are other tables. *)
LEMMA References == \A k \in Kind : Refs[k] \subseteq Kind \ {k}
  BY DEF Refs, Kind

LEMMA NoReferences == \A k \in Kind : NoRefs(k) \in Row(k)
  BY DEF NoRefs, Row, Opt

LEMMA RowUnion == \A k \in Kind : \A row \in Row(k) : row \in UNION {Row(m) : m \in Kind}
  OBVIOUS

LEMMA Fetches ==
    ASSUME NEW k \in Kind
    PROVE  /\ Idle \in Fetch(k) /\ Asked \in Fetch(k)
           /\ \A list \in List(k) : [state |-> "read", list |-> list] \in Fetch(k)
           /\ \A f \in Fetch(k) : f.state = "read" => f.list \in List(k)
           /\ \A f \in Fetch(k) : f.state \in {"idle", "asked", "read"}
           /\ Idle # Asked /\ Idle.state = "idle" /\ Asked.state = "asked"
  BY DEF Fetch, Idle, Asked

LEMMA RecordsInitInv == RecordsInit => RecordsInv
  <1> SUFFICES ASSUME RecordsInit PROVE RecordsInv
    OBVIOUS
  <1>1. /\ \A k \in Kind : Empty \in List(k)
        /\ Full \in List("settings")
        /\ Empty.at = 0 /\ Full.at = 0
    <2>1. [r \in Refs["settings"] |-> NULL] \in Row("settings")
      BY DEF Row, Opt
    <2> QED
      BY <2>1 DEF Empty, Full, List, Opt
  <1>2. TablesInv
    <2>1. \A k \in Kind : table[k] \in List(k)
      BY <1>1 DEF RecordsInit
    <2>2. NoDangling
      <3>1. ASSUME NEW k \in Kind, NEW i \in Live(k) PROVE k = "settings"
        BY <3>1 DEF RecordsInit, Live, Empty
      <3>2. Refs["settings"] = {}
        BY DEF Refs
      <3> QED
        BY <3>1, <3>2 DEF NoDangling
    <2> QED
      BY <2>1, <2>2 DEF TablesInv, RecordsInit
  <1>3. ListsInv
    <2>1. \A k \in Kind : fetch[k] \in {Idle, Asked} /\ cache[k] = NULL /\ acked[k] = 0
      BY DEF RecordsInit
    <2>2. \A k \in Kind : table[k].at = 0
      BY <1>1 DEF RecordsInit
    <2>3. \A k \in Kind : fetch[k].state # "read" /\ fetch[k] \in Fetch(k)
      BY <2>1, Fetches
    <2> QED
      BY <2>1, <2>2, <2>3 DEF ListsInv, ReadYourWrites, RecordsInit, Opt
  <1>4. FormsInv
    BY RecordsAssumption DEF FormsInv, RecordsInit, Opt
  <1>5. PostsInv
    BY RecordsAssumption DEF PostsInv, CreatedOnce, RecordsInit
  <1> QED
    BY <1>2, <1>3, <1>4, <1>5 DEF RecordsInv

-----------------------------------------------------------------------------
(* The tables *)

(* No table gets an older version. *)
Grown == \A k \in Kind : table[k].at <= table'[k].at

LEMMA PutKeeps ==
    ASSUME TablesInv, NEW k \in Kind, NEW i \in Id, NEW row \in Row(k), Refers(k, row),
           table' = Put(k, i, row)
    PROVE  TablesInv' /\ Grown
  <1> DEFINE new == [rows |-> [table[k].rows EXCEPT ![i] = row], at |-> table[k].at + 1]
  <1>1. table[k] \in List(k)
    BY DEF TablesInv
  <1>2. table[k].rows \in [Id -> Opt(Row(k))] /\ table[k].at \in Nat
    BY <1>1 DEF List
  <1>3. [table[k].rows EXCEPT ![i] = row] \in [Id -> Opt(Row(k))]
    BY <1>2 DEF Opt
  <1>4. new \in List(k) /\ table[k].at <= new.at
    BY <1>2, <1>3 DEF List
  <1>5. /\ DOMAIN table' = Kind /\ table'[k] = new
        /\ \A m \in Kind : m # k => table'[m] = table[m]
    BY DEF Put, TablesInv
  <1>6. new.rows[i] = row /\ row # NULL
        /\ \A j \in Id : j # i => new.rows[j] = table[k].rows[j]
    BY <1>2, RecordsAssumption
  <1> HIDE DEF new
  <1>7. /\ \A m \in Kind : m # k => Live(m)' = Live(m)
        /\ Live(k)' = Live(k) \cup {i}
    BY <1>5, <1>6 DEF Live
  <1>8. \A m \in Kind : Live(m) \subseteq Live(m)'
    BY <1>7
  <1>9. ASSUME NEW m \in Kind, NEW j \in Live(m)', NEW r \in Refs[m]
        PROVE  table'[m].rows[j][r] \in Opt(Live(r)')
    <2>1. r \in Kind
      BY References
    <2>2. CASE m = k /\ j = i
      <3>1. table'[m].rows[j] = row
        BY <1>5, <1>6, <2>2
      <3>2. row[r] \in Opt(Live(r))
        BY <2>2 DEF Refers, Opt
      <3> QED
        BY <1>8, <2>1, <3>1, <3>2 DEF Opt
    <2>3. CASE ~(m = k /\ j = i)
      <3>1. j \in Live(m) /\ table'[m].rows[j] = table[m].rows[j]
        BY <1>5, <1>6, <1>7, <2>3 DEF Live
      <3>2. table[m].rows[j][r] \in Opt(Live(r))
        BY <3>1 DEF TablesInv, NoDangling
      <3> QED
        BY <1>8, <2>1, <3>1, <3>2 DEF Opt
    <2> QED
      BY <2>2, <2>3
  <1>10. Grown
    BY <1>4, <1>5 DEF Grown, TablesInv, List
  <1>11. \A m \in Kind : table'[m] \in List(m)
    BY <1>4, <1>5 DEF TablesInv
  <1> QED
    BY <1>5, <1>9, <1>10, <1>11 DEF TablesInv, NoDangling

(* What a deletion does to a row of another table. *)
LEMMA UnlinkedRows ==
    ASSUME TablesInv, NEW m \in Kind, NEW k \in Refs[m], NEW i \in Id
    PROVE  /\ Unlinked(m, k, i) \in [Id -> Opt(Row(m))]
           /\ \A j \in Id :
                /\ (Unlinked(m, k, i)[j] # NULL) <=> (j \in Live(m))
                /\ j \in Live(m) =>
                     /\ Unlinked(m, k, i)[j][k] # i
                     /\ \A r \in Refs[m] : Unlinked(m, k, i)[j][r] \in {table[m].rows[j][r], NULL}
  <1>1. table[m].rows \in [Id -> Opt(Row(m))]
    BY DEF TablesInv, List
  <1>2. ASSUME NEW j \in Live(m), table[m].rows[j][k] = i
        PROVE  /\ Unlinked(m, k, i)[j] \in Row(m)
               /\ Unlinked(m, k, i)[j][k] = NULL
               /\ \A r \in Refs[m] : r # k => Unlinked(m, k, i)[j][r] = table[m].rows[j][r]
    <2>1. j \in Id /\ table[m].rows[j] \in Row(m)
      BY <1>1 DEF Live, Opt
    <2>2. Unlinked(m, k, i)[j] = [table[m].rows[j] EXCEPT ![k] = NULL]
      BY <1>2, <2>1 DEF Unlinked
    <2> QED
      BY <2>1, <2>2 DEF Row, Opt
  <1>3. ASSUME NEW j \in Id, ~(j \in Live(m) /\ table[m].rows[j][k] = i)
        PROVE  Unlinked(m, k, i)[j] = table[m].rows[j]
    BY <1>3 DEF Unlinked
  <1>4. ASSUME NEW j \in Id PROVE Unlinked(m, k, i)[j] \in Opt(Row(m))
    BY <1>1, <1>2, <1>3 DEF Opt
  <1>5. Unlinked(m, k, i) \in [Id -> Opt(Row(m))]
    BY <1>4 DEF Unlinked
  <1>6. ASSUME NEW j \in Id PROVE (Unlinked(m, k, i)[j] # NULL) <=> (j \in Live(m))
    BY <1>2, <1>3, RecordsAssumption DEF Live
  <1>7. ASSUME NEW j \in Live(m)
        PROVE  /\ Unlinked(m, k, i)[j][k] # i
               /\ \A r \in Refs[m] : Unlinked(m, k, i)[j][r] \in {table[m].rows[j][r], NULL}
    <2>1. j \in Id
      BY DEF Live
    <2> QED
      BY <1>2, <1>3, <2>1, RecordsAssumption
  <1> QED
    BY <1>5, <1>6, <1>7

LEMMA ErasedKeeps ==
    ASSUME TablesInv, NEW k \in Kind, NEW i \in Id, table' = Erased(k, i)
    PROVE  TablesInv' /\ Grown
  <1> DEFINE new == [rows |-> [table[k].rows EXCEPT ![i] = NULL], at |-> table[k].at + 1]
  <1>1. table[k].rows \in [Id -> Opt(Row(k))] /\ table[k].at \in Nat
    BY DEF TablesInv, List
  <1>2. [table[k].rows EXCEPT ![i] = NULL] \in [Id -> Opt(Row(k))]
    BY <1>1 DEF Opt
  <1>3. new \in List(k) /\ table[k].at <= new.at
    BY <1>1, <1>2 DEF List
  <1>4. DOMAIN table' = Kind /\ table'[k] = new
    <2>1. Put(k, i, NULL)[k] = new
      BY DEF Put, TablesInv
    <2>2. table'[k] = Put(k, i, NULL)[k]
      BY References DEF Erased
    <2> QED
      BY <2>1, <2>2 DEF Erased
  <1>5. new.rows[i] = NULL
        /\ \A j \in Id : j # i => new.rows[j] = table[k].rows[j]
    BY <1>1
  <1> HIDE DEF new
  <1>6. Live(k)' = Live(k) \ {i}
    BY <1>4, <1>5 DEF Live
  <1>7. ASSUME NEW m \in Kind, m # k, k \in Refs[m]
        PROVE  /\ table'[m] \in List(m) /\ table[m].at <= table'[m].at
               /\ Live(m)' = Live(m)
               /\ \A j \in Live(m) :
                    /\ table'[m].rows[j][k] # i
                    /\ \A r \in Refs[m] : table'[m].rows[j][r] \in {table[m].rows[j][r], NULL}
    <2>1. table[m] \in List(m) /\ table[m].at \in Nat
      BY DEF TablesInv, List
    <2>2. CASE Unlinked(m, k, i) = table[m].rows
      <3>1. table'[m] = table[m]
        BY <1>7, <2>2 DEF Erased
      <3> QED
        BY <1>7, <2>1, <2>2, <3>1, UnlinkedRows DEF Live
    <2>3. CASE Unlinked(m, k, i) # table[m].rows
      <3>1. table'[m] = [rows |-> Unlinked(m, k, i), at |-> table[m].at + 1]
        BY <1>7, <2>3 DEF Erased
      <3>2. table'[m].rows = Unlinked(m, k, i) /\ table'[m].at = table[m].at + 1
        BY <3>1
      <3>3. table'[m] \in List(m)
        BY <1>7, <2>1, <3>1, UnlinkedRows DEF List
      <3>4. Live(m)' = Live(m)
        BY <1>7, <3>2, UnlinkedRows DEF Live
      <3>5. Live(m) \subseteq Id
        BY DEF Live
      <3> QED
        BY <1>7, <2>1, <3>2, <3>3, <3>4, <3>5, UnlinkedRows
    <2> QED
      BY <2>2, <2>3
  <1>8. ASSUME NEW m \in Kind, m # k, k \notin Refs[m] PROVE table'[m] = table[m]
    BY <1>8 DEF Erased
  <1>9. ASSUME NEW m \in Kind
        PROVE  table'[m] \in List(m) /\ table[m].at <= table'[m].at
    BY <1>3, <1>4, <1>7, <1>8 DEF TablesInv, List
  <1>10. ASSUME NEW m \in Kind, NEW j \in Live(m)', NEW r \in Refs[m]
         PROVE  table'[m].rows[j][r] \in Opt(Live(r)')
    <2>1. r \in Kind /\ r # m
      BY References
    <2>2. j \in Live(m) /\ table[m].rows[j][r] \in Opt(Live(r))
      <3>1. j \in Live(m)
        BY <1>6, <1>7, <1>8 DEF Live
      <3> QED
        BY <3>1 DEF TablesInv, NoDangling
    <2>3. r # k => Live(r)' = Live(r)
      BY <1>7, <1>8, <2>1 DEF Live
    <2>4. CASE m = k
      <3>1. table'[m].rows[j] = table[m].rows[j]
        BY <1>4, <1>5, <1>6, <2>4 DEF Live
      <3> QED
        BY <2>1, <2>2, <2>3, <2>4, <3>1 DEF Opt
    <2>5. CASE m # k /\ k \in Refs[m]
      <3>1. table'[m].rows[j][r] \in {table[m].rows[j][r], NULL} /\ table'[m].rows[j][k] # i
        BY <1>7, <2>2, <2>5
      <3>2. CASE r = k
        BY <1>6, <2>2, <3>1, <3>2 DEF Opt
      <3>3. CASE r # k
        BY <2>2, <2>3, <3>1, <3>3 DEF Opt
      <3> QED
        BY <3>2, <3>3
    <2>6. CASE m # k /\ k \notin Refs[m]
      BY <1>8, <2>2, <2>3, <2>6 DEF Opt
    <2> QED
      BY <2>4, <2>5, <2>6
  <1> QED
    BY <1>4, <1>9, <1>10 DEF TablesInv, NoDangling, Grown

LEMMA SameTables == ASSUME TablesInv, UNCHANGED table PROVE TablesInv' /\ Grown
  <1>1. \A k \in Kind : table[k].at \in Nat
    BY DEF TablesInv, List
  <1> QED
    BY <1>1 DEF TablesInv, Grown, NoDangling, Live

(* A statement that writes a table. *)
LEMMA StatementKeeps ==
    ASSUME TablesInv, NEW k \in Kind, NEW row \in Row(k), NEW i,
           \/ (\E j \in Id : Insert(k, j, row))
           \/ Update(k, i, row)
           \/ Delete(k, i)
    PROVE  TablesInv' /\ Grown
  <1>1. CASE \E j \in Id : Insert(k, j, row)
    BY <1>1, PutKeeps DEF Insert
  <1>2. CASE Update(k, i, row)
    BY <1>2, PutKeeps, SameTables DEF Update, Live
  <1>3. CASE Delete(k, i)
    BY <1>3, ErasedKeeps, SameTables DEF Delete, Live
  <1> QED
    BY <1>1, <1>2, <1>3

-----------------------------------------------------------------------------
(* The lists *)

(* Whatever the tables do, the lists stay what they were. *)
LEMMA ListsStay ==
    ASSUME TablesInv, TablesInv', ListsInv, Grown, UNCHANGED lists
    PROVE  ListsInv'
  <1>1. \A k \in Kind : acked[k] \in Nat /\ table[k].at \in Nat /\ table'[k].at \in Nat
    BY DEF TablesInv, ListsInv, List
  <1>2. ASSUME NEW k \in Kind PROVE acked'[k] <= table'[k].at
    <2>1. acked[k] <= table[k].at /\ table[k].at <= table'[k].at /\ acked'[k] = acked[k]
      BY DEF ListsInv, Grown, lists
    <2> QED
      BY <1>1, <2>1
  <1> QED
    BY <1>2 DEF ListsInv, ReadYourWrites, lists

(* A step of the list of k, while the tables stay. *)
LEMMA ListStep ==
    ASSUME ListsInv, UNCHANGED <<table, acked>>, NEW k \in Kind,
           NEW f \in Fetch(k), fetch' = [fetch EXCEPT ![k] = f],
           NEW l \in Opt(List(k)), DOMAIN cache' = Kind, cache'[k] = l,
           \A m \in Kind : m # k => cache'[m] = cache[m],
           missed' \subseteq Kind, missed' \ {k} = missed \ {k},
           f.state = "read" /\ k \notin missed' => acked[k] <= f.list.at,
           f = Idle /\ l # NULL /\ k \notin missed' => acked[k] <= l.at
    PROVE  ListsInv'
  <1>1. /\ DOMAIN cache' = Kind /\ cache'[k] = l
        /\ DOMAIN fetch' = Kind /\ fetch'[k] = f
        /\ \A m \in Kind : m # k => cache'[m] = cache[m] /\ fetch'[m] = fetch[m]
        /\ \A m \in Kind : m # k => (m \in missed' <=> m \in missed)
    BY DEF ListsInv
  <1>2. ASSUME NEW m \in Kind
        PROVE  /\ cache'[m] \in Opt(List(m)) /\ fetch'[m] \in Fetch(m)
               /\ fetch'[m].state = "read" /\ m \notin missed' => acked[m] <= fetch'[m].list.at
               /\ fetch'[m] = Idle /\ cache'[m] # NULL /\ m \notin missed' => cache'[m].at >= acked[m]
    <2>1. CASE m = k
      <3>1. l # NULL => l.at \in Nat
        BY DEF List, Opt
      <3>2. acked[k] \in Nat
        BY DEF ListsInv
      <3> QED
        BY <1>1, <2>1, <3>1, <3>2
    <2>2. CASE m # k
      BY <1>1, <2>2 DEF ListsInv, ReadYourWrites
    <2> QED
      BY <2>1, <2>2
  <1> QED
    BY <1>1, <1>2 DEF ListsInv, ReadYourWrites

(* The same when the list that is shown stays. *)
LEMMA FetchStep ==
    ASSUME ListsInv, UNCHANGED <<table, cache, acked>>, NEW k \in Kind,
           NEW f \in Fetch(k), fetch' = [fetch EXCEPT ![k] = f],
           missed' \subseteq Kind, missed' \ {k} = missed \ {k},
           f.state = "read" /\ k \notin missed' => acked[k] <= f.list.at,
           f = Idle => k \in missed'
    PROVE  ListsInv'
  <1>1. cache[k] \in Opt(List(k)) /\ DOMAIN cache' = Kind
    BY DEF ListsInv
  <1> QED
    BY <1>1, ListStep

LEMMA FetchInv ==
    ASSUME TablesInv, ListsInv, FormsInv, NEW k \in Kind,
           Ask(k) \/ Read(k) \/ Arrive(k) \/ Retry(k) \/ FetchFails(k)
    PROVE  ListsInv'
  <1>1. fetch[k] \in Fetch(k) /\ missed \subseteq Kind /\ table[k] \in List(k)
    BY DEF ListsInv, TablesInv
  <1>2. CASE Ask(k) \/ Retry(k)
    BY <1>1, <1>2, Fetches, FetchStep DEF Ask, Retry
  <1>3. CASE Read(k)
    <2> DEFINE f == [state |-> "read", list |-> table[k]]
    <2>1. f \in Fetch(k) /\ f.list = table[k] /\ f # Idle
      BY <1>1, Fetches
    <2>2. acked[k] <= table[k].at
      BY DEF ListsInv
    <2>3. fetch' = [fetch EXCEPT ![k] = f] /\ UNCHANGED <<table, cache, acked, missed>>
      BY <1>3 DEF Read
    <2> HIDE DEF f
    <2> QED
      BY <1>1, <2>1, <2>2, <2>3, FetchStep
  <1>4. CASE Arrive(k)
    <2>1. fetch[k].list \in List(k) /\ fetch[k].list \in Opt(List(k))
      BY <1>1, <1>4, Fetches DEF Arrive, Opt
    <2>2. k \notin missed => acked[k] <= fetch[k].list.at
      BY <1>4 DEF Arrive, ListsInv
    <2>3. Idle \in Fetch(k) /\ Idle.state # "read"
      BY Fetches
    <2>4. /\ fetch' = [fetch EXCEPT ![k] = Idle]
          /\ DOMAIN cache' = Kind /\ cache'[k] = fetch[k].list
          /\ \A m \in Kind : m # k => cache'[m] = cache[m]
          /\ UNCHANGED <<table, acked, missed>>
      BY <1>4 DEF Arrive, ListsInv
    <2> QED
      BY <1>1, <2>1, <2>2, <2>3, <2>4, ListStep
  <1>5. CASE FetchFails(k)
    BY <1>1, <1>5, Fetches, FetchStep DEF FetchFails
  <1> QED
    BY <1>2, <1>3, <1>4, <1>5

(* A save is acknowledged, with the version that it made. *)
LEMMA InvalidateInv ==
    ASSUME ListsInv, NEW k \in Kind, NEW at \in Nat, at <= table[k].at,
           UNCHANGED <<table, cache>>,
           acked' = [acked EXCEPT ![k] = IF at > @ THEN at ELSE @],
           Invalidate(k)
    PROVE  ListsInv'
  <1>1. /\ acked' \in [Kind -> Nat] /\ acked'[k] <= table[k].at
        /\ \A m \in Kind : m # k => acked'[m] = acked[m]
    BY DEF ListsInv
  <1>2. /\ DOMAIN fetch' = Kind
        /\ \A m \in Kind : fetch'[m] \in Fetch(m)
        /\ \A m \in Kind : m # k => fetch'[m] = fetch[m]
    BY Fetches DEF Invalidate, ListsInv
  <1>3. /\ missed' \subseteq Kind
        /\ \A m \in Kind : m # k => (m \in missed' <=> m \in missed)
    BY DEF Invalidate, ListsInv
  <1>4. /\ fetch'[k].state = "read" => k \in missed'
        /\ ~(fetch'[k] = Idle /\ cache[k] # NULL)
    <2>1. CASE Invalidates(k)
      <3>1. fetch'[k] = Asked
        BY <2>1 DEF Invalidate, ListsInv
      <3> QED
        BY <3>1, Fetches
    <2>2. CASE ~Invalidates(k)
      BY <2>2 DEF Invalidate, Invalidates
    <2> QED
      BY <2>1, <2>2
  <1>5. ASSUME NEW m \in Kind
        PROVE  /\ acked'[m] <= table'[m].at
               /\ fetch'[m].state = "read" /\ m \notin missed' => acked'[m] <= fetch'[m].list.at
               /\ fetch'[m] = Idle /\ cache'[m] # NULL /\ m \notin missed' => cache'[m].at >= acked'[m]
    <2>1. CASE m = k
      BY <1>1, <1>4, <2>1
    <2>2. CASE m # k
      BY <1>1, <1>2, <1>3, <2>2 DEF ListsInv, ReadYourWrites
    <2> QED
      BY <2>1, <2>2
  <1> QED
    BY <1>1, <1>2, <1>3, <1>5 DEF ListsInv, ReadYourWrites

-----------------------------------------------------------------------------
(* The forms *)

LEMMA Writing ==
    ASSUME FormsInv, NEW q \in sent
    PROVE  /\ q \in Write /\ q.kind \in Kind /\ q.row \in Row(q.kind)
           /\ q.at # NULL => q.at \in Nat
           /\ q.form \in 0 .. MaxForms
  BY DEF FormsInv, Write, Opt

(* Whatever the tables do, what was done before is in them. *)
LEMMA FormsStay ==
    ASSUME TablesInv, TablesInv', FormsInv, PostsInv, Grown,
           UNCHANGED <<page, form, forms, sent, created, lost>>
    PROVE  FormsInv' /\ PostsInv'
  <1>1. ASSUME NEW q \in sent, q.at # NULL PROVE q.at <= table'[q.kind].at
    <2>1. q.at <= table[q.kind].at /\ table[q.kind].at <= table'[q.kind].at
      BY <1>1, Writing DEF FormsInv, Grown
    <2>2. q.at \in Nat /\ table[q.kind].at \in Nat /\ table'[q.kind].at \in Nat
      BY <1>1, Writing DEF TablesInv, List
    <2> QED
      BY <2>1, <2>2
  <1>2. FormsInv'
    BY <1>1 DEF FormsInv
  <1> QED
    BY <1>2 DEF PostsInv, CreatedOnce

LEMMA PageTables == ASSUME FormsInv PROVE page.tables \subseteq Kind
  BY RecordsAssumption DEF FormsInv

LEMMA OpenInv ==
    ASSUME FormsInv, PostsInv, NEW k, NEW id \in Opt(Id), NEW row \in Row(k), Open(k, id, row)
    PROVE  FormsInv' /\ PostsInv'
  <1> DEFINE f == [kind |-> k, id |-> id, row |-> row]
  <1>1. k \in Kind
    BY PageTables DEF Open
  <1>2. f \in Form /\ f # NULL => f.row \in Row(f.kind)
    BY <1>1, RowUnion DEF Form
  <1>3. f \in Form
    BY <1>1, RowUnion DEF Form
  <1>4. forms + 1 \in 0 .. MaxForms /\ forms + 1 # 0 /\ forms \in 0 .. MaxForms
    <2>1. /\ page.forms \in 0 .. MaxForms /\ MaxForms \in Nat
          /\ forms \in 0 .. MaxForms /\ forms < page.forms
      BY RecordsAssumption DEF FormsInv, Open
    <2> QED
      BY <2>1
  <1>5. forms' = forms + 1 /\ form' = f /\ UNCHANGED <<page, table, sent, created, lost>>
    BY DEF Open
  <1> HIDE DEF f
  <1>6. FormsInv'
    <2>1. form' \in Opt(Form) /\ forms' \in 0 .. MaxForms /\ forms' # 0 /\ form'.row \in Row(form'.kind)
      BY <1>2, <1>3, <1>4, <1>5 DEF Opt, f
    <2> QED
      BY <1>5, <2>1 DEF FormsInv
  <1>7. \A q \in sent : q.op = "post" => q.form \in 1 .. forms' /\ q.form # forms' /\ q.id = NULL
    BY <1>4, <1>5 DEF PostsInv
  <1>8. \A n \in 1 .. MaxForms : n > forms' => created[n] = 0
    BY <1>4, <1>5 DEF PostsInv
  <1>9. created[forms'] = 0
    BY <1>4, <1>5 DEF PostsInv
  <1>10. PostsInv'
    BY <1>5, <1>7, <1>8, <1>9 DEF PostsInv, CreatedOnce
  <1> QED
    BY <1>6, <1>10

LEMMA OpenFormInv ==
    ASSUME ListsInv, FormsInv, PostsInv, NEW k \in Kind,
           OpenNew(k) \/ \E i \in Id : OpenRow(k, i)
    PROVE  FormsInv' /\ PostsInv'
  <1>1. CASE OpenNew(k)
    BY <1>1, NoReferences, OpenInv DEF OpenNew, Opt
  <1>2. ASSUME NEW i \in Id, OpenRow(k, i) PROVE FormsInv' /\ PostsInv'
    <2>1. cache[k].rows[i] \in Row(k)
      BY <1>2 DEF OpenRow, ListsInv, List, Opt
    <2>2. i \in Opt(Id)
      BY DEF Opt
    <2> QED
      BY <1>2, <2>1, <2>2, OpenInv DEF OpenRow
  <1> QED
    BY <1>1, <1>2

LEMMA CloseInv == ASSUME FormsInv, PostsInv, CloseForm PROVE FormsInv' /\ PostsInv'
  BY DEF CloseForm, FormsInv, PostsInv, CreatedOnce, Opt

LEMMA ChooseInv ==
    ASSUME FormsInv, PostsInv, NEW r \in Kind, NEW j \in Opt(Id), Choose(r, j)
    PROVE  FormsInv' /\ PostsInv'
  <1>1. form \in Form /\ form.kind \in Kind /\ form.row \in Row(form.kind) /\ form # NULL
    BY DEF Choose, FormsInv, Form, Opt
  <1> DEFINE row == [form.row EXCEPT ![r] = j]
             f == [form EXCEPT !.row = row]
  <1>2. row \in Row(form.kind)
    BY <1>1 DEF Row
  <1> HIDE DEF row
  <1>3. f \in Form /\ f.kind = form.kind /\ f.id = form.id /\ f.row = row
    BY <1>1, <1>2, RowUnion DEF Form
  <1>4. form' = f /\ UNCHANGED <<page, table, forms, sent, created, lost>>
    BY DEF Choose, row
  <1> HIDE DEF f
  <1>5. FormsInv'
    BY <1>1, <1>2, <1>3, <1>4 DEF FormsInv, Opt
  <1>6. PostsInv'
    BY <1>1, <1>3, <1>4 DEF PostsInv, CreatedOnce
  <1> QED
    BY <1>5, <1>6

-----------------------------------------------------------------------------
(* The writes under way *)

(* A write w is sent. *)
LEMMA SentInv ==
    ASSUME FormsInv, PostsInv, NEW w \in Write, w.row \in Row(w.kind), w.at = NULL,
           w.op = "post" =>
              /\ form # NULL /\ form.id = NULL /\ w.kind = form.kind /\ w.id = NULL
              /\ w.form = forms /\ ~Pending,
           sent' = sent \cup {w},
           UNCHANGED <<page, table, form, forms, created, lost>>
    PROVE  FormsInv' /\ PostsInv'
  <1>1. FormsInv'
    BY DEF FormsInv
  <1>2. w.op = "post" => w.form \in 1 .. forms
    BY RecordsAssumption DEF FormsInv
  <1>3. w.op = "post" => \A q \in sent : ~(q.op = "post" /\ q.form = w.form)
    BY DEF Pending
  <1>4. w.op = "post" /\ w.form \notin lost => created[w.form] = 0
    BY <1>3 DEF PostsInv
  <1>5. PostsInv'
    BY <1>2, <1>3, <1>4 DEF PostsInv, CreatedOnce
  <1> QED
    BY <1>1, <1>5

LEMMA SendInv ==
    ASSUME FormsInv, PostsInv, NEW op \in {"post", "put", "delete"}, Send(op),
           op = "post" => form.id = NULL /\ ~Pending
    PROVE  FormsInv' /\ PostsInv'
  <1> DEFINE w == [op |-> op, kind |-> form.kind, id |-> form.id, row |-> form.row,
                   form |-> forms, at |-> NULL]
  <1>1. form # NULL /\ form \in Form /\ form.row \in Row(form.kind) /\ form.kind \in Kind
        /\ form.id \in Opt(Id)
    BY DEF Send, FormsInv, Form, Opt
  <1>2. w \in Write
    <2>1. forms \in 0 .. MaxForms /\ NULL \in Opt(Nat)
      BY DEF FormsInv, Opt
    <2> QED
      BY <1>1, <2>1, RowUnion DEF Write
  <1>3. sent' = sent \cup {w} /\ UNCHANGED <<page, table, form, forms, created, lost>>
    BY DEF Send
  <1> QED
    BY <1>1, <1>2, <1>3, SentInv

LEMMA AskInv ==
    ASSUME FormsInv, PostsInv,
           Save \/ AskDelete \/ AskSync \/ \E k \in Kind, i \in Id : AskRow(k, i)
    PROVE  FormsInv' /\ PostsInv'
  <1>1. CASE Save
    BY <1>1, SendInv DEF Save
  <1>2. CASE AskDelete
    BY <1>2, SendInv DEF AskDelete
  <1>3. ASSUME NEW op \in {"put", "sync"}, NEW k \in Kind, NEW i \in Opt(Id),
               sent' = sent \cup {[op |-> op, kind |-> k, id |-> i, row |-> NoRefs(k),
                                    form |-> 0, at |-> NULL]},
               UNCHANGED <<page, table, form, forms, created, lost>>
        PROVE  FormsInv' /\ PostsInv'
    <2> DEFINE w == [op |-> op, kind |-> k, id |-> i, row |-> NoRefs(k), form |-> 0, at |-> NULL]
    <2>1. w \in Write
      <3>1. 0 \in 0 .. MaxForms /\ NULL \in Opt(Nat)
        BY RecordsAssumption DEF Opt
      <3> QED
        BY <3>1, NoReferences, RowUnion DEF Write
    <2>2. w.op # "post" /\ w.row \in Row(w.kind) /\ w.at = NULL
      BY NoReferences
    <2> QED
      BY <1>3, <2>1, <2>2, SentInv
  <1>4. CASE AskSync
    <2>1. "templates" \in Kind /\ NULL \in Opt(Id)
      BY DEF Kind, Opt
    <2> QED
      BY <1>3, <1>4, <2>1 DEF AskSync
  <1>5. ASSUME NEW k \in Kind, NEW i \in Id, AskRow(k, i) PROVE FormsInv' /\ PostsInv'
    <2>1. i \in Opt(Id)
      BY DEF Opt
    <2> QED
      BY <1>3, <1>5, <2>1 DEF AskRow
  <1> QED
    BY <1>1, <1>2, <1>4, <1>5

(* A write q is over: refused, acknowledged or its answer lost. *)
LEMMA OverInv ==
    ASSUME FormsInv, PostsInv, NEW q \in sent, sent' = sent \ {q},
           form' \in {form, NULL}, lost \subseteq lost', lost' \subseteq 1 .. MaxForms,
           UNCHANGED <<page, table, forms, created>>,
           q.op = "post" /\ q.at # NULL /\ q.form = forms => form' = NULL \/ q.form \in lost'
    PROVE  FormsInv' /\ PostsInv'
  <1>1. FormsInv'
    BY DEF FormsInv, Opt
  <1>2. form' # NULL /\ form'.id = NULL /\ forms \notin lost' /\ created[forms] # 0
           => \E p \in sent' : p.op = "post" /\ p.form = forms
    <2> SUFFICES ASSUME form' # NULL, form.id = NULL, form' = form, forms \notin lost', created[forms] # 0
                 PROVE  \E p \in sent' : p.op = "post" /\ p.form = forms
      OBVIOUS
    <2>1. PICK p \in sent : p.op = "post" /\ p.form = forms
      BY DEF PostsInv
    <2>2. p # q
      BY <2>1 DEF PostsInv
    <2> QED
      BY <2>1, <2>2
  <1>3. PostsInv'
    BY <1>2 DEF PostsInv, CreatedOnce
  <1> QED
    BY <1>1, <1>3

LEMMA AcknowledgeInv ==
    ASSUME ListsInv, FormsInv, PostsInv, NEW q \in sent, Acknowledge(q)
    PROVE  ListsInv' /\ FormsInv' /\ PostsInv'
  <1>1. ListsInv'
    <2>1. q.at \in Nat /\ q.at <= table[q.kind].at /\ q.kind \in Kind
      BY Writing DEF Acknowledge, FormsInv
    <2> QED
      BY <2>1, InvalidateInv DEF Acknowledge
  <1>2. q.op = "post" /\ q.form = forms => form' = NULL
    BY DEF Acknowledge, SameForm, PostsInv
  <1> QED
    BY <1>1, <1>2, OverInv DEF Acknowledge, FormsInv

LEMMA LoseInv ==
    ASSUME FormsInv, PostsInv, NEW q \in sent, Lose(q) \/ Refuse(q)
    PROVE  FormsInv' /\ PostsInv'
  <1>1. CASE Lose(q)
    <2>1. lost \subseteq lost' /\ lost' \subseteq 1 .. MaxForms
      <3>1. q.form \in 0 .. MaxForms /\ lost \subseteq 1 .. MaxForms /\ MaxForms \in Nat
        BY Writing, RecordsAssumption DEF FormsInv
      <3>2. q.form # 0 => q.form \in 1 .. MaxForms
        BY <3>1
      <3> QED
        BY <1>1, <3>1, <3>2 DEF Lose
    <2>2. q.op = "post" => q.form \in lost'
      BY <1>1, RecordsAssumption DEF Lose, FormsInv, PostsInv
    <2> QED
      BY <1>1, <2>1, <2>2, OverInv DEF Lose
  <1>2. CASE Refuse(q)
    BY <1>2, OverInv DEF Refuse, FormsInv
  <1> QED
    BY <1>1, <1>2

(* The server does what it was asked for, and the write q becomes p. *)
LEMMA ExecuteInv ==
    ASSUME TablesInv, ListsInv, FormsInv, PostsInv, NEW q \in sent, Execute(q)
    PROVE  RecordsInv'
  <1> DEFINE p == [q EXCEPT !.at = table'[q.kind].at]
  <1>1. q \in Write /\ q.kind \in Kind /\ q.row \in Row(q.kind) /\ q.form \in 0 .. MaxForms
    BY Writing
  <1>2. TablesInv' /\ Grown
    <2>1. CASE q.op # "sync"
      <3>1. \/ \E j \in Id : Insert(q.kind, j, q.row)
            \/ Update(q.kind, q.id, q.row)
            \/ Delete(q.kind, q.id)
        BY <2>1 DEF Execute
      <3> QED
        BY <1>1, <3>1, StatementKeeps
    <2>2. CASE q.op = "sync"
      <3>1. PICK i \in Id : table' = Put("templates", i, NoRefs("templates"))
        BY <2>2 DEF Execute
      <3>2. /\ "templates" \in Kind /\ NoRefs("templates") \in Row("templates")
            /\ Refers("templates", NoRefs("templates"))
        BY NoReferences DEF Kind, Refers, Refs
      <3> QED
        BY <3>1, <3>2, PutKeeps
    <2> QED
      BY <2>1, <2>2
  <1>3. ListsInv'
    BY <1>2, ListsStay DEF Execute
  <1>4. table'[q.kind].at \in Nat /\ table'[q.kind].at # NULL
    BY <1>1, <1>2, RecordsAssumption DEF TablesInv, List
  <1>5. /\ p \in Write /\ p.op = q.op /\ p.kind = q.kind /\ p.id = q.id /\ p.row = q.row
        /\ p.form = q.form /\ p.at = table'[q.kind].at
    BY <1>1, <1>4 DEF Write, Opt
  <1>6. /\ sent' = (sent \ {q}) \cup {p}
        /\ UNCHANGED <<page, form, forms, lost>>
    BY DEF Execute
  <1> HIDE DEF p
  <1>7. /\ q.op = "post" => created' = [created EXCEPT ![q.form] = @ + 1]
        /\ q.op # "post" => UNCHANGED created
    BY DEF Execute
  <1>8. q.op = "post" => q.form \in 1 .. MaxForms /\ q.form <= forms /\ q.at = NULL
    BY RecordsAssumption DEF Execute, PostsInv, FormsInv
  <1>9. created' \in [1 .. MaxForms -> Nat]
    BY <1>7, <1>8 DEF FormsInv
  <1>10. ASSUME NEW w \in sent', w.at # NULL PROVE w.at <= table'[w.kind].at
    <2>1. CASE w = p
      BY <1>4, <1>5, <2>1
    <2>2. CASE w # p
      <3>1. w \in sent /\ w.kind \in Kind /\ w.at \in Nat
        BY <1>6, <1>10, <2>2, Writing
      <3>2. w.at <= table[w.kind].at /\ table[w.kind].at <= table'[w.kind].at
        BY <1>2, <1>10, <3>1 DEF FormsInv, Grown
      <3>3. table[w.kind].at \in Nat /\ table'[w.kind].at \in Nat
        BY <1>2, <3>1 DEF TablesInv, List
      <3> QED
        BY <3>1, <3>2, <3>3
    <2> QED
      BY <2>1, <2>2
  <1>11. FormsInv'
    <2>1. sent' \subseteq Write /\ \A w \in sent' : w.row \in Row(w.kind)
      BY <1>1, <1>5, <1>6 DEF FormsInv
    <2> QED
      BY <1>6, <1>9, <1>10, <2>1 DEF FormsInv
  <1>12. PostsInv'
    <2>1. CASE q.op # "post"
      <3>1. UNCHANGED created
        BY <1>7, <2>1
      <3> QED
        BY <1>4, <1>5, <1>6, <2>1, <3>1 DEF PostsInv, CreatedOnce
    <2>2. CASE q.op = "post"
      <3>1. /\ created'[q.form] = created[q.form] + 1
            /\ \A n \in 1 .. MaxForms : n # q.form => created'[n] = created[n]
        BY <1>7, <1>8, <2>2 DEF FormsInv
      <3>2. q.form \notin lost => created'[q.form] = 1
        BY <1>8, <2>2, <3>1 DEF PostsInv
      <3>3. \A w \in sent' : w.op = "post" => w.form \in 1 .. forms /\ w.id = NULL
        BY <1>5, <1>6 DEF PostsInv
      <3>4. \A w \in sent' : \A v \in sent' :
              w.op = "post" /\ v.op = "post" /\ w.form = v.form => w = v
        BY <1>5, <1>6 DEF PostsInv
      <3>5. \A w \in sent' :
              w.op = "post" /\ w.form = forms /\ form # NULL => form.kind = w.kind /\ form.id = NULL
        BY <1>5, <1>6 DEF PostsInv
      <3>6. ASSUME NEW w \in sent', w.op = "post", w.at = NULL, w.form \notin lost
            PROVE  created'[w.form] = 0
        <4>1. w \in sent /\ w # q
          BY <1>4, <1>5, <1>6, <3>6
        <4>2. w.form # q.form /\ created[w.form] = 0 /\ w.form \in 1 .. MaxForms
          BY <2>2, <3>6, <4>1, RecordsAssumption DEF PostsInv, FormsInv
        <4> QED
          BY <3>1, <4>2
      <3>7. ASSUME form # NULL, form.id = NULL, forms \notin lost, created'[forms] # 0
            PROVE  \E w \in sent' : w.op = "post" /\ w.form = forms
        <4>1. CASE q.form = forms
          BY <1>5, <1>6, <2>2, <4>1
        <4>2. CASE q.form # forms
          <5>1. forms \in 1 .. MaxForms
            BY <3>7, RecordsAssumption DEF FormsInv
          <5>2. created[forms] # 0
            BY <3>1, <3>7, <4>2, <5>1
          <5>3. PICK w \in sent : w.op = "post" /\ w.form = forms
            BY <3>7, <5>2 DEF PostsInv
          <5> QED
            BY <1>6, <4>2, <5>3
        <4> QED
          BY <4>1, <4>2
      <3>8. \A n \in 1 .. MaxForms : n > forms => created'[n] = 0
        BY <1>8, <2>2, <3>1 DEF PostsInv, FormsInv
      <3>9. \A n \in 1 .. MaxForms : n \notin lost => created'[n] <= 1
        BY <3>1, <3>2 DEF PostsInv, CreatedOnce
      <3> QED
        BY <1>6, <3>3, <3>4, <3>5, <3>6, <3>7, <3>8, <3>9 DEF PostsInv, CreatedOnce
    <2> QED
      BY <2>1, <2>2
  <1> QED
    BY <1>2, <1>3, <1>11, <1>12 DEF RecordsInv

-----------------------------------------------------------------------------
LEMMA OthersWriteInv ==
    ASSUME RecordsInv, NEW k \in Kind, OthersWrite(k) PROVE RecordsInv'
  <1>1. TablesInv' /\ Grown
    <2>1. PICK i \in Id : \/ \E row \in Row(k) : Insert(k, i, row) \/ Update(k, i, row)
                          \/ Delete(k, i)
      BY DEF OthersWrite
    <2>2. CASE \E row \in Row(k) : Insert(k, i, row) \/ Update(k, i, row)
      BY <2>2, StatementKeeps DEF RecordsInv
    <2>3. CASE Delete(k, i)
      BY <2>3, NoReferences, StatementKeeps DEF RecordsInv
    <2> QED
      BY <2>1, <2>2, <2>3
  <1>2. ListsInv'
    BY <1>1, ListsStay DEF OthersWrite, RecordsInv
  <1> QED
    BY <1>1, <1>2, FormsStay DEF OthersWrite, RecordsInv

LEMMA RecordsNextInv == RecordsInv /\ [RecordsNext]_recordsVars => RecordsInv'
  <1> SUFFICES ASSUME RecordsInv, [RecordsNext]_recordsVars PROVE RecordsInv'
    OBVIOUS
  <1>1. ASSUME NEW k \in Kind, OthersWrite(k) PROVE RecordsInv'
    BY <1>1, OthersWriteInv
  <1>2. ASSUME NEW k \in Kind, Ask(k) \/ Read(k) \/ Arrive(k) \/ Retry(k) \/ FetchFails(k)
        PROVE  RecordsInv'
    <2>1. UNCHANGED <<page, table, form, forms, sent, created, lost>>
      BY <1>2 DEF Ask, Read, Arrive, Retry, FetchFails
    <2> QED
      BY <1>2, <2>1, FetchInv, SameTables, FormsStay DEF RecordsInv
  <1>3. ASSUME UNCHANGED <<table, lists>>, FormsInv' /\ PostsInv' PROVE RecordsInv'
    BY <1>3, SameTables, ListsStay DEF RecordsInv
  <1>4. ASSUME NEW k \in Kind, OpenNew(k) \/ \E i \in Id : OpenRow(k, i) PROVE RecordsInv'
    <2>1. UNCHANGED <<table, lists>>
      BY <1>4 DEF OpenNew, OpenRow, Open
    <2> QED
      BY <1>3, <1>4, <2>1, OpenFormInv DEF RecordsInv
  <1>5. ASSUME NEW k \in Kind, NEW j \in Opt(Id), Choose(k, j) PROVE RecordsInv'
    <2>1. UNCHANGED <<table, lists>>
      BY <1>5 DEF Choose
    <2> QED
      BY <1>3, <1>5, <2>1, ChooseInv DEF RecordsInv
  <1>6. CASE CloseForm
    <2>1. UNCHANGED <<table, lists>>
      BY <1>6 DEF CloseForm
    <2> QED
      BY <1>3, <1>6, <2>1, CloseInv DEF RecordsInv
  <1>7. CASE Save \/ AskDelete \/ AskSync \/ \E k \in Kind, i \in Id : AskRow(k, i)
    <2>1. UNCHANGED <<table, lists>>
      BY <1>7 DEF Save, AskDelete, AskSync, AskRow, Send
    <2> QED
      BY <1>3, <1>7, <2>1, AskInv DEF RecordsInv
  <1>8. ASSUME NEW q \in sent, Execute(q) PROVE RecordsInv'
    BY <1>8, ExecuteInv DEF RecordsInv
  <1>9. ASSUME NEW q \in sent, Lose(q) \/ Refuse(q) PROVE RecordsInv'
    <2>1. UNCHANGED <<table, lists>>
      BY <1>9 DEF Lose, Refuse
    <2> QED
      BY <1>3, <1>9, <2>1, LoseInv DEF RecordsInv
  <1>10. ASSUME NEW q \in sent, Acknowledge(q) PROVE RecordsInv'
    <2>1. UNCHANGED table
      BY <1>10 DEF Acknowledge
    <2> QED
      BY <1>10, <2>1, SameTables, AcknowledgeInv DEF RecordsInv
  <1>11. CASE UNCHANGED recordsVars
    <2>1. UNCHANGED <<table, lists, page, form, forms, sent, created, lost>>
      BY <1>11 DEF recordsVars, lists
    <2> QED
      BY <2>1, SameTables, ListsStay, FormsStay DEF RecordsInv
  <1> QED
    BY <1>1, <1>2, <1>4, <1>5, <1>6, <1>7, <1>8, <1>9, <1>10, <1>11 DEF RecordsNext

LEMMA RecordsInvariance == RecordsSpec => []RecordsInv
  BY RecordsInitInv, RecordsNextInv, PTL DEF RecordsSpec

-----------------------------------------------------------------------------
(* Every variable of the tables, the lists and the forms keeps its type. *)
THEOREM RecordsTypeCorrect == RecordsSpec => []RecordsTypeOK
  <1>1. RecordsInv => RecordsTypeOK
    BY DEF RecordsInv, TablesInv, ListsInv, FormsInv, RecordsTypeOK
  <1> QED
    BY <1>1, RecordsInvariance, PTL

(* Whatever other operators write while a list is fetched, a list at rest  *)
(* has every write that the page was told of, unless it is missed.         *)
THEOREM WritesAreRead == RecordsSpec => []ReadYourWrites
  <1>1. RecordsInv => ReadYourWrites
    BY DEF RecordsInv, ListsInv
  <1> QED
    BY <1>1, RecordsInvariance, PTL

(* However old the copies are that forms send back, the references of the  *)
(* tables stay whole.                                                      *)
THEOREM ReferencesAreWhole == RecordsSpec => []NoDangling
  <1>1. RecordsInv => NoDangling
    BY DEF RecordsInv, TablesInv
  <1> QED
    BY <1>1, RecordsInvariance, PTL

(* No form inserts two rows, unless it was told of a failure that was none.*)
THEOREM FormsInsertOnce == RecordsSpec => []CreatedOnce
  <1>1. RecordsInv => CreatedOnce
    BY DEF RecordsInv, PostsInv
  <1> QED
    BY <1>1, RecordsInvariance, PTL
=============================================================================
