---------------------------- MODULE EditorProofs ----------------------------
(***************************************************************************)
(* What a form shows is what is stored, and what it saves is what it shows:*)
(* for any variables, ids, texts and lists.                                *)
(***************************************************************************)
EXTENDS Editor, SequenceFacts, FiniteSetTheorems

-----------------------------------------------------------------------------
(* Sequences: of the elements of a set, and what is left of a list. *)

LEMMA Listed ==
    ASSUME NEW S, IsFiniteSet(S)
    PROVE  /\ SetToSeq(S) \in Seq(S)
           /\ ToSet(SetToSeq(S)) = S
           /\ \A i, j \in DOMAIN SetToSeq(S) : SetToSeq(S)[i] = SetToSeq(S)[j] => i = j
<1> DEFINE n == Cardinality(S)
           f == SetToSeq(S)
<1>1. n \in Nat /\ IsFiniteSet(1 .. n) /\ Cardinality(1 .. n) = n
  BY FS_CardinalityType, FS_Interval
<1>2. PICK g \in Bijection(1 .. n, S) : TRUE
  BY FS_CardinalityType DEF ExistsBijection
<1>3. g \in [1 .. n -> S] /\ IsInjective(g)
  BY <1>2 DEF Bijection, Injection, IsInjective
<1>4. f \in [1 .. n -> S] /\ IsInjective(f)
  BY <1>3 DEF SetToSeq
<1> HIDE DEF f
<1>5. f \in Injection(1 .. n, S)
  BY <1>4 DEF Injection, IsInjective
<1>6. f \in Surjection(1 .. n, S)
  BY <1>1, <1>5, FS_Injection
<1>7. f \in Seq(S) /\ DOMAIN f = 1 .. n
  BY <1>1, <1>4
<1>8. ToSet(f) = S
  BY <1>4, <1>6 DEF Surjection, ToSet
<1>9. \A i, j \in DOMAIN f : f[i] = f[j] => i = j
  BY <1>4 DEF IsInjective
<1> QED BY <1>7, <1>8, <1>9 DEF f

LEMMA Appended ==
    ASSUME NEW B, NEW s \in Seq(B), NEW x \in B
    PROVE  ToSet(Append(s, x)) = ToSet(s) \cup {x}
<1> DEFINE r == Append(s, x)
<1>1. /\ DOMAIN r = 1 .. Len(s) + 1 /\ DOMAIN s = 1 .. Len(s)
      /\ \A i \in 1 .. Len(s) : r[i] = s[i]
      /\ r[Len(s) + 1] = x
  OBVIOUS
<1> HIDE DEF r
<1>2. 1 .. Len(s) + 1 = 1 .. Len(s) \cup {Len(s) + 1}
  OBVIOUS
<1> QED BY <1>1, <1>2 DEF ToSet, r

(* The fold of Only, and its steps. *)
KeepStep(set, B) ==
    [x \in Seq(B) \X B |-> IF x[2] \in set THEN Append(x[1], x[2]) ELSE x[1]]

LEMMA OnlySteps ==
    ASSUME NEW set, NEW B, NEW s \in Seq(B)
    PROVE  Ends(Only(s, set), Seq(B), KeepStep(set, B), <<>>, s)
<1> DEFINE G == KeepStep(set, B)
           Op(x, p) == IF p \in set THEN Append(x, p) ELSE x
           Fold(e) == [t \in SUBSET (DOMAIN s) |->
                         IF t = {} THEN <<>> ELSE Op(e[t \ {Max(t)}], s[Max(t)])]
           e == CHOOSE iter : iter = Fold(iter)
<1>1. G \in [Seq(B) \X B -> Seq(B)] /\ <<>> \in Seq(B)
  BY DEF KeepStep
<1>2. \A x \in Seq(B), p \in B : G[<<x, p>>] = Op(x, p)
  BY DEF KeepStep
<1> HIDE DEF G
<1>3. PICK f : Folds(f, Seq(B), B, G, <<>>, s)
  BY <1>1, FoldsExists
<1>4. \A t \in SUBSET (DOMAIN s) : t # {} => f[t] = Op(f[t \ {Max(t)}], s[Max(t)])
  BY <1>2, <1>3 DEF Folds
<1>5. f = Fold(f)
  BY <1>3, <1>4 DEF Folds
<1>6. e = Fold(e)
  BY <1>5
<1>7. Only(s, set) = e[DOMAIN s]
  BY DEF Only, FoldLeft, MapThenFoldSet
<1>8. e[{}] = <<>>
  BY <1>6
<1>9. \A t \in SUBSET (DOMAIN s) : t # {} => e[t] = Op(e[t \ {Max(t)}], s[Max(t)])
  BY <1>6
<1> HIDE DEF e
<1>10. Meets(e, Seq(B), G, <<>>, s)
  BY <1>2, <1>8, <1>9, Places DEF Meets
<1>11. Ends(e[DOMAIN s], Seq(B), G, <<>>, s)
  BY <1>1, <1>10, FoldEnds
<1> QED BY <1>7, <1>11 DEF G

LEMMA OnlyKeeps ==
    ASSUME NEW B, NEW set, NEW s \in Seq(B)
    PROVE  /\ Only(s, set) \in Seq(B)
           /\ ToSet(Only(s, set)) = ToSet(s) \cap set
           /\ ToSet(s) \subseteq set => Only(s, set) = s
<1> DEFINE A == Seq(B)
           G == KeepStep(set, B)
           n == Len(s)
<1>1. PICK h : Steps(h, A, G, <<>>, s) /\ Only(s, set) = h[n]
  BY OnlySteps DEF Ends
<1>2. h[0] = <<>> /\ h[n] \in A /\ \A k \in 1 .. n : h[k - 1] \in A
  BY <1>1 DEF Steps
<1>3. ASSUME NEW k \in 1 .. n
      PROVE  h[k] = IF s[k] \in set THEN Append(h[k - 1], s[k]) ELSE h[k - 1]
  <2>1. h[k - 1] \in A /\ s[k] \in B /\ h[k] = G[<<h[k - 1], s[k]>>]
    BY <1>1, <1>2 DEF Steps
  <2> QED BY <2>1 DEF KeepStep
<1> DEFINE Up(k) == {s[i] : i \in 1 .. k}
           T == {k \in 0 .. n : /\ ToSet(h[k]) = Up(k) \cap set
                                /\ Up(k) \subseteq set => h[k] = SubSeq(s, 1, k)}
<1>4. 0 \in T
  BY <1>2 DEF ToSet
<1>5. ASSUME NEW k \in 1 .. n, k - 1 \in T PROVE k \in T
  <2>1. Up(k) = Up(k - 1) \cup {s[k]}
    <3>1. 1 .. k = 1 .. (k - 1) \cup {k}
      OBVIOUS
    <3> QED BY <3>1
  <2>2. h[k - 1] \in Seq(B) /\ s[k] \in B
    BY <1>2
  <2>3. ToSet(Append(h[k - 1], s[k])) = ToSet(h[k - 1]) \cup {s[k]}
    BY <2>2, Appended
  <2>4. ToSet(h[k - 1]) = Up(k - 1) \cap set /\ (Up(k - 1) \subseteq set => h[k - 1] = SubSeq(s, 1, k - 1))
    BY <1>5
  <2>5. Append(SubSeq(s, 1, k - 1), s[k]) = SubSeq(s, 1, k)
    OBVIOUS
  <2> HIDE DEF Up
  <2>6. ToSet(h[k]) = Up(k) \cap set
    <3>1. CASE s[k] \in set
      BY <1>3, <2>1, <2>3, <2>4, <3>1
    <3>2. CASE s[k] \notin set
      BY <1>3, <2>1, <2>4, <3>2
    <3> QED BY <3>1, <3>2
  <2>7. Up(k) \subseteq set => h[k] = SubSeq(s, 1, k)
    BY <1>3, <2>1, <2>4, <2>5
  <2> QED BY <2>6, <2>7
<1> HIDE DEF T
<1>6. n \in T
  <2>1. n \in Nat
    OBVIOUS
  <2> HIDE DEF n
  <2>2. 0 .. n \subseteq T
    BY <1>4, <1>5, <2>1, InductionUpTo
  <2> QED BY <2>1, <2>2
<1>7. Up(n) = ToSet(s) /\ SubSeq(s, 1, n) = s
  BY DEF ToSet
<1> QED BY <1>1, <1>2, <1>6, <1>7 DEF T

-----------------------------------------------------------------------------
(* Variables *)

LEMMA LastOfIs ==
    ASSUME NEW B, NEW vars \in Seq(B), NEW k, k \in Named(vars)
    PROVE  /\ LastOf(vars, k) \in DOMAIN vars
           /\ vars[LastOf(vars, k)][1] = k
           /\ \A i \in DOMAIN vars : vars[i][1] = k => i <= LastOf(vars, k)
<1> DEFINE T == {i \in 1 .. Len(vars) : vars[i][1] = k}
<1>1. Len(vars) \in Nat /\ DOMAIN vars = 1 .. Len(vars) /\ T \in SUBSET (1 .. Len(vars))
  OBVIOUS
<1>2. T # {}
  BY <1>1 DEF Named
<1>3. LastOf(vars, k) = Max(T)
  BY <1>2 DEF LastOf, SelectLastInSeq
<1>4. Max(T) \in T /\ \A i \in T : i <= Max(T)
  BY <1>1, <1>2, MaxUpTo
<1> QED BY <1>1, <1>3, <1>4

LEMMA NamedIs ==
    ASSUME NEW vars \in Seq(Pair)
    PROVE  Named(vars) \subseteq Name /\ IsFiniteSet(Named(vars))
<1> DEFINE n == Len(vars)
           S == {vars[i][1] : i \in 1 .. n}
           f == [i \in 1 .. n |-> vars[i][1]]
<1>1. n \in Nat /\ DOMAIN vars = 1 .. n /\ \A i \in 1 .. n : vars[i] \in Pair
  OBVIOUS
<1>2. \A i \in 1 .. n : vars[i][1] \in Name \cup {Blank}
  BY <1>1 DEF Pair
<1>3. f \in Surjection(1 .. n, S)
  BY DEF Surjection
<1>4. IsFiniteSet(S)
  <2>1. IsFiniteSet(1 .. n)
    BY <1>1, FS_Interval
  <2> HIDE DEF n, S, f
  <2> QED BY <1>3, <2>1, FS_Surjection
<1>5. Named(vars) = S \ {Blank}
  BY <1>1 DEF Named
<1>6. IsFiniteSet(Named(vars))
  <2>1. Named(vars) \in SUBSET S
    BY <1>5
  <2> QED BY <1>4, <2>1, FS_Subset
<1> QED BY <1>2, <1>5, <1>6

LEMMA FromEntriesIs ==
    ASSUME NEW vars \in Seq(Pair)
    PROVE  FromEntries(vars) \in [Named(vars) -> Value]
<1>1. ASSUME NEW k \in Named(vars) PROVE vars[LastOf(vars, k)][2] \in Value
  <2>1. LastOf(vars, k) \in DOMAIN vars
    BY <1>1, LastOfIs
  <2>2. vars[LastOf(vars, k)] \in Pair
    BY <2>1
  <2> QED BY <2>2 DEF Pair
<1> QED BY <1>1 DEF FromEntries

(* An object is what is made of its entries, but for a blank key. *)
LEMMA PairsAre ==
    ASSUME NEW f, IsFiniteSet(DOMAIN f)
    PROVE  /\ Named(Pairs(f)) = DOMAIN f \ {Blank}
           /\ \A k \in DOMAIN f \ {Blank} : FromEntries(Pairs(f))[k] = f[k]
           /\ Pairs(f) \in Seq({<<k, f[k]>> : k \in DOMAIN f})
<1> DEFINE K == SetToSeq(DOMAIN f)
           P == Pairs(f)
<1>1. K \in Seq(DOMAIN f) /\ ToSet(K) = DOMAIN f
  BY Listed
<1>2. P = [i \in DOMAIN K |-> <<K[i], f[K[i]]>>]
  BY DEF Pairs
<1>3. \A i \in DOMAIN K : K[i] \in DOMAIN f
  BY <1>1
<1>4. P \in Seq({<<k, f[k]>> : k \in DOMAIN f}) /\ DOMAIN P = DOMAIN K
  BY <1>1, <1>2, <1>3
<1>5. \A i \in DOMAIN P : P[i][1] = K[i] /\ P[i][2] = f[P[i][1]]
  BY <1>2
<1> HIDE DEF K, P
<1>6. Named(P) = DOMAIN f \ {Blank}
  BY <1>1, <1>4, <1>5 DEF Named, ToSet
<1>7. ASSUME NEW k \in DOMAIN f \ {Blank} PROVE FromEntries(P)[k] = f[k]
  <2>1. k \in Named(P)
    BY <1>6
  <2>2. LastOf(P, k) \in DOMAIN P /\ P[LastOf(P, k)][1] = k
    BY <1>4, <2>1, LastOfIs
  <2>3. FromEntries(P)[k] = P[LastOf(P, k)][2]
    BY <2>1 DEF FromEntries
  <2> QED BY <1>5, <2>2, <2>3
<1> QED BY <1>4, <1>6, <1>7 DEF P

LEMMA PairsType ==
    ASSUME NEW K \in SUBSET Name, IsFiniteSet(K), NEW f \in [K -> Value]
    PROVE  Pairs(f) \in Seq(Pair)
<1>1. DOMAIN f = K /\ \A k \in K : <<k, f[k]>> \in Pair
  BY DEF Pair
<1>2. Pairs(f) \in Seq({<<k, f[k]>> : k \in DOMAIN f})
  BY <1>1, PairsAre
<1> QED BY <1>1, <1>2

(* What a form has of a variable does not change when others are added     *)
(* behind the ones that are there.                                         *)
LEMMA AddedBehind ==
    ASSUME NEW B, NEW vars \in Seq(B), NEW new \in Seq(B), NEW k \in Named(vars),
           \A i \in DOMAIN new : new[i][1] # k
    PROVE  k \in Named(vars \o new) /\ FromEntries(vars \o new)[k] = FromEntries(vars)[k]
<1> DEFINE all == vars \o new
           m == Len(vars)
<1>1. /\ m \in Nat /\ Len(new) \in Nat /\ all \in Seq(B)
      /\ DOMAIN vars = 1 .. m /\ DOMAIN new = 1 .. Len(new) /\ DOMAIN all = 1 .. m + Len(new)
      /\ \A i \in 1 .. m : all[i] = vars[i]
      /\ \A i \in m + 1 .. m + Len(new) : all[i] = new[i - m]
  OBVIOUS
<1> HIDE DEF all
<1>2. k \in Named(all)
  BY <1>1 DEF Named
<1> DEFINE i == LastOf(all, k)
           j == LastOf(vars, k)
<1>3. i \in DOMAIN all /\ all[i][1] = k /\ \A x \in DOMAIN all : all[x][1] = k => x <= i
  BY <1>1, <1>2, LastOfIs
<1>4. j \in DOMAIN vars /\ vars[j][1] = k /\ \A x \in DOMAIN vars : vars[x][1] = k => x <= j
  BY LastOfIs
<1>5. FromEntries(all)[k] = all[i][2] /\ FromEntries(vars)[k] = vars[j][2]
  BY <1>2 DEF FromEntries
<1> HIDE DEF i, j, m
<1>6. i \in 1 .. m
  <2>1. ~(i \in m + 1 .. m + Len(new))
    <3> SUFFICES ASSUME i \in m + 1 .. m + Len(new) PROVE FALSE
      OBVIOUS
    <3>1. i - m \in DOMAIN new /\ all[i] = new[i - m]
      BY <1>1
    <3> QED BY <1>3, <3>1
  <2> QED BY <1>1, <1>3, <2>1
<1>7. i = j
  <2>1. i <= j
    BY <1>1, <1>3, <1>4, <1>6
  <2>2. j <= i
    BY <1>1, <1>3, <1>4
  <2> QED BY <1>1, <1>4, <1>6, <2>1, <2>2
<1> QED BY <1>1, <1>2, <1>4, <1>5, <1>6, <1>7 DEF all

LEMMA StringsAre ==
    ASSUME NEW v, IsStored(v)
    PROVE  /\ DOMAIN Strings(v) \in SUBSET Name /\ IsFiniteSet(DOMAIN Strings(v))
           /\ Strings(v) \in [DOMAIN Strings(v) -> Value]
<1> DEFINE S == DOMAIN v.scalars
           T == {l \in Lists : v.lists[l] # <<>>}
<1>1. S \subseteq Name /\ IsFiniteSet(S) /\ v.scalars \in [S -> Value]
  BY DEF IsStored
<1>2. DOMAIN Strings(v) = S \cup T
  BY DEF Strings
<1>3. T \subseteq Lists
  OBVIOUS
<1>4. IsFiniteSet(S \cup T)
  <2>1. IsFiniteSet(Lists)
    <3>1. IsFiniteSet({"vlans"}) /\ IsFiniteSet({"ports"})
      BY FS_Singleton
    <3>2. Lists = {"vlans"} \cup {"ports"}
      BY DEF Lists
    <3> QED BY <3>1, <3>2, FS_Union
  <2>2. IsFiniteSet(T)
    BY <2>1, FS_Subset
  <2> QED BY <1>1, <2>2, FS_Union
<1>5. \A k \in S \cup T : Strings(v)[k] = IF k \in S THEN v.scalars[k] ELSE ObjectObject
  BY DEF Strings
<1>6. ObjectObject \in Value
  BY DEF Value
<1>7. Strings(v) = [k \in S \cup T |-> Strings(v)[k]]
  BY DEF Strings
<1> HIDE DEF S, T
<1> QED BY <1>1, <1>2, <1>3, <1>4, <1>5, <1>6, <1>7 DEF Name

-----------------------------------------------------------------------------
(* Rows *)

RowOf(e) == [id |-> e.id, text |-> e.text]

LEMMA FirstIs ==
    ASSUME NEW B, NEW rows \in Seq(B), NEW id, Has(rows, id)
    PROVE  /\ FirstWith(rows, id) \in ToSet(rows) /\ FirstWith(rows, id) \in B
           /\ FirstWith(rows, id).id = id
<1> DEFINE T == {i \in 1 .. Len(rows) : rows[i].id = id}
<1>1. Len(rows) \in Nat /\ DOMAIN rows = 1 .. Len(rows) /\ T \in SUBSET (1 .. Len(rows))
  OBVIOUS
<1>2. T # {}
  BY <1>1 DEF Has
<1>3. FirstWith(rows, id) = rows[Min(T)]
  BY <1>2 DEF FirstWith, SelectInSeq
<1>4. Min(T) \in T
  BY <1>1, <1>2, MinUpTo
<1>5. Min(T) \in DOMAIN rows /\ rows[Min(T)].id = id
  BY <1>1, <1>4
<1>6. rows[Min(T)] \in B
  BY <1>5
<1> HIDE DEF T
<1>7. rows[Min(T)] \in ToSet(rows)
  BY <1>5 DEF ToSet
<1> QED BY <1>3, <1>5, <1>6, <1>7

LEMMA HasIs ==
    ASSUME NEW rows, NEW id
    PROVE  Has(rows, id) <=> \E r \in ToSet(rows) : r.id = id
BY DEF Has, ToSet

LEMMA DistinctIs ==
    ASSUME NEW rows, Distinct(rows), NEW r \in ToSet(rows), NEW q \in ToSet(rows), r.id = q.id
    PROVE  r = q
BY DEF Distinct, ToSet

LEMMA EntryOfRow ==
    ASSUME NEW r \in Row, NEW a \in BOOLEAN, NEW b \in BOOLEAN
    PROVE  /\ AsEntry(r, a, b) \in Entry /\ RowOf(AsEntry(r, a, b)) = r
           /\ AsEntry(r, a, b).id = r.id /\ AsEntry(r, a, b).text = r.text
           /\ AsEntry(r, a, b).fromProfile = a /\ AsEntry(r, a, b).overridden = b
BY DEF Row, Entry, AsEntry, RowOf

(* A row of the modal is one of the profile, or that of the device with    *)
(* its id, or another one of the device.                                   *)
Laid(r, ofDevice) ==
    AsEntry(IF Has(ofDevice, r.id) THEN FirstWith(ofDevice, r.id) ELSE r, TRUE, Has(ofDevice, r.id))

LEMMA EntriesEqual ==
    ASSUME NEW e \in Entry, NEW g \in Entry, RowOf(e) = RowOf(g),
           e.fromProfile <=> g.fromProfile, e.overridden <=> g.overridden
    PROVE  e = g
<1>1. e.id = g.id /\ e.text = g.text
  <2>1. RowOf(e).id = e.id /\ RowOf(g).id = g.id /\ RowOf(e).text = e.text /\ RowOf(g).text = g.text
    BY DEF RowOf
  <2> QED BY <2>1
<1>2. e.fromProfile = g.fromProfile /\ e.overridden = g.overridden
  BY DEF Entry
<1> QED BY <1>1, <1>2 DEF Entry

LEMMA LaidEntry ==
    ASSUME NEW r \in Row, NEW d \in Seq(Row)
    PROVE  Laid(r, d) \in Entry
<1>1. (IF Has(d, r.id) THEN FirstWith(d, r.id) ELSE r) \in Row /\ Has(d, r.id) \in BOOLEAN
  <2>1. Has(d, r.id) => FirstWith(d, r.id) \in Row
    BY FirstIs
  <2> QED BY <2>1 DEF Has
<1> QED BY <1>1, EntryOfRow DEF Laid

IsLayered(e, ofProfile, ofDevice) ==
    \/ \E r \in ToSet(ofProfile) : e = Laid(r, ofDevice)
    \/ \E r \in ToSet(ofDevice) : ~Has(ofProfile, r.id) /\ e = AsEntry(r, FALSE, FALSE)

LEMMA LayeredIs ==
    ASSUME NEW p \in Seq(Row), NEW d \in Seq(Row)
    PROVE  /\ Layered(p, d) \in Seq(Entry)
           /\ \A e : e \in ToSet(Layered(p, d)) <=> IsLayered(e, p, d)
<1> DEFINE extra == Others(d, p)
           first == [i \in DOMAIN p |-> Laid(p[i], d)]
           last == [i \in DOMAIN extra |-> AsEntry(extra[i], FALSE, FALSE)]
<1>1. extra \in Seq(Row) /\ ToSet(extra) = {r \in ToSet(d) : ~Has(p, r.id)}
  <2>1. Only(d, {r \in ToSet(d) : ~Has(p, r.id)}) \in Seq(Row)
    BY OnlyKeeps
  <2>2. ToSet(Only(d, {r \in ToSet(d) : ~Has(p, r.id)})) = ToSet(d) \cap {r \in ToSet(d) : ~Has(p, r.id)}
    BY OnlyKeeps
  <2> QED BY <2>1, <2>2 DEF Others
<1>2. Layered(p, d) = first \o last
  BY DEF Layered, Laid
<1>3. \A i \in DOMAIN p : Laid(p[i], d) \in Entry
  BY LaidEntry
<1>4. first \in Seq(Entry) /\ ToSet(first) = {Laid(r, d) : r \in ToSet(p)}
  <2>1. DOMAIN p = 1 .. Len(p) /\ Len(p) \in Nat
    OBVIOUS
  <2> QED BY <1>3, <2>1 DEF ToSet
<1> HIDE DEF extra
<1>5. last \in Seq(Entry) /\ ToSet(last) = {AsEntry(r, FALSE, FALSE) : r \in ToSet(extra)}
  <2>1. DOMAIN extra = 1 .. Len(extra) /\ Len(extra) \in Nat
    BY <1>1
  <2>2. \A r \in Row : AsEntry(r, FALSE, FALSE) \in Entry
    BY DEF AsEntry, Entry, Row
  <2>3. \A i \in DOMAIN extra : AsEntry(extra[i], FALSE, FALSE) \in Entry
    <3>1. \A i \in DOMAIN extra : extra[i] \in Row
      BY <1>1
    <3> QED BY <2>2, <3>1
  <2> HIDE DEF last
  <2>4. last \in [1 .. Len(extra) -> Entry]
    BY <2>1, <2>3 DEF last
  <2>5. last \in Seq(Entry)
    <3> HIDE DEF extra
    <3> QED BY <2>1, <2>4
  <2>6. DOMAIN last = DOMAIN extra /\ \A i \in DOMAIN extra : last[i] = AsEntry(extra[i], FALSE, FALSE)
    BY DEF last
  <2> QED BY <2>5, <2>6 DEF ToSet
<1> HIDE DEF first, last
<1>6. first \o last \in Seq(Entry) /\ ToSet(first \o last) = ToSet(first) \cup ToSet(last)
  <2>1. \A s : ToSet(s) = Range(s)
    BY DEF ToSet, Range
  <2>2. Range(first \o last) = Range(first) \cup Range(last)
    BY <1>4, <1>5, Joined
  <2>3. first \o last \in Seq(Entry)
    BY <1>4, <1>5
  <2> QED BY <2>1, <2>2, <2>3
<1>7. ASSUME NEW e PROVE e \in ToSet(first \o last) <=> IsLayered(e, p, d)
  <2>1. e \in ToSet(first) <=> \E r \in ToSet(p) : e = Laid(r, d)
    BY <1>4
  <2>2. e \in ToSet(last) <=> \E r \in ToSet(d) : ~Has(p, r.id) /\ e = AsEntry(r, FALSE, FALSE)
    BY <1>1, <1>5
  <2> QED BY <1>6, <2>1, <2>2 DEF IsLayered
<1> QED BY <1>2, <1>6, <1>7

LEMMA AsRowsAre ==
    ASSUME NEW rows \in Seq(Entry)
    PROVE  /\ AsRows(rows) \in Seq(Row)
           /\ ToSet(AsRows(rows)) = {RowOf(e) : e \in ToSet(rows)}
<1>1. DOMAIN rows = 1 .. Len(rows) /\ Len(rows) \in Nat /\ \A i \in DOMAIN rows : rows[i] \in Entry
  OBVIOUS
<1>2. \A e \in Entry : RowOf(e) \in Row
  BY DEF Entry, Row, RowOf
<1>3. AsRows(rows) = [i \in 1 .. Len(rows) |-> RowOf(rows[i])]
  BY <1>1 DEF AsRows, RowOf
<1>4. AsRows(rows) \in [1 .. Len(rows) -> Row]
  BY <1>1, <1>2, <1>3
<1>5. AsRows(rows) \in Seq(Row)
  BY <1>1, <1>4
<1> QED BY <1>1, <1>3, <1>5 DEF ToSet

LEMMA KeptIs ==
    ASSUME NEW rows \in Seq(Entry)
    PROVE  /\ Kept(rows) \in Seq(Entry)
           /\ ToSet(Kept(rows)) = {e \in ToSet(rows) : OfDevice(e)}
<1>1. Only(rows, {e \in ToSet(rows) : OfDevice(e)}) \in Seq(Entry)
  BY OnlyKeeps
<1>2. ToSet(Only(rows, {e \in ToSet(rows) : OfDevice(e)})) = ToSet(rows) \cap {e \in ToSet(rows) : OfDevice(e)}
  BY OnlyKeeps
<1> QED BY <1>1, <1>2 DEF Kept

LEMMA PackedIs ==
    ASSUME NEW vars \in Seq(Pair), NEW lists \in [Lists -> Seq(Row)]
    PROVE  IsStored(Packed(vars, lists))
<1> DEFINE scalars == FromEntries(vars)
           K == {j \in DOMAIN scalars : j \notin Lists \/ lists[j] = <<>>}
           v == Packed(vars, lists)
<1>1. DOMAIN scalars = Named(vars) /\ \A k \in DOMAIN scalars : scalars[k] \in Value
  BY FromEntriesIs
<1>2. v.scalars = [k \in K |-> scalars[k]] /\ v.lists = lists /\ v = [scalars |-> v.scalars, lists |-> v.lists]
  BY DEF Packed
<1>3. K \subseteq Name /\ IsFiniteSet(K)
  <2>1. K \in SUBSET Named(vars)
    BY <1>1
  <2> QED BY <2>1, NamedIs, FS_Subset
<1>4. v.scalars \in [K -> Value] /\ DOMAIN v.scalars = K
  BY <1>1, <1>2
<1>5. \A l \in Lists \cap K : lists[l] = <<>>
  OBVIOUS
<1> HIDE DEF v, K
<1> QED BY <1>2, <1>3, <1>4, <1>5 DEF v, IsStored

-----------------------------------------------------------------------------
(* What is shown, kept, and shown again *)

LEMMA EmptyIs ==
    ASSUME NEW B, NEW s \in Seq(B)
    PROVE  ToSet(s) = {} <=> s = <<>>
<1>1. Len(s) \in Nat /\ DOMAIN s = 1 .. Len(s)
  OBVIOUS
<1>2. CASE Len(s) = 0
  <2>1. s = <<>> /\ DOMAIN s = {}
    BY <1>1, <1>2
  <2> QED BY <2>1 DEF ToSet
<1>3. CASE Len(s) # 0
  <2>1. 1 \in DOMAIN s /\ s # <<>>
    BY <1>1, <1>3
  <2>2. s[1] \in ToSet(s)
    BY <2>1 DEF ToSet
  <2> QED BY <2>1, <2>2
<1> QED BY <1>2, <1>3

Laying(r, ofDevice) == IF Has(ofDevice, r.id) THEN FirstWith(ofDevice, r.id) ELSE r

LEMMA LaidIs ==
    ASSUME NEW r \in Row, NEW d \in Seq(Row)
    PROVE  /\ Laying(r, d) \in Row /\ Laying(r, d).id = r.id
           /\ Has(d, r.id) => Laying(r, d) \in ToSet(d)
           /\ RowOf(Laid(r, d)) = Laying(r, d)
           /\ Laid(r, d).fromProfile = TRUE
           /\ Laid(r, d).overridden <=> Has(d, r.id)
           /\ OfDevice(Laid(r, d)) <=> Has(d, r.id)
<1>1. Has(d, r.id) \in BOOLEAN
  BY DEF Has
<1>2. Has(d, r.id) => /\ FirstWith(d, r.id) \in Row /\ FirstWith(d, r.id).id = r.id
                      /\ FirstWith(d, r.id) \in ToSet(d)
  BY FirstIs
<1>3. Laying(r, d) \in Row
  BY <1>2 DEF Laying
<1>4. Laid(r, d) = AsEntry(Laying(r, d), TRUE, Has(d, r.id))
  BY DEF Laid, Laying
<1>5. /\ RowOf(Laid(r, d)) = Laying(r, d) /\ Laid(r, d).fromProfile = TRUE
      /\ Laid(r, d).overridden <=> Has(d, r.id)
  <2>1. CASE Has(d, r.id)
    <3>1. Has(d, r.id) = TRUE
      BY <1>1, <2>1
    <3>2. Laid(r, d) = AsEntry(Laying(r, d), TRUE, TRUE)
      BY <1>4, <3>1
    <3>3. /\ RowOf(Laid(r, d)) = Laying(r, d) /\ Laid(r, d).fromProfile = TRUE
          /\ Laid(r, d).overridden = TRUE
      BY <1>3, <3>2 DEF AsEntry, RowOf, Row
    <3> QED BY <2>1, <3>3
  <2>2. CASE ~Has(d, r.id)
    <3>1. Has(d, r.id) = FALSE
      BY <1>1, <2>2
    <3>2. Laid(r, d) = AsEntry(Laying(r, d), TRUE, FALSE)
      BY <1>4, <3>1
    <3> QED BY <1>3, <3>1, <3>2, EntryOfRow
  <2> QED BY <2>1, <2>2
<1>6. OfDevice(Laid(r, d)) <=> Has(d, r.id)
  BY <1>5 DEF OfDevice
<1>7. Laying(r, d).id = r.id /\ (Has(d, r.id) => Laying(r, d) \in ToSet(d))
  BY <1>2 DEF Laying
<1> QED BY <1>3, <1>5, <1>6, <1>7

LEMMA ShownIs ==
    ASSUME NEW p \in Seq(Row), NEW d \in Seq(Row), NEW x
    PROVE  x \in ToSet(AsRows(Layered(p, d))) <=>
             \/ \E r \in ToSet(p) : x = Laying(r, d)
             \/ x \in ToSet(d) /\ ~Has(p, x.id)
<1>1. ToSet(p) \subseteq Row /\ ToSet(d) \subseteq Row
  BY DEF ToSet
<1>2. x \in ToSet(AsRows(Layered(p, d))) <=> \E e : IsLayered(e, p, d) /\ x = RowOf(e)
  <2>1. Layered(p, d) \in Seq(Entry) /\ \A e : e \in ToSet(Layered(p, d)) <=> IsLayered(e, p, d)
    BY LayeredIs
  <2>2. ToSet(AsRows(Layered(p, d))) = {RowOf(e) : e \in ToSet(Layered(p, d))}
    BY <2>1, AsRowsAre
  <2> QED BY <2>1, <2>2
<1>3. \A r \in ToSet(p) : RowOf(Laid(r, d)) = Laying(r, d)
  BY <1>1, LaidIs
<1>4. \A r \in ToSet(d) : RowOf(AsEntry(r, FALSE, FALSE)) = r
  BY <1>1, EntryOfRow
<1> QED BY <1>2, <1>3, <1>4 DEF IsLayered

LEMMA KeptRowsAre ==
    ASSUME NEW p \in Seq(Row), NEW d \in Seq(Row), Distinct(d)
    PROVE  ToSet(AsRows(Kept(Layered(p, d)))) = ToSet(d)
<1> DEFINE kept == ToSet(AsRows(Kept(Layered(p, d))))
<1>1. ToSet(p) \subseteq Row /\ ToSet(d) \subseteq Row
  BY DEF ToSet
<1>2. kept = {RowOf(e) : e \in {e \in ToSet(Layered(p, d)) : OfDevice(e)}}
  <2>1. Layered(p, d) \in Seq(Entry)
    BY LayeredIs
  <2>2. Kept(Layered(p, d)) \in Seq(Entry) /\ ToSet(Kept(Layered(p, d))) = {e \in ToSet(Layered(p, d)) : OfDevice(e)}
    BY <2>1, KeptIs
  <2> QED BY <2>2, AsRowsAre
<1>3. \A x : x \in kept <=> \E e : IsLayered(e, p, d) /\ OfDevice(e) /\ x = RowOf(e)
  BY <1>2, LayeredIs
<1> HIDE DEF kept
<1>4. ASSUME NEW x \in kept PROVE x \in ToSet(d)
  <2>1. PICK e : IsLayered(e, p, d) /\ OfDevice(e) /\ x = RowOf(e)
    BY <1>3, <1>4
  <2>2. CASE \E r \in ToSet(p) : e = Laid(r, d)
    <3>1. PICK r \in ToSet(p) : e = Laid(r, d)
      BY <2>2
    <3> QED BY <1>1, <2>1, <3>1, LaidIs
  <2>3. CASE \E r \in ToSet(d) : e = AsEntry(r, FALSE, FALSE)
    <3>1. PICK r \in ToSet(d) : e = AsEntry(r, FALSE, FALSE)
      BY <2>3
    <3>2. RowOf(e) = r
      BY <1>1, <3>1, EntryOfRow
    <3> QED BY <2>1, <3>2
  <2> QED BY <2>1, <2>2, <2>3 DEF IsLayered
<1>5. ASSUME NEW x \in ToSet(d) PROVE x \in kept
  <2>1. CASE Has(p, x.id)
    <3>1. PICK r \in ToSet(p) : r.id = x.id
      BY <2>1, HasIs
    <3>2. Has(d, r.id)
      BY <3>1, HasIs
    <3>3. Laying(r, d) \in ToSet(d) /\ Laying(r, d).id = x.id /\ OfDevice(Laid(r, d)) /\ RowOf(Laid(r, d)) = Laying(r, d)
      BY <1>1, <3>1, <3>2, LaidIs
    <3>4. Laying(r, d) = x
      BY <3>3, DistinctIs
    <3>5. IsLayered(Laid(r, d), p, d)
      BY <3>1 DEF IsLayered
    <3> QED BY <1>3, <3>3, <3>4, <3>5
  <2>2. CASE ~Has(p, x.id)
    <3>1. IsLayered(AsEntry(x, FALSE, FALSE), p, d)
      BY <2>2 DEF IsLayered
    <3>2. RowOf(AsEntry(x, FALSE, FALSE)) = x /\ OfDevice(AsEntry(x, FALSE, FALSE))
      BY <1>1, EntryOfRow DEF OfDevice
    <3> QED BY <1>3, <3>1, <3>2
  <2> QED BY <2>1, <2>2
<1> QED BY <1>4, <1>5 DEF kept

(* A form of a profile shows the rows that are stored, and no others. *)
LEMMA ProfileRowsAre ==
    ASSUME NEW d \in Seq(Row)
    PROVE  AsRows(Layered(<<>>, d)) = d
<1>1. \A id : ~Has(<<>>, id)
  BY DEF Has
<1>2. Others(d, <<>>) = d
  <2>1. {r \in ToSet(d) : ~Has(<<>>, r.id)} = ToSet(d)
    BY <1>1
  <2>2. Only(d, ToSet(d)) = d
    BY OnlyKeeps
  <2> QED BY <2>1, <2>2 DEF Others
<1> DEFINE last == [i \in DOMAIN d |-> AsEntry(d[i], FALSE, FALSE)]
<1>3. last \in Seq(Entry) /\ DOMAIN last = DOMAIN d
  <2>1. \A i \in DOMAIN d : d[i] \in Row
    OBVIOUS
  <2>2. \A r \in Row : AsEntry(r, FALSE, FALSE) \in Entry
    BY DEF AsEntry, Entry, Row
  <2>3. DOMAIN d = 1 .. Len(d) /\ Len(d) \in Nat
    OBVIOUS
  <2>4. \A i \in DOMAIN d : AsEntry(d[i], FALSE, FALSE) \in Entry
    BY <2>1, <2>2
  <2> HIDE DEF last
  <2>5. last \in [1 .. Len(d) -> Entry]
    BY <2>3, <2>4 DEF last
  <2> QED BY <2>3, <2>5
<1>4. Layered(<<>>, d) = last
  <2> DEFINE first == [i \in DOMAIN <<>> |-> Laid(<<>>[i], d)]
  <2>1. Layered(<<>>, d) = first \o last
    BY <1>2 DEF Layered, Laid
  <2>2. first = <<>>
    OBVIOUS
  <2> HIDE DEF first, last
  <2> QED BY <1>3, <2>1, <2>2
<1>5. AsRows(last) = [i \in DOMAIN d |-> [id |-> last[i].id, text |-> last[i].text]]
  BY <1>3 DEF AsRows
<1>6. \A i \in DOMAIN d : [id |-> last[i].id, text |-> last[i].text] = d[i]
  <2>1. \A r \in Row : RowOf(AsEntry(r, FALSE, FALSE)) = r
    BY EntryOfRow
  <2>2. \A i \in DOMAIN d : d[i] \in Row
    OBVIOUS
  <2>3. \A i \in DOMAIN d : RowOf(last[i]) = d[i]
    BY <2>1, <2>2
  <2> QED BY <2>3 DEF RowOf
<1>7. d = [i \in DOMAIN d |-> d[i]]
  OBVIOUS
<1> HIDE DEF last
<1> QED BY <1>4, <1>5, <1>6, <1>7

-----------------------------------------------------------------------------
(* The state properties, of any objects that are stored *)

LEMMA StoredIs ==
    ASSUME NEW v, IsStored(v)
    PROVE  /\ v = [scalars |-> v.scalars, lists |-> v.lists]
           /\ v.scalars \in [DOMAIN v.scalars -> Value] /\ DOMAIN v.scalars \subseteq Name
           /\ IsFiniteSet(DOMAIN v.scalars)
           /\ v.lists \in [Lists -> Seq(Row)]
           /\ \A l \in Lists \cap DOMAIN v.scalars : v.lists[l] = <<>>
BY DEF IsStored

LEMMA NoBlankName == Blank \notin Name
BY EditorAssumption DEF Name, Lists, Blank

LEMMA UniformRendering == EditorTypeOK => UniformSetRendered
<1> SUFFICES ASSUME EditorTypeOK, NEW l \in Lists,
                    l \notin DOMAIN device.scalars,
                    Distinct(profile.lists[l]), Distinct(device.lists[l]),
                    \/ device.lists[l] = <<>>
                    \/ \A i \in DOMAIN profile.lists[l] : Has(device.lists[l], profile.lists[l][i].id)
             PROVE  ToSet(RenderedRows(l)) = ToSet(Shown(l))
  BY DEF UniformSetRendered
<1> DEFINE p == profile.lists[l]
           d == device.lists[l]
<1>1. p \in Seq(Row) /\ d \in Seq(Row)
  BY StoredIs DEF EditorTypeOK
<1>2. RenderedRows(l) = IF d # <<>> THEN d ELSE p
  BY DEF RenderedRows
<1>3. Shown(l) = AsRows(Layered(p, d))
  BY DEF Shown
<1>4. d = <<>> \/ \A r \in ToSet(p) : Has(d, r.id)
  BY DEF ToSet
<1>5. Distinct(d)
  OBVIOUS
<1> HIDE DEF p, d
<1>6. \A x : x \in ToSet(Shown(l)) <=> \/ \E r \in ToSet(p) : x = Laying(r, d)
                                       \/ x \in ToSet(d) /\ ~Has(p, x.id)
  BY <1>1, <1>3, ShownIs
<1>7. ToSet(p) \subseteq Row /\ ToSet(d) \subseteq Row
  BY <1>1 DEF ToSet
<1>8. CASE d = <<>>
  <2>1. \A id : ~Has(d, id)
    BY <1>8 DEF Has
  <2>2. \A r : Laying(r, d) = r
    BY <2>1 DEF Laying
  <2>3. ToSet(d) = {}
    BY <1>1, <1>8, EmptyIs
  <2>4. \A x : x \in ToSet(Shown(l)) <=> x \in ToSet(p)
    BY <1>6, <2>2, <2>3
  <2>5. RenderedRows(l) = p
    BY <1>2, <1>8
  <2> QED BY <2>4, <2>5
<1>9. CASE d # <<>>
  <2>1. \A r \in ToSet(p) : Has(d, r.id)
    BY <1>4, <1>9
  <2>2. ASSUME NEW x \in ToSet(Shown(l)) PROVE x \in ToSet(d)
    <3>1. CASE \E r \in ToSet(p) : x = Laying(r, d)
      <4>1. PICK r \in ToSet(p) : x = Laying(r, d)
        BY <3>1
      <4> QED BY <1>1, <1>7, <2>1, <4>1, LaidIs
    <3> QED BY <1>6, <2>2, <3>1
  <2>3. ASSUME NEW x \in ToSet(d) PROVE x \in ToSet(Shown(l))
    <3>1. CASE Has(p, x.id)
      <4>1. PICK r \in ToSet(p) : r.id = x.id
        BY <3>1, HasIs
      <4>2. Laying(r, d) \in ToSet(d) /\ Laying(r, d).id = x.id
        BY <1>1, <1>7, <2>1, <4>1, LaidIs
      <4>3. Laying(r, d) = x
        BY <1>5, <4>2, DistinctIs
      <4> QED BY <1>6, <4>3
    <3>2. CASE ~Has(p, x.id)
      BY <1>6, <3>2
    <3> QED BY <3>1, <3>2
  <2> QED BY <1>2, <1>9, <2>2, <2>3
<1> QED BY <1>8, <1>9

(* What DeviceModal makes of an object, saved at once. *)
LEMMA DeviceNoop ==
    ASSUME NEW d, NEW p, IsStored(d), IsStored(p), \A l \in Lists : Distinct(d.lists[l])
    PROVE  Same(DeviceBody(OpenedDevice(d, p)), d)
<1> DEFINE f == OpenedDevice(d, p)
           S == Strings(d)
           lists == [l \in Lists |-> AsRows(Kept(f.rows[l]))]
           b == DeviceBody(f)
<1>1. f.vars = Pairs(S) /\ f.rows = [l \in Lists |-> Layered(p.lists[l], d.lists[l])]
  BY DEF OpenedDevice, Closed
<1>2. DOMAIN S = DOMAIN d.scalars \cup {l \in Lists : d.lists[l] # <<>>}
  BY DEF Strings
<1>3. DOMAIN S \subseteq Name /\ IsFiniteSet(DOMAIN S)
  BY StringsAre
<1>4. \A l \in Lists : p.lists[l] \in Seq(Row) /\ d.lists[l] \in Seq(Row)
  BY StoredIs
<1>5. \A l \in Lists : lists[l] = AsRows(Kept(Layered(p.lists[l], d.lists[l])))
  BY <1>1
<1>6. \A l \in Lists : ToSet(lists[l]) = ToSet(d.lists[l])
  BY <1>4, <1>5, KeptRowsAre
<1>7. \A l \in Lists : lists[l] \in Seq(Row)
  <2> SUFFICES ASSUME NEW l \in Lists PROVE lists[l] \in Seq(Row)
    OBVIOUS
  <2>1. Layered(p.lists[l], d.lists[l]) \in Seq(Entry)
    BY <1>4, LayeredIs
  <2>2. Kept(Layered(p.lists[l], d.lists[l])) \in Seq(Entry)
    BY <2>1, KeptIs
  <2> QED BY <1>5, <2>2, AsRowsAre
<1> HIDE DEF lists
<1>8. \A l \in Lists : lists[l] = <<>> <=> d.lists[l] = <<>>
  BY <1>4, <1>6, <1>7, EmptyIs
<1>9. b = Packed(f.vars, lists)
  BY DEF DeviceBody, lists
<1> DEFINE e == FromEntries(f.vars)
           K == {j \in DOMAIN e : j \notin Lists \/ lists[j] = <<>>}
<1>10. b.scalars = [k \in K |-> e[k]] /\ b.lists = lists
  BY <1>9 DEF Packed
<1>11. DOMAIN e = DOMAIN S /\ \A k \in DOMAIN S : e[k] = S[k]
  <2>1. Named(f.vars) = DOMAIN S \ {Blank} /\ \A k \in DOMAIN S \ {Blank} : e[k] = S[k]
    BY <1>1, <1>3, PairsAre
  <2>2. DOMAIN S \ {Blank} = DOMAIN S
    BY <1>3, NoBlankName
  <2>3. DOMAIN e = Named(f.vars)
    BY DEF FromEntries
  <2> QED BY <2>1, <2>2, <2>3
<1> HIDE DEF e, f, b
<1>12. \A l \in Lists \cap DOMAIN d.scalars : d.lists[l] = <<>>
  BY StoredIs
<1>13. K = DOMAIN d.scalars
  BY <1>2, <1>8, <1>11, <1>12
<1>14. \A k \in DOMAIN d.scalars : e[k] = d.scalars[k]
  BY <1>2, <1>11 DEF Strings
<1>15. d.scalars = [k \in DOMAIN d.scalars |-> d.scalars[k]]
  BY StoredIs
<1> HIDE DEF K
<1>16. b.scalars = d.scalars
  BY <1>10, <1>13, <1>14, <1>15
<1> QED BY <1>6, <1>10, <1>16 DEF Same, b, f

(* The same of ProfileForm, whose list of variables has no lists. *)
LEMMA ProfileNoop ==
    ASSUME NEW p, IsStored(p), DOMAIN p.scalars \subseteq Key
    PROVE  ProfileBody(OpenedProfile(p)) = p
<1> DEFINE f == OpenedProfile(p)
           S == Restrict(p.scalars, DOMAIN p.scalars \ Lists)
           lists == [l \in Lists |-> AsRows(f.rows[l])]
           e == FromEntries(f.vars)
           K == {j \in DOMAIN e : j \notin Lists \/ lists[j] = <<>>}
<1>1. f.vars = Pairs(S) /\ f.rows = [l \in Lists |-> Layered(<<>>, p.lists[l])]
  BY DEF OpenedProfile, Closed
<1>2. DOMAIN p.scalars \ Lists = DOMAIN p.scalars
  BY EditorAssumption
<1>3. S = p.scalars
  <2>1. S = [k \in DOMAIN p.scalars \ Lists |-> p.scalars[k]]
    BY DEF Restrict
  <2> QED BY <1>2, <2>1, StoredIs
<1> HIDE DEF S
<1>4. lists = p.lists
  <2>1. p.lists \in [Lists -> Seq(Row)]
    BY StoredIs
  <2>2. \A l \in Lists : lists[l] = p.lists[l]
    BY <1>1, <2>1, ProfileRowsAre
  <2> QED BY <2>1, <2>2
<1>5. ProfileBody(f) = Packed(f.vars, lists)
  BY DEF ProfileBody
<1> HIDE DEF lists
<1>6. Packed(f.vars, lists) = [scalars |-> [k \in K |-> e[k]], lists |-> lists]
  BY DEF Packed
<1>7. DOMAIN e = DOMAIN p.scalars /\ \A k \in DOMAIN p.scalars : e[k] = p.scalars[k]
  <2>1. IsFiniteSet(DOMAIN p.scalars) /\ DOMAIN p.scalars \subseteq Name
    BY StoredIs
  <2>2. Named(f.vars) = DOMAIN S \ {Blank} /\ \A k \in DOMAIN S \ {Blank} : e[k] = S[k]
    BY <1>1, <1>3, <2>1, PairsAre
  <2>3. DOMAIN S \ {Blank} = DOMAIN S
    BY <1>3, <2>1, NoBlankName
  <2>4. DOMAIN e = Named(f.vars)
    BY DEF FromEntries
  <2> QED BY <1>3, <2>2, <2>3, <2>4
<1> HIDE DEF e, f
<1>8. K = DOMAIN p.scalars
  BY <1>2, <1>7
<1> HIDE DEF K
<1>9. [k \in K |-> e[k]] = p.scalars
  <2>1. p.scalars = [k \in DOMAIN p.scalars |-> p.scalars[k]]
    BY StoredIs
  <2> QED BY <1>7, <1>8, <2>1
<1>10. p = [scalars |-> p.scalars, lists |-> p.lists]
  BY StoredIs
<1> QED BY <1>4, <1>5, <1>6, <1>9, <1>10 DEF f

-----------------------------------------------------------------------------
(* What is saved is what is shown *)

(* Rows of a form: only those of a profile are overridden. *)
Owned == {e \in Entry : e.overridden => e.fromProfile}

LEMMA ReopenedRows ==
    ASSUME NEW F \in Seq(Owned), NEW p \in Seq(Row), Distinct(F), Distinct(p),
           {e.id : e \in {e \in ToSet(F) : e.fromProfile}} = {r.id : r \in ToSet(p)},
           \A e \in {e \in ToSet(F) : e.fromProfile} : e.overridden \/ RowOf(e) \in ToSet(p)
    PROVE  ToSet(Layered(p, AsRows(Kept(F)))) = ToSet(F)
<1> DEFINE K == AsRows(Kept(F))
<1>1. F \in Seq(Entry) /\ ToSet(F) \subseteq Owned /\ Owned \subseteq Entry
  BY DEF Owned, ToSet
<1>2. K \in Seq(Row) /\ ToSet(K) = {RowOf(e) : e \in {e \in ToSet(F) : OfDevice(e)}}
  <2>1. Kept(F) \in Seq(Entry) /\ ToSet(Kept(F)) = {e \in ToSet(F) : OfDevice(e)}
    BY <1>1, KeptIs
  <2> QED BY <2>1, AsRowsAre
<1> HIDE DEF K
<1>3. \A e : e \in ToSet(Layered(p, K)) <=> IsLayered(e, p, K)
  BY <1>2, LayeredIs
<1>4. \A e \in Entry : RowOf(e) \in Row /\ RowOf(e).id = e.id /\ RowOf(e).text = e.text
  BY DEF Entry, Row, RowOf
<1>5. ToSet(p) \subseteq Row
  BY DEF ToSet
<1> DEFINE ofProfile == {e \in ToSet(F) : e.fromProfile}
<1>6. ASSUME NEW e \in ToSet(F), e.fromProfile PROVE \E r \in ToSet(p) : r.id = e.id
  <2>1. e \in ofProfile
    BY <1>6
  <2>2. e.id \in {g.id : g \in ofProfile}
    BY <2>1
  <2>3. e.id \in {r.id : r \in ToSet(p)}
    BY <2>2
  <2> QED BY <2>3
<1>7. ASSUME NEW r \in ToSet(p) PROVE \E e \in ToSet(F) : e.fromProfile /\ e.id = r.id
  <2>1. r.id \in {q.id : q \in ToSet(p)}
    OBVIOUS
  <2>2. r.id \in {g.id : g \in ofProfile}
    BY <2>1
  <2> QED BY <2>2
(* A row of the profile is laid back as the form has it. *)
<1>8. ASSUME NEW e \in ToSet(F), e.fromProfile, NEW r \in ToSet(p), r.id = e.id
      PROVE  Laid(r, K) = e
  <2>0. e \in Entry /\ r \in Row /\ e.fromProfile = TRUE /\ e.overridden \in BOOLEAN
    BY <1>1, <1>5, <1>8 DEF Entry
  <2>1. Has(K, r.id) <=> e.overridden
    <3>1. ASSUME Has(K, r.id) PROVE e.overridden
      <4>1. PICK x \in ToSet(K) : x.id = r.id
        BY <3>1, HasIs
      <4>2. PICK g \in ToSet(F) : OfDevice(g) /\ x = RowOf(g)
        BY <1>2, <4>1
      <4>3. g.id = e.id
        BY <1>1, <1>4, <1>8, <4>1, <4>2
      <4>4. g = e
        BY <4>3, DistinctIs
      <4> QED BY <1>8, <4>2, <4>4 DEF OfDevice
    <3>2. ASSUME e.overridden PROVE Has(K, r.id)
      <4>1. RowOf(e) \in ToSet(K)
        BY <1>2, <3>2 DEF OfDevice
      <4>2. RowOf(e).id = r.id
        BY <1>4, <1>8, <2>0
      <4> QED BY <4>1, <4>2, HasIs
    <3> QED BY <3>1, <3>2
  <2>2. Laying(r, K) = RowOf(e)
    <3>1. CASE e.overridden
      <4>1. Laying(r, K) \in ToSet(K) /\ Laying(r, K).id = r.id
        BY <1>2, <2>0, <2>1, <3>1, LaidIs
      <4>2. PICK g \in ToSet(F) : OfDevice(g) /\ Laying(r, K) = RowOf(g)
        BY <1>2, <4>1
      <4>3. g.id = e.id
        BY <1>1, <1>4, <1>8, <4>1, <4>2
      <4>4. g = e
        BY <4>3, DistinctIs
      <4> QED BY <4>2, <4>4
    <3>2. CASE ~e.overridden
      <4>1. RowOf(e) \in ToSet(p) /\ RowOf(e).id = r.id
        BY <1>4, <1>8, <2>0, <3>2
      <4>2. RowOf(e) = r
        BY <4>1, DistinctIs
      <4>3. ~Has(K, r.id)
        BY <2>1, <3>2
      <4> QED BY <4>2, <4>3 DEF Laying
    <3> QED BY <3>1, <3>2
  <2>3. RowOf(Laid(r, K)) = RowOf(e) /\ Laid(r, K).fromProfile = TRUE
    BY <1>2, <2>0, <2>2, LaidIs
  <2>4. Laid(r, K).overridden <=> e.overridden
    BY <1>2, <2>0, <2>1, LaidIs
  <2>5. Laid(r, K) \in Entry
    BY <1>2, <2>0, LaidEntry
  <2> QED BY <2>0, <2>3, <2>4, <2>5, EntriesEqual
<1>9. ASSUME NEW e \in ToSet(F), ~e.fromProfile
      PROVE  e = AsEntry(RowOf(e), FALSE, FALSE)
  <2>1. e \in Entry /\ e.fromProfile = FALSE /\ e.overridden = FALSE
    BY <1>1, <1>9 DEF Owned, Entry
  <2> QED BY <2>1 DEF AsEntry, RowOf, Entry
<1>10. ASSUME NEW e \in ToSet(F) PROVE IsLayered(e, p, K)
  <2>1. CASE e.fromProfile
    <3>1. PICK r \in ToSet(p) : r.id = e.id
      BY <1>6, <2>1
    <3> QED BY <1>8, <2>1, <3>1 DEF IsLayered
  <2>2. CASE ~e.fromProfile
    <3>1. RowOf(e) \in ToSet(K)
      BY <1>2, <2>2 DEF OfDevice
    <3>2. ASSUME Has(p, RowOf(e).id) PROVE FALSE
      <4>1. PICK r \in ToSet(p) : r.id = RowOf(e).id
        BY <3>2, HasIs
      <4>2. PICK g \in ToSet(F) : g.fromProfile /\ g.id = r.id
        BY <1>7
      <4>3. g.id = e.id
        BY <1>1, <1>4, <4>1, <4>2
      <4>4. g = e
        BY <4>3, DistinctIs
      <4> QED BY <2>2, <4>2, <4>4
    <3> QED BY <1>9, <2>2, <3>1, <3>2 DEF IsLayered
  <2> QED BY <2>1, <2>2
<1>11. ASSUME NEW e, IsLayered(e, p, K) PROVE e \in ToSet(F)
  <2>1. CASE \E r \in ToSet(p) : e = Laid(r, K)
    <3>1. PICK r \in ToSet(p) : e = Laid(r, K)
      BY <2>1
    <3>2. PICK g \in ToSet(F) : g.fromProfile /\ g.id = r.id
      BY <1>7
    <3> QED BY <1>8, <3>1, <3>2
  <2>2. CASE \E r \in ToSet(K) : ~Has(p, r.id) /\ e = AsEntry(r, FALSE, FALSE)
    <3>1. PICK r \in ToSet(K) : ~Has(p, r.id) /\ e = AsEntry(r, FALSE, FALSE)
      BY <2>2
    <3>2. PICK g \in ToSet(F) : OfDevice(g) /\ r = RowOf(g)
      BY <1>2, <3>1
    <3>3. ~g.fromProfile
      <4> SUFFICES ASSUME g.fromProfile PROVE FALSE
        OBVIOUS
      <4>1. PICK x \in ToSet(p) : x.id = g.id
        BY <1>6
      <4>2. x.id = r.id
        BY <1>1, <1>4, <3>2, <4>1
      <4> QED BY <3>1, <4>2, HasIs
    <3> QED BY <1>9, <3>1, <3>2, <3>3
  <2> QED BY <1>11, <2>1, <2>2 DEF IsLayered
<1> QED BY <1>3, <1>10, <1>11 DEF K

LEMMA ReopenedVars ==
    ASSUME NEW f, f.vars \in Seq(Pair), NEW lists \in [Lists -> Seq(Row)], NEW p, IsStored(p),
           NEW k \in Key \cap Named(f.vars)
    PROVE  FromEntries(OpenedDevice(Packed(f.vars, lists), p).vars)[k] = FromEntries(f.vars)[k]
<1> DEFINE b == Packed(f.vars, lists)
           e == FromEntries(f.vars)
           S == Strings(b)
<1>1. IsStored(b)
  BY PackedIs
<1>2. OpenedDevice(b, p).vars = Pairs(S)
  BY DEF OpenedDevice, Closed
<1>3. DOMAIN S \subseteq Name /\ IsFiniteSet(DOMAIN S)
  BY <1>1, StringsAre
<1>4. k \notin Lists /\ k \in DOMAIN e
  BY EditorAssumption DEF FromEntries
<1>5. k \in DOMAIN b.scalars /\ b.scalars[k] = e[k]
  BY <1>4 DEF Packed
<1> HIDE DEF b, e
<1>6. k \in DOMAIN S /\ S[k] = e[k]
  BY <1>5 DEF Strings
<1>7. k \in DOMAIN S \ {Blank}
  BY <1>3, <1>6, NoBlankName
<1> HIDE DEF S
<1>8. FromEntries(Pairs(S))[k] = S[k]
  BY <1>3, <1>7, PairsAre
<1> QED BY <1>2, <1>6, <1>8 DEF b, e

-----------------------------------------------------------------------------
(* The invariant.  A form of a profile, and what it saves, never has a     *)
(* list among its variables, and only rows of a profile are overridden.    *)
Typed == (Key \cup {Blank}) \X Value

EditorInv ==
    /\ EditorTypeOK
    /\ form.rows \in [Lists -> Seq(Owned)]
    /\ form.kind = "profile" => form.vars \in Seq(Typed)
    /\ DOMAIN profile.scalars \subseteq Key
    /\ \A p \in puts : p.kind = "profile" => DOMAIN p.body.scalars \subseteq Key

Form == [kind : {"none", "device", "profile"}, vars : Seq(Pair),
         rows : [Lists -> Seq(Entry)], put : 0 .. MaxSaves,
         discovering : BOOLEAN, pending : Seq(Pair)]

FormInv(f) ==
    /\ f \in Form
    /\ f.rows \in [Lists -> Seq(Owned)]
    /\ f.kind = "profile" => f.vars \in Seq(Typed)

PutInv(x) ==
    /\ x = [n |-> x.n, kind |-> x.kind, body |-> x.body]
    /\ x.n \in 1 .. MaxSaves /\ x.kind \in {"device", "profile"} /\ IsStored(x.body)
    /\ x.kind = "profile" => DOMAIN x.body.scalars \subseteq Key

LEMMA InvParts ==
    EditorInv <=> /\ IsStored(profile) /\ DOMAIN profile.scalars \subseteq Key
                  /\ IsStored(device) /\ FormInv(form) /\ \A p \in puts : PutInv(p)
                  /\ edits \in 0 .. MaxEdits /\ saves \in 0 .. MaxSaves
BY DEF EditorInv, EditorTypeOK, FormInv, PutInv, Form

LEMMA InvPartsNext ==
    EditorInv' <=> /\ IsStored(profile') /\ DOMAIN profile'.scalars \subseteq Key
                   /\ IsStored(device') /\ FormInv(form') /\ \A p \in puts' : PutInv(p)
                   /\ edits' \in 0 .. MaxEdits /\ saves' \in 0 .. MaxSaves
BY DEF EditorInv, EditorTypeOK, FormInv, PutInv, Form, IsStored, Distinct

LEMMA TypedIsPair ==
    ASSUME NEW s \in Seq(Typed)
    PROVE  s \in Seq(Pair)
<1>1. Typed \subseteq Pair
  BY DEF Typed, Pair, Name
<1> QED BY <1>1

LEMMA OwnedIsEntry ==
    ASSUME NEW s \in Seq(Owned)
    PROVE  s \in Seq(Entry)
<1>1. Owned \subseteq Entry
  BY DEF Owned
<1> QED BY <1>1

LEMMA NothingStored == IsStored(Nothing) /\ DOMAIN Nothing.scalars = {}
<1>1. Nothing.scalars = <<>> /\ Nothing.lists = NoLists
  BY DEF Nothing
<1>2. DOMAIN <<>> = {} /\ <<>> \in [{} -> Value]
  OBVIOUS
<1>3. IsFiniteSet({})
  BY FS_EmptySet
<1>4. NoLists \in [Lists -> Seq(Row)]
  BY DEF NoLists
<1>5. Nothing = [scalars |-> <<>>, lists |-> NoLists]
  BY DEF Nothing
<1> QED BY <1>1, <1>2, <1>3, <1>4, <1>5 DEF IsStored

LEMMA ClosedIs == FormInv(Closed)
<1>1. NoLists \in [Lists -> Seq(Entry)] /\ NoLists \in [Lists -> Seq(Owned)]
  BY DEF NoLists
<1>2. 0 \in 0 .. MaxSaves /\ <<>> \in Seq(Pair)
  BY EditorAssumption
<1> QED BY <1>1, <1>2 DEF FormInv, Form, Closed

LEMMA EditorInitInv == EditorInit => EditorInv
<1> SUFFICES ASSUME EditorInit PROVE EditorInv
  OBVIOUS
<1>1. IsStored(profile) /\ DOMAIN profile.scalars \subseteq Key
  BY EditorAssumption DEF EditorInit
<1>2. IsStored(device)
  BY EditorAssumption DEF EditorInit
<1>3. FormInv(form)
  BY ClosedIs DEF EditorInit
<1>4. \A p \in puts : PutInv(p)
  BY DEF EditorInit
<1>5. edits \in 0 .. MaxEdits /\ saves \in 0 .. MaxSaves
  BY EditorAssumption DEF EditorInit
<1> QED BY <1>1, <1>2, <1>3, <1>4, <1>5, InvParts


-----------------------------------------------------------------------------
(* Every action keeps the invariant.  First what it puts in a form. *)

LEMMA InSet ==
    ASSUME NEW B, NEW C, NEW s \in Seq(B), ToSet(s) \subseteq C
    PROVE  s \in Seq(C)
<1>1. Len(s) \in Nat /\ DOMAIN s = 1 .. Len(s) /\ s \in [1 .. Len(s) -> B]
  OBVIOUS
<1>2. \A i \in 1 .. Len(s) : s[i] \in C
  BY <1>1 DEF ToSet
<1>3. s \in [1 .. Len(s) -> C]
  BY <1>1, <1>2
<1> QED BY <1>1, <1>3

LEMMA LayeredOwned ==
    ASSUME NEW p \in Seq(Row), NEW d \in Seq(Row)
    PROVE  Layered(p, d) \in Seq(Owned)
<1>1. ASSUME NEW e \in ToSet(Layered(p, d)) PROVE e \in Owned
  <2>1. e \in Entry
    <3>1. Layered(p, d) \in Seq(Entry)
      BY LayeredIs
    <3> QED BY <3>1 DEF ToSet
  <2>2. CASE \E r \in ToSet(p) : e = Laid(r, d)
    <3>1. PICK r \in ToSet(p) : e = Laid(r, d)
      BY <2>2
    <3>2. r \in Row
      BY DEF ToSet
    <3>3. e.fromProfile = TRUE
      BY <3>1, <3>2, LaidIs
    <3> QED BY <2>1, <3>3 DEF Owned
  <2>3. CASE \E r \in ToSet(d) : e = AsEntry(r, FALSE, FALSE)
    <3>1. e.overridden = FALSE
      BY <2>3 DEF AsEntry
    <3> QED BY <2>1, <3>1 DEF Owned
  <2>4. IsLayered(e, p, d)
    BY LayeredIs
  <2> QED BY <2>2, <2>3, <2>4 DEF IsLayered
<1>2. Layered(p, d) \in Seq(Entry)
  BY LayeredIs
<1> QED BY <1>1, <1>2, InSet

LEMMA OpenForm ==
    ASSUME NEW kind \in {"device", "profile"}, NEW vars \in Seq(Pair),
           NEW rows \in [Lists -> Seq(Owned)], kind = "profile" => vars \in Seq(Typed)
    PROVE  FormInv([Closed EXCEPT !.kind = kind, !.vars = vars, !.rows = rows])
<1>1. rows \in [Lists -> Seq(Entry)]
  BY OwnedIsEntry
<1>2. 0 \in 0 .. MaxSaves /\ <<>> \in Seq(Pair)
  BY EditorAssumption
<1> QED BY <1>1, <1>2 DEF FormInv, Form, Closed

LEMMA OpenedDeviceIs ==
    ASSUME NEW d, NEW p, IsStored(d), IsStored(p)
    PROVE  FormInv(OpenedDevice(d, p))
<1> DEFINE vars == Pairs(Strings(d))
           rows == [l \in Lists |-> Layered(p.lists[l], d.lists[l])]
<1>1. vars \in Seq(Pair)
  BY StringsAre, PairsType
<1>2. \A l \in Lists : p.lists[l] \in Seq(Row) /\ d.lists[l] \in Seq(Row)
  BY StoredIs
<1>3. rows \in [Lists -> Seq(Owned)]
  BY <1>2, LayeredOwned
<1>4. OpenedDevice(d, p) = [Closed EXCEPT !.kind = "device", !.vars = vars, !.rows = rows]
  BY DEF OpenedDevice
<1> HIDE DEF vars, rows
<1> QED BY <1>1, <1>3, <1>4, OpenForm

LEMMA OpenedProfileIs ==
    ASSUME NEW p, IsStored(p), DOMAIN p.scalars \subseteq Key
    PROVE  FormInv(OpenedProfile(p))
<1> DEFINE K == DOMAIN p.scalars \ Lists
           f == Restrict(p.scalars, K)
           rows == [l \in Lists |-> Layered(<<>>, p.lists[l])]
<1>1. /\ p.scalars \in [DOMAIN p.scalars -> Value] /\ IsFiniteSet(DOMAIN p.scalars)
      /\ \A l \in Lists : p.lists[l] \in Seq(Row)
  BY StoredIs
<1>2. DOMAIN f = K /\ \A k \in K : f[k] = p.scalars[k]
  BY DEF Restrict
<1>3. IsFiniteSet(K) /\ K \subseteq Key
  <2>1. K \in SUBSET DOMAIN p.scalars
    OBVIOUS
  <2> QED BY <1>1, <2>1, FS_Subset
<1> HIDE DEF f, K
<1>4. Pairs(f) \in Seq({<<k, f[k]>> : k \in DOMAIN f})
  BY <1>2, <1>3, PairsAre
<1>5. \A k \in K : f[k] \in Value
  BY <1>1, <1>2 DEF K
<1>6. {<<k, f[k]>> : k \in DOMAIN f} \subseteq Typed
  BY <1>2, <1>3, <1>5 DEF Typed
<1>7. Pairs(f) \in Seq(Typed)
  BY <1>4, <1>6
<1>8. Pairs(f) \in Seq(Pair)
  BY <1>7, TypedIsPair
<1>9. rows \in [Lists -> Seq(Owned)]
  <2>1. <<>> \in Seq(Row)
    OBVIOUS
  <2> QED BY <1>1, <2>1, LayeredOwned
<1>10. OpenedProfile(p) = [Closed EXCEPT !.kind = "profile", !.vars = Pairs(f), !.rows = rows]
  BY DEF OpenedProfile, f, K
<1> HIDE DEF rows
<1> QED BY <1>7, <1>8, <1>9, <1>10, OpenForm

(* What a form saves. *)
LEMMA BodyIs ==
    ASSUME NEW f, FormInv(f)
    PROVE  /\ IsStored(Body(f))
           /\ f.kind = "profile" => DOMAIN Body(f).scalars \subseteq Key
<1>1. f.vars \in Seq(Pair) /\ f.rows \in [Lists -> Seq(Entry)]
  BY DEF FormInv, Form
<1>2. \A l \in Lists : f.rows[l] \in Seq(Entry)
  BY <1>1
<1>3. [l \in Lists |-> AsRows(Kept(f.rows[l]))] \in [Lists -> Seq(Row)]
  <2>1. \A l \in Lists : AsRows(Kept(f.rows[l])) \in Seq(Row)
    BY <1>2, KeptIs, AsRowsAre
  <2> QED BY <2>1
<1>4. [l \in Lists |-> AsRows(f.rows[l])] \in [Lists -> Seq(Row)]
  <2>1. \A l \in Lists : AsRows(f.rows[l]) \in Seq(Row)
    BY <1>2, AsRowsAre
  <2> QED BY <2>1
<1>5. IsStored(DeviceBody(f)) /\ IsStored(ProfileBody(f))
  BY <1>1, <1>3, <1>4, PackedIs DEF DeviceBody, ProfileBody
<1>6. ASSUME f.kind = "profile" PROVE DOMAIN Body(f).scalars \subseteq Key
  <2>1. f.vars \in Seq(Typed)
    BY <1>6 DEF FormInv
  <2>2. \A i \in DOMAIN f.vars : f.vars[i][1] \in Key \cup {Blank}
    BY <2>1 DEF Typed
  <2>3. Named(f.vars) \subseteq Key
    BY <2>2 DEF Named
  <2>4. DOMAIN ProfileBody(f).scalars \subseteq Named(f.vars)
    BY DEF ProfileBody, Packed, FromEntries
  <2> QED BY <1>6, <2>3, <2>4 DEF Body
<1> QED BY <1>5, <1>6 DEF Body

(* What an edit leaves. *)
LEMMA WithVarsKeeps ==
    ASSUME FormInv(form), NEW vars \in Seq(Pair),
           form.kind = "profile" => vars \in Seq(Typed)
    PROVE  FormInv([form EXCEPT !.vars = vars])
BY DEF FormInv, Form

LEMMA WithRowsKeeps ==
    ASSUME FormInv(form), NEW l \in Lists, NEW rows \in Seq(Owned)
    PROVE  FormInv([form EXCEPT !.rows = [@ EXCEPT ![l] = rows]])
<1> DEFINE all == [form.rows EXCEPT ![l] = rows]
<1>2. all \in [Lists -> Seq(Owned)]
  BY DEF FormInv
<1>3. all \in [Lists -> Seq(Entry)]
  BY <1>2, OwnedIsEntry
<1> HIDE DEF all
<1>4. FormInv([form EXCEPT !.rows = all])
  BY <1>2, <1>3 DEF FormInv, Form
<1> QED BY <1>4 DEF all

LEMMA Replaced ==
    ASSUME NEW B, NEW s \in Seq(B), NEW i \in DOMAIN s, NEW x \in B
    PROVE  ReplaceAt(s, i, x) \in Seq(B)
BY DEF ReplaceAt

LEMMA Removed ==
    ASSUME NEW B, NEW s \in Seq(B), NEW i \in DOMAIN s
    PROVE  RemoveAt(s, i) \in Seq(B)
<1>1. i \in 1 .. Len(s) /\ Len(s) \in Nat
  OBVIOUS
<1>2. SubSeq(s, 1, i - 1) \in Seq(B) /\ SubSeq(s, i + 1, Len(s)) \in Seq(B)
  BY <1>1
<1> QED BY <1>2 DEF RemoveAt

(* What a discovery appends: variables that the form had not. *)
LEMMA AskedIs ==
    ASSUME NEW vars, NEW keys \in SUBSET Asked, NEW defaults,
           \A k \in keys : defaults[k] \in Value
    PROVE  AskedWith(vars, keys, defaults) \in Seq((keys \ Named(vars)) \X Value)
<1> DEFINE S == keys \ Named(vars)
           new == Missing(vars, keys)
<1>1. IsFiniteSet(S)
  <2>1. S \in SUBSET Asked
    OBVIOUS
  <2> QED BY <2>1, EditorAssumption, FS_Subset
<1>2. new \in Seq(S)
  BY <1>1, Listed DEF Missing
<1>3. AskedWith(vars, keys, defaults) = [i \in DOMAIN new |-> <<new[i], defaults[new[i]]>>]
  BY DEF AskedWith
<1>4. \A k \in S : defaults[k] \in Value
  OBVIOUS
<1> HIDE DEF new, S
<1>5. \A i \in DOMAIN new : new[i] \in S
  BY <1>2
<1>6. [i \in DOMAIN new |-> <<new[i], defaults[new[i]]>>] \in Seq(S \X Value)
  BY <1>2, <1>4, <1>5
<1> QED BY <1>3, <1>6 DEF S

LEMMA DefaultsAre ==
    ASSUME IsStored(profile), NEW k \in Asked
    PROVE  ProfileStrings[k] \in Value /\ Blanks[k] \in Value
<1>1. Strings(profile) \in [DOMAIN Strings(profile) -> Value]
  BY StringsAre
<1> QED BY <1>1 DEF ProfileStrings, Blanks, Value

LEMMA OfProfileIs ==
    ASSUME IsStored(profile)
    PROVE  /\ OfProfile(form.vars) \in Seq(Pair)
           /\ OfProfile(form.vars) \in Seq((Key \ Named(form.vars)) \X Value)
<1> DEFINE keys == Asked \ Lists
<1>1. keys \in SUBSET Asked /\ keys \subseteq Key /\ keys \subseteq Name
  BY EditorAssumption DEF Name
<1>2. \A k \in keys : Blanks[k] \in Value
  BY DefaultsAre
<1>3. AskedWith(form.vars, keys, Blanks) \in Seq((keys \ Named(form.vars)) \X Value)
  BY <1>1, <1>2, AskedIs
<1>4. /\ (keys \ Named(form.vars)) \X Value \subseteq (Key \ Named(form.vars)) \X Value
      /\ (keys \ Named(form.vars)) \X Value \subseteq Pair
  BY <1>1 DEF Pair
<1> HIDE DEF keys
<1>6. /\ AskedWith(form.vars, keys, Blanks) \in Seq((Key \ Named(form.vars)) \X Value)
      /\ AskedWith(form.vars, keys, Blanks) \in Seq(Pair)
  BY <1>3, <1>4
<1> QED BY <1>6 DEF OfProfile, keys

LEMMA NewVarsAre ==
    ASSUME IsStored(profile), FormInv(form)
    PROVE  /\ NewVars(form) \in Seq(Pair)
           /\ form.kind = "profile" => NewVars(form) \in Seq((Key \ Named(form.vars)) \X Value)
<1>1. form.pending \in Seq(Pair)
  BY DEF FormInv, Form
<1> QED BY <1>1, OfProfileIs DEF NewVars

-----------------------------------------------------------------------------
(* The actions on the variables *)

(* An edit is counted. *)
LEMMA ChangedInv ==
    ASSUME EditorInv, edits < MaxEdits, Changed, FormInv(form')
    PROVE  EditorInv'
<1>1. edits' \in 0 .. MaxEdits
  BY InvParts, EditorAssumption DEF Changed
<1> QED BY <1>1, InvParts, InvPartsNext DEF Changed

LEMMA WithVarsInv ==
    ASSUME EditorInv, edits < MaxEdits, NEW vars \in Seq(Pair),
           form.kind = "profile" => vars \in Seq(Typed), WithVars(vars)
    PROVE  EditorInv'
<1>1. FormInv(form)
  BY InvParts
<1>2. FormInv(form')
  BY <1>1, WithVarsKeeps DEF WithVars
<1> QED BY <1>2, ChangedInv DEF WithVars

LEMMA VarsOfForm ==
    ASSUME EditorInv
    PROVE  /\ form.vars \in Seq(Pair)
           /\ form.kind = "profile" => form.vars \in Seq(Typed)
BY InvParts DEF FormInv, Form

LEMMA AddVarInv == EditorInv /\ AddVar => EditorInv'
<1> SUFFICES ASSUME EditorInv, AddVar PROVE EditorInv'
  OBVIOUS
<1>1. <<Blank, Blank>> \in Pair /\ <<Blank, Blank>> \in Typed
  BY DEF Pair, Typed, Value
<1> DEFINE vars == Append(form.vars, <<Blank, Blank>>)
<1>2. vars \in Seq(Pair) /\ (form.kind = "profile" => vars \in Seq(Typed))
  BY <1>1, VarsOfForm
<1>3. FormInv(form') /\ UNCHANGED <<profile, device, puts, edits, saves>>
  BY <1>2, InvParts, WithVarsKeeps DEF AddVar
<1> QED BY <1>3, InvParts, InvPartsNext

LEMMA SetVarInv == EditorInv /\ (\E i \in DOMAIN form.vars : SetVar(i)) => EditorInv'
<1> SUFFICES ASSUME EditorInv, NEW i \in DOMAIN form.vars, SetVar(i) PROVE EditorInv'
  OBVIOUS
<1> DEFINE old == form.vars[i]
<1>1. edits < MaxEdits
  BY DEF SetVar, Editing
<1>2. PICK new \in Pair :
        /\ WithVars(ReplaceAt(form.vars, i, new))
        /\ form.kind = "profile" => new \in Typed
  <2>1. old \in Pair /\ (form.kind = "profile" => old \in Typed)
    BY VarsOfForm
  <2>2. CASE \E k \in Key : WithVars(ReplaceAt(form.vars, i, <<k, old[2]>>))
    <3>1. PICK k \in Key : WithVars(ReplaceAt(form.vars, i, <<k, old[2]>>))
      BY <2>2
    <3>2. <<k, old[2]>> \in Pair /\ <<k, old[2]>> \in Typed
      BY <2>1 DEF Pair, Typed, Name
    <3> QED BY <3>1, <3>2
  <2>3. CASE \E x \in Val : WithVars(ReplaceAt(form.vars, i, <<old[1], x>>))
    <3>1. PICK x \in Val : WithVars(ReplaceAt(form.vars, i, <<old[1], x>>))
      BY <2>3
    <3>2. <<old[1], x>> \in Pair /\ (form.kind = "profile" => <<old[1], x>> \in Typed)
      BY <2>1 DEF Pair, Typed, Value
    <3> QED BY <3>1, <3>2
  <2> QED BY <2>2, <2>3 DEF SetVar
<1> DEFINE vars == ReplaceAt(form.vars, i, new)
<1>3. vars \in Seq(Pair) /\ (form.kind = "profile" => vars \in Seq(Typed))
  BY <1>2, VarsOfForm, Replaced
<1> HIDE DEF vars
<1>4. WithVars(vars)
  BY <1>2 DEF vars
<1> QED BY <1>1, <1>3, <1>4, WithVarsInv

LEMMA RemoveVarInv == EditorInv /\ (\E i \in DOMAIN form.vars : RemoveVar(i)) => EditorInv'
<1> SUFFICES ASSUME EditorInv, NEW i \in DOMAIN form.vars, RemoveVar(i) PROVE EditorInv'
  OBVIOUS
<1> DEFINE vars == RemoveAt(form.vars, i)
<1>1. edits < MaxEdits /\ WithVars(vars)
  BY DEF RemoveVar, Editing
<1>2. vars \in Seq(Pair) /\ (form.kind = "profile" => vars \in Seq(Typed))
  BY VarsOfForm, Removed
<1> HIDE DEF vars
<1> QED BY <1>1, <1>2, WithVarsInv

LEMMA DiscoverInv == EditorInv /\ Discover => EditorInv'
<1> SUFFICES ASSUME EditorInv, Discover PROVE EditorInv'
  OBVIOUS
<1>1. IsStored(profile) /\ FormInv(form)
  BY InvParts
<1> DEFINE appended == AskedWith(form.vars, Asked, ProfileStrings)
           pending == IF form.kind = "device" THEN appended ELSE OfProfile(form.vars)
<1>2. appended \in Seq(Pair)
  <2>1. appended \in Seq((Asked \ Named(form.vars)) \X Value)
    BY <1>1, DefaultsAre, AskedIs
  <2>2. (Asked \ Named(form.vars)) \X Value \subseteq Pair
    BY EditorAssumption DEF Pair
  <2> QED BY <2>1, <2>2
<1> HIDE DEF appended
<1>3. pending \in Seq(Pair)
  BY <1>1, <1>2, OfProfileIs
<1>4. form' = [form EXCEPT !.discovering = TRUE, !.pending = pending]
  BY DEF Discover, appended
<1> HIDE DEF pending
<1>6. FormInv(form')
  BY <1>1, <1>3, <1>4 DEF FormInv, Form
<1> QED BY <1>6, InvParts, InvPartsNext DEF Discover

LEMMA DiscoveredInv == EditorInv /\ Discovered => EditorInv'
<1> SUFFICES ASSUME EditorInv, Discovered PROVE EditorInv'
  OBVIOUS
<1>1. IsStored(profile) /\ FormInv(form)
  BY InvParts
<1> DEFINE new == NewVars(form)
<1>2. new \in Seq(Pair)
  BY <1>1, NewVarsAre
<1>3. form.kind = "profile" => new \in Seq(Typed)
  <2>1. (Key \ Named(form.vars)) \X Value \subseteq Typed
    BY DEF Typed
  <2> QED BY <1>1, <2>1, NewVarsAre
<1> HIDE DEF new
<1>4. /\ form.vars \o new \in Seq(Pair)
      /\ form.kind = "profile" => form.vars \o new \in Seq(Typed)
  BY <1>2, <1>3, VarsOfForm
<1>5. form' = [form EXCEPT !.discovering = FALSE, !.pending = <<>>, !.vars = form.vars \o new]
  BY DEF Discovered, new
<1>6. <<>> \in Seq(Pair)
  OBVIOUS
<1> DEFINE vars == form.vars \o new
<1> HIDE DEF vars
<1>7. FormInv([form EXCEPT !.discovering = FALSE, !.pending = <<>>, !.vars = vars])
  BY <1>1, <1>4, <1>6 DEF FormInv, Form, vars
<1>8. FormInv(form')
  BY <1>5, <1>7 DEF vars
<1> QED BY <1>8, InvParts, InvPartsNext DEF Discovered

LEMMA DiscoverFailedInv == EditorInv /\ DiscoverFailed => EditorInv'
<1> SUFFICES ASSUME EditorInv, DiscoverFailed PROVE EditorInv'
  OBVIOUS
<1>1. FormInv(form)
  BY InvParts
<1>2. <<>> \in Seq(Pair)
  OBVIOUS
<1>3. FormInv([form EXCEPT !.discovering = FALSE, !.pending = <<>>])
  BY <1>1, <1>2 DEF FormInv, Form
<1>4. FormInv(form')
  BY <1>3 DEF DiscoverFailed
<1> QED BY <1>4, InvParts, InvPartsNext DEF DiscoverFailed

-----------------------------------------------------------------------------
(* The actions on the rows *)

LEMMA WithRowsInv ==
    ASSUME EditorInv, edits < MaxEdits, NEW l \in Lists, NEW rows \in Seq(Owned),
           WithRows(l, rows)
    PROVE  EditorInv'
<1>1. FormInv(form)
  BY InvParts
<1>2. FormInv([form EXCEPT !.rows = [@ EXCEPT ![l] = rows]])
  BY <1>1, WithRowsKeeps
<1>3. FormInv(form')
  BY <1>2 DEF WithRows, Shows
<1> QED BY <1>3, ChangedInv DEF WithRows

LEMMA RowsOfForm ==
    ASSUME EditorInv, NEW l \in Lists
    PROVE  form.rows[l] \in Seq(Owned)
BY InvParts DEF FormInv

(* A row that its owner may edit stays one of its owner. *)
LEMMA EditedIs ==
    ASSUME NEW e \in Owned
    PROVE  /\ e \in Entry
           /\ e = [id |-> e.id, text |-> e.text, fromProfile |-> e.fromProfile,
                   overridden |-> e.overridden]
           /\ \A id \in RowId : [e EXCEPT !.id = id] \in Owned
           /\ \A text \in Text : [e EXCEPT !.text = text] \in Owned
           /\ e.fromProfile => [e EXCEPT !.overridden = TRUE] \in Owned
BY DEF Owned, Entry

LEMMA NewEntry ==
    ASSUME NEW id \in RowId
    PROVE  AsEntry([NewRow EXCEPT !.id = id], FALSE, FALSE) \in Owned
BY EditorAssumption DEF AsEntry, NewRow, Row, Entry, Owned

LEMMA AddRowInv == EditorInv /\ (\E l \in Lists : AddRow(l)) => EditorInv'
<1> SUFFICES ASSUME EditorInv, NEW l \in Lists, AddRow(l) PROVE EditorInv'
  OBVIOUS
<1> DEFINE e == AsEntry(NewRow, FALSE, FALSE)
<1>1. e \in Owned
  BY EditorAssumption DEF AsEntry, NewRow, Row, Entry, Owned
<1>2. Append(form.rows[l], e) \in Seq(Owned)
  <2> HIDE DEF e
  <2> QED BY <1>1, RowsOfForm
<1>3. FormInv(form)
  BY InvParts
<1> DEFINE rows == Append(form.rows[l], e)
<1>4. Shows(l, rows) /\ UNCHANGED <<profile, device, puts, edits, saves>>
  BY DEF AddRow, Shows
<1>5. rows \in Seq(Owned)
  BY <1>2
<1> HIDE DEF e, rows
<1>6. FormInv([form EXCEPT !.rows = [@ EXCEPT ![l] = rows]])
  BY <1>3, <1>5, WithRowsKeeps
<1>7. FormInv(form')
  BY <1>4, <1>6 DEF Shows
<1> QED BY <1>4, <1>7, InvParts, InvPartsNext

LEMMA GenerateInv == EditorInv /\ Generate => EditorInv'
<1> SUFFICES ASSUME EditorInv, Generate PROVE EditorInv'
  OBVIOUS
<1>1. PICK n \in 0 .. MaxRows :
        WithRows("ports", [i \in 1 .. n |-> AsEntry([NewRow EXCEPT !.id = i], FALSE, FALSE)])
  BY DEF Generate
<1> DEFINE rows == [i \in 1 .. n |-> AsEntry([NewRow EXCEPT !.id = i], FALSE, FALSE)]
<1>2. n \in Nat /\ \A i \in 1 .. n : i \in RowId
  BY EditorAssumption
<1>3. \A i \in 1 .. n : AsEntry([NewRow EXCEPT !.id = i], FALSE, FALSE) \in Owned
  BY <1>2, NewEntry
<1>4. rows \in [1 .. n -> Owned]
  BY <1>3
<1> HIDE DEF rows
<1>5. rows \in Seq(Owned)
  BY <1>2, <1>4
<1>6. edits < MaxEdits /\ "ports" \in Lists
  BY DEF Generate, Editing, Lists
<1>7. WithRows("ports", rows)
  BY <1>1 DEF rows
<1> QED BY <1>5, <1>6, <1>7, WithRowsInv

RowActions(l, i) == RemoveRow(l, i) \/ SetId(l, i) \/ SetText(l, i) \/ Override(l, i)

LEMMA RowActionsInv ==
    EditorInv /\ (\E l \in Lists : \E i \in DOMAIN form.rows[l] : RowActions(l, i)) => EditorInv'
<1> SUFFICES ASSUME EditorInv, NEW l \in Lists, NEW i \in DOMAIN form.rows[l], RowActions(l, i)
             PROVE  EditorInv'
  OBVIOUS
<1> DEFINE all == form.rows[l]
           e == all[i]
<1>1. all \in Seq(Owned) /\ e \in Owned
  BY RowsOfForm
<1>2. ASSUME NEW new \in Owned PROVE ReplaceAt(all, i, new) \in Seq(Owned)
  BY <1>1, <1>2, Replaced
<1>3. ASSUME RemoveRow(l, i) PROVE EditorInv'
  <2>1. edits < MaxEdits /\ WithRows(l, RemoveAt(all, i))
    BY <1>3 DEF RemoveRow, Editing
  <2>2. RemoveAt(all, i) \in Seq(Owned)
    BY <1>1, Removed
  <2> QED BY <2>1, <2>2, WithRowsInv
<1>4. ASSUME SetId(l, i) PROVE EditorInv'
  <2>1. edits < MaxEdits
    BY <1>4 DEF SetId, Editing
  <2>2. PICK id \in RowId : WithRows(l, ReplaceAt(all, i, [e EXCEPT !.id = id]))
    BY <1>4 DEF SetId
  <2>3. [e EXCEPT !.id = id] \in Owned
    BY <1>1, EditedIs
  <2>4. ReplaceAt(all, i, [e EXCEPT !.id = id]) \in Seq(Owned)
    BY <1>2, <2>3
  <2> QED BY <2>1, <2>2, <2>4, WithRowsInv
<1>5. ASSUME SetText(l, i) PROVE EditorInv'
  <2>1. edits < MaxEdits
    BY <1>5 DEF SetText, Editing
  <2>2. PICK text \in Text : WithRows(l, ReplaceAt(all, i, [e EXCEPT !.text = text]))
    BY <1>5 DEF SetText
  <2>3. [e EXCEPT !.text = text] \in Owned
    BY <1>1, EditedIs
  <2>4. ReplaceAt(all, i, [e EXCEPT !.text = text]) \in Seq(Owned)
    BY <1>2, <2>3
  <2> QED BY <2>1, <2>2, <2>4, WithRowsInv
<1>6. ASSUME Override(l, i) PROVE EditorInv'
  <2> DEFINE r == IF Has(profile.lists[l], e.id) THEN FirstWith(profile.lists[l], e.id) ELSE e
             new == IF e.overridden THEN AsEntry(r, TRUE, FALSE) ELSE [e EXCEPT !.overridden = TRUE]
  <2>1. edits < MaxEdits /\ e.fromProfile /\ WithRows(l, ReplaceAt(all, i, new))
    BY <1>6 DEF Override, Editing
  <2>2. r.id \in RowId /\ r.text \in Text
    <3>1. profile.lists[l] \in Seq(Row)
      BY InvParts, StoredIs
    <3>2. CASE Has(profile.lists[l], e.id)
      <4>1. FirstWith(profile.lists[l], e.id) \in Row
        BY <3>1, <3>2, FirstIs
      <4> QED BY <3>2, <4>1 DEF Row
    <3>3. CASE ~Has(profile.lists[l], e.id)
      BY <1>1, <3>3 DEF Owned, Entry
    <3> QED BY <3>2, <3>3
  <2>3. AsEntry(r, TRUE, FALSE) \in Owned
    <3> HIDE DEF r
    <3> QED BY <2>2 DEF AsEntry, Owned, Entry
  <2>4. [e EXCEPT !.overridden = TRUE] \in Owned
    BY <1>1, <2>1, EditedIs
  <2>5. new \in Owned
    BY <2>3, <2>4
  <2> HIDE DEF new
  <2>6. ReplaceAt(all, i, new) \in Seq(Owned)
    BY <1>2, <2>5
  <2> QED BY <2>1, <2>6, WithRowsInv
<1> QED BY <1>3, <1>4, <1>5, <1>6 DEF RowActions

-----------------------------------------------------------------------------
(* Opening, closing, saving *)

LEMMA OpeningInv == EditorInv /\ (OpenDevice \/ OpenProfile \/ Close) => EditorInv'
<1> SUFFICES ASSUME EditorInv, OpenDevice \/ OpenProfile \/ Close PROVE EditorInv'
  OBVIOUS
<1>1. IsStored(profile) /\ IsStored(device) /\ DOMAIN profile.scalars \subseteq Key
  BY InvParts
<1>2. FormInv(form')
  BY <1>1, OpenedDeviceIs, OpenedProfileIs, ClosedIs DEF OpenDevice, OpenProfile, Close
<1>3. UNCHANGED <<profile, device, puts, edits, saves>>
  BY DEF OpenDevice, OpenProfile, Close
<1> QED BY <1>2, <1>3, InvParts, InvPartsNext

LEMMA SaveInv == EditorInv /\ Save => EditorInv'
<1> SUFFICES ASSUME EditorInv, Save PROVE EditorInv'
  OBVIOUS
<1>1. FormInv(form) /\ form.kind \in {"none", "device", "profile"}
  BY InvParts DEF FormInv, Form
<1>2. IsStored(Body(form)) /\ (form.kind = "profile" => DOMAIN Body(form).scalars \subseteq Key)
  BY <1>1, BodyIs
<1>3. saves' \in 1 .. MaxSaves
  BY InvParts, EditorAssumption DEF Save
<1> DEFINE p == [n |-> saves', kind |-> form.kind, body |-> Body(form)]
<1>4. p.n = saves' /\ p.kind = form.kind /\ p.body = Body(form)
  OBVIOUS
<1>5. puts' = puts \cup {p} /\ form.kind # "none"
  BY DEF Save
<1>6. PutInv(p)
  BY <1>1, <1>2, <1>3, <1>5 DEF PutInv
<1> HIDE DEF p
<1>7. \A q \in puts' : PutInv(q)
  BY <1>5, <1>6, InvParts
<1>8. FormInv(form')
  BY <1>1, <1>3 DEF Save, FormInv, Form
<1>9. saves' \in 0 .. MaxSaves
  BY <1>3
<1> QED BY <1>7, <1>8, <1>9, InvParts, InvPartsNext DEF Save

LEMMA AnsweredInv == EditorInv /\ (\E p \in puts : Saved(p) \/ SaveFailed(p)) => EditorInv'
<1> SUFFICES ASSUME EditorInv, NEW p \in puts, Saved(p) \/ SaveFailed(p) PROVE EditorInv'
  OBVIOUS
<1>1. /\ IsStored(profile) /\ DOMAIN profile.scalars \subseteq Key /\ IsStored(device)
      /\ FormInv(form) /\ \A q \in puts : PutInv(q)
      /\ edits \in 0 .. MaxEdits /\ saves \in 0 .. MaxSaves
  BY InvParts
<1>2. \A q \in puts' : PutInv(q)
  BY <1>1 DEF Saved, SaveFailed
<1>3. IsStored(profile') /\ DOMAIN profile'.scalars \subseteq Key
  <2>1. profile' = profile \/ (p.kind = "profile" /\ profile' = p.body)
    BY DEF Saved, SaveFailed
  <2> QED BY <1>1, <2>1 DEF PutInv
<1>4. IsStored(device')
  <2>1. device' = device \/ device' = p.body
    BY DEF Saved, SaveFailed
  <2> QED BY <1>1, <2>1 DEF PutInv
<1>5. FormInv(form')
  <2>1. form' = form \/ form' = Closed
    BY DEF Saved, SaveFailed
  <2> QED BY <1>1, <2>1, ClosedIs
<1>6. edits' = edits /\ saves' = saves
  BY DEF Saved, SaveFailed
<1> QED BY <1>1, <1>2, <1>3, <1>4, <1>5, <1>6, InvPartsNext

LEMMA ProfileSavedInv == EditorInv /\ ProfileSaved => EditorInv'
<1> SUFFICES ASSUME EditorInv, ProfileSaved PROVE EditorInv'
  OBVIOUS
<1>1. IsStored(profile') /\ DOMAIN profile'.scalars \subseteq Key
  BY EditorAssumption DEF ProfileSaved
<1> QED BY <1>1, InvParts, InvPartsNext DEF ProfileSaved

LEMMA EditorNextInv == EditorInv /\ [EditorNext]_editorVars => EditorInv'
<1> SUFFICES ASSUME EditorInv, [EditorNext]_editorVars PROVE EditorInv'
  OBVIOUS
<1>1. CASE OpenDevice \/ OpenProfile \/ Close
  BY <1>1, OpeningInv
<1>2. CASE Save
  BY <1>2, SaveInv
<1>3. CASE \E p \in puts : Saved(p) \/ SaveFailed(p)
  BY <1>3, AnsweredInv
<1>4. CASE AddVar
  BY <1>4, AddVarInv
<1>5. CASE Discover
  BY <1>5, DiscoverInv
<1>6. CASE Discovered
  BY <1>6, DiscoveredInv
<1>7. CASE DiscoverFailed
  BY <1>7, DiscoverFailedInv
<1>8. CASE \E i \in DOMAIN form.vars : SetVar(i)
  BY <1>8, SetVarInv
<1>9. CASE \E i \in DOMAIN form.vars : RemoveVar(i)
  BY <1>9, RemoveVarInv
<1>10. CASE Generate
  BY <1>10, GenerateInv
<1>11. CASE \E l \in Lists : AddRow(l)
  BY <1>11, AddRowInv
<1>12. CASE \E l \in Lists : \E i \in DOMAIN form.rows[l] : RowActions(l, i)
  BY <1>12, RowActionsInv
<1>13. CASE ProfileSaved
  BY <1>13, ProfileSavedInv
<1>14. CASE UNCHANGED editorVars
  BY <1>14, InvParts, InvPartsNext DEF editorVars
<1> QED BY <1>1, <1>2, <1>3, <1>4, <1>5, <1>6, <1>7, <1>8, <1>9, <1>10, <1>11, <1>12, <1>13, <1>14
        DEF EditorNext, RowActions

LEMMA EditorInvariant == EditorSpec => []EditorInv
BY EditorInitInv, EditorNextInv, PTL DEF EditorSpec

-----------------------------------------------------------------------------
(* The theorems *)

(* The forms of a device and of a profile, what is stored of each and the  *)
(* save in flight have their types: a list is stored as its rows or as a   *)
(* string, never as both (DevicesPage.tsx:430-445, ProfilesPage.tsx:125-   *)
(* 156).                                                                   *)
THEOREM EditorTypeCorrect == EditorSpec => []EditorTypeOK
<1>1. EditorInv => EditorTypeOK
  BY DEF EditorInv
<1> QED BY <1>1, EditorInvariant, PTL

(* Where the rows of a device are those of its profile, or none, a         *)
(* configuration is rendered with every row that the modal shows, and no   *)
(* other: the merge of the modal and the one of renderConfig agree         *)
(* (DevicesPage.tsx:351-369, devices.go:646-652).                          *)
THEOREM UniformListsAreRendered == EditorSpec => []UniformSetRendered
<1>1. EditorInv => UniformSetRendered
  BY UniformRendering DEF EditorInv
<1> QED BY <1>1, EditorInvariant, PTL

(* To open a form and save it changes nothing, whatever became of the      *)
(* profile in between: the rows the modal lays over those of the profile   *)
(* are the ones that handleSave keeps (DevicesPage.tsx:351-369, 430-445;   *)
(* ProfilesPage.tsx:125-156).                                              *)
THEOREM OpeningAndSavingIsNoop == EditorSpec => []OpenSaveIsNoop
<1>1. ASSUME EditorInv PROVE OpenSaveIsNoop
  <2>1. IsStored(profile) /\ IsStored(device) /\ DOMAIN profile.scalars \subseteq Key
    BY <1>1, InvParts
  <2>2. (\A l \in Lists : Distinct(device.lists[l]))
        => Same(DeviceBody(OpenedDevice(device, profile)), device)
    BY <2>1, DeviceNoop
  <2>3. ProfileBody(OpenedProfile(profile)) = profile
    BY <2>1, ProfileNoop
  <2> QED BY <2>2, <2>3 DEF OpenSaveIsNoop
<1> QED BY <1>1, EditorInvariant, PTL

(* What the modal saves, it shows when it is opened again: the same rows   *)
(* with the same boxes checked, and of each name the last variable         *)
(* (DevicesPage.tsx:351-369, 430-445).                                     *)
THEOREM SavedIsShownAgain == EditorSpec => []ReopenShowsTheSame
<1>1. ASSUME EditorInv PROVE ReopenShowsTheSame
  <2> SUFFICES ASSUME form.kind = "device"
               PROVE  /\ \A l \in Lists : Faithful(l) =>
                           ToSet(OpenedDevice(DeviceBody(form), profile).rows[l]) = ToSet(form.rows[l])
                      /\ \A k \in Key \cap Named(form.vars) :
                           FromEntries(OpenedDevice(DeviceBody(form), profile).vars)[k]
                             = FromEntries(form.vars)[k]
    BY DEF ReopenShowsTheSame
  <2> DEFINE lists == [l \in Lists |-> AsRows(Kept(form.rows[l]))]
  <2>1. IsStored(profile) /\ FormInv(form)
    BY <1>1, InvParts
  <2>2. form.vars \in Seq(Pair) /\ \A l \in Lists : form.rows[l] \in Seq(Owned)
    BY <1>1, VarsOfForm, RowsOfForm
  <2>3. lists \in [Lists -> Seq(Row)]
    <3>1. \A l \in Lists : AsRows(Kept(form.rows[l])) \in Seq(Row)
      BY <2>2, OwnedIsEntry, KeptIs, AsRowsAre
    <3> QED BY <3>1
  <2>4. DeviceBody(form) = Packed(form.vars, lists)
    BY DEF DeviceBody
  <2>5. ASSUME NEW k \in Key \cap Named(form.vars)
        PROVE  FromEntries(OpenedDevice(DeviceBody(form), profile).vars)[k]
                 = FromEntries(form.vars)[k]
    <3> HIDE DEF lists
    <3> QED BY <2>1, <2>2, <2>3, <2>4, ReopenedVars
  <2>6. ASSUME NEW l \in Lists, Faithful(l)
        PROVE  ToSet(OpenedDevice(DeviceBody(form), profile).rows[l]) = ToSet(form.rows[l])
    <3>1. OpenedDevice(DeviceBody(form), profile).rows[l]
            = Layered(profile.lists[l], AsRows(Kept(form.rows[l])))
      <4>1. DeviceBody(form).lists[l] = AsRows(Kept(form.rows[l]))
        BY <2>4 DEF Packed
      <4>2. OpenedDevice(DeviceBody(form), profile).rows[l]
              = Layered(profile.lists[l], DeviceBody(form).lists[l])
        BY DEF OpenedDevice, Closed
      <4> QED BY <4>1, <4>2
    <3>2. profile.lists[l] \in Seq(Row)
      BY <2>1, StoredIs
    <3>3. /\ Distinct(form.rows[l]) /\ Distinct(profile.lists[l])
          /\ {e.id : e \in {e \in ToSet(form.rows[l]) : e.fromProfile}}
               = {r.id : r \in ToSet(profile.lists[l])}
          /\ \A e \in {e \in ToSet(form.rows[l]) : e.fromProfile} :
               e.overridden \/ RowOf(e) \in ToSet(profile.lists[l])
      BY <2>6 DEF Faithful, RowOf
    <3> QED BY <2>2, <3>1, <3>2, <3>3, ReopenedRows
  <2> QED BY <2>5, <2>6
<1> QED BY <1>1, EditorInvariant, PTL

(* The answer of a discovery changes no variable that the form of a        *)
(* profile has by then, typed before or while it was on its way            *)
(* (ProfilesPage.tsx:177-195).                                             *)
THEOREM DiscoveryLosesNoInput == EditorSpec => DiscoveryKeepsInput
<1>1. ASSUME EditorInv, Discovered, form.kind = "profile"
      PROVE  \A k \in Named(form.vars) : FromEntries(form'.vars)[k] = FromEntries(form.vars)[k]
  <2> DEFINE new == NewVars(form)
  <2>1. IsStored(profile) /\ FormInv(form) /\ form.vars \in Seq(Pair)
    BY <1>1, InvParts, VarsOfForm
  <2>2. new \in Seq(Pair) /\ new \in Seq((Key \ Named(form.vars)) \X Value)
    BY <1>1, <2>1, NewVarsAre
  <2>3. form'.vars = form.vars \o new
    BY <1>1, <2>1 DEF Discovered, FormInv, Form
  <2> HIDE DEF new
  <2>4. \A i \in DOMAIN new : new[i][1] \notin Named(form.vars)
    BY <2>2
  <2> QED BY <2>1, <2>2, <2>3, <2>4, AddedBehind
<1>2. EditorInv /\ [EditorNext]_editorVars =>
        [Discovered /\ form.kind = "profile" =>
           \A k \in Named(form.vars) : FromEntries(form'.vars)[k] = FromEntries(form.vars)[k]]_editorVars
  BY <1>1
<1> QED BY <1>2, EditorInvariant, PTL DEF EditorSpec, DiscoveryKeepsInput
=============================================================================
