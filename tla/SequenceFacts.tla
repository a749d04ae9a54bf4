---------------------------- MODULE SequenceFacts ----------------------------
(***************************************************************************)
(* Facts about natural numbers, bounded sequences and folds, stated of     *)
(* sets and functions, which the provers can instantiate.                  *)
(***************************************************************************)
EXTENDS SequencesExt, Integers, SequenceTheorems, WellFoundedInduction, TLAPS

(* A set with 0 and the successor of each of its numbers has them all. *)
LEMMA Induction ==
    ASSUME NEW S, 0 \in S, \A n \in Nat : n \in S => n + 1 \in S
    PROVE  Nat \subseteq S
<1> SUFFICES ASSUME NEW k \in Nat, k \notin S PROVE FALSE
  OBVIOUS
<1> DEFINE T == {n \in Nat : n \notin S}
<1>1. PICK x \in T : \A y \in T : ~(<<y, x>> \in OpToRel(<, Nat))
  <2>1. T # {} /\ T \subseteq Nat
    OBVIOUS
  <2> QED BY <2>1, WFMin, NatLessThanWellFounded
<1>2. \A y \in T : ~(y < x)
  BY <1>1 DEF OpToRel
<1>3. x # 0 /\ x - 1 \in Nat /\ x - 1 < x /\ x = (x - 1) + 1
  OBVIOUS
<1>4. x - 1 \in S
  BY <1>2, <1>3
<1> QED BY <1>3, <1>4

(* The same up to a bound. *)
LEMMA InductionUpTo ==
    ASSUME NEW S, NEW b \in Nat, 0 \in S, \A n \in 1 .. b : n - 1 \in S => n \in S
    PROVE  0 .. b \subseteq S
<1> DEFINE T == {n \in Nat : n <= b => n \in S}
<1>1. 0 \in T
  OBVIOUS
<1>2. ASSUME NEW n \in Nat, n \in T PROVE n + 1 \in T
  <2>1. CASE n + 1 <= b
    <3>1. n + 1 \in 1 .. b /\ n \in S /\ (n + 1) - 1 = n
      BY <1>2, <2>1
    <3> QED BY <3>1
  <2>2. CASE ~(n + 1 <= b)
    BY <2>2
  <2> QED BY <2>1, <2>2
<1> HIDE DEF T
<1>3. Nat \subseteq T
  BY <1>1, <1>2, Induction
<1> QED BY <1>3 DEF T

LEMMA BoundedSeqs ==
    ASSUME NEW S, NEW n \in Nat
    PROVE  BoundedSeq(S, n) = {s \in Seq(S) : Len(s) <= n}
<1>1. ASSUME NEW s \in BoundedSeq(S, n) PROVE s \in Seq(S) /\ Len(s) <= n
  <2>1. PICK m \in 0 .. n : s \in [1 .. m -> S]
    BY DEF BoundedSeq, SeqOf
  <2>2. s \in Seq(S) /\ Len(s) = m
    BY <2>1
  <2> QED BY <2>1, <2>2
<1>2. ASSUME NEW s \in Seq(S), Len(s) <= n PROVE s \in BoundedSeq(S, n)
  <2>1. s \in [1 .. Len(s) -> S] /\ Len(s) \in 0 .. n
    BY <1>2
  <2> QED BY <2>1 DEF BoundedSeq, SeqOf
<1> QED BY <1>1, <1>2

LEMMA Joined ==
    ASSUME NEW S, NEW p \in Seq(S), NEW q \in Seq(S)
    PROVE  Range(p \o q) = Range(p) \cup Range(q)
<1>1. /\ p \o q \in Seq(S) /\ DOMAIN (p \o q) = 1 .. Len(p) + Len(q)
      /\ \A i \in 1 .. Len(p) : (p \o q)[i] = p[i]
      /\ \A i \in 1 .. Len(q) : (p \o q)[Len(p) + i] = q[i]
  OBVIOUS
<1>2. ASSUME NEW x \in Range(p \o q) PROVE x \in Range(p) \cup Range(q)
  <2>1. PICK i \in 1 .. Len(p) + Len(q) : x = (p \o q)[i]
    BY <1>1 DEF Range
  <2>2. CASE i <= Len(p)
    <3>1. i \in DOMAIN p
      BY <2>2
    <3> QED BY <2>1, <3>1 DEF Range
  <2>3. CASE ~(i <= Len(p))
    <3>1. i - Len(p) \in DOMAIN q /\ i = Len(p) + (i - Len(p))
      BY <2>3
    <3> QED BY <1>1, <2>1, <3>1 DEF Range
  <2> QED BY <2>2, <2>3
<1>3. Range(p) \subseteq Range(p \o q)
  BY <1>1 DEF Range
<1>4. ASSUME NEW x \in Range(q) PROVE x \in Range(p \o q)
  <2>1. PICK i \in 1 .. Len(q) : x = q[i]
    BY DEF Range
  <2>2. Len(p) + i \in DOMAIN (p \o q) /\ x = (p \o q)[Len(p) + i]
    BY <1>1, <2>1
  <2> QED BY <2>2 DEF Range
<1> QED BY <1>2, <1>3, <1>4

-----------------------------------------------------------------------------
(* Folds *)

(* A set of numbers up to a bound has a largest one. *)
LEMMA MaxUpTo ==
    ASSUME NEW n \in Nat, NEW T \in SUBSET (1 .. n), T # {}
    PROVE  Max(T) \in T /\ \A y \in T : y <= Max(T)
<1> DEFINE S == {k \in Nat : \A U \in SUBSET (1 .. k) : U # {} => \E x \in U : \A y \in U : x >= y}
<1>1. 0 \in S
  <2>1. \A U \in SUBSET (1 .. 0) : U = {}
    OBVIOUS
  <2> QED BY <2>1
<1>2. ASSUME NEW k \in Nat, k \in S PROVE k + 1 \in S
  <2>1. ASSUME NEW U \in SUBSET (1 .. k + 1), U # {}
        PROVE  \E x \in U : \A y \in U : x >= y
    <3>1. CASE k + 1 \in U
      BY <3>1
    <3>2. CASE k + 1 \notin U
      <4>1. U \in SUBSET (1 .. k)
        BY <3>2
      <4> QED BY <1>2, <2>1, <4>1
    <3> QED BY <3>1, <3>2
  <2> QED BY <2>1
<1> HIDE DEF S
<1>3. n \in S
  BY <1>1, <1>2, Induction
<1>4. \E x \in T : \A y \in T : x >= y
  BY <1>3 DEF S
<1>5. Max(T) \in T /\ \A y \in T : Max(T) >= y
  BY <1>4 DEF Max
<1>6. Max(T) \in 1 .. n /\ \A y \in T : y \in 1 .. n
  BY <1>5
<1> QED BY <1>5, <1>6

(* And, if it is not empty, a smallest one. *)
LEMMA MinUpTo ==
    ASSUME NEW n \in Nat, NEW T \in SUBSET (1 .. n), T # {}
    PROVE  Min(T) \in T /\ \A y \in T : Min(T) <= y
<1>1. T \subseteq Nat
  OBVIOUS
<1>2. PICK x \in T : \A y \in T : ~(<<y, x>> \in OpToRel(<, Nat))
  BY <1>1, WFMin, NatLessThanWellFounded
<1>3. \A y \in T : ~(y < x)
  BY <1>1, <1>2 DEF OpToRel
<1>4. \A y \in T : x <= y
  BY <1>1, <1>3
<1> QED BY <1>4 DEF Min

LEMMA MaxOfSegment ==
    ASSUME NEW k \in Nat, k # 0
    PROVE  Max(1 .. k) = k /\ (1 .. k) \ {k} = 1 .. (k - 1)
<1>1. 1 .. k \in SUBSET (1 .. k) /\ k \in 1 .. k
  OBVIOUS
<1>2. Max(1 .. k) \in 1 .. k /\ \A y \in 1 .. k : y <= Max(1 .. k)
  BY <1>1, MaxUpTo
<1>3. Max(1 .. k) = k
  BY <1>1, <1>2
<1> QED BY <1>3

(* What a fold of s chooses, on the sets of the first k places. *)
IsFold(f, k, A, G, base, s) ==
    /\ f \in [SUBSET (1 .. k) -> A]
    /\ \A t \in SUBSET (1 .. k) :
         f[t] = IF t = {} THEN base ELSE G[<<f[t \ {Max(t)}], s[Max(t)]>>]

LEMMA IsFoldNext ==
    ASSUME NEW A, NEW B, NEW G \in [A \X B -> A], NEW base \in A, NEW s \in Seq(B),
           NEW k \in Nat, k + 1 <= Len(s), NEW f, IsFold(f, k, A, G, base, s)
    PROVE  \E g : IsFold(g, k + 1, A, G, base, s)
<1> DEFINE g == [t \in SUBSET (1 .. k + 1) |->
                   IF k + 1 \in t THEN G[<<f[t \ {k + 1}], s[k + 1]>>] ELSE f[t]]
<1>1. k + 1 \in 1 .. Len(s) /\ s[k + 1] \in B
  OBVIOUS
<1>2. f \in [SUBSET (1 .. k) -> A]
  BY DEF IsFold
<1>3. \A t \in SUBSET (1 .. k) : t # {} => f[t] = G[<<f[t \ {Max(t)}], s[Max(t)]>>]
  BY DEF IsFold
<1>4. f[{}] = base
  BY DEF IsFold
<1>5. ASSUME NEW t \in SUBSET (1 .. k + 1), k + 1 \notin t
      PROVE  t \in SUBSET (1 .. k) /\ g[t] = f[t] /\ f[t] \in A
  <2>1. \A x \in t : x \in 1 .. k + 1 /\ x # k + 1
    BY <1>5
  <2>2. t \in SUBSET (1 .. k)
    BY <2>1
  <2>3. g[t] = f[t]
    BY <1>5
  <2> HIDE DEF g
  <2> QED BY <1>2, <2>2, <2>3
<1>6. ASSUME NEW t \in SUBSET (1 .. k + 1), k + 1 \in t
      PROVE  /\ g[t] = G[<<f[t \ {k + 1}], s[k + 1]>>]
             /\ g[t] \in A
             /\ Max(t) = k + 1
  <2>1. t \ {k + 1} \in SUBSET (1 .. k)
    OBVIOUS
  <2>2. g[t] = G[<<f[t \ {k + 1}], s[k + 1]>>]
    BY <1>6
  <2> HIDE DEF g
  <2>3. f[t \ {k + 1}] \in A
    BY <1>2, <2>1
  <2>4. <<f[t \ {k + 1}], s[k + 1]>> \in A \X B
    BY <1>1, <2>3
  <2>5. G[<<f[t \ {k + 1}], s[k + 1]>>] \in A
    BY <2>4
  <2>6. Max(t) \in t /\ k + 1 <= Max(t)
    <3>1. k + 1 \in Nat
      OBVIOUS
    <3> QED BY <1>6, <3>1, MaxUpTo
  <2>7. Max(t) \in 1 .. k + 1
    BY <2>6
  <2>8. Max(t) = k + 1
    BY <2>6, <2>7
  <2> QED BY <2>2, <2>5, <2>8
<1>7. g \in [SUBSET (1 .. k + 1) -> A]
  <2>1. \A t \in SUBSET (1 .. k + 1) : g[t] \in A
    <3> HIDE DEF g
    <3> QED BY <1>5, <1>6
  <2>2. g = [t \in SUBSET (1 .. k + 1) |-> g[t]]
    OBVIOUS
  <2> HIDE DEF g
  <2> QED BY <2>1, <2>2
<1> HIDE DEF g
<1>8. ASSUME NEW t \in SUBSET (1 .. k + 1)
      PROVE  g[t] = IF t = {} THEN base ELSE G[<<g[t \ {Max(t)}], s[Max(t)]>>]
  <2>1. CASE k + 1 \in t
    <3>1. t \ {k + 1} \in SUBSET (1 .. k + 1) /\ k + 1 \notin t \ {k + 1}
      OBVIOUS
    <3>2. g[t \ {k + 1}] = f[t \ {k + 1}]
      BY <1>5, <3>1
    <3>3. g[t] = G[<<f[t \ {k + 1}], s[k + 1]>>] /\ Max(t) = k + 1
      BY <1>6, <2>1
    <3> QED BY <2>1, <3>2, <3>3
  <2>2. CASE k + 1 \notin t /\ t # {}
    <3>1. t \in SUBSET (1 .. k) /\ g[t] = f[t]
      BY <1>5, <2>2
    <3>2. t \ {Max(t)} \in SUBSET (1 .. k + 1) /\ k + 1 \notin t \ {Max(t)}
      BY <2>2
    <3>3. g[t \ {Max(t)}] = f[t \ {Max(t)}]
      BY <1>5, <3>2
    <3> QED BY <1>3, <2>2, <3>1, <3>3
  <2>3. CASE t = {}
    BY <1>4, <1>5, <2>3
  <2> QED BY <2>1, <2>2, <2>3
<1> QED BY <1>7, <1>8 DEF IsFold

(* The function that a fold of step G over s chooses exists. *)
LEMMA FoldExists ==
    ASSUME NEW A, NEW B, NEW G \in [A \X B -> A], NEW base \in A, NEW s \in Seq(B)
    PROVE  \E f : IsFold(f, Len(s), A, G, base, s)
<1> DEFINE S == {k \in Nat : k <= Len(s) => \E f : IsFold(f, k, A, G, base, s)}
<1>1. 0 \in S
  <2> DEFINE f == [t \in SUBSET (1 .. 0) |-> base]
  <2>1. \A t \in SUBSET (1 .. 0) : t = {} /\ f[t] = base
    OBVIOUS
  <2>2. IsFold(f, 0, A, G, base, s)
    BY <2>1 DEF IsFold
  <2> QED BY <2>2
<1>2. ASSUME NEW k \in Nat, k \in S PROVE k + 1 \in S
  <2>1. ASSUME k + 1 <= Len(s) PROVE \E f : IsFold(f, k + 1, A, G, base, s)
    <3>1. k <= Len(s)
      BY <2>1
    <3>2. PICK f : IsFold(f, k, A, G, base, s)
      BY <1>2, <3>1
    <3> QED BY <2>1, <3>2, IsFoldNext
  <2> QED BY <2>1
<1>3. Nat \subseteq S
  <2> HIDE DEF S
  <2> QED BY <1>1, <1>2, Induction
<1>4. Len(s) \in Nat /\ Len(s) <= Len(s)
  OBVIOUS
<1> QED BY <1>3, <1>4

(* The steps of a fold, from left to right. *)
Steps(h, A, G, base, s) ==
    /\ h[0] = base /\ h[Len(s)] \in A
    /\ \A k \in 1 .. Len(s) :
         /\ h[k - 1] \in A /\ h[k] \in A
         /\ h[k] = G[<<h[k - 1], s[k]>>]

LEMMA IsFoldSteps ==
    ASSUME NEW A, NEW B, NEW G \in [A \X B -> A], NEW base \in A, NEW s \in Seq(B),
           NEW f, IsFold(f, Len(s), A, G, base, s)
    PROVE  Steps([k \in 0 .. Len(s) |-> f[1 .. k]], A, G, base, s)
<1> DEFINE h == [k \in 0 .. Len(s) |-> f[1 .. k]]
<1>1. \A k \in 0 .. Len(s) : 1 .. k \in SUBSET (1 .. Len(s))
  OBVIOUS
<1>2. h \in [0 .. Len(s) -> A]
  BY <1>1 DEF IsFold
<1>3. h[0] = base
  <2>1. 1 .. 0 = {} /\ {} \in SUBSET (1 .. Len(s)) /\ h[0] = f[1 .. 0]
    OBVIOUS
  <2> QED BY <2>1 DEF IsFold
<1>4. ASSUME NEW k \in 1 .. Len(s) PROVE h[k] = G[<<h[k - 1], s[k]>>]
  <2>1. Max(1 .. k) = k /\ (1 .. k) \ {k} = 1 .. (k - 1)
    BY MaxOfSegment
  <2>2. 1 .. k \in SUBSET (1 .. Len(s)) /\ 1 .. k # {}
    <3>1. k \in 1 .. k /\ \A x \in 1 .. k : x \in 1 .. Len(s)
      OBVIOUS
    <3> QED BY <3>1
  <2>3. f[1 .. k] = G[<<f[1 .. (k - 1)], s[k]>>]
    BY <2>1, <2>2 DEF IsFold
  <2>4. h[k] = f[1 .. k] /\ h[k - 1] = f[1 .. (k - 1)]
    OBVIOUS
  <2> QED BY <2>3, <2>4
<1> HIDE DEF h
<1>5. Len(s) \in 0 .. Len(s) /\ \A k \in 1 .. Len(s) : k - 1 \in 0 .. Len(s) /\ k \in 0 .. Len(s)
  OBVIOUS
<1>6. Steps(h, A, G, base, s)
  BY <1>2, <1>3, <1>4, <1>5 DEF Steps
<1> QED BY <1>6 DEF h

(* Two functions that agree at the start and in each step agree. *)
LEMMA StepsAgree ==
    ASSUME NEW n \in Nat, NEW h, NEW g, h[0] = g[0],
           \A k \in 1 .. n : h[k - 1] = g[k - 1] => h[k] = g[k]
    PROVE  \A k \in 0 .. n : h[k] = g[k]
<1> DEFINE S == {k \in 0 .. n : h[k] = g[k]}
<1>1. 0 \in S
  OBVIOUS
<1>2. \A k \in 1 .. n : k - 1 \in S => k \in S
  OBVIOUS
<1> HIDE DEF S
<1>3. 0 .. n \subseteq S
  BY <1>1, <1>2, InductionUpTo
<1> QED BY <1>3 DEF S

LEMMA Places ==
    ASSUME NEW B, NEW s \in Seq(B), NEW t \in SUBSET (DOMAIN s), t # {}
    PROVE  /\ Max(t) \in DOMAIN s /\ s[Max(t)] \in B
           /\ t \ {Max(t)} \in SUBSET (DOMAIN s)
<1>1. Len(s) \in Nat /\ t \in SUBSET (1 .. Len(s))
  OBVIOUS
<1>2. Max(t) \in t
  BY <1>1, MaxUpTo
<1> QED BY <1>2

(* The same of the sets of places of s, with the types of what is read. *)
Folds(f, A, B, G, base, s) ==
    /\ f \in [SUBSET (DOMAIN s) -> A] /\ f[{}] = base
    /\ \A t \in SUBSET (DOMAIN s) : t # {} =>
         /\ f[t \ {Max(t)}] \in A /\ s[Max(t)] \in B
         /\ f[t] = G[<<f[t \ {Max(t)}], s[Max(t)]>>]

LEMMA FoldsExists ==
    ASSUME NEW A, NEW B, NEW G \in [A \X B -> A], NEW base \in A, NEW s \in Seq(B)
    PROVE  \E f : Folds(f, A, B, G, base, s)
<1>1. PICK f : IsFold(f, Len(s), A, G, base, s)
  BY FoldExists
<1>2. DOMAIN s = 1 .. Len(s)
  OBVIOUS
<1>3. ASSUME NEW t \in SUBSET (DOMAIN s), t # {}
      PROVE  /\ f[t \ {Max(t)}] \in A /\ s[Max(t)] \in B
             /\ f[t] = G[<<f[t \ {Max(t)}], s[Max(t)]>>]
  <2>1. t \ {Max(t)} \in SUBSET (1 .. Len(s)) /\ t \in SUBSET (1 .. Len(s)) /\ s[Max(t)] \in B
    BY <1>2, <1>3, Places
  <2> QED BY <1>1, <1>3, <2>1 DEF IsFold
<1>4. f \in [SUBSET (DOMAIN s) -> A] /\ f[{}] = base
  BY <1>1, <1>2 DEF IsFold
<1> QED BY <1>3, <1>4 DEF Folds

(* A choice that meets the equation of a fold ends as its steps do. *)
Meets(e, A, G, base, s) ==
    /\ e[{}] = base
    /\ \A t \in SUBSET (DOMAIN s) :
         t # {} /\ e[t \ {Max(t)}] \in A => e[t] = G[<<e[t \ {Max(t)}], s[Max(t)]>>]

Ends(v, A, G, base, s) == \E h : Steps(h, A, G, base, s) /\ v = h[Len(s)]

LEMMA FoldEnds ==
    ASSUME NEW A, NEW B, NEW G \in [A \X B -> A], NEW base \in A, NEW s \in Seq(B),
           NEW e, Meets(e, A, G, base, s)
    PROVE  Ends(e[DOMAIN s], A, G, base, s)
<1>1. PICK f : IsFold(f, Len(s), A, G, base, s)
  BY FoldExists
<1> DEFINE h == [k \in 0 .. Len(s) |-> f[1 .. k]]
           g == [k \in 0 .. Len(s) |-> e[1 .. k]]
<1>2. Steps(h, A, G, base, s)
  BY <1>1, IsFoldSteps
<1>3. h[0] = g[0]
  <2>1. 1 .. 0 = {} /\ 0 \in 0 .. Len(s)
    OBVIOUS
  <2>2. g[0] = e[{}]
    BY <2>1
  <2> HIDE DEF h, g
  <2> QED BY <1>2, <2>2 DEF Steps, Meets
<1>4. ASSUME NEW k \in 1 .. Len(s), h[k - 1] = g[k - 1] PROVE h[k] = g[k]
  <2>1. Max(1 .. k) = k /\ (1 .. k) \ {k} = 1 .. (k - 1)
    BY MaxOfSegment
  <2>2. 1 .. k \in SUBSET (DOMAIN s) /\ 1 .. k # {}
    <3>1. k \in 1 .. k /\ \A x \in 1 .. k : x \in DOMAIN s
      OBVIOUS
    <3> QED BY <3>1
  <2>3. k \in 0 .. Len(s) /\ k - 1 \in 0 .. Len(s)
    OBVIOUS
  <2>4. g[k] = e[1 .. k] /\ g[k - 1] = e[1 .. (k - 1)]
    BY <2>3
  <2>5. h[k - 1] \in A /\ h[k] = G[<<h[k - 1], s[k]>>]
    <3> HIDE DEF h
    <3> QED BY <1>2, <2>3 DEF Steps
  <2>6. e[1 .. (k - 1)] = h[k - 1]
    BY <1>4, <2>4
  <2> HIDE DEF h, g
  <2>7. e[1 .. k] = G[<<e[1 .. (k - 1)], s[k]>>]
    BY <2>1, <2>2, <2>5, <2>6 DEF Meets
  <2> QED BY <2>4, <2>5, <2>6, <2>7
<1> HIDE DEF h, g
<1>5. \A k \in 0 .. Len(s) : h[k] = g[k]
  <2>1. Len(s) \in Nat
    OBVIOUS
  <2> QED BY <1>3, <1>4, <2>1, StepsAgree
<1>6. DOMAIN s = 1 .. Len(s) /\ Len(s) \in 0 .. Len(s)
  OBVIOUS
<1>7. g[Len(s)] = e[DOMAIN s]
  BY <1>6 DEF g
<1> QED BY <1>2, <1>5, <1>6, <1>7 DEF Ends
=============================================================================
