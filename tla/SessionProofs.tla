---------------------------- MODULE SessionProofs ----------------------------
(***************************************************************************)
(* The safety properties of Session, for every number of tabs, tokens,     *)
(* states and calls, from SessionInv; of the bridges of Terminal, for      *)
(* every number of them; and of MCSession, which has both.                 *)
(***************************************************************************)
EXTENDS MCSession, SequenceFacts

(* A tab that waits at the provider, or for the callback, has a state.  It *)
(* is needed because a callback counts the session it opens at that state. *)
AwayWithState == \A t \in Tab : tab[t].view = "away" => tab[t].nonce \in Nonce

SessionInv == SessionTypeOK /\ AwayWithState /\ StateUsedOnce

LEMMA SessionInitInv == SessionInit => SessionInv
  <1> SUFFICES ASSUME SessionInit PROVE SessionInv
    OBVIOUS
  <1>1. [view |-> "closed", authed |-> FALSE, nonce |-> NULL] \in TabState
    BY DEF TabState, Views
  <1>2. SessionTypeOK
    BY <1>1 DEF SessionInit, SessionTypeOK
  <1>3. AwayWithState
    BY DEF SessionInit, AwayWithState
  <1>4. StateUsedOnce
    BY DEF SessionInit, StateUsedOnce
  <1> QED
    BY <1>2, <1>3, <1>4 DEF SessionInv

(* What is sent is a call. *)
LEMMA SentCalls ==
    ASSUME SessionTypeOK, NEW t \in Tab, NEW op \in CallOps
    PROVE  [calls EXCEPT ![t] = Sent(t, op)] \in [Tab -> SUBSET Call]
  <1>1. [op |-> op, cred |-> Credential] \in Call
    BY DEF SessionTypeOK, Credential, Call
  <1> QED
    BY <1>1 DEF SessionTypeOK, Sent

(* Calls that end leave calls. *)
LEMMA EndedCalls ==
    ASSUME SessionTypeOK, NEW t \in Tab
    PROVE  /\ [calls EXCEPT ![t] = {}] \in [Tab -> SUBSET Call]
           /\ \A c : [calls EXCEPT ![t] = @ \ {c}] \in [Tab -> SUBSET Call]
  BY DEF SessionTypeOK

(* A step of tab t that leaves the states alone keeps the invariant, if    *)
(* the tab keeps its type and is not away without a state.                 *)
LEMMA TabStep ==
    ASSUME SessionInv, NEW t \in Tab, NEW s \in TabState,
           s.view = "away" => s.nonce \in Nonce,
           tab' = [tab EXCEPT ![t] = s],
           calls' \in [Tab -> SUBSET Call],
           stored' \in Cred \cup {NULL}, cookie' \in Cred \cup {NULL}, valid' \subseteq Cred,
           UNCHANGED <<states, redeemed>>
    PROVE  SessionInv'
  <1>1. SessionTypeOK'
    BY DEF SessionInv, SessionTypeOK
  <1>2. ASSUME NEW u \in Tab, tab'[u].view = "away" PROVE tab'[u].nonce \in Nonce
    BY <1>2 DEF SessionInv, SessionTypeOK, AwayWithState
  <1>3. StateUsedOnce'
    BY DEF SessionInv, StateUsedOnce
  <1> QED
    BY <1>1, <1>2, <1>3 DEF SessionInv, AwayWithState

(* The same when no tab changes. *)
LEMMA StillStep ==
    ASSUME SessionInv,
           calls' \in [Tab -> SUBSET Call],
           stored' \in Cred \cup {NULL}, cookie' \in Cred \cup {NULL}, valid' \subseteq Cred,
           UNCHANGED <<tab, states, redeemed>>
    PROVE  SessionInv'
  BY DEF SessionInv, SessionTypeOK, StateUsedOnce, AwayWithState

(* What becomes of the record of a tab. *)
LEMMA TabRecords ==
    ASSUME SessionInv, NEW t \in Tab
    PROVE  /\ tab[t] \in TabState
           /\ \A v \in Views : v # "away" \/ tab[t].nonce \in Nonce =>
                /\ Leaving(t, v) \in TabState
                /\ Leaving(t, v).view = "away" => Leaving(t, v).nonce \in Nonce
           /\ \A a \in BOOLEAN :
                /\ Believing(t, a) \in TabState
                /\ Believing(t, a).view = "away" => Believing(t, a).nonce \in Nonce
           /\ \A a \in BOOLEAN, v \in Views \ {"away"} :
                /\ [tab[t] EXCEPT !.authed = a, !.view = v] \in TabState
                /\ [tab[t] EXCEPT !.authed = a, !.view = v].view # "away"
           /\ \A a \in BOOLEAN :
                /\ [tab[t] EXCEPT !.authed = a] \in TabState
                /\ [tab[t] EXCEPT !.authed = a].view = "away"
                     => [tab[t] EXCEPT !.authed = a].nonce \in Nonce
  <1>1. tab[t] \in TabState
    BY DEF SessionInv, SessionTypeOK
  <1>2. tab[t].view = "away" => tab[t].nonce \in Nonce
    BY DEF SessionInv, AwayWithState
  <1>3. \A a \in BOOLEAN : Guarded(tab[t].view, a) \in Views
                             /\ (Guarded(tab[t].view, a) = "away" => tab[t].view = "away")
    BY <1>1 DEF Guarded, TabState, Views
  <1>4. \A v \in Views : v # "away" \/ tab[t].nonce \in Nonce =>
                /\ Leaving(t, v) \in TabState
                /\ Leaving(t, v).view = "away" => Leaving(t, v).nonce \in Nonce
    BY <1>1 DEF Leaving, TabState
  <1>5. \A a \in BOOLEAN :
                /\ Believing(t, a) \in TabState
                /\ Believing(t, a).view = "away" => Believing(t, a).nonce \in Nonce
    BY <1>1, <1>2, <1>3 DEF Believing, TabState
  <1>6. \A a \in BOOLEAN, v \in Views \ {"away"} :
                /\ [tab[t] EXCEPT !.authed = a, !.view = v] \in TabState
                /\ [tab[t] EXCEPT !.authed = a, !.view = v].view # "away"
    BY <1>1 DEF TabState
  <1>7. \A a \in BOOLEAN :
                /\ [tab[t] EXCEPT !.authed = a] \in TabState
                /\ [tab[t] EXCEPT !.authed = a].view = "away"
                     => [tab[t] EXCEPT !.authed = a].nonce \in Nonce
    BY <1>1, <1>2 DEF TabState
  <1> QED
    BY <1>1, <1>4, <1>5, <1>6, <1>7

-----------------------------------------------------------------------------
(* What a user does, and what a page does by itself *)

LEMMA VisitInv == ASSUME SessionInv, NEW t \in Tab, Visit(t) PROVE SessionInv'
  <1>1. PICK v \in {"to login", "to app"} : tab' = [tab EXCEPT ![t] = Leaving(t, v)]
    BY DEF Visit
  <1>2. calls' \in [Tab -> SUBSET Call]
    BY EndedCalls DEF Visit, SessionInv
  <1>3. Leaving(t, v) \in TabState /\ (Leaving(t, v).view = "away" => Leaving(t, v).nonce \in Nonce)
    BY TabRecords DEF Views
  <1> QED
    BY <1>1, <1>2, <1>3, TabStep DEF Visit, SessionInv, SessionTypeOK

LEMMA SendInv ==
    ASSUME SessionInv, NEW t \in Tab,
           \/ Submit(t, "login") \/ Submit(t, "mistyped")
           \/ LogOut(t) \/ MistypePassword(t) \/ Poll(t)
    PROVE  SessionInv'
  <1>1. calls' \in [Tab -> SUBSET Call]
    BY SentCalls DEF Submit, LogOut, MistypePassword, Poll, SessionInv, CallOps
  <1> QED
    BY <1>1, StillStep DEF Submit, LogOut, MistypePassword, Poll, SessionInv, SessionTypeOK

LEMMA GoBackInv == ASSUME SessionInv, NEW t \in Tab, GoBack(t) PROVE SessionInv'
  <1>1. tab[t].nonce \in Nonce
    BY DEF GoBack, SessionInv, SessionTypeOK, TabState
  <1>2. Leaving(t, "away") \in TabState
        /\ (Leaving(t, "away").view = "away" => Leaving(t, "away").nonce \in Nonce)
    BY <1>1, TabRecords DEF Views
  <1>3. calls' \in [Tab -> SUBSET Call]
    BY EndedCalls DEF GoBack, SessionInv
  <1> QED
    BY <1>2, <1>3, TabStep DEF GoBack, SessionInv, SessionTypeOK

LEMMA MountInv == ASSUME SessionInv, NEW t \in Tab, Mount(t) PROVE SessionInv'
  <1> DEFINE v == IF tab[t].view = "to login" THEN "login" ELSE Guarded("app", stored # NULL)
             a == stored # NULL
             s == [tab[t] EXCEPT !.authed = a, !.view = v]
  <1>1. v \in Views \ {"away"}
    BY DEF Guarded, Views
  <1>2. a \in BOOLEAN
    OBVIOUS
  <1>3. s \in TabState /\ s.view # "away"
    BY <1>1, <1>2, TabRecords
  <1>4. tab' = [tab EXCEPT ![t] = s]
    BY DEF Mount, SessionInv, SessionTypeOK
  <1>5. calls' \in [Tab -> SUBSET Call]
    BY SentCalls DEF Mount, SessionInv, CallOps
  <1> HIDE DEF s
  <1> QED
    BY <1>3, <1>4, <1>5, TabStep DEF Mount, SessionInv, SessionTypeOK

-----------------------------------------------------------------------------
(* Answers *)

LEMMA AnswerInv ==
    ASSUME SessionInv, NEW t \in Tab, NEW c \in calls[t], Answer(t, c)
    PROVE  SessionInv'
  <1>1. [calls EXCEPT ![t] = {}] \in [Tab -> SUBSET Call]
        /\ [calls EXCEPT ![t] = @ \ {c}] \in [Tab -> SUBSET Call]
    BY EndedCalls DEF SessionInv
  <1>2. stored \in Cred \cup {NULL} /\ cookie \in Cred \cup {NULL} /\ valid \subseteq Cred
        /\ tab[t] \in TabState /\ tab[t].authed \in BOOLEAN
    BY DEF SessionInv, SessionTypeOK, TabState
  <1>3. CASE Unauthorized(t, c)
    <2>1. CASE tab[t].view = "login"
      <3> DEFINE a == tab[t].authed /\ c.op # "me"
                 s == [tab[t] EXCEPT !.authed = a]
      <3>1. a \in BOOLEAN
        OBVIOUS
      <3>2. s \in TabState /\ (s.view = "away" => s.nonce \in Nonce)
        BY <3>1, TabRecords
      <3>3. tab' = [tab EXCEPT ![t] = s]
        BY <1>3, <2>1 DEF Unauthorized
      <3> HIDE DEF s
      <3> QED
        BY <1>1, <1>2, <1>3, <2>1, <3>2, <3>3, TabStep DEF Unauthorized
    <2>2. CASE tab[t].view # "login"
      <3>1. Leaving(t, "to login") \in TabState
            /\ (Leaving(t, "to login").view = "away" => Leaving(t, "to login").nonce \in Nonce)
        BY TabRecords DEF Views
      <3> QED
        BY <1>1, <1>2, <1>3, <2>2, <3>1, TabStep DEF Unauthorized
    <2> QED
      BY <2>1, <2>2
  <1>4. CASE Granted(t, c)
    <2> DEFINE a == tab[t].authed \/ c.op = "me"
               s == [tab[t] EXCEPT !.authed = a]
    <2>1. a \in BOOLEAN
      OBVIOUS
    <2>2. s \in TabState /\ (s.view = "away" => s.nonce \in Nonce)
      BY <2>1, TabRecords
    <2>3. tab' = [tab EXCEPT ![t] = s]
      BY <1>4 DEF Granted
    <2> HIDE DEF s
    <2> QED
      BY <1>1, <1>2, <1>4, <2>2, <2>3, TabStep DEF Granted
  <1>5. CASE SignedIn(t, c)
    <2> DEFINE s == [tab[t] EXCEPT !.authed = TRUE, !.view = "app"]
    <2>1. s \in TabState /\ s.view # "away"
      BY TabRecords DEF Views
    <2>2. tab' = [tab EXCEPT ![t] = s]
      BY <1>5 DEF SignedIn, SessionInv, SessionTypeOK
    <2>3. stored' \in Cred /\ valid' \subseteq Cred
      BY <1>2, <1>5 DEF SignedIn
    <2> HIDE DEF s
    <2> QED
      BY <1>1, <1>2, <1>5, <2>1, <2>2, <2>3, TabStep DEF SignedIn
  <1>6. CASE LoggedOut(t, c)
    <2> DEFINE s == [tab[t] EXCEPT !.authed = FALSE, !.view = "login"]
    <2>1. s \in TabState /\ s.view # "away"
      BY TabRecords DEF Views
    <2>2. tab' = [tab EXCEPT ![t] = s]
      BY <1>6 DEF LoggedOut, SessionInv, SessionTypeOK
    <2> HIDE DEF s
    <2> QED
      BY <1>1, <1>2, <1>6, <2>1, <2>2, TabStep DEF LoggedOut
  <1>7. CASE Failed(t, c)
    <2>1. CASE c.op \in {"me", "logout"}
      <3>1. Believing(t, FALSE) \in TabState
            /\ (Believing(t, FALSE).view = "away" => Believing(t, FALSE).nonce \in Nonce)
        BY TabRecords
      <3> QED
        BY <1>1, <1>2, <1>7, <2>1, <3>1, TabStep DEF Failed
    <2>2. CASE c.op \notin {"me", "logout"}
      BY <1>1, <1>2, <1>7, <2>2, StillStep DEF Failed
    <2> QED
      BY <2>1, <2>2
  <1> QED
    BY <1>3, <1>4, <1>5, <1>6, <1>7 DEF Answer

-----------------------------------------------------------------------------
(* OIDC: a state that was redeemed is gone, and what is gone stays gone. *)

LEMMA DepartInv == ASSUME SessionInv, NEW t \in Tab, Depart(t) PROVE SessionInv'
  <1>1. PICK n \in Nonce :
            /\ states[n] = "unused"
            /\ states' = [states EXCEPT ![n] = "pending"]
            /\ tab' = [tab EXCEPT ![t] = [view |-> "away", authed |-> FALSE, nonce |-> n]]
    BY DEF Depart
  <1>2. calls' \in [Tab -> SUBSET Call]
    BY EndedCalls DEF Depart, SessionInv
  <1>3. [view |-> "away", authed |-> FALSE, nonce |-> n] \in TabState
    BY DEF TabState, Views
  <1>4. SessionTypeOK'
    BY <1>1, <1>2, <1>3 DEF Depart, SessionInv, SessionTypeOK
  <1>5. AwayWithState'
    BY <1>1 DEF SessionInv, SessionTypeOK, AwayWithState
  <1>6. StateUsedOnce'
    BY <1>1 DEF Depart, SessionInv, SessionTypeOK, StateUsedOnce
  <1> QED
    BY <1>4, <1>5, <1>6 DEF SessionInv

LEMMA TakenStates ==
    ASSUME SessionInv, NEW n \in Nonce
    PROVE  /\ Taken(n) \in [Nonce -> {"unused", "pending", "lapsed", "gone"}]
           /\ \A m \in Nonce : states[m] = "gone" => Taken(n)[m] = "gone"
           /\ Accepted(n) => Taken(n)[n] = "gone"
  BY DEF Taken, Accepted, SessionInv, SessionTypeOK

LEMMA CallbackInv == ASSUME SessionInv, NEW t \in Tab, Callback(t) PROVE SessionInv'
  <1> DEFINE n == tab[t].nonce
  <1>1. n \in Nonce
    BY DEF Callback, SessionInv, AwayWithState
  <1>2. /\ Accepted(n) /\ states' = Taken(n)
        /\ redeemed' = [redeemed EXCEPT ![n] = @ + 1]
        /\ tab' = [tab EXCEPT ![t] = Leaving(t, "to app")]
        /\ UNCHANGED <<stored, calls>>
        /\ cookie' \in Cred /\ valid' \subseteq Cred
    BY DEF Callback, SessionInv, SessionTypeOK
  <1>3. Leaving(t, "to app") \in TabState /\ Leaving(t, "to app").view = "to app"
    <2>1. tab[t] \in TabState
      BY TabRecords
    <2> QED
      BY <2>1 DEF Views, Leaving, TabState
  <1> HIDE DEF n
  <1>4. redeemed[n] = 0
    <2>1. redeemed[n] \in Nat /\ redeemed[n] <= 1
      BY <1>1 DEF SessionInv, SessionTypeOK, StateUsedOnce
    <2>2. redeemed[n] # 1
      BY <1>1, <1>2 DEF Accepted, SessionInv, StateUsedOnce
    <2> QED
      BY <2>1, <2>2
  <1>5. SessionTypeOK'
    <2>1. redeemed' \in [Nonce -> Nat]
      <3>1. redeemed' = [redeemed EXCEPT ![n] = @ + 1]
        BY <1>2
      <3>2. redeemed \in [Nonce -> Nat]
        BY DEF SessionInv, SessionTypeOK
      <3> QED
        BY <1>1, <3>1, <3>2
    <2>2. states' \in [Nonce -> {"unused", "pending", "lapsed", "gone"}]
      BY <1>1, <1>2, TakenStates
    <2>3. tab' \in [Tab -> TabState]
      BY <1>2, <1>3 DEF SessionInv, SessionTypeOK
    <2> QED
      BY <1>2, <2>1, <2>2, <2>3 DEF SessionInv, SessionTypeOK
  <1>6. AwayWithState'
    BY <1>2, <1>3 DEF SessionInv, SessionTypeOK, AwayWithState
  <1>7. ASSUME NEW m \in Nonce PROVE redeemed'[m] <= 1 /\ (redeemed'[m] = 1 => states'[m] = "gone")
    <2>1. CASE m = n
      <3>1. redeemed'[n] = 1
        <4>1. redeemed' = [redeemed EXCEPT ![n] = @ + 1]
          BY <1>2
        <4>2. redeemed \in [Nonce -> Nat]
          BY DEF SessionInv, SessionTypeOK
        <4> QED
          BY <1>1, <1>4, <4>1, <4>2
      <3>2. states'[n] = "gone"
        BY <1>1, <1>2, TakenStates
      <3> QED
        BY <2>1, <3>1, <3>2
    <2>2. CASE m # n
      BY <1>1, <1>2, <2>2, TakenStates DEF SessionInv, SessionTypeOK, StateUsedOnce
    <2> QED
      BY <2>1, <2>2
  <1> QED
    BY <1>5, <1>6, <1>7 DEF SessionInv, StateUsedOnce

LEMMA CallbackRefusedInv ==
    ASSUME SessionInv, NEW t \in Tab, CallbackRefused(t) PROVE SessionInv'
  <1> DEFINE n == tab[t].nonce
             s == [tab[t] EXCEPT !.view = "error"]
  <1>1. n \in Nonce
    BY DEF CallbackRefused, SessionInv, AwayWithState
  <1>2. s \in TabState /\ s.view = "error"
    BY DEF SessionInv, SessionTypeOK, TabState, Views
  <1>3. tab' = [tab EXCEPT ![t] = s] /\ states' = Taken(n)
        /\ UNCHANGED <<stored, cookie, valid, calls, redeemed>>
    BY DEF CallbackRefused
  <1> HIDE DEF n, s
  <1>4. SessionTypeOK'
    BY <1>1, <1>2, <1>3, TakenStates DEF SessionInv, SessionTypeOK
  <1>5. AwayWithState'
    BY <1>2, <1>3 DEF SessionInv, SessionTypeOK, AwayWithState
  <1>6. StateUsedOnce'
    BY <1>1, <1>3, TakenStates DEF SessionInv, StateUsedOnce
  <1> QED
    BY <1>4, <1>5, <1>6 DEF SessionInv

(* A state grows old, and states that are old are removed. *)
LEMMA AgeInv ==
    ASSUME SessionInv, (\E n \in Nonce : Lapse(n)) \/ CleanStates
    PROVE  SessionInv'
  <1>1. /\ states' \in [Nonce -> {"unused", "pending", "lapsed", "gone"}]
        /\ \A m \in Nonce : states[m] = "gone" => states'[m] = "gone"
        /\ UNCHANGED <<stored, cookie, valid, tab, calls, redeemed>>
    BY DEF Lapse, CleanStates, SessionInv, SessionTypeOK
  <1> QED
    BY <1>1 DEF SessionInv, SessionTypeOK, AwayWithState, StateUsedOnce

LEMMA SessionNextInv == SessionInv /\ [SessionNext]_sessionVars => SessionInv'
  <1> SUFFICES ASSUME SessionInv, [SessionNext]_sessionVars PROVE SessionInv'
    OBVIOUS
  <1>1. ASSUME NEW t \in Tab,
               \/ Visit(t) \/ Submit(t, "login") \/ Submit(t, "mistyped") \/ LogOut(t)
               \/ MistypePassword(t) \/ GoBack(t) \/ Mount(t) \/ Poll(t)
        PROVE  SessionInv'
    BY <1>1, VisitInv, SendInv, GoBackInv, MountInv
  <1>2. ASSUME NEW t \in Tab, Depart(t) \/ Callback(t) \/ CallbackRefused(t)
        PROVE  SessionInv'
    BY <1>2, DepartInv, CallbackInv, CallbackRefusedInv
  <1>3. ASSUME NEW t \in Tab, NEW c \in calls[t], Answer(t, c) PROVE SessionInv'
    BY <1>3, AnswerInv
  <1>4. CASE (\E n \in Nonce : Lapse(n)) \/ CleanStates
    BY <1>4, AgeInv
  <1>5. ASSUME NEW c \in Cred, Expire(c) PROVE SessionInv'
    <2>1. valid' \subseteq Cred
      BY <1>5 DEF Expire, SessionInv, SessionTypeOK
    <2> QED
      BY <1>5, <2>1, StillStep DEF Expire, SessionInv, SessionTypeOK
  <1>6. CASE UNCHANGED sessionVars
    BY <1>6, StillStep DEF sessionVars, SessionInv, SessionTypeOK
  <1> QED
    BY <1>1, <1>2, <1>3, <1>4, <1>5, <1>6 DEF SessionNext

LEMMA SessionInvariance == SessionSpec => []SessionInv
  BY SessionInitInv, SessionNextInv, PTL DEF SessionSpec

-----------------------------------------------------------------------------
(* Every variable of the tabs and of the flow keeps its type. *)
THEOREM SessionTypeCorrect == SessionSpec => []SessionTypeOK
  <1>1. SessionInv => SessionTypeOK
    BY DEF SessionInv
  <1> QED
    BY <1>1, SessionInvariance, PTL

(* However many tabs request the callback, and whenever states are cleaned,*)
(* a state of the OIDC flow opens one session at most (auth.go:106-112).   *)
THEOREM StatesAreUsedOnce == SessionSpec => []StateUsedOnce
  <1>1. SessionInv => StateUsedOnce
    BY DEF SessionInv
  <1> QED
    BY <1>1, SessionInvariance, PTL

-----------------------------------------------------------------------------
(* Peace lasts: each call in flight carries a token that is accepted, and  *)
(* so does every one to come.                                              *)

Inside(t) == tab[t].view = "app"

(* Tokens are only added: what is not refused now is not refused later. *)
LEMMA NotRefused ==
    ASSUME valid \subseteq valid', NEW d, ~Refusable(d)
    PROVE  ~Refusable(d)'
  BY DEF Refusable

(* What a page of a signed-in browser sends is not refused. *)
LEMMA SentInPeace ==
    ASSUME SessionInv, Peace, NEW t \in Tab, NEW op \in {"me", "data", "login"},
           calls' = [calls EXCEPT ![t] = Sent(t, op)], UNCHANGED <<stored, valid>>
    PROVE  Peace'
  <1>1. stored # NULL /\ Credential = stored
    BY SessionAssumption DEF Peace, Credential, SessionInv, SessionTypeOK
  <1>2. ~Refusable([op |-> op, cred |-> Credential])
    BY <1>1 DEF Refusable, Peace
  <1>3. ASSUME NEW u \in Tab, NEW d \in calls'[u] PROVE ~Refusable(d)'
    <2>1. d \in calls[u] \/ d = [op |-> op, cred |-> Credential]
      BY DEF SessionInv, SessionTypeOK, Sent
    <2>2. ~Refusable(d)
      BY <1>2, <2>1 DEF Peace
    <2> QED
      BY <2>2, NotRefused
  <1> QED
    BY <1>3 DEF Peace

(* No call is new, and a token that is accepted is stored. *)
LEMMA FewerInPeace ==
    ASSUME SessionInv, Peace, \A u \in Tab : calls'[u] \subseteq calls[u],
           valid \subseteq valid', stored' \in valid'
    PROVE  Peace'
  <1>1. ASSUME NEW u \in Tab, NEW d \in calls'[u] PROVE ~Refusable(d)'
    BY NotRefused DEF Peace
  <1> QED
    BY <1>1 DEF Peace

LEMMA PeaceLasts == SessionInv /\ Peace /\ Undisturbed => Peace'
  <1> SUFFICES ASSUME SessionInv, Peace, Undisturbed PROVE Peace'
    OBVIOUS
  <1>0. calls \in [Tab -> SUBSET Call]
    BY DEF SessionInv, SessionTypeOK
  <1>1. ASSUME NEW t \in Tab, Submit(t, "login") \/ Mount(t) \/ Poll(t) PROVE Peace'
    BY <1>1, SentInPeace DEF Submit, Mount, Poll
  <1>2. ASSUME NEW t \in Tab, Visit(t) \/ Depart(t) \/ GoBack(t) PROVE Peace'
    <2>1. calls' = [calls EXCEPT ![t] = {}] /\ UNCHANGED <<stored, valid>>
      BY <1>2 DEF Visit, Depart, GoBack
    <2>2. \A u \in Tab : calls'[u] \subseteq calls[u]
      BY <1>0, <2>1
    <2> QED
      BY <2>1, <2>2, FewerInPeace DEF Peace
  <1>3. ASSUME NEW t \in Tab, Callback(t) \/ CallbackRefused(t) PROVE Peace'
    <2>1. calls' = calls /\ stored' = stored /\ valid \subseteq valid'
      BY <1>3 DEF Callback, CallbackRefused
    <2> QED
      BY <2>1, FewerInPeace DEF Peace
  <1>4. ASSUME NEW t \in Tab, NEW c \in calls[t],
               \/ Granted(t, c) \/ SignedIn(t, c)
               \/ Failed(t, c) /\ c.op \notin {"me", "logout"}
        PROVE  Peace'
    <2>1. /\ calls' = [calls EXCEPT ![t] = @ \ {c}] /\ valid \subseteq valid'
          /\ stored' = stored \/ stored' \in valid'
      BY <1>4 DEF Granted, SignedIn, Failed
    <2>2. \A u \in Tab : calls'[u] \subseteq calls[u]
      BY <1>0, <2>1
    <2> QED
      BY <2>1, <2>2, FewerInPeace DEF Peace
  <1>5. ASSUME NEW t \in Tab, NEW c \in calls[t], Unauthorized(t, c) PROVE Peace'
    BY <1>5 DEF Unauthorized, Peace
  <1>6. CASE (\E n \in Nonce : Lapse(n)) \/ CleanStates
    <2>1. UNCHANGED <<stored, valid, calls>>
      BY <1>6 DEF Lapse, CleanStates
    <2> QED
      BY <2>1, FewerInPeace DEF Peace
  <1> QED
    BY <1>1, <1>2, <1>3, <1>4, <1>5, <1>6 DEF Undisturbed

(* In peace nothing but its user takes a tab out of the application. *)
LEMMA InsideLasts ==
    ASSUME SessionInv, Peace, Undisturbed, NEW t \in Tab, Inside(t), ~Visit(t), ~GoBack(t)
    PROVE  Inside(t)'
  <1>0. tab \in [Tab -> TabState]
    BY DEF SessionInv, SessionTypeOK
  <1>1. ASSUME NEW u \in Tab,
               \/ Visit(u) \/ Depart(u) \/ GoBack(u) \/ Mount(u)
               \/ Callback(u) \/ CallbackRefused(u)
        PROVE  Inside(t)'
    <2>1. u # t
      BY <1>1 DEF Depart, Mount, Callback, CallbackRefused, Inside
    <2>2. tab'[t] = tab[t]
      BY <1>0, <1>1, <2>1 DEF Visit, Depart, GoBack, Mount, Callback, CallbackRefused
    <2> QED
      BY <2>2 DEF Inside
  <1>2. ASSUME NEW u \in Tab, Submit(u, "login") \/ Poll(u) PROVE Inside(t)'
    BY <1>2 DEF Submit, Poll, Inside
  <1>3. ASSUME NEW u \in Tab, NEW c \in calls[u],
               \/ Granted(u, c) \/ SignedIn(u, c)
               \/ Failed(u, c) /\ c.op \notin {"me", "logout"}
        PROVE  Inside(t)'
    <2>0. tab[u] \in TabState
      BY <1>0
    <2>1. CASE Granted(u, c)
      <3>1. tab'[t].view = tab[t].view
        BY <1>0, <2>0, <2>1 DEF Granted, TabState
      <3> QED
        BY <3>1 DEF Inside
    <2>2. CASE SignedIn(u, c)
      <3>1. tab'[t] = tab[t] \/ tab'[t].view = "app"
        BY <1>0, <2>0, <2>2 DEF SignedIn, TabState
      <3> QED
        BY <3>1 DEF Inside
    <2>3. CASE Failed(u, c) /\ c.op \notin {"me", "logout"}
      BY <2>3 DEF Failed, Inside
    <2> QED
      BY <1>3, <2>1, <2>2, <2>3
  <1>4. ASSUME NEW u \in Tab, NEW c \in calls[u], Unauthorized(u, c) PROVE Inside(t)'
    BY <1>4 DEF Unauthorized, Peace
  <1>5. CASE (\E n \in Nonce : Lapse(n)) \/ CleanStates
    BY <1>5 DEF Lapse, CleanStates, Inside
  <1> QED
    BY <1>1, <1>2, <1>3, <1>4, <1>5 DEF Undisturbed

(* Where the token is accepted and no refusal is on its way, no number of  *)
(* tabs that load, poll, sign in or come back from the provider signs any  *)
(* of them out (api.ts:24-38, useAuth.ts:14-36).                           *)
THEOREM SignInsHold == SessionSpec => SignInHolds
  <1>1. SessionInv /\ [SessionNext]_sessionVars =>
          [Peace /\ Undisturbed =>
             /\ Peace'
             /\ \A t \in Tab : tab[t].view = "app" /\ ~Visit(t) /\ ~GoBack(t)
                    => tab'[t].view = "app"]_sessionVars
    BY PeaceLasts, InsideLasts DEF Inside
  <1> QED
    BY <1>1, SessionInvariance, PTL DEF SessionSpec, SignInHolds

-----------------------------------------------------------------------------
(* Without a token in localStorage a tab outside the application gets in    *)
(* only by a login, and a login stores a token that is accepted.           *)

Out(t) == stored = NULL /\ ~Inside(t)

NoToken == Credential \notin valid

LEMMA OutStays ==
    ASSUME SessionInv, [SessionNext]_sessionVars, NEW t \in Tab, Out(t),
           NoToken'
    PROVE  Out(t)'
  <1>1. tab \in [Tab -> TabState]
    BY DEF SessionInv, SessionTypeOK
  <1>2. ASSUME NEW u \in Tab, Visit(u) PROVE Out(t)'
    BY <1>1, <1>2 DEF Visit, Leaving, TabState, Out, Inside
  <1>3. ASSUME NEW u \in Tab,
               \/ Submit(u, "login") \/ Submit(u, "mistyped") \/ LogOut(u)
               \/ MistypePassword(u) \/ Poll(u)
        PROVE  Out(t)'
    BY <1>3 DEF Submit, LogOut, MistypePassword, Poll, Out, Inside
  <1>4. ASSUME NEW u \in Tab, Depart(u) PROVE Out(t)'
    BY <1>1, <1>4 DEF Depart, Out, Inside
  <1>5. ASSUME NEW u \in Tab, GoBack(u) PROVE Out(t)'
    BY <1>1, <1>5 DEF GoBack, Leaving, TabState, Out, Inside
  <1>6. ASSUME NEW u \in Tab, Mount(u) PROVE Out(t)'
    BY <1>1, <1>6 DEF Mount, Guarded, TabState, Out, Inside
  <1>7. ASSUME NEW u \in Tab, Callback(u) \/ CallbackRefused(u) PROVE Out(t)'
    BY <1>1, <1>7 DEF Callback, CallbackRefused, Leaving, TabState, Out, Inside
  <1>8. ASSUME NEW u \in Tab, NEW c \in calls[u], Unauthorized(u, c) PROVE Out(t)'
    <2>1. CASE tab[u].view = "login"
      BY <1>1, <1>8, <2>1 DEF Unauthorized, TabState, Out, Inside
    <2>2. CASE tab[u].view # "login"
      BY <1>1, <1>8, <2>2 DEF Unauthorized, Leaving, TabState, Out, Inside
    <2> QED
      BY <2>1, <2>2
  <1>9. ASSUME NEW u \in Tab, NEW c \in calls[u], Granted(u, c) \/ LoggedOut(u, c)
        PROVE  Out(t)'
    BY <1>1, <1>9 DEF Granted, LoggedOut, TabState, Out, Inside
  <1>10. ASSUME NEW u \in Tab, NEW c \in calls[u], SignedIn(u, c) PROVE Out(t)'
    <2>1. stored' \in valid' /\ stored' # NULL
      BY <1>10, SessionAssumption DEF SignedIn
    <2> QED
      BY <2>1 DEF NoToken, Credential
  <1>11. ASSUME NEW u \in Tab, NEW c \in calls[u], Failed(u, c) PROVE Out(t)'
    <2>1. CASE c.op \in {"me", "logout"}
      BY <1>1, <1>11, <2>1 DEF Failed, Believing, Guarded, TabState, Out, Inside
    <2>2. CASE c.op \notin {"me", "logout"}
      BY <1>11, <2>2 DEF Failed, Out, Inside
    <2> QED
      BY <2>1, <2>2
  <1>12. CASE (\E n \in Nonce : Lapse(n)) \/ CleanStates \/ (\E c \in Cred : Expire(c))
    BY <1>12 DEF Lapse, CleanStates, Expire, Out, Inside
  <1>13. CASE UNCHANGED sessionVars
    BY <1>13 DEF sessionVars, Out, Inside
  <1>14. ASSUME NEW u \in Tab, NEW c \in calls[u], Answer(u, c) PROVE Out(t)'
    BY <1>8, <1>9, <1>10, <1>11, <1>14 DEF Answer
  <1> QED
    BY <1>2, <1>3, <1>4, <1>5, <1>6, <1>7, <1>12, <1>13, <1>14 DEF SessionNext

(* What SignedOutTabsLeave leaves to fairness is that each page gets its   *)
(* 401.  A tab that is out then, whatever reloads, callbacks of other tabs *)
(* and late answers come, stays out for as long as the browser has no      *)
(* token that is accepted (api.ts:32-38, App.tsx:16-20).                   *)
THEOREM SignedOutTabsStayOut ==
    ASSUME NEW t \in Tab
    PROVE  SessionSpec =>
             [](stored = NULL /\ tab[t].view # "app" /\ [](Credential \notin valid)
                  => [](tab[t].view # "app"))
  <1>1. SessionSpec => [](Out(t) /\ []NoToken => []Out(t))
    <2>1. SessionInv /\ [SessionNext]_sessionVars /\ Out(t) /\ NoToken' => Out(t)'
      BY OutStays
    <2> QED
      BY <2>1, SessionInvariance, PTL DEF SessionSpec
  <1>2. stored = NULL /\ tab[t].view # "app" => Out(t)
    BY DEF Out, Inside
  <1>3. Out(t) => tab[t].view # "app"
    BY DEF Out, Inside
  <1>4. Credential \notin valid => NoToken
    BY DEF NoToken
  <1> QED
    BY <1>1, <1>2, <1>3, <1>4, PTL

-----------------------------------------------------------------------------
(* Terminal *)

Message == {"key", "size"}

(* What a bridge holds in each phase: no goroutine before the upgrade and  *)
(* none after the release, which ends the shell; and the copying only ends *)
(* with the page, or with a shell that has ended and was read to its end.  *)
BridgeOK(s) ==
    /\ s.phase # "open" => ~s.typing /\ ~s.copies
    /\ s.phase \in {"none", "closed"} => s.shell = "gone"
    /\ s.phase = "none" => s.page = "gone"
    /\ s.page = "refused" => s.phase = "closed"
    /\ s.page = "told" => s.phase = "closed" /\ s.output = 0
    /\ s.phase = "open" /\ ~s.copies => s.page = "gone" \/ Drained(s)

TerminalInv == TerminalTypeOK /\ \A b \in Bridge : BridgeOK(bridge[b])

LEMMA Inputs == BoundedSeq(Message, MaxInput) = {q \in Seq(Message) : Len(q) <= MaxInput}
  BY TerminalAssumption, BoundedSeqs DEF Message

LEMMA NoBridgeOK == NoBridge \in BridgeState /\ BridgeOK(NoBridge)
<1>1. <<>> \in BoundedSeq(Message, MaxInput)
  BY Inputs, TerminalAssumption
<1>2. NoBridge \in BridgeState
  BY <1>1, TerminalAssumption DEF NoBridge, BridgeState, Message
<1> QED BY <1>2 DEF BridgeOK, NoBridge

LEMMA BecomeInv ==
    ASSUME TerminalInv, NEW b \in Bridge, NEW s \in BridgeState, BridgeOK(s), Become(b, s)
    PROVE  TerminalInv'
<1>1. TerminalTypeOK'
  BY DEF TerminalInv, TerminalTypeOK, Become
<1>2. ASSUME NEW c \in Bridge PROVE BridgeOK(bridge'[c])
  <2>1. CASE c = b
    BY <2>1 DEF TerminalInv, TerminalTypeOK, Become
  <2>2. CASE c # b
    BY <2>2 DEF TerminalInv, TerminalTypeOK, Become
  <2> QED BY <2>1, <2>2
<1> QED BY <1>1, <1>2 DEF TerminalInv

(* The deferred calls leave a bridge that may be used again.               *)
LEMMA ReleasedOK ==
    ASSUME NEW s \in BridgeState, BridgeOK(s), ~s.typing, ~s.copies, NEW news,
           \/ s.phase = "dialled" /\ news = "refused"
           \/ s.phase = "open" /\ news = "told"
    PROVE  Released(s, news) \in BridgeState /\ BridgeOK(Released(s, news))
<1>1. <<>> \in BoundedSeq(Message, MaxInput)
  BY Inputs, TerminalAssumption
<1>2. Released(s, news) \in BridgeState
  BY <1>1 DEF Released, BridgeState, Message
<1>3. /\ Released(s, news).phase = "closed" /\ Released(s, news).shell = "gone"
      /\ Released(s, news).output = s.output
      /\ ~Released(s, news).typing /\ ~Released(s, news).copies
      /\ Released(s, news).page = "told" => s.phase = "open" /\ s.page # "gone"
  BY DEF Released, BridgeState, BridgeOK
<1>4. s.phase = "open" /\ s.page # "gone" => s.output = 0
  BY DEF BridgeOK, Drained
<1> QED BY <1>2, <1>3, <1>4 DEF BridgeOK

LEMMA TerminalNextInv == TerminalInv /\ [TerminalNext]_bridge => TerminalInv'
<1> SUFFICES ASSUME TerminalInv, [TerminalNext]_bridge PROVE TerminalInv'
  OBVIOUS
<1>1. CASE UNCHANGED bridge
  BY <1>1 DEF TerminalInv, TerminalTypeOK, BridgeOK
<1>2. ASSUME NEW b \in Bridge,
             \/ Dial(b) \/ Leave(b)
             \/ Input(b, "key") \/ Input(b, "size")
             \/ ShellWrites(b) \/ ShellEnds(b)
             \/ Handler(b) \/ Copier(b)
      PROVE  TerminalInv'
  <2> DEFINE s == bridge[b]
  <2>0. s \in BridgeState /\ BridgeOK(s)
    BY DEF TerminalInv, TerminalTypeOK
  <2>i. s.input \in Seq(Message) /\ Len(s.input) <= MaxInput
    BY <2>0, Inputs DEF BridgeState, Message
  <2>o. s.output \in 0 .. MaxOutput /\ MaxOutput \in Nat /\ MaxInput \in Nat
    BY <2>0, TerminalAssumption DEF BridgeState
  <2>1. CASE Dial(b)
    <3> DEFINE n == [NoBridge EXCEPT !.phase = "dialled", !.page = "there", !.shell = "there"]
    <3>1. n \in BridgeState /\ BridgeOK(n)
      BY NoBridgeOK DEF BridgeState, BridgeOK, NoBridge
    <3>2. Become(b, n)
      BY <2>1 DEF Dial
    <3> HIDE DEF n
    <3> QED BY <3>1, <3>2, BecomeInv
  <2>2. CASE Leave(b)
    <3> DEFINE n == [s EXCEPT !.page = "gone"]
    <3>1. n \in BridgeState /\ BridgeOK(n)
      BY <2>0 DEF BridgeState, BridgeOK, Drained
    <3>2. Become(b, n)
      BY <2>2 DEF Leave
    <3> HIDE DEF n
    <3> QED BY <3>1, <3>2, BecomeInv
  <2>3. ASSUME NEW m \in Message, Input(b, m) PROVE TerminalInv'
    <3> DEFINE n == [s EXCEPT !.input = Append(@, m)]
    <3>1. Append(s.input, m) \in Seq(Message) /\ Len(Append(s.input, m)) <= MaxInput
      BY <2>3, <2>i, <2>o DEF Input
    <3>2. Append(s.input, m) \in BoundedSeq(Message, MaxInput)
      BY <3>1, Inputs
    <3>3. n \in BridgeState /\ BridgeOK(n)
      BY <2>0, <3>2 DEF BridgeState, BridgeOK, Drained, Message
    <3>4. Become(b, n)
      BY <2>3 DEF Input
    <3> HIDE DEF n
    <3> QED BY <3>3, <3>4, BecomeInv
  <2>4. CASE ShellWrites(b)
    <3> DEFINE n == [s EXCEPT !.output = @ + 1]
    <3>1. s.output + 1 \in 0 .. MaxOutput /\ s.shell = "there"
      BY <2>4, <2>o DEF ShellWrites
    <3>2. n \in BridgeState
      BY <2>0, <3>1 DEF BridgeState
    <3>3. BridgeOK(n)
      BY <2>0, <3>1 DEF BridgeState, BridgeOK, Drained
    <3>4. Become(b, n)
      BY <2>4 DEF ShellWrites
    <3> HIDE DEF n
    <3> QED BY <3>2, <3>3, <3>4, BecomeInv
  <2>5. CASE ShellEnds(b)
    <3> DEFINE n == [s EXCEPT !.shell = "gone"]
    <3>1. n \in BridgeState /\ BridgeOK(n)
      BY <2>0 DEF BridgeState, BridgeOK, Drained
    <3>2. Become(b, n)
      BY <2>5 DEF ShellEnds
    <3> HIDE DEF n
    <3> QED BY <3>1, <3>2, BecomeInv
  <2>6. CASE Upgrade(b)
    <3> DEFINE n == [s EXCEPT !.phase = "open", !.typing = TRUE, !.copies = TRUE]
    <3>1. s.phase = "dialled"
      BY <2>6 DEF Upgrade
    <3>2. n \in BridgeState /\ BridgeOK(n)
      BY <2>0, <3>1 DEF BridgeState, BridgeOK
    <3>3. Become(b, n)
      BY <2>6 DEF Upgrade
    <3> HIDE DEF n
    <3> QED BY <3>2, <3>3, BecomeInv
  <2>7. CASE UpgradeFails(b)
    <3>1. s.phase = "dialled" /\ Become(b, Released(s, "refused"))
      BY <2>7 DEF UpgradeFails
    <3>2. ~s.typing /\ ~s.copies
      BY <2>0, <3>1 DEF BridgeOK
    <3> HIDE DEF s
    <3> QED BY <2>0, <3>1, <3>2, ReleasedOK, BecomeInv
  <2>8. CASE ReadMessage(b)
    <3> DEFINE n == [s EXCEPT !.input = Tail(@), !.typing = TypingOn(s)]
    <3>1. s.typing /\ s.input # <<>>
      BY <2>8 DEF ReadMessage
    <3>2. Tail(s.input) \in Seq(Message) /\ Len(Tail(s.input)) <= MaxInput
      BY <2>i, <2>o, <3>1
    <3>3. Tail(s.input) \in BoundedSeq(Message, MaxInput)
      BY <3>2, Inputs
    <3>4. TypingOn(s) \in BOOLEAN
      BY DEF TypingOn
    <3>5. n \in BridgeState
      <4> HIDE DEF s
      <4> QED BY <2>0, <3>3, <3>4 DEF BridgeState, Message
    <3>6. BridgeOK(n)
      <4> HIDE DEF s
      <4> QED BY <2>0, <3>1 DEF BridgeState, BridgeOK, Drained
    <3>7. Become(b, n)
      BY <2>8 DEF ReadMessage
    <3> HIDE DEF n
    <3> QED BY <3>5, <3>6, <3>7, BecomeInv
  <2>9. CASE ReadFails(b)
    <3> DEFINE n == [s EXCEPT !.typing = FALSE]
    <3>1. n \in BridgeState /\ BridgeOK(n)
      BY <2>0 DEF BridgeState, BridgeOK, Drained
    <3>2. Become(b, n)
      BY <2>9 DEF ReadFails
    <3> HIDE DEF n
    <3> QED BY <3>1, <3>2, BecomeInv
  <2>10. CASE Copy(b)
    <3>1. PICK on \in BOOLEAN :
            /\ s.page = "there" => on
            /\ Become(b, [s EXCEPT !.output = @ - 1, !.copies = on])
      BY <2>10 DEF Copy
    <3> DEFINE n == [s EXCEPT !.output = @ - 1, !.copies = on]
    <3>2. s.copies /\ s.output - 1 \in 0 .. MaxOutput
      BY <2>10, <2>o DEF Copy
    <3>3. n \in BridgeState
      BY <2>0, <3>2 DEF BridgeState
    <3>4. BridgeOK(n)
      <4>1. s.phase = "open" /\ s.page # "told"
        BY <2>0, <3>2 DEF BridgeOK
      <4>2. s.page \in {"gone", "there"}
        BY <2>0, <4>1 DEF BridgeState, BridgeOK
      <4>3. /\ n.phase = "open" /\ n.page = s.page /\ n.copies = on
        BY <2>0, <4>1 DEF BridgeState
      <4> HIDE DEF n, s
      <4> QED BY <3>1, <4>2, <4>3 DEF BridgeOK
    <3>5. Become(b, n)
      BY <3>1
    <3> HIDE DEF n
    <3> QED BY <3>3, <3>4, <3>5, BecomeInv
  <2>11. CASE EndOfOutput(b)
    <3> DEFINE n == [s EXCEPT !.copies = FALSE]
    <3>1. n \in BridgeState /\ BridgeOK(n)
      BY <2>0, <2>11 DEF EndOfOutput, BridgeState, BridgeOK, Drained
    <3>2. Become(b, n)
      BY <2>11 DEF EndOfOutput
    <3> HIDE DEF n
    <3> QED BY <3>1, <3>2, BecomeInv
  <2>12. CASE Release(b)
    <3>1. s.phase = "open" /\ ~s.typing /\ ~s.copies /\ Become(b, Released(s, "told"))
      BY <2>12 DEF Release
    <3> HIDE DEF s
    <3> QED BY <2>0, <3>1, ReleasedOK, BecomeInv
  <2> QED
    BY <1>2, <2>1, <2>2, <2>3, <2>4, <2>5, <2>6, <2>7, <2>8, <2>9, <2>10, <2>11, <2>12
    DEF Handler, Copier, Message
<1> QED BY <1>1, <1>2 DEF TerminalNext

LEMMA TerminalInvariance == TerminalSpec => []TerminalInv
<1>1. TerminalInit => TerminalInv
  BY NoBridgeOK DEF TerminalInit, TerminalInv, TerminalTypeOK
<1> QED BY <1>1, TerminalNextInv, PTL DEF TerminalSpec

(* A bridge always has its type (terminal.go:177-220).                     *)
THEOREM TerminalTypeCorrect == TerminalSpec => []TerminalTypeOK
<1>1. TerminalInv => TerminalTypeOK
  BY DEF TerminalInv
<1> QED BY <1>1, TerminalInvariance, PTL

(* A page that is told that its connection is closed was shown all that    *)
(* its shell wrote, for every number of bridges, messages and chunks       *)
(* (terminal.go:180-196, 207-221).                                         *)
THEOREM ToldAtTheEnd == TerminalSpec => []ClosedIsTheEnd
<1>1. TerminalInv => ClosedIsTheEnd
  BY DEF TerminalInv, BridgeOK, ClosedIsTheEnd
<1> QED BY <1>1, TerminalInvariance, PTL

-----------------------------------------------------------------------------
(* One browser *)

(* Seen from its tabs alone, or from its terminals alone, a browser behaves *)
(* as Session or as Terminal says: what is proved of each holds of the     *)
(* specification that is model-checked (MCSession).                        *)
THEOREM BrowserIsBoth == BrowserSpec => SessionSpec /\ TerminalSpec
<1>1. BrowserInit => SessionInit /\ TerminalInit
  BY DEF BrowserInit
<1>2. [BrowserNext]_<<sessionVars, bridge, focus>> => [SessionNext]_sessionVars
  BY DEF BrowserNext, SessionPart, TerminalPart
<1>3. [BrowserNext]_<<sessionVars, bridge, focus>> => [TerminalNext]_bridge
  BY DEF BrowserNext, SessionPart, TerminalPart
<1> QED BY <1>1, <1>2, <1>3, PTL DEF BrowserSpec, SessionSpec, TerminalSpec
=============================================================================
