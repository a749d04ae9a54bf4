------------------------------- MODULE Session -------------------------------
(***************************************************************************)
(* Signing in and out of the dashboard.  Every tab of a browser keeps its  *)
(* own isAuthenticated flag and its own calls in flight; the token in      *)
(* localStorage and the cookie that the OIDC callback sets are shared by   *)
(* all tabs.  Any call that is answered 401 throws the shared token away,  *)
(* whichever token it was sent with, and sends its tab to /login.          *)
(***************************************************************************)
EXTENDS Naturals, FiniteSets

CONSTANTS
    Tab,      \* the tabs of one browser
    Cred,     \* the tokens the API can issue
    Nonce,    \* the states AuthCodeURL can draw
    InFront,  \* the tabs that stay in front of the others from some time on
    MaxCalls, \* a bound: a user starts a call only while fewer are in flight
    NULL

ASSUME SessionAssumption ==
    /\ NULL \notin Cred \cup Nonce
    /\ InFront \subseteq Tab
    /\ MaxCalls \in Nat \ {0}

VARIABLES
    stored,   \* ztp_token in localStorage
    cookie,   \* the cookie ztp_token
    valid,    \* the tokens that VerifyJWT accepts
    tab,      \* tab[t]: what tab t shows and believes
    calls,    \* calls[t]: the requests of tab t that have no answer yet
    states,   \* states[n]: where state n of the OIDC flow stands
    redeemed  \* redeemed[n]: the sessions opened with state n

sessionVars == <<stored, cookie, valid, tab, calls, states, redeemed>>

-----------------------------------------------------------------------------
(* to login, to app: a page that loads; away: at the provider, or waiting  *)
(* for the callback; error: a tab with the JSON of a refused callback.     *)
Views == {"closed", "to login", "to app", "login", "app", "away", "error"}

(* authed: isAuthenticated, which a page that is not loaded does not have; *)
(* nonce: the callback in the history of the tab.                          *)
TabState == [view : Views, authed : BOOLEAN, nonce : Nonce \cup {NULL}]

(* data stands for every protected call of a page, the poll of the alert   *)
(* count included; mistyped for a login with a wrong password and for a     *)
(* change of the password with a wrong current one.                        *)
CallOps == {"me", "data", "login", "mistyped", "logout"}

Call == [op : CallOps, cred : Cred \cup {NULL}]

SessionTypeOK ==
    /\ stored \in Cred \cup {NULL}
    /\ cookie \in Cred \cup {NULL}
    /\ valid \subseteq Cred
    /\ tab \in [Tab -> TabState]
    /\ calls \in [Tab -> SUBSET Call]
    /\ states \in [Nonce -> {"unused", "pending", "lapsed", "gone"}]
    /\ redeemed \in [Nonce -> Nat]

SessionInit ==
    /\ stored = NULL
    /\ cookie = NULL
    /\ valid = {}
    /\ tab = [t \in Tab |-> [view |-> "closed", authed |-> FALSE, nonce |-> NULL]]
    /\ calls = [t \in Tab |-> {}]
    /\ states = [n \in Nonce |-> "unused"]
    /\ redeemed = [n \in Nonce |-> 0]

-----------------------------------------------------------------------------
(* The Authorization header wins over the cookie. *)
Credential == IF stored # NULL THEN stored ELSE cookie

(* The calls that have no answer yet. *)
InFlight == UNION {{<<t, c>> : c \in calls[t]} : t \in Tab}

Doing(t, ops) == \E c \in calls[t] : c.op \in ops

(* Mutant: request does not read the token (api.ts:24-25). *)
SentBare(t, op) == calls[t] \cup {[op |-> op, cred |-> NULL]}

(* A token nobody holds: a new one. *)
Unheld(c) == c \notin {stored, cookie} /\ \A u \in Tab : \A d \in calls[u] : d.cred # c

Sent(t, op) == calls[t] \cup {[op |-> op, cred |-> Credential]}

(* A protected request is refused for its token or, changing a password,   *)
(* for the current password; a login for its password.                     *)
Refusable(c) ==
    \/ c.op = "mistyped"
    \/ c.op \in {"me", "data", "logout"} /\ c.cred \notin valid

(* Mutant: the page that is left is not told apart from the one to come. *)
LeavingNowhere(t, view) == [tab[t] EXCEPT !.view = NULL, !.authed = FALSE]

Leaving(t, view) == [tab[t] EXCEPT !.view = view, !.authed = FALSE]

(* RequireAuth: a page of the application needs isAuthenticated. *)
Guarded(view, authed) == IF view = "app" /\ ~authed THEN "login" ELSE view

Believing(t, authed) ==
    [tab[t] EXCEPT !.authed = authed, !.view = Guarded(tab[t].view, authed)]

-----------------------------------------------------------------------------
(* What a user does *)

(* The user opens, reloads or leaves a page: the calls of the old one end. *)
Visit(t) ==
    /\ \E view \in {"to login", "to app"} : tab' = [tab EXCEPT ![t] = Leaving(t, view)]
    /\ calls' = [calls EXCEPT ![t] = {}]
    /\ UNCHANGED <<stored, cookie, valid, states, redeemed>>

(* The login button is disabled while a login is in flight. *)
Submit(t, op) ==
    /\ tab[t].view = "login"
    /\ Cardinality(InFlight) < MaxCalls
    /\ op \in {"login", "mistyped"}
    /\ ~Doing(t, {"login", "mistyped"})
    /\ calls' = [calls EXCEPT ![t] = Sent(t, op)]
    /\ UNCHANGED <<stored, cookie, valid, tab, states, redeemed>>

LogOut(t) ==
    /\ tab[t].view = "app"
    /\ Cardinality(InFlight) < MaxCalls
    /\ calls' = [calls EXCEPT ![t] = Sent(t, "logout")]
    /\ UNCHANGED <<stored, cookie, valid, tab, states, redeemed>>

(* A password change with a wrong current password; the button is disabled  *)
(* while it is in flight.                                                  *)
MistypePassword(t) ==
    /\ tab[t].view = "app"
    /\ Cardinality(InFlight) < MaxCalls
    /\ ~Doing(t, {"mistyped"})
    /\ calls' = [calls EXCEPT ![t] = Sent(t, "mistyped")]
    /\ UNCHANGED <<stored, cookie, valid, tab, states, redeemed>>

(* Sign in with Microsoft: the tab leaves for the provider. *)
Depart(t) ==
    /\ tab[t].view = "login"
    /\ \E n \in Nonce :
        /\ states[n] = "unused"
        /\ states' = [states EXCEPT ![n] = "pending"]
        /\ tab' = [tab EXCEPT ![t] = [view |-> "away", authed |-> FALSE, nonce |-> n]]
    /\ calls' = [calls EXCEPT ![t] = {}]
    /\ UNCHANGED <<stored, cookie, valid, redeemed>>

(* Back to the callback in the history of the tab: it is requested again. *)
GoBack(t) ==
    /\ tab[t].nonce # NULL
    /\ tab[t].view \in {"login", "app", "error"}
    /\ tab' = [tab EXCEPT ![t] = Leaving(t, "away")]
    /\ calls' = [calls EXCEPT ![t] = {}]
    /\ UNCHANGED <<stored, cookie, valid, states, redeemed>>

-----------------------------------------------------------------------------
(* What a page does by itself *)

(* The bundle runs: isAuthenticated is read from localStorage, the guard    *)
(* picks the page and checkAuth asks the API who the user is.               *)
Mount(t) ==
    /\ tab[t].view \in {"to login", "to app"}
    /\ tab' = [tab EXCEPT ![t].authed = stored # NULL,
                          ![t].view = IF @ = "to login" THEN "login"
                                      ELSE Guarded("app", stored # NULL)]
    /\ calls' = [calls EXCEPT ![t] = Sent(t, "me")]
    /\ UNCHANGED <<stored, cookie, valid, states, redeemed>>

(* A page of the application fetches: when it comes up or comes to the     *)
(* front, and from time to time there.  A query has one call in flight.    *)
Poll(t) ==
    /\ tab[t].view = "app"
    /\ ~Doing(t, {"data"})
    /\ calls' = [calls EXCEPT ![t] = Sent(t, "data")]
    /\ UNCHANGED <<stored, cookie, valid, tab, states, redeemed>>

-----------------------------------------------------------------------------
(* Answers *)

(* Mutant: a 401 drops the token but leaves the page where it is. *)
UnauthorizedStays(t, c) ==
    /\ c \in calls[t]
    /\ Refusable(c)
    /\ stored' = NULL
    /\ calls' = [calls EXCEPT ![t] = @ \ {c}]
    /\ UNCHANGED <<cookie, valid, tab, states, redeemed>>

(* A page that is not /login is left by a reload, which ends its calls. *)
Unauthorized(t, c) ==
    /\ c \in calls[t]
    /\ Refusable(c)
    /\ stored' = NULL
    /\ IF tab[t].view = "login"
       THEN /\ calls' = [calls EXCEPT ![t] = @ \ {c}]
            /\ tab' = [tab EXCEPT ![t].authed = @ /\ c.op # "me"]
       ELSE /\ calls' = [calls EXCEPT ![t] = {}]
            /\ tab' = [tab EXCEPT ![t] = Leaving(t, "to login")]
    /\ UNCHANGED <<cookie, valid, states, redeemed>>

Granted(t, c) ==
    /\ c \in calls[t]
    /\ c.op \in {"me", "data"} /\ ~Refusable(c)
    /\ tab' = [tab EXCEPT ![t].authed = @ \/ c.op = "me"]
    /\ calls' = [calls EXCEPT ![t] = @ \ {c}]
    /\ UNCHANGED <<stored, cookie, valid, states, redeemed>>

(* LocalLogin issues a token; the page keeps it and goes to /devices. *)
SignedIn(t, c) ==
    /\ c \in calls[t]
    /\ c.op = "login"
    /\ \E k \in Cred :
        /\ Unheld(k)
        /\ valid' = valid \cup {k}
        /\ stored' = k
    /\ tab' = [tab EXCEPT ![t].authed = TRUE, ![t].view = "app"]
    /\ calls' = [calls EXCEPT ![t] = @ \ {c}]
    /\ UNCHANGED <<cookie, states, redeemed>>

(* Logout drops the cookie; the token stays valid until it expires. *)
LoggedOut(t, c) ==
    /\ c \in calls[t]
    /\ c.op = "logout" /\ ~Refusable(c)
    /\ stored' = NULL
    /\ cookie' = NULL
    /\ tab' = [tab EXCEPT ![t].authed = FALSE, ![t].view = "login"]
    /\ calls' = [calls EXCEPT ![t] = @ \ {c}]
    /\ UNCHANGED <<valid, states, redeemed>>

(* No answer, or one that is neither good nor 401.  checkAuth treats it as  *)
(* a refusal; logout goes on as if it had been answered.                    *)
Failed(t, c) ==
    /\ c \in calls[t]
    /\ calls' = [calls EXCEPT ![t] = @ \ {c}]
    /\ IF c.op \in {"me", "logout"}
       THEN /\ stored' = NULL
            /\ tab' = [tab EXCEPT ![t] = Believing(t, FALSE)]
       ELSE UNCHANGED <<stored, tab>>
    /\ UNCHANGED <<cookie, valid, states, redeemed>>

-----------------------------------------------------------------------------
(* OIDC *)

(* Mutant: only a state that is too old is taken out of the map. *)
TakenOld(n) == [states EXCEPT ![n] = IF @ = "lapsed" THEN "gone" ELSE @]

(* The callback takes its state out of the map before it looks at its age. *)
Taken(n) == [states EXCEPT ![n] = IF @ \in {"pending", "lapsed"} THEN "gone" ELSE @]

Accepted(n) == states[n] = "pending"

(* The callback succeeds: a cookie, and back to the address of the page. *)
Callback(t) ==
    LET n == tab[t].nonce IN
    /\ tab[t].view = "away"
    /\ Accepted(n)
    /\ states' = Taken(n)
    /\ redeemed' = [redeemed EXCEPT ![n] = @ + 1]
    /\ \E k \in Cred : Unheld(k) /\ cookie' = k /\ valid' = valid \cup {k}
    /\ tab' = [tab EXCEPT ![t] = Leaving(t, "to app")]
    /\ UNCHANGED <<stored, calls>>

(* A state that is unknown or too old, or an exchange that fails. *)
CallbackRefused(t) ==
    /\ tab[t].view = "away"
    /\ states' = Taken(tab[t].nonce)
    /\ tab' = [tab EXCEPT ![t].view = "error"]
    /\ UNCHANGED <<stored, cookie, valid, calls, redeemed>>

(* Five minutes go by; once a minute cleanStates removes such states. *)
Lapse(n) ==
    /\ states[n] = "pending"
    /\ states' = [states EXCEPT ![n] = "lapsed"]
    /\ UNCHANGED <<stored, cookie, valid, tab, calls, redeemed>>

CleanStates ==
    /\ \E n \in Nonce : states[n] = "lapsed"
    /\ states' = [n \in Nonce |-> IF states[n] = "lapsed" THEN "gone" ELSE states[n]]
    /\ UNCHANGED <<stored, cookie, valid, tab, calls, redeemed>>

(* jwtExpiry goes by. *)
Expire(c) ==
    /\ c \in valid
    /\ valid' = valid \ {c}
    /\ UNCHANGED <<stored, cookie, tab, calls, states, redeemed>>

-----------------------------------------------------------------------------
Answer(t, c) ==
    \/ Unauthorized(t, c)
    \/ Granted(t, c)
    \/ SignedIn(t, c)
    \/ LoggedOut(t, c)
    \/ Failed(t, c)

SessionNext ==
    \/ \E t \in Tab :
        \/ Visit(t)
        \/ Submit(t, "login")
        \/ Submit(t, "mistyped")
        \/ LogOut(t)
        \/ MistypePassword(t)
        \/ Depart(t)
        \/ GoBack(t)
        \/ Mount(t)
        \/ Poll(t)
        \/ Callback(t)
        \/ CallbackRefused(t)
        \/ \E c \in calls[t] : Answer(t, c)
    \/ \E n \in Nonce : Lapse(n)
    \/ CleanStates
    \/ \E c \in Cred : Expire(c)

SessionSpec == SessionInit /\ [][SessionNext]_sessionVars

-----------------------------------------------------------------------------
(* Fairness: a page that loads runs; a page of the application polls, but  *)
(* not while another tab hides it, when react-query stops its intervals;   *)
(* and the network does not fail for ever, so what is asked again and      *)
(* again is answered.                                                      *)
SessionFairness ==
    \A t \in Tab :
        /\ WF_sessionVars(Mount(t))
        /\ t \in InFront => WF_sessionVars(Poll(t))
        /\ SF_sessionVars(\E c \in calls[t] : Unauthorized(t, c))
        /\ SF_sessionVars(\E c \in calls[t] : Granted(t, c))

SessionFairSpec == SessionSpec /\ SessionFairness

-----------------------------------------------------------------------------
(* Once no request carries a token that the API accepts, and none will, no *)
(* tab that stays in front goes on showing a page of the application: the  *)
(* next poll is refused and its tab loads /login.  A tab that is hidden    *)
(* may go on, until it is looked at                                        *)
(* (api.ts:32-38, Layout.tsx:26-30).                                       *)
SignedOutTabsLeave ==
    <>[](Credential \notin valid) =>
        \A t \in InFront : <>[](tab[t].view # "app")

(* Tokens last, nobody signs out, no password is wrong, and no check of    *)
(* the token fails for want of an answer.                                  *)
Undisturbed ==
    \/ \E t \in Tab :
        \/ Visit(t) \/ Submit(t, "login")
        \/ Depart(t) \/ GoBack(t) \/ Callback(t) \/ CallbackRefused(t)
        \/ Mount(t) \/ Poll(t)
        \/ \E c \in calls[t] :
            \/ Unauthorized(t, c) \/ Granted(t, c) \/ SignedIn(t, c)
            \/ Failed(t, c) /\ c.op \notin {"me", "logout"}
    \/ \E n \in Nonce : Lapse(n)
    \/ CleanStates

(* The token is accepted, and no call on its way will be refused.          *)
Peace == stored \in valid /\ \A t \in Tab : \A c \in calls[t] : ~Refusable(c)

(* Once the refusals that were on their way have all come in, a token that *)
(* is stored stays: nothing that the tabs do by themselves, and no page    *)
(* loaded and no login in one of them, signs out another, and a page is    *)
(* left only by its user.  (A refusal still on its way may come after a    *)
(* login and remove the new token: see the README.)  (api.ts:24-38,        *)
(* useAuth.ts:14-36)                                                       *)
SignInHolds ==
    [][Peace /\ Undisturbed =>
         /\ Peace'
         /\ \A t \in Tab : tab[t].view = "app" /\ ~Visit(t) /\ ~GoBack(t)
                => tab'[t].view = "app"]_sessionVars

(* A state of the OIDC flow opens at most one session, however often the   *)
(* callback is requested and whenever states are cleaned (auth.go:97-112). *)
StateUsedOnce ==
    \A n \in Nonce :
        /\ redeemed[n] <= 1
        /\ redeemed[n] = 1 => states[n] = "gone"

(* One user who opens the login page and signs in with the provider, while *)
(* nothing fails or expires.                                               *)
SsoNext ==
    \E t \in Tab :
        \/ tab[t].view = "closed" /\ Visit(t)
        \/ Depart(t)
        \/ Callback(t)
        \/ Mount(t)
        \/ Poll(t)
        \/ \E c \in calls[t] : Unauthorized(t, c) \/ Granted(t, c)

SsoSpec == SessionInit /\ [][SsoNext]_sessionVars /\ SessionFairness

(* A sign-in with the provider that the callback has accepted brings its   *)
(* tab into the application (auth.go:137 "Set token as cookie and redirect *)
(* to UI").                                                                *)
SsoReachesDashboard ==
    \A t \in Tab :
        (tab[t].nonce # NULL /\ tab[t].view = "to app") ~> (tab[t].view = "app")

==============================================================================
