----------------------------- MODULE WebSession -----------------------------
(***************************************************************************)
(* The dashboard's session in one browser tab: the axios wrapper           *)
(* (api/request.ts), the auth store, the router's guard, Login.vue and the *)
(* logout, against the password check and the lockout of the dashboard API *)
(* (dashapi.go).                                                           *)
(*                                                                         *)
(* A call carries the password stored when it is sent, is served in any    *)
(* order, and its answer is handled at any later time, in whatever state   *)
(* the tab is in by then; it may also be lost either way (network error,   *)
(* or the client's 30 s timeout).  Public calls (/health) ask for no       *)
(* password and change nothing here: they are left out.                    *)
(***************************************************************************)
EXTENDS Naturals, FiniteSets

CONSTANTS
  Views,      \* views the tab visits
  Passwords,  \* passwords a user may type
  Threshold,  \* lockoutThreshold
  MaxCalls    \* bound: calls in flight in one tab

None == ""    \* no password stored, none required, no view mounted

RouteNames == {"Login", "Overview", "Stats", "LoginTake", "Accounts", "Bans",
               "Models", "Proxy", "Logs", "Experimental"}
Public == {"Login"}

ASSUME ViewsAssumption == Views # {} /\ Views \subseteq RouteNames \ Public
ASSUME PasswordsAssumption == None \notin Passwords
ASSUME BoundsAssumption == Threshold \in Nat \ {0} /\ MaxCalls \in Nat \ {0}

VARIABLES
  secret,     \* server: DASHBOARD_PASSWORD, else API_KEY; None = open dashboard
  fails,      \* server: lockouts[ip].count
  locked,     \* server: lockouts[ip].blockedUntil lies ahead
  stored,     \* sessionStorage
  auth,       \* the auth store
  route,      \* the mounted view, None before the first navigation ends
  nav,        \* the navigation under way
  submitting, \* Login.vue
  calls       \* calls in flight

server == <<secret, fails, locked>>
page == <<route, nav, submitting>>
vars == <<secret, fails, locked, stored, auth, route, nav, submitting, calls>>

Kinds == {"guard",    \* probe the running navigation waits for
          "aborted",  \* probe of a navigation that another one replaced
          "mounted",  \* probe of Login.vue's onMounted
          "login",    \* probe of a submitted form
          "data"}     \* any other call of a view
Answers == {"open", "valid", "invalid", "ok", "401", "429"}
Call == [id : 1 .. MaxCalls, kind : Kinds, pw : Passwords \union {None},
         ans : Answers \union {None, "checked"}]   \* "checked": being served
Auth == [required : BOOLEAN, authenticated : BOOLEAN, ready : BOOLEAN]
Nav == [to : Views \union Public, at : {"guard", "load"}] \union {[at |-> "none"]}

CallsOK(cs) == cs \subseteq Call /\ \A c, d \in cs : c.id = d.id => c = d

\* A guard's probe is the one the navigation under way waits for.
OneGuard(cs, n) ==
  \A c \in cs : c.kind = "guard" => n.at = "guard" /\ \A d \in cs : d.kind = "guard" => d = c

TypeOK ==
  /\ secret \in Passwords \union {None} /\ fails \in 0 .. Threshold - 1 /\ locked \in BOOLEAN
  /\ stored \in Passwords \union {None}
  /\ auth \in Auth /\ nav \in Nav /\ route \in Views \union Public \union {None}
  /\ submitting \in BOOLEAN
  /\ CallsOK(calls) /\ OneGuard(calls, nav)

-----------------------------------------------------------------------------
(* api/request.ts                                                           *)

FreeIds(cs) == (1 .. MaxCalls) \ {c.id : c \in cs}

\* The request interceptor attaches the password stored when the call leaves.
Sending(cs, kind, pw) ==
  cs \union {[id |-> CHOOSE i \in FreeIds(cs) : TRUE, kind |-> kind, pw |-> pw, ans |-> None]}

\* The response interceptor's test.
MeansUnauthorizedAnyRefusal(ans) == ans \in {"401", "429"}
MeansUnauthorized(ans) == ans = "401"

(* stores/auth.ts: what probe() makes of the answer; a rejected call throws *)
(* before the store is touched.                                             *)
Probed(ans) ==
  IF ans \in {"open", "valid", "invalid"}
  THEN [required |-> ans # "open", authenticated |-> ans # "invalid", ready |-> TRUE]
  ELSE auth

-----------------------------------------------------------------------------
(* router/index.ts.  A navigation replaces the one under way, whose probe   *)
(* still reaches the store.  While the store is ready, beforeEach and its   *)
(* redirect run without a pause, up to the loading of the view's chunk.     *)

Idle == [at |-> "none"]
Abort(cs) == {IF c.kind = "guard" THEN [c EXCEPT !.kind = "aborted"] ELSE c : c \in cs}

\* While no probe has succeeded, beforeEach waits for one.
Ask(t, cs) ==
  /\ nav' = [to |-> t, at |-> "guard"]
  /\ FreeIds(cs) # {} /\ calls' = Sending(cs, "guard", stored)

Decide(a, t, cs) ==
  IF ~a.ready /\ t \notin Public THEN Ask("Login", cs)
  ELSE /\ nav' = [to |-> IF t \in Public \/ a.authenticated THEN t ELSE "Login", at |-> "load"]
       /\ calls' = cs

Navigate(a, t, cs) == IF a.ready THEN Decide(a, t, Abort(cs)) ELSE Ask(t, Abort(cs))

-----------------------------------------------------------------------------
(* The page is loaded: first visit or reload.  Calls of the page before it  *)
(* have nobody left to answer.  A new tab finds no password, or the one an   *)
(* earlier release left in localStorage, which getStoredPassword moves.     *)

Fresh == [required |-> FALSE, authenticated |-> FALSE, ready |-> FALSE]

Init ==
  /\ secret \in Passwords \union {None} /\ fails = 0 /\ locked = FALSE
  /\ stored \in Passwords \union {None}
  /\ auth = Fresh /\ route = None /\ nav = Idle /\ submitting = FALSE /\ calls = {}

Load(t) ==
  /\ auth' = Fresh /\ route' = None /\ submitting' = FALSE
  /\ Navigate(Fresh, t, {})
  /\ UNCHANGED <<server, stored>>

\* A menu, or the browser's own buttons, which work on the login page too.
Go(t) ==
  /\ route # None /\ nav = Idle
  /\ Navigate(auth, t, calls)
  /\ UNCHANGED <<server, stored, auth, route, submitting>>

-----------------------------------------------------------------------------
(* Login.vue                                                                *)

\* onMounted's verdict: nothing to ask for, so on to the query's target.
NothingToAsk(a) == ~a.required \/ a.authenticated

OnMounted ==
  IF ~auth.ready
  THEN FreeIds(calls) # {} /\ calls' = Sending(calls, "mounted", stored) /\ nav' = Idle
  ELSE IF NothingToAsk(auth) THEN \E v \in Views : Navigate(auth, v, calls)
       ELSE nav' = Idle /\ UNCHANGED calls

\* The view's chunk is there and the view is mounted.  Login.vue stays as it
\* is when only its query changes.
Mount ==
  /\ nav.at = "load"
  /\ route' = nav.to
  /\ submitting' = (submitting /\ nav.to = route)
  /\ IF nav.to = "Login" /\ route # "Login" THEN OnMounted ELSE nav' = Idle /\ UNCHANGED calls
  /\ UNCHANGED <<server, stored, auth>>

\* The submit button is inert while it shows its spinner.
Submit(p) ==
  /\ route = "Login" /\ ~submitting /\ FreeIds(calls) # {}
  /\ submitting' = TRUE /\ stored' = p
  /\ calls' = Sending(calls, "login", p)
  /\ UNCHANGED <<server, auth, route, nav>>

(* BasicLayout.vue *)
Logout ==
  /\ route \in Views
  /\ stored' = None /\ auth' = [auth EXCEPT !.authenticated = ~auth.required]
  /\ Navigate(auth', "Login", calls)
  /\ UNCHANGED <<server, route, submitting>>

\* Any view: a fetch on mount, a poll, a button.
Fetch ==
  /\ route \in Views /\ FreeIds(calls) # {}
  /\ calls' = Sending(calls, "data", stored)
  /\ UNCHANGED <<server, stored, auth, page>>

-----------------------------------------------------------------------------
(* dashapi.go: lockout, then /auth, then the password of everything else.   *)

Answer(c, a) == calls' = (calls \ {c}) \union {[c EXCEPT !.ans = a]}

CheckLockout(c) ==
  /\ c.ans = None /\ Answer(c, IF locked THEN "429" ELSE "checked")
  /\ UNCHANGED <<server, stored, auth, page>>

\* One more wrong password: at the threshold the address is locked out and
\* counted from nothing again.
LocksOut == fails + 1 >= Threshold
Counted == IF LocksOut THEN 0 ELSE fails + 1

\* The address may have been locked out since the check, by another call; the
\* right password lifts even that.
Compare(c) ==
  /\ c.ans = "checked"
  /\ \/ /\ secret \in {None, c.pw}
        /\ Answer(c, IF c.kind = "data" THEN "ok" ELSE IF secret = None THEN "open" ELSE "valid")
        /\ IF secret = None THEN UNCHANGED <<fails, locked>> ELSE fails' = 0 /\ locked' = FALSE
     \/ /\ secret \notin {None, c.pw}
        /\ locked' = (locked \/ LocksOut) /\ fails' = Counted
        /\ Answer(c, IF locked' THEN "429" ELSE IF c.kind = "data" THEN "401" ELSE "invalid")
  /\ UNCHANGED <<secret, stored, auth, page>>

\* lockoutDuration has passed, or the idle time of the address.
Unlock ==
  /\ locked \/ fails # 0
  /\ locked' = FALSE /\ fails' = 0
  /\ UNCHANGED <<secret, stored, auth, page, calls>>

\* The service is restarted with another password: the lockouts are gone.
Reconfigure(p) ==
  /\ p # secret /\ secret' = p /\ fails' = 0 /\ locked' = FALSE
  /\ calls' = {IF c.ans = "checked" THEN [c EXCEPT !.ans = None] ELSE c : c \in calls}
  /\ UNCHANGED <<stored, auth, page>>

-----------------------------------------------------------------------------
(* The answers reach the tab; a call may be lost instead, before it was     *)
(* served or after.                                                         *)

Outcomes(c) == (Answers \intersect {c.ans}) \union {"lost"}

\* probe() of the guard: an error is swallowed and the guard goes on.
GuardAnswered(c, ans) ==
  /\ c.kind = "guard"
  /\ auth' = Probed(ans)
  /\ Decide(auth', nav.to, calls \ {c})
  /\ UNCHANGED <<server, stored, route, submitting>>

AbortedAnswered(c, ans) ==
  /\ c.kind = "aborted"
  /\ auth' = Probed(ans) /\ calls' = calls \ {c}
  /\ UNCHANGED <<server, stored, page>>

\* onMounted goes on even if Login.vue has been left meanwhile.
MountedAnswered(c, ans) ==
  /\ c.kind = "mounted"
  /\ auth' = Probed(ans)
  /\ IF ans \notin {"429", "lost"} /\ NothingToAsk(auth')
     THEN \E v \in Views : Navigate(auth', v, calls \ {c})
     ELSE calls' = calls \ {c} /\ UNCHANGED nav
  /\ UNCHANGED <<server, stored, route, submitting>>

LoginAnswered(c, ans) ==
  /\ c.kind = "login"
  /\ auth' = Probed(ans) /\ submitting' = FALSE
  /\ IF ans \in {"open", "valid"}
     THEN \E v \in Views : Navigate(auth', v, calls \ {c})
     ELSE calls' = calls \ {c} /\ UNCHANGED nav
  /\ UNCHANGED <<server, stored, route>>

\* onUnauthorized's handler.
OnUnauthorizedKeeping(cs) ==
  /\ UNCHANGED auth
  /\ IF route # "Login" THEN Navigate(auth', "Login", cs) ELSE calls' = cs /\ UNCHANGED nav

OnUnauthorized(cs) ==
  /\ auth' = [auth EXCEPT !.authenticated = FALSE]
  /\ IF route # "Login" THEN Navigate(auth', "Login", cs) ELSE calls' = cs /\ UNCHANGED nav

DataAnswered(c, ans) ==
  /\ c.kind = "data"
  /\ IF MeansUnauthorized(ans) THEN OnUnauthorized(calls \ {c})
     ELSE calls' = calls \ {c} /\ UNCHANGED <<auth, nav>>
  /\ UNCHANGED <<server, stored, route, submitting>>

-----------------------------------------------------------------------------
Answered(c) ==
  \E ans \in Outcomes(c) :
    \/ GuardAnswered(c, ans) \/ AbortedAnswered(c, ans) \/ MountedAnswered(c, ans)
    \/ LoginAnswered(c, ans) \/ DataAnswered(c, ans)
User == (\E t \in Views \union Public : Load(t)) \/ (\E v \in Views : Go(v))
        \/ (\E p \in Passwords : Submit(p)) \/ Logout
Serve(c) == CheckLockout(c) \/ Compare(c)
Network == \E c \in calls : Serve(c)
Operator == Unlock \/ \E p \in Passwords \union {None} : Reconfigure(p)

Next == User \/ Mount \/ Fetch \/ Network \/ Operator \/ \E c \in calls : Answered(c)

\* The router goes on, and every call ends within 30 s: answered by the server
\* or given up by axios, and then handled.  Mount is strongly fair: a chunk,
\* once fetched, is there for the next navigation that needs it.
Fairness ==
  /\ SF_vars(Mount)
  /\ \A i \in 1 .. MaxCalls : WF_vars(\E c \in calls : c.id = i /\ (Serve(c) \/ Answered(c)))

Spec == Init /\ [][Next]_vars /\ Fairness

-----------------------------------------------------------------------------
(* A user who was in is thrown out only by logging out, by loading the page *)
(* again, or by the answer to a call that carried another password than     *)
(* the server's: never by a lockout, a lost call or a late answer to a call *)
(* that carried the right one.  The server may have been reconfigured       *)
(* between serving the call and the answer.                                 *)
DroppedForCause ==
  [][auth.authenticated /\ ~auth'.authenticated =>
       \/ stored' = None \/ auth' = Fresh
       \/ \E c \in calls \ calls' : c.ans \in {"401", "invalid"}]_vars

(* Login, guard and 401 handler send the tab to and fro on what the store   *)
(* says; once the user and the server's configuration rest, they agree on a *)
(* place.                                                                   *)
RouterSettles == <>[][~User /\ UNCHANGED secret]_vars => <>[](nav = Idle)
=============================================================================
