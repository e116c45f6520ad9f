-------------------------- MODULE WebSessionProofs --------------------------
(***************************************************************************)
(* Theorems about WebSession, for every set of views and passwords, every  *)
(* lockout threshold and any number of calls in flight.                    *)
(***************************************************************************)
EXTENDS WebSession, TLAPS

NoGuard(cs) == \A c \in cs : c.kind # "guard"
NavOK(cs, n) == n \in Nav /\ CallsOK(cs) /\ OneGuard(cs, n)

-----------------------------------------------------------------------------
(* A call that is sent gets an id of its own, and is unserved.              *)
LEMMA SendingOK ==
  ASSUME NEW cs, CallsOK(cs), FreeIds(cs) # {}, NEW kind \in Kinds,
         NEW pw \in Passwords \union {None}
  PROVE  /\ CallsOK(Sending(cs, kind, pw))
         /\ \A c \in Sending(cs, kind, pw) : c \in cs \/ (c.kind = kind /\ c.ans = None)
         /\ \A c, d \in Sending(cs, kind, pw) : c \notin cs /\ d \notin cs => c = d
<1> DEFINE i == CHOOSE j \in FreeIds(cs) : TRUE
           n == [id |-> i, kind |-> kind, pw |-> pw, ans |-> None]
<1>1. i \in FreeIds(cs)
  OBVIOUS
<1>2. i \in 1 .. MaxCalls /\ \A c \in cs : c.id # i
  BY <1>1 DEF FreeIds
<1>3. n \in Call /\ n.id = i /\ n.kind = kind /\ n.ans = None
  BY <1>2 DEF Call
<1>4. Sending(cs, kind, pw) = cs \union {n}
  BY DEF Sending
<1> HIDE DEF i, n
<1> QED
  BY <1>2, <1>3, <1>4 DEF CallsOK

(* Aborting a navigation's probe leaves no probe of a navigation.           *)
LEMMA AbortOK ==
  ASSUME NEW cs, CallsOK(cs)
  PROVE  CallsOK(Abort(cs)) /\ NoGuard(Abort(cs))
<1> DEFINE F(c) == IF c.kind = "guard" THEN [c EXCEPT !.kind = "aborted"] ELSE c
<1>1. \A c \in cs : F(c) \in Call /\ F(c).id = c.id /\ F(c).kind # "guard"
  BY DEF CallsOK, Call, Kinds
<1>2. Abort(cs) = {F(c) : c \in cs}
  BY DEF Abort
<1> HIDE DEF F
<1> QED
  BY <1>1, <1>2 DEF CallsOK, NoGuard

(* Every way to start a navigation, or to decide on one, keeps the store's  *)
(* calls apart and gives the navigation at most one probe.                  *)
LEMMA AskOK ==
  ASSUME NEW cs, CallsOK(cs), NoGuard(cs), NEW t \in Views \union Public,
         stored \in Passwords \union {None}, Ask(t, cs)
  PROVE  NavOK(calls', nav')
<1>1. nav' \in Nav /\ nav'.at = "guard"
  BY DEF Ask, Nav
<1>2. calls' = Sending(cs, "guard", stored) /\ FreeIds(cs) # {} /\ "guard" \in Kinds
  BY DEF Ask, Kinds
<1>3. CallsOK(calls')
  BY <1>2, SendingOK
<1>4. OneGuard(calls', nav')
  BY <1>1, <1>2, SendingOK DEF OneGuard, NoGuard
<1> QED
  BY <1>1, <1>3, <1>4 DEF NavOK

LEMMA DecideOK ==
  ASSUME NEW cs, CallsOK(cs), NoGuard(cs), NEW t \in Views \union Public, NEW a,
         stored \in Passwords \union {None}, Decide(a, t, cs)
  PROVE  NavOK(calls', nav')
<1>1. "Login" \in Views \union Public
  BY DEF Public
<1>2. CASE ~a.ready /\ t \notin Public
  BY <1>1, <1>2, AskOK DEF Decide
<1>3. CASE ~(~a.ready /\ t \notin Public)
  <2>1. nav' \in Nav /\ calls' = cs
    BY <1>1, <1>3 DEF Decide, Nav
  <2> QED
    BY <2>1 DEF NavOK, OneGuard, NoGuard
<1> QED
  BY <1>2, <1>3

LEMMA NavigateOK ==
  ASSUME NEW cs, CallsOK(cs), NEW t \in Views \union Public, NEW a,
         stored \in Passwords \union {None}, Navigate(a, t, cs)
  PROVE  NavOK(calls', nav')
<1>1. CallsOK(Abort(cs)) /\ NoGuard(Abort(cs))
  BY AbortOK
<1>2. CASE a.ready
  BY <1>1, <1>2, DecideOK DEF Navigate
<1>3. CASE ~a.ready
  BY <1>1, <1>3, AskOK DEF Navigate
<1> QED
  BY <1>2, <1>3

(* A call that left, or whose answer was filled in, leaves the rest in      *)
(* order.                                                                   *)
LEMMA WithoutOK ==
  ASSUME NEW cs, NEW n, NavOK(cs, n), NEW c
  PROVE  NavOK(cs \ {c}, n)
BY DEF NavOK, CallsOK, OneGuard

LEMMA AnswerOK ==
  ASSUME TypeOK, NEW c \in calls, NEW a \in Answers \union {None, "checked"}, Answer(c, a)
  PROVE  CallsOK(calls') /\ OneGuard(calls', nav)
<1> DEFINE d == [c EXCEPT !.ans = a]
<1>1. c \in Call
  BY DEF TypeOK, CallsOK
<1>2. d \in Call /\ d.id = c.id /\ d.kind = c.kind
  BY <1>1 DEF Call
<1>3. calls' = (calls \ {c}) \union {d}
  BY DEF Answer
<1> HIDE DEF d
<1>4. CallsOK(calls')
  BY <1>2, <1>3 DEF TypeOK, CallsOK
<1>5. OneGuard(calls', nav)
  BY <1>2, <1>3 DEF TypeOK, OneGuard
<1> QED
  BY <1>4, <1>5

(* What probe() makes of an answer is a state of the store.                 *)
LEMMA ProbedOK ==
  ASSUME auth \in Auth, NEW ans
  PROVE  Probed(ans) \in Auth
BY DEF Probed, Auth

-----------------------------------------------------------------------------
(* The types, with the bounds of the failure counter, the distinct ids and  *)
(* the one probe of a navigation, are an invariant by themselves.           *)
LEMMA InitTypeOK == Init => TypeOK
<1> SUFFICES ASSUME Init PROVE TypeOK
  OBVIOUS
<1>1. Fresh \in Auth /\ Idle \in Nav /\ None \in Views \union Public \union {None}
  BY DEF Fresh, Auth, Idle, Nav
<1>2. CallsOK({}) /\ OneGuard({}, Idle)
  BY DEF CallsOK, OneGuard
<1>3. 0 \in 0 .. Threshold - 1
  BY BoundsAssumption
<1> QED
  BY <1>1, <1>2, <1>3 DEF Init, TypeOK

LEMMA NextTypeOK == TypeOK /\ [Next]_vars => TypeOK'
<1> SUFFICES ASSUME TypeOK, [Next]_vars PROVE TypeOK'
  OBVIOUS
<1> USE DEF server, page
<1>a. /\ secret \in Passwords \union {None} /\ fails \in 0 .. Threshold - 1 /\ locked \in BOOLEAN
      /\ stored \in Passwords \union {None} /\ auth \in Auth
      /\ nav \in Nav /\ route \in Views \union Public \union {None}
      /\ submitting \in BOOLEAN /\ CallsOK(calls) /\ OneGuard(calls, nav)
  BY DEF TypeOK
<1>b. NavOK(calls, nav)
  BY <1>a DEF NavOK
<1>c. Idle \in Nav /\ Idle.at = "none" /\ "Login" \in Views \union Public /\ Views \subseteq Views \union Public
  BY DEF Idle, Nav, Public
<1>d. \A n \in Nav : n.at # "none" => n.to \in Views \union Public
  BY DEF Nav
<1>e. 0 \in 0 .. Threshold - 1 /\ Threshold \in Nat
  BY BoundsAssumption
<1>1. ASSUME NEW t \in Views \union Public, Load(t) PROVE TypeOK'
  <2>1. CallsOK({}) /\ Fresh \in Auth
    BY DEF CallsOK, Fresh, Auth
  <2>2. NavOK(calls', nav')
    BY <1>1, <1>a, <2>1, NavigateOK DEF Load
  <2> QED
    BY <1>1, <1>a, <2>1, <2>2 DEF Load, TypeOK, NavOK
<1>2. ASSUME NEW v \in Views, Go(v) PROVE TypeOK'
  <2>1. NavOK(calls', nav')
    BY <1>2, <1>a, <1>c, NavigateOK DEF Go
  <2> QED
    BY <1>2, <1>a, <2>1 DEF Go, TypeOK, NavOK
<1>3. ASSUME NEW p \in Passwords, Submit(p) PROVE TypeOK'
  <2>1. "login" \in Kinds /\ "login" # "guard"
    BY DEF Kinds
  <2>2. CallsOK(calls') /\ \A c \in calls' : c \in calls \/ c.kind = "login"
    BY <1>3, <1>a, <2>1, SendingOK DEF Submit
  <2>3. OneGuard(calls', nav)
    BY <1>a, <2>2 DEF OneGuard
  <2> QED
    BY <1>3, <1>a, <2>2, <2>3 DEF Submit, TypeOK
<1>4. CASE Logout
  <2>1. auth' \in Auth
    BY <1>4, <1>a DEF Logout, Auth
  <2>2. NavOK(calls', nav')
    BY <1>4, <1>a, <1>c, NavigateOK DEF Logout
  <2> QED
    BY <1>4, <1>a, <2>1, <2>2 DEF Logout, TypeOK, NavOK
<1>5. CASE Mount
  <2>1. nav.at = "load" /\ route' = nav.to /\ submitting' \in BOOLEAN
    BY <1>5, <1>a DEF Mount
  <2>2. route' \in Views \union Public
    BY <2>1, <1>a, <1>d
  <2>3. NoGuard(calls)
    BY <2>1, <1>a DEF OneGuard, NoGuard
  <2>4. NavOK(calls', nav')
    <3>1. CASE nav' = Idle /\ calls' = calls
      BY <3>1, <2>3, <1>a, <1>c DEF NavOK, OneGuard, NoGuard
    <3>2. CASE nav' = Idle /\ FreeIds(calls) # {} /\ calls' = Sending(calls, "mounted", stored)
      <4>1. "mounted" \in Kinds /\ "mounted" # "guard"
        BY DEF Kinds
      <4>2. CallsOK(calls') /\ \A c \in calls' : c \in calls \/ c.kind = "mounted"
        BY <3>2, <1>a, <4>1, SendingOK
      <4> QED
        BY <3>2, <4>1, <4>2, <2>3, <1>c DEF NavOK, OneGuard, NoGuard
    <3>3. CASE \E v \in Views : Navigate(auth, v, calls)
      BY <3>3, <1>a, <1>c, NavigateOK
    <3> QED
      BY <1>5, <3>1, <3>2, <3>3 DEF Mount, OnMounted
  <2> QED
    BY <1>5, <1>a, <2>1, <2>2, <2>4 DEF Mount, TypeOK, NavOK
<1>6. CASE Fetch
  <2>1. "data" \in Kinds /\ "data" # "guard"
    BY DEF Kinds
  <2>2. CallsOK(calls') /\ \A c \in calls' : c \in calls \/ c.kind = "data"
    BY <1>6, <1>a, <2>1, SendingOK DEF Fetch
  <2>3. OneGuard(calls', nav)
    BY <1>a, <2>2 DEF OneGuard
  <2> QED
    BY <1>6, <1>a, <2>2, <2>3 DEF Fetch, TypeOK
<1>7. ASSUME NEW c \in calls, CheckLockout(c) PROVE TypeOK'
  <2>1. \E a \in Answers \union {None, "checked"} : Answer(c, a)
    BY <1>7 DEF CheckLockout, Answers
  <2>2. CallsOK(calls') /\ OneGuard(calls', nav)
    BY <2>1, AnswerOK
  <2> QED
    BY <1>7, <1>a, <2>2 DEF CheckLockout, TypeOK
<1>8. ASSUME NEW c \in calls, Compare(c) PROVE TypeOK'
  <2>1. \E a \in Answers \union {None, "checked"} : Answer(c, a)
    BY <1>8 DEF Compare, Answers
  <2>2. CallsOK(calls') /\ OneGuard(calls', nav)
    BY <2>1, AnswerOK
  <2>3. fails' \in 0 .. Threshold - 1
    <3>1. Counted \in 0 .. Threshold - 1
      BY <1>a, <1>e DEF Counted, LocksOut
    <3> QED
      BY <1>8, <1>a, <1>e, <3>1 DEF Compare
  <2>4. locked' \in BOOLEAN
    BY <1>8, <1>a DEF Compare, LocksOut
  <2> QED
    BY <1>8, <1>a, <2>2, <2>3, <2>4 DEF Compare, TypeOK
<1>9. CASE Unlock
  BY <1>9, <1>a, <1>e DEF Unlock, TypeOK
<1>10. ASSUME NEW p \in Passwords \union {None}, Reconfigure(p) PROVE TypeOK'
  <2> DEFINE F(c) == IF c.ans = "checked" THEN [c EXCEPT !.ans = None] ELSE c
  <2>1. \A c \in calls : F(c) \in Call /\ F(c).id = c.id /\ F(c).kind = c.kind
    BY <1>a DEF CallsOK, Call
  <2>2. calls' = {F(c) : c \in calls}
    BY <1>10 DEF Reconfigure
  <2> HIDE DEF F
  <2>3. CallsOK(calls') /\ OneGuard(calls', nav)
    BY <1>a, <2>1, <2>2 DEF CallsOK, OneGuard
  <2> QED
    BY <1>10, <1>a, <1>e, <2>3 DEF Reconfigure, TypeOK
<1>11. ASSUME NEW c \in calls, NEW ans, GuardAnswered(c, ans) PROVE TypeOK'
  <2>1. nav.at = "guard" /\ NoGuard(calls \ {c}) /\ CallsOK(calls \ {c})
    BY <1>11, <1>a DEF GuardAnswered, OneGuard, NoGuard, CallsOK
  <2>2. NavOK(calls', nav')
    BY <1>11, <1>a, <1>d, <2>1, DecideOK DEF GuardAnswered
  <2>3. auth' \in Auth
    BY <1>11, <1>a, ProbedOK DEF GuardAnswered
  <2> QED
    BY <1>11, <1>a, <2>2, <2>3 DEF GuardAnswered, TypeOK, NavOK
<1>12. ASSUME NEW c \in calls, NEW ans, AbortedAnswered(c, ans) PROVE TypeOK'
  <2>1. auth' \in Auth
    BY <1>12, <1>a, ProbedOK DEF AbortedAnswered
  <2> QED
    BY <1>12, <1>a, <1>b, <2>1, WithoutOK DEF AbortedAnswered, TypeOK, NavOK
<1>13. ASSUME NEW c \in calls, NEW ans, MountedAnswered(c, ans) PROVE TypeOK'
  <2>1. auth' \in Auth
    BY <1>13, <1>a, ProbedOK DEF MountedAnswered
  <2>2. NavOK(calls \ {c}, nav) /\ CallsOK(calls \ {c})
    BY <1>b, WithoutOK DEF NavOK
  <2>3. NavOK(calls', nav')
    BY <1>13, <1>a, <1>c, <2>2, NavigateOK DEF MountedAnswered
  <2> QED
    BY <1>13, <1>a, <2>1, <2>3 DEF MountedAnswered, TypeOK, NavOK
<1>14. ASSUME NEW c \in calls, NEW ans, LoginAnswered(c, ans) PROVE TypeOK'
  <2>1. auth' \in Auth
    BY <1>14, <1>a, ProbedOK DEF LoginAnswered
  <2>2. NavOK(calls \ {c}, nav) /\ CallsOK(calls \ {c})
    BY <1>b, WithoutOK DEF NavOK
  <2>3. NavOK(calls', nav')
    BY <1>14, <1>a, <1>c, <2>2, NavigateOK DEF LoginAnswered
  <2> QED
    BY <1>14, <1>a, <2>1, <2>3 DEF LoginAnswered, TypeOK, NavOK
<1>15. ASSUME NEW c \in calls, NEW ans, DataAnswered(c, ans) PROVE TypeOK'
  <2>1. auth' \in Auth
    BY <1>15, <1>a DEF DataAnswered, OnUnauthorized, Auth
  <2>2. NavOK(calls \ {c}, nav) /\ CallsOK(calls \ {c})
    BY <1>b, WithoutOK DEF NavOK
  <2>3. NavOK(calls', nav')
    BY <1>15, <1>a, <1>c, <2>2, NavigateOK DEF DataAnswered, OnUnauthorized
  <2> QED
    BY <1>15, <1>a, <2>1, <2>3 DEF DataAnswered, TypeOK, NavOK
<1>16. CASE UNCHANGED vars
  BY <1>16, <1>a DEF vars, TypeOK, CallsOK, OneGuard
<1> QED
  BY <1>1, <1>2, <1>3, <1>4, <1>5, <1>6, <1>7, <1>8, <1>9, <1>10, <1>11, <1>12, <1>13, <1>14, <1>15, <1>16
  DEF Next, User, Network, Serve, Operator, Answered

(* The types hold in every reachable state.                                 *)
THEOREM TypeInvariance == Spec => []TypeOK
<1>1. Init => TypeOK
  BY InitTypeOK
<1>2. TypeOK /\ [Next]_vars => TypeOK'
  BY NextTypeOK
<1> QED
  BY <1>1, <1>2, PTL DEF Spec

-----------------------------------------------------------------------------
(* Only three things end a session: the operator's logout, a loaded page,   *)
(* and an answer that says the password was wrong.                          *)

\* An answered call is no more among the calls, whatever is sent with it.
LEMMA AnsweredLeaves ==
  ASSUME CallsOK(calls), NEW c \in calls, c.ans # None,
         NEW t, NEW a, Navigate(a, t, calls \ {c})
  PROVE  c \notin calls'
<1> DEFINE cs == Abort(calls \ {c})
<1>1. \A d \in cs : d.id # c.id
  BY DEF Abort, CallsOK, Call
<1>2. calls' = cs \/ (FreeIds(cs) # {} /\ calls' = Sending(cs, "guard", stored))
  BY DEF Navigate, Ask, Decide
<1>3. \A d \in Sending(cs, "guard", stored) : d \in cs \/ d.ans = None
  BY DEF Sending
<1> QED
  BY <1>1, <1>2, <1>3

LEMMA StepDropsForCause ==
  ASSUME TypeOK, [Next]_vars, auth.authenticated, ~auth'.authenticated
  PROVE  \/ stored' = None \/ auth' = Fresh
         \/ \E c \in calls \ calls' : c.ans \in {"401", "invalid"}
<1>a. CallsOK(calls) /\ OneGuard(calls, nav)
  BY DEF TypeOK
<1>b. auth' # auth
  OBVIOUS
<1>c. \A ans : ~Probed(ans).authenticated => ans = "invalid"
  BY DEF Probed
<1>d. \A c \in calls : \A ans \in Outcomes(c) : ans \in {"401", "invalid"} => ans = c.ans
  BY DEF Outcomes
<1>1. ASSUME NEW t \in Views \union Public, Load(t) PROVE auth' = Fresh
  BY <1>1 DEF Load
<1>2. CASE Logout
  BY <1>2 DEF Logout
<1>3. ASSUME NEW c \in calls, NEW ans \in Outcomes(c), GuardAnswered(c, ans)
      PROVE  c.ans = "invalid" /\ c \notin calls'
  <2>1. c.ans = "invalid"
    BY <1>3, <1>c, <1>d DEF GuardAnswered
  <2>2. calls' = calls \ {c} \/ calls' = Sending(calls \ {c}, "guard", stored)
    BY <1>3 DEF GuardAnswered, Decide, Ask
  <2>3. \A d \in Sending(calls \ {c}, "guard", stored) : d \in calls \ {c} \/ d.ans = None
    BY DEF Sending
  <2>4. c.ans # None
    BY <2>1 DEF None
  <2> QED
    BY <2>1, <2>2, <2>3, <2>4
<1>4. ASSUME NEW c \in calls, NEW ans \in Outcomes(c), AbortedAnswered(c, ans)
      PROVE  c.ans = "invalid" /\ c \notin calls'
  BY <1>4, <1>c, <1>d DEF AbortedAnswered
<1>5. ASSUME NEW c \in calls, NEW ans \in Outcomes(c), MountedAnswered(c, ans)
      PROVE  c.ans = "invalid" /\ c \notin calls'
  <2>1. c.ans = "invalid"
    BY <1>5, <1>c, <1>d DEF MountedAnswered
  <2> QED
    BY <1>5, <1>a, <2>1, AnsweredLeaves DEF MountedAnswered, None
<1>6. ASSUME NEW c \in calls, NEW ans \in Outcomes(c), LoginAnswered(c, ans)
      PROVE  c.ans = "invalid" /\ c \notin calls'
  <2>1. c.ans = "invalid"
    BY <1>6, <1>c, <1>d DEF LoginAnswered
  <2> QED
    BY <1>6, <1>a, <2>1, AnsweredLeaves DEF LoginAnswered, None
<1>7. ASSUME NEW c \in calls, NEW ans \in Outcomes(c), DataAnswered(c, ans)
      PROVE  c.ans = "401" /\ c \notin calls'
  <2>1. c.ans = "401"
    BY <1>7, <1>b, <1>d DEF DataAnswered, MeansUnauthorized
  <2> QED
    BY <1>7, <1>a, <2>1, AnsweredLeaves DEF DataAnswered, OnUnauthorized, None
<1>8. ASSUME NEW c \in calls, Answered(c) PROVE c.ans \in {"401", "invalid"} /\ c \notin calls'
  BY <1>8, <1>3, <1>4, <1>5, <1>6, <1>7 DEF Answered
<1>9. (\E v \in Views : Go(v)) \/ (\E p \in Passwords : Submit(p)) \/ Mount \/ Fetch \/ Network
      \/ Operator \/ UNCHANGED vars => auth' = auth
  BY DEF Go, Submit, Mount, Fetch, Network, Serve, CheckLockout, Compare, Operator, Unlock,
         Reconfigure, vars
<1> QED
  BY <1>b, <1>1, <1>2, <1>8, <1>9 DEF Next, User

(* A lockout, a lost call or a late answer to a call with the right         *)
(* password never throws a user out.                                        *)
THEOREM DropsForCause == Spec => DroppedForCause
<1>1. TypeOK /\ [Next]_vars =>
        [auth.authenticated /\ ~auth'.authenticated =>
           \/ stored' = None \/ auth' = Fresh
           \/ \E c \in calls \ calls' : c.ans \in {"401", "invalid"}]_vars
  BY StepDropsForCause
<1> QED
  BY <1>1, TypeInvariance, PTL DEF Spec, DroppedForCause
=============================================================================
