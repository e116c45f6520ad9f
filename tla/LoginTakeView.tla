--------------------------- MODULE LoginTakeView ---------------------------
(***************************************************************************)
(* views/LoginTake.vue: an account is taken by e-mail and password or      *)
(* through a popup of Firebase (composables/useFirebaseOAuth.ts), several  *)
(* attempts may run at once, and each of them ends in the history that the *)
(* browser keeps.  What an attempt awaits goes on after the view is left,  *)
(* over the refs of the view that is gone.                                 *)
(***************************************************************************)
EXTENDS View, SequencesExt

CONSTANTS
  MaxAttempts,  \* bound: attempts in one behaviour
  Cap           \* rows kept: 50 in the code

Popups == {"google", "github"}
Row == [n : 0 .. MaxAttempts, ok : BOOLEAN]   \* n = 0: recorded before the view was opened
Old == [n |-> 0, ok |-> TRUE]

(* srv is the browser's side: localStorage, and the SDK's module-wide       *)
(* promise, which keeps the failure of the first import for good.           *)
TypeOK ==
  /\ CallsOK
  /\ srv.sdk \in {"unloaded", "ready", "broken"}
  /\ srv.stored = Nothing \/ (srv.stored \in Seq(Row) /\ Len(srv.stored) <= Cap)
  /\ ui.history \in Seq(Row) /\ Len(ui.history) <= Cap
  /\ ui.busy \subseteq {"submitting", "testing"} /\ ui.oauthBusy \in Popups \union {Nothing}
  /\ ui.password \in BOOLEAN /\ ui.attempts \in 0 .. MaxAttempts /\ ui.last \in 0 .. MaxAttempts

\* A history that does not parse is no history.
LoadHistory(stored) == IF stored = Nothing THEN <<>> ELSE stored

(* onMounted.  attempts and last count and name attempts for the properties. *)
Init ==
  /\ srv \in [stored : {Nothing, <<Old>>}, sdk : {"unloaded"}]
  /\ ui = [mounted |-> TRUE, ticking |-> FALSE, busy |-> {}, oauthBusy |-> Nothing, password |-> FALSE,
           history |-> LoadHistory(srv.stored), attempts |-> 0, last |-> 0]
  /\ calls = {}

-----------------------------------------------------------------------------
(* The operator.                                                            *)

Attempt(op, arg, u) ==
  /\ ui.mounted /\ ui.attempts < MaxAttempts /\ Room(1)
  /\ calls' = Sending(calls, op, <<ui.attempts + 1, arg>>)
  /\ ui' = [u EXCEPT !.attempts = @ + 1] /\ UNCHANGED srv

TypePassword == ui.mounted /\ ~ui.password /\ ui' = [ui EXCEPT !.password = TRUE] /\ UNCHANGED <<srv, calls>>

\* The button is inert while it spins, the enter key is not.
OnEmailLogin == ui.password /\ Attempt("login", "email", Spins(ui, "submitting"))

\* One slot for both providers' spinners: a button is inert while its own spins.
OnOAuth(p) == ui.oauthBusy # p /\ Attempt("popup", p, [ui EXCEPT !.oauthBusy = p])

\* An incomplete proxy is told so at once; a complete one is tested.
OnTestProxy ==
  /\ ui.mounted /\ "testing" \notin ui.busy /\ Room(1)
  /\ calls' = Sending(calls, "testing", NoArg) /\ ui' = Spins(ui, "testing") /\ UNCHANGED srv

Leave == ui.mounted /\ ui' = [ui EXCEPT !.mounted = FALSE] /\ UNCHANGED <<srv, calls>>

-----------------------------------------------------------------------------
(* An attempt ends, well or not, in a row of the history (recordHistory,    *)
(* saveHistory); asLoginResult makes a row of every way a call may fail.    *)

RecordHistory(h, r) == SubSeq(<<r>> \o h, 1, IF Len(h) < Cap THEN Len(h) + 1 ELSE Cap)

\* u and sdk are the refs and the SDK without the new row.
Ends(c, ok, u, sdk) ==
  LET h == RecordHistory(ui.history, [n |-> c.arg[1], ok |-> ok])
  IN /\ ui' = [u EXCEPT !.history = h, !.last = c.arg[1]]
     /\ srv' = [stored |-> h, sdk |-> sdk]
     /\ calls' = calls \ {c}

\* ensure() and signInWithPopup: a user may leave the popup open for ever.
PopupDone(c) ==
  /\ c.op = "popup"
  /\ \/ /\ srv.sdk = "broken"
        /\ Ends(c, FALSE, [ui EXCEPT !.oauthBusy = Nothing], "broken")
     \/ /\ srv.sdk = "unloaded"
        /\ Ends(c, FALSE, [ui EXCEPT !.oauthBusy = Nothing], "broken")
     \/ /\ srv.sdk # "broken"
        /\ Ends(c, FALSE, [ui EXCEPT !.oauthBusy = Nothing], "ready")
     \/ /\ srv.sdk # "broken" /\ srv' = [srv EXCEPT !.sdk = "ready"]
        /\ calls' = Sending(calls \ {c}, "oauth", c.arg) /\ UNCHANGED ui

\* The service signs in, or refuses.
Serve(c) ==
  /\ c.op # "popup" /\ Unserved(c)
  /\ \E ok \in BOOLEAN : calls' = Replied(c, <<ok>>)
  /\ UNCHANGED <<srv, ui>>

\* What the two kinds of attempt do to the refs besides the row.
After(c, ok) ==
  IF c.op = "login" THEN [Stops(ui, "submitting") EXCEPT !.password = @ /\ ~ok]
  ELSE [ui EXCEPT !.oauthBusy = Nothing]

LoginEnds(c) ==
  c.op \in {"login", "oauth"} /\ Heard(c) /\ Ends(c, c.answer[1], After(c, c.answer[1]), srv.sdk)

Tested(c) ==
  c.op = "testing" /\ Heard(c) /\ ui' = Stops(ui, "testing") /\ calls' = calls \ {c} /\ UNCHANGED srv

\* The service may go on with an attempt that is recorded as failed; nobody
\* in the browser is left to see it.
Fails(c) ==
  \/ c.op \in {"login", "oauth"} /\ Ends(c, FALSE, After(c, FALSE), srv.sdk)
  \/ c.op = "testing" /\ ui' = Stops(ui, "testing") /\ calls' = calls \ {c} /\ UNCHANGED srv

-----------------------------------------------------------------------------
Answered(c) == LoginEnds(c) \/ Tested(c)
Step(i) == \E c \in calls : c.id = i /\ (Serve(c) \/ Answered(c))

Operator == TypePassword \/ OnEmailLogin \/ OnTestProxy \/ Leave \/ \E p \in Popups : OnOAuth(p)
Faults == \E c \in calls : Fails(c)

Next == Operator \/ Faults \/ (\E c \in calls : PopupDone(c)) \/ \E i \in Slots : Step(i)
Fairness == \A i \in Slots : WF_vars(Step(i))
Spec == Init /\ [][Next]_vars /\ Fairness

-----------------------------------------------------------------------------
(* The attempt that ended last is the first row on the screen and in the    *)
(* browser's storage, and no attempt has two rows, in whatever order the    *)
(* answers come (onEmailLogin, onOAuth, recordHistory).                     *)
NewestFirst ==
  /\ ui.last # 0 => ui.history[1].n = ui.last /\ srv.stored = ui.history
  /\ \A i, j \in DOMAIN ui.history : ui.history[i].n = ui.history[j].n => i = j
=============================================================================
