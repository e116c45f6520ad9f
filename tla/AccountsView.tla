---------------------------- MODULE AccountsView ----------------------------
(***************************************************************************)
(* views/Accounts.vue: the table of accounts, its row operations, the form *)
(* that adds one, and the 10 s poll, over the dashboard API's rows of the  *)
(* pool.  Every operation that succeeds reloads the table; reloads and     *)
(* polls overlap, and an older table may arrive after a newer one.         *)
(***************************************************************************)
EXTENDS View

CONSTANTS Accounts, Tiers

Statuses == {"active", "disabled"}   \* the two the view tells apart
Row == [status : Statuses, tier : Tiers]
Tables == UNION {[S -> Row] : S \in SUBSET Accounts}

TypeOK ==
  /\ CallsOK /\ srv \in Tables
  /\ ui.mounted => ui.rows \in Tables /\ ui.busy \subseteq {"loading"}

(* onMounted *)
Init ==
  /\ srv \in Tables
  /\ ui = [mounted |-> TRUE, ticking |-> TRUE, hidden |-> FALSE, busy |-> {"loading"},
           rows |-> <<>>]
  /\ calls = Sending({}, "load", NoArg)

-----------------------------------------------------------------------------
\* What confirming the toggle of a row sends, whatever the server has by then.
ToggleSends(r) == IF r.status # "disabled" THEN "disabled" ELSE "active"

-----------------------------------------------------------------------------
(* The operator, any of whose clicks may overlap.                           *)

Clicks(op, arg) ==
  /\ ui.mounted /\ Room(1)
  /\ calls' = Sending(calls, op, arg)
  /\ UNCHANGED srv

\* load() from the refresh button, which is inert while it spins.
Refresh == ui.mounted /\ "loading" \notin ui.busy /\ Clicks("load", NoArg) /\ Shows(Spins(ui, "loading"))

Shown == IF ui.mounted THEN DOMAIN ui.rows ELSE {}

\* probe, credits and token of one row, probe and credits of all of them.
OnRenewOne(a) == a \in Shown /\ Clicks("renew", <<a>>) /\ UNCHANGED ui
OnRenewAll == Clicks("renew", NoArg) /\ UNCHANGED ui
OnRateLimit(a) == a \in Shown /\ Clicks("rate", <<a>>) /\ UNCHANGED ui
OnSetTier(a) == a \in Shown /\ (\E t \in Tiers : Clicks("tier", <<a, t>>)) /\ UNCHANGED ui
OnToggleDisabled(a) ==
  LET r == ui.rows[a]
  IN a \in Shown /\ Clicks("status", <<a, ToggleSends(r)>>) /\ UNCHANGED ui
OnRemove(a) == a \in Shown /\ Clicks("remove", <<a>>) /\ UNCHANGED ui

\* A key or token typed into the form, which is kept when adding it fails.
OnAdd(a) == Clicks("add", <<a>>) /\ UNCHANGED ui

\* The interval, 10 s apart and silent while the tab is hidden.
Poll ==
  /\ ui.ticking /\ ~ui.hidden /\ Room(1)
  /\ calls' = Sending(calls, "load", NoArg) /\ Shows(Spins(ui, "loading"))
  /\ UNCHANGED srv

Hide == ui.mounted /\ ui' = [ui EXCEPT !.hidden = ~@] /\ UNCHANGED <<srv, calls>>
Leave == ui.mounted /\ ui' = Left /\ UNCHANGED <<srv, calls>>

-----------------------------------------------------------------------------
(* dashapi.go, with the pool's side of each operation.                      *)

With(a, r) == [b \in DOMAIN srv \union {a} |-> IF b = a THEN r ELSE srv[b]]
Without(a) == [b \in DOMAIN srv \ {a} |-> srv[b]]

\* What the server may make of srv.  An operation on an account that is gone
\* changes nothing; an account that is already there is not added again.
Served(c) ==
  LET a == c.arg[1]
      known == a \in DOMAIN srv
      renewed == {b \in DOMAIN srv : c.arg \in {NoArg, <<b>>}}
  IN CASE c.op \in Reads -> {srv}
       [] c.op = "add" -> IF known THEN {srv} ELSE {With(a, [status |-> "active", tier |-> t]) : t \in Tiers}
       [] c.op = "remove" -> {Without(a)}
       [] c.op = "tier" -> {IF known THEN With(a, [srv[a] EXCEPT !.tier = c.arg[2]]) ELSE srv}
       [] c.op = "status" -> {IF known THEN With(a, [srv[a] EXCEPT !.status = c.arg[2]]) ELSE srv}
       [] c.op = "renew" -> {[b \in DOMAIN srv |-> IF b \in renewed THEN [srv[b] EXCEPT !.tier = t[b]] ELSE srv[b]] :
                               t \in [renewed -> Tiers]}

Serve(c) ==
  /\ Unserved(c) /\ srv' \in Served(c)
  /\ calls' = Replied(c, IF c.op = "load" THEN srv ELSE Nothing)
  /\ UNCHANGED ui

\* Another tab, the pool itself.
Elsewhere == \E t \in Tables : srv' = t /\ srv' # srv /\ UNCHANGED <<ui, calls>>

-----------------------------------------------------------------------------
(* The answers reach the view.                                              *)

Loaded(c) ==
  /\ c.op = "load" /\ Heard(c)
  /\ Shows([Stops(ui, "loading") EXCEPT !.rows = c.answer])
  /\ calls' = calls \ {c}
  /\ UNCHANGED srv

\* Every operation that succeeds reloads.
Done(c) ==
  /\ c.op \notin Reads /\ Heard(c)
  /\ Shows(Spins(ui, "loading"))
  /\ calls' = Sending(calls \ {c}, "load", NoArg)
  /\ UNCHANGED srv

RateShown(c) == c.op = "rate" /\ Heard(c) /\ calls' = calls \ {c} /\ UNCHANGED <<srv, ui>>

\* toast(err); load() also stops its spinner.
Fails(c) ==
  /\ c.state # "given up"
  /\ IF c.op = "load" THEN Shows(Stops(ui, "loading")) ELSE UNCHANGED ui
  /\ calls' = GivenUp(c)
  /\ UNCHANGED srv

-----------------------------------------------------------------------------
Answered(c) == Loaded(c) \/ Done(c) \/ RateShown(c)
Step(i) == \E c \in calls : c.id = i /\ (Serve(c) \/ Answered(c))

Operator == Refresh \/ OnRenewAll \/ Leave \/ Hide
            \/ \E a \in Accounts : OnRenewOne(a) \/ OnRateLimit(a) \/ OnSetTier(a)
                                   \/ OnToggleDisabled(a) \/ OnRemove(a) \/ OnAdd(a)
Faults == \E c \in calls : Fails(c) \/ Vanish(c)

Next == Operator \/ Poll \/ Elsewhere \/ Faults \/ \E i \in Slots : Step(i)

\* Calls are served and heard, the interval fires; operators and faults stay free.
Fairness == WF_vars(Poll) /\ \A i \in Slots : WF_vars(Step(i))
Spec == Init /\ [][Next]_vars /\ Fairness

-----------------------------------------------------------------------------
(* The table is the server's while the tab is looked at.                    *)
Fresh == ui.mounted /\ ~ui.hidden => ui.rows = srv
=============================================================================
