------------------------------ MODULE BansView ------------------------------
(***************************************************************************)
(* views/Bans.vue: the health table, worst first, the windows each account *)
(* is limited in, the reset of an account, and the history of the limits,  *)
(* reloaded together every tenth tick of a 1 s timer.                      *)
(***************************************************************************)
EXTENDS View

CONSTANTS
  Listed,      \* number of accounts, in the order the server lists them
  MaxHistory   \* bound: limits struck in one behaviour

Rows == 1 .. Listed
Statuses == {"active", "error", "disabled"}
Never == 0
Window == 1     \* the end of every window; the clock is 0 or 1

Tables == [Rows -> [status : Statuses, until : {Never, Window}]]
Answers == [Rows -> [status : Statuses, until : {Never, Window}, rateLimited : BOOLEAN]]

TypeOK ==
  /\ CallsOK /\ srv.rows \in Tables /\ srv.history \in 0 .. MaxHistory
  /\ ui.mounted => /\ ui.rows \in Answers \union {<<>>}
                   /\ ui.history \in 0 .. MaxHistory
                   /\ ui.busy \subseteq {"loading", "historyLoading"}

\* The row of an account in the answer, computed when it is served.
List == [a \in Rows |-> [status |-> srv.rows[a].status, until |-> srv.rows[a].until,
                             rateLimited |-> srv.rows[a].until > srv.now]]

(* onMounted *)
BothLoads(cs) == Sending(Sending(cs, "load", NoArg), "load history", NoArg)
SpinsBoth(u) == Spins(Spins(u, "loading"), "historyLoading")

\* Bound: only the last account is in trouble at the start.
StartTables ==
  {t \in Tables : \A a \in Rows : t[a].until = Never /\ (a < Listed => t[a].status = "active")}

Init ==
  /\ srv \in [rows : StartTables, history : {0}, now : {0}]
  /\ ui = SpinsBoth([mounted |-> TRUE, ticking |-> TRUE, hidden |-> FALSE, busy |-> {},
                     rows |-> <<>>, history |-> 0])
  /\ calls = BothLoads({})

-----------------------------------------------------------------------------
(* What the view shows.                                                     *)

SeverityScore(r) ==
  CASE r.status = "error" -> 50
    [] r.status # "error" /\ r.rateLimited -> 30
    [] r.status = "disabled" /\ ~r.rateLimited -> 10
    [] OTHER -> 0

BeforeAscending(rows, x, y) == SeverityScore(rows[x]) < SeverityScore(rows[y])
Before(rows, x, y) == SeverityScore(rows[x]) > SeverityScore(rows[y])

\* A stable sort: rows that are equal stay in the order of the answer.
Ahead(x, y) == Before(ui.rows, x, y) \/ (~Before(ui.rows, y, x) /\ x < y)
Place(a) == 1 + Cardinality({b \in Rows : Ahead(b, a)})
SortedAccounts == [i \in Rows |-> CHOOSE a \in Rows : Place(a) = i]

\* rateEntries: the windows that are still open on the browser's clock.
RateEntries(r) == {u \in {r.until} : u > srv.now}

\* The note about the window hides the restore button.
Actions(r) ==
  IF RateEntries(r) # {} THEN "note" ELSE IF r.status # "active" THEN "restore" ELSE "-"

-----------------------------------------------------------------------------
(* The operator.                                                            *)

Refresh ==
  /\ ui.mounted /\ "loading" \notin ui.busy /\ Room(1)
  /\ calls' = Sending(calls, "load", NoArg) /\ Shows(Spins(ui, "loading")) /\ UNCHANGED srv

OnReset(a) ==
  /\ ui.mounted /\ a \in DOMAIN ui.rows /\ Actions(ui.rows[a]) = "restore" /\ Room(1)
  /\ calls' = Sending(calls, "reset", <<a>>) /\ UNCHANGED <<srv, ui>>

\* The button is disabled over an empty history.
ClearHistory ==
  /\ ui.mounted /\ ui.history # 0 /\ Room(1)
  /\ calls' = Sending(calls, "clear", NoArg) /\ UNCHANGED <<srv, ui>>

\* The tick, ten of them together.
Poll ==
  /\ ui.ticking /\ ~ui.hidden /\ Room(2)
  /\ calls' = BothLoads(calls) /\ Shows(SpinsBoth(ui)) /\ UNCHANGED srv

Hide == ui.mounted /\ ui' = [ui EXCEPT !.hidden = ~@] /\ UNCHANGED <<srv, calls>>
Leave == ui.mounted /\ ui' = Left /\ UNCHANGED <<srv, calls>>

-----------------------------------------------------------------------------
(* The server.  A window may be struck on an account in any status; its end *)
(* changes nothing but what the clock says.                                 *)

Strike(a) ==
  /\ srv.history < MaxHistory /\ srv.now = 0
  /\ srv' = [srv EXCEPT !.rows[a].until = Window, !.history = @ + 1]
  /\ UNCHANGED <<ui, calls>>
Expire == srv.now = 0 /\ srv' = [srv EXCEPT !.now = 1] /\ UNCHANGED <<ui, calls>>

Serve(c) ==
  /\ Unserved(c)
  /\ srv' = CASE c.op = "reset" -> [srv EXCEPT !.rows[c.arg[1]].status = "active"]
              [] c.op = "clear" -> [srv EXCEPT !.history = 0]
              [] OTHER -> srv
  /\ calls' = Replied(c, CASE c.op = "load" -> List [] c.op = "load history" -> <<srv.history>>
                           [] OTHER -> NoArg)
  /\ UNCHANGED ui

-----------------------------------------------------------------------------
(* The answers reach the view.                                              *)

Loaded(c) ==
  /\ c.op = "load" /\ Heard(c)
  /\ Shows([Stops(ui, "loading") EXCEPT !.rows = c.answer])
  /\ calls' = calls \ {c} /\ UNCHANGED srv

HistoryLoaded(c) ==
  /\ c.op = "load history" /\ Heard(c)
  /\ Shows([Stops(ui, "historyLoading") EXCEPT !.history = c.answer[1]])
  /\ calls' = calls \ {c} /\ UNCHANGED srv

ResetDone(c) ==
  /\ c.op = "reset" /\ Heard(c)
  /\ Shows(Spins(ui, "loading"))
  /\ calls' = Sending(calls \ {c}, "load", NoArg) /\ UNCHANGED srv

\* No reload: the table is emptied at once.
Cleared(c) ==
  /\ c.op = "clear" /\ Heard(c)
  /\ Shows([ui EXCEPT !.history = 0])
  /\ calls' = calls \ {c} /\ UNCHANGED srv

Fails(c) ==
  /\ c.state # "given up"
  /\ Shows(CASE c.op = "load" -> Stops(ui, "loading")
             [] c.op = "load history" -> Stops(ui, "historyLoading") [] OTHER -> ui)
  /\ calls' = GivenUp(c) /\ UNCHANGED srv

-----------------------------------------------------------------------------
Answered(c) == Loaded(c) \/ HistoryLoaded(c) \/ ResetDone(c) \/ Cleared(c)
Step(i) == \E c \in calls : c.id = i /\ (Serve(c) \/ Answered(c))

Operator == Refresh \/ ClearHistory \/ Hide \/ Leave \/ \E a \in Rows : OnReset(a)
Elsewhere == Expire \/ \E a \in Rows : Strike(a)
Faults == \E c \in calls : Fails(c) \/ Vanish(c)

Next == Operator \/ Poll \/ Elsewhere \/ Faults \/ \E i \in Slots : Step(i)
Fairness == WF_vars(Poll) /\ \A i \in Slots : WF_vars(Step(i))
Spec == Init /\ [][Next]_vars /\ Fairness

-----------------------------------------------------------------------------
\* Both tables are the server's while the tab is looked at.
Fresh == ui.mounted /\ ~ui.hidden => ui.rows = List /\ ui.history = srv.history

(* An account in trouble never stands below one without: severityScore       *)
(* weighs the status and the flag the server computed when it answered.     *)
Troubled(r) == r.status # "active" \/ r.rateLimited
WorstFirst ==
  ui.mounted /\ ui.rows # <<>> =>
    \A i, j \in Rows : i < j /\ Troubled(ui.rows[SortedAccounts[j]]) =>
       Troubled(ui.rows[SortedAccounts[i]])
=============================================================================
