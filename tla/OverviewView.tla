---------------------------- MODULE OverviewView ----------------------------
(***************************************************************************)
(* views/Overview.vue: the snapshot reloaded every 8 s whether or not the  *)
(* tab is seen, the cards asked for once, the clearing of the response     *)
(* cache, and the restart of the language servers, looked at again 2 s     *)
(* later.  One card stands for the configuration and the catalog, whose    *)
(* calls differ in nothing but the clear button.                           *)
(***************************************************************************)
EXTENDS View

TypeOK ==
  /\ CallsOK /\ srv \in [ls : BOOLEAN, cached : BOOLEAN]
  /\ ui.mounted => /\ ui.data \in [ls : BOOLEAN, cached : BOOLEAN] \union {Nothing}
                   /\ ui.config \in BOOLEAN /\ ui.busy \subseteq {"loading"}
  /\ ui.late \in BOOLEAN

(* onMounted *)
Init ==
  /\ srv \in [ls : BOOLEAN, cached : BOOLEAN]
  /\ ui = [mounted |-> TRUE, ticking |-> TRUE, hidden |-> FALSE, busy |-> {"loading"},
           data |-> Nothing, config |-> FALSE, late |-> FALSE]
  /\ calls = Sending(Sending({}, "load", NoArg), "config", NoArg)

-----------------------------------------------------------------------------
(* The operator.  The clear button lives in the configuration card.         *)

Clicks(op) == ui.mounted /\ Room(1) /\ calls' = Sending(calls, op, NoArg) /\ UNCHANGED <<srv, ui>>
OnClearCache == ui.mounted /\ ui.config /\ Clicks("clear")
OnRestartLS == Clicks("restart")

\* load() does not raise `loading' again.
Load == Room(1) /\ calls' = Sending(calls, "load", NoArg)
PollWhileEmpty == ui.ticking /\ ui.data = Nothing /\ Load /\ UNCHANGED <<srv, ui>>
Poll == ui.ticking /\ Load /\ UNCHANGED <<srv, ui>>

\* setTimeout(load, 2000): nothing cancels it.
LookAgain == ui.late /\ Load /\ ui' = [ui EXCEPT !.late = FALSE] /\ UNCHANGED srv

Leave ==
  ui.mounted /\ ui' = [mounted |-> FALSE, ticking |-> FALSE, late |-> ui.late] /\ UNCHANGED <<srv, calls>>

-----------------------------------------------------------------------------
(* The server.                                                              *)

Serve(c) ==
  /\ Unserved(c)
  /\ srv' = CASE c.op = "clear" -> [srv EXCEPT !.cached = FALSE]
              [] c.op = "restart" -> [srv EXCEPT !.ls = FALSE] [] OTHER -> srv
  /\ calls' = Replied(c, IF c.op = "load" THEN srv ELSE Nothing)
  /\ UNCHANGED ui

\* The language server comes and goes; answers fill the cache.
Elsewhere ==
  /\ \E s \in [ls : BOOLEAN, cached : {TRUE, srv.cached}] : srv' = s /\ s # srv
  /\ UNCHANGED <<ui, calls>>

-----------------------------------------------------------------------------
(* The answers reach the view.                                              *)

Loaded(c) ==
  /\ c.op = "load" /\ Heard(c)
  /\ Shows([Stops(ui, "loading") EXCEPT !.data = c.answer])
  /\ calls' = calls \ {c} /\ UNCHANGED srv

CardLoaded(c) ==
  /\ c.op = "config" /\ Heard(c)
  /\ Shows([ui EXCEPT !.config = TRUE])
  /\ calls' = calls \ {c} /\ UNCHANGED srv

CacheCleared(c) ==
  /\ c.op = "clear" /\ Heard(c)
  /\ calls' = Sending(calls \ {c}, "load", NoArg) /\ UNCHANGED <<srv, ui>>

Restarted(c) ==
  /\ c.op = "restart" /\ Heard(c)
  /\ ui' = [ui EXCEPT !.late = TRUE] /\ calls' = calls \ {c} /\ UNCHANGED srv

\* A card whose only call fails stays hidden, in silence.
Fails(c) ==
  /\ c.state # "given up"
  /\ Shows(IF c.op = "load" THEN Stops(ui, "loading") ELSE ui)
  /\ calls' = GivenUp(c) /\ UNCHANGED srv

-----------------------------------------------------------------------------
Answered(c) == Loaded(c) \/ CardLoaded(c) \/ CacheCleared(c) \/ Restarted(c)
Step(i) == \E c \in calls : c.id = i /\ (Serve(c) \/ Answered(c))

Operator == OnClearCache \/ OnRestartLS \/ Leave
Faults == \E c \in calls : Fails(c) \/ Vanish(c)

Next == Operator \/ Poll \/ LookAgain \/ Elsewhere \/ Faults \/ \E i \in Slots : Step(i)
Fairness == WF_vars(Poll) /\ WF_vars(LookAgain) /\ \A i \in Slots : WF_vars(Step(i))
Spec == Init /\ [][Next]_vars /\ Fairness

-----------------------------------------------------------------------------
\* The snapshot is the server's.
Fresh == ui.mounted => ui.data = srv
=============================================================================
