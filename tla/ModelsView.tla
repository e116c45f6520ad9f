----------------------------- MODULE ModelsView -----------------------------
(***************************************************************************)
(* views/Models.vue: the access policy (all models, an allowlist or a      *)
(* blocklist) and the chips of its list, over modelaccess.  A chip sends   *)
(* its model, a change of mode sends the list the view holds; every answer *)
(* carries the policy it leaves, and nothing polls.                        *)
(***************************************************************************)
EXTENDS View

CONSTANT Models

Modes == {"all", "allowlist", "blocklist"}
Policy == [mode : Modes, list : SUBSET Models]

TypeOK ==
  /\ CallsOK /\ srv \in Policy
  /\ ui.mounted => ui.config \in Policy /\ ui.busy \subseteq {"loading"}

(* onMounted *)
Init ==
  /\ srv \in Policy
  /\ ui = [mounted |-> TRUE, busy |-> {"loading"}, config |-> [mode |-> "all", list |-> {}],
           careful |-> TRUE]
  /\ calls = Sending({}, "load", NoArg)

-----------------------------------------------------------------------------
(* The operator.                                                            *)

Clicks(op, arg) ==
  /\ ui.mounted /\ Room(1) /\ calls' = Sending(calls, op, arg)
  /\ ui' = Careful(ui) /\ UNCHANGED srv

Refresh ==
  /\ ui.mounted /\ "loading" \notin ui.busy /\ Room(1)
  /\ calls' = Sending(calls, "load", NoArg)
  /\ ui' = Spins(Careful(ui), "loading") /\ UNCHANGED srv

OnModeChange(m) == ui.mounted /\ m # ui.config.mode /\ Clicks("put", <<m, ui.config.list>>)

\* The chips are there in the two list modes.
IsSelected(m) == m \in ui.config.list
Toggle(m) ==
  ui.mounted /\ ui.config.mode # "all" /\ Clicks(IF IsSelected(m) THEN "remove" ELSE "add", <<m>>)

Leave == ui.mounted /\ ui' = [mounted |-> FALSE] /\ UNCHANGED <<srv, calls>>

-----------------------------------------------------------------------------
(* dashapi.go over modelaccess.  The two setters of a PUT are one step.     *)

Serve(c) ==
  /\ Unserved(c)
  /\ srv' = CASE c.op = "put" -> [mode |-> c.arg[1], list |-> c.arg[2]]
              [] c.op = "add" -> [srv EXCEPT !.list = @ \union {c.arg[1]}]
              [] c.op = "remove" -> [srv EXCEPT !.list = @ \ {c.arg[1]}]
              [] OTHER -> srv
  /\ calls' = Replied(c, srv')
  /\ UNCHANGED ui

\* Another tab.
Elsewhere ==
  /\ \E p \in Policy : srv' = p /\ p # srv
  /\ ui' = (IF ui.mounted THEN Careless(ui) ELSE ui) /\ UNCHANGED calls

-----------------------------------------------------------------------------
(* The answers reach the view: every one of them replaces the policy shown. *)

AdoptedBlind(c) == Stops(ui, "loading")
Adopted(c) ==
  IF c.op = "load" THEN [Stops(ui, "loading") EXCEPT !.config = c.answer]
  ELSE [ui EXCEPT !.config = c.answer]

Answered(c) == Heard(c) /\ Shows(Adopted(c)) /\ calls' = calls \ {c} /\ UNCHANGED srv

Fails(c) ==
  /\ c.state # "given up"
  /\ Shows(Careless(IF c.op = "load" THEN Stops(ui, "loading") ELSE ui))
  /\ calls' = GivenUp(c) /\ UNCHANGED srv

-----------------------------------------------------------------------------
Step(i) == \E c \in calls : c.id = i /\ (Serve(c) \/ Answered(c))
Operator == Refresh \/ Leave \/ (\E m \in Modes : OnModeChange(m)) \/ \E m \in Models : Toggle(m)
Faults == \E c \in calls : Fails(c) \/ Vanish(c)
Next == Operator \/ Elsewhere \/ Faults \/ \E i \in Slots : Step(i)
Fairness == \A i \in Slots : WF_vars(Step(i))
Spec == Init /\ [][Next]_vars /\ Fairness

-----------------------------------------------------------------------------
(* The policy shown is the policy in force, for an operator who clicks with  *)
(* nothing in flight, while nothing fails and no other tab edits it.        *)
WhatYouSee == ui.mounted /\ ui.careful /\ calls = {} => ui.config = srv
=============================================================================
