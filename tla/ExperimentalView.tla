-------------------------- MODULE ExperimentalView --------------------------
(***************************************************************************)
(* views/Experimental.vue over runtimecfg: the switch of the conversation  *)
(* reuse, the button that clears its pool, whose size is only displayed    *)
(* and left out, and the editor of each provider's identity template.      *)
(***************************************************************************)
EXTENDS View

CONSTANT Providers

Texts == {"", "default", "custom"}   \* "": nothing is injected
Prompts == UNION {[P -> Texts] : P \in SUBSET Providers}

Known(prompts, p, otherwise) == IF p \in DOMAIN prompts THEN prompts[p] ELSE otherwise

TypeOK ==
  /\ CallsOK /\ srv.reuse \in BOOLEAN /\ srv.prompts \in Prompts
  /\ ui.mounted => /\ ui.saving \in Providers \union {Nothing}
                   /\ ui.editing \in [Providers -> Texts]
                   /\ ui.busy = (IF ui.saving = Nothing THEN {} ELSE {"saving"})
                                \union (ui.busy \intersect {"loading"})

(* onMounted *)
Init ==
  /\ srv \in [reuse : {TRUE}, prompts : [Providers -> {"default"}]]
  /\ ui = [mounted |-> TRUE, busy |-> {"loading"}, reuse |-> FALSE,
           prompts |-> Nothing, editing |-> [p \in Providers |-> ""], saving |-> Nothing,
           careful |-> TRUE]
  /\ calls = Sending({}, "load", NoArg)

-----------------------------------------------------------------------------
(* The operator.                                                            *)

Clicks(op, arg, u) ==
  /\ ui.mounted /\ Room(1) /\ calls' = Sending(calls, op, arg)
  /\ ui' = Careful(u) /\ UNCHANGED srv

Refresh == ui.mounted /\ "loading" \notin ui.busy /\ Clicks("load", NoArg, Spins(ui, "loading"))
OnToggle == ui.mounted /\ Clicks("flags", <<~ui.reuse>>, ui)
OnClearPool == Clicks("clear pool", NoArg, ui)

\* The cards are those of the defaults, which come with the first answer.
Cards == IF ui.mounted /\ ui.prompts # Nothing THEN Providers ELSE {}
Type(p, t) == p \in Cards /\ ui.editing[p] # t /\ ui' = [ui EXCEPT !.editing[p] = t] /\ UNCHANGED <<srv, calls>>

\* One slot for the spinner of all providers; a save is inert while its own spins.
OnSavePrompt(p) ==
  /\ p \in Cards /\ ui.saving # p
  /\ Clicks("save", <<p, ui.editing[p]>>, [Spins(ui, "saving") EXCEPT !.saving = p])
OnResetPrompt(p) == p \in Cards /\ Clicks("reset", <<p>>, ui)

Leave == ui.mounted /\ ui' = [mounted |-> FALSE] /\ UNCHANGED <<srv, calls>>

-----------------------------------------------------------------------------
(* dashapi.go over runtimecfg.  Reset deletes the provider's entry, which   *)
(* only the next start fills with the default again.                        *)

Set(p, t) == [q \in DOMAIN srv.prompts \union {p} |-> IF q = p THEN t ELSE srv.prompts[q]]
Unset(p) == [q \in DOMAIN srv.prompts \ {p} |-> srv.prompts[q]]

Serve(c) ==
  /\ Unserved(c)
  /\ srv' = CASE c.op = "flags" -> [srv EXCEPT !.reuse = c.arg[1]]
              [] c.op = "save" -> [srv EXCEPT !.prompts = Set(c.arg[1], c.arg[2])]
              [] c.op = "reset" -> [srv EXCEPT !.prompts = Unset(c.arg[1])]
              [] OTHER -> srv
  /\ calls' = Replied(c, CASE c.op = "load" -> <<srv.reuse, srv.prompts>>
                           [] c.op = "flags" -> <<srv'.reuse>>
                           [] c.op \in {"save", "reset"} -> <<srv'.prompts>>
                           [] OTHER -> NoArg)
  /\ UNCHANGED ui

Restart ==
  /\ srv' = [srv EXCEPT !.prompts = [p \in Providers |-> IF p \in DOMAIN @ THEN @[p] ELSE "default"]]
  /\ srv' # srv
  /\ ui' = (IF ui.mounted THEN Careless(ui) ELSE ui) /\ UNCHANGED calls

-----------------------------------------------------------------------------
(* The answers reach the view.                                              *)

Saved(u) == [Stops(u, "saving") EXCEPT !.saving = Nothing]

Adopted(c) ==
  CASE c.op = "load" ->
         [Stops(ui, "loading") EXCEPT !.reuse = c.answer[1], !.prompts = c.answer[2],
            !.editing = [p \in Providers |-> Known(c.answer[2], p, "")]]
    [] c.op = "flags" -> [ui EXCEPT !.reuse = c.answer[1]]
    [] c.op = "clear pool" -> ui
    [] c.op = "save" -> [Saved(ui) EXCEPT !.prompts = c.answer[1]]
    [] c.op = "reset" -> [ui EXCEPT !.prompts = c.answer[1],
                            !.editing[c.arg[1]] = Known(c.answer[1], c.arg[1], "default")]

Answered(c) == Heard(c) /\ Shows(Adopted(c)) /\ calls' = calls \ {c} /\ UNCHANGED srv

Fails(c) ==
  /\ c.state # "given up"
  /\ Shows(Careless(CASE c.op = "load" -> Stops(ui, "loading") [] c.op = "save" -> Saved(ui) [] OTHER -> ui))
  /\ calls' = GivenUp(c) /\ UNCHANGED srv

-----------------------------------------------------------------------------
Step(i) == \E c \in calls : c.id = i /\ (Serve(c) \/ Answered(c))
Operator ==
  \/ Refresh \/ OnToggle \/ OnClearPool \/ Leave
  \/ \E p \in Providers : OnSavePrompt(p) \/ OnResetPrompt(p) \/ Type(p, "custom")
Faults == \E c \in calls : Fails(c) \/ Vanish(c)
Next == Operator \/ Restart \/ Faults \/ \E i \in Slots : Step(i)
Fairness == \A i \in Slots : WF_vars(Step(i))
Spec == Init /\ [][Next]_vars /\ Fairness

-----------------------------------------------------------------------------
(* The switch and the templates shown are the server's, for an operator who  *)
(* clicks with nothing in flight, while nothing fails or restarts.          *)
WhatYouSee == ui.mounted /\ ui.careful /\ calls = {} => ui.prompts = Nothing \/ (ui.reuse = srv.reuse /\ ui.prompts = srv.prompts)
=============================================================================
