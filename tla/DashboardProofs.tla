-------------------------- MODULE DashboardProofs --------------------------
(***************************************************************************)
(* The dashboard's views, proved for any number of calls in flight: what   *)
(* Models.vue and Experimental.vue show is what the server has, the lists  *)
(* of Bans.vue, Stats.vue, LoginTake.vue and Logs.vue bury nothing, every  *)
(* number reads back as its value, and the state of every view keeps its   *)
(* types, whatever the calls in flight and the order of their answers.     *)
(***************************************************************************)
EXTENDS MCDashboard, FiniteSetTheorems, SequenceTheorems, WellFoundedInduction, TLAPS

\* The view's refs are a record of known fields, or the view is gone.
PolicyRefsOf(busy, config) == [mounted : {TRUE}, busy : {busy}, config : {config}, careful : BOOLEAN]
PolicyRefs == ui.mounted => ui \in PolicyRefsOf(ui.busy, ui.config)

\* A careful operator has at most one call in flight, nobody gave it up, and
\* once it is answered it brings the policy in force.
PolicyShown == calls = {} /\ ui.config = srv
PolicyOnTheWay(c) ==
  /\ calls = {c} /\ c.state # "given up"
  /\ c.state = "answered" => c.answer = srv

PolicyHolds == ui.mounted /\ ui.careful => PolicyShown \/ \E c : PolicyOnTheWay(c)
PolicyInv == PolicyRefs /\ PolicyHolds

-----------------------------------------------------------------------------
\* A click with nothing in flight sends the only call; any other is careless.
LEMMA PolicyClicks ==
  ASSUME PolicyInv, ui.mounted, NEW op, NEW arg, NEW busy, srv' = srv,
         calls' = MV!Sending(calls, op, arg),
         ui' \in PolicyRefsOf(busy, ui.config), ui'.careful => calls = {}
  PROVE  PolicyInv'
<1>1. PolicyRefs'
  BY DEF PolicyRefs, PolicyRefsOf
<1>2. ASSUME ui'.careful PROVE \E c : PolicyOnTheWay(c)'
  <2>1. calls = {}
    BY <1>2
  <2> DEFINE n == [id |-> CHOOSE i \in MV!Slots : TRUE, op |-> op, arg |-> arg,
                   state |-> "sent", answer |-> Nothing]
  <2>2. calls' = {n}
    <3>1. MV!Slots \ {c.id : c \in {}} = MV!Slots
      OBVIOUS
    <3> QED
      BY <2>1, <3>1 DEF MV!Sending
  <2>3. n.state = "sent"
    OBVIOUS
  <2> HIDE DEF n
  <2> QED
    BY <2>2, <2>3 DEF PolicyOnTheWay
<1> QED
  BY <1>1, <1>2 DEF PolicyInv, PolicyHolds

LEMMA PolicyStarts == MV!Init => PolicyInv
<1> SUFFICES ASSUME MV!Init PROVE PolicyInv
  OBVIOUS
<1>1. PolicyRefs
  BY DEF MV!Init, PolicyRefs, PolicyRefsOf
<1> DEFINE n == [id |-> CHOOSE i \in MV!Slots : TRUE, op |-> "load", arg |-> MV!NoArg,
                 state |-> "sent", answer |-> Nothing]
<1>2. calls = {n}
  <2>1. MV!Slots \ {c.id : c \in {}} = MV!Slots
    OBVIOUS
  <2> QED
    BY <2>1 DEF MV!Init, MV!Sending
<1>3. n.state = "sent"
  OBVIOUS
<1> HIDE DEF n
<1> QED
  BY <1>1, <1>2, <1>3 DEF PolicyInv, PolicyHolds, PolicyOnTheWay

LEMMA PolicyKeeps == PolicyInv /\ [MV!Next]_(MV!vars) => PolicyInv'
<1> SUFFICES ASSUME PolicyInv, [MV!Next]_(MV!vars) PROVE PolicyInv'
  OBVIOUS
<1>a. PolicyRefs /\ PolicyHolds
  BY DEF PolicyInv
<1>b. ui.mounted => ui \in PolicyRefsOf(ui.busy, ui.config)
  BY <1>a DEF PolicyRefs
<1>1. ASSUME NEW op, NEW arg, MV!Clicks(op, arg) PROVE PolicyInv'
  <2>1. ui' \in PolicyRefsOf(ui.busy, ui.config) /\ (ui'.careful => calls = {})
    BY <1>1, <1>b DEF MV!Clicks, MV!Careful, PolicyRefsOf
  <2> QED
    BY <1>1, <2>1, PolicyClicks DEF MV!Clicks
<1>2. CASE MV!Refresh
  <2>1. ui' \in PolicyRefsOf(ui.busy \union {"loading"}, ui.config) /\ (ui'.careful => calls = {})
    BY <1>2, <1>b DEF MV!Refresh, MV!Careful, MV!Spins, PolicyRefsOf
  <2> QED
    BY <1>2, <2>1, PolicyClicks DEF MV!Refresh
<1>3. CASE MV!Leave
  BY <1>3 DEF MV!Leave, PolicyInv, PolicyRefs, PolicyHolds
<1>4. CASE MV!Elsewhere
  <2>1. CASE ui.mounted
    <3>1. ui' \in PolicyRefsOf(ui.busy, ui.config) /\ ~ui'.careful
      BY <1>4, <2>1, <1>b DEF MV!Elsewhere, MV!Careless, PolicyRefsOf
    <3> QED
      BY <3>1 DEF PolicyInv, PolicyRefs, PolicyHolds, PolicyRefsOf
  <2>2. CASE ~ui.mounted
    BY <1>4, <2>2, <1>a DEF MV!Elsewhere, PolicyInv, PolicyRefs, PolicyHolds
  <2> QED
    BY <2>1, <2>2
<1>5. ASSUME NEW c \in calls, MV!Fails(c) PROVE PolicyInv'
  <2>1. CASE ui.mounted
    <3>1. MV!Careless(ui) \in PolicyRefsOf(ui.busy, ui.config) /\ ~MV!Careless(ui).careful
      BY <2>1, <1>b DEF MV!Careless, PolicyRefsOf
    <3>2. /\ MV!Careless(MV!Stops(ui, "loading")) \in PolicyRefsOf(ui.busy \ {"loading"}, ui.config)
          /\ ~MV!Careless(MV!Stops(ui, "loading")).careful
      BY <2>1, <1>b DEF MV!Careless, MV!Stops, PolicyRefsOf
    <3>3. ui' = MV!Careless(ui) \/ ui' = MV!Careless(MV!Stops(ui, "loading"))
      BY <1>5, <2>1 DEF MV!Fails, MV!Shows
    <3> QED
      BY <3>1, <3>2, <3>3 DEF PolicyInv, PolicyRefs, PolicyHolds, PolicyRefsOf
  <2>2. CASE ~ui.mounted
    BY <1>5, <2>2, <1>a DEF MV!Fails, MV!Shows, PolicyInv, PolicyRefs, PolicyHolds
  <2> QED
    BY <2>1, <2>2
<1>6. ASSUME NEW c \in calls, MV!Vanish(c) PROVE PolicyInv'
  BY <1>6, <1>a DEF MV!Vanish, PolicyInv, PolicyRefs, PolicyHolds, PolicyShown, PolicyOnTheWay
<1>7. ASSUME NEW c \in calls, MV!Serve(c) PROVE PolicyInv'
  <2>1. ui' = ui /\ PolicyRefs' /\ calls' = MV!Replied(c, srv')
    BY <1>7, <1>a DEF MV!Serve, PolicyRefs
  <2>2. ASSUME ui.mounted, ui.careful PROVE \E d : PolicyOnTheWay(d)'
    <3>1. calls = {c} /\ c.state # "given up"
      BY <2>2, <1>a DEF PolicyHolds, PolicyShown, PolicyOnTheWay
    <3> DEFINE d == [id |-> c.id, op |-> c.op, arg |-> c.arg, state |-> "answered", answer |-> srv']
    <3>2. d.state = "answered" /\ d.answer = srv'
      OBVIOUS
    <3>3. calls' = {d}
      BY <2>1, <3>1 DEF MV!Replied
    <3> HIDE DEF d
    <3> QED
      BY <3>2, <3>3 DEF PolicyOnTheWay
  <2> QED
    BY <2>1, <2>2 DEF PolicyInv, PolicyHolds
<1>8. ASSUME NEW c \in calls, MV!Answered(c) PROVE PolicyInv'
  <2>1. CASE ~ui.mounted
    BY <1>8, <2>1, <1>a DEF MV!Answered, MV!Shows, PolicyInv, PolicyRefs, PolicyHolds
  <2>2. CASE ui.mounted
    <3>1. ui' = MV!Adopted(c)
      BY <1>8, <2>2 DEF MV!Answered, MV!Shows
    <3>2. PolicyRefs' /\ ui'.config = c.answer /\ ui'.careful = ui.careful
      <4>1. CASE c.op = "load"
        <5>1. /\ MV!Adopted(c) \in PolicyRefsOf(ui.busy \ {"loading"}, c.answer)
              /\ MV!Adopted(c).config = c.answer /\ MV!Adopted(c).careful = ui.careful
          BY <4>1, <1>b, <2>2 DEF MV!Adopted, MV!Stops, PolicyRefsOf
        <5> QED
          BY <3>1, <5>1 DEF PolicyRefs, PolicyRefsOf
      <4>2. CASE c.op # "load"
        <5>1. /\ MV!Adopted(c) \in PolicyRefsOf(ui.busy, c.answer)
              /\ MV!Adopted(c).config = c.answer /\ MV!Adopted(c).careful = ui.careful
          BY <4>2, <1>b, <2>2 DEF MV!Adopted, PolicyRefsOf
        <5> QED
          BY <3>1, <5>1 DEF PolicyRefs, PolicyRefsOf
      <4> QED
        BY <4>1, <4>2
    <3>3. ASSUME ui.careful PROVE PolicyShown'
      <4>1. calls = {c} /\ c.answer = srv
        BY <1>8, <2>2, <3>3, <1>a DEF MV!Answered, MV!Heard, PolicyHolds, PolicyShown, PolicyOnTheWay
      <4> QED
        BY <1>8, <4>1, <3>2 DEF MV!Answered, PolicyShown
    <3> QED
      BY <3>2, <3>3 DEF PolicyInv, PolicyHolds
  <2> QED
    BY <2>1, <2>2
<1>9. CASE UNCHANGED MV!vars
  BY <1>9, <1>a DEF MV!vars, PolicyInv, PolicyRefs, PolicyHolds, PolicyShown, PolicyOnTheWay
<1> QED
  BY <1>1, <1>2, <1>3, <1>4, <1>5, <1>6, <1>7, <1>8, <1>9
  DEF MV!Next, MV!Operator, MV!OnModeChange, MV!Toggle, MV!Faults, MV!Step

(* At rest, the policy on the screen is the policy in force, for an          *)
(* operator who waits for each answer and hears of no failure.              *)
THEOREM ShowsThePolicy == MV!Spec => []MV!WhatYouSee
<1>1. MV!Init => PolicyInv
  BY PolicyStarts
<1>2. PolicyInv /\ [MV!Next]_(MV!vars) => PolicyInv'
  BY PolicyKeeps
<1>3. PolicyInv => MV!WhatYouSee
  BY DEF PolicyInv, PolicyHolds, PolicyShown, PolicyOnTheWay, MV!WhatYouSee
<1> QED
  BY <1>1, <1>2, <1>3, PTL DEF MV!Spec

\* The view's refs, with anything in them, or the view is gone.
SettingsRefsOf(u) ==
  [mounted : {TRUE}, busy : {u.busy}, reuse : {u.reuse}, prompts : {u.prompts},
   editing : {u.editing}, saving : {u.saving}, careful : BOOLEAN]
SettingsOps == {"load", "flags", "clear pool", "save", "reset"}
SettingsCall(c) ==
  c \in [id : {c.id}, op : SettingsOps, arg : {c.arg}, state : {c.state}, answer : {c.answer}]
SettingsRefs ==
  /\ \A c \in calls : SettingsCall(c)
  /\ srv = [reuse |-> srv.reuse, prompts |-> srv.prompts]
  /\ ui.mounted => ui \in SettingsRefsOf(ui)

ReuseShown == ui.reuse = srv.reuse
PromptsShown == ui.prompts = srv.prompts

\* Nothing is shown before the first answer.
SettingsShown == ui.prompts = Nothing \/ (ReuseShown /\ PromptsShown)

\* What a careful operator waits for: the part of the settings that the call does not
\* bring is shown already, and once it is answered it brings the other part.
Brings(c) ==
  /\ c.state \in {"sent", "answered"}
  /\ \/ /\ c.op = "load"
        /\ c.state = "answered" => c.answer = <<srv.reuse, srv.prompts>>
     \/ /\ c.op = "flags" /\ (ui.prompts = Nothing \/ PromptsShown)
        /\ c.state = "answered" => c.answer = <<srv.reuse>>
     \/ /\ c.op \in {"save", "reset"} /\ ReuseShown
        /\ c.state = "answered" => c.answer = <<srv.prompts>>
     \/ c.op = "clear pool" /\ SettingsShown

SettingsHold ==
  ui.mounted /\ ui.careful =>
    (calls = {} /\ SettingsShown) \/ \E c : calls = {c} /\ Brings(c)

SettingsInv == SettingsRefs /\ SettingsHold

LEMMA SettingsStart == EV!Init => SettingsInv
<1> SUFFICES ASSUME EV!Init PROVE SettingsInv
  OBVIOUS
<1> DEFINE n == [id |-> CHOOSE i \in EV!Slots : TRUE, op |-> "load", arg |-> EV!NoArg,
                 state |-> "sent", answer |-> Nothing]
<1>1. calls = {n}
  <2>1. EV!Slots \ {c.id : c \in {}} = EV!Slots
    OBVIOUS
  <2> QED BY <2>1 DEF EV!Init, EV!Sending
<1>2. n.state = "sent" /\ n.op = "load" /\ SettingsCall(n)
  BY DEF SettingsCall, SettingsOps
<1> HIDE DEF n
<1>3. SettingsRefs
  BY <1>1, <1>2 DEF EV!Init, SettingsRefs, SettingsRefsOf
<1> QED BY <1>1, <1>2, <1>3 DEF SettingsInv, SettingsHold, Brings

\* A click with nothing in flight sends the only call; any other is careless.
LEMMA SettingsClicks ==
  ASSUME SettingsInv, ui.mounted, srv' = srv,
         NEW op \in SettingsOps, NEW arg,
         calls' = EV!Sending(calls, op, arg),
         ui' \in SettingsRefsOf(ui'), ui'.reuse = ui.reuse, ui'.prompts = ui.prompts,
         ui'.careful => ui.careful /\ calls = {},
         op \in {"save", "reset"} => ui.prompts # Nothing
  PROVE  SettingsInv'
<1>1. SettingsRefs'
  <2>1. PICK i : calls' = calls \cup {[id |-> i, op |-> op, arg |-> arg, state |-> "sent",
                                        answer |-> Nothing]}
    BY DEF EV!Sending
  <2> DEFINE n == [id |-> i, op |-> op, arg |-> arg, state |-> "sent", answer |-> Nothing]
  <2>2. SettingsCall(n)
    BY DEF SettingsCall
  <2> HIDE DEF n
  <2> QED BY <2>1, <2>2 DEF SettingsInv, SettingsRefs, n
<1>2. ASSUME ui'.careful PROVE \E c : calls' = {c} /\ Brings(c)'
  <2>1. calls = {} /\ SettingsShown
    BY <1>2 DEF SettingsInv, SettingsHold
  <2> DEFINE n == [id |-> CHOOSE i \in EV!Slots : TRUE, op |-> op, arg |-> arg,
                   state |-> "sent", answer |-> Nothing]
  <2>2. calls' = {n}
    <3>1. EV!Slots \ {c.id : c \in {}} = EV!Slots
      OBVIOUS
    <3> QED BY <2>1, <3>1 DEF EV!Sending
  <2>3. n.state = "sent" /\ n.op = op
    OBVIOUS
  <2> HIDE DEF n
  <2>4. Brings(n)'
    BY <2>1, <2>3 DEF Brings, SettingsShown, ReuseShown, PromptsShown, SettingsOps
  <2> QED BY <2>2, <2>4
<1> QED BY <1>1, <1>2 DEF SettingsInv, SettingsHold

\* The service takes a call and answers it.
LEMMA SettingsServed ==
  ASSUME SettingsInv, NEW c \in calls, EV!Serve(c)
  PROVE  SettingsInv'
<1>1. ui' = ui /\ c.state # "answered"
  BY DEF EV!Serve, EV!Unserved
<1>2. /\ c.op = "flags" => srv' = [srv EXCEPT !.reuse = c.arg[1]]
      /\ c.op = "save" => srv' = [srv EXCEPT !.prompts = EV!Set(c.arg[1], c.arg[2])]
      /\ c.op = "reset" => srv' = [srv EXCEPT !.prompts = EV!Unset(c.arg[1])]
      /\ c.op \notin {"flags", "save", "reset"} => srv' = srv
  BY DEF EV!Serve
<1>3. /\ srv' = [reuse |-> srv'.reuse, prompts |-> srv'.prompts]
      /\ c.op # "flags" => srv'.reuse = srv.reuse
      /\ c.op \notin {"save", "reset"} => srv'.prompts = srv.prompts
  BY <1>2 DEF SettingsInv, SettingsRefs
<1>4. SettingsRefs'
  <2>1. PICK a : calls' = EV!Replied(c, a)
    BY DEF EV!Serve
  <2> DEFINE d == [id |-> c.id, op |-> c.op, arg |-> c.arg, state |-> "answered", answer |-> a]
  <2>2. SettingsCall(d)
    BY DEF SettingsCall, SettingsInv, SettingsRefs
  <2>3. calls' \subseteq calls \cup {d}
    BY <2>1 DEF EV!Replied
  <2> HIDE DEF d
  <2> QED BY <1>1, <1>3, <2>2, <2>3 DEF SettingsInv, SettingsRefs
<1>5. ASSUME ui.mounted, ui.careful PROVE \E d : calls' = {d} /\ Brings(d)'
  <2>1. calls = {c} /\ Brings(c)
    BY <1>5 DEF SettingsInv, SettingsHold
  <2>2. PICK a : /\ calls' = EV!Replied(c, a)
                 /\ c.op = "load" => a = <<srv.reuse, srv.prompts>>
                 /\ c.op = "flags" => a = <<srv'.reuse>>
                 /\ c.op \in {"save", "reset"} => a = <<srv'.prompts>>
    BY DEF EV!Serve
  <2> DEFINE d == [id |-> c.id, op |-> c.op, arg |-> c.arg, state |-> "answered", answer |-> a]
  <2>3. d.state = "answered" /\ d.answer = a /\ d.op = c.op
    OBVIOUS
  <2>4. calls' = {d}
    BY <1>1, <2>1, <2>2 DEF EV!Replied, Brings
  <2> HIDE DEF d
  <2>5. Brings(d)'
    BY <1>1, <1>3, <2>1, <2>2, <2>3 DEF Brings, SettingsShown, ReuseShown, PromptsShown
  <2> QED BY <2>4, <2>5
<1> QED BY <1>1, <1>4, <1>5 DEF SettingsInv, SettingsHold

\* An answer is adopted.
LEMMA SettingsAdopted ==
  ASSUME SettingsInv, NEW c \in calls, EV!Answered(c)
  PROVE  SettingsInv'
<1>1. calls' = calls \ {c} /\ srv' = srv /\ c.state = "answered" /\ c.op \in SettingsOps
  BY DEF EV!Answered, EV!Heard, SettingsInv, SettingsRefs, SettingsCall
<1>2. CASE ~ui.mounted
  BY <1>1, <1>2 DEF EV!Answered, EV!Shows, SettingsInv, SettingsRefs, SettingsHold
<1>3. CASE ui.mounted
  <2>1. ui' = EV!Adopted(c) /\ ui \in SettingsRefsOf(ui)
    BY <1>3 DEF EV!Answered, EV!Shows, SettingsInv, SettingsRefs
  <2>2. /\ ui' \in SettingsRefsOf(ui') /\ ui'.careful = ui.careful
        /\ c.op = "load" => ui'.reuse = c.answer[1] /\ ui'.prompts = c.answer[2]
        /\ c.op = "flags" => ui'.reuse = c.answer[1] /\ ui'.prompts = ui.prompts
        /\ c.op = "clear pool" => ui'.reuse = ui.reuse /\ ui'.prompts = ui.prompts
        /\ c.op \in {"save", "reset"} => ui'.reuse = ui.reuse /\ ui'.prompts = c.answer[1]
    <3>1. CASE c.op = "load"
      BY <2>1, <3>1 DEF EV!Adopted, EV!Stops, SettingsRefsOf
    <3>2. CASE c.op = "flags"
      BY <2>1, <3>2 DEF EV!Adopted, SettingsRefsOf
    <3>3. CASE c.op = "clear pool"
      BY <2>1, <3>3 DEF EV!Adopted, SettingsRefsOf
    <3>4. CASE c.op = "save"
      BY <2>1, <3>4 DEF EV!Adopted, EV!Saved, EV!Stops, SettingsRefsOf
    <3>5. CASE c.op = "reset"
      <4>1. PICK e : ui' = [ui EXCEPT !.prompts = c.answer[1], !.editing = e]
        BY <2>1, <3>5 DEF EV!Adopted
      <4> QED BY <2>1, <3>5, <4>1 DEF SettingsRefsOf
    <3> QED BY <1>1, <3>1, <3>2, <3>3, <3>4, <3>5 DEF SettingsOps
  <2>3. SettingsRefs'
    BY <1>1, <2>2 DEF SettingsInv, SettingsRefs
  <2>4. ASSUME ui.careful PROVE calls' = {} /\ SettingsShown'
    <3>1. calls = {c} /\ Brings(c)
      BY <1>3, <2>4 DEF SettingsInv, SettingsHold
    <3>2. CASE c.op = "load"
      <4>1. c.answer = <<srv.reuse, srv.prompts>>
        BY <1>1, <3>1, <3>2 DEF Brings
      <4>2. c.answer[1] = srv.reuse /\ c.answer[2] = srv.prompts
        BY <4>1
      <4> QED BY <1>1, <2>2, <3>1, <3>2, <4>2 DEF SettingsShown, ReuseShown, PromptsShown
    <3>3. CASE c.op = "flags"
      <4>1. c.answer = <<srv.reuse>> /\ (ui.prompts = Nothing \/ PromptsShown)
        BY <1>1, <3>1, <3>3 DEF Brings
      <4>2. c.answer[1] = srv.reuse
        BY <4>1
      <4> QED BY <1>1, <2>2, <3>1, <3>3, <4>1, <4>2 DEF SettingsShown, ReuseShown, PromptsShown
    <3>4. CASE c.op \in {"save", "reset"}
      <4>1. c.answer = <<srv.prompts>> /\ ReuseShown
        BY <1>1, <3>1, <3>4 DEF Brings
      <4>2. c.answer[1] = srv.prompts
        BY <4>1
      <4> QED BY <1>1, <2>2, <3>1, <3>4, <4>1, <4>2 DEF SettingsShown, ReuseShown, PromptsShown
    <3>5. CASE c.op = "clear pool"
      BY <1>1, <2>2, <3>1, <3>5 DEF Brings, SettingsShown, ReuseShown, PromptsShown
    <3> QED BY <1>1, <3>2, <3>3, <3>4, <3>5 DEF SettingsOps
  <2> QED BY <2>2, <2>3, <2>4 DEF SettingsInv, SettingsHold
<1> QED BY <1>2, <1>3

\* A step after which the operator is not careful any more, or gone.
LEMMA SettingsSpoilt ==
  ASSUME SettingsInv, \A c \in calls' : SettingsCall(c),
         srv' = [reuse |-> srv'.reuse, prompts |-> srv'.prompts],
         ui'.mounted => ui' \in SettingsRefsOf(ui') /\ ~ui'.careful
  PROVE  SettingsInv'
  BY DEF SettingsInv, SettingsRefs, SettingsHold, SettingsCall

LEMMA SettingsKeep == ASSUME SettingsInv, [EV!Next]_(EV!vars) PROVE SettingsInv'
<1>0. SettingsRefs /\ SettingsHold
  BY DEF SettingsInv
<1>r. ui.mounted => ui \in SettingsRefsOf(ui)
  BY <1>0 DEF SettingsRefs
<1>1. ASSUME NEW op \in SettingsOps, NEW arg, NEW u, EV!Clicks(op, arg, u),
             u \in SettingsRefsOf(u), u.reuse = ui.reuse, u.prompts = ui.prompts,
             u.careful = ui.careful, op \in {"save", "reset"} => ui.prompts # Nothing
      PROVE  SettingsInv'
  <2>1. /\ ui' \in SettingsRefsOf(ui') /\ ui'.reuse = u.reuse /\ ui'.prompts = u.prompts
        /\ ui'.careful => u.careful /\ calls = {}
    BY <1>1 DEF EV!Clicks, EV!Careful, SettingsRefsOf
  <2> QED BY <1>1, <2>1, SettingsClicks DEF EV!Clicks
<1>2. CASE EV!Refresh
  <2>1. PICK u : u = EV!Spins(ui, "loading")
    OBVIOUS
  <2>2. /\ u \in SettingsRefsOf(u) /\ u.reuse = ui.reuse /\ u.prompts = ui.prompts
        /\ u.careful = ui.careful
    BY <1>2, <1>r, <2>1 DEF EV!Refresh, EV!Spins, SettingsRefsOf
  <2>3. EV!Clicks("load", EV!NoArg, u)
    BY <1>2, <2>1 DEF EV!Refresh
  <2> QED BY <1>1, <2>2, <2>3 DEF SettingsOps
<1>3. CASE EV!OnToggle \/ EV!OnClearPool
  <2>1. /\ ui.mounted
        /\ EV!Clicks("flags", <<~ui.reuse>>, ui) \/ EV!Clicks("clear pool", EV!NoArg, ui)
    BY <1>3 DEF EV!OnToggle, EV!OnClearPool, EV!Clicks
  <2> QED BY <1>1, <1>r, <2>1 DEF SettingsOps
<1>4. ASSUME NEW p \in Providers, EV!OnSavePrompt(p) PROVE SettingsInv'
  <2>1. ui.mounted /\ ui.prompts # Nothing
    BY <1>4 DEF EV!OnSavePrompt, EV!Cards
  <2>2. PICK u : u = [EV!Spins(ui, "saving") EXCEPT !.saving = p]
    OBVIOUS
  <2>3. /\ u \in SettingsRefsOf(u) /\ u.reuse = ui.reuse /\ u.prompts = ui.prompts
        /\ u.careful = ui.careful
    BY <1>r, <2>1, <2>2 DEF EV!Spins, SettingsRefsOf
  <2>4. EV!Clicks("save", <<p, ui.editing[p]>>, u)
    BY <1>4, <2>2 DEF EV!OnSavePrompt
  <2> QED BY <1>1, <2>1, <2>3, <2>4 DEF SettingsOps
<1>5. ASSUME NEW p \in Providers, EV!OnResetPrompt(p) PROVE SettingsInv'
  <2>1. ui.mounted /\ ui.prompts # Nothing /\ EV!Clicks("reset", <<p>>, ui)
    BY <1>5 DEF EV!OnResetPrompt, EV!Cards
  <2> QED BY <1>1, <1>r, <2>1 DEF SettingsOps
<1>6. ASSUME NEW p \in Providers, EV!Type(p, "custom") PROVE SettingsInv'
  <2>1. ui.mounted /\ UNCHANGED <<srv, calls>>
    BY <1>6 DEF EV!Type, EV!Cards
  <2>2. PICK e : ui' = [ui EXCEPT !.editing = e]
    BY <1>6 DEF EV!Type
  <2>3. /\ ui' \in SettingsRefsOf(ui') /\ ui'.reuse = ui.reuse /\ ui'.prompts = ui.prompts
        /\ ui'.careful = ui.careful
    BY <1>r, <2>1, <2>2 DEF SettingsRefsOf
  <2>4. ASSUME NEW c, Brings(c) PROVE Brings(c)'
    BY <2>1, <2>3, <2>4 DEF Brings, SettingsShown, ReuseShown, PromptsShown
  <2> QED
    BY <1>0, <2>1, <2>3, <2>4
       DEF SettingsInv, SettingsRefs, SettingsHold, SettingsShown, ReuseShown, PromptsShown
<1>7. CASE EV!Leave
  BY <1>0, <1>7, SettingsSpoilt DEF EV!Leave, SettingsRefs
<1>8. CASE EV!Restart
  <2>1. ui.mounted => ui' \in SettingsRefsOf(ui') /\ ~ui'.careful
    BY <1>8, <1>r DEF EV!Restart, EV!Careless, SettingsRefsOf
  <2>2. ~ui.mounted => ui' = ui
    BY <1>8 DEF EV!Restart
  <2>3. srv' = [reuse |-> srv'.reuse, prompts |-> srv'.prompts] /\ calls' = calls
    BY <1>8, <1>0 DEF EV!Restart, SettingsRefs
  <2> QED BY <1>0, <2>1, <2>2, <2>3, SettingsSpoilt DEF SettingsRefs
<1>9. ASSUME NEW c \in calls, EV!Fails(c) PROVE SettingsInv'
  <2>1. \A d \in calls' : SettingsCall(d)
    <3>1. SettingsCall(c)
      BY <1>0 DEF SettingsRefs
    <3> DEFINE d == [c EXCEPT !.state = "given up"]
    <3>2. SettingsCall(d)
      <4>1. c \in [id : {c.id}, op : SettingsOps, arg : {c.arg}, state : {c.state, "given up"},
                   answer : {c.answer}]
        BY <3>1 DEF SettingsCall
      <4>2. /\ d \in [id : {c.id}, op : SettingsOps, arg : {c.arg}, state : {c.state, "given up"},
                      answer : {c.answer}]
            /\ d.id = c.id /\ d.arg = c.arg /\ d.state = "given up" /\ d.answer = c.answer
        BY <4>1
      <4> QED BY <4>2 DEF SettingsCall
    <3>3. calls' \subseteq calls \cup {d}
      BY <1>9 DEF EV!Fails, EV!GivenUp
    <3> HIDE DEF d
    <3> QED BY <1>0, <3>2, <3>3 DEF SettingsRefs
  <2>2. CASE ~ui.mounted
    BY <1>0, <1>9, <2>1, <2>2, SettingsSpoilt DEF EV!Fails, EV!Shows, SettingsRefs
  <2>3. CASE ui.mounted
    <3>1. PICK u : /\ ui' = EV!Careless(u)
                   /\ u \in {EV!Stops(ui, "loading"), EV!Saved(ui), ui}
      BY <1>9, <2>3 DEF EV!Fails, EV!Shows
    <3>2. u \in SettingsRefsOf(u)
      BY <1>r, <2>3, <3>1 DEF EV!Stops, EV!Saved, SettingsRefsOf
    <3>3. ui' \in SettingsRefsOf(ui') /\ ~ui'.careful
      BY <3>1, <3>2 DEF EV!Careless, SettingsRefsOf
    <3> QED BY <1>0, <1>9, <2>1, <3>3, SettingsSpoilt DEF EV!Fails, SettingsRefs
  <2> QED BY <2>2, <2>3
<1>10. ASSUME NEW c \in calls, EV!Vanish(c) PROVE SettingsInv'
  BY <1>0, <1>10
     DEF EV!Vanish, SettingsInv, SettingsRefs, SettingsHold, Brings, SettingsShown, ReuseShown,
         PromptsShown
<1>11. CASE UNCHANGED EV!vars
  BY <1>0, <1>11
     DEF EV!vars, SettingsInv, SettingsRefs, SettingsHold, Brings, SettingsShown, ReuseShown,
         PromptsShown
<1> QED
  BY <1>2, <1>3, <1>4, <1>5, <1>6, <1>7, <1>8, <1>9, <1>10, <1>11, SettingsServed, SettingsAdopted
  DEF EV!Next, EV!Operator, EV!Faults, EV!Step

LEMMA SettingsTrue == ASSUME SettingsInv PROVE EV!WhatYouSee
  BY DEF SettingsInv, SettingsHold, SettingsShown, ReuseShown, PromptsShown, EV!WhatYouSee

LEMMA Quotient ==
  ASSUME NEW u \in Nat \ {0}, NEW q \in Nat, NEW r \in 0 .. u - 1
  PROVE  (q * u + r) \div u = q /\ (q * u + r) % u = r
  OBVIOUS

LEMMA Division ==
  ASSUME NEW v \in Nat, NEW u \in Nat \ {0}
  PROVE  \E q \in Nat, r \in 0 .. u - 1 :
           v = q * u + r /\ v \div u = q /\ v % u = r
<1>1. PICK q \in Nat : q = v \div u
  OBVIOUS
<1>2. q * u <= v /\ v < q * u + u
  BY <1>1
<1>3. q * u \in Nat
  OBVIOUS
<1>4. PICK r \in 0 .. u - 1 : v = q * u + r
  <2>1. v - q * u \in 0 .. u - 1
    BY <1>2, <1>3
  <2>2. v = q * u + (v - q * u)
    BY <1>3
  <2> QED BY <2>1, <2>2
<1>5. v % u = r
  BY <1>4, Quotient
<1> QED BY <1>1, <1>4, <1>5

LEMMA Product ==
  ASSUME NEW u \in Nat, NEW p \in Nat, NEW q \in Nat, p <= q
  PROVE  p * u <= q * u
  OBVIOUS

\* A value is cut or rounded to a number of units that is less than one away, and a
\* greater value to no smaller one.
LEMMA RoundedIs ==
  ASSUME NEW v \in Nat, NEW u \in Nat \ {0}
  PROVE  \E q, n \in Nat : /\ n = q * u /\ FO!Rounded(v, u) = [reads |-> n, unit |-> u]
                           /\ 2 * n <= 2 * v + u /\ 2 * v < 2 * n + u
<1>1. PICK q \in Nat, r \in 0 .. u - 1 : v = q * u + r /\ v \div u = q /\ v % u = r
  BY Division
<1>2. PICK n \in Nat : n = q * u /\ (q + 1) * u = n + u
  <2>1. q * u \in Nat /\ (q + 1) * u = q * u + u
    OBVIOUS
  <2> QED BY <2>1
<1>5. v = n + r
  BY <1>1, <1>2
<1>3. CASE 2 * r >= u
  <2>1. PICK m \in Nat : m = (q + 1) * u /\ m = n + u
    BY <1>2
  <2>2. FO!Rounded(v, u) = [reads |-> m, unit |-> u]
    BY <1>1, <1>3, <2>1 DEF FO!Rounded
  <2>3. 2 * m <= 2 * v + u /\ 2 * v < 2 * m + u
    BY <1>3, <1>5, <2>1
  <2>4. q + 1 \in Nat
    OBVIOUS
  <2> QED BY <2>1, <2>2, <2>3, <2>4
<1>4. CASE ~(2 * r >= u)
  <2>1. FO!Rounded(v, u) = [reads |-> n, unit |-> u]
    <3>1. q + 0 = q
      OBVIOUS
    <3> QED BY <1>1, <1>2, <1>4, <3>1 DEF FO!Rounded
  <2>2. 2 * n <= 2 * v + u /\ 2 * v < 2 * n + u
    BY <1>4, <1>5
  <2> QED BY <1>2, <2>1, <2>2
<1> QED BY <1>3, <1>4

LEMMA CutIs ==
  ASSUME NEW v \in Nat, NEW u \in Nat \ {0}
  PROVE  \E q, n \in Nat : /\ n = q * u /\ FO!Cut(v, u) = [reads |-> n, unit |-> u]
                           /\ n <= v /\ v < n + u
<1>1. PICK q \in Nat, r \in 0 .. u - 1 : v = q * u + r /\ v \div u = q
  BY Division
<1>2. PICK n \in Nat : n = q * u
  OBVIOUS
<1>3. n <= v /\ v < n + u
  BY <1>1, <1>2
<1>4. FO!Cut(v, u) = [reads |-> n, unit |-> u]
  BY <1>1, <1>2 DEF FO!Cut
<1> QED BY <1>2, <1>3, <1>4

\* In steps of one unit, a greater value is not shown as less, and neither is shown past
\* a whole number of units that the values do not pass.
LEMMA MultiplesGrow ==
  ASSUME NEW u \in Nat \ {0}, NEW p \in Nat, NEW q \in Nat, p * u < q * u + u
  PROVE  p * u <= q * u
<1>1. CASE p <= q
  BY <1>1, Product
<1>2. CASE q + 1 <= p
  <2>1. (q + 1) * u <= p * u
    BY <1>2, Product
  <2>2. (q + 1) * u = q * u + u
    OBVIOUS
  <2>3. p * u \in Nat /\ q * u \in Nat
    OBVIOUS
  <2> QED BY <2>1, <2>2, <2>3
<1> QED BY <1>1, <1>2

LEMMA RoundedGrows ==
  ASSUME NEW v \in Nat, NEW u \in Nat \ {0}
  PROVE  FO!Rounded(v, u).reads <= FO!Rounded(v + 1, u).reads
<1>1. PICK p, m \in Nat : /\ m = p * u /\ FO!Rounded(v, u) = [reads |-> m, unit |-> u]
                          /\ 2 * m <= 2 * v + u
  BY RoundedIs
<1>2. PICK q, n \in Nat : /\ n = q * u /\ FO!Rounded(v + 1, u) = [reads |-> n, unit |-> u]
                          /\ 2 * (v + 1) < 2 * n + u
  <2>1. v + 1 \in Nat
    OBVIOUS
  <2> QED BY <2>1, RoundedIs
<1>3. m < n + u
  BY <1>1, <1>2
<1>4. m <= n
  BY <1>1, <1>2, <1>3, MultiplesGrow
<1> QED BY <1>1, <1>2, <1>4

LEMMA CutGrows ==
  ASSUME NEW v \in Nat, NEW u \in Nat \ {0}
  PROVE  FO!Cut(v, u).reads <= FO!Cut(v + 1, u).reads
<1>1. PICK p, m \in Nat : /\ m = p * u /\ FO!Cut(v, u) = [reads |-> m, unit |-> u] /\ m <= v
  BY CutIs
<1>2. PICK q, n \in Nat : /\ n = q * u /\ FO!Cut(v + 1, u) = [reads |-> n, unit |-> u]
                          /\ v + 1 < n + u
  <2>1. v + 1 \in Nat
    OBVIOUS
  <2> QED BY <2>1, CutIs
<1>3. m < n + u
  BY <1>1, <1>2
<1>4. m <= n
  BY <1>1, <1>2, <1>3, MultiplesGrow
<1> QED BY <1>1, <1>2, <1>4

LEMMA RoundedWithin ==
  ASSUME NEW v \in Nat, NEW u \in Nat \ {0}, NEW k \in Nat, v <= k * u
  PROVE  FO!Rounded(v, u).reads <= k * u
<1>1. PICK p, m \in Nat : /\ m = p * u /\ FO!Rounded(v, u) = [reads |-> m, unit |-> u]
                          /\ 2 * m <= 2 * v + u
  BY RoundedIs
<1>2. PICK n \in Nat : n = k * u
  OBVIOUS
<1>3. m < n + u
  BY <1>1, <1>2
<1>4. m <= n
  BY <1>1, <1>2, <1>3, MultiplesGrow
<1> QED BY <1>1, <1>2, <1>4

LEMMA RoundedWhole ==
  ASSUME NEW u \in Nat \ {0}, NEW k \in Nat
  PROVE  FO!Rounded(k * u, u).reads = k * u
<1>1. PICK n \in Nat : n = k * u /\ n = k * u + 0
  OBVIOUS
<1>2. n \div u = k /\ n % u = 0
  <2>1. 0 \in 0 .. u - 1
    OBVIOUS
  <2> QED BY <1>1, <2>1, Quotient
<1>3. FO!Rounded(n, u).reads = (k + 0) * u
  BY <1>2 DEF FO!Rounded
<1> QED BY <1>1, <1>3

LEMMA CutWhole ==
  ASSUME NEW u \in Nat \ {0}, NEW k \in Nat
  PROVE  FO!Cut(k * u, u).reads = k * u
<1>1. PICK n \in Nat : n = k * u /\ n = k * u + 0
  OBVIOUS
<1>2. n \div u = k
  <2>1. 0 \in 0 .. u - 1
    OBVIOUS
  <2> QED BY <1>1, <2>1, Quotient
<1> QED BY <1>1, <1>2 DEF FO!Cut

\* Where a display goes over to a coarser unit, at a whole number of both units.
LEMMA Edge ==
  ASSUME NEW v \in Nat, NEW u \in Nat \ {0}, NEW w \in Nat \ {0}, NEW k \in Nat, NEW l \in Nat,
         v + 1 = k * u, v + 1 = l * w
  PROVE  FO!Rounded(v, u).reads <= FO!Rounded(v + 1, w).reads
<1>1. v <= k * u
  OBVIOUS
<1>2. FO!Rounded(v, u).reads <= v + 1
  BY <1>1, RoundedWithin
<1>3. FO!Rounded(v + 1, w).reads = v + 1
  BY RoundedWhole
<1> QED BY <1>2, <1>3

\* What a display d may show of v, if it shows next when v has grown by one.
ReadsBack(d, v, next) == d.reads - v < d.unit /\ v - d.reads < d.unit /\ d.reads <= next.reads

LEMMA RoundedReads ==
  ASSUME NEW v \in Nat, NEW u \in Nat \ {0}, NEW next, FO!Rounded(v, u).reads <= next.reads
  PROVE  ReadsBack(FO!Rounded(v, u), v, next)
<1>1. PICK n \in Nat : /\ FO!Rounded(v, u) = [reads |-> n, unit |-> u]
                       /\ 2 * n <= 2 * v + u /\ 2 * v < 2 * n + u
  BY RoundedIs
<1>2. n - v < u /\ v - n < u
  BY <1>1
<1> QED BY <1>1, <1>2 DEF ReadsBack

LEMMA CutReads ==
  ASSUME NEW v \in Nat, NEW u \in Nat \ {0}, NEW next, FO!Cut(v, u).reads <= next.reads
  PROVE  ReadsBack(FO!Cut(v, u), v, next)
<1>1. PICK n \in Nat : FO!Cut(v, u) = [reads |-> n, unit |-> u] /\ n <= v /\ v < n + u
  BY CutIs
<1>2. n - v < u /\ v - n < u
  BY <1>1
<1> QED BY <1>1, <1>2 DEF ReadsBack

\* A display that rounds to a unit for each band, with the bounds of the bands given as
\* whole numbers of the units on both sides.
LEMMA BandReads ==
  ASSUME NEW v \in Nat, NEW u \in Nat \ {0}, NEW w \in Nat \ {0},
         u = w \/ \E k, l \in Nat : v + 1 = k * u /\ v + 1 = l * w
  PROVE  ReadsBack(FO!Rounded(v, u), v, FO!Rounded(v + 1, w))
<1>1. FO!Rounded(v, u).reads <= FO!Rounded(v + 1, w).reads
  BY RoundedGrows, Edge
<1> QED BY <1>1, RoundedReads

LEMMA TokensRead ==
  ASSUME NEW v \in Nat PROVE ReadsBack(FO!FmtTokens(v), v, FO!FmtTokens(v + 1))
<1>1. PICK u \in Nat \ {0} : u = IF v >= 1000000 THEN 10000 ELSE IF v >= 1000 THEN 100 ELSE 1
  OBVIOUS
<1>2. PICK w \in Nat \ {0} :
        w = IF v + 1 >= 1000000 THEN 10000 ELSE IF v + 1 >= 1000 THEN 100 ELSE 1
  OBVIOUS
<1>3. u = w \/ \E k, l \in Nat : v + 1 = k * u /\ v + 1 = l * w
  <2>1. CASE v = 999
    <3>1. v + 1 = 1000 * u /\ v + 1 = 10 * w
      BY <1>1, <1>2, <2>1
    <3> QED BY <3>1
  <2>2. CASE v = 999999
    <3>1. v + 1 = 10000 * u /\ v + 1 = 100 * w
      BY <1>1, <1>2, <2>2
    <3> QED BY <3>1
  <2>3. CASE v # 999 /\ v # 999999
    BY <1>1, <1>2, <2>3
  <2> QED BY <2>1, <2>2, <2>3
<1>4. FO!FmtTokens(v) = FO!Rounded(v, u) /\ FO!FmtTokens(v + 1) = FO!Rounded(v + 1, w)
  BY <1>1, <1>2 DEF FO!FmtTokens
<1> QED BY <1>3, <1>4, BandReads

LEMMA MillisecondsRead ==
  ASSUME NEW v \in Nat PROVE ReadsBack(FO!FmtMs(v), v, FO!FmtMs(v + 1))
<1>1. PICK u \in Nat \ {0} : u = IF v >= 10000 THEN 100 ELSE IF v >= 1000 THEN 10 ELSE 1
  OBVIOUS
<1>2. PICK w \in Nat \ {0} :
        w = IF v + 1 >= 10000 THEN 100 ELSE IF v + 1 >= 1000 THEN 10 ELSE 1
  OBVIOUS
<1>3. u = w \/ \E k, l \in Nat : v + 1 = k * u /\ v + 1 = l * w
  <2>1. CASE v = 999
    <3>1. v + 1 = 1000 * u /\ v + 1 = 100 * w
      BY <1>1, <1>2, <2>1
    <3> QED BY <3>1
  <2>2. CASE v = 9999
    <3>1. v + 1 = 1000 * u /\ v + 1 = 100 * w
      BY <1>1, <1>2, <2>2
    <3> QED BY <3>1
  <2>3. CASE v # 999 /\ v # 9999
    BY <1>1, <1>2, <2>3
  <2> QED BY <2>1, <2>2, <2>3
<1>4. FO!FmtMs(v) = FO!Rounded(v, u) /\ FO!FmtMs(v + 1) = FO!Rounded(v + 1, w)
  BY <1>1, <1>2 DEF FO!FmtMs
<1> QED BY <1>3, <1>4, BandReads

LEMMA CostsRead ==
  ASSUME NEW v \in Nat PROVE ReadsBack(FO!FmtUSD(v), v, FO!FmtUSD(v + 1))
<1>1. CASE v + 1 < 100
  <2>1. FO!FmtUSD(v) = FO!Cut(v, 100) /\ FO!FmtUSD(v + 1) = FO!Cut(v + 1, 100)
    BY <1>1 DEF FO!FmtUSD
  <2> QED BY <2>1, CutGrows, CutReads
<1>2. CASE v + 1 = 100
  <2>1. FO!FmtUSD(v) = FO!Cut(v, 100) /\ FO!FmtUSD(v + 1) = FO!Rounded(100, 1)
    BY <1>2 DEF FO!FmtUSD
  <2>2. FO!Rounded(100, 1).reads = 100
    <3>1. 100 = 100 * 1
      OBVIOUS
    <3> QED BY <3>1, RoundedWhole
  <2>3. FO!Cut(v, 100).reads <= 100
    <3>1. PICK u \in Nat \ {0} : u = 100
      OBVIOUS
    <3>2. PICK n \in Nat : FO!Cut(v, u) = [reads |-> n, unit |-> u] /\ n <= v
      BY CutIs
    <3> QED BY <1>2, <3>1, <3>2
  <2> QED BY <2>1, <2>2, <2>3, CutReads
<1>3. CASE v >= 100
  <2>1. PICK u \in Nat \ {0} : u = IF v < 10000 THEN 1 ELSE IF v < 10000000 THEN 100 ELSE 100000
    OBVIOUS
  <2>2. PICK w \in Nat \ {0} :
          w = IF v + 1 < 10000 THEN 1 ELSE IF v + 1 < 10000000 THEN 100 ELSE 100000
    OBVIOUS
  <2>3. u = w \/ \E k, l \in Nat : v + 1 = k * u /\ v + 1 = l * w
    <3>1. CASE v = 9999
      <4>1. v + 1 = 10000 * u /\ v + 1 = 100 * w
        BY <2>1, <2>2, <3>1
      <4> QED BY <4>1
    <3>2. CASE v = 9999999
      <4>1. v + 1 = 100000 * u /\ v + 1 = 100 * w
        BY <2>1, <2>2, <3>2
      <4> QED BY <4>1
    <3>3. CASE v # 9999 /\ v # 9999999
      BY <2>1, <2>2, <3>3
    <3> QED BY <3>1, <3>2, <3>3
  <2>4. FO!FmtUSD(v) = FO!Rounded(v, u) /\ FO!FmtUSD(v + 1) = FO!Rounded(v + 1, w)
    BY <1>3, <2>1, <2>2 DEF FO!FmtUSD
  <2> QED BY <2>3, <2>4, BandReads
<1> QED BY <1>1, <1>2, <1>3

LEMMA UptimeReads ==
  ASSUME NEW v \in Nat PROVE ReadsBack(FO!FormatUptime(v), v, FO!FormatUptime(v + 1))
<1>1. CASE v + 1 # 86400
  <2>1. PICK u \in Nat \ {0} : u = IF v >= 86400 THEN 3600 ELSE 60
    OBVIOUS
  <2>2. FO!FormatUptime(v) = FO!Cut(v, u) /\ FO!FormatUptime(v + 1) = FO!Cut(v + 1, u)
    BY <1>1, <2>1 DEF FO!FormatUptime
  <2> QED BY <2>2, CutGrows, CutReads
<1>2. CASE v + 1 = 86400
  <2>1. FO!FormatUptime(v) = FO!Cut(v, 60) /\ FO!FormatUptime(v + 1) = FO!Cut(86400, 3600)
    BY <1>2 DEF FO!FormatUptime
  <2>2. FO!Cut(86400, 3600).reads = 86400
    <3>1. 86400 = 24 * 3600
      OBVIOUS
    <3> QED BY <3>1, CutWhole
  <2>3. FO!Cut(v, 60).reads <= 86400
    <3>1. PICK u \in Nat \ {0} : u = 60
      OBVIOUS
    <3>2. PICK n \in Nat : FO!Cut(v, u) = [reads |-> n, unit |-> u] /\ n <= v
      BY CutIs
    <3> QED BY <1>2, <3>1, <3>2
  <2> QED BY <2>1, <2>2, <2>3, CutReads
<1> QED BY <1>1, <1>2

LEMMA CountdownReads ==
  ASSUME NEW v \in Nat PROVE ReadsBack(FO!Countdown(v), v, FO!Countdown(v + 1))
  BY CutGrows, CutReads DEF FO!Countdown

\* The bands of fmtBytes.
BytesUnit(v) ==
  IF v < 102400 THEN IF v < 1000 THEN 1 ELSE IF v < 10000 THEN 10 ELSE 100
  ELSE IF v < 104857600 THEN IF v < 1024000 THEN 1024 ELSE IF v < 10240000 THEN 10240 ELSE 102400
  ELSE IF v < 1048576000 THEN 1048576 ELSE IF v < 10485760000 THEN 10485760 ELSE 104857600

LEMMA BytesAre == ASSUME NEW v \in Nat PROVE FO!FmtBytes(v) = FO!Rounded(v, BytesUnit(v))
<1> DEFINE fits(q) == (q = 1 \/ v >= 100 * q) /\ \A r \in {1024, 1024 * 1024} : v >= 100 * r => r <= q
           power == CHOOSE q \in {1, 1024, 1024 * 1024} : fits(q)
           unit(p) == IF v < 1000 * p THEN p ELSE IF v < 10000 * p THEN 10 * p ELSE 100 * p
<1>1. FO!FmtBytes(v) = FO!Rounded(v, unit(power))
  BY DEF FO!FmtBytes
<1>2. CASE v < 102400
  <2>1. fits(1) /\ ~fits(1024) /\ ~fits(1024 * 1024)
    BY <1>2
  <2>2. power = 1
    BY <2>1
  <2>3. unit(1) = BytesUnit(v)
    BY <1>2 DEF BytesUnit
  <2> QED BY <1>1, <2>2, <2>3
<1>3. CASE 102400 <= v /\ v < 104857600
  <2>1. ~fits(1) /\ fits(1024) /\ ~fits(1024 * 1024)
    BY <1>3
  <2>2. power = 1024
    BY <2>1
  <2>3. unit(1024) = BytesUnit(v)
    BY <1>3 DEF BytesUnit
  <2> QED BY <1>1, <2>2, <2>3
<1>4. CASE 104857600 <= v
  <2>1. ~fits(1) /\ ~fits(1024) /\ fits(1024 * 1024)
    BY <1>4
  <2>2. power = 1024 * 1024
    BY <2>1
  <2>3. unit(1024 * 1024) = BytesUnit(v)
    BY <1>4 DEF BytesUnit
  <2> QED BY <1>1, <2>2, <2>3
<1> QED BY <1>2, <1>3, <1>4

LEMMA BytesRead ==
  ASSUME NEW v \in Nat PROVE ReadsBack(FO!FmtBytes(v), v, FO!FmtBytes(v + 1))
<1>1. PICK u \in Nat \ {0} : u = BytesUnit(v)
  BY DEF BytesUnit
<1>2. PICK w \in Nat \ {0} : w = BytesUnit(v + 1)
  BY DEF BytesUnit
<1>3. u = w \/ \E k, l \in Nat : v + 1 = k * u /\ v + 1 = l * w
  <2>1. ASSUME NEW e \in {1000, 10000, 1024000, 10240000, 1048576000, 10485760000}, v + 1 = e
        PROVE  v + 1 = 1000 * u /\ v + 1 = 100 * w
    BY <1>1, <1>2, <2>1 DEF BytesUnit
  <2>2. ASSUME NEW e \in {102400, 104857600}, v + 1 = e
        PROVE  v + 1 = 1024 * u /\ v + 1 = 100 * w
    BY <1>1, <1>2, <2>2 DEF BytesUnit
  <2>3. \/ v + 1 \in {1000, 10000, 1024000, 10240000, 1048576000, 10485760000}
        \/ v + 1 \in {102400, 104857600}
        \/ u = w
    BY <1>1, <1>2 DEF BytesUnit
  <2> QED BY <2>1, <2>2, <2>3
<1>4. FO!FmtBytes(v) = FO!Rounded(v, u) /\ FO!FmtBytes(v + 1) = FO!Rounded(v + 1, w)
  <2>1. v + 1 \in Nat
    OBVIOUS
  <2> QED BY <1>1, <1>2, <2>1, BytesAre
<1> QED BY <1>3, <1>4, BandReads

\* Below an hour, the minutes are cut and the rest of a minute is rounded, to 60 seconds
\* at most.
LEMMA DurationReads ==
  ASSUME NEW v \in Nat PROVE ReadsBack(FO!FmtDuration(v), v, FO!FmtDuration(v + 1))
<1>1. CASE v >= 3600000
  <2>1. FO!FmtDuration(v) = FO!Cut(v, 60000) /\ FO!FmtDuration(v + 1) = FO!Cut(v + 1, 60000)
    BY <1>1 DEF FO!FmtDuration
  <2> QED BY <2>1, CutGrows, CutReads
<1>2. CASE v < 3600000
  <2>1. PICK u, t \in Nat \ {0} : u = 60000 /\ t = 1000
    OBVIOUS
  <2>a. FO!FmtDuration(v) = [reads |-> FO!Cut(v, u).reads + FO!Rounded(v % u, t).reads, unit |-> t]
    BY <1>2, <2>1 DEF FO!FmtDuration
  <2>b. v + 1 < 3600000 =>
          FO!FmtDuration(v + 1).reads = FO!Cut(v + 1, u).reads + FO!Rounded((v + 1) % u, t).reads
    BY <2>1 DEF FO!FmtDuration
  <2>c. v + 1 = 3600000 => FO!FmtDuration(v + 1) = FO!Cut(v + 1, u)
    BY <2>1 DEF FO!FmtDuration
  <2>2. u = 60 * t /\ 3600000 = 60 * u
    BY <2>1
  <2>3. PICK q \in Nat, r \in 0 .. u - 1 : v = q * u + r /\ v \div u = q /\ v % u = r
    BY Division
  <2>4. PICK m \in Nat : m = q * u /\ (q + 1) * u = m + u
    <3>1. q * u \in Nat /\ (q + 1) * u = q * u + u
      OBVIOUS
    <3> QED BY <3>1
  <2>5. v = m + r /\ r \in Nat /\ r < u
    BY <2>3, <2>4
  <2>6. PICK n \in Nat : /\ FO!Rounded(r, t) = [reads |-> n, unit |-> t]
                         /\ 2 * n <= 2 * r + t /\ 2 * r < 2 * n + t
    BY <2>5, RoundedIs
  <2>7. n <= u
    <3>1. r <= 60 * t
      BY <2>2, <2>5
    <3>2. FO!Rounded(r, t).reads <= 60 * t
      BY <2>5, <3>1, RoundedWithin
    <3> QED BY <2>2, <2>6, <3>2
  <2>8. FO!FmtDuration(v) = [reads |-> m + n, unit |-> t]
    <3>1. FO!Cut(v, u).reads = m
      BY <2>3, <2>4 DEF FO!Cut
    <3>2. FO!Rounded(r, t).reads = n /\ v % u = r
      BY <2>3, <2>6
    <3> QED BY <2>a, <3>1, <3>2
  <2>9. CASE r + 1 < u
    <3>1. r + 1 \in 0 .. u - 1 /\ v + 1 = q * u + (r + 1)
      BY <2>3, <2>4, <2>5, <2>9
    <3>2. (v + 1) \div u = q /\ (v + 1) % u = r + 1
      BY <3>1, Quotient
    <3>3. v + 1 # 60 * u
      <4>1. ASSUME v + 1 = 60 * u PROVE (v + 1) % u = 0
        <5>1. v + 1 = 60 * u + 0 /\ 0 \in 0 .. u - 1
          BY <4>1
        <5> QED BY <5>1, Quotient
      <4> QED BY <2>5, <3>2, <4>1
    <3>4. v + 1 < 3600000
      BY <1>2, <2>2, <3>3
    <3>5. PICK k \in Nat : FO!Rounded(r + 1, t) = [reads |-> k, unit |-> t]
      <4>1. r + 1 \in Nat
        BY <2>5
      <4> QED BY <4>1, RoundedIs
    <3>6. n <= k
      <4>1. FO!Rounded(r, t).reads <= FO!Rounded(r + 1, t).reads
        BY <2>5, RoundedGrows
      <4> QED BY <2>6, <3>5, <4>1
    <3>7. FO!FmtDuration(v + 1).reads = m + k
      <4>1. FO!Cut(v + 1, u).reads = m
        BY <2>4, <3>2 DEF FO!Cut
      <4>2. FO!Rounded(r + 1, t).reads = k
        BY <3>5
      <4> QED BY <2>b, <3>2, <3>4, <4>1, <4>2
    <3>8. m + n <= FO!FmtDuration(v + 1).reads
      BY <3>6, <3>7
    <3> QED BY <2>5, <2>6, <2>8, <3>8 DEF ReadsBack
  <2>10. CASE r + 1 = u
    <3>1. PICK k \in Nat : k = q + 1 /\ v + 1 = k * u /\ v + 1 = m + u
      <4>1. v + 1 = m + u
        BY <2>5, <2>10
      <4> QED BY <2>4, <4>1
    <3>2. FO!FmtDuration(v + 1).reads = v + 1
      <4>1. CASE v + 1 = 3600000
        <5>1. FO!Cut(v + 1, u).reads = v + 1
          BY <3>1, CutWhole
        <5> QED BY <2>c, <4>1, <5>1
      <4>2. CASE v + 1 < 3600000
        <5>1. (v + 1) % u = 0
          <6>1. v + 1 = k * u + 0 /\ 0 \in 0 .. u - 1
            BY <3>1
          <6> QED BY <6>1, Quotient
        <5>2. FO!Rounded(0, t).reads = 0
          <6>1. 0 = 0 * t
            OBVIOUS
          <6> QED BY <6>1, RoundedWhole
        <5>3. FO!Cut(v + 1, u).reads = v + 1
          BY <3>1, CutWhole
        <5> QED BY <2>b, <4>2, <5>1, <5>2, <5>3
      <4> QED BY <1>2, <4>1, <4>2
    <3>3. m + n <= FO!FmtDuration(v + 1).reads
      BY <2>7, <3>1, <3>2
    <3> QED BY <2>5, <2>6, <2>8, <3>3 DEF ReadsBack
  <2> QED BY <2>5, <2>9, <2>10
<1> QED BY <1>1, <1>2

\* Every number of the dashboard, and not only those near the edges of the bands, reads
\* back as less than a unit of its last digit away, and never falls as the value grows.
THEOREM DisplaysRead ==
  ASSUME NEW kind \in FO!Kinds, NEW v \in Nat
  PROVE  ReadsBack(FO!Display(kind, v), v, FO!Display(kind, v + 1))
<1>1. CASE kind = "bytes"
  BY <1>1, BytesRead DEF FO!Display
<1>2. CASE kind = "tokens"
  BY <1>2, TokensRead DEF FO!Display
<1>3. CASE kind = "usd"
  BY <1>3, CostsRead DEF FO!Display
<1>4. CASE kind = "ms"
  BY <1>4, MillisecondsRead DEF FO!Display
<1>5. CASE kind = "uptime"
  BY <1>5, UptimeReads DEF FO!Display
<1>6. CASE kind = "countdown"
  BY <1>6, CountdownReads DEF FO!Display
<1>7. CASE kind = "duration"
  BY <1>7, DurationReads DEF FO!Display
<1> QED BY <1>1, <1>2, <1>3, <1>4, <1>5, <1>6, <1>7 DEF FO!Kinds

-----------------------------------------------------------------------------
(* Bans.vue: the table the view sorts is one the server answered.           *)

BanRefsOf(u) ==
  [mounted : {TRUE}, ticking : {u.ticking}, hidden : {u.hidden}, busy : {u.busy}, rows : {u.rows},
   history : {u.history}]
BanCall(c) ==
  /\ c \in [id : {c.id}, op : {c.op}, arg : {c.arg}, state : {c.state}, answer : {c.answer}]
  /\ c.op = "load" /\ c.state = "answered" => c.answer \in BV!Answers

BanTables == srv \in [rows : BV!Tables, history : {srv.history}, now : {srv.now}]
BanRefs == ui.mounted => ui \in BanRefsOf(ui) /\ (ui.rows = <<>> \/ ui.rows \in BV!Answers)
BanInv == BanTables /\ BanRefs /\ \A c \in calls : BanCall(c)

\* An account's place among the rows, by the first of two orders a row is in.
LEMMA PlacesAreTaken ==
  ASSUME ui.rows \in BV!Answers
  PROVE  /\ \A i \in BV!Rows : BV!SortedAccounts[i] \in BV!Rows /\ BV!Place(BV!SortedAccounts[i]) = i
         /\ \A a, b \in BV!Rows : BV!Ahead(a, b) => BV!Place(a) < BV!Place(b)
<1>a. Listed \in Nat
  BY ListedAssumption
<1>b. IsFiniteSet(BV!Rows) /\ Cardinality(BV!Rows) = Listed
  BY <1>a, FS_Interval DEF BV!Rows
<1> DEFINE score(a) == BV!SeverityScore(ui.rows[a])
           before(a) == {b \in BV!Rows : BV!Ahead(b, a)}
<1>1. ASSUME NEW a \in BV!Rows PROVE score(a) \in {0, 10, 30, 50}
  <2>1. PICK r : r = ui.rows[a]
    OBVIOUS
  <2> QED BY <2>1 DEF BV!SeverityScore
<1>2. \A a \in BV!Rows : a \in Int
  BY <1>a DEF BV!Rows
<1>3. \A a, b \in BV!Rows : BV!Ahead(a, b) <=> score(a) > score(b) \/ (~(score(b) > score(a)) /\ a < b)
  BY DEF BV!Ahead, BV!Before
<1> HIDE DEF score
<1>4. /\ \A a \in BV!Rows : ~BV!Ahead(a, a)
      /\ \A a, b \in BV!Rows : a # b => BV!Ahead(a, b) \/ BV!Ahead(b, a)
      /\ \A a, b, c \in BV!Rows : BV!Ahead(a, b) /\ BV!Ahead(b, c) => BV!Ahead(a, c)
  <2>1. \A a \in BV!Rows : score(a) \in Int
    BY <1>1
  <2> QED BY <1>2, <1>3, <2>1
<1>5. \A a \in BV!Rows : IsFiniteSet(before(a)) /\ Cardinality(before(a)) \in Nat
  BY <1>b, FS_Subset, FS_CardinalityType
<1>6. \A a \in BV!Rows : BV!Place(a) = 1 + Cardinality(before(a))
  <2>1. ASSUME NEW S PROVE BV!Cardinality(S) = Cardinality(S)
    BY Zenon DEF BV!Cardinality, Cardinality
  <2> QED BY <2>1 DEF BV!Place
<1>7. ASSUME NEW a \in BV!Rows, NEW b \in BV!Rows, BV!Ahead(a, b)
      PROVE  BV!Place(a) < BV!Place(b)
  <2>1. before(a) \subseteq before(b) /\ a \in before(b) /\ a \notin before(a)
    BY <1>4, <1>7
  <2>2. Cardinality(before(a)) <= Cardinality(before(b)) /\ Cardinality(before(a)) # Cardinality(before(b))
    BY <2>1, <1>5, FS_Subset
  <2> HIDE DEF before
  <2> QED BY <2>2, <1>5, <1>6
<1>8. \A i \in BV!Rows : \E a \in BV!Rows : BV!Place(a) = i
  <2> DEFINE f == [a \in BV!Rows |-> BV!Place(a)]
  <2>1. ASSUME NEW a \in BV!Rows PROVE BV!Place(a) \in BV!Rows
    <3>1. before(a) \subseteq BV!Rows /\ before(a) # BV!Rows
      BY <1>4
    <3>2. Cardinality(before(a)) <= Listed /\ Cardinality(before(a)) # Listed
      BY <3>1, <1>b, FS_Subset
    <3> HIDE DEF before
    <3> QED BY <3>2, <1>5, <1>6, <1>a DEF BV!Rows
  <2>2. \A a, b \in BV!Rows : BV!Place(a) = BV!Place(b) => a = b
    <3>1. \A a \in BV!Rows : BV!Place(a) \in Int
      BY <2>1, <1>2
    <3> QED BY <3>1, <1>4, <1>7
  <2>3. f \in Injection(BV!Rows, BV!Rows)
    <3>1. f \in [BV!Rows -> BV!Rows] /\ \A a \in BV!Rows : f[a] = BV!Place(a)
      BY <2>1
    <3> HIDE DEF f
    <3>2. \A a, b \in BV!Rows : f[a] = f[b] => a = b
      BY <2>2, <3>1
    <3> QED BY <3>1, <3>2, Zenon DEF Injection, IsInjective
  <2>4. f \in Surjection(BV!Rows, BV!Rows)
    BY <2>3, <1>b, FS_Injection
  <2> QED BY <2>4 DEF Surjection
<1> QED BY <1>7, <1>8 DEF BV!SortedAccounts

LEMMA BansShown == ASSUME BanInv PROVE BV!WorstFirst
<1> SUFFICES ASSUME ui.mounted, ui.rows # <<>>, NEW i \in BV!Rows, NEW j \in BV!Rows, i < j,
                    BV!Troubled(ui.rows[BV!SortedAccounts[j]])
             PROVE  BV!Troubled(ui.rows[BV!SortedAccounts[i]])
  BY DEF BV!WorstFirst
<1> DEFINE a == BV!SortedAccounts[i]
           b == BV!SortedAccounts[j]
<1>1. ui.rows \in BV!Answers
  BY DEF BanInv, BanRefs
<1>2. a \in BV!Rows /\ b \in BV!Rows /\ BV!Place(a) = i /\ BV!Place(b) = j
  BY <1>1, PlacesAreTaken
<1> SUFFICES ASSUME ~BV!Troubled(ui.rows[a]) PROVE FALSE
  OBVIOUS
<1> HIDE DEF a, b
<1>3. ASSUME NEW c \in BV!Rows
      PROVE  /\ ~BV!Troubled(ui.rows[c]) => BV!SeverityScore(ui.rows[c]) = 0
             /\ BV!Troubled(ui.rows[c]) => BV!SeverityScore(ui.rows[c]) \in {10, 30, 50}
  <2>1. PICK r \in [status : BV!Statuses, until : {BV!Never, BV!Window}, rateLimited : BOOLEAN] : r = ui.rows[c]
    BY <1>1 DEF BV!Answers
  <2> QED BY <2>1 DEF BV!Troubled, BV!SeverityScore, BV!Statuses
<1>4. BV!SeverityScore(ui.rows[b]) > BV!SeverityScore(ui.rows[a])
  BY <1>2, <1>3 DEF b
<1>5. BV!Ahead(b, a)
  BY <1>4 DEF BV!Ahead, BV!Before
<1>6. j < i
  BY <1>1, <1>2, <1>5, PlacesAreTaken
<1> QED BY <1>6, ListedAssumption DEF BV!Rows

LEMMA BansSent ==
  ASSUME NEW cs, \A c \in cs : BanCall(c), NEW op, NEW arg
  PROVE  \A c \in BV!Sending(cs, op, arg) : BanCall(c)
<1>1. PICK i : BV!Sending(cs, op, arg) =
                 cs \cup {[id |-> i, op |-> op, arg |-> arg, state |-> "sent", answer |-> Nothing]}
  BY DEF BV!Sending
<1> DEFINE n == [id |-> i, op |-> op, arg |-> arg, state |-> "sent", answer |-> Nothing]
<1>2. BanCall(n)
  BY DEF BanCall
<1> HIDE DEF n
<1> QED BY <1>1, <1>2 DEF n

LEMMA BansBothSent ==
  ASSUME NEW cs, \A c \in cs : BanCall(c)
  PROVE  \A c \in BV!BothLoads(cs) : BanCall(c)
<1>1. PICK ds : ds = BV!Sending(cs, "load", BV!NoArg)
  OBVIOUS
<1>2. \A c \in ds : BanCall(c)
  BY <1>1, BansSent
<1>3. BV!BothLoads(cs) = BV!Sending(ds, "load history", BV!NoArg)
  BY <1>1 DEF BV!BothLoads
<1> QED BY <1>2, <1>3, BansSent

LEMMA BansStart == BV!Init => BanInv
<1> SUFFICES ASSUME BV!Init PROVE BanInv
  OBVIOUS
<1>1. BanTables
  BY DEF BV!Init, BV!StartTables, BanTables
<1>2. BanRefs
  <2>1. ui = BV!SpinsBoth([mounted |-> TRUE, ticking |-> TRUE, hidden |-> FALSE, busy |-> {},
                           rows |-> <<>>, history |-> 0])
    BY DEF BV!Init
  <2>2. PICK flags : ui = [mounted |-> TRUE, ticking |-> TRUE, hidden |-> FALSE, busy |-> flags,
                           rows |-> <<>>, history |-> 0]
    BY <2>1 DEF BV!SpinsBoth, BV!Spins
  <2> QED BY <2>2 DEF BanRefs, BanRefsOf
<1>3. \A c \in calls : BanCall(c)
  <2>1. \A c \in {} : BanCall(c)
    OBVIOUS
  <2> QED BY <2>1, BansBothSent DEF BV!Init
<1> QED BY <1>1, <1>2, <1>3 DEF BanInv

\* What the view shows is what it showed, or an answer.
LEMMA BansRefsKept ==
  ASSUME BanRefs, NEW u, BV!Shows(u),
         ui.mounted /\ ui \in BanRefsOf(ui) =>
           u \in BanRefsOf(u) /\ (u.rows = ui.rows \/ u.rows \in BV!Answers)
  PROVE  BanRefs'
<1>1. CASE ui.mounted
  <2>1. ui' = u
    BY <1>1 DEF BV!Shows
  <2> QED BY <1>1, <2>1 DEF BanRefs, BanRefsOf
<1>2. CASE ~ui.mounted
  BY <1>2 DEF BV!Shows, BanRefs
<1> QED BY <1>1, <1>2

LEMMA BansKeep == ASSUME BanInv, [BV!Next]_(BV!vars) PROVE BanInv'
<1>0. BanTables /\ BanRefs /\ \A c \in calls : BanCall(c)
  BY DEF BanInv
<1>a. BV!List \in BV!Answers
  <2>1. \A a \in BV!Rows : srv.rows[a].status \in BV!Statuses /\ srv.rows[a].until \in {BV!Never, BV!Window}
    BY <1>0 DEF BanTables, BV!Tables
  <2> QED BY <2>1 DEF BV!List, BV!Answers
<1>b. ASSUME NEW flag, ui \in BanRefsOf(ui)
      PROVE  /\ BV!Spins(ui, flag) \in BanRefsOf(BV!Spins(ui, flag)) /\ BV!Spins(ui, flag).rows = ui.rows
             /\ BV!Stops(ui, flag) \in BanRefsOf(BV!Stops(ui, flag)) /\ BV!Stops(ui, flag).rows = ui.rows
  BY <1>b DEF BanRefsOf, BV!Spins, BV!Stops
<1>1. CASE BV!Refresh
  <2>1. BanRefs'
    BY <1>0, <1>1, <1>b, BansRefsKept DEF BV!Refresh
  <2>2. \A d \in calls' : BanCall(d)
    BY <1>0, <1>1, BansSent DEF BV!Refresh
  <2> QED BY <1>0, <1>1, <2>1, <2>2 DEF BV!Refresh, BanInv, BanTables
<1>2. CASE BV!ClearHistory \/ \E a \in BV!Rows : BV!OnReset(a)
  <2>1. \E op, arg : calls' = BV!Sending(calls, op, arg)
    BY <1>2 DEF BV!ClearHistory, BV!OnReset
  <2>2. \A d \in calls' : BanCall(d)
    BY <1>0, <2>1, BansSent
  <2> QED BY <1>0, <1>2, <2>2 DEF BV!ClearHistory, BV!OnReset, BanInv, BanTables, BanRefs, BanRefsOf
<1>3. CASE BV!Poll
  <2>1. ASSUME ui \in BanRefsOf(ui)
        PROVE  BV!SpinsBoth(ui) \in BanRefsOf(BV!SpinsBoth(ui)) /\ BV!SpinsBoth(ui).rows = ui.rows
    BY <2>1 DEF BV!SpinsBoth, BV!Spins, BanRefsOf
  <2>2. BanRefs'
    BY <1>0, <1>3, <2>1, BansRefsKept DEF BV!Poll
  <2>3. \A d \in calls' : BanCall(d)
    BY <1>0, <1>3, BansBothSent DEF BV!Poll
  <2> QED BY <1>0, <1>3, <2>2, <2>3 DEF BV!Poll, BanInv, BanTables
<1>4. CASE BV!Hide
  <2>1. ui \in BanRefsOf(ui) /\ ui' = [ui EXCEPT !.hidden = ~ui.hidden]
    BY <1>0, <1>4 DEF BV!Hide, BanRefs
  <2>2. ui' \in BanRefsOf(ui') /\ ui'.rows = ui.rows
    BY <2>1 DEF BanRefsOf
  <2>3. BanRefs'
    BY <1>0, <1>4, <2>2 DEF BV!Hide, BanRefs
  <2> QED BY <1>0, <1>4, <2>3 DEF BV!Hide, BanInv, BanTables
<1>5. CASE BV!Leave
  <2>1. ~ui'.mounted
    BY <1>5 DEF BV!Leave, BV!Left
  <2> QED BY <1>0, <1>5, <2>1 DEF BV!Leave, BanInv, BanTables, BanRefs
<1>6. ASSUME NEW a \in BV!Rows, BV!Strike(a) PROVE BanInv'
  <2>1. [srv.rows EXCEPT ![a].until = BV!Window] \in BV!Tables
    BY <1>0 DEF BanTables, BV!Tables
  <2>2. srv' = [srv EXCEPT !.rows = [srv.rows EXCEPT ![a].until = BV!Window], !.history = srv.history + 1]
    BY <1>0, <1>6 DEF BV!Strike, BanTables
  <2>3. BanTables'
    BY <1>0, <2>1, <2>2 DEF BanTables
  <2> QED BY <1>0, <1>6, <2>3 DEF BV!Strike, BanInv, BanRefs, BanRefsOf
<1>7. CASE BV!Expire
  <2>1. BanTables'
    BY <1>0, <1>7 DEF BV!Expire, BanTables
  <2> QED BY <1>0, <1>7, <2>1 DEF BV!Expire, BanInv, BanRefs, BanRefsOf
<1>8. ASSUME NEW c \in calls, BV!Serve(c) PROVE BanInv'
  <2>1. BanTables'
    <3>1. CASE c.op = "reset"
      <4>1. PICK a : srv' = [srv EXCEPT !.rows[a].status = "active"]
        BY <1>8, <3>1 DEF BV!Serve
      <4>2. [srv.rows EXCEPT ![a].status = "active"] \in BV!Tables
        BY <1>0 DEF BanTables, BV!Tables, BV!Statuses
      <4>3. srv' = [srv EXCEPT !.rows = [srv.rows EXCEPT ![a].status = "active"]]
        BY <1>0, <4>1 DEF BanTables
      <4> QED BY <1>0, <4>2, <4>3 DEF BanTables
    <3>2. CASE c.op = "clear"
      <4>1. srv' = [srv EXCEPT !.history = 0]
        BY <1>8, <3>2 DEF BV!Serve
      <4> QED BY <1>0, <4>1 DEF BanTables
    <3>3. CASE c.op \notin {"reset", "clear"}
      BY <1>0, <1>8, <3>3 DEF BV!Serve, BanTables
    <3> QED BY <3>1, <3>2, <3>3
  <2>2. PICK a : calls' = BV!Replied(c, a) /\ (c.op = "load" => a = BV!List)
    BY <1>8 DEF BV!Serve
  <2>3. PICK d : d = [id |-> c.id, op |-> c.op, arg |-> c.arg, state |-> "answered", answer |-> a]
    OBVIOUS
  <2>4. BanCall(d)
    BY <1>a, <2>2, <2>3 DEF BanCall
  <2>5. calls' \subseteq calls \union {d}
    BY <2>2, <2>3 DEF BV!Replied
  <2> QED BY <1>0, <1>8, <2>1, <2>4, <2>5 DEF BV!Serve, BanInv, BanRefs, BanRefsOf
<1>9. ASSUME NEW c \in calls, BV!Loaded(c) PROVE BanInv'
  <2>1. c.answer \in BV!Answers
    BY <1>0, <1>9 DEF BV!Loaded, BV!Heard, BanCall
  <2>2. PICK u : u = [BV!Stops(ui, "loading") EXCEPT !.rows = c.answer] /\ BV!Shows(u)
    BY <1>9 DEF BV!Loaded
  <2>3. ASSUME ui \in BanRefsOf(ui) PROVE u \in BanRefsOf(u) /\ u.rows \in BV!Answers
    BY <1>b, <2>1, <2>2, <2>3 DEF BanRefsOf
  <2>4. BanRefs'
    BY <1>0, <2>2, <2>3, BansRefsKept
  <2> QED BY <1>0, <1>9, <2>4 DEF BV!Loaded, BanInv, BanTables
<1>10. ASSUME NEW c \in calls, BV!HistoryLoaded(c) PROVE BanInv'
  <2>1. PICK u : u = [BV!Stops(ui, "historyLoading") EXCEPT !.history = c.answer[1]] /\ BV!Shows(u)
    BY <1>10 DEF BV!HistoryLoaded
  <2>2. ASSUME ui \in BanRefsOf(ui) PROVE u \in BanRefsOf(u) /\ u.rows = ui.rows
    BY <1>b, <2>1, <2>2 DEF BanRefsOf
  <2>3. BanRefs'
    BY <1>0, <2>1, <2>2, BansRefsKept
  <2> QED BY <1>0, <1>10, <2>3 DEF BV!HistoryLoaded, BanInv, BanTables
<1>11. ASSUME NEW c \in calls, BV!ResetDone(c) PROVE BanInv'
  <2>1. BanRefs'
    BY <1>0, <1>11, <1>b, BansRefsKept DEF BV!ResetDone
  <2>2. \A d \in calls' : BanCall(d)
    BY <1>0, <1>11, BansSent DEF BV!ResetDone
  <2> QED BY <1>0, <1>11, <2>1, <2>2 DEF BV!ResetDone, BanInv, BanTables
<1>12. ASSUME NEW c \in calls, BV!Cleared(c) PROVE BanInv'
  <2>1. PICK u : u = [ui EXCEPT !.history = 0] /\ BV!Shows(u)
    BY <1>12 DEF BV!Cleared
  <2>2. ASSUME ui \in BanRefsOf(ui) PROVE u \in BanRefsOf(u) /\ u.rows = ui.rows
    BY <2>1, <2>2 DEF BanRefsOf
  <2>3. BanRefs'
    BY <1>0, <2>1, <2>2, BansRefsKept
  <2> QED BY <1>0, <1>12, <2>3 DEF BV!Cleared, BanInv, BanTables
<1>13. ASSUME NEW c \in calls, BV!Fails(c) PROVE BanInv'
  <2>1. PICK u : /\ u = ui \/ \E flag : u = BV!Stops(ui, flag)
                 /\ BV!Shows(u)
    BY <1>13 DEF BV!Fails
  <2>2. ASSUME ui \in BanRefsOf(ui) PROVE u \in BanRefsOf(u) /\ u.rows = ui.rows
    BY <1>b, <2>1, <2>2
  <2>3. BanRefs'
    BY <1>0, <2>1, <2>2, BansRefsKept
  <2> DEFINE d == [c EXCEPT !.state = "given up"]
  <2>4. BanCall(d)
    BY <1>0 DEF BanCall
  <2>5. calls' \subseteq calls \union {d}
    BY <1>13 DEF BV!Fails, BV!GivenUp
  <2> HIDE DEF d
  <2> QED BY <1>0, <1>13, <2>3, <2>4, <2>5 DEF BV!Fails, BanInv, BanTables
<1>14. ASSUME NEW c \in calls, BV!Vanish(c) PROVE BanInv'
  BY <1>0, <1>14 DEF BV!Vanish, BanInv, BanTables, BanRefs, BanRefsOf
<1>15. CASE UNCHANGED BV!vars
  BY <1>0, <1>15 DEF BV!vars, BanInv, BanTables, BanRefs, BanRefsOf
<1> QED
  BY <1>1, <1>2, <1>3, <1>4, <1>5, <1>6, <1>7, <1>8, <1>9, <1>10, <1>11, <1>12, <1>13, <1>14, <1>15
  DEF BV!Next, BV!Operator, BV!Elsewhere, BV!Faults, BV!Step, BV!Answered

-----------------------------------------------------------------------------
(* Stats.vue: the buckets of the server, of an answer under way and of the  *)
(* view are hours in their order, so the last of them are the newest.       *)

Growing(s) == s \in Seq(Nat) /\ \A i, j \in 1 .. Len(s) : i < j => s[i] < s[j]

BucketsOf(data) == data = Nothing \/ Growing(data.buckets)
StatsAnswer(a) == a = [stats |-> a.stats, accounts |-> a.accounts] /\ BucketsOf(a.stats)
StatsCall(c) ==
  /\ c \in [id : {c.id}, op : {c.op}, arg : {c.arg}, state : {c.state}, answer : {c.answer}]
  /\ c.op = "load" => (c.answer = Nothing /\ c.state # "answered") \/ StatsAnswer(c.answer)

StatsServed ==
  /\ srv = [hour |-> srv.hour, known |-> srv.known, counted |-> srv.counted, buckets |-> srv.buckets]
  /\ srv.hour \in Nat /\ Growing(srv.buckets)
  /\ \A i \in 1 .. Len(srv.buckets) : srv.buckets[i] <= srv.hour
StatsRefsOf(u) ==
  [mounted : {TRUE}, ticking : {u.ticking}, hidden : {u.hidden}, busy : {u.busy}, data : {u.data},
   accounts : {u.accounts}, range : {u.range}]
StatsRefs == ui.mounted => ui \in StatsRefsOf(ui) /\ ui.range \in Ranges /\ BucketsOf(ui.data)
StatsInv == StatsServed /\ StatsRefs /\ \A c \in calls : StatsCall(c)

LEMMA StatsSent ==
  ASSUME NEW cs, \A c \in cs : StatsCall(c), NEW op, NEW arg
  PROVE  \A c \in SV!Sending(cs, op, arg) : StatsCall(c)
<1>1. PICK i : SV!Sending(cs, op, arg) =
                 cs \cup {[id |-> i, op |-> op, arg |-> arg, state |-> "sent", answer |-> Nothing]}
  BY DEF SV!Sending
<1> DEFINE n == [id |-> i, op |-> op, arg |-> arg, state |-> "sent", answer |-> Nothing]
<1>2. StatsCall(n)
  BY DEF StatsCall
<1> HIDE DEF n
<1> QED BY <1>1, <1>2 DEF n

LEMMA StatsStart == SV!Init => StatsInv
<1> SUFFICES ASSUME SV!Init PROVE StatsInv
  OBVIOUS
<1>1. StatsServed
  <2>1. PICK k : srv = [hour |-> 0, known |-> k, counted |-> {}, buckets |-> <<>>]
    BY DEF SV!Init
  <2> QED BY <2>1 DEF StatsServed, Growing
<1>2. StatsRefs
  <2>1. PICK r \in Ranges : ui = [mounted |-> TRUE, ticking |-> TRUE, hidden |-> FALSE,
                                  busy |-> {"loading"}, data |-> Nothing, accounts |-> {}, range |-> r]
    BY DEF SV!Init
  <2> QED BY <2>1 DEF StatsRefs, StatsRefsOf, BucketsOf
<1>3. \A c \in calls : StatsCall(c)
  <2>1. \A c \in {} : StatsCall(c)
    OBVIOUS
  <2>2. calls = SV!Sending({}, "load", SV!NoArg)
    BY DEF SV!Init
  <2> QED BY <2>1, <2>2, StatsSent
<1> QED BY <1>1, <1>2, <1>3 DEF StatsInv

\* An hour with its first request is newer than every bucket.
LEMMA HourGrows ==
  ASSUME NEW s, Growing(s), NEW hour \in Nat, \A i \in 1 .. Len(s) : s[i] <= hour
  PROVE  LET t == IF SV!Contains(s, hour) THEN s ELSE Append(s, hour)
         IN Growing(t) /\ \A i \in 1 .. Len(t) : t[i] <= hour
<1>1. CASE SV!Contains(s, hour)
  BY <1>1
<1>2. CASE ~SV!Contains(s, hour)
  <2>1. \A i \in 1 .. Len(s) : s[i] \in Nat /\ s[i] < hour
    BY <1>2 DEF SV!Contains, Growing
  <2>2. s \in Seq(Nat) /\ Len(s) \in Nat
    BY DEF Growing
  <2>3. PICK t : t = Append(s, hour)
    OBVIOUS
  <2>4. /\ t \in Seq(Nat) /\ Len(t) = Len(s) + 1 /\ t[Len(s) + 1] = hour
        /\ \A i \in 1 .. Len(s) : t[i] = s[i]
    BY <2>2, <2>3, AppendProperties
  <2>5. \A i, j \in 1 .. Len(t) : i < j => t[i] < t[j]
    <3> SUFFICES ASSUME NEW i \in 1 .. Len(t), NEW j \in 1 .. Len(t), i < j PROVE t[i] < t[j]
      OBVIOUS
    <3>1. i \in 1 .. Len(s) /\ t[i] = s[i]
      BY <2>2, <2>4
    <3>2. CASE j = Len(s) + 1
      BY <2>1, <2>4, <3>1, <3>2
    <3>3. CASE j \in 1 .. Len(s)
      BY <2>4, <3>1, <3>3 DEF Growing
    <3>4. j \in 1 .. Len(s) + 1
      BY <2>4
    <3> QED BY <2>2, <3>2, <3>3, <3>4, SMTT(30)
  <2>6. \A i \in 1 .. Len(t) : t[i] <= hour
    BY <2>1, <2>2, <2>4
  <2> QED BY <1>2, <2>3, <2>4, <2>5, <2>6 DEF Growing
<1> QED BY <1>1, <1>2

LEMMA StatsHalf ==
  ASSUME \A c \in calls : StatsCall(c), NEW c \in calls, c.op = "load", c.state # "answered",
         NEW part \in {"stats", "accounts"}, NEW a, part = "stats" => BucketsOf(a),
         SV!Half(c, part, a)
  PROVE  \A d \in calls' : StatsCall(d)
<1> DEFINE got == IF c.answer = Nothing THEN [stats |-> Nothing, accounts |-> Nothing] ELSE c.answer
           now == [got EXCEPT ![part] = a]
           state == IF Nothing \in {now.stats, now.accounts} THEN "sent" ELSE "answered"
           d == [c EXCEPT !.answer = now, !.state = state]
<1>1. calls' = (calls \ {c}) \union {d}
  BY DEF SV!Half
<1>2. StatsAnswer(got)
  BY DEF StatsCall, StatsAnswer, BucketsOf
<1>3. StatsAnswer(now)
  <2>1. got \in [stats : {got.stats}, accounts : {got.accounts}] /\ BucketsOf(got.stats)
    <3> HIDE DEF got
    <3> QED BY <1>2 DEF StatsAnswer
  <2> HIDE DEF got
  <2>2. CASE part = "stats"
    <3>1. now = [stats |-> a, accounts |-> got.accounts]
      <4>1. now = [got EXCEPT !["stats"] = a]
        BY <2>2
      <4> HIDE DEF now
      <4> QED BY <2>1, <4>1
    <3> HIDE DEF now
    <3> QED BY <2>2, <3>1 DEF StatsAnswer
  <2>3. CASE part = "accounts"
    <3>1. now = [stats |-> got.stats, accounts |-> a]
      <4>1. now = [got EXCEPT !["accounts"] = a]
        BY <2>3
      <4> HIDE DEF now
      <4> QED BY <2>1, <4>1
    <3> HIDE DEF now
    <3> QED BY <2>1, <3>1 DEF StatsAnswer
  <2> QED BY <2>2, <2>3
<1> HIDE DEF now, state
<1>4. StatsCall(d)
  BY <1>3 DEF StatsCall
<1> HIDE DEF d
<1> QED BY <1>1, <1>4

LEMMA StatsKeeps == ASSUME StatsInv, [SV!Next]_(SV!vars) PROVE StatsInv'
<1>1. StatsServed /\ StatsRefs /\ \A c \in calls : StatsCall(c)
  BY DEF StatsInv
<1>2. ASSUME NEW op, SV!Asks(op) PROVE StatsInv'
  <2>1. \A c \in calls' : StatsCall(c)
    BY <1>1, <1>2, StatsSent DEF SV!Asks
  <2> QED BY <1>1, <1>2, <2>1 DEF SV!Asks, StatsInv, StatsServed, StatsRefs, StatsRefsOf
<1>3. ASSUME NEW r \in Ranges, SV!SetRange(r) PROVE StatsInv'
  <2>1. ui' = [ui EXCEPT !.range = r] /\ ui \in StatsRefsOf(ui) /\ BucketsOf(ui.data)
    BY <1>1, <1>3 DEF SV!SetRange, StatsRefs
  <2>2. ui' \in StatsRefsOf(ui') /\ ui'.range \in Ranges /\ BucketsOf(ui'.data)
    BY <2>1 DEF StatsRefsOf
  <2> QED BY <1>1, <1>3, <2>2 DEF SV!SetRange, StatsInv, StatsServed, StatsRefs
<1>4. CASE SV!Leave
  BY <1>1, <1>4 DEF SV!Leave, SV!Left, StatsInv, StatsServed, StatsRefs
<1>5. ASSUME srv' = [srv EXCEPT !.hour = @ + 1], UNCHANGED <<ui, calls>> PROVE StatsInv'
  <2>1. /\ srv' = [hour |-> srv.hour + 1, known |-> srv.known, counted |-> srv.counted,
                   buckets |-> srv.buckets]
    BY <1>1, <1>5 DEF StatsServed
  <2>2. \A i \in 1 .. Len(srv.buckets) : srv.buckets[i] \in Nat /\ srv.buckets[i] <= srv.hour + 1
    BY <1>1 DEF StatsServed, Growing
  <2>3. StatsServed'
    BY <1>1, <2>1, <2>2 DEF StatsServed
  <2> QED BY <1>1, <1>5, <2>3 DEF StatsInv, StatsRefs, StatsRefsOf
<1>6. ASSUME NEW i, SV!Request(i) PROVE StatsInv'
  <2> DEFINE t == IF SV!Contains(srv.buckets, srv.hour) THEN srv.buckets
                  ELSE Append(srv.buckets, srv.hour)
  <2>1. Growing(t) /\ \A k \in 1 .. Len(t) : t[k] <= srv.hour
    BY <1>1, HourGrows DEF StatsServed
  <2>2. srv' = [srv EXCEPT !.counted = @ \union {i}, !.buckets = t]
    BY <1>6 DEF SV!Request
  <2> HIDE DEF t
  <2>3. srv' = [hour |-> srv.hour, known |-> srv.known, counted |-> srv.counted \union {i},
                buckets |-> t]
    BY <1>1, <2>2 DEF StatsServed
  <2>4. StatsServed'
    BY <1>1, <2>1, <2>3 DEF StatsServed
  <2> QED BY <1>1, <1>6, <2>4 DEF SV!Request, StatsInv, StatsRefs, StatsRefsOf
<1>7. ASSUME NEW i, SV!AddOrDelete(i) PROVE StatsInv'
  <2>1. PICK k : srv' = [srv EXCEPT !.known = k]
    BY <1>7 DEF SV!AddOrDelete
  <2>2. srv' = [hour |-> srv.hour, known |-> k, counted |-> srv.counted, buckets |-> srv.buckets]
    BY <1>1, <2>1 DEF StatsServed
  <2>3. StatsServed'
    BY <1>1, <2>2 DEF StatsServed
  <2> QED BY <1>1, <1>7, <2>3 DEF SV!AddOrDelete, StatsInv, StatsRefs, StatsRefsOf
<1>8. ASSUME NEW c \in calls, SV!ServeHalf(c) \/ SV!AccountsFail(c) PROVE StatsInv'
  <2>1. c.op = "load" /\ c.state # "answered" /\ srv' = srv /\ ui' = ui
    BY <1>8 DEF SV!ServeHalf, SV!AccountsFail, SV!Unserved
  <2>2. \E part \in {"stats", "accounts"} : \E a :
          SV!Half(c, part, a) /\ (part = "stats" => a = SV!Stats(srv))
    BY <1>8 DEF SV!ServeHalf, SV!AccountsFail
  <2>3. BucketsOf(SV!Stats(srv))
    BY <1>1 DEF BucketsOf, SV!Stats, StatsServed
  <2>4. \A d \in calls' : StatsCall(d)
    BY <1>1, <2>1, <2>2, <2>3, StatsHalf
  <2> QED BY <1>1, <2>1, <2>4 DEF StatsInv, StatsServed, StatsRefs, StatsRefsOf
<1>9. ASSUME NEW c \in calls, SV!ServeReset(c) PROVE StatsInv'
  <2>1. srv' = [hour |-> srv.hour, known |-> srv.known, counted |-> {}, buckets |-> <<>>]
    BY <1>1, <1>9 DEF SV!ServeReset, StatsServed
  <2>2. StatsServed'
    BY <1>1, <2>1 DEF StatsServed, Growing
  <2> DEFINE d == [id |-> c.id, op |-> c.op, arg |-> c.arg, state |-> "answered", answer |-> Nothing]
  <2>3. StatsCall(d)
    BY <1>9 DEF SV!ServeReset, StatsCall
  <2>4. calls' \subseteq calls \union {d}
    BY <1>9 DEF SV!ServeReset, SV!Replied
  <2> HIDE DEF d
  <2> QED BY <1>1, <1>9, <2>2, <2>3, <2>4 DEF SV!ServeReset, StatsInv, StatsRefs, StatsRefsOf
<1>10. ASSUME NEW c \in calls, SV!Loaded(c) PROVE StatsInv'
  <2>1. StatsAnswer(c.answer)
    BY <1>1, <1>10 DEF SV!Loaded, SV!Heard, StatsCall
  <2>2. StatsRefs'
    <3>1. CASE ui.mounted
      <4>1. ui \in StatsRefsOf(ui) /\ ui.range \in Ranges
        BY <1>1, <3>1 DEF StatsRefs
      <4>2. ui' = [SV!Stops(ui, "loading") EXCEPT !.data = c.answer.stats, !.accounts = c.answer.accounts]
        BY <1>10, <3>1 DEF SV!Loaded, SV!Shows
      <4>3. ui' \in StatsRefsOf(ui') /\ ui'.range = ui.range /\ ui'.data = c.answer.stats
        BY <4>1, <4>2 DEF StatsRefsOf, SV!Stops
      <4> QED BY <2>1, <4>1, <4>3 DEF StatsRefs, StatsAnswer
    <3>2. CASE ~ui.mounted
      BY <1>10, <3>2 DEF SV!Loaded, SV!Shows, StatsRefs
    <3> QED BY <3>1, <3>2
  <2> QED BY <1>1, <1>10, <2>2 DEF SV!Loaded, StatsInv, StatsServed
<1>11. ASSUME NEW c \in calls, SV!ResetDone(c) PROVE StatsInv'
  <2>1. \A d \in calls' : StatsCall(d)
    BY <1>1, <1>11, StatsSent DEF SV!ResetDone
  <2> QED BY <1>1, <1>11, <2>1 DEF SV!ResetDone, StatsInv, StatsServed, StatsRefs, StatsRefsOf
<1>12. ASSUME NEW c \in calls, SV!Fails(c) PROVE StatsInv'
  <2>1. StatsRefs'
    <3>1. CASE ui.mounted
      <4>1. ui \in StatsRefsOf(ui) /\ ui.range \in Ranges /\ BucketsOf(ui.data)
        BY <1>1, <3>1 DEF StatsRefs
      <4>2. ui' = SV!Stops(ui, "loading") \/ ui' = ui
        BY <1>12, <3>1 DEF SV!Fails, SV!Shows
      <4>3. ui' \in StatsRefsOf(ui') /\ ui'.range = ui.range /\ ui'.data = ui.data
        BY <4>1, <4>2 DEF StatsRefsOf, SV!Stops
      <4> QED BY <4>1, <4>3 DEF StatsRefs
    <3>2. CASE ~ui.mounted
      BY <1>12, <3>2 DEF SV!Fails, SV!Shows, StatsRefs
    <3> QED BY <3>1, <3>2
  <2>4. \A e \in calls' : StatsCall(e)
    <3>1. CASE c.op = "load"
      <4>1. c.op \in SV!Reads
        BY <3>1 DEF SV!Reads
      <4>2. calls' \subseteq calls
        BY <1>12, <4>1 DEF SV!Fails, SV!GivenUp
      <4> QED BY <1>1, <4>2
    <3>2. CASE c.op # "load"
      <4> DEFINE d == [c EXCEPT !.state = "given up"]
      <4>1. StatsCall(d)
        BY <1>1, <3>2 DEF StatsCall
      <4>2. calls' \subseteq calls \union {d}
        BY <1>12 DEF SV!Fails, SV!GivenUp
      <4> HIDE DEF d
      <4> QED BY <1>1, <4>1, <4>2
    <3> QED BY <3>1, <3>2
  <2> QED BY <1>1, <1>12, <2>1, <2>4 DEF SV!Fails, StatsInv, StatsServed
<1>13. ASSUME NEW c \in calls, SV!Vanish(c) PROVE StatsInv'
  BY <1>1, <1>13 DEF SV!Vanish, StatsInv, StatsServed, StatsRefs, StatsRefsOf
<1>14. CASE UNCHANGED SV!vars
  BY <1>1, <1>14 DEF SV!vars, StatsInv, StatsServed, StatsRefs, StatsRefsOf
<1> QED
  BY <1>2, <1>3, <1>4, <1>5, <1>6, <1>7, <1>8, <1>9, <1>10, <1>11, <1>12, <1>13, <1>14
  DEF SV!Next, SV!Operator, SV!Refresh, SV!OnReset, SV!Poll, SV!Elsewhere, SV!Hour, SV!Faults,
      SV!Step, SV!Answered

\* Of a growing list, everything behind an element is greater than it.
LEMMA LastAreGreatest ==
  ASSUME NEW s, Growing(s), NEW range \in Nat, NEW k \in 1 .. Len(s), k <= Len(s) - range
  PROVE  Cardinality({i \in 1 .. Len(s) : s[i] > s[k]}) >= range
<1>1. Len(s) \in Nat /\ \A i \in 1 .. Len(s) : s[i] \in Nat
  BY DEF Growing
<1> DEFINE last == (Len(s) - range + 1) .. Len(s)
           more == {i \in 1 .. Len(s) : s[i] > s[k]}
<1>2. IsFiniteSet(more) /\ Cardinality(more) \in Nat
  <2>1. IsFiniteSet(1 .. Len(s))
    BY <1>1, FS_Interval
  <2>2. more \in SUBSET (1 .. Len(s))
    OBVIOUS
  <2> HIDE DEF more
  <2> QED BY <2>1, <2>2, FS_Subset, FS_CardinalityType
<1>3. last \in SUBSET more
  <2> SUFFICES ASSUME NEW i \in last PROVE i \in more
    OBVIOUS
  <2>1. i \in 1 .. Len(s) /\ k < i
    BY <1>1
  <2>2. s[k] < s[i]
    BY <2>1 DEF Growing
  <2> QED BY <1>1, <2>1, <2>2
<1>4. Cardinality(last) = range
  <2>1. Len(s) - range + 1 \in Int /\ Len(s) \in Int
    BY <1>1
  <2>2. Cardinality(last) = IF Len(s) - range + 1 > Len(s) THEN 0
                            ELSE Len(s) - (Len(s) - range + 1) + 1
    BY <2>1, FS_Interval
  <2> QED BY <1>1, <2>2
<1> HIDE DEF last, more
<1>5. Cardinality(last) <= Cardinality(more)
  BY <1>2, <1>3, FS_Subset
<1> QED BY <1>4, <1>5 DEF more

LEMMA SameCardinality == ASSUME NEW S PROVE SV!Cardinality(S) = Cardinality(S)
  BY Zenon DEF SV!Cardinality, Cardinality

LEMMA StatsShown == ASSUME StatsInv, Ranges \subseteq Nat PROVE SV!NewestShown
<1>1. PICK s : s = SV!Data.buckets
  OBVIOUS
<1> DEFINE shown(h) == \/ h \in {SV!Buckets[i] : i \in DOMAIN SV!Buckets}
                       \/ Cardinality({i \in DOMAIN s : s[i] > h}) >= ui.range
<1>a. ASSUME ui.mounted => \A h \in {s[i] : i \in DOMAIN s} : shown(h) PROVE SV!NewestShown
  <2> DEFINE greater(h) == {i \in DOMAIN s : s[i] > h}
  <2>1. \A h : SV!Cardinality(greater(h)) = Cardinality(greater(h))
    BY SameCardinality
  <2>2. SV!NewestShown <=>
          (ui.mounted => \A h \in {s[i] : i \in DOMAIN s} :
                           \/ h \in {SV!Buckets[i] : i \in DOMAIN SV!Buckets}
                           \/ SV!Cardinality(greater(h)) >= ui.range)
    BY <1>1, Zenon DEF SV!NewestShown
  <2>3. \A h : shown(h) <=> \/ h \in {SV!Buckets[i] : i \in DOMAIN SV!Buckets}
                            \/ SV!Cardinality(greater(h)) >= ui.range
    BY <2>1, Zenon
  <2> HIDE DEF shown, greater
  <2> QED BY <1>a, <2>2, <2>3, Zenon
<1> SUFFICES ASSUME ui.mounted, NEW k \in DOMAIN s PROVE shown(s[k])
  <2> HIDE DEF shown
  <2> QED BY <1>a
<1>2. Growing(s) /\ ui.range \in Nat
  <2>1. BucketsOf(ui.data) /\ ui.range \in Nat
    BY DEF StatsInv, StatsRefs
  <2>2. Growing(SV!Zero.buckets)
    BY DEF SV!Zero, Growing
  <2> QED BY <1>1, <2>1, <2>2 DEF SV!Data, BucketsOf
<1>3. DOMAIN s = 1 .. Len(s) /\ Len(s) \in Nat
  BY <1>2 DEF Growing
<1>4. CASE k <= Len(s) - ui.range
  BY <1>1, <1>2, <1>3, <1>4, LastAreGreatest
<1>5. CASE k > Len(s) - ui.range
  <2>1. PICK m \in Int : m = Len(s) - SV!Min2(ui.range, Len(s)) + 1
    BY <1>2, <1>3 DEF SV!Min2
  <2>2. m \in 1 .. Len(s) + 1 /\ m <= k /\ k <= Len(s)
    BY <1>1, <1>2, <1>3, <1>5, <2>1 DEF SV!Min2
  <2>3. \A i \in m .. Len(s) : s[i] \in Nat
    BY <1>2, <1>3, <2>2 DEF Growing
  <2>4. /\ SubSeq(s, m, Len(s)) \in Seq(Nat)
        /\ Len(SubSeq(s, m, Len(s))) = IF m <= Len(s) THEN Len(s) - m + 1 ELSE 0
        /\ \A i \in 1 .. Len(s) - m + 1 : SubSeq(s, m, Len(s))[i] = s[m + i - 1]
    BY <1>3, <2>3, SubSeqProperties
  <2>5. SV!Buckets = SubSeq(s, m, Len(s))
    BY <1>1, <2>1 DEF SV!Buckets
  <2>6. k - m + 1 \in 1 .. Len(s) - m + 1 /\ m + (k - m + 1) - 1 = k
    BY <1>1, <1>3, <2>2
  <2>7. SV!Buckets[k - m + 1] = s[k] /\ k - m + 1 \in DOMAIN SV!Buckets
    BY <2>2, <2>4, <2>5, <2>6
  <2> QED BY <1>1, <2>7
<1> QED BY <1>1, <1>2, <1>3, <1>4, <1>5

-----------------------------------------------------------------------------
(* LoginTake.vue: an attempt is in flight or has a row, and none has two.   *)

TakeRow == [n : Nat, ok : BOOLEAN]
Takes(c) == c.op \in {"popup", "login", "oauth"}
TakeCall(c) ==
  /\ c \in [id : {c.id}, op : {c.op}, arg : {c.arg}, state : {c.state}, answer : {c.answer}]
  /\ Takes(c) => c.arg[1] \in 1 .. ui.attempts /\ \A i \in 1 .. Len(ui.history) : ui.history[i].n # c.arg[1]
  /\ c.state = "answered" => c.answer[1] \in BOOLEAN
TakeRefsOf(u) ==
  [mounted : {u.mounted}, ticking : {u.ticking}, busy : {u.busy}, oauthBusy : {u.oauthBusy},
   password : {u.password}, history : {u.history}, attempts : {u.attempts}, last : {u.last}]

TakeRefs ==
  /\ srv = [stored |-> srv.stored, sdk |-> srv.sdk]
  /\ ui \in TakeRefsOf(ui) /\ ui.attempts \in Nat
TakeRows ==
  /\ ui.history \in Seq(TakeRow)
  /\ \A i \in 1 .. Len(ui.history) : ui.history[i].n <= ui.attempts
  /\ \A i, j \in 1 .. Len(ui.history) : ui.history[i].n = ui.history[j].n => i = j
TakeLast ==
  ui.last # 0 => Len(ui.history) >= 1 /\ ui.history[1].n = ui.last /\ srv.stored = ui.history
TakeCalls ==
  /\ \A c \in calls : TakeCall(c)
  /\ \A c, d \in calls : Takes(c) /\ Takes(d) /\ c.arg[1] = d.arg[1] => c = d
TakeInv == TakeRefs /\ TakeRows /\ TakeLast /\ TakeCalls

LEMMA RowsAre ==
  ASSUME TakeInv
  PROVE  \A i \in 1 .. Len(ui.history) : ui.history[i].n \in Nat /\ ui.history[i].n <= ui.attempts
<1>1. \A i \in 1 .. Len(ui.history) : ui.history[i] \in TakeRow
  BY ElementOfSeq DEF TakeInv, TakeRows
<1>2. \A r \in TakeRow : r.n \in Nat
  BY DEF TakeRow
<1> QED BY <1>1, <1>2 DEF TakeInv, TakeRows

LEMMA TakeStart == LT!Init => TakeInv
<1> SUFFICES ASSUME LT!Init PROVE TakeInv
  OBVIOUS
<1>1. PICK h : /\ h = <<>> \/ h = <<[n |-> 0, ok |-> TRUE]>>
               /\ ui = [mounted |-> TRUE, ticking |-> FALSE, busy |-> {}, oauthBusy |-> Nothing,
                        password |-> FALSE, history |-> h, attempts |-> 0, last |-> 0]
  <2>1. LT!LoadHistory(srv.stored) \in {<<>>, <<LT!Old>>}
    BY DEF LT!Init, LT!LoadHistory
  <2> QED BY <2>1 DEF LT!Init, LT!Old
<1>2. TakeRows
  <2>1. [n |-> 0, ok |-> TRUE] \in TakeRow
    BY DEF TakeRow
  <2>2. h \in Seq(TakeRow) /\ Len(h) <= 1 /\ \A i \in 1 .. Len(h) : h[i].n = 0 /\ i = 1
    <3>1. CASE h = <<>>
      BY <3>1
    <3>2. CASE h = <<[n |-> 0, ok |-> TRUE]>>
      <4> DEFINE row == [n |-> 0, ok |-> TRUE]
      <4>1. row \in TakeRow /\ row.n = 0 /\ h = <<row>>
        BY <2>1, <3>2
      <4> HIDE DEF row
      <4> QED BY <4>1
    <3> QED BY <1>1, <3>1, <3>2
  <2> QED BY <1>1, <2>2 DEF TakeRows
<1>3. TakeRefs
  BY <1>1 DEF LT!Init, TakeRefs, TakeRefsOf
<1> QED BY <1>1, <1>2, <1>3 DEF LT!Init, TakeInv, TakeLast, TakeCalls

\* The history with a new row: the row, and then the old ones, cut at the end.
LEMMA Recorded ==
  ASSUME Cap \in Nat \ {0}, NEW h \in Seq(TakeRow), NEW r \in TakeRow
  PROVE  LET t == LT!RecordHistory(h, r)
         IN /\ t \in Seq(TakeRow) /\ Len(t) >= 1 /\ t[1] = r
            /\ \A i \in 1 .. Len(t) : i # 1 => i - 1 \in 1 .. Len(h) /\ t[i] = h[i - 1]
<1> DEFINE n == IF Len(h) < Cap THEN Len(h) + 1 ELSE Cap
           long == <<r>> \o h
<1>1. /\ long \in Seq(TakeRow) /\ Len(long) = Len(h) + 1
      /\ long[1] = r /\ \A i \in 2 .. Len(h) + 1 : long[i] = h[i - 1]
  <2>1. <<r>> \in Seq(TakeRow) /\ Len(<<r>>) = 1 /\ <<r>>[1] = r
    OBVIOUS
  <2>2. /\ long \in Seq(TakeRow) /\ Len(long) = Len(<<r>>) + Len(h)
        /\ \A i \in 1 .. Len(<<r>>) + Len(h) :
              long[i] = IF i <= Len(<<r>>) THEN <<r>>[i] ELSE h[i - Len(<<r>>)]
    BY <2>1, ConcatProperties
  <2> HIDE DEF long
  <2> QED BY <2>1, <2>2
<1>2. n \in 1 .. Len(h) + 1
  OBVIOUS
<1> HIDE DEF long, n
<1>3. \A i \in 1 .. n : long[i] \in TakeRow
  BY <1>1, <1>2
<1>4. /\ SubSeq(long, 1, n) \in Seq(TakeRow) /\ Len(SubSeq(long, 1, n)) = n
      /\ \A i \in 1 .. n : SubSeq(long, 1, n)[i] = long[i]
  <2>1. /\ SubSeq(long, 1, n) \in Seq(TakeRow)
        /\ Len(SubSeq(long, 1, n)) = IF 1 <= n THEN n - 1 + 1 ELSE 0
        /\ \A i \in 1 .. n - 1 + 1 : SubSeq(long, 1, n)[i] = long[1 + i - 1]
    BY <1>2, <1>3, SubSeqProperties
  <2> QED BY <1>2, <2>1
<1>5. LT!RecordHistory(h, r) = SubSeq(long, 1, n)
  BY DEF LT!RecordHistory, long, n
<1> QED BY <1>1, <1>2, <1>4, <1>5

\* An attempt ends in the first row.
LEMMA TakeEnds ==
  ASSUME Cap \in Nat \ {0}, TakeInv, NEW c \in calls, Takes(c), NEW ok \in BOOLEAN,
         NEW u, u \in TakeRefsOf(u), u.history = ui.history, u.attempts = ui.attempts,
         NEW sdk, LT!Ends(c, ok, u, sdk)
  PROVE  TakeInv'
<1> DEFINE r == [n |-> c.arg[1], ok |-> ok]
           h == LT!RecordHistory(ui.history, r)
<1>1. /\ ui' = [u EXCEPT !.history = h, !.last = c.arg[1]]
      /\ srv' = [stored |-> h, sdk |-> sdk]
      /\ calls' = calls \ {c}
  BY DEF LT!Ends
<1>2. /\ c.arg[1] \in Nat /\ c.arg[1] <= ui.attempts /\ c.arg[1] # 0 /\ ui.attempts \in Nat
      /\ \A i \in 1 .. Len(ui.history) : ui.history[i].n # c.arg[1]
  BY DEF TakeInv, TakeCalls, TakeCall, TakeRefs
<1>3. r \in TakeRow /\ r.n = c.arg[1]
  BY <1>2 DEF TakeRow
<1>4. ui.history \in Seq(TakeRow)
  BY DEF TakeInv, TakeRows
<1> HIDE DEF r
<1>5. /\ h \in Seq(TakeRow) /\ Len(h) >= 1 /\ h[1] = r /\ Len(h) \in Nat
      /\ \A i \in 1 .. Len(h) : i # 1 => i - 1 \in 1 .. Len(ui.history) /\ h[i] = ui.history[i - 1]
  <2>1. /\ h \in Seq(TakeRow) /\ Len(h) >= 1 /\ h[1] = r
        /\ \A i \in 1 .. Len(h) : i # 1 => i - 1 \in 1 .. Len(ui.history) /\ h[i] = ui.history[i - 1]
    BY <1>3, <1>4, Recorded
  <2> HIDE DEF h
  <2> QED BY <2>1
<1> HIDE DEF h
<1>6. /\ ui' \in TakeRefsOf(ui') /\ ui'.history = h /\ ui'.last = c.arg[1] /\ ui'.attempts = ui.attempts
      /\ srv'.stored = h
  BY <1>1 DEF TakeRefsOf
<1>7. TakeRefs'
  BY <1>1, <1>2, <1>6 DEF TakeRefs
<1>8. TakeRows'
  <2>1. \A i \in 1 .. Len(h) : h[i].n <= ui.attempts
    BY <1>2, <1>3, <1>5 DEF TakeInv, TakeRows
  <2>2. ASSUME NEW i \in 1 .. Len(h), NEW j \in 1 .. Len(h), h[i].n = h[j].n PROVE i = j
    <3>1. CASE i # 1 /\ j # 1
      <4>1. i - 1 = j - 1
        <5>1. /\ i - 1 \in 1 .. Len(ui.history) /\ j - 1 \in 1 .. Len(ui.history)
              /\ ui.history[i - 1].n = ui.history[j - 1].n
          BY <1>5, <2>2, <3>1
        <5>2. \A k, l \in 1 .. Len(ui.history) : ui.history[k].n = ui.history[l].n => k = l
          BY DEF TakeInv, TakeRows
        <5> QED BY <5>1, <5>2
      <4> QED BY <1>5, <4>1
    <3>2. CASE i = 1 \/ j = 1
      BY <1>2, <1>3, <1>5, <2>2, <3>2
    <3> QED BY <3>1, <3>2
  <2> QED BY <1>5, <1>6, <2>1, <2>2 DEF TakeRows
<1>9. TakeLast'
  BY <1>3, <1>5, <1>6 DEF TakeLast
<1>10. TakeCalls'
  <2>1. ASSUME NEW d \in calls, d # c PROVE TakeCall(d)'
    <3>1. TakeCall(d) /\ (Takes(d) => d.arg[1] # c.arg[1])
      BY <2>1 DEF TakeInv, TakeCalls
    <3>2. ASSUME Takes(d), NEW i \in 1 .. Len(h) PROVE h[i].n # d.arg[1]
      BY <1>3, <1>5, <3>1, <3>2 DEF TakeCall
    <3> QED BY <1>6, <3>1, <3>2 DEF TakeCall, Takes
  <2> QED BY <1>1, <2>1 DEF TakeInv, TakeCalls, Takes
<1> QED BY <1>7, <1>8, <1>9, <1>10 DEF TakeInv

\* A call is sent whose attempt, if it is one, has no row and no other call.
LEMMA TakeSent ==
  ASSUME TakeInv, ui' \in TakeRefsOf(ui'), ui'.history = ui.history, ui'.last = ui.last,
         ui'.attempts \in Nat, ui.attempts <= ui'.attempts,
         srv' = [stored |-> srv.stored, sdk |-> srv'.sdk],
         NEW cs \in SUBSET calls, NEW op, NEW arg, calls' = LT!Sending(cs, op, arg),
         op \in {"popup", "login", "oauth"} =>
           /\ arg[1] \in 1 .. ui'.attempts
           /\ \A i \in 1 .. Len(ui.history) : ui.history[i].n # arg[1]
           /\ \A d \in cs : Takes(d) => d.arg[1] # arg[1]
  PROVE  TakeInv'
<1>1. PICK k : calls' =
                 cs \union {[id |-> k, op |-> op, arg |-> arg, state |-> "sent", answer |-> Nothing]}
  BY DEF LT!Sending
<1> DEFINE n == [id |-> k, op |-> op, arg |-> arg, state |-> "sent", answer |-> Nothing]
<1>2. n.op = op /\ n.arg = arg /\ n.state = "sent"
      /\ n \in [id : {n.id}, op : {n.op}, arg : {n.arg}, state : {n.state}, answer : {n.answer}]
  OBVIOUS
<1>3. calls' = cs \union {n}
  BY <1>1
<1> HIDE DEF n
<1>4. TakeCall(n)'
  BY <1>2 DEF TakeCall, Takes
<1>5. ASSUME NEW d \in cs PROVE TakeCall(d)'
  <2>1. TakeCall(d) /\ ui.attempts \in Nat
    BY DEF TakeInv, TakeCalls, TakeRefs
  <2> QED BY <2>1 DEF TakeCall, Takes
<1>6. TakeCalls'
  <2>1. \A d \in calls' : TakeCall(d)'
    BY <1>3, <1>4, <1>5
  <2>2. \A d, e \in cs : Takes(d) /\ Takes(e) /\ d.arg[1] = e.arg[1] => d = e
    BY DEF TakeInv, TakeCalls
  <2>3. \A d \in cs : Takes(d) /\ Takes(n) => d.arg[1] # n.arg[1]
    BY <1>2 DEF Takes
  <2>4. \A d, e \in calls' : Takes(d) /\ Takes(e) /\ d.arg[1] = e.arg[1] => d = e
    BY <1>3, <2>2, <2>3
  <2> QED BY <2>1, <2>4 DEF TakeCalls, Takes
<1>7. TakeRefs'
  BY DEF TakeRefs
<1>8. TakeRows'
  <2>1. TakeRows /\ ui.attempts \in Nat
    BY DEF TakeInv, TakeRefs
  <2>2. \A i \in 1 .. Len(ui.history) : ui.history[i].n \in Nat
    BY RowsAre
  <2> QED BY <2>1, <2>2 DEF TakeRows
<1>9. TakeLast'
  BY DEF TakeInv, TakeLast
<1> QED BY <1>6, <1>7, <1>8, <1>9 DEF TakeInv

\* Refs that the rows do not depend on change, calls are answered or forgotten.
LEMMA TakeElse ==
  ASSUME TakeInv, ui' \in TakeRefsOf(ui'), ui'.history = ui.history, ui'.last = ui.last,
         ui'.attempts = ui.attempts, srv' = srv,
         \A d \in calls' : \/ d \in calls
                           \/ /\ TakeCall(d)
                              /\ \E c \in calls \ calls' :
                                   /\ c.op = d.op /\ c.arg = d.arg
                                   /\ \A e \in calls' : e \in calls \/ e = d
  PROVE  TakeInv'
<1>1. TakeCalls'
  <2>1. \A d \in calls' : TakeCall(d)'
    BY DEF TakeInv, TakeCalls, TakeCall, Takes
  <2>2. ASSUME NEW d \in calls', NEW e \in calls', Takes(d), Takes(e), d.arg[1] = e.arg[1] PROVE d = e
    <3>1. CASE d \in calls /\ e \in calls
      BY <2>2, <3>1 DEF TakeInv, TakeCalls
    <3>2. ASSUME NEW x \in calls', NEW y \in calls', x \notin calls, Takes(x), Takes(y), x.arg[1] = y.arg[1]
          PROVE  x = y
      <4>1. PICK c \in calls \ calls' : /\ c.op = x.op /\ c.arg = x.arg
                                        /\ \A z \in calls' : z \in calls \/ z = x
        BY <3>2
      <4>2. Takes(c)
        BY <3>2, <4>1 DEF Takes
      <4>3. CASE y \in calls
        BY <3>2, <4>1, <4>2, <4>3 DEF TakeInv, TakeCalls
      <4> QED BY <4>1, <4>3
    <3> QED BY <2>2, <3>1, <3>2
  <2> QED BY <2>1, <2>2 DEF TakeCalls, Takes
<1> QED BY <1>1 DEF TakeInv, TakeRefs, TakeRows, TakeLast

LEMMA TakeKeeps == ASSUME Cap \in Nat \ {0}, TakeInv, [LT!Next]_(LT!vars) PROVE TakeInv'
<1>0. ui \in TakeRefsOf(ui) /\ ui.attempts \in Nat /\ srv = [stored |-> srv.stored, sdk |-> srv.sdk]
  BY DEF TakeInv, TakeRefs
<1>1. ASSUME NEW op, NEW arg, NEW u, u \in TakeRefsOf(u), u.history = ui.history, u.last = ui.last,
             u.attempts = ui.attempts, LT!Attempt(op, arg, u)
      PROVE  TakeInv'
  <2>1. ui' = [u EXCEPT !.attempts = ui.attempts + 1]
    BY <1>1 DEF LT!Attempt
  <2>2. ui' \in TakeRefsOf(ui') /\ ui'.history = ui.history /\ ui'.last = ui.last
        /\ ui'.attempts = ui.attempts + 1
    BY <1>1, <2>1 DEF TakeRefsOf
  <2>3. calls' = LT!Sending(calls, op, <<ui.attempts + 1, arg>>) /\ srv' = srv
    BY <1>1 DEF LT!Attempt
  <2>4. \A i \in 1 .. Len(ui.history) : ui.history[i].n # ui.attempts + 1
    <3>1. \A i \in 1 .. Len(ui.history) : ui.history[i].n \in Nat /\ ui.history[i].n <= ui.attempts
      BY RowsAre
    <3> QED BY <1>0, <3>1
  <2>5. \A d \in calls : Takes(d) => d.arg[1] # ui.attempts + 1
    BY <1>0 DEF TakeInv, TakeCalls, TakeCall
  <2>6. <<ui.attempts + 1, arg>>[1] = ui.attempts + 1 /\ ui.attempts + 1 \in 1 .. ui'.attempts
    BY <1>0, <2>2
  <2> QED BY <1>0, <2>2, <2>3, <2>4, <2>5, <2>6, TakeSent
<1>2. ASSUME NEW u, u \in TakeRefsOf(u), u.history = ui.history, u.last = ui.last, u.attempts = ui.attempts,
             ui' = u, srv' = srv, calls' \subseteq calls
      PROVE  TakeInv'
  BY <1>2, TakeElse
<1>3. CASE LT!TypePassword
  <2>1. [ui EXCEPT !.password = TRUE] \in TakeRefsOf([ui EXCEPT !.password = TRUE])
    BY <1>0 DEF TakeRefsOf
  <2> QED BY <1>0, <1>2, <1>3, <2>1 DEF LT!TypePassword, TakeRefsOf
<1>4. CASE LT!OnEmailLogin
  <2>1. LT!Spins(ui, "submitting") \in TakeRefsOf(LT!Spins(ui, "submitting"))
    BY <1>0 DEF TakeRefsOf, LT!Spins
  <2> QED BY <1>0, <1>1, <1>4, <2>1 DEF LT!OnEmailLogin, LT!Spins, TakeRefsOf
<1>5. CASE LT!OnTestProxy
  <2>1. ui' = LT!Spins(ui, "testing") /\ calls' = LT!Sending(calls, "testing", LT!NoArg) /\ srv' = srv
    BY <1>5 DEF LT!OnTestProxy
  <2>2. /\ ui' \in TakeRefsOf(ui') /\ ui'.history = ui.history /\ ui'.last = ui.last
        /\ ui'.attempts = ui.attempts
    BY <1>0, <2>1 DEF TakeRefsOf, LT!Spins
  <2> QED BY <1>0, <2>1, <2>2, TakeSent
<1>6. CASE LT!Leave
  <2>1. [ui EXCEPT !.mounted = FALSE] \in TakeRefsOf([ui EXCEPT !.mounted = FALSE])
    BY <1>0 DEF TakeRefsOf
  <2> QED BY <1>0, <1>2, <1>6, <2>1 DEF LT!Leave, TakeRefsOf
<1>7. ASSUME NEW p, LT!OnOAuth(p) PROVE TakeInv'
  <2>1. [ui EXCEPT !.oauthBusy = p] \in TakeRefsOf([ui EXCEPT !.oauthBusy = p])
    BY <1>0 DEF TakeRefsOf
  <2> QED BY <1>0, <1>1, <1>7, <2>1 DEF LT!OnOAuth, TakeRefsOf
<1> DEFINE idle == [ui EXCEPT !.oauthBusy = Nothing]
<1>8. idle \in TakeRefsOf(idle) /\ idle.history = ui.history /\ idle.attempts = ui.attempts
  BY <1>0 DEF TakeRefsOf
<1>9. ASSUME NEW c \in calls, LT!PopupDone(c) PROVE TakeInv'
  <2>1. ASSUME NEW sdk, LT!Ends(c, FALSE, idle, sdk) PROVE TakeInv'
    <3>1. Takes(c)
      BY <1>9 DEF LT!PopupDone, Takes
    <3> HIDE DEF idle
    <3> QED BY <1>8, <2>1, <3>1, TakeEnds
  <2>2. ASSUME srv' = [srv EXCEPT !.sdk = "ready"], calls' = LT!Sending(calls \ {c}, "oauth", c.arg), ui' = ui
        PROVE  TakeInv'
    <3>1. Takes(c)
      BY <1>9 DEF LT!PopupDone, Takes
    <3>2. /\ c.arg[1] \in 1 .. ui.attempts /\ \A i \in 1 .. Len(ui.history) : ui.history[i].n # c.arg[1]
          /\ \A d \in calls \ {c} : Takes(d) => d.arg[1] # c.arg[1]
      BY <3>1 DEF TakeInv, TakeCalls, TakeCall
    <3>3. srv' = [stored |-> srv.stored, sdk |-> srv'.sdk]
      BY <1>0, <2>2
    <3>4. calls \ {c} \in SUBSET calls
      OBVIOUS
    <3> QED BY <1>0, <2>2, <3>2, <3>3, <3>4, TakeSent
  <2> QED BY <1>9, <2>1, <2>2 DEF LT!PopupDone
<1>10. ASSUME NEW c \in calls, LT!Serve(c) PROVE TakeInv'
  <2>1. PICK ok \in BOOLEAN : calls' = LT!Replied(c, <<ok>>)
    BY <1>10 DEF LT!Serve
  <2> DEFINE d == [id |-> c.id, op |-> c.op, arg |-> c.arg, state |-> "answered", answer |-> <<ok>>]
  <2>2. TakeCall(d) /\ d.op = c.op /\ d.arg = c.arg /\ d.state = "answered"
    BY DEF TakeInv, TakeCalls, TakeCall, Takes
  <2>3. calls' = (calls \ {c}) \union (IF c.state = "given up" THEN {} ELSE {d})
    BY <2>1 DEF LT!Replied
  <2> HIDE DEF d
  <2>4. c.state # "answered" /\ srv' = srv /\ ui' = ui
    BY <1>10 DEF LT!Serve, LT!Unserved
  <2>5. c \notin calls' /\ \A e \in calls' : e \in calls \/ e = d
    BY <2>2, <2>3, <2>4
  <2> QED BY <1>0, <2>2, <2>4, <2>5, TakeElse
<1>11. ASSUME NEW c \in calls, NEW ok \in BOOLEAN, c.op \in {"login", "oauth"},
              LT!Ends(c, ok, LT!After(c, ok), srv.sdk)
       PROVE  TakeInv'
  <2> DEFINE u == LT!After(c, ok)
  <2>1. Takes(c)
    BY <1>11 DEF Takes
  <2>2. u \in TakeRefsOf(u) /\ u.history = ui.history /\ u.attempts = ui.attempts
    BY <1>0 DEF LT!After, LT!Stops, TakeRefsOf
  <2> HIDE DEF u
  <2> QED BY <1>11, <2>1, <2>2, TakeEnds DEF u
<1>12. ASSUME NEW c \in calls, ui' = LT!Stops(ui, "testing"), calls' = calls \ {c}, srv' = srv
       PROVE  TakeInv'
  <2>1. LT!Stops(ui, "testing") \in TakeRefsOf(LT!Stops(ui, "testing"))
    BY <1>0 DEF TakeRefsOf, LT!Stops
  <2> QED BY <1>0, <1>2, <1>12, <2>1 DEF LT!Stops, TakeRefsOf
<1>13. ASSUME NEW c \in calls, LT!Answered(c) PROVE TakeInv'
  <2>1. CASE LT!LoginEnds(c)
    <3>1. c.answer[1] \in BOOLEAN
      BY <2>1 DEF LT!LoginEnds, LT!Heard, TakeInv, TakeCalls, TakeCall
    <3> QED BY <1>11, <2>1, <3>1 DEF LT!LoginEnds
  <2>2. CASE LT!Tested(c)
    BY <1>12, <2>2 DEF LT!Tested
  <2> QED BY <1>13, <2>1, <2>2 DEF LT!Answered
<1>14. ASSUME NEW c \in calls, LT!Fails(c) PROVE TakeInv'
  BY <1>11, <1>12, <1>14 DEF LT!Fails
<1>15. CASE UNCHANGED LT!vars
  BY <1>0, <1>2, <1>15 DEF LT!vars
<1> QED
  BY <1>3, <1>4, <1>5, <1>6, <1>7, <1>9, <1>10, <1>13, <1>14, <1>15
  DEF LT!Next, LT!Operator, LT!Faults, LT!Step

LEMMA TakeShown == ASSUME TakeInv PROVE LT!NewestFirst
<1>1. DOMAIN ui.history = 1 .. Len(ui.history)
  BY DEF TakeInv, TakeRows
<1> QED BY <1>1 DEF TakeInv, TakeRows, TakeLast, LT!NewestFirst

-----------------------------------------------------------------------------
(* Logs.vue: what the connection has still to bring, the replay under way   *)
(* and then what waits in the channel, was logged after what it brought.    *)

Follows(seen, s, most) ==
  /\ s \in Seq(Nat) /\ \A i, j \in 1 .. Len(s) : i < j => s[i] < s[j]
  /\ \A i \in 1 .. Len(s) : seen < s[i] /\ s[i] <= most

Waiting(handler) == IF handler = LV!Closed THEN <<>> ELSE handler.chan
LogRefs ==
  /\ ui \in [mounted : {ui.mounted}, ticking : {ui.ticking}, busy : {ui.busy}, entries : {ui.entries},
             stream : {ui.stream}, seen : Nat]
  /\ srv \in [logged : Nat, handler : {srv.handler}, wire : Seq(Nat)]
  /\ srv.handler = LV!Closed \/ srv.handler \in [at : {"replayed", "subscribed"}, chan : Seq(Nat)]
  /\ ui.seen <= srv.logged
LogStream ==
  /\ Follows(ui.seen, srv.wire \o Waiting(srv.handler), srv.logged)
  /\ ui.stream # "open" => srv.handler = LV!Closed /\ srv.wire = <<>>
LogList == calls = {} \/ (ui.stream = "none" /\ \E c : calls = {c})
LogInv == LogRefs /\ LogStream /\ LogList

LEMMA NothingFollows == ASSUME NEW seen, NEW most PROVE Follows(seen, <<>> \o <<>>, most)
  BY DEF Follows

LEMMA LatestFollow ==
  ASSUME NEW logged \in Nat, NEW n \in Nat
  PROVE  /\ LV!Latest([e \in 1 .. logged |-> e], n) \in Seq(Nat)
         /\ Follows(0, LV!Latest([e \in 1 .. logged |-> e], n) \o <<>>, logged)
<1> DEFINE s == [e \in 1 .. logged |-> e]
           m == IF Len(s) > n THEN Len(s) - n + 1 ELSE 1
<1>1. s \in Seq(Nat) /\ Len(s) = logged /\ \A i \in 1 .. logged : s[i] = i
  OBVIOUS
<1> HIDE DEF s
<1>2. m \in Nat /\ m >= 1 /\ LV!Latest(s, n) = SubSeq(s, m, logged)
  BY <1>1 DEF LV!Latest
<1> HIDE DEF m
<1>3. \A i \in m .. logged : s[i] \in Nat
  BY <1>1, <1>2
<1>4. /\ SubSeq(s, m, logged) \in Seq(Nat)
      /\ Len(SubSeq(s, m, logged)) = IF m <= logged THEN logged - m + 1 ELSE 0
      /\ \A i \in 1 .. logged - m + 1 : SubSeq(s, m, logged)[i] = s[m + i - 1]
  BY <1>2, <1>3, SubSeqProperties
<1>5. PICK t : t = SubSeq(s, m, logged)
  OBVIOUS
<1>6. \A i \in 1 .. Len(t) : t[i] = m + i - 1 /\ m + i - 1 \in 1 .. logged
  <2> SUFFICES ASSUME NEW i \in 1 .. Len(t) PROVE t[i] = m + i - 1 /\ m + i - 1 \in 1 .. logged
    OBVIOUS
  <2>1. m <= logged /\ i \in 1 .. logged - m + 1
    BY <1>2, <1>4, <1>5
  <2> QED BY <1>1, <1>2, <1>4, <1>5, <2>1
<1>7. t \o <<>> = t
  BY <1>4, <1>5, ConcatEmptySeq
<1>8. Follows(0, t, logged)
  <2>1. t \in Seq(Nat)
    BY <1>4, <1>5
  <2>2. \A i \in 1 .. Len(t) : 0 < t[i] /\ t[i] <= logged
    BY <1>6
  <2>3. \A i, j \in 1 .. Len(t) : i < j => t[i] < t[j]
    BY <1>2, <1>6
  <2> QED BY <2>1, <2>2, <2>3 DEF Follows
<1> QED BY <1>2, <1>4, <1>5, <1>7, <1>8 DEF s

LEMMA LoggedFollows ==
  ASSUME NEW seen \in Nat, NEW w \in Seq(Nat), NEW ch \in Seq(Nat), NEW most \in Nat,
         Follows(seen, w \o ch, most), seen <= most
  PROVE  Follows(seen, w \o Append(ch, most + 1), most + 1)
<1>1. PICK s : s = w \o ch
  OBVIOUS
<1>2. s \in Seq(Nat) /\ most + 1 \in Nat /\ Len(s) \in Nat
  BY <1>1 DEF Follows
<1>3. PICK t : t = Append(s, most + 1)
  OBVIOUS
<1>4. w \o Append(ch, most + 1) = t
  <2>1. most + 1 \in Nat
    BY <1>2
  <2>2. PICK x \in Nat : x = most + 1
    BY <2>1
  <2>3. Append(ch, x) = ch \o <<x>>
    BY AppendIsConcat
  <2>4. Append(s, x) = s \o <<x>>
    BY <1>2, AppendIsConcat
  <2>5. <<x>> \in Seq(Nat)
    OBVIOUS
  <2>6. (w \o ch) \o <<x>> = w \o (ch \o <<x>>)
    BY <2>5, ConcatAssociative, SMTT(20)
  <2> QED BY <1>1, <1>3, <2>2, <2>3, <2>4, <2>6, Zenon
<1>5. /\ t \in Seq(Nat) /\ Len(t) = Len(s) + 1 /\ t[Len(s) + 1] = most + 1
      /\ \A i \in 1 .. Len(s) : t[i] = s[i]
  BY <1>2, <1>3, AppendProperties
<1>6. PICK n \in Nat : n = Len(s)
  BY <1>2
<1>7. \A i \in 1 .. n : t[i] \in Nat /\ seen < t[i] /\ t[i] <= most /\ \A j \in 1 .. n : i < j => t[i] < t[j]
  <2>1. \A i \in 1 .. n : s[i] \in Nat
    BY <1>2, <1>6, ElementOfSeq
  <2>2. \A i \in 1 .. n : seen < s[i] /\ s[i] <= most /\ \A j \in 1 .. n : i < j => s[i] < s[j]
    BY <1>1, <1>6 DEF Follows
  <2>3. \A i \in 1 .. n : t[i] = s[i]
    BY <1>5, <1>6
  <2> QED BY <2>1, <2>2, <2>3
<1>8. Len(t) = n + 1 /\ t[n + 1] = most + 1
  BY <1>5, <1>6
<1>9. ASSUME NEW i \in 1 .. n + 1
      PROVE  seen < t[i] /\ t[i] <= most + 1 /\ \A j \in 1 .. n + 1 : i < j => t[i] < t[j]
  <2>1. CASE i = n + 1
    BY <1>8, <2>1
  <2>2. CASE i # n + 1
    <3>1. i \in 1 .. n
      BY <2>2
    <3>2. ASSUME NEW j \in 1 .. n + 1, i < j PROVE t[i] < t[j]
      <4>1. CASE j = n + 1
        BY <1>7, <1>8, <3>1, <4>1
      <4>2. CASE j # n + 1
        BY <1>7, <3>1, <3>2, <4>2
      <4> QED BY <4>1, <4>2
    <3> QED BY <1>7, <3>1, <3>2
  <2> QED BY <2>1, <2>2
<1> QED BY <1>4, <1>5, <1>8, <1>9 DEF Follows

LEMMA LostFollows ==
  ASSUME NEW seen, NEW s, NEW most \in Nat, Follows(seen, s, most)
  PROVE  Follows(seen, s, most + 1)
  BY DEF Follows

\* What is forwarded stands where it stood.
LEMMA ForwardFollows ==
  ASSUME NEW w \in Seq(Nat), NEW ch \in Seq(Nat), ch # <<>>
  PROVE  Append(w, Head(ch)) \in Seq(Nat) /\ Tail(ch) \in Seq(Nat) /\ Append(w, Head(ch)) \o Tail(ch) = w \o ch
<1>1. /\ Head(ch) \in Nat /\ Tail(ch) \in Seq(Nat) /\ <<Head(ch)>> \in Seq(Nat)
  BY HeadTailProperties
<1>2. Append(w, Head(ch)) = w \o <<Head(ch)>> /\ Append(w, Head(ch)) \in Seq(Nat)
  BY <1>1, AppendIsConcat, AppendProperties
<1>3. ch = <<Head(ch)>> \o Tail(ch)
  <2>1. PICK t : t = Tail(ch)
    OBVIOUS
  <2>2. PICK u : u = <<Head(ch)>>
    OBVIOUS
  <2>3. /\ t \in Seq(Nat) /\ Len(t) = Len(ch) - 1 /\ \A i \in 1 .. Len(t) : t[i] = ch[i + 1]
        /\ Len(ch) \in Nat \ {0}
    BY <2>1, HeadTailProperties, EmptySeq
  <2>4. u \in Seq(Nat) /\ Len(u) = 1 /\ u[1] = ch[1]
    BY <1>1, <2>2
  <2>5. /\ u \o t \in Seq(Nat) /\ Len(u \o t) = Len(u) + Len(t)
        /\ \A i \in 1 .. Len(u) + Len(t) : (u \o t)[i] = IF i <= Len(u) THEN u[i] ELSE t[i - Len(u)]
    BY <2>3, <2>4, ConcatProperties
  <2>6. PICK v : v = u \o t
    OBVIOUS
  <2>7. v \in Seq(Nat) /\ Len(v) = Len(ch) /\ \A i \in 1 .. Len(ch) : v[i] = ch[i]
    <3>1. PICK n \in Nat \ {0} : n = Len(ch)
      BY <2>3
    <3>2. /\ v \in Seq(Nat) /\ Len(v) = n
          /\ \A i \in 1 .. n : v[i] = IF i <= 1 THEN u[i] ELSE t[i - 1]
      <4>1. Len(u) = 1 /\ Len(t) = n - 1
        BY <2>3, <2>4, <3>1
      <4> QED BY <2>5, <2>6, <4>1, SMTT(30)
    <3>3. \A i \in 1 .. n - 1 : t[i] = ch[i + 1]
      BY <2>3, <3>1
    <3>4. ASSUME NEW i \in 1 .. n PROVE v[i] = ch[i]
      <4>1. CASE i = 1
        BY <2>4, <3>2, <4>1
      <4>2. CASE i # 1
        <5>1. i - 1 \in 1 .. n - 1 /\ (i - 1) + 1 = i /\ ~(i <= 1)
          BY <4>2
        <5>2. t[i - 1] = ch[(i - 1) + 1]
          BY <3>3, <5>1
        <5> QED BY <3>2, <5>1, <5>2
      <4> QED BY <4>1, <4>2
    <3> QED BY <3>1, <3>2, <3>4
  <2>8. v = ch
    BY <2>7, SeqEqual
  <2> QED BY <2>1, <2>2, <2>6, <2>8
<1>4. (w \o <<Head(ch)>>) \o Tail(ch) = w \o (<<Head(ch)>> \o Tail(ch))
  BY <1>1, ConcatAssociative, SMTT(20)
<1> QED BY <1>1, <1>2, <1>3, <1>4, Zenon

\* The first of what is under way comes before the rest.
LEMMA ArriveFollows ==
  ASSUME NEW seen \in Nat, NEW w \in Seq(Nat), NEW ch \in Seq(Nat), NEW most \in Nat, w # <<>>,
         Follows(seen, w \o ch, most)
  PROVE  /\ Head(w) \in Nat /\ Head(w) <= most /\ Tail(w) \in Seq(Nat)
         /\ Follows(Head(w), Tail(w) \o ch, most)
<1>1. PICK t : t = Tail(w)
  OBVIOUS
<1>2. /\ Head(w) \in Nat /\ Head(w) = w[1] /\ t \in Seq(Nat) /\ Len(t) = Len(w) - 1
      /\ \A i \in 1 .. Len(t) : t[i] = w[i + 1]
      /\ Len(w) \in Nat \ {0} /\ Len(ch) \in Nat
  BY <1>1, HeadTailProperties, EmptySeq
<1>3. PICK s : s = w \o ch
  OBVIOUS
<1>4. /\ s \in Seq(Nat) /\ Len(s) = Len(w) + Len(ch)
      /\ \A i \in 1 .. Len(w) + Len(ch) : s[i] = IF i <= Len(w) THEN w[i] ELSE ch[i - Len(w)]
  BY <1>3, ConcatProperties
<1>5. PICK r : r = t \o ch
  OBVIOUS
<1>6. /\ r \in Seq(Nat) /\ Len(r) = Len(t) + Len(ch)
      /\ \A i \in 1 .. Len(t) + Len(ch) : r[i] = IF i <= Len(t) THEN t[i] ELSE ch[i - Len(t)]
  BY <1>2, <1>5, ConcatProperties
<1>a. PICK n \in Nat, l \in Nat : n + 1 = Len(w) /\ n = Len(t) /\ l = Len(ch)
  <2>1. Len(t) \in Nat
    BY <1>2
  <2> QED BY <1>2, <2>1
<1>b. /\ Len(s) = n + l + 1 /\ Len(r) = n + l
      /\ \A i \in 1 .. n + l + 1 : s[i] = IF i <= n + 1 THEN w[i] ELSE ch[i - (n + 1)]
      /\ \A i \in 1 .. n + l : r[i] = IF i <= n THEN t[i] ELSE ch[i - n]
      /\ \A i \in 1 .. n : t[i] = w[i + 1]
  BY <1>2, <1>4, <1>6, <1>a
<1>7. Len(r) = Len(s) - 1 /\ s[1] = Head(w) /\ Len(s) \in Nat /\ Len(s) >= 1
  BY <1>2, <1>b
<1>8. ASSUME NEW i \in 1 .. Len(r) PROVE i + 1 \in 1 .. Len(s) /\ r[i] = s[i + 1]
  <2>1. i \in 1 .. n + l /\ i + 1 \in 1 .. n + l + 1
    BY <1>b
  <2>2. CASE i <= n
    <3>1. i \in 1 .. n /\ i + 1 <= n + 1
      BY <2>1, <2>2
    <3>2. r[i] = t[i] /\ s[i + 1] = w[i + 1] /\ t[i] = w[i + 1]
      BY <1>b, <2>1, <3>1
    <3> QED BY <1>b, <2>1, <3>2
  <2>3. CASE i > n
    <3>1. ~(i + 1 <= n + 1) /\ ~(i <= n) /\ i + 1 - (n + 1) = i - n
      BY <2>1, <2>3
    <3>2. r[i] = ch[i - n] /\ s[i + 1] = ch[i + 1 - (n + 1)]
      BY <1>b, <2>1, <3>1
    <3> QED BY <1>b, <2>1, <3>1, <3>2
  <2> QED BY <2>1, <2>2, <2>3
<1>9. /\ \A i, j \in 1 .. Len(s) : i < j => s[i] < s[j]
      /\ \A i \in 1 .. Len(s) : s[i] <= most
  BY <1>3 DEF Follows
<1>10. ASSUME NEW i \in 1 .. Len(r) PROVE s[1] < r[i] /\ r[i] <= most
  <2>1. i + 1 \in 1 .. Len(s) /\ r[i] = s[i + 1] /\ 1 \in 1 .. Len(s) /\ 1 < i + 1
    BY <1>7, <1>8
  <2> QED BY <1>9, <2>1
<1>11. ASSUME NEW i \in 1 .. Len(r), NEW j \in 1 .. Len(r), i < j PROVE r[i] < r[j]
  <2>1. /\ i + 1 \in 1 .. Len(s) /\ r[i] = s[i + 1] /\ j + 1 \in 1 .. Len(s) /\ r[j] = s[j + 1]
        /\ i + 1 < j + 1
    BY <1>8, <1>11, SMTT(30)
  <2> QED BY <1>9, <2>1
<1>12. Head(w) <= most
  BY <1>7, <1>9
<1> QED BY <1>1, <1>2, <1>5, <1>6, <1>7, <1>10, <1>11, <1>12 DEF Follows

LEMMA LogStart == LV!Init => LogInv
<1> SUFFICES ASSUME LV!Init PROVE LogInv
  OBVIOUS
<1>1. ui = [mounted |-> TRUE, ticking |-> FALSE, busy |-> {}, entries |-> <<>>, stream |-> "none", seen |-> 0]
  BY DEF LV!Init
<1>2. PICK n \in Nat : srv = [logged |-> n, handler |-> LV!Closed, wire |-> <<>>]
  BY DEF LV!Init
<1>3. LogRefs
  BY <1>1, <1>2 DEF LogRefs
<1>4. LogStream
  BY <1>1, <1>2, NothingFollows DEF LogStream, Waiting
<1>5. LogList
  <2>1. LV!Slots \ {c.id : c \in {}} = LV!Slots
    OBVIOUS
  <2>2. PICK c : calls = {} \union {c}
    BY <2>1 DEF LV!Init, LV!Sending
  <2>3. calls = {c}
    BY <2>2
  <2> QED BY <1>1, <2>3 DEF LogList
<1> QED BY <1>3, <1>4, <1>5 DEF LogInv

\* The list is answered, or fails, before there is a stream.
LEMMA LogOpens ==
  ASSUME LogInv, NEW c \in calls, NEW entries, LV!Opens(entries), calls' = calls \ {c}, srv' = srv
  PROVE  LogInv'
<1>1. ui' = [ui EXCEPT !.entries = entries, !.stream = "connecting"]
  BY DEF LV!Opens
<1>2. /\ ui' \in [mounted : {ui'.mounted}, ticking : {ui'.ticking}, busy : {ui'.busy},
                  entries : {ui'.entries}, stream : {ui'.stream}, seen : Nat]
      /\ ui'.seen = ui.seen
  BY <1>1 DEF LogInv, LogRefs
<1>3. ui.stream = "none" /\ calls' = {}
  BY DEF LogInv, LogList
<1>4. LogRefs'
  BY <1>2 DEF LogInv, LogRefs
<1>5. LogStream'
  BY <1>2, <1>3 DEF LogInv, LogStream, Waiting
<1> QED BY <1>3, <1>4, <1>5 DEF LogInv, LogList

\* The view's side changes but for the stream and what it has seen.
LEMMA LogKept ==
  ASSUME LogInv, srv' = srv, ui'.stream = ui.stream, ui'.seen = ui.seen,
         ui' \in [mounted : {ui'.mounted}, ticking : {ui'.ticking}, busy : {ui'.busy},
                  entries : {ui'.entries}, stream : {ui'.stream}, seen : Nat],
         calls' = {} \/ calls' = calls \/ \E c \in calls : \E d : calls' = (calls \ {c}) \union {d}
  PROVE  LogInv'
<1>1. LogRefs'
  BY DEF LogInv, LogRefs
<1>2. LogStream'
  BY DEF LogInv, LogStream, Waiting
<1>3. LogList'
  BY DEF LogInv, LogList
<1> QED BY <1>1, <1>2, <1>3 DEF LogInv

\* The stream is closed or broken on both sides.
LEMMA LogCut ==
  ASSUME LogInv, srv' = [srv EXCEPT !.handler = LV!Closed, !.wire = <<>>], calls' = calls,
         ui' \in [mounted : {ui'.mounted}, ticking : {ui'.ticking}, busy : {ui'.busy},
                  entries : {ui'.entries}, stream : {ui'.stream}, seen : Nat],
         ui'.seen = ui.seen, calls # {} => ui'.stream = "none"
  PROVE  LogInv'
<1>1. srv' = [logged |-> srv.logged, handler |-> LV!Closed, wire |-> <<>>] /\ srv.logged \in Nat
  BY DEF LogInv, LogRefs
<1>2. /\ srv'.handler = LV!Closed /\ srv'.wire = <<>> /\ srv'.logged = srv.logged
      /\ srv' \in [logged : Nat, handler : {srv'.handler}, wire : Seq(Nat)]
  <2>1. PICK w \in Seq(Nat) : w = <<>>
    BY EmptySeq
  <2>2. PICK h : h = LV!Closed
    OBVIOUS
  <2>3. srv' = [logged |-> srv.logged, handler |-> h, wire |-> w] /\ srv.logged \in Nat
    BY <1>1, <2>1, <2>2
  <2> QED BY <2>1, <2>2, <2>3
<1>3. LogRefs'
  BY <1>2 DEF LogInv, LogRefs
<1>4. LogStream'
  BY <1>2, NothingFollows DEF LogStream, Waiting
<1>5. LogList'
  BY DEF LogInv, LogList
<1> QED BY <1>3, <1>4, <1>5 DEF LogInv

\* The handler goes on.
LEMMA LogServed ==
  ASSUME LogInv, calls' = calls, ui' = ui, ui.stream = "open",
         NEW logged \in Nat, NEW at \in {"replayed", "subscribed"}, NEW chan \in Seq(Nat), NEW wire \in Seq(Nat),
         srv' = [logged |-> logged, handler |-> [at |-> at, chan |-> chan], wire |-> wire],
         Follows(ui.seen, wire \o chan, logged), srv.logged <= logged
  PROVE  LogInv'
<1> DEFINE h == [at |-> at, chan |-> chan]
<1>1. h \in [at : {"replayed", "subscribed"}, chan : Seq(Nat)] /\ h.chan = chan /\ h # LV!Closed
  BY DEF LV!Closed
<1> HIDE DEF h
<1>2. srv'.handler = h /\ srv'.wire = wire /\ srv'.logged = logged
      /\ srv' \in [logged : Nat, handler : {srv'.handler}, wire : Seq(Nat)]
  BY DEF h
<1>3. LogRefs'
  <2>1. ui.seen \in Nat /\ srv.logged \in Nat /\ ui.seen <= srv.logged
    BY DEF LogInv, LogRefs
  <2>2. ui.seen <= logged
    BY <2>1
  <2> QED BY <1>1, <1>2, <2>2 DEF LogInv, LogRefs
<1>4. LogStream'
  BY <1>1, <1>2 DEF LogStream, Waiting
<1>5. LogList'
  BY DEF LogInv, LogList
<1> QED BY <1>3, <1>4, <1>5 DEF LogInv

LEMMA LogKeeps == ASSUME LogInv, [LV!Next]_(LV!vars) PROVE LogInv'
<1>0. /\ ui \in [mounted : {ui.mounted}, ticking : {ui.ticking}, busy : {ui.busy}, entries : {ui.entries},
                 stream : {ui.stream}, seen : Nat]
      /\ srv \in [logged : Nat, handler : {srv.handler}, wire : Seq(Nat)]
      /\ srv.handler = LV!Closed \/ srv.handler \in [at : {"replayed", "subscribed"}, chan : Seq(Nat)]
      /\ ui.seen \in Nat /\ srv.logged \in Nat /\ ui.seen <= srv.logged
  BY DEF LogInv, LogRefs
<1>a. ui.stream # "open" => srv.handler = LV!Closed /\ srv.wire = <<>>
  BY DEF LogInv, LogStream
<1>b. calls # {} => ui.stream = "none"
  BY DEF LogInv, LogList
<1>c. ASSUME srv.handler.at \in {"replayed", "subscribed"}
      PROVE  /\ srv.handler \in [at : {"replayed", "subscribed"}, chan : Seq(Nat)] /\ srv.handler # LV!Closed
             /\ ui.stream = "open" /\ srv.handler.chan \in Seq(Nat)
             /\ Follows(ui.seen, srv.wire \o srv.handler.chan, srv.logged)
  <2>1. LV!Closed.at = "closed"
    BY DEF LV!Closed
  <2> QED BY <1>0, <1>a, <1>c, <2>1 DEF LogInv, LogStream, Waiting
<1>1. CASE LV!ClearView
  <2>1. ui' = [ui EXCEPT !.entries = <<>>] /\ srv' = srv /\ calls' = calls
    BY <1>1 DEF LV!ClearView
  <2> QED BY <1>0, <2>1, LogKept
<1>2. CASE LV!Leave
  <2>1. PICK stream : /\ ui' = [ui EXCEPT !.mounted = FALSE, !.stream = stream]
                      /\ ui.stream = "none" => stream = "none"
    BY <1>2 DEF LV!Leave
  <2>2. /\ ui' \in [mounted : {ui'.mounted}, ticking : {ui'.ticking}, busy : {ui'.busy},
                    entries : {ui'.entries}, stream : {ui'.stream}, seen : Nat]
        /\ ui'.stream = stream /\ ui'.seen = ui.seen
    BY <1>0, <2>1
  <2> QED BY <1>2, <1>b, <2>1, <2>2, LogCut DEF LV!Leave
<1>3. CASE LV!Break
  <2>1. ui' = [ui EXCEPT !.stream = "connecting"] /\ ui.stream = "open"
    BY <1>3 DEF LV!Break
  <2>2. ui' \in [mounted : {ui'.mounted}, ticking : {ui'.ticking}, busy : {ui'.busy},
                 entries : {ui'.entries}, stream : {ui'.stream}, seen : Nat]
        /\ ui'.seen = ui.seen
    BY <1>0, <2>1
  <2> QED BY <1>3, <1>b, <2>1, <2>2, LogCut DEF LV!Break
<1>4. CASE LV!Refuse
  <2>1. ui' = [ui EXCEPT !.stream = "closed"] /\ ui.stream = "connecting" /\ srv' = srv /\ calls' = calls
    BY <1>4 DEF LV!Refuse
  <2>2. ui' \in [mounted : {ui'.mounted}, ticking : {ui'.ticking}, busy : {ui'.busy},
                 entries : {ui'.entries}, stream : {ui'.stream}, seen : Nat]
        /\ ui'.seen = ui.seen
    BY <1>0, <2>1
  <2> QED BY <1>b, <2>1, <2>2, <1>a DEF LogInv, LogRefs, LogStream, LogList, Waiting
<1>5. ASSUME NEW c \in calls, LV!Fails(c) PROVE LogInv'
  BY <1>5, LogOpens DEF LV!Fails
<1>6. CASE LV!Connect
  <2> DEFINE replayed == LV!Recent(Replay)
  <2>1. /\ srv' = [srv EXCEPT !.handler = [at |-> "replayed", chan |-> <<>>], !.wire = replayed]
        /\ ui' = [ui EXCEPT !.stream = "open", !.seen = 0]
        /\ ui.stream = "connecting" /\ calls' = calls
    BY <1>6 DEF LV!Connect
  <2>2. replayed \in Seq(Nat) /\ Follows(0, replayed \o <<>>, srv.logged)
    <3>1. PICK n \in Nat : n = IF Replay < RingCap THEN Replay ELSE RingCap
      BY RingFits
    <3>2. replayed = LV!Latest([e \in 1 .. srv.logged |-> e], n)
      BY <3>1 DEF LV!Recent
    <3> QED BY <1>0, <3>2, LatestFollow
  <2> HIDE DEF replayed
  <2> DEFINE h == [at |-> "replayed", chan |-> <<>>]
  <2>3. h \in [at : {"replayed", "subscribed"}, chan : Seq(Nat)] /\ h.chan = <<>> /\ h # LV!Closed
    BY DEF LV!Closed
  <2> HIDE DEF h
  <2>4. /\ srv' \in [logged : Nat, handler : {srv'.handler}, wire : Seq(Nat)]
        /\ srv'.handler = h /\ srv'.wire = replayed /\ srv'.logged = srv.logged
    BY <1>0, <2>1, <2>2 DEF h
  <2>5. /\ ui' \in [mounted : {ui'.mounted}, ticking : {ui'.ticking}, busy : {ui'.busy},
                    entries : {ui'.entries}, stream : {ui'.stream}, seen : Nat]
        /\ ui'.seen = 0 /\ ui'.stream = "open"
    BY <1>0, <2>1
  <2>6. LogRefs'
    BY <1>0, <2>3, <2>4, <2>5 DEF LogRefs
  <2>7. LogStream'
    BY <2>2, <2>3, <2>4, <2>5 DEF LogStream, Waiting
  <2>8. LogList'
    BY <1>b, <2>1 DEF LogList
  <2> QED BY <2>6, <2>7, <2>8 DEF LogInv
<1>7. CASE LV!Subscribe
  <2>1. /\ srv' = [srv EXCEPT !.handler.at = "subscribed"] /\ ui' = ui /\ calls' = calls
        /\ srv.handler.at = "replayed"
    BY <1>7 DEF LV!Subscribe
  <2>2. srv' = [logged |-> srv.logged, handler |-> [at |-> "subscribed", chan |-> srv.handler.chan],
                wire |-> srv.wire]
    BY <1>0, <1>c, <2>1
  <2>3. srv.logged <= srv.logged
    BY <1>0
  <2> QED BY <1>0, <1>c, <2>1, <2>2, <2>3, LogServed
<1>8. CASE LV!Emit
  <2>1. ui' = ui /\ calls' = calls
    BY <1>8 DEF LV!Emit
  <2> DEFINE told == srv.handler.at = "subscribed" /\ Len(srv.handler.chan) < Backlog
  <2>a. PICK h : h = LV!Offer(srv.handler, srv.logged + 1)
    OBVIOUS
  <2>b. srv' = [srv EXCEPT !.logged = srv.logged + 1, !.handler = h]
    BY <1>0, <1>8, <2>a DEF LV!Emit
  <2>c. srv' = [logged |-> srv.logged + 1, handler |-> h, wire |-> srv.wire]
    BY <1>0, <2>b
  <2>2. CASE told
    <3>1. srv.handler \in [at : {"subscribed"}, chan : Seq(Nat)]
      BY <1>c, <2>2
    <3>2. h = [at |-> "subscribed", chan |-> Append(srv.handler.chan, srv.logged + 1)]
      BY <2>a, <2>2, <3>1 DEF LV!Offer
    <3>3. Append(srv.handler.chan, srv.logged + 1) \in Seq(Nat) /\ srv.logged + 1 \in Nat
      BY <1>0, <1>c, <2>2, AppendProperties
    <3>4. Follows(ui.seen, srv.wire \o Append(srv.handler.chan, srv.logged + 1), srv.logged + 1)
      BY <1>0, <1>c, <2>2, LoggedFollows
    <3>5. srv.logged <= srv.logged + 1 /\ ui.stream = "open"
      BY <1>0, <1>c, <2>2
    <3> QED BY <1>0, <2>1, <2>c, <3>2, <3>3, <3>4, <3>5, LogServed
  <2>3. CASE ~told
    <3>1. h = srv.handler
      BY <2>a, <2>3 DEF LV!Offer
    <3>2. /\ srv' \in [logged : Nat, handler : {srv'.handler}, wire : Seq(Nat)]
          /\ srv'.handler = srv.handler /\ srv'.wire = srv.wire /\ srv'.logged = srv.logged + 1
      BY <1>0, <2>c, <3>1
    <3>3. LogRefs'
      BY <1>0, <2>1, <3>2 DEF LogRefs
    <3>4. LogStream'
      <4>1. Follows(ui.seen, srv.wire \o Waiting(srv.handler), srv.logged + 1)
        BY <1>0, LostFollows DEF LogInv, LogStream
      <4> QED BY <1>a, <2>1, <3>2, <4>1 DEF LogStream
    <3> QED BY <2>1, <3>3, <3>4 DEF LogInv, LogList
  <2> QED BY <2>2, <2>3
<1>9. CASE LV!Forward
  <2>1. /\ srv' = [srv EXCEPT !.handler.chan = Tail(@), !.wire = Append(@, Head(srv.handler.chan))]
        /\ ui' = ui /\ calls' = calls /\ srv.handler.at = "subscribed" /\ srv.handler.chan # <<>>
    BY <1>9 DEF LV!Forward
  <2>2. srv' = [logged |-> srv.logged,
                handler |-> [at |-> "subscribed", chan |-> Tail(srv.handler.chan)],
                wire |-> Append(srv.wire, Head(srv.handler.chan))]
    BY <1>0, <1>c, <2>1
  <2>3. /\ Append(srv.wire, Head(srv.handler.chan)) \in Seq(Nat) /\ Tail(srv.handler.chan) \in Seq(Nat)
        /\ Append(srv.wire, Head(srv.handler.chan)) \o Tail(srv.handler.chan) = srv.wire \o srv.handler.chan
    BY <1>0, <1>c, <2>1, ForwardFollows
  <2>4. srv.logged <= srv.logged
    BY <1>0
  <2> QED BY <1>0, <1>c, <2>1, <2>2, <2>3, <2>4, LogServed
<1>10. CASE LV!Arrive
  <2>1. /\ ui' = [ui EXCEPT !.entries = LV!Push(@, Head(srv.wire)), !.seen = Head(srv.wire)]
        /\ srv' = [srv EXCEPT !.wire = Tail(@)] /\ calls' = calls
        /\ ui.stream = "open" /\ srv.wire # <<>>
    BY <1>10 DEF LV!Arrive
  <2>2. Waiting(srv.handler) \in Seq(Nat) /\ ui.seen \in Nat /\ srv.wire \in Seq(Nat) /\ srv.logged \in Nat
    BY <1>0 DEF Waiting
  <2>3. /\ Head(srv.wire) \in Nat /\ Head(srv.wire) <= srv.logged /\ Tail(srv.wire) \in Seq(Nat)
        /\ Follows(Head(srv.wire), Tail(srv.wire) \o Waiting(srv.handler), srv.logged)
    BY <2>1, <2>2, ArriveFollows DEF LogInv, LogStream
  <2>4. /\ srv' \in [logged : Nat, handler : {srv'.handler}, wire : Seq(Nat)]
        /\ srv'.handler = srv.handler /\ srv'.wire = Tail(srv.wire) /\ srv'.logged = srv.logged
    BY <1>0, <2>1, <2>3
  <2>5. /\ ui' \in [mounted : {ui'.mounted}, ticking : {ui'.ticking}, busy : {ui'.busy},
                    entries : {ui'.entries}, stream : {ui'.stream}, seen : Nat]
        /\ ui'.seen = Head(srv.wire) /\ ui'.stream = "open"
    BY <1>0, <2>1, <2>3
  <2>6. LogRefs'
    BY <1>0, <2>3, <2>4, <2>5 DEF LogRefs
  <2>7. LogStream'
    BY <2>3, <2>4, <2>5 DEF LogStream
  <2>8. LogList'
    BY <1>b, <2>1 DEF LogList
  <2> QED BY <2>6, <2>7, <2>8 DEF LogInv
<1>11. ASSUME NEW c \in calls, LV!Serve(c) PROVE LogInv'
  <2>1. PICK a : calls' = LV!Replied(c, a) /\ srv' = srv /\ ui' = ui
    BY <1>11 DEF LV!Serve
  <2>2. PICK d : d = [id |-> c.id, op |-> c.op, arg |-> c.arg, state |-> "answered", answer |-> a]
    OBVIOUS
  <2>3. calls' = (calls \ {c}) \union (IF c.state = "given up" THEN {} ELSE {d})
    BY <2>1, <2>2 DEF LV!Replied
  <2>4. calls = {c}
    BY DEF LogInv, LogList
  <2>5. calls' = {} \/ calls' = (calls \ {c}) \union {d}
    BY <2>3, <2>4
  <2> QED BY <1>0, <2>1, <2>5, LogKept
<1>12. ASSUME NEW c \in calls, LV!ListAnswered(c) PROVE LogInv'
  BY <1>12, LogOpens DEF LV!ListAnswered
<1>13. CASE UNCHANGED LV!vars
  BY <1>0, <1>13, LogKept DEF LV!vars
<1> QED
  BY <1>1, <1>2, <1>3, <1>4, <1>5, <1>6, <1>7, <1>8, <1>9, <1>10, <1>11, <1>12, <1>13
  DEF LV!Next, LV!Operator, LV!Faults, LV!Stream, LV!Step

LEMMA LogShown == ASSUME LogInv PROVE LV!InOrder
<1>1. PICK s : s = srv.wire \o Waiting(srv.handler)
  OBVIOUS
<1>2. Follows(ui.seen, s, srv.logged)
  BY <1>1 DEF LogInv, LogStream
<1>3. DOMAIN s = 1 .. Len(s)
  BY <1>2 DEF Follows
<1> QED BY <1>3, <1>1, <1>2 DEF LV!InOrder, Waiting, Follows

-----------------------------------------------------------------------------
(* The dashboard: which view is open does not change, and the invariant of  *)
(* the open view is all that matters.                                       *)

NumberInv == srv.kind \in FO!Kinds /\ srv.value \in Nat

LEMMA NumbersStart == FO!Init => NumberInv
<1> SUFFICES ASSUME FO!Init PROVE NumberInv
  OBVIOUS
<1>1. PICK k \in FO!Kinds, e \in UNION {FO!Edges[j] : j \in FO!Kinds} :
        srv = [kind |-> k, value |-> e - FO!Bound]
  BY DEF FO!Init
<1>2. e \in Nat /\ e >= 3
  BY DEF FO!Edges, FO!Kinds
<1>3. e - FO!Bound \in Nat
  BY <1>2 DEF FO!Bound
<1> QED BY <1>1, <1>3 DEF NumberInv

LEMMA NumbersKeep == ASSUME NumberInv, [FO!Next]_(FO!vars) PROVE NumberInv'
<1>1. CASE FO!Grow
  <2>1. srv.value + 1 \in Nat /\ srv.kind \in FO!Kinds
    BY DEF NumberInv
  <2>2. srv'.kind = srv.kind /\ srv'.value = srv.value + 1
    BY <1>1, <2>1 DEF FO!Grow
  <2> QED BY <2>1, <2>2 DEF NumberInv
<1>2. CASE UNCHANGED FO!vars
  BY <1>2 DEF FO!vars, NumberInv
<1> QED BY <1>1, <1>2 DEF FO!Next

LEMMA NumbersTrue == ASSUME NumberInv PROVE FO!ReadsTrue
<1>1. ReadsBack(FO!Display(srv.kind, srv.value), srv.value, FO!Display(srv.kind, srv.value + 1))
  BY DisplaysRead DEF NumberInv
<1> QED BY <1>1 DEF ReadsBack, FO!ReadsTrue

DashInv ==
  /\ view = "Models" => PolicyInv
  /\ view = "Experimental" => SettingsInv
  /\ view = "Formats" => NumberInv
  /\ view = "Bans" => BanInv
  /\ view = "Stats" => StatsInv
  /\ view = "LoginTake" => TakeInv
  /\ view = "Logs" => LogInv

LEMMA DashStarts == MCInit => DashInv
  BY PolicyStarts, SettingsStart, NumbersStart, BansStart, StatsStart, TakeStart, LogStart
  DEF MCInit, DashInv

LEMMA DashKeeps == ASSUME DashInv, [MCNext]_mcvars PROVE DashInv'
<1>1. view' = view
  BY DEF MCNext, mcvars, On
<1>2. ASSUME view = "Models" PROVE PolicyInv'
  <2>1. [MV!Next]_(MV!vars)
    BY <1>2 DEF MCNext, mcvars, On, MV!vars
  <2> QED BY <1>2, <2>1, PolicyKeeps DEF DashInv
<1>3. ASSUME view = "Experimental" PROVE SettingsInv'
  <2>1. [EV!Next]_(EV!vars)
    BY <1>3 DEF MCNext, mcvars, On, EV!vars
  <2> QED BY <1>3, <2>1, SettingsKeep DEF DashInv
<1>4. ASSUME view = "Formats" PROVE NumberInv'
  <2>1. [FO!Next]_(FO!vars)
    BY <1>4 DEF MCNext, mcvars, On, FO!vars
  <2> QED BY <1>4, <2>1, NumbersKeep DEF DashInv
<1>5. ASSUME view = "Bans" PROVE BanInv'
  <2>1. [BV!Next]_(BV!vars)
    BY <1>5 DEF MCNext, mcvars, On, BV!vars
  <2> QED BY <1>5, <2>1, BansKeep DEF DashInv
<1>6. ASSUME view = "Stats" PROVE StatsInv'
  <2>1. [SV!Next]_(SV!vars)
    BY <1>6 DEF MCNext, mcvars, On, SV!vars
  <2> QED BY <1>6, <2>1, StatsKeeps DEF DashInv
<1>7. ASSUME view = "LoginTake" PROVE TakeInv'
  <2>1. [LT!Next]_(LT!vars)
    BY <1>7 DEF MCNext, mcvars, On, LT!vars
  <2> QED BY <1>7, <2>1, TakeKeeps, CapAssumption DEF DashInv
<1>8. ASSUME view = "Logs" PROVE LogInv'
  <2>1. [LV!Next]_(LV!vars)
    BY <1>8 DEF MCNext, mcvars, On, LV!vars
  <2> QED BY <1>8, <2>1, LogKeeps DEF DashInv
<1> QED BY <1>1, <1>2, <1>3, <1>4, <1>5, <1>6, <1>7, <1>8 DEF DashInv

LEMMA DashHolds == MCSpec => []DashInv
<1>1. DashInv /\ [MCNext]_mcvars => DashInv'
  BY DashKeeps
<1> QED BY DashStarts, <1>1, PTL DEF MCSpec

(* A setting on the screen is the server's, for an operator who waits for   *)
(* each answer and hears of no failure, whatever the models, the providers  *)
(* and the number of calls in flight (Models.vue, Experimental.vue).        *)
THEOREM ShowsWhatIsSet == MCSpec => []WhatYouSee
<1>1. PolicyInv => MV!WhatYouSee
  BY DEF PolicyInv, PolicyHolds, PolicyShown, PolicyOnTheWay, MV!WhatYouSee
<1>2. DashInv => WhatYouSee
  BY <1>1, SettingsTrue DEF DashInv, WhatYouSee
<1> QED BY <1>2, DashHolds, PTL

(* What the run shows around the edges of the bands follows from            *)
(* DisplaysRead (fmtBytes, fmtTokens, fmtUSD, fmtMs, formatUptime,          *)
(* countdown, fmtDuration).                                                 *)
THEOREM NumbersReadTrue == MCSpec => []ReadsTrue
<1>1. DashInv => ReadsTrue
  BY NumbersTrue DEF DashInv, ReadsTrue
<1> QED BY <1>1, DashHolds, PTL

(* No list buries what is worst or cuts what is newest, however many        *)
(* accounts, hours, logins and entries there are and whichever answers are  *)
(* late or lost: the health table (Bans.vue), the bars (Stats.vue), the     *)
(* history (LoginTake.vue), the order of the log (Logs.vue, logx).          *)
THEOREM BuriesNothing == MCSpec => []NothingBuried
<1>1. Ranges \subseteq Nat
  BY RangesAssumption
<1>2. DashInv => NothingBuried
  BY <1>1, BansShown, StatsShown, TakeShown, LogShown DEF DashInv, NothingBuried
<1> QED BY <1>2, DashHolds, PTL

-----------------------------------------------------------------------------
(* The calls in flight, which every view keeps in the same way: a call has  *)
(* a slot of its own as long as there is room for it.                       *)

CallRecord(c) ==
  c \in [id : {c.id}, op : {c.op}, arg : {c.arg}, state : {"sent", "answered", "given up"},
         answer : {c.answer}]

Fit(cs, n) ==
  /\ IsFiniteSet(cs) /\ Cardinality(cs) <= n
  /\ \A c \in cs : CallRecord(c) /\ c.id \in 1 .. n
  /\ \A c, d \in cs : c.id = d.id => c = d

\* Sending of a view that has n slots.
Adding(n, cs, op, arg) ==
  LET free == (1 .. n) \ {c.id : c \in cs}
  IN cs \union {[id |-> CHOOSE i \in free : TRUE, op |-> op, arg |-> arg,
                 state |-> "sent", answer |-> Nothing]}

LEMMA NoneFits == ASSUME NEW n \in Nat PROVE Fit({}, n) /\ Cardinality({}) = 0
  BY FS_EmptySet DEF Fit

LEMMA FewerFit ==
  ASSUME NEW n \in Nat, NEW cs, Fit(cs, n)
  PROVE  /\ \A ds \in SUBSET cs : Fit(ds, n)
         /\ \A c \in cs : Fit(cs \ {c}, n) /\ Cardinality(cs \ {c}) + 1 = Cardinality(cs)
<1>1. Cardinality(cs) \in Nat
  BY FS_CardinalityType DEF Fit
<1>2. ASSUME NEW ds \in SUBSET cs PROVE Fit(ds, n)
  <2>1. IsFiniteSet(ds) /\ Cardinality(ds) <= Cardinality(cs)
    BY FS_Subset DEF Fit
  <2>2. Cardinality(ds) \in Nat
    BY <2>1, FS_CardinalityType
  <2> QED BY <1>1, <2>1, <2>2 DEF Fit
<1>3. ASSUME NEW c \in cs PROVE Cardinality(cs \ {c}) + 1 = Cardinality(cs)
  <2>1. IsFiniteSet(cs)
    BY DEF Fit
  <2>2. Cardinality(cs \ {c}) = Cardinality(cs) - 1
    BY <2>1, FS_RemoveElement
  <2> QED BY <1>1, <2>2
<1> QED BY <1>2, <1>3

LEMMA OneMoreFits ==
  ASSUME NEW n \in Nat, NEW cs, Fit(cs, n), NEW r, CallRecord(r), r.id \in 1 .. n,
         \A c \in cs : c.id # r.id, Cardinality(cs) + 1 <= n
  PROVE  Fit(cs \union {r}, n) /\ Cardinality(cs \union {r}) <= Cardinality(cs) + 1
<1>1. Cardinality(cs) \in Nat /\ IsFiniteSet(cs)
  BY FS_CardinalityType DEF Fit
<1>2. IsFiniteSet(cs \union {r}) /\ Cardinality(cs \union {r}) <= Cardinality(cs) + 1
  <2>1. /\ IsFiniteSet(cs \union {r})
        /\ Cardinality(cs \union {r}) = IF r \in cs THEN Cardinality(cs) ELSE Cardinality(cs) + 1
    BY <1>1, FS_AddElement, Zenon
  <2> QED BY <1>1, <2>1
<1>3. Cardinality(cs \union {r}) \in Nat
  BY <1>2, FS_CardinalityType
<1> QED BY <1>1, <1>2, <1>3 DEF Fit

\* While there is room there is a free slot, for there are no more ids than calls.
LEMMA SentFits ==
  ASSUME NEW n \in Nat, NEW cs, Fit(cs, n), Cardinality(cs) + 1 <= n, NEW op, NEW arg
  PROVE  LET ds == Adding(n, cs, op, arg)
         IN /\ Fit(ds, n) /\ Cardinality(ds) <= Cardinality(cs) + 1
            /\ \A d \in ds : d \in cs \/ (d.op = op /\ d.arg = arg /\ d.state = "sent" /\ d.answer = Nothing)
<1> DEFINE ids == {c.id : c \in cs}
           free == (1 .. n) \ ids
<1>1. free # {}
  <2>1. [c \in cs |-> c.id] \in Surjection(cs, ids)
    BY DEF Surjection
  <2>2. IsFiniteSet(ids) /\ Cardinality(ids) <= Cardinality(cs)
    BY <2>1, FS_Surjection DEF Fit
  <2>3. IsFiniteSet(1 .. n) /\ Cardinality(1 .. n) = n
    BY FS_Interval
  <2>4. Cardinality(cs) \in Nat /\ Cardinality(ids) \in Nat
    BY <2>2, FS_CardinalityType DEF Fit
  <2>5. ASSUME free = {} PROVE FALSE
    <3>1. (1 .. n) \subseteq ids
      BY <2>5
    <3> HIDE DEF ids
    <3>2. Cardinality(1 .. n) <= Cardinality(ids)
      BY <2>2, <3>1, FS_Subset
    <3> QED BY <2>2, <2>3, <2>4, <3>2
  <2> QED BY <2>5
<1>2. PICK i \in free : i = CHOOSE j \in free : TRUE
  BY <1>1
<1> DEFINE r == [id |-> i, op |-> op, arg |-> arg, state |-> "sent", answer |-> Nothing]
<1>3. Adding(n, cs, op, arg) = cs \union {r}
  BY <1>2 DEF Adding
<1>4. /\ CallRecord(r) /\ r.id \in 1 .. n /\ \A c \in cs : c.id # r.id
      /\ r.op = op /\ r.arg = arg /\ r.state = "sent" /\ r.answer = Nothing
  BY <1>2 DEF CallRecord
<1> HIDE DEF r
<1> QED BY <1>3, <1>4, OneMoreFits

\* A call that changes its state keeps its slot.
LEMMA ChangedFits ==
  ASSUME NEW n \in Nat, NEW cs, Fit(cs, n), NEW c \in cs, NEW d, CallRecord(d), d.id = c.id
  PROVE  Fit((cs \ {c}) \union {d}, n)
<1>1. Fit(cs \ {c}, n) /\ Cardinality(cs \ {c}) + 1 = Cardinality(cs) /\ Cardinality(cs) <= n
  BY FewerFit DEF Fit
<1>2. d.id \in 1 .. n /\ \A e \in cs \ {c} : e.id # d.id
  BY DEF Fit
<1> QED BY <1>1, <1>2, OneMoreFits

LEMMA RepliedFits ==
  ASSUME NEW n \in Nat, Fit(calls, n), NEW c \in calls, NEW a
  PROVE  /\ Fit(Replied(c, a), n)
         /\ \A d \in Replied(c, a) :
              d \in calls \/ (d.op = c.op /\ d.arg = c.arg /\ d.state = "answered" /\ d.answer = a)
<1> DEFINE r == [id |-> c.id, op |-> c.op, arg |-> c.arg, state |-> "answered", answer |-> a]
<1>1. /\ CallRecord(r) /\ r.id = c.id /\ r.op = c.op /\ r.arg = c.arg
      /\ r.state = "answered" /\ r.answer = a
  BY DEF CallRecord
<1>2. Replied(c, a) = (calls \ {c}) \union (IF c.state = "given up" THEN {} ELSE {r})
  BY DEF Replied
<1> HIDE DEF r
<1>3. Fit(calls \ {c}, n) /\ Fit((calls \ {c}) \union {r}, n)
  BY <1>1, FewerFit, ChangedFits
<1>4. Replied(c, a) = calls \ {c} \/ Replied(c, a) = (calls \ {c}) \union {r}
  BY <1>2
<1> QED BY <1>1, <1>3, <1>4

LEMMA GivenUpFits ==
  ASSUME NEW n \in Nat, Fit(calls, n), NEW c \in calls
  PROVE  /\ Fit(GivenUp(c), n)
         /\ \A d \in GivenUp(c) : d \in calls \/ (d.op = c.op /\ d.arg = c.arg /\ d.state = "given up")
<1> DEFINE r == [c EXCEPT !.state = "given up"]
<1>1. CallRecord(r) /\ r.id = c.id /\ r.op = c.op /\ r.arg = c.arg /\ r.state = "given up"
  BY DEF CallRecord, Fit
<1>2. GivenUp(c) = (calls \ {c}) \union (IF c.state = "sent" /\ c.op \notin Reads THEN {r} ELSE {})
  BY DEF GivenUp
<1> HIDE DEF r
<1>3. Fit(calls \ {c}, n) /\ Fit((calls \ {c}) \union {r}, n)
  BY <1>1, FewerFit, ChangedFits
<1>4. GivenUp(c) = calls \ {c} \/ GivenUp(c) = (calls \ {c}) \union {r}
  BY <1>2
<1> QED BY <1>1, <1>3, <1>4

\* A call that is over makes room for another.
LEMMA ReplacedFits ==
  ASSUME NEW n \in Nat, Fit(calls, n), NEW c \in calls, NEW op, NEW arg
  PROVE  /\ Fit(Adding(n, calls \ {c}, op, arg), n)
         /\ \A d \in Adding(n, calls \ {c}, op, arg) :
              d \in calls \/ (d.op = op /\ d.arg = arg /\ d.state = "sent" /\ d.answer = Nothing)
<1>1. PICK cs : cs = calls \ {c}
  OBVIOUS
<1>2. Fit(cs, n) /\ Cardinality(cs) + 1 <= n
  BY <1>1, FewerFit DEF Fit
<1>3. /\ Fit(Adding(n, cs, op, arg), n)
      /\ \A d \in Adding(n, cs, op, arg) :
           d \in cs \/ (d.op = op /\ d.arg = arg /\ d.state = "sent" /\ d.answer = Nothing)
  BY <1>2, SentFits
<1> QED BY <1>1, <1>3

\* CallsOK of a view that has n slots.
CallsAre(n) ==
  /\ Cardinality(calls) <= n
  /\ \A c, d \in calls : c.id = d.id => c = d
  /\ \A c \in calls : c.state \in {"sent", "answered", "given up"}

LEMMA FittingCalls == ASSUME NEW n, Fit(calls, n) PROVE CallsAre(n)
  BY DEF Fit, CallsAre, CallRecord

\* What a view shows stays among the refs it may have, or the view is gone.
LEMMA ShownStays ==
  ASSUME NEW refs, NEW u, Shows(u), ui.mounted => ui \in refs, ui.mounted /\ ui \in refs => u \in refs
  PROVE  ui'.mounted => ui' \in refs
  BY DEF Shows

-----------------------------------------------------------------------------
(* Accounts.vue: the tables of the server, of an answer and of the view are *)
(* tables of accounts, and the calls say what the server can make of them.  *)

AccountsOps == {"load", "renew", "rate", "tier", "status", "remove", "add"}
AccountsCall(c) ==
  /\ c.op \in AccountsOps
  /\ c.op = "load" /\ c.state = "answered" => c.answer \in AV!Tables
  /\ c.op \in {"tier", "status", "remove", "add"} => c.arg[1] \in Accounts
  /\ c.op = "tier" => c.arg[2] \in Tiers
  /\ c.op = "status" => c.arg[2] \in AV!Statuses

AccountsRefs ==
  [mounted : {TRUE}, ticking : BOOLEAN, hidden : BOOLEAN, busy : SUBSET {"loading"}, rows : AV!Tables]

AccountsTypes ==
  /\ Fit(calls, MaxCalls) /\ \A c \in calls : AccountsCall(c)
  /\ srv \in AV!Tables
  /\ ui.mounted => ui \in AccountsRefs

LEMMA AccountsShares ==
  /\ \A cs, op, arg : AV!Sending(cs, op, arg) = Adding(MaxCalls, cs, op, arg)
  /\ \A c, a : AV!Replied(c, a) = Replied(c, a)
  /\ \A c : AV!GivenUp(c) = GivenUp(c)
  /\ \A k : AV!Room(k) <=> Cardinality(calls) + k <= MaxCalls
  /\ \A u : AV!Shows(u) <=> Shows(u)
  /\ AV!CallsOK <=> CallsAre(MaxCalls)
<1>1. ASSUME NEW S PROVE AV!Cardinality(S) = Cardinality(S)
  BY Zenon DEF AV!Cardinality, Cardinality
<1> QED
  BY <1>1 DEF AV!Sending, Adding, AV!Slots, AV!Replied, Replied, AV!GivenUp, GivenUp, AV!Reads, Reads,
    AV!Room, AV!CallsOK, CallsAre, AV!Shows, Shows

LEMMA AccountsStart == AV!Init => AccountsTypes
<1> SUFFICES ASSUME AV!Init PROVE AccountsTypes
  OBVIOUS
<1>1. <<>> \in AV!Tables
  <2>1. <<>> \in [{} -> AV!Row]
    OBVIOUS
  <2> QED BY <2>1 DEF AV!Tables
<1>2. calls = Adding(MaxCalls, {}, "load", AV!NoArg)
  BY AccountsShares DEF AV!Init
<1>3. MaxCalls \in Nat /\ 0 + 1 <= MaxCalls
  BY MaxCallsAssumption
<1>4. Fit(calls, MaxCalls) /\ \A c \in calls : c.op = "load" /\ c.state = "sent"
  BY <1>2, <1>3, NoneFits, SentFits
<1> QED BY <1>1, <1>4 DEF AV!Init, AccountsTypes, AccountsCall, AccountsOps, AccountsRefs

\* What the server makes of its table is a table.
LEMMA AccountsServed ==
  ASSUME NEW t \in AV!Tables, srv = t, NEW c, AccountsCall(c), NEW s \in AV!Served(c)
  PROVE  s \in AV!Tables
<1>1. \A S \in SUBSET Accounts : [S -> AV!Row] \subseteq AV!Tables
  BY DEF AV!Tables
<1>2. PICK S \in SUBSET Accounts : srv \in [S -> AV!Row]
  BY DEF AV!Tables
<1>3. ASSUME NEW a \in Accounts, NEW r \in AV!Row PROVE AV!With(a, r) \in AV!Tables
  <2>1. AV!With(a, r) \in [S \union {a} -> AV!Row]
    BY <1>2 DEF AV!With
  <2> QED BY <1>1, <2>1
<1>4. CASE c.op \in AV!Reads
  BY <1>4 DEF AV!Served, AV!Reads
<1>5. CASE c.op = "add"
  <2>1. s = srv \/ \E u \in Tiers : s = AV!With(c.arg[1], [status |-> "active", tier |-> u])
    BY <1>5 DEF AV!Served, AV!Reads
  <2>2. \A u \in Tiers : [status |-> "active", tier |-> u] \in AV!Row
    BY DEF AV!Row, AV!Statuses
  <2> QED BY <1>3, <1>5, <2>1, <2>2 DEF AccountsCall
<1>6. CASE c.op = "remove"
  <2>1. s = AV!Without(c.arg[1])
    BY <1>6 DEF AV!Served, AV!Reads
  <2>2. s \in [S \ {c.arg[1]} -> AV!Row]
    BY <1>2, <2>1 DEF AV!Without
  <2> QED BY <1>1, <2>2
<1>7. CASE c.op = "tier"
  <2>1. s = IF c.arg[1] \in DOMAIN srv THEN AV!With(c.arg[1], [srv[c.arg[1]] EXCEPT !.tier = c.arg[2]]) ELSE srv
    BY <1>7 DEF AV!Served, AV!Reads
  <2>2. c.arg[1] \in S => [srv[c.arg[1]] EXCEPT !.tier = c.arg[2]] \in AV!Row
    BY <1>2, <1>7 DEF AccountsCall, AV!Row
  <2> QED BY <1>2, <1>3, <1>7, <2>1, <2>2 DEF AccountsCall
<1>8. CASE c.op = "status"
  <2>1. s = IF c.arg[1] \in DOMAIN srv THEN AV!With(c.arg[1], [srv[c.arg[1]] EXCEPT !.status = c.arg[2]]) ELSE srv
    BY <1>8 DEF AV!Served, AV!Reads
  <2>2. c.arg[1] \in S => [srv[c.arg[1]] EXCEPT !.status = c.arg[2]] \in AV!Row
    BY <1>2, <1>8 DEF AccountsCall, AV!Row
  <2> QED BY <1>2, <1>3, <1>8, <2>1, <2>2 DEF AccountsCall
<1>9. CASE c.op = "renew"
  <2> DEFINE renewed == {b \in DOMAIN srv : c.arg \in {AV!NoArg, <<b>>}}
  <2>1. PICK u \in [renewed -> Tiers] :
          s = [b \in DOMAIN srv |-> IF b \in renewed THEN [srv[b] EXCEPT !.tier = u[b]] ELSE srv[b]]
    BY <1>9 DEF AV!Served, AV!Reads
  <2>2. \A b \in S : srv[b] \in AV!Row /\ \A v \in Tiers : [srv[b] EXCEPT !.tier = v] \in AV!Row
    BY <1>2 DEF AV!Row
  <2>3. s \in [S -> AV!Row]
    BY <1>2, <2>1, <2>2
  <2> QED BY <1>1, <2>3
<1> QED BY <1>4, <1>5, <1>6, <1>7, <1>8, <1>9 DEF AccountsCall, AccountsOps, AV!Reads

LEMMA AccountsKeep == ASSUME AccountsTypes, [AV!Next]_(AV!vars) PROVE AccountsTypes'
<1>0. /\ Fit(calls, MaxCalls) /\ \A c \in calls : AccountsCall(c)
      /\ srv \in AV!Tables /\ (ui.mounted => ui \in AccountsRefs)
  BY DEF AccountsTypes
<1>a. MaxCalls \in Nat
  BY MaxCallsAssumption
<1>b. ASSUME NEW u \in AccountsRefs PROVE AV!Spins(u, "loading") \in AccountsRefs /\ AV!Stops(u, "loading") \in AccountsRefs
  BY DEF AccountsRefs, AV!Spins, AV!Stops
<1>c. ASSUME NEW op, NEW arg, Cardinality(calls) + 1 <= MaxCalls, calls' = Adding(MaxCalls, calls, op, arg),
             \A d : d.op = op /\ d.arg = arg /\ d.state = "sent" => AccountsCall(d)
      PROVE  Fit(calls, MaxCalls)' /\ \A d \in calls' : AccountsCall(d)
  BY <1>0, <1>a, <1>c, SentFits
<1>d. ASSUME NEW c \in calls
      PROVE  Fit(calls \ {c}, MaxCalls) /\ \A d \in calls \ {c} : AccountsCall(d)
  BY <1>0, <1>a, FewerFit
<1>1. CASE AV!Refresh \/ AV!Poll
  <2>1. /\ Cardinality(calls) + 1 <= MaxCalls /\ calls' = Adding(MaxCalls, calls, "load", AV!NoArg) /\ srv' = srv
        /\ Shows(AV!Spins(ui, "loading"))
    BY <1>1, AccountsShares DEF AV!Refresh, AV!Poll, AV!Clicks
  <2>2. ui'.mounted => ui' \in AccountsRefs
    BY <1>0, <1>b, <2>1, ShownStays
  <2>3. \A d : d.op = "load" /\ d.state = "sent" => AccountsCall(d)
    BY DEF AccountsCall, AccountsOps
  <2>4. Fit(calls, MaxCalls)' /\ \A d \in calls' : AccountsCall(d)
    BY <1>c, <2>1, <2>3
  <2> QED BY <1>0, <2>1, <2>2, <2>4 DEF AccountsTypes
<1>2. ASSUME NEW op, NEW arg, AV!Clicks(op, arg), ui' = ui,
             \A d : d.op = op /\ d.arg = arg /\ d.state = "sent" => AccountsCall(d)
      PROVE  AccountsTypes'
  <2>1. Cardinality(calls) + 1 <= MaxCalls /\ calls' = Adding(MaxCalls, calls, op, arg) /\ srv' = srv
    BY <1>2, AccountsShares DEF AV!Clicks
  <2>2. Fit(calls, MaxCalls)' /\ \A d \in calls' : AccountsCall(d)
    BY <1>2, <1>c, <2>1
  <2> QED BY <1>0, <1>2, <2>1, <2>2 DEF AccountsTypes
<1>3. CASE AV!OnRenewAll \/ \E a \in Accounts : AV!OnRenewOne(a) \/ AV!OnRateLimit(a)
  <2>1. PICK op, arg : op \in {"renew", "rate"} /\ AV!Clicks(op, arg) /\ ui' = ui
    BY <1>3 DEF AV!OnRenewOne, AV!OnRenewAll, AV!OnRateLimit
  <2>2. \A d : d.op = op /\ d.arg = arg /\ d.state = "sent" => AccountsCall(d)
    BY <2>1 DEF AccountsCall, AccountsOps
  <2> QED BY <1>2, <2>1, <2>2
<1>4. ASSUME NEW a \in Accounts, AV!OnRemove(a) \/ AV!OnAdd(a) PROVE AccountsTypes'
  <2>1. PICK op \in {"remove", "add"} : AV!Clicks(op, <<a>>) /\ ui' = ui
    BY <1>4 DEF AV!OnRemove, AV!OnAdd
  <2>2. \A d : d.op = op /\ d.arg = <<a>> /\ d.state = "sent" => AccountsCall(d)
    BY DEF AccountsCall, AccountsOps
  <2> QED BY <1>2, <2>1, <2>2
<1>5. ASSUME NEW a \in Accounts, AV!OnSetTier(a) \/ AV!OnToggleDisabled(a) PROVE AccountsTypes'
  <2>1. PICK op, v : /\ AV!Clicks(op, <<a, v>>) /\ ui' = ui
                     /\ (op = "tier" /\ v \in Tiers) \/ (op = "status" /\ v \in AV!Statuses)
    BY <1>5 DEF AV!OnSetTier, AV!OnToggleDisabled, AV!ToggleSends, AV!Statuses
  <2>2. \A d : d.op = op /\ d.arg = <<a, v>> /\ d.state = "sent" => AccountsCall(d)
    BY <2>1 DEF AccountsCall, AccountsOps
  <2> QED BY <1>2, <2>1, <2>2
<1>6. CASE AV!Hide \/ AV!Leave
  <2>1. ui'.mounted => ui' \in AccountsRefs
    <3>1. CASE AV!Hide
      BY <1>0, <3>1 DEF AV!Hide, AccountsRefs
    <3>2. CASE AV!Leave
      BY <3>2 DEF AV!Leave, AV!Left
    <3> QED BY <1>6, <3>1, <3>2
  <2> QED BY <1>0, <1>6, <2>1 DEF AV!Hide, AV!Leave, AccountsTypes
<1>7. CASE AV!Elsewhere
  BY <1>0, <1>7 DEF AV!Elsewhere, AccountsTypes
<1>8. ASSUME NEW c \in calls, AV!Serve(c) PROVE AccountsTypes'
  <2>1. PICK a : calls' = Replied(c, a) /\ (c.op = "load" => a = srv)
    BY <1>8, AccountsShares DEF AV!Serve
  <2>2. /\ Fit(calls', MaxCalls)
        /\ \A d \in calls' : d \in calls \/ (d.op = c.op /\ d.arg = c.arg /\ d.state = "answered" /\ d.answer = a)
    BY <1>0, <1>a, <2>1, RepliedFits
  <2>3. \A d \in calls' : AccountsCall(d)
    BY <1>0, <2>1, <2>2 DEF AccountsCall
  <2>4. srv' \in AV!Tables
    BY <1>0, <1>8, AccountsServed DEF AV!Serve
  <2> QED BY <1>0, <1>8, <2>2, <2>3, <2>4 DEF AV!Serve, AccountsTypes
<1>9. ASSUME NEW c \in calls, AV!Loaded(c) PROVE AccountsTypes'
  <2>1. c.answer \in AV!Tables /\ Shows([AV!Stops(ui, "loading") EXCEPT !.rows = c.answer])
    BY <1>0, <1>9, AccountsShares DEF AV!Loaded, AV!Heard, AccountsCall
  <2>2. ui \in AccountsRefs => [AV!Stops(ui, "loading") EXCEPT !.rows = c.answer] \in AccountsRefs
    BY <1>b, <2>1 DEF AccountsRefs
  <2>3. ui'.mounted => ui' \in AccountsRefs
    BY <1>0, <2>1, <2>2, ShownStays
  <2> QED BY <1>0, <1>d, <1>9, <2>3 DEF AV!Loaded, AccountsTypes
<1>10. ASSUME NEW c \in calls, AV!Done(c) PROVE AccountsTypes'
  <2>1. Shows(AV!Spins(ui, "loading")) /\ calls' = Adding(MaxCalls, calls \ {c}, "load", AV!NoArg) /\ srv' = srv
    BY <1>10, AccountsShares DEF AV!Done
  <2>2. ui'.mounted => ui' \in AccountsRefs
    BY <1>0, <1>b, <2>1, ShownStays
  <2>3. /\ Fit(calls', MaxCalls)
        /\ \A d \in calls' : d \in calls \/ (d.op = "load" /\ d.state = "sent")
    BY <1>0, <1>a, <2>1, ReplacedFits
  <2>4. \A d \in calls' : AccountsCall(d)
    BY <1>0, <2>3 DEF AccountsCall, AccountsOps
  <2> QED BY <1>0, <2>1, <2>2, <2>3, <2>4 DEF AccountsTypes
<1>11. ASSUME NEW c \in calls, AV!RateShown(c) \/ AV!Vanish(c) PROVE AccountsTypes'
  BY <1>0, <1>d, <1>11 DEF AV!RateShown, AV!Vanish, AccountsTypes
<1>12. ASSUME NEW c \in calls, AV!Fails(c) PROVE AccountsTypes'
  <2>1. ui'.mounted => ui' \in AccountsRefs
    <3>1. CASE c.op = "load"
      <4>1. Shows(AV!Stops(ui, "loading"))
        BY <1>12, <3>1, AccountsShares DEF AV!Fails
      <4> QED BY <1>0, <1>b, <4>1, ShownStays
    <3>2. CASE c.op # "load"
      BY <1>0, <1>12, <3>2 DEF AV!Fails
    <3> QED BY <3>1, <3>2
  <2>2. calls' = GivenUp(c) /\ srv' = srv
    BY <1>12, AccountsShares DEF AV!Fails
  <2>3. /\ Fit(calls', MaxCalls)
        /\ \A d \in calls' : d \in calls \/ (d.op = c.op /\ d.arg = c.arg /\ d.state = "given up")
    BY <1>0, <1>a, <2>2, GivenUpFits
  <2>4. \A d \in calls' : AccountsCall(d)
    BY <1>0, <2>3 DEF AccountsCall
  <2> QED BY <1>0, <2>1, <2>2, <2>3, <2>4 DEF AccountsTypes
<1>13. CASE UNCHANGED AV!vars
  BY <1>0, <1>13 DEF AV!vars, AccountsTypes
<1> QED
  BY <1>1, <1>3, <1>4, <1>5, <1>6, <1>7, <1>8, <1>9, <1>10, <1>11, <1>12, <1>13
  DEF AV!Next, AV!Operator, AV!Faults, AV!Step, AV!Answered

LEMMA AccountsTyped == ASSUME AccountsTypes PROVE AV!TypeOK
<1>1. AV!CallsOK
  BY AccountsShares, FittingCalls, MaxCallsAssumption DEF AccountsTypes
<1> QED BY <1>1 DEF AccountsTypes, AccountsRefs, AV!TypeOK

-----------------------------------------------------------------------------
(* Bans.vue: the history on the way and on the screen is never longer than  *)
(* the server's may be.                                                     *)

BansHistory == 0 .. MaxHistory
BansAnswer(c) == c.op = "load history" /\ c.state = "answered" => c.answer[1] \in BansHistory
BansFlags == {"loading", "historyLoading"}
BansShows(u) == u.history \in BansHistory /\ u.busy \subseteq BansFlags

BansTypes ==
  /\ Fit(calls, MaxCalls) /\ \A c \in calls : BansAnswer(c)
  /\ srv.history \in BansHistory
  /\ ui.mounted => BansShows(ui)

LEMMA BansShares ==
  /\ \A cs, op, arg : BV!Sending(cs, op, arg) = Adding(MaxCalls, cs, op, arg)
  /\ \A c, a : BV!Replied(c, a) = Replied(c, a)
  /\ \A c : BV!GivenUp(c) = GivenUp(c)
  /\ \A k : BV!Room(k) <=> Cardinality(calls) + k <= MaxCalls
  /\ \A u : BV!Shows(u) <=> Shows(u)
  /\ BV!CallsOK <=> CallsAre(MaxCalls)
<1>1. ASSUME NEW S PROVE BV!Cardinality(S) = Cardinality(S)
  BY Zenon DEF BV!Cardinality, Cardinality
<1> QED
  BY <1>1 DEF BV!Sending, Adding, BV!Slots, BV!Replied, Replied, BV!GivenUp, GivenUp, BV!Reads, Reads,
    BV!Room, BV!CallsOK, CallsAre, BV!Shows, Shows

\* Both loads are sent where there is room for two calls.
LEMMA BansBothFit ==
  ASSUME NEW cs, Fit(cs, MaxCalls), Cardinality(cs) + 2 <= MaxCalls, \A c \in cs : BansAnswer(c)
  PROVE  Fit(BV!BothLoads(cs), MaxCalls) /\ \A c \in BV!BothLoads(cs) : BansAnswer(c)
<1>1. PICK one : one = Adding(MaxCalls, cs, "load", BV!NoArg)
  OBVIOUS
<1>2. PICK both, op, arg : both = Adding(MaxCalls, one, op, arg) /\ both = BV!BothLoads(cs)
  BY <1>1, BansShares DEF BV!BothLoads
<1>3. MaxCalls \in Nat /\ Cardinality(cs) \in Nat
  BY MaxCallsAssumption, FS_CardinalityType DEF Fit
<1>4. Cardinality(cs) + 1 <= MaxCalls
  BY <1>3
<1>5. /\ Fit(one, MaxCalls) /\ Cardinality(one) <= Cardinality(cs) + 1
      /\ \A c \in one : c \in cs \/ c.state = "sent"
  BY <1>1, <1>3, <1>4, SentFits
<1>6. Fit(one, MaxCalls) /\ Cardinality(one) + 1 <= MaxCalls
  BY <1>3, <1>5, FS_CardinalityType DEF Fit
<1>7. Fit(both, MaxCalls) /\ \A c \in both : c \in one \/ c.state = "sent"
  <2>1. MaxCalls \in Nat /\ both = Adding(MaxCalls, one, op, arg)
    BY <1>2, <1>3
  <2> QED BY <1>6, <2>1, SentFits
<1> QED BY <1>2, <1>5, <1>7 DEF BansAnswer

LEMMA BansTypesStart == BV!Init => BansTypes
<1> SUFFICES ASSUME BV!Init PROVE BansTypes
  OBVIOUS
<1>1. MaxCalls \in Nat /\ 0 + 2 <= MaxCalls
  BY MaxCallsAssumption, RoomAssumption
<1>2. Fit({}, MaxCalls) /\ Cardinality({}) = 0 /\ \A c \in {} : BansAnswer(c)
  BY <1>1, NoneFits
<1>3. Fit(calls, MaxCalls) /\ \A c \in calls : BansAnswer(c)
  BY <1>1, <1>2, BansBothFit DEF BV!Init
<1>4. 0 \in BansHistory
  BY BoundsAssumption DEF BansHistory
<1>5. BansShows(ui)
  BY <1>4 DEF BV!Init, BV!SpinsBoth, BV!Spins, BansShows, BansFlags
<1> QED BY <1>3, <1>4, <1>5 DEF BV!Init, BansTypes

LEMMA BansTypesKeep == ASSUME BanInv, BansTypes, [BV!Next]_(BV!vars) PROVE BansTypes'
<1>0. /\ Fit(calls, MaxCalls) /\ \A c \in calls : BansAnswer(c)
      /\ srv.history \in BansHistory /\ (ui.mounted => BansShows(ui))
  BY DEF BansTypes
<1>a. /\ MaxCalls \in Nat
      /\ srv \in [rows : BV!Tables, history : {srv.history}, now : {srv.now}]
      /\ ui.mounted => ui \in BanRefsOf(ui)
  BY MaxCallsAssumption DEF BanInv, BanTables, BanRefs
<1>b. ASSUME NEW u, BV!Shows(u), ui.mounted => BansShows(u)
      PROVE  ui'.mounted => BansShows(ui')
  BY <1>b DEF BV!Shows
<1>c. ASSUME ui.mounted, NEW flag \in BansFlags
      PROVE  /\ BansShows(BV!Spins(ui, flag)) /\ BansShows(BV!Stops(ui, flag)) /\ BansShows(BV!SpinsBoth(ui))
             /\ \A h \in BansHistory : BansShows([BV!Stops(ui, flag) EXCEPT !.history = h])
             /\ \A rows : BansShows([BV!Stops(ui, flag) EXCEPT !.rows = rows])
  <2>1. ui \in BanRefsOf(ui) /\ BansShows(ui)
    BY <1>0, <1>a, <1>c
  <2> QED BY <2>1 DEF BanRefsOf, BansShows, BansFlags, BV!Spins, BV!Stops, BV!SpinsBoth
<1>d. ASSUME NEW c \in calls
      PROVE  Fit(calls \ {c}, MaxCalls) /\ \A d \in calls \ {c} : BansAnswer(d)
  BY <1>0, <1>a, FewerFit
<1>1. ASSUME NEW op, NEW arg, Cardinality(calls) + 1 <= MaxCalls, calls' = Adding(MaxCalls, calls, op, arg),
             srv' = srv, ui'.mounted => BansShows(ui')
      PROVE  BansTypes'
  <2>1. Fit(calls', MaxCalls) /\ \A d \in calls' : d \in calls \/ d.state = "sent"
    BY <1>0, <1>a, <1>1, SentFits
  <2> QED BY <1>0, <1>1, <2>1 DEF BansTypes, BansAnswer
<1>2. CASE BV!Refresh
  <2>1. /\ ui.mounted /\ BV!Shows(BV!Spins(ui, "loading")) /\ srv' = srv
        /\ Cardinality(calls) + 1 <= MaxCalls /\ calls' = Adding(MaxCalls, calls, "load", BV!NoArg)
    BY <1>2, BansShares DEF BV!Refresh
  <2>2. ui'.mounted => BansShows(ui')
    BY <1>b, <1>c, <2>1 DEF BansFlags
  <2> QED BY <1>1, <2>1, <2>2
<1>3. CASE BV!ClearHistory \/ \E a \in BV!Rows : BV!OnReset(a)
  <2>1. PICK op, arg : /\ Cardinality(calls) + 1 <= MaxCalls /\ calls' = Adding(MaxCalls, calls, op, arg)
                       /\ srv' = srv /\ ui' = ui
    BY <1>3, BansShares DEF BV!ClearHistory, BV!OnReset
  <2> QED BY <1>0, <1>1, <2>1
<1>4. CASE BV!Poll
  <2>1. Cardinality(calls) + 2 <= MaxCalls /\ calls' = BV!BothLoads(calls) /\ srv' = srv /\ BV!Shows(BV!SpinsBoth(ui))
    BY <1>4, BansShares DEF BV!Poll
  <2>2. Fit(calls', MaxCalls) /\ \A d \in calls' : BansAnswer(d)
    BY <1>0, <2>1, BansBothFit
  <2>3. ui'.mounted => BansShows(ui')
    BY <1>b, <1>c, <2>1 DEF BansFlags
  <2> QED BY <1>0, <2>1, <2>2, <2>3 DEF BansTypes
<1>5. CASE BV!Hide
  <2>1. ui' = [ui EXCEPT !.hidden = ~ui.hidden] /\ ui.mounted
    BY <1>5 DEF BV!Hide
  <2>2. BansShows(ui')
    BY <1>0, <1>a, <2>1 DEF BanRefsOf, BansShows
  <2> QED BY <1>0, <1>5, <2>2 DEF BV!Hide, BansTypes
<1>6. CASE BV!Leave
  BY <1>0, <1>6 DEF BV!Leave, BV!Left, BansTypes
<1>7. ASSUME NEW a \in BV!Rows, BV!Strike(a) PROVE BansTypes'
  <2>1. srv.history < MaxHistory /\ srv'.history = srv.history + 1
    BY <1>a, <1>7 DEF BV!Strike
  <2>2. srv'.history \in BansHistory
    BY <1>0, <2>1, BoundsAssumption DEF BansHistory
  <2> QED BY <1>0, <1>7, <2>2 DEF BV!Strike, BansTypes
<1>8. CASE BV!Expire
  <2>1. srv'.history = srv.history
    BY <1>a, <1>8 DEF BV!Expire
  <2> QED BY <1>0, <1>8, <2>1 DEF BV!Expire, BansTypes
<1>9. ASSUME NEW c \in calls, BV!Serve(c) PROVE BansTypes'
  <2>1. srv'.history \in BansHistory
    <3>1. CASE c.op = "reset"
      <4>1. srv' = [srv EXCEPT !.rows[c.arg[1]].status = "active"]
        BY <1>9, <3>1 DEF BV!Serve
      <4>2. srv'.history = srv.history
        BY <1>a, <4>1
      <4> QED BY <1>0, <4>2
    <3>2. CASE c.op = "clear"
      <4>1. srv' = [srv EXCEPT !.history = 0]
        BY <1>9, <3>2 DEF BV!Serve
      <4>2. srv'.history = 0
        BY <1>a, <4>1
      <4> QED BY <4>2, BoundsAssumption DEF BansHistory
    <3>3. CASE c.op \notin {"reset", "clear"}
      BY <1>0, <1>9, <3>3 DEF BV!Serve
    <3> QED BY <3>1, <3>2, <3>3
  <2>2. PICK a : calls' = Replied(c, a) /\ (c.op = "load history" => a = <<srv.history>>)
    BY <1>9, BansShares DEF BV!Serve
  <2>3. calls' = Replied(c, a) /\ (c.op = "load history" => a[1] = srv.history)
    <3>1. ASSUME a = <<srv.history>> PROVE a[1] = srv.history
      BY <3>1
    <3> QED BY <2>2, <3>1
  <2>4. /\ Fit(calls', MaxCalls)
        /\ \A d \in calls' : d \in calls \/ (d.op = c.op /\ d.answer = a)
    <3>1. calls' = Replied(c, a)
      BY <2>3
    <3> QED BY <1>0, <1>a, <3>1, RepliedFits
  <2>5. \A d \in calls' : BansAnswer(d)
    BY <1>0, <2>3, <2>4 DEF BansAnswer
  <2> QED BY <1>0, <1>9, <2>1, <2>4, <2>5 DEF BV!Serve, BansTypes
<1>10. ASSUME NEW c \in calls, NEW u, BV!Shows(u), ui.mounted => BansShows(u), srv' = srv, calls' = calls \ {c}
       PROVE  BansTypes'
  <2>1. ui'.mounted => BansShows(ui')
    BY <1>b, <1>10
  <2> QED BY <1>0, <1>d, <1>10, <2>1 DEF BansTypes
<1>11. ASSUME NEW c \in calls, BV!Loaded(c) PROVE BansTypes'
  <2>1. PICK u : /\ u = [BV!Stops(ui, "loading") EXCEPT !.rows = c.answer]
                 /\ BV!Shows(u) /\ srv' = srv /\ calls' = calls \ {c}
    BY <1>11 DEF BV!Loaded
  <2>2. ui.mounted => BansShows(u)
    BY <1>c, <2>1 DEF BansFlags
  <2> QED BY <1>10, <2>1, <2>2
<1>12. ASSUME NEW c \in calls, BV!HistoryLoaded(c) PROVE BansTypes'
  <2>1. PICK u : /\ u = [BV!Stops(ui, "historyLoading") EXCEPT !.history = c.answer[1]]
                 /\ BV!Shows(u) /\ srv' = srv /\ calls' = calls \ {c}
    BY <1>12 DEF BV!HistoryLoaded
  <2>2. c.answer[1] \in BansHistory
    BY <1>0, <1>12 DEF BV!HistoryLoaded, BV!Heard, BansAnswer
  <2>3. ui.mounted => BansShows(u)
    BY <1>c, <2>1, <2>2 DEF BansFlags
  <2> QED BY <1>10, <2>1, <2>3
<1>13. ASSUME NEW c \in calls, BV!ResetDone(c) PROVE BansTypes'
  <2>1. BV!Shows(BV!Spins(ui, "loading")) /\ calls' = Adding(MaxCalls, calls \ {c}, "load", BV!NoArg) /\ srv' = srv
    BY <1>13, BansShares DEF BV!ResetDone
  <2>2. Fit(calls', MaxCalls) /\ \A d \in calls' : d \in calls \/ d.state = "sent"
    BY <1>0, <1>a, <2>1, ReplacedFits
  <2>3. ui'.mounted => BansShows(ui')
    BY <1>b, <1>c, <2>1 DEF BansFlags
  <2> QED BY <1>0, <2>1, <2>2, <2>3 DEF BansTypes, BansAnswer
<1>14. ASSUME NEW c \in calls, BV!Cleared(c) PROVE BansTypes'
  <2>1. PICK u : u = [ui EXCEPT !.history = 0] /\ BV!Shows(u) /\ srv' = srv /\ calls' = calls \ {c}
    BY <1>14 DEF BV!Cleared
  <2>2. ui.mounted => BansShows(u)
    BY <1>0, <1>a, <2>1, BoundsAssumption DEF BansShows, BanRefsOf, BansHistory
  <2> QED BY <1>10, <2>1, <2>2
<1>15. ASSUME NEW c \in calls, BV!Fails(c) PROVE BansTypes'
  <2>1. PICK u : BV!Shows(u) /\ (u = ui \/ \E flag \in BansFlags : u = BV!Stops(ui, flag))
    BY <1>15 DEF BV!Fails, BansFlags
  <2>2. ui.mounted => BansShows(u)
    BY <1>0, <1>c, <2>1
  <2>3. ui'.mounted => BansShows(ui')
    BY <1>b, <2>1, <2>2
  <2>4. calls' = GivenUp(c) /\ srv' = srv
    BY <1>15, BansShares DEF BV!Fails
  <2>5. Fit(calls', MaxCalls) /\ \A d \in calls' : d \in calls \/ d.state = "given up"
    BY <1>0, <1>a, <2>4, GivenUpFits
  <2> QED BY <1>0, <2>3, <2>4, <2>5 DEF BansTypes, BansAnswer
<1>16. ASSUME NEW c \in calls, BV!Vanish(c) PROVE BansTypes'
  BY <1>0, <1>d, <1>16 DEF BV!Vanish, BansTypes
<1>17. CASE UNCHANGED BV!vars
  BY <1>0, <1>17 DEF BV!vars, BansTypes
<1> QED
  BY <1>2, <1>3, <1>4, <1>5, <1>6, <1>7, <1>8, <1>9, <1>11, <1>12, <1>13, <1>14, <1>15, <1>16, <1>17
  DEF BV!Next, BV!Operator, BV!Elsewhere, BV!Faults, BV!Step, BV!Answered

LEMMA BansTyped == ASSUME BanInv, BansTypes PROVE BV!TypeOK
<1>1. BV!CallsOK
  BY BansShares, FittingCalls, MaxCallsAssumption, SMTT(30) DEF BansTypes
<1> QED
  BY <1>1 DEF BanInv, BanTables, BanRefs, BansTypes, BansShows, BansHistory, BansFlags, BV!TypeOK

-----------------------------------------------------------------------------
(* Overview.vue: a snapshot on the way or on the screen is one of the       *)
(* server's, and the look again outlives the view.                          *)

Snapshots == [ls : BOOLEAN, cached : BOOLEAN]
OverviewCall(c) == c.op = "load" /\ c.state = "answered" => c.answer \in Snapshots
OverviewRefs ==
  [mounted : {TRUE}, ticking : BOOLEAN, hidden : BOOLEAN, busy : SUBSET {"loading"},
   data : Snapshots \union {Nothing}, config : BOOLEAN, late : BOOLEAN]
OverviewLeft == [mounted : {FALSE}, ticking : {FALSE}, late : BOOLEAN]

OverviewTypes ==
  /\ Fit(calls, MaxCalls) /\ \A c \in calls : OverviewCall(c)
  /\ srv \in Snapshots
  /\ ui \in OverviewRefs \union OverviewLeft

LEMMA OverviewShares ==
  /\ \A cs, op, arg : OV!Sending(cs, op, arg) = Adding(MaxCalls, cs, op, arg)
  /\ \A c, a : OV!Replied(c, a) = Replied(c, a)
  /\ \A c : OV!GivenUp(c) = GivenUp(c)
  /\ \A k : OV!Room(k) <=> Cardinality(calls) + k <= MaxCalls
  /\ \A u : OV!Shows(u) <=> Shows(u)
  /\ OV!CallsOK <=> CallsAre(MaxCalls)
<1>1. ASSUME NEW S PROVE OV!Cardinality(S) = Cardinality(S)
  BY Zenon DEF OV!Cardinality, Cardinality
<1> QED
  BY <1>1 DEF OV!Sending, Adding, OV!Slots, OV!Replied, Replied, OV!GivenUp, GivenUp, OV!Reads, Reads,
    OV!Room, OV!CallsOK, CallsAre, OV!Shows, Shows

LEMMA OverviewStart == OV!Init => OverviewTypes
<1> SUFFICES ASSUME OV!Init PROVE OverviewTypes
  OBVIOUS
<1>1. PICK one : one = Adding(MaxCalls, {}, "load", OV!NoArg)
  OBVIOUS
<1>2. calls = Adding(MaxCalls, one, "config", OV!NoArg)
  BY <1>1, OverviewShares DEF OV!Init
<1>3. MaxCalls \in Nat /\ 0 + 1 <= MaxCalls /\ 1 + 1 <= MaxCalls
  BY MaxCallsAssumption, RoomAssumption
<1>4. Fit(one, MaxCalls) /\ Cardinality(one) <= 0 + 1 /\ \A c \in one : c.state = "sent"
  BY <1>1, <1>3, NoneFits, SentFits
<1>5. Cardinality(one) + 1 <= MaxCalls
  BY <1>3, <1>4, FS_CardinalityType DEF Fit
<1>6. Fit(calls, MaxCalls) /\ \A c \in calls : c.state = "sent"
  BY <1>2, <1>3, <1>4, <1>5, SentFits
<1> QED BY <1>6 DEF OV!Init, OverviewTypes, OverviewCall, OverviewRefs, Snapshots

LEMMA OverviewKeep == ASSUME OverviewTypes, [OV!Next]_(OV!vars) PROVE OverviewTypes'
<1>0. /\ Fit(calls, MaxCalls) /\ \A c \in calls : OverviewCall(c)
      /\ srv \in Snapshots /\ ui \in OverviewRefs \union OverviewLeft
  BY DEF OverviewTypes
<1>a. MaxCalls \in Nat
  BY MaxCallsAssumption
<1>b. /\ ui.mounted => ui \in OverviewRefs
      /\ \A late \in BOOLEAN : [ui EXCEPT !.late = late] \in OverviewRefs \union OverviewLeft
  BY <1>0 DEF OverviewRefs, OverviewLeft
<1>c. ASSUME NEW u, Shows(u), ui \in OverviewRefs => u \in OverviewRefs
      PROVE  ui' \in OverviewRefs \union OverviewLeft
  BY <1>0, <1>b, <1>c DEF Shows
<1>d. ASSUME NEW c \in calls
      PROVE  Fit(calls \ {c}, MaxCalls) /\ \A d \in calls \ {c} : OverviewCall(d)
  BY <1>0, <1>a, FewerFit
<1>1. ASSUME NEW op, Cardinality(calls) + 1 <= MaxCalls, calls' = Adding(MaxCalls, calls, op, OV!NoArg),
             srv' = srv, ui' \in OverviewRefs \union OverviewLeft
      PROVE  OverviewTypes'
  <2>1. Fit(calls', MaxCalls) /\ \A d \in calls' : d \in calls \/ d.state = "sent"
    BY <1>0, <1>a, <1>1, SentFits
  <2> QED BY <1>0, <1>1, <2>1 DEF OverviewTypes, OverviewCall
<1>2. CASE OV!OnClearCache \/ OV!OnRestartLS \/ OV!Poll
  <2>1. \E op : /\ Cardinality(calls) + 1 <= MaxCalls /\ calls' = Adding(MaxCalls, calls, op, OV!NoArg)
                /\ srv' = srv /\ ui' = ui
    BY <1>2, OverviewShares DEF OV!OnClearCache, OV!OnRestartLS, OV!Poll, OV!Clicks, OV!Load
  <2> QED BY <1>0, <1>1, <2>1
<1>3. CASE OV!LookAgain
  <2>1. /\ Cardinality(calls) + 1 <= MaxCalls /\ calls' = Adding(MaxCalls, calls, "load", OV!NoArg)
        /\ srv' = srv /\ ui' = [ui EXCEPT !.late = FALSE]
    BY <1>3, OverviewShares DEF OV!LookAgain, OV!Load
  <2> QED BY <1>b, <1>1, <2>1
<1>4. CASE OV!Leave
  BY <1>0, <1>4 DEF OV!Leave, OverviewTypes, OverviewRefs, OverviewLeft
<1>5. CASE OV!Elsewhere
  <2>1. srv' \in Snapshots
    BY <1>0, <1>5 DEF OV!Elsewhere, Snapshots
  <2> QED BY <1>0, <1>5, <2>1 DEF OV!Elsewhere, OverviewTypes
<1>6. ASSUME NEW c \in calls, OV!Serve(c) PROVE OverviewTypes'
  <2>1. PICK a : calls' = Replied(c, a) /\ (c.op = "load" => a = srv)
    BY <1>6, OverviewShares DEF OV!Serve
  <2>2. /\ Fit(calls', MaxCalls)
        /\ \A d \in calls' : d \in calls \/ (d.op = c.op /\ d.answer = a)
    BY <1>0, <1>a, <2>1, RepliedFits
  <2>3. srv' \in Snapshots
    BY <1>0, <1>6 DEF OV!Serve, Snapshots
  <2> QED BY <1>0, <1>6, <2>1, <2>2, <2>3 DEF OV!Serve, OverviewTypes, OverviewCall
<1>7. ASSUME NEW c \in calls, OV!Loaded(c) PROVE OverviewTypes'
  <2>1. c.answer \in Snapshots
    BY <1>0, <1>7 DEF OV!Loaded, OV!Heard, OverviewCall
  <2>2. ui \in OverviewRefs => [OV!Stops(ui, "loading") EXCEPT !.data = c.answer] \in OverviewRefs
    BY <2>1 DEF OverviewRefs, OV!Stops
  <2> QED BY <1>0, <1>c, <1>d, <1>7, <2>2, OverviewShares DEF OV!Loaded, OverviewTypes
<1>8. ASSUME NEW c \in calls, OV!CardLoaded(c) PROVE OverviewTypes'
  <2>1. ui \in OverviewRefs => [ui EXCEPT !.config = TRUE] \in OverviewRefs
    BY DEF OverviewRefs
  <2> QED BY <1>0, <1>c, <1>d, <1>8, <2>1, OverviewShares DEF OV!CardLoaded, OverviewTypes
<1>9. ASSUME NEW c \in calls, OV!CacheCleared(c) PROVE OverviewTypes'
  <2>1. calls' = Adding(MaxCalls, calls \ {c}, "load", OV!NoArg) /\ srv' = srv /\ ui' = ui
    BY <1>9, OverviewShares DEF OV!CacheCleared
  <2>2. Fit(calls', MaxCalls) /\ \A d \in calls' : d \in calls \/ d.state = "sent"
    BY <1>0, <1>a, <2>1, ReplacedFits
  <2> QED BY <1>0, <2>1, <2>2 DEF OverviewTypes, OverviewCall
<1>10. ASSUME NEW c \in calls, OV!Restarted(c) PROVE OverviewTypes'
  BY <1>0, <1>b, <1>d, <1>10 DEF OV!Restarted, OverviewTypes
<1>11. ASSUME NEW c \in calls, OV!Fails(c) PROVE OverviewTypes'
  <2>1. PICK u : Shows(u) /\ (u = ui \/ u = OV!Stops(ui, "loading"))
    BY <1>11, OverviewShares DEF OV!Fails
  <2>2. ui' \in OverviewRefs \union OverviewLeft
    BY <1>c, <2>1 DEF OverviewRefs, OV!Stops
  <2>3. calls' = GivenUp(c) /\ srv' = srv
    BY <1>11, OverviewShares DEF OV!Fails
  <2>4. Fit(calls', MaxCalls) /\ \A d \in calls' : d \in calls \/ d.state = "given up"
    BY <1>0, <1>a, <2>3, GivenUpFits
  <2> QED BY <1>0, <2>2, <2>3, <2>4 DEF OverviewTypes, OverviewCall
<1>12. ASSUME NEW c \in calls, OV!Vanish(c) PROVE OverviewTypes'
  BY <1>0, <1>d, <1>12 DEF OV!Vanish, OverviewTypes
<1>13. CASE UNCHANGED OV!vars
  BY <1>0, <1>13 DEF OV!vars, OverviewTypes
<1> QED
  BY <1>2, <1>3, <1>4, <1>5, <1>6, <1>7, <1>8, <1>9, <1>10, <1>11, <1>12, <1>13
  DEF OV!Next, OV!Operator, OV!Faults, OV!Step, OV!Answered

LEMMA OverviewTyped == ASSUME OverviewTypes PROVE OV!TypeOK
<1>1. OV!CallsOK
  BY OverviewShares, FittingCalls, MaxCallsAssumption DEF OverviewTypes
<1> QED BY <1>1 DEF OverviewTypes, OverviewRefs, OverviewLeft, Snapshots, OV!TypeOK

-----------------------------------------------------------------------------
(* Stats.vue: the accounts on the way and on the screen are accounts, once  *)
(* their half of the load has been answered.                                *)

StatsJoined(c) ==
  c.op = "load" => \/ c.answer = Nothing /\ c.state # "answered"
                   \/ c.answer.accounts = Nothing /\ c.state # "answered"
                   \/ c.answer.accounts \subseteq Ids
StatsSees(u) == u.busy \subseteq {"loading"} /\ u.accounts \subseteq Ids

StatsTypes ==
  /\ Fit(calls, MaxCalls) /\ \A c \in calls : StatsJoined(c)
  /\ srv.hour \in 0 .. MaxHour /\ srv.known \subseteq Ids /\ srv.counted \subseteq Ids
  /\ ui.mounted => StatsSees(ui)

LEMMA StatsShares ==
  /\ \A cs, op, arg : SV!Sending(cs, op, arg) = Adding(MaxCalls, cs, op, arg)
  /\ \A c, a : SV!Replied(c, a) = Replied(c, a)
  /\ \A c : SV!GivenUp(c) = GivenUp(c)
  /\ \A k : SV!Room(k) <=> Cardinality(calls) + k <= MaxCalls
  /\ \A u : SV!Shows(u) <=> Shows(u)
  /\ SV!CallsOK <=> CallsAre(MaxCalls)
<1>1. ASSUME NEW S PROVE SV!Cardinality(S) = Cardinality(S)
  BY Zenon DEF SV!Cardinality, Cardinality
<1> QED
  BY <1>1 DEF SV!Sending, Adding, SV!Slots, SV!Replied, Replied, SV!GivenUp, GivenUp, SV!Reads, Reads,
    SV!Room, SV!CallsOK, CallsAre, SV!Shows, Shows

LEMMA StatsTypesStart == SV!Init => StatsTypes
<1> SUFFICES ASSUME SV!Init PROVE StatsTypes
  OBVIOUS
<1>1. calls = Adding(MaxCalls, {}, "load", SV!NoArg)
  BY StatsShares DEF SV!Init
<1>2. MaxCalls \in Nat /\ 0 + 1 <= MaxCalls
  BY MaxCallsAssumption
<1>3. Fit(calls, MaxCalls) /\ \A c \in calls : c.state = "sent" /\ c.answer = Nothing
  BY <1>1, <1>2, NoneFits, SentFits
<1>4. PICK k \in SUBSET Ids : srv = [hour |-> 0, known |-> k, counted |-> {}, buckets |-> <<>>]
  BY DEF SV!Init
<1>5. PICK r : ui = [mounted |-> TRUE, ticking |-> TRUE, hidden |-> FALSE, busy |-> {"loading"},
                     data |-> Nothing, accounts |-> {}, range |-> r]
  BY DEF SV!Init
<1>6. \A c \in calls : StatsJoined(c)
  BY <1>3 DEF StatsJoined
<1>7. 0 \in 0 .. MaxHour
  BY BoundsAssumption
<1> QED BY <1>3, <1>4, <1>5, <1>6, <1>7 DEF StatsTypes, StatsSees

\* A half of a load is answered, and the load with it once both are.
LEMMA StatsHalfTyped ==
  ASSUME StatsInv, StatsTypes, NEW c \in calls, c.op = "load", c.state # "answered",
         NEW part \in {"stats", "accounts"}, NEW a, part = "accounts" => a \subseteq Ids,
         SV!Half(c, part, a)
  PROVE  Fit(calls', MaxCalls) /\ \A d \in calls' : StatsJoined(d)
<1> DEFINE got == IF c.answer = Nothing THEN [stats |-> Nothing, accounts |-> Nothing] ELSE c.answer
           now == [got EXCEPT ![part] = a]
           state == IF Nothing \in {now.stats, now.accounts} THEN "sent" ELSE "answered"
           d == [c EXCEPT !.answer = now, !.state = state]
<1>0. Fit(calls, MaxCalls) /\ StatsCall(c) /\ StatsJoined(c) /\ MaxCalls \in Nat
  BY MaxCallsAssumption DEF StatsInv, StatsTypes
<1>1. calls' = (calls \ {c}) \union {d}
  BY DEF SV!Half
<1>2. /\ got \in [stats : {got.stats}, accounts : {got.accounts}]
      /\ got.accounts = Nothing \/ got.accounts \subseteq Ids
  <2>1. CASE c.answer = Nothing
    BY <2>1
  <2>2. CASE c.answer # Nothing
    <3>1. got = c.answer
      BY <2>2
    <3>2. c.answer = [stats |-> c.answer.stats, accounts |-> c.answer.accounts]
      BY <1>0, <2>2 DEF StatsCall, StatsAnswer
    <3>3. c.answer.accounts = Nothing \/ c.answer.accounts \subseteq Ids
      BY <1>0, <2>2 DEF StatsJoined
    <3> HIDE DEF got
    <3> QED BY <3>1, <3>2, <3>3
  <2> QED BY <2>1, <2>2
<1> HIDE DEF got
<1>3. now.accounts = Nothing \/ now.accounts \subseteq Ids
  <2>1. CASE part = "stats"
    <3>1. now = [got EXCEPT !["stats"] = a]
      BY <2>1
    <3> HIDE DEF now
    <3>2. now.accounts = got.accounts
      BY <1>2, <3>1
    <3> QED BY <1>2, <3>2
  <2>2. CASE part = "accounts"
    <3>1. now = [got EXCEPT !["accounts"] = a]
      BY <2>2
    <3> HIDE DEF now
    <3>2. now.accounts = a
      BY <1>2, <3>1
    <3> QED BY <2>2, <3>2
  <2> QED BY <2>1, <2>2
<1>4. state \in {"sent", "answered"} /\ (now.accounts = Nothing => state = "sent")
  <2> HIDE DEF now
  <2> QED OBVIOUS
<1> HIDE DEF now, state
<1>5. /\ CallRecord(d) /\ d.id = c.id /\ d.op = c.op /\ d.answer = now /\ d.state = state
  BY <1>0, <1>4 DEF CallRecord, Fit
<1> HIDE DEF d
<1>6. StatsJoined(d)
  BY <1>3, <1>4, <1>5 DEF StatsJoined
<1>7. Fit((calls \ {c}) \union {d}, MaxCalls)
  BY <1>0, <1>5, ChangedFits
<1> QED BY <1>1, <1>6, <1>7 DEF StatsTypes

LEMMA StatsTypesKeep == ASSUME StatsInv, StatsTypes, [SV!Next]_(SV!vars) PROVE StatsTypes'
<1>0. /\ Fit(calls, MaxCalls) /\ \A c \in calls : StatsJoined(c)
      /\ srv.hour \in 0 .. MaxHour /\ srv.known \subseteq Ids /\ srv.counted \subseteq Ids
      /\ ui.mounted => StatsSees(ui)
  BY DEF StatsTypes
<1>a. /\ MaxCalls \in Nat
      /\ srv \in [hour : {srv.hour}, known : {srv.known}, counted : {srv.counted}, buckets : {srv.buckets}]
      /\ ui.mounted => ui \in StatsRefsOf(ui)
  BY MaxCallsAssumption DEF StatsInv, StatsServed, StatsRefs
<1>b. ASSUME NEW op, SV!Asks(op) PROVE StatsTypes'
  <2>1. Cardinality(calls) + 1 <= MaxCalls /\ calls' = Adding(MaxCalls, calls, op, SV!NoArg) /\ UNCHANGED <<srv, ui>>
    BY <1>b, StatsShares DEF SV!Asks
  <2>2. Fit(calls', MaxCalls) /\ \A d \in calls' : d \in calls \/ (d.state = "sent" /\ d.answer = Nothing)
    BY <1>0, <1>a, <2>1, SentFits
  <2> QED BY <1>0, <2>1, <2>2 DEF StatsTypes, StatsJoined
<1>c. ASSUME NEW c \in calls
      PROVE  Fit(calls \ {c}, MaxCalls) /\ \A d \in calls \ {c} : StatsJoined(d)
  BY <1>0, <1>a, FewerFit
<1>d. ASSUME NEW u, SV!Shows(u), ui.mounted => StatsSees(u)
      PROVE  ui'.mounted => StatsSees(ui')
  BY <1>d DEF SV!Shows
<1>e. ASSUME ui.mounted
      PROVE  /\ StatsSees(SV!Stops(ui, "loading"))
             /\ \A data : \A accounts \in SUBSET Ids :
                  StatsSees([SV!Stops(ui, "loading") EXCEPT !.data = data, !.accounts = accounts])
  <2>1. ui \in StatsRefsOf(ui) /\ StatsSees(ui)
    BY <1>0, <1>a, <1>e
  <2> QED BY <2>1 DEF StatsRefsOf, StatsSees, SV!Stops
<1>1. CASE SV!Refresh \/ SV!OnReset \/ SV!Poll
  BY <1>b, <1>1 DEF SV!Refresh, SV!OnReset, SV!Poll
<1>2. ASSUME NEW r \in Ranges, SV!SetRange(r) PROVE StatsTypes'
  <2>1. ui' = [ui EXCEPT !.range = r] /\ ui.mounted
    BY <1>2 DEF SV!SetRange
  <2>2. StatsSees(ui')
    BY <1>0, <1>a, <2>1 DEF StatsRefsOf, StatsSees
  <2> QED BY <1>0, <1>2, <2>2 DEF SV!SetRange, StatsTypes
<1>3. CASE SV!Leave
  BY <1>0, <1>3 DEF SV!Leave, SV!Left, StatsTypes
<1>4. CASE SV!Hour
  <2>1. /\ srv.hour < MaxHour /\ srv'.hour = srv.hour + 1
        /\ srv'.known = srv.known /\ srv'.counted = srv.counted
    BY <1>a, <1>4 DEF SV!Hour
  <2>2. srv'.hour \in 0 .. MaxHour
    BY <1>0, <2>1, BoundsAssumption
  <2> QED BY <1>0, <1>4, <2>1, <2>2 DEF SV!Hour, StatsTypes
<1>5. ASSUME NEW i \in Ids, SV!Request(i) PROVE StatsTypes'
  <2>1. PICK t : srv' = [srv EXCEPT !.counted = srv.counted \union {i}, !.buckets = t]
    BY <1>5 DEF SV!Request
  <2>2. srv'.hour = srv.hour /\ srv'.known = srv.known /\ srv'.counted = srv.counted \union {i}
    BY <1>a, <2>1
  <2> QED BY <1>0, <1>5, <2>2 DEF SV!Request, StatsTypes
<1>6. ASSUME NEW i \in Ids, SV!AddOrDelete(i) PROVE StatsTypes'
  <2>1. PICK k \in SUBSET Ids : srv' = [srv EXCEPT !.known = k]
    BY <1>0, <1>6 DEF SV!AddOrDelete
  <2>2. srv'.hour = srv.hour /\ srv'.known \subseteq Ids /\ srv'.counted = srv.counted
    BY <1>a, <2>1
  <2> QED BY <1>0, <1>6, <2>2 DEF SV!AddOrDelete, StatsTypes
<1>7. ASSUME NEW c \in calls, SV!ServeHalf(c) \/ SV!AccountsFail(c) PROVE StatsTypes'
  <2>1. c.op = "load" /\ c.state # "answered" /\ srv' = srv /\ ui' = ui
    BY <1>7 DEF SV!ServeHalf, SV!AccountsFail, SV!Unserved
  <2>2. \E part \in {"stats", "accounts"} : \E a :
          SV!Half(c, part, a) /\ (part = "accounts" => a \subseteq Ids)
    BY <1>0, <1>7 DEF SV!ServeHalf, SV!AccountsFail
  <2>3. Fit(calls', MaxCalls) /\ \A d \in calls' : StatsJoined(d)
    BY <2>1, <2>2, StatsHalfTyped
  <2> QED BY <1>0, <2>1, <2>3 DEF StatsTypes
<1>8. ASSUME NEW c \in calls, SV!ServeReset(c) PROVE StatsTypes'
  <2>1. srv'.hour = srv.hour /\ srv'.known = srv.known /\ srv'.counted = {}
    BY <1>a, <1>8 DEF SV!ServeReset
  <2>2. calls' = Replied(c, Nothing) /\ c.op = "reset" /\ ui' = ui
    BY <1>8, StatsShares DEF SV!ServeReset
  <2>3. Fit(calls', MaxCalls) /\ \A d \in calls' : d \in calls \/ d.op = c.op
    BY <1>0, <1>a, <2>2, RepliedFits
  <2> QED BY <1>0, <2>1, <2>2, <2>3 DEF StatsTypes, StatsJoined
<1>9. ASSUME NEW c \in calls, SV!Loaded(c) PROVE StatsTypes'
  <2>1. c.answer.accounts \in SUBSET Ids
    BY <1>0, <1>9 DEF SV!Loaded, SV!Heard, StatsJoined
  <2>2. PICK u : /\ u = [SV!Stops(ui, "loading") EXCEPT !.data = c.answer.stats, !.accounts = c.answer.accounts]
                 /\ SV!Shows(u)
    BY <1>9 DEF SV!Loaded
  <2>3. ui'.mounted => StatsSees(ui')
    BY <1>d, <1>e, <2>1, <2>2
  <2> QED BY <1>0, <1>c, <1>9, <2>3 DEF SV!Loaded, StatsTypes
<1>10. ASSUME NEW c \in calls, SV!ResetDone(c) PROVE StatsTypes'
  <2>1. PICK op, arg : calls' = Adding(MaxCalls, calls \ {c}, op, arg) /\ srv' = srv /\ ui' = ui
    BY <1>10, StatsShares DEF SV!ResetDone
  <2>2. Fit(calls', MaxCalls) /\ \A d \in calls' : d \in calls \/ (d.state = "sent" /\ d.answer = Nothing)
    <3>1. calls' = Adding(MaxCalls, calls \ {c}, op, arg) /\ Fit(calls, MaxCalls) /\ MaxCalls \in Nat
      BY <1>0, <1>a, <2>1
    <3> QED BY <3>1, ReplacedFits
  <2> QED BY <1>0, <2>1, <2>2 DEF StatsTypes, StatsJoined
<1>11. ASSUME NEW c \in calls, SV!Fails(c) PROVE StatsTypes'
  <2>1. PICK u : SV!Shows(u) /\ (u = ui \/ u = SV!Stops(ui, "loading"))
    BY <1>11 DEF SV!Fails
  <2>2. ui'.mounted => StatsSees(ui')
    BY <1>0, <1>d, <1>e, <2>1
  <2>3. calls' = GivenUp(c) /\ srv' = srv
    BY <1>11, StatsShares DEF SV!Fails
  <2>4. Fit(calls', MaxCalls)
    BY <1>0, <1>a, <2>3, GivenUpFits
  <2>5. \A d \in calls' : StatsJoined(d)
    <3>1. CASE c.op = "load"
      <4>1. calls' \subseteq calls
        BY <2>3, <3>1 DEF GivenUp, Reads
      <4> QED BY <1>0, <4>1
    <3>2. CASE c.op # "load"
      <4>1. \A d \in calls' : d \in calls \/ d.op = c.op
        BY <1>0, <1>a, <2>3, GivenUpFits
      <4> QED BY <1>0, <3>2, <4>1 DEF StatsJoined
    <3> QED BY <3>1, <3>2
  <2> QED BY <1>0, <2>2, <2>3, <2>4, <2>5 DEF StatsTypes
<1>12. ASSUME NEW c \in calls, SV!Vanish(c) PROVE StatsTypes'
  BY <1>0, <1>c, <1>12 DEF SV!Vanish, StatsTypes
<1>13. CASE UNCHANGED SV!vars
  BY <1>0, <1>13 DEF SV!vars, StatsTypes
<1> QED
  BY <1>1, <1>2, <1>3, <1>4, <1>5, <1>6, <1>7, <1>8, <1>9, <1>10, <1>11, <1>12, <1>13
  DEF SV!Next, SV!Operator, SV!Elsewhere, SV!Faults, SV!Step, SV!Answered

LEMMA StatsTyped == ASSUME StatsInv, StatsTypes PROVE SV!TypeOK
<1>1. SV!CallsOK
  BY StatsShares, FittingCalls, MaxCallsAssumption DEF StatsTypes
<1>2. \A i \in DOMAIN srv.buckets : srv.buckets[i] \in 0 .. srv.hour
  <2>1. /\ srv.buckets \in Seq(Nat) /\ srv.hour \in Nat
        /\ \A i \in 1 .. Len(srv.buckets) : srv.buckets[i] <= srv.hour
    BY DEF StatsInv, StatsServed, Growing
  <2> QED BY <2>1, SMTT(30)
<1> QED BY <1>1, <1>2 DEF StatsInv, StatsRefs, StatsTypes, StatsSees, SV!TypeOK

-----------------------------------------------------------------------------
(* LoginTake.vue: the rows on the screen and in the browser's storage name  *)
(* attempts that were made, and there are never more of them than are kept. *)

TakeKept(h) == h \in Seq(LT!Row) /\ Len(h) <= Cap
TakeSees(u) ==
  /\ TakeKept(u.history) /\ u.busy \subseteq {"submitting", "testing"}
  /\ u.oauthBusy \in LT!Popups \union {Nothing} /\ u.password \in BOOLEAN
  /\ u.attempts \in 0 .. MaxAttempts /\ u.last \in 0 .. MaxAttempts

TakeTypes ==
  /\ Fit(calls, MaxCalls)
  /\ srv.sdk \in {"unloaded", "ready", "broken"}
  /\ srv.stored = Nothing \/ TakeKept(srv.stored)
  /\ TakeSees(ui)

LEMMA TakeShares ==
  /\ \A cs, op, arg : LT!Sending(cs, op, arg) = Adding(MaxCalls, cs, op, arg)
  /\ \A c, a : LT!Replied(c, a) = Replied(c, a)
  /\ \A c : LT!GivenUp(c) = GivenUp(c)
  /\ \A k : LT!Room(k) <=> Cardinality(calls) + k <= MaxCalls
  /\ \A u : LT!Shows(u) <=> Shows(u)
  /\ LT!CallsOK <=> CallsAre(MaxCalls)
<1>1. ASSUME NEW S PROVE LT!Cardinality(S) = Cardinality(S)
  BY Zenon DEF LT!Cardinality, Cardinality
<1> QED
  BY <1>1 DEF LT!Sending, Adding, LT!Slots, LT!Replied, Replied, LT!GivenUp, GivenUp, LT!Reads, Reads,
    LT!Room, LT!CallsOK, CallsAre, LT!Shows, Shows

LEMMA TakeTypesStart == LT!Init => TakeTypes
<1> SUFFICES ASSUME LT!Init PROVE TakeTypes
  OBVIOUS
<1>1. Fit(calls, MaxCalls)
  BY NoneFits, MaxCallsAssumption DEF LT!Init
<1>2. TakeKept(<<>>) /\ TakeKept(<<LT!Old>>) /\ 0 \in 0 .. MaxAttempts
  <2>1. PICK old \in LT!Row : old = LT!Old
    <3>1. 0 \in 0 .. MaxAttempts
      BY BoundsAssumption
    <3> QED BY <3>1 DEF LT!Old, LT!Row
  <2>2. <<old>> \in Seq(LT!Row) /\ Len(<<old>>) = 1
    OBVIOUS
  <2>3. <<>> \in Seq(LT!Row) /\ Len(<<>>) = 0
    OBVIOUS
  <2> QED BY <2>1, <2>2, <2>3, CapAssumption, BoundsAssumption DEF TakeKept
<1>3. PICK h : /\ h = <<>> \/ h = <<LT!Old>>
               /\ ui = [mounted |-> TRUE, ticking |-> FALSE, busy |-> {}, oauthBusy |-> Nothing,
                        password |-> FALSE, history |-> h, attempts |-> 0, last |-> 0]
  BY DEF LT!Init, LT!LoadHistory
<1>4. srv.sdk = "unloaded" /\ srv.stored \in {Nothing, <<LT!Old>>}
  BY DEF LT!Init
<1> QED BY <1>1, <1>2, <1>3, <1>4 DEF TakeTypes, TakeSees

\* A history with a new row is rows, and no more of them than are kept.
LEMMA KeptRecorded ==
  ASSUME NEW h, TakeKept(h), NEW r \in LT!Row
  PROVE  TakeKept(LT!RecordHistory(h, r))
<1>1. PICK long, n : long = <<r>> \o h /\ n = IF Len(h) < Cap THEN Len(h) + 1 ELSE Cap
  OBVIOUS
<1>2. h \in Seq(LT!Row) /\ Len(h) \in Nat
  BY DEF TakeKept
<1>3. long \in Seq(LT!Row) /\ Len(long) = Len(h) + 1
  BY <1>1, <1>2
<1>4. n \in 1 .. Len(long) /\ n <= Cap
  BY <1>1, <1>2, <1>3, CapAssumption
<1>5. SubSeq(long, 1, n) \in Seq(LT!Row) /\ Len(SubSeq(long, 1, n)) = n
  <2>1. \A i \in 1 .. n : long[i] \in LT!Row
    BY <1>3, <1>4
  <2>2. /\ SubSeq(long, 1, n) \in Seq(LT!Row)
        /\ Len(SubSeq(long, 1, n)) = IF 1 <= n THEN n - 1 + 1 ELSE 0
    BY <1>4, <2>1, SubSeqProperties
  <2> QED BY <1>4, <2>2
<1> QED BY <1>1, <1>4, <1>5 DEF LT!RecordHistory, TakeKept

\* An attempt that ends adds a row and lets one go when there are enough.
LEMMA TakeEndsTyped ==
  ASSUME TakeInv, TakeTypes, NEW c \in calls, Takes(c), NEW ok \in BOOLEAN,
         NEW u, u \in TakeRefsOf(u), TakeSees(u), NEW sdk \in {"unloaded", "ready", "broken"},
         LT!Ends(c, ok, u, sdk)
  PROVE  TakeTypes'
<1> DEFINE r == [n |-> c.arg[1], ok |-> ok]
           h == LT!RecordHistory(ui.history, r)
<1>1. /\ ui' = [u EXCEPT !.history = h, !.last = c.arg[1]]
      /\ srv' = [stored |-> h, sdk |-> sdk]
      /\ calls' = calls \ {c}
  BY DEF LT!Ends
<1>2. c.arg[1] \in 0 .. MaxAttempts
  <2>1. c.arg[1] \in 1 .. ui.attempts /\ ui.attempts \in 0 .. MaxAttempts
    BY DEF TakeInv, TakeCalls, TakeCall, TakeTypes, TakeSees
  <2> QED BY <2>1, BoundsAssumption
<1>3. r \in LT!Row
  BY <1>2 DEF LT!Row
<1> HIDE DEF r
<1>4. TakeKept(h)
  BY <1>3, KeptRecorded DEF TakeTypes, TakeSees
<1> HIDE DEF h
<1>5. TakeSees(ui')
  BY <1>1, <1>2, <1>4 DEF TakeSees, TakeRefsOf
<1>6. Fit(calls', MaxCalls)
  BY <1>1, FewerFit, MaxCallsAssumption DEF TakeTypes
<1> QED BY <1>1, <1>4, <1>5, <1>6 DEF TakeTypes

LEMMA TakeTypesKeep == ASSUME TakeInv, TakeTypes, [LT!Next]_(LT!vars) PROVE TakeTypes'
<1>0. /\ Fit(calls, MaxCalls) /\ srv.sdk \in {"unloaded", "ready", "broken"}
      /\ srv.stored = Nothing \/ TakeKept(srv.stored)
      /\ TakeSees(ui)
  BY DEF TakeTypes
<1>a. /\ MaxCalls \in Nat /\ ui \in TakeRefsOf(ui)
      /\ srv \in [stored : {srv.stored}, sdk : {srv.sdk}]
  BY MaxCallsAssumption DEF TakeInv, TakeRefs
<1>b. ASSUME NEW u \in {LT!Spins(ui, "submitting"), LT!Spins(ui, "testing"), LT!Stops(ui, "submitting"),
                        LT!Stops(ui, "testing")}
      PROVE  u \in TakeRefsOf(u) /\ TakeSees(u) /\ u.attempts = ui.attempts /\ u.password = ui.password
  BY <1>0, <1>a DEF TakeRefsOf, TakeSees, LT!Spins, LT!Stops
<1>c. ASSUME NEW busy \in LT!Popups \union {Nothing}
      PROVE  LET u == [ui EXCEPT !.oauthBusy = busy]
             IN u \in TakeRefsOf(u) /\ TakeSees(u) /\ u.attempts = ui.attempts
  BY <1>0, <1>a DEF TakeRefsOf, TakeSees
<1>d. ASSUME NEW op, NEW arg, Cardinality(calls) + 1 <= MaxCalls, calls' = Adding(MaxCalls, calls, op, arg)
      PROVE  Fit(calls', MaxCalls)
  BY <1>0, <1>a, <1>d, SentFits
<1>1. ASSUME NEW op, NEW arg, NEW u, u \in TakeRefsOf(u), TakeSees(u), u.attempts = ui.attempts,
             LT!Attempt(op, arg, u)
      PROVE  TakeTypes'
  <2>1. /\ ui.attempts < MaxAttempts /\ Cardinality(calls) + 1 <= MaxCalls
        /\ ui' = [u EXCEPT !.attempts = ui.attempts + 1] /\ srv' = srv
    BY <1>1, TakeShares DEF LT!Attempt
  <2>2. ui.attempts + 1 \in 0 .. MaxAttempts
    BY <1>0, <2>1, BoundsAssumption DEF TakeSees
  <2>3. TakeSees(ui')
    BY <1>1, <2>1, <2>2 DEF TakeSees, TakeRefsOf
  <2>4. PICK args : calls' = Adding(MaxCalls, calls, op, args)
    BY <1>1, TakeShares DEF LT!Attempt
  <2>5. Fit(calls', MaxCalls)
    BY <1>d, <2>1, <2>4
  <2> QED BY <1>0, <2>1, <2>3, <2>5 DEF TakeTypes
<1>2. CASE LT!TypePassword
  <2>1. TakeSees([ui EXCEPT !.password = TRUE])
    BY <1>0, <1>a DEF TakeSees, TakeRefsOf
  <2> QED BY <1>0, <1>2, <2>1 DEF LT!TypePassword, TakeTypes
<1>3. CASE LT!OnEmailLogin
  BY <1>1, <1>3, <1>b DEF LT!OnEmailLogin
<1>4. ASSUME NEW p \in LT!Popups, LT!OnOAuth(p) PROVE TakeTypes'
  BY <1>1, <1>4, <1>c DEF LT!OnOAuth
<1>5. CASE LT!OnTestProxy
  <2>1. /\ Cardinality(calls) + 1 <= MaxCalls /\ ui' = LT!Spins(ui, "testing") /\ srv' = srv
    BY <1>5, TakeShares DEF LT!OnTestProxy
  <2>2. PICK op, arg : calls' = Adding(MaxCalls, calls, op, arg)
    BY <1>5, TakeShares DEF LT!OnTestProxy
  <2>3. Fit(calls', MaxCalls)
    BY <1>d, <2>1, <2>2
  <2> QED BY <1>0, <1>b, <2>1, <2>3 DEF TakeTypes
<1>6. CASE LT!Leave
  <2>1. TakeSees([ui EXCEPT !.mounted = FALSE])
    BY <1>0, <1>a DEF TakeSees, TakeRefsOf
  <2> QED BY <1>0, <1>6, <2>1 DEF LT!Leave, TakeTypes
<1> DEFINE idle == [ui EXCEPT !.oauthBusy = Nothing]
<1>7. idle \in TakeRefsOf(idle) /\ TakeSees(idle)
  BY <1>c
<1>8. ASSUME NEW c \in calls, LT!PopupDone(c) PROVE TakeTypes'
  <2>1. ASSUME NEW sdk \in {"ready", "broken"}, LT!Ends(c, FALSE, idle, sdk) PROVE TakeTypes'
    <3>1. Takes(c)
      BY <1>8 DEF LT!PopupDone, Takes
    <3> HIDE DEF idle
    <3> QED BY <1>7, <2>1, <3>1, TakeEndsTyped
  <2>2. ASSUME NEW op, NEW arg, srv' = [srv EXCEPT !.sdk = "ready"],
               calls' = Adding(MaxCalls, calls \ {c}, op, arg), ui' = ui
        PROVE  TakeTypes'
    <3>1. Fit(calls', MaxCalls)
      BY <1>0, <1>a, <2>2, ReplacedFits
    <3>2. srv'.sdk = "ready" /\ srv'.stored = srv.stored
      BY <1>a, <2>2
    <3> QED BY <1>0, <2>2, <3>1, <3>2 DEF TakeTypes
  <2>3. \/ \E sdk \in {"ready", "broken"} : LT!Ends(c, FALSE, idle, sdk)
        \/ /\ srv' = [srv EXCEPT !.sdk = "ready"] /\ ui' = ui
           /\ calls' = Adding(MaxCalls, calls \ {c}, "oauth", c.arg)
    BY <1>8, TakeShares DEF LT!PopupDone
  <2> QED BY <2>1, <2>2, <2>3
<1>9. ASSUME NEW c \in calls, LT!Serve(c) PROVE TakeTypes'
  <2>1. PICK a : calls' = Replied(c, a)
    BY <1>9, TakeShares DEF LT!Serve
  <2>2. Fit(calls', MaxCalls)
    BY <1>0, <1>a, <2>1, RepliedFits
  <2> QED BY <1>0, <1>9, <2>2 DEF LT!Serve, TakeTypes
<1>10. ASSUME NEW c \in calls, NEW ok \in BOOLEAN, c.op \in {"login", "oauth"},
              LT!Ends(c, ok, LT!After(c, ok), srv.sdk)
       PROVE  TakeTypes'
  <2> DEFINE u == LT!After(c, ok)
  <2>1. Takes(c)
    BY <1>10 DEF Takes
  <2>2. u \in TakeRefsOf(u) /\ TakeSees(u)
    <3>1. CASE c.op = "login"
      <4>1. PICK v : v = LT!Stops(ui, "submitting")
        OBVIOUS
      <4>2. v \in TakeRefsOf(v) /\ TakeSees(v)
        BY <1>b, <4>1
      <4>3. u = [v EXCEPT !.password = v.password /\ ~ok]
        BY <3>1, <4>1 DEF LT!After
      <4> HIDE DEF u
      <4> QED BY <4>2, <4>3 DEF TakeRefsOf, TakeSees
    <3>2. CASE c.op # "login"
      BY <1>7, <3>2 DEF LT!After
    <3> QED BY <3>1, <3>2
  <2> HIDE DEF u
  <2> QED BY <1>0, <1>10, <2>1, <2>2, TakeEndsTyped DEF u
<1>11. ASSUME NEW c \in calls, ui' = LT!Stops(ui, "testing"), calls' = calls \ {c}, srv' = srv
       PROVE  TakeTypes'
  <2>1. Fit(calls', MaxCalls)
    BY <1>0, <1>a, <1>11, FewerFit
  <2>2. TakeSees(LT!Stops(ui, "testing"))
    BY <1>b
  <2> QED BY <1>0, <1>11, <2>1, <2>2 DEF TakeTypes
<1>12. ASSUME NEW c \in calls, LT!Answered(c) PROVE TakeTypes'
  <2>1. CASE LT!LoginEnds(c)
    <3>1. c.answer[1] \in BOOLEAN
      BY <2>1 DEF LT!LoginEnds, LT!Heard, TakeInv, TakeCalls, TakeCall
    <3> QED BY <1>10, <2>1, <3>1 DEF LT!LoginEnds
  <2>2. CASE LT!Tested(c)
    BY <1>11, <2>2 DEF LT!Tested
  <2> QED BY <1>12, <2>1, <2>2 DEF LT!Answered
<1>13. ASSUME NEW c \in calls, LT!Fails(c) PROVE TakeTypes'
  BY <1>10, <1>11, <1>13 DEF LT!Fails
<1>14. CASE UNCHANGED LT!vars
  BY <1>0, <1>14 DEF LT!vars, TakeTypes
<1> QED
  BY <1>2, <1>3, <1>4, <1>5, <1>6, <1>8, <1>9, <1>12, <1>13, <1>14
  DEF LT!Next, LT!Operator, LT!Faults, LT!Step

LEMMA TakeTyped == ASSUME TakeTypes PROVE LT!TypeOK
<1>1. LT!CallsOK
  BY TakeShares, FittingCalls, MaxCallsAssumption, SMTT(30) DEF TakeTypes
<1> QED BY <1>1 DEF TakeTypes, TakeSees, TakeKept, LT!TypeOK

-----------------------------------------------------------------------------
(* Models.vue: a policy on the way in either direction is a policy.         *)

PolicyCall(c) ==
  /\ c.op \in {"load", "put", "add", "remove"}
  /\ c.state = "answered" => c.answer \in MV!Policy
  /\ c.op = "put" => c.arg[1] \in MV!Modes /\ c.arg[2] \in SUBSET Models
  /\ c.op = "add" => c.arg[1] \in Models
PolicyTypedRefs == [mounted : {TRUE}, busy : SUBSET {"loading"}, config : MV!Policy, careful : BOOLEAN]

PolicyTypes ==
  /\ Fit(calls, MaxCalls) /\ \A c \in calls : PolicyCall(c)
  /\ srv \in MV!Policy
  /\ ui.mounted => ui \in PolicyTypedRefs

LEMMA PolicyShares ==
  /\ \A cs, op, arg : MV!Sending(cs, op, arg) = Adding(MaxCalls, cs, op, arg)
  /\ \A c, a : MV!Replied(c, a) = Replied(c, a)
  /\ \A c : MV!GivenUp(c) = GivenUp(c)
  /\ \A k : MV!Room(k) <=> Cardinality(calls) + k <= MaxCalls
  /\ \A u : MV!Shows(u) <=> Shows(u)
  /\ MV!CallsOK <=> CallsAre(MaxCalls)
<1>1. ASSUME NEW S PROVE MV!Cardinality(S) = Cardinality(S)
  BY Zenon DEF MV!Cardinality, Cardinality
<1> QED
  BY <1>1 DEF MV!Sending, Adding, MV!Slots, MV!Replied, Replied, MV!GivenUp, GivenUp, MV!Reads, Reads,
    MV!Room, MV!CallsOK, CallsAre, MV!Shows, Shows

LEMMA PolicyTypesStart == MV!Init => PolicyTypes
<1> SUFFICES ASSUME MV!Init PROVE PolicyTypes
  OBVIOUS
<1>1. calls = Adding(MaxCalls, {}, "load", MV!NoArg)
  BY PolicyShares DEF MV!Init
<1>2. MaxCalls \in Nat /\ 0 + 1 <= MaxCalls
  BY MaxCallsAssumption
<1>3. Fit(calls, MaxCalls) /\ \A c \in calls : c.op = "load" /\ c.state = "sent"
  BY <1>1, <1>2, NoneFits, SentFits
<1> QED BY <1>3 DEF MV!Init, PolicyTypes, PolicyCall, PolicyTypedRefs, MV!Policy, MV!Modes

LEMMA PolicyTypesKeep == ASSUME PolicyTypes, [MV!Next]_(MV!vars) PROVE PolicyTypes'
<1>0. /\ Fit(calls, MaxCalls) /\ \A c \in calls : PolicyCall(c)
      /\ srv \in MV!Policy /\ (ui.mounted => ui \in PolicyTypedRefs)
  BY DEF PolicyTypes
<1>a. MaxCalls \in Nat
  BY MaxCallsAssumption
<1>b. ASSUME NEW u \in PolicyTypedRefs
      PROVE  /\ MV!Spins(u, "loading") \in PolicyTypedRefs /\ MV!Stops(u, "loading") \in PolicyTypedRefs
             /\ MV!Careful(u) \in PolicyTypedRefs /\ MV!Careless(u) \in PolicyTypedRefs
  BY DEF PolicyTypedRefs, MV!Spins, MV!Stops, MV!Careful, MV!Careless
<1>c. ASSUME NEW op, NEW arg, Cardinality(calls) + 1 <= MaxCalls, calls' = Adding(MaxCalls, calls, op, arg),
             srv' = srv, ui' \in PolicyTypedRefs,
             \A d : d.op = op /\ d.arg = arg /\ d.state = "sent" => PolicyCall(d)
      PROVE  PolicyTypes'
  <2>1. Fit(calls', MaxCalls) /\ \A d \in calls' : PolicyCall(d)
    BY <1>0, <1>a, <1>c, SentFits
  <2> QED BY <1>0, <1>c, <2>1 DEF PolicyTypes
<1>d. ASSUME NEW c \in calls
      PROVE  Fit(calls \ {c}, MaxCalls) /\ \A d \in calls \ {c} : PolicyCall(d)
  BY <1>0, <1>a, FewerFit
<1>1. CASE MV!Refresh
  <2>1. \A d : d.op = "load" /\ d.state = "sent" => PolicyCall(d)
    BY DEF PolicyCall
  <2>2. ui' \in PolicyTypedRefs
    BY <1>0, <1>b, <1>1 DEF MV!Refresh
  <2> QED BY <1>1, <1>c, <2>1, <2>2, PolicyShares DEF MV!Refresh
<1>2. CASE \E m \in MV!Modes : MV!OnModeChange(m)
  <2>1. PICK m \in MV!Modes : ui.mounted /\ MV!Clicks("put", <<m, ui.config.list>>)
    BY <1>2 DEF MV!OnModeChange
  <2>2. ui.config.list \in SUBSET Models
    BY <1>0, <2>1 DEF PolicyTypedRefs, MV!Policy
  <2>3. \A d : d.op = "put" /\ d.arg = <<m, ui.config.list>> /\ d.state = "sent" => PolicyCall(d)
    BY <2>2 DEF PolicyCall
  <2>4. ui' \in PolicyTypedRefs
    BY <1>0, <1>b, <2>1 DEF MV!Clicks
  <2> QED BY <1>c, <2>1, <2>3, <2>4, PolicyShares DEF MV!Clicks
<1>3. CASE \E m \in Models : MV!Toggle(m)
  <2>1. PICK m \in Models : ui.mounted /\ \E op \in {"remove", "add"} : MV!Clicks(op, <<m>>)
    BY <1>3 DEF MV!Toggle
  <2>2. PICK op \in {"remove", "add"} : MV!Clicks(op, <<m>>)
    BY <2>1
  <2>3. \A d : d.op = op /\ d.arg = <<m>> /\ d.state = "sent" => PolicyCall(d)
    BY DEF PolicyCall
  <2>4. ui' \in PolicyTypedRefs
    BY <1>0, <1>b, <2>1, <2>2 DEF MV!Clicks
  <2> QED BY <1>c, <2>2, <2>3, <2>4, PolicyShares DEF MV!Clicks
<1>4. CASE MV!Leave
  BY <1>0, <1>4 DEF MV!Leave, PolicyTypes
<1>5. CASE MV!Elsewhere
  BY <1>0, <1>b, <1>5 DEF MV!Elsewhere, PolicyTypes
<1>6. ASSUME NEW c \in calls, MV!Serve(c) PROVE PolicyTypes'
  <2>1. srv' \in MV!Policy
    <3>1. srv' = CASE c.op = "put" -> [mode |-> c.arg[1], list |-> c.arg[2]]
                   [] c.op = "add" -> [srv EXCEPT !.list = @ \union {c.arg[1]}]
                   [] c.op = "remove" -> [srv EXCEPT !.list = @ \ {c.arg[1]}]
                   [] OTHER -> srv
      BY <1>6 DEF MV!Serve
    <3> QED BY <1>0, <3>1 DEF PolicyCall, MV!Policy
  <2>2. calls' = Replied(c, srv')
    BY <1>6, PolicyShares DEF MV!Serve
  <2>3. /\ Fit(calls', MaxCalls)
        /\ \A d \in calls' : d \in calls \/ (d.op = c.op /\ d.arg = c.arg /\ d.answer = srv')
    BY <1>0, <1>a, <2>2, RepliedFits
  <2>4. \A d \in calls' : PolicyCall(d)
    BY <1>0, <2>1, <2>3 DEF PolicyCall
  <2> QED BY <1>0, <1>6, <2>1, <2>3, <2>4 DEF MV!Serve, PolicyTypes
<1>7. ASSUME NEW c \in calls, MV!Answered(c) PROVE PolicyTypes'
  <2>1. c.answer \in MV!Policy
    BY <1>0, <1>7 DEF MV!Answered, MV!Heard, PolicyCall
  <2>2. ASSUME ui \in PolicyTypedRefs PROVE MV!Adopted(c) \in PolicyTypedRefs
    BY <2>1, <2>2 DEF MV!Adopted, MV!Stops, PolicyTypedRefs
  <2>3. Shows(MV!Adopted(c))
    BY <1>7, PolicyShares DEF MV!Answered
  <2>4. ui'.mounted => ui' \in PolicyTypedRefs
    BY <1>0, <2>2, <2>3, ShownStays, SMTT(30)
  <2> QED BY <1>0, <1>d, <1>7, <2>4 DEF MV!Answered, PolicyTypes
<1>8. ASSUME NEW c \in calls, MV!Fails(c) PROVE PolicyTypes'
  <2>1. PICK u : Shows(u) /\ (u = MV!Careless(ui) \/ u = MV!Careless(MV!Stops(ui, "loading")))
    BY <1>8, PolicyShares DEF MV!Fails
  <2>2. ui \in PolicyTypedRefs => u \in PolicyTypedRefs
    BY <1>b, <2>1
  <2>3. ui'.mounted => ui' \in PolicyTypedRefs
    BY <1>0, <2>1, <2>2, ShownStays
  <2>4. calls' = GivenUp(c) /\ srv' = srv
    BY <1>8, PolicyShares, ZenonT(30) DEF MV!Fails
  <2>5. /\ Fit(calls', MaxCalls)
        /\ \A d \in calls' : d \in calls \/ (d.op = c.op /\ d.arg = c.arg /\ d.state = "given up")
    BY <1>0, <1>a, <2>4, GivenUpFits
  <2>6. \A d \in calls' : PolicyCall(d)
    BY <1>0, <2>5 DEF PolicyCall
  <2> QED BY <1>0, <2>3, <2>4, <2>5, <2>6 DEF PolicyTypes
<1>9. ASSUME NEW c \in calls, MV!Vanish(c) PROVE PolicyTypes'
  BY <1>0, <1>d, <1>9 DEF MV!Vanish, PolicyTypes
<1>10. CASE UNCHANGED MV!vars
  BY <1>0, <1>10 DEF MV!vars, PolicyTypes
<1> QED
  BY <1>1, <1>2, <1>3, <1>4, <1>5, <1>6, <1>7, <1>8, <1>9, <1>10
  DEF MV!Next, MV!Operator, MV!Faults, MV!Step

LEMMA PolicyTyped == ASSUME PolicyTypes PROVE MV!TypeOK
<1>1. MV!CallsOK
  BY PolicyShares, FittingCalls, MaxCallsAssumption DEF PolicyTypes
<1> QED BY <1>1 DEF PolicyTypes, PolicyTypedRefs, MV!TypeOK

-----------------------------------------------------------------------------
(* Proxy.vue: no field the server encodes and no map it answers with has a  *)
(* name the view reads, so the form the view shows is one the operator      *)
(* filled in or the bare one, and the table of the bindings is empty.       *)

ProxySent(spec) == spec \in PV!Forms \ {PV!Bare}
ProxyAnswer(a) == a = [global |-> a.global, perAccount |-> a.perAccount] /\ PV!Read(a.global) = {}
ProxyCall(c) ==
  /\ c.op \in {"load", "global"} /\ c.state = "answered" => ProxyAnswer(c.answer)
  /\ c.op \in {"global", "account"} => ProxySent(c.arg[1])
  /\ c.op = "account" => c.arg[2] \in Accounts

ProxyFlags == {"loading", "testing", "perAccountTesting"}
ProxyBinding == [id : Accounts \union {Nothing}, spec : PV!Forms]
ProxyRefs ==
  [mounted : {TRUE}, busy : SUBSET ProxyFlags, cfg : [global : {{}}, accounts : {{}}],
   accounts : SUBSET Accounts, form : PV!Forms,
   perAccount : ProxyBinding]

ProxyServer == srv \in [global : PV!Specs, bound : {srv.bound}] /\ DOMAIN srv.bound \subseteq Accounts
ProxyTypes ==
  /\ Fit(calls, MaxCalls) /\ \A c \in calls : ProxyCall(c)
  /\ ProxyServer
  /\ ui.mounted => ui \in ProxyRefs

LEMMA ProxyShares ==
  /\ \A cs, op, arg : PV!Sending(cs, op, arg) = Adding(MaxCalls, cs, op, arg)
  /\ \A c, a : PV!Replied(c, a) = Replied(c, a)
  /\ \A c : PV!GivenUp(c) = GivenUp(c)
  /\ \A k : PV!Room(k) <=> Cardinality(calls) + k <= MaxCalls
  /\ \A u : PV!Shows(u) <=> Shows(u)
  /\ PV!CallsOK <=> CallsAre(MaxCalls)
<1>1. ASSUME NEW S PROVE PV!Cardinality(S) = Cardinality(S)
  BY Zenon DEF PV!Cardinality, Cardinality
<1> QED
  BY <1>1 DEF PV!Sending, Adding, PV!Slots, PV!Replied, Replied, PV!GivenUp, GivenUp, PV!Reads, Reads,
    PV!Room, PV!CallsOK, CallsAre, PV!Shows, Shows

LEMMA ProxyStart == PV!Init => ProxyTypes
<1> SUFFICES ASSUME PV!Init PROVE ProxyTypes
  OBVIOUS
<1>1. calls = Adding(MaxCalls, {}, "load", PV!NoArg)
  BY ProxyShares DEF PV!Init
<1>2. MaxCalls \in Nat /\ 0 + 1 <= MaxCalls
  BY MaxCallsAssumption
<1>3. Fit(calls, MaxCalls) /\ \A c \in calls : c.op = "load" /\ c.state = "sent"
  BY <1>1, <1>2, NoneFits, SentFits
<1>4. ProxyServer
  <2>1. PICK g \in PV!Specs, B \in SUBSET Accounts :
          srv = [global |-> g, bound |-> [a \in B |-> PV!Decode(PV!Filled)]]
    BY DEF PV!Init
  <2> QED BY <2>1 DEF ProxyServer
<1>5. ui \in ProxyRefs
  BY DEF PV!Init, ProxyRefs, ProxyBinding, ProxyFlags, PV!Forms
<1> QED BY <1>3, <1>4, <1>5 DEF ProxyTypes, ProxyCall

\* What the server encodes, the view does not read.
LEMMA ProxyEncodes ==
  ASSUME NEW spec \in PV!Specs
  PROVE  PV!Read(PV!Encode(spec)) = {}
<1>1. spec \subseteq PV!Decoded
  BY DEF PV!Specs, PV!Decode
<1>2. \A f \in PV!Decoded : PV!GoName[f] \notin PV!Typed
  BY DEF PV!Decoded, PV!GoName, PV!Typed
<1> QED BY <1>1, <1>2 DEF PV!Encode, PV!Read

\* A form that can be sent is one of those filled in.
LEMMA ProxyComplete ==
  ASSUME NEW f \in PV!Forms, PV!Complete(f)
  PROVE  ProxySent(f)
  BY DEF PV!Complete, PV!Forms, PV!Bare, ProxySent

LEMMA ProxyConfig ==
  ASSUME NEW a, ProxyAnswer(a)
  PROVE  PV!Config(a) = [global |-> {}, accounts |-> {}]
<1>1. DOMAIN a = {"global", "perAccount"}
  BY DEF ProxyAnswer
<1>2. "accounts" \notin DOMAIN a
  BY <1>1
<1> QED BY <1>2 DEF ProxyAnswer, PV!Config

LEMMA ProxyServes ==
  ASSUME ProxyTypes, NEW c \in calls, PV!Serve(c)
  PROVE  ProxyServer' /\ ProxyAnswer(PV!Snapshot')
<1>0. ProxyServer /\ ProxyCall(c)
  BY DEF ProxyTypes
<1>1. ASSUME NEW spec, ProxySent(spec) PROVE PV!Decode(spec) \in PV!Specs
  BY <1>1 DEF ProxySent, PV!Specs
<1>2. ProxyServer'
  <2>1. CASE c.op = "global"
    <3>1. srv' = [srv EXCEPT !.global = PV!Decode(c.arg[1])]
      BY <2>1 DEF PV!Serve
    <3> QED BY <1>0, <1>1, <2>1, <3>1 DEF ProxyServer, ProxyCall
  <2>2. CASE c.op = "clear global"
    <3>1. srv' = [srv EXCEPT !.global = {}]
      BY <2>2 DEF PV!Serve
    <3> QED BY <1>0, <3>1 DEF ProxyServer, PV!Specs
  <2>3. CASE c.op = "account"
    <3>1. PICK b : b = PV!Bind(c.arg[2], PV!Decode(c.arg[1])) /\ srv' = [srv EXCEPT !.bound = b]
      BY <2>3 DEF PV!Serve
    <3>2. DOMAIN b \subseteq Accounts
      BY <1>0, <2>3, <3>1 DEF PV!Bind, ProxyServer, ProxyCall
    <3> QED BY <1>0, <3>1, <3>2 DEF ProxyServer
  <2>4. CASE c.op \notin {"global", "clear global", "account"}
    BY <1>0, <2>4 DEF PV!Serve, ProxyServer
  <2> QED BY <2>1, <2>2, <2>3, <2>4
<1>3. ProxyAnswer(PV!Snapshot')
  <2>1. PICK bound : PV!Snapshot' = [global |-> PV!Encode(srv'.global), perAccount |-> bound]
    BY DEF PV!Snapshot
  <2>2. PV!Read(PV!Encode(srv'.global)) = {}
    BY <1>2, ProxyEncodes DEF ProxyServer
  <2> QED BY <2>1, <2>2 DEF ProxyAnswer
<1> QED BY <1>2, <1>3

LEMMA ProxyKeep == ASSUME ProxyTypes, [PV!Next]_(PV!vars) PROVE ProxyTypes'
<1>0. /\ Fit(calls, MaxCalls) /\ \A c \in calls : ProxyCall(c)
      /\ ProxyServer /\ (ui.mounted => ui \in ProxyRefs)
  BY DEF ProxyTypes
<1>a. MaxCalls \in Nat
  BY MaxCallsAssumption
<1>b. ASSUME NEW u \in ProxyRefs, NEW flag \in ProxyFlags
      PROVE  PV!Spins(u, flag) \in ProxyRefs /\ PV!Stops(u, flag) \in ProxyRefs
  BY DEF ProxyRefs, PV!Spins, PV!Stops
<1>c. ASSUME NEW op, NEW arg, PV!Clicks(op, arg), ui' \in ProxyRefs,
             \A d : d.op = op /\ d.arg = arg /\ d.state = "sent" => ProxyCall(d)
      PROVE  ProxyTypes'
  <2>1. Cardinality(calls) + 1 <= MaxCalls /\ calls' = Adding(MaxCalls, calls, op, arg) /\ srv' = srv
    BY <1>c, ProxyShares DEF PV!Clicks
  <2>2. Fit(calls', MaxCalls) /\ \A d \in calls' : ProxyCall(d)
    BY <1>0, <1>a, <1>c, <2>1, SentFits
  <2> QED BY <1>0, <1>c, <2>1, <2>2 DEF ProxyTypes, ProxyServer
<1>d. ASSUME NEW c \in calls
      PROVE  Fit(calls \ {c}, MaxCalls) /\ \A d \in calls \ {c} : ProxyCall(d)
  BY <1>0, <1>a, FewerFit
<1>e. ASSUME NEW op \in {"load", "clear global", "testing", "perAccountTesting"}, NEW d,
             d.op = op, d.state = "sent"
      PROVE  ProxyCall(d)
  BY <1>e DEF ProxyCall
<1>f. "loading" \in ProxyFlags /\ PV!Tests \subseteq ProxyFlags
  BY DEF ProxyFlags, PV!Tests
<1>1. CASE PV!Refresh
  BY <1>0, <1>1, <1>b, <1>c, <1>e, <1>f DEF PV!Refresh
<1>2. CASE PV!OnClearGlobal
  <2>1. ui.mounted /\ ui' = ui /\ PV!Clicks("clear global", PV!NoArg)
    BY <1>2 DEF PV!OnClearGlobal, PV!Clicks
  <2> QED BY <1>0, <1>c, <1>e, <2>1
<1>3. CASE PV!OnTest \/ PV!OnTestAccountProxy
  <2>1. PICK flag \in PV!Tests : ui.mounted /\ PV!Clicks(flag, PV!NoArg) /\ ui' = PV!Spins(ui, flag)
    BY <1>3 DEF PV!OnTest, PV!OnTestAccountProxy, PV!Test, PV!Tests
  <2>2. flag \in {"load", "clear global", "testing", "perAccountTesting"} /\ flag \in ProxyFlags
    BY <1>f DEF PV!Tests
  <2> QED BY <1>0, <1>b, <1>c, <1>e, <2>1, <2>2
<1>4. CASE PV!OnSave
  <2>1. ui.mounted /\ PV!Complete(ui.form) /\ PV!Clicks("global", <<ui.form>>) /\ ui' = ui
    BY <1>4 DEF PV!OnSave
  <2>2. ProxySent(ui.form)
    BY <1>0, <2>1, ProxyComplete DEF ProxyRefs
  <2>3. \A d : d.op = "global" /\ d.arg = <<ui.form>> /\ d.state = "sent" => ProxyCall(d)
    BY <2>2 DEF ProxyCall
  <2> QED BY <1>0, <1>c, <2>1, <2>3
<1>5. CASE PV!OnAddAccountProxy
  <2>1. PICK f, a : /\ ui.mounted /\ PV!Complete(f) /\ PV!Clicks("account", <<f, a>>) /\ ui' = ui
                    /\ f = ui.perAccount.spec /\ a = ui.perAccount.id /\ a # Nothing
    BY <1>5 DEF PV!OnAddAccountProxy
  <2>2. f \in PV!Forms /\ a \in Accounts
    BY <1>0, <2>1 DEF ProxyRefs, ProxyBinding
  <2>3. \A d : d.op = "account" /\ d.arg = <<f, a>> /\ d.state = "sent" => ProxyCall(d)
    BY <2>1, <2>2, ProxyComplete DEF ProxyCall
  <2> QED BY <1>0, <1>c, <2>1, <2>3
<1>6. ASSUME NEW f \in PV!Forms, PV!FillGlobal(f) \/ \E a \in Accounts : PV!FillAccount(a, f)
      PROVE  ProxyTypes'
  <2>1. ui' \in ProxyRefs
    <3>1. CASE PV!FillGlobal(f)
      BY <1>0, <3>1 DEF PV!FillGlobal, ProxyRefs
    <3>2. ASSUME NEW a \in Accounts, PV!FillAccount(a, f) PROVE ui' \in ProxyRefs
      <4>1. PICK p \in ProxyBinding : p = [id |-> a, spec |-> f]
        BY DEF ProxyBinding
      <4>2. ui' = [ui EXCEPT !.perAccount = p] /\ ui \in ProxyRefs
        BY <1>0, <3>2, <4>1 DEF PV!FillAccount
      <4> QED BY <4>2 DEF ProxyRefs
    <3> QED BY <1>6, <3>1, <3>2
  <2> QED BY <1>0, <1>6, <2>1 DEF PV!FillGlobal, PV!FillAccount, ProxyTypes, ProxyServer
<1>7. CASE PV!Leave
  BY <1>0, <1>7 DEF PV!Leave, ProxyTypes, ProxyServer
<1>8. ASSUME NEW c \in calls, PV!Serve(c) PROVE ProxyTypes'
  <2>1. PICK a : calls' = Replied(c, a) /\ (c.op \in {"load", "global"} => a = PV!Snapshot')
    BY <1>8, ProxyShares DEF PV!Serve
  <2>2. /\ Fit(calls', MaxCalls)
        /\ \A d \in calls' : d \in calls \/ (d.op = c.op /\ d.arg = c.arg /\ d.answer = a)
    BY <1>0, <1>a, <2>1, RepliedFits
  <2>3. ProxyServer' /\ ProxyAnswer(PV!Snapshot')
    BY <1>8, ProxyServes
  <2>4. \A d \in calls' : ProxyCall(d)
    BY <1>0, <2>1, <2>2, <2>3 DEF ProxyCall
  <2> QED BY <1>0, <1>8, <2>2, <2>3, <2>4 DEF PV!Serve, ProxyTypes
<1>9. ASSUME NEW c \in calls, PV!Loaded(c) \/ PV!Saved(c) PROVE ProxyTypes'
  <2>1. PV!Config(c.answer) = [global |-> {}, accounts |-> {}]
    BY <1>0, <1>9, ProxyConfig DEF PV!Loaded, PV!Saved, PV!Heard, ProxyCall
  <2>2. {} \union PV!Bare = PV!Bare /\ PV!Bare \in PV!Forms
    BY DEF PV!Forms
  <2>3. PICK u : /\ Shows(u)
                 /\ \/ u = [PV!Stops(ui, "loading") EXCEPT !.cfg = PV!Config(c.answer), !.accounts = Accounts,
                                !.form = PV!Config(c.answer).global \union PV!Bare]
                    \/ u = [ui EXCEPT !.cfg = PV!Config(c.answer)]
    BY <1>9, ProxyShares DEF PV!Loaded, PV!Saved
  <2>4. ui \in ProxyRefs => u \in ProxyRefs
    <3>1. PICK cfg \in [global : {{}}, accounts : {{}}] : cfg = PV!Config(c.answer)
      BY <2>1
    <3>2. PV!Config(c.answer).global = {}
      BY <2>1
    <3>3. CASE u = [PV!Stops(ui, "loading") EXCEPT !.cfg = cfg, !.accounts = Accounts, !.form = PV!Bare]
      <4>1. PICK v : v = PV!Stops(ui, "loading") /\ (ui \in ProxyRefs => v \in ProxyRefs)
        BY <1>b, <1>f
      <4>2. u = [v EXCEPT !.cfg = cfg, !.accounts = Accounts, !.form = PV!Bare]
        BY <3>3, <4>1
      <4> QED BY <2>2, <4>1, <4>2 DEF ProxyRefs
    <3>4. CASE u = [ui EXCEPT !.cfg = cfg]
      BY <3>4 DEF ProxyRefs
    <3> QED BY <2>2, <2>3, <3>1, <3>2, <3>3, <3>4
  <2>5. ui'.mounted => ui' \in ProxyRefs
    BY <1>0, <2>3, <2>4, ShownStays
  <2> QED BY <1>0, <1>d, <1>9, <2>5 DEF PV!Loaded, PV!Saved, ProxyTypes, ProxyServer
<1>10. ASSUME NEW c \in calls, PV!Reloads(c) PROVE ProxyTypes'
  <2>1. PICK u, p : /\ Shows(u) /\ u = [PV!Spins(ui, "loading") EXCEPT !.perAccount = p]
                    /\ p = [id |-> Nothing, spec |-> PV!Bare] \/ p = PV!Spins(ui, "loading").perAccount
    BY <1>10, ProxyShares DEF PV!Reloads
  <2>2. ASSUME ui \in ProxyRefs PROVE u \in ProxyRefs
    <3>1. PV!Spins(ui, "loading") \in ProxyRefs
      BY <1>b, <1>f, <2>2
    <3>2. [id |-> Nothing, spec |-> PV!Bare] \in ProxyBinding
      BY DEF ProxyBinding, PV!Forms
    <3>3. p \in ProxyBinding
      BY <2>1, <3>1, <3>2 DEF ProxyRefs
    <3>4. PICK v \in ProxyRefs : u = [v EXCEPT !.perAccount = p]
      BY <2>1, <3>1
    <3> QED BY <3>3, <3>4 DEF ProxyRefs
  <2>3. ui'.mounted => ui' \in ProxyRefs
    BY <1>0, <2>1, <2>2, ShownStays
  <2>4. calls' = Adding(MaxCalls, calls \ {c}, "load", PV!NoArg) /\ srv' = srv
    BY <1>10, ProxyShares DEF PV!Reloads
  <2>5. /\ Fit(calls', MaxCalls)
        /\ \A d \in calls' : d \in calls \/ (d.op = "load" /\ d.state = "sent")
    BY <1>0, <1>a, <2>4, ReplacedFits
  <2>6. \A d \in calls' : ProxyCall(d)
    BY <1>0, <1>e, <2>5
  <2> QED BY <1>0, <2>3, <2>4, <2>5, <2>6 DEF ProxyTypes, ProxyServer
<1>11. ASSUME NEW c \in calls, PV!Tested(c) PROVE ProxyTypes'
  <2>1. ui'.mounted => ui' \in ProxyRefs
    BY <1>0, <1>b, <1>f, <1>11, ProxyShares, ShownStays DEF PV!Tested
  <2> QED BY <1>0, <1>d, <1>11, <2>1 DEF PV!Tested, ProxyTypes, ProxyServer
<1>12. ASSUME NEW c \in calls, PV!Fails(c) PROVE ProxyTypes'
  <2>1. PICK u : Shows(u) /\ (u = ui \/ \E flag \in ProxyFlags : u = PV!Stops(ui, flag))
    BY <1>12, <1>f, ProxyShares DEF PV!Fails
  <2>2. ui \in ProxyRefs => u \in ProxyRefs
    BY <1>b, <2>1
  <2>3. ui'.mounted => ui' \in ProxyRefs
    BY <1>0, <2>1, <2>2, ShownStays
  <2>4. calls' = GivenUp(c) /\ srv' = srv
    BY <1>12, ProxyShares DEF PV!Fails
  <2>5. /\ Fit(calls', MaxCalls)
        /\ \A d \in calls' : d \in calls \/ (d.op = c.op /\ d.arg = c.arg /\ d.state = "given up")
    BY <1>0, <1>a, <2>4, GivenUpFits
  <2>6. \A d \in calls' : ProxyCall(d)
    BY <1>0, <2>5 DEF ProxyCall
  <2> QED BY <1>0, <2>3, <2>4, <2>5, <2>6 DEF ProxyTypes, ProxyServer
<1>13. ASSUME NEW c \in calls, PV!Vanish(c) PROVE ProxyTypes'
  BY <1>0, <1>d, <1>13 DEF PV!Vanish, ProxyTypes, ProxyServer
<1>14. CASE UNCHANGED PV!vars
  BY <1>0, <1>14 DEF PV!vars, ProxyTypes, ProxyServer
<1> QED
  BY <1>1, <1>2, <1>3, <1>4, <1>5, <1>6, <1>7, <1>8, <1>9, <1>10, <1>11, <1>12, <1>13, <1>14
  DEF PV!Next, PV!Operator, PV!Faults, PV!Step, PV!Answered

LEMMA ProxyTyped == ASSUME ProxyTypes PROVE PV!TypeOK
<1>1. PV!CallsOK
  BY ProxyShares, FittingCalls, MaxCallsAssumption DEF ProxyTypes
<1>2. \A f \in PV!Forms : f \in SUBSET PV!Typed
  BY DEF PV!Forms, PV!Bare, PV!Filled, PV!Typed
<1>3. ui \in ProxyRefs => PV!AccountRows = {}
  BY SMTT(30) DEF ProxyRefs, PV!AccountRows
<1> QED BY <1>1, <1>2, <1>3 DEF ProxyTypes, ProxyServer, ProxyRefs, ProxyBinding, ProxyFlags, PV!TypeOK

-----------------------------------------------------------------------------
(* Logs.vue and logx: what is listed, buffered and shown are entries that   *)
(* were logged, and no more of them than the ring, the channel and the view *)
(* hold.                                                                    *)

LogEntries(s, n) == s \in Seq(LV!Entries) /\ Len(s) <= n
LogListed(c) == c.state = "answered" => LogEntries(c.answer, RingCap)
LogStreams == {"none", "connecting", "open", "closed"}

LogTypes ==
  /\ Fit(calls, MaxCalls) /\ \A c \in calls : LogListed(c)
  /\ srv.logged <= MaxEntries
  /\ srv.handler # LV!Closed => Len(srv.handler.chan) <= Backlog
  /\ ui.stream \in LogStreams /\ LogEntries(ui.entries, MaxBuffer)

LEMMA LogShares ==
  /\ \A cs, op, arg : LV!Sending(cs, op, arg) = Adding(MaxCalls, cs, op, arg)
  /\ \A c, a : LV!Replied(c, a) = Replied(c, a)
  /\ \A c : LV!GivenUp(c) = GivenUp(c)
  /\ \A k : LV!Room(k) <=> Cardinality(calls) + k <= MaxCalls
  /\ \A u : LV!Shows(u) <=> Shows(u)
  /\ LV!CallsOK <=> CallsAre(MaxCalls)
<1>1. ASSUME NEW S PROVE LV!Cardinality(S) = Cardinality(S)
  BY Zenon DEF LV!Cardinality, Cardinality
<1> QED
  BY <1>1 DEF LV!Sending, Adding, LV!Slots, LV!Replied, Replied, LV!GivenUp, GivenUp, LV!Reads, Reads,
    LV!Room, LV!CallsOK, CallsAre, LV!Shows, Shows

LEMMA LatestTyped ==
  ASSUME NEW s \in Seq(LV!Entries), NEW n \in Nat
  PROVE  LogEntries(LV!Latest(s, n), n)
<1>1. PICK m : m = IF Len(s) > n THEN Len(s) - n + 1 ELSE 1
  OBVIOUS
<1>2. m \in 1 .. Len(s) + 1 /\ Len(s) \in Nat /\ Len(s) - m + 1 <= n
  BY <1>1
<1>3. \A i \in m .. Len(s) : s[i] \in LV!Entries
  BY <1>2
<1>4. /\ SubSeq(s, m, Len(s)) \in Seq(LV!Entries)
      /\ Len(SubSeq(s, m, Len(s))) = IF m <= Len(s) THEN Len(s) - m + 1 ELSE 0
  BY <1>2, <1>3, SubSeqProperties
<1>5. Len(SubSeq(s, m, Len(s))) <= n
  BY <1>2, <1>4
<1> QED BY <1>1, <1>4, <1>5 DEF LV!Latest, LogEntries

\* logx.Recent lists entries that were logged.
LEMMA RecentTyped ==
  ASSUME srv.logged \in Nat, srv.logged <= MaxEntries
  PROVE  LogEntries(LV!Recent(RingCap), RingCap)
<1>1. PICK s : s = [e \in 1 .. srv.logged |-> e]
  OBVIOUS
<1>2. s \in Seq(LV!Entries)
  <2>1. s \in [1 .. srv.logged -> LV!Entries]
    BY <1>1, BoundsAssumption DEF LV!Entries
  <2> QED BY <2>1
<1>3. LV!Recent(RingCap) = LV!Latest(s, RingCap)
  BY <1>1 DEF LV!Recent
<1> QED BY <1>2, <1>3, LatestTyped, RingFits

\* The view's buffer takes one more entry.
LEMMA PushTyped ==
  ASSUME NEW s, LogEntries(s, MaxBuffer), NEW e \in LV!Entries
  PROVE  LogEntries(LV!Push(s, e), MaxBuffer)
<1>1. Append(s, e) \in Seq(LV!Entries)
  BY DEF LogEntries
<1> QED BY <1>1, LatestTyped, RingFits DEF LV!Push

\* What holds of every element of two lists in a row holds of both.
LEMMA PartsTyped ==
  ASSUME NEW a \in Seq(Nat), NEW b \in Seq(Nat), NEW S, \A i \in 1 .. Len(a \o b) : (a \o b)[i] \in S
  PROVE  a \in Seq(S) /\ b \in Seq(S)
<1>1. PICK s : s = a \o b
  OBVIOUS
<1>2. /\ Len(s) = Len(a) + Len(b) /\ Len(a) \in Nat /\ Len(b) \in Nat
      /\ \A i \in 1 .. Len(a) + Len(b) : s[i] = IF i <= Len(a) THEN a[i] ELSE b[i - Len(a)]
  BY <1>1, ConcatProperties
<1>3. \A i \in 1 .. Len(s) : s[i] \in S
  BY <1>1
<1>4. ASSUME NEW i \in 1 .. Len(a) PROVE a[i] \in S
  <2>1. i \in 1 .. Len(s) /\ i <= Len(a)
    BY <1>2
  <2>2. s[i] = a[i]
    BY <1>2, <2>1
  <2> QED BY <1>3, <2>1, <2>2
<1>5. ASSUME NEW i \in 1 .. Len(b) PROVE b[i] \in S
  <2>1. PICK j \in 1 .. Len(s) : j = Len(a) + i
    BY <1>2
  <2>2. ~(j <= Len(a)) /\ j - Len(a) = i
    BY <1>2, <2>1
  <2>3. s[j] = b[i]
    BY <1>2, <2>1, <2>2
  <2> QED BY <1>3, <2>1, <2>3
<1>6. ASSUME NEW c \in Seq(Nat), \A i \in 1 .. Len(c) : c[i] \in S PROVE c \in Seq(S)
  <2>1. c \in [1 .. Len(c) -> S] /\ Len(c) \in Nat
    BY <1>6, SMTT(30)
  <2>2. PICK n \in Nat : c \in [1 .. n -> S]
    BY <2>1
  <2>3. c \in UNION {[1 .. m -> S] : m \in Nat}
    BY <2>2
  <2> QED BY ONLY <2>3, SeqDef, Zenon
<1> QED BY <1>4, <1>5, <1>6

\* What is under way was logged.
LEMMA WayTyped ==
  ASSUME LogInv, LogTypes
  PROVE  srv.wire \in Seq(LV!Entries) /\ Waiting(srv.handler) \in Seq(LV!Entries)
<1>1. srv.wire \in Seq(Nat) /\ Waiting(srv.handler) \in Seq(Nat)
  <2>1. CASE srv.handler = LV!Closed
    BY <2>1 DEF LogInv, LogRefs, Waiting
  <2>2. CASE srv.handler # LV!Closed
    BY <2>2 DEF LogInv, LogRefs, Waiting
  <2> QED BY <2>1, <2>2
<1>2. PICK s : s = srv.wire \o Waiting(srv.handler)
  OBVIOUS
<1>3. Follows(ui.seen, s, srv.logged) /\ ui.seen \in Nat /\ srv.logged \in Nat /\ srv.logged <= MaxEntries
  BY <1>2 DEF LogInv, LogRefs, LogStream, LogTypes
<1>4. \A i \in 1 .. Len(s) : s[i] \in LV!Entries
  <2>1. \A i \in 1 .. Len(s) : s[i] \in Nat /\ ui.seen < s[i] /\ s[i] <= srv.logged
    BY <1>3 DEF Follows
  <2> QED BY <1>3, <2>1, BoundsAssumption DEF LV!Entries
<1> QED BY <1>1, <1>2, <1>4, PartsTyped

LEMMA LogTypesStart == LV!Init => LogTypes
<1> SUFFICES ASSUME LV!Init PROVE LogTypes
  OBVIOUS
<1>1. calls = Adding(MaxCalls, {}, "load", LV!NoArg)
  BY LogShares DEF LV!Init
<1>2. MaxCalls \in Nat /\ 0 + 1 <= MaxCalls
  BY MaxCallsAssumption
<1>3. Fit(calls, MaxCalls) /\ \A c \in calls : c.state = "sent"
  BY <1>1, <1>2, NoneFits, SentFits
<1>4. srv.handler = LV!Closed /\ srv.logged \in 0 .. 1
  BY DEF LV!Init
<1>5. ui.entries = <<>> /\ ui.stream = "none"
  BY DEF LV!Init
<1>6. LogEntries(<<>>, MaxBuffer)
  BY RingFits DEF LogEntries
<1>7. srv.logged <= MaxEntries
  BY <1>4, BoundsAssumption
<1> QED BY <1>3, <1>4, <1>5, <1>6, <1>7 DEF LogTypes, LogListed, LogStreams

LEMMA LogTypesKeep == ASSUME LogInv, LogTypes, [LV!Next]_(LV!vars) PROVE LogTypes'
<1>0. /\ Fit(calls, MaxCalls) /\ \A c \in calls : LogListed(c)
      /\ srv.logged <= MaxEntries
      /\ srv.handler # LV!Closed => Len(srv.handler.chan) <= Backlog
      /\ ui.stream \in LogStreams /\ LogEntries(ui.entries, MaxBuffer)
  BY DEF LogTypes
<1>a. /\ MaxCalls \in Nat /\ srv.logged \in Nat
      /\ ui \in [mounted : {ui.mounted}, ticking : {ui.ticking}, busy : {ui.busy}, entries : {ui.entries},
                 stream : {ui.stream}, seen : Nat]
      /\ srv \in [logged : Nat, handler : {srv.handler}, wire : Seq(Nat)]
      /\ srv.handler = LV!Closed \/ srv.handler \in [at : {"replayed", "subscribed"}, chan : Seq(Nat)]
  BY MaxCallsAssumption DEF LogInv, LogRefs
<1>b. ASSUME NEW c \in calls
      PROVE  Fit(calls \ {c}, MaxCalls) /\ \A d \in calls \ {c} : LogListed(d)
  BY <1>0, <1>a, FewerFit
<1>c. LogEntries(<<>>, MaxBuffer) /\ RingCap <= MaxBuffer /\ RingCap \in Nat /\ MaxBuffer \in Nat
  BY RingFits DEF LogEntries
<1>d. ASSUME NEW c \in calls, NEW entries, LogEntries(entries, MaxBuffer), LV!Opens(entries),
             calls' = calls \ {c}, srv' = srv
      PROVE  LogTypes'
  <2>1. ui'.entries = entries /\ ui'.stream = "connecting"
    BY <1>a, <1>d DEF LV!Opens
  <2> QED BY <1>0, <1>b, <1>d, <2>1 DEF LogTypes, LogStreams
<1>1. CASE LV!ClearView
  <2>1. ui'.entries = <<>> /\ ui'.stream = ui.stream /\ srv' = srv /\ calls' = calls
    BY <1>a, <1>1 DEF LV!ClearView
  <2> QED BY <1>0, <1>c, <2>1 DEF LogTypes
<1>2. CASE LV!Leave
  <2>1. PICK stream \in LogStreams : ui' = [ui EXCEPT !.mounted = FALSE, !.stream = stream]
    BY <1>0, <1>2 DEF LV!Leave, LogStreams
  <2>2. ui'.entries = ui.entries /\ ui'.stream \in LogStreams
    BY <1>a, <2>1
  <2>3. srv'.handler = LV!Closed /\ srv'.logged = srv.logged /\ calls' = calls
    BY <1>a, <1>2 DEF LV!Leave
  <2> QED BY <1>0, <2>2, <2>3 DEF LogTypes
<1>3. CASE LV!Break
  <2>1. ui'.entries = ui.entries /\ ui'.stream = "connecting"
    BY <1>a, <1>3 DEF LV!Break
  <2>2. srv'.handler = LV!Closed /\ srv'.logged = srv.logged /\ calls' = calls
    BY <1>a, <1>3 DEF LV!Break
  <2> QED BY <1>0, <2>1, <2>2 DEF LogTypes, LogStreams
<1>4. CASE LV!Refuse
  <2>1. ui'.entries = ui.entries /\ ui'.stream = "closed" /\ srv' = srv /\ calls' = calls
    BY <1>a, <1>4 DEF LV!Refuse
  <2> QED BY <1>0, <2>1 DEF LogTypes, LogStreams
<1>5. ASSUME NEW c \in calls, LV!Fails(c) PROVE LogTypes'
  BY <1>0, <1>d, <1>5 DEF LV!Fails
<1>6. CASE LV!Connect
  <2>1. ui'.entries = ui.entries /\ ui'.stream = "open" /\ calls' = calls
    BY <1>a, <1>6 DEF LV!Connect
  <2>2. PICK h : h = [at |-> "replayed", chan |-> <<>>] /\ srv'.handler = h /\ srv'.logged = srv.logged
    BY <1>a, <1>6 DEF LV!Connect
  <2>3. Len(h.chan) <= Backlog
    BY <2>2, BoundsAssumption
  <2> QED BY <1>0, <2>1, <2>2, <2>3 DEF LogTypes, LogStreams
<1>7. ASSUME srv.handler \in [at : {"replayed", "subscribed"}, chan : Seq(Nat)]
      PROVE  srv.handler # LV!Closed /\ Len(srv.handler.chan) <= Backlog /\ srv.handler.chan \in Seq(Nat)
  <2>1. LV!Closed.at = "closed"
    BY DEF LV!Closed
  <2>2. srv.handler # LV!Closed
    BY <1>7, <2>1
  <2> QED BY <1>0, <1>7, <2>2
<1>8. srv.handler.at \in {"replayed", "subscribed"} => srv.handler \in [at : {"replayed", "subscribed"}, chan : Seq(Nat)]
  <2>1. LV!Closed.at = "closed"
    BY DEF LV!Closed
  <2> QED BY <1>a, <2>1
<1>9. CASE LV!Subscribe
  <2>1. srv.handler.at = "replayed" /\ ui' = ui /\ calls' = calls
    BY <1>9 DEF LV!Subscribe
  <2>2. srv' = [srv EXCEPT !.handler = [srv.handler EXCEPT !.at = "subscribed"]]
    BY <1>a, <1>9 DEF LV!Subscribe
  <2>3. srv'.logged = srv.logged /\ srv'.handler.chan = srv.handler.chan
    BY <1>a, <1>8, <2>1, <2>2
  <2> QED BY <1>0, <1>7, <1>8, <2>1, <2>3 DEF LogTypes
<1>10. CASE LV!Emit
  <2>1. PICK h : h = LV!Offer(srv.handler, srv.logged + 1)
    OBVIOUS
  <2>2. /\ srv' = [srv EXCEPT !.logged = srv.logged + 1, !.handler = h]
        /\ srv.logged < MaxEntries /\ ui' = ui /\ calls' = calls
    BY <1>a, <1>10, <2>1 DEF LV!Emit
  <2>3. srv'.logged = srv.logged + 1 /\ srv'.handler = h
    BY <1>a, <2>2
  <2>4. h # LV!Closed => Len(h.chan) <= Backlog
    <3>1. CASE srv.handler.at = "subscribed" /\ Len(srv.handler.chan) < Backlog
      <4>1. h = [srv.handler EXCEPT !.chan = Append(srv.handler.chan, srv.logged + 1)]
        BY <2>1, <3>1 DEF LV!Offer
      <4>2. h.chan = Append(srv.handler.chan, srv.logged + 1) /\ srv.handler.chan \in Seq(Nat)
        BY <1>7, <1>8, <3>1, <4>1
      <4> QED BY <1>a, <3>1, <4>2, BoundsAssumption
    <3>2. CASE ~(srv.handler.at = "subscribed" /\ Len(srv.handler.chan) < Backlog)
      <4>1. h = srv.handler
        BY <2>1, <3>2 DEF LV!Offer
      <4> QED BY <1>0, <4>1
    <3> QED BY <3>1, <3>2
  <2>5. srv.logged + 1 <= MaxEntries
    BY <1>a, <2>2, BoundsAssumption
  <2> QED BY <1>0, <2>2, <2>3, <2>4, <2>5 DEF LogTypes
<1>11. CASE LV!Forward
  <2>1. srv.handler.at = "subscribed" /\ srv.handler.chan # <<>> /\ ui' = ui /\ calls' = calls
    BY <1>11 DEF LV!Forward
  <2>2. PICK wire : srv' = [srv EXCEPT !.handler = [srv.handler EXCEPT !.chan = Tail(srv.handler.chan)], !.wire = wire]
    BY <1>a, <1>11 DEF LV!Forward
  <2>3. srv'.logged = srv.logged /\ srv'.handler.chan = Tail(srv.handler.chan)
    BY <1>a, <1>8, <2>1, <2>2
  <2>4. Len(Tail(srv.handler.chan)) <= Backlog
    BY <1>7, <1>8, <2>1, BoundsAssumption
  <2> QED BY <1>0, <2>1, <2>3, <2>4 DEF LogTypes
<1>12. CASE LV!Arrive
  <2>1. /\ ui' = [ui EXCEPT !.entries = LV!Push(@, Head(srv.wire)), !.seen = Head(srv.wire)]
        /\ srv' = [srv EXCEPT !.wire = Tail(@)] /\ calls' = calls /\ srv.wire # <<>>
    BY <1>12 DEF LV!Arrive
  <2>2. Head(srv.wire) \in LV!Entries
    BY <2>1, WayTyped
  <2>3. ui'.entries = LV!Push(ui.entries, Head(srv.wire)) /\ ui'.stream = ui.stream
    BY <1>a, <2>1
  <2>4. srv'.logged = srv.logged /\ srv'.handler = srv.handler
    BY <1>a, <2>1
  <2>5. LogEntries(LV!Push(ui.entries, Head(srv.wire)), MaxBuffer)
    BY <1>0, <2>2, PushTyped
  <2> QED BY <1>0, <2>1, <2>3, <2>4, <2>5 DEF LogTypes
<1>13. ASSUME NEW c \in calls, LV!Serve(c) PROVE LogTypes'
  <2>1. calls' = Replied(c, LV!Recent(RingCap)) /\ srv' = srv /\ ui' = ui
    BY <1>13, LogShares DEF LV!Serve
  <2>2. /\ Fit(calls', MaxCalls)
        /\ \A d \in calls' : d \in calls \/ d.answer = LV!Recent(RingCap)
    BY <1>0, <1>a, <2>1, RepliedFits
  <2>3. LogEntries(LV!Recent(RingCap), RingCap)
    BY <1>0, <1>a, RecentTyped
  <2> QED BY <1>0, <2>1, <2>2, <2>3 DEF LogTypes, LogListed
<1>14. ASSUME NEW c \in calls, LV!ListAnswered(c) PROVE LogTypes'
  <2>1. LogEntries(c.answer, RingCap)
    BY <1>0, <1>14 DEF LV!ListAnswered, LV!Heard, LogListed
  <2>2. LogEntries(c.answer, MaxBuffer)
    BY <1>c, <2>1 DEF LogEntries
  <2> QED BY <1>d, <1>14, <2>2 DEF LV!ListAnswered
<1>15. CASE UNCHANGED LV!vars
  BY <1>0, <1>15 DEF LV!vars, LogTypes
<1> QED
  BY <1>1, <1>2, <1>3, <1>4, <1>5, <1>6, <1>9, <1>10, <1>11, <1>12, <1>13, <1>14, <1>15
  DEF LV!Next, LV!Operator, LV!Faults, LV!Stream, LV!Step

LEMMA LogTyped == ASSUME LogInv, LogTypes PROVE LV!TypeOK
<1>1. LV!CallsOK
  BY LogShares, FittingCalls, MaxCallsAssumption DEF LogTypes
<1>2. srv.wire \in Seq(LV!Entries) /\ Waiting(srv.handler) \in Seq(LV!Entries)
  BY WayTyped
<1>3. srv.handler \in LV!Handlers
  <2>1. CASE srv.handler = LV!Closed
    BY <2>1 DEF LV!Handlers
  <2>2. CASE srv.handler # LV!Closed
    <3>1. srv.handler \in [at : {"replayed", "subscribed"}, chan : Seq(Nat)] /\ srv.handler.chan \in Seq(LV!Entries)
      BY <1>2, <2>2 DEF LogInv, LogRefs, Waiting
    <3>2. srv.handler \in [at : {"replayed", "subscribed"}, chan : Seq(LV!Entries)]
      BY <3>1
    <3> QED BY <3>2 DEF LV!Handlers
  <2> QED BY <2>1, <2>2
<1>4. srv.logged \in 0 .. MaxEntries /\ ui.seen \in 0 .. MaxEntries
  <2>1. srv.logged \in Nat /\ ui.seen \in Nat /\ ui.seen <= srv.logged /\ srv.logged <= MaxEntries
    BY DEF LogInv, LogRefs, LogTypes
  <2> QED BY <2>1, BoundsAssumption
<1> QED BY <1>1, <1>2, <1>3, <1>4 DEF LogTypes, LogEntries, LogStreams, LV!TypeOK

-----------------------------------------------------------------------------
(* Experimental.vue: the templates on the way and on the screen are         *)
(* templates, and a spinner of the cards turns while a template is saved.   *)

SettingsTypedCall(c) ==
  /\ c.op \in SettingsOps
  /\ c.op = "flags" => c.arg[1] \in BOOLEAN
  /\ c.op \in {"save", "reset"} => c.arg[1] \in Providers
  /\ c.op = "save" => c.arg[2] \in EV!Texts
  /\ c.state = "answered" =>
       /\ c.op \in {"load", "flags"} => c.answer[1] \in BOOLEAN
       /\ c.op = "load" => c.answer[2] \in EV!Prompts
       /\ c.op \in {"save", "reset"} => c.answer[1] \in EV!Prompts
SettingsTypedRefs ==
  [mounted : {TRUE}, busy : SUBSET {"loading", "saving"}, reuse : BOOLEAN,
   prompts : EV!Prompts \union {Nothing}, editing : [Providers -> EV!Texts],
   saving : Providers \union {Nothing}, careful : BOOLEAN]
SettingsTyped(u) == u \in SettingsTypedRefs /\ ("saving" \in u.busy <=> u.saving # Nothing)

SettingsTypes ==
  /\ Fit(calls, 1) /\ \A c \in calls : SettingsTypedCall(c)
  /\ srv \in [reuse : BOOLEAN, prompts : EV!Prompts]
  /\ ui.mounted => SettingsTyped(ui)

LEMMA SettingsShares ==
  /\ \A cs, op, arg : EV!Sending(cs, op, arg) = Adding(1, cs, op, arg)
  /\ \A c, a : EV!Replied(c, a) = Replied(c, a)
  /\ \A c : EV!GivenUp(c) = GivenUp(c)
  /\ \A k : EV!Room(k) <=> Cardinality(calls) + k <= 1
  /\ \A u : EV!Shows(u) <=> Shows(u)
  /\ EV!CallsOK <=> CallsAre(1)
<1>1. ASSUME NEW S PROVE EV!Cardinality(S) = Cardinality(S)
  BY Zenon DEF EV!Cardinality, Cardinality
<1> QED
  BY <1>1 DEF EV!Sending, Adding, EV!Slots, EV!Replied, Replied, EV!GivenUp, GivenUp, EV!Reads, Reads,
    EV!Room, EV!CallsOK, CallsAre, EV!Shows, Shows

LEMMA SettingsTypesStart == EV!Init => SettingsTypes
<1> SUFFICES ASSUME EV!Init PROVE SettingsTypes
  OBVIOUS
<1>1. calls = Adding(1, {}, "load", EV!NoArg)
  BY SettingsShares DEF EV!Init
<1>2. 1 \in Nat /\ 0 + 1 <= 1
  OBVIOUS
<1>3. Fit(calls, 1) /\ \A c \in calls : c.op = "load" /\ c.state = "sent"
  BY <1>1, <1>2, NoneFits, SentFits
<1>4. [Providers -> {"default"}] \subseteq EV!Prompts
  <2>1. [Providers -> {"default"}] \subseteq [Providers -> EV!Texts]
    BY DEF EV!Texts
  <2> QED BY <2>1 DEF EV!Prompts
<1> QED
  BY <1>3, <1>4 DEF EV!Init, SettingsTypes, SettingsTypedCall, SettingsOps, SettingsTyped, SettingsTypedRefs, EV!Texts

\* What the server makes of a call is settings again, and so is what it answers.
LEMMA SettingsServedTyped ==
  ASSUME SettingsTypes, NEW c \in calls, EV!Serve(c)
  PROVE  srv' \in [reuse : BOOLEAN, prompts : EV!Prompts]
<1>1. SettingsTypedCall(c) /\ srv \in [reuse : BOOLEAN, prompts : EV!Prompts]
  BY DEF SettingsTypes
<1>2. PICK P \in SUBSET Providers : srv.prompts \in [P -> EV!Texts]
  BY <1>1 DEF EV!Prompts
<1>3. \A Q \in SUBSET Providers : [Q -> EV!Texts] \subseteq EV!Prompts
  BY DEF EV!Prompts
<1>4. CASE c.op = "flags"
  <2>1. srv' = [srv EXCEPT !.reuse = c.arg[1]]
    BY <1>4 DEF EV!Serve
  <2> QED BY <1>1, <1>4, <2>1 DEF SettingsTypedCall
<1>5. CASE c.op = "save"
  <2>1. PICK prompts : prompts = EV!Set(c.arg[1], c.arg[2]) /\ srv' = [srv EXCEPT !.prompts = prompts]
    BY <1>5 DEF EV!Serve
  <2>2. prompts \in [P \union {c.arg[1]} -> EV!Texts]
    BY <1>1, <1>2, <1>5, <2>1 DEF EV!Set, SettingsTypedCall
  <2>3. P \union {c.arg[1]} \in SUBSET Providers
    BY <1>1, <1>5 DEF SettingsTypedCall
  <2>4. prompts \in EV!Prompts
    BY <1>3, <2>2, <2>3
  <2> QED BY <1>1, <2>1, <2>4
<1>6. CASE c.op = "reset"
  <2>1. PICK prompts : prompts = EV!Unset(c.arg[1]) /\ srv' = [srv EXCEPT !.prompts = prompts]
    BY <1>6 DEF EV!Serve
  <2>2. prompts \in [P \ {c.arg[1]} -> EV!Texts]
    BY <1>2, <2>1 DEF EV!Unset
  <2>3. prompts \in EV!Prompts
    BY <1>3, <2>2
  <2> QED BY <1>1, <2>1, <2>3
<1>7. CASE c.op \notin {"flags", "save", "reset"}
  BY <1>1, <1>7 DEF EV!Serve
<1> QED BY <1>4, <1>5, <1>6, <1>7

LEMMA SettingsAdoptedTyped ==
  ASSUME NEW c, SettingsTypedCall(c), c.state = "answered", SettingsTyped(ui)
  PROVE  SettingsTyped(EV!Adopted(c))
<1>0. /\ ui \in SettingsTypedRefs /\ ("saving" \in ui.busy <=> ui.saving # Nothing)
  BY DEF SettingsTyped
<1>a. ASSUME NEW prompts \in EV!Prompts, NEW p \in Providers, NEW other \in EV!Texts
      PROVE  EV!Known(prompts, p, other) \in EV!Texts
  <2>1. PICK P \in SUBSET Providers : prompts \in [P -> EV!Texts]
    BY DEF EV!Prompts
  <2> QED BY <2>1 DEF EV!Known
<1>b. "" \in EV!Texts /\ "default" \in EV!Texts
  BY DEF EV!Texts
<1>1. CASE c.op = "load"
  <2>1. PICK reuse \in BOOLEAN, prompts \in EV!Prompts : reuse = c.answer[1] /\ prompts = c.answer[2]
    BY <1>1 DEF SettingsTypedCall
  <2>2. PICK editing \in [Providers -> EV!Texts] : editing = [p \in Providers |-> EV!Known(prompts, p, "")]
    BY <1>a, <1>b
  <2>3. EV!Adopted(c) = [EV!Stops(ui, "loading") EXCEPT !.reuse = reuse, !.prompts = prompts, !.editing = editing]
    BY <1>1, <2>1, <2>2 DEF EV!Adopted
  <2>4. EV!Stops(ui, "loading") \in SettingsTypedRefs /\ EV!Stops(ui, "loading").saving = ui.saving
        /\ ("saving" \in EV!Stops(ui, "loading").busy <=> "saving" \in ui.busy)
    BY <1>0 DEF EV!Stops, SettingsTypedRefs
  <2> QED BY <1>0, <2>3, <2>4, ZenonT(30) DEF SettingsTyped, SettingsTypedRefs
<1>2. CASE c.op = "flags"
  <2>1. EV!Adopted(c) = [ui EXCEPT !.reuse = c.answer[1]] /\ c.answer[1] \in BOOLEAN
    BY <1>2 DEF EV!Adopted, SettingsTypedCall
  <2> QED BY <1>0, <2>1 DEF SettingsTyped, SettingsTypedRefs
<1>3. CASE c.op = "clear pool"
  BY <1>3 DEF EV!Adopted
<1>4. CASE c.op = "save"
  <2>1. EV!Adopted(c) = [EV!Saved(ui) EXCEPT !.prompts = c.answer[1]] /\ c.answer[1] \in EV!Prompts
    BY <1>4 DEF EV!Adopted, SettingsTypedCall
  <2>2. EV!Saved(ui) \in SettingsTypedRefs /\ "saving" \notin EV!Saved(ui).busy /\ EV!Saved(ui).saving = Nothing
    BY <1>0 DEF EV!Saved, EV!Stops, SettingsTypedRefs
  <2> QED BY <2>1, <2>2 DEF SettingsTyped, SettingsTypedRefs
<1>5. CASE c.op = "reset"
  <2>1. PICK p \in Providers, prompts \in EV!Prompts : p = c.arg[1] /\ prompts = c.answer[1]
    BY <1>5 DEF SettingsTypedCall
  <2>2. PICK text \in EV!Texts : text = EV!Known(prompts, p, "default")
    BY <1>a, <1>b
  <2>3. EV!Adopted(c) = [ui EXCEPT !.prompts = prompts, !.editing[p] = text]
    BY <1>5, <2>1, <2>2 DEF EV!Adopted
  <2>4. PICK editing \in [Providers -> EV!Texts] : editing = [ui.editing EXCEPT ![p] = text]
    BY <1>0 DEF SettingsTypedRefs
  <2>5. [ui EXCEPT !.prompts = prompts, !.editing[p] = text] = [ui EXCEPT !.prompts = prompts, !.editing = editing]
    BY <1>0, <2>4 DEF SettingsTypedRefs
  <2>6. PICK u : u = [ui EXCEPT !.prompts = prompts, !.editing = editing]
    OBVIOUS
  <2>7. u \in SettingsTypedRefs /\ u.busy = ui.busy /\ u.saving = ui.saving
    BY <1>0, <2>6 DEF SettingsTypedRefs
  <2>8. EV!Adopted(c) = u
    BY <2>3, <2>5, <2>6
  <2> QED BY <1>0, <2>7, <2>8 DEF SettingsTyped
<1> QED BY <1>1, <1>2, <1>3, <1>4, <1>5 DEF SettingsTypedCall, SettingsOps

LEMMA SettingsTypesKeep == ASSUME SettingsTypes, [EV!Next]_(EV!vars) PROVE SettingsTypes'
<1>0. /\ Fit(calls, 1) /\ \A c \in calls : SettingsTypedCall(c)
      /\ srv \in [reuse : BOOLEAN, prompts : EV!Prompts]
      /\ (ui.mounted => SettingsTyped(ui))
  BY DEF SettingsTypes
<1>a. 1 \in Nat
  OBVIOUS
<1>b. ASSUME NEW u, SettingsTyped(u)
      PROVE  /\ SettingsTyped(EV!Spins(u, "loading")) /\ SettingsTyped(EV!Stops(u, "loading"))
             /\ SettingsTyped(EV!Careful(u)) /\ SettingsTyped(EV!Careless(u)) /\ SettingsTyped(EV!Saved(u))
             /\ \A p \in Providers : SettingsTyped([EV!Spins(u, "saving") EXCEPT !.saving = p])
  BY <1>b, NothingAssumption DEF SettingsTyped, SettingsTypedRefs, EV!Spins, EV!Stops, EV!Careful, EV!Careless, EV!Saved
<1>c. ASSUME NEW op, NEW arg, NEW u, EV!Clicks(op, arg, u), SettingsTyped(u),
             \A d : d.op = op /\ d.arg = arg /\ d.state = "sent" => SettingsTypedCall(d)
      PROVE  SettingsTypes'
  <2>1. Cardinality(calls) + 1 <= 1 /\ calls' = Adding(1, calls, op, arg) /\ srv' = srv /\ ui' = EV!Careful(u)
    BY <1>c, SettingsShares DEF EV!Clicks
  <2>2. Fit(calls', 1) /\ \A d \in calls' : SettingsTypedCall(d)
    BY <1>0, <1>a, <1>c, <2>1, SentFits
  <2>3. SettingsTyped(ui')
    BY <1>b, <1>c, <2>1
  <2> QED BY <1>0, <2>1, <2>2, <2>3 DEF SettingsTypes
<1>d. ASSUME NEW c \in calls
      PROVE  Fit(calls \ {c}, 1) /\ \A d \in calls \ {c} : SettingsTypedCall(d)
  BY <1>0, <1>a, FewerFit
<1>1. CASE EV!Refresh
  <2>1. \A d : d.op = "load" /\ d.state = "sent" => SettingsTypedCall(d)
    BY DEF SettingsTypedCall, SettingsOps
  <2>2. ui.mounted /\ EV!Clicks("load", EV!NoArg, EV!Spins(ui, "loading"))
    BY <1>1 DEF EV!Refresh
  <2>3. SettingsTyped(EV!Spins(ui, "loading"))
    BY <1>0, <1>b, <2>2
  <2> QED BY <1>c, <2>1, <2>2, <2>3
<1>2. CASE EV!OnToggle
  <2>1. ui.mounted /\ EV!Clicks("flags", <<~ui.reuse>>, ui)
    BY <1>2 DEF EV!OnToggle
  <2>2. \A d : d.op = "flags" /\ d.arg = <<~ui.reuse>> /\ d.state = "sent" => SettingsTypedCall(d)
    BY DEF SettingsTypedCall, SettingsOps
  <2> QED BY <1>0, <1>c, <2>1, <2>2
<1>3. CASE EV!OnClearPool
  <2>1. ui.mounted /\ EV!Clicks("clear pool", EV!NoArg, ui)
    BY <1>3 DEF EV!OnClearPool, EV!Clicks
  <2>2. \A d : d.op = "clear pool" /\ d.state = "sent" => SettingsTypedCall(d)
    BY DEF SettingsTypedCall, SettingsOps
  <2> QED BY <1>0, <1>c, <2>1, <2>2
<1>4. ASSUME NEW p \in Providers, EV!Type(p, "custom") PROVE SettingsTypes'
  <2>1. ui.mounted /\ ui' = [ui EXCEPT !.editing[p] = "custom"] /\ srv' = srv /\ calls' = calls
    BY <1>4 DEF EV!Type, EV!Cards
  <2>2. SettingsTyped(ui')
    BY <1>0, <2>1 DEF SettingsTyped, SettingsTypedRefs, EV!Texts
  <2> QED BY <1>0, <2>1, <2>2 DEF SettingsTypes
<1>5. ASSUME NEW p \in Providers, EV!OnSavePrompt(p) PROVE SettingsTypes'
  <2>1. PICK u, t : /\ ui.mounted /\ EV!Clicks("save", <<p, t>>, u) /\ t = ui.editing[p]
                    /\ u = [EV!Spins(ui, "saving") EXCEPT !.saving = p]
    BY <1>5 DEF EV!OnSavePrompt, EV!Cards
  <2>2. t \in EV!Texts
    BY <1>0, <2>1 DEF SettingsTyped, SettingsTypedRefs
  <2>3. \A d : d.op = "save" /\ d.arg = <<p, t>> /\ d.state = "sent" => SettingsTypedCall(d)
    BY <2>2 DEF SettingsTypedCall, SettingsOps
  <2>4. SettingsTyped(u)
    BY <1>0, <1>b, <2>1
  <2> QED BY <1>c, <2>1, <2>3, <2>4
<1>6. ASSUME NEW p \in Providers, EV!OnResetPrompt(p) PROVE SettingsTypes'
  <2>1. ui.mounted /\ EV!Clicks("reset", <<p>>, ui)
    BY <1>6 DEF EV!OnResetPrompt, EV!Cards
  <2>2. \A d : d.op = "reset" /\ d.arg = <<p>> /\ d.state = "sent" => SettingsTypedCall(d)
    BY DEF SettingsTypedCall, SettingsOps
  <2> QED BY <1>0, <1>c, <2>1, <2>2
<1>7. CASE EV!Leave
  BY <1>0, <1>7 DEF EV!Leave, SettingsTypes
<1>8. ASSUME NEW c \in calls, EV!Serve(c) PROVE SettingsTypes'
  <2>1. srv' \in [reuse : BOOLEAN, prompts : EV!Prompts]
    BY <1>8, SettingsServedTyped
  <2>2. PICK a : /\ calls' = Replied(c, a)
                 /\ c.op = "load" => a = <<srv.reuse, srv.prompts>>
                 /\ c.op = "flags" => a = <<srv'.reuse>>
                 /\ c.op \in {"save", "reset"} => a = <<srv'.prompts>>
    BY <1>8, SettingsShares DEF EV!Serve
  <2>3. /\ Fit(calls', 1)
        /\ \A d \in calls' : d \in calls \/ (d.op = c.op /\ d.arg = c.arg /\ d.answer = a)
    BY <1>0, <1>a, <2>2, RepliedFits
  <2>4. \A d \in calls' : SettingsTypedCall(d)
    BY <1>0, <2>1, <2>2, <2>3 DEF SettingsTypedCall
  <2> QED BY <1>0, <1>8, <2>1, <2>3, <2>4 DEF EV!Serve, SettingsTypes
<1>9. CASE EV!Restart
  <2>1. PICK prompts : /\ srv' = [srv EXCEPT !.prompts = prompts]
                       /\ prompts = [p \in Providers |-> IF p \in DOMAIN srv.prompts THEN srv.prompts[p] ELSE "default"]
    BY <1>9 DEF EV!Restart
  <2>2. prompts \in EV!Prompts
    <3>1. PICK P \in SUBSET Providers : srv.prompts \in [P -> EV!Texts]
      BY <1>0 DEF EV!Prompts
    <3>2. prompts \in [Providers -> EV!Texts]
      BY <2>1, <3>1 DEF EV!Texts
    <3> QED BY <3>2 DEF EV!Prompts
  <2>3. ui'.mounted => SettingsTyped(ui')
    BY <1>0, <1>b, <1>9 DEF EV!Restart
  <2> QED BY <1>0, <1>9, <2>1, <2>2, <2>3 DEF EV!Restart, SettingsTypes
<1>10. ASSUME NEW c \in calls, EV!Answered(c) PROVE SettingsTypes'
  <2>1. SettingsTypedCall(c) /\ c.state = "answered" /\ Shows(EV!Adopted(c))
    BY <1>0, <1>10, SettingsShares DEF EV!Answered, EV!Heard
  <2>2. ui'.mounted => SettingsTyped(ui')
    BY <1>0, <2>1, SettingsAdoptedTyped DEF Shows
  <2> QED BY <1>0, <1>d, <1>10, <2>2 DEF EV!Answered, SettingsTypes
<1>11. ASSUME NEW c \in calls, EV!Fails(c) PROVE SettingsTypes'
  <2>1. PICK u : Shows(EV!Careless(u)) /\ (u = ui \/ u = EV!Stops(ui, "loading") \/ u = EV!Saved(ui))
    BY <1>11, SettingsShares DEF EV!Fails
  <2>2. ui.mounted => SettingsTyped(EV!Careless(u))
    BY <1>0, <1>b, <2>1
  <2>3. ui'.mounted => SettingsTyped(ui')
    BY <1>0, <2>1, <2>2 DEF Shows
  <2>4. calls' = GivenUp(c) /\ srv' = srv
    BY <1>11, SettingsShares DEF EV!Fails
  <2>5. /\ Fit(calls', 1)
        /\ \A d \in calls' : d \in calls \/ (d.op = c.op /\ d.arg = c.arg /\ d.state = "given up")
    BY <1>0, <1>a, <2>4, GivenUpFits
  <2>6. \A d \in calls' : SettingsTypedCall(d)
    BY <1>0, <2>5 DEF SettingsTypedCall
  <2> QED BY <1>0, <2>3, <2>4, <2>5, <2>6 DEF SettingsTypes
<1>12. ASSUME NEW c \in calls, EV!Vanish(c) PROVE SettingsTypes'
  BY <1>0, <1>d, <1>12 DEF EV!Vanish, SettingsTypes
<1>13. CASE UNCHANGED EV!vars
  BY <1>0, <1>13 DEF EV!vars, SettingsTypes
<1> QED
  BY <1>1, <1>2, <1>3, <1>4, <1>5, <1>6, <1>7, <1>8, <1>9, <1>10, <1>11, <1>12, <1>13
  DEF EV!Next, EV!Operator, EV!Faults, EV!Step

LEMMA SettingsAreTyped == ASSUME SettingsTypes PROVE EV!TypeOK
<1>1. EV!CallsOK
  BY SettingsShares, FittingCalls DEF SettingsTypes
<1>2. ASSUME SettingsTyped(ui)
      PROVE  ui.busy = (IF ui.saving = Nothing THEN {} ELSE {"saving"}) \union (ui.busy \intersect {"loading"})
  <2>1. ui.busy \subseteq {"loading", "saving"} /\ ("saving" \in ui.busy <=> ui.saving # Nothing)
    BY <1>2, SMTT(30) DEF SettingsTyped, SettingsTypedRefs
  <2> QED BY <2>1
<1> QED BY <1>1, <1>2 DEF SettingsTypes, SettingsTyped, SettingsTypedRefs, EV!TypeOK

-----------------------------------------------------------------------------
(* BasicLayout.vue: a drawer is open on a narrow screen only.               *)

FrameRefs ==
  [mounted : {TRUE}, ticking : BOOLEAN, busy : SUBSET {"loading"}, narrow : BOOLEAN, drawer : BOOLEAN,
   route : FR!MenuKeys, going : FR!MenuKeys \union {Nothing}, version : FR!Versions]
FrameShown(u) == u \in FrameRefs /\ (u.drawer => u.narrow)

FrameTypes ==
  /\ Fit(calls, MaxCalls) /\ srv \in [narrow : BOOLEAN]
  /\ ui.mounted => FrameShown(ui)

LEMMA FrameShares ==
  /\ \A cs, op, arg : FR!Sending(cs, op, arg) = Adding(MaxCalls, cs, op, arg)
  /\ \A c, a : FR!Replied(c, a) = Replied(c, a)
  /\ \A c : FR!GivenUp(c) = GivenUp(c)
  /\ \A k : FR!Room(k) <=> Cardinality(calls) + k <= MaxCalls
  /\ \A u : FR!Shows(u) <=> Shows(u)
  /\ FR!CallsOK <=> CallsAre(MaxCalls)
<1>1. ASSUME NEW S PROVE FR!Cardinality(S) = Cardinality(S)
  BY Zenon DEF FR!Cardinality, Cardinality
<1> QED
  BY <1>1 DEF FR!Sending, Adding, FR!Slots, FR!Replied, Replied, FR!GivenUp, GivenUp, FR!Reads, Reads,
    FR!Room, FR!CallsOK, CallsAre, FR!Shows, Shows

LEMMA FrameStart == FR!Init => FrameTypes
<1> SUFFICES ASSUME FR!Init PROVE FrameTypes
  OBVIOUS
<1>1. calls = Adding(MaxCalls, {}, "load", FR!NoArg)
  BY FrameShares DEF FR!Init
<1>2. MaxCalls \in Nat /\ 0 + 1 <= MaxCalls
  BY MaxCallsAssumption
<1>3. Fit(calls, MaxCalls)
  BY <1>1, <1>2, NoneFits, SentFits
<1> QED BY <1>3 DEF FR!Init, FrameTypes, FrameShown, FrameRefs, FR!MenuKeys, FR!Versions

LEMMA FrameKeep == ASSUME FrameTypes, [FR!Next]_(FR!vars) PROVE FrameTypes'
<1>0. Fit(calls, MaxCalls) /\ srv \in [narrow : BOOLEAN] /\ (ui.mounted => FrameShown(ui))
  BY DEF FrameTypes
<1>a. MaxCalls \in Nat
  BY MaxCallsAssumption
<1>1. CASE FR!Elsewhere
  BY <1>0, <1>1 DEF FR!Elsewhere, FrameTypes
<1>2. CASE FR!ViewportTold
  BY <1>0, <1>2 DEF FR!ViewportTold, FR!SyncViewport, FrameTypes, FrameShown, FrameRefs
<1>3. CASE FR!OpenDrawer \/ FR!CloseDrawer
  BY <1>0, <1>3 DEF FR!OpenDrawer, FR!CloseDrawer, FrameTypes, FrameShown, FrameRefs
<1>4. ASSUME NEW k \in FR!MenuKeys, FR!OnSelect(k) PROVE FrameTypes'
  BY <1>0, <1>4 DEF FR!OnSelect, FrameTypes, FrameShown, FrameRefs
<1>5. CASE FR!Navigated
  BY <1>0, <1>5 DEF FR!Navigated, FrameTypes, FrameShown, FrameRefs
<1>6. CASE FR!OnLogout
  BY <1>0, <1>6 DEF FR!OnLogout, FR!Left, FrameTypes
<1>7. ASSUME NEW c \in calls, FR!Serve(c) PROVE FrameTypes'
  <2>1. Fit(calls', MaxCalls)
    BY <1>0, <1>a, <1>7, FrameShares, RepliedFits DEF FR!Serve
  <2> QED BY <1>0, <1>7, <2>1 DEF FR!Serve, FrameTypes
<1>8. ASSUME NEW c \in calls, FR!Answered(c) PROVE FrameTypes'
  <2>1. ui'.mounted => FrameShown(ui')
    <3>1. FrameShown(ui) => FrameShown([ui EXCEPT !.version = "known"])
      BY DEF FrameShown, FrameRefs, FR!Versions
    <3> QED BY <1>0, <1>8, <3>1 DEF FR!Answered, FR!Shows
  <2>2. Fit(calls', MaxCalls)
    BY <1>0, <1>a, <1>8, FewerFit DEF FR!Answered
  <2> QED BY <1>0, <1>8, <2>1, <2>2 DEF FR!Answered, FrameTypes
<1>9. ASSUME NEW c \in calls, FR!Fails(c) PROVE FrameTypes'
  <2>1. Fit(calls', MaxCalls)
    BY <1>0, <1>a, <1>9, FrameShares, GivenUpFits DEF FR!Fails
  <2> QED BY <1>0, <1>9, <2>1 DEF FR!Fails, FrameTypes
<1>10. CASE UNCHANGED FR!vars
  BY <1>0, <1>10 DEF FR!vars, FrameTypes
<1> QED
  BY <1>1, <1>2, <1>3, <1>4, <1>5, <1>6, <1>7, <1>8, <1>9, <1>10
  DEF FR!Next, FR!Operator, FR!Faults, FR!Step

LEMMA FrameTyped == ASSUME FrameTypes PROVE FR!TypeOK
<1>1. FR!CallsOK
  BY FrameShares, FittingCalls, MaxCallsAssumption DEF FrameTypes
<1> QED BY <1>1 DEF FrameTypes, FrameShown, FrameRefs, FR!TypeOK

-----------------------------------------------------------------------------
(* Formats: a value is one around the edges of its display.                 *)

NumberTypes ==
  calls = {} /\ srv \in [kind : FO!Kinds, value : Nat] /\ srv.value \in FO!Values(srv.kind)

LEMMA NumberShares ==
  /\ \A cs, op, arg : FO!Sending(cs, op, arg) = Adding(MaxCalls, cs, op, arg)
  /\ \A c, a : FO!Replied(c, a) = Replied(c, a)
  /\ \A c : FO!GivenUp(c) = GivenUp(c)
  /\ \A k : FO!Room(k) <=> Cardinality(calls) + k <= MaxCalls
  /\ \A u : FO!Shows(u) <=> Shows(u)
  /\ FO!CallsOK <=> CallsAre(MaxCalls)
<1>1. ASSUME NEW S PROVE FO!Cardinality(S) = Cardinality(S)
  BY Zenon DEF FO!Cardinality, Cardinality
<1> QED
  BY <1>1 DEF FO!Sending, Adding, FO!Slots, FO!Replied, Replied, FO!GivenUp, GivenUp, FO!Reads, Reads,
    FO!Room, FO!CallsOK, CallsAre, FO!Shows, Shows

LEMMA NumberTypesStart == FO!Init => NumberTypes
<1> SUFFICES ASSUME FO!Init PROVE NumberTypes
  OBVIOUS
<1>1. PICK k \in FO!Kinds, e \in UNION {FO!Edges[j] : j \in FO!Kinds} :
        srv = [kind |-> k, value |-> e - FO!Bound]
  BY DEF FO!Init
<1>2. e \in Nat /\ e >= 3
  BY DEF FO!Edges, FO!Kinds
<1>3. srv.kind = k /\ srv.value = e - 3 /\ e - 3 \in Nat
  BY <1>1, <1>2 DEF FO!Bound
<1>4. e \in FO!Edges[k]
  BY <1>2, <1>3 DEF FO!Init, FO!Bound
<1>5. e - 3 \in e - 3 .. e + 3
  BY <1>2
<1>6. e - 3 \in FO!Values(k)
  BY <1>4, <1>5 DEF FO!Values, FO!Bound
<1> QED BY <1>1, <1>3, <1>6 DEF FO!Init, FO!Bound, NumberTypes

LEMMA NumberTypesKeep == ASSUME NumberTypes, [FO!Next]_(FO!vars) PROVE NumberTypes'
<1>1. CASE FO!Grow
  <2>1. srv \in [kind : FO!Kinds, value : Nat] /\ calls = {} /\ srv.value + 1 \in FO!Values(srv.kind)
    BY <1>1 DEF NumberTypes, FO!Grow
  <2>2. srv' = [kind |-> srv.kind, value |-> srv.value + 1] /\ calls' = calls
    BY <1>1, <2>1 DEF FO!Grow
  <2> QED BY <2>1, <2>2 DEF NumberTypes
<1>2. CASE UNCHANGED FO!vars
  BY <1>2 DEF FO!vars, NumberTypes
<1> QED BY <1>1, <1>2 DEF FO!Next

LEMMA NumberTyped == ASSUME NumberTypes PROVE FO!TypeOK
<1>1. CallsAre(MaxCalls)
  BY NoneFits, FittingCalls, MaxCallsAssumption DEF NumberTypes
<1> QED BY <1>1, NumberShares DEF NumberTypes, FO!TypeOK

-----------------------------------------------------------------------------
(* The types of the open view, whichever it is: its calls fit in its slots,  *)
(* and its refs, its flags and what the server holds are of their types.     *)

Views ==
  {"Accounts", "Bans", "Overview", "Stats", "LoginTake", "Models", "Proxy",
   "Logs", "Experimental", "Frame", "Formats"}

DashTypes ==
  /\ view \in Views
  /\ view = "Accounts" => AccountsTypes
  /\ view = "Bans" => BansTypes
  /\ view = "Overview" => OverviewTypes
  /\ view = "Stats" => StatsTypes
  /\ view = "LoginTake" => TakeTypes
  /\ view = "Models" => PolicyTypes
  /\ view = "Proxy" => ProxyTypes
  /\ view = "Logs" => LogTypes
  /\ view = "Experimental" => SettingsTypes
  /\ view = "Frame" => FrameTypes
  /\ view = "Formats" => NumberTypes

LEMMA DashTypesStart == MCInit => DashTypes
<1> SUFFICES ASSUME MCInit PROVE DashTypes
  OBVIOUS
<1>1. ASSUME view = "Accounts" PROVE AccountsTypes
  <2>1. AV!Init
    BY <1>1 DEF MCInit
  <2> QED BY <2>1, AccountsStart
<1>2. ASSUME view = "Bans" PROVE BansTypes
  <2>1. BV!Init
    BY <1>2 DEF MCInit
  <2> QED BY <2>1, BansTypesStart
<1>3. ASSUME view = "Overview" PROVE OverviewTypes
  <2>1. OV!Init
    BY <1>3 DEF MCInit
  <2> QED BY <2>1, OverviewStart
<1>4. ASSUME view = "Stats" PROVE StatsTypes
  <2>1. SV!Init
    BY <1>4 DEF MCInit
  <2> QED BY <2>1, StatsTypesStart
<1>5. ASSUME view = "LoginTake" PROVE TakeTypes
  <2>1. LT!Init
    BY <1>5 DEF MCInit
  <2> QED BY <2>1, TakeTypesStart
<1>6. ASSUME view = "Models" PROVE PolicyTypes
  <2>1. MV!Init
    BY <1>6 DEF MCInit
  <2> QED BY <2>1, PolicyTypesStart
<1>7. ASSUME view = "Proxy" PROVE ProxyTypes
  <2>1. PV!Init
    BY <1>7 DEF MCInit
  <2> QED BY <2>1, ProxyStart
<1>8. ASSUME view = "Logs" PROVE LogTypes
  <2>1. LV!Init
    BY <1>8 DEF MCInit
  <2> QED BY <2>1, LogTypesStart
<1>9. ASSUME view = "Experimental" PROVE SettingsTypes
  <2>1. EV!Init
    BY <1>9 DEF MCInit
  <2> QED BY <2>1, SettingsTypesStart
<1>10. ASSUME view = "Frame" PROVE FrameTypes
  <2>1. FR!Init
    BY <1>10 DEF MCInit
  <2> QED BY <2>1, FrameStart
<1>11. ASSUME view = "Formats" PROVE NumberTypes
  <2>1. FO!Init
    BY <1>11 DEF MCInit
  <2> QED BY <2>1, NumberTypesStart
<1>12. view \in Views
  BY DEF MCInit, Views
<1> QED
  BY <1>1, <1>2, <1>3, <1>4, <1>5, <1>6, <1>7, <1>8, <1>9, <1>10, <1>11, <1>12 DEF DashTypes

LEMMA DashTypesKeep == ASSUME DashInv, DashTypes, [MCNext]_mcvars PROVE DashTypes'
<1>a. view' = view
  BY DEF MCNext, mcvars, On
<1>1. ASSUME view = "Accounts" PROVE AccountsTypes'
  <2>1. [AV!Next]_(AV!vars)
    BY <1>1 DEF MCNext, mcvars, On, AV!vars
  <2>2. AccountsTypes
    BY <1>1 DEF DashTypes
  <2> QED BY <2>1, <2>2, AccountsKeep
<1>2. ASSUME view = "Bans" PROVE BansTypes'
  <2>1. [BV!Next]_(BV!vars)
    BY <1>2 DEF MCNext, mcvars, On, BV!vars
  <2>2. BanInv /\ BansTypes
    BY <1>2 DEF DashInv, DashTypes
  <2> QED BY <2>1, <2>2, BansTypesKeep
<1>3. ASSUME view = "Overview" PROVE OverviewTypes'
  <2>1. [OV!Next]_(OV!vars)
    BY <1>3 DEF MCNext, mcvars, On, OV!vars
  <2>2. OverviewTypes
    BY <1>3 DEF DashTypes
  <2> QED BY <2>1, <2>2, OverviewKeep
<1>4. ASSUME view = "Stats" PROVE StatsTypes'
  <2>1. [SV!Next]_(SV!vars)
    BY <1>4 DEF MCNext, mcvars, On, SV!vars
  <2>2. StatsInv /\ StatsTypes
    BY <1>4 DEF DashInv, DashTypes
  <2> QED BY <2>1, <2>2, StatsTypesKeep
<1>5. ASSUME view = "LoginTake" PROVE TakeTypes'
  <2>1. [LT!Next]_(LT!vars)
    BY <1>5 DEF MCNext, mcvars, On, LT!vars
  <2>2. TakeInv /\ TakeTypes
    BY <1>5 DEF DashInv, DashTypes
  <2> QED BY <2>1, <2>2, TakeTypesKeep
<1>6. ASSUME view = "Models" PROVE PolicyTypes'
  <2>1. [MV!Next]_(MV!vars)
    BY <1>6 DEF MCNext, mcvars, On, MV!vars
  <2>2. PolicyTypes
    BY <1>6 DEF DashTypes
  <2> QED BY <2>1, <2>2, PolicyTypesKeep
<1>7. ASSUME view = "Proxy" PROVE ProxyTypes'
  <2>1. [PV!Next]_(PV!vars)
    BY <1>7 DEF MCNext, mcvars, On, PV!vars
  <2>2. ProxyTypes
    BY <1>7 DEF DashTypes
  <2> QED BY <2>1, <2>2, ProxyKeep
<1>8. ASSUME view = "Logs" PROVE LogTypes'
  <2>1. [LV!Next]_(LV!vars)
    BY <1>8 DEF MCNext, mcvars, On, LV!vars
  <2>2. LogInv /\ LogTypes
    BY <1>8 DEF DashInv, DashTypes
  <2> QED BY <2>1, <2>2, LogTypesKeep
<1>9. ASSUME view = "Experimental" PROVE SettingsTypes'
  <2>1. [EV!Next]_(EV!vars)
    BY <1>9 DEF MCNext, mcvars, On, EV!vars
  <2>2. SettingsTypes
    BY <1>9 DEF DashTypes
  <2> QED BY <2>1, <2>2, SettingsTypesKeep
<1>10. ASSUME view = "Frame" PROVE FrameTypes'
  <2>1. [FR!Next]_(FR!vars)
    BY <1>10 DEF MCNext, mcvars, On, FR!vars
  <2>2. FrameTypes
    BY <1>10 DEF DashTypes
  <2> QED BY <2>1, <2>2, FrameKeep
<1>11. ASSUME view = "Formats" PROVE NumberTypes'
  <2>1. [FO!Next]_(FO!vars)
    BY <1>11 DEF MCNext, mcvars, On, FO!vars
  <2>2. NumberTypes
    BY <1>11 DEF DashTypes
  <2> QED BY <2>1, <2>2, NumberTypesKeep
<1> QED
  BY <1>a, <1>1, <1>2, <1>3, <1>4, <1>5, <1>6, <1>7, <1>8, <1>9, <1>10, <1>11 DEF DashTypes

LEMMA DashTyped == ASSUME DashInv, DashTypes PROVE TypeOK
<1>1. ASSUME view = "Accounts" PROVE AV!TypeOK
  BY <1>1, AccountsTyped DEF DashTypes
<1>2. ASSUME view = "Bans" PROVE BV!TypeOK
  BY <1>2, BansTyped DEF DashInv, DashTypes
<1>3. ASSUME view = "Overview" PROVE OV!TypeOK
  BY <1>3, OverviewTyped DEF DashTypes
<1>4. ASSUME view = "Stats" PROVE SV!TypeOK
  BY <1>4, StatsTyped DEF DashInv, DashTypes
<1>5. ASSUME view = "LoginTake" PROVE LT!TypeOK
  BY <1>5, TakeTyped DEF DashInv, DashTypes
<1>6. ASSUME view = "Models" PROVE MV!TypeOK
  BY <1>6, PolicyTyped DEF DashTypes
<1>7. ASSUME view = "Proxy" PROVE PV!TypeOK
  BY <1>7, ProxyTyped DEF DashTypes
<1>8. ASSUME view = "Logs" PROVE LV!TypeOK
  BY <1>8, LogTyped DEF DashInv, DashTypes
<1>9. ASSUME view = "Experimental" PROVE EV!TypeOK
  BY <1>9, SettingsAreTyped DEF DashTypes
<1>10. ASSUME view = "Frame" PROVE FR!TypeOK
  BY <1>10, FrameTyped DEF DashTypes
<1>11. ASSUME view = "Formats" PROVE FO!TypeOK
  BY <1>11, NumberTyped DEF DashTypes
<1>12. view \in Views
  BY DEF DashTypes
<1>13. ASSUME view = "Accounts" PROVE TypeOK
  BY ONLY <1>1, <1>13 DEF TypeOK
<1>14. ASSUME view = "Bans" PROVE TypeOK
  BY ONLY <1>2, <1>14 DEF TypeOK
<1>15. ASSUME view = "Overview" PROVE TypeOK
  BY ONLY <1>3, <1>15 DEF TypeOK
<1>16. ASSUME view = "Stats" PROVE TypeOK
  BY ONLY <1>4, <1>16 DEF TypeOK
<1>17. ASSUME view = "LoginTake" PROVE TypeOK
  BY ONLY <1>5, <1>17 DEF TypeOK
<1>18. ASSUME view = "Models" PROVE TypeOK
  BY ONLY <1>6, <1>18 DEF TypeOK
<1>19. ASSUME view = "Proxy" PROVE TypeOK
  BY ONLY <1>7, <1>19 DEF TypeOK
<1>20. ASSUME view = "Logs" PROVE TypeOK
  BY ONLY <1>8, <1>20 DEF TypeOK
<1>21. ASSUME view = "Experimental" PROVE TypeOK
  BY ONLY <1>9, <1>21 DEF TypeOK
<1>22. ASSUME view = "Frame" PROVE TypeOK
  BY ONLY <1>10, <1>22 DEF TypeOK
<1>23. ASSUME view = "Formats" PROVE TypeOK
  BY ONLY <1>11, <1>23 DEF TypeOK
<1> QED
  BY ONLY <1>12, <1>13, <1>14, <1>15, <1>16, <1>17, <1>18, <1>19, <1>20, <1>21, <1>22, <1>23 DEF Views

(* Whatever is clicked, answered late or lost, the state of the open view   *)
(* keeps its types: no call takes a slot that is in use and no more calls   *)
(* are in flight than there are slots, the refs and the flags are the ones  *)
(* the view has, a history is never longer than what is kept (views/*.vue). *)
THEOREM DashboardTyped == MCSpec => []TypeOK
<1>1. DashInv /\ DashTypes /\ [MCNext]_mcvars => DashTypes'
  BY DashTypesKeep
<1>2. MCSpec => []DashTypes
  BY DashTypesStart, DashHolds, <1>1, PTL DEF MCSpec
<1>3. DashInv /\ DashTypes => TypeOK
  BY DashTyped
<1> QED BY <1>2, <1>3, DashHolds, PTL

=============================================================================
