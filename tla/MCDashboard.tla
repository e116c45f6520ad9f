---------------------------- MODULE MCDashboard ----------------------------
(* The dashboard's views, one of which is open in each behaviour.           *)
EXTENDS View, TLC

CONSTANTS
  Accounts, Tiers, Listed, MaxHistory, Ids, Ranges, MaxHour, Models, Providers,
  MaxAttempts, Cap, MaxEntries, RingCap, MaxBuffer, Replay, Backlog

\* The list of the log fits the view, and what is replayed fits the ring.
ASSUME RingFits ==
  RingCap \in Nat \ {0} /\ MaxBuffer \in Nat /\ MaxBuffer >= RingCap /\ Replay \in 1 .. RingCap

\* 50 logins are kept in the code; the ranges are 6, 24 and 72 hours.
ASSUME CapAssumption == Cap \in Nat \ {0}
ASSUME RangesAssumption == Ranges \subseteq Nat \ {0}
\* Bans.vue and Overview.vue ask for two things as they open.
ASSUME RoomAssumption == MaxCalls >= 2
\* What bounds a behaviour of the views are numbers; a connection can bring an entry.
ASSUME BoundsAssumption ==
  MaxHour \in Nat /\ MaxHistory \in Nat /\ MaxAttempts \in Nat /\ MaxEntries \in Nat \ {0} /\ Backlog \in Nat
\* No provider is called what stands for "no answer yet".
ASSUME NothingAssumption == Nothing \notin Providers
ASSUME ListedAssumption == Listed \in Nat

VARIABLE view

AV == INSTANCE AccountsView
BV == INSTANCE BansView
OV == INSTANCE OverviewView
SV == INSTANCE StatsView
LT == INSTANCE LoginTakeView
MV == INSTANCE ModelsView
PV == INSTANCE ProxyView
LV == INSTANCE LogsView
EV == INSTANCE ExperimentalView WITH MaxCalls <- 1   \* its clicks overlap as those of Models do
FR == INSTANCE Frame
FO == INSTANCE Formats

mcvars == <<srv, ui, calls, view>>
On(v) == view = v /\ UNCHANGED view

MCInit ==
  \/ view = "Accounts" /\ AV!Init
  \/ view = "Bans" /\ BV!Init
  \/ view = "Overview" /\ OV!Init
  \/ view = "Stats" /\ SV!Init
  \/ view = "LoginTake" /\ LT!Init
  \/ view = "Models" /\ MV!Init
  \/ view = "Proxy" /\ PV!Init
  \/ view = "Logs" /\ LV!Init
  \/ view = "Experimental" /\ EV!Init
  \/ view = "Frame" /\ FR!Init
  \/ view = "Formats" /\ FO!Init

MCNext ==
  \/ On("Accounts") /\ AV!Next
  \/ On("Bans") /\ BV!Next
  \/ On("Overview") /\ OV!Next
  \/ On("Stats") /\ SV!Next
  \/ On("LoginTake") /\ LT!Next
  \/ On("Models") /\ MV!Next
  \/ On("Proxy") /\ PV!Next
  \/ On("Logs") /\ LV!Next
  \/ On("Experimental") /\ EV!Next
  \/ On("Frame") /\ FR!Next
  \/ On("Formats") /\ FO!Next

-----------------------------------------------------------------------------
(* The fairness of every view, stated once: a slot is one call at a time.   *)

MCStep(i) ==
  \/ On("Accounts") /\ AV!Step(i)
  \/ On("Bans") /\ BV!Step(i)
  \/ On("Overview") /\ OV!Step(i)
  \/ On("Stats") /\ SV!Step(i)
  \/ On("LoginTake") /\ LT!Step(i)
  \/ On("Models") /\ MV!Step(i)
  \/ On("Proxy") /\ PV!Step(i)
  \/ On("Logs") /\ LV!Step(i)
  \/ On("Experimental") /\ EV!Step(i)
  \/ On("Frame") /\ FR!Step(i)

MCPoll ==
  \/ On("Accounts") /\ AV!Poll
  \/ On("Bans") /\ BV!Poll
  \/ On("Overview") /\ OV!Poll
  \/ On("Stats") /\ SV!Poll

MCSpec ==
  /\ MCInit /\ [][MCNext]_mcvars
  /\ WF_mcvars(MCPoll) /\ WF_mcvars(On("Overview") /\ OV!LookAgain)
  /\ \A i \in Slots : WF_mcvars(MCStep(i))

-----------------------------------------------------------------------------
(* The types of the open view's state.                                      *)
TypeOK ==
  CASE view = "Accounts" -> AV!TypeOK [] view = "Bans" -> BV!TypeOK [] view = "Overview" -> OV!TypeOK
    [] view = "Stats" -> SV!TypeOK [] view = "LoginTake" -> LT!TypeOK [] view = "Models" -> MV!TypeOK
    [] view = "Proxy" -> PV!TypeOK [] view = "Logs" -> LV!TypeOK [] view = "Experimental" -> EV!TypeOK
    [] view = "Frame" -> FR!TypeOK [] view = "Formats" -> FO!TypeOK

(* Once the operator, other tabs and the network's faults rest, a view that *)
(* polls shows what the server has, whatever overlapped before: a late      *)
(* answer to an old load does not stay (Accounts.vue, Bans.vue,             *)
(* Overview.vue, Stats.vue).                                                *)
Disturbed ==
  \/ view = "Accounts" /\ (AV!Operator \/ AV!Elsewhere \/ AV!Faults)
  \/ view = "Bans" /\ (BV!Operator \/ BV!Elsewhere \/ BV!Faults)
  \/ view = "Overview" /\ (OV!Operator \/ OV!Elsewhere \/ OV!Faults)
  \/ view = "Stats" /\ (SV!Operator \/ SV!Elsewhere \/ SV!Faults)

UpToDate ==
  CASE view = "Accounts" -> AV!Fresh [] view = "Bans" -> BV!Fresh [] view = "Overview" -> OV!Fresh
    [] view = "Stats" -> SV!Fresh [] OTHER -> TRUE

PolledViewsCatchUp == <>[][~Disturbed]_mcvars => <>[]UpToDate

(* No spinner turns for ever, whatever is clicked and whichever call fails, *)
(* is lost or is answered late: an inert button comes back.  The popup's    *)
(* spinner is not among them, because a popup may stay open.                *)
Flags == {"loading", "historyLoading", "testing", "perAccountTesting", "submitting", "saving"}
SpinnersEnd == \A f \in Flags : []<>(~ui.mounted \/ f \notin ui.busy)

(* A view that is left stops asking: its interval is gone, and only what    *)
(* was under way is still answered.                                         *)
QuietAfterLeave == <>[](~ui.mounted) => <>[](\A c \in calls : c.op = "popup")

(* A setting shown is the server's setting, for an operator who waits for   *)
(* each answer and hears of no failure (Models.vue, Experimental.vue).      *)
WhatYouSee == (view = "Models" => MV!WhatYouSee) /\ (view = "Experimental" => EV!WhatYouSee)

(* What is worst or newest is not what a list buries or cuts: the health    *)
(* table of Bans.vue, the bars of Stats.vue, the history of LoginTake.vue,  *)
(* the order of Logs.vue.                                                   *)
NothingBuried ==
  /\ view = "Bans" => BV!WorstFirst
  /\ view = "Stats" => SV!NewestShown
  /\ view = "LoginTake" => LT!NewestFirst
  /\ view = "Logs" => LV!InOrder

(* Displays read back as the value, to a unit of their last digit, in every *)
(* band and across the bands (Overview.vue, Stats.vue, Bans.vue).           *)
ReadsTrue == view = "Formats" => FO!ReadsTrue
=============================================================================
