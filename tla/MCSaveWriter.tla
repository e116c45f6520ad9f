---------------------------- MODULE MCSaveWriter ----------------------------
(* The two loops that go on until they are done, whatever their partner    *)
(* does meanwhile: the writer of a settings store, or the poll loop of a   *)
(* turn; one of them in each behaviour.                                    *)
EXTENDS SaveWriter

CONSTANTS
  MaxWait, IdleGrace, NoGrowthStall, ColdStall, Deadline, StallRetryMin, MaxTransient,
  MaxSteps, MaxText, MaxTime

VARIABLES polling, now, srv, poll, said, dropped

CP == INSTANCE CascadePoll

ASSUME LoopAssumption == CP!PollAssumption

pollVars == <<now, srv, poll, said, dropped>>
mcvars == <<vars, polling, pollVars>>

\* Where the writer runs, no turn is polled.
NoTurn == [CP!Locals EXCEPT !.pc = "done"]

MCInit ==
  /\ Init
  /\ now = 0 /\ srv = CP!NoTurnYet /\ said = <<>> /\ dropped = 0
  /\ \/ polling = TRUE /\ poll = CP!Locals
     \/ polling = FALSE /\ poll = NoTurn

Writes(A) == ~polling /\ A /\ UNCHANGED <<polling, pollVars>>
Polls(A) == polling /\ A /\ UNCHANGED <<polling, vars>>

MCNext == Writes(Next) \/ Polls(CP!Next)

\* The fairness of both, as they state it.
MCSpec ==
  /\ MCInit /\ [][MCNext]_mcvars
  /\ WF_mcvars(Writes(Publish \/ Wake)) /\ WF_mcvars(Writes(Receive \/ Grab \/ Write))
  /\ WF_mcvars(Polls(CP!Loop)) /\ WF_mcvars(Polls(CP!Tick))

-----------------------------------------------------------------------------
(* No server keeps a turn open for ever (client.go).                        *)
EndsInTime == CP!EndsInTime
=============================================================================
