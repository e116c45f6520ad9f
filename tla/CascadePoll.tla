---------------------------- MODULE CascadePoll ----------------------------
(***************************************************************************)
(* One poll loop (src/internal/client/client.go: pollCascade) against the  *)
(* trajectory a language server builds for the turn.  The loop asks for    *)
(* the steps, then for the status, and learns about both late: an answer   *)
(* is computed when the server gives it and judged when it arrives.        *)
(* A text is known by its length: the server only ever appends to it.      *)
(***************************************************************************)
EXTENDS Integers, Sequences, SequencesExt

CONSTANTS
  MaxWait,        \* maxWait, in ticks
  IdleGrace,      \* idleGrace
  NoGrowthStall,  \* noGrowthStall
  ColdStall,      \* coldStall, for one size of input
  Deadline,       \* the time limit of one unary call (grpcx.Unary)
  StallRetryMin,  \* stallRetryMin, in units of text
  MaxTransient,   \* pollMaxTransient
  MaxSteps,       \* bound: steps of the trajectory
  MaxText,        \* bound: units of text in them
  MaxTime         \* bound: the clock stops here

\* The times are scaled down with their order kept: idleGrace 8 s, noGrowthStall 25 s,
\* coldStall from 30 s, a call's limit of 30 s, maxWait 180 s.
PollAssumption ==
  /\ {StallRetryMin, MaxTransient, MaxText} \subseteq Nat /\ MaxSteps \in Nat \ {0}
  /\ {IdleGrace, NoGrowthStall, ColdStall, Deadline, MaxWait, MaxTime} \subseteq Nat
  /\ IdleGrace <= NoGrowthStall /\ NoGrowthStall < ColdStall /\ ColdStall <= Deadline
  /\ Deadline < MaxWait /\ MaxWait <= MaxTime

VARIABLES
  now,   \* time since the loop started
  srv,   \* the language server's side
  poll,  \* the loop's locals
  said,  \* what onChunk was given: <<step, position>> one after the other
  dropped \* history: when a call last failed in passing since text came

vars == <<now, srv, poll, said, dropped>>

NothingSeen == [steps |-> <<>>, tool |-> FALSE, err |-> FALSE]

Locals ==
  [pc |-> "sleep", at |-> 0, seen |-> NothingSeen, yielded |-> [i \in 1 .. MaxSteps |-> 0],
   idle |-> 0, active |-> FALSE, text |-> FALSE, tool |-> FALSE, lastIdle |-> FALSE,
   growth |-> 0, steps |-> 0, stepsErrs |-> 0, statusErrs |-> 0, end |-> "none"]

NoTurnYet ==
  [state |-> "waiting", steps |-> <<>>, tool |-> FALSE, err |-> FALSE, mod |-> "none",
   timely |-> FALSE]

Init ==
  /\ now = 0
  /\ srv = NoTurnYet
  /\ poll = Locals
  /\ said = <<>>
  /\ dropped = 0

Watched == poll.pc # "done"

-----------------------------------------------------------------------------
(* The server: a turn begins, appends to its last step or adds one, and    *)
(* comes to rest; then it may hold a modified text, or an error.           *)

Begin ==
  /\ Watched /\ srv.state = "waiting"
  /\ srv' = [srv EXCEPT !.state = "running", !.timely = now <= IdleGrace /\ poll.pc # "judge"]
  /\ UNCHANGED <<now, poll, said, dropped>>

\* The text of a trajectory, a unit known by its step and its position there.
Units(steps) == UNION {{<<i, p>> : p \in 1 .. steps[i]} : i \in DOMAIN steps}
Length == Cardinality(Units(srv.steps))

Grow ==
  /\ Watched /\ srv.state = "running"
  /\ \/ /\ Length < MaxText /\ srv.steps # <<>>
        /\ srv' = [srv EXCEPT !.steps[Len(srv.steps)] = @ + 1]
     \/ /\ Len(srv.steps) < MaxSteps
        /\ srv' = [srv EXCEPT !.steps = Append(@, 0)]
     \/ /\ ~srv.tool
        /\ srv' = [srv EXCEPT !.tool = TRUE]
  /\ UNCHANGED <<now, poll, said, dropped>>

Rest ==
  /\ Watched /\ srv.state = "running"
  /\ srv' \in {[srv EXCEPT !.state = "idle"], [srv EXCEPT !.state = "idle", !.err = TRUE]}
             \cup {[srv EXCEPT !.state = "idle", !.mod = m] :
                     m \in IF srv.steps = <<>> THEN {} ELSE {"longer", "other"}}
  /\ UNCHANGED <<now, poll, said, dropped>>

-----------------------------------------------------------------------------
(* The loop.                                                               *)

Goes(to) == [poll EXCEPT !.pc = to, !.at = now]
Ends(end) == [Locals EXCEPT !.pc = "done", !.end = end]

\* Mutant: the time since something last happened, not since the start.
NeverTooLate == now - poll.growth < MaxWait

InTime == now < MaxWait

\* The loop's condition.
TimeUp ==
  /\ poll.pc = "sleep" /\ ~InTime
  /\ poll' = Ends("max_wait")
  /\ UNCHANGED <<now, srv, said, dropped>>

\* The client of the request hangs up.
Cancel ==
  /\ poll.pc = "sleep" /\ InTime
  /\ poll' = Ends("gone")
  /\ UNCHANGED <<now, srv, said, dropped>>

\* After pollInterval the loop asks, and the server answers GetCascadeTrajectorySteps; the
\* answer is on its way.
AnswerSteps ==
  /\ poll.pc = "sleep" /\ InTime
  /\ poll' = [Goes("digest") EXCEPT !.stepsErrs = 0,
                !.seen = [steps |-> srv.steps, tool |-> srv.tool, err |-> srv.err]]
  /\ UNCHANGED <<now, srv, said, dropped>>

\* Mutant: a dropped call leaves the stall timer running.
GrowthForgotten == poll.growth

GrowthAfterFailure == now

\* Mutant: no budget.
NeverSpent(errs) == FALSE

Spent(errs) == poll[errs] = MaxTransient

\* A dropped connection: the loop tries again, up to pollMaxTransient times in a row.
Transient(at, errs) ==
  /\ poll.pc = at /\ InTime
  /\ poll' = IF Spent(errs)
             THEN Ends("error")
             ELSE [poll EXCEPT !.pc = "sleep", ![errs] = @ + 1, !.growth = GrowthAfterFailure]
  /\ dropped' = IF poll.text THEN now ELSE 0
  /\ UNCHANGED <<now, srv, said>>

\* Any other failure of a call, its time limit too.
Broken ==
  /\ poll.pc \in {"sleep", "status"} /\ InTime
  /\ poll' = Ends("error")
  /\ UNCHANGED <<now, srv, said, dropped>>

Cold == now > ColdStall /\ poll.active /\ ~poll.text /\ ~poll.tool
Warm == poll.text /\ ~poll.lastIdle /\ now - poll.growth > NoGrowthStall

\* The units of step i after the first `from`, up to `to`.
Delta(i, from, to) == [j \in 1 .. to - from |-> <<i, from + j>>]
News(yielded, steps) ==
  FlattenSeq([i \in DOMAIN steps |-> Delta(i, yielded[i], steps[i])])
Upto(yielded, steps) ==
  [i \in DOMAIN yielded |->
     IF i \in DOMAIN steps /\ steps[i] > yielded[i] THEN steps[i] ELSE yielded[i]]

\* The steps arrive: an error step, the stall verdicts, then what is new in them.
Digest ==
  /\ poll.pc = "digest"
  /\ LET seen == poll.seen
         news == News(poll.yielded, seen.steps)
         grown == \/ Len(seen.steps) > poll.steps
                  \/ seen.tool /\ ~poll.tool
                  \/ news # <<>>
     IN  \/ /\ seen.err
            /\ poll' = Ends("model_error") /\ UNCHANGED said
         \/ /\ ~seen.err /\ Cold
            /\ poll' = Ends("stall_cold") /\ UNCHANGED said
         \/ /\ ~seen.err /\ ~Cold /\ Warm
            /\ poll' = Ends(IF Len(said) < StallRetryMin THEN "stall_retry" ELSE "stall_warm")
            /\ UNCHANGED said
         \/ /\ ~seen.err /\ ~Cold /\ ~Warm
            /\ said' = said \o news
            /\ poll' = [poll EXCEPT !.pc = "status", !.at = 0,
                          !.seen = NothingSeen,
                          !.yielded = Upto(@, seen.steps),
                          !.text = @ \/ news # <<>>,
                          !.tool = @ \/ seen.tool,
                          !.steps = IF Len(seen.steps) > @ THEN Len(seen.steps) ELSE @,
                          !.growth = IF grown THEN now ELSE @]
  /\ UNCHANGED <<now, srv, dropped>>

\* The server answers GetCascadeTrajectory: IDLE unless the turn is running.
AnswerStatus ==
  /\ poll.pc = "status"
  /\ LET idle == srv.state # "running" IN
     poll' = [Goes("judge") EXCEPT !.statusErrs = 0, !.lastIdle = idle,
                          !.active = @ \/ ~idle]
  /\ UNCHANGED <<now, srv, said, dropped>>

\* Mutant: one sight of IDLE is enough.
OneIdle(text) == 1

\* How often IDLE has to be seen before the turn counts as over.
IdlesNeeded(text) == IF text THEN 2 ELSE 4

\* The status arrives.
Judge ==
  /\ poll.pc = "judge"
  /\ \/ /\ ~poll.lastIdle
        /\ poll' = [poll EXCEPT !.pc = "sleep", !.at = 0, !.idle = 0]
     \/ /\ poll.lastIdle /\ ~poll.active /\ now <= IdleGrace
        /\ poll' = [poll EXCEPT !.pc = "sleep", !.at = 0]
     \/ /\ poll.lastIdle /\ (poll.active \/ now > IdleGrace)
        /\ poll' = [poll EXCEPT !.at = 0, !.idle = @ + 1,
                     !.pc = IF poll.idle + 1 >= IdlesNeeded(poll.text) THEN "sweep" ELSE "sleep"]
  /\ UNCHANGED <<now, srv, said, dropped>>

\* Mutant: the modified text is counted from where the sweep began.
CursorBefore(yielded, steps, i) == yielded[i]

\* How far step i has been said when the sweep comes to its modified text.
Cursor(yielded, steps, i) == Upto(yielded, steps)[i]

\* The final sweep: what is still new, then the rest of a modified text that only adds
\* to the response.  It may fail, and then changes nothing.
Sweep ==
  /\ poll.pc = "sweep"
  /\ poll' = Ends("idle")
  /\ \/ UNCHANGED said
     \/ LET n == Len(srv.steps)
            more == IF srv.mod = "longer"
                    THEN Delta(n, Cursor(poll.yielded, srv.steps, n), srv.steps[n] + 1)
                    ELSE <<>>
        IN  said' = said \o News(poll.yielded, srv.steps) \o more
  /\ UNCHANGED <<now, srv, dropped>>

-----------------------------------------------------------------------------
\* Time passes, in a call no more than its time limit.
Tick ==
  /\ now < MaxTime
  /\ Watched
  /\ poll.pc \in {"digest", "judge"} => now < poll.at + Deadline
  /\ now' = now + 1
  /\ UNCHANGED <<srv, poll, said, dropped>>

Over == poll.pc = "done" /\ UNCHANGED vars

Loop ==
  \/ TimeUp \/ AnswerSteps \/ Digest \/ AnswerStatus \/ Judge \/ Sweep \/ Broken
  \/ Transient("sleep", "stepsErrs") \/ Transient("status", "statusErrs")

Next == Begin \/ Grow \/ Rest \/ Loop \/ Cancel \/ Tick \/ Over

Spec == Init /\ [][Next]_vars

\* The loop goes on, every call ends, and time passes; nothing is asked of the server.
FairSpec == Spec /\ WF_vars(Loop) /\ WF_vars(Tick)

-----------------------------------------------------------------------------
Trajectories == BoundedSeq(0 .. MaxText, MaxSteps)

\* The loop's locals stay in range: no error budget is overdrawn, no idle is counted on
\* beyond the four that end a turn without text, no position lies beyond the text.
TypeOK ==
  /\ now \in 0 .. MaxTime
  /\ srv \in [state : {"waiting", "running", "idle"}, steps : Trajectories, tool : BOOLEAN,
               err : BOOLEAN, mod : {"none", "longer", "other"}, timely : BOOLEAN]
  /\ poll.seen \in [steps : Trajectories, tool : BOOLEAN, err : BOOLEAN]
  /\ poll.pc \in {"sleep", "digest", "status", "judge", "sweep", "done"}
  /\ poll.end \in {"none", "max_wait", "gone", "error", "model_error", "stall_cold",
                   "stall_retry", "stall_warm", "idle"}
  /\ {poll.stepsErrs, poll.statusErrs} \subseteq 0 .. MaxTransient
  /\ poll.idle \in 0 .. 4
  /\ \A i \in 1 .. MaxSteps : poll.yielded[i] \in 0 .. MaxText
  /\ {poll.at, poll.growth, dropped} \subseteq 0 .. now

Before(p, q) == p[1] < q[1] \/ (p[1] = q[1] /\ p[2] < q[2])

\* Nothing is said twice, skipped or said out of order, however the polls, their
\* retries and the final sweep overlap with the growth of the trajectory (yielded).
SaidOnce ==
  /\ \A a, b \in DOMAIN said : a < b => Before(said[a], said[b])
  /\ \A a \in DOMAIN said :
       said[a][2] > 1 => \E b \in DOMAIN said : said[b] = <<said[a][1], said[a][2] - 1>>

\* An answer that is taken as complete holds all the turn wrote, and is no dropped turn:
\* steps are read before the status, so IDLE alone does not say that they were the last,
\* and the final sweep may fail (idleCount).  The turn must have begun within idleGrace,
\* and not while an IDLE from before it is on its way: that one is counted when it
\* arrives after the grace.
WholeAnswer ==
  poll.end = "idle" /\ srv.timely =>
    /\ ~srv.err
    /\ Units(srv.steps) \subseteq ToSet(said)

\* A dropped connection is not taken for a model that fell silent: after one, the wait
\* for progress starts anew (lastGrowthAt on a transient error).
FailureIsNoStall ==
  [][poll.pc = "digest" /\ poll'.end \in {"stall_retry", "stall_warm"} =>
       now - dropped > NoGrowthStall]_vars

\* Every call ends, even if the server grows for ever, hangs, or fails now and then.
EndsInTime == <>(poll.pc = "done")

=============================================================================
