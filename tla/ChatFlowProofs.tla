--------------------------- MODULE ChatFlowProofs ---------------------------
(***************************************************************************)
(* Theorems about ChatFlow, for any number of requests, accounts and       *)
(* cascades: the handlers' bookkeeping agrees with both pools, a stream    *)
(* speaks with one voice, requests use the conversation pool as ConvPool   *)
(* says its callers do, and a resumed conversation is the caller's own.    *)
(*                                                                         *)
(* What the pools' own proofs show is taken over by instantiating them.    *)
(* The capacity check marks an account for 5 minutes, which need not be a  *)
(* window a server reports: the account pool is instantiated with any.     *)
(***************************************************************************)
EXTENDS ChatFlow, FiniteSetTheorems, TLAPS

AP == INSTANCE AccountPoolProofs WITH Windows <- Nat
CV == INSTANCE ConvPoolProofs WITH holds <- Holds

-----------------------------------------------------------------------------
(* The locals of one request.                                              *)

\* Where a request holds an account, and where it is on its way to one or holds one.
Busy == {"preflight", "ensure", "send", "poll", "report"}
Trying == Busy \cup {"first", "wait"}

Finishing(q) == q.pc = "report" /\ q.then = "finish"

\* Its answer is complete, or being given.
Served(q) == q.pc = "poll" \/ Finishing(q)

Fields ==
  {"pc", "stream", "client", "turn", "model", "hop", "reuseOn", "reuse", "cascade", "sent",
   "gone", "tried", "attempt", "max", "waits", "acct", "port", "todo", "then", "last",
   "spoke", "answer"}

\* Each local has a value its step can use.
Local(q) ==
  /\ q = [f \in Fields |-> q[f]]
  /\ q.pc \in Trying \cup {"idle", "enter", "checkout", "loop", "exhausted", "done"}
  /\ q.stream \in BOOLEAN /\ q.reuseOn \in BOOLEAN
  /\ q.tried \subseteq Accounts
  /\ q.reuse \in Conv!Entry \cup {NoEntry} /\ q.cascade \in Cascades \cup {0}
  /\ q.pc # "idle" => q.client \in Clients /\ q.turn \in 1..Turns /\ q.model \in Models
  /\ q.pc \in Busy => q.acct \in Accounts
  /\ q.pc = "send" \/ Served(q) => q.port \in Ports
  /\ q.attempt \in Nat /\ q.max \in 0..10 /\ q.attempt <= q.max
  /\ q.pc \in Trying => q.attempt < q.max

\* A request has spoken in its last attempt only, and is not to try again.
Speaks(q) ==
  /\ q.spoke \subseteq {q.attempt}
  /\ ~q.stream => q.spoke = {}
  /\ q.pc \notin {"poll", "report", "exhausted", "done"} => q.spoke = {}
  /\ q.pc = "report" /\ q.then = "retry" => q.spoke = {}

\* The cascade of a request is the one it resumes, or the one it opened.
Using(q) ==
  /\ q.pc \in {"idle", "enter", "checkout"} => q.reuse = NoEntry
  /\ q.pc = "first" => q.reuse # NoEntry
  /\ q.reuse # NoEntry => q.reuseOn /\ q.cascade = q.reuse.cascade
  /\ q.reuse = NoEntry /\ ~Served(q) => q.cascade = 0
  /\ Served(q) /\ q.reuseOn => q.cascade # 0
  /\ q.pc = "poll" /\ q.reuse # NoEntry => q.sent

Sound(q) == Local(q) /\ Speaks(q) /\ Using(q)

\* A step from locals q to locals p that comes by no cascade: what was checked
\* out is kept as it is or let go.
Quiet(q, p) ==
  /\ Sound(p)
  /\ p.cascade \in {q.cascade, 0}
  /\ p.reuse # NoEntry =>
       p.reuse = q.reuse /\ p.client = q.client /\ p.turn = q.turn /\ (q.sent => p.sent)
  /\ Finishing(p) => Finishing(q) /\ p.client = q.client /\ p.turn = q.turn

\* It holds the account it held, if any.
Keeps(q, p) ==
  /\ q.pc \in Busy <=> p.pc \in Busy
  /\ q.pc \in Busy => p.acct = q.acct

\* Before a request arrives.
LEMMA IdleSound == Sound(Idle)
<1> DEFINE i == Idle
<1>1. i = [f \in Fields |-> i[f]]
  BY DEF Idle, Fields
<1>2. /\ i.pc = "idle" /\ i.stream = FALSE /\ i.reuseOn = FALSE /\ i.tried = {}
      /\ i.reuse = NoEntry /\ i.cascade = 0 /\ i.attempt = 0 /\ i.max = 0 /\ i.spoke = {}
  BY DEF Idle
<1> HIDE DEF i
<1>3. i.pc \notin Trying \cup Busy /\ ~Served(i)
  BY <1>2 DEF Served, Finishing, Trying, Busy
<1>4. Local(i)
  <2>1. i.stream \in BOOLEAN /\ i.reuseOn \in BOOLEAN /\ i.tried \subseteq Accounts
    BY <1>2
  <2>2. i.reuse \in Conv!Entry \cup {NoEntry} /\ i.cascade \in Cascades \cup {0}
    BY <1>2
  <2>3. i.attempt \in Nat /\ i.max \in 0..10 /\ i.attempt <= i.max
    BY <1>2
  <2> QED BY <1>1, <1>2, <1>3, <2>1, <2>2, <2>3 DEF Local
<1>5. Speaks(i)
  BY <1>2 DEF Speaks
<1>6. Using(i)
  BY <1>2, <1>3 DEF Using
<1> QED BY <1>4, <1>5, <1>6 DEF Sound, i

\* What the loop head does.
LEMMA LoopCases ==
  ASSUME NEW q, q.attempt \in Nat, q.max \in Nat
  PROVE  \/ q.attempt >= q.max /\ Loop(q) = [q EXCEPT !.pc = "exhausted"]
         \/ q.attempt < q.max /\ Loop(q) = Answered(q, "gone")
         \/ /\ q.attempt < q.max
            /\ Loop(q) = [q EXCEPT !.waits = 0,
                   !.pc = IF q.reuse # NoEntry /\ q.attempt = 0 THEN "first" ELSE "wait"]
<1>1. CASE q.attempt >= q.max
  BY <1>1 DEF Loop
<1>2. CASE q.attempt < q.max /\ q.stream /\ q.gone
  BY <1>2 DEF Loop
<1>3. CASE q.attempt < q.max /\ ~(q.stream /\ q.gone)
  BY <1>3 DEF Loop
<1> QED BY <1>1, <1>2, <1>3

\* An answer lets go of everything.
LEMMA AnsweredQuiet ==
  ASSUME NEW q, Sound(q), q.pc # "idle", NEW a
  PROVE  Quiet(q, Answered(q, a)) /\ Answered(q, a).pc = "done"
  BY DEF Answered, Quiet, Sound, Local, Speaks, Using, Fields, Served, Finishing, Busy, Trying

\* The loop head before the first attempt.
LEMMA LoopQuiet ==
  ASSUME NEW q, Sound(q), q.pc = "loop"
  PROVE  Quiet(q, Loop(q)) /\ Loop(q).pc \notin Busy
<1>1. q.attempt \in Nat /\ q.max \in Nat
  BY DEF Sound, Local
<1>2. CASE q.attempt >= q.max /\ Loop(q) = [q EXCEPT !.pc = "exhausted"]
  BY <1>2 DEF Quiet, Sound, Local, Speaks, Using, Fields, Served, Finishing, Busy, Trying
<1>3. CASE Loop(q) = Answered(q, "gone")
  BY <1>3, AnsweredQuiet DEF Busy
<1>4. CASE /\ q.attempt < q.max
           /\ Loop(q) = [q EXCEPT !.waits = 0,
                  !.pc = IF q.reuse # NoEntry /\ q.attempt = 0 THEN "first" ELSE "wait"]
  BY <1>4 DEF Quiet, Sound, Local, Speaks, Using, Fields, Served, Finishing, Busy, Trying
<1> QED BY <1>1, <1>2, <1>3, <1>4, LoopCases

\* The loop head after an attempt that failed without having spoken.
LEMMA AgainQuiet ==
  ASSUME NEW q, Sound(q), q.pc = "report", q.then = "retry"
  PROVE  LET p == Loop([q EXCEPT !.attempt = @ + 1])
         IN  Quiet(q, p) /\ p.pc \notin Busy
<1> DEFINE s == [q EXCEPT !.attempt = @ + 1]
<1>0. /\ s = [f \in Fields |-> s[f]]
      /\ \A f \in Fields \ {"attempt"} : s[f] = q[f]
      /\ s.attempt = q.attempt + 1
  BY DEF Sound, Local, Fields
<1>1. /\ s.attempt \in Nat /\ s.max \in Nat /\ s.attempt <= s.max /\ s.max \in 0..10
      /\ s.pc = "report" /\ s.then = "retry" /\ s.spoke = {}
      /\ s.stream \in BOOLEAN /\ s.reuseOn \in BOOLEAN /\ s.tried \subseteq Accounts
      /\ s.reuse \in Conv!Entry \cup {NoEntry} /\ s.cascade \in Cascades \cup {0}
      /\ s.client \in Clients /\ s.turn \in 1..Turns /\ s.model \in Models
      /\ s.reuse # NoEntry => s.reuseOn /\ s.cascade = s.reuse.cascade
      /\ s.reuse = NoEntry => s.cascade = 0
  <2> HIDE DEF s
  <2> QED BY <1>0 DEF Sound, Local, Speaks, Using, Fields, Trying, Busy, Served, Finishing
<1>2. /\ s.cascade = q.cascade /\ s.reuse = q.reuse
      /\ s.client = q.client /\ s.turn = q.turn /\ s.sent = q.sent
  <2> HIDE DEF s
  <2> QED BY <1>0 DEF Fields
<1> DEFINE p == Loop(s)
<1>3. SUFFICES Quiet(q, p) /\ p.pc \notin Busy
  OBVIOUS
<1>4. /\ p = [f \in Fields |-> p[f]]
      /\ \/ p.pc = "exhausted" /\ p.reuse = s.reuse /\ p.cascade = s.cascade
         \/ p.pc = "done" /\ p.reuse = NoEntry /\ p.cascade = 0
         \/ p.pc \in {"first", "wait"} /\ p.reuse = s.reuse /\ p.cascade = s.cascade
            /\ s.attempt < s.max /\ (p.pc = "first" => s.reuse # NoEntry)
      /\ p.attempt = s.attempt /\ p.max = s.max /\ p.spoke = s.spoke /\ p.stream = s.stream
      /\ p.reuseOn = s.reuseOn /\ p.tried = s.tried /\ p.client = s.client /\ p.turn = s.turn
      /\ p.model = s.model /\ p.sent = s.sent
  <2> HIDE DEF s
  <2>1. CASE Loop(s) = [s EXCEPT !.pc = "exhausted"]
    BY <1>0, <2>1 DEF Fields
  <2>2. CASE Loop(s) = Answered(s, "gone")
    <3> HIDE DEF p
    <3>1. p = [s EXCEPT !.pc = "done", !.answer = "gone", !.reuse = NoEntry, !.cascade = 0]
      BY <2>2 DEF Answered, p
    <3> QED BY <1>0, <3>1 DEF Fields
  <2>3. CASE /\ s.attempt < s.max
             /\ Loop(s) = [s EXCEPT !.waits = 0,
                    !.pc = IF s.reuse # NoEntry /\ s.attempt = 0 THEN "first" ELSE "wait"]
    BY <1>0, <2>3 DEF Fields
  <2> QED BY <1>1, <2>1, <2>2, <2>3, LoopCases
<1> HIDE DEF p, s
<1>5. p.pc \notin Busy /\ ~Served(p) /\ ~Finishing(p)
  BY <1>4 DEF Busy, Served, Finishing
<1>6. Local(p)
  BY <1>1, <1>4, <1>5 DEF Local, Trying
<1>7. Speaks(p)
  BY <1>1, <1>4 DEF Speaks
<1>8. Using(p)
  BY <1>1, <1>4, <1>5 DEF Using
<1> QED BY <1>2, <1>4, <1>5, <1>6, <1>7, <1>8 DEF Quiet, Sound

\* The fallback hop, of a stream only before it has begun.
LEMMA HopQuiet ==
  ASSUME NEW q, Sound(q), CanHop(q), q.pc = "enter" \/ (q.pc = "exhausted" /\ ~q.stream)
  PROVE  Quiet(q, Hopped(q)) /\ Hopped(q).pc = "enter"
  BY FallbackAssumption
     DEF CanHop, Hopped, Quiet, Sound, Local, Speaks, Using, Fields, Served, Finishing, Busy, Trying
-----------------------------------------------------------------------------
(* The steps that come by no cascade.                                      *)

Locals == req = [r \in Requests |-> req[r]] /\ \A r \in Requests : Sound(req[r])

Ported == portOf \in [Accounts -> Ports]

\* Request r moves on to locals p.
Moves(r, p) == req' = [req EXCEPT ![r] = p] /\ Quiet(req[r], p)

\* A request arrives with no cascade and no account, and is let in or refused.
LEMMA ArriveMoves ==
  ASSUME Locals, NEW r \in Requests, Arrive(r)
  PROVE  \E p : Moves(r, p) /\ Keeps(req[r], p)
<1>1. PICK client \in Clients, turn \in 1..Turns, m \in Models, stream \in BOOLEAN,
           reuseOn \in BOOLEAN :
        LET q == [Idle EXCEPT !.client = client, !.turn = turn, !.model = m, !.stream = stream,
                              !.reuseOn = reuseOn]
        IN  /\ Step(r, "idle", IF m \in Allowed /\ Pool!HasEligible(m)
                               THEN [q EXCEPT !.pc = "enter"] ELSE Answered(q, "refused"))
            /\ UNCHANGED <<now, poolVars, convVars, portOf, server>>
  BY DEF Arrive
<1> DEFINE q == [Idle EXCEPT !.client = client, !.turn = turn, !.model = m, !.stream = stream,
                             !.reuseOn = reuseOn]
           p == [q EXCEPT !.pc = "enter"]
           d == Answered(q, "refused")
<1>2. /\ Sound(q) /\ q = [f \in Fields |-> q[f]]
      /\ q.client = client /\ q.turn = turn /\ q.model = m /\ q.cascade = 0 /\ q.reuse = NoEntry
      /\ q.pc = "idle" /\ q.spoke = {}
  <2> DEFINE i == Idle
  <2>1. Sound(i)
    BY IdleSound
  <2>2. i.pc = "idle" /\ i.cascade = 0 /\ i.reuse = NoEntry /\ i.spoke = {}
    BY DEF Idle
  <2> HIDE DEF i
  <2>3. q = [i EXCEPT !.client = client, !.turn = turn, !.model = m, !.stream = stream,
                      !.reuseOn = reuseOn]
    BY DEF i
  <2> HIDE DEF q
  <2> QED
    BY <2>1, <2>2, <2>3 DEF Sound, Local, Speaks, Using, Fields, Served, Finishing, Busy, Trying
<1> HIDE DEF q
<1>3. Sound(p) /\ p.pc = "enter" /\ p.cascade = 0 /\ p.reuse = NoEntry
  BY <1>2 DEF Sound, Local, Speaks, Using, Fields, Served, Finishing, Busy, Trying
<1>4. Sound(d) /\ d.pc = "done" /\ d.cascade = 0 /\ d.reuse = NoEntry
  BY <1>2 DEF Answered, Sound, Local, Speaks, Using, Fields, Served, Finishing, Busy, Trying
<1>5. req[r].pc = "idle" /\ (req' = [req EXCEPT ![r] = p] \/ req' = [req EXCEPT ![r] = d])
  BY <1>1 DEF Step, q
<1> HIDE DEF p, d
<1> QED BY <1>3, <1>4, <1>5 DEF Moves, Quiet, Keeps, Finishing, Busy

\* The drought check and the early hop hold nothing either.
LEMMA EnterMoves ==
  ASSUME Locals, NEW r \in Requests, Enter(r)
  PROVE  \E p : Moves(r, p) /\ Keeps(req[r], p)
<1> DEFINE q == req[r]
           c == [q EXCEPT !.pc = "checkout"]
<1>1. Sound(q) /\ q.pc = "enter"
  BY DEF Locals, Enter, Step
<1>2. \/ req' = [req EXCEPT ![r] = Answered(q, "drought")]
      \/ CanHop(q) /\ req' = [req EXCEPT ![r] = Hopped(q)]
      \/ req' = [req EXCEPT ![r] = c]
  <2>1. CASE Pool!IsModelBlockedByDrought(q.model)
    BY <2>1 DEF Enter, Step
  <2>2. CASE /\ ~Pool!IsModelBlockedByDrought(q.model) /\ q.stream /\ CanHop(q)
             /\ Pool!IsAllRateLimited(q.model)
    BY <2>2 DEF Enter, Step
  <2>3. CASE /\ ~Pool!IsModelBlockedByDrought(q.model)
             /\ ~(q.stream /\ CanHop(q) /\ Pool!IsAllRateLimited(q.model))
    BY <2>3 DEF Enter, Step
  <2> QED BY <2>1, <2>2, <2>3
<1>3. Quiet(q, c) /\ c.pc = "checkout"
  BY <1>1 DEF Quiet, Sound, Local, Speaks, Using, Fields, Served, Finishing, Busy, Trying
<1> HIDE DEF q, c
<1>4. SUFFICES \E p : req' = [req EXCEPT ![r] = p] /\ Quiet(q, p) /\ p.pc \notin Busy
  BY <1>1 DEF Moves, Keeps, Busy, q
<1>5. CASE req' = [req EXCEPT ![r] = Answered(q, "drought")]
  BY <1>1, <1>5, AnsweredQuiet DEF Busy
<1>6. CASE CanHop(q) /\ req' = [req EXCEPT ![r] = Hopped(q)]
  BY <1>1, <1>6, HopQuiet DEF Busy
<1>7. CASE req' = [req EXCEPT ![r] = c]
  BY <1>3, <1>7 DEF Busy
<1> QED BY <1>2, <1>5, <1>6, <1>7

\* The first attempt; a client that has left takes the cascade with it.
LEMMA BeginMoves ==
  ASSUME Locals, NEW r \in Requests, Begin(r)
  PROVE  \E p : Moves(r, p) /\ Keeps(req[r], p)
<1>1. Sound(req[r]) /\ req[r].pc = "loop" /\ req' = [req EXCEPT ![r] = Loop(req[r])]
  BY DEF Locals, Begin, Step
<1> QED BY <1>1, LoopQuiet DEF Moves, Keeps, Busy

\* The language server is reached, with or without the cascade, or not at all.
LEMMA EnsureMoves ==
  ASSUME Locals, Ported, NEW r \in Requests, Ensure(r)
  PROVE  \E p : Moves(r, p) /\ Keeps(req[r], p)
<1> DEFINE q == req[r]
           up == [q EXCEPT !.pc = "send", !.port = portOf[q.acct]]
           down == [q EXCEPT !.pc = "report", !.then = "stop", !.last = "ls"]
<1>1. Sound(q) /\ q.pc = "ensure" /\ portOf[q.acct] \in Ports
  BY DEF Locals, Ported, Ensure, Step, Sound, Local, Busy
<1>2. \E p \in {down, up, LetGo(up)} : req' = [req EXCEPT ![r] = p]
  BY DEF Ensure, Step
<1>3. Quiet(q, down) /\ Keeps(q, down)
  BY <1>1 DEF Quiet, Keeps, Sound, Local, Speaks, Using, Fields, Served, Finishing, Busy, Trying
<1>4. Quiet(q, up) /\ Keeps(q, up)
  BY <1>1 DEF Quiet, Keeps, Sound, Local, Speaks, Using, Fields, Served, Finishing, Busy, Trying
<1>5. Quiet(q, LetGo(up)) /\ Keeps(q, LetGo(up))
  BY <1>1
     DEF LetGo, Quiet, Keeps, Sound, Local, Speaks, Using, Fields, Served, Finishing, Busy, Trying
<1> HIDE DEF up, down
<1> QED BY <1>2, <1>3, <1>4, <1>5 DEF Moves

\* A chunk is of the attempt being polled.
LEMMA ChunkMoves ==
  ASSUME Locals, NEW r \in Requests, Chunk(r)
  PROVE  \E p : Moves(r, p) /\ Keeps(req[r], p)
<1> DEFINE q == req[r]
           p == [q EXCEPT !.spoke = @ \cup {q.attempt}]
<1>1. Sound(q) /\ q.pc = "poll" /\ q.stream /\ req' = [req EXCEPT ![r] = p]
  BY DEF Locals, Chunk, Step
<1>2. Quiet(q, p) /\ Keeps(q, p)
  BY <1>1 DEF Quiet, Keeps, Sound, Local, Speaks, Using, Fields, Served, Finishing, Busy, Trying
<1> QED BY <1>1, <1>2 DEF Moves

\* A client that disconnects changes nothing else.
LEMMA LeaveMoves ==
  ASSUME Locals, NEW r \in Requests, Leave(r)
  PROVE  \E p : Moves(r, p) /\ Keeps(req[r], p)
<1> DEFINE q == req[r]
           p == [q EXCEPT !.gone = TRUE]
<1>1. Sound(q) /\ q.pc # "idle" /\ req' = [req EXCEPT ![r] = p]
  BY DEF Locals, Leave
<1>2. Quiet(q, p) /\ Keeps(q, p)
  BY <1>1 DEF Quiet, Keeps, Sound, Local, Speaks, Using, Fields, Served, Finishing, Busy, Trying
<1> QED BY <1>1, <1>2 DEF Moves

\* A failed attempt keeps what it resumed or lets it go; after a chunk it is the last.
LEMMA FailMoves ==
  ASSUME Locals, NEW r \in Requests, Fail(r)
  PROVE  \E p : Moves(r, p) /\ Keeps(req[r], p)
<1> DEFINE q == req[r]
<1>1. Sound(q) /\ q.pc \in {"send", "poll"}
  BY DEF Locals, Fail
<1>2. PICK e \in Failures :
        LET retry == Retries(q, e)
            failed == [q EXCEPT !.pc = "report", !.then = IF retry THEN "retry" ELSE "stop",
                                !.todo = Signals(q.stream, e),
                                !.last = IF "rateLimit" \in e THEN "rate_limited" ELSE "error"]
        IN  Step(r, q.pc, IF q.reuse = NoEntry \/ (q.stream /\ retry) THEN LetGo(failed)
                          ELSE failed)
  BY DEF Fail
<1> DEFINE signals == Signals(q.stream, e)
           cause == IF "rateLimit" \in e THEN "rate_limited" ELSE "error"
           again == IF Retries(q, e) THEN "retry" ELSE "stop"
           failed == [q EXCEPT !.pc = "report", !.then = again, !.todo = signals, !.last = cause]
<1>3. \/ q.reuse # NoEntry /\ req' = [req EXCEPT ![r] = failed]
      \/ req' = [req EXCEPT ![r] = LetGo(failed)]
  BY <1>2 DEF Step
<1>4. /\ again = "retry" => (q.stream => q.spoke = {})
      /\ again \in {"retry", "stop"}
  BY DEF Retries
<1> HIDE DEF signals, cause, again
<1>5. Quiet(q, LetGo(failed)) /\ Keeps(q, LetGo(failed))
  BY <1>1, <1>4
     DEF LetGo, Quiet, Keeps, Sound, Local, Speaks, Using, Fields, Served, Finishing, Busy, Trying
<1>6. q.reuse # NoEntry => Quiet(q, failed) /\ Keeps(q, failed)
  BY <1>1, <1>4
     DEF Quiet, Keeps, Sound, Local, Speaks, Using, Fields, Served, Finishing, Busy, Trying
<1> HIDE DEF failed
<1> QED BY <1>3, <1>5, <1>6 DEF Moves

\* The capacity check keeps account and cascade, whichever way it goes.
LEMMA PreflightMoves ==
  ASSUME Locals, NEW r \in Requests, Preflight(r)
  PROVE  \E p : Moves(r, p) /\ Keeps(req[r], p)
<1> DEFINE q == req[r]
           on == [q EXCEPT !.pc = "ensure"]
           over == [q EXCEPT !.pc = "report", !.then = "retry"]
<1>1. Sound(q) /\ q.pc = "preflight" /\ \E p \in {on, over} : req' = [req EXCEPT ![r] = p]
  BY DEF Locals, Preflight, Step
<1>2. Quiet(q, on) /\ Keeps(q, on)
  BY <1>1 DEF Quiet, Keeps, Sound, Local, Speaks, Using, Fields, Served, Finishing, Busy, Trying
<1>3. Quiet(q, over) /\ Keeps(q, over)
  BY <1>1 DEF Quiet, Keeps, Sound, Local, Speaks, Using, Fields, Served, Finishing, Busy, Trying
<1> HIDE DEF on, over
<1> QED BY <1>1, <1>2, <1>3 DEF Moves

\* A report changes only what is left to report.
LEMMA ReportMoves ==
  ASSUME Locals, NEW r \in Requests, Report(r)
  PROVE  \E p : Moves(r, p) /\ Keeps(req[r], p)
<1> DEFINE q == req[r]
           rest == Tail(q.todo)
           p == [q EXCEPT !.todo = rest]
<1>1. Sound(q) /\ q.pc = "report" /\ req' = [req EXCEPT ![r] = p]
  BY DEF Locals, Report, Step
<1> HIDE DEF rest
<1>2. Quiet(q, p) /\ Keeps(q, p)
  BY <1>1 DEF Quiet, Keeps, Sound, Local, Speaks, Using, Fields, Served, Finishing, Busy, Trying
<1> QED BY <1>1, <1>2 DEF Moves

\* The end of the loop: the fallback hop, or an answer.
LEMMA ExhaustedMoves ==
  ASSUME Locals, NEW r \in Requests, Exhausted(r)
  PROVE  \E p : Moves(r, p) /\ Keeps(req[r], p)
<1> DEFINE q == req[r]
           all == Pool!IsAllRateLimited(q.model)
<1>1. Sound(q) /\ q.pc = "exhausted"
  BY DEF Locals, Exhausted, Step
<1>2. \/ CanHop(q) /\ ~q.stream /\ req' = [req EXCEPT ![r] = Hopped(q)]
      \/ \E a : req' = [req EXCEPT ![r] = Answered(q, a)]
  <2> HIDE DEF all
  <2>0. Step(r, "exhausted",
           CASE ~q.stream /\ q.last = "" /\ all /\ CanHop(q) -> Hopped(q)
             [] ~q.stream /\ q.last = "" /\ all /\ ~CanHop(q) -> Answered(q, "rate_limited")
             [] ~q.stream /\ q.last = "" /\ ~all -> Answered(q, "pool_exhausted")
             [] ~q.stream /\ q.last # "" -> Answered(q, q.last)
             [] OTHER -> Answered(q, IF all THEN "rate_limited" ELSE "error"))
    BY DEF Exhausted, all
  <2>1. CASE ~q.stream /\ q.last = "" /\ all /\ CanHop(q)
    BY <2>0, <2>1 DEF Step
  <2>2. CASE ~q.stream /\ q.last = "" /\ all /\ ~CanHop(q)
    BY <2>0, <2>2 DEF Step
  <2>3. CASE ~q.stream /\ q.last = "" /\ ~all
    BY <2>0, <2>3 DEF Step
  <2>4. CASE ~q.stream /\ q.last # ""
    BY <2>0, <2>4 DEF Step
  <2>5. CASE q.stream
    BY <2>0, <2>5 DEF Step
  <2> QED BY <2>1, <2>2, <2>3, <2>4, <2>5
<1> HIDE DEF q
<1>3. SUFFICES \E p : req' = [req EXCEPT ![r] = p] /\ Quiet(q, p) /\ p.pc \notin Busy
  BY <1>1 DEF Moves, Keeps, Busy, q
<1> QED BY <1>1, <1>2, <1>3, HopQuiet, AnsweredQuiet DEF Busy

-----------------------------------------------------------------------------
(* Taking and giving back an account.                                      *)

Takes(q, p) ==
  \E a \in Accounts :
    /\ q.pc \notin Busy /\ p.pc \in Busy /\ p.acct = a
    /\ inflight' = [inflight EXCEPT ![a] = @ + 1]

Gives(q, p) ==
  /\ q.pc \in Busy /\ p.pc \notin Busy
  /\ inflight' = [inflight EXCEPT ![q.acct] = @ - 1]

\* What a request's step does to the count of its account.
Balanced(q, p) == (Keeps(q, p) /\ inflight' = inflight) \/ Takes(q, p) \/ Gives(q, p)

\* With the account in hand the attempt begins.
LEMMA GotQuiet ==
  ASSUME NEW q, Sound(q), q.pc \in {"first", "wait"}, NEW a \in Accounts
  PROVE  Quiet(q, Got(q, a)) /\ Got(q, a).pc \in Busy /\ Got(q, a).acct = a
  BY DEF Got, Quiet, Sound, Local, Speaks, Using, Fields, Served, Finishing, Busy, Trying

\* The owner of the cascade is acquired, or the cascade is let go.
LEMMA FirstMoves ==
  ASSUME Locals, Pool!TypeOK, NEW r \in Requests, First(r)
  PROVE  \E p : Moves(r, p) /\ Balanced(req[r], p)
<1> DEFINE q == req[r]
           a == q.reuse.key
           missed == [LetGo(q) EXCEPT !.pc = "wait"]
<1>1. Sound(q) /\ q.pc = "first" /\ inflight \in [Accounts -> Nat]
  BY DEF Locals, First, Pool!TypeOK
<1>2. Quiet(q, missed) /\ Keeps(q, missed)
  BY <1>1
     DEF LetGo, Quiet, Keeps, Sound, Local, Speaks, Using, Fields, Served, Finishing, Busy, Trying
<1> HIDE DEF missed
<1>3. a \in Accounts
  BY <1>1 DEF Sound, Local, Using, Conv!Entry
<1>4. CASE inflight' = inflight /\ req' = [req EXCEPT ![r] = missed]
  BY <1>2, <1>4 DEF Moves, Balanced
<1>5. CASE Pool!HandOut(a) /\ req' = [req EXCEPT ![r] = Got(q, a)]
  <2> HIDE DEF a
  <2>1. Quiet(q, Got(q, a)) /\ Takes(q, Got(q, a))
    BY <1>1, <1>3, <1>5, GotQuiet DEF Takes, Pool!HandOut, Busy
  <2> QED BY <1>5, <2>1 DEF Moves, Balanced
<1>6. \/ inflight' = inflight /\ req' = [req EXCEPT ![r] = missed]
      \/ Pool!HandOut(a) /\ req' = [req EXCEPT ![r] = Got(q, a)]
  <2>1. CASE a \notin pool /\ Step(r, "first", missed) /\ UNCHANGED <<now, poolVars>>
    BY <2>1 DEF Step, poolVars
  <2>2. CASE /\ Pool!AcquireByKey(a, q.model)
             /\ Step(r, "first", IF inflight'[a] > inflight[a] THEN Got(q, a) ELSE missed)
    <3>1. inflight' = inflight \/ Pool!HandOut(a)
      BY <2>2 DEF Pool!AcquireByKey
    <3>2. inflight' = inflight => ~(inflight'[a] > inflight[a])
      BY <1>1, <1>3
    <3>3. Pool!HandOut(a) => inflight'[a] > inflight[a]
      BY <1>1, <1>3 DEF Pool!HandOut
    <3> QED BY <2>2, <3>1, <3>2, <3>3 DEF Step
  <2> QED BY <2>1, <2>2 DEF First, missed
<1> QED BY <1>4, <1>5, <1>6

\* An account is acquired, or waited for, or the wait is over.
LEMMA WaitMoves ==
  ASSUME Locals, Pool!TypeOK, NEW r \in Requests, Wait(r)
  PROVE  \E p : Moves(r, p) /\ Balanced(req[r], p)
<1> DEFINE q == req[r]
           out == [q EXCEPT !.pc = "exhausted"]
           again == [q EXCEPT !.waits = @ + 1]
<1>1. Sound(q) /\ q.pc = "wait" /\ inflight \in [Accounts -> Nat]
  BY DEF Locals, Wait, Pool!TypeOK
<1>2. Quiet(q, out) /\ Keeps(q, out)
  BY <1>1 DEF Quiet, Keeps, Sound, Local, Speaks, Using, Fields, Served, Finishing, Busy, Trying
<1>3. Quiet(q, again) /\ Keeps(q, again)
  <2> DEFINE n == q.waits + 1
  <2> HIDE DEF n
  <2>1. again = [q EXCEPT !.waits = n]
    BY DEF n
  <2> QED
    BY <1>1, <2>1
       DEF Quiet, Keeps, Sound, Local, Speaks, Using, Fields, Served, Finishing, Busy, Trying
<1> HIDE DEF out, again
<1>4. CASE inflight' = inflight /\ \E p \in {out, again} : req' = [req EXCEPT ![r] = p]
  BY <1>2, <1>3, <1>4 DEF Moves, Balanced
<1>5. ASSUME NEW a \in Accounts, Pool!HandOut(a), req' = [req EXCEPT ![r] = Got(q, a)]
      PROVE  \E p : Moves(r, p) /\ Balanced(req[r], p)
  <2>1. Quiet(q, Got(q, a)) /\ Takes(q, Got(q, a))
    BY <1>1, <1>5, GotQuiet DEF Takes, Pool!HandOut, Busy
  <2> QED BY <1>5, <2>1 DEF Moves, Balanced
<1>6. CASE inflight' = inflight
  <2>1. ~ \E a \in Accounts : inflight'[a] > inflight[a]
    BY <1>1, <1>6
  <2>2. \E p \in {out, again} : req' = [req EXCEPT ![r] = p]
    BY <2>1 DEF Wait, Step, out, again
  <2> QED BY <1>4, <1>6, <2>2
<1>7. ASSUME NEW a \in Accounts, Pool!HandOut(a)
      PROVE  req' = [req EXCEPT ![r] = Got(q, a)]
  <2>1. inflight' # inflight /\ \A b \in Accounts : inflight'[b] > inflight[b] => b = a
    BY <1>1, <1>7 DEF Pool!HandOut
  <2>2. PICK b \in Accounts : inflight'[b] > inflight[b] /\ Step(r, "wait", Got(q, b))
    BY <2>1 DEF Wait
  <2> QED BY <2>1, <2>2 DEF Step
<1>8. inflight' = inflight \/ \E a \in Accounts : Pool!HandOut(a)
  <2>1. pool \subseteq Accounts
    BY DEF Pool!TypeOK
  <2> QED BY <2>1 DEF Wait, Pool!Acquire
<1> QED BY <1>5, <1>6, <1>7, <1>8

\* The account is given back before the next attempt or the end of the loop.
LEMMA ReleaseMoves ==
  ASSUME Locals, NEW r \in Requests, Release(r)
  PROVE  \E p : Moves(r, p) /\ Gives(req[r], p)
<1> DEFINE q == req[r]
           out == [q EXCEPT !.pc = "exhausted"]
<1>1. /\ Sound(q) /\ q.pc = "report" /\ ~Finishing(q)
      /\ inflight' = [inflight EXCEPT ![q.acct] = @ - 1]
  BY DEF Locals, Release, Step, Finishing, Pool!Release
<1>2. \/ q.then = "retry" /\ req' = [req EXCEPT ![r] = Loop([q EXCEPT !.attempt = @ + 1])]
      \/ req' = [req EXCEPT ![r] = out]
  BY DEF Release, Step
<1>3. Quiet(q, out) /\ out.pc \notin Busy
  BY <1>1 DEF Quiet, Sound, Local, Speaks, Using, Fields, Served, Finishing, Busy, Trying
<1> HIDE DEF out
<1>4. SUFFICES \E p : req' = [req EXCEPT ![r] = p] /\ Quiet(q, p) /\ p.pc \notin Busy
  BY <1>1 DEF Moves, Gives, Busy
<1>5. CASE q.then = "retry" /\ req' = [req EXCEPT ![r] = Loop([q EXCEPT !.attempt = @ + 1])]
  BY <1>1, <1>5, AgainQuiet
<1> QED BY <1>2, <1>3, <1>5

\* The account is given back with the answer.
LEMMA FinishMoves ==
  ASSUME Locals, NEW r \in Requests, Finish(r)
  PROVE  Moves(r, Answered(req[r], "ok")) /\ Gives(req[r], Answered(req[r], "ok"))
<1>1. /\ Sound(req[r]) /\ req[r].pc = "report"
      /\ req' = [req EXCEPT ![r] = Answered(req[r], "ok")]
      /\ inflight' = [inflight EXCEPT ![req[r].acct] = @ - 1]
  BY DEF Locals, Finish, Step, Pool!Release
<1>2. Quiet(req[r], Answered(req[r], "ok")) /\ Answered(req[r], "ok").pc = "done"
  BY <1>1, AnsweredQuiet
<1> QED BY <1>1, <1>2 DEF Moves, Gives, Busy

-----------------------------------------------------------------------------
(* The steps that come by a cascade, and the answer.                       *)

Table ==
  /\ entries = [f \in DOMAIN entries |-> entries[f]]
  /\ DOMAIN entries \subseteq Fingerprints
  /\ \A f \in DOMAIN entries : entries[f] \in Conv!Entry
  /\ seen \subseteq Cascades

\* The conversation as it was before the turn a request brings.
Before(q) == <<q.client, q.turn - 1>>

\* What a checkout leaves: nothing known, an entry too old, or its cascade in hand.
Missed(q, p) == p.reuse = NoEntry /\ p.cascade = 0 /\ entries' = entries

TooOld(q, p) ==
  /\ p.reuse = NoEntry /\ p.cascade = 0
  /\ Before(q) \in DOMAIN entries /\ ~Conv!FreshEnough(Before(q))
  /\ entries' = Conv!Drop({Before(q)})

Resumed(q, p) ==
  /\ Before(q) \in DOMAIN entries /\ Conv!FreshEnough(Before(q))
  /\ p.reuse = entries[Before(q)] /\ p.cascade = entries[Before(q)].cascade
  /\ p.client = q.client /\ p.turn = q.turn
  /\ entries' = Conv!Drop({Before(q)})

\* The clamp of the attempts.
LEMMA AttemptsRange ==
  ASSUME Pool!TypeOK
  PROVE  MaxAttempts \in 0..10
<1> DEFINE actives == {a \in pool : acct[a].status = "active"}
           active == Cardinality(actives)
<1>1. active \in Nat
  <2>1. pool \subseteq Accounts
    BY DEF Pool!TypeOK
  <2>2. IsFiniteSet(actives)
    BY <2>1, FinitelyManyAssumption, FS_Subset
  <2> HIDE DEF actives
  <2> QED BY <2>2, FS_CardinalityType
<1>2. MaxAttempts = IF active < 3 THEN 3 ELSE IF active > 10 THEN 10 ELSE active
  BY DEF MaxAttempts
<1> HIDE DEF active
<1> QED BY <1>1, <1>2

\* A checkout finds nothing, an entry too old to use, or the conversation to resume.
LEMMA CheckoutMoves ==
  ASSUME Locals, Table, Pool!TypeOK, NEW r \in Requests, Checkout(r)
  PROVE  \E p : /\ req' = [req EXCEPT ![r] = p] /\ Sound(p) /\ Keeps(req[r], p) /\ ~Finishing(p)
                /\ req[r].cascade = 0
                /\ Missed(req[r], p) \/ TooOld(req[r], p) \/ Resumed(req[r], p)
<1> DEFINE q == req[r]
           fp == Before(q)
           max == MaxAttempts
           p == [q EXCEPT !.pc = "loop", !.tried = {}, !.attempt = 0, !.last = "", !.max = max]
           found == {f \in FingerprintBefore(p) : p.reuseOn /\ f \in DOMAIN entries}
           hits == {f \in found : Conv!FreshEnough(f)}
           resuming(e) == [p EXCEPT !.reuse = e, !.cascade = e.cascade]
<1>1. Sound(q) /\ q.pc = "checkout" /\ q.reuse = NoEntry /\ q.cascade = 0 /\ max \in 0..10
  BY AttemptsRange DEF Locals, Checkout, Step, Sound, Using, Served, Finishing
<1>2. /\ IF hits = {} THEN req' = [req EXCEPT ![r] = p]
         ELSE req' = [req EXCEPT ![r] = resuming(entries[CHOOSE f \in hits : TRUE])]
      /\ entries' = Conv!Drop(found)
  <2>1. /\ Step(r, "checkout",
              IF hits = {} THEN p
              ELSE LET e == entries[CHOOSE f \in hits : TRUE]
                   IN  [p EXCEPT !.reuse = e, !.cascade = e.cascade])
        /\ entries' = Conv!Drop(found)
    BY DEF Checkout
  <2> HIDE DEF hits, found, p
  <2> QED BY <2>1 DEF Step
<1> HIDE DEF max
<1>3. /\ Sound(p) /\ Keeps(q, p) /\ ~Finishing(p) /\ p.cascade = 0 /\ p.reuse = NoEntry
      /\ p.pc = "loop" /\ p.client = q.client /\ p.turn = q.turn /\ p.reuseOn = q.reuseOn
  <2>1. /\ p = [f \in Fields |-> p[f]]
        /\ \A f \in Fields \ {"pc", "tried", "attempt", "last", "max"} : p[f] = q[f]
        /\ p.pc = "loop" /\ p.tried = {} /\ p.attempt = 0 /\ p.max = max
    BY <1>1 DEF Sound, Local, Fields
  <2> HIDE DEF p
  <2> QED
    BY <1>1, <2>1 DEF Keeps, Sound, Local, Speaks, Using, Fields, Served, Finishing, Busy, Trying
<1> HIDE DEF p
<1>4. found \subseteq {fp} /\ (found # {} => q.reuseOn /\ fp \in DOMAIN entries)
  BY <1>3 DEF FingerprintBefore, Before
<1>5. CASE found = {}
  <2>1. entries' = entries
    BY <1>2, <1>5 DEF Conv!Drop, Conv!Restrict, Table
  <2>2. hits = {}
    BY <1>5
  <2> HIDE DEF hits
  <2> QED BY <1>1, <1>2, <1>3, <2>1, <2>2 DEF Missed
<1>6. CASE found = {fp} /\ ~Conv!FreshEnough(fp)
  <2>1. hits = {}
    BY <1>6
  <2>2. entries' = Conv!Drop({fp})
    BY <1>2, <1>6
  <2> HIDE DEF hits, found
  <2> QED BY <1>1, <1>2, <1>3, <1>4, <1>6, <2>1, <2>2 DEF TooOld
<1>7. CASE found = {fp} /\ Conv!FreshEnough(fp)
  <2> DEFINE e == entries[fp]
             t == resuming(e)
  <2>1. hits = {fp} /\ (CHOOSE f \in hits : TRUE) = fp
    BY <1>7
  <2>2. entries' = Conv!Drop({fp})
    BY <1>2, <1>7
  <2>3. req' = [req EXCEPT ![r] = t]
    <3> HIDE DEF hits, found
    <3> QED BY <1>2, <2>1
  <2>4. q.reuseOn /\ fp \in DOMAIN entries /\ e \in Conv!Entry
    <3> HIDE DEF found
    <3> QED BY <1>4, <1>7 DEF Table
  <2>5. e.cascade \in Cascades /\ e # NoEntry
    BY <2>4, EntryAssumption DEF Conv!Entry
  <2> HIDE DEF e
  <2>6. /\ Sound(t) /\ Keeps(q, t) /\ ~Finishing(t)
        /\ t.cascade = e.cascade /\ t.reuse = e /\ t.client = q.client /\ t.turn = q.turn
    BY <1>3, <2>4, <2>5
       DEF Keeps, Sound, Local, Speaks, Using, Fields, Served, Finishing, Busy, Trying
  <2> HIDE DEF t, found
  <2> QED BY <1>1, <1>7, <2>2, <2>3, <2>4, <2>6 DEF Resumed, e
<1> QED BY <1>4, <1>5, <1>6, <1>7

\* A send goes where the pool has no say, resumes what was checked out, or opens
\* a cascade.
Opens(q, p, c) ==
  /\ Sound(p) /\ ~Finishing(p) /\ q.cascade = 0 /\ p.cascade = c /\ p.reuse = NoEntry
  /\ seen' = seen \cup {c}
  /\ server' = [server EXCEPT ![c] = <<"open", q.client, q.turn>>]

Continues(q, p) ==
  /\ q.reuse # NoEntry /\ p.sent /\ q.cascade \in Cascades
  /\ seen' = seen
  /\ server' = [server EXCEPT ![q.cascade] = <<"open", q.client, q.turn>>]

\* See Opens and Continues.
LEMMA SendMoves ==
  ASSUME Locals, NEW r \in Requests, Send(r)
  PROVE  \E p : /\ req' = [req EXCEPT ![r] = p] /\ Keeps(req[r], p) /\ ~Finishing(p)
                /\ \/ Quiet(req[r], p) /\ UNCHANGED <<seen, server>>
                   \/ Quiet(req[r], p) /\ Continues(req[r], p)
                   \/ \E c \in Cascades \ seen : Opens(req[r], p, c)
<1> DEFINE q == req[r]
           p == [q EXCEPT !.pc = "poll"]
           again == [p EXCEPT !.sent = TRUE]
           new(c) == [p EXCEPT !.cascade = c]
<1>1. Sound(q) /\ q.pc = "send"
  BY DEF Locals, Send, Step
<1>2. /\ Local(p) /\ p.pc = "poll" /\ p.spoke = {} /\ p.reuse = q.reuse /\ p.cascade = q.cascade
      /\ p.client = q.client /\ p.turn = q.turn /\ p.sent = q.sent /\ p.acct = q.acct
      /\ p.reuseOn = q.reuseOn
  BY <1>1 DEF Sound, Local, Speaks, Fields, Served, Finishing, Busy, Trying
<1>3. /\ q.reuse # NoEntry => q.reuseOn /\ q.cascade = q.reuse.cascade /\ q.cascade \in Cascades
      /\ q.reuse = NoEntry => q.cascade = 0
  BY <1>1 DEF Sound, Local, Using, Served, Finishing, Conv!Entry
<1>4. CASE ~q.reuseOn /\ req' = [req EXCEPT ![r] = p] /\ UNCHANGED <<seen, server>>
  <2> HIDE DEF p
  <2>1. Quiet(q, p) /\ Keeps(q, p) /\ ~Finishing(p)
    BY <1>1, <1>2, <1>3, <1>4
       DEF Quiet, Keeps, Sound, Speaks, Using, Served, Finishing, Busy
  <2> QED BY <1>4, <2>1
<1>5. CASE /\ q.reuse # NoEntry /\ req' = [req EXCEPT ![r] = again] /\ UNCHANGED seen
           /\ server' = [server EXCEPT ![q.cascade] = <<"open", q.client, q.turn>>]
  <2> HIDE DEF p
  <2>1. /\ Local(again) /\ again.pc = "poll" /\ again.sent
        /\ again.spoke = p.spoke /\ again.reuse = p.reuse /\ again.cascade = p.cascade
        /\ again.client = p.client /\ again.turn = p.turn /\ again.acct = p.acct
        /\ again.reuseOn = p.reuseOn
    BY <1>2 DEF Local, Fields, Served, Finishing, Busy, Trying
  <2> HIDE DEF again
  <2>2. Sound(again)
    BY <1>1, <1>2, <1>3, <1>5, <2>1, CascadesAssumption DEF Sound, Speaks, Using, Served, Finishing
  <2>3. Quiet(q, again) /\ Keeps(q, again) /\ ~Finishing(again)
    BY <1>1, <1>2, <1>3, <1>5, <2>1, <2>2 DEF Quiet, Keeps, Finishing, Busy
  <2> QED BY <1>3, <1>5, <2>1, <2>3 DEF Continues
<1>6. ASSUME q.reuse = NoEntry, q.reuseOn, NEW c \in Cascades \ seen,
             req' = [req EXCEPT ![r] = new(c)], seen' = seen \cup {c},
             server' = [server EXCEPT ![c] = <<"open", q.client, q.turn>>]
      PROVE  \E t : /\ req' = [req EXCEPT ![r] = t] /\ Keeps(q, t) /\ ~Finishing(t)
                    /\ Opens(q, t, c)
  <2> HIDE DEF p
  <2> DEFINE t == new(c)
  <2>1. c # 0
    BY CascadesAssumption
  <2>2. /\ Sound(t) /\ Keeps(q, t) /\ ~Finishing(t) /\ t.cascade = c /\ t.reuse = NoEntry
    BY <1>1, <1>2, <1>3, <1>6, <2>1
       DEF Keeps, Sound, Local, Speaks, Using, Fields, Served, Finishing, Busy, Trying
  <2> HIDE DEF t
  <2> QED BY <1>3, <1>6, <2>2 DEF Opens, t
<1>7. \/ ~q.reuseOn /\ req' = [req EXCEPT ![r] = p] /\ UNCHANGED <<seen, server>>
      \/ /\ q.reuse # NoEntry /\ req' = [req EXCEPT ![r] = again] /\ UNCHANGED seen
         /\ server' = [server EXCEPT ![q.cascade] = <<"open", q.client, q.turn>>]
      \/ /\ q.reuse = NoEntry /\ q.reuseOn
         /\ \E c \in Cascades \ seen :
              /\ req' = [req EXCEPT ![r] = new(c)] /\ seen' = seen \cup {c}
              /\ server' = [server EXCEPT ![c] = <<"open", q.client, q.turn>>]
  <2>1. CASE ~q.reuseOn /\ Step(r, "send", p) /\ UNCHANGED <<seen, server>>
    BY <2>1 DEF Step
  <2>2. CASE /\ q.reuse # NoEntry /\ Step(r, "send", again)
             /\ server' = [server EXCEPT ![p.cascade] = <<"open", p.client, p.turn>>]
             /\ UNCHANGED seen
    BY <1>2, <2>2 DEF Step
  <2>3. ASSUME q.reuse = NoEntry, q.reuseOn, NEW c \in Cascades \ seen,
               Step(r, "send", new(c)), seen' = seen \cup {c},
               server' = [server EXCEPT ![c] = <<"open", p.client, p.turn>>]
        PROVE  /\ req' = [req EXCEPT ![r] = new(c)]
               /\ server' = [server EXCEPT ![c] = <<"open", q.client, q.turn>>]
    BY <1>2, <2>3 DEF Step
  <2>4. \/ ~p.reuseOn /\ Step(r, "send", p) /\ UNCHANGED <<seen, server>>
        \/ /\ p.reuseOn /\ p.reuse # NoEntry /\ Step(r, "send", again)
           /\ server' = [server EXCEPT ![p.cascade] = <<"open", p.client, p.turn>>]
           /\ UNCHANGED seen
        \/ /\ p.reuseOn /\ p.reuse = NoEntry
           /\ \E c \in Cascades \ seen :
                /\ Step(r, "send", new(c)) /\ seen' = seen \cup {c}
                /\ server' = [server EXCEPT ![c] = <<"open", p.client, p.turn>>]
    BY DEF Send
  <2> HIDE DEF p, again, new
  <2> QED BY <1>2, <2>1, <2>2, <2>3, <2>4
<1> HIDE DEF p, again, new
<1> QED BY <1>4, <1>5, <1>6, <1>7

\* A completed poll leaves the answer in the cascade, which the request keeps.
LEMMA SucceedMoves ==
  ASSUME Locals, NEW r \in Requests, Succeed(r)
  PROVE  \E p : /\ req' = [req EXCEPT ![r] = p] /\ Sound(p) /\ Keeps(req[r], p) /\ Finishing(p)
                /\ p.cascade = req[r].cascade /\ p.reuse = req[r].reuse
                /\ p.client = req[r].client /\ p.turn = req[r].turn
                /\ p.reuse # NoEntry => p.sent
                /\ server' = IF p.cascade = 0 THEN server
                             ELSE [server EXCEPT ![p.cascade] = <<"answered", p.client, p.turn>>]
<1> DEFINE q == req[r]
           todo == IF q.stream /\ q.spoke = {} THEN <<"capability">>
                   ELSE <<"success", "capability">>
           p == [q EXCEPT !.pc = "report", !.then = "finish", !.todo = todo]
<1>1. Sound(q) /\ q.pc = "poll" /\ req' = [req EXCEPT ![r] = p]
  BY DEF Locals, Succeed, Step
<1> HIDE DEF todo
<1>2. /\ Sound(p) /\ Keeps(q, p) /\ Finishing(p) /\ p.cascade = q.cascade /\ p.reuse = q.reuse
      /\ p.client = q.client /\ p.turn = q.turn /\ (p.reuse # NoEntry => p.sent)
  BY <1>1 DEF Keeps, Sound, Local, Speaks, Using, Fields, Served, Finishing, Busy, Trying
<1>3. server' = IF q.cascade = 0 THEN server
                ELSE [server EXCEPT ![q.cascade] = <<"answered", q.client, q.turn>>]
  BY DEF Succeed
<1> HIDE DEF p
<1> QED BY <1>1, <1>2, <1>3

-----------------------------------------------------------------------------
(* The account pool.  A step of ChatFlow is a step of the pool or none; the *)
(* two instances of AccountPool define the same.                           *)

\* Both instances type the pool alike, before and after a step.
LEMMA SameTypes ==
  /\ Pool!TypeOK <=> AP!TypeOK
  /\ Pool!TypeOK' <=> AP!TypeOK'
  BY DEF Pool!TypeOK, AP!TypeOK, Pool!AccountRecords, AP!AccountRecords, Pool!Grants, AP!Grants,
     Pool!Statuses, AP!Statuses, Pool!Tiers, AP!Tiers

\* See SameTypes; the operators selection is built from.
LEMMA SameExamined ==
  ASSUME NEW r, NEW m, NEW t
  PROVE  Pool!Examined(r, m, t) = AP!Examined(r, m, t)
  BY DEF Pool!Examined, AP!Examined, Pool!Live, AP!Live, Pool!IsModelAllowed, AP!IsModelAllowed,
     Pool!IsTierAllowed, AP!IsTierAllowed

\* See SameExamined.
LEMMA SameCardinality == \A S : Pool!Cardinality(S) = AP!Cardinality(S)
  BY DEF Pool!Cardinality, AP!Cardinality

\* See SameExamined.
LEMMA SameGrantable ==
  ASSUME NEW r, NEW m, NEW t
  PROVE  Pool!Grantable(r, m, t) <=> AP!Grantable(r, m, t)
  BY DEF Pool!Grantable, AP!Grantable, Pool!Live, AP!Live, Pool!IsModelAllowed, AP!IsModelAllowed,
     Pool!IsTierAllowed, AP!IsTierAllowed, Pool!IsRateLimited, AP!IsRateLimited,
     Pool!Cardinality, AP!Cardinality

\* See SameExamined.
LEMMA SameGrant ==
  ASSUME NEW a
  PROVE  /\ Pool!HandOut(a) <=> AP!HandOut(a)
         /\ \A r : Pool!WithGrant(r) = AP!WithGrant(r)
  BY DEF Pool!HandOut, AP!HandOut, Pool!WithGrant, AP!WithGrant, Pool!GrantOf, AP!GrantOf,
     Pool!Live, AP!Live, Pool!LastMinute, AP!LastMinute, Pool!Cardinality, AP!Cardinality

\* See SameExamined.
LEMMA SamePreferred ==
  ASSUME NEW a, NEW b, NEW t
  PROVE  Pool!Preferred(a, b, t) <=> AP!Preferred(a, b, t)
  BY DEF Pool!Preferred, AP!Preferred, Pool!Live, AP!Live, Pool!Cardinality, AP!Cardinality

\* Selection is the same action in both.
LEMMA SameAcquire ==
  ASSUME NEW tried, NEW m, Pool!Acquire(tried, m)
  PROVE  AP!Acquire(tried, m)
  BY SameExamined, SameGrantable, SameGrant, SamePreferred
     DEF Pool!Acquire, AP!Acquire, Pool!NoSave, AP!NoSave

\* See SameAcquire.
LEMMA SameAcquireByKey ==
  ASSUME NEW a, NEW m, Pool!AcquireByKey(a, m)
  PROVE  AP!AcquireByKey(a, m)
  BY SameExamined, SameGrantable, SameGrant
     DEF Pool!AcquireByKey, AP!AcquireByKey, Pool!NoSave, AP!NoSave

\* A save is the same in both.
LEMMA SameSave == Pool!SaveLocked <=> AP!SaveLocked
  BY DEF Pool!SaveLocked, AP!SaveLocked, Pool!Persisted, AP!Persisted

\* The reports of a request are the same actions in both.
LEMMA SameSignals ==
  ASSUME NEW a
  PROVE  /\ Pool!ReportError(a) => AP!ReportError(a)
         /\ Pool!ReportSuccess(a) => AP!ReportSuccess(a)
         /\ Pool!ReportInternalError(a) => AP!ReportInternalError(a)
         /\ \A d, m : Pool!MarkRateLimited(a, d, m) => AP!MarkRateLimited(a, d, m)
         /\ \A m, ok, reason :
              Pool!UpdateCapability(a, m, ok, reason) => AP!UpdateCapability(a, m, ok, reason)
<1>1. Pool!ReportError(a) => AP!ReportError(a)
  BY DEF Pool!ReportError, AP!ReportError, Pool!AtMost, AP!AtMost, Pool!NoSave, AP!NoSave
<1>2. Pool!ReportSuccess(a) => AP!ReportSuccess(a)
  BY DEF Pool!ReportSuccess, AP!ReportSuccess, Pool!NoSave, AP!NoSave
<1>3. Pool!ReportInternalError(a) => AP!ReportInternalError(a)
  BY SameSave DEF Pool!ReportInternalError, AP!ReportInternalError, Pool!AtMost, AP!AtMost,
     Pool!NoSave, AP!NoSave
<1>4. \A d, m : Pool!MarkRateLimited(a, d, m) => AP!MarkRateLimited(a, d, m)
  BY SameSave DEF Pool!MarkRateLimited, AP!MarkRateLimited, Pool!EffectiveRateLimitWindow,
     AP!EffectiveRateLimitWindow
<1>5. \A m, ok, reason :
        Pool!UpdateCapability(a, m, ok, reason) => AP!UpdateCapability(a, m, ok, reason)
  BY SameSave DEF Pool!UpdateCapability, AP!UpdateCapability, Pool!InferTier, AP!InferTier
<1> QED BY <1>1, <1>2, <1>3, <1>4, <1>5

\* So are giving an account back, removing it and the clock.
LEMMA SameOthers ==
  ASSUME NEW a
  PROVE  /\ Pool!Release(a) => AP!Release(a)
         /\ Pool!Remove(a) => AP!Remove(a)
         /\ Pool!Tick => AP!Tick
  BY SameSave DEF Pool!Release, AP!Release, Pool!NoSave, AP!NoSave, Pool!Remove, AP!Remove,
     Pool!Fresh, AP!Fresh, Pool!NoCredits, AP!NoCredits, Pool!Tick, AP!Tick

\* What the step of a request does to the account pool.
LEMMA ServedPool ==
  ASSUME Locals, Pool!TypeOK, NEW r \in Requests, Arrive(r) \/ Serve(r) \/ Chunk(r) \/ Leave(r)
  PROVE  AP!Next \/ UNCHANGED AP!vars
<1> DEFINE q == req[r]
           a == q.acct
<1>0. /\ q.tried \subseteq Accounts
      /\ q.pc # "idle" => q.model \in Models
      /\ q.pc \in Busy => a \in Accounts
      /\ q.pc = "first" => q.reuse.key \in Accounts
  BY DEF Locals, Sound, Local, Using, Conv!Entry
<1>1. CASE UNCHANGED <<now, poolVars>>
  BY <1>1 DEF AP!vars, poolVars
<1>2. CASE First(r)
  <2>1. Pool!AcquireByKey(q.reuse.key, q.model) => AP!Next
    BY <1>0, <1>2, SameAcquireByKey DEF First, AP!Next, AP!SelectNext
  <2> QED BY <1>1, <1>2, <2>1 DEF First
<1>3. CASE Wait(r)
  BY <1>0, <1>3, SameAcquire DEF Wait, AP!Next, AP!SelectNext
<1>4. CASE Preflight(r)
  <2>1. q.pc = "preflight" /\ 5 * Minute \in Nat
    BY <1>4, PoolAssumption DEF Preflight, Step
  <2>2. Pool!MarkRateLimited(a, 5 * Minute, q.model) => AP!Next
    <3> DEFINE d == 5 * Minute
    <3> HIDE DEF d
    <3>1. d \in Nat
      BY <2>1 DEF d
    <3>2. Pool!MarkRateLimited(a, d, q.model) => AP!Next
      BY <1>0, <2>1, <3>1, SameSignals DEF Busy, AP!Next, AP!SignalNext
    <3> QED BY <3>2 DEF d
  <2> QED BY <1>1, <1>4, <2>2 DEF Preflight, Signal
<1>5. CASE Report(r)
  <2>1. q.pc = "report"
    BY <1>5 DEF Report, Step
  <2>2. a \in Accounts /\ q.model \in Models
    BY <1>0, <2>1 DEF Busy
  <2>3. Pool!ReportError(a) \/ Pool!ReportSuccess(a) \/ Pool!ReportInternalError(a) => AP!Next
    BY <2>2, SameSignals DEF AP!Next, AP!SignalNext
  <2>4. (\E d \in Windows : Pool!MarkRateLimited(a, d, q.model)) => AP!Next
    BY <2>2, SameSignals, PoolAssumption DEF AP!Next, AP!SignalNext
  <2>5. \/ Pool!UpdateCapability(a, q.model, FALSE, "model_error")
        \/ Pool!UpdateCapability(a, q.model, TRUE, "success")
        => AP!Next
    BY <2>2, SameSignals DEF AP!Next, AP!SignalNext
  <2> QED BY <1>1, <1>5, <2>3, <2>4, <2>5 DEF Report, Signal
<1>6. CASE Release(r) \/ Finish(r)
  <2>1. q.pc = "report" /\ Pool!Release(a)
    BY <1>6 DEF Release, Finish, Step
  <2> QED BY <1>0, <2>1, SameOthers DEF Busy, AP!Next, AP!SelectNext
<1>7. CASE \/ Arrive(r) \/ Chunk(r) \/ Leave(r) \/ Enter(r) \/ Checkout(r) \/ Begin(r)
           \/ Ensure(r) \/ Send(r) \/ Succeed(r) \/ Fail(r) \/ Exhausted(r)
  <2>1. UNCHANGED <<now, poolVars>>
    BY <1>7 DEF Arrive, Chunk, Leave, Enter, Checkout, Begin, Ensure, Send, Succeed, Fail, Exhausted
  <2> QED BY <1>1, <2>1
<1> QED BY <1>2, <1>3, <1>4, <1>5, <1>6, <1>7 DEF Serve

\* Every step of ChatFlow is a step of the account pool or leaves it alone.
LEMMA PoolStep ==
  ASSUME Locals, Pool!TypeOK, [Next]_vars
  PROVE  [AP!Next]_(AP!vars)
<1>1. CASE \E r \in Requests : Arrive(r) \/ Serve(r) \/ Chunk(r) \/ Leave(r)
  BY <1>1, ServedPool
<1>2. ASSUME NEW a \in Accounts, Remove(a) PROVE AP!Next
  BY <1>2, SameOthers DEF Remove, AP!Next, AP!OperatorNext
<1>3. CASE Tick
  BY <1>3, SameOthers DEF Tick, AP!Next
<1>4. CASE UNCHANGED vars \/ \E a \in Accounts, p \in Ports : Respawn(a, p)
  BY <1>4 DEF vars, Respawn, poolVars, AP!vars
<1> QED BY <1>1, <1>2, <1>3, <1>4 DEF Next

\* So the pool's own invariants hold here as well.
LEMMA PoolKept ==
  ASSUME Locals, Pool!TypeOK, AP!GrantsKept, [Next]_vars
  PROVE  Pool!TypeOK' /\ AP!GrantsKept'
<1>1. [AP!Next]_(AP!vars) /\ AP!TypeOK
  BY PoolStep, SameTypes
<1>2. AP!TypeOK'
  BY <1>1, AP!TypeStep, PoolAssumption
     DEF AP!ModelsAssumption, AP!RPMAssumption, AP!TimeAssumption, AP!QuotaAssumption,
         AP!DiskAssumption, AP!Tiers
<1>3. AP!GrantsKept'
  BY <1>1, <1>2, AP!GrantsStep, PoolAssumption
     DEF AP!ModelsAssumption, AP!RPMAssumption, AP!TimeAssumption, AP!QuotaAssumption,
         AP!DiskAssumption, AP!Tiers
<1> QED BY <1>2, <1>3, SameTypes

-----------------------------------------------------------------------------
(* The account pool counts the requests that hold an account.              *)

Holders(a) == {r \in Requests : req[r].pc \in Busy /\ req[r].acct = a}

Counted == \A a \in Accounts : inflight[a] = Cardinality(Holders(a))

\* A subset of the requests is finite.
LEMMA SomeRequests ==
  ASSUME NEW S \in SUBSET Requests
  PROVE  IsFiniteSet(S) /\ Cardinality(S) \in Nat
  BY FinitelyManyAssumption, FS_Subset, FS_CardinalityType

\* One more request than before.
LEMMA OneMore ==
  ASSUME NEW S \in SUBSET Requests, NEW r \in Requests \ S
  PROVE  Cardinality(S \cup {r}) = Cardinality(S) + 1
  BY SomeRequests, FS_AddElement

\* One less, of at least one.
LEMMA OneLess ==
  ASSUME NEW S \in SUBSET Requests, NEW r \in S
  PROVE  Cardinality(S \ {r}) = Cardinality(S) - 1 /\ Cardinality(S) > 0
<1>1. IsFiniteSet(S) /\ Cardinality(S \ {r}) = Cardinality(S) - 1
  BY SomeRequests, FS_RemoveElement
<1>2. Cardinality(S \ {r}) \in Nat /\ Cardinality(S) \in Nat
  BY SomeRequests
<1> QED BY <1>1, <1>2

\* A balanced step keeps the count.
LEMMA CountKept ==
  ASSUME Locals, Counted, inflight \in [Accounts -> Nat], NEW r \in Requests, NEW p,
         req' = [req EXCEPT ![r] = p], Balanced(req[r], p)
  PROVE  Counted'
<1> DEFINE q == req[r]
<1>0. \A s \in Requests : req'[s] = IF s = r THEN p ELSE req[s]
  BY DEF Locals
<1>1. CASE Keeps(q, p) /\ inflight' = inflight
  <2>1. \A a \in Accounts : Holders(a)' = Holders(a)
    BY <1>0, <1>1 DEF Holders, Keeps
  <2> QED BY <1>1, <2>1 DEF Counted
<1>2. CASE Takes(q, p)
  <2>1. PICK a \in Accounts : /\ q.pc \notin Busy /\ p.pc \in Busy /\ p.acct = a
                              /\ inflight' = [inflight EXCEPT ![a] = @ + 1]
    BY <1>2 DEF Takes
  <2>2. Holders(a)' = Holders(a) \cup {r} /\ r \notin Holders(a)
    BY <1>0, <2>1 DEF Holders
  <2>3. \A b \in Accounts \ {a} : Holders(b)' = Holders(b)
    BY <1>0, <2>1 DEF Holders
  <2>4. Cardinality(Holders(a)') = Cardinality(Holders(a)) + 1
    BY <2>2, OneMore DEF Holders
  <2> QED BY <2>1, <2>3, <2>4 DEF Counted
<1>3. CASE Gives(q, p)
  <2>0. PICK a : a = q.acct
    OBVIOUS
  <2>1. a \in Accounts /\ r \in Holders(a)
    BY <1>3, <2>0 DEF Gives, Locals, Sound, Local, Holders
  <2>2. Holders(a)' = Holders(a) \ {r} /\ \A b \in Accounts \ {a} : Holders(b)' = Holders(b)
    BY <1>0, <1>3, <2>0 DEF Gives, Holders
  <2>3. Cardinality(Holders(a)') = Cardinality(Holders(a)) - 1
    BY <2>1, <2>2, OneLess DEF Holders
  <2>4. inflight' = [inflight EXCEPT ![a] = @ - 1]
    BY <1>3, <2>0 DEF Gives
  <2> QED BY <2>1, <2>2, <2>3, <2>4 DEF Counted
<1> QED BY <1>1, <1>2, <1>3 DEF Balanced

-----------------------------------------------------------------------------
(* The conversation pool.                                                  *)

\* Cascades in use have been given out.
Given ==
  /\ \A r \in Requests : req[r].cascade \in seen \cup {0}
  /\ \A f \in DOMAIN entries : entries[f].cascade \in seen

Users(c) == {r \in Requests : req[r].cascade = c}

\* Holds counts the users of each cascade.
LEMMA HoldsCount == Holds = [c \in Cascades |-> Cardinality(Users(c))]
  BY DEF Holds, Users

\* See HoldsCount.
LEMMA HoldsType == Holds \in [Cascades -> Nat]
  BY SomeRequests DEF Holds

\* A request that keeps its cascade changes no count.
LEMMA HoldsSame ==
  ASSUME Locals, NEW r \in Requests, NEW p, req' = [req EXCEPT ![r] = p],
         p.cascade = req[r].cascade
  PROVE  Holds' = Holds
<1>1. \A s \in Requests : req'[s].cascade = req[s].cascade
  BY DEF Locals
<1> QED BY <1>1 DEF Holds

\* One that comes by a cascade adds one to it.
LEMMA HoldsMore ==
  ASSUME Locals, NEW r \in Requests, NEW p, req' = [req EXCEPT ![r] = p],
         req[r].cascade = 0, p.cascade \in Cascades
  PROVE  Holds' = [Holds EXCEPT ![p.cascade] = @ + 1]
<1> DEFINE c == p.cascade
<1>1. \A s \in Requests : req'[s] = IF s = r THEN p ELSE req[s]
  BY DEF Locals
<1>2. c # 0
  BY CascadesAssumption
<1>3. Users(c)' = Users(c) \cup {r} /\ r \notin Users(c)
  BY <1>1, <1>2 DEF Users
<1>4. \A d \in Cascades \ {c} : Users(d)' = Users(d)
  BY <1>1, CascadesAssumption DEF Users
<1>5. Cardinality(Users(c)') = Cardinality(Users(c)) + 1
  BY <1>3, OneMore DEF Users
<1>6. \A d \in Cascades : Holds'[d] = IF d = c THEN Holds[c] + 1 ELSE Holds[d]
  BY <1>4, <1>5, HoldsCount DEF Users, Holds
<1>7. Holds' = [d \in Cascades |-> Holds'[d]] /\ Holds = [d \in Cascades |-> Holds[d]]
  BY DEF Holds
<1> HIDE DEF c
<1> QED BY <1>6, <1>7 DEF c

\* One that lets go takes one from it.
LEMMA HoldsLess ==
  ASSUME Locals, NEW r \in Requests, NEW p, req' = [req EXCEPT ![r] = p],
         req[r].cascade \in Cascades, p.cascade = 0
  PROVE  /\ Holds' = [Holds EXCEPT ![req[r].cascade] = @ - 1]
         /\ Holds[req[r].cascade] > 0
<1>0. PICK c : c = req[r].cascade
  OBVIOUS
<1>1. \A s \in Requests : req'[s] = IF s = r THEN p ELSE req[s]
  BY DEF Locals
<1>2. c \in Cascades /\ c # 0
  BY <1>0, CascadesAssumption
<1>3. Users(c)' = Users(c) \ {r} /\ r \in Users(c)
  BY <1>0, <1>1, <1>2 DEF Users
<1>4. \A d \in Cascades \ {c} : Users(d)' = Users(d)
  BY <1>0, <1>1, CascadesAssumption DEF Users
<1>5. Cardinality(Users(c)') = Cardinality(Users(c)) - 1 /\ Cardinality(Users(c)) > 0
  BY <1>3, OneLess DEF Users
<1>6. \A d \in Cascades : Holds'[d] = IF d = c THEN Holds[c] - 1 ELSE Holds[d]
  BY <1>4, <1>5, HoldsCount DEF Users, Holds
<1>7. Holds' = [d \in Cascades |-> Holds'[d]] /\ Holds = [d \in Cascades |-> Holds[d]]
  BY DEF Holds
<1>8. Holds[c] > 0
  BY <1>2, <1>5 DEF Users, Holds
<1> QED BY <1>0, <1>6, <1>7, <1>8

-----------------------------------------------------------------------------
(* The five kinds of steps a request takes.                                *)

\* A step keeps to what the request has, or is one of four that do not.
LEMMA RequestCases ==
  ASSUME Locals, Ported, Pool!TypeOK, NEW r \in Requests,
         Arrive(r) \/ Serve(r) \/ Chunk(r) \/ Leave(r)
  PROVE  \/ \E p : /\ Moves(r, p) /\ Balanced(req[r], p)
                   /\ UNCHANGED <<now, convVars, portOf, server>>
         \/ Checkout(r) \/ Send(r) \/ Succeed(r) \/ Finish(r)
<1>1. CASE \/ Arrive(r) \/ Enter(r) \/ Begin(r) \/ Ensure(r) \/ Chunk(r) \/ Fail(r)
           \/ Exhausted(r) \/ Leave(r)
  <2>1. \E p : Moves(r, p) /\ Keeps(req[r], p)
    BY <1>1, ArriveMoves, EnterMoves, BeginMoves, EnsureMoves, ChunkMoves, FailMoves,
       ExhaustedMoves, LeaveMoves
  <2>2. UNCHANGED <<now, poolVars, convVars, portOf, server>>
    BY <1>1 DEF Arrive, Enter, Begin, Ensure, Chunk, Fail, Exhausted, Leave
  <2> QED BY <2>1, <2>2 DEF Balanced, poolVars
<1>2. CASE Preflight(r)
  <2>1. inflight' = inflight /\ UNCHANGED <<now, convVars, portOf, server>>
    BY <1>2 DEF Preflight, Signal, Pool!MarkRateLimited, poolVars
  <2> QED BY <1>2, <2>1, PreflightMoves DEF Balanced
<1>3. CASE Report(r)
  <2>1. inflight' = inflight /\ UNCHANGED <<now, convVars, portOf, server>>
    BY <1>3 DEF Report, Signal, Pool!MarkRateLimited, Pool!ReportError, Pool!ReportInternalError,
       Pool!UpdateCapability, Pool!ReportSuccess, poolVars
  <2> QED BY <1>3, <2>1, ReportMoves DEF Balanced
<1>4. CASE First(r)
  <2>1. UNCHANGED <<now, convVars, portOf, server>>
    BY <1>4 DEF First, Pool!AcquireByKey
  <2> QED BY <1>4, <2>1, FirstMoves
<1>5. CASE Wait(r)
  <2>1. UNCHANGED <<now, convVars, portOf, server>>
    BY <1>5 DEF Wait, Pool!Acquire
  <2> QED BY <1>5, <2>1, WaitMoves
<1>6. CASE Release(r)
  <2>1. UNCHANGED <<now, convVars, portOf, server>>
    BY <1>6 DEF Release, Pool!Release
  <2> QED BY <1>6, <2>1, ReleaseMoves DEF Balanced
<1> QED BY <1>1, <1>2, <1>3, <1>4, <1>5, <1>6 DEF Serve

\* The locals of the other requests are as they were.
LEMMA OthersSound ==
  ASSUME Locals, NEW r \in Requests, NEW p, req' = [req EXCEPT ![r] = p], Sound(p)
  PROVE  Locals'
<1>1. \A s \in Requests : req'[s] = IF s = r THEN p ELSE req[s]
  BY DEF Locals
<1>2. \A s \in Requests : Sound(req'[s])
  BY <1>1 DEF Locals
<1>3. req' = [s \in Requests |-> req'[s]]
  BY DEF Locals
<1>4. \A q : Sound(q)' <=> Sound(q)
  OBVIOUS
<1> QED BY <1>2, <1>3 DEF Locals

-----------------------------------------------------------------------------
(* The table and the cascades given out.                                   *)

\* Fewer entries are as well typed, and their cascades as well known.
LEMMA TableDropped ==
  ASSUME Table, Given, NEW S, entries' = Conv!Drop(S), seen' = seen
  PROVE  Table' /\ \A f \in DOMAIN entries' : entries'[f].cascade \in seen'
<1>1. /\ entries' = [f \in DOMAIN entries' |-> entries'[f]]
      /\ DOMAIN entries' \subseteq DOMAIN entries
      /\ \A f \in DOMAIN entries' : entries'[f] = entries[f]
  BY DEF Conv!Drop, Conv!Restrict
<1> QED BY <1>1 DEF Table, Given

\* What Checkin stores.
LEMMA StoredTable ==
  ASSUME Pool!TypeOK, Table, Given,
         NEW q, Finishing(q), Sound(q), q.reuseOn, q.cascade \in seen \cup {0},
         seen' = seen,
         entries' \in Conv!Stored(FingerprintAfter(q),
                        [cascade |-> q.cascade, key |-> q.acct, port |-> q.port, last |-> now])
  PROVE  /\ Table' /\ \A f \in DOMAIN entries' : entries'[f].cascade \in seen'
         /\ \A f \in DOMAIN entries' :
              \/ entries'[f].cascade = q.cascade /\ f = FingerprintAfter(q)
              \/ f \in DOMAIN entries /\ entries'[f] = entries[f]
<1> DEFINE fp == FingerprintAfter(q)
           e == [cascade |-> q.cascade, key |-> q.acct, port |-> q.port, last |-> now]
<1>1. \A f, g : Conv!Stored(f, g) = CV!Stored(f, g)
  BY DEF Conv!Stored, CV!Stored, Conv!With, CV!With, Conv!Restrict, CV!Restrict, Conv!OldestOf,
     CV!OldestOf, Conv!Cardinality, CV!Cardinality
<1>2. /\ entries' = [f \in DOMAIN entries' |-> entries'[f]]
      /\ DOMAIN entries' \subseteq DOMAIN entries \cup {fp}
      /\ \A f \in DOMAIN entries' : entries'[f] = IF f = fp THEN e ELSE entries[f]
  <2>1. entries' \in CV!Stored(fp, e)
    BY <1>1
  <2> HIDE DEF fp, e
  <2> QED BY <2>1, CV!StoredEntries, LimitsAssumption, PoolAssumption DEF CV!LimitsAssumption
<1>3. /\ q.cascade \in seen /\ q.cascade \in Cascades
      /\ q.acct \in Accounts /\ q.port \in Ports /\ now \in Nat
      /\ fp \in Fingerprints
  BY DEF Sound, Local, Using, Served, Finishing, Busy, Trying, Fingerprints, FingerprintAfter,
     Pool!TypeOK
<1>4. e \in Conv!Entry /\ e.cascade = q.cascade
  BY <1>3 DEF Conv!Entry
<1> HIDE DEF fp, e
<1>5. Table'
  BY <1>2, <1>3, <1>4 DEF Table
<1>6. \A f \in DOMAIN entries' : entries'[f].cascade \in seen'
  BY <1>2, <1>3, <1>4 DEF Given
<1>7. ASSUME NEW f \in DOMAIN entries'
      PROVE  \/ entries'[f].cascade = q.cascade /\ f = fp
             \/ f \in DOMAIN entries /\ entries'[f] = entries[f]
  BY <1>2, <1>4
<1> QED BY <1>5, <1>6, <1>7 DEF fp

\* Every step keeps the table well typed and the cascades in use known.
LEMMA TableKept ==
  ASSUME Locals, Ported, Table, Given, Pool!TypeOK, [Next]_vars
  PROVE  Table' /\ Given'
<1>1. SUFFICES /\ Table'
               /\ \A f \in DOMAIN entries' : entries'[f].cascade \in seen'
               /\ \A r \in Requests : req'[r].cascade \in seen' \cup {0}
  BY DEF Given
<1>2. ASSUME UNCHANGED <<entries, seen>>
      PROVE  Table' /\ \A f \in DOMAIN entries' : entries'[f].cascade \in seen'
  BY <1>2 DEF Table, Given
<1>3. ASSUME NEW r \in Requests, NEW p, req' = [req EXCEPT ![r] = p], p.cascade \in seen' \cup {0},
             seen \subseteq seen'
      PROVE  \A s \in Requests : req'[s].cascade \in seen' \cup {0}
  <2>1. \A s \in Requests : req'[s] = IF s = r THEN p ELSE req[s]
    BY <1>3 DEF Locals
  <2> QED BY <1>3, <2>1 DEF Given
<1>4. CASE UNCHANGED <<entries, seen, req>>
  BY <1>2, <1>4 DEF Given
<1>5. ASSUME NEW a \in Accounts, NEW p \in Ports, Respawn(a, p)
      PROVE  /\ Table'
             /\ \A f \in DOMAIN entries' : entries'[f].cascade \in seen'
             /\ \A r \in Requests : req'[r].cascade \in seen' \cup {0}
  BY <1>5, TableDropped DEF Respawn, Given
<1>6. ASSUME NEW r \in Requests, Arrive(r) \/ Serve(r) \/ Chunk(r) \/ Leave(r)
      PROVE  /\ Table'
             /\ \A f \in DOMAIN entries' : entries'[f].cascade \in seen'
             /\ \A s \in Requests : req'[s].cascade \in seen' \cup {0}
  <2> DEFINE q == req[r]
  <2>0. Sound(q) /\ q.cascade \in seen \cup {0}
    BY DEF Locals, Given
  <2>1. ASSUME NEW p, Moves(r, p), UNCHANGED <<entries, seen>>
        PROVE  /\ Table'
               /\ \A f \in DOMAIN entries' : entries'[f].cascade \in seen'
               /\ \A s \in Requests : req'[s].cascade \in seen' \cup {0}
    <3>1. p.cascade \in seen' \cup {0}
      BY <2>0, <2>1 DEF Moves, Quiet
    <3> QED BY <1>2, <1>3, <2>1, <3>1 DEF Moves
  <2>2. CASE Checkout(r)
    <3>1. PICK p : /\ req' = [req EXCEPT ![r] = p]
                   /\ Missed(q, p) \/ TooOld(q, p) \/ Resumed(q, p)
      BY <2>2, CheckoutMoves
    <3>2. seen' = seen
      BY <2>2 DEF Checkout
    <3>3. p.cascade \in seen' \cup {0}
      BY <3>1, <3>2 DEF Missed, TooOld, Resumed, Given
    <3>4. \A s \in Requests : req'[s].cascade \in seen' \cup {0}
      BY <1>3, <3>1, <3>2, <3>3
    <3>5. CASE Missed(q, p)
      BY <1>2, <3>2, <3>4, <3>5 DEF Missed
    <3>6. CASE TooOld(q, p) \/ Resumed(q, p)
      <4>1. entries' = Conv!Drop({Before(q)})
        BY <3>6 DEF TooOld, Resumed
      <4> QED BY <3>2, <3>4, <4>1, TableDropped
    <3> QED BY <3>1, <3>5, <3>6
  <2>3. CASE Send(r)
    <3>1. PICK p : /\ req' = [req EXCEPT ![r] = p]
                   /\ \/ Quiet(q, p) /\ UNCHANGED <<seen, server>>
                      \/ Quiet(q, p) /\ Continues(q, p)
                      \/ \E c \in Cascades \ seen : Opens(q, p, c)
      BY <2>3, SendMoves
    <3>2. entries' = entries
      BY <2>3 DEF Send
    <3>3. CASE Quiet(q, p) /\ seen' = seen
      BY <2>1, <3>1, <3>2, <3>3 DEF Moves
    <3>4. ASSUME NEW c \in Cascades \ seen, Opens(q, p, c)
          PROVE  /\ Table'
                 /\ \A f \in DOMAIN entries' : entries'[f].cascade \in seen'
                 /\ \A s \in Requests : req'[s].cascade \in seen' \cup {0}
      <4>1. seen' = seen \cup {c} /\ p.cascade = c
        BY <3>4 DEF Opens
      <4>2. \A s \in Requests : req'[s].cascade \in seen' \cup {0}
        BY <1>3, <3>1, <4>1
      <4> QED BY <3>2, <4>1, <4>2 DEF Table, Given
    <3> QED BY <3>1, <3>3, <3>4 DEF Continues
  <2>4. CASE Succeed(r)
    <3>1. PICK p : req' = [req EXCEPT ![r] = p] /\ p.cascade = q.cascade
      BY <2>4, SucceedMoves
    <3>2. UNCHANGED <<entries, seen>>
      BY <2>4 DEF Succeed, convVars
    <3> QED BY <1>2, <1>3, <2>0, <3>1, <3>2
  <2>5. CASE Finish(r)
    <3>1. seen' = seen /\ Finishing(q) /\ Moves(r, Answered(q, "ok"))
      BY <2>5, FinishMoves DEF Finish, Step, Finishing
    <3>2. CASE UNCHANGED entries
      BY <2>1, <3>1, <3>2
    <3>3. CASE /\ ~q.stream /\ q.reuseOn
               /\ entries' \in Conv!Stored(FingerprintAfter(q),
                                 [cascade |-> q.cascade, key |-> q.acct, port |-> q.port, last |-> now])
      <4>1. Table' /\ \A f \in DOMAIN entries' : entries'[f].cascade \in seen'
        BY <2>0, <3>1, <3>3, StoredTable
      <4>2. Answered(q, "ok").cascade \in seen' \cup {0}
        BY <2>0, <3>1 DEF Moves, Quiet
      <4> QED BY <1>3, <3>1, <4>1, <4>2 DEF Moves
    <3> QED BY <2>5, <3>2, <3>3 DEF Finish
  <2> QED BY <1>6, <2>1, <2>2, <2>3, <2>4, <2>5, RequestCases DEF convVars
<1>7. CASE Tick \/ \E a \in Accounts : Remove(a)
  BY <1>4, <1>7 DEF Tick, Remove, convVars
<1> QED BY <1>4, <1>5, <1>6, <1>7 DEF Next, vars, convVars

-----------------------------------------------------------------------------
(* Type correctness, and one voice.                                        *)

Inv == Pool!TypeOK /\ AP!GrantsKept /\ Locals /\ Ported /\ Counted /\ Table /\ Given

\* A start of the service with its accounts loaded.
LEMMA Initially == Init => Inv
<1> SUFFICES ASSUME Init PROVE Inv
  OBVIOUS
<1>1. PICK quota \in Percents :
        acct = [a \in Accounts |-> [Pool!Fresh EXCEPT !.tier = "pro",
                                      !.credits = [daily |-> quota, weekly |-> quota]]]
  BY DEF Init
<1> DEFINE c == [daily |-> quota, weekly |-> quota]
           rec == [Pool!Fresh EXCEPT !.tier = "pro", !.credits = c]
<1>2. rec \in Pool!AccountRecords /\ rec.rpm = {}
  <2>1. c \in [daily : Nat, weekly : Nat]
    BY PoolAssumption
  <2> HIDE DEF c
  <2> QED
    BY <2>1 DEF Pool!Fresh, Pool!AccountRecords, Pool!Statuses, Pool!Tiers, Pool!NoCredits
<1> HIDE DEF rec
<1>3. acct = [a \in Accounts |-> rec]
  BY <1>1 DEF rec
<1>4. Pool!TypeOK
  BY <1>2, <1>3 DEF Init, Pool!TypeOK
<1>5. AP!GrantsKept
  <2>1. \A S : AP!IsFiniteSet(S) <=> IsFiniteSet(S)
    BY DEF AP!IsFiniteSet, IsFiniteSet
  <2> QED BY <1>2, <1>3, <2>1, FS_EmptySet DEF Init, AP!GrantsKept, AP!LastMinute
<1>6. Locals
  BY IdleSound DEF Init, Locals
<1>7. Counted
  <2>1. \A a \in Accounts : Holders(a) = {}
    BY DEF Init, Holders, Idle, Busy
  <2> QED BY <2>1, FS_EmptySet DEF Init, Counted
<1>8. Ported /\ Table /\ Given
  BY DEF Init, Ported, Table, Given, Idle
<1> QED BY <1>4, <1>5, <1>6, <1>7, <1>8 DEF Inv

\* The locals and the counts survive the step of a request.
LEMMA ServedKeeps ==
  ASSUME Inv, NEW r \in Requests, Arrive(r) \/ Serve(r) \/ Chunk(r) \/ Leave(r)
  PROVE  Locals' /\ Counted' /\ Ported'
<1>0. Locals /\ Ported /\ Counted /\ Pool!TypeOK /\ Table /\ inflight \in [Accounts -> Nat]
  BY DEF Inv, Pool!TypeOK
<1>1. ASSUME NEW p, req' = [req EXCEPT ![r] = p], Sound(p), Balanced(req[r], p), portOf' = portOf
      PROVE  Locals' /\ Counted' /\ Ported'
  BY <1>0, <1>1, OthersSound, CountKept DEF Ported
<1>2. CASE Checkout(r)
  <2>1. inflight' = inflight /\ portOf' = portOf
    BY <1>2 DEF Checkout, poolVars
  <2> QED BY <1>0, <1>1, <1>2, <2>1, CheckoutMoves DEF Balanced
<1>3. CASE Send(r)
  <2>1. inflight' = inflight /\ portOf' = portOf
    BY <1>3 DEF Send, poolVars
  <2> QED BY <1>0, <1>1, <1>3, <2>1, SendMoves DEF Balanced, Quiet, Opens
<1>4. CASE Succeed(r)
  <2>1. inflight' = inflight /\ portOf' = portOf
    BY <1>4 DEF Succeed, poolVars
  <2> QED BY <1>0, <1>1, <1>4, <2>1, SucceedMoves DEF Balanced
<1>5. CASE Finish(r)
  <2>1. portOf' = portOf
    BY <1>5 DEF Finish
  <2> QED BY <1>0, <1>1, <1>5, <2>1, FinishMoves DEF Balanced, Moves, Quiet
<1> QED BY <1>0, <1>1, <1>2, <1>3, <1>4, <1>5, RequestCases DEF Moves, Quiet

\* Every step keeps the invariant.
LEMMA Stepwise == Inv /\ [Next]_vars => Inv'
<1> SUFFICES ASSUME Inv, [Next]_vars PROVE Inv'
  OBVIOUS
<1>1. Pool!TypeOK' /\ AP!GrantsKept'
  BY PoolKept DEF Inv
<1>2. Table' /\ Given'
  BY TableKept DEF Inv
<1>3. ASSUME UNCHANGED <<req, inflight>> PROVE Locals' /\ Counted'
  BY <1>3 DEF Inv, Locals, Counted, Holders
<1>4. Locals' /\ Counted' /\ Ported'
  <2>1. CASE \E r \in Requests : Arrive(r) \/ Serve(r) \/ Chunk(r) \/ Leave(r)
    BY <2>1, ServedKeeps
  <2>2. ASSUME NEW a \in Accounts, NEW p \in Ports, Respawn(a, p)
        PROVE  Locals' /\ Counted' /\ Ported'
    BY <1>3, <2>2 DEF Respawn, poolVars, Inv, Ported
  <2>3. ASSUME NEW a \in Accounts, Remove(a) PROVE Locals' /\ Counted' /\ Ported'
    BY <1>3, <2>3 DEF Remove, Pool!Remove, Inv, Ported
  <2>4. CASE Tick
    BY <1>3, <2>4 DEF Tick, Pool!Tick, Inv, Ported
  <2>5. CASE UNCHANGED vars
    BY <1>3, <2>5 DEF vars, poolVars, Inv, Ported
  <2> QED BY <2>1, <2>2, <2>3, <2>4, <2>5 DEF Next
<1> QED BY <1>1, <1>2, <1>4 DEF Inv

\* In every reachable state the locals of the requests are sound, each account
\* has as many requests in flight as hold it, and every cascade in use was
\* given out by a language server.
THEOREM Invariance == Spec => []Inv
<1> QED BY Initially, Stepwise, PTL DEF Spec

\* Both pools and the requests' locals are well typed, and an account held by a
\* request is counted as in flight until the request gives it back.
THEOREM WellTyped == Spec => []TypeOK
<1>1. Inv => TypeOK
  <2> SUFFICES ASSUME Inv PROVE TypeOK
    OBVIOUS
  <2>1. Conv!TypeOK
    BY HoldsType DEF Inv, Table, Conv!TypeOK, Pool!TypeOK
  <2>2. ASSUME NEW r \in Requests
        PROVE  LET q == req[r] IN
               /\ q.tried \subseteq Accounts
               /\ q.reuse = NoEntry \/ q.reuse \in Conv!Entry
               /\ q.cascade \in Cascades \cup {0}
               /\ q.attempt \in 0..q.max /\ q.max \in 0..10
               /\ q.spoke \subseteq 0..q.max
               /\ q.pc \in {"preflight", "ensure", "send", "poll", "report"} =>
                    inflight[q.acct] > 0 \/ q.acct \notin pool
    <3> DEFINE q == req[r]
    <3>1. Local(q) /\ Speaks(q)
      BY DEF Inv, Locals, Sound
    <3>2. q.attempt \in 0..q.max /\ q.max \in 0..10
      BY <3>1 DEF Local
    <3>3. q.spoke \subseteq 0..q.max
      BY <3>1, <3>2 DEF Speaks
    <3>4. ASSUME q.pc \in Busy PROVE inflight[q.acct] > 0
      <4>1. q.acct \in Accounts /\ r \in Holders(q.acct)
        BY <3>1, <3>4 DEF Local, Holders
      <4>2. Cardinality(Holders(q.acct)) > 0
        BY <4>1, OneLess DEF Holders
      <4> QED BY <4>1, <4>2 DEF Inv, Counted
    <3> QED BY <3>1, <3>2, <3>3, <3>4 DEF Local, Busy
  <2> QED BY <2>1, <2>2 DEF Inv, TypeOK, Ported
<1> QED BY <1>1, Invariance, PTL

\* A stream speaks in one attempt only: an error after the first chunk is not
\* tried again, and before it nothing has been said (Fail, Loop).
THEOREM OneVoiceKept == Spec => []OneVoice
<1>1. Inv => OneVoice
  <2> SUFFICES ASSUME Inv, NEW r \in Requests PROVE Cardinality(req[r].spoke) <= 1
    BY DEF OneVoice
  <2> DEFINE S == {req[r].attempt}
  <2>1. req[r].spoke \subseteq S
    BY DEF Inv, Locals, Sound, Speaks
  <2>2. IsFiniteSet(S) /\ Cardinality(S) = 1
    BY FS_Singleton
  <2> HIDE DEF S
  <2>3. Cardinality(req[r].spoke) <= Cardinality(S)
    BY <2>1, <2>2, FS_Subset
  <2> QED BY <2>2, <2>3
<1> QED BY <1>1, Invariance, PTL

-----------------------------------------------------------------------------
(* Requests use the conversation pool as ConvPool says its callers do.     *)

\* A request that lets go of a cascade, or does nothing the pool could see.
LEMMA QuietConv ==
  ASSUME Locals, NEW r \in Requests, NEW p, Moves(r, p), UNCHANGED <<now, entries, seen>>
  PROVE  Conv!Next \/ UNCHANGED Conv!vars
<1>1. req' = [req EXCEPT ![r] = p] /\ p.cascade \in {req[r].cascade, 0}
  BY DEF Moves, Quiet
<1>2. CASE p.cascade = req[r].cascade
  BY <1>1, <1>2, HoldsSame DEF Conv!vars
<1>3. CASE p.cascade # req[r].cascade
  <2>1. req[r].cascade \in Cascades /\ p.cascade = 0
    BY <1>1, <1>3 DEF Locals, Sound, Local
  <2>2. Conv!LetGo(req[r].cascade)
    BY <1>1, <2>1, HoldsLess DEF Conv!LetGo
  <2> QED BY <2>1, <2>2 DEF Conv!Next
<1> QED BY <1>2, <1>3

\* A checkout is ConvPool's, or finds nothing and is none of its steps.
LEMMA CheckoutConv ==
  ASSUME Inv, NEW r \in Requests, Checkout(r)
  PROVE  Conv!Next \/ UNCHANGED Conv!vars
<1> DEFINE q == req[r]
<1>0. Locals /\ Table /\ Pool!TypeOK /\ seen' = seen /\ now' = now
  BY DEF Inv, Checkout
<1>1. PICK p : /\ req' = [req EXCEPT ![r] = p] /\ q.cascade = 0
               /\ Missed(q, p) \/ TooOld(q, p) \/ Resumed(q, p)
  BY <1>0, CheckoutMoves
<1>2. CASE Missed(q, p)
  <2>1. Holds' = Holds
    BY <1>0, <1>1, <1>2, HoldsSame DEF Missed
  <2> QED BY <1>0, <1>2, <2>1 DEF Missed, Conv!vars
<1>3. CASE TooOld(q, p)
  <2>1. Holds' = Holds
    BY <1>0, <1>1, <1>3, HoldsSame DEF TooOld
  <2>2. Conv!Checkout(Before(q))
    BY <1>0, <1>3, <2>1 DEF TooOld, Conv!Checkout
  <2> QED BY <1>0, <1>3, <2>2 DEF Conv!Next, TooOld, Table
<1>4. CASE Resumed(q, p)
  <2>1. p.cascade = entries[Before(q)].cascade /\ p.cascade \in Cascades
    BY <1>0, <1>4 DEF Resumed, Table, Conv!Entry
  <2>2. Holds' = [Holds EXCEPT ![p.cascade] = @ + 1]
    BY <1>0, <1>1, <2>1, HoldsMore
  <2>3. Conv!Checkout(Before(q))
    BY <1>0, <1>4, <2>1, <2>2 DEF Resumed, Conv!Checkout
  <2> QED BY <1>0, <1>4, <2>3 DEF Conv!Next, Resumed, Table
<1> QED BY <1>1, <1>2, <1>3, <1>4

\* A send opens a cascade nobody has, or is none of ConvPool's steps.
LEMMA SendConv ==
  ASSUME Inv, NEW r \in Requests, Send(r)
  PROVE  Conv!Next \/ UNCHANGED Conv!vars
<1> DEFINE q == req[r]
<1>0. Locals /\ now' = now /\ entries' = entries
  BY DEF Inv, Send
<1>1. PICK p : /\ req' = [req EXCEPT ![r] = p]
               /\ \/ Quiet(q, p) /\ UNCHANGED <<seen, server>>
                  \/ Quiet(q, p) /\ Continues(q, p)
                  \/ \E c \in Cascades \ seen : Opens(q, p, c)
  BY <1>0, SendMoves
<1>2. CASE Quiet(q, p) /\ seen' = seen
  BY <1>0, <1>1, <1>2, QuietConv DEF Moves
<1>3. ASSUME NEW c \in Cascades \ seen, Opens(q, p, c)
      PROVE  Conv!Next
  <2>1. q.cascade = 0 /\ p.cascade = c /\ seen' = seen \cup {c}
    BY <1>3 DEF Opens
  <2>2. Holds' = [Holds EXCEPT ![c] = @ + 1]
    BY <1>0, <1>1, <2>1, HoldsMore
  <2>3. Holds[c] = 0
    <3>1. Users(c) = {}
      BY <1>3, CascadesAssumption DEF Users, Inv, Given
    <3> QED BY <3>1, HoldsCount, FS_EmptySet
  <2>4. Holds' = [Holds EXCEPT ![c] = 1]
    BY <2>2, <2>3
  <2> QED BY <1>0, <1>3, <2>1, <2>4 DEF Conv!Next, Conv!Open
<1> QED BY <1>1, <1>2, <1>3 DEF Continues

\* An answer checks the cascade in, or lets it go, or had none.
LEMMA FinishConv ==
  ASSUME Inv, NEW r \in Requests, Finish(r)
  PROVE  Conv!Next \/ UNCHANGED Conv!vars
<1> DEFINE q == req[r]
           d == Answered(q, "ok")
           fp == FingerprintAfter(q)
<1>0. /\ Locals /\ Sound(q) /\ Finishing(q) /\ seen' = seen /\ now' = now
      /\ req' = [req EXCEPT ![r] = d] /\ d.cascade = 0 /\ Moves(r, d)
  <2>1. d.cascade = 0
    BY DEF Inv, Locals, Sound, Local, Answered, Fields
  <2> QED BY <2>1, FinishMoves DEF Inv, Locals, Finish, Step, Pool!Release, Finishing
<1> HIDE DEF d
<1>1. CASE UNCHANGED entries
  BY <1>0, <1>1, QuietConv
<1>2. CASE /\ ~q.stream /\ q.reuseOn
           /\ entries' \in Conv!Stored(FingerprintAfter(q),
                             [cascade |-> q.cascade, key |-> q.acct, port |-> q.port, last |-> now])
  <2>1. /\ q.cascade \in Cascades /\ q.acct \in Accounts /\ q.port \in Ports
        /\ fp \in Fingerprints
    BY <1>0, <1>2
       DEF Sound, Local, Using, Served, Finishing, Busy, Trying, Fingerprints, FingerprintAfter
  <2>2. Holds' = [Holds EXCEPT ![q.cascade] = @ - 1] /\ Holds[q.cascade] > 0
    BY <1>0, <2>1, HoldsLess
  <2>3. Conv!Checkin(fp, q.cascade, q.acct, q.port)
    BY <1>0, <1>2, <2>2 DEF Conv!Checkin
  <2> HIDE DEF fp
  <2> QED BY <2>1, <2>3 DEF Conv!Next
<1> QED BY <1>1, <1>2 DEF Finish

\* Every step of ChatFlow is a step of ConvPool or leaves it alone.
LEMMA ConvStep == Inv /\ [Next]_vars => [Conv!Next]_(Conv!vars)
<1> SUFFICES ASSUME Inv, [Next]_vars PROVE Conv!Next \/ UNCHANGED Conv!vars
  OBVIOUS
<1>0. Locals /\ Ported /\ Pool!TypeOK
  BY DEF Inv
<1>1. ASSUME NEW r \in Requests, Arrive(r) \/ Serve(r) \/ Chunk(r) \/ Leave(r)
      PROVE  Conv!Next \/ UNCHANGED Conv!vars
  <2>1. CASE Succeed(r)
    <3>1. PICK p : req' = [req EXCEPT ![r] = p] /\ p.cascade = req[r].cascade
      BY <1>0, <2>1, SucceedMoves
    <3>2. Holds' = Holds
      BY <1>0, <3>1, HoldsSame
    <3> QED BY <2>1, <3>2 DEF Succeed, convVars, Conv!vars
  <2>2. ASSUME NEW p, Moves(r, p), UNCHANGED <<now, convVars>>
        PROVE  Conv!Next \/ UNCHANGED Conv!vars
    BY <1>0, <2>2, QuietConv DEF convVars
  <2> QED
    BY <1>0, <1>1, <2>1, <2>2, CheckoutConv, SendConv, FinishConv, RequestCases
<1>2. ASSUME UNCHANGED req PROVE Holds' = Holds
  BY <1>2 DEF Holds
<1>3. ASSUME NEW a \in Accounts, NEW p \in Ports, Respawn(a, p) PROVE Conv!Next
  <2>1. portOf[a] \in Ports
    BY <1>0 DEF Ported
  <2>2. Conv!InvalidateFor(portOf[a])
    BY <1>2, <1>3 DEF Respawn, Conv!InvalidateFor
  <2> QED BY <2>1, <2>2 DEF Conv!Next
<1>4. ASSUME NEW a \in Accounts, Remove(a) PROVE UNCHANGED Conv!vars
  BY <1>2, <1>4 DEF Remove, Pool!Remove, convVars, Conv!vars
<1>5. CASE Tick
  <2>1. Conv!Tick
    BY <1>2, <1>5 DEF Tick, Pool!Tick, convVars, Conv!Tick
  <2> QED BY <2>1 DEF Conv!Next
<1>6. CASE UNCHANGED vars
  BY <1>2, <1>6 DEF vars, convVars, Conv!vars
<1> QED BY <1>1, <1>3, <1>4, <1>5, <1>6 DEF Next

\* Every run of the handlers is, to the conversation pool, a run of the callers
\* ConvPool assumes: they open, check out, check in and let go of one cascade at
\* a time, each only what it holds.
THEOREM Refinement == Spec => UsesConvPool
<1>1. Init => Conv!Init
  <2> SUFFICES ASSUME Init PROVE Conv!Init
    OBVIOUS
  <2>1. \A c \in Cascades : Users(c) = {}
    BY CascadesAssumption DEF Init, Users, Idle
  <2>2. Holds = [c \in Cascades |-> 0]
    BY <2>1, HoldsCount, FS_EmptySet
  <2> QED BY <2>2 DEF Init, Conv!Init
<1> QED BY <1>1, ConvStep, Invariance, PTL DEF Spec, UsesConvPool, Conv!Spec

\* Both instances of ConvPool define the same.
LEMMA SameConv ==
  /\ Conv!Init => CV!Init
  /\ [Conv!Next]_(Conv!vars) => [CV!Next]_(CV!vars)
  /\ CV!Exclusive => Conv!Exclusive
<1>1. Conv!Init => CV!Init
  BY DEF Conv!Init, CV!Init
<1>2. \A f, e : Conv!Stored(f, e) = CV!Stored(f, e)
  BY DEF Conv!Stored, CV!Stored, Conv!With, CV!With, Conv!Restrict, CV!Restrict, Conv!OldestOf,
     CV!OldestOf, Conv!Cardinality, CV!Cardinality
<1>3. \A S : Conv!Drop(S) = CV!Drop(S)
  BY DEF Conv!Drop, CV!Drop, Conv!Restrict, CV!Restrict
<1>4. \A c : (Conv!Open(c) => CV!Open(c)) /\ (Conv!LetGo(c) => CV!LetGo(c))
  BY DEF Conv!Open, CV!Open, Conv!LetGo, CV!LetGo
<1>5. \A f : Conv!Checkout(f) => CV!Checkout(f)
  BY <1>3 DEF Conv!Checkout, CV!Checkout, Conv!FreshEnough, CV!FreshEnough
<1>6. \A f, c, k, p : Conv!Checkin(f, c, k, p) => CV!Checkin(f, c, k, p)
  BY <1>2 DEF Conv!Checkin, CV!Checkin
<1>7. /\ \A p : Conv!InvalidateFor(p) => CV!InvalidateFor(p)
      /\ Conv!Clear => CV!Clear
      /\ Conv!Tick => CV!Tick
  BY <1>3 DEF Conv!InvalidateFor, CV!InvalidateFor, Conv!Clear, CV!Clear, Conv!Tick, CV!Tick
<1>8. [Conv!Next]_(Conv!vars) => [CV!Next]_(CV!vars)
  BY <1>4, <1>5, <1>6, <1>7 DEF Conv!Next, CV!Next, Conv!vars, CV!vars
<1>9. CV!Exclusive => Conv!Exclusive
  BY DEF CV!Exclusive, Conv!Exclusive, CV!InPool, Conv!InPool
<1> QED BY <1>1, <1>8, <1>9

\* So no two requests ever hold one cascade, and none holds one that another
\* could check out.
THEOREM CascadesApart == Spec => []Conv!Exclusive
<1>1. Conv!Spec => CV!Spec
  BY SameConv, PTL DEF Conv!Spec, CV!Spec
<1>2. CV!Spec => []CV!Exclusive
  BY CV!OnePlace, LimitsAssumption, PoolAssumption DEF CV!LimitsAssumption
<1>3. Spec => Conv!Spec
  BY Refinement DEF UsesConvPool
<1>4. CV!Exclusive => Conv!Exclusive
  BY SameConv
<1> QED BY <1>1, <1>2, <1>3, <1>4, PTL

-----------------------------------------------------------------------------
(* A conversation is resumed where it stands.                              *)

\* What a request may still count on of the cascade it holds.
StandsFor(q) ==
  /\ q.reuse # NoEntry /\ ~q.sent => server[q.cascade] = <<"answered", q.client, q.turn - 1>>
  /\ Finishing(q) /\ q.cascade # 0 => server[q.cascade] = <<"answered", q.client, q.turn>>

\* A fingerprint leads to the conversation it was taken of, and a request to the
\* one it continues.
Stands ==
  /\ server = [c \in Cascades |-> server[c]]
  /\ \A f \in DOMAIN entries : server[entries[f].cascade] = <<"answered", f[1], f[2]>>
  /\ \A r \in Requests : StandsFor(req[r])

\* Nobody else has, or could come by, the cascade a request holds.
LEMMA Apart ==
  ASSUME Inv, Conv!Exclusive, NEW r \in Requests, req[r].cascade \in Cascades
  PROVE  /\ \A s \in Requests \ {r} : req[s].cascade # req[r].cascade
         /\ \A f \in DOMAIN entries : entries[f].cascade # req[r].cascade
<1>0. PICK c \in Cascades : c = req[r].cascade
  OBVIOUS
<1>1. r \in Users(c) /\ Users(c) \subseteq Requests
  BY <1>0 DEF Users
<1>2. /\ Holds[c] = Cardinality(Users(c)) /\ Holds[c] \in Nat
      /\ Cardinality(Users(c) \ {r}) = Cardinality(Users(c)) - 1 /\ Cardinality(Users(c)) > 0
  BY <1>1, OneLess, HoldsCount, HoldsType
<1>3. Holds[c] = 1
  BY <1>2 DEF Conv!Exclusive
<1>4. ASSUME NEW s \in Requests \ {r}, req[s].cascade = c PROVE FALSE
  <2>1. s \in Users(c) \ {r}
    BY <1>4 DEF Users
  <2>2. Cardinality(Users(c) \ {r}) > 0
    BY <1>1, <2>1, OneLess
  <2> QED BY <1>2, <1>3, <2>2
<1>5. \A f \in DOMAIN entries : entries[f].cascade # c
  BY <1>3 DEF Conv!Exclusive, Conv!InPool
<1> QED BY <1>0, <1>4, <1>5

\* A step that leaves the servers and the other requests alone.
LEMMA QuietStands ==
  ASSUME Locals, Stands, NEW r \in Requests, NEW p, Moves(r, p), server' = server
  PROVE  \A s \in Requests : StandsFor(req[s])'
<1>1. \A s \in Requests : req'[s] = IF s = r THEN p ELSE req[s]
  BY DEF Locals, Moves
<1>2. StandsFor(p)'
  <2>1. StandsFor(req[r]) /\ Quiet(req[r], p)
    BY DEF Stands, Moves
  <2>2. p.reuse # NoEntry => p.reuse = req[r].reuse /\ p.cascade = req[r].cascade
    BY <2>1 DEF Quiet, Sound, Using, Locals
  <2>3. p.reuse # NoEntry /\ ~p.sent => ~req[r].sent
    BY <2>1 DEF Quiet
  <2>4. Finishing(p) /\ p.cascade # 0 => Finishing(req[r]) /\ p.cascade = req[r].cascade
    BY <2>1 DEF Quiet
  <2> QED BY <2>1, <2>2, <2>3, <2>4 DEF Quiet, StandsFor
<1>3. ASSUME NEW s \in Requests PROVE StandsFor(req[s])'
  <2>1. CASE s = r
    BY <1>1, <1>2, <2>1 DEF StandsFor
  <2>2. CASE s # r
    BY <1>1, <2>2 DEF Stands, StandsFor
  <2> QED BY <2>1, <2>2
<1> QED BY <1>3

\* A step that changes what one server holds of a cascade nobody else has.
LEMMA OneStands ==
  ASSUME Locals, Stands,
         NEW r \in Requests, NEW p, req' = [req EXCEPT ![r] = p],
         NEW c \in Cascades, NEW v, server' = [server EXCEPT ![c] = v], entries' = entries, StandsFor(p)',
         \A s \in Requests \ {r} : req[s].cascade # c,
         \A f \in DOMAIN entries : entries[f].cascade # c
  PROVE  Stands'
<1>1. \A s \in Requests : req'[s] = IF s = r THEN p ELSE req[s]
  BY DEF Locals
<1>2. /\ server' = [d \in Cascades |-> server'[d]]
      /\ \A d : d # c => server'[d] = server[d]
  BY DEF Stands
<1>3. ASSUME NEW s \in Requests PROVE StandsFor(req[s])'
  <2>1. CASE s = r
    BY <1>1, <2>1 DEF StandsFor
  <2>2. CASE s # r
    <3>1. req'[s] = req[s] /\ server'[req[s].cascade] = server[req[s].cascade]
      BY <1>1, <1>2, <2>2
    <3> QED BY <3>1 DEF Stands, StandsFor
  <2> QED BY <2>1, <2>2
<1>4. \A f \in DOMAIN entries' : server'[entries'[f].cascade] = <<"answered", f[1], f[2]>>
  BY <1>2 DEF Stands
<1> QED BY <1>2, <1>3, <1>4 DEF Stands

\* A checkout takes over what the entry stood for.
LEMMA CheckoutStands ==
  ASSUME Inv, Stands, NEW r \in Requests, Checkout(r)
  PROVE  Stands'
<1> DEFINE q == req[r]
<1>0. Locals /\ Table /\ Pool!TypeOK /\ server' = server
  BY DEF Inv, Checkout
<1>1. PICK p : /\ req' = [req EXCEPT ![r] = p] /\ Sound(p) /\ ~Finishing(p)
               /\ Missed(q, p) \/ TooOld(q, p) \/ Resumed(q, p)
  BY <1>0, CheckoutMoves
<1>2. \A s \in Requests : req'[s] = IF s = r THEN p ELSE req[s]
  BY <1>0, <1>1 DEF Locals
<1>3. StandsFor(p)'
  <2>1. CASE p.reuse = NoEntry
    BY <1>1, <2>1 DEF StandsFor
  <2>2. CASE Resumed(q, p)
    <3>1. server[p.cascade] = <<"answered", p.client, p.turn - 1>>
      BY <2>2 DEF Resumed, Stands, Before
    <3> QED BY <1>0, <1>1, <3>1 DEF StandsFor
  <2> QED BY <1>1, <2>1, <2>2 DEF Missed, TooOld
<1>4. ASSUME NEW s \in Requests PROVE StandsFor(req[s])'
  <2>1. CASE s = r
    BY <1>2, <1>3, <2>1 DEF StandsFor
  <2>2. CASE s # r
    BY <1>0, <1>2, <2>2 DEF Stands, StandsFor
  <2> QED BY <2>1, <2>2
<1>5. /\ DOMAIN entries' \subseteq DOMAIN entries
      /\ \A f \in DOMAIN entries' : entries'[f] = entries[f]
  BY <1>1 DEF Missed, TooOld, Resumed, Conv!Drop, Conv!Restrict
<1> QED BY <1>0, <1>4, <1>5 DEF Stands

\* A send changes a cascade that is its own or new.
LEMMA SendStands ==
  ASSUME Inv, Conv!Exclusive, Stands, NEW r \in Requests, Send(r)
  PROVE  Stands'
<1> DEFINE q == req[r]
<1>0. Locals /\ entries' = entries
  BY DEF Inv, Send
<1>1. PICK p : /\ req' = [req EXCEPT ![r] = p] /\ ~Finishing(p)
               /\ \/ Quiet(q, p) /\ UNCHANGED <<seen, server>>
                  \/ Quiet(q, p) /\ Continues(q, p)
                  \/ \E c \in Cascades \ seen : Opens(q, p, c)
  BY <1>0, SendMoves
<1>2. CASE Quiet(q, p) /\ server' = server
  BY <1>0, <1>1, <1>2, QuietStands DEF Moves, Stands
<1>3. CASE Continues(q, p)
  <2>0. PICK c \in Cascades : c = q.cascade
    BY <1>3 DEF Continues
  <2>1. StandsFor(p)'
    BY <1>1, <1>3 DEF Continues, StandsFor
  <2>2. server' = [server EXCEPT ![c] = <<"open", q.client, q.turn>>]
    BY <1>3, <2>0 DEF Continues
  <2>3. /\ \A s \in Requests \ {r} : req[s].cascade # c
        /\ \A f \in DOMAIN entries : entries[f].cascade # c
    BY <2>0, Apart
  <2> QED BY <1>0, <1>1, <2>1, <2>2, <2>3, OneStands
<1>4. ASSUME NEW c \in Cascades \ seen, Opens(q, p, c)
      PROVE  Stands'
  <2>1. StandsFor(p)'
    BY <1>1, <1>4 DEF Opens, StandsFor
  <2>2. /\ \A s \in Requests : req[s].cascade # c
        /\ \A f \in DOMAIN entries : entries[f].cascade # c
    BY <1>4, CascadesAssumption DEF Inv, Given
  <2>3. server' = [server EXCEPT ![c] = <<"open", q.client, q.turn>>]
    BY <1>4 DEF Opens
  <2> QED BY <1>0, <1>1, <2>1, <2>2, <2>3, OneStands
<1> QED BY <1>1, <1>2, <1>3, <1>4

\* An answer changes a cascade that is its own.
LEMMA SucceedStands ==
  ASSUME Inv, Conv!Exclusive, Stands, NEW r \in Requests, Succeed(r)
  PROVE  Stands'
<1> DEFINE q == req[r]
<1>0. Locals /\ entries' = entries
  BY DEF Inv, Succeed, convVars
<1>1. PICK p : /\ req' = [req EXCEPT ![r] = p] /\ Sound(p)
               /\ p.cascade = q.cascade /\ p.reuse = q.reuse
               /\ p.reuse # NoEntry => p.sent
               /\ server' = IF p.cascade = 0 THEN server
                            ELSE [server EXCEPT ![p.cascade] = <<"answered", p.client, p.turn>>]
  BY <1>0, SucceedMoves
<1>2. CASE p.cascade = 0
  <2>1. server' = server /\ StandsFor(p)'
    BY <1>1, <1>2 DEF StandsFor
  <2>2. \A s \in Requests : req'[s] = IF s = r THEN p ELSE req[s]
    BY <1>0, <1>1 DEF Locals
  <2>3. ASSUME NEW s \in Requests PROVE StandsFor(req[s])'
    <3>1. CASE s = r
      BY <2>1, <2>2, <3>1 DEF StandsFor
    <3>2. CASE s # r
      BY <2>1, <2>2, <3>2 DEF Stands, StandsFor
    <3> QED BY <3>1, <3>2
  <2> QED BY <1>0, <2>1, <2>3 DEF Stands
<1>3. CASE p.cascade # 0
  <2>0. PICK c \in Cascades : c = p.cascade
    BY <1>1, <1>3 DEF Sound, Local
  <2>1. server' = [server EXCEPT ![c] = <<"answered", p.client, p.turn>>]
    BY <1>1, <1>3, <2>0
  <2>2. server'[c] = <<"answered", p.client, p.turn>>
    BY <2>1 DEF Stands
  <2>3. StandsFor(p)'
    BY <1>1, <2>0, <2>2 DEF StandsFor
  <2>4. /\ \A s \in Requests \ {r} : req[s].cascade # c
        /\ \A f \in DOMAIN entries : entries[f].cascade # c
    BY <1>1, <2>0, Apart
  <2>5. req' = [req EXCEPT ![r] = p]
    BY <1>1
  <2>6. PICK v : server' = [server EXCEPT ![c] = v]
    BY <2>1
  <2> QED BY <1>0, <2>3, <2>4, <2>5, <2>6, OneStands
<1> QED BY <1>2, <1>3

\* What is checked in was answered with this very turn.
LEMMA FinishStands ==
  ASSUME Inv, Stands, NEW r \in Requests, Finish(r)
  PROVE  Stands'
<1> DEFINE q == req[r]
<1>0. /\ Locals /\ Table /\ Given /\ Pool!TypeOK /\ Sound(q) /\ Finishing(q)
      /\ seen' = seen /\ server' = server
      /\ Moves(r, Answered(q, "ok")) /\ q.cascade \in seen \cup {0}
  BY FinishMoves DEF Inv, Locals, Finish, Step, Finishing, Given
<1>1. \A s \in Requests : StandsFor(req[s])'
  BY <1>0, QuietStands
<1>2. CASE UNCHANGED entries
  BY <1>0, <1>1, <1>2 DEF Stands
<1>3. CASE /\ ~q.stream /\ q.reuseOn
           /\ entries' \in Conv!Stored(FingerprintAfter(q),
                             [cascade |-> q.cascade, key |-> q.acct, port |-> q.port, last |-> now])
  <2>1. \A f \in DOMAIN entries' :
          \/ entries'[f].cascade = q.cascade /\ f = FingerprintAfter(q)
          \/ f \in DOMAIN entries /\ entries'[f] = entries[f]
    BY <1>0, <1>3, StoredTable
  <2>2. server[q.cascade] = <<"answered", q.client, q.turn>>
    BY <1>0, <1>3 DEF Stands, StandsFor, Sound, Using, Served
  <2>3. ASSUME NEW f \in DOMAIN entries'
        PROVE  server'[entries'[f].cascade] = <<"answered", f[1], f[2]>>
    <3>1. CASE entries'[f].cascade = q.cascade /\ f = FingerprintAfter(q)
      <4>1. f[1] = q.client /\ f[2] = q.turn
        BY <3>1 DEF FingerprintAfter
      <4> QED BY <1>0, <2>2, <3>1, <4>1
    <3>2. CASE f \in DOMAIN entries /\ entries'[f] = entries[f]
      BY <1>0, <3>2 DEF Stands
    <3> QED BY <2>1, <3>1, <3>2
  <2> QED BY <1>0, <1>1, <2>3 DEF Stands
<1> QED BY <1>2, <1>3 DEF Finish

\* Every step keeps it, cascades being apart.
LEMMA StandsStep == Inv /\ Conv!Exclusive /\ Stands /\ [Next]_vars => Stands'
<1> SUFFICES ASSUME Inv, Conv!Exclusive, Stands, [Next]_vars PROVE Stands'
  OBVIOUS
<1>0. Locals /\ Ported /\ Pool!TypeOK
  BY DEF Inv
<1>1. ASSUME NEW r \in Requests, Arrive(r) \/ Serve(r) \/ Chunk(r) \/ Leave(r)
      PROVE  Stands'
  <2>1. ASSUME NEW p, Moves(r, p), UNCHANGED <<convVars, server>>
        PROVE  Stands'
    BY <1>0, <2>1, QuietStands DEF Stands, convVars
  <2> QED
    BY <1>0, <1>1, <2>1, CheckoutStands, SendStands, SucceedStands, FinishStands, RequestCases
<1>2. ASSUME NEW a \in Accounts, NEW p \in Ports, Respawn(a, p) PROVE Stands'
  <2>1. /\ DOMAIN entries' \subseteq DOMAIN entries
        /\ \A f \in DOMAIN entries' : entries'[f] = entries[f]
    BY <1>2 DEF Respawn, Conv!Drop, Conv!Restrict
  <2>2. UNCHANGED <<req, server>>
    BY <1>2 DEF Respawn
  <2> QED BY <2>1, <2>2 DEF Stands, StandsFor
<1>3. CASE UNCHANGED <<entries, req, server>>
  BY <1>3 DEF Stands, StandsFor
<1>4. CASE Tick \/ \E a \in Accounts : Remove(a)
  BY <1>3, <1>4 DEF Tick, Remove, convVars
<1> QED BY <1>1, <1>2, <1>3, <1>4 DEF Next, vars, convVars

\* A request that resumes a cascade finds in it the conversation of its own caller,
\* exactly up to the turn before its own: what was checked in under a fingerprint
\* was answered, and nobody else can have touched it since.
THEOREM ResumesOwn == Spec => ResumesOwnConversation
<1>1. ASSUME Init PROVE Stands
  <2>1. \A r \in Requests : req[r].reuse = NoEntry /\ ~Finishing(req[r])
    BY <1>1 DEF Init, Idle, Finishing
  <2>2. DOMAIN entries = {} /\ server = [c \in Cascades |-> server[c]]
    BY <1>1 DEF Init
  <2> QED BY <2>1, <2>2 DEF Stands, StandsFor
<1>2. Inv /\ Stands =>
        [\A r \in Requests :
           LET q == req[r] IN
           q.pc = "send" /\ req'[r].pc = "poll" /\ q.reuse # NoEntry /\ ~q.sent =>
             server[q.cascade] = <<"answered", q.client, q.turn - 1>>]_vars
  BY DEF Stands, StandsFor
<1>3. Spec => []Stands
  BY <1>1, StandsStep, Invariance, CascadesApart, PTL DEF Spec
<1> QED BY <1>2, <1>3, Invariance, PTL DEF Spec, ResumesOwnConversation
=============================================================================
