------------------------------ MODULE ChatFlow ------------------------------
(***************************************************************************)
(* One chat request against the account pool, the conversation pool and    *)
(* the language servers: nonStreamChat, streamChat, runOnce and            *)
(* waitForAccount of src/internal/server/chat.go.  A request is a sequence *)
(* of short critical sections with upstream calls between them; pc says    *)
(* which comes next, and other requests act in the gaps.                   *)
(*                                                                         *)
(* The pools are the modules AccountPool and ConvPool: every step below    *)
(* that touches an account is one of AccountPool's actions.  The response  *)
(* cache is left out, a hit being an answer before any of this.            *)
(***************************************************************************)
EXTENDS Integers, Sequences, FiniteSets

CONSTANTS
  Requests,      \* chat requests, each served once
  Clients,       \* callers (ClientSalt)
  Turns,         \* bound: turns of a conversation
  Fallback,      \* fallbackChain: a function on the models that have one
  Allowed,       \* models the access policy lets through
  Failures,      \* the sets of flags an upstream error may be classified with
  MaxWaits,      \* bound: fruitless tries before the queue deadline
  NoEntry        \* no cascade to resume

\* Those of AccountPool and of ConvPool.
CONSTANTS Accounts, Models, FreeModels, ProCanaries, DroughtFree, TierRPM, Minute,
          Windows, Percents, DiskMayFail, MaxTime, MaxInflight,
          Cascades, Ports, Capacity, TTL

Flags == {"auth", "rateLimit", "internal", "model"}

\* classify: a rate limit and an internal error count as model errors.
Classified ==
  {e \in SUBSET Flags : "rateLimit" \in e \/ "internal" \in e => "model" \in e}

ASSUME FinitelyManyAssumption == IsFiniteSet(Requests) /\ IsFiniteSet(Accounts)
ASSUME FailuresAssumption == Failures \subseteq Classified
ASSUME FallbackAssumption ==
  DOMAIN Fallback \subseteq Models /\ \A m \in DOMAIN Fallback : Fallback[m] \in Models \ {m}
ASSUME PolicyAssumption == Allowed \subseteq Models
ASSUME CascadesAssumption == Cascades \subseteq Nat \ {0}
ASSUME TurnsAssumption == Turns \in Nat
ASSUME EntryAssumption ==
  NoEntry \notin [cascade : Cascades, key : Accounts, port : Ports, last : Nat]

\* What AccountPool and ConvPool assume of theirs.
ASSUME PoolAssumption ==
  /\ FreeModels \subseteq Models /\ ProCanaries \subseteq Models /\ DroughtFree \subseteq Models
  /\ TierRPM \in [{"pro", "free", "unknown", "expired"} -> Nat] /\ TierRPM["expired"] = 0
  /\ Minute \in Nat \ {0} /\ {MaxTime, MaxInflight} \subseteq Nat
  /\ Windows \subseteq Nat /\ Percents \subseteq Nat /\ DiskMayFail \in BOOLEAN
ASSUME LimitsAssumption == Capacity \in Nat \ {0} /\ TTL \in Nat

VARIABLES
  now, pool, acct, disk, saveFailed, inflight, refreshing, granted,  \* AccountPool
  entries, seen,                                                     \* ConvPool
  req,     \* the handlers' local variables
  portOf,  \* the language-server port an account's proxy leads to
  server   \* what the language servers hold for each cascade

poolVars == <<pool, acct, disk, saveFailed, inflight, refreshing, granted>>
convVars == <<entries, seen>>
vars == <<now, poolVars, convVars, req, portOf, server>>

\* The cascade a request could use, and whether it has one.
Holds == [c \in Cascades |-> Cardinality({r \in Requests : req[r].cascade = c})]

Fingerprints == Clients \X (1..Turns)

Pool == INSTANCE AccountPool
Conv == INSTANCE ConvPool WITH holds <- Holds

\* Mutant: the caller is not part of the fingerprint.
FingerprintUnsalted(q) == {fp \in Fingerprints : fp[2] = q.turn - 1}

\* Nothing to resume before the first answer.
FingerprintBefore(q) == {fp \in Fingerprints : fp = <<q.client, q.turn - 1>>}
FingerprintAfter(q) == <<q.client, q.turn>>

Idle ==
  [pc |-> "idle", stream |-> FALSE, client |-> "", turn |-> 0, model |-> "", hop |-> 0,
   reuseOn |-> FALSE, reuse |-> NoEntry, cascade |-> 0, sent |-> FALSE, gone |-> FALSE,
   tried |-> {}, attempt |-> 0, max |-> 0, waits |-> 0, acct |-> "", port |-> 0,
   todo |-> <<>>, then |-> "", last |-> "", spoke |-> {}, answer |-> ""]

\* A start of the service with the accounts and their quotas as accounts.json
\* has them.
Init ==
  /\ now = 0
  /\ pool = Accounts
  /\ \E quota \in Percents :
       acct = [a \in Accounts |-> [Pool!Fresh EXCEPT !.tier = "pro",
                                     !.credits = [daily |-> quota, weekly |-> quota]]]
  /\ disk = [pool |-> pool, acct |-> acct]
  /\ saveFailed = FALSE
  /\ inflight = [a \in Accounts |-> 0]
  /\ refreshing = [a \in Accounts |-> "no"]
  /\ granted = [a \in Accounts |-> {}]
  /\ entries = [f \in {} |-> f]
  /\ seen = {}
  /\ req = [r \in Requests |-> Idle]
  /\ portOf \in [Accounts -> Ports]
  /\ server = [c \in Cascades |-> <<>>]

-----------------------------------------------------------------------------
(* Steps of a request; q is its record.                                    *)

Step(r, from, q) == req[r].pc = from /\ req' = [req EXCEPT ![r] = q]

Answered(q, a) == [q EXCEPT !.pc = "done", !.answer = a, !.reuse = NoEntry, !.cascade = 0]

\* The loop head: attempts, the client still there, the owner of the cascade.
Loop(q) ==
  CASE q.attempt >= q.max -> [q EXCEPT !.pc = "exhausted"]
    [] q.attempt < q.max /\ q.stream /\ q.gone -> Answered(q, "gone")
    [] OTHER -> [q EXCEPT !.waits = 0,
                   !.pc = IF q.reuse # NoEntry /\ q.attempt = 0 THEN "first" ELSE "wait"]

\* ChatCompletions: access policy, entitlement, then one of the two flows.
Arrive(r) ==
  \E client \in Clients, turn \in 1..Turns, m \in Models, stream, reuseOn \in BOOLEAN :
    LET q == [Idle EXCEPT !.client = client, !.turn = turn, !.model = m, !.stream = stream,
                          !.reuseOn = reuseOn]
    IN  /\ Step(r, "idle", IF m \in Allowed /\ Pool!HasEligible(m)
                           THEN [q EXCEPT !.pc = "enter"] ELSE Answered(q, "refused"))
        /\ UNCHANGED <<now, poolVars, convVars, portOf, server>>

CanHop(q) == q.hop = 0 /\ q.model \in DOMAIN Fallback

Hopped(q) == [q EXCEPT !.pc = "enter", !.hop = 1, !.model = Fallback[q.model],
                       !.reuse = NoEntry, !.cascade = 0]

\* Drought, and the stream's fallback before its headers are out.
Enter(r) ==
  LET q == req[r] IN
  /\ Step(r, "enter",
       CASE Pool!IsModelBlockedByDrought(q.model) -> Answered(q, "drought")
         [] ~Pool!IsModelBlockedByDrought(q.model) /\ q.stream /\ CanHop(q)
              /\ Pool!IsAllRateLimited(q.model) -> Hopped(q)
         [] OTHER -> [q EXCEPT !.pc = "checkout"])
  /\ UNCHANGED <<now, poolVars, convVars, portOf, server>>

\* clamp(numActive, 3, streamMaxTries)
MaxAttempts ==
  LET active == Cardinality({a \in pool : acct[a].status = "active"}) IN
  IF active < 3 THEN 3 ELSE IF active > 10 THEN 10 ELSE active

\* Mutant: a checked-out entry stays in the pool.
CheckoutKeeping(r) ==
  LET q == [req[r] EXCEPT !.pc = "loop", !.tried = {}, !.attempt = 0, !.last = "",
                          !.max = MaxAttempts]
      hits == {fp \in FingerprintBefore(q) : q.reuseOn /\ Conv!FreshEnough(fp)}
  IN  /\ Step(r, "checkout",
           IF hits = {} THEN q
           ELSE LET e == entries[CHOOSE fp \in hits : TRUE]
                IN  [q EXCEPT !.reuse = e, !.cascade = e.cascade])
      /\ UNCHANGED <<now, poolVars, seen, entries, portOf, server>>

\* A fresh start of the loop, also after the fallback hop.
Checkout(r) ==
  LET q == [req[r] EXCEPT !.pc = "loop", !.tried = {}, !.attempt = 0, !.last = "",
                          !.max = MaxAttempts]
      found == {fp \in FingerprintBefore(q) : q.reuseOn /\ fp \in DOMAIN entries}
      hits == {fp \in found : Conv!FreshEnough(fp)}
  IN  /\ Step(r, "checkout",
           IF hits = {} THEN q
           ELSE LET e == entries[CHOOSE fp \in hits : TRUE]
                IN  [q EXCEPT !.reuse = e, !.cascade = e.cascade])
      /\ entries' = Conv!Drop(found)
      /\ UNCHANGED <<now, poolVars, seen, portOf, server>>

\* The first attempt.  A client that left since the checkout takes the cascade with it.
Begin(r) ==
  /\ Step(r, "loop", Loop(req[r]))
  /\ UNCHANGED <<now, poolVars, convVars, portOf, server>>

LetGo(q) == [q EXCEPT !.reuse = NoEntry, !.cascade = 0]

Got(q, a) == [q EXCEPT !.pc = "preflight", !.acct = a, !.tried = @ \cup {a}]

\* The account that owns the cascade, or any other and a new cascade.
First(r) ==
  LET q == req[r]
      a == q.reuse.key
      missed == [LetGo(q) EXCEPT !.pc = "wait"]
  IN  /\ q.pc = "first"
      /\ \/ /\ a \notin pool
            /\ Step(r, "first", missed)
            /\ UNCHANGED <<now, poolVars>>
         \/ /\ Pool!AcquireByKey(a, q.model)
            /\ Step(r, "first", IF inflight'[a] > inflight[a] THEN Got(q, a) ELSE missed)
      /\ UNCHANGED <<convVars, portOf, server>>

\* Mutant: only a client that leaves ends the wait.
WaitForever(r) ==
  LET q == req[r] IN
  /\ q.pc = "wait"
  /\ Pool!Acquire(q.tried, q.model)
  /\ \/ \E a \in Accounts :
          inflight'[a] > inflight[a] /\ Step(r, "wait", Got(q, a))
     \/ /\ inflight' = inflight
        /\ Step(r, "wait", IF q.gone THEN [q EXCEPT !.pc = "exhausted"] ELSE q)
  /\ UNCHANGED <<convVars, portOf, server>>

\* waitForAccount: try, sleep, try again; the deadline or the client ends it.
Wait(r) ==
  LET q == req[r] IN
  /\ q.pc = "wait"
  /\ Pool!Acquire(q.tried, q.model)
  /\ \/ \E a \in Accounts :
          inflight'[a] > inflight[a] /\ Step(r, "wait", Got(q, a))
     \/ /\ inflight' = inflight
        /\ \/ Step(r, "wait", [q EXCEPT !.pc = "exhausted"])
           \/ ~q.gone /\ q.waits < MaxWaits /\ Step(r, "wait", [q EXCEPT !.waits = @ + 1])
  /\ UNCHANGED <<convVars, portOf, server>>

\* A signal names a key; for an account that left the pool it does nothing.
Signal(a, A) == IF a \in pool THEN A ELSE UNCHANGED <<now, poolVars>>

\* Mutant: the no-capacity path gives the account back before the loop does.
PreflightReleasing(r) ==
  LET q == req[r] IN
  /\ \/ /\ Step(r, "preflight", [q EXCEPT !.pc = "ensure"])
        /\ UNCHANGED <<now, poolVars>>
     \/ /\ Step(r, "preflight", [q EXCEPT !.pc = "report", !.then = "retry"])
        /\ Pool!Release(q.acct)
  /\ UNCHANGED <<convVars, portOf, server>>

\* The experimental capacity check: passed or off, or no capacity and on to the
\* next attempt, with what was checked out still in hand.
Preflight(r) ==
  LET q == req[r] IN
  /\ \/ /\ Step(r, "preflight", [q EXCEPT !.pc = "ensure"])
        /\ UNCHANGED <<now, poolVars>>
     \/ /\ Step(r, "preflight", [q EXCEPT !.pc = "report", !.then = "retry"])
        /\ Signal(q.acct, Pool!MarkRateLimited(q.acct, 5 * Minute, q.model))
  /\ UNCHANGED <<convVars, portOf, server>>

\* LSP.Ensure and Get; only the non-stream flow compares the port.
Ensure(r) ==
  LET q == req[r]
      up == [q EXCEPT !.pc = "send", !.port = portOf[q.acct]]
  IN  /\ \/ Step(r, "ensure", [q EXCEPT !.pc = "report", !.then = "stop", !.last = "ls"])
         \/ Step(r, "ensure",
              IF ~q.stream /\ q.reuse # NoEntry /\ q.reuse.port # portOf[q.acct]
              THEN LetGo(up) ELSE up)
      /\ UNCHANGED <<now, poolVars, convVars, portOf, server>>

\* CascadeChat: resume or open a cascade and send the user's turn.  Cascades of
\* requests without reuse never meet the pool and are not tracked.
Send(r) ==
  LET q == [req[r] EXCEPT !.pc = "poll"] IN
  /\ \/ /\ ~q.reuseOn
        /\ Step(r, "send", q)
        /\ UNCHANGED <<seen, server>>
     \/ /\ q.reuseOn /\ q.reuse # NoEntry
        /\ Step(r, "send", [q EXCEPT !.sent = TRUE])
        /\ server' = [server EXCEPT ![q.cascade] = <<"open", q.client, q.turn>>]
        /\ UNCHANGED seen
     \/ /\ q.reuseOn /\ q.reuse = NoEntry
        /\ \E c \in Cascades \ seen :
             /\ \A d \in Cascades \ seen : c <= d
             /\ Step(r, "send", [q EXCEPT !.cascade = c])
             /\ seen' = seen \cup {c}
             /\ server' = [server EXCEPT ![c] = <<"open", q.client, q.turn>>]
  /\ UNCHANGED <<now, poolVars, entries, portOf>>

\* A piece of the answer goes out to the client.
Chunk(r) ==
  LET q == req[r] IN
  /\ q.stream
  /\ Step(r, "poll", [q EXCEPT !.spoke = @ \cup {q.attempt}])
  /\ UNCHANGED <<now, poolVars, convVars, portOf, server>>

\* The stream reports success only if something came out.
Succeed(r) ==
  LET q == req[r] IN
  /\ Step(r, "poll",
       [q EXCEPT !.pc = "report", !.then = "finish",
                 !.todo = IF q.stream /\ q.spoke = {} THEN <<"capability">>
                          ELSE <<"success", "capability">>])
  /\ server' = IF q.cascade = 0 THEN server
               ELSE [server EXCEPT ![q.cascade] = <<"answered", q.client, q.turn>>]
  /\ UNCHANGED <<now, poolVars, convVars, portOf>>

\* The reports an error leads to, in the order of the code.
Signals(stream, e) ==
  LET wanted == IF stream
                THEN IF e \cap {"rateLimit", "internal"} = {} THEN e ELSE e \ {"model"}
                ELSE CASE "rateLimit" \in e -> {"rateLimit"}
                       [] "internal" \in e /\ "rateLimit" \notin e -> {"internal"}
                       [] OTHER -> e
  IN  SelectSeq(<<"auth", "rateLimit", "internal", "model">>, LAMBDA s : s \in wanted)

\* Mutant: a stream is tried again although it has spoken.
RetriesAnyway(q, e) == "model" \in e

Retries(q, e) == "model" \in e /\ (q.stream => q.spoke = {})

\* A stream drops the cascade before it tries again, the non-stream flow keeps
\* the one it resumed.  No flags: transport error or client_cancelled.
Fail(r) ==
  \E e \in Failures :
    LET q == req[r]
        retry == Retries(q, e)
        failed == [q EXCEPT !.pc = "report", !.then = IF retry THEN "retry" ELSE "stop",
                            !.todo = Signals(q.stream, e),
                            !.last = IF "rateLimit" \in e THEN "rate_limited" ELSE "error"]
    IN  /\ req[r].pc \in {"send", "poll"}
        /\ Step(r, q.pc, IF q.reuse = NoEntry \/ (q.stream /\ retry) THEN LetGo(failed)
                         ELSE failed)
        /\ UNCHANGED <<now, poolVars, convVars, portOf, server>>

\* One report to the account pool; UpdateCapability(..., "rate_limit") is none.
Report(r) ==
  LET q == req[r]
      a == q.acct
      s == Head(q.todo)
  IN  /\ q.todo # <<>>
      /\ Step(r, "report", [q EXCEPT !.todo = Tail(@)])
      /\ Signal(a,
           \/ s = "auth" /\ Pool!ReportError(a)
           \/ s = "rateLimit" /\ \E d \in Windows : Pool!MarkRateLimited(a, d, q.model)
           \/ s = "internal" /\ Pool!ReportInternalError(a)
           \/ s = "model" /\ Pool!UpdateCapability(a, q.model, FALSE, "model_error")
           \/ s = "success" /\ Pool!ReportSuccess(a)
           \/ s = "capability" /\ Pool!UpdateCapability(a, q.model, TRUE, "success"))
      /\ UNCHANGED <<convVars, portOf, server>>

\* The attempt is over: next attempt or the end of the loop.
Release(r) ==
  LET q == req[r] IN
  /\ q.todo = <<>>
  /\ q.then # "finish"
  /\ Step(r, "report", IF q.then = "retry" THEN Loop([q EXCEPT !.attempt = @ + 1])
                       ELSE [q EXCEPT !.pc = "exhausted"])
  /\ Pool!Release(q.acct)
  /\ UNCHANGED <<convVars, portOf, server>>

\* The answer is out.  Only the non-stream flow checks its cascade in, and only
\* with some text to fingerprint.
Finish(r) ==
  LET q == req[r]
      e == [cascade |-> q.cascade, key |-> q.acct, port |-> q.port, last |-> now]
  IN  /\ q.todo = <<>>
      /\ q.then = "finish"
      /\ Step(r, "report", Answered(q, "ok"))
      /\ Pool!Release(q.acct)
      /\ \/ ~q.stream /\ q.reuseOn /\ entries' \in Conv!Stored(FingerprintAfter(q), e)
         \/ UNCHANGED entries
      /\ UNCHANGED <<seen, portOf, server>>

\* Retry exhausted: fall back once, or say why.
Exhausted(r) ==
  LET q == req[r]
      all == Pool!IsAllRateLimited(q.model)
  IN  /\ Step(r, "exhausted",
           CASE ~q.stream /\ q.last = "" /\ all /\ CanHop(q) -> Hopped(q)
             [] ~q.stream /\ q.last = "" /\ all /\ ~CanHop(q) -> Answered(q, "rate_limited")
             [] ~q.stream /\ q.last = "" /\ ~all -> Answered(q, "pool_exhausted")
             [] ~q.stream /\ q.last # "" -> Answered(q, q.last)
             [] OTHER -> Answered(q, IF all THEN "rate_limited" ELSE "error"))
      /\ UNCHANGED <<now, poolVars, convVars, portOf, server>>

-----------------------------------------------------------------------------
(* Environment. *)

\* The client disconnects: waits and upstream calls end.
Leave(r) ==
  /\ req[r].pc \notin {"idle", "done"} /\ ~req[r].gone
  /\ req' = [req EXCEPT ![r].gone = TRUE]
  /\ UNCHANGED <<now, poolVars, convVars, portOf, server>>

\* A language server exits and comes back: its cascades leave the pool, and the
\* accounts that share it find it on a port, the same one or the next.
Respawn(a, p) ==
  /\ entries' = Conv!Drop({f \in DOMAIN entries : entries[f].port = portOf[a]})
  /\ portOf' = [b \in Accounts |-> IF portOf[b] = portOf[a] THEN p ELSE portOf[b]]
  /\ UNCHANGED <<now, poolVars, seen, req, server>>

\* The operator removes an account, whatever requests hold it.
Remove(a) == Pool!Remove(a) /\ UNCHANGED <<convVars, req, portOf, server>>

Tick == Pool!Tick /\ UNCHANGED <<convVars, req, portOf, server>>

Serve(r) ==
  \/ Enter(r) \/ Checkout(r) \/ Begin(r) \/ First(r) \/ Wait(r) \/ Preflight(r) \/ Ensure(r)
  \/ Send(r) \/ Succeed(r) \/ Fail(r) \/ Report(r) \/ Release(r) \/ Finish(r) \/ Exhausted(r)

Next ==
  \/ \E r \in Requests : Arrive(r) \/ Serve(r) \/ Chunk(r) \/ Leave(r)
  \/ \E a \in Accounts, p \in Ports : Respawn(a, p)
  \/ \E a \in Accounts : Remove(a)
  \/ Tick

Spec == Init /\ [][Next]_vars

\* A handler goroutine runs on: upstream calls have deadlines of their own
\* (30 s a unary call, 180 s a poll loop, 5 min a stream).
Fairness == \A r \in Requests : WF_vars(Serve(r))

FairSpec == Spec /\ Fairness

-----------------------------------------------------------------------------
(* Properties. *)

TypeOK ==
  /\ Pool!TypeOK
  /\ Conv!TypeOK
  /\ portOf \in [Accounts -> Ports]
  /\ \A r \in Requests :
       LET q == req[r] IN
       /\ q.tried \subseteq Accounts
       /\ q.reuse = NoEntry \/ q.reuse \in Conv!Entry
       /\ q.cascade \in Cascades \cup {0}
       /\ q.attempt \in 0..q.max /\ q.max \in 0..10
       /\ q.spoke \subseteq 0..q.max
       /\ q.pc \in {"preflight", "ensure", "send", "poll", "report"} =>
            inflight[q.acct] > 0 \/ q.acct \notin pool

\* What a client has been streamed comes from one attempt: once a chunk is out
\* the request is not tried again on another account (onChunk's hadSuccess).
OneVoice == \A r \in Requests : Cardinality(req[r].spoke) <= 1

\* Seen from the pool, requests open, check out, check in and let go of cascades
\* one at a time, each only what it holds; so no two requests ever use one cascade,
\* and none uses one that another could still check out (ConvPool's Exclusive).
UsesConvPool == Conv!Spec

\* A cascade is resumed by the caller whose conversation it holds and exactly
\* where that conversation stands: a failed turn is never continued, another
\* caller's never seen (FingerprintBefore, FingerprintAfter, Checkin).  A second
\* attempt of the same request on the cascade it resumed is not counted.
ResumesOwnConversation ==
  [][\A r \in Requests :
       LET q == req[r] IN
       q.pc = "send" /\ req'[r].pc = "poll" /\ q.reuse # NoEntry /\ ~q.sent =>
         server[q.cascade] = <<"answered", q.client, q.turn - 1>>]_vars

\* Every request that arrives is answered: retries, waits and the fallback hop
\* come to an end (the loops of nonStreamChat and streamChat).
EveryRequestEnds ==
  \A r \in Requests : req[r].pc # "idle" ~> req[r].pc = "done"

=============================================================================
