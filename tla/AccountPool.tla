----------------------------- MODULE AccountPool -----------------------------
(***************************************************************************)
(* The upstream account pool (src/internal/auth/pool.go and the credit     *)
(* refresh of ops.go): which account a request is given, what the outcome  *)
(* of a request does to the account, and what of it a restart brings back. *)
(*                                                                         *)
(* Every exported method runs under Pool.mu, so every method is one step;  *)
(* RefreshCredits is two, because it drops the lock around its network     *)
(* call and then writes through the *Account pointer it kept.  An account  *)
(* is one (id, apiKey) pair: key rotation (SetTokens) is not modelled      *)
(* here.  Time is counted in ticks, Minute of them to a minute.            *)
(***************************************************************************)
EXTENDS Integers, FiniteSets

CONSTANTS
  Accounts,      \* every account an operator may ever add
  Models,        \* catalog keys
  FreeModels,    \* models.freeTier, which are also the two free canaries
  ProCanaries,   \* the canaries whose success means a pro account
  DroughtFree,   \* droughtFreeModels: routable even in drought mode
  TierRPM,       \* the tierRPM table; "expired" is 0
  Minute,        \* ticks per minute (rpmWindow and rateLimitGrace)
  Windows,       \* server-reported retry-after values, in ticks
  Percents,      \* quota percentages GetUserStatus may report
  DiskMayFail,   \* whether atomicfile.Write can fail
  MaxTime,       \* bound: the clock stops here
  MaxInflight    \* bound: outstanding requests per account

Statuses == {"active", "error", "disabled", "expired", "invalid"}
Tiers == {"pro", "free", "unknown", "expired"}
NoCredits == [daily |-> 0, weekly |-> 0]
DroughtThreshold == 5

ASSUME ModelsAssumption ==
  FreeModels \subseteq Models /\ ProCanaries \subseteq Models /\ DroughtFree \subseteq Models
ASSUME RPMAssumption ==
  /\ TierRPM \in [Tiers -> Nat]
  /\ TierRPM["expired"] = 0
ASSUME TimeAssumption ==
  /\ Minute \in Nat \ {0}
  /\ MaxTime \in Nat
  /\ MaxInflight \in Nat
  /\ Windows \subseteq Nat
ASSUME QuotaAssumption == Percents \subseteq Nat
ASSUME DiskAssumption == DiskMayFail \in BOOLEAN

VARIABLES
  now,         \* the clock
  pool,        \* accounts present in Pool.accounts
  acct,        \* the *Account records; Fresh for an account not in the pool
  disk,        \* accounts.json: the pool and records of the last good save
  saveFailed,  \* lastSaveErr holds an error
  inflight,    \* requests holding a Selected for the account
  refreshing,  \* the RefreshCredits call between its two critical sections
  granted      \* history: this process's grants of the last minute, for RpmRespected

vars == <<now, pool, acct, disk, saveFailed, inflight, refreshing, granted>>

-----------------------------------------------------------------------------
(* The account record. *)

Grants == [at : Nat, n : Nat]

AccountRecords ==
  [status : Statuses, tier : Tiers, tierManual : BOOLEAN,
   caps : [Models -> {"untested", "ok", "fail"}], blocked : SUBSET Models,
   until : Nat, modelUntil : [Models -> Nat],
   credits : [daily : Nat, weekly : Nat],
   lastUsed : Nat, errorCount : Nat, streak : Nat, rpm : SUBSET Grants]

Fresh ==
  [status |-> "active", tier |-> "unknown", tierManual |-> FALSE,
   caps |-> [m \in Models |-> "untested"], blocked |-> {},
   until |-> 0, modelUntil |-> [m \in Models |-> 0],
   credits |-> NoCredits,
   lastUsed |-> 0, errorCount |-> 0, streak |-> 0, rpm |-> {}]

\* What json.Marshal writes: the unexported runtime fields are dropped.
Persisted(r) ==
  [r EXCEPT !.lastUsed = 0, !.errorCount = 0, !.streak = 0, !.rpm = {}]

\* What Load does to a record: a window that ran out during the downtime goes.
Reloaded(r, t) ==
  [r EXCEPT !.until = IF @ > t THEN @ ELSE 0,
            !.modelUntil = [m \in Models |-> IF @[m] > t THEN @[m] ELSE 0]]

\* Mutant: the cutoff is exclusive.
LiveExclusive(rpm, t) == {g \in rpm : g.at > t - Minute}

Live(rpm, t) == {g \in rpm : g.at >= t - Minute}

-----------------------------------------------------------------------------
(* Eligibility. *)

IsTierAllowed(tier, m) ==
  CASE tier \in {"pro", "unknown"} -> m \in Models
    [] tier = "expired" -> FALSE
    [] OTHER -> m \in FreeModels

IsModelAllowed(r, m) == IsTierAllowed(r.tier, m) /\ m \notin r.blocked

IsRateLimited(r, m, t) == r.until > t \/ r.modelUntil[m] > t

\* The checks Acquire and AcquireByKey share.
Grantable(r, m, t) ==
  /\ r.status = "active"
  /\ ~IsRateLimited(r, m, t)
  /\ TierRPM[r.tier] > 0
  /\ IsModelAllowed(r, m)
  /\ Cardinality(Live(r.rpm, t)) < TierRPM[r.tier]

HasEligible(m) == \E a \in pool : acct[a].status = "active" /\ IsModelAllowed(acct[a], m)

Eligible(m) == {a \in pool : acct[a].status = "active" /\ IsModelAllowed(acct[a], m)}

\* Mutant: one limited account is enough.
AnyRateLimited(m) == \E a \in Eligible(m) : IsRateLimited(acct[a], m, now)

IsAllRateLimited(m) ==
  Eligible(m) # {} /\ \A a \in Eligible(m) : IsRateLimited(acct[a], m, now)

\* The deadlines IsAllRateLimited takes the soonest of.
Deadlines(m) ==
  {t \in UNION {{acct[a].until, acct[a].modelUntil[m]} : a \in Eligible(m)} : t > now}

\* Mutant: the latest deadline instead of the soonest.
RetryAtLatest(m) == CHOOSE t \in Deadlines(m) : \A u \in Deadlines(m) : t >= u

RetryAt(m) == CHOOSE t \in Deadlines(m) : \A u \in Deadlines(m) : t <= u

\* Free-ratio order, ties to the least recently used; a further tie is the
\* unstable sort's to break.
Preferred(a, b, t) ==
  LET limit(x) == TierRPM[acct[x].tier]
      free(x) == limit(x) - Cardinality(Live(acct[x].rpm, t))
  IN  \/ free(a) * limit(b) > free(b) * limit(a)
      \/ /\ free(a) * limit(b) = free(b) * limit(a)
         /\ acct[a].lastUsed <= acct[b].lastUsed

\* What examining a record on the selection path prunes from it.
Examined(r, m, t) ==
  IF r.status # "active" \/ r.until > t THEN r
  ELSE [r EXCEPT !.modelUntil[m] = IF @ > t THEN @ ELSE 0,
                 !.rpm = IF r.modelUntil[m] > t \/ ~IsModelAllowed(r, m)
                         THEN @ ELSE Live(@, t)]

-----------------------------------------------------------------------------
(* Quota drought. *)

\* The smaller of the percentages that are there; 0 stands for a missing one.
QuotaPercent(c) ==
  LET known == {c.weekly, c.daily} \ {0} IN
  IF known = {} THEN 100 ELSE CHOOSE p \in known : \A q \in known : p <= q

Known == {a \in pool : acct[a].status = "active" /\ acct[a].credits # NoCredits}

IsDroughtMode ==
  Known # {} /\ \A a \in Known : QuotaPercent(acct[a].credits) < DroughtThreshold

IsModelBlockedByDrought(m) == IsDroughtMode /\ m \notin DroughtFree

-----------------------------------------------------------------------------
(* Initial state: an empty pool and no accounts.json. *)

Init ==
  /\ now = 0
  /\ pool = {}
  /\ acct = [a \in Accounts |-> Fresh]
  /\ disk = [pool |-> {}, acct |-> [a \in Accounts |-> Fresh]]
  /\ saveFailed = FALSE
  /\ inflight = [a \in Accounts |-> 0]
  /\ refreshing = [a \in Accounts |-> "no"]
  /\ granted = [a \in Accounts |-> {}]

\* saveLocked: the whole pool is written, or the write fails and the old file
\* stays (the rename is atomic).
SaveLocked ==
  \/ /\ disk' = [pool |-> pool', acct |-> [a \in Accounts |-> Persisted(acct'[a])]]
     /\ saveFailed' = FALSE
  \/ /\ DiskMayFail
     /\ saveFailed' = TRUE
     /\ UNCHANGED disk

NoSave == UNCHANGED <<disk, saveFailed>>

-----------------------------------------------------------------------------
(* Operator actions. *)

\* AddByKey, AddByToken, AddByEmail: a key already present is returned as is.
AddAccount(a) ==
  /\ a \notin pool
  /\ pool' = pool \cup {a}
  /\ UNCHANGED <<now, acct, inflight, refreshing, granted>>
  /\ SaveLocked

\* Mutant: the removal is not saved.
RemoveUnsaved(a) ==
  /\ a \in pool
  /\ pool' = pool \ {a}
  /\ acct' = [acct EXCEPT ![a] = Fresh]
  /\ refreshing' = [refreshing EXCEPT ![a] = IF @ = "no" THEN @ ELSE "orphan"]
  /\ granted' = [granted EXCEPT ![a] = {}]
  /\ UNCHANGED <<now, inflight>>
  /\ NoSave

\* A RefreshCredits in flight keeps its pointer to the dropped record.
Remove(a) ==
  /\ a \in pool
  /\ pool' = pool \ {a}
  /\ acct' = [acct EXCEPT ![a] = Fresh]
  /\ refreshing' = [refreshing EXCEPT ![a] = IF @ = "no" THEN @ ELSE "orphan"]
  /\ granted' = [granted EXCEPT ![a] = {}]
  /\ UNCHANGED <<now, inflight>>
  /\ SaveLocked

SetStatus(a, s) ==
  /\ a \in pool
  /\ acct' = [acct EXCEPT ![a].status = s,
                          ![a].errorCount = IF s = "active" THEN 0 ELSE @]
  /\ UNCHANGED <<now, pool, inflight, refreshing, granted>>
  /\ SaveLocked

SetTier(a, t) ==
  /\ a \in pool
  /\ acct' = [acct EXCEPT ![a].tier = t, ![a].tierManual = TRUE]
  /\ UNCHANGED <<now, pool, inflight, refreshing, granted>>
  /\ SaveLocked

SetBlockedModels(a, list) ==
  /\ a \in pool
  /\ acct' = [acct EXCEPT ![a].blocked = list]
  /\ UNCHANGED <<now, pool, inflight, refreshing, granted>>
  /\ SaveLocked

-----------------------------------------------------------------------------
(* Selection. *)

GrantOf(r) == [at |-> now, n |-> Cardinality({g \in r.rpm : g.at = now})]

WithGrant(r) == [r EXCEPT !.rpm = Live(@, now) \cup {GrantOf(r)}, !.lastUsed = now]

LastMinute(grants, t) == {g \in grants : t - g.at <= Minute}

HandOut(a) ==
  /\ inflight[a] < MaxInflight
  /\ inflight' = [inflight EXCEPT ![a] = @ + 1]
  /\ granted' = [granted EXCEPT ![a] = LastMinute(@, now) \cup {GrantOf(acct[a])}]

Acquire(tried, m) ==
  LET cands == {a \in pool \ tried : Grantable(acct[a], m, now)}
      seen == [a \in Accounts |-> IF a \in pool \ tried THEN Examined(acct[a], m, now)
                                  ELSE acct[a]]
  IN  /\ \/ /\ cands = {}
            /\ acct' = seen
            /\ UNCHANGED <<inflight, granted>>
         \/ \E a \in cands :
              /\ \A b \in cands : Preferred(a, b, now)
              /\ acct' = [seen EXCEPT ![a] = WithGrant(seen[a])]
              /\ HandOut(a)
      /\ UNCHANGED <<now, pool, refreshing>>
      /\ NoSave

AcquireByKey(a, m) ==
  /\ a \in pool
  /\ LET r == Examined(acct[a], m, now) IN
       \/ /\ ~Grantable(acct[a], m, now)
          /\ acct' = [acct EXCEPT ![a] = r]
          /\ UNCHANGED <<inflight, granted>>
       \/ /\ Grantable(acct[a], m, now)
          /\ acct' = [acct EXCEPT ![a] = WithGrant(r)]
          /\ HandOut(a)
  /\ UNCHANGED <<now, pool, refreshing>>
  /\ NoSave

\* The request that held the account has made its last report.
Release(a) ==
  /\ inflight[a] > 0
  /\ inflight' = [inflight EXCEPT ![a] = @ - 1]
  /\ UNCHANGED <<now, pool, acct, refreshing, granted>>
  /\ NoSave

-----------------------------------------------------------------------------
(* Signals.  A signal names an apiKey: for an account no longer in the pool *)
(* the loop finds nothing and returns.  The two counters saturate at the   *)
(* thresholds they are compared with.                                      *)

AtMost(n, bound) == IF n < bound THEN n ELSE bound

\* ceil to the next whole minute, plus one minute of grace.
EffectiveRateLimitWindow(d) ==
  IF d <= 0 THEN Minute ELSE ((d + Minute - 1) \div Minute) * Minute + Minute

\* Mutant: the window stays in memory.
MarkRateLimitedUnsaved(a, d, m) ==
  /\ a \in pool
  /\ acct' = [acct EXCEPT ![a].modelUntil[m] = now + EffectiveRateLimitWindow(d)]
  /\ UNCHANGED <<now, pool, inflight, refreshing, granted>>
  /\ NoSave

\* Callers: the chat loops and Probe, always with a model.
MarkRateLimited(a, d, m) ==
  /\ a \in pool
  /\ acct' = [acct EXCEPT ![a].modelUntil[m] = now + EffectiveRateLimitWindow(d)]
  /\ UNCHANGED <<now, pool, inflight, refreshing, granted>>
  /\ SaveLocked

ReportError(a) ==
  /\ a \in pool /\ inflight[a] > 0
  /\ acct' = [acct EXCEPT ![a].errorCount = AtMost(@ + 1, 3),
                          ![a].status = IF acct[a].errorCount + 1 >= 3 THEN "error" ELSE @]
  /\ UNCHANGED <<now, pool, inflight, refreshing, granted>>
  /\ NoSave

ReportSuccess(a) ==
  /\ a \in pool /\ inflight[a] > 0
  /\ acct' = [acct EXCEPT ![a].errorCount = 0,
                          ![a].status = IF acct[a].errorCount > 0 THEN "active" ELSE @,
                          ![a].streak = 0]
  /\ UNCHANGED <<now, pool, inflight, refreshing, granted>>
  /\ NoSave

ReportInternalError(a) ==
  /\ a \in pool /\ inflight[a] > 0
  /\ UNCHANGED <<now, pool, inflight, refreshing, granted>>
  /\ \/ /\ acct[a].streak + 1 < 2
        /\ acct' = [acct EXCEPT ![a].streak = @ + 1]
        /\ NoSave
     \/ /\ acct[a].streak + 1 >= 2
        /\ acct' = [acct EXCEPT ![a].streak = AtMost(@ + 1, 2), ![a].until = now + 5 * Minute]
        /\ SaveLocked

InferTier(caps) ==
  LET ok == {m \in Models : caps[m] = "ok"} IN
  IF ok \cap ProCanaries # {} THEN "pro"
  ELSE IF ok \cap FreeModels # {} THEN "free"
  ELSE IF ok = {} /\ \E m \in Models : caps[m] = "fail" THEN "expired"
  ELSE "unknown"

\* Callers: the chat loops and Probe.  The transient reasons return early.
UpdateCapability(a, m, ok, reason) ==
  /\ a \in pool
  /\ reason # "transport_error"
  /\ ok \/ reason # "rate_limit"
  /\ LET caps == [acct[a].caps EXCEPT ![m] = IF ok THEN "ok" ELSE "fail"] IN
       acct' = [acct EXCEPT ![a].caps = caps,
                            ![a].tier = IF acct[a].tierManual THEN @ ELSE InferTier(caps)]
  /\ UNCHANGED <<now, pool, inflight, refreshing, granted>>
  /\ SaveLocked

-----------------------------------------------------------------------------
(* RefreshCredits: look the pointer up, call GetUserStatus, write.  One    *)
(* call per account at a time is modelled.                                 *)

RefreshCreditsBegin(a) ==
  /\ a \in pool /\ refreshing[a] = "no"
  /\ refreshing' = [refreshing EXCEPT ![a] = "live"]
  /\ UNCHANGED <<now, pool, acct, inflight, granted>>
  /\ NoSave

\* Mutant: the plan name wins over the operator.
PlanTierForced(r, plan) ==
  IF plan = "pro" \/ (plan = "free" /\ r.tier = "unknown") THEN plan ELSE r.tier

\* The tier GetUserStatus's plan name implies, unless the operator set one.
PlanTier(r, plan) ==
  IF ~r.tierManual /\ (plan = "pro" \/ (plan = "free" /\ r.tier = "unknown"))
  THEN plan ELSE r.tier

\* The record written through may have left the pool; the save happens anyway.
RefreshCreditsDone(a, plan, credits) ==
  /\ refreshing[a] # "no"
  /\ refreshing' = [refreshing EXCEPT ![a] = "no"]
  /\ acct' = IF refreshing[a] = "orphan" THEN acct
             ELSE [acct EXCEPT ![a].credits = credits, ![a].tier = PlanTier(acct[a], plan)]
  /\ UNCHANGED <<now, pool, inflight, granted>>
  /\ SaveLocked

\* LastError is display text: nil Credits become the empty Credits, NoCredits.
RefreshCreditsFailed(a) ==
  /\ refreshing[a] # "no"
  /\ refreshing' = [refreshing EXCEPT ![a] = "no"]
  /\ UNCHANGED <<now, pool, acct, inflight, granted>>
  /\ SaveLocked

-----------------------------------------------------------------------------
(* Environment. *)

Tick ==
  /\ now < MaxTime
  /\ now' = now + 1
  /\ UNCHANGED <<pool, acct, disk, saveFailed, inflight, refreshing, granted>>

\* The process dies at any point and main() loads accounts.json again.
Restart ==
  /\ pool' = disk.pool
  /\ acct' = [a \in Accounts |-> Reloaded(disk.acct[a], now)]
  /\ saveFailed' = FALSE
  /\ inflight' = [a \in Accounts |-> 0]
  /\ refreshing' = [a \in Accounts |-> "no"]
  /\ granted' = [a \in Accounts |-> {}]
  /\ UNCHANGED <<now, disk>>

-----------------------------------------------------------------------------
SelectNext ==
  \/ \E tried \in SUBSET Accounts, m \in Models : Acquire(tried, m)
  \/ \E a \in Accounts, m \in Models : AcquireByKey(a, m)
  \/ \E a \in Accounts : Release(a)

OperatorNext ==
  \E a \in Accounts :
    \/ AddAccount(a)
    \/ Remove(a)
    \/ \E s \in Statuses : SetStatus(a, s)
    \/ \E t \in Tiers : SetTier(a, t)
    \/ \E list \in SUBSET Models : SetBlockedModels(a, list)

SignalNext ==
  \E a \in Accounts :
    \/ \E d \in Windows, m \in Models : MarkRateLimited(a, d, m)
    \/ ReportError(a)
    \/ ReportSuccess(a)
    \/ ReportInternalError(a)
    \/ \E m \in Models : \/ UpdateCapability(a, m, TRUE, "success")
                         \/ UpdateCapability(a, m, FALSE, "model_error")

CreditsNext ==
  \E a \in Accounts :
    \/ RefreshCreditsBegin(a)
    \/ \E plan \in {"pro", "free", "other"}, d, w \in Percents :
         RefreshCreditsDone(a, plan, [daily |-> d, weekly |-> w])
    \/ RefreshCreditsFailed(a)

Next == SelectNext \/ OperatorNext \/ SignalNext \/ CreditsNext \/ Tick \/ Restart

Spec == Init /\ [][Next]_vars

-----------------------------------------------------------------------------
(* Properties. *)

TypeOK ==
  /\ now \in Nat
  /\ pool \subseteq Accounts
  /\ acct \in [Accounts -> AccountRecords]
  /\ disk \in [pool : SUBSET Accounts, acct : [Accounts -> AccountRecords]]
  /\ saveFailed \in BOOLEAN
  /\ inflight \in [Accounts -> Nat]
  /\ refreshing \in [Accounts -> {"no", "live", "orphan"}]
  /\ granted \in [Accounts -> SUBSET Grants]

\* The per-tier RPM cap holds over every sliding minute, counting every grant
\* the process made in it and not only those pruneRPM kept (Acquire,
\* AcquireByKey).
RpmRespected ==
  [][\A a \in Accounts :
       granted'[a] \ granted[a] # {} =>
         Cardinality(granted'[a]) <= TierRPM[acct[a].tier]]_vars

\* The three answers the chat loop combines never contradict each other: a 429
\* "all rate-limited" means no account could have been handed out, and when
\* neither that nor "no eligible account" is true, only a spent RPM budget can
\* keep Acquire from finding one (IsAllRateLimited, HasEligible, Acquire).
RefusalExplained ==
  \A m \in Models :
    LET ready == {a \in pool : Grantable(acct[a], m, now)}
        free == {a \in Eligible(m) : ~IsRateLimited(acct[a], m, now)}
        spent(a) == Cardinality(Live(acct[a].rpm, now)) >= TierRPM[acct[a].tier]
    IN  /\ IsAllRateLimited(m) => ready = {}
        /\ HasEligible(m) /\ ~IsAllRateLimited(m) /\ ready = {} =>
             free # {} /\ \A a \in free : spent(a)

\* The retry-after of a 429 is never later than the moment the first account
\* leaves both its account-wide and its per-model window (IsAllRateLimited).
RetryNeverLate ==
  \A m \in Models :
    IsAllRateLimited(m) =>
      \A a \in Eligible(m) : \/ RetryAt(m) <= acct[a].until
                              \/ RetryAt(m) <= acct[a].modelUntil[m]

\* A restart after a good save reopens no rate-limit window that was still
\* running (saveLocked in every method that opens one, and Load).
RestartKeepsQuarantine ==
  [][Restart /\ ~saveFailed =>
       \A a \in pool, m \in Models :
         IsRateLimited(acct[a], m, now) => IsRateLimited(acct'[a], m, now)]_vars

\* A tier the operator pinned changes only when the operator changes it, or is
\* lost to a restart after a failed save: never by a probe, a live request or a
\* plan name (UpdateCapability, RefreshCredits, Load).
ManualTierSticks ==
  [][\A a \in pool \cap pool' :
       acct[a].tierManual /\ acct'[a].tier # acct[a].tier =>
         \/ \E t \in Tiers : SetTier(a, t)
         \/ Restart /\ saveFailed]_vars

\* Unless the last save failed, an account enters the pool only by being added
\* and leaves it only by being removed: neither a restart nor a credit refresh
\* that outlives the account brings it back or loses it.
MembershipDurable ==
  [][~saveFailed =>
       \A a \in Accounts : (a \in pool) # (a \in pool') => AddAccount(a) \/ Remove(a)]_vars

-----------------------------------------------------------------------------
(* What the documentation promises and the code does not keep.             *)

\* docs/USAGE.md: a disabled account is out of rotation until it is enabled.
\* ReportSuccess of a request that was in flight activates it again.
DisabledStaysOut ==
  [][\A a \in pool \cap pool' :
       acct[a].status = "disabled" /\ acct'[a].status = "active" =>
         SetStatus(a, "active")]_vars

-----------------------------------------------------------------------------
(* The inductive invariant behind the action properties.                   *)

\* pruneRPM drops nothing that still counts against the budget.
GrantsKept ==
  \A a \in Accounts :
    /\ IsFiniteSet(acct[a].rpm)
    /\ LastMinute(granted[a], now) \subseteq acct[a].rpm
    /\ disk.acct[a].rpm = {}

\* Two deadlines a reader at this moment cannot tell apart.
SameWindow(u, v) == u = v \/ (u <= now /\ v <= now)

\* After a good save accounts.json holds all that a restart must not lose.
DiskAgrees ==
  ~saveFailed =>
    /\ disk.pool = pool
    /\ \A a \in pool :
         /\ disk.acct[a].tier = acct[a].tier
         /\ disk.acct[a].tierManual = acct[a].tierManual
         /\ SameWindow(disk.acct[a].until, acct[a].until)
         /\ \A m \in Models : SameWindow(disk.acct[a].modelUntil[m], acct[a].modelUntil[m])

\* No save but a failed one leaves memory ahead of the file, and pruning never
\* reaches into the current minute (saveLocked's callers, pruneRPM).
IInv == GrantsKept /\ DiskAgrees
=============================================================================
