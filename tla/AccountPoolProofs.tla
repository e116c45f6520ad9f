-------------------------- MODULE AccountPoolProofs --------------------------
(***************************************************************************)
(* Theorems about AccountPool for every set of accounts and models, every  *)
(* RPM table and every clock bound.                                        *)
(***************************************************************************)
EXTENDS AccountPool, FiniteSetTheorems, WellFoundedInduction, TLAPS

\* A new record, a written one and a reloaded one are records.
LEMMA FreshType == Fresh \in AccountRecords
  BY DEF Fresh, AccountRecords, Statuses, Tiers, NoCredits

\* See FreshType.
LEMMA PersistedType ==
  ASSUME NEW r \in AccountRecords
  PROVE  Persisted(r) \in AccountRecords
  BY DEF Persisted, AccountRecords

\* See FreshType.
LEMMA ReloadedType ==
  ASSUME NEW r \in AccountRecords, NEW t \in Nat
  PROVE  Reloaded(r, t) \in AccountRecords
  BY DEF Reloaded, AccountRecords

\* Load keeps every field but the windows that have run out.
LEMMA ReloadedKeeps ==
  ASSUME NEW r \in AccountRecords, NEW t \in Nat
  PROVE  /\ Reloaded(r, t).tier = r.tier
         /\ Reloaded(r, t).tierManual = r.tierManual
         /\ Reloaded(r, t).until = IF r.until > t THEN r.until ELSE 0
         /\ \A m \in Models :
              Reloaded(r, t).modelUntil[m] = IF r.modelUntil[m] > t THEN r.modelUntil[m] ELSE 0
  BY DEF Reloaded, AccountRecords

\* Pruning only drops grants.
LEMMA LiveSubset ==
  ASSUME NEW rpm, NEW t
  PROVE  Live(rpm, t) \subseteq rpm
  BY DEF Live

\* Examining a record leaves it a record.
LEMMA ExaminedType ==
  ASSUME NEW r \in AccountRecords, NEW m \in Models, NEW t \in Nat
  PROVE  Examined(r, m, t) \in AccountRecords
  BY LiveSubset DEF Examined, AccountRecords

\* A grant is well typed and so is the record that got it.
LEMMA GrantType ==
  ASSUME NEW r \in AccountRecords, IsFiniteSet(r.rpm), now \in Nat
  PROVE  /\ GrantOf(r) \in Grants
         /\ WithGrant(r) \in AccountRecords
         /\ IsFiniteSet(WithGrant(r).rpm)
<1> DEFINE same == {g \in r.rpm : g.at = now}
<1>1. Cardinality(same) \in Nat
  <2>1. IsFiniteSet(same)
    BY FS_Subset
  <2> QED BY <2>1, FS_CardinalityType
<1>2. GrantOf(r) \in Grants
  BY <1>1 DEF GrantOf, Grants
<1>3. Live(r.rpm, now) \subseteq r.rpm
  BY LiveSubset
<1>4. WithGrant(r) \in AccountRecords
  BY <1>2, <1>3 DEF WithGrant, AccountRecords
<1>5. WithGrant(r).rpm = Live(r.rpm, now) \cup {GrantOf(r)}
  BY DEF WithGrant, AccountRecords
<1>6. IsFiniteSet(Live(r.rpm, now) \cup {GrantOf(r)})
  BY <1>3, FS_Subset, FS_AddElement
<1> QED BY <1>2, <1>4, <1>5, <1>6

\* The effective window is a natural number of ticks.
LEMMA WindowType ==
  ASSUME NEW d \in Windows
  PROVE  EffectiveRateLimitWindow(d) \in Nat
<1>1. d \in Nat /\ Minute \in Nat /\ Minute > 0
  BY TimeAssumption
<1>2. ((d + Minute - 1) \div Minute) \in Nat
  <2>1. d + Minute - 1 \in Nat
    BY <1>1
  <2> DEFINE x == d + Minute - 1
  <2> HIDE DEF x
  <2>2. x \in Nat => (x \div Minute) \in Nat
    BY <1>1
  <2> QED BY <2>1, <2>2 DEF x
<1> DEFINE q == (d + Minute - 1) \div Minute
<1> HIDE DEF q
<1>3. q \in Nat => q * Minute + Minute \in Nat
  BY <1>1
<1> QED BY <1>1, <1>2, <1>3 DEF EffectiveRateLimitWindow, q

\* inferTier answers with a tier.
LEMMA InferredTier == \A caps : InferTier(caps) \in Tiers
  BY DEF InferTier, Tiers

-----------------------------------------------------------------------------
(* Type correctness. *)

\* The invariants hold initially.
LEMMA TypeInit == Init => TypeOK /\ IInv
<1> SUFFICES ASSUME Init PROVE TypeOK /\ IInv
  OBVIOUS
<1>1. TypeOK
  BY FreshType DEF Init, TypeOK
<1>2. GrantsKept
  BY FS_EmptySet DEF Init, GrantsKept, LastMinute, Fresh
<1>3. DiskAgrees
  BY DEF Init, DiskAgrees
<1> QED BY <1>1, <1>2, <1>3 DEF IInv

\* A record stays one when one field is replaced within its type.
LEMMA FieldTypes ==
  ASSUME NEW r \in AccountRecords
  PROVE  /\ \A s \in Statuses : [r EXCEPT !.status = s] \in AccountRecords
         /\ \A t \in Tiers : [r EXCEPT !.tier = t] \in AccountRecords
         /\ [r EXCEPT !.tierManual = TRUE] \in AccountRecords
         /\ \A list \in SUBSET Models : [r EXCEPT !.blocked = list] \in AccountRecords
         /\ \A c \in [daily : Nat, weekly : Nat] : [r EXCEPT !.credits = c] \in AccountRecords
         /\ \A n \in Nat : /\ [r EXCEPT !.errorCount = n] \in AccountRecords
                           /\ [r EXCEPT !.streak = n] \in AccountRecords
                           /\ [r EXCEPT !.until = n] \in AccountRecords
         /\ \A c \in [Models -> {"untested", "ok", "fail"}] : [r EXCEPT !.caps = c] \in AccountRecords
         /\ \A m \in Models, n \in Nat : [r EXCEPT !.modelUntil[m] = n] \in AccountRecords
  BY DEF AccountRecords

\* The types of a record's fields.
LEMMA FieldRanges ==
  ASSUME NEW r \in AccountRecords
  PROVE  /\ r.status \in Statuses /\ r.tier \in Tiers
         /\ r.caps \in [Models -> {"untested", "ok", "fail"}]
         /\ r.errorCount \in Nat /\ r.streak \in Nat
  BY DEF AccountRecords

\* Replacing one account's record keeps acct well typed.
LEMMA AcctUpdate ==
  ASSUME TypeOK, NEW a \in Accounts, NEW r \in AccountRecords, acct' = [acct EXCEPT ![a] = r]
  PROVE  acct' \in [Accounts -> AccountRecords]
  BY DEF TypeOK

\* A save keeps the file well typed.
LEMMA SaveType ==
  ASSUME TypeOK, pool' \subseteq Accounts, acct' \in [Accounts -> AccountRecords], SaveLocked
  PROVE  /\ disk' \in [pool : SUBSET Accounts, acct : [Accounts -> AccountRecords]]
         /\ saveFailed' \in BOOLEAN
<1>1. [a \in Accounts |-> Persisted(acct'[a])] \in [Accounts -> AccountRecords]
  BY PersistedType
<1>2. [pool |-> pool', acct |-> [a \in Accounts |-> Persisted(acct'[a])]]
        \in [pool : SUBSET Accounts, acct : [Accounts -> AccountRecords]]
  BY <1>1
<1> QED BY <1>2 DEF SaveLocked, TypeOK

\* Type correctness is preserved by every step.
LEMMA TypeStep == TypeOK /\ GrantsKept /\ [Next]_vars => TypeOK'
<1> SUFFICES ASSUME TypeOK, GrantsKept, [Next]_vars PROVE TypeOK'
  OBVIOUS
<1> USE DEF TypeOK
<1>1. ASSUME NEW tried \in SUBSET Accounts, NEW m \in Models, Acquire(tried, m)
      PROVE  TypeOK'
  <2> DEFINE seen == [a \in Accounts |-> IF a \in pool \ tried
                                         THEN Examined(acct[a], m, now) ELSE acct[a]]
  <2>1. seen \in [Accounts -> AccountRecords]
    BY ExaminedType
  <2>2. CASE acct' = seen /\ UNCHANGED <<inflight, granted>>
    BY <2>1, <2>2, <1>1 DEF Acquire, NoSave
  <2>3. ASSUME NEW a \in pool \ tried,
               acct' = [seen EXCEPT ![a] = WithGrant(seen[a])], HandOut(a)
        PROVE  TypeOK'
    <3>1. a \in Accounts /\ acct[a] \in AccountRecords /\ seen[a] = Examined(acct[a], m, now)
      OBVIOUS
    <3>2. IsFiniteSet(acct[a].rpm)
      BY <3>1 DEF GrantsKept
    <3>3. IsFiniteSet(seen[a].rpm)
      <4>1. seen[a].rpm \subseteq acct[a].rpm
        BY <3>1, LiveSubset DEF Examined, AccountRecords
      <4> QED BY <4>1, <3>2, FS_Subset
    <3>4. WithGrant(seen[a]) \in AccountRecords
      BY <2>1, <3>1, <3>3, GrantType
    <3>5. GrantOf(acct[a]) \in Grants
      BY <3>1, <3>2, GrantType
    <3>6. acct' \in [Accounts -> AccountRecords]
      BY <2>1, <2>3, <3>4
    <3>7. granted' \in [Accounts -> SUBSET Grants] /\ inflight' \in [Accounts -> Nat]
      BY <2>3, <3>1, <3>5 DEF HandOut, LastMinute
    <3> QED BY <3>6, <3>7, <1>1 DEF Acquire, NoSave
  <2> QED BY <2>2, <2>3, <1>1 DEF Acquire
<1>2. ASSUME NEW a \in Accounts, NEW m \in Models, AcquireByKey(a, m)
      PROVE  TypeOK'
  <2>1. Examined(acct[a], m, now) \in AccountRecords
    BY ExaminedType
  <2>2. IsFiniteSet(acct[a].rpm)
    BY DEF GrantsKept
  <2>3. Examined(acct[a], m, now).rpm \subseteq acct[a].rpm
    BY LiveSubset DEF Examined, AccountRecords
  <2>4. WithGrant(Examined(acct[a], m, now)) \in AccountRecords
    BY <2>1, <2>2, <2>3, FS_Subset, GrantType
  <2>5. GrantOf(acct[a]) \in Grants
    BY <2>2, GrantType
  <2>6. acct' \in [Accounts -> AccountRecords]
    BY <1>2, <2>1, <2>4 DEF AcquireByKey
  <2>7. granted' \in [Accounts -> SUBSET Grants] /\ inflight' \in [Accounts -> Nat]
    BY <1>2, <2>5 DEF AcquireByKey, HandOut, LastMinute
  <2> QED BY <1>2, <2>6, <2>7 DEF AcquireByKey, NoSave
<1>3. ASSUME NEW a \in Accounts, Release(a) PROVE TypeOK'
  BY <1>3 DEF Release, NoSave
<1>4. ASSUME NEW a \in Accounts, AddAccount(a) PROVE TypeOK'
  BY <1>4, SaveType DEF AddAccount
<1>5. ASSUME NEW a \in Accounts, Remove(a) PROVE TypeOK'
  BY <1>5, SaveType, FreshType DEF Remove
<1>6. ASSUME NEW a \in Accounts, NEW s \in Statuses, SetStatus(a, s) PROVE TypeOK'
  <2> DEFINE r == [acct[a] EXCEPT !.status = s, !.errorCount = IF s = "active" THEN 0 ELSE @]
  <2>1. acct[a] \in AccountRecords
    OBVIOUS
  <2> DEFINE n == IF s = "active" THEN 0 ELSE acct[a].errorCount
  <2>5. n \in Nat
    BY <2>1, FieldRanges
  <2>2. r \in AccountRecords
    BY <2>1, <2>5, FieldTypes
  <2>3. acct' = [acct EXCEPT ![a] = r]
    BY <1>6 DEF SetStatus
  <2>4. acct' \in [Accounts -> AccountRecords]
    BY <2>2, <2>3, AcctUpdate
  <2> HIDE DEF r
  <2> QED BY <1>6, <2>4, SaveType DEF SetStatus
<1>7. ASSUME NEW a \in Accounts, NEW t \in Tiers, SetTier(a, t) PROVE TypeOK'
  <2> DEFINE r == [acct[a] EXCEPT !.tier = t, !.tierManual = TRUE]
  <2>1. acct[a] \in AccountRecords
    OBVIOUS
  <2>2. r \in AccountRecords
    BY <2>1, FieldTypes
  <2>3. acct' = [acct EXCEPT ![a] = r]
    BY <1>7 DEF SetTier
  <2>4. acct' \in [Accounts -> AccountRecords]
    BY <2>2, <2>3, AcctUpdate
  <2> HIDE DEF r
  <2> QED BY <1>7, <2>4, SaveType DEF SetTier
<1>8. ASSUME NEW a \in Accounts, NEW list \in SUBSET Models, SetBlockedModels(a, list)
      PROVE  TypeOK'
  <2> DEFINE r == [acct[a] EXCEPT !.blocked = list]
  <2>1. acct[a] \in AccountRecords
    OBVIOUS
  <2>2. r \in AccountRecords
    BY <2>1, FieldTypes
  <2>3. acct' = [acct EXCEPT ![a] = r]
    BY <1>8 DEF SetBlockedModels
  <2>4. acct' \in [Accounts -> AccountRecords]
    BY <2>2, <2>3, AcctUpdate
  <2> HIDE DEF r
  <2> QED BY <1>8, <2>4, SaveType DEF SetBlockedModels
<1>9. ASSUME NEW a \in Accounts, NEW d \in Windows, NEW m \in Models, MarkRateLimited(a, d, m)
      PROVE  TypeOK'
  <2> DEFINE r == [acct[a] EXCEPT !.modelUntil[m] = now + EffectiveRateLimitWindow(d)]
  <2>1. acct[a] \in AccountRecords
    OBVIOUS
  <2>5. now + EffectiveRateLimitWindow(d) \in Nat
    BY WindowType
  <2>2. r \in AccountRecords
    BY <2>1, <2>5, FieldTypes
  <2>3. acct' = [acct EXCEPT ![a] = r]
    BY <1>9 DEF MarkRateLimited
  <2>4. acct' \in [Accounts -> AccountRecords]
    BY <2>2, <2>3, AcctUpdate
  <2> HIDE DEF r
  <2> QED BY <1>9, <2>4, SaveType DEF MarkRateLimited
<1>10. ASSUME NEW a \in Accounts, ReportError(a) PROVE TypeOK'
  <2> DEFINE r == [acct[a] EXCEPT !.errorCount = AtMost(@ + 1, 3),
                            !.status = IF acct[a].errorCount + 1 >= 3 THEN "error" ELSE @]
  <2>1. acct[a] \in AccountRecords
    OBVIOUS
  <2>5. /\ AtMost(acct[a].errorCount + 1, 3) \in Nat
        /\ (IF acct[a].errorCount + 1 >= 3 THEN "error" ELSE acct[a].status) \in Statuses
    BY <2>1, FieldRanges DEF AtMost, Statuses
  <2>2. r \in AccountRecords
    BY <2>1, <2>5, FieldTypes
  <2>3. acct' = [acct EXCEPT ![a] = r]
    BY <1>10 DEF ReportError
  <2>4. acct' \in [Accounts -> AccountRecords]
    BY <2>2, <2>3, AcctUpdate
  <2> HIDE DEF r
  <2> QED BY <1>10, <2>4 DEF ReportError, NoSave
<1>11. ASSUME NEW a \in Accounts, ReportSuccess(a) PROVE TypeOK'
  <2> DEFINE r == [acct[a] EXCEPT !.errorCount = 0,
                            !.status = IF acct[a].errorCount > 0 THEN "active" ELSE @,
                            !.streak = 0]
  <2>1. acct[a] \in AccountRecords
    OBVIOUS
  <2>5. (IF acct[a].errorCount > 0 THEN "active" ELSE acct[a].status) \in Statuses
    BY <2>1, FieldRanges DEF Statuses
  <2>2. r \in AccountRecords
    BY <2>1, <2>5, FieldTypes
  <2>3. acct' = [acct EXCEPT ![a] = r]
    BY <1>11 DEF ReportSuccess
  <2>4. acct' \in [Accounts -> AccountRecords]
    BY <2>2, <2>3, AcctUpdate
  <2> HIDE DEF r
  <2> QED BY <1>11, <2>4 DEF ReportSuccess, NoSave
<1>12. ASSUME NEW a \in Accounts, ReportInternalError(a) PROVE TypeOK'
  <2>1. acct[a] \in AccountRecords
    OBVIOUS
  <2>2. /\ [acct[a] EXCEPT !.streak = @ + 1] \in AccountRecords
        /\ [acct[a] EXCEPT !.streak = AtMost(@ + 1, 2), !.until = now + 5 * Minute] \in AccountRecords
    <3>1. /\ acct[a].streak + 1 \in Nat
          /\ AtMost(acct[a].streak + 1, 2) \in Nat
          /\ now + 5 * Minute \in Nat
      BY <2>1, FieldRanges, TimeAssumption DEF AtMost
    <3> QED BY <2>1, <3>1, FieldTypes
  <2>3. \/ acct' = [acct EXCEPT ![a] = [acct[a] EXCEPT !.streak = @ + 1]]
        \/ acct' = [acct EXCEPT ![a] = [acct[a] EXCEPT !.streak = AtMost(@ + 1, 2),
                                                      !.until = now + 5 * Minute]]
    BY <1>12 DEF ReportInternalError
  <2>4. acct' \in [Accounts -> AccountRecords]
    BY <2>2, <2>3, AcctUpdate
  <2> QED BY <1>12, <2>4, SaveType DEF ReportInternalError, NoSave
<1>13. ASSUME NEW a \in Accounts, NEW m \in Models, NEW ok \in BOOLEAN, NEW reason,
              UpdateCapability(a, m, ok, reason)
       PROVE  TypeOK'
  <2> DEFINE c == [acct[a].caps EXCEPT ![m] = IF ok THEN "ok" ELSE "fail"]
             r == [acct[a] EXCEPT !.caps = c,
                                  !.tier = IF acct[a].tierManual THEN @ ELSE InferTier(c)]
  <2>1. acct[a] \in AccountRecords
    OBVIOUS
  <2>2. c \in [Models -> {"untested", "ok", "fail"}]
    BY <2>1, FieldRanges
  <2>3. r \in AccountRecords
    <3>1. (IF acct[a].tierManual THEN acct[a].tier ELSE InferTier(c)) \in Tiers
      BY <2>1, FieldRanges, InferredTier
    <3> QED BY <2>1, <2>2, <3>1, FieldTypes
  <2>4. acct' = [acct EXCEPT ![a] = r]
    BY <1>13 DEF UpdateCapability
  <2>5. acct' \in [Accounts -> AccountRecords]
    BY <2>3, <2>4, AcctUpdate
  <2> QED BY <1>13, <2>5, SaveType DEF UpdateCapability
<1>14. ASSUME NEW a \in Accounts, RefreshCreditsBegin(a) PROVE TypeOK'
  BY <1>14 DEF RefreshCreditsBegin, NoSave
<1>15. ASSUME NEW a \in Accounts, NEW plan, NEW d \in Percents, NEW w \in Percents,
              RefreshCreditsDone(a, plan, [daily |-> d, weekly |-> w])
       PROVE  TypeOK'
  <2> DEFINE r == [acct[a] EXCEPT !.credits = [daily |-> d, weekly |-> w],
                                  !.tier = PlanTier(acct[a], plan)]
  <2>1. acct[a] \in AccountRecords
    OBVIOUS
  <2>2. PlanTier(acct[a], plan) \in Tiers
    BY <2>1 DEF PlanTier, Tiers, AccountRecords
  <2>3. r \in AccountRecords
    BY <2>1, <2>2, FieldTypes, QuotaAssumption
  <2>4. acct' = acct \/ acct' = [acct EXCEPT ![a] = r]
    BY <1>15 DEF RefreshCreditsDone
  <2>5. acct' \in [Accounts -> AccountRecords]
    BY <2>3, <2>4, AcctUpdate
  <2> QED BY <1>15, <2>5, SaveType DEF RefreshCreditsDone
<1>16. ASSUME NEW a \in Accounts, RefreshCreditsFailed(a) PROVE TypeOK'
  BY <1>16, SaveType DEF RefreshCreditsFailed
<1>17. CASE Tick
  BY <1>17 DEF Tick
<1>18. CASE Restart
  BY <1>18, ReloadedType DEF Restart
<1>19. CASE UNCHANGED vars
  BY <1>19 DEF vars
<1> QED
  BY <1>1, <1>2, <1>3, <1>4, <1>5, <1>6, <1>7, <1>8, <1>9, <1>10, <1>11, <1>12, <1>13,
     <1>14, <1>15, <1>16, <1>17, <1>18, <1>19
     DEF Next, SelectNext, OperatorNext, SignalNext, CreditsNext

-----------------------------------------------------------------------------
(* Frames.  Outside selection, Remove, Tick and Restart a step leaves every *)
(* RPM history alone, and either it saves or it leaves alone everything a   *)
(* restart must not lose.                                                   *)

SameRpm == now' = now /\ granted' = granted /\ \A b \in Accounts : acct'[b].rpm = acct[b].rpm

SameDurable(b) ==
  /\ acct'[b].tier = acct[b].tier
  /\ acct'[b].tierManual = acct[b].tierManual
  /\ acct'[b].until = acct[b].until
  /\ acct'[b].modelUntil = acct[b].modelUntil

Durable == NoSave /\ pool' = pool /\ \A b \in Accounts : SameDurable(b)

QuietNext ==
  \/ \E a \in Accounts :
       \/ Release(a)
       \/ AddAccount(a)
       \/ \E s \in Statuses : SetStatus(a, s)
       \/ \E t \in Tiers : SetTier(a, t)
       \/ \E list \in SUBSET Models : SetBlockedModels(a, list)
  \/ SignalNext
  \/ CreditsNext

\* A step other than selection, Remove, Tick and Restart leaves the grants alone
\* and either saves or changes nothing a restart must not lose.
LEMMA QuietFrame == TypeOK /\ QuietNext => SameRpm /\ (SaveLocked \/ Durable)
<1> SUFFICES ASSUME TypeOK, QuietNext PROVE SameRpm /\ (SaveLocked \/ Durable)
  OBVIOUS
<1>0. ASSUME NEW b \in Accounts PROVE acct[b] \in AccountRecords
  BY DEF TypeOK
<1>a. acct = [b \in Accounts |-> acct[b]]
  BY DEF TypeOK
<1>1. ASSUME NEW a \in Accounts, Release(a) PROVE SameRpm /\ Durable
  BY <1>1 DEF Release, SameRpm, Durable, SameDurable
<1>2. ASSUME NEW a \in Accounts, AddAccount(a) PROVE SameRpm /\ SaveLocked
  BY <1>2 DEF AddAccount, SameRpm
<1>3. ASSUME NEW a \in Accounts, NEW s \in Statuses, SetStatus(a, s) PROVE SameRpm /\ SaveLocked
  BY <1>3, <1>0, <1>a DEF SetStatus, SameRpm, AccountRecords
<1>4. ASSUME NEW a \in Accounts, NEW t \in Tiers, SetTier(a, t) PROVE SameRpm /\ SaveLocked
  BY <1>4, <1>0, <1>a DEF SetTier, SameRpm, AccountRecords
<1>5. ASSUME NEW a \in Accounts, NEW list \in SUBSET Models, SetBlockedModels(a, list)
      PROVE  SameRpm /\ SaveLocked
  BY <1>5, <1>0, <1>a DEF SetBlockedModels, SameRpm, AccountRecords
<1>6. ASSUME NEW a \in Accounts, NEW d \in Windows, NEW m \in Models, MarkRateLimited(a, d, m)
      PROVE  SameRpm /\ SaveLocked
  BY <1>6, <1>0, <1>a DEF MarkRateLimited, SameRpm, AccountRecords
<1>7. ASSUME NEW a \in Accounts, ReportError(a) PROVE SameRpm /\ Durable
  BY <1>7, <1>0, <1>a DEF ReportError, SameRpm, Durable, SameDurable, AccountRecords
<1>8. ASSUME NEW a \in Accounts, ReportSuccess(a) PROVE SameRpm /\ Durable
  BY <1>8, <1>0, <1>a DEF ReportSuccess, SameRpm, Durable, SameDurable, AccountRecords
<1>9. ASSUME NEW a \in Accounts, ReportInternalError(a) PROVE SameRpm /\ (SaveLocked \/ Durable)
  <2>1. CASE acct[a].streak + 1 < 2 /\ acct' = [acct EXCEPT ![a].streak = @ + 1] /\ NoSave
    BY <1>9, <2>1, <1>0, <1>a
       DEF ReportInternalError, SameRpm, Durable, SameDurable, AccountRecords
  <2>2. CASE /\ acct' = [acct EXCEPT ![a].streak = AtMost(@ + 1, 2), ![a].until = now + 5 * Minute]
             /\ SaveLocked
    BY <1>9, <2>2, <1>0, <1>a DEF ReportInternalError, SameRpm, AccountRecords
  <2> QED BY <1>9, <2>1, <2>2 DEF ReportInternalError
<1>10. ASSUME NEW a \in Accounts, NEW m \in Models, NEW ok, NEW reason,
              UpdateCapability(a, m, ok, reason)
       PROVE  SameRpm /\ SaveLocked
  BY <1>10, <1>0, <1>a DEF UpdateCapability, SameRpm, AccountRecords
<1>11. ASSUME NEW a \in Accounts, RefreshCreditsBegin(a) PROVE SameRpm /\ Durable
  BY <1>11 DEF RefreshCreditsBegin, SameRpm, Durable, SameDurable
<1>12. ASSUME NEW a \in Accounts, NEW plan, NEW c, RefreshCreditsDone(a, plan, c)
       PROVE  SameRpm /\ SaveLocked
  BY <1>12, <1>0, <1>a DEF RefreshCreditsDone, SameRpm, AccountRecords
<1>13. ASSUME NEW a \in Accounts, RefreshCreditsFailed(a) PROVE SameRpm /\ SaveLocked
  BY <1>13 DEF RefreshCreditsFailed, SameRpm
<1> QED
  BY <1>1, <1>2, <1>3, <1>4, <1>5, <1>6, <1>7, <1>8, <1>9, <1>10, <1>11, <1>12, <1>13
     DEF QuietNext, SignalNext, CreditsNext

\* What a good save puts into the file, and that it holds no RPM history.
LEMMA Saved ==
  ASSUME TypeOK', SaveLocked, NEW b \in Accounts
  PROVE  \/ saveFailed' /\ disk' = disk
         \/ /\ disk'.pool = pool'
            /\ disk'.acct[b].rpm = {}
            /\ disk'.acct[b].tier = acct'[b].tier
            /\ disk'.acct[b].tierManual = acct'[b].tierManual
            /\ disk'.acct[b].until = acct'[b].until
            /\ disk'.acct[b].modelUntil = acct'[b].modelUntil
<1> DEFINE r == acct'[b]
<1>1. r \in AccountRecords
  BY DEF TypeOK
<1>2. /\ Persisted(r).rpm = {}
      /\ Persisted(r).tier = r.tier
      /\ Persisted(r).tierManual = r.tierManual
      /\ Persisted(r).until = r.until
      /\ Persisted(r).modelUntil = r.modelUntil
  BY <1>1 DEF Persisted, AccountRecords
<1>3. CASE disk' = [pool |-> pool', acct |-> [a \in Accounts |-> Persisted(acct'[a])]]
  <2>1. disk'.pool = pool' /\ disk'.acct[b] = Persisted(r)
    BY <1>3
  <2> QED BY <2>1, <1>2
<1> QED BY <1>3 DEF SaveLocked

\* Every step is a selection, a quiet step, Remove, Tick or Restart.
LEMMA NextCases ==
  Next => \/ QuietNext
          \/ \E tried \in SUBSET Accounts, m \in Models : Acquire(tried, m)
          \/ \E a \in Accounts, m \in Models : AcquireByKey(a, m)
          \/ \E a \in Accounts : Remove(a)
          \/ Tick
          \/ Restart
  BY DEF Next, QuietNext, SelectNext, OperatorNext

-----------------------------------------------------------------------------
(* Selection: what examining and granting keep of a record.                *)

\* What examining a record keeps of it.
LEMMA ExaminedKeeps ==
  ASSUME NEW r \in AccountRecords, NEW m \in Models, NEW t \in Nat
  PROVE  LET e == Examined(r, m, t) IN
         /\ Live(r.rpm, t) \subseteq e.rpm /\ e.rpm \subseteq r.rpm
         /\ e.tier = r.tier /\ e.tierManual = r.tierManual /\ e.until = r.until
         /\ \A n \in Models : e.modelUntil[n] = r.modelUntil[n] \/ (e.modelUntil[n] = 0 /\ r.modelUntil[n] <= t)
<1> DEFINE e == Examined(r, m, t)
<1>1. CASE e = r
  BY <1>1, LiveSubset
<1>2. CASE e # r
  <2>1. e = [r EXCEPT !.modelUntil[m] = IF @ > t THEN @ ELSE 0,
                     !.rpm = IF r.modelUntil[m] > t \/ ~IsModelAllowed(r, m)
                             THEN @ ELSE Live(@, t)]
    BY <1>2 DEF Examined
  <2>2. e.rpm \in {r.rpm, Live(r.rpm, t)}
    BY <2>1 DEF AccountRecords
  <2>3. e.tier = r.tier /\ e.tierManual = r.tierManual /\ e.until = r.until
    BY <2>1 DEF AccountRecords
  <2>4. e.modelUntil = [r.modelUntil EXCEPT ![m] = IF @ > t THEN @ ELSE 0]
    BY <2>1 DEF AccountRecords
  <2>5. r.modelUntil \in [Models -> Nat]
    BY DEF AccountRecords
  <2>6. \A n \in Models : e.modelUntil[n] = r.modelUntil[n] \/ (e.modelUntil[n] = 0 /\ r.modelUntil[n] <= t)
    BY <2>4, <2>5
  <2> QED BY <2>2, <2>3, <2>6, LiveSubset
<1> QED BY <1>1, <1>2

\* What recording a grant keeps of a record.
LEMMA WithGrantKeeps ==
  ASSUME NEW r \in AccountRecords
  PROVE  LET g == WithGrant(r) IN
         /\ g.rpm = Live(r.rpm, now) \cup {GrantOf(r)}
         /\ g.tier = r.tier /\ g.tierManual = r.tierManual /\ g.until = r.until
         /\ g.modelUntil = r.modelUntil
  BY DEF WithGrant, AccountRecords

\* The grants of the last minute are those pruneRPM keeps.
LEMMA LastMinuteLive ==
  ASSUME NEW S \in SUBSET Grants, NEW t \in Nat
  PROVE  LastMinute(S, t) = Live(S, t)
<1>1. \A g \in S : g.at \in Nat
  BY DEF Grants
<1> QED BY <1>1, TimeAssumption DEF LastMinute, Live

\* Examining a record neither adds grants of this instant nor loses any.
LEMMA SameGrant ==
  ASSUME NEW r \in AccountRecords, NEW m \in Models, now \in Nat
  PROVE  GrantOf(Examined(r, m, now)) = GrantOf(r)
<1> DEFINE e == Examined(r, m, now)
<1>1. \A g \in r.rpm : g.at = now => g \in Live(r.rpm, now)
  BY TimeAssumption DEF Live
<1>2. {g \in e.rpm : g.at = now} = {g \in r.rpm : g.at = now}
  BY <1>1, ExaminedKeeps
<1> QED BY <1>2 DEF GrantOf

\* What a selection step does to any one account: at most prune it, or grant it.
Pruned(b) ==
  /\ granted'[b] = granted[b]
  /\ Live(acct[b].rpm, now) \subseteq acct'[b].rpm
  /\ acct'[b].rpm \subseteq acct[b].rpm

Given(b) ==
  /\ \E m \in Models : Grantable(acct[b], m, now)
  /\ granted'[b] = LastMinute(granted[b], now) \cup {GrantOf(acct[b])}
  /\ acct'[b].rpm = Live(acct[b].rpm, now) \cup {GrantOf(acct[b])}

WindowsKept(b) ==
  /\ acct'[b].tier = acct[b].tier
  /\ acct'[b].tierManual = acct[b].tierManual
  /\ acct'[b].until = acct[b].until
  /\ \A n \in Models : SameWindow(acct[b].modelUntil[n], acct'[b].modelUntil[n])

\* An examined account keeps its live grants and its windows.
LEMMA ExaminedEffect ==
  ASSUME TypeOK, NEW b \in Accounts, NEW m \in Models,
         acct'[b] = Examined(acct[b], m, now), granted'[b] = granted[b]
  PROVE  Pruned(b) /\ WindowsKept(b)
<1>1. acct[b] \in AccountRecords /\ now \in Nat
  BY DEF TypeOK
<1> QED BY <1>1, ExaminedKeeps DEF Pruned, WindowsKept, SameWindow

\* So does an account the step does not touch.
LEMMA UntouchedEffect ==
  ASSUME TypeOK, NEW b \in Accounts, acct'[b] = acct[b], granted'[b] = granted[b]
  PROVE  Pruned(b) /\ WindowsKept(b)
  BY LiveSubset DEF Pruned, WindowsKept, SameWindow

\* The account handed out gains exactly one grant.
LEMMA GrantedEffect ==
  ASSUME TypeOK, NEW b \in Accounts, NEW m \in Models, Grantable(acct[b], m, now),
         acct'[b] = WithGrant(Examined(acct[b], m, now)), HandOut(b)
  PROVE  Given(b) /\ WindowsKept(b)
<1> DEFINE e == Examined(acct[b], m, now)
<1>1. acct[b] \in AccountRecords /\ now \in Nat
  BY DEF TypeOK
<1>2. e \in AccountRecords
  BY <1>1, ExaminedType
<1>3. Live(e.rpm, now) = Live(acct[b].rpm, now)
  BY <1>1, ExaminedKeeps DEF Live
<1>4. GrantOf(e) = GrantOf(acct[b])
  BY <1>1, SameGrant
<1>5. acct'[b].rpm = Live(acct[b].rpm, now) \cup {GrantOf(acct[b])}
  BY <1>2, <1>3, <1>4, WithGrantKeeps
<1>6. granted'[b] = LastMinute(granted[b], now) \cup {GrantOf(acct[b])}
  BY DEF HandOut, TypeOK
<1>7. WindowsKept(b)
  BY <1>1, <1>2, ExaminedKeeps, WithGrantKeeps DEF WindowsKept, SameWindow
<1> QED BY <1>5, <1>6, <1>7 DEF Given

SelectStep ==
  \/ \E tried \in SUBSET Accounts, m \in Models : Acquire(tried, m)
  \/ \E a \in Accounts, m \in Models : AcquireByKey(a, m)

\* The effect of a selection on every account.
LEMMA SelectEffect ==
  ASSUME TypeOK, SelectStep
  PROVE  /\ now' = now /\ pool' = pool /\ NoSave
         /\ \A b \in Accounts : WindowsKept(b) /\ (Pruned(b) \/ Given(b))
<1>1. now' = now /\ pool' = pool /\ NoSave
  BY DEF SelectStep, Acquire, AcquireByKey
<1>2. ASSUME NEW tried \in SUBSET Accounts, NEW m \in Models, Acquire(tried, m), NEW b \in Accounts
      PROVE  WindowsKept(b) /\ (Pruned(b) \/ Given(b))
  <2> DEFINE cands == {a \in pool \ tried : Grantable(acct[a], m, now)}
             seen == [a \in Accounts |-> IF a \in pool \ tried
                                         THEN Examined(acct[a], m, now) ELSE acct[a]]
  <2>1. seen[b] = Examined(acct[b], m, now) \/ seen[b] = acct[b]
    OBVIOUS
  <2>2. CASE acct' = seen /\ UNCHANGED <<inflight, granted>>
    BY <2>1, <2>2, ExaminedEffect, UntouchedEffect
  <2>3. ASSUME NEW a \in cands, acct' = [seen EXCEPT ![a] = WithGrant(seen[a])], HandOut(a)
        PROVE  WindowsKept(b) /\ (Pruned(b) \/ Given(b))
    <3>1. a \in Accounts /\ a \in pool \ tried /\ Grantable(acct[a], m, now)
      BY DEF TypeOK
    <3>2. CASE b = a
      <4>1. acct'[b] = WithGrant(Examined(acct[b], m, now))
        BY <2>3, <3>1, <3>2
      <4> QED BY <4>1, <2>3, <3>1, <3>2, GrantedEffect
    <3>3. CASE b # a
      <4>1. acct'[b] = seen[b]
        BY <2>3, <3>3
      <4>2. granted'[b] = granted[b]
        BY <2>3, <3>3 DEF HandOut, TypeOK
      <4> QED BY <4>1, <4>2, <2>1, ExaminedEffect, UntouchedEffect
    <3> QED BY <3>2, <3>3
  <2> QED BY <1>2, <2>2, <2>3 DEF Acquire
<1>3. ASSUME NEW a \in Accounts, NEW m \in Models, AcquireByKey(a, m), NEW b \in Accounts
      PROVE  WindowsKept(b) /\ (Pruned(b) \/ Given(b))
  <2>1. CASE acct' = [acct EXCEPT ![a] = Examined(acct[a], m, now)] /\ UNCHANGED <<inflight, granted>>
    <3>1. acct'[b] = Examined(acct[b], m, now) \/ acct'[b] = acct[b]
      BY <2>1 DEF TypeOK
    <3> QED BY <2>1, <3>1, ExaminedEffect, UntouchedEffect
  <2>2. CASE /\ Grantable(acct[a], m, now)
             /\ acct' = [acct EXCEPT ![a] = WithGrant(Examined(acct[a], m, now))]
             /\ HandOut(a)
    <3>1. CASE b = a
      <4>1. acct'[b] = WithGrant(Examined(acct[b], m, now))
        BY <2>2, <3>1 DEF TypeOK
      <4> QED BY <2>2, <3>1, <4>1, GrantedEffect
    <3>2. CASE b # a
      <4>1. acct'[b] = acct[b] /\ granted'[b] = granted[b]
        BY <2>2, <3>2 DEF HandOut, TypeOK
      <4> QED BY <4>1, UntouchedEffect
    <3> QED BY <3>1, <3>2
  <2> QED BY <1>3, <2>1, <2>2 DEF AcquireByKey
<1> QED BY <1>1, <1>2, <1>3 DEF SelectStep

-----------------------------------------------------------------------------
(* The two halves of the inductive invariant. *)

\* No step prunes a grant of the current minute.
LEMMA GrantsStep == TypeOK /\ TypeOK' /\ GrantsKept /\ [Next]_vars => GrantsKept'
<1> SUFFICES ASSUME TypeOK, TypeOK', GrantsKept, [Next]_vars, NEW b \in Accounts
             PROVE  /\ IsFiniteSet(acct'[b].rpm)
                    /\ LastMinute(granted'[b], now') \subseteq acct'[b].rpm
                    /\ disk'.acct[b].rpm = {}
  BY DEF GrantsKept
<1>1. /\ IsFiniteSet(acct[b].rpm)
      /\ LastMinute(granted[b], now) \subseteq acct[b].rpm
      /\ disk.acct[b].rpm = {}
  BY DEF GrantsKept
<1>2. SaveLocked => disk'.acct[b].rpm = {}
  BY <1>1, Saved
<1>3. CASE QuietNext
  BY <1>1, <1>2, <1>3, QuietFrame DEF SameRpm, Durable, NoSave
<1>4. CASE SelectStep
  <2>1. now' = now /\ disk' = disk /\ (Pruned(b) \/ Given(b))
    BY <1>4, SelectEffect DEF NoSave
  <2>2. granted[b] \in SUBSET Grants /\ now \in Nat
    BY DEF TypeOK
  <2>3. LastMinute(granted[b], now) \subseteq Live(acct[b].rpm, now)
    BY <1>1, <2>2, LastMinuteLive DEF Live
  <2>4. CASE Pruned(b)
    <3>1. IsFiniteSet(acct'[b].rpm)
      BY <1>1, <2>4, FS_Subset DEF Pruned
    <3> QED BY <1>1, <2>1, <2>3, <2>4, <3>1 DEF Pruned
  <2>5. CASE Given(b)
    <3>1. IsFiniteSet(Live(acct[b].rpm, now))
      BY <1>1, LiveSubset, FS_Subset
    <3>2. IsFiniteSet(acct'[b].rpm)
      BY <2>5, <3>1, FS_AddElement DEF Given
    <3>3. LastMinute(granted'[b], now) \subseteq granted'[b]
      BY DEF LastMinute
    <3>4. granted'[b] \subseteq acct'[b].rpm
      BY <2>3, <2>5 DEF Given
    <3> QED BY <1>1, <2>1, <3>2, <3>3, <3>4
  <2> QED BY <2>1, <2>4, <2>5
<1>5. ASSUME NEW a \in Accounts, Remove(a)
      PROVE  /\ IsFiniteSet(acct'[b].rpm)
             /\ LastMinute(granted'[b], now') \subseteq acct'[b].rpm
  <2>1. CASE b = a
    <3>1. granted'[b] = {} /\ acct'[b].rpm = {}
      BY <1>5, <2>1 DEF Remove, TypeOK, Fresh
    <3> QED BY <3>1, FS_EmptySet DEF LastMinute
  <2>2. CASE b # a
    BY <1>1, <1>5, <2>2 DEF Remove, TypeOK
  <2> QED BY <2>1, <2>2
<1>6. CASE Tick
  <2>1. now' = now + 1 /\ UNCHANGED <<acct, disk, granted>>
    BY <1>6 DEF Tick
  <2>2. \A g \in granted[b] : g.at \in Nat
    BY DEF TypeOK, Grants
  <2>3. LastMinute(granted[b], now + 1) \subseteq LastMinute(granted[b], now)
    BY <2>2, TimeAssumption DEF LastMinute, TypeOK
  <2> QED BY <1>1, <2>1, <2>3
<1>7. CASE Restart
  <2>1. granted'[b] = {} /\ disk' = disk
    BY <1>7 DEF Restart
  <2>2. disk.acct[b] \in AccountRecords
    BY DEF TypeOK
  <2>3. Reloaded(disk.acct[b], now).rpm = disk.acct[b].rpm
    BY <2>2 DEF Reloaded, AccountRecords
  <2>4. acct'[b].rpm = {}
    BY <1>1, <1>7, <2>3 DEF Restart
  <2> QED BY <1>1, <2>1, <2>4, FS_EmptySet DEF LastMinute
<1>8. CASE UNCHANGED vars
  BY <1>1, <1>8 DEF vars
<1>9. ASSUME NEW a \in Accounts, Remove(a) PROVE disk'.acct[b].rpm = {}
  BY <1>2, <1>9 DEF Remove
<1> QED BY <1>3, <1>4, <1>5, <1>6, <1>7, <1>8, <1>9, NextCases DEF SelectStep

\* No step but a failed save leaves memory ahead of the file.
LEMMA DiskStep == TypeOK /\ TypeOK' /\ DiskAgrees /\ [Next]_vars => DiskAgrees'
<1> SUFFICES ASSUME TypeOK, TypeOK', DiskAgrees, [Next]_vars, ~saveFailed'
             PROVE  /\ disk'.pool = pool'
                    /\ \A a \in pool' :
                         /\ disk'.acct[a].tier = acct'[a].tier
                         /\ disk'.acct[a].tierManual = acct'[a].tierManual
                         /\ SameWindow(disk.acct[a].until, acct[a].until)'
                         /\ \A m \in Models :
                              SameWindow(disk.acct[a].modelUntil[m], acct[a].modelUntil[m])'
  BY DEF DiskAgrees
<1>1. CASE SaveLocked
  <2>1. pool' \subseteq Accounts
    BY DEF TypeOK
  <2>2. disk'.pool = pool'
    BY <1>1 DEF SaveLocked
  <2> QED BY <1>1, <2>1, <2>2, Saved DEF SameWindow
<1>2. CASE Durable /\ now' = now
  <2>1. ~saveFailed /\ disk' = disk /\ pool' = pool /\ pool \subseteq Accounts
    BY <1>2 DEF Durable, NoSave, TypeOK
  <2> QED BY <1>2, <2>1 DEF DiskAgrees, Durable, SameDurable, SameWindow
<1>3. CASE SelectStep
  <2>1. /\ now' = now /\ pool' = pool /\ disk' = disk /\ ~saveFailed
        /\ \A b \in Accounts : WindowsKept(b)
    BY <1>3, SelectEffect DEF NoSave
  <2>2. pool \subseteq Accounts
    BY DEF TypeOK
  <2> QED BY <2>1, <2>2 DEF DiskAgrees, WindowsKept, SameWindow
<1>4. CASE Tick
  <2>1. /\ now' = now + 1 /\ now \in Nat
        /\ pool' = pool /\ disk' = disk /\ acct' = acct /\ ~saveFailed
    BY <1>4 DEF Tick, TypeOK
  <2>2. ASSUME NEW a \in pool
        PROVE  /\ disk.acct[a] \in AccountRecords /\ acct[a] \in AccountRecords
    BY DEF TypeOK
  <2>3. ASSUME NEW a \in pool
        PROVE  /\ disk.acct[a].until \in Nat /\ acct[a].until \in Nat
               /\ \A m \in Models : /\ disk.acct[a].modelUntil[m] \in Nat
                                    /\ acct[a].modelUntil[m] \in Nat
    BY <2>2 DEF AccountRecords
  <2> QED BY <2>1, <2>3 DEF DiskAgrees, SameWindow
<1>5. CASE Restart
  <2>1. /\ pool' = disk.pool /\ disk' = disk /\ now' = now /\ now \in Nat
        /\ \A a \in Accounts : acct'[a] = Reloaded(disk.acct[a], now)
    BY <1>5 DEF Restart, TypeOK
  <2>2. ASSUME NEW a \in Accounts
        PROVE  /\ disk.acct[a].tier = acct'[a].tier
               /\ disk.acct[a].tierManual = acct'[a].tierManual
               /\ acct'[a].until = IF disk.acct[a].until > now THEN disk.acct[a].until ELSE 0
               /\ \A m \in Models :
                    acct'[a].modelUntil[m] = IF disk.acct[a].modelUntil[m] > now
                                             THEN disk.acct[a].modelUntil[m] ELSE 0
    <3>1. disk.acct[a] \in AccountRecords
      BY DEF TypeOK
    <3> QED BY <2>1, <3>1, ReloadedKeeps
  <2>3. ASSUME NEW a \in Accounts
        PROVE  /\ disk.acct[a].until \in Nat
               /\ \A m \in Models : disk.acct[a].modelUntil[m] \in Nat
    BY DEF TypeOK, AccountRecords
  <2>4. disk.pool \subseteq Accounts
    BY DEF TypeOK
  <2> QED BY <2>1, <2>2, <2>3, <2>4 DEF SameWindow
<1>6. CASE UNCHANGED vars
  BY <1>6 DEF vars, DiskAgrees, SameWindow
<1>7. ASSUME NEW a \in Accounts, Remove(a) PROVE SaveLocked
  BY <1>7 DEF Remove
<1> QED BY <1>1, <1>2, <1>3, <1>4, <1>5, <1>6, <1>7, NextCases, QuietFrame DEF SelectStep, SameRpm

-----------------------------------------------------------------------------
(* The theorems. *)

\* In every reachable state the records are well typed, pruning has dropped no
\* grant of the current minute and, unless the last save failed, accounts.json
\* agrees with memory on all a restart must not lose.
THEOREM Invariance == Spec => [](TypeOK /\ IInv)
<1>1. Init => TypeOK /\ IInv
  BY TypeInit
<1>2. TypeOK /\ IInv /\ [Next]_vars => (TypeOK /\ IInv)'
  <2> SUFFICES ASSUME TypeOK, IInv, [Next]_vars PROVE (TypeOK /\ IInv)'
    OBVIOUS
  <2>1. TypeOK'
    BY TypeStep DEF IInv
  <2> QED BY <2>1, GrantsStep, DiskStep DEF IInv
<1> QED BY <1>1, <1>2, PTL DEF Spec

\* The RPM cap of an account's tier is never exceeded in any sliding minute.
THEOREM RpmCap == Spec => RpmRespected
<1>1. TypeOK /\ IInv /\ [Next]_vars =>
        [\A a \in Accounts : granted'[a] \ granted[a] # {} =>
           Cardinality(granted'[a]) <= TierRPM[acct[a].tier]]_vars
  <2> SUFFICES ASSUME TypeOK, IInv, [Next]_vars, NEW a \in Accounts, granted'[a] \ granted[a] # {}
               PROVE  Cardinality(granted'[a]) <= TierRPM[acct[a].tier]
    OBVIOUS
  <2>1. CASE SelectStep
    <3>1. Given(a)
      BY <2>1, SelectEffect DEF Pruned
    <3>2. PICK m \in Models : Grantable(acct[a], m, now)
      BY <3>1 DEF Given
    <3> DEFINE live == Live(acct[a].rpm, now)
               kept == LastMinute(granted[a], now)
    <3>3. IsFiniteSet(live)
      BY LiveSubset, FS_Subset DEF IInv, GrantsKept
    <3>4. Cardinality(live) < TierRPM[acct[a].tier]
      BY <3>2 DEF Grantable
    <3>5. kept \subseteq live
      <4>1. kept \subseteq acct[a].rpm
        BY DEF IInv, GrantsKept
      <4>2. granted[a] \in SUBSET Grants /\ now \in Nat
        BY DEF TypeOK
      <4> QED BY <4>1, <4>2, LastMinuteLive DEF Live
    <3>6. IsFiniteSet(kept) /\ Cardinality(kept) <= Cardinality(live)
      BY <3>3, <3>5, FS_Subset
    <3>7. granted'[a] = kept \cup {GrantOf(acct[a])}
      BY <3>1 DEF Given
    <3>8. Cardinality(granted'[a]) <= Cardinality(kept) + 1
      <4> HIDE DEF kept
      <4> DEFINE g == GrantOf(acct[a])
      <4> HIDE DEF g
      <4>1. Cardinality(kept \cup {g}) = IF g \in kept THEN Cardinality(kept) ELSE Cardinality(kept) + 1
        BY <3>6, FS_AddElement
      <4>2. Cardinality(kept) \in Nat
        BY <3>6, FS_CardinalityType
      <4>3. granted'[a] = kept \cup {g}
        BY <3>7 DEF g
      <4> QED BY <4>1, <4>2, <4>3
    <3>9. /\ Cardinality(granted'[a]) \in Nat
          /\ Cardinality(kept) \in Nat /\ Cardinality(live) \in Nat
      <4> HIDE DEF kept, live
      <4> QED BY <3>3, <3>6, <3>7, FS_AddElement, FS_CardinalityType
    <3>10. TierRPM[acct[a].tier] \in Nat
      BY RPMAssumption DEF TypeOK, AccountRecords
    <3> HIDE DEF kept, live
    <3> QED BY <3>4, <3>6, <3>8, <3>9, <3>10
  <2>2. ASSUME NEW b \in Accounts, Remove(b) PROVE FALSE
    BY <2>2 DEF Remove, TypeOK
  <2>3. CASE QuietNext
    BY <2>3, QuietFrame DEF SameRpm
  <2>4. CASE Tick
    BY <2>4 DEF Tick
  <2>5. CASE Restart
    BY <2>5 DEF Restart
  <2>6. CASE UNCHANGED vars
    BY <2>6 DEF vars
  <2> QED BY <2>1, <2>2, <2>3, <2>4, <2>5, <2>6, NextCases DEF SelectStep
<1> QED BY <1>1, Invariance, PTL DEF Spec, RpmRespected

\* After a good save a restart reopens no rate-limit window still running.
THEOREM QuarantineSurvivesRestart == Spec => RestartKeepsQuarantine
<1>1. TypeOK /\ IInv =>
        [Restart /\ ~saveFailed =>
           \A a \in pool, m \in Models :
             IsRateLimited(acct[a], m, now) => IsRateLimited(acct'[a], m, now)]_vars
  <2> SUFFICES ASSUME TypeOK, IInv, Restart, ~saveFailed, NEW a \in pool, NEW m \in Models,
                      IsRateLimited(acct[a], m, now)
               PROVE  IsRateLimited(acct'[a], m, now)
    OBVIOUS
  <2>1. a \in Accounts /\ now \in Nat
    BY DEF TypeOK
  <2>2. disk.acct[a] \in AccountRecords /\ acct'[a] = Reloaded(disk.acct[a], now)
    BY <2>1 DEF TypeOK, Restart
  <2>3. /\ SameWindow(disk.acct[a].until, acct[a].until)
        /\ SameWindow(disk.acct[a].modelUntil[m], acct[a].modelUntil[m])
    BY DEF IInv, DiskAgrees
  <2>4. acct[a].until \in Nat /\ acct[a].modelUntil[m] \in Nat
    BY <2>1 DEF TypeOK, AccountRecords
  <2>5. disk.acct[a].until > now \/ disk.acct[a].modelUntil[m] > now
    BY <2>1, <2>3, <2>4 DEF IsRateLimited, SameWindow
  <2> QED BY <2>1, <2>2, <2>5, ReloadedKeeps DEF IsRateLimited
<1> QED BY <1>1, Invariance, PTL DEF Spec, RestartKeepsQuarantine

\* In every reachable state the records, the file and the reloaded records are
\* well typed: Persisted, Reloaded and every handler keep an account a record.
THEOREM WellTyped == Spec => []TypeOK
<1> QED BY Invariance, PTL

\* Of the quiet steps only an addition changes who is in the pool.
LEMMA QuietMembers ==
  ASSUME QuietNext, NEW b \in Accounts, (b \in pool) # (b \in pool')
  PROVE  AddAccount(b)
<1>1. CASE SignalNext \/ CreditsNext
  <2>1. pool' = pool
    BY <1>1 DEF SignalNext, CreditsNext, MarkRateLimited, ReportError, ReportSuccess,
       ReportInternalError, UpdateCapability, RefreshCreditsBegin, RefreshCreditsDone,
       RefreshCreditsFailed
  <2> QED BY <2>1
<1>2. ASSUME NEW a \in Accounts, AddAccount(a) PROVE AddAccount(b)
  <2>1. pool' = pool \cup {a}
    BY <1>2 DEF AddAccount
  <2>2. a = b
    BY <2>1
  <2> QED BY <1>2, <2>2
<1>3. ASSUME NEW a \in Accounts,
             \/ Release(a)
             \/ \E s \in Statuses : SetStatus(a, s)
             \/ \E t \in Tiers : SetTier(a, t)
             \/ \E list \in SUBSET Models : SetBlockedModels(a, list)
      PROVE  FALSE
  <2>1. pool' = pool
    BY <1>3 DEF Release, SetStatus, SetTier, SetBlockedModels
  <2> QED BY <2>1
<1> QED BY <1>1, <1>2, <1>3 DEF QuietNext

\* Unless the last save failed, only an addition or a removal changes who is in
\* the pool: a restart finds in accounts.json the pool it lost, and a credit
\* refresh that outlives its account saves the pool without it.
THEOREM MembershipLasts == Spec => MembershipDurable
<1>1. TypeOK /\ IInv /\ [Next]_vars =>
        [~saveFailed =>
           \A a \in Accounts : (a \in pool) # (a \in pool') => AddAccount(a) \/ Remove(a)]_vars
  <2> SUFFICES ASSUME TypeOK, IInv, [Next]_vars, ~saveFailed, NEW a \in Accounts,
                      (a \in pool) # (a \in pool')
               PROVE  AddAccount(a) \/ Remove(a)
    OBVIOUS
  <2>1. CASE QuietNext
    BY <2>1, QuietMembers
  <2>2. CASE SelectStep
    BY <2>2, SelectEffect
  <2>3. ASSUME NEW b \in Accounts, Remove(b) PROVE Remove(a)
    <3>1. pool' = pool \ {b}
      BY <2>3 DEF Remove
    <3>2. a = b
      BY <3>1
    <3> QED BY <2>3, <3>2
  <2>4. CASE Tick
    BY <2>4 DEF Tick
  <2>5. CASE Restart
    BY <2>5 DEF Restart, IInv, DiskAgrees
  <2>6. CASE UNCHANGED vars
    BY <2>6 DEF vars
  <2> QED BY <2>1, <2>2, <2>3, <2>4, <2>5, <2>6, NextCases DEF SelectStep
<1> QED BY <1>1, Invariance, PTL DEF Spec, MembershipDurable

\* Of the quiet steps only the operator's SetTier changes a pinned tier.
LEMMA QuietTier ==
  ASSUME TypeOK, QuietNext, NEW b \in Accounts, acct[b].tierManual,
         acct'[b].tier # acct[b].tier
  PROVE  \E t \in Tiers : SetTier(b, t)
<1>0. ASSUME NEW a \in Accounts PROVE acct[a] \in AccountRecords
  BY DEF TypeOK
<1>a. acct = [a \in Accounts |-> acct[a]]
  BY DEF TypeOK
<1>1. ASSUME NEW a \in Accounts, Release(a) \/ AddAccount(a) PROVE FALSE
  BY <1>1 DEF Release, AddAccount
<1>2. ASSUME NEW a \in Accounts, NEW s \in Statuses, SetStatus(a, s) PROVE FALSE
  BY <1>2, <1>0, <1>a DEF SetStatus, AccountRecords
<1>3. ASSUME NEW a \in Accounts, NEW t \in Tiers, SetTier(a, t) PROVE a = b
  BY <1>3, <1>0, <1>a DEF SetTier, AccountRecords
<1>4. ASSUME NEW a \in Accounts, NEW list \in SUBSET Models, SetBlockedModels(a, list)
      PROVE  FALSE
  BY <1>4, <1>0, <1>a DEF SetBlockedModels, AccountRecords
<1>5. ASSUME NEW a \in Accounts, NEW d \in Windows, NEW m \in Models, MarkRateLimited(a, d, m)
      PROVE  FALSE
  BY <1>5, <1>0, <1>a DEF MarkRateLimited, AccountRecords
<1>6. ASSUME NEW a \in Accounts, ReportError(a) PROVE FALSE
  BY <1>6, <1>0, <1>a DEF ReportError, AccountRecords
<1>7. ASSUME NEW a \in Accounts, ReportSuccess(a) PROVE FALSE
  BY <1>7, <1>0, <1>a DEF ReportSuccess, AccountRecords
<1>8. ASSUME NEW a \in Accounts, ReportInternalError(a) PROVE FALSE
  <2>1. \/ acct' = [acct EXCEPT ![a].streak = @ + 1]
        \/ acct' = [acct EXCEPT ![a].streak = AtMost(@ + 1, 2), ![a].until = now + 5 * Minute]
    BY <1>8 DEF ReportInternalError
  <2> QED BY <2>1, <1>0, <1>a DEF AccountRecords
<1>9. ASSUME NEW a \in Accounts, NEW m \in Models, NEW ok, NEW reason,
             UpdateCapability(a, m, ok, reason)
      PROVE  FALSE
  BY <1>9, <1>0, <1>a DEF UpdateCapability, AccountRecords
<1>10. ASSUME NEW a \in Accounts, RefreshCreditsBegin(a) \/ RefreshCreditsFailed(a) PROVE FALSE
  BY <1>10 DEF RefreshCreditsBegin, RefreshCreditsFailed
<1>11. ASSUME NEW a \in Accounts, NEW plan, NEW c, RefreshCreditsDone(a, plan, c) PROVE FALSE
  <2>1. acct[b].tierManual => PlanTier(acct[b], plan) = acct[b].tier
    BY DEF PlanTier
  <2> QED BY <2>1, <1>11, <1>0, <1>a DEF RefreshCreditsDone, AccountRecords
<1> QED
  BY <1>1, <1>2, <1>3, <1>4, <1>5, <1>6, <1>7, <1>8, <1>9, <1>10, <1>11
     DEF QuietNext, SignalNext, CreditsNext

\* A tier the operator pinned is changed by the operator alone, or lost to a
\* restart after a failed save: no probe, request or plan name touches it.
THEOREM PinnedTier == Spec => ManualTierSticks
<1>1. TypeOK /\ IInv /\ [Next]_vars =>
        [\A a \in pool \cap pool' :
           acct[a].tierManual /\ acct'[a].tier # acct[a].tier =>
             \/ \E t \in Tiers : SetTier(a, t)
             \/ Restart /\ saveFailed]_vars
  <2> SUFFICES ASSUME TypeOK, IInv, [Next]_vars, NEW a \in pool \cap pool',
                      acct[a].tierManual, acct'[a].tier # acct[a].tier
               PROVE  \/ \E t \in Tiers : SetTier(a, t)
                      \/ Restart /\ saveFailed
    OBVIOUS
  <2>0. a \in Accounts
    BY DEF TypeOK
  <2>1. CASE QuietNext
    BY <2>0, <2>1, QuietTier
  <2>2. CASE SelectStep
    BY <2>0, <2>2, SelectEffect DEF WindowsKept
  <2>3. ASSUME NEW b \in Accounts, Remove(b) PROVE FALSE
    <3>1. a # b
      BY <2>3 DEF Remove
    <3> QED BY <2>0, <2>3, <3>1 DEF Remove, TypeOK
  <2>4. CASE Tick
    BY <2>4 DEF Tick
  <2>5. CASE Restart /\ ~saveFailed
    <3>1. disk.acct[a] \in AccountRecords /\ now \in Nat
      BY <2>0 DEF TypeOK
    <3>2. acct'[a] = Reloaded(disk.acct[a], now)
      BY <2>0, <2>5 DEF Restart
    <3>3. acct'[a].tier = disk.acct[a].tier
      BY <3>1, <3>2, ReloadedKeeps
    <3> QED BY <2>5, <3>3 DEF IInv, DiskAgrees
  <2>6. CASE UNCHANGED vars
    BY <2>6 DEF vars
  <2> QED BY <2>1, <2>2, <2>3, <2>4, <2>5, <2>6, NextCases DEF SelectStep
<1> QED BY <1>1, Invariance, PTL DEF Spec, ManualTierSticks

-----------------------------------------------------------------------------
(* What a refused request is told.                                         *)

\* HasEligible, IsAllRateLimited and Acquire agree: a request that is neither
\* refused nor told to come back, and yet gets no account, has met eligible
\* accounts outside their windows that have all spent their minute's budget.
THEOREM RefusalIsExplained == Spec => []RefusalExplained
<1>1. TypeOK /\ IInv => RefusalExplained
  <2> SUFFICES ASSUME TypeOK, IInv, NEW m \in Models
               PROVE
       LET ready == {a \in pool : Grantable(acct[a], m, now)}
           free == {a \in Eligible(m) : ~IsRateLimited(acct[a], m, now)}
           spent(a) == Cardinality(Live(acct[a].rpm, now)) >= TierRPM[acct[a].tier]
       IN  /\ IsAllRateLimited(m) => ready = {}
           /\ HasEligible(m) /\ ~IsAllRateLimited(m) /\ ready = {} =>
                free # {} /\ \A a \in free : spent(a)
    BY DEF RefusalExplained
  <2> DEFINE ready == {a \in pool : Grantable(acct[a], m, now)}
             free == {a \in Eligible(m) : ~IsRateLimited(acct[a], m, now)}
             spent(a) == Cardinality(Live(acct[a].rpm, now)) >= TierRPM[acct[a].tier]
  <2>1. ready \subseteq free
    BY DEF Grantable, Eligible
  <2>2. IsAllRateLimited(m) => ready = {}
    BY <2>1 DEF IsAllRateLimited
  <2>3. HasEligible(m) /\ ~IsAllRateLimited(m) => free # {}
    BY DEF HasEligible, IsAllRateLimited, Eligible
  <2>4. ASSUME ready = {}, NEW a \in free PROVE spent(a)
    <3>1. a \in pool /\ a \in Accounts /\ acct[a] \in AccountRecords
      BY DEF Eligible, TypeOK
    <3>2. TierRPM[acct[a].tier] \in Nat
      BY <3>1, RPMAssumption DEF AccountRecords
    <3>3. Cardinality(Live(acct[a].rpm, now)) \in Nat
      <4>1. IsFiniteSet(acct[a].rpm)
        BY <3>1 DEF IInv, GrantsKept
      <4>2. Live(acct[a].rpm, now) \subseteq acct[a].rpm
        BY DEF Live
      <4> QED BY <4>1, <4>2, FS_Subset, FS_CardinalityType
    <3>4. ~Grantable(acct[a], m, now)
      BY <2>4, <3>1
    <3>5. \/ ~(TierRPM[acct[a].tier] > 0)
          \/ ~(Cardinality(Live(acct[a].rpm, now)) < TierRPM[acct[a].tier])
      BY <3>4 DEF Grantable, Eligible
    <3> QED BY <3>2, <3>3, <3>5
  <2> QED BY <2>2, <2>3, <2>4
<1> QED BY <1>1, Invariance, PTL

\* A set of numbers that is not empty has a least one.
LEMMA LeastOf ==
  ASSUME NEW T \in SUBSET Nat, T # {}
  PROVE  \E t \in T : \A u \in T : t <= u
<1>1. PICK t \in T : \A u \in T : ~(<<u, t>> \in OpToRel(<, Nat))
  BY NatLessThanWellFounded, WFMin
<1>2. ASSUME NEW u \in T PROVE t <= u
  <2>1. u \in Nat /\ t \in Nat
    OBVIOUS
  <2>2. ~(<<u, t>> \in OpToRel(<, Nat))
    BY <1>1
  <2>3. ~(u < t)
    BY <2>1, <2>2 DEF OpToRel
  <2> QED BY <2>1, <2>3
<1> QED BY <1>2

\* A client that is told to come back is told to come no later than the moment
\* the first account leaves both its windows: the deadline taken is the least
\* of those that are still ahead, and each eligible account has one.
THEOREM RetryInTime == Spec => []RetryNeverLate
<1>1. TypeOK => RetryNeverLate
  <2> SUFFICES ASSUME TypeOK, NEW m \in Models, IsAllRateLimited(m), NEW a \in Eligible(m)
               PROVE  RetryAt(m) <= acct[a].until \/ RetryAt(m) <= acct[a].modelUntil[m]
    BY DEF RetryNeverLate
  <2>1. \A b \in Eligible(m) : acct[b].until \in Nat /\ acct[b].modelUntil[m] \in Nat
    BY DEF Eligible, TypeOK, AccountRecords
  <2>2. Deadlines(m) \in SUBSET Nat
    BY <2>1 DEF Deadlines
  <2>3. PICK t \in {acct[a].until, acct[a].modelUntil[m]} : t > now
    BY DEF IsAllRateLimited, IsRateLimited
  <2>4. t \in Deadlines(m)
    BY <2>3 DEF Deadlines
  <2>5. \E d \in Deadlines(m) : \A u \in Deadlines(m) : d <= u
    BY <2>2, <2>4, LeastOf
  <2>6. \A u \in Deadlines(m) : RetryAt(m) <= u
    BY <2>5 DEF RetryAt
  <2> QED BY <2>3, <2>4, <2>6
<1> QED BY <1>1, Invariance, PTL
=============================================================================
