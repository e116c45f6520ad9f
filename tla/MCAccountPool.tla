---------------------------- MODULE MCAccountPool ----------------------------
(* Small instances of AccountPool. *)
EXTENDS AccountPool, TLC

CONSTANTS a1, a2, cheap, opus

MCAccounts == {a1, a2}
MCModels == {cheap, opus}
\* 60/10/20/0 scaled down, order kept.
MCTierRPM == [pro |-> 2, free |-> 1, unknown |-> 1, expired |-> 0]
Symmetry == Permutations(MCAccounts)

-----------------------------------------------------------------------------
(* Selection while the operator adds, disables and re-tiers accounts and    *)
(* the premium model gets rate-limited: no restart, no other signal.        *)

SelectionNext ==
  \/ SelectNext
  \/ Tick
  \/ \E a \in Accounts :
       \/ AddAccount(a)
       \/ \E t \in {"pro", "free"} : SetTier(a, t)
       \/ SetBlockedModels(a, {opus})
       \/ ReportInternalError(a)
       \/ \E d \in Windows : MarkRateLimited(a, d, opus)

SelectionSpec == Init /\ [][SelectionNext]_vars

-----------------------------------------------------------------------------
(* Windows, error counters, membership and restarts after good and failed   *)
(* saves, while a credit refresh may outlive its account.                   *)

DurableNext ==
  \/ \E a \in Accounts :
       \/ AcquireByKey(a, opus)
       \/ Release(a)
       \/ ReportError(a)
       \/ ReportSuccess(a)
       \/ ReportInternalError(a)
       \/ AddAccount(a)
       \/ Remove(a)
       \/ RefreshCreditsBegin(a)
       \/ RefreshCreditsDone(a, "other", NoCredits)
       \/ RefreshCreditsFailed(a)
       \/ \E s \in {"active", "disabled"} : SetStatus(a, s)
       \/ \E d \in Windows : MarkRateLimited(a, d, opus)
  \/ Tick
  \/ Restart

DurableSpec == Init /\ [][DurableNext]_vars
=============================================================================
