----------------------------- MODULE MCChatFlow -----------------------------
(* Small instances of ChatFlow. *)
EXTENDS ChatFlow, TLC

CONSTANTS a1, a2, r1, r2, u, v, cheap, opus

MCFallback == opus :> cheap
MCNoFallback == [m \in {} |-> m]
MCTierRPM == [pro |-> 6, free |-> 6, unknown |-> 6, expired |-> 0]
\* One failure for each report it leads to.
MCFailures ==
  {{}, {"auth"}, {"model"}, {"model", "rateLimit"}, {"model", "internal"}}

Symmetry == Permutations({r1, r2}) \cup Permutations({a1, a2}) \cup Permutations({u, v})

-----------------------------------------------------------------------------
(* The fates of cascades: two requests that may resume, accounts that are   *)
(* removed, language servers that come back.                                *)

\* The end of a run: nothing is left to serve.
AllServed == (\A r \in Requests : req[r].pc = "done") /\ UNCHANGED vars

ReuseNext ==
  \/ \E r \in Requests : (Arrive(r) /\ req'[r].reuseOn) \/ Serve(r)
  \/ \E a \in Accounts : Remove(a) \/ \E p \in Ports : Respawn(a, p)
  \/ AllServed

ReuseSpec == Init /\ [][ReuseNext]_vars
=============================================================================
