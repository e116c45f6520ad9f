----------------------------- MODULE MCConvPool -----------------------------
(* The parts a turn goes through between the account pool and the upstream: *)
(* the conversation pool, the response cache, the calls that open and       *)
(* resume cascades on one language server, and a poll loop; one of them in  *)
(* each behaviour.                                                          *)
EXTENDS ConvPool, TLC

CONSTANTS
  Keys, Callers, MaxItems, CacheTTL, Stall, MaxDamage, CacheTime,
  Sessions, None, MaxKept,
  MaxWait, IdleGrace, NoGrowthStall, ColdStall, Deadline, StallRetryMin, MaxTransient,
  MaxSteps, MaxText

VARIABLES
  part,                                         \* which of the four
  order, expires, files, call, damaged, stray,  \* of the cache
  entry, opening, panels, spoken, kept,         \* of the opening
  srv, poll, said, dropped                      \* of the loop

RC == INSTANCE ResponseCache WITH TTL <- CacheTTL, MaxTime <- CacheTime
CO == INSTANCE CascadeOpen WITH call <- opening
CP == INSTANCE CascadePoll

ASSUME PartsAssumption == RC!CacheAssumption /\ CO!OpenAssumption /\ CP!PollAssumption

poolVars == <<entries, seen, holds>>
cacheVars == <<order, expires, files, call, damaged, stray>>
openVars == <<entry, opening, panels, spoken, kept>>
pollVars == <<srv, poll, said, dropped>>
mcvars == <<now, part, poolVars, cacheVars, openVars, pollVars>>

MCInit ==
  /\ part \in {"pool", "cache", "open", "poll"}
  /\ Init /\ RC!Init /\ CO!Init /\ CP!Init

MCNext ==
  /\ UNCHANGED part
  /\ \/ part = "pool" /\ Next /\ UNCHANGED <<cacheVars, openVars, pollVars>>
     \/ part = "cache" /\ RC!Next /\ UNCHANGED <<poolVars, openVars, pollVars>>
     \/ part = "open" /\ CO!Next /\ UNCHANGED <<now, poolVars, cacheVars, pollVars>>
     \/ part = "poll" /\ CP!Next /\ UNCHANGED <<poolVars, cacheVars, openVars>>

MCSpec == MCInit /\ [][MCNext]_mcvars

IdsAlike == UNION {Permutations(S) : S \in {Keys, Callers, Cascades}}

-----------------------------------------------------------------------------
(* The types of the part at work; those of the pool are in TypeOK.          *)
PartTypeOK ==
  CASE part = "cache" -> RC!TypeOK [] part = "open" -> CO!TypeOK
    [] part = "poll" -> CP!TypeOK [] OTHER -> TRUE

(* Every entry of the index has its file, and every file its entry          *)
(* (cache.go).                                                              *)
IndexBacked == RC!IndexBacked
NothingLeaks == RC!NothingLeaks

(* An answer is replayed as long as its time lasts, and no longer           *)
(* (cache.go).                                                              *)
LivesItsTime == RC!LivesItsTime

(* One cascade at most takes a message, and with the payload it needs       *)
(* (client.go).                                                             *)
DeliveredOnce == CO!DeliveredOnce
PayloadFits == CO!PayloadFits

(* What the loop says of a turn is the turn, once and whole; it does not    *)
(* take a lost connection for a stall (client.go).                          *)
SaidOnce == CP!SaidOnce
WholeAnswer == CP!WholeAnswer
FailureIsNoStall == CP!FailureIsNoStall
=============================================================================
