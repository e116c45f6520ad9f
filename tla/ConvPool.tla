------------------------------ MODULE ConvPool ------------------------------
(***************************************************************************)
(* The cascade reuse pool (src/internal/convpool/pool.go): a fingerprint   *)
(* of a conversation leads to the cascade that holds it server-side.  All  *)
(* functions take the package mutex from start to end, so each is a step.  *)
(* The callers are abstract here: a request holds a cascade it opened or   *)
(* checked out, until it checks it in or lets it go.                       *)
(***************************************************************************)
EXTENDS Integers, FiniteSets, Functions

CONSTANTS
  Fingerprints,  \* hashes of conversations
  Cascades,      \* cascade ids the language servers give out, never twice
  Accounts,      \* owners of a cascade (apiKey)
  Ports,         \* language-server ports
  Capacity,      \* max_
  TTL,           \* ttl, in ticks
  MaxTime        \* bound: the clock stops here

ASSUME LimitsAssumption == Capacity \in Nat \ {0} /\ TTL \in Nat /\ MaxTime \in Nat

VARIABLES
  now,      \* the clock
  entries,  \* pool_: a function on the fingerprints in use
  seen,     \* cascade ids given out so far
  holds     \* how many requests hold a cascade

vars == <<now, entries, seen, holds>>

Entry == [cascade : Cascades, key : Accounts, port : Ports, last : Nat]

Drop(fps) == Restrict(entries, DOMAIN entries \ fps)

\* Mutant: the age is not looked at.
FreshEnoughForever(fp) == fp \in DOMAIN entries

FreshEnough(fp) == fp \in DOMAIN entries /\ now - entries[fp].last <= TTL

With(fp, e) == [f \in DOMAIN entries \cup {fp} |-> IF f = fp THEN e ELSE entries[f]]

\* Mutant: the entry used last is evicted.
NewestOf(table) == {f \in DOMAIN table : \A g \in DOMAIN table : table[f].last >= table[g].last}

\* The candidates for eviction; the map's order breaks a tie.
OldestOf(table) == {f \in DOMAIN table : \A g \in DOMAIN table : table[f].last <= table[g].last}

\* The tables Checkin may leave: over capacity, one oldest entry goes.
Stored(fp, e) ==
  LET table == With(fp, e) IN
  IF Cardinality(DOMAIN table) > Capacity
  THEN {Restrict(table, DOMAIN table \ {f}) : f \in OldestOf(table)}
  ELSE {table}

Init ==
  /\ now = 0
  /\ entries = [f \in {} |-> f]
  /\ seen = {}
  /\ holds = [c \in Cascades |-> 0]

-----------------------------------------------------------------------------
\* StartCascade answers a request with an id of its own.
Open(c) ==
  /\ c \notin seen
  /\ seen' = seen \cup {c}
  /\ holds' = [holds EXCEPT ![c] = 1]
  /\ UNCHANGED <<now, entries>>

\* Mutant: the entry is handed out and stays in the pool.
CheckoutKeeping(fp) ==
  /\ fp \in DOMAIN entries
  /\ UNCHANGED <<now, seen, entries>>
  /\ holds' = IF FreshEnough(fp) THEN [holds EXCEPT ![entries[fp].cascade] = @ + 1] ELSE holds

\* Found or expired, the entry leaves the pool; a miss changes nothing.
Checkout(fp) ==
  /\ fp \in DOMAIN entries
  /\ entries' = Drop({fp})
  /\ holds' = IF FreshEnough(fp) THEN [holds EXCEPT ![entries[fp].cascade] = @ + 1] ELSE holds
  /\ UNCHANGED <<now, seen>>

\* An entry stored under the same fingerprint before is lost.
Checkin(fp, c, key, port) ==
  /\ holds[c] > 0
  /\ entries' \in Stored(fp, [cascade |-> c, key |-> key, port |-> port, last |-> now])
  /\ holds' = [holds EXCEPT ![c] = @ - 1]
  /\ UNCHANGED <<now, seen>>

\* The request failed, or does not check in.
LetGo(c) ==
  /\ holds[c] > 0
  /\ holds' = [holds EXCEPT ![c] = @ - 1]
  /\ UNCHANGED <<now, entries, seen>>

\* Called with a port only, by the LS exit watcher and the watchdog.
InvalidateFor(port) ==
  /\ entries' = Drop({f \in DOMAIN entries : entries[f].port = port})
  /\ UNCHANGED <<now, seen, holds>>

\* The dashboard, and the reuse flag turned off.
Clear ==
  /\ entries' = Drop(DOMAIN entries)
  /\ UNCHANGED <<now, seen, holds>>

Tick ==
  /\ now < MaxTime
  /\ now' = now + 1
  /\ UNCHANGED <<entries, seen, holds>>

Next ==
  \/ \E c \in Cascades : Open(c) \/ LetGo(c)
  \/ \E fp \in Fingerprints : Checkout(fp)
  \/ \E fp \in Fingerprints, c \in Cascades, key \in Accounts, port \in Ports :
       Checkin(fp, c, key, port)
  \/ \E port \in Ports : InvalidateFor(port)
  \/ Clear
  \/ Tick

Spec == Init /\ [][Next]_vars

-----------------------------------------------------------------------------
(* Properties. *)

TypeOK ==
  /\ now \in Nat
  /\ DOMAIN entries \subseteq Fingerprints
  /\ \A f \in DOMAIN entries : entries[f] \in Entry
  /\ seen \subseteq Cascades
  /\ holds \in [Cascades -> Nat]

InPool(c) == {f \in DOMAIN entries : entries[f].cascade = c}

\* A cascade is in one place: with one request, or in the pool under one
\* fingerprint, never both (Checkout deletes, Checkin gives the hold up).
Exclusive ==
  \A c \in Cascades :
    /\ holds[c] <= 1
    /\ holds[c] = 1 => InPool(c) = {}
    /\ \A f, g \in InPool(c) : f = g

\* A cascade idle for longer than the TTL is never resumed, however long it
\* was kept (Checkout).
NeverResumedStale ==
  [][\A c \in Cascades :
       holds'[c] > holds[c] /\ c \in seen =>
         \E f \in InPool(c) : now - entries[f].last <= TTL]_vars

\* A full pool makes room by forgetting the conversation idle the longest, and
\* no more than that one (Checkin).
EvictsOldest ==
  [][\A fp \in Fingerprints, c \in Cascades, key \in Accounts, port \in Ports :
       Checkin(fp, c, key, port) =>
         LET gone == DOMAIN entries \ DOMAIN entries' IN
         /\ Cardinality(DOMAIN entries') <= Capacity
         /\ Cardinality(gone) <= 1
         /\ \A f \in gone, g \in DOMAIN entries' :
              g # fp => entries[f].last <= entries[g].last]_vars
=============================================================================
