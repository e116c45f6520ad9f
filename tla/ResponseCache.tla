--------------------------- MODULE ResponseCache ---------------------------
(***************************************************************************)
(* The disk-backed LRU of answers (src/internal/cache/cache.go).  The      *)
(* index is changed under the package mutex, the files are not: Set writes *)
(* its file before it takes the mutex, Get reads one after it gave it up,  *)
(* and Clear, an eviction or an expiry of somebody else may come between.  *)
(***************************************************************************)
EXTENDS Integers, FiniteSets, Sequences, SequencesExt, Functions

CONSTANTS
  Keys,        \* hashes of request bodies
  Callers,     \* requests that may be inside Get or Set at a time
  MaxItems,    \* maxItems
  TTL,         \* ttl, in ticks
  Stall,       \* bound: ticks that may pass inside one Get or Set
  MaxDamage,   \* bound: files lost or damaged behind the cache's back at a time
  MaxTime      \* bound: the clock stops here

CacheAssumption ==
  MaxItems \in Nat \ {0} /\ {TTL, Stall, MaxDamage, MaxTime} \subseteq Nat

VARIABLES
  now,     \* the clock
  order,   \* order: the keys of the index, least recently used first
  expires, \* expiresAt of each key of the index
  files,   \* the directory: key -> when it was written, and whether it reads back
  call,    \* per caller: the Get or Set it is in
  damaged, \* history: files harmed since their key entered the index
  stray    \* history: files the last start left out of its index

vars == <<now, order, expires, files, call, damaged, stray>>

NoCall == [pc |-> "idle"]
\* Between lookup and ReadFile, between a failed read and its clean-up (same: the
\* element found is still the one in the list), between writing and indexing a file.
Reading(k) == [pc |-> "read", key |-> k, at |-> now, same |-> TRUE]
Writing(k) == [pc |-> "index", key |-> k, at |-> now]

Indexed == ToSet(order)
ToBack(k) == Append(RemoveFirst(order, k), k)
Without(f, ks) == Restrict(f, DOMAIN f \ ks)
Put(f, k, v) == [x \in DOMAIN f \cup {k} |-> IF x = k THEN v ELSE f[x]]

Init ==
  /\ now = 0
  /\ order = <<>>
  /\ expires = <<>>
  /\ files = <<>>
  /\ call = [c \in Callers |-> NoCall]
  /\ damaged = {}
  /\ stray = {}

-----------------------------------------------------------------------------
\* What the drop of ks from the index means to the Gets that found them in it.
Forget(calls, ks) ==
  [c \in Callers |->
     IF calls[c].pc \in {"read", "clean"} /\ calls[c].key \in ks
     THEN [calls[c] EXCEPT !.same = FALSE] ELSE calls[c]]

\* Mutant: the file stays when its entry goes.
DropsEntryOnly(k, calls) ==
  /\ order' = RemoveFirst(order, k)
  /\ expires' = Without(expires, {k})
  /\ call' = Forget(calls, {k})
  /\ damaged' = damaged \ {k}
  /\ UNCHANGED <<files, stray>>

\* removeLocked.
Drops(k, calls) ==
  /\ order' = RemoveFirst(order, k)
  /\ expires' = Without(expires, {k})
  /\ files' = Without(files, {k})
  /\ call' = Forget(calls, {k})
  /\ damaged' = damaged \ {k}
  /\ stray' = stray \ {k}

Step(c, next) == [call EXCEPT ![c] = next]

\* Get finds an entry past its time.  (One that finds none changes nothing.)
GetExpired(c, k) ==
  /\ call[c] = NoCall
  /\ k \in Indexed
  /\ now > expires[k]
  /\ Drops(k, call)
  /\ UNCHANGED now

\* Mutant: a hit starts the entry's time anew.
SlidingExpiry(k) == [expires EXCEPT ![k] = now + TTL]

ExpiryAfterHit(k) == expires

\* Get finds an entry and leaves the mutex to read its file.
GetFound(c, k) ==
  /\ call[c] = NoCall
  /\ k \in Indexed
  /\ now <= expires[k]
  /\ order' = ToBack(k)
  /\ expires' = ExpiryAfterHit(k)
  /\ call' = Step(c, Reading(k))
  /\ UNCHANGED <<now, files, damaged, stray>>

Spoilt == {k \in DOMAIN files : ~files[k].ok}
Readable(k) == k \in DOMAIN files \ Spoilt

\* The read succeeds: the request is answered from the cache.
GetHit(c) ==
  /\ call[c].pc = "read"
  /\ Readable(call[c].key)
  /\ call' = Step(c, NoCall)
  /\ UNCHANGED <<now, order, expires, files, damaged, stray>>

\* The file is gone, or does not parse.
GetUnreadable(c) ==
  /\ call[c].pc = "read"
  /\ ~Readable(call[c].key)
  /\ call' = [call EXCEPT ![c].pc = "clean"]
  /\ UNCHANGED <<now, order, expires, files, damaged, stray>>

StillTheEntry(c) == call[c].key \in Indexed /\ call[c].same

GetClean(c) ==
  /\ call[c].pc = "clean"
  /\ IF StillTheEntry(c)
     THEN Drops(call[c].key, Step(c, NoCall))
     ELSE call' = Step(c, NoCall) /\ UNCHANGED <<order, expires, files, damaged, stray>>
  /\ UNCHANGED now

\* Set writes the file; a failed write ends it there and changes nothing.
SetWrite(c, k) ==
  /\ call[c] = NoCall
  /\ files' = Put(files, k, [at |-> now, ok |-> TRUE])
  /\ call' = Step(c, Writing(k))
  /\ UNCHANGED <<now, order, expires, damaged, stray>>

\* Mutant: the file is not looked for again.
FileTakenForGranted(k) == TRUE

FileStillThere(k) == k \in DOMAIN files

\* A new entry may be one too many: then the least recently used go.
Surplus(k, seq) == IF k \notin Indexed /\ Len(seq) > MaxItems THEN Len(seq) - MaxItems ELSE 0

\* Set indexes its file, unless it is gone by now.
SetIndex(c) ==
  /\ call[c].pc = "index"
  /\ LET k == call[c].key
         seq == ToBack(k)
         over == Surplus(k, seq)
         gone == ToSet(SubSeq(seq, 1, over))
     IN  IF FileStillThere(k)
         THEN /\ order' = SubSeq(seq, over + 1, Len(seq))
              /\ expires' = Without(Put(expires, k, now + TTL), gone)
              /\ files' = Without(files, gone)
              /\ call' = Forget(Step(c, NoCall), gone)
              /\ damaged' = (damaged \ gone) \cup ({k} \cap Spoilt)
              /\ stray' = stray \ {k}
         ELSE call' = Step(c, NoCall) /\ UNCHANGED <<order, expires, files, damaged, stray>>
  /\ UNCHANGED now

\* Clear: the index, and the directory with everything in it.
Clear ==
  /\ order' = <<>>
  /\ expires' = <<>>
  /\ files' = <<>>
  /\ call' = Forget(call, Keys)
  /\ damaged' = {}
  /\ stray' = {}
  /\ UNCHANGED now

-----------------------------------------------------------------------------
Term(f) == files[f].at + TTL

\* Kill and start: reloadFromDisk takes the files in the order of their names, which
\* are hashes, and stops at the budget; the expired ones it passed are purged.
Restart ==
  LET live == {f \in DOMAIN files : now <= Term(f)}
      old == DOMAIN files \ live
      full == Cardinality(live) >= MaxItems
  IN  \E kept \in SUBSET live, purged \in SUBSET old :
        /\ IF full THEN Cardinality(kept) = MaxItems ELSE kept = live /\ purged = old
        /\ order' \in SetToSeqs(kept)
        /\ expires' = [f \in kept |-> Term(f)]
        /\ files' = Without(files, purged)
        /\ stray' = DOMAIN files' \ kept
        /\ call' = [c \in Callers |-> NoCall]
        /\ damaged' = kept \cap Spoilt
        /\ UNCHANGED now

Harmed == damaged \cup Spoilt

\* A file vanishes behind the cache's back or does not read back any more.
Damage(k) ==
  /\ Cardinality(Harmed) < MaxDamage
  /\ k \in DOMAIN files
  /\ files' \in {Without(files, {k}), [files EXCEPT ![k].ok = FALSE]}
  /\ damaged' = damaged \cup ({k} \cap Indexed)
  /\ stray' = stray \cap DOMAIN files'
  /\ UNCHANGED <<now, order, expires, call>>

Tick ==
  /\ now < MaxTime
  /\ \A c \in Callers : call[c] # NoCall => now < call[c].at + Stall
  /\ now' = now + 1
  /\ UNCHANGED <<order, expires, files, call, damaged, stray>>

Next ==
  \/ \E c \in Callers, k \in Keys :
       GetExpired(c, k) \/ GetFound(c, k) \/ SetWrite(c, k)
  \/ \E c \in Callers : GetHit(c) \/ GetUnreadable(c) \/ GetClean(c) \/ SetIndex(c)
  \/ Clear
  \/ Restart
  \/ \E k \in Keys : Damage(k)
  \/ Tick

Spec == Init /\ [][Next]_vars

-----------------------------------------------------------------------------
Calls ==
  [pc : {"idle"}]
  \cup [pc : {"read", "clean"}, key : Keys, at : Nat, same : BOOLEAN]
  \cup [pc : {"index"}, key : Keys, at : Nat]

\* The index is one list without repetition, within its budget, with an expiry for
\* each key (Get, Set, Clear, reloadFromDisk).
TypeOK ==
  /\ now \in Nat
  /\ Indexed \subseteq Keys /\ Len(order) = Cardinality(Indexed) /\ Len(order) <= MaxItems
  /\ expires \in [Indexed -> Nat]
  /\ DOMAIN files \subseteq Keys
  /\ \A k \in DOMAIN files : files[k] \in [at : Nat, ok : BOOLEAN]
  /\ call \in [Callers -> Calls]
  /\ damaged \subseteq Indexed
  /\ stray \subseteq DOMAIN files

\* An entry of the index has its file, unless somebody else took it: neither a Clear
\* nor an eviction between a Set's write and its index update leaves one without
\* (the second look in Set).
IndexBacked == \A k \in Indexed : Readable(k) \/ k \in damaged

\* The directory holds nothing the cache would not find again: every file is indexed,
\* on its way into the index, or one the last start had no room for.
NothingLeaks ==
  \A k \in DOMAIN files :
    \/ k \in Indexed \cup stray
    \/ \E c \in Callers : call[c].pc = "index" /\ call[c].key = k

\* No answer is replayed that is older than its time, whatever hits, renewals and
\* restarts it went through; a stalled Set and a stalled Get may each add their stall.
ServedFresh ==
  [][\A c \in Callers :
       GetHit(c) => now - files[call[c].key].at <= TTL + 2 * Stall]_vars

\* An undamaged answer leaves the index only because its time is over, it is the least
\* recently used one over the budget, or everything is cleared or restarted: never
\* because a reader that found an earlier entry of the same key is late.
KeptUntilDue ==
  [][\A k \in (Indexed \ damaged) \ ToSet(order') :
       \/ now > expires[k]
       \/ k = Head(order) /\ Len(order) = MaxItems /\ \E c \in Callers : SetIndex(c)
       \/ Clear
       \/ Restart]_vars

\* Neither longer nor shorter than its time.
LivesItsTime == ServedFresh /\ KeptUntilDue
=============================================================================
