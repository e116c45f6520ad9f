---------------------------- MODULE ConvPoolProofs ----------------------------
(***************************************************************************)
(* Theorems about the cascade reuse pool, for any number of fingerprints,  *)
(* cascades and callers: a cascade is in one place, an old one is not      *)
(* resumed, and a full pool forgets the conversation idle the longest.     *)
(***************************************************************************)
EXTENDS ConvPool, FiniteSetTheorems, TLAPS

\* A cascade nobody opened is with nobody: what keeps Exclusive when StartCascade
\* hands out a new one.
Unopened ==
  \A c \in Cascades : c \notin seen => holds[c] = 0 /\ InPool(c) = {}

IInv == TypeOK /\ Unopened /\ Exclusive

\* Giving up entries, for whatever reason, and changing nobody's holds.
LEMMA Forgetting ==
  ASSUME IInv, NEW fps, entries' = Drop(fps), UNCHANGED <<seen, holds>>, now' \in Nat
  PROVE  IInv'
<1>1. DOMAIN entries' = DOMAIN entries \ fps
  BY DEF Drop, Restrict
<1>2. \A f \in DOMAIN entries' : entries'[f] = entries[f]
  BY DEF Drop, Restrict
<1>3. TypeOK'
  BY <1>1, <1>2 DEF IInv, TypeOK
<1>4. \A c \in Cascades : InPool(c)' \subseteq InPool(c)
  BY <1>1, <1>2 DEF InPool
<1>5. Unopened'
  BY <1>4 DEF IInv, Unopened
<1>6. Exclusive'
  BY <1>4 DEF IInv, Exclusive
<1> QED
  BY <1>3, <1>5, <1>6 DEF IInv

\* Letting go of a cascade held, with the table as it was.
LEMMA Releasing ==
  ASSUME IInv, NEW c \in Cascades, LetGo(c)
  PROVE  IInv'
<1>1. holds[c] = 1 /\ holds' = [holds EXCEPT ![c] = 0]
  <2>1. holds[c] \in Nat /\ holds[c] <= 1 /\ holds[c] > 0
    BY DEF LetGo, IInv, TypeOK, Exclusive
  <2>2. holds[c] = 1
    BY <2>1
  <2> QED
    BY <2>2 DEF LetGo
<1>2. TypeOK'
  BY <1>1 DEF LetGo, IInv, TypeOK, Entry
<1>3. \A d \in Cascades : InPool(d)' = InPool(d)
  BY DEF LetGo, InPool
<1>4. \A d \in Cascades : holds'[d] = IF d = c THEN 0 ELSE holds[d]
  BY <1>1 DEF IInv, TypeOK
<1>5. Unopened' /\ Exclusive'
  BY <1>3, <1>4 DEF LetGo, IInv, Unopened, Exclusive, TypeOK
<1> QED
  BY <1>2, <1>5 DEF IInv

\* What Checkin leaves: the new entry or not, and of the others no more than
\* there were.
LEMMA StoredEntries ==
  ASSUME NEW fp, NEW e, NEW table \in Stored(fp, e)
  PROVE  /\ table = [f \in DOMAIN table |-> table[f]]
         /\ DOMAIN table \subseteq DOMAIN entries \cup {fp}
         /\ \A f \in DOMAIN table : table[f] = IF f = fp THEN e ELSE entries[f]
<1> DEFINE full == With(fp, e)
<1>1. /\ full = [f \in DOMAIN full |-> full[f]]
      /\ DOMAIN full = DOMAIN entries \cup {fp}
      /\ \A f \in DOMAIN full : full[f] = IF f = fp THEN e ELSE entries[f]
  BY DEF With
<1>2. CASE table = full
  BY <1>1, <1>2
<1>3. CASE \E f \in OldestOf(full) : table = Restrict(full, DOMAIN full \ {f})
  <2>1. PICK f : table = Restrict(full, DOMAIN full \ {f})
    BY <1>3
  <2>2. /\ table = [g \in DOMAIN table |-> table[g]]
        /\ DOMAIN table = DOMAIN full \ {f} /\ \A g \in DOMAIN table : table[g] = full[g]
    BY <2>1 DEF Restrict
  <2> QED
    BY <1>1, <2>2
<1> QED
  BY <1>2, <1>3 DEF Stored

LEMMA CheckinKeeps ==
  ASSUME IInv, NEW fp \in Fingerprints, NEW c \in Cascades, NEW key \in Accounts,
         NEW port \in Ports, Checkin(fp, c, key, port)
  PROVE  IInv'
<1> DEFINE e == [cascade |-> c, key |-> key, port |-> port, last |-> now]
<1>1. /\ DOMAIN entries' \subseteq DOMAIN entries \cup {fp}
      /\ \A f \in DOMAIN entries' : entries'[f] = IF f = fp THEN e ELSE entries[f]
  BY StoredEntries DEF Checkin
<1>2. holds[c] = 1 /\ holds' = [holds EXCEPT ![c] = 0]
  <2>1. holds[c] \in Nat /\ holds[c] <= 1 /\ holds[c] > 0
    BY DEF Checkin, IInv, TypeOK, Exclusive
  <2>2. holds[c] = 1
    BY <2>1
  <2> QED
    BY <2>2 DEF Checkin
<1>3. e \in Entry /\ e.cascade = c
  BY DEF IInv, TypeOK, Entry
<1>4. TypeOK'
  BY <1>1, <1>2, <1>3 DEF Checkin, IInv, TypeOK
<1>5. \A d \in Cascades : holds'[d] = IF d = c THEN 0 ELSE holds[d]
  BY <1>2 DEF IInv, TypeOK
<1>6. InPool(c) = {} /\ c \in seen
  BY <1>2 DEF IInv, Exclusive, Unopened
<1>7. InPool(c)' \subseteq {fp}
  BY <1>1, <1>6 DEF InPool
<1>8. \A d \in Cascades \ {c} : InPool(d)' \subseteq InPool(d)
  BY <1>1, <1>3 DEF InPool
<1>9. Unopened'
  BY <1>5, <1>6, <1>8 DEF Checkin, IInv, Unopened
<1>10. Exclusive'
  BY <1>5, <1>7, <1>8 DEF IInv, Exclusive
<1> QED
  BY <1>4, <1>9, <1>10 DEF IInv

LEMMA CheckoutKeeps ==
  ASSUME IInv, NEW fp \in Fingerprints, Checkout(fp)
  PROVE  IInv'
<1>1. CASE ~FreshEnough(fp)
  BY <1>1, Forgetting DEF Checkout, IInv, TypeOK
<1>2. CASE FreshEnough(fp)
  <2> DEFINE c == entries[fp].cascade
  <2>1. fp \in DOMAIN entries /\ c \in Cascades /\ fp \in InPool(c)
    BY DEF Checkout, IInv, TypeOK, Entry, InPool
  <2>2. InPool(c) = {fp} /\ holds[c] = 0 /\ c \in seen
    BY <2>1 DEF IInv, Exclusive, Unopened, TypeOK
  <2>3. holds' = [holds EXCEPT ![c] = 1]
    BY <1>2, <2>1, <2>2 DEF Checkout, IInv, TypeOK
  <2>4. DOMAIN entries' = DOMAIN entries \ {fp}
    BY DEF Checkout, Drop, Restrict
  <2>5. \A f \in DOMAIN entries' : entries'[f] = entries[f]
    BY DEF Checkout, Drop, Restrict
  <2>6. TypeOK'
    <3>1. holds' \in [Cascades -> Nat]
      BY <2>1, <2>3 DEF IInv, TypeOK
    <3>2. /\ DOMAIN entries' \subseteq Fingerprints
          /\ \A f \in DOMAIN entries' : entries'[f] \in Entry
      BY <2>4, <2>5 DEF IInv, TypeOK
    <3> QED
      BY <3>1, <3>2 DEF Checkout, IInv, TypeOK
  <2>7. \A d \in Cascades : holds'[d] = IF d = c THEN 1 ELSE holds[d]
    BY <2>3 DEF IInv, TypeOK
  <2>8. \A d \in Cascades : InPool(d)' \subseteq InPool(d) \ {fp}
    BY <2>4, <2>5 DEF InPool
  <2>9. Unopened'
    BY <2>2, <2>7, <2>8 DEF Checkout, IInv, Unopened
  <2>10. Exclusive'
    BY <2>2, <2>7, <2>8 DEF IInv, Exclusive
  <2> QED
    BY <2>6, <2>9, <2>10 DEF IInv
<1> QED
  BY <1>1, <1>2

LEMMA OpenKeeps ==
  ASSUME IInv, NEW c \in Cascades, Open(c)
  PROVE  IInv'
<1>1. holds[c] = 0 /\ InPool(c) = {}
  BY DEF Open, IInv, Unopened
<1>2. TypeOK'
  BY DEF Open, IInv, TypeOK
<1>3. \A d \in Cascades : holds'[d] = IF d = c THEN 1 ELSE holds[d]
  BY DEF Open, IInv, TypeOK
<1>4. \A d \in Cascades : InPool(d)' = InPool(d)
  BY DEF Open, InPool
<1>5. Unopened' /\ Exclusive'
  BY <1>1, <1>3, <1>4 DEF Open, IInv, Unopened, Exclusive
<1> QED
  BY <1>2, <1>5 DEF IInv

\* The three conjuncts are kept by every step.
LEMMA Invariance == Spec => []IInv
<1>1. Init => IInv
  BY DEF Init, IInv, TypeOK, Unopened, Exclusive, InPool
<1>2. ASSUME IInv, [Next]_vars PROVE IInv'
  <2>1. CASE UNCHANGED vars
    <3>1. \A c \in Cascades : InPool(c)' = InPool(c)
      BY <2>1 DEF vars, InPool
    <3> QED
      BY <1>2, <2>1, <3>1 DEF vars, IInv, TypeOK, Unopened, Exclusive
  <2>2. CASE \E c \in Cascades : Open(c) \/ LetGo(c)
    BY <1>2, <2>2, OpenKeeps, Releasing
  <2>3. CASE \E fp \in Fingerprints : Checkout(fp)
    BY <1>2, <2>3, CheckoutKeeps
  <2>4. CASE \E fp \in Fingerprints, c \in Cascades, key \in Accounts, port \in Ports :
               Checkin(fp, c, key, port)
    BY <1>2, <2>4, CheckinKeeps
  <2>5. CASE \E port \in Ports : InvalidateFor(port)
    BY <1>2, <2>5, Forgetting DEF InvalidateFor, IInv, TypeOK
  <2>6. CASE Clear
    BY <1>2, <2>6, Forgetting DEF Clear, IInv, TypeOK
  <2>7. CASE Tick
    <3>1. \A c \in Cascades : InPool(c)' = InPool(c)
      BY <2>7 DEF Tick, InPool
    <3> QED
      BY <1>2, <2>7, <3>1 DEF Tick, IInv, TypeOK, Unopened, Exclusive
  <2> QED
    BY <1>2, <2>1, <2>2, <2>3, <2>4, <2>5, <2>6, <2>7 DEF Next
<1> QED
  BY <1>1, <1>2, PTL DEF Spec

\* Whatever requests open, check out, check in, let go of and forget in whatever
\* order, a cascade is with one request or in the pool under one fingerprint
\* (Checkout deletes, Checkin gives up the hold).
THEOREM OnePlace == Spec => []Exclusive
<1>1. IInv => Exclusive
  BY DEF IInv
<1> QED
  BY <1>1, Invariance, PTL

\* Nobody resumes a cascade that lay in the pool for longer than the TTL: only
\* Checkout gives an opened cascade to a request, and it looks at the age.
THEOREM NoStaleResume == Spec => NeverResumedStale
<1> DEFINE Resumed(c) == holds'[c] > holds[c] /\ c \in seen
           Young(c) == \E f \in InPool(c) : now - entries[f].last <= TTL
<1>1. ASSUME TypeOK, [Next]_vars, NEW c \in Cascades, Resumed(c) PROVE Young(c)
  <2>1. ~UNCHANGED holds
    BY <1>1 DEF TypeOK
  <2>2. ASSUME NEW d \in Cascades, Open(d) PROVE FALSE
    BY <1>1, <2>2 DEF Open, TypeOK
  <2>3. ASSUME NEW d \in Cascades, holds' = [holds EXCEPT ![d] = @ - 1] PROVE FALSE
    <3>1. holds'[c] = holds[c] \/ holds'[c] = holds[c] - 1
      BY <2>3 DEF TypeOK
    <3>2. holds[c] \in Nat
      BY <1>1 DEF TypeOK
    <3> QED
      BY <1>1, <3>1, <3>2
  <2>4. ASSUME NEW fp \in Fingerprints, Checkout(fp) PROVE Young(c)
    <3>1. FreshEnough(fp) /\ holds' = [holds EXCEPT ![entries[fp].cascade] = @ + 1]
      BY <2>1, <2>4 DEF Checkout
    <3>2. c = entries[fp].cascade
      BY <1>1, <3>1 DEF TypeOK
    <3> QED
      BY <3>1, <3>2 DEF FreshEnough, InPool
  <2>5. \/ \E d \in Cascades : Open(d) \/ holds' = [holds EXCEPT ![d] = @ - 1]
        \/ \E fp \in Fingerprints : Checkout(fp)
    <3>1. CASE \E d \in Cascades : Open(d) \/ LetGo(d)
      BY <3>1 DEF LetGo
    <3>2. CASE \E fp \in Fingerprints, d \in Cascades, key \in Accounts, port \in Ports :
                 Checkin(fp, d, key, port)
      BY <3>2 DEF Checkin
    <3> QED
      BY <1>1, <2>1, <3>1, <3>2 DEF Next, vars, InvalidateFor, Clear, Tick
  <2> QED
    BY <2>2, <2>3, <2>4, <2>5
<1>2. TypeOK /\ [Next]_vars => [\A c \in Cascades : Resumed(c) => Young(c)]_vars
  BY <1>1
<1>3. IInv => TypeOK
  BY DEF IInv
<1> QED
  BY <1>2, <1>3, Invariance, PTL DEF Spec, NeverResumedStale

\* The table and the holds stay what they are meant to be, whatever is evicted.
THEOREM WellTyped == Spec => []TypeOK
<1>1. IInv => TypeOK
  BY DEF IInv
<1> QED BY <1>1, Invariance, PTL

-----------------------------------------------------------------------------
(* Eviction. *)

\* The pool never holds more than max_ entries.
Bounded == IsFiniteSet(DOMAIN entries) /\ Cardinality(DOMAIN entries) <= Capacity

\* Checkin adds one entry and evicts one of the oldest exactly if that is one
\* too many, which an entry that replaces another never is.
LEMMA CheckinBounded ==
  ASSUME Bounded, NEW fp, NEW e, entries' \in Stored(fp, e)
  PROVE  /\ Bounded'
         /\ \/ DOMAIN entries' = DOMAIN entries \cup {fp}
            \/ /\ fp \notin DOMAIN entries
               /\ \E f \in OldestOf(With(fp, e)) :
                    DOMAIN entries' = (DOMAIN entries \cup {fp}) \ {f}
<1> DEFINE full == With(fp, e)
           D == DOMAIN entries
           F == D \cup {fp}
<1>1. DOMAIN full = F
  BY DEF With
<1>2. IsFiniteSet(D) /\ Cardinality(D) \in Nat /\ Cardinality(D) <= Capacity /\ Capacity \in Nat
  BY FS_CardinalityType, LimitsAssumption DEF Bounded
<1>3. /\ IsFiniteSet(F)
      /\ Cardinality(F) = IF fp \in D THEN Cardinality(D) ELSE Cardinality(D) + 1
  <2> HIDE DEF D
  <2> QED BY <1>2, FS_AddElement
<1>4. CASE Cardinality(F) <= Capacity
  <2>1. entries' = full
    <3>1. ~(Cardinality(DOMAIN full) > Capacity)
      <4>1. Cardinality(F) \in Nat
        BY <1>2, <1>3
      <4> QED BY <1>1, <1>2, <1>4, <4>1
    <3> QED BY <3>1 DEF Stored
  <2> QED BY <1>1, <1>3, <1>4, <2>1 DEF Bounded
<1>5. CASE ~(Cardinality(F) <= Capacity)
  <2>1. fp \notin D /\ Cardinality(F) = Cardinality(D) + 1
    BY <1>2, <1>3, <1>5
  <2>2. Cardinality(DOMAIN full) > Capacity
    BY <1>1, <1>2, <1>5, <2>1
  <2>3. PICK f \in OldestOf(full) : entries' = Restrict(full, DOMAIN full \ {f})
    BY <2>2 DEF Stored
  <2>4. f \in F /\ DOMAIN entries' = F \ {f}
    BY <1>1, <2>3 DEF OldestOf, Restrict
  <2>5. IsFiniteSet(F \ {f}) /\ Cardinality(F \ {f}) = Cardinality(F) - 1
    <3> HIDE DEF F
    <3> QED BY <1>3, <2>4, FS_RemoveElement
  <2>6. Cardinality(F \ {f}) <= Capacity
    <3> HIDE DEF F, D
    <3> QED BY <1>2, <2>1, <2>5
  <2> QED BY <2>1, <2>3, <2>4, <2>5, <2>6 DEF Bounded
<1> QED BY <1>4, <1>5

\* Every other step only takes entries away.
LEMMA OthersShrink ==
  ASSUME [Next]_vars,
         ~\E fp \in Fingerprints, c \in Cascades, key \in Accounts, port \in Ports :
            Checkin(fp, c, key, port)
  PROVE  DOMAIN entries' \subseteq DOMAIN entries
  BY DEF Next, vars, Open, LetGo, Checkout, InvalidateFor, Clear, Tick, Drop, Restrict

\* See Bounded.
LEMMA CapacityKept == Spec => []Bounded
<1>1. Init => Bounded
  <2>1. Init => DOMAIN entries = {}
    BY DEF Init
  <2> QED BY <2>1, FS_EmptySet, LimitsAssumption DEF Bounded
<1>2. ASSUME Bounded, [Next]_vars PROVE Bounded'
  <2>1. CASE \E fp \in Fingerprints, c \in Cascades, key \in Accounts, port \in Ports :
               Checkin(fp, c, key, port)
    BY <1>2, <2>1, CheckinBounded DEF Checkin
  <2>2. CASE DOMAIN entries' \subseteq DOMAIN entries
    <3>1. /\ IsFiniteSet(DOMAIN entries')
          /\ Cardinality(DOMAIN entries') <= Cardinality(DOMAIN entries)
      BY <1>2, <2>2, FS_Subset DEF Bounded
    <3>2. Cardinality(DOMAIN entries') \in Nat /\ Cardinality(DOMAIN entries) \in Nat
      BY <1>2, <3>1, FS_CardinalityType DEF Bounded
    <3> QED BY <1>2, <3>1, <3>2, LimitsAssumption DEF Bounded
  <2> QED BY <1>2, <2>1, <2>2, OthersShrink
<1> QED BY <1>1, <1>2, PTL DEF Spec

\* A full pool makes room by forgetting one conversation, the one idle the
\* longest, and a conversation stored again pushes no other out (Checkin).
THEOREM OldestForgotten == Spec => EvictsOldest
<1> DEFINE gone == DOMAIN entries \ DOMAIN entries'
           Evicted(fp) == /\ Cardinality(DOMAIN entries') <= Capacity
                          /\ Cardinality(gone) <= 1
                          /\ \A f \in gone, g \in DOMAIN entries' :
                               g # fp => entries[f].last <= entries[g].last
<1>1. ASSUME Bounded, NEW fp \in Fingerprints, NEW c \in Cascades, NEW key \in Accounts,
             NEW port \in Ports, Checkin(fp, c, key, port)
      PROVE  Evicted(fp)
  <2> DEFINE e == [cascade |-> c, key |-> key, port |-> port, last |-> now]
  <2>1. entries' \in Stored(fp, e)
    BY <1>1 DEF Checkin
  <2>2. Cardinality(DOMAIN entries') <= Capacity
    BY <1>1, <2>1, CheckinBounded DEF Bounded
  <2>3. CASE DOMAIN entries' = DOMAIN entries \cup {fp}
    <3>1. gone = {}
      BY <2>3
    <3> HIDE DEF gone
    <3> QED BY <2>2, <3>1, FS_EmptySet
  <2>4. ASSUME fp \notin DOMAIN entries,
               NEW f \in OldestOf(With(fp, e)),
               DOMAIN entries' = (DOMAIN entries \cup {fp}) \ {f}
        PROVE  Evicted(fp)
    <3>1. gone \subseteq {f}
      BY <2>4
    <3>2. Cardinality(gone) <= 1
      <4>1. IsFiniteSet({f}) /\ Cardinality({f}) = 1
        BY FS_Singleton
      <4>2. Cardinality(gone) <= Cardinality({f})
        <5> HIDE DEF gone
        <5> QED BY <3>1, <4>1, FS_Subset
      <4> HIDE DEF gone
      <4> QED BY <4>1, <4>2
    <3>3. ASSUME NEW h \in gone, NEW g \in DOMAIN entries', g # fp
          PROVE  entries[h].last <= entries[g].last
      <4>1. h = f /\ h # fp /\ h \in DOMAIN entries /\ g \in DOMAIN entries
        BY <2>4, <3>1, <3>3
      <4>2. With(fp, e)[h].last <= With(fp, e)[g].last
        BY <4>1 DEF OldestOf, With
      <4> QED BY <3>3, <4>1, <4>2 DEF With
    <3> QED BY <2>2, <3>2, <3>3
  <2> QED BY <1>1, <2>1, <2>3, <2>4, CheckinBounded
<1>2. Bounded => [\A fp \in Fingerprints, c \in Cascades, key \in Accounts, port \in Ports :
                    Checkin(fp, c, key, port) => Evicted(fp)]_vars
  BY <1>1
<1> QED BY <1>2, CapacityKept, PTL DEF EvictsOldest
===============================================================================
