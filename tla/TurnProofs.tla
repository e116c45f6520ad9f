----------------------------- MODULE TurnProofs -----------------------------
(***************************************************************************)
(* Theorems about the parts of a turn, for any number of calls, keys,      *)
(* sessions, cascades and steps, and any limits: the opening of cascades   *)
(* (CascadeOpen), the response cache (ResponseCache), the poll loop        *)
(* (CascadePoll), and the behaviours of MCConvPool, which are those of     *)
(* one of them.  Each part has an invariant that its steps keep, OpenInv,  *)
(* CacheInv and PollInv; the properties follow from it.                    *)
(***************************************************************************)
EXTENDS MCConvPool, FiniteSetTheorems, SequenceTheorems, WellFoundedInduction, TLAPS

\* What induction over numbers comes to here: a set of numbers has a least one.
LEMMA LeastOf ==
  ASSUME NEW T \in SUBSET Nat, T # {}
  PROVE  \E t \in T : \A u \in T : t <= u
<1>1. PICK t \in T : \A u \in T : ~(<<u, t>> \in OpToRel(<, Nat))
  BY NatLessThanWellFounded, WFMin
<1>2. ASSUME NEW u \in T PROVE t <= u
  <2>1. u \in Nat /\ t \in Nat
    OBVIOUS
  <2>2. ~(<<u, t>> \in OpToRel(<, Nat))
    BY <1>1
  <2>3. ~(u < t)
    BY <2>1, <2>2 DEF OpToRel
  <2> QED BY <2>1, <2>3
<1> QED BY <1>2

-----------------------------------------------------------------------------
-----------------------------------------------------------------------------
(* Opening and resuming cascades.                                          *)

\* What a call may rely on, whichever recovery it went through, when the server has
\* told the cascades in sp.
Fits(q, sp) ==
  /\ q.pc = "idle" => q = CO!NoCall
  /\ q.pc \in {"warm", "init", "session", "reset"} => q.session = None
  /\ q.given = IF q.pc = "poll" THEN 1 ELSE 0
  /\ q.reuse # None => q.reuse \in sp /\ q.text # "all" /\ q.cascade \in {None, q.reuse}
  /\ q.reuse = None => q.text # "last"
  /\ q.pc \in {"open", "send", "poll"} => q.session # None
  /\ q.pc \in {"send", "poll"} => q.cascade # None /\ q.text # None
  /\ q.pc = "send" /\ q.reuse = None => q.cascade \notin sp
  /\ q.pc = "poll" => q.cascade \in sp

Fitting == \A c \in Callers : Fits(opening[c], spoken)

\* A cascade is with one call, or with the conversation pool.
Ids(q) == {q.reuse, q.cascade} \ {None}
Apart ==
  /\ \A c, d \in Callers : c # d => Ids(opening[c]) \cap Ids(opening[d]) = {}
  /\ \A k \in kept, c \in Callers : k.cascade \notin Ids(opening[c])
  /\ \A k, l \in kept : k.cascade = l.cascade => k = l

\* What is kept was answered.
Answered == \A k \in kept : k.cascade \in spoken

OpenInv == CO!TypeOK /\ Fitting /\ Apart /\ Answered

-----------------------------------------------------------------------------
LEMMA OpenStarts == ASSUME CO!OpenAssumption, CO!Init PROVE OpenInv
<1>1. entry.session \in Sessions
  BY DEF CO!Init, CO!OpenAssumption
<1>2. CO!TypeOK
  BY <1>1 DEF CO!Init, CO!OpenAssumption, CO!TypeOK, CO!Calls, CO!NoCall, CO!Arrived
<1>3. Fitting
  BY DEF CO!Init, CO!OpenAssumption, Fitting, Fits, CO!NoCall, CO!Arrived
<1>4. Apart /\ Answered
  BY DEF CO!Init, Apart, Ids, Answered, CO!NoCall, CO!Arrived
<1> QED BY <1>2, <1>3, <1>4 DEF OpenInv

-----------------------------------------------------------------------------
(* A step gives one opening, c, the locals q.                                  *)

\* In use are the cascades of the calls and those of the pool.
LEMMA InUse ==
  ASSUME NEW x, x # None
  PROVE  x \in CO!UsedCascades <=>
           (\E d \in Callers : x \in Ids(opening[d])) \/ (\E k \in kept : k.cascade = x)
  BY DEF CO!UsedCascades, Ids

\* Steps that move no cascade.
LEMMA Quiet ==
  ASSUME CO!OpenAssumption, OpenInv, NEW c \in Callers, NEW q \in CO!Calls, opening' = [opening EXCEPT ![c] = q],
         Ids(q) = Ids(opening[c]), Fits(q, spoken), UNCHANGED <<spoken, kept>>
  PROVE  Fitting' /\ Apart' /\ Answered' /\ spoken' \subseteq CO!UsedCascades' \cap Cascades
<1>0. \A d \in Callers : opening'[d] = IF d = c THEN q ELSE opening[d]
  BY DEF OpenInv, CO!TypeOK
<1>1. Fitting'
  BY <1>0 DEF OpenInv, Fitting
<1>2. \A d \in Callers : Ids(opening'[d]) = Ids(opening[d])
  BY <1>0
<1>3. Apart'
  BY <1>2 DEF OpenInv, Apart
<1>4. Answered'
  BY DEF OpenInv, Answered
<1>5. ASSUME NEW x \in spoken PROVE x \in CO!UsedCascades'
  <2>1. x # None
    BY DEF OpenInv, CO!TypeOK, CO!OpenAssumption
  <2>2. (\E d \in Callers : x \in Ids(opening[d])) \/ (\E k \in kept : k.cascade = x)
    BY <2>1, InUse DEF OpenInv, CO!TypeOK
  <2> QED BY <1>2, <2>1, <2>2 DEF CO!UsedCascades, Ids
<1> QED BY <1>1, <1>3, <1>4, <1>5 DEF OpenInv, CO!TypeOK

\* Steps that tell cascades of c, let some go, or open one.
LEMMA Telling ==
  ASSUME OpenInv, NEW c \in Callers, NEW q \in CO!Calls, opening' = [opening EXCEPT ![c] = q],
         NEW S, S \subseteq Ids(opening[c]),
         Ids(q) \subseteq Ids(opening[c]) \cup (Cascades \ CO!UsedCascades),
         spoken' = (spoken \cup S) \cap CO!UsedCascades', Fits(q, spoken'), kept' = kept
  PROVE  Fitting' /\ Apart' /\ Answered'
<1>0. \A d \in Callers : opening'[d] = IF d = c THEN q ELSE opening[d]
  BY DEF OpenInv, CO!TypeOK
<1>1. ASSUME NEW d \in Callers, d # c PROVE Fits(opening'[d], spoken')
  <2>1. Fits(opening[d], spoken) /\ opening'[d] = opening[d]
    BY <1>0, <1>1 DEF OpenInv, Fitting
  <2>2. S \cap Ids(opening[d]) = {}
    BY <1>1 DEF OpenInv, Apart
  <2>3. opening[d].reuse \in CO!UsedCascades' /\ opening[d].cascade \in CO!UsedCascades'
    BY <2>1 DEF CO!UsedCascades
  <2> QED BY <2>1, <2>2, <2>3 DEF Fits, Ids
<1>2. Fitting'
  BY <1>0, <1>1 DEF Fitting
<1>3. ASSUME NEW d \in Callers, d # c PROVE Ids(q) \cap Ids(opening[d]) = {}
  <2>1. Ids(opening[c]) \cap Ids(opening[d]) = {}
    BY <1>3 DEF OpenInv, Apart
  <2>2. Ids(opening[d]) \subseteq CO!UsedCascades
    BY DEF Ids, CO!UsedCascades
  <2> QED BY <2>1, <2>2
<1>4. ASSUME NEW k \in kept PROVE k.cascade \notin Ids(q)
  BY <1>4 DEF OpenInv, Apart, Ids, CO!UsedCascades
<1>5. Apart'
  BY <1>0, <1>3, <1>4 DEF OpenInv, Apart
<1>6. Answered'
  BY DEF OpenInv, Answered, CO!UsedCascades
<1> QED BY <1>2, <1>5, <1>6

-----------------------------------------------------------------------------
(* The steps.                                                              *)

\* The panels are those of sessions in use as long as no session is dropped.
LEMMA Sessioned ==
  ASSUME OpenInv, NEW c \in Callers, NEW q \in CO!Calls, opening' = [opening EXCEPT ![c] = q],
         q.own = opening[c].own, q.session = opening[c].session \/ opening[c].session = None,
         entry'.session = entry.session, kept' = kept, None \notin Sessions
  PROVE  CO!UsedSessions \cap Sessions \subseteq CO!UsedSessions'
<1>0. \A d \in Callers : opening'[d] = IF d = c THEN q ELSE opening[d]
  BY DEF OpenInv, CO!TypeOK
<1> QED BY <1>0 DEF CO!UsedSessions

LEMMA WarmEnterKeeps ==
  ASSUME CO!OpenAssumption, OpenInv, NEW c \in Callers, CO!WarmEnter(c) PROVE OpenInv'
<1>1. PICK to \in {"session", "init"} : opening' = CO!Goes(c, to) /\ (to = "init" <=> ~entry.warm)
  BY DEF CO!WarmEnter
<1> DEFINE q == [opening[c] EXCEPT !.pc = to]
<1>2. q \in CO!Calls /\ opening' = [opening EXCEPT ![c] = q] /\ opening[c] \in CO!Calls
  BY <1>1 DEF OpenInv, CO!TypeOK, CO!Calls, CO!Goes
<1>3. Fits(q, spoken)
  BY <1>2 DEF OpenInv, Fitting, Fits, CO!WarmEnter, CO!Calls
<1>4. Ids(q) = Ids(opening[c])
  BY <1>2 DEF Ids, CO!Calls
<1>5. UNCHANGED <<panels, spoken, kept>> /\ entry'.session = entry.session
  BY DEF CO!WarmEnter, OpenInv, CO!TypeOK
<1>6. Fitting' /\ Apart' /\ Answered' /\ spoken' \subseteq CO!UsedCascades' \cap Cascades
  BY <1>2, <1>3, <1>4, <1>5, Quiet
<1>7. CO!TypeOK'
  <2>1. opening' \in [Callers -> CO!Calls] /\ kept' = kept /\ spoken' = spoken
    BY <1>2, <1>5 DEF OpenInv, CO!TypeOK
  <2>2. entry' \in [session : Sessions, warm : BOOLEAN, holder : Callers \cup {None}]
    BY DEF CO!WarmEnter, OpenInv, CO!TypeOK
  <2>3. \A d \in Callers : opening'[d].pc = "init" <=> entry'.holder = d
    BY <1>1, <1>2, CO!OpenAssumption DEF CO!WarmEnter, OpenInv, CO!TypeOK, CO!GateFree, CO!OpenAssumption
  <2>4. panels' \subseteq CO!UsedSessions' \cap Sessions
    BY <1>2, <1>5, Sessioned DEF OpenInv, CO!TypeOK, CO!OpenAssumption, CO!Calls
  <2> QED BY <1>6, <2>1, <2>2, <2>3, <2>4 DEF OpenInv, CO!TypeOK
<1> QED BY <1>6, <1>7 DEF OpenInv

\* The gate is as it was: call c neither entered nor left it.
LEMMA GateKept ==
  ASSUME OpenInv, NEW c \in Callers, NEW q \in CO!Calls, opening' = [opening EXCEPT ![c] = q],
         q.pc # "init", opening[c].pc # "init", entry'.holder = entry.holder
  PROVE  \A d \in Callers : opening'[d].pc = "init" <=> entry'.holder = d
  BY DEF OpenInv, CO!TypeOK

LEMMA StartKeeps ==
  ASSUME CO!OpenAssumption, OpenInv, NEW c \in Callers, CO!Start(c) PROVE OpenInv'
<1>0. opening[c] = CO!NoCall /\ opening[c] \in CO!Calls /\ UNCHANGED <<entry, panels, spoken>>
  BY DEF OpenInv, Fitting, Fits, CO!TypeOK, CO!Start
<1>1. CASE opening' = CO!Goes(c, "warm") /\ UNCHANGED kept
  <2> DEFINE q == [opening[c] EXCEPT !.pc = "warm"]
  <2>1. q \in CO!Calls /\ opening' = [opening EXCEPT ![c] = q] /\ q.pc # "init" /\ opening[c].pc # "init"
    BY <1>0, <1>1 DEF CO!Goes, CO!Calls, CO!NoCall, CO!Arrived
  <2>2. Fits(q, spoken) /\ Ids(q) = Ids(opening[c])
    BY <1>0, CO!OpenAssumption DEF Fits, Ids, CO!NoCall, CO!Arrived, CO!OpenAssumption
  <2>3. Fitting' /\ Apart' /\ Answered' /\ spoken' \subseteq CO!UsedCascades' \cap Cascades
    BY <1>0, <1>1, <2>1, <2>2, Quiet
  <2>4. panels' \subseteq CO!UsedSessions'
    BY <1>0, <1>1, <2>1, Sessioned DEF OpenInv, CO!TypeOK, CO!OpenAssumption, CO!Calls
  <2>5. CO!TypeOK'
    BY <1>0, <1>1, <2>1, <2>3, <2>4, GateKept DEF OpenInv, CO!TypeOK
  <2> QED BY <2>3, <2>5 DEF OpenInv
<1>2. ASSUME NEW k \in kept, kept' = kept \ {k},
             opening' = [opening EXCEPT ![c] = CO!Arrived("warm", k.cascade, k.session)]
      PROVE  OpenInv'
  <2> DEFINE q == CO!Arrived("warm", k.cascade, k.session)
  <2>0. k \in [cascade : Cascades, session : Sessions]
    BY DEF OpenInv, CO!TypeOK
  <2>1. q \in CO!Calls /\ opening' = [opening EXCEPT ![c] = q] /\ q.pc # "init" /\ opening[c].pc # "init"
    <3>2. q \in CO!Calls
      BY <2>0 DEF CO!Calls, CO!Arrived
    <3>3. q.pc = "warm" /\ opening[c].pc = "idle"
      BY <1>0 DEF CO!NoCall, CO!Arrived
    <3> QED BY <1>2, <3>2, <3>3
  <2>2. \A d \in Callers : opening'[d] = IF d = c THEN q ELSE opening[d]
    BY <2>1 DEF OpenInv, CO!TypeOK
  <2>3. Fits(q, spoken) /\ Ids(q) = {k.cascade} /\ Ids(opening[c]) = {}
    BY <1>0, <2>0, CO!OpenAssumption DEF OpenInv, Answered, Fits, Ids, CO!NoCall, CO!Arrived, CO!OpenAssumption
  <2>4. Fitting'
    BY <1>0, <2>2, <2>3 DEF OpenInv, Fitting
  <2>5. Apart'
    BY <1>2, <2>2, <2>3 DEF OpenInv, Apart
  <2>6. Answered'
    BY <1>0, <1>2 DEF OpenInv, Answered
  <2>7. panels' \subseteq CO!UsedSessions'
    <3>1. q.own = k.session /\ opening[c].own = None /\ opening[c].session = None
      BY <1>0 DEF CO!NoCall, CO!Arrived
    <3>2. \A s \in CO!UsedSessions \cap Sessions : s \in CO!UsedSessions'
      <4> HIDE DEF q
      <4>1. TAKE s \in CO!UsedSessions \cap Sessions
      <4>2. s # None
        BY CO!OpenAssumption DEF CO!OpenAssumption
      <4>3. CASE s = entry.session
        BY <1>0, <4>3 DEF CO!UsedSessions
      <4>4. CASE \E d \in Callers : s = opening[d].own \/ s = opening[d].session
        <5>1. PICK d \in Callers : s = opening[d].own \/ s = opening[d].session
          BY <4>4
        <5>2. d # c
          BY <5>1, <3>1, <4>2
        <5> QED BY <5>1, <5>2, <2>2 DEF CO!UsedSessions
      <4>5. CASE \E l \in kept : s = l.session
        <5>1. PICK l \in kept : s = l.session
          BY <4>5
        <5>2. CASE l = k
          BY <5>1, <5>2, <3>1, <2>2 DEF CO!UsedSessions
        <5>3. CASE l # k
          BY <5>1, <5>3, <1>2 DEF CO!UsedSessions
        <5> QED BY <5>2, <5>3
      <4> QED BY <4>1, <4>3, <4>4, <4>5 DEF CO!UsedSessions
    <3> QED BY <1>0, <3>2 DEF OpenInv, CO!TypeOK
  <2>8. spoken' \subseteq CO!UsedCascades'
    <3>1. q.reuse = k.cascade /\ opening[c].reuse = None /\ opening[c].cascade = None
      BY <1>0 DEF CO!NoCall, CO!Arrived
    <3>2. \A x \in CO!UsedCascades \cap Cascades : x \in CO!UsedCascades'
      <4> HIDE DEF q
      <4>1. TAKE x \in CO!UsedCascades \cap Cascades
      <4>2. x # None
        BY CO!OpenAssumption DEF CO!OpenAssumption
      <4>3. CASE \E d \in Callers : x = opening[d].reuse \/ x = opening[d].cascade
        <5>1. PICK d \in Callers : x = opening[d].reuse \/ x = opening[d].cascade
          BY <4>3
        <5>2. d # c
          BY <5>1, <3>1, <4>2
        <5> QED BY <5>1, <5>2, <2>2 DEF CO!UsedCascades
      <4>4. CASE \E l \in kept : x = l.cascade
        <5>1. PICK l \in kept : x = l.cascade
          BY <4>4
        <5>2. CASE l = k
          BY <5>1, <5>2, <3>1, <2>2 DEF CO!UsedCascades
        <5>3. CASE l # k
          BY <5>1, <5>3, <1>2 DEF CO!UsedCascades
        <5> QED BY <5>2, <5>3
      <4> QED BY <4>1, <4>3, <4>4 DEF CO!UsedCascades
    <3> QED BY <1>0, <3>2 DEF OpenInv, CO!TypeOK
  <2>9. CO!TypeOK'
    BY <1>0, <1>2, <2>1, <2>7, <2>8, GateKept DEF OpenInv, CO!TypeOK
  <2> QED BY <2>4, <2>5, <2>6, <2>9 DEF OpenInv
<1> QED BY <1>1, <1>2 DEF CO!Start

LEMMA WarmInitKeeps ==
  ASSUME CO!OpenAssumption, OpenInv, NEW c \in Callers, CO!WarmInit(c) PROVE OpenInv'
<1> DEFINE q == [opening[c] EXCEPT !.pc = "session"]
<1>1. q \in CO!Calls /\ opening' = [opening EXCEPT ![c] = q] /\ opening[c] \in CO!Calls
  BY DEF OpenInv, CO!TypeOK, CO!Calls, CO!Goes, CO!WarmInit
<1>2. Fits(q, spoken) /\ Ids(q) = Ids(opening[c])
  BY <1>1 DEF OpenInv, Fitting, Fits, CO!WarmInit, CO!Calls, Ids
<1>3. Fitting' /\ Apart' /\ Answered' /\ spoken' \subseteq CO!UsedCascades' \cap Cascades
  BY <1>1, <1>2, Quiet DEF CO!WarmInit
<1>4. entry'.session = entry.session /\ UNCHANGED <<spoken, kept>>
  BY DEF CO!WarmInit, OpenInv, CO!TypeOK
<1>5. panels' \subseteq CO!UsedSessions' \cap Sessions
  <2>1. CO!UsedSessions \cap Sessions \subseteq CO!UsedSessions'
    BY <1>1, <1>4, Sessioned DEF CO!OpenAssumption, CO!Calls
  <2>2. entry.session \in CO!UsedSessions \cap Sessions
    BY DEF CO!UsedSessions, OpenInv, CO!TypeOK
  <2> QED BY <2>1, <2>2 DEF CO!WarmInit, OpenInv, CO!TypeOK
<1>6. \A d \in Callers : opening'[d].pc = "init" <=> entry'.holder = d
  BY <1>1 DEF CO!WarmInit, OpenInv, CO!TypeOK, CO!OpenAssumption, CO!Calls
<1>7. entry' \in [session : Sessions, warm : BOOLEAN, holder : Callers \cup {None}]
  BY DEF CO!WarmInit, OpenInv, CO!TypeOK
<1>8. CO!TypeOK'
  BY <1>1, <1>3, <1>4, <1>5, <1>6, <1>7 DEF OpenInv, CO!TypeOK
<1> QED BY <1>3, <1>8 DEF OpenInv

LEMMA TakeSessionKeeps ==
  ASSUME CO!OpenAssumption, OpenInv, NEW c \in Callers, CO!TakeSession(c) PROVE OpenInv'
<1> DEFINE s == IF opening[c].own # None THEN opening[c].own ELSE entry.session
           q == [opening[c] EXCEPT !.session = s, !.pc = "open"]
<1>0. opening[c] \in CO!Calls /\ s \in Sessions
  BY DEF OpenInv, CO!TypeOK, CO!Calls
<1>1. q \in CO!Calls /\ opening' = [opening EXCEPT ![c] = q] /\ opening[c] \in CO!Calls
  <2>1. q \in CO!Calls
    BY <1>0 DEF CO!Calls
  <2>2. opening' = [opening EXCEPT ![c] = q]
    BY <1>0 DEF CO!TakeSession, CO!Calls, OpenInv, CO!TypeOK
  <2> QED BY <1>0, <2>1, <2>2
<1>2. Fits(q, spoken) /\ Ids(q) = Ids(opening[c]) /\ opening[c].session = None
  BY <1>0 DEF OpenInv, Fitting, Fits, CO!TakeSession, CO!Calls, Ids, CO!OpenAssumption
<1>3. UNCHANGED <<entry, panels, spoken, kept>> /\ q.pc # "init" /\ opening[c].pc # "init"
  BY <1>1 DEF CO!TakeSession, CO!Calls
<1>4. Fitting' /\ Apart' /\ Answered' /\ spoken' \subseteq CO!UsedCascades' \cap Cascades
  BY <1>1, <1>2, <1>3, Quiet
<1>5. panels' \subseteq CO!UsedSessions'
  <2>1. None \notin Sessions /\ q.own = opening[c].own
    BY <1>1, CO!OpenAssumption DEF CO!OpenAssumption, CO!Calls
  <2>2. CO!UsedSessions \cap Sessions \subseteq CO!UsedSessions'
    BY <1>1, <1>2, <1>3, <2>1, Sessioned
  <2> QED BY <1>3, <2>2 DEF OpenInv, CO!TypeOK
<1>6. CO!TypeOK'
  BY <1>1, <1>3, <1>4, <1>5, GateKept DEF OpenInv, CO!TypeOK
<1> QED BY <1>4, <1>6 DEF OpenInv

LEMMA ResumeKeeps ==
  ASSUME CO!OpenAssumption, OpenInv, NEW c \in Callers, CO!Resume(c) PROVE OpenInv'
<1>0. opening[c] \in CO!Calls /\ Fits(opening[c], spoken) /\ opening[c].pc = "open" /\ opening[c].reuse # None
  BY DEF OpenInv, CO!TypeOK, Fitting, CO!Resume
<1> DEFINE q == [opening[c] EXCEPT !.pc = "send", !.cascade = opening[c].reuse, !.text = CO!Payload(opening[c])]
<1>1. CO!Payload(opening[c]) = "last"
  BY <1>0 DEF CO!Payload, Fits, CO!Calls
<1>2. q \in CO!Calls
  BY <1>0, <1>1 DEF CO!Calls
<1>3. opening' = [opening EXCEPT ![c] = q]
  BY <1>0 DEF OpenInv, CO!TypeOK, CO!Calls, CO!Resume, CO!Ready
<1>4. Ids(q) = Ids(opening[c])
  BY <1>0 DEF Fits, Ids, CO!Calls
<1>5. Fits(q, spoken)
  BY <1>0, <1>1 DEF Fits, CO!Calls, CO!OpenAssumption
<1>6. UNCHANGED <<entry, panels, spoken, kept>> /\ q.pc # "init" /\ opening[c].pc # "init"
  BY <1>0 DEF CO!Resume, CO!Calls
<1>7. Fitting' /\ Apart' /\ Answered' /\ spoken' \subseteq CO!UsedCascades' \cap Cascades
  BY <1>2, <1>3, <1>4, <1>5, <1>6, Quiet
<1>8. panels' \subseteq CO!UsedSessions'
  BY <1>0, <1>2, <1>3, <1>6, Sessioned DEF OpenInv, CO!TypeOK, CO!OpenAssumption, CO!Calls
<1>9. CO!TypeOK'
  BY <1>2, <1>3, <1>6, <1>7, <1>8, GateKept DEF OpenInv, CO!TypeOK
<1> QED BY <1>7, <1>9 DEF OpenInv

\* What the steps with Unreferenced have in common, Finish aside: nothing is kept or
\* resumed, and the cascades in S are told.
LEMMA ToldKeeps ==
  ASSUME CO!OpenAssumption, OpenInv, NEW c \in Callers, NEW q \in CO!Calls, opening' = [opening EXCEPT ![c] = q],
         NEW S, S \subseteq Ids(opening[c]),
         Ids(q) \subseteq Ids(opening[c]) \cup (Cascades \ CO!UsedCascades),
         CO!Unreferenced(spoken \cup S), Fits(q, spoken'), kept' = kept,
         q.pc # "init", opening[c].pc # "init", entry'.holder = entry.holder,
         entry' \in [session : Sessions, warm : BOOLEAN, holder : Callers \cup {None}]
  PROVE  OpenInv'
<1>1. Fitting' /\ Apart' /\ Answered'
  BY Telling DEF CO!Unreferenced
<1>2. panels' \subseteq CO!UsedSessions' \cap Sessions
  BY DEF CO!Unreferenced, OpenInv, CO!TypeOK
<1>3. spoken' \subseteq CO!UsedCascades' \cap Cascades
  <2>1. S \subseteq Cascades
    BY DEF OpenInv, CO!TypeOK, CO!Calls, Ids
  <2> QED BY <2>1 DEF CO!Unreferenced, OpenInv, CO!TypeOK
<1>4. CO!TypeOK'
  BY <1>2, <1>3, GateKept DEF OpenInv, CO!TypeOK
<1> QED BY <1>1, <1>4 DEF OpenInv

\* A call that is over is with no cascade.
LEMMA Gone ==
  ASSUME CO!OpenAssumption, NEW sp
  PROVE  CO!NoCall \in CO!Calls /\ Ids(CO!NoCall) = {} /\ Fits(CO!NoCall, sp) /\ CO!NoCall.pc = "idle"
  BY DEF CO!OpenAssumption, CO!NoCall, CO!Arrived, CO!Calls, Ids, Fits

LEMMA ReturnKeeps ==
  ASSUME CO!OpenAssumption, OpenInv, NEW c \in Callers, opening[c].pc # "init", CO!Returns(c) = opening',
         NEW S, S \subseteq Ids(opening[c]), CO!Unreferenced(spoken \cup S), UNCHANGED <<entry, kept>>
  PROVE  OpenInv'
<1>1. opening' = [opening EXCEPT ![c] = CO!NoCall]
  BY DEF CO!Returns
<1>2. entry' \in [session : Sessions, warm : BOOLEAN, holder : Callers \cup {None}]
  BY DEF OpenInv, CO!TypeOK
<1> QED BY <1>1, <1>2, Gone, ToldKeeps

LEMMA OpenKeeps ==
  ASSUME CO!OpenAssumption, OpenInv, NEW c \in Callers, CO!Open(c) PROVE OpenInv'
<1>0. opening[c] \in CO!Calls /\ Fits(opening[c], spoken) /\ opening[c].pc = "open" /\ opening[c].reuse = None
  BY DEF OpenInv, CO!TypeOK, Fitting, CO!Open
<1>1. PICK k \in Cascades \ CO!UsedCascades : opening' \in {CO!Ready(c, k), CO!Returns(c)}
  BY DEF CO!Open
<1>2. UNCHANGED <<entry, kept>> /\ CO!Unreferenced(spoken \cup {})
  BY DEF CO!Open, CO!Unreferenced
<1>3. CASE opening' = CO!Returns(c)
  BY <1>0, <1>2, <1>3, ReturnKeeps
<1>4. CASE opening' = CO!Ready(c, k)
  <2> DEFINE q == [opening[c] EXCEPT !.pc = "send", !.cascade = k, !.text = CO!Payload(opening[c])]
  <2>1. CO!Payload(opening[c]) = "all"
    BY <1>0 DEF CO!Payload, Fits, CO!Calls
  <2>2. q \in CO!Calls
    BY <1>0, <2>1 DEF CO!Calls
  <2>3. opening' = [opening EXCEPT ![c] = q]
    <3>1. opening' = [opening EXCEPT ![c].pc = "send", ![c].cascade = k, ![c].text = CO!Payload(opening[c])]
      BY <1>4 DEF CO!Ready
    <3>2. opening \in [Callers -> CO!Calls]
      BY DEF OpenInv, CO!TypeOK
    <3> HIDE DEF OpenInv
    <3> QED BY <3>1, <3>2
  <2>4. Ids(q) \subseteq Cascades \ CO!UsedCascades
    BY <1>0 DEF Ids, CO!Calls
  <2>5. k \notin spoken' /\ k # None
    BY <1>2, CO!OpenAssumption DEF CO!OpenAssumption, CO!Unreferenced, OpenInv, CO!TypeOK
  <2>6. Fits(q, spoken')
    BY <1>0, <2>1, <2>5, CO!OpenAssumption DEF CO!OpenAssumption, Fits, CO!Calls
  <2>7. entry' \in [session : Sessions, warm : BOOLEAN, holder : Callers \cup {None}]
    BY <1>2 DEF OpenInv, CO!TypeOK
  <2>8. q.pc # "init" /\ opening[c].pc # "init"
    BY <1>0 DEF CO!Calls
  <2> QED BY <1>2, <2>2, <2>3, <2>4, <2>6, <2>7, <2>8, ToldKeeps
<1> QED BY <1>1, <1>3, <1>4

\* Back at the gate, a call resumes what it resumed before, or nothing.
LEMMA Rewarmed ==
  ASSUME CO!OpenAssumption, NEW q \in CO!Calls, NEW phase \in {"reopened", "resent"},
         NEW reuse \in {q.reuse, None}, NEW sp, Fits(q, sp), q.pc \in {"open", "send"},
         q.pc = "open" => q.reuse = None, reuse = q.reuse
  PROVE  LET r == CO!Rewarm(q, phase, reuse) IN
           /\ r \in CO!Calls /\ Ids(r) = Ids(q) /\ Fits(r, sp) /\ r.pc = "reset"
  BY DEF CO!OpenAssumption, CO!Rewarm, CO!Calls, Ids, Fits

LEMMA OpenMissingKeeps ==
  ASSUME CO!OpenAssumption, OpenInv, NEW c \in Callers, CO!OpenMissing(c) PROVE OpenInv'
<1>0. opening[c] \in CO!Calls /\ Fits(opening[c], spoken) /\ opening[c].pc = "open" /\ opening[c].reuse = None
  BY DEF OpenInv, CO!TypeOK, Fitting, CO!OpenMissing
<1>1. UNCHANGED <<entry, kept>> /\ CO!Unreferenced(spoken \cup {})
  BY DEF CO!OpenMissing, CO!Unreferenced
<1>2. CASE opening' = CO!Returns(c)
  BY <1>0, <1>1, <1>2, ReturnKeeps
<1>3. CASE opening' = [opening EXCEPT ![c] = CO!Rewarm(@, "reopened", None)]
  <2> DEFINE q == CO!Rewarm(opening[c], "reopened", None)
  <2>0. opening[c].reuse \in spoken' \/ opening[c].reuse = None
    BY <1>0
  <2>1. Fits(opening[c], spoken')
    BY <1>0 DEF Fits
  <2>2. q \in CO!Calls /\ Ids(q) = Ids(opening[c]) /\ Fits(q, spoken') /\ q.pc = "reset"
    BY <1>0, <2>1, Rewarmed
  <2>3. opening' = [opening EXCEPT ![c] = q]
    BY <1>3 DEF OpenInv, CO!TypeOK
  <2>4. entry' \in [session : Sessions, warm : BOOLEAN, holder : Callers \cup {None}]
    BY <1>1 DEF OpenInv, CO!TypeOK
  <2> HIDE DEF q
  <2> QED BY <1>0, <1>1, <2>2, <2>3, <2>4, ToldKeeps
<1> QED BY <1>2, <1>3 DEF CO!OpenMissing

LEMMA SendRefusedKeeps ==
  ASSUME CO!OpenAssumption, OpenInv, NEW c \in Callers, CO!SendRefused(c) PROVE OpenInv'
<1>1. UNCHANGED <<entry, kept>> /\ CO!Unreferenced(spoken \cup {})
  BY DEF CO!SendRefused, CO!Unreferenced
<1> QED BY <1>1, ReturnKeeps DEF CO!SendRefused

LEMMA SendKeeps ==
  ASSUME CO!OpenAssumption, OpenInv, NEW c \in Callers, CO!Send(c) PROVE OpenInv'
<1>0. /\ opening[c] \in CO!Calls /\ opening \in [Callers -> CO!Calls] /\ Fits(opening[c], spoken)
      /\ opening[c].pc = "send" /\ opening[c].cascade # None /\ opening[c].given = 0
  BY DEF OpenInv, CO!TypeOK, Fitting, Fits, CO!Send
<1>1. UNCHANGED <<entry, kept>>
  BY DEF CO!Send
<1>2. entry' \in [session : Sessions, warm : BOOLEAN, holder : Callers \cup {None}]
  BY <1>1 DEF OpenInv, CO!TypeOK
<1>3. opening[c].cascade \in Ids(opening[c])
  BY <1>0 DEF Ids
<1>4. CASE opening[c].session \in panels
  <2>1. CO!Unreferenced(spoken \cup {opening[c].cascade})
    BY <1>4 DEF CO!Send
  <2>2. CASE opening' = CO!Returns(c)
    BY <1>0, <1>1, <1>3, <2>1, <2>2, ReturnKeeps
  <2>3. CASE opening' = [[opening EXCEPT ![c].given = @ + 1] EXCEPT ![c].pc = "poll"]
    <3> DEFINE r == [opening[c] EXCEPT !.given = 1]
               q == [r EXCEPT !.pc = "poll"]
    <3>0. r \in CO!Calls
      BY <1>0 DEF CO!Calls
    <3>1. opening' = [opening EXCEPT ![c] = q]
      <4>1. [opening EXCEPT ![c].given = @ + 1] = [opening EXCEPT ![c] = r]
        BY <1>0
      <4> HIDE DEF r
      <4> QED BY <1>0, <2>3, <4>1
    <3>2. q \in CO!Calls
      <4> HIDE DEF r
      <4> QED BY <3>0 DEF CO!Calls
    <3>3. Ids(q) = Ids(opening[c]) /\ q.pc = "poll" /\ q.given = 1
      BY <1>0 DEF Ids, CO!Calls
    <3>4. q.cascade \in CO!UsedCascades' /\ opening'[c] = q
      BY <1>0, <3>1 DEF CO!UsedCascades
    <3>5. q.cascade \in spoken'
      BY <1>0, <2>1, <3>4 DEF CO!Unreferenced, CO!Calls
    <3>6. Fits(q, spoken')
      BY <1>0, <3>5 DEF Fits, CO!Calls
    <3>7. q.pc # "init" /\ opening[c].pc # "init"
      BY <1>0, <3>3
    <3> HIDE DEF q
    <3> QED BY <1>1, <1>2, <1>3, <2>1, <3>1, <3>2, <3>3, <3>6, <3>7, ToldKeeps
  <2> QED BY <1>4, <2>2, <2>3 DEF CO!Send, CO!IsPanelMissing
<1>5. CASE opening[c].session \notin panels
  <2>1. CO!Unreferenced(spoken \cup {})
    BY <1>5 DEF CO!Send, CO!Unreferenced
  <2>2. CASE opening' = CO!Returns(c)
    BY <1>0, <1>1, <2>1, <2>2, ReturnKeeps
  <2>3. CASE opening' = [[opening EXCEPT ![c].given = @] EXCEPT
                        ![c] = CO!Rewarm(@, "resent", CO!ReuseAfterSend(opening[c]))]
    <3> DEFINE q == CO!Rewarm(opening[c], "resent", opening[c].reuse)
    <3>1. opening' = [opening EXCEPT ![c] = q]
      <4>1. [opening EXCEPT ![c].given = @] = opening
        BY <1>0 DEF CO!Calls
      <4> QED BY <1>0, <2>3, <4>1 DEF CO!ReuseAfterSend
    <3>2. opening'[c].reuse = opening[c].reuse
      BY <1>0, <3>1 DEF CO!Rewarm, CO!Calls
    <3>3. opening[c].reuse \in spoken' \/ opening[c].reuse = None
      BY <1>0, <2>1, <3>2 DEF Fits, CO!Unreferenced, CO!UsedCascades
    <3>4. Fits(opening[c], spoken')
      BY <1>0, <2>1, <3>3 DEF Fits, CO!Unreferenced
    <3>5. q \in CO!Calls /\ Ids(q) = Ids(opening[c]) /\ Fits(q, spoken') /\ q.pc = "reset"
      BY <1>0, <3>4, Rewarmed
    <3> HIDE DEF q
    <3> QED BY <1>0, <1>1, <1>2, <2>1, <3>1, <3>5, ToldKeeps
  <2> QED BY <1>5, <2>2, <2>3 DEF CO!Send
<1> QED BY <1>4, <1>5

LEMMA ResetKeeps ==
  ASSUME CO!OpenAssumption, OpenInv, NEW c \in Callers, CO!Reset(c) PROVE OpenInv'
<1>0. /\ opening[c] \in CO!Calls /\ opening \in [Callers -> CO!Calls] /\ Fits(opening[c], spoken)
      /\ opening[c].pc = "reset"
  BY DEF OpenInv, CO!TypeOK, Fitting, CO!Reset
<1> DEFINE q == [opening[c] EXCEPT !.pc = "warm"]
<1>1. opening' = [opening EXCEPT ![c] = q]
  BY <1>0 DEF CO!Reset, CO!Goes
<1>2. q \in CO!Calls /\ Ids(q) = Ids(opening[c]) /\ q.pc = "warm"
  BY <1>0 DEF CO!Calls, Ids
<1>3. kept' = kept /\ CO!Unreferenced(spoken \cup {})
  BY DEF CO!Reset, CO!Unreferenced
<1>4. entry'.holder = entry.holder
      /\ entry' \in [session : Sessions, warm : BOOLEAN, holder : Callers \cup {None}]
  <2>1. (CHOOSE s \in CO!Unused : TRUE) \in Sessions
    BY DEF CO!Reset, CO!Unused
  <2> QED BY <2>1 DEF CO!Reset, OpenInv, CO!TypeOK
<1>5. opening'[c].reuse = opening[c].reuse
  BY <1>0, <1>1 DEF CO!Calls
<1>6. Fits(q, spoken')
  <2>1. opening[c].reuse \in spoken' \/ opening[c].reuse = None
    BY <1>0, <1>3, <1>5 DEF Fits, CO!Unreferenced, CO!UsedCascades
  <2> QED BY <1>0, <2>1 DEF Fits, CO!Calls
<1>7. {} \subseteq Ids(opening[c]) /\ opening[c].pc # "init" /\ q.pc # "init"
  BY <1>0, <1>2
<1> HIDE DEF q
<1> QED BY <1>1, <1>2, <1>3, <1>4, <1>6, <1>7, ToldKeeps

LEMMA FinishKeeps ==
  ASSUME CO!OpenAssumption, OpenInv, NEW c \in Callers, CO!Finish(c) PROVE OpenInv'
<1>0. /\ opening[c] \in CO!Calls /\ opening \in [Callers -> CO!Calls] /\ Fits(opening[c], spoken)
      /\ opening[c].pc = "poll"
  BY DEF OpenInv, CO!TypeOK, Fitting, CO!Finish
<1>1. opening' = CO!Returns(c) /\ UNCHANGED entry /\ CO!Unreferenced(spoken \cup {})
  BY DEF CO!Finish, CO!Unreferenced
<1>2. CASE kept' = kept
  BY <1>0, <1>1, <1>2, ReturnKeeps
<1> DEFINE k == [cascade |-> opening[c].cascade, session |-> opening[c].session]
<1>3. CASE kept' = kept \cup {k}
  <2>1. k \in [cascade : Cascades, session : Sessions] /\ k.cascade \in spoken
    BY <1>0 DEF Fits, CO!Calls
  <2>2. \A d \in Callers : opening'[d] = IF d = c THEN CO!NoCall ELSE opening[d]
    BY <1>0, <1>1 DEF CO!Returns
  <2>3. \A d \in Callers : Fits(opening'[d], spoken')
    <3>1. TAKE d \in Callers
    <3>2. CASE d = c
      BY <2>2, <3>2, Gone
    <3>3. CASE d # c
      <4>1. opening'[d] = opening[d] /\ Fits(opening[d], spoken)
        BY <2>2, <3>3 DEF OpenInv, Fitting
      <4>2. opening[d].reuse \in CO!UsedCascades' /\ opening[d].cascade \in CO!UsedCascades'
        BY <4>1 DEF CO!UsedCascades
      <4> QED BY <1>1, <4>1, <4>2 DEF Fits, CO!Unreferenced
    <3> QED BY <3>2, <3>3
  <2>4. Fitting'
    BY <2>3 DEF Fitting
  <2>5. k.cascade \in Ids(opening[c])
    BY <1>0 DEF Fits, Ids
  <2>6. Apart'
    <3>1. \A d \in Callers : Ids(opening'[d]) = IF d = c THEN {} ELSE Ids(opening[d])
      BY <2>2, Gone
    <3>2. \A d, e \in Callers : d # e => Ids(opening'[d]) \cap Ids(opening'[e]) = {}
      BY <3>1 DEF OpenInv, Apart
    <3>3. \A l \in kept', d \in Callers : l.cascade \notin Ids(opening'[d])
      BY <1>3, <2>5, <3>1 DEF OpenInv, Apart
    <3>4. \A l, m \in kept' : l.cascade = m.cascade => l = m
      BY <1>3, <2>5 DEF OpenInv, Apart
    <3> QED BY <3>2, <3>3, <3>4 DEF Apart
  <2>7. Answered'
    BY <1>1, <1>3, <2>1 DEF OpenInv, Answered, CO!Unreferenced, CO!UsedCascades
  <2>8. /\ opening' \in [Callers -> CO!Calls]
        /\ \A d \in Callers : opening'[d].pc = "init" <=> entry'.holder = d
    BY <1>0, <1>1, Gone DEF CO!Returns, OpenInv, CO!TypeOK
  <2>9. CO!TypeOK'
    BY <1>1, <1>3, <2>1, <2>8 DEF OpenInv, CO!TypeOK, CO!Unreferenced
  <2> QED BY <2>4, <2>6, <2>7, <2>9 DEF OpenInv
<1> QED BY <1>2, <1>3 DEF CO!Finish

LEMMA ForgetKeeps ==
  ASSUME CO!OpenAssumption, OpenInv, NEW s \in Sessions, CO!Forget(s) PROVE OpenInv'
<1>1. UNCHANGED <<entry, opening, spoken, kept>> /\ panels' \subseteq panels
  BY DEF CO!Forget
<1>2. CO!UsedSessions' = CO!UsedSessions /\ CO!UsedCascades' = CO!UsedCascades
  BY <1>1 DEF CO!UsedSessions, CO!UsedCascades
<1>3. CO!TypeOK'
  BY <1>1, <1>2 DEF OpenInv, CO!TypeOK
<1>4. Fitting' /\ Apart' /\ Answered'
  BY <1>1 DEF OpenInv, Fitting, Apart, Answered
<1> QED BY <1>3, <1>4 DEF OpenInv

-----------------------------------------------------------------------------
LEMMA OpeningKeeps == ASSUME CO!OpenAssumption, OpenInv, [CO!Next]_(CO!vars) PROVE OpenInv'
<1>1. CASE UNCHANGED CO!vars
  <2>1. CO!UsedSessions' = CO!UsedSessions /\ CO!UsedCascades' = CO!UsedCascades
    BY <1>1 DEF CO!vars, CO!UsedSessions, CO!UsedCascades
  <2>2. CO!TypeOK'
    BY <1>1, <2>1 DEF CO!vars, OpenInv, CO!TypeOK
  <2>3. Fitting' /\ Apart' /\ Answered'
    BY <1>1 DEF CO!vars, OpenInv, Fitting, Apart, Answered
  <2> QED BY <2>2, <2>3 DEF OpenInv
<1>2. ASSUME NEW c \in Callers,
             \/ CO!Start(c) \/ CO!WarmEnter(c) \/ CO!WarmInit(c) \/ CO!TakeSession(c)
             \/ CO!Resume(c) \/ CO!Open(c) \/ CO!OpenMissing(c) \/ CO!Reset(c)
             \/ CO!Send(c) \/ CO!SendRefused(c) \/ CO!Finish(c)
      PROVE  OpenInv'
  BY <1>2, StartKeeps, WarmEnterKeeps, WarmInitKeeps, TakeSessionKeeps, ResumeKeeps, OpenKeeps,
     OpenMissingKeeps, ResetKeeps, SendKeeps, SendRefusedKeeps, FinishKeeps
<1>3. ASSUME NEW s \in Sessions, CO!Forget(s) PROVE OpenInv'
  BY <1>3, ForgetKeeps
<1> QED BY <1>1, <1>2, <1>3 DEF CO!Next

\* A send gives what fits.
GivenFits ==
  \A c \in Callers : opening'[c].given > opening[c].given =>
    (opening[c].text = "last" <=> opening[c].cascade \in spoken)

LEMMA GivenWhatFits ==
  ASSUME CO!OpenAssumption, OpenInv, [CO!Next]_(CO!vars)
  PROVE  GivenFits
<1> SUFFICES ASSUME NEW c \in Callers, opening'[c].given > opening[c].given
             PROVE  opening[c].text = "last" <=> opening[c].cascade \in spoken
  BY DEF GivenFits
<1>1. opening[c].pc = "send"
  <2>1. opening \in [Callers -> CO!Calls] /\ \A d \in Callers : Fits(opening[d], spoken)
    BY DEF OpenInv, CO!TypeOK, Fitting
  <2>2. opening[c].given \in 0 .. 2
    BY <2>1 DEF CO!Calls
  <2>3. opening' \in [Callers -> CO!Calls] /\ \A d \in Callers : Fits(opening'[d], spoken')
    BY OpeningKeeps DEF OpenInv, CO!TypeOK, Fitting
  <2>4. opening'[c].pc = "poll" /\ opening[c].pc # "poll"
    BY <2>1, <2>3 DEF Fits, CO!Calls
  <2> SUFFICES ASSUME opening[c].pc # "send" PROVE FALSE
    OBVIOUS
  <2>5. CASE UNCHANGED CO!vars
    BY <2>4, <2>5 DEF CO!vars
  <2>6. ASSUME NEW d \in Callers, CO!Start(d) PROVE FALSE
    <3>1. CASE opening' = CO!Goes(d, "warm")
      BY <2>1, <2>4, <3>1 DEF CO!Goes, CO!Calls
    <3>2. ASSUME NEW k \in kept, opening' = [opening EXCEPT ![d] = CO!Arrived("warm", k.cascade, k.session)]
          PROVE  FALSE
      BY <2>1, <2>4, <3>2 DEF CO!Arrived
    <3> QED BY <2>6, <3>1, <3>2 DEF CO!Start
  <2>7. ASSUME NEW d \in Callers, CO!WarmEnter(d) \/ CO!WarmInit(d) \/ CO!Reset(d) PROVE FALSE
    BY <2>1, <2>4, <2>7 DEF CO!WarmEnter, CO!WarmInit, CO!Reset, CO!Goes, CO!Calls
  <2>8. ASSUME NEW d \in Callers, CO!TakeSession(d) PROVE FALSE
    BY <2>1, <2>4, <2>8 DEF CO!TakeSession, CO!Calls
  <2>9. ASSUME NEW d \in Callers, CO!Resume(d) PROVE FALSE
    BY <2>1, <2>4, <2>9 DEF CO!Resume, CO!Ready, CO!Calls
  <2>10. ASSUME NEW d \in Callers, CO!Open(d) PROVE FALSE
    BY <2>1, <2>4, <2>10 DEF CO!Open, CO!Ready, CO!Returns, CO!NoCall, CO!Arrived, CO!Calls
  <2>11. ASSUME NEW d \in Callers, CO!OpenMissing(d) PROVE FALSE
    BY <2>1, <2>4, <2>11 DEF CO!OpenMissing, CO!Rewarm, CO!Returns, CO!NoCall, CO!Arrived, CO!Calls
  <2>12. ASSUME NEW d \in Callers, CO!Send(d) PROVE FALSE
    <3>1. d # c
      BY <2>12 DEF CO!Send
    <3>2. opening'[c] = opening[c]
      BY <2>1, <2>12, <3>1 DEF CO!Send, CO!Returns
    <3> QED BY <2>4, <3>2
  <2>13. ASSUME NEW d \in Callers, CO!SendRefused(d) \/ CO!Finish(d) PROVE FALSE
    BY <2>1, <2>4, <2>13 DEF CO!SendRefused, CO!Finish, CO!Returns, CO!NoCall, CO!Arrived
  <2>14. ASSUME NEW s \in Sessions, CO!Forget(s) PROVE FALSE
    BY <2>4, <2>14 DEF CO!Forget
  <2> QED BY <2>5, <2>6, <2>7, <2>8, <2>9, <2>10, <2>11, <2>12, <2>13, <2>14 DEF CO!Next
<1>2. Fits(opening[c], spoken) /\ opening[c] \in CO!Calls
  BY DEF OpenInv, Fitting, CO!TypeOK
<1> QED BY <1>1, <1>2 DEF Fits, CO!Calls

\* The opening by itself: a message is taken by one cascade at most, and by each with the
\* payload that fits what it was told (CascadeChat).
THEOREM OpeningHolds == CO!Spec => [](CO!TypeOK /\ CO!DeliveredOnce) /\ CO!PayloadFits
<1>1. CO!OpenAssumption
  BY PartsAssumption
<1>2. CO!Init => OpenInv
  BY <1>1, OpenStarts
<1>3. OpenInv /\ [CO!Next]_(CO!vars) => OpenInv'
  BY <1>1, OpeningKeeps
<1>4. OpenInv => CO!TypeOK /\ CO!DeliveredOnce
  BY DEF OpenInv, Fitting, Fits, CO!DeliveredOnce
<1>5. OpenInv /\ [CO!Next]_(CO!vars) => [GivenFits]_(CO!vars)
  BY <1>1, GivenWhatFits
<1> QED BY <1>2, <1>3, <1>4, <1>5, PTL DEF CO!Spec, CO!PayloadFits, GivenFits

-----------------------------------------------------------------------------
-----------------------------------------------------------------------------
(* The response cache.                                                     *)

\* A list without repetition.
Line(s) == s \in Seq(Keys) /\ \A i, j \in 1 .. Len(s) : s[i] = s[j] => i = j

Members(s) == {s[i] : i \in 1 .. Len(s)}

LEMMA MembersOf ==
  ASSUME NEW s \in Seq(Keys)
  PROVE  RC!ToSet(s) = Members(s) /\ Members(s) \subseteq Keys
  BY LenProperties DEF RC!ToSet, Members

\* order.Remove takes the element out, and nothing else.
LEMMA TakenOut ==
  ASSUME NEW s, Line(s), NEW k
  PROVE  /\ Line(RC!RemoveFirst(s, k))
         /\ Members(RC!RemoveFirst(s, k)) = Members(s) \ {k}
         /\ Len(RC!RemoveFirst(s, k)) = IF k \in Members(s) THEN Len(s) - 1 ELSE Len(s)
<1>0. s \in Seq(Keys) /\ Len(s) \in Nat /\ \A i \in 1 .. Len(s) : s[i] \in Keys
  BY LenProperties, ElementOfSeq DEF Line
<1>1. CASE k \notin Members(s)
  <2>1. RC!RemoveFirst(s, k) = s
    BY <1>1 DEF RC!RemoveFirst, Members
  <2> QED BY <1>1, <2>1
<1>2. CASE k \in Members(s)
  <2>1. PICK i \in 1 .. Len(s) : s[i] = k
    BY <1>2 DEF Members
  <2>2. {j \in 1 .. Len(s) : s[j] = k} = {i}
    BY <2>1 DEF Line
  <2>3. RC!Min({i}) = i
    BY <1>0 DEF RC!Min
  <2>4. RC!RemoveFirst(s, k) = SubSeq(s, 1, i - 1) \o SubSeq(s, i + 1, Len(s))
    BY <2>1, <2>2, <2>3 DEF RC!RemoveFirst, RC!RemoveAt, RC!SelectInSeq
  <2>5. PICK a : a = SubSeq(s, 1, i - 1)
    OBVIOUS
  <2>6. PICK b : b = SubSeq(s, i + 1, Len(s))
    OBVIOUS
  <2>7. a \in Seq(Keys) /\ Len(a) = i - 1 /\ \A j \in 1 .. i - 1 : a[j] = s[j]
    <3>1. \A j \in 1 .. i - 1 : s[j] \in Keys
      BY <1>0
    <3>2. a \in Seq(Keys)
      BY <1>0, <2>5, <3>1, SubSeqProperties
    <3>3. Len(a) = IF 1 <= i - 1 THEN i - 1 - 1 + 1 ELSE 0
      BY <1>0, <2>5, <3>1, SubSeqProperties
    <3>4. \A j \in 1 .. i - 1 - 1 + 1 : a[j] = s[1 + j - 1]
      BY <1>0, <2>5, <3>1, SubSeqProperties
    <3> QED BY <1>0, <3>2, <3>3, <3>4
  <2>8. b \in Seq(Keys) /\ Len(b) = Len(s) - i /\ \A j \in 1 .. Len(s) - i : b[j] = s[i + j]
    <3>1. \A j \in i + 1 .. Len(s) : s[j] \in Keys
      BY <1>0
    <3>2. b \in Seq(Keys)
      BY <1>0, <2>6, <3>1, SubSeqProperties
    <3>3. Len(b) = IF i + 1 <= Len(s) THEN Len(s) - (i + 1) + 1 ELSE 0
      BY <1>0, <2>6, <3>1, SubSeqProperties
    <3>4. \A j \in 1 .. Len(s) - (i + 1) + 1 : b[j] = s[i + 1 + j - 1]
      BY <1>0, <2>6, <3>1, SubSeqProperties
    <3> QED BY <1>0, <3>2, <3>3, <3>4
  <2>9. PICK t : t = RC!RemoveFirst(s, k)
    OBVIOUS
  <2>10. /\ t \in Seq(Keys) /\ Len(t) = Len(s) - 1
         /\ \A j \in 1 .. Len(s) - 1 : t[j] = IF j < i THEN s[j] ELSE s[j + 1]
    <3>1. t = a \o b
      BY <2>4, <2>5, <2>6, <2>9
    <3>2. t \in Seq(Keys) /\ Len(t) = Len(a) + Len(b)
      BY <2>7, <2>8, <3>1, ConcatProperties
    <3>3. \A j \in 1 .. Len(a) + Len(b) : t[j] = IF j <= Len(a) THEN a[j] ELSE b[j - Len(a)]
      BY <2>7, <2>8, <3>1, ConcatProperties
    <3>4. Len(t) = Len(s) - 1
      BY <1>0, <2>7, <2>8, <3>2
    <3>5. ASSUME NEW j \in 1 .. Len(s) - 1 PROVE t[j] = IF j < i THEN s[j] ELSE s[j + 1]
      <4>1. t[j] = IF j <= Len(a) THEN a[j] ELSE b[j - Len(a)]
        BY <1>0, <2>7, <2>8, <3>3
      <4>2. CASE j < i
        BY <1>0, <2>7, <4>1, <4>2
      <4>3. CASE ~(j < i)
        <5>1. j - (i - 1) \in 1 .. Len(s) - i
          BY <1>0, <4>3
        <5>2. b[j - (i - 1)] = s[i + (j - (i - 1))]
          BY <2>8, <5>1
        <5>3. i + (j - (i - 1)) = j + 1
          BY <1>0
        <5> QED BY <1>0, <2>7, <4>1, <4>3, <5>2, <5>3
      <4> QED BY <4>2, <4>3
    <3> QED BY <3>2, <3>4, <3>5
  <2>11. Line(t)
    <3>1. ASSUME NEW j \in 1 .. Len(t), NEW l \in 1 .. Len(t), t[j] = t[l] PROVE j = l
      <4>1. PICK p \in 1 .. Len(s) : t[j] = s[p] /\ p = IF j < i THEN j ELSE j + 1
        BY <1>0, <2>10
      <4>2. PICK q \in 1 .. Len(s) : t[l] = s[q] /\ q = IF l < i THEN l ELSE l + 1
        BY <1>0, <2>10
      <4>3. p = q
        BY <3>1, <4>1, <4>2 DEF Line
      <4> QED BY <4>1, <4>2, <4>3
    <3> QED BY <2>10, <3>1 DEF Line
  <2>12. Members(t) = Members(s) \ {k}
    <3>1. ASSUME NEW x \in Members(t) PROVE x \in Members(s) /\ x # k
      <4>1. PICK j \in 1 .. Len(t) : x = t[j]
        BY DEF Members
      <4>2. PICK l \in 1 .. Len(s) : l # i /\ x = s[l]
        BY <1>0, <2>10, <4>1
      <4> QED BY <2>1, <4>2 DEF Line, Members
    <3>2. ASSUME NEW x \in Members(s), x # k PROVE x \in Members(t)
      <4>1. PICK l \in 1 .. Len(s) : x = s[l]
        BY DEF Members
      <4>2. l # i
        BY <2>1, <3>2, <4>1
      <4>3. CASE l < i
        <5>1. l \in 1 .. Len(t) /\ t[l] = x
          BY <1>0, <2>10, <4>1, <4>3
        <5> QED BY <5>1 DEF Members
      <4>4. CASE l > i
        <5>1. l - 1 \in 1 .. Len(t) /\ t[l - 1] = s[l - 1 + 1]
          BY <1>0, <2>10, <4>4
        <5>2. t[l - 1] = x
          BY <1>0, <4>1, <5>1
        <5> QED BY <5>1, <5>2 DEF Members
      <4> QED BY <1>0, <4>2, <4>3, <4>4
    <3> QED BY <3>1, <3>2
  <2> QED BY <1>2, <2>9, <2>10, <2>11, <2>12
<1> QED BY <1>1, <1>2

\* MoveToBack and PushBack put the element behind all others.
LEMMA MovedBack ==
  ASSUME Line(order), NEW k \in Keys
  PROVE  /\ Line(RC!ToBack(k))
         /\ Members(RC!ToBack(k)) = Members(order) \cup {k}
         /\ Len(RC!ToBack(k)) = IF k \in Members(order) THEN Len(order) ELSE Len(order) + 1
         /\ RC!ToBack(k)[Len(RC!ToBack(k))] = k
         /\ k \notin Members(order) => \A i \in 1 .. Len(order) : RC!ToBack(k)[i] = order[i]
<1>1. PICK t : t = RC!RemoveFirst(order, k)
  OBVIOUS
<1>2. /\ Line(t) /\ Members(t) = Members(order) \ {k}
      /\ Len(t) = IF k \in Members(order) THEN Len(order) - 1 ELSE Len(order)
  BY <1>1, TakenOut
<1>3. PICK u : u = Append(t, k)
  OBVIOUS
<1>4. RC!ToBack(k) = u
  BY <1>1, <1>3 DEF RC!ToBack
<1>5. /\ u \in Seq(Keys) /\ Len(u) = Len(t) + 1
      /\ \A i \in 1 .. Len(t) : u[i] = t[i]
      /\ u[Len(t) + 1] = k
  BY <1>2, <1>3, AppendProperties DEF Line
<1>6. Len(t) \in Nat /\ Len(order) \in Nat
  BY <1>2, LenProperties DEF Line
<1>7. Members(u) = Members(t) \cup {k}
  BY <1>5, <1>6 DEF Members
<1>8. Line(u)
  <2>1. \A i \in 1 .. Len(t) : t[i] # k
    BY <1>2 DEF Members
  <2> QED BY <1>2, <1>5, <1>6, <2>1 DEF Line
<1>9. k \notin Members(order) => t = order
  BY <1>1 DEF RC!RemoveFirst, Members
<1> QED BY <1>2, <1>4, <1>5, <1>6, <1>7, <1>8, <1>9

\* A line has as many places as members.
LEMMA LineLength ==
  ASSUME NEW s, Line(s)
  PROVE  Len(s) = Cardinality(Members(s)) /\ IsFiniteSet(Members(s))
<1>1. Len(s) \in Nat /\ s \in [1 .. Len(s) -> Keys]
  BY LenProperties DEF Line
<1>2. s \in Bijection(1 .. Len(s), Members(s))
  <2>1. s \in [1 .. Len(s) -> Members(s)]
    BY <1>1 DEF Members
  <2>2. s \in Injection(1 .. Len(s), Members(s))
    BY <2>1 DEF Injection, IsInjective, Line
  <2>3. s \in Surjection(1 .. Len(s), Members(s))
    BY <2>1 DEF Surjection, Members
  <2> QED BY <2>2, <2>3 DEF Bijection
<1>3. IsFiniteSet(1 .. Len(s)) /\ Cardinality(1 .. Len(s)) = Len(s)
  BY <1>1, FS_Interval
<1> QED BY <1>2, <1>3, FS_Bijection DEF ExistsBijection

\* The index: a line within its budget, with a time for each entry; what is harmed is in
\* it, and what the last start left out is not.
Listed ==
  /\ now \in Nat
  /\ Line(order) /\ Len(order) <= MaxItems
  /\ expires \in [Members(order) -> Nat]
  /\ files \in [DOMAIN files -> [at : Nat, ok : BOOLEAN]] /\ DOMAIN files \subseteq Keys
  /\ IsFiniteSet(DOMAIN files)
  /\ call \in [Callers -> RC!Calls]
  /\ damaged \subseteq Members(order)
  /\ stray \subseteq DOMAIN files \ Members(order)

Backed == \A k \in Members(order) : (k \in DOMAIN files /\ files[k].ok) \/ k \in damaged

Kept ==
  \A k \in DOMAIN files :
    \/ k \in Members(order) \cup stray
    \/ \E c \in Callers : call[c].pc = "index" /\ call[c].key = k

\* What a call of Get or Set may rely on in the locals q.
Relies(q) ==
  /\ q.pc # "idle" => q.at <= now /\ now <= q.at + Stall
  /\ q.pc \in {"read", "clean"} /\ q.same => q.key \in Members(order)
  /\ q.pc = "clean" /\ q.same => q.key \in damaged
  /\ q.pc = "index" /\ q.key \in DOMAIN files => q.at <= files[q.key].at
  /\ q.pc = "read" /\ q.key \in DOMAIN files => q.at <= files[q.key].at + CacheTTL + Stall

Relying == \A c \in Callers : Relies(call[c])

\* No entry outlives what its file is worth.
Timed ==
  /\ \A k \in Members(order) : expires[k] <= now + CacheTTL
  /\ \A k \in DOMAIN files : files[k].at <= now
  /\ \A k \in Members(order) \cap DOMAIN files : expires[k] <= files[k].at + CacheTTL + Stall

CacheInv == Listed /\ Backed /\ Kept /\ Relying /\ Timed

Limits == MaxItems \in Nat \ {0} /\ CacheTTL \in Nat /\ Stall \in Nat

LEMMA CacheLimits == Limits
  BY PartsAssumption DEF RC!CacheAssumption, Limits

LEMMA CacheStarts == RC!Init => CacheInv
<1> SUFFICES ASSUME RC!Init PROVE CacheInv
  OBVIOUS
<1> USE DEF RC!Init
<1>1. order = <<>> /\ Len(order) = 0 /\ order \in Seq(Keys)
  BY EmptySeq
<1>2. Members(order) = {} /\ Line(order)
  BY <1>1 DEF Members, Line
<1>3. DOMAIN files = {} /\ DOMAIN expires = {}
  OBVIOUS
<1>4. files \in [{} -> [at : Nat, ok : BOOLEAN]] /\ expires \in [{} -> Nat]
  OBVIOUS
<1>5. \A c \in Callers : call[c] = RC!NoCall /\ call[c].pc = "idle" /\ call[c] \in RC!Calls
  BY DEF RC!NoCall, RC!Calls
<1>6. Listed
  BY <1>1, <1>2, <1>3, <1>4, <1>5, CacheLimits, FS_EmptySet DEF Listed, Limits
<1>7. Relying
  BY <1>5 DEF Relying, Relies
<1> QED BY <1>2, <1>3, <1>6, <1>7 DEF CacheInv, Backed, Kept, Timed

-----------------------------------------------------------------------------
\* A dropped entry takes its file along; who found it is told.
LEMMA Dropping ==
  ASSUME CacheInv, NEW k \in Members(order), NEW calls \in [Callers -> RC!Calls],
         \A c \in Callers : calls[c] = call[c] \/ (calls[c] = RC!NoCall /\ call[c].pc = "clean"),
         RC!Drops(k, calls), now' = now
  PROVE  CacheInv' /\ Members(order)' = Members(order) \ {k}
<1> DEFINE M == Members(order)
<1>1. Line(order)' /\ Members(order)' = M \ {k} /\ Len(order)' <= MaxItems
  <2>1. Line(order')
    BY TakenOut DEF RC!Drops, CacheInv, Listed
  <2>2. Members(order') = M \ {k} /\ Len(order') = Len(order) - 1
    BY TakenOut DEF RC!Drops, CacheInv, Listed
  <2>3. Len(order) \in Nat
    BY LenProperties DEF CacheInv, Listed, Line
  <2>4. Len(order') <= MaxItems
    BY <2>2, <2>3, CacheLimits DEF CacheInv, Listed, Limits
  <2> QED BY <2>1, <2>2, <2>4
<1>2. expires' = [x \in M \ {k} |-> expires[x]]
  BY DEF RC!Drops, RC!Without, RC!Restrict, CacheInv, Listed
<1>3. DOMAIN files' = DOMAIN files \ {k} /\ files' = [x \in DOMAIN files \ {k} |-> files[x]]
  BY DEF RC!Drops, RC!Without, RC!Restrict
<1>4. damaged' = damaged \ {k} /\ stray' = stray \ {k}
  BY DEF RC!Drops
<1>5. \A c \in Callers : call'[c] =
        IF calls[c].pc \in {"read", "clean"} /\ calls[c].key = k
        THEN [calls[c] EXCEPT !.same = FALSE] ELSE calls[c]
  BY DEF RC!Drops, RC!Forget
<1>6. call' \in [Callers -> RC!Calls]
  <2>1. \A c \in Callers : call'[c] \in RC!Calls
    BY <1>5 DEF RC!Calls
  <2> QED BY <2>1 DEF RC!Drops, RC!Forget
<1>7. Listed'
  <2>1. expires' \in [M \ {k} -> Nat]
    BY <1>2 DEF CacheInv, Listed
  <2>2. files' \in [DOMAIN files' -> [at : Nat, ok : BOOLEAN]]
    BY <1>3 DEF CacheInv, Listed
  <2>3. IsFiniteSet(DOMAIN files')
    BY <1>3, FS_Subset DEF CacheInv, Listed
  <2> QED BY <1>1, <1>3, <1>4, <1>6, <2>1, <2>2, <2>3 DEF CacheInv, Listed
<1>8. Backed'
  BY <1>1, <1>3, <1>4 DEF CacheInv, Backed
<1>9. Kept'
  <2> SUFFICES ASSUME NEW x \in DOMAIN files'
               PROVE  \/ x \in (Members(order) \cup stray)'
                      \/ \E c \in Callers : call'[c].pc = "index" /\ call'[c].key = x
    BY DEF Kept
  <2>1. x \in DOMAIN files /\ x # k
    BY <1>3
  <2>2. CASE x \in M \cup stray
    BY <1>1, <1>4, <2>1, <2>2
  <2>3. CASE \E c \in Callers : call[c].pc = "index" /\ call[c].key = x
    <3>1. PICK c \in Callers : call[c].pc = "index" /\ call[c].key = x
      BY <2>3
    <3>2. calls[c] = call[c]
      BY <3>1
    <3>3. call'[c] = call[c]
      BY <1>5, <3>1, <3>2
    <3> QED BY <3>1, <3>3
  <2> QED BY <2>1, <2>2, <2>3 DEF CacheInv, Kept
<1>10. Relying'
  <2> SUFFICES ASSUME NEW c \in Callers PROVE Relies(call[c])'
    BY DEF Relying
  <2>1. CASE calls[c] = RC!NoCall
    <3>1. call'[c].pc = "idle"
      BY <1>5, <2>1 DEF RC!NoCall
    <3> QED BY <3>1 DEF Relies
  <2>2. CASE calls[c] = call[c] /\ call[c].pc \in {"read", "clean"} /\ call[c].key = k
    <3>1. call[c] \in [pc : {"read", "clean"}, key : Keys, at : Nat, same : BOOLEAN]
      BY <2>2 DEF CacheInv, Listed, RC!Calls
    <3>2. call'[c] = [call[c] EXCEPT !.same = FALSE]
      BY <1>5, <2>2
    <3>3. /\ call'[c].pc = call[c].pc /\ call'[c].key = k
          /\ call'[c].at = call[c].at /\ ~call'[c].same
      BY <2>2, <3>1, <3>2
    <3> QED BY <1>3, <2>2, <3>3 DEF CacheInv, Relying, Relies
  <2>3. CASE calls[c] = call[c] /\ ~(call[c].pc \in {"read", "clean"} /\ call[c].key = k)
    <3>1. call'[c] = call[c]
      BY <1>5, <2>3
    <3>2. Relies(call[c])
      BY DEF CacheInv, Relying
    <3> QED BY <1>1, <1>3, <1>4, <2>3, <3>1, <3>2 DEF Relies
  <2> QED BY <2>1, <2>2, <2>3
<1>11. Timed'
  BY <1>1, <1>2, <1>3 DEF CacheInv, Timed
<1> QED BY <1>1, <1>7, <1>8, <1>9, <1>10, <1>11 DEF CacheInv

\* A step of one call that leaves the index and the directory as they are.
LEMMA OneCall ==
  ASSUME CacheInv, NEW c \in Callers, NEW q \in RC!Calls, call' = [call EXCEPT ![c] = q],
         Relies(q),
         call[c].pc = "index" => call[c].key \notin DOMAIN files,
         Line(order'), Members(order') = Members(order), Len(order') = Len(order),
         UNCHANGED <<now, expires, files, damaged, stray>>
  PROVE  CacheInv'
<1>1. /\ Line(order)' /\ Members(order)' = Members(order) /\ Len(order)' = Len(order)
      /\ now' = now /\ expires' = expires /\ files' = files /\ damaged' = damaged /\ stray' = stray
  OBVIOUS
<1>2. call' \in [Callers -> RC!Calls]
  BY DEF CacheInv, Listed
<1>3. Listed'
  BY <1>1, <1>2 DEF CacheInv, Listed
<1>4. Backed' /\ Timed'
  BY <1>1 DEF CacheInv, Backed, Timed
<1>5. Kept'
  <2>1. \A d \in Callers, x \in DOMAIN files :
           call[d].pc = "index" /\ call[d].key = x => call'[d] = call[d]
    BY DEF CacheInv, Listed
  <2> QED BY <1>1, <2>1 DEF CacheInv, Kept
<1>6. Relying'
  <2> SUFFICES ASSUME NEW d \in Callers PROVE Relies(call[d])'
    BY DEF Relying
  <2>1. CASE d = c
    <3>1. call'[d] = q
      BY <2>1 DEF CacheInv, Listed
    <3> QED BY <1>1, <3>1 DEF Relies
  <2>2. CASE d # c
    <3>1. call'[d] = call[d]
      BY <2>2 DEF CacheInv, Listed
    <3> QED BY <1>1, <3>1 DEF Relies, CacheInv, Relying
  <2> QED BY <2>1, <2>2
<1> QED BY <1>3, <1>4, <1>5, <1>6 DEF CacheInv

LEMMA IdleIsACall == RC!NoCall \in RC!Calls /\ Relies(RC!NoCall)
  BY DEF RC!NoCall, RC!Calls, Relies

\* What an indexed key and a readable one are, in the terms used here.
LEMMA Terms ==
  ASSUME CacheInv
  PROVE  /\ RC!Indexed = Members(order)
         /\ \A k : RC!Readable(k) <=> k \in DOMAIN files /\ files[k].ok
         /\ \A c \in Callers : call[c].pc # "idle" => call[c].key \in Keys /\ call[c].at \in Nat
         /\ \A c \in Callers : call[c].pc = "idle" => call[c] = RC!NoCall
<1>1. RC!Indexed = Members(order)
  BY MembersOf DEF RC!Indexed, CacheInv, Listed, Line
<1>2. \A k : RC!Readable(k) <=> k \in DOMAIN files /\ files[k].ok
  BY DEF RC!Readable, RC!Spoilt
<1>3. \A c \in Callers : call[c] \in RC!Calls
  BY DEF CacheInv, Listed
<1>4. \A c \in Callers : call[c].pc # "idle" => call[c].key \in Keys /\ call[c].at \in Nat
  BY <1>3 DEF RC!Calls
<1>5. \A c \in Callers : call[c].pc = "idle" => call[c] = RC!NoCall
  BY <1>3 DEF RC!Calls, RC!NoCall
<1> QED BY <1>1, <1>2, <1>4, <1>5

LEMMA GetExpiredKeeps ==
  ASSUME CacheInv, NEW c \in Callers, NEW k \in Keys, RC!GetExpired(c, k)
  PROVE  CacheInv' /\ Members(order)' = Members(order) \ {k}
<1>1. k \in Members(order) /\ RC!Drops(k, call) /\ now' = now
  BY Terms DEF RC!GetExpired
<1> QED BY <1>1, Dropping DEF CacheInv, Listed

LEMMA GetFoundKeeps ==
  ASSUME CacheInv, NEW c \in Callers, NEW k \in Keys, RC!GetFound(c, k)
  PROVE  CacheInv' /\ Members(order)' = Members(order)
<1>1. k \in Members(order) /\ now <= expires[k]
  BY Terms DEF RC!GetFound
<1>2. /\ call[c] = RC!NoCall /\ order' = RC!ToBack(k)
      /\ call' = [call EXCEPT ![c] = RC!Reading(k)]
      /\ expires' = expires /\ UNCHANGED <<now, files, damaged, stray>>
  BY DEF RC!GetFound, RC!Step, RC!ExpiryAfterHit
<1>3. call[c].pc = "idle"
  BY <1>2 DEF RC!NoCall
<1>4. Line(order') /\ Members(order') = Members(order) /\ Len(order') = Len(order)
  <2>1. Line(order)
    BY DEF CacheInv, Listed
  <2>2. Members(order) \cup {k} = Members(order)
    BY <1>1
  <2> QED BY <1>1, <1>2, <2>1, <2>2, MovedBack
<1>5. now \in Nat
  BY DEF CacheInv, Listed
<1>6. RC!Reading(k) \in RC!Calls
  BY <1>5 DEF RC!Reading, RC!Calls
<1>7. Relies(RC!Reading(k))
  <2>1. k \in DOMAIN files => now <= files[k].at + CacheTTL + Stall
    <3>1. k \in DOMAIN files => expires[k] <= files[k].at + CacheTTL + Stall
      BY <1>1 DEF CacheInv, Timed
    <3>2. expires[k] \in Nat /\ (k \in DOMAIN files => files[k].at \in Nat)
      BY <1>1 DEF CacheInv, Listed
    <3> QED BY <1>1, <1>5, <3>1, <3>2, CacheLimits DEF Limits
  <2> QED BY <1>1, <1>5, <2>1, CacheLimits DEF Relies, RC!Reading, Limits
<1> QED BY <1>2, <1>3, <1>4, <1>6, <1>7, OneCall

LEMMA GetEndKeeps ==
  ASSUME CacheInv, NEW c \in Callers,
         call[c].pc = "index" => call[c].key \notin DOMAIN files,
         call' = [call EXCEPT ![c] = RC!NoCall],
         UNCHANGED <<now, order, expires, files, damaged, stray>>
  PROVE  CacheInv' /\ Members(order)' = Members(order)
<1>1. Line(order') /\ Members(order') = Members(order) /\ Len(order') = Len(order)
  BY DEF CacheInv, Listed
<1> QED BY <1>1, OneCall, IdleIsACall

LEMMA GetUnreadableKeeps ==
  ASSUME CacheInv, NEW c \in Callers, RC!GetUnreadable(c)
  PROVE  CacheInv' /\ Members(order)' = Members(order)
<1>1. /\ call[c].pc = "read" /\ ~(call[c].key \in DOMAIN files /\ files[call[c].key].ok)
      /\ call' = [call EXCEPT ![c].pc = "clean"]
      /\ UNCHANGED <<now, order, expires, files, damaged, stray>>
  BY Terms DEF RC!GetUnreadable
<1>2. call[c] \in [pc : {"read", "clean"}, key : Keys, at : Nat, same : BOOLEAN]
  BY <1>1 DEF CacheInv, Listed, RC!Calls
<1>3. PICK q : q = [call[c] EXCEPT !.pc = "clean"]
  OBVIOUS
<1>4. /\ q \in RC!Calls /\ q.pc = "clean" /\ q.key = call[c].key /\ q.at = call[c].at
      /\ q.same = call[c].same
  BY <1>2, <1>3 DEF RC!Calls
<1>5. call' = [call EXCEPT ![c] = q]
  BY <1>1, <1>3
<1>6. Relies(q)
  <2>1. Relies(call[c])
    BY DEF CacheInv, Relying
  <2>2. q.same => q.key \in Members(order)
    BY <1>1, <1>4, <2>1 DEF Relies
  <2>3. q.same => q.key \in damaged
    BY <1>1, <1>4, <2>2 DEF CacheInv, Backed
  <2> QED BY <1>1, <1>4, <2>1, <2>2, <2>3 DEF Relies
<1>7. Line(order') /\ Members(order') = Members(order) /\ Len(order') = Len(order)
  BY <1>1 DEF CacheInv, Listed
<1> QED BY <1>1, <1>4, <1>5, <1>6, <1>7, OneCall

LEMMA GetCleanKeeps ==
  ASSUME CacheInv, NEW c \in Callers, RC!GetClean(c)
  PROVE  /\ CacheInv'
         /\ \/ Members(order)' = Members(order)
            \/ \E k \in damaged : Members(order)' = Members(order) \ {k}
<1>1. call[c].pc = "clean" /\ now' = now
  BY DEF RC!GetClean
<1>2. PICK calls : calls = [call EXCEPT ![c] = RC!NoCall]
  OBVIOUS
<1>3. CASE RC!StillTheEntry(c)
  <2>1. RC!Drops(call[c].key, calls)
    BY <1>2, <1>3 DEF RC!GetClean, RC!Step
  <2>2. call[c].key \in Members(order) /\ call[c].same
    BY <1>3, Terms DEF RC!StillTheEntry
  <2>3. call[c].key \in damaged
    BY <1>1, <2>2 DEF CacheInv, Relying, Relies
  <2>4. calls \in [Callers -> RC!Calls]
    BY <1>2, IdleIsACall DEF CacheInv, Listed
  <2>5. \A d \in Callers : calls[d] = call[d] \/ (calls[d] = RC!NoCall /\ call[d].pc = "clean")
    BY <1>1, <1>2 DEF CacheInv, Listed
  <2> QED BY <1>1, <2>1, <2>2, <2>3, <2>4, <2>5, Dropping
<1>4. CASE ~RC!StillTheEntry(c)
  BY <1>1, <1>4, GetEndKeeps DEF RC!GetClean, RC!Step
<1> QED BY <1>3, <1>4

LEMMA SetWriteKeeps ==
  ASSUME CacheInv, NEW c \in Callers, NEW k \in Keys, RC!SetWrite(c, k)
  PROVE  CacheInv' /\ Members(order)' = Members(order)
<1>1. /\ call[c] = RC!NoCall /\ call' = [call EXCEPT ![c] = RC!Writing(k)]
      /\ UNCHANGED <<now, order, expires, damaged, stray>>
      /\ files' = RC!Put(files, k, [at |-> now, ok |-> TRUE])
  BY DEF RC!SetWrite, RC!Step
<1>2. now \in Nat /\ call \in [Callers -> RC!Calls]
  BY DEF CacheInv, Listed
<1>3. DOMAIN files' = DOMAIN files \cup {k}
  BY <1>1 DEF RC!Put
<1>4. \A x \in DOMAIN files : x # k => files'[x] = files[x]
  BY <1>1 DEF RC!Put
<1>a. files'[k] = [at |-> now, ok |-> TRUE]
  BY <1>1 DEF RC!Put
<1>b. files'[k] \in [at : Nat, ok : BOOLEAN] /\ files'[k].at = now /\ files'[k].ok
  BY <1>2, <1>a
<1>5. PICK q : q = RC!Writing(k)
  OBVIOUS
<1>6. q \in RC!Calls /\ q.pc = "index" /\ q.key = k /\ q.at = now
  BY <1>2, <1>5 DEF RC!Writing, RC!Calls
<1>7. call'[c] = q /\ \A d \in Callers : d # c => call'[d] = call[d]
  BY <1>1, <1>2, <1>5
<1>8. Listed'
  <2>1. files' \in [DOMAIN files' -> [at : Nat, ok : BOOLEAN]]
    <3>0. \A x \in DOMAIN files : files[x] \in [at : Nat, ok : BOOLEAN]
      BY DEF CacheInv, Listed
    <3>1. \A x \in DOMAIN files' : files'[x] \in [at : Nat, ok : BOOLEAN]
      BY <1>3, <1>4, <1>b, <3>0
    <3>2. files' = [x \in DOMAIN files' |-> files'[x]]
      BY <1>1 DEF RC!Put
    <3> QED BY <3>1, <3>2
  <2>2. call' \in [Callers -> RC!Calls]
    BY <1>1, <1>2, <1>5, <1>6
  <2>3. IsFiniteSet(DOMAIN files')
    BY <1>3, FS_AddElement DEF CacheInv, Listed
  <2> QED BY <1>1, <1>3, <2>1, <2>2, <2>3 DEF CacheInv, Listed
<1>9. Backed'
  BY <1>1, <1>3, <1>4, <1>b DEF CacheInv, Backed
<1>10. Timed'
  <2>1. \A x \in DOMAIN files' : files'[x].at <= now
    BY <1>2, <1>3, <1>4, <1>b DEF CacheInv, Timed
  <2> SUFFICES ASSUME NEW x \in Members(order) \cap DOMAIN files'
               PROVE  expires[x] <= files'[x].at + CacheTTL + Stall
    BY <1>1, <2>1 DEF CacheInv, Timed
  <2>2. CASE x = k
    <3>1. expires[x] \in Nat /\ expires[x] <= now + CacheTTL
      BY DEF CacheInv, Listed, Timed
    <3> QED BY <1>2, <1>b, <2>2, <3>1, CacheLimits DEF Limits
  <2>3. CASE x # k
    BY <1>3, <1>4, <2>3 DEF CacheInv, Timed
  <2> QED BY <2>2, <2>3
<1>11. Kept'
  <2> SUFFICES ASSUME NEW x \in DOMAIN files'
               PROVE  \/ x \in Members(order) \cup stray
                      \/ \E d \in Callers : call'[d].pc = "index" /\ call'[d].key = x
    BY <1>1 DEF Kept
  <2>1. CASE x = k
    BY <1>6, <1>7, <2>1
  <2>2. CASE x # k
    <3>1. \/ x \in Members(order) \cup stray
          \/ \E d \in Callers : call[d].pc = "index" /\ call[d].key = x
      BY <1>3, <2>2 DEF CacheInv, Kept
    <3>2. call[c].pc # "index"
      BY <1>1 DEF RC!NoCall
    <3> QED BY <1>7, <3>1, <3>2
  <2> QED BY <2>1, <2>2
<1>12. Relying'
  <2> SUFFICES ASSUME NEW d \in Callers PROVE Relies(call[d])'
    BY DEF Relying
  <2>1. CASE d = c
    <3>1. files'[k].at = now /\ now <= now + Stall
      BY <1>2, <1>b, CacheLimits DEF Limits
    <3> QED BY <1>1, <1>2, <1>6, <1>7, <2>1, <3>1 DEF Relies
  <2>2. CASE d # c
    <3>1. call'[d] = call[d] /\ Relies(call[d])
      BY <1>7, <2>2 DEF CacheInv, Relying
    <3>2. CASE call[d].pc # "idle" /\ call[d].key = k
      <4>1. call[d].at <= now /\ call[d].at \in Nat
        BY <3>1, <3>2, Terms DEF Relies
      <4>2. files'[call[d].key].at = now /\ now <= now + CacheTTL + Stall
        BY <1>2, <1>b, <3>2, CacheLimits DEF Limits
      <4>3. call[d].at <= now + CacheTTL + Stall
        BY <1>2, <4>1, CacheLimits DEF Limits
      <4> QED BY <1>1, <3>1, <4>1, <4>2, <4>3 DEF Relies
    <3>3. CASE call[d].key # k
      <4>1. call[d].key \in DOMAIN files' =>
              call[d].key \in DOMAIN files /\ files'[call[d].key] = files[call[d].key]
        BY <1>3, <1>4, <3>3
      <4> QED BY <1>1, <3>1, <4>1 DEF Relies
    <3>4. CASE call[d].pc = "idle"
      BY <3>1, <3>4 DEF Relies
    <3> QED BY <3>2, <3>3, <3>4
  <2> QED BY <2>1, <2>2
<1> QED BY <1>1, <1>8, <1>9, <1>10, <1>11, <1>12 DEF CacheInv

\* A file that is still there is indexed, and what the budget has no room for goes.
LEMMA SetIndexKeeps ==
  ASSUME CacheInv, NEW c \in Callers, RC!SetIndex(c)
  PROVE  /\ CacheInv'
         /\ \A k \in Members(order) \ Members(order)' : k = Head(order) /\ Len(order) = MaxItems
<1>1. call[c].pc = "index" /\ now' = now
  BY DEF RC!SetIndex
<1>2. CASE ~RC!FileStillThere(call[c].key)
  BY <1>1, <1>2, GetEndKeeps DEF RC!SetIndex, RC!Step, RC!FileStillThere
<1>3. CASE RC!FileStillThere(call[c].key)
  <2>1. PICK k : k = call[c].key
    OBVIOUS
  <2>2. k \in Keys /\ k \in DOMAIN files /\ call[c].at \in Nat
    BY <1>1, <1>3, <2>1, Terms DEF RC!FileStillThere
  <2>3. PICK seq : seq = RC!ToBack(k)
    OBVIOUS
  <2>4. PICK over : over = RC!Surplus(k, seq)
    OBVIOUS
  <2>5. PICK gone : gone = RC!ToSet(SubSeq(seq, 1, over))
    OBVIOUS
  <2>6. /\ order' = SubSeq(seq, over + 1, Len(seq))
        /\ expires' = RC!Without(RC!Put(expires, k, now + CacheTTL), gone)
        /\ files' = RC!Without(files, gone)
        /\ call' = RC!Forget([call EXCEPT ![c] = RC!NoCall], gone)
        /\ damaged' = (damaged \ gone) \cup ({k} \cap RC!Spoilt)
        /\ stray' = stray \ {k}
    BY <1>3, <2>1, <2>3, <2>4, <2>5 DEF RC!SetIndex, RC!Step
  <2>7. /\ Line(seq) /\ Members(seq) = Members(order) \cup {k}
        /\ Len(seq) = IF k \in Members(order) THEN Len(order) ELSE Len(order) + 1
        /\ seq[Len(seq)] = k
        /\ k \notin Members(order) => \A i \in 1 .. Len(order) : seq[i] = order[i]
    BY <2>2, <2>3, MovedBack DEF CacheInv, Listed
  <2>8. Len(order) \in Nat /\ Len(order) <= MaxItems /\ Len(seq) \in Nat
    BY <2>7, LenProperties DEF CacheInv, Listed, Line
  <2>9. over = IF k \notin Members(order) /\ Len(order) = MaxItems THEN 1 ELSE 0
    BY <2>4, <2>7, <2>8, Terms, CacheLimits DEF RC!Surplus, Limits
  <2>10. /\ Line(order') /\ Members(order') = Members(seq) \ gone /\ Len(order') <= MaxItems
         /\ k \notin gone /\ gone \subseteq Members(order)
         /\ \A x \in gone : x = Head(order) /\ Len(order) = MaxItems
    <3>0. seq \in Seq(Keys) /\ \A i \in 1 .. Len(seq) : seq[i] \in Keys
      BY <2>7, ElementOfSeq DEF Line
    <3>1. CASE over = 0
      <4>1. SubSeq(seq, 1, 0) = <<>> /\ Len(SubSeq(seq, 1, 0)) = 0
        BY SubSeqEmpty
      <4>2. gone = {}
        BY <2>5, <3>1, <4>1 DEF RC!ToSet
      <4>3. order' = seq
        BY <2>6, <3>0, <3>1, SubSeqFull
      <4>4. Len(seq) <= MaxItems
        BY <2>7, <2>8, <2>9, <3>1, CacheLimits DEF Limits
      <4> QED BY <2>7, <4>2, <4>3, <4>4
    <3>2. CASE over = 1
      <4>1. k \notin Members(order) /\ Len(order) = MaxItems /\ Len(seq) = Len(order) + 1
        BY <2>7, <2>9, <3>2
      <4>2. Len(order) >= 1
        BY <4>1, CacheLimits DEF Limits
      <4>3. seq[1] = order[1] /\ order[1] \in Members(order)
        BY <2>7, <2>8, <4>1, <4>2 DEF Members
      <4>4. \A i \in 1 .. 1 : seq[i] \in Keys
        BY <2>8, <3>0, <4>1, <4>2
      <4>5. PICK a : a = SubSeq(seq, 1, 1)
        OBVIOUS
      <4>6. a \in Seq(Keys)
        BY <4>4, <4>5, SubSeqProperties
      <4>7. Len(a) = IF 1 <= 1 THEN 1 - 1 + 1 ELSE 0
        BY <4>4, <4>5, SubSeqProperties
      <4>8. \A i \in 1 .. 1 - 1 + 1 : a[i] = seq[1 + i - 1]
        BY <4>4, <4>5, SubSeqProperties
      <4>9. DOMAIN a = 1 .. 1 /\ a[1] = seq[1]
        BY <4>6, <4>7, <4>8, LenProperties
      <4>10. gone = {order[1]}
        BY <2>5, <3>2, <4>3, <4>5, <4>9 DEF RC!ToSet
      <4>11. \A i \in 2 .. Len(seq) : seq[i] \in Keys
        BY <2>8, <3>0
      <4>12. PICK b : b = SubSeq(seq, 2, Len(seq))
        OBVIOUS
      <4>13. b \in Seq(Keys)
        BY <2>8, <4>11, <4>12, SubSeqProperties
      <4>14. Len(b) = IF 2 <= Len(seq) THEN Len(seq) - 2 + 1 ELSE 0
        BY <2>8, <4>11, <4>12, SubSeqProperties
      <4>15. \A i \in 1 .. Len(seq) - 2 + 1 : b[i] = seq[2 + i - 1]
        BY <2>8, <4>11, <4>12, SubSeqProperties
      <4>16. Len(b) = Len(order) /\ \A i \in 1 .. Len(b) : b[i] = seq[i + 1]
        BY <2>8, <4>1, <4>2, <4>14, <4>15
      <4>17. order' = b
        BY <2>6, <3>2, <4>12
      <4>18. Line(b)
        <5> SUFFICES ASSUME NEW i \in 1 .. Len(b), NEW j \in 1 .. Len(b), b[i] = b[j]
                     PROVE  i = j
          BY <4>13 DEF Line
        <5>1. i + 1 \in 1 .. Len(seq) /\ j + 1 \in 1 .. Len(seq)
          BY <2>8, <4>1, <4>16
        <5>2. seq[i + 1] = seq[j + 1]
          BY <4>16
        <5>3. i + 1 = j + 1
          BY <2>7, <5>1, <5>2 DEF Line
        <5> QED BY <2>8, <4>16, <5>3
      <4>19. Members(b) = Members(seq) \ gone
        <5>1. ASSUME NEW x \in Members(b) PROVE x \in Members(seq) \ gone
          <6>1. PICK i \in 1 .. Len(b) : x = b[i]
            BY DEF Members
          <6>2. i + 1 \in 1 .. Len(seq) /\ x = seq[i + 1] /\ i + 1 # 1 /\ 1 \in 1 .. Len(seq)
            BY <2>8, <4>1, <4>2, <4>16, <6>1
          <6>3. x # seq[1]
            BY <2>7, <6>2 DEF Line
          <6> QED BY <4>3, <4>10, <6>2, <6>3 DEF Members
        <5>2. ASSUME NEW x \in Members(seq) \ gone PROVE x \in Members(b)
          <6>1. PICK i \in 1 .. Len(seq) : x = seq[i]
            BY DEF Members
          <6>2. i # 1
            BY <4>3, <4>10, <6>1
          <6>3. i - 1 \in 1 .. Len(b) /\ i - 1 + 1 = i
            BY <2>8, <4>1, <4>16, <6>2
          <6>4. b[i - 1] = x
            BY <4>16, <6>1, <6>3
          <6> QED BY <6>3, <6>4 DEF Members
        <5> QED BY <5>1, <5>2
      <4>20. Len(order') <= MaxItems /\ Head(order) = order[1]
        BY <2>8, <4>1, <4>16, <4>17, CacheLimits DEF Limits
      <4> QED BY <4>1, <4>3, <4>10, <4>17, <4>18, <4>19, <4>20
    <3> QED BY <2>9, <3>1, <3>2
  <2>11. Members(order)' = (Members(order) \cup {k}) \ gone
    BY <2>7, <2>10
  <2> DEFINE M == Members(order)
             N == (M \cup {k}) \ gone
  <2>12. expires' = [x \in N |-> IF x = k THEN now + CacheTTL ELSE expires[x]]
    BY <2>6, <2>10 DEF RC!Without, RC!Put, RC!Restrict, CacheInv, Listed
  <2>13. DOMAIN files' = DOMAIN files \ gone /\ files' = [x \in DOMAIN files \ gone |-> files[x]]
    BY <2>6 DEF RC!Without, RC!Restrict
  <2>14. \A x : x \in RC!Spoilt <=> x \in DOMAIN files /\ ~files[x].ok
    BY DEF RC!Spoilt
  <2>15. PICK calls : calls = [call EXCEPT ![c] = RC!NoCall]
    OBVIOUS
  <2>16. /\ calls \in [Callers -> RC!Calls] /\ calls[c] = RC!NoCall
         /\ \A d \in Callers : d # c => calls[d] = call[d]
    BY <2>15, IdleIsACall DEF CacheInv, Listed
  <2>17. \A d \in Callers : call'[d] =
           IF calls[d].pc \in {"read", "clean"} /\ calls[d].key \in gone
           THEN [calls[d] EXCEPT !.same = FALSE] ELSE calls[d]
    BY <2>6, <2>15 DEF RC!Forget
  <2>18. call' \in [Callers -> RC!Calls]
    <3>1. \A d \in Callers : call'[d] \in RC!Calls
      BY <2>16, <2>17 DEF RC!Calls
    <3> QED BY <2>6, <3>1 DEF RC!Forget
  <2>19. now \in Nat
    BY DEF CacheInv, Listed
  <2>20. Listed'
    <3>1. expires' \in [N -> Nat]
      BY <2>12, <2>19, CacheLimits DEF CacheInv, Listed, Limits
    <3>2. files' \in [DOMAIN files' -> [at : Nat, ok : BOOLEAN]]
      BY <2>13 DEF CacheInv, Listed
    <3>3. damaged' \subseteq N
      BY <2>6, <2>10 DEF CacheInv, Listed
    <3>4. stray' \subseteq DOMAIN files' \ N
      BY <2>6, <2>10, <2>13 DEF CacheInv, Listed
    <3>5. DOMAIN files' \subseteq Keys
      BY <2>13 DEF CacheInv, Listed
    <3>6. IsFiniteSet(DOMAIN files')
      BY <2>13, FS_Subset DEF CacheInv, Listed
    <3> QED BY <1>1, <2>10, <2>11, <2>18, <2>19, <3>1, <3>2, <3>3, <3>4, <3>5, <3>6 DEF Listed
  <2>21. Backed'
    <3> SUFFICES ASSUME NEW x \in N
                 PROVE  (x \in DOMAIN files' /\ files'[x].ok) \/ x \in damaged'
      BY <2>11 DEF Backed
    <3>1. CASE x = k
      BY <2>2, <2>6, <2>10, <2>13, <2>14, <3>1
    <3>2. CASE x # k
      BY <2>6, <2>13, <3>2 DEF CacheInv, Backed
    <3> QED BY <3>1, <3>2
  <2>22. Kept'
    <3> SUFFICES ASSUME NEW x \in DOMAIN files'
                 PROVE  \/ x \in N \cup stray'
                        \/ \E d \in Callers : call'[d].pc = "index" /\ call'[d].key = x
      BY <2>11 DEF Kept
    <3>1. CASE x = k
      BY <2>10, <3>1
    <3>2. CASE x # k /\ x \in M \cup stray
      BY <2>6, <2>13, <3>2
    <3>3. CASE x # k /\ \E d \in Callers : call[d].pc = "index" /\ call[d].key = x
      <4>1. PICK d \in Callers : call[d].pc = "index" /\ call[d].key = x
        BY <3>3
      <4>2. calls[d] = call[d]
        BY <2>1, <2>16, <3>3, <4>1
      <4>3. call'[d] = call[d]
        BY <2>17, <4>1, <4>2
      <4> QED BY <4>1, <4>3
    <3> QED BY <2>13, <3>1, <3>2, <3>3 DEF CacheInv, Kept
  <2>23. Relying'
    <3> SUFFICES ASSUME NEW d \in Callers PROVE Relies(call[d])'
      BY DEF Relying
    <3>1. CASE d = c
      <4>1. call'[d].pc = "idle"
        BY <2>16, <2>17, <3>1 DEF RC!NoCall
      <4> QED BY <4>1 DEF Relies
    <3>2. CASE d # c /\ call[d].pc \in {"read", "clean"} /\ call[d].key \in gone
      <4>1. call[d] \in [pc : {"read", "clean"}, key : Keys, at : Nat, same : BOOLEAN]
        BY <3>2 DEF CacheInv, Listed, RC!Calls
      <4>2. call'[d] = [call[d] EXCEPT !.same = FALSE]
        BY <2>16, <2>17, <3>2
      <4>3. /\ call'[d].pc = call[d].pc /\ call'[d].key = call[d].key
            /\ call'[d].at = call[d].at /\ ~call'[d].same
        BY <4>1, <4>2
      <4>4. Relies(call[d]) /\ call[d].key \notin DOMAIN files'
        BY <2>13, <3>2 DEF CacheInv, Relying
      <4> QED BY <1>1, <3>2, <4>3, <4>4 DEF Relies
    <3>3. CASE d # c /\ ~(call[d].pc \in {"read", "clean"} /\ call[d].key \in gone)
      <4>1. call'[d] = call[d] /\ Relies(call[d])
        BY <2>16, <2>17, <3>3 DEF CacheInv, Relying
      <4>2. \A x \in DOMAIN files' : x \in DOMAIN files /\ files'[x] = files[x]
        BY <2>13
      <4>3. call[d].pc \in {"read", "clean"} => call[d].key \notin gone
        BY <3>3
      <4>4. \A x \in M : x \notin gone => x \in Members(order)'
        BY <2>11
      <4>5. \A x \in damaged : x \notin gone => x \in damaged'
        BY <2>6
      <4> QED BY <1>1, <4>1, <4>2, <4>3, <4>4, <4>5 DEF Relies
    <3> QED BY <3>1, <3>2, <3>3
  <2>24. Timed'
    <3>1. \A x \in N : expires'[x] <= now + CacheTTL
      BY <2>12, <2>19, CacheLimits DEF CacheInv, Timed, Limits
    <3>2. \A x \in DOMAIN files' : files'[x].at <= now
      BY <2>13 DEF CacheInv, Timed
    <3>3. \A x \in N \cap DOMAIN files' : x # k => expires'[x] <= files'[x].at + CacheTTL + Stall
      BY <2>12, <2>13 DEF CacheInv, Timed
    <3>4. expires'[k] <= files'[k].at + CacheTTL + Stall
      <4>1. expires'[k] = now + CacheTTL /\ files'[k] = files[k] /\ files[k].at \in Nat
        BY <2>2, <2>10, <2>12, <2>13 DEF CacheInv, Listed
      <4>2. now <= call[c].at + Stall /\ call[c].at <= files[k].at
        BY <1>1, <2>1, <2>2 DEF CacheInv, Relying, Relies
      <4> QED BY <2>2, <2>19, <4>1, <4>2, CacheLimits DEF Limits
    <3> QED BY <1>1, <2>11, <3>1, <3>2, <3>3, <3>4 DEF Timed
  <2> QED BY <2>10, <2>11, <2>20, <2>21, <2>22, <2>23, <2>24 DEF CacheInv
<1> QED BY <1>2, <1>3

LEMMA ClearKeeps ==
  ASSUME CacheInv, RC!Clear
  PROVE  CacheInv' /\ Members(order)' = {}
<1>1. order' = <<>> /\ Len(order') = 0 /\ order' \in Seq(Keys)
  BY EmptySeq DEF RC!Clear
<1>2. Members(order') = {} /\ Line(order')
  BY <1>1 DEF Members, Line
<1>3. expires' = <<>> /\ files' = <<>> /\ damaged' = {} /\ stray' = {} /\ now' = now
  BY DEF RC!Clear
<1>4. DOMAIN files' = {} /\ files' \in [{} -> [at : Nat, ok : BOOLEAN]] /\ expires' \in [{} -> Nat]
  BY <1>3
<1>5. \A c \in Callers : call'[c] =
        IF call[c].pc \in {"read", "clean"} /\ call[c].key \in Keys
        THEN [call[c] EXCEPT !.same = FALSE] ELSE call[c]
  BY DEF RC!Clear, RC!Forget
<1>6. \A c \in Callers : call[c] \in RC!Calls
  BY DEF CacheInv, Listed
<1>7. call' \in [Callers -> RC!Calls]
  <2>1. \A c \in Callers : call'[c] \in RC!Calls
    BY <1>5, <1>6 DEF RC!Calls
  <2> QED BY <2>1 DEF RC!Clear, RC!Forget
<1>8. Listed'
  BY <1>1, <1>2, <1>3, <1>4, <1>7, CacheLimits, FS_EmptySet DEF CacheInv, Listed, Limits
<1>9. Relying'
  <2> SUFFICES ASSUME NEW c \in Callers PROVE Relies(call[c])'
    BY DEF Relying
  <2>1. CASE call[c].pc \in {"read", "clean"}
    <3>1. call[c] \in [pc : {"read", "clean"}, key : Keys, at : Nat, same : BOOLEAN]
      BY <1>6, <2>1 DEF RC!Calls
    <3>2. call'[c] = [call[c] EXCEPT !.same = FALSE]
      BY <1>5, <2>1, <3>1
    <3>3. /\ call'[c].pc = call[c].pc /\ call'[c].key = call[c].key
          /\ call'[c].at = call[c].at /\ ~call'[c].same
      BY <3>1, <3>2
    <3> QED BY <1>3, <1>4, <3>3, <2>1 DEF CacheInv, Relying, Relies
  <2>2. CASE call[c].pc \notin {"read", "clean"}
    <3>1. call'[c] = call[c]
      BY <1>5, <2>2
    <3> QED BY <1>3, <1>4, <3>1, <2>2 DEF CacheInv, Relying, Relies
  <2> QED BY <2>1, <2>2
<1> QED BY <1>2, <1>4, <1>8, <1>9 DEF CacheInv, Backed, Kept, Timed

\* See Terms.
LEMMA SameSize == \A S : RC!Cardinality(S) = Cardinality(S)
  BY DEF RC!Cardinality, Cardinality

\* A start indexes files that are there and in time, as many as the budget has room for.
LEMMA RestartKeeps ==
  ASSUME CacheInv, RC!Restart
  PROVE  CacheInv'
<1>1. PICK live : live = {f \in DOMAIN files : now <= RC!Term(f)}
  OBVIOUS
<1>2. PICK stay \in SUBSET live, purged \in SUBSET (DOMAIN files \ live) :
        /\ IF Cardinality(live) >= MaxItems THEN Cardinality(stay) = MaxItems
                                           ELSE stay = live /\ purged = DOMAIN files \ live
        /\ order' \in RC!SetToSeqs(stay)
        /\ expires' = [f \in stay |-> RC!Term(f)]
        /\ files' = RC!Without(files, purged)
        /\ stray' = DOMAIN files' \ stay
        /\ call' = [c \in Callers |-> RC!NoCall]
        /\ damaged' = stay \cap RC!Spoilt
        /\ UNCHANGED now
  BY <1>1, SameSize DEF RC!Restart
<1>3. live \subseteq DOMAIN files /\ IsFiniteSet(live) /\ Cardinality(live) \in Nat
  <2>1. live \in SUBSET DOMAIN files
    BY <1>1
  <2> QED BY <2>1, FS_Subset, FS_CardinalityType DEF CacheInv, Listed
<1>4. IsFiniteSet(stay) /\ Cardinality(stay) \in Nat /\ Cardinality(stay) <= MaxItems
  BY <1>2, <1>3, FS_Subset, FS_CardinalityType, CacheLimits DEF Limits
<1>5. PICK n \in Nat : n = Cardinality(stay)
  BY <1>4
<1>6. order' \in [1 .. n -> stay] /\ \A i, j \in 1 .. n : i # j => order'[i] # order'[j]
  BY <1>2, <1>5, SameSize DEF RC!SetToSeqs
<1>7. Len(order') = n /\ order' \in Seq(Keys)
  <2>1. stay \subseteq Keys
    BY <1>3 DEF CacheInv, Listed
  <2>2. order' \in [1 .. n -> Keys]
    BY <1>6, <2>1
  <2>3. order' \in Seq(Keys)
    BY <2>2, SeqDef
  <2> QED BY <1>6, <2>3, LenProperties
<1>8. Line(order')
  BY <1>6, <1>7 DEF Line
<1>9. Members(order') = stay
  <2>1. order' \in Injection(1 .. n, stay)
    BY <1>6 DEF Injection, IsInjective
  <2>2. Cardinality(1 .. n) = n
    BY FS_Interval
  <2>3. order' \in Surjection(1 .. n, stay)
    BY <1>4, <1>5, <2>1, <2>2, FS_Injection
  <2> QED BY <1>6, <1>7, <2>3 DEF Surjection, Members
<1>10. /\ DOMAIN files' = DOMAIN files \ purged
       /\ files' = [f \in DOMAIN files \ purged |-> files[f]]
  BY <1>2 DEF RC!Without, RC!Restrict
<1>11. stay \subseteq DOMAIN files'
  BY <1>2, <1>3, <1>10
<1>12. \A f \in stay : /\ files[f].at \in Nat /\ now <= files[f].at + CacheTTL
                      /\ expires'[f] = files[f].at + CacheTTL
  BY <1>1, <1>2, <1>3 DEF RC!Term, CacheInv, Listed
<1>13. expires' \in [stay -> Nat]
  BY <1>2, <1>12, CacheLimits DEF Limits
<1>14. \A c \in Callers : call'[c] = RC!NoCall /\ call'[c].pc = "idle"
  BY <1>2 DEF RC!NoCall
<1>15. Listed'
  <2>1. call' \in [Callers -> RC!Calls]
    BY <1>2, IdleIsACall
  <2>2. files' \in [DOMAIN files' -> [at : Nat, ok : BOOLEAN]] /\ DOMAIN files' \subseteq Keys
    BY <1>10 DEF CacheInv, Listed
  <2>3. IsFiniteSet(DOMAIN files')
    BY <1>10, FS_Subset DEF CacheInv, Listed
  <2>4. damaged' \subseteq stay /\ stray' \subseteq DOMAIN files' \ stay /\ now' \in Nat
    BY <1>2 DEF CacheInv, Listed
  <2> QED BY <1>4, <1>5, <1>7, <1>8, <1>9, <1>13, <2>1, <2>2, <2>3, <2>4 DEF Listed
<1>16. Backed'
  <2>1. \A x : x \in RC!Spoilt <=> x \in DOMAIN files /\ ~files[x].ok
    BY DEF RC!Spoilt
  <2> QED BY <1>2, <1>9, <1>10, <1>11, <2>1 DEF Backed
<1>17. Kept'
  BY <1>2, <1>9 DEF Kept
<1>18. Relying'
  BY <1>14 DEF Relying, Relies
<1>19. Timed'
  <2>1. \A f \in DOMAIN files' : files'[f].at <= now
    BY <1>10 DEF CacheInv, Timed
  <2>2. \A f \in stay : expires'[f] <= now + CacheTTL
    <3>1. \A f \in stay : files[f].at <= now
      BY <1>3 DEF CacheInv, Timed
    <3>2. now \in Nat
      BY DEF CacheInv, Listed
    <3> QED BY <1>12, <3>1, <3>2, CacheLimits DEF Limits
  <2>3. \A f \in stay : expires'[f] <= files'[f].at + CacheTTL + Stall
    BY <1>10, <1>11, <1>12, CacheLimits DEF Limits
  <2> QED BY <1>2, <1>9, <2>1, <2>2, <2>3 DEF Timed
<1> QED BY <1>15, <1>16, <1>17, <1>18, <1>19 DEF CacheInv

LEMMA DamageKeeps ==
  ASSUME CacheInv, NEW k \in Keys, RC!Damage(k)
  PROVE  CacheInv' /\ Members(order)' = Members(order)
<1>1. /\ k \in DOMAIN files
      /\ files' = [x \in DOMAIN files \ {k} |-> files[x]] \/ files' = [files EXCEPT ![k].ok = FALSE]
      /\ damaged' = damaged \cup ({k} \cap Members(order))
      /\ stray' = stray \cap DOMAIN files'
      /\ UNCHANGED <<now, order, expires, call>>
  BY Terms DEF RC!Damage, RC!Without, RC!Restrict
<1>2. \A x \in DOMAIN files : files[x] \in [at : Nat, ok : BOOLEAN]
  BY DEF CacheInv, Listed
<1>3. PICK f : f = [files[k] EXCEPT !.ok = FALSE]
  OBVIOUS
<1>4. f \in [at : Nat, ok : BOOLEAN] /\ f.at = files[k].at
  BY <1>1, <1>2, <1>3
<1>5. files' = [x \in DOMAIN files \ {k} |-> files[x]] \/ files' = [files EXCEPT ![k] = f]
  BY <1>1, <1>3
<1>6. /\ \A x \in DOMAIN files' : x \in DOMAIN files
      /\ \A x \in DOMAIN files : x # k => x \in DOMAIN files'
  BY <1>5
<1>7. /\ \A x \in DOMAIN files' : files'[x].at = files[x].at
      /\ \A x \in DOMAIN files' : x # k => files'[x] = files[x]
  BY <1>4, <1>5
<1>8. files' \in [DOMAIN files' -> [at : Nat, ok : BOOLEAN]]
  BY <1>2, <1>4, <1>5
<1>9. Listed'
  <2>1. IsFiniteSet(DOMAIN files')
    <3>1. DOMAIN files' \subseteq DOMAIN files
      BY <1>6
    <3> QED BY <3>1, FS_Subset DEF CacheInv, Listed
  <2>2. DOMAIN files' \subseteq Keys
    BY <1>6 DEF CacheInv, Listed
  <2> QED BY <1>1, <1>8, <2>1, <2>2 DEF CacheInv, Listed
<1>10. Backed'
  BY <1>1, <1>6, <1>7 DEF CacheInv, Backed
<1>11. Kept'
  BY <1>1, <1>6 DEF CacheInv, Kept
<1>12. Relying'
  <2> SUFFICES ASSUME NEW c \in Callers PROVE Relies(call[c])'
    BY DEF Relying
  <2>1. Relies(call[c]) /\ call'[c] = call[c]
    BY <1>1 DEF CacheInv, Relying
  <2>2. damaged \subseteq damaged'
    BY <1>1
  <2> QED BY <1>1, <1>6, <1>7, <2>1, <2>2 DEF Relies
<1>13. Timed'
  BY <1>1, <1>6, <1>7 DEF CacheInv, Timed
<1> QED BY <1>1, <1>9, <1>10, <1>11, <1>12, <1>13 DEF CacheInv

LEMMA TickKeeps ==
  ASSUME CacheInv, RC!Tick
  PROVE  CacheInv' /\ Members(order)' = Members(order)
<1>1. /\ now' = now + 1 /\ UNCHANGED <<order, expires, files, call, damaged, stray>>
      /\ \A c \in Callers : call[c] # RC!NoCall => now < call[c].at + Stall
  BY DEF RC!Tick
<1>2. now \in Nat
  BY DEF CacheInv, Listed
<1>3. Listed'
  BY <1>1, <1>2 DEF CacheInv, Listed
<1>4. Backed' /\ Kept'
  BY <1>1 DEF CacheInv, Backed, Kept
<1>5. Relying'
  <2> SUFFICES ASSUME NEW c \in Callers PROVE Relies(call[c])'
    BY DEF Relying
  <2>1. Relies(call[c]) /\ call'[c] = call[c]
    BY <1>1 DEF CacheInv, Relying
  <2>2. call[c].pc # "idle" => call[c].at \in Nat /\ now < call[c].at + Stall
    BY <1>1, Terms DEF RC!NoCall
  <2>3. call[c].pc # "idle" => call[c].at <= now + 1 /\ now + 1 <= call[c].at + Stall
    BY <1>2, <2>1, <2>2, CacheLimits DEF Relies, Limits
  <2> QED BY <1>1, <2>1, <2>3 DEF Relies
<1>6. Timed'
  <2>1. \A k \in Members(order) : expires[k] \in Nat
    BY DEF CacheInv, Listed
  <2>2. \A k \in DOMAIN files : files[k].at \in Nat
    BY DEF CacheInv, Listed
  <2> QED BY <1>1, <1>2, <2>1, <2>2, CacheLimits DEF CacheInv, Timed, Limits
<1> QED BY <1>1, <1>3, <1>4, <1>5, <1>6 DEF CacheInv

\* Why an entry that is not harmed may leave the index (KeptUntilDue).
Due(k) ==
  \/ now > expires[k]
  \/ k = Head(order) /\ Len(order) = MaxItems /\ \E c \in Callers : RC!SetIndex(c)
  \/ RC!Clear
  \/ RC!Restart

LEMMA CacheKeeps ==
  ASSUME CacheInv, [RC!Next]_(RC!vars)
  PROVE  CacheInv' /\ \A k \in (Members(order) \ damaged) \ Members(order)' : Due(k)
<1>1. ASSUME NEW c \in Callers, NEW k \in Keys, RC!GetExpired(c, k)
      PROVE  CacheInv' /\ \A x \in Members(order) \ Members(order)' : Due(x)
  <2>1. now > expires[k]
    BY <1>1 DEF RC!GetExpired
  <2> QED BY <1>1, <2>1, GetExpiredKeeps DEF Due
<1>2. ASSUME NEW c \in Callers, NEW k \in Keys, RC!GetFound(c, k) \/ RC!SetWrite(c, k)
      PROVE  CacheInv' /\ Members(order)' = Members(order)
  BY <1>2, GetFoundKeeps, SetWriteKeeps
<1>3. ASSUME NEW c \in Callers, RC!GetHit(c)
      PROVE  CacheInv' /\ Members(order)' = Members(order)
  BY <1>3, GetEndKeeps DEF RC!GetHit, RC!Step
<1>4. ASSUME NEW c \in Callers, RC!GetUnreadable(c)
      PROVE  CacheInv' /\ Members(order)' = Members(order)
  BY <1>4, GetUnreadableKeeps
<1>5. ASSUME NEW c \in Callers, RC!GetClean(c)
      PROVE  CacheInv' /\ Members(order) \ damaged \subseteq Members(order)'
  BY <1>5, GetCleanKeeps
<1>6. ASSUME NEW c \in Callers, RC!SetIndex(c)
      PROVE  CacheInv' /\ \A x \in Members(order) \ Members(order)' : Due(x)
  BY <1>6, SetIndexKeeps DEF Due
<1>7. CASE RC!Clear
  BY <1>7, ClearKeeps DEF Due
<1>8. CASE RC!Restart
  BY <1>8, RestartKeeps DEF Due
<1>9. ASSUME NEW k \in Keys, RC!Damage(k)
      PROVE  CacheInv' /\ Members(order)' = Members(order)
  BY <1>9, DamageKeeps
<1>10. CASE RC!Tick
  BY <1>10, TickKeeps
<1>11. CASE UNCHANGED RC!vars
  <2>1. /\ now' = now /\ order' = order /\ expires' = expires /\ files' = files /\ call' = call
        /\ damaged' = damaged /\ stray' = stray
    BY <1>11 DEF RC!vars
  <2>2. Listed' /\ Backed' /\ Kept' /\ Timed'
    BY <2>1 DEF CacheInv, Listed, Backed, Kept, Timed
  <2>3. Relying'
    BY <2>1 DEF CacheInv, Relying, Relies
  <2> QED BY <2>1, <2>2, <2>3 DEF CacheInv
<1> QED
  BY <1>1, <1>2, <1>3, <1>4, <1>5, <1>6, <1>7, <1>8, <1>9, <1>10, <1>11 DEF RC!Next

\* What the cache promises of a state, and of a step.
LEMMA CachePromises ==
  ASSUME CacheInv
  PROVE  RC!TypeOK /\ RC!IndexBacked /\ RC!NothingLeaks
<1>1. Len(order) = Cardinality(Members(order))
  BY LineLength DEF CacheInv, Listed
<1>2. Members(order) \subseteq Keys
  BY MembersOf DEF CacheInv, Listed, Line
<1>3. RC!TypeOK
  BY <1>1, <1>2, Terms, SameSize DEF RC!TypeOK, CacheInv, Listed
<1>4. RC!IndexBacked
  BY Terms DEF RC!IndexBacked, CacheInv, Backed
<1>5. RC!NothingLeaks
  BY Terms DEF RC!NothingLeaks, CacheInv, Kept
<1> QED BY <1>3, <1>4, <1>5

Fresh ==
  \A c \in Callers : RC!GetHit(c) => now - files[call[c].key].at <= CacheTTL + 2 * Stall

LEMMA HitsAreFresh ==
  ASSUME CacheInv
  PROVE  Fresh
<1> SUFFICES ASSUME NEW c \in Callers, RC!GetHit(c)
             PROVE  now - files[call[c].key].at <= CacheTTL + 2 * Stall
  BY DEF Fresh
<1>1. call[c].pc = "read" /\ call[c].key \in DOMAIN files
  BY Terms DEF RC!GetHit
<1>2. now <= call[c].at + Stall /\ call[c].at <= files[call[c].key].at + CacheTTL + Stall
  BY <1>1 DEF CacheInv, Relying, Relies
<1>3. now \in Nat /\ files[call[c].key].at \in Nat /\ call[c].at \in Nat
  BY <1>1, Terms DEF CacheInv, Listed
<1> QED BY <1>2, <1>3, CacheLimits DEF Limits

OnlyDue == \A k \in (RC!Indexed \ damaged) \ RC!ToSet(order') : Due(k)

LEMMA LeavesWhenDue ==
  ASSUME CacheInv, [RC!Next]_(RC!vars)
  PROVE  OnlyDue
<1>1. order' \in Seq(Keys) /\ RC!ToSet(order') = Members(order)'
  <2>1. Listed'
    BY CacheKeeps DEF CacheInv
  <2>2. order' \in Seq(Keys)
    BY <2>1 DEF Listed, Line
  <2> QED BY <2>2, MembersOf DEF Members
<1> QED BY <1>1, Terms, CacheKeeps DEF OnlyDue

LEMMA Lasts ==
  /\ [][Fresh]_(RC!vars) => RC!ServedFresh
  /\ [][OnlyDue]_(RC!vars) => RC!KeptUntilDue
<1>1. Fresh => (\A c \in Callers :
       RC!GetHit(c) => now - files[call[c].key].at <= CacheTTL + 2 * Stall)
  BY DEF Fresh
<1> QED BY PTL DEF RC!ServedFresh, RC!KeptUntilDue, Fresh, OnlyDue, Due

-----------------------------------------------------------------------------
-----------------------------------------------------------------------------
(* The poll loop.                                                          *)

LEMMA Flat ==
  ASSUME NEW seqs, Len(seqs) \in Nat \ {0}
  PROVE \E f : /\ f = [i \in 1 .. Len(seqs) |-> IF i = 1 THEN seqs[i] ELSE f[i - 1] \o seqs[i]]
               /\ CP!FlattenSeq(seqs) = f[Len(seqs)]
<1> DEFINE n == Len(seqs)
           Is(f, k) == f = [i \in 1 .. k |-> IF i = 1 THEN seqs[i] ELSE f[i - 1] \o seqs[i]]
           Bad == {k \in Nat : ~\E f : Is(f, k)}
<1>1. Bad = {}
  <2>1. SUFFICES ASSUME Bad # {} PROVE FALSE
    OBVIOUS
  <2>2. PICK k \in Bad : \A u \in Bad : k <= u
    BY <2>1, LeastOf
  <2>3. k # 0
    <3>1. Is([i \in 1..0 |-> 0], 0)
      OBVIOUS
    <3> QED BY <3>1
  <2>4. k - 1 \in Nat /\ k - 1 \notin Bad
    <3>1. k \in Nat /\ k - 1 \in Nat
      BY <2>2, <2>3
    <3>2. \A u \in Bad : k <= u
      BY <2>2
    <3>3. ~(k <= k - 1)
      BY <3>1
    <3> HIDE DEF Bad
    <3> QED BY <3>1, <3>2, <3>3
  <2>5. PICK f : Is(f, k - 1)
    BY <2>4
  <2>6. PICK g : g = [i \in 1 .. k |-> IF i = 1 THEN seqs[i] ELSE f[i - 1] \o seqs[i]]
    OBVIOUS
  <2>7. \A i \in 1 .. k - 1 : g[i] = f[i]
    <3>1. ASSUME NEW i \in 1 .. k - 1 PROVE g[i] = f[i]
      <4>1. i \in 1 .. k
        BY <2>4
      <4>2. g[i] = IF i = 1 THEN seqs[i] ELSE f[i - 1] \o seqs[i]
        BY <2>6, <4>1
      <4>3. f[i] = IF i = 1 THEN seqs[i] ELSE f[i - 1] \o seqs[i]
        BY <2>5
      <4> QED BY <4>2, <4>3
    <3> QED BY <3>1
  <2>8. Is(g, k)
    <3>1. \A i \in 1 .. k : i # 1 => f[i - 1] = g[i - 1]
      BY <2>4, <2>7
    <3>2. [i \in 1 .. k |-> IF i = 1 THEN seqs[i] ELSE f[i - 1] \o seqs[i]]
          = [i \in 1 .. k |-> IF i = 1 THEN seqs[i] ELSE g[i - 1] \o seqs[i]]
      BY <3>1
    <3> QED BY <2>6, <3>2
  <2> QED BY <2>8
<1>2. \E f : Is(f, n)
  BY <1>1
<1>3. PICK f : f = CHOOSE g : Is(g, n)
  OBVIOUS
<1>4. Is(f, n)
  BY <1>2, <1>3
<1>5. CP!FlattenSeq(seqs) = f[n]
  BY <1>3 DEF CP!FlattenSeq
<1> QED BY <1>4, <1>5

-----------------------------------------------------------------------------
PollLimits ==
  /\ MaxText \in Nat /\ MaxSteps \in Nat \ {0} /\ MaxTransient \in Nat /\ StallRetryMin \in Nat
  /\ MaxTime \in Nat /\ MaxWait \in Nat /\ IdleGrace \in Nat /\ Deadline \in Nat
  /\ NoGrowthStall \in Nat /\ ColdStall \in Nat

LEMMA PollLimited == PollLimits
  BY PartsAssumption DEF CP!PollAssumption, PollLimits

\* A unit of text: its step and its position there.
Unit == Nat \X Nat

LEMMA Spelt ==
  ASSUME NEW a \in Seq(Unit)
  PROVE  Len(a) \in Nat /\ DOMAIN a = 1 .. Len(a) /\ CP!ToSet(a) = {a[i] : i \in 1 .. Len(a)}
         /\ \A i \in 1 .. Len(a) : a[i] \in Unit
  BY LenProperties, ElementOfSeq DEF CP!ToSet

Sorted(s) == \A a, b \in DOMAIN s : a < b => CP!Before(s[a], s[b])

LEMMA Joined ==
  ASSUME NEW a \in Seq(Unit), NEW b \in Seq(Unit), Sorted(a), Sorted(b),
         \A u \in CP!ToSet(a), v \in CP!ToSet(b) : CP!Before(u, v)
  PROVE  a \o b \in Seq(Unit) /\ Sorted(a \o b) /\ CP!ToSet(a \o b) = CP!ToSet(a) \cup CP!ToSet(b)
<1>1. PICK c : c = a \o b
  OBVIOUS
<1>2. c \in Seq(Unit) /\ Len(c) = Len(a) + Len(b)
  BY <1>1, ConcatProperties
<1>3. \A i \in 1 .. Len(a) + Len(b) : c[i] = IF i <= Len(a) THEN a[i] ELSE b[i - Len(a)]
  BY <1>1, ConcatProperties
<1>4. Len(a) \in Nat /\ Len(b) \in Nat /\ DOMAIN a = 1 .. Len(a) /\ DOMAIN b = 1 .. Len(b)
      /\ DOMAIN c = 1 .. Len(a) + Len(b)
  BY <1>2, Spelt
<1>5. CP!ToSet(a) = {a[i] : i \in 1 .. Len(a)} /\ CP!ToSet(b) = {b[i] : i \in 1 .. Len(b)}
      /\ CP!ToSet(c) = {c[i] : i \in 1 .. Len(a) + Len(b)}
  BY <1>2, Spelt
<1>6. ASSUME NEW i \in 1 .. Len(a) + Len(b), NEW j \in 1 .. Len(a) + Len(b), i < j
      PROVE  CP!Before(c[i], c[j])
  <2>1. CASE j <= Len(a)
    <3>1. c[i] = a[i] /\ c[j] = a[j] /\ i \in DOMAIN a /\ j \in DOMAIN a
      BY <1>3, <1>4, <1>6, <2>1
    <3> QED BY <1>6, <3>1 DEF Sorted
  <2>2. CASE i > Len(a)
    <3>1. /\ c[i] = b[i - Len(a)] /\ c[j] = b[j - Len(a)] /\ i - Len(a) < j - Len(a)
          /\ i - Len(a) \in DOMAIN b /\ j - Len(a) \in DOMAIN b
      BY <1>3, <1>4, <1>6, <2>2
    <3> QED BY <3>1 DEF Sorted
  <2>3. CASE i <= Len(a) /\ ~(j <= Len(a))
    <3>1. c[i] = a[i] /\ c[j] = b[j - Len(a)] /\ i \in 1 .. Len(a) /\ j - Len(a) \in 1 .. Len(b)
      BY <1>3, <1>4, <2>3
    <3>2. c[i] \in CP!ToSet(a) /\ c[j] \in CP!ToSet(b)
      BY <1>5, <3>1
    <3> QED BY <3>2
  <2> QED BY <1>4, <2>1, <2>2, <2>3
<1>7. CP!ToSet(c) = CP!ToSet(a) \cup CP!ToSet(b)
  <2>1. ASSUME NEW i \in 1 .. Len(a) + Len(b) PROVE c[i] \in CP!ToSet(a) \cup CP!ToSet(b)
    <3>1. CASE i <= Len(a)
      BY <1>3, <1>4, <1>5, <3>1
    <3>2. CASE ~(i <= Len(a))
      <4>1. c[i] = b[i - Len(a)] /\ i - Len(a) \in 1 .. Len(b)
        BY <1>3, <1>4, <3>2
      <4> QED BY <1>5, <4>1
    <3> QED BY <3>1, <3>2
  <2>2. ASSUME NEW i \in 1 .. Len(a) PROVE a[i] \in CP!ToSet(c)
    <3>1. c[i] = a[i] /\ i \in 1 .. Len(a) + Len(b)
      BY <1>3, <1>4
    <3> QED BY <1>5, <3>1
  <2>3. ASSUME NEW i \in 1 .. Len(b) PROVE b[i] \in CP!ToSet(c)
    <3>1. i + Len(a) \in 1 .. Len(a) + Len(b) /\ ~(i + Len(a) <= Len(a)) /\ i + Len(a) - Len(a) = i
      BY <1>4
    <3>2. c[i + Len(a)] = b[i]
      BY <1>3, <3>1
    <3> QED BY <1>5, <3>1, <3>2
  <2> QED BY <1>5, <2>1, <2>2, <2>3
<1> QED BY <1>1, <1>2, <1>4, <1>6, <1>7 DEF Sorted

\* The units of step i behind `from`, up to `to`.
Stretch(i, from, to) == {u \in Unit : u[1] = i /\ from < u[2] /\ u[2] <= to}

LEMMA DeltaIs ==
  ASSUME NEW i \in Nat, NEW from \in Nat, NEW to \in Nat, NEW d, d = CP!Delta(i, from, to)
  PROVE  /\ d \in Seq(Unit) /\ Sorted(d)
         /\ CP!ToSet(d) = Stretch(i, from, to)
<1>2. PICK n \in Nat : n = IF from <= to THEN to - from ELSE 0
  <2>1. (IF from <= to THEN to - from ELSE 0) \in Nat
    OBVIOUS
  <2> QED BY <2>1
<1>3. 1 .. to - from = 1 .. n
  BY <1>2
<1>4. d = [j \in 1 .. n |-> <<i, from + j>>]
  BY <1>3 DEF CP!Delta
<1>5. d \in [1 .. n -> Unit]
  BY <1>4 DEF Unit
<1>6. d \in Seq(Unit)
  BY <1>5, SeqDef
<1>7. Sorted(d)
  BY <1>4 DEF Sorted, CP!Before
<1>8. CP!ToSet(d) = {<<i, from + j>> : j \in 1 .. n}
  BY <1>4 DEF CP!ToSet
<1>9. ASSUME NEW u \in Unit, u[1] = i, from < u[2], u[2] <= to PROVE u \in CP!ToSet(d)
  <2>1. u[2] - from \in 1 .. n /\ from + (u[2] - from) = u[2]
    BY <1>2, <1>9 DEF Unit
  <2>2. u = <<i, from + (u[2] - from)>>
    BY <1>9, <2>1 DEF Unit
  <2> QED BY <1>8, <2>1, <2>2
<1>10. ASSUME NEW j \in 1 .. n
       PROVE  LET u == <<i, from + j>> IN u \in Unit /\ u[1] = i /\ from < u[2] /\ u[2] <= to
  BY <1>2 DEF Unit
<1>11. CP!ToSet(d) = {u \in Unit : u[1] = i /\ from < u[2] /\ u[2] <= to}
  BY <1>8, <1>9, <1>10
<1> QED BY <1>6, <1>7, <1>11 DEF Stretch

\* The trajectory as the loop knows it: no text beyond its steps.
At(t, i) == IF i <= Len(t) THEN t[i] ELSE 0
Unread(t) == [i \in 1 .. MaxSteps |-> At(t, i)]

Steps == {t \in Seq(0 .. MaxText) : Len(t) <= MaxSteps}
Places == [1 .. MaxSteps -> 0 .. MaxText]

LEMMA StepsAre == Steps = CP!Trajectories
<1>1. CP!Trajectories = UNION {[1 .. m -> 0 .. MaxText] : m \in 0 .. MaxSteps}
  BY DEF CP!Trajectories, CP!BoundedSeq, CP!SeqOf
<1>2. MaxSteps \in Nat
  BY PollLimited DEF PollLimits
<1>3. ASSUME NEW t \in Steps PROVE t \in CP!Trajectories
  <2>1. Len(t) \in 0 .. MaxSteps /\ t \in [1 .. Len(t) -> 0 .. MaxText]
    <3>1. t \in Seq(0 .. MaxText) /\ Len(t) <= MaxSteps
      BY DEF Steps
    <3>2. Len(t) \in Nat /\ t \in [1 .. Len(t) -> 0 .. MaxText]
      BY <3>1, LenProperties
    <3> QED BY <1>2, <3>1, <3>2
  <2> QED BY <1>1, <2>1
<1>4. ASSUME NEW t \in CP!Trajectories PROVE t \in Steps
  <2>1. PICK m \in 0 .. MaxSteps : t \in [1 .. m -> 0 .. MaxText]
    BY <1>1
  <2>2. m \in Nat
    BY <1>2
  <2>3. t \in Seq(0 .. MaxText)
    BY <2>1, <2>2, SeqDef
  <2>4. DOMAIN t = 1 .. Len(t) /\ Len(t) \in Nat
    BY <2>3, LenProperties
  <2>5. Len(t) = m
    BY <2>1, <2>2, <2>4
  <2> QED BY <1>2, <2>3, <2>5 DEF Steps
<1> QED BY <1>3, <1>4

LEMMA StepsHave ==
  ASSUME NEW t \in Steps
  PROVE  /\ Len(t) \in Nat /\ Len(t) <= MaxSteps /\ DOMAIN t = 1 .. Len(t)
         /\ \A i \in 1 .. Len(t) : t[i] \in 0 .. MaxText /\ i \in 1 .. MaxSteps
         /\ Unread(t) \in Places
<1>1. Len(t) \in Nat /\ Len(t) <= MaxSteps /\ DOMAIN t = 1 .. Len(t) /\ t \in [1 .. Len(t) -> 0 .. MaxText]
  BY LenProperties DEF Steps
<1>2. MaxSteps \in Nat /\ MaxText \in Nat
  BY PollLimited DEF PollLimits
<1>3. \A i \in 1 .. Len(t) : t[i] \in 0 .. MaxText /\ i \in 1 .. MaxSteps
  BY <1>1, <1>2
<1>4. \A i \in 1 .. MaxSteps : At(t, i) \in 0 .. MaxText
  BY <1>1, <1>2, <1>3 DEF At
<1> QED BY <1>1, <1>3, <1>4 DEF Unread, Places

\* What of the first k steps of s lies behind y.
Behind(y, s, k) == {u \in Unit : u[1] \in 1 .. k /\ y[u[1]] < u[2] /\ u[2] <= s[u[1]]}

LEMMA NewsIs ==
  ASSUME NEW s \in Steps, NEW y \in Places
  PROVE  /\ CP!News(y, s) \in Seq(Unit) /\ Sorted(CP!News(y, s))
         /\ CP!ToSet(CP!News(y, s)) = Behind(y, s, Len(s))
<1>1. /\ Len(s) \in Nat /\ Len(s) <= MaxSteps /\ DOMAIN s = 1 .. Len(s)
      /\ \A i \in 1 .. Len(s) : s[i] \in Nat /\ y[i] \in Nat
  <2>1. \A i \in 1 .. Len(s) : s[i] \in 0 .. MaxText /\ y[i] \in 0 .. MaxText
    BY StepsHave DEF Places
  <2> QED BY <2>1, StepsHave
<1>2. PICK d : d = [i \in 1 .. Len(s) |-> CP!Delta(i, y[i], s[i])]
  OBVIOUS
<1>3. CP!News(y, s) = CP!FlattenSeq(d)
  BY <1>1, <1>2 DEF CP!News
<1>4. \A i \in 1 .. Len(s) :
         /\ d[i] \in Seq(Unit) /\ Sorted(d[i])
         /\ CP!ToSet(d[i]) = {u \in Unit : u[1] = i /\ y[i] < u[2] /\ u[2] <= s[i]}
  <2> SUFFICES ASSUME NEW i \in 1 .. Len(s)
               PROVE  /\ d[i] \in Seq(Unit) /\ Sorted(d[i])
                      /\ CP!ToSet(d[i]) = {u \in Unit : u[1] = i /\ y[i] < u[2] /\ u[2] <= s[i]}
    OBVIOUS
  <2>1. d[i] = CP!Delta(i, y[i], s[i])
    BY <1>2
  <2>2. i \in Nat /\ y[i] \in Nat /\ s[i] \in Nat
    BY <1>1
  <2>3. d[i] \in Seq(Unit) /\ Sorted(d[i]) /\ CP!ToSet(d[i]) = Stretch(i, y[i], s[i])
    <3>1. PICK from, to \in Nat : from = y[i] /\ to = s[i]
      BY <2>2
    <3>2. PICK e : e = d[i]
      OBVIOUS
    <3>3. i \in Nat /\ from \in Nat /\ to \in Nat /\ e = CP!Delta(i, from, to)
      BY <2>1, <2>2, <3>1, <3>2
    <3>4. e \in Seq(Unit) /\ Sorted(e) /\ CP!ToSet(e) = Stretch(i, from, to)
      BY ONLY <3>3, DeltaIs
    <3> QED BY <3>1, <3>2, <3>4
  <2> QED BY <2>3 DEF Stretch
<1>5. d \in Seq(Seq(Unit)) /\ Len(d) = Len(s)
  <2>1. d \in [1 .. Len(s) -> Seq(Unit)]
    BY <1>2, <1>4
  <2>2. d \in Seq(Seq(Unit))
    BY <1>1, <2>1, SeqDef
  <2>3. DOMAIN d = 1 .. Len(d) /\ Len(d) \in Nat
    BY <2>2, LenProperties
  <2> QED BY <1>1, <2>1, <2>2, <2>3
<1>6. CASE Len(s) = 0
  <2>1. CP!FlattenSeq(d) = d
    BY <1>5, <1>6 DEF CP!FlattenSeq
  <2>2. d = <<>>
    BY <1>2, <1>6
  <2>3. <<>> \in Seq(Unit) /\ Sorted(<<>>) /\ CP!ToSet(<<>>) = {}
    BY EmptySeq DEF Sorted, CP!ToSet
  <2>4. Behind(y, s, Len(s)) = {}
    BY <1>6 DEF Behind
  <2> QED BY <1>3, <2>1, <2>2, <2>3, <2>4
<1>7. CASE Len(s) # 0
  <2>1. PICK f : /\ f = [i \in 1 .. Len(d) |-> IF i = 1 THEN d[i] ELSE f[i - 1] \o d[i]]
                 /\ CP!FlattenSeq(d) = f[Len(d)]
    <3>1. Len(d) \in Nat \ {0}
      BY <1>1, <1>5, <1>7
    <3> QED BY <3>1, Flat
  <2>2. \A i \in 1 .. Len(s) : f[i] = IF i = 1 THEN d[i] ELSE f[i - 1] \o d[i]
    BY <1>5, <2>1
  <2> DEFINE Good(k) == f[k] \in Seq(Unit) /\ Sorted(f[k]) /\ CP!ToSet(f[k]) = Behind(y, s, k)
             Bad == {k \in 1 .. Len(s) : ~Good(k)}
  <2>3. Good(1)
    <3>1. f[1] = d[1] /\ 1 \in 1 .. Len(s)
      BY <1>1, <1>7, <2>2
    <3>2. Behind(y, s, 1) = {u \in Unit : u[1] = 1 /\ y[1] < u[2] /\ u[2] <= s[1]}
      BY DEF Behind, Unit
    <3> QED BY <1>4, <3>1, <3>2
  <2>4. ASSUME NEW k \in 1 .. Len(s), k # 1, Good(k - 1) PROVE Good(k)
    <3>1. f[k] = f[k - 1] \o d[k]
      BY <2>2, <2>4
    <3>2. ASSUME NEW u \in CP!ToSet(f[k - 1]), NEW v \in CP!ToSet(d[k]) PROVE CP!Before(u, v)
      <4>1. u \in Unit /\ u[1] \in 1 .. k - 1
        BY <2>4, <3>2 DEF Behind
      <4>2. v[1] = k
        BY <1>4, <3>2
      <4> QED BY <4>1, <4>2 DEF CP!Before
    <3>3. Behind(y, s, k) = Behind(y, s, k - 1) \cup {u \in Unit : u[1] = k /\ y[k] < u[2] /\ u[2] <= s[k]}
      <4>1. \A i \in Nat : i \in 1 .. k <=> i \in 1 .. k - 1 \/ i = k
        BY <1>1, <2>4
      <4>2. \A u \in Unit : u[1] \in Nat
        BY DEF Unit
      <4> QED BY <4>1, <4>2 DEF Behind
    <3>4. f[k - 1] \in Seq(Unit) /\ d[k] \in Seq(Unit) /\ Sorted(f[k - 1]) /\ Sorted(d[k])
      BY <1>4, <2>4
    <3>5. f[k] \in Seq(Unit) /\ Sorted(f[k]) /\ CP!ToSet(f[k]) = CP!ToSet(f[k - 1]) \cup CP!ToSet(d[k])
      BY <3>1, <3>2, <3>4, Joined
    <3> QED BY <1>4, <2>4, <3>3, <3>5
  <2>5. Bad = {}
    <3>1. SUFFICES ASSUME Bad # {} PROVE FALSE
      OBVIOUS
    <3>2. PICK k \in Bad : \A j \in Bad : k <= j
      <4>1. Bad \in SUBSET Nat
        BY <1>1
      <4> HIDE DEF Bad
      <4> QED BY <3>1, <4>1, LeastOf
    <3>3. k \in 1 .. Len(s) /\ ~Good(k)
      BY <3>2
    <3>4. k # 1
      <4> HIDE DEF Good
      <4> QED BY <2>3, <3>3
    <3>5. k - 1 \in 1 .. Len(s) /\ ~(k <= k - 1)
      BY <1>1, <3>3, <3>4
    <3>6. k - 1 \notin Bad
      <4> HIDE DEF Bad
      <4> QED BY <3>2, <3>5
    <3>7. Good(k - 1)
      <4> HIDE DEF Good
      <4> QED BY <3>5, <3>6
    <3> HIDE DEF Good
    <3> QED BY <2>4, <3>3, <3>4, <3>7
  <2>6. Good(Len(s))
    <3>1. Len(s) \in 1 .. Len(s)
      BY <1>1, <1>7
    <3> HIDE DEF Good
    <3> QED BY <2>5, <3>1
  <2> QED BY <1>3, <1>5, <2>1, <2>6
<1> QED BY <1>6, <1>7

\* t came out of s by growth: only the last step of s may be longer in t.
Ext(s, t) ==
  /\ Len(s) <= Len(t)
  /\ \A i \in 1 .. Len(s) : s[i] <= t[i] /\ (i < Len(s) => s[i] = t[i])

\* y is a place in t: a step is begun when those before it are read to their end.
Place(y, t) ==
  /\ \A i \in 1 .. MaxSteps : y[i] <= At(t, i)
  /\ \A i, j \in 1 .. MaxSteps : i < j /\ y[j] > 0 => y[i] = At(t, i)

\* The text before the place y.
UpTo(y) == {u \in Unit : u[1] \in 1 .. MaxSteps /\ u[2] \in 1 .. y[u[1]]}

LEMMA Atis ==
  ASSUME NEW t \in Steps, NEW i \in 1 .. MaxSteps
  PROVE  At(t, i) \in 0 .. MaxText /\ At(t, i) \in Nat /\ Unread(t)[i] = At(t, i)
<1>1. Unread(t) \in Places
  BY StepsHave
<1>2. Unread(t)[i] = At(t, i)
  BY DEF Unread
<1> QED BY <1>1, <1>2 DEF Places

LEMMA ExtSame == ASSUME NEW s \in Steps PROVE Ext(s, s)
<1>1. Len(s) \in Nat /\ \A i \in 1 .. Len(s) : s[i] \in 0 .. MaxText
  BY StepsHave
<1> QED BY <1>1 DEF Ext

LEMMA ExtOn ==
  ASSUME NEW r \in Steps, NEW s \in Steps, NEW t \in Steps, Ext(r, s), Ext(s, t)
  PROVE  Ext(r, t)
<1>1. /\ Len(r) \in Nat /\ Len(s) \in Nat /\ Len(t) \in Nat
      /\ \A i \in 1 .. Len(r) : r[i] \in Nat /\ i \in Nat
      /\ \A i \in 1 .. Len(s) : s[i] \in Nat
      /\ \A i \in 1 .. Len(t) : t[i] \in Nat
  <2>1. /\ \A i \in 1 .. Len(r) : r[i] \in 0 .. MaxText
        /\ \A i \in 1 .. Len(s) : s[i] \in 0 .. MaxText
        /\ \A i \in 1 .. Len(t) : t[i] \in 0 .. MaxText
    BY StepsHave
  <2> QED BY <2>1, StepsHave
<1>2. Len(r) <= Len(s) /\ Len(s) <= Len(t)
  BY DEF Ext
<1>3. ASSUME NEW i \in 1 .. Len(r) PROVE r[i] <= t[i] /\ (i < Len(r) => r[i] = t[i])
  <2>1. i \in 1 .. Len(s) /\ i \in 1 .. Len(t) /\ (i < Len(r) => i < Len(s))
    BY <1>1, <1>2
  <2>2. r[i] <= s[i] /\ s[i] <= t[i] /\ (i < Len(r) => r[i] = s[i]) /\ (i < Len(s) => s[i] = t[i])
    BY <2>1 DEF Ext
  <2> QED BY <1>1, <2>1, <2>2
<1> QED BY <1>1, <1>2, <1>3 DEF Ext

LEMMA PlaceGrows ==
  ASSUME NEW y \in Places, NEW s \in Steps, NEW t \in Steps, Place(y, s), Ext(s, t)
  PROVE  Place(y, t)
<1>1. /\ Len(s) \in Nat /\ Len(t) \in Nat /\ Len(s) <= Len(t)
      /\ \A i \in 1 .. MaxSteps : y[i] \in Nat /\ i \in Nat /\ At(s, i) \in Nat /\ At(t, i) \in Nat
  <2>1. \A i \in 1 .. MaxSteps : y[i] \in 0 .. MaxText
    BY DEF Places
  <2> QED BY <2>1, StepsHave, Atis DEF Ext
<1>2. ASSUME NEW i \in 1 .. MaxSteps PROVE At(s, i) <= At(t, i) /\ (i < Len(s) => At(s, i) = At(t, i))
  <2>1. CASE i <= Len(s)
    <3>1. i \in 1 .. Len(s) /\ At(s, i) = s[i] /\ At(t, i) = t[i]
      BY <1>1, <2>1 DEF At
    <3> QED BY <3>1 DEF Ext
  <2>2. CASE ~(i <= Len(s))
    <3>1. At(s, i) = 0
      BY <2>2 DEF At
    <3> QED BY <1>1, <2>2, <3>1
  <2> QED BY <2>1, <2>2
<1>3. ASSUME NEW i \in 1 .. MaxSteps PROVE y[i] <= At(t, i)
  <2>1. y[i] <= At(s, i)
    BY DEF Place
  <2> QED BY <1>1, <1>2, <2>1
<1>4. ASSUME NEW i \in 1 .. MaxSteps, NEW j \in 1 .. MaxSteps, i < j, y[j] > 0 PROVE y[i] = At(t, i)
  <2>1. y[i] = At(s, i) /\ y[j] <= At(s, j)
    BY <1>4 DEF Place
  <2>2. At(s, j) > 0
    BY <1>1, <1>4, <2>1
  <2>3. j <= Len(s)
    BY <2>2 DEF At
  <2>4. i < Len(s)
    BY <1>1, <1>4, <2>3
  <2> QED BY <1>2, <2>1, <2>4
<1> QED BY <1>3, <1>4 DEF Place

LEMMA UptoIs ==
  ASSUME NEW y \in Places, NEW s \in Steps, Place(y, s)
  PROVE  CP!Upto(y, s) = Unread(s) /\ Unread(s) \in Places /\ Place(Unread(s), s)
<1>1. DOMAIN y = 1 .. MaxSteps /\ DOMAIN s = 1 .. Len(s) /\ Len(s) \in Nat
  BY StepsHave DEF Places
<1>2. ASSUME NEW i \in 1 .. MaxSteps
      PROVE  (IF i \in DOMAIN s /\ s[i] > y[i] THEN s[i] ELSE y[i]) = At(s, i)
  <2>1. y[i] \in Nat /\ i \in Nat /\ y[i] <= At(s, i) /\ At(s, i) \in Nat
    <3>1. y[i] \in 0 .. MaxText
      BY DEF Places
    <3> QED BY <3>1, Atis DEF Place
  <2>2. CASE i <= Len(s)
    <3>1. i \in DOMAIN s /\ At(s, i) = s[i]
      BY <1>1, <2>1, <2>2 DEF At
    <3> QED BY <2>1, <3>1
  <2>3. CASE ~(i <= Len(s))
    <3>1. i \notin DOMAIN s /\ At(s, i) = 0
      BY <1>1, <2>1, <2>3 DEF At
    <3> QED BY <2>1, <3>1
  <2> QED BY <2>2, <2>3
<1>3. CP!Upto(y, s) = Unread(s)
  BY <1>1, <1>2 DEF CP!Upto, Unread
<1>4. \A i \in 1 .. MaxSteps : Unread(s)[i] = At(s, i) /\ At(s, i) \in Nat
  BY Atis
<1> QED BY <1>3, <1>4, StepsHave DEF Place

\* What is new comes behind what was said, and is what was missing.
LEMMA SaysMore ==
  ASSUME NEW w \in Seq(Unit), NEW y \in Places, NEW s \in Steps, Place(y, s),
         Sorted(w), CP!ToSet(w) = UpTo(y)
  PROVE  /\ w \o CP!News(y, s) \in Seq(Unit) /\ Sorted(w \o CP!News(y, s))
         /\ CP!ToSet(w \o CP!News(y, s)) = UpTo(Unread(s))
<1>1. PICK news : news = CP!News(y, s)
  OBVIOUS
<1>2. news \in Seq(Unit) /\ Sorted(news) /\ CP!ToSet(news) = Behind(y, s, Len(s))
  BY <1>1, NewsIs
<1>3. /\ Len(s) \in Nat /\ Len(s) <= MaxSteps /\ MaxSteps \in Nat
      /\ \A i \in 1 .. MaxSteps : /\ y[i] \in Nat /\ At(s, i) \in Nat /\ Unread(s)[i] = At(s, i)
                                 /\ y[i] <= At(s, i)
      /\ \A i \in 1 .. Len(s) : i \in 1 .. MaxSteps /\ At(s, i) = s[i]
  <2>1. \A i \in 1 .. MaxSteps : y[i] \in 0 .. MaxText /\ y[i] <= At(s, i)
    BY DEF Places, Place
  <2> QED BY <2>1, StepsHave, Atis, PollLimited DEF PollLimits, At
<1>4. ASSUME NEW u \in UpTo(y), NEW v \in Behind(y, s, Len(s)) PROVE CP!Before(u, v)
  <2>1. /\ u[1] \in 1 .. MaxSteps /\ u[2] \in Nat /\ u[2] > 0 /\ u[2] <= y[u[1]]
        /\ v[1] \in 1 .. MaxSteps /\ v[2] \in Nat /\ y[v[1]] < v[2] /\ v[2] <= At(s, v[1])
    BY <1>3 DEF UpTo, Behind, Unit
  <2>2. CASE u[1] < v[1]
    BY <2>2 DEF CP!Before
  <2>3. CASE u[1] = v[1]
    BY <1>3, <2>1, <2>3 DEF CP!Before
  <2>4. CASE v[1] < u[1]
    <3>1. y[u[1]] > 0
      BY <1>3, <2>1
    <3>2. y[v[1]] = At(s, v[1])
      BY <2>1, <2>4, <3>1 DEF Place
    <3> QED BY <1>3, <2>1, <3>2
  <2> QED BY <2>1, <2>2, <2>3, <2>4
<1>5. ASSUME NEW u \in Unit PROVE u \in UpTo(Unread(s)) <=> u \in UpTo(y) \/ u \in Behind(y, s, Len(s))
  <2>1. u[1] \in Nat /\ u[2] \in Nat
    BY DEF Unit
  <2>2. CASE u[1] \in 1 .. Len(s)
    <3>1. u[1] \in 1 .. MaxSteps /\ y[u[1]] \in Nat /\ s[u[1]] \in Nat
          /\ y[u[1]] <= s[u[1]] /\ Unread(s)[u[1]] = s[u[1]]
      BY <1>3, <2>2
    <3> QED BY <2>1, <2>2, <3>1 DEF UpTo, Behind
  <2>3. CASE u[1] \notin 1 .. Len(s)
    <3>1. u[1] \in 1 .. MaxSteps => Unread(s)[u[1]] = 0 /\ y[u[1]] = 0
      BY <1>3, <2>1, <2>3 DEF At
    <3> QED BY <2>1, <2>3, <3>1 DEF UpTo, Behind
  <2> QED BY <2>2, <2>3
<1>6. UpTo(Unread(s)) = UpTo(y) \cup Behind(y, s, Len(s))
  BY <1>5 DEF UpTo, Behind
<1> QED BY <1>1, <1>2, <1>4, <1>6, Joined

LEMMA UnitsAre == ASSUME NEW t \in Steps PROVE CP!Units(t) = UpTo(Unread(t))
<1>1. /\ Len(t) \in Nat /\ DOMAIN t = 1 .. Len(t)
      /\ \A i \in 1 .. Len(t) : i \in 1 .. MaxSteps /\ t[i] \in Nat /\ Unread(t)[i] = t[i] /\ i \in Nat
  <2>1. \A i \in 1 .. Len(t) : i \in 1 .. MaxSteps /\ t[i] \in 0 .. MaxText
    BY StepsHave
  <2>2. \A i \in 1 .. Len(t) : At(t, i) = t[i]
    BY StepsHave DEF At
  <2> QED BY <2>1, <2>2, StepsHave, Atis
<1>2. \A i \in 1 .. MaxSteps : i \notin 1 .. Len(t) => Unread(t)[i] = 0
  BY <1>1, Atis DEF At
<1>3. ASSUME NEW u \in CP!Units(t) PROVE u \in UpTo(Unread(t))
  <2>1. PICK i \in 1 .. Len(t) : \E p \in 1 .. t[i] : u = <<i, p>>
    BY <1>1 DEF CP!Units
  <2>2. PICK p \in 1 .. t[i] : u = <<i, p>>
    BY <2>1
  <2>3. i \in Nat /\ p \in Nat /\ i \in 1 .. MaxSteps /\ Unread(t)[i] = t[i]
    BY <1>1
  <2> QED BY <2>2, <2>3 DEF UpTo, Unit
<1>4. ASSUME NEW u \in UpTo(Unread(t)) PROVE u \in CP!Units(t)
  <2>1. u \in Unit /\ u[1] \in 1 .. MaxSteps /\ u[2] \in 1 .. Unread(t)[u[1]]
    BY DEF UpTo
  <2>2. u[1] \in 1 .. Len(t)
    BY <1>2, <2>1
  <2>3. u[2] \in 1 .. t[u[1]] /\ u = <<u[1], u[2]>>
    BY <1>1, <2>1, <2>2 DEF Unit
  <2> QED BY <1>1, <2>2, <2>3 DEF CP!Units
<1> QED BY <1>3, <1>4

LEMMA PollSize == \A S : CP!Cardinality(S) = Cardinality(S)
  BY DEF CP!Cardinality, Cardinality

\* While the text is within its bound, so is each step.
LEMMA RoomLeft ==
  ASSUME NEW t \in Steps, Cardinality(CP!Units(t)) < MaxText, NEW n \in 1 .. Len(t)
  PROVE  t[n] < MaxText
<1>1. MaxText \in Nat /\ MaxSteps \in Nat /\ t[n] \in 0 .. MaxText /\ n \in 1 .. MaxSteps
  BY StepsHave, PollLimited DEF PollLimits
<1>2. IsFiniteSet(CP!Units(t)) /\ Cardinality(CP!Units(t)) \in Nat
  <2>1. IsFiniteSet(1 .. MaxSteps) /\ IsFiniteSet(1 .. MaxText)
    BY <1>1, FS_Interval
  <2>2. IsFiniteSet((1 .. MaxSteps) \X (1 .. MaxText))
    BY <2>1, FS_Product
  <2>3. UpTo(Unread(t)) \subseteq (1 .. MaxSteps) \X (1 .. MaxText)
    <3>1. \A i \in 1 .. MaxSteps : Unread(t)[i] \in 0 .. MaxText
      BY Atis
    <3>2. ASSUME NEW u \in UpTo(Unread(t)) PROVE u \in (1 .. MaxSteps) \X (1 .. MaxText)
      <4>1. u \in Unit /\ u[1] \in 1 .. MaxSteps /\ u[2] \in 1 .. Unread(t)[u[1]]
        BY DEF UpTo
      <4>2. u[2] \in 1 .. MaxText
        BY <1>1, <3>1, <4>1
      <4> QED BY <4>1, <4>2 DEF Unit
    <3> QED BY <3>2
  <2> QED BY <2>2, <2>3, UnitsAre, FS_Subset, FS_CardinalityType
<1>3. ({n} \X (1 .. t[n])) \subseteq CP!Units(t)
  BY StepsHave DEF CP!Units
<1>4. Cardinality({n} \X (1 .. t[n])) = t[n]
  <2>1. IsFiniteSet({n}) /\ Cardinality({n}) = 1
    BY FS_Singleton
  <2>2. IsFiniteSet(1 .. t[n]) /\ Cardinality(1 .. t[n]) = t[n]
    <3>1. PICK m \in Nat : m = t[n]
      BY <1>1
    <3>2. IsFiniteSet(1 .. m) /\ Cardinality(1 .. m) = IF 1 > m THEN 0 ELSE m - 1 + 1
      BY FS_Interval
    <3>3. (IF 1 > m THEN 0 ELSE m - 1 + 1) = m
      OBVIOUS
    <3> QED BY <3>1, <3>2, <3>3
  <2>3. Cardinality({n} \X (1 .. t[n])) = Cardinality({n}) * Cardinality(1 .. t[n])
    BY <2>1, <2>2, FS_Product
  <2> QED BY <1>1, <2>1, <2>2, <2>3
<1>5. Cardinality({n} \X (1 .. t[n])) <= Cardinality(CP!Units(t))
  BY <1>2, <1>3, FS_Subset
<1> QED BY <1>1, <1>2, <1>4, <1>5

-----------------------------------------------------------------------------
Ways == {"none", "max_wait", "gone", "error", "model_error", "stall_cold", "stall_retry",
         "stall_warm", "idle"}
Turn ==
  [state : {"waiting", "running", "idle"}, steps : Steps, tool : BOOLEAN, err : BOOLEAN,
   mod : {"none", "longer", "other"}, timely : BOOLEAN]
Loops ==
  [pc : {"sleep", "digest", "status", "judge", "sweep", "done"}, at : Nat,
   seen : [steps : Steps, tool : BOOLEAN, err : BOOLEAN], yielded : Places, idle : 0 .. 4,
   active : BOOLEAN, text : BOOLEAN, tool : BOOLEAN, lastIdle : BOOLEAN, growth : Nat,
   steps : Nat, stepsErrs : 0 .. MaxTransient, statusErrs : 0 .. MaxTransient, end : Ways]

PollTyped ==
  /\ now \in Nat /\ now <= MaxTime
  /\ srv \in Turn /\ poll \in Loops /\ said \in Seq(Unit) /\ dropped \in Nat
  /\ poll.at <= now /\ poll.growth <= now /\ dropped <= now

\* The counters of a loop that is not over.
Counted ==
  /\ poll.pc \notin {"sweep", "done"} => poll.idle <= 3
  /\ poll.pc # "done" => poll.end = "none" /\ dropped <= poll.growth
  /\ poll.pc = "sweep" => poll.idle >= 1

\* The loop is somewhere in the trajectory, and what it last read became the trajectory.
Placed ==
  /\ Place(poll.yielded, srv.steps)
  /\ poll.pc = "digest" => Place(poll.yielded, poll.seen.steps) /\ Ext(poll.seen.steps, srv.steps)

\* It said all up to there, in order.
NoGaps(s) == \A u \in CP!ToSet(s) : u[2] > 1 => <<u[1], u[2] - 1>> \in CP!ToSet(s)
Told ==
  /\ Sorted(said) /\ NoGaps(said)
  /\ poll.pc # "done" => CP!ToSet(said) = UpTo(poll.yielded)

\* When an IDLE that counts, or may come to count, was of the turn and not from before it.
TurnSeen ==
  /\ srv.mod # "none" => srv.steps # <<>> /\ srv.state = "idle"
  /\ srv.timely => srv.state # "waiting"
  /\ poll.active => srv.state # "waiting"
  /\ poll.pc = "judge" /\ poll.lastIdle /\ srv.timely => srv.state = "idle"
  /\ poll.idle >= 1 /\ srv.state = "waiting" => now > IdleGrace
  /\ poll.idle >= 1 /\ srv.timely => srv.state = "idle"

\* After the first such IDLE the steps are read once more, and then they are final.
Completing ==
  /\ poll.pc = "digest" /\ poll.idle >= 1 /\ srv.timely =>
       poll.seen.steps = srv.steps /\ poll.seen.err = srv.err
  /\ poll.pc \in {"status", "judge", "sweep"} /\ poll.idle >= 1 /\ srv.timely =>
       ~srv.err /\ poll.yielded = Unread(srv.steps)
  /\ poll.end = "idle" /\ srv.timely =>
       ~srv.err /\ CP!Units(srv.steps) \subseteq CP!ToSet(said)

PollInv == PollTyped /\ Counted /\ Placed /\ Told /\ TurnSeen /\ Completing

Zeros == [i \in 1 .. MaxSteps |-> 0]

LEMMA ZerosFit ==
  Zeros \in Places /\ UpTo(Zeros) = {} /\ \A t \in Steps : Place(Zeros, t)
<1>1. MaxSteps \in Nat /\ MaxText \in Nat
  BY PollLimited DEF PollLimits
<1>2. Zeros \in Places
  BY <1>1 DEF Zeros, Places
<1>3. UpTo(Zeros) = {}
  BY DEF UpTo, Zeros
<1>4. ASSUME NEW t \in Steps PROVE Place(Zeros, t)
  <2>1. \A i \in 1 .. MaxSteps : At(t, i) \in Nat
    BY Atis
  <2> QED BY <2>1 DEF Place, Zeros
<1> QED BY <1>2, <1>3, <1>4

LEMMA NoneYet ==
  /\ <<>> \in Steps /\ <<>> \in Seq(Unit) /\ CP!ToSet(<<>>) = {} /\ Sorted(<<>>) /\ NoGaps(<<>>)
<1>1. <<>> \in Steps
  <2>1. <<>> \in Seq(0 .. MaxText) /\ Len(<<>>) = 0
    BY EmptySeq
  <2> QED BY <2>1, PollLimited DEF Steps, PollLimits
<1>2. <<>> \in Seq(Unit) /\ CP!ToSet(<<>>) = {} /\ Sorted(<<>>)
  BY EmptySeq DEF CP!ToSet, Sorted
<1> QED BY <1>1, <1>2 DEF NoGaps

LEMMA LocalsFit ==
  /\ CP!Locals \in Loops /\ CP!Locals.pc = "sleep" /\ CP!Locals.yielded = Zeros
  /\ CP!Locals.idle = 0 /\ CP!Locals.active = FALSE /\ CP!Locals.end = "none"
  /\ CP!Locals.at = 0 /\ CP!Locals.growth = 0
<1>1. [steps |-> <<>>, tool |-> FALSE, err |-> FALSE] \in [steps : Steps, tool : BOOLEAN, err : BOOLEAN]
  BY NoneYet
<1>2. MaxTransient \in Nat
  BY PollLimited DEF PollLimits
<1> QED BY <1>1, <1>2, ZerosFit DEF CP!Locals, CP!NothingSeen, Loops, Zeros, Ways

LEMMA PollStarts == ASSUME CP!Init PROVE PollInv
<1>1. now = 0 /\ srv = CP!NoTurnYet /\ poll = CP!Locals /\ said = <<>> /\ dropped = 0
  BY DEF CP!Init
<1>2. /\ srv \in Turn /\ srv.state = "waiting" /\ srv.steps = <<>> /\ srv.mod = "none" /\ ~srv.timely
      /\ srv.steps \in Steps
  BY <1>1, NoneYet DEF CP!NoTurnYet, Turn
<1>3. PollTyped
  BY <1>1, <1>2, LocalsFit, NoneYet, PollLimited DEF PollTyped, PollLimits
<1>4. Counted /\ TurnSeen /\ Completing
  BY <1>1, <1>2, LocalsFit DEF Counted, TurnSeen, Completing
<1>5. Placed /\ Told
  BY <1>1, <1>2, LocalsFit, NoneYet, ZerosFit DEF Placed, Told
<1> QED BY <1>3, <1>4, <1>5 DEF PollInv

-----------------------------------------------------------------------------
\* The server goes on with the turn while the loop runs.
LEMMA TurnGrows ==
  ASSUME PollInv, poll.pc # "done", NEW s \in Turn, srv' = s, Ext(srv.steps, s.steps),
         UNCHANGED <<now, poll, said, dropped>>
  PROVE  PollTyped' /\ Counted' /\ Placed' /\ Told'
<1>1. now' = now /\ poll' = poll /\ said' = said /\ dropped' = dropped
  OBVIOUS
<1>2. srv \in Turn /\ poll \in Loops
  BY DEF PollInv, PollTyped
<1>3. /\ srv.steps \in Steps /\ s.steps \in Steps /\ poll.seen.steps \in Steps
      /\ poll.yielded \in Places
  BY <1>2 DEF Turn, Loops
<1>4. PollTyped' /\ Counted' /\ Told'
  BY <1>1 DEF PollInv, PollTyped, Counted, Told
<1>5. Place(poll.yielded, s.steps)
  BY <1>3, PlaceGrows DEF PollInv, Placed
<1>6. poll.pc = "digest" => Ext(poll.seen.steps, s.steps)
  BY <1>3, ExtOn DEF PollInv, Placed
<1>7. Placed'
  BY <1>1, <1>5, <1>6 DEF PollInv, Placed
<1> QED BY <1>4, <1>7

LEMMA BeginKeeps == ASSUME PollInv, CP!Begin PROVE PollInv'
<1>1. poll.pc # "done" /\ srv.state = "waiting" /\ UNCHANGED <<now, poll, said, dropped>>
  BY DEF CP!Begin, CP!Watched
<1>2. srv \in Turn
  BY DEF PollInv, PollTyped
<1>3. PICK s : s = [srv EXCEPT !.state = "running", !.timely = now <= IdleGrace /\ poll.pc # "judge"]
  OBVIOUS
<1>4. srv' = s
  BY <1>3 DEF CP!Begin
<1>5. /\ s.state = "running" /\ s.steps = srv.steps /\ s.err = srv.err /\ s.mod = srv.mod
      /\ s.timely = (now <= IdleGrace /\ poll.pc # "judge")
  BY <1>2, <1>3 DEF Turn
<1>6. s \in Turn
  <2>1. (now <= IdleGrace /\ poll.pc # "judge") \in BOOLEAN
    OBVIOUS
  <2> QED BY <1>2, <1>3, <2>1 DEF Turn
<1>7. Ext(srv.steps, s.steps)
  BY <1>2, <1>5, ExtSame DEF Turn
<1>8. PollTyped' /\ Counted' /\ Placed' /\ Told'
  BY <1>1, <1>4, <1>6, <1>7, TurnGrows
<1>9. poll.idle >= 1 => ~s.timely
  <2>1. poll.idle >= 1 => now > IdleGrace
    BY <1>1 DEF PollInv, TurnSeen
  <2>2. now \in Nat /\ IdleGrace \in Nat
    BY PollLimited DEF PollInv, PollTyped, PollLimits
  <2>3. poll.idle >= 1 => ~(now <= IdleGrace)
    BY <2>1, <2>2
  <2>4. ~(now <= IdleGrace) => s.timely = FALSE
    BY <1>5
  <2> QED BY <2>3, <2>4
<1>10. srv.mod = "none"
  BY <1>1 DEF PollInv, TurnSeen
<1>11. TurnSeen'
  BY <1>1, <1>4, <1>5, <1>9, <1>10 DEF TurnSeen
<1>12. Completing'
  BY <1>1, <1>4, <1>9 DEF PollInv, Counted, Completing
<1> QED BY <1>8, <1>11, <1>12 DEF PollInv

LEMMA GrowKeeps == ASSUME PollInv, CP!Grow PROVE PollInv'
<1>1. poll.pc # "done" /\ srv.state = "running" /\ UNCHANGED <<now, poll, said, dropped>>
  BY DEF CP!Grow, CP!Watched
<1>2. srv \in Turn /\ srv.steps \in Steps
  BY DEF PollInv, PollTyped, Turn
<1>3. /\ Len(srv.steps) \in Nat /\ Len(srv.steps) <= MaxSteps /\ DOMAIN srv.steps = 1 .. Len(srv.steps)
      /\ \A i \in 1 .. Len(srv.steps) : srv.steps[i] \in 0 .. MaxText
      /\ srv.steps \in Seq(0 .. MaxText) /\ MaxText \in Nat /\ MaxSteps \in Nat
  BY <1>2, StepsHave, PollLimited DEF PollLimits, Steps
<1>4. PICK s \in Turn : /\ srv' = s /\ Ext(srv.steps, s.steps)
                        /\ s.state = "running" /\ s.mod = srv.mod /\ s.timely = srv.timely
  <2>1. CASE /\ CP!Length < MaxText /\ srv.steps # <<>>
             /\ srv' = [srv EXCEPT !.steps[Len(srv.steps)] = @ + 1]
    <3>1. PICK n : n = Len(srv.steps)
      OBVIOUS
    <3>2. n \in 1 .. Len(srv.steps)
      BY <1>3, <2>1, <3>1, EmptySeq
    <3>3. srv.steps[n] < MaxText
      <4>1. Cardinality(CP!Units(srv.steps)) < MaxText
        BY <2>1, PollSize DEF CP!Length
      <4> QED BY <1>2, <3>2, <4>1, RoomLeft
    <3>4. PICK t : t = [srv.steps EXCEPT ![n] = srv.steps[n] + 1]
      OBVIOUS
    <3>5. /\ t \in [1 .. n -> 0 .. MaxText]
          /\ \A i \in 1 .. n : t[i] = IF i = n THEN srv.steps[n] + 1 ELSE srv.steps[i]
      <4>1. srv.steps[n] + 1 \in 0 .. MaxText
        BY <1>3, <3>2, <3>3
      <4>2. srv.steps \in [1 .. n -> 0 .. MaxText]
        BY <1>3, <3>1, LenProperties
      <4> QED BY <3>4, <4>1, <4>2
    <3>6. t \in Seq(0 .. MaxText) /\ Len(t) = n
      <4>1. t \in Seq(0 .. MaxText)
        BY <1>3, <3>1, <3>5, SeqDef
      <4>2. DOMAIN t = 1 .. Len(t) /\ Len(t) \in Nat
        BY <4>1, LenProperties
      <4> QED BY <1>3, <3>1, <3>5, <4>1, <4>2
    <3>7. t \in Steps
      BY <1>3, <3>1, <3>6 DEF Steps
    <3>8. Ext(srv.steps, t)
      <4>1. n \in Nat /\ \A i \in 1 .. n : srv.steps[i] \in Nat
        BY <1>3, <3>1
      <4>2. \A i \in 1 .. n : srv.steps[i] <= t[i] /\ (i < n => srv.steps[i] = t[i])
        BY <3>5, <4>1
      <4> QED BY <3>1, <3>6, <4>1, <4>2 DEF Ext
    <3>9. srv' = [srv EXCEPT !.steps = t]
      BY <2>1, <3>1, <3>4
    <3>10. [srv EXCEPT !.steps = t] \in Turn
      BY <1>2, <3>7 DEF Turn
    <3> QED BY <1>1, <1>2, <3>8, <3>9, <3>10 DEF Turn
  <2>2. CASE Len(srv.steps) < MaxSteps /\ srv' = [srv EXCEPT !.steps = Append(@, 0)]
    <3>1. PICK t : t = Append(srv.steps, 0)
      OBVIOUS
    <3>2. /\ t \in Seq(0 .. MaxText) /\ Len(t) = Len(srv.steps) + 1
          /\ \A i \in 1 .. Len(srv.steps) : t[i] = srv.steps[i]
      <4>1. 0 \in 0 .. MaxText
        BY <1>3
      <4> QED BY <1>3, <3>1, <4>1, AppendProperties
    <3>3. t \in Steps
      BY <1>3, <2>2, <3>2 DEF Steps
    <3>4. Ext(srv.steps, t)
      BY <1>3, <3>2 DEF Ext
    <3>5. srv' = [srv EXCEPT !.steps = t]
      BY <2>2, <3>1
    <3>6. [srv EXCEPT !.steps = t] \in Turn
      BY <1>2, <3>3 DEF Turn
    <3> QED BY <1>1, <1>2, <3>4, <3>5, <3>6 DEF Turn
  <2>3. CASE srv' = [srv EXCEPT !.tool = TRUE]
    <3>1. [srv EXCEPT !.tool = TRUE] \in Turn
      BY <1>2 DEF Turn
    <3>2. Ext(srv.steps, srv.steps)
      BY <1>2, ExtSame
    <3> QED BY <1>1, <1>2, <2>3, <3>1, <3>2 DEF Turn
  <2> QED BY <2>1, <2>2, <2>3 DEF CP!Grow
<1>5. PollTyped' /\ Counted' /\ Placed' /\ Told'
  BY <1>1, <1>4, TurnGrows
<1>6. ~(poll.idle >= 1 /\ srv.timely) /\ srv.mod = "none"
      /\ ~(poll.pc = "judge" /\ poll.lastIdle /\ srv.timely)
  BY <1>1 DEF PollInv, TurnSeen
<1>7. TurnSeen'
  BY <1>1, <1>4, <1>6 DEF TurnSeen
<1>8. Completing'
  BY <1>1, <1>4, <1>6 DEF PollInv, Counted, Completing
<1> QED BY <1>5, <1>7, <1>8 DEF PollInv

LEMMA RestKeeps == ASSUME PollInv, CP!Rest PROVE PollInv'
<1>1. poll.pc # "done" /\ srv.state = "running" /\ UNCHANGED <<now, poll, said, dropped>>
  BY DEF CP!Rest, CP!Watched
<1>2. srv \in Turn /\ srv.steps \in Steps
  BY DEF PollInv, PollTyped, Turn
<1>3. srv.mod = "none"
  BY <1>1 DEF PollInv, TurnSeen
<1>4. PICK s \in Turn : /\ srv' = s /\ s.steps = srv.steps /\ s.state = "idle"
                        /\ s.timely = srv.timely /\ (s.mod # "none" => s.steps # <<>>)
  <2>1. CASE srv' = [srv EXCEPT !.state = "idle"]
    BY <1>2, <1>3, <2>1 DEF Turn
  <2>2. CASE srv' = [srv EXCEPT !.state = "idle", !.err = TRUE]
    <3>1. srv' \in Turn
      BY <1>2, <2>2 DEF Turn
    <3>2. /\ srv'.steps = srv.steps /\ srv'.state = "idle" /\ srv'.timely = srv.timely
          /\ srv'.mod = srv.mod
      BY <1>2, <2>2 DEF Turn
    <3> QED BY <1>3, <3>1, <3>2
  <2>3. ASSUME NEW m \in IF srv.steps = <<>> THEN {} ELSE {"longer", "other"},
               srv' = [srv EXCEPT !.state = "idle", !.mod = m]
        PROVE  \E s \in Turn : /\ srv' = s /\ s.steps = srv.steps /\ s.state = "idle"
                        /\ s.timely = srv.timely /\ (s.mod # "none" => s.steps # <<>>)
    <3>1. m \in {"longer", "other"} /\ srv.steps # <<>>
      OBVIOUS
    <3>2. srv' \in Turn /\ srv'.steps = srv.steps /\ srv'.state = "idle" /\ srv'.timely = srv.timely
      BY <1>2, <2>3, <3>1 DEF Turn
    <3> QED BY <3>1, <3>2
  <2> QED BY <2>1, <2>2, <2>3 DEF CP!Rest
<1>5. Ext(srv.steps, s.steps)
  BY <1>2, <1>4, ExtSame
<1>6. PollTyped' /\ Counted' /\ Placed' /\ Told'
  BY <1>1, <1>4, <1>5, TurnGrows
<1>7. ~(poll.idle >= 1 /\ srv.timely)
  BY <1>1 DEF PollInv, TurnSeen
<1>8. TurnSeen'
  BY <1>1, <1>4, <1>7 DEF TurnSeen
<1>9. Completing'
  BY <1>1, <1>4, <1>7 DEF PollInv, Counted, Completing
<1> QED BY <1>6, <1>8, <1>9 DEF PollInv

-----------------------------------------------------------------------------
\* The loop is over.
LEMMA Ending ==
  ASSUME PollInv, NEW e \in Ways, poll' = CP!Ends(e), UNCHANGED <<now, srv>>,
         dropped' \in Nat, dropped' <= now,
         said' \in Seq(Unit), Sorted(said'), NoGaps(said'),
         e = "idle" /\ srv.timely => ~srv.err /\ CP!Units(srv.steps) \subseteq CP!ToSet(said')
  PROVE  PollInv' /\ poll'.pc = "done" /\ poll'.end = e
<1>1. PICK q : q = CP!Ends(e)
  OBVIOUS
<1>2. q \in Loops /\ q.pc = "done" /\ q.end = e /\ q.idle = 0 /\ q.active = FALSE
      /\ q.yielded = Zeros /\ q.at = 0 /\ q.growth = 0
  BY <1>1, LocalsFit DEF CP!Ends, Loops
<1>3. poll' = q /\ now' = now /\ srv' = srv
  BY <1>1
<1>4. srv.steps \in Steps /\ now \in Nat
  BY DEF PollInv, PollTyped, Turn
<1>5. PollTyped'
  BY <1>2, <1>3, <1>4 DEF PollInv, PollTyped
<1>6. Counted'
  BY <1>2, <1>3 DEF Counted
<1>7. Placed'
  BY <1>2, <1>3, <1>4, ZerosFit DEF Placed
<1>8. Told'
  BY <1>2, <1>3 DEF Told, NoGaps, Sorted
<1>9. TurnSeen'
  BY <1>2, <1>3 DEF PollInv, TurnSeen
<1>10. Completing'
  BY <1>2, <1>3 DEF Completing
<1> QED BY <1>2, <1>3, <1>5, <1>6, <1>7, <1>8, <1>9, <1>10 DEF PollInv

LEMMA GivesUp ==
  ASSUME PollInv, NEW e \in Ways \ {"idle"}, poll' = CP!Ends(e), UNCHANGED <<now, srv, said>>,
         dropped' \in Nat, dropped' <= now
  PROVE  PollInv' /\ poll'.pc = "done" /\ poll'.end = e
<1>1. said' \in Seq(Unit) /\ Sorted(said') /\ NoGaps(said')
  BY DEF PollInv, PollTyped, Told
<1> QED BY <1>1, Ending

LEMMA StopKeeps ==
  ASSUME PollInv, CP!TimeUp \/ CP!Cancel \/ CP!Broken
  PROVE  PollInv'
<1>1. UNCHANGED <<now, srv, said, dropped>> /\ \E e \in {"max_wait", "gone", "error"} : poll' = CP!Ends(e)
  BY DEF CP!TimeUp, CP!Cancel, CP!Broken
<1>2. dropped' \in Nat /\ dropped' <= now
  BY <1>1 DEF PollInv, PollTyped
<1>3. PICK e \in {"max_wait", "gone", "error"} : poll' = CP!Ends(e)
  BY <1>1
<1>4. e \in Ways \ {"idle"}
  BY DEF Ways
<1> QED BY <1>1, <1>2, <1>3, <1>4, GivesUp

LEMMA NoErrs == 0 \in 0 .. MaxTransient /\ 0 \in 0 .. 4 /\ 0 \in Nat
  BY PollLimited DEF PollLimits

LEMMA AnswerStepsKeeps == ASSUME PollInv, CP!AnswerSteps PROVE PollInv'
<1>1. poll.pc = "sleep" /\ UNCHANGED <<now, srv, said, dropped>>
  BY DEF CP!AnswerSteps
<1>2. PICK a : a = [steps |-> srv.steps, tool |-> srv.tool, err |-> srv.err]
  OBVIOUS
<1>3. srv \in Turn /\ poll \in Loops /\ srv.steps \in Steps /\ now \in Nat
  BY DEF PollInv, PollTyped, Turn
<1>4. a \in [steps : Steps, tool : BOOLEAN, err : BOOLEAN] /\ a.steps = srv.steps /\ a.err = srv.err
  BY <1>2, <1>3 DEF Turn
<1>5. PICK q : q = [poll EXCEPT !.pc = "digest", !.at = now, !.stepsErrs = 0, !.seen = a]
  OBVIOUS
<1>6. poll' = q
  BY <1>2, <1>5 DEF CP!AnswerSteps, CP!Goes
<1>7. q \in Loops
  BY <1>3, <1>4, <1>5, NoErrs DEF Loops
<1>8. /\ q.pc = "digest" /\ q.at = now /\ q.seen = a /\ q.yielded = poll.yielded /\ q.idle = poll.idle
      /\ q.active = poll.active /\ q.growth = poll.growth /\ q.end = poll.end
  BY <1>3, <1>5 DEF Loops
<1>9. PollTyped'
  BY <1>1, <1>3, <1>6, <1>7, <1>8 DEF PollInv, PollTyped
<1>10. Counted'
  BY <1>1, <1>6, <1>8 DEF PollInv, Counted
<1>11. Placed'
  BY <1>1, <1>3, <1>4, <1>6, <1>8, ExtSame DEF PollInv, Placed
<1>12. Told'
  BY <1>1, <1>6, <1>8 DEF PollInv, Told
<1>13. TurnSeen'
  BY <1>1, <1>6, <1>8 DEF PollInv, TurnSeen
<1>14. Completing'
  BY <1>1, <1>4, <1>6, <1>8 DEF PollInv, Completing, Counted
<1> QED BY <1>9, <1>10, <1>11, <1>12, <1>13, <1>14 DEF PollInv

LEMMA TransientKeeps ==
  ASSUME PollInv, CP!Transient("sleep", "stepsErrs") \/ CP!Transient("status", "statusErrs")
  PROVE  PollInv'
<1>1. poll.pc \in {"sleep", "status"} /\ UNCHANGED <<now, srv, said>>
      /\ dropped' = IF poll.text THEN now ELSE 0
  BY DEF CP!Transient
<1>2. poll \in Loops /\ now \in Nat /\ MaxTransient \in Nat
  BY PollLimited DEF PollInv, PollTyped, PollLimits
<1>3. dropped' \in Nat /\ dropped' <= now
  BY <1>1, <1>2
<1>4. CASE poll' = CP!Ends("error")
  <2>1. "error" \in Ways \ {"idle"}
    BY DEF Ways
  <2> QED BY <1>1, <1>3, <1>4, <2>1, GivesUp
<1>5. ASSUME NEW q \in Loops, poll' = q, q.pc = "sleep", q.growth = now, q.at = poll.at,
             q.seen = poll.seen, q.yielded = poll.yielded, q.idle = poll.idle, q.active = poll.active,
             q.end = poll.end
      PROVE  PollInv'
  <2>1. PollTyped'
    BY <1>1, <1>2, <1>3, <1>5 DEF PollInv, PollTyped
  <2>2. Counted'
    BY <1>1, <1>3, <1>5 DEF PollInv, Counted
  <2>3. Placed' /\ Told'
    BY <1>1, <1>5 DEF PollInv, Placed, Told
  <2>4. TurnSeen'
    BY <1>1, <1>5 DEF PollInv, TurnSeen
  <2>5. Completing'
    BY <1>1, <1>5 DEF PollInv, Completing, Counted
  <2> QED BY <2>1, <2>2, <2>3, <2>4, <2>5 DEF PollInv
<1>6. CASE /\ ~CP!Spent("stepsErrs")
           /\ poll' = [poll EXCEPT !.pc = "sleep", !["stepsErrs"] = @ + 1, !.growth = now]
  <2>1. poll.stepsErrs + 1 \in 0 .. MaxTransient
    <3>1. poll.stepsErrs \in 0 .. MaxTransient
      BY <1>2 DEF Loops
    <3>2. poll.stepsErrs # MaxTransient
      BY <1>6 DEF CP!Spent
    <3> QED BY <1>2, <3>1, <3>2
  <2>2. PICK q : q = [poll EXCEPT !.pc = "sleep", !.stepsErrs = poll.stepsErrs + 1, !.growth = now]
    OBVIOUS
  <2>3. poll' = q
    BY <1>6, <2>2
  <2>4. q \in Loops
    BY <1>2, <2>1, <2>2 DEF Loops
  <2>5. /\ q.pc = "sleep" /\ q.growth = now /\ q.at = poll.at /\ q.seen = poll.seen
        /\ q.yielded = poll.yielded /\ q.idle = poll.idle /\ q.active = poll.active /\ q.end = poll.end
    BY <1>2, <2>2 DEF Loops
  <2> QED BY <1>5, <2>3, <2>4, <2>5
<1>7. CASE /\ ~CP!Spent("statusErrs")
           /\ poll' = [poll EXCEPT !.pc = "sleep", !["statusErrs"] = @ + 1, !.growth = now]
  <2>1. poll.statusErrs + 1 \in 0 .. MaxTransient
    <3>1. poll.statusErrs \in 0 .. MaxTransient
      BY <1>2 DEF Loops
    <3>2. poll.statusErrs # MaxTransient
      BY <1>7 DEF CP!Spent
    <3> QED BY <1>2, <3>1, <3>2
  <2>2. PICK q : q = [poll EXCEPT !.pc = "sleep", !.statusErrs = poll.statusErrs + 1, !.growth = now]
    OBVIOUS
  <2>3. poll' = q
    BY <1>7, <2>2
  <2>4. q \in Loops
    BY <1>2, <2>1, <2>2 DEF Loops
  <2>5. /\ q.pc = "sleep" /\ q.growth = now /\ q.at = poll.at /\ q.seen = poll.seen
        /\ q.yielded = poll.yielded /\ q.idle = poll.idle /\ q.active = poll.active /\ q.end = poll.end
    BY <1>2, <2>2 DEF Loops
  <2> QED BY <1>5, <2>3, <2>4, <2>5
<1> QED BY <1>4, <1>6, <1>7 DEF CP!Transient, CP!GrowthAfterFailure

LEMMA AnswerStatusKeeps == ASSUME PollInv, CP!AnswerStatus PROVE PollInv'
<1>1. poll.pc = "status" /\ UNCHANGED <<now, srv, said, dropped>>
  BY DEF CP!AnswerStatus
<1>2. PICK idle \in BOOLEAN : idle = (srv.state # "running")
  OBVIOUS
<1>3. srv \in Turn /\ poll \in Loops /\ now \in Nat
  BY DEF PollInv, PollTyped
<1>4. PICK active \in BOOLEAN : active = (poll.active \/ ~idle)
  OBVIOUS
<1>5. PICK q : q = [poll EXCEPT !.pc = "judge", !.at = now, !.statusErrs = 0, !.lastIdle = idle,
                      !.active = active]
  OBVIOUS
<1>6. poll' = q
  BY <1>2, <1>4, <1>5 DEF CP!AnswerStatus, CP!Goes
<1>7. q \in Loops
  BY <1>3, <1>5, NoErrs DEF Loops
<1>8. /\ q.pc = "judge" /\ q.at = now /\ q.seen = poll.seen /\ q.yielded = poll.yielded
      /\ q.idle = poll.idle /\ q.active = active /\ q.lastIdle = idle
      /\ q.growth = poll.growth /\ q.end = poll.end
  BY <1>3, <1>5 DEF Loops
<1>9. PollTyped'
  BY <1>1, <1>3, <1>6, <1>7, <1>8 DEF PollInv, PollTyped
<1>10. Counted'
  BY <1>1, <1>6, <1>8 DEF PollInv, Counted
<1>11. Placed' /\ Told'
  BY <1>1, <1>6, <1>8 DEF PollInv, Placed, Told
<1>12. TurnSeen'
  <2>1. active => srv.state # "waiting"
    BY <1>2, <1>4 DEF PollInv, TurnSeen
  <2>2. idle /\ srv.timely => srv.state = "idle"
    BY <1>2, <1>3 DEF PollInv, TurnSeen, Turn
  <2> QED BY <1>1, <1>6, <1>8, <2>1, <2>2 DEF PollInv, TurnSeen
<1>13. Completing'
  BY <1>1, <1>6, <1>8 DEF PollInv, Completing, Counted
<1> QED BY <1>9, <1>10, <1>11, <1>12, <1>13 DEF PollInv

LEMMA JudgeKeeps == ASSUME PollInv, CP!Judge PROVE PollInv'
<1>1. poll.pc = "judge" /\ UNCHANGED <<now, srv, said, dropped>>
  BY DEF CP!Judge
<1>2. srv \in Turn /\ poll \in Loops /\ now \in Nat /\ poll.idle \in 0 .. 3
  <2>1. poll \in Loops /\ poll.idle <= 3
    BY <1>1 DEF PollInv, PollTyped, Counted
  <2>2. poll.idle \in 0 .. 4
    BY <2>1 DEF Loops
  <2> QED BY <2>1, <2>2 DEF PollInv, PollTyped
<1>3. ASSUME NEW q \in Loops, poll' = q, q.pc \in {"sleep", "sweep"}, q.at = 0, q.seen = poll.seen,
             q.yielded = poll.yielded, q.active = poll.active, q.growth = poll.growth,
             q.end = poll.end,
             q.idle = 0 \/ q.idle = poll.idle
               \/ (q.idle = poll.idle + 1 /\ poll.lastIdle /\ (poll.active \/ now > IdleGrace)),
             q.pc = "sweep" => q.idle >= 2 /\ q.idle = poll.idle + 1,
             q.pc = "sleep" => q.idle <= 3
      PROVE  PollInv'
  <2>1. PollTyped'
    BY <1>1, <1>2, <1>3 DEF PollInv, PollTyped
  <2>2. Counted'
    BY <1>1, <1>2, <1>3 DEF PollInv, Counted
  <2>3. Placed' /\ Told'
    BY <1>1, <1>3 DEF PollInv, Placed, Told
  <2>4. q.idle >= 1 /\ srv.state = "waiting" => now > IdleGrace
    BY <1>2, <1>3 DEF PollInv, TurnSeen
  <2>5. q.idle >= 1 /\ srv.timely => srv.state = "idle"
    BY <1>1, <1>2, <1>3 DEF PollInv, TurnSeen
  <2>6. TurnSeen'
    BY <1>1, <1>3, <2>4, <2>5 DEF PollInv, TurnSeen
  <2>7. q.pc = "sweep" => poll.idle >= 1
    BY <1>2, <1>3
  <2>8. Completing'
    BY <1>1, <1>3, <2>7 DEF PollInv, Completing, Counted
  <2> QED BY <2>1, <2>2, <2>3, <2>6, <2>8 DEF PollInv
<1>4. CASE poll' = [poll EXCEPT !.pc = "sleep", !.at = 0, !.idle = 0]
  <2>1. PICK q : q = [poll EXCEPT !.pc = "sleep", !.at = 0, !.idle = 0]
    OBVIOUS
  <2>2. q \in Loops
    BY <1>2, <2>1, NoErrs DEF Loops
  <2>3. /\ q.pc = "sleep" /\ q.at = 0 /\ q.seen = poll.seen /\ q.yielded = poll.yielded
        /\ q.active = poll.active /\ q.growth = poll.growth /\ q.end = poll.end /\ q.idle = 0
    BY <1>2, <2>1 DEF Loops
  <2>4. poll' = q /\ q.idle <= 3 /\ q.pc # "sweep"
    BY <1>4, <2>1, <2>3
  <2>5. /\ q.pc \in {"sleep", "sweep"}
        /\ q.idle = 0 \/ q.idle = poll.idle
             \/ (q.idle = poll.idle + 1 /\ poll.lastIdle /\ (poll.active \/ now > IdleGrace))
        /\ q.pc = "sweep" => q.idle >= 2 /\ q.idle = poll.idle + 1
        /\ q.pc = "sleep" => q.idle <= 3
    BY <2>3, <2>4
  <2> QED BY <1>3, <2>2, <2>3, <2>4, <2>5
<1>5. CASE poll' = [poll EXCEPT !.pc = "sleep", !.at = 0]
  <2>1. PICK q : q = [poll EXCEPT !.pc = "sleep", !.at = 0]
    OBVIOUS
  <2>2. q \in Loops
    BY <1>2, <2>1 DEF Loops
  <2>3. /\ q.pc = "sleep" /\ q.at = 0 /\ q.seen = poll.seen /\ q.yielded = poll.yielded
        /\ q.active = poll.active /\ q.growth = poll.growth /\ q.end = poll.end /\ q.idle = poll.idle
    BY <1>2, <2>1 DEF Loops
  <2>4. poll' = q /\ q.idle <= 3 /\ q.pc # "sweep"
    BY <1>2, <1>5, <2>1, <2>3
  <2>5. /\ q.pc \in {"sleep", "sweep"}
        /\ q.idle = 0 \/ q.idle = poll.idle
             \/ (q.idle = poll.idle + 1 /\ poll.lastIdle /\ (poll.active \/ now > IdleGrace))
        /\ q.pc = "sweep" => q.idle >= 2 /\ q.idle = poll.idle + 1
        /\ q.pc = "sleep" => q.idle <= 3
    BY <2>3, <2>4
  <2> QED BY <1>3, <2>2, <2>3, <2>4, <2>5
<1>6. CASE /\ poll.lastIdle /\ (poll.active \/ now > IdleGrace)
           /\ poll' = [poll EXCEPT !.at = 0, !.idle = @ + 1,
                     !.pc = IF poll.idle + 1 >= CP!IdlesNeeded(poll.text) THEN "sweep" ELSE "sleep"]
  <2>1. PICK to : to = IF poll.idle + 1 >= CP!IdlesNeeded(poll.text) THEN "sweep" ELSE "sleep"
    OBVIOUS
  <2>2. PICK q : q = [poll EXCEPT !.at = 0, !.idle = poll.idle + 1, !.pc = to]
    OBVIOUS
  <2>3. /\ to \in {"sleep", "sweep"} /\ (to = "sweep" => poll.idle + 1 >= 2)
        /\ (to = "sleep" => poll.idle + 1 <= 3)
    BY <1>2, <2>1 DEF CP!IdlesNeeded
  <2>4. q \in Loops
    <3>1. poll.idle + 1 \in 0 .. 4
      BY <1>2
    <3> QED BY <1>2, <2>2, <2>3, <3>1 DEF Loops
  <2>5. /\ q.pc = to /\ q.at = 0 /\ q.seen = poll.seen /\ q.yielded = poll.yielded
        /\ q.active = poll.active /\ q.growth = poll.growth /\ q.end = poll.end
        /\ q.idle = poll.idle + 1
    BY <1>2, <2>2 DEF Loops
  <2>6. poll' = q
    BY <1>6, <2>1, <2>2
  <2> QED BY <1>3, <1>6, <2>3, <2>4, <2>5, <2>6
<1> QED BY <1>4, <1>5, <1>6 DEF CP!Judge

LEMMA NoGap == ASSUME NEW y \in Places, NEW w, CP!ToSet(w) = UpTo(y) PROVE NoGaps(w)
<1>1. \A i \in 1 .. MaxSteps : y[i] \in Nat
  <2>1. \A i \in 1 .. MaxSteps : y[i] \in 0 .. MaxText
    BY DEF Places
  <2> QED BY <2>1
<1>2. ASSUME NEW u \in UpTo(y), u[2] > 1 PROVE <<u[1], u[2] - 1>> \in UpTo(y)
  <2>1. u \in Unit /\ u[1] \in 1 .. MaxSteps /\ u[2] \in 1 .. y[u[1]] /\ y[u[1]] \in Nat
    BY <1>1 DEF UpTo
  <2>2. u[2] - 1 \in 1 .. y[u[1]] /\ u[2] - 1 \in Nat /\ u[1] \in Nat
    BY <1>2, <2>1 DEF Unit
  <2>3. PICK v : v = <<u[1], u[2] - 1>>
    OBVIOUS
  <2>4. v \in Unit /\ v[1] = u[1] /\ v[2] = u[2] - 1
    BY <2>2, <2>3 DEF Unit
  <2> QED BY <2>1, <2>2, <2>3, <2>4 DEF UpTo
<1> QED BY <1>2 DEF NoGaps

LEMMA DigestKeeps ==
  ASSUME PollInv, CP!Digest
  PROVE  PollInv' /\ (poll'.end \in {"stall_retry", "stall_warm"} => CP!Warm)
<1>1. poll.pc = "digest" /\ UNCHANGED <<now, srv, dropped>>
  BY DEF CP!Digest
<1>2. srv \in Turn /\ poll \in Loops /\ now \in Nat /\ dropped \in Nat /\ dropped <= now
  BY DEF PollInv, PollTyped
<1>3. PICK a : a = poll.seen
  OBVIOUS
<1>4. a \in [steps : Steps, tool : BOOLEAN, err : BOOLEAN] /\ a.steps \in Steps
      /\ srv.steps \in Steps /\ poll.yielded \in Places /\ Len(a.steps) \in Nat
  <2>1. a \in [steps : Steps, tool : BOOLEAN, err : BOOLEAN] /\ a.steps \in Steps
        /\ srv.steps \in Steps /\ poll.yielded \in Places
    BY <1>2, <1>3 DEF Loops, Turn
  <2> QED BY <2>1, StepsHave
<1>5. ASSUME NEW e \in Ways \ {"idle"}, poll' = CP!Ends(e), said' = said
      PROVE  PollInv' /\ poll'.end = e
  BY <1>1, <1>2, <1>5, GivesUp
<1>6. {"model_error", "stall_cold", "stall_retry", "stall_warm"} \subseteq Ways \ {"idle"}
  BY DEF Ways
<1>7. CASE poll' = CP!Ends("model_error") /\ said' = said
  BY <1>5, <1>6, <1>7
<1>8. CASE poll' = CP!Ends("stall_cold") /\ said' = said
  BY <1>5, <1>6, <1>8
<1>9. ASSUME CP!Warm, NEW e \in {"stall_retry", "stall_warm"}, poll' = CP!Ends(e), said' = said
      PROVE  PollInv' /\ CP!Warm
  BY <1>5, <1>6, <1>9
<1>10. ASSUME ~a.err, NEW text \in BOOLEAN, NEW tool \in BOOLEAN, NEW steps \in Nat,
              NEW growth \in {now, poll.growth},
              said' = said \o CP!News(poll.yielded, a.steps),
              poll' = [poll EXCEPT !.pc = "status", !.at = 0, !.seen = CP!NothingSeen,
                         !.yielded = CP!Upto(poll.yielded, a.steps), !.text = text, !.tool = tool,
                         !.steps = steps, !.growth = growth]
       PROVE  PollInv' /\ poll'.end = "none"
  <2>1. CP!NothingSeen \in [steps : Steps, tool : BOOLEAN, err : BOOLEAN]
    BY NoneYet DEF CP!NothingSeen
  <2>2. Place(poll.yielded, a.steps) /\ Ext(a.steps, srv.steps)
    BY <1>1, <1>3 DEF PollInv, Placed
  <2>3. PICK y : y = CP!Upto(poll.yielded, a.steps)
    OBVIOUS
  <2>4. y = Unread(a.steps) /\ y \in Places /\ Place(y, a.steps)
    BY <1>4, <2>2, <2>3, UptoIs
  <2>5. Place(y, srv.steps)
    BY <1>4, <2>2, <2>4, PlaceGrows
  <2>6. growth \in Nat /\ growth <= now /\ dropped <= growth
    BY <1>1, <1>2 DEF Loops, PollInv, PollTyped, Counted
  <2>7. PICK q : q = [poll EXCEPT !.pc = "status", !.at = 0, !.seen = CP!NothingSeen,
                         !.yielded = y, !.text = text, !.tool = tool,
                         !.steps = steps, !.growth = growth]
    OBVIOUS
  <2>8. q \in Loops
    BY <1>2, <2>1, <2>4, <2>6, <2>7, NoErrs DEF Loops
  <2>9. /\ q.pc = "status" /\ q.at = 0 /\ q.yielded = y /\ q.growth = growth
        /\ q.idle = poll.idle /\ q.active = poll.active /\ q.end = poll.end
    BY <1>2, <2>7 DEF Loops
  <2>10. poll' = q
    BY <1>10, <2>3, <2>7
  <2>11. said' \in Seq(Unit) /\ Sorted(said') /\ CP!ToSet(said') = UpTo(y)
    <3>1. said \in Seq(Unit) /\ Sorted(said) /\ CP!ToSet(said) = UpTo(poll.yielded)
      BY <1>1 DEF PollInv, PollTyped, Told
    <3> QED BY <1>4, <1>10, <2>2, <2>4, <3>1, SaysMore
  <2>12. PollTyped'
    BY <1>1, <1>2, <2>6, <2>8, <2>9, <2>10, <2>11 DEF PollInv, PollTyped
  <2>13. Counted'
    BY <1>1, <2>6, <2>9, <2>10 DEF PollInv, Counted
  <2>14. Placed'
    BY <1>1, <2>5, <2>9, <2>10 DEF Placed
  <2>15. Told'
    <3>1. NoGaps(said')
      BY <2>4, <2>11, NoGap
    <3> QED BY <2>9, <2>10, <2>11, <3>1 DEF Told, Sorted, NoGaps
  <2>16. TurnSeen'
    BY <1>1, <2>9, <2>10 DEF PollInv, TurnSeen
  <2>17. poll.idle >= 1 /\ srv.timely => ~srv.err /\ y = Unread(srv.steps)
    BY <1>1, <1>3, <1>10, <2>4 DEF PollInv, Completing
  <2>18. poll.end = "none"
    BY <1>1 DEF PollInv, Counted
  <2>19. Completing'
    BY <1>1, <2>9, <2>10, <2>17, <2>18 DEF Completing
  <2> QED BY <2>9, <2>10, <2>12, <2>13, <2>14, <2>15, <2>16, <2>18, <2>19 DEF PollInv
<1>11. CASE /\ ~a.err /\ said' = said \o CP!News(poll.yielded, a.steps)
            /\ \E grown \in BOOLEAN :
                 poll' = [poll EXCEPT !.pc = "status", !.at = 0, !.seen = CP!NothingSeen,
                          !.yielded = CP!Upto(@, a.steps),
                          !.text = @ \/ CP!News(poll.yielded, a.steps) # <<>>,
                          !.tool = @ \/ a.tool,
                          !.steps = IF Len(a.steps) > @ THEN Len(a.steps) ELSE @,
                          !.growth = IF grown THEN now ELSE @]
  <2>1. PICK grown \in BOOLEAN :
                 poll' = [poll EXCEPT !.pc = "status", !.at = 0, !.seen = CP!NothingSeen,
                          !.yielded = CP!Upto(@, a.steps),
                          !.text = @ \/ CP!News(poll.yielded, a.steps) # <<>>,
                          !.tool = @ \/ a.tool,
                          !.steps = IF Len(a.steps) > @ THEN Len(a.steps) ELSE @,
                          !.growth = IF grown THEN now ELSE @]
    BY <1>11
  <2>2. PICK text \in BOOLEAN : text = (poll.text \/ CP!News(poll.yielded, a.steps) # <<>>)
    OBVIOUS
  <2>3. PICK tool \in BOOLEAN : tool = (poll.tool \/ a.tool)
    OBVIOUS
  <2>4. PICK steps \in Nat : steps = IF Len(a.steps) > poll.steps THEN Len(a.steps) ELSE poll.steps
    <3>1. poll.steps \in Nat
      BY <1>2 DEF Loops
    <3>2. (IF Len(a.steps) > poll.steps THEN Len(a.steps) ELSE poll.steps) \in Nat
      BY <1>4, <3>1
    <3> QED BY <3>2
  <2>5. PICK growth \in {now, poll.growth} : growth = IF grown THEN now ELSE poll.growth
    OBVIOUS
  <2>6. poll' = [poll EXCEPT !.pc = "status", !.at = 0, !.seen = CP!NothingSeen,
                         !.yielded = CP!Upto(poll.yielded, a.steps), !.text = text, !.tool = tool,
                         !.steps = steps, !.growth = growth]
    BY <2>1, <2>2, <2>3, <2>4, <2>5
  <2>7. PollInv' /\ poll'.end = "none"
    BY <1>10, <1>11, <2>6
  <2> QED BY <2>7
<1>12. \/ poll' = CP!Ends("model_error") /\ said' = said
       \/ poll' = CP!Ends("stall_cold") /\ said' = said
       \/ CP!Warm /\ said' = said /\ \E e \in {"stall_retry", "stall_warm"} : poll' = CP!Ends(e)
       \/ /\ ~a.err /\ said' = said \o CP!News(poll.yielded, a.steps)
          /\ \E grown \in BOOLEAN :
                 poll' = [poll EXCEPT !.pc = "status", !.at = 0, !.seen = CP!NothingSeen,
                          !.yielded = CP!Upto(@, a.steps),
                          !.text = @ \/ CP!News(poll.yielded, a.steps) # <<>>,
                          !.tool = @ \/ a.tool,
                          !.steps = IF Len(a.steps) > @ THEN Len(a.steps) ELSE @,
                          !.growth = IF grown THEN now ELSE @]
  <2>1. PICK news : news = CP!News(poll.yielded, a.steps)
    OBVIOUS
  <2>2. PICK grown \in BOOLEAN :
         grown = (Len(a.steps) > poll.steps \/ (a.tool /\ ~poll.tool) \/ news # <<>>)
    OBVIOUS
  <2> QED BY <1>3, <2>1, <2>2 DEF CP!Digest
<1> QED BY <1>7, <1>8, <1>9, <1>11, <1>12

\* What the sweep adds behind a text of the place y: at most one unit, of the last step.
LEMMA OneMore ==
  ASSUME NEW w \in Seq(Unit), NEW t \in Steps, t # <<>>, Sorted(w), CP!ToSet(w) = UpTo(Unread(t)),
         NEW more, more = CP!Delta(Len(t), Unread(t)[Len(t)], t[Len(t)] + 1)
  PROVE  /\ w \o more \in Seq(Unit) /\ Sorted(w \o more) /\ NoGaps(w \o more)
         /\ UpTo(Unread(t)) \subseteq CP!ToSet(w \o more)
<1>1. PICK n : n = Len(t)
  OBVIOUS
<1>2. /\ n \in Nat /\ n \in 1 .. Len(t) /\ n \in 1 .. MaxSteps /\ t[n] \in Nat /\ Unread(t)[n] = t[n]
      /\ n > 0
  <2>1. Len(t) \in Nat \ {0}
    BY EmptySeq DEF Steps
  <2>2. n \in Nat /\ n \in 1 .. Len(t) /\ n > 0
    BY <1>1, <2>1
  <2>3. n \in 1 .. MaxSteps /\ t[n] \in 0 .. MaxText
    BY <2>2, StepsHave
  <2>4. At(t, n) = t[n]
    BY <1>1, <2>2 DEF At
  <2> QED BY <2>2, <2>3, <2>4, Atis
<1>3. PICK len \in Nat, past \in Nat : len = t[n] /\ past = len + 1
  BY <1>2
<1>4. more = CP!Delta(n, len, past)
  BY <1>1, <1>2, <1>3
<1>5. /\ more \in Seq(Unit) /\ Sorted(more)
      /\ CP!ToSet(more) = {u \in Unit : u[1] = n /\ len < u[2] /\ u[2] <= past}
  <2>1. more \in Seq(Unit) /\ Sorted(more) /\ CP!ToSet(more) = Stretch(n, len, past)
    BY <1>2, <1>4, DeltaIs
  <2> QED BY <2>1 DEF Stretch
<1>6. /\ \A i \in 1 .. MaxSteps : i > n => Unread(t)[i] = 0
      /\ \A i \in 1 .. MaxSteps : i \in Nat
  BY <1>1, <1>2, Atis DEF At
<1>7. ASSUME NEW u \in UpTo(Unread(t)), NEW v \in CP!ToSet(more) PROVE CP!Before(u, v)
  <2>1. u[1] \in 1 .. MaxSteps /\ u[2] \in 1 .. Unread(t)[u[1]] /\ u[1] \in Nat /\ u[2] \in Nat
    BY <1>6 DEF UpTo, Unit
  <2>2. u[1] <= n
    BY <1>2, <1>6, <2>1
  <2>3. v[1] = n /\ len < v[2] /\ v[2] \in Nat
    BY <1>5 DEF Unit
  <2>4. CASE u[1] = n
    BY <1>2, <1>3, <2>1, <2>3, <2>4 DEF CP!Before
  <2>5. CASE u[1] # n
    BY <1>2, <2>1, <2>2, <2>3, <2>5 DEF CP!Before
  <2> QED BY <2>4, <2>5
<1>8. /\ w \o more \in Seq(Unit) /\ Sorted(w \o more)
      /\ CP!ToSet(w \o more) = CP!ToSet(w) \cup CP!ToSet(more)
  BY <1>5, <1>7, Joined
<1>9. NoGaps(w)
  BY NoGap, StepsHave
<1>10. ASSUME NEW u \in CP!ToSet(w \o more), u[2] > 1 PROVE <<u[1], u[2] - 1>> \in CP!ToSet(w \o more)
  <2>1. CASE u \in CP!ToSet(w)
    BY <1>8, <1>9, <1>10, <2>1 DEF NoGaps
  <2>2. CASE u \in CP!ToSet(more)
    <3>1. u[1] = n /\ u[2] = len + 1
      BY <1>3, <1>5, <2>2 DEF Unit
    <3>2. len \in 1 .. len
      BY <1>3, <1>10, <3>1
    <3>3. PICK v : v = <<n, len>>
      OBVIOUS
    <3>4. v \in Unit /\ v[1] = n /\ v[2] = len
      BY <1>2, <1>3, <3>3 DEF Unit
    <3>5. v \in UpTo(Unread(t))
      BY <1>2, <1>3, <3>2, <3>4 DEF UpTo
    <3>6. <<u[1], u[2] - 1>> = v
      BY <1>3, <3>1, <3>3
    <3> QED BY <1>8, <3>5, <3>6
  <2> QED BY <1>8, <2>1, <2>2
<1> QED BY <1>8, <1>10 DEF NoGaps

LEMMA SweepKeeps == ASSUME PollInv, CP!Sweep PROVE PollInv' /\ poll'.end = "idle"
<1>1. poll.pc = "sweep" /\ UNCHANGED <<now, srv, dropped>> /\ poll' = CP!Ends("idle")
  BY DEF CP!Sweep
<1>2. srv \in Turn /\ poll \in Loops /\ dropped \in Nat /\ dropped <= now
  BY DEF PollInv, PollTyped
<1>3. PICK t : t = srv.steps
  OBVIOUS
<1>4. PICK y : y = poll.yielded
  OBVIOUS
<1>5. t \in Steps /\ y \in Places /\ Place(y, t)
  BY <1>2, <1>3, <1>4 DEF Turn, Loops, PollInv, Placed
<1>6. said \in Seq(Unit) /\ Sorted(said) /\ NoGaps(said) /\ CP!ToSet(said) = UpTo(y)
  BY <1>1, <1>4 DEF PollInv, PollTyped, Told
<1>7. srv.timely => ~srv.err /\ y = Unread(t)
  BY <1>1, <1>3, <1>4 DEF PollInv, Completing, Counted
<1>8. "idle" \in Ways
  BY DEF Ways
<1>9. CP!Units(t) = UpTo(Unread(t))
  BY <1>5, UnitsAre
<1>10. ASSUME NEW w, said' = w, w \in Seq(Unit), Sorted(w), NoGaps(w),
              srv.timely => CP!Units(t) \subseteq CP!ToSet(w)
       PROVE  PollInv' /\ poll'.end = "idle"
  BY <1>1, <1>2, <1>3, <1>7, <1>8, <1>10, Ending
<1>11. CASE said' = said
  BY <1>6, <1>7, <1>9, <1>10, <1>11
<1>12. PICK w : w = said \o CP!News(y, t)
  OBVIOUS
<1>13. w \in Seq(Unit) /\ Sorted(w) /\ CP!ToSet(w) = UpTo(Unread(t)) /\ NoGaps(w)
  <2>1. w \in Seq(Unit) /\ Sorted(w) /\ CP!ToSet(w) = UpTo(Unread(t))
    BY <1>5, <1>6, <1>12, SaysMore
  <2> QED BY <1>5, <2>1, NoGap, StepsHave
<1>14. CASE /\ srv.mod = "longer"
            /\ said' = w \o CP!Delta(Len(t), CP!Cursor(y, t, Len(t)), t[Len(t)] + 1)
  <2>1. t # <<>>
    BY <1>3, <1>14 DEF PollInv, TurnSeen
  <2>2. CP!Cursor(y, t, Len(t)) = Unread(t)[Len(t)]
    BY <1>5, UptoIs DEF CP!Cursor
  <2>3. PICK more : more = CP!Delta(Len(t), Unread(t)[Len(t)], t[Len(t)] + 1)
    OBVIOUS
  <2>4. said' = w \o more
    BY <1>14, <2>2, <2>3
  <2>5. /\ w \o more \in Seq(Unit) /\ Sorted(w \o more) /\ NoGaps(w \o more)
        /\ UpTo(Unread(t)) \subseteq CP!ToSet(w \o more)
    BY <1>5, <1>13, <2>1, <2>3, OneMore
  <2> QED BY <1>9, <1>10, <2>4, <2>5
<1>15. CASE srv.mod # "longer" /\ said' = w \o <<>>
  <2>1. said' = w
    BY <1>13, <1>15, ConcatEmptySeq
  <2> QED BY <1>9, <1>10, <1>13, <2>1
<1> QED BY <1>3, <1>4, <1>11, <1>12, <1>14, <1>15 DEF CP!Sweep

LEMMA ClockKeeps == ASSUME PollInv, CP!Tick PROVE PollInv' /\ poll' = poll /\ poll.pc # "done"
<1>1. now' = now + 1 /\ now < MaxTime /\ UNCHANGED <<srv, poll, said, dropped>> /\ poll.pc # "done"
  BY DEF CP!Tick, CP!Watched
<1>2. now \in Nat /\ MaxTime \in Nat /\ IdleGrace \in Nat /\ poll.at \in Nat /\ poll.growth \in Nat
      /\ dropped \in Nat
  BY PollLimited DEF PollInv, PollTyped, PollLimits, Loops
<1>3. PollTyped'
  BY <1>1, <1>2 DEF PollInv, PollTyped
<1>4. Counted' /\ Placed' /\ Told' /\ Completing'
  BY <1>1 DEF PollInv, Counted, Placed, Told, Completing
<1>5. TurnSeen'
  BY <1>1, <1>2 DEF PollInv, TurnSeen
<1> QED BY <1>1, <1>3, <1>4, <1>5 DEF PollInv

LEMMA PollStutters == ASSUME PollInv, UNCHANGED CP!vars PROVE PollInv' /\ poll' = poll
<1>1. now' = now /\ srv' = srv /\ poll' = poll /\ said' = said /\ dropped' = dropped
  BY DEF CP!vars
<1>2. PollTyped' /\ Counted' /\ Placed'
  BY <1>1 DEF PollInv, PollTyped, Counted, Placed
<1>3. Told' /\ TurnSeen' /\ Completing'
  BY <1>1 DEF PollInv, Told, TurnSeen, Completing
<1> QED BY <1>1, <1>2, <1>3 DEF PollInv

\* A verdict of a model that fell silent is given after a wait in which no call failed.
Silent ==
  poll.pc = "digest" /\ poll'.end \in {"stall_retry", "stall_warm"} => now - dropped > NoGrowthStall

LEMMA PollKeeps == ASSUME PollInv, [CP!Next]_(CP!vars) PROVE PollInv' /\ Silent
<1>1. poll.pc # "done" => poll.end = "none" /\ dropped <= poll.growth
  BY DEF PollInv, Counted
<1>2. CASE CP!Begin \/ CP!Grow \/ CP!Rest
  <2>1. poll' = poll
    BY <1>2 DEF CP!Begin, CP!Grow, CP!Rest
  <2> QED BY <1>1, <1>2, <2>1, BeginKeeps, GrowKeeps, RestKeeps DEF Silent
<1>3. CASE CP!TimeUp \/ CP!Cancel \/ CP!Broken
  <2>1. poll.pc # "digest"
    BY <1>3 DEF CP!TimeUp, CP!Cancel, CP!Broken
  <2> QED BY <1>3, <2>1, StopKeeps DEF Silent
<1>4. CASE CP!AnswerSteps \/ CP!AnswerStatus \/ CP!Judge
  <2>1. poll.pc # "digest"
    BY <1>4 DEF CP!AnswerSteps, CP!AnswerStatus, CP!Judge
  <2> QED BY <1>4, <2>1, AnswerStepsKeeps, AnswerStatusKeeps, JudgeKeeps DEF Silent
<1>5. CASE CP!Transient("sleep", "stepsErrs") \/ CP!Transient("status", "statusErrs")
  <2>1. poll.pc # "digest"
    BY <1>5 DEF CP!Transient
  <2> QED BY <1>5, <2>1, TransientKeeps DEF Silent
<1>6. CASE CP!Digest
  <2>1. ASSUME poll.pc = "digest", CP!Warm PROVE now - dropped > NoGrowthStall
    <3>1. now - poll.growth > NoGrowthStall /\ dropped <= poll.growth
      BY <1>1, <2>1 DEF CP!Warm
    <3>2. now \in Nat /\ dropped \in Nat /\ poll.growth \in Nat /\ NoGrowthStall \in Nat
      BY PollLimited DEF PollInv, PollTyped, PollLimits, Loops
    <3> QED BY <3>1, <3>2
  <2> QED BY <1>6, <2>1, DigestKeeps DEF Silent
<1>7. CASE CP!Sweep
  BY <1>7, SweepKeeps DEF Silent
<1>8. CASE CP!Tick
  BY <1>1, <1>8, ClockKeeps DEF Silent
<1>9. CASE CP!Over \/ UNCHANGED CP!vars
  <2>1. UNCHANGED CP!vars
    BY <1>9 DEF CP!Over
  <2>2. PollInv' /\ poll' = poll
    BY <2>1, PollStutters
  <2> QED BY <1>1, <2>2 DEF Silent
<1> QED
  BY <1>2, <1>3, <1>4, <1>5, <1>6, <1>7, <1>8, <1>9 DEF CP!Next, CP!Loop

LEMMA PollPromises ==
  ASSUME PollInv
  PROVE  CP!TypeOK /\ CP!SaidOnce /\ CP!WholeAnswer
<1>1. srv \in Turn /\ poll \in Loops /\ now \in Nat /\ now <= MaxTime /\ MaxTime \in Nat
  BY PollLimited DEF PollInv, PollTyped, PollLimits
<1>2. CP!TypeOK
  <2>1. now \in 0 .. MaxTime
    BY <1>1
  <2>2. srv \in [state : {"waiting", "running", "idle"}, steps : CP!Trajectories, tool : BOOLEAN,
               err : BOOLEAN, mod : {"none", "longer", "other"}, timely : BOOLEAN]
    BY <1>1, StepsAre DEF Turn
  <2>3. poll.seen \in [steps : CP!Trajectories, tool : BOOLEAN, err : BOOLEAN]
    BY <1>1, StepsAre DEF Loops
  <2>4. /\ poll.pc \in {"sleep", "digest", "status", "judge", "sweep", "done"}
        /\ poll.end \in Ways /\ {poll.stepsErrs, poll.statusErrs} \subseteq 0 .. MaxTransient
        /\ poll.idle \in 0 .. 4 /\ poll.yielded \in Places
        /\ poll.at \in Nat /\ poll.growth \in Nat
    BY <1>1 DEF Loops
  <2>5. \A i \in 1 .. MaxSteps : poll.yielded[i] \in 0 .. MaxText
    BY <2>4 DEF Places
  <2>6. {poll.at, poll.growth, dropped} \subseteq 0 .. now
    BY <1>1, <2>4 DEF PollInv, PollTyped
  <2> QED BY <2>1, <2>2, <2>3, <2>4, <2>5, <2>6 DEF CP!TypeOK, Ways
<1>3. CP!SaidOnce
  <2>1. \A a, b \in DOMAIN said : a < b => CP!Before(said[a], said[b])
    BY DEF PollInv, Told, Sorted
  <2>2. ASSUME NEW a \in DOMAIN said, said[a][2] > 1
        PROVE  \E b \in DOMAIN said : said[b] = <<said[a][1], said[a][2] - 1>>
    <3>1. said[a] \in CP!ToSet(said)
      BY DEF CP!ToSet
    <3>2. <<said[a][1], said[a][2] - 1>> \in CP!ToSet(said)
      BY <2>2, <3>1 DEF PollInv, Told, NoGaps
    <3> QED BY <3>2 DEF CP!ToSet
  <2> QED BY <2>1, <2>2 DEF CP!SaidOnce
<1>4. CP!WholeAnswer
  BY DEF CP!WholeAnswer, PollInv, Completing
<1> QED BY <1>2, <1>3, <1>4

-----------------------------------------------------------------------------
-----------------------------------------------------------------------------
(* The parts together.                                                     *)

\* The cache by itself: its index and its files agree but for what others did to the
\* files, nothing is left over, and an answer lives as long as it should (cache.go).
THEOREM CacheHolds ==
  RC!Spec => [](RC!TypeOK /\ RC!IndexBacked /\ RC!NothingLeaks) /\ RC!LivesItsTime
<1>1. RC!Init => CacheInv
  BY CacheStarts
<1>2. CacheInv /\ [RC!Next]_(RC!vars) => CacheInv'
  BY CacheKeeps
<1>3. CacheInv => RC!TypeOK /\ RC!IndexBacked /\ RC!NothingLeaks
  BY CachePromises
<1>4. CacheInv => [Fresh]_(RC!vars)
  BY HitsAreFresh
<1>5. CacheInv /\ [RC!Next]_(RC!vars) => [OnlyDue]_(RC!vars)
  BY LeavesWhenDue
<1> QED BY <1>1, <1>2, <1>3, <1>4, <1>5, Lasts, PTL DEF RC!Spec, RC!LivesItsTime

\* The poll loop by itself: what it says is said once and to the end, and a failed look is
\* not taken for a stall (CascadeChat).
THEOREM LoopHolds ==
  CP!Spec => [](CP!TypeOK /\ CP!SaidOnce /\ CP!WholeAnswer) /\ CP!FailureIsNoStall
<1>1. CP!Init => PollInv
  BY PollStarts
<1>2. PollInv /\ [CP!Next]_(CP!vars) => PollInv' /\ [Silent]_(CP!vars)
  BY PollKeeps
<1>3. PollInv => CP!TypeOK /\ CP!SaidOnce /\ CP!WholeAnswer
  BY PollPromises
<1> QED BY <1>1, <1>2, <1>3, PTL DEF CP!Spec, CP!FailureIsNoStall, Silent

-----------------------------------------------------------------------------
\* In a behaviour of MCConvPool one part works, and the others are as they were.
Unused ==
  /\ part # "cache" =>
       order = <<>> /\ files = <<>> /\ \A c \in Callers : call[c].pc = "idle"
  /\ part # "poll" => said = <<>> /\ poll.pc = "sleep" /\ poll.end = "none"

PartsInv ==
  /\ part = "cache" => CacheInv
  /\ OpenInv
  /\ part = "poll" => PollInv
  /\ Unused

LEMMA PartsStart == MCInit => PartsInv
<1> SUFFICES ASSUME MCInit PROVE PartsInv
  OBVIOUS
<1>1. RC!Init /\ CO!Init /\ CP!Init
  BY DEF MCInit
<1>2. CacheInv /\ OpenInv /\ PollInv
  BY <1>1, CacheStarts, OpenStarts, PollStarts, PartsAssumption
<1>3. order = <<>> /\ files = <<>> /\ \A c \in Callers : call[c].pc = "idle"
  BY <1>1 DEF RC!Init, RC!NoCall
<1>4. said = <<>> /\ poll.pc = "sleep" /\ poll.end = "none"
  BY <1>1, LocalsFit DEF CP!Init
<1> QED BY <1>2, <1>3, <1>4 DEF PartsInv, Unused

LEMMA PartsKeep ==
  ASSUME PartsInv, [MCNext]_mcvars
  PROVE  /\ PartsInv' /\ [CO!Next]_(CO!vars)
         /\ part = "cache" => [RC!Next]_(RC!vars)
         /\ part # "cache" => order' = order
         /\ part = "poll" => [CP!Next]_(CP!vars)
<1>1. part' = part
  BY DEF MCNext, mcvars
<1>2. [CO!Next]_(CO!vars)
  BY DEF MCNext, mcvars, openVars, CO!vars
<1>3. part = "cache" => [RC!Next]_(RC!vars)
  BY DEF MCNext, mcvars, cacheVars, RC!vars
<1>4. part = "poll" => [CP!Next]_(CP!vars)
  BY DEF MCNext, mcvars, pollVars, CP!vars
<1>5. part # "cache" => order' = order /\ files' = files /\ call' = call
  BY DEF MCNext, mcvars, cacheVars
<1>6. part # "poll" => said' = said /\ poll' = poll
  BY DEF MCNext, mcvars, pollVars
<1>7. OpenInv'
  BY <1>2, OpeningKeeps, PartsAssumption DEF PartsInv
<1>8. part = "cache" => CacheInv'
  BY <1>3, CacheKeeps DEF PartsInv
<1>9. part = "poll" => PollInv'
  BY <1>4, PollKeeps DEF PartsInv
<1>10. Unused'
  BY <1>1, <1>5, <1>6 DEF PartsInv, Unused
<1> QED BY <1>1, <1>2, <1>3, <1>4, <1>5, <1>7, <1>8, <1>9, <1>10 DEF PartsInv

LEMMA PartsInvariance == MCSpec => []PartsInv
<1>1. PartsInv /\ [MCNext]_mcvars => PartsInv'
  BY PartsKeep
<1> QED BY <1>1, PartsStart, PTL DEF MCSpec

\* The part at work stays in the types of its variables.
THEOREM PartsTyped == MCSpec => []PartTypeOK
<1>1. PartsInv => PartTypeOK
  <2> SUFFICES ASSUME PartsInv PROVE PartTypeOK
    OBVIOUS
  <2>1. part = "cache" => RC!TypeOK
    BY CachePromises DEF PartsInv
  <2>2. CO!TypeOK
    BY DEF PartsInv, OpenInv
  <2>3. part = "poll" => CP!TypeOK
    BY PollPromises DEF PartsInv
  <2> QED BY <2>1, <2>2, <2>3 DEF PartTypeOK
<1> QED BY <1>1, PartsInvariance, PTL

\* No entry of the index without a file, but for what others did to it: the second look
\* in Set holds against every Clear, eviction and expiry in between (cache.go).
THEOREM EntriesBacked == MCSpec => []IndexBacked
<1>1. PartsInv => IndexBacked
  <2> SUFFICES ASSUME PartsInv PROVE IndexBacked
    OBVIOUS
  <2>1. CASE part = "cache"
    BY <2>1, CachePromises DEF PartsInv, IndexBacked
  <2>2. CASE part # "cache"
    BY <2>2, EmptySeq DEF PartsInv, Unused, IndexBacked, RC!IndexBacked, RC!Indexed, RC!ToSet
  <2> QED BY <2>1, <2>2
<1> QED BY <1>1, PartsInvariance, PTL

\* No file without an entry, a Set at work on it, or a start that had no room (cache.go).
THEOREM NoOrphans == MCSpec => []NothingLeaks
<1>1. PartsInv => NothingLeaks
  <2> SUFFICES ASSUME PartsInv PROVE NothingLeaks
    OBVIOUS
  <2>1. CASE part = "cache"
    BY <2>1, CachePromises DEF PartsInv, NothingLeaks
  <2>2. CASE part # "cache"
    BY <2>2 DEF PartsInv, Unused, NothingLeaks, RC!NothingLeaks
  <2> QED BY <2>1, <2>2
<1> QED BY <1>1, PartsInvariance, PTL

\* An answer is replayed no longer than its time and the stalls of one Set and one Get,
\* and leaves the index no sooner than it must (cache.go).
THEOREM RightLifetime == MCSpec => LivesItsTime
<1>1. PartsInv => Fresh
  <2> SUFFICES ASSUME PartsInv PROVE Fresh
    OBVIOUS
  <2>1. CASE part = "cache"
    BY <2>1, HitsAreFresh DEF PartsInv
  <2>2. CASE part # "cache"
    BY <2>2 DEF PartsInv, Unused, Fresh, RC!GetHit
  <2> QED BY <2>1, <2>2
<1>2. PartsInv /\ [MCNext]_mcvars => OnlyDue
  <2> SUFFICES ASSUME PartsInv, [MCNext]_mcvars PROVE OnlyDue
    OBVIOUS
  <2>1. CASE part = "cache"
    BY <2>1, PartsKeep, LeavesWhenDue DEF PartsInv
  <2>2. CASE part # "cache"
    BY <2>2, EmptySeq DEF PartsInv, Unused, OnlyDue, RC!Indexed, RC!ToSet
  <2> QED BY <2>1, <2>2
<1>3. PartsInv /\ [MCNext]_mcvars => [Fresh]_(RC!vars) /\ [OnlyDue]_(RC!vars)
  BY <1>1, <1>2
<1> QED BY <1>3, PartsInvariance, Lasts, PTL DEF MCSpec, LivesItsTime, RC!LivesItsTime

\* A user's message is taken by one cascade at most, through any number of recoveries
\* of any number of calls on one server (CascadeChat).
THEOREM OneDelivery == MCSpec => []DeliveredOnce
<1>1. PartsInv => DeliveredOnce
  BY DEF PartsInv, OpenInv, Fitting, Fits, DeliveredOnce, CO!DeliveredOnce
<1> QED BY <1>1, PartsInvariance, PTL

\* A cascade that takes a message is given the last one if and only if it was told the
\* ones before (assemblePayload, openCascade).
THEOREM RightPayload == MCSpec => PayloadFits
<1>1. PartsInv /\ [MCNext]_mcvars => [GivenFits]_(CO!vars)
  BY PartsAssumption, PartsKeep, GivenWhatFits DEF PartsInv
<1> QED BY <1>1, PartsInvariance, PTL DEF MCSpec, PayloadFits, CO!PayloadFits, GivenFits

\* The client is told the text once, in order and without a hole (yielded).
THEOREM NothingTwice == MCSpec => []SaidOnce
<1>1. PartsInv => SaidOnce
  <2> SUFFICES ASSUME PartsInv PROVE SaidOnce
    OBVIOUS
  <2>1. CASE part = "poll"
    BY <2>1, PollPromises DEF PartsInv, SaidOnce
  <2>2. CASE part # "poll"
    BY <2>2 DEF PartsInv, Unused, SaidOnce, CP!SaidOnce
  <2> QED BY <2>1, <2>2
<1> QED BY <1>1, PartsInvariance, PTL

\* A turn that is taken for complete was said to its end (idleCount, the final sweep).
THEOREM NothingMissing == MCSpec => []WholeAnswer
<1>1. PartsInv => WholeAnswer
  <2> SUFFICES ASSUME PartsInv PROVE WholeAnswer
    OBVIOUS
  <2>1. CASE part = "poll"
    BY <2>1, PollPromises DEF PartsInv, WholeAnswer
  <2>2. CASE part # "poll"
    BY <2>2 DEF PartsInv, Unused, WholeAnswer, CP!WholeAnswer
  <2> QED BY <2>1, <2>2
<1> QED BY <1>1, PartsInvariance, PTL

\* The wait for progress starts anew after a dropped connection (lastGrowthAt).
THEOREM StallsAreSilent == MCSpec => FailureIsNoStall
<1>1. PartsInv /\ [MCNext]_mcvars => [Silent]_(CP!vars)
  <2> SUFFICES ASSUME PartsInv, [MCNext]_mcvars PROVE Silent
    OBVIOUS
  <2>1. CASE part = "poll"
    BY <2>1, PartsKeep, PollKeeps DEF PartsInv
  <2>2. CASE part # "poll"
    BY <2>2 DEF PartsInv, Unused, Silent
  <2> QED BY <2>1, <2>2
<1> QED BY <1>1, PartsInvariance, PTL DEF MCSpec, FailureIsNoStall, CP!FailureIsNoStall, Silent
=============================================================================
