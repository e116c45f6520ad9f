-------------------------- MODULE LangServerPoolProofs --------------------------
(***************************************************************************)
(* Theorems about the registry of language servers, for any number of      *)
(* egresses, callers, calls of StopAll, processes and faults: no process   *)
(* is left behind without a way to stop it, and no dead entry stays.       *)
(***************************************************************************)
EXTENDS LangServerPool, TLAPS

\* The calls that hold the key they were made for.
Working == {"evict", "start", "insert", "wait"}

\* Single flight: a call that works on a key has claimed it.
Claimed == \A c \in Calls : call[c].pc \in Working => spawning[call[c].key] = c

\* Until its winner inserts, a claimed key has no entry.
Vacant ==
  \A c \in Calls : call[c].pc \in {"evict", "start", "insert"} => entries[call[c].key] = None

\* A call that has started a process waits for that one, and nobody else's entry
\* is in its way.
Awaited ==
  \A c \in Calls :
    call[c].pc \in {"insert", "wait"} =>
      LET p == call[c].proc IN
      /\ p \in Procs /\ proc[p].key = call[c].key /\ proc[p].st # "unborn"
      /\ call[c].pc = "insert" => ~proc[p].ready
      /\ call[c].pc = "wait" => entries[call[c].key] \in {None, p}

\* An entry is ready and watched, or its winner is still waiting for it.
Registered ==
  \A k \in Keys :
    entries[k] # None =>
      LET p == entries[k] IN
      /\ proc[p].key = k /\ proc[p].st # "unborn"
      /\ proc[p].ready => watcher[p] = "wait"
      /\ ~proc[p].ready => \E c \in Calls : call[c].pc = "wait" /\ call[c].proc = p

\* The goroutine that waits for an exit does not miss it, and respawns once.
Watched ==
  \A p \in Procs :
    /\ proc[p].st = "unborn" => watcher[p] = "none"
    /\ proc[p].st \in Alive => watcher[p] = "wait"
    /\ watcher[p] # "done" => call[p].pc = "idle"

\* The first half of NoOrphan.
Stoppable == \A p \in Procs : proc[p].st \in Alive => proc[p].stopped \/ Managed(p)

\* On the port they share, a process that may come up is one somebody waits for, and
\* a process that is up is not taken for another.
SharedPort ==
  /\ \A p \in Procs :
       proc[p].key = Default /\ proc[p].st = "starting" =>
         \E c \in Calls : call[c].pc \in {"insert", "wait"} /\ call[c].proc = p
  /\ \A c \in Calls, p \in Procs :
       call[c].pc \in {"start", "insert", "wait"} /\ call[c].key = Default
         /\ proc[p].key = Default /\ proc[p].st = "up" =>
       call[c].pc # "start" /\ call[c].proc = p

Flights ==
  Claimed /\ Vacant /\ Awaited /\ Registered /\ Watched /\ Stoppable /\ SharedPort

IInv == TypeOK /\ Flights

-----------------------------------------------------------------------------
(* What replacing a field does to a process and to a call. *)

ProcRecords == [st : ProcStates, key : Keys \cup {Default}, ready : BOOLEAN, stopped : BOOLEAN]
Pcs == {"idle", "lookup", "parked", "evict", "start", "insert", "wait"}
CallRecords ==
  [pc : Pcs, key : Keys \cup {Default}, proc : Procs \cup {None}, waited : BOOLEAN]

SameButSt(q) ==
  /\ proc'[q].key = proc[q].key
  /\ proc'[q].ready = proc[q].ready
  /\ proc'[q].stopped = proc[q].stopped

\* What a new call and a new process are.
LEMMA Records ==
  /\ NoCall \in CallRecords /\ NoCall.pc = "idle"
  /\ \A k \in Keys \cup {Default} :
       /\ CallFor(k) \in CallRecords
       /\ CallFor(k).pc = "lookup" /\ CallFor(k).key = k
       /\ [Unborn EXCEPT !.st = "starting", !.key = k] \in ProcRecords
       /\ [Unborn EXCEPT !.st = "starting", !.key = k].st = "starting"
       /\ [Unborn EXCEPT !.st = "starting", !.key = k].key = k
       /\ ~[Unborn EXCEPT !.st = "starting", !.key = k].ready
  BY DEF NoCall, CallFor, CallRecords, Pcs, Unborn, ProcRecords, ProcStates

\* One process changes its state.
LEMMA SetSt ==
  ASSUME TypeOK, NEW p \in Procs, NEW s \in ProcStates, proc' = [proc EXCEPT ![p].st = s]
  PROVE  /\ proc' \in [Procs -> ProcRecords]
         /\ proc'[p].st = s
         /\ \A q \in Procs : SameButSt(q) /\ (q # p => proc'[q].st = proc[q].st)
<1> DEFINE r == [proc[p] EXCEPT !.st = s]
<1>1. \A q \in Procs : proc[q] \in ProcRecords
  BY DEF TypeOK, ProcRecords
<1>2. \A q \in Procs : proc'[q] = IF q = p THEN r ELSE proc[q]
  BY DEF TypeOK
<1>3. proc' = [q \in Procs |-> proc'[q]]
  BY DEF TypeOK
<1>4. /\ r \in ProcRecords /\ r.st = s /\ r.key = proc[p].key
      /\ r.ready = proc[p].ready /\ r.stopped = proc[p].stopped
  BY <1>1 DEF ProcRecords
<1> HIDE DEF r
<1>5. \A q \in Procs : proc'[q] \in ProcRecords
  BY <1>1, <1>2, <1>4
<1>6. proc' \in [Procs -> ProcRecords]
  BY <1>3, <1>5
<1> QED BY <1>2, <1>4, <1>6 DEF SameButSt

\* One process becomes ready.
LEMMA SetReady ==
  ASSUME TypeOK, NEW p \in Procs, proc' = [proc EXCEPT ![p].ready = TRUE]
  PROVE  /\ proc' \in [Procs -> ProcRecords]
         /\ proc'[p].ready
         /\ \A q \in Procs :
              /\ proc'[q].key = proc[q].key /\ proc'[q].st = proc[q].st
              /\ proc'[q].stopped = proc[q].stopped
              /\ q # p => proc'[q].ready = proc[q].ready
<1> DEFINE r == [proc[p] EXCEPT !.ready = TRUE]
<1>1. \A q \in Procs : proc[q] \in ProcRecords
  BY DEF TypeOK, ProcRecords
<1>2. \A q \in Procs : proc'[q] = IF q = p THEN r ELSE proc[q]
  BY DEF TypeOK
<1>3. proc' = [q \in Procs |-> proc'[q]]
  BY DEF TypeOK
<1>4. /\ r \in ProcRecords /\ r.ready /\ r.key = proc[p].key
      /\ r.st = proc[p].st /\ r.stopped = proc[p].stopped
  BY <1>1 DEF ProcRecords
<1> HIDE DEF r
<1>5. \A q \in Procs : proc'[q] \in ProcRecords
  BY <1>1, <1>2, <1>4
<1>6. proc' \in [Procs -> ProcRecords]
  BY <1>3, <1>5
<1> QED BY <1>2, <1>4, <1>6

\* One call goes on.
LEMMA SetPc ==
  ASSUME TypeOK, NEW c \in Calls, NEW x \in Pcs, call' = [call EXCEPT ![c].pc = x]
  PROVE  /\ call' \in [Calls -> CallRecords]
         /\ call'[c].pc = x
         /\ \A d \in Calls : /\ call'[d].key = call[d].key /\ call'[d].proc = call[d].proc
                             /\ d # c => call'[d].pc = call[d].pc
<1>1. \A d \in Calls : call[d] \in CallRecords
  BY DEF TypeOK, CallRecords, Pcs
<1>2. \A d \in Calls : call'[d] = IF d = c THEN [call[c] EXCEPT !.pc = x] ELSE call[d]
  BY DEF TypeOK
<1>3. DOMAIN call' = Calls /\ call' = [d \in Calls |-> call'[d]]
  BY DEF TypeOK
<1>a. [call[c] EXCEPT !.pc = x] \in CallRecords
  BY <1>1 DEF CallRecords
<1>b. /\ [call[c] EXCEPT !.pc = x].pc = x
      /\ [call[c] EXCEPT !.pc = x].key = call[c].key
      /\ [call[c] EXCEPT !.pc = x].proc = call[c].proc
  BY <1>1 DEF CallRecords
<1>4. \A d \in Calls : call'[d] \in CallRecords
  BY <1>1, <1>2, <1>a
<1>5. /\ call'[c].pc = x
      /\ \A d \in Calls : /\ call'[d].key = call[d].key /\ call'[d].proc = call[d].proc
                          /\ d # c => call'[d].pc = call[d].pc
  BY <1>2, <1>b
<1> QED BY <1>3, <1>4, <1>5

\* One call begins or ends, or takes along the process it has started.
LEMMA SetCall ==
  ASSUME TypeOK, NEW c \in Calls, NEW r \in CallRecords, call' = [call EXCEPT ![c] = r]
  PROVE  /\ call' \in [Calls -> CallRecords]
         /\ call'[c] = r
         /\ \A d \in Calls : d # c => call'[d] = call[d]
<1>1. \A d \in Calls : call[d] \in CallRecords
  BY DEF TypeOK, CallRecords, Pcs
<1> QED BY <1>1 DEF TypeOK

\* The winner ends, and those who wait for it look again.
LEMMA Woken ==
  ASSUME TypeOK, NEW c \in Calls, call' = Waking(c, call[c].key, NoCall)
  PROVE  /\ call' \in [Calls -> CallRecords]
         /\ call'[c].pc = "idle"
         /\ \A d \in Calls : d # c =>
              /\ call'[d].key = call[d].key /\ call'[d].proc = call[d].proc
              /\ \/ call'[d].pc = call[d].pc
                 \/ call[d].pc = "parked" /\ call'[d].pc = "lookup"
<1>1. \A d \in Calls : call[d] \in CallRecords
  BY DEF TypeOK, CallRecords, Pcs
<1> DEFINE woken(d) == [call[d] EXCEPT !.pc = "lookup", !.waited = TRUE]
<1>2. \A d \in Calls :
        call'[d] = IF d = c THEN NoCall
                   ELSE IF call[d].pc = "parked" /\ call[d].key = call[c].key THEN woken(d)
                   ELSE call[d]
  BY DEF Waking
<1>3. \A d \in Calls : /\ woken(d) \in CallRecords
                       /\ woken(d).pc = "lookup"
                       /\ woken(d).key = call[d].key /\ woken(d).proc = call[d].proc
  BY <1>1 DEF CallRecords, Pcs
<1>4. call' = [d \in Calls |-> call'[d]]
  BY DEF Waking
<1> HIDE DEF woken
<1>5. \A d \in Calls : call'[d] \in CallRecords
  BY <1>1, <1>2, <1>3, Records
<1>6. call'[c].pc = "idle"
  <2>1. call'[c] = NoCall
    BY <1>2
  <2> QED BY <2>1 DEF NoCall
<1>7. ASSUME NEW d \in Calls, d # c
      PROVE  /\ call'[d].key = call[d].key /\ call'[d].proc = call[d].proc
             /\ \/ call'[d].pc = call[d].pc
                \/ call[d].pc = "parked" /\ call'[d].pc = "lookup"
  <2>1. CASE call[d].pc = "parked" /\ call[d].key = call[c].key
    <3>1. call'[d] = woken(d)
      BY <1>2, <1>7, <2>1
    <3> QED BY <1>3, <2>1, <3>1
  <2>2. CASE ~(call[d].pc = "parked" /\ call[d].key = call[c].key)
    <3>1. call'[d] = call[d]
      BY <1>2, <1>7, <2>2
    <3> QED BY <3>1
  <2> QED BY <2>1, <2>2
<1> QED BY <1>4, <1>5, <1>6, <1>7

-----------------------------------------------------------------------------
(* Type correctness. *)

\* Calls and processes stay records, and the rest keeps its types.
LEMMA TypeStep == TypeOK /\ [Next]_vars => TypeOK'
<1> SUFFICES ASSUME TypeOK, [Next]_vars PROVE TypeOK'
  OBVIOUS
<1> DEFINE CallsOK == call' \in [Calls -> CallRecords]
           ProcsOK == proc' \in [Procs -> ProcRecords]
           RestOK ==
             /\ entries' \in [Keys -> Procs \cup {None}]
             /\ spawning' \in [Keys -> Calls \cup {None}]
             /\ stoppingAll' \in BOOLEAN
             /\ watcher' \in [Procs -> {"none", "wait", "backoff", "done"}]
             /\ stopper' \in [Stoppers -> [pc : {"idle", "wait", "done"}, victims : SUBSET Procs]]
             /\ watchdog' \in [pc : {"sleep", "probe", "gone"}, miss : [Keys -> 0..1],
                               snap : [Keys -> Procs \cup {None}]]
             /\ faults' \in 0..MaxFaults /\ startFailed' \in BOOLEAN
<1>a. CallsOK /\ ProcsOK /\ RestOK => TypeOK'
  BY DEF TypeOK, CallRecords, ProcRecords, Pcs
<1>b. /\ call \in [Calls -> CallRecords] /\ proc \in [Procs -> ProcRecords]
      /\ call' = call => CallsOK
      /\ proc' = proc => ProcsOK
  BY DEF TypeOK, CallRecords, ProcRecords, Pcs
<1>c. /\ "dead" \in ProcStates /\ Alive \subseteq ProcStates
      /\ \A c \in Calls : call[c].key \in Keys /\ call[c].proc \in Procs \cup {None}
      /\ \A p \in Procs : proc[p].key \in Keys
      /\ \A k \in Keys : spawning[k] \in Calls \cup {None}
  BY KeysAssumption DEF TypeOK, ProcStates, Alive
<1> HIDE DEF CallsOK, ProcsOK
<1> USE FaultsAssumption
<1>1. ASSUME NEW c \in Callers, NEW k \in Keys, Begin(c, k) PROVE TypeOK'
  <2>1. CallsOK
    BY <1>1, SetCall, Records DEF Begin, Calls, CallsOK
  <2> QED BY <1>1, <1>a, <1>b, <2>1 DEF Begin, TypeOK
<1>2. ASSUME NEW c \in Calls, Lookup(c) PROVE TypeOK'
  <2>1. PICK r \in {NoCall} \cup {[call[c] EXCEPT !.pc = x] : x \in {"parked", "evict", "start"}} :
          call' = [call EXCEPT ![c] = r]
    BY <1>2 DEF Lookup
  <2>2. r \in CallRecords
    <3>1. \A x \in {"parked", "evict", "start"} : [call[c] EXCEPT !.pc = x] \in CallRecords
      BY <1>b DEF CallRecords, Pcs
    <3>2. NoCall \in CallRecords
      BY Records
    <3> QED BY <2>1, <3>1, <3>2
  <2>3. CallsOK
    BY <2>1, <2>2, SetCall DEF CallsOK
  <2>4. spawning' = spawning \/ spawning' = [spawning EXCEPT ![call[c].key] = c]
    BY <1>2 DEF Lookup
  <2>5. spawning' \in [Keys -> Calls \cup {None}]
    BY <2>4 DEF TypeOK
  <2> QED BY <1>2, <1>a, <1>b, <2>3, <2>5 DEF Lookup, TypeOK
<1>3. ASSUME NEW c \in Calls, Evict(c) PROVE TypeOK'
  <2>1. CallsOK
    BY <1>3, SetPc DEF Evict, CallsOK, Pcs
  <2>2. ProcsOK
    BY <1>3, <1>b, <1>c DEF Evict, ProcsOK, ProcRecords
  <2> QED BY <1>3, <1>a, <2>1, <2>2 DEF Evict, TypeOK
<1>4. ASSUME NEW c \in Calls, StartFails(c) PROVE TypeOK'
  <2>1. CallsOK
    BY <1>4, Woken DEF StartFails, Return, CallsOK
  <2>2. spawning' \in [Keys -> Calls \cup {None}]
    BY <1>4 DEF StartFails, Return, TypeOK
  <2>3. faults' \in 0..MaxFaults
    <3>1. faults \in 0..MaxFaults /\ faults < MaxFaults /\ faults' = faults + 1
      BY <1>4 DEF StartFails, TypeOK
    <3> QED BY <3>1
  <2> QED BY <1>4, <1>a, <1>b, <2>1, <2>2, <2>3 DEF StartFails, TypeOK
<1>5. ASSUME NEW c \in Calls, Start(c) PROVE TypeOK'
  <2>1. PICK p \in Procs :
          /\ proc' = [proc EXCEPT ![p] = [Unborn EXCEPT !.st = "starting", !.key = call[c].key]]
          /\ watcher' = [watcher EXCEPT ![p] = "wait"]
          /\ call' = [call EXCEPT ![c].pc = "insert", ![c].proc = p]
    BY <1>5 DEF Start
  <2>2. CallsOK
    BY <2>1, <1>b DEF CallsOK, CallRecords, Pcs
  <2>3. [Unborn EXCEPT !.st = "starting", !.key = call[c].key] \in ProcRecords
    BY <1>c, Records
  <2>4. ProcsOK
    BY <2>1, <1>b, <2>3 DEF ProcsOK
  <2> QED BY <1>5, <1>a, <2>1, <2>2, <2>4 DEF Start, TypeOK
<1>6. ASSUME NEW c \in Calls, Insert(c) PROVE TypeOK'
  <2>1. CallsOK
    BY <1>6, SetPc DEF Insert, CallsOK, Pcs
  <2> QED BY <1>6, <1>a, <1>b, <1>c, <2>1 DEF Insert, TypeOK
<1>7. ASSUME NEW c \in Calls, PortReady(c) PROVE TypeOK'
  <2>1. CallsOK
    BY <1>7, Woken DEF PortReady, Return, CallsOK
  <2>2. ProcsOK
    BY <1>7, <1>b DEF PortReady, ProcsOK, ProcRecords
  <2> QED BY <1>7, <1>a, <2>1, <2>2 DEF PortReady, Return, TypeOK
<1>8. ASSUME NEW c \in Calls, PortTimeout(c) PROVE TypeOK'
  <2>1. CallsOK
    BY <1>8, Woken DEF PortTimeout, Return, CallsOK
  <2>2. ProcsOK
    BY <1>8, <1>b, <1>c DEF PortTimeout, ProcsOK, ProcRecords
  <2>3. faults' \in 0..MaxFaults
    BY <1>8 DEF PortTimeout, TypeOK
  <2> QED BY <1>8, <1>a, <2>1, <2>2, <2>3 DEF PortTimeout, Return, TypeOK
<1>9. ASSUME NEW c \in Calls, GiveUp(c) PROVE TypeOK'
  <2>1. CallsOK
    BY <1>9, SetCall, Records DEF GiveUp, CallsOK
  <2> QED BY <1>9, <1>a, <1>b, <2>1 DEF GiveUp, TypeOK
<1>10. ASSUME NEW p \in Procs, ProcStep(p) \/ Crash(p) \/ Hang(p) PROVE TypeOK'
  <2>1. PICK st \in ProcStates : proc' = [proc EXCEPT ![p].st = st]
    BY <1>10 DEF ProcStep, Listen, Close, Exit, Crash, Hang, To, ProcStates
  <2>2. ProcsOK
    BY <2>1, SetSt DEF ProcsOK
  <2>3. faults' \in 0..MaxFaults
    BY <1>10 DEF ProcStep, Listen, Close, Exit, Crash, Hang, TypeOK
  <2> QED
    BY <1>10, <1>a, <1>b, <2>2, <2>3 DEF ProcStep, Listen, Close, Exit, Crash, Hang, To, TypeOK
<1>11. ASSUME NEW p \in Procs, Reap(p) PROVE TypeOK'
  BY <1>11, <1>a, <1>b, <1>c DEF Reap, TypeOK
<1>12. ASSUME NEW p \in Procs, Respawn(p) PROVE TypeOK'
  <2>1. CallsOK
    BY <1>12, <1>c, SetCall, Records DEF Respawn, Calls, CallsOK
  <2> QED BY <1>12, <1>a, <1>b, <2>1 DEF Respawn, TypeOK
<1>13. CASE WatchdogTick
  <2>1. watchdog' \in [pc : {"sleep", "probe", "gone"}, miss : [Keys -> 0..1],
                       snap : [Keys -> Procs \cup {None}]]
    <3> DEFINE snap == [k \in Keys |-> IF HasReady(k) THEN entries[k] ELSE None]
               miss == [k \in Keys |-> IF HasReady(k) THEN watchdog.miss[k] ELSE 0]
    <3>1. snap \in [Keys -> Procs \cup {None}] /\ miss \in [Keys -> 0..1]
      BY DEF TypeOK
    <3>2. \/ watchdog' = [watchdog EXCEPT !.pc = "gone"]
          \/ watchdog' = [watchdog EXCEPT !.pc = "probe", !.snap = snap, !.miss = miss]
      BY <1>13 DEF WatchdogTick
    <3> HIDE DEF snap, miss
    <3> QED BY <3>1, <3>2 DEF TypeOK
  <2> QED BY <1>13, <1>a, <1>b, <2>1 DEF WatchdogTick, TypeOK
<1>14. ASSUME NEW k \in Keys, WatchdogProbe(k) PROVE TypeOK'
  <2>1. ProcsOK
    <3>1. watchdog.snap[k] \in Procs
      BY <1>14 DEF WatchdogProbe, TypeOK
    <3> QED BY <1>14, <1>b, <1>c, <3>1, SetSt DEF WatchdogProbe, ProcsOK
  <2> DEFINE misses == IF Answers(watchdog.snap[k]) THEN 0 ELSE watchdog.miss[k] + 1
             n == IF misses = 2 THEN 0 ELSE misses
  <2>2. n \in 0..1
    BY DEF TypeOK
  <2>3. watchdog' = [watchdog EXCEPT !.snap[k] = None, !.miss[k] = n]
    BY <1>14 DEF WatchdogProbe
  <2> HIDE DEF n
  <2>4. watchdog' \in [pc : {"sleep", "probe", "gone"}, miss : [Keys -> 0..1],
                       snap : [Keys -> Procs \cup {None}]]
    BY <2>2, <2>3 DEF TypeOK
  <2> QED BY <1>14, <1>a, <1>b, <2>1, <2>4 DEF WatchdogProbe, TypeOK
<1>15. CASE WatchdogRest
  BY <1>15, <1>a, <1>b DEF WatchdogRest, TypeOK
<1>16. ASSUME NEW s \in Stoppers, StopBegin(s) PROVE TypeOK'
  <2>1. ProcsOK
    BY <1>16, <1>b DEF StopBegin, ProcsOK, ProcRecords
  <2> QED BY <1>16, <1>a, <1>b, <2>1 DEF StopBegin, TypeOK
<1>17. ASSUME NEW s \in Stoppers, StopKill(s) PROVE TypeOK'
  <2>1. ProcsOK
    BY <1>17, <1>c, SetSt DEF StopKill, ProcsOK, TypeOK
  <2> QED BY <1>17, <1>a, <1>b, <2>1 DEF StopKill, TypeOK
<1>18. ASSUME NEW s \in Stoppers, StopEnd(s) PROVE TypeOK'
  BY <1>18, <1>a, <1>b DEF StopEnd, TypeOK
<1>19. CASE UNCHANGED vars
  BY <1>19, <1>a, <1>b DEF vars, TypeOK
<1> QED
  BY <1>1, <1>2, <1>3, <1>4, <1>5, <1>6, <1>7, <1>8, <1>9, <1>10, <1>11, <1>12, <1>13, <1>14,
     <1>15, <1>16, <1>17, <1>18, <1>19
     DEF Next, EnsureStep, WatchStep, WatchdogStep, StopStep

\* Keys are keys, and no call is called None.
LEMMA Ranges ==
  ASSUME TypeOK
  PROVE  /\ None \notin Calls /\ None \notin Procs /\ Procs \subseteq Calls
         /\ \A c \in Calls : call[c].key \in Keys /\ call[c].pc \in Pcs
         /\ \A p \in Procs : proc[p].key \in Keys /\ proc[p].st \in ProcStates
         /\ \A k \in Keys : entries[k] \in Procs \cup {None}
  BY ProcsAssumption, CallersAssumption, KeysAssumption DEF TypeOK, Calls, Pcs

-----------------------------------------------------------------------------
(* The invariant, by what a step does. *)

Still(d) ==
  call'[d].pc = call[d].pc /\ call'[d].key = call[d].key /\ call'[d].proc = call[d].proc

\* Processes that die, hang or give up their port.
LEMMA Weakened ==
  ASSUME IInv, UNCHANGED <<entries, spawning, watcher, call>>,
         \A q \in Procs :
           /\ SameButSt(q)
           /\ proc'[q].st = proc[q].st \/ proc'[q].st \in {"dead", "hung", "closing"}
           /\ proc'[q].st \in Alive => proc[q].st \in Alive
  PROVE  Flights'
<1> USE Ranges DEF IInv, Flights, SameButSt
<1>1. Claimed'
  BY DEF Claimed
<1>2. Vacant'
  BY DEF Vacant
<1>3. Awaited'
  BY DEF Awaited
<1>4. Registered'
  BY DEF Registered
<1>5. Watched'
  BY DEF Watched
<1>6. Stoppable'
  BY DEF Stoppable, Managed
<1>7. SharedPort'
  BY DEF SharedPort
<1> QED BY <1>1, <1>2, <1>3, <1>4, <1>5, <1>6, <1>7

\* Calls that begin, wait for another one or give up.
LEMMA Unclaimed ==
  ASSUME IInv, UNCHANGED <<entries, spawning, watcher, proc>>,
         \A d \in Calls : Still(d) \/ {call[d].pc, call'[d].pc} \cap Working = {},
         \A q \in Procs : call[q].pc = "idle" => call'[q].pc = "idle"
  PROVE  Flights'
<1>0. ASSUME NEW d \in Calls
      PROVE  /\ call'[d].pc \in Working => Still(d)
             /\ call[d].pc \in Working => Still(d)
  BY DEF Still
<1> USE Ranges, <1>0 DEF IInv, Flights, Working, Still
<1>1. Claimed'
  BY DEF Claimed
<1>2. Vacant'
  BY DEF Vacant
<1>3. Awaited'
  BY DEF Awaited
<1>4. Registered'
  BY DEF Registered
<1>5. Watched'
  BY DEF Watched
<1>6. Stoppable'
  BY DEF Stoppable, Managed
<1>7. SharedPort'
  BY DEF SharedPort
<1> QED BY <1>1, <1>2, <1>3, <1>4, <1>5, <1>6, <1>7

\* A process opens its port: the one its call waits for.
LEMMA ListenKeeps ==
  ASSUME IInv, NEW p \in Procs, Listen(p)
  PROVE  Flights'
<1>a. /\ UNCHANGED <<entries, spawning, watcher, call>>
      /\ proc[p].st = "starting" /\ proc'[p].st = "up"
      /\ \A q \in Procs : SameButSt(q) /\ (q # p => proc'[q].st = proc[q].st)
  BY SetSt DEF Listen, To, IInv, ProcStates
<1> USE <1>a, Ranges DEF IInv, Flights, SameButSt, Alive
<1>1. Claimed'
  BY DEF Claimed
<1>2. Vacant'
  BY DEF Vacant
<1>3. Awaited'
  BY DEF Awaited
<1>4. Registered'
  BY DEF Registered
<1>5. Watched'
  BY DEF Watched
<1>6. Stoppable'
  BY DEF Stoppable, Managed
<1>7. SharedPort'
  <2>1. ASSUME NEW c \in Calls, call[c].pc \in {"start", "insert", "wait"}, call[c].key = Default,
               proc[p].key = Default
        PROVE  call[c].pc # "start" /\ call[c].proc = p
    <3>1. PICK d \in Calls : call[d].pc \in {"insert", "wait"} /\ call[d].proc = p
      BY <2>1 DEF SharedPort
    <3>2. call[d].key = Default
      BY <2>1, <3>1 DEF Awaited
    <3>3. c = d
      BY <2>1, <3>1, <3>2 DEF Claimed, Working
    <3> QED BY <3>1, <3>3
  <2> QED BY <2>1 DEF SharedPort
<1> QED BY <1>1, <1>2, <1>3, <1>4, <1>5, <1>6, <1>7

\* StopAll leaves nothing alive that is neither interrupted nor about to be
\* inserted.
LEMMA StopKeeps ==
  ASSUME IInv, NEW s \in Stoppers, StopBegin(s)
  PROVE  Flights'
<1> DEFINE victims == {entries[k] : k \in Keys} \ {None}
<1>a. /\ UNCHANGED <<spawning, watcher, call>>
      /\ \A k \in Keys : entries'[k] = None
      /\ \A q \in Procs : /\ proc'[q].st = proc[q].st /\ proc'[q].key = proc[q].key
                          /\ proc'[q].ready = proc[q].ready
                          /\ proc'[q].stopped = (proc[q].stopped \/ q \in victims)
  <2>1. \A q \in Procs : proc[q] \in ProcRecords
    BY DEF IInv, TypeOK, ProcRecords
  <2>2. \A q \in Procs : proc'[q] = IF q \in victims THEN [proc[q] EXCEPT !.stopped = TRUE]
                                   ELSE proc[q]
    BY DEF StopBegin
  <2>3. \A q \in Procs : /\ proc'[q].st = proc[q].st /\ proc'[q].key = proc[q].key
                         /\ proc'[q].ready = proc[q].ready
                         /\ proc'[q].stopped = (proc[q].stopped \/ q \in victims)
    BY <2>1, <2>2 DEF ProcRecords
  <2> QED BY <2>3 DEF StopBegin
<1>b. \A q \in Procs : entries[proc[q].key] = q => q \in victims
  BY Ranges DEF IInv
<1> HIDE DEF victims
<1> USE <1>a, Ranges DEF IInv, Flights
<1>1. Claimed'
  BY DEF Claimed
<1>2. Vacant'
  BY DEF Vacant
<1>3. Awaited'
  BY DEF Awaited
<1>4. Registered'
  BY DEF Registered
<1>5. Watched'
  BY DEF Watched
<1>6. Stoppable'
  BY <1>b DEF Stoppable, Managed
<1>7. SharedPort'
  BY DEF SharedPort
<1> QED BY <1>1, <1>2, <1>3, <1>4, <1>5, <1>6, <1>7

\* The call that finds no ready entry and nobody working on one.
LEMMA ClaimKeeps ==
  ASSUME IInv, NEW c \in Calls, call[c].pc = "lookup",
         ~HasReady(call[c].key), spawning[call[c].key] = None,
         spawning' = [spawning EXCEPT ![call[c].key] = c],
         NEW x \in {"evict", "start"}, call' = [call EXCEPT ![c].pc = x],
         x = "start" => ~(call[c].key = Default
                          /\ \E p \in Procs : proc[p].key = Default /\ proc[p].st = "up"),
         UNCHANGED <<entries, proc, watcher>>
  PROVE  Flights'
<1>a. /\ call'[c].pc = x
      /\ \A d \in Calls : /\ call'[d].key = call[d].key /\ call'[d].proc = call[d].proc
                          /\ d # c => call'[d].pc = call[d].pc
  BY SetPc DEF IInv, Pcs
<1>b. \A k \in Keys : spawning'[k] = IF k = call[c].key THEN c ELSE spawning[k]
  BY DEF IInv, TypeOK
<1>c. \A d \in Calls : call[d].key = call[c].key => call[d].pc \notin Working
  BY Ranges DEF IInv, Flights, Claimed
<1>d. entries[call[c].key] = None
  <2>1. SUFFICES ASSUME entries[call[c].key] # None PROVE FALSE
    OBVIOUS
  <2>2. ~proc[entries[call[c].key]].ready
    BY <2>1 DEF HasReady
  <2>3. PICK d \in Calls : call[d].pc = "wait" /\ call[d].proc = entries[call[c].key]
    BY <2>1, <2>2, Ranges DEF IInv, Flights, Registered
  <2>4. call[d].key = call[c].key
    BY <2>1, <2>3, Ranges DEF IInv, Flights, Registered, Awaited
  <2> QED BY <1>c, <2>3, <2>4 DEF Working
<1> USE <1>a, Ranges DEF IInv, Flights
<1>1. Claimed'
  BY <1>b, <1>c DEF Claimed, Working
<1>2. Vacant'
  BY <1>d DEF Vacant
<1>3. Awaited'
  BY DEF Awaited
<1>4. Registered'
  BY DEF Registered
<1>5. Watched'
  BY DEF Watched
<1>6. Stoppable'
  BY DEF Stoppable, Managed
<1>7. SharedPort'
  BY DEF SharedPort
<1> QED BY <1>1, <1>2, <1>3, <1>4, <1>5, <1>6, <1>7

\* A call frees the shared port of whatever listens there.
LEMMA EvictKeeps ==
  ASSUME IInv, NEW c \in Calls, Evict(c)
  PROVE  Flights'
<1>a. /\ call[c].pc = "evict" /\ call'[c].pc = "start"
      /\ \A d \in Calls : /\ call'[d].key = call[d].key /\ call'[d].proc = call[d].proc
                          /\ d # c => call'[d].pc = call[d].pc
      /\ UNCHANGED <<entries, spawning, watcher>>
  BY SetPc DEF Evict, IInv, Pcs
<1>b. \A q \in Procs :
        /\ SameButSt(q)
        /\ proc'[q].st = IF proc[q].key = Default /\ proc[q].st = "up" THEN "dead" ELSE proc[q].st
  <2>1. \A q \in Procs : proc[q] \in ProcRecords
    BY DEF IInv, TypeOK, ProcRecords
  <2>2. \A q \in Procs : proc'[q] = IF proc[q].key = Default /\ proc[q].st = "up"
                                   THEN [proc[q] EXCEPT !.st = "dead"] ELSE proc[q]
    BY DEF Evict
  <2> QED BY <2>1, <2>2 DEF ProcRecords, SameButSt
<1> USE <1>a, <1>b, Ranges DEF IInv, Flights, SameButSt, Alive
<1>1. Claimed'
  BY DEF Claimed, Working
<1>2. Vacant'
  BY DEF Vacant
<1>3. Awaited'
  BY DEF Awaited
<1>4. Registered'
  BY DEF Registered
<1>5. Watched'
  BY DEF Watched
<1>6. Stoppable'
  BY DEF Stoppable, Managed
<1>7. SharedPort'
  BY DEF SharedPort
<1> QED BY <1>1, <1>2, <1>3, <1>4, <1>5, <1>6, <1>7

\* A call that holds its key ends, without a process, with a ready one or with one
\* it kills.
LEMMA ReturnKeeps ==
  ASSUME IInv, NEW c \in Calls, Return(c), UNCHANGED watcher,
         \/ call[c].pc \in {"evict", "start"} /\ UNCHANGED <<entries, proc>>
         \/ PortReady(c)
         \/ PortTimeout(c)
  PROVE  Flights'
<1> DEFINE k == call[c].key
           p == call[c].proc
<1>a. /\ call'[c].pc = "idle"
      /\ \A d \in Calls : d # c =>
           /\ call'[d].key = call[d].key /\ call'[d].proc = call[d].proc
           /\ \/ call'[d].pc = call[d].pc
              \/ call[d].pc = "parked" /\ call'[d].pc = "lookup"
  BY Woken DEF Return, IInv
<1>b. /\ spawning[k] = c /\ call[c].pc \in {"evict", "start", "wait"}
      /\ call[c].pc = "wait" => p \in Procs /\ proc[p].key = k /\ proc[p].st # "unborn"
      /\ call[c].pc = "wait" => entries[k] \in {None, p}
  BY DEF IInv, Flights, Claimed, Awaited, Working, PortReady, PortTimeout
<1>c. \A d \in Calls : d # c /\ call[d].pc \in Working => call[d].key # k
  BY <1>b DEF IInv, Flights, Claimed
<1>d. \A j \in Keys : spawning'[j] = IF j = k THEN None ELSE spawning[j]
  BY DEF Return, IInv, TypeOK
<1>e. CASE call[c].pc \in {"evict", "start"} /\ UNCHANGED <<entries, proc>>
  <2> USE <1>a, <1>b, <1>c, <1>d, <1>e, Ranges DEF IInv, Flights, Working
  <2>1. Claimed'
    BY DEF Claimed
  <2>2. Vacant'
    BY DEF Vacant
  <2>3. Awaited'
    BY DEF Awaited
  <2>4. Registered'
    BY DEF Registered
  <2>5. Watched'
    BY DEF Watched
  <2>6. Stoppable'
    BY DEF Stoppable, Managed
  <2>7. SharedPort'
    BY DEF SharedPort
  <2> QED BY <2>1, <2>2, <2>3, <2>4, <2>5, <2>6, <2>7
<1>f. CASE PortReady(c)
  <2>a. /\ UNCHANGED entries /\ call[c].pc = "wait" /\ p \in Procs
        /\ proc'[p].ready
        /\ \A q \in Procs : /\ proc'[q].key = proc[q].key /\ proc'[q].st = proc[q].st
                            /\ proc'[q].stopped = proc[q].stopped
                            /\ q # p => proc'[q].ready = proc[q].ready
    BY <1>b, <1>f, SetReady DEF PortReady, IInv
  <2>b. proc[p].st = "up"
    <3>1. CASE proc[p].key = Default
      <4>1. PICK q \in Procs : proc[q].key = Default /\ proc[q].st = "up"
        BY <1>f, <3>1 DEF PortReady, Answers
      <4> QED BY <1>b, <2>a, <3>1, <4>1 DEF IInv, Flights, SharedPort
    <3>2. CASE proc[p].key # Default
      BY <1>f, <3>2 DEF PortReady, Answers
    <3> QED BY <3>1, <3>2
  <2>c. watcher[p] = "wait"
    BY <2>a, <2>b DEF IInv, Flights, Watched, Alive
  <2>d. \A d \in Calls : d # c /\ call[d].pc \in Working => call[d].proc # p \/ call[d].pc \notin {"insert", "wait"}
    BY <1>b, <1>c, <2>a DEF IInv, Flights, Awaited
  <2> HIDE DEF p, k
  <2> USE <1>a, <1>b, <1>c, <1>d, <2>a, <2>b, <2>c, <2>d, Ranges DEF IInv, Flights, Working
  <2>1. Claimed'
    BY DEF Claimed
  <2>2. Vacant'
    BY DEF Vacant
  <2>3. Awaited'
    BY DEF Awaited
  <2>4. Registered'
    BY DEF Registered, k, p
  <2>5. Watched'
    BY DEF Watched
  <2>6. Stoppable'
    BY DEF Stoppable, Managed
  <2>7. SharedPort'
    BY DEF SharedPort, k, p
  <2> QED BY <2>1, <2>2, <2>3, <2>4, <2>5, <2>6, <2>7
<1>g. CASE PortTimeout(c)
  <2>a. /\ call[c].pc = "wait" /\ p \in Procs
        /\ proc'[p].st = "dead"
        /\ \A q \in Procs : SameButSt(q) /\ (q # p => proc'[q].st = proc[q].st)
    BY <1>b, <1>g, SetSt DEF PortTimeout, IInv, ProcStates
  <2>b. \A j \in Keys : entries'[j] = IF j = k THEN None ELSE entries[j]
    BY <1>g DEF PortTimeout, IInv, TypeOK
  <2>c. \A q \in Procs : entries[proc[q].key] = q /\ proc[q].key = k => q = p
    BY <1>b, <2>a, Ranges DEF IInv
  <2> HIDE DEF p, k
  <2> USE <1>a, <1>b, <1>c, <1>d, <2>a, <2>b, <2>c, Ranges
      DEF IInv, Flights, Working, SameButSt, Alive
  <2>1. Claimed'
    BY DEF Claimed
  <2>2. Vacant'
    BY DEF Vacant
  <2>3. Awaited'
    BY DEF Awaited
  <2>4. Registered'
    BY DEF Registered, k, p
  <2>5. Watched'
    BY DEF Watched
  <2>6. Stoppable'
    BY DEF Stoppable, Managed, k, p
  <2>7. SharedPort'
    BY DEF SharedPort, k, p
  <2> QED BY <2>1, <2>2, <2>3, <2>4, <2>5, <2>6, <2>7
<1> QED BY <1>e, <1>f, <1>g

\* A process starts, with somebody to wait for its exit and one call to insert it.
LEMMA StartKeeps ==
  ASSUME IInv, NEW c \in Calls, Start(c)
  PROVE  Flights'
<1> DEFINE k == call[c].key
           born == [Unborn EXCEPT !.st = "starting", !.key = k]
<1>p. PICK p \in Procs :
        /\ proc[p].st = "unborn"
        /\ proc' = [proc EXCEPT ![p] = born]
        /\ watcher' = [watcher EXCEPT ![p] = "wait"]
        /\ call' = [call EXCEPT ![c].pc = "insert", ![c].proc = p]
  BY DEF Start
<1>a. /\ call[c].pc = "start"
      /\ call'[c].pc = "insert" /\ call'[c].proc = p /\ call'[c].key = k
      /\ \A d \in Calls : d # c => call'[d] = call[d]
      /\ UNCHANGED <<entries, spawning>>
  <2>1. call[c] \in CallRecords
    BY DEF IInv, TypeOK, CallRecords, Pcs
  <2> QED BY <1>p, <2>1 DEF Start, IInv, TypeOK, CallRecords
<1>b. /\ born.st = "starting" /\ born.key = k /\ ~born.ready
      /\ proc'[p] = born
      /\ \A q \in Procs : q # p => proc'[q] = proc[q]
  <2>1. k \in Keys
    BY Ranges DEF IInv
  <2>2. born.st = "starting" /\ born.key = k /\ ~born.ready
    BY <2>1, Records
  <2> HIDE DEF born
  <2> QED BY <1>p, <2>2 DEF IInv, TypeOK
<1>c. \A q \in Procs : watcher'[q] = IF q = p THEN "wait" ELSE watcher[q]
  BY <1>p DEF IInv, TypeOK
<1>d. /\ entries[k] = None
      /\ \A d \in Calls : d # c /\ call[d].pc \in Working => call[d].key # k
      /\ \A d \in Calls : call[d].pc \in {"insert", "wait"} => call[d].proc # p
      /\ \A j \in Keys : entries[j] # p
      /\ call[p].pc = "idle" /\ c # p
  <2>1. entries[k] = None
    BY <1>a DEF IInv, Flights, Vacant
  <2>2. \A d \in Calls : d # c /\ call[d].pc \in Working => call[d].key # k
    BY <1>a DEF IInv, Flights, Claimed, Working
  <2>3. \A d \in Calls : call[d].pc \in {"insert", "wait"} => call[d].proc # p
    BY <1>p DEF IInv, Flights, Awaited
  <2>4. \A j \in Keys : entries[j] # p
    BY <1>p, Ranges DEF IInv, Flights, Registered
  <2>5. watcher[p] = "none"
    BY <1>p DEF IInv, Flights, Watched
  <2>6. call[p].pc = "idle"
    BY <2>5 DEF IInv, Flights, Watched
  <2> QED BY <1>a, <2>1, <2>2, <2>3, <2>4, <2>6
<1> HIDE DEF born
<1> USE <1>a, <1>b, <1>c, <1>d, Ranges DEF IInv, Flights, Working, Alive
<1>1. Claimed'
  BY DEF Claimed
<1>2. Vacant'
  BY DEF Vacant
<1>3. Awaited'
  BY DEF Awaited
<1>4. Registered'
  BY DEF Registered
<1>5. Watched'
  BY DEF Watched
<1>6. Stoppable'
  BY DEF Stoppable, Managed
<1>7. SharedPort'
  BY DEF SharedPort
<1> QED BY <1>1, <1>2, <1>3, <1>4, <1>5, <1>6, <1>7

\* The entry becomes visible.
LEMMA InsertKeeps ==
  ASSUME IInv, NEW c \in Calls, Insert(c)
  PROVE  Flights'
<1> DEFINE k == call[c].key
           p == call[c].proc
<1>a. /\ call[c].pc = "insert" /\ call'[c].pc = "wait"
      /\ \A d \in Calls :
           /\ call'[d].key = call[d].key /\ call'[d].proc = call[d].proc
           /\ d # c => call'[d].pc = call[d].pc
      /\ UNCHANGED <<spawning, proc, watcher>>
      /\ \A j \in Keys : entries'[j] = IF j = k THEN p ELSE entries[j]
  BY SetPc DEF Insert, IInv, TypeOK, Pcs
<1>b. /\ p \in Procs /\ proc[p].key = k /\ proc[p].st # "unborn" /\ ~proc[p].ready
      /\ entries[k] = None
  BY <1>a DEF IInv, Flights, Awaited, Vacant
<1>c. \A d \in Calls : d # c /\ call[d].pc \in Working => call[d].key # k
  BY <1>a DEF IInv, Flights, Claimed, Working
<1> USE <1>a, <1>b, <1>c, Ranges DEF IInv, Flights, Working
<1>1. Claimed'
  BY DEF Claimed
<1>2. Vacant'
  BY DEF Vacant
<1>3. Awaited'
  BY DEF Awaited
<1>4. Registered'
  BY DEF Registered
<1>5. Watched'
  BY DEF Watched
<1>6. Stoppable'
  BY DEF Stoppable, Managed
<1>7. SharedPort'
  BY DEF SharedPort
<1> QED BY <1>1, <1>2, <1>3, <1>4, <1>5, <1>6, <1>7

\* The exit watcher sees a process dead and drops its entry and no other.
LEMMA ReapKeeps ==
  ASSUME IInv, NEW p \in Procs, Reap(p)
  PROVE  Flights'
<1>a. /\ watcher[p] = "wait" /\ proc[p].st = "dead"
      /\ UNCHANGED <<spawning, proc, call>>
      /\ \A q \in Procs : q # p => watcher'[q] = watcher[q]
      /\ \A j \in Keys : entries'[j] = IF j = proc[p].key /\ entries[j] = p THEN None ELSE entries[j]
  BY DEF Reap, IInv, TypeOK
<1> USE <1>a, Ranges DEF IInv, Flights, Alive
<1>1. Claimed'
  BY DEF Claimed
<1>2. Vacant'
  BY DEF Vacant
<1>3. Awaited'
  BY DEF Awaited
<1>4. Registered'
  BY DEF Registered
<1>5. Watched'
  BY DEF Watched
<1>6. Stoppable'
  BY DEF Stoppable, Managed
<1>7. SharedPort'
  BY DEF SharedPort
<1> QED BY <1>1, <1>2, <1>3, <1>4, <1>5, <1>6, <1>7

\* A dead process is replaced by a call of its own number, which was idle.
LEMMA RespawnKeeps ==
  ASSUME IInv, NEW p \in Procs, Respawn(p)
  PROVE  Flights'
<1>a. /\ watcher[p] = "backoff" /\ watcher'[p] = "done"
      /\ \A q \in Procs : q # p => watcher'[q] = watcher[q]
      /\ UNCHANGED <<entries, spawning, proc>>
  BY DEF Respawn, IInv, TypeOK
<1>b. /\ call[p].pc = "idle" /\ call'[p].pc = "lookup"
      /\ \A d \in Calls : d # p => call'[d] = call[d]
  <2>1. call[p].pc = "idle"
    BY <1>a DEF IInv, Flights, Watched
  <2>2. proc[p].key \in Keys /\ p \in Calls
    BY Ranges DEF IInv
  <2>3. CallFor(proc[p].key) \in CallRecords /\ CallFor(proc[p].key).pc = "lookup"
    BY <2>2, Records
  <2> QED BY <2>1, <2>2, <2>3, SetCall DEF Respawn, IInv
<1> USE <1>a, <1>b, Ranges DEF IInv, Flights, Working, Alive
<1>1. Claimed'
  BY DEF Claimed
<1>2. Vacant'
  BY DEF Vacant
<1>3. Awaited'
  BY DEF Awaited
<1>4. Registered'
  BY DEF Registered
<1>5. Watched'
  BY DEF Watched
<1>6. Stoppable'
  BY DEF Stoppable, Managed
<1>7. SharedPort'
  BY DEF SharedPort
<1> QED BY <1>1, <1>2, <1>3, <1>4, <1>5, <1>6, <1>7

-----------------------------------------------------------------------------
(* The theorems. *)

\* Nothing runs and nobody asks at the start.
LEMMA InitKeeps == Init => IInv
<1> SUFFICES ASSUME Init PROVE IInv
  OBVIOUS
<1>1. TypeOK
  <2>1. Unborn \in ProcRecords /\ NoCall \in CallRecords /\ 0 \in 0..MaxFaults
    BY FaultsAssumption DEF Unborn, NoCall, ProcRecords, ProcStates, CallRecords, Pcs
  <2>2. proc \in [Procs -> ProcRecords] /\ call \in [Calls -> CallRecords]
    BY <2>1 DEF Init
  <2>3. stopper \in [Stoppers -> [pc : {"idle", "wait", "done"}, victims : SUBSET Procs]]
    BY DEF Init
  <2>4. watchdog \in [pc : {"sleep", "probe", "gone"}, miss : [Keys -> 0..1],
                      snap : [Keys -> Procs \cup {None}]]
    BY DEF Init
  <2> QED BY <2>1, <2>2, <2>3, <2>4 DEF Init, TypeOK, ProcRecords, CallRecords, Pcs
<1>2. /\ \A c \in Calls : call[c].pc = "idle"
      /\ \A p \in Procs : proc[p].st = "unborn" /\ watcher[p] = "none" /\ call[p].pc = "idle"
      /\ \A k \in Keys : entries[k] = None
  BY DEF Init, NoCall, Unborn, Calls
<1>3. Flights
  BY <1>2 DEF Flights, Claimed, Vacant, Awaited, Registered, Watched, Stoppable, SharedPort,
     Alive, Working
<1> QED BY <1>1, <1>3 DEF IInv

\* The invariant is kept by every step of calls, processes, watchers and StopAll.
LEMMA NextKeeps == IInv /\ [Next]_vars => Flights'
<1> SUFFICES ASSUME IInv, [Next]_vars PROVE Flights'
  OBVIOUS
<1>0. TypeOK
  BY DEF IInv
<1>s. /\ {"dead", "hung", "closing"} \subseteq ProcStates
      /\ \A q \in Procs : SameButSt(q) <=> /\ proc'[q].key = proc[q].key
                                          /\ proc'[q].ready = proc[q].ready
                                          /\ proc'[q].stopped = proc[q].stopped
  BY DEF ProcStates, SameButSt
<1>1. ASSUME NEW c \in Callers, NEW k \in Keys, Begin(c, k) PROVE Flights'
  <2>1. c \in Calls /\ c \notin Procs /\ CallFor(k) \in CallRecords /\ CallFor(k).pc = "lookup"
    BY CallersAssumption, Records DEF Calls
  <2>2. /\ call[c].pc = "idle" /\ call'[c].pc = "lookup"
        /\ \A d \in Calls : d # c => call'[d] = call[d]
        /\ UNCHANGED <<entries, spawning, watcher, proc>>
    BY <1>0, <1>1, <2>1, SetCall DEF Begin
  <2>3. \A d \in Calls : Still(d) \/ {call[d].pc, call'[d].pc} \cap Working = {}
    BY <2>2 DEF Still, Working
  <2>4. \A q \in Procs : call[q].pc = "idle" => call'[q].pc = "idle"
    BY <2>1, <2>2 DEF Calls
  <2> QED BY <2>2, <2>3, <2>4, Unclaimed
<1>2. ASSUME NEW c \in Calls, Lookup(c) \/ GiveUp(c) PROVE Flights'
  <2>1. CASE /\ UNCHANGED <<entries, spawning, watcher, proc>>
             /\ call[c].pc \in {"lookup", "parked"}
             /\ \/ call' = [call EXCEPT ![c] = NoCall]
                \/ call' = [call EXCEPT ![c].pc = "parked"]
    <3>1. call'[c].pc \in {"idle", "parked"}
      BY <1>0, <2>1, SetCall, SetPc, Records DEF Pcs
    <3>2. \A d \in Calls : d # c => Still(d)
      <4>1. CASE call' = [call EXCEPT ![c] = NoCall]
        BY <1>0, <4>1, SetCall, Records DEF Still
      <4>2. CASE call' = [call EXCEPT ![c].pc = "parked"]
        BY <1>0, <4>2, SetPc DEF Still, Pcs
      <4> QED BY <2>1, <4>1, <4>2
    <3>3. \A d \in Calls : Still(d) \/ {call[d].pc, call'[d].pc} \cap Working = {}
      BY <2>1, <3>1, <3>2 DEF Working
    <3>4. \A q \in Procs : call[q].pc = "idle" => call'[q].pc = "idle"
      BY <2>1, <3>2 DEF Still, Calls
    <3> QED BY <2>1, <3>3, <3>4, Unclaimed
  <2>2. ASSUME call[c].pc = "lookup", ~HasReady(call[c].key), spawning[call[c].key] = None,
               spawning' = [spawning EXCEPT ![call[c].key] = c],
               UNCHANGED <<entries, proc, watcher>>,
               call' = [call EXCEPT ![c].pc =
                 IF call[c].key = Default /\ \E p \in Procs : proc[p].key = call[c].key /\ proc[p].st = "up"
                 THEN "evict" ELSE "start"]
        PROVE  Flights'
    <3> DEFINE busy == call[c].key = Default /\ \E p \in Procs : proc[p].key = Default /\ proc[p].st = "up"
    <3>1. CASE busy
      <4>1. call' = [call EXCEPT ![c].pc = "evict"]
        BY <2>2, <3>1
      <4> QED BY <2>2, <4>1, ClaimKeeps
    <3>2. CASE ~busy
      <4>1. call' = [call EXCEPT ![c].pc = "start"]
        BY <2>2, <3>2
      <4> QED BY <2>2, <3>2, <4>1, ClaimKeeps
    <3> QED BY <3>1, <3>2
  <2> QED BY <1>2, <2>1, <2>2 DEF Lookup, GiveUp
<1>3. ASSUME NEW c \in Calls, StartFails(c) \/ PortReady(c) \/ PortTimeout(c) PROVE Flights'
  BY <1>3, ReturnKeeps DEF StartFails, PortReady, PortTimeout
<1>4. ASSUME NEW p \in Procs, NEW st \in {"dead", "hung", "closing"},
             proc' = [proc EXCEPT ![p].st = st], proc[p].st \in Alive \/ st = "dead",
             UNCHANGED <<entries, spawning, watcher, call>>
      PROVE  Flights'
  <2>1. /\ proc'[p].st = st
        /\ \A q \in Procs : SameButSt(q) /\ (q # p => proc'[q].st = proc[q].st)
    BY <1>0, <1>4, <1>s, SetSt
  <2>2. \A q \in Procs :
          /\ SameButSt(q)
          /\ proc'[q].st = proc[q].st \/ proc'[q].st \in {"dead", "hung", "closing"}
          /\ proc'[q].st \in Alive => proc[q].st \in Alive
    BY <1>4, <2>1 DEF Alive
  <2> QED BY <1>4, <2>2, Weakened
<1>5. ASSUME UNCHANGED <<entries, spawning, watcher, call, proc>> PROVE Flights'
  <2>1. \A q \in Procs :
          /\ SameButSt(q)
          /\ proc'[q].st = proc[q].st \/ proc'[q].st \in {"dead", "hung", "closing"}
          /\ proc'[q].st \in Alive => proc[q].st \in Alive
    BY <1>5, <1>s
  <2> QED BY <1>5, <2>1, Weakened
<1>6. ASSUME NEW p \in Procs, ProcStep(p) \/ Crash(p) \/ Hang(p) PROVE Flights'
  <2>1. CASE Listen(p)
    BY <2>1, ListenKeeps
  <2>2. ASSUME ~Listen(p)
        PROVE  \E st \in {"dead", "hung", "closing"} :
                 /\ proc' = [proc EXCEPT ![p].st = st] /\ proc[p].st \in Alive
                 /\ UNCHANGED <<entries, spawning, watcher, call>>
    BY <1>6, <2>2 DEF ProcStep, Close, Exit, Crash, Hang, To, Alive
  <2> QED BY <1>4, <2>1, <2>2
<1>7. CASE WatchdogStep
  <2>1. ASSUME NEW k \in Keys, WatchdogProbe(k) PROVE Flights'
    <3>1. watchdog.snap[k] \in Procs
      BY <1>0, <2>1 DEF WatchdogProbe, TypeOK
    <3>2. /\ UNCHANGED <<entries, spawning, watcher, call>>
          /\ proc' = [proc EXCEPT ![watchdog.snap[k]].st = "dead"] \/ proc' = proc
      BY <2>1 DEF WatchdogProbe
    <3> QED BY <1>4, <1>5, <3>1, <3>2
  <2> QED BY <1>5, <1>7, <2>1 DEF WatchdogStep, WatchdogTick, WatchdogRest
<1>8. ASSUME NEW s \in Stoppers, StopBegin(s) \/ StopStep(s) PROVE Flights'
  <2>1. CASE StopKill(s)
    <3>1. PICK p \in Procs : proc' = [proc EXCEPT ![p].st = "dead"]
      BY <1>0, <2>1 DEF StopKill, TypeOK
    <3>2. UNCHANGED <<entries, spawning, watcher, call>>
      BY <2>1 DEF StopKill
    <3> QED BY <1>4, <3>1, <3>2
  <2> QED BY <1>5, <1>8, <2>1, StopKeeps DEF StopStep, StopEnd
<1>9. CASE UNCHANGED vars
  BY <1>5, <1>9 DEF vars
<1> QED
  BY <1>1, <1>2, <1>3, <1>6, <1>7, <1>8, <1>9, EvictKeeps, StartKeeps, InsertKeeps, ReapKeeps,
     RespawnKeeps
     DEF Next, EnsureStep, WatchStep

\* The invariant holds in every reachable state.
LEMMA Invariance == Spec => []IInv
<1>1. IInv /\ [Next]_vars => IInv'
  BY TypeStep, NextKeeps DEF IInv
<1> QED BY <1>1, InitKeeps, PTL DEF Spec

\* The registry, the calls, the processes and the watchdog's books stay what they
\* are meant to be, and a port's misses below the two that kill.
THEOREM WellTyped == Spec => []TypeOK
<1>1. IInv => TypeOK
  BY DEF IInv
<1> QED BY <1>1, Invariance, PTL

\* However calls of Ensure, exit watchers, respawns, the watchdog and StopAll
\* interleave with processes that crash and hang, no process lives that nobody can
\* stop, and no egress has two that were not told to go.
THEOREM NothingLeftBehind == Spec => []NoOrphan
<1>1. ASSUME IInv PROVE NoOrphan
  <2>1. \A p \in Procs : proc[p].st \in Alive => proc[p].stopped \/ Managed(p)
    BY <1>1 DEF IInv, Flights, Stoppable
  <2>2. ASSUME NEW p \in Procs, NEW q \in Procs, Managed(p), Managed(q),
               proc[p].key = proc[q].key
        PROVE  p = q
    <3> DEFINE Inserted(r) == \E c \in Calls : call[c].proc = r /\ call[c].pc = "insert"
    <3>1. ASSUME NEW r \in Procs, Inserted(r) PROVE entries[proc[r].key] = None
      <4>1. PICK c \in Calls : call[c].proc = r /\ call[c].pc = "insert"
        BY <3>1
      <4> QED BY <1>1, <4>1 DEF IInv, Flights, Awaited, Vacant
    <3>2. CASE Inserted(p) /\ Inserted(q)
      <4>1. PICK c \in Calls : call[c].proc = p /\ call[c].pc = "insert"
        BY <3>2
      <4>2. PICK d \in Calls : call[d].proc = q /\ call[d].pc = "insert"
        BY <3>2
      <4>3. call[c].key = proc[p].key /\ call[d].key = proc[q].key
        BY <1>1, <4>1, <4>2 DEF IInv, Flights, Awaited
      <4>4. c = d
        BY <1>1, <2>2, <4>1, <4>2, <4>3 DEF IInv, Flights, Claimed, Working
      <4> QED BY <4>1, <4>2, <4>4
    <3> QED BY <1>1, <2>2, <3>1, <3>2, Ranges DEF Managed, IInv
  <2> QED BY <2>1, <2>2 DEF NoOrphan
<1> QED BY <1>1, Invariance, PTL

\* An entry that Ensure hands out still has its exit watcher, also if its process
\* died while Ensure was waiting for the port.
THEOREM DeadEntriesGo == Spec => []DeadIsNoticed
<1>1. IInv => DeadIsNoticed
  BY DEF IInv, Flights, Registered, DeadIsNoticed, HasReady
<1> QED BY <1>1, Invariance, PTL
=================================================================================
