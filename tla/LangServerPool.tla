---------------------------- MODULE LangServerPool ----------------------------
(***************************************************************************)
(* The registry of language-server processes                               *)
(* (src/internal/langserver/pool.go): Ensure's single flight per proxy,    *)
(* the goroutine that waits for each process to exit and respawns it, the  *)
(* port watchdog and StopAll.  Steps under Pool.mu are atomic; between     *)
(* them processes come up, hang and die.                                   *)
(*                                                                         *)
(* Every entry has a process, so the watchdog's branch for adopted entries *)
(* is unreachable and left out.                                            *)
(***************************************************************************)
EXTENDS Naturals, FiniteSets

CONSTANTS
  Keys,       \* proxyKey of the egresses in use
  Default,    \* the key without a proxy, always on port 42100
  Callers,    \* goroutines of handlers, main and the dashboard
  Stoppers,   \* calls of StopAll
  Procs,      \* bound: processes started, numbered in order
  MaxFaults,  \* bound: crashes, hangs and starts too slow for Ensure
  None

ASSUME ProcsAssumption == Procs \subseteq Nat /\ None \notin Procs
ASSUME CallersAssumption == Callers \cap Procs = {} /\ None \notin Callers
ASSUME KeysAssumption == Default \in Keys
ASSUME FaultsAssumption == MaxFaults \in Nat

VARIABLES
  entries,      \* Pool.entries: process by key, or None
  spawning,     \* Pool.spawning: the call that holds a key, or None
  stoppingAll,  \* Pool.stoppingAll
  proc,         \* the processes and their Entry
  watcher,      \* the exit watcher of each process
  call,         \* calls of Ensure; a process number is its respawn goroutine
  stopper,      \* calls of StopAll
  watchdog,     \* watchdogLoop
  faults,
  startFailed   \* history: a call of Ensure ended without starting a process

vars == <<entries, spawning, stoppingAll, proc, watcher, call, stopper, watchdog, faults,
          startFailed>>

Calls == Callers \cup Procs

ProcStates == {"unborn", "starting", "up", "hung", "closing", "dead"}
Alive == {"starting", "up", "hung", "closing"}

Unborn == [st |-> "unborn", key |-> Default, ready |-> FALSE, stopped |-> FALSE]
NoCall == [pc |-> "idle", key |-> Default, proc |-> None, waited |-> FALSE]
CallFor(k) == [NoCall EXCEPT !.pc = "lookup", !.key = k]

\* Who would answer a dial to the port of process p: the default port is the
\* same for all processes of that key, any other port is used once.
Answers(p) ==
  IF proc[p].key = Default
  THEN \E q \in Procs : proc[q].key = Default /\ proc[q].st = "up"
  ELSE proc[p].st = "up"

HasReady(k) == entries[k] # None /\ proc[entries[k]].ready

Init ==
  /\ entries = [k \in Keys |-> None]
  /\ spawning = [k \in Keys |-> None]
  /\ stoppingAll = FALSE
  /\ proc = [p \in Procs |-> Unborn]
  /\ watcher = [p \in Procs |-> "none"]
  /\ call = [c \in Calls |-> NoCall]
  /\ stopper = [s \in Stoppers |-> [pc |-> "idle", victims |-> {}]]
  /\ watchdog = [pc |-> "sleep", miss |-> [k \in Keys |-> 0], snap |-> [k \in Keys |-> None]]
  /\ faults = 0
  /\ startFailed = FALSE

-----------------------------------------------------------------------------
(* Ensure. *)

\* The deferred function of the winner: waiters on the channel look again.
Waking(c, k, pcs) ==
  [d \in Calls |-> IF d = c THEN pcs
                   ELSE IF call[d].pc = "parked" /\ call[d].key = k
                        THEN [call[d] EXCEPT !.pc = "lookup", !.waited = TRUE] ELSE call[d]]

Return(c) ==
  /\ spawning' = [spawning EXCEPT ![call[c].key] = None]
  /\ call' = Waking(c, call[c].key, NoCall)

Begin(c, k) ==
  /\ c \in Callers /\ call[c].pc = "idle"
  /\ call' = [call EXCEPT ![c] = CallFor(k)]
  /\ UNCHANGED <<entries, spawning, stoppingAll, proc, watcher, stopper, watchdog, faults, startFailed>>

\* Mutant: every caller spawns for itself.
LookupNoFlight(c) ==
  LET k == call[c].key IN
  /\ call[c].pc = "lookup"
  /\ IF HasReady(k)
     THEN call' = [call EXCEPT ![c] = NoCall] /\ UNCHANGED spawning
     ELSE /\ spawning' = [spawning EXCEPT ![k] = c]
          /\ call' = [call EXCEPT ![c].pc = "start"]
  /\ UNCHANGED <<entries, stoppingAll, proc, watcher, stopper, watchdog, faults, startFailed>>

\* A ready entry, another call to wait for, or the slot is ours.
Lookup(c) ==
  LET k == call[c].key IN
  /\ call[c].pc = "lookup"
  /\ \/ /\ HasReady(k)
        /\ call' = [call EXCEPT ![c] = NoCall]
        /\ UNCHANGED spawning
     \/ /\ ~HasReady(k)
        /\ spawning[k] # None
        /\ call' = [call EXCEPT ![c].pc = "parked"]
        /\ UNCHANGED spawning
     \/ /\ ~HasReady(k)
        /\ spawning[k] = None
        /\ spawning' = [spawning EXCEPT ![k] = c]
        /\ call' = [call EXCEPT ![c].pc =
             IF k = Default /\ \E p \in Procs : proc[p].key = k /\ proc[p].st = "up"
             THEN "evict" ELSE "start"]
  /\ UNCHANGED <<entries, stoppingAll, proc, watcher, stopper, watchdog, faults, startFailed>>

\* ctx is done before the winner is.  The 30 s of a respawn outlast the 2 s and
\* 25 s of one winner, not of two.
GiveUp(c) ==
  /\ call[c].pc = "parked"
  /\ c \in Callers \/ call[c].waited
  /\ call' = [call EXCEPT ![c] = NoCall]
  /\ UNCHANGED <<entries, spawning, stoppingAll, proc, watcher, stopper, watchdog, faults, startFailed>>

\* killOrphanOnPort: whatever of ours listens on the default port dies, or the
\* port is free by now.
Evict(c) ==
  /\ call[c].pc = "evict"
  /\ proc' = [p \in Procs |-> IF proc[p].key = Default /\ proc[p].st = "up"
                              THEN [proc[p] EXCEPT !.st = "dead"] ELSE proc[p]]
  /\ call' = [call EXCEPT ![c].pc = "start"]
  /\ UNCHANGED <<entries, spawning, stoppingAll, watcher, stopper, watchdog, faults, startFailed>>

\* Mutant: the error return leaves the key claimed.
StartFailsClaiming(c) ==
  /\ call[c].pc = "start" /\ faults < MaxFaults
  /\ faults' = faults + 1
  /\ startFailed' = TRUE
  /\ call' = [call EXCEPT ![c] = NoCall]
  /\ UNCHANGED <<entries, spawning, stoppingAll, proc, watcher, stopper, watchdog>>

\* The port could not be freed, no pipe, or no process.
StartFails(c) ==
  /\ call[c].pc \in {"evict", "start"} /\ faults < MaxFaults
  /\ faults' = faults + 1
  /\ startFailed' = TRUE
  /\ Return(c)
  /\ UNCHANGED <<entries, stoppingAll, proc, watcher, stopper, watchdog>>

\* cmd.Start and the goroutine that waits for the exit.
Start(c) ==
  /\ call[c].pc = "start"
  /\ \E p \in Procs :
       /\ proc[p].st = "unborn"
       /\ \A q \in Procs : q < p => proc[q].st # "unborn"
       /\ proc' = [proc EXCEPT ![p] = [Unborn EXCEPT !.st = "starting", !.key = call[c].key]]
       /\ watcher' = [watcher EXCEPT ![p] = "wait"]
       /\ call' = [call EXCEPT ![c].pc = "insert", ![c].proc = p]
  /\ UNCHANGED <<entries, spawning, stoppingAll, stopper, watchdog, faults, startFailed>>

\* The entry becomes visible after the watcher was started.
Insert(c) ==
  /\ call[c].pc = "insert"
  /\ entries' = [entries EXCEPT ![call[c].key] = call[c].proc]
  /\ call' = [call EXCEPT ![c].pc = "wait"]
  /\ UNCHANGED <<spawning, stoppingAll, proc, watcher, stopper, watchdog, faults, startFailed>>

\* Mutant: the process is taken for ready after a while.
PortReadyUnchecked(c) ==
  /\ call[c].pc = "wait"
  /\ proc' = [proc EXCEPT ![call[c].proc].ready = TRUE]
  /\ Return(c)
  /\ UNCHANGED <<entries, stoppingAll, watcher, stopper, watchdog, faults, startFailed>>

\* waitPortReady has an answer; Ready is set without the lock.
PortReady(c) ==
  /\ call[c].pc = "wait" /\ Answers(call[c].proc)
  /\ proc' = [proc EXCEPT ![call[c].proc].ready = TRUE]
  /\ Return(c)
  /\ UNCHANGED <<entries, stoppingAll, watcher, stopper, watchdog, faults, startFailed>>

\* 25 seconds without an answer: kill what is left and drop the key's entry,
\* whichever that is by now.  A process that was only slow is a fault.
PortTimeout(c) ==
  LET p == call[c].proc
      slow == proc[p].st = "starting" /\ ~proc[p].stopped
  IN  /\ call[c].pc = "wait" /\ ~Answers(p)
      /\ slow => faults < MaxFaults
      /\ faults' = IF slow THEN faults + 1 ELSE faults
      /\ proc' = [proc EXCEPT ![p].st = "dead"]
      /\ entries' = [entries EXCEPT ![call[c].key] = None]
      /\ Return(c)
      /\ UNCHANGED <<stoppingAll, watcher, stopper, watchdog, startFailed>>

-----------------------------------------------------------------------------
(* The exit watcher of a process and its respawn goroutine. *)

\* cmd.Wait returns: drop the entry if it is still ours, and see whether the
\* pool is being stopped.
Reap(p) ==
  /\ watcher[p] = "wait" /\ proc[p].st = "dead"
  /\ entries' = [entries EXCEPT ![proc[p].key] = IF @ = p THEN None ELSE @]
  /\ watcher' = [watcher EXCEPT ![p] = IF stoppingAll THEN "done" ELSE "backoff"]
  /\ UNCHANGED <<spawning, stoppingAll, proc, call, stopper, watchdog, faults, startFailed>>

\* Mutant: a process that had not come up yet is not replaced.
RespawnIfReady(p) ==
  /\ watcher[p] = "backoff"
  /\ watcher' = [watcher EXCEPT ![p] = "done"]
  /\ call' = IF proc[p].ready
             THEN [call EXCEPT ![p] = CallFor(proc[p].key)]
             ELSE call
  /\ UNCHANGED <<entries, spawning, stoppingAll, proc, stopper, watchdog, faults, startFailed>>

\* Two seconds later: Ensure in a goroutine of its own.
Respawn(p) ==
  /\ watcher[p] = "backoff"
  /\ watcher' = [watcher EXCEPT ![p] = "done"]
  /\ call' = [call EXCEPT ![p] = CallFor(proc[p].key)]
  /\ UNCHANGED <<entries, spawning, stoppingAll, proc, stopper, watchdog, faults, startFailed>>

-----------------------------------------------------------------------------
(* The watchdog. *)

\* A tick: leave for good while the pool is being stopped, or take the ready
\* entries along.
WatchdogTick ==
  /\ watchdog.pc = "sleep"
  /\ watchdog' = IF stoppingAll THEN [watchdog EXCEPT !.pc = "gone"]
       ELSE [watchdog EXCEPT !.pc = "probe",
               !.snap = [k \in Keys |-> IF HasReady(k)
                                        THEN entries[k] ELSE None],
               !.miss = [k \in Keys |-> IF HasReady(k)
                                        THEN @[k] ELSE 0]]
  /\ UNCHANGED <<entries, spawning, stoppingAll, proc, watcher, call, stopper, faults, startFailed>>

\* One entry probed without the lock; the second miss kills its process.
WatchdogProbe(k) ==
  LET p == watchdog.snap[k]
      misses == IF Answers(p) THEN 0 ELSE watchdog.miss[k] + 1
  IN  /\ watchdog.pc = "probe" /\ p # None
      /\ watchdog' = [watchdog EXCEPT !.snap[k] = None,
                                      !.miss[k] = IF misses = 2 THEN 0 ELSE misses]
      /\ proc' = IF misses = 2 THEN [proc EXCEPT ![p].st = "dead"] ELSE proc
      /\ UNCHANGED <<entries, spawning, stoppingAll, watcher, call, stopper, faults, startFailed>>

WatchdogRest ==
  /\ watchdog.pc = "probe" /\ \A k \in Keys : watchdog.snap[k] = None
  /\ watchdog' = [watchdog EXCEPT !.pc = "sleep"]
  /\ UNCHANGED <<entries, spawning, stoppingAll, proc, watcher, call, stopper, faults, startFailed>>

-----------------------------------------------------------------------------
(* StopAll. *)

\* Interrupt every process in the registry and empty it.
StopBegin(s) ==
  LET victims == {entries[k] : k \in Keys} \ {None} IN
  /\ stopper[s].pc = "idle"
  /\ stoppingAll' = TRUE
  /\ proc' = [p \in Procs |-> IF p \in victims THEN [proc[p] EXCEPT !.stopped = TRUE]
                              ELSE proc[p]]
  /\ entries' = [k \in Keys |-> None]
  /\ stopper' = [stopper EXCEPT ![s] = [pc |-> "wait", victims |-> victims]]
  /\ UNCHANGED <<spawning, watcher, call, watchdog, faults, startFailed>>

\* A port still in use after five seconds: SIGKILL.
StopKill(s) ==
  /\ stopper[s].pc = "wait"
  /\ \E p \in stopper[s].victims :
       Answers(p) /\ proc' = [proc EXCEPT ![p].st = "dead"]
  /\ proc' # proc
  /\ UNCHANGED <<entries, spawning, stoppingAll, watcher, call, stopper, watchdog, faults, startFailed>>

\* Every port is free, or two more seconds have passed.
StopEnd(s) ==
  /\ stopper[s].pc = "wait"
  /\ \A p \in stopper[s].victims : ~Answers(p) \/ proc[p].st = "dead"
  /\ stoppingAll' = FALSE
  /\ stopper' = [stopper EXCEPT ![s] = [pc |-> "done", victims |-> {}]]
  /\ UNCHANGED <<entries, spawning, proc, watcher, call, watchdog, faults, startFailed>>

-----------------------------------------------------------------------------
(* The processes. *)

To(p, st) ==
  /\ proc' = [proc EXCEPT ![p].st = st]
  /\ UNCHANGED <<entries, spawning, stoppingAll, watcher, call, stopper, watchdog, startFailed>>

Listen(p) == proc[p].st = "starting" /\ To(p, "up") /\ UNCHANGED faults

\* An interrupted process gives up its port first, then exits.
Close(p) == proc[p].stopped /\ proc[p].st = "up" /\ To(p, "closing") /\ UNCHANGED faults
Exit(p) == proc[p].stopped /\ proc[p].st \in Alive /\ To(p, "dead") /\ UNCHANGED faults

Crash(p) ==
  proc[p].st \in Alive /\ faults < MaxFaults /\ To(p, "dead") /\ faults' = faults + 1

\* Alive, but its port no longer answers.
Hang(p) ==
  proc[p].st = "up" /\ faults < MaxFaults /\ To(p, "hung") /\ faults' = faults + 1

-----------------------------------------------------------------------------
EnsureStep(c) ==
  \/ Lookup(c) \/ Evict(c) \/ StartFails(c) \/ Start(c) \/ Insert(c)
  \/ PortReady(c) \/ PortTimeout(c)

ProcStep(p) == Listen(p) \/ Close(p) \/ Exit(p)
WatchStep(p) == Reap(p) \/ Respawn(p)
WatchdogStep == WatchdogTick \/ (\E k \in Keys : WatchdogProbe(k)) \/ WatchdogRest
StopStep(s) == StopKill(s) \/ StopEnd(s)

Next ==
  \/ \E c \in Callers, k \in Keys : Begin(c, k)
  \/ \E c \in Calls : EnsureStep(c) \/ GiveUp(c)
  \/ \E p \in Procs : ProcStep(p) \/ WatchStep(p) \/ Crash(p) \/ Hang(p)
  \/ WatchdogStep
  \/ \E s \in Stoppers : StopBegin(s) \/ StopStep(s)

Spec == Init /\ [][Next]_vars

\* Goroutines run on; the watchdog's ticker ticks; a process comes up or obeys.
Fairness ==
  /\ \A c \in Calls : WF_vars(EnsureStep(c))
  /\ \A p \in Procs : WF_vars(ProcStep(p)) /\ WF_vars(WatchStep(p))
  /\ WF_vars(WatchdogStep)
  /\ \A s \in Stoppers : WF_vars(StopStep(s))

FairSpec == Spec /\ Fairness

-----------------------------------------------------------------------------
(* Properties. *)

TypeOK ==
  /\ entries \in [Keys -> Procs \cup {None}]
  /\ spawning \in [Keys -> Calls \cup {None}]
  /\ stoppingAll \in BOOLEAN
  /\ proc \in [Procs -> [st : ProcStates, key : Keys \cup {Default},
                         ready : BOOLEAN, stopped : BOOLEAN]]
  /\ watcher \in [Procs -> {"none", "wait", "backoff", "done"}]
  /\ call \in [Calls -> [pc : {"idle", "lookup", "parked", "evict", "start", "insert", "wait"},
                         key : Keys \cup {Default}, proc : Procs \cup {None},
                         waited : BOOLEAN]]
  /\ stopper \in [Stoppers -> [pc : {"idle", "wait", "done"}, victims : SUBSET Procs]]
  /\ watchdog \in [pc : {"sleep", "probe", "gone"}, miss : [Keys -> 0..1],
                   snap : [Keys -> Procs \cup {None}]]
  /\ faults \in 0..MaxFaults /\ startFailed \in BOOLEAN

\* Somebody can still stop it: the registry has it, or the call that started it
\* is about to put it there.
Managed(p) ==
  \/ entries[proc[p].key] = p
  \/ \E c \in Calls : call[c].proc = p /\ call[c].pc = "insert"

\* No process is left behind without a way to stop it, and no egress ever has two
\* that are not on their way out: what the single flight in Ensure and the check
\* in the exit watcher are for.
NoOrphan ==
  /\ \A p \in Procs : proc[p].st \in Alive => proc[p].stopped \/ Managed(p)
  /\ \A p, q \in Procs :
       /\ proc[p].st \in Alive /\ ~proc[p].stopped
       /\ proc[q].st \in Alive /\ ~proc[q].stopped
       /\ proc[p].key = proc[q].key
       => p = q

\* An entry that Ensure hands out is watched: if its process dies, or is dead
\* already, the exit watcher has yet to drop it.  Otherwise every later request
\* would get the dead entry.
DeadIsNoticed ==
  \A k \in Keys :
    HasReady(k) => watcher[entries[k]] = "wait"

Serving(k) == entries[k] # None /\ proc[entries[k]].st = "up"

\* The entry of k answers no dial, or a process of k died unasked.
Lost(k) ==
  \/ HasReady(k) /\ proc[entries[k]].st = "hung"
  \/ \E p \in Procs : /\ proc[p].key = k /\ proc[p].st = "dead" /\ ~proc[p].stopped
                      /\ watcher[p] \in {"wait", "backoff"}

\* A language server that crashes or hangs is replaced without waiting for a
\* request, unless the pool is stopped or starting one fails outright (the exit
\* watcher's respawn, the watchdog).
Replaced ==
  \A k \in Keys :
    Lost(k) ~> Serving(k) \/ stoppingAll \/ watchdog.pc = "gone" \/ startFailed

\* Every call of Ensure comes back: the winner wakes all who wait for it.
EnsureReturns == \A c \in Callers : call[c].pc # "idle" ~> call[c].pc = "idle"

-----------------------------------------------------------------------------
(* What the comments promise and the code does not keep.                   *)

\* StartWatchdog: every interval, every ready entry is probed.  A restart from
\* the dashboard that meets a tick ends the loop for good.
WatchdogRuns == watchdog.pc = "gone" => stoppingAll
=============================================================================
