------------------------------ MODULE SaveWriter ------------------------------
(***************************************************************************)
(* The coalescing single writer behind the three settings stores           *)
(* (modelaccess, proxycfg and runtimecfg share it line for line).  A       *)
(* setter holds the store's mu from the assignment to the wake-up, so one  *)
(* control point, setter, stands for all setters; it interleaves with the  *)
(* writer goroutine, which takes only saveMu.  Values are numbered by the  *)
(* update that wrote them.                                                 *)
(***************************************************************************)
EXTENDS Integers

CONSTANTS
  WriteMayFail,  \* whether atomicfile.Write can fail
  CrashAllowed,  \* whether the process may die
  MaxVersion     \* bound: number of updates

ASSUME WriterAssumption ==
  WriteMayFail \in BOOLEAN /\ CrashAllowed \in BOOLEAN /\ MaxVersion \in Nat

None == -1

VARIABLES
  mem,      \* cfg / state: the value in memory
  setter,   \* where the setter holding mu is: "idle", "publish" or "wake"
  pending,  \* pendingData
  wake,     \* a token is in the pendingWake channel (capacity 1)
  writer,   \* the goroutine: "wait" for a wake-up, "grab" or "write"
  data,     \* the writer's local snapshot
  disk,     \* the value in the file
  failed    \* history: the last write failed, and its error was dropped

vars == <<mem, setter, pending, wake, writer, data, disk, failed>>

Init ==
  /\ mem = 0 /\ disk = 0
  /\ setter = "idle" /\ writer = "wait"
  /\ pending = None /\ data = None
  /\ wake = FALSE /\ failed = FALSE

-----------------------------------------------------------------------------
(* A setter: assign under mu, then save(). *)

Mutate ==
  /\ setter = "idle" /\ mem < MaxVersion
  /\ mem' = mem + 1
  /\ setter' = "publish"
  /\ UNCHANGED <<pending, wake, writer, data, disk, failed>>

\* The first save also starts the writer, which is equivalent to a writer that
\* has been waiting all along.
Publish ==
  /\ setter = "publish"
  /\ pending' = mem
  /\ setter' = "wake"
  /\ UNCHANGED <<mem, wake, writer, data, disk, failed>>

\* Mutant: a busy writer is not woken.
WakeIdleWriter ==
  /\ setter = "wake"
  /\ wake' = (wake \/ writer = "wait")
  /\ setter' = "idle"
  /\ UNCHANGED <<mem, pending, writer, data, disk, failed>>

\* The non-blocking send: when a token is already there the default is taken.
Wake ==
  /\ setter = "wake"
  /\ wake' = TRUE
  /\ setter' = "idle"
  /\ UNCHANGED <<mem, pending, writer, data, disk, failed>>

-----------------------------------------------------------------------------
(* runSaveWriter *)

Receive ==
  /\ writer = "wait" /\ wake
  /\ wake' = FALSE
  /\ writer' = "grab"
  /\ UNCHANGED <<mem, setter, pending, data, disk, failed>>

Grab ==
  /\ writer = "grab"
  /\ data' = pending
  /\ pending' = None
  /\ writer' = IF pending = None THEN "wait" ELSE "write"
  /\ UNCHANGED <<mem, setter, wake, disk, failed>>

\* Mutant: the file is rewritten in place, and a failure leaves it empty.
WriteInPlace ==
  /\ writer = "write"
  /\ writer' = "wait"
  /\ data' = None
  /\ \/ disk' = data /\ failed' = FALSE
     \/ WriteMayFail /\ failed' = TRUE /\ disk' = 0
  /\ UNCHANGED <<mem, setter, pending, wake>>

Write ==
  /\ writer = "write"
  /\ writer' = "wait"
  /\ data' = None
  /\ \/ disk' = data /\ failed' = FALSE
     \/ WriteMayFail /\ failed' = TRUE /\ UNCHANGED disk
  /\ UNCHANGED <<mem, setter, pending, wake>>

-----------------------------------------------------------------------------
\* The process dies and Init() of the store loads the file.
Crash ==
  /\ CrashAllowed
  /\ mem' = disk
  /\ setter' = "idle" /\ writer' = "wait"
  /\ pending' = None /\ data' = None
  /\ wake' = FALSE /\ failed' = FALSE
  /\ UNCHANGED disk

Next == Mutate \/ Publish \/ Wake \/ Receive \/ Grab \/ Write \/ Crash

Spec == Init /\ [][Next]_vars

\* Goroutines that can run do: the handler that took mu goes on, the writer
\* loop is never blocked but on its channel and the disk.
Fairness == WF_vars(Publish \/ Wake) /\ WF_vars(Receive \/ Grab \/ Write)

FairSpec == Spec /\ Fairness

-----------------------------------------------------------------------------
(* Properties. *)

TypeOK ==
  /\ mem \in Nat /\ disk \in Nat
  /\ setter \in {"idle", "publish", "wake"}
  /\ writer \in {"wait", "grab", "write"}
  /\ pending \in Nat \cup {None} /\ data \in Nat \cup {None}
  /\ wake \in BOOLEAN /\ failed \in BOOLEAN

\* When setters and writer have come to rest the file holds the last update,
\* unless writing it failed (save and runSaveWriter): dropping a wake-up because
\* one is already queued never strands a snapshot.
NothingStranded ==
  setter = "idle" /\ writer = "wait" /\ ~wake => pending = None /\ (disk = mem \/ failed)

\* The file never goes back to an older value, whatever the interleaving.
DiskForward == [][disk' >= disk]_vars

\* Every update reaches the file or is superseded there by a later one, unless a
\* write fails or the process dies first: no update waits for the next one to be
\* flushed with it (save's wake-up, runSaveWriter).
Flushed == \A v \in 1..MaxVersion : mem = v ~> disk >= v \/ failed \/ mem < v

Register == INSTANCE DurableRegister

\* The writer implements a register whose file follows its memory: one step of
\* the writer at most moves the file, and only to a value memory has had.
RegisterSafety == Register!Spec

-----------------------------------------------------------------------------
(* The inductive invariant. *)

\* A queued snapshot always has someone who will fetch it.
WriterComes == pending # None => wake \/ writer = "grab" \/ setter = "wake"

\* The snapshots on their way to the file, oldest first.
InOrder ==
  /\ disk <= mem
  /\ writer = "write" => data # None /\ disk <= data /\ data <= mem
  /\ pending # None => disk <= pending /\ pending <= mem
  /\ pending # None /\ writer = "write" => data <= pending
  /\ writer # "write" => data = None

\* Where the newest value is when the setter is through with it.
Newest ==
  setter # "publish" =>
    \/ pending = mem
    \/ pending = None /\ writer = "write" /\ data = mem
    \/ pending = None /\ writer # "write" /\ (disk = mem \/ failed)

IInv == TypeOK /\ WriterComes /\ InOrder /\ Newest
=============================================================================
