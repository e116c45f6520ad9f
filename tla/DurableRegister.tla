--------------------------- MODULE DurableRegister ---------------------------
(***************************************************************************)
(* What a settings store promises: a value in memory, a file that follows  *)
(* it.  Values are numbered by the update that wrote them.  The file only  *)
(* moves forward, and only to values memory has had.                       *)
(***************************************************************************)
EXTENDS Naturals

VARIABLES mem, disk

vars == <<mem, disk>>

Init == mem = 0 /\ disk = 0

Set == mem' = mem + 1 /\ UNCHANGED disk

Flush == disk' \in (disk + 1)..mem /\ UNCHANGED mem

\* The process dies: what the file does not hold is gone.
Crash == mem' = disk /\ UNCHANGED disk

Next == Set \/ Flush \/ Crash

Spec == Init /\ [][Next]_vars
=============================================================================
