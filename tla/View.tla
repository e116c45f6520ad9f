-------------------------------- MODULE View --------------------------------
(***************************************************************************)
(* What every view of the dashboard has in common: the server's state, the *)
(* view's reactive state, the calls in flight through http.*               *)
(* (api/request.ts), and the 30 s timeout.  Calls are served in any order, *)
(* answers arrive in any order; a call may be rejected before or after the *)
(* server took it, and the server may go on with a call its caller gave    *)
(* up.                                                                     *)
(***************************************************************************)
EXTENDS Naturals, FiniteSets, Sequences

CONSTANTS
  MaxCalls,  \* bound: calls in flight in one view
  Nothing    \* no answer, no value

ASSUME MaxCallsAssumption == MaxCalls \in Nat \ {0}

VARIABLES
  srv,   \* the server's state behind the view
  ui,    \* the view's refs; ui.busy is the set of its spinning flags
  calls  \* calls in flight

vars == <<srv, ui, calls>>

Slots == 1 .. MaxCalls
NoArg == <<>>
Reads == {"load", "load history", "rate", "config"}   \* change nothing on the server

Room(n) == Cardinality(calls) + n <= MaxCalls

\* cs with one more call, in a free slot.
Sending(cs, op, arg) ==
  LET free == Slots \ {c.id : c \in cs}
  IN cs \union {[id |-> CHOOSE i \in free : TRUE, op |-> op, arg |-> arg,
                 state |-> "sent", answer |-> Nothing]}

\* cs, with c answered by a; nobody hears it when the caller gave up.
Replied(c, a) ==
  (calls \ {c}) \union
    (IF c.state = "given up" THEN {}
     ELSE {[id |-> c.id, op |-> c.op, arg |-> c.arg, state |-> "answered", answer |-> a]})

Unserved(c) == c.state # "answered"
Heard(c) == c.state = "answered"

\* calls, once the caller of c is told that it failed.
GivenUp(c) ==
  (calls \ {c}) \union
    (IF c.state = "sent" /\ c.op \notin Reads THEN {[c EXCEPT !.state = "given up"]} ELSE {})

\* A call given up that never reaches the server.
Vanish(c) == c.state = "given up" /\ calls' = calls \ {c} /\ UNCHANGED <<srv, ui>>

\* A component's refs are nobody's once it is unmounted; what it awaits goes on.
Shows(u) == ui' = IF ui.mounted THEN u ELSE ui
Left == [mounted |-> FALSE, ticking |-> FALSE, hidden |-> FALSE]

Spins(u, flag) == [u EXCEPT !.busy = @ \union {flag}]
Stops(u, flag) == [u EXCEPT !.busy = @ \ {flag}]

\* The operator clicks with nothing in flight, as far as she can tell; used by
\* properties only.
Careful(u) == [u EXCEPT !.careful = @ /\ calls = {}]
Careless(u) == [u EXCEPT !.careful = FALSE]

CallsOK ==
  /\ Cardinality(calls) <= MaxCalls
  /\ \A c, d \in calls : c.id = d.id => c = d
  /\ \A c \in calls : c.state \in {"sent", "answered", "given up"}
=============================================================================
