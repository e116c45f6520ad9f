------------------------------ MODULE LogsView ------------------------------
(***************************************************************************)
(* views/Logs.vue and api/logs.ts over the log ring (logx) and the stream  *)
(* handler of the dashboard API: the list is asked for once, then the      *)
(* stream is opened; every connection replays the latest entries before it *)
(* subscribes, a subscriber that is slow loses entries, and the browser    *)
(* connects again by itself.  Entries are numbered as they are logged.     *)
(***************************************************************************)
EXTENDS View, SequencesExt

CONSTANTS
  MaxEntries,  \* bound: entries logged in one behaviour
  RingCap,     \* ringCap: 1000 in the code
  MaxBuffer,   \* maxBuffer: 1000 in the code
  Replay,      \* entries replayed: 50 in the code
  Backlog      \* a subscriber's channel: 64 in the code

Latest(s, n) == SubSeq(s, IF Len(s) > n THEN Len(s) - n + 1 ELSE 1, Len(s))
Entries == 1 .. MaxEntries
Closed == [at |-> "closed"]

(* The handler of the connection: what it has still to write.               *)
Handlers == {Closed} \union [at : {"replayed", "subscribed"}, chan : Seq(Entries)]

TypeOK ==
  /\ CallsOK
  /\ srv.logged \in 0 .. MaxEntries
  /\ srv.handler \in Handlers
  /\ srv.handler # Closed => Len(srv.handler.chan) <= Backlog
  /\ srv.wire \in Seq(Entries)
  /\ ui.stream \in {"none", "connecting", "open", "closed"} /\ ui.seen \in 0 .. MaxEntries
  /\ ui.entries \in Seq(Entries) /\ Len(ui.entries) <= MaxBuffer

\* logx.Recent: the ring holds the latest entries.
Recent(n) == Latest([e \in 1 .. srv.logged |-> e], IF n < RingCap THEN n ELSE RingCap)

(* bootstrap.  seen is the latest entry of this connection, for a property. *)
Init ==
  /\ srv \in [logged : 0 .. 1, handler : {Closed}, wire : {<<>>}]
  /\ ui = [mounted |-> TRUE, ticking |-> FALSE, busy |-> {}, entries |-> <<>>, stream |-> "none", seen |-> 0]
  /\ calls = Sending({}, "load", NoArg)

-----------------------------------------------------------------------------
Serve(c) ==
  /\ Unserved(c) /\ calls' = Replied(c, Recent(RingCap)) /\ UNCHANGED <<srv, ui>>

\* The stream is opened whatever became of the list, and even by a view that
\* was left meanwhile, whose stream nobody closes.
Opens(entries) == ui' = [ui EXCEPT !.entries = entries, !.stream = "connecting"]
ListAnswered(c) == Heard(c) /\ Opens(c.answer) /\ calls' = calls \ {c} /\ UNCHANGED srv
Fails(c) == Opens(ui.entries) /\ calls' = calls \ {c} /\ UNCHANGED srv

-----------------------------------------------------------------------------
(* The server.                                                              *)

\* logsStream up to its loop; anything but a 200 ends an EventSource.
Connect ==
  /\ ui.stream = "connecting"
  /\ srv' = [srv EXCEPT !.handler = [at |-> "replayed", chan |-> <<>>], !.wire = Recent(Replay)]
  /\ ui' = [ui EXCEPT !.stream = "open", !.seen = 0] /\ UNCHANGED calls
Refuse == ui.stream = "connecting" /\ ui' = [ui EXCEPT !.stream = "closed"] /\ UNCHANGED <<srv, calls>>

Subscribe ==
  /\ srv.handler.at = "replayed"
  /\ srv' = [srv EXCEPT !.handler.at = "subscribed"] /\ UNCHANGED <<ui, calls>>

\* logx.emit: a full channel loses the entry.
Offer(h, e) ==
  IF h.at = "subscribed" /\ Len(h.chan) < Backlog THEN [h EXCEPT !.chan = Append(@, e)] ELSE h

Emit ==
  /\ srv.logged < MaxEntries
  /\ srv' = [srv EXCEPT !.logged = @ + 1, !.handler = Offer(@, srv.logged + 1)]
  /\ UNCHANGED <<ui, calls>>

Forward ==
  /\ srv.handler.at = "subscribed" /\ srv.handler.chan # <<>>
  /\ srv' = [srv EXCEPT !.handler.chan = Tail(@), !.wire = Append(@, Head(srv.handler.chan))]
  /\ UNCHANGED <<ui, calls>>

\* The connection breaks; the browser waits 3 s and connects again.
Break ==
  /\ ui.stream = "open"
  /\ srv' = [srv EXCEPT !.handler = Closed, !.wire = <<>>]
  /\ ui' = [ui EXCEPT !.stream = "connecting"] /\ UNCHANGED calls

-----------------------------------------------------------------------------
(* The view.                                                                *)

Push(entries, e) == Latest(Append(entries, e), MaxBuffer)

Arrive ==
  /\ ui.stream = "open" /\ srv.wire # <<>>
  /\ ui' = [ui EXCEPT !.entries = Push(@, Head(srv.wire)), !.seen = Head(srv.wire)]
  /\ srv' = [srv EXCEPT !.wire = Tail(@)] /\ UNCHANGED calls

ClearView == ui.mounted /\ ui.entries # <<>> /\ ui' = [ui EXCEPT !.entries = <<>>] /\ UNCHANGED <<srv, calls>>

\* onUnmounted closes the stream if it is there.
Leave ==
  /\ ui.mounted
  /\ ui' = [ui EXCEPT !.mounted = FALSE, !.stream = IF @ = "none" THEN @ ELSE "closed"]
  /\ srv' = [srv EXCEPT !.handler = Closed, !.wire = <<>>] /\ UNCHANGED calls

-----------------------------------------------------------------------------
Step(i) == \E c \in calls : c.id = i /\ (Serve(c) \/ ListAnswered(c))
Stream == Subscribe \/ Forward \/ Arrive
Operator == ClearView \/ Leave
Faults == Break \/ Refuse \/ \E c \in calls : Fails(c)

Next == Operator \/ Faults \/ Connect \/ Stream \/ Emit \/ \E i \in Slots : Step(i)
Fairness == WF_vars(Connect) /\ WF_vars(Stream) /\ \A i \in Slots : WF_vars(Step(i))
Spec == Init /\ [][Next]_vars /\ Fairness

-----------------------------------------------------------------------------
(* A connection never brings an entry twice or out of order: what is        *)
(* replayed, what waits in the channel and what is under way are in the     *)
(* order they were logged, after everything the connection brought before.  *)
InOrder ==
  LET ahead == srv.wire \o (IF srv.handler = Closed THEN <<>> ELSE srv.handler.chan)
  IN ui.stream = "open" =>
       /\ \A i, j \in DOMAIN ahead : i < j => ahead[i] < ahead[j]
       /\ \A i \in DOMAIN ahead : ui.seen < ahead[i]
=============================================================================
