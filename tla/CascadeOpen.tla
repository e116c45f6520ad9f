---------------------------- MODULE CascadeOpen ----------------------------
(***************************************************************************)
(* How a turn gets to a language server (src/internal/client/client.go:    *)
(* WarmupCascade, CascadeChat up to the poll loop; internal/langserver:    *)
(* Warmup, ResetWarmup).  The calls share the entry of their server: its   *)
(* session id and the gate before the panel's set-up.  The server may      *)
(* forget the panel of a session at any time, and answers may get lost.    *)
(* An id that nothing refers to any more stands for one never drawn.       *)
(***************************************************************************)
EXTENDS Integers, FiniteSets

CONSTANTS
  Callers,   \* concurrent calls of CascadeChat on one entry
  Sessions,  \* session ids
  Cascades,  \* cascade ids
  None,      \* no id, no call
  MaxKept    \* bound: cascades the conversation pool holds

OpenAssumption ==
  /\ Sessions # {} /\ None \notin Callers \cup Sessions \cup Cascades
  /\ None \notin {"all", "last"}
  /\ MaxKept \in Nat

VARIABLES
  entry,   \* the Entry: its session, warmDone, and who holds warmMu
  call,    \* the locals of each call
  panels,  \* server: the sessions with a panel state
  spoken,  \* server: the cascades that were given a turn
  kept     \* conversation pool: cascade and session of answered turns

vars == <<entry, call, panels, spoken, kept>>

\* reuse and own: the entry to resume; phase: which recoveries it went through;
\* given (history): how many cascades took its message.
Arrived(pc, reuse, own) ==
  [pc |-> pc, reuse |-> reuse, own |-> own, session |-> None, cascade |-> None,
   text |-> None, phase |-> "first", given |-> 0]
NoCall == Arrived("idle", None, None)

Init ==
  /\ entry = [session |-> CHOOSE s \in Sessions : TRUE, warm |-> FALSE, holder |-> None]
  /\ call = [c \in Callers |-> NoCall]
  /\ panels = {}
  /\ spoken = {}
  /\ kept = {}

UsedSessions ==
  {entry.session} \cup {call[c].own : c \in Callers} \cup {call[c].session : c \in Callers}
    \cup {k.session : k \in kept}
UsedCascades ==
  {call[c].reuse : c \in Callers} \cup {call[c].cascade : c \in Callers}
    \cup {k.cascade : k \in kept}

\* What the server holds for an id that nothing refers to any more cannot be asked for.
Unreferenced(taught) ==
  /\ panels' = panels \cap UsedSessions'
  /\ spoken' = taught \cap UsedCascades'

Goes(c, to) == [call EXCEPT ![c].pc = to]
Returns(c) == [call EXCEPT ![c] = NoCall]

-----------------------------------------------------------------------------
\* A request comes, fresh or with what the conversation pool had for it.
Start(c) ==
  /\ call[c].pc = "idle"
  /\ \/ call' = Goes(c, "warm") /\ UNCHANGED kept
     \/ \E k \in kept :
          /\ call' = [call EXCEPT ![c] = Arrived("warm", k.cascade, k.session)]
          /\ kept' = kept \ {k}
  /\ UNCHANGED <<entry, panels, spoken>>

GateFree == entry.holder = None

\* Entry.Warmup: nothing to do, or the first one in does it.
WarmEnter(c) ==
  /\ call[c].pc = "warm" /\ GateFree
  /\ IF entry.warm
     THEN call' = Goes(c, "session") /\ UNCHANGED entry
     ELSE call' = Goes(c, "init") /\ entry' = [entry EXCEPT !.holder = c]
  /\ UNCHANGED <<panels, spoken, kept>>

\* The three calls of WarmupCascade.  Their errors are logged and forgotten.
WarmInit(c) ==
  /\ call[c].pc = "init"
  /\ panels' \in {panels, panels \cup {entry.session}}
  /\ entry' = [entry EXCEPT !.warm = TRUE, !.holder = None]
  /\ call' = Goes(c, "session")
  /\ UNCHANGED <<spoken, kept>>

\* Outside the gate: the session of the entry as it is now, or the resumed one's.
TakeSession(c) ==
  /\ call[c].pc = "session"
  /\ LET q == call[c]
         s == IF q.own # None THEN q.own ELSE entry.session
     IN  call' = [call EXCEPT ![c].session = s, ![c].pc = "open"]
  /\ UNCHANGED <<entry, panels, spoken, kept>>

\* assemblePayload, once: the whole conversation, or the last message for a resumed one.
Payload(q) ==
  IF q.text # None THEN q.text ELSE IF q.reuse = None THEN "all" ELSE "last"

Ready(c, cascade) ==
  [call EXCEPT ![c].pc = "send", ![c].cascade = cascade, ![c].text = Payload(call[c])]

\* openCascade with a cascade to resume asks nobody.
Resume(c) ==
  /\ call[c].pc = "open" /\ call[c].reuse # None
  /\ call' = Ready(c, call[c].reuse)
  /\ UNCHANGED <<entry, panels, spoken, kept>>

\* StartCascade; its answer may get lost.
Open(c) ==
  /\ call[c].pc = "open" /\ call[c].reuse = None
  /\ call[c].session \in panels
  /\ \E k \in Cascades \ UsedCascades : call' \in {Ready(c, k), Returns(c)}
  /\ UNCHANGED <<entry, kept>>
  /\ Unreferenced(spoken)

\* Back to the gate; what comes after takes the session of the entry.
Rewarm(q, phase, reuse) ==
  [q EXCEPT !.pc = "reset", !.phase = phase, !.reuse = reuse, !.own = None, !.session = None]

\* The panel is gone: the first time, once more from the gate, without the resumed one.
OpenMissing(c) ==
  /\ call[c].pc = "open" /\ call[c].reuse = None
  /\ call[c].session \notin panels
  /\ call' = IF call[c].phase = "first"
             THEN [call EXCEPT ![c] = Rewarm(@, "reopened", None)]
             ELSE Returns(c)
  /\ UNCHANGED <<entry, kept>>
  /\ Unreferenced(spoken)

Unused == Sessions \ UsedSessions

\* ResetWarmup.  (There is always a session id left.)
Reset(c) ==
  /\ call[c].pc = "reset" /\ GateFree
  /\ Unused # {}
  /\ entry' = [entry EXCEPT !.warm = FALSE, !.session = CHOOSE s \in Unused : TRUE]
  /\ call' = Goes(c, "warm")
  /\ UNCHANGED kept
  /\ Unreferenced(spoken)

\* Mutant: a lost answer is recovered from like a lost panel.
AnyFailure(reply) == reply # "ok"

IsPanelMissing(reply) == reply = "missing"

\* Mutant: the recovery opens a new cascade for the text that was meant for the old one.
ReuseDropped(q) == None

ReuseAfterSend(q) == q.reuse

\* SendUserCascadeMessage: the server takes the message or not, and answers or not.
Send(c) ==
  /\ call[c].pc = "send"
  /\ LET q == call[c]
         there == q.session \in panels
     IN  \E reply \in IF there THEN {"ok", "lost"} ELSE {"missing"} :
           /\ LET told == [call EXCEPT ![c].given = IF there THEN @ + 1 ELSE @] IN
              call' = IF reply = "ok" THEN [told EXCEPT ![c].pc = "poll"]
                      ELSE IF IsPanelMissing(reply) /\ q.phase # "resent"
                           THEN [told EXCEPT ![c] = Rewarm(@, "resent", ReuseAfterSend(q))]
                           ELSE Returns(c)
           /\ UNCHANGED <<entry, kept>>
           /\ Unreferenced(IF there THEN spoken \cup {q.cascade} ELSE spoken)

\* A message is refused for another reason, or never gets there.
SendRefused(c) ==
  /\ call[c].pc = "send"
  /\ call' = Returns(c)
  /\ UNCHANGED <<entry, kept>>
  /\ Unreferenced(spoken)

\* The poll loop is over: the conversation pool keeps what was answered.
Finish(c) ==
  /\ call[c].pc = "poll"
  /\ kept' \in {kept} \cup
       IF Cardinality(kept) < MaxKept
       THEN {kept \cup {[cascade |-> call[c].cascade, session |-> call[c].session]}} ELSE {}
  /\ call' = Returns(c)
  /\ UNCHANGED entry
  /\ Unreferenced(spoken)

\* The server forgets a panel.
Forget(s) ==
  /\ s \in panels
  /\ panels' = panels \ {s}
  /\ UNCHANGED <<entry, call, spoken, kept>>

Next ==
  \/ \E c \in Callers :
       \/ Start(c) \/ WarmEnter(c) \/ WarmInit(c) \/ TakeSession(c)
       \/ Resume(c) \/ Open(c) \/ OpenMissing(c) \/ Reset(c)
       \/ Send(c) \/ SendRefused(c) \/ Finish(c)
  \/ \E s \in Sessions : Forget(s)

Spec == Init /\ [][Next]_vars

-----------------------------------------------------------------------------
Calls ==
  [pc : {"idle", "warm", "init", "session", "open", "reset", "send", "poll"},
   reuse : Cascades \cup {None}, own : Sessions \cup {None},
   session : Sessions \cup {None}, cascade : Cascades \cup {None},
   text : {None, "all", "last"}, phase : {"first", "reopened", "resent"}, given : 0 .. 2]

\* One call at a time is inside the gate, and a call refers to ids it was given.
TypeOK ==
  /\ entry \in [session : Sessions, warm : BOOLEAN, holder : Callers \cup {None}]
  /\ call \in [Callers -> Calls]
  /\ \A c \in Callers : call[c].pc = "init" <=> entry.holder = c
  /\ panels \subseteq UsedSessions \cap Sessions
  /\ spoken \subseteq UsedCascades \cap Cascades
  /\ kept \subseteq [cascade : Cascades, session : Sessions]

\* A cascade that knows the conversation is given the last message, a new one all of it:
\* whichever recovery a call went through, it does not leave a model without the history
\* or with a second copy (assemblePayload once, openCascade twice).
PayloadFits ==
  [][\A c \in Callers :
       call'[c].given > call[c].given =>
         (call[c].text = "last" <=> call[c].cascade \in spoken)]_vars

\* A user's message is taken by one cascade at most: a send whose answer is lost is not
\* sent again to another (isPanelMissing).
DeliveredOnce == \A c \in Callers : call[c].given <= 1
=============================================================================
