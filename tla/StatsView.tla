----------------------------- MODULE StatsView -----------------------------
(***************************************************************************)
(* views/Stats.vue: the counters joined with the list of accounts, and the *)
(* bars of the last hours.  One load asks for both at once, waits for both *)
(* and goes on with no accounts when only their call fails.                *)
(***************************************************************************)
EXTENDS View, SequencesExt

CONSTANTS
  Ids,      \* account ids
  Ranges,   \* the ranges offered: 6, 24 and 72 in the code
  MaxHour   \* bound: hours that pass

Min2(a, b) == IF a <= b THEN a ELSE b

\* stats.go keeps a bucket for each hour with traffic, oldest first.
Stats(s) == [buckets |-> s.buckets, counted |-> s.counted]
Zero == [buckets |-> <<>>, counted |-> {}]

TypeOK ==
  /\ CallsOK
  /\ srv.hour \in 0 .. MaxHour /\ srv.known \subseteq Ids /\ srv.counted \subseteq Ids
  /\ \A i \in DOMAIN srv.buckets : srv.buckets[i] \in 0 .. srv.hour
  /\ ui.mounted => ui.range \in Ranges /\ ui.busy \subseteq {"loading"} /\ ui.accounts \subseteq Ids

(* onMounted *)
Init ==
  /\ srv \in {[hour |-> 0, known |-> k, counted |-> {}, buckets |-> <<>>] : k \in SUBSET Ids}
  /\ ui \in {[mounted |-> TRUE, ticking |-> TRUE, hidden |-> FALSE, busy |-> {"loading"},
             data |-> Nothing, accounts |-> {}, range |-> r] : r \in Ranges}
  /\ calls = Sending({}, "load", NoArg)

-----------------------------------------------------------------------------
(* What the view shows.                                                     *)

Data == IF ui.data = Nothing THEN Zero ELSE ui.data

\* buckets.slice(-range): the last buckets, which are the last hours only
\* when every hour had traffic.
Buckets == LET all == Data.buckets IN SubSeq(all, Len(all) - Min2(ui.range, Len(all)) + 1, Len(all))

-----------------------------------------------------------------------------
(* The operator.                                                            *)

Asks(op) == Room(1) /\ calls' = Sending(calls, op, NoArg) /\ UNCHANGED <<srv, ui>>
Refresh == ui.mounted /\ "loading" \notin ui.busy /\ Asks("load")
OnReset == ui.mounted /\ Asks("reset")
Poll == ui.ticking /\ Asks("load")
SetRange(r) == ui.mounted /\ r # ui.range /\ ui' = [ui EXCEPT !.range = r] /\ UNCHANGED <<srv, calls>>
LeaveTicking == ui.mounted /\ ui' = [Left EXCEPT !.ticking = TRUE] /\ UNCHANGED <<srv, calls>>
Leave == ui.mounted /\ ui' = Left /\ UNCHANGED <<srv, calls>>

-----------------------------------------------------------------------------
(* The server.                                                              *)

Hour == srv.hour < MaxHour /\ srv' = [srv EXCEPT !.hour = @ + 1] /\ UNCHANGED <<ui, calls>>

Request(i) ==
  /\ i \in srv.known
  /\ srv' = [srv EXCEPT !.counted = @ \union {i},
               !.buckets = IF Contains(@, srv.hour) THEN @ ELSE Append(@, srv.hour)]
  /\ srv' # srv /\ UNCHANGED <<ui, calls>>

AddOrDelete(i) ==
  /\ srv' = [srv EXCEPT !.known = IF i \in @ THEN @ \ {i} ELSE @ \union {i}]
  /\ UNCHANGED <<ui, calls>>

\* The two halves of a load; the accounts' half may fail by itself.
Half(c, part, a) ==
  LET got == IF c.answer = Nothing THEN [stats |-> Nothing, accounts |-> Nothing] ELSE c.answer
      now == [got EXCEPT ![part] = a]
  IN /\ got[part] = Nothing
     /\ calls' = (calls \ {c}) \union
          {[c EXCEPT !.answer = now,
                     !.state = IF Nothing \in {now.stats, now.accounts} THEN "sent" ELSE "answered"]}

ServeHalf(c) ==
  /\ c.op = "load" /\ Unserved(c)
  /\ Half(c, "stats", Stats(srv)) \/ Half(c, "accounts", srv.known)
  /\ UNCHANGED <<srv, ui>>

AccountsFail(c) ==
  c.op = "load" /\ Unserved(c) /\ Half(c, "accounts", {}) /\ UNCHANGED <<srv, ui>>

ServeReset(c) ==
  /\ c.op = "reset" /\ Unserved(c)
  /\ srv' = [srv EXCEPT !.counted = {}, !.buckets = <<>>]
  /\ calls' = Replied(c, Nothing) /\ UNCHANGED ui

-----------------------------------------------------------------------------
(* The answers reach the view.                                              *)

Loaded(c) ==
  /\ c.op = "load" /\ Heard(c)
  /\ Shows([Stops(ui, "loading") EXCEPT !.data = c.answer.stats, !.accounts = c.answer.accounts])
  /\ calls' = calls \ {c} /\ UNCHANGED srv

ResetDone(c) ==
  /\ c.op = "reset" /\ Heard(c)
  /\ calls' = Sending(calls \ {c}, "load", NoArg) /\ UNCHANGED <<srv, ui>>

\* The statistics' half fails, and the load with it; or the reset.
Fails(c) ==
  /\ c.state # "given up"
  /\ Shows(IF c.op = "load" THEN Stops(ui, "loading") ELSE ui)
  /\ calls' = GivenUp(c) /\ UNCHANGED srv

-----------------------------------------------------------------------------
Answered(c) == Loaded(c) \/ ResetDone(c)
Step(i) == \E c \in calls : c.id = i /\ (ServeHalf(c) \/ ServeReset(c) \/ Answered(c))

Operator == Refresh \/ OnReset \/ Leave \/ \E r \in Ranges : SetRange(r)
Elsewhere == Hour \/ \E i \in Ids : Request(i) \/ AddOrDelete(i)
Faults == \E c \in calls : Fails(c) \/ AccountsFail(c) \/ Vanish(c)

Next == Operator \/ Poll \/ Elsewhere \/ Faults \/ \E i \in Slots : Step(i)
Fairness == WF_vars(Poll) /\ \A i \in Slots : WF_vars(Step(i))
Spec == Init /\ [][Next]_vars /\ Fairness

-----------------------------------------------------------------------------
\* The counters and the accounts they are joined with are the server's.
Fresh == ui.mounted => ui.data = Stats(srv) /\ ui.accounts = srv.known

(* An hour that is cut has as many newer ones on the screen as the range     *)
(* allows (buckets).                                                        *)
NewestShown ==
  ui.mounted => \A h \in {Data.buckets[i] : i \in DOMAIN Data.buckets} :
    h \in {Buckets[i] : i \in DOMAIN Buckets}
    \/ Cardinality({i \in DOMAIN Data.buckets : Data.buckets[i] > h}) >= ui.range
=============================================================================
