------------------------------ MODULE Formats ------------------------------
(***************************************************************************)
(* How Overview.vue, Stats.vue and Bans.vue show sizes, counts, costs and  *)
(* times: each display rounds or cuts the value in a band of its own.  A   *)
(* display is what it reads back as and the unit of its last digit, both   *)
(* in the unit of the value; dashes and words for absent values are left   *)
(* out.                                                                    *)
(***************************************************************************)
EXTENDS View

Kinds == {"bytes", "tokens", "usd", "ms", "uptime", "countdown", "duration"}

Cut(v, unit) == [reads |-> (v \div unit) * unit, unit |-> unit]
Rounded(v, unit) ==
  [reads |-> (v \div unit + (IF 2 * (v % unit) >= unit THEN 1 ELSE 0)) * unit, unit |-> unit]

\* In hundredths of a byte: two decimals, one or none, of the largest power
\* of 1024 the value reaches.
FmtBytes(v) ==
  LET p == CHOOSE q \in {1, 1024, 1024 * 1024} :
             (q = 1 \/ v >= 100 * q) /\ \A r \in {1024, 1024 * 1024} : v >= 100 * r => r <= q
  IN Rounded(v, IF v < 1000 * p THEN p ELSE IF v < 10000 * p THEN 10 * p ELSE 100 * p)

FmtTokens(v) == Rounded(v, IF v >= 1000000 THEN 10000 ELSE IF v >= 1000 THEN 100 ELSE 1)

\* In hundredths of a cent; less than a cent reads as less than a cent.
FmtUSD(v) ==
  IF v < 100 THEN Cut(v, 100)
  ELSE Rounded(v, IF v < 10000 THEN 1 ELSE IF v < 10000000 THEN 100 ELSE 100000)

FmtMs(v) == Rounded(v, IF v >= 10000 THEN 100 ELSE IF v >= 1000 THEN 10 ELSE 1)

\* In seconds.
FormatUptime(v) == Cut(v, IF v >= 86400 THEN 3600 ELSE 60)

\* In milliseconds.  Minutes are cut and the seconds left are rounded, to 60
\* at the end of a minute.
Countdown(v) == Cut(v, 1000)
FmtDurationRoundingBoth(v) ==
  IF v >= 3600000 THEN Cut(v, 60000)
  ELSE [reads |-> Rounded(v, 60000).reads + Rounded(v % 60000, 1000).reads, unit |-> 1000]
FmtDuration(v) ==
  IF v >= 3600000 THEN Cut(v, 60000)
  ELSE [reads |-> Cut(v, 60000).reads + Rounded(v % 60000, 1000).reads, unit |-> 1000]

Display(kind, v) ==
  CASE kind = "bytes" -> FmtBytes(v) [] kind = "tokens" -> FmtTokens(v) [] kind = "usd" -> FmtUSD(v)
    [] kind = "ms" -> FmtMs(v) [] kind = "uptime" -> FormatUptime(v)
    [] kind = "countdown" -> Countdown(v) [] kind = "duration" -> FmtDuration(v)

-----------------------------------------------------------------------------
(* Values around the edges of the bands and of the roundings, growing.      *)

Edges ==
  [bytes |-> {102400, 1024000, 10240000, 102400 * 1024},
   tokens |-> {1000, 1049, 999949, 1000000, 1005000},
   usd |-> {100, 9999, 10000, 10049, 9999949, 10000000, 10050000},
   ms |-> {999, 1000, 1005, 9994, 10000, 10050},
   uptime |-> {60, 3599, 3600, 86399, 86400, 90000},
   countdown |-> {1000, 59999, 60000},
   duration |-> {1499, 59499, 60000, 119499, 120000, 3599499, 3600000, 3659999}]

Bound == 3
Values(kind) == UNION {e - Bound .. e + Bound : e \in Edges[kind]}

TypeOK == CallsOK /\ srv.kind \in Kinds /\ srv.value \in Values(srv.kind)

Init ==
  /\ srv \in {[kind |-> k, value |-> e - Bound] : k \in Kinds, e \in UNION {Edges[j] : j \in Kinds}}
  /\ srv.value + Bound \in Edges[srv.kind]
  /\ ui = [mounted |-> TRUE, ticking |-> FALSE, busy |-> {}] /\ calls = {}

Grow ==
  /\ srv.value + 1 \in Values(srv.kind)
  /\ srv' = [srv EXCEPT !.value = @ + 1] /\ UNCHANGED <<ui, calls>>

Next == Grow
Spec == Init /\ [][Next]_vars

-----------------------------------------------------------------------------
(* What is shown is less than one unit of its last digit away from the      *)
(* value, and a value that grows never reads smaller, in particular where a *)
(* display goes over to a coarser band (fmtBytes, fmtTokens, fmtUSD, fmtMs, *)
(* formatUptime, countdown, fmtDuration).                                   *)
ReadsTrue ==
  LET shown == Display(srv.kind, srv.value)
  IN /\ shown.reads - srv.value < shown.unit /\ srv.value - shown.reads < shown.unit
     /\ shown.reads <= Display(srv.kind, srv.value + 1).reads
=============================================================================
