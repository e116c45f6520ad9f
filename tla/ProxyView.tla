----------------------------- MODULE ProxyView -----------------------------
(***************************************************************************)
(* views/Proxy.vue over proxycfg: the global proxy's form, the form that   *)
(* binds a proxy to an account, the table of the bindings and the two      *)
(* proxy tests.  A specification is the set of its fields that are filled  *)
(* in, under the names each side gives them: what is sent, decoded,        *)
(* encoded and read is the fields whose names agree.                       *)
(***************************************************************************)
EXTENDS View

CONSTANT Accounts

(* ProxySpec of api/types.ts, decodeProxy, and langserver.Proxy, which has  *)
(* no JSON names and is encoded under those of its Go fields.               *)
Typed == {"type", "host", "port", "user", "pass"}
Decoded == {"type", "host", "port", "username", "password"}
GoName == [type |-> "Type", host |-> "Host", port |-> "Port",
           username |-> "Username", password |-> "Password"]

Decode(sent) == sent \intersect Decoded
Encode(spec) == {GoName[f] : f \in spec}
Read(fields) == fields \intersect Typed

(* proxycfg.Snapshot and ProxyConfig name the map of bindings differently.  *)
Snapshot == [global |-> Encode(srv.global), perAccount |-> {<<a, Encode(srv.bound[a])>> : a \in DOMAIN srv.bound}]
Config(answer) ==
  [global |-> Read(answer.global),
   accounts |-> IF "accounts" \in DOMAIN answer THEN answer.accounts ELSE {}]

Bare == {"type"}                  \* a form that is not filled in
Filled == {"type", "host", "port"}
Forms == {Bare, Filled, Typed}
Specs == {{}} \union {Decode(f) : f \in Forms \ {Bare}}   \* {}: no proxy

-----------------------------------------------------------------------------
(* What the view shows.                                                     *)

\* Accounts with no binding are offered, the bound ones listed.
UnboundAccounts == {a \in ui.accounts : \A b \in ui.cfg.accounts : b[1] # a}
AccountRows == {b[1] : b \in ui.cfg.accounts}

\* The table of the bindings is always empty, whatever the server has: see
\* BoundAreFiltered.
TypeOK ==
  /\ CallsOK /\ srv.global \in Specs /\ DOMAIN srv.bound \subseteq Accounts
  /\ ui.mounted => ui.form \in SUBSET Typed /\ ui.perAccount.id \in Accounts \union {Nothing}
                   /\ ui.busy \subseteq {"loading", "testing", "perAccountTesting"}
                   /\ AccountRows = {}

(* onMounted *)
Init ==
  /\ srv \in {[global |-> g, bound |-> [a \in B |-> Decode(Filled)]] : g \in Specs, B \in SUBSET Accounts}
  /\ ui = [mounted |-> TRUE, busy |-> {"loading"}, cfg |-> [global |-> {}, accounts |-> {}],
           accounts |-> {}, form |-> Bare, perAccount |-> [id |-> Nothing, spec |-> Bare]]
  /\ calls = Sending({}, "load", NoArg)

-----------------------------------------------------------------------------
(* The operator.  A pasted host:port is split before it is sent or tested.  *)
(* The clear buttons of the rows are no action, for there is no row.       *)

Clicks(op, arg) == ui.mounted /\ Room(1) /\ calls' = Sending(calls, op, arg) /\ UNCHANGED srv

Refresh ==
  ui.mounted /\ "loading" \notin ui.busy /\ Clicks("load", NoArg) /\ ui' = Spins(ui, "loading")

FillGlobal(f) == ui.mounted /\ ui.form = Bare /\ ui' = [ui EXCEPT !.form = f] /\ UNCHANGED <<srv, calls>>
FillAccount(a, f) ==
  /\ ui.mounted /\ ui.perAccount.id = Nothing /\ a \in UnboundAccounts
  /\ ui' = [ui EXCEPT !.perAccount = [id |-> a, spec |-> f]] /\ UNCHANGED <<srv, calls>>

\* SplitHostPort leaves the port out only when none was typed with the host.
Complete(spec) == {"host", "port"} \subseteq spec

OnSave == ui.mounted /\ Complete(ui.form) /\ Clicks("global", <<ui.form>>) /\ UNCHANGED ui
OnClearGlobal == Clicks("clear global", NoArg) /\ UNCHANGED ui
OnAddAccountProxy ==
  /\ ui.mounted /\ ui.perAccount.id # Nothing /\ Complete(ui.perAccount.spec)
  /\ Clicks("account", <<ui.perAccount.spec, ui.perAccount.id>>) /\ UNCHANGED ui

\* The tests' buttons are inert while they spin.
Test(flag, spec) ==
  /\ flag \notin ui.busy /\ Complete(spec)
  /\ Clicks(flag, NoArg) /\ ui' = Spins(ui, flag)
OnTest == ui.mounted /\ Test("testing", ui.form)
OnTestAccountProxy == ui.mounted /\ Test("perAccountTesting", ui.perAccount.spec)

Leave == ui.mounted /\ ui' = [mounted |-> FALSE] /\ UNCHANGED <<srv, calls>>

-----------------------------------------------------------------------------
(* dashapi.go over proxycfg.                                                *)

Bind(a, spec) == [b \in DOMAIN srv.bound \union {a} |-> IF b = a THEN spec ELSE srv.bound[b]]

Serve(c) ==
  /\ Unserved(c)
  /\ srv' = CASE c.op = "global" -> [srv EXCEPT !.global = Decode(c.arg[1])]
              [] c.op = "clear global" -> [srv EXCEPT !.global = {}]
              [] c.op = "account" -> [srv EXCEPT !.bound = Bind(c.arg[2], Decode(c.arg[1]))]
              [] OTHER -> srv
  /\ calls' = Replied(c, IF c.op \in {"load", "global"} THEN Snapshot' ELSE Nothing)
  /\ UNCHANGED ui

-----------------------------------------------------------------------------
(* The answers reach the view.                                              *)

Tests == {"testing", "perAccountTesting"}

\* load() puts the global proxy it reads into the form, over what was typed.
Loaded(c) ==
  /\ c.op = "load" /\ Heard(c)
  /\ Shows([Stops(ui, "loading") EXCEPT !.cfg = Config(c.answer), !.accounts = Accounts,
              !.form = Config(c.answer).global \union Bare])
  /\ calls' = calls \ {c} /\ UNCHANGED srv

Saved(c) ==
  /\ c.op = "global" /\ Heard(c)
  /\ Shows([ui EXCEPT !.cfg = Config(c.answer)])
  /\ calls' = calls \ {c} /\ UNCHANGED srv

\* The other operations reload; binding an account empties its form first.
Reloads(c) ==
  /\ c.op \in {"clear global", "account"} /\ Heard(c)
  /\ Shows([Spins(ui, "loading") EXCEPT
              !.perAccount = IF c.op = "account" THEN [id |-> Nothing, spec |-> Bare] ELSE @])
  /\ calls' = Sending(calls \ {c}, "load", NoArg) /\ UNCHANGED srv

Tested(c) ==
  c.op \in Tests /\ Heard(c) /\ Shows(Stops(ui, c.op)) /\ calls' = calls \ {c} /\ UNCHANGED srv

FailsSpinning(c) ==
  /\ c.state # "given up"
  /\ Shows(IF c.op = "load" THEN Stops(ui, "loading") ELSE ui)
  /\ calls' = GivenUp(c) /\ UNCHANGED srv
Fails(c) ==
  /\ c.state # "given up"
  /\ Shows(CASE c.op = "load" -> Stops(ui, "loading") [] c.op \in Tests -> Stops(ui, c.op) [] OTHER -> ui)
  /\ calls' = GivenUp(c) /\ UNCHANGED srv

-----------------------------------------------------------------------------
Answered(c) == Loaded(c) \/ Saved(c) \/ Reloads(c) \/ Tested(c)
Step(i) == \E c \in calls : c.id = i /\ (Serve(c) \/ Answered(c))
Operator ==
  \/ Refresh \/ OnSave \/ OnClearGlobal \/ OnAddAccountProxy \/ OnTest \/ OnTestAccountProxy \/ Leave
  \/ \E f \in Forms \ {Bare} : FillGlobal(f) \/ \E a \in Accounts : FillAccount(a, f)
Faults == \E c \in calls : Fails(c) \/ Vanish(c)
Next == Operator \/ Faults \/ \E i \in Slots : Step(i)
Fairness == \A i \in Slots : WF_vars(Step(i))
Spec == Init /\ [][Next]_vars /\ Fairness

-----------------------------------------------------------------------------
(* An account that has a binding when the list is loaded is not offered for  *)
(* a new one, which would overwrite it (unboundAccounts and the comment     *)
(* above it): violated, because no binding ever reaches the view.           *)
BoundAreFiltered ==
  [][\A c \in calls : c.op = "load" /\ Loaded(c) /\ ui.mounted =>
       \A b \in c.answer.perAccount : b[1] \notin UnboundAccounts']_vars
=============================================================================
