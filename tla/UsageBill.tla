------------------------------ MODULE UsageBill -----------------------------
(***************************************************************************)
(* What the usage chip says of accounts and money: which account the pill  *)
(* speaks for (usageQuotaGroups.ts), which groups of limits a card shows   *)
(* and as what (quotaStaleness.ts), under which tab a row of the report    *)
(* falls (usageBillingPresentation.ts) and what is owed to whom            *)
(* (usageVendorGroups.ts), over the answers of the quota service as they   *)
(* come (useUsageQuota.ts).  The loader of reports is UsageReports.        *)
(***************************************************************************)
EXTENDS Integers, FiniteSets, Sequences, FiniteSetsExt

CONSTANTS
  MaxAsks,    \* bound: how often the service is asked in a behaviour
  MaxMoves    \* bound: how often an account appears on the host, or goes

VARIABLES
  accounts,   \* what the host may hold: a sequence of accounts
  here,       \* those of them that are present
  shown,      \* quotas: those the chip shows
  loaded,
  quota,      \* loading, error, probeNote of useUsageQuota
  asks,       \* requests that have not returned; saw: what the service read for them
  asksLeft, movesLeft,
  report,     \* the rows of the report of the last 24 h, "none" before it is there
  coming,     \* the rows that will be in it
  segment     \* the tab on show, and whether the user picked it

billVars == <<accounts, here, shown, loaded, quota, asks, asksLeft, movesLeft, report, coming, segment>>

Unread == -1

-----------------------------------------------------------------------------
(* Cards                                                                   *)

(* quotaGroupsFor: the first-party group of codex leads                    *)
GroupsFor(q) ==
  LET leads(g) == q.runtime = "codex" /\ q.vendor = "openai" /\ g.family = "codex"
      rest(g) == ~leads(g)
  IN SelectSeq(q.groups, leads) \o SelectSeq(q.groups, rest)
LedByCodex(q) == q.runtime = "codex" /\ q.vendor = "openai" /\ q.groups # <<>> /\ GroupsFor(q)[1].family = "codex"
VisibleGroups(q) ==
  {i \in DOMAIN q.groups : i = 1 \/ (~LedByCodex(q) /\ GroupsFor(q)[i].left < 100)}
AdditionalGroups(q) == IF LedByCodex(q) THEN 2 .. Len(q.groups) ELSE {}

(* groupPresentation: a family that the account has left, before a reading *)
(* that is old; `family` is the account's own, as the service has it       *)
Superseded(q, g) == g.wide /\ g.family # "" /\ q.family \notin {"", g.family}
Presentation(q, g) ==
  IF Superseded(q, g) THEN [dim |-> TRUE, collapse |-> TRUE, badge |-> "none"]
  ELSE IF ~g.stale THEN [dim |-> FALSE, collapse |-> FALSE, badge |-> "none"]
  ELSE [dim |-> TRUE, collapse |-> g.inferred, badge |-> IF q.active = "elsewhere" THEN "older" ELSE "expired"]

-----------------------------------------------------------------------------
(* The pill                                                                *)

Nobody == <<0, 0>>
Account(w) == accounts[w[1]]
Group(w) == GroupsFor(Account(w))[w[2]]
Left(w) == Group(w).left

(* findTightestQuota: the first of the tightest windows that are credible  *)
Readings(is) == UNION {{<<i, j>> : j \in {k \in DOMAIN accounts[i].groups : ~GroupsFor(accounts[i])[k].stale}} : i \in is}
Before(w, v) == w[1] < v[1] \/ (w[1] = v[1] /\ w[2] <= v[2])
Tightest(is) ==
  IF Readings(is) = {} THEN Nobody
  ELSE CHOOSE w \in Readings(is) :
         \A v \in Readings(is) : Left(w) < Left(v) \/ (Left(w) = Left(v) /\ Before(w, v))
FirstOf(ws) == IF \E i \in DOMAIN ws : ws[i] # Nobody
               THEN ws[Min({i \in DOMAIN ws : ws[i] # Nobody})] ELSE Nobody

(* subscriptionAccounts, subscriptionCovers                                *)
Plans == {accounts[i] : i \in {k \in shown : accounts[k].billing = "subscription"}}
Covers(row) ==
  row.vendor # "" /\ \E a \in Plans : /\ a.vendor = row.vendor
                                      /\ a.ends = {} \/ row.via = "" \/ row.via \in a.ends
ReportRows == IF report = "none" THEN {} ELSE coming
Spending == {row.vendor : row \in {r \in ReportRows : Covers(r)}}

(* findHeadlineQuota                                                       *)
Headline ==
  LET relevant == {i \in shown : accounts[i].active # "elsewhere"}
      pool == IF relevant = {} THEN shown ELSE relevant
      spent == {i \in pool : accounts[i].vendor \in Spending}
  IN FirstOf(<<Tightest(IF spent = {} THEN pool ELSE spent), Tightest(pool), Tightest(shown)>>)
(* overshadowed: whom the title of the pill names besides                  *)
Overshadowed ==
  LET t == Tightest(shown)
  IN IF Headline # Nobody /\ t[1] # Headline[1] /\ Left(t) < Left(Headline) THEN t ELSE Nobody

-----------------------------------------------------------------------------
(* Money                                                                   *)

(* usageMoneyPresentation: what the request says goes before what is held  *)
Placement(row) ==
  IF row.mode = "api" THEN [tab |-> "api", semantics |-> "paid"]
  ELSE IF Covers(row) THEN [tab |-> "sub", semantics |-> "equivalent"]
  ELSE [tab |-> "api", semantics |-> "estimated"]
RowsInTab(t) == {row \in ReportRows : Placement(row).tab = t}
Tokens(rows) == LET tokens(row) == row.tokens IN MapThenSumSet(tokens, rows)

(* groupByVendor: no sum of two currencies, and none without one           *)
Currencies(rows) == {row.currency : row \in rows} \ {""}
VendorGroups ==
  [v \in {row.vendor : row \in RowsInTab("api")} |->
     LET rows == {row \in RowsInTab("api") : row.vendor = v}
         kinds == {Placement(row).semantics : row \in rows}
         priced == {row \in rows : row.currency # ""}
     IN [tokens |-> Tokens(rows),
         cost |-> IF Cardinality(Currencies(rows)) = 1 THEN Cardinality(priced) ELSE Unread,
         complete |-> priced = rows,
         semantics |-> IF Cardinality(kinds) = 1 THEN CHOOSE k \in kinds : TRUE ELSE "estimated"]]

(* todayApi, pillValue                                                     *)
TodayApi ==
  LET priced == {row \in RowsInTab("api") : row.currency # ""}
  IN IF Cardinality(Currencies(priced)) = 1 THEN Cardinality(priced) ELSE Unread
PillValue ==
  IF Headline # Nobody THEN [says |-> "left", of |-> Left(Headline)]
  ELSE IF \E i \in shown : accounts[i].billing = "api" THEN [says |-> "api", of |-> TodayApi]
  ELSE [says |-> "usage", of |-> Unread]

-----------------------------------------------------------------------------
(* What the service may hold and report.  A host with much to tell apart   *)
(* is asked once; the orders of answers are those of a plain one.          *)

Limit(family, wide, stale, inferred, left) ==
  [family |-> family, wide |-> wide, stale |-> stale, inferred |-> inferred, left |-> left]
Fresh(family, left) == Limit(family, TRUE, FALSE, FALSE, left)
Old(family, left) == Limit(family, TRUE, TRUE, left = 100, left)
Quota(runtime, vendor, billing, active, ends, family, groups) ==
  [runtime |-> runtime, vendor |-> vendor, billing |-> billing, active |-> active, ends |-> ends,
   family |-> family, groups |-> groups]
CodexGroups ==
  {<<>>, <<Fresh("codex", 0)>>, <<Fresh("codex", 50)>>, <<Old("codex", 0)>>, <<Old("codex", 100)>>,
   <<Fresh("premium", 50), Old("codex", 0)>>, <<Fresh("premium", 100), Fresh("codex", 0)>>,
   <<Fresh("codex", 50), Limit("pool", FALSE, FALSE, FALSE, 0)>>}
KimiGroups == {<<>>, <<Fresh("", 0)>>, <<Fresh("", 100)>>, <<Old("", 0)>>}
Billings == {"subscription", "api", "unknown"}
Actives == {"here", "elsewhere", "unknown"}
FirstFamily(groups) == IF groups = <<>> THEN "" ELSE groups[1].family
CardHosts ==
  {<<Quota("codex", "openai", b, a, {}, FirstFamily(gs), gs),
     Quota("codex", "kimi", "subscription", c, {"relay"}, "", hs)>> :
     b \in Billings, a \in Actives, c \in Actives, gs \in CodexGroups, hs \in KimiGroups}
BillHosts ==
  {<<Quota("codex", "openai", b, "unknown", {}, "", <<>>),
     Quota("codex", "kimi", c, "unknown", ends, "", <<>>)>> :
     b \in Billings, c \in Billings, ends \in {{}, {"relay"}}}
PlainHost == <<Quota("codex", "openai", "api", "unknown", {}, "", <<>>),
               Quota("codex", "kimi", "subscription", "unknown", {"relay"}, "", <<Fresh("", 0)>>)>>
Row(vendor, mode, via, tokens, currency) ==
  [vendor |-> vendor, mode |-> mode, via |-> via, tokens |-> tokens, currency |-> currency]
Kimi2 == Row("kimi", "", "relay", 2, "CNY")
Openai2 == Row("openai", "subscription", "", 2, "USD")
BillRows ==
  {{Row(v, m, via, 1, c)} \union more :
     v \in {"openai", "kimi", ""}, m \in {"api", "subscription", ""}, via \in {"", "relay", "other"},
     c \in {"USD", "CNY", ""}, more \in {{}, {Kimi2}}}
CardRows == {{}, {Kimi2}, {Openai2}}

BillInit ==
  /\ \/ accounts \in CardHosts /\ coming \in CardRows /\ asksLeft = 1 /\ movesLeft = 0
     \/ accounts \in BillHosts /\ coming \in BillRows /\ asksLeft = 1 /\ movesLeft = 0
     \/ accounts = PlainHost /\ coming \in CardRows /\ asksLeft = MaxAsks /\ movesLeft = MaxMoves
  /\ here = DOMAIN accounts /\ shown = {} /\ loaded = FALSE
  /\ quota = [loading |-> FALSE, error |-> FALSE, note |-> "none"]
  /\ asks = {} /\ report = "none"
  /\ segment = [tab |-> "sub", touched |-> FALSE, picked |-> "none"]

-----------------------------------------------------------------------------
(* load, and probe when the user asks; the service reads what there is     *)
Asking(kind) == [kind |-> kind, saw |-> {}, read |-> FALSE]
Ask(kind) ==
  /\ asksLeft > 0 /\ asksLeft' = asksLeft - 1 /\ ~\E a \in asks : a.kind = kind
  /\ asks' = asks \union {Asking(kind)}
  /\ quota' = [quota EXCEPT !.loading = TRUE, !.error = FALSE, !.note = IF kind = "probe" THEN "none" ELSE @]
  /\ UNCHANGED <<accounts, here, shown, loaded, movesLeft, report, coming, segment>>
Serve(a) ==
  /\ a \in asks /\ ~a.read /\ asks' = (asks \ {a}) \union {[a EXCEPT !.saw = here, !.read = TRUE]}
  /\ UNCHANGED <<accounts, here, shown, loaded, quota, asksLeft, movesLeft, report, coming, segment>>

(* apply, and the watcher of loaded: a tab, unless the user has picked one *)
Opens(is) ==
  IF (\A i \in is : accounts[i].billing # "subscription") /\ \E i \in is : accounts[i].billing = "api"
  THEN "api" ELSE "sub"
Answer(a, said) ==
  /\ a \in asks /\ a.read /\ asks' = asks \ {a}
  /\ shown' = a.saw /\ loaded' = TRUE
  /\ quota' = [quota EXCEPT !.loading = FALSE, !.note = IF a.kind = "reread" THEN "cannot" ELSE said]
  /\ segment' = IF loaded \/ segment.touched THEN segment ELSE [segment EXCEPT !.tab = Opens(a.saw)]
  /\ UNCHANGED <<accounts, here, asksLeft, movesLeft, report, coming>>
Answers(a) ==
  \/ a.kind # "probe" /\ Answer(a, quota.note)
  \/ a.kind = "probe" /\ \E said \in {quota.note, "failed"} : Answer(a, said)
Fails(a) ==
  /\ a \in asks /\ asks' = asks \ {a}
  /\ quota' = [loading |-> FALSE, error |-> TRUE, note |-> IF a.kind = "reread" THEN "cannot" ELSE quota.note]
  /\ UNCHANGED <<accounts, here, shown, loaded, asksLeft, movesLeft, report, coming, segment>>
(* 404: a host that cannot be asked is read again                          *)
CannotProbe(a) ==
  /\ a \in asks /\ a.kind = "probe" /\ ~a.read /\ asks' = (asks \ {a}) \union {Asking("reread")}
  /\ quota' = [quota EXCEPT !.loading = TRUE, !.error = FALSE]
  /\ UNCHANGED <<accounts, here, shown, loaded, asksLeft, movesLeft, report, coming, segment>>

ReportArrives ==
  /\ report = "none" /\ report' = "there"
  /\ UNCHANGED <<accounts, here, shown, loaded, quota, asks, asksLeft, movesLeft, coming, segment>>
PickTab(t) ==
  /\ movesLeft > 0 /\ segment' = [tab |-> t, touched |-> TRUE, picked |-> t]
  /\ UNCHANGED <<accounts, here, shown, loaded, quota, asks, asksLeft, movesLeft, report, coming>>
(* An account appears on the host, or its credentials go                   *)
Moves(i) ==
  /\ movesLeft > 0 /\ movesLeft' = movesLeft - 1
  /\ here' = IF i \in here THEN here \ {i} ELSE here \union {i}
  /\ UNCHANGED <<accounts, shown, loaded, quota, asks, asksLeft, report, coming, segment>>

BillNext ==
  \/ Ask("load") \/ Ask("probe") \/ ReportArrives
  \/ \E a \in asks : Serve(a) \/ Answers(a) \/ Fails(a) \/ CannotProbe(a)
  \/ \E t \in {"sub", "api", "agent"} : PickTab(t)
  \/ \E i \in DOMAIN accounts : Moves(i)

-----------------------------------------------------------------------------
(* No token is in two tabs or in none, and an owed sum is of one currency, *)
(* paid only if every request says so (usageBillingPresentation.ts).       *)
MoneyIsAccounted ==
  LET groups == VendorGroups
      owed(v) == groups[v].tokens
  IN /\ MapThenSumSet(owed, DOMAIN groups) + Tokens(RowsInTab("sub")) = Tokens(ReportRows)
     /\ \A row \in RowsInTab("sub") : row.mode # "api" /\ \E i \in shown : accounts[i].vendor = row.vendor
     /\ \A v \in DOMAIN groups :
          LET rows == {row \in RowsInTab("api") : row.vendor = v}
          IN /\ groups[v].semantics = "paid" <=> \A row \in rows : row.mode = "api"
             /\ groups[v].cost # Unread => \A r, s \in rows : {r.currency, s.currency} # {"USD", "CNY"}

(* The pill speaks for an account on show, by a reading that is current,   *)
(* whenever there is one; a tighter one is named beside it; no group of    *)
(* limits with some use is without a place, and one of the family that the *)
(* account is in is not folded away (usageQuotaGroups.ts).                 *)
PillIsCredible ==
  /\ Headline # Nobody => Headline[1] \in shown /\ ~Group(Headline).stale
  /\ PillValue.says = "left" <=> \E w \in Readings(shown) : TRUE
  /\ \A w \in Readings(shown) : Left(w) < PillValue.of =>
       Overshadowed # Nobody /\ Left(Overshadowed) <= Left(w)
  /\ \A i \in shown : \A j \in DOMAIN accounts[i].groups :
       LET q == accounts[i] g == GroupsFor(q)[j]
       IN g.left < 100 =>
            \/ j \in AdditionalGroups(q)
            \/ j \in VisibleGroups(q) /\ (g.family = q.family /\ ~g.stale => ~Presentation(q, g).collapse)

(* With no request under way the chip does not say that it loads, and a    *)
(* late answer leaves the tab that was picked (useUsageQuota.ts).          *)
ChipSettles ==
  /\ asks = {} => ~quota.loading
  /\ segment.touched => segment.tab = segment.picked
  /\ ~loaded => shown = {}

BillIsHonest == MoneyIsAccounted /\ PillIsCredible /\ ChipSettles
=============================================================================
