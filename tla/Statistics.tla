----------------------------- MODULE Statistics -----------------------------
(***************************************************************************)
(* src/app/stats.py with the pages that use it: the aggregations of the    *)
(* stored reports that the dashboard, the console of a reseller, the page  *)
(* of a source and the list of reports show.  Each has a query and a loop  *)
(* of its own over the same rows.  Time is in quarters of a day.           *)
(***************************************************************************)
EXTENDS Integers, Sequences, FiniteSetsExt, Functions

CONSTANTS Candidates,  \* reports that may be imported
          TenantOf,    \* tenant of each domain
          ResellerTenants,
          LabelOf,     \* sender_label of each host name
          None,
          TopSenders,  \* senders shown by name (8 or 6 in the code)
          Jumps,       \* steps of the clock
          MaxNow       \* bound: end of time

Day == 4
Domains == DOMAIN TenantOf

\* What reporters send: about a period that begins before it ends, with numbers
\* of messages, zero among them (parser.py:154 makes zero of a missing one).
ASSUME ReportsAssumption ==
  /\ IsFiniteSet(Domains) /\ IsFiniteSet(ResellerTenants)
  /\ Jumps \subseteq Nat
  /\ \A r \in Candidates :
       /\ r.domain \in Domains
       /\ r.begin \in Int /\ r.end \in Int /\ r.begin <= r.end
       /\ r.records \in Seq(Range(r.records))
       /\ \A i \in DOMAIN r.records : r.records[i].count \in Nat

VARIABLES reports, now

statVars == <<reports, now>>

Alignments == {"Aligned", "Not aligned"}

StatInit == reports = {} /\ now = 0

Advance == \E j \in Jumps : now + j <= MaxNow /\ now' = now + j /\ UNCHANGED reports

Store(r) == r.end <= now /\ r \notin reports /\ reports' = reports \cup {r} /\ UNCHANGED now

\* report_delete, records and results with it.
DeleteReport(r) == r \in reports /\ reports' = reports \ {r} /\ UNCHANGED now
----------------------------------------------------------------------------
\* A row of the join of reports and records.
Rec(row) == row[1].records[row[2]]
RowsOf(S) == UNION {{r} \X DOMAIN r.records : r \in S}
From(days) == now - days * Day
Always == -1

Selected(D, days) == {r \in reports : r.domain \in D /\ (days = Always \/ r.begin >= From(days))}

\* The queries over the reports of some domains of a tenant.
RowsFor(t, D, days) == RowsOf({r \in Selected(D, days) : TenantOf[r.domain] = t})

Aligned(row) == Rec(row).dkim = "pass" \/ Rec(row).spf = "pass"
Volume(rows) == MapThenSumSet(LAMBDA row : Rec(row).count, rows)
Tally(rows) == [total |-> Volume(rows),
                pass |-> Volume({row \in rows : Aligned(row)}),
                fail |-> Volume({row \in rows : ~Aligned(row)})]
Grouped(rows, key(_)) == [k \in {key(row) : row \in rows} |-> Tally({row \in rows : key(row) = k})]

\* domain_totals
DomainTotals(t, D, days) == Tally(RowsFor(t, D, days))

BeginDay(row) == row[1].begin \div Day

\* daily_series: days without reports are left out.
DailySeries(t, D, days) == Grouped(RowsFor(t, D, days), BeginDay)

\* sparkline: the totals of its days in order.
Sparkline(t, d, days) ==
  LET series == Grouped(RowsFor(t, {d}, days), BeginDay)
      place(k) == Cardinality({j \in DOMAIN series : j <= k})
  IN [i \in 1..Cardinality(DOMAIN series) |->
        series[CHOOSE k \in DOMAIN series : place(k) = i].total]

\* The n largest groups; the database decides between equal ones.
Largest(groups, n) ==
  LET larger(k) == {j \in DOMAIN groups : groups[j].total > groups[k].total}
  IN CHOOSE S \in SUBSET DOMAIN groups :
       /\ Cardinality(S) = Min({n, Cardinality(DOMAIN groups)})
       /\ \A k \in S : larger(k) \subseteq S

IpOf(row) == Rec(row).ip

\* top_sources
TopSources(t, D, days, limit) ==
  LET groups == Grouped(RowsFor(t, D, days), IpOf)
  IN Restrict(groups, Largest(groups, limit))

\* Every other sender is named by its host or its address.
Other == "Andere"
LabelOfRow(row) == IF Rec(row).host = None THEN Rec(row).ip ELSE LabelOf[Rec(row).host]

\* sender_breakdown: what is not among the first senders becomes one group.
SenderBreakdown(t, D, days) ==
  LET rows == RowsFor(t, D, days)
      top == Largest(Grouped(rows, LabelOfRow), TopSenders)
      node(row) == IF LabelOfRow(row) \in top THEN LabelOfRow(row) ELSE Other
  IN Grouped(rows, node)

\* sender_daily_stack, per day and sender.
DailyStack(t, D, days) ==
  LET rows == RowsFor(t, D, days)
      top == Largest(Grouped(rows, LabelOfRow), TopSenders)
      cell(row) == <<BeginDay(row), IF LabelOfRow(row) \in top THEN LabelOfRow(row) ELSE Other>>
  IN Grouped(rows, cell)

\* Mutant of AlignmentOf: both evaluations have to pass.
AlignmentOfStrict(row) ==
  IF Rec(row).dkim = "pass" /\ Rec(row).spf = "pass" THEN "Aligned" ELSE "Not aligned"

AlignmentOf(row) == IF Aligned(row) THEN "Aligned" ELSE "Not aligned"
DispositionOf(row) == IF Rec(row).disp = None THEN "none" ELSE Rec(row).disp

\* sankey_data: flows from senders to alignments and on to dispositions;
\* empty rows are left out.
Sankey(t, D, days) ==
  LET rows == {row \in RowsFor(t, D, days) : Rec(row).count > 0}
      top == Largest(Grouped(rows, LabelOfRow), TopSenders)
      node(row) == IF LabelOfRow(row) \in top THEN LabelOfRow(row) ELSE Other
      first(row) == <<node(row), AlignmentOf(row)>>
      second(row) == <<AlignmentOf(row), DispositionOf(row)>>
  IN [first |-> Grouped(rows, first), second |-> Grouped(rows, second)]

Intensity(total, most) ==
  IF most = 0 \/ total = 0 THEN 0
  ELSE IF 10 * total < most THEN 1
  ELSE IF 100 * total < 33 * most THEN 2
  ELSE IF 100 * total < 66 * most THEN 3 ELSE 4

\* calendar_heatmap: a cell for every day of the grid.
Heatmap(t, D, days) ==
  LET groups == Grouped(RowsFor(t, D, days), BeginDay)
      most == Max({groups[k].total : k \in DOMAIN groups} \cup {0})
      today == now \div Day
      cell(k) == IF k \in DOMAIN groups THEN groups[k] ELSE [total |-> 0, pass |-> 0, fail |-> 0]
  IN [k \in today - days .. today |->
        [total |-> cell(k).total, pass |-> cell(k).pass, intensity |-> Intensity(cell(k).total, most)]]

LastEnd(S) == IF S = {} THEN None ELSE Max({r.end : r \in S})

\* domain_summaries
DomainSummaries(t, days) ==
  [d \in {d \in Domains : TenantOf[d] = t} |->
     [tally |-> DomainTotals(t, {d}, days), spark |-> Sparkline(t, d, 14),
      last |-> LastEnd(Selected({d}, Always))]]

\* Mutant of CustomerReports: the console shows reports of all times.
CustomerReportsAll(days) == {r \in reports : TenantOf[r.domain] \in ResellerTenants}

CustomerReports(days) == {r \in Selected(Domains, days) : TenantOf[r.domain] \in ResellerTenants}

\* reseller_overview
ResellerOverview(days) ==
  LET rows == RowsOf(CustomerReports(days))
      tenant(row) == TenantOf[row[1].domain]
      domain(row) == row[1].domain
      all(f, keys) == [k \in keys |-> IF k \in DOMAIN f THEN f[k] ELSE Tally({})]
  IN [whole |-> Tally(rows),
      tenants |-> all(Grouped(rows, tenant), ResellerTenants),
      domains |-> all(Grouped(rows, domain), {d \in Domains : TenantOf[d] \in ResellerTenants})]

\* ip_detail: all records of a source, per domain and per day.
IpDetail(t, ip) ==
  LET rows == {row \in RowsFor(t, Domains, Always) : IpOf(row) = ip}
      domain(row) == row[1].domain
  IN [whole |-> Tally(rows), domains |-> Grouped(rows, domain), series |-> Grouped(rows, BeginDay)]

\* A comparison with NULL is not true in SQL.
DiffersFromPass(v) == v # None /\ v # "pass"

\* Mutant of HasFailure: one of the two evaluations is enough.
HasFailureAny(r) ==
  \E i \in DOMAIN r.records : DiffersFromPass(r.records[i].dkim) \/ DiffersFromPass(r.records[i].spf)

HasFailure(r) ==
  \E i \in DOMAIN r.records : DiffersFromPass(r.records[i].dkim) /\ DiffersFromPass(r.records[i].spf)

\* _apply_filters of the list of reports.
Listed(t, status, days) ==
  {r \in Selected(Domains, days) :
     /\ TenantOf[r.domain] = t
     /\ CASE status = "fail" -> HasFailure(r)
          [] status = "pass" -> ~HasFailure(r)
          [] OTHER -> \E i \in DOMAIN r.records : r.records[i].disp = status}

\* report_detail
ReportDetail(r) == Tally(RowsOf({r}))
----------------------------------------------------------------------------
Tenants == Range(TenantOf)
Scopes(t) == {{d} : d \in {d \in Domains : TenantOf[d] = t}} \cup {Domains}
Totals(f, S) == MapThenSumSet(LAMBDA k : f[k].total, S)
Passes(f, S) == MapThenSumSet(LAMBDA k : f[k].pass, S)
\* What flows to a or from a.
Reach(f, place, a) == Totals(f, {k \in DOMAIN f : k[place] = a})
Agrees(f, tally) ==
  Totals(f, DOMAIN f) = tally.total /\ Passes(f, DOMAIN f) = tally.pass

\* One page, for some domains and days.
DashboardAgrees(t, D, days) ==
  LET totals == DomainTotals(t, D, days)
      sources == {IpOf(row) : row \in RowsFor(t, D, days)}
      flows == Sankey(t, D, days)
  IN /\ totals.total = totals.pass + totals.fail
     /\ Agrees(DailySeries(t, D, days), totals) /\ Agrees(Heatmap(t, D, days), totals)
     /\ Agrees(SenderBreakdown(t, D, days), totals) /\ Agrees(DailyStack(t, D, days), totals)
     /\ Cardinality(sources) <= 10 => Agrees(TopSources(t, D, days, 10), totals)
     /\ Reach(flows.first, 2, "Aligned") = totals.pass
     /\ \A a \in Alignments : Reach(flows.first, 2, a) = Reach(flows.second, 1, a)

\* The charts of a dashboard are computed apart from each other, some after
\* cutting off the small senders, some per day: for the same days all of them
\* show the same number of messages, as many of them aligned, for a domain as
\* for a tenant, and the table of sources does if it has room for all of them.
\* The tiles above them show all times (dashboard.py:40).
ChartsAgree ==
  reports # {} => \A t \in Tenants, days \in {7, 30} : \A D \in Scopes(t) : DashboardAgrees(t, D, days)

\* The console of a reseller adds up: its total is that of its customers and
\* of their domains, and each customer finds the same on its own dashboard.
RollupsAgree ==
  LET overview == ResellerOverview(30)
      tenants == overview.tenants
      domains == overview.domains
  IN /\ overview.whole.total = Totals(tenants, DOMAIN tenants)
     /\ overview.whole.total = Totals(domains, DOMAIN domains)
     /\ \A t \in ResellerTenants :
          /\ tenants[t] = DomainTotals(t, Domains, 30)
          /\ \A d \in DOMAIN DomainSummaries(t, 30) :
               domains[d] = DomainSummaries(t, 30)[d].tally

\* The list of reports and the page of a report agree: one listed as failing
\* has failed messages, unless it has a record about no message, and one listed
\* as passing has none, unless its reporter left an evaluation out.  A source's
\* page shows all its messages.
ListAgrees ==
  \A t \in Tenants :
    /\ \A r \in Listed(t, "fail", 30) :
         ReportDetail(r).fail > 0 \/ \E i \in DOMAIN r.records : r.records[i].count = 0
    /\ \A r \in Listed(t, "pass", 30) :
         ReportDetail(r).fail = 0 \/ \E i \in DOMAIN r.records :
                                       None \in {r.records[i].dkim, r.records[i].spf}
    /\ LET sources == TopSources(t, Domains, Always, 10)
       IN \A ip \in DOMAIN sources : IpDetail(t, ip).whole = sources[ip]

\* Every page tells the same of the same reports.
ViewsAgree == ChartsAgree /\ RollupsAgree /\ ListAgrees
============================================================================
