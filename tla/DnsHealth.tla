----------------------------- MODULE DnsHealth -----------------------------
(***************************************************************************)
(* src/app/dns_utils.py: the recursive count of DNS lookups behind an SPF  *)
(* record (_count_spf_lookups, here with its stack of calls), the issues   *)
(* lookup_spf finds, and the health score of score_check.                  *)
(***************************************************************************)
EXTENDS Integers, Sequences, FiniteSetsExt

CONSTANTS Names,     \* domain names; Root is the one that is checked
          Root, NoRecord,
          Records,   \* SPF records each name may have
          MaxDepth   \* nested calls allowed (12 in the code)

\* A record: the names of its include: and redirect= terms, the number of its
\* a, mx, exists and ptr terms, whether it has ip4 or ip6 terms, and the
\* qualifier of its all term.
ASSUME DnsAssumption ==
  /\ IsFiniteSet(Names) /\ Root \in Names /\ MaxDepth \in Nat
  /\ \A rec \in Records :
       rec.includes \in Seq(Names) /\ rec.redirects \in Seq(Names) /\ rec.plain \in Nat

VARIABLES
  spf,    \* what the DNS has for each name
  stack,  \* calls in progress: the name and the terms still to follow
  seen,   \* _seen
  count,  \* lookups so far, in all calls together
  cut     \* history: a call was refused for its depth

dnsVars == <<spf, stack, seen, count, cut>>

Links(rec) == rec.includes \o rec.redirects

DnsInit ==
  /\ spf \in {f \in [Names -> Records \cup {NoRecord}] : f[Root] # NoRecord}
  /\ stack = <<[name |-> Root, todo |-> Links(spf[Root])]>>
  /\ seen = {Root} /\ count = spf[Root].plain /\ cut = FALSE

TooDeep == Len(stack) > MaxDepth

\* Mutant of Visits: a name is only skipped while its call is in progress.
VisitsAgain(n) == (\A i \in 1..Len(stack) : stack[i].name # n) /\ ~TooDeep

\* A call returns at once for a name seen before and at too great a depth.
Visits(n) == n \notin seen /\ ~TooDeep

\* Mutant of CostOfLink: an include costs what is behind it only.
CostOfLinkFree(n) == IF Visits(n) /\ spf[n] # NoRecord THEN spf[n].plain ELSE 0

\* The term itself and, if the name is visited, the terms of its record that
\* lead nowhere.
CostOfLink(n) == 1 + (IF Visits(n) /\ spf[n] # NoRecord THEN spf[n].plain ELSE 0)

FollowLink ==
  /\ stack # <<>>
  /\ LET top == stack[Len(stack)]
         n == Head(top.todo)
         rest == [stack EXCEPT ![Len(stack)].todo = Tail(@)]
     IN /\ top.todo # <<>>
        /\ count' = count + CostOfLink(n)
        /\ seen' = IF Visits(n) THEN seen \cup {n} ELSE seen
        /\ cut' = (cut \/ (n \notin seen /\ TooDeep))
        /\ stack' = IF Visits(n) /\ spf[n] # NoRecord
                      THEN Append(rest, [name |-> n, todo |-> Links(spf[n])])
                      ELSE rest
  /\ UNCHANGED spf

ReturnCall ==
  /\ stack # <<>> /\ stack[Len(stack)].todo = <<>>
  /\ stack' = SubSeq(stack, 1, Len(stack) - 1)
  /\ UNCHANGED <<spf, seen, count, cut>>

DnsNext == FollowLink \/ ReturnCall

DnsSpec == DnsInit /\ [][DnsNext]_dnsVars
----------------------------------------------------------------------------
Mechanisms(rec) == rec.includes # <<>> \/ rec.plain > 0 \/ rec.ips

\* Mutant of SpfIssues: the limit itself is still taken for near.
SpfIssuesLate(rec, n) ==
  {i \in {"redirect ignored"} : rec.redirects # <<>> /\ rec.all # NoRecord}
    \cup {i \in {"no policy"} : rec.all = NoRecord /\ rec.redirects = <<>>}
    \cup {i \in {"near limit"} : n \in 8..10}

\* lookup_spf: the issues of a present record that takes n lookups.
SpfIssues(rec, n) ==
  LET redirected == rec.redirects # <<>>
  IN {i \in {"several redirects"} : Len(rec.redirects) > 1}
       \cup {i \in {"redirect ignored"} : redirected /\ rec.all # NoRecord}
       \cup {i \in {"redirect overrides"} : redirected /\ rec.all = NoRecord /\ Mechanisms(rec)}
       \cup {i \in {"?all", "+all"} : rec.all = i}
       \cup {i \in {"no policy"} : rec.all = NoRecord /\ ~redirected}
       \cup {i \in {"over limit"} : n > 10}
       \cup {i \in {"near limit"} : n \in 8..10}

SpfPoints(rec, n) ==
  IF SpfIssues(rec, n) = {} THEN 25 ELSE IF n > 10 THEN 0 ELSE 15

\* lookup_dmarc and score_check; a record without p= counts as none.
DmarcPoints(dmarc) ==
  CASE dmarc = NoRecord -> 0
    [] dmarc # NoRecord /\ dmarc.policy \in {"quarantine", "reject"} /\ dmarc.rua -> 30
    [] dmarc # NoRecord /\ dmarc.policy \in {"none", "missing"} /\ dmarc.rua -> 18
    [] dmarc # NoRecord /\ dmarc.policy \in {"quarantine", "reject"} /\ ~dmarc.rua -> 18
    [] OTHER -> 10

Facts == [mx : BOOLEAN, dkim : BOOLEAN, extras : 0..3,
          dmarc : {NoRecord} \cup [policy : {"missing", "none", "quarantine", "reject"}, rua : BOOLEAN]]

\* extras: how many of MTA-STS, TLS-RPT and BIMI are set.
Health(f, rec, n) ==
  (IF f.mx THEN 5 ELSE 0) + SpfPoints(rec, n) + DmarcPoints(f.dmarc)
    + (IF f.dkim THEN 25 ELSE 0) + 5 * f.extras

Grade(t) ==
  IF t >= 85 THEN "A" ELSE IF t >= 70 THEN "B" ELSE IF t >= 50 THEN "C"
  ELSE IF t >= 30 THEN "D" ELSE "F"
----------------------------------------------------------------------------
Counted == stack = <<>>
Cost(n) == IF spf[n] = NoRecord THEN 0 ELSE spf[n].plain + Len(Links(spf[n]))
Targets(S) == UNION {{Links(spf[n])[i] : i \in 1..Len(Links(spf[n]))} :
                       n \in {m \in S : spf[m] # NoRecord}}
Reached == LET step[i \in Nat] == IF i = 0 THEN {Root} ELSE step[i - 1] \cup Targets(step[i - 1])
           IN step[Cardinality(Names)]
TermsTo(m, n) ==
  IF spf[m] = NoRecord THEN {} ELSE {i \in 1..Len(Links(spf[m])) : Links(spf[m])[i] = n}
References(n) == MapThenSumSet(LAMBDA m : Cardinality(TermsTo(m, n)), Reached)

\* The recursion shares one set of names and its depth is limited: whatever
\* the records refer to, themselves included, each record behind the domain
\* is read once and each of its terms counted once.
EachTermOnce ==
  Counted => /\ count = MapThenSumSet(Cost, seen)
             /\ ~cut => seen = Reached

\* What the records behind the domain cost when each reference to a record
\* costs all of its terms, up to some depth.
Behind(cost, n) == MapThenSumSet(LAMBDA j : cost[Links(spf[n])[j]], 1..Len(Links(spf[n])))
Evaluated ==
  LET eval[i \in Nat] ==
        IF i = 0 THEN [n \in Names |-> 0]
        ELSE [n \in Names |->
               IF spf[n] = NoRecord THEN 0 ELSE Cost(n) + Behind(eval[i - 1], n)]
  IN eval[Cardinality(Names)][Root]

\* A receiver evaluates a record anew for each reference to it.  The count
\* never exceeds that cost, and when no name is referred to twice it is exact;
\* a redirect beside an all term, which receivers ignore, is part of both.
TreesAreExact ==
  Counted /\ ~cut =>
    /\ count <= Evaluated
    /\ (References(Root) = 0 /\ \A n \in Reached \ {Root} : References(n) = 1) => count = Evaluated

\* A record that takes more than ten lookups gets no points, and whatever else
\* is set, the best grade needs a DMARC record, DKIM and an SPF record within
\* the limit.
OverflowIsFailed ==
  Counted =>
    /\ count > 10 => SpfPoints(spf[Root], count) = 0
    /\ \A f \in Facts : Grade(Health(f, spf[Root], count)) = "A" =>
         f.dmarc # NoRecord /\ f.dkim /\ count <= 10

\* Lookups are counted as far as one reading of each record tells, and count.
LookupsAreCounted == EachTermOnce /\ TreesAreExact /\ OverflowIsFailed
============================================================================
