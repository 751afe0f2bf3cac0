------------------------------ MODULE Insight ------------------------------
(***************************************************************************)
(* What is concluded from the stored reports: the spike alert that         *)
(* src/app/notifications.py checks for at every import, the advice of      *)
(* src/app/advisor.py and the classes of src/app/source_classifier.py.     *)
(***************************************************************************)
EXTENDS Statistics

CONSTANTS SpikeThreshold, SpikeVolume,  \* settings of the tenant
          Allowlist,                    \* addresses on the allowlists
          MaxSource                     \* bound: messages of a source that is classified

\* The form for the two settings takes nothing below one (settings.py:110).
ASSUME InsightAssumption ==
  MaxSource \in Nat /\ SpikeThreshold \in Nat \ {0} /\ SpikeVolume \in Nat \ {0}

VARIABLES
  alerts,  \* history: domains a spike mail was sent about, and whether the
           \* domain then had failed messages of its own
  unheard, \* history: domains of imports that showed a jump and sent no mail
  source   \* a source as the classifier gets it

insightVars == <<alerts, unheard, source>>

InsightInit ==
  /\ alerts = {} /\ unheard = {}
  /\ source \in [pass : {0, 4, 9, 60, MaxSource}, fail : {0},
                 host : {"unknown", "provider", "own"}]

Rate(rows) == [total |-> Volume(rows), fail |-> Volume({row \in rows : ~Aligned(row)})]

\* fail rate of cur above that of prev by at least so many points
Jumped(cur, prev) ==
  /\ cur.total >= SpikeVolume /\ prev.total >= SpikeVolume
  /\ 100 * (cur.fail * prev.total - prev.fail * cur.total)
       >= SpikeThreshold * cur.total * prev.total

\* Mutant of Between: the reports of all domains are looked at.
BetweenAll(S, d, from, upto) == RowsOf({r \in S : r.begin >= from /\ r.begin < upto})

Between(S, d, from, upto) ==
  RowsOf({r \in S : r.domain = d /\ r.begin >= from /\ r.begin < upto})

\* check_spike: by the time at which reports begin.
Spike(S, d) == Jumped(Rate(Between(S, d, now - Day, now)),
                      Rate(Between(S, d, now - 8 * Day, now - Day)))

\* The same comparison by the time that reports are about.
JumpSeen(S, d) ==
  LET recent == {r \in S : r.domain = d /\ r.end > now - Day}
      before == {r \in S : r.domain = d /\ r.end <= now - Day /\ r.begin >= now - 9 * Day}
  IN Jumped(Rate(RowsOf(recent)), Rate(RowsOf(before)))

OwnFailures(S, d) == \E row \in RowsOf({r \in S : r.domain = d}) : ~Aligned(row)

\* The end of ingest_parsed: mail errors are ignored.
Import(r) ==
  /\ Store(r)
  /\ alerts' = IF Spike(reports', r.domain)
                 THEN alerts \cup {[domain |-> r.domain, own |-> OwnFailures(reports', r.domain)]}
                 ELSE alerts
  /\ unheard' = IF JumpSeen(reports', r.domain) /\ ~Spike(reports', r.domain)
                  THEN unheard \cup {r.domain} ELSE unheard
  /\ UNCHANGED source

ReportNext ==
  \/ \E r \in Candidates : Import(r) \/ (DeleteReport(r) /\ UNCHANGED insightVars)
  \/ Advance /\ UNCHANGED insightVars
----------------------------------------------------------------------------
\* The policy of the report that ends last.
CurrentPolicy(d) ==
  LET mine == {r \in reports : r.domain = d}
  IN IF mine = {} THEN "none"
     ELSE (CHOOSE r \in mine : \A q \in mine : q.end <= r.end).policy

\* Addresses first seen within three days, the three largest of them.
NewSources(d) ==
  LET rows == RowsOf({r \in reports : r.domain = d})
      key(row) == <<Rec(row).ip, Rec(row).host>>
      groups == Grouped(rows, key)
      fresh == {k \in DOMAIN groups : \A row \in rows : key(row) = k => row[1].begin >= From(3)}
  IN {k \in Largest(Restrict(groups, fresh), 3) : k[1] \notin Allowlist /\ groups[k].total >= 5}

\* Mutant of PolicyAdvice: the policy in force is not looked at.
PolicyAdviceBlind(t, policy) ==
  IF t.total < 100 THEN {"too little data"}
  ELSE {a \in {"ready for quarantine", "ready for reject"} : 100 * t.pass >= 99 * t.total}

PolicyAdvice(t, policy) ==
  LET reaches(pct) == 100 * t.pass >= pct * t.total
  IN IF t.total < 100 THEN {"too little data"}
     ELSE {a \in {"ready for quarantine"} : reaches(99) /\ policy = "none"}
            \cup {a \in {"ready for reject"} : reaches(99) /\ policy = "quarantine"}
            \cup {a \in {"low pass rate"} : ~reaches(90)}
            \cup {a \in {"not ripe"} : reaches(90) /\ ~reaches(99) /\ policy = "none"}

\* advisor.evaluate
Advice(d) ==
  LET month == Tally(RowsOf(Selected({d}, 30)))
      week == Tally(RowsOf(Selected({d}, 7)))
      last == LastEnd(Selected({d}, Always))
      falls == 100 * (month.pass * week.total - week.pass * month.total)
                 >= 10 * month.total * week.total
  IN IF month.total = 0 THEN {"no data"}
     ELSE {a \in {"reports stopped"} : (now - last) \div Day > 5}
            \cup PolicyAdvice(month, CurrentPolicy(d))
            \cup {a \in {"new sender"} : \E k \in NewSources(d) : k[2] # None}
            \cup {a \in {"unknown source"} : \E k \in NewSources(d) : k[2] = None}
            \cup {a \in {"pass rate falls"} : week.total >= 50 /\ falls}
----------------------------------------------------------------------------
\* Mutant of Guess: the bounds of the last two cases are the wrong way round.
GuessSwapped(s) ==
  LET total == s.pass + s.fail
  IN CASE total >= 10 /\ 100 * s.pass >= 80 * total -> "likely legitimate"
       [] total >= 5 /\ 100 * s.pass > 30 * total -> "check"
       [] OTHER -> "unknown"

\* classify_source without a known host: by pass rate and volume.  Every caller
\* leaves days_seen at one.
Guess(s) ==
  LET total == s.pass + s.fail
      rate(pct) == 100 * s.pass >= pct * total
      apart == IF s.fail > s.pass THEN s.fail - s.pass ELSE s.pass - s.fail
  IN CASE total >= 100 /\ rate(95) -> "presumably legitimate"
       [] ~(total >= 100 /\ rate(95)) /\ total >= 10 /\ rate(80) -> "likely legitimate"
       [] total >= 5 /\ ~rate(30) -> IF s.fail > 50 THEN "spoofer" ELSE "check"
       [] ~(total >= 10 /\ rate(80)) /\ ~(total >= 5 /\ ~rate(30)) ->
            IF s.fail > 0 /\ s.pass > 0 /\ 10 * apart < 3 * total THEN "forwarder" ELSE "unknown"

\* An allowlisted address or the domain's own MX is taken as it is, and a host
\* of a known provider decides; its failures are only flagged.
Classify(s) ==
  LET total == s.pass + s.fail
  IN CASE s.host = "own" -> "own"
       [] s.host = "provider" /\ 2 * s.pass < total /\ total > 10 -> "provider with failures"
       [] s.host = "provider" /\ ~(2 * s.pass < total /\ total > 10) -> "provider"
       [] OTHER -> Guess(s)

\* The source sends one more message, which fails, or one that passed fails.
Sends ==
  /\ source.pass + source.fail < MaxSource
  /\ source' = [source EXCEPT !.fail = @ + 1]

Worsens ==
  /\ source.pass > 0
  /\ source' = [source EXCEPT !.pass = @ - 1, !.fail = @ + 1]

SourceNext == (Sends \/ Worsens) /\ UNCHANGED <<statVars, alerts, unheard>>

InsightSpec == StatInit /\ InsightInit /\ [][ReportNext \/ SourceNext]_<<statVars, insightVars>>
----------------------------------------------------------------------------
\* A spike mail is about the domain's own traffic: another domain's failures
\* never cause one.
SpikeIsOwn == \A a \in alerts : a.own

\* templates/help.html:347: at every import the fail rate of the last 24 hours
\* is compared with the week before, and a jump sends a mail.
JumpsAreMailed == unheard = {}

\* The advisor has queries of its own: it calls a domain ready for the next
\* policy only if the dashboard shows at least a hundred messages of which 99
\* in a hundred pass, never for two policies at once, nor for one that the
\* latest report says is in force.
ReadyIsEarned ==
  \A d \in Domains :
    LET shown == DomainTotals(TenantOf[d], {d}, 30)
        ready == Advice(d) \cap {"ready for quarantine", "ready for reject"}
        final == {r \in reports : r.domain = d /\ \A q \in reports : q.domain = d => q.end <= r.end}
    IN ready # {} => /\ shown.total >= 100 /\ 100 * shown.pass >= 99 * shown.total
                     /\ Cardinality(ready) = 1
                     /\ \E r \in final : <<r.policy, ready>> \in
                          {<<"none", {"ready for quarantine"}>>, <<"quarantine", {"ready for reject"}>>}

Rank(s) ==
  CASE Classify(s) \in {"presumably legitimate", "likely legitimate", "provider", "own"} -> 0
    [] Classify(s) \in {"forwarder", "unknown", "provider with failures"} -> 1
    [] OTHER -> 2

\* The classes overlap and are tried in order, at bounds of volume and of
\* rate: still a message that fails instead of passing never makes a source
\* look better.
FailuresNeverHelp ==
  [][source'.pass < source.pass => Rank(source') >= Rank(source)]_source

\* What the service concludes about a domain follows from the reports the
\* domain's own pages show.
ConclusionsAreEarned == SpikeIsOwn /\ ReadyIsEarned
============================================================================
