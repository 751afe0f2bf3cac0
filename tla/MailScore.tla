----------------------------- MODULE MailScore -----------------------------
(***************************************************************************)
(* score_mail in src/app/mt_scorer.py: fifteen checks, each with a weight, *)
(* earn a share of it or are skipped; the total is ten times what was      *)
(* earned by what could be earned.  Two mails are scored side by side:     *)
(* alike, or differing in one check, in which the second does better.      *)
(* Weights are in hundredths.                                              *)
(***************************************************************************)
EXTENDS Integers, Sequences

CONSTANT MaxShort  \* bound: checks that are not passed in full

ASSUME ScoreAssumption == MaxShort \in Nat

Weight ==
  [spf |-> 140, dkim |-> 140, dmarc |-> 140, ptr |-> 70, rdns_match |-> 40, tls |-> 60,
   dnsbl |-> 80, rspamd |-> 140, list_unsub |-> 40, subject_caps |-> 20, html_text |-> 30,
   html_dangerous |-> 30, html_alt |-> 20, short_urls |-> 20, sender_mx |-> 20]

Result(earned, max) == [earned |-> earned, max |-> max]
Share(check, pct) == Result(Weight[check] * pct, Weight[check] * 100)
Add(a, b) == Result(a.earned + b.earned, a.max + b.max)

\* Mutant of Skipped: a check that cannot be made counts against the mail.
SkippedCounts(check) == Share(check, 0)

\* status="skip", or a check that is not appended.
Skipped(check) == Result(0, 0)

Larger(a, b) == IF a >= b THEN a ELSE b

\* Percent for an rspamd score, negative for a harmless mail.
RspamdPct(rs) ==
  IF rs < 0 THEN 100
  ELSE IF rs < 3 THEN Larger(40, 100 - 20 * rs)
  ELSE IF rs < 6 THEN Larger(10, 40 - 10 * (rs - 3)) ELSE 0

\* What a check can come to, from the worst fact to the best.
SpfResults == <<Share("spf", 0), Share("spf", 30), Share("spf", 100)>>
DkimResults == <<Share("dkim", 0), Share("dkim", 50), Share("dkim", 100)>>
DmarcResults == <<Share("dmarc", 0), Share("dmarc", 40), Share("dmarc", 50), Share("dmarc", 100)>>
\* The name of the sender may or may not match the PTR record.
MatchShare(matches) == Share("rdns_match", IF matches THEN 100 ELSE 30)

\* Mutant of PtrResults: a mail without PTR record is not asked for the match,
\* nor for the record.
PtrResultsLenient ==
  <<Skipped("ptr"), Add(Share("ptr", 100), MatchShare(FALSE)),
    Add(Share("ptr", 100), MatchShare(TRUE))>>

\* Without PTR record the match of its name is not asked for.
PtrResults ==
  <<Add(Share("ptr", 0), Skipped("rdns_match")),
    Add(Share("ptr", 100), MatchShare(FALSE)),
    Add(Share("ptr", 100), MatchShare(TRUE))>>
TlsResults == <<Share("tls", 100)>>
DnsblResults == <<Share("dnsbl", 0), Share("dnsbl", 100)>>
RspamdResults == [i \in 1..8 |-> Share("rspamd", RspamdPct(7 - i))]
ListUnsubResults == <<Share("list_unsub", 30), Share("list_unsub", 100)>>
CapsResults == <<Share("subject_caps", 0), Share("subject_caps", 100)>>
HtmlTextResult(shape) ==
  Share("html_text", CASE shape \in {"both", "hollow html"} -> 100 [] shape = "little text" -> 50
                       [] shape = "text" -> 80 [] OTHER -> 0)
DangerousResults == <<Share("html_dangerous", 0), Share("html_dangerous", 100)>>
AltResults == <<Share("html_alt", 30), Share("html_alt", 100)>>
ShortUrlResults == <<Share("short_urls", 0), Share("short_urls", 100)>>
MxResults == <<Share("sender_mx", 30), Share("sender_mx", 100)>>

\* A hollow HTML part counts as a part, but there is nothing in it to inspect.
HtmlBody(shape) == shape \in {"both", "little text", "html"}

\* The checks of a mail in order.  ip: the oldest Received header names a
\* public address; shape: the parts the mail is made of.
Plan(ip, shape) ==
  LET check(name, results, optional) == <<[name |-> name, results |-> results, optional |-> optional]>>
      none == <<>>
  IN check("spf", SpfResults, FALSE) \o check("dkim", DkimResults, FALSE)
     \o check("dmarc", DmarcResults, FALSE)
     \o (IF ip THEN check("ptr", PtrResults, FALSE) ELSE none)
     \o check("tls", TlsResults, TRUE)
     \o (IF ip THEN check("dnsbl", DnsblResults, FALSE) ELSE none)
     \o check("rspamd", RspamdResults, TRUE) \o check("list_unsub", ListUnsubResults, TRUE)
     \o check("subject_caps", CapsResults, FALSE)
     \o check("html_text", <<HtmlTextResult(shape)>>, FALSE)
     \o (IF HtmlBody(shape)
           THEN check("html_dangerous", DangerousResults, FALSE)
                \o check("html_alt", AltResults, FALSE)
                \o check("short_urls", ShortUrlResults, FALSE)
           ELSE none)
     \o check("sender_mx", MxResults, TRUE)

VARIABLES
  mail,    \* ip and shape, the same for both mails
  at,      \* number of checks made
  lo, hi,  \* breakdown of the two mails so far
  faults,  \* checks skipped, those that fell short, those of SPF, DKIM, DMARC failed
  moved    \* the two mails differ in a check

scoreVars == <<mail, at, lo, hi, faults, moved>>

ScoreInit ==
  /\ mail \in [ip : BOOLEAN, shape : {"both", "little text", "text", "hollow html", "html", "empty"}]
  /\ at = 0 /\ lo = Result(0, 0) /\ hi = Result(0, 0)
  /\ faults = [skipped |-> 0, short |-> 0, auth |-> 0] /\ moved = FALSE

Checks == Plan(mail.ip, mail.shape)
Leeway == faults.skipped + faults.short < MaxShort

\* Every check but the optional ones comes to a result for both mails.
Judge ==
  LET check == Checks[at + 1]
      best == Len(check.results)
  IN \E f \in 1..best : \E g \in f..best :
       /\ f # g => ~moved
       /\ f < best => Leeway
       /\ lo' = Add(lo, check.results[f])
       /\ hi' = Add(hi, check.results[g])
       /\ moved' = (moved \/ f # g)
       /\ faults' = [faults EXCEPT !.short = @ + (IF f < best THEN 1 ELSE 0),
                                   !.auth = @ + (IF f = 1 /\ at < 3 THEN 1 ELSE 0)]

\* What is not in the headers is not counted.
Skip ==
  LET check == Checks[at + 1]
  IN /\ check.optional
     /\ Leeway
     /\ lo' = Add(lo, Skipped(check.name))
     /\ hi' = Add(hi, Skipped(check.name))
     /\ faults' = [faults EXCEPT !.skipped = @ + 1]
     /\ UNCHANGED moved

ScoreNext ==
  /\ at < Len(Checks)
  /\ Judge \/ Skip
  /\ at' = at + 1
  /\ UNCHANGED mail

ScoreSpec == ScoreInit /\ [][ScoreNext]_scoreVars

\* breakdown.total in hundredths, rounded half up and capped.
Total(b) ==
  LET t == IF b.max = 0 THEN 0 ELSE (2000 * b.earned + b.max) \div (2 * b.max)
  IN IF t > 1000 THEN 1000 ELSE t
----------------------------------------------------------------------------
\* The total is a quotient of two sums that both depend on the facts: still a
\* mail that does better in one check, also one whose result decides whether
\* another check is made, never gets a lower total.
BetterScoresHigher == Total(lo) <= Total(hi)

\* A mail of both parts that falls short in nothing gets ten points, whatever
\* could not be checked; one that fails SPF, DKIM and DMARC stays below six.
FullMarks ==
  at = Len(Checks) =>
    /\ mail.shape = "both" /\ faults.short = 0 => Total(lo) = 1000
    /\ faults.auth = 3 => Total(lo) < 600

\* Scores are in the order of the mails, from full marks down.
ScoresAreFair == BetterScoresHigher /\ FullMarks
============================================================================
