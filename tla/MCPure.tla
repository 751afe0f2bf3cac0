------------------------------- MODULE MCPure -------------------------------
(***************************************************************************)
(* What the service computes, for TLC: the score of a mail, the count of   *)
(* SPF lookups and the health score, the views of the stored reports with  *)
(* what is concluded from them, the class of a source, the .env file, and  *)
(* the recipients of a notification.  They share no state; a behaviour     *)
(* plays one of them, the others stay as they are.                         *)
(***************************************************************************)
EXTENDS MailScore, DnsHealth, Insight, EnvFile, Notify, TLC

CONSTANTS root, inner, leaf, shop, news, partner, stranger, acme, beta, other,
          fernet, dqs, port, flag, extra, user, Scenes

VARIABLE scene

pureVars == <<scoreVars, dnsVars, statVars, insightVars, envVars, notifyVars>>
mcVars == <<pureVars, scene>>

SpfRec(inc, red, plain, all) ==
  [includes |-> inc, redirects |-> red, plain |-> plain, ips |-> TRUE, all |-> all]
MCRecords ==
  {SpfRec(<<>>, <<>>, 4, "-all"), SpfRec(<<inner>>, <<>>, 1, "~all"), SpfRec(<<leaf, inner>>, <<>>, 5, "-all"),
   SpfRec(<<>>, <<leaf>>, 1, NoRecord), SpfRec(<<root>>, <<leaf>>, 0, "+all"),
   SpfRec(<<inner, leaf, inner>>, <<>>, 0, "-all"), SpfRec(<<leaf>>, <<>>, 2, NoRecord)}

MCTenantOf == shop :> acme @@ news :> acme @@ partner :> beta @@ stranger :> other
MCLabelOf == "h1" :> "mailer" @@ "h2" :> "mailer" @@ "h3" :> "office"

Row(ip, host, dkimEval, spfEval, disp, n) ==
  [ip |-> ip, host |-> host, dkim |-> dkimEval, spf |-> spfEval, disp |-> disp, count |-> n]
Rep(d, begin, end, policy, rows) ==
  [domain |-> d, begin |-> begin, end |-> end, policy |-> policy, records |-> rows]

\* Daily reports, a report of one quarter of a day, one that left an
\* evaluation out, a record about no message; volumes around the bounds of a
\* hundred messages.
MCCandidates ==
  {Rep(shop, 0, 4, "none", <<Row("1", "h1", "pass", "fail", "none", 99), Row("2", None, "pass", "pass", None, 1)>>),
   Rep(shop, 4, 8, "quarantine", <<Row("3", "h3", "fail", "fail", "quarantine", 60),
                                   Row("1", "h2", "fail", "pass", "none", 40)>>),
   Rep(shop, 31, 32, "quarantine", <<Row("4", None, "fail", "fail", "reject", 100)>>),
   Rep(shop, 28, 32, "none", <<Row("1", "h1", "pass", "pass", "none", 70), Row("3", "h3", "fail", "fail", "none", 70)>>),
   Rep(news, 28, 32, "quarantine", <<Row("1", "h1", "pass", "pass", "none", 100),
                                     Row("3", "h3", "fail", "fail", "none", 0)>>),
   Rep(partner, 4, 8, "none", <<Row("1", "h1", None, "fail", "none", 3), Row("3", "h2", "pass", "fail", "none", 2)>>),
   Rep(stranger, 4, 8, "none", <<Row("1", "h1", "fail", "fail", "none", 5)>>)}

MCKind == fernet :> "secret" @@ dqs :> "secret" @@ port :> "number" @@ flag :> "bool"
MCContainerEnv == fernet :> Plain("x")
Quoted(w) == Text(w, TRUE, FALSE)
Hashed(w) == Text(w, FALSE, TRUE)
FileLine(k, t) == [key |-> k, val |-> t]
MCFirstFiles ==
  {<<FileLine(port, Plain("x")), FileLine(Unset, "comment"), FileLine(port, Quoted("y")), Blank,
     FileLine(fernet, Quoted("x")), FileLine(dqs, Plain("y")), FileLine(extra, Quoted("y"))>>}

\* A secret is left empty, or filled with a word in quotes or with nothing but
\* quotes; with each, a number or a secret beside it is left empty, and the other
\* is filled, one with more behind a " #".
MCForms ==
  {fernet :> a @@ dqs :> b[1] @@ port :> b[2] @@ flag :> b[3] :
     a \in {Empty, Quoted("y"), EmptyQuotes},
     b \in {<<Empty, Plain("x"), Plain("true")>>, <<Hashed("x"), Empty, Plain("false")>>}}

MCInit ==
  /\ scene \in Scenes
  /\ ScoreInit /\ (scene # "score" => mail = [ip |-> FALSE, shape |-> "empty"])
  /\ DnsInit /\ (scene # "dns" => spf = [n \in Names |-> SpfRec(<<>>, <<>>, 4, "-all")])
  /\ StatInit
  /\ InsightInit /\ (scene # "source" => source = [pass |-> 0, fail |-> 0, host |-> "unknown"])
  /\ EnvInit /\ (scene # "env" => file = CHOOSE f \in FirstFiles : TRUE)
  /\ NotifyInit

ScoreStep == ScoreNext /\ UNCHANGED <<dnsVars, statVars, insightVars, envVars, notifyVars>>
DnsStep == DnsNext /\ UNCHANGED <<scoreVars, statVars, insightVars, envVars, notifyVars>>
ReportStep == ReportNext /\ UNCHANGED <<scoreVars, dnsVars, envVars, notifyVars>>
SourceStep == SourceNext /\ UNCHANGED <<scoreVars, dnsVars, envVars, notifyVars>>
EnvStep == EnvNext /\ UNCHANGED <<scoreVars, dnsVars, statVars, insightVars, notifyVars>>
NotifyStep == NotifyNext /\ UNCHANGED <<scoreVars, dnsVars, statVars, insightVars, envVars>>

MCNext ==
  /\ \/ scene = "score" /\ ScoreStep
     \/ scene = "dns" /\ DnsStep
     \/ scene = "reports" /\ ReportStep
     \/ scene = "source" /\ SourceStep
     \/ scene = "env" /\ EnvStep
     \/ scene = "notify" /\ NotifyStep
  /\ UNCHANGED scene

MCSpec == MCInit /\ [][MCNext]_mcVars
============================================================================
