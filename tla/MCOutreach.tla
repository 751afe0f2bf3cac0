----------------------------- MODULE MCOutreach -----------------------------
(***************************************************************************)
(* What the service has to do with the world outside, for TLC: deliveries  *)
(* to webhooks, the newsletter's links, the threat test, the weekly        *)
(* digest, the rate limiter in front of the forms, and the mail tester     *)
(* with the leads it files.  But for the last two they share no state; a   *)
(* behaviour plays one scene, the others stay as they are.                 *)
(***************************************************************************)
EXTENDS WebhookDelivery, ThreatTest, Newsletter, RateLimit, Digest, MailTester

CONSTANTS siem, first, second, test1, test2, visit1, visit2, click1, click2,
          thread1, thread2, own, other, tok1, tok2, req1, req2, poll1, poll2,
          vis1, vis2, Scenes

VARIABLE scene

outreachVars == <<whVars, threatVars, newsVars, rateVars, digestVars>>
deskVars == <<leadVars, mtVars>>
mcVars == <<outreachVars, deskVars, scene>>

MCMails == << [token |-> tok1, key |-> own, outcome |-> "unscored"],
              [token |-> tok1, key |-> own, outcome |-> "scored"],
              [token |-> tok1, key |-> "none", outcome |-> "scored"],
              [token |-> tok2, key |-> own, outcome |-> "refused"],
              [token |-> tok1, key |-> own, outcome |-> "scored"] >>

\* In the scenes about mail a visitor has been given a token; in the one about
\* the inbox so has a user who is logged in.
MCInit ==
  /\ scene \in Scenes
  /\ WhInit /\ ThreatInit /\ NewsInit /\ RateInit /\ DigestInit
  /\ LeadInit /\ MailInitWith([t \in Tokens |->
       IF scene = "inbox" \/ (scene \in {"polls", "mail"} /\ t = tok1)
         THEN [NoTest EXCEPT !.row = "waiting", !.anon = t = tok1] ELSE NoTest])

WebhookStep == WhNext /\ UNCHANGED <<threatVars, newsVars, rateVars, digestVars, deskVars>>
ThreatStep == ThreatNext /\ UNCHANGED <<whVars, newsVars, rateVars, digestVars, deskVars>>
NewsStep == NewsNext /\ UNCHANGED <<whVars, threatVars, rateVars, digestVars, deskVars>>
RateStep == RateNext /\ UNCHANGED <<whVars, threatVars, newsVars, digestVars, deskVars>>
DigestStep == DigestNext /\ UNCHANGED <<whVars, threatVars, newsVars, rateVars, deskVars>>

\* Scenes of the mail tester and of the administrators who work on leads.  The
\* one with an unlock form beside a poll has two mails only, the one with two
\* polls three; one poll reads all of them.
DeskStep ==
  /\ CASE scene = "polls" -> MailStep({}, Polls, {tok1}, {}, {}) /\ arrived' <= 3
       [] scene = "inbox" -> MailStep({}, {poll1}, Tokens, {}, {})
       [] scene = "asks" -> MailStep(Askers, {}, Tokens, {}, {})
       [] scene = "mail" -> \/ MailStep({}, {poll1}, {tok1}, {req1}, {own}) /\ arrived' <= 2
                            \/ LeadStep({"update"}, {own}, {req2}) /\ UNCHANGED mtVars
       [] scene = "desk" -> LeadStep({"snapshot", "rerun", "pipeline", "update"}, {own}, Requests)
                            /\ UNCHANGED mtVars
       [] scene = "bulk" -> \/ LeadStep({"batch"}, Keys, {req1}) /\ UNCHANGED mtVars
                            \/ LeadStep({"batch", "stream"}, Keys, {req2}) /\ UNCHANGED mtVars
  /\ UNCHANGED outreachVars

MCNext ==
  /\ \/ scene = "webhook" /\ WebhookStep
     \/ scene = "threat" /\ ThreatStep
     \/ scene = "news" /\ NewsStep
     \/ scene = "rate" /\ RateStep
     \/ scene = "digest" /\ DigestStep
     \/ scene \in {"polls", "inbox", "asks", "mail", "desk", "bulk"} /\ DeskStep
  /\ UNCHANGED scene

MCSpec == MCInit /\ [][MCNext]_mcVars

\* The scenes a poll has a part in.
Polling(p) == IF p = poll1 THEN {"polls", "inbox", "mail"} ELSE {"polls"}

\* Threads run: a delivery goes on, whatever the receiver answers, and so
\* does a batch of test mails; the scheduler starts a poll of the mail tester
\* every few seconds, and its steps end.
MCFairSpec ==
  /\ MCSpec
  /\ \A t \in Threads : WF_mcVars(scene = "webhook" /\ ThreadStep(t) /\ UNCHANGED
       <<threatVars, newsVars, rateVars, digestVars, deskVars, scene>>)
  /\ \A v \in Visits : WF_mcVars(scene = "threat" /\ SendCase(v) /\ UNCHANGED
       <<whVars, newsVars, rateVars, digestVars, deskVars, scene>>)
  /\ \A p \in Polls : WF_mcVars(scene \in Polling(p) /\ PollStep(p) /\ UNCHANGED
       <<outreachVars, scene>>)

----------------------------------------------------------------------------
\* Every variable has its type, in all scenes.
OutreachTypeOK == WhTypeOK /\ ThreatTypeOK /\ MailTypeOK

\* What has begun to be sent comes to an end: deliveries to webhooks, and the
\* batches of threat tests.
SendingEnds == DeliveriesEnd /\ BatchEnds
============================================================================
