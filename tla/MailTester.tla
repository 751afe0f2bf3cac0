----------------------------- MODULE MailTester -----------------------------
(***************************************************************************)
(* src/app/routers/mail_tester.py and src/app/mt_worker.py: a visitor gets *)
(* a token and sends a mail to it; a poll of the inbox scores the mail,    *)
(* flags it, files the sender as a lead and tells the operator; the        *)
(* visitor may leave an address to see the details, which files a lead as  *)
(* well.  The scheduled poll and one an administrator starts may overlap.  *)
(*                                                                         *)
(* Scores are abstracted to the grade they are filed under.                *)
(***************************************************************************)
EXTENDS Leads

CONSTANTS Tokens,
          Mails,        \* sequence of [token, key, outcome]: the mails of the inbox by
                        \* UID; token "none" is a mail to no test address, key "none" one
                        \* without a sender; the scorer may raise on a mail, or PostgreSQL
                        \* refuse its result
          Polls, Askers,
          DayLimit,     \* mailtest_max_per_ip_per_day
          MaxFaults     \* bound: failed flags, dropped connections and crashes

ASSUME MailTesterAssumption == DayLimit \in Nat /\ MaxFaults \in Nat /\ "none" \notin Tokens
ASSUME MailsAssumption ==
  Mails \in Seq([token : Tokens \cup {"none"}, key : Keys \cup {"none"},
                 outcome : {"scored", "unscored", "refused"}])

Uids == DOMAIN Mails

VARIABLES
  test,     \* rows of mail_tests: free, waiting, received or gone
  arrived,  \* mails that have arrived: those with a UID up to it
  flagged,  \* mails flagged as seen
  poll,     \* the polls
  ask,      \* visitors between the count of today's tests and the INSERT
  mtHist    \* history: tokens whose poll died before the lead was filed, faults
            \* spent, and whether two visitors asked at a time

mtVars == <<test, arrived, flagged, poll, ask, mtHist>>

NoTest == [row |-> "free", mail |-> 0, aged |-> FALSE, anon |-> TRUE]

\* loaded: the row the session holds from its last query; uid: the mail at
\* hand; scored: it has just been scored.
NoPoll == [phase |-> "idle", uids |-> {}, uid |-> 0, token |-> "none",
           loaded |-> "free", scored |-> FALSE, old |-> NoRow]

MailInitWith(tests) ==
  /\ test = tests
  /\ arrived = 0 /\ flagged = {}
  /\ poll = [p \in Polls |-> NoPoll]
  /\ ask = [a \in Askers |-> "none"]
  /\ mtHist = [lost |-> {}, faults |-> 0, together |-> FALSE]

MailInit == MailInitWith([t \in Tokens |-> NoTest])

Exists(t) == test[t].row \in {"waiting", "received"}
Today == {t \in Tokens : Exists(t) /\ ~test[t].aged}

Fault(d) == mtHist.faults < MaxFaults /\ mtHist' = [d EXCEPT !.faults = @ + 1]
----------------------------------------------------------------------------
\* Mutant of MayAsk: one test too many.
MayAskOff(user) == user \/ Cardinality(Today) <= DayLimit

\* The daily limit counts the tests of the address, whoever asked for them.
MayAsk(user) == user \/ Cardinality(Today) < DayLimit

\* GET /mailtest and POST /api/mailtest/generate: count, then insert.
Ask(a, user) ==
  /\ ask[a] = "none" /\ MayAsk(user)
  /\ ask' = [ask EXCEPT ![a] = IF user THEN "user" ELSE "anon"]
  /\ mtHist' = [mtHist EXCEPT !.together = @ \/ \E b \in Askers : ask[b] # "none"]
  /\ UNCHANGED <<test, arrived, flagged, poll, leadVars>>

Generate(a, t) ==
  /\ ask[a] # "none" /\ test[t].row = "free"
  /\ test' = [test EXCEPT ![t] = [NoTest EXCEPT !.row = "waiting", !.anon = ask[a] = "anon"]]
  /\ ask' = [ask EXCEPT ![a] = "none"]
  /\ UNCHANGED <<arrived, flagged, poll, mtHist, leadVars>>

\* The next mail arrives; nobody writes to a token before it is given out.
Arrive ==
  /\ arrived < Len(Mails)
  /\ LET t == Mails[arrived + 1].token IN t # "none" => test[t].row # "free"
  /\ arrived' = arrived + 1
  /\ UNCHANGED <<test, flagged, poll, ask, mtHist, leadVars>>

\* A test becomes older than a day.
Age(t) ==
  /\ Exists(t) /\ ~test[t].aged
  /\ test' = [test EXCEPT ![t].aged = TRUE]
  /\ UNCHANGED <<arrived, flagged, poll, ask, mtHist, leadVars>>

----------------------------------------------------------------------------
Become(p, q) == poll' = [poll EXCEPT ![p] = q]

\* poll_mailtest_inbox logs in and searches the unread mails.
StartPoll(p) ==
  /\ poll[p].phase = "idle"
  /\ 1..arrived \ flagged # {} \/ \E t \in Tokens : test[t].aged /\ Exists(t)
  /\ Become(p, [NoPoll EXCEPT !.phase = "next", !.uids = 1..arrived \ flagged])
  /\ UNCHANGED <<test, arrived, flagged, ask, mtHist, leadVars>>

\* The row of the token: none if it has been deleted, the session's own copy if
\* its last query found it as well.
RowOf(p, t) == IF ~Exists(t) THEN "free"
               ELSE IF poll[p].token = t /\ poll[p].loaded # "free" THEN poll[p].loaded
               ELSE test[t].row

\* Mutants of Verdict: a scored test is scored again; a mail that cannot be
\* scored ends the poll.
VerdictAgain(row, m) == IF row = "free" THEN "flag"
                        ELSE IF Mails[m].outcome = "unscored" THEN "next" ELSE "store"
VerdictStops(row, m) == IF row # "waiting" THEN "flag"
                        ELSE IF Mails[m].outcome = "unscored" THEN "idle" ELSE "store"

\* Unknown tokens and tests that have their result are flagged and skipped; a
\* mail on which the scorer raises is passed over.
Verdict(row, m) == IF row # "waiting" THEN "flag"
                   ELSE IF Mails[m].outcome = "unscored" THEN "next" ELSE "store"

NextMail(p) ==
  /\ poll[p].phase = "next" /\ poll[p].uids # {}
  /\ LET m == CHOOSE u \in poll[p].uids : \A v \in poll[p].uids : u <= v
         t == Mails[m].token
         q == [poll[p] EXCEPT !.uids = @ \ {m}, !.uid = m, !.scored = FALSE]
     IN Become(p, IF t = "none" THEN [q EXCEPT !.phase = "flag"]
                  ELSE [q EXCEPT !.token = t, !.loaded = RowOf(p, t),
                                 !.phase = Verdict(RowOf(p, t), m)])
  /\ UNCHANGED <<test, arrived, flagged, ask, mtHist, leadVars>>

\* Mutant of StoreScore: a test that has been deleted is inserted again.
StoreScoreAnyway(p) ==
  /\ poll[p].phase = "store"
  /\ test' = [test EXCEPT ![poll[p].token].row = "received", ![poll[p].token].mail = poll[p].uid]
  /\ Become(p, [poll[p] EXCEPT !.phase = "flag", !.scored = TRUE, !.loaded = "received"])
  /\ UNCHANGED <<arrived, flagged, ask, mtHist, leadVars>>

\* The result is committed; a test that has been deleted ends the poll, and so
\* does a mail that cannot be written as a string or whose result is refused.
StoreScore(p) ==
  /\ poll[p].phase = "store"
  /\ LET t == poll[p].token IN
     IF ~Exists(t) \/ Mails[poll[p].uid].outcome = "refused" THEN Become(p, NoPoll) /\ UNCHANGED test
     ELSE
       /\ test' = [test EXCEPT ![t].row = "received", ![t].mail = poll[p].uid]
       /\ Become(p, [poll[p] EXCEPT !.phase = "flag", !.scored = TRUE, !.loaded = "received"])
  /\ UNCHANGED <<arrived, flagged, ask, mtHist, leadVars>>

\* Mutant of AfterFlag: only a mail that could be flagged is filed.
AfterFlagStrict(q, done) == IF done /\ q.scored /\ Mails[q.uid].key # "none"
                            THEN "find" ELSE "next"

\* A mail just scored is filed as a lead, unless it has no sender.
AfterFlag(q, done) == IF q.scored /\ Mails[q.uid].key # "none" THEN "find" ELSE "next"

\* The mail is flagged; a failure is swallowed.
Flag(p) ==
  /\ poll[p].phase = "flag"
  /\ \/ /\ flagged' = flagged \cup {poll[p].uid}
        /\ Become(p, [poll[p] EXCEPT !.phase = AfterFlag(poll[p], TRUE)]) /\ UNCHANGED mtHist
     \/ /\ Fault(mtHist) /\ UNCHANGED flagged
        /\ Become(p, [poll[p] EXCEPT !.phase = AfterFlag(poll[p], FALSE)])
  /\ UNCHANGED <<test, arrived, ask, leadVars>>

\* _mirror_mailtest_to_lead: look the sender up, then insert or update; an
\* exception is rolled back and swallowed.
MirrorFind(p) ==
  /\ poll[p].phase = "find"
  /\ Become(p, [poll[p] EXCEPT !.phase = "mirror", !.old = lead[Mails[poll[p].uid].key]])
  /\ UNCHANGED <<test, arrived, flagged, ask, mtHist, leadVars>>

MirrorSave(p) ==
  /\ poll[p].phase = "mirror"
  /\ \E g \in Grades :
     LET k == Mails[poll[p].uid].key
         new == Upsert(k, poll[p].old, g)
         ok == ~Fails(k, poll[p].old, new)
     IN /\ lead[k].id < MaxRows
        /\ lead' = [lead EXCEPT ![k] = IF ok THEN Saved(k, poll[p].old, new) ELSE @]
        /\ raced' = raced \cup Races(k)
        /\ Become(p, [poll[p] EXCEPT !.phase = "next", !.scored = FALSE, !.old = NoRow,
                                     !.loaded = IF ok THEN @ ELSE "free"])
  /\ UNCHANGED <<test, arrived, flagged, ask, mtHist, req, incs, edits, moved>>

\* After the last mail, tests older than a day are deleted.
Expire(p) ==
  /\ poll[p].phase = "next" /\ poll[p].uids = {}
  /\ test' = [t \in Tokens |-> IF test[t].aged /\ Exists(t)
                               THEN [NoTest EXCEPT !.row = "gone", !.mail = test[t].mail]
                               ELSE test[t]]
  /\ Become(p, NoPoll)
  /\ UNCHANGED <<arrived, flagged, ask, mtHist, leadVars>>
----------------------------------------------------------------------------
\* POST /mailtest/{token}/unlock reads the test and awaits the form.
OpenUnlock(r, t, k) ==
  /\ req[r] = NoReq /\ LoopFree /\ Exists(t)
  /\ req' = [req EXCEPT ![r] = [NoReq EXCEPT !.kind = "unlock", !.phase = "form", !.ks = <<k>>,
               !.token = IF test[t].row = "received" THEN t ELSE "none"]]
  /\ UNCHANGED <<lead, incs, edits, moved, raced, mtVars>>

\* The address is stored in the test (which may be gone: error 500); a lead
\* follows if the test had a sender when it was read.
Unlock(r) ==
  /\ req[r].kind = "unlock" /\ req[r].phase = "form" /\ LoopFree
  /\ LET t == req[r].token
     IN req' = [req EXCEPT ![r] = IF t # "none" /\ Exists(t) THEN [@ EXCEPT !.phase = "find"]
                                  ELSE NoReq]
  /\ UNCHANGED <<lead, incs, edits, moved, raced, mtVars>>
----------------------------------------------------------------------------
Working(p) == poll[p].phase \in {"flag", "find", "mirror"} /\ poll[p].scored

\* The connection breaks: the poll ends, the next one starts anew.
Drop(p) ==
  /\ poll[p].phase = "next" /\ poll[p].uids # {} /\ Fault(mtHist)
  /\ Become(p, NoPoll)
  /\ UNCHANGED <<test, arrived, flagged, ask, leadVars>>

\* The process restarts.
Crash ==
  /\ Fault([mtHist EXCEPT !.lost = @ \cup {poll[p].token : p \in {x \in Polls : Working(x)}}])
  /\ poll' = [p \in Polls |-> NoPoll]
  /\ ask' = [a \in Askers |-> "none"]
  /\ req' = [r \in Requests |-> NoReq]
  /\ UNCHANGED <<test, arrived, flagged, lead, incs, edits, moved, raced>>

\* One step of the polls, of some visitors, and of the requests that unlock.
MailStep(visitors, polls, tokens, unlocking, keys) ==
  \/ \E p \in polls : \/ StartPoll(p) \/ NextMail(p) \/ StoreScore(p) \/ Flag(p)
                      \/ MirrorFind(p) \/ MirrorSave(p) \/ Expire(p) \/ Drop(p)
  \/ \E a \in visitors : \/ \E user \in BOOLEAN : Ask(a, user)
                         \/ \E t \in tokens : Generate(a, t)
  \/ \E t \in tokens : Age(t)
  \/ \E r \in unlocking : \/ \E t \in tokens, k \in keys : OpenUnlock(r, t, k)
                          \/ Unlock(r)
  \/ polls # {} /\ (Arrive \/ Crash)

PollStep(p) == \/ StartPoll(p) \/ NextMail(p) \/ StoreScore(p) \/ Flag(p)
               \/ MirrorFind(p) \/ MirrorSave(p) \/ Expire(p)

\* The mail tester beside the administrators who work on the leads.
MailNext ==
  \/ MailStep(Askers, Polls, Tokens, Requests, Keys)
  \/ /\ LeadStep({"snapshot", "batch", "stream", "rerun", "pipeline", "update"}, Keys, Requests)
     /\ UNCHANGED mtVars

MailSpec == LeadInit /\ MailInit /\ [][MailNext]_<<leadVars, mtVars>>
----------------------------------------------------------------------------
\* Every variable has its type, and only a sender is mirrored.
MailTypeOK ==
  /\ LeadTypeOK
  /\ \A t \in Tokens : /\ test[t].row \in {"free", "waiting", "received", "gone"}
                       /\ test[t].mail \in 0..arrived
  /\ arrived \in 0..Len(Mails) /\ flagged \subseteq 1..arrived
  /\ \A p \in Polls : /\ poll[p].uids \subseteq 1..arrived
                      /\ poll[p].phase \in {"idle", "next", "store", "flag", "find", "mirror"}
                      /\ poll[p].phase \in {"find", "mirror"} => Mails[poll[p].uid].key \in Keys
  /\ mtHist.lost \subseteq Tokens /\ mtHist.faults \in 0..MaxFaults

\* Whoever has had a mail scored has been filed as a lead, unless the process
\* died in between: also when two polls, a form and a deletion by the operator
\* meet, when the INSERT hits the unique key and when the mail cannot be flagged.
ScoredIsFiled ==
  \A t \in Tokens \ mtHist.lost :
    /\ test[t].mail # 0 /\ Mails[test[t].mail].key # "none"
    /\ ~\E p \in Polls : Working(p) /\ poll[p].token = t
    => lead[Mails[test[t].mail].key].id > 0

\* A test shows the result of the first mail that could be scored, however
\* many follow and however many polls overlap.
FirstMailDecides ==
  \A t \in Tokens : test[t].mail # 0 =>
    \A m \in 1..test[t].mail - 1 : Mails[m].token = t => Mails[m].outcome # "scored"

\* The mail tester implements the life of a test: no overlap of polls, crash,
\* lost flag or deletion lets a second mail change a result, brings an address
\* back or gives it out twice.
Life == INSTANCE MailTestLife
          WITH life <- [t \in Tokens |-> [row |-> test[t].row, mail |-> test[t].mail]]
ImplementsLife == Life!LifeSpec

\* Visitors who are not logged in stay within the daily limit, as long as no
\* two of them ask at the same moment.
DailyLimit ==
  ~mtHist.together /\ (\A t \in Today : test[t].anon) => Cardinality(Today) <= DayLimit

\* A mail whose result is refused ends every poll that comes to it, and stays
\* unread as long as its test waits.
Blocks(n) == Mails[n].outcome = "refused" /\ n \notin flagged

\* A mail does not stay unread: it is flagged in the end, also behind a mail on
\* which the scorer raises, that is never flagged, unless it is such a mail
\* itself, or has one before it whose result is refused.
MailsAreRead ==
  \A m \in Uids :
    arrived >= m /\ (\A n \in 1..m : ~Blocks(n)) ~> m \in flagged \/ Mails[m].outcome = "unscored"

\* templates/mail_test_landing.html:298: after a day the mails are deleted.
OldTestsGo == \A t \in Tokens : Exists(t) /\ test[t].aged ~> ~Exists(t)

\* What a visitor of the tester and its operator rely on.
TestsAreKept == ScoredIsFiled /\ FirstMailDecides /\ DailyLimit
=============================================================================
