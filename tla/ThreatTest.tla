----------------------------- MODULE ThreatTest -----------------------------
(***************************************************************************)
(* src/app/routers/threattest.py: a visitor names a mailbox; a code is     *)
(* mailed to it; whoever enters the code gets a batch of test mails sent   *)
(* there.  POST /verify reads the row, awaits the form, and decides on     *)
(* what it has read; the batch runs in a thread after the response.        *)
(***************************************************************************)
EXTENDS Naturals, FiniteSets

CONSTANTS Tests,      \* rows of threat_tests
          Visits,     \* POST /threattest/{token}/verify requests
          Cases,      \* number of selected test cases
          MaxAttempts,
          PerDay      \* threattest_max_per_ip_per_day

ASSUME ThreatAssumption ==
  Cases \in Nat \ {0} /\ MaxAttempts \in Nat \ {0} /\ PerDay \in Nat /\ IsFiniteSet(Visits)

VARIABLES
  tt,       \* the rows: state of the test, failed attempts, whether it is over time
  visit,    \* the requests, then the background tasks they leave
  entered,  \* history: codes entered for a test, right and wrong ones
  overlap,  \* history: tests for which two forms were open at a time
  sentTo    \* history: mails sent by each visit's batch

threatVars == <<tt, visit, entered, overlap, sentTo>>

NoVisit == [phase |-> "idle", test |-> "none", attempts |-> 0, i |-> 0]

ThreatInit ==
  /\ tt = [t \in Tests |-> [row |-> "none", attempts |-> 0, late |-> FALSE]]
  /\ visit = [v \in Visits |-> NoVisit]
  /\ entered = [t \in Tests |-> [right |-> 0, wrong |-> 0]]
  /\ overlap = {}
  /\ sentTo = [v \in Visits |-> 0]

\* POST /threattest/request: no await between the count of today's rows and
\* the commit.  The code is mailed after it; if that fails nobody knows it.
Request(t) ==
  /\ tt[t].row = "none"
  /\ Cardinality({u \in Tests : tt[u].row # "none"}) < PerDay
  /\ \E row \in {"coded", "unmailed"} : tt' = [tt EXCEPT ![t].row = row]
  /\ UNCHANGED <<visit, entered, overlap, sentTo>>

\* CODE_TTL_MIN minutes are over.
Lapse(t) ==
  /\ tt[t].row # "none" /\ ~tt[t].late
  /\ tt' = [tt EXCEPT ![t].late = TRUE]
  /\ UNCHANGED <<visit, entered, overlap, sentTo>>

\* Mutant of MayTry: sent_at is not looked at.
MayTryAgain(t) == tt[t].row # "none" /\ ~tt[t].late /\ tt[t].attempts < MaxAttempts

\* The checks made before the form is awaited.
MayTry(t) == tt[t].row \in {"coded", "unmailed"} /\ ~tt[t].late /\ tt[t].attempts < MaxAttempts

Open(v, t) ==
  /\ visit[v].phase = "idle" /\ MayTry(t)
  /\ visit' = [visit EXCEPT ![v] = [NoVisit EXCEPT !.phase = "form", !.test = t,
                                                   !.attempts = tt[t].attempts]]
  /\ overlap' = overlap \cup {u \in {t} : \E w \in Visits :
                                visit[w].phase = "form" /\ visit[w].test = t}
  /\ UNCHANGED <<tt, entered, sentTo>>

\* Mutant of Wrong: the attempt is not stored.
WrongUnstored(v, t) == UNCHANGED tt

\* One more than what was read.
Wrong(v, t) == tt' = [tt EXCEPT ![t].attempts = visit[v].attempts + 1]

EnterWrong(v) ==
  /\ visit[v].phase = "form"
  /\ LET t == visit[v].test IN
     /\ Wrong(v, t)
     /\ entered' = [entered EXCEPT ![t].wrong = @ + 1]
  /\ visit' = [visit EXCEPT ![v] = NoVisit]
  /\ UNCHANGED <<overlap, sentTo>>

\* The right code, which only the mailbox has seen: verified_at and sent_at
\* are committed, then the response goes out.
EnterRight(v) ==
  /\ visit[v].phase = "form" /\ tt[visit[v].test].row # "unmailed"
  /\ LET t == visit[v].test IN
     /\ tt' = [tt EXCEPT ![t].row = "sent"]
     /\ entered' = [entered EXCEPT ![t].right = @ + 1]
  /\ visit' = [visit EXCEPT ![v].phase = "batch"]
  /\ UNCHANGED <<overlap, sentTo>>

\* Mutant of Proceed: one case too many.
ProceedOver(v, how) == IF how = "broken" THEN [visit[v] EXCEPT !.phase = "done"]
                       ELSE [visit[v] EXCEPT !.i = @ + 1,
                               !.phase = IF visit[v].i = Cases THEN "done" ELSE "batch"]

\* A case that was sent or refused is followed by the next one; a broken
\* connection ends the batch.
Proceed(v, how) == IF how = "broken" THEN [visit[v] EXCEPT !.phase = "done"]
                   ELSE [visit[v] EXCEPT !.i = @ + 1,
                           !.phase = IF visit[v].i + 1 = Cases THEN "done" ELSE "batch"]

\* Mutant of SendCase: a batch waits for the others.
SendCaseAlone(v) ==
  /\ visit[v].phase = "batch" /\ \A w \in Visits \ {v} : visit[w].phase # "batch"
  /\ visit' = [visit EXCEPT ![v].phase = "done"]
  /\ UNCHANGED <<tt, entered, overlap, sentTo>>

\* _send_batch: one mail of the batch.
SendCase(v) ==
  /\ visit[v].phase = "batch"
  /\ \E how \in {"sent", "refused", "broken"} :
       /\ visit' = [visit EXCEPT ![v] = Proceed(v, how)]
       /\ sentTo' = [sentTo EXCEPT ![v] = @ + (IF how = "sent" THEN 1 ELSE 0)]
  /\ UNCHANGED <<tt, entered, overlap>>

\* A restart loses the open requests and the batches.
ThreatRestart ==
  /\ \E v \in Visits : visit[v].phase \in {"form", "batch"}
  /\ visit' = [v \in Visits |-> IF visit[v].phase = "batch" THEN [visit[v] EXCEPT !.phase = "lost"]
                                ELSE IF visit[v].phase = "form" THEN NoVisit ELSE visit[v]]
  /\ UNCHANGED <<tt, entered, overlap, sentTo>>

ThreatNext ==
  \/ \E t \in Tests : Request(t) \/ Lapse(t)
  \/ \E v \in Visits : \/ \E t \in Tests : Open(v, t)
                       \/ EnterWrong(v) \/ EnterRight(v) \/ SendCase(v)
  \/ ThreatRestart

ThreatSpec == ThreatInit /\ [][ThreatNext]_threatVars
----------------------------------------------------------------------------
Batches(t) == {v \in Visits : visit[v].test = t /\ visit[v].phase \in {"batch", "done", "lost"}}

\* Every variable has its type.
ThreatTypeOK ==
  /\ \A t \in Tests : /\ tt[t].row \in {"none", "coded", "unmailed", "sent"}
                      /\ tt[t].attempts \in 0..MaxAttempts
  /\ \A v \in Visits : /\ visit[v].phase \in {"idle", "form", "batch", "done", "lost"}
                       /\ visit[v].i \in 0..Cases /\ sentTo[v] <= visit[v].i

\* Test mails go only to a mailbox whose code has been entered, one batch per
\* right code, and a test is sent once unless two forms were open at a time.
OnlyConfirmed ==
  \A t \in Tests :
    /\ Cardinality(Batches(t)) = entered[t].right
    /\ entered[t].right > 0 => tt[t].row = "sent"
    /\ t \notin overlap => entered[t].right <= 1

\* Failed attempts are counted and limited, unless two forms were open at a
\* time.
AttemptsCounted ==
  \A t \in Tests \ overlap : entered[t].wrong = tt[t].attempts /\ entered[t].wrong <= MaxAttempts

\* routers/threattest.py:259 calls the repetition of a confirmation idempotent:
\* one test, one batch.
OneBatch == \A t \in Tests : Cardinality(Batches(t)) <= 1

\* A confirmed test's batch comes to its end: every case is tried, the
\* connection breaks, or the process is restarted.
BatchEnds == \A v \in Visits : visit[v].phase = "batch" ~> visit[v].phase \in {"done", "lost"}

\* Nothing but the code from the mailbox starts a batch, however attempts and
\* confirmations overlap.
CodeDecides == OnlyConfirmed /\ AttemptsCounted
============================================================================
