------------------------------- MODULE Digest -------------------------------
(***************************************************************************)
(* send_weekly_digest in src/app/notifications.py, run by src/app/         *)
(* scheduler.py on Mondays: one transaction over all tenants; each gets a  *)
(* mail if its last one is at least seven whole days old.  The job reads   *)
(* the clock again for every tenant, so a tenant is served somewhat later  *)
(* than the job starts, and not equally late every week.                   *)
(***************************************************************************)
EXTENDS Integers, FiniteSets

CONSTANTS Tenants,    \* number of tenants
          WeekTicks,  \* ticks of the clock in seven days
          MaxLag,     \* bound: ticks a job may be late at a tenant
          Weeks       \* bound: weeks observed

ASSUME DigestAssumption ==
  Tenants \in Nat /\ WeekTicks \in Nat /\ MaxLag \in Nat /\ Weeks \in Nat /\ MaxLag < WeekTicks

Never == -1

VARIABLES
  week,     \* the current week
  serving,  \* next tenant of the running job, 0 when none is running
  lag,      \* how late the running job is
  last,     \* last_digest_sent_at: committed, and as the job's session has it
  mailedAt, \* history: when each tenant was last mailed
  missed,   \* history: jobs in a row that found a tenant ready and not due
  hurried   \* history: tenants mailed within a week of a mail on record

digestVars == <<week, serving, lag, last, mailedAt, missed, hurried>>

Ts == 1..Tenants

DigestInit ==
  /\ week = 1 /\ serving = 0 /\ lag = 0 /\ hurried = {}
  /\ last = [stored |-> [t \in Ts |-> Never], session |-> [t \in Ts |-> Never]]
  /\ mailedAt = [t \in Ts |-> Never]
  /\ missed = [t \in Ts |-> 0]

\* Monday, 07:00.
StartDigest ==
  /\ serving = 0 /\ week <= Weeks
  /\ serving' = 1 /\ lag' = 0
  /\ last' = [last EXCEPT !.session = last.stored]
  /\ UNCHANGED <<week, mailedAt, missed, hurried>>

Now == week * WeekTicks + lag

\* Mutant of Due: the last digest is not looked at.
DueAlways(t) == TRUE

\* (now - last).days < 7 skips the tenant.
Due(t) == last.session[t] = Never \/ Now - last.session[t] >= WeekTicks

\* A tenant that has switched the digest off, has no reports or no recipients
\* gets nothing; one whose mail cannot be sent keeps its date.
Serve ==
  /\ serving \in Ts
  /\ \/ UNCHANGED <<mailedAt, last, missed, hurried>>
     \/ /\ Due(serving)
        /\ mailedAt' = [mailedAt EXCEPT ![serving] = Now]
        /\ hurried' = hurried \cup {t \in {serving} : /\ mailedAt[t] # Never
                                                      /\ mailedAt[t] = last.stored[t]
                                                      /\ Now - mailedAt[t] < WeekTicks}
        /\ last' = [last EXCEPT !.session[serving] = Now]
        /\ missed' = [missed EXCEPT ![serving] = 0]
     \/ /\ ~Due(serving)
        /\ missed' = [missed EXCEPT ![serving] = @ + 1]
        /\ UNCHANGED <<mailedAt, last, hurried>>
  /\ serving' = serving + 1
  /\ \E l \in lag..MaxLag : lag' = l
  /\ UNCHANGED week

\* session_scope commits at the end, or rolls all dates back.
FinishDigest ==
  /\ serving = Tenants + 1
  /\ last' \in {[last EXCEPT !.stored = last.session], last}
  /\ serving' = 0 /\ week' = week + 1 /\ lag' = 0
  /\ UNCHANGED <<mailedAt, missed, hurried>>

DigestNext == StartDigest \/ Serve \/ FinishDigest

DigestSpec == DigestInit /\ [][DigestNext]_digestVars
----------------------------------------------------------------------------
\* A tenant with something to tell is passed over at most once in a row, and
\* two digests of it are a week apart unless the first one's date was rolled
\* back.
DigestSpacing == (\A t \in Ts : missed[t] <= 1) /\ hurried = {}

\* README.md:23 promises a weekly digest: a job never passes over a tenant
\* with something to tell.
DigestEveryWeek == \A t \in Ts : missed[t] = 0
============================================================================
