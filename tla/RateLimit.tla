----------------------------- MODULE RateLimit -----------------------------
(***************************************************************************)
(* src/app/rate_limit.py: one token bucket per key, refilled by the time   *)
(* that has passed.  take reads the clock before it gets the lock, so the  *)
(* bucket may see times out of order.  Tokens are counted in refills: one  *)
(* unit per tick of the clock, Cost of them for a request.                 *)
(***************************************************************************)
EXTENDS Integers, FiniteSets

CONSTANTS Callers,    \* threads and handlers that call take at a time
          Capacity, Cost,
          MaxTime     \* bound: ticks of the clock

ASSUME RateAssumption == Capacity \in Nat /\ Cost \in Nat \ {0} /\ MaxTime \in Nat

VARIABLES
  clock,
  bucket,   \* tokens and last; made is when it was created, -1 before
  read,     \* what each caller has read from the clock, -1 outside take
  granted,  \* history: requests let through
  refused   \* history: the last request refused came when this was granted

rateVars == <<clock, bucket, read, granted, refused>>

RateInit ==
  /\ clock = 0
  /\ bucket = [tokens |-> 0, last |-> 0, made |-> -1]
  /\ read = [c \in Callers |-> -1]
  /\ granted = 0 /\ refused = FALSE

Tick == clock < MaxTime /\ clock' = clock + 1 /\ UNCHANGED <<bucket, read, granted, refused>>

ReadClock(c) ==
  /\ read[c] = -1
  /\ read' = [read EXCEPT ![c] = clock]
  /\ UNCHANGED <<clock, bucket, granted, refused>>

\* Mutant of Current: a new bucket is empty.
CurrentEmpty == IF bucket.made = -1 THEN [tokens |-> 0, last |-> clock, made |-> clock] ELSE bucket

\* _buckets[key]: a new bucket is full and dated now, after the clock was read.
Current == IF bucket.made = -1 THEN [tokens |-> Capacity, last |-> clock, made |-> clock] ELSE bucket

Least(a, b) == IF a <= b THEN a ELSE b

\* Mutant of Refilled: time that seems to run backwards is left out.
RefilledForward(b, now) == Least(Capacity, b.tokens + (IF now > b.last THEN now - b.last ELSE 0))

Refilled(b, now) == Least(Capacity, b.tokens + (now - b.last))

\* The section under the lock.
Take(c) ==
  /\ read[c] # -1
  /\ LET tokens == Refilled(Current, read[c])
         ok == tokens >= Cost
     IN /\ bucket' = [Current EXCEPT !.tokens = IF ok THEN tokens - Cost ELSE tokens,
                                     !.last = read[c]]
        /\ granted' = IF ok THEN granted + 1 ELSE granted
        /\ refused' = (refused \/ (~ok /\ granted = 0))
  /\ read' = [read EXCEPT ![c] = -1]
  /\ UNCHANGED clock

RateNext == Tick \/ \E c \in Callers : ReadClock(c) \/ Take(c)

RateSpec == RateInit /\ [][RateNext]_rateVars
----------------------------------------------------------------------------
\* Although the clock is read outside the lock, what is let through never
\* exceeds the capacity and the refill of the time since the bucket was made,
\* and what is left in the bucket stays in step with the time it bears.
RateBounded ==
  bucket.made # -1 =>
    /\ granted * Cost <= Capacity + (clock - bucket.made)
    /\ bucket.tokens <= Capacity - granted * Cost + (bucket.last - bucket.made)
    /\ bucket.tokens <= Capacity

\* The first request for a key is never refused when the capacity exceeds its
\* cost by the time that passes before it gets the lock.
FirstIsGranted == Capacity >= Cost + MaxTime => ~refused

\* The bucket is fair to the service and to its callers.
BucketIsFair == RateBounded /\ FirstIsGranted
============================================================================
