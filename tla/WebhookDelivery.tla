-------------------------- MODULE WebhookDelivery --------------------------
(***************************************************************************)
(* src/app/webhooks.py: an event goes to every enabled webhook of the      *)
(* tenant, each in a daemon thread that posts it and tries again after a   *)
(* failure.  The threads live in memory only, share the row of the webhook *)
(* with each other and with the administrator, and hold a database session *)
(* open while they wait for the receiver.                                  *)
(*                                                                         *)
(* SQLAlchemy writes only the columns whose value differs from the one it  *)
(* has loaded, so two sessions that update one row mix their columns.      *)
(***************************************************************************)
EXTENDS Naturals, Sequences, FiniteSets

CONSTANTS Hooks,
          Emits,     \* events, one emit call each
          Retries,   \* length of RETRY_DELAYS_S
          Faults     \* which faults of the environment the run includes

ASSUME WebhookAssumption ==
  Retries \in Nat /\ IsFiniteSet(Hooks) /\ IsFiniteSet(Emits)

Threads == Hooks \X Emits

\* Values of last_status and last_error: an HTTP status of 2xx, one of 400
\* or above, or no answer (0); "none" is NULL.
Statuses == {"none", "ok", "failed", "noanswer"}
Errors == {"none", "failed", "noanswer"}

VARIABLES
  hook,     \* the rows of table webhooks
  emitted,  \* events emit has been called for
  thread,   \* the delivery threads
  posts,    \* POSTs that have reached the receiver
  outcomes  \* history: how the attempts of each thread to post have ended

whVars == <<hook, emitted, thread, posts, outcomes>>

NoThread == [stage |-> "none", retry |-> 0, status |-> "none", error |-> "none"]

WhInit ==
  /\ hook = [h \in Hooks |-> [enabled |-> TRUE, gone |-> FALSE,
                              status |-> "none", error |-> "none"]]
  /\ emitted = {}
  /\ thread = [t \in Threads |-> NoThread]
  /\ posts = [t \in Threads |-> 0]
  /\ outcomes = [t \in Threads |-> <<>>]

Live(h) == hook[h].enabled /\ ~hook[h].gone

\* The webhooks that emit selects; column events is not looked at.
Receivers(e) == {h \in Hooks : Live(h)}

Emit(e) ==
  /\ e \notin emitted
  /\ emitted' = emitted \cup {e}
  /\ thread' = [t \in Threads |-> IF t[2] = e /\ t[1] \in Receivers(e)
                                  THEN [NoThread EXCEPT !.stage = "attempt"]
                                  ELSE thread[t]]
  /\ UNCHANGED <<hook, posts, outcomes>>

\* Mutant of Attempt: a paused webhook is waited for.
AttemptWaits(t) ==
  /\ thread[t].stage = "attempt" /\ Live(t[1])
  /\ thread' = [thread EXCEPT ![t] = [@ EXCEPT !.stage = "post",
                  !.status = hook[t[1]].status, !.error = hook[t[1]].error]]
  /\ UNCHANGED <<hook, emitted, posts, outcomes>>

\* _attempt loads the row; a webhook that is paused or deleted ends the
\* delivery.
Attempt(t) ==
  /\ thread[t].stage = "attempt"
  /\ thread' = [thread EXCEPT ![t] =
       IF Live(t[1]) THEN [@ EXCEPT !.stage = "post", !.status = hook[t[1]].status,
                                    !.error = hook[t[1]].error]
                     ELSE [@ EXCEPT !.stage = "stopped"]]
  /\ UNCHANGED <<hook, emitted, posts, outcomes>>

\* Mutant of AfterFailure: one retry too many.
AfterFailureTooLong(t) == IF thread[t].retry <= Retries THEN "wait" ELSE "gaveup"

\* What follows a failed attempt.
AfterFailure(t) == IF thread[t].retry < Retries THEN "wait" ELSE "gaveup"

\* Mutants of Save: the columns are swapped; the error is not written.
SaveSwapped(t, status, error) ==
  hook' = [hook EXCEPT ![t[1]].status = error, ![t[1]].error = status]
SaveStatus(t, status, error) == hook' = [hook EXCEPT ![t[1]].status = status]

\* The commit writes what differs from the values loaded.
Save(t, status, error) ==
  hook' = [hook EXCEPT
    ![t[1]].status = IF status # thread[t].status THEN status ELSE @,
    ![t[1]].error = IF error # thread[t].error THEN error ELSE @]

\* The attempt has ended.  When the row has been deleted meanwhile the
\* commit raises and the thread ends.
Finish(t, status, error, stage) ==
  /\ outcomes' = [outcomes EXCEPT ![t] = Append(@, status)]
  /\ IF hook[t[1]].gone
     THEN thread' = [thread EXCEPT ![t].stage = "died"] /\ UNCHANGED hook
     ELSE Save(t, status, error) /\ thread' = [thread EXCEPT ![t].stage = stage]

\* The POST and its answer: a status, or none within ten seconds, in which
\* case the receiver may have got it.
Post(t) ==
  /\ thread[t].stage = "post"
  /\ \/ /\ posts' = [posts EXCEPT ![t] = @ + 1]
        /\ Finish(t, "ok", "none", "delivered")
     \/ /\ "refused" \in Faults
        /\ posts' = [posts EXCEPT ![t] = @ + 1]
        /\ Finish(t, "failed", "failed", AfterFailure(t))
     \/ /\ "timeout" \in Faults
        /\ posts' \in {posts, [posts EXCEPT ![t] = @ + 1]}
        /\ Finish(t, "noanswer", "noanswer", AfterFailure(t))
  /\ UNCHANGED emitted

\* The next of RETRY_DELAYS_S is over.
Retry(t) ==
  /\ thread[t].stage = "wait"
  /\ thread' = [thread EXCEPT ![t].stage = "attempt", ![t].retry = @ + 1]
  /\ UNCHANGED <<hook, emitted, posts, outcomes>>

----------------------------------------------------------------------------
Toggle(h) ==
  /\ ~hook[h].gone
  /\ hook' = [hook EXCEPT ![h].enabled = ~@]
  /\ UNCHANGED <<emitted, thread, posts, outcomes>>

Delete(h) ==
  /\ ~hook[h].gone
  /\ hook' = [hook EXCEPT ![h].gone = TRUE]
  /\ UNCHANGED <<emitted, thread, posts, outcomes>>

\* A restart ends all threads; nothing remembers them.
RestartHooks ==
  /\ "restart" \in Faults
  /\ thread' = [t \in Threads |-> IF thread[t].stage \in {"attempt", "post", "wait"}
                                  THEN [thread[t] EXCEPT !.stage = "died"] ELSE thread[t]]
  /\ thread' # thread
  /\ UNCHANGED <<hook, emitted, posts, outcomes>>

ThreadStep(t) == Attempt(t) \/ Post(t) \/ Retry(t)

WhNext ==
  \/ \E e \in Emits : Emit(e)
  \/ \E t \in Threads : ThreadStep(t)
  \/ \E h \in Hooks : Toggle(h) \/ Delete(h)
  \/ RestartHooks

WhSpec == WhInit /\ [][WhNext]_whVars

\* The threads run and their waits end; the receiver may fail as it likes.
WhFairSpec == WhSpec /\ \A t \in Threads : WF_whVars(ThreadStep(t))

----------------------------------------------------------------------------
ThreadStages == {"none", "attempt", "post", "wait", "delivered", "stopped", "gaveup", "died"}

\* Every variable has its type.
WhTypeOK ==
  /\ hook \in [Hooks -> [enabled : BOOLEAN, gone : BOOLEAN,
                         status : Statuses, error : Errors]]
  /\ emitted \subseteq Emits
  /\ thread \in [Threads -> [stage : ThreadStages, retry : Nat,
                             status : Statuses, error : Errors]]
  /\ posts \in [Threads -> Nat]
  /\ outcomes \in [Threads -> Seq(Statuses \ {"none"})]

\* A receiver gets an event once and at most Retries more times, and again
\* only when the answer before was not a success.
BoundedPosts ==
  \A t \in Threads :
    /\ posts[t] <= Len(outcomes[t]) /\ Len(outcomes[t]) <= Retries + 1
    /\ \A k \in DOMAIN outcomes[t] : outcomes[t][k] = "ok" => k = Len(outcomes[t])

Outcomes(h) == UNION {{outcomes[<<h, e>>][k] : k \in DOMAIN outcomes[<<h, e>>]} : e \in Emits}

\* Although concurrent deliveries mix their columns, a webhook whose attempts
\* all failed shows an error and one whose attempts all succeeded shows none.
UnanimousIsShown ==
  \A h \in Hooks : ~hook[h].gone =>
    /\ Outcomes(h) # {} /\ "ok" \notin Outcomes(h) =>
         hook[h].error # "none" /\ hook[h].status \notin {"none", "ok"}
    /\ Outcomes(h) = {"ok"} => hook[h].error = "none" /\ hook[h].status = "ok"

\* webhooks.py:6: a delivery that gives up leaves its error in the row of the
\* webhook.  It holds for one delivery at a time; a second one can make the
\* failed commit skip the column.
GaveUpIsRecorded ==
  [][\A t \in Threads :
       thread[t].stage # "gaveup" /\ thread'[t].stage = "gaveup" =>
         hook'[t[1]].error # "none"]_whVars

\* Every delivery comes to an end, whatever the receiver and the
\* administrator do.
DeliveriesEnd ==
  \A t \in Threads : thread[t].stage # "none" ~>
    thread[t].stage \in {"delivered", "stopped", "gaveup", "died"}

\* A receiver is not called too often, and the row shows what its attempts
\* agree on.
PostsAreShown == BoundedPosts /\ UnanimousIsShown
============================================================================
