---------------------------- MODULE ImapPoller ----------------------------
(***************************************************************************)
(* src/app/imap_poller.py: fetching report mails and feeding Ingest.       *)
(*                                                                         *)
(* A poll runs in one database transaction that is committed when the poll *)
(* ends, while the IMAP server marks a mail as seen when it is fetched and *)
(* moves it when its attachments have been handled.  Pollers are the       *)
(* scheduler's job, which polls the enabled mailboxes one after the other, *)
(* and the threads started by "poll now" and "rescan".                     *)
(***************************************************************************)
EXTENDS Ingest

CONSTANTS Scheduler, \* the worker that runs job imap_poll (max_instances=1)
          Threads,   \* workers started by poll_in_background
          Mailboxes, \* mailbox rows
          Mails,     \* UIDs of the mails whose subject contains "Report"
          BoxOf,     \* [Mails -> Mailboxes]
          Parts,     \* [Mails -> Seq(Attachment)]
          MoveTo,    \* mailboxes with a move_to_folder
          MaxFetch,  \* MAX_FETCH_PER_POLL
          Faults     \* which faults of the environment the run includes

Pollers == Threads \cup {Scheduler}

ASSUME ImapAssumption ==
  /\ Pollers \subseteq Workers /\ Scheduler \notin Threads
  /\ Mailboxes \subseteq Sources
  /\ Mails \subseteq Nat /\ IsFiniteSet(Mails)
  /\ BoxOf \in [Mails -> Mailboxes]
  /\ Parts \in [Mails -> Seq(Attachment)]
  /\ MoveTo \subseteq Mailboxes
  /\ MaxFetch \in Nat

VARIABLES
  box,      \* the mailbox row: "enabled", "disabled" or "gone"
  arrived,  \* mails delivered to their mailbox
  seen,     \* mails the server has flagged \Seen
  moved,    \* mails in the move_to_folder
  queue,    \* mailboxes poll_all_enabled has still to poll
  inFlight, \* _in_flight
  rescan,   \* the poll of a worker is a rescan
  batch,    \* UIDs of its search it has not fetched yet
  got,      \* UIDs it has fetched
  excused   \* history: seen or moved mails whose poll did not commit them

serverVars == <<box, arrived, seen, moved>>
pollVars == <<rescan, batch, got>>

\* Mutant of InFolder: only UIDs above the highest one seen.
AboveWatermark(b) ==
  {m \in arrived : BoxOf[m] = b /\ \A n \in seen : n < m} \ moved

\* Mails still in the polled folder of mailbox b.
InFolder(b) == {m \in arrived : BoxOf[m] = b} \ moved

\* The worker leaves poll_mailbox, or a request its handler.
Leave(w) ==
  /\ Goto(w, "idle")
  /\ source' = [source EXCEPT ![w] = None]
  /\ unit' = [unit EXCEPT ![w] = None]
  /\ files' = [files EXCEPT ![w] = <<>>]
  /\ todo' = [todo EXCEPT ![w] = <<>>]
  /\ target' = [target EXCEPT ![w] = None]
  /\ handled' = [handled EXCEPT ![w] = FALSE]
  /\ broken' = [broken EXCEPT ![w] = FALSE]
  /\ Discard(w)

ForgetPoll(w) ==
  /\ rescan' = [rescan EXCEPT ![w] = FALSE]
  /\ batch' = [batch EXCEPT ![w] = {}]
  /\ got' = [got EXCEPT ![w] = {}]

\* Mutant of Release: no finally clause.
KeepInFlight(w) == UNCHANGED inFlight

\* The finally clause of poll_in_background.
Release(w) == inFlight' = IF w \in Threads THEN inFlight \ {source[w]} ELSE inFlight

\* Mails that look dealt with on the server because of the poll of w.
Touched(w) == IF rescan[w] THEN got[w] \cap moved ELSE got[w]

\* An exception leaves poll_mailbox: session_scope rolls back, and in
\* poll_all_enabled the remaining mailboxes are not polled.
Raise(w) ==
  /\ Leave(w) /\ ForgetPoll(w) /\ Release(w)
  /\ queue' = IF w = Scheduler THEN {} ELSE queue
  /\ excused' = excused \cup Touched(w)
  /\ UNCHANGED <<dbVars, serverVars, announced>>

----------------------------------------------------------------------------
BeginPoll(w, b, again) ==
  /\ pc[w] = "idle"
  /\ Goto(w, "search")
  /\ source' = [source EXCEPT ![w] = b]
  /\ rescan' = [rescan EXCEPT ![w] = again]
  /\ UNCHANGED <<dbVars, txnVars, unit, files, todo, target, handled, announced,
                 serverVars, batch, got, excused>>

\* The interval job: poll_all_enabled lists the enabled mailboxes ...
PollAllEnabled ==
  /\ pc[Scheduler] = "idle" /\ queue = {}
  /\ queue' = {b \in Mailboxes : box[b] = "enabled"}
  /\ queue' # {}
  /\ UNCHANGED <<dbVars, txnVars, pc, ingestVars, announced, serverVars, pollVars,
                 inFlight, excused>>

\* ... and polls each of them, unless it has been disabled since.
PollNext(b) ==
  /\ b \in queue /\ queue' = queue \ {b}
  /\ IF box[b] = "enabled"
     THEN BeginPoll(Scheduler, b, FALSE)
     ELSE /\ pc[Scheduler] = "idle"
          /\ UNCHANGED <<dbVars, txnVars, pc, ingestVars, announced, serverVars,
                         pollVars, excused>>
  /\ UNCHANGED inFlight

\* "Jetzt pruefen" and "rescan": poll_in_background.
PollInBackground(t, b, again) ==
  /\ b \notin inFlight
  /\ box[b] = "enabled"
  /\ inFlight' = inFlight \cup {b}
  /\ BeginPoll(t, b, again)
  /\ UNCHANGED queue

\* Login and IMAP SEARCH: unseen mails, or all of them in a rescan.
Search(w) ==
  /\ pc[w] = "search"
  /\ \/ /\ batch' = [batch EXCEPT ![w] =
              InFolder(source[w]) \ (IF rescan[w] THEN {} ELSE seen)]
        /\ Goto(w, "fetch")
     \/ /\ "login" \in Faults
        /\ Goto(w, "end") /\ UNCHANGED batch
  /\ UNCHANGED <<dbVars, txnVars, ingestVars, announced, serverVars, rescan, got,
                 queue, inFlight, excused>>

\* Mutant of FlagSeen: all hits of the search are flagged together.
FlagBatch(w, m) == seen' = IF rescan[w] THEN seen ELSE seen \cup batch[w]

\* The server flags m when it hands it out (BODY[] without PEEK).
FlagSeen(w, m) == seen' = IF rescan[w] THEN seen ELSE seen \cup {m}

\* One turn of the fetch loop.  The mail that exceeds MAX_FETCH_PER_POLL
\* has been fetched when the loop looks at the counter.
Fetch(w, m) ==
  /\ pc[w] = "fetch" /\ m \in batch[w]
  /\ \A n \in batch[w] : m <= n
  /\ m \notin moved
  /\ batch' = [batch EXCEPT ![w] = @ \ {m}]
  /\ got' = [got EXCEPT ![w] = @ \cup {m}]
  /\ FlagSeen(w, m)
  /\ IF Cardinality(got[w]) >= MaxFetch
     THEN /\ Goto(w, "end")
          /\ excused' = IF rescan[w] THEN excused ELSE excused \cup {m}
          /\ UNCHANGED <<unit, files, handled>>
     ELSE /\ unit' = [unit EXCEPT ![w] = m]
          /\ files' = [files EXCEPT ![w] = Parts[m]]
          /\ handled' = [handled EXCEPT ![w] = FALSE]
          /\ Goto(w, "files")
          /\ UNCHANGED excused
  /\ UNCHANGED <<dbVars, txnVars, source, todo, target, announced,
                 box, arrived, moved, rescan, queue, inFlight>>

\* A UID another poll has moved away yields no message.
FetchNothing(w, m) ==
  /\ pc[w] = "fetch" /\ m \in batch[w] /\ m \in moved
  /\ batch' = [batch EXCEPT ![w] = @ \ {m}]
  /\ UNCHANGED <<dbVars, txnVars, pc, ingestVars, announced, serverVars, rescan, got,
                 queue, inFlight, excused>>

\* The server drops the connection; a mail may have been flagged already.
FetchAborts(w, m) ==
  /\ "abort" \in Faults
  /\ pc[w] = "fetch" /\ m \in batch[w] /\ m \notin moved
  /\ \/ UNCHANGED <<seen, excused>>
     \/ FlagSeen(w, m) /\ excused' = IF rescan[w] THEN excused ELSE excused \cup {m}
  /\ Goto(w, "end")
  /\ UNCHANGED <<dbVars, txnVars, ingestVars, announced, box, arrived, moved, pollVars,
                 queue, inFlight>>

\* Mutant of LoopEnds: search until nothing new arrives, without a commit.
SearchAgain(w) ==
  /\ pc[w] = "fetch" /\ batch[w] = {}
  /\ Goto(w, "search")
  /\ UNCHANGED <<dbVars, txnVars, ingestVars, announced, serverVars, pollVars,
                 queue, inFlight, excused>>

LoopEnds(w) ==
  /\ pc[w] = "fetch" /\ batch[w] = {}
  /\ Goto(w, "end")
  /\ UNCHANGED <<dbVars, txnVars, ingestVars, announced, serverVars, pollVars,
                 queue, inFlight, excused>>

----------------------------------------------------------------------------
\* Mutant of PollFlushFails: the handler rolls back and goes on.
PollRollsBack(w) ==
  /\ FlushRefused(w)
  /\ Discard(w)
  /\ todo' = [todo EXCEPT ![w] = <<>>]
  /\ target' = [target EXCEPT ![w] = None]
  /\ Goto(w, "files")
  /\ UNCHANGED <<dbVars, broken, source, unit, files, handled, announced, serverVars,
                 pollVars, queue, inFlight, excused>>

\* A flush failed: "except Exception" counts an error and goes on with the
\* next attachment, in the same session.
PollFlushFails(w) ==
  /\ FlushRefused(w)
  /\ Discard(w)
  /\ broken' = [broken EXCEPT ![w] = TRUE]
  /\ todo' = [todo EXCEPT ![w] = <<>>]
  /\ target' = [target EXCEPT ![w] = None]
  /\ Goto(w, "files")
  /\ UNCHANGED <<dbVars, source, unit, files, handled, announced, serverVars, pollVars,
                 queue, inFlight, excused>>

\* Every later attachment fails at once, with PendingRollbackError; and so
\* does one on which the parser crashes.
SkipAttachment(w) ==
  /\ pc[w] = "files" /\ files[w] # <<>> /\ (broken[w] \/ ParseCrashes(w))
  /\ files' = [files EXCEPT ![w] = Tail(@)]
  /\ UNCHANGED <<dbVars, txnVars, pc, source, unit, todo, target, handled, announced,
                 serverVars, pollVars, queue, inFlight, excused>>

\* All attachments looked at: the mail is moved when one of them was handled.
\* Reading mb.move_to_folder raises if the session has broken since.
FinishMail(w) ==
  /\ pc[w] = "files" /\ files[w] = <<>>
  /\ IF handled[w] /\ broken[w]
     THEN Raise(w)
     ELSE /\ \/ /\ handled[w] /\ source[w] \in MoveTo
                /\ moved' = moved \cup {unit[w]}
             \/ /\ handled[w] /\ source[w] \in MoveTo => "move" \in Faults
                /\ UNCHANGED moved
          /\ unit' = [unit EXCEPT ![w] = None]
          /\ handled' = [handled EXCEPT ![w] = FALSE]
          /\ Goto(w, "fetch")
          /\ UNCHANGED <<dbVars, txnVars, source, files, todo, target, announced,
                         box, arrived, seen, pollVars, queue, inFlight, excused>>

\* The commit of session_scope; it raises when the session is broken, or
\* when the UPDATE of last_polled_at finds no mailbox row any more.
EndPoll(w) ==
  /\ pc[w] = "end"
  /\ IF broken[w] \/ box[source[w]] = "gone"
     THEN Raise(w)
     ELSE /\ Publish(w) /\ Leave(w) /\ ForgetPoll(w) /\ Release(w)
          /\ UNCHANGED <<announced, serverVars, queue, excused>>

IngestOfPoll(w) ==
  /\ IngestStep(w)
  /\ UNCHANGED <<serverVars, pollVars, queue, inFlight, excused>>

\* What the thread of poller w does next.
PollStep(w) ==
  \/ Search(w) \/ LoopEnds(w)
  \/ \E m \in Mails : Fetch(w, m) \/ FetchNothing(w, m) \/ FetchAborts(w, m)
  \/ IngestOfPoll(w) \/ PollFlushFails(w) \/ SkipAttachment(w)
  \/ FinishMail(w) \/ EndPoll(w)
============================================================================
