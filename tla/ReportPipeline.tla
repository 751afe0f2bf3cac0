-------------------------- MODULE ReportPipeline --------------------------
(***************************************************************************)
(* Everything that writes reports, together: the mailbox pollers, the      *)
(* upload form (src/app/routers/upload.py), the upload API                 *)
(* (src/app/routers/api.py), administrators who add and delete domains and *)
(* mailboxes meanwhile, and restarts of the process.                       *)
(*                                                                         *)
(* Upload handlers are coroutines: they share one event loop, call the     *)
(* database synchronously, and give the loop away only at "await f.read()",*)
(* and there only when the file was large enough to be spooled to disk.    *)
(***************************************************************************)
EXTENDS ImapPoller

CONSTANTS Requests,   \* upload requests
          Uploaded,   \* [Requests -> Seq(Attachment)]: the files of a request
          ViaApi,     \* requests to /api/v1/reports; the others use the form
          Spooled,    \* requests whose files are spooled to disk
          Registered, \* the domains when the process first starts
          Managed     \* the domains an administrator adds or deletes meanwhile

ASSUME PipelineAssumption ==
  /\ Requests \subseteq Sources /\ Requests \subseteq Workers
  /\ Requests \cap Pollers = {} /\ Workers = Requests \cup Pollers
  /\ Requests \cap Mailboxes = {} /\ Sources = Requests \cup Mailboxes
  /\ Uploaded \in [Requests -> Seq(Attachment)]
  /\ ViaApi \subseteq Requests /\ Spooled \subseteq Requests
  /\ Registered \cup Managed \subseteq {d \in Domain : d.name # NoName}
  /\ None \notin Sources \cup Mails \cup Domain

VARIABLE loop   \* the request whose handler has the event loop

vars == <<dbVars, txnVars, pc, ingestVars, announced, serverVars, pollVars,
          queue, inFlight, excused, loop>>

Init ==
  /\ domains = Registered /\ reports = {} /\ ingestLog = {}
  /\ newDomains = [w \in Workers |-> {}]
  /\ newReports = [w \in Workers |-> {}]
  /\ newLog = [w \in Workers |-> {}]
  /\ broken = [w \in Workers |-> FALSE]
  /\ pc = [w \in Workers |-> "idle"]
  /\ source = [w \in Workers |-> None]
  /\ unit = [w \in Workers |-> None]
  /\ files = [w \in Workers |-> <<>>]
  /\ todo = [w \in Workers |-> <<>>]
  /\ target = [w \in Workers |-> None]
  /\ handled = [w \in Workers |-> FALSE]
  /\ announced = {}
  /\ box = [b \in Mailboxes |-> "enabled"]
  /\ arrived = {} /\ seen = {} /\ moved = {} /\ excused = {}
  /\ queue = {} /\ inFlight = {}
  /\ rescan = [w \in Workers |-> FALSE]
  /\ batch = [w \in Workers |-> {}]
  /\ got = [w \in Workers |-> {}]
  /\ loop = None

----------------------------------------------------------------------------
(* Uploads.                                                                *)

Submit(r) ==
  /\ pc[r] = "idle"
  /\ source' = [source EXCEPT ![r] = r]
  /\ unit' = [unit EXCEPT ![r] = r]
  /\ files' = [files EXCEPT ![r] = Uploaded[r]]
  /\ Goto(r, "files")
  /\ UNCHANGED <<dbVars, txnVars, todo, target, handled, announced, serverVars,
                 pollVars, queue, inFlight, excused, loop>>

\* The event loop resumes the handler ...
TakeLoop(r) ==
  /\ pc[r] = "files" /\ loop = None
  /\ loop' = r
  /\ handled' = [handled EXCEPT ![r] = FALSE]
  /\ UNCHANGED <<dbVars, txnVars, pc, source, unit, files, todo, target, announced,
                 serverVars, pollVars, queue, inFlight, excused>>

\* ... which gives the loop back when it awaits the next file, one that is
\* on disk; handled says that it has ingested a file since it was resumed.
AwaitFile(r) ==
  /\ r \in Spooled
  /\ pc[r] = "files" /\ files[r] # <<>> /\ handled[r]
  /\ loop = r /\ loop' = None
  /\ UNCHANGED <<dbVars, txnVars, pc, ingestVars, announced, serverVars, pollVars,
                 queue, inFlight, excused>>

IngestOfUpload(r) ==
  /\ loop = r
  /\ IngestStep(r)
  /\ UNCHANGED <<serverVars, pollVars, queue, inFlight, excused, loop>>

\* db.commit() after the last file; the API then emits its own event for
\* every new report.
CommitUpload(r) ==
  /\ loop = r /\ pc[r] = "files" /\ files[r] = <<>>
  /\ Publish(r)
  /\ announced' = announced \cup
       IF r \in ViaApi THEN {[report |-> x, by |-> "api"] : x \in newReports[r]} ELSE {}
  /\ Leave(r)
  /\ loop' = None
  /\ UNCHANGED <<serverVars, pollVars, queue, inFlight, excused>>

\* An exception of ingest_payload is a 500; get_db closes the session.
UploadFails(r) ==
  /\ loop = r /\ (FlushRefused(r) \/ ParseCrashes(r))
  /\ Leave(r)
  /\ loop' = None
  /\ UNCHANGED <<dbVars, announced, serverVars, pollVars, queue, inFlight, excused>>

UploadStep(r) ==
  TakeLoop(r) \/ AwaitFile(r) \/ IngestOfUpload(r) \/ CommitUpload(r) \/ UploadFails(r)

----------------------------------------------------------------------------
(* The environment.                                                        *)

Deliver(m) ==
  /\ m \notin arrived
  /\ arrived' = arrived \cup {m}
  /\ UNCHANGED <<dbVars, txnVars, pc, ingestVars, announced, box, seen, moved, pollVars,
                 queue, inFlight, excused, loop>>

\* An administrator adds a domain.  The INSERT waits like any other.
AddDomain(d) ==
  /\ d \notin domains
  /\ \A w \in Workers : d \notin newDomains[w]
  /\ domains' = domains \cup {d}
  /\ UNCHANGED <<reports, ingestLog, txnVars, pc, ingestVars, announced, serverVars,
                 pollVars, queue, inFlight, excused, loop>>

\* The row of domain d is gone, and with it the row whose id a worker holds:
\* the domain may be added again, but that is another row.
Vanish(d) ==
  /\ Drop(d)
  /\ target' = [w \in Workers |-> IF pc[w] = "insert" /\ target[w] = d THEN None ELSE target[w]]
  /\ UNCHANGED <<ingestLog, txnVars, pc, source, unit, files, todo, handled, announced,
                 serverVars, pollVars, queue, inFlight, excused, loop>>

\* Mutant of DeleteDomain: the DELETE does not wait for open transactions.
DeleteAtOnce(d) == Vanish(d)

\* delete_domain.  An uncommitted report that refers to the row keeps it
\* locked (FOR KEY SHARE), so the DELETE waits for that transaction.
DeleteDomain(d) ==
  /\ \A w \in Workers : \A r \in newReports[w] : DomainOf(r) # d
  /\ Vanish(d)

\* toggle_mailbox and delete_mailbox.
ChangeMailbox(b, s) ==
  /\ "mailboxes" \in Faults
  /\ box[b] # "gone" /\ s # box[b]
  /\ box' = [box EXCEPT ![b] = s]
  /\ UNCHANGED <<dbVars, txnVars, pc, ingestVars, announced, arrived, seen, moved,
                 pollVars, queue, inFlight, excused, loop>>

\* The process dies (a deploy, a crash): every transaction is rolled back.
Restart ==
  /\ "restart" \in Faults
  /\ \E w \in Workers : pc[w] # "idle"
  /\ newDomains' = [w \in Workers |-> {}]
  /\ newReports' = [w \in Workers |-> {}]
  /\ newLog' = [w \in Workers |-> {}]
  /\ broken' = [w \in Workers |-> FALSE]
  /\ pc' = [w \in Workers |-> "idle"]
  /\ source' = [w \in Workers |-> None]
  /\ unit' = [w \in Workers |-> None]
  /\ files' = [w \in Workers |-> <<>>]
  /\ todo' = [w \in Workers |-> <<>>]
  /\ target' = [w \in Workers |-> None]
  /\ handled' = [w \in Workers |-> FALSE]
  /\ rescan' = [w \in Workers |-> FALSE]
  /\ batch' = [w \in Workers |-> {}]
  /\ got' = [w \in Workers |-> {}]
  /\ queue' = {} /\ inFlight' = {} /\ loop' = None
  /\ excused' = excused \cup UNION {Touched(w) : w \in Pollers}
  /\ UNCHANGED <<dbVars, announced, serverVars>>

----------------------------------------------------------------------------
Next ==
  \/ \E r \in Requests : Submit(r) \/ UploadStep(r)
  \/ \E w \in Pollers : PollStep(w) /\ UNCHANGED loop
  \/ PollAllEnabled /\ UNCHANGED loop
  \/ \E b \in Mailboxes : PollNext(b) /\ UNCHANGED loop
  \/ \E t \in Threads, b \in Mailboxes, again \in BOOLEAN :
       PollInBackground(t, b, again) /\ UNCHANGED loop
  \/ \E m \in Mails : Deliver(m)
  \/ \E d \in Managed : AddDomain(d) \/ DeleteDomain(d)
  \/ \E b \in Mailboxes, s \in {"enabled", "disabled", "gone"} : ChangeMailbox(b, s)
  \/ Restart

Spec == Init /\ [][Next]_vars

(* Threads run, PostgreSQL grants a lock to whoever waits longest, and the *)
(* event loop resumes its tasks in turn, so no worker that could go on     *)
(* again and again is passed over for ever.  The scheduler's interval      *)
(* trigger fires again and again.  Nobody has to upload, poll by hand or   *)
(* change anything, and no fault has to happen.                            *)
Fairness ==
  /\ \A w \in Pollers : SF_vars(PollStep(w) /\ UNCHANGED loop)
  /\ \A r \in Requests : SF_vars(UploadStep(r))
  /\ WF_vars(PollAllEnabled /\ UNCHANGED loop)
  /\ \A b \in Mailboxes : WF_vars(PollNext(b) /\ UNCHANGED loop)

FairSpec == Spec /\ Fairness

----------------------------------------------------------------------------
(* Properties.                                                             *)

Labels == {"idle", "search", "fetch", "files", "check", "route", "create",
           "insert", "end"}
Units == Mails \cup Requests
LogEntry == [unit : Units, item : Docs \cup Attachment,
             status : {"ok", "dup", "ignored", "error"}]
Announcement == [report : Report, by : {"ingest", "api"}]

DbType ==
  /\ domains \subseteq Domain /\ reports \subseteq Report
  /\ ingestLog \subseteq LogEntry /\ announced \subseteq Announcement

TxnType ==
  /\ newDomains \in [Workers -> SUBSET Domain]
  /\ newReports \in [Workers -> SUBSET Report]
  /\ newLog \in [Workers -> SUBSET LogEntry]
  /\ broken \in [Workers -> BOOLEAN]

JobType ==
  /\ pc \in [Workers -> Labels]
  /\ source \in [Workers -> Sources \cup {None}]
  /\ unit \in [Workers -> Units \cup {None}]
  /\ files \in [Workers -> Seq(Attachment)]
  /\ todo \in [Workers -> Seq(Docs)]
  /\ target \in [Workers -> Domain \cup {None}]
  /\ handled \in [Workers -> BOOLEAN]

\* Which of them have a value at which label.
JobSet(w) ==
  /\ pc[w] # "idle" => source[w] \in (IF w \in Pollers THEN Mailboxes ELSE Sources)
  /\ pc[w] \in {"files", "check", "route", "create", "insert"} =>
       unit[w] \in (IF w \in Pollers THEN Mails ELSE Units)
  /\ pc[w] \in {"check", "route", "create", "insert"} => todo[w] # <<>>
  /\ pc[w] = "create" => target[w] \in Domain
  /\ pc[w] = "insert" => target[w] \in Domain \cup {None}

MailType ==
  /\ box \in [Mailboxes -> {"enabled", "disabled", "gone"}]
  /\ arrived \subseteq Mails /\ seen \subseteq Mails /\ moved \subseteq Mails
  /\ excused \subseteq Mails
  /\ queue \subseteq Mailboxes /\ inFlight \subseteq Mailboxes

PollType ==
  /\ rescan \in [Workers -> BOOLEAN]
  /\ batch \in [Workers -> SUBSET Mails]
  /\ got \in [Workers -> SUBSET Mails]

\* Every variable has its type, and a worker's locals are set where the code
\* reads them.
TypeOK ==
  /\ DbType /\ TxnType /\ JobType /\ MailType /\ PollType
  /\ loop \in Requests \cup {None}
  /\ \A w \in Workers : JobSet(w)

\* The read side never meets two rows of one report, although the duplicate
\* check and the INSERT are separate statements of concurrent transactions,
\* and never meets a report without its domain, although domains are
\* deleted while reports for them are being written.
UniqueReports == UniqueKeys(reports)
NoOrphans == \A r \in reports : DomainOf(r) \in domains

\* What a transaction has written is not in the tables yet, no two open
\* transactions have written the same unique value, and an uncommitted report
\* has its domain: the facts about open transactions behind the two above.
Exclusive ==
  \A w \in Workers :
    /\ newDomains[w] \cap domains = {}
    /\ UniqueKeys(newReports[w])
    /\ \A r \in newReports[w] : DomainOf(r) \in domains \cup newDomains[w]
    /\ \A r \in newReports[w], s \in reports : r.key # s.key
    /\ \A v \in Workers \ {w} :
         /\ newDomains[v] \cap newDomains[w] = {}
         /\ \A r \in newReports[v], s \in newReports[w] : r.key # s.key

\* What a transaction has written belongs to the customers its mailbox or its
\* uploader serves, although domain rows come and go between the routing of a
\* document and its INSERT.
StaysInReach ==
  \A w \in Workers : \A x \in newDomains[w] \cup newReports[w] :
    x.tenant \in Reach[source[w]]

\* _in_flight is exactly the set of mailboxes that background threads poll,
\* and no two of them poll the same mailbox.
InFlightExact ==
  /\ inFlight = {source[t] : t \in {u \in Threads : pc[u] # "idle"}}
  /\ \A t, u \in Threads : pc[t] # "idle" /\ pc[u] # "idle" /\ source[t] = source[u] => t = u

\* The import log accounts for every document of mail m.  (An attachment on
\* which the parser crashes never leaves a line.)
Accounted(m) ==
  \A i \in DOMAIN Parts[m] :
    LET a == Parts[m][i]
        items == CASE a.parse = "ok"    -> {a.docs[j] : j \in DOMAIN a.docs}
               [] a.parse = "error" -> {a}
               [] a.parse = "crash" -> {}
    IN  \A x \in items : \E e \in ingestLog : e.unit = m /\ e.item = x

\* A mail that the next poll will not look at again, because it is flagged
\* or has left the folder, is accounted for in the committed import log,
\* or a poll is still working on it, or it is one of the excused.
SeenIsAccounted ==
  \A m \in (seen \cup moved) \ excused :
    Accounted(m) \/ \E w \in Pollers : m \in got[w]

\* An "ok" line of the log and the report it speaks of become visible in
\* one step, whatever goes wrong in the transaction.
LogTellsTruth ==
  [][\A e \in ingestLog' \ ingestLog : e.status = "ok" =>
       \E r \in reports' \ reports : r.doc = e.item]_vars

\* The tables behave as ReportStore promises.
ImplementsStore == StoreSpec

\* v waits for u: for what u's transaction has inserted, or, between two
\* files of its upload, for u to give the event loop away.
HeldUp(v, u) ==
  \/ WaitsFor(v, u)
  \/ v \in Requests /\ pc[v] = "files" /\ loop = u /\ u # v

\* w is caught in a ring of workers that wait for each other, one that
\* PostgreSQL does not see because it leads through the event loop.
Hung(w) ==
  \E S \in SUBSET Workers :
    /\ w \in S
    /\ \A v \in S : ~Deadlocked(v) /\ \E u \in S \ {v} : HeldUp(v, u)

\* Every poll and every upload comes to an end unless it hangs in such a
\* ring: database locks, deadlocks included, hold up nobody for ever.
JobsEnd == \A w \in Workers : pc[w] # "idle" ~> pc[w] = "idle" \/ Hung(w)

\* Every mail is fetched by some poll in the end, or a poll hangs.
MailsFetched ==
  \A m \in Mails : m \in arrived ~> m \in seen \cup moved \/ \E w \in Pollers : Hung(w)

----------------------------------------------------------------------------
(* What the repository says of the program and the code does not do.       *)

\* ingest.py:174: "webhook (fire-and-forget after commit by caller)".
AnnouncedIsCommitted ==
  \A a \in announced : \E e \in ingestLog : e.status = "ok" /\ Key[e.item] = a.report.key

\* imap_poller.py:196-197: after the hard limit the rest comes with the next
\* poll, which searches for unseen mails.
RestStaysUnseen ==
  \A m \in seen : Accounted(m) \/ \E w \in Pollers : m \in got[w]

\* templates/help.html, "Reports manuell hochladen": an upload is answered
\* with a status for every file.
UploadsAnswered == \A r \in Requests : pc[r] # "idle" ~> pc[r] = "idle"
============================================================================
