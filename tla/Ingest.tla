------------------------------ MODULE Ingest ------------------------------
(***************************************************************************)
(* src/app/ingest.py: turning the documents of one attachment into rows,   *)
(* inside the database transaction of the worker that calls it.            *)
(*                                                                         *)
(* The database is PostgreSQL at READ COMMITTED (docker-compose.yml): a    *)
(* query sees committed rows and the rows of its own transaction, and an   *)
(* INSERT of a unique key that another open transaction has inserted waits *)
(* for that transaction to end.  A failed flush leaves the SQLAlchemy      *)
(* session unusable until it is rolled back, and nothing in ingest.py or   *)
(* its callers rolls it back: the variable broken.                         *)
(***************************************************************************)
EXTENDS Naturals, Sequences, FiniteSets

CONSTANTS Names, Tenants, Keys,
          NoName,    \* a policy_domain that is empty: in Names, never a domain
          Docs,      \* parsed aggregate reports
          Key,       \* [Docs -> Keys]: org_email with external_report_id
          Policy,    \* [Docs -> Names]: policy_domain
          Refused,   \* documents with a value PostgreSQL refuses (too long)
          Workers,   \* threads and requests that ingest
          Sources,   \* mailboxes and upload requests
          Route,     \* [Sources -> {"tenant", "reseller", "any"}]
          Reach,     \* [Sources -> SUBSET Tenants]
          AutoCreate, \* sources ingested with auto_create_domain=True
          None       \* no value (Python's None)

(* An attachment is the outcome of parse_payload: the documents it holds,  *)
(* a DmarcParseError, or another exception (a truncated gzip file, a date  *)
(* out of range).  A zip archive may hold several documents, or none.      *)
Attachment == [parse : {"ok", "error", "crash"}, docs : Seq(Docs)]

ASSUME IngestAssumption ==
  /\ NoName \in Names
  /\ Key \in [Docs -> Keys]
  /\ Policy \in [Docs -> Names]
  /\ Refused \subseteq Docs
  /\ Route \in [Sources -> {"tenant", "reseller", "any"}]
  /\ Reach \in [Sources -> SUBSET Tenants]
  /\ AutoCreate \subseteq Sources
  /\ \A s \in Sources : Route[s] = "tenant" => \E t \in Tenants : Reach[s] = {t}

VARIABLES
  domains, reports,  \* committed tables
  ingestLog,         \* committed table ingest_log: what became of an item
  newDomains, newReports, newLog,  \* uncommitted rows of each worker
  broken,    \* the worker's session needs a rollback
  pc,        \* where the worker is
  source,    \* the mailbox or request the worker works for
  unit,      \* the mail or request whose attachments are being ingested
  files,     \* attachments of unit not looked at yet
  todo,      \* documents of the current attachment not ingested yet
  target,    \* the domain row the current document goes to
  handled,   \* an attachment of unit went through ingest_payload
  announced  \* webhook events emitted: which report, from which call site

INSTANCE ReportStore

dbVars == <<domains, reports, ingestLog>>
txnVars == <<newDomains, newReports, newLog, broken>>
ingestVars == <<source, unit, files, todo, target, handled>>

Doc(w) == Head(todo[w])
Row(w) == [key |-> Key[Doc(w)], doc |-> Doc(w),
           name |-> target[w].name, tenant |-> target[w].tenant]

\* What a query of worker w returns.
SeesDomains(w) == domains \cup newDomains[w]
SeesReports(w) == reports \cup newReports[w]

\* Entry of table ingest_log; item is a document, or the whole attachment.
Entry(w, item, status) == [unit |-> unit[w], item |-> item, status |-> status]
AddLog(w, item, status) ==
  newLog' = [newLog EXCEPT ![w] = @ \cup {Entry(w, item, status)}]

\* Mutant of Discard: the log is written in a session of its own.
DiscardKeepsLog(w) ==
  /\ newDomains' = [newDomains EXCEPT ![w] = {}]
  /\ newReports' = [newReports EXCEPT ![w] = {}]
  /\ UNCHANGED newLog

\* The transaction of w is gone (rollback, or a failed flush).
Discard(w) ==
  /\ newDomains' = [newDomains EXCEPT ![w] = {}]
  /\ newReports' = [newReports EXCEPT ![w] = {}]
  /\ newLog' = [newLog EXCEPT ![w] = {}]

\* Mutant of Publish: the log is committed, the imports are not.
PublishLogOnly(w) ==
  /\ ingestLog' = ingestLog \cup newLog[w]
  /\ UNCHANGED <<domains, reports>>

\* The transaction of w becomes visible.
Publish(w) ==
  /\ domains' = domains \cup newDomains[w]
  /\ reports' = reports \cup newReports[w]
  /\ ingestLog' = ingestLog \cup newLog[w]

Goto(w, label) == pc' = [pc EXCEPT ![w] = label]

\* Mutant of NextDoc: one turn too many.
NextDocForever(w) ==
  /\ todo' = [todo EXCEPT ![w] = Tail(@)]
  /\ UNCHANGED handled /\ Goto(w, "check")

\* The loop over parsed_list goes on; after its last document the
\* attachment counts as handled.
NextDoc(w) ==
  /\ todo' = [todo EXCEPT ![w] = Tail(@)]
  /\ IF Tail(todo[w]) = <<>>
     THEN handled' = [handled EXCEPT ![w] = TRUE] /\ Goto(w, "files")
     ELSE UNCHANGED handled /\ Goto(w, "check")

----------------------------------------------------------------------------
\* ingest_payload on the next attachment: a parse error is one log entry,
\* an archive without documents leaves no trace.
OpenAttachment(w) ==
  /\ pc[w] = "files" /\ files[w] # <<>> /\ ~broken[w]
  /\ files' = [files EXCEPT ![w] = Tail(@)]
  /\ LET a == Head(files[w]) IN
     \/ /\ a.parse = "error"
        /\ AddLog(w, a, "error")
        /\ handled' = [handled EXCEPT ![w] = TRUE]
        /\ UNCHANGED <<pc, todo>>
     \/ /\ a.parse = "ok" /\ a.docs = <<>>
        /\ handled' = [handled EXCEPT ![w] = TRUE]
        /\ UNCHANGED <<pc, todo, newLog>>
     \/ /\ a.parse = "ok" /\ a.docs # <<>>
        /\ todo' = [todo EXCEPT ![w] = a.docs]
        /\ Goto(w, "check")
        /\ UNCHANGED <<handled, newLog>>
  /\ UNCHANGED <<dbVars, newDomains, newReports, broken, source, unit, target, announced>>

\* The duplicate check of ingest_parsed: over all tenants.
CheckDuplicate(w) ==
  /\ pc[w] = "check"
  /\ IF \E r \in SeesReports(w) : r.key = Key[Doc(w)]
     THEN AddLog(w, Doc(w), "dup") /\ NextDoc(w)
     ELSE Goto(w, "route") /\ UNCHANGED <<newLog, todo, handled>>
  /\ UNCHANGED <<dbVars, newDomains, newReports, broken, source, unit, files, target, announced>>

\* Mutant of Matches: no WHERE on the tenant.
MatchesAnywhere(w) == {d \in SeesDomains(w) : d.name = Policy[Doc(w)]}

\* Domains the routing of ingest_parsed may pick for a document.
Matches(w) ==
  {d \in SeesDomains(w) : d.name = Policy[Doc(w)] /\ d.tenant \in Reach[source[w]]}

Eligible(w) ==
  IF Route[source[w]] = "any" /\ Cardinality(Matches(w)) # 1 THEN {} ELSE Matches(w)

\* _ensure_domain: a source with a tenant may create the domain.
MayCreate(w) ==
  /\ Route[source[w]] = "tenant" /\ source[w] \in AutoCreate
  /\ Policy[Doc(w)] # NoName

\* Which domain does the document belong to?  A reseller's mailbox takes
\* the first of several matches, in no stated order.
RouteDocument(w) ==
  /\ pc[w] = "route"
  /\ \/ \E d \in Eligible(w) :
          /\ target' = [target EXCEPT ![w] = d]
          /\ Goto(w, "insert") /\ UNCHANGED <<newLog, todo, handled>>
     \/ /\ Eligible(w) = {} /\ MayCreate(w)
        /\ target' = [target EXCEPT ![w] =
             [name |-> Policy[Doc(w)], tenant |-> CHOOSE t \in Tenants : Reach[source[w]] = {t}]]
        /\ Goto(w, "create") /\ UNCHANGED <<newLog, todo, handled>>
     \/ /\ Eligible(w) = {} /\ ~MayCreate(w)
        /\ AddLog(w, Doc(w), "ignored")
        /\ NextDoc(w) /\ UNCHANGED target
  /\ UNCHANGED <<dbVars, newDomains, newReports, broken, source, unit, files, announced>>

----------------------------------------------------------------------------
(* The two INSERTs.  When another open transaction has inserted the same   *)
(* unique value, PostgreSQL lets the statement wait for that transaction.  *)

\* v holds what w waits for.
WaitsFor(w, v) ==
  \/ pc[w] = "create" /\ target[w] \in newDomains[v]
  \/ pc[w] = "insert" /\ \E r \in newReports[v] : r.key = Key[Doc(w)]

Blocked(w) == \E v \in Workers \ {w} : WaitsFor(w, v)

\* w is in a ring of transactions that wait for each other: PostgreSQL
\* cancels the statement of one of them.
Deadlocked(w) ==
  \E S \in SUBSET Workers :
    /\ w \in S
    /\ \A v \in S : /\ \E u \in S \ {v} : WaitsFor(v, u)
                    /\ \E u \in S \ {v} : WaitsFor(u, v)

\* The flush of w is refused: the unique value is taken, the domain row it
\* refers to has been deleted, the value is too long, or w is a deadlock victim.
CreateRefused(w) == target[w] \in SeesDomains(w) \/ Deadlocked(w)

\* Mutant of InsertRefused: no unique constraint.
InsertDuplicates(w) == Doc(w) \in Refused \/ target[w] \notin SeesDomains(w)

InsertRefused(w) ==
  \/ Doc(w) \in Refused
  \/ target[w] \notin SeesDomains(w)
  \/ \E r \in SeesReports(w) : r.key = Key[Doc(w)]
  \/ Deadlocked(w)

\* db.flush() in _ensure_domain.
CreateDomain(w) ==
  /\ pc[w] = "create" /\ ~Blocked(w) /\ ~CreateRefused(w)
  /\ newDomains' = [newDomains EXCEPT ![w] = @ \cup {target[w]}]
  /\ Goto(w, "insert")
  /\ UNCHANGED <<dbVars, newReports, newLog, broken, ingestVars, announced>>

\* db.flush() in _persist, the log entry, and the webhook: emit is called
\* here, inside the transaction.
InsertReport(w) ==
  /\ pc[w] = "insert" /\ ~Blocked(w) /\ ~InsertRefused(w)
  /\ newReports' = [newReports EXCEPT ![w] = @ \cup {Row(w)}]
  /\ AddLog(w, Doc(w), "ok")
  /\ announced' = announced \cup {[report |-> Row(w), by |-> "ingest"]}
  /\ target' = [target EXCEPT ![w] = None]
  /\ NextDoc(w)
  /\ UNCHANGED <<dbVars, newDomains, broken, source, unit, files>>

\* ingest_payload raises: a flush has failed, or parse_payload has with an
\* exception that it does not turn into a log entry.
FlushRefused(w) ==
  \/ pc[w] = "create" /\ CreateRefused(w)
  \/ pc[w] = "insert" /\ InsertRefused(w)

ParseCrashes(w) ==
  pc[w] = "files" /\ files[w] # <<>> /\ Head(files[w]).parse = "crash"

IngestStep(w) ==
  \/ OpenAttachment(w) \/ CheckDuplicate(w) \/ RouteDocument(w)
  \/ CreateDomain(w) \/ InsertReport(w)
============================================================================
