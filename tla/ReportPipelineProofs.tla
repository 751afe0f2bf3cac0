----------------------- MODULE ReportPipelineProofs -----------------------
(***************************************************************************)
(* Theorems about ReportPipeline, for every value of its constants.        *)
(***************************************************************************)
EXTENDS ReportPipeline, TLAPS

----------------------------------------------------------------------------
(* Type correctness.                                                       *)

LEMMA AddLogType ==
  ASSUME TxnType, NEW w \in Workers, unit[w] \in Units,
         NEW item \in Docs \cup Attachment, NEW status \in {"ok", "dup", "ignored", "error"},
         AddLog(w, item, status)
  PROVE  newLog' \in [Workers -> SUBSET LogEntry]
<1>1. Entry(w, item, status) \in LogEntry
  BY DEF Entry, LogEntry
<1>. QED
  BY <1>1 DEF AddLog, TxnType

\* The unit of a working poller or request is a unit.
LEMMA UnitIsUnit ==
  ASSUME TypeOK, NEW w \in Workers, pc[w] \in {"files", "check", "route", "create", "insert"}
  PROVE  unit[w] \in Units
BY DEF TypeOK, JobSet, Units

LEMMA NextDocType ==
  ASSUME TypeOK, NEW w \in Workers, pc[w] \in {"check", "route", "insert"}, NextDoc(w)
  PROVE  /\ pc' \in [Workers -> Labels] /\ todo' \in [Workers -> Seq(Docs)]
         /\ handled' \in [Workers -> BOOLEAN]
         /\ pc'[w] \in {"files", "check"} /\ (pc'[w] = "check" => todo'[w] # <<>>)
         /\ \A v \in Workers \ {w} : pc'[v] = pc[v] /\ todo'[v] = todo[v]
<1>1. todo[w] \in Seq(Docs) /\ todo[w] # <<>>
  BY DEF TypeOK, JobType, JobSet
<1>2. Tail(todo[w]) \in Seq(Docs)
  BY <1>1
<1>. QED
  BY <1>1, <1>2 DEF NextDoc, Goto, TypeOK, JobType, Labels

LEMMA DocType ==
  ASSUME TypeOK, NEW w \in Workers, pc[w] \in {"check", "route", "create", "insert"}
  PROVE  Doc(w) \in Docs
<1>1. todo[w] \in Seq(Docs) /\ todo[w] # <<>>
  BY DEF TypeOK, JobType, JobSet
<1>. QED
  BY <1>1 DEF Doc

\* The part of the state that ingest steps leave alone.
ElsewhereSame == UNCHANGED <<serverVars, pollVars, queue, inFlight, excused>>

LEMMA ElsewhereType ==
  ASSUME MailType, PollType, ElsewhereSame
  PROVE  MailType' /\ PollType'
BY DEF ElsewhereSame, serverVars, pollVars, MailType, PollType

LEMMA OpenAttachmentType ==
  ASSUME TypeOK, NEW w \in Workers, OpenAttachment(w)
  PROVE  DbType' /\ TxnType' /\ JobType' /\ \A v \in Workers : JobSet(v)'
<1>1. files[w] \in Seq(Attachment) /\ files[w] # <<>> /\ pc[w] = "files"
  BY DEF TypeOK, JobType, OpenAttachment
<1>2. Head(files[w]) \in Attachment /\ Tail(files[w]) \in Seq(Attachment)
  BY <1>1
<1>3. Head(files[w]).docs \in Seq(Docs)
  BY <1>2 DEF Attachment
<1>4. newLog' \in [Workers -> SUBSET LogEntry]
  <2>1. unit[w] \in Units
    BY <1>1, UnitIsUnit
  <2>2. TxnType
    BY DEF TypeOK
  <2>. QED
    BY <1>2, <2>1, <2>2, AddLogType DEF OpenAttachment, TxnType
<1>5. DbType' /\ TxnType'
  BY <1>4 DEF TypeOK, DbType, TxnType, OpenAttachment, dbVars
<1>6. files' \in [Workers -> Seq(Attachment)]
  BY <1>2 DEF TypeOK, JobType, OpenAttachment
<1>7. todo' \in [Workers -> Seq(Docs)]
  BY <1>3 DEF TypeOK, JobType, OpenAttachment
<1>8. pc' \in [Workers -> Labels] /\ handled' \in [Workers -> BOOLEAN]
  BY DEF TypeOK, JobType, OpenAttachment, Labels, Goto
<1>9. JobType'
  BY <1>6, <1>7, <1>8 DEF TypeOK, JobType, OpenAttachment
<1>10. \A v \in Workers : JobSet(v)'
  BY <1>1, <1>8, <1>7 DEF TypeOK, JobType, JobSet, OpenAttachment, Goto
<1>. QED
  BY <1>5, <1>9, <1>10

LEMMA CheckDuplicateType ==
  ASSUME TypeOK, NEW w \in Workers, CheckDuplicate(w)
  PROVE  DbType' /\ TxnType' /\ JobType' /\ \A v \in Workers : JobSet(v)'
<1>1. pc[w] = "check" /\ unit[w] \in Units /\ Doc(w) \in Docs /\ TxnType
  BY UnitIsUnit, DocType DEF CheckDuplicate, TypeOK
<1>2. newLog' \in [Workers -> SUBSET LogEntry]
  BY <1>1, AddLogType DEF CheckDuplicate, TxnType
<1>3. DbType' /\ TxnType'
  BY <1>2 DEF TypeOK, DbType, TxnType, CheckDuplicate, dbVars
<1>4. CASE NextDoc(w)
  <2>1. JobType'
    BY <1>1, <1>4, NextDocType DEF CheckDuplicate, TypeOK, JobType
  <2>2. ASSUME NEW v \in Workers
        PROVE  JobSet(v)'
    <3>1. CASE v = w
      BY <1>1, <1>4, <3>1, NextDocType DEF CheckDuplicate, TypeOK, JobSet
    <3>2. CASE v # w
      BY <1>1, <1>4, <3>2, NextDocType DEF CheckDuplicate, TypeOK, JobSet
    <3>. QED
      BY <3>1, <3>2
  <2>. QED
    BY <1>3, <2>1, <2>2
<1>5. CASE Goto(w, "route") /\ UNCHANGED <<newLog, todo, handled>>
  <2>1. JobType'
    BY <1>1, <1>5 DEF CheckDuplicate, TypeOK, JobType, Goto, Labels
  <2>2. ASSUME NEW v \in Workers
        PROVE  JobSet(v)'
    BY <1>1, <1>5 DEF CheckDuplicate, TypeOK, JobType, JobSet, Goto
  <2>. QED
    BY <1>3, <2>1, <2>2
<1>. QED
  BY <1>4, <1>5 DEF CheckDuplicate

\* The domains a document may go to are visible rows.
LEMMA EligibleType ==
  ASSUME TypeOK, NEW w \in Workers, NEW d \in Eligible(w)
  PROVE  d \in Domain /\ d \in SeesDomains(w)
<1>1. d \in SeesDomains(w)
  BY DEF Eligible, Matches
<1>. QED
  BY <1>1 DEF SeesDomains, TypeOK, DbType, TxnType

LEMMA RouteDocumentType ==
  ASSUME TypeOK, NEW w \in Workers, RouteDocument(w)
  PROVE  DbType' /\ TxnType' /\ JobType' /\ \A v \in Workers : JobSet(v)'
<1>1. pc[w] = "route" /\ unit[w] \in Units /\ Doc(w) \in Docs /\ TxnType
  BY UnitIsUnit, DocType DEF RouteDocument, TypeOK
<1>2. newLog' \in [Workers -> SUBSET LogEntry]
  BY <1>1, AddLogType DEF RouteDocument, TxnType
<1>3. DbType' /\ TxnType'
  BY <1>2 DEF TypeOK, DbType, TxnType, RouteDocument, dbVars
<1>4. CASE \/ \E d \in Eligible(w) :
                /\ target' = [target EXCEPT ![w] = d]
                /\ Goto(w, "insert") /\ UNCHANGED <<newLog, todo, handled>>
           \/ /\ MayCreate(w)
              /\ target' = [target EXCEPT ![w] =
                   [name |-> Policy[Doc(w)], tenant |-> CHOOSE t \in Tenants : Reach[source[w]] = {t}]]
              /\ Goto(w, "create") /\ UNCHANGED <<newLog, todo, handled>>
  <2>1. MayCreate(w) =>
          [name |-> Policy[Doc(w)], tenant |-> CHOOSE t \in Tenants : Reach[source[w]] = {t}] \in Domain
    <3>1. source[w] \in Sources
      BY <1>1, ImapAssumption DEF TypeOK, JobSet
    <3>2. Policy[Doc(w)] \in Names
      BY <1>1, IngestAssumption
    <3>3. MayCreate(w) => \E t \in Tenants : Reach[source[w]] = {t}
      BY <3>1, IngestAssumption DEF MayCreate
    <3>. QED
      BY <3>2, <3>3 DEF Domain
  <2>2. PICK d \in Domain, l \in {"insert", "create"} :
          target' = [target EXCEPT ![w] = d] /\ pc' = [pc EXCEPT ![w] = l]
    BY <1>4, <2>1, EligibleType DEF Goto
  <2>3. UNCHANGED <<todo, handled, source, unit, files>>
    BY <1>4 DEF RouteDocument
  <2>4. JobType'
    BY <1>1, <2>2, <2>3 DEF TypeOK, JobType, Labels
  <2>5. ASSUME NEW v \in Workers
        PROVE  JobSet(v)'
    BY <1>1, <2>2, <2>3 DEF TypeOK, JobType, JobSet
  <2>. QED
    BY <1>3, <2>4, <2>5
<1>5. CASE NextDoc(w) /\ UNCHANGED target
  <2>1. JobType'
    BY <1>1, <1>5, NextDocType DEF RouteDocument, TypeOK, JobType
  <2>2. ASSUME NEW v \in Workers
        PROVE  JobSet(v)'
    <3>1. CASE v = w
      BY <1>1, <1>5, <3>1, NextDocType DEF RouteDocument, TypeOK, JobSet
    <3>2. CASE v # w
      BY <1>1, <1>5, <3>2, NextDocType DEF RouteDocument, TypeOK, JobSet
    <3>. QED
      BY <3>1, <3>2
  <2>. QED
    BY <1>3, <2>1, <2>2
<1>. QED
  BY <1>4, <1>5 DEF RouteDocument

LEMMA CreateDomainType ==
  ASSUME TypeOK, NEW w \in Workers, CreateDomain(w)
  PROVE  DbType' /\ TxnType' /\ JobType' /\ \A v \in Workers : JobSet(v)'
<1>1. pc[w] = "create" /\ target[w] \in Domain
  BY DEF CreateDomain, TypeOK, JobSet
<1>2. DbType' /\ TxnType'
  BY <1>1 DEF CreateDomain, TypeOK, DbType, TxnType, dbVars
<1>3. JobType'
  BY <1>1 DEF CreateDomain, TypeOK, JobType, Goto, Labels, ingestVars
<1>4. ASSUME NEW v \in Workers
      PROVE  JobSet(v)'
  BY <1>1 DEF CreateDomain, TypeOK, JobType, JobSet, Goto, ingestVars
<1>. QED
  BY <1>2, <1>3, <1>4

LEMMA RowType ==
  ASSUME TypeOK, NEW w \in Workers, pc[w] = "insert", target[w] \in SeesDomains(w)
  PROVE  Row(w) \in Report /\ DomainOf(Row(w)) = target[w]
         /\ Row(w).key = Key[Doc(w)] /\ Row(w).doc = Doc(w)
<1>1. Doc(w) \in Docs /\ target[w] \in Domain
  BY DocType DEF TypeOK, DbType, TxnType, SeesDomains
<1>. QED
  BY <1>1, IngestAssumption DEF Row, Report, Domain, DomainOf

LEMMA InsertReportType ==
  ASSUME TypeOK, NEW w \in Workers, InsertReport(w)
  PROVE  DbType' /\ TxnType' /\ JobType' /\ \A v \in Workers : JobSet(v)'
<1>1. /\ pc[w] = "insert" /\ unit[w] \in Units /\ Doc(w) \in Docs
      /\ Row(w) \in Report /\ TxnType
  BY UnitIsUnit, DocType, RowType DEF InsertReport, InsertRefused, TypeOK
<1>2. newLog' \in [Workers -> SUBSET LogEntry]
  BY <1>1, AddLogType DEF InsertReport
<1>3. TxnType'
  BY <1>1, <1>2 DEF TxnType, InsertReport
<1>4. DbType'
  BY <1>1 DEF TypeOK, DbType, InsertReport, dbVars, Announcement
<1>5. JobType'
  BY <1>1, NextDocType DEF InsertReport, TypeOK, JobType
<1>6. ASSUME NEW v \in Workers
      PROVE  JobSet(v)'
  <2>1. CASE v = w
    BY <1>1, <2>1, NextDocType DEF InsertReport, TypeOK, JobSet
  <2>2. CASE v # w
    BY <1>1, <2>2, NextDocType DEF InsertReport, TypeOK, JobType, JobSet
  <2>. QED
    BY <2>1, <2>2
<1>. QED
  BY <1>3, <1>4, <1>5, <1>6

LEMMA IngestStepType ==
  ASSUME TypeOK, NEW w \in Workers, IngestStep(w), ElsewhereSame,
         loop' \in Requests \cup {None}
  PROVE  TypeOK'
<1>1. MailType' /\ PollType'
  BY ElsewhereType DEF TypeOK
<1>2. DbType' /\ TxnType' /\ JobType' /\ \A v \in Workers : JobSet(v)'
  BY OpenAttachmentType, CheckDuplicateType, RouteDocumentType, CreateDomainType,
     InsertReportType DEF IngestStep
<1>. QED
  BY <1>1, <1>2 DEF TypeOK

LEMMA LeaveType ==
  ASSUME TypeOK, NEW w \in Workers, Leave(w)
  PROVE  TxnType' /\ JobType' /\ \A v \in Workers : JobSet(v)'
<1>1. TxnType'
  BY DEF TypeOK, TxnType, Leave, Discard
<1>2. JobType'
  BY DEF TypeOK, JobType, Leave, Goto, Labels
<1>3. \A v \in Workers : JobSet(v)'
  BY DEF TypeOK, JobType, JobSet, Leave, Goto
<1>. QED
  BY <1>1, <1>2, <1>3

LEMMA PublishType ==
  ASSUME DbType, TxnType, NEW w \in Workers, Publish(w)
  PROVE  domains' \subseteq Domain /\ reports' \subseteq Report /\ ingestLog' \subseteq LogEntry
BY DEF DbType, TxnType, Publish

LEMMA RaiseType ==
  ASSUME TypeOK, NEW w \in Workers, Raise(w), loop' = loop
  PROVE  TypeOK'
<1>1. TxnType' /\ JobType' /\ \A v \in Workers : JobSet(v)'
  BY LeaveType DEF Raise
<1>2. DbType' /\ MailType' /\ PollType'
  BY DEF TypeOK, DbType, MailType, PollType, Raise, ForgetPoll, Release, Touched,
         dbVars, serverVars
<1>. QED
  BY <1>1, <1>2 DEF TypeOK

LEMMA PollersWork == Pollers \subseteq Workers /\ Threads \subseteq Workers /\ Scheduler \in Pollers
BY ImapAssumption DEF Pollers

LEMMA BeginPollType ==
  ASSUME TypeOK, NEW w \in Pollers, NEW b \in Mailboxes, NEW again \in BOOLEAN,
         BeginPoll(w, b, again), queue' \subseteq Mailboxes, inFlight' \subseteq Mailboxes,
         loop' = loop
  PROVE  TypeOK'
<1>1. w \in Workers /\ b \in Sources
  BY PollersWork, ImapAssumption
<1>2. DbType' /\ TxnType' /\ MailType' /\ PollType'
  BY <1>1 DEF BeginPoll, TypeOK, DbType, TxnType, MailType, PollType, dbVars, txnVars, serverVars
<1>3. JobType'
  BY <1>1 DEF BeginPoll, TypeOK, JobType, Goto, Labels
<1>4. ASSUME NEW v \in Workers
      PROVE  JobSet(v)'
  BY <1>1 DEF BeginPoll, TypeOK, JobType, JobSet, Goto
<1>. QED
  BY <1>2, <1>3, <1>4 DEF TypeOK

LEMMA PollAllEnabledType ==
  ASSUME TypeOK, PollAllEnabled, loop' = loop
  PROVE  TypeOK'
<1>1. DbType' /\ TxnType' /\ MailType' /\ PollType' /\ JobType'
  BY DEF PollAllEnabled, TypeOK, DbType, TxnType, MailType, PollType, JobType, dbVars, txnVars,
         serverVars, pollVars, ingestVars
<1>2. \A v \in Workers : JobSet(v)'
  BY DEF PollAllEnabled, TypeOK, JobSet, ingestVars
<1>. QED
  BY <1>1, <1>2 DEF TypeOK

LEMMA PollNextType ==
  ASSUME TypeOK, NEW b \in Mailboxes, PollNext(b), loop' = loop
  PROVE  TypeOK'
<1>1. queue' \subseteq Mailboxes /\ inFlight' \subseteq Mailboxes
  BY DEF PollNext, TypeOK, MailType
<1>2. CASE BeginPoll(Scheduler, b, FALSE)
  BY <1>1, <1>2, BeginPollType, PollersWork
<1>3. CASE UNCHANGED <<dbVars, txnVars, pc, ingestVars, announced, serverVars, pollVars, excused>>
  <2>1. DbType' /\ TxnType' /\ MailType' /\ PollType' /\ JobType'
    BY <1>1, <1>3 DEF TypeOK, DbType, TxnType, MailType, PollType, JobType, dbVars, txnVars,
                      serverVars, pollVars, ingestVars
  <2>2. \A v \in Workers : JobSet(v)'
    BY <1>3 DEF TypeOK, JobSet, ingestVars
  <2>. QED
    BY <2>1, <2>2 DEF TypeOK
<1>. QED
  BY <1>2, <1>3 DEF PollNext

LEMMA PollInBackgroundType ==
  ASSUME TypeOK, NEW t \in Threads, NEW b \in Mailboxes, NEW again \in BOOLEAN,
         PollInBackground(t, b, again), loop' = loop
  PROVE  TypeOK'
<1>1. t \in Pollers /\ queue' \subseteq Mailboxes /\ inFlight' \subseteq Mailboxes
  BY DEF PollInBackground, TypeOK, MailType, Pollers
<1>. QED
  BY <1>1, BeginPollType DEF PollInBackground

LEMMA SearchType ==
  ASSUME TypeOK, NEW w \in Pollers, Search(w) \/ LoopEnds(w), loop' = loop
  PROVE  TypeOK'
<1>1. w \in Workers /\ pc[w] \in {"search", "fetch"}
  BY PollersWork DEF Search, LoopEnds
<1>2. PICK l \in {"fetch", "end"} : pc' = [pc EXCEPT ![w] = l]
  BY DEF Search, LoopEnds, Goto
<1>3. DbType' /\ TxnType' /\ MailType'
  BY DEF Search, LoopEnds, TypeOK, DbType, TxnType, MailType, dbVars, txnVars, serverVars
<1>4. PollType'
  BY <1>1 DEF Search, LoopEnds, InFolder, TypeOK, MailType, PollType, pollVars
<1>5. UNCHANGED ingestVars
  BY DEF Search, LoopEnds
<1>6. JobType'
  BY <1>1, <1>2, <1>5 DEF TypeOK, JobType, ingestVars, Labels
<1>7. \A v \in Workers : JobSet(v)'
  BY <1>1, <1>2, <1>5 DEF TypeOK, JobType, JobSet, ingestVars
<1>. QED
  BY <1>3, <1>4, <1>6, <1>7 DEF TypeOK

LEMMA FetchType ==
  ASSUME TypeOK, NEW w \in Pollers, NEW m \in Mails, Fetch(w, m), loop' = loop
  PROVE  TypeOK'
<1>1. w \in Workers /\ pc[w] = "fetch"
  BY PollersWork DEF Fetch
<1>2. DbType' /\ TxnType'
  BY DEF Fetch, TypeOK, DbType, TxnType, dbVars, txnVars
<1>3. MailType' /\ PollType'
  BY <1>1 DEF Fetch, FlagSeen, TypeOK, MailType, PollType
<1>4. CASE Goto(w, "end") /\ UNCHANGED <<unit, files, handled>>
  <2>1. JobType'
    BY <1>1, <1>4 DEF Fetch, TypeOK, JobType, Goto, Labels
  <2>2. \A v \in Workers : JobSet(v)'
    BY <1>1, <1>4 DEF Fetch, TypeOK, JobType, JobSet, Goto
  <2>. QED
    BY <1>2, <1>3, <2>1, <2>2, <1>1 DEF Fetch, TypeOK
<1>5. CASE /\ unit' = [unit EXCEPT ![w] = m]
           /\ files' = [files EXCEPT ![w] = Parts[m]]
           /\ handled' = [handled EXCEPT ![w] = FALSE]
           /\ Goto(w, "files")
  <2>1. Parts[m] \in Seq(Attachment) /\ m \in Units
    BY ImapAssumption DEF Units
  <2>2. JobType'
    BY <1>1, <1>5, <2>1 DEF Fetch, TypeOK, JobType, Goto, Labels
  <2>3. \A v \in Workers : JobSet(v)'
    BY <1>1, <1>5, <2>1 DEF Fetch, TypeOK, JobType, JobSet, Goto
  <2>. QED
    BY <1>2, <1>3, <2>2, <2>3, <1>1 DEF Fetch, TypeOK
<1>. QED
  BY <1>4, <1>5 DEF Fetch

LEMMA FetchFailsType ==
  ASSUME TypeOK, NEW w \in Pollers, NEW m \in Mails,
         FetchNothing(w, m) \/ FetchAborts(w, m), loop' = loop
  PROVE  TypeOK'
<1>1. w \in Workers /\ pc[w] = "fetch"
  BY PollersWork DEF FetchNothing, FetchAborts
<1>2. PICK l \in {"fetch", "end"} : pc' = [pc EXCEPT ![w] = l]
  BY <1>1 DEF FetchNothing, FetchAborts, Goto, TypeOK, JobType
<1>3. DbType' /\ TxnType' /\ MailType' /\ PollType'
  BY <1>1 DEF FetchNothing, FetchAborts, FlagSeen, TypeOK, DbType, TxnType, MailType, PollType,
              dbVars, txnVars, serverVars, pollVars
<1>4. UNCHANGED ingestVars
  BY DEF FetchNothing, FetchAborts
<1>5. JobType'
  BY <1>1, <1>2, <1>4 DEF TypeOK, JobType, ingestVars, Labels
<1>6. \A v \in Workers : JobSet(v)'
  BY <1>1, <1>2, <1>4 DEF TypeOK, JobType, JobSet, ingestVars
<1>. QED
  BY <1>3, <1>5, <1>6 DEF TypeOK

LEMMA PollFlushFailsType ==
  ASSUME TypeOK, NEW w \in Pollers, PollFlushFails(w), loop' = loop
  PROVE  TypeOK'
<1>1. w \in Workers /\ pc[w] \in {"create", "insert"}
  BY PollersWork DEF PollFlushFails, FlushRefused
<1>2. DbType' /\ TxnType' /\ MailType' /\ PollType'
  BY <1>1 DEF PollFlushFails, Discard, TypeOK, DbType, TxnType, MailType, PollType,
              dbVars, serverVars, pollVars
<1>3. JobType'
  BY <1>1 DEF PollFlushFails, TypeOK, JobType, Goto, Labels
<1>4. \A v \in Workers : JobSet(v)'
  BY <1>1 DEF PollFlushFails, TypeOK, JobType, JobSet, Goto
<1>. QED
  BY <1>2, <1>3, <1>4 DEF TypeOK

LEMMA SkipAttachmentType ==
  ASSUME TypeOK, NEW w \in Pollers, SkipAttachment(w), loop' = loop
  PROVE  TypeOK'
<1>1. w \in Workers /\ files[w] \in Seq(Attachment) /\ files[w] # <<>>
  BY PollersWork DEF SkipAttachment, TypeOK, JobType
<1>2. Tail(files[w]) \in Seq(Attachment)
  BY <1>1
<1>3. DbType' /\ TxnType' /\ MailType' /\ PollType'
  BY DEF SkipAttachment, TypeOK, DbType, TxnType, MailType, PollType,
         dbVars, txnVars, serverVars, pollVars
<1>4. JobType'
  BY <1>1, <1>2 DEF SkipAttachment, TypeOK, JobType
<1>5. \A v \in Workers : JobSet(v)'
  BY DEF SkipAttachment, TypeOK, JobSet
<1>. QED
  BY <1>3, <1>4, <1>5 DEF TypeOK

LEMMA FinishMailType ==
  ASSUME TypeOK, NEW w \in Pollers, FinishMail(w), loop' = loop
  PROVE  TypeOK'
<1>1. w \in Workers /\ pc[w] = "files"
  BY PollersWork DEF FinishMail
<1>2. CASE Raise(w)
  BY <1>1, <1>2, RaiseType
<1>3. CASE ~Raise(w)
  <2>1. unit[w] \in Mails
    BY <1>1 DEF TypeOK, JobSet
  <2>2. DbType' /\ TxnType' /\ MailType' /\ PollType'
    BY <1>3, <2>1 DEF FinishMail, TypeOK, DbType, TxnType, MailType, PollType,
         dbVars, txnVars, serverVars, pollVars
  <2>3. JobType'
    BY <1>1, <1>3 DEF FinishMail, TypeOK, JobType, Goto, Labels
  <2>4. \A v \in Workers : JobSet(v)'
    BY <1>1, <1>3 DEF FinishMail, TypeOK, JobType, JobSet, Goto
  <2>. QED
    BY <2>2, <2>3, <2>4 DEF TypeOK
<1>. QED
  BY <1>2, <1>3

LEMMA EndPollType ==
  ASSUME TypeOK, NEW w \in Pollers, EndPoll(w), loop' = loop
  PROVE  TypeOK'
<1>1. w \in Workers
  BY PollersWork
<1>2. CASE Raise(w)
  BY <1>1, <1>2, RaiseType
<1>3. CASE ~Raise(w)
  <2>1. Publish(w) /\ Leave(w) /\ ForgetPoll(w) /\ Release(w)
        /\ UNCHANGED <<announced, serverVars, queue, excused>>
    BY <1>3 DEF EndPoll
  <2>2. TxnType' /\ JobType' /\ \A v \in Workers : JobSet(v)'
    BY <1>1, <2>1, LeaveType
  <2>3. DbType'
    BY <1>1, <2>1, PublishType DEF TypeOK, DbType
  <2>4. MailType' /\ PollType'
    BY <1>1, <2>1 DEF TypeOK, MailType, PollType, ForgetPoll, Release, serverVars
  <2>. QED
    BY <2>2, <2>3, <2>4 DEF TypeOK
<1>. QED
  BY <1>2, <1>3

LEMMA RequestsWork == Requests \subseteq Workers /\ Requests \subseteq Sources
BY PipelineAssumption

LEMMA SubmitType ==
  ASSUME TypeOK, NEW r \in Requests, Submit(r)
  PROVE  TypeOK'
<1>1. r \in Workers /\ r \in Sources /\ r \notin Pollers /\ r \in Units
      /\ Uploaded[r] \in Seq(Attachment)
  BY PipelineAssumption DEF Units
<1>2. DbType' /\ TxnType' /\ MailType' /\ PollType'
  BY DEF Submit, TypeOK, DbType, TxnType, MailType, PollType, dbVars, txnVars, serverVars, pollVars
<1>3. JobType'
  BY <1>1 DEF Submit, TypeOK, JobType, Goto, Labels
<1>4. \A v \in Workers : JobSet(v)'
  BY <1>1 DEF Submit, TypeOK, JobType, JobSet, Goto
<1>. QED
  BY <1>2, <1>3, <1>4 DEF Submit, TypeOK

LEMMA LoopType ==
  ASSUME TypeOK, NEW r \in Requests, TakeLoop(r) \/ AwaitFile(r)
  PROVE  TypeOK'
<1>1. DbType' /\ TxnType' /\ MailType' /\ PollType'
  BY DEF TakeLoop, AwaitFile, TypeOK, DbType, TxnType, MailType, PollType,
         dbVars, txnVars, serverVars, pollVars
<1>2. JobType'
  BY DEF TakeLoop, AwaitFile, TypeOK, JobType, ingestVars
<1>3. \A v \in Workers : JobSet(v)'
  BY DEF TakeLoop, AwaitFile, TypeOK, JobSet, ingestVars
<1>. QED
  BY <1>1, <1>2, <1>3 DEF TakeLoop, AwaitFile, TypeOK

LEMMA CommitUploadType ==
  ASSUME TypeOK, NEW r \in Requests, CommitUpload(r)
  PROVE  TypeOK'
<1>1. r \in Workers
  BY RequestsWork
<1>2. TxnType' /\ JobType' /\ \A v \in Workers : JobSet(v)'
  BY <1>1, LeaveType DEF CommitUpload
<1>3. newReports[r] \subseteq Report
  BY <1>1 DEF TypeOK, TxnType
<1>4. announced' \subseteq Announcement
  BY <1>3 DEF CommitUpload, TypeOK, DbType, Announcement
<1>5. DbType'
  BY <1>1, <1>4, PublishType DEF CommitUpload, TypeOK, DbType
<1>6. MailType' /\ PollType' /\ loop' \in Requests \cup {None}
  BY DEF CommitUpload, TypeOK, MailType, PollType, serverVars, pollVars
<1>. QED
  BY <1>2, <1>5, <1>6 DEF TypeOK

LEMMA UploadFailsType ==
  ASSUME TypeOK, NEW r \in Requests, UploadFails(r)
  PROVE  TypeOK'
<1>1. r \in Workers
  BY RequestsWork
<1>2. TxnType' /\ JobType' /\ \A v \in Workers : JobSet(v)'
  BY <1>1, LeaveType DEF UploadFails
<1>3. DbType' /\ MailType' /\ PollType' /\ loop' \in Requests \cup {None}
  BY DEF UploadFails, TypeOK, DbType, MailType, PollType, dbVars, serverVars, pollVars
<1>. QED
  BY <1>2, <1>3 DEF TypeOK

\* What neither a worker nor the process does by itself.
OtherStep ==
  \/ \E m \in Mails : Deliver(m)
  \/ \E d \in Managed : AddDomain(d) \/ DeleteDomain(d)
  \/ \E b \in Mailboxes, s \in {"enabled", "disabled", "gone"} : ChangeMailbox(b, s)

LEMMA OtherStepType ==
  ASSUME TypeOK, OtherStep
  PROVE  TypeOK'
<1>1. UNCHANGED <<txnVars, pc, source, unit, files, todo, handled, pollVars, loop, ingestLog, announced>>
  BY DEF OtherStep, Deliver, AddDomain, DeleteDomain, Vanish, ChangeMailbox, dbVars, ingestVars
<1>2. /\ target' \in [Workers -> Domain \cup {None}]
      /\ \A v \in Workers : target'[v] = target[v] \/ (target'[v] = None /\ pc[v] = "insert")
  <2>1. target \in [Workers -> Domain \cup {None}]
    BY DEF TypeOK, JobType
  <2>2. CASE UNCHANGED target
    BY <2>1, <2>2
  <2>3. CASE \E d \in Managed : Vanish(d)
    BY <2>1, <2>3 DEF Vanish
  <2>. QED
    BY <2>2, <2>3 DEF OtherStep, Deliver, AddDomain, DeleteDomain, ChangeMailbox, ingestVars
<1>3. TxnType' /\ PollType' /\ JobType'
  BY <1>1, <1>2 DEF TypeOK, TxnType, JobType, PollType, txnVars, pollVars
<1>4. \A v \in Workers : JobSet(v)'
  BY <1>1, <1>2 DEF TypeOK, JobSet
<1>5. Managed \subseteq Domain
  BY PipelineAssumption
<1>6. DbType'
  BY <1>1, <1>5 DEF OtherStep, Deliver, AddDomain, DeleteDomain, Vanish, ChangeMailbox, Drop,
                    TypeOK, DbType, dbVars
<1>7. MailType'
  BY DEF OtherStep, Deliver, AddDomain, DeleteDomain, Vanish, ChangeMailbox, TypeOK, MailType, serverVars
<1>. QED
  BY <1>1, <1>3, <1>4, <1>6, <1>7 DEF TypeOK

LEMMA RestartType ==
  ASSUME TypeOK, Restart
  PROVE  TypeOK'
<1>1. DbType' /\ TxnType' /\ PollType'
  BY DEF Restart, TypeOK, DbType, TxnType, PollType, dbVars
<1>2. JobType'
  BY DEF Restart, TypeOK, JobType, Labels
<1>3. \A v \in Workers : JobSet(v)'
  BY DEF Restart, JobSet
<1>4. \A w \in Pollers : Touched(w) \subseteq Mails
  BY PollersWork DEF Touched, TypeOK, PollType, MailType
<1>5. MailType' /\ loop' \in Requests \cup {None}
  BY <1>4 DEF Restart, TypeOK, MailType, serverVars
<1>. QED
  BY <1>1, <1>2, <1>3, <1>5 DEF TypeOK

LEMMA InitType == Init => TypeOK
<1>. SUFFICES ASSUME Init PROVE TypeOK
  OBVIOUS
<1>1. DbType /\ TxnType /\ MailType /\ PollType /\ JobType
  BY PipelineAssumption
     DEF Init, DbType, TxnType, MailType, PollType, JobType, Labels
<1>2. \A v \in Workers : JobSet(v)
  BY DEF Init, JobSet
<1>. QED
  BY <1>1, <1>2 DEF Init, TypeOK

LEMMA PollStepType ==
  ASSUME TypeOK, NEW w \in Pollers, PollStep(w), loop' = loop
  PROVE  TypeOK'
<1>1. CASE Search(w) \/ LoopEnds(w)
  BY <1>1, SearchType
<1>2. CASE \E m \in Mails : Fetch(w, m) \/ FetchNothing(w, m) \/ FetchAborts(w, m)
  BY <1>2, FetchType, FetchFailsType
<1>3. CASE IngestOfPoll(w)
  <2>1. w \in Workers /\ loop' \in Requests \cup {None}
    BY PollersWork DEF TypeOK
  <2>2. IngestStep(w) /\ ElsewhereSame
    BY <1>3 DEF IngestOfPoll, ElsewhereSame
  <2>. QED
    BY <2>1, <2>2, IngestStepType
<1>4. CASE PollFlushFails(w)
  BY <1>4, PollFlushFailsType
<1>5. CASE SkipAttachment(w)
  BY <1>5, SkipAttachmentType
<1>6. CASE FinishMail(w)
  BY <1>6, FinishMailType
<1>7. CASE EndPoll(w)
  BY <1>7, EndPollType
<1>. QED
  BY <1>1, <1>2, <1>3, <1>4, <1>5, <1>6, <1>7 DEF PollStep

LEMMA UploadStepType ==
  ASSUME TypeOK, NEW r \in Requests, UploadStep(r)
  PROVE  TypeOK'
<1>1. CASE TakeLoop(r) \/ AwaitFile(r)
  BY <1>1, LoopType
<1>2. CASE IngestOfUpload(r)
  <2>1. r \in Workers /\ loop' \in Requests \cup {None}
    BY <1>2, RequestsWork DEF TypeOK, IngestOfUpload
  <2>2. IngestStep(r) /\ ElsewhereSame
    BY <1>2 DEF IngestOfUpload, ElsewhereSame
  <2>. QED
    BY <2>1, <2>2, IngestStepType
<1>3. CASE CommitUpload(r)
  BY <1>3, CommitUploadType
<1>4. CASE UploadFails(r)
  BY <1>4, UploadFailsType
<1>. QED
  BY <1>1, <1>2, <1>3, <1>4 DEF UploadStep

LEMMA StutterType ==
  ASSUME TypeOK, UNCHANGED vars
  PROVE  TypeOK'
<1>1. DbType' /\ TxnType' /\ MailType' /\ PollType' /\ JobType' /\ UNCHANGED loop
  BY DEF vars, TypeOK, DbType, TxnType, MailType, PollType, JobType, dbVars, txnVars,
         ingestVars, serverVars, pollVars
<1>2. \A v \in Workers : JobSet(v)'
  BY DEF vars, TypeOK, JobSet, ingestVars
<1>. QED
  BY <1>1, <1>2 DEF TypeOK

LEMMA NextType == TypeOK /\ [Next]_vars => TypeOK'
<1>. SUFFICES ASSUME TypeOK, [Next]_vars PROVE TypeOK'
  OBVIOUS
<1>1. ASSUME NEW r \in Requests, Submit(r) \/ UploadStep(r)
      PROVE  TypeOK'
  BY <1>1, SubmitType, UploadStepType
<1>2. ASSUME NEW w \in Pollers, PollStep(w), UNCHANGED loop
      PROVE  TypeOK'
  BY <1>2, PollStepType
<1>3. CASE PollAllEnabled /\ UNCHANGED loop
  BY <1>3, PollAllEnabledType
<1>4. ASSUME NEW b \in Mailboxes, PollNext(b), UNCHANGED loop
      PROVE  TypeOK'
  BY <1>4, PollNextType
<1>5. ASSUME NEW t \in Threads, NEW b \in Mailboxes, NEW again \in BOOLEAN,
             PollInBackground(t, b, again), UNCHANGED loop
      PROVE  TypeOK'
  BY <1>5, PollInBackgroundType
<1>6. CASE OtherStep
  BY <1>6, OtherStepType
<1>7. CASE Restart
  BY <1>7, RestartType
<1>8. CASE UNCHANGED vars
  BY <1>8, StutterType
<1>. QED
  BY <1>1, <1>2, <1>3, <1>4, <1>5, <1>6, <1>7, <1>8 DEF Next, OtherStep

\* Every variable always has its type, and the code of a poll or an upload
\* finds the locals it reads set: mb and unit while attachments are
\* ingested, a document in parsed_list at every step of ingest_parsed, the
\* chosen domain row at both INSERTs.
THEOREM TypeCorrect == Spec => []TypeOK
<1>. QED
  BY InitType, NextType, PTL DEF Spec

----------------------------------------------------------------------------
(* What a step does to the tables and to the open transactions: one of the *)
(* following, whatever else it does.                                       *)

NoWrite == UNCHANGED <<domains, reports, newDomains, newReports>>

WritesDomain(w, d) ==
  /\ d \notin domains /\ \A v \in Workers : d \notin newDomains[v]
  /\ newDomains' = [newDomains EXCEPT ![w] = @ \cup {d}]
  /\ UNCHANGED <<domains, reports, newReports>>

WritesReport(w, x) ==
  /\ DomainOf(x) \in domains \cup newDomains[w]
  /\ \A r \in reports : r.key # x.key
  /\ \A v \in Workers : \A r \in newReports[v] : r.key # x.key
  /\ newReports' = [newReports EXCEPT ![w] = @ \cup {x}]
  /\ UNCHANGED <<domains, reports, newDomains>>

Commits(w) ==
  /\ domains' = domains \cup newDomains[w]
  /\ reports' = reports \cup newReports[w]
  /\ newDomains' = [newDomains EXCEPT ![w] = {}]
  /\ newReports' = [newReports EXCEPT ![w] = {}]

RollsBack(w) ==
  /\ UNCHANGED <<domains, reports>>
  /\ newDomains' = [newDomains EXCEPT ![w] = {}]
  /\ newReports' = [newReports EXCEPT ![w] = {}]

RollsBackAll ==
  /\ UNCHANGED <<domains, reports>>
  /\ newDomains' = [w \in Workers |-> {}]
  /\ newReports' = [w \in Workers |-> {}]

AddsDomain(d) ==
  /\ \A v \in Workers : d \notin newDomains[v]
  /\ domains' = domains \cup {d}
  /\ UNCHANGED <<reports, newDomains, newReports>>

DropsDomain(d) ==
  /\ \A w \in Workers : \A r \in newReports[w] : DomainOf(r) # d
  /\ Drop(d)
  /\ UNCHANGED <<newDomains, newReports>>

Effect ==
  \/ NoWrite \/ RollsBackAll
  \/ \E w \in Workers : Commits(w) \/ RollsBack(w)
  \/ \E w \in Workers, d \in Domain : WritesDomain(w, d)
  \/ \E w \in Workers, x \in Report : WritesReport(w, x)
  \/ \E d \in Domain : AddsDomain(d) \/ DropsDomain(d)

LEMMA IngestEffect ==
  ASSUME TypeOK, NEW w \in Workers, IngestStep(w)
  PROVE  Effect
<1>1. CASE OpenAttachment(w) \/ CheckDuplicate(w) \/ RouteDocument(w)
  BY <1>1 DEF Effect, NoWrite, OpenAttachment, CheckDuplicate, RouteDocument, dbVars
<1>2. CASE CreateDomain(w)
  <2>1. target[w] \in Domain
    BY <1>2 DEF CreateDomain, TypeOK, JobSet
  <2>2. target[w] \notin domains /\ \A v \in Workers : target[w] \notin newDomains[v]
    BY <1>2 DEF CreateDomain, CreateRefused, SeesDomains, Blocked, WaitsFor
  <2>3. WritesDomain(w, target[w])
    BY <1>2, <2>2 DEF CreateDomain, WritesDomain, dbVars
  <2>. QED
    BY <2>1, <2>3 DEF Effect
<1>3. CASE InsertReport(w)
  <2>1. Row(w) \in Report /\ DomainOf(Row(w)) = target[w] /\ Row(w).key = Key[Doc(w)]
    BY <1>3, RowType DEF InsertReport, InsertRefused
  <2>2. \A r \in reports \cup newReports[w] : r.key # Key[Doc(w)]
    BY <1>3 DEF InsertReport, InsertRefused, SeesReports
  <2>3. \A v \in Workers \ {w} : \A r \in newReports[v] : r.key # Key[Doc(w)]
    BY <1>3 DEF InsertReport, Blocked, WaitsFor
  <2>4. target[w] \in domains \cup newDomains[w]
    BY <1>3 DEF InsertReport, InsertRefused, SeesDomains
  <2>5. /\ newReports' = [newReports EXCEPT ![w] = @ \cup {Row(w)}]
        /\ UNCHANGED <<domains, reports, newDomains>>
    BY <1>3 DEF InsertReport, dbVars
  <2>6. WritesReport(w, Row(w))
    BY <2>1, <2>2, <2>3, <2>4, <2>5 DEF WritesReport
  <2>. QED
    BY <2>1, <2>6 DEF Effect
<1>. QED
  BY <1>1, <1>2, <1>3 DEF IngestStep

LEMMA RaiseEffect ==
  ASSUME NEW w \in Workers, Raise(w)
  PROVE  Effect
BY DEF Effect, RollsBack, Raise, Leave, Discard, dbVars

LEMMA PollStepEffect ==
  ASSUME TypeOK, NEW w \in Pollers, PollStep(w)
  PROVE  Effect
<1>. w \in Workers
  BY PollersWork
<1>1. CASE Search(w) \/ LoopEnds(w)
  BY <1>1 DEF Search, LoopEnds, Effect, NoWrite, dbVars, txnVars
<1>2. CASE \E m \in Mails : Fetch(w, m) \/ FetchNothing(w, m) \/ FetchAborts(w, m)
  BY <1>2 DEF Fetch, FetchNothing, FetchAborts, Effect, NoWrite, dbVars, txnVars
<1>3. CASE IngestOfPoll(w)
  BY <1>3, IngestEffect DEF IngestOfPoll
<1>4. CASE PollFlushFails(w)
  BY <1>4 DEF PollFlushFails, Discard, Effect, RollsBack, dbVars
<1>5. CASE SkipAttachment(w)
  BY <1>5 DEF SkipAttachment, Effect, NoWrite, dbVars, txnVars
<1>6. CASE FinishMail(w)
  <2>1. Raise(w) \/ NoWrite
    BY <1>6 DEF FinishMail, NoWrite, dbVars, txnVars
  <2>. QED
    BY <2>1, RaiseEffect DEF Effect
<1>7. CASE EndPoll(w)
  <2>1. Raise(w) \/ Commits(w)
    BY <1>7 DEF EndPoll, Publish, Leave, Discard, Commits
  <2>. QED
    BY <2>1, RaiseEffect DEF Effect
<1>. QED
  BY <1>1, <1>2, <1>3, <1>4, <1>5, <1>6, <1>7 DEF PollStep

LEMMA UploadStepEffect ==
  ASSUME TypeOK, NEW r \in Requests, UploadStep(r)
  PROVE  Effect
<1>. r \in Workers
  BY RequestsWork
<1>1. CASE TakeLoop(r) \/ AwaitFile(r)
  BY <1>1 DEF TakeLoop, AwaitFile, Effect, NoWrite, dbVars, txnVars
<1>2. CASE IngestOfUpload(r)
  BY <1>2, IngestEffect DEF IngestOfUpload
<1>3. CASE CommitUpload(r)
  BY <1>3 DEF CommitUpload, Publish, Leave, Discard, Effect, Commits
<1>4. CASE UploadFails(r)
  BY <1>4 DEF UploadFails, Leave, Discard, Effect, RollsBack, dbVars
<1>. QED
  BY <1>1, <1>2, <1>3, <1>4 DEF UploadStep

LEMMA NextEffect ==
  ASSUME TypeOK, [Next]_vars
  PROVE  Effect
<1>1. ASSUME NEW r \in Requests, Submit(r) \/ UploadStep(r)
      PROVE  Effect
  BY <1>1, UploadStepEffect DEF Submit, Effect, NoWrite, dbVars, txnVars
<1>2. ASSUME NEW w \in Pollers, PollStep(w)
      PROVE  Effect
  BY <1>2, PollStepEffect
<1>3. CASE PollAllEnabled
  BY <1>3 DEF PollAllEnabled, Effect, NoWrite, dbVars, txnVars
<1>4. ASSUME NEW b \in Mailboxes, PollNext(b)
      PROVE  Effect
  BY <1>4 DEF PollNext, BeginPoll, Effect, NoWrite, dbVars, txnVars
<1>5. ASSUME NEW t \in Threads, NEW b \in Mailboxes, NEW again \in BOOLEAN,
             PollInBackground(t, b, again)
      PROVE  Effect
  BY <1>5 DEF PollInBackground, BeginPoll, Effect, NoWrite, dbVars, txnVars
<1>6. CASE OtherStep
  <2>1. ASSUME NEW d \in Managed, AddDomain(d) \/ DeleteDomain(d)
        PROVE  Effect
    <3>1. d \in Domain
      BY PipelineAssumption
    <3>2. AddsDomain(d) \/ DropsDomain(d)
      BY <2>1 DEF AddDomain, DeleteDomain, Vanish, AddsDomain, DropsDomain, txnVars
    <3>. QED
      BY <3>1, <3>2 DEF Effect
  <2>2. ASSUME NEW m \in Mails, Deliver(m)
        PROVE  Effect
    BY <2>2 DEF Deliver, Effect, NoWrite, dbVars, txnVars
  <2>3. ASSUME NEW b \in Mailboxes, NEW s \in {"enabled", "disabled", "gone"}, ChangeMailbox(b, s)
        PROVE  Effect
    BY <2>3 DEF ChangeMailbox, Effect, NoWrite, dbVars, txnVars
  <2>. QED
    BY <1>6, <2>1, <2>2, <2>3 DEF OtherStep
<1>7. CASE Restart
  BY <1>7 DEF Restart, Effect, RollsBackAll, dbVars
<1>8. CASE UNCHANGED vars
  BY <1>8 DEF vars, Effect, NoWrite, dbVars, txnVars
<1>. QED
  BY <1>1, <1>2, <1>3, <1>4, <1>5, <1>6, <1>7, <1>8 DEF Next, OtherStep

----------------------------------------------------------------------------
(* The tables.                                                             *)

\* The inductive invariant behind UniqueReports and NoOrphans.
StoreInv == Exclusive /\ UniqueReports /\ NoOrphans

LEMMA InitStore == Init => StoreInv
BY DEF Init, StoreInv, Exclusive, UniqueReports, NoOrphans, UniqueKeys

LEMMA EffectKeepsStore ==
  ASSUME TypeOK, StoreInv, Effect
  PROVE  StoreInv'
<1>. USE DEF StoreInv, Exclusive, UniqueReports, NoOrphans, UniqueKeys
<1>. /\ newDomains \in [Workers -> SUBSET Domain]
     /\ newReports \in [Workers -> SUBSET Report]
  BY DEF TypeOK, TxnType
<1>1. CASE NoWrite
  BY <1>1 DEF NoWrite
<1>2. CASE RollsBackAll
  BY <1>2 DEF RollsBackAll
<1>3. ASSUME NEW w \in Workers, Commits(w)
      PROVE  StoreInv'
  <2>1. UniqueReports' /\ NoOrphans'
    BY <1>3 DEF Commits
  <2>2. Exclusive'
    BY <1>3 DEF Commits
  <2>. QED
    BY <2>1, <2>2
<1>4. ASSUME NEW w \in Workers, RollsBack(w)
      PROVE  StoreInv'
  BY <1>4 DEF RollsBack
<1>5. ASSUME NEW w \in Workers, NEW d \in Domain, WritesDomain(w, d)
      PROVE  StoreInv'
  BY <1>5 DEF WritesDomain
<1>6. ASSUME NEW w \in Workers, NEW x \in Report, WritesReport(w, x)
      PROVE  StoreInv'
  BY <1>6 DEF WritesReport
<1>7. ASSUME NEW d \in Domain, AddsDomain(d)
      PROVE  StoreInv'
  BY <1>7 DEF AddsDomain
<1>8. ASSUME NEW d \in Domain, DropsDomain(d)
      PROVE  StoreInv'
  BY <1>8 DEF DropsDomain, Drop
<1>. QED
  BY <1>1, <1>2, <1>3, <1>4, <1>5, <1>6, <1>7, <1>8 DEF Effect

LEMMA StoreInductive == Spec => [](TypeOK /\ StoreInv)
<1>1. TypeOK /\ StoreInv /\ [Next]_vars => StoreInv'
  BY NextEffect, EffectKeepsStore
<1>. QED
  BY <1>1, InitStore, InitType, NextType, PTL DEF Spec

\* No interleaving of pollers and uploads imports a report twice: not even
\* when two transactions pass the duplicate check of ingest_parsed for the
\* same report before either of them commits.
THEOREM ReportsUnique == Spec => []UniqueReports
<1>1. StoreInv => UniqueReports
  BY DEF StoreInv
<1>. QED
  BY <1>1, StoreInductive, PTL

\* Deleting a domain while reports for it are being written leaves no
\* report without its domain.
THEOREM ReportsHaveDomains == Spec => []NoOrphans
<1>1. StoreInv => NoOrphans
  BY DEF StoreInv
<1>. QED
  BY <1>1, StoreInductive, PTL

\* Open transactions never hold the same unique value, nor one that is
\* committed: what _ensure_domain and _persist have flushed can be committed.
THEOREM TransactionsExclusive == Spec => []Exclusive
<1>1. StoreInv => Exclusive
  BY DEF StoreInv
<1>. QED
  BY <1>1, StoreInductive, PTL

LEMMA EffectRefines ==
  ASSUME TypeOK, StoreInv, Effect
  PROVE  [StoreNext]_storeVars
<1>. /\ newDomains \in [Workers -> SUBSET Domain]
     /\ newReports \in [Workers -> SUBSET Report]
  BY DEF TypeOK, TxnType
<1>1. CASE UNCHANGED <<domains, reports>>
  BY <1>1 DEF storeVars
<1>2. ASSUME NEW w \in Workers, Commits(w)
      PROVE  StoreNext
  <2>1. domains' \ domains = newDomains[w]
    BY <1>2 DEF Commits, StoreInv, Exclusive
  <2>2. reports' \ reports = newReports[w]
    BY <1>2 DEF Commits, StoreInv, Exclusive
  <2>3. Import(newDomains[w], newReports[w])
    BY <1>2 DEF Import, Commits, StoreInv, Exclusive
  <2>. QED
    BY <2>1, <2>2, <2>3 DEF StoreNext
<1>3. ASSUME NEW d \in Domain, AddsDomain(d)
      PROVE  [StoreNext]_storeVars
  <2>1. Import(domains' \ domains, reports' \ reports)
    BY <1>3 DEF Import, AddsDomain, UniqueKeys
  <2>. QED
    BY <2>1 DEF StoreNext
<1>4. ASSUME NEW d \in Domain, DropsDomain(d)
      PROVE  StoreNext
  BY <1>4 DEF DropsDomain, StoreNext
<1>. QED
  BY <1>1, <1>2, <1>3, <1>4 DEF Effect, NoWrite, RollsBackAll, RollsBack, WritesDomain, WritesReport

\* The pipeline, with its transactions, retries, faults and restarts, is an
\* implementation of ReportStore: the read side sees imports as atomic
\* additions of new reports with their domains.
THEOREM PipelineImplementsStore == Spec => ImplementsStore
<1>1. Init => StoreInit
  BY PipelineAssumption DEF Init, StoreInit
<1>2. TypeOK /\ StoreInv /\ [Next]_vars => [StoreNext]_storeVars
  BY NextEffect, EffectRefines
<1>. QED
  BY <1>1, <1>2, StoreInductive, PTL DEF Spec, ImplementsStore, StoreSpec

----------------------------------------------------------------------------
(* The import log.                                                         *)

\* An "ok" line that a transaction has written goes with a report it has
\* written.
LogInv ==
  \A w \in Workers : \A e \in newLog[w] :
    e.status = "ok" => \E r \in newReports[w] : r.doc = e.item

\* What a step does to the log, open transactions included.
LogEffect ==
  \/ UNCHANGED <<ingestLog, newLog, newReports>>
  \/ \E w \in Workers, e \in LogEntry :
       /\ e.status # "ok"
       /\ newLog' = [newLog EXCEPT ![w] = @ \cup {e}]
       /\ UNCHANGED <<ingestLog, newReports>>
  \/ \E w \in Workers, e \in LogEntry, x \in Report :
       /\ x.doc = e.item
       /\ newLog' = [newLog EXCEPT ![w] = @ \cup {e}]
       /\ newReports' = [newReports EXCEPT ![w] = @ \cup {x}]
       /\ UNCHANGED ingestLog
  \/ \E w \in Workers : Publish(w) /\ Discard(w)
  \/ \E w \in Workers : Discard(w) /\ UNCHANGED ingestLog
  \/ /\ newLog' = [w \in Workers |-> {}] /\ newReports' = [w \in Workers |-> {}]
     /\ UNCHANGED ingestLog

LEMMA EntryType ==
  ASSUME TypeOK, NEW w \in Workers, pc[w] \in {"files", "check", "route", "create", "insert"},
         NEW item \in Docs \cup Attachment, NEW status \in {"ok", "dup", "ignored", "error"}
  PROVE  /\ Entry(w, item, status) \in LogEntry
         /\ Entry(w, item, status).item = item /\ Entry(w, item, status).status = status
BY UnitIsUnit DEF Entry, LogEntry

LEMMA IngestLogEffect ==
  ASSUME TypeOK, NEW w \in Workers, IngestStep(w)
  PROVE  LogEffect
<1>1. CASE OpenAttachment(w)
  <2>1. Head(files[w]) \in Attachment /\ pc[w] = "files"
    BY <1>1 DEF OpenAttachment, TypeOK, JobType
  <2>2. UNCHANGED newLog \/ AddLog(w, Head(files[w]), "error")
    BY <1>1 DEF OpenAttachment
  <2>. QED
    BY <1>1, <2>1, <2>2, EntryType DEF OpenAttachment, LogEffect, AddLog, dbVars
<1>2. CASE CheckDuplicate(w)
  <2>1. Doc(w) \in Docs /\ pc[w] = "check"
    BY <1>2, DocType DEF CheckDuplicate
  <2>2. UNCHANGED newLog \/ AddLog(w, Doc(w), "dup")
    BY <1>2 DEF CheckDuplicate
  <2>. QED
    BY <1>2, <2>1, <2>2, EntryType DEF CheckDuplicate, LogEffect, AddLog, dbVars
<1>3. CASE RouteDocument(w)
  <2>1. Doc(w) \in Docs /\ pc[w] = "route"
    BY <1>3, DocType DEF RouteDocument
  <2>2. UNCHANGED newLog \/ AddLog(w, Doc(w), "ignored")
    BY <1>3 DEF RouteDocument
  <2>. QED
    BY <1>3, <2>1, <2>2, EntryType DEF RouteDocument, LogEffect, AddLog, dbVars
<1>4. CASE CreateDomain(w)
  BY <1>4 DEF CreateDomain, LogEffect, dbVars
<1>5. CASE InsertReport(w)
  <2>1. /\ pc[w] = "insert" /\ Doc(w) \in Docs /\ Row(w) \in Report
        /\ Row(w).doc = Doc(w)
    BY <1>5, DocType, RowType DEF InsertReport, InsertRefused
  <2>. QED
    <3>1. /\ newLog' = [newLog EXCEPT ![w] = @ \cup {Entry(w, Doc(w), "ok")}]
          /\ newReports' = [newReports EXCEPT ![w] = @ \cup {Row(w)}]
          /\ UNCHANGED ingestLog
      BY <1>5 DEF InsertReport, AddLog, dbVars
    <3>2. Entry(w, Doc(w), "ok") \in LogEntry /\ Entry(w, Doc(w), "ok").item = Doc(w)
      BY <2>1, EntryType
    <3>. QED
      BY <2>1, <3>1, <3>2 DEF LogEffect
<1>. QED
  BY <1>1, <1>2, <1>3, <1>4, <1>5 DEF IngestStep

LEMMA PollLogEffect ==
  ASSUME TypeOK, NEW w \in Pollers, PollStep(w)
  PROVE  LogEffect
<1>. w \in Workers
  BY PollersWork
<1>. USE DEF LogEffect, dbVars, txnVars
<1>1. CASE Search(w) \/ LoopEnds(w)
  BY <1>1 DEF Search, LoopEnds
<1>2. CASE \E m \in Mails : Fetch(w, m) \/ FetchNothing(w, m) \/ FetchAborts(w, m)
  BY <1>2 DEF Fetch, FetchNothing, FetchAborts
<1>3. CASE IngestOfPoll(w)
  BY <1>3, IngestLogEffect DEF IngestOfPoll
<1>4. CASE PollFlushFails(w)
  BY <1>4 DEF PollFlushFails
<1>5. CASE SkipAttachment(w)
  BY <1>5 DEF SkipAttachment
<1>6. CASE FinishMail(w)
  BY <1>6 DEF FinishMail, Raise, Leave
<1>7. CASE EndPoll(w)
  BY <1>7 DEF EndPoll, Raise, Leave
<1>. QED
  BY <1>1, <1>2, <1>3, <1>4, <1>5, <1>6, <1>7 DEF PollStep

LEMMA NextLogEffect ==
  ASSUME TypeOK, [Next]_vars
  PROVE  LogEffect
<1>1. ASSUME NEW r \in Requests, Submit(r) \/ UploadStep(r)
      PROVE  LogEffect
  <2>1. r \in Workers
    BY RequestsWork
  <2>2. CASE IngestOfUpload(r)
    BY <2>1, <2>2, IngestLogEffect DEF IngestOfUpload
  <2>3. CASE CommitUpload(r) \/ UploadFails(r)
    BY <2>1, <2>3 DEF CommitUpload, UploadFails, Leave, LogEffect, dbVars
  <2>4. CASE Submit(r) \/ TakeLoop(r) \/ AwaitFile(r)
    BY <2>4 DEF Submit, TakeLoop, AwaitFile, LogEffect, dbVars, txnVars
  <2>. QED
    BY <1>1, <2>2, <2>3, <2>4 DEF UploadStep
<1>2. ASSUME NEW w \in Pollers, PollStep(w)
      PROVE  LogEffect
  BY <1>2, PollLogEffect
<1>3. CASE PollAllEnabled \/ \E b \in Mailboxes : PollNext(b)
  BY <1>3 DEF PollAllEnabled, PollNext, BeginPoll, LogEffect, dbVars, txnVars
<1>4. ASSUME NEW t \in Threads, NEW b \in Mailboxes, NEW again \in BOOLEAN,
             PollInBackground(t, b, again)
      PROVE  LogEffect
  BY <1>4 DEF PollInBackground, BeginPoll, LogEffect, dbVars, txnVars
<1>5. CASE OtherStep
  BY <1>5 DEF OtherStep, Deliver, AddDomain, DeleteDomain, Vanish, ChangeMailbox, LogEffect,
              dbVars, txnVars
<1>6. CASE Restart
  BY <1>6 DEF Restart, LogEffect, dbVars
<1>7. CASE UNCHANGED vars
  BY <1>7 DEF vars, LogEffect, dbVars, txnVars
<1>. QED
  BY <1>1, <1>2, <1>3, <1>4, <1>5, <1>6, <1>7 DEF Next, OtherStep

LEMMA LogEffectKeepsLog ==
  ASSUME TypeOK, LogInv, LogEffect
  PROVE  LogInv'
<1>. /\ newLog \in [Workers -> SUBSET LogEntry]
     /\ newReports \in [Workers -> SUBSET Report]
  BY DEF TypeOK, TxnType
<1>. QED
  BY DEF LogInv, LogEffect, Discard

LEMMA OkLineHasReport ==
  ASSUME TypeOK, StoreInv, LogInv, LogEffect,
         NEW e \in ingestLog' \ ingestLog, e.status = "ok"
  PROVE  \E r \in reports' \ reports : r.doc = e.item
<1>1. PICK w \in Workers : Publish(w)
  BY DEF LogEffect
<1>2. PICK r \in newReports[w] : r.doc = e.item
  BY <1>1 DEF Publish, LogInv
<1>3. r \notin reports /\ r \in reports'
  BY <1>1, <1>2 DEF StoreInv, Exclusive, Publish
<1>. QED
  BY <1>2, <1>3

\* A line "ok" of the import log is never committed without the report it
\* speaks of, in any interleaving and after any failed flush: the two INSERTs
\* of _persist and _log share one transaction.
THEOREM OkMeansImported == Spec => LogTellsTruth
<1>1. Init => LogInv
  BY DEF Init, LogInv
<1>2. TypeOK /\ LogInv /\ [Next]_vars => LogInv'
  BY NextLogEffect, LogEffectKeepsLog
<1>3. TypeOK /\ StoreInv /\ LogInv /\ [Next]_vars =>
        [\A e \in ingestLog' \ ingestLog : e.status = "ok" =>
           \E r \in reports' \ reports : r.doc = e.item]_vars
  BY NextLogEffect, OkLineHasReport
<1>. QED
  BY <1>1, <1>2, <1>3, StoreInductive, PTL DEF Spec, LogTellsTruth

----------------------------------------------------------------------------
(* Mailboxes in flight.                                                    *)

\* What a step does to _in_flight and to the background threads.
ThreadsSame ==
  /\ UNCHANGED inFlight
  /\ \A t \in Threads : source'[t] = source[t] /\ (pc'[t] = "idle" <=> pc[t] = "idle")

ThreadStarts(t, b) ==
  /\ b \notin inFlight /\ inFlight' = inFlight \cup {b}
  /\ pc[t] = "idle" /\ pc'[t] # "idle" /\ source'[t] = b
  /\ \A u \in Threads \ {t} : source'[u] = source[u] /\ pc'[u] = pc[u]

ThreadEnds(t) ==
  /\ pc[t] # "idle" /\ pc'[t] = "idle"
  /\ inFlight' = inFlight \ {source[t]}
  /\ \A u \in Threads \ {t} : source'[u] = source[u] /\ pc'[u] = pc[u]

ThreadsDie == inFlight' = {} /\ \A t \in Threads : pc'[t] = "idle"

ThreadEffect ==
  \/ ThreadsSame \/ ThreadsDie
  \/ \E t \in Threads, b \in Mailboxes : ThreadStarts(t, b)
  \/ \E t \in Threads : ThreadEnds(t)

LEMMA InFlightKept ==
  ASSUME InFlightExact, ThreadEffect
  PROVE  InFlightExact'
<1>1. CASE ThreadsSame
  BY <1>1 DEF InFlightExact, ThreadsSame
<1>2. CASE ThreadsDie
  BY <1>2 DEF InFlightExact, ThreadsDie
<1>3. ASSUME NEW t \in Threads, NEW b \in Mailboxes, ThreadStarts(t, b)
      PROVE  InFlightExact'
  BY <1>3 DEF InFlightExact, ThreadStarts
<1>4. ASSUME NEW t \in Threads, ThreadEnds(t)
      PROVE  InFlightExact'
  BY <1>4 DEF InFlightExact, ThreadEnds
<1>. QED
  BY <1>1, <1>2, <1>3, <1>4 DEF ThreadEffect

\* A worker that is at work goes on working.
LEMMA GoesOn ==
  ASSUME TypeOK, NEW w \in Workers, pc[w] # "idle" \/ w \notin Threads,
         UNCHANGED <<inFlight, source>>,
         NEW l \in Labels \ {"idle"}, UNCHANGED pc \/ Goto(w, l)
  PROVE  ThreadEffect
BY PollersWork DEF ThreadEffect, ThreadsSame, Goto, TypeOK, JobType

LEMMA IngestThreads ==
  ASSUME TypeOK, NEW w \in Workers, IngestStep(w), UNCHANGED inFlight
  PROVE  ThreadEffect
<1>1. UNCHANGED source
  BY DEF IngestStep, OpenAttachment, CheckDuplicate, RouteDocument, CreateDomain,
         InsertReport, ingestVars
<1>2. pc[w] # "idle"
  BY DEF IngestStep, OpenAttachment, CheckDuplicate, RouteDocument, CreateDomain, InsertReport
<1>3. PICK l \in Labels \ {"idle"} : UNCHANGED pc \/ Goto(w, l)
  BY DEF IngestStep, OpenAttachment, CheckDuplicate, RouteDocument, CreateDomain,
         InsertReport, NextDoc, Labels
<1>. QED
  BY <1>1, <1>2, <1>3, GoesOn

\* A worker ends its poll or request.
LEMMA LeaveThreads ==
  ASSUME TypeOK, NEW w \in Workers, pc[w] # "idle", Leave(w), Release(w)
  PROVE  ThreadEffect
<1>1. pc' = [pc EXCEPT ![w] = "idle"] /\ source' = [source EXCEPT ![w] = None]
  BY DEF Leave, Goto
<1>2. CASE w \in Threads
  BY <1>1, <1>2, PollersWork DEF ThreadEffect, ThreadEnds, Release, TypeOK, JobType
<1>3. CASE w \notin Threads
  BY <1>1, <1>3, PollersWork DEF ThreadEffect, ThreadsSame, Release, TypeOK, JobType
<1>. QED
  BY <1>2, <1>3

LEMMA PollThreads ==
  ASSUME TypeOK, NEW w \in Pollers, PollStep(w)
  PROVE  ThreadEffect
<1>. w \in Workers
  BY PollersWork
<1>1. CASE Search(w) \/ LoopEnds(w)
  <2>1. PICK l \in {"fetch", "end"} : Goto(w, l)
    BY <1>1 DEF Search, LoopEnds
  <2>2. UNCHANGED <<inFlight, source>> /\ pc[w] # "idle"
    BY <1>1 DEF Search, LoopEnds, ingestVars
  <2>. QED
    BY <2>1, <2>2, GoesOn DEF Labels
<1>2. CASE \E m \in Mails : Fetch(w, m) \/ FetchNothing(w, m) \/ FetchAborts(w, m)
  <2>1. UNCHANGED <<inFlight, source>> /\ pc[w] = "fetch"
    BY <1>2 DEF Fetch, FetchNothing, FetchAborts, ingestVars
  <2>2. PICK l \in {"end", "files"} : UNCHANGED pc \/ Goto(w, l)
    BY <1>2 DEF Fetch, FetchNothing, FetchAborts
  <2>. QED
    BY <2>1, <2>2, GoesOn DEF Labels
<1>3. CASE IngestOfPoll(w)
  BY <1>3, IngestThreads DEF IngestOfPoll
<1>4. CASE PollFlushFails(w)
  <2>1. Goto(w, "files") /\ UNCHANGED <<inFlight, source>> /\ pc[w] # "idle"
    BY <1>4 DEF PollFlushFails, FlushRefused
  <2>. QED
    BY <2>1, GoesOn DEF Labels
<1>5. CASE SkipAttachment(w)
  BY <1>5 DEF SkipAttachment, ThreadEffect, ThreadsSame
<1>6. CASE FinishMail(w)
  <2>1. CASE Raise(w)
    BY <1>6, <2>1, LeaveThreads DEF FinishMail, Raise
  <2>2. CASE ~Raise(w)
    <3>1. Goto(w, "fetch") /\ UNCHANGED <<inFlight, source>> /\ pc[w] # "idle"
      BY <1>6, <2>2 DEF FinishMail, pollVars
    <3>. QED
      BY <3>1, GoesOn DEF Labels
  <2>. QED
    BY <2>1, <2>2
<1>7. CASE EndPoll(w)
  BY <1>7, LeaveThreads DEF EndPoll, Raise
<1>. QED
  BY <1>1, <1>2, <1>3, <1>4, <1>5, <1>6, <1>7 DEF PollStep

LEMMA NextThreads ==
  ASSUME TypeOK, [Next]_vars
  PROVE  ThreadEffect
<1>1. ASSUME NEW r \in Requests, Submit(r) \/ UploadStep(r)
      PROVE  ThreadEffect
  <2>1. r \in Workers /\ r \notin Threads
    BY PipelineAssumption DEF Pollers
  <2>2. CASE IngestOfUpload(r)
    BY <2>1, <2>2, IngestThreads DEF IngestOfUpload
  <2>3. CASE CommitUpload(r) \/ UploadFails(r)
    BY <2>1, <2>3, PollersWork
       DEF CommitUpload, UploadFails, Leave, Goto, ThreadEffect, ThreadsSame, TypeOK, JobType
  <2>4. CASE Submit(r) \/ TakeLoop(r) \/ AwaitFile(r)
    BY <2>1, <2>4, PollersWork
       DEF Submit, TakeLoop, AwaitFile, Goto, ingestVars, ThreadEffect, ThreadsSame, TypeOK, JobType
  <2>. QED
    BY <1>1, <2>2, <2>3, <2>4 DEF UploadStep
<1>2. ASSUME NEW w \in Pollers, PollStep(w)
      PROVE  ThreadEffect
  BY <1>2, PollThreads
<1>3. CASE PollAllEnabled
  BY <1>3 DEF PollAllEnabled, ingestVars, ThreadEffect, ThreadsSame
<1>4. ASSUME NEW b \in Mailboxes, PollNext(b)
      PROVE  ThreadEffect
  <2>1. UNCHANGED inFlight /\ Scheduler \notin Threads
    BY <1>4, ImapAssumption DEF PollNext
  <2>2. \A t \in Threads : source'[t] = source[t] /\ pc'[t] = pc[t]
    BY <1>4, <2>1, PollersWork DEF PollNext, BeginPoll, Goto, ingestVars, TypeOK, JobType
  <2>. QED
    BY <2>1, <2>2 DEF ThreadEffect, ThreadsSame
<1>5. ASSUME NEW t \in Threads, NEW b \in Mailboxes, NEW again \in BOOLEAN,
             PollInBackground(t, b, again)
      PROVE  ThreadEffect
  BY <1>5, PollersWork DEF PollInBackground, BeginPoll, Goto, ThreadEffect, ThreadStarts,
                           TypeOK, JobType
<1>6. CASE OtherStep
  BY <1>6 DEF OtherStep, Deliver, AddDomain, DeleteDomain, Vanish, ChangeMailbox, ingestVars,
              ThreadEffect, ThreadsSame
<1>7. CASE Restart
  BY <1>7, PollersWork DEF Restart, ThreadEffect, ThreadsDie
<1>8. CASE UNCHANGED vars
  BY <1>8 DEF vars, ingestVars, ThreadEffect, ThreadsSame
<1>. QED
  BY <1>1, <1>2, <1>3, <1>4, <1>5, <1>6, <1>7, <1>8 DEF Next, OtherStep

\* _in_flight always names exactly the mailboxes that background threads
\* are polling: a mailbox is never left behind in it, whichever way a poll
\* ends, and never polled by two of these threads.
THEOREM InFlightIsExact == Spec => []InFlightExact
<1>1. Init => InFlightExact
  BY PollersWork DEF Init, InFlightExact
<1>2. TypeOK /\ InFlightExact /\ [Next]_vars => InFlightExact'
  BY NextThreads, InFlightKept
<1>. QED
  BY <1>1, <1>2, TypeCorrect, PTL DEF Spec

----------------------------------------------------------------------------
(* Tenants.                                                                *)

\* What makes StaysInReach inductive: a worker without a job has written
\* nothing, and the domain a document is routed to is within reach.
ReachOf(w) ==
  /\ pc[w] = "idle" => newDomains[w] = {} /\ newReports[w] = {}
  /\ pc[w] = "create" \/ (pc[w] = "insert" /\ target[w] # None) =>
       target[w].tenant \in Reach[source[w]]
  /\ \A x \in newDomains[w] \cup newReports[w] : x.tenant \in Reach[source[w]]

ReachInv == \A w \in Workers : ReachOf(w)

\* The step leaves worker v alone.
Alone(v) ==
  /\ pc'[v] = pc[v] /\ source'[v] = source[v] /\ target'[v] = target[v]
  /\ newDomains'[v] = newDomains[v] /\ newReports'[v] = newReports[v]

\* The worker has the same transaction and is not about to write.
Rests(w) ==
  /\ pc[w] # "idle" /\ pc'[w] \notin {"idle", "create", "insert"}
  /\ source'[w] = source[w]
  /\ newDomains'[w] = newDomains[w] /\ newReports'[w] = newReports[w]

Emptied(w) ==
  /\ newDomains'[w] = {} /\ newReports'[w] = {} /\ pc'[w] \notin {"create", "insert"}

LEMMA AloneReach == ASSUME NEW v \in Workers, ReachOf(v), Alone(v) \/ Rests(v) \/ Emptied(v)
                    PROVE  ReachOf(v)'
BY DEF ReachOf, Alone, Rests, Emptied

LEMMA IngestReach ==
  ASSUME TypeOK, ReachInv, NEW w \in Workers, IngestStep(w)
  PROVE  ReachInv'
<1>. ReachOf(w)
  BY DEF ReachInv
<1>. USE DEF TypeOK, TxnType, JobType
<1>1. UNCHANGED source
  BY DEF IngestStep, OpenAttachment, CheckDuplicate, RouteDocument, CreateDomain,
         InsertReport, ingestVars
<1>2. ASSUME NEW v \in Workers, v # w
      PROVE  Alone(v)
  BY <1>1, <1>2 DEF Alone, IngestStep, OpenAttachment, CheckDuplicate, RouteDocument, CreateDomain,
                    InsertReport, NextDoc, Goto, ingestVars
<1>3. CASE OpenAttachment(w) \/ CheckDuplicate(w)
  <2>1. Rests(w)
    BY <1>1, <1>3 DEF Rests, OpenAttachment, CheckDuplicate, NextDoc, Goto
  <2>. QED
    BY <1>2, <2>1, AloneReach DEF ReachInv
<1>4. CASE RouteDocument(w)
  <2>1. ReachOf(w)'
    <3>1. CASE \E d \in Eligible(w) : target' = [target EXCEPT ![w] = d] /\ Goto(w, "insert")
      <4>1. \A d \in Eligible(w) : d.tenant \in Reach[source[w]]
        BY DEF Eligible, Matches
      <4>2. pc[w] = "route" /\ UNCHANGED <<newDomains, newReports>>
        BY <1>4 DEF RouteDocument
      <4>. QED
        BY <1>1, <3>1, <4>1, <4>2 DEF ReachOf, Goto
    <3>2. CASE /\ MayCreate(w)
               /\ target' = [target EXCEPT ![w] =
                    [name |-> Policy[Doc(w)], tenant |-> CHOOSE t \in Tenants : Reach[source[w]] = {t}]]
               /\ Goto(w, "create")
      <4>1. source[w] \in Sources
        BY <1>4, ImapAssumption DEF RouteDocument, JobSet
      <4>2. \E t \in Tenants : Reach[source[w]] = {t}
        BY <3>2, <4>1, IngestAssumption DEF MayCreate
      <4>3. target'[w].tenant \in Reach[source[w]]
        BY <3>2, <4>2
      <4>4. pc[w] = "route" /\ UNCHANGED <<newDomains, newReports>>
        BY <1>4 DEF RouteDocument
      <4>. QED
        BY <1>1, <3>2, <4>3, <4>4 DEF ReachOf, Goto
    <3>3. CASE NextDoc(w)
      <4>1. Rests(w)
        BY <1>1, <1>4, <3>3 DEF Rests, RouteDocument, NextDoc, Goto
      <4>. QED
        BY <4>1, AloneReach
    <3>. QED
      BY <1>4, <3>1, <3>2, <3>3 DEF RouteDocument
  <2>. QED
    BY <1>2, <2>1, AloneReach DEF ReachInv
<1>5. CASE CreateDomain(w)
  <2>1. ReachOf(w)'
    BY <1>1, <1>5 DEF ReachOf, CreateDomain, Goto, ingestVars
  <2>. QED
    BY <1>2, <2>1, AloneReach DEF ReachInv
<1>6. CASE InsertReport(w)
  <2>1. /\ newReports'[w] = newReports[w] \cup {Row(w)} /\ UNCHANGED newDomains
        /\ pc[w] = "insert" /\ pc'[w] \in {"files", "check"}
    BY <1>6 DEF InsertReport, NextDoc, Goto
  <2>2. Row(w).tenant = target[w].tenant /\ target[w] # None
    <3>1. target[w] \in domains \cup newDomains[w]
      BY <1>6 DEF InsertReport, InsertRefused, SeesDomains
    <3>2. domains \cup newDomains[w] \subseteq Domain
      BY DEF TypeOK, DbType, TxnType
    <3>. QED
      BY <3>1, <3>2, PipelineAssumption DEF Row
  <2>3. ReachOf(w)'
    BY <1>1, <2>1, <2>2 DEF ReachOf
  <2>. QED
    BY <1>2, <2>3, AloneReach DEF ReachInv
<1>. QED
  BY <1>3, <1>4, <1>5, <1>6 DEF IngestStep

\* The worker ends its job, however it ends.
LEMMA LeaveReach ==
  ASSUME TypeOK, ReachInv, NEW w \in Workers, Leave(w)
  PROVE  ReachInv'
<1>1. Emptied(w)
  BY DEF Emptied, Leave, Discard, Goto, TypeOK, TxnType, JobType
<1>2. ASSUME NEW v \in Workers, v # w
      PROVE  Alone(v)
  BY <1>2 DEF Alone, Leave, Discard, Goto, TypeOK, TxnType, JobType
<1>. QED
  BY <1>1, <1>2, AloneReach DEF ReachInv

\* A job begins: its transaction is empty.
LEMMA BeginReach ==
  ASSUME TypeOK, ReachInv, NEW w \in Workers, pc[w] = "idle",
         NEW s, source' = [source EXCEPT ![w] = s], NEW l \in {"search", "files"}, Goto(w, l),
         UNCHANGED <<target, newDomains, newReports>>
  PROVE  ReachInv'
<1>1. Emptied(w)
  BY DEF Emptied, Goto, ReachInv, ReachOf, TypeOK, JobType
<1>2. ASSUME NEW v \in Workers, v # w
      PROVE  Alone(v)
  BY <1>2 DEF Alone, Goto, TypeOK, JobType
<1>. QED
  BY <1>1, <1>2, AloneReach DEF ReachInv

\* Worker w moves to a label where nothing is written.
LEMMA RestReach ==
  ASSUME TypeOK, ReachInv, NEW w \in Workers, Rests(w) \/ Emptied(w),
         \A v \in Workers \ {w} : Alone(v)
  PROVE  ReachInv'
BY AloneReach DEF ReachInv

LEMMA PollReach ==
  ASSUME TypeOK, ReachInv, NEW w \in Pollers, PollStep(w)
  PROVE  ReachInv'
<1>. w \in Workers
  BY PollersWork
<1>. USE DEF TypeOK, TxnType, JobType
<1>1. CASE Search(w) \/ LoopEnds(w)
  <2>1. Rests(w) /\ \A v \in Workers \ {w} : Alone(v)
    BY <1>1 DEF Search, LoopEnds, Rests, Alone, Goto, txnVars, ingestVars
  <2>. QED
    BY <2>1, RestReach
<1>2. CASE \E m \in Mails : Fetch(w, m) \/ FetchNothing(w, m) \/ FetchAborts(w, m)
  <2>1. PICK l \in {"fetch", "end", "files"} : pc' = [pc EXCEPT ![w] = l]
    BY <1>2 DEF Fetch, FetchNothing, FetchAborts, Goto
  <2>2. UNCHANGED <<source, target, newDomains, newReports>> /\ pc[w] = "fetch"
    BY <1>2 DEF Fetch, FetchNothing, FetchAborts, txnVars, ingestVars
  <2>3. Rests(w) /\ \A v \in Workers \ {w} : Alone(v)
    BY <2>1, <2>2 DEF Rests, Alone
  <2>. QED
    BY <2>3, RestReach
<1>3. CASE IngestOfPoll(w)
  BY <1>3, IngestReach DEF IngestOfPoll
<1>4. CASE PollFlushFails(w)
  <2>1. Emptied(w) /\ \A v \in Workers \ {w} : Alone(v)
    BY <1>4 DEF PollFlushFails, Discard, Emptied, Alone, Goto
  <2>. QED
    BY <2>1, RestReach
<1>5. CASE SkipAttachment(w)
  <2>1. Rests(w) /\ \A v \in Workers \ {w} : Alone(v)
    BY <1>5 DEF SkipAttachment, Rests, Alone, txnVars
  <2>. QED
    BY <2>1, RestReach
<1>6. CASE FinishMail(w)
  <2>1. CASE Raise(w)
    BY <2>1, LeaveReach DEF Raise
  <2>2. CASE ~Raise(w)
    <3>1. Rests(w) /\ \A v \in Workers \ {w} : Alone(v)
      BY <1>6, <2>2 DEF FinishMail, Rests, Alone, Goto, txnVars
    <3>. QED
      BY <3>1, RestReach
  <2>. QED
    BY <2>1, <2>2
<1>7. CASE EndPoll(w)
  BY <1>7, LeaveReach DEF EndPoll, Raise
<1>. QED
  BY <1>1, <1>2, <1>3, <1>4, <1>5, <1>6, <1>7 DEF PollStep

LEMMA NextReach ==
  ASSUME TypeOK, ReachInv, [Next]_vars
  PROVE  ReachInv'
<1>1. ASSUME NEW r \in Requests, Submit(r) \/ UploadStep(r)
      PROVE  ReachInv'
  <2>1. r \in Workers
    BY RequestsWork
  <2>2. CASE IngestOfUpload(r)
    BY <2>1, <2>2, IngestReach DEF IngestOfUpload
  <2>3. CASE CommitUpload(r) \/ UploadFails(r)
    BY <2>1, <2>3, LeaveReach DEF CommitUpload, UploadFails
  <2>4. CASE Submit(r)
    BY <2>1, <2>4, BeginReach DEF Submit, txnVars
  <2>5. CASE TakeLoop(r) \/ AwaitFile(r)
    BY <2>5 DEF TakeLoop, AwaitFile, ReachInv, ReachOf, txnVars, ingestVars
  <2>. QED
    BY <1>1, <2>2, <2>3, <2>4, <2>5 DEF UploadStep
<1>2. ASSUME NEW w \in Pollers, PollStep(w)
      PROVE  ReachInv'
  BY <1>2, PollReach
<1>3. ASSUME NEW w \in Pollers, NEW b \in Mailboxes, NEW again \in BOOLEAN, BeginPoll(w, b, again)
      PROVE  ReachInv'
  BY <1>3, BeginReach, PollersWork DEF BeginPoll, txnVars
<1>4. ASSUME NEW b \in Mailboxes, PollNext(b)
      PROVE  ReachInv'
  <2>1. CASE BeginPoll(Scheduler, b, FALSE)
    BY <1>3, <2>1, PollersWork
  <2>2. CASE UNCHANGED <<txnVars, pc, ingestVars>>
    BY <2>2 DEF ReachInv, ReachOf, txnVars, ingestVars
  <2>. QED
    BY <1>4, <2>1, <2>2 DEF PollNext
<1>5. ASSUME NEW t \in Threads, NEW b \in Mailboxes, NEW again \in BOOLEAN,
             PollInBackground(t, b, again)
      PROVE  ReachInv'
  BY <1>3, <1>5 DEF PollInBackground, Pollers
<1>6. CASE PollAllEnabled \/ OtherStep \/ UNCHANGED vars
  <2>1. UNCHANGED <<txnVars, pc, source>>
    BY <1>6 DEF PollAllEnabled, OtherStep, Deliver, AddDomain, DeleteDomain, Vanish, ChangeMailbox,
                vars, txnVars, ingestVars
  <2>2. \A v \in Workers : target'[v] = target[v] \/ (target'[v] = None /\ pc[v] = "insert")
    BY <1>6 DEF PollAllEnabled, OtherStep, Deliver, AddDomain, DeleteDomain, Vanish, ChangeMailbox,
                vars, ingestVars
  <2>3. ASSUME NEW v \in Workers PROVE ReachOf(v)'
    <3>1. ReachOf(v) /\ UNCHANGED <<pc, source, newDomains, newReports>>
      BY <2>1 DEF ReachInv, txnVars
    <3>2. CASE target'[v] = target[v]
      BY <3>1, <3>2 DEF ReachOf
    <3>3. CASE target'[v] = None /\ pc[v] = "insert"
      BY <3>1, <3>3 DEF ReachOf
    <3>. QED
      BY <2>2, <3>2, <3>3
  <2>. QED
    BY <2>3 DEF ReachInv
<1>7. CASE Restart
  BY <1>7 DEF Restart, ReachInv, ReachOf
<1>. QED
  BY <1>1, <1>2, <1>4, <1>5, <1>6, <1>7 DEF Next, OtherStep

\* A report never ends up with a customer the mailbox does not serve, or
\* with another customer than the uploader's: the reseller routing and
\* _ensure_domain pick the domain several steps before the row is written.
THEOREM RoutingStaysInReach == Spec => []StaysInReach
<1>1. Init => ReachInv
  BY DEF Init, ReachInv, ReachOf
<1>2. TypeOK /\ ReachInv /\ [Next]_vars => ReachInv'
  BY NextReach
<1>3. ReachInv => StaysInReach
  BY DEF ReachInv, ReachOf, StaysInReach
<1>. QED
  BY <1>1, <1>2, <1>3, TypeCorrect, PTL DEF Spec
============================================================================
