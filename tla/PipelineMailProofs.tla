------------------------ MODULE PipelineMailProofs ------------------------
(***************************************************************************)
(* No mail is lost between the IMAP server and the import log: for every   *)
(* value of the constants of ReportPipeline.                               *)
(***************************************************************************)
EXTENDS ReportPipelineProofs, SequenceTheorems

\* What the log has to have a line for, once an attachment has been handled.
Items(a) == CASE a.parse = "ok"    -> {a.docs[j] : j \in DOMAIN a.docs}
              [] a.parse = "error" -> {a}
              [] a.parse = "crash" -> {}

Logged(log, m, x) == \E e \in log : e.unit = m /\ e.item = x

Working == {"files", "check", "route", "create", "insert"}

\* Worker w is at mail m and has item x still before it.
Pending(w, m, x) ==
  /\ unit[w] = m /\ pc[w] \in Working
  /\ \/ \E j \in DOMAIN files[w] : x \in Items(files[w][j])
     \/ pc[w] # "files" /\ \E j \in DOMAIN todo[w] : x = todo[w][j]

\* If the transaction of w can be committed, it will account for mail m.
Covers(w, m) ==
  \/ broken[w]
  \/ \A i \in DOMAIN Parts[m] : \A x \in Items(Parts[m][i]) :
       Logged(ingestLog \cup newLog[w], m, x) \/ Pending(w, m, x)

\* Poller w answers for m: it accounts for it, or m will be excused.
Holds(w, m) == m \in got[w] /\ (rescan[w] => m \in moved) /\ Covers(w, m)

MailInv ==
  /\ \A m \in (seen \cup moved) \ excused : Accounted(m) \/ \E w \in Pollers : Holds(w, m)
  /\ \A w \in Pollers :
       /\ pc[w] = "idle" => got[w] = {}
       /\ pc[w] \in Working =>
            unit[w] \in got[w] /\ Covers(w, unit[w])

\* A step does not touch worker v.
Stays(v) ==
  /\ newLog'[v] = newLog[v] /\ broken'[v] = broken[v] /\ pc'[v] = pc[v] /\ unit'[v] = unit[v]
  /\ files'[v] = files[v] /\ todo'[v] = todo[v] /\ got'[v] = got[v] /\ rescan'[v] = rescan[v]

LEMMA AccountedMeans ==
  ASSUME NEW m
  PROVE  /\ Accounted(m) <=> \A i \in DOMAIN Parts[m] : \A x \in Items(Parts[m][i]) :
                              Logged(ingestLog, m, x)
         /\ Accounted(m)' <=> \A i \in DOMAIN Parts[m] : \A x \in Items(Parts[m][i]) :
                               Logged(ingestLog', m, x)
BY DEF Accounted, Items, Logged

LEMMA CoversStays ==
  ASSUME NEW w, NEW m, Stays(w), ingestLog \subseteq ingestLog', Covers(w, m)
  PROVE  Covers(w, m)'
<1>1. \A x : Logged(ingestLog \cup newLog[w], m, x) => Logged(ingestLog' \cup newLog'[w], m, x)
  BY DEF Stays, Logged
<1>2. \A x : Pending(w, m, x) => Pending(w, m, x)'
  BY DEF Stays, Pending
<1>. QED
  BY <1>1, <1>2 DEF Covers, Stays

LEMMA AccountedStays ==
  ASSUME NEW m, ingestLog \subseteq ingestLog', Accounted(m)
  PROVE  Accounted(m)'
<1>1. \A x : Logged(ingestLog, m, x) => Logged(ingestLog', m, x)
  BY DEF Logged
<1>. QED
  BY <1>1, AccountedMeans

\* It is enough to look at the worker that takes the step.
LEMMA OneWorkerKeeps ==
  ASSUME MailInv, NEW w \in Pollers, \A v \in Pollers \ {w} : Stays(v),
         ingestLog \subseteq ingestLog', excused \subseteq excused', moved \subseteq moved',
         \A m \in (seen' \cup moved') \ (seen \cup moved) : m \in excused' \/ Holds(w, m)',
         \A m \in seen \cup moved : Holds(w, m) => m \in excused' \/ Accounted(m)' \/ Holds(w, m)',
         pc'[w] = "idle" => got'[w] = {},
         pc'[w] \in Working => unit'[w] \in got'[w] /\ Covers(w, unit[w])'
  PROVE  MailInv'
<1>1. ASSUME NEW v \in Pollers \ {w}
      PROVE  /\ pc'[v] = "idle" => got'[v] = {}
             /\ pc'[v] \in Working => unit'[v] \in got'[v] /\ Covers(v, unit[v])'
  <2>1. Stays(v)
    OBVIOUS
  <2>2. pc'[v] = pc[v] /\ got'[v] = got[v] /\ unit'[v] = unit[v]
    BY <2>1 DEF Stays
  <2>3. pc[v] \in Working => unit[v] \in got[v] /\ Covers(v, unit[v])
    BY DEF MailInv
  <2>4. ASSUME NEW m, m = unit[v], pc[v] \in Working PROVE Covers(v, m)'
    BY <2>1, <2>3, <2>4, CoversStays
  <2>5. pc'[v] \in Working => Covers(v, unit[v])'
    <3>. SUFFICES ASSUME pc[v] \in Working PROVE Covers(v, unit[v])'
      BY <2>2
    <3>1. PICK m : m = unit[v]
      OBVIOUS
    <3>2. Covers(v, m)' /\ m = unit'[v]
      BY <2>2, <2>4, <3>1
    <3>. QED
      BY <3>2 DEF Covers, Pending, Logged
  <2>. QED
    BY <2>2, <2>3, <2>5 DEF MailInv
<1>2. ASSUME NEW m \in (seen' \cup moved') \ excused'
      PROVE  Accounted(m)' \/ \E v \in Pollers : Holds(v, m)'
  <2>1. CASE m \notin seen \cup moved
    BY <1>2, <2>1
  <2>2. CASE m \in seen \cup moved /\ Accounted(m)
    BY <2>2, AccountedStays
  <2>3. ASSUME NEW v \in Pollers, Holds(v, m), m \in seen \cup moved
        PROVE  Accounted(m)' \/ \E u \in Pollers : Holds(u, m)'
    <3>1. CASE v = w
      BY <1>2, <2>3, <3>1
    <3>2. CASE v # w
      <4>1. Stays(v)
        BY <3>2
      <4>2. Covers(v, m)'
        BY <2>3, <4>1, CoversStays DEF Holds
      <4>3. m \in got'[v] /\ (rescan'[v] => m \in moved')
        BY <2>3, <4>1 DEF Holds, Stays
      <4>. QED
        BY <4>2, <4>3 DEF Holds
    <3>. QED
      BY <3>1, <3>2
  <2>. QED
    BY <1>2, <2>1, <2>2, <2>3 DEF MailInv
<1>. QED
  BY <1>1, <1>2 DEF MailInv

\* Steps of uploads, administrators and the like leave pollers and mails alone.
LEMMA ElsewhereKeeps ==
  ASSUME MailInv, \A v \in Pollers : Stays(v), ingestLog \subseteq ingestLog',
         UNCHANGED <<seen, moved, excused>>
  PROVE  MailInv'
<1>. Scheduler \in Pollers
  BY PollersWork
<1>. DEFINE w == Scheduler
<1>1. \A m : Holds(w, m) => Holds(w, m)'
  BY CoversStays DEF Holds, Stays
<1>2. pc'[w] = "idle" => got'[w] = {}
  BY DEF MailInv, Stays
<1>3. pc'[w] \in Working => unit'[w] \in got'[w] /\ Covers(w, unit[w])'
  <2>. SUFFICES ASSUME pc'[w] \in Working PROVE unit'[w] \in got'[w] /\ Covers(w, unit[w])'
    OBVIOUS
  <2>1. PICK m : m = unit[w]
    OBVIOUS
  <2>2. Stays(w) /\ m = unit'[w] /\ pc[w] \in Working /\ m \in got'[w]
    BY <2>1 DEF Stays, MailInv
  <2>3. Covers(w, m)
    BY <2>1, <2>2 DEF MailInv
  <2>4. Covers(w, m)'
    BY <2>2, <2>3, CoversStays
  <2>. QED
    BY <2>2, <2>4 DEF Covers, Pending, Logged
<1>. QED
  BY <1>1, <1>2, <1>3, OneWorkerKeeps
LEMMA Locals ==
  ASSUME TypeOK
  PROVE  /\ newLog \in [Workers -> SUBSET LogEntry] /\ broken \in [Workers -> BOOLEAN]
         /\ pc \in [Workers -> Labels] /\ unit \in [Workers -> Units \cup {None}]
         /\ files \in [Workers -> Seq(Attachment)] /\ todo \in [Workers -> Seq(Docs)]
         /\ got \in [Workers -> SUBSET Mails] /\ rescan \in [Workers -> BOOLEAN]
         /\ handled \in [Workers -> BOOLEAN]
BY DEF TypeOK, TxnType, JobType, PollType

----------------------------------------------------------------------------
(* What a worker has before it is handled or stays before it.              *)

LEMMA HeadOrTail ==
  ASSUME NEW S, NEW q \in Seq(S), q # <<>>
  PROVE  \A j \in DOMAIN q : q[j] = Head(q) \/ \E k \in DOMAIN Tail(q) : q[j] = Tail(q)[k]
<1>1. Len(q) \in Nat /\ DOMAIN q = 1..Len(q) /\ Head(q) = q[1]
  OBVIOUS
<1>2. DOMAIN Tail(q) = 1..(Len(q) - 1) /\ \A k \in 1..(Len(q) - 1) : Tail(q)[k] = q[k + 1]
  BY <1>1
<1>. SUFFICES ASSUME NEW j \in DOMAIN q, j # 1
              PROVE  \E k \in DOMAIN Tail(q) : q[j] = Tail(q)[k]
  BY <1>1
<1>3. j - 1 \in DOMAIN Tail(q) /\ q[j] = Tail(q)[j - 1]
  BY <1>1, <1>2
<1>. QED
  BY <1>3

LEMMA NextDocPending ==
  ASSUME TypeOK, NEW w \in Workers, pc[w] \in {"check", "route", "insert"}, NextDoc(w),
         UNCHANGED <<files, unit>>, NEW m, NEW x, Pending(w, m, x)
  PROVE  Pending(w, m, x)' \/ (m = unit[w] /\ x = Doc(w))
<1>1. todo[w] \in Seq(Docs) /\ todo[w] # <<>>
  BY DEF TypeOK, JobType, JobSet
<1>2. todo'[w] = Tail(todo[w]) /\ pc'[w] = IF Tail(todo[w]) = <<>> THEN "files" ELSE "check"
  BY DEF NextDoc, Goto, TypeOK, JobType
<1>3. CASE \E j \in DOMAIN files[w] : x \in Items(files[w][j])
  BY <1>2, <1>3 DEF Pending, Working
<1>4. CASE \E j \in DOMAIN todo[w] : x = todo[w][j]
  <2>1. x = Doc(w) \/ \E k \in DOMAIN Tail(todo[w]) : x = Tail(todo[w])[k]
    BY <1>1, <1>4, HeadOrTail DEF Doc
  <2>2. (\E k \in DOMAIN Tail(todo[w]) : x = Tail(todo[w])[k]) => Tail(todo[w]) # <<>>
    OBVIOUS
  <2>. QED
    BY <1>2, <2>1, <2>2 DEF Pending, Working
<1>. QED
  BY <1>3, <1>4 DEF Pending

LEMMA OpenPending ==
  ASSUME TypeOK, NEW w \in Workers, OpenAttachment(w), NEW m, NEW x, Pending(w, m, x)
  PROVE  Pending(w, m, x)' \/ Logged(newLog'[w], m, x)
<1>. DEFINE a == Head(files[w])
<1>1. /\ files[w] \in Seq(Attachment) /\ files[w] # <<>> /\ pc[w] = "files"
      /\ files'[w] = Tail(files[w]) /\ unit' = unit
  BY Locals DEF OpenAttachment
<1>2. pc'[w] \in Working
  BY <1>1, Locals DEF OpenAttachment, Goto, Working
<1>3. x \in Items(a) \/ \E k \in DOMAIN files'[w] : x \in Items(files'[w][k])
  <2>1. PICK j \in DOMAIN files[w] : x \in Items(files[w][j])
    BY <1>1 DEF Pending
  <2>2. files[w][j] = a \/ \E k \in DOMAIN Tail(files[w]) : files[w][j] = Tail(files[w])[k]
    BY <1>1, HeadOrTail
  <2>. QED
    BY <1>1, <2>1, <2>2
<1>4. CASE \E k \in DOMAIN files'[w] : x \in Items(files'[w][k])
  BY <1>1, <1>2, <1>4 DEF Pending
<1>5. CASE x \in Items(a)
  <2>1. CASE a.parse = "error" /\ AddLog(w, a, "error")
    <3>1. x = a /\ m = unit[w]
      BY <1>5, <2>1 DEF Items, Pending
    <3>2. Entry(w, a, "error") \in newLog'[w]
      BY <2>1, Locals DEF AddLog
    <3>. QED
      BY <3>1, <3>2 DEF Logged, Entry
  <2>2. CASE a.parse = "ok" /\ a.docs = <<>>
    BY <1>5, <2>2 DEF Items
  <2>3. CASE a.parse = "ok" /\ todo' = [todo EXCEPT ![w] = a.docs] /\ Goto(w, "check")
    <3>1. todo'[w] = a.docs /\ pc'[w] = "check"
      BY <2>3, Locals DEF Goto
    <3>2. \E j \in DOMAIN a.docs : x = a.docs[j]
      BY <1>5, <2>3 DEF Items
    <3>. QED
      BY <1>1, <1>2, <3>1, <3>2 DEF Pending
  <2>. QED
    BY <2>1, <2>2, <2>3 DEF OpenAttachment
<1>. QED
  BY <1>3, <1>4, <1>5

\* The loop goes on without, or with, a line for the document.
LEMMA DocPending ==
  ASSUME TypeOK, NEW w \in Workers, NEW m, NEW x, Pending(w, m, x), UNCHANGED <<files, unit>>,
         pc[w] \in {"check", "route", "create", "insert"},
         \/ pc'[w] \in {"route", "create", "insert"} /\ UNCHANGED todo
         \/ /\ \E status \in {"ok", "dup", "ignored"} : AddLog(w, Doc(w), status)
            /\ pc[w] # "create" /\ NextDoc(w)
  PROVE  Pending(w, m, x)' \/ Logged(newLog'[w], m, x)
<1>1. CASE pc'[w] \in {"route", "create", "insert"} /\ UNCHANGED todo
  BY <1>1 DEF Pending, Working
<1>2. ASSUME NEW status \in {"ok", "dup", "ignored"}, AddLog(w, Doc(w), status),
             pc[w] # "create", NextDoc(w)
      PROVE  Pending(w, m, x)' \/ Logged(newLog'[w], m, x)
  <2>1. Pending(w, m, x)' \/ (m = unit[w] /\ x = Doc(w))
    BY <1>2, NextDocPending
  <2>2. Entry(w, Doc(w), status) \in newLog'[w]
    BY <1>2, Locals DEF AddLog
  <2>3. Logged(newLog'[w], unit[w], Doc(w))
    BY <2>2 DEF Logged, Entry
  <2>. QED
    BY <2>1, <2>3
<1>. QED
  BY <1>1, <1>2

LEMMA IngestPending ==
  ASSUME TypeOK, NEW w \in Workers, IngestStep(w), NEW m, NEW x, Pending(w, m, x)
  PROVE  Pending(w, m, x)' \/ Logged(newLog'[w], m, x)
<1>1. CASE OpenAttachment(w)
  BY <1>1, OpenPending
<1>2. CASE CheckDuplicate(w)
  <2>1. pc[w] = "check" /\ UNCHANGED <<files, unit>>
    BY <1>2 DEF CheckDuplicate
  <2>2. \/ pc'[w] = "route" /\ UNCHANGED todo
        \/ AddLog(w, Doc(w), "dup") /\ NextDoc(w)
    BY <1>2, Locals DEF CheckDuplicate, Goto
  <2>. QED
    BY <2>1, <2>2, DocPending
<1>3. CASE RouteDocument(w)
  <2>1. pc[w] = "route" /\ UNCHANGED <<files, unit>>
    BY <1>3 DEF RouteDocument
  <2>2. \/ pc'[w] \in {"insert", "create"} /\ UNCHANGED todo
        \/ AddLog(w, Doc(w), "ignored") /\ NextDoc(w)
    BY <1>3, Locals DEF RouteDocument, Goto
  <2>. QED
    BY <2>1, <2>2, DocPending
<1>4. CASE CreateDomain(w)
  <2>1. pc[w] = "create" /\ pc'[w] = "insert" /\ UNCHANGED <<files, unit, todo>>
    BY <1>4, Locals DEF CreateDomain, Goto, ingestVars
  <2>. QED
    BY <2>1, DocPending
<1>5. CASE InsertReport(w)
  <2>1. pc[w] = "insert" /\ AddLog(w, Doc(w), "ok") /\ NextDoc(w) /\ UNCHANGED <<files, unit>>
    BY <1>5 DEF InsertReport
  <2>. QED
    BY <2>1, DocPending
<1>. QED
  BY <1>1, <1>2, <1>3, <1>4, <1>5 DEF IngestStep

\* An ingest step of w touches nobody else, and only adds to the log.
LEMMA IngestFrame ==
  ASSUME TypeOK, NEW w \in Workers, IngestStep(w), UNCHANGED pollVars
  PROVE  /\ newLog[w] \subseteq newLog'[w] /\ UNCHANGED <<ingestLog, broken, unit>>
         /\ pc[w] \in Working /\ pc'[w] \in Working
         /\ \A v \in Workers \ {w} : Stays(v)
<1>. USE Locals DEF Stays, Goto, AddLog, NextDoc, Working, dbVars, pollVars
<1>1. CASE OpenAttachment(w)
  BY <1>1 DEF OpenAttachment
<1>2. CASE CheckDuplicate(w)
  BY <1>2 DEF CheckDuplicate
<1>3. CASE RouteDocument(w)
  BY <1>3 DEF RouteDocument
<1>4. CASE CreateDomain(w)
  BY <1>4 DEF CreateDomain, ingestVars
<1>5. CASE InsertReport(w)
  BY <1>5 DEF InsertReport
<1>. QED
  BY <1>1, <1>2, <1>3, <1>4, <1>5 DEF IngestStep

LEMMA CoversGrows ==
  ASSUME NEW w, NEW m, Covers(w, m), ingestLog \subseteq ingestLog',
         newLog[w] \subseteq newLog'[w], broken[w] => broken'[w],
         \A x : Pending(w, m, x) => Pending(w, m, x)' \/ Logged(newLog'[w], m, x)
  PROVE  Covers(w, m)'
<1>1. \A x : Logged(ingestLog \cup newLog[w], m, x) => Logged(ingestLog' \cup newLog'[w], m, x)
  BY DEF Logged
<1>2. \A x : Logged(newLog'[w], m, x) => Logged(ingestLog' \cup newLog'[w], m, x)
  BY DEF Logged
<1>. QED
  BY <1>1, <1>2 DEF Covers

LEMMA IngestOfPollKeeps ==
  ASSUME TypeOK, MailInv, NEW w \in Pollers, IngestOfPoll(w)
  PROVE  MailInv'
<1>. w \in Workers
  BY PollersWork
<1>1. /\ IngestStep(w) /\ UNCHANGED <<pollVars, seen, moved, excused, got, rescan>>
  BY DEF IngestOfPoll, serverVars, pollVars
<1>2. /\ newLog[w] \subseteq newLog'[w] /\ UNCHANGED <<ingestLog, broken, unit>>
      /\ pc[w] \in Working /\ pc'[w] \in Working
      /\ \A v \in Pollers \ {w} : Stays(v)
  BY <1>1, IngestFrame, PollersWork
<1>3. ASSUME NEW m, Covers(w, m) PROVE Covers(w, m)'
  BY <1>1, <1>2, <1>3, IngestPending, CoversGrows
<1>4. \A m : Holds(w, m) => Holds(w, m)'
  BY <1>1, <1>3 DEF Holds
<1>5. unit'[w] \in got'[w] /\ Covers(w, unit[w])'
  <2>1. PICK m : m = unit[w]
    OBVIOUS
  <2>2. m \in got[w] /\ Covers(w, m) /\ m = unit'[w]
    BY <1>2, <2>1 DEF MailInv
  <2>3. Covers(w, m)'
    BY <1>3, <2>2
  <2>. QED
    BY <1>1, <2>2, <2>3 DEF Covers, Pending, Logged
<1>6. pc'[w] # "idle"
  BY <1>2 DEF Working
<1>. QED
  BY <1>1, <1>2, <1>4, <1>5, <1>6, OneWorkerKeeps
----------------------------------------------------------------------------
(* The other steps of a poll.                                              *)

\* Between mails nothing is pending.
LEMMA NothingPending ==
  ASSUME NEW w, pc[w] \notin Working
  PROVE  \A m, x : ~Pending(w, m, x)
BY DEF Pending, Working

LEMMA RaiseKeeps ==
  ASSUME TypeOK, MailInv, NEW w \in Pollers, Raise(w)
  PROVE  MailInv'
<1>. w \in Workers
  BY PollersWork
<1>1. /\ pc'[w] = "idle" /\ got'[w] = {} /\ UNCHANGED <<ingestLog, seen, moved>>
      /\ excused' = excused \cup Touched(w)
  BY Locals DEF Raise, Leave, ForgetPoll, Goto, dbVars, serverVars
<1>2. \A v \in Pollers \ {w} : Stays(v)
  BY Locals, PollersWork DEF Raise, Leave, ForgetPoll, Goto, Discard, Stays
<1>3. \A m \in seen \cup moved : Holds(w, m) => m \in Touched(w)
  BY DEF Holds, Touched
<1>4. pc'[w] \notin Working
  BY <1>1 DEF Working
<1>. QED
  BY <1>1, <1>2, <1>3, <1>4, OneWorkerKeeps

LEMMA SearchKeeps ==
  ASSUME TypeOK, MailInv, NEW w \in Pollers, Search(w) \/ LoopEnds(w)
  PROVE  MailInv'
<1>. w \in Workers
  BY PollersWork
<1>1. /\ pc[w] \in {"search", "fetch"} /\ pc'[w] \in {"fetch", "end"}
      /\ UNCHANGED <<ingestLog, newLog, broken, unit, seen, moved, excused, got, rescan>>
  BY Locals DEF Search, LoopEnds, Goto, dbVars, txnVars, ingestVars, serverVars, pollVars
<1>2. \A v \in Pollers \ {w} : Stays(v)
  BY <1>1, Locals, PollersWork DEF Search, LoopEnds, Goto, ingestVars, pollVars, Stays
<1>3. pc[w] \notin Working /\ pc'[w] \notin Working
  BY <1>1 DEF Working
<1>4. \A m : Holds(w, m) => Holds(w, m)'
  BY <1>1, <1>3, NothingPending, CoversGrows DEF Holds
<1>. QED
  BY <1>1, <1>2, <1>3, <1>4, OneWorkerKeeps

\* A mail is fetched: the poll answers for it, or it exceeds the limit.
LEMMA FetchKeeps ==
  ASSUME TypeOK, MailInv, NEW w \in Pollers, NEW m \in Mails, Fetch(w, m)
  PROVE  MailInv'
<1>. w \in Workers
  BY PollersWork
<1>1. /\ pc[w] = "fetch" /\ got'[w] = got[w] \cup {m}
      /\ seen' = (IF rescan[w] THEN seen ELSE seen \cup {m})
      /\ UNCHANGED <<ingestLog, newLog, broken, moved, rescan>>
  BY Locals DEF Fetch, FlagSeen, dbVars, txnVars
<1>2. \A v \in Pollers \ {w} : Stays(v)
  <2>. SUFFICES ASSUME NEW v \in Pollers \ {w} PROVE Stays(v)
    OBVIOUS
  <2>1. v \in Workers
    BY PollersWork
  <2>2. pc'[v] = pc[v] /\ unit'[v] = unit[v] /\ files'[v] = files[v] /\ got'[v] = got[v]
    BY <2>1, Locals DEF Fetch, Goto
  <2>. QED
    BY <1>1, <2>2 DEF Fetch, Stays, txnVars
<1>3. \A n, x : ~Pending(w, n, x)
  BY <1>1, NothingPending DEF Working
<1>4. ASSUME NEW n, Holds(w, n) PROVE Holds(w, n)'
  BY <1>1, <1>3, <1>4, CoversGrows DEF Holds
<1>5. CASE Cardinality(got[w]) >= MaxFetch
  <2>1. /\ pc'[w] = "end" /\ UNCHANGED unit
        /\ excused' = IF rescan[w] THEN excused ELSE excused \cup {m}
    BY <1>5, Locals DEF Fetch, Goto
  <2>2. \A n \in (seen' \cup moved') \ (seen \cup moved) : n \in excused'
    BY <1>1, <2>1
  <2>3. pc'[w] \notin Working /\ pc'[w] # "idle" /\ excused \subseteq excused'
    BY <2>1 DEF Working
  <2>. QED
    BY <1>1, <1>2, <1>4, <2>2, <2>3, OneWorkerKeeps
<1>6. CASE ~(Cardinality(got[w]) >= MaxFetch)
  <2>1. /\ unit'[w] = m /\ files'[w] = Parts[m] /\ pc'[w] = "files" /\ UNCHANGED excused
    BY <1>6, Locals DEF Fetch, Goto
  <2>2. \A i \in DOMAIN Parts[m] : \A x \in Items(Parts[m][i]) : Pending(w, m, x)'
    BY <2>1 DEF Pending, Working
  <2>3. Covers(w, m)'
    BY <2>2 DEF Covers
  <2>4. \A n \in (seen' \cup moved') \ (seen \cup moved) : Holds(w, n)'
    BY <1>1, <2>3 DEF Holds
  <2>5. unit'[w] \in got'[w] /\ Covers(w, unit[w])'
    BY <1>1, <2>1, <2>3 DEF Covers, Pending, Logged
  <2>. QED
    BY <1>1, <1>2, <1>4, <2>1, <2>4, <2>5, OneWorkerKeeps
<1>. QED
  BY <1>5, <1>6

LEMMA FetchFailsKeeps ==
  ASSUME TypeOK, MailInv, NEW w \in Pollers, NEW m \in Mails,
         FetchNothing(w, m) \/ FetchAborts(w, m)
  PROVE  MailInv'
<1>. w \in Workers
  BY PollersWork
<1>1. /\ pc[w] = "fetch" /\ pc'[w] \in {"fetch", "end"}
      /\ UNCHANGED <<ingestLog, newLog, broken, unit, files, todo, moved, got, rescan>>
      /\ excused \subseteq excused'
      /\ \A n \in seen' \ seen : n \in excused'
  BY Locals DEF FetchNothing, FetchAborts, FlagSeen, Goto, dbVars, txnVars, ingestVars,
                serverVars, pollVars
<1>2. \A v \in Pollers \ {w} : Stays(v)
  BY <1>1, Locals, PollersWork DEF FetchNothing, FetchAborts, Goto, Stays
<1>3. pc[w] \notin Working /\ pc'[w] \notin Working /\ pc'[w] # "idle"
  BY <1>1 DEF Working
<1>4. \A n : Holds(w, n) => Holds(w, n)'
  BY <1>1, <1>3, NothingPending, CoversGrows DEF Holds
<1>. QED
  BY <1>1, <1>2, <1>3, <1>4, OneWorkerKeeps

\* A transaction that has failed can never be committed.
LEMMA PollFlushFailsKeeps ==
  ASSUME TypeOK, MailInv, NEW w \in Pollers, PollFlushFails(w)
  PROVE  MailInv'
<1>. w \in Workers
  BY PollersWork
<1>1. /\ broken'[w] = TRUE /\ pc'[w] = "files" /\ pc[w] \in Working
      /\ UNCHANGED <<ingestLog, unit, seen, moved, excused, got, rescan>>
  BY Locals DEF PollFlushFails, FlushRefused, Goto, Working, dbVars, serverVars, pollVars
<1>2. \A v \in Pollers \ {w} : Stays(v)
  BY <1>1, Locals, PollersWork DEF PollFlushFails, Discard, Goto, Stays
<1>3. \A m : Covers(w, m)'
  BY <1>1 DEF Covers
<1>4. \A m : Holds(w, m) => Holds(w, m)'
  BY <1>1, <1>3 DEF Holds
<1>5. unit'[w] \in got'[w] /\ Covers(w, unit[w])'
  BY <1>1 DEF MailInv, Covers
<1>. QED
  BY <1>1, <1>2, <1>4, <1>5, OneWorkerKeeps

LEMMA SkipAttachmentKeeps ==
  ASSUME TypeOK, MailInv, NEW w \in Pollers, SkipAttachment(w)
  PROVE  MailInv'
<1>. w \in Workers
  BY PollersWork
<1>1. /\ pc[w] = "files" /\ files[w] \in Seq(Attachment) /\ files[w] # <<>>
      /\ files'[w] = Tail(files[w]) /\ (broken[w] \/ Head(files[w]).parse = "crash")
      /\ UNCHANGED <<ingestLog, newLog, broken, pc, unit, todo, seen, moved, excused, got, rescan>>
  BY Locals DEF SkipAttachment, ParseCrashes, dbVars, txnVars, serverVars, pollVars
<1>2. \A v \in Pollers \ {w} : Stays(v)
  BY <1>1, Locals, PollersWork DEF SkipAttachment, Stays
<1>3. ASSUME NEW m, Covers(w, m) PROVE Covers(w, m)'
  <2>1. CASE broken[w]
    BY <1>1, <2>1 DEF Covers
  <2>2. CASE Head(files[w]).parse = "crash"
    <3>1. Items(Head(files[w])) = {}
      BY <2>2 DEF Items
    <3>2. ASSUME NEW x, Pending(w, m, x) PROVE Pending(w, m, x)'
      <4>1. PICK j \in DOMAIN files[w] : x \in Items(files[w][j])
        BY <1>1, <3>2 DEF Pending
      <4>2. files[w][j] = Head(files[w]) \/ \E k \in DOMAIN Tail(files[w]) : files[w][j] = Tail(files[w])[k]
        BY <1>1, HeadOrTail
      <4>3. \E k \in DOMAIN files'[w] : x \in Items(files'[w][k])
        <5>1. files[w][j] # Head(files[w])
          BY <3>1, <4>1
        <5>2. PICK k \in DOMAIN Tail(files[w]) : files[w][j] = Tail(files[w])[k]
          BY <4>2, <5>1
        <5>. QED
          BY <1>1, <4>1, <5>2
      <4>. QED
        BY <1>1, <3>2, <4>3 DEF Pending
    <3>. QED
      BY <1>1, <1>3, <3>2, CoversGrows
  <2>. QED
    BY <1>1, <2>1, <2>2
<1>4. \A m : Holds(w, m) => Holds(w, m)'
  BY <1>1, <1>3 DEF Holds
<1>5. unit'[w] \in got'[w] /\ Covers(w, unit[w])'
  <2>1. PICK m : m = unit[w]
    OBVIOUS
  <2>2. m \in got[w] /\ Covers(w, m) /\ m = unit'[w]
    BY <1>1, <2>1 DEF MailInv, Working
  <2>3. Covers(w, m)'
    BY <1>3, <2>2
  <2>4. m = unit'[w] /\ m \in got'[w]
    BY <1>1, <2>2
  <2>5. Covers(w, unit[w])'
    <3>1. CASE broken'[w]
      BY <3>1 DEF Covers
    <3>2. CASE ~broken'[w]
      <4>1. \A i \in DOMAIN Parts[m] : \A x \in Items(Parts[m][i]) :
              (Logged(ingestLog \cup newLog[w], m, x) \/ Pending(w, m, x))'
        BY <2>3, <3>2 DEF Covers
      <4>. QED
        BY <4>1, <2>4 DEF Covers, Pending, Logged
    <3>. QED
      BY <3>1, <3>2
  <2>. QED
    BY <2>4, <2>5
<1>. QED
  BY <1>1, <1>2, <1>4, <1>5, OneWorkerKeeps

\* A mail is moved only when all of it has been looked at.
LEMMA FinishMailKeeps ==
  ASSUME TypeOK, MailInv, NEW w \in Pollers, FinishMail(w)
  PROVE  MailInv'
<1>. w \in Workers
  BY PollersWork
<1>1. CASE handled[w] /\ broken[w]
  BY <1>1, RaiseKeeps DEF FinishMail
<1>2. CASE ~(handled[w] /\ broken[w])
  <2>1. /\ pc[w] = "files" /\ files[w] = <<>> /\ pc'[w] = "fetch"
        /\ moved \subseteq moved' /\ moved' \subseteq moved \cup {unit[w]}
        /\ UNCHANGED <<ingestLog, newLog, broken, seen, excused, got, rescan>>
    BY <1>2, Locals DEF FinishMail, Goto, dbVars, txnVars, pollVars
  <2>2. \A v \in Pollers \ {w} : Stays(v)
    BY <1>2, <2>1, Locals, PollersWork DEF FinishMail, Goto, Stays
  <2>3. \A m, x : ~Pending(w, m, x)
    BY <2>1 DEF Pending
  <2>4. \A m : Covers(w, m) => Covers(w, m)'
    BY <2>1, <2>3, CoversGrows
  <2>5. \A m : Holds(w, m) => Holds(w, m)'
    BY <2>1, <2>4 DEF Holds
  <2>6. ASSUME NEW m \in moved' \ moved PROVE Holds(w, m)'
    <3>1. m = unit[w] /\ m \in got[w] /\ Covers(w, m)
      BY <2>1 DEF MailInv, Working
    <3>. QED
      BY <2>1, <2>4, <3>1 DEF Holds
  <2>7. pc'[w] \notin Working /\ pc'[w] # "idle"
    BY <2>1 DEF Working
  <2>. QED
    BY <2>1, <2>2, <2>5, <2>6, <2>7, OneWorkerKeeps
<1>. QED
  BY <1>1, <1>2

\* The commit makes good what the poll answers for.
LEMMA EndPollKeeps ==
  ASSUME TypeOK, MailInv, NEW w \in Pollers, EndPoll(w)
  PROVE  MailInv'
<1>. w \in Workers
  BY PollersWork
<1>1. CASE broken[w] \/ box[source[w]] = "gone"
  BY <1>1, RaiseKeeps DEF EndPoll
<1>2. CASE ~(broken[w] \/ box[source[w]] = "gone")
  <2>1. /\ pc[w] = "end" /\ ~broken[w] /\ pc'[w] = "idle" /\ got'[w] = {}
        /\ ingestLog' = ingestLog \cup newLog[w] /\ UNCHANGED <<seen, moved, excused>>
    BY <1>2, Locals DEF EndPoll, Publish, Leave, ForgetPoll, Goto, serverVars
  <2>2. \A v \in Pollers \ {w} : Stays(v)
    BY <1>2, Locals, PollersWork DEF EndPoll, Leave, ForgetPoll, Discard, Goto, Stays
  <2>3. \A m, x : ~Pending(w, m, x)
    BY <2>1, NothingPending DEF Working
  <2>4. ASSUME NEW m, Holds(w, m) PROVE Accounted(m)'
    BY <2>1, <2>3, <2>4, AccountedMeans DEF Holds, Covers
  <2>5. pc'[w] \notin Working
    BY <2>1 DEF Working
  <2>. QED
    BY <2>1, <2>2, <2>4, <2>5, OneWorkerKeeps
<1>. QED
  BY <1>1, <1>2

LEMMA BeginPollKeeps ==
  ASSUME TypeOK, MailInv, NEW w \in Pollers, NEW b \in Mailboxes, NEW again \in BOOLEAN,
         BeginPoll(w, b, again)
  PROVE  MailInv'
<1>. w \in Workers
  BY PollersWork
<1>1. /\ pc[w] = "idle" /\ pc'[w] = "search" /\ got'[w] = got[w]
      /\ UNCHANGED <<ingestLog, seen, moved, excused>>
  BY Locals DEF BeginPoll, Goto, dbVars, serverVars
<1>2. \A v \in Pollers \ {w} : Stays(v)
  BY Locals, PollersWork DEF BeginPoll, Goto, txnVars, Stays
<1>3. \A m : ~Holds(w, m)
  BY <1>1 DEF MailInv, Holds
<1>4. pc'[w] \notin Working /\ pc'[w] # "idle"
  BY <1>1 DEF Working
<1>. QED
  BY <1>1, <1>2, <1>3, <1>4, OneWorkerKeeps

\* A restart excuses what the polls answered for.
LEMMA RestartLeavesMails ==
  ASSUME TypeOK, MailInv, Restart
  PROVE  MailInv'
<1>1. /\ UNCHANGED <<ingestLog, seen, moved>>
      /\ excused' = excused \cup UNION {Touched(w) : w \in Pollers}
      /\ \A w \in Pollers : pc'[w] = "idle" /\ got'[w] = {}
  BY PollersWork DEF Restart, dbVars, serverVars
<1>2. ASSUME NEW m \in (seen' \cup moved') \ excused'
      PROVE  Accounted(m)'
  <2>1. \A w \in Pollers : ~Holds(w, m)
    BY <1>1, <1>2 DEF Holds, Touched
  <2>2. Accounted(m)
    BY <1>1, <1>2, <2>1 DEF MailInv
  <2>. QED
    BY <1>1, <2>2, AccountedStays
<1>. QED
  BY <1>1, <1>2 DEF MailInv, Working

LEMMA PollStepKeeps ==
  ASSUME TypeOK, MailInv, NEW w \in Pollers, PollStep(w)
  PROVE  MailInv'
BY SearchKeeps, FetchKeeps, FetchFailsKeeps, IngestOfPollKeeps, PollFlushFailsKeeps,
   SkipAttachmentKeeps, FinishMailKeeps, EndPollKeeps DEF PollStep

LEMMA UploadStepLeavesMails ==
  ASSUME TypeOK, MailInv, NEW r \in Requests, Submit(r) \/ UploadStep(r)
  PROVE  MailInv'
<1>. r \in Workers /\ r \notin Pollers /\ Pollers \subseteq Workers
  BY RequestsWork, PollersWork, PipelineAssumption
<1>. USE Locals DEF Stays, Goto
<1>1. CASE Submit(r)
  <2>1. \A v \in Pollers : Stays(v)
    BY <1>1 DEF Submit, txnVars, pollVars
  <2>. QED
    BY <1>1, <2>1, ElsewhereKeeps DEF Submit, dbVars, serverVars
<1>2. CASE TakeLoop(r) \/ AwaitFile(r)
  <2>1. \A v \in Pollers : Stays(v)
    BY <1>2 DEF TakeLoop, AwaitFile, txnVars, ingestVars, pollVars
  <2>. QED
    BY <1>2, <2>1, ElsewhereKeeps DEF TakeLoop, AwaitFile, dbVars, serverVars
<1>3. CASE IngestOfUpload(r)
  <2>1. IngestStep(r) /\ UNCHANGED <<pollVars, seen, moved, excused>>
    BY <1>3 DEF IngestOfUpload, serverVars
  <2>2. ingestLog' = ingestLog /\ \A v \in Pollers : Stays(v)
    BY <2>1, IngestFrame
  <2>. QED
    BY <2>1, <2>2, ElsewhereKeeps
<1>4. CASE CommitUpload(r) \/ UploadFails(r)
  <2>1. \A v \in Pollers : Stays(v)
    BY <1>4 DEF CommitUpload, UploadFails, Leave, Discard, pollVars
  <2>2. ingestLog \subseteq ingestLog' /\ UNCHANGED <<seen, moved, excused>>
    BY <1>4 DEF CommitUpload, UploadFails, Publish, dbVars, serverVars
  <2>. QED
    BY <2>1, <2>2, ElsewhereKeeps
<1>. QED
  BY <1>1, <1>2, <1>3, <1>4 DEF UploadStep

LEMMA MailNext == TypeOK /\ MailInv /\ [Next]_vars => MailInv'
<1>. SUFFICES ASSUME TypeOK, MailInv, [Next]_vars PROVE MailInv'
  OBVIOUS
<1>1. ASSUME NEW r \in Requests, Submit(r) \/ UploadStep(r) PROVE MailInv'
  BY <1>1, UploadStepLeavesMails
<1>2. ASSUME NEW w \in Pollers, PollStep(w) PROVE MailInv'
  BY <1>2, PollStepKeeps
<1>3. CASE PollAllEnabled
  BY <1>3, ElsewhereKeeps DEF PollAllEnabled, Stays, dbVars, txnVars, ingestVars, serverVars, pollVars
<1>4. ASSUME NEW b \in Mailboxes, PollNext(b) PROVE MailInv'
  <2>1. CASE BeginPoll(Scheduler, b, FALSE)
    BY <2>1, BeginPollKeeps, PollersWork
  <2>2. CASE UNCHANGED <<dbVars, txnVars, pc, ingestVars, announced, serverVars, pollVars, excused>>
    BY <2>2, ElsewhereKeeps DEF Stays, dbVars, txnVars, ingestVars, serverVars, pollVars
  <2>. QED
    BY <1>4, <2>1, <2>2 DEF PollNext
<1>5. ASSUME NEW t \in Threads, NEW b \in Mailboxes, NEW again \in BOOLEAN,
             PollInBackground(t, b, again)
      PROVE  MailInv'
  <2>1. BeginPoll(t, b, again) /\ t \in Pollers
    BY <1>5 DEF PollInBackground, Pollers
  <2>. QED
    BY <2>1, BeginPollKeeps
<1>6. CASE OtherStep
  <2>1. \A v \in Pollers : Stays(v)
    BY <1>6 DEF OtherStep, Deliver, AddDomain, DeleteDomain, Vanish, ChangeMailbox, Stays, txnVars,
                ingestVars, pollVars
  <2>2. UNCHANGED <<ingestLog, seen, moved, excused>>
    BY <1>6 DEF OtherStep, Deliver, AddDomain, DeleteDomain, Vanish, ChangeMailbox, dbVars, serverVars
  <2>. QED
    BY <2>1, <2>2, ElsewhereKeeps
<1>7. CASE Restart
  BY <1>7, RestartLeavesMails
<1>8. CASE UNCHANGED vars
  BY <1>8, ElsewhereKeeps DEF vars, Stays, dbVars, txnVars, ingestVars, serverVars, pollVars
<1>. QED
  BY <1>1, <1>2, <1>3, <1>4, <1>5, <1>6, <1>7, <1>8 DEF Next, OtherStep

\* ReportPipeline.SeenIsAccounted (imap_poller.py:115-245): a mail that the
\* server will not offer again is accounted for in the committed import log, is
\* in the hands of a poll, or belongs to a poll that did not commit it.
THEOREM NoMailIsLost == Spec => []SeenIsAccounted
<1>1. Init => MailInv
  BY PollersWork DEF Init, MailInv, Working
<1>2. MailInv => SeenIsAccounted
  BY DEF MailInv, SeenIsAccounted, Holds
<1>. QED
  BY <1>1, <1>2, MailNext, TypeCorrect, PTL DEF Spec
===========================================================================
