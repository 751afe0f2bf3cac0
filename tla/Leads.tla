------------------------------- MODULE Leads -------------------------------
(***************************************************************************)
(* The table lead_snapshots and the requests that write it:                *)
(* src/app/routers/snapshot.py (the public form) and                       *)
(* src/app/routers/admin_leads.py (pipeline, notes, re-run, batch, crawl). *)
(* MailTester adds the two writers of the mail tester.                     *)
(*                                                                         *)
(* A request reads the row of its key, works for seconds (a form, a DNS    *)
(* check, a crawl) and commits.  The commit writes the columns that differ *)
(* from what was read; it raises when a row to insert exists by then       *)
(* (uq_lead_snapshots_email_domain) or a row to update is gone.  An async  *)
(* handler keeps the event loop from its last await to its end; streams    *)
(* and jobs run in threads beside it.                                      *)
(***************************************************************************)
EXTENDS Naturals, Sequences, FiniteSets

CONSTANTS Keys,        \* pairs (email, domain)
          Requests,    \* requests under way at a time
          Grades,
          MaxRows,     \* bound: rows ever inserted for a key
          MaxEdits     \* bound: saves of the operator

ASSUME LeadsAssumption == MaxRows \in Nat /\ MaxEdits \in Nat /\ "none" \notin Grades

Stages == {"open", "contacted", "won", "lost"}

VARIABLES
  lead,   \* the row of every key; id counts the rows the key has had
  req,    \* the requests
  incs,   \* history: increments of followup_count committed for the row
  edits,  \* saves of the operator so far
  moved,  \* history: keys the pipeline form has declared won
  raced   \* history: keys written while a pipeline form was awaited for them

leadVars == <<lead, req, incs, edits, moved, raced>>

NoRow == [id |-> 0, live |-> FALSE, grade |-> "none", stage |-> "open",
          contacted |-> FALSE, converted |-> FALSE, reminder |-> FALSE, followups |-> 0]

OperatorColumns == {"stage", "contacted", "converted", "reminder", "followups"}

\* ks: the keys of the request; n: how many have been read; old: what was read.
NoReq == [kind |-> "none", phase |-> "find", ks |-> <<>>, n |-> 0,
          old |-> [k \in Keys |-> NoRow], token |-> "none"]

LeadInit ==
  /\ lead = [k \in Keys |-> NoRow]
  /\ req = [r \in Requests |-> NoReq]
  /\ incs = [k \in Keys |-> 0]
  /\ edits = 0 /\ moved = {} /\ raced = {}

\* Requests that hold the event loop: all that are past their last await,
\* but not a stream, whose generator runs in a thread.
LoopFree == \A r \in Requests :
  req[r].kind \in {"none", "stream"} \/ req[r].phase = "form"

NewRow(k, g) == [NoRow EXCEPT !.id = lead[k].id + 1, !.live = TRUE, !.grade = g]

\* The grade of a new check, if there is one.
Regraded(old, g) == [old EXCEPT !.grade = IF g = "none" THEN @ ELSE g]

\* Mutant of Upsert: a returning visitor reopens the lead.
UpsertReopens(k, old, g) == IF ~old.live THEN NewRow(k, g)
                            ELSE [old EXCEPT !.grade = g, !.stage = "open"]

\* An upsert: a new row, or the grade of the row that was read.
Upsert(k, old, g) == IF ~old.live THEN NewRow(k, g) ELSE Regraded(old, g)

\* The commit raises: IntegrityError or StaleDataError.
Fails(k, old, new) ==
  IF old.live THEN new # old /\ ~(lead[k].live /\ lead[k].id = old.id)
              ELSE lead[k].live

\* The row after a commit that does not raise.
Saved(k, old, new) ==
  IF ~old.live THEN new
  ELSE [c \in DOMAIN new |-> IF new[c] # old[c] THEN new[c] ELSE lead[k][c]]

Races(k) == {x \in {k} : \E r \in Requests : req[r].phase = "form" /\ req[r].ks = <<k>>}
----------------------------------------------------------------------------
\* A request that will look up the keys ks.
Begin(r, kind, ks) ==
  /\ req[r] = NoReq
  /\ req' = [req EXCEPT ![r] = [NoReq EXCEPT !.kind = kind, !.ks = ks]]
  /\ UNCHANGED <<lead, incs, edits, moved, raced>>

\* POST /snapshot.  A form that is refused (bot, address, consent, rate
\* limit) never gets here.
BeginSnapshot(r, k) == LoopFree /\ Begin(r, "snapshot", <<k>>)

\* POST /admin/leads/batch-snapshot; a key may be in the file twice.
BeginBatch(r, ks) == LoopFree /\ Begin(r, "batch", ks)

\* POST /admin/leads/{id}/rerun.
BeginRerun(r, k) == LoopFree /\ lead[k].live /\ Begin(r, "rerun", <<k>>)

\* POST /admin/crawl-contacts/stream; _parse_domain_input drops repetitions.
BeginStream(r, ks) ==
  /\ \A i, j \in DOMAIN ks : i # j => ks[i] # ks[j]
  /\ Begin(r, "stream", ks)

\* Row n + 1 is looked up; the session keeps what its first query found.  A
\* batch leaves out a row whose DNS check fails.
Find(r) ==
  /\ req[r].kind # "none" /\ req[r].phase = "find"
  /\ LET q == req[r]
         k == q.ks[q.n + 1]
         again == \E i \in 1..q.n : q.ks[i] = k
         last == q.n + 1 = Len(q.ks)
         next == [q EXCEPT !.n = @ + 1, !.old[k] = IF again THEN @ ELSE lead[k],
                    !.phase = IF q.kind = "stream" \/ last THEN "save" ELSE "find"]
         rest == SubSeq(q.ks, 1, q.n) \o SubSeq(q.ks, q.n + 2, Len(q.ks))
     IN \/ req' = [req EXCEPT ![r] = next]
        \/ /\ q.kind = "batch"
           /\ req' = [req EXCEPT ![r] =
                IF rest = <<>> THEN NoReq
                ELSE [q EXCEPT !.ks = rest, !.phase = IF last THEN "save" ELSE "find"]]
  /\ UNCHANGED <<lead, incs, edits, moved, raced>>

\* Two rows of one batch with a key that has no row are both added.
Twice(q, k) == ~q.old[k].live /\ Cardinality({i \in DOMAIN q.ks : q.ks[i] = k}) > 1

\* Mutant of Written: a row that cannot be written is left out.
WrittenPartly(ks, q, g) ==
  [k \in Keys |-> IF k \in ks /\ ~Fails(k, q.old[k], Upsert(k, q.old[k], g))
                  THEN Saved(k, q.old[k], Upsert(k, q.old[k], g)) ELSE lead[k]]

\* The table after the upserts of one transaction; any exception undoes all.
Written(ks, q, g) ==
  IF \E k \in ks : Fails(k, q.old[k], Upsert(k, q.old[k], g)) \/ Twice(q, k) THEN lead
  ELSE [k \in Keys |-> IF k \in ks THEN Saved(k, q.old[k], Upsert(k, q.old[k], g)) ELSE lead[k]]

\* The commit: of one row in a stream, which goes on whatever happens, and of
\* all rows otherwise.  No grade is known when the DNS check was not asked for
\* or failed; the form then files an F.
Commit(r) ==
  /\ req[r].phase = "save" /\ req[r].kind \in {"snapshot", "batch", "rerun", "stream", "unlock"}
  /\ LET q == req[r]
         ks == IF q.kind = "stream" THEN {q.ks[q.n]} ELSE {q.ks[i] : i \in DOMAIN q.ks}
     IN /\ \A k \in ks : lead[k].id < MaxRows
        /\ \E g \in Grades \cup (IF q.kind \in {"rerun", "stream"} THEN {"none"} ELSE {}) :
             lead' = Written(ks, q, g)
        /\ raced' = raced \cup UNION {Races(k) : k \in ks}
        /\ req' = [req EXCEPT ![r] = IF q.n < Len(q.ks) THEN [q EXCEPT !.phase = "find"]
                                     ELSE NoReq]
  /\ UNCHANGED <<incs, edits, moved>>
----------------------------------------------------------------------------
\* POST /admin/leads/{id}/pipeline reads the row and then awaits the form.
OpenPipeline(r, k) ==
  /\ req[r] = NoReq /\ LoopFree /\ lead[k].live
  /\ req' = [req EXCEPT ![r] = [NoReq EXCEPT !.kind = "pipeline", !.phase = "form",
                                !.ks = <<k>>, !.old[k] = lead[k]]]
  /\ UNCHANGED <<lead, incs, edits, moved, raced>>

\* Mutant of Moved: the stage is not looked up in STAGE_KEYS.
MovedUnchecked(old, stage, reminder, inc) == [old EXCEPT !.stage = stage]

\* Mutant of Moved: the first contact counts as a follow-up.
MovedCountsContact(old, stage, reminder, inc) ==
  [old EXCEPT !.stage = IF stage = "keep" THEN @ ELSE stage,
              !.contacted = @ \/ stage = "contacted",
              !.followups = IF inc \/ stage = "contacted" THEN @ + 1 ELSE @]

\* What the pipeline form makes of the row: a stage, a reminder, a follow-up.
Moved(old, stage, reminder, inc) ==
  [old EXCEPT !.stage = IF stage = "keep" THEN @ ELSE stage,
              !.contacted = @ \/ stage = "contacted",
              !.converted = @ \/ stage = "won",
              !.reminder = IF reminder = "keep" THEN @ ELSE reminder = "set",
              !.followups = IF inc THEN @ + 1 ELSE @]

\* An operator's commit, and the increments it stands for.
Operate(r, k, new, inc) ==
  LET ok == ~Fails(k, req[r].old[k], new) IN
  /\ edits < MaxEdits /\ edits' = edits + 1
  /\ lead' = [lead EXCEPT ![k] = IF ok THEN Saved(k, req[r].old[k], new) ELSE @]
  /\ incs' = [incs EXCEPT ![k] = IF inc /\ ok THEN @ + 1 ELSE @]

SavePipeline(r) ==
  /\ req[r].kind = "pipeline" /\ LoopFree
  /\ LET k == req[r].ks[1]
     IN /\ \E stage \in Stages \cup {"keep"}, rem \in {"keep", "set", "clear"}, inc \in BOOLEAN :
             /\ Operate(r, k, Moved(req[r].old[k], stage, rem, inc), inc)
             /\ moved' = moved \cup (IF stage = "won" THEN {k} ELSE {})
        /\ raced' = raced \cup
             {x \in {k} : \E o \in Requests \ {r} : req[o].phase = "form" /\ req[o].ks = <<k>>}
  /\ req' = [req EXCEPT ![r] = NoReq]

\* POST /admin/leads/{id} awaits the form first and then reads the row.
OpenUpdate(r, k) ==
  /\ req[r] = NoReq /\ LoopFree /\ lead[k].live
  /\ req' = [req EXCEPT ![r] = [NoReq EXCEPT !.kind = "update", !.phase = "save",
                                !.ks = <<k>>, !.old[k] = lead[k]]]
  /\ UNCHANGED <<lead, incs, edits, moved, raced>>

\* Mutant of Marked: taking back the contact leaves the conversion.
MarkedHalf(old, act) ==
  [old EXCEPT !.contacted = (@ \/ act \in {"contacted", "converted"}) /\ act # "uncontacted",
              !.converted = (@ \/ act = "converted") /\ act # "unconverted"]

\* The buttons of the list: contacted and converted go together.
Marked(old, act) ==
  [old EXCEPT !.contacted = (@ \/ act \in {"contacted", "converted"}) /\ act # "uncontacted",
              !.converted = (@ \/ act = "converted") /\ act \notin {"uncontacted", "unconverted"}]

SaveUpdate(r) ==
  /\ req[r].kind = "update"
  /\ LET k == req[r].ks[1]
     IN /\ \/ \E act \in {"notes", "contacted", "uncontacted", "converted", "unconverted"} :
                Operate(r, k, Marked(req[r].old[k], act), FALSE)
           \/ /\ lead[k].live /\ edits < MaxEdits /\ edits' = edits + 1
              /\ lead' = [lead EXCEPT ![k] = [NoRow EXCEPT !.id = lead[k].id]]
              /\ incs' = [incs EXCEPT ![k] = 0]
        /\ raced' = IF lead'[k].live THEN raced \cup Races(k) ELSE raced \ {k}
  /\ req' = [req EXCEPT ![r] = NoReq] /\ UNCHANGED moved

\* One step of the requests of some kinds, for some keys.
LeadStep(kinds, keys, reqs) ==
  \/ \E r \in reqs, ks \in {<<k>> : k \in keys} \cup (keys \X keys) :
       \/ "batch" \in kinds /\ BeginBatch(r, ks)
       \/ "stream" \in kinds /\ BeginStream(r, ks)
  \/ \E r \in reqs : Find(r) \/ Commit(r) \/ SavePipeline(r) \/ SaveUpdate(r)
  \/ \E r \in reqs, k \in keys : \/ "snapshot" \in kinds /\ BeginSnapshot(r, k)
                                 \/ "rerun" \in kinds /\ BeginRerun(r, k)
                                 \/ "pipeline" \in kinds /\ OpenPipeline(r, k)
                                 \/ "update" \in kinds /\ OpenUpdate(r, k)
----------------------------------------------------------------------------
Rows == [id : 0..MaxRows, live : BOOLEAN, grade : Grades \cup {"none"}, stage : Stages,
         contacted : BOOLEAN, converted : BOOLEAN, reminder : BOOLEAN, followups : 0..MaxEdits]

\* Every variable has its type.
LeadTypeOK ==
  /\ lead \in [Keys -> Rows]
  /\ incs \in [Keys -> 0..MaxEdits] /\ raced \subseteq Keys
  /\ \A r \in Requests : req[r].old \in [Keys -> Rows] /\ req[r].n <= Len(req[r].ks)

\* What a visitor, a crawl or a mail writes leaves the columns of the
\* operator alone, and what the operator writes leaves the grade alone, even
\* when both have read the row before either wrote it.
OperatorSaves == \E r \in Requests : req[r].kind \in {"pipeline", "update"} /\ req'[r] # req[r]
ColumnsKept ==
  [][\A k \in Keys : lead[k].live /\ lead'[k].live /\ lead'[k].id = lead[k].id =>
       IF OperatorSaves THEN lead'[k].grade = lead[k].grade
       ELSE \A c \in OperatorColumns : lead'[k][c] = lead[k][c]]_leadVars

\* followup_count is the number of follow-ups the operator has filed, unless
\* something else was written while a form was awaited, and never more.
FollowupsCounted ==
  \A k \in Keys : lead[k].live =>
    /\ lead[k].followups <= incs[k]
    /\ k \notin raced => lead[k].followups = incs[k]

\* The lists of /admin/leads: leads not contacted, and converted leads.
OpenLeads == {k \in Keys : lead[k].live /\ ~lead[k].contacted}
ConvertedLeads == {k \in Keys : lead[k].live /\ lead[k].converted}

\* No lead is in both lists, except those the pipeline form has declared won
\* (it sets converted_at and leaves contacted_at empty).
ListedOnce == OpenLeads \cap ConvertedLeads \subseteq moved

\* A batch files all of its new rows or changes nothing: not even a row that
\* somebody else has inserted since the lookup is taken for its own.
BatchIsWhole ==
  [][\A r \in Requests : req[r].kind = "batch" /\ req[r].phase = "save" /\ req'[r] = NoReq =>
       \/ lead' = lead
       \/ \E g \in Grades : \A i \in DOMAIN req[r].ks :
            LET k == req[r].ks[i] IN ~req[r].old[k].live => lead'[k].grade = g]_leadVars

\* A lead stays whole while visitors, crawls, batches and operators write it.
LeadsKept == []FollowupsCounted /\ []ListedOnce /\ ColumnsKept /\ BatchIsWhole
============================================================================
