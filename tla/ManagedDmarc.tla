---------------------------- MODULE ManagedDmarc ----------------------------
(***************************************************************************)
(* Managed DMARC: src/app/routers/domains.py keeps the row of a domain and *)
(* two DNS records in the operator's zone in step, through the API client  *)
(* of src/app/hetzner_dns.py.  A request reads the row, calls the API      *)
(* (reading a record before it creates or replaces it) and commits; the    *)
(* API is not part of the transaction, and calls can fail.                 *)
(***************************************************************************)
EXTENDS Naturals, Sequences, FiniteSets

CONSTANTS Domains,      \* rows of domains
          RecordOf,     \* delegation_record_name: dots become hyphens
          Policies, DefaultPolicy,
          Jobs          \* requests under way at a time

ASSUME DmarcAssumption == "none" \notin Policies /\ DefaultPolicy \in Policies

VARIABLES
  row,      \* the rows
  auth,     \* domains with an authorization record
  deleg,    \* the delegation records: name to policy
  job,      \* the requests
  busy,     \* history: records two requests were about at a time
  torn      \* history: records written by a request that did not commit

dmarcVars == <<row, auth, deleg, job, busy, torn>>

Records == {RecordOf[d] : d \in Domains}

NoDomain == [live |-> FALSE, auth |-> FALSE, managed |-> FALSE, policy |-> "none"]
Idle == [op |-> "none", todo |-> <<>>, domain |-> "none", policy |-> "none", seen |-> "none",
         old |-> NoDomain, wrote |-> FALSE]

DmarcInit ==
  /\ row = [d \in Domains |-> [NoDomain EXCEPT !.live = TRUE]]
  /\ auth = {} /\ deleg = [n \in Records |-> "none"]
  /\ job = [j \in Jobs |-> Idle]
  /\ busy = {} /\ torn = {}

\* What a request does to the zone, in order.
Steps(op) == CASE op \in {"setup", "wizard"} -> <<"auth", "get", "put">>
               [] op = "policy" -> <<"get", "put">>
               [] op = "off" -> <<"drop">>
               [] op = "auth" -> <<"auth">>
               [] op = "unauth" -> <<"unauth">>
               [] OTHER -> <<>>

\* The policies a request may be about.
PoliciesOf(op) == CASE op = "setup" -> {DefaultPolicy}
                    [] op \in {"wizard", "policy"} -> Policies
                    [] OTHER -> {"none"}

\* Handlers that hold the event loop from their form to the commit.
LoopOps == {"wizard", "policy", "off"}

\* find_zone has answered; the domain is read before.
BeginJob(j, op, d, p) ==
  /\ job[j] = Idle /\ row[d].live /\ p \in PoliciesOf(op)
  /\ op \in LoopOps => \A k \in Jobs : job[k].op \notin LoopOps
  /\ job' = [job EXCEPT ![j] = [Idle EXCEPT !.op = op, !.todo = Steps(op), !.domain = d,
                                            !.policy = p, !.old = row[d]]]
  /\ busy' = busy \cup {RecordOf[d] : i \in {k \in Jobs : job[k] # Idle /\
                                               RecordOf[job[k].domain] = RecordOf[d]}}
  /\ UNCHANGED <<row, auth, deleg, torn>>

Did(j, step) == job[j].todo # <<>> /\ Head(job[j].todo) = step
Name(j) == RecordOf[job[j].domain]

\* The request ends with an error message; what it has written stays.
GiveUp(j) ==
  /\ job' = [job EXCEPT ![j] = Idle]
  /\ torn' = IF job[j].wrote THEN torn \cup {Name(j)} ELSE torn

\* A call that fails without effect: a status that is not expected.
CallFails(j) ==
  /\ job[j].todo # <<>> /\ GiveUp(j)
  /\ UNCHANGED <<row, auth, deleg, busy>>

\* upsert_record asks whether the record exists,
GetRecord(j) ==
  /\ Did(j, "get")
  /\ job' = [job EXCEPT ![j] = [job[j] EXCEPT !.todo = Tail(@), !.seen = deleg[Name(j)]]]
  /\ UNCHANGED <<row, auth, deleg, busy, torn>>

\* and creates or replaces it: that fails if the answer is out of date.
Writable(j) == (job[j].seen = "none") = (deleg[Name(j)] = "none")

Served(j) == job[j].policy

\* What the next call does to the zone.
Effect(j) ==
  \/ Did(j, "auth") /\ auth' = auth \cup {job[j].domain} /\ UNCHANGED deleg
  \/ Did(j, "unauth") /\ auth' = auth \ {job[j].domain} /\ UNCHANGED deleg
  \/ Did(j, "put") /\ Writable(j) /\ deleg' = [deleg EXCEPT ![Name(j)] = Served(j)] /\ UNCHANGED auth
  \/ Did(j, "drop") /\ deleg' = [deleg EXCEPT ![Name(j)] = "none"] /\ UNCHANGED auth

Advance(j) == job' = [job EXCEPT ![j] = [job[j] EXCEPT !.todo = Tail(@), !.seen = "none", !.wrote = TRUE]]

WriteRecord(j) ==
  /\ Effect(j) /\ Advance(j)
  /\ UNCHANGED <<row, busy, torn>>

\* The call has its effect but the answer does not arrive in time.
AnswerLost(j) ==
  /\ Effect(j)
  /\ job' = [job EXCEPT ![j] = Idle] /\ torn' = torn \cup {Name(j)}
  /\ UNCHANGED <<row, busy>>

\* delete_record_by_name returns False when it fails; nobody looks at that.
DropIgnored(j) ==
  /\ Did(j, "drop") \/ Did(j, "unauth")
  /\ Advance(j) /\ torn' = torn \cup {Name(j)}
  /\ UNCHANGED <<row, auth, deleg, busy>>

\* Mutant of Assigned: the row does not learn that the policy is off.
AssignedHalf(c) == CASE c.op \in {"setup", "wizard"} -> [c.old EXCEPT !.auth = TRUE, !.managed = TRUE,
                                                                             !.policy = c.policy]
                     [] c.op = "policy" -> [c.old EXCEPT !.managed = TRUE, !.policy = c.policy]
                     [] c.op \in {"auth", "unauth"} -> [c.old EXCEPT !.auth = (c.op = "auth")]
                     [] OTHER -> c.old

\* The columns a request assigns.
Assigned(c) == CASE c.op \in {"setup", "wizard"} -> [c.old EXCEPT !.auth = TRUE, !.managed = TRUE,
                                                                         !.policy = c.policy]
                 [] c.op = "policy" -> [c.old EXCEPT !.managed = TRUE, !.policy = c.policy]
                 [] c.op = "off" -> [c.old EXCEPT !.managed = FALSE, !.policy = "none"]
                 [] c.op \in {"auth", "unauth"} -> [c.old EXCEPT !.auth = (c.op = "auth")]
                 [] OTHER -> c.old

\* The commit: the columns that differ are written, or it raises because the
\* domain is gone, or the domain is deleted; the records are left.
CommitJob(j) ==
  /\ job[j] # Idle /\ job[j].todo = <<>>
  /\ LET c == job[j]
         d == c.domain
     IN IF c.op = "delete" THEN
          /\ row' = [row EXCEPT ![d] = NoDomain]
          /\ job' = [job EXCEPT ![j] = Idle]
          /\ torn' = torn \cup {n \in {RecordOf[d]} : row[d].managed \/ row[d].auth}
        ELSE IF ~row[d].live THEN GiveUp(j) /\ UNCHANGED row
        ELSE /\ row' = [row EXCEPT ![d] = [x \in DOMAIN NoDomain |->
                          IF Assigned(c)[x] # c.old[x] THEN Assigned(c)[x] ELSE @[x]]]
             /\ job' = [job EXCEPT ![j] = Idle] /\ UNCHANGED torn
  /\ UNCHANGED <<auth, deleg, busy>>

\* POST /domains, later: bounded to when no request has the former row.
AddDomain(d) ==
  /\ ~row[d].live /\ \A j \in Jobs : job[j].domain # d
  /\ row' = [row EXCEPT ![d] = [NoDomain EXCEPT !.live = TRUE]]
  /\ UNCHANGED <<auth, deleg, job, busy, torn>>

RestartJobs ==
  /\ \E j \in Jobs : job[j] # Idle
  /\ torn' = torn \cup {Name(j) : j \in {k \in Jobs : job[k] # Idle /\ job[k].wrote}}
  /\ job' = [j \in Jobs |-> Idle]
  /\ UNCHANGED <<row, auth, deleg, busy>>

JobOps == {"setup", "wizard", "policy", "off", "auth", "unauth", "delete"}

DmarcNext ==
  \/ \E j \in Jobs : \/ \E d \in Domains, op \in JobOps, p \in Policies \cup {"none"} :
                          BeginJob(j, op, d, p)
                     \/ GetRecord(j) \/ WriteRecord(j) \/ AnswerLost(j)
                     \/ DropIgnored(j) \/ CallFails(j) \/ CommitJob(j)
  \/ \E d \in Domains : AddDomain(d)
  \/ RestartJobs

DmarcSpec == DmarcInit /\ [][DmarcNext]_dmarcVars
----------------------------------------------------------------------------
Quiet(n) == \A j \in Jobs : job[j] = Idle \/ Name(j) # n
Alone(d) == \A e \in Domains : RecordOf[e] = RecordOf[d] => e = d

\* The records and the row of a domain agree whenever nobody is at work,
\* unless two requests were at work on them at a time, or one did not finish:
\* no order of operations and no failure before the first record leaves the
\* row with a policy that the zone does not serve, or a policy served with no
\* row for it.
InStep ==
  \A d \in Domains :
    LET n == RecordOf[d] IN
    Alone(d) /\ Quiet(n) /\ n \notin busy \cup torn =>
      /\ deleg[n] = (IF row[d].managed THEN row[d].policy ELSE "none")
      /\ d \in auth <=> row[d].auth

\* hetzner_dns.py:9: every customer domain has a record with its policy.
PolicyIsServed ==
  (\A j \in Jobs : job[j] = Idle) /\ busy = {} /\ torn = {} =>
    \A d \in Domains : row[d].managed => deleg[RecordOf[d]] = row[d].policy
============================================================================
