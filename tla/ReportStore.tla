---------------------------- MODULE ReportStore ----------------------------
(***************************************************************************)
(* What the ingest side of the aggregator promises to everything that      *)
(* reads its database: a set of registered domains and a set of imported   *)
(* DMARC reports.  A report is imported for a registered domain, and two   *)
(* imported reports never have the same key (org_email together with       *)
(* external_report_id).  A transaction becomes visible as a whole.         *)
(*                                                                         *)
(* The tables are the ones of src/app/models.py: Domain and Report.        *)
(***************************************************************************)

CONSTANTS Names,    \* domain names
          Tenants,  \* customers of the instance
          Keys,     \* (org_email, external_report_id) pairs
          Docs      \* the contents of report documents

Domain == [name : Names, tenant : Tenants]
Report == [key : Keys, doc : Docs, name : Names, tenant : Tenants]

\* The domain a report row points to (Report.domain_id).
DomainOf(r) == [name |-> r.name, tenant |-> r.tenant]

VARIABLES domains,  \* committed rows of table domains
          reports   \* committed rows of table reports

storeVars == <<domains, reports>>

StoreInit == domains \in SUBSET Domain /\ reports = {}

UniqueKeys(R) == \A r, s \in R : r.key = s.key => r = s

\* A transaction adds domains D and reports R: none of the keys is taken,
\* and every report has its domain.
Import(D, R) ==
  /\ D \subseteq Domain /\ R \subseteq Report
  /\ UniqueKeys(R)
  /\ \A r \in R, s \in reports : r.key # s.key
  /\ \A r \in R : DomainOf(r) \in domains \cup D
  /\ domains' = domains \cup D
  /\ reports' = reports \cup R

\* Deleting a domain deletes its reports (ondelete="CASCADE").
Drop(d) ==
  /\ d \in domains
  /\ domains' = domains \ {d}
  /\ reports' = {r \in reports : DomainOf(r) # d}

StoreNext == \/ Import(domains' \ domains, reports' \ reports)
             \/ \E d \in Domain : Drop(d)

StoreSpec == StoreInit /\ [][StoreNext]_storeVars
============================================================================
