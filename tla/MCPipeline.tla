---------------------------- MODULE MCPipeline ----------------------------
(***************************************************************************)
(* Instances of ReportPipeline for TLC.  Customer acme has domain          *)
(* acmeName, customer bolt has boltName; boxA is acme's mailbox, boxR the  *)
(* mailbox of the reseller who manages both.  docA2 is docA sent a second  *)
(* time, docLong has a value PostgreSQL refuses.                           *)
(***************************************************************************)
EXTENDS ReportPipeline, TLC

CONSTANTS sched, thread1, boxA, boxR, form, api,
          acme, bolt, acmeName, boltName,
          docA, docA2, docB, docLong, keyA, keyB, keyLong

MCNames == {acmeName, boltName, NoName}
MCTenants == {acme, bolt}
MCKeys == {keyA, keyB, keyLong}
MCDocs == {docA, docA2, docB, docLong}
MCKey == (docA :> keyA) @@ (docA2 :> keyA) @@ (docB :> keyB) @@ (docLong :> keyLong)
MCPolicy == (docA :> acmeName) @@ (docA2 :> acmeName) @@ (docB :> boltName)
            @@ (docLong :> acmeName)
MCSources == Mailboxes \cup Requests
MCWorkers == {sched} \cup Threads \cup Requests
MCRoute == [s \in MCSources |-> IF s = boxR THEN "reseller" ELSE "tenant"]
MCReach == [s \in MCSources |-> IF s = boxR THEN {acme, bolt} ELSE {acme}]

AcmeDomain == [name |-> acmeName, tenant |-> acme]
BoltDomain == [name |-> boltName, tenant |-> bolt]
AcmeOnly == {AcmeDomain}
JustBolt == {BoltDomain}
BothDomains == {AcmeDomain, BoltDomain}

File(d) == [parse |-> "ok", docs |-> <<d>>]
Corrupt == [parse |-> "error", docs |-> <<>>]
Truncated == [parse |-> "crash", docs |-> <<>>]
Empty == [parse |-> "ok", docs |-> <<>>]

\* Mails 1 and 2 carry the same report, mail 2 also a corrupt attachment.
OneBox == [m \in Mails |-> boxA]
TwinMails == [m \in Mails |-> IF m = 1 THEN <<File(docA)>> ELSE <<Corrupt, File(docA2)>>]

\* Mail 1 goes to the reseller's mailbox and is about bolt's domain; mail 2
\* goes to acme's own.
TwoBoxes == [m \in Mails |-> IF m = 1 THEN boxR ELSE boxA]
OneEach == [m \in Mails |-> IF m = 1 THEN <<File(docB)>> ELSE <<File(docA)>>]

\* Uploads that compete for the keys of docA and docB in opposite order.
AcmeBoth == {AcmeDomain, [name |-> boltName, tenant |-> acme]}
Crossed == [r \in Requests |->
  IF r = form THEN <<File(docA), File(docB)>> ELSE <<File(docB), File(docA2)>>]

\* An upload and a mail with an archive that compete for them; the mail and
\* the upload through the API end with a document the database refuses.
CrossMails == [m \in Mails |->
  IF m = 1 THEN <<[parse |-> "ok", docs |-> <<docB, docA2, docLong>>]>> ELSE <<Empty>>]
Mixed == [r \in Requests |->
  IF r = form THEN <<File(docA), File(docB)>> ELSE <<File(docA2), File(docLong)>>]

\* Mail 1 has a document the database refuses between two it accepts; mail 2
\* crashes the parser and carries the first report of mail 1 again.
Poisoned == [m \in Mails |->
  IF m = 1 THEN <<File(docA), File(docLong), File(docB)>> ELSE <<Truncated, File(docA2)>>]

\* acme's administrator uploads a report about bolt's domain.
Claim == [r \in Requests |-> <<File(docB)>>]

NoMails == <<>>
NoFiles == <<>>
=============================================================================
