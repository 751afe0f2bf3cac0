# DMARC aggregator in TLA+

This directory holds TLA+ models of the DMARC aggregator whose source is in
`src/`, the TLC configurations that check them, and TLAPS proofs about its
central parts. Every definition is translated from the Python source;
`PROJECT.json` lists for each one the lines it stands for.

Contents: [the system](#the-system) · [hard behaviours](#what-is-hard-about-it)
· [modules](#modules) · [the core](#the-core-from-mailbox-to-table) ·
[what goes out](#what-goes-out-and-what-comes-back) ·
[who may do what](#who-may-do-what) · [what is computed](#what-is-computed) ·
[runs](#runs) · [fairness](#fairness) · [findings](#findings) ·
[proofs](#proofs) · [not modelled](#not-modelled)

## The system

The program is one FastAPI process (one uvicorn worker) with a PostgreSQL
database. An APScheduler thread pool runs four jobs in it (mailbox poll,
blacklist scan, mail-test poll, weekly digest); requests run on an event loop
(`async def`, atomic between two awaits) or in a thread pool (`def`); webhooks
and manual polls start threads of their own.

| Component | State | Operations | Interacts with |
|---|---|---|---|
| Report ingest (`ingest.py`) | tables `domains`, `reports`, `ingest_log` | duplicate check, routing to a tenant's domain, INSERTs | called by poller and uploads, inside their transaction; emits webhooks, spike alerts |
| Mailbox poller (`imap_poller.py`) | `mailboxes`, `_in_flight`; the IMAP server's flags and folders | scheduled poll of all mailboxes, manual poll, rescan | IMAP server, ingest, mailbox administration |
| Uploads (`routers/upload.py`, `routers/api.py`) | the request's session, the event loop | form upload, API upload | ingest, webhooks |
| Domain and mailbox administration (`routers/domains.py`, `routers/mailboxes.py`) | `domains`, `mailboxes` | add, delete, enable, disable | everything that routes to a domain or polls a mailbox |
| Webhooks (`webhooks.py`) | `webhooks`, delivery threads | emit, attempt, retry; toggle, delete | receivers, ingest |
| Blacklist monitor (`blacklist_job.py`, `blacklist.py`) | `blacklist_checks`, lookup cache | scan of a domain, of all domains | DNS, notifications |
| Mail tester (`mt_worker.py`, `mt_scorer.py`, `routers/mail_tester.py`) | `mail_tests`, IMAP flags, leads | create test, poll inbox, score, expire, unlock | IMAP, leads, notifications |
| Snapshots and leads (`routers/snapshot.py`, `routers/admin_leads.py`) | `lead_snapshots` | public form, batch, crawl, re-run, pipeline | mail tester |
| Threat test (`routers/threattest.py`) | `threat_tests` | request code, verify, send batch | SMTP |
| Managed DMARC (`routers/domains.py`, `hetzner_dns.py`) | domain columns, records of the DNS zone | create, change and remove delegations and authorisations | Hetzner DNS API |
| Accounts (`routers/auth*.py`, `routers/users.py`, `dependencies.py`) | `users`, `auth_tokens`, session cookie | login, sign-up, reset, roles, act-as | all routers |
| Resellers (`routers/reseller.py`, `routers/admin.py`) | `tenants`, `resellers`, seats | create a customer, enter it, delete | accounts, routing of a reseller's mailbox |
| API keys (`routers/api_keys.py`) | `api_keys` | create, revoke, delete, use | API upload |
| Newsletter (`routers/newsletter.py`) | `newsletter_subscribers` | subscribe, confirm, unsubscribe | SMTP |
| Notifications (`notifications.py`, `notify.py`) | `tenant_settings`, preferences | spike alert, weekly digest, quiet hours | SMTP, ingest |
| Rate limiter (`rate_limit.py`) | token buckets | take | login, mail forms |
| Statistics (`stats.py`, dashboards) | none | ten aggregations, filters | the tables |
| System panel (`routers/admin.py`, `env_file.py`, `config.py`) | `.env`, `os.environ`, cached settings | save, restart | every component that reads a setting |
| Pure logic (`mt_scorer.py`, `dns_utils.py`, `advisor.py`, `source_classifier.py`) | none | score, count lookups, advise, classify | the components above |

What makes the main components correct:

* **Ingest**: a report is stored once, under a domain that exists and that
  belongs to a customer the mailbox or uploader serves; the log and the tables
  agree.
* **Poller**: a mail that no later poll will look at (flagged, or moved) has
  been recorded; a mailbox is polled by one background thread at a time and
  never stays locked; every mail is fetched in the end.
* **Uploads**: all or nothing per request, and every request is answered.
* **Webhooks**: a bounded number of deliveries; the row shows what happened;
  every delivery ends.
* **Blacklist monitor**: alerts when it should, not more often than the
  cooldown allows, and not on flapping.
* **Mail tester, leads, threat test, newsletter, managed DMARC, accounts**: a
  step that is repeated, interrupted or raced leaves the row and the outside
  world in step.
* **Statistics and conclusions**: views that are computed apart agree, and what
  is concluded follows from what they show.

## What is hard about it

* The IMAP server changes at once (a fetch flags a mail, a move takes it
  away) while the database changes at the end of the poll, in one commit: every
  failure and every restart in between leaves the two apart.
* Pollers, uploads and administrators run concurrently in separate READ
  COMMITTED transactions. The duplicate check and the INSERT are two statements;
  unique indexes make an INSERT wait for another transaction, which may deadlock.
* Upload handlers block the event loop in database calls and give it away in
  the middle of their transaction (`await f.read()` of a spooled file).
* A failed flush leaves an SQLAlchemy session unusable until it is rolled back,
  and the poller does not roll back.
* A request reads a row, awaits a form, a DNS answer or a hash, and commits only
  the columns that differ from what it read: concurrent requests mix columns.
* Mails, webhooks and calls to the DNS API go out before the transaction that
  records them commits, or after it, and may fail or lose their answer.
* Retries, in-flight sets and caches live in memory and vanish in a restart.
* Scores, counts and classes are chains of conditions with bounds that overlap.

`PROJECT.json` lists these hazards one by one, at the line where each bites,
with the properties that would catch it going wrong.

## Modules

| Module | Models | Builds on |
|---|---|---|
| `ReportStore` | the abstract store: domains and reports that grow atomically | – |
| `Ingest` | `ingest.py` inside one transaction; row locks and failures of PostgreSQL | `INSTANCE ReportStore` |
| `ImapPoller` | `imap_poller.py`, the IMAP server as it sees it | `Ingest` |
| `ReportPipeline` | the composition: pollers, uploads on the event loop, administrators, restarts | `ImapPoller` |
| `ReportPipelineProofs` | theorems | `ReportPipeline`, `TLAPS` |
| `PipelineMailProofs` | theorem that no mail is lost | `ReportPipelineProofs` |
| `BlacklistMonitor` | `blacklist_job.py`, `blacklist.py` | – |
| `BlacklistProofs` | theorems | `BlacklistMonitor`, `TLAPS` |
| `WebhookDelivery` | `webhooks.py`, `routers/webhooks.py` | – |
| `ThreatTest` | `routers/threattest.py` | – |
| `Newsletter` | `routers/newsletter.py` | – |
| `RateLimit` | `rate_limit.py` | – |
| `Digest` | `send_weekly_digest`, run by `scheduler.py` | – |
| `OutreachProofs` | theorems | `RateLimit`, `Newsletter`, `ThreatTest`, `Digest`, `WebhookDelivery`, `TLAPS` |
| `Leads` | the table of leads and its writers in `routers/snapshot.py`, `routers/admin_leads.py` | – |
| `MailTester` | `routers/mail_tester.py`, `mt_worker.py` | `Leads`, `INSTANCE MailTestLife` |
| `MailTestLife` | abstract: the life of one test address | – |
| `MailTesterProofs` | theorems, also about leads | `MailTester`, `TLAPS` |
| `Accounts` | users, tenants, resellers, links, sessions, requests | – |
| `ApiKeys` | keys and the uploads that carry them | – |
| `ManagedDmarc` | rows of domains, two DNS records, the API between them | – |
| `TenancyProofs` | theorems | `ApiKeys`, `ManagedDmarc`, `Accounts`, `TLAPS` |
| `MailScore` | `mt_scorer.py`: checks, weights, total | – |
| `DnsHealth` | `dns_utils.py`: SPF lookups, issues, health score | – |
| `Statistics` | `stats.py` and the pages that use it | – |
| `Insight` | spike alert, advisor, source classifier | `Statistics` |
| `EnvFile` | `env_file.py`, the system panel, settings in force | – |
| `Notify` | `notify.py`: recipients, preferences, quiet hours | – |
| `PureProofs` | theorems | `EnvFile`, `Insight`, `Notify`, `MailScore`, `TLAPS` |
| `CountProofs` | theorems about what is counted | `DnsHealth`, `Insight`, `TLAPS` |
| `MCPipeline`, `MCBlacklist`, `MCOutreach`, `MCTenancy`, `MCPure` | instances for TLC | the modules above |

`MCOutreach`, `MCTenancy` and `MCPure` put modules side by side that share no
state (but for the mail tester, which composes with the leads). A behaviour
chooses a `scene` first and plays that one; in the other modules nothing
changes. A run thus checks the union of small instances, and names the requests
that meet in each.

A definition whose comment starts with "Mutant of" belongs to no model: it is a
plausible bug, stated so that one can see that a property notices it. `PROJECT.json`
pairs it with the definition it replaces. A property that is a conjunction has
a mutant for each of its parts as far as there is a different bug to catch.

## The core: from mailbox to table

**Workers and sources.** A *worker* is whatever ingests: the scheduler's thread,
a thread of `poll_in_background`, or an upload request. A *source* is what it
works for: a mailbox or the upload itself. `Route` and `Reach` say how
`ingest_parsed` routes for it: a tenant's own source (`tenant`), a reseller's
mailbox (`reseller`: domains of its customers), or an unbound mailbox (`any`:
only an unambiguous match).

**Transactions.** `domains`, `reports` and `ingestLog` are the committed tables;
`newDomains[w]`, `newReports[w]` and `newLog[w]` the uncommitted rows of worker
`w`. A query sees `committed \cup own`. `Publish` commits, `Discard` rolls back.
An INSERT waits while another transaction holds the same unique value
(`WaitsFor`), fails when the value is committed, too long, or its domain row is
gone (`InsertRefused`; a domain that is added again is another row), and is
cancelled when it is part of a ring of waiting transactions (`Deadlocked`). A ring
that leads through the event loop (`Hung`) is one that PostgreSQL does not see.
`broken[w]` is a session after a failed flush.

**The loop.** `pc[w]` follows the code: `search` and `fetch` in `poll_mailbox`,
`files` between two attachments, `check`, `route`, `create`, `insert` within
`ingest_parsed`, `end` before the commit. Between any two steps other workers
run; a step contains what the code does without touching shared state. One
attachment is `[parse, docs]`: it parses to a sequence of documents, to a
`DmarcParseError`, or makes the parser raise something else.

**The server.** `arrived`, `seen`, `moved` are the mails of a mailbox, those
with `\Seen`, and those in the target folder. `Fetch` flags a mail in the step
that hands it out, as IMAP does; `MAX_FETCH_PER_POLL` is compared afterwards.

**Event loop.** `loop` is the request that has the event loop; it gives it
away (`AwaitFile`) only before a file that was spooled to disk, and keeps it
while PostgreSQL makes it wait.

**`excused`** is a history variable: the mails that a poll has touched and that
a restart, a failed commit, a broken connection or the fetch limit has lost. The
invariant `SeenIsAccounted` says that these are the only ones, that is, that
there is no *other* way to lose a mail.

Abstractions: documents, keys and names are model values; a document has a key,
a policy domain, and may be one the database refuses. PTR lookups, spike alerts
(modelled in `Insight`), `last_polled_at`, `last_error`, audit rows and the
columns of records are left out. UIDs are numbers and are fetched in order.

## What goes out and what comes back

**Blacklist monitor.** A *scanner* is the daily job, "scan all" (both *sweeps*
over many domains in one session) or the button of one domain. For each IP it
reads the last check, looks the IP up in every zone (cache, answer, or no
answer), decides on an event, sends the mail, adds a row; rows are committed
once per domain. An exception in a sweep goes on with the next domain without a
rollback, so the rows of the failed domain are committed with the next one.
`lost` counts sessions that ended with uncommitted rows. Uncommitted rows are kept
for each domain and IP, because one session may check an IP for several domains.

**Webhooks.** `emit` starts a thread for each enabled webhook; a thread loads
the row (`Attempt`), posts and commits (`Post`), and waits for its next try
(`Retry`). `Save` writes only the columns that differ from the values loaded, as
SQLAlchemy does. A webhook that was deleted meanwhile ends the thread.

**Leads.** `req` holds, for each request, the kind of writer and the rows as it
read them; `Begin…` is the read, `Find` the second look of batches and crawls,
`Commit` and `Save…` the write of the columns that differ. `raced` names the keys
that changed while a pipeline form was awaited; the properties say what holds
for all other keys.

**Mail tester.** A poll (`poll[p]`) reads the UIDs of the inbox once and walks
through them: `next` (look the token up, decide, score), `store` (commit of the
score), `flag`, `find` and `mirror` (the lead, in a session of its own). A mail may be
one the scorer raises on (`unscored`: passed over, never flagged) or one that cannot be
written as a string or whose result PostgreSQL refuses (`refused`: the poll ends). Two
polls may be at work, and a poll may hold a stale row. `Expire` and `Drop` delete
rows; `Ask` and `Generate` count today's tests and insert a row in two steps. The
mirror shares the table with `Leads`, in which `MailTester` is a further writer.
`MailTestLife` is the abstract life of an address: given out once, settled once by
the first mail that can be scored, gone for good.

**Threat test.** `Open` is what `POST /verify` reads and checks before it awaits
the form, `EnterWrong` and `EnterRight` what it commits after it; the batch goes on
case by case in a thread. `overlap` names the tests of which two forms were open.

**Newsletter.** `sub` is the row; a request holds the copy it has read
(`asking.old`, `click[c].old`), and `Store` writes what differs. Tokens are numbers
in the order of their issue.

**Rate limiter.** `read[c]` is the clock value a caller has read before it waits
for the lock, so `Take` may meet a bucket with a later time. Tokens are counted
in refills: a request costs `Cost` ticks.

**Digest.** One transaction over all tenants each Monday; the clock is read again
for every tenant, so a tenant is served `lag` after the start of the job, and not
equally late every week. Weeks have `WeekTicks` ticks.

## Who may do what

**Accounts.** `call[r]` is a request between its checks (with what it has read)
and its commit; `Commit…` fails on a unique address or a parent that is gone.
The first start makes the tenant and the administrator of the configuration
(`FirstUser`). Requests: change a role, delete a user, create users and tenants, move the limit
of a reseller, make administrators of resellers, delete resellers and tenants with
their cascades, use a link for a reset or a sign-up, log in, enter a tenant,
restart. `crowded` names what two open
requests were about at a time, `outside` the tenants whose administrators somebody
from outside changed: most properties hold apart from these, and the comment of
each says so. Hashes and cookies are left out: a session is who is logged in.

**API keys.** An upload reads the key, works, and writes `last_used_at`; a request
to revoke or delete may commit in between.

**Managed DMARC.** A request is a sequence of calls to the DNS API, each of which
takes effect or not and is answered or not, between the read of the row and the
commit. `busy` names the records of two requests at a time, `torn` those of
requests that wrote and did not commit. Two domains may map to one record name
(`RecordOf`), as `hetzner_dns.py` does.

## What is computed

**MailScore.** Fifteen checks in the order of `score_mail`: each has a weight, the
shares of it that a result can earn (in hundredths), and the conditions under which
it is not made. TLC scores two mails side by side that differ in one check.

**DnsHealth.** The recursion of `_count_spf_lookups` as a machine with an explicit
stack, over records that refer to each other, also twice and in cycles; then the
issues, points, score and grade as operators.

**Statistics, Insight.** The rows are sequences of records within reports; each
aggregation is an operator with the filter and the grouping of its query. `Import`
and `Delete` change the table while `now` moves in quarters of a day; at every
import `SpikeAlert` runs. `Advice` and `Classify` follow the chains of conditions
of `advisor.py` and `source_classifier.py`.

**EnvFile.** The file is a sequence of lines: a key with its text, a comment, a blank.
A text is a word, maybe in quotes, maybe followed by ` #`. The panel reads it without its
quotes (`Unquoted`) and compares it so with what is sent; python-dotenv drops what
follows ` #` as well, unless there are quotes (`Parsed`). A save has three steps: it
rewrites the file; it commits the audit event, where it may fail, and clears the cached
settings; it pushes the values into `os.environ`. A thread reads settings in three steps
too: the copy of the environment, the file, and the cache of `lru_cache`, which stores
what was read however long ago that began. A restart brings the environment of the
container back.

**Notify.** Every user has a row of preferences or none; quiet hours are hours of
the day, possibly over midnight, or missing.

## Runs

All runs use small sets of model values; the bounds that matter are named.

| Run | Instance | Checks |
|---|---|---|
| `overlap` | scheduler and one thread on one mailbox; two mails with the same report, one with a corrupt attachment; login failures, lost connections, restarts; rescans | `TypeOK`, `InFlightExact`, `SeenIsAccounted`, `LogTellsTruth`, `ImplementsStore` |
| `poison` | scheduler and one thread on two mailboxes; a mail whose second document is refused by the database, an attachment on which the parser crashes, failing moves, mailboxes disabled and deleted | `SeenIsAccounted` |
| `routing` | a reseller's mailbox and a customer's upload with the same report; the domain is deleted and added again | `UniqueReports`, `NoOrphans`, `StaysInReach` |
| `progress` | the polls of two mailboxes; a form upload and an API upload, both with files on disk, that compete with them and with each other for reports, in opposite order; documents that are refused; under fairness | `JobsEnd`, `MailsFetched` |
| `bl_job` | the daily job, two domains with one IP, two zones, exceptions, failing requests, threshold 2 | `NoFlapAlerts`, `RisesAreAlerted` |
| `bl_shared` | the job and a page's button on one IP; outages, mails not sent, failing requests, restarts; threshold 1 | `OneAlertPerScanner` |
| `outreach` | eleven scenes: `webhook`, `threat`, `news`, `rate`, `digest`, `polls`, `inbox`, `asks`, `mail`, `desk`, `bulk`; under fairness | `OutreachTypeOK`, `PostsAreShown`, `CodeDecides`, `BucketIsFair`, `DigestSpacing`, `TestsAreKept`, `SendingEnds`, `NewsKept`, `LeadsKept`, `MailsAreRead`, `ImplementsLife` |
| `tenancy` | nine scenes: `first`, `roles`, `links`, `seats`, `limits`, `resellers`, `enter`, `keys`, `dmarc` | `Placed`, `AdminRemains`, `LinkOnce`, `SeatsHeld`, `AdminsBelong`, `InStep`, `RevokedForGood` |
| `pure` | six scenes: `score`, `dns`, `reports`, `source`, `env`, `notify` | `ScoresAreFair`, `LookupsAreCounted`, `ViewsAgree`, `ConclusionsAreEarned`, `SavedIsInForce`, `FailuresNeverHelp`, `SavesKeep`, `ChoicesAreKept` |
| `truncated`, `hang`, `spike` | see [findings](#findings) | one property each |

What they show, beyond the types:

* `SeenIsAccounted`: a mail that no later poll will look at is in the import
  log, is being worked on, or is one of the `excused`. `InFlightExact`:
  `_in_flight` is exact on every way out of a background poll. `LogTellsTruth`:
  an "ok" line and its report become visible together. `UniqueReports`,
  `NoOrphans`, and `Exclusive` behind them (proved): no interleaving writes a
  report twice or without its domain. `StaysInReach`: routing never leaves the
  customers of the source. `ImplementsStore`: all of this looks like the atomic
  store `ReportStore`. `JobsEnd`, `MailsFetched`: polls and uploads end in spite
  of locks and deadlocks, and every mail is fetched, unless a worker is `Hung`: two
  uploads, and a poll that waits for one of them, can hang as run `hang` shows, and
  they do so in `progress`.
* `NoFlapAlerts`, `RisesAreAlerted`: an alert needs agreeing checks and a
  confirmed rise gets one. `OneAlertPerScanner`: one scanner keeps the cooldown
  unless its own rows were lost.
* `PostsAreShown`: a receiver is not called too often and the row shows what all
  attempts agree on. `CodeDecides`: one batch for one right code, attempts are
  limited, unless two forms were open at a time. `SendingEnds`: deliveries and
  batches end. `NewsKept`: the last link works, and decisions stay. `BucketIsFair`:
  never more than capacity and refill, and the first is let through.
  `DigestSpacing`: at most one week is missed, and no two digests within a week.
* `TestsAreKept`: the first mail that can be scored decides, whoever was scored
  is filed as a lead, visitors keep the daily limit. `MailsAreRead`: a mail on
  which the scorer raises holds up no other. A mail whose result is refused does: it is
  excepted with those behind it, as long as its test waits. `ImplementsLife`: the tester implements
  `MailTestLife`. `LeadsKept`: columns of visitors and operators stay apart,
  follow-ups are counted, a batch is filed whole, a lead is in one list.
* `Placed`, `AdminRemains`, `LinkOnce`, `SeatsHeld`, `AdminsBelong`: rows have
  their parents, tenants their administrators, links are used once, seats are
  held, in all orders of requests that do not overlap on the same row, and in
  named cases of those that do. `InStep`: row and zone agree whenever nobody is at
  work, unless a request did not finish. `RevokedForGood`: an upload under way
  does not revive a key.
* `ScoresAreFair`: a mail that does better in one check never scores lower, and
  full marks are ten. `LookupsAreCounted`: each record is read once, each term
  counted once, exactly for trees and never beyond what a receiver counts.
  `ViewsAgree`: ten aggregations, the reseller's console and the list of reports
  agree. `ConclusionsAreEarned`: advice and alerts follow from the domain's own
  numbers. `FailuresNeverHelp`: a failing message never improves a source's class.
  `SavesKeep`: what was saved is shown without its quotes, the same form leaves the
  file as it is, and nothing else is lost. `SavedIsInForce`: the process goes by what was
  saved to it, or, after a restart, by what python-dotenv reads of it, unless the
  cached settings were read while a save went on. `ChoicesAreKept`: recipients by choice and hour, not by who has
  looked at the page.

**Bounds.** Every conflict in the core is between two transactions over one key
or one domain, or a ring of two; three workers, two mails and two customers
contain each of them, with a third worker to break in. `MaxFetch = 1` with two
mails exceeds the limit in `truncated`, `MaxFetch = 2` reaches it exactly when
both mails are fetched at once. In `BlacklistMonitor` every rule looks at the last
`Threshold` checks and at a window of `Cooldown` hours: three scans with a
threshold of two and no cooldown, and four scans in three hours with a cooldown of
one, go past both. Two deliveries, two open forms, two clicks beside a
subscription, two callers of a bucket, two batches are the smallest numbers that
mix columns or counts. `Capacity = 7` and `Cost = 3` let two requests through and
leave a rest; with `MaxTime = 4` the bucket refills for one more. Three mails to two
addresses, of which the first cannot be scored, make both polls disagree about
what is left; scene `inbox` has one poll and two more mails, one that is refused and one
behind it, and shows that the last is read where the test of the refused one is gone by then.
The scene `mail`, which adds an unlock form and an operator, has two.
Four weeks with a lag of up to half a week contain a digest that is skipped and
the one after it. `MaxSeats = 2` is filled, lowered below and freed. In `pure`,
`MaxShort = 3` checks fall short at a time, as many as the rule about SPF, DKIM and
DMARC needs, and enough for two that decide each other's weight; the six forms of
`MCForms` hold empty fields, quotes, empty quotes and a ` #`, two of them are sent, and
two threads read, so that one can store what another save has overtaken; three
names with `MaxDepth = 1` contain cycles, names referred to twice and the cut; the volumes of the candidate reports are chosen on both sides
of a hundred messages, the rates on both sides of 99 and of the spike threshold;
`MaxSource = 130` passes every bound of the classifier up to its hundred messages.

Deadlock checking is off (`CHECK_DEADLOCK FALSE`) where the instance really stops:
all requests answered, all scans used up, rows deleted, the clock at its bound.

### Fairness

`FairSpec` is strongly fair for the step of each poller and of each upload:
threads are scheduled, PostgreSQL queues lock waiters, the event loop resumes its
tasks in turn; a worker that is able to go on again and again does so. The
interval trigger fires again and again (`PollAllEnabled`, `PollNext`). No fairness
for administrators, manual polls, deliveries of mail or faults. Strong fairness is
needed because a waiting INSERT is enabled and disabled as other transactions come
and go. `MCFairSpec` (of `outreach`) is weakly fair for each delivery thread, each
batch of test mails and each step of a poll of the test inbox, including its start:
the scheduler starts it every few seconds, and nothing disables its next step.

## Findings

Each of these is the counterexample of one run whose property states what the
repository says; `PROJECT.json` quotes the line.

| Run | What happens |
|---|---|
| `hang` | Two uploads with spooled files insert two reports in opposite order; the one on the event loop waits in PostgreSQL for the other, which waits for the loop. No request is answered any more. |
| `truncated` | The mail beyond `MAX_FETCH_PER_POLL` is flagged by the fetch and never imported. |
| `spike` | A report about one day is imported when its beginning is more than 24 hours ago, so the day's fail rate is never compared with the week before, and no mail is sent. |

Eleven further configurations, not among the runs, check one property each that
states what the repository says; TLC finds it violated.

| Configuration (module), property | What happens |
|---|---|
| `MC_announce.cfg` (`MCPipeline`), `AnnouncedIsCommitted` | A webhook announces a report before the commit, and also when it is rolled back (`ingest.py:177`). |
| `MC_bl_new.cfg` (`MCBlacklist`), `NewListingIsAlerted` | With the default threshold, clean → listed → listed sends no alert (`blacklist_job.py:217`, against `:2-3`). |
| `MC_gaveup.cfg` (`MCOutreach`), `GaveUpIsRecorded` | A delivery gives up and the row shows no error (`webhooks.py:63`, against `:6`). |
| `MC_already.cfg` (`MCOutreach`), `AlreadyIsTrue` | Whoever has unsubscribed and subscribes again is told to be subscribed already, and stays unsubscribed (`routers/newsletter.py:71`). |
| `MC_twice.cfg` (`MCOutreach`), `OneBatch` | Two confirmations of one test send two batches (`routers/threattest.py:268`, against `:259`). |
| `MC_digest.cfg` (`MCOutreach`), `DigestEveryWeek` | A job that reaches a tenant earlier than the week before skips its digest (`notifications.py:98`, against `README.md:23`). |
| `MC_enter.cfg` (`MCTenancy`), `EnterTakesEffect` | A reseller's administrator enters a customer and goes on seeing its own tenant (`dependencies.py:54`, against `reseller.py:5`). |
| `MC_served.cfg` (`MCTenancy`), `PolicyIsServed` | `shop-acme.ch` and `shop.acme.ch` share one record; the later one decides for both (`hetzner_dns.py:176`, against `:9`). |
| `MC_secrets.cfg` (`MCPure`), `SecretsStay` | An empty field erases `SPAMHAUS_DQS_KEY`, which `is_sensitive` does not match (against `admin_system.html:196`). |
| `MC_stale.cfg` (`MCPure`), `NewValuesAreSeen` | A thread that began to read the settings before `cache_clear`, or reads them before the push, caches old values, and they stay (`config.py:94`, against `routers/admin.py:516`). |
| `MC_blocked.cfg` (`MCOutreach`), `OldTestsGo` | A mail whose result is refused ends every poll before old tests are deleted, and so stays where it is itself (`mt_worker.py:369`, `:389`, against `mail_test_landing.html:298`). |

Other disagreements met while modelling. The models contain them as far as they
are about modelled state; no property asks about them.

*Ingest, poller, webhooks*: an API upload announces each report twice
(`routers/api.py:75` beside `ingest.py:177`); the scheduled poll does not enter
`_in_flight`, so a mailbox is polled twice at a time (`imap_poller.py:245`); a mail
is moved before its import is committed (`imap_poller.py:191`); an exception of the
parser other than `DmarcParseError` leaves no line in the import log
(`parser.py:205`); column `events` of a webhook is ignored (`webhooks.py:88`).

*Blacklist monitor*: overlapping scans send the same alert twice within the
cooldown (`blacklist_job.py:224`, against `:27`); the first check of an IP alerts
without a second observation (`:209`, against `:196-197`); with the default
threshold no "clean again" mail is sent (`:220`); an unreachable blacklist counts
as "not listed" (`:181`, against `blacklist.py:285-287`); a check is marked as
alerted although no mail was sent (`:231`, against `models.py:389-390`).

*Settings*: the panel shows flags absent from `.env` as off and saves them as
false; `docker compose restart` does not apply keys that the container's environment
sets, which takes precedence over `.env`; values in quotes or with ` #` are read
differently by the panel and by the settings, also by the settings before and after a
restart; a value sent in quotes is shown without them and reported as changed each time
it is saved (`env_file.py:198-202`); a pair of quotes with nothing between them is not
empty when it is checked, and empty when it is read (`env_file.py:165`, against
`routers/admin.py:485`); on a bind mount the write is not atomic (`env_file.py:3`).

*Notifications*: quiet hours drop mails (`me_notifications.html:82` says they are
collected); the preferences for weekly digest and spike have no effect; the spike
threshold is ">" in the help and ">=" in the code.

*Scores and statistics*: an SPF include referred to twice is counted once, and the
loop error never surfaces (`dns_utils.py:384`); a redirect beside `all` is counted;
a DNSBL check that fails earns full points; grade A is possible with `p=none`; a
DKIM record without `p=` is reported as revoked; `days_seen` is always 1 in the
classifier, so every source is new; an evaluation that is missing fails on the
dashboard and passes in the list of reports; "ready" can stand beside "pass rate
falls"; a failing record about no messages (`parser.py:154`) lists its report as failing,
and its page shows no failure; after 30 days without reports the advice is "no data" instead of "stopped";
the tiles of a domain show all times under the heading of the last days
(`dashboard.py:40`).

## Proofs

`tlapm` checks the theorems below for all values of the constants that satisfy the
named assumptions. Each rests on an inductive invariant that is proved to hold
initially and to be kept by every action, one lemma per action.

### `ReportPipelineProofs` (68 lemmas)

From `IngestAssumption`, `ImapAssumption` and `PipelineAssumption` (workers, sources
and mails are disjoint kinds of things, functions have their domains, UIDs are
numbers), for `Spec`:

| Theorem | Property | Argument |
|---|---|---|
| `TypeCorrect` | `TypeOK` | inductive as it stands: it contains `JobSet`, which ties the locals of a worker to its label |
| `TransactionsExclusive` | `Exclusive` | first part of the inductive invariant `StoreInv` |
| `ReportsUnique` | `UniqueReports` | `StoreInv` |
| `ReportsHaveDomains` | `NoOrphans` | `StoreInv` |
| `PipelineImplementsStore` | `ImplementsStore` | every step is an import, a deletion or a stutter of `ReportStore`, given `StoreInv` |
| `OkMeansImported` | `LogTellsTruth` | `LogInv`: an uncommitted "ok" line has its uncommitted report |
| `InFlightIsExact` | `InFlightExact` | `InFlightExact` with `TypeOK` is inductive |
| `RoutingStaysInReach` | `StaysInReach` | `ReachInv`: also the domain a document has been routed to is within reach |

`UniqueReports` and `NoOrphans` are not inductive: they speak of committed
tables, and a commit keeps them only because of what holds of open transactions.
`StoreInv == Exclusive /\ UniqueReports /\ NoOrphans` adds it: uncommitted rows
are disjoint from the tables and from each other, and every uncommitted report
has its domain. To keep the case analysis small, the proof first classifies
every step of the pipeline by its effect on the tables and transactions (one
worker adds a domain, adds a report, commits or discards; an administrator adds
or deletes a domain; a restart discards everything; nothing changes) and then
proves preservation once per class. The same is done for the log (`LogEffect`)
and for threads (`ThreadEffect`).

### `PipelineMailProofs` (28 lemmas)

`NoMailIsLost == Spec => []SeenIsAccounted`, from the same assumptions. The property
says that a mail out of sight of the next poll is in the committed import log, or
in the hands of a poll, or excused (its poll failed or was cut off). It is not
inductive: nothing in it says that the poll which holds the mail will account for it
when it commits. `MailInv` does. A poll that answers for a mail (`Holds`) has
fetched it in this run, has moved it if it is a rescan, and `Covers` it: either its
transaction is broken and can never be committed, or every document of the mail
has a line, committed or to be committed with this transaction, or is still before
the worker (`Pending`: in an attachment it has not opened, or among the documents
of the one it has). The mail a poll is working on is always one it covers, which is
what the step that moves it needs.

### `MailTesterProofs` (115 lemmas)

From `MailTesterAssumption`, `MailsAssumption` (mails are a sequence of records
about known tokens and keys) and `LeadsAssumption`, for `MailSpec`, with any number
of tests, mails, polls, requests and faults. `MailSpec` begins with an empty table
of leads, in which all writers of `Leads` act beside the tester.

| Theorem | Property | Argument |
|---|---|---|
| `Inductive` | – | the invariant `IInv` below |
| `FirstMailAlwaysDecides` | part of `TestsAreKept` | follows from `TestInv` |
| `TesterImplementsLife` | `ImplementsLife` | every step gives addresses out, settles one, lets some lapse, or stutters, given `IInv` |
| `TestsAreAlwaysKept` | `TestsAreKept` | `IInv` with `LeadInv`, `FiledInv` and `DailyInv` |
| `LeadsAlwaysKept` | `LeadsKept` | `LeadInv` with `CountInv`; every step is quiet, a visitor's or an operator's |

That the first mail decides is not inductive: a poll works with a list of UIDs that
another poll has worked through since, and with a row read before that poll's
commit. `IInv` says that a flagged mail that counts belongs to a settled test
(`TestInv`); that a poll takes mails in order and that whatever it left behind is
settled or at hand (`OrderInv`); and that a poll whose copy of the row says "waiting"
has met no mail that counts before, other than the one it is about to store
(`CopyInv`, `StoreInv`). Hence two polls that both store a result for one test store
that of the same mail. `IsFirst` of `MailTestLife` is what both mean by "first".

That whoever is scored is filed concerns two tables. `LeadInv` gives requests and
rows their shape: a request that saves has read the key it writes. `FiledInv` adds
that a poll past its score carries a key and the UID of the mail, and that a scored
test has its lead in the table, or a poll that is about to file it, or is `lost` in a
crash. The daily limit is counted by `DailyInv`: as long as no two visitors ask at
the same moment, one who has been let through still finds room.

`LeadsKept` speaks of what several requests on one lead make of it. `CountInv` says
what an operator's request has read (`Copied`): a row no newer than the one in the table
and, if it is still that row, follow-ups no more than those filed, and exactly those
unless the key is in `raced`. A button's handler reads after its last `await` and keeps
the event loop (`OneOnLoop`), so what it has read is still in the table when it commits;
otherwise a button could set one of the two columns of the lists against a stale copy
of the other. The proof classifies the steps: those that leave the
table alone (`QuietWhole`), those of visitors, crawls, batches and mails
(`VisitorWhole`: a row keeps its operator's columns or is new) and an operator's commit
(`OperatorWhole`); `ColumnStep` and `WholeStep` are the two action properties.

### `BlacklistProofs` (40 lemmas)

From `BlacklistAssumption`, for `BlSpec`. Every scan has the shape `ScanInv`: a
session adds at most one row for an IP of a domain, and none for those it has
not come to.

| Theorem | Property | Argument |
|---|---|---|
| `BlTypesKept` | `BlTypeOK` | `ScanInv` |
| `AlertsAreHeldBack` | `OneAlertPerScanner` | `AllCounted` |
| `FlapsRaiseNothing` | `NoFlapAlerts` | `JudgedInv`, if `OneScanner` |
| `RisesAreReported` | `RisesAreAlerted` | `JudgedInv`, if `OneScanner` |

`AllCounted` says for every start `s` of a cooldown: the mails of one event about one
IP between `s` and `s + Cooldown` are no more than the open sessions with a row that
marks the event, and the sessions lost, until such a row is committed; from then on no
scan that reads it sends again, and the number stays within scanners and losses. It
has to speak of all `s`, not only of the moments of a mail, for the same window can be
counted from any of its mails. How many scanners overlap does not matter for this.

`JudgedInv` says that every committed row is what `Decide` makes of the rows before it,
and every uncommitted row what it makes of the committed ones. This needs that
what a scan has read is still the latest row when it commits, which holds if there is
one scanner and not otherwise: `OneScanner == \E w : Scanners = {w}` is therefore a
hypothesis of the two theorems, as their properties say "when scans do not
overlap". Run `bl_job` checks the same with the daily job alone.

### `OutreachProofs` (47 lemmas)

| Theorem | Property | Assumption | Argument |
|---|---|---|---|
| `BucketIsAlwaysFair` (`RateIsBounded`, `FirstIsAlwaysGranted`) | `BucketIsFair` | `RateAssumption` | `RateInv`: no clock reading lies in the future; `RateBounded` relates tokens, time and requests let through; nobody is refused before somebody is let through |
| `NewsIsKept` (`LastLinkAlwaysWorks`, `NewsGoesForward`) | `NewsKept` | `NewsletterAssumption` | `NewsInv`: copies that requests hold are no newer than the row, and a click that is being saved has read a row that justifies it |
| `PostsAreAlwaysShown` | `PostsAreShown` | `WebhookAssumption` | `WhInv`: the stage of a thread tells how many attempts it has made (`Paced`); while a webhook has had no success, an error that a thread has loaded or met is in the row, and while it has had no failure, nobody has loaded one (`Row`), so a stale copy written back says nothing else |
| `CodeAlwaysDecides` | `CodeDecides` | `ThreatAssumption` | `ThreatInv`: without an overlap a form still finds the row as it was when opened, and is the only one open for its test; the batches of a test are as many as its right codes |
| `DigestsAreSpaced` | `DigestSpacing` | `DigestAssumption` (lags stay below a week) | `DigestInv`: a tenant the job has not come to was last served before this Monday (`Waiting`), one it has served before the next (`Served`), and a tenant that missed one digest was last served a week earlier still, so that it cannot miss the next |

### `TenancyProofs` (77 lemmas)

| Theorem | Property | Assumption | Invariant |
|---|---|---|---|
| `KeysStayRevoked` | `RevokedForGood` | – | `KeyInv` |
| `ZoneInStep` | `InStep` | `DmarcAssumption` | `DmarcInv` |
| `AccountsPlaced` | `Placed` | `AccountsAssumption` | `RowsInv` |
| `TenantsKeepAnAdmin` | `AdminRemains` | `AccountsAssumption` | `AdminInv` |
| `LinksAreSpentOnce` | `LinkOnce` | `AccountsAssumption` | `LinkInv` |
| `SeatsAreHeld` | `SeatsHeld` | `AccountsAssumption` | `SeatInv` |
| `ResellerAdminsBelong` | `AdminsBelong` | `AccountsAssumption` | `BelongInv` |

`KeyInv`: a request names a key that exists or has existed, so none recreates one, and
an upload that came too late has been denied.

`DmarcInv`: a record has at most one request at work unless it is `busy`; without
one, the zone shows what the row says; with one, the row is as the request has read
it, and the zone serves what the calls made so far amount to (`Serving`, `Authorized`).
Domains whose records nobody has spoilt keep this for good, whatever happens to
others.

The five theorems on accounts share one inductive invariant, `AccInv`: the rows
and requests have their shape (`AccType`), and whatever a request has found out
when it checked (its row exists, its author has the right, its link is unspent, a
seat is free, the tenant belongs to the reseller) holds until it commits. No single
commit can make that false for another request unless both are about the
same user, tenant, reseller or link, and then `Apart` puts that thing in `crowded`, and
the properties leave it out. Deletion with its cascades is the case in which most
parts meet: a tenant takes its users along, and the requests about them lose nothing
they rely on but the tenant itself.

In looking for `AdminInv` a case was found that `AdminRemains` had not excepted: a
reseller's administrator who is made a plain member of its own tenant keeps the
reseller's pages, and can demote or delete the tenant's last administrator from
there (`reseller.py:270-325`). No handler counts administrators: what keeps one is only
that nobody may change their own row, which protects a tenant from its own
administrators and from nobody else. `own` records at the check whether the author is
one of them, and `outside` names the tenants that others have changed.

### `PureProofs` (68 lemmas)

| Theorem | Property | Assumption | Argument |
|---|---|---|---|
| `SavedAlwaysInForce` | `SavedIsInForce` | `EnvAssumption` | `StoreInv`, `ReaderInv` and `CacheInv`, below |
| `SavesAlwaysKeep` (`SavedIsAlwaysRead`, `NeededAlwaysStays`) | `SavesKeep` | `EnvAssumption` | `FileInv`, and no rewritten line changes its place (`HandWorkKept`) |
| `FailuresNeverHelpSources` | `FailuresNeverHelp` | `InsightAssumption` | `SourceInv`: counts are numbers; a failing message moves no bound of the classifier the good way (`Looks`, `LooksBad`) |
| `ChoicesAlwaysKept` | `ChoicesAreKept` | `NotifyAssumption` | `PrefInv`: every user has a row of preferences or none, and the hour is an hour of the day |
| `ScoresAlwaysFair` | `ScoresAreFair` | `ScoreAssumption` | `ScoreInv`, below |

`FileInv`: the file says (`Says`: every line about the key, and at least one) what the last form has
sent. It rests on three lemmas on `write_env` for files of any length: a rewritten line
says the new value, a key that was missing is appended, and a key that was not sent
says what it said. `StoreInv`: a saved value is in the environment; or the environment
has nothing, as after a restart, and the file has the value. `ReaderInv` says the same
of the copy of the environment that a thread works with, and that the settings it
made are those due, as long as no save has crossed it; `CacheInv` of the cache. A thread
that began before a save ended is marked when that save ends, so that what it stores
after that is marked as well (`crossed`), until the next save clears the cache.

The two mails of `ScoreInv` have come through the same checks. `Better` is what has to
be kept of them: the better mail has earned at least as much more as it could have
earned more, which survives a check that only one of them was given and puts
the quotients in order. `FullMarks` rests on two more sums: a failure of SPF, DKIM
or DMARC loses its whole weight, and what could be earned stays below the weights of
all checks so far, at most 990 for any shape of mail (`PlanFits`, which goes through
the fifteen checks once). Three failures then cost 42 of at most 99 parts, which is
just enough to stay below six points.

### `CountProofs` (117 lemmas)

| Theorem | Property | Assumption | Argument |
|---|---|---|---|
| `ViewsAlwaysAgree` | `ViewsAgree` | `ReportsAssumption` | `StatInv`: the table is a finite set of reports that have ended; every view is a sum over the fibres of one grouping of the same rows (`GroupsAddUp`, `PassesAddUp`) |
| `ConclusionsAlwaysEarned` | `ConclusionsAreEarned` | `ReportsAssumption`, `InsightAssumption` | the advisor's sums are those of the dashboard; a jump needs failed messages of its day, so of a row of the domain |
| `LookupsAlwaysCounted` | `LookupsAreCounted` | `DnsAssumption` | `DnsInv`: the count and the terms still on the stack are the cost of the names read; whatever a record read refers to has been read or is on the stack, unless the depth was cut |

`ReportsAssumption` says that counts are natural numbers and that no report ends
before it begins; the parser checks neither against a reporter who lies.
`InsightAssumption` has the two thresholds above zero, and `DnsAssumption` has a finite
number of names, and records that refer to these.

These operators sum over sets and are defined by recursion, and no theorem on induction
can be used here that takes an operator. The module does its inductions by a
smallest counterexample instead: the strict subsets of a finite set are well-founded, so a
set of counterexamples that is not empty has a least member (`SmallestSet`, from
`WFMin`; `Counting` for numbers). From this come the existence of the functions that
the recursions define (`SumExists`, `RecursionExists`), that a sum does not depend on the
order of its terms (`SumAny`), and that a sum over a set is the sum over the fibres
of any key (`SumFibres`).

The hardest part is that the count is what a receiver's evaluation costs when no name is
referred to twice (`TreeIsExact`), and never more (`EvaluatedIsMore`). A receiver's
cost is a recursion along references, and the count a sum over names. `Walks` relates
them: all names are met on walks from the domain that are no longer than there are names, and the
evaluation pays for every name it meets. For the other direction each level
of the evaluation is summed over the pairs of a record and a term of it (`Pairs`), and
in a tree a name is the goal of one such pair at most.

Two parts of `ViewsAgree` have an exception that the proofs have found and a small
instance easily misses. The table of sources ends after ten, and shows a part of the messages when there are
more. A record about no messages (`<count>0</count>`, which `parser.py:154` lets through)
puts a report among the failing ones although its page shows no failure; one of the candidates
of `MCPure` has such a record.

### Only model-checked

* `OutreachTypeOK`, which only puts the types of scenes together.
* All liveness properties (`JobsEnd`, `MailsFetched`, `SendingEnds`, `MailsAreRead`),
  because of fairness and `ENABLED`.

## Not modelled

Listed with their reasons under `components` in `PROJECT.json`. In short: page
rendering, the marketing site and PDF export only read and show; the crawler, DNS
lookups, SMTP and the XML and archive formats of the parser are I/O or inputs of
the models; the audit log, tags, allowlists, display settings and the onboarding
checklist store and show rows; provider patterns and DKIM key details are
descriptions of text; one-off scripts are outside the service. The form guard keeps
no state. Also left out: the connection pool (webhook deliveries and `emit` inside
a transaction take connections), commits that fail because the database is
unreachable, more than one process, and SQLite as a database (the models are of
PostgreSQL, which `docker-compose.yml` deploys). The DNS records of a deleted domain
stay in the zone; `ManagedDmarc` counts them as `torn`.

In `MCOutreach`, `MCTenancy` and `MCPure` the scenes do not meet. What is said about a delivery holds beside any
number of subscriptions because the code gives them no common state, not because
a run interleaves them.
