------------------------- MODULE BlacklistMonitor -------------------------
(***************************************************************************)
(* src/app/blacklist_job.py and src/app/blacklist.py: which IPs of a       *)
(* domain are on a DNS blacklist, and when the customer gets a mail.       *)
(*                                                                         *)
(* The daily job and "scan all" visit several domains in one database      *)
(* session, the button of a domain page scans one.  They run in threads of *)
(* their own and share the lookup cache and table blacklist_checks.        *)
(***************************************************************************)
EXTENDS Naturals, Sequences, FiniteSets

CONSTANTS Domains,
          Targets,    \* [Domains -> sets of IPs]: MX hosts and top senders
          Zones,      \* DNS blacklists
          Severity,   \* [Zones -> 1..3]
          Scanners,   \* the job and requests that scan
          Sweeps,     \* scanners that visit all domains
          Threshold,  \* dnsbl_stability_threshold
          Cooldown,   \* ALERT_COOLDOWN_HOURS
          CacheTtl,   \* _CACHE_TTL
          Faults,     \* which faults of the environment the run includes
          MaxTime, MaxScans,  \* bounds of the model
          None

Ips == UNION {Targets[d] : d \in Domains}

ASSUME BlacklistAssumption ==
  /\ Severity \in [Zones -> 1..3]
  /\ Sweeps \subseteq Scanners /\ IsFiniteSet(Scanners)
  /\ Threshold \in Nat \ {0}
  /\ {Cooldown, CacheTtl, MaxTime, MaxScans} \subseteq Nat
  /\ None \notin Domains \cup Ips \cup {"listed", "resolved"}

VARIABLES
  now,      \* hours
  listing,  \* the zones that list an IP
  cache,    \* _CACHE: answers by zone and IP, with their time
  history,  \* committed rows of blacklist_checks, per domain and IP, oldest first
  pending,  \* rows added to a scanner's session, not committed; as in history
  scan,     \* the local variables of each scanner
  mails,    \* notifications that were sent
  scans,    \* scans started
  lost      \* history: sessions that ended with uncommitted rows

blVars == <<now, listing, cache, history, pending, scan, mails, scans, lost>>

Idle == [stage |-> "idle", plan |-> {}, domain |-> None, ips |-> {}, ip |-> None,
         prev |-> 0, zones |-> {}, hits |-> {}]

NoRows == [d \in Domains |-> [i \in Targets[d] |-> <<>>]]

BlInit ==
  /\ now = 0 /\ scans = 0 /\ lost = 0 /\ mails = <<>>
  /\ listing \in [Ips -> SUBSET Zones]
  /\ cache = [i \in Ips |-> [z \in Zones |-> None]]
  /\ history = NoRows
  /\ pending = [w \in Scanners |-> NoRows]
  /\ scan = [w \in Scanners |-> Idle]

\* Mutant of SeverityFor: the hits are added up.
SeveritySum(Z) == 2 * Cardinality(Z)

\* The highest severity among the hits.
SeverityFor(Z) == IF Z = {} THEN 0 ELSE CHOOSE n \in {Severity[z] : z \in Z} :
                                          \A z \in Z : Severity[z] <= n

Rows(w) == history[scan[w].domain][scan[w].ip]
Step(w, new) == scan' = [scan EXCEPT ![w] = new]

\* The sessions of the scanners W are closed without a commit.
Drop(W) ==
  /\ pending' = [w \in Scanners |-> IF w \in W THEN NoRows ELSE pending[w]]
  /\ lost' = lost + Cardinality({w \in W : pending[w] # NoRows})

----------------------------------------------------------------------------
\* A scan is started: of all domains, or of one.
StartScan(w) ==
  /\ scan[w].stage = "idle" /\ scans < MaxScans
  /\ scans' = scans + 1
  /\ \E D \in IF w \in Sweeps THEN {Domains} ELSE {{d} : d \in Domains} :
       Step(w, [Idle EXCEPT !.stage = "next", !.plan = D])
  /\ UNCHANGED <<now, listing, cache, history, pending, mails, lost>>

\* check_domain: resolve the MX hosts, pick the top senders.
NextDomain(w) ==
  /\ scan[w].stage = "next"
  /\ \E d \in scan[w].plan :
       Step(w, [Idle EXCEPT !.stage = "ips", !.plan = scan[w].plan \ {d},
                            !.domain = d, !.ips = Targets[d]])
  /\ UNCHANGED <<now, listing, cache, history, pending, mails, scans, lost>>

\* All domains visited: the session is closed, uncommitted rows are lost.
EndScan(w) ==
  /\ scan[w].stage = "next" /\ scan[w].plan = {}
  /\ Step(w, Idle) /\ Drop({w})
  /\ UNCHANGED <<now, listing, cache, history, mails, scans>>

\* _last_check_for: read before the lookups, which take seconds.
NextIp(w) ==
  /\ scan[w].stage = "ips"
  /\ \E i \in scan[w].ips :
       LET rows == history[scan[w].domain][i] IN
       Step(w, [scan[w] EXCEPT !.stage = "lookup", !.ips = @ \ {i}, !.ip = i,
                  !.zones = Zones, !.hits = {},
                  !.prev = IF rows = <<>> THEN 0 ELSE rows[Len(rows)].severity])
  /\ UNCHANGED <<now, listing, cache, history, pending, mails, scans, lost>>

Fresh(i, z) == cache[i][z] # None /\ cache[i][z].at + CacheTtl >= now

\* One turn of check_ip: the cache, an answer, or no answer, which is
\* neither a hit nor cached.
Lookup(w, z) ==
  /\ scan[w].stage = "lookup" /\ z \in scan[w].zones
  /\ LET i == scan[w].ip
         hit == IF Fresh(i, z) THEN cache[i][z].listed ELSE z \in listing[i]
         on(listed) == [scan[w] EXCEPT !.zones = @ \ {z},
                          !.hits = IF listed THEN @ \cup {z} ELSE @]
     IN \/ /\ Step(w, on(hit))
           /\ cache' = IF Fresh(i, z) THEN cache
                       ELSE [cache EXCEPT ![i][z] = [listed |-> hit, at |-> now]]
        \/ /\ "outage" \in Faults /\ ~Fresh(i, z)
           /\ Step(w, on(FALSE))
           /\ UNCHANGED cache
  /\ UNCHANGED <<now, listing, history, pending, mails, scans, lost>>

\* Mutant of RecentSeverities: the flush has put the own row first.
OneShort(w) ==
  {Rows(w)[k].severity : k \in {j \in DOMAIN Rows(w) : j + Threshold > Len(Rows(w)) + 2}}

\* The severities of the last Threshold - 1 committed checks.
RecentSeverities(w) ==
  {Rows(w)[k].severity : k \in {j \in DOMAIN Rows(w) : j + Threshold > Len(Rows(w)) + 1}}

\* Which event the observation calls for.
EventOf(w) ==
  LET sev == SeverityFor(scan[w].hits)
      observed == {sev} \cup RecentSeverities(w)
  IN CASE sev > scan[w].prev /\ (\A s \in observed : s >= 2) -> "listed"
       [] scan[w].hits = {} /\ scan[w].prev >= 2 /\ observed = {0} -> "resolved"
       [] OTHER -> None

\* Mutants of RecentlyAlerted: no WHERE on the domain; only the latest check.
AlertedAnywhere(w, e) ==
  \E d \in Domains : \E k \in DOMAIN history[d][scan[w].ip] :
    LET row == history[d][scan[w].ip][k] IN row.event = e /\ row.at + Cooldown >= now

LastAlerted(w, e) ==
  /\ Rows(w) # <<>>
  /\ Rows(w)[Len(Rows(w))].event = e /\ Rows(w)[Len(Rows(w))].at + Cooldown >= now

\* _recently_alerted: a committed row says that e was sent lately.
RecentlyAlerted(w, e) ==
  \E k \in DOMAIN Rows(w) : Rows(w)[k].event = e /\ Rows(w)[k].at + Cooldown >= now

\* The rest of the loop body: decide, send, add the row.  The row is marked
\* whether or not the mail went out (no SMTP host, quiet hours, an error).
Decide(w) ==
  /\ scan[w].stage = "lookup" /\ scan[w].zones = {}
  /\ LET e == IF EventOf(w) # None /\ ~RecentlyAlerted(w, EventOf(w))
              THEN EventOf(w) ELSE None
         row == [severity |-> SeverityFor(scan[w].hits), event |-> e, at |-> now]
         mail == [domain |-> scan[w].domain, ip |-> scan[w].ip, event |-> e, at |-> now]
     IN /\ pending' = [pending EXCEPT ![w][scan[w].domain][scan[w].ip] = Append(@, row)]
        /\ \/ e # None /\ mails' = Append(mails, mail)
           \/ (e # None => "unsent" \in Faults) /\ UNCHANGED mails
  /\ Step(w, [scan[w] EXCEPT !.stage = "ips", !.ip = None, !.prev = 0, !.hits = {}])
  /\ UNCHANGED <<now, listing, cache, history, scans, lost>>

\* db.commit() at the end of check_domain.
CommitDomain(w) ==
  /\ scan[w].stage = "ips" /\ scan[w].ips = {}
  /\ history' = [d \in Domains |-> [i \in Targets[d] |->
                   history[d][i] \o pending[w][d][i]]]
  /\ pending' = [pending EXCEPT ![w] = NoRows]
  /\ Step(w, [Idle EXCEPT !.stage = "next", !.plan = scan[w].plan])
  /\ UNCHANGED <<now, listing, cache, mails, scans, lost>>

\* check_domain raises.  A sweep goes on with the next domain, in the same
\* session and without a rollback; the request of one domain fails.
ScanRaises(w) ==
  /\ "error" \in Faults
  /\ scan[w].stage \in {"ips", "lookup"}
  /\ IF w \in Sweeps
     THEN Step(w, [Idle EXCEPT !.stage = "next", !.plan = scan[w].plan])
          /\ UNCHANGED <<pending, lost>>
     ELSE Step(w, Idle) /\ Drop({w})
  /\ UNCHANGED <<now, listing, cache, history, mails, scans>>

----------------------------------------------------------------------------
Tick ==
  /\ now < MaxTime /\ now' = now + 1
  /\ UNCHANGED <<listing, cache, history, pending, scan, mails, scans, lost>>

\* The operators of the blacklists list an IP or take it off.
Relist(i, Z) ==
  /\ listing[i] # Z /\ listing' = [listing EXCEPT ![i] = Z]
  /\ UNCHANGED <<now, cache, history, pending, scan, mails, scans, lost>>

\* The process restarts: scans, their sessions and the cache are gone.
RestartScans ==
  /\ "restart" \in Faults
  /\ \E w \in Scanners : scan[w].stage # "idle"
  /\ scan' = [w \in Scanners |-> Idle]
  /\ Drop(Scanners)
  /\ cache' = [i \in Ips |-> [z \in Zones |-> None]]
  /\ UNCHANGED <<now, listing, history, mails, scans>>

ScanStep(w) ==
  \/ StartScan(w) \/ NextDomain(w) \/ EndScan(w) \/ NextIp(w)
  \/ \E z \in Zones : Lookup(w, z)
  \/ Decide(w) \/ CommitDomain(w) \/ ScanRaises(w)

BlNext ==
  \/ \E w \in Scanners : ScanStep(w)
  \/ Tick \/ RestartScans
  \/ \E i \in Ips, Z \in SUBSET Zones : Relist(i, Z)

BlSpec == BlInit /\ [][BlNext]_blVars

----------------------------------------------------------------------------
Events == {"listed", "resolved"}
Check == [severity : 0..3, event : Events \cup {None}, at : Nat]
Mail == [domain : Domains, ip : Ips, event : Events, at : Nat]

\* Every variable has its type; a scanner's locals are set where they are read.
BlTypeOK ==
  /\ {now, scans, lost} \subseteq Nat
  /\ listing \in [Ips -> SUBSET Zones]
  /\ \A i \in Ips, z \in Zones :
       cache[i][z] \in {None} \cup [listed : BOOLEAN, at : Nat]
  /\ \A d \in Domains : \A i \in Targets[d] :
       /\ history[d][i] \in Seq(Check)
       /\ \A w \in Scanners : pending[w][d][i] \in Seq(Check)
  /\ \A w \in Scanners :
       /\ scan[w].plan \subseteq Domains
       /\ scan[w].stage \in {"ips", "lookup"} =>
            scan[w].domain \in Domains /\ scan[w].ips \subseteq Targets[scan[w].domain]
       /\ scan[w].stage = "lookup" =>
            scan[w].ip \in Targets[scan[w].domain] /\ scan[w].hits \cap scan[w].zones = {}
  /\ mails \in Seq(Mail)

Same(m, n) == m.domain = n.domain /\ m.ip = n.ip /\ m.event = n.event

\* The cooldown holds back repetitions: within it, one event of an IP is
\* mailed at most once by each scanner, however scans overlap, and once more
\* for each session that was lost before it could record its mail.
OneAlertPerScanner ==
  \A j \in DOMAIN mails :
    Cardinality({k \in DOMAIN mails : /\ Same(mails[j], mails[k])
                                      /\ mails[k].at >= mails[j].at
                                      /\ mails[k].at <= mails[j].at + Cooldown})
      <= Cardinality(Scanners) + lost

\* When scans do not overlap, a listing that comes and goes from scan to scan
\* raises no alert: the Threshold - 1 checks before the one that alerts, as
\* far as there are any, were severe too.
NoFlapAlerts ==
  \A d \in Domains : \A i \in Targets[d] : \A k \in DOMAIN history[d][i] :
    history[d][i][k].event = "listed" =>
      \A j \in 1..k : j + Threshold > k => history[d][i][j].severity >= 2

\* An alert for k, or one within the cooldown before it.
Alerted(rows, k, e) ==
  \E j \in 1..k : rows[j].event = e /\ rows[j].at + Cooldown >= rows[k].at

\* Every recorded rise to a severe listing that the Threshold - 1 checks before
\* it agree with is alerted, or falls into the cooldown of an earlier alert; also
\* when the scan of the domain was cut short and its rows were committed with
\* those of the next domain.
RisesAreAlerted ==
  \A d \in Domains : \A i \in Targets[d] : \A k \in DOMAIN history[d][i] :
    LET rows == history[d][i]
        before == IF k = 1 THEN 0 ELSE rows[k - 1].severity
    IN  /\ rows[k].severity > before
        /\ \A j \in 1..k : j + Threshold > k => rows[j].severity >= 2
        => Alerted(rows, k, "listed")

----------------------------------------------------------------------------
(* What the repository says of the monitor and the code does not do.       *)

\* blacklist_job.py:2-3: an alert when a previously clean IP turns up on a
\* critical list, at the latest when the next check confirms it.
NewListingIsAlerted ==
  \A d \in Domains : \A i \in Targets[d] : \A k \in DOMAIN history[d][i] :
    LET rows == history[d][i] IN
    (k > 2 /\ rows[k-2].severity = 0 /\ rows[k-1].severity = 3 /\ rows[k].severity = 3)
      => Alerted(rows, k, "listed")
============================================================================
