--------------------------- MODULE BlacklistProofs ---------------------------
(***************************************************************************)
(* How often a customer is told of a listing, and when: for any number of  *)
(* domains, IPs, blacklists and scanners, with outages, errors, lost       *)
(* sessions and restarts.                                                  *)
(***************************************************************************)
EXTENDS BlacklistMonitor, FiniteSetTheorems, TLAPS

ScanRow == [stage : {"idle", "next", "ips", "lookup"}, plan : SUBSET Domains,
            domain : Domains \cup {None}, ips : SUBSET Ips, ip : Ips \cup {None},
            prev : 0..3, zones : SUBSET Zones, hits : SUBSET Zones]

\* Rows per domain and IP.
IsTable(rows) ==
  /\ DOMAIN rows = Domains
  /\ \A d \in Domains : /\ DOMAIN rows[d] = Targets[d]
                        /\ \A i \in Targets[d] : rows[d][i] \in Seq(Check)

BlType ==
  /\ now \in Nat /\ scans \in Nat /\ lost \in Nat
  /\ listing \in [Ips -> SUBSET Zones]
  /\ DOMAIN cache = Ips
  /\ \A i \in Ips : /\ DOMAIN cache[i] = Zones
                    /\ \A z \in Zones : cache[i][z] \in {None} \cup [listed : BOOLEAN, at : Nat]
  /\ IsTable(history)
  /\ DOMAIN pending = Scanners /\ \A w \in Scanners : IsTable(pending[w])
  /\ scan \in [Scanners -> ScanRow]
  /\ mails \in Seq(Mail) /\ \A k \in DOMAIN mails : mails[k].ip \in Targets[mails[k].domain]

\* Scanner w adds a row for an IP of a domain once in a session.
Visited(w) ==
  /\ \A d \in Domains : \A i \in Targets[d] :
       /\ Len(pending[w][d][i]) <= 1
       /\ scan[w].stage = "idle" \/ d \in scan[w].plan => pending[w][d][i] = <<>>
  /\ scan[w].stage \in {"ips", "lookup"} =>
       /\ scan[w].domain \in Domains \ scan[w].plan
       /\ scan[w].ips \subseteq Targets[scan[w].domain]
       /\ \A i \in scan[w].ips : pending[w][scan[w].domain][i] = <<>>
  /\ scan[w].stage = "lookup" =>
       /\ scan[w].ip \in Targets[scan[w].domain] \ scan[w].ips
       /\ pending[w][scan[w].domain][scan[w].ip] = <<>>
       /\ scan[w].hits \cap scan[w].zones = {}

ScanInv == BlType /\ \A w \in Scanners : Visited(w)

LEMMA SeverityRange ==
  ASSUME NEW Z \in SUBSET Zones
  PROVE  /\ SeverityFor(Z) \in 0..3
         /\ Z = {} => SeverityFor(Z) = 0
<1>1. CASE Z = {}
  BY <1>1 DEF SeverityFor
<1>2. CASE Z # {}
  <2>. DEFINE S == {Severity[z] : z \in Z}
  <2>1. S \subseteq 1..3 /\ S # {}
    BY <1>2, BlacklistAssumption
  <2>2. \E n \in S : \A m \in S : m <= n
    <3>. HIDE DEF S
    <3>1. CASE 3 \in S
      BY <2>1, <3>1
    <3>2. CASE 3 \notin S /\ 2 \in S
      BY <2>1, <3>2
    <3>3. CASE 3 \notin S /\ 2 \notin S
      <4>1. PICK n : n \in S
        BY <2>1
      <4>2. \A m \in S : m = 1
        BY <2>1, <3>3
      <4>. QED
        BY <4>1, <4>2
    <3>. QED
      BY <3>1, <3>2, <3>3
  <2>3. PICK n \in S : n = SeverityFor(Z)
    BY <1>2, <2>2 DEF SeverityFor
  <2>. QED
    BY <1>2, <2>1, <2>3
<1>. QED
  BY <1>1, <1>2

\* What the observation calls for.
LEMMA EventCases ==
  ASSUME ScanInv, NEW w \in Scanners, scan[w].stage = "lookup"
  PROVE  /\ EventOf(w) \in Events \cup {None}
         /\ EventOf(w) = "listed" <=>
              /\ SeverityFor(scan[w].hits) > scan[w].prev
              /\ SeverityFor(scan[w].hits) >= 2
              /\ \A s \in RecentSeverities(w) : s >= 2
<1>1. scan[w] \in ScanRow
  BY DEF ScanInv, BlType
<1>2. SeverityFor(scan[w].hits) \in 0..3 /\ (scan[w].hits = {} => SeverityFor(scan[w].hits) = 0)
  BY <1>1, SeverityRange DEF ScanRow
<1>3. scan[w].prev \in 0..3
  BY <1>1 DEF ScanRow
<1>. QED
  BY <1>2, <1>3, BlacklistAssumption DEF EventOf, Events

LEMMA InitScan == BlInit => ScanInv
<1>. SUFFICES ASSUME BlInit PROVE ScanInv
  OBVIOUS
<1>1. IsTable(NoRows)
  BY DEF IsTable, NoRows
<1>2. BlType
  BY <1>1, BlacklistAssumption DEF BlInit, BlType, Idle, ScanRow
<1>3. \A w \in Scanners : Visited(w)
  BY DEF BlInit, Visited, Idle, NoRows
<1>. QED
  BY <1>2, <1>3 DEF ScanInv

LEMMA IdleRow == Idle \in ScanRow
BY DEF Idle, ScanRow

\* An IP is done: the row of the scanner afterwards.
Done(r) == [r EXCEPT !.stage = "ips", !.ip = None, !.prev = 0, !.hits = {}]

LEMMA DoneRow ==
  ASSUME NEW r \in ScanRow
  PROVE  /\ Done(r) \in ScanRow
         /\ Done(r).stage = "ips" /\ Done(r).plan = r.plan /\ Done(r).domain = r.domain
         /\ Done(r).ips = r.ips
<1>1. {} \in SUBSET Zones /\ 0 \in 0..3 /\ None \in Ips \cup {None}
  OBVIOUS
<1>2. Done(r) \in ScanRow
  BY <1>1 DEF ScanRow, Done
<1>3. /\ Done(r).stage = "ips" /\ Done(r).plan = r.plan /\ Done(r).domain = r.domain
      /\ Done(r).ips = r.ips
  BY DEF ScanRow, Done
<1>. QED
  BY <1>2, <1>3

LEMMA StartScanKeeps ==
  ASSUME ScanInv, NEW w \in Scanners, StartScan(w)
  PROVE  ScanInv'
<1>1. PICK D \in SUBSET Domains : scan' = [scan EXCEPT ![w] = [Idle EXCEPT !.stage = "next", !.plan = D]]
  BY DEF StartScan, Step
<1>2. [Idle EXCEPT !.stage = "next", !.plan = D] \in ScanRow
  BY IdleRow DEF ScanRow
<1>3. BlType'
  BY <1>1, <1>2 DEF ScanInv, BlType, IsTable, StartScan
<1>4. ASSUME NEW v \in Scanners PROVE Visited(v)'
  BY <1>1, <1>4 DEF ScanInv, BlType, Visited, StartScan, Idle
<1>. QED
  BY <1>3, <1>4 DEF ScanInv

LEMMA NextDomainKeeps ==
  ASSUME ScanInv, NEW w \in Scanners, NextDomain(w)
  PROVE  ScanInv'
<1>1. scan[w] \in ScanRow /\ scan[w].stage = "next"
  BY DEF ScanInv, BlType, NextDomain
<1>2. PICK d \in scan[w].plan :
        scan' = [scan EXCEPT ![w] = [Idle EXCEPT !.stage = "ips", !.plan = scan[w].plan \ {d},
                                                 !.domain = d, !.ips = Targets[d]]]
  BY DEF NextDomain, Step
<1>3. d \in Domains /\ scan[w].plan \subseteq Domains
  BY <1>1, <1>2 DEF ScanRow
<1>4. [Idle EXCEPT !.stage = "ips", !.plan = scan[w].plan \ {d}, !.domain = d, !.ips = Targets[d]]
        \in ScanRow
  <2>1. Targets[d] \subseteq Ips
    BY <1>3 DEF Ips
  <2>. QED
    BY <1>3, <2>1, IdleRow DEF ScanRow
<1>5. BlType'
  BY <1>2, <1>4 DEF ScanInv, BlType, IsTable, NextDomain
<1>6. ASSUME NEW v \in Scanners PROVE Visited(v)'
  <2>1. CASE v = w
    BY <1>1, <1>2, <1>3, <2>1 DEF ScanInv, BlType, Visited, NextDomain, Idle
  <2>2. CASE v # w
    BY <1>2, <2>2 DEF ScanInv, BlType, Visited, NextDomain
  <2>. QED
    BY <2>1, <2>2
<1>. QED
  BY <1>5, <1>6 DEF ScanInv

\* What closing sessions does.
LEMMA DropEffect ==
  ASSUME ScanInv, NEW W \in SUBSET Scanners, Drop(W)
  PROVE  /\ DOMAIN pending' = Scanners /\ \A w \in Scanners : IsTable(pending'[w])
         /\ \A w \in W : \A d \in Domains : \A i \in Targets[d] : pending'[w][d][i] = <<>>
         /\ \A w \in Scanners \ W : pending'[w] = pending[w]
         /\ \E n \in Nat : n = Cardinality({w \in W : pending[w] # NoRows}) /\ lost' = lost + n
         /\ lost' \in Nat
<1>1. IsTable(NoRows)
  BY DEF IsTable, NoRows
<1>2. DOMAIN pending' = Scanners /\ \A w \in Scanners : IsTable(pending'[w])
  BY <1>1 DEF Drop, ScanInv, BlType
<1>3. \A w \in W : pending'[w] = NoRows
  BY DEF Drop
<1>4. \A w \in W : \A d \in Domains : \A i \in Targets[d] : pending'[w][d][i] = <<>>
  <2>1. \A d \in Domains : \A i \in Targets[d] : NoRows[d][i] = <<>>
    BY DEF NoRows
  <2>. QED
    BY <1>3, <2>1
<1>5. \A w \in Scanners \ W : pending'[w] = pending[w]
  BY DEF Drop
<1>6. IsFiniteSet({w \in W : pending[w] # NoRows})
  BY BlacklistAssumption, FS_Subset
<1>7. Cardinality({w \in W : pending[w] # NoRows}) \in Nat
  BY <1>6, FS_CardinalityType
<1>8. lost' = lost + Cardinality({w \in W : pending[w] # NoRows}) /\ lost \in Nat
  BY DEF Drop, ScanInv, BlType
<1>9. \E n \in Nat : n = Cardinality({w \in W : pending[w] # NoRows}) /\ lost' = lost + n
  BY <1>7, <1>8
<1>10. lost' \in Nat
  BY <1>8, <1>9
<1>. QED
  BY <1>2, <1>4, <1>5, <1>9, <1>10

\* Scanner w ends and its session is closed.
LEMMA CloseKeeps ==
  ASSUME ScanInv, NEW w \in Scanners, Drop({w}), scan' = [scan EXCEPT ![w] = Idle],
         UNCHANGED <<now, listing, cache, history, mails, scans>>
  PROVE  ScanInv'
<1>2. BlType'
  BY IdleRow, DropEffect DEF ScanInv, BlType, IsTable
<1>3. ASSUME NEW v \in Scanners PROVE Visited(v)'
  <2>1. CASE v = w
    <3>1. \A d \in Domains : \A i \in Targets[d] : pending'[v][d][i] = <<>>
      BY <2>1, DropEffect
    <3>2. scan'[v] = Idle
      BY <2>1 DEF ScanInv, BlType
    <3>. QED
      BY <3>1, <3>2 DEF Visited, Idle
  <2>2. CASE v # w
    <3>1. pending'[v] = pending[v] /\ scan'[v] = scan[v]
      BY <2>2, DropEffect DEF ScanInv, BlType
    <3>. QED
      BY <3>1 DEF ScanInv, Visited
  <2>. QED
    BY <2>1, <2>2
<1>. QED
  BY <1>2, <1>3 DEF ScanInv

LEMMA EndScanKeeps ==
  ASSUME ScanInv, NEW w \in Scanners, EndScan(w)
  PROVE  ScanInv'
BY CloseKeeps DEF EndScan, Step

LEMMA NextIpKeeps ==
  ASSUME ScanInv, NEW w \in Scanners, NextIp(w)
  PROVE  ScanInv'
<1>1. scan[w] \in ScanRow /\ scan[w].stage = "ips" /\ scan[w].domain \in Domains
      /\ scan[w].ips \subseteq Targets[scan[w].domain]
  BY DEF ScanInv, BlType, Visited, NextIp
<1>. DEFINE last(i) == LET rows == history[scan[w].domain][i] IN
                       IF rows = <<>> THEN 0 ELSE rows[Len(rows)].severity
            new(i) == [scan[w] EXCEPT !.stage = "lookup", !.ips = @ \ {i}, !.ip = i,
                                      !.zones = Zones, !.hits = {}, !.prev = last(i)]
<1>2. PICK i \in scan[w].ips : scan' = [scan EXCEPT ![w] = new(i)]
  BY DEF NextIp, Step
<1>3. i \in Targets[scan[w].domain] /\ i \in Ips
  BY <1>1, <1>2 DEF Ips
<1>4. history[scan[w].domain][i] \in Seq(Check)
  BY <1>1, <1>3 DEF ScanInv, BlType, IsTable
<1>5. last(i) \in 0..3
  <2>1. CASE history[scan[w].domain][i] = <<>>
    BY <2>1
  <2>2. CASE history[scan[w].domain][i] # <<>>
    <3>1. history[scan[w].domain][i][Len(history[scan[w].domain][i])] \in Check
      BY <1>4, <2>2
    <3>. QED
      BY <2>2, <3>1 DEF Check
  <2>. QED
    BY <2>1, <2>2
<1>. HIDE DEF last
<1>6. new(i) \in ScanRow
  BY <1>1, <1>3, <1>5 DEF ScanRow
<1>7. BlType'
  BY <1>2, <1>6 DEF ScanInv, BlType, IsTable, NextIp
<1>8. ASSUME NEW v \in Scanners PROVE Visited(v)'
  <2>1. CASE v = w
    <3>1. scan'[w] = new(i)
      BY <1>2 DEF ScanInv, BlType
    <3>2. Visited(w) /\ pending' = pending
      BY DEF ScanInv, NextIp
    <3>3. /\ scan'[w].stage = "lookup" /\ scan'[w].plan = scan[w].plan
          /\ scan'[w].domain = scan[w].domain /\ scan'[w].ip = i
          /\ scan'[w].ips = scan[w].ips \ {i}
      BY <1>1, <3>1 DEF ScanRow
    <3>. HIDE DEF new
    <3>4. \A d \in Domains : \A j \in Targets[d] :
             Len(pending[w][d][j]) <= 1 /\ (d \in scan[w].plan => pending[w][d][j] = <<>>)
      BY <3>2 DEF Visited
    <3>5. /\ scan[w].domain \notin scan[w].plan
          /\ \A j \in scan[w].ips : pending[w][scan[w].domain][j] = <<>>
      BY <1>1, <3>2 DEF Visited
    <3>6. \A d \in Domains : \A j \in Targets[d] :
             /\ Len(pending'[w][d][j]) <= 1
             /\ scan'[w].stage = "idle" \/ d \in scan'[w].plan => pending'[w][d][j] = <<>>
      BY <3>2, <3>3, <3>4
    <3>7. /\ scan'[w].domain \in Domains \ scan'[w].plan
          /\ scan'[w].ips \subseteq Targets[scan'[w].domain]
          /\ \A j \in scan'[w].ips : pending'[w][scan'[w].domain][j] = <<>>
      BY <1>1, <3>2, <3>3, <3>5
    <3>8. /\ scan'[w].ip \in Targets[scan'[w].domain] \ scan'[w].ips
          /\ pending'[w][scan'[w].domain][scan'[w].ip] = <<>>
          /\ scan'[w].hits = {}
      <4>1. scan'[w].hits = {}
        BY <1>1, <3>1 DEF ScanRow, new
      <4>. QED
        BY <1>2, <1>3, <3>2, <3>3, <3>5, <4>1
    <3>. QED
      BY <2>1, <3>6, <3>7, <3>8 DEF Visited
  <2>2. CASE v # w
    <3>1. scan'[v] = scan[v] /\ pending' = pending
      BY <1>2, <2>2 DEF ScanInv, BlType, NextIp
    <3>2. Visited(v)
      BY DEF ScanInv
    <3>. QED
      BY <3>1, <3>2 DEF Visited
  <2>. QED
    BY <2>1, <2>2
<1>. QED
  BY <1>7, <1>8 DEF ScanInv

LEMMA LookupKeeps ==
  ASSUME ScanInv, NEW w \in Scanners, NEW z \in Zones, Lookup(w, z)
  PROVE  ScanInv'
<1>1. /\ scan[w] \in ScanRow /\ scan[w].stage = "lookup" /\ z \in scan[w].zones
      /\ scan[w].ip \in Targets[scan[w].domain] /\ scan[w].domain \in Domains
  BY DEF ScanInv, BlType, Visited, Lookup
<1>2. scan[w].ip \in Ips
  BY <1>1 DEF Ips
<1>. DEFINE on(listed) == [scan[w] EXCEPT !.zones = @ \ {z},
                                          !.hits = IF listed THEN @ \cup {z} ELSE @]
<1>3. PICK hit \in BOOLEAN :
        /\ scan' = [scan EXCEPT ![w] = on(hit)]
        /\ \/ UNCHANGED cache
           \/ cache' = [cache EXCEPT ![scan[w].ip][z] = [listed |-> hit, at |-> now]]
  <2>1. /\ Fresh(scan[w].ip, z) => cache[scan[w].ip][z].listed \in BOOLEAN
        /\ (z \in listing[scan[w].ip]) \in BOOLEAN
    BY <1>2 DEF ScanInv, BlType, Fresh
  <2>. QED
    BY <2>1 DEF Lookup, Step
<1>4. on(hit) \in ScanRow
  BY <1>1 DEF ScanRow
<1>5. BlType'
  <2>1. /\ DOMAIN cache' = Ips
        /\ \A i \in Ips : /\ DOMAIN cache'[i] = Zones
                          /\ \A y \in Zones : cache'[i][y] \in {None} \cup [listed : BOOLEAN, at : Nat]
    <3>1. [listed |-> hit, at |-> now] \in [listed : BOOLEAN, at : Nat]
      BY DEF ScanInv, BlType
    <3>. HIDE DEF on
    <3>2. CASE UNCHANGED cache
      BY <3>2 DEF ScanInv, BlType
    <3>3. CASE cache' = [cache EXCEPT ![scan[w].ip][z] = [listed |-> hit, at |-> now]]
      <4>1. \A i \in Ips : DOMAIN cache'[i] = Zones
        BY <1>2, <3>3 DEF ScanInv, BlType
      <4>2. ASSUME NEW i \in Ips, NEW y \in Zones
            PROVE  cache'[i][y] = IF i = scan[w].ip /\ y = z THEN [listed |-> hit, at |-> now]
                                  ELSE cache[i][y]
        BY <1>2, <3>3 DEF ScanInv, BlType
      <4>3. \A i \in Ips, y \in Zones : cache[i][y] \in {None} \cup [listed : BOOLEAN, at : Nat]
        BY DEF ScanInv, BlType
      <4>4. DOMAIN cache' = Ips
        BY <3>3 DEF ScanInv, BlType
      <4>5. \A i \in Ips, y \in Zones : cache'[i][y] \in {None} \cup [listed : BOOLEAN, at : Nat]
        BY <3>1, <4>2, <4>3
      <4>. QED
        BY <4>1, <4>4, <4>5
    <3>. QED
      BY <1>3, <3>2, <3>3
  <2>2. scan' \in [Scanners -> ScanRow]
    BY <1>3, <1>4 DEF ScanInv, BlType
  <2>. QED
    BY <2>1, <2>2 DEF ScanInv, BlType, IsTable, Lookup
<1>6. ASSUME NEW v \in Scanners PROVE Visited(v)'
  <2>1. CASE v = w
    <3>1. scan'[w] = on(hit)
      BY <1>3 DEF ScanInv, BlType
    <3>2. Visited(w) /\ pending' = pending
      BY DEF ScanInv, Lookup
    <3>3. /\ scan'[w].stage = scan[w].stage /\ scan'[w].plan = scan[w].plan
          /\ scan'[w].domain = scan[w].domain /\ scan'[w].ips = scan[w].ips
          /\ scan'[w].ip = scan[w].ip
          /\ scan'[w].hits \subseteq scan[w].hits \cup {z} /\ scan'[w].zones = scan[w].zones \ {z}
      BY <1>1, <3>1 DEF ScanRow
    <3>. QED
      BY <1>1, <2>1, <3>2, <3>3 DEF Visited
  <2>2. CASE v # w
    <3>1. scan'[v] = scan[v] /\ pending' = pending
      BY <1>3, <2>2 DEF ScanInv, BlType, Lookup
    <3>. QED
      BY <3>1 DEF ScanInv, Visited
  <2>. QED
    BY <2>1, <2>2
<1>. QED
  BY <1>5, <1>6 DEF ScanInv

\* The row that Decide adds, and the mail it may send.
Decided(w, row) ==
  /\ row \in Check /\ row.severity = SeverityFor(scan[w].hits) /\ row.at = now
  /\ row.event = IF EventOf(w) # None /\ ~RecentlyAlerted(w, EventOf(w)) THEN EventOf(w) ELSE None
  /\ \A v \in Scanners, d \in Domains : \A i \in Targets[d] :
       pending'[v][d][i] = IF v = w /\ d = scan[w].domain /\ i = scan[w].ip THEN <<row>>
                           ELSE pending[v][d][i]
  /\ \/ UNCHANGED mails
     \/ /\ row.event # None
        /\ mails' = Append(mails, [domain |-> scan[w].domain, ip |-> scan[w].ip,
                                   event |-> row.event, at |-> now])

LEMMA DecideEffect ==
  ASSUME ScanInv, NEW w \in Scanners, Decide(w)
  PROVE  /\ \E row \in Check : Decided(w, row)
         /\ DOMAIN pending' = Scanners /\ \A v \in Scanners : IsTable(pending'[v])
<1>. DEFINE d0 == scan[w].domain
            i0 == scan[w].ip
            e == IF EventOf(w) # None /\ ~RecentlyAlerted(w, EventOf(w)) THEN EventOf(w) ELSE None
            row == [severity |-> SeverityFor(scan[w].hits), event |-> e, at |-> now]
<1>1. /\ scan[w] \in ScanRow /\ scan[w].stage = "lookup" /\ d0 \in Domains /\ i0 \in Targets[d0]
      /\ pending[w][d0][i0] = <<>> /\ now \in Nat
  BY DEF ScanInv, BlType, Visited, Decide
<1>2. e \in Events \cup {None}
  BY <1>1, EventCases
<1>3. SeverityFor(scan[w].hits) \in 0..3
  BY <1>1, SeverityRange DEF ScanRow
<1>. HIDE DEF e
<1>4. row \in Check
  BY <1>1, <1>2, <1>3 DEF Check
<1>5. /\ pending' = [pending EXCEPT ![w][d0][i0] = Append(@, row)]
      /\ \/ e # None /\ mails' = Append(mails, [domain |-> d0, ip |-> i0, event |-> e, at |-> now])
         \/ UNCHANGED mails
  BY DEF Decide, e
<1>6. row.severity = SeverityFor(scan[w].hits) /\ row.at = now /\ row.event = e
  OBVIOUS
<1>. HIDE DEF row
<1>7. Append(pending[w][d0][i0], row) = <<row>>
  BY <1>1, <1>4
<1>8. ASSUME NEW v \in Scanners, NEW d \in Domains, NEW i \in Targets[d]
      PROVE  pending'[v][d][i] = IF v = w /\ d = d0 /\ i = i0 THEN <<row>> ELSE pending[v][d][i]
  BY <1>1, <1>5, <1>7 DEF ScanInv, BlType, IsTable
<1>9. DOMAIN pending' = Scanners
  BY <1>5 DEF ScanInv, BlType
<1>10. ASSUME NEW v \in Scanners PROVE IsTable(pending'[v])
  <2>1. DOMAIN pending'[v] = Domains /\ \A d \in Domains : DOMAIN pending'[v][d] = Targets[d]
    BY <1>1, <1>5 DEF ScanInv, BlType, IsTable
  <2>2. \A d \in Domains : \A i \in Targets[d] : pending'[v][d][i] \in Seq(Check)
    <3>1. <<row>> \in Seq(Check)
      BY <1>4
    <3>2. \A d \in Domains : \A i \in Targets[d] : pending[v][d][i] \in Seq(Check)
      BY DEF ScanInv, BlType, IsTable
    <3>3. ASSUME NEW d \in Domains, NEW i \in Targets[d] PROVE pending'[v][d][i] \in Seq(Check)
      <4>1. pending'[v][d][i] = <<row>> \/ pending'[v][d][i] = pending[v][d][i]
        BY <1>8
      <4>2. pending[v][d][i] \in Seq(Check)
        BY <3>2
      <4>. QED
        BY <3>1, <4>1, <4>2
    <3>. QED
      BY <3>3
  <2>. QED
    BY <2>1, <2>2 DEF IsTable
<1>11. Decided(w, row)
  BY <1>4, <1>5, <1>6, <1>8 DEF Decided, e
<1>. QED
  BY <1>4, <1>9, <1>10, <1>11

LEMMA DecideKeeps ==
  ASSUME ScanInv, NEW w \in Scanners, Decide(w)
  PROVE  ScanInv'
<1>1. PICK row \in Check : Decided(w, row)
  BY DecideEffect
<1>2. /\ scan[w] \in ScanRow /\ scan[w].stage = "lookup" /\ scan[w].domain \in Domains
      /\ scan[w].ip \in Targets[scan[w].domain] \ scan[w].ips
      /\ scan' = [scan EXCEPT ![w] = Done(scan[w])]
      /\ UNCHANGED <<now, listing, cache, history, scans, lost>>
  BY DEF ScanInv, BlType, Visited, Decide, Step, Done
<1>3. Done(scan[w]) \in ScanRow
  BY <1>2, DoneRow
<1>4. mails' \in Seq(Mail) /\ \A k \in DOMAIN mails' : mails'[k].ip \in Targets[mails'[k].domain]
  <2>1. mails \in Seq(Mail) /\ \A k \in DOMAIN mails : mails[k].ip \in Targets[mails[k].domain]
    BY DEF ScanInv, BlType
  <2>2. CASE UNCHANGED mails
    BY <2>1, <2>2
  <2>3. CASE row.event # None /\ mails' = Append(mails, [domain |-> scan[w].domain, ip |-> scan[w].ip,
                                                        event |-> row.event, at |-> now])
    <3>1. [domain |-> scan[w].domain, ip |-> scan[w].ip, event |-> row.event, at |-> now] \in Mail
      BY <1>1, <1>2, <2>3 DEF Check, Mail, Ips, ScanInv, BlType
    <3>2. PICK m \in Mail : /\ mails' = Append(mails, m) /\ m.ip \in Targets[m.domain]
      BY <1>2, <2>3, <3>1
    <3>. QED
      BY <2>1, <3>2
  <2>. QED
    BY <1>1, <2>2, <2>3 DEF Decided
<1>5. BlType'
  BY <1>2, <1>3, <1>4, DecideEffect DEF ScanInv, BlType, IsTable
<1>6. ASSUME NEW v \in Scanners PROVE Visited(v)'
  <2>1. CASE v = w
    <3>1. scan'[w] = Done(scan[w])
      BY <1>2 DEF ScanInv, BlType
    <3>2. Visited(w)
      BY DEF ScanInv
    <3>3. ASSUME NEW d \in Domains, NEW i \in Targets[d]
          PROVE  pending'[w][d][i] = IF d = scan[w].domain /\ i = scan[w].ip THEN <<row>>
                                     ELSE pending[w][d][i]
      <4>1. \A u \in Scanners, c \in Domains : \A j \in Targets[c] :
              pending'[u][c][j] = IF u = w /\ c = scan[w].domain /\ j = scan[w].ip THEN <<row>>
                                  ELSE pending[u][c][j]
        BY <1>1 DEF Decided
      <4>. QED
        BY <4>1
    <3>4. Len(<<row>>) = 1
      OBVIOUS
    <3>5. /\ scan'[w].stage = "ips" /\ scan'[w].plan = scan[w].plan
          /\ scan'[w].domain = scan[w].domain /\ scan'[w].ips = scan[w].ips
      BY <1>2, <3>1, DoneRow
    <3>6. /\ scan[w].domain \in Domains \ scan[w].plan
          /\ scan[w].ips \subseteq Targets[scan[w].domain]
          /\ \A i \in scan[w].ips : pending[w][scan[w].domain][i] = <<>>
      BY <1>2, <3>2 DEF Visited
    <3>7. ASSUME NEW d \in Domains, NEW i \in Targets[d]
          PROVE  Len(pending'[w][d][i]) <= 1 /\ (d \in scan[w].plan => pending'[w][d][i] = <<>>)
      <4>1. /\ Len(pending[w][d][i]) <= 1
            /\ d \in scan[w].plan => pending[w][d][i] = <<>>
        BY <3>2 DEF Visited
      <4>2. CASE d = scan[w].domain /\ i = scan[w].ip
        <5>1. pending'[w][d][i] = <<row>> /\ d \notin scan[w].plan
          BY <3>3, <3>6, <4>2
        <5>. QED
          BY <3>4, <5>1
      <4>3. CASE ~(d = scan[w].domain /\ i = scan[w].ip)
        <5>1. pending'[w][d][i] = pending[w][d][i]
          BY <3>3, <4>3
        <5>. QED
          BY <4>1, <5>1
      <4>. QED
        BY <4>2, <4>3
    <3>8. \A i \in scan[w].ips : pending'[w][scan[w].domain][i] = <<>>
      BY <1>2, <3>3, <3>6
    <3>. QED
      BY <2>1, <3>5, <3>6, <3>7, <3>8 DEF Visited
  <2>2. CASE v # w
    <3>1. \A d \in Domains : \A i \in Targets[d] : pending'[v][d][i] = pending[v][d][i]
      BY <1>1, <2>2 DEF Decided
    <3>2. scan'[v] = scan[v]
      BY <1>2, <2>2 DEF ScanInv, BlType
    <3>3. /\ scan[v].stage \in {"ips", "lookup"} =>
               scan[v].domain \in Domains /\ scan[v].ips \subseteq Targets[scan[v].domain]
          /\ scan[v].stage = "lookup" => scan[v].ip \in Targets[scan[v].domain]
          /\ Visited(v)
      BY DEF ScanInv, Visited
    <3>. QED
      BY <3>1, <3>2, <3>3 DEF Visited
  <2>. QED
    BY <2>1, <2>2
<1>. QED
  BY <1>5, <1>6 DEF ScanInv

LEMMA CommitDomainKeeps ==
  ASSUME ScanInv, NEW w \in Scanners, CommitDomain(w)
  PROVE  ScanInv'
<1>1. /\ scan[w] \in ScanRow
      /\ scan' = [scan EXCEPT ![w] = [Idle EXCEPT !.stage = "next", !.plan = scan[w].plan]]
      /\ pending' = [pending EXCEPT ![w] = NoRows]
      /\ UNCHANGED <<now, listing, cache, mails, scans, lost>>
  BY DEF ScanInv, BlType, CommitDomain, Step
<1>2. [Idle EXCEPT !.stage = "next", !.plan = scan[w].plan] \in ScanRow
  BY <1>1, IdleRow DEF ScanRow
<1>3. IsTable(history')
  <2>1. ASSUME NEW d \in Domains, NEW i \in Targets[d]
        PROVE  history[d][i] \o pending[w][d][i] \in Seq(Check)
    <3>1. history[d][i] \in Seq(Check) /\ pending[w][d][i] \in Seq(Check)
      BY DEF ScanInv, BlType, IsTable
    <3>. QED
      BY <3>1
  <2>. QED
    BY <2>1 DEF CommitDomain, IsTable
<1>4. IsTable(NoRows) /\ \A d \in Domains : \A i \in Targets[d] : NoRows[d][i] = <<>>
  BY DEF IsTable, NoRows
<1>5. BlType'
  BY <1>1, <1>2, <1>3, <1>4 DEF ScanInv, BlType, IsTable
<1>6. ASSUME NEW v \in Scanners PROVE Visited(v)'
  <2>1. CASE v = w
    <3>1. scan'[w] = [Idle EXCEPT !.stage = "next", !.plan = scan[w].plan] /\ pending'[w] = NoRows
      BY <1>1 DEF ScanInv, BlType
    <3>. QED
      BY <1>4, <2>1, <3>1 DEF Visited, Idle
  <2>2. CASE v # w
    <3>1. scan'[v] = scan[v] /\ pending'[v] = pending[v]
      BY <1>1, <2>2 DEF ScanInv, BlType
    <3>. QED
      BY <3>1 DEF ScanInv, Visited
  <2>. QED
    BY <2>1, <2>2
<1>. QED
  BY <1>5, <1>6 DEF ScanInv

LEMMA ScanRaisesKeeps ==
  ASSUME ScanInv, NEW w \in Scanners, ScanRaises(w)
  PROVE  ScanInv'
<1>1. CASE w \in Sweeps
  <2>1. /\ scan[w] \in ScanRow
        /\ scan' = [scan EXCEPT ![w] = [Idle EXCEPT !.stage = "next", !.plan = scan[w].plan]]
        /\ UNCHANGED <<now, listing, cache, history, pending, mails, scans, lost>>
    BY <1>1 DEF ScanInv, BlType, ScanRaises, Step
  <2>2. [Idle EXCEPT !.stage = "next", !.plan = scan[w].plan] \in ScanRow
    BY <2>1, IdleRow DEF ScanRow
  <2>3. BlType'
    BY <2>1, <2>2 DEF ScanInv, BlType, IsTable
  <2>4. ASSUME NEW v \in Scanners PROVE Visited(v)'
    BY <2>1 DEF ScanInv, BlType, Visited, Idle
  <2>. QED
    BY <2>3, <2>4 DEF ScanInv
<1>2. CASE w \notin Sweeps
  BY <1>2, CloseKeeps DEF ScanRaises, Step
<1>. QED
  BY <1>1, <1>2

LEMMA WorldKeeps ==
  ASSUME ScanInv, Tick \/ (\E i \in Ips, Z \in SUBSET Zones : Relist(i, Z))
  PROVE  ScanInv'
<1>1. /\ now' \in Nat /\ listing' \in [Ips -> SUBSET Zones]
      /\ UNCHANGED <<cache, history, pending, scan, mails, scans, lost>>
  BY DEF Tick, Relist, ScanInv, BlType
<1>2. BlType'
  BY <1>1 DEF ScanInv, BlType, IsTable
<1>3. ASSUME NEW v \in Scanners PROVE Visited(v)'
  BY <1>1 DEF ScanInv, Visited
<1>. QED
  BY <1>2, <1>3 DEF ScanInv

LEMMA RestartScansKeeps ==
  ASSUME ScanInv, RestartScans
  PROVE  ScanInv'
<1>1. /\ scan' = [w \in Scanners |-> Idle] /\ Drop(Scanners)
      /\ cache' = [i \in Ips |-> [z \in Zones |-> None]]
      /\ UNCHANGED <<now, listing, history, mails, scans>>
  BY DEF RestartScans
<1>2. /\ DOMAIN pending' = Scanners /\ \A w \in Scanners : IsTable(pending'[w])
      /\ \A w \in Scanners : \A d \in Domains : \A i \in Targets[d] : pending'[w][d][i] = <<>>
      /\ lost' \in Nat
  BY <1>1, DropEffect
<1>3. BlType'
  BY <1>1, <1>2, IdleRow DEF ScanInv, BlType, IsTable
<1>4. ASSUME NEW v \in Scanners PROVE Visited(v)'
  BY <1>1, <1>2 DEF Visited, Idle
<1>. QED
  BY <1>3, <1>4 DEF ScanInv

LEMMA ScanStepKeeps == ScanInv /\ [BlNext]_blVars => ScanInv'
<1>. SUFFICES ASSUME ScanInv, [BlNext]_blVars PROVE ScanInv'
  OBVIOUS
<1>1. CASE UNCHANGED blVars
  BY <1>1 DEF blVars, ScanInv, BlType, IsTable, Visited
<1>2. ASSUME NEW w \in Scanners, ScanStep(w) PROVE ScanInv'
  BY <1>2, StartScanKeeps, NextDomainKeeps, EndScanKeeps, NextIpKeeps, LookupKeeps, DecideKeeps,
     CommitDomainKeeps, ScanRaisesKeeps DEF ScanStep
<1>3. CASE Tick \/ \E i \in Ips, Z \in SUBSET Zones : Relist(i, Z)
  BY <1>3, WorldKeeps
<1>. QED
  BY <1>1, <1>2, <1>3, RestartScansKeeps DEF BlNext

LEMMA ScanHolds == BlSpec => []ScanInv
<1>1. BlInit => ScanInv
  BY InitScan
<1>2. ScanInv /\ [BlNext]_blVars => ScanInv'
  BY ScanStepKeeps
<1>. QED
  BY <1>1, <1>2, PTL DEF BlSpec

\* What a scanner knows between two awaits has its type, for all constants.
THEOREM BlTypesKept == BlSpec => []BlTypeOK
<1>1. ScanInv => BlTypeOK
  <2>. SUFFICES ASSUME ScanInv PROVE BlTypeOK
    OBVIOUS
  <2>1. /\ {now, scans, lost} \subseteq Nat /\ listing \in [Ips -> SUBSET Zones]
        /\ \A i \in Ips, z \in Zones : cache[i][z] \in {None} \cup [listed : BOOLEAN, at : Nat]
        /\ mails \in Seq(Mail)
    BY DEF ScanInv, BlType
  <2>2. \A d \in Domains : \A i \in Targets[d] :
          history[d][i] \in Seq(Check) /\ \A w \in Scanners : pending[w][d][i] \in Seq(Check)
    BY DEF ScanInv, BlType, IsTable
  <2>3. \A w \in Scanners : scan[w].plan \subseteq Domains
    BY DEF ScanInv, BlType, ScanRow
  <2>4. \A w \in Scanners : Visited(w)
    BY DEF ScanInv
  <2>. QED
    BY <2>1, <2>2, <2>3, <2>4 DEF BlTypeOK, Visited
<1>. QED
  BY <1>1, ScanHolds, PTL

----------------------------------------------------------------------------
(* How many mails a scanner sends within the cooldown.  Every mail of an   *)
(* event is covered by a row in the session of the scanner that sent it,   *)
(* until the row is committed, which holds back all scanners, or is lost.  *)

\* The mails of event e about IP i of domain d in the cooldown that begins at s.
Sent(d, i, e, s) == {k \in DOMAIN mails : /\ mails[k].domain = d /\ mails[k].ip = i
                                          /\ mails[k].event = e
                                          /\ s <= mails[k].at /\ mails[k].at <= s + Cooldown}

Marks(rows, e, s) == \E k \in DOMAIN rows : /\ rows[k].event = e
                                           /\ s <= rows[k].at /\ rows[k].at <= s + Cooldown

Recorded(d, i, e, s) == Marks(history[d][i], e, s)
Open(d, i, e, s) == {w \in Scanners : Marks(pending[w][d][i], e, s)}

Counted(d, i, e, s) ==
  /\ Cardinality(Sent(d, i, e, s)) <= Cardinality(Scanners) + lost
  /\ \/ Recorded(d, i, e, s)
     \/ Cardinality(Sent(d, i, e, s)) <= Cardinality(Open(d, i, e, s)) + lost

AllCounted == \A d \in Domains : \A i \in Targets[d] : \A e \in Events, s \in Nat :
                Counted(d, i, e, s)

LEMMA CountsAreFinite ==
  ASSUME ScanInv, NEW d, NEW i, NEW e, NEW s
  PROVE  /\ IsFiniteSet(Sent(d, i, e, s)) /\ Cardinality(Sent(d, i, e, s)) \in Nat
         /\ IsFiniteSet(Open(d, i, e, s)) /\ Cardinality(Open(d, i, e, s)) \in Nat
         /\ Cardinality(Scanners) \in Nat
         /\ Cardinality(Open(d, i, e, s)) <= Cardinality(Scanners)
<1>1. Len(mails) \in Nat /\ DOMAIN mails = 1..Len(mails)
  BY DEF ScanInv, BlType
<1>2. IsFiniteSet(1..Len(mails))
  BY <1>1, FS_Interval
<1>3. Sent(d, i, e, s) \subseteq 1..Len(mails)
  BY <1>1 DEF Sent
<1>4. Open(d, i, e, s) \subseteq Scanners
  BY DEF Open
<1>5. IsFiniteSet(Scanners)
  BY BlacklistAssumption
<1>6. IsFiniteSet(Sent(d, i, e, s)) /\ IsFiniteSet(Open(d, i, e, s))
  BY <1>2, <1>3, <1>4, <1>5, FS_Subset
<1>. QED
  BY <1>4, <1>5, <1>6, FS_CardinalityType, FS_Subset

LEMMA OpenIsFinite ==
  ASSUME NEW d, NEW i, NEW e, NEW s
  PROVE  IsFiniteSet(Open(d, i, e, s)') /\ Cardinality(Open(d, i, e, s)') \in Nat
<1>1. Open(d, i, e, s)' \subseteq Scanners
  BY DEF Open
<1>2. IsFiniteSet(Open(d, i, e, s)')
  BY <1>1, BlacklistAssumption, FS_Subset
<1>. QED
  BY <1>2, FS_CardinalityType

\* A larger set of open sessions keeps the count.
LEMMA StaysCounted ==
  ASSUME ScanInv, NEW d \in Domains, NEW i \in Targets[d], NEW e \in Events, NEW s \in Nat,
         Counted(d, i, e, s), mails' = mails, lost' = lost,
         Recorded(d, i, e, s)' \/ (~Recorded(d, i, e, s) /\ Open(d, i, e, s) \subseteq Open(d, i, e, s)')
  PROVE  Counted(d, i, e, s)'
<1>1. Sent(d, i, e, s)' = Sent(d, i, e, s)
  BY DEF Sent
<1>2. IsFiniteSet(Open(d, i, e, s)') /\ Cardinality(Open(d, i, e, s)') \in Nat
  BY OpenIsFinite
<1>3. Open(d, i, e, s) \subseteq Open(d, i, e, s)' =>
        Cardinality(Open(d, i, e, s)) <= Cardinality(Open(d, i, e, s)')
  BY <1>2, FS_Subset
<1>4. /\ Cardinality(Sent(d, i, e, s)) \in Nat /\ Cardinality(Open(d, i, e, s)) \in Nat
      /\ Cardinality(Scanners) \in Nat /\ lost \in Nat
  BY CountsAreFinite DEF ScanInv, BlType
<1>. QED
  BY <1>1, <1>2, <1>3, <1>4 DEF Counted

LEMMA DropCounted ==
  ASSUME ScanInv, NEW W \in SUBSET Scanners, Drop(W), UNCHANGED <<history, mails>>,
         NEW d \in Domains, NEW i \in Targets[d], NEW e \in Events, NEW s \in Nat, Counted(d, i, e, s)
  PROVE  Counted(d, i, e, s)'
<1>. DEFINE dropped == {w \in W : pending[w] # NoRows}
            open == Open(d, i, e, s)
            later == Open(d, i, e, s)'
<1>1. Sent(d, i, e, s)' = Sent(d, i, e, s) /\ Recorded(d, i, e, s)' = Recorded(d, i, e, s)
  BY DEF Sent, Recorded
<1>2. PICK n \in Nat : n = Cardinality(dropped) /\ lost' = lost + n
  BY DropEffect
<1>3. open \subseteq later \cup dropped
  <2>. SUFFICES ASSUME NEW w \in Scanners, Marks(pending[w][d][i], e, s), w \notin dropped
                PROVE  Marks(pending'[w][d][i], e, s)
    BY DEF Open
  <2>1. CASE w \in W
    <3>1. pending[w][d][i] = <<>>
      BY <2>1 DEF NoRows
    <3>. QED
      BY <3>1 DEF Marks
  <2>2. CASE w \notin W
    BY <2>2, DropEffect
  <2>. QED
    BY <2>1, <2>2
<1>4. IsFiniteSet(dropped) /\ IsFiniteSet(later)
  BY BlacklistAssumption, FS_Subset, OpenIsFinite
<1>. HIDE DEF dropped, open, later
<1>5. /\ IsFiniteSet(later \cup dropped)
      /\ Cardinality(later \cup dropped) = Cardinality(later) + Cardinality(dropped)
                                              - Cardinality(later \cap dropped)
  BY <1>4, FS_Union
<1>6. IsFiniteSet(later \cap dropped)
  BY <1>4, FS_Intersection
<1>7. Cardinality(later \cap dropped) \in Nat /\ Cardinality(later) \in Nat
  BY <1>4, <1>6, FS_CardinalityType
<1>8. Cardinality(open) \in Nat /\ Cardinality(open) <= Cardinality(later \cup dropped)
  BY <1>3, <1>5, FS_Subset, FS_CardinalityType
<1>9. Cardinality(open) <= Cardinality(later) + n
  BY <1>2, <1>5, <1>7, <1>8
<1>10. /\ Cardinality(Sent(d, i, e, s)) \in Nat /\ Cardinality(Scanners) \in Nat /\ lost \in Nat
  BY CountsAreFinite DEF ScanInv, BlType
<1>11. /\ Cardinality(Sent(d, i, e, s)') <= Cardinality(Scanners) + lost'
       /\ Recorded(d, i, e, s)' \/ Cardinality(Sent(d, i, e, s)') <= Cardinality(later) + lost'
  BY <1>1, <1>2, <1>7, <1>8, <1>9, <1>10 DEF Counted, open
<1>. QED
  BY <1>11 DEF Counted, later

LEMMA Joined ==
  ASSUME NEW S, NEW p \in Seq(S), NEW q \in Seq(S)
  PROVE  /\ \A k \in DOMAIN p : k \in DOMAIN (p \o q) /\ (p \o q)[k] = p[k]
         /\ \A k \in DOMAIN q : Len(p) + k \in DOMAIN (p \o q) /\ (p \o q)[Len(p) + k] = q[k]
OBVIOUS

LEMMA AtMostOneMore ==
  ASSUME NEW S, IsFiniteSet(S), NEW x, NEW T, T \subseteq S \cup {x}
  PROVE  /\ IsFiniteSet(T) /\ Cardinality(T) \in Nat
         /\ Cardinality(T) <= Cardinality(S) + 1
<1>1. /\ IsFiniteSet(S \cup {x}) /\ Cardinality(S) \in Nat
      /\ Cardinality(S \cup {x}) = IF x \in S THEN Cardinality(S) ELSE Cardinality(S) + 1
  BY FS_AddElement, FS_CardinalityType
<1>2. IsFiniteSet(T) /\ Cardinality(T) \in Nat /\ Cardinality(T) <= Cardinality(S \cup {x})
  BY <1>1, FS_Subset, FS_CardinalityType
<1>. QED
  BY <1>1, <1>2

LEMMA CommitCounted ==
  ASSUME ScanInv, NEW w \in Scanners, CommitDomain(w),
         NEW d \in Domains, NEW i \in Targets[d], NEW e \in Events, NEW s \in Nat, Counted(d, i, e, s)
  PROVE  Counted(d, i, e, s)'
<1>1. /\ history'[d][i] = history[d][i] \o pending[w][d][i]
      /\ history[d][i] \in Seq(Check) /\ pending[w][d][i] \in Seq(Check)
      /\ mails' = mails /\ lost' = lost
      /\ \A v \in Scanners \ {w} : pending'[v] = pending[v]
  BY DEF ScanInv, BlType, IsTable, CommitDomain
<1>2. Marks(history[d][i], e, s) => Marks(history'[d][i], e, s)
  <2>. SUFFICES ASSUME Marks(history[d][i], e, s) PROVE Marks(history'[d][i], e, s)
    OBVIOUS
  <2>1. PICK k \in DOMAIN history[d][i] : /\ history[d][i][k].event = e /\ s <= history[d][i][k].at
                                          /\ history[d][i][k].at <= s + Cooldown
    BY DEF Marks
  <2>2. k \in DOMAIN history'[d][i] /\ history'[d][i][k] = history[d][i][k]
    <3>1. \A j \in DOMAIN history[d][i] : /\ j \in DOMAIN (history[d][i] \o pending[w][d][i])
                                          /\ (history[d][i] \o pending[w][d][i])[j] = history[d][i][j]
      <4>1. history[d][i] \in Seq(Check) /\ pending[w][d][i] \in Seq(Check)
        BY <1>1
      <4>. DEFINE p == history[d][i]
                  q == pending[w][d][i]
      <4>. HIDE DEF p, q
      <4>2. p \in Seq(Check) /\ q \in Seq(Check)
        BY <4>1 DEF p, q
      <4>3. \A j \in DOMAIN p : j \in DOMAIN (p \o q) /\ (p \o q)[j] = p[j]
        BY <4>2, Joined, Zenon
      <4>. QED
        BY <4>3 DEF p, q
    <3>. QED
      BY <1>1, <2>1, <3>1
  <2>. QED
    BY <2>1, <2>2 DEF Marks
<1>3. Marks(pending[w][d][i], e, s) => Marks(history'[d][i], e, s)
  <2>. SUFFICES ASSUME Marks(pending[w][d][i], e, s) PROVE Marks(history'[d][i], e, s)
    OBVIOUS
  <2>1. PICK k \in DOMAIN pending[w][d][i] : /\ pending[w][d][i][k].event = e
                                             /\ s <= pending[w][d][i][k].at
                                             /\ pending[w][d][i][k].at <= s + Cooldown
    BY DEF Marks
  <2>2. /\ Len(history[d][i]) + k \in DOMAIN history'[d][i]
        /\ history'[d][i][Len(history[d][i]) + k] = pending[w][d][i][k]
    <3>1. PICK p \in Seq(Check), q \in Seq(Check) :
            p = history[d][i] /\ q = pending[w][d][i] /\ history'[d][i] = p \o q
      BY <1>1
    <3>2. Len(p) + k \in DOMAIN (p \o q) /\ (p \o q)[Len(p) + k] = q[k]
      <4>1. k \in DOMAIN q
        BY <2>1, <3>1
      <4>. QED
        BY <4>1, Joined
    <3>. QED
      BY <3>1, <3>2
  <2>. QED
    BY <2>1, <2>2 DEF Marks
<1>4. ~Marks(pending[w][d][i], e, s) => Open(d, i, e, s) \subseteq Open(d, i, e, s)'
  <2>. SUFFICES ASSUME ~Marks(pending[w][d][i], e, s), NEW v \in Scanners, Marks(pending[v][d][i], e, s)
                PROVE  Marks(pending'[v][d][i], e, s)
    BY DEF Open
  <2>1. v # w
    OBVIOUS
  <2>. QED
    BY <1>1, <2>1
<1>5. Recorded(d, i, e, s)' \/ (~Recorded(d, i, e, s) /\ Open(d, i, e, s) \subseteq Open(d, i, e, s)')
  BY <1>2, <1>3, <1>4 DEF Recorded
<1>. QED
  BY <1>1, <1>5, StaysCounted

LEMMA DecideCounted ==
  ASSUME ScanInv, NEW w \in Scanners, Decide(w),
         NEW d \in Domains, NEW i \in Targets[d], NEW e \in Events, NEW s \in Nat, Counted(d, i, e, s)
  PROVE  Counted(d, i, e, s)'
<1>1. PICK row \in Check : Decided(w, row)
  BY DecideEffect
<1>2. /\ scan[w].domain \in Domains /\ scan[w].ip \in Targets[scan[w].domain]
      /\ pending[w][scan[w].domain][scan[w].ip] = <<>> /\ history' = history /\ lost' = lost
      /\ now \in Nat /\ lost \in Nat /\ mails \in Seq(Mail)
  BY DEF ScanInv, BlType, Visited, Decide
<1>3. Recorded(d, i, e, s)' = Recorded(d, i, e, s)
  BY <1>2 DEF Recorded
<1>4. \A v \in Scanners : pending'[v][d][i] = IF v = w /\ d = scan[w].domain /\ i = scan[w].ip
                                              THEN <<row>> ELSE pending[v][d][i]
  BY <1>1 DEF Decided
<1>5. Open(d, i, e, s) \subseteq Open(d, i, e, s)'
  <2>. SUFFICES ASSUME NEW v \in Scanners, Marks(pending[v][d][i], e, s)
                PROVE  Marks(pending'[v][d][i], e, s)
    BY DEF Open
  <2>1. ~(v = w /\ d = scan[w].domain /\ i = scan[w].ip)
    BY <1>2 DEF Marks
  <2>2. pending'[v][d][i] = pending[v][d][i]
    BY <1>4, <2>1
  <2>. QED
    BY <2>2
<1>. DEFINE new == [domain |-> scan[w].domain, ip |-> scan[w].ip, event |-> row.event, at |-> now]
            counts == /\ row.event # None /\ mails' = Append(mails, new)
                      /\ new.domain = d /\ new.ip = i /\ new.event = e
                      /\ s <= now /\ now <= s + Cooldown
<1>6. CASE ~counts
  <2>1. Sent(d, i, e, s)' = Sent(d, i, e, s)
    <3>1. CASE UNCHANGED mails
      BY <3>1 DEF Sent
    <3>2. CASE row.event # None /\ mails' = Append(mails, new)
      <4>1. ~(new.domain = d /\ new.ip = i /\ new.event = e /\ s <= new.at /\ new.at <= s + Cooldown)
        BY <1>6, <3>2
      <4>. HIDE DEF new, counts
      <4>2. /\ DOMAIN mails' = DOMAIN mails \cup {Len(mails) + 1} /\ mails'[Len(mails) + 1] = new
            /\ \A k \in DOMAIN mails : mails'[k] = mails[k]
        BY <1>2, <3>2
      <4>. QED
        BY <4>1, <4>2 DEF Sent
    <3>. QED
      BY <1>1, <3>1, <3>2 DEF Decided
  <2>2. /\ Cardinality(Sent(d, i, e, s)) \in Nat /\ Cardinality(Open(d, i, e, s)) \in Nat
        /\ Cardinality(Open(d, i, e, s)') \in Nat
        /\ Cardinality(Open(d, i, e, s)) <= Cardinality(Open(d, i, e, s)')
    BY <1>5, CountsAreFinite, OpenIsFinite, FS_Subset
  <2>. QED
    BY <1>2, <1>3, <2>1, <2>2 DEF Counted
<1>7. CASE counts
  <2>1. /\ row.event = e /\ d = scan[w].domain /\ i = scan[w].ip /\ row.at = now
        /\ row.event = IF EventOf(w) # None /\ ~RecentlyAlerted(w, EventOf(w)) THEN EventOf(w) ELSE None
    BY <1>1, <1>7 DEF Decided
  <2>2. ~RecentlyAlerted(w, e)
    BY <2>1, <1>7
  <2>3. ~Recorded(d, i, e, s)
    <3>. SUFFICES ASSUME Recorded(d, i, e, s) PROVE FALSE
      OBVIOUS
    <3>1. PICK k \in DOMAIN history[d][i] : history[d][i][k].event = e /\ s <= history[d][i][k].at
      BY DEF Recorded, Marks
    <3>2. history[d][i][k] \in Check
      BY <3>1 DEF ScanInv, BlType, IsTable
    <3>3. now <= s + Cooldown /\ now \in Nat
      BY <1>2, <1>7
    <3>4. history[d][i][k].at \in Nat /\ Cooldown \in Nat
      BY <3>2, BlacklistAssumption DEF Check
    <3>. HIDE DEF new, counts
    <3>5. history[d][i][k].at + Cooldown >= now
      BY <3>1, <3>3, <3>4
    <3>. QED
      BY <2>1, <2>2, <3>1, <3>5 DEF RecentlyAlerted, Rows
  <2>4. w \notin Open(d, i, e, s)
    <3>1. pending[w][d][i] = <<>>
      BY <1>2, <2>1
    <3>2. ~Marks(pending[w][d][i], e, s)
      BY <3>1 DEF Marks
    <3>. QED
      BY <3>2 DEF Open
  <2>5. w \in Open(d, i, e, s)'
    <3>1. pending'[w][d][i] = <<row>>
      BY <1>4, <2>1
    <3>2. 1 \in DOMAIN <<row>> /\ <<row>>[1] = row
      OBVIOUS
    <3>. QED
      BY <1>7, <2>1, <3>1, <3>2 DEF Open, Marks
  <2>6. Sent(d, i, e, s)' \subseteq Sent(d, i, e, s) \cup {Len(mails) + 1}
    <3>1. mails' = Append(mails, new)
      BY <1>7
    <3>. HIDE DEF new, counts
    <3>2. /\ DOMAIN mails' = DOMAIN mails \cup {Len(mails) + 1}
          /\ \A k \in DOMAIN mails : mails'[k] = mails[k]
      BY <1>2, <3>1
    <3>. QED
      BY <3>2 DEF Sent
  <2>. HIDE DEF counts, new
  <2>7. /\ IsFiniteSet(Sent(d, i, e, s)) /\ Cardinality(Sent(d, i, e, s)) \in Nat
        /\ IsFiniteSet(Open(d, i, e, s)) /\ Cardinality(Open(d, i, e, s)) \in Nat
        /\ IsFiniteSet(Open(d, i, e, s)') /\ Cardinality(Open(d, i, e, s)') \in Nat
        /\ IsFiniteSet(Scanners) /\ Cardinality(Scanners) \in Nat
    BY CountsAreFinite, OpenIsFinite, BlacklistAssumption, FS_CardinalityType
  <2>8. Open(d, i, e, s)' \subseteq Scanners
    BY DEF Open
  <2>9. /\ Cardinality(Sent(d, i, e, s)') \in Nat
        /\ Cardinality(Sent(d, i, e, s)') <= Cardinality(Sent(d, i, e, s)) + 1
    BY <2>6, <2>7, AtMostOneMore
  <2>10. Cardinality(Open(d, i, e, s) \cup {w}) = Cardinality(Open(d, i, e, s)) + 1
    BY <2>4, <2>7, FS_AddElement
  <2>11. Open(d, i, e, s) \cup {w} \subseteq Open(d, i, e, s)'
    BY <1>5, <2>5
  <2>12. Cardinality(Open(d, i, e, s)) + 1 <= Cardinality(Open(d, i, e, s)')
    BY <2>7, <2>10, <2>11, FS_Subset
  <2>13. Cardinality(Open(d, i, e, s)') <= Cardinality(Scanners)
    BY <2>7, <2>8, FS_Subset
  <2>. QED
    BY <1>2, <2>3, <2>7, <2>9, <2>12, <2>13 DEF Counted
<1>. QED
  BY <1>6, <1>7

LEMMA QuietCounted ==
  ASSUME ScanInv, UNCHANGED <<history, pending, mails, lost>>,
         NEW d \in Domains, NEW i \in Targets[d], NEW e \in Events, NEW s \in Nat, Counted(d, i, e, s)
  PROVE  Counted(d, i, e, s)'
BY DEF Counted, Sent, Recorded, Open

LEMMA CountedKept == ScanInv /\ AllCounted /\ [BlNext]_blVars => AllCounted'
<1>. SUFFICES ASSUME ScanInv, AllCounted, [BlNext]_blVars,
                     NEW d \in Domains, NEW i \in Targets[d], NEW e \in Events, NEW s \in Nat
              PROVE  Counted(d, i, e, s)'
  BY DEF AllCounted
<1>1. Counted(d, i, e, s)
  BY DEF AllCounted
<1>2. ASSUME NEW w \in Scanners, StartScan(w) \/ NextDomain(w) \/ NextIp(w) \/ \E z \in Zones : Lookup(w, z)
      PROVE  Counted(d, i, e, s)'
  <2>1. UNCHANGED <<history, pending, mails, lost>>
    BY <1>2 DEF StartScan, NextDomain, NextIp, Lookup
  <2>. QED
    BY <1>1, <2>1, QuietCounted
<1>3. ASSUME NEW w \in Scanners, EndScan(w) \/ ScanRaises(w) PROVE Counted(d, i, e, s)'
  <2>1. CASE UNCHANGED <<history, pending, mails, lost>>
    BY <1>1, <2>1, QuietCounted
  <2>2. CASE Drop({w}) /\ UNCHANGED <<history, mails>>
    BY <1>1, <2>2, DropCounted
  <2>. QED
    BY <1>3, <2>1, <2>2 DEF EndScan, ScanRaises
<1>4. ASSUME NEW w \in Scanners, ScanStep(w) PROVE Counted(d, i, e, s)'
  BY <1>1, <1>2, <1>3, <1>4, DecideCounted, CommitCounted DEF ScanStep
<1>5. CASE Tick \/ (\E a \in Ips, Z \in SUBSET Zones : Relist(a, Z)) \/ UNCHANGED blVars
  <2>1. UNCHANGED <<history, pending, mails, lost>>
    BY <1>5 DEF Tick, Relist, blVars
  <2>. QED
    BY <1>1, <2>1, QuietCounted
<1>6. CASE RestartScans
  BY <1>1, <1>6, DropCounted DEF RestartScans
<1>. QED
  BY <1>4, <1>5, <1>6 DEF BlNext

LEMMA NothingSent == BlInit => AllCounted
<1>. SUFFICES ASSUME BlInit, NEW d \in Domains, NEW i \in Targets[d], NEW e \in Events, NEW s \in Nat
              PROVE  Counted(d, i, e, s)
  BY DEF AllCounted
<1>1. ScanInv
  BY InitScan
<1>2. Sent(d, i, e, s) = {}
  BY DEF Sent, BlInit
<1>3. Cardinality(Sent(d, i, e, s)) = 0
  BY <1>2, FS_EmptySet
<1>4. Cardinality(Scanners) \in Nat /\ Cardinality(Open(d, i, e, s)) \in Nat /\ lost = 0
  BY <1>1, CountsAreFinite DEF BlInit
<1>. QED
  BY <1>3, <1>4 DEF Counted

LEMMA CountedBounds ==
  ASSUME ScanInv, AllCounted
  PROVE  OneAlertPerScanner
<1>. SUFFICES ASSUME NEW j \in DOMAIN mails
              PROVE  Cardinality({k \in DOMAIN mails : /\ Same(mails[j], mails[k])
                                                       /\ mails[k].at >= mails[j].at
                                                       /\ mails[k].at <= mails[j].at + Cooldown})
                       <= Cardinality(Scanners) + lost
  BY DEF OneAlertPerScanner
<1>1. mails[j] \in Mail /\ mails[j].ip \in Targets[mails[j].domain]
  BY DEF ScanInv, BlType
<1>. DEFINE d == mails[j].domain
            i == mails[j].ip
            e == mails[j].event
            s == mails[j].at
<1>2. d \in Domains /\ i \in Targets[d] /\ e \in Events /\ s \in Nat
  BY <1>1 DEF Mail
<1>3. \A k \in DOMAIN mails : mails[k].at \in Nat
  <2>1. mails \in Seq(Mail)
    BY DEF ScanInv, BlType
  <2>2. \A k \in DOMAIN mails : mails[k] \in Mail
    BY <2>1
  <2>. QED
    BY <2>2 DEF Mail
<1>4. Sent(d, i, e, s) = {k \in DOMAIN mails : /\ Same(mails[j], mails[k])
                                               /\ mails[k].at >= mails[j].at
                                               /\ mails[k].at <= mails[j].at + Cooldown}
  BY <1>2, <1>3 DEF Sent, Same
<1>5. Counted(d, i, e, s)
  BY <1>2 DEF AllCounted
<1>. HIDE DEF d, i, e, s
<1>. QED
  BY <1>4, <1>5 DEF Counted

\* However scans overlap, fail and lose their sessions, one event of an IP is
\* mailed within the cooldown at most once by each scanner, and once more for
\* each session that was lost.
THEOREM AlertsAreHeldBack == BlSpec => []OneAlertPerScanner
<1>1. BlInit => AllCounted
  BY NothingSent
<1>2. ScanInv /\ AllCounted /\ [BlNext]_blVars => AllCounted'
  BY CountedKept
<1>3. ScanInv /\ AllCounted => OneAlertPerScanner
  BY CountedBounds
<1>. QED
  BY <1>1, <1>2, <1>3, ScanHolds, PTL DEF BlSpec

----------------------------------------------------------------------------
(* When scans do not overlap, what a scan reads is what its commit extends: *)
(* the row it adds is judged against the rows it follows.                   *)

OneScanner == \E w : Scanners = {w}

\* The last Threshold - 1 of the first n rows are severe.
Severe(rows, n) == \A j \in 1..n : j + Threshold > n + 1 => rows[j].severity >= 2
Before(rows, n) == IF n = 0 THEN 0 ELSE rows[n].severity

\* A row that may follow the first n rows.
Judged(rows, n, row) ==
  /\ row.event = "listed" => row.severity >= 2 /\ Severe(rows, n)
  /\ row.severity > Before(rows, n) /\ row.severity >= 2 /\ Severe(rows, n) =>
       \/ row.event = "listed"
       \/ \E j \in 1..n : rows[j].event = "listed" /\ rows[j].at + Cooldown >= row.at

\* Every row could follow the ones before it.
Sound(rows) == \A n \in 0..Len(rows) : n < Len(rows) => Judged(rows, n, rows[n + 1])

RowsJudged(d, i) ==
  /\ Sound(history[d][i])
  /\ \A w \in Scanners : \A k \in DOMAIN pending[w][d][i] :
       Judged(history[d][i], Len(history[d][i]), pending[w][d][i][k])

ReadIsLatest(w) ==
  scan[w].stage = "lookup" =>
    LET rows == history[scan[w].domain][scan[w].ip] IN scan[w].prev = Before(rows, Len(rows))

JudgedInv ==
  /\ \A d \in Domains : \A i \in Targets[d] : RowsJudged(d, i)
  /\ \A w \in Scanners : ReadIsLatest(w)

LEMMA NextIsSound ==
  ASSUME NEW rows \in Seq(Check), NEW row \in Check, Sound(rows), Judged(rows, Len(rows), row)
  PROVE  Sound(rows \o <<row>>)
<1>. DEFINE all == rows \o <<row>>
<1>1. /\ Len(all) = Len(rows) + 1 /\ Len(rows) \in Nat /\ all[Len(rows) + 1] = row
      /\ \A j \in 1..Len(rows) : all[j] = rows[j]
  OBVIOUS
<1>. HIDE DEF all
<1>. SUFFICES ASSUME NEW n \in 0..Len(rows) PROVE Judged(all, n, all[n + 1])
  BY <1>1 DEF Sound, all
<1>2. /\ Severe(all, n) <=> Severe(rows, n)
      /\ Before(all, n) = Before(rows, n)
  BY <1>1 DEF Severe, Before
<1>3. Judged(rows, n, all[n + 1])
  BY <1>1 DEF Sound
<1>. QED
  BY <1>1, <1>2, <1>3 DEF Judged

LEMMA DecideJudges ==
  ASSUME ScanInv, JudgedInv, NEW w \in Scanners, NEW row \in Check,
         Decided(w, row), scan[w].stage = "lookup"
  PROVE  LET rows == history[scan[w].domain][scan[w].ip] IN Judged(rows, Len(rows), row)
<1>. DEFINE rows == history[scan[w].domain][scan[w].ip]
            sev == SeverityFor(scan[w].hits)
<1>1. /\ row.severity = sev /\ row.at = now
      /\ row.event = IF EventOf(w) # None /\ ~RecentlyAlerted(w, EventOf(w)) THEN EventOf(w) ELSE None
  BY DEF Decided
<1>2. EventOf(w) = "listed" <=>
        sev > scan[w].prev /\ sev >= 2 /\ \A s \in RecentSeverities(w) : s >= 2
  BY EventCases
<1>3. scan[w].domain \in Domains /\ scan[w].ip \in Targets[scan[w].domain]
  BY DEF ScanInv, Visited
<1>4. rows \in Seq(Check) /\ Len(rows) \in Nat /\ DOMAIN rows = 1..Len(rows)
  BY <1>3 DEF ScanInv, BlType, IsTable
<1>5. scan[w].prev = Before(rows, Len(rows))
  BY DEF JudgedInv, ReadIsLatest
<1>6. (\A s \in RecentSeverities(w) : s >= 2) <=> Severe(rows, Len(rows))
  BY <1>4 DEF RecentSeverities, Rows, Severe
<1>7. RecentlyAlerted(w, "listed") <=>
        \E j \in 1..Len(rows) : rows[j].event = "listed" /\ rows[j].at + Cooldown >= now
  BY <1>4 DEF RecentlyAlerted, Rows
<1>8. None # "listed"
  BY BlacklistAssumption
<1>. HIDE DEF rows, sev
<1>9. Judged(rows, Len(rows), row)
  BY <1>1, <1>2, <1>5, <1>6, <1>7, <1>8 DEF Judged
<1>. QED
  BY <1>9 DEF rows

LEMMA RowsStayJudged ==
  ASSUME NEW d \in Domains, NEW i \in Targets[d], RowsJudged(d, i), history' = history,
         \A w \in Scanners : pending'[w][d][i] \in {pending[w][d][i], <<>>}
  PROVE  RowsJudged(d, i)'
<1>1. Sound(history'[d][i])
  BY DEF RowsJudged
<1>2. ASSUME NEW w \in Scanners, NEW k \in DOMAIN pending'[w][d][i]
      PROVE  Judged(history'[d][i], Len(history'[d][i]), pending'[w][d][i][k])
  <2>1. pending'[w][d][i] = pending[w][d][i]
    BY <1>2
  <2>. QED
    BY <1>2, <2>1 DEF RowsJudged
<1>. QED
  BY <1>1, <1>2 DEF RowsJudged

LEMMA NextIpReads ==
  ASSUME ScanInv, NEW w \in Scanners, NextIp(w)
  PROVE  ReadIsLatest(w)'
<1>1. scan[w] \in ScanRow /\ scan[w].stage = "ips" /\ scan[w].domain \in Domains
      /\ scan[w].ips \subseteq Targets[scan[w].domain] /\ history' = history
  BY DEF ScanInv, BlType, Visited, NextIp
<1>. DEFINE last(i) == LET rows == history[scan[w].domain][i] IN
                       IF rows = <<>> THEN 0 ELSE rows[Len(rows)].severity
            new(i) == [scan[w] EXCEPT !.stage = "lookup", !.ips = @ \ {i}, !.ip = i,
                                      !.zones = Zones, !.hits = {}, !.prev = last(i)]
<1>2. PICK i \in scan[w].ips : scan' = [scan EXCEPT ![w] = new(i)]
  BY DEF NextIp, Step
<1>3. scan'[w] = new(i)
  BY <1>2 DEF ScanInv, BlType
<1>4. history[scan[w].domain][i] \in Seq(Check)
  BY <1>1, <1>2 DEF ScanInv, BlType, IsTable
<1>5. last(i) = Before(history[scan[w].domain][i], Len(history[scan[w].domain][i]))
  BY <1>4 DEF Before
<1>. HIDE DEF last
<1>6. scan'[w].domain = scan[w].domain /\ scan'[w].ip = i /\ scan'[w].prev = last(i)
  BY <1>1, <1>3 DEF ScanRow
<1>. QED
  BY <1>1, <1>5, <1>6 DEF ReadIsLatest

LEMMA LookupReads ==
  ASSUME ScanInv, NEW w \in Scanners, NEW z \in Zones, Lookup(w, z), ReadIsLatest(w)
  PROVE  ReadIsLatest(w)'
<1>1. scan[w] \in ScanRow /\ history' = history
  BY DEF ScanInv, BlType, Lookup
<1>2. PICK Z, H : scan' = [scan EXCEPT ![w] = [scan[w] EXCEPT !.zones = Z, !.hits = H]]
  BY DEF Lookup, Step
<1>3. scan'[w] = [scan[w] EXCEPT !.zones = Z, !.hits = H]
  BY <1>2 DEF ScanInv, BlType
<1>4. /\ scan'[w].stage = scan[w].stage /\ scan'[w].domain = scan[w].domain
      /\ scan'[w].ip = scan[w].ip /\ scan'[w].prev = scan[w].prev
  BY <1>1, <1>3 DEF ScanRow
<1>. QED
  BY <1>1, <1>4 DEF ReadIsLatest

LEMMA JudgedKept ==
  ASSUME OneScanner, ScanInv, JudgedInv, [BlNext]_blVars
  PROVE  JudgedInv'
<1>1. PICK u : Scanners = {u}
  BY DEF OneScanner
<1>2. ASSUME NEW w \in Scanners, StartScan(w) \/ NextDomain(w) PROVE JudgedInv'
  <2>1. UNCHANGED <<history, pending>> /\ scan'[w].stage # "lookup"
    <3>1. w \in DOMAIN scan
      BY DEF ScanInv, BlType
    <3>. QED
      BY <1>2, <3>1 DEF StartScan, NextDomain, Step, Idle
  <2>. QED
    BY <1>1, <2>1, RowsStayJudged DEF JudgedInv, ReadIsLatest
<1>3. ASSUME NEW w \in Scanners, EndScan(w) \/ ScanRaises(w) PROVE JudgedInv'
  <2>1. history' = history /\ scan'[w].stage # "lookup" /\ (Drop({w}) \/ UNCHANGED pending)
    <3>1. w \in DOMAIN scan
      BY DEF ScanInv, BlType
    <3>2. CASE EndScan(w)
      BY <3>1, <3>2 DEF EndScan, Step, Idle
    <3>3. CASE ScanRaises(w) /\ w \in Sweeps
      BY <3>1, <3>3 DEF ScanRaises, Step, Idle
    <3>4. CASE ScanRaises(w) /\ w \notin Sweeps
      BY <3>1, <3>4 DEF ScanRaises, Step, Idle
    <3>. QED
      BY <1>3, <3>2, <3>3, <3>4
  <2>2. \A d \in Domains : \A i \in Targets[d] : \A v \in Scanners :
          pending'[v][d][i] \in {pending[v][d][i], <<>>}
    BY <1>1, <2>1, DropEffect
  <2>. QED
    BY <1>1, <2>1, <2>2, RowsStayJudged DEF JudgedInv, ReadIsLatest
<1>4. ASSUME NEW w \in Scanners, NextIp(w) \/ \E z \in Zones : Lookup(w, z) PROVE JudgedInv'
  <2>1. UNCHANGED <<history, pending>>
    BY <1>4 DEF NextIp, Lookup
  <2>2. ReadIsLatest(w)'
    BY <1>4, NextIpReads, LookupReads DEF JudgedInv
  <2>. QED
    BY <1>1, <2>1, <2>2, RowsStayJudged DEF JudgedInv
<1>5. ASSUME NEW w \in Scanners, Decide(w) PROVE JudgedInv'
  <2>1. PICK row \in Check : Decided(w, row)
    BY <1>5, DecideEffect
  <2>2. history' = history /\ scan[w].stage = "lookup" /\ scan[w] \in ScanRow
        /\ scan' = [scan EXCEPT ![w] = Done(scan[w])]
    BY <1>5 DEF Decide, Step, Done, ScanInv, BlType
  <2>3. scan'[w].stage # "lookup"
    BY <2>2, DoneRow DEF ScanInv, BlType
  <2>4. LET rows == history[scan[w].domain][scan[w].ip] IN Judged(rows, Len(rows), row)
    BY <2>1, <2>2, DecideJudges
  <2>5. ASSUME NEW d \in Domains, NEW i \in Targets[d] PROVE RowsJudged(d, i)'
    <3>1. RowsJudged(d, i)
      BY DEF JudgedInv
    <3>2. pending'[w][d][i] = IF d = scan[w].domain /\ i = scan[w].ip THEN <<row>> ELSE pending[w][d][i]
      BY <2>1 DEF Decided
    <3>3. CASE d = scan[w].domain /\ i = scan[w].ip
      <4>1. ASSUME NEW k \in DOMAIN pending'[w][d][i]
            PROVE  Judged(history'[d][i], Len(history'[d][i]), pending'[w][d][i][k])
        <5>1. k = 1 /\ pending'[w][d][i][k] = row
          BY <3>2, <3>3, <4>1
        <5>. QED
          BY <2>2, <2>4, <3>3, <5>1
      <4>. QED
        BY <1>1, <2>2, <3>1, <4>1 DEF RowsJudged
    <3>4. CASE ~(d = scan[w].domain /\ i = scan[w].ip)
      <4>1. pending'[w][d][i] = pending[w][d][i]
        BY <3>2, <3>4
      <4>. QED
        BY <1>1, <2>2, <3>1, <4>1, RowsStayJudged
    <3>. QED
      BY <3>3, <3>4
  <2>. QED
    BY <1>1, <2>3, <2>5 DEF JudgedInv, ReadIsLatest
<1>6. ASSUME NEW w \in Scanners, CommitDomain(w) PROVE JudgedInv'
  <2>1. pending' = [pending EXCEPT ![w] = NoRows] /\ DOMAIN pending = Scanners
        /\ scan'[w].stage # "lookup"
    BY <1>6 DEF CommitDomain, Step, Idle, ScanInv, BlType
  <2>2. ASSUME NEW d \in Domains, NEW i \in Targets[d] PROVE RowsJudged(d, i)'
    <3>1. RowsJudged(d, i)
      BY DEF JudgedInv
    <3>2. history'[d][i] = history[d][i] \o pending[w][d][i]
      BY <1>6 DEF CommitDomain
    <3>3. /\ history[d][i] \in Seq(Check) /\ pending[w][d][i] \in Seq(Check)
          /\ Len(pending[w][d][i]) <= 1
      BY DEF ScanInv, BlType, IsTable, Visited
    <3>4. pending'[w][d][i] = <<>>
      BY <2>1 DEF NoRows
    <3>5. Sound(history'[d][i])
      <4>1. CASE pending[w][d][i] = <<>>
        <5>1. history'[d][i] = history[d][i]
          BY <3>2, <3>3, <4>1
        <5>. QED
          BY <3>1, <5>1 DEF RowsJudged
      <4>2. CASE pending[w][d][i] # <<>>
        <5>1. /\ 1 \in DOMAIN pending[w][d][i] /\ pending[w][d][i][1] \in Check
              /\ pending[w][d][i] = <<pending[w][d][i][1]>>
          BY <3>3, <4>2
        <5>2. Judged(history[d][i], Len(history[d][i]), pending[w][d][i][1])
          BY <3>1, <5>1 DEF RowsJudged
        <5>3. Sound(history[d][i])
          BY <3>1 DEF RowsJudged
        <5>. QED
          BY <3>2, <3>3, <5>1, <5>2, <5>3, NextIsSound
      <4>. QED
        BY <4>1, <4>2
    <3>. QED
      BY <1>1, <3>4, <3>5 DEF RowsJudged
  <2>. QED
    BY <1>1, <2>1, <2>2 DEF JudgedInv, ReadIsLatest
<1>7. CASE RestartScans
  <2>1. /\ history' = history /\ \A w \in Scanners : scan'[w].stage # "lookup"
        /\ \A w \in Scanners : \A d \in Domains : \A i \in Targets[d] : pending'[w][d][i] = <<>>
    BY <1>7, DropEffect DEF RestartScans, Idle
  <2>. QED
    BY <2>1, RowsStayJudged DEF JudgedInv, ReadIsLatest
<1>8. CASE Tick \/ (\E a \in Ips, Z \in SUBSET Zones : Relist(a, Z)) \/ UNCHANGED blVars
  <2>1. UNCHANGED <<history, pending, scan>>
    BY <1>8 DEF Tick, Relist, blVars
  <2>. QED
    BY <2>1, RowsStayJudged DEF JudgedInv, ReadIsLatest
<1>. QED
  BY <1>2, <1>3, <1>4, <1>5, <1>6, <1>7, <1>8 DEF BlNext, ScanStep

LEMMA JudgedHolds ==
  ASSUME OneScanner
  PROVE  BlSpec => []JudgedInv
<1>1. BlInit => JudgedInv
  BY DEF BlInit, NoRows, Idle, JudgedInv, RowsJudged, Sound, ReadIsLatest
<1>2. ScanInv /\ JudgedInv /\ [BlNext]_blVars => JudgedInv'
  BY JudgedKept
<1>. QED
  BY <1>1, <1>2, ScanHolds, PTL DEF BlSpec

LEMMA JudgedRow ==
  ASSUME ScanInv, JudgedInv, NEW d \in Domains, NEW i \in Targets[d], NEW k \in DOMAIN history[d][i]
  PROVE  /\ history[d][i] \in Seq(Check) /\ k \in 1..Len(history[d][i])
         /\ history[d][i][k] \in Check /\ Judged(history[d][i], k - 1, history[d][i][k])
<1>1. history[d][i] \in Seq(Check) /\ Sound(history[d][i])
  BY DEF ScanInv, BlType, IsTable, JudgedInv, RowsJudged
<1>2. k \in 1..Len(history[d][i]) /\ history[d][i][k] \in Check
  BY <1>1
<1>3. k - 1 \in 0..Len(history[d][i]) /\ k - 1 < Len(history[d][i]) /\ (k - 1) + 1 = k
  BY <1>1, <1>2
<1>. QED
  BY <1>1, <1>2, <1>3 DEF Sound

\* When scans do not overlap, a listing that comes and goes from one scan to
\* the next raises no alert, for every stability threshold.
THEOREM FlapsRaiseNothing == OneScanner => (BlSpec => []NoFlapAlerts)
<1>. SUFFICES ASSUME OneScanner PROVE BlSpec => []NoFlapAlerts
  OBVIOUS
<1>1. ScanInv /\ JudgedInv => NoFlapAlerts
  <2>. SUFFICES ASSUME ScanInv, JudgedInv, NEW d \in Domains, NEW i \in Targets[d],
                       NEW k \in DOMAIN history[d][i], history[d][i][k].event = "listed",
                       NEW j \in 1..k, j + Threshold > k
                PROVE  history[d][i][j].severity >= 2
    BY DEF NoFlapAlerts
  <2>1. /\ k \in 1..Len(history[d][i]) /\ Len(history[d][i]) \in Nat
        /\ Judged(history[d][i], k - 1, history[d][i][k])
    BY JudgedRow
  <2>2. history[d][i][k].severity >= 2 /\ Severe(history[d][i], k - 1)
    BY <2>1 DEF Judged
  <2>3. CASE j = k
    BY <2>2, <2>3
  <2>4. CASE j # k
    <3>1. j \in 1..(k - 1) /\ j + Threshold > (k - 1) + 1
      BY <2>1, <2>4, BlacklistAssumption
    <3>. QED
      BY <2>2, <3>1 DEF Severe
  <2>. QED
    BY <2>3, <2>4
<1>. QED
  BY <1>1, ScanHolds, JudgedHolds, PTL

\* When scans do not overlap, no persistent rise to a severe listing goes
\* without an alert, except within the cooldown of an earlier one.
THEOREM RisesAreReported == OneScanner => (BlSpec => []RisesAreAlerted)
<1>. SUFFICES ASSUME OneScanner PROVE BlSpec => []RisesAreAlerted
  OBVIOUS
<1>1. ScanInv /\ JudgedInv => RisesAreAlerted
  <2>. SUFFICES ASSUME ScanInv, JudgedInv, NEW d \in Domains, NEW i \in Targets[d],
                       NEW k \in DOMAIN history[d][i],
                       history[d][i][k].severity > IF k = 1 THEN 0 ELSE history[d][i][k - 1].severity,
                       \A j \in 1..k : j + Threshold > k => history[d][i][j].severity >= 2
                PROVE  Alerted(history[d][i], k, "listed")
    BY DEF RisesAreAlerted
  <2>1. /\ k \in 1..Len(history[d][i]) /\ Len(history[d][i]) \in Nat /\ history[d][i][k] \in Check
        /\ Judged(history[d][i], k - 1, history[d][i][k])
    BY JudgedRow
  <2>. DEFINE rows == history[d][i]
  <2>2. Threshold \in Nat \ {0} /\ Cooldown \in Nat
    BY BlacklistAssumption
  <2>. HIDE DEF rows
  <2>a. k \in Nat \ {0} /\ \A j \in 1..k : j + Threshold > k => rows[j].severity >= 2
    BY <2>1 DEF rows
  <2>3. rows[k].severity >= 2 /\ Severe(rows, k - 1)
    <3>1. k \in 1..k /\ k + Threshold > k
      BY <2>2, <2>a
    <3>2. \A j \in 1..(k - 1) : j \in 1..k /\ (j + Threshold > (k - 1) + 1 => j + Threshold > k)
      BY <2>2, <2>a
    <3>. QED
      BY <2>a, <3>1, <3>2 DEF Severe
  <2>. USE DEF rows
  <2>4. rows[k].severity > Before(rows, k - 1)
    BY <2>1 DEF Before
  <2>5. \/ rows[k].event = "listed"
        \/ \E j \in 1..(k - 1) : rows[j].event = "listed" /\ rows[j].at + Cooldown >= rows[k].at
    BY <2>1, <2>3, <2>4 DEF Judged
  <2>6. CASE rows[k].event = "listed"
    BY <2>1, <2>2, <2>6 DEF Alerted, Check
  <2>7. CASE \E j \in 1..(k - 1) : rows[j].event = "listed" /\ rows[j].at + Cooldown >= rows[k].at
    BY <2>1, <2>7 DEF Alerted
  <2>. QED
    BY <2>5, <2>6, <2>7
<1>. QED
  BY <1>1, ScanHolds, JudgedHolds, PTL
============================================================================
