----------------------------- MODULE PureProofs -----------------------------
(***************************************************************************)
(* Theorems about what the service computes: who gets a mail (Notify), the *)
(* class of a source (Insight), and the settings in force (EnvFile).       *)
(***************************************************************************)
EXTENDS EnvFile, Notify, Insight, MailScore, TLAPS, FiniteSetTheorems, WellFoundedInduction

(* Notify: the row of a user is none or has hours of the day.              *)

PrefRow == [events : [Events -> BOOLEAN], start : (0..23) \cup {Nothing}, end : (0..23) \cup {Nothing}]

PrefInv ==
  /\ pref \in [Users -> PrefRow \cup {Nothing}]
  /\ hour \in 0..23

LEMMA RowsAreRows ==
  /\ ColumnDefaults \in PrefRow
  /\ \A h : HourOrNone(h) \in (0..23) \cup {Nothing}
<1>1. ColumnDefaults.events \in [Events -> BOOLEAN]
  BY Zenon DEF ColumnDefaults
<1>2. ColumnDefaults \in PrefRow
  BY <1>1 DEF ColumnDefaults, PrefRow
<1>. QED
  BY <1>2 DEF HourOrNone

LEMMA PrefStep == PrefInv /\ [NotifyNext]_notifyVars => PrefInv'
<1>. SUFFICES ASSUME PrefInv, [NotifyNext]_notifyVars PROVE PrefInv'
  OBVIOUS
<1>1. ASSUME NEW u \in Users, OpenPage(u) PROVE PrefInv'
  BY <1>1, RowsAreRows DEF OpenPage, PrefInv
<1>2. ASSUME NEW u \in Users, SavePrefs(u) PROVE PrefInv'
  <2>1. PICK ev \in [Events -> BOOLEAN], s \in Entered, e \in Entered :
          pref' = [pref EXCEPT ![u] = [events |-> ev, start |-> HourOrNone(s), end |-> HourOrNone(e)]]
    BY <1>2 DEF SavePrefs
  <2>2. HourOrNone(s) \in (0..23) \cup {Nothing} /\ HourOrNone(e) \in (0..23) \cup {Nothing}
    BY RowsAreRows
  <2>3. [events |-> ev, start |-> HourOrNone(s), end |-> HourOrNone(e)] \in PrefRow
    BY <2>2 DEF PrefRow
  <2>. QED
    BY <1>2, <2>1, <2>3 DEF SavePrefs, PrefInv
<1>3. CASE HourPasses
  BY <1>3 DEF HourPasses, PrefInv
<1>4. CASE UNCHANGED notifyVars
  BY <1>4 DEF notifyVars, PrefInv
<1>. QED
  BY <1>1, <1>2, <1>3, <1>4 DEF NotifyNext

\* A difference of hours around the clock.
LEMMA AroundTheClock ==
  ASSUME NEW a \in 0..23, NEW b \in 0..23
  PROVE  (a - b) % 24 = IF b <= a THEN a - b ELSE (a - b) + 24
OBVIOUS

LEMMA WithinWindow ==
  ASSUME NEW s \in 0..23, NEW e \in 0..23, NEW h \in 0..23
  PROVE  (h - s) % 24 < (e - s) % 24 <=> IF s <= e THEN s <= h /\ h < e ELSE h >= s \/ h < e
<1>1. (h - s) % 24 = IF s <= h THEN h - s ELSE (h - s) + 24
  BY AroundTheClock
<1>2. (e - s) % 24 = IF s <= e THEN e - s ELSE (e - s) + 24
  BY AroundTheClock
<1>. QED
  BY <1>1, <1>2

LEMMA QuietIsAsleep ==
  ASSUME PrefInv, NEW u \in Users
  PROVE  IsQuietHour(u) <=> Asleep(u)
<1>1. CASE pref[u] = Nothing \/ pref[u].start = Nothing \/ pref[u].end = Nothing
  BY <1>1 DEF IsQuietHour, Asleep
<1>2. CASE pref[u] # Nothing /\ pref[u].start # Nothing /\ pref[u].end # Nothing
  <2>1. pref[u].start \in 0..23 /\ pref[u].end \in 0..23 /\ hour \in 0..23
    BY <1>2 DEF PrefInv, PrefRow
  <2>2. (hour - pref[u].start) % 24 < (pref[u].end - pref[u].start) % 24 <=>
          IF pref[u].start <= pref[u].end THEN pref[u].start <= hour /\ hour < pref[u].end
          ELSE hour >= pref[u].start \/ hour < pref[u].end
    BY <2>1, WithinWindow
  <2>. QED
    BY <1>2, <2>2 DEF IsQuietHour, Asleep
<1>. QED
  BY <1>1, <1>2

\* Notify.ChoicesAreKept (recipients_for, _is_quiet_hour, get_preference): quiet
\* hours hold around the clock and only they hold back a mail that is wanted;
\* looking at the page changes nothing.
THEOREM ChoicesAlwaysKept == NotifySpec => ChoicesAreKept
<1>1. NotifyInit => PrefInv
  BY DEF NotifyInit, PrefInv
<1>2. PrefInv => QuietIsQuiet
  <2>. SUFFICES ASSUME PrefInv, NEW u \in Users
                PROVE  /\ Asleep(u) => \A e \in Events : u \notin RecipientsFor(e)
                       /\ ~Asleep(u) /\ pref[u] # Nothing /\ pref[u].events["blacklist_alerts"] =>
                            u \in RecipientsFor("blacklist_alerts")
    BY DEF QuietIsQuiet
  <2>1. IsQuietHour(u) <=> Asleep(u)
    BY QuietIsAsleep
  <2>2. "blacklist_alerts" \notin AdminOnly
    BY DEF AdminOnly
  <2>. QED
    BY <2>1, <2>2, Zenon DEF RecipientsFor, Wants
<1>3. ASSUME PrefInv, [NotifyNext]_notifyVars, NEW u \in Users, pref[u] = Nothing, OpenPage(u),
             NEW e \in Events
      PROVE  RecipientsFor(e) = RecipientsFor(e)'
  <2>1. pref' = [pref EXCEPT ![u] = ColumnDefaults] /\ hour' = hour
    BY <1>3 DEF OpenPage
  <2>2. pref'[u] = ColumnDefaults /\ \A v \in Users \ {u} : pref'[v] = pref[v]
    BY <1>3, <2>1 DEF PrefInv
  <2>3. ~IsQuietHour(u) /\ ~IsQuietHour(u)'
    BY <1>3, <2>2 DEF IsQuietHour, ColumnDefaults
  <2>4. Wants(u, e) <=> WantedByDefault[e]
    BY <1>3, Zenon DEF Wants
  <2>5. Wants(u, e)' <=> WantedByDefault[e]
    <3>1. ColumnDefaults.events = WantedByDefault
      BY DEF ColumnDefaults, WantedByDefault
    <3>2. Wants(u, e)' <=> IF ColumnDefaults = Nothing THEN WantedByDefault[e] ELSE WantedByDefault[e]
      BY <2>2, <3>1, Zenon DEF Wants
    <3>. QED
      BY <3>2, Zenon
  <2>6. \A v \in Users : (Wants(v, e) <=> Wants(v, e)') /\ (IsQuietHour(v) <=> IsQuietHour(v)')
    <3>1. \A v \in Users \ {u} : (Wants(v, e) <=> Wants(v, e)') /\ (IsQuietHour(v) <=> IsQuietHour(v)')
      BY <2>1, <2>2, Zenon DEF Wants, IsQuietHour
    <3>. QED
      BY <2>3, <2>4, <2>5, <3>1, Zenon
  <2>. QED
    BY <2>6, Zenon DEF RecipientsFor
<1>4. PrefInv /\ [NotifyNext]_notifyVars =>
        [\A u \in Users : pref[u] = Nothing /\ OpenPage(u) =>
           \A e \in Events : RecipientsFor(e) = RecipientsFor(e)']_notifyVars
  BY <1>3
<1>. QED
  BY <1>1, <1>2, <1>4, PrefStep, PTL DEF NotifySpec, ChoicesAreKept, LookingChangesNothing


----------------------------------------------------------------------------
(* Insight: the classes of sources, by messages passed and failed.         *)

SourceInv == /\ source.pass \in Nat /\ source.fail \in Nat
             /\ source = [pass |-> source.pass, fail |-> source.fail, host |-> source.host]

\* The conditions of Guess without their order.
Looks(p, f) == p + f >= 10 /\ 100 * p >= 80 * (p + f)
LooksBad(p, f) == p + f >= 5 /\ ~(100 * p >= 30 * (p + f))

GuessRank(p, f) == IF Looks(p, f) THEN 0 ELSE IF LooksBad(p, f) THEN 2 ELSE 1

LEMMA GuessIs ==
  ASSUME NEW s, s.pass \in Nat, s.fail \in Nat
  PROVE  /\ Looks(s.pass, s.fail) => Guess(s) \in {"presumably legitimate", "likely legitimate"}
         /\ LooksBad(s.pass, s.fail) => Guess(s) \in {"spoofer", "check"}
         /\ ~Looks(s.pass, s.fail) /\ ~LooksBad(s.pass, s.fail) => Guess(s) \in {"forwarder", "unknown"}
<1>. PICK p \in Nat, f \in Nat : p = s.pass /\ f = s.fail
  OBVIOUS
<1>1. p + f >= 100 /\ 100 * p >= 95 * (p + f) => Looks(p, f)
  BY DEF Looks
<1>2. Looks(p, f) => ~LooksBad(p, f)
  BY DEF Looks, LooksBad
<1>3. ASSUME Looks(p, f) PROVE Guess(s) \in {"presumably legitimate", "likely legitimate"}
  <2>1. CASE p + f >= 100 /\ 100 * p >= 95 * (p + f)
    BY <1>2, <1>3, <2>1 DEF Guess, Looks, LooksBad
  <2>2. CASE ~(p + f >= 100 /\ 100 * p >= 95 * (p + f))
    <3>1. /\ s.pass + s.fail >= 10 /\ 100 * s.pass >= 80 * (s.pass + s.fail)
          /\ ~(s.pass + s.fail >= 100 /\ 100 * s.pass >= 95 * (s.pass + s.fail))
          /\ ~(s.pass + s.fail >= 5 /\ ~(100 * s.pass >= 30 * (s.pass + s.fail)))
      BY <1>2, <1>3, <2>2 DEF Looks, LooksBad
    <3>2. Guess(s) = "likely legitimate"
      BY <3>1, ZenonT(30) DEF Guess
    <3>. QED
      BY <3>2
  <2>. QED
    BY <2>1, <2>2
<1>4. ASSUME LooksBad(p, f) PROVE Guess(s) \in {"spoofer", "check"}
  BY <1>1, <1>2, <1>4 DEF Guess, Looks, LooksBad
<1>5. ASSUME ~Looks(p, f), ~LooksBad(p, f) PROVE Guess(s) \in {"forwarder", "unknown"}
  BY <1>1, <1>5 DEF Guess, Looks, LooksBad
<1>. QED
  BY <1>3, <1>4, <1>5

\* The rank of a source, by what its host is.
SourceRank(s) ==
  IF s.host = "own" THEN 0
  ELSE IF s.host = "provider" THEN (IF 2 * s.pass < s.pass + s.fail /\ s.pass + s.fail > 10 THEN 1 ELSE 0)
  ELSE GuessRank(s.pass, s.fail)

LEMMA RankIs ==
  ASSUME NEW s, s.pass \in Nat, s.fail \in Nat
  PROVE  Rank(s) = SourceRank(s)
<1>1. CASE s.host = "own"
  BY <1>1 DEF Rank, Classify, SourceRank
<1>2. CASE s.host = "provider" /\ 2 * s.pass < s.pass + s.fail /\ s.pass + s.fail > 10
  BY <1>2 DEF Rank, Classify, SourceRank
<1>3. CASE s.host = "provider" /\ ~(2 * s.pass < s.pass + s.fail /\ s.pass + s.fail > 10)
  BY <1>3 DEF Rank, Classify, SourceRank
<1>4. CASE s.host \notin {"own", "provider"}
  <2>1. Classify(s) = Guess(s)
    BY <1>4 DEF Classify
  <2>2. CASE Looks(s.pass, s.fail)
    <3>1. Guess(s) \in {"presumably legitimate", "likely legitimate"}
      BY <2>2, GuessIs
    <3>. QED
      BY <1>4, <2>1, <2>2, <3>1 DEF Rank, SourceRank, GuessRank
  <2>3. CASE LooksBad(s.pass, s.fail)
    <3>1. Guess(s) \in {"spoofer", "check"} /\ ~Looks(s.pass, s.fail)
      BY <2>3, GuessIs DEF Looks, LooksBad
    <3>. QED
      BY <1>4, <2>1, <2>3, <3>1 DEF Rank, SourceRank, GuessRank
  <2>4. CASE ~Looks(s.pass, s.fail) /\ ~LooksBad(s.pass, s.fail)
    <3>1. Guess(s) \in {"forwarder", "unknown"}
      BY <2>4, GuessIs
    <3>. QED
      BY <1>4, <2>1, <2>4, <3>1 DEF Rank, SourceRank, GuessRank
  <2>. QED
    BY <2>2, <2>3, <2>4
<1>. QED
  BY <1>1, <1>2, <1>3, <1>4

\* A message that fails instead of passing.
LEMMA RankWorsens ==
  ASSUME NEW s, NEW t, s.pass \in Nat \ {0}, s.fail \in Nat,
         t.pass = s.pass - 1, t.fail = s.fail + 1, t.host = s.host
  PROVE  Rank(t) >= Rank(s)
<1>. PICK p \in Nat \ {0}, f \in Nat : p = s.pass /\ f = s.fail
  OBVIOUS
<1>1. Rank(s) = SourceRank(s) /\ Rank(t) = SourceRank(t)
  BY RankIs
<1>2. GuessRank(p - 1, f + 1) >= GuessRank(p, f)
  <2>1. Looks(p - 1, f + 1) => Looks(p, f)
    BY DEF Looks
  <2>2. LooksBad(p, f) => LooksBad(p - 1, f + 1) /\ ~Looks(p - 1, f + 1)
    BY DEF Looks, LooksBad
  <2>. QED
    BY <2>1, <2>2 DEF GuessRank
<1>3. 2 * p < p + f /\ p + f > 10 => 2 * (p - 1) < (p - 1) + (f + 1) /\ (p - 1) + (f + 1) > 10
  OBVIOUS
<1>. QED
  BY <1>1, <1>2, <1>3 DEF SourceRank

LEMMA SourceStep ==
  ASSUME SourceInv, [ReportNext \/ SourceNext]_<<statVars, insightVars>>
  PROVE  SourceInv' /\ (source'.pass < source.pass => Rank(source') >= Rank(source))
<1>1. CASE source' = source
  BY <1>1 DEF SourceInv
<1>2. CASE Sends
  <2>1. source' = [source EXCEPT !.fail = source.fail + 1]
    BY <1>2 DEF Sends
  <2>2. source'.pass = source.pass /\ source'.fail = source.fail + 1 /\ source'.host = source.host
    BY <2>1 DEF SourceInv
  <2>3. source' = [pass |-> source'.pass, fail |-> source'.fail, host |-> source'.host]
    BY <2>1 DEF SourceInv
  <2>. QED
    BY <2>2, <2>3 DEF SourceInv
<1>3. CASE Worsens
  <2>1. source' = [source EXCEPT !.pass = source.pass - 1, !.fail = source.fail + 1] /\ source.pass > 0
    BY <1>3 DEF Worsens
  <2>2. /\ source'.pass = source.pass - 1 /\ source'.fail = source.fail + 1
        /\ source'.host = source.host
    BY <2>1 DEF SourceInv
  <2>3. source' = [pass |-> source'.pass, fail |-> source'.fail, host |-> source'.host]
    BY <2>1 DEF SourceInv
  <2>4. source.pass \in Nat \ {0} /\ source.fail \in Nat
    BY <2>1 DEF SourceInv
  <2>. QED
    BY <2>2, <2>3, <2>4, RankWorsens DEF SourceInv
<1>. QED
  BY <1>1, <1>2, <1>3 DEF ReportNext, SourceNext, Import, insightVars

\* Insight.FailuresNeverHelp (classify_source): a message that fails instead of
\* passing never gives its source a better class.
THEOREM FailuresNeverHelpSources == InsightSpec => FailuresNeverHelp
<1>1. InsightInit => SourceInv
  <2>. SUFFICES ASSUME InsightInit PROVE SourceInv
    OBVIOUS
  <2>1. source \in [pass : {0, 4, 9, 60, MaxSource}, fail : {0}, host : {"unknown", "provider", "own"}]
    BY DEF InsightInit
  <2>. QED
    BY <2>1, InsightAssumption DEF SourceInv
<1>2. SourceInv /\ [ReportNext \/ SourceNext]_<<statVars, insightVars>> =>
        SourceInv' /\ [source'.pass < source.pass => Rank(source') >= Rank(source)]_source
  BY SourceStep
<1>. QED
  BY <1>1, <1>2, PTL DEF InsightSpec, FailuresNeverHelp


----------------------------------------------------------------------------
(* EnvFile: what the panel shows of a file, before and after a save.       *)

IsSeq(f) == \E T : f \in Seq(T)

\* The line that counts for a key, and a file that says one thing of it only.
CountsFor(f, k, i) == i \in DOMAIN f /\ f[i].key = k /\ \A j \in DOMAIN f : f[j].key = k => j <= i
Says(f, k, t) == /\ \E i \in DOMAIN f : f[i].key = k
                 /\ \A i \in DOMAIN f : f[i].key = k => f[i] = Line(k, t)

LEMMA LastTextIs ==
  ASSUME NEW f, IsSeq(f), NEW k, k # Unset, NEW i, CountsFor(f, k, i)
  PROVE  LastText(f, k) = f[i].val
<1>1. PICK T : f \in Seq(T)
  BY DEF IsSeq
<1>2. DOMAIN f \subseteq Nat
  BY <1>1
<1>3. i \in Pairs(f) /\ k \in {f[j].key : j \in Pairs(f)}
  BY DEF CountsFor, Pairs
<1>. DEFINE Q(x) == x \in Pairs(f) /\ f[x].key = k /\ \A j \in Pairs(f) : f[j].key = k => j <= x
<1>4. Q(i)
  BY <1>3 DEF CountsFor, Pairs
<1>5. \A x : Q(x) => x = i
  <2>. SUFFICES ASSUME NEW x, Q(x) PROVE x = i
    OBVIOUS
  <2>1. x <= i /\ i <= x /\ x \in Nat /\ i \in Nat
    BY <1>2, <1>3 DEF CountsFor, Pairs
  <2>. QED
    BY <2>1
<1>6. (CHOOSE x \in Pairs(f) : f[x].key = k /\ \A j \in Pairs(f) : f[j].key = k => j <= x) = i
  <2>1. (CHOOSE x : Q(x)) = i
    <3>. HIDE DEF Q
    <3>. QED
      BY <1>4, <1>5
  <2>. QED
    BY <2>1
<1>. QED
  BY <1>3, <1>6 DEF LastText

LEMMA NoText ==
  ASSUME NEW f, NEW k, \A i \in DOMAIN f : f[i].key # k
  PROVE  LastText(f, k) = Empty
BY DEF LastText, Pairs

\* The panel shows the text that counts, without its quotes.
LEMMA ShownIs ==
  ASSUME NEW f, NEW k
  PROVE  Shown(f, k) = Unquoted(LastText(f, k))
<1>1. Unquoted(Empty) = Empty
  BY DEF Unquoted, Empty, Plain, Text
<1>. QED
  BY <1>1 DEF Shown, ReadEnv, LastText

\* A set of line numbers has a last one.
LEMMA LastLine ==
  ASSUME NEW n \in Nat, NEW S \in SUBSET (1..n), S # {}
  PROVE  \E i \in S : \A j \in S : j <= i
<1>. DEFINE R == {ss \in Nat \X Nat : ss[1] < ss[2]}
            T == {n - j : j \in S}
<1>1. IsWellFoundedOn(R, Nat)
  BY NatLessThanWellFounded DEF OpToRel
<1>2. \A a, b \in Nat : a < b => <<a, b>> \in R
  OBVIOUS
<1>3. T \subseteq Nat /\ T # {}
  <2>1. \A j \in S : n - j \in Nat
    OBVIOUS
  <2>2. \E j \in S : n - j \in T
    OBVIOUS
  <2>. QED
    BY <2>1, <2>2
<1>. HIDE DEF R, T
<1>4. PICK m \in T : \A v \in T : <<v, m>> \notin R
  BY <1>1, <1>3, WFMin
<1>5. \A v \in T : ~(v < m)
  BY <1>2, <1>3, <1>4
<1>6. PICK i \in S : m = n - i
  BY DEF T
<1>7. \A j \in S : ~(n - j < n - i)
  BY <1>5, <1>6 DEF T
<1>. QED
  BY <1>7

LEMMA SomeLineCounts ==
  ASSUME NEW f, IsSeq(f), NEW k, NEW j \in DOMAIN f, f[j].key = k
  PROVE  \E i : CountsFor(f, k, i)
<1>1. PICK T : f \in Seq(T)
  BY DEF IsSeq
<1>. DEFINE S == {i \in DOMAIN f : f[i].key = k}
<1>2. S \in SUBSET (1..Len(f)) /\ Len(f) \in Nat /\ S # {}
  BY <1>1
<1>. HIDE DEF S
<1>3. PICK i \in S : \A m \in S : m <= i
  BY <1>2, LastLine
<1>. QED
  BY <1>3 DEF S, CountsFor

LEMMA SaidCounts ==
  ASSUME NEW f, IsSeq(f), NEW k, k # Unset, NEW t, Says(f, k, t)
  PROVE  LastText(f, k) = t
<1>1. PICK i : CountsFor(f, k, i)
  BY SomeLineCounts DEF Says
<1>2. f[i].val = t
  BY <1>1 DEF Says, CountsFor, Line
<1>. QED
  BY <1>1, <1>2, LastTextIs


\* SetToSeq lists a finite set, whatever order it chooses.
LEMMA ListOfSet ==
  ASSUME NEW S, IsFiniteSet(S)
  PROVE  /\ SetToSeq(S) \in Seq(S)
         /\ \A x \in S : \E i \in DOMAIN SetToSeq(S) : SetToSeq(S)[i] = x
<1>. DEFINE n == Cardinality(S)
            F == [1..n -> S]
<1>1. n \in Nat /\ ExistsBijection(1..n, S)
  BY FS_CardinalityType
<1>. HIDE DEF n
<1>2. PICK g : g \in Bijection(1..n, S)
  BY <1>1 DEF ExistsBijection
<1>3. g \in F /\ IsInjective(g)
  BY <1>2 DEF Bijection, Injection
<1>4. SetToSeq(S) = CHOOSE f \in F : IsInjective(f)
  BY DEF SetToSeq, n
<1>5. SetToSeq(S) \in F /\ IsInjective(SetToSeq(S))
  <2>. HIDE DEF F
  <2>. QED
    BY <1>3, <1>4
<1>. PICK f : f = SetToSeq(S)
  OBVIOUS
<1>6. f \in Injection(1..n, S)
  BY <1>5 DEF Injection
<1>7. f \in Surjection(1..n, S)
  <2>1. IsFiniteSet(1..n) /\ Cardinality(1..n) = n
    BY <1>1, FS_Interval
  <2>2. Cardinality(1..n) = Cardinality(S)
    BY <2>1 DEF n
  <2>. QED
    BY <1>6, <2>2, FS_Injection
<1>8. f \in Seq(S)
  BY <1>1, <1>5
<1>9. \A x \in S : \E i \in 1..n : f[i] = x
  BY <1>7 DEF Surjection
<1>. QED
  BY <1>5, <1>8, <1>9

\* The lines that write_env adds.
Added(f, u) == {Line(k, u[k]) : k \in Missing(f, u)}

LEMMA AddedIsFinite ==
  ASSUME NEW f, NEW u, DOMAIN u \subseteq Keys
  PROVE  IsFiniteSet(Added(f, u))
<1>. DEFINE M == Missing(f, u)
            g == [k \in M |-> Line(k, u[k])]
<1>1. IsFiniteSet(M)
  <2>1. M \in SUBSET Keys
    BY DEF Missing
  <2>. QED
    BY <2>1, FS_Subset, EnvAssumption
<1>2. g \in Surjection(M, Added(f, u))
  BY DEF Surjection, Added
<1>. HIDE DEF M, g
<1>. QED
  BY <1>1, <1>2, FS_Surjection


\* r is p with q behind it, as far as it matters here.
Extends(r, p, q) ==
  /\ \A i \in DOMAIN p : i \in DOMAIN r /\ r[i] = p[i]
  /\ \A i \in DOMAIN r \ DOMAIN p : \E j \in DOMAIN q : r[i] = q[j]
  /\ \A j \in DOMAIN q : \E i \in DOMAIN r : r[i] = q[j]

LEMMA Concatenated ==
  ASSUME NEW S, NEW p \in Seq(S), NEW q \in Seq(S), NEW r, r = p \o q
  PROVE  r \in Seq(S) /\ Extends(r, p, q)
<1>1. /\ r \in Seq(S)
      /\ \A i \in DOMAIN p : i \in DOMAIN r /\ r[i] = p[i]
  OBVIOUS
<1>2. ASSUME NEW i \in DOMAIN r \ DOMAIN p PROVE \E j \in DOMAIN q : r[i] = q[j]
  <2>1. i - Len(p) \in DOMAIN q /\ r[i] = q[i - Len(p)]
    OBVIOUS
  <2>. QED
    BY <2>1
<1>3. ASSUME NEW j \in DOMAIN q PROVE \E i \in DOMAIN r : r[i] = q[j]
  <2>1. Len(p) + j \in DOMAIN r /\ r[Len(p) + j] = q[j]
    OBVIOUS
  <2>. QED
    BY <2>1
<1>. QED
  BY <1>1, <1>2, <1>3 DEF Extends

\* write_env: the lines stay in place, with new values; the others follow.
LEMMA RewrittenIs ==
  ASSUME NEW f, IsSeq(f), NEW u, DOMAIN u \subseteq Keys
  PROVE  /\ IsSeq(Rewritten(f, u))
         /\ \A i \in DOMAIN f : i \in DOMAIN Rewritten(f, u) /\ Rewritten(f, u)[i] = Replaced(f, u)[i]
         /\ \A i \in DOMAIN Rewritten(f, u) \ DOMAIN f :
              Rewritten(f, u)[i] = Blank \/ Rewritten(f, u)[i] \in Added(f, u)
         /\ \A x \in Added(f, u) : \E i \in DOMAIN Rewritten(f, u) : Rewritten(f, u)[i] = x
<1>. DEFINE kept == Replaced(f, u)
            gap == IF kept # <<>> /\ Last(kept) # Blank THEN <<Blank>> ELSE <<>>
            A == Added(f, u)
            tail == SetToSeq(A)
<1>1. PICK T : f \in Seq(T)
  BY DEF IsSeq
<1>. DEFINE S == T \cup {Line(k, u[k]) : k \in DOMAIN u} \cup {Blank} \cup A
<1>2. kept \in Seq(S) /\ DOMAIN kept = DOMAIN f
  <2>1. kept = [i \in 1..Len(f) |-> kept[i]] /\ Len(f) \in Nat /\ DOMAIN f = 1..Len(f)
    BY <1>1 DEF Replaced
  <2>2. \A i \in 1..Len(f) : kept[i] \in S
    BY <1>1 DEF Replaced
  <2>. HIDE DEF kept, S
  <2>. QED
    BY <2>1, <2>2
<1>3. gap \in Seq(S) /\ \A i \in DOMAIN gap : gap[i] = Blank
  <2>1. <<Blank>> \in Seq(S) /\ <<>> \in Seq(S)
    OBVIOUS
  <2>2. \A i \in DOMAIN <<Blank>> : <<Blank>>[i] = Blank
    OBVIOUS
  <2>3. \A i \in DOMAIN <<>> : <<>>[i] = Blank
    OBVIOUS
  <2>. HIDE DEF kept, S
  <2>. QED
    BY <2>1, <2>2, <2>3
<1>4. /\ tail \in Seq(A) /\ \A x \in A : \E i \in DOMAIN tail : tail[i] = x
  BY AddedIsFinite, ListOfSet
<1>5. tail \in Seq(S) /\ \A i \in DOMAIN tail : tail[i] \in A
  <2>. HIDE DEF tail, A
  <2>. QED
    BY <1>4
<1>6. CASE Missing(f, u) = {}
  <2>1. Rewritten(f, u) = kept /\ A = {}
    BY <1>6 DEF Rewritten, Added
  <2>2. Added(f, u) = {}
    BY <2>1
  <2>. HIDE DEF kept, A, S
  <2>3. IsSeq(kept)
    BY <1>2 DEF IsSeq
  <2>4. \A i \in DOMAIN f : i \in DOMAIN kept /\ kept[i] = Replaced(f, u)[i]
    BY <1>2 DEF kept
  <2>. QED
    BY <1>2, <2>1, <2>2, <2>3, <2>4
<1>7. CASE Missing(f, u) # {}
  <2>1. Rewritten(f, u) = (kept \o gap) \o tail
    BY <1>7 DEF Rewritten, Added
  <2>. HIDE DEF kept, gap, tail, S, A
  <2>7. PICK h : h = kept \o gap
    OBVIOUS
  <2>8. PICK r : r = Rewritten(f, u) /\ r = h \o tail
    BY <2>1, <2>7
  <2>2. /\ h \in Seq(S)
        /\ \A i \in DOMAIN kept : i \in DOMAIN h /\ h[i] = kept[i]
        /\ \A i \in DOMAIN h \ DOMAIN kept : h[i] = Blank
    <3>1. kept \in Seq(S) /\ gap \in Seq(S) /\ h = kept \o gap
      BY <1>2, <1>3, <2>7
    <3>2. h \in Seq(S) /\ Extends(h, kept, gap)
      BY <3>1, Concatenated
    <3>. QED
      BY <1>3, <3>2 DEF Extends
  <2>3. /\ r \in Seq(S)
        /\ \A i \in DOMAIN h : i \in DOMAIN r /\ r[i] = h[i]
        /\ \A i \in DOMAIN r \ DOMAIN h : \E j \in DOMAIN tail : r[i] = tail[j]
        /\ \A j \in DOMAIN tail : \E i \in DOMAIN r : r[i] = tail[j]
    <3>1. h \in Seq(S) /\ tail \in Seq(S) /\ r = h \o tail
      BY <1>5, <2>2, <2>8
    <3>2. r \in Seq(S) /\ Extends(r, h, tail)
      BY <3>1, Concatenated
    <3>. QED
      BY <3>2 DEF Extends
  <2>4. \A i \in DOMAIN f : i \in DOMAIN r /\ r[i] = kept[i]
    BY <1>2, <2>2, <2>3
  <2>5. \A i \in DOMAIN r \ DOMAIN f : r[i] = Blank \/ r[i] \in A
    BY <1>2, <1>5, <2>2, <2>3
  <2>6. \A x \in A : \E i \in DOMAIN r : r[i] = x
    <3>1. ASSUME NEW x \in A PROVE \E i \in DOMAIN r : r[i] = x
      <4>1. PICK j \in DOMAIN tail : tail[j] = x
        BY <1>4
      <4>. QED
        BY <2>3, <4>1
    <3>. QED
      BY <3>1
  <2>. QED
    <3>1. IsSeq(r)
      BY <2>3 DEF IsSeq
    <3>. QED
      BY <2>4, <2>5, <2>6, <2>8, <3>1 DEF kept, A
<1>. QED
  BY <1>6, <1>7


\* After a save the file says of a key what was sent, and of the others what it
\* said before.
LEMMA SentIsSaid ==
  ASSUME NEW f, IsSeq(f), NEW u, DOMAIN u \subseteq Keys, NEW k \in DOMAIN u
  PROVE  Says(Rewritten(f, u), k, u[k])
<1>. PICK r : r = Rewritten(f, u)
  OBVIOUS
<1>1. /\ \A i \in DOMAIN f : i \in DOMAIN r /\ r[i] = Replaced(f, u)[i]
      /\ \A i \in DOMAIN r \ DOMAIN f : r[i] = Blank \/ r[i] \in Added(f, u)
      /\ \A x \in Added(f, u) : \E i \in DOMAIN r : r[i] = x
  BY RewrittenIs
<1>2. k # Unset
  BY EnvAssumption
<1>3. ASSUME NEW i \in DOMAIN r, r[i].key = k PROVE r[i] = Line(k, u[k])
  <2>1. CASE i \in DOMAIN f
    <3>1. r[i] = IF f[i].key \in DOMAIN u THEN Line(f[i].key, u[f[i].key]) ELSE f[i]
      BY <1>1, <2>1 DEF Replaced
    <3>. QED
      BY <1>3, <3>1 DEF Line
  <2>2. CASE i \notin DOMAIN f
    <3>1. r[i] \in Added(f, u)
      BY <1>1, <1>2, <1>3, <2>2 DEF Blank
    <3>2. PICK m \in Missing(f, u) : r[i] = Line(m, u[m])
      BY <3>1 DEF Added
    <3>. QED
      BY <1>3, <3>2 DEF Line
  <2>. QED
    BY <2>1, <2>2
<1>4. \E i \in DOMAIN r : r[i].key = k
  <2>1. CASE k \in Missing(f, u)
    <3>1. Line(k, u[k]) \in Added(f, u)
      BY <2>1 DEF Added
    <3>. QED
      BY <1>1, <3>1 DEF Line
  <2>2. CASE k \notin Missing(f, u)
    <3>1. PICK i \in DOMAIN f : f[i].key = k
      BY <2>2 DEF Missing
    <3>2. r[i] = Line(k, u[k])
      BY <1>1, <3>1 DEF Replaced
    <3>. QED
      BY <1>1, <3>1, <3>2 DEF Line
  <2>. QED
    BY <2>1, <2>2
<1>. QED
  BY <1>3, <1>4 DEF Says

LEMMA OthersStay ==
  ASSUME NEW f, IsSeq(f), NEW u, DOMAIN u \subseteq Keys, NEW k \in Keys \ DOMAIN u
  PROVE  LastText(Rewritten(f, u), k) = LastText(f, k)
<1>. PICK r : r = Rewritten(f, u)
  OBVIOUS
<1>1. /\ IsSeq(r)
      /\ \A i \in DOMAIN f : i \in DOMAIN r /\ r[i] = Replaced(f, u)[i]
      /\ \A i \in DOMAIN r \ DOMAIN f : r[i] = Blank \/ r[i] \in Added(f, u)
  BY RewrittenIs
<1>2. k # Unset
  BY EnvAssumption
<1>3. \A i \in DOMAIN r \ DOMAIN f : r[i].key # k
  <2>1. Blank.key # k
    BY <1>2 DEF Blank
  <2>2. \A x \in Added(f, u) : x.key # k
    BY DEF Added, Missing, Line
  <2>. QED
    BY <1>1, <2>1, <2>2
<1>4. \A i \in DOMAIN f : r[i].key = k <=> f[i].key = k
  <2>. SUFFICES ASSUME NEW i \in DOMAIN f PROVE r[i].key = f[i].key
    BY Zenon
  <2>1. r[i] = IF f[i].key \in DOMAIN u THEN Line(f[i].key, u[f[i].key]) ELSE f[i]
    BY <1>1 DEF Replaced
  <2>. QED
    BY <2>1 DEF Line
<1>5. \A i \in DOMAIN f : f[i].key = k => r[i] = f[i]
  BY <1>1 DEF Replaced
<1>6. CASE \E j \in DOMAIN f : f[j].key = k
  <2>1. PICK i : CountsFor(f, k, i)
    BY <1>6, SomeLineCounts
  <2>2. CountsFor(r, k, i)
    BY <1>1, <1>3, <1>4, <2>1 DEF CountsFor
  <2>3. LastText(f, k) = f[i].val /\ LastText(r, k) = r[i].val
    BY <1>1, <1>2, <2>1, <2>2, LastTextIs
  <2>. QED
    BY <1>5, <2>1, <2>3 DEF CountsFor
<1>7. CASE ~\E j \in DOMAIN f : f[j].key = k
  <2>1. \A i \in DOMAIN r : r[i].key # k
    BY <1>3, <1>4, <1>7
  <2>. QED
    BY <1>7, <2>1, NoText
<1>. QED
  BY <1>6, <1>7


\* What a form makes of the file.
LEMMA UpdatesAre ==
  ASSUME NEW f \in Forms
  PROVE  /\ DOMAIN Updates(f) \subseteq Keys /\ Updates(f) # Unset
         /\ \A k \in DOMAIN Updates(f) : Updates(f)[k] = f[k] /\ Updates(f)[k] \in Texts
         /\ \A k \in Keys : f[k] # Empty => k \in DOMAIN Updates(f)
         /\ \A k \in Keys : k \in NoEmptyKeys \/ Kind[k] = "number" =>
              (k \in DOMAIN Updates(f) => f[k] # Empty)
<1>. DEFINE K == {k \in Keys : ~Skips(k, f[k])}
<1>1. Updates(f) = [k \in K |-> f[k]] /\ K \in SUBSET Keys
  BY DEF Updates
<1>2. \A k \in Keys : f[k] \in Texts
  BY EnvAssumption
<1>3. Updates(f) \in [K -> Texts]
  BY <1>1, <1>2
<1>4. Updates(f) # Unset
  <2>. HIDE DEF K
  <2>. QED
    BY <1>1, <1>3, EnvAssumption
<1>. QED
  BY <1>1, <1>2, <1>4 DEF Skips

LEMMA FormIsSet == \A f \in Forms : f # Unset
BY EnvAssumption

----------------------------------------------------------------------------
(* The settings in force: what the process has been given is in its        *)
(* environment, what a restart takes from there is in the file, and a      *)
(* thread that reads without a save beside it reads both.                  *)

Pushed(k) == pushing # Unset /\ k \in DOMAIN pushing

FileInv ==
  /\ IsSeq(file)
  /\ form # Unset => form \in Forms /\ \A k \in DOMAIN Updates(form) : Says(file, k, Updates(form)[k])
  /\ pushing # Unset => form # Unset /\ pushing = Updates(form)

\* What an environment must say of a key, and the settings made of it.
EnvSays(env, k) == IF k \in restored THEN env[k] = Unset ELSE env[k] = saved[k]
Promised(k) == saved[k] # Unset /\ ~Pushed(k)

StoreInv ==
  /\ DOMAIN environ = Keys /\ DOMAIN saved = Keys
  /\ \A k \in Keys : saved[k] # Unset =>
       /\ EnvSays(environ, k)
       /\ k \in restored => k \notin DOMAIN ContainerEnv
       /\ k \in DOMAIN ContainerEnv \/ Pushed(k) \/ LastText(file, k) = saved[k]

\* A thread that no save has crossed.
ReaderInv ==
  \A r \in Readers : reader[r] # Unset /\ ~reader[r].crossed =>
    \A k \in Keys : Promised(k) =>
      /\ EnvSays(reader[r].env, k)
      /\ reader[r].got # Unset => reader[r].got[k] = Due(k)

CacheInv ==
  /\ cache # Unset /\ ~crossed => \A k \in Keys : Promised(k) => cache[k] = Due(k)
  /\ pushing # Unset /\ cleared /\ cache # Unset => crossed

ReaderTypeOK ==
  /\ DOMAIN reader = Readers
  /\ \A r \in Readers : reader[r] # Unset =>
       reader[r] = [env |-> reader[r].env, got |-> reader[r].got, crossed |-> reader[r].crossed]

EnvInv == FileInv /\ StoreInv /\ ReaderTypeOK /\ ReaderInv /\ CacheInv

LEMMA EnvStart == EnvInit => EnvInv
<1>. SUFFICES ASSUME EnvInit PROVE EnvInv
  OBVIOUS
<1>1. FileInv
  BY EnvAssumption DEF EnvInit, FileInv, IsSeq
<1>2. StoreInv
  BY DEF EnvInit, StoreInv, StartEnv
<1>3. ReaderTypeOK /\ ReaderInv /\ CacheInv
  BY DEF EnvInit, ReaderTypeOK, ReaderInv, CacheInv
<1>. QED
  BY <1>1, <1>2, <1>3 DEF EnvInv

\* Settings() of a thread whose environment says what it must.
LEMMA ReadIsDue ==
  ASSUME StoreInv, NEW env, NEW k \in Keys, Promised(k), EnvSays(env, k)
  PROVE  Settings(env, file)[k] = Due(k)
<1>1. CASE k \in restored
  <2>1. env[k] = Unset /\ LastText(file, k) = saved[k]
    BY <1>1 DEF StoreInv, Promised, EnvSays
  <2>. QED
    BY <1>1, <2>1 DEF Settings, Due
<1>2. CASE k \notin restored
  BY <1>2 DEF Settings, Due, EnvSays, Promised
<1>. QED
  BY <1>1, <1>2

LEMMA SaveFormKeeps ==
  ASSUME EnvInv, NEW f \in Forms, SaveForm(f)
  PROVE  EnvInv'
<1>. PICK u : u = Updates(f)
  OBVIOUS
<1>1. /\ DOMAIN u \subseteq Keys /\ u # Unset
      /\ \A k \in DOMAIN u : u[k] = f[k] /\ u[k] \in Texts
  BY UpdatesAre
<1>2. /\ file' = Rewritten(file, u) /\ pushing' = u /\ cleared' = FALSE /\ form' = f
      /\ UNCHANGED <<environ, cache, reader, saved, restored, crossed>> /\ pushing = Unset
  BY DEF SaveForm
<1>3. IsSeq(file)
  BY DEF EnvInv, FileInv
<1>4. FileInv'
  <2>1. IsSeq(file')
    BY <1>1, <1>2, <1>3, RewrittenIs
  <2>2. \A k \in DOMAIN u : Says(file', k, u[k])
    <3>. SUFFICES ASSUME NEW k \in DOMAIN u PROVE Says(Rewritten(file, u), k, u[k])
      BY <1>2
    <3>. QED
      BY <1>1, <1>3, SentIsSaid
  <2>3. form' \in Forms /\ Updates(form') = u /\ form' # Unset
    BY <1>2, FormIsSet
  <2>. QED
    BY <1>2, <2>1, <2>2, <2>3 DEF FileInv
<1>5. \A k \in Keys \ DOMAIN u : LastText(file', k) = LastText(file, k)
  BY <1>1, <1>2, <1>3, OthersStay
<1>6. StoreInv'
  <2>1. \A k \in Keys : saved'[k] # Unset =>
          k \in DOMAIN ContainerEnv \/ Pushed(k)' \/ LastText(file', k) = saved'[k]
    BY <1>1, <1>2, <1>5 DEF EnvInv, StoreInv, Pushed
  <2>. QED
    BY <1>2, <2>1 DEF EnvInv, StoreInv, EnvSays
<1>7. \A k \in Keys : Promised(k)' => Promised(k)
  BY <1>2 DEF Promised, Pushed
<1>8. ReaderTypeOK' /\ ReaderInv'
  BY <1>2, <1>7 DEF EnvInv, ReaderTypeOK, ReaderInv, EnvSays, Due
<1>9. CacheInv'
  BY <1>2, <1>7 DEF EnvInv, CacheInv, Due
<1>. QED
  BY <1>4, <1>6, <1>8, <1>9 DEF EnvInv

LEMMA FailSaveKeeps ==
  ASSUME EnvInv, FailSave
  PROVE  EnvInv'
<1>1. /\ pushing' = Unset /\ UNCHANGED <<file, environ, cache, reader, form, restored, crossed>>
      /\ saved' = [k \in Keys |-> IF k \in DOMAIN pushing THEN Unset ELSE saved[k]]
      /\ pushing # Unset
  BY DEF FailSave
<1>2. FileInv'
  BY <1>1 DEF EnvInv, FileInv
<1>3. \A k \in Keys : saved'[k] # Unset => saved[k] = saved'[k] /\ Promised(k)
  BY <1>1 DEF Promised, Pushed
<1>4. StoreInv'
  <2>1. DOMAIN environ' = Keys /\ DOMAIN saved' = Keys
    BY <1>1 DEF EnvInv, StoreInv
  <2>2. ASSUME NEW k \in Keys, saved'[k] # Unset
        PROVE  /\ EnvSays(environ, k)' /\ (k \in restored' => k \notin DOMAIN ContainerEnv)
               /\ k \in DOMAIN ContainerEnv \/ LastText(file', k) = saved'[k]
    BY <1>1, <1>3, <2>2 DEF EnvInv, StoreInv, EnvSays, Promised
  <2>. QED
    BY <2>1, <2>2 DEF StoreInv
<1>5. ReaderTypeOK' /\ ReaderInv'
  BY <1>1, <1>3 DEF EnvInv, ReaderTypeOK, ReaderInv, Promised, EnvSays, Due
<1>6. CacheInv'
  BY <1>1, <1>3 DEF EnvInv, CacheInv, Promised, Due
<1>. QED
  BY <1>2, <1>4, <1>5, <1>6 DEF EnvInv

LEMMA ClearCacheKeeps ==
  ASSUME EnvInv, ClearCache
  PROVE  EnvInv'
<1>1. cache' = Unset /\ UNCHANGED <<file, environ, reader, pushing, form, saved, restored>>
  BY DEF ClearCache
<1>2. FileInv' /\ StoreInv'
  BY <1>1 DEF EnvInv, FileInv, StoreInv, EnvSays, Pushed
<1>3. ReaderTypeOK' /\ ReaderInv' /\ CacheInv'
  BY <1>1 DEF EnvInv, ReaderTypeOK, ReaderInv, CacheInv, Promised, Pushed, EnvSays, Due
<1>. QED
  BY <1>2, <1>3 DEF EnvInv

LEMMA PushEnvKeeps ==
  ASSUME EnvInv, PushEnv
  PROVE  EnvInv'
<1>1. /\ pushing # Unset /\ cleared /\ pushing' = Unset /\ UNCHANGED <<file, form, cache, crossed>>
      /\ environ' = [k \in Keys |-> IF k \in DOMAIN pushing THEN pushing[k] ELSE environ[k]]
      /\ saved' = [k \in Keys |-> IF k \in DOMAIN pushing THEN pushing[k] ELSE saved[k]]
      /\ restored' = restored \ DOMAIN pushing /\ reader' = Crossed
  BY DEF PushEnv
<1>2. form \in Forms /\ pushing = Updates(form)
  BY <1>1 DEF EnvInv, FileInv
<1>3. \A k \in DOMAIN pushing : k \in Keys /\ LastText(file, k) = pushing[k]
  <2>1. \A k \in DOMAIN pushing : k \in Keys /\ k # Unset /\ Says(file, k, pushing[k])
    BY <1>1, <1>2, UpdatesAre, EnvAssumption DEF EnvInv, FileInv
  <2>. QED
    BY <2>1, SaidCounts DEF EnvInv, FileInv
<1>4. FileInv'
  BY <1>1 DEF EnvInv, FileInv
<1>5. StoreInv'
  <2>1. ASSUME NEW k \in Keys, saved'[k] # Unset
        PROVE  /\ EnvSays(environ, k)' /\ (k \in restored' => k \notin DOMAIN ContainerEnv)
               /\ k \in DOMAIN ContainerEnv \/ LastText(file', k) = saved'[k]
    <3>1. CASE k \in DOMAIN pushing
      BY <1>1, <1>3, <3>1 DEF EnvSays
    <3>2. CASE k \notin DOMAIN pushing
      BY <1>1, <2>1, <3>2 DEF EnvInv, StoreInv, EnvSays, Pushed
    <3>. QED
      BY <3>1, <3>2
  <2>2. DOMAIN environ' = Keys /\ DOMAIN saved' = Keys
    BY <1>1
  <2>. QED
    BY <2>1, <2>2 DEF StoreInv
<1>6. \A r \in Readers : reader'[r] # Unset => reader'[r].crossed /\
        reader'[r] = [env |-> reader'[r].env, got |-> reader'[r].got, crossed |-> reader'[r].crossed]
  <2>1. ASSUME NEW r \in Readers, reader'[r] # Unset PROVE reader[r] # Unset /\ reader'[r] = [reader[r] EXCEPT !.crossed = TRUE]
    BY <1>1, <2>1 DEF Crossed
  <2>2. ASSUME NEW r \in Readers, reader'[r] # Unset
        PROVE  reader'[r] = [env |-> reader[r].env, got |-> reader[r].got, crossed |-> TRUE]
    BY <2>1, <2>2 DEF EnvInv, ReaderTypeOK
  <2>. QED
    <3>. SUFFICES ASSUME NEW r \in Readers, reader'[r] # Unset
                  PROVE  reader'[r].crossed /\
                         reader'[r] = [env |-> reader'[r].env, got |-> reader'[r].got,
                                       crossed |-> reader'[r].crossed]
      OBVIOUS
    <3>1. PICK e, g : e = reader[r].env /\ g = reader[r].got
      OBVIOUS
    <3>2. reader'[r] = [env |-> e, got |-> g, crossed |-> TRUE]
      BY <2>2, <3>1
    <3>3. reader'[r].env = e /\ reader'[r].got = g /\ reader'[r].crossed = TRUE
      BY <3>2
    <3>. QED
      BY <3>2, <3>3
<1>7. ReaderTypeOK' /\ ReaderInv'
  BY <1>1, <1>6 DEF ReaderTypeOK, ReaderInv, Crossed
<1>8. CacheInv'
  BY <1>1 DEF EnvInv, CacheInv
<1>. QED
  BY <1>4, <1>5, <1>7, <1>8 DEF EnvInv

\* A step of a reading thread leaves everything but readers and cache alone.
LEMMA ReadingKeepsStore ==
  ASSUME EnvInv, UNCHANGED <<file, environ, pushing, form, saved, restored>>
  PROVE  /\ FileInv' /\ StoreInv'
         /\ \A k \in Keys : (Promised(k)' <=> Promised(k)) /\ Due(k)' = Due(k)
BY DEF EnvInv, FileInv, StoreInv, EnvSays, Pushed, Promised, Due

LEMMA BeginReadKeeps ==
  ASSUME EnvInv, NEW r \in Readers, BeginRead(r)
  PROVE  EnvInv'
<1>1. /\ UNCHANGED <<file, environ, pushing, form, saved, restored, cache, crossed, cleared>>
      /\ reader' = [reader EXCEPT ![r] = [env |-> environ, got |-> Unset, crossed |-> pushing # Unset]]
  BY DEF BeginRead
<1>2. /\ FileInv' /\ StoreInv'
      /\ \A k \in Keys : (Promised(k)' <=> Promised(k)) /\ Due(k)' = Due(k)
  BY <1>1, ReadingKeepsStore
<1>3. ReaderTypeOK'
  BY <1>1 DEF EnvInv, ReaderTypeOK
<1>4. ReaderInv'
  <2>. SUFFICES ASSUME NEW q \in Readers, reader'[q] # Unset, ~reader'[q].crossed,
                       NEW k \in Keys, Promised(k)
                PROVE  /\ EnvSays(reader'[q].env, k)
                       /\ reader'[q].got # Unset => reader'[q].got[k] = Due(k)
    BY <1>1, <1>2 DEF ReaderInv, EnvSays
  <2>1. CASE q = r
    <3>1. reader'[q].env = environ /\ reader'[q].got = Unset
      BY <1>1, <2>1 DEF EnvInv, ReaderTypeOK
    <3>. QED
      BY <3>1 DEF EnvInv, StoreInv, Promised
  <2>2. CASE q # r
    <3>1. reader'[q] = reader[q]
      BY <1>1, <2>2 DEF EnvInv, ReaderTypeOK
    <3>. QED
      BY <3>1 DEF EnvInv, ReaderInv
  <2>. QED
    BY <2>1, <2>2
<1>5. CacheInv'
  BY <1>1, <1>2 DEF EnvInv, CacheInv
<1>. QED
  BY <1>2, <1>3, <1>4, <1>5 DEF EnvInv

LEMMA ReadFileKeeps ==
  ASSUME EnvInv, NEW r \in Readers, ReadFile(r)
  PROVE  EnvInv'
<1>1. /\ UNCHANGED <<file, environ, pushing, form, saved, restored, cache, crossed, cleared>>
      /\ reader' = [reader EXCEPT ![r].got = Settings(reader[r].env, file)]
      /\ reader[r] # Unset
  BY DEF ReadFile
<1>2. /\ FileInv' /\ StoreInv'
      /\ \A k \in Keys : (Promised(k)' <=> Promised(k)) /\ Due(k)' = Due(k)
  BY <1>1, ReadingKeepsStore
<1>3. reader'[r] = [env |-> reader[r].env, got |-> Settings(reader[r].env, file), crossed |-> reader[r].crossed]
  <2>1. reader'[r] = [reader[r] EXCEPT !.got = Settings(reader[r].env, file)]
    BY <1>1 DEF EnvInv, ReaderTypeOK
  <2>2. reader[r] = [env |-> reader[r].env, got |-> reader[r].got, crossed |-> reader[r].crossed]
    BY <1>1 DEF EnvInv, ReaderTypeOK
  <2>. QED
    BY <2>1, <2>2
<1>4. \A q \in Readers \ {r} : reader'[q] = reader[q]
  BY <1>1 DEF EnvInv, ReaderTypeOK
<1>5. ReaderTypeOK'
  <2>1. DOMAIN reader' = Readers
    BY <1>1 DEF EnvInv, ReaderTypeOK
  <2>2. ASSUME NEW q \in Readers, reader'[q] # Unset
        PROVE  reader'[q] = [env |-> reader'[q].env, got |-> reader'[q].got, crossed |-> reader'[q].crossed]
    BY <1>3, <1>4, <2>2 DEF EnvInv, ReaderTypeOK
  <2>. QED
    BY <2>1, <2>2 DEF ReaderTypeOK
<1>6. ReaderInv'
  <2>. SUFFICES ASSUME NEW q \in Readers, reader'[q] # Unset, ~reader'[q].crossed,
                       NEW k \in Keys, Promised(k)
                PROVE  /\ EnvSays(reader'[q].env, k)
                       /\ reader'[q].got # Unset => reader'[q].got[k] = Due(k)
    BY <1>1, <1>2 DEF ReaderInv, EnvSays
  <2>1. CASE q = r
    <3>1. ~reader[r].crossed /\ EnvSays(reader[r].env, k)
      BY <1>1, <1>3, <2>1 DEF EnvInv, ReaderInv
    <3>2. Settings(reader[r].env, file)[k] = Due(k)
      BY <3>1, ReadIsDue DEF EnvInv
    <3>. QED
      BY <1>3, <2>1, <3>1, <3>2
  <2>2. CASE q # r
    <3>1. reader'[q] = reader[q]
      BY <1>4, <2>2
    <3>. QED
      BY <3>1 DEF EnvInv, ReaderInv
  <2>. QED
    BY <2>1, <2>2
<1>7. CacheInv'
  BY <1>1, <1>2 DEF EnvInv, CacheInv
<1>. QED
  BY <1>2, <1>5, <1>6, <1>7 DEF EnvInv

LEMMA StoreSettingsKeeps ==
  ASSUME EnvInv, NEW r \in Readers, StoreSettings(r)
  PROVE  EnvInv'
<1>1. /\ UNCHANGED <<file, environ, pushing, form, saved, restored, cleared>>
      /\ reader[r] # Unset /\ reader[r].got # Unset /\ reader' = [reader EXCEPT ![r] = Unset]
      /\ IF cache = Unset
         THEN cache' = reader[r].got /\ crossed' = (reader[r].crossed \/ pushing # Unset)
         ELSE UNCHANGED <<cache, crossed>>
  BY DEF StoreSettings
<1>2. /\ FileInv' /\ StoreInv'
      /\ \A k \in Keys : (Promised(k)' <=> Promised(k)) /\ Due(k)' = Due(k)
  BY <1>1, ReadingKeepsStore
<1>3. DOMAIN reader' = Readers /\ \A q \in Readers : reader'[q] # Unset => reader'[q] = reader[q]
  BY <1>1 DEF EnvInv, ReaderTypeOK
<1>4. ReaderTypeOK'
  BY <1>3 DEF EnvInv, ReaderTypeOK
<1>5. ReaderInv'
  <2>. SUFFICES ASSUME NEW q \in Readers, reader'[q] # Unset, ~reader'[q].crossed,
                       NEW k \in Keys, Promised(k)
                PROVE  /\ EnvSays(reader'[q].env, k)
                       /\ reader'[q].got # Unset => reader'[q].got[k] = Due(k)
    BY <1>1, <1>2 DEF ReaderInv, EnvSays
  <2>. QED
    BY <1>3 DEF EnvInv, ReaderInv
<1>6. CacheInv'
  <2>1. CASE cache = Unset
    <3>1. cache' = reader[r].got
      BY <1>1, <2>1
    <3>2. ~crossed' => ~reader[r].crossed /\ pushing = Unset
      BY <1>1, <2>1
    <3>3. ~crossed' => \A k \in Keys : Promised(k) => reader[r].got[k] = Due(k)
      BY <1>1, <3>2 DEF EnvInv, ReaderInv
    <3>. QED
      BY <1>1, <1>2, <3>1, <3>2, <3>3 DEF CacheInv
  <2>2. CASE cache # Unset
    BY <1>1, <1>2, <2>2 DEF EnvInv, CacheInv
  <2>. QED
    BY <2>1, <2>2
<1>. QED
  BY <1>2, <1>4, <1>5, <1>6 DEF EnvInv

LEMMA RestartKeeps ==
  ASSUME EnvInv, Restart
  PROVE  EnvInv'
<1>1. /\ environ' = StartEnv /\ cache' = Unset /\ pushing' = Unset /\ UNCHANGED <<file, form>>
      /\ reader' = [r \in Readers |-> Unset] /\ restored' = Keys
      /\ saved' = [k \in Keys |->
                     IF k \in DOMAIN ContainerEnv THEN Unset
                     ELSE IF pushing # Unset /\ k \in DOMAIN pushing THEN pushing[k] ELSE saved[k]]
  BY DEF Restart
<1>2. FileInv'
  BY <1>1 DEF EnvInv, FileInv
<1>3. \A k \in Keys : Pushed(k) => LastText(file, k) = pushing[k]
  <2>1. \A k \in Keys : Pushed(k) => k # Unset /\ Says(file, k, pushing[k])
    BY EnvAssumption DEF EnvInv, FileInv, Pushed
  <2>. QED
    BY <2>1, SaidCounts DEF EnvInv, FileInv
<1>4. ASSUME NEW k \in Keys, saved'[k] # Unset
      PROVE  environ'[k] = Unset /\ k \notin DOMAIN ContainerEnv /\ LastText(file', k) = saved'[k]
  <2>1. k \notin DOMAIN ContainerEnv /\ environ'[k] = Unset
    BY <1>1, <1>4 DEF StartEnv
  <2>2. saved'[k] = IF Pushed(k) THEN pushing[k] ELSE saved[k]
    BY <1>1, <2>1 DEF Pushed
  <2>. QED
    BY <1>1, <1>3, <1>4, <2>1, <2>2 DEF EnvInv, StoreInv
<1>5. DOMAIN environ' = Keys /\ DOMAIN saved' = Keys
  BY <1>1 DEF StartEnv
<1>6. StoreInv'
  BY <1>1, <1>4, <1>5 DEF StoreInv, EnvSays
<1>7. ReaderTypeOK' /\ ReaderInv' /\ CacheInv'
  BY <1>1 DEF ReaderTypeOK, ReaderInv, CacheInv
<1>. QED
  BY <1>2, <1>6, <1>7 DEF EnvInv

LEMMA EnvStep == EnvInv /\ [EnvNext]_envVars => EnvInv'
<1>. SUFFICES ASSUME EnvInv, [EnvNext]_envVars PROVE EnvInv'
  OBVIOUS
<1>1. ASSUME NEW r \in Readers, ReadStep(r) PROVE EnvInv'
  BY <1>1, BeginReadKeeps, ReadFileKeeps, StoreSettingsKeeps DEF ReadStep
<1>2. CASE EnvNext
  BY <1>1, <1>2, SaveFormKeeps, FailSaveKeeps, ClearCacheKeeps, PushEnvKeeps, RestartKeeps DEF EnvNext
<1>3. CASE UNCHANGED envVars
  <2>1. UNCHANGED <<file, environ, cache, reader, pushing, cleared, form, saved, restored, crossed>>
    BY <1>3 DEF envVars
  <2>2. FileInv' /\ StoreInv' /\ \A k \in Keys : (Promised(k)' <=> Promised(k)) /\ Due(k)' = Due(k)
    BY <2>1, ReadingKeepsStore
  <2>3. ReaderTypeOK' /\ CacheInv'
    BY <2>1, <2>2 DEF EnvInv, ReaderTypeOK, CacheInv
  <2>4. ReaderInv'
    BY <2>1, <2>2 DEF EnvInv, ReaderInv, EnvSays
  <2>. QED
    BY <2>2, <2>3, <2>4 DEF EnvInv
<1>. QED
  BY <1>2, <1>3

\* EnvFile.SavedIsInForce (system_save, get_settings.cache_clear, the push into
\* os.environ and the lru_cache that threads fill beside them): unless a read of
\* the settings overlapped a save, the process goes by what was saved to it.
THEOREM SavedAlwaysInForce == EnvSpec => []SavedIsInForce
<1>1. EnvInv => SavedIsInForce
  BY DEF EnvInv, CacheInv, SavedIsInForce, Obeyed, Promised, Pushed
<1>. QED
  BY <1>1, EnvStart, EnvStep, PTL DEF EnvSpec

\* A file that says what was sent is rewritten to itself.
LEMMA RewrittenStays ==
  ASSUME NEW f, IsSeq(f), NEW u, \A k \in DOMAIN u : Says(f, k, u[k])
  PROVE  Missing(f, u) = {} /\ Rewritten(f, u) = f
<1>1. Missing(f, u) = {}
  BY DEF Missing, Says
<1>2. PICK T : f \in Seq(T)
  BY DEF IsSeq
<1>3. f = [i \in DOMAIN f |-> f[i]]
  BY <1>2
<1>4. \A i \in DOMAIN f : f[i].key \in DOMAIN u => f[i] = Line(f[i].key, u[f[i].key])
  BY DEF Says
<1>5. Replaced(f, u) = f
  BY <1>3, <1>4 DEF Replaced
<1>. QED
  BY <1>1, <1>5 DEF Rewritten

\* EnvFile.SavedIsRead (write_env, read_env): whatever the file looked like, after
\* a save the panel shows what was sent, and the same form leaves the file as it is.
THEOREM SavedIsAlwaysRead == EnvSpec => []SavedIsRead
<1>1. EnvInv => SavedIsRead
  <2>. SUFFICES ASSUME EnvInv, form # Unset PROVE SavedIsRead
    BY DEF SavedIsRead
  <2>. PICK u : u = Updates(form)
    OBVIOUS
  <2>1. form \in Forms /\ IsSeq(file) /\ \A k \in DOMAIN u : Says(file, k, u[k])
    BY DEF EnvInv, FileInv
  <2>2. /\ DOMAIN u \subseteq Keys /\ \A k \in DOMAIN u : u[k] = form[k] /\ u[k] \in Texts
        /\ \A k \in Keys : form[k] # Empty => k \in DOMAIN u
    BY <2>1, UpdatesAre
  <2>3. ASSUME NEW k \in Keys, form[k] # Empty PROVE Shown(file, k) = Unquoted(form[k])
    <3>1. k \in DOMAIN u /\ k # Unset /\ Says(file, k, form[k])
      BY <2>1, <2>2, <2>3, EnvAssumption
    <3>2. LastText(file, k) = form[k]
      BY <2>1, <3>1, SaidCounts
    <3>. QED
      BY <3>2, ShownIs
  <2>4. Missing(file, u) = {} /\ Rewritten(file, u) = file
    BY <2>1, RewrittenStays
  <2>5. ASSUME NEW k \in Changed(file, u) PROVE k \in Keys /\ form[k].quoted
    <3>1. k \in DOMAIN u /\ k \in Keys /\ u[k] = form[k] /\ u[k] \in Texts
      BY <2>2, <2>4, <2>5 DEF Changed
    <3>2. PICK i \in DOMAIN file : file[i].key = k /\ Unquoted(file[i].val) # u[k]
      BY <2>4, <2>5 DEF Changed
    <3>3. file[i].val = u[k]
      BY <2>1, <3>1, <3>2 DEF Says, Line
    <3>4. CASE u[k].quoted = FALSE
      <4>1. Unquoted(u[k]) = u[k]
        BY <3>1, <3>4 DEF Unquoted, Texts, Text
      <4>. QED
        BY <3>2, <3>3, <4>1
    <3>. QED
      BY <3>1, <3>4 DEF Texts
  <2>. QED
    BY <2>3, <2>4, <2>5 DEF SavedIsRead
<1>. QED
  BY <1>1, EnvStart, EnvStep, PTL DEF EnvSpec

\* Only nothing and a pair of quotes with nothing in it are shown as nothing.
LEMMA ShownEmpty ==
  ASSUME NEW t \in Texts, Unquoted(t) = Empty
  PROVE  t = Empty \/ t = EmptyQuotes
<1>1. t = Text(t.word, t.quoted, t.hash) /\ t.quoted \in BOOLEAN
  BY DEF Texts, Text
<1>2. Text(t.word, FALSE, t.hash) = Text("", FALSE, FALSE)
  BY DEF Unquoted, Empty, Plain
<1>3. t.word = "" /\ t.hash = FALSE
  BY <1>2 DEF Text
<1>4. t = Text("", t.quoted, FALSE)
  BY <1>1, <1>3
<1>. QED
  BY <1>1, <1>4 DEF Empty, EmptyQuotes, Plain

\* EnvFile.NeededStays (no_empty_keys and the number fields of system_save): no
\* save empties a key that must have a value, unless a pair of quotes is sent.
THEOREM NeededAlwaysStays == EnvSpec => NeededStays
<1>1. ASSUME EnvInv, [EnvNext]_envVars, NEW k \in Keys, k \in NoEmptyKeys \/ Kind[k] = "number",
             Shown(file, k) # Empty
      PROVE  Shown(file', k) # Empty \/ (form' # Unset /\ form'[k] = EmptyQuotes)
  <2>1. CASE file' = file
    BY <1>1, <2>1
  <2>2. ASSUME NEW f \in Forms, SaveForm(f), f[k] # EmptyQuotes PROVE Shown(file', k) # Empty
    <3>. PICK u : u = Updates(f)
      OBVIOUS
    <3>1. file' = Rewritten(file, u) /\ IsSeq(file) /\ k # Unset
      BY <1>1, <2>2, EnvAssumption DEF SaveForm, EnvInv, FileInv
    <3>2. /\ DOMAIN u \subseteq Keys /\ \A m \in DOMAIN u : u[m] = f[m] /\ u[m] \in Texts
          /\ k \in DOMAIN u => f[k] # Empty
      BY <1>1, UpdatesAre
    <3>3. CASE k \in DOMAIN u
      <4>1. Says(file', k, f[k]) /\ IsSeq(file')
        BY <3>1, <3>2, <3>3, SentIsSaid, RewrittenIs
      <4>2. LastText(file', k) = f[k]
        BY <3>1, <4>1, SaidCounts
      <4>3. Shown(file', k) = Unquoted(f[k])
        BY <4>2, ShownIs
      <4>. QED
        BY <2>2, <3>2, <3>3, <4>3, ShownEmpty
    <3>4. CASE k \notin DOMAIN u
      <4>1. LastText(file', k) = LastText(file, k)
        BY <3>1, <3>2, <3>4, OthersStay
      <4>2. Shown(file', k) = Shown(file, k)
        BY <4>1, ShownIs
      <4>. QED
        BY <1>1, <4>2
    <3>. QED
      BY <3>3, <3>4
  <2>3. file' = file \/ \E f \in Forms : SaveForm(f)
    BY <1>1 DEF EnvNext, FailSave, ClearCache, PushEnv, ReadStep, BeginRead, ReadFile, StoreSettings,
                Restart, envVars
  <2>4. ASSUME NEW f \in Forms, SaveForm(f) PROVE form' = f /\ form' # Unset
    BY <2>4, FormIsSet DEF SaveForm
  <2>. QED
    BY <2>1, <2>2, <2>3, <2>4
<1>2. EnvInv /\ [EnvNext]_envVars =>
        [\A k \in Keys : (k \in NoEmptyKeys \/ Kind[k] = "number") /\ Shown(file, k) # Empty =>
           \/ Shown(file', k) # Empty
           \/ form' # Unset /\ form'[k] = EmptyQuotes]_envVars
  BY <1>1
<1>. QED
  BY <1>2, EnvStart, EnvStep, PTL DEF EnvSpec, NeededStays

\* A save touches no line that was written by hand.
LEMMA HandWorkKept ==
  ASSUME NEW f, IsSeq(f), NEW u, DOMAIN u \subseteq Keys
  PROVE  ByHand(Rewritten(f, u)) = ByHand(f)
<1>. PICK r : r = Rewritten(f, u)
  OBVIOUS
<1>1. /\ \A i \in DOMAIN f : i \in DOMAIN r /\ r[i] = Replaced(f, u)[i]
      /\ \A i \in DOMAIN r \ DOMAIN f : r[i] = Blank \/ r[i] \in Added(f, u)
  BY RewrittenIs
<1>. DEFINE Hand(g) == {j \in DOMAIN g : g[j].key \notin Keys /\ g[j] # Blank}
<1>2. ASSUME NEW i \in DOMAIN r \ DOMAIN f PROVE i \notin Hand(r)
  <2>1. \A x \in Added(f, u) : x.key \in Keys
    BY DEF Added, Missing, Line
  <2>. QED
    BY <1>1, <2>1
<1>3. ASSUME NEW i \in DOMAIN f PROVE (i \in Hand(r) <=> i \in Hand(f)) /\ (i \in Hand(f) => r[i] = f[i])
  <2>1. i \in DOMAIN r /\ r[i] = IF f[i].key \in DOMAIN u THEN Line(f[i].key, u[f[i].key]) ELSE f[i]
    BY <1>1 DEF Replaced
  <2>2. CASE f[i].key \in DOMAIN u
    BY <2>1, <2>2 DEF Line
  <2>3. CASE f[i].key \notin DOMAIN u
    BY <2>1, <2>3
  <2>. QED
    BY <2>2, <2>3
<1>4. Hand(r) = Hand(f) /\ \A i \in Hand(f) : r[i] = f[i]
  BY <1>2, <1>3
<1>. QED
  <2>1. ByHand(r) = [i \in Hand(r) |-> r[i]] /\ ByHand(f) = [i \in Hand(f) |-> f[i]]
    BY DEF ByHand
  <2>. HIDE DEF Hand
  <2>. QED
    BY <1>4, <2>1

\* EnvFile.SavesKeep (system_save, write_env): what was sent is read, what was
\* written by hand stays at its place, and what must have a value keeps one.
THEOREM SavesAlwaysKeep == EnvSpec => SavesKeep
<1>1. ASSUME EnvInv, [EnvNext]_envVars PROVE ByHand(file') = ByHand(file)
  <2>1. ASSUME NEW f \in Forms, SaveForm(f) PROVE ByHand(file') = ByHand(file)
    <3>1. file' = Rewritten(file, Updates(f)) /\ IsSeq(file) /\ DOMAIN Updates(f) \subseteq Keys
      BY <1>1, <2>1, UpdatesAre DEF SaveForm, EnvInv, FileInv
    <3>. QED
      BY <3>1, HandWorkKept
  <2>2. file' = file \/ \E f \in Forms : SaveForm(f)
    BY <1>1 DEF EnvNext, FailSave, ClearCache, PushEnv, ReadStep, BeginRead, ReadFile, StoreSettings,
                Restart, envVars
  <2>3. CASE file' = file
    BY <2>3
  <2>. QED
    BY <2>1, <2>2, <2>3
<1>2. EnvInv /\ [EnvNext]_envVars => [ByHand(file') = ByHand(file)]_envVars
  BY <1>1
<1>3. EnvSpec => HandWorkStays
  BY <1>2, EnvStart, EnvStep, PTL DEF EnvSpec, HandWorkStays
<1>. QED
  BY <1>3, SavedIsAlwaysRead, NeededAlwaysStays DEF SavesKeep

----------------------------------------------------------------------------
(* MailScore: the results of a check earn no more than they could, and from *)
(* one to the next what is earned grows by as much as what could be earned. *)

Outcome == [earned : Nat, max : Nat]
Within(a, cap) == a \in Outcome /\ a.earned <= a.max /\ a.max <= cap
Better(a, b) == a.max <= b.max /\ b.max + a.earned <= b.earned + a.max
Rising(results, cap) ==
  /\ results \in Seq(Outcome) /\ Len(results) >= 1
  /\ \A f \in 1..Len(results) : Within(results[f], cap)
  /\ \A f \in 1..Len(results) : \A g \in f..Len(results) : Better(results[f], results[g])
Full(results) == results[Len(results)].earned = results[Len(results)].max

LEMMA RisingOne ==
  ASSUME NEW cap, NEW a, Within(a, cap)
  PROVE  Rising(<<a>>, cap)
<1>1. <<a>> \in Seq(Outcome) /\ Len(<<a>>) = 1 /\ <<a>>[1] = a
  BY DEF Within
<1>2. Better(a, a)
  BY DEF Better, Within, Outcome
<1>3. \A f \in 1..1 : f = 1 /\ \A g \in f..1 : g = 1
  OBVIOUS
<1>. QED
  BY <1>1, <1>2, <1>3 DEF Rising

LEMMA RisingTwo ==
  ASSUME NEW cap, NEW a, NEW b, Within(a, cap), Within(b, cap), Better(a, b)
  PROVE  Rising(<<a, b>>, cap)
<1>. DEFINE s == <<a, b>>
<1>1. s \in Seq(Outcome) /\ Len(s) = 2 /\ s[1] = a /\ s[2] = b
  BY DEF Within
<1>2. Better(a, a) /\ Better(b, b)
  BY DEF Better, Within, Outcome
<1>3. \A f \in 1..2 : f \in {1, 2} /\ \A g \in f..2 : g \in {1, 2} /\ (f = 2 => g = 2)
  OBVIOUS
<1>. HIDE DEF s
<1>. QED
  BY <1>1, <1>2, <1>3 DEF Rising, s

LEMMA RisingThree ==
  ASSUME NEW cap, NEW a, NEW b, NEW c, Within(a, cap), Within(b, cap), Within(c, cap),
         Better(a, b), Better(b, c)
  PROVE  Rising(<<a, b, c>>, cap)
<1>. DEFINE s == <<a, b, c>>
<1>1. s \in Seq(Outcome) /\ Len(s) = 3 /\ s[1] = a /\ s[2] = b /\ s[3] = c
  BY DEF Within
<1>2. Better(a, a) /\ Better(b, b) /\ Better(c, c) /\ Better(a, c)
  BY DEF Better, Within, Outcome
<1>3. \A f \in 1..3 : f \in {1, 2, 3} /\ \A g \in f..3 : g \in {1, 2, 3} /\ (f = 2 => g # 1) /\ (f = 3 => g = 3)
  OBVIOUS
<1>. HIDE DEF s
<1>4. \A f \in 1..Len(s) : Within(s[f], cap)
  BY <1>1, <1>3
<1>5. \A f \in 1..Len(s) : \A g \in f..Len(s) : Better(s[f], s[g])
  <2>. SUFFICES ASSUME NEW f \in 1..3, NEW g \in f..3 PROVE Better(s[f], s[g])
    BY <1>1
  <2>1. f \in {1, 2, 3} /\ g \in {1, 2, 3} /\ (f = 2 => g # 1) /\ (f = 3 => g = 3)
    BY <1>3
  <2>. QED
    BY <1>1, <1>2, <2>1
<1>. QED
  BY <1>1, <1>4, <1>5 DEF Rising, s

\* The shares of a check.
LEMMA SharesAre ==
  /\ Share("spf", 0) = Result(0, 14000) /\ Share("spf", 30) = Result(4200, 14000)
  /\ Share("spf", 100) = Result(14000, 14000)
  /\ Share("dkim", 0) = Result(0, 14000) /\ Share("dkim", 50) = Result(7000, 14000)
  /\ Share("dkim", 100) = Result(14000, 14000)
  /\ Share("dmarc", 0) = Result(0, 14000) /\ Share("dmarc", 40) = Result(5600, 14000)
  /\ Share("dmarc", 50) = Result(7000, 14000) /\ Share("dmarc", 100) = Result(14000, 14000)
  /\ Share("ptr", 0) = Result(0, 7000) /\ Share("ptr", 100) = Result(7000, 7000)
  /\ Share("rdns_match", 30) = Result(1200, 4000) /\ Share("rdns_match", 100) = Result(4000, 4000)
  /\ Share("tls", 100) = Result(6000, 6000)
  /\ Share("dnsbl", 0) = Result(0, 8000) /\ Share("dnsbl", 100) = Result(8000, 8000)
  /\ Share("list_unsub", 30) = Result(1200, 4000) /\ Share("list_unsub", 100) = Result(4000, 4000)
  /\ Share("subject_caps", 0) = Result(0, 2000) /\ Share("subject_caps", 100) = Result(2000, 2000)
  /\ Share("html_dangerous", 0) = Result(0, 3000) /\ Share("html_dangerous", 100) = Result(3000, 3000)
  /\ Share("html_alt", 30) = Result(600, 2000) /\ Share("html_alt", 100) = Result(2000, 2000)
  /\ Share("short_urls", 0) = Result(0, 2000) /\ Share("short_urls", 100) = Result(2000, 2000)
  /\ Share("sender_mx", 30) = Result(600, 2000) /\ Share("sender_mx", 100) = Result(2000, 2000)
BY DEF Share, Weight

LEMMA ResultIs ==
  ASSUME NEW e, NEW m
  PROVE  Result(e, m).earned = e /\ Result(e, m).max = m /\ (e \in Nat /\ m \in Nat => Result(e, m) \in Outcome)
BY DEF Result, Outcome

LEMMA ThreeRise ==
  /\ Rising(SpfResults, 14000) /\ Full(SpfResults) /\ SpfResults[1] = Result(0, 14000)
  /\ Rising(DkimResults, 14000) /\ Full(DkimResults) /\ DkimResults[1] = Result(0, 14000)
<1>1. Rising(<<Result(0, 14000), Result(4200, 14000), Result(14000, 14000)>>, 14000)
  BY RisingThree, ResultIs DEF Within, Better
<1>2. Rising(<<Result(0, 14000), Result(7000, 14000), Result(14000, 14000)>>, 14000)
  BY RisingThree, ResultIs DEF Within, Better
<1>3. SpfResults = <<Result(0, 14000), Result(4200, 14000), Result(14000, 14000)>>
  BY SharesAre DEF SpfResults
<1>4. DkimResults = <<Result(0, 14000), Result(7000, 14000), Result(14000, 14000)>>
  BY SharesAre DEF DkimResults
<1>. QED
  BY <1>1, <1>2, <1>3, <1>4, ResultIs DEF Full

LEMMA DmarcRises ==
  Rising(DmarcResults, 14000) /\ Full(DmarcResults) /\ DmarcResults[1] = Result(0, 14000)
<1>. DEFINE s == DmarcResults
<1>1. s = <<Result(0, 14000), Result(5600, 14000), Result(7000, 14000), Result(14000, 14000)>>
  BY SharesAre DEF DmarcResults
<1>. HIDE DEF s
<1>2. /\ Len(s) = 4 /\ s[1] = Result(0, 14000) /\ s[2] = Result(5600, 14000)
      /\ s[3] = Result(7000, 14000) /\ s[4] = Result(14000, 14000)
  BY <1>1
<1>3. s \in Seq(Outcome)
  BY <1>1, ResultIs
<1>4. ASSUME NEW f \in 1..4 PROVE Within(s[f], 14000)
  <2>1. f = 1 \/ f = 2 \/ f = 3 \/ f = 4
    OBVIOUS
  <2>. QED
    BY <1>2, <2>1, ResultIs DEF Within
<1>5. \A f \in 1..4 : s[f].max = 14000
  <2>1. \A f \in 1..4 : f = 1 \/ f = 2 \/ f = 3 \/ f = 4
    OBVIOUS
  <2>. QED
    BY <1>2, <2>1, ResultIs
<1>6. ASSUME NEW f \in 1..4, NEW g \in f..4 PROVE s[f].earned <= s[g].earned
  <2>1. s[1].earned = 0 /\ s[2].earned = 5600 /\ s[3].earned = 7000 /\ s[4].earned = 14000
    BY <1>2, ResultIs
  <2>2. f = 1 \/ f = 2 \/ f = 3 \/ f = 4
    OBVIOUS
  <2>3. g = 1 \/ g = 2 \/ g = 3 \/ g = 4
    OBVIOUS
  <2>. QED
    BY <2>1, <2>2, <2>3
<1>7. ASSUME NEW f \in 1..4, NEW g \in f..4 PROVE Better(s[f], s[g])
  <2>1. g \in 1..4
    OBVIOUS
  <2>2. s[f].earned \in Nat /\ s[g].earned \in Nat
    BY <1>4, <2>1 DEF Within, Outcome
  <2>. QED
    BY <1>5, <1>6, <2>1, <2>2 DEF Better
<1>8. Rising(s, 14000)
  BY <1>2, <1>3, <1>4, <1>7 DEF Rising
<1>. QED
  BY <1>2, <1>8, ResultIs DEF s, Full

LEMMA PtrRises == Rising(PtrResults, 11000) /\ Full(PtrResults)
<1>1. Rising(<<Result(0, 7000), Result(8200, 11000), Result(11000, 11000)>>, 11000)
  BY RisingThree, ResultIs DEF Within, Better
<1>2. PtrResults = <<Result(0, 7000), Result(8200, 11000), Result(11000, 11000)>>
  <2>1. Add(Share("ptr", 0), Skipped("rdns_match")) = Result(0, 7000)
    <3>1. Share("ptr", 0) = Result(0, 7000)
      BY SharesAre
    <3>. QED
      BY <3>1, ResultIs DEF Add, Skipped
  <2>2. Share("ptr", 100) = Result(7000, 7000)
    BY SharesAre
  <2>3. Add(Share("ptr", 100), Share("rdns_match", 30)) = Result(8200, 11000)
    <3>1. Share("rdns_match", 30) = Result(1200, 4000)
      BY SharesAre
    <3>. QED
      BY <2>2, <3>1, ResultIs DEF Add
  <2>4. Add(Share("ptr", 100), Share("rdns_match", 100)) = Result(11000, 11000)
    <3>1. Share("rdns_match", 100) = Result(4000, 4000)
      BY SharesAre
    <3>. QED
      BY <2>2, <3>1, ResultIs DEF Add
  <2>. QED
    BY <2>1, <2>3, <2>4 DEF PtrResults, MatchShare
<1>. QED
  BY <1>1, <1>2, ResultIs DEF Full

LEMMA OthersRise ==
  /\ Rising(TlsResults, 6000) /\ Full(TlsResults)
  /\ Rising(DnsblResults, 8000) /\ Full(DnsblResults)
  /\ Rising(ListUnsubResults, 4000) /\ Full(ListUnsubResults)
  /\ Rising(CapsResults, 2000) /\ Full(CapsResults)
  /\ Rising(DangerousResults, 3000) /\ Full(DangerousResults)
  /\ Rising(AltResults, 2000) /\ Full(AltResults)
  /\ Rising(ShortUrlResults, 2000) /\ Full(ShortUrlResults)
  /\ Rising(MxResults, 2000) /\ Full(MxResults)
<1>1. Rising(<<Result(6000, 6000)>>, 6000) /\ TlsResults = <<Result(6000, 6000)>>
  BY RisingOne, SharesAre, ResultIs DEF Within, TlsResults
<1>2. ASSUME NEW e \in Nat, NEW m \in Nat, e <= m
      PROVE  Rising(<<Result(e, m), Result(m, m)>>, m) /\ Full(<<Result(e, m), Result(m, m)>>)
  <2>1. Within(Result(e, m), m) /\ Within(Result(m, m), m) /\ Better(Result(e, m), Result(m, m))
    BY <1>2, ResultIs DEF Within, Better
  <2>. QED
    BY <2>1, RisingTwo, ResultIs DEF Full
<1>3. DnsblResults = <<Result(0, 8000), Result(8000, 8000)>>
  BY SharesAre DEF DnsblResults
<1>4. ListUnsubResults = <<Result(1200, 4000), Result(4000, 4000)>>
  BY SharesAre DEF ListUnsubResults
<1>5. CapsResults = <<Result(0, 2000), Result(2000, 2000)>>
  BY SharesAre DEF CapsResults
<1>6. DangerousResults = <<Result(0, 3000), Result(3000, 3000)>>
  BY SharesAre DEF DangerousResults
<1>7. AltResults = <<Result(600, 2000), Result(2000, 2000)>>
  BY SharesAre DEF AltResults
<1>8. ShortUrlResults = <<Result(0, 2000), Result(2000, 2000)>>
  BY SharesAre DEF ShortUrlResults
<1>9. MxResults = <<Result(600, 2000), Result(2000, 2000)>>
  BY SharesAre DEF MxResults
<1>10. Rising(TlsResults, 6000) /\ Full(TlsResults)
  BY <1>1, ResultIs DEF Full
<1>. QED
  BY <1>2, <1>3, <1>4, <1>5, <1>6, <1>7, <1>8, <1>9, <1>10

LEMMA RspamdRises == Rising(RspamdResults, 14000) /\ Full(RspamdResults)
<1>. DEFINE s == RspamdResults
            p(i) == RspamdPct(7 - i)
<1>1. p(1) = 0 /\ p(2) = 20 /\ p(3) = 30 /\ p(4) = 40 /\ p(5) = 60 /\ p(6) = 80 /\ p(7) = 100 /\ p(8) = 100
  BY DEF RspamdPct, Larger
<1>. HIDE DEF p
<1>2. ASSUME NEW f \in 1..8
      PROVE  f = 1 \/ f = 2 \/ f = 3 \/ f = 4 \/ f = 5 \/ f = 6 \/ f = 7 \/ f = 8
  OBVIOUS
<1>3. ASSUME NEW f \in 1..8 PROVE p(f) \in 0..100
  BY <1>1, <1>2
<1>4. ASSUME NEW f \in 1..8, NEW g \in f..8 PROVE g \in 1..8 /\ p(f) <= p(g)
  <2>1. g \in 1..8 /\ f <= g
    OBVIOUS
  <2>. QED
    BY <1>1, <1>2, <2>1
<1>5. \A f \in 1..8 : s[f] = Result(140 * p(f), 14000)
  <2>1. \A f \in 1..8 : s[f] = Share("rspamd", p(f))
    BY DEF RspamdResults, p
  <2>2. Weight["rspamd"] = 140
    BY DEF Weight
  <2>. QED
    BY <2>1, <2>2 DEF Share
<1>6. ASSUME NEW f \in 1..8
      PROVE  /\ s[f] \in Outcome /\ Within(s[f], 14000) /\ s[f].max = 14000
             /\ s[f].earned = 140 * p(f)
  BY <1>3, <1>5, ResultIs DEF Within
<1>7. Len(s) = 8 /\ s \in Seq(Outcome)
  <2>1. s = [i \in 1..8 |-> s[i]]
    BY DEF RspamdResults
  <2>. HIDE DEF s
  <2>2. s \in [1..8 -> Outcome]
    BY <1>6, <2>1
  <2>3. \E n \in Nat : s \in [1..n -> Outcome]
    BY <2>2
  <2>4. s \in Seq(Outcome)
    BY <2>3 DEF Seq
  <2>5. DOMAIN s = 1..8
    BY <2>2
  <2>. QED
    BY <2>4, <2>5
<1>8. ASSUME NEW f \in 1..8, NEW g \in f..8 PROVE Better(s[f], s[g])
  <2>. HIDE DEF s
  <2>1. PICK x \in 0..100 : x = p(f)
    BY <1>3
  <2>2. PICK y \in 0..100 : y = p(g)
    BY <1>3, <1>4
  <2>3. x <= y /\ s[f].earned = 140 * x /\ s[g].earned = 140 * y
    BY <1>4, <1>6, <2>1, <2>2
  <2>4. s[f].max = 14000 /\ s[g].max = 14000
    BY <1>4, <1>6
  <2>5. 14000 <= 14000 /\ 14000 + 140 * x <= 140 * y + 14000
    BY <2>3
  <2>. QED
    BY <2>3, <2>4, <2>5 DEF Better
<1>. HIDE DEF s
<1>9. Rising(s, 14000)
  BY <1>6, <1>7, <1>8 DEF Rising
<1>. QED
  BY <1>1, <1>6, <1>7, <1>9 DEF Full, s

Shapes == {"both", "little text", "text", "hollow html", "html", "empty"}

LEMMA HtmlTextRises ==
  ASSUME NEW shape \in Shapes
  PROVE  Rising(<<HtmlTextResult(shape)>>, 3000) /\ (shape = "both" => Full(<<HtmlTextResult(shape)>>))
<1>1. PICK pct \in 0..100 : /\ HtmlTextResult(shape) = Share("html_text", pct)
                            /\ shape = "both" => pct = 100
  <2>1. shape = "both" => HtmlTextResult(shape) = Share("html_text", 100)
    BY DEF HtmlTextResult
  <2>2. shape # "both" => \E pct \in {0, 50, 80, 100} : HtmlTextResult(shape) = Share("html_text", pct)
    <3>. DEFINE part == CASE shape \in {"both", "hollow html"} -> 100 [] shape = "little text" -> 50
                          [] shape = "text" -> 80 [] OTHER -> 0
    <3>1. part \in {0, 50, 80, 100}
      OBVIOUS
    <3>2. HtmlTextResult(shape) = Share("html_text", part)
      BY DEF HtmlTextResult
    <3>. HIDE DEF part
    <3>. QED
      BY <3>1, <3>2
  <2>. QED
    BY <2>1, <2>2
<1>2. Share("html_text", pct) = Result(30 * pct, 3000)
  BY DEF Share, Weight
<1>3. PICK a : a = HtmlTextResult(shape)
  OBVIOUS
<1>4. Within(a, 3000) /\ (shape = "both" => a.earned = a.max)
  BY <1>1, <1>2, <1>3, ResultIs DEF Within
<1>. QED
  BY <1>3, <1>4, RisingOne DEF Full

\* Lists of checks: what the checks so far could earn at most, by how many
\* there are, up to cap for all of them.
CheckNames ==
  {"spf", "dkim", "dmarc", "ptr", "tls", "dnsbl", "rspamd", "list_unsub", "subject_caps",
   "html_text", "html_dangerous", "html_alt", "short_urls", "sender_mx"}
CheckSet == [name : CheckNames, results : Seq(Outcome), optional : BOOLEAN]
Ceiling(s, K) ==
  /\ K \in [0..Len(s) -> Nat] /\ K[0] = 0
  /\ \A i \in 1..Len(s) : Rising(s[i].results, K[i] - K[i - 1])
Fits(s, cap, shape) ==
  /\ s \in Seq(CheckSet)
  /\ shape = "both" => \A i \in 1..Len(s) : Full(s[i].results)
  /\ \E K : Ceiling(s, K) /\ K[Len(s)] <= cap

LEMMA FitsNone ==
  ASSUME NEW cap \in Nat, NEW shape
  PROVE  Fits(<<>>, cap, shape)
<1>. DEFINE K == [i \in 0..0 |-> 0]
<1>1. <<>> \in Seq(CheckSet) /\ Len(<<>>) = 0 /\ 1..0 = {}
  OBVIOUS
<1>2. K \in [0..0 -> Nat] /\ K[0] = 0
  OBVIOUS
<1>. HIDE DEF K
<1>. QED
  BY <1>1, <1>2 DEF Fits, Ceiling

LEMMA FitsOne ==
  ASSUME NEW check \in CheckSet, NEW cap \in Nat, NEW shape, Rising(check.results, cap),
         shape = "both" => Full(check.results)
  PROVE  Fits(<<check>>, cap, shape)
<1>. DEFINE K == [i \in 0..1 |-> IF i = 0 THEN 0 ELSE cap]
<1>1. <<check>> \in Seq(CheckSet) /\ Len(<<check>>) = 1 /\ <<check>>[1] = check
  OBVIOUS
<1>2. K \in [0..1 -> Nat] /\ K[0] = 0 /\ K[1] = cap /\ K[1] - K[0] = cap /\ K[1] <= cap
  OBVIOUS
<1>3. \A i \in 1..1 : i = 1 /\ i - 1 = 0
  OBVIOUS
<1>. HIDE DEF K
<1>4. Ceiling(<<check>>, K)
  BY <1>1, <1>2, <1>3 DEF Ceiling
<1>. QED
  BY <1>1, <1>2, <1>3, <1>4 DEF Fits

LEMMA FitsTwo ==
  ASSUME NEW s, NEW t, NEW c \in Nat, NEW d \in Nat, NEW shape, Fits(s, c, shape), Fits(t, d, shape)
  PROVE  Fits(s \o t, c + d, shape)
<1>1. PICK K : Ceiling(s, K) /\ K[Len(s)] <= c
  BY DEF Fits
<1>2. PICK J : Ceiling(t, J) /\ J[Len(t)] <= d
  BY DEF Fits
<1>3. PICK m, n : m = Len(s) /\ n = Len(t)
  OBVIOUS
<1>. DEFINE u == s \o t
            H == [i \in 0..m + n |-> IF i <= m THEN K[i] ELSE K[m] + J[i - m]]
<1>4. s \in Seq(CheckSet) /\ t \in Seq(CheckSet) /\ m \in Nat /\ n \in Nat
  BY <1>3 DEF Fits
<1>5. /\ u \in Seq(CheckSet) /\ Len(u) = m + n
      /\ \A i \in 1..m : u[i] = s[i]
      /\ \A i \in 1..n : u[m + i] = t[i]
  BY <1>3, <1>4
<1>6. /\ K \in [0..m -> Nat] /\ K[0] = 0 /\ \A i \in 1..m : Rising(s[i].results, K[i] - K[i - 1])
      /\ J \in [0..n -> Nat] /\ J[0] = 0 /\ \A i \in 1..n : Rising(t[i].results, J[i] - J[i - 1])
  BY <1>1, <1>2, <1>3 DEF Ceiling
<1>7. m \in 0..m /\ 0 \in 0..m /\ 0 \in 0..n /\ K[m] \in Nat
  BY <1>4, <1>6
<1>8. ASSUME NEW i \in 0..m + n
      PROVE  /\ i <= m => H[i] = K[i] /\ i \in 0..m
             /\ i >= m => H[i] = K[m] + J[i - m] /\ i - m \in 0..n
  <2>1. i <= m => H[i] = K[i] /\ i \in 0..m
    BY <1>4
  <2>2. i > m => H[i] = K[m] + J[i - m] /\ i - m \in 0..n
    BY <1>4
  <2>3. i = m => H[i] = K[m] + J[i - m] /\ i - m \in 0..n
    <3>1. m - m = 0 /\ K[m] + 0 = K[m]
      BY <1>4, <1>7
    <3>. QED
      BY <1>4, <1>6, <1>7, <2>1, <3>1
  <2>. QED
    BY <1>4, <2>1, <2>2, <2>3
<1>9. DOMAIN H = 0..m + n /\ H = [i \in 0..m + n |-> H[i]]
  OBVIOUS
<1>. HIDE DEF H, u
<1>10. H \in [0..m + n -> Nat]
  <2>1. ASSUME NEW i \in 0..m + n PROVE H[i] \in Nat
    <3>1. CASE i <= m
      BY <1>6, <1>8, <3>1
    <3>2. CASE i > m
      <4>1. H[i] = K[m] + J[i - m] /\ J[i - m] \in Nat
        BY <1>4, <1>6, <1>8, <3>2
      <4>. QED
        BY <1>7, <4>1
    <3>. QED
      BY <1>4, <3>1, <3>2
  <2>. QED
    BY <1>9, <2>1
<1>11. H[0] = 0 /\ H[m + n] <= c + d
  <2>1. 0 \in 0..m + n /\ m + n \in 0..m + n /\ (m + n) - m = n /\ n \in 0..n
    BY <1>4
  <2>2. H[0] = 0
    BY <1>4, <1>6, <1>8, <2>1
  <2>3. H[m + n] = K[m] + J[n] /\ J[n] \in Nat
    BY <1>4, <1>6, <1>8, <2>1
  <2>. QED
    BY <1>1, <1>2, <1>3, <1>7, <2>2, <2>3
<1>12. ASSUME NEW i \in 1..m + n PROVE Rising(u[i].results, H[i] - H[i - 1])
  <2>1. i \in 0..m + n /\ i - 1 \in 0..m + n
    BY <1>4
  <2>2. CASE i <= m
    <3>1. i \in 1..m /\ i - 1 <= m
      BY <1>4, <2>2
    <3>2. H[i] = K[i] /\ H[i - 1] = K[i - 1]
      BY <1>8, <2>1, <2>2, <3>1
    <3>. QED
      BY <1>5, <1>6, <3>1, <3>2
  <2>3. CASE ~(i <= m)
    <3>1. PICK k \in 1..n : k = i - m
      BY <1>4, <2>3
    <3>2. i >= m /\ i - 1 >= m /\ i - m = k /\ (i - 1) - m = k - 1 /\ m + k = i /\ k \in 0..n /\ k - 1 \in 0..n
      BY <1>4, <2>3, <3>1
    <3>3. H[i] = K[m] + J[k] /\ H[i - 1] = K[m] + J[k - 1]
      BY <1>8, <2>1, <3>2
    <3>4. J[k] \in Nat /\ J[k - 1] \in Nat
      BY <1>6, <3>2
    <3>5. H[i] - H[i - 1] = J[k] - J[k - 1]
      BY <1>7, <3>3, <3>4
    <3>6. u[i] = t[k]
      BY <1>5, <3>2
    <3>. QED
      BY <1>6, <3>1, <3>5, <3>6
  <2>. QED
    BY <2>2, <2>3
<1>13. Ceiling(u, H)
  BY <1>5, <1>10, <1>11, <1>12 DEF Ceiling
<1>14. ASSUME shape = "both", NEW i \in 1..m + n PROVE Full(u[i].results)
  <2>1. \A k \in 1..m : Full(s[k].results)
    BY <1>3, <1>14 DEF Fits
  <2>2. \A k \in 1..n : Full(t[k].results)
    BY <1>3, <1>14 DEF Fits
  <2>3. CASE i <= m
    BY <1>4, <1>5, <2>1, <2>3
  <2>4. CASE ~(i <= m)
    <3>1. i - m \in 1..n /\ m + (i - m) = i
      BY <1>4, <2>4
    <3>. QED
      BY <1>5, <2>2, <3>1
  <2>. QED
    BY <2>3, <2>4
<1>15. \E L : Ceiling(u, L) /\ L[Len(u)] <= c + d
  BY <1>5, <1>11, <1>13
<1>. QED
  BY <1>5, <1>14, <1>15 DEF Fits, u

\* SPF, DKIM and DMARC come first, can be failed, and are not left out.
Begins(s) ==
  /\ Len(s) >= 3
  /\ \A i \in 1..3 : s[i].results[1] = Result(0, 14000) /\ ~s[i].optional

LEMMA BeginsStill ==
  ASSUME NEW s, NEW t, NEW c, NEW d, NEW shape, Fits(s, c, shape), Fits(t, d, shape), Begins(s)
  PROVE  Begins(s \o t)
<1>1. s \in Seq(CheckSet) /\ t \in Seq(CheckSet) /\ Len(s) \in Nat /\ Len(t) \in Nat
  BY DEF Fits
<1>2. Len(s \o t) = Len(s) + Len(t) /\ \A i \in 1..Len(s) : (s \o t)[i] = s[i]
  BY <1>1
<1>3. Len(s) >= 3 /\ \A i \in 1..3 : i \in 1..Len(s)
  BY <1>1 DEF Begins
<1>. QED
  BY <1>1, <1>2, <1>3 DEF Begins

LEMMA PlanFits ==
  ASSUME NEW ip \in BOOLEAN, NEW shape \in Shapes
  PROVE  Fits(Plan(ip, shape), 99000, shape) /\ Begins(Plan(ip, shape))
<1>. DEFINE C(name, results, optional) == [name |-> name, results |-> results, optional |-> optional]
            c1 == C("spf", SpfResults, FALSE)
            c2 == C("dkim", DkimResults, FALSE)
            c3 == C("dmarc", DmarcResults, FALSE)
            c4 == C("ptr", PtrResults, FALSE)
            c5 == C("tls", TlsResults, TRUE)
            c6 == C("dnsbl", DnsblResults, FALSE)
            c7 == C("rspamd", RspamdResults, TRUE)
            c8 == C("list_unsub", ListUnsubResults, TRUE)
            c9 == C("subject_caps", CapsResults, FALSE)
            c10 == C("html_text", <<HtmlTextResult(shape)>>, FALSE)
            c11 == C("html_dangerous", DangerousResults, FALSE)
            c12 == C("html_alt", AltResults, FALSE)
            c13 == C("short_urls", ShortUrlResults, FALSE)
            c14 == C("sender_mx", MxResults, TRUE)
            a4 == IF ip THEN <<c4>> ELSE <<>>
            a6 == IF ip THEN <<c6>> ELSE <<>>
            body == <<c11>> \o <<c12>> \o <<c13>>
            a11 == IF HtmlBody(shape) THEN body ELSE <<>>
            start == <<c1>> \o <<c2>> \o <<c3>>
            whole == start \o a4 \o <<c5>> \o a6 \o <<c7>> \o <<c8>> \o <<c9>> \o <<c10>> \o a11 \o <<c14>>
<1>1. Plan(ip, shape) = whole
  BY DEF Plan
<1>2. /\ c1.results = SpfResults /\ c2.results = DkimResults /\ c3.results = DmarcResults
      /\ c4.results = PtrResults /\ c5.results = TlsResults /\ c6.results = DnsblResults
      /\ c7.results = RspamdResults /\ c8.results = ListUnsubResults /\ c9.results = CapsResults
      /\ c10.results = <<HtmlTextResult(shape)>> /\ c11.results = DangerousResults
      /\ c12.results = AltResults /\ c13.results = ShortUrlResults /\ c14.results = MxResults
  OBVIOUS
<1>3. /\ c1 \in CheckSet /\ c2 \in CheckSet /\ c3 \in CheckSet /\ c4 \in CheckSet /\ c5 \in CheckSet
      /\ c6 \in CheckSet /\ c7 \in CheckSet /\ c8 \in CheckSet /\ c9 \in CheckSet /\ c10 \in CheckSet
      /\ c11 \in CheckSet /\ c12 \in CheckSet /\ c13 \in CheckSet /\ c14 \in CheckSet
  <2>1. /\ SpfResults \in Seq(Outcome) /\ DkimResults \in Seq(Outcome)
        /\ DmarcResults \in Seq(Outcome) /\ PtrResults \in Seq(Outcome)
        /\ RspamdResults \in Seq(Outcome) /\ <<HtmlTextResult(shape)>> \in Seq(Outcome)
    <3>1. Rising(<<HtmlTextResult(shape)>>, 3000)
      BY HtmlTextRises
    <3>2. <<HtmlTextResult(shape)>> \in Seq(Outcome)
      BY <3>1, Zenon DEF Rising
    <3>. QED
      BY <3>2, ThreeRise, DmarcRises, PtrRises, RspamdRises DEF Rising
  <2>2. /\ TlsResults \in Seq(Outcome) /\ DnsblResults \in Seq(Outcome)
        /\ ListUnsubResults \in Seq(Outcome) /\ CapsResults \in Seq(Outcome)
        /\ DangerousResults \in Seq(Outcome) /\ AltResults \in Seq(Outcome)
        /\ ShortUrlResults \in Seq(Outcome) /\ MxResults \in Seq(Outcome)
    BY OthersRise DEF Rising
  <2>3. c1 \in CheckSet /\ c2 \in CheckSet /\ c3 \in CheckSet /\ c4 \in CheckSet /\ c7 \in CheckSet
    BY <2>1 DEF CheckSet, CheckNames
  <2>4. c10 \in CheckSet
    BY <2>1 DEF CheckSet, CheckNames
  <2>5. c5 \in CheckSet /\ c6 \in CheckSet /\ c8 \in CheckSet /\ c9 \in CheckSet
    BY <2>2 DEF CheckSet, CheckNames
  <2>6. c11 \in CheckSet /\ c12 \in CheckSet /\ c13 \in CheckSet /\ c14 \in CheckSet
    BY <2>2 DEF CheckSet, CheckNames
  <2>. HIDE DEF c1, c2, c3, c4, c5, c6, c7, c8, c9, c10, c11, c12, c13, c14
  <2>. QED
    BY <2>3, <2>4, <2>5, <2>6
<1>4. ~c1.optional /\ ~c2.optional /\ ~c3.optional
  OBVIOUS
<1>. HIDE DEF c1, c2, c3, c4, c5, c6, c7, c8, c9, c10, c11, c12, c13, c14
<1>5. Fits(<<c1>>, 14000, shape) /\ Fits(<<c2>>, 14000, shape)
  BY <1>2, <1>3, FitsOne, ThreeRise
<1>6. Fits(<<c3>>, 14000, shape)
  BY <1>2, <1>3, FitsOne, DmarcRises
<1>7. Fits(a4, 11000, shape)
  BY <1>2, <1>3, FitsOne, FitsNone, PtrRises
<1>8. /\ Fits(<<c5>>, 6000, shape) /\ Fits(<<c8>>, 4000, shape) /\ Fits(<<c9>>, 2000, shape)
      /\ Fits(<<c11>>, 3000, shape) /\ Fits(<<c12>>, 2000, shape) /\ Fits(<<c13>>, 2000, shape)
      /\ Fits(<<c14>>, 2000, shape)
  BY <1>2, <1>3, FitsOne, OthersRise
<1>9. Fits(a6, 8000, shape)
  BY <1>2, <1>3, FitsOne, FitsNone, OthersRise
<1>10. Fits(<<c7>>, 14000, shape)
  BY <1>2, <1>3, FitsOne, RspamdRises
<1>11. Fits(<<c10>>, 3000, shape)
  BY <1>2, <1>3, FitsOne, HtmlTextRises
<1>12. Fits(a11, 7000, shape)
  <2>1. Fits(<<c11>> \o <<c12>>, 3000 + 2000, shape)
    BY <1>8, FitsTwo
  <2>2. Fits(body, (3000 + 2000) + 2000, shape)
    BY <1>8, <2>1, FitsTwo
  <2>3. (3000 + 2000) + 2000 = 7000
    OBVIOUS
  <2>4. Fits(body, 7000, shape)
    BY <2>2, <2>3
  <2>. HIDE DEF body
  <2>. QED
    BY <2>4, FitsNone
<1>13. Fits(start, 42000, shape)
  <2>1. Fits(<<c1>> \o <<c2>>, 14000 + 14000, shape)
    BY <1>5, FitsTwo
  <2>2. Fits(start, (14000 + 14000) + 14000, shape)
    BY <1>6, <2>1, FitsTwo
  <2>3. (14000 + 14000) + 14000 = 42000
    OBVIOUS
  <2>. QED
    BY <2>2, <2>3
<1>14. Begins(start)
  <2>1. Len(start) = 3 /\ start[1] = c1 /\ start[2] = c2 /\ start[3] = c3
    OBVIOUS
  <2>2. \A i \in 1..3 : i = 1 \/ i = 2 \/ i = 3
    OBVIOUS
  <2>3. /\ c1.results[1] = Result(0, 14000) /\ c2.results[1] = Result(0, 14000)
        /\ c3.results[1] = Result(0, 14000)
    BY <1>2, ThreeRise, DmarcRises
  <2>. HIDE DEF start
  <2>. QED
    BY <1>4, <2>1, <2>2, <2>3 DEF Begins
<1>. HIDE DEF start, a4, a6, a11
<1>15. ASSUME NEW s, NEW c \in Nat, NEW t, NEW d \in Nat, Fits(s, c, shape), Begins(s), Fits(t, d, shape)
       PROVE  Fits(s \o t, c + d, shape) /\ Begins(s \o t)
  BY <1>15, FitsTwo, BeginsStill
<1>16. PICK s4 : s4 = start \o a4
  OBVIOUS
<1>17. Fits(s4, 53000, shape) /\ Begins(s4)
  <2>1. Fits(start \o a4, 42000 + 11000, shape) /\ Begins(start \o a4) /\ 42000 + 11000 = 53000
    BY <1>7, <1>13, <1>14, <1>15
  <2>. QED
    BY <1>16, <2>1
<1>18. PICK s5 : s5 = s4 \o <<c5>>
  OBVIOUS
<1>19. Fits(s5, 59000, shape) /\ Begins(s5)
  <2>1. Fits(s4 \o <<c5>>, 53000 + 6000, shape) /\ Begins(s4 \o <<c5>>) /\ 53000 + 6000 = 59000
    BY <1>8, <1>15, <1>17
  <2>. QED
    BY <1>18, <2>1
<1>20. PICK s6 : s6 = s5 \o a6
  OBVIOUS
<1>21. Fits(s6, 67000, shape) /\ Begins(s6)
  <2>1. Fits(s5 \o a6, 59000 + 8000, shape) /\ Begins(s5 \o a6) /\ 59000 + 8000 = 67000
    BY <1>9, <1>15, <1>19
  <2>. QED
    BY <1>20, <2>1
<1>22. PICK s7 : s7 = s6 \o <<c7>>
  OBVIOUS
<1>23. Fits(s7, 81000, shape) /\ Begins(s7)
  <2>1. Fits(s6 \o <<c7>>, 67000 + 14000, shape) /\ Begins(s6 \o <<c7>>) /\ 67000 + 14000 = 81000
    BY <1>10, <1>15, <1>21
  <2>. QED
    BY <1>22, <2>1
<1>24. PICK s8 : s8 = s7 \o <<c8>>
  OBVIOUS
<1>25. Fits(s8, 85000, shape) /\ Begins(s8)
  <2>1. Fits(s7 \o <<c8>>, 81000 + 4000, shape) /\ Begins(s7 \o <<c8>>) /\ 81000 + 4000 = 85000
    BY <1>8, <1>15, <1>23
  <2>. QED
    BY <1>24, <2>1
<1>26. PICK s9 : s9 = s8 \o <<c9>>
  OBVIOUS
<1>27. Fits(s9, 87000, shape) /\ Begins(s9)
  <2>1. Fits(s8 \o <<c9>>, 85000 + 2000, shape) /\ Begins(s8 \o <<c9>>) /\ 85000 + 2000 = 87000
    BY <1>8, <1>15, <1>25
  <2>. QED
    BY <1>26, <2>1
<1>28. PICK s10 : s10 = s9 \o <<c10>>
  OBVIOUS
<1>29. Fits(s10, 90000, shape) /\ Begins(s10)
  <2>1. Fits(s9 \o <<c10>>, 87000 + 3000, shape) /\ Begins(s9 \o <<c10>>) /\ 87000 + 3000 = 90000
    BY <1>11, <1>15, <1>27
  <2>. QED
    BY <1>28, <2>1
<1>30. PICK s11 : s11 = s10 \o a11
  OBVIOUS
<1>31. Fits(s11, 97000, shape) /\ Begins(s11)
  <2>1. Fits(s10 \o a11, 90000 + 7000, shape) /\ Begins(s10 \o a11) /\ 90000 + 7000 = 97000
    BY <1>12, <1>15, <1>29
  <2>. QED
    BY <1>30, <2>1
<1>32. PICK s14 : s14 = s11 \o <<c14>>
  OBVIOUS
<1>33. Fits(s14, 99000, shape) /\ Begins(s14)
  <2>1. Fits(s11 \o <<c14>>, 97000 + 2000, shape) /\ Begins(s11 \o <<c14>>) /\ 97000 + 2000 = 99000
    BY <1>8, <1>15, <1>31
  <2>. QED
    BY <1>32, <2>1
<1>34. whole = s14
  BY <1>16, <1>18, <1>20, <1>22, <1>24, <1>26, <1>28, <1>30, <1>32
<1>. HIDE DEF whole
<1>. QED
  BY <1>1, <1>33, <1>34

\* Totals: integer division, and the order of two quotients.
LEMMA DivIs ==
  ASSUME NEW x \in Nat, NEW y \in Nat, y > 0
  PROVE  x \div y \in Nat /\ (x \div y) * y <= x /\ x < (x \div y) * y + y
OBVIOUS

LEMMA TimesKeeps ==
  ASSUME NEW a \in Nat, NEW b \in Nat, NEW c \in Nat, a <= b
  PROVE  a * c <= b * c /\ c * a <= c * b /\ a * c \in Nat /\ b * c \in Nat
OBVIOUS

LEMMA QuotientsInOrder ==
  ASSUME NEW x \in Nat, NEW y \in Nat, NEW u \in Nat, NEW v \in Nat, y > 0, v > 0,
         x * v <= u * y
  PROVE  x \div y <= u \div v
<1>1. PICK q \in Nat : q = x \div y /\ q * y <= x
  BY DivIs
<1>2. PICK r \in Nat : r = u \div v /\ u < r * v + v
  BY DivIs
<1>3. SUFFICES ASSUME q >= r + 1 PROVE FALSE
  BY <1>1, <1>2
<1>4. (q * y) * v <= x * v
  BY <1>1, TimesKeeps
<1>5. (r * v + v) * y <= (q * v) * y
  <2>1. (r + 1) * v <= q * v /\ (r + 1) * v = r * v + v
    BY <1>3
  <2>2. r * v + v <= q * v /\ r * v + v \in Nat /\ q * v \in Nat
    BY <2>1
  <2>. QED
    BY <2>2, TimesKeeps
<1>6. u * y < (r * v + v) * y
  <2>1. u + 1 <= r * v + v /\ u + 1 \in Nat /\ r * v + v \in Nat
    BY <1>2
  <2>2. (u + 1) * y <= (r * v + v) * y
    BY <2>1, TimesKeeps
  <2>3. (u + 1) * y = u * y + y
    OBVIOUS
  <2>. QED
    BY <2>1, <2>2, <2>3
<1>7. (q * y) * v = (q * v) * y
  OBVIOUS
<1>8. PICK a, b, c, d \in Int : a = (q * y) * v /\ b = x * v /\ c = u * y /\ d = (r * v + v) * y
  OBVIOUS
<1>9. a <= b /\ b <= c /\ c < d /\ d <= a
  BY <1>4, <1>5, <1>6, <1>7, <1>8
<1>. QED
  BY <1>8, <1>9

\* One that earns as much more as it could earn more does not have a lower total.
LEMMA TotalsInOrder ==
  ASSUME NEW a \in Outcome, NEW b \in Outcome, a.earned <= a.max, b.earned <= b.max, Better(a, b)
  PROVE  Total(a) <= Total(b)
<1>1. PICK e \in Nat : e = a.earned
  BY DEF Outcome
<1>2. PICK m \in Nat : m = a.max
  BY DEF Outcome
<1>3. PICK f \in Nat : f = b.earned
  BY DEF Outcome
<1>4. PICK n \in Nat : n = b.max
  BY DEF Outcome
<1>5. e <= m /\ f <= n /\ m <= n /\ n + e <= f + m
  BY <1>1, <1>2, <1>3, <1>4 DEF Better
<1>. DEFINE t(p, s) == IF s = 0 THEN 0 ELSE (2000 * p + s) \div (2 * s)
            Capped(z) == IF z > 1000 THEN 1000 ELSE z
<1>6. Total(a) = Capped(t(e, m)) /\ Total(b) = Capped(t(f, n))
  BY <1>1, <1>2, <1>3, <1>4 DEF Total
<1>7. t(f, n) \in Nat /\ t(e, m) \in Nat
  <2>1. n # 0 => 2000 * f + n \in Nat /\ 2 * n \in Nat /\ 2 * n > 0
    OBVIOUS
  <2>2. m # 0 => 2000 * e + m \in Nat /\ 2 * m \in Nat /\ 2 * m > 0
    OBVIOUS
  <2>. QED
    BY <2>1, <2>2, DivIs
<1>8. t(e, m) <= t(f, n)
  <2>1. CASE m = 0
    BY <1>7, <2>1
  <2>2. CASE m # 0
    <3>. DEFINE x == 2000 * e + m
                y == 2 * m
                u == 2000 * f + n
                v == 2 * n
    <3>1. x \in Nat /\ y \in Nat /\ u \in Nat /\ v \in Nat /\ y > 0 /\ v > 0 /\ n # 0
      BY <1>5, <2>2
    <3>2. e * n <= f * m
      <4>1. PICK d \in Nat : n = m + d
        <5>1. n - m \in Nat /\ n = m + (n - m)
          BY <1>5
        <5>. QED
          BY <5>1
      <4>2. e + d <= f
        BY <1>5, <4>1
      <4>3. (e + d) * m <= f * m
        BY <4>2, TimesKeeps
      <4>4. (e + d) * m = e * m + d * m
        OBVIOUS
      <4>5. e * d <= m * d
        BY <1>5, TimesKeeps
      <4>6. e * n = e * m + e * d
        BY <4>1
      <4>7. m * d = d * m
        OBVIOUS
      <4>8. PICK p, q, r, s, w \in Int : p = e * m /\ q = d * m /\ r = e * d /\ s = f * m /\ w = e * n
        OBVIOUS
      <4>9. p + q <= s /\ r <= q /\ w = p + r
        BY <4>3, <4>4, <4>5, <4>6, <4>7, <4>8
      <4>10. w <= s
        BY <4>8, <4>9
      <4>. QED
        BY <4>8, <4>10
    <3>3. x * v <= u * y
      <4>1. x * v = 4000 * (e * n) + 2 * (m * n)
        OBVIOUS
      <4>2. u * y = 4000 * (f * m) + 2 * (m * n)
        OBVIOUS
      <4>3. PICK p, q, r \in Int : p = e * n /\ q = f * m /\ r = m * n
        OBVIOUS
      <4>4. p <= q => 4000 * p + 2 * r <= 4000 * q + 2 * r
        BY <4>3
      <4>. HIDE DEF x, y, u, v
      <4>. QED
        BY <3>2, <4>1, <4>2, <4>3, <4>4
    <3>4. t(e, m) = x \div y /\ t(f, n) = u \div v
      BY <2>2, <3>1
    <3>. HIDE DEF x, y, u, v, t
    <3>5. x \div y <= u \div v
      BY <3>1, <3>3, QuotientsInOrder
    <3>. QED
      BY <3>4, <3>5
  <2>. QED
    BY <2>1, <2>2
<1>. HIDE DEF t
<1>. QED
  BY <1>6, <1>7, <1>8

LEMMA FullTotal ==
  ASSUME NEW b \in Outcome, b.earned = b.max, b.max > 0
  PROVE  Total(b) = 1000
<1>1. PICK m \in Nat : m = b.max /\ m > 0
  BY DEF Outcome
<1>2. PICK q \in Nat : q = (2000 * m + m) \div (2 * m) /\ q * (2 * m) <= 2000 * m + m
                       /\ 2000 * m + m < q * (2 * m) + 2 * m
  <2>1. 2000 * m + m \in Nat /\ 2 * m \in Nat /\ 2 * m > 0
    BY <1>1
  <2>. QED
    BY <2>1, DivIs
<1>3. q = 1000
  <2>1. PICK k \in Nat : k = 2 * m
    BY <1>1
  <2>2. q > 1000 => 1001 * k <= q * k
    BY TimesKeeps
  <2>3. q < 1000 => (q + 1) * k <= 1000 * k
    BY TimesKeeps
  <2>4. (q + 1) * k = q * k + k
    OBVIOUS
  <2>5. PICK z \in Int : z = q * k
    OBVIOUS
  <2>6. z <= 2000 * m + m /\ 2000 * m + m < z + k
    BY <1>2, <2>1, <2>5
  <2>7. ~(q > 1000)
    BY <1>1, <2>1, <2>2, <2>5, <2>6
  <2>8. ~(q < 1000)
    BY <1>1, <2>1, <2>3, <2>4, <2>5, <2>6
  <2>. QED
    BY <2>7, <2>8
<1>. QED
  BY <1>1, <1>2, <1>3 DEF Total

LEMMA FailedTotal ==
  ASSUME NEW b \in Outcome, b.earned + 42000 <= b.max, b.max <= 99000
  PROVE  Total(b) < 600
<1>1. PICK e \in Nat : e = b.earned
  BY DEF Outcome
<1>2. PICK m \in Nat : m = b.max /\ e + 42000 <= m /\ m <= 99000
  BY <1>1 DEF Outcome
<1>3. PICK q \in Nat : q = (2000 * e + m) \div (2 * m) /\ q * (2 * m) <= 2000 * e + m
  <2>1. 2000 * e + m \in Nat /\ 2 * m \in Nat /\ 2 * m > 0
    BY <1>2
  <2>. QED
    BY <2>1, DivIs
<1>4. q < 600
  <2>1. PICK k \in Nat : k = 2 * m
    BY <1>2
  <2>2. q >= 600 => 600 * k <= q * k
    BY TimesKeeps
  <2>3. PICK z \in Int : z = q * k
    OBVIOUS
  <2>. QED
    BY <1>2, <1>3, <2>1, <2>2, <2>3
<1>. QED
  BY <1>1, <1>2, <1>3, <1>4 DEF Total

\* The better of the two mails earned as much more as it could earn more; each
\* of SPF, DKIM and DMARC that failed is a loss of all its weight; and what
\* could be earned is within what the checks made come to.
ScoreInv ==
  /\ mail \in [ip : BOOLEAN, shape : Shapes] /\ at \in 0..Len(Checks)
  /\ Within(lo, lo.max) /\ Within(hi, hi.max) /\ Better(lo, hi)
  /\ faults \in [skipped : Nat, short : Nat, auth : Nat]
  /\ mail.shape = "both" /\ faults.short = 0 => lo.earned = lo.max
  /\ at >= 1 => lo.max > 0
  /\ lo.earned + 14000 * faults.auth <= lo.max
  /\ \A K : Ceiling(Checks, K) => lo.max <= K[at]

LEMMA ScoreStart == ScoreInit => ScoreInv
<1>. SUFFICES ASSUME ScoreInit PROVE ScoreInv
  OBVIOUS
<1>1. /\ mail \in [ip : BOOLEAN, shape : Shapes] /\ at = 0 /\ lo = Result(0, 0) /\ hi = Result(0, 0)
      /\ faults = [skipped |-> 0, short |-> 0, auth |-> 0]
  BY DEF ScoreInit, Shapes
<1>2. lo.earned = 0 /\ lo.max = 0 /\ hi.earned = 0 /\ hi.max = 0 /\ lo \in Outcome /\ hi \in Outcome
  BY <1>1, ResultIs
<1>3. Checks \in Seq(CheckSet)
  BY <1>1, PlanFits DEF Checks, Fits
<1>4. at \in 0..Len(Checks)
  BY <1>1, <1>3
<1>5. Within(lo, lo.max) /\ Within(hi, hi.max) /\ Better(lo, hi)
  BY <1>2 DEF Within, Better
<1>6. \A K : Ceiling(Checks, K) => lo.max <= K[at]
  BY <1>1, <1>2 DEF Ceiling
<1>. QED
  BY <1>1, <1>2, <1>4, <1>5, <1>6 DEF ScoreInv

\* The check at hand.
LEMMA CheckAtHand ==
  ASSUME ScoreInv, at < Len(Checks)
  PROVE  LET check == Checks[at + 1]
         IN /\ \E cap : Rising(check.results, cap)
            /\ \A K : Ceiling(Checks, K) => Rising(check.results, K[at + 1] - K[at]) /\ K[at + 1] \in Nat /\ K[at] \in Nat
            /\ mail.shape = "both" => Full(check.results)
            /\ at < 3 => check.results[1] = Result(0, 14000) /\ ~check.optional
            /\ at + 1 \in 0..Len(Checks) /\ at \in Nat
<1>1. mail.ip \in BOOLEAN /\ mail.shape \in Shapes /\ at \in 0..Len(Checks)
  BY DEF ScoreInv
<1>2. Fits(Checks, 99000, mail.shape) /\ Begins(Checks)
  BY <1>1, PlanFits DEF Checks
<1>3. Checks \in Seq(CheckSet) /\ Len(Checks) \in Nat
  BY <1>2 DEF Fits
<1>4. PICK i \in 1..Len(Checks) : i = at + 1
  BY <1>1, <1>3
<1>5. \A K : Ceiling(Checks, K) => Rising(Checks[i].results, K[i] - K[i - 1])
  BY DEF Ceiling
<1>6. i - 1 = at /\ at \in Nat /\ at \in 0..Len(Checks) /\ i \in 0..Len(Checks)
  BY <1>1, <1>3, <1>4
<1>7. \E cap : Rising(Checks[i].results, cap)
  BY <1>2, <1>5 DEF Fits
<1>8. at < 3 => Checks[i].results[1] = Result(0, 14000) /\ ~Checks[i].optional
  BY <1>2, <1>4, <1>6 DEF Begins
<1>9. mail.shape = "both" => Full(Checks[i].results)
  BY <1>2 DEF Fits
<1>10. \A K : Ceiling(Checks, K) => K[i] \in Nat /\ K[at] \in Nat
  BY <1>6 DEF Ceiling
<1>. QED
  BY <1>4, <1>5, <1>6, <1>7, <1>8, <1>9, <1>10

LEMMA AddIs ==
  ASSUME NEW x \in Outcome, NEW r \in Outcome
  PROVE  /\ Add(x, r) \in Outcome
         /\ Add(x, r).earned = x.earned + r.earned /\ Add(x, r).max = x.max + r.max
<1>1. x.earned + r.earned \in Nat /\ x.max + r.max \in Nat
  BY DEF Outcome
<1>. QED
  BY <1>1, ResultIs DEF Add

LEMMA AddKeepsOrder ==
  ASSUME NEW x, NEW y, NEW r, NEW q, NEW cap, Within(x, x.max), Within(y, y.max), Better(x, y),
         Within(r, cap), Within(q, cap), Better(r, q)
  PROVE  /\ Within(Add(x, r), Add(x, r).max) /\ Within(Add(y, q), Add(y, q).max)
         /\ Better(Add(x, r), Add(y, q))
<1>1. x \in Outcome /\ y \in Outcome /\ r \in Outcome /\ q \in Outcome
  BY DEF Within
<1>2. ASSUME NEW u \in Outcome, NEW v \in Outcome, u.earned <= u.max, v.earned <= v.max
      PROVE  Within(Add(u, v), Add(u, v).max)
  BY <1>2, AddIs DEF Within, Outcome
<1>3. Better(Add(x, r), Add(y, q))
  BY <1>1, AddIs DEF Better, Outcome
<1>. QED
  BY <1>1, <1>2, <1>3 DEF Within

LEMMA FaultsAre ==
  ASSUME NEW h \in [skipped : Nat, short : Nat, auth : Nat], NEW x \in Nat, NEW y \in Nat,
         NEW k, k = [h EXCEPT !.short = @ + x, !.auth = @ + y]
  PROVE  /\ k \in [skipped : Nat, short : Nat, auth : Nat]
         /\ k.short = h.short + x /\ k.auth = h.auth + y
<1>1. PICK m : m = [h EXCEPT !.short = h.short + x]
  OBVIOUS
<1>2. h.short \in Nat /\ h.auth \in Nat /\ h.short + x \in Nat /\ h.auth + y \in Nat
  OBVIOUS
<1>3. m \in [skipped : Nat, short : Nat, auth : Nat] /\ m.short = h.short + x /\ m.auth = h.auth
  BY <1>1, <1>2
<1>4. k = [m EXCEPT !.auth = h.auth + y]
  BY <1>1, <1>3
<1>. QED
  BY <1>2, <1>3, <1>4

LEMMA JudgeKeeps ==
  ASSUME ScoreInv, at < Len(Checks), Judge, at' = at + 1, mail' = mail
  PROVE  ScoreInv'
<1>. DEFINE check == Checks[at + 1]
            best == Len(check.results)
<1>0. PICK f \in 1..best : \E g \in f..best :
         /\ lo' = Add(lo, check.results[f]) /\ hi' = Add(hi, check.results[g])
         /\ faults' = [faults EXCEPT !.short = @ + (IF f < best THEN 1 ELSE 0),
                                     !.auth = @ + (IF f = 1 /\ at < 3 THEN 1 ELSE 0)]
  BY DEF Judge
<1>1. PICK g \in f..best :
         /\ lo' = Add(lo, check.results[f]) /\ hi' = Add(hi, check.results[g])
         /\ faults' = [faults EXCEPT !.short = @ + (IF f < best THEN 1 ELSE 0),
                                     !.auth = @ + (IF f = 1 /\ at < 3 THEN 1 ELSE 0)]
  BY <1>0
<1>2. /\ \E cap : Rising(check.results, cap)
      /\ \A K : Ceiling(Checks, K) => Rising(check.results, K[at + 1] - K[at]) /\ K[at + 1] \in Nat /\ K[at] \in Nat
      /\ mail.shape = "both" => Full(check.results)
      /\ at < 3 => check.results[1] = Result(0, 14000)
      /\ at + 1 \in 0..Len(Checks) /\ at \in Nat
  BY CheckAtHand
<1>. HIDE DEF check
<1>3. PICK cap : Rising(check.results, cap)
  BY <1>2
<1>4. check.results \in Seq(Outcome) /\ best \in Nat /\ best >= 1 /\ 1 \in 1..best /\ f \in 1..best /\ g \in 1..best
  BY <1>3 DEF Rising
<1>5. PICK r, q : r = check.results[f] /\ q = check.results[g]
  OBVIOUS
<1>6. Within(r, cap) /\ Within(q, cap) /\ Better(r, q) /\ Better(check.results[1], r)
  BY <1>3, <1>4, <1>5 DEF Rising
<1>7. PICK a, b, c, d \in Nat : a = r.earned /\ b = r.max /\ c = q.earned /\ d = q.max
  BY <1>6 DEF Within, Outcome
<1>8. PICK le, lm, he, hm \in Nat : le = lo.earned /\ lm = lo.max /\ he = hi.earned /\ hm = hi.max
  BY DEF ScoreInv, Within, Outcome
<1>9. lo' = Result(le + a, lm + b) /\ hi' = Result(he + c, hm + d)
  BY <1>1, <1>5, <1>7, <1>8 DEF Add
<1>10. a <= b /\ c <= d /\ b <= d /\ d + a <= c + b
  BY <1>6, <1>7 DEF Within, Better
<1>11. le <= lm /\ he <= hm /\ lm <= hm /\ hm + le <= he + lm
  BY <1>8 DEF ScoreInv, Within, Better
<1>12. Within(lo', (lo').max) /\ Within(hi', (hi').max) /\ Better(lo', hi')
  <2>1. lo' = Add(lo, r) /\ hi' = Add(hi, q)
    BY <1>1, <1>5
  <2>2. Within(lo, lo.max) /\ Within(hi, hi.max) /\ Better(lo, hi)
    BY DEF ScoreInv
  <2>. QED
    BY <1>6, <2>1, <2>2, AddKeepsOrder
<1>13. PICK fs, fa \in Nat : fs = faults.short /\ fa = faults.auth
  BY DEF ScoreInv
<1>14. /\ faults' \in [skipped : Nat, short : Nat, auth : Nat]
       /\ faults'.short = fs + (IF f < best THEN 1 ELSE 0)
       /\ faults'.auth = fa + (IF f = 1 /\ at < 3 THEN 1 ELSE 0)
  <2>1. PICK x, y \in {0, 1} : /\ x = IF f < best THEN 1 ELSE 0
                              /\ y = IF f = 1 /\ at < 3 THEN 1 ELSE 0
    OBVIOUS
  <2>2. faults' = [faults EXCEPT !.short = @ + x, !.auth = @ + y]
    BY <1>1, <2>1
  <2>3. faults \in [skipped : Nat, short : Nat, auth : Nat]
    BY DEF ScoreInv
  <2>4. /\ faults' \in [skipped : Nat, short : Nat, auth : Nat]
        /\ faults'.short = fs + x /\ faults'.auth = fa + y
    BY <1>13, <2>1, <2>2, <2>3, FaultsAre
  <2>. QED
    BY <2>1, <2>4
<1>15. mail.shape = "both" /\ faults'.short = 0 => (lo').earned = (lo').max
  <2>. SUFFICES ASSUME mail.shape = "both", faults'.short = 0 PROVE (lo').earned = (lo').max
    OBVIOUS
  <2>1. fs = 0 /\ f = best
    BY <1>4, <1>13, <1>14
  <2>2. le = lm
    BY <1>8, <1>13, <2>1 DEF ScoreInv
  <2>3. a = b
    BY <1>2, <1>5, <1>7, <2>1 DEF Full
  <2>. QED
    BY <1>9, <2>2, <2>3, ResultIs
<1>16. (lo').max > 0
  <2>1. at >= 1 => lm > 0
    BY <1>8 DEF ScoreInv
  <2>2. at < 1 => b >= 14000
    BY <1>2, <1>6, <1>7, ResultIs, SMTT(30) DEF Better
  <2>. QED
    BY <1>2, <1>9, <2>1, <2>2, ResultIs
<1>17. (lo').earned + 14000 * faults'.auth <= (lo').max
  <2>1. le + 14000 * fa <= lm
    BY <1>8, <1>13 DEF ScoreInv
  <2>2. CASE f = 1 /\ at < 3
    <3>1. a = 0 /\ b = 14000
      BY <1>2, <1>5, <1>7, <2>2, ResultIs
    <3>2. faults'.auth = fa + 1
      BY <1>14, <2>2
    <3>3. (le + a) + 14000 * (fa + 1) <= lm + b
      BY <2>1, <3>1
    <3>. QED
      BY <1>9, <3>2, <3>3, ResultIs
  <2>3. CASE ~(f = 1 /\ at < 3)
    <3>1. faults'.auth = fa
      BY <1>14, <2>3
    <3>2. (le + a) + 14000 * fa <= lm + b
      BY <1>10, <2>1
    <3>. QED
      BY <1>9, <3>1, <3>2, ResultIs
  <2>. QED
    BY <2>2, <2>3
<1>18. ASSUME NEW K, Ceiling(Checks, K) PROVE (lo').max <= K[at + 1]
  <2>1. lm <= K[at] /\ Rising(check.results, K[at + 1] - K[at]) /\ K[at + 1] \in Nat /\ K[at] \in Nat
    BY <1>2, <1>8, <1>18 DEF ScoreInv
  <2>2. b <= K[at + 1] - K[at]
    BY <1>4, <1>5, <1>7, <2>1 DEF Rising, Within
  <2>. QED
    BY <1>9, <2>1, <2>2, ResultIs
<1>19. Checks' = Checks
  BY DEF Checks
<1>. QED
  BY <1>2, <1>12, <1>14, <1>15, <1>16, <1>17, <1>18, <1>19 DEF ScoreInv

LEMMA SkipKeeps ==
  ASSUME ScoreInv, at < Len(Checks), Skip, at' = at + 1, mail' = mail
  PROVE  ScoreInv'
<1>. DEFINE check == Checks[at + 1]
<1>1. /\ lo' = Add(lo, Result(0, 0)) /\ hi' = Add(hi, Result(0, 0)) /\ check.optional
      /\ faults' = [faults EXCEPT !.skipped = @ + 1]
  BY DEF Skip, Skipped
<1>2. /\ \A K : Ceiling(Checks, K) => Rising(check.results, K[at + 1] - K[at]) /\ K[at + 1] \in Nat /\ K[at] \in Nat
      /\ at < 3 => ~check.optional
      /\ at + 1 \in 0..Len(Checks) /\ at \in Nat
  BY CheckAtHand
<1>. HIDE DEF check
<1>3. lo \in Outcome /\ hi \in Outcome
  BY DEF ScoreInv, Within
<1>4. lo' = lo /\ hi' = hi
  <2>1. \A x \in Outcome : Add(x, Result(0, 0)) = x
    BY DEF Add, Result, Outcome
  <2>. QED
    BY <1>1, <1>3, <2>1
<1>5. /\ faults' \in [skipped : Nat, short : Nat, auth : Nat]
      /\ faults'.short = faults.short /\ faults'.auth = faults.auth
  BY <1>1 DEF ScoreInv
<1>6. at >= 3
  BY <1>1, <1>2
<1>7. ASSUME NEW K, Ceiling(Checks, K) PROVE lo.max <= K[at + 1]
  <2>1. /\ lo.max <= K[at] /\ Rising(check.results, K[at + 1] - K[at]) /\ K[at + 1] \in Nat /\ K[at] \in Nat
        /\ lo.max \in Nat
    BY <1>2, <1>3, <1>7 DEF ScoreInv, Outcome
  <2>2. \E x \in Outcome : x.max <= K[at + 1] - K[at]
    <3>1. 1 \in 1..Len(check.results)
      BY <2>1 DEF Rising
    <3>. QED
      BY <2>1, <3>1 DEF Rising, Within
  <2>. QED
    BY <2>1, <2>2 DEF Outcome
<1>8. Checks' = Checks
  BY DEF Checks
<1>. QED
  BY <1>2, <1>4, <1>5, <1>6, <1>7, <1>8 DEF ScoreInv

LEMMA ScoreStep == ScoreInv /\ [ScoreNext]_scoreVars => ScoreInv'
<1>. SUFFICES ASSUME ScoreInv, [ScoreNext]_scoreVars PROVE ScoreInv'
  OBVIOUS
<1>1. CASE ScoreNext
  BY <1>1, JudgeKeeps, SkipKeeps DEF ScoreNext
<1>2. CASE UNCHANGED scoreVars
  <2>1. Checks' = Checks
    BY <1>2 DEF scoreVars, Checks
  <2>. QED
    BY <1>2, <2>1 DEF scoreVars, ScoreInv
<1>. QED
  BY <1>1, <1>2

\* Of two mails that differ in one check, the one that does better there never
\* has the lower score, although what could be earned differs as well; a mail
\* of both parts without fault has full marks whatever was left out, and one
\* that fails SPF, DKIM and DMARC stays below six (ScoresAreFair).
THEOREM ScoresAlwaysFair == ScoreSpec => []ScoresAreFair
<1>1. ScoreInv => ScoresAreFair
  <2>. SUFFICES ASSUME ScoreInv PROVE ScoresAreFair
    OBVIOUS
  <2>1. /\ lo \in Outcome /\ hi \in Outcome /\ lo.earned <= lo.max /\ hi.earned <= hi.max
        /\ Better(lo, hi)
    BY DEF ScoreInv, Within
  <2>2. Total(lo) <= Total(hi)
    BY <2>1, TotalsInOrder
  <2>3. ASSUME at = Len(Checks)
        PROVE  at >= 1 /\ lo.max <= 99000
    <3>1. Fits(Checks, 99000, mail.shape) /\ Begins(Checks)
      <4>1. mail.ip \in BOOLEAN /\ mail.shape \in Shapes
        BY DEF ScoreInv
      <4>. QED
        BY <4>1, PlanFits DEF Checks
    <3>2. PICK K : Ceiling(Checks, K) /\ K[Len(Checks)] <= 99000
      BY <3>1 DEF Fits
    <3>3. lo.max <= K[at] /\ K[at] \in Nat /\ lo.max \in Nat
      <4>1. at \in 0..Len(Checks) /\ K \in [0..Len(Checks) -> Nat]
        BY <3>2 DEF ScoreInv, Ceiling
      <4>2. lo.max <= K[at]
        BY <3>2 DEF ScoreInv
      <4>. QED
        BY <2>1, <4>1, <4>2 DEF Outcome
    <3>4. at >= 1
      BY <2>3, <3>1 DEF Begins, ScoreInv
    <3>. QED
      BY <2>3, <3>2, <3>3, <3>4
  <2>4. ASSUME at = Len(Checks), mail.shape = "both", faults.short = 0
        PROVE  Total(lo) = 1000
    BY <2>1, <2>3, <2>4, FullTotal DEF ScoreInv
  <2>5. ASSUME at = Len(Checks), faults.auth = 3
        PROVE  Total(lo) < 600
    <3>1. lo.earned + 42000 <= lo.max
      BY <2>5 DEF ScoreInv
    <3>. QED
      BY <2>1, <2>3, <2>5, <3>1, FailedTotal
  <2>. QED
    BY <2>2, <2>4, <2>5 DEF ScoresAreFair, BetterScoresHigher, FullMarks
<1>. QED
  BY <1>1, ScoreStart, ScoreStep, PTL DEF ScoreSpec
=============================================================================
