--------------------------- MODULE OutreachProofs ---------------------------
(***************************************************************************)
(* Proofs about the components that deal with the world outside and share  *)
(* no state: the rate limiter, the newsletter, the threat test, the weekly *)
(* digest and the deliveries to webhooks.                                  *)
(***************************************************************************)
EXTENDS RateLimit, Newsletter, ThreatTest, Digest, WebhookDelivery, FiniteSetTheorems,
        SequenceTheorems, TLAPS

----------------------------------------------------------------------------
(***************************************************************************)
(* The token bucket keeps its bound for any number of callers, any         *)
(* capacity and cost, and clock readings that come in any order.           *)
(***************************************************************************)

RateType ==
  /\ clock \in 0..MaxTime
  /\ bucket \in [tokens : Int, last : Int, made : Int]
  /\ read \in [Callers -> Int]
  /\ granted \in Nat /\ refused \in BOOLEAN

\* No reading lies in the future, and the bucket is made once.
Times ==
  /\ \A c \in Callers : read[c] \in -1..clock
  /\ bucket.made \in -1..clock /\ bucket.last <= clock
  /\ bucket.made = -1 => granted = 0

\* A bucket that is large enough has let somebody through since it was made.
LargeEnough ==
  Capacity >= Cost + MaxTime => ~refused /\ (bucket.made # -1 => granted # 0)

RateInv == RateType /\ Times /\ RateBounded /\ LargeEnough

LEMMA GrantedOnceMore ==
  ASSUME NEW g \in Nat
  PROVE  (g + 1) * Cost = g * Cost + Cost /\ g * Cost \in Int /\ 0 * Cost = 0
BY RateAssumption

LEMMA RateInitInv == RateInit => RateInv
<1>. SUFFICES ASSUME RateInit PROVE RateInv
  OBVIOUS
<1>1. RateType
  <2>1. clock \in 0..MaxTime /\ granted \in Nat
    BY RateAssumption DEF RateInit
  <2>2. -1 \in Int
    OBVIOUS
  <2>3. bucket \in [tokens : Int, last : Int, made : Int] /\ read \in [Callers -> Int]
    BY <2>2 DEF RateInit
  <2>. QED
    BY <2>1, <2>3 DEF RateType, RateInit
<1>2. Times
  BY DEF RateInit, Times
<1>3. RateBounded /\ LargeEnough
  BY DEF RateInit, RateBounded, LargeEnough
<1>. QED
  BY <1>1, <1>2, <1>3 DEF RateInv

LEMMA TakeKeeps ==
  ASSUME RateInv, NEW c \in Callers, Take(c)
  PROVE  RateInv'
<1>. DEFINE b == Current
            now == read[c]
            tokens == Refilled(b, now)
            ok == tokens >= Cost
            G == granted * Cost
<1>1. /\ clock \in 0..MaxTime /\ clock' = clock /\ now \in 0..clock /\ granted \in Nat
      /\ Capacity \in Nat /\ Cost \in Nat \ {0} /\ MaxTime \in Nat
  BY RateAssumption DEF RateInv, RateType, Times, Take
<1>2. /\ b \in [tokens : Int, last : Int, made : Int] /\ b.made \in 0..clock
      /\ b.last <= clock
  BY <1>1 DEF Current, RateInv, RateType, Times
<1>3. G \in Int /\ (granted + 1) * Cost = G + Cost
  BY <1>1, GrantedOnceMore
<1>4. /\ G <= Capacity + (clock - b.made)
      /\ b.tokens <= Capacity - G + (b.last - b.made) /\ b.tokens <= Capacity
  <2>1. CASE bucket.made = -1
    <3>1. G = 0
      BY <2>1, GrantedOnceMore DEF RateInv, Times
    <3>. QED
      BY <1>1, <2>1, <3>1 DEF Current
  <2>2. CASE bucket.made # -1
    BY <2>2 DEF Current, RateInv, RateBounded
  <2>. QED
    BY <2>1, <2>2
<1>. HIDE DEF G, b
<1>5. tokens \in Int /\ tokens <= Capacity /\ tokens <= b.tokens + (now - b.last)
  BY <1>1, <1>2 DEF Refilled, Least
<1>6. /\ bucket' = [b EXCEPT !.tokens = IF ok THEN tokens - Cost ELSE tokens, !.last = now]
      /\ granted' = IF ok THEN granted + 1 ELSE granted
      /\ refused' = (refused \/ (~ok /\ granted = 0))
      /\ read' = [read EXCEPT ![c] = -1]
  BY DEF Take, b
<1>. HIDE DEF tokens, now
<1>7. /\ bucket'.tokens = IF ok THEN tokens - Cost ELSE tokens
      /\ bucket'.last = now /\ bucket'.made = b.made
  BY <1>2, <1>6
<1>8. RateType'
  <2>1. bucket' \in [tokens : Int, last : Int, made : Int]
    <3>. DEFINE left == IF ok THEN tokens - Cost ELSE tokens
    <3>1. left \in Int /\ now \in Int
      BY <1>1, <1>5
    <3>. HIDE DEF left
    <3>2. bucket' = [b EXCEPT !.tokens = left, !.last = now]
      BY <1>6 DEF left
    <3>. QED
      BY <1>2, <3>1, <3>2
  <2>2. read' \in [Callers -> Int]
    BY <1>6 DEF RateInv, RateType
  <2>3. granted' \in Nat
    BY <1>1, <1>6
  <2>4. refused' \in BOOLEAN
    BY <1>6
  <2>. QED
    BY <1>1, <2>1, <2>2, <2>3, <2>4 DEF RateType
<1>9. Times'
  <2>1. \A d \in Callers : read'[d] \in -1..clock
    BY <1>1, <1>6 DEF RateInv, RateType, Times
  <2>. QED
    BY <1>1, <1>2, <1>7, <2>1 DEF Times
<1>10. RateBounded'
  <2>1. CASE ok
    BY <1>1, <1>2, <1>3, <1>4, <1>5, <1>6, <1>7, <2>1 DEF RateBounded
  <2>2. CASE ~ok
    BY <1>1, <1>2, <1>3, <1>4, <1>5, <1>6, <1>7, <2>2 DEF RateBounded, G
  <2>. QED
    BY <2>1, <2>2
<1>11. LargeEnough'
  <2>. SUFFICES ASSUME Capacity >= Cost + MaxTime
                PROVE  ~refused' /\ granted' # 0
    BY <1>6 DEF LargeEnough
  <2>1. CASE granted # 0
    <3>1. ~refused'
      BY <1>6, <2>1 DEF RateInv, LargeEnough
    <3>2. granted' # 0
      BY <1>1, <1>6, <2>1
    <3>. QED
      BY <3>1, <3>2
  <2>2. CASE granted = 0
    <3>1. bucket.made = -1 /\ ~refused
      BY <2>2 DEF RateInv, LargeEnough
    <3>2. tokens >= Capacity - clock
      BY <1>1, <3>1 DEF tokens, now, b, Refilled, Least, Current
    <3>3. ok
      BY <1>1, <1>5, <3>2
    <3>4. ~refused'
      BY <1>6, <3>1, <3>3
    <3>5. granted' # 0
      BY <1>1, <1>6, <3>3
    <3>. QED
      BY <3>4, <3>5
  <2>. QED
    BY <2>1, <2>2
<1>. QED
  BY <1>8, <1>9, <1>10, <1>11 DEF RateInv

LEMMA RateNextInv == RateInv /\ [RateNext]_rateVars => RateInv'
<1>. SUFFICES ASSUME RateInv, [RateNext]_rateVars PROVE RateInv'
  OBVIOUS
<1>. USE RateAssumption DEF RateInv, RateType, Times, RateBounded, LargeEnough
<1>1. CASE Tick
  <2>1. granted * Cost \in Int
    BY GrantedOnceMore
  <2>. QED
    BY <1>1, <2>1 DEF Tick
<1>2. ASSUME NEW c \in Callers, ReadClock(c) PROVE RateInv'
  BY <1>2 DEF ReadClock
<1>3. ASSUME NEW c \in Callers, Take(c) PROVE RateInv'
  BY <1>3, TakeKeeps
<1>4. CASE UNCHANGED rateVars
  BY <1>4 DEF rateVars
<1>. QED
  BY <1>1, <1>2, <1>3, <1>4 DEF RateNext

\* RateLimit.RateBounded (rate_limit.py:28-40): requests let through never
\* exceed the capacity and the refill since the bucket was made.
THEOREM RateIsBounded == RateSpec => []RateBounded
<1>1. RateInv => RateBounded
  BY DEF RateInv
<1>. QED
  BY <1>1, RateInitInv, RateNextInv, PTL DEF RateSpec

\* RateLimit.FirstIsGranted (rate_limit.py:28-40): a bucket large enough for
\* the delay before the lock never turns its first caller away.
THEOREM FirstIsAlwaysGranted == RateSpec => []FirstIsGranted
<1>1. RateInv => FirstIsGranted
  BY DEF RateInv, LargeEnough, FirstIsGranted
<1>. QED
  BY <1>1, RateInitInv, RateNextInv, PTL DEF RateSpec

\* RateLimit.BucketIsFair (rate_limit.py:16-40): both together.
THEOREM BucketIsAlwaysFair == RateSpec => []BucketIsFair
<1>1. RateBounded /\ FirstIsGranted => BucketIsFair
  BY DEF BucketIsFair
<1>. QED
  BY <1>1, RateIsBounded, FirstIsAlwaysGranted, PTL

----------------------------------------------------------------------------
(***************************************************************************)
(* Double opt-in for any number of clicks beside subscriptions, whichever  *)
(* of them has read the row before another one writes it.                  *)
(***************************************************************************)

SubRow == [row : BOOLEAN, token : Nat, confirmed : BOOLEAN, left : BOOLEAN]
Pending == [kind : {"none", "ask", "confirm", "leave"}, old : SubRow]

NewsType ==
  /\ sub \in SubRow /\ asking \in Pending /\ click \in [Clicks -> Pending]
  /\ issued \in Nat /\ mailed \in 0..issued /\ clicked \in BOOLEAN

\* What has been read is no newer than the row.
Older ==
  /\ sub.token <= issued /\ asking.old.token <= issued
  /\ asking.kind \in {"none", "ask"}
  /\ asking.kind = "ask" => ~asking.old.confirmed
  /\ \A c \in Clicks :
       /\ click[c].kind \in {"none", "confirm", "leave"}
       /\ click[c].kind = "confirm" => clicked /\ ~click[c].old.confirmed

NewsInv == NewsType /\ Older /\ LastLinkWorks

\* A step writes the status of the row forward only.
Forward == (sub.confirmed => sub'.confirmed) /\ (sub.left => sub'.left)

LEMMA NewsInitInv == NewsInit => NewsInv
<1>. SUFFICES ASSUME NewsInit PROVE NewsInv
  OBVIOUS
<1>1. NoSub \in SubRow
  BY DEF NoSub, SubRow
<1>2. NoClick \in Pending
  BY <1>1 DEF NoClick, Pending
<1>3. NewsType
  <2>1. click \in [Clicks -> Pending]
    BY <1>2 DEF NewsInit
  <2>2. issued \in Nat /\ mailed \in 0..issued
    BY DEF NewsInit
  <2>. QED
    BY <1>1, <1>2, <2>1, <2>2 DEF NewsInit, NewsType
<1>4. Older /\ LastLinkWorks
  BY DEF NewsInit, Older, LastLinkWorks, NoSub, NoClick
<1>. QED
  BY <1>3, <1>4 DEF NewsInv

LEMMA StoreIs ==
  ASSUME NewsInv, NEW old \in SubRow, NEW new \in SubRow, sub' = Store(old, new)
  PROVE  /\ sub' \in SubRow
         /\ sub'.row = IF new.row # old.row THEN new.row ELSE sub.row
         /\ sub'.token = IF new.token # old.token THEN new.token ELSE sub.token
         /\ sub'.confirmed = IF new.confirmed # old.confirmed THEN new.confirmed ELSE sub.confirmed
         /\ sub'.left = IF new.left # old.left THEN new.left ELSE sub.left
<1>1. DOMAIN new = {"row", "token", "confirmed", "left"} /\ sub \in SubRow
  BY DEF SubRow, NewsInv, NewsType
<1>2. sub' = [c \in {"row", "token", "confirmed", "left"} |->
                IF new[c] # old[c] THEN new[c] ELSE sub[c]]
  BY <1>1 DEF Store
<1>3. sub' = [row |-> IF new.row # old.row THEN new.row ELSE sub.row,
              token |-> IF new.token # old.token THEN new.token ELSE sub.token,
              confirmed |-> IF new.confirmed # old.confirmed THEN new.confirmed ELSE sub.confirmed,
              left |-> IF new.left # old.left THEN new.left ELSE sub.left]
  BY <1>2
<1>. QED
  BY <1>1, <1>3 DEF SubRow

LEMMA SubscribeKeeps ==
  ASSUME NewsInv, Subscribe
  PROVE  NewsInv' /\ Forward
BY DEF Subscribe, NewsInv, NewsType, Older, LastLinkWorks, Forward, SubRow, Pending

LEMMA SaveAndMailKeeps ==
  ASSUME NewsInv, SaveAndMail
  PROVE  NewsInv' /\ Forward
<1>. DEFINE old == asking.old
            new == [old EXCEPT !.row = TRUE, !.token = issued + 1]
<1>1. old \in SubRow /\ issued \in Nat /\ asking.kind = "ask" /\ sub \in SubRow
  BY DEF NewsInv, NewsType, Pending, SaveAndMail
<1>2. new \in SubRow
  <2>1. issued + 1 \in Nat
    BY <1>1
  <2>. QED
    BY <1>1, <2>1 DEF SubRow
<1>5. sub' = Store(old, new)
  BY DEF SaveAndMail, NextToken
<1>3. /\ new.token = issued + 1 /\ old.token <= issued /\ old.token \in Nat
      /\ new.confirmed = old.confirmed /\ new.left = old.left
  BY <1>1 DEF SubRow, NewsInv, Older
<1>. HIDE DEF new, old
<1>4. /\ sub' \in SubRow /\ sub'.token = issued + 1
      /\ sub'.confirmed = sub.confirmed /\ sub'.left = sub.left
  BY <1>1, <1>2, <1>3, <1>5, StoreIs
<1>6. NewsType'
  BY <1>1, <1>4 DEF NewsInv, NewsType, SaveAndMail, NoClick, NoSub, Pending, SubRow
<1>8. Older'
  BY <1>1, <1>4 DEF NewsInv, Older, SaveAndMail, NoClick, NoSub
<1>7. LastLinkWorks'
  BY <1>1, <1>4 DEF NewsInv, NewsType, LastLinkWorks, SaveAndMail
<1>. QED
  BY <1>4, <1>6, <1>7, <1>8 DEF NewsInv, Forward

LEMMA OpenKeeps ==
  ASSUME NewsInv, NEW c \in Clicks, OpenConfirm(c) \/ OpenUnsubscribe(c)
  PROVE  NewsInv' /\ Forward
<1>1. /\ UNCHANGED <<sub, asking, issued, mailed>> /\ sub \in SubRow
      /\ click \in [Clicks -> Pending]
  BY DEF OpenConfirm, OpenUnsubscribe, NewsInv, NewsType
<1>2. PICK k \in {"confirm", "leave"} :
        /\ click' = [click EXCEPT ![c] = [kind |-> k, old |-> sub]]
        /\ k = "confirm" => clicked' = TRUE /\ ~sub.confirmed
        /\ k = "leave" => clicked' = clicked
  BY DEF OpenConfirm, OpenUnsubscribe
<1>3. clicked => clicked'
  BY <1>2
<1>4. NewsType'
  BY <1>1, <1>2 DEF NewsInv, NewsType, Pending
<1>5. Older'
  BY <1>1, <1>2, <1>3 DEF NewsInv, Older
<1>6. LastLinkWorks'
  BY <1>1, <1>3 DEF NewsInv, LastLinkWorks
<1>. QED
  BY <1>1, <1>4, <1>5, <1>6 DEF NewsInv, Forward

LEMMA SaveClickKeeps ==
  ASSUME NewsInv, NEW c \in Clicks, SaveClick(c)
  PROVE  NewsInv' /\ Forward
<1>. DEFINE old == click[c].old
            new == Followed(c)
<1>1. /\ old \in SubRow /\ sub \in SubRow /\ click[c].kind \in {"confirm", "leave"}
      /\ click \in [Clicks -> Pending]
  BY DEF NewsInv, NewsType, Older, Pending, SaveClick
<1>2. new \in SubRow /\ sub' = Store(old, new)
  BY <1>1 DEF SubRow, SaveClick, Followed
<1>3. CASE click[c].kind = "confirm"
  <2>1. new.confirmed = TRUE /\ new.left = old.left /\ ~old.confirmed /\ new.token = 0 /\ clicked
    BY <1>1, <1>3 DEF SubRow, Followed, NewsInv, Older
  <2>. HIDE DEF new, old
  <2>2. /\ sub' \in SubRow /\ sub'.confirmed /\ sub'.left = sub.left
        /\ sub'.token \in {0, sub.token}
    BY <1>1, <1>2, <2>1, StoreIs
  <2>3. NewsType'
    BY <1>1, <2>2 DEF NewsInv, NewsType, SaveClick, NoClick, NoSub, Pending, SubRow
  <2>4. Older'
    BY <1>1, <2>2 DEF NewsInv, NewsType, Older, SaveClick, NoClick, NoSub
  <2>. QED
    BY <2>1, <2>2, <2>3, <2>4 DEF NewsInv, LastLinkWorks, Forward, SaveClick
<1>4. CASE click[c].kind = "leave"
  <2>1. /\ new.confirmed = old.confirmed /\ new.left = TRUE /\ new.token = old.token
        /\ new.row = old.row
    BY <1>1, <1>4 DEF SubRow, Followed, NewsInv, Older
  <2>. HIDE DEF new, old
  <2>2. /\ sub' \in SubRow /\ sub'.confirmed = sub.confirmed /\ (sub.left => sub'.left)
        /\ sub'.token = sub.token /\ sub'.row = sub.row
    BY <1>1, <1>2, <2>1, StoreIs
  <2>3. NewsType'
    BY <1>1, <2>2 DEF NewsInv, NewsType, SaveClick, NoClick, NoSub, Pending, SubRow
  <2>4. Older'
    BY <1>1, <2>2 DEF NewsInv, NewsType, Older, SaveClick, NoClick, NoSub
  <2>. QED
    BY <2>1, <2>2, <2>3, <2>4 DEF NewsInv, LastLinkWorks, Forward, SaveClick
<1>. QED
  BY <1>1, <1>3, <1>4

LEMMA NewsStep == NewsInv /\ [NewsNext]_newsVars => NewsInv' /\ [Forward]_newsVars
<1>. SUFFICES ASSUME NewsInv, [NewsNext]_newsVars PROVE NewsInv' /\ [Forward]_newsVars
  OBVIOUS
<1>1. CASE NewsNext
  BY <1>1, SubscribeKeeps, SaveAndMailKeeps, OpenKeeps, SaveClickKeeps DEF NewsNext
<1>2. CASE UNCHANGED newsVars
  BY <1>2 DEF newsVars, NewsInv, NewsType, Older, LastLinkWorks
<1>. QED
  BY <1>1, <1>2

\* Newsletter.LastLinkWorks (routers/newsletter.py:74-140): nobody is
\* confirmed who has not followed a link, and the last link mailed works until
\* it is used.
THEOREM LastLinkAlwaysWorks == NewsSpec => []LastLinkWorks
<1>1. NewsInv => LastLinkWorks
  BY DEF NewsInv
<1>. QED
  BY <1>1, NewsInitInv, NewsStep, PTL DEF NewsSpec

\* Newsletter.NewsForward (routers/newsletter.py:107-140): neither the
\* confirmation nor the departure of a subscriber is ever undone.
THEOREM NewsGoesForward == NewsSpec => NewsForward
<1>1. NewsSpec => [][Forward]_newsVars
  BY NewsInitInv, NewsStep, PTL DEF NewsSpec
<1>. QED
  BY <1>1 DEF NewsForward, Forward

\* Newsletter.NewsKept (routers/newsletter.py:58-140): both together.
THEOREM NewsIsKept == NewsSpec => NewsKept
BY LastLinkAlwaysWorks, NewsGoesForward DEF NewsKept

----------------------------------------------------------------------------
(***************************************************************************)
(* A batch of test mails needs the code from the mailbox, and attempts to  *)
(* guess it are limited: for any number of tests and of confirmations that *)
(* overlap, with restarts in between.                                      *)
(***************************************************************************)

TestRow == [row : {"none", "coded", "unmailed", "sent"}, attempts : Nat, late : BOOLEAN]
VisitRow == [phase : {"idle", "form", "batch", "done", "lost"}, test : Tests \cup {"none"},
             attempts : Nat, i : Nat]

ThreatType ==
  /\ tt \in [Tests -> TestRow] /\ visit \in [Visits -> VisitRow]
  /\ entered \in [Tests -> [right : Nat, wrong : Nat]]
  /\ sentTo \in [Visits -> Nat]

\* What an open form was allowed to be opened for still holds, unless another
\* one was open for the same test.
FormInv(v) ==
  /\ visit[v].phase # "idle" => visit[v].test \in Tests
  /\ visit[v].phase = "form" =>
       LET t == visit[v].test IN
       /\ visit[v].attempts < MaxAttempts
       /\ t \notin overlap => /\ tt[t].row # "sent" /\ entered[t].right = 0
                              /\ visit[v].attempts = tt[t].attempts

OneForm ==
  \A v, w \in Visits :
    visit[v].phase = "form" /\ visit[w].phase = "form" /\ visit[v].test = visit[w].test
      => visit[v].test \in overlap \/ v = w

Counted(t) ==
  /\ Cardinality(Batches(t)) = entered[t].right
  /\ entered[t].right > 0 => tt[t].row = "sent"
  /\ t \notin overlap => /\ entered[t].right <= 1
                         /\ entered[t].wrong = tt[t].attempts /\ tt[t].attempts <= MaxAttempts

ThreatInv ==
  /\ ThreatType /\ OneForm
  /\ \A v \in Visits : FormInv(v)
  /\ \A t \in Tests : Counted(t)

LEMMA BatchesAreFinite == \A t \in Tests : IsFiniteSet(Batches(t))
BY ThreatAssumption, FS_Subset DEF Batches

\* A step that changes no batch keeps the number of batches.
LEMMA SameBatches ==
  ASSUME \A v \in Visits :
           \/ visit'[v].test = visit[v].test
              /\ (visit'[v].phase \in {"batch", "done", "lost"}
                    <=> visit[v].phase \in {"batch", "done", "lost"})
           \/ /\ visit[v].phase \notin {"batch", "done", "lost"}
              /\ visit'[v].phase \notin {"batch", "done", "lost"}
  PROVE  \A t \in Tests : Batches(t)' = Batches(t)
BY DEF Batches

\* A step that opens no form.
LEMMA OneFormKept ==
  ASSUME OneForm, UNCHANGED overlap,
         \A v \in Visits : visit'[v].phase = "form" =>
                            visit[v].phase = "form" /\ visit'[v].test = visit[v].test
  PROVE  OneForm'
<1>. SUFFICES ASSUME NEW v \in Visits, NEW w \in Visits,
                     visit'[v].phase = "form", visit'[w].phase = "form",
                     visit'[v].test = visit'[w].test, visit'[v].test \notin overlap'
              PROVE  v = w
  BY DEF OneForm
<1>. QED
  BY DEF OneForm

LEMMA ThreatInitInv == ThreatInit => ThreatInv
<1>. SUFFICES ASSUME ThreatInit PROVE ThreatInv
  OBVIOUS
<1>1. ThreatType
  BY DEF ThreatInit, ThreatType, TestRow, VisitRow, NoVisit
<1>2. OneForm /\ \A v \in Visits : FormInv(v)
  <2>1. \A v \in Visits : visit[v].phase = "idle"
    BY DEF ThreatInit, NoVisit
  <2>2. OneForm
    BY <2>1 DEF OneForm
  <2>. QED
    BY <2>1, <2>2 DEF FormInv
<1>3. ASSUME NEW t \in Tests PROVE Counted(t)
  <2>1. Batches(t) = {}
    BY DEF ThreatInit, Batches, NoVisit
  <2>2. Cardinality(Batches(t)) = 0
    BY <2>1, FS_EmptySet
  <2>. QED
    BY <2>2, ThreatAssumption DEF ThreatInit, Counted
<1>. QED
  BY <1>1, <1>2, <1>3 DEF ThreatInv

LEMMA RequestKeeps ==
  ASSUME ThreatInv, NEW t \in Tests, Request(t)
  PROVE  ThreatInv'
<1>. PICK row \in {"coded", "unmailed"} : tt' = [tt EXCEPT ![t].row = row]
  BY DEF Request
<1>1. tt[t].row = "none" /\ UNCHANGED <<visit, entered, overlap, sentTo>>
  BY DEF Request
<1>2. ThreatType'
  BY <1>1 DEF ThreatInv, ThreatType, TestRow
<1>3. \A u \in Tests : /\ tt'[u].attempts = tt[u].attempts
                       /\ tt'[u].row = IF u = t THEN row ELSE tt[u].row
  BY DEF ThreatInv, ThreatType, TestRow
<1>4. OneForm' /\ \A v \in Visits : FormInv(v)'
  BY <1>1, <1>3 DEF ThreatInv, OneForm, FormInv
<1>5. \A u \in Tests : Batches(u)' = Batches(u)
  BY <1>1 DEF Batches
<1>6. \A u \in Tests : Counted(u)'
  BY <1>1, <1>3, <1>5 DEF ThreatInv, Counted, ThreatType
<1>. QED
  BY <1>2, <1>4, <1>6 DEF ThreatInv

LEMMA LapseKeeps ==
  ASSUME ThreatInv, NEW t \in Tests, Lapse(t)
  PROVE  ThreatInv'
<1>1. tt' = [tt EXCEPT ![t].late = TRUE] /\ UNCHANGED <<visit, entered, overlap, sentTo>>
  BY DEF Lapse
<1>2. ThreatType'
  BY <1>1 DEF ThreatInv, ThreatType, TestRow
<1>3. \A u \in Tests : tt'[u].attempts = tt[u].attempts /\ tt'[u].row = tt[u].row
  BY <1>1 DEF ThreatInv, ThreatType, TestRow
<1>4. OneForm' /\ \A v \in Visits : FormInv(v)'
  BY <1>1, <1>3 DEF ThreatInv, OneForm, FormInv
<1>5. \A u \in Tests : Batches(u)' = Batches(u)
  BY <1>1 DEF Batches
<1>6. \A u \in Tests : Counted(u)'
  BY <1>1, <1>3, <1>5 DEF ThreatInv, Counted
<1>. QED
  BY <1>2, <1>4, <1>6 DEF ThreatInv

LEMMA OpenFormKeeps ==
  ASSUME ThreatInv, NEW v \in Visits, NEW t \in Tests, Open(v, t)
  PROVE  ThreatInv'
<1>. DEFINE q == [NoVisit EXCEPT !.phase = "form", !.test = t, !.attempts = tt[t].attempts]
<1>1. /\ visit[v].phase = "idle" /\ visit' = [visit EXCEPT ![v] = q]
      /\ overlap' = overlap \cup {u \in {t} : \E w \in Visits :
                                     visit[w].phase = "form" /\ visit[w].test = t}
      /\ UNCHANGED <<tt, entered, sentTo>>
      /\ tt[t].row \in {"coded", "unmailed"} /\ tt[t].attempts < MaxAttempts
  BY DEF Open, MayTry
<1>2. q \in VisitRow /\ q.phase = "form" /\ q.test = t /\ q.attempts = tt[t].attempts
  BY DEF VisitRow, NoVisit, ThreatInv, ThreatType, TestRow
<1>. HIDE DEF q
<1>3. ThreatType'
  BY <1>1, <1>2 DEF ThreatInv, ThreatType
<1>4. \A w \in Visits : visit'[w] = IF w = v THEN q ELSE visit[w]
  BY <1>1 DEF ThreatInv, ThreatType
<1>5. entered[t].right = 0
  BY <1>1 DEF ThreatInv, ThreatType, Counted
<1>6. OneForm'
  BY <1>1, <1>2, <1>4 DEF ThreatInv, OneForm
<1>7. \A w \in Visits : FormInv(w)'
  BY <1>1, <1>2, <1>4, <1>5 DEF ThreatInv, FormInv
<1>8. \A u \in Tests : Batches(u)' = Batches(u)
  BY <1>1, <1>2, <1>4, SameBatches
<1>9. \A u \in Tests : Counted(u)'
  BY <1>1, <1>8 DEF ThreatInv, Counted
<1>. QED
  BY <1>3, <1>6, <1>7, <1>9 DEF ThreatInv

LEMMA EnterWrongKeeps ==
  ASSUME ThreatInv, NEW v \in Visits, EnterWrong(v)
  PROVE  ThreatInv'
<1>. DEFINE t == visit[v].test
<1>1. /\ visit[v].phase = "form" /\ t \in Tests /\ visit[v].attempts \in Nat
      /\ visit[v].attempts < MaxAttempts /\ MaxAttempts \in Nat
  BY ThreatAssumption DEF EnterWrong, ThreatInv, ThreatType, VisitRow, FormInv
<1>2. /\ tt' = [tt EXCEPT ![t].attempts = visit[v].attempts + 1]
      /\ entered' = [entered EXCEPT ![t].wrong = @ + 1]
      /\ visit' = [visit EXCEPT ![v] = NoVisit] /\ UNCHANGED <<overlap, sentTo>>
  BY DEF EnterWrong, Wrong
<1>3. NoVisit \in VisitRow /\ NoVisit.phase = "idle"
  BY DEF NoVisit, VisitRow
<1>4. ThreatType'
  <2>1. tt' \in [Tests -> TestRow]
    BY <1>1, <1>2 DEF ThreatInv, ThreatType, TestRow
  <2>2. visit' \in [Visits -> VisitRow]
    BY <1>2, <1>3 DEF ThreatInv, ThreatType
  <2>3. entered' \in [Tests -> [right : Nat, wrong : Nat]]
    BY <1>1, <1>2 DEF ThreatInv, ThreatType
  <2>. QED
    BY <1>2, <2>1, <2>2, <2>3 DEF ThreatInv, ThreatType
<1>5. /\ \A w \in Visits : visit'[w] = IF w = v THEN NoVisit ELSE visit[w]
      /\ \A u \in Tests : /\ tt'[u].row = tt[u].row
                          /\ tt'[u].attempts = IF u = t THEN visit[v].attempts + 1 ELSE tt[u].attempts
                          /\ entered'[u].right = entered[u].right
                          /\ entered'[u].wrong = IF u = t THEN entered[u].wrong + 1 ELSE entered[u].wrong
  BY <1>1, <1>2 DEF ThreatInv, ThreatType, TestRow
<1>. HIDE DEF t
<1>6. OneForm'
  <2>1. \A w \in Visits : visit'[w].phase = "form" =>
                           visit[w].phase = "form" /\ visit'[w].test = visit[w].test
    BY <1>3, <1>5
  <2>. QED
    BY <1>2, <2>1, OneFormKept DEF ThreatInv
<1>7. ASSUME NEW w \in Visits PROVE FormInv(w)'
  <2>1. w # v /\ visit[w].phase = "form" /\ visit[w].test = t => t \in overlap
    BY <1>1 DEF ThreatInv, OneForm, t
  <2>. QED
    BY <1>2, <1>3, <1>5, <2>1 DEF ThreatInv, FormInv
<1>8. \A u \in Tests : Batches(u)' = Batches(u)
  BY <1>1, <1>3, <1>5, SameBatches
<1>9. ASSUME NEW u \in Tests PROVE Counted(u)'
  <2>1. t \notin overlap => visit[v].attempts = tt[t].attempts
    BY <1>1 DEF ThreatInv, FormInv, t
  <2>. QED
    BY <1>1, <1>2, <1>5, <1>8, <2>1 DEF ThreatInv, Counted
<1>. QED
  BY <1>4, <1>6, <1>7, <1>9 DEF ThreatInv

LEMMA EnterRightKeeps ==
  ASSUME ThreatInv, NEW v \in Visits, EnterRight(v)
  PROVE  ThreatInv'
<1>0. visit[v].phase = "form" /\ visit[v].test \in Tests
  BY DEF EnterRight, ThreatInv, FormInv
<1>. PICK t \in Tests : visit[v].test = t
  BY <1>0
<1>1. visit[v].phase = "form" /\ t = visit[v].test
  BY <1>0
<1>2. /\ tt' = [tt EXCEPT ![t].row = "sent"]
      /\ entered' = [entered EXCEPT ![t].right = @ + 1]
      /\ visit' = [visit EXCEPT ![v].phase = "batch"] /\ UNCHANGED <<overlap, sentTo>>
  BY DEF EnterRight
<1>3. ThreatType'
  <2>1. tt' \in [Tests -> TestRow]
    BY <1>1, <1>2 DEF ThreatInv, ThreatType, TestRow
  <2>2. visit' \in [Visits -> VisitRow]
    BY <1>2 DEF ThreatInv, ThreatType, VisitRow
  <2>3. entered' \in [Tests -> [right : Nat, wrong : Nat]]
    BY <1>1, <1>2 DEF ThreatInv, ThreatType
  <2>. QED
    BY <1>2, <2>1, <2>2, <2>3 DEF ThreatInv, ThreatType
<1>4. /\ \A w \in Visits : /\ visit'[w].phase = IF w = v THEN "batch" ELSE visit[w].phase
                           /\ visit'[w].test = visit[w].test
                           /\ visit'[w].attempts = visit[w].attempts
      /\ \A u \in Tests : /\ tt'[u].row = IF u = t THEN "sent" ELSE tt[u].row
                          /\ tt'[u].attempts = tt[u].attempts
                          /\ entered'[u].right = IF u = t THEN entered[u].right + 1 ELSE entered[u].right
                          /\ entered'[u].wrong = entered[u].wrong
  BY <1>1, <1>2 DEF ThreatInv, ThreatType, TestRow, VisitRow
<1>5. /\ \A u \in Tests : u # t => Batches(u)' = Batches(u)
      /\ Batches(t)' = Batches(t) \cup {v} /\ v \notin Batches(t)
  BY <1>1, <1>4 DEF Batches
<1>6. Cardinality(Batches(t)') = Cardinality(Batches(t)) + 1
  BY <1>1, <1>5, BatchesAreFinite, FS_AddElement
<1>7. OneForm'
  <2>1. \A w \in Visits : visit'[w].phase = "form" =>
                           visit[w].phase = "form" /\ visit'[w].test = visit[w].test
    BY <1>4
  <2>. QED
    BY <1>2, <2>1, OneFormKept DEF ThreatInv
<1>8. ASSUME NEW w \in Visits PROVE FormInv(w)'
  <2>1. w # v /\ visit[w].phase = "form" /\ visit[w].test = t => t \in overlap
    BY <1>1 DEF ThreatInv, OneForm
  <2>. QED
    BY <1>1, <1>2, <1>4, <2>1 DEF ThreatInv, FormInv
<1>9. ASSUME NEW u \in Tests PROVE Counted(u)'
  <2>1. t \notin overlap => entered[t].right = 0
    BY <1>1 DEF ThreatInv, FormInv
  <2>2. entered[u].right \in Nat
    BY DEF ThreatInv, ThreatType
  <2>3. CASE u = t
    <3>1. /\ Cardinality(Batches(t)) = entered[t].right
          /\ t \notin overlap => entered[t].wrong = tt[t].attempts /\ tt[t].attempts <= MaxAttempts
      BY <1>1 DEF ThreatInv, Counted
    <3>2. /\ tt'[t].row = "sent" /\ tt'[t].attempts = tt[t].attempts
          /\ entered'[t].right = entered[t].right + 1 /\ entered'[t].wrong = entered[t].wrong
      BY <1>1, <1>4
    <3>3. Cardinality(Batches(t)') = entered'[t].right
      BY <1>6, <3>1, <3>2
    <3>4. t \notin overlap => entered'[t].right <= 1
      BY <2>1, <3>2
    <3>5. Counted(t)'
      BY <1>2, <3>1, <3>2, <3>3, <3>4 DEF Counted
    <3>. QED
      BY <2>3, <3>5
  <2>4. CASE u # t
    BY <1>2, <1>4, <1>5, <2>4 DEF ThreatInv, Counted
  <2>. QED
    BY <2>3, <2>4
<1>. QED
  BY <1>3, <1>7, <1>8, <1>9 DEF ThreatInv

\* Steps of a batch, and a restart, change neither tests nor open forms.
LEMMA BatchStepKeeps ==
  ASSUME ThreatInv, UNCHANGED <<tt, entered, overlap>>,
         visit' \in [Visits -> VisitRow], sentTo' \in [Visits -> Nat],
         \A v \in Visits :
           \/ visit'[v] = visit[v]
           \/ /\ visit[v].phase = "batch" /\ visit'[v].phase \in {"batch", "done", "lost"}
              /\ visit'[v].test = visit[v].test
           \/ visit[v].phase = "form" /\ visit'[v] = NoVisit
  PROVE  ThreatInv'
<1>1. NoVisit.phase = "idle"
  BY DEF NoVisit
<1>2. \A u \in Tests : Batches(u)' = Batches(u)
  BY <1>1, SameBatches
<1>3. ThreatType'
  BY DEF ThreatInv, ThreatType
<1>4. OneForm'
  BY <1>1, OneFormKept DEF ThreatInv
<1>5. ASSUME NEW v \in Visits PROVE FormInv(v)'
  <2>1. CASE visit'[v] = visit[v]
    BY <2>1 DEF ThreatInv, FormInv
  <2>2. CASE visit'[v].phase \in {"batch", "done", "lost"} /\ visit[v].phase = "batch"
             /\ visit'[v].test = visit[v].test
    BY <2>2 DEF ThreatInv, FormInv
  <2>3. CASE visit'[v] = NoVisit
    BY <1>1, <2>3 DEF FormInv
  <2>. QED
    BY <2>1, <2>2, <2>3
<1>6. \A u \in Tests : Counted(u)'
  BY <1>2 DEF ThreatInv, Counted
<1>. QED
  BY <1>3, <1>4, <1>5, <1>6 DEF ThreatInv

LEMMA SendCaseKeeps ==
  ASSUME ThreatInv, NEW v \in Visits, SendCase(v)
  PROVE  ThreatInv'
<1>. PICK how \in {"sent", "refused", "broken"} :
       /\ visit' = [visit EXCEPT ![v] = Proceed(v, how)]
       /\ sentTo' = [sentTo EXCEPT ![v] = @ + (IF how = "sent" THEN 1 ELSE 0)]
  BY DEF SendCase
<1>1. visit[v].phase = "batch" /\ UNCHANGED <<tt, entered, overlap>>
  BY DEF SendCase
<1>2. /\ Proceed(v, how) \in VisitRow /\ Proceed(v, how).test = visit[v].test
      /\ Proceed(v, how).phase \in {"batch", "done"}
  <2>1. visit[v] \in VisitRow /\ visit[v].i + 1 \in Nat
    BY DEF ThreatInv, ThreatType, VisitRow
  <2>2. CASE how = "broken"
    <3>1. Proceed(v, how) = [visit[v] EXCEPT !.phase = "done"]
      BY <2>2 DEF Proceed
    <3>. QED
      BY <2>1, <3>1 DEF VisitRow
  <2>3. CASE how # "broken"
    <3>1. PICK ph \in {"batch", "done"} :
            Proceed(v, how) = [visit[v] EXCEPT !.i = visit[v].i + 1, !.phase = ph]
      BY <2>3 DEF Proceed
    <3>. QED
      BY <2>1, <3>1 DEF VisitRow
  <2>. QED
    BY <2>2, <2>3
<1>3. visit' \in [Visits -> VisitRow]
  BY <1>2 DEF ThreatInv, ThreatType
<1>4. \A w \in Visits : visit'[w] = IF w = v THEN Proceed(v, how) ELSE visit[w]
  BY DEF ThreatInv, ThreatType
<1>5. sentTo' \in [Visits -> Nat]
  BY DEF ThreatInv, ThreatType
<1>. QED
  BY <1>1, <1>2, <1>3, <1>4, <1>5, BatchStepKeeps

LEMMA ThreatRestartKeeps ==
  ASSUME ThreatInv, ThreatRestart
  PROVE  ThreatInv'
<1>1. /\ visit' = [v \in Visits |-> IF visit[v].phase = "batch" THEN [visit[v] EXCEPT !.phase = "lost"]
                                    ELSE IF visit[v].phase = "form" THEN NoVisit ELSE visit[v]]
      /\ UNCHANGED <<tt, entered, overlap, sentTo>>
  BY DEF ThreatRestart
<1>2. NoVisit \in VisitRow
  BY DEF NoVisit, VisitRow
<1>3. ASSUME NEW v \in Visits
      PROVE  /\ [visit[v] EXCEPT !.phase = "lost"] \in VisitRow
             /\ [visit[v] EXCEPT !.phase = "lost"].phase = "lost"
             /\ [visit[v] EXCEPT !.phase = "lost"].test = visit[v].test
  BY DEF ThreatInv, ThreatType, VisitRow
<1>4. visit' \in [Visits -> VisitRow] /\ sentTo' \in [Visits -> Nat]
  BY <1>1, <1>2, <1>3 DEF ThreatInv, ThreatType
<1>. QED
  BY <1>1, <1>3, <1>4, BatchStepKeeps

LEMMA ThreatStepKeeps == ThreatInv /\ [ThreatNext]_threatVars => ThreatInv'
<1>. SUFFICES ASSUME ThreatInv, [ThreatNext]_threatVars PROVE ThreatInv'
  OBVIOUS
<1>1. CASE ThreatNext
  BY <1>1, RequestKeeps, LapseKeeps, OpenFormKeeps, EnterWrongKeeps, EnterRightKeeps,
     SendCaseKeeps, ThreatRestartKeeps DEF ThreatNext
<1>2. CASE UNCHANGED threatVars
  BY <1>2 DEF threatVars, ThreatInv, ThreatType, OneForm, FormInv, Counted, Batches
<1>. QED
  BY <1>1, <1>2

\* ThreatTest.CodeDecides (routers/threattest.py:239-288): as many batches as
\* right codes, a single one and a limited number of attempts for a test whose
\* forms did not overlap.
THEOREM CodeAlwaysDecides == ThreatSpec => []CodeDecides
<1>1. ThreatInv => CodeDecides
  <2>. SUFFICES ASSUME ThreatInv PROVE CodeDecides
    OBVIOUS
  <2>1. OnlyConfirmed
    BY DEF ThreatInv, Counted, OnlyConfirmed
  <2>2. AttemptsCounted
    BY DEF ThreatInv, Counted, AttemptsCounted
  <2>. QED
    BY <2>1, <2>2 DEF CodeDecides
<1>. QED
  BY <1>1, ThreatInitInv, ThreatStepKeeps, PTL DEF ThreatSpec

----------------------------------------------------------------------------
(***************************************************************************)
(* The weekly digest: for any number of tenants, and any lateness of the   *)
(* job that stays below a week.                                            *)
(***************************************************************************)
\* The tick at which the job of this week starts.
Monday == week * WeekTicks

Past(x, tick) == x = Never \/ (x \in Nat /\ x < tick)

\* A tenant that the job of this week has not come to, and one that it has.
Waiting(t) ==
  /\ Past(last.stored[t], Monday)
  /\ serving # 0 => last.session[t] = last.stored[t]
  /\ missed[t] = 1 => Past(last.stored[t], Monday - WeekTicks)
Served(t) ==
  /\ Past(last.stored[t], Monday) /\ Past(last.session[t], Monday + WeekTicks)
  /\ missed[t] = 1 => Past(last.session[t], Monday)

DigestInv ==
  /\ week \in Nat /\ serving \in 0..(Tenants + 1) /\ lag \in 0..MaxLag
  /\ DOMAIN last = {"stored", "session"}
  /\ last.stored \in [Ts -> Int] /\ last.session \in [Ts -> Int]
  /\ missed \in [Ts -> {0, 1}] /\ hurried = {}
  /\ \A t \in Ts : IF serving > t THEN Served(t) ELSE Waiting(t)

LEMMA MondayIsNat ==
  ASSUME week \in Nat
  PROVE  /\ Monday \in Nat /\ WeekTicks \in Nat /\ MaxLag \in Nat /\ MaxLag < WeekTicks /\ Tenants \in Nat
         /\ (week + 1) * WeekTicks = Monday + WeekTicks
<1>1. WeekTicks \in Nat /\ MaxLag \in Nat /\ MaxLag < WeekTicks /\ Tenants \in Nat
  BY DigestAssumption
<1>2. week * WeekTicks \in Nat
  BY <1>1
<1>3. (week + 1) * WeekTicks = week * WeekTicks + WeekTicks
  BY <1>1
<1>. QED
  BY <1>1, <1>2, <1>3 DEF Monday

LEMMA DigestStarts == DigestInit => DigestInv
BY DigestAssumption DEF DigestInit, DigestInv, Waiting, Past, Never, Ts

LEMMA StartDigestKeeps ==
  ASSUME DigestInv, StartDigest
  PROVE  DigestInv'
<1>1. /\ week \in Nat /\ serving = 0 /\ serving' = 1 /\ lag' = 0
      /\ UNCHANGED <<week, missed, hurried>> /\ last' = [last EXCEPT !.session = last.stored]
      /\ DOMAIN last = {"stored", "session"} /\ last.stored \in [Ts -> Int]
  BY DEF DigestInv, StartDigest
<1>2. DOMAIN last' = {"stored", "session"} /\ last'.stored = last.stored /\ last'.session = last.stored
  BY <1>1
<1>3. ASSUME NEW t \in Ts PROVE ~(serving' > t) /\ Waiting(t)'
  <2>1. Waiting(t) /\ ~(serving' > t)
    BY <1>1, DigestAssumption DEF DigestInv, Ts
  <2>2. Monday' = Monday
    BY <1>1 DEF Monday
  <2>. QED
    BY <1>1, <1>2, <2>1, <2>2 DEF Waiting, Past
<1>. QED
  BY <1>1, <1>2, <1>3, DigestAssumption DEF DigestInv

LEMMA ServeKeeps ==
  ASSUME DigestInv, Serve
  PROVE  DigestInv'
<1>1. /\ week \in Nat /\ serving \in Ts /\ serving' = serving + 1 /\ lag \in 0..MaxLag /\ lag' \in 0..MaxLag
      /\ UNCHANGED week
      /\ DOMAIN last = {"stored", "session"}
      /\ last.stored \in [Ts -> Int] /\ last.session \in [Ts -> Int]
      /\ missed \in [Ts -> {0, 1}] /\ hurried = {}
  BY DigestAssumption DEF DigestInv, Serve
<1>2. /\ Monday \in Nat /\ WeekTicks \in Nat /\ MaxLag \in Nat /\ MaxLag < WeekTicks /\ Tenants \in Nat
      /\ Now = Monday + lag /\ Now \in Nat /\ Now < Monday + WeekTicks /\ Monday' = Monday
  BY <1>1, MondayIsNat DEF Now, Monday
<1>3. serving \in Nat /\ serving # 0 /\ serving' \in 0..(Tenants + 1) /\ Ts \subseteq Nat
  BY <1>1, <1>2 DEF Ts
<1>10. PICK u \in Ts : u = serving
  BY <1>1
<1>4. Waiting(serving)
  BY <1>1, <1>3 DEF DigestInv
<1>5. last.session[serving] = last.stored[serving]
  BY <1>3, <1>4 DEF Waiting
<1>. HIDE DEF Monday
\* What becomes of the tenant that is served, and of the others.
<1>6. ASSUME NEW t \in Ts, t # serving, last'.stored[t] = last.stored[t],
             last'.session[t] = last.session[t], missed'[t] = missed[t]
      PROVE  IF serving' > t THEN Served(t)' ELSE Waiting(t)'
  <2>1. (serving' > t <=> serving > t) /\ serving' # 0
    <3>1. t \in Nat /\ serving \in Nat /\ serving' = serving + 1 /\ t # serving
      BY <1>1, <1>3, <1>6
    <3>. QED
      BY <3>1
  <2>2. IF serving > t THEN Served(t) ELSE Waiting(t)
    BY DEF DigestInv
  <2>3. CASE serving > t
    <3>1. Served(t)'
      BY <1>2, <1>6, <2>2, <2>3 DEF Served
    <3>. QED
      BY <2>1, <2>3, <3>1
  <2>4. CASE ~(serving > t)
    <3>1. Waiting(t)'
      BY <1>2, <1>3, <1>6, <2>2, <2>4 DEF Waiting
    <3>. QED
      BY <2>1, <2>4, <3>1
  <2>. QED
    BY <2>3, <2>4
<1>7. CASE UNCHANGED <<last, missed, hurried>>
  <2>1. Served(u)'
    <3>1. missed[serving] = 1 => Past(last.session[serving], Monday)
      BY <1>2, <1>4, <1>5 DEF Waiting, Past
    <3>2. Past(last.stored[serving], Monday) /\ Past(last.session[serving], Monday + WeekTicks)
      BY <1>2, <1>4, <1>5 DEF Waiting, Past
    <3>. QED
      BY <1>2, <1>7, <1>10, <3>1, <3>2 DEF Served
  <2>2. \A t \in Ts : IF serving' > t THEN Served(t)' ELSE Waiting(t)'
    BY <1>1, <1>3, <1>6, <1>10, <1>7, <2>1
  <2>. QED
    BY <1>1, <1>3, <1>7, <2>2 DEF DigestInv
<1>8. CASE /\ Due(serving)
           /\ hurried' = hurried \cup {t \in {serving} : /\ mailedAt[t] # Never
                                                         /\ mailedAt[t] = last.stored[t]
                                                         /\ Now - mailedAt[t] < WeekTicks}
           /\ last' = [last EXCEPT !.session[serving] = Now]
           /\ missed' = [missed EXCEPT ![serving] = 0]
  <2>1. /\ DOMAIN last' = {"stored", "session"} /\ last'.stored = last.stored
        /\ last'.session = [last.session EXCEPT ![serving] = Now]
    BY <1>1, <1>8
  <2>2. hurried' = {}
    <3>1. ~(/\ mailedAt[serving] # Never /\ mailedAt[serving] = last.stored[serving]
            /\ Now - mailedAt[serving] < WeekTicks)
      BY <1>1, <1>2, <1>5, <1>8 DEF Due
    <3>. QED
      BY <1>1, <1>8, <3>1
  <2>3. Served(u)'
    <3>1. last'.stored[serving] = last.stored[serving] /\ last'.session[serving] = Now /\ missed'[serving] = 0
      BY <1>1, <1>8, <2>1
    <3>. QED
      BY <1>2, <1>4, <1>10, <3>1 DEF Served, Waiting, Past
  <2>4. \A t \in Ts : IF serving' > t THEN Served(t)' ELSE Waiting(t)'
    BY <1>1, <1>3, <1>6, <1>10, <1>8, <2>1, <2>3
  <2>5. last'.session \in [Ts -> Int] /\ missed' \in [Ts -> {0, 1}]
    BY <1>1, <1>2, <1>8, <2>1
  <2>. QED
    BY <1>1, <1>3, <2>1, <2>2, <2>4, <2>5 DEF DigestInv
<1>9. CASE /\ ~Due(serving) /\ missed' = [missed EXCEPT ![serving] = @ + 1] /\ UNCHANGED <<last, hurried>>
  <2>1. missed[serving] = 0
    <3>. SUFFICES ASSUME missed[serving] = 1 PROVE FALSE
      BY <1>1
    <3>1. Past(last.stored[serving], Monday - WeekTicks)
      BY <1>4 DEF Waiting
    <3>. QED
      BY <1>1, <1>2, <1>5, <1>9, <3>1 DEF Due, Past
  <2>2. missed'[serving] = 1 /\ missed' \in [Ts -> {0, 1}]
    BY <1>1, <1>9, <2>1
  <2>3. Served(u)'
    BY <1>2, <1>4, <1>5, <1>9, <1>10, <2>2 DEF Served, Waiting, Past
  <2>4. \A t \in Ts : IF serving' > t THEN Served(t)' ELSE Waiting(t)'
    BY <1>1, <1>3, <1>6, <1>10, <1>9, <2>3
  <2>. QED
    BY <1>1, <1>3, <1>9, <2>2, <2>4 DEF DigestInv
<1>. QED
  BY <1>7, <1>8, <1>9 DEF Serve

LEMMA FinishDigestKeeps ==
  ASSUME DigestInv, FinishDigest
  PROVE  DigestInv'
<1>1. /\ week \in Nat /\ serving = Tenants + 1 /\ serving' = 0 /\ week' = week + 1 /\ lag' = 0
      /\ UNCHANGED <<missed, hurried>> /\ last' \in {[last EXCEPT !.stored = last.session], last}
      /\ DOMAIN last = {"stored", "session"}
      /\ last.stored \in [Ts -> Int] /\ last.session \in [Ts -> Int]
      /\ missed \in [Ts -> {0, 1}] /\ hurried = {}
  BY DEF DigestInv, FinishDigest
<1>2. /\ Monday \in Nat /\ WeekTicks \in Nat /\ MaxLag \in Nat /\ Tenants \in Nat
      /\ Monday' = Monday + WeekTicks
  BY <1>1, MondayIsNat DEF Monday
<1>3. /\ DOMAIN last' = {"stored", "session"}
      /\ last'.stored \in {last.stored, last.session} /\ last'.session = last.session
  BY <1>1
<1>. HIDE DEF Monday
<1>4. ASSUME NEW t \in Ts PROVE ~(serving' > t) /\ Waiting(t)'
  <2>1. Served(t) /\ ~(serving' > t)
    BY <1>1, <1>2 DEF DigestInv, Ts
  <2>2. last'.stored[t] \in {last.stored[t], last.session[t]} /\ missed'[t] = missed[t]
    BY <1>1, <1>3
  <2>3. Past(last'.stored[t], Monday')
    BY <1>2, <2>1, <2>2 DEF Served, Past
  <2>4. missed[t] = 1 => Past(last'.stored[t], Monday' - WeekTicks)
    BY <1>2, <2>1, <2>2 DEF Served, Past
  <2>. QED
    BY <1>1, <2>1, <2>2, <2>3, <2>4 DEF Waiting
<1>. QED
  BY <1>1, <1>2, <1>3, <1>4 DEF DigestInv

\* A tenant with something to tell is passed over at most once in a row, and no
\* digest follows one on record within a week, however late the jobs run and
\* whichever of them is rolled back.
THEOREM DigestsAreSpaced == DigestSpec => []DigestSpacing
<1>1. DigestInit => DigestInv
  BY DigestStarts
<1>2. DigestInv /\ [DigestNext]_digestVars => DigestInv'
  <2>1. DigestInv /\ UNCHANGED digestVars => DigestInv'
    BY DEF digestVars, DigestInv, Waiting, Served, Monday
  <2>. QED
    BY <2>1, StartDigestKeeps, ServeKeeps, FinishDigestKeeps DEF DigestNext
<1>3. DigestInv => DigestSpacing
  BY DEF DigestInv, DigestSpacing
<1>. QED
  BY <1>1, <1>2, <1>3, PTL DEF DigestSpec

----------------------------------------------------------------------------
(***************************************************************************)
(* A receiver is not called too often, and the row of a webhook shows what *)
(* its attempts agree on: for any number of webhooks, events and retries,  *)
(* whatever the receivers answer, the administrator does and a restart     *)
(* cuts off.                                                               *)
(***************************************************************************)

ThreadRow == [stage : ThreadStages, retry : Nat, status : Statuses, error : Errors]
HookRow == [enabled : BOOLEAN, gone : BOOLEAN, status : Statuses, error : Errors]

\* Stages in which a thread has not had a success.
Trying == {"none", "attempt", "post", "wait"}

\* How far a thread is tells how many attempts it has made.
Paced(t) ==
  /\ posts[t] <= Len(outcomes[t]) /\ Len(outcomes[t]) <= Retries + 1
  /\ \A k \in 1..Len(outcomes[t]) :
       outcomes[t][k] = "ok" => k = Len(outcomes[t]) /\ thread[t].stage \notin Trying
  /\ thread[t].stage \in {"none", "attempt", "post"} =>
       Len(outcomes[t]) = thread[t].retry /\ thread[t].retry <= Retries
  /\ thread[t].stage = "wait" =>
       Len(outcomes[t]) = thread[t].retry + 1 /\ thread[t].retry < Retries
  /\ thread[t].stage = "none" => thread[t].retry = 0
  /\ t[2] \notin emitted => thread[t].stage = "none"

\* An attempt on webhook h has ended with status s.
Has(h, s) == \E e \in Emits : \E k \in 1..Len(outcomes[<<h, e>>]) : outcomes[<<h, e>>][k] = s

\* Without a success, an error that a thread has loaded or that an attempt has
\* met is in the row.
Failing(h) ==
  /\ hook[h].status # "ok"
  /\ Has(h, "failed") \/ Has(h, "noanswer") => hook[h].error # "none" /\ hook[h].status # "none"
  /\ \A e \in Emits : thread[<<h, e>>].stage = "post" =>
       /\ thread[<<h, e>>].error # "none" => hook[h].error # "none"
       /\ thread[<<h, e>>].status # "none" => hook[h].status # "none"

\* Without a failure, nobody has loaded an error.
Succeeding(h) ==
  /\ hook[h].error = "none" /\ hook[h].status \in {"none", "ok"}
  /\ Has(h, "ok") => hook[h].status = "ok"
  /\ \A e \in Emits : thread[<<h, e>>].stage = "post" =>
       /\ thread[<<h, e>>].error = "none"
       /\ thread[<<h, e>>].status = "ok" => hook[h].status = "ok"

Row(h) == ~hook[h].gone =>
  /\ ~Has(h, "ok") => Failing(h)
  /\ ~Has(h, "failed") /\ ~Has(h, "noanswer") => Succeeding(h)

WhInv ==
  /\ WhTypeOK
  /\ \A t \in Threads : Paced(t)
  /\ \A h \in Hooks : Row(h)

LEMMA ThreadPairs ==
  /\ \A t \in Threads : t[1] \in Hooks /\ t[2] \in Emits /\ t = <<t[1], t[2]>>
  /\ \A h \in Hooks, e \in Emits : <<h, e>> \in Threads /\ <<h, e>>[1] = h /\ <<h, e>>[2] = e
BY DEF Threads

LEMMA TypeOfParts ==
  ASSUME WhTypeOK
  PROVE  /\ \A t \in Threads : /\ thread[t] \in ThreadRow /\ posts[t] \in Nat
                               /\ outcomes[t] \in Seq(Statuses \ {"none"})
         /\ \A h \in Hooks : hook[h] \in HookRow
BY DEF WhTypeOK, ThreadRow, HookRow

LEMMA WhInitInv == WhInit => WhInv
<1>. SUFFICES ASSUME WhInit PROVE WhInv
  OBVIOUS
<1>0. \A t \in Threads : outcomes[t] = <<>> /\ Len(outcomes[t]) = 0 /\ posts[t] = 0
  BY DEF WhInit
<1>1. /\ NoThread \in ThreadRow /\ NoThread.stage = "none" /\ NoThread.retry = 0
      /\ \A t \in Threads : thread[t] = NoThread
  BY DEF WhInit, NoThread, ThreadRow, ThreadStages, Statuses, Errors
<1>2. WhTypeOK
  <2>1. hook \in [Hooks -> HookRow]
    BY DEF WhInit, HookRow, Statuses, Errors
  <2>2. thread \in [Threads -> ThreadRow]
    BY <1>1 DEF WhInit
  <2>3. outcomes \in [Threads -> Seq(Statuses \ {"none"})]
    BY DEF WhInit
  <2>. QED
    BY <2>1, <2>2, <2>3 DEF WhInit, WhTypeOK, HookRow, ThreadRow
<1>3. ASSUME NEW t \in Threads PROVE Paced(t)
  BY <1>0, <1>1, WebhookAssumption DEF Paced
<1>4. ASSUME NEW h \in Hooks PROVE Row(h)
  <2>1. \A e \in Emits : Len(outcomes[<<h, e>>]) = 0 /\ thread[<<h, e>>].stage = "none"
    BY <1>0, <1>1, ThreadPairs
  <2>2. ASSUME NEW s PROVE ~Has(h, s)
    <3>1. \A e \in Emits : 1..Len(outcomes[<<h, e>>]) = {}
      BY <2>1
    <3>. QED
      BY <3>1 DEF Has
  <2>3. hook[h].error = "none" /\ hook[h].status = "none"
    BY DEF WhInit
  <2>4. Failing(h)
    BY <2>1, <2>2, <2>3 DEF Failing
  <2>5. Succeeding(h)
    BY <2>1, <2>2, <2>3 DEF Succeeding
  <2>. QED
    BY <2>4, <2>5 DEF Row
<1>. QED
  BY <1>2, <1>3, <1>4 DEF WhInv

\* What becomes of the row of a webhook when no attempt ends: threads that get
\* ready to post have loaded the row as it is.
LEMMA QuietRow ==
  ASSUME NEW h \in Hooks, Row(h), UNCHANGED outcomes,
         hook'[h].gone = hook[h].gone \/ hook'[h].gone = TRUE,
         hook'[h].status = hook[h].status, hook'[h].error = hook[h].error,
         \A e \in Emits : thread'[<<h, e>>].stage = "post" =>
           \/ /\ thread[<<h, e>>].stage = "post"
              /\ thread'[<<h, e>>].status = thread[<<h, e>>].status
              /\ thread'[<<h, e>>].error = thread[<<h, e>>].error
           \/ /\ thread'[<<h, e>>].status = hook[h].status
              /\ thread'[<<h, e>>].error = hook[h].error
  PROVE  Row(h)'
<1>. SUFFICES ASSUME ~hook'[h].gone PROVE Row(h)'
  BY DEF Row
<1>1. ~hook[h].gone
  OBVIOUS
<1>2. \A s : Has(h, s)' <=> Has(h, s)
  BY DEF Has
<1>3. ASSUME ~Has(h, "ok") PROVE Failing(h)'
  <2>1. Failing(h)
    BY <1>1, <1>3 DEF Row
  <2>. QED
    BY <1>2, <2>1 DEF Failing
<1>4. ASSUME ~Has(h, "failed"), ~Has(h, "noanswer") PROVE Succeeding(h)'
  <2>1. Succeeding(h)
    BY <1>1, <1>4 DEF Row
  <2>. QED
    BY <1>2, <2>1 DEF Succeeding
<1>. QED
  BY <1>2, <1>3, <1>4 DEF Row

LEMMA EmitKeeps ==
  ASSUME WhInv, NEW e \in Emits, Emit(e)
  PROVE  WhInv'
<1>. DEFINE fresh == [NoThread EXCEPT !.stage = "attempt"]
<1>1. /\ e \notin emitted /\ emitted' = emitted \cup {e}
      /\ thread' = [t \in Threads |-> IF t[2] = e /\ t[1] \in Receivers(e) THEN fresh ELSE thread[t]]
      /\ UNCHANGED <<hook, posts, outcomes>>
  BY DEF Emit
<1>2. fresh \in ThreadRow /\ fresh.stage = "attempt" /\ fresh.retry = 0
  BY DEF NoThread, ThreadRow, ThreadStages, Statuses, Errors
<1>. HIDE DEF fresh
<1>3. \A t \in Threads : thread'[t] = IF t[2] = e /\ t[1] \in Receivers(e) THEN fresh ELSE thread[t]
  BY <1>1
<1>4. WhTypeOK'
  BY <1>1, <1>2 DEF WhInv, WhTypeOK, ThreadRow
<1>5. ASSUME NEW t \in Threads PROVE Paced(t)'
  BY <1>1, <1>2, <1>3 DEF WhInv, Paced, Trying
<1>6. ASSUME NEW h \in Hooks PROVE Row(h)'
  <2>1. \A f \in Emits : thread'[<<h, f>>].stage = "post" => thread'[<<h, f>>] = thread[<<h, f>>]
    BY <1>2, <1>3, ThreadPairs
  <2>. QED
    BY <1>1, <2>1, QuietRow DEF WhInv
<1>. QED
  BY <1>4, <1>5, <1>6 DEF WhInv

\* Steps in which one thread changes and nothing is posted.
LEMMA ThreadMoves ==
  ASSUME WhInv, NEW t \in Threads, NEW q \in ThreadRow, thread' = [thread EXCEPT ![t] = q],
         UNCHANGED <<hook, emitted, posts, outcomes>>,
         \/ /\ thread[t].stage \in {"attempt", "wait"} /\ q.stage = "stopped"
         \/ /\ thread[t].stage = "attempt" /\ q.stage = "post" /\ q.retry = thread[t].retry
            /\ q.status = hook[t[1]].status /\ q.error = hook[t[1]].error
         \/ /\ thread[t].stage = "wait" /\ q.stage = "attempt" /\ q.retry = thread[t].retry + 1
  PROVE  WhInv'
<1>1. \A u \in Threads : thread'[u] = IF u = t THEN q ELSE thread[u]
  BY DEF WhInv, WhTypeOK
<1>2. WhTypeOK'
  BY DEF WhInv, WhTypeOK, ThreadRow
<1>3. ASSUME NEW u \in Threads PROVE Paced(u)'
  <2>1. Paced(u) /\ thread[u].retry \in Nat /\ Retries \in Nat
    BY TypeOfParts, WebhookAssumption DEF WhInv, ThreadRow
  <2>2. Len(outcomes[u]) \in Nat
    BY TypeOfParts, LenProperties DEF WhInv
  <2>3. CASE u # t
    BY <1>1, <2>1, <2>3 DEF Paced
  <2>4. CASE u = t
    BY <1>1, <2>1, <2>2, <2>4 DEF Paced, Trying
  <2>. QED
    BY <2>3, <2>4
<1>4. ASSUME NEW h \in Hooks PROVE Row(h)'
  <2>1. \A e \in Emits : thread'[<<h, e>>].stage = "post" =>
          \/ thread'[<<h, e>>] = thread[<<h, e>>]
          \/ /\ thread'[<<h, e>>].status = hook[h].status
             /\ thread'[<<h, e>>].error = hook[h].error
    BY <1>1, ThreadPairs
  <2>. QED
    BY <2>1, QuietRow DEF WhInv
<1>. QED
  BY <1>2, <1>3, <1>4 DEF WhInv

LEMMA AttemptKeeps ==
  ASSUME WhInv, NEW t \in Threads, Attempt(t)
  PROVE  WhInv'
<1>1. thread[t] \in ThreadRow /\ hook[t[1]] \in HookRow
  BY TypeOfParts, ThreadPairs DEF WhInv
<1>2. CASE Live(t[1])
  <2>. DEFINE q == [thread[t] EXCEPT !.stage = "post", !.status = hook[t[1]].status,
                                     !.error = hook[t[1]].error]
  <2>1. q \in ThreadRow /\ q.stage = "post" /\ q.retry = thread[t].retry
        /\ q.status = hook[t[1]].status /\ q.error = hook[t[1]].error
    BY <1>1 DEF ThreadRow, HookRow, ThreadStages
  <2>2. /\ thread' = [thread EXCEPT ![t] = q] /\ thread[t].stage = "attempt"
        /\ UNCHANGED <<hook, emitted, posts, outcomes>>
    BY <1>2 DEF Attempt
  <2>. HIDE DEF q
  <2>. QED
    BY <2>1, <2>2, ThreadMoves
<1>3. CASE ~Live(t[1])
  <2>. DEFINE q == [thread[t] EXCEPT !.stage = "stopped"]
  <2>1. q \in ThreadRow /\ q.stage = "stopped"
    BY <1>1 DEF ThreadRow, ThreadStages
  <2>2. /\ thread' = [thread EXCEPT ![t] = q] /\ thread[t].stage = "attempt"
        /\ UNCHANGED <<hook, emitted, posts, outcomes>>
    BY <1>3 DEF Attempt
  <2>. HIDE DEF q
  <2>. QED
    BY <2>1, <2>2, ThreadMoves
<1>. QED
  BY <1>2, <1>3

LEMMA RetryKeeps ==
  ASSUME WhInv, NEW t \in Threads, Retry(t)
  PROVE  WhInv'
<1>. DEFINE q == [thread[t] EXCEPT !.stage = "attempt", !.retry = thread[t].retry + 1]
<1>1. thread[t] \in ThreadRow /\ thread[t].retry + 1 \in Nat
  BY TypeOfParts DEF WhInv, ThreadRow
<1>2. q \in ThreadRow /\ q.stage = "attempt" /\ q.retry = thread[t].retry + 1
  <2>1. \A r \in ThreadRow, n \in Nat :
          LET x == [r EXCEPT !.stage = "attempt", !.retry = n]
          IN  x \in ThreadRow /\ x.stage = "attempt" /\ x.retry = n
    BY DEF ThreadRow, ThreadStages
  <2>. QED
    BY <1>1, <2>1
<1>3. /\ thread' = [thread EXCEPT ![t] = q] /\ thread[t].stage = "wait"
      /\ UNCHANGED <<hook, emitted, posts, outcomes>>
  BY <1>1 DEF Retry, ThreadRow
<1>. HIDE DEF q
<1>. QED
  BY <1>2, <1>3, ThreadMoves

\* The sequence of outcomes of a thread grows by one.
LEMMA OneMore ==
  ASSUME WhTypeOK, NEW t \in Threads, NEW s \in Statuses \ {"none"},
         outcomes' = [outcomes EXCEPT ![t] = Append(@, s)]
  PROVE  /\ outcomes' \in [Threads -> Seq(Statuses \ {"none"})]
         /\ \A u \in Threads : u # t => outcomes'[u] = outcomes[u]
         /\ Len(outcomes[t]) \in Nat /\ Len(outcomes'[t]) = Len(outcomes[t]) + 1
         /\ outcomes'[t][Len(outcomes[t]) + 1] = s
         /\ \A k \in 1..Len(outcomes[t]) : outcomes'[t][k] = outcomes[t][k]
<1>1. outcomes[t] \in Seq(Statuses \ {"none"}) /\ outcomes'[t] = Append(outcomes[t], s)
  BY DEF WhTypeOK
<1>2. /\ Append(outcomes[t], s) \in Seq(Statuses \ {"none"})
      /\ Len(outcomes[t]) \in Nat /\ Len(Append(outcomes[t], s)) = Len(outcomes[t]) + 1
      /\ Append(outcomes[t], s)[Len(outcomes[t]) + 1] = s
      /\ \A k \in 1..Len(outcomes[t]) : Append(outcomes[t], s)[k] = outcomes[t][k]
  BY <1>1
<1>. QED
  BY <1>1, <1>2 DEF WhTypeOK

LEMMA HasOneMore ==
  ASSUME WhTypeOK, NEW t \in Threads, NEW s \in Statuses \ {"none"},
         outcomes' = [outcomes EXCEPT ![t] = Append(@, s)]
  PROVE  \A h \in Hooks, x \in Statuses : Has(h, x)' <=> Has(h, x) \/ (h = t[1] /\ x = s)
<1>. DEFINE n == Len(outcomes[t])
<1>0. /\ \A u \in Threads : u # t => outcomes'[u] = outcomes[u]
      /\ n \in Nat /\ Len(outcomes'[t]) = n + 1 /\ outcomes'[t][n + 1] = s
      /\ \A k \in 1..n : outcomes'[t][k] = outcomes[t][k]
  BY OneMore
<1>. SUFFICES ASSUME NEW h \in Hooks, NEW x \in Statuses
              PROVE  Has(h, x)' <=> Has(h, x) \/ (h = t[1] /\ x = s)
  OBVIOUS
<1>. DEFINE At(e, k) == k \in 1..Len(outcomes[<<h, e>>]) /\ outcomes[<<h, e>>][k] = x
<1>a. Has(h, x) <=> \E e \in Emits : \E k : At(e, k)
  BY DEF Has
<1>b. Has(h, x)' <=> \E e \in Emits : \E k : At(e, k)'
  BY DEF Has
<1>c. \A e \in Emits : <<h, e>> # t => \A k : At(e, k)' <=> At(e, k)
  BY <1>0, ThreadPairs
<1>d. \A e \in Emits : <<h, e>> = t => \A k : At(e, k)' <=> At(e, k) \/ (k = n + 1 /\ x = s)
  <2>. SUFFICES ASSUME NEW e \in Emits, <<h, e>> = t, NEW k
                PROVE  At(e, k)' <=> At(e, k) \/ (k = n + 1 /\ x = s)
    OBVIOUS
  <2>1. k \in 1..(n + 1) <=> k \in 1..n \/ k = n + 1
    BY <1>0
  <2>2. n + 1 \notin 1..n
    BY <1>0
  <2>3. At(e, k) <=> k \in 1..n /\ outcomes[t][k] = x
    OBVIOUS
  <2>4. At(e, k)' <=> k \in 1..(n + 1) /\ outcomes'[t][k] = x
    BY <1>0
  <2>. QED
    BY <1>0, <2>1, <2>2, <2>3, <2>4
<1>. HIDE DEF At, n
<1>e. h = t[1] => <<h, t[2]>> = t /\ t[2] \in Emits
  BY ThreadPairs
<1>f. h # t[1] => \A e \in Emits : <<h, e>> # t
  BY ThreadPairs
<1>1. CASE h = t[1]
  BY <1>a, <1>b, <1>c, <1>d, <1>e, <1>1
<1>2. CASE h # t[1]
  BY <1>a, <1>b, <1>c, <1>f, <1>2
<1>. QED
  BY <1>1, <1>2

\* An attempt ends: with a success, which ends the delivery, or a failure.
Ended(t, s, error, stage) ==
  \/ s = "ok" /\ error = "none" /\ stage = "delivered"
  \/ s \in {"failed", "noanswer"} /\ error = s /\ stage = AfterFailure(t)

\* What the attempts of a thread, and its posts, tell after one more.
LEMMA FinishPaces ==
  ASSUME WhInv, NEW t \in Threads, NEW s \in Statuses \ {"none"}, NEW q \in ThreadRow,
         thread[t].stage = "post", UNCHANGED emitted, thread' = [thread EXCEPT ![t] = q],
         posts' = posts \/ posts' = [posts EXCEPT ![t] = @ + 1],
         outcomes' = [outcomes EXCEPT ![t] = Append(@, s)], q.retry = thread[t].retry,
         \/ q.stage \in {"died", "delivered"}
         \/ s # "ok" /\ q.stage = AfterFailure(t)
  PROVE  \A u \in Threads : Paced(u)'
<1>1. \A u \in Threads : thread'[u] = IF u = t THEN q ELSE thread[u]
  BY DEF WhInv, WhTypeOK
<1>2. /\ \A u \in Threads : u # t => outcomes'[u] = outcomes[u] /\ posts'[u] = posts[u]
      /\ Len(outcomes[t]) \in Nat /\ Len(outcomes'[t]) = Len(outcomes[t]) + 1
      /\ outcomes'[t][Len(outcomes[t]) + 1] = s
      /\ \A k \in 1..Len(outcomes[t]) : outcomes'[t][k] = outcomes[t][k]
  BY OneMore DEF WhInv, WhTypeOK
<1>3. posts[t] \in Nat /\ (posts'[t] = posts[t] \/ posts'[t] = posts[t] + 1)
  BY DEF WhInv, WhTypeOK
<1>. SUFFICES ASSUME NEW u \in Threads PROVE Paced(u)'
  OBVIOUS
<1>4. CASE u # t
  BY <1>1, <1>2, <1>4 DEF WhInv, Paced
<1>5. CASE u = t
  <2>. DEFINE n == Len(outcomes[t])
  <2>1. /\ posts[t] <= n /\ n = thread[t].retry /\ n <= Retries /\ t[2] \in emitted
        /\ \A k \in 1..n : outcomes[t][k] # "ok"
    BY DEF WhInv, Paced, Trying
  <2>2. n \in Nat /\ Retries \in Nat
    BY <1>2, WebhookAssumption
  <2>3. q.stage \in {"died", "delivered"} \/ (s # "ok" /\ q.stage = "wait" /\ n < Retries)
          \/ (s # "ok" /\ q.stage = "gaveup")
    BY <2>1 DEF AfterFailure
  <2>4. Len(outcomes'[t]) = n + 1 /\ thread'[t] = q
    BY <1>1, <1>2
  <2>5. posts'[t] <= n + 1 /\ n + 1 <= Retries + 1
    BY <1>3, <2>1, <2>2
  <2>6. ASSUME NEW k \in 1..(n + 1), outcomes'[t][k] = "ok"
        PROVE  k = n + 1 /\ q.stage \notin Trying
    <3>1. k = n + 1
      BY <1>2, <2>1, <2>2, <2>6
    <3>2. s = "ok"
      BY <1>2, <2>6, <3>1
    <3>. QED
      BY <2>3, <3>1, <3>2 DEF Trying
  <2>. HIDE DEF n
  <2>7. Paced(t)'
    BY <2>1, <2>2, <2>3, <2>4, <2>5, <2>6 DEF Paced
  <2>. QED
    BY <1>5, <2>7
<1>. QED
  BY <1>4, <1>5

\* The row of the webhook after an attempt that could be saved.
LEMMA SaveShows ==
  ASSUME WhInv, NEW t \in Threads, NEW s, NEW error, NEW stage, Ended(t, s, error, stage),
         thread[t].stage = "post", ~hook[t[1]].gone, Save(t, s, error),
         thread' = [thread EXCEPT ![t].stage = stage],
         outcomes' = [outcomes EXCEPT ![t] = Append(@, s)]
  PROVE  hook' \in [Hooks -> HookRow] /\ \A h \in Hooks : Row(h)'
<1>. PICK h \in Hooks, e \in Emits : t = <<h, e>> /\ t[1] = h
  BY ThreadPairs
<1>0. s \in Statuses \ {"none"} /\ error \in Errors /\ hook[h] \in HookRow
  BY TypeOfParts DEF Ended, Statuses, Errors, WhInv
<1>1. hook' = [hook EXCEPT ![h].status = IF s # thread[t].status THEN s ELSE hook[h].status,
                           ![h].error = IF error # thread[t].error THEN error ELSE hook[h].error]
  BY DEF Save, WhInv, WhTypeOK
<1>2. /\ \A g \in Hooks : g # h => hook'[g] = hook[g]
      /\ hook'[h].gone = FALSE
      /\ hook'[h].status = IF s # thread[t].status THEN s ELSE hook[h].status
      /\ hook'[h].error = IF error # thread[t].error THEN error ELSE hook[h].error
  BY <1>0, <1>1 DEF WhInv, WhTypeOK
<1>3. hook' \in [Hooks -> HookRow]
  BY <1>0, <1>1 DEF WhInv, WhTypeOK, HookRow
<1>4. \A g \in Hooks, f \in Emits : thread'[<<g, f>>].stage = "post" =>
         <<g, f>> # t /\ thread'[<<g, f>>] = thread[<<g, f>>]
  <2>1. stage # "post" /\ DOMAIN thread = Threads
    BY DEF WhInv, WhTypeOK, Ended, AfterFailure
  <2>2. thread'[t].stage = stage /\ \A u \in Threads : u # t => thread'[u] = thread[u]
    BY <2>1
  <2>. QED
    BY <2>1, <2>2, ThreadPairs
<1>5. \A g \in Hooks, x \in Statuses : Has(g, x)' <=> Has(g, x) \/ (g = h /\ x = s)
  <2>1. \A g \in Hooks, x \in Statuses : Has(g, x)' <=> Has(g, x) \/ (g = t[1] /\ x = s)
    <3>1. WhTypeOK
      BY DEF WhInv
    <3>. HIDE DEF Has
    <3>. QED
      BY <1>0, <3>1, HasOneMore
  <2>. QED
    BY <2>1
<1>6. ASSUME NEW g \in Hooks, g # h PROVE Row(g)'
  <2>1. \A x \in Statuses : Has(g, x)' <=> Has(g, x)
    BY <1>5, <1>6
  <2>2. hook'[g] = hook[g] /\ Row(g)
    BY <1>2, <1>6 DEF WhInv
  <2>3. ASSUME Failing(g) PROVE Failing(g)'
    BY <1>4, <2>1, <2>2, <2>3 DEF Failing, Statuses
  <2>4. ASSUME Succeeding(g) PROVE Succeeding(g)'
    BY <1>4, <2>1, <2>2, <2>4 DEF Succeeding, Statuses
  <2>. QED
    BY <2>1, <2>2, <2>3, <2>4 DEF Row, Statuses
<1>7. Row(h) /\ ~hook[h].gone
  BY DEF WhInv
<1>8. ASSUME ~Has(h, "ok")' PROVE Failing(h)'
  <2>1. ~Has(h, "ok") /\ s # "ok"
    BY <1>5, <1>8 DEF Statuses
  <2>2. Failing(h) /\ error = s /\ s # "none"
    BY <1>7, <2>1 DEF Row, Ended
  <2>3. hook'[h].error # "none" /\ hook'[h].status \notin {"none", "ok"}
    BY <1>2, <2>1, <2>2 DEF Failing
  <2>. QED
    BY <2>3 DEF Failing
<1>9. ASSUME ~Has(h, "failed")', ~Has(h, "noanswer")' PROVE Succeeding(h)'
  <2>1. ~Has(h, "failed") /\ ~Has(h, "noanswer") /\ s = "ok" /\ error = "none"
    BY <1>5, <1>9 DEF Statuses, Ended
  <2>2. Succeeding(h)
    BY <1>7, <2>1 DEF Row
  <2>3. hook'[h].error = "none" /\ hook'[h].status = "ok"
    BY <1>2, <2>1, <2>2 DEF Succeeding
  <2>. QED
    BY <1>4, <2>2, <2>3 DEF Succeeding
<1>10. Row(h)'
  BY <1>8, <1>9 DEF Row
<1>. QED
  BY <1>3, <1>6, <1>10

LEMMA PostKeeps ==
  ASSUME WhInv, NEW t \in Threads, Post(t)
  PROVE  WhInv'
<1>1. PICK s, error, stage :
        /\ Ended(t, s, error, stage) /\ Finish(t, s, error, stage)
        /\ posts' = posts \/ posts' = [posts EXCEPT ![t] = @ + 1]
  BY DEF Post, Ended
<1>2. /\ thread[t].stage = "post" /\ UNCHANGED emitted
      /\ outcomes' = [outcomes EXCEPT ![t] = Append(@, s)]
  BY <1>1 DEF Post, Finish
<1>3. s \in Statuses \ {"none"} /\ thread[t] \in ThreadRow /\ stage \in ThreadStages
  BY <1>1, TypeOfParts DEF Ended, Statuses, ThreadStages, AfterFailure, WhInv
<1>4. posts' \in [Threads -> Nat]
  <2>1. posts \in [Threads -> Nat] /\ posts[t] + 1 \in Nat
    BY DEF WhInv, WhTypeOK
  <2>2. posts' = posts \/ posts' = [posts EXCEPT ![t] = posts[t] + 1]
    BY <1>1
  <2>. QED
    BY <2>1, <2>2
<1>5. outcomes' \in [Threads -> Seq(Statuses \ {"none"})]
  BY <1>2, <1>3, OneMore DEF WhInv
<1>6. CASE hook[t[1]].gone
  <2>. DEFINE q == [thread[t] EXCEPT !.stage = "died"]
  <2>1. q \in ThreadRow /\ q.stage = "died" /\ q.retry = thread[t].retry
    BY <1>3 DEF ThreadRow, ThreadStages
  <2>2. thread' = [thread EXCEPT ![t] = q] /\ UNCHANGED hook
    BY <1>1, <1>6 DEF Finish
  <2>. HIDE DEF q
  <2>3. WhTypeOK'
    BY <1>2, <1>4, <1>5, <2>1, <2>2 DEF WhInv, WhTypeOK, ThreadRow
  <2>4. \A u \in Threads : Paced(u)'
    BY <1>1, <1>2, <1>3, <2>1, <2>2, FinishPaces
  <2>5. ASSUME NEW h \in Hooks PROVE Row(h)'
    <3>1. CASE hook[h].gone
      BY <2>2, <3>1 DEF Row
    <3>2. CASE ~hook[h].gone
      <4>1. h # t[1]
        BY <1>6, <3>2
      <4>2. \A x \in Statuses : Has(h, x)' <=> Has(h, x)
        BY <1>2, <1>3, <4>1, HasOneMore DEF WhInv
      <4>3. \A e \in Emits : thread'[<<h, e>>] = thread[<<h, e>>]
        BY <2>2, <4>1, ThreadPairs DEF WhInv, WhTypeOK
      <4>4. Row(h)
        BY DEF WhInv
      <4>5. ASSUME Failing(h) PROVE Failing(h)'
        BY <2>2, <4>2, <4>3, <4>5 DEF Failing, Statuses
      <4>6. ASSUME Succeeding(h) PROVE Succeeding(h)'
        BY <2>2, <4>2, <4>3, <4>6 DEF Succeeding, Statuses
      <4>. QED
        BY <2>2, <4>2, <4>4, <4>5, <4>6 DEF Row, Statuses
    <3>. QED
      BY <3>1, <3>2
  <2>. QED
    BY <2>3, <2>4, <2>5 DEF WhInv
<1>7. CASE ~hook[t[1]].gone
  <2>. DEFINE q == [thread[t] EXCEPT !.stage = stage]
  <2>1. q \in ThreadRow /\ q.stage = stage /\ q.retry = thread[t].retry
    BY <1>3 DEF ThreadRow
  <2>2. thread' = [thread EXCEPT ![t] = q] /\ Save(t, s, error)
        /\ thread' = [thread EXCEPT ![t].stage = stage]
    BY <1>1, <1>7 DEF Finish
  <2>. HIDE DEF q
  <2>3. hook' \in [Hooks -> HookRow] /\ \A h \in Hooks : Row(h)'
    BY <1>1, <1>2, <1>7, <2>2, SaveShows
  <2>4. WhTypeOK'
    BY <1>2, <1>4, <1>5, <2>1, <2>2, <2>3 DEF WhInv, WhTypeOK, ThreadRow, HookRow
  <2>5. \/ q.stage \in {"died", "delivered"}
        \/ s # "ok" /\ q.stage = AfterFailure(t)
    BY <1>1, <2>1 DEF Ended
  <2>6. \A u \in Threads : Paced(u)'
    BY <1>1, <1>2, <1>3, <2>1, <2>2, <2>5, FinishPaces
  <2>. QED
    BY <2>3, <2>4, <2>6 DEF WhInv
<1>. QED
  BY <1>6, <1>7

\* The administrator pauses, resumes or deletes a webhook.
LEMMA HookMoves ==
  ASSUME WhInv, NEW h \in Hooks, NEW r \in HookRow, hook' = [hook EXCEPT ![h] = r],
         r.status = hook[h].status, r.error = hook[h].error,
         r.gone = hook[h].gone \/ r.gone = TRUE,
         UNCHANGED <<emitted, thread, posts, outcomes>>
  PROVE  WhInv'
<1>1. \A g \in Hooks : hook'[g] = IF g = h THEN r ELSE hook[g]
  BY DEF WhInv, WhTypeOK
<1>2. WhTypeOK'
  BY DEF WhInv, WhTypeOK, HookRow
<1>3. \A t \in Threads : Paced(t)'
  BY DEF WhInv, Paced
<1>4. \A g \in Hooks : Row(g)'
  BY <1>1, QuietRow DEF WhInv
<1>. QED
  BY <1>2, <1>3, <1>4 DEF WhInv

LEMMA ToggleKeeps ==
  ASSUME WhInv, NEW h \in Hooks, Toggle(h)
  PROVE  WhInv'
<1>. DEFINE r == [hook[h] EXCEPT !.enabled = ~hook[h].enabled]
<1>1. hook[h] \in HookRow
  BY TypeOfParts DEF WhInv
<1>2. r \in HookRow /\ r.status = hook[h].status /\ r.error = hook[h].error
      /\ r.gone = hook[h].gone
  BY <1>1 DEF HookRow
<1>3. hook' = [hook EXCEPT ![h] = r] /\ UNCHANGED <<emitted, thread, posts, outcomes>>
  BY DEF Toggle
<1>. HIDE DEF r
<1>. QED
  BY <1>2, <1>3, HookMoves

LEMMA DeleteKeeps ==
  ASSUME WhInv, NEW h \in Hooks, Delete(h)
  PROVE  WhInv'
<1>. DEFINE r == [hook[h] EXCEPT !.gone = TRUE]
<1>1. hook[h] \in HookRow
  BY TypeOfParts DEF WhInv
<1>2. r \in HookRow /\ r.status = hook[h].status /\ r.error = hook[h].error /\ r.gone = TRUE
  BY <1>1 DEF HookRow
<1>3. hook' = [hook EXCEPT ![h] = r] /\ UNCHANGED <<emitted, thread, posts, outcomes>>
  BY DEF Delete
<1>. HIDE DEF r
<1>. QED
  BY <1>2, <1>3, HookMoves

LEMMA RestartKeeps ==
  ASSUME WhInv, RestartHooks
  PROVE  WhInv'
<1>1. /\ thread' = [t \in Threads |-> IF thread[t].stage \in {"attempt", "post", "wait"}
                                     THEN [thread[t] EXCEPT !.stage = "died"] ELSE thread[t]]
      /\ UNCHANGED <<hook, emitted, posts, outcomes>>
  BY DEF RestartHooks
<1>2. \A r \in ThreadRow : /\ [r EXCEPT !.stage = "died"] \in ThreadRow
                           /\ [r EXCEPT !.stage = "died"].stage = "died"
  BY DEF ThreadRow, ThreadStages
<1>3. \A t \in Threads : \/ thread'[t] = thread[t]
                         \/ thread[t].stage # "none" /\ thread'[t].stage = "died"
  BY <1>1, <1>2, TypeOfParts DEF WhInv
<1>4. thread' \in [Threads -> ThreadRow]
  BY <1>1, <1>2, TypeOfParts DEF WhInv
<1>5. WhTypeOK'
  BY <1>1, <1>4 DEF WhInv, WhTypeOK, ThreadRow
<1>6. ASSUME NEW t \in Threads PROVE Paced(t)'
  BY <1>1, <1>3 DEF WhInv, Paced, Trying
<1>7. ASSUME NEW h \in Hooks PROVE Row(h)'
  <2>1. \A e \in Emits : thread'[<<h, e>>].stage = "post" => thread'[<<h, e>>] = thread[<<h, e>>]
    BY <1>3, ThreadPairs
  <2>. QED
    BY <1>1, <2>1, QuietRow DEF WhInv
<1>. QED
  BY <1>5, <1>6, <1>7 DEF WhInv

LEMMA WhStepKeeps == WhInv /\ [WhNext]_whVars => WhInv'
<1>. SUFFICES ASSUME WhInv, [WhNext]_whVars PROVE WhInv'
  OBVIOUS
<1>1. CASE WhNext
  BY <1>1, EmitKeeps, AttemptKeeps, PostKeeps, RetryKeeps, ToggleKeeps, DeleteKeeps,
     RestartKeeps DEF WhNext, ThreadStep
<1>2. CASE UNCHANGED whVars
  <2>1. WhTypeOK'
    BY <1>2 DEF whVars, WhInv, WhTypeOK
  <2>2. \A t \in Threads : Paced(t)'
    BY <1>2 DEF whVars, WhInv, Paced
  <2>3. \A h \in Hooks : Row(h)'
    BY <1>2, QuietRow DEF whVars, WhInv
  <2>. QED
    BY <2>1, <2>2, <2>3 DEF WhInv
<1>. QED
  BY <1>1, <1>2

\* WebhookDelivery.PostsAreShown (webhooks.py:35-95): a receiver gets an event
\* at most Retries + 1 times and never again after a success, and a webhook
\* whose attempts agree shows what they agree on.
THEOREM PostsAreAlwaysShown == WhSpec => []PostsAreShown
<1>1. WhInv => PostsAreShown
  <2>. SUFFICES ASSUME WhInv PROVE PostsAreShown
    OBVIOUS
  <2>1. \A t \in Threads : DOMAIN outcomes[t] = 1..Len(outcomes[t])
    BY TypeOfParts DEF WhInv
  <2>2. BoundedPosts
    BY <2>1 DEF WhInv, Paced, BoundedPosts
  <2>3. ASSUME NEW h \in Hooks, NEW s PROVE s \in Outcomes(h) <=> Has(h, s)
    <3>. DEFINE S(e) == {outcomes[<<h, e>>][k] : k \in DOMAIN outcomes[<<h, e>>]}
    <3>1. s \in Outcomes(h) <=> \E e \in Emits : s \in S(e)
      BY DEF Outcomes
    <3>2. ASSUME NEW e \in Emits
          PROVE  s \in S(e) <=> \E k \in 1..Len(outcomes[<<h, e>>]) : outcomes[<<h, e>>][k] = s
      <4>1. DOMAIN outcomes[<<h, e>>] = 1..Len(outcomes[<<h, e>>])
        BY <2>1, ThreadPairs
      <4>. QED
        BY <4>1
    <3>. HIDE DEF S
    <3>. QED
      BY <3>1, <3>2 DEF Has
  <2>4. ASSUME NEW h \in Hooks, NEW s \in Outcomes(h) PROVE s \in {"ok", "failed", "noanswer"}
    <3>1. PICK e \in Emits : \E k \in 1..Len(outcomes[<<h, e>>]) : outcomes[<<h, e>>][k] = s
      BY <2>3 DEF Has
    <3>2. outcomes[<<h, e>>] \in Seq(Statuses \ {"none"})
      BY ThreadPairs, TypeOfParts DEF WhInv
    <3>. QED
      BY <3>1, <3>2 DEF Statuses
  <2>5. UnanimousIsShown
    <3>. SUFFICES ASSUME NEW h \in Hooks, ~hook[h].gone
                  PROVE  /\ Outcomes(h) # {} /\ "ok" \notin Outcomes(h) =>
                              hook[h].error # "none" /\ hook[h].status \notin {"none", "ok"}
                         /\ Outcomes(h) = {"ok"} => hook[h].error = "none" /\ hook[h].status = "ok"
      BY DEF UnanimousIsShown
    <3>1. ASSUME Outcomes(h) # {}, "ok" \notin Outcomes(h)
          PROVE  hook[h].error # "none" /\ hook[h].status \notin {"none", "ok"}
      <4>1. ~Has(h, "ok") /\ (Has(h, "failed") \/ Has(h, "noanswer"))
        BY <2>3, <2>4, <3>1
      <4>. QED
        BY <4>1 DEF WhInv, Row, Failing
    <3>2. ASSUME Outcomes(h) = {"ok"}
          PROVE  hook[h].error = "none" /\ hook[h].status = "ok"
      <4>1. Has(h, "ok") /\ ~Has(h, "failed") /\ ~Has(h, "noanswer")
        BY <2>3, <3>2
      <4>. QED
        BY <4>1 DEF WhInv, Row, Succeeding
    <3>. QED
      BY <3>1, <3>2
  <2>. QED
    BY <2>2, <2>5 DEF PostsAreShown
<1>. QED
  BY <1>1, WhInitInv, WhStepKeeps, PTL DEF WhSpec
=============================================================================
