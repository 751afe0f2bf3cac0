-------------------------- MODULE MailTesterProofs --------------------------
(***************************************************************************)
(* The mail tester settles the result of a test once, by the first mail    *)
(* that can be scored: for any number of tests, mails, overlapping polls,  *)
(* requests, crashes and failing flags.                                    *)
(*                                                                         *)
(* A poll reads the inbox once and works through it in order of UID, with  *)
(* a copy of the row of the token at hand that may be stale.  The argument *)
(* is that a mail is flagged only when its test is settled, so that a poll *)
(* whose copy says "waiting" has all the mails before the one at hand      *)
(* behind it, and none of them could be scored.                            *)
(***************************************************************************)
EXTENDS MailTester, TLAPS, FiniteSetTheorems, SequenceTheorems, WellFoundedInduction

TestRow == [row : {"free", "waiting", "received", "gone"}, mail : Nat,
            aged : BOOLEAN, anon : BOOLEAN]

\* The row of a lead a poll holds may be anything.
PollRow(O) ==
  [phase : {"idle", "next", "store", "flag", "find", "mirror"}, uids : SUBSET Nat, uid : Nat,
   token : Tokens \cup {"none"}, loaded : {"free", "waiting", "received"},
   scored : BOOLEAN, old : O]

MtType ==
  /\ test \in [Tokens -> TestRow]
  /\ arrived \in 0..Len(Mails) /\ flagged \subseteq 1..arrived
  /\ \E O : NoRow \in O /\ poll \in [Polls -> PollRow(O)]

Settled(t) == test[t].mail # 0 \/ test[t].row = "gone"

\* Mail m could settle test t.
Counts(t, m) == Mails[m].token = t /\ Mails[m].outcome = "scored"

\* A flagged mail has no say any more.
TestInv ==
  \A t \in Tokens :
    /\ test[t].row \in {"free", "waiting"} => test[t].mail = 0
    /\ test[t].row = "received" => test[t].mail # 0
    /\ test[t].mail # 0 => Life!IsFirst(t, test[t].mail)
    /\ \A m \in 1..arrived : Mails[m].token = t => test[t].row # "free"
    /\ \A m \in flagged : Counts(t, m) => Settled(t)

\* A poll works in order, and what it leaves behind is settled.
OrderInv(p) ==
  poll[p].phase # "idle" =>
    /\ poll[p].phase # "next" => poll[p].uid # 0
    /\ poll[p].uid <= arrived /\ poll[p].uids \subseteq 1..arrived
    /\ \A u \in poll[p].uids : u > poll[p].uid
    /\ \A u \in poll[p].uids, v \in 1..arrived :
         poll[p].uid < v /\ v < u => v \in poll[p].uids \cup flagged
    /\ \A t \in Tokens, v \in 1..arrived :
         v <= poll[p].uid /\ Counts(t, v) =>
           Settled(t) \/ (poll[p].phase = "store" /\ v = poll[p].uid)

\* What the copy of the row tells.
CopyInv(p) ==
  poll[p].phase # "idle" /\ poll[p].token # "none" =>
    LET t == poll[p].token IN
    /\ poll[p].loaded = "received" => Settled(t)
    /\ poll[p].loaded = "waiting" =>
         /\ \A v \in 1..arrived : v <= poll[p].uid /\ Counts(t, v) =>
              poll[p].phase = "store" /\ v = poll[p].uid
         /\ \A u \in poll[p].uids, v \in 1..arrived :
              poll[p].uid < v /\ v < u /\ Counts(t, v) => v \in poll[p].uids

StoreInv(p) ==
  poll[p].phase = "store" =>
    /\ poll[p].uid \in 1..arrived /\ poll[p].token \in Tokens
    /\ Mails[poll[p].uid].token = poll[p].token /\ Mails[poll[p].uid].outcome # "unscored"
    /\ poll[p].loaded = "waiting"

PollInv(p) == OrderInv(p) /\ CopyInv(p) /\ StoreInv(p)

IInv == MtType /\ TestInv /\ \A p \in Polls : PollInv(p)

----------------------------------------------------------------------------
LEMMA MailCount == Len(Mails) \in Nat
BY MailsAssumption

LEMMA MailType ==
  ASSUME NEW m \in 1..Len(Mails)
  PROVE  /\ Mails[m].token \in Tokens \cup {"none"} /\ Mails[m].outcome \in {"scored", "unscored", "refused"}
         /\ m \in DOMAIN Mails
<1>. DEFINE M == [token : Tokens \cup {"none"}, key : Keys \cup {"none"}, outcome : {"scored", "unscored", "refused"}]
<1>1. Mails \in Seq(M)
  BY MailsAssumption
<1>. HIDE DEF M
<1>2. Mails[m] \in M /\ m \in DOMAIN Mails
  BY <1>1
<1>. USE DEF M
<1>. QED
  BY <1>2

\* There is but one first mail.
LEMMA FirstIsOne ==
  ASSUME NEW t \in Tokens, NEW m \in Nat, NEW n \in Nat, Life!IsFirst(t, m), Life!IsFirst(t, n)
  PROVE  m = n
BY MailsAssumption DEF Life!IsFirst

\* A set of natural numbers has a least one.
LEMMA LeastNumber ==
  ASSUME NEW S \in SUBSET Nat, S # {}
  PROVE  \E u \in S : \A v \in S : u <= v
<1>. DEFINE R == {ss \in Nat \X Nat : ss[1] < ss[2]}
<1>1. IsWellFoundedOn(R, Nat)
  BY NatLessThanWellFounded DEF OpToRel
<1>2. \A a, b \in Nat : a < b => <<a, b>> \in R
  OBVIOUS
<1>. HIDE DEF R
<1>3. PICK n \in S : \A v \in S : <<v, n>> \notin R
  BY <1>1, WFMin
<1>4. \A v \in S : ~(v < n)
  BY <1>2, <1>3
<1>5. \A v \in S : n <= v
  BY <1>4
<1>. QED
  BY <1>5

LEMMA InitInv == MailInit => IInv
<1>. SUFFICES ASSUME MailInit PROVE IInv
  OBVIOUS
<1>1. MtType
  <2>1. NoPoll \in PollRow({NoRow})
    BY DEF PollRow, NoPoll
  <2>2. poll \in [Polls -> PollRow({NoRow})]
    BY <2>1 DEF MailInit, MailInitWith
  <2>3. Len(Mails) \in Nat
    BY MailsAssumption
  <2>. QED
    BY <2>2, <2>3 DEF MtType, TestRow, MailInit, MailInitWith, NoTest
<1>2. TestInv
  BY DEF TestInv, MailInit, MailInitWith, NoTest
<1>3. \A p \in Polls : PollInv(p)
  BY DEF PollInv, OrderInv, CopyInv, StoreInv, MailInit, MailInitWith, NoPoll
<1>. QED
  BY <1>1, <1>2, <1>3 DEF IInv

\* A poll is not disturbed by what the others do.
LEMMA OthersKeep ==
  ASSUME IInv, MtType', NEW q \in Polls, poll'[q] = poll[q],
         \A t \in Tokens : Settled(t) => Settled(t)',
         flagged \subseteq flagged', arrived' >= arrived
  PROVE  PollInv(q)'
<1>1. OrderInv(q) /\ CopyInv(q) /\ StoreInv(q)
  BY DEF IInv, PollInv
<1>2. arrived \in Nat /\ arrived' \in Nat
  BY MailCount DEF IInv, MtType
<1>3. poll[q] \in [phase : {"idle", "next", "store", "flag", "find", "mirror"}, uids : SUBSET Nat,
                   uid : Nat, token : Tokens \cup {"none"},
                   loaded : {"free", "waiting", "received"},
                   scored : BOOLEAN, old : {poll[q].old}]
  BY DEF IInv, MtType, PollRow
<1>4. OrderInv(q)'
  <2>. SUFFICES ASSUME poll[q].phase # "idle" PROVE OrderInv(q)'
    BY DEF OrderInv
  <2>1. /\ poll[q].phase # "next" => poll[q].uid # 0
        /\ poll[q].uid <= arrived' /\ poll[q].uids \subseteq 1..arrived'
        /\ \A u \in poll[q].uids : u > poll[q].uid
    BY <1>1, <1>2, <1>3 DEF OrderInv
  <2>2. \A u \in poll[q].uids, v \in 1..arrived' :
          poll[q].uid < v /\ v < u => v \in poll[q].uids \cup flagged'
    BY <1>1, <1>2, <1>3 DEF OrderInv
  <2>3. \A t \in Tokens, v \in 1..arrived' :
          v <= poll[q].uid /\ Counts(t, v) =>
            Settled(t)' \/ (poll[q].phase = "store" /\ v = poll[q].uid)
    BY <1>1, <1>2, <1>3 DEF OrderInv
  <2>. QED
    BY <2>1, <2>2, <2>3 DEF OrderInv, Counts
<1>5. CopyInv(q)'
  <2>. SUFFICES ASSUME poll[q].phase # "idle", poll[q].token # "none" PROVE CopyInv(q)'
    BY DEF CopyInv
  <2>. DEFINE t == poll[q].token
  <2>1. poll[q].loaded = "received" => Settled(t)'
    BY <1>1, <1>3 DEF CopyInv
  <2>2. poll[q].loaded = "waiting" =>
          /\ \A v \in 1..arrived' : v <= poll[q].uid /\ Counts(t, v) =>
               poll[q].phase = "store" /\ v = poll[q].uid
          /\ \A u \in poll[q].uids, v \in 1..arrived' :
               poll[q].uid < v /\ v < u /\ Counts(t, v) => v \in poll[q].uids
    BY <1>1, <1>2, <1>3 DEF CopyInv, OrderInv
  <2>. QED
    BY <2>1, <2>2 DEF CopyInv, Counts
<1>6. StoreInv(q)'
  BY <1>1, <1>2, <1>3 DEF StoreInv, Counts
<1>. QED
  BY <1>4, <1>5, <1>6 DEF PollInv

\* Steps that concern neither tests nor polls.
LEMMA StutterKeeps ==
  ASSUME IInv, UNCHANGED <<test, arrived, flagged, poll>>
  PROVE  IInv'
BY DEF IInv, MtType, TestInv, PollInv, OrderInv, CopyInv, StoreInv, Settled, Counts
----------------------------------------------------------------------------
(* Steps of a poll.                                                        *)

\* The rest of the type invariant.
RestType ==
  /\ test \in [Tokens -> TestRow]
  /\ arrived \in 0..Len(Mails) /\ flagged \subseteq 1..arrived

LEMMA Becomes ==
  ASSUME IInv, NEW p \in Polls, NEW q, Become(p, q)
  PROVE  poll'[p] = q
BY DEF Become, IInv, MtType

LEMMA BecomeType ==
  ASSUME MtType, RestType', NEW p \in Polls, NEW q, NEW O, q \in PollRow(O), Become(p, q)
  PROVE  MtType' /\ poll'[p] = q /\ \A r \in Polls \ {p} : poll'[r] = poll[r]
<1>1. PICK P : NoRow \in P /\ poll \in [Polls -> PollRow(P)]
  BY DEF MtType
<1>2. PollRow(P) \subseteq PollRow(P \cup O) /\ PollRow(O) \subseteq PollRow(P \cup O)
  BY DEF PollRow
<1>3. poll' \in [Polls -> PollRow(P \cup O)]
  BY <1>1, <1>2 DEF Become
<1>. QED
  BY <1>1, <1>3 DEF MtType, RestType, Become

\* A step of p keeps the invariant if it keeps p's part and the tests'.
LEMMA StepKeeps ==
  ASSUME IInv, RestType', NEW p \in Polls, NEW q, NEW O, q \in PollRow(O), Become(p, q),
         \A t \in Tokens : Settled(t) => Settled(t)',
         flagged \subseteq flagged', arrived' = arrived,
         TestInv', PollInv(p)'
  PROVE  IInv'
<1>1. MtType' /\ \A r \in Polls \ {p} : poll'[r] = poll[r]
  BY BecomeType DEF IInv
<1>2. arrived' >= arrived
  BY MailCount DEF IInv, MtType
<1>3. \A r \in Polls \ {p} : PollInv(r)'
  BY <1>1, <1>2, OthersKeep
<1>. QED
  BY <1>1, <1>3 DEF IInv

\* The tests are as they were: so is what is known of them.
LEMMA TestsSame ==
  ASSUME IInv, UNCHANGED <<test, arrived, flagged>>
  PROVE  /\ RestType' /\ TestInv' /\ arrived' = arrived /\ flagged \subseteq flagged'
         /\ \A t \in Tokens : Settled(t) => Settled(t)'
BY DEF IInv, MtType, RestType, TestInv, Settled, Counts

LEMMA IdleKeeps ==
  ASSUME NEW p \in Polls, poll'[p] = NoPoll
  PROVE  PollInv(p)'
BY DEF PollInv, OrderInv, CopyInv, StoreInv, NoPoll

LEMMA NoPollType == NoPoll \in PollRow({NoRow})
BY DEF NoPoll, PollRow

\* What the record of a poll looks like.
LEMMA PollIs ==
  ASSUME IInv, NEW p \in Polls
  PROVE  /\ poll[p] \in PollRow({poll[p].old})
         /\ OrderInv(p) /\ CopyInv(p) /\ StoreInv(p)
         /\ arrived \in Nat /\ arrived <= Len(Mails) /\ Len(Mails) \in Nat
         /\ flagged \subseteq 1..arrived
BY MailCount DEF IInv, MtType, PollRow, PollInv

LEMMA StartPollKeeps ==
  ASSUME IInv, NEW p \in Polls, StartPoll(p)
  PROVE  IInv'
<1>. DEFINE q == [NoPoll EXCEPT !.phase = "next", !.uids = 1..arrived \ flagged]
<1>1. Become(p, q) /\ UNCHANGED <<test, arrived, flagged>>
  BY DEF StartPoll
<1>5. q \in PollRow({NoRow})
  <2>1. 1..arrived \ flagged \in SUBSET Nat
    BY PollIs
  <2>. QED
    BY <2>1 DEF NoPoll, PollRow
<1>2. /\ poll'[p].phase = "next" /\ poll'[p].uid = 0 /\ poll'[p].token = "none"
      /\ poll'[p].uids = 1..arrived \ flagged
  <2>1. poll'[p] = q
    BY <1>1, Becomes
  <2>2. q.phase = "next" /\ q.uid = 0 /\ q.token = "none" /\ q.uids = 1..arrived \ flagged
    BY DEF NoPoll
  <2>. QED
    BY <2>1, <2>2
<1>. HIDE DEF q
<1>3. OrderInv(p)'
  <2>1. arrived' = arrived /\ flagged' = flagged /\ arrived \in Nat
    BY <1>1, PollIs
  <2>. QED
    BY <1>2, <2>1 DEF OrderInv
<1>4. CopyInv(p)' /\ StoreInv(p)'
  BY <1>2 DEF CopyInv, StoreInv
<1>. QED
  BY <1>1, <1>3, <1>4, <1>5, StepKeeps, TestsSame DEF PollInv

LEMMA DropKeeps ==
  ASSUME IInv, NEW p \in Polls, Drop(p)
  PROVE  IInv'
<1>1. Become(p, NoPoll) /\ UNCHANGED <<test, arrived, flagged>>
  BY DEF Drop
<1>2. poll'[p] = NoPoll
  BY <1>1, Becomes
<1>. QED
  BY <1>1, <1>2, StepKeeps, TestsSame, IdleKeeps, NoPollType

\* Phases in which only p's phase, its flag "scored" and the lead change.
SameMail(p, q) ==
  /\ q.uid = poll[p].uid /\ q.uids = poll[p].uids /\ q.token = poll[p].token
  /\ q.phase \notin {"idle", "store"} /\ poll[p].phase \notin {"idle", "store", "next"}
  /\ q.loaded \in {poll[p].loaded, "free"}

LEMMA SameMailKeeps ==
  ASSUME IInv, NEW p \in Polls, NEW q, NEW O, q \in PollRow(O), Become(p, q), SameMail(p, q),
         UNCHANGED <<test, arrived, flagged>>
  PROVE  IInv'
<1>1. poll'[p] = q
  BY Becomes
<1>2. OrderInv(p) /\ CopyInv(p)
  BY PollIs
<1>3. OrderInv(p)'
  BY <1>1, <1>2 DEF OrderInv, SameMail, Settled, Counts
<1>4. CopyInv(p)'
  BY <1>1, <1>2 DEF CopyInv, SameMail, Settled, Counts
<1>5. StoreInv(p)'
  BY <1>1 DEF StoreInv, SameMail
<1>. QED
  BY <1>3, <1>4, <1>5, StepKeeps, TestsSame DEF PollInv

LEMMA MirrorFindKeeps ==
  ASSUME IInv, NEW p \in Polls, MirrorFind(p)
  PROVE  IInv'
<1>. DEFINE old == lead[Mails[poll[p].uid].key]
            q == [poll[p] EXCEPT !.phase = "mirror", !.old = old]
<1>1. poll[p] \in PollRow({poll[p].old})
  BY PollIs
<1>2. q \in PollRow({old}) /\ SameMail(p, q)
  BY <1>1 DEF MirrorFind, PollRow, SameMail
<1>3. Become(p, q) /\ UNCHANGED <<test, arrived, flagged>>
  BY DEF MirrorFind
<1>. HIDE DEF q, old
<1>. QED
  BY <1>2, <1>3, SameMailKeeps

LEMMA MirrorSaveKeeps ==
  ASSUME IInv, NEW p \in Polls, MirrorSave(p)
  PROVE  IInv'
<1>. DEFINE q(l) == [poll[p] EXCEPT !.phase = "next", !.scored = FALSE, !.old = NoRow, !.loaded = l]
<1>1. poll[p] \in PollRow({poll[p].old})
  BY PollIs
<1>2. PICK l \in {poll[p].loaded, "free"} : Become(p, q(l))
  BY DEF MirrorSave
<1>3. q(l) \in PollRow({NoRow}) /\ SameMail(p, q(l))
  BY <1>1, <1>2 DEF MirrorSave, PollRow, SameMail
<1>4. UNCHANGED <<test, arrived, flagged>>
  BY DEF MirrorSave
<1>. HIDE DEF q
<1>. QED
  BY <1>2, <1>3, <1>4, SameMailKeeps

\* A poll flags a mail whose test is settled.
LEMMA FlagKeeps ==
  ASSUME IInv, NEW p \in Polls, Flag(p)
  PROVE  IInv'
<1>1. poll[p] \in PollRow({poll[p].old}) /\ poll[p].phase = "flag" /\ poll[p].uid \in Nat
  BY PollIs DEF Flag, PollRow
<1>. DEFINE q(ph) == [poll[p] EXCEPT !.phase = ph]
<1>2. PICK ph \in {"find", "next"} : Become(p, q(ph))
  BY DEF Flag, AfterFlag
<1>3. q(ph) \in PollRow({poll[p].old}) /\ SameMail(p, q(ph))
  BY <1>1, <1>2 DEF PollRow, SameMail
<1>4. UNCHANGED <<test, arrived>>
  BY DEF Flag
<1>. HIDE DEF q
<1>5. CASE UNCHANGED flagged
  BY <1>2, <1>3, <1>4, <1>5, SameMailKeeps
<1>6. CASE flagged' = flagged \cup {poll[p].uid}
  <2>1. OrderInv(p) /\ arrived \in Nat /\ flagged \subseteq 1..arrived
    BY PollIs
  <2>2. poll[p].uid \in 1..arrived
    BY <1>1, <1>6, <2>1 DEF OrderInv
  <2>3. RestType' /\ arrived' = arrived /\ flagged \subseteq flagged'
    BY <1>4, <1>6, <2>1, <2>2 DEF RestType, IInv, MtType
  <2>4. \A t \in Tokens : Counts(t, poll[p].uid) => Settled(t)
    BY <1>1, <2>1, <2>2 DEF OrderInv
  <2>5. TestInv'
    BY <1>4, <1>6, <2>4 DEF IInv, TestInv, Settled, Counts
  <2>6. PollInv(p)'
    <3>1. poll'[p] = q(ph)
      BY <1>2, Becomes
    <3>2. CopyInv(p)
      BY PollIs
    <3>3. OrderInv(p)'
      BY <1>1, <1>3, <1>4, <1>6, <2>1, <2>2, <3>1 DEF OrderInv, SameMail, Settled, Counts
    <3>4. CopyInv(p)'
      BY <1>1, <1>3, <1>4, <3>1, <3>2 DEF CopyInv, SameMail, Settled, Counts
    <3>. QED
      BY <1>3, <3>1, <3>3, <3>4 DEF PollInv, StoreInv, SameMail
  <2>7. \A t \in Tokens : Settled(t) => Settled(t)'
    BY <1>4 DEF Settled
  <2>. QED
    BY <1>2, <1>3, <2>3, <2>5, <2>6, <2>7, StepKeeps
<1>. QED
  BY <1>5, <1>6 DEF Flag

\* What is stored is the first mail that can be scored.
LEMMA StoredIsFirst ==
  ASSUME IInv, NEW p \in Polls, poll[p].phase = "store"
  PROVE  /\ poll[p].uid \in 1..arrived /\ poll[p].token \in Tokens
         /\ Mails[poll[p].uid].outcome # "refused" => Life!IsFirst(poll[p].token, poll[p].uid)
<1>1. CopyInv(p) /\ StoreInv(p) /\ arrived \in Nat /\ arrived <= Len(Mails) /\ Len(Mails) \in Nat
  BY PollIs
<1>. DEFINE t == poll[p].token
            m == poll[p].uid
<1>2. m \in 1..arrived /\ t \in Tokens /\ Mails[m].token = t /\ poll[p].loaded = "waiting" /\ t # "none"
  BY <1>1, MailTesterAssumption DEF StoreInv
<1>. SUFFICES ASSUME Mails[m].outcome # "refused" PROVE Life!IsFirst(t, m)
  BY <1>2
<1>3. \A v \in 1..arrived : v <= m /\ Counts(t, v) => v = m
  BY <1>1, <1>2 DEF CopyInv
<1>4. \A n \in DOMAIN Mails : n < m /\ Mails[n].token = t => Mails[n].outcome # "scored"
  <2>1. DOMAIN Mails = 1..Len(Mails)
    BY MailsAssumption
  <2>. QED
    BY <1>1, <1>2, <1>3, <2>1 DEF Counts
<1>5. m \in DOMAIN Mails /\ m \in 1..Len(Mails)
  BY <1>1, <1>2, MailsAssumption
<1>6. Mails[m].outcome = "scored"
  BY <1>1, <1>5, MailType DEF StoreInv
<1>. QED
  BY <1>2, <1>4, <1>5, <1>6 DEF Life!IsFirst

LEMMA StoreScoreKeeps ==
  ASSUME IInv, NEW p \in Polls, StoreScore(p)
  PROVE  IInv'
<1>. DEFINE t == poll[p].token
            m == poll[p].uid
            q == [poll[p] EXCEPT !.phase = "flag", !.scored = TRUE, !.loaded = "received"]
<1>1. /\ poll[p].phase = "store" /\ m \in 1..arrived /\ t \in Tokens
      /\ Mails[m].outcome # "refused" => Life!IsFirst(t, m)
      /\ arrived' = arrived /\ flagged' = flagged
  BY StoredIsFirst DEF StoreScore
<1>2. CASE ~Exists(t) \/ Mails[m].outcome = "refused"
  <2>1. Become(p, NoPoll) /\ UNCHANGED <<test, arrived, flagged>>
    BY <1>1, <1>2 DEF StoreScore
  <2>2. poll'[p] = NoPoll
    BY <2>1, Becomes
  <2>. QED
    BY <2>1, <2>2, StepKeeps, TestsSame, IdleKeeps, NoPollType
<1>3. CASE Exists(t) /\ Mails[m].outcome # "refused"
  <2>1. test' = [test EXCEPT ![t].row = "received", ![t].mail = m] /\ Become(p, q)
    BY <1>3 DEF StoreScore
  <2>2. q \in PollRow({poll[p].old}) /\ arrived \in Nat
    BY PollIs DEF PollRow
  <2>3. test \in [Tokens -> TestRow]
    BY DEF IInv, MtType
  <2>4. RestType'
    <3>1. RestType /\ m \in Nat
      <4>1. test \in [Tokens -> TestRow] /\ arrived \in 0..Len(Mails) /\ flagged \subseteq 1..arrived
        BY Zenon DEF IInv, MtType
      <4>2. m \in Nat
        BY <1>1, PollIs
      <4>. QED
        BY <4>1, <4>2 DEF RestType
    <3>2. [test[t] EXCEPT !.row = "received", !.mail = m] \in TestRow
      <4>1. test[t] \in TestRow
        BY <1>1, <2>3
      <4>. HIDE DEF t, m
      <4>. QED
        BY <3>1, <4>1 DEF TestRow
    <3>3. test' \in [Tokens -> TestRow]
      BY <1>1, <2>1, <2>3, <3>2
    <3>. QED
      BY <1>1, <3>1, <3>3 DEF RestType
  <2>5. /\ test'[t].row = "received" /\ test'[t].mail = m
        /\ \A s \in Tokens \ {t} : test'[s] = test[s]
    BY <1>1, <2>1, <2>3 DEF TestRow
  <2>6. m # 0
    BY <1>1, <2>2
  <2>7. \A s \in Tokens : Settled(s) => Settled(s)'
    BY <2>5, <2>6 DEF Settled
  <2>8. TestInv'
    <3>. SUFFICES ASSUME NEW s \in Tokens
                  PROVE /\ test'[s].row \in {"free", "waiting"} => test'[s].mail = 0
                        /\ test'[s].row = "received" => test'[s].mail # 0
                        /\ test'[s].mail # 0 => Life!IsFirst(s, test'[s].mail)
                        /\ \A n \in 1..arrived : Mails[n].token = s => test'[s].row # "free"
                        /\ \A n \in flagged : Counts(s, n) => Settled(s)'
      BY <1>1 DEF TestInv, Counts
    <3>1. CASE s = t
      BY <1>1, <1>3, <2>5, <2>6, <3>1 DEF Settled
    <3>2. CASE s # t
      BY <2>5, <2>7, <3>2 DEF IInv, TestInv
    <3>. QED
      BY <3>1, <3>2
  <2>9. PollInv(p)'
    <3>1. /\ poll'[p].uid = m /\ poll'[p].token = t /\ poll'[p].uids = poll[p].uids
          /\ poll'[p].phase = "flag" /\ poll'[p].loaded = "received"
      <4>1. poll'[p] = q
        BY <2>1, Becomes
      <4>2. poll[p] \in PollRow({poll[p].old})
        BY PollIs
      <4>. QED
        BY <4>1, <4>2 DEF PollRow
    <3>2. Settled(poll[p].token)' /\ test'[t].mail # 0
      BY <2>5, <2>6, <3>1 DEF Settled
    <3>3. OrderInv(p)
      BY PollIs
    <3>4. \A s \in Tokens, v \in 1..arrived : v <= m /\ Counts(s, v) => Settled(s)'
      <4>1. StoreInv(p)
        BY PollIs
      <4>. SUFFICES ASSUME NEW s \in Tokens, NEW v \in 1..arrived, v <= m, Counts(s, v)
                    PROVE  Settled(s)'
        OBVIOUS
      <4>2. Settled(s) \/ v = m
        BY <1>1, <3>3 DEF OrderInv
      <4>3. v = m => s = t
        BY <1>1, <4>1 DEF StoreInv, Counts
      <4>. QED
        BY <2>7, <3>2, <4>2, <4>3 DEF Settled
    <3>5. OrderInv(p)'
      BY <1>1, <3>1, <3>3, <3>4 DEF OrderInv, Counts
    <3>. QED
      BY <3>1, <3>2, <3>5 DEF PollInv, CopyInv, StoreInv
  <2>. HIDE DEF q
  <2>. QED
    BY <1>1, <2>1, <2>2, <2>4, <2>7, <2>8, <2>9, StepKeeps
<1>. QED
  BY <1>2, <1>3

\* The copy a poll works with from now on, and what it may conclude from it.
LEMMA RowOfTells ==
  ASSUME IInv, NEW p \in Polls, NEW t \in Tokens, poll[p].phase = "next"
  PROVE  /\ RowOf(p, t) \in {"free", "waiting", "received"}
         /\ RowOf(p, t) = "received" => Settled(t)
         /\ RowOf(p, t) = "waiting" /\ poll[p].token # t => ~Settled(t)
         /\ RowOf(p, t) = "waiting" /\ poll[p].token = t => ~Settled(t) \/ poll[p].loaded = "waiting"
         /\ RowOf(p, t) = "free" => test[t].row \in {"free", "gone"}
<1>1. poll[p] \in PollRow({poll[p].old}) /\ CopyInv(p) /\ t # "none"
  BY PollIs, MailTesterAssumption
<1>2. test \in [Tokens -> TestRow] /\ TestInv
  BY DEF IInv, MtType
<1>3. poll[p].token = t /\ poll[p].loaded = "received" => Settled(t)
  BY <1>1 DEF CopyInv
<1>4. test[t].row \in {"free", "waiting", "received", "gone"}
  BY <1>2 DEF TestRow
<1>5. /\ test[t].row = "received" => Settled(t)
      /\ test[t].row = "waiting" => ~Settled(t)
  BY <1>2 DEF TestInv, Settled
<1>6. poll[p].loaded \in {"free", "waiting", "received"}
  BY <1>1 DEF PollRow
<1>. QED
  BY <1>3, <1>4, <1>5, <1>6 DEF RowOf, Exists

\* The mail a poll takes up.
IsNext(p, m) == m \in poll[p].uids /\ \A u \in poll[p].uids : m <= u

\* The inbox is worked through in order: everything before m is behind p.
LEMMA TakenInOrder ==
  ASSUME IInv, NEW p \in Polls, NEW m, poll[p].phase = "next", IsNext(p, m)
  PROVE  /\ m \in 1..arrived /\ m > poll[p].uid /\ m # 0
         /\ poll[p].uids \ {m} \subseteq 1..arrived
         /\ \A u \in poll[p].uids \ {m} : u > m
         /\ \A u \in poll[p].uids \ {m}, v \in 1..arrived :
              m < v /\ v < u => v \in (poll[p].uids \ {m}) \cup flagged
         /\ \A t \in Tokens, v \in 1..arrived : v < m /\ Counts(t, v) => Settled(t)
         /\ \A v \in 1..arrived : poll[p].uid < v /\ v < m => v \notin poll[p].uids
<1>1. /\ OrderInv(p) /\ poll[p].uid \in Nat /\ arrived \in Nat
      /\ poll[p].uids \subseteq 1..arrived
  BY PollIs DEF PollRow, OrderInv
<1>2. m \in 1..arrived /\ m > poll[p].uid /\ m # 0
  BY <1>1 DEF OrderInv, IsNext
<1>3. \A u \in poll[p].uids \ {m} : u > m
  BY <1>1, <1>2 DEF IsNext
<1>4. \A u \in poll[p].uids \ {m}, v \in 1..arrived :
        m < v /\ v < u => v \in (poll[p].uids \ {m}) \cup flagged
  BY <1>1, <1>2 DEF OrderInv
<1>5. \A v \in 1..arrived : poll[p].uid < v /\ v < m => v \notin poll[p].uids
  BY <1>1, <1>2 DEF IsNext
<1>6. ASSUME NEW t \in Tokens, NEW v \in 1..arrived, v < m, Counts(t, v)
      PROVE  Settled(t)
  <2>1. CASE v <= poll[p].uid
    BY <1>1, <1>6, <2>1 DEF OrderInv
  <2>2. CASE v > poll[p].uid
    <3>1. v \in flagged
      BY <1>1, <1>2, <1>5, <1>6, <2>2 DEF OrderInv, IsNext
    <3>. QED
      BY <1>6, <3>1 DEF IInv, TestInv
  <2>. QED
    BY <1>1, <2>1, <2>2
<1>. QED
  BY <1>1, <1>2, <1>3, <1>4, <1>5, <1>6

LEMMA TakeMailForNobody ==
  ASSUME IInv, NEW p \in Polls, NEW m, poll[p].phase = "next", IsNext(p, m),
         Mails[m].token = "none", UNCHANGED <<test, arrived, flagged>>,
         Become(p, [poll[p] EXCEPT !.uids = @ \ {m}, !.uid = m, !.scored = FALSE, !.phase = "flag"])
  PROVE  IInv'
<1>. DEFINE q == [poll[p] EXCEPT !.uids = @ \ {m}, !.uid = m, !.scored = FALSE, !.phase = "flag"]
<1>1. poll[p] \in PollRow({poll[p].old}) /\ CopyInv(p) /\ arrived \in Nat
  BY PollIs
<1>2. m \in Nat /\ m \in 1..arrived
  BY TakenInOrder, <1>1
<1>3. q \in PollRow({poll[p].old})
  BY <1>1, <1>2 DEF PollRow
<1>4. /\ poll'[p].phase = "flag" /\ poll'[p].uid = m /\ poll'[p].uids = poll[p].uids \ {m}
      /\ poll'[p].token = poll[p].token /\ poll'[p].loaded = poll[p].loaded
  <2>1. poll'[p] = q
    BY Becomes
  <2>. QED
    BY <1>1, <2>1 DEF PollRow
<1>. HIDE DEF q
<1>5. \A t \in Tokens : ~Counts(t, m)
  BY MailTesterAssumption DEF Counts
<1>6. OrderInv(p)'
  <2>1. \A t \in Tokens, v \in 1..arrived : v <= m /\ Counts(t, v) => Settled(t)
    BY <1>1, <1>2, <1>5, TakenInOrder
  <2>. QED
    BY <1>1, <1>2, <1>4, <2>1, TakenInOrder DEF OrderInv, Settled, Counts
<1>7. CopyInv(p)'
  <2>. SUFFICES ASSUME poll[p].token # "none" PROVE CopyInv(p)'
    BY <1>4 DEF CopyInv
  <2>. DEFINE t == poll[p].token
  <2>1. t \in Tokens /\ poll[p].uid \in Nat /\ poll[p].uids \subseteq 1..arrived
    BY <1>1, PollIs DEF PollRow, OrderInv
  <2>2. poll[p].loaded = "waiting" => \A v \in 1..arrived : v <= m /\ Counts(t, v) => FALSE
    BY <1>1, <1>2, <1>5, <2>1, TakenInOrder DEF CopyInv, IsNext
  <2>3. poll[p].loaded = "waiting" =>
          \A u \in poll[p].uids \ {m}, v \in 1..arrived :
            m < v /\ v < u /\ Counts(t, v) => v \in poll[p].uids \ {m}
    BY <1>1, <1>2, <2>1, TakenInOrder DEF CopyInv
  <2>4. poll[p].loaded = "received" => Settled(t)
    BY <1>1 DEF CopyInv
  <2>. QED
    BY <1>4, <2>2, <2>3, <2>4 DEF CopyInv, Settled, Counts
<1>8. StoreInv(p)'
  BY <1>4 DEF StoreInv
<1>. QED
  BY <1>3, <1>6, <1>7, <1>8, StepKeeps, TestsSame DEF q, PollInv

LEMMA TakeMailForTest ==
  ASSUME IInv, NEW p \in Polls, NEW m, poll[p].phase = "next", IsNext(p, m),
         NEW t \in Tokens, Mails[m].token = t, UNCHANGED <<test, arrived, flagged>>,
         NEW row, row = RowOf(p, t),
         Become(p, [poll[p] EXCEPT !.uids = @ \ {m}, !.uid = m, !.scored = FALSE,
                                   !.token = t, !.loaded = row, !.phase = Verdict(row, m)])
  PROVE  IInv'
<1>. DEFINE q == [poll[p] EXCEPT !.uids = @ \ {m}, !.uid = m, !.scored = FALSE,
                                 !.token = t, !.loaded = row, !.phase = Verdict(row, m)]
<1>1. poll[p] \in PollRow({poll[p].old}) /\ CopyInv(p) /\ arrived \in Nat /\ TestInv
  BY PollIs DEF IInv
<1>2. m \in Nat /\ m \in 1..arrived
  BY TakenInOrder, <1>1
<1>3. row \in {"free", "waiting", "received"} /\ (row = "received" => Settled(t))
  BY RowOfTells
<1>4. Verdict(row, m) \in {"flag", "store", "next"}
  BY DEF Verdict
<1>5. q \in PollRow({poll[p].old})
  BY <1>1, <1>2, <1>3, <1>4 DEF PollRow
<1>6. /\ poll'[p].phase = Verdict(row, m) /\ poll'[p].uid = m
      /\ poll'[p].uids = poll[p].uids \ {m} /\ poll'[p].token = t /\ poll'[p].loaded = row
  <2>1. poll'[p] = q
    BY Becomes
  <2>. QED
    BY <1>1, <2>1 DEF PollRow
<1>. HIDE DEF q
\* A mail that cannot settle the test any more finds it settled.
<1>7. Counts(t, m) /\ row # "waiting" => Settled(t)
  BY <1>1, <1>2, <1>3, RowOfTells DEF TestInv, Settled, Counts
<1>8. \A s \in Tokens, v \in 1..arrived :
        v <= m /\ Counts(s, v) => Settled(s) \/ (Verdict(row, m) = "store" /\ v = m)
  <2>. SUFFICES ASSUME NEW s \in Tokens, NEW v \in 1..arrived, v <= m, Counts(s, v)
                PROVE  Settled(s) \/ (Verdict(row, m) = "store" /\ v = m)
    OBVIOUS
  <2>1. CASE v < m
    BY <2>1, TakenInOrder
  <2>2. CASE v = m
    BY <1>7, <2>2 DEF Verdict, Counts
  <2>. QED
    BY <1>1, <1>2, <2>1, <2>2
<1>9. OrderInv(p)'
  BY <1>1, <1>2, <1>6, <1>8, TakenInOrder DEF OrderInv, Settled, Counts
<1>10. row = "waiting" =>
         /\ \A v \in 1..arrived : v <= m /\ Counts(t, v) => Verdict(row, m) = "store" /\ v = m
         /\ \A u \in poll[p].uids \ {m}, v \in 1..arrived :
              m < v /\ v < u /\ Counts(t, v) => v \in poll[p].uids \ {m}
  <2>. SUFFICES ASSUME row = "waiting"
                PROVE /\ \A v \in 1..arrived :
                           v <= m /\ Counts(t, v) => Verdict(row, m) = "store" /\ v = m
                      /\ \A u \in poll[p].uids \ {m}, v \in 1..arrived :
                           m < v /\ v < u /\ Counts(t, v) => v \in poll[p].uids \ {m}
    OBVIOUS
  <2>1. CASE ~Settled(t)
    <3>1. \A v \in 1..arrived : v <= m /\ Counts(t, v) => Verdict(row, m) = "store" /\ v = m
      BY <1>8, <2>1
    <3>2. \A v \in flagged : ~Counts(t, v)
      BY <1>1, <2>1 DEF TestInv
    <3>. QED
      BY <3>1, <3>2, TakenInOrder
  <2>2. CASE poll[p].loaded = "waiting" /\ poll[p].token = t
    <3>1. t # "none" /\ poll[p].uid \in Nat /\ poll[p].uids \subseteq 1..arrived
      BY <1>1, MailTesterAssumption, PollIs DEF PollRow, OrderInv
    <3>2. \A v \in 1..arrived : v < m => ~Counts(t, v)
      BY <1>1, <1>2, <2>2, <3>1, TakenInOrder DEF CopyInv, IsNext
    <3>3. Counts(t, m) => Verdict(row, m) = "store"
      BY DEF Counts, Verdict
    <3>4. \A u \in poll[p].uids \ {m}, v \in 1..arrived :
            m < v /\ v < u /\ Counts(t, v) => v \in poll[p].uids \ {m}
      BY <1>1, <1>2, <2>2, <3>1, TakenInOrder DEF CopyInv
    <3>. QED
      BY <1>1, <1>2, <3>2, <3>3, <3>4
  <2>. QED
    BY <2>1, <2>2, RowOfTells
<1>11. CopyInv(p)'
  BY <1>3, <1>6, <1>10 DEF CopyInv, Settled, Counts
<1>12. StoreInv(p)'
  BY <1>2, <1>6 DEF StoreInv, Verdict, Counts
<1>. QED
  BY <1>5, <1>9, <1>11, <1>12, StepKeeps, TestsSame DEF q, PollInv

LEMMA NextMailKeeps ==
  ASSUME IInv, NEW p \in Polls, NextMail(p)
  PROVE  IInv'
<1>. DEFINE m == CHOOSE u \in poll[p].uids : \A v \in poll[p].uids : u <= v
<1>1. poll[p].phase = "next" /\ UNCHANGED <<test, arrived, flagged>>
  BY DEF NextMail
<1>2. IsNext(p, m)
  <2>1. poll[p].uids \subseteq Nat /\ poll[p].uids # {}
    BY PollIs DEF PollRow, NextMail
  <2>2. \E u \in poll[p].uids : \A v \in poll[p].uids : u <= v
    BY <2>1, LeastNumber
  <2>. QED
    BY <2>2 DEF IsNext
<1>. HIDE DEF m
<1>3. Mails[m].token \in Tokens \cup {"none"}
  <2>1. m \in 1..arrived
    BY <1>1, <1>2, TakenInOrder
  <2>3. arrived \in Nat /\ arrived <= Len(Mails) /\ Len(Mails) \in Nat
    BY PollIs
  <2>2. m \in 1..Len(Mails)
    BY <2>1, <2>3
  <2>. QED
    BY <2>2, MailType
<1>. USE DEF m
<1>4. CASE Mails[m].token = "none"
  BY <1>1, <1>2, <1>4, TakeMailForNobody DEF NextMail
<1>5. CASE Mails[m].token \in Tokens
  BY <1>1, <1>2, <1>5, TakeMailForTest, MailTesterAssumption DEF NextMail
<1>. QED
  BY <1>3, <1>4, <1>5

\* Tests older than a day are deleted at the end of a poll.
LEMMA ExpireKeeps ==
  ASSUME IInv, NEW p \in Polls, Expire(p)
  PROVE  IInv'
<1>1. Become(p, NoPoll) /\ arrived' = arrived /\ flagged' = flagged
  BY DEF Expire
<1>2. test \in [Tokens -> TestRow] /\ TestInv
  BY DEF IInv, MtType
<1>3. \A t \in Tokens :
        \/ test'[t] = test[t]
        \/ /\ test'[t].row = "gone" /\ test'[t].mail = test[t].mail
           /\ test[t].row \in {"waiting", "received"}
  BY <1>2 DEF Expire, NoTest, Exists
<1>4. test' \in [Tokens -> TestRow]
  BY <1>2 DEF Expire, NoTest, TestRow
<1>5. RestType'
  BY <1>1, <1>4 DEF RestType, IInv, MtType
<1>6. \A t \in Tokens : Settled(t) => Settled(t)'
  BY <1>3 DEF Settled
<1>7. TestInv'
  BY <1>1, <1>2, <1>3, <1>6 DEF TestInv, Settled, Counts
<1>8. poll'[p] = NoPoll
  BY <1>1, Becomes
<1>. QED
  BY <1>1, <1>5, <1>6, <1>7, <1>8, StepKeeps, IdleKeeps, NoPollType

----------------------------------------------------------------------------
(* Steps of visitors, mails and the process.                               *)

LEMMA TestStepKeeps ==
  ASSUME IInv, RestType', TestInv', UNCHANGED poll,
         \A t \in Tokens : Settled(t) => Settled(t)',
         flagged \subseteq flagged', arrived' >= arrived
  PROVE  IInv'
<1>1. MtType'
  BY DEF IInv, MtType, RestType
<1>2. \A p \in Polls : PollInv(p)'
  BY <1>1, OthersKeep
<1>. QED
  BY <1>1, <1>2 DEF IInv

LEMMA GenerateKeeps ==
  ASSUME IInv, NEW a \in Askers, NEW t \in Tokens, Generate(a, t)
  PROVE  IInv'
<1>1. /\ test[t].row = "free" /\ UNCHANGED <<arrived, flagged, poll>>
      /\ test' = [test EXCEPT ![t] = [NoTest EXCEPT !.row = "waiting", !.anon = ask[a] = "anon"]]
  BY DEF Generate
<1>2. test \in [Tokens -> TestRow] /\ TestInv
  BY DEF IInv, MtType
<1>3. /\ test'[t].row = "waiting" /\ test'[t].mail = 0
      /\ \A s \in Tokens \ {t} : test'[s] = test[s]
  BY <1>1, <1>2 DEF NoTest
<1>4. RestType'
  BY <1>1, <1>2 DEF RestType, IInv, MtType, TestRow, NoTest
<1>5. ~Settled(t)
  BY <1>1, <1>2 DEF TestInv, Settled
<1>6. \A s \in Tokens : Settled(s) => Settled(s)'
  BY <1>3, <1>5 DEF Settled
<1>7. TestInv'
  <2>. SUFFICES ASSUME NEW s \in Tokens
                PROVE /\ test'[s].row \in {"free", "waiting"} => test'[s].mail = 0
                      /\ test'[s].row = "received" => test'[s].mail # 0
                      /\ test'[s].mail # 0 => Life!IsFirst(s, test'[s].mail)
                      /\ \A n \in 1..arrived : Mails[n].token = s => test'[s].row # "free"
                      /\ \A n \in flagged : Counts(s, n) => Settled(s)'
    BY <1>1 DEF TestInv, Counts
  <2>1. CASE s = t
    BY <1>1, <1>2, <1>3, <1>5, <2>1 DEF TestInv, Settled
  <2>2. CASE s # t
    BY <1>2, <1>3, <1>6, <2>2 DEF TestInv
  <2>. QED
    BY <2>1, <2>2
<1>8. arrived' >= arrived
  BY <1>1, MailCount DEF IInv, MtType
<1>. QED
  BY <1>1, <1>4, <1>6, <1>7, <1>8, TestStepKeeps

LEMMA AgeKeeps ==
  ASSUME IInv, NEW t \in Tokens, Age(t)
  PROVE  IInv'
<1>1. UNCHANGED <<arrived, flagged, poll>> /\ test' = [test EXCEPT ![t].aged = TRUE]
  BY DEF Age
<1>2. test \in [Tokens -> TestRow] /\ TestInv
  BY DEF IInv, MtType
<1>3. \A s \in Tokens : test'[s].row = test[s].row /\ test'[s].mail = test[s].mail
  BY <1>1, <1>2 DEF TestRow
<1>4. RestType'
  BY <1>1, <1>2 DEF RestType, IInv, MtType, TestRow
<1>5. (\A s \in Tokens : Settled(s) => Settled(s)') /\ TestInv'
  BY <1>1, <1>2, <1>3 DEF TestInv, Settled, Counts
<1>6. arrived' >= arrived
  BY <1>1, MailCount DEF IInv, MtType
<1>. QED
  BY <1>1, <1>4, <1>5, <1>6, TestStepKeeps

LEMMA ArriveKeeps ==
  ASSUME IInv, Arrive
  PROVE  IInv'
<1>1. /\ arrived \in 0..Len(Mails) /\ arrived < Len(Mails) /\ arrived' = arrived + 1
      /\ UNCHANGED <<test, flagged, poll>> /\ Len(Mails) \in Nat
  BY MailCount DEF Arrive, IInv, MtType
<1>2. RestType'
  BY <1>1 DEF RestType, IInv, MtType
<1>3. TestInv'
  <2>1. \A t \in Tokens : Mails[arrived + 1].token = t => test[t].row # "free"
    BY MailTesterAssumption DEF Arrive
  <2>. QED
    BY <1>1, <2>1 DEF IInv, TestInv, Settled, Counts
<1>4. \A t \in Tokens : Settled(t) => Settled(t)'
  BY <1>1 DEF Settled
<1>. QED
  BY <1>1, <1>2, <1>3, <1>4, TestStepKeeps

LEMMA CrashKeeps ==
  ASSUME IInv, Crash
  PROVE  IInv'
<1>1. UNCHANGED <<test, arrived, flagged>> /\ poll' = [p \in Polls |-> NoPoll]
  BY DEF Crash
<1>2. poll' \in [Polls -> PollRow({NoRow})]
  BY <1>1, NoPollType
<1>3. MtType'
  BY <1>1, <1>2, TestsSame DEF MtType, RestType
<1>. QED
  BY <1>1, <1>3, TestsSame, IdleKeeps DEF IInv

LEMMA AskKeeps ==
  ASSUME IInv, NEW a \in Askers, NEW user \in BOOLEAN, Ask(a, user)
  PROVE  IInv'
BY StutterKeeps DEF Ask

LEMMA UnlockKeeps ==
  ASSUME IInv, NEW r \in Requests,
         Unlock(r) \/ \E t \in Tokens, k \in Keys : OpenUnlock(r, t, k)
  PROVE  IInv'
BY StutterKeeps DEF Unlock, OpenUnlock, mtVars

----------------------------------------------------------------------------
LEMMA NextInv == IInv /\ [MailNext]_<<leadVars, mtVars>> => IInv'
<1>. SUFFICES ASSUME IInv, [MailNext]_<<leadVars, mtVars>> PROVE IInv'
  OBVIOUS
<1>1. CASE UNCHANGED mtVars
  BY <1>1, StutterKeeps DEF mtVars
<1>2. CASE MailStep(Askers, Polls, Tokens, Requests, Keys)
  <2>1. CASE \E p \in Polls : \/ StartPoll(p) \/ NextMail(p) \/ StoreScore(p) \/ Flag(p)
                              \/ MirrorFind(p) \/ MirrorSave(p) \/ Expire(p) \/ Drop(p)
    BY <2>1, StartPollKeeps, NextMailKeeps, StoreScoreKeeps, FlagKeeps, MirrorFindKeeps,
       MirrorSaveKeeps, ExpireKeeps, DropKeeps
  <2>2. CASE \E a \in Askers : \/ \E user \in BOOLEAN : Ask(a, user)
                               \/ \E t \in Tokens : Generate(a, t)
    BY <2>2, AskKeeps, GenerateKeeps
  <2>3. CASE \E t \in Tokens : Age(t)
    BY <2>3, AgeKeeps
  <2>4. CASE \E r \in Requests : \/ \E t \in Tokens, k \in Keys : OpenUnlock(r, t, k)
                                 \/ Unlock(r)
    BY <2>4, UnlockKeeps
  <2>5. CASE Arrive \/ Crash
    BY <2>5, ArriveKeeps, CrashKeeps
  <2>. QED
    BY <1>2, <2>1, <2>2, <2>3, <2>4, <2>5 DEF MailStep
<1>. QED
  BY <1>1, <1>2 DEF MailNext

\* What a poll knows of the mails it has behind it (mt_worker.py:303-385) is
\* true in every reachable state.
THEOREM Inductive == MailSpec => []IInv
<1>. QED
  BY InitInv, NextInv, PTL DEF MailSpec

\* MailTester.FirstMailDecides, for any number of mails and overlapping polls:
\* the result of a test is the one of the first mail that could be scored
\* (mt_worker.py:330-385).
THEOREM FirstMailAlwaysDecides == MailSpec => []FirstMailDecides
<1>1. IInv => FirstMailDecides
  <2>. SUFFICES ASSUME IInv, NEW t \in Tokens, test[t].mail # 0,
                       NEW m \in 1..test[t].mail - 1, Mails[m].token = t
                PROVE  Mails[m].outcome # "scored"
    BY DEF FirstMailDecides
  <2>1. Life!IsFirst(t, test[t].mail) /\ test[t].mail \in Nat
    BY DEF IInv, TestInv, MtType, TestRow
  <2>2. test[t].mail \in 1..Len(Mails) /\ Len(Mails) \in Nat
    BY <2>1, MailCount, MailsAssumption DEF Life!IsFirst
  <2>3. m \in 1..Len(Mails) /\ m < test[t].mail
    BY <2>1, <2>2
  <2>. QED
    BY <2>1, <2>3, MailType DEF Life!IsFirst
<1>. QED
  BY <1>1, Inductive, PTL

----------------------------------------------------------------------------
(* The mail tester implements the life of a test.                          *)

\* What a visitor can see of the tests.
Shown == [t \in Tokens |-> [row |-> test[t].row, mail |-> test[t].mail]]

LEMMA SameShown ==
  ASSUME \A t \in Tokens : test'[t].row = test[t].row /\ test'[t].mail = test[t].mail
  PROVE  Shown' = Shown
BY DEF Shown

LEMMA StoreRefines ==
  ASSUME IInv, NEW p \in Polls, StoreScore(p)
  PROVE  Shown' = Shown \/ Life!LifeNext
<1>. DEFINE t == poll[p].token
            m == poll[p].uid
<1>1. m \in 1..arrived /\ t \in Tokens /\ arrived \in Nat
  BY StoredIsFirst, PollIs DEF StoreScore
<1>2. test \in [Tokens -> TestRow] /\ TestInv
  BY DEF IInv, MtType
<1>3. CASE ~Exists(t) \/ Mails[m].outcome = "refused"
  BY <1>3, SameShown DEF StoreScore
<1>4. CASE Exists(t) /\ Mails[m].outcome # "refused"
  <2>. Life!IsFirst(t, m)
    BY <1>4, StoredIsFirst DEF StoreScore
  <2>1. test' = [test EXCEPT ![t].row = "received", ![t].mail = m]
    BY <1>4 DEF StoreScore
  <2>2. /\ test'[t].row = "received" /\ test'[t].mail = m
        /\ \A s \in Tokens \ {t} : test'[s] = test[s]
    BY <1>1, <1>2, <2>1 DEF TestRow
  <2>3. CASE test[t].row = "waiting"
    <3>1. Shown' = [Shown EXCEPT ![t] = [row |-> "received", mail |-> m]]
      BY <1>1, <2>2 DEF Shown
    <3>2. m \in DOMAIN Mails /\ Shown[t].row = "waiting"
      BY <1>1, <2>3 DEF Life!IsFirst, Shown
    <3>3. PICK s \in Tokens : s = t
      BY <1>1
    <3>4. Life!Settle(s)
      BY <1>1, <3>1, <3>2, <3>3 DEF Life!Settle, Shown
    <3>. QED
      BY <3>4 DEF Life!LifeNext
  <2>4. CASE test[t].row = "received"
    <3>1. test[t].mail \in Nat /\ Life!IsFirst(t, test[t].mail)
      BY <1>1, <1>2, <2>4 DEF TestInv, TestRow
    <3>2. test[t].mail = m
      BY <1>1, <3>1, FirstIsOne
    <3>. QED
      BY <2>2, <2>4, <3>2, SameShown
  <2>. QED
    BY <1>4, <2>3, <2>4 DEF Exists
<1>. QED
  BY <1>3, <1>4

LEMMA ExpireRefines ==
  ASSUME IInv, NEW p \in Polls, Expire(p)
  PROVE  Life!LifeNext
<1>. DEFINE T == {t \in Tokens : test[t].aged /\ Exists(t)}
<1>1. \A t \in Tokens : Shown'[t] = IF t \in T THEN [Shown[t] EXCEPT !.row = "gone"] ELSE Shown[t]
  BY DEF Expire, NoTest, Shown
<1>2. Shown' = [t \in Tokens |-> IF t \in T THEN [Shown[t] EXCEPT !.row = "gone"] ELSE Shown[t]]
  BY <1>1 DEF Shown
<1>3. \A t \in T : Shown[t].row \in {"waiting", "received"}
  BY DEF Exists, Shown
<1>4. PICK S \in SUBSET Tokens : S = T
  OBVIOUS
<1>5. Life!Lapse(S)
  BY <1>2, <1>3, <1>4 DEF Life!Lapse, Shown
<1>. QED
  BY <1>5 DEF Life!LifeNext

LEMMA GenerateRefines ==
  ASSUME IInv, NEW a \in Askers, NEW t \in Tokens, Generate(a, t)
  PROVE  Life!LifeNext
<1>1. test \in [Tokens -> TestRow] /\ test[t].row = "free" /\ test[t].mail = 0
  BY DEF IInv, MtType, TestInv, Generate
<1>2. /\ test'[t].row = "waiting" /\ test'[t].mail = 0
      /\ \A s \in Tokens \ {t} : test'[s] = test[s]
  BY <1>1 DEF Generate, NoTest
<1>3. Shown' = [Shown EXCEPT ![t].row = "waiting"]
  BY <1>1, <1>2 DEF Shown
<1>4. Life!GiveOut(t)
  BY <1>1, <1>3 DEF Life!GiveOut, Shown
<1>. QED
  BY <1>4 DEF Life!LifeNext

LEMMA StepRefines ==
  ASSUME IInv, [MailNext]_<<leadVars, mtVars>>
  PROVE  Shown' = Shown \/ Life!LifeNext
<1>1. CASE UNCHANGED test
  BY <1>1, SameShown
<1>2. CASE MailStep(Askers, Polls, Tokens, Requests, Keys)
  <2>1. CASE \E p \in Polls : \/ StartPoll(p) \/ NextMail(p) \/ Flag(p)
                              \/ MirrorFind(p) \/ MirrorSave(p) \/ Drop(p)
    BY <1>1, <2>1 DEF StartPoll, NextMail, Flag, MirrorFind, MirrorSave, Drop
  <2>2. CASE \E p \in Polls : StoreScore(p) \/ Expire(p)
    BY <2>2, StoreRefines, ExpireRefines
  <2>3. CASE \E a \in Askers, user \in BOOLEAN : Ask(a, user)
    BY <1>1, <2>3 DEF Ask
  <2>4. CASE \E a \in Askers, t \in Tokens : Generate(a, t)
    BY <2>4, GenerateRefines
  <2>5. CASE \E t \in Tokens : Age(t)
    <3>1. PICK t \in Tokens : Age(t)
      BY <2>5
    <3>2. test \in [Tokens -> TestRow]
      BY DEF IInv, MtType
    <3>3. \A s \in Tokens : test'[s].row = test[s].row /\ test'[s].mail = test[s].mail
      BY <3>1, <3>2 DEF Age, TestRow
    <3>. QED
      BY <3>3, SameShown
  <2>6. CASE \E r \in Requests : \/ \E t \in Tokens, k \in Keys : OpenUnlock(r, t, k)
                                 \/ Unlock(r)
    BY <1>1, <2>6 DEF OpenUnlock, Unlock, mtVars
  <2>7. CASE Arrive \/ Crash
    BY <1>1, <2>7 DEF Arrive, Crash
  <2>. QED
    BY <1>2, <2>1, <2>2, <2>3, <2>4, <2>5, <2>6, <2>7 DEF MailStep
<1>. QED
  BY <1>1, <1>2 DEF MailNext, mtVars

\* MailTester.ImplementsLife: whatever the polls, visitors and restarts do, a
\* visitor sees a test that is given out once, settled once and gone for good.
THEOREM TesterImplementsLife == MailSpec => ImplementsLife
<1>1. MailInit => Life!LifeInit
  BY DEF MailInit, MailInitWith, NoTest, Life!LifeInit
<1>2. IInv /\ [MailNext]_<<leadVars, mtVars>> => [Life!LifeNext]_Shown
  BY StepRefines
<1>3. MailSpec => [][Life!LifeNext]_Shown
  BY <1>2, Inductive, PTL DEF MailSpec
<1>. QED
  BY <1>1, <1>3, PTL DEF MailSpec, ImplementsLife, Life!LifeSpec, Shown

----------------------------------------------------------------------------
(* The leads beside the tester.  Whatever a request has read long ago, its *)
(* commit never takes a key back to the state before its first row.        *)

LeadRow == [id : Nat, live : BOOLEAN, grade : Grades \cup {"none"}, stage : Stages,
            contacted : BOOLEAN, converted : BOOLEAN, reminder : BOOLEAN, followups : Nat]

ReqRow == [kind : {"none", "snapshot", "batch", "rerun", "stream", "unlock", "pipeline", "update"},
           phase : {"find", "save", "form"}, ks : Seq(Keys), n : Nat,
           old : [Keys -> LeadRow], token : Tokens \cup {"none"}]

\* A request knows the keys it is about to read or write.
GoodReq(q) ==
  /\ q \in ReqRow
  /\ q.n <= Len(q.ks)
  /\ q.kind # "none" => Len(q.ks) > 0
  /\ q.kind # "none" /\ q.phase # "save" => q.n < Len(q.ks)
  /\ q.kind = "stream" /\ q.phase = "save" => q.n > 0
  /\ q.kind \in {"pipeline", "update"} => q.phase # "find" /\ q.old[q.ks[1]].live

GoodLead(k) == lead[k] \in LeadRow /\ (lead[k].live => lead[k].id # 0)

LeadInv ==
  /\ DOMAIN lead = Keys /\ \A k \in Keys : GoodLead(k)
  /\ DOMAIN req = Requests /\ \A r \in Requests : GoodReq(req[r])

\* The table after a step: what has once been filed stays so.
Filed(k) == lead[k].id # 0
LeadStays == DOMAIN lead' = Keys /\ \A k \in Keys : GoodLead(k)' /\ (Filed(k) => Filed(k)')
ReqStays == DOMAIN req' = Requests /\ \A r \in Requests : GoodReq(req[r])'

LEMMA NoReqGood == GoodReq(NoReq) /\ NoRow \in LeadRow
<1>1. NoRow \in LeadRow
  BY DEF NoRow, LeadRow, Stages
<1>2. <<>> \in Seq(Keys) /\ Len(<<>>) = 0
  OBVIOUS
<1>3. NoReq \in ReqRow
  BY <1>1, <1>2 DEF NoReq, ReqRow
<1>. QED
  BY <1>1, <1>2, <1>3 DEF GoodReq, NoReq

LEMMA OneReq ==
  ASSUME LeadInv, NEW r \in Requests, NEW q, GoodReq(q), req' = [req EXCEPT ![r] = q]
  PROVE  ReqStays
<1>1. DOMAIN req' = Requests
  BY DEF LeadInv
<1>2. \A o \in Requests : req'[o] = IF o = r THEN q ELSE req[o]
  BY DEF LeadInv
<1>3. ASSUME NEW o \in Requests PROVE GoodReq(req'[o])
  BY <1>2 DEF LeadInv
<1>. QED
  BY <1>1, <1>3 DEF ReqStays, GoodReq

LEMMA SameLeads ==
  ASSUME LeadInv, lead' = lead
  PROVE  LeadStays
BY DEF LeadInv, LeadStays, GoodLead, Filed

LEMMA BeginGood ==
  ASSUME LeadInv, NEW r \in Requests, NEW kind \in {"snapshot", "batch", "rerun", "stream"},
         NEW ks \in Seq(Keys), Len(ks) > 0, Begin(r, kind, ks)
  PROVE  LeadStays /\ ReqStays
<1>. DEFINE q == [NoReq EXCEPT !.kind = kind, !.ks = ks]
<1>1. q \in ReqRow
  BY NoReqGood DEF GoodReq, ReqRow
<1>2. q.kind = kind /\ q.ks = ks /\ q.n = 0 /\ q.phase = "find"
  BY DEF NoReq
<1>3. req' = [req EXCEPT ![r] = q] /\ lead' = lead
  BY DEF Begin
<1>. HIDE DEF q
<1>4. GoodReq(q)
  BY <1>1, <1>2 DEF GoodReq
<1>. QED
  BY <1>3, <1>4, OneReq, SameLeads

\* A row that is written keeps its number, and a new row has one.
LEMMA SavedKeeps ==
  ASSUME LeadInv, NEW k \in Keys, NEW old \in LeadRow, NEW new \in LeadRow,
         old.live => new.id = old.id /\ new.live = old.live,
         ~old.live => new.id # 0
  PROVE  /\ Saved(k, old, new) \in LeadRow
         /\ Saved(k, old, new).live => Saved(k, old, new).id # 0
         /\ Filed(k) => Saved(k, old, new).id # 0
         /\ old.live /\ Filed(k) => Saved(k, old, new).id # 0
         /\ ~old.live => Saved(k, old, new).id # 0
<1>1. CASE ~old.live
  <2>1. Saved(k, old, new) = new
    BY <1>1 DEF Saved
  <2>. QED
    BY <1>1, <2>1
<1>2. CASE old.live
  <2>. DEFINE row == Saved(k, old, new)
              C == {"id", "live", "grade", "stage", "contacted", "converted", "reminder", "followups"}
  <2>1. lead[k] \in LeadRow /\ (lead[k].live => lead[k].id # 0)
    BY DEF LeadInv, GoodLead
  <2>2. DOMAIN new = C
    BY DEF LeadRow
  <2>3. row = [c \in C |-> IF new[c] # old[c] THEN new[c] ELSE lead[k][c]]
    BY <1>2, <2>2 DEF Saved
  <2>. HIDE DEF row
  <2>4. row = [id |-> row.id, live |-> row.live, grade |-> row.grade, stage |-> row.stage,
               contacted |-> row.contacted, converted |-> row.converted,
               reminder |-> row.reminder, followups |-> row.followups]
    BY <2>3
  <2>5. /\ row.id \in {new.id, lead[k].id} /\ row.live \in {new.live, lead[k].live}
        /\ row.grade \in {new.grade, lead[k].grade} /\ row.stage \in {new.stage, lead[k].stage}
        /\ row.contacted \in {new.contacted, lead[k].contacted}
        /\ row.converted \in {new.converted, lead[k].converted}
        /\ row.reminder \in {new.reminder, lead[k].reminder}
        /\ row.followups \in {new.followups, lead[k].followups}
    BY <2>3
  <2>6. /\ row.id \in Nat /\ row.live \in BOOLEAN /\ row.grade \in Grades \cup {"none"}
        /\ row.stage \in Stages /\ row.contacted \in BOOLEAN /\ row.converted \in BOOLEAN
        /\ row.reminder \in BOOLEAN /\ row.followups \in Nat
    BY <2>1, <2>5 DEF LeadRow
  <2>7. row \in LeadRow
    BY <2>4, <2>6 DEF LeadRow
  <2>8. row.id = lead[k].id /\ row.live = lead[k].live
    BY <1>2, <2>3
  <2>. QED
    BY <1>2, <2>1, <2>7, <2>8 DEF row, Filed
<1>. QED
  BY <1>1, <1>2

\* A key that is left out of a batch.
LEMMA LeftOut ==
  ASSUME NEW s \in Seq(Keys), NEW n \in Nat, n < Len(s)
  PROVE  /\ SubSeq(s, 1, n) \o SubSeq(s, n + 2, Len(s)) \in Seq(Keys)
         /\ Len(SubSeq(s, 1, n) \o SubSeq(s, n + 2, Len(s))) = Len(s) - 1
<1>. DEFINE a == SubSeq(s, 1, n)
            b == SubSeq(s, n + 2, Len(s))
<1>1. Len(s) \in Nat /\ \A i \in 1..Len(s) : s[i] \in Keys
  OBVIOUS
<1>2. a \in Seq(Keys) /\ Len(a) = n
  <2>1. \A i \in 1..n : s[i] \in Keys
    BY <1>1
  <2>2. 1 \in Int /\ n \in Int
    OBVIOUS
  <2>. QED
    BY <2>1, <2>2, SubSeqProperties
<1>3. b \in Seq(Keys) /\ Len(b) = IF n + 2 <= Len(s) THEN Len(s) - (n + 2) + 1 ELSE 0
  <2>1. \A i \in (n+2)..Len(s) : s[i] \in Keys
    BY <1>1
  <2>2. n + 2 \in Int /\ Len(s) \in Int
    BY <1>1
  <2>. QED
    BY <2>1, <2>2, SubSeqProperties
<1>. HIDE DEF a, b
<1>4. a \o b \in Seq(Keys) /\ Len(a \o b) = Len(a) + Len(b)
  BY <1>2, <1>3, ConcatProperties
<1>5. Len(a) + Len(b) = Len(s) - 1
  BY <1>1, <1>2, <1>3
<1>. QED
  BY <1>4, <1>5 DEF a, b

\* The next key has been read.
Advanced(q, old, ph) == [q EXCEPT !.n = q.n + 1, !.old = old, !.phase = ph]

LEMMA AdvancedRow ==
  ASSUME NEW q \in ReqRow, NEW old \in [Keys -> LeadRow], NEW ph \in {"find", "save"}
  PROVE  /\ Advanced(q, old, ph) \in ReqRow
         /\ Advanced(q, old, ph).kind = q.kind /\ Advanced(q, old, ph).ks = q.ks
         /\ Advanced(q, old, ph).n = q.n + 1 /\ Advanced(q, old, ph).phase = ph
<1>1. q.n + 1 \in Nat
  BY DEF ReqRow
<1>2. Advanced(q, old, ph) \in ReqRow
  BY <1>1 DEF Advanced, ReqRow
<1>. QED
  BY <1>2 DEF Advanced, ReqRow

LEMMA FindGood ==
  ASSUME LeadInv, NEW r \in Requests, Find(r)
  PROVE  LeadStays /\ ReqStays
<1>. DEFINE q == req[r]
            k == q.ks[q.n + 1]
            last == q.n + 1 = Len(q.ks)
            again == \E i \in 1..q.n : q.ks[i] = k
            next == [q EXCEPT !.n = @ + 1, !.old[k] = IF again THEN @ ELSE lead[k],
                       !.phase = IF q.kind = "stream" \/ last THEN "save" ELSE "find"]
            rest == SubSeq(q.ks, 1, q.n) \o SubSeq(q.ks, q.n + 2, Len(q.ks))
            less == [q EXCEPT !.ks = rest, !.phase = IF last THEN "save" ELSE "find"]
<1>1. q.kind # "none" /\ q.phase = "find" /\ lead' = lead
  BY DEF Find
<1>2. GoodReq(q) /\ q \in ReqRow
  BY DEF LeadInv, GoodReq
<1>3. /\ q.kind \in {"snapshot", "batch", "rerun", "stream", "unlock"}
      /\ q.ks \in Seq(Keys) /\ q.n \in Nat /\ Len(q.ks) \in Nat /\ q.n < Len(q.ks)
      /\ q.old \in [Keys -> LeadRow]
  BY <1>1, <1>2 DEF GoodReq, ReqRow
<1>4. k \in Keys /\ lead[k] \in LeadRow
  <2>1. q.n + 1 \in 1..Len(q.ks)
    BY <1>3
  <2>2. k \in Keys
    BY <1>3, <2>1
  <2>. QED
    BY <2>2 DEF LeadInv, GoodLead
<1>5. GoodReq(next)
  <2>1. [q.old EXCEPT ![k] = IF again THEN @ ELSE lead[k]] \in [Keys -> LeadRow]
    BY <1>3, <1>4
  <2>. DEFINE old == [q.old EXCEPT ![k] = IF again THEN @ ELSE lead[k]]
              ph == IF q.kind = "stream" \/ last THEN "save" ELSE "find"
  <2>2. next = Advanced(q, old, ph)
    BY <1>2 DEF ReqRow, Advanced
  <2>3. ph \in {"find", "save"} /\ (ph = "find" => ~last)
    OBVIOUS
  <2>. HIDE DEF next, old, ph, k
  <2>4. /\ next.kind = q.kind /\ next.ks = q.ks /\ next.n = q.n + 1 /\ next.phase = ph
        /\ next \in ReqRow
    <3>1. old \in [Keys -> LeadRow]
      BY <2>1 DEF old
    <3>. QED
      BY <1>2, <2>2, <2>3, <3>1, AdvancedRow
  <2>5. next.n <= Len(next.ks) /\ next.n > 0 /\ Len(next.ks) > 0
    BY <1>3, <2>4
  <2>6. next.phase # "save" => next.n < Len(next.ks)
    BY <1>3, <2>3, <2>4
  <2>7. next.kind \notin {"pipeline", "update"}
    BY <1>3, <2>4
  <2>. HIDE DEF q, last
  <2>. QED
    BY <2>4, <2>5, <2>6, <2>7 DEF GoodReq
<1>6. ASSUME q.kind = "batch", rest # <<>>
      PROVE  GoodReq(less)
  <2>2. rest \in Seq(Keys) /\ Len(rest) = Len(q.ks) - 1
    BY <1>3, LeftOut
  <2>. HIDE DEF rest, less, q
  <2>3. Len(rest) > 0
    <3>1. rest # <<>>
      BY <1>6
    <3>2. Len(rest) \in Nat \ {0}
      BY <2>2, <3>1, EmptySeq
    <3>. QED
      BY <3>2
  <2>. USE DEF less
  <2>. DEFINE ph == IF last THEN "save" ELSE "find"
  <2>. HIDE DEF rest
  <2>4. less.kind = q.kind /\ less.ks = rest /\ less.n = q.n /\ less.phase = ph /\ less \in ReqRow
    BY <1>2, <2>2 DEF ReqRow
  <2>5. ph \in {"find", "save"} /\ (ph = "find" => ~last)
    OBVIOUS
  <2>. HIDE DEF less, ph
  <2>. QED
    BY <1>3, <1>6, <2>2, <2>3, <2>4, <2>5 DEF GoodReq
<1>7. \/ req' = [req EXCEPT ![r] = next]
      \/ q.kind = "batch" /\ req' = [req EXCEPT ![r] = IF rest = <<>> THEN NoReq ELSE less]
  BY DEF Find
<1>. HIDE DEF next, less, rest
<1>8. CASE req' = [req EXCEPT ![r] = next]
  BY <1>1, <1>5, <1>8, OneReq, SameLeads
<1>9. CASE q.kind = "batch" /\ req' = [req EXCEPT ![r] = IF rest = <<>> THEN NoReq ELSE less]
  <2>1. GoodReq(IF rest = <<>> THEN NoReq ELSE less)
    BY <1>6, <1>9, NoReqGood
  <2>. QED
    BY <1>1, <1>9, <2>1, OneReq, SameLeads
<1>. QED
  BY <1>7, <1>8, <1>9

LEMMA UpsertRow ==
  ASSUME LeadInv, NEW k \in Keys, NEW old \in LeadRow, NEW g \in Grades \cup {"none"}
  PROVE  /\ Upsert(k, old, g) \in LeadRow
         /\ old.live => Upsert(k, old, g).id = old.id /\ Upsert(k, old, g).live = old.live
         /\ ~old.live => Upsert(k, old, g).id # 0
<1>1. lead[k] \in LeadRow /\ lead[k].id \in Nat
  BY DEF LeadInv, GoodLead, LeadRow
<1>2. CASE old.live
  <2>1. /\ Upsert(k, old, g) = [old EXCEPT !.grade = IF g = "none" THEN @ ELSE g]
    BY <1>2 DEF Upsert, Regraded
  <2>. QED
    BY <1>2, <2>1 DEF LeadRow
<1>3. CASE ~old.live
  <2>1. Upsert(k, old, g) = [NoRow EXCEPT !.id = lead[k].id + 1, !.live = TRUE, !.grade = g]
    BY <1>3 DEF Upsert, NewRow
  <2>2. /\ Upsert(k, old, g).id = lead[k].id + 1
    BY <2>1 DEF NoRow
  <2>3. Upsert(k, old, g) \in LeadRow
    <3>1. lead[k].id + 1 \in Nat
      BY <1>1
    <3>2. NoRow \in LeadRow
      BY NoReqGood
    <3>. QED
      BY <2>1, <3>1, <3>2 DEF LeadRow
  <2>. QED
    BY <1>1, <1>3, <2>2, <2>3
<1>. QED
  BY <1>2, <1>3

LEMMA CommitGood ==
  ASSUME LeadInv, NEW r \in Requests, Commit(r)
  PROVE  LeadStays /\ ReqStays
<1>. DEFINE q == req[r]
            ks == IF q.kind = "stream" THEN {q.ks[q.n]} ELSE {q.ks[i] : i \in DOMAIN q.ks}
<1>1. /\ GoodReq(q) /\ q \in ReqRow /\ q.phase = "save"
      /\ q.kind \in {"snapshot", "batch", "rerun", "stream", "unlock"}
      /\ q.ks \in Seq(Keys) /\ q.n \in Nat /\ Len(q.ks) \in Nat /\ q.old \in [Keys -> LeadRow]
  BY DEF LeadInv, GoodReq, ReqRow, Commit
<1>2. ks \subseteq Keys
  <2>1. \A i \in DOMAIN q.ks : q.ks[i] \in Keys
    BY <1>1
  <2>2. q.kind = "stream" => q.n \in DOMAIN q.ks
    BY <1>1 DEF GoodReq
  <2>. QED
    BY <2>1, <2>2
<1>3. PICK g \in Grades \cup {"none"} : lead' = Written(ks, q, g)
  BY DEF Commit
<1>4. LeadStays
  <2>. HIDE DEF ks, q
  <2>1. CASE lead' = lead
    BY <2>1, SameLeads
  <2>2. CASE lead' = [k \in Keys |-> IF k \in ks THEN Saved(k, q.old[k], Upsert(k, q.old[k], g)) ELSE lead[k]]
    <3>1. ASSUME NEW k \in Keys PROVE GoodLead(k)' /\ (Filed(k) => Filed(k)')
      <4>1. GoodLead(k) /\ q.old[k] \in LeadRow
        BY <1>1 DEF LeadInv
      <4>. DEFINE row == Saved(k, q.old[k], Upsert(k, q.old[k], g))
      <4>2. row \in LeadRow /\ (row.live => row.id # 0) /\ (Filed(k) => row.id # 0)
        BY <4>1, UpsertRow, SavedKeeps
      <4>3. lead'[k] = row \/ lead'[k] = lead[k]
        BY <2>2
      <4>. HIDE DEF row
      <4>. QED
        BY <4>1, <4>2, <4>3 DEF GoodLead, Filed
    <3>. QED
      BY <2>2, <3>1 DEF LeadStays
  <2>. QED
    BY <1>3, <2>1, <2>2 DEF Written
<1>5. ReqStays
  <2>. DEFINE new == IF q.n < Len(q.ks) THEN [q EXCEPT !.phase = "find"] ELSE NoReq
  <2>1. req' = [req EXCEPT ![r] = new]
    BY DEF Commit
  <2>2. ASSUME q.n < Len(q.ks) PROVE GoodReq([q EXCEPT !.phase = "find"])
    <3>. DEFINE again == [q EXCEPT !.phase = "find"]
    <3>1. again \in ReqRow /\ again.kind = q.kind /\ again.ks = q.ks /\ again.n = q.n /\ again.phase = "find"
      BY <1>1 DEF ReqRow
    <3>. HIDE DEF again
    <3>2. GoodReq(again)
      BY <1>1, <2>2, <3>1 DEF GoodReq
    <3>. QED
      BY <3>2 DEF again
  <2>3. GoodReq(new)
    BY <2>2, NoReqGood
  <2>. HIDE DEF new
  <2>. QED
    BY <2>1, <2>3, OneReq
<1>. QED
  BY <1>4, <1>5

\* What an operator's commit makes of the row that was read.
LEMMA OperateGood ==
  ASSUME LeadInv, NEW r \in Requests, NEW k \in Keys, NEW new \in LeadRow, NEW inc,
         req[r].old[k].live, new.id = req[r].old[k].id, new.live, Operate(r, k, new, inc)
  PROVE  LeadStays
<1>1. req[r].old[k] \in LeadRow
  BY DEF LeadInv, GoodReq, ReqRow
<1>. DEFINE old == req[r].old[k]
            row == Saved(k, old, new)
<1>2. old.live = TRUE /\ new.live = TRUE
  BY <1>1 DEF LeadRow
<1>3. row \in LeadRow /\ (row.live => row.id # 0) /\ (Filed(k) => row.id # 0)
  BY <1>1, <1>2, SavedKeeps
<1>4. DOMAIN lead' = Keys /\ lead'[k] \in {row, lead[k]} /\ \A j \in Keys \ {k} : lead'[j] = lead[j]
  <2>. DEFINE ok == ~Fails(k, old, new)
  <2>1. lead' = [lead EXCEPT ![k] = IF ok THEN row ELSE lead[k]]
    BY Zenon DEF Operate
  <2>. HIDE DEF ok, row
  <2>. QED
    BY <2>1 DEF LeadInv
<1>. HIDE DEF row
<1>5. ASSUME NEW j \in Keys PROVE GoodLead(j)' /\ (Filed(j) => Filed(j)')
  <2>1. GoodLead(j)
    BY DEF LeadInv
  <2>. QED
    BY <1>3, <1>4, <2>1 DEF GoodLead, Filed
<1>. QED
  BY <1>4, <1>5 DEF LeadStays

\* A row of which an operator has changed the columns.
Touched(old, stage, contacted, converted, reminder, followups) ==
  [old EXCEPT !.stage = stage, !.contacted = contacted, !.converted = converted,
              !.reminder = reminder, !.followups = followups]

LEMMA TouchedRow ==
  ASSUME NEW old \in LeadRow, NEW stage \in Stages, NEW contacted \in BOOLEAN,
         NEW converted \in BOOLEAN, NEW reminder \in BOOLEAN, NEW followups \in Nat
  PROVE  /\ Touched(old, stage, contacted, converted, reminder, followups) \in LeadRow
         /\ Touched(old, stage, contacted, converted, reminder, followups).id = old.id
         /\ Touched(old, stage, contacted, converted, reminder, followups).live = old.live
BY DEF LeadRow, Touched

LEMMA MovedRow ==
  ASSUME NEW old \in LeadRow, NEW stage \in Stages \cup {"keep"}, NEW rem, NEW inc \in BOOLEAN
  PROVE  /\ Moved(old, stage, rem, inc) \in LeadRow
         /\ Moved(old, stage, rem, inc).id = old.id /\ Moved(old, stage, rem, inc).live = old.live
<1>. DEFINE st == IF stage = "keep" THEN old.stage ELSE stage
            co == old.contacted \/ stage = "contacted"
            cv == old.converted \/ stage = "won"
            re == IF rem = "keep" THEN old.reminder ELSE rem = "set"
            fo == IF inc THEN old.followups + 1 ELSE old.followups
<1>1. st \in Stages /\ fo \in Nat
  BY DEF LeadRow
<1>2. co \in BOOLEAN /\ cv \in BOOLEAN
  BY Zenon
<1>3. re \in BOOLEAN
  BY DEF LeadRow
<1>4. Moved(old, stage, rem, inc) =
        Touched(old, st, co, cv, re, fo)
  BY Zenon DEF Moved, Touched
<1>. HIDE DEF st, co, cv, re, fo
<1>5. PICK a \in Stages, b \in BOOLEAN, c \in BOOLEAN, d \in BOOLEAN, n \in Nat :
        Moved(old, stage, rem, inc) = Touched(old, a, b, c, d, n)
  BY <1>1, <1>2, <1>3, <1>4, Zenon
<1>6. /\ Touched(old, a, b, c, d, n) \in LeadRow
      /\ Touched(old, a, b, c, d, n).id = old.id /\ Touched(old, a, b, c, d, n).live = old.live
  BY TouchedRow
<1>. QED
  BY <1>5, <1>6

LEMMA MarkedRow ==
  ASSUME NEW old \in LeadRow, NEW act
  PROVE  /\ Marked(old, act) \in LeadRow
         /\ Marked(old, act).id = old.id /\ Marked(old, act).live = old.live
<1>. DEFINE co == (old.contacted \/ act \in {"contacted", "converted"}) /\ act # "uncontacted"
            cv == (old.converted \/ act = "converted") /\ act \notin {"uncontacted", "unconverted"}
<1>1. co \in BOOLEAN /\ cv \in BOOLEAN
  BY Zenon
<1>2. Marked(old, act) = [old EXCEPT !.contacted = co, !.converted = cv]
  BY Zenon DEF Marked
<1>3. [old EXCEPT !.contacted = co, !.converted = cv] =
        Touched(old, old.stage, co, cv, old.reminder, old.followups)
  BY DEF LeadRow, Touched
<1>4. old.stage \in Stages /\ old.reminder \in BOOLEAN /\ old.followups \in Nat
  BY DEF LeadRow
<1>. HIDE DEF co, cv
<1>5. PICK a \in Stages, b \in BOOLEAN, c \in BOOLEAN, d \in BOOLEAN, n \in Nat :
        Marked(old, act) = Touched(old, a, b, c, d, n)
  BY <1>1, <1>2, <1>3, <1>4, ZenonT(40)
<1>. QED
  BY <1>5, TouchedRow

LEMMA OperatorKeys ==
  ASSUME LeadInv, NEW r \in Requests, req[r].kind \in {"pipeline", "update"}
  PROVE  req[r].ks[1] \in Keys /\ req[r].old[req[r].ks[1]] \in LeadRow /\ req[r].old[req[r].ks[1]].live
<1>1. GoodReq(req[r]) /\ req[r].ks \in Seq(Keys) /\ req[r].old \in [Keys -> LeadRow]
  BY DEF LeadInv, GoodReq, ReqRow
<1>2. Len(req[r].ks) > 0 /\ req[r].old[req[r].ks[1]].live
  BY <1>1 DEF GoodReq
<1>3. req[r].ks[1] \in Keys
  BY <1>1, <1>2
<1>. QED
  BY <1>1, <1>2, <1>3

LEMMA SavePipelineGood ==
  ASSUME LeadInv, NEW r \in Requests, SavePipeline(r)
  PROVE  LeadStays /\ ReqStays
<1>. DEFINE k == req[r].ks[1]
            old == req[r].old[k]
<1>1. k \in Keys /\ old \in LeadRow /\ old.live
  BY OperatorKeys DEF SavePipeline
<1>2. PICK stage \in Stages \cup {"keep"}, rem \in {"keep", "set", "clear"}, inc \in BOOLEAN :
        Operate(r, k, Moved(old, stage, rem, inc), inc)
  BY DEF SavePipeline
<1>3. LeadStays
  BY <1>1, <1>2, MovedRow, OperateGood
<1>4. req' = [req EXCEPT ![r] = NoReq]
  BY DEF SavePipeline
<1>. QED
  BY <1>3, <1>4, NoReqGood, OneReq

LEMMA SaveUpdateGood ==
  ASSUME LeadInv, NEW r \in Requests, SaveUpdate(r)
  PROVE  LeadStays /\ ReqStays
<1>. DEFINE k == req[r].ks[1]
            old == req[r].old[k]
<1>1. k \in Keys /\ old \in LeadRow /\ old.live
  BY OperatorKeys DEF SaveUpdate
<1>2. LeadStays
  <2>1. ASSUME NEW act, Operate(r, k, Marked(old, act), FALSE) PROVE LeadStays
    BY <1>1, <2>1, MarkedRow, OperateGood
  <2>2. ASSUME lead[k].live, lead' = [lead EXCEPT ![k] = [NoRow EXCEPT !.id = lead[k].id]]
        PROVE  LeadStays
    <3>1. GoodLead(k) /\ lead[k].id \in Nat
      BY <1>1 DEF LeadInv, GoodLead, LeadRow
    <3>. DEFINE gone == [NoRow EXCEPT !.id = lead[k].id]
    <3>2. gone \in LeadRow
      BY <3>1, NoReqGood DEF LeadRow
    <3>3. gone.id = lead[k].id /\ gone.live = FALSE
      BY DEF NoRow
    <3>. HIDE DEF gone
    <3>4. DOMAIN lead' = Keys /\ \A j \in Keys : lead'[j] = IF j = k THEN gone ELSE lead[j]
      BY <2>2 DEF LeadInv, gone
    <3>5. ASSUME NEW j \in Keys PROVE GoodLead(j)' /\ (Filed(j) => Filed(j)')
      <4>1. GoodLead(j)
        BY DEF LeadInv
      <4>. QED
        BY <3>2, <3>3, <3>4, <4>1 DEF GoodLead, Filed
    <3>. QED
      BY <3>4, <3>5 DEF LeadStays
  <2>3. \/ \E act : Operate(r, k, Marked(old, act), FALSE)
        \/ lead[k].live /\ lead' = [lead EXCEPT ![k] = [NoRow EXCEPT !.id = lead[k].id]]
    BY DEF SaveUpdate
  <2>. QED
    BY <2>1, <2>2, <2>3
<1>3. req' = [req EXCEPT ![r] = NoReq]
  BY DEF SaveUpdate
<1>. QED
  BY <1>2, <1>3, NoReqGood, OneReq

\* An operator opens a form.
LEMMA OpenGood ==
  ASSUME LeadInv, NEW r \in Requests, NEW k \in Keys, OpenPipeline(r, k) \/ OpenUpdate(r, k)
  PROVE  LeadStays /\ ReqStays
<1>. DEFINE old == [NoReq.old EXCEPT ![k] = lead[k]]
            q(kind, ph) == [NoReq EXCEPT !.kind = kind, !.phase = ph, !.ks = <<k>>, !.old = old]
<1>1. lead[k].live /\ lead[k] \in LeadRow /\ lead' = lead
  BY DEF OpenPipeline, OpenUpdate, LeadInv, GoodLead
<1>2. NoReq.old \in [Keys -> LeadRow]
  BY NoReqGood DEF NoReq
<1>3. old \in [Keys -> LeadRow] /\ old[k] = lead[k]
  BY <1>1, <1>2
<1>4. PICK kind \in {"pipeline", "update"}, ph \in {"form", "save"} : req' = [req EXCEPT ![r] = q(kind, ph)]
  BY DEF OpenPipeline, OpenUpdate, NoReq
<1>. HIDE DEF old
<1>5. <<k>> \in Seq(Keys) /\ Len(<<k>>) = 1 /\ <<k>>[1] = k
  OBVIOUS
<1>6. /\ q(kind, ph).kind = kind /\ q(kind, ph).phase = ph /\ q(kind, ph).ks = <<k>>
      /\ q(kind, ph).n = 0 /\ q(kind, ph).old = old
  BY DEF NoReq
<1>7. q(kind, ph) \in ReqRow
  BY <1>3, <1>5, NoReqGood DEF GoodReq, ReqRow
<1>. HIDE DEF q
<1>8. GoodReq(q(kind, ph))
  BY <1>1, <1>3, <1>5, <1>6, <1>7 DEF GoodReq
<1>. QED
  BY <1>1, <1>4, <1>8, OneReq, SameLeads

\* The requests that look up the keys they are given.
LEMMA BeginAnyGood ==
  ASSUME LeadInv, NEW r \in Requests,
         \/ \E ks \in {<<k>> : k \in Keys} \cup (Keys \X Keys) : BeginBatch(r, ks) \/ BeginStream(r, ks)
         \/ \E k \in Keys : BeginSnapshot(r, k) \/ BeginRerun(r, k)
  PROVE  LeadStays /\ ReqStays
<1>1. \A ks \in {<<k>> : k \in Keys} \cup (Keys \X Keys) : ks \in Seq(Keys) /\ Len(ks) > 0
  <2>1. \A a, b \in Keys : <<a, b>> \in Seq(Keys) /\ Len(<<a, b>>) > 0
    OBVIOUS
  <2>2. \A ks \in Keys \X Keys : \E a, b \in Keys : ks = <<a, b>>
    OBVIOUS
  <2>3. \A k \in Keys : <<k>> \in Seq(Keys) /\ Len(<<k>>) > 0
    OBVIOUS
  <2>. QED
    BY <2>1, <2>2, <2>3, ZenonT(40)
<1>2. \A k \in Keys : <<k>> \in Seq(Keys) /\ Len(<<k>>) > 0
  OBVIOUS
<1>3. \E kind \in {"snapshot", "batch", "rerun", "stream"}, ks \in Seq(Keys) :
        Len(ks) > 0 /\ Begin(r, kind, ks)
  BY <1>1, <1>2 DEF BeginBatch, BeginStream, BeginSnapshot, BeginRerun
<1>. QED
  BY <1>3, BeginGood

LEMMA LeadStepGood ==
  ASSUME LeadInv, LeadStep({"snapshot", "batch", "stream", "rerun", "pipeline", "update"}, Keys, Requests)
  PROVE  LeadStays /\ ReqStays
<1>1. CASE \E r \in Requests, ks \in {<<k>> : k \in Keys} \cup (Keys \X Keys) :
             BeginBatch(r, ks) \/ BeginStream(r, ks)
  BY <1>1, BeginAnyGood
<1>2. CASE \E r \in Requests, k \in Keys : BeginSnapshot(r, k) \/ BeginRerun(r, k)
  BY <1>2, BeginAnyGood
<1>3. CASE \E r \in Requests, k \in Keys : OpenPipeline(r, k) \/ OpenUpdate(r, k)
  BY <1>3, OpenGood
<1>4. CASE \E r \in Requests : Find(r) \/ Commit(r) \/ SavePipeline(r) \/ SaveUpdate(r)
  BY <1>4, FindGood, CommitGood, SavePipelineGood, SaveUpdateGood
<1>5. \/ \E r \in Requests, ks \in {<<k>> : k \in Keys} \cup (Keys \X Keys) :
             BeginBatch(r, ks) \/ BeginStream(r, ks)
      \/ \E r \in Requests : Find(r) \/ Commit(r) \/ SavePipeline(r) \/ SaveUpdate(r)
      \/ \E r \in Requests, k \in Keys : \/ BeginSnapshot(r, k) \/ BeginRerun(r, k)
                                        \/ OpenPipeline(r, k) \/ OpenUpdate(r, k)
  BY DEF LeadStep
<1>. QED
  BY <1>1, <1>2, <1>3, <1>4, <1>5

LEMMA OpenUnlockGood ==
  ASSUME LeadInv, NEW r \in Requests, NEW t \in Tokens, NEW k \in Keys, OpenUnlock(r, t, k)
  PROVE  LeadStays /\ ReqStays
<1>. DEFINE tok == IF test[t].row = "received" THEN t ELSE "none"
            q == [NoReq EXCEPT !.kind = "unlock", !.phase = "form", !.ks = <<k>>, !.token = tok]
<1>1. req' = [req EXCEPT ![r] = q] /\ lead' = lead
  BY DEF OpenUnlock
<1>2. <<k>> \in Seq(Keys) /\ Len(<<k>>) = 1 /\ tok \in Tokens \cup {"none"}
  OBVIOUS
<1>. HIDE DEF tok
<1>3. q.kind = "unlock" /\ q.phase = "form" /\ q.ks = <<k>> /\ q.n = 0
  BY DEF NoReq
<1>4. q \in ReqRow
  BY <1>2, NoReqGood DEF GoodReq, ReqRow
<1>. HIDE DEF q
<1>5. GoodReq(q)
  BY <1>2, <1>3, <1>4 DEF GoodReq
<1>. QED
  BY <1>1, <1>5, OneReq, SameLeads

LEMMA UnlockGood ==
  ASSUME LeadInv, NEW r \in Requests, Unlock(r)
  PROVE  LeadStays /\ ReqStays
<1>. DEFINE q == [req[r] EXCEPT !.phase = "find"]
<1>1. /\ GoodReq(req[r]) /\ req[r] \in ReqRow /\ req[r].kind = "unlock"
  BY DEF LeadInv, GoodReq, Unlock
<1>2. q \in ReqRow /\ q.kind = "unlock" /\ q.ks = req[r].ks /\ q.n = req[r].n /\ q.phase = "find"
  BY <1>1 DEF ReqRow
<1>3. lead' = lead /\ (req' = [req EXCEPT ![r] = q] \/ req' = [req EXCEPT ![r] = NoReq])
  BY DEF Unlock
<1>. HIDE DEF q
<1>4. GoodReq(q)
  <2>1. req[r].phase = "form" /\ req[r].kind = "unlock"
    BY DEF Unlock
  <2>. DEFINE old == req[r]
  <2>2. GoodReq(old) /\ old.phase = "form" /\ old.kind = "unlock"
    BY <1>1, <2>1
  <2>. HIDE DEF old
  <2>3. old.n < Len(old.ks) /\ Len(old.ks) > 0
    BY <2>2 DEF GoodReq
  <2>4. q.n < Len(q.ks) /\ Len(q.ks) > 0 /\ q.n <= Len(q.ks)
    <3>1. q.n = old.n /\ q.ks = old.ks
      BY <1>2 DEF old
    <3>2. q.n \in Nat /\ Len(q.ks) \in Nat
      BY <1>2 DEF ReqRow
    <3>. HIDE DEF q
    <3>. QED
      BY <2>3, <3>1, <3>2
  <2>. QED
    BY <1>2, <2>4 DEF GoodReq
<1>. QED
  BY <1>3, <1>4, NoReqGood, OneReq, SameLeads

----------------------------------------------------------------------------
(* Whoever is scored is filed: a poll that has scored a mail carries it to *)
(* the lead, and holds a row that was there when it looked.                *)

KeyAt(p) == Mails[poll[p].uid].key

PollFiled(p) ==
  /\ poll[p].phase \in {"find", "mirror"} => poll[p].scored /\ KeyAt(p) # "none"
  /\ Working(p) => poll[p].token \in Tokens /\ test[poll[p].token].mail = poll[p].uid
  /\ poll[p].phase = "mirror" => poll[p].old \in LeadRow /\ (poll[p].old.live => Filed(KeyAt(p)))

FiledInv == (\A p \in Polls : PollFiled(p)) /\ ScoredIsFiled

HistRow == [lost : SUBSET Tokens, faults : Nat, together : BOOLEAN]

FInv == IInv /\ LeadInv /\ FiledInv /\ mtHist \in HistRow

\* Another fault has happened.
LEMMA FaultKeeps ==
  ASSUME mtHist \in HistRow, Fault(mtHist)
  PROVE  mtHist' \in HistRow /\ mtHist'.lost = mtHist.lost /\ mtHist'.together = mtHist.together
<1>1. mtHist.faults + 1 \in Nat
  BY DEF HistRow
<1>. QED
  BY <1>1 DEF Fault, HistRow

LEMMA SenderIs ==
  ASSUME NEW m \in DOMAIN Mails, Mails[m].key # "none"
  PROVE  Mails[m].key \in Keys
<1>. DEFINE M == [token : Tokens \cup {"none"}, key : Keys \cup {"none"}, outcome : {"scored", "unscored", "refused"}]
<1>1. Mails \in Seq(M)
  BY MailsAssumption
<1>. HIDE DEF M
<1>2. Mails[m] \in M
  BY <1>1
<1>. USE DEF M
<1>. QED
  BY <1>2

\* The mail a poll works on.
LEMMA AtHand ==
  ASSUME IInv, NEW p \in Polls, poll[p].phase \in {"store", "flag", "find", "mirror"}
  PROVE  /\ poll[p].uid \in DOMAIN Mails /\ poll[p].uid # 0
         /\ KeyAt(p) # "none" => KeyAt(p) \in Keys
<1>1. OrderInv(p) /\ arrived \in Nat /\ arrived <= Len(Mails) /\ Len(Mails) \in Nat
      /\ poll[p].uid \in Nat
  BY PollIs DEF PollRow
<1>2. poll[p].uid # 0 /\ poll[p].uid <= arrived
  BY <1>1 DEF OrderInv
<1>3. poll[p].uid \in 1..Len(Mails)
  BY <1>1, <1>2
<1>4. poll[p].uid \in DOMAIN Mails
  BY <1>3, MailType
<1>. QED
  BY <1>2, <1>4, SenderIs DEF KeyAt

\* A step of others, and of the tests, that a poll does not notice.
LEMMA PollFiledStays ==
  ASSUME IInv, LeadStays, NEW o \in Polls, PollFiled(o), poll'[o] = poll[o],
         \A t \in Tokens : test[t].mail # 0 => test'[t].mail = test[t].mail
  PROVE  PollFiled(o)'
<1>1. poll[o].phase \in {"flag", "find", "mirror"} =>
        poll[o].uid # 0 /\ (KeyAt(o) # "none" => KeyAt(o) \in Keys)
  BY AtHand
<1>2. KeyAt(o)' = KeyAt(o) /\ Working(o)' = Working(o)
  BY DEF KeyAt, Working
<1>3. KeyAt(o) \in Keys => (Filed(KeyAt(o)) => Filed(KeyAt(o))')
  BY <1>2 DEF LeadStays, Filed
<1>. QED
  BY <1>1, <1>2, <1>3 DEF PollFiled, Working

\* What has been filed remains filed; a mail just scored is at work.
LEMMA FiledStep ==
  ASSUME FInv, LeadStays, NEW p \in Polls, \A o \in Polls \ {p} : poll'[o] = poll[o],
         PollFiled(p)', mtHist'.lost = mtHist.lost,
         \A t \in Tokens : \/ test'[t].mail = test[t].mail
                           \/ test[t].mail = 0 /\ Working(p)' /\ poll'[p].token = t,
         Working(p) => \/ Working(p)' /\ poll'[p].token = poll[p].token
                       \/ KeyAt(p) = "none"
                       \/ lead'[KeyAt(p)].id # 0
  PROVE  FiledInv'
<1>1. \A o \in Polls : PollFiled(o)'
  BY PollFiledStays DEF FInv, FiledInv
<1>2. ASSUME NEW t \in Tokens, t \notin mtHist.lost, test'[t].mail # 0, Mails[test'[t].mail].key # "none",
             ~\E o \in Polls : Working(o)' /\ poll'[o].token = t
      PROVE  lead'[Mails[test'[t].mail].key].id > 0
  <2>. DEFINE k == Mails[test[t].mail].key
  <2>1. test'[t].mail = test[t].mail
    BY <1>2
  <2>2. test \in [Tokens -> TestRow] /\ TestInv
    BY DEF FInv, IInv, MtType
  <2>3. test[t].mail \in DOMAIN Mails
    BY <1>2, <2>1, <2>2 DEF TestInv, Life!IsFirst
  <2>4. k \in Keys
    BY <1>2, <2>1, <2>3, SenderIs
  <2>5. lead'[k].id # 0
    <3>1. CASE \E o \in Polls : Working(o) /\ poll[o].token = t
      <4>1. PICK o \in Polls : Working(o) /\ poll[o].token = t
        BY <3>1
      <4>2. o = p
        BY <1>2, <4>1 DEF Working
      <4>3. KeyAt(p) = k
        BY <4>1, <4>2 DEF FInv, FiledInv, PollFiled, KeyAt
      <4>. QED
        BY <1>2, <2>1, <4>1, <4>2, <4>3
    <3>2. CASE ~\E o \in Polls : Working(o) /\ poll[o].token = t
      <4>1. lead[k].id > 0
        BY <1>2, <2>1, <3>2 DEF FInv, FiledInv, ScoredIsFiled
      <4>2. Filed(k)
        BY <2>4, <4>1 DEF Filed
      <4>. QED
        BY <2>4, <4>2 DEF LeadStays, Filed
    <3>. QED
      BY <3>1, <3>2
  <2>6. lead'[k].id \in Nat
    BY <2>4 DEF LeadStays, GoodLead, LeadRow
  <2>7. lead'[k].id > 0
    BY <2>5, <2>6
  <2>. QED
    BY <2>1, <2>7
<1>3. ScoredIsFiled'
  BY <1>2 DEF ScoredIsFiled, Working
<1>. QED
  BY <1>1, <1>3 DEF FiledInv

\* Steps in which a poll takes no scored mail on and leaves none.
LEMMA IdleStepFiled ==
  ASSUME FInv, lead' = lead, mtHist'.lost = mtHist.lost, NEW p \in Polls, NEW q, Become(p, q),
         ~Working(p), q.phase \notin {"find", "mirror"}, ~q.scored,
         \A t \in Tokens : test'[t].mail = test[t].mail
  PROVE  FiledInv'
<1>1. poll'[p] = q /\ \A o \in Polls \ {p} : poll'[o] = poll[o]
  BY DEF Become, FInv, IInv, MtType
<1>2. PollFiled(p)'
  BY <1>1 DEF PollFiled, Working
<1>3. LeadStays
  BY SameLeads DEF FInv
<1>4. \A t \in Tokens : \/ test'[t].mail = test[t].mail
                        \/ test[t].mail = 0 /\ Working(p)' /\ poll'[p].token = t
  OBVIOUS
<1>5. Working(p) => \/ Working(p)' /\ poll'[p].token = poll[p].token
                    \/ KeyAt(p) = "none"
                    \/ lead'[KeyAt(p)].id # 0
  OBVIOUS
<1>. QED
  BY <1>1, <1>2, <1>3, <1>4, <1>5, FiledStep, Zenon

LEMMA StartFiled ==
  ASSUME FInv, NEW p \in Polls, StartPoll(p)
  PROVE  FiledInv'
<1>. DEFINE q == [NoPoll EXCEPT !.phase = "next", !.uids = 1..arrived \ flagged]
<1>1. Become(p, q) /\ lead' = lead /\ mtHist' = mtHist /\ test' = test /\ ~Working(p)
  BY DEF StartPoll, leadVars, Working
<1>2. q.phase = "next" /\ q.scored = FALSE
  BY DEF NoPoll
<1>. HIDE DEF q
<1>. QED
  BY <1>1, <1>2, IdleStepFiled

LEMMA DropFiled ==
  ASSUME FInv, NEW p \in Polls, Drop(p)
  PROVE  FiledInv'
<1>1. Become(p, NoPoll) /\ lead' = lead /\ test' = test /\ ~Working(p) /\ mtHist'.lost = mtHist.lost
  BY FaultKeeps DEF Drop, leadVars, Working, FInv
<1>2. NoPoll.phase = "idle" /\ NoPoll.scored = FALSE
  BY DEF NoPoll
<1>. QED
  BY <1>1, <1>2, IdleStepFiled

LEMMA ExpireFiled ==
  ASSUME FInv, NEW p \in Polls, Expire(p)
  PROVE  FiledInv'
<1>1. Become(p, NoPoll) /\ lead' = lead /\ ~Working(p) /\ mtHist' = mtHist
  BY DEF Expire, leadVars, Working
<1>2. NoPoll.phase = "idle" /\ NoPoll.scored = FALSE
  BY DEF NoPoll
<1>3. \A t \in Tokens : test'[t].mail = test[t].mail
  BY DEF Expire, NoTest
<1>. QED
  BY <1>1, <1>2, <1>3, IdleStepFiled

LEMMA NextMailFiled ==
  ASSUME FInv, NEW p \in Polls, NextMail(p)
  PROVE  FiledInv'
<1>. DEFINE m == CHOOSE u \in poll[p].uids : \A v \in poll[p].uids : u <= v
            t == Mails[m].token
            q == [poll[p] EXCEPT !.uids = @ \ {m}, !.uid = m, !.scored = FALSE]
            skip == [q EXCEPT !.phase = "flag"]
            take == [q EXCEPT !.token = t, !.loaded = RowOf(p, t), !.phase = Verdict(RowOf(p, t), m)]
<1>1. poll[p] \in PollRow({poll[p].old})
  BY PollIs DEF FInv
<1>2. Become(p, IF t = "none" THEN skip ELSE take)
  BY DEF NextMail
<1>3. lead' = lead /\ mtHist' = mtHist /\ test' = test /\ ~Working(p)
  BY DEF NextMail, leadVars, Working
<1>4. Verdict(RowOf(p, t), m) \in {"flag", "store", "next"}
  BY DEF Verdict
<1>5. skip.phase = "flag" /\ skip.scored = FALSE
  BY <1>1 DEF PollRow
<1>6. take.phase \in {"flag", "store", "next"} /\ take.scored = FALSE
  BY <1>1, <1>4 DEF PollRow
<1>. HIDE DEF skip, take
<1>. QED
  BY <1>2, <1>3, <1>5, <1>6, IdleStepFiled

\* The mail a poll has scored is the one its test shows.
LEMMA StoreFiled ==
  ASSUME FInv, NEW p \in Polls, StoreScore(p)
  PROVE  FiledInv'
<1>. DEFINE t == poll[p].token
            m == poll[p].uid
            q == [poll[p] EXCEPT !.phase = "flag", !.scored = TRUE, !.loaded = "received"]
<1>1. /\ m \in 1..arrived /\ t \in Tokens /\ arrived \in Nat
      /\ poll[p] \in PollRow({poll[p].old})
  BY StoredIsFirst, PollIs DEF StoreScore, FInv
<1>2. test \in [Tokens -> TestRow] /\ TestInv
  BY DEF FInv, IInv, MtType
<1>3. lead' = lead /\ mtHist' = mtHist /\ ~Working(p)
  BY DEF StoreScore, leadVars, Working
<1>4. CASE ~Exists(t) \/ Mails[m].outcome = "refused"
  <2>1. Become(p, NoPoll) /\ test' = test
    BY <1>4 DEF StoreScore
  <2>2. NoPoll.phase = "idle" /\ NoPoll.scored = FALSE
    BY DEF NoPoll
  <2>. QED
    BY <1>3, <2>1, <2>2, IdleStepFiled
<1>5. CASE Exists(t) /\ Mails[m].outcome # "refused"
  <2>. Life!IsFirst(t, m)
    BY <1>5, StoredIsFirst DEF StoreScore, FInv
  <2>1. test' = [test EXCEPT ![t].row = "received", ![t].mail = m] /\ Become(p, q)
    BY <1>5 DEF StoreScore
  <2>2. /\ test'[t].mail = m
        /\ \A s \in Tokens \ {t} : test'[s] = test[s]
    BY <1>1, <1>2, <2>1 DEF TestRow
  <2>3. q.phase = "flag" /\ q.scored = TRUE /\ q.token = t /\ q.uid = m
    BY <1>1 DEF PollRow
  <2>. HIDE DEF q
  <2>4. poll'[p] = q /\ \A o \in Polls \ {p} : poll'[o] = poll[o]
    BY <2>1 DEF Become, FInv, IInv, MtType
  <2>5. PollFiled(p)'
    BY <1>1, <2>2, <2>3, <2>4 DEF PollFiled
  <2>6. Working(p)' /\ poll'[p].token = t
    BY <2>3, <2>4 DEF Working
  <2>7. test[t].mail \in {0, m}
    <3>1. CASE test[t].mail = 0
      BY <3>1
    <3>2. CASE test[t].mail # 0
      <4>1. Life!IsFirst(t, test[t].mail) /\ test[t].mail \in Nat
        BY <1>1, <1>2, <3>2 DEF TestInv, TestRow
      <4>. QED
        BY <1>1, <4>1, FirstIsOne
    <3>. QED
      BY <3>1, <3>2
  <2>8. \A s \in Tokens : \/ test'[s].mail = test[s].mail
                          \/ test[s].mail = 0 /\ Working(p)' /\ poll'[p].token = s
    BY <2>2, <2>6, <2>7
  <2>9. LeadStays
    BY <1>3, SameLeads DEF FInv
  <2>. QED
    BY <1>3, <2>4, <2>5, <2>8, <2>9, FiledStep
<1>. QED
  BY <1>4, <1>5

\* Whether or not the flag could be set, the mail is filed next.
LEMMA FlagFiled ==
  ASSUME FInv, NEW p \in Polls, Flag(p)
  PROVE  FiledInv'
<1>. DEFINE ph == IF poll[p].scored /\ KeyAt(p) # "none" THEN "find" ELSE "next"
            q == [poll[p] EXCEPT !.phase = ph]
<1>1. Become(p, q) /\ test' = test /\ lead' = lead /\ mtHist'.lost = mtHist.lost
  <2>1. AfterFlag(poll[p], TRUE) = ph /\ AfterFlag(poll[p], FALSE) = ph
    BY Zenon DEF AfterFlag, KeyAt
  <2>2. \/ Become(p, [poll[p] EXCEPT !.phase = AfterFlag(poll[p], TRUE)])
        \/ Become(p, [poll[p] EXCEPT !.phase = AfterFlag(poll[p], FALSE)])
    BY Zenon DEF Flag
  <2>3. Become(p, q)
    BY <2>1, <2>2, Zenon
  <2>4. Fault(mtHist) \/ mtHist' = mtHist
    BY Zenon DEF Flag
  <2>5. mtHist'.lost = mtHist.lost
    BY <2>4, FaultKeeps DEF FInv
  <2>. QED
    BY <2>3, <2>5 DEF Flag, leadVars
<1>2. poll[p] \in PollRow({poll[p].old}) /\ poll[p].phase = "flag"
  BY PollIs DEF Flag, FInv
<1>3. /\ q.phase = ph /\ q.scored = poll[p].scored /\ q.token = poll[p].token
      /\ q.uid = poll[p].uid
  BY <1>2 DEF PollRow
<1>. HIDE DEF q
<1>4. poll'[p] = q /\ \A o \in Polls \ {p} : poll'[o] = poll[o]
  BY <1>1 DEF Become, FInv, IInv, MtType
<1>5. KeyAt(p)' = KeyAt(p)
  BY <1>3, <1>4 DEF KeyAt
<1>6. PollFiled(p)
  BY DEF FInv, FiledInv
<1>7. PollFiled(p)'
  BY <1>1, <1>2, <1>3, <1>4, <1>5, <1>6 DEF PollFiled, Working
<1>8. \/ ~Working(p)
      \/ Working(p)' /\ poll'[p].token = poll[p].token
      \/ KeyAt(p) = "none"
  BY <1>3, <1>4 DEF Working
<1>9. LeadStays
  BY <1>1, SameLeads DEF FInv
<1>10. \A s \in Tokens : test'[s].mail = test[s].mail
  BY <1>1
<1>. QED
  BY <1>1, <1>4, <1>7, <1>8, <1>9, <1>10, FiledStep

\* The row is looked up.
LEMMA MirrorFindFiled ==
  ASSUME FInv, NEW p \in Polls, MirrorFind(p)
  PROVE  FiledInv'
<1>. DEFINE old == lead[KeyAt(p)]
            q == [poll[p] EXCEPT !.phase = "mirror", !.old = old]
<1>1. Become(p, q) /\ test' = test /\ lead' = lead /\ mtHist' = mtHist
  BY DEF MirrorFind, KeyAt, leadVars
<1>2. poll[p] \in PollRow({poll[p].old}) /\ poll[p].phase = "find" /\ PollFiled(p)
  BY PollIs DEF MirrorFind, FInv, FiledInv
<1>3. poll[p].scored /\ KeyAt(p) \in Keys
  BY <1>2, AtHand DEF PollFiled, FInv
<1>4. GoodLead(KeyAt(p))
  BY <1>3 DEF FInv, LeadInv
<1>5. /\ q.phase = "mirror" /\ q.scored = poll[p].scored /\ q.token = poll[p].token
      /\ q.uid = poll[p].uid /\ q.old = old
  BY <1>2 DEF PollRow
<1>. HIDE DEF q
<1>6. poll'[p] = q /\ \A o \in Polls \ {p} : poll'[o] = poll[o]
  BY <1>1 DEF Become, FInv, IInv, MtType
<1>7. KeyAt(p)' = KeyAt(p)
  BY <1>5, <1>6 DEF KeyAt
<1>8. PollFiled(p)'
  <2>1. Working(p) /\ poll[p].token \in Tokens /\ test[poll[p].token].mail = poll[p].uid
    BY <1>2, <1>3 DEF Working, PollFiled
  <2>2. old \in LeadRow /\ (old.live => old.id # 0)
    BY <1>4 DEF GoodLead
  <2>3. Filed(KeyAt(p))' <=> old.id # 0
    BY <1>1, <1>7 DEF Filed
  <2>4. KeyAt(p)' # "none"
    BY <1>2, <1>7 DEF PollFiled
  <2>. QED
    BY <1>1, <1>3, <1>5, <1>6, <2>1, <2>2, <2>3, <2>4 DEF PollFiled
<1>9. Working(p)' /\ poll'[p].token = poll[p].token
  BY <1>3, <1>5, <1>6 DEF Working
<1>10. LeadStays
  BY <1>1, SameLeads DEF FInv
<1>11. \A s \in Tokens : test'[s].mail = test[s].mail
  BY <1>1
<1>. QED
  BY <1>1, <1>6, <1>8, <1>9, <1>10, <1>11, FiledStep

\* The lead is there afterwards: written, or found to have been inserted by
\* somebody else, or still the row that was read.
LEMMA MirrorSaveFiled ==
  ASSUME FInv, NEW p \in Polls, MirrorSave(p)
  PROVE  FiledInv' /\ LeadStays
<1>. DEFINE k == KeyAt(p)
            old == poll[p].old
            q(l) == [poll[p] EXCEPT !.phase = "next", !.scored = FALSE, !.old = NoRow, !.loaded = l]
<1>1. poll[p] \in PollRow({poll[p].old}) /\ poll[p].phase = "mirror" /\ PollFiled(p)
  BY PollIs DEF MirrorSave, FInv, FiledInv
<1>2. k \in Keys /\ old \in LeadRow /\ (old.live => Filed(k)) /\ GoodLead(k) /\ DOMAIN lead = Keys
  BY <1>1, AtHand DEF PollFiled, FInv, LeadInv
<1>3. PICK g \in Grades :
        LET new == Upsert(k, old, g)
            ok == ~Fails(k, old, new)
        IN  /\ lead' = [lead EXCEPT ![k] = IF ok THEN Saved(k, old, new) ELSE @]
            /\ Become(p, [poll[p] EXCEPT !.phase = "next", !.scored = FALSE, !.old = NoRow,
                                         !.loaded = IF ok THEN @ ELSE "free"])
  BY Zenon DEF MirrorSave, KeyAt
<1>. DEFINE new == Upsert(k, old, g)
            ok == ~Fails(k, old, new)
            row == Saved(k, old, new)
<1>4. /\ lead' = [lead EXCEPT ![k] = IF ok THEN row ELSE lead[k]]
      /\ Become(p, q(IF ok THEN poll[p].loaded ELSE "free"))
  BY <1>3, Zenon
<1>5. /\ new \in LeadRow
      /\ old.live => new.id = old.id /\ new.live = old.live
      /\ ~old.live => new.id # 0
  BY <1>2, UpsertRow DEF FInv
<1>6. row \in LeadRow /\ row.id # 0
  <2>. HIDE DEF new
  <2>. QED
    BY <1>2, <1>5, SavedKeeps DEF FInv
<1>7. ~ok => lead[k].id # 0
  <2>. HIDE DEF new
  <2>. QED
    BY <1>2 DEF Fails, GoodLead, Filed
<1>. HIDE DEF ok, row, new
<1>8. DOMAIN lead' = Keys /\ lead'[k] \in {row, lead[k]} /\ \A j \in Keys \ {k} : lead'[j] = lead[j]
  BY <1>2, <1>4
<1>9. lead'[k].id # 0
  BY <1>2, <1>4, <1>6, <1>7
<1>10. LeadStays
  <2>1. ASSUME NEW j \in Keys PROVE GoodLead(j)' /\ (Filed(j) => Filed(j)')
    <3>1. GoodLead(j) /\ row \in LeadRow
      BY <1>6 DEF FInv, LeadInv
    <3>. QED
      BY <1>2, <1>8, <1>9, <3>1 DEF GoodLead, Filed
  <2>. QED
    BY <1>8, <2>1 DEF LeadStays
<1>11. PICK l : Become(p, q(l))
  BY <1>4
<1>12. q(l).phase = "next" /\ q(l).scored = FALSE
  BY <1>1 DEF PollRow
<1>. HIDE DEF q
<1>13. poll'[p] = q(l) /\ \A o \in Polls \ {p} : poll'[o] = poll[o]
  BY <1>11 DEF Become, FInv, IInv, MtType
<1>14. PollFiled(p)'
  BY <1>12, <1>13 DEF PollFiled, Working
<1>15. mtHist' = mtHist /\ \A s \in Tokens : test'[s].mail = test[s].mail
  BY DEF MirrorSave
<1>. QED
  BY <1>9, <1>10, <1>13, <1>14, <1>15, FiledStep

\* A restart loses what the polls had at hand, and records it.
LEMMA CrashFiled ==
  ASSUME FInv, Crash
  PROVE  FiledInv' /\ LeadStays /\ ReqStays /\ mtHist' \in HistRow
<1>. DEFINE W == {poll[p].token : p \in {x \in Polls : Working(x)}}
<1>1. /\ lead' = lead /\ test' = test /\ poll' = [p \in Polls |-> NoPoll]
      /\ req' = [r \in Requests |-> NoReq]
      /\ mtHist' = [[mtHist EXCEPT !.lost = mtHist.lost \cup W] EXCEPT !.faults = mtHist.faults + 1]
  BY Zenon DEF Crash, Fault
<1>2. W \subseteq Tokens
  BY DEF FInv, FiledInv, PollFiled
<1>3. mtHist \in HistRow /\ mtHist.faults + 1 \in Nat
  BY DEF FInv, HistRow
<1>. HIDE DEF W
<1>4. mtHist' \in HistRow /\ mtHist'.lost = mtHist.lost \cup W
  BY <1>1, <1>2, <1>3 DEF HistRow
<1>5. \A p \in Polls : PollFiled(p)'
  BY <1>1 DEF PollFiled, Working, NoPoll
<1>6. ScoredIsFiled'
  <2>. SUFFICES ASSUME NEW t \in Tokens, t \notin mtHist'.lost, test[t].mail # 0,
                       Mails[test[t].mail].key # "none"
                PROVE  lead[Mails[test[t].mail].key].id > 0
    BY <1>1 DEF ScoredIsFiled
  <2>1. t \notin mtHist.lost /\ ~\E p \in Polls : Working(p) /\ poll[p].token = t
    BY <1>4 DEF W
  <2>. QED
    BY <2>1 DEF FInv, FiledInv, ScoredIsFiled
<1>7. ReqStays
  BY <1>1, NoReqGood DEF ReqStays
<1>8. LeadStays
  BY <1>1, SameLeads DEF FInv
<1>. QED
  BY <1>4, <1>5, <1>6, <1>7, <1>8 DEF FiledInv

\* What the others do leaves the polls and the results alone.
LEMMA OthersFiled ==
  ASSUME FInv, LeadStays, poll' = poll, mtHist'.lost = mtHist.lost,
         \A t \in Tokens : test'[t].mail = test[t].mail
  PROVE  FiledInv'
<1>1. \A o \in Polls : PollFiled(o)'
  BY PollFiledStays DEF FInv, FiledInv
<1>2. ASSUME NEW t \in Tokens, t \notin mtHist.lost, test[t].mail # 0, Mails[test[t].mail].key # "none",
             ~\E o \in Polls : Working(o) /\ poll[o].token = t
      PROVE  lead'[Mails[test[t].mail].key].id > 0
  <2>. DEFINE k == Mails[test[t].mail].key
  <2>1. test[t].mail \in DOMAIN Mails
    BY <1>2 DEF FInv, IInv, TestInv, Life!IsFirst
  <2>2. k \in Keys
    BY <1>2, <2>1, SenderIs
  <2>3. lead[k].id > 0
    BY <1>2 DEF FInv, FiledInv, ScoredIsFiled
  <2>4. lead'[k] \in LeadRow /\ lead'[k].id # 0
    BY <2>2, <2>3 DEF LeadStays, Filed, GoodLead
  <2>5. lead'[k].id > 0
    BY <2>4 DEF LeadRow
  <2>. QED
    BY <2>5
<1>3. ScoredIsFiled'
  BY <1>2 DEF ScoredIsFiled, Working
<1>. QED
  BY <1>1, <1>3 DEF FiledInv

LEMMA FiledNext ==
  ASSUME FInv, [MailNext]_<<leadVars, mtVars>>
  PROVE  FInv'
<1>. DEFINE Good == LeadStays /\ ReqStays /\ FiledInv' /\ mtHist' \in HistRow
<1>1. ASSUME UNCHANGED mtVars, LeadStays, ReqStays PROVE Good
  BY <1>1, OthersFiled DEF mtVars, FInv
<1>2. ASSUME UNCHANGED <<leadVars, mtVars>> PROVE Good
  <2>1. LeadStays /\ ReqStays
    BY <1>2, SameLeads DEF FInv, leadVars, ReqStays, LeadInv
  <2>. QED
    BY <1>1, <1>2, <2>1
<1>3. ASSUME LeadStep({"snapshot", "batch", "stream", "rerun", "pipeline", "update"}, Keys, Requests),
             UNCHANGED mtVars
      PROVE  Good
  BY <1>1, <1>3, LeadStepGood DEF FInv
<1>4. ASSUME UNCHANGED leadVars PROVE LeadStays /\ ReqStays
  BY <1>4, SameLeads DEF FInv, leadVars, ReqStays, LeadInv
<1>5. ASSUME NEW p \in Polls, \/ StartPoll(p) \/ NextMail(p) \/ StoreScore(p) \/ Flag(p)
                              \/ MirrorFind(p) \/ Expire(p) \/ Drop(p)
      PROVE  Good
  <2>1. UNCHANGED leadVars
    BY <1>5 DEF StartPoll, NextMail, StoreScore, Flag, MirrorFind, Expire, Drop
  <2>2. Fault(mtHist) \/ mtHist' = mtHist
    BY <1>5, Zenon DEF StartPoll, NextMail, StoreScore, Flag, MirrorFind, Expire, Drop
  <2>3. mtHist' \in HistRow
    BY <2>2, FaultKeeps DEF FInv
  <2>4. FiledInv'
    BY <1>5, StartFiled, NextMailFiled, StoreFiled, FlagFiled, MirrorFindFiled, ExpireFiled, DropFiled
  <2>. QED
    BY <1>4, <2>1, <2>3, <2>4
<1>6. ASSUME NEW p \in Polls, MirrorSave(p) PROVE Good
  <2>1. req' = req /\ mtHist' = mtHist
    BY <1>6 DEF MirrorSave
  <2>2. ReqStays
    BY <2>1 DEF FInv, ReqStays, LeadInv
  <2>. QED
    BY <1>6, <2>1, <2>2, MirrorSaveFiled DEF FInv
<1>7. ASSUME NEW a \in Askers, NEW user \in BOOLEAN, Ask(a, user) PROVE Good
  <2>1. /\ poll' = poll /\ test' = test /\ UNCHANGED leadVars
        /\ mtHist' = [mtHist EXCEPT !.together = @ \/ \E b \in Askers : ask[b] # "none"]
    BY <1>7 DEF Ask
  <2>. DEFINE tog == mtHist.together \/ \E b \in Askers : ask[b] # "none"
  <2>2. tog \in BOOLEAN
    BY Zenon
  <2>. HIDE DEF tog
  <2>3. mtHist' = [mtHist EXCEPT !.together = tog]
    BY <2>1, Zenon DEF tog
  <2>4. mtHist' \in HistRow /\ mtHist'.lost = mtHist.lost
    BY <2>2, <2>3 DEF FInv, HistRow
  <2>. QED
    BY <1>4, <2>1, <2>4, OthersFiled
<1>8. ASSUME NEW a \in Askers, NEW t \in Tokens, Generate(a, t) PROVE Good
  <2>1. /\ test[t].row = "free" /\ poll' = poll /\ mtHist' = mtHist /\ UNCHANGED leadVars
        /\ test' = [test EXCEPT ![t] = [NoTest EXCEPT !.row = "waiting", !.anon = ask[a] = "anon"]]
    BY <1>8 DEF Generate
  <2>2. test \in [Tokens -> TestRow] /\ test[t].mail = 0
    BY <2>1 DEF FInv, IInv, MtType, TestInv
  <2>3. \A s \in Tokens : test'[s].mail = test[s].mail
    BY <2>1, <2>2 DEF NoTest
  <2>. QED
    BY <1>4, <2>1, <2>3, OthersFiled DEF FInv
<1>9. ASSUME NEW t \in Tokens, Age(t) PROVE Good
  <2>1. /\ poll' = poll /\ mtHist' = mtHist /\ UNCHANGED leadVars
        /\ test' = [test EXCEPT ![t].aged = TRUE]
    BY <1>9 DEF Age
  <2>2. \A s \in Tokens : test'[s].mail = test[s].mail
    BY <2>1 DEF FInv, IInv, MtType, TestRow
  <2>. QED
    BY <1>4, <2>1, <2>2, OthersFiled DEF FInv
<1>10. ASSUME Arrive PROVE Good
  <2>1. poll' = poll /\ mtHist' = mtHist /\ test' = test /\ UNCHANGED leadVars
    BY <1>10 DEF Arrive
  <2>. QED
    BY <1>4, <2>1, OthersFiled DEF FInv
<1>11. ASSUME NEW r \in Requests, \/ \E t \in Tokens, k \in Keys : OpenUnlock(r, t, k)
                                  \/ Unlock(r)
       PROVE  Good
  <2>1. LeadStays /\ ReqStays
    BY <1>11, OpenUnlockGood, UnlockGood DEF FInv
  <2>2. UNCHANGED mtVars
    BY <1>11 DEF OpenUnlock, Unlock
  <2>. QED
    BY <2>1, <2>2, OthersFiled DEF FInv, mtVars
<1>12. ASSUME MailStep(Askers, Polls, Tokens, Requests, Keys) PROVE Good
  BY <1>5, <1>6, <1>7, <1>8, <1>9, <1>10, <1>11, <1>12, CrashFiled DEF MailStep
<1>13. Good
  BY <1>2, <1>3, <1>12 DEF MailNext
<1>14. LeadInv'
  BY <1>13 DEF LeadInv, LeadStays, ReqStays
<1>15. IInv'
  BY NextInv DEF FInv
<1>. QED
  BY <1>13, <1>14, <1>15 DEF FInv

----------------------------------------------------------------------------
(* The daily limit: as long as no two visitors ask at the same moment, the *)
(* one who has been let through finds the count as it was.                 *)

Anonymous == {t \in Today : test[t].anon}

DailyInv ==
  /\ IsFiniteSet(Today) /\ ask \in [Askers -> {"none", "user", "anon"}]
  /\ ~mtHist.together =>
       /\ \A a, b \in Askers : ask[a] # "none" /\ ask[b] # "none" => a = b
       /\ Cardinality(Anonymous) <= DayLimit
       /\ \A a \in Askers : ask[a] = "anon" => Cardinality(Anonymous) < DayLimit

LEMMA AnonymousIs ==
  ASSUME IsFiniteSet(Today)
  PROVE  /\ IsFiniteSet(Anonymous) /\ Cardinality(Anonymous) \in Nat
         /\ Cardinality(Today) \in Nat /\ Cardinality(Anonymous) <= Cardinality(Today)
<1>1. Anonymous \subseteq Today
  BY DEF Anonymous
<1>. QED
  BY <1>1, FS_Subset, FS_CardinalityType

\* Tests age, are settled and expire: none of it adds to those of today.
LEMMA NoMoreToday ==
  ASSUME DailyInv, Today' \subseteq Today, \A t \in Today' : test'[t].anon = test[t].anon,
         ask' = ask \/ ask' = [a \in Askers |-> "none"], mtHist'.together = mtHist.together
  PROVE  DailyInv'
<1>1. Anonymous' \subseteq Anonymous
  BY DEF Anonymous
<1>2. IsFiniteSet(Anonymous) /\ Cardinality(Anonymous) \in Nat
  BY AnonymousIs DEF DailyInv
<1>3. IsFiniteSet(Today') /\ Cardinality(Anonymous') <= Cardinality(Anonymous)
      /\ Cardinality(Anonymous') \in Nat
  BY <1>1, <1>2, FS_Subset, FS_CardinalityType DEF DailyInv
<1>4. ask' \in [Askers -> {"none", "user", "anon"}]
  BY DEF DailyInv
<1>5. \A a \in Askers : ask'[a] \in {"none", ask[a]}
  BY DEF DailyInv
<1>6. Cardinality(Anonymous)' = Cardinality(Anonymous')
  OBVIOUS
<1>. HIDE DEF Anonymous
<1>7. ASSUME ~mtHist.together
      PROVE  /\ \A a, b \in Askers : ask'[a] # "none" /\ ask'[b] # "none" => a = b
             /\ Cardinality(Anonymous') <= DayLimit
             /\ \A a \in Askers : ask'[a] = "anon" => Cardinality(Anonymous') < DayLimit
  <2>1. /\ \A a, b \in Askers : ask[a] # "none" /\ ask[b] # "none" => a = b
        /\ Cardinality(Anonymous) <= DayLimit
        /\ \A a \in Askers : ask[a] = "anon" => Cardinality(Anonymous) < DayLimit
    BY <1>7 DEF DailyInv
  <2>2. Cardinality(Anonymous') <= DayLimit
    BY <1>2, <1>3, <2>1, MailTesterAssumption
  <2>3. ASSUME NEW a \in Askers, ask'[a] = "anon" PROVE Cardinality(Anonymous') < DayLimit
    <3>1. ask[a] = "anon"
      BY <1>5, <2>3
    <3>. QED
      BY <1>2, <1>3, <2>1, <3>1, MailTesterAssumption
  <2>. QED
    BY <1>5, <2>1, <2>2, <2>3
<1>. QED
  BY <1>3, <1>4, <1>7 DEF DailyInv

LEMMA AskDaily ==
  ASSUME FInv, DailyInv, NEW a \in Askers, NEW user \in BOOLEAN, Ask(a, user)
  PROVE  DailyInv'
<1>. DEFINE tog == mtHist.together \/ \E b \in Askers : ask[b] # "none"
<1>1. Today' = Today /\ Anonymous' = Anonymous
  BY DEF Ask, Today, Exists, Anonymous
<1>2. /\ mtHist'.together = tog
  <2>1. mtHist' = [mtHist EXCEPT !.together = tog]
    BY Zenon DEF Ask
  <2>. HIDE DEF tog
  <2>. QED
    BY <2>1 DEF FInv, HistRow
<1>3. ask' = [ask EXCEPT ![a] = IF user THEN "user" ELSE "anon"]
  BY DEF Ask
<1>4. ask' \in [Askers -> {"none", "user", "anon"}]
  BY <1>3 DEF DailyInv
<1>5. user \/ Cardinality(Today) < DayLimit
  BY DEF Ask, MayAsk
<1>6. Cardinality(Anonymous) \in Nat /\ Cardinality(Today) \in Nat /\ Cardinality(Anonymous) <= Cardinality(Today)
  BY AnonymousIs DEF DailyInv
<1>7. ASSUME ~tog
      PROVE  /\ \A b, c \in Askers : ask'[b] # "none" /\ ask'[c] # "none" => b = c
             /\ Cardinality(Anonymous') <= DayLimit
             /\ \A b \in Askers : ask'[b] = "anon" => Cardinality(Anonymous') < DayLimit
  <2>1. (\A b \in Askers : ask[b] = "none") /\ ~mtHist.together
    BY <1>7
  <2>2. Cardinality(Anonymous) <= DayLimit
    BY <2>1 DEF DailyInv
  <2>3. \A b \in Askers \ {a} : ask'[b] = "none"
    BY <1>3, <2>1 DEF DailyInv
  <2>4. ask'[a] = "anon" => ~user
    BY <1>3 DEF DailyInv
  <2>. HIDE DEF tog
  <2>. QED
    BY <1>1, <1>5, <1>6, <2>2, <2>3, <2>4, MailTesterAssumption
<1>. HIDE DEF tog
<1>. QED
  BY <1>1, <1>2, <1>4, <1>7 DEF DailyInv

LEMMA GenerateDaily ==
  ASSUME FInv, DailyInv, NEW a \in Askers, NEW t \in Tokens, Generate(a, t)
  PROVE  DailyInv'
<1>. DEFINE an == ask[a] = "anon"
<1>1. test \in [Tokens -> TestRow] /\ test[t].row = "free" /\ ask[a] # "none" /\ mtHist' = mtHist
  BY DEF FInv, IInv, MtType, Generate
<1>2. /\ test' = [test EXCEPT ![t] = [NoTest EXCEPT !.row = "waiting", !.anon = an]]
      /\ ask' = [ask EXCEPT ![a] = "none"]
  BY DEF Generate
<1>3. an \in BOOLEAN
  BY Zenon
<1>4. /\ \A s \in Tokens \ {t} : test'[s] = test[s]
      /\ test'[t].row = "waiting" /\ test'[t].aged = FALSE /\ test'[t].anon = an
  <2>. HIDE DEF an
  <2>. QED
    BY <1>1, <1>2, <1>3 DEF NoTest
<1>5. Today' = Today \cup {t} /\ t \notin Today
  BY <1>1, <1>4 DEF Today, Exists
<1>6. Anonymous' = IF an THEN Anonymous \cup {t} ELSE Anonymous
  <2>1. \A s \in Tokens \ {t} : s \in Anonymous' <=> s \in Anonymous
    BY <1>4, <1>5 DEF Anonymous
  <2>2. t \in Anonymous' <=> an
    <3>. HIDE DEF an
    <3>. QED
      BY <1>3, <1>4, <1>5 DEF Anonymous
  <2>3. t \notin Anonymous /\ Anonymous \subseteq Tokens /\ Anonymous' \subseteq Tokens
    BY <1>5 DEF Anonymous, Today
  <2>. HIDE DEF an
  <2>. QED
    BY <2>1, <2>2, <2>3
<1>7. t \notin Anonymous /\ IsFiniteSet(Anonymous) /\ Cardinality(Anonymous) \in Nat
  BY <1>5, AnonymousIs DEF Anonymous, DailyInv
<1>8. /\ IsFiniteSet(Today')
      /\ Cardinality(Anonymous') = IF an THEN Cardinality(Anonymous) + 1 ELSE Cardinality(Anonymous)
  <2>. HIDE DEF an
  <2>1. IsFiniteSet(Today \cup {t})
    BY FS_AddElement DEF DailyInv
  <2>2. Cardinality(Anonymous \cup {t}) = Cardinality(Anonymous) + 1
    BY <1>7, FS_AddElement
  <2>. QED
    BY <1>5, <1>6, <2>1, <2>2
<1>9. ask' \in [Askers -> {"none", "user", "anon"}]
  BY <1>2 DEF DailyInv
<1>10. ASSUME ~mtHist.together
       PROVE  /\ \A b \in Askers : ask'[b] = "none"
              /\ Cardinality(Anonymous') <= DayLimit
  <2>1. /\ \A b, c \in Askers : ask[b] # "none" /\ ask[c] # "none" => b = c
        /\ Cardinality(Anonymous) <= DayLimit
        /\ an => Cardinality(Anonymous) < DayLimit
    BY <1>10 DEF DailyInv
  <2>2. \A b \in Askers : ask'[b] = "none"
    BY <1>1, <1>2, <2>1 DEF DailyInv
  <2>. HIDE DEF an
  <2>3. Cardinality(Anonymous') <= DayLimit
    BY <1>7, <1>8, <2>1, MailTesterAssumption
  <2>. QED
    BY <2>2, <2>3
<1>. QED
  BY <1>1, <1>8, <1>9, <1>10 DEF DailyInv

\* A step of a poll may settle a test or let it expire, no more.
LEMMA TestsDaily ==
  ASSUME FInv, NEW p \in Polls, StoreScore(p) \/ Expire(p)
  PROVE  Today' \subseteq Today /\ \A t \in Today' : test'[t].anon = test[t].anon
<1>1. test \in [Tokens -> TestRow]
  BY DEF FInv, IInv, MtType
<1>2. CASE StoreScore(p)
  <2>. DEFINE t == poll[p].token
              m == poll[p].uid
  <2>1. \/ test' = test
        \/ Exists(t) /\ test' = [test EXCEPT ![t].row = "received", ![t].mail = m]
    BY <1>2 DEF StoreScore
  <2>. HIDE DEF m
  <2>2. \A s \in Tokens : \/ test'[s] = test[s]
                          \/ Exists(s) /\ test'[s].aged = test[s].aged /\ test'[s].anon = test[s].anon
    BY <1>1, <2>1 DEF TestRow
  <2>. QED
    BY <2>2 DEF Today, Exists
<1>3. CASE Expire(p)
  <2>1. \A s \in Tokens : test'[s] = test[s] \/ test'[s].row = "gone"
    BY <1>3 DEF Expire, NoTest
  <2>. QED
    BY <2>1 DEF Today, Exists
<1>. QED
  BY <1>2, <1>3

LEMMA DailyNext ==
  ASSUME FInv, DailyInv, [MailNext]_<<leadVars, mtVars>>
  PROVE  DailyInv'
<1>1. ASSUME UNCHANGED <<test, ask>>, mtHist'.together = mtHist.together PROVE DailyInv'
  BY <1>1, NoMoreToday DEF Today, Exists
<1>2. ASSUME UNCHANGED mtVars PROVE DailyInv'
  BY <1>1, <1>2 DEF mtVars
<1>3. ASSUME NEW p \in Polls, \/ StartPoll(p) \/ NextMail(p) \/ Flag(p)
                              \/ MirrorFind(p) \/ MirrorSave(p) \/ Drop(p)
      PROVE  DailyInv'
  <2>1. UNCHANGED <<test, ask>>
    BY <1>3 DEF StartPoll, NextMail, Flag, MirrorFind, MirrorSave, Drop
  <2>2. Fault(mtHist) \/ mtHist' = mtHist
    BY <1>3, Zenon DEF StartPoll, NextMail, Flag, MirrorFind, MirrorSave, Drop
  <2>3. mtHist'.together = mtHist.together
    BY <2>2, FaultKeeps DEF FInv
  <2>. QED
    BY <1>1, <2>1, <2>3
<1>4. ASSUME NEW p \in Polls, StoreScore(p) \/ Expire(p) PROVE DailyInv'
  <2>1. ask' = ask /\ mtHist' = mtHist
    BY <1>4 DEF StoreScore, Expire
  <2>. QED
    BY <1>4, <2>1, TestsDaily, NoMoreToday
<1>5. ASSUME NEW t \in Tokens, Age(t) PROVE DailyInv'
  <2>1. ask' = ask /\ mtHist' = mtHist /\ test' = [test EXCEPT ![t].aged = TRUE]
    BY <1>5 DEF Age
  <2>2. \A s \in Tokens : test'[s].row = test[s].row /\ test'[s].anon = test[s].anon
                          /\ (~test'[s].aged => ~test[s].aged)
    BY <2>1 DEF FInv, IInv, MtType, TestRow
  <2>3. Today' \subseteq Today /\ \A s \in Today' : test'[s].anon = test[s].anon
    BY <2>2 DEF Today, Exists
  <2>. QED
    BY <2>1, <2>3, NoMoreToday
<1>6. ASSUME Arrive \/ Crash PROVE DailyInv'
  <2>1. test' = test /\ Today' = Today
    BY <1>6 DEF Arrive, Crash, Today, Exists
  <2>2. ask' = ask \/ ask' = [a \in Askers |-> "none"]
    BY <1>6 DEF Arrive, Crash
  <2>3. mtHist'.together = mtHist.together
    <3>1. CASE Arrive
      BY <3>1 DEF Arrive
    <3>2. CASE Crash
      <4>. DEFINE lost == mtHist.lost \cup {poll[p].token : p \in {x \in Polls : Working(x)}}
      <4>1. mtHist' = [[mtHist EXCEPT !.lost = lost] EXCEPT !.faults = mtHist.faults + 1]
        BY <3>2, Zenon DEF Crash, Fault
      <4>. HIDE DEF lost
      <4>. QED
        BY <4>1 DEF FInv, HistRow
    <3>. QED
      BY <1>6, <3>1, <3>2
  <2>. QED
    BY <2>1, <2>2, <2>3, NoMoreToday
<1>7. ASSUME NEW r \in Requests, Unlock(r) \/ \E t \in Tokens, k \in Keys : OpenUnlock(r, t, k)
      PROVE  DailyInv'
  BY <1>2, <1>7 DEF Unlock, OpenUnlock
<1>8. ASSUME MailStep(Askers, Polls, Tokens, Requests, Keys) PROVE DailyInv'
  BY <1>3, <1>4, <1>5, <1>6, <1>7, <1>8, AskDaily, GenerateDaily DEF MailStep
<1>. QED
  BY <1>2, <1>8 DEF MailNext

LEMMA DailyHolds ==
  ASSUME DailyInv
  PROVE  DailyLimit
<1>. SUFFICES ASSUME ~mtHist.together, \A t \in Today : test[t].anon
              PROVE  Cardinality(Today) <= DayLimit
  BY DEF DailyLimit
<1>1. Anonymous = Today
  BY DEF Anonymous
<1>. QED
  BY <1>1 DEF DailyInv

LEMMA FirstState ==
  ASSUME LeadInit, MailInit
  PROVE  FInv /\ DailyInv
<1>1. LeadInv
  BY NoReqGood DEF LeadInit, LeadInv, GoodLead, NoRow
<1>2. mtHist = [lost |-> {}, faults |-> 0, together |-> FALSE]
  BY DEF MailInit, MailInitWith
<1>3. FiledInv
  BY DEF FiledInv, PollFiled, Working, ScoredIsFiled, MailInit, MailInitWith, NoPoll, NoTest
<1>4. Today = {}
  BY DEF Today, Exists, MailInit, MailInitWith, NoTest
<1>5. Anonymous = {}
  BY <1>4 DEF Anonymous
<1>6. DailyInv
  BY <1>4, <1>5, FS_EmptySet, MailTesterAssumption DEF DailyInv, MailInit, MailInitWith
<1>. QED
  BY <1>1, <1>2, <1>3, <1>6, InitInv DEF FInv, HistRow

\* MailTester.TestsAreKept: whoever has had a mail scored is on the list of
\* leads unless the process died in between (mt_worker.py:43-122, 376-390),
\* the first mail decides, and the daily limit (mail_tester.py:80-95) holds
\* for visitors who do not ask at the same moment.
THEOREM TestsAreAlwaysKept == MailSpec => []TestsAreKept
<1>1. LeadInit /\ MailInit => FInv /\ DailyInv
  BY FirstState
<1>2. FInv /\ DailyInv /\ [MailNext]_<<leadVars, mtVars>> => FInv' /\ DailyInv'
  BY FiledNext, DailyNext
<1>3. FInv /\ DailyInv => ScoredIsFiled /\ DailyLimit
  BY DailyHolds DEF FInv, FiledInv
<1>4. MailSpec => [](FInv /\ DailyInv)
  BY <1>1, <1>2, PTL DEF MailSpec
<1>5. ScoredIsFiled /\ DailyLimit /\ FirstMailDecides => TestsAreKept
  BY DEF TestsAreKept
<1>. QED
  BY <1>3, <1>4, <1>5, FirstMailAlwaysDecides, PTL

----------------------------------------------------------------------------
(* Leads stay whole, whoever writes them: what an operator's request has   *)
(* read is what it counts on, as long as its row is there and nobody else  *)
(* has written it while a form was awaited; one update at a time holds the *)
(* event loop, so that what it has read is still in the table.             *)

OfOperator(q) == q.kind \in {"pipeline", "update"}

SameColumns(a, b) ==
  /\ a.stage = b.stage /\ a.contacted = b.contacted /\ a.converted = b.converted
  /\ a.reminder = b.reminder /\ a.followups = b.followups

RowCounted(k) ==
  /\ incs[k] \in Nat
  /\ ~lead[k].live => incs[k] = 0
  /\ lead[k].live => lead[k].followups <= incs[k] /\ (k \notin raced => lead[k].followups = incs[k])

\* What a request of an operator has read of key k.
Copied(k, q) ==
  /\ q.old[k].id <= lead[k].id
  /\ lead[k].live /\ q.old[k].id = lead[k].id =>
       /\ q.old[k].followups <= incs[k]
       /\ q.kind = "pipeline" /\ k \notin raced => q.old[k].followups = incs[k]
       /\ q.kind = "update" => SameColumns(q.old[k], lead[k])

ReadInv(q) ==
  OfOperator(q) => \E k \in Keys : /\ q.ks = <<k>> /\ Copied(k, q)
                                   /\ (q.kind = "pipeline" <=> q.phase = "form")

OnLoop(q) == q.kind \notin {"none", "stream"} /\ q.phase # "form"
OneOnLoop == \A r, o \in Requests : OnLoop(req[r]) /\ OnLoop(req[o]) => r = o

CountInv ==
  /\ DOMAIN incs = Keys /\ \A k \in Keys : RowCounted(k)
  /\ \A r \in Requests : ReadInv(req[r])
  /\ OneOnLoop /\ ListedOnce

\* What no step may do to the columns of another writer, and what a batch does.
ColumnStep ==
  \A k \in Keys : lead[k].live /\ lead'[k].live /\ lead'[k].id = lead[k].id =>
    IF OperatorSaves THEN lead'[k].grade = lead[k].grade
    ELSE \A c \in OperatorColumns : lead'[k][c] = lead[k][c]
WholeStep ==
  \A r \in Requests : req[r].kind = "batch" /\ req[r].phase = "save" /\ req'[r] = NoReq =>
    \/ lead' = lead
    \/ \E g \in Grades : \A i \in DOMAIN req[r].ks :
         LET k == req[r].ks[i] IN ~req[r].old[k].live => lead'[k].grade = g
Whole == CountInv' /\ ColumnStep /\ WholeStep

LEMMA LoopIsFree == LoopFree <=> \A r \in Requests : ~OnLoop(req[r])
BY DEF LoopFree, OnLoop

\* The event loop changes hands only when it is free.
LEMMA LoopKept ==
  ASSUME OneOnLoop, \A r \in Requests : OnLoop(req'[r]) => OnLoop(req[r])
  PROVE  OneOnLoop'
BY DEF OneOnLoop, OnLoop

LEMMA LoopTaken ==
  ASSUME LoopFree, NEW r \in Requests, \A o \in Requests \ {r} : req'[o] = req[o]
  PROVE  OneOnLoop'
BY LoopIsFree DEF OneOnLoop, OnLoop

\* A step that leaves the table alone: requests come and go.
LEMMA QuietWhole ==
  ASSUME CountInv, UNCHANGED <<lead, incs, moved, raced>>, OneOnLoop',
         \A r \in Requests : req'[r] = req[r] \/ ReadInv(req'[r])
  PROVE  Whole
<1>1. \A k \in Keys : RowCounted(k)'
  BY DEF CountInv, RowCounted
<1>2. ASSUME NEW r \in Requests PROVE ReadInv(req[r])'
  <2>. DEFINE q == req'[r]
  <2>1. ReadInv(q)
    BY DEF CountInv
  <2>. QED
    BY <2>1 DEF ReadInv, Copied
<1>3. ListedOnce'
  BY DEF CountInv, ListedOnce, OpenLeads, ConvertedLeads
<1>4. CountInv'
  BY <1>1, <1>2, <1>3 DEF CountInv
<1>5. ColumnStep /\ WholeStep
  BY DEF ColumnStep, WholeStep
<1>. QED
  BY <1>4, <1>5 DEF Whole

\* A row that a visitor, a crawl, a batch or a mail has written, or added.
KeptRow(a, b) == b.id = a.id /\ b.live = a.live /\ SameColumns(b, a)
AddedRow(a, b) == /\ ~a.live /\ b.live /\ b.id = a.id + 1
                  /\ b.followups = 0 /\ ~b.contacted /\ ~b.converted

LEMMA VisitorRow ==
  ASSUME LeadInv, NEW k \in Keys, NEW old \in LeadRow, NEW g \in Grades \cup {"none"},
         ~Fails(k, old, Upsert(k, old, g))
  PROVE  /\ \/ KeptRow(lead[k], Saved(k, old, Upsert(k, old, g)))
            \/ AddedRow(lead[k], Saved(k, old, Upsert(k, old, g)))
         /\ ~old.live => Saved(k, old, Upsert(k, old, g)).grade = g
<1>. DEFINE new == Upsert(k, old, g)
            row == Saved(k, old, new)
<1>1. CASE old.live
  <2>1. new = [old EXCEPT !.grade = IF g = "none" THEN @ ELSE g]
    BY <1>1 DEF Upsert, Regraded
  <2>2. /\ DOMAIN new = DOMAIN old
        /\ DOMAIN old = {"id", "live", "grade", "stage", "contacted", "converted", "reminder", "followups"}
        /\ \A c \in DOMAIN old \ {"grade"} : new[c] = old[c]
    BY <2>1 DEF LeadRow
  <2>3. row = [c \in DOMAIN new |-> IF new[c] # old[c] THEN new[c] ELSE lead[k][c]]
    BY <1>1 DEF Saved
  <2>. HIDE DEF new
  <2>4. \A c \in DOMAIN old \ {"grade"} : row[c] = lead[k][c]
    BY <2>2, <2>3
  <2>. HIDE DEF row
  <2>5. KeptRow(lead[k], row)
    BY <2>2, <2>4 DEF KeptRow, SameColumns
  <2>. QED
    BY <1>1, <2>5 DEF row, new
<1>2. CASE ~old.live
  <2>1. new = [NoRow EXCEPT !.id = lead[k].id + 1, !.live = TRUE, !.grade = g] /\ row = new
    BY <1>2 DEF Upsert, NewRow, Saved
  <2>2. ~lead[k].live
    BY <1>2 DEF Fails
  <2>3. /\ new.id = lead[k].id + 1 /\ new.live /\ new.followups = 0
        /\ ~new.contacted /\ ~new.converted /\ new.grade = g
    BY <2>1 DEF NoRow
  <2>. HIDE DEF new, row
  <2>4. AddedRow(lead[k], row)
    BY <2>1, <2>2, <2>3 DEF AddedRow
  <2>. QED
    BY <2>1, <2>3, <2>4 DEF row, new
<1>. QED
  BY <1>1, <1>2

VisitorStep ==
  /\ UNCHANGED <<incs, moved>> /\ raced \subseteq raced'
  /\ \A k \in Keys : KeptRow(lead[k], lead'[k]) \/ AddedRow(lead[k], lead'[k])

LEMMA VisitorWhole ==
  ASSUME LeadInv, CountInv, VisitorStep, OneOnLoop', WholeStep,
         \A r \in Requests : req'[r] = req[r] \/ ~(OfOperator(req[r]) \/ OfOperator(req'[r]))
  PROVE  Whole
<1>. USE DEF VisitorStep
<1>1. \A k \in Keys : lead[k].id \in Nat /\ lead[k].live \in BOOLEAN
  BY DEF LeadInv, GoodLead, LeadRow
<1>2. ASSUME NEW k \in Keys PROVE RowCounted(k)'
  <2>1. RowCounted(k)
    BY DEF CountInv
  <2>2. CASE KeptRow(lead[k], lead'[k])
    BY <2>1, <2>2 DEF RowCounted, KeptRow, SameColumns
  <2>3. CASE AddedRow(lead[k], lead'[k])
    BY <2>1, <2>3 DEF RowCounted, AddedRow
  <2>. QED
    BY <2>2, <2>3
<1>3. ASSUME NEW r \in Requests, OfOperator(req'[r]) PROVE ReadInv(req[r])'
  <2>. PICK q : q = req[r]
    OBVIOUS
  <2>1. req'[r] = q /\ ReadInv(q) /\ OfOperator(q)
    BY <1>3 DEF CountInv
  <2>2. PICK k \in Keys : q.ks = <<k>> /\ Copied(k, q) /\ (q.kind = "pipeline" <=> q.phase = "form")
    BY <2>1 DEF ReadInv
  <2>3. q.old[k].id \in Nat
    BY DEF LeadInv, GoodReq, ReqRow, LeadRow
  <2>4. Copied(k, q)'
    <3>1. CASE KeptRow(lead[k], lead'[k])
      BY <2>2, <3>1 DEF Copied, KeptRow, SameColumns
    <3>2. CASE AddedRow(lead[k], lead'[k])
      BY <1>1, <2>2, <2>3, <3>2 DEF Copied, AddedRow
    <3>. QED
      BY <3>1, <3>2
  <2>. QED
    BY <2>1, <2>2, <2>4 DEF ReadInv, OfOperator
<1>4. ListedOnce'
  BY DEF CountInv, ListedOnce, OpenLeads, ConvertedLeads, KeptRow, AddedRow, SameColumns
<1>5. CountInv'
  BY <1>2, <1>3, <1>4 DEF CountInv, ReadInv
<1>6. ~OperatorSaves
  BY DEF OperatorSaves, OfOperator
<1>7. ColumnStep
  <2>. SUFFICES ASSUME NEW k \in Keys, lead[k].live, lead'[k].live, lead'[k].id = lead[k].id
                PROVE  \A c \in OperatorColumns : lead'[k][c] = lead[k][c]
    BY <1>6 DEF ColumnStep
  <2>1. KeptRow(lead[k], lead'[k])
    BY DEF AddedRow
  <2>. QED
    BY <2>1 DEF KeptRow, SameColumns, OperatorColumns
<1>. QED
  BY <1>5, <1>7 DEF Whole

\* Which request was written: all others are as they were.
LEMMA ReqWas ==
  ASSUME LeadInv, NEW r \in Requests, NEW q, req' = [req EXCEPT ![r] = q]
  PROVE  req'[r] = q /\ \A o \in Requests \ {r} : req'[o] = req[o]
BY DEF LeadInv

LEMMA BeginWhole ==
  ASSUME LeadInv, CountInv, NEW r \in Requests, NEW kind \in {"snapshot", "batch", "rerun", "stream"},
         NEW ks, Begin(r, kind, ks), kind = "stream" \/ LoopFree
  PROVE  Whole
<1>. DEFINE q == [NoReq EXCEPT !.kind = kind, !.ks = ks]
<1>1. req' = [req EXCEPT ![r] = q] /\ UNCHANGED <<lead, incs, moved, raced>>
  BY DEF Begin
<1>2. q.kind = kind
  BY DEF NoReq
<1>. HIDE DEF q
<1>3. req'[r] = q /\ \A o \in Requests \ {r} : req'[o] = req[o]
  BY <1>1, ReqWas
<1>4. OneOnLoop'
  <2>1. CASE kind = "stream"
    BY <1>2, <1>3, <2>1, LoopKept DEF OnLoop, CountInv
  <2>2. CASE LoopFree
    BY <1>3, <2>2, LoopTaken
  <2>. QED
    BY <2>1, <2>2
<1>5. ReadInv(q)
  BY <1>2 DEF ReadInv, OfOperator
<1>. QED
  BY <1>1, <1>3, <1>4, <1>5, QuietWhole

\* A request that goes on, or ends, with its kind.
LEMMA GoesOn ==
  ASSUME LeadInv, CountInv, NEW r \in Requests, NEW q, req' = [req EXCEPT ![r] = q],
         ~OfOperator(q), OnLoop(q) => OnLoop(req[r]), UNCHANGED <<lead, incs, moved, raced>>
  PROVE  Whole
<1>1. req'[r] = q /\ \A o \in Requests \ {r} : req'[o] = req[o]
  BY ReqWas
<1>2. OneOnLoop'
  BY <1>1, LoopKept DEF CountInv
<1>3. ReadInv(q)
  BY DEF ReadInv
<1>. QED
  BY <1>1, <1>2, <1>3, QuietWhole

LEMMA FindWhole ==
  ASSUME LeadInv, CountInv, NEW r \in Requests, Find(r)
  PROVE  Whole
<1>1. GoodReq(req[r]) /\ req[r] \in ReqRow /\ req[r].kind # "none" /\ req[r].phase = "find"
  BY DEF LeadInv, GoodReq, Find
<1>2. PICK q : /\ req' = [req EXCEPT ![r] = q]
               /\ q = NoReq \/ q.kind = req[r].kind
  <2>. DEFINE w == req[r]
              k == w.ks[w.n + 1]
              again == \E i \in 1..w.n : w.ks[i] = k
              last == w.n + 1 = Len(w.ks)
              next == [w EXCEPT !.n = @ + 1, !.old[k] = IF again THEN @ ELSE lead[k],
                         !.phase = IF w.kind = "stream" \/ last THEN "save" ELSE "find"]
              rest == SubSeq(w.ks, 1, w.n) \o SubSeq(w.ks, w.n + 2, Len(w.ks))
              less == [w EXCEPT !.ks = rest, !.phase = IF last THEN "save" ELSE "find"]
  <2>1. \/ req' = [req EXCEPT ![r] = next]
        \/ req' = [req EXCEPT ![r] = IF rest = <<>> THEN NoReq ELSE less]
    BY DEF Find
  <2>2. next.kind = w.kind /\ less.kind = w.kind
    BY <1>1 DEF ReqRow
  <2>. HIDE DEF next, less, rest, w
  <2>. QED
    BY <2>1, <2>2 DEF w
<1>3. ~OfOperator(req[r])
  BY <1>1 DEF GoodReq, OfOperator
<1>4. ~OfOperator(q) /\ (OnLoop(q) => OnLoop(req[r]))
  BY <1>1, <1>2, <1>3 DEF OfOperator, OnLoop, NoReq
<1>5. UNCHANGED <<lead, incs, moved, raced>>
  BY DEF Find
<1>. QED
  BY <1>2, <1>4, <1>5, GoesOn

\* Only the end of a batch itself is the end of a batch.
LEMMA OthersGoOn ==
  ASSUME NEW r \in Requests, req[r].kind # "batch" \/ req[r].phase # "save",
         \A o \in Requests \ {r} : req'[o] = req[o]
  PROVE  WholeStep
BY DEF WholeStep, NoReq

LEMMA CommitWhole ==
  ASSUME LeadInv, CountInv, NEW r \in Requests, Commit(r)
  PROVE  Whole
<1>. DEFINE q == req[r]
            ks == IF q.kind = "stream" THEN {q.ks[q.n]} ELSE {q.ks[i] : i \in DOMAIN q.ks}
            G == Grades \cup (IF q.kind \in {"rerun", "stream"} THEN {"none"} ELSE {})
            new == IF q.n < Len(q.ks) THEN [q EXCEPT !.phase = "find"] ELSE NoReq
<1>1. /\ GoodReq(q) /\ q \in ReqRow /\ q.phase = "save" /\ q.old \in [Keys -> LeadRow]
      /\ q.kind \in {"snapshot", "batch", "rerun", "stream", "unlock"}
  BY DEF LeadInv, GoodReq, ReqRow, Commit
<1>2. PICK g \in G : lead' = Written(ks, q, g)
  BY DEF Commit
<1>3. req' = [req EXCEPT ![r] = new] /\ UNCHANGED <<incs, moved>> /\ raced \subseteq raced'
  BY DEF Commit
<1>4. new = NoReq \/ new.kind = q.kind
  BY <1>1 DEF ReqRow
<1>5. \/ lead' = lead
      \/ /\ lead' = [k \in Keys |-> IF k \in ks THEN Saved(k, q.old[k], Upsert(k, q.old[k], g)) ELSE lead[k]]
         /\ \A k \in ks : ~Fails(k, q.old[k], Upsert(k, q.old[k], g))
  <2>. HIDE DEF q, ks
  <2>. QED
    BY <1>2 DEF Written
<1>6. ks \subseteq Keys
  <2>1. \A i \in DOMAIN q.ks : q.ks[i] \in Keys
    BY <1>1 DEF ReqRow
  <2>2. q.kind = "stream" => q.n \in DOMAIN q.ks
    BY <1>1 DEF GoodReq, ReqRow
  <2>. QED
    BY <2>1, <2>2
<1>7. q.kind = "batch" => g \in Grades /\ ks = {q.ks[i] : i \in DOMAIN q.ks}
  OBVIOUS
<1>8. g \in Grades \cup {"none"}
  OBVIOUS
<1>. HIDE DEF new, ks, G
<1>9. req'[r] = new /\ \A o \in Requests \ {r} : req'[o] = req[o]
  BY <1>3, ReqWas
<1>. HIDE DEF q
<1>10. ASSUME NEW k \in ks, ~Fails(k, q.old[k], Upsert(k, q.old[k], g)),
              lead' = [j \in Keys |-> IF j \in ks THEN Saved(j, q.old[j], Upsert(j, q.old[j], g)) ELSE lead[j]]
       PROVE  /\ KeptRow(lead[k], lead'[k]) \/ AddedRow(lead[k], lead'[k])
              /\ ~q.old[k].live => lead'[k].grade = g
  <2>1. k \in Keys /\ q.old[k] \in LeadRow /\ lead'[k] = Saved(k, q.old[k], Upsert(k, q.old[k], g))
    BY <1>1, <1>6, <1>10
  <2>. QED
    BY <1>8, <1>10, <2>1, VisitorRow
<1>11. \A k \in Keys : KeptRow(lead[k], lead'[k]) \/ AddedRow(lead[k], lead'[k])
  <2>1. \A k \in Keys : KeptRow(lead[k], lead[k])
    BY DEF KeptRow, SameColumns
  <2>2. CASE lead' = lead
    BY <2>1, <2>2
  <2>3. CASE lead' # lead
    <3>1. \A k \in Keys \ ks : lead'[k] = lead[k]
      BY <1>5, <2>3
    <3>. QED
      BY <1>5, <1>10, <2>1, <2>3, <3>1
  <2>. QED
    BY <2>2, <2>3
<1>12. WholeStep
  <2>1. ASSUME NEW o \in Requests, req[o].kind = "batch", req[o].phase = "save", req'[o] = NoReq, lead' # lead
        PROVE  \A i \in DOMAIN req[o].ks :
                 LET k == req[o].ks[i] IN ~req[o].old[k].live => lead'[k].grade = g
    <3>1. o = r
      BY <1>9, <2>1 DEF NoReq
    <3>2. req[o] = q
      BY <3>1 DEF q
    <3>3. \A i \in DOMAIN q.ks : q.ks[i] \in ks
      BY <1>7, <2>1, <3>2
    <3>. QED
      BY <1>5, <1>10, <2>1, <3>2, <3>3
  <2>2. \A o \in Requests : req[o].kind = "batch" /\ req[o].phase = "save" /\ req'[o] = NoReq => g \in Grades
    <3>1. \A o \in Requests : req[o].kind = "batch" /\ req'[o] = NoReq => o = r
      BY <1>9 DEF NoReq
    <3>. QED
      BY <1>7, <3>1 DEF q
  <2>. QED
    BY <2>1, <2>2 DEF WholeStep
<1>13. OneOnLoop'
  <2>1. OnLoop(new) => OnLoop(q)
    BY <1>1, <1>4 DEF OnLoop, NoReq
  <2>. QED
    BY <1>9, <2>1, LoopKept DEF CountInv, q
<1>14. ~OfOperator(q) /\ ~OfOperator(new)
  BY <1>1, <1>4 DEF OfOperator, NoReq
<1>. QED
  BY <1>3, <1>9, <1>11, <1>12, <1>13, <1>14, VisitorWhole DEF VisitorStep, q

\* An operator opens a form, or begins an update.
LEMMA OpenWhole ==
  ASSUME LeadInv, CountInv, NEW r \in Requests, NEW k \in Keys, OpenPipeline(r, k) \/ OpenUpdate(r, k)
  PROVE  Whole
<1>. DEFINE old == [NoReq.old EXCEPT ![k] = lead[k]]
            q(kind, ph) == [NoReq EXCEPT !.kind = kind, !.phase = ph, !.ks = <<k>>, !.old = old]
<1>1. LoopFree /\ UNCHANGED <<lead, incs, moved, raced>>
  BY DEF OpenPipeline, OpenUpdate
<1>2. old[k] = lead[k]
  BY DEF NoReq
<1>3. PICK kind \in {"pipeline", "update"}, ph \in {"form", "save"} :
        req' = [req EXCEPT ![r] = q(kind, ph)] /\ (kind = "pipeline" <=> ph = "form")
  BY DEF OpenPipeline, OpenUpdate, NoReq
<1>. HIDE DEF old
<1>4. /\ q(kind, ph).kind = kind /\ q(kind, ph).phase = ph /\ q(kind, ph).ks = <<k>>
      /\ q(kind, ph).old = old
  BY DEF NoReq
<1>. HIDE DEF q
<1>5. req'[r] = q(kind, ph) /\ \A o \in Requests \ {r} : req'[o] = req[o]
  BY <1>3, ReqWas
<1>6. RowCounted(k) /\ lead[k].id \in Nat
  BY DEF CountInv, LeadInv, GoodLead, LeadRow
<1>7. Copied(k, q(kind, ph))
  BY <1>2, <1>4, <1>6 DEF Copied, RowCounted, SameColumns
<1>8. ReadInv(q(kind, ph))
  BY <1>3, <1>4, <1>7 DEF ReadInv
<1>9. OneOnLoop'
  BY <1>1, <1>5, LoopTaken
<1>. QED
  BY <1>1, <1>5, <1>8, <1>9, QuietWhole

\* What the operator's commit makes of the row: the columns that the form has
\* changed, over those in the table.
Put(a, b, c) == IF b # a THEN b ELSE c
PutRow(row, old, new, now) ==
  /\ row.id = now.id /\ row.live = now.live /\ row.grade = now.grade
  /\ row.stage = Put(old.stage, new.stage, now.stage)
  /\ row.contacted = Put(old.contacted, new.contacted, now.contacted)
  /\ row.converted = Put(old.converted, new.converted, now.converted)
  /\ row.reminder = Put(old.reminder, new.reminder, now.reminder)
  /\ row.followups = Put(old.followups, new.followups, now.followups)

Operated(k, old, new, inc) ==
  /\ \A j \in Keys \ {k} : lead'[j] = lead[j] /\ incs'[j] = incs[j]
  /\ \/ /\ PutRow(lead'[k], old, new, lead[k])
        /\ new = old \/ (lead[k].live /\ lead[k].id = old.id)
        /\ incs' = [incs EXCEPT ![k] = IF inc THEN @ + 1 ELSE @]
     \/ lead'[k] = lead[k] /\ incs' = [incs EXCEPT ![k] = @]

LEMMA OperatedRow ==
  ASSUME LeadInv, NEW r \in Requests, NEW k \in Keys, NEW old \in LeadRow, NEW new \in LeadRow,
         NEW inc, old = req[r].old[k], old.live, Operate(r, k, new, inc),
         new.id = old.id, new.live = old.live, new.grade = old.grade
  PROVE  Operated(k, old, new, inc)
<1>. DEFINE ok == ~Fails(k, old, new)
            row == Saved(k, old, new)
<1>1. /\ lead' = [lead EXCEPT ![k] = IF ok THEN row ELSE lead[k]]
      /\ incs' = [incs EXCEPT ![k] = IF inc /\ ok THEN incs[k] + 1 ELSE incs[k]]
  BY Zenon DEF Operate
<1>2. /\ DOMAIN new = {"id", "live", "grade", "stage", "contacted", "converted", "reminder", "followups"}
      /\ row = [c \in DOMAIN new |-> IF new[c] # old[c] THEN new[c] ELSE lead[k][c]]
  BY DEF LeadRow, Saved
<1>3. PutRow(row, old, new, lead[k])
  <2>. HIDE DEF row
  <2>1. \A c \in DOMAIN new : row[c] = Put(old[c], new[c], lead[k][c])
    BY <1>2 DEF Put
  <2>2. row.id = lead[k].id /\ row.live = lead[k].live /\ row.grade = lead[k].grade
    BY <1>2, <2>1 DEF Put
  <2>. QED
    BY <1>2, <2>1, <2>2 DEF PutRow
<1>4. ok => new = old \/ (lead[k].live /\ lead[k].id = old.id)
  BY DEF Fails
<1>. HIDE DEF ok, row
<1>5. \A j \in Keys \ {k} : lead'[j] = lead[j] /\ incs'[j] = incs[j]
  BY <1>1 DEF LeadInv
<1>6. lead'[k] = IF ok THEN row ELSE lead[k]
  BY <1>1 DEF LeadInv
<1>7. CASE ok
  BY <1>1, <1>3, <1>4, <1>5, <1>6, <1>7 DEF Operated
<1>8. CASE ~ok
  BY <1>1, <1>5, <1>6, <1>8 DEF Operated
<1>. QED
  BY <1>7, <1>8

\* The commit of an operator's request about k ends it.  The others that wait
\* for a form about k find the key in raced, and no other update is under way.
LEMMA OperatorWhole ==
  ASSUME LeadInv, CountInv, NEW r \in Requests, OfOperator(req[r]), NEW k \in Keys,
         req' = [req EXCEPT ![r] = NoReq], DOMAIN incs' = Keys, moved \subseteq moved',
         \A j \in Keys \ {k} : lead'[j] = lead[j] /\ incs'[j] = incs[j] /\ (j \in raced => j \in raced'),
         RowCounted(k)', incs[k] <= incs'[k] \/ ~lead'[k].live,
         lead'[k].id = lead[k].id, lead'[k].live => lead[k].live /\ lead'[k].grade = lead[k].grade,
         lead'[k].live /\ ~lead'[k].contacted /\ lead'[k].converted => k \in moved',
         \A o \in Requests \ {r} :
           /\ req[o].kind # "update"
           /\ req[o].ks = <<k>> /\ req[o].kind = "pipeline" => k \in raced' \/ ~lead'[k].live
  PROVE  Whole
<1>1. req'[r] = NoReq /\ \A o \in Requests \ {r} : req'[o] = req[o]
  BY ReqWas
<1>2. ASSUME NEW j \in Keys PROVE RowCounted(j)'
  BY DEF CountInv, RowCounted
<1>3. ASSUME NEW o \in Requests, OfOperator(req'[o]) PROVE ReadInv(req[o])'
  <2>1. o # r
    BY <1>1, <1>3 DEF OfOperator, NoReq
  <2>. PICK q : q = req[o]
    OBVIOUS
  <2>2. req'[o] = q /\ ReadInv(q) /\ OfOperator(q) /\ q.kind = "pipeline"
    BY <1>1, <1>3, <2>1 DEF CountInv, OfOperator
  <2>3. PICK j \in Keys : q.ks = <<j>> /\ Copied(j, q) /\ q.phase = "form"
    BY <2>2 DEF ReadInv
  <2>4. CASE j # k
    <3>1. Copied(j, q)'
      BY <2>3, <2>4 DEF Copied, SameColumns
    <3>. QED
      BY <2>2, <2>3, <3>1 DEF ReadInv
  <2>5. CASE j = k
    <3>1. k \in raced' \/ ~lead'[k].live
      BY <2>1, <2>2, <2>3, <2>5
    <3>2. q.old[k].followups \in Nat /\ incs[k] \in Nat /\ (incs'[k] \in Nat)
      BY <1>2 DEF LeadInv, GoodReq, ReqRow, LeadRow, CountInv, RowCounted
    <3>3. Copied(k, q)'
      BY <2>2, <2>3, <2>5, <3>1, <3>2 DEF Copied
    <3>. QED
      BY <2>2, <2>3, <2>5, <3>3 DEF ReadInv
  <2>. QED
    BY <2>4, <2>5
<1>4. ListedOnce'
  BY DEF CountInv, ListedOnce, OpenLeads, ConvertedLeads
<1>5. OneOnLoop'
  <2>1. ~OnLoop(NoReq)
    BY DEF OnLoop, NoReq
  <2>. QED
    BY <1>1, <2>1, LoopKept DEF CountInv
<1>6. CountInv'
  BY <1>2, <1>3, <1>4, <1>5 DEF CountInv, ReadInv
<1>7. OperatorSaves
  BY <1>1 DEF OperatorSaves, OfOperator, NoReq
<1>8. ColumnStep
  BY <1>7 DEF ColumnStep
<1>9. WholeStep
  BY <1>1, OthersGoOn DEF OfOperator
<1>. QED
  BY <1>6, <1>8, <1>9 DEF Whole

\* What the pipeline form and the buttons change.
LEMMA MovedColumns ==
  ASSUME NEW old \in LeadRow, NEW stage \in Stages \cup {"keep"}, NEW rem, NEW inc \in BOOLEAN
  PROVE  /\ Moved(old, stage, rem, inc).grade = old.grade
         /\ Moved(old, stage, rem, inc).contacted <=> (old.contacted \/ stage = "contacted")
         /\ Moved(old, stage, rem, inc).converted <=> (old.converted \/ stage = "won")
         /\ inc => Moved(old, stage, rem, inc).followups = old.followups + 1
         /\ ~inc => Moved(old, stage, rem, inc).followups = old.followups
<1>. DEFINE st == IF stage = "keep" THEN old.stage ELSE stage
            co == old.contacted \/ stage = "contacted"
            cv == old.converted \/ stage = "won"
            re == IF rem = "keep" THEN old.reminder ELSE rem = "set"
            fo == IF inc THEN old.followups + 1 ELSE old.followups
<1>1. Moved(old, stage, rem, inc) =
        [old EXCEPT !.stage = st, !.contacted = co, !.converted = cv, !.reminder = re, !.followups = fo]
  BY Zenon DEF Moved
<1>. HIDE DEF st, co, cv, re, fo
<1>2. /\ Moved(old, stage, rem, inc).grade = old.grade /\ Moved(old, stage, rem, inc).contacted = co
      /\ Moved(old, stage, rem, inc).converted = cv /\ Moved(old, stage, rem, inc).followups = fo
  BY <1>1 DEF LeadRow
<1>. QED
  BY <1>2, Zenon DEF co, cv, fo

LEMMA MarkedColumns ==
  ASSUME NEW old \in LeadRow, NEW act
  PROVE  /\ Marked(old, act).grade = old.grade /\ Marked(old, act).followups = old.followups
         /\ Marked(old, act).contacted <=>
              ((old.contacted \/ act \in {"contacted", "converted"}) /\ act # "uncontacted")
         /\ Marked(old, act).converted <=>
              ((old.converted \/ act = "converted") /\ act \notin {"uncontacted", "unconverted"})
<1>. DEFINE co == (old.contacted \/ act \in {"contacted", "converted"}) /\ act # "uncontacted"
            cv == (old.converted \/ act = "converted") /\ act \notin {"uncontacted", "unconverted"}
<1>1. Marked(old, act) = [old EXCEPT !.contacted = co, !.converted = cv]
  BY Zenon DEF Marked
<1>. HIDE DEF co, cv
<1>2. /\ Marked(old, act).grade = old.grade /\ Marked(old, act).followups = old.followups
      /\ Marked(old, act).contacted = co /\ Marked(old, act).converted = cv
  BY <1>1 DEF LeadRow
<1>. QED
  BY <1>2, Zenon DEF co, cv

\* What an operator's request finds when it commits.
LEMMA OperatorHas ==
  ASSUME LeadInv, CountInv, NEW r \in Requests, OfOperator(req[r])
  PROVE  LET k == req[r].ks[1]
         IN  /\ k \in Keys /\ req[r].ks = <<k>> /\ Copied(k, req[r])
             /\ req[r].old[k] \in LeadRow /\ req[r].old[k].live
             /\ lead[k] \in LeadRow /\ RowCounted(k)
             /\ req[r].kind = "pipeline" <=> req[r].phase = "form"
<1>1. PICK k \in Keys : /\ req[r].ks = <<k>> /\ Copied(k, req[r])
                        /\ (req[r].kind = "pipeline" <=> req[r].phase = "form")
  BY DEF CountInv, ReadInv
<1>2. req[r].ks[1] = k
  BY <1>1
<1>3. req[r].old[k] \in LeadRow /\ req[r].old[k].live
  BY <1>2, OperatorKeys DEF OfOperator
<1>4. lead[k] \in LeadRow /\ RowCounted(k)
  BY DEF LeadInv, GoodLead, CountInv
<1>. QED
  BY <1>1, <1>2, <1>3, <1>4

LEMMA SavePipelineWhole ==
  ASSUME LeadInv, CountInv, NEW r \in Requests, SavePipeline(r)
  PROVE  Whole
<1>1. req[r].kind = "pipeline" /\ OfOperator(req[r]) /\ LoopFree /\ req' = [req EXCEPT ![r] = NoReq]
  BY DEF SavePipeline, OfOperator
<1>2. PICK k \in Keys : k = req[r].ks[1]
  BY <1>1, OperatorHas
<1>3. PICK old \in LeadRow : old = req[r].old[k]
  BY <1>1, <1>2, OperatorHas
<1>4. req[r].ks = <<k>> /\ Copied(k, req[r]) /\ old.live /\ lead[k] \in LeadRow /\ RowCounted(k)
  BY <1>1, <1>2, <1>3, OperatorHas
<1>5. PICK stage \in Stages \cup {"keep"}, rem \in {"keep", "set", "clear"}, inc \in BOOLEAN :
        /\ Operate(r, k, Moved(old, stage, rem, inc), inc)
        /\ moved' = moved \cup (IF stage = "won" THEN {k} ELSE {})
        /\ raced' = raced \cup
             {x \in {k} : \E o \in Requests \ {r} : req[o].phase = "form" /\ req[o].ks = <<k>>}
  BY <1>2, <1>3 DEF SavePipeline
<1>6. PICK new \in LeadRow :
        /\ new.id = old.id /\ new.live = old.live /\ new.grade = old.grade
        /\ new.contacted <=> (old.contacted \/ stage = "contacted")
        /\ new.converted <=> (old.converted \/ stage = "won")
        /\ (inc => new.followups = old.followups + 1) /\ (~inc => new.followups = old.followups)
        /\ Operate(r, k, new, inc)
  BY <1>5, MovedRow, MovedColumns
<1>7. /\ \A j \in Keys \ {k} : lead'[j] = lead[j] /\ incs'[j] = incs[j]
      /\ \/ /\ PutRow(lead'[k], old, new, lead[k])
            /\ new = old \/ (lead[k].live /\ lead[k].id = old.id)
            /\ incs' = [incs EXCEPT ![k] = IF inc THEN @ + 1 ELSE @]
         \/ lead'[k] = lead[k] /\ incs' = [incs EXCEPT ![k] = @]
  <2>1. Operated(k, old, new, inc)
    BY <1>3, <1>4, <1>6, OperatedRow
  <2>. QED
    BY <2>1 DEF Operated
<1>8. DOMAIN incs' = Keys /\ incs[k] \in Nat /\ DOMAIN incs = Keys
  BY <1>4, <1>7 DEF CountInv, RowCounted
<1>9. /\ lead'[k].id = lead[k].id /\ lead'[k].live = lead[k].live /\ lead'[k].grade = lead[k].grade
  BY <1>7 DEF PutRow
<1>10. RowCounted(k)' /\ incs[k] <= incs'[k]
  <2>1. CASE lead'[k] = lead[k] /\ incs' = [incs EXCEPT ![k] = @]
    BY <1>4, <1>5, <1>8, <2>1 DEF RowCounted
  <2>2. CASE /\ PutRow(lead'[k], old, new, lead[k])
             /\ new = old \/ (lead[k].live /\ lead[k].id = old.id)
             /\ incs' = [incs EXCEPT ![k] = IF inc THEN @ + 1 ELSE @]
    <3>1. incs'[k] = IF inc THEN incs[k] + 1 ELSE incs[k]
      BY <1>4, <1>8, <2>2
    <3>2. old.followups \in Nat /\ lead[k].followups \in Nat
      BY <1>4 DEF LeadRow
    <3>3. CASE inc
      <4>1. new.followups = old.followups + 1 /\ new # old
        BY <1>6, <3>2, <3>3
      <4>2. lead[k].live /\ lead[k].id = old.id /\ lead'[k].followups = old.followups + 1
        BY <2>2, <3>2, <4>1 DEF PutRow, Put
      <4>3. old.followups <= incs[k] /\ (k \notin raced => old.followups = incs[k])
        BY <1>1, <1>3, <1>4, <4>2 DEF Copied
      <4>4. incs'[k] \in Nat /\ incs[k] <= incs'[k] /\ lead'[k].live
        BY <1>8, <1>9, <3>1, <3>3, <4>2
      <4>5. lead'[k].followups <= incs'[k]
        BY <1>8, <3>1, <3>2, <3>3, <4>2, <4>3
      <4>6. k \notin raced' => lead'[k].followups = incs'[k]
        BY <1>5, <3>1, <3>3, <4>2, <4>3
      <4>. QED
        BY <4>4, <4>5, <4>6 DEF RowCounted
    <3>4. CASE ~inc
      <4>1. lead'[k].followups = lead[k].followups /\ incs'[k] = incs[k]
        BY <1>6, <2>2, <3>1, <3>4 DEF PutRow, Put
      <4>2. incs[k] <= incs'[k] /\ (k \notin raced' => k \notin raced)
        BY <1>5, <1>8, <4>1
      <4>. QED
        BY <1>4, <1>9, <4>1, <4>2 DEF RowCounted
    <3>. QED
      BY <3>3, <3>4
  <2>. QED
    BY <1>7, <2>1, <2>2
<1>11. lead'[k].live /\ ~lead'[k].contacted /\ lead'[k].converted => k \in moved'
  <2>1. lead[k].live /\ ~lead[k].contacted /\ lead[k].converted => k \in moved
    BY <1>4 DEF CountInv, ListedOnce, OpenLeads, ConvertedLeads
  <2>2. /\ old.contacted \in BOOLEAN /\ old.converted \in BOOLEAN
        /\ lead[k].contacted \in BOOLEAN /\ lead[k].converted \in BOOLEAN
        /\ new.contacted \in BOOLEAN /\ new.converted \in BOOLEAN
    BY <1>4 DEF LeadRow
  <2>3. CASE lead'[k] = lead[k]
    BY <1>5, <2>1, <2>3
  <2>4. CASE PutRow(lead'[k], old, new, lead[k])
    <3>1. /\ lead'[k].contacted = Put(old.contacted, new.contacted, lead[k].contacted)
          /\ lead'[k].converted = Put(old.converted, new.converted, lead[k].converted)
      BY <2>4 DEF PutRow
    <3>2. ~lead'[k].contacted => ~lead[k].contacted
      BY <1>6, <2>2, <3>1 DEF Put
    <3>3. lead'[k].converted => lead[k].converted \/ stage = "won"
      BY <1>6, <2>2, <3>1 DEF Put
    <3>. QED
      BY <1>5, <1>9, <2>1, <3>2, <3>3
  <2>. QED
    BY <1>7, <2>3, <2>4
<1>12. \A o \in Requests \ {r} :
         /\ req[o].kind # "update"
         /\ req[o].ks = <<k>> /\ req[o].kind = "pipeline" => k \in raced' \/ ~lead'[k].live
  <2>1. \A o \in Requests : req[o].kind # "update"
    BY <1>1, LoopIsFree DEF OnLoop, CountInv, ReadInv, OfOperator
  <2>2. \A o \in Requests : req[o].kind = "pipeline" => req[o].phase = "form"
    BY DEF CountInv, ReadInv, OfOperator
  <2>. QED
    BY <1>5, <2>1, <2>2
<1>13. moved \subseteq moved' /\ \A j \in Keys : j \in raced => j \in raced'
  BY <1>5, <1>5
<1>. QED
  <2>1. OfOperator(req[r])
    BY <1>1
  <2>2. \A j \in Keys \ {k} : lead'[j] = lead[j] /\ incs'[j] = incs[j] /\ (j \in raced => j \in raced')
    BY <1>7, <1>13
  <2>3. lead'[k].live => lead[k].live /\ lead'[k].grade = lead[k].grade
    BY <1>9
  <2>4. lead'[k].id = lead[k].id /\ (incs[k] <= incs'[k] \/ ~lead'[k].live)
    BY <1>9, <1>10
  <2>. QED
    BY <1>1, <1>4, <1>8, <1>10, <1>11, <1>12, <1>13, <2>1, <2>2, <2>3, <2>4, OperatorWhole

LEMMA SaveUpdateWhole ==
  ASSUME LeadInv, CountInv, NEW r \in Requests, SaveUpdate(r)
  PROVE  Whole
<1>1. req[r].kind = "update" /\ OfOperator(req[r]) /\ req' = [req EXCEPT ![r] = NoReq] /\ moved' = moved
  BY DEF SaveUpdate, OfOperator
<1>2. PICK k \in Keys : k = req[r].ks[1]
  BY <1>1, OperatorHas
<1>3. PICK old \in LeadRow : old = req[r].old[k]
  BY <1>1, <1>2, OperatorHas
<1>4. /\ req[r].ks = <<k>> /\ Copied(k, req[r]) /\ old.live /\ lead[k] \in LeadRow /\ RowCounted(k)
      /\ req[r].phase # "form"
  BY <1>1, <1>2, <1>3, OperatorHas
<1>5. raced' = IF lead'[k].live THEN raced \cup Races(k) ELSE raced \ {k}
  BY <1>2 DEF SaveUpdate
<1>6. \A o \in Requests \ {r} :
        /\ req[o].kind # "update"
        /\ req[o].ks = <<k>> /\ req[o].kind = "pipeline" => k \in raced' \/ ~lead'[k].live
  <2>1. \A o \in Requests : /\ req[o].kind = "update" => OnLoop(req[o])
                            /\ req[o].kind = "pipeline" => req[o].phase = "form"
    BY DEF CountInv, ReadInv, OfOperator, OnLoop
  <2>2. \A o \in Requests \ {r} : req[o].kind # "update"
    BY <1>1, <2>1 DEF CountInv, OneOnLoop
  <2>3. \A o \in Requests \ {r} : req[o].ks = <<k>> /\ req[o].kind = "pipeline" => k \in Races(k)
    BY <2>1 DEF Races
  <2>. QED
    BY <1>5, <2>2, <2>3
<1>7. \A j \in Keys \ {k} : j \in raced => j \in raced'
  BY <1>5
<1>8. incs[k] \in Nat /\ DOMAIN incs = Keys
  BY <1>4 DEF CountInv, RowCounted
<1>9. \/ \E act : Operate(r, k, Marked(old, act), FALSE)
      \/ /\ lead[k].live
         /\ lead' = [lead EXCEPT ![k] = [NoRow EXCEPT !.id = lead[k].id]]
         /\ incs' = [incs EXCEPT ![k] = 0]
  BY <1>2, <1>3 DEF SaveUpdate
<1>10. ASSUME NEW act, Operate(r, k, Marked(old, act), FALSE) PROVE Whole
  <2>1. PICK new \in LeadRow :
          /\ new.id = old.id /\ new.live = old.live /\ new.grade = old.grade /\ new.followups = old.followups
          /\ (new.contacted <=> ((old.contacted \/ act \in {"contacted", "converted"}) /\ act # "uncontacted"))
          /\ (new.converted <=> ((old.converted \/ act = "converted") /\ act \notin {"uncontacted", "unconverted"}))
          /\ Operate(r, k, new, FALSE)
    <3>. DEFINE row == Marked(old, act)
    <3>1. row \in LeadRow /\ row.id = old.id /\ row.live = old.live
      BY MarkedRow
    <3>2. /\ row.grade = old.grade /\ row.followups = old.followups
          /\ (row.contacted <=> ((old.contacted \/ act \in {"contacted", "converted"}) /\ act # "uncontacted"))
          /\ (row.converted <=> ((old.converted \/ act = "converted") /\ act \notin {"uncontacted", "unconverted"}))
      BY MarkedColumns
    <3>3. Operate(r, k, row, FALSE)
      BY <1>10
    <3>. HIDE DEF row
    <3>. QED
      BY <3>1, <3>2, <3>3, Zenon
  <2>2. /\ \A j \in Keys \ {k} : lead'[j] = lead[j] /\ incs'[j] = incs[j]
        /\ \/ /\ PutRow(lead'[k], old, new, lead[k])
              /\ new = old \/ (lead[k].live /\ lead[k].id = old.id)
              /\ incs' = [incs EXCEPT ![k] = @]
           \/ lead'[k] = lead[k] /\ incs' = [incs EXCEPT ![k] = @]
    <3>1. Operated(k, old, new, FALSE)
      BY <1>3, <1>4, <2>1, OperatedRow
    <3>. QED
      BY <3>1 DEF Operated
  <2>3. DOMAIN incs' = Keys /\ incs'[k] = incs[k] /\ incs[k] <= incs'[k]
    BY <1>8, <2>2
  <2>4. /\ lead'[k].id = lead[k].id /\ lead'[k].live = lead[k].live /\ lead'[k].grade = lead[k].grade
        /\ lead'[k].followups = lead[k].followups
    BY <2>1, <2>2 DEF PutRow, Put
  <2>5. RowCounted(k)'
    BY <1>4, <1>5, <2>3, <2>4 DEF RowCounted
  <2>6. lead'[k].live /\ ~lead'[k].contacted /\ lead'[k].converted => k \in moved'
    <3>1. lead[k].live /\ ~lead[k].contacted /\ lead[k].converted => k \in moved
      BY DEF CountInv, ListedOnce, OpenLeads, ConvertedLeads
    <3>2. /\ old.contacted \in BOOLEAN /\ old.converted \in BOOLEAN
          /\ lead[k].contacted \in BOOLEAN /\ lead[k].converted \in BOOLEAN
          /\ new.contacted \in BOOLEAN /\ new.converted \in BOOLEAN
      BY <1>4 DEF LeadRow
    <3>3. CASE lead'[k] = lead[k]
      BY <1>1, <3>1, <3>3
    <3>4. CASE PutRow(lead'[k], old, new, lead[k]) /\ new = old
      BY <1>1, <2>4, <3>1, <3>4 DEF PutRow, Put
    <3>5. CASE PutRow(lead'[k], old, new, lead[k]) /\ lead[k].live /\ lead[k].id = old.id
      <4>1. SameColumns(old, lead[k])
        BY <1>1, <1>3, <1>4, <3>5 DEF Copied
      <4>2. lead'[k].contacted = new.contacted /\ lead'[k].converted = new.converted
        BY <3>5, <4>1 DEF PutRow, Put, SameColumns
      <4>3. new.converted /\ ~new.contacted => old.converted /\ ~old.contacted
        BY <2>1, <3>2
      <4>. QED
        BY <1>1, <2>4, <3>1, <3>2, <4>1, <4>2, <4>3 DEF SameColumns
    <3>. QED
      BY <2>2, <3>3, <3>4, <3>5
  <2>7. \A j \in Keys \ {k} : lead'[j] = lead[j] /\ incs'[j] = incs[j] /\ (j \in raced => j \in raced')
    BY <1>7, <2>2
  <2>8. lead'[k].live => lead[k].live /\ lead'[k].grade = lead[k].grade
    BY <2>4
  <2>9. lead'[k].id = lead[k].id /\ moved \subseteq moved'
    BY <1>1, <2>4
  <2>. QED
    BY <1>1, <1>6, <2>3, <2>5, <2>6, <2>7, <2>8, <2>9, OperatorWhole
<1>11. ASSUME lead' = [lead EXCEPT ![k] = [NoRow EXCEPT !.id = lead[k].id]], incs' = [incs EXCEPT ![k] = 0]
       PROVE  Whole
  <2>. DEFINE gone == [NoRow EXCEPT !.id = lead[k].id]
  <2>1. gone.id = lead[k].id /\ ~gone.live
    BY DEF NoRow
  <2>. HIDE DEF gone
  <2>2. lead'[k] = gone /\ \A j \in Keys \ {k} : lead'[j] = lead[j]
    BY <1>11 DEF LeadInv, gone
  <2>3. DOMAIN incs' = Keys /\ incs'[k] = 0 /\ \A j \in Keys \ {k} : incs'[j] = incs[j]
    BY <1>8, <1>11
  <2>4. RowCounted(k)' /\ lead'[k].id = lead[k].id /\ ~lead'[k].live
    BY <2>1, <2>2, <2>3 DEF RowCounted
  <2>5. \A j \in Keys \ {k} : lead'[j] = lead[j] /\ incs'[j] = incs[j] /\ (j \in raced => j \in raced')
    BY <1>7, <2>2, <2>3
  <2>6. moved \subseteq moved'
    BY <1>1
  <2>. QED
    BY <1>1, <1>6, <2>3, <2>4, <2>5, <2>6, OperatorWhole
<1>. QED
  BY <1>9, <1>10, <1>11

\* The mirror of the mail tester writes as a visitor does.
LEMMA MirrorSaveWhole ==
  ASSUME FInv, CountInv, NEW p \in Polls, MirrorSave(p)
  PROVE  Whole
<1>1. poll[p].phase = "mirror" /\ PollFiled(p) /\ LeadInv
  BY DEF MirrorSave, FInv, FiledInv
<1>2. PICK k \in Keys : k = KeyAt(p)
  BY <1>1, AtHand DEF PollFiled, FInv
<1>3. PICK old \in LeadRow : old = poll[p].old
  BY <1>1 DEF PollFiled
<1>4. PICK g \in Grades :
        lead' = [lead EXCEPT ![k] = IF ~Fails(k, old, Upsert(k, old, g))
                                    THEN Saved(k, old, Upsert(k, old, g)) ELSE @]
  BY <1>2, <1>3, Zenon DEF MirrorSave, KeyAt
<1>5. UNCHANGED <<req, incs, moved>> /\ raced \subseteq raced'
  BY DEF MirrorSave
<1>6. \A j \in Keys : KeptRow(lead[j], lead[j])
  BY DEF KeptRow, SameColumns
<1>7. \A j \in Keys : KeptRow(lead[j], lead'[j]) \/ AddedRow(lead[j], lead'[j])
  <2>. DEFINE row == Saved(k, old, Upsert(k, old, g))
              ok == ~Fails(k, old, Upsert(k, old, g))
  <2>1. ok => KeptRow(lead[k], row) \/ AddedRow(lead[k], row)
    BY <1>1, VisitorRow
  <2>2. lead' = [lead EXCEPT ![k] = IF ok THEN row ELSE lead[k]]
    BY <1>4
  <2>. HIDE DEF row, ok
  <2>3. \A j \in Keys : lead'[j] = IF j = k /\ ok THEN row ELSE lead[j]
    BY <1>1, <2>2 DEF LeadInv
  <2>. QED
    BY <1>6, <2>1, <2>3
<1>8. OneOnLoop'
  BY <1>5, LoopKept DEF CountInv
<1>9. WholeStep
  BY <1>5 DEF WholeStep, NoReq
<1>. QED
  BY <1>1, <1>5, <1>7, <1>8, <1>9, VisitorWhole DEF VisitorStep

\* A visitor of the tester leaves an address.
LEMMA UnlocksWhole ==
  ASSUME LeadInv, CountInv, NEW r \in Requests,
         (\E t \in Tokens, k \in Keys : OpenUnlock(r, t, k)) \/ Unlock(r)
  PROVE  Whole
<1>1. PICK q : /\ req' = [req EXCEPT ![r] = q] /\ (q = NoReq \/ q.kind = "unlock")
  <2>1. CASE Unlock(r)
    <3>1. req[r] \in ReqRow /\ req[r].kind = "unlock"
      BY <2>1 DEF LeadInv, GoodReq, Unlock
    <3>2. [req[r] EXCEPT !.phase = "find"].kind = "unlock"
      BY <3>1 DEF ReqRow
    <3>. QED
      BY <2>1, <3>2 DEF Unlock
  <2>2. ASSUME NEW t \in Tokens, NEW k \in Keys, OpenUnlock(r, t, k)
        PROVE  \E q : /\ req' = [req EXCEPT ![r] = q] /\ (q = NoReq \/ q.kind = "unlock")
    <3>. DEFINE q == [NoReq EXCEPT !.kind = "unlock", !.phase = "form", !.ks = <<k>>,
                        !.token = IF test[t].row = "received" THEN t ELSE "none"]
    <3>1. req' = [req EXCEPT ![r] = q] /\ q.kind = "unlock"
      BY <2>2 DEF OpenUnlock, NoReq
    <3>. HIDE DEF q
    <3>. QED
      BY <3>1
  <2>. QED
    BY <2>1, <2>2
<1>2. req'[r] = q /\ \A o \in Requests \ {r} : req'[o] = req[o]
  BY <1>1, ReqWas
<1>3. LoopFree /\ UNCHANGED <<lead, incs, moved, raced>>
  BY DEF OpenUnlock, Unlock
<1>4. ReadInv(q)
  BY <1>1 DEF ReadInv, OfOperator, NoReq
<1>5. OneOnLoop'
  BY <1>2, <1>3, LoopTaken
<1>. QED
  BY <1>2, <1>3, <1>4, <1>5, QuietWhole

LEMMA CrashWhole ==
  ASSUME LeadInv, CountInv, Crash
  PROVE  Whole
<1>1. UNCHANGED <<lead, incs, moved, raced>> /\ \A r \in Requests : req'[r] = NoReq
  BY DEF Crash
<1>2. ReadInv(NoReq) /\ ~OnLoop(NoReq)
  BY DEF ReadInv, OfOperator, OnLoop, NoReq
<1>3. OneOnLoop'
  BY <1>1, <1>2, LoopKept DEF CountInv
<1>. QED
  BY <1>1, <1>2, <1>3, QuietWhole


LEMMA LeadStepWhole ==
  ASSUME LeadInv, CountInv,
         LeadStep({"snapshot", "batch", "stream", "rerun", "pipeline", "update"}, Keys, Requests)
  PROVE  Whole
<1>1. CASE \E r \in Requests, ks \in {<<k>> : k \in Keys} \cup (Keys \X Keys) :
             BeginBatch(r, ks) \/ BeginStream(r, ks)
  BY <1>1, BeginWhole DEF BeginBatch, BeginStream
<1>2. CASE \E r \in Requests, k \in Keys : BeginSnapshot(r, k) \/ BeginRerun(r, k)
  BY <1>2, BeginWhole DEF BeginSnapshot, BeginRerun
<1>3. CASE \E r \in Requests, k \in Keys : OpenPipeline(r, k) \/ OpenUpdate(r, k)
  BY <1>3, OpenWhole
<1>4. CASE \E r \in Requests : Find(r) \/ Commit(r) \/ SavePipeline(r) \/ SaveUpdate(r)
  BY <1>4, FindWhole, CommitWhole, SavePipelineWhole, SaveUpdateWhole
<1>5. \/ \E r \in Requests, ks \in {<<k>> : k \in Keys} \cup (Keys \X Keys) :
             BeginBatch(r, ks) \/ BeginStream(r, ks)
      \/ \E r \in Requests : Find(r) \/ Commit(r) \/ SavePipeline(r) \/ SaveUpdate(r)
      \/ \E r \in Requests, k \in Keys : \/ BeginSnapshot(r, k) \/ BeginRerun(r, k)
                                        \/ OpenPipeline(r, k) \/ OpenUpdate(r, k)
  BY DEF LeadStep
<1>. QED
  BY <1>1, <1>2, <1>3, <1>4, <1>5

\* The steps that do not touch the leads at all.
LEMMA IdleWhole ==
  ASSUME CountInv, UNCHANGED leadVars
  PROVE  Whole
<1>1. UNCHANGED <<lead, req, incs, moved, raced>>
  BY DEF leadVars
<1>2. OneOnLoop'
  BY <1>1, LoopKept DEF CountInv
<1>. QED
  BY <1>1, <1>2, QuietWhole

LEMMA NextWhole ==
  ASSUME FInv, CountInv, [MailNext]_<<leadVars, mtVars>>
  PROVE  Whole
<1>1. LeadInv
  BY DEF FInv
<1>2. CASE UNCHANGED leadVars
  BY <1>2, IdleWhole
<1>3. CASE LeadStep({"snapshot", "batch", "stream", "rerun", "pipeline", "update"}, Keys, Requests)
  BY <1>1, <1>3, LeadStepWhole
<1>4. ASSUME NEW p \in Polls, \/ StartPoll(p) \/ NextMail(p) \/ StoreScore(p) \/ Flag(p)
                              \/ MirrorFind(p) \/ Expire(p) \/ Drop(p)
      PROVE  Whole
  BY <1>2, <1>4 DEF StartPoll, NextMail, StoreScore, Flag, MirrorFind, Expire, Drop
<1>5. ASSUME NEW p \in Polls, MirrorSave(p) PROVE Whole
  BY <1>5, MirrorSaveWhole
<1>6. ASSUME NEW a \in Askers, \/ \E user \in BOOLEAN : Ask(a, user)
                               \/ \E t \in Tokens : Generate(a, t)
      PROVE  Whole
  BY <1>2, <1>6 DEF Ask, Generate
<1>7. ASSUME (\E t \in Tokens : Age(t)) \/ Arrive PROVE Whole
  BY <1>2, <1>7 DEF Age, Arrive
<1>8. ASSUME NEW r \in Requests, (\E t \in Tokens, k \in Keys : OpenUnlock(r, t, k)) \/ Unlock(r)
      PROVE  Whole
  BY <1>1, <1>8, UnlocksWhole
<1>9. ASSUME MailStep(Askers, Polls, Tokens, Requests, Keys) PROVE Whole
  BY <1>1, <1>4, <1>5, <1>6, <1>7, <1>8, <1>9, CrashWhole DEF MailStep
<1>. QED
  BY <1>2, <1>3, <1>9 DEF MailNext

LEMMA FirstCounted == LeadInit => CountInv
<1>. SUFFICES ASSUME LeadInit PROVE CountInv
  OBVIOUS
<1>1. \A k \in Keys : RowCounted(k)
  BY DEF RowCounted, LeadInit, NoRow
<1>2. \A r \in Requests : ReadInv(req[r]) /\ ~OnLoop(req[r])
  BY DEF ReadInv, OfOperator, OnLoop, LeadInit, NoReq
<1>3. DOMAIN incs = Keys /\ ListedOnce
  BY DEF LeadInit, NoRow, ListedOnce, OpenLeads, ConvertedLeads
<1>. QED
  BY <1>1, <1>2, <1>3 DEF CountInv, OneOnLoop

\* Leads.LeadsKept: no follow-up of an operator is counted twice or, unless
\* something else was written meanwhile, forgotten; the lists of
\* /admin/leads are disjoint but for what the pipeline form has declared won;
\* nobody writes another's columns (routers/snapshot.py, admin_leads.py,
\* mt_worker.py:43-122); and a batch is filed whole or not at all.
THEOREM LeadsAlwaysKept == MailSpec => LeadsKept
<1>1. LeadInit /\ MailInit => FInv /\ CountInv
  BY FirstState, FirstCounted
<1>2. FInv /\ CountInv /\ [MailNext]_<<leadVars, mtVars>> => FInv' /\ CountInv'
  BY FiledNext, NextWhole DEF Whole
<1>3. FInv /\ CountInv /\ [MailNext]_<<leadVars, mtVars>> => [ColumnStep]_leadVars /\ [WholeStep]_leadVars
  BY NextWhole DEF Whole
<1>4. CountInv => FollowupsCounted /\ ListedOnce
  BY DEF CountInv, RowCounted, FollowupsCounted
<1>5. MailSpec => [](FInv /\ CountInv)
  BY <1>1, <1>2, PTL DEF MailSpec
<1>6. MailSpec => [][ColumnStep]_leadVars /\ [][WholeStep]_leadVars
  BY <1>3, <1>5, PTL DEF MailSpec
<1>7. MailSpec => ColumnsKept
  BY <1>6, PTL DEF ColumnsKept, ColumnStep
<1>8. MailSpec => BatchIsWhole
  BY <1>6, PTL DEF BatchIsWhole, WholeStep
<1>. QED
  BY <1>4, <1>5, <1>7, <1>8, PTL DEF LeadsKept
=============================================================================
