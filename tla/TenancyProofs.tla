---------------------------- MODULE TenancyProofs ----------------------------
(***************************************************************************)
(* Accounts, API keys and managed DMARC: what holds for any number of      *)
(* users, tenants, resellers, keys, domains and requests at a time.        *)
(*                                                                         *)
(* The three keep their own variables, and each has an argument of its     *)
(* own: a key that is gone stays gone in the copies of the requests; a     *)
(* record is where the one request at work on it has left it; and what a   *)
(* request has found out about a row holds until it commits, as long as no *)
(* other request is about that row.                                        *)
(***************************************************************************)
EXTENDS Accounts, ApiKeys, ManagedDmarc, TLAPS, FiniteSetTheorems

(* API keys: revoking or deleting a key is final.                          *)

KeyRow == [row : {"new", "live", "gone"}, revoked : BOOLEAN, used : BOOLEAN]

KeyType ==
  /\ apiKey \in [ApiKeys -> KeyRow]
  /\ use \in [Uses -> [phase : {"idle", "read", "denied", "failed", "accepted"},
                       key : ApiKeys \cup {"none"}, old : KeyRow]]
  /\ edit \in [Edits -> [op : {"none", "revoke", "delete"}, key : ApiKeys \cup {"none"},
                         old : KeyRow]]

\* An upload that has read a key, and a request about one, name a key that
\* exists or has existed; an upload that came too late got nowhere.
Named ==
  /\ \A u \in Uses : use[u].phase = "read" => use[u].key \in ApiKeys /\ apiKey[use[u].key].row # "new"
  /\ \A e \in Edits : edit[e] # NoEdit => edit[e].key \in ApiKeys /\ apiKey[edit[e].key].row # "new"
  /\ \A u \in lateUse : u \in Uses /\ use[u].phase = "denied"
  /\ \A k \in ApiKeys : apiKey[k].revoked => apiKey[k].row # "new"

KeyInv == KeyType /\ Named

\* What RevokedForGood says of a step.
Final ==
  \A k \in ApiKeys :
    /\ apiKey[k].revoked \/ apiKey[k].row = "gone" =>
         apiKey'[k].revoked = apiKey[k].revoked /\ apiKey'[k].row \in {apiKey[k].row, "gone"}
    /\ \A u \in lateUse : use'[u].phase # "accepted"

LEMMA KeyInitInv == KeyInit => KeyInv
BY DEF KeyInit, KeyInv, KeyType, Named, KeyRow, NoKey, NoUse, NoEdit

LEMMA CreateKeyKeeps ==
  ASSUME KeyInv, NEW k \in ApiKeys, CreateKey(k)
  PROVE  KeyInv' /\ Final
BY DEF CreateKey, KeyInv, KeyType, Named, KeyRow, Final

LEMMA OpenUseKeeps ==
  ASSUME KeyInv, NEW u \in Uses, NEW k \in ApiKeys, OpenUse(u, k)
  PROVE  KeyInv' /\ Final
<1>. DEFINE q == [phase |-> IF Usable(k) THEN "read" ELSE "denied", key |-> k, old |-> apiKey[k]]
<1>1. /\ use' = [use EXCEPT ![u] = q] /\ apiKey' = apiKey /\ edit' = edit
      /\ use[u].phase = "idle" /\ apiKey[k].row # "new"
      /\ lateUse' = lateUse \cup {x \in {u} : apiKey[k].row = "gone" \/ apiKey[k].revoked}
  BY DEF OpenUse
<1>2. apiKey[k] \in KeyRow
  BY DEF KeyInv, KeyType
<1>3. KeyType'
  BY <1>1, <1>2 DEF KeyInv, KeyType
<1>4. Usable(k) <=> apiKey[k].row = "live" /\ ~apiKey[k].revoked
  BY DEF Usable
<1>5. \A x \in Uses : use'[x] = IF x = u THEN q ELSE use[x]
  BY <1>1 DEF KeyInv, KeyType
<1>6. Named'
  BY <1>1, <1>4, <1>5 DEF KeyInv, Named
<1>7. Final
  BY <1>1, <1>5 DEF KeyInv, Named, Final
<1>. QED
  BY <1>3, <1>6, <1>7 DEF KeyInv

LEMMA SaveUseKeeps ==
  ASSUME KeyInv, NEW u \in Uses, SaveUse(u)
  PROVE  KeyInv' /\ Final
<1>. DEFINE k == use[u].key
<1>1. /\ use[u].phase = "read" /\ edit' = edit /\ lateUse' = lateUse
      /\ k \in ApiKeys /\ apiKey[k] \in KeyRow /\ apiKey[k].row # "new"
  BY DEF SaveUse, KeyInv, KeyType, Named
<1>2. CASE apiKey[k].row = "gone"
  <2>1. use' = [use EXCEPT ![u].phase = "failed"] /\ apiKey' = apiKey
    BY <1>2 DEF SaveUse
  <2>. QED
    BY <1>1, <2>1 DEF KeyInv, KeyType, Named, Final
<1>3. CASE apiKey[k].row # "gone"
  <2>1. use' = [use EXCEPT ![u].phase = "accepted"] /\ apiKey' = [apiKey EXCEPT ![k] = Touched(u)]
    BY <1>3 DEF SaveUse
  <2>2. /\ Touched(u) \in KeyRow
        /\ Touched(u).row = apiKey[k].row /\ Touched(u).revoked = apiKey[k].revoked
    BY <1>1 DEF Touched, KeyRow
  <2>3. KeyType'
    BY <1>1, <2>1, <2>2 DEF KeyInv, KeyType
  <2>4. /\ \A x \in ApiKeys : apiKey'[x].row = apiKey[x].row /\ apiKey'[x].revoked = apiKey[x].revoked
        /\ \A x \in Uses : /\ use'[x].key = use[x].key
                           /\ use'[x].phase = IF x = u THEN "accepted" ELSE use[x].phase
    BY <1>1, <2>1, <2>2 DEF KeyInv, KeyType
  <2>5. Named' /\ Final
    BY <1>1, <2>4 DEF KeyInv, Named, Final
  <2>. QED
    BY <2>3, <2>5 DEF KeyInv
<1>. QED
  BY <1>2, <1>3

LEMMA OpenEditKeeps ==
  ASSUME KeyInv, NEW e \in Edits, NEW k \in ApiKeys, NEW op \in {"revoke", "delete"},
         OpenEdit(e, op, k)
  PROVE  KeyInv' /\ Final
BY DEF OpenEdit, KeyInv, KeyType, Named, Final, KeyRow, NoEdit

LEMMA SaveEditKeeps ==
  ASSUME KeyInv, NEW e \in Edits, SaveEdit(e)
  PROVE  KeyInv' /\ Final
<1>. DEFINE k == edit[e].key
<1>1. /\ edit' = [edit EXCEPT ![e] = NoEdit] /\ use' = use /\ lateUse' = lateUse
      /\ k \in ApiKeys /\ apiKey[k].row # "new"
  BY DEF SaveEdit, KeyInv, KeyType, Named
<1>2. NoEdit \in [op : {"none", "revoke", "delete"}, key : ApiKeys \cup {"none"}, old : KeyRow]
  BY DEF NoEdit, NoKey, KeyRow
<1>3. \/ apiKey' = [apiKey EXCEPT ![k].row = "gone"]
      \/ apiKey' = apiKey
      \/ apiKey[k].row # "gone" /\ apiKey' = [apiKey EXCEPT ![k].revoked = TRUE]
  BY DEF SaveEdit
<1>4. PICK r \in KeyRow :
        /\ apiKey' = [apiKey EXCEPT ![k] = r]
        /\ r.row \in {apiKey[k].row, "gone"}
        /\ r.revoked = apiKey[k].revoked \/ r.revoked = TRUE
        /\ apiKey[k].row = "gone" => r.revoked = apiKey[k].revoked
  <2>1. apiKey[k] \in KeyRow
    BY <1>1 DEF KeyInv, KeyType
  <2>2. CASE apiKey' = [apiKey EXCEPT ![k].row = "gone"]
    <3>. DEFINE r == [apiKey[k] EXCEPT !.row = "gone"]
    <3>1. r \in KeyRow /\ r.row = "gone" /\ r.revoked = apiKey[k].revoked
      BY <2>1 DEF KeyRow
    <3>2. apiKey' = [apiKey EXCEPT ![k] = r]
      BY <2>2
    <3>. QED
      BY <3>1, <3>2
  <2>3. CASE apiKey' = apiKey
    <3>1. apiKey' = [apiKey EXCEPT ![k] = apiKey[k]]
      BY <1>1, <2>3 DEF KeyInv, KeyType
    <3>. QED
      BY <2>1, <3>1
  <2>4. CASE apiKey[k].row # "gone" /\ apiKey' = [apiKey EXCEPT ![k].revoked = TRUE]
    <3>. DEFINE r == [apiKey[k] EXCEPT !.revoked = TRUE]
    <3>1. r \in KeyRow /\ r.row = apiKey[k].row /\ r.revoked = TRUE
      BY <2>1 DEF KeyRow
    <3>2. apiKey' = [apiKey EXCEPT ![k] = r]
      BY <2>4
    <3>. QED
      BY <2>4, <3>1, <3>2
  <2>. QED
    BY <1>3, <2>2, <2>3, <2>4
<1>5. KeyType'
  BY <1>1, <1>2, <1>4 DEF KeyInv, KeyType
<1>6. \A x \in ApiKeys : apiKey'[x] = IF x = k THEN r ELSE apiKey[x]
  BY <1>1, <1>4 DEF KeyInv, KeyType
<1>7. \A x \in Edits : edit'[x] = IF x = e THEN NoEdit ELSE edit[x]
  BY <1>1 DEF KeyInv, KeyType
<1>8. Named'
  BY <1>1, <1>4, <1>6, <1>7 DEF KeyInv, Named
<1>9. Final
  BY <1>1, <1>4, <1>6 DEF KeyInv, Named, KeyType, KeyRow, Final
<1>. QED
  BY <1>5, <1>8, <1>9 DEF KeyInv

LEMMA KeyStep == KeyInv /\ [KeyNext]_keyVars => KeyInv' /\ [Final]_keyVars
<1>. SUFFICES ASSUME KeyInv, [KeyNext]_keyVars PROVE KeyInv' /\ [Final]_keyVars
  OBVIOUS
<1>1. CASE KeyNext
  BY <1>1, CreateKeyKeeps, OpenUseKeeps, SaveUseKeeps, OpenEditKeeps, SaveEditKeeps DEF KeyNext
<1>2. CASE UNCHANGED keyVars
  BY <1>2 DEF keyVars, KeyInv, KeyType, Named
<1>. QED
  BY <1>1, <1>2

\* ApiKeys.RevokedForGood (routers/api.py:25-43, routers/api_keys.py:63-91): a
\* key that has been revoked or deleted stays so, and opens nothing.
THEOREM KeysStayRevoked == KeySpec => RevokedForGood
<1>1. KeySpec => [][Final]_keyVars
  BY KeyInitInv, KeyStep, PTL DEF KeySpec
<1>. QED
  BY <1>1 DEF RevokedForGood, Final

----------------------------------------------------------------------------
(* Managed DMARC: as long as one request is at work on the records of a    *)
(* domain, the zone is the row it has read and the calls it has made.      *)

DmarcRow == [live : BOOLEAN, auth : BOOLEAN, managed : BOOLEAN, policy : Policies \cup {"none"}]

\* What is left of the calls of a request.
Left(op) == CASE op \in {"setup", "wizard"} -> {<<"auth", "get", "put">>, <<"get", "put">>, <<"put">>, <<>>}
              [] op = "policy" -> {<<"get", "put">>, <<"put">>, <<>>}
              [] op = "off" -> {<<"drop">>, <<>>}
              [] op = "auth" -> {<<"auth">>, <<>>}
              [] op = "unauth" -> {<<"unauth">>, <<>>}
              [] OTHER -> {<<>>}

\* The policy a row stands for, and the one the zone serves for a request.
Shows(r) == IF r.managed THEN r.policy ELSE "none"
Sent(c) == c.todo = <<>> /\ c.op # "delete"
Serving(c) == IF Sent(c) /\ c.op \in {"setup", "wizard", "policy", "off"} THEN c.policy ELSE Shows(c.old)
Started(c) == c.op \in {"setup", "wizard"} /\ c.todo # <<"auth", "get", "put">>
Authorized(c) == CASE c.op \in {"setup", "wizard"} -> c.old.auth \/ Started(c)
                   [] c.op = "auth" -> c.old.auth \/ Sent(c)
                   [] c.op = "unauth" -> c.old.auth /\ ~Sent(c)
                   [] OTHER -> c.old.auth

JobRow(c) ==
  /\ c.op \in JobOps /\ c.domain \in Domains /\ c.policy \in Policies \cup {"none"}
  /\ c.op = "off" => c.policy = "none"
  /\ c.old \in DmarcRow /\ c.old.live
  /\ c.todo \in Left(c.op)
  /\ c.wrote \in BOOLEAN /\ (c.wrote <=> Sent(c) \/ Started(c))
  /\ DOMAIN c = DOMAIN Idle

Busy(j) == job[j] # Idle
Works(j, n) == Busy(j) /\ Name(j) = n

DmarcType ==
  /\ row \in [Domains -> DmarcRow] /\ deleg \in [Records -> Policies \cup {"none"}]
  /\ auth \subseteq Domains
  /\ DOMAIN job = Jobs /\ \A j \in Jobs : Busy(j) => JobRow(job[j])
  /\ \A d \in Domains : ~row[d].live => row[d] = NoDomain

OneAtWork == \A j, k \in Jobs : Busy(j) /\ Busy(k) /\ Name(j) = Name(k) /\ Name(j) \notin busy => j = k

\* The zone and the row of a domain whose record nobody has spoilt.
DomainInv(d) ==
  LET n == RecordOf[d] IN
  Alone(d) /\ n \notin busy \cup torn =>
    /\ (\A j \in Jobs : ~Works(j, n)) => deleg[n] = Shows(row[d]) /\ (d \in auth <=> row[d].auth)
    /\ \A j \in Jobs : Works(j, n) =>
         /\ job[j].old = row[d]
         /\ deleg[n] = Serving(job[j]) /\ (d \in auth <=> Authorized(job[j]))

DmarcInv == DmarcType /\ OneAtWork /\ \A d \in Domains : DomainInv(d)

LEMMA Tuples ==
  /\ Head(<<"auth", "get", "put">>) = "auth" /\ Tail(<<"auth", "get", "put">>) = <<"get", "put">>
  /\ Head(<<"get", "put">>) = "get" /\ Tail(<<"get", "put">>) = <<"put">>
  /\ Head(<<"put">>) = "put" /\ Tail(<<"put">>) = <<>>
  /\ Head(<<"auth">>) = "auth" /\ Tail(<<"auth">>) = <<>>
  /\ Head(<<"unauth">>) = "unauth" /\ Tail(<<"unauth">>) = <<>>
  /\ Head(<<"drop">>) = "drop" /\ Tail(<<"drop">>) = <<>>
  /\ <<"auth", "get", "put">> # <<"get", "put">> /\ <<"auth", "get", "put">> # <<"put">>
  /\ <<"auth", "get", "put">> # <<>> /\ <<"get", "put">> # <<>> /\ <<"put">> # <<>>
  /\ <<"get", "put">> # <<"put">> /\ <<"auth">> # <<>> /\ <<"unauth">> # <<>> /\ <<"drop">> # <<>>
OBVIOUS

\* A request that has written nothing has changed nothing.
LEMMA Untouched ==
  ASSUME NEW c, JobRow(c), ~c.wrote
  PROVE  Serving(c) = Shows(c.old) /\ (Authorized(c) <=> c.old.auth)
<1>1. ~Sent(c) /\ ~Started(c)
  BY DEF JobRow
<1>. QED
  BY <1>1 DEF Serving, Authorized

\* A request that has made its calls has made the zone what it will say.
LEMMA AllSent ==
  ASSUME NEW c, JobRow(c), c.todo = <<>>, c.op # "delete"
  PROVE  /\ Assigned(c) \in DmarcRow /\ Assigned(c).live
         /\ Serving(c) = Shows(Assigned(c)) /\ (Authorized(c) <=> Assigned(c).auth)
<1>1. c.old \in DmarcRow /\ c.policy \in Policies \cup {"none"} /\ Sent(c) /\ c.old.live
  BY DEF JobRow, Sent
<1>2. CASE c.op \in {"setup", "wizard"}
  <2>1. Started(c)
    BY <1>2, Tuples DEF Started
  <2>2. Assigned(c) = [c.old EXCEPT !.auth = TRUE, !.managed = TRUE, !.policy = c.policy]
    BY <1>2 DEF Assigned
  <2>. QED
    BY <1>1, <1>2, <2>1, <2>2 DEF Serving, Authorized, Shows, DmarcRow
<1>3. CASE c.op = "policy"
  <2>1. Assigned(c) = [c.old EXCEPT !.managed = TRUE, !.policy = c.policy]
    BY <1>3 DEF Assigned
  <2>. QED
    BY <1>1, <1>3, <2>1 DEF Serving, Authorized, Shows, DmarcRow
<1>4. CASE c.op = "off"
  <2>1. Assigned(c) = [c.old EXCEPT !.managed = FALSE, !.policy = "none"]
    BY <1>4 DEF Assigned
  <2>2. c.policy = "none"
    BY <1>4 DEF JobRow
  <2>. QED
    BY <1>1, <1>4, <2>1, <2>2 DEF Serving, Authorized, Shows, DmarcRow
<1>5. CASE c.op = "auth"
  <2>1. Assigned(c) = [c.old EXCEPT !.auth = TRUE]
    BY <1>5 DEF Assigned
  <2>. QED
    BY <1>1, <1>5, <2>1 DEF Serving, Authorized, Shows, DmarcRow
<1>6. CASE c.op = "unauth"
  <2>1. Assigned(c) = [c.old EXCEPT !.auth = FALSE]
    BY <1>6 DEF Assigned
  <2>. QED
    BY <1>1, <1>6, <2>1 DEF Serving, Authorized, Shows, DmarcRow
<1>. QED
  BY <1>2, <1>3, <1>4, <1>5, <1>6 DEF JobRow, JobOps

\* The calls, one by one: c is left with the rest of its calls.
NextCall(c, e) ==
  /\ e.op = c.op /\ e.domain = c.domain /\ e.policy = c.policy /\ e.old = c.old
  /\ e.todo = Tail(c.todo) /\ DOMAIN e = DOMAIN c

LEMMA CallGet ==
  ASSUME NEW c, JobRow(c), c.todo # <<>>, Head(c.todo) = "get", NEW e, NextCall(c, e), e.wrote = c.wrote
  PROVE  JobRow(e) /\ Serving(e) = Serving(c) /\ (Authorized(e) <=> Authorized(c))
<1>1. c.op \in {"setup", "wizard", "policy"} /\ c.todo = <<"get", "put">>
  BY Tuples DEF JobRow, Left, JobOps
<1>2. e.todo = <<"put">>
  BY <1>1, Tuples DEF NextCall
<1>3. (Sent(e) <=> Sent(c)) /\ (Started(e) <=> Started(c))
  BY <1>1, <1>2, Tuples DEF NextCall, Sent, Started
<1>4. JobRow(e)
  BY <1>1, <1>2, <1>3 DEF JobRow, NextCall, Left
<1>. QED
  BY <1>3, <1>4 DEF Serving, Authorized, NextCall

LEMMA CallWrites ==
  ASSUME NEW c, JobRow(c), c.todo # <<>>, NEW e, NextCall(c, e), e.wrote = TRUE
  PROVE  /\ Head(c.todo) # "get" => JobRow(e)
         /\ Head(c.todo) = "auth" => Serving(e) = Serving(c) /\ Authorized(e)
         /\ Head(c.todo) = "unauth" => Serving(e) = Serving(c) /\ ~Authorized(e)
         /\ Head(c.todo) = "put" => Serving(e) = c.policy /\ (Authorized(e) <=> Authorized(c))
         /\ Head(c.todo) = "drop" => Serving(e) = "none" /\ (Authorized(e) <=> Authorized(c))
<1>1. c.op \in JobOps /\ c.todo \in Left(c.op) /\ e.op = c.op /\ e.todo = Tail(c.todo)
      /\ e.policy = c.policy /\ e.old = c.old
  BY DEF JobRow, NextCall
<1>2. CASE c.op \in {"setup", "wizard"}
  <2>1. c.todo \in {<<"auth", "get", "put">>, <<"get", "put">>, <<"put">>}
    BY <1>1, <1>2 DEF Left
  <2>2. Head(c.todo) # "get" => (Sent(e) \/ Started(e)) /\ e.todo \in Left(e.op)
    BY <1>1, <1>2, <2>1, Tuples DEF Sent, Started, Left
  <2>3. Head(c.todo) # "get" => JobRow(e)
    BY <1>2, <2>2 DEF JobRow, NextCall
  <2>4. CASE c.todo = <<"auth", "get", "put">>
    BY <1>1, <1>2, <2>3, <2>4, Tuples DEF Serving, Authorized, Sent, Started
  <2>5. CASE c.todo = <<"put">>
    BY <1>1, <1>2, <2>3, <2>5, Tuples DEF Serving, Authorized, Sent, Started
  <2>6. CASE c.todo = <<"get", "put">>
    BY <2>6, Tuples
  <2>. QED
    BY <2>1, <2>4, <2>5, <2>6
<1>3. CASE c.op = "policy"
  <2>1. c.todo \in {<<"get", "put">>, <<"put">>}
    BY <1>1, <1>3 DEF Left
  <2>2. Head(c.todo) # "get" => c.todo = <<"put">> /\ e.todo = <<>>
    BY <1>1, <2>1, Tuples
  <2>3. Head(c.todo) # "get" => JobRow(e)
    BY <1>1, <1>3, <2>2 DEF JobRow, NextCall, Sent, Left
  <2>. QED
    BY <1>1, <1>3, <2>1, <2>2, <2>3, Tuples DEF Serving, Authorized, Sent
<1>4. CASE c.op = "off"
  <2>1. c.todo = <<"drop">> /\ e.todo = <<>>
    BY <1>1, <1>4, Tuples DEF Left
  <2>2. JobRow(e) /\ c.policy = "none"
    BY <1>1, <1>4, <2>1 DEF JobRow, NextCall, Sent, Left
  <2>. QED
    BY <1>1, <1>4, <2>1, <2>2, Tuples DEF Serving, Authorized, Sent
<1>5. CASE c.op \in {"auth", "unauth"}
  <2>1. c.todo = <<c.op>> /\ e.todo = <<>>
    BY <1>1, <1>5, Tuples DEF Left
  <2>2. JobRow(e)
    BY <1>1, <1>5, <2>1 DEF JobRow, NextCall, Sent, Left
  <2>. QED
    BY <1>1, <1>5, <2>1, <2>2, Tuples DEF Serving, Authorized, Sent
<1>6. CASE c.op = "delete"
  BY <1>1, <1>6 DEF Left
<1>. QED
  BY <1>1, <1>2, <1>3, <1>4, <1>5, <1>6 DEF JobOps

\* A domain that a step is not about.
LEMMA ElseKept ==
  ASSUME DmarcType, NEW e \in Domains, DomainInv(e), row'[e] = row[e], e \in auth' <=> e \in auth,
         deleg'[RecordOf[e]] = deleg[RecordOf[e]], busy \subseteq busy', torn \subseteq torn',
         \A k \in Jobs : Works(k, RecordOf[e]) \/ Works(k, RecordOf[e])' => job'[k] = job[k]
  PROVE  DomainInv(e)'
<1>1. \A k \in Jobs : /\ Works(k, RecordOf[e])' <=> Works(k, RecordOf[e])
                      /\ Works(k, RecordOf[e])' => job'[k] = job[k]
  BY DEF Works, Busy, Name
<1>. QED
  BY <1>1 DEF DomainInv, Works, Shows

\* A step of a request touches the records of its own domain only.
LEMMA JobStep ==
  ASSUME DmarcInv, NEW j \in Jobs, Busy(j), NEW d, d = job[j].domain, NEW c, job' = [job EXCEPT ![j] = c],
         c = Idle \/ (JobRow(c) /\ c.domain = d),
         busy' = busy, torn \subseteq torn',
         row' \in [Domains -> DmarcRow], deleg' \in [Records -> Policies \cup {"none"}],
         auth' \subseteq Domains, \A e \in Domains : ~row'[e].live => row'[e] = NoDomain,
         \A e \in Domains \ {d} : row'[e] = row[e] /\ (e \in auth' <=> e \in auth),
         \A n \in Records \ {RecordOf[d]} : deleg'[n] = deleg[n],
         Alone(d) /\ RecordOf[d] \notin busy \cup torn' => DomainInv(d)'
  PROVE  DmarcInv'
<1>1. /\ DmarcType /\ OneAtWork /\ JobRow(job[j]) /\ d \in Domains
      /\ \A e \in Domains : DomainInv(e)
  BY DEF DmarcInv, DmarcType, JobRow
<1>2. /\ job'[j] = c /\ \A k \in Jobs \ {j} : job'[k] = job[k]
      /\ DOMAIN job' = Jobs
  BY <1>1 DEF DmarcType
<1>3. DmarcType'
  BY <1>1, <1>2 DEF DmarcType, Busy
<1>4. \A k \in Jobs : Busy(k)' => Busy(k) /\ job'[k].domain = job[k].domain
  BY <1>2 DEF Busy
<1>5. OneAtWork'
  BY <1>1, <1>4 DEF OneAtWork, Name, Busy
<1>6. ASSUME NEW e \in Domains PROVE DomainInv(e)'
  <2>1. CASE ~Alone(e) \/ RecordOf[e] \in busy \cup torn'
    BY <2>1 DEF DomainInv
  <2>2. CASE Alone(e) /\ RecordOf[e] \notin busy \cup torn' /\ RecordOf[e] = RecordOf[d]
    <3>1. e = d
      BY <1>1, <2>2 DEF Alone
    <3>. QED
      BY <2>2, <3>1
  <2>3. CASE Alone(e) /\ RecordOf[e] # RecordOf[d]
    <3>1. e # d /\ RecordOf[e] \in Records
      BY <2>3 DEF Records
    <3>2. \A k \in Jobs : Works(k, RecordOf[e]) \/ Works(k, RecordOf[e])' => job'[k] = job[k]
      <4>1. ~Works(j, RecordOf[e])
        BY <2>3 DEF Works, Name
      <4>2. ~Works(j, RecordOf[e])'
        BY <2>3, <1>2 DEF Works, Name, Busy
      <4>. QED
        BY <1>2, <4>1, <4>2
    <3>. QED
      BY <1>1, <2>3, <3>1, <3>2, ElseKept
  <2>. QED
    BY <2>1, <2>2, <2>3
<1>. QED
  BY <1>3, <1>5, <1>6 DEF DmarcInv

\* The one request at work on the record of a domain.
LEMMA TheOne ==
  ASSUME DmarcInv, NEW j \in Jobs, Busy(j), NEW d, d = job[j].domain,
         Alone(d), RecordOf[d] \notin busy \cup torn
  PROVE  /\ \A k \in Jobs : Works(k, RecordOf[d]) <=> k = j
         /\ job[j].old = row[d] /\ deleg[RecordOf[d]] = Serving(job[j])
         /\ d \in auth <=> Authorized(job[j])
<1>1. \A k \in Jobs : Works(k, RecordOf[d]) <=> k = j
  BY DEF DmarcInv, OneAtWork, Works, Name
<1>2. d \in Domains /\ DomainInv(d)
  BY DEF DmarcInv, DmarcType, JobRow
<1>. QED
  BY <1>1, <1>2 DEF DomainInv

\* What remains to be seen of a step of the one request.
LEMMA StillAtWork ==
  ASSUME DmarcInv, NEW j \in Jobs, Busy(j), NEW d, d = job[j].domain,
         Alone(d), RecordOf[d] \notin busy \cup torn,
         NEW c, c # Idle, c.domain = d, c.old = job[j].old, job' = [job EXCEPT ![j] = c],
         row' = row, deleg'[RecordOf[d]] = Serving(c), d \in auth' <=> Authorized(c)
  PROVE  DomainInv(d)'
<1>1. /\ job'[j] = c /\ \A k \in Jobs \ {j} : job'[k] = job[k]
  BY DEF DmarcInv, DmarcType
<1>2. \A k \in Jobs : Works(k, RecordOf[d])' <=> k = j
  BY <1>1, TheOne DEF Works, Busy, Name
<1>3. c.old = row'[d]
  BY TheOne
<1>. QED
  BY <1>1, <1>2, <1>3 DEF DomainInv

LEMMA WorkEnds ==
  ASSUME DmarcInv, NEW j \in Jobs, Busy(j), NEW d, d = job[j].domain,
         Alone(d), RecordOf[d] \notin busy \cup torn,
         job' = [job EXCEPT ![j] = Idle],
         deleg'[RecordOf[d]] = Shows(row'[d]), d \in auth' <=> row'[d].auth
  PROVE  DomainInv(d)'
<1>1. /\ job'[j] = Idle /\ \A k \in Jobs \ {j} : job'[k] = job[k]
  BY DEF DmarcInv, DmarcType
<1>2. \A k \in Jobs : ~Works(k, RecordOf[d])'
  BY <1>1, TheOne DEF Works, Busy, Name
<1>. QED
  BY <1>2 DEF DomainInv, Shows

LEMMA GetRecordKeeps ==
  ASSUME DmarcInv, NEW j \in Jobs, GetRecord(j), Busy(j)
  PROVE  DmarcInv'
<1>. DEFINE old == job[j]
            c == [old EXCEPT !.todo = Tail(@), !.seen = deleg[Name(j)]]
<1>1. JobRow(old) /\ old.todo # <<>> /\ Head(old.todo) = "get"
  BY DEF GetRecord, Did, DmarcInv, DmarcType
<1>2. NextCall(old, c) /\ c.wrote = old.wrote
  BY <1>1 DEF NextCall, JobRow, Idle
<1>3. job' = [job EXCEPT ![j] = c] /\ UNCHANGED <<row, auth, deleg, busy, torn>>
  BY DEF GetRecord
<1>. HIDE DEF c
<1>4. JobRow(c) /\ Serving(c) = Serving(old) /\ (Authorized(c) <=> Authorized(old))
  BY <1>1, <1>2, CallGet
<1>5. c # Idle /\ c.domain = old.domain /\ c.old = old.old
  BY <1>1, <1>2, <1>4 DEF NextCall, JobRow, JobOps, Idle
<1>. PICK d : d = old.domain
  OBVIOUS
<1>6. ASSUME Alone(d), RecordOf[d] \notin busy \cup torn PROVE DomainInv(d)'
  <2>1. deleg[RecordOf[d]] = Serving(job[j]) /\ (d \in auth <=> Authorized(job[j]))
    BY <1>6, TheOne
  <2>2. row' = row /\ deleg'[RecordOf[d]] = Serving(c) /\ (d \in auth' <=> Authorized(c))
    BY <1>3, <1>4, <2>1
  <2>3. c # Idle /\ c.domain = d /\ c.old = job[j].old /\ job' = [job EXCEPT ![j] = c]
    BY <1>3, <1>5
  <2>. QED
    BY <1>6, <2>2, <2>3, StillAtWork
<1>. QED
  BY <1>3, <1>4, <1>5, <1>6, JobStep DEF DmarcInv, DmarcType

LEMMA GiveUpKeeps ==
  ASSUME DmarcInv, NEW j \in Jobs, Busy(j), GiveUp(j), UNCHANGED <<row, auth, deleg, busy>>
  PROVE  DmarcInv'
<1>. DEFINE old == job[j]
<1>1. JobRow(old)
  BY DEF DmarcInv, DmarcType
<1>2. job' = [job EXCEPT ![j] = Idle] /\ torn \subseteq torn'
      /\ (old.wrote => RecordOf[old.domain] \in torn')
  BY DEF GiveUp, Name
<1>. PICK d : d = old.domain
  OBVIOUS
<1>3. ASSUME Alone(d), RecordOf[d] \notin busy \cup torn' PROVE DomainInv(d)'
  <2>1. /\ old.old = row[d] /\ deleg[RecordOf[d]] = Serving(old)
        /\ d \in auth <=> Authorized(old)
    BY <1>2, <1>3, TheOne
  <2>2. Serving(old) = Shows(old.old) /\ (Authorized(old) <=> old.old.auth)
    BY <1>1, <1>2, <1>3, Untouched DEF JobRow
  <2>3. deleg'[RecordOf[d]] = Shows(row'[d]) /\ (d \in auth' <=> row'[d].auth)
    BY <2>1, <2>2
  <2>. QED
    BY <1>2, <1>3, <2>3, WorkEnds
<1>4. /\ row' = row /\ deleg' = deleg /\ auth' = auth /\ busy' = busy
      /\ row \in [Domains -> DmarcRow] /\ deleg \in [Records -> Policies \cup {"none"}]
      /\ auth \subseteq Domains /\ \A e \in Domains : ~row[e].live => row[e] = NoDomain
  BY DEF DmarcInv, DmarcType
<1>5. /\ row' \in [Domains -> DmarcRow] /\ deleg' \in [Records -> Policies \cup {"none"}]
      /\ auth' \subseteq Domains /\ \A e \in Domains : ~row'[e].live => row'[e] = NoDomain
      /\ \A e \in Domains \ {d} : row'[e] = row[e] /\ (e \in auth' <=> e \in auth)
      /\ \A n \in Records \ {RecordOf[d]} : deleg'[n] = deleg[n]
  BY <1>4
<1>6. Alone(d) /\ RecordOf[d] \notin busy \cup torn' => DomainInv(d)'
  BY <1>3
<1>. PICK c : c = Idle
  OBVIOUS
<1>7. job' = [job EXCEPT ![j] = c] /\ busy' = busy /\ torn \subseteq torn'
  BY <1>2, <1>4
<1>8. c = Idle \/ (JobRow(c) /\ c.domain = d)
  OBVIOUS
<1>. QED
  BY <1>5, <1>6, <1>7, <1>8, JobStep, Zenon

\* An effect on the zone: what it leaves alone, and what comes of it.
LEMMA EffectIs ==
  ASSUME DmarcInv, NEW j \in Jobs, Busy(j), NEW d, d = job[j].domain, Effect(j)
  PROVE  /\ JobRow(job[j]) /\ job[j].todo # <<>> /\ Head(job[j].todo) # "get" /\ d \in Domains
         /\ deleg' \in [Records -> Policies \cup {"none"}] /\ auth' \subseteq Domains
         /\ \A e \in Domains \ {d} : e \in auth' <=> e \in auth
         /\ \A n \in Records \ {RecordOf[d]} : deleg'[n] = deleg[n]
         /\ Head(job[j].todo) = "auth" => d \in auth' /\ deleg' = deleg
         /\ Head(job[j].todo) = "unauth" => d \notin auth' /\ deleg' = deleg
         /\ Head(job[j].todo) = "put" => deleg'[RecordOf[d]] = job[j].policy /\ auth' = auth
         /\ Head(job[j].todo) = "drop" => deleg'[RecordOf[d]] = "none" /\ auth' = auth
         /\ Head(job[j].todo) \in {"auth", "unauth", "put", "drop"}
<1>1. /\ JobRow(job[j]) /\ d \in Domains /\ RecordOf[d] \in Records
      /\ job[j].policy \in Policies \cup {"none"}
      /\ deleg \in [Records -> Policies \cup {"none"}] /\ auth \subseteq Domains
  BY DEF DmarcInv, DmarcType, JobRow, Records
<1>2. CASE Did(j, "auth") /\ auth' = auth \cup {job[j].domain} /\ UNCHANGED deleg
  BY <1>1, <1>2 DEF Did
<1>3. CASE Did(j, "unauth") /\ auth' = auth \ {job[j].domain} /\ UNCHANGED deleg
  BY <1>1, <1>3 DEF Did
<1>4. CASE Did(j, "put") /\ Writable(j) /\ deleg' = [deleg EXCEPT ![Name(j)] = Served(j)] /\ UNCHANGED auth
  <2>1. deleg' = [deleg EXCEPT ![RecordOf[d]] = job[j].policy]
    BY <1>4 DEF Name, Served
  <2>. QED
    BY <1>1, <1>4, <2>1 DEF Did
<1>5. CASE Did(j, "drop") /\ deleg' = [deleg EXCEPT ![Name(j)] = "none"] /\ UNCHANGED auth
  <2>1. deleg' = [deleg EXCEPT ![RecordOf[d]] = "none"]
    BY <1>5 DEF Name
  <2>. QED
    BY <1>1, <1>5, <2>1 DEF Did
<1>. QED
  BY <1>2, <1>3, <1>4, <1>5 DEF Effect

\* The request after a call that has gone through.
LEMMA Advanced ==
  ASSUME NEW j \in Jobs, JobRow(job[j]), job[j].todo # <<>>, Head(job[j].todo) # "get",
         Advance(j)
  PROVE  \E c : /\ job' = [job EXCEPT ![j] = c] /\ c # Idle /\ JobRow(c)
                /\ NextCall(job[j], c) /\ c.wrote = TRUE
<1>. DEFINE old == job[j]
            c == [old EXCEPT !.todo = Tail(@), !.seen = "none", !.wrote = TRUE]
<1>1. NextCall(old, c) /\ c.wrote = TRUE
  BY DEF NextCall, JobRow, Idle
<1>2. job' = [job EXCEPT ![j] = c]
  BY DEF Advance
<1>. HIDE DEF c
<1>3. JobRow(c)
  BY <1>1, CallWrites
<1>4. c # Idle
  BY <1>3 DEF JobRow, JobOps, Idle
<1>. QED
  BY <1>1, <1>2, <1>3, <1>4

LEMMA WriteRecordKeeps ==
  ASSUME DmarcInv, NEW j \in Jobs, WriteRecord(j), Busy(j)
  PROVE  DmarcInv'
<1>. PICK d : d = job[j].domain
  OBVIOUS
<1>1. Effect(j) /\ Advance(j) /\ UNCHANGED <<row, busy, torn>>
  BY DEF WriteRecord
<1>2. PICK c : /\ job' = [job EXCEPT ![j] = c] /\ c # Idle /\ JobRow(c)
               /\ NextCall(job[j], c) /\ c.wrote = TRUE
  BY <1>1, EffectIs, Advanced
<1>3. c.domain = d /\ c.old = job[j].old
  BY <1>2 DEF NextCall
<1>4. ASSUME Alone(d), RecordOf[d] \notin busy \cup torn PROVE DomainInv(d)'
  <2>1. deleg[RecordOf[d]] = Serving(job[j]) /\ (d \in auth <=> Authorized(job[j]))
    BY <1>4, TheOne
  <2>2. JobRow(job[j]) /\ job[j].todo # <<>> /\ NextCall(job[j], c) /\ c.wrote = TRUE
    BY <1>1, <1>2, EffectIs
  <2>3. deleg'[RecordOf[d]] = Serving(c) /\ (d \in auth' <=> Authorized(c))
    <3>1. /\ Head(job[j].todo) = "auth" => d \in auth' /\ deleg' = deleg
          /\ Head(job[j].todo) = "unauth" => d \notin auth' /\ deleg' = deleg
          /\ Head(job[j].todo) = "put" => deleg'[RecordOf[d]] = job[j].policy /\ auth' = auth
          /\ Head(job[j].todo) = "drop" => deleg'[RecordOf[d]] = "none" /\ auth' = auth
          /\ Head(job[j].todo) \in {"auth", "unauth", "put", "drop"}
      BY <1>1, EffectIs
    <3>2. /\ Head(job[j].todo) = "auth" => Serving(c) = Serving(job[j]) /\ Authorized(c)
          /\ Head(job[j].todo) = "unauth" => Serving(c) = Serving(job[j]) /\ ~Authorized(c)
          /\ Head(job[j].todo) = "put" => Serving(c) = job[j].policy /\ (Authorized(c) <=> Authorized(job[j]))
          /\ Head(job[j].todo) = "drop" => Serving(c) = "none" /\ (Authorized(c) <=> Authorized(job[j]))
      BY <2>2, CallWrites
    <3>. QED
      BY <2>1, <3>1, <3>2
  <2>. QED
    BY <1>1, <1>2, <1>3, <1>4, <2>3, StillAtWork
<1>5. /\ busy' = busy /\ torn' = torn
      /\ deleg' \in [Records -> Policies \cup {"none"}] /\ auth' \subseteq Domains
      /\ \A e \in Domains \ {d} : row'[e] = row[e] /\ (e \in auth' <=> e \in auth)
      /\ \A n \in Records \ {RecordOf[d]} : deleg'[n] = deleg[n]
      /\ row' \in [Domains -> DmarcRow] /\ \A e \in Domains : ~row'[e].live => row'[e] = NoDomain
  BY <1>1, EffectIs DEF DmarcInv, DmarcType
<1>. QED
  BY <1>2, <1>3, <1>4, <1>5, JobStep

LEMMA AnswerLostKeeps ==
  ASSUME DmarcInv, NEW j \in Jobs, AnswerLost(j), Busy(j)
  PROVE  DmarcInv'
<1>. PICK d : d = job[j].domain
  OBVIOUS
<1>1. Effect(j) /\ job' = [job EXCEPT ![j] = Idle] /\ torn' = torn \cup {RecordOf[d]}
      /\ UNCHANGED <<row, busy>>
  BY DEF AnswerLost, Name
<1>2. /\ busy' = busy /\ torn \subseteq torn' /\ RecordOf[d] \in torn'
      /\ deleg' \in [Records -> Policies \cup {"none"}] /\ auth' \subseteq Domains
      /\ \A e \in Domains \ {d} : row'[e] = row[e] /\ (e \in auth' <=> e \in auth)
      /\ \A n \in Records \ {RecordOf[d]} : deleg'[n] = deleg[n]
      /\ row' \in [Domains -> DmarcRow] /\ \A e \in Domains : ~row'[e].live => row'[e] = NoDomain
  BY <1>1, EffectIs DEF DmarcInv, DmarcType
<1>3. Alone(d) /\ RecordOf[d] \notin busy \cup torn' => DomainInv(d)'
  BY <1>2
<1>. PICK c : c = Idle
  OBVIOUS
<1>4. job' = [job EXCEPT ![j] = c]
  BY <1>1
<1>5. c = Idle \/ (JobRow(c) /\ c.domain = d)
  OBVIOUS
<1>. QED
  BY <1>2, <1>3, <1>4, <1>5, JobStep, Zenon

LEMMA DropIgnoredKeeps ==
  ASSUME DmarcInv, NEW j \in Jobs, DropIgnored(j), Busy(j)
  PROVE  DmarcInv'
<1>. PICK d : d = job[j].domain
  OBVIOUS
<1>1. Advance(j) /\ torn' = torn \cup {RecordOf[d]} /\ UNCHANGED <<row, auth, deleg, busy>>
      /\ job[j].todo # <<>> /\ Head(job[j].todo) # "get"
  BY DEF DropIgnored, Did, Name
<1>2. JobRow(job[j]) /\ d \in Domains
  BY DEF DmarcInv, DmarcType, JobRow
<1>3. PICK c : /\ job' = [job EXCEPT ![j] = c] /\ c # Idle /\ JobRow(c)
               /\ NextCall(job[j], c)
  BY <1>1, <1>2, Advanced
<1>4. c.domain = d
  BY <1>3 DEF NextCall
<1>. QED
  BY <1>1, <1>3, <1>4, JobStep DEF DmarcInv, DmarcType

\* Writing the columns that differ.
LEMMA Merged ==
  ASSUME NEW r \in DmarcRow, NEW a \in DmarcRow, NEW o \in DmarcRow, NEW m,
         m = [x \in DOMAIN NoDomain |-> IF a[x] # o[x] THEN a[x] ELSE r[x]]
  PROVE  /\ m \in DmarcRow
         /\ o = r => m = a
         /\ a.live /\ o.live /\ r.live => m.live
<1>1. DOMAIN NoDomain = {"live", "auth", "managed", "policy"}
  BY DEF NoDomain
<1>2. m = [live |-> m.live, auth |-> m.auth, managed |-> m.managed, policy |-> m.policy]
  BY <1>1
<1>3. /\ m.live = IF a.live # o.live THEN a.live ELSE r.live
      /\ m.auth = IF a.auth # o.auth THEN a.auth ELSE r.auth
      /\ m.managed = IF a.managed # o.managed THEN a.managed ELSE r.managed
      /\ m.policy = IF a.policy # o.policy THEN a.policy ELSE r.policy
  BY <1>1
<1>4. /\ m.live \in {a.live, r.live} /\ m.auth \in {a.auth, r.auth}
      /\ m.managed \in {a.managed, r.managed} /\ m.policy \in {a.policy, r.policy}
  BY <1>3
<1>5. m \in DmarcRow
  <2>1. /\ a.live \in BOOLEAN /\ r.live \in BOOLEAN /\ a.auth \in BOOLEAN /\ r.auth \in BOOLEAN
        /\ a.managed \in BOOLEAN /\ r.managed \in BOOLEAN
        /\ a.policy \in Policies \cup {"none"} /\ r.policy \in Policies \cup {"none"}
    BY DEF DmarcRow
  <2>2. /\ m.live \in BOOLEAN /\ m.auth \in BOOLEAN /\ m.managed \in BOOLEAN
        /\ m.policy \in Policies \cup {"none"}
    BY <1>4, <2>1, Zenon
  <2>. QED
    BY <1>2, <2>2 DEF DmarcRow
<1>6. o = r => m = a
  <2>1. o = r => m.live = a.live /\ m.auth = a.auth /\ m.managed = a.managed /\ m.policy = a.policy
    BY <1>3, Zenon
  <2>2. a = [live |-> a.live, auth |-> a.auth, managed |-> a.managed, policy |-> a.policy]
    BY DEF DmarcRow
  <2>. QED
    BY <1>2, <2>1, <2>2, Zenon
<1>7. a.live /\ o.live /\ r.live => m.live
  BY <1>4, Zenon
<1>. QED
  BY <1>5, <1>6, <1>7

LEMMA CommitKeeps ==
  ASSUME DmarcInv, NEW j \in Jobs, CommitJob(j)
  PROVE  DmarcInv'
<1>1. Busy(j) /\ job[j].todo = <<>> /\ UNCHANGED <<auth, deleg, busy>>
  BY DEF CommitJob, Busy
<1>. DEFINE old == job[j]
<1>. PICK d : d = old.domain
  OBVIOUS
<1>2. /\ JobRow(old) /\ d \in Domains /\ row \in [Domains -> DmarcRow] /\ row[d] \in DmarcRow
      /\ deleg \in [Records -> Policies \cup {"none"}] /\ auth \subseteq Domains
      /\ \A e \in Domains : ~row[e].live => row[e] = NoDomain
  BY <1>1 DEF DmarcInv, DmarcType, JobRow
<1>. PICK c : c = Idle
  OBVIOUS
<1>3. c = Idle \/ (JobRow(c) /\ c.domain = d)
  OBVIOUS
<1>4. CASE old.op = "delete"
  <2>1. /\ row' = [row EXCEPT ![d] = NoDomain] /\ job' = [job EXCEPT ![j] = Idle]
        /\ torn' = torn \cup {n \in {RecordOf[d]} : row[d].managed \/ row[d].auth}
    BY <1>4 DEF CommitJob
  <2>2. NoDomain \in DmarcRow
    BY DEF NoDomain, DmarcRow
  <2>3. row'[d] = NoDomain /\ \A e \in Domains \ {d} : row'[e] = row[e]
    BY <1>2, <2>1
  <2>4. row' \in [Domains -> DmarcRow]
    BY <1>2, <2>1, <2>2
  <2>5. ASSUME Alone(d), RecordOf[d] \notin busy \cup torn' PROVE DomainInv(d)'
    <3>1. /\ old.old = row[d] /\ deleg[RecordOf[d]] = Serving(old)
          /\ d \in auth <=> Authorized(old)
      BY <1>1, <2>1, <2>5, TheOne
    <3>2. ~row[d].managed /\ ~row[d].auth /\ RecordOf[d] \notin busy \cup torn
      BY <2>1, <2>5
    <3>3. Serving(old) = "none" /\ ~Authorized(old)
      BY <1>4, <3>1, <3>2 DEF Serving, Authorized, Sent, Shows
    <3>4. Shows(NoDomain) = "none" /\ ~NoDomain.auth
      BY DEF Shows, NoDomain
    <3>5. deleg'[RecordOf[d]] = Shows(row'[d]) /\ (d \in auth' <=> row'[d].auth)
      BY <1>1, <2>3, <3>1, <3>3, <3>4
    <3>. QED
      BY <1>1, <2>1, <2>5, <3>2, <3>5, WorkEnds
  <2>6. /\ job' = [job EXCEPT ![j] = c] /\ busy' = busy /\ torn \subseteq torn'
        /\ deleg' \in [Records -> Policies \cup {"none"}] /\ auth' \subseteq Domains
        /\ \A e \in Domains : ~row'[e].live => row'[e] = NoDomain
        /\ \A e \in Domains \ {d} : row'[e] = row[e] /\ (e \in auth' <=> e \in auth)
        /\ \A n \in Records \ {RecordOf[d]} : deleg'[n] = deleg[n]
    BY <1>1, <1>2, <2>1, <2>3
  <2>7. Alone(d) /\ RecordOf[d] \notin busy \cup torn' => DomainInv(d)'
    BY <2>5
  <2>. QED
    BY <1>1, <1>3, <2>4, <2>6, <2>7, JobStep, Zenon
<1>5. CASE old.op # "delete" /\ ~row[d].live
  <2>1. GiveUp(j) /\ UNCHANGED row
    BY <1>5 DEF CommitJob
  <2>. QED
    BY <1>1, <2>1, GiveUpKeeps
<1>6. CASE old.op # "delete" /\ row[d].live
  <2>. DEFINE a == Assigned(old)
              m == [x \in DOMAIN NoDomain |-> IF a[x] # old.old[x] THEN a[x] ELSE row[d][x]]
  <2>1. /\ row' = [row EXCEPT ![d] = m] /\ job' = [job EXCEPT ![j] = Idle] /\ torn' = torn
    BY <1>6 DEF CommitJob
  <2>2. /\ a \in DmarcRow /\ a.live /\ old.old \in DmarcRow /\ old.old.live
        /\ Serving(old) = Shows(a) /\ (Authorized(old) <=> a.auth)
    BY <1>1, <1>2, <1>6, AllSent DEF JobRow
  <2>. HIDE DEF a
  <2>3. m \in DmarcRow /\ (old.old = row[d] => m = a) /\ m.live
    BY <1>2, <1>6, <2>2, Merged, SMTT(30)
  <2>. HIDE DEF m
  <2>4. row'[d] = m /\ \A e \in Domains \ {d} : row'[e] = row[e]
    BY <1>2, <2>1
  <2>5. row' \in [Domains -> DmarcRow]
    BY <1>2, <2>1, <2>3
  <2>6. ASSUME Alone(d), RecordOf[d] \notin busy \cup torn' PROVE DomainInv(d)'
    <3>1. /\ old.old = row[d] /\ deleg[RecordOf[d]] = Serving(old)
          /\ d \in auth <=> Authorized(old)
      BY <1>1, <2>1, <2>6, TheOne
    <3>2. deleg'[RecordOf[d]] = Shows(row'[d]) /\ (d \in auth' <=> row'[d].auth)
      BY <1>1, <2>2, <2>3, <2>4, <3>1
    <3>. QED
      BY <1>1, <2>1, <2>6, <3>2, WorkEnds
  <2>7. /\ job' = [job EXCEPT ![j] = c] /\ busy' = busy /\ torn \subseteq torn'
        /\ deleg' \in [Records -> Policies \cup {"none"}] /\ auth' \subseteq Domains
        /\ \A e \in Domains : ~row'[e].live => row'[e] = NoDomain
        /\ \A e \in Domains \ {d} : row'[e] = row[e] /\ (e \in auth' <=> e \in auth)
        /\ \A n \in Records \ {RecordOf[d]} : deleg'[n] = deleg[n]
    BY <1>1, <1>2, <2>1, <2>3, <2>4
  <2>8. Alone(d) /\ RecordOf[d] \notin busy \cup torn' => DomainInv(d)'
    BY <2>6
  <2>. QED
    BY <1>1, <1>3, <2>5, <2>7, <2>8, JobStep, Zenon
<1>. QED
  BY <1>4, <1>5, <1>6

LEMMA BeginJobKeeps ==
  ASSUME DmarcInv, NEW j \in Jobs, NEW op \in JobOps, NEW d \in Domains,
         NEW p \in Policies \cup {"none"}, BeginJob(j, op, d, p)
  PROVE  DmarcInv'
<1>. DEFINE n == RecordOf[d]
            c == [Idle EXCEPT !.op = op, !.todo = Steps(op), !.domain = d, !.policy = p, !.old = row[d]]
<1>1. /\ job[j] = Idle /\ row[d].live /\ p \in PoliciesOf(op) /\ UNCHANGED <<row, auth, deleg, torn>>
      /\ job' = [job EXCEPT ![j] = c]
      /\ busy' = busy \cup {n : i \in {k \in Jobs : job[k] # Idle /\ RecordOf[job[k].domain] = n}}
  BY DEF BeginJob
<1>2. /\ c.op = op /\ c.todo = Steps(op) /\ c.domain = d /\ c.policy = p /\ c.old = row[d]
      /\ c.wrote = FALSE /\ DOMAIN c = DOMAIN Idle
  BY DEF Idle
<1>. HIDE DEF c
<1>3. /\ DmarcType /\ OneAtWork /\ row[d] \in DmarcRow
      /\ \A e \in Domains : DomainInv(e)
  BY DEF DmarcInv, DmarcType
<1>4. JobRow(c)
  <2>1. c.todo \in Left(c.op)
    BY <1>2 DEF Left, Steps, JobOps
  <2>2. ~Sent(c) \/ op = "delete"
    BY <1>2, Tuples DEF Sent, Steps, JobOps
  <2>3. ~Sent(c) /\ ~Started(c)
    BY <1>2, <2>2 DEF Sent, Started, Steps
  <2>4. op = "off" => p = "none"
    BY <1>1 DEF PoliciesOf
  <2>. QED
    BY <1>1, <1>2, <1>3, <2>1, <2>3, <2>4 DEF JobRow
<1>5. /\ job'[j] = c /\ c # Idle /\ \A k \in Jobs \ {j} : job'[k] = job[k]
      /\ DOMAIN job' = Jobs
  BY <1>1, <1>2, <1>3 DEF DmarcType, Idle, JobOps
<1>6. DmarcType'
  <2>1. \A k \in Jobs : Busy(k)' => JobRow(job'[k])
    BY <1>3, <1>4, <1>5 DEF DmarcType, Busy
  <2>. QED
    BY <1>1, <1>3, <1>5, <2>1 DEF DmarcType
<1>7. \A k \in Jobs : Works(k, n) => n \in busy'
  BY <1>1 DEF Works, Busy, Name
<1>8. OneAtWork'
  <2>1. ASSUME NEW k \in Jobs, NEW l \in Jobs, Busy(k)', Busy(l)', Name(k)' = Name(l)', Name(k)' \notin busy'
        PROVE  k = l
    <3>1. Name(j)' = n
      BY <1>2, <1>5 DEF Name
    <3>2. \A i \in Jobs \ {j} : Name(i)' = Name(i) /\ (Busy(i)' <=> Busy(i))
      BY <1>5 DEF Name, Busy
    <3>3. CASE k # j /\ l # j
      BY <1>1, <1>3, <2>1, <3>2, <3>3 DEF OneAtWork
    <3>4. CASE k = j /\ l # j
      BY <1>7, <2>1, <3>1, <3>2, <3>4 DEF Works
    <3>5. CASE k # j /\ l = j
      BY <1>7, <2>1, <3>1, <3>2, <3>5 DEF Works
    <3>. QED
      BY <3>3, <3>4, <3>5
  <2>. QED
    BY <2>1 DEF OneAtWork
<1>9. ASSUME NEW e \in Domains PROVE DomainInv(e)'
  <2>1. CASE ~Alone(e) \/ RecordOf[e] \in busy' \cup torn'
    BY <2>1 DEF DomainInv, Alone
  <2>2. CASE Alone(e) /\ RecordOf[e] \notin busy' \cup torn' /\ RecordOf[e] = n
    <3>1. e = d
      BY <2>2 DEF Alone
    <3>2. /\ \A k \in Jobs : ~Works(k, n)
          /\ deleg[n] = Shows(row[d]) /\ (d \in auth <=> row[d].auth)
      BY <1>1, <1>3, <1>7, <2>2, <3>1 DEF DomainInv
    <3>3. Serving(c) = Shows(row[d]) /\ (Authorized(c) <=> row[d].auth)
      BY <1>2, <1>4, Untouched
    <3>4. \A k \in Jobs : Works(k, n)' <=> k = j
      <4>1. Works(j, n)'
        BY <1>2, <1>5 DEF Works, Busy, Name
      <4>2. \A k \in Jobs \ {j} : ~Works(k, n)'
        BY <1>5, <3>2 DEF Works, Busy, Name
      <4>. QED
        BY <4>1, <4>2
    <3>. QED
      BY <1>1, <1>2, <1>5, <3>1, <3>2, <3>3, <3>4 DEF DomainInv
  <2>3. CASE Alone(e) /\ RecordOf[e] # n
    <3>1. \A k \in Jobs : Works(k, RecordOf[e]) \/ Works(k, RecordOf[e])' => job'[k] = job[k]
      <4>1. ~Works(j, RecordOf[e]) /\ ~Works(j, RecordOf[e])'
        BY <1>1, <1>2, <1>5, <2>3 DEF Works, Name, Busy
      <4>. QED
        BY <1>5, <4>1
    <3>2. busy \subseteq busy' /\ torn \subseteq torn' /\ row'[e] = row[e] /\ (e \in auth' <=> e \in auth)
          /\ deleg'[RecordOf[e]] = deleg[RecordOf[e]]
      BY <1>1
    <3>. QED
      BY <1>3, <3>1, <3>2, ElseKept
  <2>. QED
    BY <2>1, <2>2, <2>3
<1>. QED
  BY <1>6, <1>8, <1>9 DEF DmarcInv

LEMMA AddDomainKeeps ==
  ASSUME DmarcInv, NEW d \in Domains, AddDomain(d)
  PROVE  DmarcInv'
<1>. DEFINE r == [NoDomain EXCEPT !.live = TRUE]
<1>1. /\ ~row[d].live /\ \A k \in Jobs : job[k].domain # d
      /\ row' = [row EXCEPT ![d] = r] /\ UNCHANGED <<auth, deleg, job, busy, torn>>
  BY DEF AddDomain
<1>2. /\ r \in DmarcRow /\ r.live /\ Shows(r) = "none" /\ ~r.auth
      /\ Shows(NoDomain) = "none" /\ ~NoDomain.auth
  BY DEF NoDomain, DmarcRow, Shows
<1>. HIDE DEF r
<1>3. /\ DmarcType /\ OneAtWork /\ row[d] = NoDomain
      /\ \A e \in Domains : DomainInv(e)
  BY <1>1 DEF DmarcInv, DmarcType
<1>4. row'[d] = r /\ \A e \in Domains \ {d} : row'[e] = row[e]
  BY <1>1, <1>3 DEF DmarcType
<1>5. DmarcType'
  <2>1. row' \in [Domains -> DmarcRow]
    BY <1>1, <1>2, <1>3 DEF DmarcType
  <2>2. \A e \in Domains : ~row'[e].live => row'[e] = NoDomain
    BY <1>2, <1>3, <1>4 DEF DmarcType
  <2>. QED
    BY <1>1, <1>3, <2>1, <2>2 DEF DmarcType, Busy
<1>6. OneAtWork'
  BY <1>1, <1>3 DEF OneAtWork, Busy, Name
<1>7. ASSUME NEW e \in Domains PROVE DomainInv(e)'
  <2>1. CASE e # d
    <3>1. \A k \in Jobs : Works(k, RecordOf[e]) \/ Works(k, RecordOf[e])' => job'[k] = job[k]
      BY <1>1
    <3>2. busy \subseteq busy' /\ torn \subseteq torn' /\ row'[e] = row[e] /\ (e \in auth' <=> e \in auth)
          /\ deleg'[RecordOf[e]] = deleg[RecordOf[e]]
      BY <1>1, <1>4, <2>1
    <3>. QED
      BY <1>3, <3>1, <3>2, ElseKept
  <2>2. CASE e = d
    <3>1. ASSUME Alone(d), RecordOf[d] \notin busy \cup torn
          PROVE  DomainInv(d)'
      <4>1. \A k \in Jobs : Busy(k) => job[k].domain \in Domains
        BY <1>3 DEF DmarcType, JobRow
      <4>2. \A k \in Jobs : ~Works(k, RecordOf[d])
        BY <1>1, <3>1, <4>1 DEF Works, Name, Alone
      <4>3. \A k \in Jobs : ~Works(k, RecordOf[d])'
        BY <1>1, <4>2 DEF Works, Name, Busy
      <4>4. deleg[RecordOf[d]] = "none" /\ d \notin auth
        BY <1>2, <1>3, <3>1, <4>2 DEF DomainInv
      <4>5. deleg'[RecordOf[d]] = Shows(r) /\ (d \in auth' <=> r.auth)
        BY <1>1, <1>2, <4>4
      <4>. QED
        BY <1>4, <4>3, <4>5 DEF DomainInv, Shows
    <3>2. CASE ~Alone(d) \/ RecordOf[d] \in busy \cup torn
      BY <1>1, <3>2, <2>2 DEF DomainInv, Alone
    <3>. QED
      BY <2>2, <3>1, <3>2
  <2>. QED
    BY <2>1, <2>2
<1>. QED
  BY <1>5, <1>6, <1>7 DEF DmarcInv

LEMMA RestartJobsKeeps ==
  ASSUME DmarcInv, RestartJobs
  PROVE  DmarcInv'
<1>1. /\ torn' = torn \cup {Name(j) : j \in {k \in Jobs : job[k] # Idle /\ job[k].wrote}}
      /\ job' = [j \in Jobs |-> Idle] /\ UNCHANGED <<row, auth, deleg, busy>>
  BY DEF RestartJobs
<1>2. \A k \in Jobs : ~Busy(k)'
  BY <1>1 DEF Busy
<1>3. /\ DmarcType /\ \A e \in Domains : DomainInv(e)
  BY DEF DmarcInv
<1>4. DmarcType' /\ OneAtWork'
  BY <1>1, <1>2, <1>3 DEF DmarcType, OneAtWork
<1>5. ASSUME NEW d \in Domains PROVE DomainInv(d)'
  <2>1. ASSUME Alone(d), RecordOf[d] \notin busy \cup torn'
        PROVE  deleg[RecordOf[d]] = Shows(row[d]) /\ (d \in auth <=> row[d].auth)
    <3>1. CASE \A k \in Jobs : ~Works(k, RecordOf[d])
      BY <1>1, <1>3, <2>1, <3>1 DEF DomainInv
    <3>2. ASSUME NEW k \in Jobs, Works(k, RecordOf[d])
          PROVE  deleg[RecordOf[d]] = Shows(row[d]) /\ (d \in auth <=> row[d].auth)
      <4>1. /\ job[k].old = row[d] /\ deleg[RecordOf[d]] = Serving(job[k])
            /\ d \in auth <=> Authorized(job[k])
        BY <1>1, <1>3, <2>1, <3>2 DEF DomainInv
      <4>2. JobRow(job[k]) /\ ~job[k].wrote
        BY <1>1, <1>3, <2>1, <3>2 DEF DmarcType, Works, Busy
      <4>. QED
        BY <4>1, <4>2, Untouched
    <3>. QED
      BY <3>1, <3>2
  <2>2. \A k \in Jobs : ~Works(k, RecordOf[d])'
    BY <1>2 DEF Works
  <2>3. Alone(d) /\ RecordOf[d] \notin busy' \cup torn'
          => deleg'[RecordOf[d]] = Shows(row'[d]) /\ (d \in auth' <=> row'[d].auth)
    BY <1>1, <2>1
  <2>. QED
    BY <2>2, <2>3 DEF DomainInv, Shows, Alone
<1>. QED
  BY <1>4, <1>5 DEF DmarcInv

LEMMA DmarcInitInv == DmarcInit => DmarcInv
<1>. SUFFICES ASSUME DmarcInit PROVE DmarcInv
  OBVIOUS
<1>. DEFINE r == [NoDomain EXCEPT !.live = TRUE]
<1>1. /\ row = [d \in Domains |-> r] /\ auth = {} /\ deleg = [n \in Records |-> "none"]
      /\ job = [j \in Jobs |-> Idle]
  BY DEF DmarcInit
<1>2. r \in DmarcRow /\ r.live /\ Shows(r) = "none" /\ ~r.auth
  BY DEF NoDomain, DmarcRow, Shows
<1>. HIDE DEF r
<1>3. \A j \in Jobs : ~Busy(j)
  BY <1>1 DEF Busy
<1>4. DmarcType /\ OneAtWork
  BY <1>1, <1>2, <1>3 DEF DmarcType, OneAtWork
<1>5. \A d \in Domains : RecordOf[d] \in Records
  BY DEF Records
<1>6. \A d \in Domains : DomainInv(d)
  BY <1>1, <1>2, <1>3, <1>5 DEF DomainInv, Works
<1>. QED
  BY <1>4, <1>6 DEF DmarcInv

LEMMA DmarcStep == DmarcInv /\ [DmarcNext]_dmarcVars => DmarcInv'
<1>. SUFFICES ASSUME DmarcInv, [DmarcNext]_dmarcVars PROVE DmarcInv'
  OBVIOUS
<1>2. \A j \in Jobs : job[j].todo # <<>> => Busy(j)
  BY DEF Busy, Idle
<1>3. ASSUME NEW j \in Jobs, NEW d \in Domains, NEW op \in JobOps, NEW p \in Policies \cup {"none"},
             BeginJob(j, op, d, p)
      PROVE  DmarcInv'
  BY <1>3, BeginJobKeeps
<1>4. ASSUME NEW j \in Jobs, GetRecord(j) PROVE DmarcInv'
  BY <1>2, <1>4, GetRecordKeeps DEF GetRecord, Did
<1>5. ASSUME NEW j \in Jobs, WriteRecord(j) PROVE DmarcInv'
  BY <1>2, <1>5, WriteRecordKeeps DEF WriteRecord, Effect, Did
<1>6. ASSUME NEW j \in Jobs, AnswerLost(j) PROVE DmarcInv'
  BY <1>2, <1>6, AnswerLostKeeps DEF AnswerLost, Effect, Did
<1>7. ASSUME NEW j \in Jobs, DropIgnored(j) PROVE DmarcInv'
  BY <1>2, <1>7, DropIgnoredKeeps DEF DropIgnored, Did
<1>8. ASSUME NEW j \in Jobs, CallFails(j) PROVE DmarcInv'
  BY <1>2, <1>8, GiveUpKeeps DEF CallFails
<1>9. ASSUME NEW j \in Jobs, CommitJob(j) PROVE DmarcInv'
  BY <1>9, CommitKeeps
<1>10. ASSUME NEW d \in Domains, AddDomain(d) PROVE DmarcInv'
  BY <1>10, AddDomainKeeps
<1>11. CASE RestartJobs
  BY <1>11, RestartJobsKeeps
<1>12. CASE UNCHANGED dmarcVars
  BY <1>12 DEF dmarcVars, DmarcInv, DmarcType, OneAtWork, DomainInv, Works, Busy, Name
<1>. QED
  BY <1>3, <1>4, <1>5, <1>6, <1>7, <1>8, <1>9, <1>10, <1>11, <1>12 DEF DmarcNext

\* The zone and the row of a domain agree when nobody is at work on them: for
\* any number of domains, requests and policies, whatever fails and whenever
\* the service restarts, unless two requests met or one left half of it done.
THEOREM ZoneInStep == DmarcSpec => []InStep
<1>1. DmarcInv => InStep
  <2>. SUFFICES ASSUME DmarcInv, NEW d \in Domains, Alone(d), Quiet(RecordOf[d]),
                       RecordOf[d] \notin busy \cup torn
                PROVE  /\ deleg[RecordOf[d]] = (IF row[d].managed THEN row[d].policy ELSE "none")
                       /\ d \in auth <=> row[d].auth
    BY DEF InStep
  <2>1. \A j \in Jobs : ~Works(j, RecordOf[d])
    BY DEF Quiet, Works, Busy
  <2>. QED
    BY <2>1 DEF DmarcInv, DomainInv, Shows
<1>. QED
  BY <1>1, DmarcInitInv, DmarcStep, PTL DEF DmarcSpec

(* Accounts: what a request has found out holds until it commits, as long  *)
(* as no other request is about the same user, tenant, reseller or link.   *)

UserRow == [row : {"new", "live", "gone"}, email : Emails \cup {None}, tenant : Tenancies \cup {None},
            admin : BOOLEAN, super : BOOLEAN, rs : BOOLEAN, pw : {"first", "own", "reset"}]
TenantRow == [row : {"new", "live", "gone"}, reseller : Resellers \cup {None}, extra : BOOLEAN]
ResellerRow == [row : {"new", "live", "gone"}, seats : 0..MaxSeats, lowered : BOOLEAN]
LinkRow == [kind : {None, "reset", "signup"}, email : Emails \cup {None}, spent : BOOLEAN, late : BOOLEAN]

CallOps == {"role", "delete", "user", "password", "tenant", "rsadmin", "promote", "dropreseller",
            "droptenant", "reset", "confirm"}

CallRow ==
  [op : CallOps, by : Users \cup {None}, id : Users \cup {None}, email : Emails \cup {None},
   tenant : Tenancies \cup {None}, reseller : Resellers \cup {None}, link : Links \cup {None},
   flag : BOOLEAN, fresh : BOOLEAN, was : BOOLEAN, own : BOOLEAN]

\* What a request of each kind names.
Shaped(c) ==
  /\ c \in CallRow
  /\ c.op \in {"role", "delete"} => c.id \in Users /\ c.by \in Users /\ c.tenant \in Tenancies /\ c.id # c.by
  /\ c.op \in {"role", "delete", "password", "promote", "reset"} => c.id \in Users /\ ~c.fresh
  /\ c.op \in {"role", "delete", "user", "password", "promote", "dropreseller", "droptenant"} => c.link = None
  /\ c.op \in {"user", "droptenant"} => c.tenant \in Tenancies
  /\ c.op \in {"promote", "rsadmin", "dropreseller"} => c.reseller \in Resellers
  /\ c.op = "dropreseller" => c.reseller # Platform
  /\ c.op \in {"user", "tenant", "rsadmin", "confirm"} => c.email \in Emails
  /\ c.op = "user" => ~c.fresh
  /\ c.op = "tenant" => c.fresh
  /\ c.fresh => c.flag /\ (c.op # "tenant" => c.op \in {"rsadmin", "confirm"})
  /\ c.op = "rsadmin" => c.flag /\ (c.fresh <=> c.tenant = None)
  /\ c.op \in {"reset", "confirm"} => c.link \in Links
  /\ c.op = "confirm" => c.fresh /\ c.reseller = None
  /\ c.op \in {"tenant", "rsadmin"} => c.link = None

\* and what it relies on: the row it changes, its rights,
Rows(c) ==
  /\ c.id # None => user[c.id].row # "new"
  /\ c.op \in {"role", "delete"} => user[c.id].tenant = c.tenant
  /\ c.tenant # None => tenant[c.tenant].row # "new"
  /\ c.reseller # None => reseller[c.reseller].row # "new"
  /\ c.link # None => link[c.link].kind # None

Rights(c) == c.op \in {"role", "delete"} /\ c.own => c.by \in LiveUsers /\ Governs(c.by, c.tenant)
\* its link, its seat,
Unspent(c) == c.link # None => ~link[c.link].spent
Counted(x) == {t \in Customers(x) : ~tenant[t].extra}
Seat(c) ==
  c.op = "tenant" /\ c.reseller # None =>
    Cardinality(Counted(c.reseller)) + 1 <= reseller[c.reseller].seats \/ reseller[c.reseller].lowered
\* and the reseller of the tenant.
Home(c) ==
  /\ c.op = "rsadmin" /\ ~c.fresh => tenant[c.tenant].reseller = c.reseller
  /\ c.op = "promote" => tenant[user[c.id].tenant].reseller = c.reseller
  /\ c.op = "dropreseller" => Customers(c.reseller) = {}

Open(r) == call[r] # NoCall
AccType ==
  /\ user \in [Users -> UserRow] /\ tenant \in [Tenancies -> TenantRow]
  /\ reseller \in [Resellers -> ResellerRow] /\ link \in [Links -> LinkRow]
  /\ session \in [Browsers -> [user : Users \cup {None}, acting : Tenancies \cup {None}]]
  /\ call \in [Calls -> CallRow \cup {NoCall}] /\ used \in [Links -> Nat]
  /\ \A r \in Calls : Open(r) => Shaped(call[r]) /\ Rows(call[r])

RowsInv ==
  /\ \A u \in Users : user[u].row # "new" => user[u].tenant \in Tenancies /\ tenant[user[u].tenant].row # "new"
  /\ \A u, v \in LiveUsers : user[u].email = user[v].email => u = v
  /\ \A u \in LiveUsers : user[u].tenant \in LiveTenants
  /\ \A t \in LiveTenants : tenant[t].reseller \in LiveResellers \cup {None}
  /\ Platform \in LiveResellers

Apart == \A q, r \in Calls : q # r => About(call[q]) \cap About(call[r]) \subseteq crowded

LinkInv ==
  /\ \A l \in Links : link[l].kind = None => used[l] = 0 /\ ~link[l].spent
  /\ \A l \in Links : link[l].kind # None => link[l].email \in Emails
  /\ \A l \in Links \ crowded : used[l] = IF link[l].spent THEN 1 ELSE 0
  /\ \A r \in Calls : call[r].link \notin crowded => Unspent(call[r])

AdminInv ==
  /\ \A t \in LiveTenants \ (crowded \cup outside) : \E u \in LiveUsers : Governs(u, t)
  /\ \A r \in Calls : call[r].tenant \notin crowded => Rights(call[r])

SeatInv ==
  \A x \in Resellers \ (crowded \cup {Platform}) :
    /\ Cardinality(Counted(x)) <= reseller[x].seats \/ reseller[x].lowered
    /\ \A r \in Calls : call[r].reseller = x => Seat(call[r])

BelongInv ==
  crowded \cap Resellers = {} =>
    /\ \A u \in LiveUsers : user[u].rs => tenant[user[u].tenant].reseller # None
    /\ \A r \in Calls : Home(call[r])

AccInv == AccType /\ RowsInv /\ Apart /\ LinkInv /\ AdminInv /\ SeatInv /\ BelongInv

LEMMA NoCallIs ==
  /\ NoCall.op = None /\ NoCall.id = None /\ NoCall.tenant = None /\ NoCall.reseller = None
  /\ NoCall.link = None /\ NoCall.by = None /\ ~NoCall.fresh /\ ~NoCall.own
  /\ Rights(NoCall) /\ Unspent(NoCall) /\ Seat(NoCall) /\ Home(NoCall) /\ About(NoCall) = {}
<1>1. /\ NoCall.op = None /\ NoCall.id = None /\ NoCall.tenant = None /\ NoCall.reseller = None
      /\ NoCall.link = None /\ NoCall.by = None /\ ~NoCall.fresh /\ ~NoCall.own
  BY DEF NoCall
<1>. QED
  BY <1>1 DEF Rights, Unspent, Seat, Home, About, None

LEMMA AccInitInv == AccInit => AccInv
<1>. SUFFICES ASSUME AccInit PROVE AccInv
  OBVIOUS
<1>1. /\ user = [u \in Users |-> NoUser]
      /\ tenant = [t \in Tenancies |-> [row |-> "new", reseller |-> None, extra |-> FALSE]]
      /\ reseller = [x \in Resellers |-> [row |-> IF x = Platform THEN "live" ELSE "new",
                                          seats |-> IF x = Platform THEN MaxSeats ELSE 0, lowered |-> FALSE]]
      /\ link = [l \in Links |-> [kind |-> None, email |-> None, spent |-> FALSE, late |-> FALSE]]
      /\ session = [b \in Browsers |-> [user |-> None, acting |-> None]]
      /\ call = [r \in Calls |-> NoCall] /\ used = [l \in Links |-> 0]
      /\ crowded = {} /\ outside = {}
  BY DEF AccInit
<1>2. LiveUsers = {} /\ LiveTenants = {}
  BY <1>1 DEF LiveUsers, LiveTenants, NoUser
<1>3. \A r \in Calls : call[r] = NoCall
  BY <1>1
<1>4. AccType
  <2>1. NoUser \in UserRow /\ \A t \in Tenancies : tenant[t] \in TenantRow
    BY <1>1 DEF NoUser, UserRow, TenantRow
  <2>2. reseller \in [Resellers -> ResellerRow]
    BY <1>1, AccountsAssumption DEF ResellerRow
  <2>3. link \in [Links -> LinkRow] /\ used \in [Links -> Nat]
    BY <1>1 DEF LinkRow
  <2>. QED
    BY <1>1, <1>3, <2>1, <2>2, <2>3 DEF AccType, Open
<1>5. RowsInv
  BY <1>1, <1>2, AccountsAssumption DEF RowsInv, LiveResellers, NoUser
<1>6. Apart
  BY <1>3, NoCallIs DEF Apart
<1>7. LinkInv
  BY <1>1, <1>3, NoCallIs DEF LinkInv
<1>8. AdminInv
  BY <1>2, <1>3, NoCallIs DEF AdminInv
<1>9. SeatInv
  <2>1. \A x \in Resellers : Counted(x) = {} /\ reseller[x].seats \in Nat
    BY <1>1, <1>2, AccountsAssumption DEF Counted, Customers
  <2>. QED
    BY <1>3, <2>1, NoCallIs, FS_EmptySet DEF SeatInv
<1>10. BelongInv
  BY <1>2, <1>3, NoCallIs DEF BelongInv
<1>. QED
  BY <1>4, <1>5, <1>6, <1>7, <1>8, <1>9, <1>10 DEF AccInv

\* A request that starts.
Sound(c) == Shaped(c) /\ Rows(c) /\ Rights(c) /\ Unspent(c) /\ Seat(c) /\ Home(c)

LEMMA StartKeeps ==
  ASSUME AccInv, NEW r \in Calls, NEW c, Start(r, c), Sound(c)
  PROVE  AccInv'
<1>1. /\ call[r] = NoCall /\ call' = [call EXCEPT ![r] = c]
      /\ crowded' = crowded \cup (About(c) \cap UNION {About(call[q]) : q \in Calls})
      /\ user' = user /\ tenant' = tenant /\ reseller' = reseller /\ link' = link
      /\ session' = session /\ used' = used /\ outside' = outside
  BY DEF Start
<1>2. AccType /\ RowsInv /\ Apart /\ LinkInv /\ AdminInv /\ SeatInv /\ BelongInv
  BY DEF AccInv
<1>3. call'[r] = c /\ (\A q \in Calls \ {r} : call'[q] = call[q]) /\ c \in CallRow
  BY <1>1, <1>2 DEF AccType, Sound, Shaped
<1>4. crowded \subseteq crowded'
  BY <1>1
<1>5. AccType'
  <2>1. call' \in [Calls -> CallRow \cup {NoCall}]
    BY <1>1, <1>2, <1>3 DEF AccType
  <2>2. \A q \in Calls : Open(q)' => Shaped(call[q])'
    BY <1>2, <1>3 DEF AccType, Open, Sound
  <2>3. \A q \in Calls : Open(q)' => Rows(call[q])'
    BY <1>1, <1>2, <1>3 DEF AccType, Open, Sound, Rows
  <2>. QED
    BY <1>1, <1>2, <2>1, <2>2, <2>3 DEF AccType
<1>6. RowsInv'
  BY <1>1, <1>2 DEF RowsInv, LiveUsers, LiveTenants, LiveResellers
<1>7. Apart'
  <2>1. ASSUME NEW p \in Calls, NEW q \in Calls, p # q
        PROVE  About(call'[p]) \cap About(call'[q]) \subseteq crowded'
    <3>1. CASE p = r
      BY <1>1, <1>3, <2>1, <3>1
    <3>2. CASE q = r
      BY <1>1, <1>3, <2>1, <3>2
    <3>3. CASE p # r /\ q # r
      BY <1>2, <1>3, <1>4, <2>1, <3>3 DEF Apart
    <3>. QED
      BY <3>1, <3>2, <3>3
  <2>. QED
    BY <2>1 DEF Apart, About
<1>8. LinkInv'
  <2>1. \A q \in Calls : call'[q].link \notin crowded' => Unspent(call[q])'
    BY <1>1, <1>2, <1>3 DEF LinkInv, Unspent, Sound
  <2>. QED
    BY <1>1, <1>2, <2>1 DEF LinkInv
<1>9. AdminInv'
  <2>1. \A q \in Calls : call'[q].tenant \notin crowded' => Rights(call[q])'
    BY <1>1, <1>2, <1>3 DEF AdminInv, Rights, Sound, Governs, LiveUsers
  <2>. QED
    BY <1>1, <1>2, <2>1 DEF AdminInv, Governs, LiveUsers, LiveTenants
<1>10. SeatInv'
  <2>1. \A y : Counted(y)' = Counted(y)
    BY <1>1 DEF Counted, Customers, LiveTenants
  <2>2. ASSUME NEW x \in Resellers \ (crowded' \cup {Platform}), NEW q \in Calls, call'[q].reseller = x
        PROVE  Seat(call[q])'
    <3>. PICK d : d = call'[q]
      OBVIOUS
    <3>1. Seat(d)
      BY <1>2, <1>3, <1>4, <2>2 DEF SeatInv, Sound
    <3>. QED
      BY <1>1, <2>1, <3>1 DEF Seat
  <2>3. \A x \in Resellers \ (crowded' \cup {Platform}) :
          Cardinality(Counted(x)) <= reseller[x].seats \/ reseller[x].lowered
    BY <1>2, <1>4 DEF SeatInv
  <2>. QED
    BY <1>1, <2>1, <2>2, <2>3 DEF SeatInv
<1>11. BelongInv'
  <2>1. crowded' \cap Resellers = {} => \A q \in Calls : Home(call[q])'
    BY <1>1, <1>2, <1>3 DEF BelongInv, Home, Sound, Customers, LiveTenants
  <2>. QED
    BY <1>1, <1>2, <2>1 DEF BelongInv, LiveUsers
<1>. QED
  BY <1>5, <1>6, <1>7, <1>8, <1>9, <1>10, <1>11 DEF AccInv

\* Who is logged in is a user; whoever may be managed is one of a live tenant.
LEMMA MeIs ==
  ASSUME AccInv, NEW b \in Browsers, LoggedIn(b)
  PROVE  Me(b) \in LiveUsers /\ Me(b) \in Users /\ Me(b) # None
BY AccountsAssumption DEF LoggedIn, Me, LiveUsers

LEMMA ReachIs ==
  ASSUME AccInv, NEW b \in Browsers, NEW t \in Reach(b)
  PROVE  LoggedIn(b) /\ t \in LiveTenants /\ t \in Tenancies
BY DEF Reach, RequireAdmin, RequireReseller, LiveTenants

LEMMA ChangeUserKeeps ==
  ASSUME AccInv, NEW r \in Calls, NEW b \in Browsers, NEW op \in {"role", "delete"}, NEW u \in Users,
         NEW flag \in BOOLEAN, ChangeUser(r, b, op, u, flag)
  PROVE  AccInv'
<1>. PICK me, t : me = Me(b) /\ t = user[u].tenant
  OBVIOUS
<1>. PICK own : own \in BOOLEAN /\ own = Governs(me, t)
  BY Zenon DEF Governs
<1>. PICK was : was \in BOOLEAN /\ was = user[u].admin
  BY DEF AccInv, AccType, UserRow
<1>. DEFINE c == [NoCall EXCEPT !.op = op, !.by = me, !.id = u, !.flag = flag,
                               !.tenant = t, !.was = was, !.own = own]
<1>1. u \in LiveUsers /\ t \in Reach(b) /\ u # me
  BY DEF ChangeUser, MayChange
<1>2. me \in LiveUsers /\ me \in Users /\ t \in Tenancies /\ t \in LiveTenants
  BY <1>1, ReachIs, MeIs
<1>3. Start(r, c)
  BY Zenon DEF ChangeUser
<1>4. c \in CallRow
  BY <1>2, ZenonT(40) DEF CallRow, CallOps, NoCall
<1>5. /\ c.op = op /\ c.by = me /\ c.id = u /\ c.tenant = t /\ c.reseller = None /\ c.link = None
      /\ c.fresh = FALSE /\ c.own = own
  BY DEF NoCall
<1>. HIDE DEF c
<1>6. Shaped(c)
  BY <1>1, <1>2, <1>4, <1>5 DEF Shaped
<1>7. Rights(c)
  BY <1>2, <1>5 DEF Rights
<1>8. Rows(c) /\ Unspent(c) /\ Seat(c) /\ Home(c)
  BY <1>1, <1>2, <1>5 DEF Rows, Unspent, Seat, Home, LiveUsers, LiveTenants
<1>. QED
  BY <1>3, <1>6, <1>7, <1>8, StartKeeps DEF Sound

LEMMA CreateUserKeeps ==
  ASSUME AccInv, NEW r \in Calls, NEW b \in Browsers, NEW t \in Tenancies, NEW e \in Emails,
         NEW flag \in BOOLEAN, CreateUser(r, b, t, e, flag)
  PROVE  AccInv'
<1>. PICK me : me = Me(b)
  OBVIOUS
<1>. DEFINE c == [NoCall EXCEPT !.op = "user", !.by = me, !.tenant = t, !.email = e, !.flag = flag]
<1>1. me \in Users /\ t \in LiveTenants
  BY ReachIs, MeIs DEF CreateUser
<1>2. Start(r, c)
  BY Zenon DEF CreateUser
<1>3. c \in CallRow
  BY <1>1 DEF CallRow, CallOps, NoCall
<1>4. /\ c.op = "user" /\ c.id = None /\ c.tenant = t /\ c.reseller = None /\ c.link = None
      /\ c.fresh = FALSE /\ c.email = e
  BY DEF NoCall
<1>. HIDE DEF c
<1>5. Shaped(c)
  BY <1>3, <1>4 DEF Shaped
<1>6. Rows(c) /\ Rights(c) /\ Unspent(c) /\ Seat(c) /\ Home(c)
  BY <1>1, <1>4 DEF Rows, Rights, Unspent, Seat, Home, LiveTenants
<1>. QED
  BY <1>2, <1>5, <1>6, StartKeeps DEF Sound

LEMMA ChangePasswordKeeps ==
  ASSUME AccInv, NEW r \in Calls, NEW b \in Browsers, ChangePassword(r, b)
  PROVE  AccInv'
<1>. PICK me : me = Me(b)
  OBVIOUS
<1>1. me \in LiveUsers /\ me \in Users
  BY MeIs DEF ChangePassword
<1>. PICK was : was \in BOOLEAN /\ was = user[me].admin
  BY <1>1 DEF AccInv, AccType, UserRow
<1>. DEFINE c == [NoCall EXCEPT !.op = "password", !.by = me, !.id = me, !.was = was]
<1>2. Start(r, c)
  BY Zenon DEF ChangePassword
<1>3. c \in CallRow
  BY <1>1 DEF CallRow, CallOps, NoCall
<1>4. /\ c.op = "password" /\ c.id = me /\ c.tenant = None /\ c.reseller = None /\ c.link = None
      /\ c.fresh = FALSE
  BY DEF NoCall
<1>. HIDE DEF c
<1>5. Shaped(c)
  BY <1>1, <1>3, <1>4 DEF Shaped
<1>6. Rows(c) /\ Rights(c) /\ Unspent(c) /\ Seat(c) /\ Home(c)
  BY <1>1, <1>4 DEF Rows, Rights, Unspent, Seat, Home, LiveUsers
<1>. QED
  BY <1>2, <1>5, <1>6, StartKeeps DEF Sound

\* The tenants that count are customers.
LEMMA CountedIs ==
  ASSUME NEW x
  PROVE  /\ IsFiniteSet(Customers(x)) /\ IsFiniteSet(Counted(x))
         /\ Cardinality(Customers(x)) \in Nat /\ Cardinality(Counted(x)) \in Nat
         /\ Cardinality(Counted(x)) <= Cardinality(Customers(x))
<1>1. Customers(x) \subseteq Tenancies /\ Counted(x) \subseteq Customers(x)
  BY DEF Customers, Counted, LiveTenants
<1>2. IsFiniteSet(Customers(x)) /\ IsFiniteSet(Counted(x))
  BY <1>1, AccountsAssumption, FS_Subset
<1>. QED
  BY <1>1, <1>2, FS_Subset, FS_CardinalityType

LEMMA CreateTenantKeeps ==
  ASSUME AccInv, NEW r \in Calls, NEW b \in Browsers, NEW x \in Resellers \cup {None}, NEW e \in Emails,
         CreateTenant(r, b, x, e)
  PROVE  AccInv'
<1>. PICK me : me = Me(b)
  OBVIOUS
<1>. DEFINE c == [NoCall EXCEPT !.op = "tenant", !.by = me, !.reseller = x, !.email = e,
                               !.fresh = TRUE, !.flag = TRUE]
<1>1. me \in LiveUsers /\ me \in Users
  BY MeIs DEF CreateTenant, RequireReseller, RequireSuper
<1>2. Start(r, c)
  BY Zenon DEF CreateTenant
<1>3. c \in CallRow
  BY <1>1 DEF CallRow, CallOps, NoCall
<1>4. /\ c.op = "tenant" /\ c.id = None /\ c.tenant = None /\ c.reseller = x /\ c.link = None
      /\ c.fresh = TRUE /\ c.flag = TRUE /\ c.email = e
  BY DEF NoCall
<1>. HIDE DEF c
<1>5. Shaped(c)
  BY <1>3, <1>4 DEF Shaped
<1>6. x # None => HasSeat(x) /\ reseller[x].row # "new"
  <2>1. x # None => x = Managed(me) /\ HasSeat(x)
    BY DEF CreateTenant
  <2>2. x # None => x \in LiveResellers
    BY <1>1, <2>1, AccountsAssumption DEF Managed, AccInv, RowsInv
  <2>. QED
    BY <2>1, <2>2 DEF LiveResellers
<1>7. Seat(c)
  <2>1. x # None => reseller[x].seats \in Nat
    BY DEF AccInv, AccType, ResellerRow
  <2>. QED
    BY <1>4, <1>6, <2>1, CountedIs DEF Seat, HasSeat
<1>8. Rows(c) /\ Rights(c) /\ Unspent(c) /\ Home(c)
  BY <1>4, <1>6 DEF Rows, Rights, Unspent, Home
<1>. QED
  BY <1>2, <1>5, <1>7, <1>8, StartKeeps DEF Sound

LEMMA CreateResellerAdminKeeps ==
  ASSUME AccInv, NEW r \in Calls, NEW b \in Browsers, NEW x \in Resellers, NEW t \in Tenancies \cup {None},
         NEW e \in Emails, CreateResellerAdmin(r, b, x, t, e)
  PROVE  AccInv'
<1>. PICK me : me = Me(b)
  OBVIOUS
<1>. PICK fresh : fresh \in BOOLEAN /\ fresh = (t = None)
  BY Zenon
<1>. DEFINE c == [NoCall EXCEPT !.op = "rsadmin", !.by = me, !.reseller = x, !.tenant = t,
                               !.email = e, !.fresh = fresh, !.flag = TRUE]
<1>1. /\ me \in LiveUsers /\ me \in Users /\ x \in LiveResellers
      /\ t = None \/ t \in Customers(x)
  BY MeIs DEF CreateResellerAdmin, RequireSuper
<1>2. Start(r, c)
  BY Zenon DEF CreateResellerAdmin
<1>3. c \in CallRow
  BY <1>1 DEF CallRow, CallOps, NoCall
<1>4. /\ c.op = "rsadmin" /\ c.id = None /\ c.tenant = t /\ c.reseller = x /\ c.link = None
      /\ c.fresh = fresh /\ c.flag = TRUE /\ c.email = e
  BY DEF NoCall
<1>. HIDE DEF c
<1>5. Shaped(c)
  BY <1>3, <1>4 DEF Shaped
<1>6. Rows(c) /\ Rights(c) /\ Unspent(c) /\ Seat(c) /\ Home(c)
  BY <1>1, <1>4 DEF Rows, Rights, Unspent, Seat, Home, LiveResellers, Customers, LiveTenants
<1>. QED
  BY <1>2, <1>5, <1>6, StartKeeps DEF Sound

LEMMA PromoteKeeps ==
  ASSUME AccInv, NEW r \in Calls, NEW b \in Browsers, NEW x \in Resellers, NEW u \in Users,
         Promote(r, b, x, u)
  PROVE  AccInv'
<1>. PICK me : me = Me(b)
  OBVIOUS
<1>. PICK was : was \in BOOLEAN /\ was = user[u].admin
  BY DEF AccInv, AccType, UserRow
<1>. DEFINE c == [NoCall EXCEPT !.op = "promote", !.by = me, !.reseller = x, !.id = u, !.was = was]
<1>1. /\ me \in LiveUsers /\ me \in Users /\ x \in LiveResellers /\ u \in LiveUsers
      /\ user[u].tenant \in Customers(x)
  BY MeIs DEF Promote, RequireSuper
<1>2. Start(r, c)
  BY Zenon DEF Promote
<1>3. c \in CallRow
  BY <1>1 DEF CallRow, CallOps, NoCall
<1>4. /\ c.op = "promote" /\ c.id = u /\ c.tenant = None /\ c.reseller = x /\ c.link = None
      /\ c.fresh = FALSE
  BY DEF NoCall
<1>. HIDE DEF c
<1>5. Shaped(c)
  BY <1>3, <1>4 DEF Shaped
<1>6. Rows(c) /\ Rights(c) /\ Unspent(c) /\ Seat(c) /\ Home(c)
  BY <1>1, <1>4 DEF Rows, Rights, Unspent, Seat, Home, LiveResellers, LiveUsers, Customers
<1>. QED
  BY <1>2, <1>5, <1>6, StartKeeps DEF Sound

LEMMA DropTenantKeeps ==
  ASSUME AccInv, NEW r \in Calls, NEW b \in Browsers, NEW t \in Tenancies, DropTenant(r, b, t)
  PROVE  AccInv'
<1>. PICK me : me = Me(b)
  OBVIOUS
<1>. DEFINE c == [NoCall EXCEPT !.op = "droptenant", !.by = me, !.tenant = t]
<1>1. me \in Users /\ t \in LiveTenants
  BY MeIs DEF DropTenant, Entrable, RequireSuper, RequireReseller
<1>2. Start(r, c)
  BY Zenon DEF DropTenant
<1>3. c \in CallRow
  BY <1>1 DEF CallRow, CallOps, NoCall
<1>4. /\ c.op = "droptenant" /\ c.id = None /\ c.tenant = t /\ c.reseller = None /\ c.link = None
      /\ c.fresh = FALSE
  BY DEF NoCall
<1>. HIDE DEF c
<1>5. Shaped(c)
  BY <1>3, <1>4 DEF Shaped
<1>6. Rows(c) /\ Rights(c) /\ Unspent(c) /\ Seat(c) /\ Home(c)
  BY <1>1, <1>4 DEF Rows, Rights, Unspent, Seat, Home, LiveTenants
<1>. QED
  BY <1>2, <1>5, <1>6, StartKeeps DEF Sound

LEMMA DropResellerKeeps ==
  ASSUME AccInv, NEW r \in Calls, NEW b \in Browsers, NEW x \in Resellers, DropReseller(r, b, x)
  PROVE  AccInv'
<1>. PICK me : me = Me(b)
  OBVIOUS
<1>. DEFINE c == [NoCall EXCEPT !.op = "dropreseller", !.by = me, !.reseller = x]
<1>1. me \in Users /\ x \in LiveResellers /\ x # Platform /\ Customers(x) = {}
  BY MeIs DEF DropReseller, MayDrop, RequireSuper
<1>2. Start(r, c)
  BY Zenon DEF DropReseller
<1>3. c \in CallRow
  BY <1>1 DEF CallRow, CallOps, NoCall
<1>4. /\ c.op = "dropreseller" /\ c.id = None /\ c.tenant = None /\ c.reseller = x /\ c.link = None
      /\ c.fresh = FALSE
  BY DEF NoCall
<1>. HIDE DEF c
<1>5. Shaped(c)
  BY <1>1, <1>3, <1>4 DEF Shaped
<1>6. Rows(c) /\ Rights(c) /\ Unspent(c) /\ Seat(c) /\ Home(c)
  BY <1>1, <1>4 DEF Rows, Rights, Unspent, Seat, Home, LiveResellers
<1>. QED
  BY <1>2, <1>5, <1>6, StartKeeps DEF Sound

LEMMA UseResetKeeps ==
  ASSUME AccInv, NEW r \in Calls, NEW l \in Links, UseReset(r, l)
  PROVE  AccInv'
<1>1. link[l].kind # None /\ ~link[l].spent
  BY DEF UseReset, LinkOpen, None
<1>. PICK u \in LiveUsers : Start(r, [NoCall EXCEPT !.op = "reset", !.link = l, !.id = u, !.was = user[u].admin])
  BY Zenon DEF UseReset
<1>2. u \in Users
  BY DEF LiveUsers
<1>. PICK was : was \in BOOLEAN /\ was = user[u].admin
  BY <1>2 DEF AccInv, AccType, UserRow
<1>. DEFINE c == [NoCall EXCEPT !.op = "reset", !.link = l, !.id = u, !.was = was]
<1>3. Start(r, c)
  BY Zenon
<1>4. c \in CallRow
  BY <1>2 DEF CallRow, CallOps, NoCall
<1>5. /\ c.op = "reset" /\ c.id = u /\ c.tenant = None /\ c.reseller = None /\ c.link = l
      /\ c.fresh = FALSE
  BY DEF NoCall
<1>. HIDE DEF c
<1>6. Shaped(c)
  BY <1>2, <1>4, <1>5 DEF Shaped
<1>7. Rows(c) /\ Rights(c) /\ Unspent(c) /\ Seat(c) /\ Home(c)
  BY <1>1, <1>5 DEF Rows, Rights, Unspent, Seat, Home, LiveUsers
<1>. QED
  BY <1>3, <1>6, <1>7, StartKeeps DEF Sound

LEMMA UseSignupKeeps ==
  ASSUME AccInv, NEW r \in Calls, NEW l \in Links, UseSignup(r, l)
  PROVE  AccInv'
<1>. PICK e : e = link[l].email
  OBVIOUS
<1>. DEFINE c == [NoCall EXCEPT !.op = "confirm", !.link = l, !.email = e, !.fresh = TRUE, !.flag = TRUE]
<1>1. link[l].kind = "signup" /\ ~link[l].spent
  BY DEF UseSignup, LinkOpen
<1>2. Start(r, c)
  BY Zenon DEF UseSignup
<1>3. e \in Emails
  BY <1>1 DEF AccInv, LinkInv, None
<1>4. c \in CallRow
  BY <1>3 DEF CallRow, CallOps, NoCall
<1>5. /\ c.op = "confirm" /\ c.id = None /\ c.tenant = None /\ c.reseller = None /\ c.link = l
      /\ c.fresh = TRUE /\ c.flag = TRUE /\ c.email = e
  BY DEF NoCall
<1>. HIDE DEF c
<1>6. Shaped(c)
  BY <1>3, <1>4, <1>5 DEF Shaped
<1>7. Rows(c) /\ Rights(c) /\ Unspent(c) /\ Seat(c) /\ Home(c)
  BY <1>1, <1>5 DEF Rows, Rights, Unspent, Seat, Home, None
<1>. QED
  BY <1>2, <1>6, <1>7, StartKeeps DEF Sound

\* What is done at once: cookies,
LEMMA SessionKeeps ==
  ASSUME AccInv, UNCHANGED <<user, tenant, reseller, link, call, used, crowded, outside>>,
         session' \in [Browsers -> [user : Users \cup {None}, acting : Tenancies \cup {None}]]
  PROVE  AccInv'
<1>1. AccType'
  BY DEF AccInv, AccType, Open, Rows
<1>2. RowsInv' /\ Apart' /\ LinkInv'
  BY DEF AccInv, RowsInv, LiveUsers, LiveTenants, LiveResellers, Apart, About, LinkInv, Unspent
<1>3. AdminInv' /\ BelongInv'
  BY DEF AccInv, AdminInv, BelongInv, Rights, Home, Governs, LiveUsers, LiveTenants, Customers
<1>4. SeatInv'
  BY DEF AccInv, SeatInv, Seat, Counted, Customers, LiveTenants
<1>. QED
  BY <1>1, <1>2, <1>3, <1>4 DEF AccInv

LEMMA CookiesKeep ==
  ASSUME AccInv, NEW b \in Browsers,
         \/ \E u \in Users : Login(b, u)
         \/ Logout(b)
         \/ \E t \in Tenancies : EnterTenant(b, t)
         \/ ExitTenant(b)
  PROVE  AccInv'
<1>. DEFINE Cookie == [user : Users \cup {None}, acting : Tenancies \cup {None}]
<1>1. session \in [Browsers -> Cookie]
  BY DEF AccInv, AccType
<1>2. ASSUME NEW u \in Users, Login(b, u) PROVE AccInv'
  <2>1. session' \in [Browsers -> Cookie]
    BY <1>1, <1>2 DEF Login
  <2>. QED
    BY <1>2, <2>1, SessionKeeps DEF Login, AtOnce
<1>3. CASE Logout(b)
  <2>1. session' \in [Browsers -> Cookie]
    BY <1>1, <1>3 DEF Logout
  <2>. QED
    BY <1>3, <2>1, SessionKeeps DEF Logout, AtOnce
<1>4. ASSUME NEW t \in Tenancies, EnterTenant(b, t) PROVE AccInv'
  <2>1. session' \in [Browsers -> Cookie]
    BY <1>1, <1>4 DEF EnterTenant
  <2>. QED
    BY <1>4, <2>1, SessionKeeps DEF EnterTenant, AtOnce
<1>5. CASE ExitTenant(b)
  <2>1. session' \in [Browsers -> Cookie]
    BY <1>1, <1>5 DEF ExitTenant
  <2>. QED
    BY <1>5, <2>1, SessionKeeps DEF ExitTenant, AtOnce
<1>. QED
  BY <1>2, <1>3, <1>4, <1>5

\* links,
LEMMA LinkStepKeeps ==
  ASSUME AccInv, NEW l \in Links, NEW k \in LinkRow, link' = [link EXCEPT ![l] = k],
         UNCHANGED <<user, tenant, reseller, session, call, used, crowded, outside>>,
         k.kind # None, k.email \in Emails, k.spent <=> link[l].spent
  PROVE  AccInv'
<1>1. AccType /\ RowsInv /\ Apart /\ LinkInv /\ AdminInv /\ SeatInv /\ BelongInv
  BY DEF AccInv
<1>2. link'[l] = k /\ \A m \in Links \ {l} : link'[m] = link[m]
  BY <1>1 DEF AccType
<1>3. AccType'
  <2>1. \A r \in Calls : Open(r) => Rows(call[r])'
    BY <1>1, <1>2 DEF AccType, Rows, Shaped, CallRow
  <2>. QED
    BY <1>1, <2>1 DEF AccType, Open
<1>4. RowsInv' /\ Apart'
  BY <1>1 DEF RowsInv, LiveUsers, LiveTenants, LiveResellers, Apart, About
<1>5. LinkInv'
  <2>1. \A m \in Links : link'[m].spent <=> link[m].spent
    BY <1>2
  <2>2. \A r \in Calls : call[r].link # None => call[r].link \in Links
    BY <1>1 DEF AccType, CallRow, NoCall
  <2>3. \A r \in Calls : call[r].link \notin crowded => Unspent(call[r])'
    BY <1>1, <2>1, <2>2 DEF LinkInv, Unspent
  <2>4. \A m \in Links \ crowded : used[m] = IF link'[m].spent THEN 1 ELSE 0
    BY <1>1, <2>1 DEF LinkInv
  <2>5. \A m \in Links : /\ link'[m].kind = None => used[m] = 0 /\ ~link'[m].spent
                         /\ link'[m].kind # None => link'[m].email \in Emails
    BY <1>1, <1>2 DEF LinkInv
  <2>. QED
    BY <2>3, <2>4, <2>5 DEF LinkInv
<1>6. AdminInv' /\ BelongInv'
  BY <1>1 DEF AdminInv, BelongInv, Rights, Home, Governs, LiveUsers, LiveTenants, Customers
<1>7. SeatInv'
  BY <1>1 DEF SeatInv, Seat, Counted, Customers, LiveTenants
<1>. QED
  BY <1>3, <1>4, <1>5, <1>6, <1>7 DEF AccInv

LEMMA LinksKeep ==
  ASSUME AccInv, NEW l \in Links,
         LinkLapses(l) \/ \E kind \in {"reset", "signup"}, e \in Emails : MakeLink(l, kind, e)
  PROVE  AccInv'
<1>1. link \in [Links -> LinkRow] /\ LinkInv
  BY DEF AccInv, AccType
<1>2. CASE LinkLapses(l)
  <2>. DEFINE k == [link[l] EXCEPT !.late = TRUE]
  <2>1. /\ link' = [link EXCEPT ![l] = k] /\ link[l].kind # None
        /\ UNCHANGED <<user, tenant, reseller, session, call, used, crowded, outside>>
    BY <1>1, <1>2 DEF LinkLapses, AtOnce
  <2>2. k \in LinkRow /\ k.kind = link[l].kind /\ k.email = link[l].email /\ (k.spent <=> link[l].spent)
    BY <1>1 DEF LinkRow
  <2>. HIDE DEF k
  <2>. QED
    BY <1>1, <2>1, <2>2, LinkStepKeeps DEF LinkInv
<1>3. ASSUME NEW kind \in {"reset", "signup"}, NEW e \in Emails, MakeLink(l, kind, e) PROVE AccInv'
  <2>. DEFINE k == [kind |-> kind, email |-> e, spent |-> FALSE, late |-> FALSE]
  <2>1. /\ link' = [link EXCEPT ![l] = k] /\ link[l].kind = None
        /\ UNCHANGED <<user, tenant, reseller, session, call, used, crowded, outside>>
    BY <1>3 DEF MakeLink, AtOnce
  <2>2. k \in LinkRow /\ k.kind # None /\ k.email \in Emails /\ ~k.spent
    BY DEF LinkRow, None
  <2>. HIDE DEF k
  <2>3. ~link[l].spent
    BY <1>1, <2>1 DEF LinkInv
  <2>. QED
    BY <2>1, <2>2, <2>3, LinkStepKeeps
<1>. QED
  BY <1>2, <1>3

\* and resellers: a limit below what is in use or under way is noted.
LEMMA ResellerStepKeeps ==
  ASSUME AccInv, NEW x \in Resellers, NEW y \in ResellerRow, reseller' = [reseller EXCEPT ![x] = y],
         UNCHANGED <<user, tenant, link, session, call, used, crowded, outside>>,
         y.row = "live",
         y.lowered \/ /\ Cardinality(Counted(x)) <= y.seats
                      /\ \A r \in Calls : call[r].reseller = x => Cardinality(Counted(x)) + 1 <= y.seats
  PROVE  AccInv'
<1>1. AccType /\ RowsInv /\ Apart /\ LinkInv /\ AdminInv /\ SeatInv /\ BelongInv
  BY DEF AccInv
<1>2. reseller'[x] = y /\ \A z \in Resellers \ {x} : reseller'[z] = reseller[z]
  BY <1>1 DEF AccType
<1>3. AccType'
  <2>1. \A r \in Calls : Open(r) => Rows(call[r])'
    BY <1>1, <1>2 DEF AccType, Rows, Shaped, CallRow
  <2>. QED
    BY <1>1, <2>1 DEF AccType, Open
<1>4. RowsInv'
  <2>1. LiveResellers \subseteq LiveResellers'
    BY <1>1, <1>2 DEF LiveResellers
  <2>. QED
    BY <1>1, <2>1 DEF RowsInv, LiveUsers, LiveTenants
<1>5. Apart' /\ LinkInv' /\ AdminInv' /\ BelongInv'
  BY <1>1 DEF Apart, About, LinkInv, Unspent, AdminInv, BelongInv, Rights, Home, Governs, LiveUsers,
              LiveTenants, Customers
<1>6. SeatInv'
  <2>1. \A z : Counted(z)' = Counted(z)
    BY DEF Counted, Customers, LiveTenants
  <2>2. ASSUME NEW z \in Resellers \ (crowded \cup {Platform})
        PROVE  Cardinality(Counted(z)) <= reseller'[z].seats \/ reseller'[z].lowered
    BY <1>1, <1>2 DEF SeatInv
  <2>3. ASSUME NEW z \in Resellers \ (crowded \cup {Platform}), NEW r \in Calls, call[r].reseller = z
        PROVE  Seat(call[r])'
    <3>1. CASE z = x
      BY <1>2, <2>1, <2>3, <3>1 DEF Seat
    <3>2. CASE z # x
      <4>1. Seat(call[r])
        BY <1>1, <2>3 DEF SeatInv
      <4>. QED
        BY <1>2, <2>1, <2>3, <3>2, <4>1 DEF Seat
    <3>. QED
      BY <3>1, <3>2
  <2>. QED
    BY <2>1, <2>2, <2>3 DEF SeatInv
<1>. QED
  BY <1>3, <1>4, <1>5, <1>6 DEF AccInv

LEMMA SetLimitKeeps ==
  ASSUME AccInv, NEW b \in Browsers, NEW x \in Resellers, NEW n \in 1..MaxSeats, SetLimit(b, x, n)
  PROVE  AccInv'
<1>. DEFINE P == {r \in Calls : call[r].reseller = x}
<1>. PICK low : low \in BOOLEAN /\ low = (reseller[x].lowered \/ Cardinality(Customers(x)) + Cardinality(P) > n)
  BY Zenon
<1>. DEFINE y == [row |-> "live", seats |-> n, lowered |-> low]
<1>1. reseller' = [reseller EXCEPT ![x] = y]
      /\ UNCHANGED <<user, tenant, link, session, call, used, crowded, outside>>
  BY Zenon DEF SetLimit, AtOnce
<1>2. y \in ResellerRow /\ y.row = "live" /\ y.seats = n /\ n \in Nat
  BY AccountsAssumption DEF ResellerRow
<1>3. y.lowered = low
  OBVIOUS
<1>4. IsFiniteSet(P) /\ Cardinality(P) \in Nat
  BY AccountsAssumption, FS_Subset, FS_CardinalityType
<1>5. ASSUME NEW r \in Calls, call[r].reseller = x PROVE Cardinality(P) >= 1
  <2>1. P # {}
    BY <1>5
  <2>. QED
    BY <1>4, <2>1, FS_EmptySet
<1>6. ~low => Cardinality(Customers(x)) + Cardinality(P) <= n
  <2>1. ~low => ~(Cardinality(Customers(x)) + Cardinality(P) > n)
    BY Zenon
  <2>. QED
    BY <1>2, <1>4, <2>1, CountedIs
<1>. HIDE DEF P, y
<1>7. ~low => /\ Cardinality(Counted(x)) <= n
              /\ \A r \in Calls : call[r].reseller = x => Cardinality(Counted(x)) + 1 <= n
  BY <1>2, <1>4, <1>5, <1>6, CountedIs
<1>. QED
  BY <1>1, <1>2, <1>3, <1>7, ResellerStepKeeps

LEMMA CreateResellerKeeps ==
  ASSUME AccInv, NEW b \in Browsers, NEW x \in Resellers, NEW n \in 1..MaxSeats, CreateReseller(b, x, n)
  PROVE  AccInv'
<1>. DEFINE y == [row |-> "live", seats |-> n, lowered |-> FALSE]
<1>1. /\ reseller' = [reseller EXCEPT ![x] = y] /\ reseller[x].row = "new"
      /\ UNCHANGED <<user, tenant, link, session, call, used, crowded, outside>>
  BY DEF CreateReseller, AtOnce
<1>2. y \in ResellerRow /\ y.row = "live" /\ y.seats = n /\ n \in Nat
  BY AccountsAssumption DEF ResellerRow
<1>. HIDE DEF y
<1>3. Counted(x) = {}
  BY <1>1, AccountsAssumption DEF Counted, Customers, AccInv, RowsInv, LiveResellers
<1>4. \A r \in Calls : call[r].reseller # x
  <2>1. \A r \in Calls : Open(r) \/ call[r].reseller = None
    BY NoCallIs DEF Open
  <2>2. \A r \in Calls : Open(r) => Rows(call[r])
    BY DEF AccInv, AccType
  <2>. QED
    BY <1>1, <2>1, <2>2, AccountsAssumption DEF Rows
<1>5. Cardinality(Counted(x)) <= y.seats
  BY <1>2, <1>3, FS_EmptySet
<1>. QED
  BY <1>1, <1>2, <1>4, <1>5, ResellerStepKeeps

\* A restart ends all requests: only the tables matter.
LEMMA CallsEnd ==
  ASSUME AccInv, call' = [r \in Calls |-> NoCall], UNCHANGED <<reseller, link, session, used, crowded, outside>>,
         user' \in [Users -> UserRow], tenant' \in [Tenancies -> TenantRow], RowsInv',
         \A t \in LiveTenants' \ (crowded \cup outside) : \E u \in LiveUsers' : Governs(u, t)',
         \A x \in Resellers \ {Platform} : Counted(x)' = Counted(x),
         \A u \in LiveUsers' : user'[u].rs => tenant'[user'[u].tenant].reseller # None
  PROVE  AccInv'
<1>1. \A r \in Calls : call'[r] = NoCall
  OBVIOUS
<1>2. \A r \in Calls : /\ Rights(call[r])' /\ Unspent(call[r])' /\ Seat(call[r])' /\ Home(call[r])'
                       /\ About(call[r])' = {}
  BY <1>1, NoCallIs DEF Rights, Unspent, Seat, Home, About, None
<1>3. AccType'
  BY <1>1 DEF AccInv, AccType, Open
<1>4. Apart' /\ AdminInv' /\ BelongInv'
  BY <1>2 DEF Apart, AdminInv, BelongInv
<1>5. LinkInv'
  BY <1>2 DEF AccInv, LinkInv
<1>6. SeatInv'
  BY <1>2 DEF AccInv, SeatInv
<1>. QED
  BY <1>3, <1>4, <1>5, <1>6 DEF AccInv

LEMMA HousedIs ==
  ASSUME AccInv, NEW t \in Tenancies
  PROVE  /\ Housed(t) \in TenantRow /\ Housed(t).row = tenant[t].row /\ Housed(t).extra = tenant[t].extra
         /\ Housed(t).row = "live" => Housed(t).reseller \in LiveResellers
         /\ \A x \in Resellers \ {Platform} : Housed(t).reseller = x <=> tenant[t].reseller = x
<1>1. tenant[t] \in TenantRow /\ Platform \in LiveResellers
      /\ (t \in LiveTenants => tenant[t].reseller \in LiveResellers \cup {None})
  BY DEF AccInv, AccType, RowsInv
<1>2. CASE t \in LiveTenants /\ tenant[t].reseller = None
  <2>1. Housed(t) = [tenant[t] EXCEPT !.reseller = Platform]
    BY <1>2 DEF Housed
  <2>2. [tenant[t] EXCEPT !.reseller = Platform] \in TenantRow
    BY <1>1, AccountsAssumption DEF TenantRow
  <2>. QED
    BY <1>1, <1>2, <2>1, <2>2, AccountsAssumption DEF TenantRow
<1>3. CASE ~(t \in LiveTenants /\ tenant[t].reseller = None)
  <2>1. Housed(t) = tenant[t]
    BY <1>3 DEF Housed
  <2>. QED
    BY <1>1, <1>3, <2>1 DEF LiveTenants
<1>. QED
  BY <1>2, <1>3

LEMMA RestartAppKeeps ==
  ASSUME AccInv, RestartApp
  PROVE  AccInv'
<1>1. /\ call' = [r \in Calls |-> NoCall]
      /\ UNCHANGED <<reseller, link, session, used, crowded, outside>>
  BY DEF RestartApp
<1>2. AccType /\ RowsInv /\ AdminInv
  BY DEF AccInv
<1>3. CASE LiveUsers # {} /\ tenant' = [t \in Tenancies |-> Housed(t)] /\ UNCHANGED user
  <2>1. \A t \in Tenancies : tenant'[t] = Housed(t)
    BY <1>3
  <2>2. tenant' \in [Tenancies -> TenantRow]
    BY <1>3, HousedIs
  <2>3. LiveTenants' = LiveTenants /\ LiveUsers' = LiveUsers /\ LiveResellers' = LiveResellers
    BY <1>1, <1>3, <2>1, HousedIs DEF LiveTenants, LiveUsers, LiveResellers
  <2>4. \A t \in LiveTenants : tenant'[t].reseller \in LiveResellers
    BY <2>1, HousedIs DEF LiveTenants
  <2>5. RowsInv'
    <3>1. \A t \in Tenancies : tenant'[t].row = tenant[t].row
      BY <2>1, HousedIs
    <3>. QED
      BY <1>1, <1>2, <1>3, <2>3, <2>4, <3>1 DEF RowsInv
  <2>6. \A x \in Resellers \ {Platform} : Counted(x)' = Counted(x)
    BY <2>1, <2>3, HousedIs DEF Counted, Customers, LiveTenants
  <2>7. \A t \in LiveTenants' \ (crowded \cup outside) : \E u \in LiveUsers' : Governs(u, t)'
    BY <1>2, <1>3, <2>3 DEF AdminInv, Governs
  <2>8. \A u \in LiveUsers' : user'[u].rs => tenant'[user'[u].tenant].reseller # None
    BY <1>2, <1>3, <2>3, <2>4, AccountsAssumption, SMTT(30) DEF RowsInv, LiveResellers
  <2>. QED
    BY <1>1, <1>2, <1>3, <2>2, <2>5, <2>6, <2>7, <2>8, CallsEnd DEF AccType
<1>4. CASE FirstUser
  <2>. DEFINE u == NewId
              t == NewTenancy
              s == [row |-> "live", reseller |-> None, extra |-> TRUE]
  <2>1. PICK e \in Emails :
          user' = [user EXCEPT ![u] = [NoUser EXCEPT !.row = "live", !.email = e, !.tenant = t,
                                                     !.admin = TRUE, !.super = TRUE]]
    BY <1>4 DEF FirstUser
  <2>2. /\ LiveUsers = {} /\ u \in Users /\ user[u].row = "new" /\ t \in Tenancies /\ tenant[t].row = "new"
        /\ tenant' = [v \in Tenancies |-> IF v = t THEN s ELSE Housed(v)]
    BY <1>4 DEF FirstUser, NewId, NewTenancy
  <2>. DEFINE n == [NoUser EXCEPT !.row = "live", !.email = e, !.tenant = t, !.admin = TRUE, !.super = TRUE]
  <2>3. n \in UserRow
    BY <2>2 DEF NoUser, UserRow
  <2>4. /\ n.row = "live" /\ n.email = e /\ n.tenant = t /\ n.admin /\ n.rs = FALSE
        /\ s \in TenantRow /\ s.row = "live" /\ s.reseller = None /\ s.extra = TRUE
    BY DEF NoUser, TenantRow
  <2>. HIDE DEF n, s, u, t
  <2>5. /\ user'[u] = n /\ (\A v \in Users \ {u} : user'[v] = user[v]) /\ user' \in [Users -> UserRow]
    BY <1>2, <2>1, <2>2, <2>3 DEF AccType, n
  <2>6. /\ tenant'[t] = s /\ (\A v \in Tenancies \ {t} : tenant'[v] = Housed(v))
        /\ tenant' \in [Tenancies -> TenantRow]
    BY <2>2, <2>4, HousedIs
  <2>7. LiveUsers' = {u} /\ LiveTenants' = LiveTenants \cup {t} /\ LiveResellers' = LiveResellers
    <3>1. LiveUsers' = {u}
      BY <2>2, <2>4, <2>5 DEF LiveUsers
    <3>2. LiveTenants' = LiveTenants \cup {t}
      BY <2>2, <2>4, <2>6, HousedIs DEF LiveTenants
    <3>. QED
      BY <1>1, <3>1, <3>2 DEF LiveResellers
  <2>8. RowsInv'
    <3>1. \A v \in Users : user'[v].row # "new" => user'[v].tenant \in Tenancies /\ tenant'[user'[v].tenant].row # "new"
      <4>1. \A v \in Tenancies : tenant[v].row # "new" => tenant'[v].row = tenant[v].row
        BY <2>2, <2>6, HousedIs
      <4>. QED
        BY <1>2, <2>2, <2>4, <2>5, <2>6, <4>1 DEF RowsInv
    <3>2. \A v \in LiveTenants' : tenant'[v].reseller \in LiveResellers' \cup {None}
      BY <2>4, <2>6, <2>7, HousedIs DEF LiveTenants
    <3>. QED
      BY <1>2, <2>4, <2>5, <2>7, <3>1, <3>2 DEF RowsInv
  <2>9. \A x \in Resellers \ {Platform} : Counted(x)' = Counted(x)
    <3>1. \A x \in Resellers \ {Platform}, v \in Tenancies : v \in Counted(x)' <=> v \in Counted(x)
      BY <2>2, <2>4, <2>6, <2>7, HousedIs DEF Counted, Customers, LiveTenants
    <3>. QED
      BY <3>1 DEF Counted, Customers, LiveTenants
  <2>10. \A v \in LiveTenants' \ (crowded \cup outside) : \E w \in LiveUsers' : Governs(w, v)'
    BY <1>2, <2>2, <2>4, <2>5, <2>7 DEF AdminInv, Governs
  <2>. QED
    BY <1>1, <2>4, <2>5, <2>6, <2>7, <2>8, <2>9, <2>10, CallsEnd
<1>. QED
  BY <1>3, <1>4 DEF RestartApp

\* A request that commits: what its end leaves of the other requests.
LEMMA CallEnds ==
  ASSUME AccInv, NEW r \in Calls, call' = [call EXCEPT ![r] = NoCall]
  PROVE  /\ call'[r] = NoCall /\ \A q \in Calls \ {r} : call'[q] = call[q]
         /\ Rights(call[r])' /\ Unspent(call[r])' /\ Seat(call[r])' /\ Home(call[r])'
         /\ \A q \in Calls \ {r} : About(call[q]) \cap About(call[r]) \subseteq crowded
<1>1. call'[r] = NoCall /\ \A q \in Calls \ {r} : call'[q] = call[q]
  BY DEF AccInv, AccType
<1>2. Rights(call[r])' /\ Unspent(call[r])' /\ Seat(call[r])' /\ Home(call[r])'
  BY <1>1, NoCallIs DEF Rights, Unspent, Seat, Home, None
<1>3. \A q \in Calls \ {r} : About(call[q]) \cap About(call[r]) \subseteq crowded
  BY DEF AccInv, Apart
<1>. QED
  BY <1>1, <1>2, <1>3

\* Rows are not made new again and users do not move.
Onward ==
  /\ \A u \in Users : user[u].row # "new" => user'[u].row # "new" /\ user'[u].tenant = user[u].tenant
  /\ \A t \in Tenancies : tenant[t].row # "new" => tenant'[t].row # "new"
  /\ \A x \in Resellers : reseller[x].row # "new" => reseller'[x].row # "new"
  /\ \A l \in Links : link'[l].kind = link[l].kind

LEMMA TypeKept ==
  ASSUME AccInv, NEW r \in Calls, call' = [call EXCEPT ![r] = NoCall],
         session' = session, crowded' = crowded, Onward,
         user' \in [Users -> UserRow], tenant' \in [Tenancies -> TenantRow],
         reseller' \in [Resellers -> ResellerRow], link' \in [Links -> LinkRow], used' \in [Links -> Nat]
  PROVE  AccType' /\ Apart'
<1>1. /\ call'[r] = NoCall /\ \A q \in Calls \ {r} : call'[q] = call[q]
  BY CallEnds
<1>2. AccType /\ Apart
  BY DEF AccInv
<1>3. call' \in [Calls -> CallRow \cup {NoCall}]
  BY <1>2 DEF AccType
<1>4. ASSUME NEW q \in Calls, Open(q)' PROVE Shaped(call[q])' /\ Rows(call[q])'
  <2>. PICK d : d = call[q]
    OBVIOUS
  <2>1. q # r /\ call'[q] = d
    BY <1>1, <1>4 DEF Open
  <2>2. Shaped(d) /\ Rows(d) /\ d \in CallRow
    BY <1>2, <1>4, <2>1 DEF AccType, Open, Shaped
  <2>3. /\ d.id \in Users \cup {None} /\ d.tenant \in Tenancies \cup {None}
        /\ d.reseller \in Resellers \cup {None} /\ d.link \in Links \cup {None}
    BY <2>2 DEF CallRow
  <2>4. Shaped(call[q])'
    BY <2>1, <2>2 DEF Shaped
  <2>5. Rows(call[q])'
    <3>1. /\ d.id # None => user'[d.id].row # "new" /\ user'[d.id].tenant = user[d.id].tenant
          /\ d.tenant # None => tenant'[d.tenant].row # "new"
          /\ d.reseller # None => reseller'[d.reseller].row # "new"
          /\ d.link # None => link'[d.link].kind # None
      BY <2>2, <2>3 DEF Rows, Onward
    <3>2. d.op \in {"role", "delete"} => user[d.id].tenant = d.tenant /\ d.id # None
      BY <2>2, AccountsAssumption DEF Rows, Shaped
    <3>. QED
      BY <2>1, <3>1, <3>2 DEF Rows
  <2>. QED
    BY <2>4, <2>5
<1>5. Apart'
  <2>1. ASSUME NEW p \in Calls, NEW q \in Calls, p # q
        PROVE  About(call'[p]) \cap About(call'[q]) \subseteq crowded
    BY <1>1, <1>2, <2>1, NoCallIs DEF Apart
  <2>. QED
    BY <2>1 DEF Apart, About
<1>. QED
  BY <1>2, <1>3, <1>4, <1>5 DEF AccType

LEMMA SpendKeeps ==
  ASSUME AccInv, NEW r \in Calls, call' = [call EXCEPT ![r] = NoCall], crowded' = crowded,
         NEW c, c = call[r], Open(r), Spend(c)
  PROVE  /\ LinkInv' /\ link' \in [Links -> LinkRow] /\ used' \in [Links -> Nat]
         /\ \A l \in Links : link'[l].kind = link[l].kind
<1>1. /\ call'[r] = NoCall /\ \A q \in Calls \ {r} : call'[q] = call[q]
      /\ \A q \in Calls \ {r} : About(call[q]) \cap About(call[r]) \subseteq crowded
  BY CallEnds
<1>2. /\ AccType /\ LinkInv /\ Shaped(c) /\ Rows(c) /\ c.link \in Links \cup {None}
      /\ link \in [Links -> LinkRow] /\ used \in [Links -> Nat]
  BY DEF AccInv, AccType, Open, Shaped, CallRow
<1>3. CASE c.link = None
  <2>1. link' = link /\ used' = used
    BY <1>3 DEF Spend
  <2>2. \A q \in Calls : call'[q].link \notin crowded' => Unspent(call[q])'
    BY <1>1, <1>2, <2>1, NoCallIs DEF LinkInv, Unspent
  <2>. QED
    BY <1>2, <2>1, <2>2 DEF LinkInv
<1>4. CASE c.link # None
  <2>. PICK l \in Links : l = c.link
    BY <1>2, <1>4
  <2>. DEFINE k == [link[l] EXCEPT !.spent = TRUE]
  <2>1. link' = [link EXCEPT ![l] = k] /\ used' = [used EXCEPT ![l] = used[l] + 1]
    BY <1>4 DEF Spend
  <2>2. k \in LinkRow /\ k.kind = link[l].kind /\ k.email = link[l].email /\ k.spent
    BY <1>2 DEF LinkRow
  <2>3. link[l].kind # None
    BY <1>2, <1>4 DEF Rows
  <2>. HIDE DEF k
  <2>4. /\ link'[l] = k /\ used'[l] = used[l] + 1
        /\ \A m \in Links \ {l} : link'[m] = link[m] /\ used'[m] = used[m]
        /\ link' \in [Links -> LinkRow] /\ used' \in [Links -> Nat]
    BY <1>2, <2>1, <2>2
  <2>5. l \notin crowded => used'[l] = 1
    <3>1. l \notin crowded => Unspent(c)
      BY <1>2 DEF LinkInv
    <3>2. l \notin crowded => used[l] = 0
      BY <1>2, <1>4, <3>1 DEF LinkInv, Unspent
    <3>. QED
      BY <2>4, <3>2
  <2>6. ASSUME NEW q \in Calls, call'[q].link \notin crowded' PROVE Unspent(call[q])'
    <3>1. CASE q = r
      BY <1>1, <3>1, NoCallIs DEF Unspent
    <3>2. CASE q # r
      <4>1. call'[q] = call[q] /\ Unspent(call[q])
        BY <1>1, <1>2, <2>6, <3>2 DEF LinkInv
      <4>2. call[q].link # l
        BY <1>1, <1>4, <2>6, <3>2 DEF About
      <4>3. call[q].link \in Links \cup {None}
        BY <1>2 DEF AccType, CallRow, NoCall
      <4>. QED
        BY <2>4, <4>1, <4>2, <4>3 DEF Unspent
    <3>. QED
      BY <3>1, <3>2
  <2>7. \A m \in Links \ crowded' : used'[m] = IF link'[m].spent THEN 1 ELSE 0
    BY <1>2, <2>2, <2>4, <2>5 DEF LinkInv
  <2>8. \A m \in Links : /\ link'[m].kind = link[m].kind
                         /\ link'[m].kind = None => used'[m] = 0 /\ ~link'[m].spent
                         /\ link'[m].kind # None => link'[m].email \in Emails
    BY <1>2, <2>2, <2>3, <2>4 DEF LinkInv
  <2>. QED
    BY <2>4, <2>6, <2>7, <2>8 DEF LinkInv
<1>. QED
  BY <1>3, <1>4

\* A new row, with a tenant of its own or in one that exists.
Added(c, u) ==
  /\ u \in Users /\ user[u].row = "new" /\ \A v \in Users \ {u} : user'[v] = user[v]
  /\ user'[u].email = c.email /\ user'[u].admin = c.flag /\ (user'[u].rs <=> c.op = "rsadmin")
  /\ user'[u].tenant \in LiveTenants'
  /\ LiveUsers' = LiveUsers \cup {u} /\ LiveResellers' = LiveResellers
  /\ user' \in [Users -> UserRow] /\ tenant' \in [Tenancies -> TenantRow]
  /\ reseller' = reseller /\ outside' = outside /\ Spend(c)

AddedTenant(c, u, t) ==
  /\ user'[u].tenant = t /\ t \in Tenancies /\ tenant[t].row = "new"
  /\ LiveTenants' = LiveTenants \cup {t} /\ tenant'[t].reseller = c.reseller
  /\ tenant'[t].extra <=> c.op # "tenant" \/ c.reseller = None
  /\ \A v \in Tenancies \ {t} : tenant'[v] = tenant[v]
  /\ c.reseller \in LiveResellers \cup {None}

AddedTo(c, u) ==
  /\ user'[u].tenant = c.tenant /\ tenant' = tenant
  /\ c.op \in {"user", "rsadmin"} /\ LiveTenants' = LiveTenants

LEMMA InsertIs ==
  ASSUME AccInv, NEW r \in Calls, call' = [call EXCEPT ![r] = NoCall],
         session' = session, crowded' = crowded, NEW c, c = call[r], Open(r), SaveInsert(c),
         NEW u, u = NewId, NEW t, t = NewTenancy
  PROVE  Added(c, u) /\ (c.fresh => AddedTenant(c, u, t)) /\ (~c.fresh => AddedTo(c, u))
<1>1. /\ c.op \in {"user", "tenant", "rsadmin", "confirm"} /\ InsertOk(c)
      /\ Spend(c) /\ reseller' = reseller /\ outside' = outside
  BY DEF SaveInsert
<1>2. /\ AccType /\ RowsInv /\ Shaped(c) /\ c \in CallRow
  BY DEF AccInv, AccType, Open, Shaped
<1>3. u \in Users /\ user[u].row = "new"
  BY DEF SaveInsert, NewId
<1>4. c.fresh => t \in Tenancies /\ tenant[t].row = "new"
  BY DEF SaveInsert, NewTenancy
<1>. PICK w : w = IF c.fresh THEN t ELSE c.tenant
  OBVIOUS
<1>. PICK rs : rs \in BOOLEAN /\ rs = (c.op = "rsadmin")
  BY Zenon
<1>. PICK extra : extra \in BOOLEAN /\ extra = (c.op # "tenant" \/ c.reseller = None)
  BY Zenon
<1>. DEFINE n == [NoUser EXCEPT !.row = "live", !.email = c.email, !.tenant = w, !.admin = c.flag, !.rs = rs]
            s == [row |-> "live", reseller |-> c.reseller, extra |-> extra]
<1>5. w \in Tenancies
  <2>1. CASE c.fresh
    BY <1>4, <2>1
  <2>2. CASE ~c.fresh
    <3>1. c.op \in {"user", "rsadmin"} /\ c.tenant \in Tenancies \cup {None}
      BY <1>1, <1>2, <2>2 DEF Shaped, CallRow
    <3>. QED
      BY <1>2, <2>2, <3>1 DEF Shaped
  <2>. QED
    BY <2>1, <2>2
<1>6. user' = [user EXCEPT ![u] = n]
  BY Zenon DEF SaveInsert, Inserted
<1>7. n \in UserRow /\ s \in TenantRow
  BY <1>2, <1>5, ZenonT(40) DEF UserRow, TenantRow, NoUser, CallRow
<1>8. /\ n.row = "live" /\ n.email = c.email /\ n.tenant = w /\ n.admin = c.flag /\ n.rs = rs
      /\ s.row = "live" /\ s.reseller = c.reseller /\ s.extra = extra
  BY DEF NoUser
<1>9. (c.fresh => tenant' = [tenant EXCEPT ![t] = s]) /\ (~c.fresh => tenant' = tenant)
  BY Zenon DEF SaveInsert
<1>. HIDE DEF n, s
<1>10. /\ user'[u] = n /\ \A v \in Users \ {u} : user'[v] = user[v]
       /\ user' \in [Users -> UserRow]
  BY <1>2, <1>3, <1>6, <1>7 DEF AccType
<1>11. /\ c.fresh => tenant'[t] = s /\ \A v \in Tenancies \ {t} : tenant'[v] = tenant[v]
       /\ tenant' \in [Tenancies -> TenantRow]
  BY <1>2, <1>4, <1>7, <1>9 DEF AccType
<1>12. LiveUsers' = LiveUsers \cup {u} /\ LiveResellers' = LiveResellers
  BY <1>1, <1>3, <1>8, <1>10 DEF LiveUsers, LiveResellers
<1>13. (c.fresh => LiveTenants' = LiveTenants \cup {t}) /\ (~c.fresh => LiveTenants' = LiveTenants)
  BY <1>4, <1>8, <1>9, <1>11 DEF LiveTenants
<1>14. w \in LiveTenants'
  BY <1>1, <1>5, <1>13, AccountsAssumption DEF InsertOk
<1>15. c.fresh => c.reseller \in LiveResellers \cup {None}
  BY <1>1 DEF InsertOk
<1>16. ~c.fresh => c.op \in {"user", "rsadmin"}
  BY <1>1, <1>2 DEF Shaped
<1>17. Added(c, u)
  BY <1>1, <1>3, <1>8, <1>10, <1>11, <1>12, <1>14 DEF Added
<1>18. c.fresh => AddedTenant(c, u, t)
  BY <1>4, <1>8, <1>10, <1>11, <1>13, <1>15 DEF AddedTenant
<1>19. ~c.fresh => AddedTo(c, u)
  BY <1>8, <1>9, <1>10, <1>13, <1>16 DEF AddedTo
<1>. QED
  BY <1>17, <1>18, <1>19

LEMMA SaveInsertKeeps ==
  ASSUME AccInv, NEW r \in Calls, call' = [call EXCEPT ![r] = NoCall],
         session' = session, crowded' = crowded, NEW c, c = call[r], Open(r), SaveInsert(c)
  PROVE  AccInv'
<1>. PICK u, t : u = NewId /\ t = NewTenancy
  OBVIOUS
<1>1. /\ u \in Users /\ user[u].row = "new" /\ \A v \in Users \ {u} : user'[v] = user[v]
      /\ user'[u].email = c.email /\ user'[u].admin = c.flag /\ (user'[u].rs <=> c.op = "rsadmin")
      /\ user'[u].tenant \in LiveTenants'
      /\ LiveUsers' = LiveUsers \cup {u} /\ LiveResellers' = LiveResellers
      /\ user' \in [Users -> UserRow] /\ tenant' \in [Tenancies -> TenantRow]
      /\ reseller' = reseller /\ outside' = outside /\ Spend(c)
  <2>1. Added(c, u)
    BY InsertIs
  <2>. QED
    BY <2>1 DEF Added
<1>2. c.fresh => /\ user'[u].tenant = t /\ t \in Tenancies /\ tenant[t].row = "new"
                 /\ LiveTenants' = LiveTenants \cup {t} /\ tenant'[t].reseller = c.reseller
                 /\ tenant'[t].extra <=> c.op # "tenant" \/ c.reseller = None
                 /\ \A v \in Tenancies \ {t} : tenant'[v] = tenant[v]
                 /\ c.reseller \in LiveResellers \cup {None}
  <2>1. c.fresh => AddedTenant(c, u, t)
    BY InsertIs
  <2>. QED
    BY <2>1 DEF AddedTenant
<1>3. ~c.fresh => /\ user'[u].tenant = c.tenant /\ tenant' = tenant
                  /\ c.op \in {"user", "rsadmin"} /\ LiveTenants' = LiveTenants
  <2>1. ~c.fresh => AddedTo(c, u)
    BY InsertIs
  <2>. QED
    BY <2>1 DEF AddedTo
<1>4. /\ AccType /\ RowsInv /\ Apart /\ LinkInv /\ AdminInv /\ SeatInv /\ BelongInv
      /\ Shaped(c) /\ Rows(c) /\ c \in CallRow /\ ~Taken(c.email)
  BY DEF AccInv, AccType, Open, Shaped, SaveInsert, InsertOk
<1>5. /\ call'[r] = NoCall /\ \A q \in Calls \ {r} : call'[q] = call[q]
      /\ Rights(call[r])' /\ Seat(call[r])' /\ Home(call[r])'
      /\ \A q \in Calls \ {r} : About(call[q]) \cap About(c) \subseteq crowded
  BY CallEnds
<1>6. /\ LinkInv' /\ link' \in [Links -> LinkRow] /\ used' \in [Links -> Nat]
      /\ \A l \in Links : link'[l].kind = link[l].kind
  BY <1>1, SpendKeeps
<1>7. \A v \in Tenancies : tenant[v].row # "new" => tenant'[v] = tenant[v]
  BY <1>2, <1>3
<1>8. AccType' /\ Apart'
  <2>1. Onward
    BY <1>1, <1>6, <1>7 DEF Onward
  <2>. QED
    BY <1>1, <1>4, <1>6, <2>1, TypeKept DEF AccType
<1>9. RowsInv'
  <2>1. ASSUME NEW v \in Users, user'[v].row # "new"
        PROVE  user'[v].tenant \in Tenancies /\ tenant'[user'[v].tenant].row # "new"
    <3>1. CASE v = u
      BY <1>1, <3>1 DEF LiveTenants
    <3>2. CASE v # u
      BY <1>1, <1>4, <1>7, <2>1, <3>2 DEF RowsInv
    <3>. QED
      BY <3>1, <3>2
  <2>2. ASSUME NEW v \in LiveUsers', NEW w \in LiveUsers', user'[v].email = user'[w].email PROVE v = w
    <3>1. u \notin LiveUsers
      BY <1>1 DEF LiveUsers
    <3>2. \A x \in LiveUsers : user[x].email # c.email /\ user'[x] = user[x]
      BY <1>1, <1>4, <3>1 DEF Taken, LiveUsers
    <3>. QED
      BY <1>1, <1>4, <2>2, <3>2 DEF RowsInv
  <2>3. LiveTenants \subseteq LiveTenants'
    BY <1>2, <1>3
  <2>4. \A v \in LiveUsers' : user'[v].tenant \in LiveTenants'
    <3>1. \A v \in LiveUsers \ {u} : user'[v] = user[v] /\ user[v].tenant \in LiveTenants
      BY <1>1, <1>4 DEF RowsInv, LiveUsers
    <3>. QED
      BY <1>1, <2>3, <3>1
  <2>5. \A v \in LiveTenants' : tenant'[v].reseller \in LiveResellers' \cup {None}
    BY <1>1, <1>2, <1>3, <1>4 DEF RowsInv, LiveTenants
  <2>6. Platform \in LiveResellers'
    BY <1>1, <1>4 DEF RowsInv
  <2>. QED
    BY <2>1, <2>2, <2>4, <2>5, <2>6 DEF RowsInv
<1>10. AdminInv'
  <2>1. \A v \in LiveUsers : v \in LiveUsers' /\ v # u /\ user'[v] = user[v]
    BY <1>1 DEF LiveUsers
  <2>2. ASSUME NEW w \in LiveTenants' \ (crowded' \cup outside')
        PROVE  \E v \in LiveUsers' : user'[v].tenant = w /\ (user'[v].admin \/ user'[v].super)
    <3>1. CASE w \in LiveTenants
      <4>1. PICK v \in LiveUsers : Governs(v, w)
        BY <1>1, <1>4, <2>2, <3>1 DEF AdminInv
      <4>. QED
        BY <2>1, <4>1 DEF Governs
    <3>2. CASE w \notin LiveTenants
      <4>1. c.fresh /\ w = t
        BY <1>2, <1>3, <2>2, <3>2
      <4>. QED
        BY <1>1, <1>2, <1>4, <4>1 DEF Shaped
    <3>. QED
      BY <3>1, <3>2
  <2>3. ASSUME NEW q \in Calls, call'[q].tenant \notin crowded' PROVE Rights(call[q])'
    <3>1. CASE q = r
      BY <1>5, <3>1
    <3>2. CASE q # r
      <4>1. call'[q] = call[q] /\ Rights(call[q])
        BY <1>4, <1>5, <2>3, <3>2 DEF AdminInv
      <4>. QED
        BY <2>1, <4>1 DEF Rights, Governs
    <3>. QED
      BY <3>1, <3>2
  <2>. QED
    BY <2>2, <2>3 DEF AdminInv, Governs
<1>11. SeatInv'
  <2>1. ASSUME NEW x \in Resellers \ (crowded \cup {Platform}), NEW q \in Calls \ {r}, call[q].reseller = x
        PROVE  c.reseller # x
    BY <1>5, <2>1, AccountsAssumption DEF About
  <2>2. ASSUME NEW x \in Resellers \ (crowded \cup {Platform}), ~(c.op = "tenant" /\ c.reseller = x)
        PROVE  Counted(x)' = Counted(x)
    <3>1. CASE ~c.fresh
      BY <1>3, <3>1 DEF Counted, Customers, LiveTenants
    <3>2. CASE c.fresh
      <4>1. c.op # "tenant" \/ c.reseller # x
        BY <2>2
      <4>2. ~(tenant'[t].reseller = x /\ ~tenant'[t].extra)
        BY <1>2, <2>2, <3>2, <4>1, AccountsAssumption
      <4>3. \A v \in Tenancies : v \in Counted(x)' <=> v \in Counted(x)
        BY <1>2, <3>2, <4>2 DEF Counted, Customers, LiveTenants
      <4>. QED
        BY <4>3 DEF Counted, Customers, LiveTenants
    <3>. QED
      BY <3>1, <3>2
  <2>3. ASSUME NEW x \in Resellers \ (crowded \cup {Platform}), c.op = "tenant", c.reseller = x
        PROVE  Cardinality(Counted(x)') <= reseller[x].seats \/ reseller[x].lowered
    <3>1. c.fresh /\ x # None
      BY <1>4, <2>3, AccountsAssumption DEF Shaped
    <3>2. Seat(c)
      BY <1>4, <2>3 DEF SeatInv
    <3>3. \A v \in Tenancies : v \in Counted(x)' => v \in Counted(x) \cup {t}
      BY <1>2, <3>1 DEF Counted, Customers, LiveTenants
    <3>4. Counted(x)' \subseteq Counted(x) \cup {t}
      BY <3>3 DEF Counted, Customers, LiveTenants
    <3>5. /\ IsFiniteSet(Counted(x)) /\ Cardinality(Counted(x)) \in Nat
      BY CountedIs
    <3>6. /\ IsFiniteSet(Counted(x) \cup {t})
          /\ Cardinality(Counted(x) \cup {t}) \in Nat
          /\ Cardinality(Counted(x) \cup {t}) <= Cardinality(Counted(x)) + 1
      <4>1. CASE t \in Counted(x)
        <5>1. Counted(x) \cup {t} = Counted(x)
          BY <4>1
        <5>. QED
          BY <3>5, <5>1
      <4>2. CASE t \notin Counted(x)
        <5>1. Cardinality(Counted(x) \cup {t}) = Cardinality(Counted(x)) + 1 /\ IsFiniteSet(Counted(x) \cup {t})
          BY <3>5, <4>2, FS_AddElement
        <5>. QED
          BY <3>5, <5>1
      <4>. QED
        BY <4>1, <4>2
    <3>7. Cardinality(Counted(x)') \in Nat /\ Cardinality(Counted(x)') <= Cardinality(Counted(x) \cup {t})
      BY <3>4, <3>6, FS_Subset, FS_CardinalityType
    <3>8. reseller[x].seats \in Nat
      BY <1>4 DEF AccType, ResellerRow
    <3>. QED
      BY <2>3, <3>1, <3>2, <3>5, <3>6, <3>7, <3>8 DEF Seat
  <2>4. ASSUME NEW x \in Resellers \ (crowded \cup {Platform}), NEW q \in Calls, call'[q].reseller = x
        PROVE  Seat(call[q])'
    <3>1. q # r /\ call'[q] = call[q]
      BY <1>5, <2>4, NoCallIs, AccountsAssumption
    <3>2. Seat(call[q]) /\ Counted(x)' = Counted(x)
      BY <1>4, <2>1, <2>2, <2>4, <3>1 DEF SeatInv
    <3>. QED
      BY <1>1, <2>4, <3>1, <3>2 DEF Seat
  <2>5. ASSUME NEW x \in Resellers \ (crowded \cup {Platform})
        PROVE  Cardinality(Counted(x)') <= reseller[x].seats \/ reseller[x].lowered
    BY <1>4, <2>2, <2>3 DEF SeatInv
  <2>. QED
    BY <1>1, <2>4, <2>5 DEF SeatInv
<1>12. BelongInv'
  <2>. SUFFICES ASSUME crowded \cap Resellers = {}
                PROVE  /\ \A v \in LiveUsers' : user'[v].rs => tenant'[user'[v].tenant].reseller # None
                       /\ \A q \in Calls : Home(call[q])'
    BY DEF BelongInv
  <2>1. \A q \in Calls : Home(call[q])
    BY <1>4 DEF BelongInv
  <2>2. ASSUME NEW v \in LiveUsers', user'[v].rs PROVE tenant'[user'[v].tenant].reseller # None
    <3>1. CASE v # u
      <4>1. v \in LiveUsers /\ user'[v] = user[v]
        BY <1>1, <2>2, <3>1 DEF LiveUsers
      <4>2. user[v].tenant \in LiveTenants
        BY <1>4, <4>1 DEF RowsInv
      <4>3. tenant'[user[v].tenant] = tenant[user[v].tenant]
        BY <1>7, <4>2 DEF LiveTenants
      <4>. QED
        BY <1>4, <2>2, <4>1, <4>3 DEF BelongInv
    <3>2. CASE v = u /\ c.fresh
      BY <1>1, <1>2, <1>4, <2>2, <3>2, AccountsAssumption DEF Shaped
    <3>3. CASE v = u /\ ~c.fresh
      <4>1. Home(c)
        BY <2>1
      <4>. QED
        BY <1>1, <1>3, <1>4, <2>2, <3>3, <4>1, AccountsAssumption DEF Shaped, Home
    <3>. QED
      BY <3>1, <3>2, <3>3
  <2>3. ASSUME NEW q \in Calls PROVE Home(call[q])'
    <3>1. CASE q = r
      BY <1>5, <3>1
    <3>2. CASE q # r
      <4>. PICK d : d = call[q]
        OBVIOUS
      <4>1. call'[q] = d /\ Home(d) /\ About(d) \cap About(c) \subseteq crowded
        BY <1>5, <2>1, <3>2
      <4>2. CASE d = NoCall
        BY <4>1, <4>2, NoCallIs DEF Home, None
      <4>3. CASE d # NoCall
        <5>1. Shaped(d) /\ Rows(d) /\ d \in CallRow
          BY <1>4, <4>3 DEF AccType, Open, Shaped
        <5>2. d.op = "rsadmin" /\ ~d.fresh => tenant'[d.tenant].reseller = d.reseller
          <6>1. d.op = "rsadmin" /\ ~d.fresh => d.tenant \in Tenancies /\ d.tenant # None
            BY <5>1, AccountsAssumption DEF Shaped, CallRow
          <6>. QED
            BY <1>7, <4>1, <5>1, <6>1 DEF Home, Rows
        <5>3. d.op = "promote" => tenant'[user'[d.id].tenant].reseller = d.reseller
          <6>1. d.op = "promote" => d.id \in Users /\ user[d.id].row # "new"
            BY <5>1, AccountsAssumption DEF Shaped, Rows
          <6>2. d.op = "promote" => user'[d.id] = user[d.id]
            BY <1>1, <6>1
          <6>. QED
            BY <1>4, <1>7, <4>1, <6>1, <6>2 DEF Home, RowsInv
        <5>4. d.op = "dropreseller" => Customers(d.reseller)' = {}
          <6>1. d.op = "dropreseller" => d.reseller \in Resellers /\ d.reseller # None
            BY <5>1, AccountsAssumption DEF Shaped
          <6>2. d.op = "dropreseller" => c.reseller # d.reseller
            BY <4>1, <6>1 DEF About
          <6>. QED
            BY <1>2, <1>3, <4>1, <6>1, <6>2 DEF Home, Customers, LiveTenants
        <5>. QED
          BY <4>1, <5>2, <5>3, <5>4 DEF Home
      <4>. QED
        BY <4>2, <4>3
    <3>. QED
      BY <3>1, <3>2
  <2>. QED
    BY <2>2, <2>3
<1>. QED
  BY <1>6, <1>8, <1>9, <1>10, <1>11, <1>12 DEF AccInv

\* No more tenants count and the limits stay.
LEMMA SeatsKept ==
  ASSUME AccInv, NEW r \in Calls, call' = [call EXCEPT ![r] = NoCall], crowded' = crowded,
         \A x \in Resellers : /\ Counted(x)' \subseteq Counted(x)
                              /\ reseller'[x].seats = reseller[x].seats
                              /\ reseller'[x].lowered <=> reseller[x].lowered
  PROVE  SeatInv'
<1>1. /\ call'[r] = NoCall /\ \A q \in Calls \ {r} : call'[q] = call[q]
  BY CallEnds
<1>2. SeatInv /\ \A x \in Resellers : reseller[x].seats \in Nat
  BY DEF AccInv, AccType, ResellerRow
<1>3. ASSUME NEW x \in Resellers
      PROVE  /\ Cardinality(Counted(x)') \in Nat /\ Cardinality(Counted(x)) \in Nat
             /\ Cardinality(Counted(x)') <= Cardinality(Counted(x))
  <2>1. IsFiniteSet(Counted(x)) /\ Cardinality(Counted(x)) \in Nat
    BY CountedIs
  <2>. QED
    BY <2>1, FS_Subset, FS_CardinalityType
<1>4. ASSUME NEW x \in Resellers \ (crowded \cup {Platform})
      PROVE  Cardinality(Counted(x)') <= reseller'[x].seats \/ reseller'[x].lowered
  BY <1>2, <1>3 DEF SeatInv
<1>5. ASSUME NEW x \in Resellers \ (crowded \cup {Platform}), NEW q \in Calls, call'[q].reseller = x
      PROVE  Seat(call[q])'
  <2>1. q # r /\ call'[q] = call[q]
    BY <1>1, <1>5, NoCallIs, AccountsAssumption
  <2>2. Seat(call[q])
    BY <1>2, <1>5, <2>1 DEF SeatInv
  <2>. QED
    BY <1>2, <1>3, <1>5, <2>1, <2>2 DEF Seat
<1>. QED
  BY <1>4, <1>5 DEF SeatInv

\* A column of a user.
Updated(c, n) ==
  /\ c.id \in Users /\ user[c.id].row = "live" /\ n \in UserRow /\ user' = [user EXCEPT ![c.id] = n]
  /\ n.row = "live" /\ n.email = user[c.id].email /\ n.tenant = user[c.id].tenant
  /\ n.super = user[c.id].super
  /\ c.op # "role" => n.admin = user[c.id].admin /\ outside' = outside
  /\ c.op = "role" => outside' = outside \cup Outside(c)
  /\ c.op # "promote" => n.rs = user[c.id].rs

LEMMA UpdateIs ==
  ASSUME AccInv, NEW r \in Calls, NEW c, c = call[r], Open(r), SaveUpdateUser(c)
  PROVE  \E n : Updated(c, n)
<1>1. /\ c.id \in Users /\ user[c.id].row = "live" /\ user \in [Users -> UserRow] /\ c \in CallRow
  BY DEF AccInv, AccType, Open, Shaped, SaveUpdateUser
<1>. PICK i, old : i = c.id /\ old = user[i]
  OBVIOUS
<1>2. old \in UserRow /\ c.flag \in BOOLEAN /\ c.was \in BOOLEAN /\ old.admin \in BOOLEAN
  BY <1>1 DEF CallRow, UserRow
<1>3. ASSUME c.op = "role", user' = [user EXCEPT ![c.id].admin = IF c.flag # c.was THEN c.flag ELSE @],
             outside' = outside \cup Outside(c)
      PROVE  \E n : Updated(c, n)
  <2>. PICK a : a = IF c.flag # c.was THEN c.flag ELSE old.admin
    OBVIOUS
  <2>1. a \in BOOLEAN
    BY <1>2, Zenon
  <2>. DEFINE n == [old EXCEPT !.admin = a]
  <2>2. user' = [user EXCEPT ![c.id] = n]
    BY <1>3, Zenon
  <2>3. n \in UserRow
    BY <1>2, <2>1 DEF UserRow
  <2>4. /\ n.row = old.row /\ n.email = old.email /\ n.tenant = old.tenant
        /\ n.super = old.super /\ n.rs = old.rs
    BY <1>2 DEF UserRow
  <2>. HIDE DEF n
  <2>5. old = user[c.id] /\ old.row = "live"
    BY <1>1
  <2>6. Updated(c, n)
    BY <1>1, <1>3, <2>2, <2>3, <2>4, <2>5, Zenon DEF Updated
  <2>. QED
    BY <2>6, Zenon
<1>4. ASSUME c.op = "promote", user' = [user EXCEPT ![c.id].rs = TRUE], UNCHANGED outside
      PROVE  \E n : Updated(c, n)
  <2>. DEFINE n == [old EXCEPT !.rs = TRUE]
  <2>1. user' = [user EXCEPT ![c.id] = n]
    BY <1>4
  <2>2. n \in UserRow
    BY <1>2 DEF UserRow
  <2>3. /\ n.row = old.row /\ n.email = old.email /\ n.tenant = old.tenant
        /\ n.super = old.super /\ n.admin = old.admin
    BY <1>2 DEF UserRow
  <2>. HIDE DEF n
  <2>5. old = user[c.id] /\ old.row = "live"
    BY <1>1
  <2>6. Updated(c, n)
    BY <1>1, <1>4, <2>1, <2>2, <2>3, <2>5, Zenon DEF Updated
  <2>. QED
    BY <2>6, Zenon
<1>5. ASSUME NEW pw \in {"own", "reset"}, c.op \in {"password", "reset"},
             user' = [user EXCEPT ![c.id].pw = pw], UNCHANGED outside
      PROVE  \E n : Updated(c, n)
  <2>. DEFINE n == [old EXCEPT !.pw = pw]
  <2>1. user' = [user EXCEPT ![c.id] = n]
    BY <1>5
  <2>2. n \in UserRow
    BY <1>2 DEF UserRow
  <2>3. /\ n.row = old.row /\ n.email = old.email /\ n.tenant = old.tenant
        /\ n.super = old.super /\ n.admin = old.admin /\ n.rs = old.rs
    BY <1>2 DEF UserRow
  <2>. HIDE DEF n
  <2>5. old = user[c.id] /\ old.row = "live"
    BY <1>1
  <2>6. Updated(c, n)
    BY <1>1, <1>5, <2>1, <2>2, <2>3, <2>5, Zenon DEF Updated
  <2>. QED
    BY <2>6, Zenon
<1>. QED
  BY <1>3, <1>4, <1>5 DEF SaveUpdateUser

\* Whoever may act for a tenant still may, or another request is about it too.
LEMMA RightsKept ==
  ASSUME AccInv, NEW r \in Calls, call' = [call EXCEPT ![r] = NoCall], crowded' = crowded,
         NEW c, c = call[r],
         \A v \in LiveUsers : \/ v \in LiveUsers' /\ user'[v].tenant = user[v].tenant
                                 /\ user'[v].admin = user[v].admin /\ user'[v].super = user[v].super
                              \/ user[v].tenant = c.tenant /\ c.tenant # None
  PROVE  \A q \in Calls : call'[q].tenant \notin crowded' => Rights(call[q])'
<1>1. /\ call'[r] = NoCall /\ \A q \in Calls \ {r} : call'[q] = call[q]
      /\ Rights(call[r])' /\ \A q \in Calls \ {r} : About(call[q]) \cap About(c) \subseteq crowded
  BY CallEnds
<1>2. ASSUME NEW q \in Calls \ {r}, call'[q].tenant \notin crowded PROVE Rights(call[q])'
  <2>. PICK d : d = call[q]
    OBVIOUS
  <2>1. call'[q] = d /\ Rights(d)
    BY <1>1, <1>2 DEF AccInv, AdminInv
  <2>2. ASSUME d.op \in {"role", "delete"}, d.own PROVE d.by \in LiveUsers' /\ Governs(d.by, d.tenant)'
    <3>1. d.by \in LiveUsers /\ Governs(d.by, d.tenant)
      BY <2>1, <2>2 DEF Rights
    <3>2. ~(user[d.by].tenant = c.tenant /\ c.tenant # None)
      BY <1>1, <1>2, <2>1, <3>1 DEF Governs, About
    <3>. QED
      BY <3>1, <3>2 DEF Governs
  <2>. QED
    BY <2>1, <2>2 DEF Rights
<1>. QED
  BY <1>1, <1>2

LEMMA SaveUpdateUserKeeps ==
  ASSUME AccInv, NEW r \in Calls, NEW c, c = call[r], Open(r), SaveUpdateUser(c),
         call' = [call EXCEPT ![r] = NoCall], session' = session, crowded' = crowded
  PROVE  AccInv'
<1>1. PICK n : Updated(c, n)
  BY UpdateIs
<1>2. /\ AccType /\ RowsInv /\ AdminInv /\ BelongInv /\ Shaped(c) /\ Rows(c) /\ c \in CallRow
      /\ user \in [Users -> UserRow] /\ tenant' = tenant /\ reseller' = reseller /\ Spend(c)
  BY DEF AccInv, AccType, Open, Shaped, SaveUpdateUser
<1>. PICK i : i = c.id
  OBVIOUS
<1>3. /\ i \in Users /\ user[i].row = "live" /\ n \in UserRow /\ user' = [user EXCEPT ![i] = n]
      /\ n.row = "live" /\ n.email = user[i].email /\ n.tenant = user[i].tenant
  BY <1>1 DEF Updated
<1>4. /\ user'[i] = n /\ \A v \in Users \ {i} : user'[v] = user[v]
      /\ user' \in [Users -> UserRow]
  BY <1>2, <1>3
<1>5. /\ LiveUsers' = LiveUsers /\ i \in LiveUsers
      /\ \A v \in Users : user'[v].tenant = user[v].tenant /\ user'[v].email = user[v].email
                          /\ user'[v].row = user[v].row
  BY <1>3, <1>4 DEF LiveUsers
<1>6. LinkInv' /\ link' \in [Links -> LinkRow] /\ used' \in [Links -> Nat]
      /\ \A l \in Links : link'[l].kind = link[l].kind
  BY <1>2, SpendKeeps
<1>7. AccType' /\ Apart'
  <2>1. Onward
    BY <1>2, <1>5, <1>6 DEF Onward
  <2>. QED
    BY <1>2, <1>4, <1>6, <2>1, TypeKept DEF AccType
<1>8. RowsInv'
  BY <1>2, <1>5 DEF RowsInv, LiveTenants, LiveResellers, LiveUsers
<1>9. SeatInv'
  <2>1. \A x \in Resellers : /\ Counted(x)' \subseteq Counted(x)
                             /\ reseller'[x].seats = reseller[x].seats
                             /\ reseller'[x].lowered <=> reseller[x].lowered
    BY <1>2 DEF Counted, Customers, LiveTenants
  <2>. QED
    BY <2>1, SeatsKept
<1>10. ASSUME NEW v \in LiveUsers, NEW t, v # i \/ c.op # "role", Governs(v, t)
       PROVE  v \in LiveUsers' /\ Governs(v, t)'
  <2>1. c.op # "role" => (n.admin <=> user[i].admin)
    BY <1>1, Zenon DEF Updated
  <2>2. n.super <=> user[i].super
    BY <1>1, Zenon DEF Updated
  <2>3. v # i => user'[v] = user[v]
    BY <1>4 DEF LiveUsers
  <2>4. v \in LiveUsers' /\ user'[v].tenant = user[v].tenant /\ user[v].tenant = t
    BY <1>5, <1>10 DEF LiveUsers, Governs
  <2>5. CASE v # i
    BY <1>10, <2>3, <2>4, <2>5 DEF Governs
  <2>6. CASE v = i /\ c.op # "role"
    BY <1>4, <1>10, <2>1, <2>2, <2>4, <2>6, Zenon DEF Governs
  <2>. QED
    BY <1>10, <2>5, <2>6
<1>11. AdminInv'
  <2>1. ASSUME NEW t \in LiveTenants' \ (crowded' \cup outside') PROVE \E u \in LiveUsers' : Governs(u, t)'
    <3>1. t \in LiveTenants \ crowded /\ t \notin outside
      BY <1>1, <1>2, <2>1 DEF LiveTenants, Updated
    <3>2. PICK u \in LiveUsers : Governs(u, t)
      BY <1>2, <3>1 DEF AdminInv
    <3>3. CASE u # i \/ c.op # "role"
      BY <1>10, <3>2, <3>3
    <3>4. CASE u = i /\ c.op = "role"
      <4>1. t = c.tenant
        BY <1>2, <3>2, <3>4 DEF Rows, Governs
      <4>2. c.own
        BY <1>1, <2>1, <3>4, <4>1 DEF Updated, Outside
      <4>3. c.by \in LiveUsers /\ Governs(c.by, t)
        BY <1>2, <3>1, <3>4, <4>1, <4>2 DEF AdminInv, Rights
      <4>4. c.by # i
        BY <1>2, <3>4 DEF Shaped
      <4>. QED
        BY <1>10, <4>3, <4>4
    <3>. QED
      BY <3>3, <3>4
  <2>2. \A q \in Calls : call'[q].tenant \notin crowded' => Rights(call[q])'
    <3>1. \A q \in Calls \ {r} : call'[q] = call[q] /\ About(call[q]) \cap About(c) \subseteq crowded
      BY CallEnds
    <3>2. Rights(call[r])'
      BY CallEnds
    <3>3. ASSUME NEW q \in Calls \ {r}, call'[q].tenant \notin crowded PROVE Rights(call[q])'
      <4>. PICK d : d = call[q]
        OBVIOUS
      <4>1. call'[q] = d /\ Rights(d) /\ About(d) \cap About(c) \subseteq crowded
        BY <1>2, <3>1, <3>3 DEF AdminInv
      <4>2. ASSUME d.op \in {"role", "delete"}, d.own PROVE d.by \in LiveUsers' /\ Governs(d.by, d.tenant)'
        <5>1. d.by \in LiveUsers /\ Governs(d.by, d.tenant) /\ user[d.by].tenant = d.tenant
          BY <4>1, <4>2 DEF Rights, Governs
        <5>2. ~(d.by = i /\ c.op = "role")
          <6>1. Open(q) /\ d.tenant \in Tenancies /\ d.tenant # None
            <7>1. Open(q)
              BY <4>1, <4>2, NoCallIs DEF Open, None
            <7>. QED
              BY <1>2, <4>2, <7>1, AccountsAssumption DEF AccType, Shaped
          <6>2. c.op = "role" => user[i].tenant = c.tenant
            BY <1>2 DEF Rows
          <6>. QED
            BY <3>1, <3>3, <4>1, <5>1, <6>1, <6>2 DEF About
        <5>. QED
          BY <1>10, <5>1, <5>2
      <4>. QED
        BY <4>1, <4>2 DEF Rights
    <3>. QED
      BY <3>2, <3>3
  <2>. QED
    BY <2>1, <2>2 DEF AdminInv
<1>12. BelongInv'
  <2>. SUFFICES ASSUME crowded \cap Resellers = {}
                PROVE  /\ \A v \in LiveUsers' : user'[v].rs => tenant'[user'[v].tenant].reseller # None
                       /\ \A q \in Calls : Home(call[q])'
    BY DEF BelongInv
  <2>1. \A q \in Calls : Home(call[q])
    BY <1>2 DEF BelongInv
  <2>2. ASSUME NEW v \in LiveUsers', user'[v].rs PROVE tenant'[user'[v].tenant].reseller # None
    <3>1. CASE v = i /\ c.op = "promote"
      BY <1>2, <1>5, <2>1, <3>1, AccountsAssumption DEF Home, Shaped
    <3>2. CASE v # i \/ c.op # "promote"
      <4>1. user[v].rs
        <5>1. c.op # "promote" => (n.rs <=> user[i].rs)
          BY <1>1, Zenon DEF Updated
        <5>. QED
          BY <1>4, <2>2, <3>2, <5>1 DEF LiveUsers
      <4>. QED
        BY <1>2, <1>5, <4>1 DEF BelongInv, LiveUsers
    <3>. QED
      BY <3>1, <3>2
  <2>3. ASSUME NEW q \in Calls PROVE Home(call[q])'
    <3>1. CASE q = r
      BY <3>1, CallEnds
    <3>2. CASE q # r
      <4>. PICK d : d = call[q]
        OBVIOUS
      <4>1. call'[q] = d /\ Home(d)
        BY <2>1, <3>2, CallEnds
      <4>2. d.op = "promote" => d.id \in Users
        <5>1. d.op = "promote" => Open(q)
          BY NoCallIs DEF Open, None
        <5>. QED
          BY <1>2, <5>1 DEF AccType, Shaped
      <4>3. d.op = "promote" => user'[d.id].tenant = user[d.id].tenant
        BY <1>5, <4>2
      <4>. QED
        BY <1>2, <4>1, <4>3 DEF Home, Customers, LiveTenants
    <3>. QED
      BY <3>1, <3>2
  <2>. QED
    BY <2>2, <2>3
<1>. QED
  BY <1>6, <1>7, <1>8, <1>9, <1>11, <1>12 DEF AccInv

\* Links and what a deletion leaves of them.
LEMMA LinksStay ==
  ASSUME AccInv, NEW r \in Calls, call' = [call EXCEPT ![r] = NoCall], crowded' = crowded,
         link' = link, used' = used
  PROVE  LinkInv'
<1>1. \A q \in Calls : call'[q].link \notin crowded' => Unspent(call[q])'
  <2>1. \A q \in Calls \ {r} : call'[q] = call[q]
    BY CallEnds
  <2>2. \A q \in Calls \ {r} : call'[q].link \notin crowded' => Unspent(call[q])'
    BY <2>1 DEF AccInv, LinkInv, Unspent
  <2>. QED
    BY <2>2, CallEnds
<1>. QED
  BY <1>1 DEF AccInv, LinkInv

LEMMA SaveDeleteUserKeeps ==
  ASSUME AccInv, NEW r \in Calls, NEW c, c = call[r], Open(r), c.op = "delete",
         user' = [user EXCEPT ![c.id].row = "gone"], outside' = outside \cup Outside(c),
         UNCHANGED <<tenant, reseller, link, used>>,
         call' = [call EXCEPT ![r] = NoCall], session' = session, crowded' = crowded
  PROVE  AccInv'
<1>1. /\ AccType /\ RowsInv /\ AdminInv /\ BelongInv /\ Shaped(c) /\ Rows(c) /\ c \in CallRow
      /\ user \in [Users -> UserRow]
  BY DEF AccInv, AccType, Open, Shaped
<1>. PICK i, n : i = c.id /\ n = [user[i] EXCEPT !.row = "gone"]
  OBVIOUS
<1>2. i \in Users /\ user[i].tenant = c.tenant /\ c.tenant # None /\ c.by # i /\ user[i].row # "new"
  BY <1>1, AccountsAssumption DEF Shaped, Rows
<1>3. user[i] \in UserRow /\ user' = [user EXCEPT ![i] = n]
  BY <1>1, <1>2
<1>4. n \in UserRow /\ n.row = "gone" /\ n.tenant = user[i].tenant
  BY <1>3 DEF UserRow
<1>5. /\ user'[i] = n /\ \A v \in Users \ {i} : user'[v] = user[v]
      /\ user' \in [Users -> UserRow]
  BY <1>1, <1>2, <1>3, <1>4
<1>6. LiveUsers' = LiveUsers \ {i}
  BY <1>2, <1>4, <1>5 DEF LiveUsers
<1>7. AccType' /\ Apart'
  <2>1. Onward
    BY <1>1, <1>2, <1>4, <1>5 DEF Onward
  <2>. QED
    BY <1>1, <1>5, <2>1, TypeKept DEF AccType
<1>8. RowsInv'
  <2>1. \A v \in Users : user'[v].row # "new" => user'[v].tenant = user[v].tenant /\ user[v].row # "new"
    BY <1>2, <1>4, <1>5
  <2>2. \A v \in LiveUsers' : v \in LiveUsers /\ user'[v] = user[v]
    BY <1>5, <1>6 DEF LiveUsers
  <2>. QED
    <3>1. LiveTenants' = LiveTenants /\ LiveResellers' = LiveResellers
      BY DEF LiveTenants, LiveResellers
    <3>2. \A v \in Users : user'[v].row # "new" =>
             user'[v].tenant \in Tenancies /\ tenant'[user'[v].tenant].row # "new"
      BY <1>1, <2>1 DEF RowsInv
    <3>3. \A v, x \in LiveUsers' : user'[v].email = user'[x].email => v = x
      BY <1>1, <2>2 DEF RowsInv
    <3>4. \A v \in LiveUsers' : user'[v].tenant \in LiveTenants'
      BY <1>1, <2>2, <3>1 DEF RowsInv
    <3>. QED
      BY <1>1, <3>1, <3>2, <3>3, <3>4 DEF RowsInv
<1>9. SeatInv'
  <2>1. \A x \in Resellers : /\ Counted(x)' \subseteq Counted(x)
                             /\ reseller'[x].seats = reseller[x].seats
                             /\ reseller'[x].lowered <=> reseller[x].lowered
    BY DEF Counted, Customers, LiveTenants
  <2>. QED
    BY <2>1, SeatsKept
<1>10. ASSUME NEW v \in LiveUsers, NEW t, v # i, Governs(v, t)
       PROVE  v \in LiveUsers' /\ Governs(v, t)'
  BY <1>5, <1>6, <1>10 DEF Governs, LiveUsers
<1>11. AdminInv'
  <2>1. ASSUME NEW t \in LiveTenants' \ (crowded' \cup outside') PROVE \E u \in LiveUsers' : Governs(u, t)'
    <3>1. t \in LiveTenants \ crowded /\ t \notin outside
      BY <2>1 DEF LiveTenants
    <3>2. PICK u \in LiveUsers : Governs(u, t)
      BY <1>1, <3>1 DEF AdminInv
    <3>3. CASE u # i
      BY <1>10, <3>2, <3>3
    <3>4. CASE u = i
      <4>1. t = c.tenant
        BY <1>2, <3>2, <3>4 DEF Governs
      <4>2. c.own
        BY <2>1, <4>1 DEF Outside
      <4>3. c.by \in LiveUsers /\ Governs(c.by, t)
        BY <1>1, <3>1, <4>1, <4>2 DEF AdminInv, Rights
      <4>. QED
        BY <1>2, <1>10, <4>3
    <3>. QED
      BY <3>3, <3>4
  <2>2. \A q \in Calls : call'[q].tenant \notin crowded' => Rights(call[q])'
    <3>1. \A v \in LiveUsers : \/ v \in LiveUsers' /\ user'[v].tenant = user[v].tenant
                                  /\ user'[v].admin = user[v].admin /\ user'[v].super = user[v].super
                               \/ user[v].tenant = c.tenant /\ c.tenant # None
      BY <1>2, <1>5, <1>6 DEF LiveUsers
    <3>. QED
      BY <3>1, RightsKept
  <2>. QED
    BY <2>1, <2>2 DEF AdminInv
<1>12. BelongInv'
  <2>. SUFFICES ASSUME crowded \cap Resellers = {}
                PROVE  /\ \A v \in LiveUsers' : user'[v].rs => tenant'[user'[v].tenant].reseller # None
                       /\ \A q \in Calls : Home(call[q])'
    BY DEF BelongInv
  <2>1. \A q \in Calls : Home(call[q])
    BY <1>1 DEF BelongInv
  <2>2. \A v \in LiveUsers' : user'[v].rs => tenant'[user'[v].tenant].reseller # None
    BY <1>1, <1>5, <1>6 DEF BelongInv, LiveUsers
  <2>3. ASSUME NEW q \in Calls PROVE Home(call[q])'
    <3>1. CASE q = r
      BY <3>1, CallEnds
    <3>2. CASE q # r
      <4>. PICK d : d = call[q]
        OBVIOUS
      <4>1. call'[q] = d /\ Home(d)
        BY <2>1, <3>2, CallEnds
      <4>2. d.op = "promote" => user'[d.id].tenant = user[d.id].tenant
        <5>1. d.op = "promote" => Open(q)
          BY NoCallIs DEF Open, None
        <5>2. d.op = "promote" => d.id \in Users
          BY <1>1, <5>1 DEF AccType, Shaped
        <5>. QED
          BY <1>4, <1>5, <5>2
      <4>. QED
        BY <4>1, <4>2 DEF Home, Customers, LiveTenants
    <3>. QED
      BY <3>1, <3>2
  <2>. QED
    BY <2>2, <2>3
<1>. QED
  BY <1>7, <1>8, <1>9, <1>11, <1>12, LinksStay DEF AccInv

\* A tenant goes with its users.
UsersGo(g) == user' = [u \in Users |-> IF u \in Cascade(g) THEN [user[u] EXCEPT !.row = "gone"] ELSE user[u]]

LEMMA SaveDropTenantKeeps ==
  ASSUME AccInv, NEW r \in Calls, NEW c, c = call[r], Open(r), c.op = "droptenant",
         tenant' = [tenant EXCEPT ![c.tenant].row = "gone"],
         UsersGo(c.tenant),
         UNCHANGED <<reseller, outside, link, used>>,
         call' = [call EXCEPT ![r] = NoCall], session' = session, crowded' = crowded
  PROVE  AccInv'
<1>1. /\ AccType /\ RowsInv /\ AdminInv /\ BelongInv /\ Shaped(c) /\ Rows(c) /\ c \in CallRow
      /\ user \in [Users -> UserRow] /\ tenant \in [Tenancies -> TenantRow]
  BY DEF AccInv, AccType, Open, Shaped
<1>. PICK g, n : g = c.tenant /\ n = [tenant[g] EXCEPT !.row = "gone"]
  OBVIOUS
<1>2. g \in Tenancies /\ g # None /\ tenant[g].row # "new"
  BY <1>1, AccountsAssumption DEF Shaped, Rows
<1>3. tenant[g] \in TenantRow /\ tenant' = [tenant EXCEPT ![g] = n]
  BY <1>1, <1>2
<1>4. n \in TenantRow /\ n.row = "gone" /\ n.reseller = tenant[g].reseller
  BY <1>3 DEF TenantRow
<1>5. /\ tenant'[g] = n /\ \A v \in Tenancies \ {g} : tenant'[v] = tenant[v]
      /\ tenant' \in [Tenancies -> TenantRow] /\ LiveTenants' = LiveTenants \ {g}
  BY <1>1, <1>2, <1>3, <1>4 DEF LiveTenants
<1>6. \A v \in Users : v \in Cascade(g) <=> v \in LiveUsers /\ user[v].tenant = g
  BY DEF Cascade, LiveUsers
<1>7. \A v \in Users : /\ user'[v] \in UserRow /\ user'[v].tenant = user[v].tenant
                       /\ user'[v].row = IF v \in Cascade(g) THEN "gone" ELSE user[v].row
                       /\ v \notin Cascade(g) => user'[v] = user[v]
  <2>. TAKE v \in Users
  <2>1. user[v] \in UserRow
    BY <1>1
  <2>2. CASE v \in Cascade(g)
    <3>1. user'[v] = [user[v] EXCEPT !.row = "gone"]
      BY <2>2 DEF UsersGo
    <3>. QED
      BY <2>1, <2>2, <3>1 DEF UserRow
  <2>3. CASE v \notin Cascade(g)
    BY <2>1, <2>3 DEF UsersGo
  <2>. QED
    BY <2>2, <2>3
<1>8. /\ \A v \in LiveUsers' : v \in LiveUsers /\ user'[v] = user[v] /\ user[v].tenant # g
      /\ \A v \in LiveUsers : user[v].tenant # g => v \in LiveUsers' /\ user'[v] = user[v]
      /\ user' \in [Users -> UserRow]
  <2>1. user' \in [Users -> UserRow]
    BY <1>7 DEF UsersGo
  <2>. QED
    BY <1>6, <1>7, <2>1 DEF LiveUsers
<1>9. AccType' /\ Apart'
  <2>1. \A v \in Users : user[v].row # "new" => user'[v].row # "new" /\ user'[v].tenant = user[v].tenant
    BY <1>7
  <2>2. \A v \in Tenancies : tenant[v].row # "new" => tenant'[v].row # "new"
    BY <1>4, <1>5
  <2>3. Onward
    BY <2>1, <2>2 DEF Onward
  <2>. QED
    BY <1>1, <1>5, <1>8, <2>3, TypeKept DEF AccType
<1>10. RowsInv'
  <2>1. ASSUME NEW v \in Users, user'[v].row # "new"
        PROVE  user'[v].tenant \in Tenancies /\ tenant'[user'[v].tenant].row # "new"
    <3>1. user[v].row # "new" /\ user'[v].tenant = user[v].tenant
      BY <1>6, <1>7, <2>1 DEF LiveUsers
    <3>2. user[v].tenant \in Tenancies /\ tenant[user[v].tenant].row # "new"
      BY <1>1, <3>1 DEF RowsInv
    <3>. QED
      BY <1>4, <1>5, <3>1, <3>2
  <2>2. \A v, w \in LiveUsers' : user'[v].email = user'[w].email => v = w
    <3>1. \A v \in LiveUsers' : v \in LiveUsers /\ user'[v].email = user[v].email
      BY <1>8
    <3>2. \A v, w \in LiveUsers : user[v].email = user[w].email => v = w
      BY <1>1 DEF RowsInv
    <3>. QED
      BY <3>1, <3>2
  <2>3. \A v \in LiveUsers' : user'[v].tenant \in LiveTenants'
    <3>1. \A v \in LiveUsers' : v \in LiveUsers /\ user'[v].tenant = user[v].tenant /\ user[v].tenant # g
      BY <1>8
    <3>2. \A v \in LiveUsers : user[v].tenant \in LiveTenants
      BY <1>1 DEF RowsInv
    <3>. QED
      BY <1>5, <3>1, <3>2
  <2>4. \A v \in LiveTenants' : tenant'[v].reseller \in LiveResellers' \cup {None}
    BY <1>1, <1>5 DEF RowsInv, LiveResellers, LiveTenants
  <2>5. Platform \in LiveResellers'
    BY <1>1 DEF RowsInv, LiveResellers
  <2>. QED
    BY <2>1, <2>2, <2>3, <2>4, <2>5 DEF RowsInv
<1>11. SeatInv'
  <2>1. ASSUME NEW x \in Resellers
        PROVE  /\ Counted(x)' \subseteq Counted(x)
               /\ reseller'[x].seats = reseller[x].seats
               /\ reseller'[x].lowered <=> reseller[x].lowered
    <3>1. \A v \in LiveTenants' : v \in LiveTenants /\ tenant'[v] = tenant[v]
      BY <1>5 DEF LiveTenants
    <3>. QED
      BY <3>1 DEF Counted, Customers
  <2>. QED
    BY <2>1, SeatsKept
<1>12. AdminInv'
  <2>1. ASSUME NEW t \in LiveTenants' \ (crowded' \cup outside') PROVE \E u \in LiveUsers' : Governs(u, t)'
    <3>1. t \in LiveTenants \ crowded /\ t \notin outside /\ t # g
      BY <1>5, <2>1
    <3>2. PICK u \in LiveUsers : Governs(u, t)
      BY <1>1, <3>1 DEF AdminInv
    <3>. QED
      BY <1>8, <3>1, <3>2 DEF Governs
  <2>2. \A q \in Calls : call'[q].tenant \notin crowded' => Rights(call[q])'
    <3>1. \A v \in LiveUsers : \/ v \in LiveUsers' /\ user'[v].tenant = user[v].tenant
                                  /\ user'[v].admin = user[v].admin /\ user'[v].super = user[v].super
                               \/ user[v].tenant = c.tenant /\ c.tenant # None
      BY <1>2, <1>8
    <3>. QED
      BY <3>1, RightsKept
  <2>. QED
    BY <2>1, <2>2 DEF AdminInv
<1>13. BelongInv'
  <2>. SUFFICES ASSUME crowded \cap Resellers = {}
                PROVE  /\ \A v \in LiveUsers' : user'[v].rs => tenant'[user'[v].tenant].reseller # None
                       /\ \A q \in Calls : Home(call[q])'
    BY DEF BelongInv
  <2>1. \A q \in Calls : Home(call[q])
    BY <1>1 DEF BelongInv
  <2>2. \A v \in Tenancies : tenant'[v].reseller = tenant[v].reseller
    BY <1>4, <1>5
  <2>3. \A v \in LiveUsers' : user'[v].rs => tenant'[user'[v].tenant].reseller # None
    <3>1. \A v \in LiveUsers : user[v].tenant \in Tenancies
      BY <1>1 DEF RowsInv, LiveTenants
    <3>2. \A v \in LiveUsers' : v \in LiveUsers /\ user'[v].tenant = user[v].tenant /\ (user'[v].rs => user[v].rs)
      BY <1>8
    <3>. QED
      BY <1>1, <2>2, <3>1, <3>2 DEF BelongInv
  <2>4. ASSUME NEW q \in Calls PROVE Home(call[q])'
    <3>1. CASE q = r
      BY <3>1, CallEnds
    <3>2. CASE q # r
      <4>. PICK d : d = call[q]
        OBVIOUS
      <4>1. call'[q] = d /\ Home(d)
        BY <2>1, <3>2, CallEnds
      <4>2. CASE ~Open(q)
        BY <4>1, <4>2, NoCallIs DEF Open, Home, None
      <4>3. CASE Open(q)
        <5>1. Shaped(d) /\ Rows(d) /\ d \in CallRow
          BY <1>1, <4>3 DEF AccType, Shaped
        <5>2. d.op = "promote" => tenant'[user'[d.id].tenant].reseller = d.reseller
          <6>1. d.op = "promote" => d.id \in Users /\ user[d.id].row # "new"
            BY <5>1, AccountsAssumption DEF Shaped, Rows
          <6>2. d.op = "promote" => user'[d.id].tenant = user[d.id].tenant /\ user[d.id].tenant \in Tenancies
            BY <1>1, <1>7, <6>1 DEF RowsInv
          <6>. QED
            BY <2>2, <4>1, <6>2 DEF Home
        <5>3. d.op = "rsadmin" /\ ~d.fresh => tenant'[d.tenant].reseller = d.reseller
          <6>1. d.op = "rsadmin" /\ ~d.fresh => d.tenant \in Tenancies
            BY <5>1 DEF Shaped, CallRow
          <6>. QED
            BY <2>2, <4>1, <6>1 DEF Home
        <5>4. d.op = "dropreseller" => Customers(d.reseller)' = {}
          BY <1>5, <2>2, <4>1 DEF Home, Customers, LiveTenants
        <5>. QED
          BY <4>1, <5>2, <5>3, <5>4 DEF Home
      <4>. QED
        BY <4>2, <4>3
    <3>. QED
      BY <3>1, <3>2
  <2>. QED
    BY <2>3, <2>4
<1>. QED
  BY <1>9, <1>10, <1>11, <1>12, <1>13, LinksStay DEF AccInv

\* The tenants of a reseller that goes have none.
TenantsFreed(x) ==
  tenant' = [t \in Tenancies |-> IF tenant[t].reseller = x THEN [tenant[t] EXCEPT !.reseller = None]
                                                           ELSE tenant[t]]

LEMMA FreedIs ==
  ASSUME AccInv, NEW x \in Resellers, TenantsFreed(x)
  PROVE  /\ tenant' \in [Tenancies -> TenantRow] /\ LiveTenants' = LiveTenants
         /\ \A t \in Tenancies : /\ tenant'[t].row = tenant[t].row
                                 /\ tenant'[t].reseller = IF tenant[t].reseller = x THEN None ELSE tenant[t].reseller
                                 /\ tenant[t].reseller # x => tenant'[t] = tenant[t]
<1>1. ASSUME NEW t \in Tenancies
      PROVE  /\ tenant'[t] \in TenantRow /\ tenant'[t].row = tenant[t].row
             /\ tenant'[t].reseller = IF tenant[t].reseller = x THEN None ELSE tenant[t].reseller
             /\ tenant[t].reseller # x => tenant'[t] = tenant[t]
  <2>. PICK o : o = tenant[t]
    OBVIOUS
  <2>1. o \in TenantRow
    BY DEF AccInv, AccType
  <2>2. CASE o.reseller = x
    <3>1. tenant'[t] = [o EXCEPT !.reseller = None]
      BY <2>2 DEF TenantsFreed
    <3>2. o.reseller = x /\ o = tenant[t]
      BY <2>2
    <3>. QED
      BY <2>1, <3>1, <3>2 DEF TenantRow
  <2>3. CASE o.reseller # x
    BY <2>1, <2>3 DEF TenantsFreed
  <2>. QED
    BY <2>2, <2>3
<1>2. tenant' \in [Tenancies -> TenantRow]
  BY <1>1 DEF TenantsFreed
<1>. QED
  BY <1>1, <1>2 DEF LiveTenants

LEMMA SaveDropResellerKeeps ==
  ASSUME AccInv, NEW r \in Calls, NEW c, c = call[r], Open(r), c.op = "dropreseller",
         reseller' = [reseller EXCEPT ![c.reseller].row = "gone"], TenantsFreed(c.reseller),
         UNCHANGED <<user, outside, link, used>>,
         call' = [call EXCEPT ![r] = NoCall], session' = session, crowded' = crowded
  PROVE  AccInv'
<1>1. /\ AccType /\ RowsInv /\ AdminInv /\ BelongInv /\ Shaped(c) /\ Rows(c) /\ c \in CallRow
      /\ reseller \in [Resellers -> ResellerRow]
  BY DEF AccInv, AccType, Open, Shaped
<1>. PICK x, n : x = c.reseller /\ n = [reseller[x] EXCEPT !.row = "gone"]
  OBVIOUS
<1>2. x \in Resellers /\ x # Platform /\ x # None /\ reseller[x] \in ResellerRow
  BY <1>1, AccountsAssumption DEF Shaped
<1>3. n \in ResellerRow /\ n.row = "gone" /\ n.seats = reseller[x].seats /\ n.lowered = reseller[x].lowered
  BY <1>2 DEF ResellerRow
<1>4. /\ reseller'[x] = n /\ \A y \in Resellers \ {x} : reseller'[y] = reseller[y]
      /\ reseller' \in [Resellers -> ResellerRow] /\ LiveResellers' = LiveResellers \ {x}
  BY <1>1, <1>2, <1>3 DEF LiveResellers
<1>5. /\ tenant' \in [Tenancies -> TenantRow] /\ LiveTenants' = LiveTenants
      /\ \A t \in Tenancies : /\ tenant'[t].row = tenant[t].row
                              /\ tenant'[t].reseller = IF tenant[t].reseller = x THEN None ELSE tenant[t].reseller
                              /\ tenant[t].reseller # x => tenant'[t] = tenant[t]
  BY <1>2, FreedIs
<1>6. \A t \in Tenancies : tenant'[t].reseller \in Resellers => tenant'[t] = tenant[t]
  BY <1>5, AccountsAssumption
<1>7. LiveUsers' = LiveUsers /\ LiveUsers \subseteq Users /\ LiveTenants \subseteq Tenancies
  BY DEF LiveUsers, LiveTenants
<1>8. AccType' /\ Apart'
  <2>1. \A t \in Tenancies : tenant[t].row # "new" => tenant'[t].row # "new"
    BY <1>5
  <2>2. \A y \in Resellers : reseller[y].row # "new" => reseller'[y].row # "new"
    BY <1>3, <1>4
  <2>3. Onward
    BY <2>1, <2>2 DEF Onward
  <2>. QED
    BY <1>1, <1>4, <1>5, <2>3, TypeKept DEF AccType
<1>9. RowsInv'
  <2>1. ASSUME NEW v \in Users, user'[v].row # "new"
        PROVE  user'[v].tenant \in Tenancies /\ tenant'[user'[v].tenant].row # "new"
    BY <1>1, <1>5, <2>1 DEF RowsInv
  <2>2. \A v, w \in LiveUsers' : user'[v].email = user'[w].email => v = w
    BY <1>1, <1>7 DEF RowsInv
  <2>3. \A v \in LiveUsers' : user'[v].tenant \in LiveTenants'
    BY <1>1, <1>5, <1>7 DEF RowsInv
  <2>4. \A t \in LiveTenants' : tenant'[t].reseller \in LiveResellers' \cup {None}
    <3>1. \A t \in LiveTenants : tenant[t].reseller \in LiveResellers \cup {None}
      BY <1>1 DEF RowsInv
    <3>. QED
      BY <1>4, <1>5, <1>7, <3>1
  <2>5. Platform \in LiveResellers'
    BY <1>1, <1>2, <1>4 DEF RowsInv
  <2>. QED
    BY <2>1, <2>2, <2>3, <2>4, <2>5 DEF RowsInv
<1>10. ASSUME NEW y \in Resellers PROVE Counted(y)' \subseteq Counted(y) /\ Customers(y)' \subseteq Customers(y)
  <2>1. ASSUME NEW t \in Customers(y)' PROVE t \in Customers(y) /\ tenant'[t] = tenant[t]
    <3>1. t \in LiveTenants /\ tenant'[t].reseller = y
      BY <1>5, <2>1 DEF Customers
    <3>. QED
      BY <1>6, <1>7, <3>1 DEF Customers
  <2>. QED
    BY <2>1 DEF Counted
<1>11. SeatInv'
  <2>1. ASSUME NEW y \in Resellers
        PROVE  /\ Counted(y)' \subseteq Counted(y)
               /\ reseller'[y].seats = reseller[y].seats
               /\ reseller'[y].lowered <=> reseller[y].lowered
    <3>1. reseller'[y].seats = reseller[y].seats /\ reseller'[y].lowered = reseller[y].lowered
      BY <1>3, <1>4
    <3>. QED
      BY <1>10, <3>1
  <2>. QED
    BY <2>1, SeatsKept
<1>12. AdminInv'
  <2>1. \A t \in LiveTenants' \ (crowded' \cup outside') : \E u \in LiveUsers' : Governs(u, t)'
    BY <1>1, <1>5, <1>7 DEF AdminInv, Governs
  <2>2. \A q \in Calls : call'[q].tenant \notin crowded' => Rights(call[q])'
    BY <1>7, RightsKept
  <2>. QED
    BY <2>1, <2>2 DEF AdminInv
<1>13. BelongInv'
  <2>. SUFFICES ASSUME crowded \cap Resellers = {}
                PROVE  /\ \A v \in LiveUsers' : user'[v].rs => tenant'[user'[v].tenant].reseller # None
                       /\ \A q \in Calls : Home(call[q])'
    BY DEF BelongInv
  <2>1. \A q \in Calls : Home(call[q])
    BY <1>1 DEF BelongInv
  <2>2. Customers(x) = {}
    BY <2>1 DEF Home
  <2>3. \A t \in LiveTenants : tenant'[t] = tenant[t]
    BY <1>5, <1>7, <2>2 DEF Customers
  <2>4. \A v \in LiveUsers' : user'[v].rs => tenant'[user'[v].tenant].reseller # None
    <3>1. \A v \in LiveUsers : user[v].tenant \in LiveTenants
      BY <1>1 DEF RowsInv
    <3>. QED
      BY <1>1, <1>7, <2>3, <3>1 DEF BelongInv
  <2>5. ASSUME NEW q \in Calls PROVE Home(call[q])'
    <3>1. CASE q = r
      BY <3>1, CallEnds
    <3>2. CASE q # r
      <4>. PICK d : d = call[q]
        OBVIOUS
      <4>1. call'[q] = d /\ Home(d) /\ About(d) \cap About(c) \subseteq crowded
        BY <2>1, <3>2, CallEnds
      <4>2. CASE ~Open(q)
        BY <4>1, <4>2, NoCallIs DEF Open, Home, None
      <4>3. CASE Open(q)
        <5>1. Shaped(d) /\ Rows(d) /\ d \in CallRow
          BY <1>1, <4>3 DEF AccType, Shaped
        <5>2. d.op \in {"rsadmin", "promote", "dropreseller"} => d.reseller \in Resellers /\ d.reseller # x
          <6>1. d.op \in {"rsadmin", "promote", "dropreseller"} => d.reseller \in Resellers
            BY <5>1 DEF Shaped
          <6>. QED
            BY <1>2, <4>1, <6>1, AccountsAssumption DEF About
        <5>3. d.op = "promote" => tenant'[user'[d.id].tenant].reseller = d.reseller
          <6>1. d.op = "promote" => d.id \in Users /\ user[d.id].row # "new"
            BY <5>1, AccountsAssumption DEF Shaped, Rows
          <6>2. d.op = "promote" => user[d.id].tenant \in Tenancies
            BY <1>1, <6>1 DEF RowsInv
          <6>. QED
            BY <1>5, <4>1, <5>2, <6>2 DEF Home
        <5>4. d.op = "rsadmin" /\ ~d.fresh => tenant'[d.tenant].reseller = d.reseller
          <6>1. d.op = "rsadmin" /\ ~d.fresh => d.tenant \in Tenancies
            BY <5>1 DEF Shaped, CallRow
          <6>. QED
            BY <1>5, <4>1, <5>2, <6>1 DEF Home
        <5>5. d.op = "dropreseller" => Customers(d.reseller)' = {}
          BY <1>10, <4>1, <5>2 DEF Home
        <5>. QED
          BY <4>1, <5>3, <5>4, <5>5 DEF Home
      <4>. QED
        BY <4>2, <4>3
    <3>. QED
      BY <3>1, <3>2
  <2>. QED
    BY <2>4, <2>5
<1>. QED
  BY <1>8, <1>9, <1>11, <1>12, <1>13, LinksStay DEF AccInv

LEMMA RefusedKeeps ==
  ASSUME AccInv, NEW r \in Calls, NEW c, c = call[r], Refused(c),
         call' = [call EXCEPT ![r] = NoCall], session' = session, crowded' = crowded
  PROVE  AccInv'
<1>1. UNCHANGED <<user, tenant, reseller, link, used, outside>>
  BY DEF Refused
<1>2. AccType' /\ Apart'
  <2>1. Onward
    BY <1>1 DEF Onward
  <2>. QED
    BY <1>1, <2>1, TypeKept DEF AccInv, AccType
<1>3. RowsInv'
  BY <1>1 DEF AccInv, RowsInv, LiveUsers, LiveTenants, LiveResellers
<1>4. SeatInv'
  BY <1>1, SeatsKept DEF Counted, Customers, LiveTenants
<1>5. AdminInv'
  <2>1. \A t \in LiveTenants' \ (crowded' \cup outside') : \E u \in LiveUsers' : Governs(u, t)'
    BY <1>1 DEF AccInv, AdminInv, Governs, LiveUsers, LiveTenants
  <2>2. \A q \in Calls : call'[q].tenant \notin crowded' => Rights(call[q])'
    BY <1>1, RightsKept DEF LiveUsers
  <2>. QED
    BY <2>1, <2>2 DEF AdminInv
<1>6. BelongInv'
  <2>. SUFFICES ASSUME crowded \cap Resellers = {}
                PROVE  /\ \A v \in LiveUsers' : user'[v].rs => tenant'[user'[v].tenant].reseller # None
                       /\ \A q \in Calls : Home(call[q])'
    BY DEF BelongInv
  <2>1. \A v \in LiveUsers' : user'[v].rs => tenant'[user'[v].tenant].reseller # None
    BY <1>1 DEF AccInv, BelongInv, LiveUsers
  <2>2. \A q \in Calls \ {r} : Home(call[q])'
    <3>1. \A q \in Calls \ {r} : call'[q] = call[q] /\ Home(call[q])
      BY CallEnds DEF AccInv, BelongInv
    <3>. QED
      BY <1>1, <3>1 DEF Home, Customers, LiveTenants
  <2>. QED
    BY <2>1, <2>2, CallEnds
<1>. QED
  BY <1>1, <1>2, <1>3, <1>4, <1>5, <1>6, LinksStay DEF AccInv

LEMMA SaveKeeps ==
  ASSUME AccInv, NEW r \in Calls, Save(r)
  PROVE  AccInv'
<1>. PICK c : c = call[r]
  OBVIOUS
<1>1. /\ Open(r) /\ call' = [call EXCEPT ![r] = NoCall] /\ session' = session /\ crowded' = crowded
      /\ SaveInsert(c) \/ SaveUpdateUser(c) \/ SaveDelete(c) \/ Refused(c)
  BY DEF Save, Open
<1>2. CASE SaveInsert(c)
  BY <1>1, <1>2, SaveInsertKeeps
<1>3. CASE SaveUpdateUser(c)
  BY <1>1, <1>3, SaveUpdateUserKeeps
<1>4. CASE SaveDelete(c)
  <2>1. CASE c.op = "delete"
    <3>1. /\ user' = [user EXCEPT ![c.id].row = "gone"] /\ outside' = outside \cup Outside(c)
          /\ UNCHANGED <<tenant, reseller, link, used>>
      BY <1>4, <2>1 DEF SaveDelete
    <3>. QED
      BY <1>1, <2>1, <3>1, SaveDeleteUserKeeps
  <2>2. CASE c.op = "droptenant"
    <3>1. /\ tenant' = [tenant EXCEPT ![c.tenant].row = "gone"] /\ UsersGo(c.tenant)
          /\ UNCHANGED <<reseller, outside, link, used>>
      BY <1>4, <2>2 DEF SaveDelete, UsersGo
    <3>. QED
      BY <1>1, <2>2, <3>1, SaveDropTenantKeeps
  <2>3. CASE c.op = "dropreseller"
    <3>1. /\ reseller' = [reseller EXCEPT ![c.reseller].row = "gone"] /\ TenantsFreed(c.reseller)
          /\ UNCHANGED <<user, outside, link, used>>
      BY <1>4, <2>3 DEF SaveDelete, TenantsFreed
    <3>. QED
      BY <1>1, <2>3, <3>1, SaveDropResellerKeeps
  <2>. QED
    BY <1>4, <2>1, <2>2, <2>3 DEF SaveDelete
<1>5. CASE Refused(c)
  BY <1>1, <1>5, RefusedKeeps
<1>. QED
  BY <1>1, <1>2, <1>3, <1>4, <1>5

LEMMA RequestKeeps ==
  ASSUME AccInv, NEW ops, RequestStep(ops)
  PROVE  AccInv'
<1>1. ASSUME NEW r \in Calls, NEW b \in Browsers, NEW u \in Users, NEW op \in ops \cap {"role", "delete"},
             NEW flag \in BOOLEAN, ChangeUser(r, b, op, u, flag)
      PROVE  AccInv'
  BY <1>1, ChangeUserKeeps
<1>2. ASSUME NEW r \in Calls, NEW b \in Browsers, NEW t \in Tenancies, NEW e \in Emails,
             NEW flag \in BOOLEAN, CreateUser(r, b, t, e, flag)
      PROVE  AccInv'
  BY <1>2, CreateUserKeeps
<1>3. ASSUME NEW r \in Calls, NEW b \in Browsers, NEW x \in Resellers,
             \/ \E t \in Tenancies \cup {None}, e \in Emails : CreateResellerAdmin(r, b, x, t, e)
             \/ \E u \in Users : Promote(r, b, x, u)
             \/ DropReseller(r, b, x)
      PROVE  AccInv'
  BY <1>3, CreateResellerAdminKeeps, PromoteKeeps, DropResellerKeeps
<1>4. ASSUME NEW r \in Calls, NEW b \in Browsers,
             \/ ChangePassword(r, b)
             \/ \E x \in Resellers \cup {None}, e \in Emails : CreateTenant(r, b, x, e)
             \/ \E t \in Tenancies : DropTenant(r, b, t)
      PROVE  AccInv'
  BY <1>4, ChangePasswordKeeps, CreateTenantKeeps, DropTenantKeeps
<1>5. ASSUME NEW r \in Calls, NEW l \in Links, UseReset(r, l) \/ UseSignup(r, l)
      PROVE  AccInv'
  BY <1>5, UseResetKeeps, UseSignupKeeps
<1>. QED
  BY <1>1, <1>2, <1>3, <1>4, <1>5, SaveKeeps DEF RequestStep

LEMMA DirectKeeps ==
  ASSUME AccInv, NEW ops, DirectStep(ops)
  PROVE  AccInv'
<1>1. ASSUME NEW b \in Browsers, \/ (\E u \in Users : Login(b, u)) \/ Logout(b)
                                 \/ (\E t \in Tenancies : EnterTenant(b, t)) \/ ExitTenant(b)
      PROVE  AccInv'
  BY <1>1, CookiesKeep
<1>2. ASSUME NEW b \in Browsers, NEW x \in Resellers, NEW n \in 1..MaxSeats,
             SetLimit(b, x, n) \/ CreateReseller(b, x, n)
      PROVE  AccInv'
  BY <1>2, SetLimitKeeps, CreateResellerKeeps
<1>3. ASSUME NEW l \in Links,
             LinkLapses(l) \/ \E kind \in {"reset", "signup"}, e \in Emails : MakeLink(l, kind, e)
      PROVE  AccInv'
  BY <1>3, LinksKeep
<1>. QED
  BY <1>1, <1>2, <1>3, RestartAppKeeps DEF DirectStep

LEMMA AccStep == AccInv /\ [AccNext]_accVars => AccInv'
<1>. SUFFICES ASSUME AccInv, [AccNext]_accVars PROVE AccInv'
  OBVIOUS
<1>1. CASE AccNext
  BY <1>1, RequestKeeps, DirectKeeps DEF AccNext
<1>2. CASE UNCHANGED accVars
  <2>1. UNCHANGED <<user, tenant, reseller, link, session, call, used, crowded, outside>>
    BY <1>2 DEF accVars
  <2>2. LiveUsers' = LiveUsers /\ LiveTenants' = LiveTenants /\ LiveResellers' = LiveResellers
    BY <2>1 DEF LiveUsers, LiveTenants, LiveResellers
  <2>3. AccType' /\ Apart'
    BY <2>1 DEF AccInv, AccType, Apart, About, Open, Shaped, Rows
  <2>4. RowsInv'
    BY <2>1, <2>2 DEF AccInv, RowsInv
  <2>5. LinkInv'
    BY <2>1 DEF AccInv, LinkInv, Unspent
  <2>6. AdminInv'
    BY <2>1, <2>2 DEF AccInv, AdminInv, Rights, Governs
  <2>7. SeatInv'
    BY <2>1 DEF AccInv, SeatInv, Seat, Counted, Customers, LiveTenants
  <2>8. BelongInv'
    BY <2>1, <2>2 DEF AccInv, BelongInv, Home, Customers, LiveTenants
  <2>. QED
    BY <2>3, <2>4, <2>5, <2>6, <2>7, <2>8 DEF AccInv
<1>. QED
  BY <1>1, <1>2

LEMMA AccAlways == AccSpec => []AccInv
BY AccInitInv, AccStep, PTL DEF AccSpec

\* Accounts.Placed (the foreign keys and unique columns of models.py):
\* no account shares an address or outlives its tenant, and no tenant outlives
\* its reseller.
THEOREM AccountsPlaced == AccSpec => []Placed
<1>1. AccInv => Placed
  <2>. SUFFICES ASSUME AccInv PROVE Placed
    OBVIOUS
  <2>1. AccTypeOK
    BY DEF AccInv, AccType, AccTypeOK, RowsInv, UserRow, TenantRow, ResellerRow, LinkRow, LiveTenants
  <2>. QED
    BY <2>1 DEF AccInv, RowsInv, Placed
<1>. QED
  BY <1>1, AccAlways, PTL

\* Accounts.AdminRemains (routers/users.py:51-98): the users of a tenant
\* cannot leave it without an administrator by what they do to each other in
\* turn.
THEOREM TenantsKeepAnAdmin == AccSpec => []AdminRemains
<1>1. AccInv => AdminRemains
  BY DEF AccInv, AdminInv, AdminRemains, Governs
<1>. QED
  BY <1>1, AccAlways, PTL

\* Accounts.LinkOnce (routers/auth_extra.py:96-131, 197-256): a link is good
\* for one reset or sign-up, as long as it is not brought twice at a time.
THEOREM LinksAreSpentOnce == AccSpec => []LinkOnce
<1>1. AccInv => LinkOnce
  <2>. SUFFICES ASSUME AccInv, NEW l \in Links \ crowded PROVE used[l] <= 1
    BY DEF LinkOnce
  <2>1. used[l] = IF link[l].spent THEN 1 ELSE 0
    BY DEF AccInv, LinkInv
  <2>2. used[l] \in {0, 1}
    BY <2>1, Zenon
  <2>. QED
    BY <2>2
<1>. QED
  BY <1>1, AccAlways, PTL

\* Accounts.SeatsHeld (routers/reseller.py:58-101): a reseller makes no more
\* customers than it has seats.
THEOREM SeatsAreHeld == AccSpec => []SeatsHeld
<1>1. AccInv => SeatsHeld
  BY DEF AccInv, SeatInv, SeatsHeld, Counted, LiveResellers
<1>. QED
  BY <1>1, AccAlways, PTL

\* Accounts.AdminsBelong (routers/reseller.py:35-54): an
\* administrator of a reseller has one, unless it went while somebody was being
\* made its administrator.
THEOREM ResellerAdminsBelong == AccSpec => []AdminsBelong
<1>1. AccInv => AdminsBelong
  BY DEF AccInv, BelongInv, AdminsBelong
<1>. QED
  BY <1>1, AccAlways, PTL
=============================================================================
