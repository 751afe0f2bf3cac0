------------------------------ MODULE ApiKeys ------------------------------
(***************************************************************************)
(* src/app/routers/api_keys.py and _resolve_tenant of src/app/routers/     *)
(* api.py: keys are created, revoked and deleted in threads while uploads  *)
(* that carry them read the row and write last_used_at.                    *)
(***************************************************************************)
EXTENDS FiniteSets

CONSTANTS ApiKeys, Uses, Edits   \* rows of api_keys, uploads, requests of administrators

VARIABLES
  apiKey,   \* the rows
  use,      \* uploads: what has been read, then the answer
  edit,     \* requests to revoke or delete a key
  lateUse   \* history: uploads that read a key after it was revoked or deleted

keyVars == <<apiKey, use, edit, lateUse>>

NoKey == [row |-> "new", revoked |-> FALSE, used |-> FALSE]
NoEdit == [op |-> "none", key |-> "none", old |-> NoKey]
NoUse == [phase |-> "idle", key |-> "none", old |-> NoKey]

KeyInit ==
  /\ apiKey = [k \in ApiKeys |-> NoKey]
  /\ use = [u \in Uses |-> NoUse]
  /\ edit = [e \in Edits |-> NoEdit]
  /\ lateUse = {}

CreateKey(k) ==
  /\ apiKey[k].row = "new"
  /\ apiKey' = [apiKey EXCEPT ![k].row = "live"]
  /\ UNCHANGED <<use, edit, lateUse>>

\* The key with the prefix that is not revoked, and its secret fits.
Usable(k) == apiKey[k].row = "live" /\ ~apiKey[k].revoked

OpenUse(u, k) ==
  /\ use[u].phase = "idle" /\ apiKey[k].row # "new"
  /\ use' = [use EXCEPT ![u] = [phase |-> IF Usable(k) THEN "read" ELSE "denied",
                                key |-> k, old |-> apiKey[k]]]
  /\ lateUse' = lateUse \cup {x \in {u} : apiKey[k].row = "gone" \/ apiKey[k].revoked}
  /\ UNCHANGED <<apiKey, edit>>

\* Mutant of Touched: the whole row is written back.
TouchedRow(u) == [use[u].old EXCEPT !.used = TRUE]

\* last_used_at is the only column that differs.
Touched(u) == [apiKey[use[u].key] EXCEPT !.used = TRUE]

\* The commit raises when the row is gone.
SaveUse(u) ==
  /\ use[u].phase = "read"
  /\ LET k == use[u].key IN
     IF apiKey[k].row = "gone"
     THEN use' = [use EXCEPT ![u].phase = "failed"] /\ UNCHANGED apiKey
     ELSE use' = [use EXCEPT ![u].phase = "accepted"] /\ apiKey' = [apiKey EXCEPT ![k] = Touched(u)]
  /\ UNCHANGED <<edit, lateUse>>

\* revoke_key does nothing for a key that has been revoked.
OpenEdit(e, op, k) ==
  /\ edit[e] = NoEdit /\ apiKey[k].row = "live"
  /\ op = "revoke" => ~apiKey[k].revoked
  /\ edit' = [edit EXCEPT ![e] = [op |-> op, key |-> k, old |-> apiKey[k]]]
  /\ UNCHANGED <<apiKey, use, lateUse>>

SaveEdit(e) ==
  /\ edit[e] # NoEdit
  /\ LET k == edit[e].key IN
     apiKey' = IF edit[e].op = "delete" THEN [apiKey EXCEPT ![k].row = "gone"]
               ELSE IF apiKey[k].row = "gone" THEN apiKey
               ELSE [apiKey EXCEPT ![k].revoked = TRUE]
  /\ edit' = [edit EXCEPT ![e] = NoEdit]
  /\ UNCHANGED <<use, lateUse>>

KeyNext ==
  \/ \E k \in ApiKeys : CreateKey(k)
  \/ \E u \in Uses : SaveUse(u) \/ \E k \in ApiKeys : OpenUse(u, k)
  \/ \E e \in Edits : SaveEdit(e) \/ \E k \in ApiKeys, op \in {"revoke", "delete"} : OpenEdit(e, op, k)

KeySpec == KeyInit /\ [][KeyNext]_keyVars
----------------------------------------------------------------------------
\* A key that has been revoked or deleted opens nothing any more, and an
\* upload that is under way does not give it back.
RevokedForGood ==
  [][\A k \in ApiKeys :
       /\ apiKey[k].revoked \/ apiKey[k].row = "gone" =>
            apiKey'[k].revoked = apiKey[k].revoked /\ apiKey'[k].row \in {apiKey[k].row, "gone"}
       /\ \A u \in lateUse : use'[u].phase # "accepted"]_keyVars
============================================================================
