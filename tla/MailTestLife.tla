---------------------------- MODULE MailTestLife ----------------------------
(***************************************************************************)
(* What the mail tester promises to a visitor: a test address is given out *)
(* once, its result is settled once, by the first mail to it that can be   *)
(* scored, and stays what it is until the address lapses for good.         *)
(*                                                                         *)
(* The table is the one of src/app/models.py: MailTest.                    *)
(***************************************************************************)
EXTENDS Naturals

CONSTANTS Tokens,
          Mails   \* the mails of the inbox by UID

VARIABLE life     \* of every token: the row and the mail its result is of

\* No mail has come yet; some addresses may have been given out.
LifeInit == life \in [Tokens -> [row : {"free", "waiting"}, mail : {0}]]

\* The first mail to the token that can be scored.
IsFirst(t, m) ==
  /\ m \in DOMAIN Mails /\ Mails[m].token = t /\ Mails[m].outcome = "scored"
  /\ \A n \in DOMAIN Mails : n < m /\ Mails[n].token = t => Mails[n].outcome # "scored"

GiveOut(t) ==
  /\ life[t].row = "free"
  /\ life' = [life EXCEPT ![t].row = "waiting"]

Settle(t) ==
  /\ life[t].row = "waiting"
  /\ \E m \in DOMAIN Mails :
       IsFirst(t, m) /\ life' = [life EXCEPT ![t] = [row |-> "received", mail |-> m]]

\* Rows are deleted; what a deleted row showed is not shown again.
Lapse(T) ==
  /\ \A t \in T : life[t].row \in {"waiting", "received"}
  /\ life' = [t \in Tokens |-> IF t \in T THEN [life[t] EXCEPT !.row = "gone"] ELSE life[t]]

LifeNext == \/ \E t \in Tokens : GiveOut(t) \/ Settle(t)
            \/ \E T \in SUBSET Tokens : Lapse(T)

LifeSpec == LifeInit /\ [][LifeNext]_life
=============================================================================
