----------------------------- MODULE Newsletter -----------------------------
(***************************************************************************)
(* src/app/routers/newsletter.py: double opt-in.  Subscribing (async, one  *)
(* at a time after its form) reads the row of the address and writes a     *)
(* token; the links to confirm and to unsubscribe are served in threads.   *)
(***************************************************************************)
EXTENDS Naturals, FiniteSets

CONSTANTS Clicks,     \* requests for a link under way at a time
          MaxTokens   \* bound: confirmation tokens ever issued

ASSUME NewsletterAssumption == MaxTokens \in Nat

VARIABLES
  sub,      \* the row of the address: token 0 is NULL
  asking,   \* the subscription request: what it has read
  click,    \* requests for a link: what they have read
  issued,   \* tokens written so far: token n is the n-th
  mailed,   \* the token of the last mail to the address
  answer,   \* what the last visitor who wanted to subscribe was told
  clicked   \* history: the owner of the address has followed a link to confirm

newsVars == <<sub, asking, click, issued, mailed, answer, clicked>>

NoSub == [row |-> FALSE, token |-> 0, confirmed |-> FALSE, left |-> FALSE]
NoClick == [kind |-> "none", old |-> NoSub]

NewsInit ==
  /\ sub = NoSub /\ asking = NoClick /\ clicked = FALSE
  /\ issued = 0 /\ mailed = 0 /\ answer = "none"
  /\ click = [c \in Clicks |-> NoClick]

\* The commit writes the columns that differ from what was read.
Store(old, new) == [c \in DOMAIN new |-> IF new[c] # old[c] THEN new[c] ELSE sub[c]]

\* POST /newsletter/subscribe: the row is read; whoever has confirmed is told
\* so, even after leaving.
Subscribe ==
  /\ asking.kind = "none"
  /\ IF sub.confirmed THEN answer' = "already" /\ UNCHANGED asking
     ELSE asking' = [kind |-> "ask", old |-> sub] /\ UNCHANGED answer
  /\ UNCHANGED <<sub, click, issued, mailed, clicked>>

\* Mutant of NextToken: an existing row keeps its token.
NextTokenOld(old) == IF old.row THEN old.token ELSE issued + 1

\* Every subscription writes a token of its own.
NextToken(old) == issued + 1

\* The new token is committed, then mailed; a mail that fails is logged only.
SaveAndMail ==
  /\ asking.kind = "ask" /\ issued < MaxTokens
  /\ sub' = Store(asking.old, [asking.old EXCEPT !.row = TRUE, !.token = NextToken(asking.old)])
  /\ issued' = issued + 1
  /\ mailed' \in {mailed, issued + 1}
  /\ asking' = NoClick /\ answer' = "check_email"
  /\ UNCHANGED <<click, clicked>>

\* GET /newsletter/confirm and /unsubscribe: the row is found by the token of
\* the link, and only the link of the last mail can still be found.
OpenConfirm(c) ==
  /\ click[c].kind = "none" /\ mailed > 0
  /\ sub.token = mailed /\ ~sub.confirmed
  /\ click' = [click EXCEPT ![c] = [kind |-> "confirm", old |-> sub]]
  /\ clicked' = TRUE
  /\ UNCHANGED <<sub, asking, issued, mailed, answer>>

\* The link to unsubscribe serves a row that is not confirmed as well.
OpenUnsubscribe(c) ==
  /\ click[c].kind = "none" /\ sub.row
  /\ click' = [click EXCEPT ![c] = [kind |-> "leave", old |-> sub]]
  /\ UNCHANGED <<sub, asking, issued, mailed, answer, clicked>>

\* Mutant of Followed: the token stays.
FollowedKeeps(c) == IF click[c].kind = "confirm" THEN [click[c].old EXCEPT !.confirmed = TRUE]
                    ELSE [click[c].old EXCEPT !.left = TRUE, !.confirmed = FALSE]

Followed(c) == IF click[c].kind = "confirm"
               THEN [click[c].old EXCEPT !.confirmed = TRUE, !.token = 0]
               ELSE [click[c].old EXCEPT !.left = TRUE]

SaveClick(c) ==
  /\ click[c].kind # "none"
  /\ sub' = Store(click[c].old, Followed(c))
  /\ click' = [click EXCEPT ![c] = NoClick]
  /\ UNCHANGED <<asking, issued, mailed, answer, clicked>>

NewsNext ==
  \/ Subscribe \/ SaveAndMail
  \/ \E c \in Clicks : \/ OpenConfirm(c) \/ OpenUnsubscribe(c) \/ SaveClick(c)

NewsSpec == NewsInit /\ [][NewsNext]_newsVars
----------------------------------------------------------------------------
\* An address is confirmed only by a link mailed to it, and the link in the
\* last mail works until it has been used, unless a later mail failed: no
\* confirmation that is still running makes it useless.
LastLinkWorks ==
  /\ sub.confirmed => clicked
  /\ sub.row /\ mailed = issued => sub.confirmed \/ sub.token = mailed

\* Confirmed stays confirmed, and who has left stays on record as having left,
\* whatever requests overlap.
NewsForward ==
  [][(sub.confirmed => sub'.confirmed) /\ (sub.left => sub'.left)]_newsVars

\* routers/newsletter.py:71 tells a visitor that the address is subscribed:
\* then it has not left.
AlreadyIsTrue == [][answer' = "already" /\ answer # "already" => ~sub.left]_newsVars

\* Neither a link on its way nor a decision once made is lost.
NewsKept == []LastLinkWorks /\ NewsForward
============================================================================
