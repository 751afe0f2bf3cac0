------------------------------ MODULE Notify -------------------------------
(***************************************************************************)
(* src/app/notify.py and the page /users/me/notifications: who of a tenant *)
(* gets the mail about an event, by the preferences each user may have     *)
(* saved and the quiet hours in UTC.                                       *)
(***************************************************************************)
EXTENDS Integers

CONSTANTS Users, Admins,
          Events,  \* event types looked at; "domain_added" is for admins only
          Entered, \* what is typed as an hour, hours out of range included
          Nothing

ASSUME NotifyAssumption == Admins \subseteq Users /\ Nothing \notin Int

VARIABLES pref,   \* row of notification_preferences of each user, or Nothing
          hour    \* hour of the day

notifyVars == <<pref, hour>>

NotifyInit == pref = [u \in Users |-> Nothing] /\ hour = 0

AdminOnly == {"domain_added"}

\* The defaults of a missing row, and those of the columns.
WantedByDefault == [e \in Events |-> e # "domain_added"]
\* Mutant of ColumnDefaults: every column is true.
ColumnDefaultsTrue == [events |-> [e \in Events |-> TRUE], start |-> Nothing, end |-> Nothing]

ColumnDefaults == [events |-> [e \in Events |-> e # "domain_added"], start |-> Nothing, end |-> Nothing]

\* get_preference: looking at the page writes the row.
OpenPage(u) ==
  /\ pref' = [pref EXCEPT ![u] = IF @ = Nothing THEN ColumnDefaults ELSE @]
  /\ UNCHANGED hour

HourOrNone(h) == IF h \in 0..23 THEN h ELSE Nothing

SavePrefs(u) ==
  /\ \E ev \in [Events -> BOOLEAN], s, e \in Entered :
       pref' = [pref EXCEPT ![u] = [events |-> ev, start |-> HourOrNone(s), end |-> HourOrNone(e)]]
  /\ UNCHANGED hour

HourPasses == hour' = (hour + 1) % 24 /\ UNCHANGED pref

NotifyNext == (\E u \in Users : OpenPage(u) \/ SavePrefs(u)) \/ HourPasses

NotifySpec == NotifyInit /\ [][NotifyNext]_notifyVars

Wants(u, event) == IF pref[u] = Nothing THEN WantedByDefault[event] ELSE pref[u].events[event]

\* Mutant of IsQuietHour: a window over midnight is taken as an ordinary one.
IsQuietHourFlat(u) ==
  /\ pref[u] # Nothing /\ pref[u].start # Nothing /\ pref[u].end # Nothing
  /\ pref[u].start <= hour /\ hour < pref[u].end

\* _is_quiet_hour
IsQuietHour(u) ==
  /\ pref[u] # Nothing /\ pref[u].start # Nothing /\ pref[u].end # Nothing
  /\ IF pref[u].start <= pref[u].end THEN pref[u].start <= hour /\ hour < pref[u].end
     ELSE hour >= pref[u].start \/ hour < pref[u].end

\* recipients_for; notify_tenant mails each, an error of one does not stop it.
RecipientsFor(event) ==
  {u \in Users : (event \in AdminOnly => u \in Admins) /\ Wants(u, event) /\ ~IsQuietHour(u)}
----------------------------------------------------------------------------
\* The hours that pass from the start of the window to its end, around the
\* clock.
Asleep(u) ==
  /\ pref[u] # Nothing /\ pref[u].start # Nothing /\ pref[u].end # Nothing
  /\ (hour - pref[u].start) % 24 < (pref[u].end - pref[u].start) % 24

\* Quiet hours are kept, over midnight too, and only they keep a mail back: an
\* alert reaches every user awake who did not turn it off.
QuietIsQuiet ==
  \A u \in Users :
    /\ Asleep(u) => \A e \in Events : u \notin RecipientsFor(e)
    /\ ~Asleep(u) /\ pref[u] # Nothing /\ pref[u].events["blacklist_alerts"] =>
         u \in RecipientsFor("blacklist_alerts")

\* The defaults are written down twice, for a user without a row and in the
\* columns of the row that the page creates: a user who only looks at the page
\* gets the same mails as before.
LookingChangesNothing ==
  [][\A u \in Users : pref[u] = Nothing /\ OpenPage(u) =>
       \A e \in Events : RecipientsFor(e) = RecipientsFor(e)']_notifyVars

\* Whom a mail reaches depends on what users chose, not on where they looked.
ChoicesAreKept == []QuietIsQuiet /\ LookingChangesNothing
============================================================================
