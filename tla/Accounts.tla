------------------------------ MODULE Accounts ------------------------------
(***************************************************************************)
(* Users, tenants and resellers, the links mailed for a password reset or  *)
(* a sign-up, and browser sessions: src/app/routers/users.py, reseller.py, *)
(* admin.py, auth.py and auth_extra.py with src/app/dependencies.py.       *)
(*                                                                         *)
(* Handlers run in threads.  A request checks the caller's rights and what *)
(* it is about to change, hashes a password, and commits; in between other *)
(* requests commit.  An INSERT fails on a taken address or a parent row    *)
(* that is gone, an UPDATE on a row that is gone; a failure rolls the      *)
(* request back.                                                           *)
(***************************************************************************)
EXTENDS Naturals, FiniteSets

CONSTANTS Users,       \* ids a row of users can get, each once
          Emails, Tenancies, Resellers,
          Platform,    \* the reseller with is_platform
          Links,       \* rows of auth_tokens
          Browsers, Calls,
          MaxSeats     \* bound: values of seat_limit

None == "none"

ASSUME AccountsAssumption ==
  /\ Platform \in Resellers /\ MaxSeats \in Nat \ {0}
  /\ IsFiniteSet(Tenancies) /\ IsFiniteSet(Calls)
  /\ None \notin Users \cup Tenancies \cup Resellers \cup Links

VARIABLES
  user, tenant, reseller,  \* the tables
  link,     \* auth_tokens
  session,  \* cookies: who is logged in, and the tenant acted for
  call,     \* requests that have read and not committed
  used,     \* history: commits made on the strength of a link
  crowded,  \* history: what two open requests were about at a time
  outside   \* history: tenants whose users somebody else than their admins has changed

accVars == <<user, tenant, reseller, link, session, call, used, crowded, outside>>

NoUser == [row |-> "new", email |-> None, tenant |-> None, admin |-> FALSE,
           super |-> FALSE, rs |-> FALSE, pw |-> "first"]
NoCall == [op |-> None, by |-> None, id |-> None, email |-> None, tenant |-> None,
           reseller |-> None, link |-> None, flag |-> FALSE, fresh |-> FALSE, was |-> FALSE, own |-> FALSE]

LiveUsers == {u \in Users : user[u].row = "live"}
LiveTenants == {t \in Tenancies : tenant[t].row = "live"}
LiveResellers == {x \in Resellers : reseller[x].row = "live"}
Customers(x) == {t \in LiveTenants : tenant[t].reseller = x}
Taken(e) == \E u \in LiveUsers : user[u].email = e

\* The tables as create_all leaves them, and the reseller that the first start
\* of _bootstrap_superadmin adds to them, with a limit nobody reaches.
AccInit ==
  /\ user = [u \in Users |-> NoUser]
  /\ tenant = [t \in Tenancies |-> [row |-> "new", reseller |-> None, extra |-> FALSE]]
  /\ reseller = [x \in Resellers |-> [row |-> IF x = Platform THEN "live" ELSE "new",
                                      seats |-> IF x = Platform THEN MaxSeats ELSE 0, lowered |-> FALSE]]
  /\ link = [l \in Links |-> [kind |-> None, email |-> None, spent |-> FALSE, late |-> FALSE]]
  /\ session = [b \in Browsers |-> [user |-> None, acting |-> None]]
  /\ call = [r \in Calls |-> NoCall] /\ used = [l \in Links |-> 0]
  /\ crowded = {} /\ outside = {}

\* An administrator of a tenant, of its own.
Governs(u, t) == user[u].tenant = t /\ (user[u].admin \/ user[u].super)

\* get_current_user: the row is read in every request.
LoggedIn(b) == session[b].user # None /\ session[b].user \in LiveUsers
Me(b) == session[b].user

\* effective_tenant_id: acting for another tenant is for superadmins.
Effective(b) == IF session[b].acting # None /\ user[Me(b)].super THEN session[b].acting
                ELSE user[Me(b)].tenant

\* _user_reseller.
Managed(u) == IF user[u].super /\ ~user[u].rs THEN Platform ELSE tenant[user[u].tenant].reseller

RequireAdmin(b) == LoggedIn(b) /\ (user[Me(b)].admin \/ user[Me(b)].super)
RequireSuper(b) == LoggedIn(b) /\ user[Me(b)].super
RequireReseller(b) == LoggedIn(b) /\ (user[Me(b)].rs \/ user[Me(b)].super)

\* The tenants whose users the caller may manage, through /users or /reseller.
Reach(b) == {t \in LiveTenants : \/ RequireAdmin(b) /\ t = Effective(b)
                                 \/ /\ RequireReseller(b) /\ tenant[t].reseller # None
                                    /\ tenant[t].reseller = Managed(Me(b))}

\* The customer tenants the caller may enter or delete.
Entrable(b) == {t \in LiveTenants : \/ RequireSuper(b)
                                    \/ /\ RequireReseller(b) /\ Managed(Me(b)) # None
                                       /\ tenant[t].reseller = Managed(Me(b))}

\* What a request is about; two about the same thing crowd it.
About(c) == {c.id, c.tenant, c.reseller, c.link} \ {None}
Start(r, c) ==
  /\ call[r] = NoCall
  /\ call' = [call EXCEPT ![r] = c]
  /\ crowded' = crowded \cup (About(c) \cap UNION {About(call[q]) : q \in Calls})
  /\ UNCHANGED <<user, tenant, reseller, link, session, used, outside>>

\* What a request does at once, without a second step.
AtOnce == UNCHANGED <<call, used, crowded, outside>>
----------------------------------------------------------------------------
Login(b, u) ==
  /\ u \in LiveUsers
  /\ session' = [session EXCEPT ![b] = [user |-> u, acting |-> None]]
  /\ AtOnce /\ UNCHANGED <<user, tenant, reseller, link>>

Logout(b) ==
  /\ session[b].user # None
  /\ session' = [session EXCEPT ![b] = [user |-> None, acting |-> None]]
  /\ AtOnce /\ UNCHANGED <<user, tenant, reseller, link>>

EnterTenant(b, t) ==
  /\ t \in Entrable(b)
  /\ session' = [session EXCEPT ![b].acting = t]
  /\ AtOnce /\ UNCHANGED <<user, tenant, reseller, link>>

ExitTenant(b) ==
  /\ RequireSuper(b)
  /\ session' = [session EXCEPT ![b].acting = None]
  /\ AtOnce /\ UNCHANGED <<user, tenant, reseller, link>>

\* forgot_submit and signup_submit: the link is stored, then mailed.
MakeLink(l, kind, e) ==
  /\ link[l].kind = None /\ Taken(e) = (kind = "reset")
  /\ link' = [link EXCEPT ![l] = [kind |-> kind, email |-> e, spent |-> FALSE, late |-> FALSE]]
  /\ AtOnce /\ UNCHANGED <<user, tenant, reseller, session>>

LinkLapses(l) ==
  /\ link[l].kind # None /\ ~link[l].late
  /\ link' = [link EXCEPT ![l].late = TRUE]
  /\ AtOnce /\ UNCHANGED <<user, tenant, reseller, session>>

\* save_reseller: seat_limit may fall below what is in use or under way.
SetLimit(b, x, n) ==
  /\ RequireSuper(b) /\ x \in LiveResellers /\ n \in 1..MaxSeats
  /\ reseller' = [reseller EXCEPT ![x] = [row |-> "live", seats |-> n, lowered |-> reseller[x].lowered \/
       Cardinality(Customers(x)) + Cardinality({r \in Calls : call[r].reseller = x}) > n]]
  /\ AtOnce /\ UNCHANGED <<user, tenant, link, session>>

\* create_reseller.
CreateReseller(b, x, n) ==
  /\ RequireSuper(b) /\ reseller[x].row = "new" /\ n \in 1..MaxSeats
  /\ reseller' = [reseller EXCEPT ![x] = [row |-> "live", seats |-> n, lowered |-> FALSE]]
  /\ AtOnce /\ UNCHANGED <<user, tenant, link, session>>
----------------------------------------------------------------------------
\* Mutant of MayChange: a user's own row is not excepted.
MayChangeSelf(b, u) ==
  /\ u \in LiveUsers /\ user[u].tenant \in Reach(b)
  /\ user[u].super => user[Me(b)].super

\* set_user_role, delete_user and their twins for resellers.
MayChange(b, u) ==
  /\ u \in LiveUsers /\ user[u].tenant \in Reach(b) /\ u # Me(b)
  /\ user[u].super => user[Me(b)].super

ChangeUser(r, b, op, u, flag) ==
  /\ MayChange(b, u)
  /\ Start(r, [NoCall EXCEPT !.op = op, !.by = Me(b), !.id = u, !.flag = flag,
                             !.tenant = user[u].tenant, !.was = user[u].admin,
                             !.own = Governs(Me(b), user[u].tenant)])

\* create_user and create_reseller_user.
CreateUser(r, b, t, e, flag) ==
  /\ t \in Reach(b) /\ ~Taken(e)
  /\ Start(r, [NoCall EXCEPT !.op = "user", !.by = Me(b), !.tenant = t, !.email = e, !.flag = flag])

ChangePassword(r, b) ==
  /\ LoggedIn(b)
  /\ Start(r, [NoCall EXCEPT !.op = "password", !.by = Me(b), !.id = Me(b), !.was = user[Me(b)].admin])

\* Mutant of HasSeat: one tenant too many.
HasSeatTooMany(x) == Cardinality(Customers(x)) <= reseller[x].seats

HasSeat(x) == Cardinality(Customers(x)) < reseller[x].seats

\* create_customer_tenant, and create_tenant of the superadmin, which belongs
\* to no reseller and looks at no limit.
CreateTenant(r, b, x, e) ==
  /\ \/ RequireReseller(b) /\ x # None /\ x = Managed(Me(b)) /\ HasSeat(x)
     \/ RequireSuper(b) /\ x = None
  /\ ~Taken(e)
  /\ Start(r, [NoCall EXCEPT !.op = "tenant", !.by = Me(b), !.reseller = x, !.email = e,
                             !.fresh = TRUE, !.flag = TRUE])

\* create_reseller_admin: in a tenant of the reseller or in one made for it,
\* which no limit counts.
CreateResellerAdmin(r, b, x, t, e) ==
  /\ RequireSuper(b) /\ x \in LiveResellers /\ ~Taken(e)
  /\ t = None \/ t \in Customers(x)
  /\ Start(r, [NoCall EXCEPT !.op = "rsadmin", !.by = Me(b), !.reseller = x, !.tenant = t,
                             !.email = e, !.fresh = (t = None), !.flag = TRUE])

Promote(r, b, x, u) ==
  /\ RequireSuper(b) /\ x \in LiveResellers /\ u \in LiveUsers
  /\ user[u].tenant \in Customers(x)
  /\ Start(r, [NoCall EXCEPT !.op = "promote", !.by = Me(b), !.reseller = x, !.id = u,
                             !.was = user[u].admin])

DropTenant(r, b, t) ==
  /\ t \in Entrable(b) /\ t # user[Me(b)].tenant
  /\ Start(r, [NoCall EXCEPT !.op = "droptenant", !.by = Me(b), !.tenant = t])

\* Mutant of MayDrop: the customers are not counted.
MayDropAny(x) == x # Platform

MayDrop(x) == x # Platform /\ Customers(x) = {}

DropReseller(r, b, x) ==
  /\ RequireSuper(b) /\ x \in LiveResellers /\ MayDrop(x)
  /\ Start(r, [NoCall EXCEPT !.op = "dropreseller", !.by = Me(b), !.reseller = x])

\* Mutant of LinkOpen: used_at is not looked at.
LinkOpenAgain(l) == ~link[l].late

LinkOpen(l) == ~link[l].spent /\ ~link[l].late

\* reset_submit: the candidates not used, then the user of the address.
UseReset(r, l) ==
  /\ link[l].kind = "reset" /\ LinkOpen(l)
  /\ \E u \in LiveUsers :
       /\ user[u].email = link[l].email
       /\ Start(r, [NoCall EXCEPT !.op = "reset", !.link = l, !.id = u, !.was = user[u].admin])

\* signup_confirm_submit.
UseSignup(r, l) ==
  /\ link[l].kind = "signup" /\ LinkOpen(l) /\ ~Taken(link[l].email)
  /\ Start(r, [NoCall EXCEPT !.op = "confirm", !.link = l, !.email = link[l].email,
                             !.fresh = TRUE, !.flag = TRUE])
----------------------------------------------------------------------------
\* Mutant of Inserted: the tenant's id is read before the tenant has one.
InsertedEarly(c, u, t) == [NoUser EXCEPT !.row = "live", !.email = c.email, !.tenant = c.tenant,
                                         !.admin = c.flag, !.rs = (c.op = "rsadmin")]

\* The row of a new user.
Inserted(c, u, t) == [NoUser EXCEPT !.row = "live", !.email = c.email, !.tenant = t,
                                    !.admin = c.flag, !.rs = (c.op = "rsadmin")]

\* Mutant of InsertOk: nothing keeps addresses unique.
InsertOkAny(c) == (c.tenant = None \/ c.tenant \in LiveTenants)

\* Unique address, tenant and reseller still there.
InsertOk(c) ==
  /\ ~Taken(c.email)
  /\ c.tenant = None \/ c.tenant \in LiveTenants
  /\ c.reseller = None \/ ~c.fresh \/ c.reseller \in LiveResellers

Spend(c) == IF c.link = None THEN UNCHANGED <<link, used>>
            ELSE /\ link' = [link EXCEPT ![c.link].spent = TRUE]
                 /\ used' = [used EXCEPT ![c.link] = @ + 1]

NewId == CHOOSE u \in Users : user[u].row = "new"
NewTenancy == CHOOSE t \in Tenancies : tenant[t].row = "new"

\* A user, with a tenant of its own if the request makes one; bounded by the
\* ids there are.
SaveInsert(c) ==
  /\ c.op \in {"user", "tenant", "rsadmin", "confirm"} /\ InsertOk(c)
  /\ \E u \in Users : user[u].row = "new"
  /\ c.fresh => \E t \in Tenancies : tenant[t].row = "new"
  /\ user' = [user EXCEPT ![NewId] = Inserted(c, NewId, IF c.fresh THEN NewTenancy ELSE c.tenant)]
  /\ tenant' = IF ~c.fresh THEN tenant
               ELSE [tenant EXCEPT ![NewTenancy] = [row |-> "live", reseller |-> c.reseller,
                                      extra |-> (c.op # "tenant" \/ c.reseller = None)]]
  /\ Spend(c) /\ UNCHANGED <<reseller, outside>>

Outside(c) == {t \in {c.tenant} : ~c.own}

\* An UPDATE of a column whose value differs from what was read.
SaveUpdateUser(c) ==
  /\ c.op \in {"role", "promote", "password", "reset"} /\ user[c.id].row = "live"
  /\ \/ /\ c.op = "role" /\ user' = [user EXCEPT ![c.id].admin =
             IF c.flag # c.was THEN c.flag ELSE @]
        /\ outside' = outside \cup Outside(c)
     \/ c.op = "promote" /\ user' = [user EXCEPT ![c.id].rs = TRUE] /\ UNCHANGED outside
     \/ c.op = "password" /\ user' = [user EXCEPT ![c.id].pw = "own"] /\ UNCHANGED outside
     \/ c.op = "reset" /\ user' = [user EXCEPT ![c.id].pw = "reset"] /\ UNCHANGED outside
  /\ Spend(c) /\ UNCHANGED <<tenant, reseller>>

\* ON DELETE CASCADE: also users added after the tenant was loaded.
Cascade(t) == {u \in LiveUsers : user[u].tenant = t}

SaveDelete(c) ==
  /\ \/ /\ c.op = "delete"
        /\ user' = [user EXCEPT ![c.id].row = "gone"]
        /\ outside' = outside \cup Outside(c) /\ UNCHANGED <<tenant, reseller>>
     \/ /\ c.op = "droptenant"
        /\ tenant' = [tenant EXCEPT ![c.tenant].row = "gone"]
        /\ user' = [u \in Users |-> IF u \in Cascade(c.tenant) THEN [user[u] EXCEPT !.row = "gone"]
                                                               ELSE user[u]]
        /\ UNCHANGED <<reseller, outside>>
     \/ /\ c.op = "dropreseller"
        /\ reseller' = [reseller EXCEPT ![c.reseller].row = "gone"]
        /\ tenant' = [t \in Tenancies |-> IF tenant[t].reseller = c.reseller
                                          THEN [tenant[t] EXCEPT !.reseller = None] ELSE tenant[t]]
        /\ UNCHANGED <<user, outside>>
  /\ UNCHANGED <<link, used>>

\* A commit that raises; the caller sees an error page.
Refused(c) ==
  /\ \/ c.op \in {"user", "tenant", "rsadmin", "confirm"} /\ ~InsertOk(c)
     \/ c.op \in {"role", "promote", "password", "reset"} /\ user[c.id].row # "live"
  /\ UNCHANGED <<user, tenant, reseller, link, used, outside>>

Save(r) ==
  /\ call[r] # NoCall
  /\ LET c == call[r] IN SaveInsert(c) \/ SaveUpdateUser(c) \/ SaveDelete(c) \/ Refused(c)
  /\ call' = [call EXCEPT ![r] = NoCall]
  /\ UNCHANGED <<session, crowded>>

\* _bootstrap_superadmin gives tenants without a reseller to the platform, and
\* if there is no user (at the first start, or later) makes one and a tenant.
Housed(t) == IF t \in LiveTenants /\ tenant[t].reseller = None
             THEN [tenant[t] EXCEPT !.reseller = Platform] ELSE tenant[t]

FirstUser ==
  /\ LiveUsers = {}
  /\ (\E u \in Users : user[u].row = "new") /\ (\E t \in Tenancies : tenant[t].row = "new")
  /\ \E e \in Emails :
       user' = [user EXCEPT ![NewId] = [NoUser EXCEPT !.row = "live", !.email = e, !.tenant = NewTenancy,
                                                      !.admin = TRUE, !.super = TRUE]]
  /\ tenant' = [t \in Tenancies |-> IF t = NewTenancy THEN [row |-> "live", reseller |-> None, extra |-> TRUE]
                                    ELSE Housed(t)]

\* A restart ends the requests.
RestartApp ==
  /\ call' = [r \in Calls |-> NoCall]
  /\ FirstUser \/ (LiveUsers # {} /\ tenant' = [t \in Tenancies |-> Housed(t)] /\ UNCHANGED user)
  /\ UNCHANGED <<reseller, link, session, used, crowded, outside>>

\* Requests of some kinds.
RequestStep(ops) ==
  \/ \E r \in Calls, b \in Browsers :
       \/ \E u \in Users, op \in ops \cap {"role", "delete"}, flag \in BOOLEAN :
            (op = "delete" => ~flag) /\ ChangeUser(r, b, op, u, flag)
       \/ "user" \in ops /\ \E t \in Tenancies, e \in Emails, flag \in BOOLEAN :
            CreateUser(r, b, t, e, flag)
       \/ "password" \in ops /\ ChangePassword(r, b)
       \/ "tenant" \in ops /\ \E x \in Resellers \cup {None}, e \in Emails : CreateTenant(r, b, x, e)
       \/ \E x \in Resellers :
            \/ "rsadmin" \in ops /\ \E t \in Tenancies \cup {None}, e \in Emails :
                 CreateResellerAdmin(r, b, x, t, e)
            \/ "promote" \in ops /\ \E u \in Users : Promote(r, b, x, u)
            \/ "dropreseller" \in ops /\ DropReseller(r, b, x)
       \/ "droptenant" \in ops /\ \E t \in Tenancies : DropTenant(r, b, t)
  \/ \E r \in Calls, l \in Links : UseReset(r, l) \/ UseSignup(r, l)
  \/ \E r \in Calls : Save(r)

\* What is done at once.
DirectStep(ops) ==
  \/ \E b \in Browsers :
       \/ "login" \in ops /\ ((\E u \in Users : Login(b, u)) \/ Logout(b))
       \/ "enter" \in ops /\ ((\E t \in Tenancies : EnterTenant(b, t)) \/ ExitTenant(b))
       \/ "limit" \in ops /\ \E x \in Resellers, n \in 1..MaxSeats :
            SetLimit(b, x, n) \/ CreateReseller(b, x, n)
  \/ "link" \in ops /\ \E l \in Links :
       LinkLapses(l) \/ \E kind \in {"reset", "signup"}, e \in Emails : MakeLink(l, kind, e)
  \/ "restart" \in ops /\ RestartApp

AccNext ==
  \/ RequestStep({"role", "delete", "user", "password", "tenant", "rsadmin", "promote",
                  "dropreseller", "droptenant"})
  \/ DirectStep({"login", "enter", "limit", "link", "restart"})

AccSpec == AccInit /\ [][AccNext]_accVars
----------------------------------------------------------------------------
\* Every variable has its type.
AccTypeOK ==
  /\ \A u \in Users : /\ user[u].row \in {"new", "live", "gone"}
                      /\ u \in LiveUsers => user[u].tenant \in Tenancies
  /\ \A t \in Tenancies : /\ tenant[t].row \in {"new", "live", "gone"}
                          /\ tenant[t].reseller \in Resellers \cup {None}
  /\ \A x \in Resellers : reseller[x].seats \in 0..MaxSeats
  /\ \A l \in Links : link[l].kind \in {None, "reset", "signup"}
  /\ \A b \in Browsers : session[b].user \in Users \cup {None}

\* Every user has an address of its own and a tenant that exists, and every
\* tenant of a reseller has one that exists, whatever is created while its
\* parent is deleted.
Placed ==
  /\ AccTypeOK
  /\ \A u, v \in LiveUsers : user[u].email = user[v].email => u = v
  /\ \A u \in LiveUsers : user[u].tenant \in LiveTenants
  /\ \A t \in LiveTenants : tenant[t].reseller \in LiveResellers \cup {None}

\* The users of a tenant always include an administrator, unless two of them
\* take each other's role at a time or somebody does who is not one of them:
\* an administrator of the reseller, who may also be a mere member of the
\* tenant, or the superadmin.
AdminRemains ==
  \A t \in LiveTenants \ (crowded \cup outside) :
    (\E u \in LiveUsers : user[u].tenant = t) =>
      \E u \in LiveUsers : user[u].tenant = t /\ (user[u].admin \/ user[u].super)

\* models.py:316 calls the links single-use; that holds unless two requests
\* bring one link at a time.
LinkOnce == \A l \in Links \ crowded : used[l] <= 1

\* A reseller's customers do not exceed its seats, unless two requests fill
\* the last seat at a time or the limit was lowered below them and what is
\* under way.
SeatsHeld ==
  \A x \in LiveResellers \ (crowded \cup {Platform}) :
    Cardinality({t \in Customers(x) : ~tenant[t].extra}) <= reseller[x].seats \/ reseller[x].lowered

\* A reseller administrator belongs to a reseller: without one every page of
\* /reseller fails.  Only a request that overlaps the deletion of the
\* reseller can leave one behind.
AdminsBelong ==
  crowded \cap Resellers = {} =>
    \A u \in LiveUsers : user[u].rs => tenant[user[u].tenant].reseller # None

\* reseller.py:5: reseller administrators can enter any of their customer
\* tenants like a superadmin.
EnterTakesEffect ==
  \A b \in Browsers : LoggedIn(b) /\ session[b].acting \in Entrable(b) =>
    Effective(b) = session[b].acting
============================================================================
