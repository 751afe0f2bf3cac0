----------------------------- MODULE MCTenancy -----------------------------
(***************************************************************************)
(* Accounts, API keys and managed DMARC for TLC.  A behaviour plays one    *)
(* scene, named for the requests that meet in it.  In the scenes about     *)
(* accounts root is the superadmin, boss administers the reseller msp,     *)
(* chief and deputy the tenant acme, a customer of msp, and deputy the     *)
(* reseller as well; the scene of the first start begins with no users.    *)
(***************************************************************************)
EXTENDS Accounts, ApiKeys, ManagedDmarc, TLC

CONSTANTS root, boss, chief, deputy, new1, new2, platform, msp, rival, home, ops, acme, shop,
          mail1, mail2, link1, link2, web1, web2, call1, call2,
          key1, use1, use2, edit1, dom1, dom2, twin, pol1, pol2, job1, job2, Scenes

VARIABLE scene

mcVars == <<accVars, keyVars, dmarcVars, scene>>

\* shop-acme.ch and shop.acme.ch have one record.
MCRecordOf == [d \in {dom1, twin, dom2} |-> IF d = dom1 THEN "other" ELSE "shop-acme-ch"]

Row(e, t) == [NoUser EXCEPT !.row = "live", !.email = e, !.tenant = t, !.admin = TRUE]

\* Who is there, and who is logged in.
Cast == CASE scene = "roles" -> {chief, deputy}
          [] scene = "links" -> {chief}
          [] scene = "enter" -> {root, boss, chief}
          [] scene = "first" -> {}
          [] OTHER -> {root, boss}

\* The ids a new user or tenant can get.
Fresh == {new1} \cup (IF scene \in {"seats", "links", "first"} THEN {new2} ELSE {})
                \cup (IF scene \in {"roles", "enter"} THEN {} ELSE {shop})
                \cup (IF scene = "seats" THEN {acme} ELSE {})
                \cup (IF scene = "limits" THEN {rival} ELSE {})

Homes == (IF Cast = {} THEN {} ELSE {home}) \cup (IF boss \in Cast THEN {ops} ELSE {}) \cup (IF chief \in Cast THEN {acme} ELSE {})

MCInit ==
  /\ scene \in Scenes
  /\ user = [u \in Users |->
       IF u \notin Cast THEN [NoUser EXCEPT !.row = IF u \in Fresh THEN "new" ELSE "gone"]
       ELSE CASE u = root -> [Row("root", home) EXCEPT !.super = TRUE]
              [] u = boss -> [Row("boss", ops) EXCEPT !.rs = TRUE]
              [] u = chief -> Row(mail1, acme)
              [] u = deputy -> [Row("deputy", acme) EXCEPT !.rs = TRUE]]
  /\ tenant = [t \in Tenancies |->
       [row |-> IF t \in Homes THEN "live" ELSE IF t \in Fresh THEN "new" ELSE "gone",
        reseller |-> IF t \notin Homes THEN None ELSE IF t = home THEN Platform ELSE msp,
        extra |-> FALSE]]
  /\ reseller = [x \in Resellers |-> [row |-> IF x # rival THEN "live" ELSE IF x \in Fresh THEN "new" ELSE "gone",
                                      seats |-> MaxSeats, lowered |-> FALSE]]
  /\ link = [l \in Links |-> [kind |-> None, email |-> None, spent |-> FALSE, late |-> FALSE]]
  /\ session = [b \in Browsers |->
       [acting |-> None,
        user |-> CASE scene = "roles" -> (IF b = web1 THEN chief ELSE deputy)
                   [] scene = "links" -> (IF b = web1 THEN chief ELSE None)
                   [] scene = "first" -> None
                   [] OTHER -> (IF b = web1 THEN root ELSE boss)]]
  /\ call = [r \in Calls |-> NoCall]
  /\ used = [l \in Links |-> 0]
  /\ crowded = {} /\ outside = {}
  /\ KeyInit /\ DmarcInit

AccountStep(requests, direct) ==
  (RequestStep(requests) \/ DirectStep(direct)) /\ UNCHANGED <<keyVars, dmarcVars>>

MCNext ==
  /\ CASE scene = "roles" -> AccountStep({"role", "delete"}, {})
       [] scene = "links" -> AccountStep({"password"}, {"link", "login"})
       [] scene = "seats" -> AccountStep({"tenant", "droptenant"}, {})
       [] scene = "limits" -> AccountStep({"tenant"}, {"limit"})
       [] scene = "resellers" -> AccountStep({"rsadmin", "promote", "dropreseller"}, {"restart"})
       [] scene = "first" -> AccountStep({"user", "role", "delete"}, {"login", "restart"})
       [] scene = "enter" -> AccountStep({"role"}, {"enter"})
       [] scene = "keys" -> KeyNext /\ UNCHANGED <<accVars, dmarcVars>>
       [] scene = "dmarc" -> DmarcNext /\ UNCHANGED <<accVars, keyVars>>
  /\ UNCHANGED scene

Alike == Permutations({job1, job2}) \cup Permutations({call1, call2}) \cup Permutations({use1, use2})

MCSpec == MCInit /\ [][MCNext]_mcVars
============================================================================
