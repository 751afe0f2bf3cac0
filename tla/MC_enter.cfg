CONSTANTS
  root = root boss = boss chief = chief deputy = deputy new1 = new1 new2 = new2 platform = platform
  msp = msp rival = rival home = home ops = ops acme = acme shop = shop mail1 = mail1
  mail2 = mail2 link1 = link1 link2 = link2 web1 = web1 web2 = web2 call1 = call1 call2 = call2
  key1 = key1 use1 = use1 use2 = use2 edit1 = edit1 dom1 = dom1 dom2 = dom2 twin = twin
  pol1 = pol1 pol2 = pol2 job1 = job1 job2 = job2
  Users = {root, boss, chief, deputy, new1, new2}  Emails = {mail1, mail2}
  Tenancies = {home, ops, acme, shop}  Resellers = {platform, msp, rival}  Platform = platform
  Links = {link1, link2}  Browsers = {web1, web2}  Calls = {call1, call2}  MaxSeats = 2
  ApiKeys = {key1}  Uses = {use1, use2}  Edits = {edit1}
  Domains = {dom1}  RecordOf <- MCRecordOf  Policies = {pol1, pol2}  DefaultPolicy = pol1  Jobs = {job1, job2}
  Scenes = {"enter"}
SPECIFICATION MCSpec
SYMMETRY Alike
INVARIANTS EnterTakesEffect
CHECK_DEADLOCK FALSE
