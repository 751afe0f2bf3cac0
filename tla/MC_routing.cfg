CONSTANTS
  sched = sched thread1 = thread1 boxA = boxA boxR = boxR
  form = form api = api acme = acme bolt = bolt acmeName = acmeName
  boltName = boltName docA = docA docA2 = docA2 docB = docB docLong = docLong
  keyA = keyA keyB = keyB keyLong = keyLong
  None = None NoName = NoName
  Names <- MCNames Tenants <- MCTenants Keys <- MCKeys Docs <- MCDocs
  Key <- MCKey Policy <- MCPolicy Workers <- MCWorkers Sources <- MCSources
  Route <- MCRoute Reach <- MCReach Scheduler = sched
  Registered <- BothDomains  Refused = {}  AutoCreate = {form}  Threads = {thread1}
  Mailboxes = {boxR}  Mails = {1}  BoxOf <- TwoBoxes  Parts <- OneEach
  MoveTo = {}  MaxFetch = 2  Faults = {}  Requests = {form}
  Uploaded <- Claim  ViaApi = {}  Spooled = {}  Managed <- JustBolt
SPECIFICATION Spec
INVARIANTS UniqueReports NoOrphans StaysInReach
