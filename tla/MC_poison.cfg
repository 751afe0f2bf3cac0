CONSTANTS
  sched = sched thread1 = thread1 boxA = boxA boxR = boxR
  form = form api = api acme = acme bolt = bolt acmeName = acmeName
  boltName = boltName docA = docA docA2 = docA2 docB = docB docLong = docLong
  keyA = keyA keyB = keyB keyLong = keyLong
  None = None NoName = NoName
  Names <- MCNames Tenants <- MCTenants Keys <- MCKeys Docs <- MCDocs
  Key <- MCKey Policy <- MCPolicy Workers <- MCWorkers Sources <- MCSources
  Route <- MCRoute Reach <- MCReach Scheduler = sched
  Registered <- BothDomains  Refused = {docLong}  AutoCreate = {}  Threads = {thread1}
  Mailboxes = {boxA, boxR}  Mails = {1, 2}  BoxOf <- TwoBoxes  Parts <- Poisoned
  MoveTo = {boxA}  MaxFetch = 2  Faults = {"mailboxes", "move"}  Requests = {}
  Uploaded <- NoFiles  ViaApi = {}  Spooled = {}  Managed = {}
SPECIFICATION Spec
INVARIANTS SeenIsAccounted
CHECK_DEADLOCK FALSE
