CONSTANTS
  sched = sched thread1 = thread1 boxA = boxA boxR = boxR
  form = form api = api acme = acme bolt = bolt acmeName = acmeName
  boltName = boltName docA = docA docA2 = docA2 docB = docB docLong = docLong
  keyA = keyA keyB = keyB keyLong = keyLong
  None = None NoName = NoName
  Names <- MCNames Tenants <- MCTenants Keys <- MCKeys Docs <- MCDocs
  Key <- MCKey Policy <- MCPolicy Workers <- MCWorkers Sources <- MCSources
  Route <- MCRoute Reach <- MCReach Scheduler = sched
  Registered <- AcmeBoth  Refused = {docLong}  AutoCreate = {}  Threads = {}
  Mailboxes = {boxA, boxR}  Mails = {1, 2}  BoxOf <- TwoBoxes  Parts <- CrossMails
  MoveTo = {}  MaxFetch = 2  Faults = {}  Requests = {form, api}
  Uploaded <- Mixed  ViaApi = {api}  Spooled = {form, api}  Managed = {}
SPECIFICATION FairSpec
PROPERTIES JobsEnd MailsFetched
CHECK_DEADLOCK FALSE
