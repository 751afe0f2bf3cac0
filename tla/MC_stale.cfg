CONSTANTS
  root = root inner = inner leaf = leaf
  shop = shop news = news partner = partner stranger = stranger
  acme = acme beta = beta other = other
  fernet = fernet dqs = dqs port = port flag = flag extra = extra
  user = user  None = None  NoRecord = NoRecord  Unset = Unset  Nothing = Nothing
  MaxShort = 3
  Names = {root, inner, leaf}  Root = root  MaxDepth = 1  Records <- MCRecords
  Candidates <- MCCandidates  TenantOf <- MCTenantOf  LabelOf <- MCLabelOf
  ResellerTenants = {acme, beta}  TopSenders = 2  Jumps = {33, 100}  MaxNow = 133
  SpikeThreshold = 10  SpikeVolume = 100  Allowlist = {"5"}  MaxSource = 130
  Keys = {fernet, dqs, port, flag}  Kind <- MCKind  SensitiveKeys = {fernet}
  NoEmptyKeys = {fernet}  ContainerEnv <- MCContainerEnv  FirstFiles <- MCFirstFiles
  Words = {"", "x", "y", "true", "false"}  Forms <- MCForms
  Readers = {"a", "b"}  MaxSaves = 2
  Users = {user}  Admins = {user}
  Events = {"blacklist_alerts", "domain_added"}  Entered = {6, 22, 24}
  Scenes = {"env"}
SPECIFICATION MCSpec
INVARIANTS NewValuesAreSeen
CHECK_DEADLOCK FALSE
