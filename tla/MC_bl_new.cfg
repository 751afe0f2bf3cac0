CONSTANTS
  job = job click = click shop = shop forum = forum mx = mx
  critical = critical warning = warning None = None
  Domains = {shop}  Targets <- MCTargets  Zones = {critical}  Severity <- MCSeverity
  Scanners = {job}  Sweeps = {job}  Threshold = 2  Cooldown = 1  CacheTtl = 0
  Faults = {}  MaxTime = 2  MaxScans = 3
SPECIFICATION BlSpec
INVARIANTS NewListingIsAlerted
CHECK_DEADLOCK FALSE
