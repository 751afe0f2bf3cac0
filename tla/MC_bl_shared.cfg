CONSTANTS
  job = job click = click shop = shop forum = forum mx = mx
  critical = critical warning = warning None = None
  Domains = {shop}  Targets <- MCTargets  Zones = {critical}  Severity <- MCSeverity
  Scanners = {job, click}  Sweeps = {job}  Threshold = 1  Cooldown = 1  CacheTtl = 0
  Faults = {"restart", "error", "outage", "unsent"}  MaxTime = 2  MaxScans = 4
SPECIFICATION BlSpec
INVARIANTS OneAlertPerScanner
CHECK_DEADLOCK FALSE
