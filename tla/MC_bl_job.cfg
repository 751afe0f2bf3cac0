CONSTANTS
  job = job click = click shop = shop forum = forum mx = mx
  critical = critical warning = warning None = None
  Domains = {shop, forum}  Targets <- MCTargets  Zones = {critical, warning}  Severity <- MCSeverity
  Scanners = {job}  Sweeps = {job}  Threshold = 2  Cooldown = 0  CacheTtl = 0
  Faults = {"error"}  MaxTime = 1  MaxScans = 3
SPECIFICATION BlSpec
INVARIANTS NoFlapAlerts RisesAreAlerted
CHECK_DEADLOCK FALSE
