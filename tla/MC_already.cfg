CONSTANTS
  siem = siem first = first second = second test1 = test1 test2 = test2
  visit1 = visit1 visit2 = visit2 click1 = click1 click2 = click2
  thread1 = thread1 thread2 = thread2
  Hooks = {siem}  Emits = {first, second}
  Retries = 1  Faults = {"refused", "timeout", "restart"}
  Tests = {test1, test2}  Visits = {visit1, visit2}
  Cases = 2  MaxAttempts = 2  PerDay = 1
  Clicks = {click1, click2}  MaxTokens = 3
  Callers = {thread1, thread2}  Capacity = 7  Cost = 3  MaxTime = 4
  Tenants = 2  WeekTicks = 4  MaxLag = 2  Weeks = 4
  own = own other = other tok1 = tok1 tok2 = tok2 req1 = req1 req2 = req2
  poll1 = poll1 poll2 = poll2 vis1 = vis1 vis2 = vis2
  Keys = {own, other}  Requests = {req1, req2}  Grades = {"A", "F"}  MaxRows = 2  MaxEdits = 2
  Tokens = {tok1, tok2}  Mails <- MCMails
  Polls = {poll1, poll2}  Askers = {vis1, vis2}  DayLimit = 1  MaxFaults = 1
  Scenes = {"news"}
SPECIFICATION MCSpec
PROPERTIES AlreadyIsTrue
CHECK_DEADLOCK FALSE
