\* One HTTP client and the main thread, with the three attempts of the code.
CONSTANTS
  Main = Main
  c1 = c1
  Clients = {c1}
  NoThread = NoThread
  Threads = {Main, c1}
  MaxSessions = 1
  MaxId = 1
  MaxAttempts = 3
SPECIFICATION FairHttpSpec
PROPERTIES FailureEndsServer RequestsReturn
