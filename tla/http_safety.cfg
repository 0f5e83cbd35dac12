\* Two HTTP clients and the main thread; two cleanup attempts.
CONSTANTS
  Main = Main
  c1 = c1
  c2 = c2
  Clients = {c1, c2}
  NoThread = NoThread
  Threads = {Main, c1, c2}
  MaxSessions = 1
  MaxId = 1
  MaxAttempts = 2
SPECIFICATION HttpSpec
INVARIANTS HealthyStaysAttached LateReplyDoomsSession EndsTruthfully
