CONSTANTS
  Repl = Repl
  Health = Health
  NoThread = NoThread
  Threads = {Repl, Health}
  MaxSessions = 1
  MaxId = 2
SPECIFICATION ServerSpec
PROPERTY RefusedCommandKeepsSession
