\* REPL and health monitor over two slots and three reservations.
CONSTANTS
  Repl = Repl
  Health = Health
  NoThread = NoThread
  Threads = {Repl, Health}
  MaxSessions = 2
  MaxId = 3
SPECIFICATION FairServerSpec
INVARIANTS DetachesSerialized ActiveIsRegistered ClosedIsEmpty
PROPERTIES ReplReturns DeadAgentNoticed
