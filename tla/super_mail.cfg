SPECIFICATION FairSpec
CONSTANTS
  Mail <- TwoMails
  m1 = m1
  m2 = m2
  t1 = t1
  t2 = t2
  Thread <- MCThread
  Chat = {}
  Threads = {t2}
  MaxConcurrency = 1
  MaxRouterEvals = 1
  MaxRouterAttempts = 2
  MaxWorkerAttempts = 2
  MaxTickets = 1
  MaxFaults = 1
  MaxCrashes = 1
  MaxCommands = 0
  MaxMishaps = 1
 
PROPERTIES EventsAreDecided TicketsEnd
CHECK_DEADLOCK FALSE
