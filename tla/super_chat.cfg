SPECIFICATION Spec
CONSTANTS
  Mail <- NoMail
  m1 = m1
  m2 = m2
  t1 = t1
  t2 = t2
  Thread <- MCThread
  Chat = {c1, c2}
  Threads = {t1, t2}
  MaxConcurrency = 1
  MaxRouterEvals = 2
  MaxRouterAttempts = 2
  MaxWorkerAttempts = 2
  MaxTickets = 2
  MaxFaults = 1
  MaxCrashes = 1
  MaxCommands = 1
  MaxMishaps = 1
INVARIANTS TypeOK OneTicketPerEvent InputsReachTheWorker
PROPERTIES EvaluatedInOrder StoppedStays
CHECK_DEADLOCK FALSE
