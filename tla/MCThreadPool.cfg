CONSTANTS
  owner = owner
  m1 = m1
  m2 = m2
  m3 = m3
  m4 = m4
  m5 = m5
  NoThread = NoThread
  NoMessage = NoMessage
  NumWorkers = 2
  Owner = owner
  Submitters = {}
  Producers <- MCProducers
  Consumers <- MCWorkers
  Closers = {owner}
  ConsumerCalls = {"recv"}
  Messages <- MCTasks
  Children <- Nested
  Cap = 1
SPECIFICATION FairPoolSpec
INVARIANTS TaskOwnership QuiescentWhenFreed AcceptedTasksRun
PROPERTIES ShutdownCompletes SubmittedTasksRun
