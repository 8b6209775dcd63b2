CONSTANTS
  NoThread = NoThread
  NoMessage = NoMessage
  Producers = {p1, p2}
  Consumers = {c1}
  Closers = {x}
  ConsumerCalls = {"recv", "drain", "has_data"}
  Messages = {m1, m2}
  Cap = 1
SPECIFICATION ServedSpec
PROPERTIES CallsReturnAfterClose EverythingDelivered
