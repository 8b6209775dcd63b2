CONSTANTS
  NoThread = NoThread
  NoMessage = NoMessage
  Producers = {p1, p2}
  Consumers = {c1, c2}
  Closers = {x}
  ConsumerCalls = {"recv", "drain"}
  Messages = {m1, m2, m3, m4}
  Cap = 2
SPECIFICATION Spec
SYMMETRY Symmetry
INVARIANTS FifoDelivery NoLostWakeup EndOfStream
PROPERTY LinearizableQueue
