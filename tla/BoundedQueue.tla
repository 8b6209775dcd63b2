---------------------------- MODULE BoundedQueue ----------------------------
(***************************************************************************)
(* What a channel promises its callers: a bounded FIFO queue shared by      *)
(* several producers and consumers that can be closed once and for all.     *)
(* Every call is invoked, takes effect at one instant between invocation    *)
(* and return, and returns the answer of that instant.  Nothing is said of  *)
(* locks, of condition variables or of the ring the elements are kept in.   *)
(***************************************************************************)
EXTENDS Naturals, Sequences

CONSTANTS Producers, Consumers, Closers,  \* the threads that may send, receive, close
          Messages, NoMessage,            \* the payloads, and "no payload"
          Cap                             \* the capacity

Threads == Producers \cup Consumers \cup Closers
RecvOps == {"recv", "try_recv", "drain"}

VARIABLES
  queue,   \* the elements accepted and not yet delivered, oldest first
  closed,  \* TRUE once the channel is closed
  phase,   \* where each thread is: "idle", "pending" (invoked), "done" (answered)
  op, msg, \* the call each thread is in, or made last, and its argument
  ok, out  \* the answer: the C return value, and *out

qvars == <<queue, closed, phase, op, msg, ok, out>>

Init ==
  /\ queue = << >>
  /\ closed = FALSE
  /\ phase = [t \in Threads |-> "idle"]
  /\ op    = [t \in Threads |-> "none"]
  /\ msg   = [t \in Threads |-> NoMessage]
  /\ ok    = [t \in Threads |-> FALSE]
  /\ out   = [t \in Threads |-> NoMessage]

Invoke(t, o, m) ==
  /\ phase[t] = "idle"
  /\ phase' = [phase EXCEPT ![t] = "pending"]
  /\ op'    = [op    EXCEPT ![t] = o]
  /\ msg'   = [msg   EXCEPT ![t] = m]
  /\ UNCHANGED <<queue, closed, ok, out>>

Answer(t, b, m) ==
  /\ phase' = [phase EXCEPT ![t] = "done"]
  /\ ok'    = [ok    EXCEPT ![t] = b]
  /\ out'   = [out   EXCEPT ![t] = m]
  /\ UNCHANGED <<op, msg>>

Put(t) ==
  /\ op[t] = "send" /\ ~closed /\ Len(queue) < Cap
  /\ queue' = Append(queue, msg[t])
  /\ Answer(t, TRUE, NoMessage) /\ UNCHANGED closed

Refuse(t) ==
  /\ op[t] = "send" /\ closed
  /\ Answer(t, FALSE, NoMessage) /\ UNCHANGED <<queue, closed>>

Take(t) ==
  /\ op[t] \in RecvOps /\ queue # << >>
  /\ queue' = Tail(queue)
  /\ Answer(t, TRUE, Head(queue)) /\ UNCHANGED closed

EndOfStream(t) ==
  /\ op[t] \in RecvOps /\ queue = << >> /\ closed
  /\ Answer(t, FALSE, NoMessage) /\ UNCHANGED <<queue, closed>>

Close(t) ==
  /\ op[t] = "close"
  /\ closed' = TRUE
  /\ Answer(t, TRUE, NoMessage) /\ UNCHANGED queue

Peek(t) ==
  /\ op[t] = "has_data"
  /\ Answer(t, queue # << >>, NoMessage) /\ UNCHANGED <<queue, closed>>

Perform(t) ==
  /\ phase[t] = "pending"
  /\ Put(t) \/ Refuse(t) \/ Take(t) \/ EndOfStream(t) \/ Close(t) \/ Peek(t)

\* A drain goes on with the next element until it is answered end of stream.
Return(t) ==
  /\ phase[t] = "done"
  /\ phase' = [phase EXCEPT ![t] =
                 IF op[t] = "drain" /\ ok[t] THEN "pending" ELSE "idle"]
  /\ UNCHANGED <<queue, closed, op, msg, ok, out>>

Next ==
  \/ \E t \in Producers, m \in Messages : Invoke(t, "send", m)
  \/ \E t \in Consumers, o \in RecvOps \cup {"has_data"} : Invoke(t, o, NoMessage)
  \/ \E t \in Closers : Invoke(t, "close", NoMessage)
  \/ \E t \in Threads : Perform(t) \/ Return(t)

Spec == Init /\ [][Next]_qvars
=============================================================================
