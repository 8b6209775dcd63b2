------------------------------- MODULE Channel -------------------------------
(***************************************************************************)
(* NrChannel of runtime/nathra_rt.h: a ring buffer of Cap slots guarded by  *)
(* one mutex, with the condition variables not_empty and not_full.          *)
(*                                                                          *)
(* A call runs through the program counter                                  *)
(*   "idle" -> "lock" -> "test" -> ("wait" -> "lock" -> "test")* ->         *)
(*   ["signal"] -> "unlock" -> "idle"                                       *)
(* "test" .. "unlock" hold the mutex.  A thread at "wait" sleeps in one of  *)
(* the two wait sets; pthread_cond_wait may also return with no signal.     *)
(*                                                                          *)
(* nr_channel_recv, nr_channel_recv_val and the loop of nr_channel_drain    *)
(* run the same code; try_recv is nr_channel_try_recv_result.  Each message *)
(* of Messages is offered to send at most once: that bounds the behaviours  *)
(* and gives every element an identity.                                     *)
(***************************************************************************)
EXTENDS Naturals, Sequences, FiniteSets

CONSTANTS
  Producers,      \* threads that call send
  Consumers,      \* threads that make the calls of ConsumerCalls
  Closers,        \* threads that call close
  ConsumerCalls,  \* subset of RecvOps \cup {"has_data"}
  Messages,       \* the values sent
  Cap,            \* capacity passed to nr_channel_new
  NoThread, NoMessage

Threads == Producers \cup Consumers \cup Closers
RecvOps == {"recv", "try_recv", "drain"}
Ops     == {"none", "send", "close", "has_data"} \cup RecvOps

ASSUME ThreadsAssumption ==
  /\ IsFiniteSet(Threads)
  /\ NoThread \notin Threads
ASSUME CapAssumption == Cap \in Nat \ {0}
ASSUME CallsAssumption == ConsumerCalls \subseteq RecvOps \cup {"has_data"}

VARIABLES
  buffer, head, tail, count, closed,  \* the fields of struct NrChannel
  lock,                               \* holder of ch->lock, or NoThread
  notEmpty, notFull,                  \* threads asleep on each condition variable
  pc, op, msg,                        \* the call each thread is in, and its argument
  ok, out,                            \* its return value and *out
  offered, sent, received             \* history: passed to send, stored, taken out

ring    == <<buffer, head, tail, count>>
sync    == <<lock, notEmpty, notFull>>
calls   == <<pc, op, msg>>
replies == <<ok, out>>
history == <<offered, sent, received>>
chvars  == <<ring, closed, sync, calls, replies, history>>

Locked == {"test", "signal", "unlock"}

Init ==
  /\ buffer = [i \in 0..Cap-1 |-> NoMessage]
  /\ head = 0 /\ tail = 0 /\ count = 0
  /\ closed = FALSE
  /\ lock = NoThread
  /\ notEmpty = {} /\ notFull = {}
  /\ pc  = [t \in Threads |-> "idle"]
  /\ op  = [t \in Threads |-> "none"]
  /\ msg = [t \in Threads |-> NoMessage]
  /\ ok  = [t \in Threads |-> FALSE]
  /\ out = [t \in Threads |-> NoMessage]
  /\ offered = {} /\ sent = << >> /\ received = << >>

\* Seeded bugs: an index that does not
\* wrap; a sender that slept and does not look at closed again; recv giving up
\* on a closed channel that still holds elements.
NextSlotStuck(i) == IF i + 1 = Cap THEN i ELSE i + 1
RoomUnchecked    == count # Cap
AtEndEarly       == closed

Full        == count = Cap
NextSlot(i) == (i + 1) % Cap
Room        == ~Full /\ ~closed      \* what holds after the loop of send
AtEnd       == count = 0 /\ closed   \* what recv tests after its loop
Pending     == count > 0             \* the answer of has_data

Goto(t, label) == pc' = [pc EXCEPT ![t] = label]

Answer(t, b, m) ==
  /\ ok'  = [ok  EXCEPT ![t] = b]
  /\ out' = [out EXCEPT ![t] = m]

-----------------------------------------------------------------------------
(* Calls: a thread enters one of the functions.                             *)

Call(t, o, m) ==
  /\ pc[t] = "idle"
  /\ Goto(t, "lock")
  /\ op'  = [op  EXCEPT ![t] = o]
  /\ msg' = [msg EXCEPT ![t] = m]
  /\ UNCHANGED <<ring, closed, sync, replies, sent, received>>

StartSend(t, m) ==
  /\ m \notin offered
  /\ offered' = offered \cup {m}
  /\ Call(t, "send", m)

StartRecv(t, o) == Call(t, o, NoMessage) /\ UNCHANGED offered

StartClose(t) == Call(t, "close", NoMessage) /\ UNCHANGED offered

-----------------------------------------------------------------------------
(* The mutex and the condition variables.                                   *)

Acquire(t) ==
  /\ pc[t] = "lock"
  /\ lock = NoThread
  /\ lock' = t
  /\ Goto(t, "test")
  /\ UNCHANGED <<ring, closed, notEmpty, notFull, op, msg, replies, history>>

\* A drain calls recv again until recv answers 0.
Unlock(t) ==
  /\ pc[t] = "unlock"
  /\ lock' = NoThread
  /\ Goto(t, IF op[t] = "drain" /\ ok[t] THEN "lock" ELSE "idle")
  /\ UNCHANGED <<ring, closed, notEmpty, notFull, op, msg, replies, history>>

\* pthread_cond_wait gives the mutex up and sleeps in one step.
Sleep(t) ==
  /\ lock' = NoThread
  /\ Goto(t, "wait")
  /\ UNCHANGED <<ring, closed, op, msg, replies, history>>

\* The signalling thread t goes on to unlock; the woken ones ask for the mutex.
WakeFrom(woken, t) ==
  pc' = [u \in Threads |-> IF u = t THEN "unlock" ELSE IF u \in woken THEN "lock" ELSE pc[u]]

SignalNotFull(t) ==
  /\ \/ notFull = {} /\ notFull' = {} /\ WakeFrom({}, t)
     \/ \E w \in notFull : notFull' = notFull \ {w} /\ WakeFrom({w}, t)
  /\ UNCHANGED notEmpty

\* Seeded bug: wake a receiver only when the ring was empty before the send.
SignalFirstOnly(t) ==
  /\ \/ (notEmpty = {} \/ count # 1) /\ UNCHANGED notEmpty /\ WakeFrom({}, t)
     \/ count = 1 /\ \E w \in notEmpty : notEmpty' = notEmpty \ {w} /\ WakeFrom({w}, t)
  /\ UNCHANGED notFull

SignalNotEmpty(t) ==
  /\ \/ notEmpty = {} /\ notEmpty' = {} /\ WakeFrom({}, t)
     \/ \E w \in notEmpty : notEmpty' = notEmpty \ {w} /\ WakeFrom({w}, t)
  /\ UNCHANGED notFull

\* Seeded bug: close wakes the receivers and forgets the senders.
BroadcastNotEmpty(t) ==
  /\ notEmpty' = {} /\ UNCHANGED notFull
  /\ WakeFrom(notEmpty, t)

Broadcast(t) ==
  /\ notEmpty' = {} /\ notFull' = {}
  /\ WakeFrom(notEmpty \cup notFull, t)

Signal(t) ==
  /\ pc[t] = "signal"
  /\ \/ op[t] = "send" /\ SignalNotEmpty(t)
     \/ op[t] \in RecvOps /\ SignalNotFull(t)
     \/ op[t] = "close" /\ Broadcast(t)
  /\ UNCHANGED <<ring, closed, lock, op, msg, replies, history>>

SpuriousWakeup(t) ==
  /\ t \in notEmpty \cup notFull
  /\ notEmpty' = notEmpty \ {t}
  /\ notFull'  = notFull \ {t}
  /\ Goto(t, "lock")
  /\ UNCHANGED <<ring, closed, lock, op, msg, replies, history>>

-----------------------------------------------------------------------------
(* nr_channel_send: the loop test, and what follows the loop.               *)

SendWait(t) ==
  /\ pc[t] = "test" /\ op[t] = "send"
  /\ Full /\ ~closed
  /\ notFull' = notFull \cup {t}
  /\ Sleep(t)
  /\ UNCHANGED notEmpty

SendRefused(t) ==
  /\ pc[t] = "test" /\ op[t] = "send"
  /\ closed
  /\ Answer(t, FALSE, NoMessage)
  /\ Goto(t, "unlock")
  /\ UNCHANGED <<ring, closed, sync, op, msg, history>>

SendPut(t) ==
  /\ pc[t] = "test" /\ op[t] = "send"
  /\ Room
  /\ buffer' = [buffer EXCEPT ![tail] = msg[t]]
  /\ tail' = NextSlot(tail)
  /\ count' = count + 1
  /\ sent' = Append(sent, msg[t])
  /\ Answer(t, TRUE, NoMessage)
  /\ Goto(t, "signal")
  /\ UNCHANGED <<head, closed, sync, op, msg, offered, received>>

-----------------------------------------------------------------------------
(* nr_channel_recv.                                                         *)

RecvWait(t) ==
  /\ pc[t] = "test" /\ op[t] \in RecvOps
  /\ count = 0 /\ ~closed
  /\ notEmpty' = notEmpty \cup {t}
  /\ Sleep(t)
  /\ UNCHANGED notFull

RecvClosed(t) ==
  /\ pc[t] = "test" /\ op[t] \in RecvOps
  /\ AtEnd
  /\ Answer(t, FALSE, NoMessage)
  /\ Goto(t, "unlock")
  /\ UNCHANGED <<ring, closed, sync, op, msg, history>>

RecvTake(t) ==
  /\ pc[t] = "test" /\ op[t] \in RecvOps
  /\ count # 0
  /\ head' = NextSlot(head)
  /\ count' = count - 1
  /\ received' = Append(received, buffer[head])
  /\ Answer(t, TRUE, buffer[head])
  /\ Goto(t, "signal")
  /\ UNCHANGED <<buffer, tail, closed, sync, op, msg, offered, sent>>

-----------------------------------------------------------------------------
(* nr_channel_close and nr_channel_has_data.                                *)

CloseSet(t) ==
  /\ pc[t] = "test" /\ op[t] = "close"
  /\ closed' = TRUE
  /\ Answer(t, TRUE, NoMessage)
  /\ Goto(t, "signal")
  /\ UNCHANGED <<ring, sync, op, msg, history>>

HasData(t) ==
  /\ pc[t] = "test" /\ op[t] = "has_data"
  /\ Answer(t, Pending, NoMessage)
  /\ Goto(t, "unlock")
  /\ UNCHANGED <<ring, closed, sync, op, msg, history>>

-----------------------------------------------------------------------------
Step(t) ==
  \/ SendWait(t) \/ SendRefused(t) \/ SendPut(t)
  \/ RecvWait(t) \/ RecvClosed(t) \/ RecvTake(t)
  \/ CloseSet(t) \/ HasData(t)
  \/ Signal(t) \/ Unlock(t)

Next ==
  \/ \E t \in Producers, m \in Messages : StartSend(t, m)
  \/ \E t \in Consumers, o \in ConsumerCalls : StartRecv(t, o)
  \/ \E t \in Closers : StartClose(t)
  \/ \E t \in Threads : Acquire(t) \/ Step(t) \/ SpuriousWakeup(t)

Spec == Init /\ [][Next]_chvars

\* A scheduled thread runs on, and a thread that asks for the mutex again and
\* again while it keeps being free gets it in the end.  No thread is forced to
\* make a call, and no wakeup comes without a signal.
Fairness == \A t \in Threads : WF_chvars(Step(t)) /\ SF_chvars(Acquire(t))
FairSpec == Spec /\ Fairness

\* The same with consumers that keep receiving until the close, whatever else
\* they call in between: a consumer loop.
ServedSpec ==
  /\ FairSpec
  /\ \A c \in Consumers :
       SF_chvars(~closed /\ \E o \in RecvOps \cap ConsumerCalls : StartRecv(c, o))

-----------------------------------------------------------------------------
(* Properties.                                                              *)

\* Every field and every thread stays in its range.
TypeOK ==
  /\ buffer \in [0..Cap-1 -> Messages \cup {NoMessage}]
  /\ head \in 0..Cap-1 /\ tail \in 0..Cap-1 /\ count \in 0..Cap
  /\ closed \in BOOLEAN
  /\ lock \in Threads \cup {NoThread}
  /\ notEmpty \subseteq Threads /\ notFull \subseteq Threads
  /\ pc  \in [Threads -> {"idle", "lock", "wait"} \cup Locked]
  /\ op  \in [Threads -> Ops]
  /\ msg \in [Threads -> Messages \cup {NoMessage}]
  /\ ok  \in [Threads -> BOOLEAN]
  /\ out \in [Threads -> Messages \cup {NoMessage}]
  /\ offered \subseteq Messages
  /\ sent \in Seq(Messages) /\ received \in Seq(Messages \cup {NoMessage})

\* The elements the ring holds, oldest first.
Contents == [i \in 1..count |-> buffer[(head + i - 1) % Cap]]

\* What the receivers took out, followed by what the ring holds, is what the
\* senders put in, in that order: no element is lost, overwritten, handed out
\* twice or reordered, whatever the ring's indices have wrapped around to.
FifoDelivery == sent = received \o Contents

\* Receivers and senders that are in a call and not asleep.
Awake(ops) == {t \in Threads : op[t] \in ops /\ pc[t] \in {"lock", "test"}}
\* Threads that have changed the ring and not signalled yet.
Signalling(ops) == {t \in Threads : op[t] \in ops /\ pc[t] = "signal"}

\* One signal per element is enough.  As long as a receiver sleeps, every
\* element in the ring has an awake receiver or a signal about to be sent to
\* account for it; the same for sleeping senders and free slots; and after a
\* close nobody sleeps once the broadcast is out.
NoLostWakeup ==
  /\ notEmpty # {} =>
       count <= Cardinality(Awake(RecvOps)) + Cardinality(Signalling({"send"}))
  /\ notFull # {} =>
       Cap - count <= Cardinality(Awake({"send"})) + Cardinality(Signalling(RecvOps))
  /\ closed /\ notEmpty \cup notFull # {} => Signalling({"close"}) # {}

\* A recv (or drain) that answers 0 has seen the end of the stream: the channel
\* is closed, every element ever accepted has been delivered, and as no send
\* can be accepted any more this stays so when the caller acts on the answer.
EndOfStream ==
  \A t \in Threads :
    op[t] \in RecvOps /\ ~ok[t] /\ pc[t] = "unlock" => closed /\ sent = received

\* Once the channel is closed every call in progress returns, asleep or not.
CallsReturnAfterClose ==
  \A t \in Threads : (closed /\ pc[t] # "idle") ~> (pc[t] = "idle")

\* With consumers that keep receiving, whatever was passed to send is delivered,
\* even by a sender that had to sleep, unless the channel is closed.
EverythingDelivered ==
  \A m \in Messages :
    m \in offered ~> (closed \/ \E i \in 1..Len(received) : received[i] = m)

\* The calls take effect one at a time between invocation and return, as calls
\* of a bounded FIFO queue: they are linearizable.
PhaseOf(label) == CASE label = "idle" -> "idle"
                    [] label \in {"lock", "test", "wait"} -> "pending"
                    [] OTHER -> "done"
Phase == [t \in Threads |-> PhaseOf(pc[t])]

Queue == INSTANCE BoundedQueue WITH queue <- Contents, phase <- Phase
LinearizableQueue == Queue!Spec
=============================================================================
