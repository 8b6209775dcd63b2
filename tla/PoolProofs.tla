----------------------------- MODULE PoolProofs -----------------------------
(***************************************************************************)
(* Proofs about ThreadPool, for any number of workers and submitters, any   *)
(* capacity of the queue and any relation of tasks to the tasks they        *)
(* submit.  A step of the pool is a step of its channel, so the invariants  *)
(* of the channel carry over; what is added is who holds which task.        *)
(***************************************************************************)
EXTENDS ThreadPool, ChannelProofs

LEMMA Roles ==
  /\ Workers \subseteq Threads /\ Owner \in Threads
  /\ Threads = Workers \cup Submitters \cup {Owner}
  /\ Owner \notin Workers /\ Owner \notin Submitters /\ Workers \cap Submitters = {}
BY RolesAssumption DEF Threads

LEMMA PoolStepIsChannelStep == [PoolNext]_vars => [Next]_chvars
<1> SUFFICES ASSUME [PoolNext]_vars PROVE [Next]_chvars
  OBVIOUS
<1>1. ASSUME NEW t \in Producers, NEW m \in Messages, PoolSubmit(t, m) PROVE Next
  BY <1>1 DEF PoolSubmit, Next
<1>2. ASSUME NEW t \in Submitters \cup {Owner}, NEW m \in Messages, OutsideSubmit(t, m) PROVE Next
  BY <1>1, <1>2, RolesAssumption DEF OutsideSubmit
<1>3. ASSUME NEW w \in Workers, WorkerStep(w) PROVE [Next]_chvars
  <2>1. CASE WorkerRecv(w)
    BY <2>1, RolesAssumption DEF WorkerRecv, Next
  <2>2. CASE WorkerGotTask(w) \/ WorkerExit(w) \/ WorkerDone(w)
    BY <2>2 DEF WorkerGotTask, WorkerExit, WorkerDone
  <2>3. CASE \E m \in Messages : TaskSubmit(w, m)
    BY <1>1, <2>3, RolesAssumption DEF TaskSubmit
  <2>4. QED
    BY <1>3, <2>1, <2>2, <2>3 DEF WorkerStep
<1>4. CASE ShutdownClose
  BY <1>4, RolesAssumption DEF ShutdownClose, Next
<1>5. CASE ShutdownClosed \/ JoinNext \/ FreePool
  BY <1>5 DEF ShutdownClosed, JoinNext, FreePool
<1>6. ASSUME NEW t \in Threads, ChannelStep(t) PROVE Next
  BY <1>6 DEF ChannelStep, Next
<1>7. CASE PoolGone \/ UNCHANGED vars
  BY <1>7 DEF PoolGone, vars
<1>8. QED
  BY <1>2, <1>3, <1>4, <1>5, <1>6, <1>7 DEF PoolNext

-----------------------------------------------------------------------------
(* The invariant.                                                           *)

\* The messages a receiver has taken out.
Delivered == {received[i] : i \in 1..Len(received)}

\* A thread that carries a message into the channel is the only one that does,
\* and no message is stored twice.
Carries(t) == op[t] = "send" /\ pc[t] \in Asked

SentOnce ==
  /\ Accepted \subseteq offered
  /\ \A i, j \in 1..Len(sent) : sent[i] = sent[j] => i = j
  /\ \A t \in Threads : Carries(t) => msg[t] \in offered \ Accepted
  /\ \A t, u \in Threads : Carries(t) /\ Carries(u) /\ t # u => msg[t] # msg[u]

PoolTypeOK ==
  /\ worker \in [Workers -> {"loop", "recv", "run", "exit"}]
  /\ task \in [Workers -> Elements]
  /\ runs \in [Messages -> {0, 1}]
  /\ heap \subseteq Messages
  /\ stage \in {"open", "close", "join", "freed"}
  /\ joined \in 0..NumWorkers

\* Which call a thread is in follows from where it is in the pool's code.
Placement ==
  /\ \A t \in Threads : op[t] \in {"none", "send", "close", "recv"}
  /\ \A t \in Threads \ Workers : op[t] # "recv"
  /\ \A w \in Workers :
       /\ worker[w] \in {"loop", "exit"} => pc[w] = "idle"
       /\ worker[w] = "recv" => op[w] = "recv"
       /\ worker[w] = "run" => pc[w] = "idle" \/ op[w] = "send"

\* A worker holds a task from the moment it takes it out of the ring until it
\* has freed it.
HasAnswer(w) == worker[w] = "recv" /\ pc[w] \in {"signal", "unlock", "idle"} /\ ok[w]
Holds(w, m)  == \/ HasAnswer(w) /\ out[w] = m
                \/ worker[w] = "run" /\ task[w] = m

\* A task taken out and not yet run is held by exactly one worker; the others
\* are held by nobody.  A task is freed when it has been run.
TaskCustody ==
  /\ \A w \in Workers, m \in Messages : Holds(w, m) => m \in Delivered /\ runs[m] = 0
  /\ \A v, w \in Workers, m \in Messages : Holds(v, m) /\ Holds(w, m) => v = w
  /\ \A m \in Messages : m \in Delivered /\ runs[m] = 0 => \E w \in Workers : Holds(w, m)
  /\ \A m \in Messages : runs[m] = 1 => m \in Delivered
  /\ \A m \in Messages : m \in heap <=> m \in offered /\ runs[m] = 0
  /\ \A w \in Workers : HasAnswer(w) => out[w] \in Messages
  /\ \A w \in Workers : worker[w] = "run" => task[w] \in Messages

\* A worker that leaves its loop has seen the end of the stream.
SeesEnd(w) == worker[w] = "exit" \/ (worker[w] = "recv" /\ pc[w] = "idle" /\ ~ok[w])
LeaveAtEnd == \A w \in Workers : SeesEnd(w) => closed /\ sent = received

\* How far the shutdown has come, and who is idle by then.
ShutdownOrder ==
  /\ stage # "open" => \A t \in Submitters : pc[t] = "idle"
  /\ stage \in {"join", "freed"} => pc[Owner] = "idle"
  /\ \A w \in Workers : w <= joined => worker[w] = "exit"
  /\ stage = "freed" => joined = NumWorkers

CInv == EInv /\ SInv
PInv == CInv /\ SentOnce /\ PoolTypeOK /\ Placement /\ TaskCustody /\ LeaveAtEnd /\ ShutdownOrder

LEMMA CInvNext == CInv /\ [PoolNext]_vars => CInv'
BY PoolStepIsChannelStep, NextEInv, NextSInv DEF CInv

LEMMA CInvTypes ==
  ASSUME CInv
  PROVE  /\ pc \in [Threads -> {"idle", "lock", "wait"} \cup Locked]
         /\ op \in [Threads -> Ops] /\ ok \in [Threads -> BOOLEAN]
         /\ msg \in [Threads -> Elements] /\ out \in [Threads -> Elements]
         /\ sent \in Seq(Messages) /\ received \in Seq(Elements) /\ offered \subseteq Messages
         /\ Sleepers /\ Mutex
BY DEF CInv, SInv, TInv, TypeOK, Elements

LEMMA PoolInitInv == PoolInit => PInv
<1> SUFFICES ASSUME PoolInit PROVE PInv
  OBVIOUS
<1>0. Init
  BY DEF PoolInit
<1>1. CInv
  BY <1>0, InitFInv, InitSInv DEF CInv, EInv, SignalsSucceed, EndOfStream, Init
<1>2. Accepted = {} /\ Delivered = {}
  BY <1>0 DEF Init, Accepted, Delivered
<1>3. SentOnce
  BY <1>0, <1>2 DEF Init, SentOnce, Carries
<1>4. PoolTypeOK
  BY WorkersAssumption DEF PoolInit, PoolTypeOK, Elements
<1>5. Placement
  BY <1>0, Roles DEF PoolInit, Init, Placement
<1>6. TaskCustody
  BY <1>0, <1>2 DEF PoolInit, Init, TaskCustody, Holds, HasAnswer
<1>7. LeaveAtEnd
  BY DEF PoolInit, LeaveAtEnd, SeesEnd
<1>8. ShutdownOrder
  BY DEF PoolInit, ShutdownOrder, Workers
<1>9. QED
  BY <1>1, <1>3, <1>4, <1>5, <1>6, <1>7, <1>8 DEF PInv

-----------------------------------------------------------------------------
(* Histories.                                                               *)

LEMMA AcceptedDelivered ==
  ASSUME CInv
  PROVE  /\ Delivered \subseteq Accepted /\ Accepted \subseteq Messages
         /\ \A i \in 1..Len(received) : i \in 1..Len(sent) /\ received[i] = sent[i]
<1>1. /\ sent \in Seq(Messages) /\ received \in Seq(Elements) /\ Contents \in Seq(Elements)
      /\ sent = received \o Contents
  BY CInvTypes, ContentsType DEF CInv, EInv, FInv, ContentsInv, FifoDelivery
<1>2. \A i \in 1..Len(received) : i \in 1..Len(sent) /\ received[i] = sent[i]
  BY <1>1
<1>3. QED
  BY <1>1, <1>2 DEF Accepted, Delivered

LEMMA AcceptedAppend ==
  ASSUME NEW m \in Messages, sent \in Seq(Messages), sent' = Append(sent, m)
  PROVE  Accepted' = Accepted \cup {m}
<1>1. /\ Len(sent') = Len(sent) + 1 /\ sent'[Len(sent) + 1] = m /\ Len(sent) \in Nat
      /\ \A i \in 1..Len(sent) : sent'[i] = sent[i]
  OBVIOUS
<1>2. ASSUME NEW x \in Accepted \cup {m} PROVE x \in Accepted'
  <2>1. CASE x \in Accepted
    BY <1>1, <2>1 DEF Accepted
  <2>2. CASE x = m
    BY <1>1, <2>2 DEF Accepted
  <2>3. QED
    BY <2>1, <2>2
<1>3. ASSUME NEW x \in Accepted' PROVE x \in Accepted \cup {m}
  BY <1>1 DEF Accepted
<1>4. QED
  BY <1>2, <1>3

LEMMA DeliveredAppend ==
  ASSUME NEW m \in Elements, received \in Seq(Elements), received' = Append(received, m)
  PROVE  Delivered' = Delivered \cup {m}
<1>1. /\ Len(received') = Len(received) + 1 /\ received'[Len(received) + 1] = m
      /\ Len(received) \in Nat
      /\ \A i \in 1..Len(received) : received'[i] = received[i]
  OBVIOUS
<1>2. ASSUME NEW x \in Delivered \cup {m} PROVE x \in Delivered'
  <2>1. CASE x \in Delivered
    BY <1>1, <2>1 DEF Delivered
  <2>2. CASE x = m
    BY <1>1, <2>2 DEF Delivered
  <2>3. QED
    BY <2>1, <2>2
<1>3. ASSUME NEW x \in Delivered' PROVE x \in Delivered \cup {m}
  BY <1>1 DEF Delivered
<1>4. QED
  BY <1>2, <1>3

\* The message recv takes out was sent, and never taken out before.
LEMMA TakenIsNew ==
  ASSUME CInv, SentOnce, NEW t \in Threads, RecvTake(t)
  PROVE  buffer[head] \in Accepted \ Delivered /\ buffer[head] \in Messages
<1>1. /\ buffer[head] \in Elements /\ Contents' \in Seq(Elements)
      /\ Contents = <<buffer[head]>> \o Contents'
      /\ Contents \in Seq(Elements)
  BY TakeContents DEF CInv, EInv, ContentsInv
<1>2. Len(Contents) > 0 /\ Contents[1] = buffer[head]
  BY <1>1
<1>3. sent \in Seq(Messages) /\ received \in Seq(Elements) /\ sent = received \o Contents
  BY CInvTypes DEF CInv, EInv, FInv, FifoDelivery
<1> DEFINE k == Len(received) + 1
<1>4. k \in 1..Len(sent) /\ sent[k] = buffer[head]
  BY <1>1, <1>2, <1>3
<1>5. \A i \in 1..Len(received) : i \in 1..Len(sent) /\ received[i] = sent[i] /\ i # k
  BY <1>3, AcceptedDelivered
<1> HIDE DEF k
<1>6. buffer[head] \in Accepted
  BY <1>4 DEF Accepted
<1>7. buffer[head] \notin Delivered
  BY <1>4, <1>5 DEF Delivered, SentOnce
<1>8. QED
  BY <1>6, <1>7, AcceptedDelivered

LEMMA NextSentOnce == CInv /\ SentOnce /\ [Next]_chvars => SentOnce'
<1> SUFFICES ASSUME CInv, SentOnce, [Next]_chvars PROVE SentOnce'
  OBVIOUS
<1>0. /\ pc \in [Threads -> {"idle", "lock", "wait"} \cup Locked]
      /\ op \in [Threads -> Ops] /\ msg \in [Threads -> Elements]
      /\ sent \in Seq(Messages) /\ Sleepers
  BY CInvTypes
<1>1. ASSUME UNCHANGED <<offered, sent, op, msg>>,
             \A u \in Threads : op[u] = "send" /\ pc'[u] \in Asked => pc[u] \in Asked
      PROVE  SentOnce'
  BY <1>1 DEF SentOnce, Accepted, Carries
<1>2. CASE UNCHANGED chvars
  BY <1>1, <1>2 DEF chvars, calls, history
<1>3. ASSUME NEW t \in Threads, NEW m \in Messages, StartSend(t, m) PROVE SentOnce'
  <2>1. /\ m \notin offered /\ offered' = offered \cup {m} /\ sent' = sent
        /\ pc' = [pc EXCEPT ![t] = "lock"] /\ op' = [op EXCEPT ![t] = "send"]
        /\ msg' = [msg EXCEPT ![t] = m]
    BY <1>3 DEF StartSend, Call, Goto
  <2>2. Accepted' = Accepted
    BY <2>1 DEF Accepted
  <2>3. \A u \in Threads \ {t} : (Carries(u)' <=> Carries(u)) /\ msg'[u] = msg[u]
    BY <1>0, <2>1 DEF Carries
  <2>4. msg'[t] = m
    BY <1>0, <2>1
  <2>5. QED
    BY <2>1, <2>2, <2>3, <2>4 DEF SentOnce
<1>4. ASSUME NEW t \in Threads, NEW o \in Ops \ {"send"}, Call(t, o, NoMessage), UNCHANGED offered
      PROVE  SentOnce'
  <2>1. /\ pc' = [pc EXCEPT ![t] = "lock"] /\ op' = [op EXCEPT ![t] = o]
        /\ msg' = [msg EXCEPT ![t] = NoMessage] /\ sent' = sent
    BY <1>4 DEF Call, Goto
  <2>2. Accepted' = Accepted
    BY <2>1 DEF Accepted
  <2>3. /\ ~Carries(t)'
        /\ \A u \in Threads \ {t} : (Carries(u)' <=> Carries(u)) /\ msg'[u] = msg[u]
    BY <1>0, <2>1 DEF Carries
  <2>4. QED
    BY <1>4, <2>1, <2>2, <2>3 DEF SentOnce
<1>5. ASSUME NEW t \in Threads, SendPut(t) PROVE SentOnce'
  <2>1. /\ pc[t] = "test" /\ op[t] = "send"
        /\ pc' = [pc EXCEPT ![t] = "signal"] /\ sent' = Append(sent, msg[t])
        /\ UNCHANGED <<offered, op, msg>>
    BY <1>5 DEF SendPut, Goto
  <2>2. Carries(t) /\ msg[t] \in offered \ Accepted /\ msg[t] \in Messages
    BY <2>1 DEF Carries, Asked, SentOnce, CInv, SInv, TInv, SendersCarry
  <2>3. Accepted' = Accepted \cup {msg[t]}
    BY <1>0, <2>1, <2>2, AcceptedAppend
  <2>4. /\ ~Carries(t)'
        /\ \A u \in Threads \ {t} : Carries(u)' <=> Carries(u)
    BY <1>0, <2>1 DEF Carries, Asked
  <2>5. \A i, j \in 1..Len(sent') : sent'[i] = sent'[j] => i = j
    <3>1. /\ Len(sent') = Len(sent) + 1 /\ sent'[Len(sent) + 1] = msg[t] /\ Len(sent) \in Nat
          /\ \A i \in 1..Len(sent) : sent'[i] = sent[i]
      BY <1>0, <2>1, <2>2
    <3>2. \A i \in 1..Len(sent) : sent[i] # msg[t]
      BY <2>2 DEF Accepted
    <3>3. \A i, j \in 1..Len(sent) : sent[i] = sent[j] => i = j
      BY DEF SentOnce
    <3>4. \A i \in 1..Len(sent') : i \in 1..Len(sent) \/ i = Len(sent) + 1
      BY <3>1
    <3>5. QED
      BY <3>1, <3>2, <3>3, <3>4
  <2>6. /\ \A u \in Threads : Carries(u)' => msg'[u] \in offered' \ Accepted'
        /\ \A u, v \in Threads : Carries(u)' /\ Carries(v)' /\ u # v => msg'[u] # msg'[v]
    BY <2>1, <2>2, <2>3, <2>4 DEF SentOnce
  <2>7. Accepted' \subseteq offered'
    BY <2>1, <2>2, <2>3 DEF SentOnce
  <2>8. QED
    BY <2>5, <2>6, <2>7 DEF SentOnce
<1>6. ASSUME NEW t \in Threads,
             Acquire(t) \/ SendWait(t) \/ RecvWait(t) \/ SpuriousWakeup(t)
      PROVE  SentOnce'
  BY <1>0, <1>1, <1>6
     DEF Acquire, SendWait, RecvWait, Sleep, SpuriousWakeup, Goto, history, Sleepers, Asked
<1>7. ASSUME NEW t \in Threads,
             \/ SendRefused(t) \/ RecvClosed(t) \/ RecvTake(t) \/ CloseSet(t)
             \/ HasData(t) \/ Unlock(t)
      PROVE  SentOnce'
  BY <1>0, <1>1, <1>7
     DEF SendRefused, RecvClosed, RecvTake, CloseSet, HasData, Unlock, Goto, history, Asked
<1>8. ASSUME NEW t \in Threads, Signal(t) PROVE SentOnce'
  <2>1. \E woken \in SUBSET (notEmpty \cup notFull) : WakeFrom(woken, t)
    BY <1>8 DEF Signal, SignalNotEmpty, SignalNotFull, Broadcast
  <2>2. PICK woken \in SUBSET (notEmpty \cup notFull) : WakeFrom(woken, t)
    BY <2>1
  <2>3. UNCHANGED <<offered, sent, op, msg>>
    BY <1>8 DEF Signal, history
  <2>4. QED
    BY <1>0, <1>1, <2>2, <2>3 DEF WakeFrom, Sleepers, Asked
<1>9. CASE Next
  <2>1. \A o \in ConsumerCalls : o \in Ops \ {"send"}
    BY CallsAssumption DEF Ops, RecvOps
  <2>2. "close" \in Ops \ {"send"}
    BY DEF Ops
  <2>3. QED
    BY <1>3, <1>4, <1>5, <1>6, <1>7, <1>8, <1>9, <2>1, <2>2
       DEF Next, Step, StartRecv, StartClose, Threads
<1>10. QED
  BY <1>2, <1>9

\* Once the channel is closed and drained it stays so.
LEMMA EndStays ==
  ASSUME CInv, [Next]_chvars, closed, sent = received
  PROVE  closed' /\ sent' = received'
<1>1. count = 0
  BY EmptyMeansAllReceived DEF CInv, EInv
<1>2. CASE UNCHANGED chvars
  BY <1>2 DEF chvars, history
<1>3. ASSUME NEW t, NEW o, NEW m, Call(t, o, m) PROVE closed' /\ sent' = received'
  BY <1>3 DEF Call
<1>4. ASSUME NEW t \in Threads, Acquire(t) \/ Step(t) \/ SpuriousWakeup(t)
      PROVE  closed' /\ sent' = received'
  BY <1>1, <1>4
     DEF Acquire, Step, SpuriousWakeup, SendWait, RecvWait, Sleep, SendRefused, SendPut, Room,
         RecvClosed, RecvTake, CloseSet, HasData, Signal, Unlock, history
<1>5. CASE Next
  BY <1>3, <1>4, <1>5 DEF Next, StartSend, StartRecv, StartClose
<1>6. QED
  BY <1>2, <1>5

-----------------------------------------------------------------------------
(* Steps inside the channel, seen from the pool.                            *)

\* They change no call and start or end none, but for the return of t.
LEMMA ChannelStepShape ==
  ASSUME PInv, NEW t \in Threads, ChannelStep(t)
  PROVE  /\ UNCHANGED <<op, msg, offered>> /\ UNCHANGED <<worker, task, heap, runs, stage, joined>>
         /\ pc[t] # "idle"
         /\ \A u \in Threads : pc[u] = "idle" => pc'[u] = "idle" /\ ok'[u] = ok[u] /\ out'[u] = out[u]
<1>0. /\ pc \in [Threads -> {"idle", "lock", "wait"} \cup Locked] /\ ok \in [Threads -> BOOLEAN]
      /\ out \in [Threads -> Elements] /\ Sleepers
  BY CInvTypes DEF PInv
<1>1. UNCHANGED <<op, msg, offered>> /\ UNCHANGED <<worker, task, heap, runs, stage, joined>>
  BY DEF ChannelStep, poolvars, Acquire, Step, SpuriousWakeup, SendWait, RecvWait, Sleep,
         SendRefused, SendPut, RecvClosed, RecvTake, CloseSet, HasData, Signal, Unlock, history
<1>2. CASE Acquire(t) \/ Unlock(t) \/ SendWait(t) \/ RecvWait(t)
  BY <1>0, <1>1, <1>2 DEF Acquire, Unlock, SendWait, RecvWait, Sleep, Goto, replies
<1>3. CASE SpuriousWakeup(t)
  BY <1>0, <1>1, <1>3 DEF SpuriousWakeup, Goto, replies, Sleepers
<1>4. CASE \/ SendRefused(t) \/ SendPut(t) \/ RecvClosed(t) \/ RecvTake(t)
           \/ CloseSet(t) \/ HasData(t)
  BY <1>0, <1>1, <1>4
     DEF SendRefused, SendPut, RecvClosed, RecvTake, CloseSet, HasData, Answer, Goto
<1>5. CASE Signal(t)
  <2>1. \E woken \in SUBSET (notEmpty \cup notFull) : WakeFrom(woken, t)
    BY <1>5 DEF Signal, SignalNotEmpty, SignalNotFull, Broadcast
  <2>2. PICK woken \in SUBSET (notEmpty \cup notFull) : WakeFrom(woken, t)
    BY <2>1
  <2>3. pc[t] = "signal" /\ UNCHANGED <<ok, out>>
    BY <1>5 DEF Signal, replies
  <2>4. QED
    BY <1>0, <1>1, <2>2, <2>3 DEF WakeFrom, Sleepers
<1>6. QED
  BY <1>2, <1>3, <1>4, <1>5 DEF ChannelStep, Step

\* Only RecvTake gives a worker a task.
LEMMA QuietSteps ==
  ASSUME PInv, NEW t \in Threads, ChannelStep(t), ~RecvTake(t), NEW w \in Workers
  PROVE  /\ HasAnswer(w)' <=> HasAnswer(w)
         /\ HasAnswer(w) => out'[w] = out[w]
<1>0. /\ pc \in [Threads -> {"idle", "lock", "wait"} \cup Locked] /\ ok \in [Threads -> BOOLEAN]
      /\ out \in [Threads -> Elements] /\ Sleepers /\ w \in Threads
      /\ UNCHANGED <<op, worker>> /\ Placement
  BY CInvTypes, ChannelStepShape, Roles DEF PInv
<1>1. CASE Acquire(t) \/ SendWait(t) \/ RecvWait(t)
  BY <1>0, <1>1 DEF Acquire, SendWait, RecvWait, Sleep, Goto, replies, HasAnswer
<1>2. CASE Unlock(t)
  BY <1>0, <1>2 DEF Unlock, Goto, replies, HasAnswer, Placement
<1>3. CASE SpuriousWakeup(t)
  BY <1>0, <1>3 DEF SpuriousWakeup, Goto, replies, Sleepers, HasAnswer
<1>4. CASE SendRefused(t) \/ SendPut(t) \/ CloseSet(t) \/ HasData(t)
  <2>1. worker[w] = "recv" => w # t
    BY <1>0, <1>4 DEF SendRefused, SendPut, CloseSet, HasData, Placement
  <2>2. QED
    BY <1>0, <1>4, <2>1 DEF SendRefused, SendPut, CloseSet, HasData, Answer, Goto, HasAnswer
<1>5. CASE RecvClosed(t)
  BY <1>0, <1>5 DEF RecvClosed, Answer, Goto, HasAnswer
<1>6. CASE Signal(t)
  <2>1. \E woken \in SUBSET (notEmpty \cup notFull) : WakeFrom(woken, t)
    BY <1>6 DEF Signal, SignalNotEmpty, SignalNotFull, Broadcast
  <2>2. PICK woken \in SUBSET (notEmpty \cup notFull) : WakeFrom(woken, t)
    BY <2>1
  <2>3. pc[t] = "signal" /\ UNCHANGED <<ok, out>>
    BY <1>6 DEF Signal, replies
  <2>4. pc[w] \in {"signal", "unlock", "idle"} <=> pc'[w] \in {"signal", "unlock", "idle"}
    BY <1>0, <2>2, <2>3 DEF WakeFrom, Sleepers
  <2>5. QED
    BY <1>0, <2>3, <2>4 DEF HasAnswer
<1>7. QED
  BY <1>1, <1>2, <1>3, <1>4, <1>5, <1>6 DEF ChannelStep, Step

\* A receive hands the worker that made it a task nobody held before.
LEMMA TakeGives ==
  ASSUME PInv, NEW t \in Threads, ChannelStep(t), RecvTake(t)
  PROVE  /\ t \in Workers /\ worker[t] = "recv" /\ ~HasAnswer(t)
         /\ HasAnswer(t)' /\ out'[t] = buffer[head]
         /\ \A w \in Workers \ {t} : (HasAnswer(w)' <=> HasAnswer(w)) /\ out'[w] = out[w]
         /\ Delivered' = Delivered \cup {buffer[head]}
         /\ buffer[head] \in Messages \ Delivered
<1>0. /\ pc \in [Threads -> {"idle", "lock", "wait"} \cup Locked] /\ ok \in [Threads -> BOOLEAN]
      /\ out \in [Threads -> Elements] /\ Workers \subseteq Threads
      /\ received \in Seq(Elements)
      /\ UNCHANGED <<op, worker>> /\ Placement /\ PoolTypeOK
  BY CInvTypes, ChannelStepShape, Roles DEF PInv
<1>1. /\ pc[t] = "test" /\ op[t] \in RecvOps
      /\ pc' = [pc EXCEPT ![t] = "signal"] /\ ok' = [ok EXCEPT ![t] = TRUE]
      /\ out' = [out EXCEPT ![t] = buffer[head]]
      /\ received' = Append(received, buffer[head])
  BY DEF RecvTake, Answer, Goto
<1>2. t \in Workers /\ worker[t] = "recv"
  BY <1>0, <1>1 DEF Placement, RecvOps, PoolTypeOK
<1>3. buffer[head] \in Messages \ Delivered
  BY TakenIsNew DEF PInv
<1>4. Delivered' = Delivered \cup {buffer[head]}
  BY <1>0, <1>1, <1>3, DeliveredAppend DEF Elements
<1>5. /\ ~HasAnswer(t) /\ HasAnswer(t)' /\ out'[t] = buffer[head]
      /\ \A w \in Workers \ {t} : (HasAnswer(w)' <=> HasAnswer(w)) /\ out'[w] = out[w]
  BY <1>0, <1>1, <1>2 DEF HasAnswer
<1>6. QED
  BY <1>2, <1>3, <1>4, <1>5

LEMMA ChannelKeepsCustody ==
  ASSUME PInv, NEW t \in Threads, ChannelStep(t)
  PROVE  TaskCustody'
<1>1. UNCHANGED <<worker, task, runs, heap, offered>> /\ TaskCustody
  BY ChannelStepShape DEF PInv
<1>2. CASE ~RecvTake(t)
  <2>1. Delivered' = Delivered
    BY <1>2 DEF ChannelStep, Acquire, Step, SpuriousWakeup, SendWait, RecvWait, Sleep, SendRefused,
         SendPut, RecvClosed, CloseSet, HasData, Signal, Unlock, history, Delivered
  <2>2. \A w \in Workers : /\ HasAnswer(w)' <=> HasAnswer(w)
                           /\ HasAnswer(w) => out'[w] = out[w]
    BY <1>2, QuietSteps
  <2>3. \A w \in Workers, m \in Messages : Holds(w, m)' <=> Holds(w, m)
    BY <1>1, <2>2 DEF Holds
  <2>4. QED
    BY <1>1, <2>1, <2>2, <2>3 DEF TaskCustody
<1>3. CASE RecvTake(t)
  <2> DEFINE b == buffer[head]
  <2>1. /\ t \in Workers /\ worker[t] = "recv" /\ ~HasAnswer(t) /\ HasAnswer(t)' /\ out'[t] = b
        /\ \A w \in Workers \ {t} : (HasAnswer(w)' <=> HasAnswer(w)) /\ out'[w] = out[w]
        /\ Delivered' = Delivered \cup {b} /\ b \in Messages \ Delivered
    BY <1>3, TakeGives
  <2> HIDE DEF b
  <2>2. /\ \A m \in Messages : ~Holds(t, m) /\ (Holds(t, m)' <=> m = b)
        /\ \A w \in Workers \ {t}, m \in Messages : Holds(w, m)' <=> Holds(w, m)
    BY <1>1, <2>1 DEF Holds
  <2>3. /\ \A w \in Workers : ~Holds(w, b)
        /\ runs[b] = 0
    <3>1. runs[b] \in {0, 1}
      BY <2>1 DEF PInv, PoolTypeOK
    <3>2. QED
      BY <1>1, <2>1, <3>1 DEF TaskCustody
  <2>4. /\ \A w \in Workers, m \in Messages : Holds(w, m)' => m \in Delivered' /\ runs'[m] = 0
        /\ \A v, w \in Workers, m \in Messages : Holds(v, m)' /\ Holds(w, m)' => v = w
    BY <1>1, <2>1, <2>2, <2>3 DEF TaskCustody
  <2>5. /\ \A m \in Messages : m \in Delivered' /\ runs'[m] = 0 => \E w \in Workers : Holds(w, m)'
        /\ \A m \in Messages : runs'[m] = 1 => m \in Delivered'
    BY <1>1, <2>1, <2>2, <2>3 DEF TaskCustody
  <2>6. /\ \A m \in Messages : m \in heap' <=> m \in offered' /\ runs'[m] = 0
        /\ \A w \in Workers : HasAnswer(w)' => out'[w] \in Messages
        /\ \A w \in Workers : worker'[w] = "run" => task'[w] \in Messages
    BY <1>1, <2>1 DEF TaskCustody
  <2>7. QED
    BY <2>4, <2>5, <2>6 DEF TaskCustody
<1>4. QED
  BY <1>2, <1>3

LEMMA ChannelKeepsRest ==
  ASSUME PInv, NEW t \in Threads, ChannelStep(t), [Next]_chvars
  PROVE  PoolTypeOK' /\ Placement' /\ LeaveAtEnd' /\ ShutdownOrder'
<1>0. /\ pc \in [Threads -> {"idle", "lock", "wait"} \cup Locked] /\ ok \in [Threads -> BOOLEAN]
      /\ UNCHANGED <<op, msg, offered>> /\ UNCHANGED <<worker, task, heap, runs, stage, joined>>
      /\ pc[t] # "idle" /\ Workers \subseteq Threads /\ Submitters \subseteq Threads /\ Owner \in Threads
      /\ \A u \in Threads : pc[u] = "idle" => pc'[u] = "idle" /\ ok'[u] = ok[u] /\ out'[u] = out[u]
  BY CInvTypes, ChannelStepShape, Roles DEF PInv
<1>1. PoolTypeOK' /\ Placement' /\ ShutdownOrder'
  BY <1>0 DEF PInv, PoolTypeOK, Placement, ShutdownOrder
<1>2. ASSUME NEW w \in Workers, SeesEnd(w)' PROVE closed' /\ sent' = received'
  <2>1. CASE SeesEnd(w)
    BY <2>1, EndStays DEF PInv, LeaveAtEnd
  <2>2. CASE ~SeesEnd(w)
    <3>1. /\ worker[w] = "recv" /\ pc'[w] = "idle" /\ ~ok'[w] /\ pc[w] # "idle" /\ op[w] = "recv"
      BY <1>0, <1>2, <2>2 DEF SeesEnd, PInv, Placement
    <3>2. Unlock(t) /\ w = t
      <4>1. CASE Signal(t)
        <5>1. \E woken \in SUBSET (notEmpty \cup notFull) : WakeFrom(woken, t)
          BY <4>1 DEF Signal, SignalNotEmpty, SignalNotFull, Broadcast
        <5>2. PICK woken \in SUBSET (notEmpty \cup notFull) : WakeFrom(woken, t)
          BY <5>1
        <5>3. QED
          BY <1>0, <3>1, <5>2 DEF WakeFrom
      <4>2. CASE ~Signal(t) /\ ~Unlock(t)
        BY <1>0, <3>1, <4>2
           DEF ChannelStep, Acquire, Step, SpuriousWakeup, SendWait, RecvWait, Sleep, SendRefused,
               SendPut, RecvClosed, RecvTake, CloseSet, HasData, Goto
      <4>3. CASE Unlock(t)
        BY <1>0, <3>1, <4>3 DEF Unlock, Goto
      <4>4. QED
        BY <4>1, <4>2, <4>3
    <3>3. /\ pc[w] = "unlock" /\ ok' = ok /\ UNCHANGED <<closed, sent, received>>
      BY <3>2 DEF Unlock, replies, history
    <3>4. closed /\ sent = received
      BY <1>0, <3>1, <3>3 DEF PInv, CInv, EInv, EndOfStream, RecvOps
    <3>5. QED
      BY <3>3, <3>4
  <2>3. QED
    BY <2>1, <2>2
<1>3. QED
  BY <1>1, <1>2 DEF LeaveAtEnd

-----------------------------------------------------------------------------
(* The steps of the pool's own code.                                        *)

\* Submitting allocates a task that was never seen before.
LEMMA SubmitKeeps ==
  ASSUME PInv, NEW t \in Threads, NEW m \in Messages, PoolSubmit(t, m),
         \/ t \in Workers /\ worker[t] = "run"
         \/ t \notin Workers /\ stage = "open"
  PROVE  PoolTypeOK' /\ Placement' /\ TaskCustody' /\ LeaveAtEnd' /\ ShutdownOrder'
<1>0. /\ pc \in [Threads -> {"idle", "lock", "wait"} \cup Locked] /\ ok \in [Threads -> BOOLEAN]
      /\ op \in [Threads -> Ops] /\ Workers \subseteq Threads
      /\ Submitters \subseteq Threads /\ Owner \in Threads /\ Owner \notin Workers
      /\ Workers \cap Submitters = {}
  BY CInvTypes, Roles DEF PInv
<1>1. /\ m \notin offered /\ offered' = offered \cup {m} /\ heap' = heap \cup {m}
      /\ pc[t] = "idle" /\ pc' = [pc EXCEPT ![t] = "lock"] /\ op' = [op EXCEPT ![t] = "send"]
      /\ UNCHANGED <<ok, out, sent, received, closed>>
      /\ UNCHANGED <<worker, task, runs, stage, joined>>
  BY DEF PoolSubmit, StartSend, Call, Goto, replies
<1>2. PoolTypeOK'
  BY <1>1 DEF PInv, PoolTypeOK
<1>3. Placement'
  BY <1>0, <1>1 DEF PInv, Placement
<1>4. \A w \in Workers : (HasAnswer(w)' <=> HasAnswer(w)) /\ (SeesEnd(w)' <=> SeesEnd(w))
  BY <1>0, <1>1 DEF HasAnswer, SeesEnd
<1>5. \A w \in Workers, k \in Messages : Holds(w, k)' <=> Holds(w, k)
  BY <1>1, <1>4 DEF Holds
<1>6. Delivered' = Delivered /\ runs[m] = 0
  <2>1. Delivered' = Delivered
    BY <1>1 DEF Delivered
  <2>2. m \notin Delivered
    BY <1>1, AcceptedDelivered DEF PInv, SentOnce
  <2>3. runs[m] \in {0, 1} /\ (runs[m] = 1 => m \in Delivered)
    BY DEF PInv, PoolTypeOK, TaskCustody
  <2>4. QED
    BY <2>1, <2>2, <2>3
<1>7. TaskCustody'
  BY <1>1, <1>4, <1>5, <1>6 DEF PInv, TaskCustody
<1>8. LeaveAtEnd'
  BY <1>1, <1>4 DEF PInv, LeaveAtEnd
<1>9. ShutdownOrder'
  <2>1. t \in Workers => \A u \in Submitters \cup {Owner} : pc'[u] = pc[u]
    BY <1>0, <1>1
  <2>2. QED
    BY <1>1, <2>1 DEF PInv, ShutdownOrder
<1>10. QED
  BY <1>2, <1>3, <1>7, <1>8, <1>9

LEMMA WorkerKeeps ==
  ASSUME PInv, NEW w \in Workers, WorkerRecv(w) \/ WorkerGotTask(w) \/ WorkerExit(w) \/ WorkerDone(w)
  PROVE  PoolTypeOK' /\ Placement' /\ TaskCustody' /\ LeaveAtEnd' /\ ShutdownOrder'
<1>0. /\ pc \in [Threads -> {"idle", "lock", "wait"} \cup Locked] /\ ok \in [Threads -> BOOLEAN]
      /\ op \in [Threads -> Ops] /\ Workers \subseteq Threads
      /\ Submitters \subseteq Threads /\ Owner \in Threads /\ Owner \notin Workers
      /\ Workers \cap Submitters = {}
      /\ worker \in [Workers -> {"loop", "recv", "run", "exit"}] /\ runs \in [Messages -> {0, 1}]
      /\ task \in [Workers -> Elements] /\ out \in [Threads -> Elements]
      /\ PoolTypeOK /\ Placement /\ TaskCustody /\ LeaveAtEnd /\ ShutdownOrder
  BY CInvTypes, Roles DEF PInv, PoolTypeOK
<1>1. CASE WorkerRecv(w)
  <2>1. /\ worker[w] = "loop" /\ worker' = [worker EXCEPT ![w] = "recv"]
        /\ pc' = [pc EXCEPT ![w] = "lock"] /\ op' = [op EXCEPT ![w] = "recv"]
        /\ UNCHANGED <<ok, out, sent, received, closed, offered>>
        /\ UNCHANGED <<task, heap, runs, stage, joined>>
    BY <1>1 DEF WorkerRecv, StartRecv, Call, Goto, replies
  <2>2. Delivered' = Delivered
    BY <2>1 DEF Delivered
  <2>3. \A v \in Workers : (HasAnswer(v)' <=> HasAnswer(v)) /\ (SeesEnd(v)' <=> SeesEnd(v))
    BY <1>0, <2>1 DEF HasAnswer, SeesEnd
  <2>4. \A v \in Workers, k \in Messages : Holds(v, k)' <=> Holds(v, k)
    BY <1>0, <2>1, <2>3 DEF Holds
  <2>5. PoolTypeOK' /\ Placement'
    BY <1>0, <2>1 DEF PoolTypeOK, Placement
  <2>6. TaskCustody' /\ LeaveAtEnd'
    BY <1>0, <2>1, <2>2, <2>3, <2>4 DEF TaskCustody, LeaveAtEnd
  <2>7. ShutdownOrder'
    BY <1>0, <2>1 DEF ShutdownOrder
  <2>8. QED
    BY <2>5, <2>6, <2>7
<1>2. CASE WorkerGotTask(w)
  <2>1. /\ worker[w] = "recv" /\ pc[w] = "idle" /\ ok[w]
        /\ worker' = [worker EXCEPT ![w] = "run"] /\ task' = [task EXCEPT ![w] = out[w]]
        /\ UNCHANGED <<pc, op, ok, out, sent, received, closed, offered>>
        /\ UNCHANGED <<heap, runs, stage, joined>>
    BY <1>2 DEF WorkerGotTask, chvars, calls, replies, history
  <2>2. task'[w] = out[w] /\ \A v \in Workers \ {w} : task'[v] = task[v] /\ worker'[v] = worker[v]
    BY <1>0, <2>1
  <2>3. /\ HasAnswer(w) /\ ~HasAnswer(w)' /\ out[w] \in Messages
        /\ \A v \in Workers \ {w} : HasAnswer(v)' <=> HasAnswer(v)
        /\ \A v \in Workers : SeesEnd(v)' => SeesEnd(v)
    BY <1>0, <2>1, <2>2 DEF HasAnswer, SeesEnd, TaskCustody
  <2>4. \A v \in Workers, k \in Messages : Holds(v, k)' <=> Holds(v, k)
    BY <1>0, <2>1, <2>2, <2>3 DEF Holds
  <2>5. PoolTypeOK' /\ Placement'
    BY <1>0, <2>1 DEF PoolTypeOK, Placement
  <2>6. Delivered' = Delivered
    BY <2>1 DEF Delivered
  <2>7. TaskCustody' /\ LeaveAtEnd'
    BY <1>0, <2>1, <2>2, <2>3, <2>4, <2>6 DEF TaskCustody, LeaveAtEnd
  <2>8. ShutdownOrder'
    BY <1>0, <2>1 DEF ShutdownOrder
  <2>9. QED
    BY <2>5, <2>7, <2>8
<1>3. CASE WorkerExit(w)
  <2>1. /\ worker[w] = "recv" /\ pc[w] = "idle" /\ ~ok[w]
        /\ worker' = [worker EXCEPT ![w] = "exit"]
        /\ UNCHANGED <<pc, op, ok, out, sent, received, closed, offered>>
        /\ UNCHANGED <<task, heap, runs, stage, joined>>
    BY <1>3 DEF WorkerExit, chvars, calls, replies, history
  <2>2. \A v \in Workers : (HasAnswer(v)' <=> HasAnswer(v)) /\ (SeesEnd(v)' => SeesEnd(v))
    BY <1>0, <2>1 DEF HasAnswer, SeesEnd
  <2>3. \A v \in Workers, k \in Messages : Holds(v, k)' <=> Holds(v, k)
    BY <1>0, <2>1, <2>2 DEF Holds
  <2>4. PoolTypeOK' /\ Placement'
    BY <1>0, <2>1 DEF PoolTypeOK, Placement
  <2>5. Delivered' = Delivered
    BY <2>1 DEF Delivered
  <2>6. TaskCustody' /\ LeaveAtEnd'
    BY <1>0, <2>1, <2>2, <2>3, <2>5 DEF TaskCustody, LeaveAtEnd
  <2>7. ShutdownOrder'
    BY <1>0, <2>1 DEF ShutdownOrder
  <2>8. QED
    BY <2>4, <2>6, <2>7
<1>4. CASE WorkerDone(w)
  <2> DEFINE k == task[w]
  <2>1. /\ worker[w] = "run" /\ pc[w] = "idle"
        /\ runs' = [runs EXCEPT ![k] = runs[k] + 1] /\ heap' = heap \ {k}
        /\ worker' = [worker EXCEPT ![w] = "loop"]
        /\ UNCHANGED <<pc, op, ok, out, sent, received, closed, offered>>
        /\ UNCHANGED <<task, stage, joined>>
    BY <1>4 DEF WorkerDone, chvars, calls, replies, history
  <2>2. k \in Messages /\ Holds(w, k) /\ k \in Delivered /\ runs[k] = 0
    BY <1>0, <2>1 DEF TaskCustody, Holds
  <2> HIDE DEF k
  <2>3. runs' = [runs EXCEPT ![k] = 1] /\ runs' \in [Messages -> {0, 1}]
    BY <1>0, <2>1, <2>2
  <2>4. /\ \A v \in Workers : (HasAnswer(v)' <=> HasAnswer(v)) /\ (SeesEnd(v)' => SeesEnd(v))
        /\ \A m \in Messages : ~Holds(w, m)'
        /\ \A v \in Workers \ {w}, m \in Messages : Holds(v, m)' <=> Holds(v, m)
    BY <1>0, <2>1 DEF HasAnswer, SeesEnd, Holds
  <2>5. /\ \A m \in Messages : Holds(w, m) => m = k
        /\ \A v \in Workers \ {w} : ~Holds(v, k)
    <3>1. \A m \in Messages : Holds(w, m) => m = k
      BY <2>1 DEF Holds, HasAnswer, k
    <3>2. \A v \in Workers \ {w} : ~Holds(v, k)
      BY <1>0, <2>2 DEF TaskCustody
    <3>3. QED
      BY <3>1, <3>2
  <2>6. PoolTypeOK' /\ Placement'
    BY <1>0, <2>1, <2>3 DEF PoolTypeOK, Placement
  <2>7. Delivered' = Delivered
    BY <2>1 DEF Delivered
  <2>8. TaskCustody'
    BY <1>0, <2>1, <2>2, <2>3, <2>4, <2>5, <2>7 DEF TaskCustody
  <2>9. LeaveAtEnd'
    BY <1>0, <2>1, <2>4 DEF LeaveAtEnd
  <2>10. ShutdownOrder'
    BY <1>0, <2>1 DEF ShutdownOrder
  <2>11. QED
    BY <2>6, <2>8, <2>9, <2>10
<1>5. QED
  BY <1>1, <1>2, <1>3, <1>4

LEMMA ShutdownKeeps ==
  ASSUME PInv, ShutdownClose \/ ShutdownClosed \/ JoinNext \/ FreePool
  PROVE  PoolTypeOK' /\ Placement' /\ TaskCustody' /\ LeaveAtEnd' /\ ShutdownOrder'
<1>0. /\ pc \in [Threads -> {"idle", "lock", "wait"} \cup Locked] /\ ok \in [Threads -> BOOLEAN]
      /\ op \in [Threads -> Ops] /\ Workers \subseteq Threads
      /\ Submitters \subseteq Threads /\ Owner \in Threads /\ Owner \notin Workers
      /\ PoolTypeOK /\ Placement /\ TaskCustody /\ LeaveAtEnd /\ ShutdownOrder
  BY CInvTypes, Roles DEF PInv
<1>1. /\ UNCHANGED <<ok, out, sent, received, closed, offered>> /\ UNCHANGED <<worker, task, heap, runs>>
      /\ \A w \in Workers : pc'[w] = pc[w] /\ op'[w] = op[w]
  BY <1>0 DEF ShutdownClose, StartClose, Call, Goto, ShutdownClosed, JoinNext, FreePool,
              chvars, calls, replies, history
<1>2. /\ \A w \in Workers : (HasAnswer(w)' <=> HasAnswer(w)) /\ (SeesEnd(w)' <=> SeesEnd(w))
      /\ \A w \in Workers, m \in Messages : Holds(w, m)' <=> Holds(w, m)
  BY <1>1 DEF HasAnswer, SeesEnd, Holds
<1>3. Delivered' = Delivered
  BY <1>1 DEF Delivered
<1>4. TaskCustody' /\ LeaveAtEnd'
  BY <1>0, <1>1, <1>2, <1>3 DEF TaskCustody, LeaveAtEnd
<1>5. Placement'
  <2>1. op' = op \/ op' = [op EXCEPT ![Owner] = "close"]
    BY DEF ShutdownClose, StartClose, Call, ShutdownClosed, JoinNext, FreePool, chvars, calls
  <2>2. QED
    BY <1>0, <1>1, <2>1 DEF Placement
<1>6. PoolTypeOK' /\ ShutdownOrder'
  <2>1. CASE ShutdownClose
    <3>1. /\ \A t \in Submitters : pc[t] = "idle"
          /\ stage = "open" /\ stage' = "close" /\ pc[Owner] = "idle"
          /\ pc' = [pc EXCEPT ![Owner] = "lock"] /\ joined' = joined
      BY <2>1 DEF ShutdownClose, StartClose, Call, Goto
    <3>2. PoolTypeOK'
      BY <1>0, <1>1, <3>1 DEF PoolTypeOK
    <3>3. QED
      BY <1>0, <1>1, <3>1, <3>2, RolesAssumption DEF ShutdownOrder
  <2>2. CASE ShutdownClosed
    <3>1. /\ stage = "close" /\ stage' = "join" /\ pc[Owner] = "idle" /\ pc' = pc /\ joined' = joined
      BY <2>2 DEF ShutdownClosed, chvars, calls
    <3>2. QED
      BY <1>0, <1>1, <3>1 DEF PoolTypeOK, ShutdownOrder
  <2>3. CASE JoinNext
    <3>1. /\ stage = "join" /\ joined < NumWorkers /\ worker[joined + 1] = "exit"
          /\ joined' = joined + 1 /\ stage' = stage /\ pc' = pc
      BY <2>3 DEF JoinNext, chvars, calls
    <3>2. joined \in 0..NumWorkers /\ NumWorkers \in Nat
      BY <1>0, WorkersAssumption DEF PoolTypeOK
    <3>3. \A w \in Workers : w <= joined + 1 => worker[w] = "exit"
      <4>1. \A w \in Workers : w <= joined + 1 => w <= joined \/ w = joined + 1
        BY <3>2 DEF Workers
      <4>2. QED
        BY <1>0, <3>1, <4>1 DEF ShutdownOrder
    <3>4. PoolTypeOK'
      BY <1>0, <1>1, <3>1, <3>2 DEF PoolTypeOK
    <3>5. QED
      BY <1>0, <1>1, <3>1, <3>3, <3>4 DEF ShutdownOrder
  <2>4. CASE FreePool
    <3>1. /\ stage = "join" /\ stage' = "freed" /\ joined = NumWorkers /\ pc' = pc /\ joined' = joined
      BY <2>4 DEF FreePool, chvars, calls
    <3>2. QED
      BY <1>0, <1>1, <3>1 DEF PoolTypeOK, ShutdownOrder
  <2>5. QED
    BY <2>1, <2>2, <2>3, <2>4
<1>7. QED
  BY <1>4, <1>5, <1>6

LEMMA PoolNextInv == PInv /\ [PoolNext]_vars => PInv'
<1> SUFFICES ASSUME PInv, [PoolNext]_vars PROVE PInv'
  OBVIOUS
<1> DEFINE Rest == PoolTypeOK /\ Placement /\ TaskCustody /\ LeaveAtEnd /\ ShutdownOrder
<1>0. CInv' /\ SentOnce' /\ [Next]_chvars
  BY CInvNext, NextSentOnce, PoolStepIsChannelStep DEF PInv
<1>1. ASSUME NEW t \in Submitters \cup {Owner}, NEW m \in Messages, OutsideSubmit(t, m) PROVE Rest'
  <2>1. t \in Threads /\ t \notin Workers
    BY Roles
  <2>2. QED
    BY <1>1, <2>1, SubmitKeeps DEF OutsideSubmit
<1>2. ASSUME NEW w \in Workers, NEW m \in Messages, TaskSubmit(w, m) PROVE Rest'
  <2>1. w \in Threads
    BY Roles
  <2>2. QED
    BY <1>2, <2>1, SubmitKeeps DEF TaskSubmit
<1>3. ASSUME NEW w \in Workers, WorkerRecv(w) \/ WorkerGotTask(w) \/ WorkerExit(w) \/ WorkerDone(w)
      PROVE  Rest'
  BY <1>3, WorkerKeeps
<1>4. ASSUME ShutdownClose \/ ShutdownClosed \/ JoinNext \/ FreePool PROVE Rest'
  BY <1>4, ShutdownKeeps
<1>5. ASSUME NEW t \in Threads, ChannelStep(t) PROVE Rest'
  BY <1>0, <1>5, ChannelKeepsCustody, ChannelKeepsRest
<1>6. ASSUME PoolGone \/ UNCHANGED vars PROVE Rest'
  <2>1. UNCHANGED <<pc, op, ok, out, sent, received, closed, offered>>
    BY <1>6 DEF PoolGone, vars, chvars, calls, replies, history
  <2>2. UNCHANGED <<worker, task, heap, runs, stage, joined>>
    BY <1>6 DEF PoolGone, vars, poolvars
  <2>3. QED
    BY <2>1, <2>2
       DEF PInv, PoolTypeOK, Placement, TaskCustody, Holds, HasAnswer, Delivered,
           LeaveAtEnd, SeesEnd, ShutdownOrder
<1>7. Rest'
  BY <1>1, <1>2, <1>3, <1>4, <1>5, <1>6 DEF PoolNext, WorkerStep
<1>8. QED
  BY <1>0, <1>7 DEF PInv

LEMMA PInvHolds == PoolSpec => []PInv
BY PoolInitInv, PoolNextInv, PTL DEF PoolSpec

-----------------------------------------------------------------------------
(* What follows from it.                                                    *)

\* A worker runs a task that is still allocated and that no other worker runs:
\* free(task) of _nr_pool_worker is neither early nor repeated.
THEOREM TaskOwnershipCorrect == PoolSpec => []TaskOwnership
<1>1. PInv => TaskOwnership
  <2> SUFFICES ASSUME PInv, NEW w \in Workers, worker[w] = "run"
               PROVE  /\ task[w] \in heap
                      /\ runs[task[w]] = 0
                      /\ \A v \in Workers \ {w} : worker[v] = "run" => task[v] # task[w]
    BY DEF TaskOwnership
  <2>1. task[w] \in Messages /\ Holds(w, task[w])
    BY DEF PInv, TaskCustody, Holds
  <2>2. task[w] \in Delivered /\ runs[task[w]] = 0
    BY <2>1 DEF PInv, TaskCustody
  <2>3. task[w] \in heap
    BY <2>1, <2>2, AcceptedDelivered DEF PInv, TaskCustody, SentOnce
  <2>4. ASSUME NEW v \in Workers \ {w}, worker[v] = "run", task[v] = task[w] PROVE FALSE
    BY <2>1, <2>4 DEF PInv, TaskCustody, Holds
  <2>5. QED
    BY <2>2, <2>3, <2>4
<1>2. QED
  BY <1>1, PInvHolds, PTL

LEMMA FreedMeansGone ==
  ASSUME PInv, stage = "freed"
  PROVE  /\ \A w \in Workers : worker[w] = "exit"
         /\ \A t \in Threads : pc[t] = "idle"
<1>1. \A w \in Workers : worker[w] = "exit"
  BY WorkersAssumption DEF PInv, ShutdownOrder, Workers
<1>2. \A w \in Workers : pc[w] = "idle"
  BY <1>1 DEF PInv, Placement
<1>3. \A t \in Submitters \cup {Owner} : pc[t] = "idle"
  BY DEF PInv, ShutdownOrder
<1>4. QED
  BY <1>1, <1>2, <1>3, Roles

\* nr_pool_shutdown frees the channel when nobody is inside its functions, holds
\* its mutex or sleeps on it.
THEOREM QuiescentCorrect == PoolSpec => []QuiescentWhenFreed
<1>1. PInv => QuiescentWhenFreed
  <2> SUFFICES ASSUME PInv, stage = "freed"
               PROVE  /\ \A w \in Workers : worker[w] = "exit"
                      /\ \A t \in Threads : pc[t] = "idle"
                      /\ lock = NoThread /\ notEmpty = {} /\ notFull = {}
    BY DEF QuiescentWhenFreed
  <2>1. /\ \A w \in Workers : worker[w] = "exit"
        /\ \A t \in Threads : pc[t] = "idle"
    BY FreedMeansGone
  <2>2. lock \in Threads \cup {NoThread} /\ notEmpty \subseteq Threads /\ notFull \subseteq Threads
    BY DEF PInv, CInv, SInv, TInv, TypeOK
  <2>3. lock = NoThread
    BY <2>1, <2>2 DEF PInv, CInv, SInv, Mutex, Locked
  <2>4. notEmpty = {} /\ notFull = {}
    BY <2>1, <2>2 DEF PInv, CInv, SInv, Sleepers
  <2>5. QED
    BY <2>1, <2>3, <2>4
<1>2. QED
  BY <1>1, PInvHolds, PTL

\* Every task the channel accepted has been run once and freed when the pool is
\* gone.
THEOREM AcceptedTasksCorrect == PoolSpec => []AcceptedTasksRun
<1>1. PInv => AcceptedTasksRun
  <2> SUFFICES ASSUME PInv, stage = "freed", NEW m \in Accepted PROVE runs[m] = 1 /\ m \notin heap
    BY DEF AcceptedTasksRun
  <2>1. \A w \in Workers : worker[w] = "exit"
    BY FreedMeansGone
  <2>2. 1 \in Workers
    BY WorkersAssumption DEF Workers
  <2>3. sent = received
    BY <2>1, <2>2 DEF PInv, LeaveAtEnd, SeesEnd
  <2>4. m \in Delivered /\ m \in Messages
    BY <2>3, AcceptedDelivered DEF PInv, Accepted, Delivered
  <2>5. ~ \E w \in Workers : Holds(w, m)
    BY <2>1 DEF Holds, HasAnswer
  <2>6. runs[m] \in {0, 1} /\ runs[m] # 0
    BY <2>4, <2>5 DEF PInv, PoolTypeOK, TaskCustody
  <2>7. QED
    BY <2>4, <2>6 DEF PInv, TaskCustody
<1>2. QED
  BY <1>1, PInvHolds, PTL
=============================================================================
