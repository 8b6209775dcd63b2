---------------------------- MODULE ChannelProofs ----------------------------
(***************************************************************************)
(* Proofs about Channel, for any sets of threads and any capacity: types,   *)
(* FIFO delivery and the end of the stream, then mutual exclusion, wakeups  *)
(* and the refinement of the atomic queue for finite sets of threads.       *)
(***************************************************************************)
EXTENDS Channel, SequenceTheorems, FiniteSetTheorems, TLAPS

-----------------------------------------------------------------------------
(* Type correctness.  A thread inside send carries a message to send; that   *)
(* is what makes sent a sequence of messages.                               *)

SendersCarry == \A t \in Threads : op[t] = "send" => msg[t] \in Messages

TInv == TypeOK /\ SendersCarry

LEMMA InitTInv == Init => TInv
<1> SUFFICES ASSUME Init PROVE TInv
  OBVIOUS
<1>1. sent \in Seq(Messages) /\ received \in Seq(Messages \cup {NoMessage})
  BY DEF Init
<1>2. op \in [Threads -> Ops] /\ pc \in [Threads -> {"idle", "lock", "wait"} \cup Locked]
  BY DEF Init, Ops
<1>3. buffer \in [0..Cap-1 -> Messages \cup {NoMessage}]
  BY DEF Init
<1>4. head \in 0..Cap-1 /\ tail \in 0..Cap-1 /\ count \in 0..Cap
  BY CapAssumption DEF Init
<1>5. SendersCarry
  BY DEF Init, SendersCarry
<1>6. QED
  BY <1>1, <1>2, <1>3, <1>4, <1>5 DEF Init, TInv, TypeOK

LEMMA NextTInv == TInv /\ [Next]_chvars => TInv'
<1> USE CapAssumption DEF TInv, TypeOK, SendersCarry, Locked, Ops, RecvOps, Threads,
        ring, sync, calls, replies, history
<1> SUFFICES ASSUME TInv, [Next]_chvars PROVE TInv'
  OBVIOUS
<1>1. CASE UNCHANGED chvars
  BY <1>1 DEF chvars
<1>2. ASSUME NEW t \in Producers, NEW m \in Messages, StartSend(t, m) PROVE TInv'
  BY <1>2 DEF StartSend, Call, Goto
<1>3. ASSUME NEW t \in Consumers, NEW o \in ConsumerCalls, StartRecv(t, o) PROVE TInv'
  BY <1>3, CallsAssumption DEF StartRecv, Call, Goto
<1>4. ASSUME NEW t \in Closers, StartClose(t) PROVE TInv'
  BY <1>4 DEF StartClose, Call, Goto
<1>5. ASSUME NEW t \in Threads, Acquire(t) PROVE TInv'
  BY <1>5 DEF Acquire, Goto
<1>6. ASSUME NEW t \in Threads, Unlock(t) PROVE TInv'
  BY <1>6 DEF Unlock, Goto
<1>7. ASSUME NEW t \in Threads, SpuriousWakeup(t) PROVE TInv'
  BY <1>7 DEF SpuriousWakeup, Goto
<1>8. ASSUME NEW t \in Threads, Signal(t) PROVE TInv'
  <2>1. pc' \in [Threads -> {"idle", "lock", "wait"} \cup Locked]
    BY <1>8 DEF Signal, SignalNotEmpty, SignalNotFull, Broadcast, WakeFrom
  <2>2. notEmpty' \subseteq Threads /\ notFull' \subseteq Threads
    BY <1>8 DEF Signal, SignalNotEmpty, SignalNotFull, Broadcast, WakeFrom
  <2>3. UNCHANGED <<ring, closed, lock, op, msg, replies, history>>
    BY <1>8 DEF Signal
  <2>4. QED
    BY <2>1, <2>2, <2>3
<1>9. ASSUME NEW t \in Threads, SendWait(t) PROVE TInv'
  BY <1>9 DEF SendWait, Sleep, Goto
<1>10. ASSUME NEW t \in Threads, SendRefused(t) PROVE TInv'
  BY <1>10 DEF SendRefused, Answer, Goto
<1>11. ASSUME NEW t \in Threads, SendPut(t) PROVE TInv'
  BY <1>11 DEF SendPut, Room, Full, NextSlot, Answer, Goto
<1>12. ASSUME NEW t \in Threads, RecvWait(t) PROVE TInv'
  BY <1>12 DEF RecvWait, Sleep, Goto
<1>13. ASSUME NEW t \in Threads, RecvClosed(t) PROVE TInv'
  BY <1>13 DEF RecvClosed, Answer, Goto
<1>14. ASSUME NEW t \in Threads, RecvTake(t) PROVE TInv'
  BY <1>14 DEF RecvTake, NextSlot, Answer, Goto
<1>15. ASSUME NEW t \in Threads, CloseSet(t) PROVE TInv'
  BY <1>15 DEF CloseSet, Answer, Goto
<1>16. ASSUME NEW t \in Threads, HasData(t) PROVE TInv'
  BY <1>16 DEF HasData, Pending, Answer, Goto
<1>17. QED
  BY <1>1, <1>2, <1>3, <1>4, <1>5, <1>6, <1>7, <1>8, <1>9, <1>10, <1>11, <1>12,
     <1>13, <1>14, <1>15, <1>16 DEF Next, Step

THEOREM TInvHolds == Spec => []TInv
BY InitTInv, NextTInv, PTL DEF Spec

\* Every field of the channel and every thread stays in its range, for any
\* number of threads and any capacity.
THEOREM TypeCorrect == Spec => []TypeOK
<1>1. TInv => TypeOK
  BY DEF TInv
<1>2. QED
  BY <1>1, TInvHolds, PTL

-----------------------------------------------------------------------------
(* Ring arithmetic.  Indices stay below 2 * Cap before they are reduced.     *)

Wrap(x) == x % Cap

LEMMA WrapValue ==
  ASSUME NEW x \in Nat, x < 2 * Cap
  PROVE  Wrap(x) = IF x < Cap THEN x ELSE x - Cap
<1>1. Cap \in Nat \ {0} /\ x \in Nat /\ x < 2 * Cap
  BY CapAssumption
<1>2. QED
  BY <1>1 DEF Wrap

\* Slot(h, k) is where the element after the next k elements is, from head h on.
Slot(h, k) == Wrap(h + k)

LEMMA SlotValue ==
  ASSUME NEW h \in 0..Cap-1, NEW k \in 0..Cap
  PROVE  /\ Slot(h, k) = IF h + k < Cap THEN h + k ELSE h + k - Cap
         /\ Slot(h, k) \in 0..Cap-1
BY CapAssumption, WrapValue DEF Slot

\* The slot after slot k is slot k + 1, from the same head or from the next one.
LEMMA SlotNext ==
  ASSUME NEW h \in 0..Cap-1, NEW k \in 0..Cap-1
  PROVE  /\ NextSlot(Slot(h, k)) = Slot(h, k + 1)
         /\ NextSlot(h) \in 0..Cap-1
         /\ Slot(NextSlot(h), k) = Slot(h, k + 1)
<1>1. NextSlot(Slot(h, k)) = Wrap(Slot(h, k) + 1) /\ NextSlot(h) = Wrap(h + 1)
  BY DEF NextSlot, Wrap
<1>2. Wrap(h + 1) = IF h + 1 < Cap THEN h + 1 ELSE 0
  BY CapAssumption, WrapValue
<1>3. NextSlot(h) \in 0..Cap-1
  BY <1>1, <1>2, CapAssumption
<1>a. h \in 0..Cap-1 /\ k \in 0..Cap /\ k + 1 \in 0..Cap /\ NextSlot(h) \in 0..Cap-1
  BY <1>3, CapAssumption
<1>4. /\ Slot(h, k) = IF h + k < Cap THEN h + k ELSE h + k - Cap
      /\ Slot(h, k) \in 0..Cap-1
  BY <1>a, SlotValue, Zenon
<1>b. Slot(h, k + 1) = IF h + (k + 1) < Cap THEN h + (k + 1) ELSE h + (k + 1) - Cap
  BY <1>a, SlotValue, Zenon
<1>5. NextSlot(Slot(h, k)) = Slot(h, k + 1)
  <2>1. Wrap(Slot(h, k) + 1) = IF Slot(h, k) + 1 < Cap THEN Slot(h, k) + 1 ELSE Slot(h, k) + 1 - Cap
    BY <1>4, CapAssumption, WrapValue
  <2>2. QED
    BY <1>1, <1>4, <1>b, <2>1, CapAssumption
<1>6. Slot(NextSlot(h), k) = Slot(h, k + 1)
  <2>1. Slot(NextSlot(h), k) = IF NextSlot(h) + k < Cap THEN NextSlot(h) + k ELSE NextSlot(h) + k - Cap
    BY <1>a, SlotValue, Zenon
  <2>2. QED
    BY <1>1, <1>2, <1>b, <2>1, CapAssumption
<1>7. QED
  BY <1>3, <1>5, <1>6

\* Different slots are different: an element in the ring is not overwritten.
LEMMA SlotInjective ==
  ASSUME NEW h \in 0..Cap-1, NEW i \in 0..Cap-1, NEW j \in 0..Cap-1,
         Slot(h, i) = Slot(h, j)
  PROVE  i = j
<1>0. h \in 0..Cap-1 /\ i \in 0..Cap /\ j \in 0..Cap
  BY CapAssumption
<1>1. /\ Slot(h, i) = IF h + i < Cap THEN h + i ELSE h + i - Cap
      /\ Slot(h, j) = IF h + j < Cap THEN h + j ELSE h + j - Cap
  BY <1>0, SlotValue, Zenon
<1>2. h \in Int /\ i \in 0..Cap-1 /\ j \in 0..Cap-1 /\ Cap \in Int
  BY CapAssumption
<1>3. QED
  <2> DEFINE a == Slot(h, i)
             b == Slot(h, j)
  <2>1. /\ a = IF h + i < Cap THEN h + i ELSE h + i - Cap
        /\ b = IF h + j < Cap THEN h + j ELSE h + j - Cap
        /\ a = b
    BY <1>1
  <2> HIDE DEF a, b
  <2>2. QED
    BY <1>2, <2>1

\* Facts on sequences that FIFO order comes down to.
LEMMA AppendConcat ==
  ASSUME NEW S, NEW a \in Seq(S), NEW b \in Seq(S), NEW e \in S
  PROVE  Append(a \o b, e) = a \o Append(b, e)
OBVIOUS

LEMMA ConcatAppend ==
  ASSUME NEW S, NEW a \in Seq(S), NEW b \in Seq(S), NEW e \in S
  PROVE  a \o (<<e>> \o b) = Append(a, e) \o b
<1> DEFINE left  == a \o (<<e>> \o b)
           right == Append(a, e) \o b
<1>1. /\ <<e>> \o b \in Seq(S) /\ Len(<<e>> \o b) = 1 + Len(b)
      /\ (<<e>> \o b)[1] = e
      /\ \A j \in 2..(1 + Len(b)) : (<<e>> \o b)[j] = b[j - 1]
  OBVIOUS
<1>2. /\ Append(a, e) \in Seq(S) /\ Len(Append(a, e)) = Len(a) + 1
      /\ Append(a, e)[Len(a) + 1] = e
      /\ \A j \in 1..Len(a) : Append(a, e)[j] = a[j]
  OBVIOUS
<1>3. left \in Seq(S) /\ Len(left) = Len(a) + 1 + Len(b)
  BY <1>1
<1>4. right \in Seq(S) /\ Len(right) = Len(a) + 1 + Len(b)
  BY <1>2
<1>5. ASSUME NEW k \in 1..Len(left) PROVE left[k] = right[k]
  <2>1. CASE k \in 1..Len(a)
    BY <1>1, <1>2, <2>1
  <2>2. CASE k = Len(a) + 1
    BY <1>1, <1>2, <2>2
  <2>3. CASE k > Len(a) + 1
    BY <1>1, <1>2, <1>3, <2>3
  <2>4. QED
    BY <1>3, <2>1, <2>2, <2>3
<1>6. QED
  BY <1>3, <1>4, <1>5

-----------------------------------------------------------------------------
(* FIFO order.  The tail is where the next element after the contents goes.  *)

Elements == Messages \cup {NoMessage}

TailAfterContents == tail = Slot(head, count)

FInv == TInv /\ TailAfterContents /\ FifoDelivery

ContentsInv ==
  /\ Contents \in Seq(Elements)
  /\ Len(Contents) = count
  /\ \A i \in 1..count : Contents[i] = buffer[Slot(head, i - 1)]

LEMMA ContentsType == TInv => ContentsInv
<1> SUFFICES ASSUME TInv PROVE ContentsInv
  OBVIOUS
<1>1. count \in 0..Cap /\ head \in 0..Cap-1 /\ buffer \in [0..Cap-1 -> Elements] /\ Cap \in Nat
  BY CapAssumption DEF TInv, TypeOK, Elements
<1>2. ASSUME NEW i \in 1..count
      PROVE  /\ buffer[(head + i - 1) % Cap] = buffer[Slot(head, i - 1)]
             /\ buffer[Slot(head, i - 1)] \in Elements
  <2>1. i - 1 \in 0..Cap /\ head + i - 1 = head + (i - 1)
    BY <1>1
  <2>2. Slot(head, i - 1) \in 0..Cap-1
    BY <1>1, <2>1, SlotValue
  <2>3. QED
    BY <1>1, <2>1, <2>2 DEF Slot, Wrap
<1>3. Contents = [i \in 1..count |-> buffer[Slot(head, i - 1)]]
  BY <1>2 DEF Contents
<1>4. count \in Nat /\ DOMAIN Contents = 1..count
  BY <1>1, <1>3
<1>5. \A i \in 1..count : Contents[i] = buffer[Slot(head, i - 1)] /\ Contents[i] \in Elements
  BY <1>2, <1>3
<1>6. Contents \in [1..count -> Elements]
  BY <1>2, <1>3
<1>7. Contents \in Seq(Elements) /\ Len(Contents) = count
  BY <1>4, <1>6
<1>8. QED
  BY <1>5, <1>7 DEF ContentsInv

\* What send does to the ring, and what it does to the contents.
LEMMA PutContents ==
  ASSUME FInv, NEW t \in Threads, SendPut(t)
  PROVE  /\ TailAfterContents'
         /\ Contents' = Append(Contents, msg[t])
         /\ ContentsInv /\ ContentsInv'
<1>1. /\ count \in 0..Cap-1 /\ head \in 0..Cap-1 /\ tail \in 0..Cap-1
      /\ head' = head /\ count' = count + 1 /\ tail' = NextSlot(tail)
      /\ msg[t] \in Messages
      /\ buffer' = [buffer EXCEPT ![tail] = msg[t]]
      /\ buffer \in [0..Cap-1 -> Elements]
      /\ tail = Slot(head, count)
  BY CapAssumption
     DEF SendPut, Room, Full, FInv, TInv, TypeOK, SendersCarry, Elements,
         TailAfterContents
<1>2. TailAfterContents'
  BY <1>1, SlotNext DEF TailAfterContents
<1>3. ContentsInv /\ ContentsInv'
  <2>1. TInv /\ TInv'
    BY NextTInv DEF FInv, Next, Step
  <2>2. QED
    BY <2>1, ContentsType, PTL
<1>4. Contents' = Append(Contents, msg[t])
  <2> DEFINE new == Append(Contents, msg[t])
  <2>1. /\ new \in Seq(Elements) /\ Len(new) = count + 1
        /\ \A i \in 1..count : new[i] = Contents[i]
        /\ new[count + 1] = msg[t]
    BY <1>1, <1>3, AppendProperties DEF ContentsInv, Elements
  <2>2. ASSUME NEW i \in 1..count PROVE Contents'[i] = Contents[i]
    <3>1. i - 1 \in 0..Cap-1 /\ i - 1 # count
      BY <1>1, CapAssumption
    <3>2. Slot(head, i - 1) # tail /\ Slot(head, i - 1) \in 0..Cap-1
      <4>1. i - 1 \in 0..Cap /\ count \in 0..Cap-1 /\ head \in 0..Cap-1
        BY <3>1, <1>1, CapAssumption
      <4>2. Slot(head, i - 1) # Slot(head, count)
        BY <3>1, <4>1, SlotInjective
      <4>3. QED
        BY <1>1, <4>1, <4>2, SlotValue
    <3>3. QED
      BY <1>1, <1>3, <3>2 DEF ContentsInv
  <2>3. Contents'[count + 1] = msg[t]
    <3>1. Contents'[count + 1] = buffer'[Slot(head, count)]
      BY <1>1, <1>3 DEF ContentsInv
    <3>2. QED
      BY <1>1, <3>1
  <2>4. Contents' \in Seq(Elements) /\ Len(Contents') = count + 1
    BY <1>1, <1>3 DEF ContentsInv
  <2>5. \A i \in 1..(count + 1) : Contents'[i] = new[i]
    BY <2>1, <2>2, <2>3, <1>1
  <2>6. Contents' = new
    <3> HIDE DEF new
    <3> QED BY <2>1, <2>4, <2>5, SeqEqual
  <2>7. QED
    BY <2>6
<1>5. QED
  BY <1>2, <1>3, <1>4

LEMMA PutKeepsFifo ==
  ASSUME FInv, NEW t \in Threads, SendPut(t)
  PROVE  FifoDelivery'
<1>1. /\ msg[t] \in Messages /\ received \in Seq(Elements)
      /\ sent' = Append(sent, msg[t]) /\ received' = received
      /\ sent = received \o Contents
  BY DEF SendPut, FInv, TInv, TypeOK, SendersCarry, Elements, FifoDelivery
<1>2. Contents' = Append(Contents, msg[t]) /\ Contents \in Seq(Elements)
  BY PutContents DEF ContentsInv
<1>3. Append(received \o Contents, msg[t]) = received \o Append(Contents, msg[t])
  <2>1. msg[t] \in Elements /\ received \in Seq(Elements) /\ Contents \in Seq(Elements)
    BY <1>1, <1>2 DEF Elements
  <2>2. QED
    BY <2>1, AppendConcat
<1>4. QED
  BY <1>1, <1>2, <1>3 DEF FifoDelivery

\* The same for recv.
LEMMA TakeContents ==
  ASSUME FInv, NEW t \in Threads, RecvTake(t)
  PROVE  /\ TailAfterContents'
         /\ buffer[head] \in Elements
         /\ Contents = <<buffer[head]>> \o Contents'
         /\ ContentsInv /\ ContentsInv'
<1>1. /\ count \in 1..Cap /\ head \in 0..Cap-1
      /\ head' = NextSlot(head) /\ count' = count - 1 /\ tail' = tail
      /\ buffer' = buffer /\ buffer \in [0..Cap-1 -> Elements]
      /\ tail = Slot(head, count)
  BY CapAssumption
     DEF RecvTake, FInv, TInv, TypeOK, Elements, TailAfterContents
<1>2. \A k \in 0..(count - 1) : Slot(head', k) = Slot(head, k + 1)
  BY <1>1, SlotNext, CapAssumption
<1>3. TailAfterContents'
  <2>1. count - 1 \in 0..(count - 1) /\ (count - 1) + 1 = count
    BY <1>1
  <2>2. QED
    BY <1>1, <1>2, <2>1 DEF TailAfterContents
<1>4. ContentsInv /\ ContentsInv'
  <2>1. TInv /\ TInv'
    BY NextTInv DEF FInv, Next, Step
  <2>2. QED
    BY <2>1, ContentsType, PTL
<1>5. buffer[head] \in Elements /\ Contents[1] = buffer[head]
  <2>1. Slot(head, 0) = head
    BY <1>1, SlotValue, CapAssumption
  <2>2. buffer[head] \in Elements
    BY <1>1
  <2>3. 1 \in 1..count /\ 1 - 1 = 0
    BY <1>1
  <2>4. Contents[1] = buffer[Slot(head, 1 - 1)]
    BY <1>4, <2>3 DEF ContentsInv
  <2>5. QED
    BY <2>1, <2>2, <2>3, <2>4
<1>6. Contents = <<buffer[head]>> \o Contents'
  <2> DEFINE old == <<buffer[head]>> \o Contents'
  <2>1. Contents' \in Seq(Elements) /\ Len(Contents') = count - 1
    BY <1>1, <1>4 DEF ContentsInv
  <2>2. /\ old \in Seq(Elements) /\ Len(old) = count
        /\ old[1] = buffer[head]
        /\ \A i \in 2..count : old[i] = Contents'[i - 1]
    BY <1>1, <1>5, <2>1
  <2>3. ASSUME NEW i \in 2..count PROVE Contents'[i - 1] = Contents[i]
    <3>1. /\ i - 1 \in 1..(count - 1) /\ i - 2 \in 0..(count - 1)
          /\ (i - 1) - 1 = i - 2 /\ (i - 2) + 1 = i - 1
      BY <1>1
    <3>2. Slot(head', i - 2) = Slot(head, i - 1)
      BY <1>2, <3>1
    <3>3. Contents'[i - 1] = buffer'[Slot(head', i - 2)]
      BY <1>1, <1>4, <3>1 DEF ContentsInv
    <3>4. Contents[i] = buffer[Slot(head, i - 1)]
      BY <1>1, <1>4 DEF ContentsInv
    <3>5. QED
      BY <1>1, <3>2, <3>3, <3>4
  <2>4. \A i \in 1..count : Contents[i] = old[i]
    BY <1>1, <1>5, <2>2, <2>3
  <2>5. Contents = old
    <3> HIDE DEF old
    <3> QED BY <1>4, <2>2, <2>4, SeqEqual DEF ContentsInv
  <2>6. QED
    BY <2>5
<1>7. QED
  BY <1>3, <1>4, <1>5, <1>6

LEMMA TakeKeepsFifo ==
  ASSUME FInv, NEW t \in Threads, RecvTake(t)
  PROVE  FifoDelivery'
<1>1. /\ received \in Seq(Elements)
      /\ sent' = sent /\ received' = Append(received, buffer[head])
      /\ sent = received \o Contents
  BY DEF RecvTake, FInv, TInv, TypeOK, Elements, FifoDelivery
<1>2. /\ buffer[head] \in Elements /\ Contents' \in Seq(Elements)
      /\ Contents = <<buffer[head]>> \o Contents'
  BY TakeContents DEF ContentsInv
<1>3. received \o (<<buffer[head]>> \o Contents') = Append(received, buffer[head]) \o Contents'
  BY <1>1, <1>2, ConcatAppend
<1>4. QED
  BY <1>1, <1>2, <1>3 DEF FifoDelivery

LEMMA InitFInv == Init => FInv
<1> SUFFICES ASSUME Init PROVE FInv
  OBVIOUS
<1>1. TInv
  BY InitTInv
<1>2. TailAfterContents
  BY CapAssumption, SlotValue DEF Init, TailAfterContents
<1>3. FifoDelivery
  <2>1. Contents \in Seq(Elements) /\ Len(Contents) = 0
    BY <1>1, ContentsType DEF Init, ContentsInv
  <2>2. Contents = << >>
    BY <2>1
  <2>3. QED
    BY <2>2 DEF Init, FifoDelivery
<1>4. QED
  BY <1>1, <1>2, <1>3 DEF FInv

\* Only send and recv touch the ring and the two histories.
LEMMA NextFInv == FInv /\ [Next]_chvars => FInv'
<1> SUFFICES ASSUME FInv, [Next]_chvars PROVE FInv'
  OBVIOUS
<1>1. TInv'
  BY NextTInv DEF FInv
<1>2. ASSUME UNCHANGED <<ring, sent, received>> PROVE FInv'
  <2>1. Contents' = Contents
    BY <1>2 DEF ring, Contents
  <2>2. FifoDelivery'
    BY <1>2, <2>1 DEF FInv, FifoDelivery
  <2>3. TailAfterContents'
    BY <1>2 DEF FInv, TailAfterContents, ring
  <2>4. QED
    BY <1>1, <2>2, <2>3 DEF FInv
<1>3. ASSUME NEW t \in Threads, SendPut(t) PROVE FInv'
  BY <1>1, <1>3, PutContents, PutKeepsFifo DEF FInv
<1>4. ASSUME NEW t \in Threads, RecvTake(t) PROVE FInv'
  BY <1>1, <1>4, TakeContents, TakeKeepsFifo DEF FInv
<1>5. ASSUME NEW t \in Threads,
             \/ Acquire(t) \/ SpuriousWakeup(t) \/ SendWait(t) \/ SendRefused(t)
             \/ RecvWait(t) \/ RecvClosed(t) \/ CloseSet(t) \/ HasData(t)
             \/ Signal(t) \/ Unlock(t)
      PROVE  UNCHANGED <<ring, sent, received>>
  BY <1>5 DEF Acquire, SpuriousWakeup, SendWait, Sleep, SendRefused, RecvWait, RecvClosed,
              CloseSet, HasData, Signal, Unlock, history
<1>6. ASSUME NEW t \in Threads, NEW o, NEW m, Call(t, o, m)
      PROVE  UNCHANGED <<ring, sent, received>>
  BY <1>6 DEF Call
<1>7. CASE UNCHANGED chvars
  BY <1>2, <1>7 DEF chvars, history
<1>8. CASE Next
  BY <1>2, <1>3, <1>4, <1>5, <1>6, <1>8
     DEF Next, Step, StartSend, StartRecv, StartClose, Threads
<1>9. QED
  BY <1>7, <1>8

\* The ring is a FIFO queue: what was received, followed by what the ring
\* holds, is what was sent, for any capacity and any number of threads.
THEOREM FifoCorrect == Spec => []FifoDelivery
<1>1. FInv => FifoDelivery
  BY DEF FInv
<1>2. QED
  BY <1>1, InitFInv, NextFInv, PTL DEF Spec

-----------------------------------------------------------------------------
(* End of stream.                                                           *)

\* Only a call that changed something signals.
SignalsSucceed == \A t \in Threads : pc[t] = "signal" => ok[t]

EInv == FInv /\ SignalsSucceed /\ EndOfStream

LEMMA EmptyMeansAllReceived ==
  ASSUME FInv PROVE (count = 0 <=> sent = received)
<1>1. /\ Contents \in Seq(Elements) /\ Len(Contents) = count
      /\ received \in Seq(Elements) /\ sent = received \o Contents
  BY ContentsType DEF FInv, TInv, TypeOK, ContentsInv, FifoDelivery, Elements
<1>2. Len(sent) = Len(received) + count
  BY <1>1, ConcatProperties
<1>3. CASE count = 0
  BY <1>1, <1>3, Contents = << >>
<1>4. CASE sent = received
  BY <1>1, <1>2, <1>4
<1>5. QED
  BY <1>1, <1>3, <1>4

LEMMA NextSignalsSucceed == TInv /\ SignalsSucceed /\ [Next]_chvars => SignalsSucceed'
<1> SUFFICES ASSUME TInv, SignalsSucceed, [Next]_chvars PROVE SignalsSucceed'
  OBVIOUS
<1> USE DEF SignalsSucceed
<1>0. pc \in [Threads -> {"idle", "lock", "wait"} \cup Locked] /\ ok \in [Threads -> BOOLEAN]
  BY DEF TInv, TypeOK
<1>1. CASE UNCHANGED chvars
  BY <1>1 DEF chvars, calls, replies
<1>2. ASSUME NEW u \in Threads, NEW o, NEW m, Call(u, o, m) PROVE SignalsSucceed'
  BY <1>0, <1>2 DEF Call, Goto, replies
<1>3. ASSUME NEW u \in Threads,
             Acquire(u) \/ Unlock(u) \/ SendWait(u) \/ RecvWait(u) \/ SpuriousWakeup(u)
      PROVE SignalsSucceed'
  BY <1>0, <1>3
     DEF Acquire, Unlock, SendWait, RecvWait, Sleep, SpuriousWakeup, Goto, replies
<1>4. ASSUME NEW u \in Threads,
             SendRefused(u) \/ RecvClosed(u) \/ HasData(u) \/ CloseSet(u) \/ SendPut(u) \/ RecvTake(u)
      PROVE SignalsSucceed'
  BY <1>0, <1>4
     DEF SendRefused, RecvClosed, HasData, CloseSet, SendPut, RecvTake, Answer, Goto
<1>5. ASSUME NEW u \in Threads, Signal(u) PROVE SignalsSucceed'
  BY <1>0, <1>5 DEF Signal, SignalNotEmpty, SignalNotFull, Broadcast, WakeFrom, replies
<1>6. CASE Next
  BY <1>2, <1>3, <1>4, <1>5, <1>6
     DEF Next, Step, StartSend, StartRecv, StartClose, Threads
<1>7. QED
  BY <1>1, <1>6

LEMMA NextEInv == EInv /\ [Next]_chvars => EInv'
<1> SUFFICES ASSUME EInv, [Next]_chvars PROVE EndOfStream'
  BY NextFInv, NextSignalsSucceed DEF EInv, FInv
<1> DEFINE Ended(t) == op[t] \in RecvOps /\ ~ok[t] /\ pc[t] = "unlock"
<1>0. /\ \A t \in Threads : Ended(t) => closed /\ sent = received
      /\ count = 0 <=> sent = received
      /\ pc \in [Threads -> {"idle", "lock", "wait"} \cup Locked]
      /\ op \in [Threads -> Ops] /\ ok \in [Threads -> BOOLEAN]
  BY EmptyMeansAllReceived DEF EInv, EndOfStream, FInv, TInv, TypeOK
<1>1. ASSUME UNCHANGED <<closed, sent, received>>,
             NEW u \in Threads, Ended(u)' => closed /\ sent = received,
             \A t \in Threads \ {u} : Ended(t)' => Ended(t)
      PROVE  EndOfStream'
  BY <1>0, <1>1 DEF EndOfStream
<1>2. CASE UNCHANGED chvars
  BY <1>0, <1>2 DEF chvars, history, calls, replies, EndOfStream
<1>3. ASSUME NEW u \in Threads, NEW o, NEW m, Call(u, o, m) PROVE EndOfStream'
  BY <1>0, <1>1, <1>3 DEF Call, Goto, replies
<1>4. ASSUME NEW u \in Threads,
             Acquire(u) \/ Unlock(u) \/ SendWait(u) \/ RecvWait(u) \/ SpuriousWakeup(u)
      PROVE EndOfStream'
  BY <1>0, <1>1, <1>4
     DEF Acquire, Unlock, SendWait, RecvWait, Sleep, SpuriousWakeup, Goto, replies, history
<1>5. ASSUME NEW u \in Threads, SendRefused(u) \/ RecvClosed(u) \/ HasData(u)
      PROVE EndOfStream'
  BY <1>0, <1>1, <1>5
     DEF SendRefused, RecvClosed, AtEnd, HasData, Answer, Goto, RecvOps, history
<1>6. ASSUME NEW u \in Threads, CloseSet(u) PROVE EndOfStream'
  BY <1>0, <1>6 DEF CloseSet, Answer, Goto, RecvOps, history, EndOfStream
<1>7. ASSUME NEW u \in Threads, SendPut(u) PROVE EndOfStream'
  BY <1>0, <1>7 DEF SendPut, Room, Answer, Goto, RecvOps, EndOfStream
<1>8. ASSUME NEW u \in Threads, RecvTake(u) PROVE EndOfStream'
  BY <1>0, <1>8 DEF RecvTake, Answer, Goto, EndOfStream
<1>9. ASSUME NEW u \in Threads, Signal(u) PROVE EndOfStream'
  <2>1. UNCHANGED <<closed, sent, received>> /\ UNCHANGED <<op, ok>>
    BY <1>9 DEF Signal, replies, history
  <2>2. \A t \in Threads \ {u} : pc'[t] = "unlock" => pc[t] = "unlock"
    BY <1>0, <1>9 DEF Signal, SignalNotEmpty, SignalNotFull, Broadcast, WakeFrom
  <2>3. Ended(u)' => closed /\ sent = received
    BY <1>9, <2>1 DEF Signal, EInv, SignalsSucceed
  <2>4. QED
    BY <1>1, <2>1, <2>2, <2>3
<1>10. CASE Next
  BY <1>3, <1>4, <1>5, <1>6, <1>7, <1>8, <1>9, <1>10
     DEF Next, Step, StartSend, StartRecv, StartClose, Threads
<1>11. QED
  BY <1>2, <1>10

\* A recv that answers 0 has seen the end of the stream.
THEOREM EndOfStreamCorrect == Spec => []EndOfStream
<1>1. Init => EInv
  BY InitFInv DEF EInv, SignalsSucceed, EndOfStream, Init
<1>2. EInv => EndOfStream
  BY DEF EInv
<1>3. QED
  BY <1>1, <1>2, NextEInv, PTL DEF Spec

-----------------------------------------------------------------------------
(* The mutex and the wait sets.                                             *)

\* The threads between "test" and "unlock" are the holder of the mutex.
Mutex == \A t \in Threads : pc[t] \in Locked <=> lock = t

\* The wait sets hold the threads that sleep: receivers on one, senders on
\* the other.
Sleepers ==
  /\ \A t \in Threads : pc[t] = "wait" <=> t \in notEmpty \cup notFull
  /\ \A t \in notEmpty : op[t] \in RecvOps
  /\ \A t \in notFull : op[t] = "send"

SInv == TInv /\ Mutex /\ Sleepers

LEMMA InitSInv == Init => SInv
<1> SUFFICES ASSUME Init PROVE SInv
  OBVIOUS
<1>1. TInv
  BY InitTInv
<1>2. Mutex /\ Sleepers
  BY ThreadsAssumption DEF Init, Mutex, Sleepers, Locked
<1>3. QED
  BY <1>1, <1>2 DEF SInv

\* A step of t that leaves the other threads and the wait sets alone.
LEMMA OneThreadMoves ==
  ASSUME SInv, TInv', NEW t \in Threads,
         \A u \in Threads \ {t} : pc'[u] = pc[u] /\ op'[u] = op[u],
         UNCHANGED <<notEmpty, notFull>>, t \notin notEmpty \cup notFull,
         pc'[t] # "wait",
         pc'[t] \in Locked <=> lock' = t,
         \/ lock' = lock
         \/ lock = NoThread /\ lock' = t
         \/ lock = t /\ lock' = NoThread
  PROVE  SInv'
<1>1. /\ lock \in Threads \cup {NoThread} /\ NoThread \notin Threads
      /\ notEmpty \subseteq Threads /\ notFull \subseteq Threads
  BY ThreadsAssumption DEF SInv, TInv, TypeOK
<1>2. Mutex'
  BY <1>1 DEF SInv, Mutex
<1>3. Sleepers'
  BY <1>1 DEF SInv, Sleepers
<1>4. QED
  BY <1>2, <1>3 DEF SInv

LEMMA NextSInv == SInv /\ [Next]_chvars => SInv'
<1> SUFFICES ASSUME SInv, [Next]_chvars PROVE SInv'
  OBVIOUS
<1>0. /\ TInv' /\ Mutex /\ Sleepers
      /\ pc \in [Threads -> {"idle", "lock", "wait"} \cup Locked]
      /\ op \in [Threads -> Ops]
      /\ lock \in Threads \cup {NoThread} /\ NoThread \notin Threads
      /\ notEmpty \subseteq Threads /\ notFull \subseteq Threads
  BY NextTInv, ThreadsAssumption DEF SInv, TInv, TypeOK
<1>1. CASE UNCHANGED chvars
  <2>1. UNCHANGED <<pc, op, lock, notEmpty, notFull>>
    BY <1>1 DEF chvars, calls, sync
  <2>2. QED
    BY <1>0, <2>1 DEF SInv, Mutex, Sleepers
<1>2. ASSUME NEW t \in Threads, NEW o, NEW m, Call(t, o, m) PROVE SInv'
  <2>1. /\ pc[t] = "idle" /\ pc' = [pc EXCEPT ![t] = "lock"] /\ op' = [op EXCEPT ![t] = o]
        /\ UNCHANGED <<lock, notEmpty, notFull>>
    BY <1>2 DEF Call, Goto, sync
  <2>2. QED
    BY <1>0, <2>1, OneThreadMoves DEF Mutex, Sleepers, Locked
<1>3. ASSUME NEW t \in Threads, Acquire(t) \/ Unlock(t) PROVE SInv'
  BY <1>0, <1>3, OneThreadMoves DEF Acquire, Unlock, Goto, Mutex, Sleepers, Locked
<1>4. ASSUME NEW t \in Threads,
             \/ SendRefused(t) \/ SendPut(t) \/ RecvClosed(t) \/ RecvTake(t)
             \/ CloseSet(t) \/ HasData(t)
      PROVE  SInv'
  <2>1. /\ pc[t] = "test" /\ \E l \in {"signal", "unlock"} : pc' = [pc EXCEPT ![t] = l]
        /\ UNCHANGED <<op, lock, notEmpty, notFull>>
    BY <1>4 DEF SendRefused, SendPut, RecvClosed, RecvTake, CloseSet, HasData, Goto, sync
  <2>2. QED
    BY <1>0, <2>1, OneThreadMoves DEF Mutex, Sleepers, Locked
<1>5. ASSUME NEW t \in Threads, SendWait(t) \/ RecvWait(t) PROVE SInv'
  <2>1. /\ pc[t] = "test" /\ pc' = [pc EXCEPT ![t] = "wait"] /\ lock' = NoThread
        /\ op' = op
        /\ \/ op[t] = "send" /\ notFull' = notFull \cup {t} /\ notEmpty' = notEmpty
           \/ op[t] \in RecvOps /\ notEmpty' = notEmpty \cup {t} /\ notFull' = notFull
    BY <1>5 DEF SendWait, RecvWait, Sleep, Goto
  <2>2. Mutex'
    BY <1>0, <2>1 DEF Mutex, Locked
  <2>3. Sleepers'
    BY <1>0, <2>1 DEF Sleepers
  <2>4. QED
    BY <1>0, <2>2, <2>3 DEF SInv
<1>6. ASSUME NEW t \in Threads, SpuriousWakeup(t) PROVE SInv'
  <2>1. Mutex'
    BY <1>0, <1>6 DEF SpuriousWakeup, Goto, Mutex, Sleepers, Locked
  <2>2. Sleepers'
    BY <1>0, <1>6 DEF SpuriousWakeup, Goto, Sleepers
  <2>3. QED
    BY <1>0, <2>1, <2>2 DEF SInv
<1>7. ASSUME NEW t \in Threads, Signal(t) PROVE SInv'
  <2>1. PICK woken \in SUBSET (notEmpty \cup notFull) :
          /\ WakeFrom(woken, t)
          /\ notEmpty' = notEmpty \ woken /\ notFull' = notFull \ woken
    <3>1. CASE SignalNotEmpty(t)
      <4>1. CASE notEmpty = {} /\ notEmpty' = {} /\ WakeFrom({}, t)
        BY <3>1, <4>1 DEF SignalNotEmpty
      <4>2. CASE \E w \in notEmpty : notEmpty' = notEmpty \ {w} /\ WakeFrom({w}, t)
        <5>1. PICK w \in notEmpty : notEmpty' = notEmpty \ {w} /\ WakeFrom({w}, t)
          BY <4>2
        <5>2. w \notin notFull
          BY <1>0, <5>1 DEF Sleepers, RecvOps
        <5>3. QED
          BY <3>1, <5>1, <5>2 DEF SignalNotEmpty
      <4>3. QED
        BY <3>1, <4>1, <4>2 DEF SignalNotEmpty
    <3>2. CASE SignalNotFull(t)
      <4>1. CASE notFull = {} /\ notFull' = {} /\ WakeFrom({}, t)
        BY <3>2, <4>1 DEF SignalNotFull
      <4>2. CASE \E w \in notFull : notFull' = notFull \ {w} /\ WakeFrom({w}, t)
        <5>1. PICK w \in notFull : notFull' = notFull \ {w} /\ WakeFrom({w}, t)
          BY <4>2
        <5>2. w \notin notEmpty
          BY <1>0, <5>1 DEF Sleepers, RecvOps
        <5>3. QED
          BY <3>2, <5>1, <5>2 DEF SignalNotFull
      <4>3. QED
        BY <3>2, <4>1, <4>2 DEF SignalNotFull
    <3>3. CASE Broadcast(t)
      BY <3>3 DEF Broadcast
    <3>4. QED
      BY <1>7, <3>1, <3>2, <3>3 DEF Signal
  <2>2. pc[t] = "signal" /\ UNCHANGED <<op, lock>>
    BY <1>7 DEF Signal
  <2>3. pc' = [u \in Threads |-> IF u = t THEN "unlock" ELSE IF u \in woken THEN "lock" ELSE pc[u]]
    BY <2>1 DEF WakeFrom
  <2>4. \A u \in Threads : u \in woken => pc[u] = "wait"
    BY <1>0, <2>1 DEF Sleepers
  <2>5. Mutex'
    BY <1>0, <2>2, <2>3, <2>4 DEF Mutex, Locked
  <2>6. Sleepers'
    BY <1>0, <2>1, <2>2, <2>3, <2>4 DEF Sleepers
  <2>7. QED
    BY <1>0, <2>5, <2>6 DEF SInv
<1>8. CASE Next
  BY <1>2, <1>3, <1>4, <1>5, <1>6, <1>7, <1>8
     DEF Next, Step, StartSend, StartRecv, StartClose, Threads
<1>9. QED
  BY <1>1, <1>8

\* At most one thread is between the lock and the unlock of a channel function.
THEOREM MutualExclusion == Spec => []Mutex
<1>1. SInv => Mutex
  BY DEF SInv
<1>2. QED
  BY <1>1, InitSInv, NextSInv, PTL DEF Spec

-----------------------------------------------------------------------------
(* No wakeup is lost.                                                       *)

NInv == SInv /\ NoLostWakeup

\* The number of receivers (senders) that account for elements (free slots).
Takers == Cardinality(Awake(RecvOps)) + Cardinality(Signalling({"send"}))
Givers == Cardinality(Awake({"send"})) + Cardinality(Signalling(RecvOps))

\* The sets of threads NoLostWakeup counts are finite, so they are counted by
\* natural numbers, and more threads make a larger number.
LEMMA CountThreads ==
  ASSUME NEW A, NEW B, A \subseteq B, B \subseteq Threads
  PROVE  /\ Cardinality(A) \in Nat /\ Cardinality(B) \in Nat
         /\ Cardinality(A) <= Cardinality(B)
<1>1. IsFiniteSet(B)
  BY ThreadsAssumption, FS_Subset
<1>2. IsFiniteSet(A)
  BY <1>1, FS_Subset
<1>3. QED
  BY <1>1, <1>2, FS_Subset, FS_CardinalityType

LEMMA CountOneMore ==
  ASSUME NEW A, A \subseteq Threads, NEW t \in Threads, t \notin A
  PROVE  Cardinality(A \cup {t}) = Cardinality(A) + 1
BY ThreadsAssumption, FS_Subset, FS_AddElement

LEMMA CountsAreNatural == Takers \in Nat /\ Givers \in Nat
BY CountThreads DEF Takers, Givers, Awake, Signalling

\* A step that wakes threads, or none, and changes neither the ring nor closed.
LEMMA WakingKeeps ==
  ASSUME NInv, UNCHANGED <<count, closed>>,
         notEmpty' \subseteq notEmpty, notFull' \subseteq notFull,
         Awake(RecvOps) \subseteq Awake(RecvOps)', Awake({"send"}) \subseteq Awake({"send"})',
         UNCHANGED <<Signalling(RecvOps), Signalling({"send"}), Signalling({"close"})>>
  PROVE  NoLostWakeup'
<1>1. Awake(RecvOps)' \subseteq Threads /\ Awake({"send"})' \subseteq Threads
  BY DEF Awake
<1>2. Signalling(RecvOps) \subseteq Threads /\ Signalling({"send"}) \subseteq Threads
  BY DEF Signalling
<1>3. Takers <= Takers' /\ Givers <= Givers'
  BY <1>1, <1>2, CountThreads DEF Takers, Givers
<1>4. Takers \in Nat /\ Takers' \in Nat /\ Givers \in Nat /\ Givers' \in Nat
  BY <1>1, <1>2, CountThreads DEF Takers, Givers, Awake
<1>5. count \in 0..Cap /\ Cap \in Nat
  BY CapAssumption DEF NInv, SInv, TInv, TypeOK
<1>6. /\ notEmpty # {} => count <= Takers
      /\ notFull # {} => Cap - count <= Givers
      /\ closed /\ notEmpty \cup notFull # {} => Signalling({"close"}) # {}
  BY DEF NInv, NoLostWakeup, Takers, Givers
<1>7. /\ notEmpty' # {} => count' <= Takers'
      /\ notFull' # {} => Cap - count' <= Givers'
      /\ closed' /\ notEmpty' \cup notFull' # {} => Signalling({"close"})' # {}
  BY <1>3, <1>4, <1>5, <1>6
<1>8. QED
  BY <1>7 DEF NoLostWakeup, Takers, Givers

\* Once the channel is closed, a thread that tests it finds nobody asleep: the
\* closing thread kept the mutex until the broadcast was out.
LEMMA ClosedMeansAwake ==
  ASSUME NInv, NEW t \in Threads, pc[t] = "test", closed
  PROVE  notEmpty = {} /\ notFull = {}
<1>1. ASSUME NEW u \in Signalling({"close"}) PROVE FALSE
  <2>1. u \in Threads /\ pc[u] = "signal"
    BY DEF Signalling
  <2>2. lock = u /\ lock = t
    BY <2>1 DEF NInv, SInv, Mutex, Locked
  <2>3. QED
    BY <2>1, <2>2
<1>2. QED
  BY <1>1 DEF NInv, NoLostWakeup

LEMMA NobodyAsleep ==
  ASSUME notEmpty' = {}, notFull' = {} PROVE NoLostWakeup'
BY DEF NoLostWakeup

\* The element that send adds is covered by the signal that send will give.
LEMMA PutKeeps ==
  ASSUME NInv, NEW t \in Threads, SendPut(t)
  PROVE  NoLostWakeup'
<1>1. /\ pc[t] = "test" /\ op[t] = "send" /\ ~closed /\ count \in 0..Cap-1
      /\ pc' = [pc EXCEPT ![t] = "signal"] /\ count' = count + 1
      /\ UNCHANGED <<closed, notEmpty, notFull, op>>
      /\ pc \in [Threads -> {"idle", "lock", "wait"} \cup Locked]
  BY CapAssumption DEF SendPut, Room, Full, Goto, sync, NInv, SInv, TInv, TypeOK
<1>2. /\ Awake(RecvOps)' = Awake(RecvOps) /\ Signalling(RecvOps)' = Signalling(RecvOps)
      /\ Signalling({"send"})' = Signalling({"send"}) \cup {t}
      /\ Awake({"send"}) = Awake({"send"})' \cup {t}
      /\ t \notin Signalling({"send"}) /\ t \notin Awake({"send"})'
  BY <1>1 DEF Awake, Signalling, RecvOps
<1>3. /\ Awake({"send"})' \subseteq Threads /\ Signalling({"send"}) \subseteq Threads
      /\ Awake(RecvOps) \subseteq Threads /\ Signalling(RecvOps) \subseteq Threads
  BY DEF Awake, Signalling
<1>4. /\ Cardinality(Signalling({"send"})') = Cardinality(Signalling({"send"})) + 1
      /\ Cardinality(Awake({"send"})) = Cardinality(Awake({"send"})') + 1
  BY <1>2, <1>3, CountOneMore
<1>5. /\ Cardinality(Awake({"send"})') \in Nat /\ Cardinality(Signalling({"send"})) \in Nat
      /\ Cardinality(Awake(RecvOps)) \in Nat /\ Cardinality(Signalling(RecvOps)) \in Nat
  BY <1>3, CountThreads
<1>6. Takers' = Takers + 1 /\ Givers = Givers' + 1 /\ Takers \in Nat /\ Givers' \in Nat
  BY <1>2, <1>4, <1>5 DEF Takers, Givers
<1>7. /\ notEmpty # {} => count <= Takers
      /\ notFull # {} => Cap - count <= Givers
  BY DEF NInv, NoLostWakeup, Takers, Givers
<1>8. /\ notEmpty' # {} => count' <= Takers'
      /\ notFull' # {} => Cap - count' <= Givers'
  <2>1. PICK m \in Nat, n \in Nat : m = Takers /\ n = Givers'
    BY <1>6
  <2>2. /\ count <= m => count + 1 <= m + 1
        /\ Cap - count <= n + 1 => Cap - (count + 1) <= n
    BY <1>1, CapAssumption
  <2>3. QED
    BY <1>1, <1>6, <1>7, <2>1, <2>2
<1>9. QED
  BY <1>1, <1>8 DEF NoLostWakeup, Takers, Givers

\* The slot that recv frees is covered by the signal that recv will give.
LEMMA TakeKeeps ==
  ASSUME NInv, NEW t \in Threads, RecvTake(t)
  PROVE  NoLostWakeup'
<1>1. /\ pc[t] = "test" /\ op[t] \in RecvOps /\ count \in 1..Cap
      /\ pc' = [pc EXCEPT ![t] = "signal"] /\ count' = count - 1
      /\ UNCHANGED <<closed, notEmpty, notFull, op>>
      /\ pc \in [Threads -> {"idle", "lock", "wait"} \cup Locked]
  BY CapAssumption DEF RecvTake, Goto, sync, NInv, SInv, TInv, TypeOK
<1>2. /\ Awake({"send"})' = Awake({"send"}) /\ Signalling({"send"})' = Signalling({"send"})
      /\ Signalling(RecvOps)' = Signalling(RecvOps) \cup {t}
      /\ Awake(RecvOps) = Awake(RecvOps)' \cup {t}
      /\ t \notin Signalling(RecvOps) /\ t \notin Awake(RecvOps)'
  BY <1>1 DEF Awake, Signalling, RecvOps
<1>3. /\ Awake(RecvOps)' \subseteq Threads /\ Signalling(RecvOps) \subseteq Threads
      /\ Awake({"send"}) \subseteq Threads /\ Signalling({"send"}) \subseteq Threads
  BY DEF Awake, Signalling
<1>4. /\ Cardinality(Signalling(RecvOps)') = Cardinality(Signalling(RecvOps)) + 1
      /\ Cardinality(Awake(RecvOps)) = Cardinality(Awake(RecvOps)') + 1
  BY <1>2, <1>3, CountOneMore
<1>5. /\ Cardinality(Awake(RecvOps)') \in Nat /\ Cardinality(Signalling(RecvOps)) \in Nat
      /\ Cardinality(Awake({"send"})) \in Nat /\ Cardinality(Signalling({"send"})) \in Nat
  BY <1>3, CountThreads
<1>6. Givers' = Givers + 1 /\ Takers = Takers' + 1 /\ Givers \in Nat /\ Takers' \in Nat
  BY <1>2, <1>4, <1>5 DEF Takers, Givers
<1>7. /\ notEmpty # {} => count <= Takers
      /\ notFull # {} => Cap - count <= Givers
      /\ closed => notEmpty = {} /\ notFull = {}
  BY <1>1, ClosedMeansAwake DEF NInv, NoLostWakeup, Takers, Givers
<1>8. /\ notEmpty' # {} => count' <= Takers'
      /\ notFull' # {} => Cap - count' <= Givers'
  <2>1. PICK m \in Nat, n \in Nat : m = Takers' /\ n = Givers
    BY <1>6
  <2>2. /\ count <= m + 1 => count - 1 <= m
        /\ Cap - count <= n => Cap - (count - 1) <= n + 1
    BY <1>1, CapAssumption
  <2>3. QED
    BY <1>1, <1>6, <1>7, <2>1, <2>2
<1>9. QED
  BY <1>1, <1>7, <1>8 DEF NoLostWakeup, Takers, Givers

\* A signal is spent on a sleeper, who is awake from then on, or on nobody,
\* when nobody sleeps.
LEMMA SignalKeeps ==
  ASSUME NInv, NEW t \in Threads, Signal(t)
  PROVE  NoLostWakeup'
<1>1. /\ pc[t] = "signal" /\ UNCHANGED <<count, closed, op>>
      /\ pc \in [Threads -> {"idle", "lock", "wait"} \cup Locked]
      /\ Sleepers /\ notEmpty \subseteq Threads /\ notFull \subseteq Threads
      /\ count \in 0..Cap /\ Cap \in Nat
  BY CapAssumption DEF Signal, ring, NInv, SInv, TInv, TypeOK
<1>2. /\ notEmpty # {} => count <= Takers
      /\ notFull # {} => Cap - count <= Givers
      /\ closed /\ notEmpty \cup notFull # {} => Signalling({"close"}) # {}
  BY DEF NInv, NoLostWakeup, Takers, Givers
<1>3. CASE op[t] = "send" /\ SignalNotEmpty(t)
  <2>1. CASE notEmpty = {} /\ notEmpty' = {} /\ WakeFrom({}, t)
    <3>1. /\ notFull' = notFull
          /\ pc' = [pc EXCEPT ![t] = "unlock"]
      BY <1>1, <1>3, <2>1 DEF SignalNotEmpty, WakeFrom
    <3>2. /\ Awake({"send"})' = Awake({"send"}) /\ Signalling(RecvOps)' = Signalling(RecvOps)
          /\ Signalling({"close"})' = Signalling({"close"})
      BY <1>1, <1>3, <3>1 DEF Awake, Signalling, RecvOps
    <3>3. QED
      BY <1>1, <1>2, <2>1, <3>1, <3>2 DEF NoLostWakeup, Takers, Givers
  <2>2. CASE \E w \in notEmpty : notEmpty' = notEmpty \ {w} /\ WakeFrom({w}, t)
    <3>1. PICK w \in notEmpty : notEmpty' = notEmpty \ {w} /\ WakeFrom({w}, t)
      BY <2>2
    <3>2. /\ notFull' = notFull /\ w \in Threads /\ pc[w] = "wait" /\ op[w] \in RecvOps
          /\ pc' = [pc EXCEPT ![t] = "unlock", ![w] = "lock"]
      BY <1>1, <1>3, <3>1 DEF SignalNotEmpty, WakeFrom, Sleepers
    <3>3. /\ Awake({"send"})' = Awake({"send"}) /\ Signalling(RecvOps)' = Signalling(RecvOps)
          /\ Signalling({"close"})' = Signalling({"close"})
          /\ Awake(RecvOps)' = Awake(RecvOps) \cup {w} /\ w \notin Awake(RecvOps)
          /\ Signalling({"send"}) = Signalling({"send"})' \cup {t} /\ t \notin Signalling({"send"})'
      BY <1>1, <1>3, <3>2 DEF Awake, Signalling, RecvOps
    <3>4. /\ Awake(RecvOps) \subseteq Threads /\ Signalling({"send"})' \subseteq Threads
      BY DEF Awake, Signalling
    <3>5. /\ Cardinality(Awake(RecvOps)') = Cardinality(Awake(RecvOps)) + 1
          /\ Cardinality(Signalling({"send"})) = Cardinality(Signalling({"send"})') + 1
          /\ Cardinality(Awake(RecvOps)) \in Nat /\ Cardinality(Signalling({"send"})') \in Nat
      BY <3>2, <3>3, <3>4, CountOneMore, CountThreads
    <3>6. Takers' = Takers /\ Givers' = Givers
      BY <3>3, <3>5 DEF Takers, Givers
    <3>7. QED
      BY <1>1, <1>2, <3>1, <3>2, <3>3, <3>6 DEF NoLostWakeup, Takers, Givers
  <2>3. QED
    BY <1>3, <2>1, <2>2 DEF SignalNotEmpty
<1>4. CASE op[t] \in RecvOps /\ SignalNotFull(t)
  <2>1. CASE notFull = {} /\ notFull' = {} /\ WakeFrom({}, t)
    <3>1. /\ notEmpty' = notEmpty
          /\ pc' = [pc EXCEPT ![t] = "unlock"]
      BY <1>1, <1>4, <2>1 DEF SignalNotFull, WakeFrom
    <3>2. /\ Awake(RecvOps)' = Awake(RecvOps) /\ Signalling({"send"})' = Signalling({"send"})
          /\ Signalling({"close"})' = Signalling({"close"})
      BY <1>1, <1>4, <3>1 DEF Awake, Signalling, RecvOps
    <3>3. QED
      BY <1>1, <1>2, <2>1, <3>1, <3>2 DEF NoLostWakeup, Takers, Givers
  <2>2. CASE \E w \in notFull : notFull' = notFull \ {w} /\ WakeFrom({w}, t)
    <3>1. PICK w \in notFull : notFull' = notFull \ {w} /\ WakeFrom({w}, t)
      BY <2>2
    <3>2. /\ notEmpty' = notEmpty /\ w \in Threads /\ pc[w] = "wait" /\ op[w] = "send"
          /\ pc' = [pc EXCEPT ![t] = "unlock", ![w] = "lock"]
      BY <1>1, <1>4, <3>1 DEF SignalNotFull, WakeFrom, Sleepers
    <3>3. /\ Awake(RecvOps)' = Awake(RecvOps) /\ Signalling({"send"})' = Signalling({"send"})
          /\ Signalling({"close"})' = Signalling({"close"})
          /\ Awake({"send"})' = Awake({"send"}) \cup {w} /\ w \notin Awake({"send"})
          /\ Signalling(RecvOps) = Signalling(RecvOps)' \cup {t} /\ t \notin Signalling(RecvOps)'
      BY <1>1, <1>4, <3>2 DEF Awake, Signalling, RecvOps
    <3>4. /\ Awake({"send"}) \subseteq Threads /\ Signalling(RecvOps)' \subseteq Threads
      BY DEF Awake, Signalling
    <3>5. /\ Cardinality(Awake({"send"})') = Cardinality(Awake({"send"})) + 1
          /\ Cardinality(Signalling(RecvOps)) = Cardinality(Signalling(RecvOps)') + 1
          /\ Cardinality(Awake({"send"})) \in Nat /\ Cardinality(Signalling(RecvOps)') \in Nat
      BY <3>2, <3>3, <3>4, CountOneMore, CountThreads
    <3>6. Takers' = Takers /\ Givers' = Givers
      BY <3>3, <3>5 DEF Takers, Givers
    <3>7. QED
      BY <1>1, <1>2, <3>1, <3>2, <3>3, <3>6 DEF NoLostWakeup, Takers, Givers
  <2>3. QED
    BY <1>4, <2>1, <2>2 DEF SignalNotFull
<1>5. CASE Broadcast(t)
  BY <1>5, NobodyAsleep DEF Broadcast
<1>6. QED
  BY <1>3, <1>4, <1>5 DEF Signal

LEMMA NextNoLostWakeup == NInv /\ [Next]_chvars => NoLostWakeup'
<1> SUFFICES ASSUME NInv, [Next]_chvars PROVE NoLostWakeup'
  OBVIOUS
<1>0. /\ pc \in [Threads -> {"idle", "lock", "wait"} \cup Locked]
      /\ op \in [Threads -> Ops] /\ count \in 0..Cap /\ Cap \in Nat
      /\ Sleepers /\ notEmpty \subseteq Threads /\ notFull \subseteq Threads
  BY CapAssumption DEF NInv, SInv, TInv, TypeOK
<1>1. CASE UNCHANGED chvars
  BY <1>1, WakingKeeps DEF chvars, calls, sync, ring, Awake, Signalling
<1>2. ASSUME NEW t \in Threads, NEW o, NEW m, Call(t, o, m) PROVE NoLostWakeup'
  <2>1. /\ pc[t] = "idle" /\ pc' = [pc EXCEPT ![t] = "lock"] /\ op' = [op EXCEPT ![t] = o]
        /\ UNCHANGED <<count, closed, notEmpty, notFull>>
    BY <1>2 DEF Call, Goto, sync, ring
  <2>2. QED
    BY <1>0, <2>1, WakingKeeps DEF Awake, Signalling
<1>3. ASSUME NEW t \in Threads, Acquire(t) \/ Unlock(t) \/ SpuriousWakeup(t)
      PROVE  NoLostWakeup'
  <2>1. /\ \/ pc[t] = "lock" /\ pc' = [pc EXCEPT ![t] = "test"]
           \/ pc[t] \in {"unlock", "wait"} /\ \E l \in {"lock", "idle"} : pc' = [pc EXCEPT ![t] = l]
        /\ notEmpty' \subseteq notEmpty /\ notFull' \subseteq notFull
        /\ UNCHANGED <<count, closed, op>>
    BY <1>0, <1>3 DEF Acquire, Unlock, SpuriousWakeup, Goto, ring, Sleepers
  <2>2. QED
    BY <1>0, <2>1, WakingKeeps DEF Awake, Signalling
<1>4. ASSUME NEW t \in Threads, SendWait(t) PROVE NoLostWakeup'
  <2>1. /\ pc[t] = "test" /\ op[t] = "send" /\ count = Cap /\ ~closed
        /\ pc' = [pc EXCEPT ![t] = "wait"] /\ UNCHANGED <<count, closed, op, notEmpty>>
    BY <1>4 DEF SendWait, Full, Sleep, Goto, ring
  <2>2. Awake(RecvOps)' = Awake(RecvOps) /\ Signalling({"send"})' = Signalling({"send"})
    BY <1>0, <2>1 DEF Awake, Signalling, RecvOps
  <2>3. Givers' \in Nat
    BY CountThreads DEF Givers, Awake, Signalling
  <2>4. QED
    BY <1>0, <2>1, <2>2, <2>3 DEF NInv, NoLostWakeup, Givers
<1>5. ASSUME NEW t \in Threads, RecvWait(t) PROVE NoLostWakeup'
  <2>1. /\ pc[t] = "test" /\ op[t] \in RecvOps /\ count = 0 /\ ~closed
        /\ pc' = [pc EXCEPT ![t] = "wait"] /\ UNCHANGED <<count, closed, op, notFull>>
    BY <1>5 DEF RecvWait, Sleep, Goto, ring
  <2>2. Awake({"send"})' = Awake({"send"}) /\ Signalling(RecvOps)' = Signalling(RecvOps)
    BY <1>0, <2>1 DEF Awake, Signalling, RecvOps
  <2>3. Takers' \in Nat
    BY CountThreads DEF Takers, Awake, Signalling
  <2>4. QED
    BY <1>0, <2>1, <2>2, <2>3 DEF NInv, NoLostWakeup, Takers
<1>6. ASSUME NEW t \in Threads, SendRefused(t) \/ RecvClosed(t) PROVE NoLostWakeup'
  BY <1>6, ClosedMeansAwake, NobodyAsleep DEF SendRefused, RecvClosed, AtEnd, sync
<1>7. ASSUME NEW t \in Threads, CloseSet(t) PROVE NoLostWakeup'
  <2>1. /\ pc[t] = "test" /\ op[t] = "close"
        /\ pc' = [pc EXCEPT ![t] = "signal"] /\ UNCHANGED <<count, op, notEmpty, notFull>>
    BY <1>7 DEF CloseSet, Goto, ring, sync
  <2>2. /\ Awake({"send"})' = Awake({"send"}) /\ Signalling(RecvOps)' = Signalling(RecvOps)
        /\ Awake(RecvOps)' = Awake(RecvOps) /\ Signalling({"send"})' = Signalling({"send"})
        /\ t \in Signalling({"close"})'
    BY <1>0, <2>1 DEF Awake, Signalling, RecvOps
  <2>3. QED
    BY <2>1, <2>2 DEF NInv, NoLostWakeup
<1>8. ASSUME NEW t \in Threads, HasData(t) PROVE NoLostWakeup'
  <2>1. /\ pc[t] = "test" /\ op[t] = "has_data" /\ pc' = [pc EXCEPT ![t] = "unlock"]
        /\ UNCHANGED <<count, closed, op, notEmpty, notFull>>
    BY <1>8 DEF HasData, Goto, ring, sync
  <2>2. QED
    BY <1>0, <2>1, WakingKeeps DEF Awake, Signalling, RecvOps
<1>9. CASE Next
  BY <1>2, <1>3, <1>4, <1>5, <1>6, <1>7, <1>8, <1>9, PutKeeps, TakeKeeps, SignalKeeps
     DEF Next, Step, StartSend, StartRecv, StartClose, Threads
<1>10. QED
  BY <1>1, <1>9

\* One signal per element is enough: nobody sleeps while there is something for
\* him to do that no awake thread and no coming signal accounts for.
THEOREM NoLostWakeupCorrect == Spec => []NoLostWakeup
<1>1. Init => NInv
  BY InitSInv DEF Init, NInv, NoLostWakeup
<1>2. NInv /\ [Next]_chvars => NInv'
  BY NextSInv, NextNoLostWakeup DEF NInv
<1>3. NInv => NoLostWakeup
  BY DEF NInv
<1>4. QED
  BY <1>1, <1>2, <1>3, PTL DEF Spec

-----------------------------------------------------------------------------
(* A channel is a bounded queue.  A call takes effect at the step of "test"  *)
(* that does not wait; every other step is an invocation, a return, or not   *)
(* seen by the callers.                                                      *)

LInv == FInv /\ SInv

LEMMA PhaseNames ==
  /\ PhaseOf("idle") = "idle"
  /\ PhaseOf("lock") = "pending" /\ PhaseOf("test") = "pending" /\ PhaseOf("wait") = "pending"
  /\ PhaseOf("signal") = "done" /\ PhaseOf("unlock") = "done"
BY DEF PhaseOf

Asked    == {"lock", "test", "wait"}
Answered == {"signal", "unlock"}

\* Moving one thread moves its phase.
LEMMA PhaseStep ==
  ASSUME NEW t \in Threads, pc \in [Threads -> {"idle", "lock", "wait"} \cup Locked],
         NEW l \in {"idle"} \cup Asked \cup Answered, pc' = [pc EXCEPT ![t] = l]
  PROVE  /\ pc[t] = "idle" => Phase[t] = "idle"
         /\ pc[t] \in Asked => Phase[t] = "pending"
         /\ pc[t] \in Answered => Phase[t] = "done"
         /\ l = "idle" => Phase' = [Phase EXCEPT ![t] = "idle"]
         /\ l \in Asked => Phase' = [Phase EXCEPT ![t] = "pending"]
         /\ l \in Answered => Phase' = [Phase EXCEPT ![t] = "done"]
         /\ pc[t] \in Asked /\ l \in Asked => Phase' = Phase
<1>1. /\ Phase = [u \in Threads |-> PhaseOf(pc[u])]
      /\ Phase' = [Phase EXCEPT ![t] = PhaseOf(l)]
      /\ Phase[t] = PhaseOf(pc[t])
  BY DEF Phase
<1>2. /\ \A k \in Asked : PhaseOf(k) = "pending"
      /\ \A k \in Answered : PhaseOf(k) = "done"
      /\ PhaseOf("idle") = "idle"
  BY PhaseNames DEF Asked, Answered
<1> HIDE DEF Phase
<1>3. QED
  BY <1>1, <1>2

LEMMA InitQueue == Init => Queue!Init
<1> SUFFICES ASSUME Init PROVE Queue!Init
  OBVIOUS
<1>1. Contents = << >>
  <2>1. Contents \in Seq(Elements) /\ Len(Contents) = 0
    BY InitTInv, ContentsType DEF Init, ContentsInv
  <2>2. QED
    BY <2>1
<1>2. Phase = [t \in Threads |-> "idle"]
  BY PhaseNames DEF Init, Phase
<1>3. QED
  BY <1>1, <1>2 DEF Init, Queue!Init, Queue!Threads, Threads

LEMMA EmptyContents ==
  ASSUME FInv
  PROVE  /\ Contents \in Seq(Elements) /\ Len(Contents) = count /\ count \in 0..Cap
         /\ Contents = << >> <=> count = 0
<1>1. Contents \in Seq(Elements) /\ Len(Contents) = count /\ count \in 0..Cap
  BY ContentsType DEF FInv, TInv, TypeOK, ContentsInv
<1>2. QED
  BY <1>1, EmptySeq

LEMMA SameContents == ASSUME UNCHANGED ring PROVE Contents' = Contents
BY DEF ring, Contents

LEMMA PutIsPut ==
  ASSUME LInv, NEW t \in Threads, SendPut(t)
  PROVE  Queue!Perform(t)
<1>1. /\ pc[t] = "test" /\ op[t] = "send" /\ ~closed /\ count \in 0..Cap-1
      /\ pc' = [pc EXCEPT ![t] = "signal"]
      /\ ok' = [ok EXCEPT ![t] = TRUE] /\ out' = [out EXCEPT ![t] = NoMessage]
      /\ UNCHANGED <<closed, op, msg>>
      /\ pc \in [Threads -> {"idle", "lock", "wait"} \cup Locked]
  BY CapAssumption
     DEF SendPut, Room, Full, Answer, Goto, LInv, FInv, TInv, TypeOK
<1>2. Phase[t] = "pending" /\ Phase' = [Phase EXCEPT ![t] = "done"]
  BY <1>1, PhaseStep DEF Asked, Answered
<1>3. Contents' = Append(Contents, msg[t]) /\ Len(Contents) = count
  BY PutContents DEF LInv, ContentsInv
<1>4. Queue!Put(t)
  BY <1>1, <1>2, <1>3, CapAssumption DEF Queue!Put, Queue!Answer
<1>5. QED
  BY <1>2, <1>4 DEF Queue!Perform

LEMMA HeadTail ==
  ASSUME NEW S, NEW s \in Seq(S), NEW e \in S
  PROVE  Head(<<e>> \o s) = e /\ Tail(<<e>> \o s) = s /\ <<e>> \o s # << >>
<1> DEFINE w == <<e>> \o s
<1>1. /\ w \in Seq(S) /\ Len(w) = 1 + Len(s) /\ w[1] = e
      /\ \A j \in 1..Len(s) : w[j + 1] = s[j]
  OBVIOUS
<1> HIDE DEF w
<1>2. w # << >> /\ Len(w) # 0 /\ Head(w) = e
  BY <1>1, EmptySeq
<1>3. /\ Tail(w) \in Seq(S) /\ Len(Tail(w)) = Len(s)
      /\ \A j \in 1..Len(s) : Tail(w)[j] = w[j + 1]
  BY <1>1, <1>2, HeadTailProperties
<1>4. Tail(w) = s
  BY <1>1, <1>3, SeqEqual
<1>5. QED
  BY <1>2, <1>4 DEF w

LEMMA TakeIsTake ==
  ASSUME LInv, NEW t \in Threads, RecvTake(t)
  PROVE  Queue!Perform(t)
<1>1. /\ pc[t] = "test" /\ op[t] \in RecvOps
      /\ pc' = [pc EXCEPT ![t] = "signal"]
      /\ ok' = [ok EXCEPT ![t] = TRUE] /\ out' = [out EXCEPT ![t] = buffer[head]]
      /\ UNCHANGED <<closed, op, msg>>
      /\ pc \in [Threads -> {"idle", "lock", "wait"} \cup Locked]
  BY DEF RecvTake, Answer, Goto, LInv, FInv, TInv, TypeOK
<1>2. Phase[t] = "pending" /\ Phase' = [Phase EXCEPT ![t] = "done"]
  BY <1>1, PhaseStep DEF Asked, Answered
<1>3. /\ buffer[head] \in Elements /\ Contents' \in Seq(Elements)
      /\ Contents = <<buffer[head]>> \o Contents'
  BY TakeContents DEF LInv, ContentsInv
<1>4. Head(Contents) = buffer[head] /\ Tail(Contents) = Contents' /\ Contents # << >>
  BY <1>3, HeadTail
<1>5. Queue!Take(t)
  BY <1>1, <1>2, <1>4 DEF Queue!Take, Queue!Answer, Queue!RecvOps, RecvOps
<1>6. QED
  BY <1>2, <1>5 DEF Queue!Perform

\* The other answers leave the ring alone.
LEMMA AnswerIsAnswer ==
  ASSUME LInv, NEW t \in Threads,
         SendRefused(t) \/ RecvClosed(t) \/ CloseSet(t) \/ HasData(t)
  PROVE  Queue!Perform(t)
<1>1. pc[t] = "test" /\ pc \in [Threads -> {"idle", "lock", "wait"} \cup Locked]
  BY DEF SendRefused, RecvClosed, CloseSet, HasData, LInv, FInv, TInv, TypeOK
<1>2. pc' = [pc EXCEPT ![t] = "unlock"] \/ pc' = [pc EXCEPT ![t] = "signal"]
  BY DEF SendRefused, RecvClosed, CloseSet, HasData, Goto
<1>3. Phase[t] = "pending" /\ Phase' = [Phase EXCEPT ![t] = "done"]
  BY <1>1, <1>2, PhaseStep DEF Asked, Answered
<1>4. Contents' = Contents /\ (Contents = << >> <=> count = 0) /\ count \in Nat
  <2>1. FInv /\ UNCHANGED ring
    BY DEF SendRefused, RecvClosed, CloseSet, HasData, LInv
  <2>2. Contents = << >> <=> count = 0
    BY <2>1, EmptyContents
  <2>3. count \in 0..Cap
    BY <2>1, EmptyContents
  <2>4. QED
    BY <2>1, <2>2, <2>3, SameContents, CapAssumption
<1>5. CASE SendRefused(t)
  <2>1. Queue!Refuse(t)
    BY <1>3, <1>4, <1>5 DEF SendRefused, Answer, Queue!Refuse, Queue!Answer
  <2>2. QED
    BY <1>3, <2>1 DEF Queue!Perform
<1>6. CASE RecvClosed(t)
  <2>1. Queue!EndOfStream(t)
    BY <1>3, <1>4, <1>6
       DEF RecvClosed, AtEnd, Answer, Queue!EndOfStream, Queue!Answer, Queue!RecvOps, RecvOps
  <2>2. QED
    BY <1>3, <2>1 DEF Queue!Perform
<1>7. CASE CloseSet(t)
  <2>1. Queue!Close(t)
    BY <1>3, <1>4, <1>7 DEF CloseSet, Answer, Queue!Close, Queue!Answer
  <2>2. QED
    BY <1>3, <2>1 DEF Queue!Perform
<1>8. CASE HasData(t)
  <2>1. Pending <=> Contents # << >>
    BY <1>4 DEF Pending
  <2>2. Queue!Peek(t)
    <3>1. Answer(t, Contents # << >>, NoMessage)
      BY <1>8, <2>1 DEF HasData, Answer
    <3>2. QED
      BY <1>3, <1>4, <1>8, <3>1 DEF HasData, Answer, Queue!Peek, Queue!Answer
  <2>3. QED
    BY <1>3, <2>2 DEF Queue!Perform
<1>9. QED
  BY <1>5, <1>6, <1>7, <1>8

LEMMA CallIsInvoke ==
  ASSUME LInv, NEW t \in Threads, NEW o, NEW m, Call(t, o, m)
  PROVE  Queue!Invoke(t, o, m)
<1>1. /\ pc[t] = "idle" /\ pc' = [pc EXCEPT ![t] = "lock"]
      /\ pc \in [Threads -> {"idle", "lock", "wait"} \cup Locked]
  BY DEF Call, Goto, LInv, FInv, TInv, TypeOK
<1>2. Phase[t] = "idle" /\ Phase' = [Phase EXCEPT ![t] = "pending"]
  BY <1>1, PhaseStep DEF Asked, Answered
<1>3. Contents' = Contents
  BY SameContents DEF Call
<1>4. QED
  BY <1>2, <1>3 DEF Call, replies, Queue!Invoke

LEMMA UnlockIsReturn ==
  ASSUME LInv, NEW t \in Threads, Unlock(t)
  PROVE  Queue!Return(t)
<1> DEFINE label == IF op[t] = "drain" /\ ok[t] THEN "lock" ELSE "idle"
<1>1. /\ pc[t] = "unlock" /\ pc' = [pc EXCEPT ![t] = label]
      /\ pc \in [Threads -> {"idle", "lock", "wait"} \cup Locked]
  BY DEF Unlock, Goto, LInv, FInv, TInv, TypeOK
<1>2. /\ Phase[t] = "done"
      /\ Phase' = [Phase EXCEPT ![t] = IF op[t] = "drain" /\ ok[t] THEN "pending" ELSE "idle"]
  <2>1. CASE op[t] = "drain" /\ ok[t]
    BY <1>1, <2>1, PhaseStep DEF Asked, Answered
  <2>2. CASE ~(op[t] = "drain" /\ ok[t])
    BY <1>1, <2>2, PhaseStep DEF Asked, Answered
  <2>3. QED
    BY <2>1, <2>2
<1> HIDE DEF label
<1>3. Contents' = Contents
  BY SameContents DEF Unlock
<1>4. QED
  BY <1>2, <1>3 DEF Unlock, replies, Queue!Return

\* The steps nobody sees: taking the mutex, falling asleep, waking up.
LEMMA InnerStepsStutter ==
  ASSUME LInv, NEW t \in Threads,
         Acquire(t) \/ SendWait(t) \/ RecvWait(t) \/ SpuriousWakeup(t) \/ Signal(t)
  PROVE  UNCHANGED Queue!qvars
<1>0. /\ pc \in [Threads -> {"idle", "lock", "wait"} \cup Locked] /\ Sleepers
      /\ notEmpty \subseteq Threads /\ notFull \subseteq Threads
  BY DEF LInv, FInv, SInv, TInv, TypeOK
<1>1. UNCHANGED <<ring, closed, op, msg, ok, out>>
  BY DEF Acquire, SendWait, RecvWait, Sleep, SpuriousWakeup, Signal, replies
<1>2. Contents' = Contents
  BY <1>1, SameContents
<1>3. Phase' = Phase
  <2>1. CASE Acquire(t)
    BY <1>0, <2>1, PhaseStep DEF Acquire, Goto, Asked
  <2>2. CASE SendWait(t) \/ RecvWait(t)
    BY <1>0, <2>2, PhaseStep DEF SendWait, RecvWait, Sleep, Goto, Asked
  <2>3. CASE SpuriousWakeup(t)
    BY <1>0, <2>3, PhaseStep DEF SpuriousWakeup, Goto, Sleepers, Asked
  <2>4. CASE Signal(t)
    <3>1. \E woken \in SUBSET (notEmpty \cup notFull) : WakeFrom(woken, t)
      BY <2>4 DEF Signal, SignalNotEmpty, SignalNotFull, Broadcast
    <3>2. PICK woken \in SUBSET (notEmpty \cup notFull) : WakeFrom(woken, t)
      BY <3>1
    <3>3. /\ pc[t] = "signal" /\ pc'[t] = "unlock"
          /\ \A u \in Threads \ {t} : pc'[u] = pc[u] \/ (pc[u] = "wait" /\ pc'[u] = "lock")
      BY <1>0, <2>4, <3>2 DEF Signal, WakeFrom, Sleepers
    <3>4. \A u \in Threads : PhaseOf(pc'[u]) = PhaseOf(pc[u])
      BY <3>3, PhaseNames
    <3>5. QED
      BY <3>4 DEF Phase
  <2>5. QED
    BY <2>1, <2>2, <2>3, <2>4
<1>4. QED
  BY <1>1, <1>2, <1>3 DEF Queue!qvars

LEMMA NextQueue == LInv /\ [Next]_chvars => [Queue!Next]_(Queue!qvars)
<1> SUFFICES ASSUME LInv, [Next]_chvars PROVE [Queue!Next]_(Queue!qvars)
  OBVIOUS
<1>1. CASE UNCHANGED chvars
  <2>1. Contents' = Contents /\ Phase' = Phase
    BY <1>1, SameContents DEF chvars, calls, Phase
  <2>2. QED
    BY <1>1, <2>1 DEF chvars, calls, replies, Queue!qvars
<1>2. ASSUME NEW t \in Producers, NEW m \in Messages, StartSend(t, m) PROVE Queue!Next
  BY <1>2, CallIsInvoke DEF StartSend, Threads, Queue!Next
<1>3. ASSUME NEW t \in Consumers, NEW o \in ConsumerCalls, StartRecv(t, o) PROVE Queue!Next
  BY <1>3, CallIsInvoke, CallsAssumption
     DEF StartRecv, Threads, RecvOps, Queue!RecvOps, Queue!Next
<1>4. ASSUME NEW t \in Closers, StartClose(t) PROVE Queue!Next
  BY <1>4, CallIsInvoke DEF StartClose, Threads, Queue!Next
<1>5. ASSUME NEW t \in Threads,
             \/ SendPut(t) \/ RecvTake(t) \/ SendRefused(t) \/ RecvClosed(t)
             \/ CloseSet(t) \/ HasData(t)
      PROVE  Queue!Next
  <2>1. Queue!Perform(t)
    BY <1>5, PutIsPut, TakeIsTake, AnswerIsAnswer
  <2>2. QED
    BY <2>1 DEF Queue!Next, Queue!Threads, Threads
<1>6. ASSUME NEW t \in Threads, Unlock(t) PROVE Queue!Next
  BY <1>6, UnlockIsReturn DEF Queue!Next, Queue!Threads, Threads
<1>7. CASE Next
  BY <1>2, <1>3, <1>4, <1>5, <1>6, <1>7, InnerStepsStutter DEF Next, Step
<1>8. QED
  BY <1>1, <1>7

\* Every behaviour of the channel is a behaviour of the bounded queue: the calls
\* are linearizable, for any number of threads and any capacity.
THEOREM Linearizable == Spec => LinearizableQueue
<1>1. Init => LInv
  BY InitFInv, InitSInv DEF LInv
<1>2. LInv /\ [Next]_chvars => LInv'
  BY NextFInv, NextSInv DEF LInv
<1>3. QED
  BY <1>1, <1>2, InitQueue, NextQueue, PTL DEF Spec, LinearizableQueue, Queue!Spec
=============================================================================
