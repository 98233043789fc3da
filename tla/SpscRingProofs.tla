--------------------------- MODULE SpscRingProofs ---------------------------
(***************************************************************************)
(* The ring never overwrites an unread record, delivers in order and never *)
(* mistakes concurrency for corruption, for every capacity, every number   *)
(* of records and each of the four pairings of ends.                       *)
(***************************************************************************)
EXTENDS SpscRing, SequenceTheorems, TLAPS

(***************************************************************************)
(* No multiple of C lies strictly between 0 and C.                         *)
(***************************************************************************)
LEMMA NoMultipleBetween ==
    ASSUME NEW C \in Nat, NEW m \in Int, 0 < C * m, C * m < C
    PROVE  FALSE
<1>1. CASE m <= 0
  <2>1. C * m <= 0
    BY <1>1
  <2> QED
    BY <2>1
<1>2. CASE m >= 1
  <2>1. C * m >= C
    BY <1>2
  <2> QED
    BY <2>1
<1> QED
  BY <1>1, <1>2

(***************************************************************************)
(* Two counters less than a full lap apart fall on different slots.        *)
(***************************************************************************)
LEMMA SlotDistinct ==
    ASSUME NEW i \in Nat, NEW j \in Nat, i < j, j - i < Capacity
    PROVE  Slot(i) # Slot(j)
<1>1. SUFFICES ASSUME i % Capacity = j % Capacity PROVE FALSE
  BY DEF Slot
<1>2. PICK q \in Int : i = Capacity * q + (i % Capacity)
  <2>1. i = Capacity * (i \div Capacity) + (i % Capacity)
    BY RingAssumption
  <2>2. i \div Capacity \in Int
    BY RingAssumption
  <2> QED
    BY <2>1, <2>2
<1>3. PICK p \in Int : j = Capacity * p + (j % Capacity)
  <2>1. j = Capacity * (j \div Capacity) + (j % Capacity)
    BY RingAssumption
  <2>2. j \div Capacity \in Int
    BY RingAssumption
  <2> QED
    BY <2>1, <2>2
<1>4. i % Capacity \in Int /\ Capacity * p \in Int /\ Capacity * q \in Int
  BY RingAssumption
<1>5. j - i = Capacity * p - Capacity * q
  BY <1>1, <1>2, <1>3, <1>4
<1>6. Capacity * p - Capacity * q = Capacity * (p - q)
  BY RingAssumption
<1> QED
  BY <1>5, <1>6, NoMultipleBetween, RingAssumption

(***************************************************************************)
(* A counter falls on a slot of the ring.                                  *)
(***************************************************************************)
LEMMA SlotInRange == \A i \in Nat : Slot(i) \in Slots
  BY RingAssumption DEF Slot, Slots

-----------------------------------------------------------------------------
(***************************************************************************)
(* A new ring satisfies the invariant.                                     *)
(***************************************************************************)
LEMMA InitRingInv == Init => RingInv
  BY RingAssumption
  DEF Init, RingInv, TypeOK, ValidCounters, UnreadIntact, DeliveredInOrder,
      PushInv, PopInv, Slots, PushPCs, PopPCs, FlagsOK

(***************************************************************************)
(* Flags and eventfds only ever take Boolean values.                       *)
(***************************************************************************)
LEMMA NextFlags == FlagsOK /\ [Next]_vars => FlagsOK'
<1> SUFFICES ASSUME FlagsOK, [Next]_vars PROVE FlagsOK'
  OBVIOUS
<1> USE DEF FlagsOK, ringVars, pushVars, popVars, closeVars
<1>1. NativeProducer \in BOOLEAN /\ NativeConsumer \in BOOLEAN
  BY RingAssumption DEF NativeProducer, NativeConsumer
<1>2. ASSUME NEW r \in Records, PushStart(r) PROVE FlagsOK'
  BY <1>2, Zenon DEF PushStart
<1>3. CASE PushStep \/ PushTimeout
  BY <1>1, <1>3, Zenon
  DEF PushStep, PushCheck, PushLoad, PushWrite, PushPublish, PushNotify,
      PushFull, PushDrain, PushWake, PushTimeout
<1>4. CASE PopStart \/ PopStep \/ PopTimeout
  BY <1>1, <1>4, Zenon
  DEF PopStep, PopStart, PopLoad, PopCopy, PopRelease, PopNotify, PopEmpty,
      PopDrain, PopWake, PopTimeout
<1>5. CASE CloseFlag \/ CloseNotifyData \/ CloseNotifySpace
  BY <1>5, Zenon DEF CloseFlag, CloseNotifyData, CloseNotifySpace
<1>6. CASE UNCHANGED vars
  BY <1>6, Zenon DEF vars
<1> QED
  BY <1>2, <1>3, <1>4, <1>5, <1>6 DEF Next

(***************************************************************************)
(* Writing the next record disturbs no unread one: the slot it goes to     *)
(* belongs to no counter between consumer and producer.                    *)
(***************************************************************************)
LEMMA PushWriteInv == RingInv /\ PushWrite => RingInv'
<1> SUFFICES ASSUME RingInv, PushWrite PROVE RingInv'
  OBVIOUS
<1>0. FlagsOK'
  BY NextFlags DEF RingInv, TypeOK, Next, PushStep, PopStep
<1> USE DEF RingInv, PushWrite
<1>1. producer \in Nat /\ consumer \in Nat /\ consumer <= producer
      /\ producer - consumer < Capacity
  BY DEF TypeOK, ValidCounters, PushInv
<1>2. Slot(producer) \in Slots
  BY <1>1, SlotInRange
<1>3. TypeOK'
  BY <1>0, <1>2 DEF TypeOK, PushInv, popVars, closeVars, PushPCs
<1>4. UnreadIntact'
  <2>1. SUFFICES ASSUME NEW i \in consumer .. producer - 1
                 PROVE  slots'[Slot(i)] = sent[i + 1]
    BY <1>1 DEF UnreadIntact
  <2>2. i \in Nat /\ i < producer /\ producer - i < Capacity
    BY <1>1, RingAssumption
  <2>3. Slot(i) # Slot(producer)
    BY <2>2, <1>1, SlotDistinct
  <2>4. slots'[Slot(i)] = slots[Slot(i)]
    BY <2>3, <1>2 DEF TypeOK
  <2> QED
    BY <2>4 DEF UnreadIntact
<1>5. PushInv'
  <2>1. slots'[Slot(producer)] = precord
    BY <1>2 DEF TypeOK
  <2> QED
    BY <2>1 DEF PushInv, Slot, TypeOK
<1> QED
  BY <1>3, <1>4, <1>5 DEF ValidCounters, DeliveredInOrder, PopInv, popVars

(***************************************************************************)
(* Publishing makes the written record, and no other slot, readable.       *)
(***************************************************************************)
LEMMA PushPublishInv == RingInv /\ PushPublish => RingInv'
<1> SUFFICES ASSUME RingInv, PushPublish PROVE RingInv'
  OBVIOUS
<1>0. FlagsOK'
  BY NextFlags DEF RingInv, TypeOK, Next, PushStep, PopStep
<1> USE DEF RingInv, PushPublish
<1>1. /\ producer \in Nat /\ consumer \in Nat /\ sent \in Seq(Records)
      /\ precord \in Records /\ Len(sent) = producer /\ consumer <= producer
      /\ producer - consumer < Capacity /\ producer < MaxRecords
      /\ slots[Slot(producer)] = precord
  BY DEF TypeOK, PushInv, ValidCounters
<1>2. /\ sent' \in Seq(Records) /\ Len(sent') = producer + 1
      /\ sent'[producer + 1] = precord
      /\ \A i \in 1 .. producer : sent'[i] = sent[i]
  BY <1>1
<1>3. TypeOK'
  BY <1>0, <1>1, <1>2 DEF TypeOK, popVars, closeVars, PushPCs
<1>4. UnreadIntact'
  <2>1. SUFFICES ASSUME NEW i \in consumer .. producer
                 PROVE  slots[Slot(i)] = sent'[i + 1]
    BY <1>1 DEF UnreadIntact, Slot
  <2>2. CASE i = producer
    BY <2>2, <1>1, <1>2
  <2>3. CASE i < producer
    <3>1. i \in consumer .. producer - 1 /\ i + 1 \in 1 .. producer
      BY <2>3, <1>1
    <3> QED
      BY <3>1, <1>2 DEF UnreadIntact
  <2> QED
    BY <2>2, <2>3, <1>1
<1>5. DeliveredInOrder'
  BY <1>1, <1>2 DEF DeliveredInOrder
<1>6. PushInv'
  BY <1>1, <1>2, RingAssumption DEF PushInv
<1>7. PopInv'
  BY <1>1, <1>2 DEF PopInv, popVars
<1>8. ValidCounters' /\ (producer <= MaxRecords)'
  BY <1>1, RingAssumption DEF ValidCounters
<1> QED
  BY <1>3, <1>4, <1>5, <1>6, <1>7, <1>8

(***************************************************************************)
(* The copy reads the oldest unread record; it is still there.             *)
(***************************************************************************)
LEMMA PopCopyInv == RingInv /\ PopCopy => RingInv'
<1> SUFFICES ASSUME RingInv, PopCopy PROVE RingInv'
  OBVIOUS
<1>0. FlagsOK'
  BY NextFlags DEF RingInv, TypeOK, Next, PushStep, PopStep
<1> USE DEF RingInv, PopCopy
<1>1. producer \in Nat /\ consumer \in Nat /\ consumer < producer
  BY DEF TypeOK, PopInv
<1>2. cbuf' = sent[consumer + 1]
  BY <1>1 DEF UnreadIntact
<1>3. cbuf' \in Records
  BY <1>1, <1>2 DEF TypeOK, PushInv
<1>4. TypeOK'
  BY <1>0, <1>3 DEF TypeOK, ringVars, pushVars, closeVars, PopPCs
<1>5. PopInv'
  BY <1>1, <1>2 DEF PopInv, ringVars
<1> QED
  BY <1>4, <1>5
  DEF ValidCounters, UnreadIntact, DeliveredInOrder, PushInv, ringVars, pushVars,
      Slot

(***************************************************************************)
(* Giving the slot back returns exactly the next record.                   *)
(***************************************************************************)
LEMMA PopReleaseInv == RingInv /\ PopRelease => RingInv'
<1> SUFFICES ASSUME RingInv, PopRelease PROVE RingInv'
  OBVIOUS
<1>0. FlagsOK'
  BY NextFlags DEF RingInv, TypeOK, Next, PushStep, PopStep
<1> USE DEF RingInv, PopRelease
<1>1. /\ producer \in Nat /\ consumer \in Nat /\ consumer < producer
      /\ sent \in Seq(Records) /\ Len(sent) = producer
      /\ received \in Seq(Records) /\ Len(received) = consumer
      /\ cbuf = sent[consumer + 1]
  BY DEF TypeOK, PopInv, PushInv, DeliveredInOrder
<1>2. cbuf \in Records
  BY <1>1
<1>3. /\ received' \in Seq(Records) /\ Len(received') = consumer + 1
      /\ received'[consumer + 1] = cbuf
      /\ \A i \in 1 .. consumer : received'[i] = received[i]
  BY <1>1, <1>2
<1>4. TypeOK'
  BY <1>0, <1>1, <1>3 DEF TypeOK, pushVars, closeVars, PopPCs
<1>5. UnreadIntact'
  BY <1>1 DEF UnreadIntact, Slot
<1>6. DeliveredInOrder'
  <2>1. \A i \in 1 .. consumer + 1 : received'[i] = sent[i]
    BY <1>1, <1>3 DEF DeliveredInOrder
  <2> QED
    BY <2>1, <1>3 DEF DeliveredInOrder
<1>7. PushInv'
  BY <1>1, RingAssumption DEF PushInv, pushVars, Slot, TypeOK
<1>8. PopInv' /\ ValidCounters'
  BY <1>1, RingAssumption DEF PopInv, ValidCounters
<1> QED
  BY <1>4, <1>5, <1>6, <1>7, <1>8

(***************************************************************************)
(* Loading the other end's counter: what is learnt stays true, because     *)
(* only the other end moves that counter and only upwards.                 *)
(***************************************************************************)
LEMMA LoadInv == RingInv /\ (PushLoad \/ PopLoad) => RingInv'
<1> SUFFICES ASSUME RingInv, PushLoad \/ PopLoad PROVE RingInv'
  OBVIOUS
<1>0. FlagsOK'
  BY NextFlags DEF RingInv, TypeOK, Next, PushStep, PopStep
<1>1. CASE PushLoad
  <2>1. /\ ppc = "load" /\ ppc' \in {"full", "corrupt", "write"}
        /\ ppc' = "write" => producer - consumer < Capacity
    BY <1>1, RingAssumption DEF PushLoad, RingInv, TypeOK, ValidCounters
  <2>2. UNCHANGED <<ringVars, precord, pretry, popVars, closeVars, sent,
                    received>>
    BY <1>1 DEF PushLoad
  <2> QED
    BY <1>0, <2>1, <2>2
    DEF RingInv, TypeOK, ValidCounters, UnreadIntact, DeliveredInOrder,
        PushInv, PopInv, ringVars, popVars, closeVars, PushPCs, Slot
<1>2. CASE PopLoad
  BY <1>0, <1>2, RingAssumption
  DEF PopLoad, RingInv, TypeOK, ValidCounters, UnreadIntact, DeliveredInOrder,
      PushInv, PopInv, ringVars, pushVars, closeVars, PopPCs, Slot
<1> QED
  BY <1>1, <1>2

(***************************************************************************)
(* The steps that touch neither a counter nor a slot.                      *)
(***************************************************************************)
Quiet ==
    \/ \E r \in Records : PushStart(r)
    \/ PushCheck \/ PushNotify \/ PushFull \/ PushDrain \/ PushWake \/ PushTimeout
    \/ PopStart \/ PopNotify \/ PopEmpty \/ PopDrain \/ PopWake \/ PopTimeout
    \/ CloseFlag \/ CloseNotifyData \/ CloseNotifySpace

(***************************************************************************)
(* They preserve the invariant.                                            *)
(***************************************************************************)
LEMMA QuietInv == RingInv /\ Quiet => RingInv'
<1> SUFFICES ASSUME RingInv, Quiet PROVE RingInv'
  OBVIOUS
<1>0. FlagsOK'
  BY NextFlags DEF RingInv, TypeOK, Next, PushStep, PopStep, Quiet
<1> USE <1>0, RingAssumption
    DEF RingInv, TypeOK, ValidCounters, UnreadIntact, DeliveredInOrder, PushInv,
        PopInv, ringVars, pushVars, popVars, closeVars, PushPCs, PopPCs, Slot
<1>1. ASSUME NEW r \in Records, PushStart(r) PROVE RingInv'
  BY <1>1 DEF PushStart
<1>2. CASE PushCheck
  BY <1>2 DEF PushCheck
<1>3. CASE PushNotify
  BY <1>3 DEF PushNotify
<1>4. CASE PushFull
  BY <1>4 DEF PushFull
<1>5. CASE PushDrain
  BY <1>5 DEF PushDrain
<1>6. CASE PushWake
  BY <1>6 DEF PushWake
<1>7. CASE PushTimeout
  BY <1>7 DEF PushTimeout
<1>8. CASE PopStart
  BY <1>8 DEF PopStart
<1>9. CASE PopNotify
  BY <1>9 DEF PopNotify
<1>10. CASE PopEmpty
  BY <1>10 DEF PopEmpty
<1>11. CASE PopDrain
  BY <1>11 DEF PopDrain
<1>12. CASE PopWake
  BY <1>12 DEF PopWake
<1>13. CASE PopTimeout
  BY <1>13 DEF PopTimeout
<1>14. CASE CloseFlag
  BY <1>14 DEF CloseFlag
<1>15. CASE CloseNotifyData
  BY <1>15 DEF CloseNotifyData
<1>16. CASE CloseNotifySpace
  BY <1>16 DEF CloseNotifySpace
<1> QED
  BY <1>1, <1>2, <1>3, <1>4, <1>5, <1>6, <1>7, <1>8, <1>9, <1>10, <1>11,
     <1>12, <1>13, <1>14, <1>15, <1>16 DEF Quiet

(***************************************************************************)
(* Every step preserves the invariant.                                     *)
(***************************************************************************)
LEMMA NextRingInv == RingInv /\ [Next]_vars => RingInv'
<1> SUFFICES ASSUME RingInv, [Next]_vars PROVE RingInv'
  OBVIOUS
<1>1. CASE Quiet
  BY <1>1, QuietInv
<1>2. CASE PushLoad \/ PopLoad
  BY <1>2, LoadInv
<1>3. CASE PushWrite
  BY <1>3, PushWriteInv
<1>4. CASE PushPublish
  BY <1>4, PushPublishInv
<1>5. CASE PopCopy
  BY <1>5, PopCopyInv
<1>6. CASE PopRelease
  BY <1>6, PopReleaseInv
<1>7. CASE UNCHANGED vars
  BY <1>7, NextFlags
  DEF RingInv, TypeOK, ValidCounters, UnreadIntact, DeliveredInOrder, PushInv,
      PopInv, vars, ringVars, pushVars, popVars, closeVars, Slot
<1> QED
  BY <1>1, <1>2, <1>3, <1>4, <1>5, <1>6, <1>7 DEF Next, PushStep, PopStep,
         Quiet

(***************************************************************************)
(* The inductive invariant holds in every reachable state of the ring.     *)
(***************************************************************************)
THEOREM RingInvariance == Spec => []RingInv
<1>1. Init => RingInv
  BY InitRingInv
<1>2. RingInv /\ [Next]_vars => RingInv'
  BY NextRingInv
<1> QED
  BY <1>1, <1>2, PTL DEF Spec

(***************************************************************************)
(* Every variable of the ring stays in its type; in particular no pop      *)
(* returns the contents of a slot that was never written.                  *)
(***************************************************************************)
THEOREM TypeCorrect == Spec => []TypeOK
<1>1. RingInv => TypeOK
  BY DEF RingInv
<1> QED
  BY <1>1, RingInvariance, PTL

(***************************************************************************)
(* The ring never overwrites an unread record, although the producer acts  *)
(* on a consumer counter that may be stale.                                *)
(***************************************************************************)
THEOREM NeverOverwrites == Spec => []UnreadIntact
<1>1. RingInv => UnreadIntact
  BY DEF RingInv
<1> QED
  BY <1>1, RingInvariance, PTL

(***************************************************************************)
(* pop returns what push published, in order.                              *)
(***************************************************************************)
THEOREM InOrderDelivery == Spec => []DeliveredInOrder
<1>1. RingInv => DeliveredInOrder
  BY DEF RingInv
<1> QED
  BY <1>1, RingInvariance, PTL

(***************************************************************************)
(* As long as the counters cannot overflow, no end ever reports a corrupt  *)
(* ring: the counters it reads, one after the other while the peer moves,  *)
(* are always plausible to validate_counters.                              *)
(***************************************************************************)
THEOREM NoFalseCorruption ==
    ASSUME MaxRecords <= MaxCounter
    PROVE  Spec => []NeverCorrupt
<1>1. Init => NeverCorrupt
  BY DEF Init, NeverCorrupt
<1>2. RingInv /\ NeverCorrupt /\ [Next]_vars => NeverCorrupt'
  <2> SUFFICES ASSUME RingInv, NeverCorrupt, [Next]_vars PROVE NeverCorrupt'
    OBVIOUS
  <2>1. /\ ValidCounters /\ producer \in Nat /\ consumer \in Nat
        /\ producer <= MaxRecords
        /\ ppc = "load" => producer < MaxRecords
        /\ MaxRecords \in Nat /\ MaxCounter \in Nat
    BY RingAssumption DEF RingInv, TypeOK, PushInv
  <2>2. CASE PushLoad
    <3>1. ppc' # "corrupt"
      BY <2>1, <2>2 DEF PushLoad
    <3> QED
      BY <3>1, <2>2 DEF PushLoad, NeverCorrupt, popVars
  <2>3. CASE PopLoad
    <3>1. ValidCounters /\ producer # consumer => consumer # MaxCounter
      BY <2>1 DEF ValidCounters
    <3>2. cpc' # "corrupt"
      BY <2>1, <2>3, <3>1 DEF PopLoad
    <3> QED
      BY <3>2, <2>3 DEF PopLoad, NeverCorrupt, pushVars
  <2>4. CASE PushWrite \/ PushPublish \/ PopCopy \/ PopRelease
    BY <2>4 DEF PushWrite, PushPublish, PopCopy, PopRelease, NeverCorrupt,
                pushVars, popVars
  <2>5. CASE Quiet
    BY <2>5
    DEF Quiet, PushStart, PushCheck, PushNotify, PushFull, PushDrain, PushWake,
        PushTimeout, PopStart, PopNotify, PopEmpty, PopDrain, PopWake,
        PopTimeout, CloseFlag, CloseNotifyData, CloseNotifySpace,
        NeverCorrupt, pushVars, popVars
  <2>6. CASE UNCHANGED vars
    BY <2>6 DEF vars, pushVars, popVars, NeverCorrupt
  <2> QED
    BY <2>2, <2>3, <2>4, <2>5, <2>6 DEF Next, PushStep, PopStep, Quiet
<1> QED
  BY <1>1, <1>2, RingInvariance, PTL DEF Spec

-----------------------------------------------------------------------------
(***************************************************************************)
(* A function on an initial segment of the positive integers is a sequence.*)
(***************************************************************************)
LEMMA FunctionIsSeq ==
    ASSUME NEW S, NEW m \in Nat, NEW f \in [1 .. m -> S]
    PROVE  f \in Seq(S) /\ Len(f) = m
  OBVIOUS

(***************************************************************************)
(* The contents of the ring as the abstract queue sees them.               *)
(***************************************************************************)
RingQueue == [i \in 1 .. producer - consumer |-> slots[Slot(consumer + i - 1)]]

(***************************************************************************)
(* In terms of the records published, the queue is what was published and  *)
(* not yet consumed.                                                       *)
(***************************************************************************)
LEMMA QueueContents ==
    RingInv => RingQueue = [i \in 1 .. producer - consumer |-> sent[consumer + i]]
<1> SUFFICES ASSUME RingInv
    PROVE  RingQueue = [i \in 1 .. producer - consumer |-> sent[consumer + i]]
  OBVIOUS
<1>1. producer \in Nat /\ consumer \in Nat /\ consumer <= producer
  BY DEF RingInv, TypeOK, ValidCounters
<1>2. ASSUME NEW i \in 1 .. producer - consumer
      PROVE  slots[Slot(consumer + i - 1)] = sent[consumer + i]
  <2>1. consumer + i - 1 \in consumer .. producer - 1
    BY <1>1
  <2>2. slots[Slot(consumer + i - 1)] = sent[consumer + i - 1 + 1]
    BY <2>1 DEF RingInv, UnreadIntact
  <2>3. consumer + i - 1 + 1 = consumer + i
    BY <1>1
  <2> QED
    BY <2>2, <2>3
<1> QED
  BY <1>2 DEF RingQueue

(***************************************************************************)
(* Every step of the ring is a step of the bounded FIFO or changes neither *)
(* its queue nor its closed flag.                                          *)
(***************************************************************************)
LEMMA FifoStep == RingInv /\ RingInv' /\ [Next]_vars => [Fifo!FifoNext]_(Fifo!fifoVars)
<1> SUFFICES ASSUME RingInv, RingInv', [Next]_vars
             PROVE  [Fifo!FifoNext]_(Fifo!fifoVars)
  OBVIOUS
<1> DEFINE n == producer - consumer
<1>1. /\ producer \in Nat /\ consumer \in Nat /\ consumer <= producer
      /\ sent \in Seq(Records) /\ Len(sent) = producer
      /\ n \in Nat /\ n <= Capacity /\ Capacity \in Nat
  BY RingAssumption DEF RingInv, TypeOK, ValidCounters, PushInv
<1>2. /\ RingQueue = [i \in 1 .. n |-> sent[consumer + i]]
      /\ RingQueue' = [i \in 1 .. n' |-> sent'[consumer' + i]]
  <2>1. (RingInv => RingQueue =
             [i \in 1 .. producer - consumer |-> sent[consumer + i]])'
    BY QueueContents, PTL
  <2> QED
    BY QueueContents, <2>1
<1>3. RingQueue \in Seq(Records) /\ Len(RingQueue) = n
  <2>1. \A i \in 1 .. n : sent[consumer + i] \in Records
    BY <1>1
  <2> QED
    BY <1>1, <1>2, <2>1
<1>4. CASE PushPublish
  <2>1. /\ n < Capacity /\ precord \in Records
        /\ producer' = producer + 1 /\ consumer' = consumer
        /\ sent' = Append(sent, precord) /\ closed' = closed
    BY <1>4 DEF PushPublish, RingInv, PushInv, TypeOK
  <2>2. n' = n + 1
    BY <2>1, <1>1
  <2>3. RingQueue' = [i \in 1 .. n + 1 |-> Append(sent, precord)[consumer + i]]
    BY <1>2, <2>1, <2>2
  <2>4. \A i \in 1 .. n : Append(sent, precord)[consumer + i] = sent[consumer + i]
    BY <1>1, <2>1
  <2>5. Append(sent, precord)[consumer + (n + 1)] = precord
    BY <1>1, <2>1
  <2>6. /\ Append(RingQueue, precord) \in Seq(Records)
        /\ Len(Append(RingQueue, precord)) = n + 1
        /\ \A i \in 1 .. n : Append(RingQueue, precord)[i] = RingQueue[i]
        /\ Append(RingQueue, precord)[n + 1] = precord
    BY <1>3, <2>1, AppendProperties
  <2>7. /\ RingQueue' \in Seq(Records) /\ Len(RingQueue') = n + 1
        /\ \A i \in 1 .. n + 1 : RingQueue'[i] = Append(RingQueue, precord)[i]
    <3>1. ASSUME NEW i \in 1 .. n + 1
          PROVE  RingQueue'[i] = Append(RingQueue, precord)[i]
      <4>1. RingQueue'[i] = Append(sent, precord)[consumer + i]
        BY <2>3
      <4>2. CASE i = n + 1
        <5>1. RingQueue'[i] = precord
          BY <4>1, <4>2, <2>5
        <5>2. Append(RingQueue, precord)[i] = precord
          BY <4>2, <2>6
        <5> QED
          BY <5>1, <5>2
      <4>3. CASE i \in 1 .. n
        <5>1. RingQueue[i] = sent[consumer + i]
          BY <4>3, <1>2
        <5> QED
          BY <4>1, <4>3, <5>1, <2>4, <2>6
      <4>4. i = n + 1 \/ i \in 1 .. n
        BY <1>1
      <4> QED
        BY <4>2, <4>3, <4>4
    <3>2. \A i \in 1 .. n + 1 : RingQueue'[i] \in Records
      BY <1>1, <3>1, <2>6, ElementOfSeq
    <3>3. RingQueue' \in [1 .. n + 1 -> Records]
      BY <2>3, <3>2
    <3>4. n + 1 \in Nat
      BY <1>1
    <3> HIDE DEF n
    <3> QED
      BY <3>1, <3>3, <3>4, FunctionIsSeq
  <2>8. RingQueue' = Append(RingQueue, precord)
    BY <2>6, <2>7, SeqEqual
  <2>9. Fifo!Put(precord)
    BY <1>3, <2>1, <2>8 DEF Fifo!Put, RingQueue
  <2> QED
    BY <2>1, <2>9 DEF Fifo!FifoNext
<1>5. CASE PopRelease
  <2>1. /\ consumer < producer /\ producer' = producer
        /\ consumer' = consumer + 1 /\ sent' = sent /\ closed' = closed
    BY <1>5 DEF PopRelease, RingInv, PopInv
  <2>2. n' = n - 1 /\ n > 0
    BY <2>1, <1>1
  <2>3. RingQueue' = [i \in 1 .. n - 1 |-> sent[consumer + 1 + i]]
    BY <1>2, <2>1, <2>2
  <2>4. /\ RingQueue # <<>>
        /\ Tail(RingQueue) \in Seq(Records) /\ Len(Tail(RingQueue)) = n - 1
        /\ \A i \in 1 .. n - 1 : Tail(RingQueue)[i] = RingQueue[i + 1]
    <3>1. RingQueue # <<>>
      BY <1>3, <2>2
    <3> QED
      BY <1>3, <3>1, HeadTailProperties
  <2>5. /\ RingQueue' \in Seq(Records) /\ Len(RingQueue') = n - 1
        /\ \A i \in 1 .. n - 1 : RingQueue'[i] = Tail(RingQueue)[i]
    <3>1. ASSUME NEW i \in 1 .. n - 1
          PROVE  RingQueue'[i] = Tail(RingQueue)[i]
      <4>1. i + 1 \in 1 .. n /\ consumer + 1 + i = consumer + (i + 1)
        BY <1>1, <2>2
      <4>2. RingQueue[i + 1] = sent[consumer + 1 + i]
        BY <1>2, <4>1
      <4>3. Tail(RingQueue)[i] = RingQueue[i + 1]
        BY <2>4
      <4>4. RingQueue'[i] = sent[consumer + 1 + i]
        BY <2>3
      <4> QED
        BY <4>2, <4>3, <4>4
    <3>2. \A i \in 1 .. n - 1 : RingQueue'[i] \in Records
      BY <1>1, <2>2, <3>1, <2>4, ElementOfSeq
    <3>3. RingQueue' \in [1 .. n - 1 -> Records]
      BY <2>3, <3>2
    <3>4. n - 1 \in Nat
      BY <1>1, <2>2
    <3> HIDE DEF n
    <3> QED
      BY <3>1, <3>3, <3>4, FunctionIsSeq
  <2>6. RingQueue' = Tail(RingQueue) /\ RingQueue # <<>>
    BY <2>4, <2>5, SeqEqual
  <2>7. Fifo!Take
    BY <2>1, <2>6 DEF Fifo!Take, RingQueue
  <2> QED
    BY <2>7 DEF Fifo!FifoNext
<1>6. CASE CloseFlag
  <2>1. CASE closed
    BY <1>6, <2>1 DEF CloseFlag, Fifo!fifoVars, Slot
  <2>2. CASE ~closed
    BY <1>6, <2>2 DEF CloseFlag, Fifo!FifoNext, Fifo!Shut, Slot
  <2> QED
    BY <2>1, <2>2
<1>7. CASE PushWrite
  <2>1. RingQueue' = RingQueue
    BY <1>2, <1>7, <1>1 DEF PushWrite
  <2> QED
    BY <2>1, <1>7 DEF PushWrite, Fifo!fifoVars, RingQueue
<1>8. CASE PushLoad \/ PopLoad \/ PopCopy
  BY <1>8 DEF PushLoad, PopLoad, PopCopy, ringVars, Fifo!fifoVars, Slot
<1>9. CASE Quiet /\ ~CloseFlag
  BY <1>9
  DEF Quiet, PushStart, PushCheck, PushNotify, PushFull, PushDrain, PushWake,
      PushTimeout, PopStart, PopNotify, PopEmpty, PopDrain, PopWake,
      PopTimeout, CloseNotifyData, CloseNotifySpace, ringVars, Fifo!fifoVars,
      Slot
<1>10. CASE UNCHANGED vars
  BY <1>10 DEF vars, ringVars, Fifo!fifoVars, Slot
<1> QED
  BY <1>4, <1>5, <1>6, <1>7, <1>8, <1>9, <1>10
  DEF Next, PushStep, PopStep, Quiet

(***************************************************************************)
(* The ring, read out of its shared memory, implements the bounded FIFO.   *)
(***************************************************************************)
THEOREM RingRefinesFifo == Spec => ImplementsFifo
<1>1. Init => Fifo!FifoInit
  BY DEF Init, Fifo!FifoInit
<1>2. RingInv /\ RingInv' /\ [Next]_vars => [Fifo!FifoNext]_(Fifo!fifoVars)
  BY FifoStep
<1> QED
  BY <1>1, <1>2, RingInvariance, PTL DEF Spec, ImplementsFifo, Fifo!FifoSpec
=============================================================================
